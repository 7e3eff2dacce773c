--------------------------- MODULE BackgroundProofs ---------------------------
(***************************************************************************)
(* No wakeup of the background thread is lost, for every trigger, target    *)
(* and number of files.                                                    *)
(***************************************************************************)
EXTENDS Background, TLAPS

\* Zenon proves the leaves; those with arithmetic, tuples or records name SMT.
USE Zenon

\* A compaction is picked with what the level held; the level has only grown
\* since, because nobody but the worker takes files away.  All the while
\* bg_busy_ is set.
PickFits ==
  worker \in {"merging", "installing"} =>
    /\ IF picked.source = 0 THEN picked.files <= l0 ELSE picked.files <= l1
    /\ bg_busy

\* There is room for the file a flush is writing: only the client adds any.
FlushFits == client = "flushing" => l0 < MaxL0

BInv == TypeOK /\ PickFits /\ FlushFits /\ SleepsOnlyWhenIdle

\* DB::Open establishes the invariant.
LEMMA BackgroundInit == Init => BInv
  <1> SUFFICES ASSUME Init PROVE BInv  OBVIOUS
  <1>1. picked \in [source : {0, 1}, files : 0 .. MaxL0]
    BY SMT, BackgroundAssumption DEF Init, NoPick
  <1>2. TypeOK  BY <1>1 DEF Init, TypeOK
  <1> QED BY <1>2 DEF Init, BInv, PickFits, FlushFits, SleepsOnlyWhenIdle

\* Where NeedsCompaction sees work PickCompaction finds some, and it fits in the
\* level it is from.
LEMMA PickIsBounded ==
  ASSUME TypeOK, NeedsCompaction
  PROVE  /\ Due
         /\ PickCompaction \in [source : {0, 1}, files : 0 .. MaxL0]
         /\ IF PickCompaction.source = 0 THEN PickCompaction.files <= l0
                                         ELSE PickCompaction.files <= l1
  <1>1. CASE l0 >= L0Trigger
    <2>1. PickCompaction = [source |-> 0, files |-> l0]
      BY SMT, <1>1, BackgroundAssumption DEF TypeOK, PickCompaction
    <2>2. l0 # 0 /\ l0 \in 0 .. MaxL0  BY SMT, <1>1, BackgroundAssumption DEF TypeOK
    <2> QED BY SMT, <2>1, <2>2 DEF Due, NoPick
  <1>2. CASE ~(l0 >= L0Trigger)
    <2>1. l0 < L0Trigger /\ l1 > L1Target /\ 1 <= l1 /\ 1 \in 0 .. MaxL0
      BY SMT, <1>2, BackgroundAssumption DEF TypeOK, NeedsCompaction
    <2>2. PickCompaction = [source |-> 1, files |-> 1]
      BY <1>2, <2>1 DEF PickCompaction
    <2> QED BY SMT, <2>1, <2>2 DEF Due, NoPick
  <1> QED BY <1>1, <1>2

\* A step of the client thread keeps the invariant.
LEMMA ClientStep ==
  ASSUME BInv, Flush \/ WaitCall \/ Close \/ InCall
  PROVE  BInv'
  <1> USE BackgroundAssumption DEF BInv, TypeOK, PickFits, FlushFits, SleepsOnlyWhenIdle, NeedsCompaction
  <1>1. CASE Flush  BY <1>1 DEF Flush
  <1>2. CASE WaitCall  BY <1>2 DEF WaitCall
  <1>3. CASE Close  BY <1>3 DEF Close, NotifyWorker
  <1>4. CASE FlushInstall
    <2>1. CASE broken  BY SMT, <1>4, <2>1 DEF FlushInstall
    <2>2. CASE ~broken
      <3>1. worker' \in {"lock", "asleep", "merging", "installing", "done"} /\ worker' # "asleep"
            /\ (worker' \in {"merging", "installing"} => worker' = worker)
        BY <1>4, <2>2 DEF FlushInstall, NotifyWorker
      <3>2. l0' = l0 + 1 /\ client' = "idle" /\ unannounced' = FALSE
            /\ UNCHANGED <<l1, picked, bg_busy, shutting_down, broken>>
        BY <1>4, <2>2 DEF FlushInstall
      <3>3. l0 \in 0 .. MaxL0 /\ l0 < MaxL0  BY <1>4 DEF FlushInstall
      <3>4. l0' \in 0 .. MaxL0  BY SMT, <3>3, <3>2
      <3>5. TypeOK' /\ FlushFits'  BY <3>1, <3>2, <3>4
      <3>6. PickFits'  BY SMT, <3>1, <3>2
      <3> QED BY <3>1, <3>5, <3>6
    <2> QED BY <2>1, <2>2
  <1>5. CASE WaitCheck  BY <1>5 DEF WaitCheck, NotifyWorker
  <1>6. CASE WaitTimeout  BY <1>6 DEF WaitTimeout
  <1>7. CASE Join  BY <1>7 DEF Join
  <1> QED BY <1>1, <1>2, <1>3, <1>4, <1>5, <1>6, <1>7 DEF InCall

\* A step of the background thread keeps the invariant.
LEMMA WorkerStep ==
  ASSUME BInv, BackgroundLoop \/ SpuriousWakeup
  PROVE  BInv'
  <1> USE BackgroundAssumption DEF BInv, TypeOK, PickFits, FlushFits, SleepsOnlyWhenIdle, NoPick
  <1>1. CASE LoopCheck
    <2>1. CASE shutting_down
      BY <1>1, <2>1 DEF LoopCheck, NotifyClient, NeedsCompaction
    <2>2. CASE ~shutting_down /\ ~NeedsCompaction
      BY <1>1, <2>2 DEF Due, LoopCheck, NotifyClient, NeedsCompaction
    <2>3. CASE ~shutting_down /\ NeedsCompaction
      BY <1>1, <2>3, PickIsBounded DEF LoopCheck, NeedsCompaction
    <2> QED BY <2>1, <2>2, <2>3
  <1>2. CASE Merge  BY SMT, <1>2 DEF Merge, NeedsCompaction
  <1>3. CASE Install
    <2>1. CASE picked.source = 0  BY SMT, <1>3, <2>1 DEF Install
    <2>2. CASE picked.source # 0  BY SMT, <1>3, <2>2 DEF Install
    <2> QED BY <2>1, <2>2
  <1>4. CASE SpuriousWakeup  BY <1>4 DEF SpuriousWakeup
  <1> QED BY <1>1, <1>2, <1>3, <1>4 DEF BackgroundLoop

\* The invariant is inductive.
LEMMA BackgroundInductive == Spec => []BInv
  <1>1. BInv /\ [Next]_vars => BInv'
    <2> SUFFICES ASSUME BInv, [Next]_vars PROVE BInv'  OBVIOUS
    <2>1. CASE Flush \/ WaitCall \/ Close \/ InCall  BY <2>1, ClientStep
    <2>2. CASE BackgroundLoop \/ SpuriousWakeup  BY <2>2, WorkerStep
    <2>3. CASE Disk
      <3>1. TypeOK'  BY <2>3 DEF Disk, BInv, TypeOK
      <3>2. PickFits' /\ FlushFits'  BY <2>3 DEF Disk, BInv, PickFits, FlushFits
      <3>3. SleepsOnlyWhenIdle'  BY <2>3 DEF Disk, BInv, SleepsOnlyWhenIdle, NeedsCompaction
      <3> QED BY <3>1, <3>2, <3>3 DEF BInv
    <2>4. CASE UNCHANGED vars
      <3>1. TypeOK'  BY <2>4 DEF vars, BInv, TypeOK
      <3>2. PickFits' /\ FlushFits'  BY <2>4 DEF vars, BInv, PickFits, FlushFits
      <3>3. SleepsOnlyWhenIdle'  BY <2>4 DEF vars, BInv, SleepsOnlyWhenIdle, NeedsCompaction
      <3> QED BY <3>1, <3>2, <3>3 DEF BInv
    <2> QED BY <2>1, <2>2, <2>3, <2>4 DEF Next
  <1> QED BY <1>1, BackgroundInit, PTL DEF Spec

\* A compaction never takes more files out of a level than it holds, whatever
\* was flushed since it was picked.
THEOREM CountsInBounds == Spec => []TypeOK
  BY BackgroundInductive, PTL DEF BInv

\* The background thread never sleeps through a due compaction that was
\* announced, nor through the destructor.
THEOREM NoLostWakeup == Spec => []SleepsOnlyWhenIdle
  BY BackgroundInductive, PTL DEF BInv

\* TEST_WaitForCompactions returns only when no compaction is in progress and
\* none is due.
THEOREM WaitSeesIdle == Spec => WaitMeansIdle
  <1>1. BInv /\ [Next]_vars
          => [client = "waiting" /\ client' = "idle"
                => worker \notin {"merging", "installing"} /\ ~NeedsCompaction]_vars
    <2> SUFFICES ASSUME BInv, [Next]_vars, client = "waiting", client' = "idle"
                 PROVE  worker \notin {"merging", "installing"} /\ ~NeedsCompaction
      OBVIOUS
    <2>1. WaitCheck
      BY DEF Next, vars, Flush, WaitCall, Close, InCall, FlushInstall, WaitTimeout, Join,
             BackgroundLoop, LoopCheck, Merge, Install, SpuriousWakeup, Disk, NotifyClient
    <2> QED BY <2>1 DEF WaitCheck, BInv, TypeOK, PickFits
  <1> QED BY <1>1, BackgroundInductive, PTL DEF Spec, WaitMeansIdle
===============================================================================
