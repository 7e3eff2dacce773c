------------------------------ MODULE Background ------------------------------
(***************************************************************************)
(* How the client thread and the background thread wake, wait for and stop *)
(* one another: mu_, bg_cv_ and idle_cv_ in FlushMemTable, BackgroundLoop, *)
(* TEST_WaitForCompactions and the destructor.                             *)
(*                                                                         *)
(* A critical section of mu_ is one step: nothing but other critical       *)
(* sections touches the variables below.  A condition variable is the set  *)
(* of threads asleep on it, here at most one, so that thread's program     *)
(* counter says it.  The version is the number of files in levels 0 and 1. *)
(***************************************************************************)
EXTENDS Integers

CONSTANTS
  L0Trigger,  \* Options::l0_compaction_trigger
  L1Target,   \* Options::l1_target_bytes, in files
  MaxL0,      \* bound: files in level 0
  MaxL1       \* bound: files in level 1

ASSUME BackgroundAssumption ==
  /\ L0Trigger \in Nat \ {0} /\ L1Target \in Nat
  /\ MaxL0 \in Nat \ {0} /\ MaxL1 \in Nat

VARIABLES
  client,        \* where the client thread is
  worker,        \* where the background thread is
  l0, l1,        \* current_: files in levels 0 and 1
  picked,        \* the compaction in progress: source level and files taken
  bg_busy,
  shutting_down,
  broken,        \* do system calls fail at the moment?
  unannounced    \* ghost: a flush that did not notify bg_cv_ has changed the
                 \* version since the worker last looked

vars == <<client, worker, l0, l1, picked, bg_busy, shutting_down, broken, unannounced>>

NoPick == [source |-> 0, files |-> 0]
NeedsCompaction == l0 >= L0Trigger \/ l1 > L1Target
\* Mutant: one file too many.
PickCompaction_OffByOne ==
  CASE l0 >= L0Trigger -> [source |-> 0, files |-> l0 + 1]
    [] l0 < L0Trigger /\ l1 > L1Target -> [source |-> 1, files |-> 1]
    [] OTHER -> NoPick
PickCompaction ==
  CASE l0 >= L0Trigger -> [source |-> 0, files |-> l0]
    [] l0 < L0Trigger /\ l1 > L1Target -> [source |-> 1, files |-> 1]
    [] OTHER -> NoPick

\* DB::Open, possibly on a directory with a backlog; the thread has just started.
Init ==
  /\ client = "idle" /\ worker = "lock"
  /\ l0 \in 0 .. MaxL0 /\ l1 \in 0 .. MaxL1
  /\ picked = NoPick /\ bg_busy = FALSE /\ shutting_down = FALSE
  /\ broken \in BOOLEAN /\ unannounced = FALSE

\* bg_cv_.notify_all and idle_cv_.notify_all: a sleeper goes for the lock.
NotifyWorker == worker' = IF worker = "asleep" THEN "lock" ELSE worker
NotifyClient == client' = IF client = "asleep" THEN "waiting" ELSE client

-------------------------------------------------------------------------------
(* The client thread *)

\* FlushMemTable writes the table outside mu_; it may fail there.
Flush ==
  /\ client = "idle" /\ l0 < MaxL0
  /\ client' = IF broken THEN "idle" ELSE "flushing"
  /\ UNCHANGED <<worker, l0, l1, picked, bg_busy, shutting_down, broken, unannounced>>

\* Mutant: the worker is not told.
FlushInstall_NoNotify ==
  /\ client = "flushing"
  /\ l0' = l0 + 1 /\ client' = "idle"
  /\ UNCHANGED <<worker, l1, picked, bg_busy, shutting_down, broken, unannounced>>

\* Under mu_: install the file.  When the manifest cannot be written or the log
\* not reopened the call returns before it notifies.
FlushInstall ==
  /\ client = "flushing"
  /\ l0' = l0 + 1 /\ client' = "idle"
  /\ IF broken THEN unannounced' = TRUE /\ UNCHANGED worker
               ELSE unannounced' = FALSE /\ NotifyWorker
  /\ UNCHANGED <<l1, picked, bg_busy, shutting_down, broken>>

WaitCall ==
  /\ client = "idle"
  /\ client' = "waiting"
  /\ UNCHANGED <<worker, l0, l1, picked, bg_busy, shutting_down, broken, unannounced>>

\* Mutant: the waiter relies on the flush to have woken the worker.
WaitCheck_NoNotify ==
  /\ client = "waiting"
  /\ client' = IF bg_busy \/ NeedsCompaction THEN "asleep" ELSE "idle"
  /\ UNCHANGED <<worker, l0, l1, picked, bg_busy, shutting_down, broken, unannounced>>

\* Mutant: only a compaction in progress is waited for.
WaitCheck_OnlyBusy ==
  /\ client = "waiting"
  /\ IF bg_busy
     THEN client' = "asleep" /\ NotifyWorker /\ unannounced' = FALSE
     ELSE client' = "idle" /\ UNCHANGED <<worker, unannounced>>
  /\ UNCHANGED <<l0, l1, picked, bg_busy, shutting_down, broken>>

\* One round of TEST_WaitForCompactions: return, or wake the worker and sleep.
WaitCheck ==
  /\ client = "waiting"
  /\ IF bg_busy \/ NeedsCompaction
     THEN client' = "asleep" /\ NotifyWorker /\ unannounced' = FALSE
     ELSE client' = "idle" /\ UNCHANGED <<worker, unannounced>>
  /\ UNCHANGED <<l0, l1, picked, bg_busy, shutting_down, broken>>

\* idle_cv_.wait_for gives up after 50 ms.
WaitTimeout ==
  /\ client = "asleep"
  /\ client' = "waiting"
  /\ UNCHANGED <<worker, l0, l1, picked, bg_busy, shutting_down, broken, unannounced>>

\* ~DB, under mu_.
Close ==
  /\ client = "idle"
  /\ shutting_down' = TRUE /\ client' = "joining"
  /\ NotifyWorker
  /\ UNCHANGED <<l0, l1, picked, bg_busy, broken, unannounced>>

\* bg_thread_.join, then the log is closed.
Join ==
  /\ client = "joining" /\ worker = "done"
  /\ client' = "closed"
  /\ UNCHANGED <<worker, l0, l1, picked, bg_busy, shutting_down, broken, unannounced>>

-------------------------------------------------------------------------------
(* The background thread *)

\* The loop goes on to a compaction only if both agree that there is one.
Due == NeedsCompaction /\ PickCompaction # NoPick

\* Mutant: the thread does the work that is due before it leaves.
LoopCheck_DrainFirst ==
  /\ worker = "lock"
  /\ \/ /\ ~Due /\ shutting_down
        /\ worker' = "done" /\ bg_busy' = FALSE /\ NotifyClient /\ UNCHANGED picked
     \/ /\ ~Due /\ ~shutting_down
        /\ worker' = "asleep" /\ bg_busy' = FALSE /\ NotifyClient /\ UNCHANGED picked
     \/ /\ Due
        /\ picked' = PickCompaction /\ worker' = "merging" /\ bg_busy' = TRUE
        /\ UNCHANGED client
  /\ unannounced' = FALSE
  /\ UNCHANGED <<l0, l1, shutting_down, broken>>

\* BackgroundLoop with mu_ held: leave, fall asleep (which releases mu_ in the
\* same step), or take up a compaction.
LoopCheck ==
  /\ worker = "lock"
  /\ \/ /\ shutting_down
        /\ worker' = "done" /\ bg_busy' = FALSE /\ NotifyClient /\ UNCHANGED picked
     \/ /\ ~shutting_down /\ ~Due
        /\ worker' = "asleep" /\ bg_busy' = FALSE /\ NotifyClient /\ UNCHANGED picked
     \/ /\ ~shutting_down /\ Due
        /\ picked' = PickCompaction /\ worker' = "merging" /\ bg_busy' = TRUE
        /\ UNCHANGED client
  /\ unannounced' = FALSE
  /\ UNCHANGED <<l0, l1, shutting_down, broken>>

\* Mutant: an error ends the thread.
Merge_ExitOnError ==
  /\ worker = "merging"
  /\ IF broken THEN worker' = "done" /\ picked' = NoPick
               ELSE worker' = "installing" /\ UNCHANGED picked
  /\ UNCHANGED <<client, l0, l1, bg_busy, shutting_down, broken, unannounced>>

\* DoCompaction outside mu_; an error sends the loop round again.
Merge ==
  /\ worker = "merging"
  /\ IF broken THEN worker' = "lock" /\ picked' = NoPick
               ELSE worker' = "installing" /\ UNCHANGED picked
  /\ UNCHANGED <<client, l0, l1, bg_busy, shutting_down, broken, unannounced>>

\* The end of DoCompaction, under mu_: the version changes whether or not the
\* manifest is written.
Install ==
  /\ worker = "installing"
  /\ IF picked.source = 0
     THEN /\ l0' = l0 - picked.files
          /\ l1' \in {n \in 0 .. MaxL1 : n <= l1 + picked.files}
     ELSE /\ l1' = l1 - picked.files
          /\ UNCHANGED l0
  /\ worker' = "lock" /\ picked' = NoPick
  /\ UNCHANGED <<client, bg_busy, shutting_down, broken, unannounced>>

\* bg_cv_.wait may return without a notification.
SpuriousWakeup ==
  /\ worker = "asleep"
  /\ worker' = "lock"
  /\ UNCHANGED <<client, l0, l1, picked, bg_busy, shutting_down, broken, unannounced>>

-------------------------------------------------------------------------------
\* The disk fills up, or has room again.
Disk ==
  /\ broken' = ~broken
  /\ UNCHANGED <<client, worker, l0, l1, picked, bg_busy, shutting_down, unannounced>>

\* Steps inside a call, and steps of the loop.  A thread that can go on does;
\* that a caller calls, that bg_cv_ wakes without cause and that the disk
\* changes is up to the environment.
InCall == FlushInstall \/ WaitCheck \/ WaitTimeout \/ Join
BackgroundLoop == LoopCheck \/ Merge \/ Install

Next ==
  \/ Flush \/ WaitCall \/ Close \/ InCall
  \/ BackgroundLoop \/ SpuriousWakeup
  \/ Disk

Spec == Init /\ [][Next]_vars /\ WF_vars(InCall) /\ WF_vars(BackgroundLoop)

-------------------------------------------------------------------------------
(* Properties *)

\* Every variable keeps its type, and a compaction never removes more files
\* from a level than it holds, whatever was flushed since it was picked.
TypeOK ==
  /\ client \in {"idle", "flushing", "waiting", "asleep", "joining", "closed"}
  /\ worker \in {"lock", "asleep", "merging", "installing", "done"}
  /\ l0 \in 0 .. MaxL0 /\ l1 \in 0 .. MaxL1
  /\ picked \in [source : {0, 1}, files : 0 .. MaxL0]
  /\ bg_busy \in BOOLEAN /\ shutting_down \in BOOLEAN
  /\ broken \in BOOLEAN /\ unannounced \in BOOLEAN

\* No wakeup is lost: the worker sleeps while there is work, or while the
\* destructor waits for it, only if a flush failed after installing its file.
SleepsOnlyWhenIdle ==
  worker = "asleep" => ~shutting_down /\ (NeedsCompaction => unannounced)

\* When TEST_WaitForCompactions returns, no compaction is running and none is
\* due ("block until the background thread is idle").
WaitMeansIdle ==
  [][client = "waiting" /\ client' = "idle"
       => worker \notin {"merging", "installing"} /\ ~NeedsCompaction]_vars

\* TEST_WaitForCompactions returns, if the disk is all right from some time on.
WaitReturns ==
  <>[]~broken => (client = "waiting" ~> client = "idle")

\* Work that was announced is taken up, unless the database is closed first.
WorkTakenUp ==
  NeedsCompaction /\ ~unannounced ~> worker = "merging" \/ shutting_down \/ ~NeedsCompaction

\* The destructor returns, even if every compaction fails.
CloseReturns == client = "joining" ~> client = "closed"
===============================================================================
