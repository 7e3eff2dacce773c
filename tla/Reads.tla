--------------------------------- MODULE Reads --------------------------------
(***************************************************************************)
(* The three ways tables are read together: a point lookup (DB::Get), a    *)
(* range scan (DB::Scan) and the merge a compaction writes out             *)
(* (MergingIterator).  Each holds its tables for as long as it runs, so    *)
(* none of them changes; but any read of a file may come upon a block that *)
(* fails its checksum.                                                     *)
(***************************************************************************)
EXTENDS Version, Sequences, FiniteSetsExt

CONSTANTS
  Calls,     \* what to run: a compaction, or a memtable and version with the
             \* key to get or the range to scan (end = 0 for an empty end)
  MaxFaults  \* bound: tables that fail at once

\* The calls are ones the engine makes: it reads from, and picks compactions of,
\* well-formed versions.
MergeOK(c) ==
  /\ \A f \in Inputs(c) : KeysOf(f.data) # {}
  /\ \A f, g \in Inputs(c) : f.number = g.number => f = g
  /\ Disjoint(c.tgts) /\ (c.source > 0 => Disjoint(c.srcs))
ASSUME CallsAssumption ==
  \A c \in Calls :
    \/ c.kind = "compaction" /\ c.compaction \in Compactions /\ MergeOK(c.compaction)
    \/ /\ \/ c.kind = "scan" /\ c.start \in Nat /\ c.end \in Nat
          \/ c.kind = "get" /\ c.key \in Keys
       /\ c.mem \in Table /\ c.version \in [Level -> SUBSET File] /\ VersionOK(c.version)

VARIABLES
  call,      \* the call
  sources,   \* its tables
  left,      \* by source: the keys at and behind its iterator; of a Get: the
             \* key, for the sources still to be asked
  failed,    \* the sources that came upon a corrupt block
  pc,        \* "new", the step it is at, then the status it returns
  out        \* the records delivered

vars == <<call, sources, left, failed, pc, out>>

-------------------------------------------------------------------------------
(* Sources and their priority *)

Source(l, files) == {[level |-> l, number |-> f.number, data |-> f.data] : f \in files}
Mem(mem) == [level |-> -1, number |-> 0, data |-> mem]

\* Compaction::inputs; the iterators of a scan, and the tables of a lookup.
InputsOf(c) == Source(c.source, c.srcs) \cup Source(c.source + 1, c.tgts)
TablesOf(mem, v) == {Mem(mem)} \cup UNION {Source(l, v[l]) : l \in Level}

\* Mutant: level 0 oldest first.
Precedes_OldestFirst(s, t) ==
  \/ s.level < t.level
  \/ s.level = t.level /\ IF s.level = 0 THEN s.number < t.number ELSE StartsFirst(s, t)

\* The order in which the tables are listed: the memtable, level 0 newest
\* first, then each deeper level by smallest key.
Precedes(s, t) ==
  \/ s.level < t.level
  \/ s.level = t.level /\ IF s.level = 0 THEN s.number > t.number ELSE StartsFirst(s, t)
First(S) == CHOOSE s \in S : \A t \in S \ {s} : Precedes(s, t)

Init ==
  /\ call \in Calls
  /\ sources = IF call.kind = "compaction" THEN InputsOf(call.compaction)
               ELSE TablesOf(call.mem, call.version)
  /\ left = [s \in sources |-> {}]
  /\ failed = {} /\ pc = "new" /\ out = <<>>

\* Of the sources that move, those that read a corrupt block; the memtable has
\* none.
Failures(moving) ==
  {F \in SUBSET {s \in moving : s.level >= 0} : Cardinality(F) <= MaxFaults}

\* The smallest key among the sources in valid, and those that hold it.
Smallest(l, valid) == Min(UNION {l[s] : s \in valid})
Holders(l, valid) == {s \in valid : Smallest(l, valid) \in l[s]}
Winner(l, valid) == First(Holders(l, valid)).data[Smallest(l, valid)]
Consume(l, valid) == [s \in sources |-> l[s] \ {Smallest(l, valid)}]

-------------------------------------------------------------------------------
(* MergingIterator *)

\* Mutant: a child with an error is taken for one that is exhausted.
Advance_SkipFailed(l, f) ==
  LET valid == {s \in sources \ f : l[s] # {}} IN
  IF valid = {}
  THEN pc' = (IF f = {} THEN "ok" ELSE "error") /\ left' = l /\ failed' = f /\ UNCHANGED out
  ELSE /\ pc' = "valid"
       /\ out' = Append(out, <<Smallest(l, valid), Winner(l, valid)>>)
       /\ left' = Consume(l, valid)
       /\ failed' \in {f \cup F : F \in Failures(Holders(l, valid))}

\* Mutant: the error of a child ends the merge and is not reported.
Advance_DropStatus(l, f) ==
  LET valid == {s \in sources : l[s] # {}} IN
  IF f # {} \/ valid = {}
  THEN pc' = "ok" /\ left' = l /\ failed' = f /\ UNCHANGED out
  ELSE /\ pc' = "valid"
       /\ out' = Append(out, <<Smallest(l, valid), Winner(l, valid)>>)
       /\ left' = Consume(l, valid)
       /\ failed' \in Failures(Holders(l, valid))

\* Deliver the smallest key, from the child of highest priority that holds it,
\* and move every child that does.  A child that has failed ends the merge.
Advance(l, f) ==
  LET valid == {s \in sources : l[s] # {}} IN
  IF f # {} \/ valid = {}
  THEN pc' = (IF f = {} THEN "ok" ELSE "error") /\ left' = l /\ failed' = f /\ UNCHANGED out
  ELSE /\ pc' = "valid"
       /\ out' = Append(out, <<Smallest(l, valid), Winner(l, valid)>>)
       /\ left' = Consume(l, valid)
       /\ failed' \in Failures(Holders(l, valid))

SeekToFirst ==
  /\ pc = "new" /\ call.kind = "compaction"
  /\ \E F \in Failures(sources) :
       Advance([s \in sources |-> KeysOf(s.data)], F)
  /\ UNCHANGED <<call, sources>>

NextRecord ==
  /\ pc = "valid"
  /\ Advance(left, failed)
  /\ UNCHANGED <<call, sources>>

-------------------------------------------------------------------------------
(* DB::Scan *)

\* Seek every iterator to start; the first that fails ends the call.
ScanSeek ==
  /\ pc = "new" /\ call.kind = "scan"
  /\ left' = [s \in sources |-> {k \in KeysOf(s.data) : k >= call.start}]
  /\ failed' \in Failures(sources)
  /\ pc' = IF failed' # {} THEN "error" ELSE "merging"
  /\ UNCHANGED <<call, sources, out>>

\* One round of the merge.  An iterator that has failed is not Valid and drops
\* out; the merge goes on without it.
ScanMerge ==
  /\ pc = "merging"
  /\ LET valid == {s \in sources \ failed : left[s] # {}} IN
     IF valid = {} \/ (call.end # 0 /\ Smallest(left, valid) >= call.end)
     THEN pc' = "merged" /\ UNCHANGED <<left, failed, out>>
     ELSE /\ left' = Consume(left, valid)
          /\ failed' \in {failed \cup F : F \in Failures(Holders(left, valid))}
          /\ out' = IF Winner(left, valid) = Deleted THEN out
                    ELSE Append(out, <<Smallest(left, valid), Winner(left, valid)>>)
          /\ UNCHANGED pc
  /\ UNCHANGED <<call, sources>>

\* Mutant: the iterators are not asked for their status.
ScanFinish_NoStatus ==
  /\ pc = "merged"
  /\ pc' = "ok"
  /\ UNCHANGED <<call, sources, left, failed, out>>

ScanFinish ==
  /\ pc = "merged"
  /\ pc' = IF failed # {} THEN "error" ELSE "ok"
  /\ UNCHANGED <<call, sources, left, failed, out>>

-------------------------------------------------------------------------------
(* DB::Get *)

Covers(s, k) == StartsBy(s, k) /\ \E b \in KeysOf(s.data) : k <= b

\* Mutant: the binary search ends one file too far to the left.
Starting_Strict(l, k) ==
  {s \in sources : s.level = l /\ \E a \in KeysOf(s.data) : a < k}

\* The files of level l whose smallest key is not behind k.
Starting(l, k) == {s \in sources : s.level = l /\ StartsBy(s, k)}

\* The tables a lookup asks: the memtable, the files of level 0 whose range
\* covers the key, and of each deeper level the last file that starts by it.
Candidates(k) ==
  {s \in sources :
     \/ s.level = -1
     \/ s.level = 0 /\ Covers(s, k)
     \/ /\ s.level > 0 /\ Covers(s, k) /\ s \in Starting(s.level, k)
        /\ \A t \in Starting(s.level, k) : StartsFirst(t, s)}

GetStart ==
  /\ pc = "new" /\ call.kind = "get"
  /\ left' = [s \in sources |-> IF s \in Candidates(call.key) THEN {call.key} ELSE {}]
  /\ pc' = "getting"
  /\ UNCHANGED <<call, sources, failed, out>>

\* Ask the next table.  One that cannot be read answers kNotFound and a status,
\* which is dropped.
GetAsk ==
  /\ pc = "getting"
  /\ LET valid == {s \in sources : left[s] # {}} IN
     IF valid = {} THEN pc' = "ok" /\ UNCHANGED <<left, failed, out>>
     ELSE \E F \in Failures({First(valid)}) :
            /\ left' = [left EXCEPT ![First(valid)] = {}]
            /\ failed' = failed \cup F
            /\ IF F = {} /\ First(valid).data[call.key] # NotFound
               THEN pc' = "ok" /\ out' = <<<<call.key, First(valid).data[call.key]>>>>
               ELSE UNCHANGED <<pc, out>>
  /\ UNCHANGED <<call, sources>>

Next ==
  \/ SeekToFirst \/ NextRecord
  \/ ScanSeek \/ ScanMerge \/ ScanFinish
  \/ GetStart \/ GetAsk

Spec == Init /\ [][Next]_vars

-------------------------------------------------------------------------------
(* Properties *)

Ascending == \A i, j \in DOMAIN out : i < j => out[i][1] < out[j][1]
Listed(k) == \E i \in DOMAIN out : out[i][1] = k
InMerge(k) == MergedEntry(call.compaction, k) # NotFound

\* What a compaction has been delivered is the beginning of the merge as the
\* engine's model has it: the keys in order and each once, none left out, each
\* with the entry that shadows the others.  Also when a child fails: no older
\* version of a key is delivered in place of one that could not be read.
DeliversMerged ==
  call.kind = "compaction" =>
    /\ Ascending
    /\ \A i \in DOMAIN out :
         /\ InMerge(out[i][1]) /\ out[i][2] = MergedEntry(call.compaction, out[i][1])
         /\ \A k \in Keys : k < out[i][1] /\ InMerge(k) => Listed(k)

\* A merge that ends without an error has delivered all of it.
CompleteUnlessFailed ==
  call.kind = "compaction" /\ pc = "ok" => \A k \in Keys : InMerge(k) => Listed(k)

\* What Get answers for k when every file can be read.
GetEntry(k) ==
  Live(IF call.mem[k] # NotFound THEN call.mem[k] ELSE GetFromVersion(call.version, k))
InRange(k) == k >= call.start /\ (call.end = 0 \/ k < call.end)

\* As long as no iterator has failed, what a scan has collected is in order, in
\* the range and what Get returns: nothing has to be taken back.
NothingToTakeBack ==
  call.kind = "scan" /\ failed = {} =>
    /\ Ascending
    /\ \A i \in DOMAIN out :
         InRange(out[i][1]) /\ out[i][2] = GetEntry(out[i][1]) /\ out[i][2] # NotFound

\* A scan that returns OK returns the keys of the range that Get finds, in
\* order and with the value Get returns, whatever happened to its iterators.
AgreesWithGet ==
  call.kind = "scan" /\ pc = "ok" =>
    /\ Ascending
    /\ \A i \in DOMAIN out : InRange(out[i][1]) /\ out[i][2] = GetEntry(out[i][1])
    /\ \A k \in Keys : InRange(k) /\ GetEntry(k) # NotFound => Listed(k)

\* A lookup ends with the entry of the newest table that has one for the key,
\* though it asks one file per level only, and leaves out the others by range.
Newest(k) ==
  LET held == {l \in Level : NewestEntry(call.version[l], k) # NotFound}
      x == IF call.mem[k] # NotFound THEN call.mem[k]
           ELSE IF held = {} THEN NotFound ELSE NewestEntry(call.version[Min(held)], k)
  IN  IF x = NotFound THEN <<>> ELSE <<<<k, x>>>>
GetFindsNewest ==
  call.kind = "get" /\ pc = "ok" /\ failed = {} => out = Newest(call.key)

\* Corruption is caught on read rather than silently returning bad data: what a
\* lookup finds is the newest entry, also when a block could not be read.
GetCatchesCorruption ==
  call.kind = "get" /\ pc = "ok" /\ out # <<>> => out = Newest(call.key)
===============================================================================
