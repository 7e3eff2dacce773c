------------------------------- MODULE PowerLoss ------------------------------
(***************************************************************************)
(* The engine's directory across a power failure.  The engine syncs the    *)
(* data of every file it writes and never the directory: a file's creation,*)
(* the renaming of the manifest, the truncation of the log and an unlinking*)
(* reach stable storage when the file system gets to them, in their order  *)
(* or in any.                                                              *)
(*                                                                         *)
(* Every write is of a key of its own, so that a table is a set of keys.   *)
(* Compaction merges all the files of the version into one, at any time.   *)
(***************************************************************************)
EXTENDS Integers, Sequences, FiniteSets

CONSTANTS
  Keys,       \* the keys, each written at most once
  Ordered,    \* does the file system keep its own operations in order?
  MaxFile     \* bound: file numbers handed out

Number == 1 .. MaxFile

VARIABLES
  dir,      \* the directory as the process sees it: log, manifest, files
  stable,   \* what of it is on stable storage
  pending,  \* the operations in between, oldest first
  content,  \* the keys in each table file; they are synced before its use
  mem,      \* mem_
  nextFile, \* next_file_number_
  pc, bg,   \* where the client and the background thread are
  num,      \* the file the client installs
  out,      \* the file the background thread installs
  inputs,   \* the files it replaces
  up,
  acked     \* ghost: the keys whose Put was acknowledged

vars == <<dir, stable, pending, content, mem, nextFile, pc, bg, num, out, inputs, up, acked>>

-------------------------------------------------------------------------------
(* The file system *)

\* What an operation does to a directory.
Do(d, operation) ==
  LET arg == operation[2] IN
  CASE operation[1] = "create" -> [d EXCEPT !.files = @ \cup {arg}]
    [] operation[1] = "rename" -> [d EXCEPT !.manifest = arg]
    [] operation[1] = "unlink" -> [d EXCEPT !.files = @ \ {arg}]
    [] operation[1] = "log"    -> [d EXCEPT !.log = arg]

\* The operations at positions S, in their order.
DoAll(d, ops, S) ==
  LET Go[i \in 0 .. Len(ops)] ==
        IF i = 0 THEN d ELSE IF i \in S THEN Do(Go[i - 1], ops[i]) ELSE Go[i - 1]
  IN  Go[Len(ops)]

\* A system call that changes the directory.
Issue(operation) ==
  /\ dir' = Do(dir, operation)
  /\ pending' = Append(pending, operation)
  /\ UNCHANGED stable

\* fsync of the log; a file system that keeps the order commits what is older.
SyncLog(keys) ==
  LET now == <<"log", keys>> IN
  /\ dir' = Do(dir, now)
  /\ IF Ordered
     THEN stable' = Do(DoAll(stable, pending, DOMAIN pending), now) /\ pending' = <<>>
     ELSE /\ stable' = Do(stable, now)
          /\ pending' = SelectSeq(pending, LAMBDA o : o[1] # "log")

-------------------------------------------------------------------------------
Init ==
  /\ dir = [log |-> {}, manifest |-> {}, files |-> {}] /\ stable = dir
  /\ pending = <<>> /\ content = [n \in Number |-> {}]
  /\ mem = {} /\ nextFile = 1 /\ pc = "idle" /\ bg = "idle" /\ num = 0
  /\ out = 0 /\ inputs = {}
  /\ up = TRUE /\ acked = {}

\* mu_ is held from the rename to the truncation, or to the last unlink.
MuFree == pc # "reset" /\ bg # "unlink"

\* Put, with Options::sync.
Put(k) ==
  /\ up /\ pc = "idle" /\ k \notin acked
  /\ SyncLog(dir.log \cup {k})
  /\ mem' = mem \cup {k} /\ acked' = acked \cup {k}
  /\ UNCHANGED <<content, nextFile, pc, bg, num, out, inputs, up>>

\* FlushMemTable creates a table file and syncs its data ...
FlushBuild ==
  /\ up /\ pc = "idle" /\ mem # {} /\ MuFree /\ nextFile <= MaxFile
  /\ Issue(<<"create", nextFile>>)
  /\ content' = [content EXCEPT ![nextFile] = mem]
  /\ num' = nextFile /\ nextFile' = nextFile + 1 /\ pc' = "install"
  /\ UNCHANGED <<mem, bg, out, inputs, up, acked>>

\* ... renames a manifest that names it ...
FlushInstall ==
  /\ up /\ pc = "install" /\ MuFree
  /\ Issue(<<"rename", dir.manifest \cup {num}>>)
  /\ num' = 0 /\ pc' = "reset"
  /\ UNCHANGED <<content, mem, nextFile, bg, out, inputs, up, acked>>

\* ... and truncates the log.
FlushReset ==
  /\ up /\ pc = "reset"
  /\ Issue(<<"log", {}>>)
  /\ mem' = {} /\ pc' = "idle"
  /\ UNCHANGED <<content, nextFile, bg, num, out, inputs, up, acked>>

\* DoCompaction creates its output and syncs the data ...
BgBuild ==
  /\ up /\ bg = "idle" /\ MuFree /\ dir.manifest # {} /\ nextFile <= MaxFile
  /\ Issue(<<"create", nextFile>>)
  /\ inputs' = dir.manifest
  /\ content' = [content EXCEPT ![nextFile] = UNION {content[n] : n \in inputs'}]
  /\ out' = nextFile /\ nextFile' = nextFile + 1 /\ bg' = "install"
  /\ UNCHANGED <<mem, pc, num, up, acked>>

\* ... renames a manifest with the output in place of the inputs ...
BgInstall ==
  /\ up /\ bg = "install" /\ MuFree
  /\ Issue(<<"rename", (dir.manifest \ inputs) \cup {out}>>)
  /\ out' = 0 /\ bg' = "unlink"
  /\ UNCHANGED <<content, mem, nextFile, pc, num, inputs, up, acked>>

\* ... and unlinks the inputs.
BgUnlink ==
  /\ up /\ bg = "unlink"
  /\ \E n \in inputs : Issue(<<"unlink", n>>) /\ inputs' = inputs \ {n}
  /\ bg' = IF inputs' = {} THEN "idle" ELSE "unlink"
  /\ UNCHANGED <<content, mem, nextFile, pc, num, out, up, acked>>

\* The power fails: some of the pending operations are on stable storage.
PowerCut ==
  /\ up /\ up' = FALSE
  /\ \E S \in SUBSET DOMAIN pending :
       /\ Ordered => \A i \in S : 1 .. i \subseteq S
       /\ stable' = DoAll(stable, pending, S)
  /\ dir' = stable' /\ pending' = <<>>
  /\ UNCHANGED <<content, mem, nextFile, pc, bg, num, out, inputs, acked>>

Next ==
  \/ \E k \in Keys : Put(k)
  \/ FlushBuild \/ FlushInstall \/ FlushReset
  \/ BgBuild \/ BgInstall \/ BgUnlink
  \/ PowerCut

Spec == Init /\ [][Next]_vars

-------------------------------------------------------------------------------
\* After a power failure DB::Open finds every file the manifest names, and the
\* log and those files together hold every write that was acknowledged.
AckedSurvivePowerCut ==
  ~up => /\ dir.manifest \subseteq dir.files
         /\ acked \subseteq dir.log \cup UNION {content[n] : n \in dir.manifest}
===============================================================================
