---------------------------------- MODULE DB ----------------------------------
(***************************************************************************)
(* The storage engine: one client thread that writes through the WAL into  *)
(* the memtable and flushes it, one background thread that compacts, the   *)
(* files both leave on disk, and process crashes and recovery between any  *)
(* two of their steps.                                                     *)
(*                                                                         *)
(* What the log holds is the table its replay yields; a torn frame in it   *)
(* hides everything appended after it.                                     *)
(* A crash is a process crash: what was written to a file stays.           *)
(***************************************************************************)
EXTENDS Version

CONSTANTS
  Missing,         \* no file of that number
  Partial,         \* a file whose footer is not written yet
  FlushThreshold,  \* Options::memtable_flush_threshold, in entries
  TornWrites,      \* may an append stop in the middle of a frame?
  MaxWrites,       \* bound: calls of Put and Delete
  MaxFaults,       \* bound: failing system calls
  MaxCrashes       \* bound: crashes

ASSUME FileAssumption ==
  /\ Missing # Partial
  /\ Missing \notin Table
  /\ Partial \notin Table

ASSUME WriteAssumption ==
  FlushThreshold \in Nat \ {0} /\ TornWrites \in BOOLEAN

ASSUME BoundsAssumption ==
  MaxWrites \in Nat /\ MaxFaults \in Nat /\ MaxCrashes \in Nat

VARIABLES
  \* the client thread
  pc,       \* the step of Put, Delete or FlushMemTable it is at
  op,       \* the write in progress: {} or {<<key, value or Deleted>>}
  num,      \* FlushMemTable's number
  mem,      \* mem_
  \* the log
  wal,      \* what WalReplay would deliver
  torn,     \* is there a torn frame after that prefix?
  walOpen,  \* wal_.fd_ >= 0
  \* files
  disk,     \* SSTable files by number
  manifest, \* the MANIFEST file: next file number, file numbers by level
  \* shared under mu_
  current,  \* *current_
  nextFile, \* next_file_number_
  \* the background thread
  bg,       \* the step of BackgroundLoop or DoCompaction it is at
  comp,     \* the Compaction picked
  rest,     \* what the merging iterator has yet to deliver
  outs,     \* outputs
  bnum,     \* cur_number
  doomed,   \* input files still to be unlinked
  \* the environment
  up,       \* is a process running (DB::Open returned)?
  faults,   \* failed calls so far
  crashes,  \* crashes so far
  writes,   \* calls of Put and Delete so far
  unacked   \* ghost: keys whose last logged write was answered with an error

clientVars == <<pc, op, num, mem, unacked>>
walVars    == <<wal, torn, walOpen>>
bgVars     == <<bg, comp, rest, outs, bnum, doomed>>
envVars    == <<up, faults, crashes>>
vars == <<clientVars, walVars, disk, manifest, current, nextFile, bgVars, envVars, writes>>

-------------------------------------------------------------------------------
Get(k) == IF mem[k] # NotFound THEN mem[k] ELSE GetFromVersion(current, k)

-------------------------------------------------------------------------------
(* Manifest and recovery *)

ManifestOf(v) == [next |-> nextFile, files |-> [l \in Level |-> NumbersOf(v[l])]]

ManifestNumbers == UNION {manifest.files[l] : l \in Level}
LiveNumbers == UNION {NumbersOf(current[l]) : l \in Level}

\* The version LoadManifest builds from the manifest and the files it names.
Loaded == [l \in Level |-> {[number |-> n, data |-> disk[n]] : n \in manifest.files[l]}]

\* LoadManifest fails unless every file it names opens.
Loadable == \A n \in ManifestNumbers : disk[n] \notin {Missing, Partial}

\* What Get(k) would find after a crash now.
Recovered(k) == IF wal[k] # NotFound THEN wal[k] ELSE GetFromVersion(Loaded, k)

\* Mutant: one number too many.
NextAfter_Skip(m, numbers) ==
  CHOOSE n \in {m + 1} \cup {i + 2 : i \in numbers} :
    n >= m + 1 /\ \A i \in numbers : n >= i + 2

\* max(next_file, max_number + 1)
NextAfter(m, numbers) ==
  CHOOSE n \in {m} \cup {i + 1 : i \in numbers} :
    n >= m /\ \A i \in numbers : n >= i + 1

-------------------------------------------------------------------------------
Init ==
  /\ pc = "idle" /\ op = {} /\ num = 0 /\ mem = Empty /\ unacked = {}
  /\ wal = Empty /\ torn = FALSE /\ walOpen = TRUE
  /\ disk = [n \in Number |-> Missing]
  /\ manifest = [next |-> 1, files |-> [l \in Level |-> {}]]
  /\ current = NoFiles /\ nextFile = 1
  /\ bg = "idle" /\ comp = NoCompaction /\ rest = Empty /\ outs = {}
  /\ bnum = 0 /\ doomed = {}
  /\ up = TRUE /\ faults = 0 /\ crashes = 0 /\ writes = 0

\* A system call fails; the bound on how often.
Fault ==
  /\ faults < MaxFaults
  /\ faults' = faults + 1
  /\ UNCHANGED <<up, crashes>>
NoFault == UNCHANGED envVars

\* mu_ is held across two steps only while the memtable is being reset and
\* while a compaction's inputs are being unlinked.
MuFree == pc # "reset" /\ bg # "unlink"

-------------------------------------------------------------------------------
(* The client thread: Put, Delete *)

\* Mutant: Delete does not log its tombstone.
Append_NoTombstones(k, x) == IF torn \/ x = Deleted THEN wal ELSE [wal EXCEPT ![k] = x]

\* Replay stops at a torn frame, so an append after one adds nothing to it.
Append(k, x) == IF torn THEN wal ELSE [wal EXCEPT ![k] = x]

Writing ==
  /\ up /\ pc = "idle"
  /\ writes < MaxWrites
  /\ writes' = writes + 1

\* Put(k, x), or Delete(k) when x is a tombstone: AddRecord succeeds.
Log(k, x) ==
  /\ Writing /\ walOpen
  /\ wal' = Append(k, x)
  /\ pc' = "apply" /\ op' = {<<k, x>>}
  /\ UNCHANGED <<num, mem, unacked, torn, walOpen, disk, manifest, current, nextFile, bgVars, envVars>>

\* AddRecord fails, and with it the call: the descriptor is closed, the write
\* adds nothing or half a frame, or the frame is written and fsync fails.
LogFail(k, x) ==
  /\ Writing
  /\ \/ ~walOpen /\ NoFault /\ UNCHANGED <<wal, torn, walOpen, unacked>>
     \/ walOpen /\ Fault /\ UNCHANGED <<wal, torn, walOpen, unacked>>
     \/ walOpen /\ Fault /\ TornWrites /\ torn' = TRUE /\ UNCHANGED <<wal, walOpen, unacked>>
     \/ /\ walOpen /\ Fault
        /\ wal' = Append(k, x) /\ unacked' = unacked \cup {k}
        /\ UNCHANGED <<torn, walOpen>>
  /\ UNCHANGED <<pc, op, num, mem, disk, manifest, current, nextFile, bgVars>>

\* The memtable takes the write; at the threshold the same call flushes.
Apply ==
  /\ up /\ pc = "apply"
  /\ \E c \in op : mem' = [mem EXCEPT ![c[1]] = c[2]] /\ unacked' = unacked \ {c[1]}
  /\ op' = {}
  /\ pc' = IF Cardinality(KeysOf(mem')) >= FlushThreshold THEN "alloc" ELSE "idle"
  /\ UNCHANGED <<num, walVars, disk, manifest, current, nextFile, bgVars, envVars, writes>>

-------------------------------------------------------------------------------
(* The client thread: FlushMemTable *)

\* TEST_FlushMemTable; an empty memtable is not flushed.
FlushCall ==
  /\ up /\ pc = "idle" /\ mem # Empty
  /\ pc' = "alloc"
  /\ UNCHANGED <<op, num, mem, unacked, walVars, disk, manifest, current, nextFile, bgVars, envVars, writes>>

\* Take a file number under mu_, then create (or truncate) that file.
FlushAlloc ==
  /\ up /\ pc = "alloc" /\ MuFree /\ nextFile <= MaxFile
  /\ nextFile' = nextFile + 1
  /\ \/ /\ disk' = [disk EXCEPT ![nextFile] = Partial]
        /\ num' = nextFile /\ pc' = "build"
        /\ NoFault
     \/ Fault /\ pc' = "idle" /\ UNCHANGED <<disk, num>>
  /\ UNCHANGED <<op, mem, unacked, walVars, manifest, current, bgVars, writes>>

\* Mutant: the table is installed without its footer.
FlushBuild_NoFinish ==
  /\ up /\ pc = "build"
  /\ pc' = "install"
  /\ UNCHANGED <<op, num, mem, unacked, walVars, disk, manifest, current, nextFile, bgVars, envVars, writes>>

\* Mutant: the log is truncated as soon as the table is written.
FlushBuild_TruncateFirst ==
  /\ up /\ pc = "build"
  /\ disk' = [disk EXCEPT ![num] = mem] /\ wal' = Empty /\ torn' = FALSE
  /\ pc' = "install"
  /\ UNCHANGED <<op, num, mem, unacked, walOpen, manifest, current, nextFile, bgVars, envVars, writes>>

\* Write the memtable out; Finish syncs the footer, and the reader opens it.
FlushBuild ==
  /\ up /\ pc = "build"
  /\ \/ /\ disk' = [disk EXCEPT ![num] = mem]
        /\ pc' = "install" /\ NoFault /\ UNCHANGED num
     \/ /\ Fault /\ disk' \in {disk, [disk EXCEPT ![num] = mem]}
        /\ pc' = "idle" /\ num' = 0
  /\ UNCHANGED <<op, mem, unacked, walVars, manifest, current, nextFile, bgVars, writes>>

\* Under mu_: swap in the version with the new file, then rename the manifest.
\* If that fails the new version stays and the memtable is kept.
FlushInstall ==
  /\ up /\ pc = "install" /\ MuFree
  /\ current' = AddL0(current, [number |-> num, data |-> mem])
  /\ \/ manifest' = ManifestOf(current') /\ pc' = "reset" /\ NoFault
     \/ Fault /\ pc' = "idle" /\ UNCHANGED manifest
  /\ num' = 0
  /\ UNCHANGED <<op, mem, unacked, walVars, disk, nextFile, bgVars, writes>>

\* Still under mu_: a fresh memtable, and an empty log reopened for append.
\* A failing truncation is ignored; a failing open leaves the log closed.
FlushReset ==
  /\ up /\ pc = "reset"
  /\ mem' = Empty
  /\ \/ wal' = Empty /\ torn' = FALSE /\ unacked' = {} /\ walOpen' = TRUE /\ NoFault
     \/ wal' = Empty /\ torn' = FALSE /\ unacked' = {} /\ walOpen' = FALSE /\ Fault
     \/ UNCHANGED <<wal, torn, unacked>> /\ walOpen' \in BOOLEAN /\ Fault
  /\ pc' = "idle"
  /\ UNCHANGED <<op, num, disk, manifest, current, nextFile, bgVars, writes>>

-------------------------------------------------------------------------------
(* The background thread: BackgroundLoop, DoCompaction *)

BgIdle ==
  /\ bg' = "idle" /\ comp' = NoCompaction /\ rest' = Empty
  /\ outs' = {} /\ bnum' = 0 /\ doomed' = {}

BgPick ==
  /\ up /\ bg = "idle" /\ MuFree /\ NeedsCompaction(current)
  /\ comp' \in PickCompaction(current)
  /\ rest' = Merged(comp')
  /\ bg' = "merge"
  /\ UNCHANGED <<outs, bnum, doomed, clientVars, walVars, disk, manifest, current, nextFile, envVars, writes>>

\* The first record of an output takes a file number under mu_ and creates it.
BgOpenOutput ==
  /\ up /\ bg = "merge" /\ rest # Empty /\ MuFree /\ nextFile <= MaxFile
  /\ nextFile' = nextFile + 1
  /\ \/ /\ disk' = [disk EXCEPT ![nextFile] = Partial]
        /\ bnum' = nextFile /\ bg' = "write"
        /\ NoFault /\ UNCHANGED <<comp, rest, outs, doomed>>
     \/ Fault /\ BgIdle /\ UNCHANGED disk
  /\ UNCHANGED <<clientVars, walVars, manifest, current, writes>>

\* finish_output, when the file is large enough or the merge is exhausted.
BgFinishOutput ==
  /\ up /\ bg = "write"
  /\ LET data == Only(rest, Chunk(rest))
     IN  /\ disk' = [disk EXCEPT ![bnum] = data]
         /\ outs' = outs \cup {[number |-> bnum, data |-> data]}
  /\ rest' = Only(rest, KeysOf(rest) \ Chunk(rest))
  /\ bg' = "merge" /\ bnum' = 0
  /\ UNCHANGED <<comp, doomed, clientVars, walVars, manifest, current, nextFile, envVars, writes>>

\* An input cannot be read, or an output cannot be written, synced or opened:
\* the compaction is abandoned and its outputs so far stay behind.
BgFail ==
  /\ up /\ bg \in {"merge", "write"}
  /\ Fault /\ BgIdle
  /\ disk' \in {disk} \cup
       IF bg = "write" THEN {[disk EXCEPT ![bnum] = Only(rest, Chunk(rest))]} ELSE {}
  /\ UNCHANGED <<clientVars, walVars, manifest, current, nextFile, writes>>

\* Mutant: the outputs are removed when the manifest cannot be written.
BgInstall_DropOutputs ==
  /\ up /\ bg = "merge" /\ rest = Empty /\ MuFree
  /\ current' = InstallCompaction(current, comp, outs)
  /\ \/ /\ manifest' = ManifestOf(current')
        /\ doomed' = NumbersOf(Inputs(comp)) /\ bg' = "unlink"
        /\ NoFault /\ UNCHANGED <<comp, rest, outs, bnum, disk>>
     \/ /\ Fault /\ BgIdle /\ UNCHANGED manifest
        /\ disk' = [n \in Number |-> IF n \in NumbersOf(outs) THEN Missing ELSE disk[n]]
  /\ UNCHANGED <<clientVars, walVars, nextFile, writes>>

\* Mutant: the inputs are unlinked whether or not the manifest was written.
BgInstall_IgnoreStatus ==
  /\ up /\ bg = "merge" /\ rest = Empty /\ MuFree
  /\ current' = InstallCompaction(current, comp, outs)
  /\ \/ manifest' = ManifestOf(current') /\ NoFault
     \/ Fault /\ UNCHANGED manifest
  /\ doomed' = NumbersOf(Inputs(comp)) /\ bg' = "unlink"
  /\ UNCHANGED <<comp, rest, outs, bnum, clientVars, walVars, disk, nextFile, writes>>

\* Under mu_: swap in the new version, then rename the manifest.
BgInstall ==
  /\ up /\ bg = "merge" /\ rest = Empty /\ MuFree
  /\ current' = InstallCompaction(current, comp, outs)
  /\ \/ /\ manifest' = ManifestOf(current')
        /\ doomed' = NumbersOf(Inputs(comp)) /\ bg' = "unlink"
        /\ NoFault /\ UNCHANGED <<comp, rest, outs, bnum>>
     \/ Fault /\ BgIdle /\ UNCHANGED manifest
  /\ UNCHANGED <<clientVars, walVars, disk, nextFile, writes>>

\* Still under mu_: unlink one input; a failing unlink is ignored.
BgUnlink ==
  /\ up /\ bg = "unlink"
  /\ \E n \in doomed :
       /\ \/ disk' = [disk EXCEPT ![n] = Missing] /\ NoFault
          \/ Fault /\ UNCHANGED disk
       /\ IF doomed = {n} THEN BgIdle
          ELSE doomed' = doomed \ {n} /\ UNCHANGED <<bg, comp, rest, outs, bnum>>
  /\ UNCHANGED <<clientVars, walVars, manifest, current, nextFile, writes>>

-------------------------------------------------------------------------------
(* Crash, or the end of the process, and DB::Open *)

\* Memory is gone.  A crash inside write(2) leaves nothing, part or all of the
\* frame behind.
Crash ==
  /\ up /\ crashes < MaxCrashes
  /\ up' = FALSE /\ crashes' = crashes + 1 /\ UNCHANGED faults
  /\ \/ UNCHANGED <<wal, torn>>
     \/ pc = "idle" /\ walOpen /\ TornWrites /\ torn' = TRUE /\ UNCHANGED wal
     \/ /\ pc = "idle" /\ walOpen
        /\ \E k \in Keys, x \in Values \cup {Deleted} : wal' = Append(k, x)
        /\ UNCHANGED torn
  /\ walOpen' = FALSE
  /\ pc' = "idle" /\ op' = {} /\ num' = 0 /\ mem' = Empty /\ unacked' = {}
  /\ BgIdle
  /\ current' = NoFiles /\ nextFile' = 1
  /\ UNCHANGED <<disk, manifest, writes>>

\* Mutant: what the crash left behind is not removed.
Recover_NoCleanup ==
  /\ ~up /\ Loadable
  /\ current' = Loaded
  /\ nextFile' = NextAfter(manifest.next, ManifestNumbers)
  /\ mem' = wal /\ walOpen' = TRUE
  /\ up' = TRUE
  /\ UNCHANGED <<pc, op, num, unacked, wal, torn, disk, manifest, faults, crashes, bgVars, writes>>

\* Recover: load the manifest, replay the log into the memtable, open the log
\* for append behind whatever it holds, unlink the files no level names (what
\* cannot be unlinked is left for the next time).
Recover ==
  /\ ~up /\ Loadable
  /\ current' = Loaded
  /\ nextFile' = NextAfter(manifest.next, ManifestNumbers)
  /\ mem' = wal /\ walOpen' = TRUE
  /\ \E kept \in SUBSET {n \in Number \ ManifestNumbers : disk[n] # Missing} :
       /\ disk' = [n \in Number |->
                     IF n \in ManifestNumbers \cup kept THEN disk[n] ELSE Missing]
       /\ \/ kept = {} /\ UNCHANGED faults
          \/ kept # {} /\ faults < MaxFaults /\ faults' = faults + 1
  /\ up' = TRUE /\ UNCHANGED crashes
  /\ UNCHANGED <<pc, op, num, unacked, wal, torn, manifest, bgVars, writes>>

-------------------------------------------------------------------------------
Client ==
  \/ \E k \in Keys, x \in Values \cup {Deleted} : Log(k, x) \/ LogFail(k, x)
  \/ Apply
  \/ FlushCall \/ FlushAlloc \/ FlushBuild \/ FlushInstall \/ FlushReset

Background ==
  BgPick \/ BgOpenOutput \/ BgFinishOutput \/ BgFail \/ BgInstall \/ BgUnlink

Next == Client \/ Background \/ Crash \/ Recover

Spec == Init /\ [][Next]_vars

-------------------------------------------------------------------------------
(* Properties *)

\* Every variable keeps its type; file numbers stay within what the manifest
\* can name.
TypeOK ==
  /\ pc \in {"idle", "apply", "alloc", "build", "install", "reset"}
  /\ op \in SUBSET (Keys \X (Values \cup {Deleted}))
  /\ num \in 0 .. MaxFile
  /\ mem \in Table /\ unacked \subseteq Keys
  /\ wal \in Table /\ torn \in BOOLEAN /\ walOpen \in BOOLEAN
  /\ disk \in [Number -> Table \cup {Missing, Partial}]
  /\ manifest \in [next : 1 .. MaxFile + 1, files : [Level -> SUBSET Number]]
  /\ current \in [Level -> SUBSET File]
  /\ nextFile \in 1 .. MaxFile + 1
  /\ bg \in {"idle", "merge", "write", "unlink"}
  /\ comp \in Compactions
  /\ rest \in Table /\ outs \in SUBSET File /\ bnum \in 0 .. MaxFile
  /\ doomed \subseteq Number
  /\ up \in BOOLEAN /\ faults \in Nat /\ crashes \in Nat /\ writes \in Nat

\* Below level 0 no two files of a level share a stretch of the key space,
\* whatever flushes land between the picking and the installing of a
\* compaction: GetFromVersion's binary search looks into one file per level.
LevelsDisjoint == \A l \in Level \ {0} : Disjoint(current[l])

\* A file that the running version names is complete on disk, with the content
\* its reader was opened on, and carries a number no other file of the version
\* has: numbers are handed out to the flush and to the compaction concurrently,
\* and reused after a crash.
LiveFilesIntact ==
  /\ \A l \in Level : \A f \in current[l] : disk[f.number] = f.data
  /\ \A l, m \in Level : \A f \in current[l], g \in current[m] :
       f.number = g.number => l = m /\ f = g

\* At every instant a crash leaves a manifest all of whose files are complete,
\* so DB::Open succeeds.
ManifestLoadable == Loadable

\* A write that was acknowledged, and not followed by a failed one to the same
\* key, reads the same after a crash as it does now.
AckedDurable ==
  up => \A k \in Keys \ unacked :
          \/ \E c \in op : c[1] = k
          \/ Live(Recovered(k)) = Live(Get(k))

\* The same as long as the log has no torn frame in it.
AckedDurableUnlessTorn == ~torn => AckedDurable

\* Only the memtable insert of a Put or a Delete changes what a key reads as:
\* flushing, compacting, failing and unlinking do not.
ReadsStable ==
  [][up /\ up' => \A k \in Keys :
       Live(Get(k)') = Live(Get(k)) \/ \E c \in op : c[1] = k]_vars

\* The last level holds no tombstone: a delete that has sunk all the way down
\* is gone.
TombstonesReclaimed ==
  \A f \in current[MaxLevels - 1] : \A k \in Keys : f.data[k] # Deleted

\* With both threads at rest and no call ever failed, the tables (.sst files) in
\* the directory are those of the running version and no other: a crash or a
\* compaction leaves none behind that the next DB::Open or the unlinking does
\* not remove.
NoOrphans ==
  up /\ pc = "idle" /\ bg = "idle" /\ faults = 0
    => {n \in Number : disk[n] # Missing} = LiveNumbers

\* A compaction that fails leaves the version it found.
FailedCompactionKeepsVersion ==
  [][up' /\ bg \in {"merge", "write"} /\ bg' = "idle" => current' = current]_vars

\* The engine implements the crash-safe map of KVStore.
DurableView ==
  LET v == Loaded
  IN  [k \in Keys |-> Live(IF wal[k] # NotFound THEN wal[k] ELSE GetFromVersion(v, k))]
StoreView == IF up THEN [k \in Keys |-> Live(Get(k))] ELSE DurableView
OpView == {<<c[1], Live(c[2])>> : c \in op}
KV == INSTANCE KVStore
        WITH Absent <- NotFound, store <- StoreView, durable <- DurableView, op <- OpView,
             lossy <- torn
ImplementsKVStore == KV!Spec
===============================================================================
