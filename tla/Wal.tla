---------------------------------- MODULE Wal ---------------------------------
(***************************************************************************)
(* The write-ahead log, unit by unit: WalWriter frames records and writes  *)
(* them in as many write(2) calls as it takes, WalReplay parses what it    *)
(* finds.  A crash may be one of the process or of the machine.            *)
(*                                                                         *)
(* A file is a sequence of units: the CRC and the length of a frame are one *)
(* each, a payload takes one, or two when it carries a value.  The CRC of a *)
(* payload is the payload itself: no two payloads collide.                 *)
(***************************************************************************)
EXTENDS Integers, Sequences, FiniteSets

CONSTANTS
  Keys, Values,
  Deleted,     \* a tombstone
  NotFound,    \* no entry
  Sync,        \* Options::sync
  PowerLoss,   \* may a crash take what is not on stable storage?
  MaxUnits,    \* bound: length of the file
  MaxCrashes   \* bound: crashes

ASSUME WalAssumption ==
  Sync \in BOOLEAN /\ PowerLoss \in BOOLEAN /\ MaxUnits \in Nat /\ MaxCrashes \in Nat

Entries == Values \cup {Deleted}
Record == Keys \X Entries

VARIABLES
  file,     \* the units of wal.log as a process reads them
  synced,   \* how many of them are on stable storage
  up,       \* is the log open?
  pc,       \* where AddRecord is
  rec,      \* the record it writes
  start,    \* where its frame begins
  safe,     \* ghost: <<position, record>> of the records acknowledged while the
            \* log had no torn frame
  crashes

vars == <<file, synced, up, pc, rec, start, safe, crashes>>

-------------------------------------------------------------------------------
(* Frames and replay *)

HeaderSize == 2
Payload(r) == IF r[2] = Deleted THEN <<<<"data", r>>>> ELSE <<<<"data", r>>, <<"more", r>>>>
Crc32(payload) == <<"crc", payload>>
Frame(r) == <<Crc32(Payload(r)), <<"length", Len(Payload(r))>>>> \o Payload(r)

Unit ==
  {Crc32(Payload(r)) : r \in Record} \cup ({"length"} \X {1, 2})
    \cup ({"data", "more"} \X Record)

\* Mutant: the checksum is not compared.
Intact_NoCrc(f, pos) ==
  /\ pos + HeaderSize - 1 <= Len(f)
  /\ f[pos + 1][1] = "length"
  /\ pos + HeaderSize + f[pos + 1][2] - 1 <= Len(f)

\* The frame at pos is complete and its checksum matches.  Where the length is
\* not a length but part of another frame, it is garbage, and the frame runs
\* past the end or fails its checksum.
Intact(f, pos) ==
  /\ pos + HeaderSize - 1 <= Len(f)
  /\ f[pos + 1][1] = "length"
  /\ LET last == pos + HeaderSize + f[pos + 1][2] - 1
     IN  last <= Len(f) /\ f[pos] = Crc32(SubSeq(f, pos + HeaderSize, last))

\* Mutant: the header is not skipped.
NextFrame_NoHeader(f, pos) == pos + f[pos + 1][2]

\* Where the frame after the one at pos begins.
NextFrame(f, pos) == pos + HeaderSize + f[pos + 1][2]

\* WalReplay reads frames from the front until one is not intact: the values
\* that pos takes, and the frames it delivers.
Reached(f) ==
  LET Go[pos \in 1 .. Len(f) + 1] ==
        IF Intact(f, pos) THEN {pos} \cup Go[NextFrame(f, pos)] ELSE {pos}
  IN  Go[1]
Delivered(f) == {pos \in Reached(f) : Intact(f, pos)}

\* The table the handler builds from the records delivered, the last one winning.
WalReplay(f) ==
  [k \in Keys |->
     LET hits == {pos \in Delivered(f) : f[pos + HeaderSize][2][1] = k}
     IN  IF hits = {} THEN NotFound
         ELSE f[(CHOOSE i \in hits : \A j \in hits : j <= i) + HeaderSize][2][2]]

\* Replay stops before the end.
Torn(f) == Len(f) + 1 \notin Reached(f)

\* What the file held before the frame in progress.
Before == SubSeq(file, 1, start - 1)

-------------------------------------------------------------------------------
NoRecord == <<>>

Init ==
  /\ file = <<>> /\ synced = 0 /\ up = TRUE
  /\ pc = "idle" /\ rec = NoRecord /\ start = 1
  /\ safe = {} /\ crashes = 0

AddRecord(r) ==
  /\ up /\ pc = "idle" /\ Len(file) + Len(Frame(r)) <= MaxUnits
  /\ pc' = "write" /\ rec' = r /\ start' = Len(file) + 1
  /\ UNCHANGED <<file, synced, up, safe, crashes>>

Return ==
  /\ pc' = "idle" /\ rec' = NoRecord /\ start' = Len(file') + 1

Ack ==
  /\ Return
  /\ safe' = IF Torn(Before) THEN safe ELSE safe \cup {<<start, rec>>}

\* One write(2) of WriteFully: some of what is left of the frame.
Write ==
  /\ up /\ pc = "write"
  /\ LET frame == Frame(rec)
         off == Len(file) - start + 1
     IN  \E n \in 1 .. Len(frame) - off :
           /\ file' = file \o SubSeq(frame, off + 1, off + n)
           /\ IF off + n < Len(frame) THEN UNCHANGED <<pc, rec, start, safe>>
              ELSE IF Sync THEN pc' = "fsync" /\ UNCHANGED <<rec, start, safe>>
              ELSE Ack
  /\ UNCHANGED <<synced, up, crashes>>

\* write(2) fails; what was written of the frame stays.
WriteFail ==
  /\ up /\ pc = "write"
  /\ UNCHANGED <<file, synced, up, safe, crashes>>
  /\ Return

\* Mutant: a write is acknowledged although fsync failed.
Fsync_IgnoreError ==
  /\ up /\ pc = "fsync"
  /\ synced' \in {synced, Len(file)}
  /\ UNCHANGED <<file, up, crashes>>
  /\ Ack

Fsync ==
  /\ up /\ pc = "fsync"
  /\ synced' = Len(file)
  /\ UNCHANGED <<file, up, crashes>>
  /\ Ack

FsyncFail ==
  /\ up /\ pc = "fsync"
  /\ UNCHANGED <<file, synced, up, safe, crashes>>
  /\ Return

\* Mutant: the writer goes on where it was in the old file.
Truncate_KeepsPosition ==
  /\ up /\ pc = "idle" /\ file # <<>>
  /\ file' = <<>> /\ synced' = 0 /\ safe' = {}
  /\ UNCHANGED <<up, pc, rec, start, crashes>>

\* FlushMemTable closes the log, truncates it and opens it again.
Truncate ==
  /\ up /\ pc = "idle" /\ file # <<>>
  /\ file' = <<>> /\ synced' = 0 /\ safe' = {}
  /\ Return
  /\ UNCHANGED <<up, crashes>>

\* The process dies, and the file keeps what was written, synced or not; or the
\* machine does, and what is not on stable storage may be cut short.
Crash ==
  /\ up /\ crashes < MaxCrashes
  /\ crashes' = crashes + 1 /\ up' = FALSE
  /\ \/ UNCHANGED <<file, synced>>
     \/ /\ PowerLoss
        /\ \E n \in synced .. Len(file) : file' = SubSeq(file, 1, n) /\ synced' = n
  /\ Return
  /\ UNCHANGED safe

\* Recover replays the log and opens it for append, behind all it holds.
Open ==
  /\ ~up
  /\ up' = TRUE
  /\ UNCHANGED <<file, synced, pc, rec, start, safe, crashes>>

Next ==
  \/ \E r \in Record : AddRecord(r)
  \/ Write \/ WriteFail \/ Fsync \/ FsyncFail \/ Truncate \/ Crash \/ Open

Spec == Init /\ [][Next]_vars

-------------------------------------------------------------------------------
(* Properties *)

\* Every variable keeps its type.
TypeOK ==
  /\ file \in Seq(Unit) /\ Len(file) <= MaxUnits /\ synced \in 0 .. Len(file) /\ up \in BOOLEAN
  /\ pc \in {"idle", "write", "fsync"} /\ rec \in Record \cup {NoRecord}
  /\ start \in 1 .. Len(file) + 1
  /\ \A p \in safe : p[1] \in 1 .. MaxUnits /\ p[2] \in Record

\* Replay delivers every record that was acknowledged before any frame was
\* torn, as it was written, however later calls and crashes went.
FrameAt(f, pos, r) ==
  /\ pos + Len(Frame(r)) - 1 <= Len(f)
  /\ \A i \in 1 .. Len(Frame(r)) : f[pos + i - 1] = Frame(r)[i]
AckedReplayed ==
  \A p \in safe : p[1] \in Delivered(file) /\ FrameAt(file, p[1], p[2])

\* Replay delivers nothing but records that were written, whole: the end of a
\* torn frame and the beginning of the next are not taken for one.
ReplayedWhole ==
  \A pos \in Delivered(file) : \E r \in Record : FrameAt(file, pos, r)

\* The log implements what the engine assumes of it: records are appended whole
\* or a torn frame hides everything behind it, and a power failure takes nothing
\* that a key had on stable storage.
Unsure ==
  LET now == WalReplay(Before)
      cuts == {WalReplay(SubSeq(Before, 1, n)) : n \in synced .. Len(Before)}
  IN  {k \in Keys : \E t \in cuts : t[k] # now[k]}
Log == INSTANCE LogSpec WITH wal <- WalReplay(Before), torn <- Torn(Before),
                             unsure <- Unsure, Entries <- Entries
ImplementsLogSpec == Log!Spec
===============================================================================
