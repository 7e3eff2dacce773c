-------------------------------- MODULE DBInv --------------------------------
(***************************************************************************)
(* The inductive invariant of the engine: what has to hold between any two *)
(* steps of the two threads for acknowledged writes to stay readable.      *)
(***************************************************************************)
EXTENDS DB

\* A number that has been handed out and names no file of the version, the
\* manifest or the outputs: the file may still be written.
Unnamed(n) ==
  /\ \A l \in Level : \A f \in current[l] : f.number # n
  /\ \A l \in Level : n \notin manifest.files[l]
Private(n) ==
  /\ n \in Number /\ n < nextFile
  /\ Unnamed(n)
  /\ \A o \in outs : o.number # n

FilesInv ==
  /\ VersionOK(current)
  /\ \A l \in Level : \A f \in current[l] : f.number < nextFile /\ disk[f.number] = f.data

ManifestInv ==
  /\ \A l \in Level : \A n \in manifest.files[l] :
       /\ disk[n] \in Table
       /\ n < manifest.next
       /\ up => n < nextFile
  /\ VersionOK(Loaded)

FlushInv ==
  /\ pc \in {"build", "install"} =>
       /\ Private(num)
       /\ mem # Empty
       /\ \A f \in current[0] : f.number < num
  /\ pc = "alloc" => mem # Empty
  /\ pc = "install" => disk[num] = mem
  /\ pc = "reset" =>
       /\ \A l \in Level : manifest.files[l] = NumbersOf(current[l])
       /\ \E f \in current[0] :
            f.data = mem /\ \A g \in current[0] : g.number <= f.number

\* Outputs and the rest of the stream share out the merged keys, in order.
MergeInv ==
  /\ OutputsOK(comp, outs)
  /\ \A o \in outs :
       /\ o.number < nextFile
       /\ Unnamed(o.number)
       /\ disk[o.number] = o.data
  /\ \A o \in outs : \A a \in KeysOf(o.data), b \in KeysOf(rest) : a < b
  /\ \A k \in Keys :
       /\ rest[k] \in {NotFound, Merged(comp)[k]}
       /\ Merged(comp)[k] # NotFound =>
            rest[k] # NotFound \/ \E o \in outs : o.data[k] # NotFound

CompactionInv ==
  /\ bg \in {"merge", "write"} => PickOK(current, comp) /\ MergeInv
  /\ bg = "write" => Private(bnum) /\ KeysOf(rest) # {}
  /\ bg = "write" /\ pc \in {"build", "install"} => bnum # num
  /\ bg = "unlink" =>
       /\ pc # "reset"
       /\ \A n \in doomed : Unnamed(n)
       /\ pc \in {"build", "install"} => num \notin doomed
  /\ bg = "idle" => outs = {}

\* The log holds every write the memtable holds, and the one being applied.
LogInv ==
  ~torn =>
    /\ \A k \in Keys : wal[k] = NotFound => mem[k] = NotFound
    /\ \A c \in op : wal[c[1]] = c[2]

OpInv ==
  /\ pc = "apply" <=> op # {}
  /\ \A c, d \in op : c = d
  /\ ~up => pc = "idle" /\ bg = "idle" /\ current = NoFiles /\ unacked = {}

IInv ==
  /\ TypeOK /\ OpInv /\ FilesInv /\ ManifestInv /\ FlushInv /\ CompactionInv
  /\ LogInv /\ AckedDurableUnlessTorn

-------------------------------------------------------------------------------
(* On top of IInv *)

\* No tombstone in the last level of the version or of the one a restart loads.
NoTombstones(v) == \A f \in v[MaxLevels - 1] : \A k \in Keys : f.data[k] # Deleted
LastLevelInv == NoTombstones(current) /\ NoTombstones(Loaded)

\* As long as no call has failed, a file on disk is one of the version, or one
\* that a thread is writing or about to unlink.
InUse(n) ==
  \/ n \in LiveNumbers
  \/ pc \in {"build", "install"} /\ n = num
  \/ bg \in {"merge", "write"} /\ n \in NumbersOf(outs)
  \/ bg = "write" /\ n = bnum
  \/ bg = "unlink" /\ n \in doomed
DirectoryInv == up /\ faults = 0 => \A n \in Number : disk[n] # Missing => InUse(n)
==============================================================================
