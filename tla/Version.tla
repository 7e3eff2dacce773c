------------------------------- MODULE Version --------------------------------
(***************************************************************************)
(* The level layout (DB::Version) and what is computed from it without     *)
(* changing anything: reads, the choice of a compaction, the stream it     *)
(* merges, and the version it installs.                                    *)
(*                                                                         *)
(* A table (memtable, SSTable, replayable log) is a total function from    *)
(* keys to entries, NotFound where it holds nothing.  Sizes are counted in *)
(* entries.  A level is a set of files: level 0 is read by file number (its *)
(* vector order), deeper levels by smallest key (the order                 *)
(* InstallCompaction sorts them into).                                     *)
(***************************************************************************)
EXTENDS Integers, FiniteSets

CONSTANTS
  Keys,            \* the keys, natural numbers for their order
  Values,          \* the values
  Deleted,         \* a tombstone
  NotFound,        \* no entry
  MaxLevels,       \* Options::max_levels
  L0Trigger,       \* Options::l0_compaction_trigger
  L1Target,        \* Options::l1_target_bytes, in entries
  LevelMultiplier, \* Options::level_size_multiplier
  TargetFileSize,  \* Options::target_file_size, in entries
  MaxFile          \* bound: file numbers handed out

Entry == Values \cup {Deleted, NotFound}
Table == [Keys -> Entry]
Level == 0 .. MaxLevels - 1
Number == 1 .. MaxFile
File == [number : Number, data : Table]
Compactions ==
  [source : 0 .. MaxLevels - 2, srcs : SUBSET File, tgts : SUBSET File, bottommost : BOOLEAN]

ASSUME KeysAssumption == Keys \subseteq Nat /\ IsFiniteSet(Keys)

ASSUME EntryAssumption ==
  /\ Deleted # NotFound
  /\ Deleted \notin Values
  /\ NotFound \notin Values

ASSUME OptionsAssumption ==
  /\ MaxLevels \in Nat \ {0, 1}
  /\ L0Trigger \in Nat \ {0}
  /\ L1Target \in Nat
  /\ LevelMultiplier \in Nat \ {0}
  /\ TargetFileSize \in Nat \ {0}
  /\ MaxFile \in Nat

-------------------------------------------------------------------------------
(* Tables and reads *)

Empty == [k \in Keys |-> NotFound]
KeysOf(d) == {k \in Keys : d[k] # NotFound}
Only(d, S) == [k \in Keys |-> IF k \in S THEN d[k] ELSE NotFound]

\* What a caller can tell apart: a tombstone reads like an absent key.
Live(x) == IF x = Deleted THEN NotFound ELSE x

\* f.smallest <= k, and f.smallest <= g.smallest.
StartsBy(f, k) == \E a \in KeysOf(f.data) : a <= k
StartsFirst(f, g) == \A b \in KeysOf(g.data) : StartsBy(f, b)

\* The entry for k in the newest file that has one.
NewestEntry(files, k) ==
  LET hits == {f \in files : f.data[k] # NotFound}
  IN  IF hits = {} THEN NotFound
      ELSE (CHOOSE f \in hits : \A g \in hits : g.number <= f.number).data[k]

\* The entry for k in the last file that starts at or before k.
RunEntry(files, k) ==
  LET starts == {f \in files : StartsBy(f, k)}
      last == {f \in starts : \A g \in starts : StartsFirst(g, f)}
  IN  IF last = {} THEN NotFound ELSE (CHOOSE f \in last : TRUE).data[k]

LevelEntry(v, l, k) ==
  IF l = 0 THEN NewestEntry(v[0], k) ELSE RunEntry(v[l], k)

\* The entry of the shallowest level that has one.
GetFromVersion(v, k) ==
  LET hits == {l \in Level : LevelEntry(v, l, k) # NotFound}
  IN  IF hits = {} THEN NotFound
      ELSE LevelEntry(v, CHOOSE l \in hits : \A m \in hits : l <= m, k)

NumbersOf(files) == {f.number : f \in files}
NoFiles == [l \in Level |-> {}]

-------------------------------------------------------------------------------
(* Compaction *)

Overlaps(D, E) ==
  /\ \E a \in D, x \in E : a >= x
  /\ \E b \in D, y \in E : b <= y

AllKeys(files) == UNION {KeysOf(f.data) : f \in files}
LevelSize(files) == Cardinality({p \in files \X Keys : p[1].data[p[2]] # NotFound})
Budget(l) == L1Target * LevelMultiplier ^ (l - 1)

OverBudget(v) == {l \in 1 .. MaxLevels - 2 : v[l] # {} /\ LevelSize(v[l]) > Budget(l)}
L0Full(v) == Cardinality(v[0]) >= L0Trigger
NeedsCompaction(v) == L0Full(v) \/ OverBudget(v) # {}

\* Mutant: the last level with data is taken for one below it.
NoDataBelow_OffByOne(v, target) == \A l \in Level : l > target + 1 => v[l] = {}

\* Mutant: the target level itself is counted as data below.
NoDataBelow_Inclusive(v, target) == \A l \in Level : l >= target => v[l] = {}

NoDataBelow(v, target) == \A l \in Level : l > target => v[l] = {}

\* Mutant: only the target files that share a key with the sources are taken.
CompactionOf_SharedKeys(v, l, srcs) ==
  [source     |-> l,
   srcs       |-> srcs,
   tgts       |-> {f \in v[l + 1] : KeysOf(f.data) \cap AllKeys(srcs) # {}},
   bottommost |-> NoDataBelow(v, l + 1)]

\* The compaction of srcs, files of level l, into level l + 1.
CompactionOf(v, l, srcs) ==
  [source     |-> l,
   srcs       |-> srcs,
   tgts       |-> {f \in v[l + 1] : Overlaps(KeysOf(f.data), AllKeys(srcs))},
   bottommost |-> NoDataBelow(v, l + 1)]

\* The candidates: all of level 0, or the first file of the first level that is
\* over its budget.
PickCompaction(v) ==
  IF L0Full(v) THEN {CompactionOf(v, 0, v[0])}
  ELSE {CompactionOf(v, p[1], {p[2]}) :
          p \in {q \in OverBudget(v) \X UNION {v[l] : l \in Level} :
                   /\ \A l \in OverBudget(v) : q[1] <= l
                   /\ q[2] \in v[q[1]]
                   /\ \A g \in v[q[1]] : StartsFirst(q[2], g)}}

NoCompaction == [source |-> 0, srcs |-> {}, tgts |-> {}, bottommost |-> FALSE]
Inputs(c) == c.srcs \cup c.tgts

\* The merged stream: the source level shadows the target level, the newest
\* file shadows the older ones, and the last level keeps no tombstone.
MergedEntry(c, k) ==
  LET x == NewestEntry(c.srcs, k)
  IN  IF x # NotFound THEN x ELSE NewestEntry(c.tgts, k)
Merged(c) ==
  [k \in Keys |-> IF c.bottommost /\ MergedEntry(c, k) = Deleted
                  THEN NotFound ELSE MergedEntry(c, k)]

\* The keys that go into the next output file: the first TargetFileSize ones.
Chunk(d) ==
  {k \in KeysOf(d) : Cardinality({j \in KeysOf(d) : j < k}) < TargetFileSize}

Strip(files, c) == {f \in files : f.number \notin NumbersOf(Inputs(c))}

\* Mutant: the source level is cleared, files flushed since the pick included.
InstallCompaction_ClearSource(v, c, outputs) ==
  [l \in Level |->
     IF l = c.source THEN {}
     ELSE IF l = c.source + 1 THEN Strip(v[l], c) \cup outputs
     ELSE v[l]]

InstallCompaction(v, c, outputs) ==
  [l \in Level |->
     IF l = c.source THEN Strip(v[l], c)
     ELSE IF l = c.source + 1 THEN Strip(v[l], c) \cup outputs
     ELSE v[l]]

\* A flushed file joins level 0.
AddL0(v, f) == [v EXCEPT ![0] = @ \cup {f}]

-------------------------------------------------------------------------------
(* Soundness *)

\* No two of the files share a stretch of the key space.
Disjoint(files) ==
  \A f, g \in files : f # g => ~Overlaps(KeysOf(f.data), KeysOf(g.data))

\* A version the read path answers from correctly.
VersionOK(v) ==
  /\ \A l \in Level : \A f \in v[l] : KeysOf(f.data) # {}
  /\ \A l, m \in Level : \A f \in v[l], g \in v[m] :
       f.number = g.number => l = m /\ f = g
  /\ \A l \in Level \ {0} : Disjoint(v[l])

\* A picked compaction c that still describes the version v it is installed in.
PickOK(v, c) ==
  LET s == c.source IN
  /\ s \in 0 .. MaxLevels - 2
  /\ c.srcs # {}
  /\ c.srcs \subseteq v[s]
  /\ c.tgts \subseteq v[s + 1]
  /\ s = 0 => \A f \in v[0] \ c.srcs : \A g \in c.srcs : g.number < f.number
  /\ \A f \in v[s + 1] :
       f \in c.tgts <=> Overlaps(KeysOf(f.data), AllKeys(c.srcs))
  /\ c.bottommost <=> NoDataBelow(v, s + 1)

\* The files os hold merged entries of c only, in disjoint nonempty runs.
OutputsOK(c, os) ==
  /\ \A o \in os : KeysOf(o.data) # {}
  /\ \A o, p \in os : o # p => o.number # p.number
  /\ Disjoint(os)
  /\ \A o \in os : \A k \in Keys : o.data[k] \in {NotFound, Merged(c)[k]}
===============================================================================
