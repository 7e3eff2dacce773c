---------------------------- MODULE VersionProofs -----------------------------
(***************************************************************************)
(* Facts about the level layout, of any version: key sets, tables, what    *)
(* reads return, and that installing a flush or a compaction keeps a       *)
(* version well formed and changes no read from it.                        *)
(***************************************************************************)
EXTENDS Version, FiniteSetTheorems, TLAPS

\* Zenon proves the leaves; those with arithmetic, tuples or records name SMT.
USE Zenon

\* A nonempty set of natural numbers has a least element.
LEMMA LeastNat ==
  ASSUME NEW S \in SUBSET Nat, S # {}
  PROVE  \E m \in S : \A n \in S : m <= n
<1> DEFINE R == OpToRel(<, Nat)
<1>1. IsWellFoundedOn(R, Nat) BY NatLessThanWellFounded
<1>2. \A m, n \in Nat : <<n, m>> \in R <=> n < m BY DEF OpToRel
<1> HIDE DEF R
<1>3. PICK m \in S : \A n \in S : <<n, m>> \notin R BY <1>1, WFMin
<1>4. ASSUME NEW n \in S PROVE m <= n
  <2>1. m \in Nat /\ n \in Nat OBVIOUS
  <2>2. ~(n < m) BY <1>2, <1>3, <2>1
  <2> QED BY SMT, <2>1, <2>2
<1> QED BY <1>4

-------------------------------------------------------------------------------
(* Key sets *)

\* Non-overlapping nonempty key sets lie one before the other.
LEMMA Apart ==
  ASSUME NEW D \in SUBSET Keys, NEW E \in SUBSET Keys, ~Overlaps(D, E)
  PROVE  (\A a \in D, b \in E : a < b) \/ (\A a \in D, b \in E : b < a)
BY SMT, KeysAssumption DEF Overlaps

\* The overlap test of two key ranges is symmetric.
LEMMA OverlapsSym ==
  ASSUME NEW D \in SUBSET Keys, NEW E \in SUBSET Keys
  PROVE  Overlaps(D, E) <=> Overlaps(E, D)
BY KeysAssumption DEF Overlaps

\* Key sets that follow one another do not overlap.
LEMMA BeforeApart ==
  ASSUME NEW D \in SUBSET Keys, NEW E \in SUBSET Keys, \A a \in D, b \in E : a < b
  PROVE  ~Overlaps(D, E)
<1>1. \A a \in D, b \in E : a \in Nat /\ b \in Nat /\ ~(a >= b) BY SMT, KeysAssumption
<1> QED BY <1>1 DEF Overlaps

-------------------------------------------------------------------------------
(* Tables *)

\* The empty memtable is a table without entries.
LEMMA EmptyType == Empty \in Table /\ KeysOf(Empty) = {} /\ \A k \in Keys : Empty[k] = NotFound
BY DEF Empty, Table, Entry, KeysOf

\* Restricting a table to some keys gives a table with just those entries.
LEMMA OnlyType ==
  ASSUME NEW d \in Table, NEW S
  PROVE  /\ Only(d, S) \in Table
         /\ \A k \in Keys : Only(d, S)[k] = IF k \in S THEN d[k] ELSE NotFound
         /\ KeysOf(Only(d, S)) = KeysOf(d) \cap S
BY DEF Only, Table, Entry, KeysOf

\* A table differs from the empty one exactly if it holds some key.
LEMMA NotEmpty ==
  ASSUME NEW d \in Table
  PROVE  d # Empty <=> KeysOf(d) # {}
BY DEF Empty, Table, KeysOf

\* Among files with distinct numbers, one of those that hold k is the newest.
LEMMA NewestExists ==
  ASSUME NEW files \in SUBSET File, NEW k \in Keys,
         NEW h \in files, h.data[k] # NotFound
  PROVE  \E f \in files : f.data[k] # NotFound
           /\ \A g \in files : g.data[k] # NotFound => g.number <= f.number
<1> DEFINE S == {MaxFile - f.number : f \in {g \in files : g.data[k] # NotFound}}
<1>1. \A f \in files : f.number \in Number /\ MaxFile - f.number \in Nat
  BY SMT, OptionsAssumption DEF File, Number
<1>2. S \in SUBSET Nat /\ S # {}
  BY <1>1
<1>3. PICK m \in S : \A n \in S : m <= n
  BY <1>2, LeastNat
<1>4. PICK f \in files : f.data[k] # NotFound /\ m = MaxFile - f.number
  BY <1>3
<1>5. ASSUME NEW g \in files, g.data[k] # NotFound PROVE g.number <= f.number
  <2>1. MaxFile - g.number \in S BY <1>5
  <2>2. MaxFile - f.number <= MaxFile - g.number BY <2>1, <1>3, <1>4
  <2> QED BY SMT, <2>2, <1>1, OptionsAssumption DEF Number
<1> QED BY <1>4, <1>5

\* Reading level 0 yields an entry or NotFound.
LEMMA NewestType ==
  ASSUME NEW files \in SUBSET File, NEW k \in Keys
  PROVE  NewestEntry(files, k) \in Entry
<1> DEFINE hits == {f \in files : f.data[k] # NotFound}
           P(f) == \A g \in hits : g.number <= f.number
           c == CHOOSE f \in hits : P(f)
<1>1. CASE hits = {} BY <1>1 DEF NewestEntry, Entry
<1>2. CASE hits # {}
  <2>1. \E f \in hits : P(f) BY <1>2, NewestExists
  <2>2. c \in hits BY <2>1
  <2>3. c \in File BY <2>2
  <2>4. c.data[k] \in Entry BY <2>3 DEF File, Table
  <2> QED BY <1>2, <2>4 DEF NewestEntry
<1> QED BY <1>1, <1>2

\* The stream a compaction writes out is a table.
LEMMA MergedType ==
  ASSUME NEW c \in Compactions
  PROVE  Merged(c) \in Table
<1>1. c.srcs \in SUBSET File /\ c.tgts \in SUBSET File BY DEF Compactions
<1>2. \A k \in Keys : MergedEntry(c, k) \in Entry
  BY <1>1, NewestType DEF MergedEntry
<1>3. NotFound \in Entry BY DEF Entry
<1> QED BY <1>2, <1>3 DEF Merged, Table

-------------------------------------------------------------------------------
(* Picked and installed compactions *)

\* The next chunk is nonempty and comes before what it leaves.
LEMMA ChunkFirst ==
  ASSUME NEW d \in Table, KeysOf(d) # {}
  PROVE  /\ Chunk(d) \subseteq KeysOf(d)
         /\ Chunk(d) # {}
         /\ \A a \in Chunk(d), b \in KeysOf(d) \ Chunk(d) : a < b
<1> DEFINE K == KeysOf(d)
           Below(k) == {j \in K : j < k}
<1>1. K \subseteq Nat /\ IsFiniteSet(K)
  <2>1. K \subseteq Keys BY DEF KeysOf
  <2> QED BY <2>1, KeysAssumption, FS_Subset
<1>2. \A k \in K : Below(k) \subseteq K OBVIOUS
<1>3. \A k \in K : IsFiniteSet(Below(k)) /\ Cardinality(Below(k)) \in Nat
  BY <1>1, <1>2, FS_Subset, FS_CardinalityType
<1>4. PICK m \in K : \A n \in K : m <= n BY <1>1, LeastNat
<1>5. Below(m) = {}
  <2>1. ASSUME NEW j \in K, j < m PROVE FALSE
    <3>1. j \in Nat /\ m \in Nat /\ m <= j BY <1>1, <1>4
    <3> QED BY SMT, <2>1, <3>1
  <2> QED BY <2>1
<1>6. Cardinality(Below(m)) = 0 BY <1>5, FS_EmptySet
<1>7. m \in Chunk(d) BY SMT, <1>6, OptionsAssumption DEF Chunk
<1>8. ASSUME NEW a \in Chunk(d), NEW b \in K \ Chunk(d) PROVE a < b
  <2>1. a \in K /\ a \in Nat /\ b \in Nat BY <1>1 DEF Chunk
  <2>2. Cardinality(Below(a)) < TargetFileSize BY DEF Chunk
  <2>3. ~(Cardinality(Below(b)) < TargetFileSize) BY DEF Chunk
  <2>4. CASE b <= a
    <3>1. Below(b) \subseteq Below(a)
      <4>1. ASSUME NEW j \in K, j < b PROVE j < a
        <5>1. j \in Nat BY <1>1
        <5> QED BY SMT, <2>1, <2>4, <4>1, <5>1
      <4> QED BY <4>1
    <3>2. Cardinality(Below(b)) <= Cardinality(Below(a)) BY <1>3, <2>1, <3>1, FS_Subset
    <3>3. Cardinality(Below(b)) \in Nat /\ Cardinality(Below(a)) \in Nat BY <1>3, <2>1
    <3> QED BY SMT, <2>2, <2>3, <3>2, <3>3, OptionsAssumption
  <2> QED BY SMT, <2>1, <2>4
<1> QED BY <1>7, <1>8 DEF Chunk

\* What a compaction picked from a well-formed version looks like.
LEMMA PickedOK ==
  ASSUME NEW v \in [Level -> SUBSET File], VersionOK(v), NEW c \in PickCompaction(v)
  PROVE  c \in Compactions /\ PickOK(v, c)
<1>1. ASSUME NEW l \in 0 .. MaxLevels - 2, NEW srcs \in SUBSET v[l], srcs # {},
             l = 0 => srcs = v[0]
      PROVE  CompactionOf(v, l, srcs) \in Compactions /\ PickOK(v, CompactionOf(v, l, srcs))
  <2>1. l \in Level /\ l + 1 \in Level BY SMT, OptionsAssumption DEF Level
  <2>2. v[l] \subseteq File /\ v[l + 1] \subseteq File BY <2>1
  <2>3. CompactionOf(v, l, srcs) \in Compactions
    BY <1>1, <2>2 DEF CompactionOf, Compactions, NoDataBelow
  <2>4. PickOK(v, CompactionOf(v, l, srcs)) BY <1>1 DEF CompactionOf, PickOK
  <2> QED BY <2>3, <2>4
<1>2. CASE L0Full(v)
  <2>1. v[0] # {} BY SMT, <1>2, FS_EmptySet, OptionsAssumption DEF L0Full
  <2>2. 0 \in 0 .. MaxLevels - 2 BY SMT, OptionsAssumption
  <2>3. c = CompactionOf(v, 0, v[0]) BY <1>2 DEF PickCompaction
  <2> QED BY <1>1, <2>1, <2>2, <2>3
<1>3. CASE ~L0Full(v)
  <2>1. PICK l \in OverBudget(v) : \E f \in v[l] : c = CompactionOf(v, l, {f})
    BY <1>3 DEF PickCompaction
  <2>2. l \in 0 .. MaxLevels - 2 /\ l # 0 BY SMT, OptionsAssumption DEF OverBudget
  <2> QED BY <1>1, <2>1, <2>2
<1> QED BY <1>2, <1>3

\* Stripping by file number removes exactly the inputs.
LEMMA InstalledLevels ==
  ASSUME NEW v \in [Level -> SUBSET File], VersionOK(v),
         NEW c \in Compactions, PickOK(v, c), NEW os \in SUBSET File
  PROVE  LET w == InstallCompaction(v, c, os)
             s == c.source
         IN  /\ s \in Level /\ s + 1 \in Level /\ s + 1 # 0 /\ s # s + 1
             /\ w \in [Level -> SUBSET File]
             /\ w[s] = v[s] \ c.srcs
             /\ w[s + 1] = (v[s + 1] \ c.tgts) \cup os
             /\ \A l \in Level : l # s /\ l # s + 1 => w[l] = v[l]
<1> DEFINE s == c.source
           w == InstallCompaction(v, c, os)
<1>1. s \in Level /\ s + 1 \in Level /\ s + 1 # 0 /\ s # s + 1
  BY SMT, OptionsAssumption DEF PickOK, Level
<1>2. c.srcs \subseteq v[s] /\ c.tgts \subseteq v[s + 1] BY DEF PickOK
<1>3. \A l, m \in Level : \A f \in v[l], g \in v[m] : f.number = g.number => l = m /\ f = g
  BY DEF VersionOK
<1>4. Strip(v[s], c) = v[s] \ c.srcs
  <2>1. ASSUME NEW f \in v[s], f.number \in NumbersOf(Inputs(c)) PROVE f \in c.srcs
    <3>1. PICK g \in c.srcs \cup c.tgts : g.number = f.number
      BY <2>1 DEF NumbersOf, Inputs
    <3>2. CASE g \in c.srcs BY <1>1, <1>2, <1>3, <3>1, <3>2
    <3>3. CASE g \in c.tgts BY SMT, <1>1, <1>2, <1>3, <3>1, <3>3
    <3> QED BY <3>2, <3>3
  <2> QED BY <2>1 DEF Strip, NumbersOf, Inputs
<1>5. Strip(v[s + 1], c) = v[s + 1] \ c.tgts
  <2>1. ASSUME NEW f \in v[s + 1], f.number \in NumbersOf(Inputs(c)) PROVE f \in c.tgts
    <3>1. PICK g \in c.srcs \cup c.tgts : g.number = f.number
      BY <2>1 DEF NumbersOf, Inputs
    <3>2. CASE g \in c.srcs BY SMT, <1>1, <1>2, <1>3, <3>1, <3>2
    <3>3. CASE g \in c.tgts BY SMT, <1>1, <1>2, <1>3, <3>1, <3>3
    <3> QED BY <3>2, <3>3
  <2> QED BY <2>1 DEF Strip, NumbersOf, Inputs
<1>6. w = [l \in Level |-> IF l = s THEN v[s] \ c.srcs
                          ELSE IF l = s + 1 THEN (v[s + 1] \ c.tgts) \cup os
                          ELSE v[l]]
  BY <1>4, <1>5 DEF InstallCompaction
<1>7. /\ w[s] = v[s] \ c.srcs
      /\ w[s + 1] = (v[s + 1] \ c.tgts) \cup os
      /\ \A l \in Level : l # s /\ l # s + 1 => w[l] = v[l]
  BY <1>1, <1>6
<1>8. w \in [Level -> SUBSET File]
  <2>1. v[s] \ c.srcs \in SUBSET File /\ (v[s + 1] \ c.tgts) \cup os \in SUBSET File
    BY <1>1
  <2> QED BY SMT, <1>6, <2>1
<1> QED BY <1>1, <1>7, <1>8

\* Installing a flushed file changes level 0 and nothing else.
LEMMA FlushedLevels ==
  ASSUME NEW v \in [Level -> SUBSET File], NEW f \in File
  PROVE  LET w == AddL0(v, f)
         IN  /\ 0 \in Level
             /\ w \in [Level -> SUBSET File]
             /\ w[0] = v[0] \cup {f}
             /\ \A l \in Level : l # 0 => w[l] = v[l]
<1>1. 0 \in Level BY SMT, OptionsAssumption DEF Level
<1> QED BY <1>1 DEF AddL0

-------------------------------------------------------------------------------
(* Level 0: the newest file that has the key answers. *)

\* Level 0 answers from the newest file that holds the key.
LEMMA NewestHit ==
  ASSUME NEW files \in SUBSET File, NEW k \in Keys,
         \A f, g \in files : f.number = g.number => f = g,
         NEW h \in files, h.data[k] # NotFound,
         \A g \in files : g.data[k] # NotFound => g.number <= h.number
  PROVE  NewestEntry(files, k) = h.data[k]
<1> DEFINE hits == {f \in files : f.data[k] # NotFound}
           P(f) == \A g \in hits : g.number <= f.number
           c == CHOOSE f \in hits : P(f)
<1>1. h \in hits /\ P(h) OBVIOUS
<1>2. c \in hits /\ P(c) BY <1>1
<1>3. \A f \in files : f.number \in Nat BY SMT DEF File, Number
<1>4. c = h BY SMT, <1>1, <1>2, <1>3
<1> QED BY <1>1, <1>4 DEF NewestEntry

\* Level 0 answers NotFound when no file of it holds the key.
LEMMA NewestMiss ==
  ASSUME NEW files, NEW k, \A f \in files : f.data[k] = NotFound
  PROVE  NewestEntry(files, k) = NotFound
BY DEF NewestEntry

-------------------------------------------------------------------------------
(* Levels below 0: the binary search finds the one file that can hold k. *)

\* In a level of disjoint files the binary search lands on the file that holds
\* the key.
LEMMA RunHit ==
  ASSUME NEW files \in SUBSET File, NEW k \in Keys, Disjoint(files),
         NEW h \in files, h.data[k] # NotFound
  PROVE  RunEntry(files, k) = h.data[k]
<1> DEFINE starts == {f \in files : StartsBy(f, k)}
           last == {f \in starts : \A g \in starts : StartsFirst(g, f)}
<1>1. k \in KeysOf(h.data) BY DEF KeysOf
<1>2. \A f \in files : KeysOf(f.data) \in SUBSET Keys /\ KeysOf(f.data) \subseteq Nat
  BY KeysAssumption DEF KeysOf
<1>3. StartsBy(h, k) BY SMT, <1>1, KeysAssumption DEF StartsBy
<1>4. ASSUME NEW g \in starts, g # h
      PROVE  \A a \in KeysOf(g.data), b \in KeysOf(h.data) : a < b
  <2>1. PICK a \in KeysOf(g.data) : a <= k BY <1>4 DEF StartsBy
  <2>2. ~Overlaps(KeysOf(g.data), KeysOf(h.data)) BY <1>4 DEF Disjoint
  <2>3. ~(k < a) BY SMT, <2>1, KeysAssumption, <1>2
  <2> QED BY <2>2, <2>3, <1>1, <1>2, <2>1, Apart
<1>5. h \in last
  <2>1. ASSUME NEW g \in starts PROVE StartsFirst(g, h)
    <3>1. CASE g = h BY SMT, <3>1, KeysAssumption DEF StartsFirst, StartsBy, KeysOf
    <3>2. CASE g # h
      <4>1. PICK a \in KeysOf(g.data) : a <= k BY DEF StartsBy
      <4>2. ASSUME NEW b \in KeysOf(h.data) PROVE a <= b
        <5>1. a < b BY <1>4, <3>2
        <5>2. a \in Nat /\ b \in Nat BY <1>2
        <5> QED BY SMT, <5>1, <5>2
      <4> QED BY <4>1, <4>2 DEF StartsFirst, StartsBy
    <3> QED BY <3>1, <3>2
  <2> QED BY <2>1, <1>3
<1>6. \A g \in last : g = h
  <2> SUFFICES ASSUME NEW g \in last, g # h PROVE FALSE OBVIOUS
  <2>1. PICK a \in KeysOf(g.data) : a <= k BY DEF StartsBy
  <2>2. StartsBy(h, a) BY <2>1, <1>3 DEF StartsFirst
  <2>3. PICK b \in KeysOf(h.data) : b <= a BY <2>2 DEF StartsBy
  <2>4. a < b BY <1>4, <2>1, <2>3
  <2>5. a \in Nat /\ b \in Nat BY <1>2
  <2> QED BY SMT, <2>3, <2>4, <2>5
<1>7. (CHOOSE f \in last : TRUE) = h BY <1>5, <1>6
<1> QED BY <1>5, <1>7 DEF RunEntry

\* A sorted level answers NotFound when no file of it holds the key.
LEMMA RunMiss ==
  ASSUME NEW files, NEW k, \A f \in files : f.data[k] = NotFound
  PROVE  RunEntry(files, k) = NotFound
<1> DEFINE starts == {f \in files : StartsBy(f, k)}
           last == {f \in starts : \A g \in starts : StartsFirst(g, f)}
<1>1. last # {} => (CHOOSE f \in last : TRUE) \in files
  <2> SUFFICES ASSUME last # {} PROVE (CHOOSE f \in last : TRUE) \in last OBVIOUS
  <2>1. \E f \in last : TRUE OBVIOUS
  <2> HIDE DEF last
  <2> QED BY <2>1
<1> QED BY <1>1 DEF RunEntry

-------------------------------------------------------------------------------
(* Levels and versions *)

\* A level none of whose files holds the key answers NotFound.
LEMMA LevelMiss ==
  ASSUME NEW v, NEW l, NEW k, \A f \in v[l] : f.data[k] = NotFound
  PROVE  LevelEntry(v, l, k) = NotFound
<1>1. CASE l = 0 BY <1>1, NewestMiss DEF LevelEntry
<1>2. CASE l # 0 BY <1>2, RunMiss DEF LevelEntry
<1> QED BY <1>1, <1>2

\* A level answers from the file that holds the key, the newest one in level 0.
LEMMA LevelHit ==
  ASSUME NEW v \in [Level -> SUBSET File], VersionOK(v), NEW l \in Level, NEW k \in Keys,
         NEW h \in v[l], h.data[k] # NotFound,
         l = 0 => \A g \in v[0] : g.data[k] # NotFound => g.number <= h.number
  PROVE  LevelEntry(v, l, k) = h.data[k]
<1>0. v[l] \in SUBSET File OBVIOUS
<1>1. CASE l = 0
  <2>1. \A f, g \in v[l] : f.number = g.number => f = g BY DEF VersionOK
  <2> QED BY <1>0, <1>1, <2>1, NewestHit DEF LevelEntry
<1>2. CASE l # 0
  <2>1. Disjoint(v[l]) BY <1>2 DEF VersionOK
  <2> QED BY <1>0, <1>2, <2>1, RunHit DEF LevelEntry
<1> QED BY <1>1, <1>2

\* A level that has an entry for k has it from the file LevelHit describes.
LEMMA LevelFile ==
  ASSUME NEW v \in [Level -> SUBSET File], VersionOK(v), NEW l \in Level, NEW k \in Keys,
         NEW h \in v[l], h.data[k] # NotFound
  PROVE  \E f \in v[l] :
           /\ f.data[k] # NotFound
           /\ LevelEntry(v, l, k) = f.data[k]
           /\ l = 0 => \A g \in v[0] : g.data[k] # NotFound => g.number <= f.number
<1>0. v[l] \in SUBSET File OBVIOUS
<1>1. PICK f \in v[l] : f.data[k] # NotFound
        /\ \A g \in v[l] : g.data[k] # NotFound => g.number <= f.number
  BY <1>0, NewestExists
<1>2. l = 0 => \A g \in v[0] : g.data[k] # NotFound => g.number <= f.number
  BY <1>1
<1> QED BY <1>1, <1>2, LevelHit

\* GetFromVersion stops at the first level that has an entry.
LEMMA GetHit ==
  ASSUME NEW v, NEW l \in Level, NEW k, LevelEntry(v, l, k) # NotFound,
         \A m \in Level : m < l => LevelEntry(v, m, k) = NotFound
  PROVE  GetFromVersion(v, k) = LevelEntry(v, l, k)
<1> DEFINE hits == {m \in Level : LevelEntry(v, m, k) # NotFound}
           c == CHOOSE i \in hits : \A m \in hits : i <= m
<1>0. Level \subseteq Int BY SMT, OptionsAssumption DEF Level
<1>1. l \in hits /\ \A m \in hits : l <= m
  <2>1. ASSUME NEW m \in hits PROVE l <= m
    <3>1. l \in Int /\ m \in Int BY <1>0
    <3>2. ~(m < l) OBVIOUS
    <3> QED BY SMT, <3>1, <3>2
  <2> QED BY <2>1
<1>2. c \in hits /\ \A m \in hits : c <= m BY <1>1
<1>3. c = l
  <2>1. c \in Int /\ l \in Int /\ c <= l /\ l <= c BY <1>0, <1>1, <1>2
  <2> QED BY SMT, <2>1
<1> QED BY <1>1, <1>3 DEF GetFromVersion

\* GetFromVersion finds nothing when no level has an entry.
LEMMA GetMiss ==
  ASSUME NEW v, NEW k, \A m \in Level : LevelEntry(v, m, k) = NotFound
  PROVE  GetFromVersion(v, k) = NotFound
BY DEF GetFromVersion

\* If some level has an entry there is a shallowest one that does.
LEMMA GetFirst ==
  ASSUME NEW v, NEW k, NEW l \in Level, LevelEntry(v, l, k) # NotFound
  PROVE  \E m \in Level : LevelEntry(v, m, k) # NotFound
           /\ \A i \in Level : i < m => LevelEntry(v, i, k) = NotFound
<1> DEFINE hits == {m \in Level : LevelEntry(v, m, k) # NotFound}
<1>1. Level \subseteq Nat BY SMT, OptionsAssumption DEF Level
<1>2. hits \in SUBSET Nat /\ hits # {} BY <1>1
<1>3. PICK m \in hits : \A i \in hits : m <= i BY <1>2, LeastNat
<1>4. ASSUME NEW i \in Level, i < m PROVE LevelEntry(v, i, k) = NotFound
  <2>1. i \in Nat /\ m \in Nat BY <1>1
  <2> QED BY SMT, <1>3, <1>4, <2>1
<1> QED BY <1>3, <1>4

\* Two versions whose levels answer alike answer alike.
LEMMA GetSame ==
  ASSUME NEW v, NEW w, NEW k, \A l \in Level : LevelEntry(w, l, k) = LevelEntry(v, l, k)
  PROVE  GetFromVersion(w, k) = GetFromVersion(v, k)
<1>1. CASE \A l \in Level : LevelEntry(v, l, k) = NotFound BY <1>1, GetMiss
<1>2. CASE \E l \in Level : LevelEntry(v, l, k) # NotFound
  <2>1. PICK m \in Level : LevelEntry(v, m, k) # NotFound
              /\ \A i \in Level : i < m => LevelEntry(v, i, k) = NotFound
    BY <1>2, GetFirst
  <2>2. GetFromVersion(v, k) = LevelEntry(v, m, k) BY <2>1, GetHit
  <2>3. GetFromVersion(w, k) = LevelEntry(w, m, k) BY <2>1, GetHit
  <2> QED BY <2>2, <2>3
<1> QED BY <1>1, <1>2

\* Two versions that agree down to a level that has the key agree on the key.
LEMMA GetSameDownTo ==
  ASSUME NEW v, NEW w, NEW k, NEW n \in Level, LevelEntry(v, n, k) # NotFound,
         \A l \in Level : l <= n => LevelEntry(w, l, k) = LevelEntry(v, l, k)
  PROVE  GetFromVersion(w, k) = GetFromVersion(v, k)
<1>0. Level \subseteq Int BY SMT, OptionsAssumption DEF Level
<1>1. PICK m \in Level : LevelEntry(v, m, k) # NotFound
            /\ \A i \in Level : i < m => LevelEntry(v, i, k) = NotFound
  BY GetFirst
<1>2. m <= n
  <2>1. m \in Int /\ n \in Int /\ ~(n < m) BY <1>0, <1>1
  <2> QED BY SMT, <2>1
<1>3. \A i \in Level : i < m => i <= n
  <2>1. ASSUME NEW i \in Level, i < m PROVE i <= n
    <3>1. i \in Int /\ m \in Int /\ n \in Int BY <1>0
    <3> QED BY SMT, <1>2, <2>1, <3>1
  <2> QED BY <2>1
<1>4. GetFromVersion(v, k) = LevelEntry(v, m, k) BY <1>1, GetHit
<1>5. LevelEntry(w, m, k) = LevelEntry(v, m, k) BY <1>2
<1>6. \A i \in Level : i < m => LevelEntry(w, i, k) = NotFound BY <1>1, <1>3
<1>7. GetFromVersion(w, k) = LevelEntry(w, m, k) BY <1>1, <1>5, <1>6, GetHit
<1> QED BY <1>4, <1>5, <1>7

\* The newest file of level 0 shadows everything else.
LEMMA TopReads ==
  ASSUME NEW v \in [Level -> SUBSET File], VersionOK(v), NEW k \in Keys,
         NEW f \in v[0], f.data[k] # NotFound, \A g \in v[0] : g.number <= f.number
  PROVE  GetFromVersion(v, k) = f.data[k]
<1>1. 0 \in Level /\ \A m \in Level : ~(m < 0) BY SMT, OptionsAssumption DEF Level
<1>2. LevelEntry(v, 0, k) = f.data[k] BY <1>1, LevelHit
<1> QED BY <1>1, <1>2, GetHit

-------------------------------------------------------------------------------
(* Installing a compaction *)

\* A file of the target level that is not an input lies wholly before or wholly
\* after every input.
LEMMA RemainingApart ==
  ASSUME NEW v \in [Level -> SUBSET File], VersionOK(v),
         NEW c \in Compactions, PickOK(v, c),
         NEW r \in v[c.source + 1] \ c.tgts
  PROVE  \/ \A f \in Inputs(c) : \A a \in KeysOf(r.data), b \in KeysOf(f.data) : a < b
         \/ \A f \in Inputs(c) : \A a \in KeysOf(r.data), b \in KeysOf(f.data) : b < a
<1> DEFINE s == c.source
           S == AllKeys(c.srcs)
           R == KeysOf(r.data)
<1>1. s + 1 \in Level \ {0} BY SMT, OptionsAssumption DEF PickOK, Level
<1>2. \A f : KeysOf(f.data) \in SUBSET Keys /\ KeysOf(f.data) \subseteq Nat
  BY KeysAssumption DEF KeysOf
<1>3. S \in SUBSET Keys /\ S \subseteq Nat BY <1>2 DEF AllKeys
<1>4. ~Overlaps(R, S) BY DEF PickOK
<1>5. \A t \in c.tgts : Overlaps(KeysOf(t.data), S) BY DEF PickOK
<1>6. \A t \in c.tgts : ~Overlaps(R, KeysOf(t.data))
  BY <1>1 DEF PickOK, VersionOK, Disjoint
<1>7. \A f \in c.srcs : KeysOf(f.data) \subseteq S BY DEF AllKeys
<1>8. R \in SUBSET Keys /\ R \subseteq Nat BY <1>2
<1> HIDE DEF S, R
<1>9. CASE \A a \in R, b \in S : a < b
  <2>1. ASSUME NEW t \in c.tgts, NEW a \in R, NEW b \in KeysOf(t.data) PROVE a < b
    <3>1. (\A x \in R, y \in KeysOf(t.data) : x < y) \/ (\A x \in R, y \in KeysOf(t.data) : y < x)
      BY <1>2, <1>6, <1>8, Apart
    <3>2. PICK y \in KeysOf(t.data), x \in S : y >= x BY <1>5 DEF Overlaps
    <3>3. a < x BY <1>9
    <3>4. a \in Nat /\ x \in Nat /\ y \in Nat BY <1>2, <1>3, <1>8
    <3>5. ~(y < a) BY SMT, <3>2, <3>3, <3>4
    <3> QED BY <3>1, <3>5
  <2> QED BY <2>1, <1>7, <1>9 DEF Inputs, R
<1>10. CASE \A a \in R, b \in S : b < a
  <2>1. ASSUME NEW t \in c.tgts, NEW a \in R, NEW b \in KeysOf(t.data) PROVE b < a
    <3>1. (\A x \in R, y \in KeysOf(t.data) : x < y) \/ (\A x \in R, y \in KeysOf(t.data) : y < x)
      BY <1>2, <1>6, <1>8, Apart
    <3>2. PICK y \in KeysOf(t.data), x \in S : y <= x BY <1>5 DEF Overlaps
    <3>3. x < a BY <1>10
    <3>4. a \in Nat /\ x \in Nat /\ y \in Nat BY <1>2, <1>3, <1>8
    <3>5. ~(a < y) BY SMT, <3>2, <3>3, <3>4
    <3> QED BY <3>1, <3>5
  <2> QED BY <2>1, <1>7, <1>10 DEF Inputs, R
<1> QED BY <1>3, <1>4, <1>8, <1>9, <1>10, Apart

\* A compaction writes out only keys that some input holds.
LEMMA MergedFromInputs ==
  ASSUME NEW c, NEW k \in Keys, Merged(c)[k] # NotFound
  PROVE  \E f \in Inputs(c) : k \in KeysOf(f.data)
<1> SUFFICES ASSUME \A f \in Inputs(c) : f.data[k] = NotFound PROVE FALSE
  BY DEF KeysOf
<1>1. NewestEntry(c.srcs, k) = NotFound /\ NewestEntry(c.tgts, k) = NotFound
  BY NewestMiss DEF Inputs
<1> QED BY <1>1 DEF Merged, MergedEntry

\* A remaining file of the target level shares no key with an output.
LEMMA RemainingNotOutput ==
  ASSUME NEW v \in [Level -> SUBSET File], VersionOK(v),
         NEW c \in Compactions, PickOK(v, c), NEW os \in SUBSET File, OutputsOK(c, os),
         NEW r \in v[c.source + 1] \ c.tgts, NEW o \in os
  PROVE  ~Overlaps(KeysOf(r.data), KeysOf(o.data))
<1>1. ASSUME NEW b \in KeysOf(o.data) PROVE \E f \in Inputs(c) : b \in KeysOf(f.data)
  BY <1>1, MergedFromInputs DEF OutputsOK, KeysOf
<1>2. KeysOf(r.data) \subseteq Nat /\ KeysOf(o.data) \subseteq Nat
  BY KeysAssumption DEF KeysOf
<1>3. CASE \A f \in Inputs(c) : \A a \in KeysOf(r.data), b \in KeysOf(f.data) : a < b
  <2>1. \A a \in KeysOf(r.data), b \in KeysOf(o.data) : a < b BY <1>1, <1>3
  <2>2. \A a \in KeysOf(r.data), b \in KeysOf(o.data) : ~(a >= b) BY SMT, <2>1, <1>2
  <2> QED BY <2>2 DEF Overlaps
<1>4. CASE \A f \in Inputs(c) : \A a \in KeysOf(r.data), b \in KeysOf(f.data) : b < a
  <2>1. \A a \in KeysOf(r.data), b \in KeysOf(o.data) : b < a BY <1>1, <1>4
  <2>2. \A a \in KeysOf(r.data), b \in KeysOf(o.data) : ~(a <= b) BY SMT, <2>1, <1>2
  <2> QED BY <2>2 DEF Overlaps
<1> QED BY <1>3, <1>4, RemainingApart

\* Installing a compaction keeps the version well formed: in particular the
\* target level stays free of overlaps.
LEMMA InstallKeepsVersionOK ==
  ASSUME NEW v \in [Level -> SUBSET File], VersionOK(v),
         NEW c \in Compactions, PickOK(v, c), NEW os \in SUBSET File, OutputsOK(c, os),
         \A o \in os : \A l \in Level : \A f \in v[l] : f.number # o.number
  PROVE  VersionOK(InstallCompaction(v, c, os))
<1> DEFINE s == c.source
           w == InstallCompaction(v, c, os)
<1>1. /\ s \in Level /\ s + 1 \in Level /\ s + 1 # 0 /\ s # s + 1
      /\ w[s] = v[s] \ c.srcs
      /\ w[s + 1] = (v[s + 1] \ c.tgts) \cup os
      /\ \A l \in Level : l # s /\ l # s + 1 => w[l] = v[l]
  BY SMT, InstalledLevels
<1> HIDE DEF w, s
<1>2. \A l \in Level : \A f \in w[l] : f \in v[l] \/ (l = s + 1 /\ f \in os)
  BY <1>1
<1>3. \A l \in Level : \A f \in w[l] : KeysOf(f.data) # {}
  BY <1>2 DEF VersionOK, OutputsOK
<1>4. ASSUME NEW l \in Level, NEW m \in Level, NEW f \in w[l], NEW g \in w[m],
             f.number = g.number
      PROVE  l = m /\ f = g
  <2>1. CASE f \in v[l] /\ g \in v[m] BY <1>4, <2>1 DEF VersionOK
  <2>2. CASE l = s + 1 /\ m = s + 1 /\ f \in os /\ g \in os BY <1>4, <2>2 DEF OutputsOK
  <2>3. CASE f \in v[l] /\ g \in os BY <1>4, <2>3
  <2>4. CASE f \in os /\ g \in v[m] BY <1>4, <2>4
  <2> QED BY <1>2, <2>1, <2>2, <2>3, <2>4
<1>5. ASSUME NEW l \in Level \ {0} PROVE Disjoint(w[l])
  <2>1. CASE l # s /\ l # s + 1 BY <1>1, <2>1 DEF VersionOK
  <2>2. CASE l = s BY <1>1, <2>2 DEF VersionOK, Disjoint
  <2>3. CASE l = s + 1
    <3> SUFFICES ASSUME NEW f \in w[l], NEW g \in w[l], f # g
                 PROVE  ~Overlaps(KeysOf(f.data), KeysOf(g.data))
      BY DEF Disjoint
    <3>1. CASE f \in os /\ g \in os BY <3>1 DEF OutputsOK, Disjoint
    <3>2. CASE f \in v[s + 1] \ c.tgts /\ g \in v[s + 1] \ c.tgts
      BY <1>1, <3>2 DEF VersionOK, Disjoint
    <3>3. CASE f \in v[s + 1] \ c.tgts /\ g \in os
      BY <3>3, RemainingNotOutput DEF s
    <3>4. CASE f \in os /\ g \in v[s + 1] \ c.tgts
      <4>1. ~Overlaps(KeysOf(g.data), KeysOf(f.data)) BY <3>4, RemainingNotOutput DEF s
      <4>2. KeysOf(f.data) \in SUBSET Keys /\ KeysOf(g.data) \in SUBSET Keys BY DEF KeysOf
      <4> QED BY <4>1, <4>2, OverlapsSym
    <3> QED BY <1>1, <2>3, <3>1, <3>2, <3>3, <3>4
  <2> QED BY <2>1, <2>2, <2>3
<1>6. VersionOK(w) BY <1>3, <1>4, <1>5 DEF VersionOK
<1> QED BY <1>6 DEF w

-------------------------------------------------------------------------------
(* Reads across an installed compaction *)

\* Source level, when a file the compaction does not touch holds the key: it is
\* newer than, or disjoint from, the files taken away.
LEMMA SourceKept ==
  ASSUME NEW v \in [Level -> SUBSET File], VersionOK(v),
         NEW w \in [Level -> SUBSET File], VersionOK(w),
         NEW c \in Compactions, PickOK(v, c), NEW k \in Keys,
         c.source \in Level, w[c.source] = v[c.source] \ c.srcs,
         NEW h \in v[c.source] \ c.srcs, h.data[k] # NotFound
  PROVE  LevelEntry(w, c.source, k) = LevelEntry(v, c.source, k)
         /\ LevelEntry(v, c.source, k) # NotFound
<1> DEFINE s == c.source
<1>1. PICK f \in w[s] : /\ f.data[k] # NotFound
                        /\ LevelEntry(w, s, k) = f.data[k]
                        /\ s = 0 => \A g \in w[0] : g.data[k] # NotFound => g.number <= f.number
  BY SMT, LevelFile
<1>2. ASSUME s = 0, NEW g \in v[0], g.data[k] # NotFound PROVE g.number <= f.number
  <2>1. CASE g \in c.srcs
    <3>1. g.number < f.number BY <1>1, <1>2, <2>1 DEF PickOK
    <3>2. f \in File /\ g \in File BY <1>1, <1>2
    <3> QED BY SMT, <3>1, <3>2 DEF File, Number
  <2>2. CASE g \notin c.srcs BY <1>1, <1>2, <2>2
  <2> QED BY <2>1, <2>2
<1>3. LevelEntry(v, s, k) = f.data[k]
  <2>1. f \in v[s] BY <1>1
  <2> QED BY SMT, <1>1, <1>2, <2>1, LevelHit
<1> QED BY <1>1, <1>3

\* Source level otherwise: the key was read from the inputs, and now is not.
LEMMA SourceTaken ==
  ASSUME NEW v \in [Level -> SUBSET File], VersionOK(v), NEW w,
         NEW c \in Compactions, PickOK(v, c), NEW k \in Keys,
         c.source \in Level, w[c.source] = v[c.source] \ c.srcs,
         \A h \in v[c.source] \ c.srcs : h.data[k] = NotFound
  PROVE  LevelEntry(w, c.source, k) = NotFound
         /\ LevelEntry(v, c.source, k) = NewestEntry(c.srcs, k)
<1> DEFINE s == c.source
<1>1. LevelEntry(w, s, k) = NotFound BY LevelMiss
<1>2. c.srcs \subseteq v[s] /\ c.srcs \in SUBSET File BY DEF PickOK, Compactions
<1>3. CASE \A f \in c.srcs : f.data[k] = NotFound
  <2>1. \A f \in v[s] : f.data[k] = NotFound BY <1>3
  <2> QED BY <1>1, <1>3, <2>1, LevelMiss, NewestMiss
<1>4. CASE \E f \in c.srcs : f.data[k] # NotFound
  <2>1. PICK f \in c.srcs : f.data[k] # NotFound
              /\ \A g \in c.srcs : g.data[k] # NotFound => g.number <= f.number
    BY <1>2, <1>4, NewestExists
  <2>2. \A x, y \in c.srcs : x.number = y.number => x = y BY <1>2 DEF VersionOK
  <2>3. NewestEntry(c.srcs, k) = f.data[k] BY SMT, <1>2, <2>1, <2>2, NewestHit
  <2>4. s = 0 => \A g \in v[0] : g.data[k] # NotFound => g.number <= f.number BY <2>1
  <2>5. LevelEntry(v, s, k) = f.data[k] BY SMT, <1>2, <2>1, <2>4, LevelHit
  <2> QED BY <1>1, <2>3, <2>5
<1> QED BY <1>3, <1>4

\* Target level, when a file that stays holds the key: no input holds it.
LEMMA TargetKept ==
  ASSUME NEW v \in [Level -> SUBSET File], VersionOK(v),
         NEW w \in [Level -> SUBSET File], VersionOK(w),
         NEW c \in Compactions, PickOK(v, c), NEW os, OutputsOK(c, os), NEW k \in Keys,
         c.source + 1 \in Level, c.source + 1 # 0,
         w[c.source + 1] = (v[c.source + 1] \ c.tgts) \cup os,
         \E r \in v[c.source + 1] \ c.tgts : r.data[k] # NotFound
  PROVE  /\ LevelEntry(w, c.source + 1, k) = LevelEntry(v, c.source + 1, k)
         /\ \A f \in c.srcs : f.data[k] = NotFound
<1> DEFINE t == c.source + 1
<1>0. PICK r \in v[t] \ c.tgts : r.data[k] # NotFound OBVIOUS
<1>1. LevelEntry(v, t, k) = r.data[k] BY SMT, <1>0, LevelHit
<1>2. LevelEntry(w, t, k) = r.data[k] BY SMT, <1>0, LevelHit
<1>3. ASSUME NEW f \in c.srcs, f.data[k] # NotFound PROVE FALSE
  <2>1. f \in Inputs(c) /\ k \in KeysOf(f.data) /\ k \in KeysOf(r.data)
    BY <1>0, <1>3 DEF Inputs, KeysOf
  <2>2. k < k BY <2>1, RemainingApart
  <2> QED BY SMT, <2>2, KeysAssumption
<1> QED BY <1>1, <1>2, <1>3

\* Target level otherwise: the key was read from the inputs and now comes from
\* the outputs.
LEMMA TargetReplaced ==
  ASSUME NEW v \in [Level -> SUBSET File], VersionOK(v),
         NEW w \in [Level -> SUBSET File], VersionOK(w),
         NEW c \in Compactions, PickOK(v, c), NEW os, OutputsOK(c, os), NEW k \in Keys,
         Merged(c)[k] # NotFound => \E o \in os : o.data[k] # NotFound,
         c.source + 1 \in Level, c.source + 1 # 0,
         w[c.source + 1] = (v[c.source + 1] \ c.tgts) \cup os,
         \A r \in v[c.source + 1] \ c.tgts : r.data[k] = NotFound
  PROVE  /\ LevelEntry(v, c.source + 1, k) = NewestEntry(c.tgts, k)
         /\ LevelEntry(w, c.source + 1, k) = Merged(c)[k]
<1> DEFINE t == c.source + 1
<1>1. c.tgts \subseteq v[t] /\ c.tgts \in SUBSET File BY DEF PickOK, Compactions
<1>2. LevelEntry(v, t, k) = NewestEntry(c.tgts, k)
  <2>1. CASE \A f \in c.tgts : f.data[k] = NotFound
    <3>1. \A f \in v[t] : f.data[k] = NotFound BY <2>1
    <3> QED BY <2>1, <3>1, LevelMiss, NewestMiss
  <2>2. CASE \E f \in c.tgts : f.data[k] # NotFound
    <3>1. PICK f \in c.tgts : f.data[k] # NotFound
                /\ \A g \in c.tgts : g.data[k] # NotFound => g.number <= f.number
      BY ZenonT(40), <1>1, <2>2, NewestExists
    <3>2. \A x, y \in c.tgts : x.number = y.number => x = y BY <1>1 DEF VersionOK
    <3>3. NewestEntry(c.tgts, k) = f.data[k] BY SMT, <1>1, <3>1, <3>2, NewestHit
    <3>4. LevelEntry(v, t, k) = f.data[k] BY SMT, <1>1, <3>1, LevelHit
    <3> QED BY <3>3, <3>4
  <2> QED BY <2>1, <2>2
<1>3. LevelEntry(w, t, k) = Merged(c)[k]
  <2>1. CASE Merged(c)[k] = NotFound
    <3>1. \A f \in w[t] : f.data[k] = NotFound BY <2>1 DEF OutputsOK
    <3> QED BY <2>1, <3>1, LevelMiss
  <2>2. CASE Merged(c)[k] # NotFound
    <3>1. PICK o \in os : o.data[k] # NotFound BY <2>2
    <3>2. o.data[k] = Merged(c)[k] BY <3>1 DEF OutputsOK
    <3>3. o \in w[t] OBVIOUS
    <3> QED BY SMT, <3>1, <3>2, <3>3, LevelHit
  <2> QED BY <2>1, <2>2
<1> QED BY <1>2, <1>3

\* Installing a compaction whose outputs hold the whole merged stream changes
\* no read: not when a newer file shadows an input, not when a tombstone is
\* dropped.
THEOREM CompactionKeepsReads ==
  ASSUME NEW v \in [Level -> SUBSET File], VersionOK(v),
         NEW c \in Compactions, PickOK(v, c), NEW os \in SUBSET File, OutputsOK(c, os),
         \A o \in os : \A l \in Level : \A f \in v[l] : f.number # o.number,
         \A k \in Keys : Merged(c)[k] # NotFound => \E o \in os : o.data[k] # NotFound,
         NEW k \in Keys
  PROVE  Live(GetFromVersion(InstallCompaction(v, c, os), k)) = Live(GetFromVersion(v, k))
<1> DEFINE s == c.source
           t == c.source + 1
           w == InstallCompaction(v, c, os)
           x == NewestEntry(c.srcs, k)
           y == NewestEntry(c.tgts, k)
<1>1. /\ s \in Level /\ t \in Level /\ t # 0 /\ s # t
      /\ w \in [Level -> SUBSET File]
      /\ w[s] = v[s] \ c.srcs
      /\ w[t] = (v[t] \ c.tgts) \cup os
      /\ \A l \in Level : l # s /\ l # t => w[l] = v[l]
  BY SMT, InstalledLevels
<1>2. VersionOK(w) BY InstallKeepsVersionOK
<1>3. Level \subseteq Int BY SMT, OptionsAssumption DEF Level
<1>4. Merged(c)[k] = IF c.bottommost /\ MergedEntry(c, k) = Deleted
                     THEN NotFound ELSE MergedEntry(c, k)
  BY DEF Merged
<1>5. MergedEntry(c, k) = IF x # NotFound THEN x ELSE y BY DEF MergedEntry
<1> HIDE DEF w, x, y
<1>6. \A l \in Level : l # s /\ l # t => LevelEntry(w, l, k) = LevelEntry(v, l, k)
  BY <1>1 DEF LevelEntry
<1>7. \A l \in Level : (l <= s /\ l # s => l # t) /\ (l < t => l = s \/ l < s) /\ (l < s => l # t)
  <2>1. ASSUME NEW l \in Level
        PROVE (l <= s /\ l # s => l # t) /\ (l < t => l = s \/ l < s) /\ (l < s => l # t)
    <3>1. l \in Int /\ s \in Int BY ZenonT(40), <1>1, <1>3
    <3> QED BY SMT, <3>1
  <2> QED BY <2>1
<1>8. CASE \E h \in v[s] \ c.srcs : h.data[k] # NotFound
  <2>1. LevelEntry(w, s, k) = LevelEntry(v, s, k) /\ LevelEntry(v, s, k) # NotFound
    BY SMT, <1>1, <1>2, <1>8, SourceKept
  <2>2. \A l \in Level : l <= s => LevelEntry(w, l, k) = LevelEntry(v, l, k)
    BY SMTT(30), <1>6, <1>7, <2>1
  <2> QED BY SMTT(30), <1>1, <2>1, <2>2, GetSameDownTo DEF w
<1>9. CASE /\ \A h \in v[s] \ c.srcs : h.data[k] = NotFound
           /\ \E r \in v[t] \ c.tgts : r.data[k] # NotFound
  <2>1. LevelEntry(w, s, k) = NotFound /\ LevelEntry(v, s, k) = x
    BY SMTT(30), <1>1, <1>9, SourceTaken DEF x
  <2>2. LevelEntry(w, t, k) = LevelEntry(v, t, k) /\ \A f \in c.srcs : f.data[k] = NotFound
    BY SMTT(30), <1>1, <1>2, <1>9, TargetKept
  <2>3. x = NotFound BY <2>2, NewestMiss DEF x
  <2>4. \A l \in Level : LevelEntry(w, l, k) = LevelEntry(v, l, k)
    BY <1>6, <2>1, <2>2, <2>3
  <2> QED BY <2>4, GetSame DEF w
<1>10. CASE /\ \A h \in v[s] \ c.srcs : h.data[k] = NotFound
            /\ \A r \in v[t] \ c.tgts : r.data[k] = NotFound
  <2>1. LevelEntry(w, s, k) = NotFound /\ LevelEntry(v, s, k) = x
    BY SMTT(30), <1>1, <1>10, SourceTaken DEF x
  <2>2. LevelEntry(v, t, k) = y /\ LevelEntry(w, t, k) = Merged(c)[k]
    BY SMTT(30), <1>1, <1>2, <1>10, TargetReplaced DEF y
  <2>3. CASE \E l \in Level : l < s /\ LevelEntry(v, l, k) # NotFound
    <3>1. PICK n \in Level : n < s /\ LevelEntry(v, n, k) # NotFound BY <2>3
    <3>2. ASSUME NEW l \in Level, l <= n PROVE LevelEntry(w, l, k) = LevelEntry(v, l, k)
      <4>1. l \in Int /\ n \in Int /\ s \in Int BY <1>1, <1>3
      <4>2. l < s BY SMT, <3>1, <3>2, <4>1
      <4> QED BY SMT, <1>6, <1>7, <4>1, <4>2
    <3> QED BY <3>1, <3>2, GetSameDownTo DEF w
  <2>4. CASE \A l \in Level : l < s => LevelEntry(v, l, k) = NotFound
    <3>1. \A l \in Level : l < s => LevelEntry(w, l, k) = NotFound
      <4>1. ASSUME NEW l \in Level, l < s PROVE LevelEntry(w, l, k) = NotFound
        <5>1. l \in Int /\ s \in Int BY <1>1, <1>3
        <5>2. l # s BY SMT, <4>1, <5>1
        <5> QED BY ZenonT(30), <1>6, <1>7, <2>4, <4>1, <5>2
      <4> QED BY <4>1
    <3>2. \A l \in Level : l < t => LevelEntry(w, l, k) = NotFound
      BY <1>7, <2>1, <3>1
    <3>3. x # NotFound => GetFromVersion(v, k) = x
      <4> SUFFICES ASSUME x # NotFound PROVE GetFromVersion(v, k) = x OBVIOUS
      <4>1. s \in Level /\ LevelEntry(v, s, k) # NotFound BY <1>1, <2>1
      <4>2. GetFromVersion(v, k) = LevelEntry(v, s, k) BY <2>4, <4>1, GetHit
      <4> QED BY <2>1, <4>2
    <3>4. x = NotFound /\ y # NotFound => GetFromVersion(v, k) = y
      <4>1. x = NotFound => \A l \in Level : l < t => LevelEntry(v, l, k) = NotFound
        BY <1>7, <2>1, <2>4
      <4> SUFFICES ASSUME x = NotFound, y # NotFound PROVE GetFromVersion(v, k) = y OBVIOUS
      <4>2. GetFromVersion(v, k) = LevelEntry(v, t, k) BY ZenonT(30), <1>1, <2>2, <4>1, GetHit
      <4> QED BY <2>2, <4>2
    <3>5. Merged(c)[k] # NotFound => GetFromVersion(w, k) = Merged(c)[k]
      <4> SUFFICES ASSUME Merged(c)[k] # NotFound PROVE GetFromVersion(w, k) = Merged(c)[k] OBVIOUS
      <4>1. LevelEntry(w, t, k) # NotFound BY <2>2
      <4>2. GetFromVersion(w, k) = LevelEntry(w, t, k) BY ZenonT(30), <1>1, <3>2, <4>1, GetHit
      <4> QED BY <2>2, <4>2
    <3>6. CASE x = NotFound /\ y = NotFound
      <4>1. Merged(c)[k] = NotFound BY SMTT(30), <1>4, <1>5, <3>6
      <4>2. \A l \in Level : LevelEntry(w, l, k) = LevelEntry(v, l, k)
        BY <1>6, <2>1, <2>2, <3>6, <4>1
      <4> QED BY <4>2, GetSame DEF w
    <3>7. CASE Merged(c)[k] # NotFound
      <4>1. Merged(c)[k] = IF x # NotFound THEN x ELSE y BY <1>4, <1>5, <3>7
      <4> QED BY <3>3, <3>4, <3>5, <3>7, <4>1 DEF w
    <3>8. CASE Merged(c)[k] = NotFound /\ ~(x = NotFound /\ y = NotFound)
      <4>1. c.bottommost /\ (IF x # NotFound THEN x ELSE y) = Deleted
        BY <1>4, <1>5, <3>8
      <4>2. GetFromVersion(v, k) = Deleted BY SMTT(30), <3>3, <3>4, <3>8, <4>1
      <4>3. ASSUME NEW l \in Level PROVE LevelEntry(w, l, k) = NotFound
        <5>1. l \in Int /\ s \in Int BY <1>1, <1>3
        <5>2. CASE l < t BY <3>2, <5>2
        <5>3. CASE l = t BY SMTT(30), <2>2, <3>8, <5>3
        <5>4. CASE l > t
          <6>1. v[l] = {} BY <4>1, <5>4 DEF PickOK, NoDataBelow
          <6>2. l # s /\ l # t BY SMTT(30), <5>1, <5>4
          <6>3. \A f \in w[l] : f.data[k] = NotFound BY <1>1, <6>1, <6>2
          <6> QED BY <6>3, LevelMiss
        <5>5. l < t \/ l = t \/ l > t BY SMT, <5>1
        <5> QED BY <5>2, <5>3, <5>4, <5>5
      <4>4. GetFromVersion(w, k) = NotFound BY SMTT(30), <4>3, GetMiss
      <4> QED BY <4>2, <4>4, EntryAssumption DEF Live, w
    <3> QED BY <3>6, <3>7, <3>8
  <2> QED BY <2>3, <2>4
<1> QED BY <1>8, <1>9, <1>10

-------------------------------------------------------------------------------
(* Installing a flush *)

\* Adding a nonempty file with a new number to level 0 keeps the version sound.
LEMMA FlushKeepsVersionOK ==
  ASSUME NEW v \in [Level -> SUBSET File], VersionOK(v), NEW f \in File,
         KeysOf(f.data) # {}, \A l \in Level : \A g \in v[l] : g.number # f.number
  PROVE  VersionOK(AddL0(v, f))
<1> DEFINE w == AddL0(v, f)
<1>1. /\ w[0] = v[0] \cup {f}
      /\ \A l \in Level : l # 0 => w[l] = v[l]
  BY FlushedLevels
<1> HIDE DEF w
<1>2. \A l \in Level : \A g \in w[l] : g \in v[l] \/ (l = 0 /\ g = f) BY <1>1
<1>3. \A l \in Level : \A g \in w[l] : KeysOf(g.data) # {} BY <1>2 DEF VersionOK
<1>4. \A l, m \in Level : \A g \in w[l], h \in w[m] : g.number = h.number => l = m /\ g = h
  BY SMT, <1>2 DEF VersionOK
<1>5. \A l \in Level \ {0} : Disjoint(w[l]) BY <1>1 DEF VersionOK
<1> QED BY <1>3, <1>4, <1>5 DEF VersionOK, w

\* A flushed memtable is read through its file, and hides nothing else.
LEMMA FlushReads ==
  ASSUME NEW v \in [Level -> SUBSET File], VersionOK(v), NEW f \in File,
         KeysOf(f.data) # {}, \A l \in Level : \A g \in v[l] : g.number # f.number,
         NEW k \in Keys, f.data[k] = NotFound
  PROVE  GetFromVersion(AddL0(v, f), k) = GetFromVersion(v, k)
<1> DEFINE w == AddL0(v, f)
<1>1. /\ 0 \in Level
      /\ w \in [Level -> SUBSET File]
      /\ w[0] = v[0] \cup {f}
      /\ \A l \in Level : l # 0 => w[l] = v[l]
  BY FlushedLevels
<1>2. VersionOK(w) BY FlushKeepsVersionOK
<1> HIDE DEF w
<1>3. LevelEntry(w, 0, k) = LevelEntry(v, 0, k)
  <2>1. CASE \A g \in v[0] : g.data[k] = NotFound
    <3>1. \A g \in w[0] : g.data[k] = NotFound BY <1>1, <2>1
    <3> QED BY <2>1, <3>1, LevelMiss
  <2>2. CASE \E g \in v[0] : g.data[k] # NotFound
    <3>1. PICK h \in v[0] : /\ h.data[k] # NotFound
                            /\ LevelEntry(v, 0, k) = h.data[k]
                            /\ \A g \in v[0] : g.data[k] # NotFound => g.number <= h.number
      BY <1>1, <2>2, LevelFile
    <3>2. h \in w[0] /\ \A g \in w[0] : g.data[k] # NotFound => g.number <= h.number
      BY <1>1, <3>1
    <3>3. LevelEntry(w, 0, k) = h.data[k] BY SMT, <1>1, <1>2, <3>1, <3>2, LevelHit
    <3> QED BY <3>1, <3>3
  <2> QED BY <2>1, <2>2
<1>4. \A l \in Level : LevelEntry(w, l, k) = LevelEntry(v, l, k)
  BY <1>1, <1>3 DEF LevelEntry
<1> QED BY <1>4, GetSame DEF w
===============================================================================
