------------------------------ MODULE ReadsProofs -----------------------------
(***************************************************************************)
(* Lookups, scans and merges over any well-formed version, with any blocks *)
(* that cannot be read: what they deliver, and what the three agree on.    *)
(***************************************************************************)
EXTENDS Reads, VersionProofs

\* Zenon proves the leaves; those with arithmetic, tuples or records name SMT.
USE Zenon

-------------------------------------------------------------------------------
(* Sources *)

SourcesOf(c) ==
  IF c.kind = "compaction" THEN InputsOf(c.compaction) ELSE TablesOf(c.mem, c.version)

\* What the sources of a call hold for k, the first one that has it deciding.
Top(c, k) ==
  IF c.kind = "compaction" THEN MergedEntry(c.compaction, k)
  ELSE IF c.mem[k] # NotFound THEN c.mem[k] ELSE GetFromVersion(c.version, k)

\* Sources that the priority order tells apart wherever they hold the same key.
SourcesOK(S) ==
  /\ \A s \in S : s.level \in Int /\ s.level >= -1 /\ s.number \in 0 .. MaxFile /\ s.data \in Table
  /\ \A s, t \in S : s.level = t.level /\ s # t =>
       IF s.level = 0 THEN s.number # t.number
       ELSE s.level > 0 /\ KeysOf(s.data) # {} /\ ~Overlaps(KeysOf(s.data), KeysOf(t.data))

\* The files of a level as sources.
LEMMA SourceIs ==
  ASSUME NEW l, NEW files, NEW s \in Source(l, files)
  PROVE  \E f \in files : s.level = l /\ s.number = f.number /\ s.data = f.data
BY SMT DEF Source
LEMMA SourceOf ==
  ASSUME NEW l, NEW files, NEW f \in files
  PROVE  \E s \in Source(l, files) : s.level = l /\ s.number = f.number /\ s.data = f.data
<1> DEFINE s == [level |-> l, number |-> f.number, data |-> f.data]
<1>1. s \in Source(l, files) BY DEF Source
<1>2. s.level = l /\ s.number = f.number /\ s.data = f.data OBVIOUS
<1> QED BY <1>1, <1>2
LEMMA SourceSame ==
  ASSUME NEW l, NEW files \in SUBSET File, NEW s \in Source(l, files), NEW t \in Source(l, files),
         s.number = t.number, \A f, g \in files : f.number = g.number => f = g
  PROVE  s = t
BY SMT DEF Source

\* The sources of one level.
LEMMA LevelSourcesOK ==
  ASSUME NEW l \in Int, l >= 0, NEW files \in SUBSET File,
         \A f \in files : KeysOf(f.data) # {},
         \A f, g \in files : f.number = g.number => f = g,
         l > 0 => Disjoint(files)
  PROVE  SourcesOK(Source(l, files))
<1> DEFINE S == Source(l, files)
<1>1. \A f \in files : f.number \in 0 .. MaxFile /\ f.data \in Table
  BY SMT, OptionsAssumption DEF File, Number
<1>2. ASSUME NEW s \in S
      PROVE  s.level = l /\ s.number \in 0 .. MaxFile /\ s.data \in Table
  BY SMT, <1>1, SourceIs
<1>3. ASSUME NEW s \in S PROVE s.level \in Int /\ s.level >= -1 BY SMT, <1>2
<1>4. ASSUME NEW s \in S, NEW t \in S, s # t PROVE s.number # t.number
  BY <1>4, SourceSame
<1>5. ASSUME NEW s \in S, NEW t \in S, s # t, l # 0
      PROVE  l > 0 /\ KeysOf(s.data) # {} /\ ~Overlaps(KeysOf(s.data), KeysOf(t.data))
  <2>1. l > 0 BY SMT, <1>5
  <2>2. PICK f \in files : s.number = f.number /\ s.data = f.data BY SMT, SourceIs
  <2>3. PICK g \in files : t.number = g.number /\ t.data = g.data BY SMT, SourceIs
  <2>4. f # g BY <1>4, <1>5, <2>2, <2>3
  <2> QED BY <2>1, <2>2, <2>3, <2>4 DEF Disjoint
<1> QED BY <1>2, <1>3, <1>4, <1>5 DEF SourcesOK

\* It is enough to know the sources level by level.
LEMMA ByLevelOK ==
  ASSUME NEW S, \A s \in S : \E T : SourcesOK(T) /\ s \in T /\ \A t \in S : t.level = s.level => t \in T
  PROVE  SourcesOK(S)
<1>1. ASSUME NEW s \in S
      PROVE  s.level \in Int /\ s.level >= -1 /\ s.number \in 0 .. MaxFile /\ s.data \in Table
  BY DEF SourcesOK
<1>2. ASSUME NEW s \in S, NEW t \in S, s.level = t.level, s # t
      PROVE  IF s.level = 0 THEN s.number # t.number
             ELSE s.level > 0 /\ KeysOf(s.data) # {} /\ ~Overlaps(KeysOf(s.data), KeysOf(t.data))
  <2>1. PICK T : SourcesOK(T) /\ s \in T /\ t \in T BY <1>2
  <2> QED BY <1>2, <2>1 DEF SourcesOK
<1> QED BY <1>1, <1>2 DEF SourcesOK

\* A compaction's inputs, and the tables of a read.
LEMMA CallSourcesOK ==
  ASSUME NEW c \in Calls
  PROVE  SourcesOK(SourcesOf(c))
<1>1. CASE c.kind = "compaction"
  <2> DEFINE d == c.compaction
             n == d.source
             A == Source(n, d.srcs)
             B == Source(n + 1, d.tgts)
  <2>1. d \in Compactions /\ MergeOK(d) BY <1>1, CallsAssumption
  <2> HIDE DEF d
  <2>2. d.srcs \in SUBSET File /\ d.tgts \in SUBSET File /\ n \in 0 .. MaxLevels - 2
    BY <2>1 DEF Compactions
  <2>3. n \in Int /\ n >= 0 /\ n + 1 \in Int /\ n + 1 >= 0 /\ n + 1 > 0 /\ n # n + 1
    BY SMT, <2>2, OptionsAssumption
  <2>4. /\ \A f \in d.srcs \cup d.tgts : KeysOf(f.data) # {}
        /\ \A f, g \in d.srcs \cup d.tgts : f.number = g.number => f = g
        /\ Disjoint(d.tgts) /\ (n > 0 => Disjoint(d.srcs))
    BY <2>1 DEF MergeOK, Inputs
  <2> HIDE DEF n
  <2>5. SourcesOK(A)
    <3>1. /\ \A f \in d.srcs : KeysOf(f.data) # {}
          /\ \A f, g \in d.srcs : f.number = g.number => f = g
      BY <2>4
    <3> QED BY <2>2, <2>3, <2>4, <3>1, LevelSourcesOK
  <2>6. SourcesOK(B)
    <3>1. /\ \A f \in d.tgts : KeysOf(f.data) # {}
          /\ \A f, g \in d.tgts : f.number = g.number => f = g
      BY <2>4
    <3> QED BY <2>2, <2>3, <2>4, <3>1, LevelSourcesOK
  <2>7. (\A s \in A : s.level = n) /\ (\A s \in B : s.level = n + 1) BY SourceIs
  <2>8. SourcesOf(c) = A \cup B BY <1>1 DEF SourcesOf, InputsOf, d, n
  <2> HIDE DEF A, B
  <2>9. SourcesOK(A \cup B)
    <3> DEFINE S == A \cup B
    <3>1. \A s \in A, t \in B : s.level # t.level BY SMT, <2>3, <2>7
    <3>2. \A s \in S : \E T : SourcesOK(T) /\ s \in T /\ \A t \in S : t.level = s.level => t \in T
      BY <2>5, <2>6, <3>1
    <3> HIDE DEF S
    <3>3. SourcesOK(S) BY <3>2, ByLevelOK
    <3> QED BY <3>3 DEF S
  <2> QED BY <2>8, <2>9
<1>2. CASE c.kind # "compaction"
  <2> DEFINE v == c.version
             m == c.mem
             M == {Mem(m)}
             S == SourcesOf(c)
  <2>1. m \in Table /\ v \in [Level -> SUBSET File] /\ VersionOK(v) BY <1>2, CallsAssumption
  <2> HIDE DEF m, v
  <2>2. ASSUME NEW l \in Level PROVE l \in Int /\ l >= 0 /\ l # -1 /\ (l > 0 => l \in Level \ {0})
    BY SMT, OptionsAssumption DEF Level
  <2>3. ASSUME NEW l \in Level PROVE SourcesOK(Source(l, v[l]))
    <3>1. /\ v[l] \in SUBSET File
          /\ \A f \in v[l] : KeysOf(f.data) # {}
          /\ \A f, g \in v[l] : f.number = g.number => f = g
          /\ l > 0 => Disjoint(v[l])
      BY <2>1, <2>2 DEF VersionOK
    <3> QED BY <2>2, <3>1, LevelSourcesOK
  <2>4. SourcesOK(M) /\ \A s \in M : s.level = -1
    <3>1. Mem(m).level = -1 /\ Mem(m).number = 0 /\ Mem(m).data = m BY DEF Mem
    <3>2. 0 \in 0 .. MaxFile BY SMT, OptionsAssumption
    <3> QED BY SMT, <2>1, <3>1, <3>2 DEF SourcesOK
  <2>5. \A s \in S : s \in M \/ \E l \in Level : s \in Source(l, v[l])
    BY <1>2 DEF SourcesOf, TablesOf, m, v
  <2>6. \A l \in Level : \A s \in Source(l, v[l]) : s.level = l BY SourceIs
  <2> HIDE DEF S, M
  <2>7. ASSUME NEW s \in S
        PROVE  \E T : SourcesOK(T) /\ s \in T /\ \A t \in S : t.level = s.level => t \in T
    <3>1. CASE s \in M
      <4>1. ASSUME NEW t \in S, t.level = s.level PROVE t \in M
        <5>1. \A l \in Level : t \notin Source(l, v[l]) BY <2>2, <2>4, <2>6, <3>1, <4>1
        <5> QED BY <2>5, <5>1
      <4> QED BY <2>4, <3>1, <4>1
    <3>2. ASSUME NEW l \in Level, s \in Source(l, v[l])
          PROVE  \E T : SourcesOK(T) /\ s \in T /\ \A t \in S : t.level = s.level => t \in T
      <4>1. ASSUME NEW t \in S, t.level = s.level PROVE t \in Source(l, v[l])
        <5>1. t.level = l BY <2>6, <3>2, <4>1
        <5>2. t \notin M BY <2>2, <2>4, <5>1
        <5>3. PICK k \in Level : t \in Source(k, v[k]) BY <2>5, <5>2
        <5>4. k = l BY <2>6, <5>1, <5>3
        <5> QED BY <5>3, <5>4
      <4> QED BY <2>3, <3>2, <4>1
    <3> QED BY <2>5, <3>1, <3>2
  <2>8. SourcesOK(S) BY <2>7, ByLevelOK
  <2> QED BY <2>8 DEF S
<1> QED BY <1>1, <1>2

\* Among sources of which each level but the first has one at most, one comes
\* first.
LEMMA FirstIs ==
  ASSUME NEW S, SourcesOK(S), NEW H \in SUBSET S, H # {},
         \A s, t \in H : s.level = t.level /\ s.level # 0 => s = t
  PROVE  First(H) \in H /\ \A t \in H \ {First(H)} : Precedes(First(H), t)
<1>1. \A s \in H : s.level + 1 \in Nat /\ s.level \in Int /\ MaxFile - s.number \in Nat /\ s.number \in Int
  <2>1. \A s \in H : s.level \in Int /\ s.level >= -1 /\ s.number \in 0 .. MaxFile BY DEF SourcesOK
  <2> QED BY SMT, <2>1, OptionsAssumption
<1>2. PICK a \in H : \A t \in H : a.level + 1 <= t.level + 1
  <2> DEFINE N == {n \in Nat : \E s \in H : n = s.level + 1}
  <2>1. N \in SUBSET Nat /\ N # {} BY <1>1
  <2>2. PICK n \in N : \A m \in N : n <= m BY <2>1, LeastNat
  <2>3. PICK a \in H : n = a.level + 1 BY <2>2
  <2>4. ASSUME NEW t \in H PROVE n <= t.level + 1
    <3>1. t.level + 1 \in N BY <1>1
    <3> QED BY <2>2, <3>1
  <2> QED BY <2>3, <2>4
<1>3. \A t \in H : t.level = a.level \/ a.level < t.level BY SMT, <1>1, <1>2
<1>4. \E s \in H : \A t \in H \ {s} : Precedes(s, t)
  <2>1. CASE a.level # 0 BY <1>3, <2>1 DEF Precedes
  <2>2. CASE a.level = 0
    <3> DEFINE N == {n \in Nat : \E s \in H : s.level = 0 /\ n = MaxFile - s.number}
    <3>1. N \in SUBSET Nat /\ N # {} BY <1>1, <2>2
    <3>2. PICK n \in N : \A m \in N : n <= m BY <3>1, LeastNat
    <3>3. PICK b \in H : b.level = 0 /\ n = MaxFile - b.number BY <3>2
    <3>4. ASSUME NEW t \in H \ {b} PROVE Precedes(b, t)
      <4>1. CASE t.level = 0
        <5>1. MaxFile - t.number \in N BY <1>1, <4>1
        <5>2. MaxFile - b.number <= MaxFile - t.number BY <3>2, <3>3, <5>1
        <5>3. b.number # t.number BY <3>3, <4>1 DEF SourcesOK
        <5>4. b.number > t.number BY SMT, <1>1, <5>2, <5>3, OptionsAssumption
        <5> QED BY <3>3, <4>1, <5>4 DEF Precedes
      <4>2. CASE t.level # 0 BY <1>3, <2>2, <3>3, <4>2 DEF Precedes
      <4> QED BY <4>1, <4>2
    <3> QED BY <3>4
  <2> QED BY <2>1, <2>2
<1> QED BY <1>4 DEF First

\* Two sources of one sorted level do not hold the same key.
LEMMA SameLevelHolder ==
  ASSUME NEW S, SourcesOK(S), NEW s \in S, NEW t \in S, s.level = t.level, s.level # 0,
         NEW k \in Keys, s.data[k] # NotFound, t.data[k] # NotFound
  PROVE  s = t
<1> SUFFICES ASSUME s # t PROVE FALSE OBVIOUS
<1>1. ~Overlaps(KeysOf(s.data), KeysOf(t.data)) BY DEF SourcesOK
<1>2. k \in KeysOf(s.data) /\ k \in KeysOf(t.data) BY DEF KeysOf
<1>3. k >= k /\ k <= k BY SMT, KeysAssumption
<1> QED BY <1>1, <1>2, <1>3 DEF Overlaps

\* Of the sources that hold k, one comes first.
LEMMA FirstHolder ==
  ASSUME NEW S, SourcesOK(S), NEW k \in Keys, NEW H \in SUBSET S, H # {},
         \A s \in H : s.data[k] # NotFound
  PROVE  First(H) \in H /\ \A t \in H \ {First(H)} : Precedes(First(H), t)
<1>1. ASSUME NEW s \in H, NEW t \in H, s.level = t.level, s.level # 0 PROVE s = t
  <2>1. s \in S /\ t \in S /\ s.data[k] # NotFound /\ t.data[k] # NotFound OBVIOUS
  <2> QED BY SMT, <1>1, <2>1, SameLevelHolder
<1> QED BY <1>1, FirstIs

\* In a sorted level the file that holds k is the newest that does.
LEMMA OnlyHolder ==
  ASSUME NEW files \in SUBSET File, Disjoint(files), NEW k \in Keys,
         NEW f \in files, f.data[k] # NotFound, NEW g \in files, g.data[k] # NotFound
  PROVE  g = f
<1> SUFFICES ASSUME f # g PROVE FALSE OBVIOUS
<1>1. k \in KeysOf(f.data) /\ k \in KeysOf(g.data) BY DEF KeysOf
<1>2. k >= k /\ k <= k BY SMT, KeysAssumption
<1> QED BY <1>1, <1>2 DEF Disjoint, Overlaps

\* The newest file is the one that the level answers from, in every level.
LEMMA NewestIsLevel ==
  ASSUME NEW v \in [Level -> SUBSET File], VersionOK(v), NEW l \in Level, NEW k \in Keys
  PROVE  NewestEntry(v[l], k) = LevelEntry(v, l, k)
<1>1. v[l] \in SUBSET File OBVIOUS
<1>2. CASE \A f \in v[l] : f.data[k] = NotFound BY <1>2, NewestMiss, LevelMiss
<1>3. ASSUME NEW h \in v[l], h.data[k] # NotFound PROVE NewestEntry(v[l], k) = LevelEntry(v, l, k)
  <2>1. PICK f \in v[l] : f.data[k] # NotFound
          /\ \A g \in v[l] : g.data[k] # NotFound => g.number <= f.number
    BY <1>1, <1>3, NewestExists
  <2>2. \A g, e \in v[l] : g.number = e.number => g = e BY DEF VersionOK
  <2>3. NewestEntry(v[l], k) = f.data[k] BY <1>1, <2>1, <2>2, NewestHit
  <2>4. LevelEntry(v, l, k) = f.data[k] BY <2>1, LevelHit
  <2> QED BY <2>3, <2>4
<1> QED BY <1>2, <1>3

\* The first source that holds k has the entry that counts.
LEMMA TopHit ==
  ASSUME NEW c \in Calls, NEW k \in Keys, NEW s \in SourcesOf(c), s.data[k] # NotFound,
         \A t \in SourcesOf(c) \ {s} : t.data[k] # NotFound => Precedes(s, t)
  PROVE  Top(c, k) = s.data[k]
<1>1. CASE c.kind = "compaction"
  <2> DEFINE d == c.compaction
             n == d.source
             A == Source(n, d.srcs)
             B == Source(n + 1, d.tgts)
  <2>1. d \in Compactions /\ MergeOK(d) BY <1>1, CallsAssumption
  <2>2. SourcesOf(c) = A \cup B BY <1>1 DEF SourcesOf, InputsOf
  <2>3. Top(c, k) = MergedEntry(d, k) BY <1>1 DEF Top
  <2> HIDE DEF d
  <2>4. d.srcs \in SUBSET File /\ d.tgts \in SUBSET File /\ n \in 0 .. MaxLevels - 2
    BY <2>1 DEF Compactions
  <2>5. n \in Int /\ n + 1 # n /\ ~(n + 1 < n) /\ n + 1 # 0 /\ (n # 0 => n > 0) BY SMT, <2>4, OptionsAssumption
  <2>6. /\ \A f, g \in d.srcs \cup d.tgts : f.number = g.number => f = g
        /\ Disjoint(d.tgts) /\ (n > 0 => Disjoint(d.srcs))
    BY <2>1 DEF MergeOK, Inputs
  <2>7. \A f \in d.srcs \cup d.tgts : f.number \in Nat BY SMT, <2>4 DEF File, Number
  <2> HIDE DEF n
  <2>8. CASE s \in A
    <3>1. PICK f \in d.srcs : s.level = n /\ s.number = f.number /\ s.data = f.data BY SMT, <2>8, SourceIs
    <3>2. ASSUME NEW g \in d.srcs, g.data[k] # NotFound PROVE g.number <= f.number
      <4>1. CASE n # 0
        <5>1. g = f BY SMT, <2>4, <2>5, <2>6, <3>1, <3>2, <4>1, OnlyHolder
        <5> QED BY SMT, <2>7, <5>1
      <4>2. CASE n = 0
        <5>1. PICK t \in A : t.level = n /\ t.number = g.number /\ t.data = g.data BY SMT, SourceOf
        <5>2. CASE t = s BY SMT, <2>7, <3>1, <5>1, <5>2
        <5>3. CASE t # s
          <6>1. Precedes(s, t) BY <2>2, <3>2, <5>1, <5>3
          <6>2. ~(s.level < t.level) BY SMT, <3>1, <4>2, <5>1
          <6>3. s.number > t.number BY <3>1, <4>2, <6>1, <6>2 DEF Precedes
          <6> QED BY SMT, <2>7, <3>1, <5>1, <6>3
        <5> QED BY <5>2, <5>3
      <4> QED BY <4>1, <4>2
    <3>3. \A g, e \in d.srcs : g.number = e.number => g = e BY <2>6
    <3>4. f.data[k] # NotFound BY <3>1
    <3>5. NewestEntry(d.srcs, k) = f.data[k] BY <2>4, <3>2, <3>3, <3>4, NewestHit
    <3> QED BY <2>3, <3>1, <3>4, <3>5 DEF MergedEntry
  <2>9. CASE s \in B
    <3>1. PICK f \in d.tgts : s.level = n + 1 /\ s.number = f.number /\ s.data = f.data BY SMT, <2>9, SourceIs
    <3>2. ASSUME NEW g \in d.srcs PROVE g.data[k] = NotFound
      <4> SUFFICES ASSUME g.data[k] # NotFound PROVE FALSE OBVIOUS
      <4>1. PICK t \in A : t.level = n /\ t.number = g.number /\ t.data = g.data BY SMT, SourceOf
      <4>2. t # s BY <2>5, <3>1, <4>1
      <4>3. Precedes(s, t) BY <2>2, <4>1, <4>2
      <4> QED BY <2>5, <3>1, <4>1, <4>3 DEF Precedes
    <3>3. NewestEntry(d.srcs, k) = NotFound BY <3>2, NewestMiss
    <3>4. f.data[k] # NotFound BY <3>1
    <3>5. ASSUME NEW g \in d.tgts, g.data[k] # NotFound PROVE g.number <= f.number
      <4>1. g = f BY SMT, <2>4, <2>6, <3>4, <3>5, OnlyHolder
      <4> QED BY SMT, <2>7, <4>1
    <3>6. \A g, e \in d.tgts : g.number = e.number => g = e BY <2>6
    <3>7. NewestEntry(d.tgts, k) = f.data[k] BY <2>4, <3>4, <3>5, <3>6, NewestHit
    <3> QED BY <2>3, <3>1, <3>3, <3>7 DEF MergedEntry
  <2> QED BY <2>2, <2>8, <2>9
<1>2. CASE c.kind # "compaction"
  <2> DEFINE v == c.version
             m == c.mem
  <2>1. m \in Table /\ v \in [Level -> SUBSET File] /\ VersionOK(v) BY <1>2, CallsAssumption
  <2>2. SourcesOf(c) = TablesOf(m, v) BY <1>2 DEF SourcesOf
  <2>3. Top(c, k) = IF m[k] # NotFound THEN m[k] ELSE GetFromVersion(v, k) BY <1>2 DEF Top
  <2> HIDE DEF m, v
  <2>4. Mem(m).level = -1 /\ Mem(m).data = m BY DEF Mem
  <2>5. CASE s = Mem(m) BY <2>3, <2>4, <2>5
  <2>6. ASSUME NEW l \in Level, s \in Source(l, v[l]) PROVE Top(c, k) = s.data[k]
    <3>1. PICK f \in v[l] : s.level = l /\ s.number = f.number /\ s.data = f.data BY SMT, <2>6, SourceIs
    <3>2. \A i \in Level : i \in Int /\ i # -1 /\ ~(i < -1) BY SMT, OptionsAssumption DEF Level
    <3>3. m[k] = NotFound
      <4> SUFFICES ASSUME m[k] # NotFound PROVE FALSE OBVIOUS
      <4>1. Mem(m) # s BY <2>4, <3>1, <3>2
      <4>2. Precedes(s, Mem(m)) BY <2>2, <2>4, <4>1 DEF TablesOf
      <4> QED BY <2>4, <3>1, <3>2, <4>2 DEF Precedes
    <3>4. ASSUME NEW i \in Level, NEW g \in v[i], g.data[k] # NotFound
          PROVE  ~(i < l) /\ (i = l /\ l = 0 => g.number <= f.number)
      <4>1. PICK t \in Source(i, v[i]) : t.level = i /\ t.number = g.number /\ t.data = g.data
        BY SMT, SourceOf
      <4>2. t \in SourcesOf(c) BY <2>2, <4>1 DEF TablesOf
      <4>3. \A h \in v[i] : h.number \in Nat BY SMT, <2>1 DEF File, Number
      <4>4. CASE t = s BY SMT, <3>1, <3>2, <4>1, <4>3, <4>4
      <4>5. CASE t # s
        <5>1. Precedes(s, t) BY <3>4, <4>1, <4>2, <4>5
        <5>2. l < i \/ (l = i /\ (l = 0 => s.number > t.number)) BY <3>1, <4>1, <5>1 DEF Precedes
        <5>3. ~(i < l) BY SMT, <3>2, <5>2
        <5>4. ASSUME i = l, l = 0 PROVE g.number <= f.number
          <6>1. ~(l < i) BY SMT, <5>4
          <6>2. s.number > t.number BY <5>2, <5>4, <6>1
          <6>3. g.number \in Nat /\ f.number \in Nat BY <4>3, <5>4
          <6> QED BY SMT, <3>1, <4>1, <6>2, <6>3
        <5> QED BY <5>3, <5>4
      <4> QED BY <4>4, <4>5
    <3>5. f.data[k] # NotFound BY <3>1
    <3>6. l = 0 => \A g \in v[0] : g.data[k] # NotFound => g.number <= f.number BY <3>4
    <3>7. LevelEntry(v, l, k) = f.data[k] BY <2>1, <3>5, <3>6, LevelHit
    <3>8. \A i \in Level : i < l => LevelEntry(v, i, k) = NotFound BY <3>4, LevelMiss
    <3>9. GetFromVersion(v, k) = LevelEntry(v, l, k) BY <3>5, <3>7, <3>8, GetHit
    <3> QED BY <2>3, <3>1, <3>3, <3>7, <3>9
  <2>7. s = Mem(m) \/ \E l \in Level : s \in Source(l, v[l]) BY <2>2 DEF TablesOf
  <2> QED BY <2>5, <2>6, <2>7
<1> QED BY <1>1, <1>2

\* A key that no source holds has no entry.
LEMMA TopMiss ==
  ASSUME NEW c \in Calls, NEW k \in Keys, \A s \in SourcesOf(c) : s.data[k] = NotFound
  PROVE  Top(c, k) = NotFound
<1>1. CASE c.kind = "compaction"
  <2> DEFINE d == c.compaction
  <2>1. \A s \in Source(d.source, d.srcs) \cup Source(d.source + 1, d.tgts) : s.data[k] = NotFound
    BY <1>1 DEF SourcesOf, InputsOf
  <2> HIDE DEF d
  <2>2. \A f \in d.srcs : f.data[k] = NotFound BY SMT, <2>1, SourceOf
  <2>3. \A f \in d.tgts : f.data[k] = NotFound BY SMT, <2>1, SourceOf
  <2> QED BY <1>1, <2>2, <2>3, NewestMiss DEF Top, MergedEntry, d
<1>2. CASE c.kind # "compaction"
  <2> DEFINE v == c.version
             m == c.mem
  <2>1. \A s \in TablesOf(m, v) : s.data[k] = NotFound BY <1>2 DEF SourcesOf
  <2>2. Mem(m).data = m /\ Mem(m) \in TablesOf(m, v) BY DEF Mem, TablesOf
  <2> HIDE DEF m, v
  <2>3. ASSUME NEW l \in Level, NEW f \in v[l] PROVE f.data[k] = NotFound
    <3>1. PICK s \in Source(l, v[l]) : s.data = f.data BY SMT, SourceOf
    <3>2. s \in TablesOf(m, v) BY <3>1 DEF TablesOf
    <3> QED BY <2>1, <3>1, <3>2
  <2>4. GetFromVersion(v, k) = NotFound BY <2>3, LevelMiss, GetMiss
  <2> QED BY <1>2, <2>1, <2>2, <2>4 DEF Top, m, v
<1> QED BY <1>1, <1>2
-------------------------------------------------------------------------------
(* A round of a merge *)

\* The iterators of the sources S, each with its keys in R still to come.
Ahead(S, R, l) == \A s \in S : l[s] = KeysOf(s.data) \cap R
Behind(R, n) == {j \in R : n < j}

\* The sources with a key left, and the smallest key of them all.
Valid(c, l) == {s \in SourcesOf(c) : l[s] # {}}
Least(c, l) == Smallest(l, Valid(c, l))
Moved(c, l, l2) == \A s \in SourcesOf(c) : l2[s] = l[s] \ {Least(c, l)}

\* With every iterator valid or exhausted, a round takes the smallest key that
\* is left in any source, with the entry that counts, and every iterator that
\* is on it moves past it.
LEMMA Round ==
  ASSUME NEW c \in Calls, NEW R \in SUBSET Keys, NEW l, Ahead(SourcesOf(c), R, l),
         Valid(c, l) # {}, NEW l2, Moved(c, l, l2)
  PROVE  /\ Least(c, l) \in R
         /\ Winner(l, Valid(c, l)) = Top(c, Least(c, l))
         /\ Top(c, Least(c, l)) # NotFound /\ Top(c, Least(c, l)) \in Entry
         /\ \A j \in R : Top(c, j) # NotFound => Least(c, l) <= j
         /\ Ahead(SourcesOf(c), Behind(R, Least(c, l)), l2)
<1> DEFINE valid == Valid(c, l)
           n == Least(c, l)
           S == SourcesOf(c)
           U == UNION {l[s] : s \in valid}
<1>1. SourcesOK(S) BY CallSourcesOK
<1> HIDE DEF S
<1>2. \A s \in S : l[s] = KeysOf(s.data) \cap R BY DEF Ahead, S
<1>3. \A s : s \in valid <=> s \in S /\ l[s] # {} BY DEF S, Valid
<1> HIDE DEF valid
<1>4. ASSUME NEW j \in U PROVE j \in R
  <2>1. PICK s \in valid : j \in l[s] OBVIOUS
  <2> QED BY <1>2, <1>3, <2>1
<1>5. U # {}
  <2>1. PICK h \in valid : TRUE BY DEF valid
  <2>2. PICK j \in l[h] : TRUE BY <1>3, <2>1
  <2>3. \A i \in l[h] : i \in U BY <2>1
  <2> QED BY <2>2, <2>3
<1>6. U \in SUBSET Nat BY <1>4, KeysAssumption
<1>7. \A s \in S : \A j \in l[s] : j \in U BY <1>3
<1>8. n = Min(U) /\ n = Smallest(l, valid) BY DEF Smallest, Least, valid
<1> HIDE DEF n
<1>9. n \in U /\ \A j \in U : n <= j
  <2>1. \E m \in U : \A j \in U : m <= j BY <1>5, <1>6, LeastNat
  <2> HIDE DEF U
  <2> QED BY <1>8, <2>1 DEF Min
<1>10. n \in R /\ n \in Keys BY <1>4, <1>9
<1>11. PICK h \in valid : n \in l[h] BY <1>9
<1> HIDE DEF U
<1>12. \A s \in S, j \in R : s.data[j] # NotFound => j \in l[s] BY <1>2 DEF KeysOf
<1>13. Winner(l, valid) = Top(c, n) /\ Top(c, n) # NotFound /\ Top(c, n) \in Entry
  <2> DEFINE H == Holders(l, valid)
             w == First(H)
  <2>1. \A s : s \in H <=> s \in S /\ n \in l[s] BY <1>3, <1>8 DEF Holders
  <2>2. H \in SUBSET S /\ H # {} BY <1>3, <1>11, <2>1
  <2>3. \A s \in H : s.data[n] # NotFound BY <1>2, <2>1 DEF KeysOf
  <2>4. Winner(l, valid) = w.data[n] BY <1>8 DEF Winner
  <2> HIDE DEF H
  <2>5. w \in H /\ \A t \in H \ {w} : Precedes(w, t) BY <1>1, <1>10, <2>2, <2>3, FirstHolder
  <2>6. w \in S /\ w.data[n] # NotFound BY <2>2, <2>3, <2>5
  <2>7. \A t \in S \ {w} : t.data[n] # NotFound => Precedes(w, t) BY <1>10, <1>12, <2>1, <2>5
  <2> HIDE DEF w
  <2>8. Top(c, n) = w.data[n] BY <1>10, <2>6, <2>7, TopHit DEF S
  <2>9. w.data[n] \in Entry
    <3>1. w.data \in Table BY <1>1, <2>6 DEF SourcesOK
    <3> QED BY <1>10, <3>1 DEF Table
  <2> QED BY <2>4, <2>6, <2>8, <2>9
<1>14. ASSUME NEW j \in R, Top(c, j) # NotFound PROVE n <= j
  <2>1. PICK s \in S : s.data[j] # NotFound BY <1>14, TopMiss DEF S
  <2> QED BY <1>7, <1>9, <1>12, <2>1
<1>15. ASSUME NEW s \in S PROVE l2[s] = KeysOf(s.data) \cap Behind(R, n)
  <2>1. ASSUME NEW j \in l[s], j # n PROVE n < j
    <3>1. n <= j /\ j \in Nat /\ n \in Nat BY <1>6, <1>7, <1>9
    <3> QED BY SMT, <2>1, <3>1
  <2>2. ASSUME NEW j \in Behind(R, n) PROVE j # n
    <3>1. n < j /\ j \in Nat /\ n \in Nat BY <1>6, <1>9, KeysAssumption DEF Behind
    <3> QED BY SMT, <3>1
  <2>3. l2[s] = l[s] \ {n} BY DEF Moved, S, n
  <2>4. l[s] \ {n} = KeysOf(s.data) \cap Behind(R, n) BY <1>2, <2>1, <2>2 DEF Behind
  <2> QED BY <2>3, <2>4
<1>16. Ahead(S, Behind(R, n), l2) BY <1>15 DEF Ahead
<1> QED BY <1>10, <1>13, <1>14, <1>16 DEF S, n, valid

\* When no iterator is valid there is nothing left to deliver.
LEMMA Exhausted ==
  ASSUME NEW c \in Calls, NEW R \in SUBSET Keys, NEW l, Ahead(SourcesOf(c), R, l),
         \A s \in SourcesOf(c) : l[s] = {}, NEW j \in R
  PROVE  Top(c, j) = NotFound
<1>1. \A s \in SourcesOf(c) : s.data[j] = NotFound BY DEF Ahead, KeysOf
<1> QED BY <1>1, TopMiss

-------------------------------------------------------------------------------
(* The tables a lookup asks *)

\* A table that holds the key is among them.
LEMMA HolderAsked ==
  ASSUME SourcesOK(sources), NEW s \in sources, NEW k \in Keys, s.data[k] # NotFound
  PROVE  s \in Candidates(k)
<1>1. k \in KeysOf(s.data) /\ k <= k BY SMT, KeysAssumption DEF KeysOf
<1>2. Covers(s, k) /\ StartsBy(s, k) BY <1>1 DEF Covers, StartsBy
<1>3. ASSUME s.level > 0, NEW t \in Starting(s.level, k) PROVE StartsFirst(t, s)
  <2>1. t \in sources /\ t.level = s.level BY DEF Starting
  <2>2. PICK a \in KeysOf(t.data) : a <= k BY DEF Starting, StartsBy
  <2>3. CASE t = s
    <3>1. \A b \in KeysOf(s.data) : b <= b BY SMT, KeysAssumption DEF KeysOf
    <3> QED BY <2>3, <3>1 DEF StartsFirst, StartsBy
  <2>4. CASE t # s
    <3>1. ~Overlaps(KeysOf(t.data), KeysOf(s.data))
      <4>1. s.level # 0 BY SMT, <1>3
      <4> QED BY <2>1, <2>4, <4>1 DEF SourcesOK
    <3>2. KeysOf(t.data) \in SUBSET Keys /\ KeysOf(s.data) \in SUBSET Keys BY DEF KeysOf
    <3>3. ~(k < a) BY SMT, <2>2, <3>2, KeysAssumption
    <3>4. \A x \in KeysOf(t.data), b \in KeysOf(s.data) : x < b BY <1>1, <2>2, <3>1, <3>2, <3>3, Apart
    <3>5. ASSUME NEW b \in KeysOf(s.data) PROVE a <= b
      <4>1. a < b /\ a \in Nat /\ b \in Nat BY <2>2, <3>2, <3>4, KeysAssumption
      <4> QED BY SMT, <4>1
    <3> QED BY <2>2, <3>5 DEF StartsFirst, StartsBy
  <2> QED BY <2>3, <2>4
<1>4. s.level = -1 \/ s.level = 0 \/ s.level > 0
  <2>1. s.level \in Int /\ s.level >= -1 BY DEF SourcesOK
  <2> QED BY SMT, <2>1
<1>5. s \in Starting(s.level, k) BY <1>2 DEF Starting
<1> QED BY <1>2, <1>3, <1>4, <1>5 DEF Candidates

\* They are one per level, level 0 aside.
LEMMA OneAsked ==
  ASSUME SourcesOK(sources), NEW k \in Keys, NEW s \in Candidates(k), NEW t \in Candidates(k),
         s.level = t.level, s.level # 0
  PROVE  s = t
<1> SUFFICES ASSUME s # t PROVE FALSE OBVIOUS
<1>1. s \in sources /\ t \in sources BY DEF Candidates
<1>2. s.level > 0 /\ KeysOf(s.data) # {} /\ ~Overlaps(KeysOf(s.data), KeysOf(t.data))
  BY <1>1 DEF SourcesOK
<1>3. KeysOf(s.data) \in SUBSET Keys /\ KeysOf(t.data) \in SUBSET Keys BY DEF KeysOf
<1>4. s.level # -1 BY SMT, <1>2
<1>5. StartsFirst(t, s) /\ StartsFirst(s, t) BY <1>4 DEF Candidates
<1>6. PICK b \in KeysOf(s.data) : TRUE BY <1>2
<1>7. PICK a \in KeysOf(t.data) : a <= b BY <1>5, <1>6 DEF StartsFirst, StartsBy
<1>8. PICK d \in KeysOf(s.data) : d <= a BY <1>5, <1>7 DEF StartsFirst, StartsBy
<1>9. b >= a BY <1>3, <1>7, KeysAssumption
<1> QED BY <1>2, <1>7, <1>8, <1>9 DEF Overlaps

\* The newest entry is the one that counts.
LEMMA NewestIsTop ==
  ASSUME call \in Calls, call.kind = "get", NEW k \in Keys
  PROVE  Newest(k) = IF Top(call, k) = NotFound THEN <<>> ELSE <<<<k, Top(call, k)>>>>
<1> DEFINE v == call.version
           held == {l \in Level : NewestEntry(v[l], k) # NotFound}
           hits == {l \in Level : LevelEntry(v, l, k) # NotFound}
           x == IF call.mem[k] # NotFound THEN call.mem[k]
                ELSE IF held = {} THEN NotFound ELSE NewestEntry(v[Min(held)], k)
<1>1. v \in [Level -> SUBSET File] /\ VersionOK(v) BY CallsAssumption
<1>2. Newest(k) = IF x = NotFound THEN <<>> ELSE <<<<k, x>>>> BY DEF Newest
<1>3. Top(call, k) = IF call.mem[k] # NotFound THEN call.mem[k] ELSE GetFromVersion(v, k)
  <2>1. call.kind # "compaction" OBVIOUS
  <2> QED BY <2>1 DEF Top
<1>4. GetFromVersion(v, k) = IF held = {} THEN NotFound ELSE NewestEntry(v[Min(held)], k)
  <2> HIDE DEF v
  <2>1. \A l \in Level : NewestEntry(v[l], k) = LevelEntry(v, l, k) BY <1>1, NewestIsLevel
  <2>2. CASE held = {}
    <3>1. \A l \in Level : LevelEntry(v, l, k) = NotFound BY <2>1, <2>2
    <3> QED BY <2>2, <3>1, GetMiss
  <2>3. CASE held # {}
    <3>1. held \in SUBSET Nat BY SMT, OptionsAssumption DEF Level
    <3>2. \E m \in held : \A l \in held : m <= l BY <2>3, <3>1, LeastNat
    <3> DEFINE m == Min(held)
    <3>3. m \in held /\ \A l \in held : m <= l
      <4> HIDE DEF held
      <4> QED BY <3>2 DEF Min
    <3> HIDE DEF m
    <3>4. m \in Level /\ LevelEntry(v, m, k) # NotFound BY <2>1, <3>3
    <3>5. ASSUME NEW l \in Level, l < m PROVE LevelEntry(v, l, k) = NotFound
      <4>1. ~(m <= l) BY SMT, <3>4, <3>5, OptionsAssumption DEF Level
      <4> QED BY <2>1, <3>3, <4>1
    <3>6. GetFromVersion(v, k) = LevelEntry(v, m, k) BY <3>4, <3>5, GetHit
    <3> QED BY <2>1, <2>3, <3>4, <3>6 DEF m
  <2> QED BY <2>2, <2>3
<1>5. Top(call, k) = x BY <1>3, <1>4
<1> HIDE DEF x
<1> QED BY <1>2, <1>5
-------------------------------------------------------------------------------
(* The invariant *)

\* The records a compaction or a scan is to deliver.
Wanted(c, k) ==
  IF c.kind = "compaction" THEN Top(c, k) # NotFound
  ELSE k >= c.start /\ (c.end = 0 \/ k < c.end) /\ Top(c, k) \notin {NotFound, Deleted}

\* With the keys R still ahead of the iterators l, the records o are those
\* wanted among the keys passed.
Progress(c, R, l, o) ==
  /\ R \in SUBSET Keys /\ o \in Seq(Keys \X Entry)
  /\ Ahead(SourcesOf(c), R, l)
  /\ c.kind = "scan" => \A k \in R : k >= c.start
  /\ \A i \in DOMAIN o :
       /\ o[i][1] \in Keys /\ Wanted(c, o[i][1]) /\ o[i][2] = Top(c, o[i][1])
       /\ \A k \in R : o[i][1] < k
  /\ \A i, j \in DOMAIN o : i < j => o[i][1] < o[j][1]
  /\ \A k \in Keys \ R : Wanted(c, k) => \E i \in DOMAIN o : o[i][1] = k

Complete(c, o) == \A k \in Keys : Wanted(c, k) => \E i \in DOMAIN o : o[i][1] = k

CompactionInv ==
  /\ pc \in {"new", "valid", "ok", "error"}
  /\ pc # "new" => \E R \in SUBSET Keys : Progress(call, R, left, out)
  /\ pc = "ok" => Complete(call, out)

ScanInv ==
  /\ pc \in {"new", "merging", "merged", "ok", "error"}
  /\ pc # "new" /\ failed = {} => \E R \in SUBSET Keys : Progress(call, R, left, out)
  /\ pc = "merged" /\ failed = {} => Complete(call, out)
  /\ pc = "ok" => failed = {} /\ Complete(call, out)

\* A lookup still has every table to ask that holds its key, unless one could
\* not be read.
GetInv ==
  /\ pc \in {"new", "getting", "ok"}
  /\ pc = "getting" =>
       /\ out = <<>>
       /\ \A s \in sources : left[s] # {} => s \in Candidates(call.key)
       /\ failed = {} => \A s \in sources : s.data[call.key] # NotFound => left[s] # {}
  /\ pc = "ok" /\ failed = {} => out = Newest(call.key)

ReadsInv ==
  /\ call \in Calls /\ sources = SourcesOf(call)
  /\ left \in [sources -> SUBSET Keys]
  /\ pc = "new" => out = <<>> /\ failed = {}
  /\ call.kind = "compaction" => CompactionInv
  /\ call.kind = "scan" => ScanInv
  /\ call.kind = "get" => GetInv

\* A sequence with one more element.
LEMMA AppendIs ==
  ASSUME NEW T, NEW o \in Seq(T), NEW e \in T
  PROVE  /\ Append(o, e) \in Seq(T)
         /\ DOMAIN Append(o, e) = DOMAIN o \cup {Len(o) + 1}
         /\ \A i \in DOMAIN o : Append(o, e)[i] = o[i] /\ i < Len(o) + 1 /\ ~(Len(o) + 1 < i)
         /\ Append(o, e)[Len(o) + 1] = e
         /\ ~(Len(o) + 1 < Len(o) + 1)
BY SMT

\* What a round leaves behind it: the keys passed that are wanted are those
\* passed before and the one it took.
LEMMA Passed ==
  ASSUME NEW c \in Calls, NEW R \in SUBSET Keys, NEW n \in R,
         \A j \in R : Top(c, j) # NotFound => n <= j,
         NEW k \in Keys \ Behind(R, n), Wanted(c, k)
  PROVE  k = n \/ k \in Keys \ R
<1> SUFFICES ASSUME k \in R PROVE k = n OBVIOUS
<1>1. Top(c, k) # NotFound BY DEF Wanted
<1>2. n <= k /\ ~(n < k) BY <1>1 DEF Behind
<1>3. n \in Nat /\ k \in Nat BY KeysAssumption
<1> QED BY SMT, <1>2, <1>3

\* A round whose record is wanted delivers it.
LEMMA Deliver ==
  ASSUME NEW c \in Calls, NEW R \in SUBSET Keys, NEW l, NEW o, Progress(c, R, l, o),
         Valid(c, l) # {}, Wanted(c, Least(c, l)), NEW l2, Moved(c, l, l2)
  PROVE  Progress(c, Behind(R, Least(c, l)), l2, Append(o, <<Least(c, l), Winner(l, Valid(c, l))>>))
<1> DEFINE n == Least(c, l)
           w == Winner(l, Valid(c, l))
           e == <<n, w>>
           r == Append(o, e)
           Q == Behind(R, n)
           z == Len(o) + 1
<1>0. Ahead(SourcesOf(c), R, l) /\ o \in Seq(Keys \X Entry) BY DEF Progress
<1>1. /\ n \in R /\ w = Top(c, n) /\ Top(c, n) # NotFound /\ Top(c, n) \in Entry
      /\ \A j \in R : Top(c, j) # NotFound => n <= j
      /\ Ahead(SourcesOf(c), Q, l2)
  BY <1>0, Round
<1>2. n \in Keys /\ Wanted(c, n) BY <1>1
<1> HIDE DEF n, w
<1>3. e \in Keys \X Entry /\ e[1] = n /\ e[2] = w BY <1>1, <1>2
<1> HIDE DEF e
<1>4. /\ r \in Seq(Keys \X Entry) /\ DOMAIN r = DOMAIN o \cup {z}
      /\ \A i \in DOMAIN o : r[i] = o[i] /\ i < z /\ ~(z < i)
      /\ r[z] = e /\ ~(z < z)
  BY SMT, <1>0, <1>3, AppendIs
<1> HIDE DEF r, z
<1>5. Q \in SUBSET Keys /\ Q \in SUBSET R /\ \A j \in Q : n < j BY DEF Behind
<1>7. \A i \in DOMAIN o :
        /\ o[i][1] \in Keys /\ Wanted(c, o[i][1]) /\ o[i][2] = Top(c, o[i][1])
        /\ \A k \in R : o[i][1] < k
  BY DEF Progress
<1>8. ASSUME NEW i \in DOMAIN r
      PROVE  /\ r[i][1] \in Keys /\ Wanted(c, r[i][1]) /\ r[i][2] = Top(c, r[i][1])
             /\ \A k \in Q : r[i][1] < k
  <2>1. CASE i \in DOMAIN o BY <1>4, <1>5, <1>7, <2>1
  <2>2. CASE i = z BY <1>1, <1>2, <1>3, <1>4, <1>5, <2>2
  <2> QED BY <1>4, <2>1, <2>2
<1>9. ASSUME NEW i \in DOMAIN r, NEW j \in DOMAIN r, i < j PROVE r[i][1] < r[j][1]
  <2>1. i \in DOMAIN o BY <1>4, <1>9
  <2>2. CASE j \in DOMAIN o BY <1>4, <1>9, <2>1, <2>2 DEF Progress
  <2>3. CASE j = z BY <1>1, <1>3, <1>4, <1>7, <2>1, <2>3
  <2> QED BY <1>4, <2>2, <2>3
<1>10. ASSUME NEW k \in Keys \ Q, Wanted(c, k) PROVE \E i \in DOMAIN r : r[i][1] = k
  <2>1. CASE k = n BY <1>3, <1>4, <2>1
  <2>2. CASE k \in Keys \ R
    <3>1. PICK i \in DOMAIN o : o[i][1] = k BY <1>10, <2>2 DEF Progress
    <3> QED BY <1>4, <3>1
  <2> QED BY <1>1, <1>10, <2>1, <2>2, Passed
<1>11. c.kind = "scan" => \A k \in Q : k >= c.start BY <1>5 DEF Progress
<1>12. Progress(c, Q, l2, r)
  <2> HIDE DEF Q
  <2> QED BY <1>1, <1>4, <1>5, <1>8, <1>9, <1>10, <1>11 DEF Progress
<1> QED BY <1>12 DEF r, e, w, n

\* A round whose record is not wanted leaves it out.
LEMMA PassOver ==
  ASSUME NEW c \in Calls, NEW R \in SUBSET Keys, NEW l, NEW o, Progress(c, R, l, o),
         Valid(c, l) # {}, ~Wanted(c, Least(c, l)),
         NEW l2, Moved(c, l, l2)
  PROVE  Progress(c, Behind(R, Least(c, l)), l2, o)
<1> DEFINE n == Least(c, l)
           Q == Behind(R, n)
<1>0. Ahead(SourcesOf(c), R, l) BY DEF Progress
<1>1. /\ n \in R
      /\ \A j \in R : Top(c, j) # NotFound => n <= j
      /\ Ahead(SourcesOf(c), Q, l2)
  BY <1>0, Round
<1>2. Q \in SUBSET Keys /\ Q \in SUBSET R BY DEF Behind
<1>4. ASSUME NEW k \in Keys \ Q, Wanted(c, k) PROVE \E i \in DOMAIN o : o[i][1] = k
  <2>1. k \in Keys \ R BY <1>1, <1>4, Passed
  <2> QED BY <1>4, <2>1 DEF Progress
<1>5. c.kind = "scan" => \A k \in Q : k >= c.start BY <1>2 DEF Progress
<1>6. \A i \in DOMAIN o :
        /\ o[i][1] \in Keys /\ Wanted(c, o[i][1]) /\ o[i][2] = Top(c, o[i][1])
        /\ \A k \in Q : o[i][1] < k
  BY <1>2 DEF Progress
<1>7. \A i, j \in DOMAIN o : i < j => o[i][1] < o[j][1] BY DEF Progress
<1>8. o \in Seq(Keys \X Entry) BY DEF Progress
<1> HIDE DEF Q
<1> QED BY <1>1, <1>2, <1>8, <1>4, <1>5, <1>6, <1>7 DEF Progress, Q

\* When nothing wanted is ahead, everything has been delivered.
LEMMA AllPassed ==
  ASSUME NEW c, NEW R, NEW l, NEW o, Progress(c, R, l, o), \A k \in R : ~Wanted(c, k)
  PROVE  Complete(c, o)
BY DEF Progress, Complete

\* That is so when the iterators are exhausted.
LEMMA AtEnd ==
  ASSUME NEW c \in Calls, NEW R, NEW l, NEW o, Progress(c, R, l, o),
         \A s \in SourcesOf(c) : l[s] = {}
  PROVE  Complete(c, o)
<1>1. R \in SUBSET Keys /\ Ahead(SourcesOf(c), R, l) BY DEF Progress
<1>2. \A k \in R : Top(c, k) = NotFound BY <1>1, Exhausted
<1>3. \A k \in R : ~Wanted(c, k) BY <1>2 DEF Wanted
<1> QED BY <1>3, AllPassed
-------------------------------------------------------------------------------
(* The steps *)

\* What Consume does to the iterators.
LEMMA Consumed ==
  ASSUME sources = SourcesOf(call), NEW l \in [sources -> SUBSET Keys],
         NEW l2, l2 = Consume(l, Valid(call, l))
  PROVE  l2 \in [sources -> SUBSET Keys] /\ Moved(call, l, l2)
<1>1. l2 = [s \in sources |-> l[s] \ {Least(call, l)}] BY DEF Consume, Least
<1>2. \A s \in sources : l2[s] = l[s] \ {Least(call, l)} BY <1>1
<1>3. l2 \in [sources -> SUBSET Keys] BY <1>1
<1> QED BY <1>2, <1>3 DEF Moved

\* MergingIterator::Advance delivers the next wanted record, ends or fails.
LEMMA AdvanceStep ==
  ASSUME call \in Calls, call.kind = "compaction", sources = SourcesOf(call),
         NEW l \in [sources -> SUBSET Keys], NEW f,
         NEW R \in SUBSET Keys, Progress(call, R, l, out), Advance(l, f)
  PROVE  /\ left' \in [sources -> SUBSET Keys]
         /\ pc' \in {"valid", "ok", "error"}
         /\ \E Q \in SUBSET Keys : Progress(call, Q, left', out')
         /\ pc' = "ok" => Complete(call, out')
<1> DEFINE V == {s \in sources : l[s] # {}}
<1>1. V = Valid(call, l) BY DEF Valid
<1>2. CASE f # {} \/ V = {}
  <2>1. pc' = (IF f = {} THEN "ok" ELSE "error") /\ left' = l /\ out' = out BY <1>2 DEF Advance
  <2>2. pc' \in {"ok", "error"} /\ (pc' = "ok" => f = {}) BY <2>1
  <2>3. ASSUME pc' = "ok" PROVE Complete(call, out)
    <3>1. V = {} BY <1>2, <2>2, <2>3
    <3>2. \A s \in SourcesOf(call) : l[s] = {} BY <3>1
    <3> QED BY <3>2, AtEnd
  <2>4. pc' \in {"valid", "ok", "error"} BY <2>2
  <2> QED BY <2>1, <2>3, <2>4
<1>3. CASE f = {} /\ V # {}
  <2> DEFINE n == Least(call, l)
             r == Append(out, <<n, Winner(l, Valid(call, l))>>)
  <2>1. /\ pc' = "valid"
        /\ out' = Append(out, <<Smallest(l, V), Winner(l, V)>>)
        /\ left' = Consume(l, V)
    BY <1>3 DEF Advance
  <2>2. out' = r BY <1>1, <2>1 DEF Least
  <2>3. left' \in [sources -> SUBSET Keys] /\ Moved(call, l, left') BY <1>1, <2>1, Consumed
  <2>4. Valid(call, l) # {} BY <1>1, <1>3
  <2>5. Ahead(SourcesOf(call), R, l) BY DEF Progress
  <2>6. Top(call, n) # NotFound BY <2>3, <2>4, <2>5, Round
  <2>7. Wanted(call, n) BY <2>6 DEF Wanted
  <2>8. Progress(call, Behind(R, n), left', r)
    BY <2>3, <2>4, <2>7, Deliver
  <2>9. Behind(R, n) \in SUBSET Keys BY DEF Behind
  <2>10. pc' # "ok" /\ pc' \in {"valid", "ok", "error"} BY <2>1
  <2> HIDE DEF r, n
  <2> QED BY <2>2, <2>3, <2>8, <2>9, <2>10
<1> QED BY <1>2, <1>3

\* The call and its tables do not change; which of the three kinds of call it
\* is says which part of the invariant there is to show.
LEMMA Kinds ==
  ASSUME call \in Calls
  PROVE  /\ call.kind \in {"compaction", "scan", "get"}
         /\ call.kind = "scan" => call.start \in Nat /\ call.end \in Nat
         /\ call.kind = "get" => call.key \in Keys
BY CallsAssumption

LEMMA SeekToFirstStep ==
  ASSUME ReadsInv, SeekToFirst
  PROVE  ReadsInv'
<1> DEFINE l == [s \in sources |-> KeysOf(s.data)]
<1>1. /\ pc = "new" /\ call.kind = "compaction" /\ call' = call /\ sources' = sources
      /\ \E F : Advance(l, F)
  BY DEF SeekToFirst
<1>2. PICK F : Advance(l, F) BY <1>1
<1>3. call \in Calls /\ sources = SourcesOf(call) /\ out = <<>>
  BY <1>1 DEF ReadsInv
<1>4. l \in [sources -> SUBSET Keys] BY DEF KeysOf
<1>5. Progress(call, Keys, l, out)
  <2>1. \A s \in sources : l[s] = KeysOf(s.data) \cap Keys BY DEF KeysOf
  <2>2. Ahead(SourcesOf(call), Keys, l) BY <1>3, <2>1 DEF Ahead
  <2>3. DOMAIN out = {} /\ out \in Seq(Keys \X Entry) /\ call.kind # "scan" BY SMT, <1>1, <1>3
  <2> HIDE DEF l
  <2> QED BY <2>2, <2>3 DEF Progress
<1> HIDE DEF l
<1>6. /\ left' \in [sources -> SUBSET Keys]
      /\ pc' \in {"valid", "ok", "error"}
      /\ \E Q \in SUBSET Keys : Progress(call, Q, left', out')
      /\ pc' = "ok" => Complete(call, out')
  BY <1>1, <1>2, <1>3, <1>4, <1>5, AdvanceStep
<1>7. pc' # "new" /\ pc' \in {"new", "valid", "ok", "error"} /\ call.kind # "scan" /\ call.kind # "get" BY <1>1, <1>6
<1> QED BY <1>1, <1>3, <1>6, <1>7 DEF ReadsInv, CompactionInv

\* MergingIterator::Next.
LEMMA NextRecordStep ==
  ASSUME ReadsInv, NextRecord
  PROVE  ReadsInv'
<1>1. pc = "valid" /\ Advance(left, failed) /\ call' = call /\ sources' = sources
  BY DEF NextRecord
<1>2. /\ call \in Calls /\ sources = SourcesOf(call)
      /\ left \in [sources -> SUBSET Keys]
  BY DEF ReadsInv
<1>3. call.kind = "compaction"
  <2>1. call.kind \in {"compaction", "scan", "get"} BY <1>2, Kinds
  <2>2. pc \notin {"new", "merging", "merged", "ok", "error"} /\ pc \notin {"new", "getting", "ok"} BY <1>1
  <2>3. call.kind # "scan" /\ call.kind # "get" BY <2>2 DEF ReadsInv, ScanInv, GetInv
  <2> QED BY <2>1, <2>3
<1>4. pc # "new" BY <1>1
<1>5. PICK R \in SUBSET Keys : Progress(call, R, left, out)
  BY <1>3, <1>4 DEF ReadsInv, CompactionInv
<1>6. /\ left' \in [sources -> SUBSET Keys]
      /\ pc' \in {"valid", "ok", "error"}
      /\ \E Q \in SUBSET Keys : Progress(call, Q, left', out')
      /\ pc' = "ok" => Complete(call, out')
  BY <1>1, <1>2, <1>3, <1>5, AdvanceStep
<1>7. pc' # "new" /\ pc' \in {"new", "valid", "ok", "error"} /\ call.kind # "scan" /\ call.kind # "get" BY <1>3, <1>6
<1> QED BY <1>1, <1>2, <1>3, <1>6, <1>7 DEF ReadsInv, CompactionInv

\* Scan puts its iterators on the first key of its range.
LEMMA ScanSeekStep ==
  ASSUME ReadsInv, ScanSeek
  PROVE  ReadsInv'
<1> DEFINE R == {k \in Keys : k >= call.start}
<1>1. /\ pc = "new" /\ call.kind = "scan" /\ call' = call /\ sources' = sources /\ out' = out
      /\ left' = [s \in sources |-> {k \in KeysOf(s.data) : k >= call.start}]
      /\ pc' = IF failed' # {} THEN "error" ELSE "merging"
  BY DEF ScanSeek
<1>2. call \in Calls /\ sources = SourcesOf(call) /\ out = <<>> BY <1>1 DEF ReadsInv
<1>3. left' \in [sources -> SUBSET Keys] BY <1>1 DEF KeysOf
<1>4. Progress(call, R, left', out)
  <2>1. \A s \in sources : left'[s] = KeysOf(s.data) \cap R BY <1>1 DEF KeysOf
  <2>2. Ahead(SourcesOf(call), R, left') BY <1>2, <2>1 DEF Ahead
  <2>3. DOMAIN out = {} /\ out \in Seq(Keys \X Entry) /\ call.kind # "compaction" BY SMT, <1>1, <1>2
  <2>4. \A k \in Keys \ R : ~Wanted(call, k) BY <2>3 DEF Wanted
  <2>5. R \in SUBSET Keys /\ \A k \in R : k >= call.start OBVIOUS
  <2> HIDE DEF R
  <2> QED BY <2>2, <2>3, <2>4, <2>5 DEF Progress
<1>5. R \in SUBSET Keys OBVIOUS
<1> HIDE DEF R
<1>6. /\ pc' \in {"new", "merging", "merged", "ok", "error"}
      /\ pc' # "new" /\ pc' # "merged" /\ pc' # "ok"
      /\ call.kind # "compaction" /\ call.kind # "get"
  BY <1>1
<1> QED BY <1>1, <1>2, <1>3, <1>4, <1>5, <1>6 DEF ReadsInv, ScanInv

\* One round of Scan: the smallest key of all, from the newest table that holds it.
LEMMA ScanMergeStep ==
  ASSUME ReadsInv, ScanMerge
  PROVE  ReadsInv'
<1> DEFINE V == {s \in sources \ failed : left[s] # {}}
           n == Smallest(left, V)
           w == Winner(left, V)
           Stop == V = {} \/ (call.end # 0 /\ n >= call.end)
<1>1. /\ pc = "merging" /\ call' = call /\ sources' = sources
      /\ IF Stop THEN pc' = "merged" /\ left' = left /\ failed' = failed /\ out' = out
         ELSE /\ left' = Consume(left, V)
              /\ failed' \in {failed \cup F : F \in Failures(Holders(left, V))}
              /\ out' = IF w = Deleted THEN out ELSE Append(out, <<n, w>>)
              /\ pc' = pc
  BY DEF ScanMerge
<1>2. call \in Calls /\ sources = SourcesOf(call) /\ left \in [sources -> SUBSET Keys]
  BY DEF ReadsInv
<1>3. call.kind = "scan"
  <2>1. call.kind \in {"compaction", "scan", "get"} BY <1>2, Kinds
  <2>2. pc \notin {"new", "valid", "ok", "error"} /\ pc \notin {"new", "getting", "ok"} BY <1>1
  <2>3. call.kind # "compaction" /\ call.kind # "get" BY <2>2 DEF ReadsInv, CompactionInv, GetInv
  <2> QED BY <2>1, <2>3
<1>4. failed' = {} => failed = {}
  <2>1. CASE Stop BY <1>1, <2>1
  <2>2. CASE ~Stop
    <3>1. PICK F : failed' = failed \cup F BY <1>1, <2>2
    <3> QED BY <3>1
  <2> QED BY <2>1, <2>2
<1>5. left' \in [sources -> SUBSET Keys]
  <2>1. CASE Stop BY <1>1, <1>2, <2>1
  <2>2. CASE ~Stop
    <3>1. left' = [s \in sources |-> left[s] \ {n}] BY <1>1, <2>2 DEF Consume
    <3> HIDE DEF n
    <3> QED BY <1>2, <3>1
  <2> QED BY <2>1, <2>2
<1>6. /\ pc' \in {"new", "merging", "merged", "ok", "error"} /\ pc' # "new" /\ pc' # "ok"
      /\ call.kind # "compaction" /\ call.kind # "get"
  <2>1. pc' = "merged" \/ pc' = "merging" BY <1>1
  <2> QED BY <1>3, <2>1
<1>7. ASSUME failed = {}
      PROVE  /\ \E Q \in SUBSET Keys : Progress(call, Q, left', out')
             /\ pc' = "merged" => Complete(call, out')
  <2>1. V = Valid(call, left) BY <1>2, <1>7 DEF Valid
  <2>2. n = Least(call, left) /\ w = Winner(left, Valid(call, left)) BY <2>1 DEF Least
  <2>3. pc # "new" BY <1>1
  <2>4. PICK R \in SUBSET Keys : Progress(call, R, left, out)
    BY <1>3, <1>7, <2>3 DEF ReadsInv, ScanInv
  <2>5. Ahead(SourcesOf(call), R, left) /\ \A k \in R : k >= call.start BY <1>3, <2>4 DEF Progress
  <2> DEFINE l2 == Consume(left, V)
  <2>6. Moved(call, left, l2) BY <1>2, <2>1, Consumed
  <2>7. ASSUME V # {}
        PROVE  /\ n \in R /\ w = Top(call, n) /\ Top(call, n) # NotFound
               /\ \A j \in R : Top(call, j) # NotFound => n <= j
    <3>1. Valid(call, left) # {} BY <2>1, <2>7
    <3> DEFINE m == Least(call, left)
    <3>2. /\ m \in R /\ Winner(left, Valid(call, left)) = Top(call, m) /\ Top(call, m) # NotFound
          /\ \A j \in R : Top(call, j) # NotFound => m <= j
      BY <1>2, <2>5, <2>6, <3>1, Round
    <3> HIDE DEF n, w
    <3> QED BY <2>2, <3>2
  <2> HIDE DEF n, w, l2
  <2>8. CASE Stop
    <3>1. Complete(call, out)
      <4>1. CASE V = {}
        <5>1. \A s \in SourcesOf(call) : left[s] = {} BY <1>2, <1>7, <4>1
        <5> QED BY <1>2, <2>4, <5>1, AtEnd
      <4>2. CASE V # {}
        <5>1. call.end # 0 /\ n >= call.end BY <2>8, <4>2
        <5>2. n \in Nat /\ call.end \in Nat /\ \A k \in R : k \in Nat
          BY <1>2, <1>3, <2>7, <4>2, Kinds, KeysAssumption
        <5>3. ASSUME NEW k \in R, Wanted(call, k) PROVE FALSE
          <6>1. Top(call, k) # NotFound /\ k < call.end BY <1>6, <5>1, <5>3 DEF Wanted
          <6>2. n <= k BY <2>7, <4>2, <6>1
          <6> QED BY SMT, <5>1, <5>2, <6>1, <6>2
        <5> QED BY <2>4, <5>3, AllPassed
      <4> QED BY <4>1, <4>2
    <3> QED BY <1>1, <2>4, <2>8, <3>1
  <2>9. CASE ~Stop
    <3>1. V # {} /\ Valid(call, left) # {} BY <2>1, <2>9
    <3>2. left' = l2 /\ out' = (IF w = Deleted THEN out ELSE Append(out, <<n, w>>)) /\ pc' = pc
      BY <1>1, <2>9 DEF n, w, l2
    <3>3. pc' # "merged" BY <1>1, <3>2
    <3>4. Behind(R, n) \in SUBSET Keys BY DEF Behind
    <3>5. CASE w = Deleted
      <4>1. ~Wanted(call, n) BY <1>6, <2>7, <3>1, <3>5 DEF Wanted
      <4>2. Progress(call, Behind(R, n), l2, out)
        BY <1>2, <2>2, <2>4, <2>6, <3>1, <4>1, PassOver
      <4> QED BY <3>2, <3>3, <3>4, <3>5, <4>2
    <3>6. CASE w # Deleted
      <4>1. n >= call.start /\ (call.end = 0 \/ n < call.end)
        <5>1. n >= call.start BY <2>5, <2>7, <3>1
        <5>2. call.end = 0 \/ ~(n >= call.end) BY <2>9
        <5>3. n \in Nat /\ call.end \in Nat BY <1>2, <1>3, <2>7, <3>1, Kinds, KeysAssumption
        <5> QED BY SMT, <5>1, <5>2, <5>3
      <4>2. Wanted(call, n) BY <1>6, <2>7, <3>1, <3>6, <4>1 DEF Wanted
      <4>3. Progress(call, Behind(R, n), l2, Append(out, <<n, w>>))
        BY <1>2, <2>2, <2>4, <2>6, <3>1, <4>2, Deliver
      <4> QED BY <3>2, <3>3, <3>4, <3>6, <4>3
    <3> QED BY <3>5, <3>6
  <2> QED BY <2>8, <2>9
<1> QED BY <1>1, <1>2, <1>3, <1>4, <1>5, <1>6, <1>7 DEF ReadsInv, ScanInv

\* Scan asks its iterators for their status.
LEMMA ScanFinishStep ==
  ASSUME ReadsInv, ScanFinish
  PROVE  ReadsInv'
<1>1. /\ pc = "merged" /\ call' = call /\ sources' = sources /\ left' = left
      /\ failed' = failed /\ out' = out /\ pc' = IF failed # {} THEN "error" ELSE "ok"
  BY DEF ScanFinish
<1>2. call \in Calls /\ sources = SourcesOf(call) /\ left \in [sources -> SUBSET Keys]
  BY DEF ReadsInv
<1>3. call.kind = "scan"
  <2>1. call.kind \in {"compaction", "scan", "get"} BY <1>2, Kinds
  <2>2. pc \notin {"new", "valid", "ok", "error"} /\ pc \notin {"new", "getting", "ok"} BY <1>1
  <2>3. call.kind # "compaction" /\ call.kind # "get" BY <2>2 DEF ReadsInv, CompactionInv, GetInv
  <2> QED BY <2>1, <2>3
<1>4. /\ pc' \in {"new", "merging", "merged", "ok", "error"} /\ pc' # "new" /\ pc' # "merged"
      /\ pc # "new" /\ (pc' = "ok" => failed = {})
      /\ call.kind # "compaction" /\ call.kind # "get"
  BY <1>1, <1>3
<1>5. ScanInv BY <1>3 DEF ReadsInv
<1> QED BY <1>1, <1>2, <1>3, <1>4, <1>5 DEF ReadsInv, ScanInv
\* What does not change with the call and its tables.
LEMMA GetFrame ==
  ASSUME call' = call, sources' = sources
  PROVE  (\A k : Candidates(k)' = Candidates(k)) /\ (\A k : Newest(k)' = Newest(k))
<1>1. ASSUME NEW k PROVE Candidates(k)' = Candidates(k) BY DEF Candidates, Starting
<1>2. ASSUME NEW k PROVE Newest(k)' = Newest(k) BY DEF Newest
<1> QED BY <1>1, <1>2

LEMMA GetStartStep ==
  ASSUME ReadsInv, GetStart
  PROVE  ReadsInv'
<1> DEFINE C == Candidates(call.key)
<1>1. /\ pc = "new" /\ call.kind = "get" /\ call' = call /\ sources' = sources
      /\ failed' = failed /\ out' = out /\ pc' = "getting"
      /\ left' = [s \in sources |-> IF s \in C THEN {call.key} ELSE {}]
  BY DEF GetStart
<1>2. call \in Calls /\ sources = SourcesOf(call) /\ out = <<>> BY <1>1 DEF ReadsInv
<1>3. call.key \in Keys BY <1>1, <1>2, Kinds
<1>4. SourcesOK(sources) BY <1>2, CallSourcesOK
<1>5. \A s \in sources : s.data[call.key] # NotFound => s \in C BY <1>3, <1>4, HolderAsked
<1>6. C' = C BY <1>1, GetFrame
<1> HIDE DEF C
<1>7. left' \in [sources -> SUBSET Keys] BY <1>1, <1>3
<1>8. \A s \in sources : left'[s] # {} <=> s \in C BY <1>1
<1>9. /\ pc' \in {"new", "getting", "ok"} /\ pc' # "new" /\ pc' # "ok"
      /\ call.kind # "compaction" /\ call.kind # "scan"
  BY <1>1
<1>10. \A s \in sources : left'[s] # {} => s \in Candidates(call.key)' BY <1>1, <1>6, <1>8 DEF C
<1>11. \A s \in sources : s.data[call.key] # NotFound => left'[s] # {} BY <1>5, <1>8
<1> QED BY <1>1, <1>2, <1>7, <1>9, <1>10, <1>11 DEF ReadsInv, GetInv

\* Get asks the next table.
LEMMA GetAskStep ==
  ASSUME ReadsInv, GetAsk
  PROVE  ReadsInv'
<1> DEFINE k == call.key
           V == {s \in sources : left[s] # {}}
           w == First(V)
<1>1. pc = "getting" /\ call' = call /\ sources' = sources BY DEF GetAsk
<1>2. call \in Calls /\ sources = SourcesOf(call) /\ left \in [sources -> SUBSET Keys]
  BY DEF ReadsInv
<1>3. call.kind = "get"
  <2>1. call.kind \in {"compaction", "scan", "get"} BY <1>2, Kinds
  <2>2. pc \notin {"new", "valid", "ok", "error"} /\ pc \notin {"new", "merging", "merged", "ok", "error"}
    BY <1>1
  <2>3. call.kind # "compaction" /\ call.kind # "scan" BY <2>2 DEF ReadsInv, CompactionInv, ScanInv
  <2> QED BY <2>1, <2>3
<1>4. k \in Keys BY <1>2, <1>3, Kinds
<1>5. SourcesOK(sources) BY <1>2, CallSourcesOK
<1>6. /\ out = <<>> /\ \A s \in V : s \in Candidates(k)
      /\ failed = {} => \A s \in sources : s.data[k] # NotFound => s \in V
  BY <1>1, <1>3 DEF ReadsInv, GetInv
<1>7. Newest(k)' = Newest(k) /\ Candidates(k)' = Candidates(k) BY <1>1, GetFrame
<1>8. Newest(k) = IF Top(call, k) = NotFound THEN <<>> ELSE <<<<k, Top(call, k)>>>>
  BY <1>2, <1>3, <1>4, NewestIsTop
<1>9. call.kind # "compaction" /\ call.kind # "scan" BY <1>3
<1>10. \A s : s \in V <=> s \in sources /\ left[s] # {} OBVIOUS
<1>11. CASE V = {}
  <2>1. pc' = "ok" /\ left' = left /\ failed' = failed /\ out' = out BY <1>11 DEF GetAsk
  <2>2. ASSUME failed = {} PROVE out = Newest(k)
    <3>1. \A s \in SourcesOf(call) : s.data[k] = NotFound BY <1>2, <1>6, <1>11, <2>2
    <3>2. Top(call, k) = NotFound BY <1>2, <1>4, <3>1, TopMiss
    <3> QED BY <1>6, <1>8, <3>2
  <2>3. pc' \in {"new", "getting", "ok"} /\ pc' # "new" /\ pc' # "getting" BY <2>1
  <2>4. pc' = "ok" /\ failed' = {} => out' = Newest(call.key)' BY <1>1, <1>7, <2>1, <2>2
  <2> QED BY <1>1, <1>2, <1>3, <1>9, <2>1, <2>3, <2>4 DEF ReadsInv, GetInv
<1>12. CASE V # {}
  <2>1. PICK F : /\ left' = [left EXCEPT ![w] = {}] /\ failed' = failed \cup F
                 /\ IF F = {} /\ w.data[k] # NotFound
                    THEN pc' = "ok" /\ out' = <<<<k, w.data[k]>>>>
                    ELSE pc' = pc /\ out' = out
    BY <1>12 DEF GetAsk
  <2>2. \A s, t \in V : s.level = t.level /\ s.level # 0 => s = t
    <3>1. ASSUME NEW s \in V, NEW t \in V, s.level = t.level, s.level # 0 PROVE s = t
      <4>1. s \in Candidates(k) /\ t \in Candidates(k) BY <1>6
      <4> HIDE DEF k
      <4> QED BY <1>4, <1>5, <3>1, <4>1, OneAsked
    <3> QED BY <3>1
  <2>3. V \in SUBSET sources OBVIOUS
  <2> HIDE DEF V
  <2>4. w \in V /\ \A t \in V \ {w} : Precedes(w, t) BY <1>5, <1>12, <2>2, <2>3, FirstIs
  <2> HIDE DEF w
  <2>5. w \in sources BY <2>3, <2>4
  <2>6. left' \in [sources -> SUBSET Keys] BY <1>2, <2>1
  <2>7. \A s \in sources : left'[s] = IF s = w THEN {} ELSE left[s] BY <1>2, <2>1, <2>5
  <2>8. CASE F = {} /\ w.data[k] # NotFound
    <3>1. pc' = "ok" /\ out' = <<<<k, w.data[k]>>>> BY <2>1, <2>8
    <3>2. pc' \in {"new", "getting", "ok"} /\ pc' # "new" /\ pc' # "getting" BY <3>1
    <3>3. ASSUME failed' = {} PROVE out' = Newest(k)
      <4>1. failed = {} BY <2>1, <3>3
      <4>2. \A t \in SourcesOf(call) \ {w} : t.data[k] # NotFound => Precedes(w, t)
        BY <1>2, <1>6, <2>4, <4>1
      <4>3. Top(call, k) = w.data[k] BY <1>2, <1>4, <2>5, <2>8, <4>2, TopHit
      <4> QED BY <1>8, <2>8, <3>1, <4>3
    <3>4. pc' = "ok" /\ failed' = {} => out' = Newest(call.key)' BY <1>1, <1>7, <3>3
    <3> QED BY <1>1, <1>2, <1>3, <1>9, <2>6, <3>2, <3>4 DEF ReadsInv, GetInv
  <2>9. CASE ~(F = {} /\ w.data[k] # NotFound)
    <3>1. pc' = "getting" /\ out' = out BY <1>1, <2>1, <2>9
    <3>2. pc' \in {"new", "getting", "ok"} /\ pc' # "new" /\ pc' # "ok" BY <3>1
    <3>3. \A s \in sources : left'[s] # {} => s \in Candidates(call.key)'
      <4>1. \A s \in sources : left'[s] # {} => s \in V BY <1>10, <2>7
      <4> QED BY <1>1, <1>6, <1>7, <4>1
    <3>4. ASSUME failed' = {}, NEW s \in sources, s.data[k] # NotFound PROVE left'[s] # {}
      <4>1. failed = {} /\ F = {} BY <2>1, <3>4
      <4>2. s # w BY <2>9, <3>4, <4>1
      <4>3. left[s] # {} BY <1>6, <1>10, <3>4, <4>1
      <4> QED BY <2>7, <4>2, <4>3
    <3> QED BY <1>1, <1>2, <1>3, <1>6, <1>9, <2>6, <3>1, <3>2, <3>3, <3>4 DEF ReadsInv, GetInv
  <2> QED BY <2>8, <2>9
<1> QED BY <1>11, <1>12

\* Nothing happens.
LEMMA StutterStep ==
  ASSUME ReadsInv, UNCHANGED vars
  PROVE  ReadsInv'
<1>1. /\ call' = call /\ sources' = sources /\ left' = left /\ failed' = failed
      /\ pc' = pc /\ out' = out
  BY DEF vars
<1>2. (\A k : Candidates(k)' = Candidates(k)) /\ (\A k : Newest(k)' = Newest(k)) BY <1>1, GetFrame
<1>3. CompactionInv => CompactionInv' BY <1>1 DEF CompactionInv
<1>4. ScanInv => ScanInv' BY <1>1 DEF ScanInv
<1>5. GetInv => GetInv' BY <1>1, <1>2 DEF GetInv
<1> QED BY <1>1, <1>3, <1>4, <1>5 DEF ReadsInv

\* A call that has not begun.
LEMMA InitReads == Init => ReadsInv
<1> SUFFICES ASSUME Init PROVE ReadsInv OBVIOUS
<1>1. /\ call \in Calls /\ left = [s \in sources |-> {}] /\ failed = {} /\ pc = "new" /\ out = <<>>
      /\ sources = SourcesOf(call)
  BY DEF Init, SourcesOf
<1>2. left \in [sources -> SUBSET Keys] BY <1>1
<1>3. /\ pc \in {"new", "valid", "ok", "error"} /\ pc \in {"new", "merging", "merged", "ok", "error"}
      /\ pc \in {"new", "getting", "ok"} /\ pc \notin {"ok", "merged", "getting"}
  BY <1>1
<1>4. CompactionInv /\ ScanInv /\ GetInv BY <1>1, <1>3 DEF CompactionInv, ScanInv, GetInv
<1> QED BY <1>1, <1>2, <1>4 DEF ReadsInv

-------------------------------------------------------------------------------
(* The theorems *)

\* A merge or a scan has delivered what is wanted of the keys its iterators have
\* passed, and a lookup has still to ask every table that holds its key.
THEOREM ReadsInvariance == Spec => []ReadsInv
<1>1. ReadsInv /\ [Next]_vars => ReadsInv'
  <2> SUFFICES ASSUME ReadsInv, [Next]_vars PROVE ReadsInv' OBVIOUS
  <2>1. CASE SeekToFirst BY <2>1, SeekToFirstStep
  <2>2. CASE NextRecord BY <2>2, NextRecordStep
  <2>3. CASE ScanSeek BY <2>3, ScanSeekStep
  <2>4. CASE ScanMerge BY <2>4, ScanMergeStep
  <2>5. CASE ScanFinish BY <2>5, ScanFinishStep
  <2>6. CASE GetStart BY <2>6, GetStartStep
  <2>7. CASE GetAsk BY <2>7, GetAskStep
  <2>8. CASE UNCHANGED vars BY <2>8, StutterStep
  <2> QED BY <2>1, <2>2, <2>3, <2>4, <2>5, <2>6, <2>7, <2>8 DEF Next
<1> QED BY <1>1, InitReads, PTL DEF Spec

\* MergingIterator delivers a beginning of the merge, in order and with the
\* entries that shadow the others, also when one of its children fails.
THEOREM MergeDelivers == Spec => []DeliversMerged
<1>1. ReadsInv => DeliversMerged
  <2> SUFFICES ASSUME ReadsInv, call.kind = "compaction"
               PROVE  /\ Ascending
                      /\ \A i \in DOMAIN out :
                           /\ InMerge(out[i][1]) /\ out[i][2] = MergedEntry(call.compaction, out[i][1])
                           /\ \A k \in Keys : k < out[i][1] /\ InMerge(k) => Listed(k)
    BY DEF DeliversMerged
  <2>1. \A k : Top(call, k) = MergedEntry(call.compaction, k) BY DEF Top
  <2>2. \A k : Wanted(call, k) <=> InMerge(k) BY <2>1 DEF Wanted, InMerge
  <2>3. CASE pc = "new"
    <3>1. out = <<>> BY <2>3 DEF ReadsInv
    <3>2. DOMAIN out = {} BY SMT, <3>1
    <3> QED BY <3>2 DEF Ascending
  <2>4. CASE pc # "new"
    <3>1. PICK R \in SUBSET Keys : Progress(call, R, left, out)
      BY <2>4 DEF ReadsInv, CompactionInv
    <3>2. Ascending BY <3>1 DEF Progress, Ascending
    <3>3. ASSUME NEW i \in DOMAIN out
          PROVE  InMerge(out[i][1]) /\ out[i][2] = MergedEntry(call.compaction, out[i][1])
      BY <2>1, <2>2, <3>1 DEF Progress
    <3>4. ASSUME NEW i \in DOMAIN out, NEW k \in Keys, k < out[i][1], InMerge(k) PROVE Listed(k)
      <4>1. out[i][1] \in Nat /\ k \in Nat BY <3>1, KeysAssumption DEF Progress
      <4>2. ~(out[i][1] < k) BY SMT, <3>4, <4>1
      <4>3. k \notin R BY <3>1, <4>2 DEF Progress
      <4> QED BY <2>2, <3>1, <3>4, <4>3 DEF Progress, Listed
    <3> QED BY <3>2, <3>3, <3>4
  <2> QED BY <2>3, <2>4
<1> QED BY <1>1, ReadsInvariance, PTL

\* A merge that ends without an error has delivered every key of its inputs: a
\* compaction that goes on to delete them loses none.
THEOREM MergeComplete == Spec => []CompleteUnlessFailed
<1>1. ReadsInv => CompleteUnlessFailed
  <2> SUFFICES ASSUME ReadsInv, call.kind = "compaction", pc = "ok", NEW k \in Keys, InMerge(k)
               PROVE  Listed(k)
    BY DEF CompleteUnlessFailed
  <2>1. Wanted(call, k) BY DEF Wanted, InMerge, Top
  <2> QED BY <2>1 DEF ReadsInv, CompactionInv, Complete, Listed
<1> QED BY <1>1, ReadsInvariance, PTL

\* What a scan is to deliver is what Get answers, in the range of the scan.
LEMMA WantedIsGet ==
  ASSUME call.kind = "scan", NEW k
  PROVE  /\ Wanted(call, k) <=> InRange(k) /\ GetEntry(k) # NotFound
         /\ Wanted(call, k) => GetEntry(k) = Top(call, k)
<1>1. call.kind # "compaction" OBVIOUS
<1>2. GetEntry(k) = Live(Top(call, k)) BY <1>1 DEF GetEntry, Top
<1>3. Top(call, k) \notin {NotFound, Deleted} <=> Live(Top(call, k)) # NotFound BY DEF Live
<1>4. Top(call, k) \notin {NotFound, Deleted} => Live(Top(call, k)) = Top(call, k) BY DEF Live
<1> QED BY <1>1, <1>2, <1>3, <1>4 DEF Wanted, InRange

\* What Scan has collected is in order and what Get returns.
LEMMA ScanProgress ==
  ASSUME call.kind = "scan", NEW R, Progress(call, R, left, out)
  PROVE  /\ Ascending
         /\ \A i \in DOMAIN out :
              InRange(out[i][1]) /\ out[i][2] = GetEntry(out[i][1]) /\ out[i][2] # NotFound
<1>1. Ascending BY DEF Progress, Ascending
<1>2. ASSUME NEW i \in DOMAIN out
      PROVE  InRange(out[i][1]) /\ out[i][2] = GetEntry(out[i][1]) /\ out[i][2] # NotFound
  <2>1. Wanted(call, out[i][1]) /\ out[i][2] = Top(call, out[i][1]) BY DEF Progress
  <2> QED BY <2>1, WantedIsGet
<1> QED BY <1>1, <1>2

\* As long as all its iterators can be read, a scan has collected only what Get
\* returns, in order.
THEOREM ScanCollects == Spec => []NothingToTakeBack
<1>1. ReadsInv => NothingToTakeBack
  <2> SUFFICES ASSUME ReadsInv, call.kind = "scan", failed = {} PROVE NothingToTakeBack
    BY DEF NothingToTakeBack
  <2>1. CASE pc = "new"
    <3>1. out = <<>> BY <2>1 DEF ReadsInv
    <3>2. DOMAIN out = {} BY SMT, <3>1
    <3> QED BY <3>2 DEF NothingToTakeBack, Ascending
  <2>2. CASE pc # "new"
    <3>1. PICK R \in SUBSET Keys : Progress(call, R, left, out) BY <2>2 DEF ReadsInv, ScanInv
    <3> QED BY <3>1, ScanProgress DEF NothingToTakeBack
  <2> QED BY <2>1, <2>2
<1> QED BY <1>1, ReadsInvariance, PTL

\* A scan that returns OK returns the keys of its range that Get finds, all of
\* them, in order and with the value Get returns.
THEOREM ScanAgrees == Spec => []AgreesWithGet
<1>1. ReadsInv => AgreesWithGet
  <2> SUFFICES ASSUME ReadsInv, call.kind = "scan", pc = "ok" PROVE AgreesWithGet
    BY DEF AgreesWithGet
  <2>1. pc # "new" OBVIOUS
  <2>2. failed = {} /\ Complete(call, out) BY DEF ReadsInv, ScanInv
  <2>3. PICK R \in SUBSET Keys : Progress(call, R, left, out) BY <2>1, <2>2 DEF ReadsInv, ScanInv
  <2>4. ASSUME NEW k \in Keys, InRange(k), GetEntry(k) # NotFound PROVE Listed(k)
    <3>1. Wanted(call, k) BY <2>4, WantedIsGet
    <3> QED BY <2>2, <3>1 DEF Complete, Listed
  <2> QED BY <2>3, <2>4, ScanProgress DEF AgreesWithGet
<1> QED BY <1>1, ReadsInvariance, PTL

\* A lookup that could read every table it asked ends with the newest entry for
\* its key: leaving out tables by their range, and all but one file of each
\* sorted level, misses nothing.
THEOREM LookupFindsNewest == Spec => []GetFindsNewest
<1>1. ReadsInv => GetFindsNewest BY DEF ReadsInv, GetInv, GetFindsNewest
<1> QED BY <1>1, ReadsInvariance, PTL

\* The calls assumed are the ones the engine makes: a compaction picked from a
\* well-formed version has inputs that can be merged.
LEMMA PickedMerges ==
  ASSUME NEW v \in [Level -> SUBSET File], VersionOK(v), NEW c \in Compactions, PickOK(v, c)
  PROVE  MergeOK(c)
<1> DEFINE s == c.source
<1>1. s \in Level /\ s + 1 \in Level /\ s + 1 # 0 /\ (s > 0 => s # 0)
  BY SMT, OptionsAssumption DEF Compactions, Level
<1>2. c.srcs \subseteq v[s] /\ c.tgts \subseteq v[s + 1] BY DEF PickOK
<1> HIDE DEF s
<1>3. \A f \in Inputs(c) : \E l \in Level : f \in v[l] BY <1>1, <1>2 DEF Inputs
<1>4. \A f \in Inputs(c) : KeysOf(f.data) # {} BY <1>3 DEF VersionOK
<1>5. \A f, g \in Inputs(c) : f.number = g.number => f = g BY <1>3 DEF VersionOK
<1>6. Disjoint(v[s + 1]) /\ (s > 0 => Disjoint(v[s])) BY <1>1 DEF VersionOK
<1>7. Disjoint(c.tgts) BY <1>2, <1>6 DEF Disjoint
<1>8. s > 0 => Disjoint(c.srcs) BY <1>2, <1>6 DEF Disjoint
<1> QED BY <1>4, <1>5, <1>7, <1>8 DEF MergeOK, s
==============================================================================
