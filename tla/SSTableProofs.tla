---------------------------- MODULE SSTableProofs ----------------------------
(***************************************************************************)
(* The skip list for any keys and any heights, and with it the theorems of *)
(* the flush: Insert keeps the list well formed and its size right, and    *)
(* the file written from it is the whole memtable, whatever goes wrong.    *)
(***************************************************************************)
EXTENDS TableProofs, FiniteSetTheorems

\* Zenon proves the leaves; those with arithmetic, tuples or records name SMT.
USE Zenon

-------------------------------------------------------------------------------
(* Least and greatest numbers *)

\* Finitely many natural numbers have a bound.
LEMMA FiniteBounded ==
  ASSUME NEW S \in SUBSET Nat, IsFiniteSet(S)
  PROVE  \E b \in Nat : S \subseteq 0 .. b
<1> DEFINE Bounded(T) == \E b \in Nat : T \subseteq 0 .. b
           R == StrictSubsetOrdering(S)
           Z == {T \in SUBSET S : ~Bounded(T)}
<1>1. IsWellFoundedOn(R, SUBSET S)
  BY FS_StrictSubsetOrderingWellFounded, FS_FiniteSubsetsOfFinite
<1>2. \A T, U \in SUBSET S : T \subseteq U /\ T # U => <<T, U>> \in R BY DEF StrictSubsetOrdering
<1> HIDE DEF R
<1>3. ASSUME Z # {} PROVE FALSE
  <2>1. PICK T \in Z : \A U \in Z : <<U, T>> \notin R BY <1>1, <1>3, WFMin
  <2>2. T # {}
    <3>1. Bounded({}) BY 0 \in Nat
    <3> QED BY <2>1, <3>1
  <2>3. PICK x \in T : TRUE BY <2>2
  <2>4. T \ {x} \in SUBSET S /\ T \ {x} # T /\ T \in SUBSET S BY <2>1, <2>3
  <2>5. Bounded(T \ {x}) BY <1>2, <2>1, <2>4
  <2>6. PICK b \in Nat : T \ {x} \subseteq 0 .. b BY <2>5
  <2>7. x \in Nat BY <2>3, <2>4
  <2>8. b + x \in Nat /\ T \subseteq 0 .. (b + x) BY SMT, <2>4, <2>6, <2>7
  <2> QED BY <2>1, <2>8
<1> QED BY <1>3

\* The null pointer is behind every key.
LEMMA NullIs == Null \in Nat /\ \A k \in Keys : k \in Nat /\ 0 < k /\ k < Null
<1>1. Keys \in SUBSET Nat /\ IsFiniteSet(Keys) /\ Keys # {} BY KeysAssumption
<1>2. PICK b \in Nat : Keys \subseteq 0 .. b BY <1>1, FiniteBounded
<1>3. Max(Keys) \in Keys /\ \A k \in Keys : Max(Keys) >= k BY <1>1, <1>2, GreatestNat
<1>4. \A k \in Keys : k \in Nat /\ 0 < k BY SMT, KeysAssumption
<1>5. Max(Keys) \in Nat BY <1>3, <1>4
<1> QED BY SMT, <1>3, <1>4, <1>5 DEF Null

\* A tower is a sequence.
LEMMA TowerLen ==
  ASSUME NEW h \in Nat, NEW S, NEW t \in [1 .. h -> S]
  PROVE  t \in Seq(S) /\ Len(t) = h
BY SMT

-------------------------------------------------------------------------------
(* The list *)

\* What a list is made of: towers over the keys that have an entry.
ListOK ==
  /\ Head0 \in DOMAIN forward /\ DOMAIN forward \subseteq Keys \cup {Head0}
  /\ \A n \in DOMAIN forward : \E h \in 1 .. kMaxLevel : forward[n] \in [1 .. h -> Keys \cup {Null}]
  /\ entry \in [Keys -> Entries \cup {NotFound}]
  /\ \A k \in Keys : entry[k] # NotFound <=> k \in DOMAIN forward
  /\ level \in 1 .. kMaxLevel
  /\ count = Cardinality(DOMAIN forward \ {Head0})

\* The inductive invariant of the list.
ListInv == ListOK /\ TowersLinked /\ UsageAccounted

\* A node reaches the levels below its own; all of them reach the first.
LEMMA ReachingIs ==
  ASSUME ListOK, NEW i \in 1 .. kMaxLevel
  PROVE  /\ Reaching(i) \subseteq DOMAIN forward
         /\ Reaching(i) \subseteq Nat
         /\ \A j \in 1 .. i : Reaching(i) \subseteq Reaching(j)
         /\ Reaching(1) = DOMAIN forward
<1>1. Reaching(i) \subseteq DOMAIN forward BY DEF Reaching
<1>2. DOMAIN forward \subseteq Nat BY SMT, NullIs DEF ListOK, Head0
<1>3. ASSUME NEW j \in 1 .. i, NEW n \in Reaching(i) PROVE n \in Reaching(j)
  <2>1. n \in DOMAIN forward /\ i \in DOMAIN forward[n] BY DEF Reaching
  <2>2. PICK h \in 1 .. kMaxLevel : forward[n] \in [1 .. h -> Keys \cup {Null}] BY <2>1 DEF ListOK
  <2>3. DOMAIN forward[n] = 1 .. h BY <2>2
  <2>4. j \in 1 .. h BY SMT, SizesAssumption, <2>1, <2>3
  <2> QED BY <2>1, <2>3, <2>4 DEF Reaching
<1>4. ASSUME NEW n \in DOMAIN forward PROVE n \in Reaching(1)
  <2>1. PICK h \in 1 .. kMaxLevel : forward[n] \in [1 .. h -> Keys \cup {Null}] BY DEF ListOK
  <2>2. DOMAIN forward[n] = 1 .. h BY <2>1
  <2>3. 1 \in 1 .. h BY SMT, SizesAssumption
  <2> QED BY <2>2, <2>3 DEF Reaching
<1> QED BY <1>1, <1>2, <1>3, <1>4 DEF Reaching

-------------------------------------------------------------------------------
(* The search *)

\* b is the last node of level i before key.
IsBefore(b, i, key) ==
  b \in Reaching(i) /\ b < key /\ \A m \in Reaching(i) : m < key => m <= b

\* There is one such node, and its pointer leads to the key or behind it.
LEMMA BeforeExists ==
  ASSUME ListInv, NEW i \in 1 .. kMaxLevel, NEW key \in Keys
  PROVE  \E b : IsBefore(b, i, key)
<1> DEFINE S == {m \in Reaching(i) : m < key}
<1>1. Reaching(i) \subseteq Nat /\ Head0 \in Reaching(i)
  BY ReachingIs DEF ListInv, TowersLinked
<1>2. key \in Nat /\ Head0 < key BY NullIs DEF Head0
<1>3. S \in SUBSET (0 .. key) /\ S # {} BY SMT, <1>1, <1>2
<1>4. Max(S) \in S /\ \A n \in S : Max(S) >= n BY <1>2, <1>3, GreatestNat
<1>5. ASSUME NEW m \in Reaching(i), m < key PROVE m <= Max(S)
  <2>1. Max(S) >= m BY <1>4, <1>5
  <2> QED BY <2>1
<1> QED BY <1>4, <1>5 DEF IsBefore

\* There is one last node before a key.
LEMMA BeforeUnique ==
  ASSUME ListInv, NEW i \in 1 .. kMaxLevel, NEW key \in Keys,
         NEW b, IsBefore(b, i, key), NEW c, IsBefore(c, i, key)
  PROVE  b = c
<1>1. Reaching(i) \subseteq Nat BY ReachingIs DEF ListInv
<1>2. b \in Nat /\ c \in Nat /\ b <= c /\ c <= b BY <1>1 DEF IsBefore
<1> QED BY SMT, <1>2

\* A node before key is the last one when its pointer leads to key or behind.
LEMMA BeforeNext ==
  ASSUME ListInv, NEW i \in 1 .. kMaxLevel, NEW key \in Keys, NEW b \in Reaching(i), b < key
  PROVE  /\ forward[b][i] \in Nat /\ b \in Nat /\ key \in Nat
         /\ forward[b][i] < key => forward[b][i] \in Reaching(i)
         /\ IsBefore(b, i, key) <=> key <= forward[b][i]
<1> DEFINE m == forward[b][i]
<1>1. Reaching(i) \subseteq Nat BY ReachingIs DEF ListInv
<1>2. /\ m \in Reaching(i) \cup {Null} /\ b < m
      /\ \A x \in Reaching(i) : x <= b \/ m <= x
  BY DEF ListInv, TowersLinked
<1>3. Null \in Nat /\ key \in Nat /\ key < Null BY NullIs
<1>4. m \in Nat /\ b \in Nat BY <1>1, <1>2, <1>3
<1> HIDE DEF m
<1>5. m < key => m \in Reaching(i) BY SMT, <1>2, <1>3
<1>6. ASSUME key <= m PROVE IsBefore(b, i, key)
  <2>1. ASSUME NEW x \in Reaching(i), x < key PROVE x <= b
    <3>1. x \in Nat /\ (x <= b \/ m <= x) BY <1>1, <1>2
    <3> QED BY SMT, <1>3, <1>4, <1>6, <2>1, <3>1
  <2> QED BY <2>1 DEF IsBefore
<1>7. ASSUME IsBefore(b, i, key) PROVE key <= m
  <2>1. CASE m < key
    <3>1. m <= b BY <1>5, <1>7, <2>1 DEF IsBefore
    <3> QED BY SMT, <1>2, <1>4, <3>1
  <2> QED BY SMT, <1>3, <1>4, <2>1
<1> QED BY <1>3, <1>4, <1>5, <1>6, <1>7 DEF m

\* Walking along a level ends at the last node before the key.
LEMMA WalkIs ==
  ASSUME ListInv, NEW i \in 1 .. kMaxLevel, NEW key \in Keys, NEW n \in Reaching(i), n < key
  PROVE  IsBefore(Walk(n, i, key), i, key)
<1> DEFINE R == Reaching(i)
           Step(g) == [x \in R |-> IF forward[x][i] < key THEN g[forward[x][i]] ELSE x]
           go == CHOOSE g : g = Step(g)
<1>1. PICK b : IsBefore(b, i, key) BY BeforeExists
<1>2. R \subseteq Nat /\ key \in Nat BY ReachingIs, NullIs DEF ListInv
<1>3. Walk(n, i, key) = go[n] BY DEF Walk
<1>4. ASSUME NEW x \in R, x < key, forward[x][i] < key PROVE forward[x][i] \in R /\ x < forward[x][i]
  <2>1. forward[x][i] \in R BY <1>4, BeforeNext
  <2> QED BY <2>1 DEF ListInv, TowersLinked
<1>5. ASSUME NEW x \in R, x < key, ~(forward[x][i] < key) PROVE x = b
  <2>1. key <= forward[x][i] BY SMT, <1>5, BeforeNext
  <2> QED BY <1>1, <1>5, <2>1, BeforeNext, BeforeUnique
<1>6. ASSUME NEW x \in R, ~(x < key) PROVE ~(forward[x][i] < key)
  <2>1. x < forward[x][i] /\ forward[x][i] \in R \cup {Null} BY DEF ListInv, TowersLinked
  <2> QED BY SMT, <1>2, <1>6, <2>1, NullIs
<1> HIDE DEF R
<1>7. \E g : g = Step(g)
  <2> DEFINE f == [x \in R |-> IF x < key THEN b ELSE x]
  <2>1. ASSUME NEW x \in R PROVE f[x] = IF forward[x][i] < key THEN f[forward[x][i]] ELSE x
    <3>1. CASE x < key /\ forward[x][i] < key
      <4>1. f[x] = b /\ f[forward[x][i]] = b BY <1>4, <3>1
      <4> QED BY <3>1, <4>1
    <3>2. CASE x < key /\ ~(forward[x][i] < key) BY <1>5, <3>2
    <3>3. CASE ~(x < key) BY <1>6, <3>3
    <3> QED BY <3>1, <3>2, <3>3
  <2>2. f = Step(f) BY <2>1
  <2> QED BY <2>2
<1>8. go = Step(go) BY <1>7
<1> HIDE DEF go
<1>9. \A x \in R : go[x] = IF forward[x][i] < key THEN go[forward[x][i]] ELSE x BY <1>8
<1>10. ASSUME {x \in R : x < key /\ go[x] # b} # {} PROVE FALSE
  <2> DEFINE B == {x \in R : x < key /\ go[x] # b}
  <2>1. B \in SUBSET (0 .. key)
    <3>1. ASSUME NEW x \in R, x < key PROVE x \in 0 .. key BY SMT, <1>2, <3>1
    <3> QED BY <3>1
  <2>2. Max(B) \in B /\ \A x \in B : Max(B) >= x BY <1>2, <1>10, <2>1, GreatestNat
  <2>3. PICK x \in B : \A y \in B : x >= y BY <2>2
  <2>4. CASE forward[x][i] < key
    <3>1. forward[x][i] \in R /\ x < forward[x][i] BY <1>4, <2>3, <2>4
    <3>2. go[forward[x][i]] # b BY <1>9, <2>3, <2>4
    <3>3. x >= forward[x][i] BY <2>3, <2>4, <3>1, <3>2
    <3>4. x \in Nat /\ forward[x][i] \in Nat BY <1>2, <3>1
    <3> QED BY SMT, <3>1, <3>3, <3>4
  <2>5. CASE ~(forward[x][i] < key) BY <1>5, <1>9, <2>3, <2>5
  <2> QED BY <2>4, <2>5
<1>11. go[n] = b BY <1>10 DEF R
<1> QED BY <1>1, <1>3, <1>11

\* The search path leads, at every level, to the last node before the key.
LEMMA UpdateIs ==
  ASSUME ListInv, NEW key \in Keys, NEW i \in 1 .. kMaxLevel
  PROVE  IsBefore(Update(key)[i], i, key)
<1> DEFINE D == 1 .. level + 1
           Step(g) == [j \in D |-> IF j = level + 1 THEN Head0 ELSE Walk(g[j + 1], j, key)]
           go == CHOOSE g : g = Step(g)
           bef(j) == CHOOSE b : IsBefore(b, j, key)
<1>1. level \in 1 .. kMaxLevel /\ level \in Nat /\ kMaxLevel \in Nat BY SMT, SizesAssumption DEF ListInv, ListOK
<1>2. Update(key)[i] = IF i <= level THEN go[i] ELSE Head0 BY DEF Update
<1>3. Head0 < key BY NullIs DEF Head0
<1>4. ASSUME NEW j \in 1 .. level
      PROVE  j \in D /\ j + 1 \in D /\ j # level + 1 /\ j \in 1 .. kMaxLevel
             /\ (j + 1 # level + 1 => j + 1 \in 1 .. level)
  BY SMT, <1>1
<1>5. ASSUME NEW j \in 1 .. level PROVE IsBefore(bef(j), j, key) BY <1>4, BeforeExists
<1>6. ASSUME NEW j \in 1 .. level, NEW x, x = IF j + 1 = level + 1 THEN Head0 ELSE bef(j + 1)
      PROVE  Walk(x, j, key) = bef(j)
  <2>1. x \in Reaching(j) /\ x < key
    <3>1. CASE j + 1 = level + 1 BY <1>3, <1>4, <1>6, <3>1 DEF ListInv, TowersLinked
    <3>2. CASE j + 1 # level + 1
      <4>1. j + 1 \in 1 .. level /\ j + 1 \in 1 .. kMaxLevel BY <1>4, <3>2
      <4>2. x \in Reaching(j + 1) /\ x < key BY <1>5, <1>6, <3>2, <4>1 DEF IsBefore
      <4>3. j \in 1 .. j + 1 BY SMT, <1>1
      <4> QED BY <4>1, <4>2, <4>3, ReachingIs DEF ListInv
    <3> QED BY <3>1, <3>2
  <2>2. IsBefore(Walk(x, j, key), j, key) BY <1>4, <2>1, WalkIs
  <2> QED BY <1>4, <1>5, <2>2, BeforeUnique
<1> HIDE DEF bef
<1>7. \E g : g = Step(g)
  <2> DEFINE f == [j \in D |-> IF j = level + 1 THEN Head0 ELSE bef(j)]
  <2>1. ASSUME NEW j \in D PROVE f[j] = IF j = level + 1 THEN Head0 ELSE Walk(f[j + 1], j, key)
    <3>1. CASE j = level + 1 BY <3>1
    <3>2. CASE j # level + 1
      <4>1. j \in 1 .. level BY SMT, <1>1, <3>2
      <4>2. f[j + 1] = IF j + 1 = level + 1 THEN Head0 ELSE bef(j + 1) BY <1>4, <4>1
      <4> HIDE DEF D
      <4>3. f[j] = bef(j) BY <3>2
      <4> HIDE DEF f
      <4> QED BY <1>6, <3>2, <4>1, <4>2, <4>3
    <3> QED BY <3>1, <3>2
  <2>2. f = Step(f) BY <2>1
  <2> QED BY <2>2
<1>8. go = Step(go) BY <1>7
<1> HIDE DEF go
<1>9. \A j \in D : go[j] = IF j = level + 1 THEN Head0 ELSE Walk(go[j + 1], j, key) BY <1>8
<1>10. ASSUME {j \in 1 .. level : go[j] # bef(j)} # {} PROVE FALSE
  <2> DEFINE B == {j \in 1 .. level : go[j] # bef(j)}
  <2>1. B \in SUBSET (0 .. level)
    <3>1. \A j \in 1 .. level : j \in 0 .. level BY SMT, <1>1
    <3> QED BY <3>1
  <2>2. Max(B) \in B /\ \A x \in B : Max(B) >= x BY <1>1, <1>10, <2>1, GreatestNat
  <2>3. PICK j \in B : \A m \in B : j >= m BY <2>2
  <2>4. go[j + 1] = IF j + 1 = level + 1 THEN Head0 ELSE bef(j + 1)
    <3>1. CASE j + 1 = level + 1 BY <1>4, <1>9, <2>3, <3>1
    <3>2. CASE j + 1 # level + 1
      <4>1. j + 1 \in 1 .. level BY <1>4, <2>3, <3>2
      <4>2. ~(j >= j + 1) BY SMT, <1>1
      <4> QED BY <2>3, <3>2, <4>1, <4>2
    <3> QED BY <3>1, <3>2
  <2>5. go[j] = Walk(go[j + 1], j, key) BY <1>4, <1>9, <2>3
  <2> QED BY <1>6, <2>3, <2>4, <2>5
<1>11. CASE i <= level
  <2>1. i \in 1 .. level BY SMT, <1>1, <1>11
  <2>2. go[i] = bef(i) BY <1>10, <2>1
  <2> QED BY <1>2, <1>5, <1>11, <2>1, <2>2
<1>12. CASE ~(i <= level)
  <2>1. i > level BY SMT, <1>1, <1>12
  <2>2. Reaching(i) = {Head0} BY <2>1 DEF ListInv, TowersLinked
  <2>3. \A m \in {Head0} : m <= Head0 BY SMT DEF Head0
  <2> QED BY <1>2, <1>3, <1>12, <2>2, <2>3 DEF IsBefore
<1> QED BY <1>11, <1>12

\* Seek finds the first node at or behind the key.
LEMMA SeekIs ==
  ASSUME ListInv, NEW key \in Keys
  PROVE  /\ SeekNode(key) \in DOMAIN forward \cup {Null}
         /\ key <= SeekNode(key)
         /\ SeekNode(key) = key <=> key \in DOMAIN forward
<1> DEFINE b == Update(key)[1]
<1>1. 1 \in 1 .. kMaxLevel BY SMT, SizesAssumption
<1>2. IsBefore(b, 1, key) BY <1>1, UpdateIs
<1>3. SeekNode(key) = forward[b][1] BY DEF SeekNode
<1> HIDE DEF b
<1>4. b \in Reaching(1) /\ b < key BY <1>2 DEF IsBefore
<1>5. forward[b][1] \in Nat /\ b \in Nat /\ key \in Nat /\ key <= forward[b][1] BY <1>1, <1>2, <1>4, BeforeNext
<1>6. forward[b][1] \in Reaching(1) \cup {Null} /\ \A m \in Reaching(1) : m <= b \/ forward[b][1] <= m
  BY <1>1, <1>4 DEF ListInv, TowersLinked
<1>7. Reaching(1) = DOMAIN forward BY <1>1, ReachingIs DEF ListInv
<1>8. ASSUME key \in DOMAIN forward PROVE forward[b][1] = key
  <2>1. key <= b \/ forward[b][1] <= key BY <1>6, <1>7, <1>8
  <2> QED BY SMT, <1>4, <1>5, <2>1
<1>9. key # Null
  <2>1. key \in Nat /\ key < Null /\ Null \in Nat BY NullIs
  <2> QED BY SMT, <2>1
<1> QED BY <1>3, <1>5, <1>6, <1>7, <1>8, <1>9

\* Get returns the entry of the key.
LEMMA GetIs ==
  ASSUME ListInv, NEW key \in Keys
  PROVE  ListGet(key) = entry[key]
<1>1. key \notin DOMAIN forward => entry[key] = NotFound BY DEF ListInv, ListOK
<1> QED BY <1>1, SeekIs DEF ListGet

-------------------------------------------------------------------------------
(* Insert *)

\* What the towers are after a new node was linked in.
TowersAfter(key, height, u) ==
  /\ DOMAIN forward' = DOMAIN forward \cup {key}
  /\ forward'[key] \in [1 .. height -> Keys \cup {Null}]
  /\ \A i \in 1 .. height : forward'[key][i] = forward[u[i]][i]
  /\ \A n \in DOMAIN forward :
       /\ DOMAIN forward'[n] = DOMAIN forward[n]
       /\ \A h \in Nat : forward[n] \in [1 .. h -> Keys \cup {Null}]
                           => forward'[n] \in [1 .. h -> Keys \cup {Null}]
       /\ \A i \in DOMAIN forward[n] :
            forward'[n][i] = IF i <= height /\ u[i] = n THEN key ELSE forward[n][i]

\* The towers after Link: the path leads to the new node, it to where the path led.
LEMMA LinkTowers ==
  ASSUME ListInv, NEW key \in Keys, key \notin DOMAIN forward, NEW x \in Entries,
         NEW height \in 1 .. kMaxLevel, Link(key, x, height)
  PROVE  TowersAfter(key, height, Update(key))
<1> DEFINE u == Update(key)
           Tower(n) == [i \in DOMAIN forward[n] |-> IF i <= height /\ u[i] = n THEN key ELSE forward[n][i]]
           new == [i \in 1 .. height |-> forward[u[i]][i]]
<1>1. forward' = [n \in DOMAIN forward \cup {key} |-> IF n = key THEN new ELSE Tower(n)]
  BY DEF Link
<1>2. ASSUME NEW i \in 1 .. height PROVE forward[u[i]][i] \in Keys \cup {Null}
  <2>1. i \in 1 .. kMaxLevel BY SMT, SizesAssumption
  <2>2. IsBefore(u[i], i, key) BY <2>1, UpdateIs
  <2> HIDE DEF u
  <2>3. u[i] \in DOMAIN forward /\ i \in DOMAIN forward[u[i]] BY <2>2 DEF IsBefore, Reaching
  <2>4. PICK h \in 1 .. kMaxLevel : forward[u[i]] \in [1 .. h -> Keys \cup {Null}]
    BY <2>3 DEF ListInv, ListOK
  <2> QED BY <2>3, <2>4
<1> HIDE DEF u
<1>3. new \in [1 .. height -> Keys \cup {Null}] BY <1>2
<1>4. ASSUME NEW n \in DOMAIN forward
      PROVE  /\ DOMAIN Tower(n) = DOMAIN forward[n]
             /\ \A h \in Nat : forward[n] \in [1 .. h -> Keys \cup {Null}]
                                  => Tower(n) \in [1 .. h -> Keys \cup {Null}]
             /\ \A i \in DOMAIN forward[n] :
                   Tower(n)[i] = IF i <= height /\ u[i] = n THEN key ELSE forward[n][i]
  <2>1. DOMAIN Tower(n) = DOMAIN forward[n] OBVIOUS
  <2>2. ASSUME NEW h \in Nat, forward[n] \in [1 .. h -> Keys \cup {Null}]
        PROVE  Tower(n) \in [1 .. h -> Keys \cup {Null}]
    <3>1. DOMAIN forward[n] = 1 .. h /\ \A i \in 1 .. h : forward[n][i] \in Keys \cup {Null} BY <2>2
    <3>2. \A i \in 1 .. h : (IF i <= height /\ u[i] = n THEN key ELSE forward[n][i]) \in Keys \cup {Null}
      BY <3>1
    <3> QED BY <3>1, <3>2
  <2>3. ASSUME NEW i \in DOMAIN forward[n]
        PROVE Tower(n)[i] = IF i <= height /\ u[i] = n THEN key ELSE forward[n][i]
    OBVIOUS
  <2> QED BY <2>1, <2>2, <2>3
<1>5. \A i \in 1 .. height : new[i] = forward[u[i]][i] OBVIOUS
<1> HIDE DEF Tower, new
<1>6. DOMAIN forward' = DOMAIN forward \cup {key} BY <1>1
<1>7. forward'[key] = new BY <1>1
<1>8. \A n \in DOMAIN forward : forward'[n] = Tower(n) BY <1>1
<1>9. ASSUME NEW n \in DOMAIN forward
      PROVE  /\ DOMAIN forward'[n] = DOMAIN forward[n]
             /\ \A h \in Nat : forward[n] \in [1 .. h -> Keys \cup {Null}]
                                  => forward'[n] \in [1 .. h -> Keys \cup {Null}]
             /\ \A i \in DOMAIN forward[n] :
                   forward'[n][i] = IF i <= height /\ u[i] = n THEN key ELSE forward[n][i]
  <2>1. forward'[n] = Tower(n) BY <1>8
  <2> QED BY SMT, <1>4, <2>1
<1>10. /\ forward'[key] \in [1 .. height -> Keys \cup {Null}]
       /\ \A i \in 1 .. height : forward'[key][i] = forward[u[i]][i]
  BY <1>3, <1>5, <1>7
<1> QED BY <1>6, <1>9, <1>10 DEF u, TowersAfter

\* The levels a new node reaches have it in its place, the others are as before.
LEMMA LinkLinks ==
  ASSUME ListInv, NEW key \in Keys, key \notin DOMAIN forward, NEW x \in Entries,
         NEW height \in 1 .. kMaxLevel, Link(key, x, height)
  PROVE  TowersLinked'
<1> DEFINE u == Update(key)
<1>0. TowersAfter(key, height, u) BY LinkTowers
<1>4. \A i \in 1 .. kMaxLevel : IsBefore(u[i], i, key) BY UpdateIs
<1> HIDE DEF u
<1>1. /\ DOMAIN forward' = DOMAIN forward \cup {key}
      /\ forward'[key] \in [1 .. height -> Keys \cup {Null}]
      /\ \A i \in 1 .. height : forward'[key][i] = forward[u[i]][i]
      /\ \A n \in DOMAIN forward :
           /\ DOMAIN forward'[n] = DOMAIN forward[n]
           /\ \A i \in DOMAIN forward[n] :
                forward'[n][i] = IF i <= height /\ u[i] = n THEN key ELSE forward[n][i]
  BY <1>0 DEF TowersAfter
<1>2. level' = IF height > level THEN height ELSE level BY DEF Link
<1>3. level \in Nat /\ height \in Nat /\ kMaxLevel \in Nat BY SMT, SizesAssumption DEF ListInv, ListOK
<1>5. SUFFICES ASSUME NEW i \in 1 .. kMaxLevel
      PROVE  /\ Head0 \in Reaching(i)'
             /\ \A n \in Reaching(i)' :
                  /\ forward'[n][i] \in Reaching(i)' \cup {Null} /\ n < forward'[n][i]
                  /\ \A m \in Reaching(i)' : m <= n \/ forward'[n][i] <= m
             /\ i > level' => Reaching(i)' = {Head0}
  BY DEF TowersLinked
<1>6. /\ Head0 \in Reaching(i)
      /\ \A n \in Reaching(i) :
           /\ forward[n][i] \in Reaching(i) \cup {Null} /\ n < forward[n][i]
           /\ \A m \in Reaching(i) : m <= n \/ forward[n][i] <= m
      /\ i > level => Reaching(i) = {Head0}
  BY DEF ListInv, TowersLinked
<1>7. Reaching(i) \subseteq Nat /\ Reaching(i) \subseteq DOMAIN forward /\ key \notin Reaching(i)
  BY ReachingIs DEF ListInv
<1>8. key \in Nat /\ Null \in Nat BY NullIs
<1>9. CASE i \in 1 .. height
  <2> DEFINE b == u[i]  next == forward[b][i]
  <2>1. Reaching(i)' = Reaching(i) \cup {key}
    <3>1. \A n \in DOMAIN forward' : i \in DOMAIN forward'[n] <=> n \in Reaching(i) \cup {key}
      BY <1>1, <1>7, <1>9 DEF Reaching
    <3> QED BY <1>1, <1>7, <3>1 DEF Reaching
  <2>2. b \in Reaching(i) /\ b < key /\ \A m \in Reaching(i) : m < key => m <= b
    BY <1>4 DEF IsBefore
  <2>3. next \in Nat /\ b \in Nat /\ key <= next BY <1>4, <2>2, BeforeNext
  <2>4. next \in Reaching(i) \cup {Null} /\ \A m \in Reaching(i) : m <= b \/ next <= m BY <1>6, <2>2
  <2>5. next # key
    <3>1. key \in Nat /\ key < Null BY NullIs
    <3>2. key # Null BY SMT, <1>8, <3>1
    <3> QED BY <1>7, <2>4, <3>2
  <2>6. forward'[key][i] = next BY <1>1, <1>9
  <2>7. forward'[b][i] = key
    <3>1. b \in DOMAIN forward /\ i \in DOMAIN forward[b] BY <2>2 DEF Reaching
    <3>2. i <= height BY SMT, <1>3, <1>9
    <3> QED BY <1>1, <3>1, <3>2
  <2>8. ASSUME NEW n \in Reaching(i), n # b PROVE forward'[n][i] = forward[n][i]
    <3>1. n \in DOMAIN forward /\ i \in DOMAIN forward[n] BY DEF Reaching
    <3> QED BY <1>1, <2>8, <3>1
  <2> HIDE DEF b, next
  <2>9. i > level' => FALSE BY SMT, <1>2, <1>3, <1>9
  <2>10. ASSUME NEW n \in Reaching(i) \cup {key}
         PROVE  /\ forward'[n][i] \in Reaching(i) \cup {key, Null} /\ n < forward'[n][i]
                /\ \A m \in Reaching(i) \cup {key} : m <= n \/ forward'[n][i] <= m
    <3>1. CASE n = key
      <4>1. key < next BY SMT, <1>8, <2>3, <2>5
      <4>2. ASSUME NEW m \in Reaching(i) PROVE m <= key \/ next <= m
        <5>1. m \in Nat /\ (m <= b \/ next <= m) BY <1>7, <2>4
        <5> QED BY SMT, <1>8, <2>2, <2>3, <5>1
      <4>3. key <= key BY SMT, <1>8
      <4> QED BY <2>4, <2>6, <3>1, <4>1, <4>2, <4>3
    <3>2. CASE n = b
      <4>1. ASSUME NEW m \in Reaching(i) PROVE m <= b \/ key <= m
        <5>1. m \in Nat /\ (m <= b \/ next <= m) BY <1>7, <2>4
        <5> QED BY SMT, <1>8, <2>3, <5>1
      <4>2. key <= key BY SMT, <1>8
      <4> QED BY <2>2, <2>7, <3>2, <4>1, <4>2
    <3>3. CASE n # key /\ n # b
      <4> DEFINE m0 == forward[n][i]
      <4>1. n \in Reaching(i) /\ forward'[n][i] = m0 BY <2>8, <3>3
      <4>2. m0 \in Reaching(i) \cup {Null} /\ n < m0 /\ \A m \in Reaching(i) : m <= n \/ m0 <= m
        BY <1>6, <4>1
      <4>3. n \in Nat /\ m0 \in Nat BY <1>7, <1>8, <4>1, <4>2
      <4> HIDE DEF m0
      <4>4. key <= n \/ m0 <= key
        <5>1. CASE n < key
          <6>1. n <= b /\ (b <= n \/ m0 <= b) BY <2>2, <4>1, <4>2, <5>1
          <6> QED BY SMT, <1>8, <2>2, <2>3, <3>3, <4>3, <6>1
        <5> QED BY SMT, <1>8, <4>3, <5>1
      <4> QED BY <4>1, <4>2, <4>4
    <3> QED BY <3>1, <3>2, <3>3
  <2> QED BY <1>6, <2>1, <2>9, <2>10
<1>10. CASE i \notin 1 .. height
  <2>1. Reaching(i)' = Reaching(i)
    <3>1. DOMAIN forward'[key] = 1 .. height BY <1>1
    <3>2. \A n \in DOMAIN forward' : i \in DOMAIN forward'[n] <=> n \in Reaching(i)
      BY <1>1, <1>7, <1>10, <3>1 DEF Reaching
    <3> QED BY <1>1, <1>7, <3>2 DEF Reaching
  <2>2. ~(i <= height) BY SMT, <1>3, <1>10
  <2>3. ASSUME NEW n \in Reaching(i) PROVE forward'[n][i] = forward[n][i]
    <3>1. n \in DOMAIN forward /\ i \in DOMAIN forward[n] BY DEF Reaching
    <3> QED BY <1>1, <2>2, <3>1
  <2>4. i > level' => i > level BY SMT, <1>2, <1>3
  <2> QED BY <1>6, <2>1, <2>3, <2>4
<1> QED BY <1>9, <1>10

-------------------------------------------------------------------------------
(* Memory *)

\* The bytes of the nodes N when f says how many each has.
Cells(N, f) == UNION {{k} \X (1 .. f[k]) : k \in N}

\* Finitely many cells.
LEMMA CellsFinite ==
  ASSUME NEW N, IsFiniteSet(N), NEW f, \A k \in N : f[k] \in Nat
  PROVE  IsFiniteSet(Cells(N, f)) /\ Cardinality(Cells(N, f)) \in Nat
<1> DEFINE T == {{k} \X (1 .. f[k]) : k \in N}
           g == [k \in N |-> {k} \X (1 .. f[k])]
<1>1. g \in Surjection(N, T) BY DEF Surjection
<1>2. IsFiniteSet(T) BY <1>1, FS_Surjection
<1>3. ASSUME NEW k \in N PROVE IsFiniteSet({k} \X (1 .. f[k]))
  <2>1. 1 \in Int /\ f[k] \in Int BY SMT
  <2>2. IsFiniteSet(1 .. f[k]) BY <2>1, FS_Interval
  <2> QED BY <2>2, FS_Singleton, FS_Product
<1>4. IsFiniteSet(UNION T) BY <1>2, <1>3, FS_UNION
<1> QED BY <1>4, FS_CardinalityType DEF Cells

\* One node more has its own bytes.
LEMMA CellsAdd ==
  ASSUME NEW N, IsFiniteSet(N), NEW k, k \notin N, NEW f, \A j \in N \cup {k} : f[j] \in Nat
  PROVE  Cardinality(Cells(N \cup {k}, f)) = Cardinality(Cells(N, f)) + f[k]
<1> DEFINE A == Cells(N, f)
           B == {k} \X (1 .. f[k])
<1>1. Cells(N \cup {k}, f) = A \cup B BY DEF Cells
<1>2. A \cap B = {} BY SMT DEF Cells
<1>3. IsFiniteSet(A) /\ Cardinality(A) \in Nat BY CellsFinite
<1>4. f[k] \in Nat OBVIOUS
<1>5. IsFiniteSet(B) /\ Cardinality(B) = f[k]
  <2>1. 1 \in Int /\ f[k] \in Int BY SMT, <1>4
  <2>2. /\ IsFiniteSet(1 .. f[k])
        /\ Cardinality(1 .. f[k]) = IF 1 > f[k] THEN 0 ELSE f[k] - 1 + 1
    BY <2>1, FS_Interval
  <2>3. IsFiniteSet({k}) /\ Cardinality({k}) = 1 BY FS_Singleton
  <2>4. IsFiniteSet(B) /\ Cardinality(B) = Cardinality({k}) * Cardinality(1 .. f[k])
    BY <2>2, <2>3, FS_Product
  <2> HIDE DEF B
  <2> QED BY SMT, <1>4, <2>2, <2>3, <2>4
<1> HIDE DEF A, B
<1>6. Cardinality(A \cup B) = Cardinality(A) + Cardinality(B) - Cardinality(A \cap B)
  BY <1>3, <1>5, FS_Union
<1>7. Cardinality(A \cap B) = 0 BY <1>2, FS_EmptySet
<1>8. Cardinality(A \cup B) = Cardinality(A) + f[k] BY SMT, <1>3, <1>4, <1>5, <1>6, <1>7
<1> QED BY <1>1, <1>8 DEF A

\* Cells depend on the sizes alone.
LEMMA CellsSame ==
  ASSUME NEW N, NEW f, NEW g, \A k \in N : f[k] = g[k]
  PROVE  Cells(N, f) = Cells(N, g)
BY DEF Cells

\* The bytes of the list as cells; the nodes are finitely many keys.
Sizes == [k \in DOMAIN forward \ {Head0} |-> Footprint(k)]

\* The bytes of the list, as cells of its nodes.
LEMMA BytesAre ==
  ASSUME ListOK
  PROVE  /\ IsFiniteSet(DOMAIN forward \ {Head0})
         /\ DOMAIN forward \ {Head0} \subseteq Keys
         /\ Head0 \notin Keys
         /\ Bytes = Cells(DOMAIN forward \ {Head0}, Sizes)
         /\ \A k \in DOMAIN forward \ {Head0} : Sizes[k] = Footprint(k) /\ Footprint(k) \in Nat
<1> DEFINE N == DOMAIN forward \ {Head0}
<1>1. N \subseteq Keys BY DEF ListOK
<1>2. IsFiniteSet(N) BY <1>1, KeysAssumption, FS_Subset
<1>3. Head0 \notin Keys BY KeysAssumption DEF Head0
<1>4. ASSUME NEW k \in N PROVE Footprint(k) \in Nat
  <2>1. PICK h \in 1 .. kMaxLevel : forward[k] \in [1 .. h -> Keys \cup {Null}] BY DEF ListOK
  <2>2. h \in Nat BY SMT, SizesAssumption
  <2>3. Len(forward[k]) = h BY <2>1, <2>2, TowerLen
  <2>4. ValueSize(entry[k]) \in Nat BY DEF ValueSize
  <2> QED BY SMT, <2>2, <2>3, <2>4, SizesAssumption DEF Footprint
<1>5. Bytes = Cells(N, Sizes) BY DEF Bytes, Cells, Sizes
<1> QED BY <1>1, <1>2, <1>3, <1>4, <1>5 DEF Sizes

\* Link keeps keys, towers and entries in step.
LEMMA LinkOK ==
  ASSUME ListInv, NEW key \in Keys, key \notin DOMAIN forward, NEW x \in Entries,
         NEW height \in 1 .. kMaxLevel, Link(key, x, height)
  PROVE  ListOK'
<1> DEFINE N == DOMAIN forward \ {Head0}
<1>0. TowersAfter(key, height, Update(key)) BY LinkTowers
<1>1. /\ DOMAIN forward' = DOMAIN forward \cup {key}
      /\ forward'[key] \in [1 .. height -> Keys \cup {Null}]
      /\ \A n \in DOMAIN forward : \A h \in Nat :
           forward[n] \in [1 .. h -> Keys \cup {Null}] => forward'[n] \in [1 .. h -> Keys \cup {Null}]
  BY <1>0 DEF TowersAfter
<1>2. /\ entry' = [entry EXCEPT ![key] = x]
      /\ level' = (IF height > level THEN height ELSE level)
      /\ count' = count + 1
  BY DEF Link
<1>3. ListOK BY DEF ListInv
<1>4. ASSUME NEW n \in DOMAIN forward'
      PROVE  \E h \in 1 .. kMaxLevel : forward'[n] \in [1 .. h -> Keys \cup {Null}]
  <2>1. CASE n = key BY <1>1, <2>1
  <2>2. CASE n \in DOMAIN forward
    <3>1. PICK h \in 1 .. kMaxLevel : forward[n] \in [1 .. h -> Keys \cup {Null}] BY <1>3, <2>2 DEF ListOK
    <3>2. h \in Nat BY SMT, SizesAssumption
    <3> QED BY <1>1, <2>2, <3>1, <3>2
  <2> QED BY <1>1, <2>1, <2>2
<1>5. entry' \in [Keys -> Entries \cup {NotFound}] BY <1>2, <1>3 DEF ListOK
<1>6. x # NotFound BY EntriesAssumption DEF Entries
<1>7. ASSUME NEW k \in Keys PROVE entry'[k] # NotFound <=> k \in DOMAIN forward'
  <2>1. CASE k = key BY <1>1, <1>2, <1>3, <1>6, <2>1 DEF ListOK
  <2>2. CASE k # key BY <1>1, <1>2, <1>3, <2>2 DEF ListOK
  <2> QED BY <2>1, <2>2
<1>8. level' \in 1 .. kMaxLevel BY SMT, <1>2, <1>3, SizesAssumption DEF ListOK
<1>9. count' = Cardinality(DOMAIN forward' \ {Head0})
  <2>1. IsFiniteSet(N) /\ key # Head0 BY <1>3, BytesAre
  <2>2. DOMAIN forward' \ {Head0} = N \cup {key} BY <1>1, <2>1
  <2>3. Cardinality(N \cup {key}) = Cardinality(N) + 1 BY <2>1, FS_AddElement
  <2> QED BY <1>2, <1>3, <2>2, <2>3 DEF ListOK
<1>10. Head0 \in DOMAIN forward' /\ DOMAIN forward' \subseteq Keys \cup {Head0} BY <1>1, <1>3 DEF ListOK
<1> QED BY <1>4, <1>5, <1>7, <1>8, <1>9, <1>10 DEF ListOK

\* Link adds the size of its node to mem_usage_.
LEMMA LinkUsage ==
  ASSUME ListInv, NEW key \in Keys, key \notin DOMAIN forward, NEW x \in Entries,
         NEW height \in 1 .. kMaxLevel, Link(key, x, height)
  PROVE  UsageAccounted'
<1> DEFINE N == DOMAIN forward \ {Head0}
<1>0. TowersAfter(key, height, Update(key)) BY LinkTowers
<1>1. /\ DOMAIN forward' = DOMAIN forward \cup {key}
      /\ forward'[key] \in [1 .. height -> Keys \cup {Null}]
      /\ \A n \in DOMAIN forward : \A h \in Nat :
           forward[n] \in [1 .. h -> Keys \cup {Null}] => forward'[n] \in [1 .. h -> Keys \cup {Null}]
  BY <1>0 DEF TowersAfter
<1>2. /\ entry' = [entry EXCEPT ![key] = x]
      /\ mem_usage' = mem_usage + Overhead + ValueSize(x) + height
  BY DEF Link
<1>3. ListOK /\ mem_usage = Cardinality(Bytes) BY DEF ListInv, UsageAccounted
<1>4. /\ IsFiniteSet(N) /\ N \subseteq Keys /\ key # Head0 /\ Bytes = Cells(N, Sizes)
      /\ \A k \in N : Sizes[k] = Footprint(k) /\ Footprint(k) \in Nat
  BY <1>3, BytesAre
<1>5. DOMAIN forward' \ {Head0} = N \cup {key} BY <1>1, <1>4
<1>6. /\ Bytes' = Cells(N \cup {key}, Sizes')
      /\ \A k \in N \cup {key} : Sizes'[k] = Footprint(k)'
  BY <1>5 DEF Bytes, Cells, Sizes
<1>7. ASSUME NEW k \in N PROVE Footprint(k)' = Footprint(k)
  <2>1. PICK h \in 1 .. kMaxLevel : forward[k] \in [1 .. h -> Keys \cup {Null}] BY <1>3 DEF ListOK
  <2>2. h \in Nat BY SMT, SizesAssumption
  <2>3. forward'[k] \in [1 .. h -> Keys \cup {Null}] BY <1>1, <2>1, <2>2
  <2>4. Len(forward[k]) = Len(forward'[k]) BY <2>1, <2>2, <2>3, TowerLen
  <2>5. entry'[k] = entry[k] BY <1>2, <1>3, <1>4 DEF ListOK
  <2> QED BY <2>4, <2>5 DEF Footprint
<1>8. Footprint(key)' = Overhead + ValueSize(x) + height
  <2>1. height \in Nat BY SMT, SizesAssumption
  <2>2. Len(forward'[key]) = height BY <1>1, <2>1, TowerLen
  <2>3. entry'[key] = x BY <1>2, <1>3 DEF ListOK
  <2> QED BY <2>2, <2>3 DEF Footprint
<1>9. Cells(N, Sizes') = Cells(N, Sizes)
  <2>1. \A k \in N : Sizes'[k] = Sizes[k] BY <1>4, <1>6, <1>7
  <2> QED BY <2>1, CellsSame
<1>10. Cardinality(Cells(N \cup {key}, Sizes')) = Cardinality(Cells(N, Sizes')) + Sizes'[key]
  <2>1. Overhead + ValueSize(x) + height \in Nat BY SMT, SizesAssumption DEF ValueSize
  <2>2. \A k \in N \cup {key} : Sizes'[k] \in Nat BY <1>4, <1>6, <1>7, <1>8, <2>1
  <2> QED BY <1>4, <2>2, CellsAdd
<1>11. mem_usage \in Nat BY <1>3, <1>4, CellsFinite
<1>12. Cardinality(Bytes') = mem_usage + (Overhead + ValueSize(x) + height) BY <1>3, <1>4, <1>6, <1>8, <1>9, <1>10
<1>13. ValueSize(x) \in Nat /\ height \in Nat BY SMT, SizesAssumption DEF ValueSize
<1>14. mem_usage' = Cardinality(Bytes') BY SMT, <1>2, <1>11, <1>12, <1>13, SizesAssumption
<1> QED BY <1>14 DEF UsageAccounted

\* An overwrite changes the bytes of one node.
LEMMA OverwriteStep ==
  ASSUME ListInv, NEW key \in Keys, key \in DOMAIN forward, NEW x \in Entries, Overwrite(key, x)
  PROVE  ListInv'
<1> DEFINE N == DOMAIN forward \ {Head0}
           M == N \ {key}
<1>1. /\ entry' = [entry EXCEPT ![key] = x]
      /\ mem_usage' = mem_usage - ValueSize(entry[key]) + ValueSize(x)
      /\ forward' = forward /\ level' = level /\ count' = count
  BY DEF Overwrite
<1>2. ListOK /\ TowersLinked /\ mem_usage = Cardinality(Bytes) BY DEF ListInv, UsageAccounted
<1>3. x # NotFound BY EntriesAssumption DEF Entries
<1>4. ListOK'
  <2>1. entry' \in [Keys -> Entries \cup {NotFound}] BY <1>1, <1>2 DEF ListOK
  <2>2. ASSUME NEW k \in Keys PROVE entry'[k] # NotFound <=> k \in DOMAIN forward'
    BY <1>1, <1>2, <1>3 DEF ListOK
  <2> QED BY <1>1, <1>2, <2>1, <2>2 DEF ListOK
<1>5. TowersLinked' BY <1>1, <1>2 DEF TowersLinked, Reaching
<1>6. /\ IsFiniteSet(N) /\ N \subseteq Keys /\ key # Head0 /\ Bytes = Cells(N, Sizes)
      /\ \A k \in N : Sizes[k] = Footprint(k) /\ Footprint(k) \in Nat
  BY <1>2, BytesAre
<1>7. N = M \cup {key} /\ key \notin M BY <1>6
<1>8. IsFiniteSet(M) BY <1>6, FS_Subset
<1>9. Bytes' = Cells(N, Sizes') /\ \A k \in N : Sizes'[k] = Footprint(k)' BY <1>1 DEF Bytes, Cells, Sizes
<1>10. ASSUME NEW k \in M PROVE Sizes'[k] = Sizes[k]
  <2>1. entry'[k] = entry[k] BY <1>1, <1>2, <1>6 DEF ListOK
  <2> QED BY <1>1, <1>6, <1>9, <2>1 DEF Footprint
<1>11. PICK h \in 1 .. kMaxLevel : forward[key] \in [1 .. h -> Keys \cup {Null}] BY <1>2 DEF ListOK
<1>12. h \in Nat BY SMT, SizesAssumption
<1>13. Len(forward[key]) = h BY <1>11, <1>12, TowerLen
<1>14. Sizes[key] = Overhead + ValueSize(entry[key]) + h BY <1>6, <1>7, <1>13 DEF Footprint
<1>15. Sizes'[key] = Overhead + ValueSize(x) + h
  <2>1. entry'[key] = x BY <1>1, <1>2 DEF ListOK
  <2> QED BY <1>1, <1>7, <1>9, <1>13, <2>1 DEF Footprint
<1>16. ValueSize(x) \in Nat /\ ValueSize(entry[key]) \in Nat BY DEF ValueSize
<1>17. Sizes[key] \in Nat /\ Sizes'[key] \in Nat BY SMT, <1>12, <1>14, <1>15, <1>16, SizesAssumption
<1> DEFINE rest == Cardinality(Cells(M, Sizes))
<1>18. rest \in Nat BY <1>6, <1>8, CellsFinite
<1>19. Cells(M, Sizes') = Cells(M, Sizes) BY <1>10, CellsSame
<1>20. Cardinality(Bytes) = rest + Sizes[key]
  <2>1. \A k \in M \cup {key} : Sizes[k] \in Nat BY <1>6, <1>7
  <2> QED BY <1>6, <1>7, <1>8, <2>1, CellsAdd
<1>21. Cardinality(Bytes') = rest + Sizes'[key]
  <2>1. \A k \in M \cup {key} : Sizes'[k] \in Nat BY <1>6, <1>10, <1>17
  <2>2. Cardinality(Cells(M \cup {key}, Sizes')) = Cardinality(Cells(M, Sizes')) + Sizes'[key]
    BY <1>7, <1>8, <2>1, CellsAdd
  <2> QED BY <1>7, <1>9, <1>19, <2>2
<1> HIDE DEF rest, M, N
<1>22. mem_usage' = Cardinality(Bytes')
  BY SMT, <1>1, <1>2, <1>12, <1>14, <1>15, <1>16, <1>18, <1>20, <1>21, SizesAssumption
<1> QED BY <1>4, <1>5, <1>22 DEF ListInv, UsageAccounted

\* Put and Delete keep the list, whatever height is drawn, and change the entry
\* of their key alone.
LEMMA InsertStep ==
  ASSUME ListInv, NEW key \in Keys, NEW x \in Entries, Insert(key, x)
  PROVE  ListInv' /\ entry' = [entry EXCEPT ![key] = x]
<1>1. SeekNode(key) = key <=> key \in DOMAIN forward BY SeekIs
<1>2. CASE key \in DOMAIN forward
  <2>1. Overwrite(key, x) BY <1>1, <1>2 DEF Insert
  <2>2. ListInv' BY <1>2, <2>1, OverwriteStep
  <2> QED BY <2>1, <2>2 DEF Overwrite
<1>3. CASE key \notin DOMAIN forward
  <2>1. PICK height \in 1 .. kMaxLevel : Link(key, x, height) BY <1>1, <1>3 DEF Insert
  <2>2. ListOK' BY <1>3, <2>1, LinkOK
  <2>3. TowersLinked' BY <1>3, <2>1, LinkLinks
  <2>4. UsageAccounted' BY <1>3, <2>1, LinkUsage
  <2>5. entry' = [entry EXCEPT ![key] = x] BY <2>1 DEF Link
  <2> QED BY <2>2, <2>3, <2>4, <2>5 DEF ListInv
<1> QED BY <1>2, <1>3

\* A fresh list.
LEMMA FreshList == ListInit => ListInv
<1> SUFFICES ASSUME ListInit PROVE ListInv OBVIOUS
<1>1. forward = NoNodes /\ entry = NoEntries /\ level = 1 /\ count = 0 /\ mem_usage = 0 BY DEF ListInit
<1>2. DOMAIN forward = {Head0} BY <1>1 DEF NoNodes
<1>3. forward[Head0] \in [1 .. kMaxLevel -> Keys \cup {Null}]
      /\ \A i \in 1 .. kMaxLevel : forward[Head0][i] = Null
  BY <1>1 DEF NoNodes
<1>4. DOMAIN forward \ {Head0} = {} BY <1>2
<1>5. Cardinality({}) = 0 BY FS_EmptySet
<1>6. Head0 \notin Keys BY KeysAssumption DEF Head0
<1>7. kMaxLevel \in 1 .. kMaxLevel /\ 1 \in 1 .. kMaxLevel BY SMT, SizesAssumption
<1>8. ListOK
  <2>1. entry \in [Keys -> Entries \cup {NotFound}] /\ \A k \in Keys : entry[k] = NotFound
    BY <1>1 DEF NoEntries
  <2> QED BY <1>1, <1>2, <1>3, <1>4, <1>5, <1>6, <1>7, <2>1 DEF ListOK
<1>9. TowersLinked
  <2>1. \A i \in 1 .. kMaxLevel : Reaching(i) = {Head0} BY <1>2, <1>3 DEF Reaching
  <2>2. PICK k \in Keys : TRUE BY KeysAssumption
  <2>3. k \in Nat /\ 0 < k /\ k < Null /\ Null \in Nat BY NullIs
  <2>4. Head0 < Null /\ Head0 <= Head0 BY SMT, <2>3 DEF Head0
  <2> QED BY <1>3, <2>1, <2>4 DEF TowersLinked
<1>10. UsageAccounted
  <2>1. Bytes = {} BY <1>4 DEF Bytes
  <2> QED BY <1>1, <1>5, <2>1 DEF UsageAccounted
<1> QED BY <1>8, <1>9, <1>10 DEF ListInv

\* A fresh memtable is a sound list.
LEMMA ResetStep ==
  ASSUME Reset PROVE ListInv'
<1>1. ListInit' => ListInv' BY FreshList, PTL
<1> QED BY <1>1 DEF Reset, ListInit

\* The first level leads from a node to the next key that has an entry.
LEMMA NextHeld ==
  ASSUME ListInv, NEW n \in DOMAIN forward
  PROVE  /\ n \in Nat /\ forward[n][1] \in Held(entry) \cup {Null} /\ n < forward[n][1]
         /\ \A k \in Held(entry) : k < forward[n][1] <=> k <= n
<1> DEFINE m == forward[n][1]
<1>1. 1 \in 1 .. kMaxLevel BY SMT, SizesAssumption
<1>2. Reaching(1) = DOMAIN forward /\ Reaching(1) \subseteq Nat BY <1>1, ReachingIs DEF ListInv
<1>3. /\ m \in DOMAIN forward \cup {Null} /\ n < m
      /\ \A k \in DOMAIN forward : k <= n \/ m <= k
  BY <1>1, <1>2 DEF ListInv, TowersLinked
<1>4. \A k : k \in Held(entry) <=> k \in Keys /\ k \in DOMAIN forward BY DEF Held, ListInv, ListOK
<1>5. m \in Nat /\ n \in Nat BY <1>2, <1>3, NullIs
<1>6. DOMAIN forward \subseteq Keys \cup {Head0} BY DEF ListInv, ListOK
<1> HIDE DEF m
<1>7. m # Head0 BY SMT, <1>3, <1>5 DEF Head0
<1>8. m \in Held(entry) \cup {Null} BY <1>3, <1>4, <1>6, <1>7
<1>9. ASSUME NEW k \in Held(entry) PROVE k < m <=> k <= n
  <2>1. k \in Nat /\ (k <= n \/ m <= k) BY <1>2, <1>3, <1>4
  <2> QED BY SMT, <1>3, <1>5, <2>1
<1> QED BY <1>3, <1>5, <1>8, <1>9 DEF m

\* Steps of the file leave the list alone.
LEMMA ListSame ==
  ASSUME ListInv, UNCHANGED listVars
  PROVE  ListInv'
<1>1. UNCHANGED <<forward, entry, level, count, mem_usage>> BY DEF listVars
<1>2. ListOK' BY <1>1 DEF ListInv, ListOK
<1>3. TowersLinked' BY <1>1 DEF ListInv, TowersLinked, Reaching
<1>4. UsageAccounted' BY <1>1 DEF ListInv, UsageAccounted, Bytes, Footprint
<1> QED BY <1>2, <1>3, <1>4 DEF ListInv

\* So the writer that starts at the head takes every entry, in order.
LEMMA ListWalkable == ASSUME ListInv PROVE Walkable
<1>1. NullBehind BY NullIs DEF NullBehind
<1>2. /\ count = Cardinality(DOMAIN forward \ {Head0}) /\ DOMAIN forward \subseteq Keys \cup {Head0}
      /\ Head0 \in DOMAIN forward /\ \A k \in Keys : entry[k] # NotFound <=> k \in DOMAIN forward
  BY DEF ListInv, ListOK
<1>3. ASSUME count > 0 PROVE Held(entry) # {}
  <2>1. Cardinality({}) = 0 BY FS_EmptySet
  <2>2. count # 0 BY SMT, <1>3
  <2>3. DOMAIN forward \ {Head0} # {} BY <1>2, <2>1, <2>2
  <2> QED BY <1>2, <2>3 DEF Held
<1>4. \A n \in Held(entry) \cup {Head0} : n \in DOMAIN forward BY <1>2 DEF Held
<1>5. \A n \in Held(entry) \cup {Head0} : Leads(n) BY <1>4, NextHeld DEF Leads
<1> QED BY <1>1, <1>3, <1>5 DEF Walkable

-------------------------------------------------------------------------------
(* The list and the file together *)

Inv == ListInv /\ \E B : TableInv(B)

\* What a step may do to the list: one insertion, a fresh list, or nothing.
LEMMA ListStep ==
  ASSUME [Next]_vars
  PROVE  (\E k \in Keys, x \in Entries : Insert(k, x)) \/ Reset \/ UNCHANGED listVars
<1>1. ASSUME NEW k \in Keys, NEW x \in Entries, Write(k, x) PROVE Insert(k, x) BY <1>1 DEF Write
<1>2. ASSUME Flush \/ AddRecord \/ Finish \/ WriteRaw \/ WriteFail PROVE UNCHANGED listVars
  BY <1>2 DEF Flush, AddRecord, Finish, WriteRaw, WriteFail, GiveUp
<1>3. ASSUME Open PROVE Reset \/ UNCHANGED listVars BY <1>3 DEF Open, GiveUp
<1>4. ASSUME NEW k \in Keys, Lookup(k) \/ IterSeek(k) PROVE UNCHANGED listVars BY <1>4 DEF Lookup, IterSeek
<1>5. ASSUME NEW i, Evict(i) \/ IterNext \/ Damage(i) PROVE UNCHANGED listVars BY <1>5 DEF Evict, IterNext, Damage
<1>6. ASSUME UNCHANGED vars PROVE UNCHANGED listVars BY <1>6 DEF vars
<1> QED BY <1>1, <1>2, <1>3, <1>4, <1>5, <1>6 DEF Next

\* Every step keeps both invariants.
LEMMA StepInv ==
  ASSUME Inv, [Next]_vars
  PROVE  Inv'
<1>1. ListInv /\ Walkable BY ListWalkable DEF Inv
<1>2. PICK B : TableInv(B) BY DEF Inv
<1>3. \E C : TableInv(C)' BY <1>1, <1>2, FileStep
<1>4. ListInv' BY <1>1, ListStep, InsertStep, ResetStep, ListSame
<1> QED BY <1>3, <1>4 DEF Inv

\* The filter built over the flushed keys passes each of them.
LEMMA AddedPass ==
  ASSUME FilterFits, NEW t, added = Held(t), NEW k \in Keys, t[k] # NotFound
  PROVE  MayContain(FilterOf(added), hash[k])
<1>1. added \in SUBSET Keys /\ k \in added BY DEF Held
<1>2. IsFiniteSet(added) /\ IsFiniteSet(Keys) BY <1>1, KeysAssumption, FS_Subset
<1>3. /\ Cardinality(added) \in Nat /\ Cardinality(Keys) \in Nat
      /\ Cardinality(added) <= Cardinality(Keys)
  BY <1>1, <1>2, KeysAssumption, FS_CardinalityType, FS_Subset
<1>4. Cardinality(added) \in 0 .. Cardinality(Keys) BY SMT, <1>3
<1> QED BY <1>1, <1>3, <1>4, FilterPasses

\* OpenedIsWhole, from the invariant.
LEMMA WholeFollows == FilterFits /\ Inv => OpenedIsWhole
<1> SUFFICES ASSUME FilterFits, Inv, pc # "reading", Opens(file)
             PROVE  LET r == OpenReader(file)
                        held == {k \in Keys : entry[k] # NotFound}
                    IN  /\ r.smallest = Min(held) /\ r.largest = Max(held) /\ r.num_entries = Cardinality(held)
                        /\ \A k \in Keys : LET g == TableGet(r, file, <<>>, k)
                                           IN  g.entry = entry[k] \/ ~g.ok
  BY DEF OpenedIsWhole
<1> DEFINE r == OpenReader(file)
<1>1. PICK B : TableInv(B) /\ NullBehind BY ListWalkable DEF Inv, Walkable
<1>2. pc = "sync" BY <1>1, OpensLate
<1>3. /\ IsList(file) /\ Blocks(index, B, entry) /\ Stored(index, B, file)
      /\ Complete(index, B, entry, added, TheFilter, file) /\ index # <<>>
  BY <1>1, <1>2, SyncState
<1>4. added = Held(entry) /\ \A k \in Held(entry) : InBlock(index, B, k) BY <1>3 DEF Complete
<1>5. PICK off : MetadataAt(file, off, index, TheFilter, Cardinality(added)) BY <1>3 DEF Complete
<1>6. Kept(r, index, B, TheFilter, Cardinality(added)) BY <1>3, <1>5, OpenRight
<1>7. TheFilter[2] = FilterOf(added) BY DEF TheFilter
<1>8. /\ r.index = index /\ r.filter = FilterOf(added) /\ r.num_entries = Cardinality(Held(entry))
      /\ r.smallest = index[1][2] /\ r.largest = B[Len(index)][Len(B[Len(index)])][2]
  BY <1>4, <1>6, <1>7 DEF Kept
<1> HIDE DEF r
<1>9. r.smallest = Min(Held(entry)) /\ r.largest = Max(Held(entry))
  <2>1. index[1][2] = Min(Held(entry)) /\ B[Len(index)][Len(B[Len(index)])][2] = Max(Held(entry))
    BY <1>1, <1>3, <1>4, RangeRight
  <2> QED BY <1>8, <2>1
<1>10. ASSUME NEW k \in Keys
       PROVE  LET g == TableGet(r, file, <<>>, k) IN g.entry = entry[k] \/ ~g.ok
  <2>1. entry[k] # NotFound => InBlock(index, B, k) /\ MayContain(r.filter, hash[k])
    BY <1>4, <1>8, AddedPass DEF Held
  <2>2. DOMAIN <<>> = {} BY SMT
  <2>3. CachedRight(index, B, <<>>) BY <2>2 DEF CachedRight
  <2>4. Answers(TableGet(r, file, <<>>, k), entry[k], file) BY <1>3, <1>8, <2>1, <2>3, GetRight
  <2> QED BY <2>4 DEF Answers
<1> QED BY <1>8, <1>9, <1>10 DEF r, Held

\* LookupRight, from the invariant.
LEMMA LookupFollows == FilterFits /\ Inv => LookupRight
<1> SUFFICES ASSUME FilterFits, Inv, pc = "reading", NEW k \in Keys
             PROVE  LET g == TableGet(reader, file, cached, k)
                    IN  IF g.ok THEN g.entry = table[k] ELSE \E i \in DOMAIN file : file[i] = Bad
  BY DEF LookupRight
<1>1. PICK B : TableInv(B) BY DEF Inv
<1>2. Reading(B) BY <1>1, InPhase
<1>3. /\ IsList(file) /\ Blocks(index, B, table) /\ Stored(index, B, file)
      /\ Complete(index, B, table, added, TheFilter, file)
      /\ reader.index = index /\ reader.filter = FilterOf(added) /\ CachedRight(index, B, cached)
  BY <1>1, <1>2, ReadState
<1>4. added = Held(table) /\ \A j \in Held(table) : InBlock(index, B, j) BY <1>3 DEF Complete
<1>5. table[k] # NotFound => InBlock(index, B, k) /\ MayContain(reader.filter, hash[k])
  BY <1>3, <1>4, AddedPass DEF Held
<1>6. Answers(TableGet(reader, file, cached, k), table[k], file) BY <1>3, <1>5, GetRight
<1> QED BY <1>6 DEF Answers, BadIn

\* The map the list stands for, and how many keys it holds.
LEMMA Mapped == ListInv => [k \in Keys |-> ListGet(k)] = entry
<1> SUFFICES ASSUME ListInv PROVE [k \in Keys |-> ListGet(k)] = entry OBVIOUS
<1>1. entry \in [Keys -> Entries \cup {NotFound}] BY DEF ListInv, ListOK
<1>2. \A k \in Keys : ListGet(k) = entry[k] BY GetIs
<1> QED BY <1>1, <1>2

\* count_ is the number of keys with an entry.
LEMMA Counted == ListInv => count = Cardinality({k \in Keys : entry[k] # NotFound})
<1> SUFFICES ASSUME ListInv PROVE count = Cardinality({k \in Keys : entry[k] # NotFound}) OBVIOUS
<1>1. /\ DOMAIN forward \subseteq Keys \cup {Head0} /\ count = Cardinality(DOMAIN forward \ {Head0})
      /\ \A k \in Keys : entry[k] # NotFound <=> k \in DOMAIN forward
  BY DEF ListInv, ListOK
<1>2. Head0 \notin Keys BY SMT, NullIs DEF Head0
<1>3. {k \in Keys : entry[k] # NotFound} = DOMAIN forward \ {Head0} BY <1>1, <1>2
<1> QED BY <1>1, <1>3

\* Every step is an insertion in the map, a fresh map, or a stutter.
LEMMA MappedStep ==
  ASSUME ListInv, ListInv', [Next]_vars
  PROVE  [MemTable!Next]_<<[k \in Keys |-> ListGet(k)], count>>
<1> DEFINE m == [k \in Keys |-> ListGet(k)]
<1>1. m = entry BY Mapped
<1>2. ListInv' => ([k \in Keys |-> ListGet(k)] = entry)' BY Mapped, PTL
<1>3. ListInv' => (count = Cardinality({k \in Keys : entry[k] # NotFound}))' BY Counted, PTL
<1>4. m' = entry' /\ count' = Cardinality({k \in Keys : entry'[k] # NotFound}) BY <1>2, <1>3
<1> HIDE DEF m
<1>5. ASSUME NEW k \in Keys, NEW x \in Entries, Insert(k, x)
      PROVE  MemTable!Insert(k, x)
  <2>1. entry' = [entry EXCEPT ![k] = x] BY <1>5, InsertStep
  <2>2. m' = [m EXCEPT ![k] = x] BY <1>1, <1>4, <2>1
  <2>3. count' = MemTable!Cardinality({j \in Keys : m'[j] # NotFound})
    BY <1>4 DEF Cardinality, MemTable!Cardinality
  <2> QED BY <2>2, <2>3 DEF m, MemTable!Insert
<1>6. ASSUME Reset PROVE MemTable!Reset
  <2>1. m' = [k \in Keys |-> NotFound] /\ count' = 0 BY <1>4, <1>6 DEF Reset, NoEntries
  <2> QED BY <2>1 DEF m, MemTable!Reset
<1>7. ASSUME UNCHANGED listVars PROVE UNCHANGED <<m, count>>
  <2>1. UNCHANGED <<entry, count>> BY <1>7 DEF listVars
  <2> QED BY <1>1, <1>4, <2>1
<1>8. (\E k \in Keys, x \in Entries : Insert(k, x)) \/ Reset \/ UNCHANGED listVars BY ListStep
<1>9. MemTable!Next \/ UNCHANGED <<m, count>> BY <1>5, <1>6, <1>7, <1>8 DEF MemTable!Next
<1> QED BY <1>9 DEF m

-------------------------------------------------------------------------------
(* The theorems *)

\* Whatever FlushMemTable, the writer, the reader and the faults do: the list is
\* well formed, the blocks hold what was taken from it in order, the index and
\* the footer say where they lie, and the cache and the iterator hold no other
\* data than was written.
THEOREM TableInvariant == Spec => []Inv
<1>1. Init => Inv BY InitInv, FreshList DEF Inv, Init
<1>2. Inv /\ [Next]_vars => Inv' BY StepInv
<1> QED BY <1>1, <1>2, PTL DEF Spec

\* SkipList::Insert keeps every level an ascending list of the nodes that reach
\* it, for every number of levels and every choice of heights.
THEOREM TowersAlwaysLinked == Spec => []TowersLinked
<1>1. Inv => TowersLinked BY DEF Inv, ListInv
<1> QED BY <1>1, TableInvariant, PTL

\* mem_usage_ is the size of the nodes there are after every sequence of
\* insertions, overwrites and tombstones.
THEOREM UsageAlwaysAccounted == Spec => []UsageAccounted
<1>1. Inv => UsageAccounted BY DEF Inv, ListInv
<1> QED BY <1>1, TableInvariant, PTL

\* The skip list is the map MemTableSpec promises: MemTable::Get finds what the
\* last Put or Delete of the key left, and the count is that of the keys.
THEOREM RefinesMemTable == Spec => ImplementsMemTable
<1>1. Init => MemTable!Init
  <2> SUFFICES ASSUME Init PROVE MemTable!Init OBVIOUS
  <2>1. ListInit BY DEF Init
  <2>2. [k \in Keys |-> ListGet(k)] = entry BY <2>1, FreshList, Mapped
  <2>3. entry = [k \in Keys |-> NotFound] /\ count = 0 BY <2>1 DEF ListInit, NoEntries
  <2> QED BY <2>2, <2>3 DEF MemTable!Init
<1>2. Inv => ListInv BY DEF Inv
<1>3. Inv' => ListInv' BY <1>2, PTL
<1>4. Inv /\ Inv' /\ [Next]_vars => [MemTable!Next]_<<[k \in Keys |-> ListGet(k)], count>>
  BY <1>2, <1>3, MappedStep
<1> QED BY <1>1, <1>4, TableInvariant, PTL DEF Spec, ImplementsMemTable, MemTable!Spec

\* SSTableWriter::Finish leaves a file that SSTableReader::Open accepts, unless a
\* fault has come between.
THEOREM FinishedAlwaysOpens == Spec => []FinishedOpens
<1>1. Inv => FinishedOpens BY OpensFollows DEF Inv
<1> QED BY <1>1, TableInvariant, PTL

\* An iterator yields every record at or behind its target in order, whatever is
\* cached or damaged, and ends early only with an error.
THEOREM IterationAlwaysRight == Spec => []IterationRight
<1>1. Inv => IterationRight BY IterationFollows DEF Inv
<1> QED BY <1>1, TableInvariant, PTL

\* A file Open accepts holds the whole memtable, wherever the writer stopped: the
\* lookups, the range and the number of entries are its.  The Bloom filter's bit
\* count must fit the 32 bits it is stored in.
THEOREM OpenedAlwaysWhole == Spec => [](FilterFits => OpenedIsWhole)
BY WholeFollows, TableInvariant, PTL

\* SSTableReader::Get answers what was flushed or reports an error, and reports
\* none for a file that is intact.  The Bloom filter's bit count must fit the 32
\* bits it is stored in.
THEOREM LookupAlwaysRight == Spec => [](FilterFits => LookupRight)
BY LookupFollows, TableInvariant, PTL
===============================================================================
