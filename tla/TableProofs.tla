---------------------------- MODULE TableProofs ------------------------------
(***************************************************************************)
(* The table file for any keys, block size and damage: the invariant of    *)
(* its writer and its reader, that every step keeps it when the list it is *)
(* written from can be walked, and what it says of lookups and iterators.  *)
(***************************************************************************)
EXTENDS SSTable, WellFoundedInduction, TLAPS

\* Zenon proves the leaves; those with arithmetic, tuples or records name SMT.
USE Zenon

-------------------------------------------------------------------------------
(* Least and greatest numbers *)

\* A nonempty set of natural numbers has a least element.
LEMMA LeastNat ==
  ASSUME NEW S \in SUBSET Nat, S # {}
  PROVE  Min(S) \in S /\ \A n \in S : Min(S) <= n
<1> DEFINE R == OpToRel(<, Nat)
<1>1. IsWellFoundedOn(R, Nat) BY NatLessThanWellFounded
<1>2. \A m, n \in Nat : <<n, m>> \in R <=> n < m BY DEF OpToRel
<1> HIDE DEF R
<1>3. PICK m \in S : \A n \in S : <<n, m>> \notin R BY <1>1, WFMin
<1>4. ASSUME NEW n \in S PROVE m <= n
  <2>1. m \in Nat /\ n \in Nat OBVIOUS
  <2>2. ~(n < m) BY <1>2, <1>3, <2>1
  <2> QED BY SMT, <2>1, <2>2
<1> QED BY <1>4 DEF Min

\* A nonempty set of natural numbers below a bound has a greatest element.
LEMMA GreatestNat ==
  ASSUME NEW b \in Nat, NEW S \in SUBSET (0 .. b), S # {}
  PROVE  Max(S) \in S /\ \A n \in S : Max(S) >= n
<1> DEFINE T == {b - n : n \in S}
<1>1. \A n \in S : n \in Nat /\ b - n \in Nat BY SMT
<1>2. T \in SUBSET Nat /\ T # {} BY <1>1
<1>3. Min(T) \in T /\ \A n \in T : Min(T) <= n BY <1>2, LeastNat
<1>4. PICK m \in S : Min(T) = b - m BY <1>3
<1>5. ASSUME NEW n \in S PROVE m >= n
  <2>1. b - m <= b - n BY <1>3, <1>4
  <2> QED BY SMT, <1>1, <2>1
<1> QED BY <1>5 DEF Max

\* Keys are positive numbers.
LEMMA KeyIsNat == \A k \in Keys : k \in Nat /\ 0 < k
BY SMT, KeysAssumption

-------------------------------------------------------------------------------
(* Sequences, whatever their elements *)

\* A sequence, its elements being of no particular set.
IsList(s) == s \in Seq({s[i] : i \in DOMAIN s})

\* Every sequence is one of its own elements.
LEMMA ListFrom ==
  ASSUME NEW S, NEW s \in Seq(S)
  PROVE  IsList(s)
<1> DEFINE R == {s[i] : i \in DOMAIN s}
<1>1. Len(s) \in Nat /\ s \in [1 .. Len(s) -> S] /\ DOMAIN s = 1 .. Len(s) BY SMT
<1>2. s \in [1 .. Len(s) -> R] BY <1>1
<1> HIDE DEF R
<1>3. s \in Seq(R) BY SMT, <1>1, <1>2
<1> QED BY <1>3 DEF IsList, R

\* Length and domain of a sequence; only the empty one has length 0.
LEMMA ListLen ==
  ASSUME NEW s, IsList(s)
  PROVE  Len(s) \in Nat /\ DOMAIN s = 1 .. Len(s) /\ (s = <<>> <=> Len(s) = 0)
<1> DEFINE R == {s[i] : i \in DOMAIN s}
<1>1. s \in Seq(R) BY DEF IsList
<1> HIDE DEF R
<1> QED BY SMT, <1>1

\* Two lists over one set of elements.
LEMMA ListBoth ==
  ASSUME NEW s, IsList(s), NEW t, IsList(t)
  PROVE  \E S : s \in Seq(S) /\ t \in Seq(S)
<1> DEFINE A == {s[i] : i \in DOMAIN s}
           C == {t[i] : i \in DOMAIN t}
<1>1. s \in Seq(A) /\ t \in Seq(C) BY DEF IsList
<1>2. A \subseteq A \cup C /\ C \subseteq A \cup C OBVIOUS
<1> HIDE DEF A, C
<1>3. s \in Seq(A \cup C) /\ t \in Seq(A \cup C) BY SMT, <1>1, <1>2
<1> QED BY <1>3

\* Sequences of one length with the same elements are equal.
LEMMA ListEqual ==
  ASSUME NEW s, IsList(s), NEW t, IsList(t), Len(s) = Len(t), \A i \in 1 .. Len(s) : s[i] = t[i]
  PROVE  s = t
<1>1. PICK S : s \in Seq(S) /\ t \in Seq(S) BY ListBoth
<1> QED BY SMT, <1>1

\* A sequence of one.
LEMMA ListOne ==
  ASSUME NEW x PROVE IsList(<<x>>) /\ Len(<<x>>) = 1 /\ <<x>>[1] = x
<1>1. <<x>> \in Seq({x}) BY SMT
<1>2. Len(<<x>>) = 1 /\ <<x>>[1] = x OBVIOUS
<1> QED BY <1>1, <1>2, ListFrom

\* The empty sequence.
LEMMA ListNone == IsList(<<>>) /\ Len(<<>>) = 0
<1>1. <<>> \in Seq({}) /\ Len(<<>>) = 0 BY SMT
<1> QED BY <1>1, ListFrom

\* u is s with t behind it.
Joined(s, t, u) ==
  /\ IsList(u) /\ Len(u) = Len(s) + Len(t)
  /\ \A i \in 1 .. Len(s) : u[i] = s[i]
  /\ \A i \in 1 .. Len(t) : u[Len(s) + i] = t[i]

\* Concatenation.
LEMMA ListConcat ==
  ASSUME NEW s, IsList(s), NEW t, IsList(t)
  PROVE  Joined(s, t, s \o t)
<1>1. PICK S : s \in Seq(S) /\ t \in Seq(S) BY ListBoth
<1>2. /\ s \o t \in Seq(S) /\ Len(s \o t) = Len(s) + Len(t)
      /\ \A i \in 1 .. Len(s) + Len(t) : (s \o t)[i] = IF i <= Len(s) THEN s[i] ELSE t[i - Len(s)]
  BY SMT, <1>1
<1>3. IsList(s \o t) BY <1>2, ListFrom
<1>4. Len(s) \in Nat /\ Len(t) \in Nat BY ListLen
<1>5. ASSUME NEW i \in 1 .. Len(s) PROVE (s \o t)[i] = s[i]
  <2>1. i \in 1 .. Len(s) + Len(t) /\ i <= Len(s) BY SMT, <1>4
  <2> QED BY <1>2, <2>1
<1>6. ASSUME NEW i \in 1 .. Len(t) PROVE (s \o t)[Len(s) + i] = t[i]
  <2>1. Len(s) + i \in 1 .. Len(s) + Len(t) /\ ~(Len(s) + i <= Len(s)) /\ (Len(s) + i) - Len(s) = i BY SMT, <1>4
  <2> QED BY <1>2, <2>1
<1> QED BY <1>2, <1>3, <1>5, <1>6 DEF Joined

\* u is s with x behind it.
Appended(s, x, u) ==
  IsList(u) /\ Len(u) = Len(s) + 1 /\ (\A i \in 1 .. Len(s) : u[i] = s[i]) /\ u[Len(s) + 1] = x

\* Append.
LEMMA ListAppend ==
  ASSUME NEW s, IsList(s), NEW x
  PROVE  Appended(s, x, Append(s, x))
<1>1. IsList(<<x>>) /\ Len(<<x>>) = 1 /\ <<x>>[1] = x BY ListOne
<1>2. PICK S : s \in Seq(S) /\ <<x>> \in Seq(S) BY <1>1, ListBoth
<1>3. x \in S BY SMT, <1>2
<1>4. Append(s, x) = s \o <<x>> BY SMT, <1>2, <1>3
<1>5. 1 \in 1 .. Len(<<x>>) BY SMT, <1>1
<1> DEFINE one == <<x>>
<1>8. IsList(one) /\ Len(one) = 1 /\ one[1] = x BY <1>1
<1> HIDE DEF one
<1>6. Joined(s, one, s \o one) BY <1>8, ListConcat
<1>7. (s \o one)[Len(s) + 1] = x BY <1>5, <1>6, <1>8 DEF one, Joined
<1>9. Appended(s, x, s \o one) BY <1>6, <1>7, <1>8 DEF Joined, Appended
<1> QED BY <1>4, <1>9 DEF one

\* Moving the head of t to the end of s leaves their concatenation as it was.
LEMMA ListMove ==
  ASSUME NEW s, IsList(s), NEW t, IsList(t), t # <<>>
  PROVE  /\ IsList(Append(s, Head(t))) /\ IsList(Tail(t))
         /\ Append(s, Head(t)) \o Tail(t) = s \o t
         /\ Len(Append(s, Head(t))) = Len(s) + 1
<1>1. PICK S : s \in Seq(S) /\ t \in Seq(S) BY ListBoth
<1>2. Head(t) \in S /\ Tail(t) \in Seq(S) BY SMT, <1>1
<1>3. t = <<Head(t)>> \o Tail(t) BY SMT, <1>1
<1>4. <<Head(t)>> \in Seq(S) BY SMT, <1>2
<1>5. Append(s, Head(t)) = s \o <<Head(t)>> BY SMT, <1>1, <1>2
<1> DEFINE one == <<Head(t)>>
<1>8. one \in Seq(S) BY <1>4
<1> HIDE DEF one
<1>6. (s \o one) \o Tail(t) = s \o (one \o Tail(t)) BY SMT, <1>1, <1>2, <1>8
<1>7. Append(s, Head(t)) \o Tail(t) = s \o t BY <1>3, <1>5, <1>6 DEF one
<1>9. Appended(s, Head(t), Append(s, Head(t))) BY ListAppend
<1>10. IsList(Tail(t)) BY <1>2, ListFrom
<1> QED BY <1>7, <1>9, <1>10 DEF Appended

\* u is s but for its element i.
Changed(s, i, x, u) ==
  IsList(u) /\ Len(u) = Len(s) /\ \A j \in DOMAIN s : u[j] = IF j = i THEN x ELSE s[j]

\* One element replaced.
LEMMA ListExcept ==
  ASSUME NEW s, IsList(s), NEW i \in DOMAIN s, NEW x
  PROVE  Changed(s, i, x, [s EXCEPT ![i] = x])
<1>1. IsList(<<x>>) /\ Len(<<x>>) = 1 /\ <<x>>[1] = x BY ListOne
<1>2. PICK S : s \in Seq(S) /\ <<x>> \in Seq(S) BY <1>1, ListBoth
<1>3. x \in S BY SMT, <1>2
<1>4. DOMAIN s = 1 .. Len(s) BY ListLen
<1>5. [s EXCEPT ![i] = x] \in Seq(S) /\ Len([s EXCEPT ![i] = x]) = Len(s) BY SMT, <1>2, <1>3, <1>4
<1>6. IsList([s EXCEPT ![i] = x]) BY <1>5, ListFrom
<1> QED BY <1>5, <1>6 DEF Changed

\* Concatenation is associative.
Assoc(s, t, u) == (s \o t) \o u = s \o (t \o u)

\* Which it is, of sequences.
LEMMA ListAssoc ==
  ASSUME NEW s, IsList(s), NEW t, IsList(t), NEW u, IsList(u)
  PROVE  Assoc(s, t, u)
<1>1. PICK S : s \in Seq(S) /\ t \in Seq(S) BY ListBoth
<1>2. s \o t \in Seq(S) BY SMT, <1>1
<1>3. IsList(s \o t) BY <1>2, ListFrom
<1>4. PICK R : s \o t \in Seq(R) /\ u \in Seq(R) BY <1>3, ListBoth
<1>5. S \subseteq S \cup R /\ R \subseteq S \cup R OBVIOUS
<1>6. s \in Seq(S \cup R) /\ t \in Seq(S \cup R) /\ u \in Seq(S \cup R) BY SMT, <1>1, <1>4, <1>5
<1> QED BY SMT, <1>6 DEF Assoc

\* Nothing behind a sequence.
LEMMA ListNil ==
  ASSUME NEW s, IsList(s)
  PROVE  s \o <<>> = s
<1>1. s \in Seq({s[i] : i \in DOMAIN s}) BY DEF IsList
<1> QED BY SMT, <1>1

\* The units of a region of a file.
LEMMA ListRegion ==
  ASSUME NEW f, NEW off \in Nat, NEW len \in Nat
  PROVE  /\ IsList(Region(f, off, len)) /\ Len(Region(f, off, len)) = len
         /\ \A p \in 1 .. len : Region(f, off, len)[p] = f[off + p]
<1> DEFINE m == off + 1
           n == off + len
           S == {f[i] : i \in m .. n}
           r == SubSeq(f, m, n)
<1>1. \A i \in m .. n : f[i] \in S OBVIOUS
<1>2. m \in Int /\ n \in Int BY SMT
<1> HIDE DEF S, m, n
<1>3. /\ r \in Seq(S)
      /\ Len(r) = IF m <= n THEN n - m + 1 ELSE 0
      /\ \A i \in 1 .. n - m + 1 : r[i] = f[m + i - 1]
  BY SMT, <1>1, <1>2
<1> HIDE DEF r
<1>4. IsList(r) BY <1>3, ListFrom
<1>5. Len(r) = len BY SMT, <1>3 DEF m, n
<1>6. ASSUME NEW p \in 1 .. len PROVE r[p] = f[off + p]
  <2>1. p \in 1 .. n - m + 1 /\ m + p - 1 = off + p BY SMT DEF m, n
  <2> QED BY <1>3, <2>1
<1> QED BY <1>4, <1>5, <1>6 DEF r, m, n, Region

-------------------------------------------------------------------------------
(* Units *)

\* No unit is taken for another, and checksums do not collide.
LEMMA UnitsDiffer ==
  /\ Magic # Bad
  /\ \A s : Crc32(s) # Bad /\ Crc32(s) # Magic
  /\ \A s, t : Crc32(s) = Crc32(t) => s = t
  /\ \A k, x : /\ Rec(k, x) # Bad /\ Rec(k, x) # Magic
               /\ Rec(k, x)[2] = k /\ Rec(k, x)[3] = x
<1>1. ASSUME NEW s PROVE Crc32(s)[1] = "crc" /\ Crc32(s)[2] = s BY DEF Crc32
<1>2. ASSUME NEW k, NEW x
      PROVE  Rec(k, x)[1] = "record" /\ Rec(k, x)[2] = k /\ Rec(k, x)[3] = x
  BY DEF Rec
<1>3. Magic[1] = "magic" /\ Bad[1] = "damaged" BY DEF Magic, Bad
<1>4. "magic" # "damaged" /\ "crc" # "damaged" /\ "crc" # "magic" /\ "record" # "damaged"
      /\ "record" # "magic"
  OBVIOUS
<1>5. Magic # Bad BY <1>3, <1>4
<1>6. ASSUME NEW s PROVE Crc32(s) # Bad /\ Crc32(s) # Magic BY <1>1, <1>3, <1>4
<1>7. ASSUME NEW s, NEW t, Crc32(s) = Crc32(t) PROVE s = t BY SMT, <1>1, <1>7
<1>8. ASSUME NEW k, NEW x PROVE Rec(k, x) # Bad /\ Rec(k, x) # Magic BY SMT, <1>2, <1>3, <1>4
<1> QED BY <1>2, <1>5, <1>6, <1>7, <1>8

\* A run of units b lies at an offset, its checksum behind it, but for damage.
Lies(f, off, b) ==
  /\ off + Len(b) + 1 <= Len(f)
  /\ \A p \in DOMAIN b : f[off + p] \in {b[p], Bad}
  /\ f[off + Len(b) + 1] \in {Crc32(b), Bad}

\* The checksum tells: what is read with a matching one is what was written, and
\* one that does not match is due to damage.
LEMMA ChecksumTells ==
  ASSUME NEW f, IsList(f), NEW off \in Nat, NEW b, IsList(b), Lies(f, off, b)
  PROVE  /\ Intact(f, off, Len(b)) => Region(f, off, Len(b)) = b
         /\ ~Intact(f, off, Len(b)) => \E i \in DOMAIN f : f[i] = Bad
<1> DEFINE n == Len(b)
           r == Region(f, off, n)
<1>1. n \in Nat /\ DOMAIN b = 1 .. n BY ListLen
<1>2. IsList(r) /\ Len(r) = n /\ \A p \in 1 .. n : r[p] = f[off + p] BY <1>1, ListRegion
<1>3. Len(f) \in Nat /\ DOMAIN f = 1 .. Len(f) BY ListLen
<1>4. /\ off + n + 1 <= Len(f) /\ f[off + n + 1] \in {Crc32(b), Bad}
      /\ \A p \in 1 .. n : f[off + p] \in {b[p], Bad}
  BY <1>1 DEF Lies
<1>5. Intact(f, off, n) <=> f[off + n + 1] = Crc32(r) BY <1>4 DEF Intact
<1> HIDE DEF n, r
<1>6. ASSUME f[off + n + 1] = Crc32(r) PROVE r = b BY <1>4, <1>6, UnitsDiffer
<1>7. ASSUME \A i \in DOMAIN f : f[i] # Bad PROVE f[off + n + 1] = Crc32(r)
  <2>1. off + n + 1 \in DOMAIN f /\ \A p \in 1 .. n : off + p \in DOMAIN f BY SMT, <1>1, <1>3, <1>4
  <2>2. f[off + n + 1] = Crc32(b) BY <1>4, <1>7, <2>1
  <2>3. \A p \in 1 .. n : r[p] = b[p] BY <1>2, <1>4, <1>7, <2>1
  <2>4. Len(b) = n BY DEF n
  <2>5. r = b BY <1>2, <2>3, <2>4, ListEqual
  <2> QED BY <2>2, <2>5
<1> QED BY <1>5, <1>6, <1>7 DEF n, r

\* Damage leaves a run where it was, and a longer file does too.
LEMMA LiesDamaged ==
  ASSUME NEW f, IsList(f), NEW off \in Nat, NEW b, IsList(b), Lies(f, off, b), NEW i \in DOMAIN f
  PROVE  Lies([f EXCEPT ![i] = Bad], off, b)
<1> DEFINE g == [f EXCEPT ![i] = Bad]
<1>1. Len(b) \in Nat /\ DOMAIN b = 1 .. Len(b) /\ Len(f) \in Nat /\ DOMAIN f = 1 .. Len(f) BY ListLen
<1>2. Len(g) = Len(f) /\ \A j \in DOMAIN f : g[j] \in {f[j], Bad}
  <2>1. Changed(f, i, Bad, g) BY ListExcept
  <2> HIDE DEF g
  <2> QED BY <2>1 DEF Changed
<1> HIDE DEF g
<1>3. off + Len(b) + 1 \in DOMAIN f /\ \A p \in DOMAIN b : off + p \in DOMAIN f BY SMT, <1>1 DEF Lies
<1>4. g[off + Len(b) + 1] \in {Crc32(b), Bad} BY <1>2, <1>3 DEF Lies
<1>5. ASSUME NEW p \in DOMAIN b PROVE g[off + p] \in {b[p], Bad} BY <1>2, <1>3 DEF Lies
<1>6. off + Len(b) + 1 <= Len(g) BY <1>2 DEF Lies
<1>7. Lies(g, off, b) BY <1>4, <1>5, <1>6 DEF Lies
<1> QED BY <1>7 DEF g

\* A run of units stays where it lies when the file grows.
LEMMA LiesLonger ==
  ASSUME NEW f, IsList(f), NEW off \in Nat, NEW b, IsList(b), Lies(f, off, b), NEW s, IsList(s)
  PROVE  Lies(f \o s, off, b)
<1> DEFINE g == f \o s
<1>1. Len(b) \in Nat /\ DOMAIN b = 1 .. Len(b) /\ Len(f) \in Nat /\ DOMAIN f = 1 .. Len(f) /\ Len(s) \in Nat
  BY ListLen
<1>2. Joined(f, s, g) BY ListConcat
<1> HIDE DEF g
<1>3. Len(g) = Len(f) + Len(s) /\ \A j \in 1 .. Len(f) : g[j] = f[j] BY <1>2 DEF Joined
<1>4. off + Len(b) + 1 \in 1 .. Len(f) /\ \A p \in DOMAIN b : off + p \in 1 .. Len(f) BY SMT, <1>1 DEF Lies
<1>5. g[off + Len(b) + 1] \in {Crc32(b), Bad} BY <1>3, <1>4 DEF Lies
<1>6. ASSUME NEW p \in DOMAIN b PROVE g[off + p] \in {b[p], Bad} BY <1>3, <1>4 DEF Lies
<1>7. off + Len(b) + 1 <= Len(g) BY SMT, <1>1, <1>3 DEF Lies
<1>8. Lies(g, off, b) BY <1>5, <1>6, <1>7 DEF Lies
<1> QED BY <1>8 DEF g

-------------------------------------------------------------------------------
(* Blocks *)

\* The keys with an entry.
Held(t) == {k \in Keys : t[k] # NotFound}

\* The blocks B that the index idx names hold records of t, in ascending order.
Blocks(idx, B, t) ==
  /\ IsList(idx)
  /\ \A i \in DOMAIN idx :
       /\ idx[i][3] \in Nat /\ idx[i][4] \in Nat \ {0}
       /\ idx[i] # Magic /\ idx[i] # Bad
       /\ IsList(B[i]) /\ Len(B[i]) = idx[i][4] /\ B[i][1][2] = idx[i][2]
       /\ \A p \in DOMAIN B[i] : \E k \in Held(t) : B[i][p] = Rec(k, t[k])
       /\ \A p, q \in DOMAIN B[i] : p < q => B[i][p][2] < B[i][q][2]
       /\ \A j \in DOMAIN idx, p \in DOMAIN B[i] : i < j => B[i][p][2] < idx[j][2]

\* Some block holds the record of k.
InBlock(idx, B, k) == \E i \in DOMAIN idx : \E p \in DOMAIN B[i] : B[i][p][2] = k

\* Block i is not empty, and has the length and the first key the index says.
BlockShape(idx, B, i) ==
  /\ Len(idx) \in Nat /\ DOMAIN idx = 1 .. Len(idx) /\ i \in Nat
  /\ IsList(B[i]) /\ Len(B[i]) = idx[i][4] /\ Len(B[i]) \in Nat
  /\ DOMAIN B[i] = 1 .. Len(B[i]) /\ 1 \in DOMAIN B[i] /\ Len(B[i]) \in DOMAIN B[i]
  /\ B[i][1][2] = idx[i][2]

\* What the index says of a block.
LEMMA BlockFacts ==
  ASSUME NEW idx, NEW B, NEW t, Blocks(idx, B, t), NEW i \in DOMAIN idx
  PROVE  BlockShape(idx, B, i)
<1>1. Len(idx) \in Nat /\ DOMAIN idx = 1 .. Len(idx) BY ListLen DEF Blocks
<1>2. i \in Nat BY SMT, <1>1
<1>3. IsList(B[i]) /\ Len(B[i]) = idx[i][4] /\ idx[i][4] \in Nat \ {0} /\ B[i][1][2] = idx[i][2] BY DEF Blocks
<1>4. DOMAIN B[i] = 1 .. Len(B[i]) BY <1>3, ListLen
<1>5. Len(B[i]) \in Nat /\ 1 \in 1 .. Len(B[i]) /\ Len(B[i]) \in 1 .. Len(B[i]) BY SMT, <1>3
<1> QED BY <1>1, <1>2, <1>3, <1>4, <1>5 DEF BlockShape

\* Record p of block i is the one of its key.
RecordShape(B, t, i, p) ==
  /\ B[i][p][2] \in Held(t) /\ B[i][p][2] \in Nat /\ 0 < B[i][p][2] /\ B[i][p][2] \in Keys
  /\ B[i][p][3] = t[B[i][p][2]] /\ B[i][p][3] # NotFound
  /\ B[i][p] = Rec(B[i][p][2], t[B[i][p][2]])
  /\ p \in Nat /\ i \in Nat

\* A record of a block.
LEMMA RecordAt ==
  ASSUME NEW idx, NEW B, NEW t, Blocks(idx, B, t), NEW i \in DOMAIN idx, NEW p \in DOMAIN B[i]
  PROVE  RecordShape(B, t, i, p)
<1>1. PICK k \in Held(t) : B[i][p] = Rec(k, t[k]) BY DEF Blocks
<1>2. B[i][p][2] = k /\ B[i][p][3] = t[k] BY SMT, <1>1, UnitsDiffer
<1>3. k \in Keys /\ t[k] # NotFound BY DEF Held
<1>4. k \in Nat /\ 0 < k BY <1>3, KeyIsNat
<1>7. BlockShape(idx, B, i) BY BlockFacts
<1>5. DOMAIN B[i] = 1 .. Len(B[i]) /\ Len(B[i]) \in Nat /\ i \in Nat BY <1>7 DEF BlockShape
<1>6. p \in Nat BY SMT, <1>5
<1> QED BY <1>1, <1>2, <1>3, <1>4, <1>5, <1>6 DEF RecordShape

\* The index holds the least key of a block.
LEMMA FirstLeast ==
  ASSUME NEW idx, NEW B, NEW t, Blocks(idx, B, t), NEW i \in DOMAIN idx, NEW p \in DOMAIN B[i]
  PROVE  idx[i][2] <= B[i][p][2] /\ idx[i][2] \in Nat
<1>1. BlockShape(idx, B, i) BY BlockFacts
<1>2. 1 \in DOMAIN B[i] /\ B[i][1][2] = idx[i][2] BY <1>1 DEF BlockShape
<1>3. B[i][p][2] \in Nat /\ B[i][1][2] \in Nat /\ p \in Nat BY <1>2, RecordAt DEF RecordShape
<1>4. DOMAIN B[i] = 1 .. Len(B[i]) /\ Len(B[i]) \in Nat BY <1>1 DEF BlockShape
<1>5. p = 1 \/ 1 < p BY SMT, <1>4
<1>6. 1 < p => B[i][1][2] < B[i][p][2] BY <1>2 DEF Blocks
<1> QED BY SMT, <1>2, <1>3, <1>5, <1>6

\* Position p of block i comes before position q of block j.
Sooner(i, p, j, q) == i < j \/ (i = j /\ p < q)

\* The keys ascend from position to position and from block to block.
LEMMA KeyOrder ==
  ASSUME NEW idx, NEW B, NEW t, Blocks(idx, B, t),
         NEW i \in DOMAIN idx, NEW p \in DOMAIN B[i], NEW j \in DOMAIN idx, NEW q \in DOMAIN B[j]
  PROVE  B[i][p][2] < B[j][q][2] <=> Sooner(i, p, j, q)
<1> DEFINE a == B[i][p][2]
           b == B[j][q][2]
<1>1. a \in Nat /\ b \in Nat /\ i \in Nat /\ j \in Nat /\ p \in Nat /\ q \in Nat BY RecordAt DEF RecordShape
<1>2. idx[i][2] <= a /\ idx[i][2] \in Nat BY FirstLeast
<1>3. idx[j][2] <= b /\ idx[j][2] \in Nat BY FirstLeast
<1>4. (i < j => a < idx[j][2]) /\ (j < i => b < idx[i][2]) BY DEF Blocks
<1>5. ASSUME i = j PROVE (p < q => a < b) /\ (q < p => b < a) /\ (p = q => a = b) BY <1>5 DEF Blocks
<1> HIDE DEF a, b
<1>6. a < b <=> Sooner(i, p, j, q) BY SMT, <1>1, <1>2, <1>3, <1>4, <1>5 DEF Sooner
<1> QED BY <1>6 DEF a, b

\* A key is at one place.
LEMMA KeyPlace ==
  ASSUME NEW idx, NEW B, NEW t, Blocks(idx, B, t),
         NEW i \in DOMAIN idx, NEW p \in DOMAIN B[i], NEW j \in DOMAIN idx, NEW q \in DOMAIN B[j],
         B[i][p][2] = B[j][q][2]
  PROVE  i = j /\ p = q
<1>1. ~(B[i][p][2] < B[j][q][2]) /\ ~(B[j][q][2] < B[i][p][2])
  <2>1. B[i][p][2] \in Nat /\ B[j][q][2] \in Nat BY RecordAt DEF RecordShape
  <2> QED BY SMT, <2>1
<1>2. i \in Nat /\ j \in Nat /\ p \in Nat /\ q \in Nat BY RecordAt DEF RecordShape
<1>3. ~Sooner(i, p, j, q) BY <1>1, KeyOrder
<1>4. ~Sooner(j, q, i, p) BY <1>1, KeyOrder
<1> QED BY SMT, <1>2, <1>3, <1>4 DEF Sooner

-------------------------------------------------------------------------------
(* Lookups *)

\* No other block than i holds the record of k.
OnlyIn(idx, B, k, i) == \A j \in DOMAIN idx : \A q \in DOMAIN B[j] : B[j][q][2] = k => j = i

\* A search in the index finds the only block that may hold a key.
LEMMA BlockForRight ==
  ASSUME NEW idx, NEW B, NEW t, Blocks(idx, B, t), NEW r, r.index = idx, NEW k \in Keys
  PROVE  /\ BlockFor(r, k) = {} => ~InBlock(idx, B, k)
         /\ BlockFor(r, k) # {} =>
              /\ Max(BlockFor(r, k)) \in DOMAIN idx /\ idx[Max(BlockFor(r, k))][2] <= k
              /\ \A j \in DOMAIN idx : Max(BlockFor(r, k)) < j => ~(idx[j][2] <= k)
              /\ OnlyIn(idx, B, k, Max(BlockFor(r, k)))
<1> DEFINE S == BlockFor(r, k)
           m == Max(S)
<1>1. \A j : j \in S <=> j \in DOMAIN idx /\ idx[j][2] <= k BY DEF BlockFor
<1>2. Len(idx) \in Nat /\ DOMAIN idx = 1 .. Len(idx) BY ListLen DEF Blocks
<1>3. k \in Nat BY KeyIsNat
<1>4. ASSUME NEW j \in DOMAIN idx, NEW q \in DOMAIN B[j], B[j][q][2] = k PROVE j \in S
  <2>1. idx[j][2] <= B[j][q][2] BY FirstLeast
  <2> QED BY <1>1, <1>4, <2>1
<1>5. ASSUME S # {}
      PROVE  /\ m \in DOMAIN idx /\ idx[m][2] <= k
             /\ \A j \in DOMAIN idx : m < j => ~(idx[j][2] <= k)
             /\ OnlyIn(idx, B, k, m)
  <2> HIDE DEF S
  <2>1. S \in SUBSET (0 .. Len(idx)) BY SMT, <1>1, <1>2
  <2>2. m \in S /\ \A j \in S : m >= j BY <1>2, <1>5, <2>1, GreatestNat
  <2> HIDE DEF m
  <2>3. m \in DOMAIN idx /\ idx[m][2] <= k BY <1>1, <2>2
  <2>4. ASSUME NEW j \in DOMAIN idx, m < j, idx[j][2] <= k PROVE FALSE
    <3>1. m >= j BY <1>1, <2>2, <2>4
    <3> QED BY SMT, <1>2, <2>3, <2>4, <3>1
  <2>5. ASSUME NEW j \in DOMAIN idx, NEW q \in DOMAIN B[j], B[j][q][2] = k PROVE j = m
    <3>1. j \in S /\ m >= j BY <1>4, <2>2, <2>5
    <3>2. j < m => B[j][q][2] < idx[m][2] BY <2>3 DEF Blocks
    <3>3. idx[m][2] \in Nat
      <4>1. BlockShape(idx, B, m) BY <2>3, BlockFacts
      <4>2. 1 \in DOMAIN B[m] /\ B[m][1][2] = idx[m][2] BY <4>1 DEF BlockShape
      <4>3. RecordShape(B, t, m, 1) BY <2>3, <4>2, RecordAt
      <4> QED BY <4>2, <4>3 DEF RecordShape
    <3> QED BY SMT, <1>2, <1>3, <2>3, <2>5, <3>1, <3>2, <3>3
  <2> QED BY <2>3, <2>4, <2>5 DEF OnlyIn
<1>6. S = {} => ~InBlock(idx, B, k) BY <1>4 DEF InBlock
<1> HIDE DEF S
<1> QED BY <1>5, <1>6 DEF S

\* The scan of that block finds the entry of the key, or that there is none.
LEMMA ScanRight ==
  ASSUME NEW idx, NEW B, NEW t, Blocks(idx, B, t), NEW i \in DOMAIN idx, NEW k \in Keys,
         OnlyIn(idx, B, k, i),
         t[k] # NotFound => InBlock(idx, B, k)
  PROVE  ScanBlock(B[i], k) = t[k]
<1> DEFINE b == B[i]
           at == {p \in DOMAIN b : b[p][2] >= k}
           m == Min(at)
<1>1. ScanBlock(b, k) = IF at # {} /\ b[m][2] = k THEN b[m][3] ELSE NotFound BY DEF ScanBlock
<1>2. BlockShape(idx, B, i) BY BlockFacts
<1>3. DOMAIN b = 1 .. Len(b) /\ Len(b) \in Nat BY <1>2 DEF BlockShape
<1>4. k \in Nat BY KeyIsNat
<1>5. at \in SUBSET Nat BY SMT, <1>3
<1>6. ASSUME at # {} PROVE m \in at /\ \A p \in at : m <= p
  <2> HIDE DEF at
  <2> QED BY <1>5, <1>6, LeastNat
<1>7. ASSUME NEW p \in DOMAIN b PROVE b[p][2] \in Nat /\ b[p][3] = t[b[p][2]] /\ t[b[p][2]] # NotFound
  <2>1. RecordShape(B, t, i, p) BY RecordAt
  <2> QED BY <2>1 DEF RecordShape
<1>8. CASE \E p \in DOMAIN b : b[p][2] = k
  <2>1. PICK p \in DOMAIN b : b[p][2] = k BY <1>8
  <2>2. k >= k BY SMT, <1>4
  <2>3. p \in at BY <2>1, <2>2
  <2>4. m \in at /\ m <= p BY <1>6, <2>3
  <2>5. m \in DOMAIN b /\ b[m][2] >= k BY <2>4
  <2>6. m < p => b[m][2] < b[p][2] BY <2>1, <2>5 DEF Blocks
  <2>7. b[m][2] \in Nat BY <1>7, <2>5
  <2> HIDE DEF m, b, at
  <2>8. m = p BY SMT, <1>3, <1>4, <2>1, <2>4, <2>5, <2>6, <2>7
  <2>9. ScanBlock(b, k) = b[p][3] BY <1>1, <2>1, <2>3, <2>8
  <2>10. ScanBlock(b, k) = t[k] BY <1>7, <2>1, <2>9
  <2> QED BY <2>10 DEF b
<1>9. CASE ~\E p \in DOMAIN b : b[p][2] = k
  <2>1. t[k] = NotFound BY <1>9 DEF InBlock, OnlyIn
  <2>2. ~(at # {} /\ b[m][2] = k)
    <3>1. at # {} => m \in DOMAIN b BY <1>6
    <3> HIDE DEF at, m, b
    <3> QED BY <1>9, <3>1
  <2> HIDE DEF at, m, b
  <2>3. ScanBlock(b, k) = NotFound BY <1>1, <2>2
  <2> QED BY <2>1, <2>3 DEF b
<1> QED BY <1>8, <1>9

\* The serialized bit count of a filter over some of the keys does not wrap.
FilterFits == \A n \in 0 .. Cardinality(Keys) : BitCount(n) < CountMod

\* The filter SSTableWriter builds over the keys A.
FilterOf(A) == BuildFilter({hash[k] : k \in A}, Cardinality(A))

\* Then the filter rules out no key it was built from.
LEMMA FilterPasses ==
  ASSUME FilterFits, NEW A, Cardinality(A) \in 0 .. Cardinality(Keys), Cardinality(Keys) \in Nat, NEW k \in A
  PROVE  MayContain(FilterOf(A), hash[k])
<1> DEFINE n == Cardinality(A)
           bits == BitCount(n)
           pr == ProbesForBitsPerKey
           hs == {hash[j] : j \in A}
<1>2. n \in Nat BY SMT
<1>3. n \in 0 .. Cardinality(Keys) OBVIOUS
<1>4. bits < CountMod BY <1>3 DEF FilterFits
<1>5. bits \in Nat
  <2> DEFINE m == n * BitsPerKey
  <2>1. m \in Nat BY SMT, <1>2, BitsAssumption
  <2>2. bits = (((IF m < 64 THEN 64 ELSE m) + 7) \div 8) * 8 BY DEF BitCount
  <2> HIDE DEF m, bits, n
  <2> QED BY SMT, <2>1, <2>2
<1> HIDE DEF n, bits, pr
<1>6. bits % CountMod = bits BY SMT, <1>4, <1>5, BitsAssumption
<1>7. FilterOf(A) = [num_bits |-> bits, probes |-> pr, set |-> UNION {Probes(h, pr, bits) : h \in hs}]
  BY <1>6 DEF FilterOf, BuildFilter, bits, n, pr
<1>8. hash[k] \in hs OBVIOUS
<1> HIDE DEF hs
<1>9. Probes(hash[k], pr, bits) \subseteq UNION {Probes(h, pr, bits) : h \in hs} BY <1>8
<1>10. /\ FilterOf(A).num_bits = bits /\ FilterOf(A).probes = pr
       /\ FilterOf(A).set = UNION {Probes(h, pr, bits) : h \in hs}
  BY SMT, <1>7
<1> QED BY <1>9, <1>10 DEF MayContain

\* The blocks lie where the index says, but for damage.
Stored(idx, B, f) == \A i \in DOMAIN idx : Lies(f, idx[i][3], B[i])

\* ReadBlock yields the block that was written, or an error when there is damage.
BadIn(f) == \E u \in DOMAIN f : f[u] = Bad
Yields(r, f, i, b) == IF BlockOK(r, f, i) THEN BlockOf(r, f, i) = b ELSE BadIn(f)

\* ReadBlock yields the block the writer noted in the index.
LEMMA BlockReads ==
  ASSUME NEW idx, NEW B, NEW t, Blocks(idx, B, t), NEW f, IsList(f), Stored(idx, B, f),
         NEW r, r.index = idx, NEW i \in DOMAIN idx
  PROVE  Yields(r, f, i, B[i])
<1>1. IsList(B[i]) /\ Len(B[i]) = idx[i][4] /\ idx[i][3] \in Nat BY DEF Blocks
<1>2. Lies(f, idx[i][3], B[i]) BY DEF Stored
<1>3. /\ Intact(f, idx[i][3], Len(B[i])) => Region(f, idx[i][3], Len(B[i])) = B[i]
      /\ ~Intact(f, idx[i][3], Len(B[i])) => \E u \in DOMAIN f : f[u] = Bad
  BY <1>1, <1>2, ChecksumTells
<1> QED BY <1>1, <1>3 DEF BlockOK, BlockOf, Yields, BadIn

\* A cached block is what was written.
CachedRight(idx, B, c) == \A i \in DOMAIN idx : i \in DOMAIN c => c[i] = B[i]

\* A lookup finds x, or the file is damaged.
Answers(g, x, f) == IF g.ok THEN g.entry = x ELSE BadIn(f)

\* SSTableReader::Get answers t[k], whatever is damaged and whichever blocks are
\* cached, when the blocks hold k and the filter lets it through.
LEMMA GetRight ==
  ASSUME NEW idx, NEW B, NEW t, Blocks(idx, B, t), NEW f, IsList(f), Stored(idx, B, f),
         NEW r, r.index = idx, NEW c, CachedRight(idx, B, c), NEW k \in Keys,
         t[k] # NotFound => InBlock(idx, B, k) /\ MayContain(r.filter, hash[k])
  PROVE  Answers(TableGet(r, f, c, k), t[k], f)
<1> DEFINE g == TableGet(r, f, c, k)
           i == Max(BlockFor(r, k))
           none == r.index = <<>> \/ ~MayContain(r.filter, hash[k]) \/ BlockFor(r, k) = {}
<1>1. g = IF none THEN [entry |-> NotFound, ok |-> TRUE]
          ELSE IF i \in DOMAIN c THEN [entry |-> ScanBlock(c[i], k), ok |-> TRUE]
          ELSE IF BlockOK(r, f, i) THEN [entry |-> ScanBlock(BlockOf(r, f, i), k), ok |-> TRUE]
          ELSE [entry |-> NotFound, ok |-> FALSE]
  BY DEF TableGet
<1>2. CASE none
  <2>1. r.index = <<>> => ~InBlock(idx, B, k)
    <3>1. idx = <<>> => DOMAIN idx = {} BY SMT
    <3> QED BY <3>1 DEF InBlock
  <2>2. BlockFor(r, k) = {} => ~InBlock(idx, B, k) BY BlockForRight
  <2>3. t[k] = NotFound BY <1>2, <2>1, <2>2
  <2>4. g = [entry |-> NotFound, ok |-> TRUE] BY <1>1, <1>2
  <2> HIDE DEF g
  <2>5. IF g.ok THEN g.entry = t[k] ELSE BadIn(f) BY <2>3, <2>4
  <2> QED BY <2>5 DEF g, Answers
<1>3. CASE ~none
  <2>1. i \in DOMAIN idx /\ OnlyIn(idx, B, k, i)
    BY <1>3, BlockForRight
  <2> HIDE DEF i, none
  <2>2. t[k] # NotFound => InBlock(idx, B, k) OBVIOUS
  <2>3. ScanBlock(B[i], k) = t[k] BY SMT, <2>1, <2>2, ScanRight
  <2>4. Yields(r, f, i, B[i]) BY <2>1, BlockReads
  <2>5. IF BlockOK(r, f, i) THEN BlockOf(r, f, i) = B[i] ELSE BadIn(f) BY <2>4 DEF Yields
  <2>6. \/ g = [entry |-> t[k], ok |-> TRUE]
        \/ g = [entry |-> NotFound, ok |-> FALSE] /\ BadIn(f)
    BY <1>1, <1>3, <2>1, <2>3, <2>5 DEF CachedRight
  <2> HIDE DEF g
  <2>7. IF g.ok THEN g.entry = t[k] ELSE BadIn(f) BY SMT, <2>6
  <2> QED BY <2>7 DEF g, Answers
<1> QED BY <1>2, <1>3

-------------------------------------------------------------------------------
(* Iteration *)

\* The fields of an iterator.
IsIter(s) ==
  s = [blk |-> s.blk, pos |-> s.pos, block |-> s.block, valid |-> s.valid, ok |-> s.ok, rec |-> s.rec]

\* An iterator that stands in block i before position p, unless the block could
\* not be read.
Stands(s, B, i, p) ==
  IsIter(s) /\ s.blk = i /\ s.pos = p /\ s.ok \in BOOLEAN /\ (s.ok => s.block = B[i])

\* LoadBlock puts the iterator before the first record of a block.
LEMMA LoadIs ==
  ASSUME NEW idx, NEW B, NEW t, Blocks(idx, B, t), IsList(file), Stored(idx, B, file),
         reader.index = idx, NEW st, IsIter(st), NEW i \in DOMAIN idx
  PROVE  Stands(LoadBlock(st, i), B, i, 1)
<1> DEFINE good == BlockOK(reader, file, i)
           b == BlockOf(reader, file, i)
<1>1. Yields(reader, file, i, B[i]) BY BlockReads
<1>2. good => b = B[i] BY <1>1 DEF Yields
<1>3. good \in BOOLEAN BY DEF BlockOK, Intact
<1>4. LoadBlock(st, i) = [st EXCEPT !.blk = i, !.pos = 1, !.ok = good, !.block = IF good THEN b ELSE @]
  BY DEF LoadBlock
<1> HIDE DEF good, b
<1>5. LoadBlock(st, i) = [blk |-> i, pos |-> 1, block |-> IF good THEN b ELSE st.block, valid |-> st.valid,
                          ok |-> good, rec |-> st.rec]
  BY <1>4 DEF IsIter
<1> QED BY SMT, <1>2, <1>3, <1>5 DEF Stands, IsIter

\* The iterator when it gets to a block: where it was, or before its first record.
LEMMA AtBlockIs ==
  ASSUME NEW idx, NEW B, NEW t, Blocks(idx, B, t), IsList(file), Stored(idx, B, file),
         reader.index = idx, NEW st, NEW i, NEW p, Stands(st, B, i, p), NEW j \in DOMAIN idx
  PROVE  Stands(AtBlock(st, j), B, j, IF j = i THEN p ELSE 1)
<1>1. IsIter(st) /\ st.blk = i BY DEF Stands
<1>2. CASE j = i
  <2>1. AtBlock(st, j) = st BY <1>1, <1>2 DEF AtBlock
  <2> QED BY <1>2, <2>1
<1>3. CASE j # i
  <2>1. AtBlock(st, j) = LoadBlock(st, j) BY <1>1, <1>3 DEF AtBlock
  <2>2. Stands(LoadBlock(st, j), B, j, 1) BY <1>1, LoadIs
  <2> QED BY <1>3, <2>1, <2>2
<1> QED BY <1>2, <1>3

\* The keys of W are those at or behind k that come at or behind a place.
Wanted(idx, B, W, k, i, p) ==
  \A j \in DOMAIN idx : \A q \in DOMAIN B[j] :
    B[j][q][2] \in W <=> B[j][q][2] >= k /\ (i < j \/ (j = i /\ p <= q))

\* An iterator that is valid is behind a record of its block.
Yielded(idx, B, s) ==
  /\ IsIter(s) /\ s.ok = TRUE /\ s.blk \in DOMAIN idx /\ s.block = B[s.blk]
  /\ s.pos \in Nat /\ s.pos - 1 \in DOMAIN s.block /\ s.rec = s.block[s.pos - 1]

\* The iterator yielded the least key of W, met an error or found W empty.
Parsed(idx, B, W, s) ==
  \/ /\ s.valid = TRUE /\ Yielded(idx, B, s) /\ s.rec[2] \in W
     /\ \A j \in DOMAIN idx : \A q \in DOMAIN B[j] : B[j][q][2] \in W => s.rec[2] <= B[j][q][2]
  \/ IsIter(s) /\ s.valid = FALSE /\ s.ok = FALSE
  \/ /\ IsIter(s) /\ s.valid = FALSE
     /\ \A j \in DOMAIN idx : \A q \in DOMAIN B[j] : B[j][q][2] \notin W

\* The records before an iterator in a block are those it is wanted for.
AheadFits(B, W, s, k, j) ==
  /\ s.block = B[j] /\ Ahead(s, k) \in SUBSET Nat
  /\ \A q : q \in Ahead(s, k) <=> q \in DOMAIN B[j] /\ B[j][q][2] \in W

\* The records before an iterator are the wanted ones of its block.
LEMMA AheadIs ==
  ASSUME NEW idx, NEW B, NEW t, Blocks(idx, B, t), NEW W, NEW k \in Nat, NEW i \in DOMAIN idx,
         NEW p \in Nat \ {0}, Wanted(idx, B, W, k, i, p), NEW j \in DOMAIN idx, i <= j,
         NEW s, Stands(s, B, j, IF j = i THEN p ELSE 1), s.ok
  PROVE  AheadFits(B, W, s, k, j)
<1>1. s.block = B[j] /\ s.pos = IF j = i THEN p ELSE 1 BY DEF Stands
<1>2. BlockShape(idx, B, j) /\ BlockShape(idx, B, i) BY BlockFacts
<1>3. DOMAIN B[j] = 1 .. Len(B[j]) /\ Len(B[j]) \in Nat /\ j \in Nat BY <1>2 DEF BlockShape
<1>4. i \in Nat BY <1>2 DEF BlockShape
<1>5. Ahead(s, k) = {q \in s.pos .. Len(B[j]) : B[j][q][2] >= k} BY <1>1 DEF Ahead
<1>6. ASSUME NEW q PROVE q \in s.pos .. Len(B[j]) <=> q \in DOMAIN B[j] /\ (i < j \/ (j = i /\ p <= q))
  BY SMT, <1>1, <1>3, <1>4
<1>7. ASSUME NEW q PROVE q \in Ahead(s, k) <=> q \in DOMAIN B[j] /\ B[j][q][2] \in W
  BY <1>5, <1>6 DEF Wanted
<1>8. DOMAIN B[j] \subseteq Nat BY SMT, <1>3
<1> QED BY <1>1, <1>7, <1>8 DEF AheadFits

\* Where parsing ends, and that it leaves nothing wanted behind.
EndFits(idx, B, W, s, k, e, i, p) ==
  /\ e \in DOMAIN idx /\ i <= e /\ Stands(s, B, e, IF e = i THEN p ELSE 1)
  /\ s.ok => Ahead(s, k) # {} \/ e = Len(idx)
  /\ \A j \in DOMAIN idx : j < e => \A q \in DOMAIN B[j] : B[j][q][2] \notin W

\* Parsing ends in a block that yields, fails or is the last, none before it
\* having anything that is wanted.
LEMMA ParseEndIs ==
  ASSUME NEW idx, NEW B, NEW t, Blocks(idx, B, t), IsList(file), Stored(idx, B, file),
         reader.index = idx, NEW st, NEW i \in DOMAIN idx, NEW p \in Nat \ {0}, Stands(st, B, i, p),
         NEW W, NEW k \in Nat, Wanted(idx, B, W, k, i, p)
  PROVE  EndFits(idx, B, W, AtBlock(st, ParseEnd(st, k)), k, ParseEnd(st, k), i, p)
<1> DEFINE e == ParseEnd(st, k)
           Ends(j) == ~AtBlock(st, j).ok \/ Ahead(AtBlock(st, j), k) # {} \/ j = Len(idx)
           S == {j \in i .. Len(idx) : Ends(j)}
<1>1. DOMAIN idx = 1 .. Len(idx) /\ Len(idx) \in Nat BY ListLen DEF Blocks
<1>2. i \in Nat /\ i <= Len(idx) /\ 1 <= i BY SMT, <1>1
<1>3. S \in SUBSET Nat /\ S # {} /\ S \subseteq DOMAIN idx
  <2>1. i .. Len(idx) \subseteq Nat /\ Len(idx) \in i .. Len(idx) /\ i .. Len(idx) \subseteq DOMAIN idx BY SMT, <1>1, <1>2
  <2> QED BY <2>1
<1>4. st.blk = i BY DEF Stands
<1>5. e = Min(S) BY <1>4 DEF ParseEnd
<1>6. e \in S /\ \A n \in S : e <= n
  <2> HIDE DEF S, e
  <2> QED BY LeastNat, <1>3, <1>5
<1>7. e \in i .. Len(idx) /\ Ends(e) /\ e \in DOMAIN idx BY <1>3, <1>6
<1>8. ASSUME NEW j \in i .. Len(idx), j < e PROVE ~Ends(j)
  <2> HIDE DEF e, Ends
  <2>1. j \in Nat /\ e \in Nat BY SMT, <1>1, <1>2, <1>7
  <2>2. ~(e <= j) BY SMT, <1>8, <2>1
  <2> QED BY <1>6, <2>2
<1>9. \A j \in DOMAIN idx : Stands(AtBlock(st, j), B, j, IF j = i THEN p ELSE 1)
  BY AtBlockIs
<1>10. ASSUME NEW j \in DOMAIN idx, j < e, NEW q \in DOMAIN B[j] PROVE B[j][q][2] \notin W
  <2> HIDE DEF e
  <2>1. CASE i <= j
    <3>1. j \in i .. Len(idx) BY SMT, <1>1, <1>2, <2>1
    <3>2. AtBlock(st, j).ok /\ Ahead(AtBlock(st, j), k) = {} BY <1>8, <1>10, <3>1
    <3>3. AheadFits(B, W, AtBlock(st, j), k, j) BY AheadIs, <1>9, <2>1, <3>2
    <3> QED BY <3>2, <3>3 DEF AheadFits
  <2>2. CASE ~(i <= j)
    <3>1. ~(i < j) /\ j # i BY SMT, <1>1, <1>2, <2>2
    <3> QED BY <3>1 DEF Wanted
  <2> QED BY <2>1, <2>2
<1>11. i <= e BY SMT, <1>1, <1>2, <1>7
<1>12. Stands(AtBlock(st, e), B, e, IF e = i THEN p ELSE 1) BY <1>7, <1>9
<1>13. AtBlock(st, e).ok => Ahead(AtBlock(st, e), k) # {} \/ e = Len(idx) BY <1>7
<1> HIDE DEF S, Ends
<1> QED BY <1>7, <1>10, <1>11, <1>12, <1>13 DEF EndFits

\* Parsing yields the least key that is wanted.
LEMMA ParseRight ==
  ASSUME NEW idx, NEW B, NEW t, Blocks(idx, B, t), IsList(file), Stored(idx, B, file),
         reader.index = idx, NEW st, NEW i \in DOMAIN idx, NEW p \in Nat \ {0}, Stands(st, B, i, p),
         NEW W, NEW k \in Nat, Wanted(idx, B, W, k, i, p)
  PROVE  Parsed(idx, B, W, ParseTo(st, k))
<1> DEFINE e == ParseEnd(st, k)
           s == AtBlock(st, e)
           m == Min(Ahead(s, k))
           r == ParseTo(st, k)
<1>0. EndFits(idx, B, W, s, k, e, i, p) BY ParseEndIs
<1>1. /\ e \in DOMAIN idx /\ i <= e /\ Stands(s, B, e, IF e = i THEN p ELSE 1)
      /\ s.ok => Ahead(s, k) # {} \/ e = Len(idx)
      /\ \A j \in DOMAIN idx : j < e => \A q \in DOMAIN B[j] : B[j][q][2] \notin W
  <2> HIDE DEF e, s
  <2> QED BY <1>0 DEF EndFits
<1>2. r = IF ~s.ok THEN [s EXCEPT !.valid = FALSE]
          ELSE IF Ahead(s, k) = {} THEN [s EXCEPT !.pos = Len(s.block) + 1, !.valid = FALSE]
          ELSE [s EXCEPT !.rec = s.block[m], !.pos = m + 1, !.valid = TRUE]
  BY DEF ParseTo
<1>3. IsIter(s) /\ s.blk = e /\ s.ok \in BOOLEAN BY <1>1 DEF Stands
<1>4. s.ok => AheadFits(B, W, s, k, e)
  <2> HIDE DEF e, s
  <2> QED BY <1>1, AheadIs
<1>5. DOMAIN idx = 1 .. Len(idx) /\ Len(idx) \in Nat BY ListLen DEF Blocks
<1>6. e \in Nat BY SMT, <1>1, <1>5
<1> HIDE DEF e, s, m, r
<1>7. CASE ~s.ok
  <2>1. r = [s EXCEPT !.valid = FALSE] BY <1>2, <1>7
  <2>2. IsIter(r) /\ r.valid = FALSE /\ r.ok = FALSE BY <1>3, <1>7, <2>1 DEF IsIter
  <2> QED BY <2>2 DEF Parsed, r
<1>8. CASE s.ok /\ Ahead(s, k) = {}
  <2>1. r = [s EXCEPT !.pos = Len(s.block) + 1, !.valid = FALSE] BY <1>2, <1>8
  <2>2. IsIter(r) /\ r.valid = FALSE BY <1>3, <2>1 DEF IsIter
  <2>3. e = Len(idx) BY <1>1, <1>8
  <2>4. ASSUME NEW j \in DOMAIN idx, NEW q \in DOMAIN B[j] PROVE B[j][q][2] \notin W
    <3>1. j < e \/ j = e BY SMT, <1>5, <2>3
    <3> QED BY <1>1, <1>4, <1>8, <3>1 DEF AheadFits
  <2> QED BY <2>2, <2>4 DEF Parsed, r
<1>9. CASE s.ok /\ Ahead(s, k) # {}
  <2>1. r = [s EXCEPT !.rec = s.block[m], !.pos = m + 1, !.valid = TRUE] BY <1>2, <1>9
  <2>2. m \in Ahead(s, k) /\ \A n \in Ahead(s, k) : m <= n BY LeastNat, <1>4, <1>9 DEF m, AheadFits
  <2>3. m \in Nat /\ m \in DOMAIN B[e] /\ B[e][m][2] \in W BY <1>4, <1>9, <2>2 DEF AheadFits
  <2>4. /\ IsIter(r) /\ r.ok = TRUE /\ r.valid = TRUE /\ r.blk = e /\ r.block = s.block
        /\ r.pos = m + 1 /\ r.rec = s.block[m]
    BY <1>3, <1>9, <2>1 DEF IsIter
  <2>5. r.pos \in Nat /\ r.pos - 1 = m BY SMT, <2>3, <2>4
  <2>6. Yielded(idx, B, r) BY <1>1, <1>4, <1>9, <2>3, <2>4, <2>5 DEF Yielded, AheadFits
  <2>7. r.rec = B[e][m] BY <1>4, <1>9, <2>4 DEF AheadFits
  <2>8. ASSUME NEW j \in DOMAIN idx, NEW q \in DOMAIN B[j], B[j][q][2] \in W PROVE r.rec[2] <= B[j][q][2]
    <3>1. ~(j < e) BY <1>1, <2>8
    <3>2. j \in Nat BY SMT, <1>5
    <3>3. B[e][m][2] < B[j][q][2] <=> Sooner(e, m, j, q) BY <1>1, <2>3, KeyOrder
    <3>4. B[e][m][2] \in Nat /\ B[j][q][2] \in Nat /\ q \in Nat BY <1>1, <2>3, RecordAt DEF RecordShape
    <3>5. j = e => m <= q BY <1>4, <1>9, <2>2, <2>8 DEF AheadFits
    <3>6. Sooner(e, m, j, q) \/ (e = j /\ m = q) BY SMT, <1>6, <2>3, <3>1, <3>2, <3>4, <3>5 DEF Sooner
    <3>7. CASE e = j /\ m = q BY SMT, <2>7, <3>4, <3>7
    <3>8. CASE B[e][m][2] < B[j][q][2] BY SMT, <2>7, <3>4, <3>8
    <3> QED BY <3>3, <3>6, <3>7, <3>8
  <2> QED BY <2>3, <2>4, <2>6, <2>7, <2>8 DEF Parsed, r
<1> QED BY <1>3, <1>7, <1>8, <1>9

-------------------------------------------------------------------------------
(* The inductive invariant *)

\* The writer has taken the keys a, all those before n: first those of the
\* blocks, then those of the buffer b.
Taken(idx, B, t, n, a, b) ==
  /\ Held(t) # {} /\ n \in Held(t) \cup {Null}
  /\ a = {k \in Held(t) : k < n}
  /\ IsList(b)
  /\ \A p \in DOMAIN b : \E k \in a : b[p] = Rec(k, t[k])
  /\ \A p, q \in DOMAIN b : p < q => b[p][2] < b[q][2]
  /\ \A i \in DOMAIN idx : \A p \in DOMAIN B[i] :
       B[i][p][2] < n /\ \A q \in DOMAIN b : B[i][p][2] < b[q][2]
  /\ \A k \in a : InBlock(idx, B, k) \/ \E p \in DOMAIN b : b[p][2] = k

\* The buffer b is on its way to the end of the file.
UnderWay(c, b) == b # <<>> /\ \E off \in Nat : Len(c) = off + Len(b) + 1 /\ Lies(c, off, b)

\* The metadata behind the blocks, but for damage.
MetadataAt(c, off, idx, fl, n) ==
  /\ off \in Nat /\ Len(c) = off + Len(idx) + 5
  /\ Lies(c, off, <<fl>>) /\ Lies(c, off + 2, idx)
  /\ c[off + Len(idx) + 4] = <<"footer", off, 1, off + 2, Len(idx), n>>
  /\ c[off + Len(idx) + 5] \in {Magic, Bad}

\* All of t is in the blocks, and the metadata follows.
Complete(idx, B, t, a, fl, c) ==
  /\ Held(t) # {} /\ a = Held(t)
  /\ \A k \in Held(t) : InBlock(idx, B, k)
  /\ \E off : MetadataAt(c, off, idx, fl, Cardinality(a))

\* The magic number comes last, if at all; only a fault damages a unit.
MagicLast(c, may) == \A i \in DOMAIN c : c[i] = Magic => i = Len(c) /\ may
Sound(c, n) == n = 0 => \A i \in DOMAIN c : c[i] # Bad

\* A valid iterator is behind the record it yielded last.
IterAt(idx, B, it, sn) ==
  it.valid => Yielded(idx, B, it) /\ IsList(sn) /\ sn # <<>> /\ sn[Len(sn)] = it.rec

\* IterationRight, by its variables.
OwedOf(sn, tg, t) == {k \in Keys : k >= tg /\ t[k] # NotFound} \ {sn[a][2] : a \in DOMAIN sn}
Iterated(it, sn, tg, t) ==
  it # NoIter =>
    /\ tg \in Nat
    /\ \A a \in DOMAIN sn : \E k \in Keys : k >= tg /\ t[k] # NotFound /\ sn[a] = Rec(k, t[k])
    /\ \A a, b \in DOMAIN sn : a < b => sn[a][2] < sn[b][2]
    /\ \A k \in OwedOf(sn, tg, t), a \in DOMAIN sn : sn[a][2] < k
    /\ ~it.valid /\ it.ok => OwedOf(sn, tg, t) = {}

\* The file when the WriteRaw calls under way are done, and the filter in it.
Contents == file \o todo
TheFilter == <<"filter", FilterOf(added)>>

\* The invariant, phase by phase.  B are the blocks so far: nothing is read yet ...
Idle == cached = <<>> /\ iter = NoIter

\* ... no flush is under way ...
Filling == pc = "filling" /\ Idle /\ file = <<>> /\ todo = <<>>

\* ... blocks are filled and written ...
Adding(B) ==
  /\ pc \in {"add", "block"} /\ Idle
  /\ Blocks(index, B, entry) /\ Stored(index, B, Contents) /\ Taken(index, B, entry, node, added, buf)
  /\ IF pc = "add" THEN todo = <<>> ELSE todo # <<>> /\ UnderWay(Contents, buf)

\* ... filter, index and footer are written and synced ...
Closing(B) ==
  /\ pc \in {"meta", "sync"} /\ Idle
  /\ Blocks(index, B, entry) /\ Stored(index, B, Contents)
  /\ Complete(index, B, entry, added, TheFilter, Contents)
  /\ IF pc = "meta" THEN todo # <<>> ELSE todo = <<>>

\* ... the table is open.
Reading(B) ==
  /\ pc = "reading" /\ todo = <<>>
  /\ Blocks(index, B, table) /\ Stored(index, B, Contents)
  /\ Complete(index, B, table, added, TheFilter, Contents)
  /\ reader.index = index /\ reader.filter = FilterOf(added)
  /\ CachedRight(index, B, cached)
  /\ IterAt(index, B, iter, seen) /\ Iterated(iter, seen, target, table)

\* In every phase: a magic number only at the end, and no damage without a fault.
Files ==
  /\ IsList(file) /\ IsList(todo) /\ faults \in Nat
  /\ MagicLast(Contents, pc \in {"meta", "sync", "reading"}) /\ Sound(Contents, faults)

TableInv(B) == Files /\ (Filling \/ Adding(B) \/ Closing(B) \/ Reading(B))

-------------------------------------------------------------------------------
(* The writer *)

\* The null pointer is behind every key.
NullBehind == Null \in Nat /\ \A k \in Keys : k < Null

\* The first level leads from n to the next key that has an entry.
Leads(n) ==
  /\ n \in Nat /\ forward[n][1] \in Held(entry) \cup {Null} /\ n < forward[n][1]
  /\ \A k \in Held(entry) : k < forward[n][1] <=> k <= n

\* What a flush relies on in the list.
Walkable ==
  /\ NullBehind /\ (count > 0 => Held(entry) # {})
  /\ \A n \in Held(entry) \cup {Head0} : Leads(n)

\* AddRecord takes the next key.
LEMMA TakenNext ==
  ASSUME NEW idx, NEW B, NEW t, Blocks(idx, B, t), NEW n, NEW a, NEW b, Taken(idx, B, t, n, a, b), n \in Held(t),
         NEW m \in Held(t) \cup {Null}, n < m, \A k \in Held(t) : k < m <=> k <= n, Null \in Nat
  PROVE  Taken(idx, B, t, m, a \cup {n}, Append(b, Rec(n, t[n])))
<1> DEFINE r == Rec(n, t[n])
           c == Append(b, r)
           d == a \cup {n}
<1>1. IsList(b) BY DEF Taken
<1>2. DOMAIN b = 1 .. Len(b) /\ Len(b) \in Nat BY <1>1, ListLen
<1>0. Appended(b, r, c) BY <1>1, ListAppend
<1>5. r[2] = n BY UnitsDiffer
<1>6. \A k \in Held(t) : k \in Nat BY KeyIsNat DEF Held
<1>7. m \in Nat /\ n \in Nat BY <1>6
<1>8. a = {k \in Held(t) : k < n} BY DEF Taken
<1> HIDE DEF r, c
<1>3. IsList(c) /\ Len(c) = Len(b) + 1 /\ (\A i \in 1 .. Len(b) : c[i] = b[i]) /\ c[Len(b) + 1] = r
  BY <1>0 DEF Appended
<1>4. DOMAIN c = 1 .. Len(c) BY <1>3, ListLen
<1>9. d = {k \in Held(t) : k < m}
  <2>1. ASSUME NEW k \in Held(t) PROVE k \in d <=> k < m
    <3>1. k <= n <=> k < n \/ k = n BY SMT, <1>6, <1>7
    <3> QED BY <1>8, <3>1
  <2>2. d \subseteq Held(t) BY <1>8
  <2> QED BY <2>1, <2>2
<1>10. ASSUME NEW p \in DOMAIN c PROVE (p \in DOMAIN b /\ c[p] = b[p]) \/ (p = Len(b) + 1 /\ c[p] = r)
  BY SMT, <1>2, <1>3, <1>4
<1>11. ASSUME NEW p \in DOMAIN b PROVE p \in DOMAIN c /\ c[p] = b[p] BY SMT, <1>2, <1>3, <1>4
<1>12. Len(b) + 1 \in DOMAIN c BY SMT, <1>2, <1>3, <1>4
<1>13. ASSUME NEW p \in DOMAIN b PROVE b[p][2] \in Nat /\ b[p][2] < n
  <2>1. PICK k \in a : b[p] = Rec(k, t[k]) BY DEF Taken
  <2>2. b[p][2] = k /\ k \in Held(t) /\ k < n BY <1>8, <2>1, UnitsDiffer
  <2> QED BY <1>6, <2>2
<1>14. ASSUME NEW p \in DOMAIN c PROVE \E k \in d : c[p] = Rec(k, t[k])
  <2>1. CASE p \in DOMAIN b /\ c[p] = b[p]
    <3>1. PICK k \in a : b[p] = Rec(k, t[k]) BY <2>1 DEF Taken
    <3> QED BY <2>1, <3>1
  <2>2. CASE c[p] = r BY <2>2 DEF r
  <2> QED BY <1>10, <2>1, <2>2
<1>15. ASSUME NEW p \in DOMAIN c, NEW q \in DOMAIN c, p < q PROVE c[p][2] < c[q][2]
  <2>1. CASE p \in DOMAIN b /\ q \in DOMAIN b
    BY <1>11, <1>15, <2>1 DEF Taken
  <2>2. CASE p \in DOMAIN b /\ q = Len(b) + 1
    BY <1>3, <1>5, <1>11, <1>13, <2>2
  <2>3. p \in DOMAIN b BY SMT, <1>2, <1>3, <1>4, <1>15
  <2> QED BY <1>10, <2>1, <2>2, <2>3
<1>16. ASSUME NEW i \in DOMAIN idx, NEW p \in DOMAIN B[i]
       PROVE  B[i][p][2] < m /\ \A q \in DOMAIN c : B[i][p][2] < c[q][2]
  <2> DEFINE x == B[i][p][2]
  <2>1. x < n /\ \A q \in DOMAIN b : x < b[q][2] BY DEF Taken
  <2>4. x \in Nat BY RecordAt DEF RecordShape
  <2> HIDE DEF x
  <2>2. x < m BY SMT, <1>7, <2>1, <2>4
  <2>3. \A q \in DOMAIN c : x < c[q][2] BY <1>5, <1>10, <2>1
  <2> USE DEF x
  <2> QED BY <2>1, <2>2, <2>3
<1>17. ASSUME NEW k \in d PROVE InBlock(idx, B, k) \/ \E p \in DOMAIN c : c[p][2] = k
  <2>1. CASE k = n BY <1>3, <1>5, <1>12, <2>1
  <2>2. CASE k \in a BY <1>11, <2>2 DEF Taken
  <2> QED BY <2>1, <2>2
<1> HIDE DEF d
<1>18. Taken(idx, B, t, m, d, c) BY <1>3, <1>9, <1>14, <1>15, <1>16, <1>17 DEF Taken
<1> QED BY <1>18 DEF c, d, r

\* A run of units with its checksum, behind what is in the file.
LEMMA SummedLies ==
  ASSUME NEW f, IsList(f), NEW b, IsList(b)
  PROVE  /\ IsList(f \o Summed(b)) /\ Len(f \o Summed(b)) = Len(f) + Len(b) + 1
         /\ Lies(f \o Summed(b), Len(f), b)
         /\ \A i \in DOMAIN (f \o Summed(b)) :
              \/ i \in DOMAIN f /\ (f \o Summed(b))[i] = f[i]
              \/ \E p \in DOMAIN b : (f \o Summed(b))[i] = b[p]
              \/ (f \o Summed(b))[i] = Crc32(b)
<1> DEFINE s == Summed(b)
           c == f \o s
<1>1. Len(f) \in Nat /\ DOMAIN f = 1 .. Len(f) /\ Len(b) \in Nat /\ DOMAIN b = 1 .. Len(b) BY ListLen
<1>2. /\ IsList(s) /\ Len(s) = Len(b) + 1 /\ s[Len(b) + 1] = Crc32(b)
      /\ \A i \in 1 .. Len(b) : s[i] = b[i]
  <2>1. Appended(b, Crc32(b), s) BY ListAppend DEF Summed
  <2> HIDE DEF s
  <2> QED BY <2>1 DEF Appended
<1> HIDE DEF s
<1>3. Joined(f, s, c) BY <1>2, ListConcat
<1> HIDE DEF c
<1>4. /\ IsList(c) /\ Len(c) = Len(f) + Len(s)
      /\ \A i \in 1 .. Len(f) : c[i] = f[i]
      /\ \A i \in 1 .. Len(s) : c[Len(f) + i] = s[i]
  BY <1>3 DEF Joined
<1>5. DOMAIN c = 1 .. Len(c) BY <1>4, ListLen
<1>6. Len(c) = Len(f) + Len(b) + 1 BY SMT, <1>1, <1>2, <1>4
<1>7. ASSUME NEW p \in DOMAIN b PROVE c[Len(f) + p] = b[p]
  <2>1. p \in 1 .. Len(s) /\ p \in 1 .. Len(b) BY SMT, <1>1, <1>2
  <2> QED BY <1>2, <1>4, <2>1
<1>8. c[Len(f) + Len(b) + 1] = Crc32(b)
  <2>1. Len(b) + 1 \in 1 .. Len(s) /\ Len(f) + (Len(b) + 1) = Len(f) + Len(b) + 1 BY SMT, <1>1, <1>2
  <2> QED BY <1>2, <1>4, <2>1
<1>9. Len(f) + Len(b) + 1 <= Len(c) BY SMT, <1>1, <1>6
<1>10. Lies(c, Len(f), b) BY <1>7, <1>8, <1>9 DEF Lies
<1>11. ASSUME NEW i \in DOMAIN c
       PROVE  (i \in DOMAIN f /\ c[i] = f[i]) \/ (\E p \in DOMAIN b : c[i] = b[p]) \/ c[i] = Crc32(b)
  <2>1. CASE i \in 1 .. Len(f) BY <1>1, <1>4, <2>1
  <2>2. CASE i \notin 1 .. Len(f)
    <3>1. i - Len(f) \in 1 .. Len(b) + 1 /\ Len(f) + (i - Len(f)) = i BY SMT, <1>1, <1>5, <1>6, <2>2
    <3>2. i - Len(f) \in DOMAIN b \/ i = Len(f) + Len(b) + 1 BY SMT, <1>1, <3>1
    <3> QED BY <1>7, <1>8, <3>1, <3>2
  <2> QED BY <2>1, <2>2
<1> QED BY <1>4, <1>6, <1>10, <1>11 DEF c, s

\* What c adds to the file f is neither a magic number nor damaged.
Extends(f, c) ==
  /\ IsList(c)
  /\ \A i \in DOMAIN c : (i \in DOMAIN f /\ c[i] = f[i]) \/ (c[i] # Magic /\ c[i] # Bad)

\* Blocks add no magic number and no damage.
LEMMA MarksKept ==
  ASSUME NEW f, IsList(f), NEW c, Extends(f, c), NEW n, MagicLast(f, FALSE), Sound(f, n)
  PROVE  MagicLast(c, FALSE) /\ Sound(c, n)
<1>1. \A i \in DOMAIN c : c[i] # Magic BY DEF Extends, MagicLast
<1>2. n = 0 => \A i \in DOMAIN c : c[i] # Bad BY DEF Extends, Sound
<1> QED BY <1>1, <1>2 DEF MagicLast, Sound

\* A full buffer is put behind the file.
LEMMA BlockOut ==
  ASSUME NEW f, IsList(f), NEW idx, NEW B, NEW t, NEW n, NEW a, NEW b, Taken(idx, B, t, n, a, b), b # <<>>
  PROVE  Extends(f, f \o Summed(b)) /\ UnderWay(f \o Summed(b), b)
<1> DEFINE c == f \o Summed(b)
<1>1. IsList(b) BY DEF Taken
<1>2. /\ IsList(c) /\ Len(c) = Len(f) + Len(b) + 1 /\ Lies(c, Len(f), b)
      /\ \A i \in DOMAIN c : (i \in DOMAIN f /\ c[i] = f[i]) \/ (\E p \in DOMAIN b : c[i] = b[p]) \/ c[i] = Crc32(b)
  BY <1>1, SummedLies
<1> HIDE DEF c
<1>3. ASSUME NEW p \in DOMAIN b PROVE b[p] # Magic /\ b[p] # Bad
  <2>1. PICK k \in a : b[p] = Rec(k, t[k]) BY DEF Taken
  <2> QED BY SMT, <2>1, UnitsDiffer
<1>4. Extends(f, c)
  <2>1. Crc32(b) # Magic /\ Crc32(b) # Bad BY UnitsDiffer
  <2> QED BY <1>2, <1>3, <2>1 DEF Extends
<1>5. Len(f) \in Nat BY ListLen
<1>6. UnderWay(c, b) BY <1>2, <1>5 DEF UnderWay
<1> QED BY <1>4, <1>6 DEF c

\* The blocks stay where they are when more is written behind them.
LEMMA StoredLonger ==
  ASSUME NEW idx, NEW B, NEW t, Blocks(idx, B, t), NEW f, IsList(f), Stored(idx, B, f), NEW s, IsList(s)
  PROVE  Stored(idx, B, f \o s)
<1>1. ASSUME NEW i \in DOMAIN idx PROVE Lies(f \o s, idx[i][3], B[i])
  <2>1. idx[i][3] \in Nat /\ IsList(B[i]) BY DEF Blocks
  <2>2. Lies(f, idx[i][3], B[i]) BY DEF Stored
  <2> QED BY <2>1, <2>2, LiesLonger
<1> QED BY <1>1 DEF Stored

\* FlushBlock notes in the index the block it has written.
NewIndex(idx, b, off) == Append(idx, <<"entry", b[1][2], off, Len(b)>>)
NewBlocks(idx, B, b) == [i \in 1 .. Len(idx) + 1 |-> IF i <= Len(idx) THEN B[i] ELSE b]

\* FlushBlock: the buffer becomes the last block, and nothing that was taken is lost.
LEMMA BlockNoted ==
  ASSUME NEW idx, NEW B, NEW t, Blocks(idx, B, t), NEW c, Stored(idx, B, c), NEW n, NEW a, NEW b,
         Taken(idx, B, t, n, a, b), b # <<>>, NEW off \in Nat, Lies(c, off, b)
  PROVE  /\ Blocks(NewIndex(idx, b, off), NewBlocks(idx, B, b), t)
         /\ Stored(NewIndex(idx, b, off), NewBlocks(idx, B, b), c)
         /\ Taken(NewIndex(idx, b, off), NewBlocks(idx, B, b), t, n, a, <<>>)
<1> DEFINE e == <<"entry", b[1][2], off, Len(b)>>
           jdx == Append(idx, e)
           C == [i \in 1 .. Len(idx) + 1 |-> IF i <= Len(idx) THEN B[i] ELSE b]
           z == Len(idx) + 1
<1>1. IsList(idx) /\ IsList(b) BY DEF Blocks, Taken
<1>2. Len(idx) \in Nat /\ DOMAIN idx = 1 .. Len(idx) /\ Len(b) \in Nat /\ Len(b) # 0 /\ DOMAIN b = 1 .. Len(b)
  BY <1>1, ListLen
<1>3. Appended(idx, e, jdx) BY <1>1, ListAppend
<1>4. e[2] = b[1][2] /\ e[3] = off /\ e[4] = Len(b) /\ e # Magic /\ e # Bad
  <2>1. e[1] = "entry" /\ e[2] = b[1][2] /\ e[3] = off /\ e[4] = Len(b) OBVIOUS
  <2>2. Magic[1] = "magic" /\ Bad[1] = "damaged" BY DEF Magic, Bad
  <2>3. "entry" # "magic" /\ "entry" # "damaged" OBVIOUS
  <2> HIDE DEF e
  <2> QED BY <2>1, <2>2, <2>3
<1>5. \A i \in 1 .. z : C[i] = IF i <= Len(idx) THEN B[i] ELSE b OBVIOUS
<1> HIDE DEF e, jdx, C, z
<1>6. IsList(jdx) /\ Len(jdx) = z /\ (\A i \in DOMAIN idx : jdx[i] = idx[i]) /\ jdx[z] = e
  BY <1>2, <1>3 DEF Appended, z
<1>7. DOMAIN jdx = 1 .. z BY <1>6, ListLen
<1>8. z \in Nat /\ z \in DOMAIN jdx /\ z \notin DOMAIN idx /\ ~(z <= Len(idx)) /\ ~(z < z) BY SMT, <1>2, <1>7 DEF z
<1>9. \A i \in DOMAIN jdx : i \in DOMAIN idx \/ i = z BY SMT, <1>2, <1>7 DEF z
<1>10. \A i \in DOMAIN idx : i \in DOMAIN jdx /\ i <= Len(idx) /\ i < z /\ ~(z < i) BY SMT, <1>2, <1>7 DEF z
<1>11. C[z] = b /\ \A i \in DOMAIN idx : C[i] = B[i] BY <1>5, <1>7, <1>8, <1>10
<1>12. a \subseteq Held(t) /\ \A p \in DOMAIN b : \E k \in Held(t) : b[p] = Rec(k, t[k]) BY DEF Taken
<1>13. 1 \in DOMAIN b BY SMT, <1>2
<1>14. \A i \in DOMAIN idx : \A p \in DOMAIN B[i] : B[i][p][2] < b[1][2] BY <1>13 DEF Taken
<1>15. \A p, q \in DOMAIN b : p < q => b[p][2] < b[q][2] BY DEF Taken
<1>16. Len(b) \in Nat \ {0} BY <1>2
<1>17. Blocks(jdx, C, t)
  <2>1. ASSUME NEW i \in DOMAIN jdx, NEW j \in DOMAIN jdx, i < j, NEW p \in DOMAIN C[i] PROVE C[i][p][2] < jdx[j][2]
    <3>1. i \in DOMAIN idx BY <1>8, <1>9, <1>10, <2>1
    <3>2. CASE j = z BY <1>4, <1>6, <1>11, <1>14, <3>1, <3>2
    <3>3. CASE j \in DOMAIN idx BY <1>6, <1>11, <2>1, <3>1, <3>3 DEF Blocks
    <3> QED BY <1>9, <3>2, <3>3
  <2> DEFINE Good(x, d) ==
               /\ x[3] \in Nat /\ x[4] \in Nat \ {0} /\ x # Magic /\ x # Bad
               /\ IsList(d) /\ Len(d) = x[4] /\ d[1][2] = x[2]
               /\ \A p \in DOMAIN d : \E k \in Held(t) : d[p] = Rec(k, t[k])
               /\ \A p, q \in DOMAIN d : p < q => d[p][2] < d[q][2]
  <2>2. Good(e, b) BY <1>1, <1>4, <1>12, <1>15, <1>16
  <2>3. \A i \in DOMAIN idx : Good(idx[i], B[i]) BY DEF Blocks
  <2>4. \A i \in DOMAIN jdx : Good(jdx[i], C[i])
    <3> HIDE DEF Good
    <3> QED BY <1>6, <1>9, <1>11, <2>2, <2>3
  <2> QED BY <1>6, <2>1, <2>4 DEF Blocks
<1>18. Stored(jdx, C, c) BY <1>4, <1>6, <1>9, <1>11 DEF Stored
<1>19. Taken(jdx, C, t, n, a, <<>>)
  <2>1. IsList(<<>>) BY ListNone
  <2>2. DOMAIN <<>> = {} BY SMT
  <2>3. ASSUME NEW p \in DOMAIN b PROVE b[p][2] < n
    <3>1. PICK k \in a : b[p] = Rec(k, t[k]) BY DEF Taken
    <3>2. k < n BY DEF Taken
    <3>3. b[p][2] = k BY <3>1, UnitsDiffer
    <3> QED BY <3>2, <3>3
  <2>4. ASSUME NEW i \in DOMAIN jdx, NEW p \in DOMAIN C[i] PROVE C[i][p][2] < n
    <3>1. CASE i = z BY <1>11, <2>3, <3>1
    <3>2. CASE i \in DOMAIN idx BY <1>11, <3>2 DEF Taken
    <3> QED BY <1>9, <3>1, <3>2
  <2>5. ASSUME NEW k \in a PROVE InBlock(jdx, C, k)
    <3>1. CASE InBlock(idx, B, k) BY <1>10, <1>11, <3>1 DEF InBlock
    <3>2. CASE \E p \in DOMAIN b : b[p][2] = k BY <1>8, <1>11, <3>2 DEF InBlock
    <3> QED BY <3>1, <3>2 DEF Taken
  <2>6. /\ Held(t) # {} /\ n \in Held(t) \cup {Null} /\ a = {k \in Held(t) : k < n} BY DEF Taken
  <2> DEFINE nil == <<>>
  <2>7. IsList(nil) /\ DOMAIN nil = {} BY <2>1, <2>2
  <2> HIDE DEF nil
  <2>8. Taken(jdx, C, t, n, a, nil) BY <2>4, <2>5, <2>6, <2>7 DEF Taken
  <2> QED BY <2>8 DEF nil
<1> QED BY <1>17, <1>18, <1>19 DEF NewIndex, NewBlocks, jdx, C, e

\* Finish puts filter, index and footer behind the blocks.
LEMMA MetadataOut ==
  ASSUME NEW f, IsList(f), NEW idx, IsList(idx), \A i \in DOMAIN idx : idx[i] # Magic /\ idx[i] # Bad,
         NEW fl, fl # Magic, fl # Bad, NEW n, NEW m, MagicLast(f, FALSE), Sound(f, m)
  PROVE  LET w == Metadata(Len(f), fl, idx, n)
         IN  /\ IsList(w) /\ w # <<>> /\ MetadataAt(f \o w, Len(f), idx, fl, n)
             /\ MagicLast(f \o w, TRUE) /\ Sound(f \o w, m)
<1> DEFINE one == <<fl>>
           u == Summed(one)
           v == Summed(idx)
           foot == <<"footer", Len(f), 1, Len(f) + 2, Len(idx), n>>
           x == <<foot, Magic>>
           w == (u \o v) \o x
           g == f \o u
           h == g \o v
           c == h \o x
<1>1. Metadata(Len(f), fl, idx, n) = w BY DEF Metadata
<1>2. foot # Magic /\ foot # Bad
  <2>1. foot[1] = "footer" /\ "footer" # "magic" /\ "footer" # "damaged" OBVIOUS
  <2>2. Magic[1] = "magic" /\ Bad[1] = "damaged" BY DEF Magic, Bad
  <2> HIDE DEF foot
  <2> QED BY <2>1, <2>2
<1> HIDE DEF foot
<1>3. IsList(x) /\ Len(x) = 2 /\ x[1] = foot /\ x[2] = Magic
  <2>1. x \in Seq({foot, Magic}) /\ Len(x) = 2 /\ x[1] = foot /\ x[2] = Magic BY SMT
  <2> QED BY <2>1, ListFrom
<1>4. IsList(one) /\ Len(one) = 1 /\ one[1] = fl BY ListOne
<1>5. Len(idx) \in Nat /\ Len(f) \in Nat /\ DOMAIN f = 1 .. Len(f) BY ListLen
<1> HIDE DEF one, x
<1>6. IsList(u) /\ IsList(v)
  <2>1. Appended(one, Crc32(one), u) /\ Appended(idx, Crc32(idx), v) BY <1>4, ListAppend DEF Summed
  <2> HIDE DEF u, v
  <2> QED BY <2>1 DEF Appended
<1>7. /\ IsList(g) /\ Len(g) = Len(f) + Len(one) + 1 /\ Lies(g, Len(f), one)
      /\ \A i \in DOMAIN g : (i \in DOMAIN f /\ g[i] = f[i]) \/ (\E p \in DOMAIN one : g[i] = one[p]) \/ g[i] = Crc32(one)
  BY <1>4, SummedLies
<1>8. Len(g) = Len(f) + 2 /\ Len(g) \in Nat BY SMT, <1>4, <1>5, <1>7
<1>9. /\ IsList(h) /\ Len(h) = Len(g) + Len(idx) + 1 /\ Lies(h, Len(g), idx)
      /\ \A i \in DOMAIN h : (i \in DOMAIN g /\ h[i] = g[i]) \/ (\E p \in DOMAIN idx : h[i] = idx[p]) \/ h[i] = Crc32(idx)
  <2> HIDE DEF g
  <2> QED BY <1>7, SummedLies
<1>10. Len(h) \in Nat /\ Len(h) = Len(f) + Len(idx) + 3 BY SMT, <1>5, <1>8, <1>9
<1>11. Joined(h, x, c)
  <2> HIDE DEF h
  <2> QED BY <1>3, <1>9, ListConcat
<1>12. f \o w = c /\ IsList(w)
  <2> HIDE DEF u, v
  <2>1. Joined(u, v, u \o v) BY <1>6, ListConcat
  <2>2. IsList(u \o v) BY <2>1 DEF Joined
  <2>3. Joined(u \o v, x, w) BY <1>3, <2>2, ListConcat
  <2>4. (f \o (u \o v)) \o x = f \o ((u \o v) \o x)
    <3> DEFINE y == u \o v
    <3>1. IsList(y) /\ IsList(x) BY <1>3, <2>2
    <3> HIDE DEF y
    <3>2. Assoc(f, y, x) BY <3>1, ListAssoc
    <3> QED BY <3>2 DEF Assoc, y
  <2>5. Assoc(f, u, v) BY <1>6, ListAssoc
  <2>6. IsList(w) BY <2>3 DEF Joined
  <2> QED BY <2>4, <2>5, <2>6 DEF Assoc
<1>13. Lies(h, Len(f), one) BY <1>4, <1>5, <1>6, <1>7, LiesLonger
<1>14. Lies(c, Len(f), one) /\ Lies(c, Len(f) + 2, idx)
  <2>1. Lies(h, Len(f) + 2, idx) /\ Len(f) + 2 \in Nat BY <1>8, <1>9
  <2> HIDE DEF h
  <2>2. Lies(h \o x, Len(f), one) BY <1>3, <1>4, <1>5, <1>9, <1>13, LiesLonger
  <2>3. Lies(h \o x, Len(f) + 2, idx) BY <1>3, <1>9, <2>1, LiesLonger
  <2> QED BY <2>2, <2>3
<1> HIDE DEF c, h, g, w, u, v
<1>15. /\ IsList(c) /\ Len(c) = Len(h) + 2 /\ c[Len(h) + 1] = foot /\ c[Len(h) + 2] = Magic
       /\ \A i \in 1 .. Len(h) : c[i] = h[i]
  <2>1. 1 \in 1 .. 2 /\ 2 \in 1 .. 2 BY SMT
  <2> QED BY <1>3, <1>11, <2>1 DEF Joined
<1>16. /\ Len(c) = Len(f) + Len(idx) + 5
       /\ Len(h) + 1 = Len(f) + Len(idx) + 4 /\ Len(h) + 2 = Len(f) + Len(idx) + 5
  BY SMT, <1>5, <1>10, <1>15
<1>17. MetadataAt(c, Len(f), idx, fl, n) BY <1>5, <1>14, <1>15, <1>16 DEF MetadataAt, one, foot
<1>18. ASSUME NEW i \in DOMAIN c
       PROVE  (i \in DOMAIN f /\ c[i] = f[i]) \/ (c[i] # Magic /\ c[i] # Bad) \/ (i = Len(c) /\ c[i] = Magic)
  <2>1. DOMAIN c = 1 .. Len(c) /\ DOMAIN h = 1 .. Len(h) BY <1>9, <1>15, ListLen
  <2>2. i \in DOMAIN h \/ i = Len(h) + 1 \/ i = Len(h) + 2 BY SMT, <1>10, <1>15, <2>1
  <2>3. CASE i \in DOMAIN h
    <3>1. c[i] = h[i] BY <1>15, <2>1, <2>3
    <3>2. DOMAIN one = {1} BY SMT, <1>4, ListLen
    <3>3. \/ i \in DOMAIN f /\ h[i] = f[i]
          \/ h[i] = fl \/ h[i] = Crc32(one) \/ (\E p \in DOMAIN idx : h[i] = idx[p]) \/ h[i] = Crc32(idx)
      BY <1>4, <1>7, <1>9, <2>3, <3>2
    <3> QED BY <3>1, <3>3, UnitsDiffer
  <2> QED BY <1>2, <1>15, <2>2, <2>3
<1>19. MagicLast(c, TRUE) BY <1>18 DEF MagicLast
<1>20. Sound(c, m) BY <1>18, UnitsDiffer DEF Sound
<1>21. w # <<>>
  <2>1. w = <<>> => c = f BY <1>12, ListNil
  <2> QED BY SMT, <1>5, <1>16, <2>1
<1> QED BY <1>1, <1>12, <1>17, <1>19, <1>20, <1>21

-------------------------------------------------------------------------------
(* Opening *)

\* What the footer of a finished file says, and the checks of Open in its terms.
Footed(f, off, idx, n) ==
  /\ f[Len(f)] \in {Magic, Bad} /\ Len(idx) \in Nat /\ off \in Nat /\ off + 2 \in Nat
  /\ Opens(f) <=> /\ f[Len(f)] = Magic /\ Intact(f, off + 2, Len(idx)) /\ Intact(f, off, 1)
                  /\ LET last == f[off + 2 + Len(idx)]
                     IN  Len(idx) > 0 => Intact(f, last[3], last[4])
  /\ LET jdx == Region(f, off + 2, Len(idx))
         end == jdx[Len(jdx)]
         block == Region(f, end[3], end[4])
     IN  OpenReader(f) = [index |-> jdx, filter |-> f[off + 1][2], num_entries |-> n,
                          smallest |-> IF jdx = <<>> THEN 0 ELSE jdx[1][2],
                          largest |-> IF jdx = <<>> THEN 0 ELSE block[Len(block)][2]]

\* What Open reads in the footer.
LEMMA FooterRead ==
  ASSUME NEW f, IsList(f), NEW idx, IsList(idx), NEW off, NEW fl, NEW n, MetadataAt(f, off, idx, fl, n)
  PROVE  Footed(f, off, idx, n)
<1> DEFINE foot == f[Len(f) - 1]
<1>1. Len(idx) \in Nat BY ListLen
<1>2. /\ off \in Nat /\ Len(f) = off + Len(idx) + 5
      /\ f[off + Len(idx) + 4] = <<"footer", off, 1, off + 2, Len(idx), n>>
      /\ f[off + Len(idx) + 5] \in {Magic, Bad}
  BY DEF MetadataAt
<1>3. off + 2 \in Nat /\ Len(f) >= FooterSize /\ Len(f) - 1 = off + Len(idx) + 4 BY SMT, <1>1, <1>2 DEF FooterSize
<1>4. foot = <<"footer", off, 1, off + 2, Len(idx), n>> BY <1>2, <1>3
<1>5. foot[2] = off /\ foot[3] = 1 /\ foot[4] = off + 2 /\ foot[5] = Len(idx) /\ foot[6] = n
  <2> HIDE DEF foot
  <2> QED BY <1>4
<1>6. Opens(f) <=> /\ f[Len(f)] = Magic /\ Intact(f, off + 2, Len(idx)) /\ Intact(f, off, 1)
                   /\ LET last == f[off + 2 + Len(idx)]
                      IN  Len(idx) > 0 => Intact(f, last[3], last[4])
  BY <1>3, <1>5 DEF Opens
<1>7. LET jdx == Region(f, off + 2, Len(idx))
          end == jdx[Len(jdx)]
          block == Region(f, end[3], end[4])
      IN  OpenReader(f) = [index |-> jdx, filter |-> f[off + 1][2], num_entries |-> n,
                           smallest |-> IF jdx = <<>> THEN 0 ELSE jdx[1][2],
                           largest |-> IF jdx = <<>> THEN 0 ELSE block[Len(block)][2]]
  BY <1>5 DEF OpenReader
<1>8. f[Len(f)] \in {Magic, Bad} BY <1>2
<1> QED BY <1>1, <1>2, <1>3, <1>6, <1>7, <1>8 DEF Footed

\* What Open keeps of a file that passes its checks.
Kept(r, idx, B, fl, n) ==
  /\ r.index = idx /\ r.filter = fl[2] /\ r.num_entries = n
  /\ r.smallest = idx[1][2] /\ r.largest = B[Len(idx)][Len(B[Len(idx)])][2]

\* Open keeps what the writer noted, and refuses only a file that is damaged.
LEMMA OpenRight ==
  ASSUME NEW idx, NEW B, NEW t, Blocks(idx, B, t), NEW f, IsList(f), Stored(idx, B, f), idx # <<>>,
         NEW off, NEW fl, NEW n, MetadataAt(f, off, idx, fl, n)
  PROVE  /\ Opens(f) => Kept(OpenReader(f), idx, B, fl, n)
         /\ ~Opens(f) => BadIn(f)
<1> DEFINE one == <<fl>>
           L == Len(idx)
<1>1. IsList(idx) BY DEF Blocks
<1>2. Footed(f, off, idx, n) BY <1>1, FooterRead
<1>3. off \in Nat /\ off + 2 \in Nat /\ L \in Nat /\ f[Len(f)] \in {Magic, Bad} BY <1>2 DEF Footed
<1>4. L # 0 /\ DOMAIN idx = 1 .. L BY <1>1, ListLen
<1>5. L > 0 /\ L \in 1 .. L /\ 1 \in 1 .. 1 BY SMT, <1>3, <1>4
<1>6. IsList(one) /\ Len(one) = 1 /\ one[1] = fl BY ListOne
<1>7. Lies(f, off, one) /\ Lies(f, off + 2, idx) BY DEF MetadataAt
<1>8. Lies(f, idx[L][3], B[L]) /\ idx[L][3] \in Nat /\ IsList(B[L]) /\ Len(B[L]) = idx[L][4]
  BY <1>4, <1>5 DEF Blocks, Stored
<1> HIDE DEF one
<1>9. (Intact(f, off, 1) => Region(f, off, 1) = one) /\ (~Intact(f, off, 1) => BadIn(f))
  <2>1. /\ Intact(f, off, Len(one)) => Region(f, off, Len(one)) = one
        /\ ~Intact(f, off, Len(one)) => \E i \in DOMAIN f : f[i] = Bad
    BY <1>3, <1>6, <1>7, ChecksumTells
  <2> QED BY <1>6, <2>1 DEF BadIn
<1>10. (Intact(f, off + 2, L) => Region(f, off + 2, L) = idx) /\ (~Intact(f, off + 2, L) => BadIn(f))
  BY <1>1, <1>3, <1>7, ChecksumTells DEF BadIn
<1>11. /\ Intact(f, idx[L][3], idx[L][4]) => Region(f, idx[L][3], idx[L][4]) = B[L]
       /\ ~Intact(f, idx[L][3], idx[L][4]) => BadIn(f)
  BY <1>8, ChecksumTells DEF BadIn
<1>12. /\ \A p \in 1 .. 1 : Region(f, off, 1)[p] = f[off + p]
       /\ \A p \in 1 .. L : Region(f, off + 2, L)[p] = f[off + 2 + p]
  <2> DEFINE o == off + 2
  <2>1. o \in Nat /\ 1 \in Nat BY <1>3
  <2> HIDE DEF L, o
  <2>2. \A p \in 1 .. 1 : Region(f, off, 1)[p] = f[off + p] BY SMT, <1>3, <2>1, ListRegion
  <2>3. \A p \in 1 .. L : Region(f, o, L)[p] = f[o + p] BY SMT, <1>3, <2>1, ListRegion
  <2> QED BY <2>2, <2>3 DEF o
<1>13. Intact(f, off + 2, L) => f[off + 2 + L] = idx[L] BY <1>5, <1>10, <1>12
<1>14. Intact(f, off, 1) => f[off + 1] = fl BY <1>5, <1>6, <1>9, <1>12
<1>15. Opens(f) <=> /\ f[Len(f)] = Magic /\ Intact(f, off + 2, L) /\ Intact(f, off, 1)
                    /\ Intact(f, idx[L][3], idx[L][4])
  BY <1>2, <1>5, <1>13 DEF Footed
<1>16. Len(f) \in DOMAIN f
  <2>1. Len(f) \in Nat /\ DOMAIN f = 1 .. Len(f) BY ListLen
  <2>2. Len(f) = off + L + 5 BY DEF MetadataAt
  <2> QED BY SMT, <1>3, <2>1, <2>2
<1>17. f[Len(f)] = Magic \/ BadIn(f) BY <1>3, <1>16 DEF BadIn
<1>18. ~Opens(f) => BadIn(f) BY <1>9, <1>10, <1>11, <1>15, <1>17
<1>19. ASSUME Opens(f) PROVE Kept(OpenReader(f), idx, B, fl, n)
  <2>1. /\ Region(f, off + 2, L) = idx /\ f[off + 1] = fl
        /\ Region(f, idx[L][3], idx[L][4]) = B[L]
    BY <1>10, <1>11, <1>14, <1>15, <1>19
  <2>2. OpenReader(f) = [index |-> idx, filter |-> fl[2], num_entries |-> n,
                         smallest |-> idx[1][2], largest |-> B[L][Len(B[L])][2]]
    BY <1>2, <2>1 DEF Footed
  <2> QED BY SMT, <2>2 DEF Kept
<1> QED BY <1>18, <1>19

-------------------------------------------------------------------------------
(* The flush keeps the invariant *)

\* The conjunct of the invariant that pc selects.
LEMMA InPhase ==
  ASSUME NEW B, TableInv(B)
  PROVE  /\ pc = "filling" => Filling
         /\ pc \in {"add", "block"} => Adding(B)
         /\ pc \in {"meta", "sync"} => Closing(B)
         /\ pc = "reading" => Reading(B)
<1>1. Filling \/ Adding(B) \/ Closing(B) \/ Reading(B) BY DEF TableInv
<1>2. Filling => pc = "filling" BY DEF Filling
<1>3. Adding(B) => pc \in {"add", "block"} BY DEF Adding
<1>4. Closing(B) => pc \in {"meta", "sync"} BY DEF Closing
<1>5. Reading(B) => pc = "reading" BY DEF Reading
<1> HIDE DEF Filling, Adding, Closing, Reading
<1> QED BY <1>1, <1>2, <1>3, <1>4, <1>5

\* An empty file.
LEMMA NoContents ==
  ASSUME NEW m, NEW n
  PROVE  IsList(<<>>) /\ MagicLast(<<>> \o <<>>, m) /\ Sound(<<>> \o <<>>, n)
<1>1. IsList(<<>>) /\ <<>> \o <<>> = <<>> BY ListNone, ListNil
<1>2. DOMAIN <<>> = {} BY SMT
<1>3. MagicLast(<<>>, m) /\ Sound(<<>>, n) BY <1>2 DEF MagicLast, Sound
<1> QED BY <1>1, <1>3

\* Nothing is written at first.
LEMMA InitInv ==
  ASSUME Init PROVE TableInv(<<>>)
<1>1. ListInit /\ pc = "filling" /\ file = <<>> /\ todo = <<>> /\ cached = <<>> /\ iter = NoIter /\ faults = 0
  BY DEF Init, WriterInit
<1>3. 0 \in Nat OBVIOUS
<1>4. Files BY <1>1, <1>3, NoContents DEF Files, Contents
<1> QED BY <1>1, <1>4 DEF TableInv, Filling, Idle

\* A write to the memtable.
LEMMA WriteStep ==
  ASSUME NEW B, TableInv(B), NEW k \in Keys, NEW x \in Entries, Write(k, x)
  PROVE  TableInv(B)'
<1>1. Files /\ pc = "filling" BY DEF TableInv, Write
<1>2. UNCHANGED <<pc, file, todo, cached, iter, faults>> BY DEF Write, tableVars, writerVars, readerVars
<1>4. Filling BY <1>1, InPhase
<1>5. Filling' BY <1>2, <1>4 DEF Filling, Idle
<1>6. Files' BY <1>1, <1>2 DEF Files, Contents
<1> QED BY <1>5, <1>6 DEF TableInv

\* A flush begins.
LEMMA FlushStep ==
  ASSUME NEW B, TableInv(B), Walkable, Flush
  PROVE  TableInv(<<>>)'
<1> DEFINE m == forward[Head0][1]
<1>1. /\ Files /\ pc = "filling" /\ count > 0 /\ pc' = "add" /\ node' = m
      /\ file' = <<>> /\ todo' = <<>> /\ buf' = <<>> /\ index' = <<>> /\ added' = {}
  BY DEF TableInv, Flush
<1>2. UNCHANGED <<entry, cached, iter, faults>> BY DEF Flush, listVars, readerVars
<1>3. Filling BY <1>1, InPhase
<1>4. Idle' BY <1>2, <1>3 DEF Filling, Idle
<1>6. Files' BY <1>1, <1>2, NoContents DEF Files, Contents
<1>7. Held(entry) # {} BY <1>1 DEF Walkable
<1>8. /\ Head0 \in Nat /\ m \in Held(entry) \cup {Null} /\ Head0 < m
      /\ \A k \in Held(entry) : k < m <=> k <= Head0
  BY DEF Walkable, Leads
<1> HIDE DEF m
<1>9. {} = {k \in Held(entry) : k < m}
  <2>1. ASSUME NEW k \in Held(entry) PROVE ~(k <= Head0)
    <3>1. k \in Nat /\ 0 < k BY KeyIsNat DEF Held
    <3> QED BY SMT, <3>1 DEF Head0
  <2> QED BY <1>8, <2>1
<1> DEFINE nil == <<>>
<1>10. IsList(nil) /\ DOMAIN nil = {} BY SMT, ListNone
<1> HIDE DEF nil
<1>11. /\ Blocks(nil, nil, entry) /\ Stored(nil, nil, Contents') /\ Taken(nil, nil, entry, m, {}, nil)
  BY <1>7, <1>8, <1>9, <1>10 DEF Blocks, Stored, Taken
<1>12. Adding(nil)' BY <1>1, <1>2, <1>4, <1>11 DEF Adding, nil
<1>13. TableInv(nil)' BY <1>6, <1>12 DEF TableInv
<1> QED BY <1>13 DEF nil

\* What the writer holds before it puts more behind the file.
LEMMA AddState ==
  ASSUME NEW B, TableInv(B), pc = "add"
  PROVE  /\ Idle /\ Blocks(index, B, entry) /\ Stored(index, B, file)
         /\ Taken(index, B, entry, node, added, buf) /\ IsList(buf) /\ IsList(index)
         /\ IsList(file) /\ faults \in Nat /\ MagicLast(file, FALSE) /\ Sound(file, faults)
<1>1. Adding(B) /\ Files BY InPhase DEF TableInv
<1>2. /\ Idle /\ Blocks(index, B, entry) /\ Stored(index, B, Contents)
      /\ Taken(index, B, entry, node, added, buf) /\ todo = <<>>
  BY <1>1 DEF Adding
<1>3. Contents = file /\ IsList(file) /\ faults \in Nat BY <1>1, <1>2, ListNil DEF Files, Contents
<1>4. MagicLast(file, FALSE) /\ Sound(file, faults)
  <2>1. ~(pc \in {"meta", "sync", "reading"}) OBVIOUS
  <2> QED BY <1>1, <1>3, <2>1 DEF Files, MagicLast
<1>5. IsList(buf) /\ IsList(index) BY <1>2 DEF Taken, Blocks
<1> QED BY <1>1, <1>2, <1>3, <1>4, <1>5

\* A buffer goes to the file.
LEMMA BlockStep ==
  ASSUME NEW B, NEW b, NEW a, NEW n, IsList(b), b # <<>>, Idle, Blocks(index, B, entry),
         Stored(index, B, file), Taken(index, B, entry, n, a, b), IsList(file), faults \in Nat,
         MagicLast(file, FALSE), Sound(file, faults),
         pc' = "block", todo' = Summed(b), buf' = b, added' = a, node' = n,
         UNCHANGED <<entry, file, index, cached, iter, faults>>
  PROVE  TableInv(B)'
<1> DEFINE s == Summed(b)
           c == file \o s
<1>1. Extends(file, c) /\ UnderWay(c, b) BY BlockOut
<1>2. IsList(s)
  <2>1. Appended(b, Crc32(b), s) BY ListAppend DEF Summed
  <2> HIDE DEF s
  <2> QED BY <2>1 DEF Appended
<1>3. s # <<>>
  <2>1. s = <<>> => c = file BY ListNil
  <2>2. Len(c) = Len(file) + Len(b) + 1 BY SummedLies
  <2>3. Len(file) \in Nat /\ Len(b) \in Nat BY ListLen
  <2> HIDE DEF c, s
  <2> QED BY SMT, <2>1, <2>2, <2>3
<1>4. Contents' = c BY DEF Contents
<1>5. Stored(index, B, c)
  <2> HIDE DEF s
  <2> QED BY <1>2, StoredLonger
<1>6. todo' = s OBVIOUS
<1> HIDE DEF c, s
<1>7. MagicLast(c, FALSE) /\ Sound(c, faults) BY <1>1, MarksKept
<1>8. Files' BY <1>2, <1>4, <1>6, <1>7 DEF Files, MagicLast
<1>9. pc' # "add" /\ pc' \in {"add", "block"} OBVIOUS
<1>10. Idle' BY DEF Idle
<1>11. Adding(B)' BY <1>1, <1>3, <1>4, <1>5, <1>6, <1>9, <1>10 DEF Adding
<1> QED BY <1>8, <1>11 DEF TableInv

\* AddRecord, the buffer going to the file when it is full.
LEMMA AddStep ==
  ASSUME NEW B, TableInv(B), Walkable, AddRecord
  PROVE  TableInv(B)'
<1> DEFINE m == forward[node][1]
           r == Rec(node, entry[node])
           b == Append(buf, r)
           a == added \cup {node}
<1>1. /\ Files /\ pc = "add" /\ node # Null /\ buf' = b /\ added' = a /\ node' = m
      /\ IF Len(b) >= BlockSize THEN pc' = "block" /\ todo' = Summed(b) ELSE pc' = pc /\ todo' = todo
  BY DEF TableInv, AddRecord
<1>2. UNCHANGED <<entry, file, index, cached, iter, faults>> BY DEF AddRecord, listVars, readerVars
<1>4. /\ Idle /\ Blocks(index, B, entry) /\ Stored(index, B, file)
      /\ Taken(index, B, entry, node, added, buf) /\ IsList(buf) /\ IsList(index)
      /\ IsList(file) /\ faults \in Nat /\ MagicLast(file, FALSE) /\ Sound(file, faults)
  BY <1>1, AddState
<1>7. node \in Held(entry) BY <1>1, <1>4 DEF Taken
<1>8. /\ node \in Nat /\ m \in Held(entry) \cup {Null} /\ node < m
      /\ \A k \in Held(entry) : k < m <=> k <= node
  BY <1>7 DEF Walkable, Leads
<1> HIDE DEF m
<1>9. Taken(index, B, entry, m, a, b) BY <1>4, <1>7, <1>8, TakenNext DEF Walkable, NullBehind
<1>10. IsList(b) /\ b # <<>>
  <2>1. Appended(buf, r, b) BY <1>4, ListAppend
  <2> HIDE DEF b
  <2>2. IsList(b) /\ Len(b) = Len(buf) + 1 BY <2>1 DEF Appended
  <2>3. Len(buf) \in Nat /\ (b = <<>> <=> Len(b) = 0) BY <1>4, <2>2, ListLen
  <2> QED BY SMT, <2>2, <2>3
<1> HIDE DEF a, b
<1>11. CASE Len(b) >= BlockSize
  <2>1. pc' = "block" /\ todo' = Summed(b) BY <1>1, <1>11
  <2> QED BY <1>1, <1>2, <1>4, <1>9, <1>10, <2>1, BlockStep
<1>12. CASE ~(Len(b) >= BlockSize)
  <2>1. pc' = pc /\ todo' = todo BY <1>1, <1>12
  <2>2. Contents' = Contents BY <1>2, <2>1 DEF Contents
  <2>3. Files' BY <1>1, <1>2, <2>1, <2>2 DEF Files
  <2>4. todo = <<>> /\ Contents = file
    <3>1. Adding(B) BY <1>1, InPhase
    <3> QED BY <1>1, <1>4, <3>1, ListNil DEF Adding, Contents
  <2>5. Idle' BY <1>2, <1>4 DEF Idle
  <2>6. pc' \in {"add", "block"} BY <1>1, <2>1
  <2>7. Adding(B)' BY <1>1, <1>2, <1>4, <1>9, <2>1, <2>2, <2>4, <2>5, <2>6 DEF Adding
  <2> QED BY <2>3, <2>7 DEF TableInv
<1> QED BY <1>11, <1>12

\* Finish: the tail block, or the metadata.
LEMMA FinishStep ==
  ASSUME NEW B, TableInv(B), Walkable, Finish
  PROVE  TableInv(B)'
<1> DEFINE w == Metadata(Len(file), TheFilter, index, Cardinality(added))
<1>1. /\ pc = "add" /\ node = Null
      /\ IF buf # <<>> THEN pc' = "block" /\ todo' = Summed(buf) ELSE pc' = "meta" /\ todo' = w
  BY DEF Finish, TheFilter, FilterOf
<1>2. UNCHANGED <<entry, node, file, buf, index, added, cached, iter, faults, hash>>
  BY DEF Finish, listVars, readerVars
<1>3. /\ Idle /\ Blocks(index, B, entry) /\ Stored(index, B, file)
      /\ Taken(index, B, entry, node, added, buf) /\ IsList(buf) /\ IsList(index)
      /\ IsList(file) /\ faults \in Nat /\ MagicLast(file, FALSE) /\ Sound(file, faults)
  BY <1>1, AddState
<1>5. CASE buf # <<>>
  <2>1. pc' = "block" /\ todo' = Summed(buf) BY <1>1, <1>5
  <2> QED BY <1>2, <1>3, <1>5, <2>1, BlockStep
<1>6. CASE buf = <<>>
  <2>1. pc' = "meta" /\ todo' = w BY <1>1, <1>6
  <2>2. \A i \in DOMAIN index : index[i] # Magic /\ index[i] # Bad BY <1>3 DEF Blocks
  <2>3. TheFilter # Magic /\ TheFilter # Bad
    <3>1. TheFilter[1] = "filter" BY DEF TheFilter
    <3>2. Magic[1] = "magic" /\ Bad[1] = "damaged" BY DEF Magic, Bad
    <3>3. "filter" # "magic" /\ "filter" # "damaged" OBVIOUS
    <3> QED BY <3>1, <3>2, <3>3
  <2>4. /\ IsList(w) /\ w # <<>> /\ MetadataAt(file \o w, Len(file), index, TheFilter, Cardinality(added))
        /\ MagicLast(file \o w, TRUE) /\ Sound(file \o w, faults)
    BY <1>3, <2>2, <2>3, MetadataOut
  <2> HIDE DEF w
  <2>5. Contents' = file \o w BY <1>2, <2>1 DEF Contents
  <2>6. Stored(index, B, file \o w) BY <1>3, <2>4, StoredLonger
  <2>7. TheFilter' = TheFilter BY <1>2 DEF TheFilter, FilterOf
  <2>8. Held(entry) # {} /\ added = Held(entry) /\ \A k \in Held(entry) : InBlock(index, B, k)
    <3>1. DOMAIN <<>> = {} BY SMT
    <3>2. \A k \in Held(entry) : k < Null BY DEF Held, Walkable, NullBehind
    <3>3. Held(entry) # {} /\ added = {k \in Held(entry) : k < node} BY <1>3 DEF Taken
    <3>4. added = Held(entry) BY <1>1, <3>2, <3>3
    <3>5. \A k \in added : InBlock(index, B, k) BY <1>3, <1>6, <3>1 DEF Taken
    <3> QED BY <3>3, <3>4, <3>5
  <2>9. Complete(index, B, entry, added, TheFilter, file \o w) BY <2>4, <2>8 DEF Complete
  <2>10. pc' \in {"meta", "sync"} /\ pc' \in {"meta", "sync", "reading"} BY <2>1
  <2>11. Files' BY <1>2, <1>3, <2>1, <2>4, <2>5, <2>10 DEF Files, MagicLast
  <2>12. Idle' BY <1>2, <1>3 DEF Idle
  <2>13. Closing(B)' BY <1>2, <1>3, <2>1, <2>4, <2>5, <2>6, <2>7, <2>9, <2>10, <2>12 DEF Closing
  <2> QED BY <2>11, <2>13 DEF TableInv
<1> QED BY <1>5, <1>6

\* WriteRaw moves a unit to the file; behind a block, FlushBlock notes it.
LEMMA WriteRawStep ==
  ASSUME NEW B, TableInv(B), WriteRaw
  PROVE  \E C : TableInv(C)'
<1>1. /\ Files /\ pc \in {"block", "meta"}
      /\ file' = Append(file, Head(todo)) /\ todo' = Tail(todo)
      /\ IF todo' # <<>> THEN pc' = pc /\ buf' = buf /\ index' = index
         ELSE IF pc = "meta" THEN pc' = "sync" /\ buf' = buf /\ index' = index
         ELSE /\ pc' = "add" /\ buf' = <<>>
              /\ index' = Append(index, <<"entry", buf[1][2], Len(file') - Len(buf) - 1, Len(buf)>>)
  BY DEF TableInv, WriteRaw
<1>2. UNCHANGED <<entry, node, added, cached, iter, faults, hash>>
  BY DEF WriteRaw, listVars, readerVars
<1>4. IsList(file) /\ IsList(todo) BY <1>1 DEF Files
<1>5. pc = "block" \/ pc = "meta" BY <1>1
<1>6. todo # <<>>
  <2>1. pc # "add" BY <1>1
  <2>2. (pc = "block" => Adding(B)) /\ (pc = "meta" => Closing(B)) BY InPhase
  <2> QED BY <1>5, <2>1, <2>2 DEF Adding, Closing
<1>7. IsList(file') /\ IsList(todo') /\ file' \o todo' = file \o todo BY <1>1, <1>4, <1>6, ListMove
<1>8. Contents' = Contents BY <1>7 DEF Contents
<1>9. Idle /\ Idle'
  <2>1. (pc = "block" => Adding(B)) /\ (pc = "meta" => Closing(B)) BY InPhase
  <2>2. Idle BY <1>5, <2>1 DEF Adding, Closing
  <2> QED BY <1>2, <2>2 DEF Idle
<1>10. ASSUME pc' \in {"meta", "sync", "reading"} <=> pc \in {"meta", "sync", "reading"} PROVE Files'
  BY <1>1, <1>2, <1>7, <1>8, <1>10 DEF Files, MagicLast
<1>11. TheFilter' = TheFilter BY <1>2 DEF TheFilter, FilterOf
<1>12. CASE pc = "meta"
  <2>1. Closing(B) BY <1>12, InPhase
  <2>2. pc' = (IF todo' # <<>> THEN "meta" ELSE "sync") /\ index' = index BY <1>1, <1>12
  <2>3. pc' \in {"meta", "sync"} /\ (pc' = "meta" <=> todo' # <<>>) BY <2>2
  <2>4. Files' BY <1>10, <1>12, <2>3
  <2>5. /\ Blocks(index, B, entry) /\ Stored(index, B, Contents)
        /\ Complete(index, B, entry, added, TheFilter, Contents)
    BY <2>1 DEF Closing
  <2>6. Closing(B)' BY <1>2, <1>8, <1>9, <1>11, <2>2, <2>3, <2>5 DEF Closing
  <2> QED BY <2>4, <2>6 DEF TableInv
<1>13. CASE pc = "block"
  <2>1. Adding(B) /\ pc # "add" /\ pc # "meta" BY <1>13, InPhase
  <2>2. /\ Blocks(index, B, entry) /\ Stored(index, B, Contents)
        /\ Taken(index, B, entry, node, added, buf) /\ UnderWay(Contents, buf)
    BY <2>1 DEF Adding
  <2>3. CASE todo' # <<>>
    <3>1. pc' = "block" /\ buf' = buf /\ index' = index /\ pc' = pc BY <1>1, <1>13, <2>3
    <3>2. Files' BY <1>10, <3>1
    <3>3. pc' \in {"add", "block"} /\ pc' # "add" BY <2>1, <3>1
    <3>4. Adding(B)' BY <1>2, <1>8, <1>9, <2>2, <2>3, <3>1, <3>3 DEF Adding
    <3> QED BY <3>2, <3>4 DEF TableInv
  <2>4. CASE todo' = <<>>
    <3>1. /\ pc' = "add" /\ buf' = <<>>
          /\ index' = Append(index, <<"entry", buf[1][2], Len(file') - Len(buf) - 1, Len(buf)>>)
      BY <1>1, <2>1, <2>4
    <3>2. Contents = file' BY <1>7, <2>4, ListNil DEF Contents
    <3>3. PICK off \in Nat : Len(Contents) = off + Len(buf) + 1 /\ Lies(Contents, off, buf)
      BY <2>2 DEF UnderWay
    <3>4. buf # <<>> /\ IsList(buf) BY <2>2 DEF UnderWay, Taken
    <3>5. Len(file') - Len(buf) - 1 = off
      <4>1. Len(buf) \in Nat BY <3>4, ListLen
      <4>2. Len(file') = off + Len(buf) + 1 BY <3>2, <3>3
      <4> QED BY SMT, <4>1, <4>2
    <3>6. index' = NewIndex(index, buf, off) BY <3>1, <3>5 DEF NewIndex
    <3>7. PICK J, C : /\ J = NewIndex(index, buf, off) /\ Blocks(J, C, entry) /\ Stored(J, C, Contents)
                      /\ Taken(J, C, entry, node, added, <<>>)
      BY <2>2, <3>3, <3>4, BlockNoted
    <3>8. index' = J BY <3>6, <3>7
    <3>9. Files' BY <1>10, <1>13, <3>1
    <3>10. pc' \in {"add", "block"} BY <3>1
    <3>11. Adding(C)' BY <1>2, <1>8, <1>9, <2>4, <3>1, <3>7, <3>8, <3>10 DEF Adding
    <3> QED BY <3>9, <3>11 DEF TableInv
  <2> QED BY <2>3, <2>4
<1> QED BY <1>5, <1>12, <1>13

\* The flush gives up.
LEMMA GiveUpStep ==
  ASSUME GiveUp, faults' \in Nat, Idle, UNCHANGED <<cached, iter>>
  PROVE  TableInv(<<>>)'
<1>1. pc' = "filling" /\ file' = <<>> /\ todo' = <<>> BY DEF GiveUp
<1>3. Files' BY <1>1, NoContents DEF Files, Contents
<1>4. Filling' BY <1>1 DEF Filling, Idle
<1> QED BY <1>3, <1>4 DEF TableInv

\* WriteFail: the flush gives up its file.
LEMMA FailStep ==
  ASSUME NEW B, TableInv(B), WriteFail
  PROVE  TableInv(<<>>)'
<1>1. Files /\ pc \in {"block", "meta", "sync"} /\ GiveUp /\ faults' = faults + 1 BY DEF TableInv, WriteFail, Fault
<1>2. UNCHANGED <<cached, iter>> BY DEF WriteFail
<1>3. faults' \in Nat BY SMT, <1>1 DEF Files
<1>4. Idle
  <2>1. pc \in {"add", "block"} \/ pc \in {"meta", "sync"} BY <1>1
  <2>2. Adding(B) \/ Closing(B) BY <2>1, InPhase
  <2> QED BY <2>2 DEF Adding, Closing
<1> QED BY <1>1, <1>2, <1>3, <1>4, GiveUpStep

\* The finished file, before Open.
LEMMA SyncState ==
  ASSUME NEW B, TableInv(B), pc = "sync"
  PROVE  /\ Idle /\ IsList(file) /\ faults \in Nat /\ todo = <<>> /\ Contents = file
         /\ Blocks(index, B, entry) /\ Stored(index, B, file)
         /\ Complete(index, B, entry, added, TheFilter, file) /\ index # <<>>
<1>1. Closing(B) /\ Files BY InPhase DEF TableInv
<1>2. pc # "meta" OBVIOUS
<1>3. /\ Idle /\ Blocks(index, B, entry) /\ Stored(index, B, Contents)
      /\ Complete(index, B, entry, added, TheFilter, Contents) /\ todo = <<>>
  BY <1>1, <1>2 DEF Closing
<1>4. IsList(file) /\ faults \in Nat /\ Contents = file BY <1>1, <1>3, ListNil DEF Files, Contents
<1>5. index # <<>>
  <2>1. DOMAIN <<>> = {} BY SMT
  <2> QED BY <1>3, <2>1 DEF Complete, InBlock
<1> QED BY <1>1, <1>3, <1>4, <1>5

\* Open, and the fresh memtable.
LEMMA OpenStep ==
  ASSUME NEW B, TableInv(B), Open
  PROVE  \E C : TableInv(C)'
<1>1. /\ pc = "sync"
      /\ IF Opens(file) THEN reader' = OpenReader(file) /\ pc' = "reading" /\ table' = entry /\ Reset ELSE GiveUp
  BY DEF Open
<1>2. /\ Idle /\ IsList(file) /\ faults \in Nat /\ todo = <<>> /\ Contents = file
      /\ Blocks(index, B, entry) /\ Stored(index, B, file)
      /\ Complete(index, B, entry, added, TheFilter, file) /\ index # <<>>
  BY <1>1, SyncState
<1>3. UNCHANGED <<hash, cached, iter, faults>> BY DEF Open
<1>4. CASE ~Opens(file)
  <2>1. GiveUp BY <1>1, <1>4
  <2>2. TableInv(<<>>)' BY <1>2, <1>3, <2>1, GiveUpStep
  <2> QED BY <2>2
<1>5. CASE Opens(file)
  <2>1. reader' = OpenReader(file) /\ pc' = "reading" /\ table' = entry /\ Reset BY <1>1, <1>5
  <2>2. UNCHANGED <<file, todo, index, added>> BY <1>5 DEF Open, writerVars
  <2>4. PICK off : MetadataAt(file, off, index, TheFilter, Cardinality(added)) BY <1>2 DEF Complete
  <2>5. Kept(OpenReader(file), index, B, TheFilter, Cardinality(added)) BY <1>2, <1>5, <2>4, OpenRight
  <2>6. TheFilter[2] = FilterOf(added) BY DEF TheFilter
  <2>7. reader'.index = index' /\ reader'.filter = FilterOf(added) BY <2>1, <2>2, <2>5, <2>6 DEF Kept
  <2>8. FilterOf(added)' = FilterOf(added) /\ TheFilter' = TheFilter BY <1>3, <2>2 DEF TheFilter, FilterOf
  <2>9. CachedRight(index', B, cached')
    <3>1. DOMAIN <<>> = {} BY SMT
    <3> QED BY <1>2, <1>3, <3>1 DEF CachedRight, Idle
  <2>10. iter' = NoIter /\ ~NoIter.valid BY <1>2, <1>3 DEF Idle, NoIter
  <2>11. IterAt(index', B, iter', seen') /\ Iterated(iter', seen', target', table') BY <2>10 DEF IterAt, Iterated
  <2>12. Contents' = Contents BY <2>2 DEF Contents
  <2>13. pc' \in {"meta", "sync", "reading"} /\ pc \in {"meta", "sync", "reading"} BY <1>1, <2>1
  <2>14. Files' BY <1>3, <2>2, <2>12, <2>13 DEF TableInv, Files, MagicLast
  <2>15. Reading(B)' BY <1>2, <2>1, <2>2, <2>7, <2>8, <2>9, <2>11, <2>12 DEF Reading
  <2> QED BY <2>14, <2>15 DEF TableInv
<1> QED BY <1>4, <1>5

-------------------------------------------------------------------------------
(* Reads keep it *)

\* The table that is read.
LEMMA ReadState ==
  ASSUME NEW B, TableInv(B), Reading(B)
  PROVE  /\ IsList(file) /\ faults \in Nat /\ todo = <<>> /\ Contents = file
         /\ Blocks(index, B, table) /\ Stored(index, B, file)
         /\ Complete(index, B, table, added, TheFilter, file) /\ index # <<>>
         /\ reader.index = index /\ reader.filter = FilterOf(added)
         /\ CachedRight(index, B, cached)
         /\ IterAt(index, B, iter, seen) /\ Iterated(iter, seen, target, table)
<1>1. Files BY DEF TableInv
<1>2. /\ todo = <<>> /\ Blocks(index, B, table) /\ Stored(index, B, Contents)
      /\ Complete(index, B, table, added, TheFilter, Contents)
      /\ reader.index = index /\ reader.filter = FilterOf(added)
      /\ CachedRight(index, B, cached)
      /\ IterAt(index, B, iter, seen) /\ Iterated(iter, seen, target, table)
  BY DEF Reading
<1>3. IsList(file) /\ faults \in Nat /\ Contents = file BY <1>1, <1>2, ListNil DEF Files, Contents
<1>4. index # <<>>
  <2>1. DOMAIN <<>> = {} BY SMT
  <2> QED BY <1>2, <2>1 DEF Complete, InBlock
<1> QED BY <1>1, <1>2, <1>3, <1>4

\* A read changes the cache or the iterator.
LEMMA ReadStep ==
  ASSUME NEW B, TableInv(B), Reading(B), UNCHANGED <<hash, pc, writerVars, reader, table, faults>>,
         CachedRight(index, B, cached'), IterAt(index, B, iter', seen'), Iterated(iter', seen', target', table)
  PROVE  TableInv(B)'
<1>1. UNCHANGED <<hash, pc, file, todo, index, added, reader, table, faults>> BY DEF writerVars
<1>2. Files BY DEF TableInv
<1>4. Contents' = Contents /\ TheFilter' = TheFilter /\ FilterOf(added)' = FilterOf(added)
  BY <1>1 DEF Contents, TheFilter, FilterOf
<1>5. Files' BY <1>1, <1>2, <1>4 DEF Files
<1>6. Reading(B)' BY <1>1, <1>4 DEF Reading
<1> QED BY <1>5, <1>6 DEF TableInv

\* Get puts the block it read in the cache.
LEMMA LookupStep ==
  ASSUME NEW B, TableInv(B), NEW k \in Keys, Lookup(k)
  PROVE  TableInv(B)'
<1> DEFINE i == Max(BlockFor(reader, k))
           b == BlockOf(reader, file, i)
<1>1. /\ pc = "reading" /\ BlockFor(reader, k) # {} /\ BlockOK(reader, file, i)
      /\ cached' = [j \in DOMAIN cached \cup {i} |-> IF j = i THEN b ELSE cached[j]]
  BY DEF Lookup
<1>2. UNCHANGED <<hash, pc, writerVars, reader, table, faults, iter, target, seen>> BY DEF Lookup
<1>3. Reading(B) BY <1>1, InPhase
<1>4. /\ IsList(file) /\ Blocks(index, B, table) /\ Stored(index, B, file) /\ reader.index = index
      /\ CachedRight(index, B, cached) /\ IterAt(index, B, iter, seen) /\ Iterated(iter, seen, target, table)
  BY <1>3, ReadState
<1>5. i \in DOMAIN index BY <1>1, <1>4, BlockForRight
<1> HIDE DEF i
<1>6. Yields(reader, file, i, B[i]) BY <1>4, <1>5, BlockReads
<1>7. b = B[i] BY <1>1, <1>6 DEF Yields
<1> HIDE DEF b
<1>8. CachedRight(index, B, cached') BY <1>1, <1>4, <1>7 DEF CachedRight
<1>9. IterAt(index, B, iter', seen') /\ Iterated(iter', seen', target', table) BY <1>2, <1>4
<1>10. UNCHANGED <<hash, pc, writerVars, reader, table, faults>> BY <1>2
<1> QED BY <1>2, <1>3, <1>8, <1>9, <1>10, ReadStep

\* A block leaves the cache.
LEMMA EvictStep ==
  ASSUME NEW B, TableInv(B), NEW i \in DOMAIN cached, Evict(i)
  PROVE  TableInv(B)'
<1>1. cached' = [j \in DOMAIN cached \ {i} |-> cached[j]] BY DEF Evict
<1>2. UNCHANGED <<hash, pc, writerVars, reader, table, faults, iter, target, seen>> BY DEF Evict
<1>3. Reading(B)
  <2>1. DOMAIN <<>> = {} BY SMT
  <2>2. ~Idle BY <2>1 DEF Idle
  <2> QED BY <2>2 DEF TableInv, Filling, Adding, Closing
<1>4. CachedRight(index, B, cached) /\ IterAt(index, B, iter, seen) /\ Iterated(iter, seen, target, table)
  BY <1>3, ReadState
<1>5. CachedRight(index, B, cached') BY <1>1, <1>4 DEF CachedRight
<1>6. IterAt(index, B, iter', seen') /\ Iterated(iter', seen', target', table) BY <1>2, <1>4
<1>7. UNCHANGED <<hash, pc, writerVars, reader, table, faults>> BY <1>2
<1> QED BY <1>2, <1>3, <1>5, <1>6, <1>7, ReadStep

\* The records yielded so far: those at or behind tg, in order, before what is owed.
SeenRight(sn, tg, t) ==
  /\ IsList(sn) /\ tg \in Nat
  /\ \A a \in DOMAIN sn : \E k \in Keys : k >= tg /\ t[k] # NotFound /\ sn[a] = Rec(k, t[k])
  /\ \A a, b \in DOMAIN sn : a < b => sn[a][2] < sn[b][2]
  /\ \A k \in OwedOf(sn, tg, t), a \in DOMAIN sn : sn[a][2] < k

Longer(sn, r) == IF r.valid THEN Append(sn, r.rec) ELSE sn

\* An iterator that yields the least key it owes, or ends when it owes none.
LEMMA IterYields ==
  ASSUME NEW idx, NEW B, NEW t, Blocks(idx, B, t), \A k \in Held(t) : InBlock(idx, B, k),
         NEW sn, NEW tg, SeenRight(sn, tg, t), NEW r, Parsed(idx, B, OwedOf(sn, tg, t), r)
  PROVE  IterAt(idx, B, r, Longer(sn, r)) /\ Iterated(r, Longer(sn, r), tg, t)
<1> DEFINE W == OwedOf(sn, tg, t)
<1>1. ASSUME NEW k \in W PROVE k \in Keys /\ k >= tg /\ t[k] # NotFound /\ InBlock(idx, B, k)
  BY DEF OwedOf, Held
<1>2. IsList(sn) /\ tg \in Nat /\ \A k \in W, a \in DOMAIN sn : sn[a][2] < k BY DEF SeenRight
<1>3. CASE r.valid = TRUE /\ Yielded(idx, B, r) /\ r.rec[2] \in W
           /\ \A j \in DOMAIN idx : \A q \in DOMAIN B[j] : B[j][q][2] \in W => r.rec[2] <= B[j][q][2]
  <2> DEFINE x == r.rec
             s == Append(sn, x)
             z == Len(sn) + 1
             V == OwedOf(s, tg, t)
  <2>1. Longer(sn, r) = s BY <1>3 DEF Longer
  <2>2. Appended(sn, x, s) BY <1>2, ListAppend
  <2>3. x = Rec(x[2], t[x[2]])
    <3>1. r.blk \in DOMAIN idx /\ r.block = B[r.blk] /\ r.pos - 1 \in DOMAIN r.block /\ r.rec = r.block[r.pos - 1]
      BY <1>3 DEF Yielded
    <3> DEFINE i == r.blk
               p == r.pos - 1
    <3>2. i \in DOMAIN idx /\ p \in DOMAIN B[i] /\ x = B[i][p] BY <3>1
    <3> HIDE DEF i, p, x
    <3>3. RecordShape(B, t, i, p) BY <3>2, RecordAt
    <3> QED BY <3>2, <3>3 DEF RecordShape
  <2>4. x[2] \in W /\ \A j \in DOMAIN idx : \A q \in DOMAIN B[j] : B[j][q][2] \in W => x[2] <= B[j][q][2] BY <1>3
  <2> HIDE DEF x, s, W
  <2>5. IsList(s) /\ Len(s) = z /\ (\A a \in 1 .. Len(sn) : s[a] = sn[a]) /\ s[z] = x BY <2>2 DEF Appended
  <2>6. DOMAIN sn = 1 .. Len(sn) /\ Len(sn) \in Nat /\ DOMAIN s = 1 .. z BY <1>2, <2>5, ListLen
  <2>7. z \in DOMAIN s /\ s # <<>>
    <3>1. z \in 1 .. z /\ z # 0 BY SMT, <2>6
    <3> QED BY <2>5, <2>6, <3>1, ListNone
  <2>8. \A a \in DOMAIN s : (a \in DOMAIN sn /\ s[a] = sn[a]) \/ (a = z /\ s[a] = x)
    <3>1. \A a \in 1 .. z : a \in 1 .. Len(sn) \/ a = z BY SMT, <2>6
    <3> QED BY <2>5, <2>6, <3>1
  <2>9. \A a \in DOMAIN sn : a \in DOMAIN s /\ s[a] = sn[a]
    <3>1. 1 .. Len(sn) \subseteq 1 .. z BY SMT, <2>6
    <3> QED BY <2>5, <2>6, <3>1
  <2>10. ASSUME NEW a \in DOMAIN s PROVE \E k \in Keys : k >= tg /\ t[k] # NotFound /\ s[a] = Rec(k, t[k])
    <3>1. CASE s[a] = x
      <4>1. x[2] \in Keys /\ x[2] >= tg /\ t[x[2]] # NotFound BY <1>1, <2>4
      <4> QED BY <2>3, <3>1, <4>1
    <3>2. CASE a \in DOMAIN sn /\ s[a] = sn[a] BY <3>2 DEF SeenRight
    <3> QED BY <2>8, <3>1, <3>2
  <2>11. ASSUME NEW a \in DOMAIN s, NEW b \in DOMAIN s, a < b PROVE s[a][2] < s[b][2]
    <3>1. a \in DOMAIN sn BY SMT, <2>6, <2>11
    <3>2. CASE b \in DOMAIN sn BY <2>9, <2>11, <3>1, <3>2 DEF SeenRight
    <3>3. CASE b = z BY <1>2, <2>4, <2>5, <2>9, <3>1, <3>3
    <3> QED BY <2>8, <3>2, <3>3
  <2>12. ASSUME NEW k \in V PROVE k \in W /\ k # x[2]
    <3>1. ASSUME NEW a \in DOMAIN sn PROVE k # sn[a][2] BY <2>9 DEF OwedOf
    <3>2. k # x[2] BY <2>5, <2>7 DEF OwedOf
    <3>3. k \in Keys /\ k >= tg /\ t[k] # NotFound BY DEF OwedOf
    <3> QED BY <3>1, <3>2, <3>3 DEF OwedOf, W
  <2>13. ASSUME NEW k \in V PROVE x[2] < k
    <3>1. k \in W /\ k # x[2] /\ InBlock(idx, B, k) BY <1>1, <2>12
    <3>2. x[2] <= k BY <2>4, <3>1 DEF InBlock
    <3>3. k \in Nat /\ x[2] \in Nat BY <1>1, <2>4, <3>1, KeyIsNat
    <3> QED BY SMT, <3>1, <3>2, <3>3
  <2>14. \A k \in V, a \in DOMAIN s : s[a][2] < k BY <1>2, <2>8, <2>12, <2>13
  <2>15. Iterated(r, s, tg, t) BY <1>2, <1>3, <2>10, <2>11, <2>14 DEF Iterated
  <2>16. IterAt(idx, B, r, s) BY <1>3, <2>5, <2>7 DEF IterAt, x
  <2> QED BY <2>1, <2>15, <2>16
<1>4. CASE r.valid = FALSE
  <2>1. Longer(sn, r) = sn /\ ~r.valid BY <1>4 DEF Longer
  <2>2. r.ok => W = {}
    <3>1. CASE r.ok = FALSE BY <3>1
    <3>2. CASE \A j \in DOMAIN idx : \A q \in DOMAIN B[j] : B[j][q][2] \notin W
      <4> HIDE DEF W
      <4>1. ASSUME NEW k \in W PROVE FALSE
        <5>1. InBlock(idx, B, k) BY <1>1
        <5> QED BY <3>2, <5>1 DEF InBlock
      <4> QED BY <4>1
    <3> QED BY <1>4, <3>1, <3>2 DEF Parsed
  <2>3. Iterated(r, sn, tg, t) BY <2>2 DEF Iterated, SeenRight
  <2>4. IterAt(idx, B, r, sn) BY <2>1 DEF IterAt
  <2> QED BY <2>1, <2>3, <2>4
<1> QED BY <1>3, <1>4 DEF Parsed

\* Seek.
LEMMA SeekStep ==
  ASSUME NEW B, TableInv(B), NEW k \in Keys, IterSeek(k)
  PROVE  TableInv(B)'
<1> DEFINE i == IF BlockFor(reader, k) = {} THEN 1 ELSE Max(BlockFor(reader, k))
           st == LoadBlock(NoIter, i)
           W == OwedOf(<<>>, k, table)
           r == ParseTo(st, k)
<1>1. pc = "reading" /\ iter' = r /\ target' = k /\ seen' = IF r.valid THEN <<r.rec>> ELSE <<>>
  BY DEF IterSeek, Sought
<1>2. UNCHANGED <<hash, pc, writerVars, reader, cached, table, faults>> BY DEF IterSeek
<1>3. Reading(B) BY <1>1, InPhase
<1>4. /\ IsList(file) /\ Blocks(index, B, table) /\ Stored(index, B, file) /\ reader.index = index
      /\ CachedRight(index, B, cached) /\ index # <<>> /\ Complete(index, B, table, added, TheFilter, file)
  BY <1>3, ReadState
<1>5. DOMAIN index = 1 .. Len(index) /\ Len(index) \in Nat /\ Len(index) # 0 BY <1>4, ListLen DEF Blocks
<1>6. k \in Nat BY KeyIsNat
<1>7. i \in DOMAIN index /\ \A j \in DOMAIN index : j < i => index[i][2] <= k
  <2>1. CASE BlockFor(reader, k) = {}
    <3>1. i = 1 BY <2>1
    <3> HIDE DEF i
    <3> QED BY SMT, <1>5, <3>1
  <2>2. CASE BlockFor(reader, k) # {}
    <3>1. i = Max(BlockFor(reader, k)) BY <2>2
    <3>2. i \in DOMAIN index /\ index[i][2] <= k BY <1>4, <2>2, <3>1, BlockForRight
    <3> QED BY <3>2
  <2> QED BY <2>1, <2>2
<1> HIDE DEF i
<1>8. Stands(st, B, i, 1)
  <2>1. IsIter(NoIter) BY DEF IsIter, NoIter
  <2> QED BY <1>4, <1>7, <2>1, LoadIs
<1>9. DOMAIN <<>> = {} BY SMT
<1>10. \A j : j \in W <=> j \in Keys /\ j >= k /\ table[j] # NotFound BY <1>9 DEF OwedOf
<1> HIDE DEF W, st
<1>11. ASSUME NEW j \in DOMAIN index, NEW q \in DOMAIN B[j]
       PROVE  B[j][q][2] \in W <=> B[j][q][2] >= k /\ (i < j \/ (j = i /\ 1 <= q))
  <2> DEFINE x == B[j][q][2]
  <2>1. RecordShape(B, table, j, q) BY <1>4, RecordAt
  <2>2. x \in Nat /\ x \in Keys /\ table[x] # NotFound /\ q \in Nat BY <2>1 DEF RecordShape, Held
  <2>3. x \in W <=> x >= k BY <1>10, <2>2
  <2>4. 1 <= q
    <3>1. BlockShape(index, B, j) BY <1>4, BlockFacts
    <3>2. DOMAIN B[j] = 1 .. Len(B[j]) BY <3>1 DEF BlockShape
    <3> QED BY SMT, <2>2, <3>2
  <2>5. j < i => x < index[i][2] BY <1>4, <1>7 DEF Blocks
  <2>6. j < i => index[i][2] <= k BY <1>7
  <2>7. index[i][2] \in Nat
    <3>1. BlockShape(index, B, i) BY <1>4, <1>7, BlockFacts
    <3>2. 1 \in DOMAIN B[i] /\ B[i][1][2] = index[i][2] BY <3>1 DEF BlockShape
    <3>3. RecordShape(B, table, i, 1) BY <1>4, <1>7, <3>2, RecordAt
    <3> QED BY <3>2, <3>3 DEF RecordShape
  <2> HIDE DEF x
  <2>8. j < i => ~(x >= k) BY SMT, <1>6, <2>2, <2>5, <2>6, <2>7
  <2>9. j < i \/ i < j \/ j = i BY SMT, <1>5, <1>7
  <2>10. x \in W <=> x >= k /\ (i < j \/ (j = i /\ 1 <= q)) BY <2>3, <2>4, <2>8, <2>9
  <2> QED BY <2>10 DEF x
<1>12. Wanted(index, B, W, k, i, 1) BY <1>11 DEF Wanted
<1>13. 1 \in Nat \ {0} BY SMT
<1>14. Parsed(index, B, W, r) BY <1>4, <1>6, <1>7, <1>8, <1>12, <1>13, ParseRight
<1>15. SeenRight(<<>>, k, table) BY <1>6, <1>9, ListNone DEF SeenRight
<1>16. seen' = Longer(<<>>, r)
  <2> HIDE DEF r
  <2>1. Append(<<>>, r.rec) = <<r.rec>> BY SMT
  <2> QED BY <1>1, <2>1 DEF Longer, r
<1>17. \A j \in Held(table) : InBlock(index, B, j) BY <1>4 DEF Complete
<1> HIDE DEF r
<1>18. IterAt(index, B, r, Longer(<<>>, r)) /\ Iterated(r, Longer(<<>>, r), k, table)
  BY <1>4, <1>14, <1>15, <1>17, IterYields DEF W
<1>19. CachedRight(index, B, cached') BY <1>2, <1>4
<1>20. IterAt(index, B, iter', seen') /\ Iterated(iter', seen', target', table) BY <1>1, <1>16, <1>18
<1>21. UNCHANGED <<hash, pc, writerVars, reader, table, faults>> BY <1>2
<1> QED BY <1>2, <1>3, <1>19, <1>20, <1>21, ReadStep

\* Next.
LEMMA NextStep ==
  ASSUME NEW B, TableInv(B), IterNext
  PROVE  TableInv(B)'
<1> DEFINE W == OwedOf(seen, target, table)
           r == ParseTo(iter, 0)
           i == iter.blk
           p == iter.pos
<1>1. iter.valid /\ iter' = r /\ seen' = IF r.valid THEN Append(seen, r.rec) ELSE seen
  BY DEF IterNext, ParseCurrent
<1>2. UNCHANGED <<hash, pc, writerVars, reader, cached, target, table, faults>> BY DEF IterNext
<1>3. Reading(B) /\ iter # NoIter
  <2>1. ~NoIter.valid BY DEF NoIter
  <2>2. ~Idle BY <1>1, <2>1 DEF Idle
  <2> QED BY <1>1, <2>1, <2>2 DEF TableInv, Filling, Adding, Closing
<1>4. /\ IsList(file) /\ Blocks(index, B, table) /\ Stored(index, B, file) /\ reader.index = index
      /\ CachedRight(index, B, cached) /\ Complete(index, B, table, added, TheFilter, file)
      /\ IterAt(index, B, iter, seen) /\ Iterated(iter, seen, target, table)
  BY <1>3, ReadState
<1>5. Yielded(index, B, iter) /\ IsList(seen) /\ seen # <<>> /\ seen[Len(seen)] = iter.rec
  BY <1>1, <1>4 DEF IterAt
<1>6. /\ IsIter(iter) /\ iter.ok = TRUE /\ i \in DOMAIN index /\ iter.block = B[i]
      /\ p \in Nat /\ p - 1 \in DOMAIN B[i] /\ iter.rec = B[i][p - 1]
  BY <1>5 DEF Yielded
<1>7. Stands(iter, B, i, p) BY <1>6 DEF Stands
<1>8. SeenRight(seen, target, table) BY <1>3, <1>4, <1>5 DEF SeenRight, Iterated
<1> HIDE DEF i, p, W, r
<1> DEFINE o == p - 1
           y == B[i][o][2]
<1>9. o \in Nat \ {0} /\ o = p - 1 /\ p = o + 1 /\ p \in Nat \ {0} /\ o \in DOMAIN B[i]
  <2>1. BlockShape(index, B, i) BY <1>4, <1>6, BlockFacts
  <2>2. DOMAIN B[i] = 1 .. Len(B[i]) /\ Len(B[i]) \in Nat BY <2>1 DEF BlockShape
  <2> QED BY SMT, <1>6, <2>2
<1> DEFINE z == Len(seen)
<1>10. z \in Nat /\ z # 0 /\ DOMAIN seen = 1 .. z BY <1>5, ListLen
<1>11. seen[z][2] = y /\ z \in DOMAIN seen
  <2>1. z \in 1 .. z BY SMT, <1>10
  <2> QED BY <1>5, <1>6, <1>10, <2>1
<1>12. y \in Nat /\ y >= target
  <2>1. RecordShape(B, table, i, o) BY <1>4, <1>6, <1>9, RecordAt
  <2>2. PICK k \in Keys : k >= target /\ seen[z] = Rec(k, table[k]) BY <1>8, <1>11 DEF SeenRight
  <2>3. seen[z][2] = k BY <2>2, UnitsDiffer
  <2> QED BY <1>11, <2>1, <2>2, <2>3 DEF RecordShape
<1> HIDE DEF y, o, z
<1>13. ASSUME NEW a \in DOMAIN seen PROVE seen[a][2] \in Nat /\ seen[a][2] <= y
  <2>1. PICK k \in Keys : seen[a] = Rec(k, table[k]) BY <1>8 DEF SeenRight
  <2>2. seen[a][2] = k BY <2>1, UnitsDiffer
  <2>3. k \in Nat BY KeyIsNat
  <2>4. a < z \/ a = z BY SMT, <1>10
  <2>5. a < z => seen[a][2] < seen[z][2] BY <1>8, <1>11 DEF SeenRight
  <2> QED BY SMT, <1>11, <1>12, <2>2, <2>3, <2>4, <2>5
<1>14. ASSUME NEW j \in DOMAIN index, NEW q \in DOMAIN B[j]
       PROVE  B[j][q][2] \in W <=> B[j][q][2] >= 0 /\ (i < j \/ (j = i /\ p <= q))
  <2> DEFINE x == B[j][q][2]
  <2>1. RecordShape(B, table, j, q) BY <1>4, RecordAt
  <2>2. x \in Nat /\ x \in Keys /\ table[x] # NotFound /\ q \in Nat BY <2>1 DEF RecordShape, Held
  <2>3. y < x <=> Sooner(i, o, j, q) BY <1>4, <1>6, <1>9, KeyOrder DEF y
  <2> HIDE DEF x
  <2>4. Sooner(i, o, j, q) <=> i < j \/ (j = i /\ p <= q) BY SMT, <1>9, <2>2 DEF Sooner
  <2>5. ASSUME x \in W PROVE y < x BY <1>8, <1>11, <2>5 DEF SeenRight, W
  <2>6. ASSUME y < x PROVE x \in W
    <3>1. ASSUME NEW a \in DOMAIN seen PROVE x # seen[a][2] BY SMT, <1>12, <1>13, <2>2, <2>6
    <3>2. target \in Nat BY <1>8 DEF SeenRight
    <3>3. x >= target BY SMT, <1>12, <2>2, <2>6, <3>2
    <3> QED BY <2>2, <3>1, <3>3 DEF W, OwedOf
  <2>7. x >= 0 BY SMT, <2>2
  <2>8. x \in W <=> x >= 0 /\ (i < j \/ (j = i /\ p <= q)) BY <2>3, <2>4, <2>5, <2>6, <2>7
  <2> QED BY <2>8 DEF x
<1>15. Wanted(index, B, W, 0, i, p) BY <1>14 DEF Wanted
<1>16. 0 \in Nat OBVIOUS
<1>17. Parsed(index, B, W, r) BY <1>4, <1>6, <1>7, <1>9, <1>15, <1>16, ParseRight DEF r
<1>18. \A j \in Held(table) : InBlock(index, B, j) BY <1>4 DEF Complete
<1>19. IterAt(index, B, r, Longer(seen, r)) /\ Iterated(r, Longer(seen, r), target, table)
  BY <1>4, <1>8, <1>17, <1>18, IterYields DEF W
<1>20. CachedRight(index, B, cached') BY <1>2, <1>4
<1>21. IterAt(index, B, iter', seen') /\ Iterated(iter', seen', target', table) BY <1>1, <1>2, <1>19 DEF Longer
<1>22. UNCHANGED <<hash, pc, writerVars, reader, table, faults>> BY <1>2
<1> QED BY <1>2, <1>3, <1>20, <1>21, <1>22, ReadStep

\* Damage anywhere but in the footer's offsets.
LEMMA DamageKeeps ==
  ASSUME NEW idx, NEW B, NEW t, Blocks(idx, B, t), NEW f, IsList(f), Stored(idx, B, f),
         NEW a, NEW fl, Complete(idx, B, t, a, fl, f), NEW m, MagicLast(f, m),
         NEW i \in DOMAIN f, i # Len(f) - 1
  PROVE  LET g == [f EXCEPT ![i] = Bad]
         IN  IsList(g) /\ Stored(idx, B, g) /\ Complete(idx, B, t, a, fl, g) /\ MagicLast(g, m)
<1> DEFINE g == [f EXCEPT ![i] = Bad]
           one == <<fl>>
<1>1. Changed(f, i, Bad, g) BY ListExcept
<1>2. ASSUME NEW off \in Nat, NEW b, IsList(b), Lies(f, off, b) PROVE Lies(g, off, b) BY <1>2, LiesDamaged
<1> HIDE DEF g
<1>3. IsList(g) /\ Len(g) = Len(f) /\ \A j \in DOMAIN f : g[j] = IF j = i THEN Bad ELSE f[j] BY <1>1 DEF Changed
<1>4. DOMAIN g = 1 .. Len(f) /\ DOMAIN f = 1 .. Len(f) /\ Len(f) \in Nat BY <1>3, ListLen
<1>5. Stored(idx, B, g)
  <2>1. ASSUME NEW j \in DOMAIN idx PROVE Lies(g, idx[j][3], B[j])
    <3>1. idx[j][3] \in Nat /\ IsList(B[j]) /\ Lies(f, idx[j][3], B[j]) BY DEF Blocks, Stored
    <3> QED BY <1>2, <3>1
  <2> QED BY <2>1 DEF Stored
<1>6. MagicLast(g, m) BY <1>3, <1>4, UnitsDiffer DEF MagicLast
<1>7. PICK off : MetadataAt(f, off, idx, fl, Cardinality(a)) BY DEF Complete
<1>8. /\ off \in Nat /\ Len(f) = off + Len(idx) + 5 /\ Lies(f, off, one) /\ Lies(f, off + 2, idx)
      /\ f[off + Len(idx) + 4] = <<"footer", off, 1, off + 2, Len(idx), Cardinality(a)>>
      /\ f[off + Len(idx) + 5] \in {Magic, Bad}
  BY <1>7 DEF MetadataAt
<1>9. IsList(one) /\ IsList(idx) BY ListOne DEF Blocks
<1>10. Len(idx) \in Nat BY <1>9, ListLen
<1>11. /\ off + 2 \in Nat /\ off + Len(idx) + 4 \in DOMAIN f /\ off + Len(idx) + 5 \in DOMAIN f
       /\ off + Len(idx) + 4 # i
  <2>1. off \in Nat /\ Len(f) = off + Len(idx) + 5 BY <1>8
  <2> QED BY SMT, <1>4, <1>10, <2>1
<1> HIDE DEF one
<1>12. Lies(g, off, one) /\ Lies(g, off + 2, idx) BY <1>2, <1>8, <1>9, <1>11
<1>13. MetadataAt(g, off, idx, fl, Cardinality(a)) BY <1>3, <1>8, <1>11, <1>12 DEF MetadataAt, one
<1>14. Complete(idx, B, t, a, fl, g) BY <1>13 DEF Complete
<1> QED BY <1>3, <1>5, <1>6, <1>14 DEF g

\* Damage: a unit of the finished file is overwritten.
LEMMA DamageStep ==
  ASSUME NEW B, TableInv(B), NEW i \in DOMAIN file, Damage(i)
  PROVE  TableInv(B)'
<1>1. pc \in {"sync", "reading"} /\ faults' = faults + 1 /\ i # Len(file) - 1 /\ file' = [file EXCEPT ![i] = Bad]
  BY DEF Damage, Fault
<1>2. UNCHANGED <<entry, hash, pc, todo, index, added, reader, cached, iter, target, seen, table>>
  BY DEF Damage, readerVars, listVars
<1>3. Files BY DEF TableInv
<1>5. faults' \in Nat /\ faults' # 0 BY SMT, <1>1, <1>3 DEF Files
<1>6. TheFilter' = TheFilter /\ FilterOf(added)' = FilterOf(added) BY <1>2 DEF TheFilter, FilterOf
<1>7. pc \in {"meta", "sync", "reading"} BY <1>1
<1>8. ASSUME todo = <<>>, Contents = file, MagicLast(file', TRUE), IsList(file')
      PROVE  Files' /\ Contents' = file'
  <2>1. Contents' = file' BY <1>2, <1>8, ListNil DEF Contents
  <2> QED BY <1>2, <1>3, <1>5, <1>7, <1>8, <2>1 DEF Files, MagicLast, Sound
<1>9. CASE pc = "sync"
  <2>1. /\ IsList(file) /\ todo = <<>> /\ Contents = file /\ Idle
        /\ Blocks(index, B, entry) /\ Stored(index, B, file)
        /\ Complete(index, B, entry, added, TheFilter, file)
    BY <1>9, SyncState
  <2>2. MagicLast(file, TRUE) BY <1>3, <2>1 DEF Files, MagicLast
  <2>3. /\ IsList(file') /\ Stored(index, B, file') /\ Complete(index, B, entry, added, TheFilter, file')
        /\ MagicLast(file', TRUE)
    BY <1>1, <2>1, <2>2, DamageKeeps
  <2>4. Files' /\ Contents' = file' BY <1>8, <2>1, <2>3
  <2>5. Idle' BY <1>2, <2>1 DEF Idle
  <2>6. pc' \in {"meta", "sync"} /\ pc' # "meta" BY <1>2, <1>9
  <2>7. Closing(B)' BY <1>2, <1>6, <2>1, <2>3, <2>4, <2>5, <2>6 DEF Closing
  <2> QED BY <2>4, <2>7 DEF TableInv
<1>10. CASE pc = "reading"
  <2>0. Reading(B) BY <1>10, InPhase
  <2>1. /\ IsList(file) /\ todo = <<>> /\ Contents = file
        /\ Blocks(index, B, table) /\ Stored(index, B, file)
        /\ Complete(index, B, table, added, TheFilter, file)
        /\ reader.index = index /\ reader.filter = FilterOf(added) /\ CachedRight(index, B, cached)
        /\ IterAt(index, B, iter, seen) /\ Iterated(iter, seen, target, table)
    BY <2>0, ReadState
  <2>2. MagicLast(file, TRUE) BY <1>3, <2>1 DEF Files, MagicLast
  <2>3. /\ IsList(file') /\ Stored(index, B, file') /\ Complete(index, B, table, added, TheFilter, file')
        /\ MagicLast(file', TRUE)
    BY <1>1, <2>1, <2>2, DamageKeeps
  <2>4. Files' /\ Contents' = file' BY <1>8, <2>1, <2>3
  <2>5. Reading(B)' BY <1>2, <1>6, <1>10, <2>1, <2>3, <2>4 DEF Reading
  <2> QED BY <2>4, <2>5 DEF TableInv
<1> QED BY <1>1, <1>9, <1>10

-------------------------------------------------------------------------------
(* Every step keeps it *)

\* Nothing happens.
LEMMA StutterStep ==
  ASSUME NEW B, TableInv(B), UNCHANGED vars
  PROVE  TableInv(B)'
<1>2. UNCHANGED <<hash, pc, node, file, todo, buf, index, added, reader, cached, iter, target, seen, faults, table>>
  BY DEF vars, tableVars, writerVars, readerVars
<1>3. UNCHANGED entry BY DEF vars, listVars
<1>5. Contents' = Contents /\ TheFilter' = TheFilter /\ FilterOf(added)' = FilterOf(added) /\ (Idle' <=> Idle)
  BY <1>2 DEF Contents, TheFilter, FilterOf, Idle
<1>6. Files' BY <1>2, <1>5 DEF TableInv, Files
<1>7. Filling => Filling' BY <1>2, <1>5 DEF Filling
<1>8. Adding(B) => Adding(B)' BY <1>2, <1>3, <1>5 DEF Adding
<1>9. Closing(B) => Closing(B)' BY <1>2, <1>3, <1>5 DEF Closing
<1>10. Reading(B) => Reading(B)' BY <1>2, <1>5 DEF Reading
<1> QED BY <1>6, <1>7, <1>8, <1>9, <1>10 DEF TableInv

\* Every step keeps the invariant of the file, as long as the list can be walked.
LEMMA FileStep ==
  ASSUME NEW B, TableInv(B), Walkable, [Next]_vars
  PROVE  \E C : TableInv(C)'
<1> DEFINE Again == \E C : TableInv(C)'
<1>2. ASSUME NEW k \in Keys, NEW x \in Entries, Write(k, x) PROVE Again BY <1>2, WriteStep
<1>3. ASSUME Flush PROVE Again BY <1>3, FlushStep
<1>4. ASSUME AddRecord PROVE Again BY <1>4, AddStep
<1>5. ASSUME Finish PROVE Again BY <1>5, FinishStep
<1>6. ASSUME WriteRaw PROVE Again BY <1>6, WriteRawStep
<1>7. ASSUME WriteFail PROVE Again BY <1>7, FailStep
<1>8. ASSUME Open PROVE Again BY <1>8, OpenStep
<1>9. ASSUME NEW k \in Keys, Lookup(k) PROVE Again BY <1>9, LookupStep
<1>10. ASSUME NEW k \in Keys, IterSeek(k) PROVE Again BY <1>10, SeekStep
<1>11. ASSUME NEW i \in DOMAIN cached, Evict(i) PROVE Again BY <1>11, EvictStep
<1>12. ASSUME IterNext PROVE Again BY <1>12, NextStep
<1>13. ASSUME NEW i \in DOMAIN file, Damage(i) PROVE Again BY <1>13, DamageStep
<1>14. ASSUME UNCHANGED vars PROVE Again BY <1>14, StutterStep
<1> HIDE DEF Again
<1>15. Again
  BY <1>2, <1>3, <1>4, <1>5, <1>6, <1>7, <1>8, <1>9, <1>10, <1>11, <1>12, <1>13, <1>14 DEF Next
<1> QED BY <1>15 DEF Again

-------------------------------------------------------------------------------
(* What follows from it *)

\* Open takes no file that was not written to its end.
LEMMA OpensLate ==
  ASSUME NEW B, TableInv(B), Opens(file)
  PROVE  pc \in {"sync", "reading"}
<1> DEFINE n == Len(file)
<1>1. Len(file) >= 2 /\ file[n] = Magic BY DEF Opens, FooterSize
<1>2. /\ IsList(file) /\ IsList(todo) /\ MagicLast(Contents, pc \in {"meta", "sync", "reading"})
      /\ (Filling \/ Adding(B) \/ Closing(B) \/ Reading(B))
  BY DEF TableInv, Files
<1>3. Joined(file, todo, Contents) BY <1>2, ListConcat DEF Contents
<1>4. n \in Nat /\ Len(todo) \in Nat /\ (todo = <<>> <=> Len(todo) = 0) BY <1>2, ListLen
<1>5. n \in 1 .. n /\ n \in 1 .. n + Len(todo) BY SMT, <1>1, <1>4
<1>6. /\ Contents[n] = file[n] /\ Len(Contents) = n + Len(todo) /\ DOMAIN Contents = 1 .. Len(Contents)
  BY <1>3, <1>5, ListLen DEF Joined
<1>7. n = Len(Contents) /\ pc \in {"meta", "sync", "reading"} BY <1>1, <1>2, <1>5, <1>6 DEF MagicLast
<1>8. todo = <<>> BY SMT, <1>4, <1>6, <1>7
<1>9. pc # "meta"
  <2>1. ASSUME pc = "meta" PROVE FALSE
    <3>1. ~Filling /\ ~Adding(B) /\ ~Reading(B) BY <2>1 DEF Filling, Adding, Reading
    <3>2. Closing(B) BY <1>2, <3>1
    <3> QED BY <1>8, <2>1, <3>2 DEF Closing
  <2> QED BY <2>1
<1> QED BY <1>7, <1>9

\* The ends of the range are those of the blocks.
LEMMA RangeRight ==
  ASSUME NEW idx, idx # <<>>, NEW B, NEW t, Blocks(idx, B, t), \A k \in Held(t) : InBlock(idx, B, k),
         NullBehind
  PROVE  idx[1][2] = Min(Held(t)) /\ B[Len(idx)][Len(B[Len(idx)])][2] = Max(Held(t))
<1> DEFINE z == Len(idx)
           e == Len(B[z])
           S == Held(t)
<1>1. IsList(idx) BY DEF Blocks
<1>2. z \in Nat /\ z # 0 /\ DOMAIN idx = 1 .. z BY <1>1, ListLen
<1>3. 1 \in DOMAIN idx /\ z \in DOMAIN idx BY SMT, <1>2
<1>4. BlockShape(idx, B, 1) /\ BlockShape(idx, B, z) BY <1>3, BlockFacts
<1>5. 1 \in DOMAIN B[1] /\ e \in DOMAIN B[z] /\ e \in Nat /\ idx[1][2] = B[1][1][2] BY <1>4 DEF BlockShape
<1> HIDE DEF z, e
<1> DEFINE x == B[1][1][2]
           y == B[z][e][2]
<1>6. RecordShape(B, t, 1, 1) /\ RecordShape(B, t, z, e) BY <1>3, <1>5, RecordAt
<1>7. x \in S /\ y \in S BY <1>6 DEF RecordShape
<1>8. ASSUME NEW k \in S PROVE x <= k /\ k <= y
  <2>1. PICK i \in DOMAIN idx : \E p \in DOMAIN B[i] : B[i][p][2] = k BY DEF InBlock
  <2>2. PICK p \in DOMAIN B[i] : B[i][p][2] = k BY <2>1
  <2>3. RecordShape(B, t, i, p) /\ BlockShape(idx, B, i) BY <2>2, RecordAt, BlockFacts
  <2>4. i \in 1 .. z /\ p \in 1 .. Len(B[i]) /\ Len(B[i]) \in Nat BY <1>2, <2>3 DEF BlockShape
  <2>5. x < k <=> Sooner(1, 1, i, p) BY <1>3, <1>5, <2>2, KeyOrder
  <2>6. k < y <=> Sooner(i, p, z, e) BY <1>3, <1>5, <2>2, KeyOrder
  <2>7. x \in Nat /\ y \in Nat /\ k \in Nat BY <1>6, <2>2, <2>3 DEF RecordShape
  <2>8. (1 = i /\ 1 = p) => x = k BY <2>2
  <2>9. (i = z /\ p = e) => y = k BY <2>2
  <2>10. i = z => Len(B[i]) = e BY DEF e
  <2> HIDE DEF x, y
  <2>11. x <= k BY SMT, <2>4, <2>5, <2>7, <2>8 DEF Sooner
  <2>12. k <= y
    <3>1. Sooner(i, p, z, e) \/ (i = z /\ p = e) BY SMT, <1>2, <1>5, <2>4, <2>10 DEF Sooner
    <3> QED BY SMT, <2>6, <2>7, <2>9, <3>1
  <2> QED BY <2>11, <2>12
<1> HIDE DEF x, y
<1>9. S \in SUBSET Nat /\ S \in SUBSET (0 .. Null) /\ Null \in Nat /\ S # {}
  <2>1. ASSUME NEW k \in S PROVE k \in Nat /\ k \in 0 .. Null
    <3>1. k \in Nat /\ k < Null /\ Null \in Nat BY KeyIsNat DEF Held, NullBehind
    <3> QED BY SMT, <3>1
  <2> QED BY <1>7, <2>1 DEF NullBehind
<1> HIDE DEF S
<1>10. Min(S) \in S /\ Min(S) <= x /\ x <= Min(S) BY <1>7, <1>8, <1>9, LeastNat
<1>11. Max(S) \in S /\ Max(S) >= y /\ Max(S) <= y BY <1>7, <1>8, <1>9, GreatestNat
<1>12. x \in Nat /\ y \in Nat /\ Min(S) \in Nat /\ Max(S) \in Nat BY <1>7, <1>9, <1>10, <1>11
<1>13. x = Min(S) /\ y = Max(S) BY SMT, <1>10, <1>11, <1>12
<1> QED BY <1>5, <1>13 DEF x, y, S, e, z

\* FinishedOpens, from the invariant of the file.
LEMMA OpensFollows == ASSUME NEW B, TableInv(B) PROVE FinishedOpens
<1> SUFFICES ASSUME pc = "sync", faults = 0 PROVE Opens(file) BY DEF FinishedOpens
<1>2. /\ IsList(file) /\ Contents = file /\ Blocks(index, B, entry) /\ Stored(index, B, file)
      /\ Complete(index, B, entry, added, TheFilter, file) /\ index # <<>>
  BY SyncState
<1>3. PICK off : MetadataAt(file, off, index, TheFilter, Cardinality(added)) BY <1>2 DEF Complete
<1>4. ~BadIn(file) BY <1>2 DEF TableInv, Files, Sound, BadIn
<1> QED BY <1>2, <1>3, <1>4, OpenRight

\* IterationRight, from the invariant of the file.
LEMMA IterationFollows == ASSUME NEW B, TableInv(B) PROVE IterationRight
<1> SUFFICES ASSUME iter # NoIter PROVE IterationRight BY DEF IterationRight
<1>2. Reading(B) BY DEF TableInv, Filling, Adding, Closing, Idle
<1>3. Iterated(iter, seen, target, table) BY <1>2, ReadState
<1> QED BY <1>3 DEF IterationRight, Iterated, Owed, OwedOf
===============================================================================
