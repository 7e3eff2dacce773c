--------------------------- MODULE BlockCacheProofs ---------------------------
(***************************************************************************)
(* The invariants of the block cache, for any number of readers, any       *)
(* blocks and sizes, and any capacity.  Together they are inductive.       *)
(***************************************************************************)
EXTENDS BlockCache, FiniteSetTheorems, SequenceTheorems, TLAPS

\* Zenon proves the leaves; those with arithmetic, tuples or records name SMT.
USE Zenon

-------------------------------------------------------------------------------
(* Least and greatest numbers *)

\* A nonempty set of natural numbers has a least element.
LEMMA LeastNat ==
  ASSUME NEW S \in SUBSET Nat, S # {}
  PROVE  Min(S) \in S /\ \A n \in S : Min(S) <= n
<1> DEFINE R == OpToRel(<, Nat)
<1>1. IsWellFoundedOn(R, Nat) BY NatLessThanWellFounded
<1>2. \A m, n \in Nat : <<n, m>> \in R <=> n < m BY DEF OpToRel
<1> HIDE DEF R
<1>3. PICK m \in S : \A n \in S : <<n, m>> \notin R BY <1>1, WFMin
<1>4. ASSUME NEW n \in S PROVE m <= n
  <2>1. m \in Nat /\ n \in Nat OBVIOUS
  <2>2. ~(n < m) BY <1>2, <1>3, <2>1
  <2> QED BY SMT, <2>1, <2>2
<1> QED BY <1>4 DEF Min

\* A nonempty set of natural numbers below a bound has a greatest element.
LEMMA GreatestNat ==
  ASSUME NEW b \in Nat, NEW S \in SUBSET (0 .. b), S # {}
  PROVE  Max(S) \in S /\ \A n \in S : Max(S) >= n
<1> DEFINE T == {b - n : n \in S}
<1>1. \A n \in S : n \in Nat /\ b - n \in Nat BY SMT
<1>a. T \in SUBSET Nat /\ T # {} BY <1>1
<1>2. Min(T) \in T /\ \A n \in T : Min(T) <= n BY <1>a, LeastNat
<1>3. PICK m \in S : Min(T) = b - m BY <1>2
<1>4. ASSUME NEW n \in S PROVE m >= n
  <2>1. b - m <= b - n BY <1>2, <1>3
  <2> QED BY SMT, <1>1, <2>1
<1> QED BY <1>4 DEF Max

-------------------------------------------------------------------------------
(* Moving a block to the front *)

\* Where a block is found in a list.
LEMMA AtIs ==
  ASSUME NEW s \in Seq(Blocks), NEW b \in Blocks
  PROVE  /\ At(s, b) \in 1 .. Len(s) + 1
         /\ At(s, b) <= Len(s) => s[At(s, b)] = b
         /\ \A j \in 1 .. Len(s) : s[j] = b => At(s, b) <= j
<1> DEFINE S == {i \in 1 .. Len(s) : s[i] = b} \cup {Len(s) + 1}
<1>1. S \in SUBSET Nat /\ S # {} BY SMT
<1>2. Min(S) \in S /\ \A n \in S : Min(S) <= n BY <1>1, LeastNat
<1> QED BY SMT, <1>2 DEF At

\* The list after a block has come to the front, position by position.
LEMMA PromoteIs ==
  ASSUME NEW s \in Seq(Blocks), NEW b \in Blocks
  PROVE  /\ Promote(s, b) \in Seq(Blocks)
         /\ Len(Promote(s, b)) = IF At(s, b) <= Len(s) THEN Len(s) ELSE Len(s) + 1
         /\ \A j \in 1 .. Len(Promote(s, b)) :
              Promote(s, b)[j] = IF j = 1 THEN b
                                 ELSE IF j <= At(s, b) THEN s[j - 1] ELSE s[j]
<1> DEFINE i == At(s, b)
           u == SubSeq(s, 1, i - 1)
           w == SubSeq(s, i + 1, Len(s))
<1>1. i \in 1 .. Len(s) + 1 BY AtIs
<1> HIDE DEF i
<1>2. u \in Seq(Blocks) /\ Len(u) = i - 1 /\ \A j \in 1 .. i - 1 : u[j] = s[j]
  BY SMT, <1>1
<1>3. /\ w \in Seq(Blocks)
      /\ Len(w) = IF i <= Len(s) THEN Len(s) - i ELSE 0
      /\ \A j \in 1 .. Len(w) : w[j] = s[i + j]
  BY SMT, <1>1
<1>4. Promote(s, b) = <<b>> \o u \o w BY DEF Promote, i
<1> HIDE DEF u, w
<1>5. /\ <<b>> \o u \in Seq(Blocks)
      /\ Len(<<b>> \o u) = i
      /\ \A j \in 1 .. i : (<<b>> \o u)[j] = IF j = 1 THEN b ELSE s[j - 1]
  BY SMT, <1>1, <1>2
<1> DEFINE x == <<b>> \o u
<1> HIDE DEF x
<1>6. /\ x \o w \in Seq(Blocks)
      /\ Len(x \o w) = IF i <= Len(s) THEN Len(s) ELSE Len(s) + 1
      /\ \A j \in 1 .. Len(x \o w) :
           (x \o w)[j] = IF j = 1 THEN b ELSE IF j <= i THEN s[j - 1] ELSE s[j]
  <2>1. x \in Seq(Blocks) /\ Len(x) = i BY <1>5 DEF x
  <2>2. /\ x \o w \in Seq(Blocks)
        /\ Len(x \o w) = i + Len(w)
        /\ \A j \in 1 .. i + Len(w) : (x \o w)[j] = IF j <= i THEN x[j] ELSE w[j - i]
    BY <1>3, <2>1, ConcatProperties
  <2>3. Len(x \o w) = IF i <= Len(s) THEN Len(s) ELSE Len(s) + 1 BY SMT, <1>1, <1>3, <2>2
  <2>4. ASSUME NEW j \in 1 .. Len(x \o w)
        PROVE  (x \o w)[j] = IF j = 1 THEN b ELSE IF j <= i THEN s[j - 1] ELSE s[j]
    <3>1. CASE j <= i BY SMT, <1>1, <1>3, <1>5, <2>2, <3>1 DEF x
    <3>2. CASE j > i
      <4>1. j - i \in 1 .. Len(w) /\ i + (j - i) = j BY SMT, <1>1, <1>3, <2>2, <3>2
      <4>2. (x \o w)[j] = w[j - i] BY SMT, <1>1, <1>3, <2>2, <3>2
      <4>3. w[j - i] = s[j] BY <1>3, <4>1
      <4> QED BY SMT, <1>1, <3>2, <4>2, <4>3
    <3> QED BY SMT, <1>1, <2>3, <3>1, <3>2
  <2> QED BY <2>2, <2>3, <2>4
<1> QED BY <1>4, <1>6 DEF x, i

\* Coming to the front adds at most the block itself, and lists nothing twice.
LEMMA PromoteSet ==
  ASSUME NEW s \in Seq(Blocks), NEW b \in Blocks
  PROVE  /\ ToSet(Promote(s, b)) = ToSet(s) \cup {b}
         /\ IsInjective(s) => IsInjective(Promote(s, b))
         /\ b \in ToSet(s) <=> At(s, b) <= Len(s)
<1> DEFINE i == At(s, b)
           p == Promote(s, b)
<1>1. /\ i \in 1 .. Len(s) + 1
      /\ i <= Len(s) => s[i] = b
      /\ \A j \in 1 .. Len(s) : s[j] = b => i <= j
  BY AtIs
<1>2. /\ p \in Seq(Blocks)
      /\ Len(p) = IF i <= Len(s) THEN Len(s) ELSE Len(s) + 1
      /\ \A j \in 1 .. Len(p) : p[j] = IF j = 1 THEN b ELSE IF j <= i THEN s[j - 1] ELSE s[j]
  BY PromoteIs
<1> HIDE DEF i, p
<1>3. ToSet(s) = {s[j] : j \in 1 .. Len(s)} /\ ToSet(p) = {p[j] : j \in 1 .. Len(p)}
  BY SMT, <1>2 DEF ToSet
<1>4. b \in ToSet(s) <=> i <= Len(s) BY SMT, <1>1, <1>3
<1>5. ASSUME NEW j \in 1 .. Len(s) PROVE s[j] \in ToSet(p)
  <2>1. CASE j < i
    <3>1. j + 1 \in 1 .. Len(p) /\ j + 1 <= i /\ j + 1 # 1 /\ (j + 1) - 1 = j
      BY SMT, <1>1, <1>2, <2>1
    <3>2. p[j + 1] = s[j] BY <1>2, <3>1
    <3> QED BY <1>3, <3>1, <3>2
  <2>2. CASE j = i
    <3>1. 1 \in 1 .. Len(p) /\ p[1] = s[j] BY SMT, <1>1, <1>2, <2>2
    <3> QED BY <1>3, <3>1
  <2>3. CASE j > i
    <3>1. j \in 1 .. Len(p) /\ p[j] = s[j] BY SMT, <1>1, <1>2, <2>3
    <3> QED BY <1>3, <3>1
  <2> QED BY SMT, <1>1, <2>1, <2>2, <2>3
<1>6. b \in ToSet(p)
  <2>1. 1 \in 1 .. Len(p) /\ p[1] = b BY SMT, <1>1, <1>2
  <2> QED BY <1>3, <2>1
<1>7. ASSUME NEW j \in 1 .. Len(p), p[j] # b PROVE p[j] \in ToSet(s)
  <2>1. CASE j <= i
    <3>1. j - 1 \in 1 .. Len(s) /\ p[j] = s[j - 1] BY SMT, <1>1, <1>2, <1>7, <2>1
    <3> QED BY <1>3, <3>1
  <2>2. CASE j > i
    <3>1. j \in 1 .. Len(s) /\ p[j] = s[j] BY SMT, <1>1, <1>2, <1>7, <2>2
    <3> QED BY <1>3, <3>1
  <2> QED BY SMT, <1>1, <2>1, <2>2
<1>8. ToSet(p) = ToSet(s) \cup {b} BY <1>3, <1>5, <1>6, <1>7
<1>9. ASSUME IsInjective(s) PROVE IsInjective(p)
  <2>1. \A j, k \in 1 .. Len(s) : s[j] = s[k] => j = k BY SMT, <1>9 DEF IsInjective
  <2>2. ASSUME NEW j \in 1 .. Len(p), NEW k \in 1 .. Len(p), j < k PROVE p[j] # p[k]
    <3> DEFINE m == IF k <= i THEN k - 1 ELSE k
    <3>1. m \in 1 .. Len(s) /\ p[k] = s[m] /\ m # i BY SMT, <1>1, <1>2, <2>2
    <3>2. CASE j = 1
      <4>1. s[m] # b
        <5>1. s[m] = b => i <= m BY <1>1, <3>1
        <5>2. s[m] = b => i <= Len(s) /\ s[i] = s[m] BY SMT, <1>1, <3>1, <5>1
        <5> QED BY SMT, <1>1, <2>1, <3>1, <5>2
      <4> QED BY <1>2, <3>1, <3>2, <4>1
    <3>3. CASE j # 1
      <4> DEFINE n == IF j <= i THEN j - 1 ELSE j
      <4>1. n \in 1 .. Len(s) /\ p[j] = s[n] /\ n # m BY SMT, <1>1, <1>2, <2>2, <3>3
      <4> QED BY <2>1, <3>1, <4>1
    <3> QED BY <3>2, <3>3
  <2>3. \A j, k \in 1 .. Len(p) : p[j] = p[k] => j = k BY SMT, <2>2
  <2> QED BY SMT, <1>2, <2>3 DEF IsInjective
<1> QED BY <1>4, <1>8, <1>9 DEF i, p

\* What a concatenation lists.
LEMMA SetConcat ==
  ASSUME NEW s \in Seq(Blocks), NEW t \in Seq(Blocks)
  PROVE  ToSet(s \o t) = ToSet(s) \cup ToSet(t)
<1> DEFINE c == s \o t
<1>1. /\ DOMAIN s = 1 .. Len(s) /\ DOMAIN t = 1 .. Len(t) /\ DOMAIN c = 1 .. Len(s) + Len(t)
      /\ Len(s) \in Nat /\ Len(t) \in Nat
      /\ \A i \in 1 .. Len(s) : c[i] = s[i]
      /\ \A i \in 1 .. Len(t) : c[Len(s) + i] = t[i]
  BY SMT
<1> HIDE DEF c
<1>2. \A i \in 1 .. Len(s) : i \in DOMAIN c BY SMT, <1>1
<1>3. \A i \in 1 .. Len(t) : Len(s) + i \in DOMAIN c BY SMT, <1>1
<1>4. \A i \in DOMAIN c : i \in 1 .. Len(s) \/ \E j \in 1 .. Len(t) : i = Len(s) + j
  <2>1. ASSUME NEW i \in DOMAIN c, i \notin 1 .. Len(s)
        PROVE  i - Len(s) \in 1 .. Len(t) /\ i = Len(s) + (i - Len(s))
    BY SMT, <1>1, <2>1
  <2> QED BY <2>1
<1>5. ASSUME NEW x \in ToSet(c) PROVE x \in ToSet(s) \cup ToSet(t)
  <2>1. PICK i \in DOMAIN c : x = c[i] BY DEF ToSet
  <2>2. CASE i \in 1 .. Len(s) BY <1>1, <2>1, <2>2 DEF ToSet
  <2>3. CASE \E j \in 1 .. Len(t) : i = Len(s) + j BY <1>1, <2>1, <2>3 DEF ToSet
  <2> QED BY <1>4, <2>1, <2>2, <2>3
<1>6. ToSet(s) \subseteq ToSet(c) /\ ToSet(t) \subseteq ToSet(c) BY <1>1, <1>2, <1>3 DEF ToSet
<1> QED BY <1>5, <1>6 DEF c

-------------------------------------------------------------------------------
(* Sizes *)

Cells(S) == UNION {{b} \X (1 .. Size[b]) : b \in S}

\* The size of a list is a number.
LEMMA BytesType ==
  ASSUME NEW s \in Seq(Blocks)
  PROVE  IsFiniteSet(Cells(ToSet(s))) /\ Bytes(s) = Cardinality(Cells(ToSet(s))) /\ Bytes(s) \in Nat
<1> DEFINE I == 1 .. Len(s)
           f == [i \in I |-> {s[i]} \X (1 .. Size[s[i]])]
           T == {{b} \X (1 .. Size[b]) : b \in ToSet(s)}
<1>1. ToSet(s) = {s[i] : i \in I} /\ Len(s) \in Nat /\ ToSet(s) \subseteq Blocks BY SMT DEF ToSet
<1>2. \A i \in I : s[i] \in ToSet(s) /\ f[i] = {s[i]} \X (1 .. Size[s[i]]) BY <1>1
<1>3. f \in Surjection(I, T)
  <2>1. f \in [I -> T] BY <1>2
  <2>2. ASSUME NEW C \in T PROVE \E i \in I : f[i] = C
    <3>1. PICK b \in ToSet(s) : C = {b} \X (1 .. Size[b]) BY <2>2
    <3>2. PICK i \in I : b = s[i] BY <1>1
    <3> QED BY <1>2, <3>1, <3>2
  <2> QED BY <2>1, <2>2 DEF Surjection
<1>4. IsFiniteSet(I) BY SMT, <1>1, FS_Interval
<1>5. IsFiniteSet(T) BY <1>3, <1>4, FS_Surjection
<1>6. ASSUME NEW b \in Blocks PROVE IsFiniteSet({b} \X (1 .. Size[b]))
  <2>1. Size[b] \in Int BY SMT, CacheAssumption
  <2>2. IsFiniteSet(1 .. Size[b]) BY SMT, <2>1, FS_Interval
  <2> QED BY <2>2, FS_Singleton, FS_Product
<1>7. \A C \in T : IsFiniteSet(C) BY <1>1, <1>6
<1>8. IsFiniteSet(UNION T) BY <1>5, <1>7, FS_UNION
<1> QED BY <1>8, FS_CardinalityType DEF Cells, Bytes

\* The sizes of two lists without a common block add up.
LEMMA BytesAdd ==
  ASSUME NEW s \in Seq(Blocks), NEW t \in Seq(Blocks), NEW u \in Seq(Blocks),
         ToSet(u) = ToSet(s) \cup ToSet(t), ToSet(s) \cap ToSet(t) = {}
  PROVE  Bytes(u) = Bytes(s) + Bytes(t)
<1> DEFINE S == Cells(ToSet(s))
           T == Cells(ToSet(t))
<1>1. Cells(ToSet(u)) = S \cup T BY DEF Cells
<1>2. S \cap T = {} BY SMT DEF Cells
<1>3. IsFiniteSet(S) /\ IsFiniteSet(T) BY BytesType
<1>4. Cardinality(S \cup T) = Cardinality(S) + Cardinality(T) - Cardinality(S \cap T)
  BY <1>3, FS_Union
<1>5. Cardinality(S \cap T) = 0 BY <1>2, FS_EmptySet
<1>6. Bytes(u) = Cardinality(S \cup T) /\ Bytes(s) = Cardinality(S) /\ Bytes(t) = Cardinality(T)
  BY <1>1, BytesType
<1>7. Bytes(s) \in Nat /\ Bytes(t) \in Nat BY BytesType
<1> QED BY SMT, <1>4, <1>5, <1>6, <1>7

\* A list of one block has that block's size, the empty one none.
LEMMA BytesOne ==
  /\ Bytes(<<>>) = 0
  /\ \A b \in Blocks : <<b>> \in Seq(Blocks) /\ ToSet(<<b>>) = {b} /\ Bytes(<<b>>) = Size[b]
<1>1. Bytes(<<>>) = 0
  <2>1. ToSet(<<>>) = {} BY SMT DEF ToSet
  <2>2. UNION {{b} \X (1 .. Size[b]) : b \in ToSet(<<>>)} = {} BY <2>1
  <2> QED BY <2>2, FS_EmptySet DEF Bytes
<1>2. ASSUME NEW b \in Blocks
      PROVE  <<b>> \in Seq(Blocks) /\ ToSet(<<b>>) = {b} /\ Bytes(<<b>>) = Size[b]
  <2>1. <<b>> \in Seq(Blocks) /\ ToSet(<<b>>) = {b} BY SMT DEF ToSet
  <2>2. UNION {{c} \X (1 .. Size[c]) : c \in {b}} = {b} \X (1 .. Size[b]) OBVIOUS
  <2>3. Size[b] \in Nat BY CacheAssumption
  <2>4. IsFiniteSet(1 .. Size[b]) /\ Cardinality(1 .. Size[b]) = Size[b]
    <3>1. 1 \in Int /\ Size[b] \in Int BY SMT, <2>3
    <3>2. /\ IsFiniteSet(1 .. Size[b])
          /\ Cardinality(1 .. Size[b]) = IF 1 > Size[b] THEN 0 ELSE Size[b] - 1 + 1
      BY <3>1, FS_Interval
    <3> QED BY SMT, <2>3, <3>2
  <2>5. Cardinality({b} \X (1 .. Size[b])) = Cardinality({b}) * Cardinality(1 .. Size[b])
    BY <2>4, FS_Singleton, FS_Product
  <2>6. Cardinality({b}) = 1 BY FS_Singleton
  <2>7. Cardinality({b} \X (1 .. Size[b])) = Size[b] BY SMT, <2>3, <2>4, <2>5, <2>6
  <2> QED BY <2>1, <2>2, <2>7 DEF Bytes
<1> QED BY <1>1, <1>2

-------------------------------------------------------------------------------
(* Order and eviction *)

\* One list begins another if it agrees with it position by position.
LEMMA PrefixIs ==
  ASSUME NEW s \in Seq(Blocks), NEW t \in Seq(Blocks)
  PROVE  IsPrefix(s, t) <=> Len(s) <= Len(t) /\ \A i \in 1 .. Len(s) : s[i] = t[i]
<1>1. ASSUME Len(s) <= Len(t)
      PROVE  SubSeq(s, 1, Len(s)) = SubSeq(t, 1, Len(s)) <=> \A i \in 1 .. Len(s) : s[i] = t[i]
  <2> DEFINE u == SubSeq(t, 1, Len(s))
  <2>1. SubSeq(s, 1, Len(s)) = s BY SubSeqFull
  <2>2. u \in Seq(Blocks) /\ Len(u) = Len(s) /\ \A i \in 1 .. Len(s) : u[i] = t[i] BY SMT, <1>1
  <2> HIDE DEF u
  <2>3. (\A i \in 1 .. Len(s) : s[i] = u[i]) => s = u BY <2>2, SeqEqual
  <2> QED BY <2>1, <2>2, <2>3 DEF u
<1> QED BY <1>1 DEF IsPrefix

\* Bringing the same block to the front of both keeps one list a beginning of
\* the other, if the shorter one has the block.
LEMMA PrefixPromote ==
  ASSUME NEW s \in Seq(Blocks), NEW t \in Seq(Blocks), NEW b \in ToSet(s), IsPrefix(s, t)
  PROVE  IsPrefix(Promote(s, b), Promote(t, b))
<1>1. b \in Blocks BY SMT DEF ToSet
<1>2. Len(s) <= Len(t) /\ \A i \in 1 .. Len(s) : s[i] = t[i] BY PrefixIs
<1>3. At(s, b) <= Len(s) BY <1>1, PromoteSet
<1>4. At(t, b) = At(s, b)
  <2>1. /\ At(s, b) \in 1 .. Len(s) + 1
        /\ At(s, b) <= Len(s) => s[At(s, b)] = b
        /\ \A j \in 1 .. Len(s) : s[j] = b => At(s, b) <= j
    BY <1>1, AtIs
  <2>2. /\ At(t, b) \in 1 .. Len(t) + 1
        /\ At(t, b) <= Len(t) => t[At(t, b)] = b
        /\ \A j \in 1 .. Len(t) : t[j] = b => At(t, b) <= j
    BY <1>1, AtIs
  <2>3. At(t, b) <= At(s, b) BY SMT, <1>2, <1>3, <2>1, <2>2
  <2>4. At(s, b) <= At(t, b) BY SMT, <1>2, <1>3, <2>1, <2>2, <2>3
  <2> QED BY SMT, <2>1, <2>2, <2>3, <2>4
<1> DEFINE p == Promote(s, b)
           q == Promote(t, b)
           i == At(s, b)
<1>5. /\ p \in Seq(Blocks) /\ Len(p) = IF i <= Len(s) THEN Len(s) ELSE Len(s) + 1
      /\ \A j \in 1 .. Len(p) : p[j] = IF j = 1 THEN b ELSE IF j <= i THEN s[j - 1] ELSE s[j]
  BY <1>1, PromoteIs
<1>6. /\ q \in Seq(Blocks) /\ Len(q) = IF i <= Len(t) THEN Len(t) ELSE Len(t) + 1
      /\ \A j \in 1 .. Len(q) : q[j] = IF j = 1 THEN b ELSE IF j <= i THEN t[j - 1] ELSE t[j]
  <2> DEFINE m == At(t, b)
  <2>1. /\ q \in Seq(Blocks) /\ Len(q) = IF m <= Len(t) THEN Len(t) ELSE Len(t) + 1
        /\ \A j \in 1 .. Len(q) : q[j] = IF j = 1 THEN b ELSE IF j <= m THEN t[j - 1] ELSE t[j]
    BY <1>1, PromoteIs
  <2>2. m = i BY <1>4
  <2> HIDE DEF m, i, q
  <2> QED BY <2>1, <2>2
<1>7. i \in 1 .. Len(s) BY SMT, <1>1, <1>3, AtIs
<1> HIDE DEF p, q, i
<1>8. Len(p) = Len(s) /\ Len(q) = Len(t) BY SMT, <1>2, <1>5, <1>6, <1>7
<1>9. ASSUME NEW j \in 1 .. Len(p) PROVE p[j] = q[j]
  <2>1. j \in 1 .. Len(q) BY SMT, <1>2, <1>8
  <2>2. p[j] = IF j = 1 THEN b ELSE IF j <= i THEN s[j - 1] ELSE s[j] BY <1>5
  <2>3. q[j] = IF j = 1 THEN b ELSE IF j <= i THEN t[j - 1] ELSE t[j] BY <1>6, <2>1
  <2>4. j # 1 => s[j - 1] = t[j - 1] BY SMT, <1>2, <1>8
  <2>5. s[j] = t[j] BY <1>2, <1>8
  <2> QED BY SMT, <2>2, <2>3, <2>4, <2>5
<1>10. Len(p) <= Len(q) BY <1>2, <1>8
<1> QED BY <1>5, <1>6, <1>9, <1>10, PrefixIs DEF p, q

\* Eviction leaves at least the first block, and stops with one block or with
\* the rest within the budget.
LEMMA KeptIs ==
  ASSUME NEW s \in Seq(Blocks), Len(s) >= 1, NEW bytes
  PROVE  /\ Kept(s, bytes) \in 1 .. Len(s)
         /\ \/ Kept(s, bytes) = 1
            \/ bytes - Bytes(SubSeq(s, Kept(s, bytes) + 1, Len(s))) <= Capacity
<1> DEFINE S == {n \in 1 .. Len(s) :
                   n = 1 \/ bytes - Bytes(SubSeq(s, n + 1, Len(s))) <= Capacity}
<1>1. Len(s) \in Nat /\ 1 \in 1 .. Len(s) /\ 1 .. Len(s) \subseteq 0 .. Len(s) BY SMT
<1>2. S \in SUBSET (0 .. Len(s)) /\ S # {} BY <1>1
<1>3. Max(S) \in S BY <1>1, <1>2, GreatestNat
<1> QED BY <1>3 DEF Kept

-------------------------------------------------------------------------------
(* Steps *)

CacheInv == TypeOK /\ Accounted /\ WithinBudget /\ KeepsMostRecent

\* A hit, or the second insertion of a block that two readers missed.
LEMMA RefreshStep ==
  ASSUME CacheInv, NEW b \in ToSet(lru), reading' \in [Readers -> SUBSET Blocks],
         lru' = Promote(lru, b), recent' = Promote(recent, b), used_bytes' = used_bytes
  PROVE  CacheInv'
<1>1. /\ lru \in Seq(Blocks) /\ recent \in Seq(Blocks) /\ used_bytes \in Nat
      /\ used_bytes = Bytes(lru) /\ IsInjective(lru)
  BY DEF CacheInv, TypeOK, Accounted
<1>2. b \in Blocks BY SMT, <1>1 DEF ToSet
<1>3. lru' \in Seq(Blocks) /\ recent' \in Seq(Blocks) BY <1>1, <1>2, PromoteIs
<1>4. ToSet(lru') = ToSet(lru) \cup {b} /\ IsInjective(lru') /\ At(lru, b) <= Len(lru)
  BY <1>1, <1>2, PromoteSet
<1>5. Bytes(lru') = Bytes(lru)
  <2>1. ToSet(lru') = ToSet(lru) BY <1>4
  <2> QED BY <2>1 DEF Bytes
<1>6. Len(lru') = Len(lru)
  <2>1. Len(lru') = IF At(lru, b) <= Len(lru) THEN Len(lru) ELSE Len(lru) + 1
    BY <1>1, <1>2, PromoteIs
  <2> QED BY <1>4, <2>1
<1>7. TypeOK' BY <1>1, <1>3 DEF TypeOK
<1>8. Accounted' BY <1>1, <1>4, <1>5 DEF Accounted
<1>9. WithinBudget' BY <1>6 DEF CacheInv, WithinBudget
<1>10. KeepsMostRecent'
  BY <1>1, PrefixPromote DEF CacheInv, KeepsMostRecent
<1> QED BY <1>7, <1>8, <1>9, <1>10 DEF CacheInv

\* A new block pushes out the least recently used ones.
LEMMA AddStep ==
  ASSUME CacheInv, NEW b \in Blocks, b \notin ToSet(lru),
         reading' \in [Readers -> SUBSET Blocks],
         Cache(b), recent' = Promote(recent, b)
  PROVE  CacheInv'
<1> DEFINE s == <<b>> \o lru
           bytes == used_bytes + Size[b]
           n == Kept(s, bytes)
           keep == SubSeq(s, 1, n)
           gone == SubSeq(s, n + 1, Len(s))
<1>1. /\ lru \in Seq(Blocks) /\ recent \in Seq(Blocks) /\ used_bytes \in Nat
      /\ used_bytes = Bytes(lru) /\ IsInjective(lru) /\ IsPrefix(lru, recent)
  BY DEF CacheInv, TypeOK, Accounted, KeepsMostRecent
<1>2. /\ s \in Seq(Blocks) /\ Len(s) = Len(lru) + 1
      /\ \A i \in 1 .. Len(s) : s[i] = IF i = 1 THEN b ELSE lru[i - 1]
  BY SMT, <1>1
<1>3. lru' = keep /\ used_bytes' = used_bytes + Size[b] - Bytes(gone)
  BY DEF Cache
<1>4. n \in 1 .. Len(s) /\ (n = 1 \/ bytes - Bytes(gone) <= Capacity)
  <2>1. Len(s) >= 1 BY SMT, <1>1, <1>2
  <2> HIDE DEF s, bytes
  <2> QED BY <1>2, <2>1, KeptIs
<1> HIDE DEF s, n, bytes
<1>5. keep \in Seq(Blocks) /\ Len(keep) = n /\ \A i \in 1 .. n : keep[i] = s[i]
  BY SMT, <1>2, <1>4
<1>6. /\ gone \in Seq(Blocks) /\ Len(gone) = Len(s) - n
      /\ \A i \in 1 .. Len(s) - n : gone[i] = s[n + i]
  BY SMT, <1>2, <1>4
<1> HIDE DEF keep, gone
<1>7. \A i, j \in 1 .. Len(s) : s[i] = s[j] => i = j
  <2>1. \A i, j \in 1 .. Len(lru) : lru[i] = lru[j] => i = j BY SMT, <1>1 DEF IsInjective
  <2>2. \A i \in 1 .. Len(lru) : lru[i] # b BY SMT, <1>1 DEF ToSet
  <2>3. ASSUME NEW i \in 1 .. Len(s), i # 1
        PROVE  i - 1 \in 1 .. Len(lru) /\ s[i] = lru[i - 1]
    BY SMT, <1>1, <1>2, <2>3
  <2>4. s[1] = b BY SMT, <1>1, <1>2
  <2>5. ASSUME NEW i \in 1 .. Len(s), NEW j \in 1 .. Len(s), s[i] = s[j] PROVE i = j
    <3>1. CASE i = 1 \/ j = 1 BY <2>2, <2>3, <2>4, <2>5, <3>1
    <3>2. CASE i # 1 /\ j # 1
      <4>1. i - 1 = j - 1 BY <2>1, <2>3, <2>5, <3>2
      <4> QED BY SMT, <4>1
    <3> QED BY <3>1, <3>2
  <2> QED BY <2>5
<1>8. IsInjective(keep) BY SMT, <1>4, <1>5, <1>7 DEF IsInjective
<1>9. Bytes(s) = Bytes(keep) + Bytes(gone)
  <2>1. ToSet(keep) = {s[i] : i \in 1 .. n} BY SMT, <1>5 DEF ToSet
  <2>2. ToSet(gone) = {s[i] : i \in n + 1 .. Len(s)}
    <3>1. ToSet(gone) = {gone[i] : i \in 1 .. Len(s) - n} BY SMT, <1>6 DEF ToSet
    <3>2. ASSUME NEW i \in n + 1 .. Len(s)
          PROVE  i - n \in 1 .. Len(s) - n /\ gone[i - n] = s[i]
      BY SMT, <1>2, <1>4, <1>6
    <3>3. ASSUME NEW i \in 1 .. Len(s) - n
          PROVE  n + i \in n + 1 .. Len(s) /\ gone[i] = s[n + i]
      BY SMT, <1>2, <1>4, <1>6
    <3>4. \A x \in ToSet(gone) : x \in {s[i] : i \in n + 1 .. Len(s)} BY <3>1, <3>3
    <3>5. \A i \in n + 1 .. Len(s) : s[i] \in ToSet(gone)
      <4>1. \A i \in 1 .. Len(s) - n : gone[i] \in ToSet(gone) BY <3>1
      <4> QED BY <3>2, <4>1
    <3> QED BY <3>4, <3>5
  <2>3. ToSet(s) = {s[i] : i \in 1 .. Len(s)}
    <3>1. DOMAIN s = 1 .. Len(s) BY <1>2, LenProperties
    <3> QED BY <3>1 DEF ToSet
  <2>4. \A i \in 1 .. n, j \in n + 1 .. Len(s) :
          i \in 1 .. Len(s) /\ j \in 1 .. Len(s) /\ i # j
    BY SMT, <1>2, <1>4
  <2>5. ToSet(keep) \cap ToSet(gone) = {} BY <1>7, <2>1, <2>2, <2>4
  <2>6. \A i \in 1 .. Len(s) : i \in 1 .. n \/ i \in n + 1 .. Len(s) BY SMT, <1>2, <1>4
  <2>7. ToSet(s) = ToSet(keep) \cup ToSet(gone)
    <3>1. 1 .. n \subseteq 1 .. Len(s) /\ n + 1 .. Len(s) \subseteq 1 .. Len(s)
      BY SMT, <1>2, <1>4
    <3>2. ToSet(s) \subseteq ToSet(keep) \cup ToSet(gone) BY <2>1, <2>2, <2>3, <2>6
    <3>3. ToSet(keep) \subseteq ToSet(s) BY <2>1, <2>3, <3>1
    <3>4. ToSet(gone) \subseteq ToSet(s) BY <2>2, <2>3, <3>1
    <3> QED BY <3>2, <3>3, <3>4
  <2> QED BY <1>2, <1>5, <1>6, <2>5, <2>7, BytesAdd
<1>10. Bytes(s) = Size[b] + Bytes(lru)
  <2>1. <<b>> \in Seq(Blocks) /\ ToSet(<<b>>) = {b} /\ Bytes(<<b>>) = Size[b]
    BY BytesOne
  <2>2. ToSet(s) = {b} \cup ToSet(lru) BY <1>1, <2>1, SetConcat DEF s
  <2>3. ToSet(s) = ToSet(<<b>>) \cup ToSet(lru) /\ ToSet(<<b>>) \cap ToSet(lru) = {}
    BY <2>1, <2>2
  <2>4. Bytes(s) = Bytes(<<b>>) + Bytes(lru) BY <1>1, <1>2, <2>1, <2>3, BytesAdd
  <2> QED BY <2>1, <2>4
<1>11. used_bytes' = Bytes(lru') /\ used_bytes' \in Nat
  <2>1. Bytes(keep) \in Nat /\ Bytes(gone) \in Nat /\ Size[b] \in Nat
    BY <1>5, <1>6, BytesType, CacheAssumption
  <2>2. used_bytes' = Bytes(keep) BY SMT, <1>1, <1>3, <1>9, <1>10, <2>1 DEF bytes
  <2> QED BY <1>3, <2>1, <2>2
<1>12. TypeOK'
  BY <1>1, <1>3, <1>5, <1>11, PromoteIs DEF TypeOK
<1>13. Accounted' BY <1>3, <1>8, <1>11 DEF Accounted
<1>14. WithinBudget'
  <2>1. Bytes(gone) \in Nat /\ Size[b] \in Nat BY <1>6, BytesType, CacheAssumption
  <2>2. used_bytes' = bytes - Bytes(gone) BY SMT, <1>1, <1>3, <2>1 DEF bytes
  <2> QED BY <1>3, <1>4, <1>5, <2>2 DEF WithinBudget
<1>15. KeepsMostRecent'
  <2> DEFINE q == Promote(recent, b)
             m == At(recent, b)
  <2>1. /\ q \in Seq(Blocks) /\ Len(q) = IF m <= Len(recent) THEN Len(recent) ELSE Len(recent) + 1
        /\ \A j \in 1 .. Len(q) :
             q[j] = IF j = 1 THEN b ELSE IF j <= m THEN recent[j - 1] ELSE recent[j]
    BY <1>1, PromoteIs
  <2>2. m \in 1 .. Len(recent) + 1 /\ (m <= Len(recent) => recent[m] = b)
    BY <1>1, AtIs
  <2>3. Len(lru) <= Len(recent) /\ \A i \in 1 .. Len(lru) : lru[i] = recent[i]
    BY <1>1, PrefixIs
  <2>4. \A i \in 1 .. Len(lru) : lru[i] # b BY SMT, <1>1 DEF ToSet
  <2> HIDE DEF q, m
  <2>5. m > Len(lru) BY SMT, <1>1, <2>2, <2>3, <2>4
  <2>6. Len(s) <= Len(q) BY SMT, <1>1, <1>2, <2>1, <2>2, <2>3, <2>5
  <2>7. ASSUME NEW i \in 1 .. n PROVE keep[i] = q[i]
    <3>1. i \in 1 .. Len(s) /\ i \in 1 .. Len(q) BY SMT, <1>1, <1>2, <1>4, <2>1, <2>6
    <3>2. keep[i] = IF i = 1 THEN b ELSE lru[i - 1] BY <1>2, <1>5, <3>1
    <3>3. q[i] = IF i = 1 THEN b ELSE recent[i - 1]
      <4>1. i <= m BY SMT, <1>1, <1>2, <2>2, <2>5, <3>1
      <4> QED BY <2>1, <3>1, <4>1
    <3>4. i # 1 => lru[i - 1] = recent[i - 1] BY SMT, <1>1, <1>2, <2>3, <3>1
    <3> QED BY SMT, <3>2, <3>3, <3>4
  <2>8. Len(keep) <= Len(q) BY SMT, <1>1, <1>2, <1>4, <1>5, <2>1, <2>6
  <2>9. \A i \in 1 .. Len(keep) : keep[i] = q[i] BY <1>5, <2>7
  <2>10. IsPrefix(keep, q) BY <1>5, <2>1, <2>8, <2>9, PrefixIs
  <2> QED BY <1>3, <2>10 DEF KeepsMostRecent, q
<1> QED BY <1>12, <1>13, <1>14, <1>15 DEF CacheInv

\* The invariants of the cache are inductive.
THEOREM CacheInvariance == Spec => []CacheInv
<1>1. Init => CacheInv
  <2> SUFFICES ASSUME Init PROVE CacheInv OBVIOUS
  <2>1. lru = <<>> /\ used_bytes = 0 /\ recent = <<>> /\ reading = [t \in Readers |-> {}]
    BY DEF Init
  <2>2. TypeOK BY SMT, <2>1 DEF TypeOK
  <2>3. Accounted BY SMT, <2>1, BytesOne DEF Accounted, IsInjective
  <2>4. WithinBudget BY SMT, <2>1, CacheAssumption DEF WithinBudget
  <2>5. KeepsMostRecent BY SMT, <2>1 DEF KeepsMostRecent, IsPrefix
  <2> QED BY <2>2, <2>3, <2>4, <2>5 DEF CacheInv
<1>2. CacheInv /\ [Next]_vars => CacheInv'
  <2> SUFFICES ASSUME CacheInv, [Next]_vars PROVE CacheInv' OBVIOUS
  <2>1. lru \in Seq(Blocks) /\ reading \in [Readers -> SUBSET Blocks] BY DEF CacheInv, TypeOK
  <2>2. ASSUME NEW t \in Readers, NEW b \in Blocks, Lookup(t, b) PROVE CacheInv'
    <3>1. CASE b \in ToSet(lru) BY <2>1, <2>2, <3>1, RefreshStep DEF Lookup
    <3>2. CASE b \notin ToSet(lru)
      <4>1. reading' = [reading EXCEPT ![t] = {b}] /\ UNCHANGED <<lru, recent, used_bytes>>
        BY <2>2, <3>2 DEF Lookup
      <4>2. reading' \in [Readers -> SUBSET Blocks] BY <2>1, <4>1
      <4> QED BY <4>1, <4>2
           DEF CacheInv, TypeOK, Accounted, WithinBudget, KeepsMostRecent
    <3> QED BY <3>1, <3>2
  <2>3. ASSUME NEW t \in Readers, ReadFail(t) PROVE CacheInv'
    <3>1. reading' \in [Readers -> SUBSET Blocks] BY <2>1, <2>3 DEF ReadFail
    <3> QED BY <2>3, <3>1
         DEF ReadFail, CacheInv, TypeOK, Accounted, WithinBudget, KeepsMostRecent
  <2>4. ASSUME NEW t \in Readers, Insert(t) PROVE CacheInv'
    <3>1. reading' \in [Readers -> SUBSET Blocks] BY <2>1, <2>4 DEF Insert
    <3>2. PICK b \in reading[t] :
            IF Capacity = 0 THEN UNCHANGED <<lru, used_bytes, recent>>
            ELSE Cache(b) /\ recent' = Promote(recent, b)
      BY <2>4 DEF Insert
    <3>3. b \in Blocks BY <2>1
    <3>4. CASE Capacity = 0
      BY <3>1, <3>2, <3>4
      DEF CacheInv, TypeOK, Accounted, WithinBudget, KeepsMostRecent
    <3>5. CASE Capacity # 0 /\ b \in ToSet(lru)
      <4>1. lru' = Promote(lru, b) /\ used_bytes' = used_bytes BY <3>2, <3>5 DEF Cache
      <4> QED BY <3>1, <3>2, <3>5, <4>1, RefreshStep
    <3>6. CASE Capacity # 0 /\ b \notin ToSet(lru)
      BY <3>1, <3>2, <3>3, <3>6, AddStep
    <3> QED BY <3>4, <3>5, <3>6
  <2>5. CASE UNCHANGED vars
    BY <2>5 DEF vars, CacheInv, TypeOK, Accounted, WithinBudget, KeepsMostRecent
  <2> QED BY <2>2, <2>3, <2>4, <2>5 DEF Next
<1> QED BY PTL, <1>1, <1>2 DEF Spec

\* Every variable keeps its type.
THEOREM CacheTypes == Spec => []TypeOK
BY PTL, CacheInvariance DEF CacheInv

\* However the readers interleave their misses and insertions, no block is
\* cached twice and used_bytes_ is the size of what is cached.
THEOREM ExactAccounting == Spec => []Accounted
BY PTL, CacheInvariance DEF CacheInv

\* Insert leaves the cache within capacity_bytes_, or with one block.
THEOREM Budget == Spec => []WithinBudget
BY PTL, CacheInvariance DEF CacheInv

\* Eviction takes the least recently used blocks first.
THEOREM LeastRecentlyUsed == Spec => []KeepsMostRecent
BY PTL, CacheInvariance DEF CacheInv
===============================================================================
