------------------------------- MODULE WalProofs ------------------------------
(***************************************************************************)
(* What replay delivers from any file that the writer, failed writes and   *)
(* crashes can leave behind, and that the log implements LogSpec.          *)
(***************************************************************************)
EXTENDS Wal, WellFoundedInduction, SequenceTheorems, TLAPS

\* Zenon proves the leaves; those with arithmetic, tuples or records name SMT.
USE Zenon

-------------------------------------------------------------------------------
(* Units and frames *)

\* A nonempty set of natural numbers has a least element.
LEMMA LeastNat ==
  ASSUME NEW S \in SUBSET Nat, S # {}
  PROVE  \E m \in S : \A n \in S : m <= n
<1> DEFINE R == OpToRel(<, Nat)
<1>1. IsWellFoundedOn(R, Nat) BY NatLessThanWellFounded
<1>2. \A m, n \in Nat : <<n, m>> \in R <=> n < m BY DEF OpToRel
<1> HIDE DEF R
<1>3. PICK m \in S : \A n \in S : <<n, m>> \notin R BY <1>1, WFMin
<1>4. ASSUME NEW n \in S PROVE m <= n
  <2>1. m \in Nat /\ n \in Nat OBVIOUS
  <2>2. ~(n < m) BY <1>2, <1>3, <2>1
  <2> QED BY SMT, <2>1, <2>2
<1> QED BY <1>4

\* The part of a sequence of units from a to b.
LEMMA PartIs ==
  ASSUME NEW f \in Seq(Unit), NEW a \in 1 .. Len(f) + 1, NEW b \in a - 1 .. Len(f)
  PROVE  /\ SubSeq(f, a, b) \in Seq(Unit)
         /\ Len(SubSeq(f, a, b)) = b - a + 1
         /\ \A i \in 1 .. b - a + 1 : SubSeq(f, a, b)[i] = f[a + i - 1]
BY SMT

\* The n units behind the first off.
LEMMA PieceIs ==
  ASSUME NEW f \in Seq(Unit), NEW off \in Nat, NEW n \in Nat, off + n <= Len(f)
  PROVE  /\ SubSeq(f, off + 1, off + n) \in Seq(Unit)
         /\ Len(SubSeq(f, off + 1, off + n)) = n
         /\ \A i \in 1 .. n : SubSeq(f, off + 1, off + n)[i] = f[off + 1 + i - 1]
<1>1. SubSeq(f, off + 1, off + n) \in Seq(Unit) BY SMT
<1>2. Len(SubSeq(f, off + 1, off + n)) = n BY SMT
<1>3. \A i \in 1 .. n : SubSeq(f, off + 1, off + n)[i] = f[off + 1 + i - 1] BY SMT
<1> QED BY <1>1, <1>2, <1>3

\* What a unit's tag says about the unit.
LEMMA UnitIs ==
  ASSUME NEW u \in Unit
  PROVE  /\ u[1] = "crc" => \E r \in Record : u = Crc32(Payload(r))
         /\ u[1] = "length" => u[2] \in {1, 2} /\ u = <<"length", u[2]>>
         /\ u[1] \in {"data", "more"} => u[2] \in Record
         /\ u[1] \in {"crc", "length", "data", "more"}
<1>1. CASE \E r \in Record : u = Crc32(Payload(r)) BY SMT, <1>1 DEF Crc32
<1>2. CASE u \in {"length"} \X {1, 2} BY SMT, <1>2
<1>3. CASE u \in {"data", "more"} \X Record BY <1>3
<1> QED BY <1>1, <1>2, <1>3 DEF Unit

\* The units of a payload.
LEMMA PayloadIs ==
  ASSUME NEW r \in Record
  PROVE  /\ Payload(r) \in Seq(Unit)
         /\ Len(Payload(r)) \in {1, 2}
         /\ Payload(r)[1] = <<"data", r>>
         /\ Len(Payload(r)) = 2 => Payload(r)[2] = <<"more", r>>
<1>1. <<"data", r>> \in Unit /\ <<"more", r>> \in Unit BY DEF Unit
<1>2. CASE r[2] = Deleted
  <2>1. Payload(r) = <<<<"data", r>>>> BY <1>2 DEF Payload
  <2> QED BY SMT, <1>1, <2>1
<1>3. CASE r[2] # Deleted
  <2>1. Payload(r) = <<<<"data", r>>, <<"more", r>>>> BY <1>3 DEF Payload
  <2> QED BY SMT, <1>1, <2>1
<1> QED BY <1>2, <1>3

\* The units of a frame: the checksum is the first and no other.
LEMMA FrameIs ==
  ASSUME NEW r \in Record
  PROVE  /\ Frame(r) \in Seq(Unit)
         /\ Len(Frame(r)) = HeaderSize + Len(Payload(r))
         /\ Frame(r)[1] = Crc32(Payload(r))
         /\ Frame(r)[2] = <<"length", Len(Payload(r))>>
         /\ Frame(r)[3] = <<"data", r>>
         /\ \A i \in 1 .. Len(Payload(r)) : Frame(r)[HeaderSize + i] = Payload(r)[i]
         /\ \A i \in 2 .. Len(Frame(r)) : Frame(r)[i][1] # "crc"
<1> DEFINE p == Payload(r)
           h == <<Crc32(p), <<"length", Len(p)>>>>
<1>1. /\ p \in Seq(Unit) /\ Len(p) \in {1, 2} /\ p[1] = <<"data", r>>
      /\ Len(p) = 2 => p[2] = <<"more", r>>
  BY PayloadIs
<1>2. Crc32(p) \in Unit BY DEF Unit
<1> HIDE DEF p
<1>3. <<"length", Len(p)>> \in Unit BY <1>1 DEF Unit
<1>4. h \in Seq(Unit) /\ Len(h) = 2 /\ h[1] = Crc32(p) /\ h[2] = <<"length", Len(p)>>
  BY SMT, <1>2, <1>3
<1> HIDE DEF h
<1>5. Frame(r) = h \o p BY DEF Frame, h, p
<1>6. /\ Frame(r) \in Seq(Unit)
      /\ Len(Frame(r)) = 2 + Len(p)
      /\ \A i \in 1 .. 2 + Len(p) : Frame(r)[i] = IF i <= 2 THEN h[i] ELSE p[i - 2]
  <2>1. /\ h \o p \in Seq(Unit)
        /\ Len(h \o p) = Len(h) + Len(p)
        /\ \A i \in 1 .. Len(h) + Len(p) : (h \o p)[i] = IF i <= Len(h) THEN h[i] ELSE p[i - Len(h)]
    BY <1>1, <1>4, ConcatProperties
  <2> QED BY <1>4, <1>5, <2>1
<1>7. Frame(r)[1] = Crc32(p) /\ Frame(r)[2] = <<"length", Len(p)>> BY SMT, <1>1, <1>4, <1>6
<1>8. \A i \in 1 .. Len(p) : Frame(r)[2 + i] = p[i] BY SMT, <1>1, <1>6
<1>9. Frame(r)[3] = <<"data", r>>
  <2>1. Frame(r)[2 + 1] = p[1] BY SMT, <1>1, <1>8
  <2> QED BY SMT, <1>1, <2>1
<1>10. ASSUME NEW i \in 2 .. Len(Frame(r)) PROVE Frame(r)[i][1] # "crc"
  <2>1. CASE i = 2 BY SMT, <1>7, <2>1
  <2>2. CASE i = 3 BY SMT, <1>9, <2>2
  <2>3. CASE i = 4
    <3>1. Len(p) = 2 BY SMT, <1>1, <1>6, <2>3
    <3>2. Frame(r)[2 + 2] = p[2] BY SMT, <1>8, <3>1
    <3> QED BY SMT, <1>1, <2>3, <3>1, <3>2
  <2> QED BY SMT, <1>1, <1>6, <2>1, <2>2, <2>3
<1> QED BY <1>6, <1>7, <1>8, <1>9, <1>10 DEF HeaderSize, p

\* A frame has three or four units.
LEMMA FrameLen ==
  ASSUME NEW r \in Record
  PROVE  Len(Frame(r)) \in {3, 4}
<1>1. Len(Frame(r)) = HeaderSize + Len(Payload(r)) BY FrameIs
<1> DEFINE n == Len(Payload(r))
<1>2. n \in {1, 2} BY PayloadIs
<1> HIDE DEF n
<1>3. 2 + n \in {3, 4} BY SMT, <1>2
<1> QED BY <1>1, <1>3 DEF HeaderSize, n

\* A whole frame is intact, and replay goes on right behind it.
LEMMA WholeIsIntact ==
  ASSUME NEW f \in Seq(Unit), NEW pos \in Nat \ {0}, NEW r \in Record, FrameAt(f, pos, r)
  PROVE  Intact(f, pos) /\ NextFrame(f, pos) = pos + Len(Frame(r))
<1> DEFINE p == Payload(r)
           n == Len(p)
           last == pos + 2 + n - 1
<1>1. p \in Seq(Unit) /\ n \in {1, 2} BY PayloadIs
<1>2. /\ Len(Frame(r)) = 2 + n
      /\ Frame(r)[1] = Crc32(p) /\ Frame(r)[2] = <<"length", n>>
      /\ \A i \in 1 .. n : Frame(r)[2 + i] = p[i]
  BY FrameIs DEF HeaderSize
<1>3. pos + 2 + n - 1 <= Len(f) /\ \A i \in 1 .. 2 + n : f[pos + i - 1] = Frame(r)[i]
  BY SMT, <1>1, <1>2 DEF FrameAt
<1> HIDE DEF p
<1>4. f[pos] = Crc32(p) /\ f[pos + 1] = <<"length", n>>
  <2>1. f[pos + 1 - 1] = Crc32(p) /\ f[pos + 2 - 1] = <<"length", n>> BY SMT, <1>1, <1>2, <1>3
  <2> QED BY SMT, <2>1
<1>5. \A i \in 1 .. n : f[pos + 2 + i - 1] = p[i]
  <2>1. \A i \in 1 .. n : 2 + i \in 1 .. 2 + n /\ pos + (2 + i) - 1 = pos + 2 + i - 1
    BY SMT, <1>1
  <2> QED BY <1>2, <1>3, <2>1
<1>6. SubSeq(f, pos + 2, last) = p
  <2> DEFINE s == SubSeq(f, pos + 2, last)
  <2>1. pos + 2 \in 1 .. Len(f) + 1 /\ last \in (pos + 2) - 1 .. Len(f) /\ last - (pos + 2) + 1 = n
    BY SMT, <1>1, <1>3
  <2>2. /\ s \in Seq(Unit)
        /\ Len(s) = n
        /\ \A i \in 1 .. n : s[i] = f[pos + 2 + i - 1]
    BY SMT, <2>1, PartIs
  <2> HIDE DEF s
  <2>3. \A i \in 1 .. Len(s) : s[i] = p[i] BY <1>5, <2>2
  <2>4. s = p BY <1>1, <2>2, <2>3, SeqEqual
  <2> QED BY <2>4 DEF s
<1>7. f[pos + 1][1] = "length" /\ f[pos + 1][2] = n BY SMT, <1>4
<1>8. pos + 2 - 1 <= Len(f) /\ last <= Len(f) BY SMT, <1>1, <1>3
<1>9. Intact(f, pos) BY <1>4, <1>6, <1>7, <1>8 DEF Intact, HeaderSize
<1>10. NextFrame(f, pos) = pos + (2 + n) BY SMT, <1>1, <1>7 DEF NextFrame, HeaderSize
<1> QED BY <1>2, <1>9, <1>10

\* An intact frame is one that was written, whole: its checksum is that of a
\* payload that was written, and no two payloads have the same.
LEMMA IntactIsWhole ==
  ASSUME NEW f \in Seq(Unit), NEW pos \in Nat \ {0}, Intact(f, pos)
  PROVE  \E r \in Record : FrameAt(f, pos, r)
<1> DEFINE n == f[pos + 1][2]
           last == pos + 2 + n - 1
           s == SubSeq(f, pos + 2, last)
<1>1. pos + 2 - 1 <= Len(f) /\ f[pos + 1][1] = "length" /\ last <= Len(f) /\ f[pos] = Crc32(s)
  BY DEF Intact, HeaderSize
<1>2. f[pos] \in Unit /\ f[pos + 1] \in Unit BY SMT, <1>1
<1>3. n \in {1, 2} /\ f[pos + 1] = <<"length", n>> BY <1>1, <1>2, UnitIs
<1>4. f[pos][1] = "crc" BY SMT, <1>1 DEF Crc32
<1>5. PICK r \in Record : f[pos] = Crc32(Payload(r)) BY <1>2, <1>4, UnitIs
<1>6. s = Payload(r) BY SMT, <1>1, <1>5 DEF Crc32
<1>7. Len(s) = n /\ \A i \in 1 .. n : s[i] = f[pos + 2 + i - 1]
  <2> HIDE DEF n
  <2>1. pos + 2 \in 1 .. Len(f) + 1 /\ last \in (pos + 2) - 1 .. Len(f) /\ last - (pos + 2) + 1 = n
    BY SMT, <1>1, <1>3
  <2> HIDE DEF last
  <2>2. Len(s) = last - (pos + 2) + 1 /\ \A i \in 1 .. last - (pos + 2) + 1 : s[i] = f[pos + 2 + i - 1]
    BY <2>1, PartIs
  <2> HIDE DEF s
  <2> QED BY <2>1, <2>2
<1> HIDE DEF s, n
<1>8. /\ Len(Frame(r)) = 2 + n
      /\ Frame(r)[1] = Crc32(Payload(r)) /\ Frame(r)[2] = <<"length", n>>
      /\ \A i \in 1 .. n : Frame(r)[2 + i] = Payload(r)[i]
  BY <1>6, <1>7, FrameIs DEF HeaderSize
<1>9. ASSUME NEW i \in 1 .. 2 + n PROVE f[pos + i - 1] = Frame(r)[i]
  <2>1. CASE i = 1
    <3>1. pos + i - 1 = pos BY SMT, <2>1
    <3> QED BY <1>5, <1>8, <2>1, <3>1
  <2>2. CASE i = 2
    <3>1. pos + i - 1 = pos + 1 BY SMT, <2>2
    <3> QED BY <1>3, <1>8, <2>2, <3>1
  <2>3. CASE i > 2
    <3>1. i - 2 \in 1 .. n /\ 2 + (i - 2) = i /\ pos + 2 + (i - 2) - 1 = pos + i - 1
      BY SMT, <1>3, <2>3
    <3>2. s[i - 2] = f[pos + 2 + (i - 2) - 1] BY <1>7, <3>1
    <3>3. Frame(r)[2 + (i - 2)] = s[i - 2] BY <1>6, <1>8, <3>1
    <3> QED BY <3>1, <3>2, <3>3
  <2> QED BY SMT, <1>3, <2>1, <2>2, <2>3
<1>10. pos + (2 + n) - 1 <= Len(f) BY SMT, <1>1, <1>3
<1> QED BY <1>8, <1>9, <1>10 DEF FrameAt

\* The frame behind an intact one begins further on in the file, or at its end.
LEMMA NextIs ==
  ASSUME NEW f \in Seq(Unit), NEW pos \in 1 .. Len(f) + 1, Intact(f, pos)
  PROVE  NextFrame(f, pos) \in pos + 3 .. Len(f) + 1 /\ pos + 2 <= Len(f)
<1>1. pos \in Nat \ {0} BY SMT
<1>2. PICK r \in Record : FrameAt(f, pos, r) BY <1>1, IntactIsWhole
<1> DEFINE n == Len(Frame(r))
<1>3. NextFrame(f, pos) = pos + n BY <1>1, <1>2, WholeIsIntact
<1>4. n \in {3, 4} BY FrameLen
<1>5. pos + n - 1 <= Len(f) BY <1>2 DEF FrameAt
<1> HIDE DEF n
<1>6. pos + n \in pos + 3 .. Len(f) + 1 /\ pos + 2 <= Len(f) BY SMT, <1>4, <1>5
<1> QED BY <1>3, <1>6

-------------------------------------------------------------------------------
(* The positions replay goes through *)

\* A set of positions that replay does not leave.
Closed(f, S) == \A q \in S : Intact(f, q) => NextFrame(f, q) \in S

\* The positions replay goes through form the least closed set with the first.
LEMMA ReachedIs ==
  ASSUME NEW f \in Seq(Unit)
  PROVE  /\ Reached(f) \in SUBSET (1 .. Len(f) + 1)
         /\ 1 \in Reached(f)
         /\ Closed(f, Reached(f))
         /\ \A S \in SUBSET (1 .. Len(f) + 1) : 1 \in S /\ Closed(f, S) => Reached(f) \subseteq S
<1> DEFINE D == 1 .. Len(f) + 1
           Step(g) == [pos \in D |-> IF Intact(f, pos) THEN {pos} \cup g[NextFrame(f, pos)] ELSE {pos}]
           Go == CHOOSE g : g = Step(g)
           From(p) == {q \in D : \A S \in SUBSET D : p \in S /\ Closed(f, S) => q \in S}
           h == [pos \in D |-> From(pos)]
<1>1. Reached(f) = Go[1] BY DEF Reached
<1>2. ASSUME NEW p \in D, Intact(f, p) PROVE NextFrame(f, p) \in D /\ NextFrame(f, p) > p
  BY SMT, <1>2, NextIs
<1>3. ASSUME NEW p \in D PROVE p \in From(p) /\ From(p) \in SUBSET D OBVIOUS
<1>4. ASSUME NEW p \in D PROVE Closed(f, From(p))
  BY <1>2 DEF Closed
<1>5. ASSUME NEW p \in D, Intact(f, p) PROVE From(p) = {p} \cup From(NextFrame(f, p))
  <2> DEFINE n == NextFrame(f, p)
             T == {p} \cup From(n)
  <2>1. n \in D BY <1>2, <1>5
  <2>2. n \in From(n) /\ From(n) \in SUBSET D /\ Closed(f, From(n)) BY <1>3, <1>4, <2>1
  <2>3. T \in SUBSET D /\ p \in T /\ Closed(f, T) BY <2>2 DEF Closed
  <2>4. From(p) \subseteq T BY <2>3
  <2>5. ASSUME NEW q \in From(n) PROVE q \in From(p)
    <3>1. ASSUME NEW S \in SUBSET D, p \in S, Closed(f, S) PROVE q \in S
      <4>1. n \in S BY <1>5, <3>1 DEF Closed
      <4> QED BY <2>5, <3>1, <4>1
    <3> QED BY <2>5, <3>1
  <2> QED BY <1>3, <2>4, <2>5
<1>6. ASSUME NEW p \in D, ~Intact(f, p) PROVE From(p) = {p}
  <2>1. Closed(f, {p}) BY <1>6 DEF Closed
  <2> QED BY <1>3, <2>1
<1>7. ASSUME NEW p \in D PROVE h[p] = From(p) OBVIOUS
<1> HIDE DEF From
<1>8. h = Step(h)
  <2>1. ASSUME NEW p \in D PROVE h[p] = IF Intact(f, p) THEN {p} \cup h[NextFrame(f, p)] ELSE {p}
    BY <1>2, <1>5, <1>6, <1>7
  <2>2. h = [p \in D |-> h[p]] BY <1>7
  <2> QED BY <2>1, <2>2
<1>9. Go = Step(Go) BY <1>8
<1> HIDE DEF h, Go
<1>10. ASSUME NEW p \in D
       PROVE  Go[p] = IF Intact(f, p) THEN {p} \cup Go[NextFrame(f, p)] ELSE {p}
  BY <1>9
<1>11. \A p \in D : Go[p] = From(p)
  <2> DEFINE B == {m \in Nat : \E p \in D : Go[p] # From(p) /\ m = Len(f) + 1 - p}
  <2>1. \A p \in D : Len(f) + 1 - p \in Nat BY SMT
  <2>2. SUFFICES ASSUME B # {} PROVE FALSE BY <2>1
  <2>3. PICK m \in B : \A i \in B : m <= i BY <2>2, LeastNat
  <2>4. PICK p \in D : Go[p] # From(p) /\ m = Len(f) + 1 - p BY <2>3
  <2>5. CASE Intact(f, p)
    <3> DEFINE n == NextFrame(f, p)
    <3>1. n \in D /\ n > p BY <1>2, <2>5
    <3>2. ASSUME Go[n] # From(n) PROVE FALSE
      <4>1. Len(f) + 1 - n \in B BY <2>1, <3>1, <3>2
      <4>2. m <= Len(f) + 1 - n BY <2>3, <4>1
      <4> HIDE DEF n
      <4> QED BY SMT, <2>4, <3>1, <4>2
    <3> QED BY <1>5, <1>10, <2>4, <2>5, <3>2
  <2>6. CASE ~Intact(f, p) BY <1>6, <1>10, <2>4, <2>6
  <2> QED BY <2>5, <2>6
<1>12. 1 \in D BY SMT
<1>13. Reached(f) = From(1) BY <1>1, <1>11, <1>12 DEF Go
<1>14. \A S \in SUBSET D : 1 \in S /\ Closed(f, S) => From(1) \subseteq S BY DEF From
<1> QED BY <1>3, <1>4, <1>12, <1>13, <1>14

-------------------------------------------------------------------------------
(* A file and a longer one *)

Begins(f, g) == Len(f) <= Len(g) /\ \A i \in 1 .. Len(f) : f[i] = g[i]

\* Cutting a file short leaves a beginning of it.
LEMMA CutBegins ==
  ASSUME NEW f \in Seq(Unit), NEW n \in 0 .. Len(f)
  PROVE  /\ SubSeq(f, 1, n) \in Seq(Unit)
         /\ Len(SubSeq(f, 1, n)) = n
         /\ \A i \in 1 .. n : SubSeq(f, 1, n)[i] = f[i]
         /\ Begins(SubSeq(f, 1, n), f)
BY SMT DEF Begins

\* The frames that end within a beginning of the file are the same in both.
LEMMA BeginsIntact ==
  ASSUME NEW f \in Seq(Unit), NEW g \in Seq(Unit), Begins(f, g), NEW q \in Nat \ {0}
  PROVE  /\ \A r \in Record : FrameAt(f, q, r) => FrameAt(g, q, r)
         /\ \A r \in Record : FrameAt(g, q, r) /\ q + Len(Frame(r)) - 1 <= Len(f) => FrameAt(f, q, r)
         /\ Intact(f, q) => Intact(g, q) /\ NextFrame(g, q) = NextFrame(f, q)
         /\ Intact(g, q) /\ NextFrame(g, q) <= Len(f) + 1 => Intact(f, q)
<1>1. Len(f) \in Nat /\ Len(g) \in Nat /\ Len(f) <= Len(g) /\ \A i \in 1 .. Len(f) : f[i] = g[i]
  BY SMT DEF Begins
<1>2. ASSUME NEW r \in Record, q + Len(Frame(r)) - 1 <= Len(f)
      PROVE  FrameAt(f, q, r) <=> FrameAt(g, q, r)
  <2> DEFINE n == Len(Frame(r))
  <2>1. n \in {3, 4} BY FrameLen
  <2>2. q + n - 1 <= Len(f) BY <1>2
  <2> HIDE DEF n
  <2>3. \A i \in 1 .. n : q + i - 1 \in 1 .. Len(f) BY SMT, <1>1, <2>1, <2>2
  <2>4. q + n - 1 <= Len(g) BY SMT, <1>1, <2>1, <2>2
  <2> QED BY <1>1, <2>2, <2>3, <2>4 DEF FrameAt, n
<1>3. \A r \in Record : FrameAt(f, q, r) => FrameAt(g, q, r) BY <1>2 DEF FrameAt
<1>4. ASSUME Intact(f, q) PROVE Intact(g, q) /\ NextFrame(g, q) = NextFrame(f, q)
  <2>1. PICK r \in Record : FrameAt(f, q, r) BY <1>4, IntactIsWhole
  <2>2. FrameAt(g, q, r) BY <1>3, <2>1
  <2>3. Intact(g, q) /\ NextFrame(g, q) = q + Len(Frame(r)) BY <2>2, WholeIsIntact
  <2>4. NextFrame(f, q) = q + Len(Frame(r)) BY <2>1, WholeIsIntact
  <2> QED BY <2>3, <2>4
<1>5. ASSUME Intact(g, q), NextFrame(g, q) <= Len(f) + 1 PROVE Intact(f, q)
  <2>1. PICK r \in Record : FrameAt(g, q, r) BY <1>5, IntactIsWhole
  <2> DEFINE n == Len(Frame(r))
  <2>2. q + n <= Len(f) + 1 BY <1>5, <2>1, WholeIsIntact
  <2>3. n \in {3, 4} BY FrameLen
  <2> HIDE DEF n
  <2>4. q + n - 1 <= Len(f) BY SMT, <1>1, <2>2, <2>3
  <2> QED BY <1>2, <2>1, <2>4, WholeIsIntact DEF n
<1> QED BY <1>2, <1>3, <1>4, <1>5

\* As far as the shorter file goes, replay goes through the same positions.
LEMMA BeginsReached ==
  ASSUME NEW f \in Seq(Unit), NEW g \in Seq(Unit), Begins(f, g)
  PROVE  \A q \in 1 .. Len(f) + 1 : q \in Reached(f) <=> q \in Reached(g)
<1> DEFINE D == 1 .. Len(f) + 1
           E == 1 .. Len(g) + 1
           A == {q \in D : q \in Reached(g)}
           B == {q \in E : q \in D => q \in Reached(f)}
<1>1. Len(f) \in Nat /\ Len(g) \in Nat /\ Len(f) <= Len(g) BY SMT DEF Begins
<1>2. /\ Reached(f) \in SUBSET D /\ 1 \in Reached(f) /\ Closed(f, Reached(f))
      /\ \A S \in SUBSET D : 1 \in S /\ Closed(f, S) => Reached(f) \subseteq S
  BY ReachedIs
<1>3. /\ Reached(g) \in SUBSET E /\ 1 \in Reached(g) /\ Closed(g, Reached(g))
      /\ \A S \in SUBSET E : 1 \in S /\ Closed(g, S) => Reached(g) \subseteq S
  BY ReachedIs
<1>4. 1 \in D /\ 1 \in E /\ D \subseteq Nat \ {0} /\ E \subseteq Nat \ {0} BY SMT, <1>1
<1>5. Closed(f, A)
  <2>1. ASSUME NEW q \in A, Intact(f, q) PROVE NextFrame(f, q) \in A
    <3>1. q \in D /\ q \in Reached(g) OBVIOUS
    <3>2. NextFrame(f, q) \in D BY SMT, <1>1, <2>1, <3>1, NextIs
    <3>3. Intact(g, q) /\ NextFrame(g, q) = NextFrame(f, q) BY <1>4, <2>1, <3>1, BeginsIntact
    <3> QED BY <1>3, <3>1, <3>2, <3>3 DEF Closed
  <2> QED BY <2>1 DEF Closed
<1>6. Closed(g, B)
  <2>1. ASSUME NEW q \in B, Intact(g, q) PROVE NextFrame(g, q) \in B
    <3> DEFINE n == NextFrame(g, q)
    <3>1. q \in E /\ (q \in D => q \in Reached(f)) OBVIOUS
    <3>2. n \in q + 3 .. Len(g) + 1 BY <2>1, <3>1, NextIs
    <3> HIDE DEF n
    <3>3. n \in E BY SMT, <1>1, <3>1, <3>2
    <3>4. ASSUME n \in D PROVE n \in Reached(f)
      <4>1. q \in D /\ n <= Len(f) + 1 BY SMT, <1>1, <3>1, <3>2, <3>4
      <4>2. Intact(f, q) BY <1>4, <2>1, <4>1, BeginsIntact DEF n
      <4>3. NextFrame(f, q) = n BY <1>4, <4>1, <4>2, BeginsIntact DEF n
      <4> QED BY <1>2, <3>1, <4>1, <4>2, <4>3 DEF Closed
    <3> QED BY <3>3, <3>4 DEF n
  <2> QED BY <2>1 DEF Closed
<1>7. Reached(f) \subseteq A BY <1>2, <1>3, <1>4, <1>5
<1>8. Reached(g) \subseteq B BY <1>2, <1>3, <1>4, <1>6
<1> QED BY <1>7, <1>8

\* g is f and then some or all of the frame of r.
Extends(f, g, r) ==
  /\ Begins(f, g)
  /\ Len(g) - Len(f) <= Len(Frame(r))
  /\ \A i \in 1 .. Len(g) - Len(f) : g[Len(f) + i] = Frame(r)[i]

\* What follows a torn frame does not complete it: it begins with a checksum,
\* which no frame has inside.
LEMMA TornStays ==
  ASSUME NEW f \in Seq(Unit), NEW g \in Seq(Unit), NEW r \in Record, Extends(f, g, r),
         NEW q \in Nat \ {0}, q <= Len(f), Intact(g, q)
  PROVE  NextFrame(g, q) <= Len(f) + 1
<1>1. PICK s \in Record : FrameAt(g, q, s) BY IntactIsWhole
<1> DEFINE n == Len(Frame(s))
<1>2. NextFrame(g, q) = q + n BY <1>1, WholeIsIntact
<1>3. n \in {3, 4} BY FrameLen
<1>4. q + n - 1 <= Len(g) /\ \A i \in 1 .. n : g[q + i - 1] = Frame(s)[i] BY <1>1 DEF FrameAt
<1>5. \A i \in 2 .. n : Frame(s)[i][1] # "crc" BY FrameIs
<1> HIDE DEF n
<1>6. Len(f) \in Nat /\ Len(g) \in Nat BY SMT
<1>7. ASSUME q + n > Len(f) + 1 PROVE FALSE
  <2> DEFINE i == Len(f) + 1 - q + 1
  <2>1. i \in 2 .. n /\ i \in 1 .. n /\ q + i - 1 = Len(f) + 1 BY SMT, <1>3, <1>6, <1>7
  <2> HIDE DEF i
  <2>2. 1 \in 1 .. Len(g) - Len(f) BY SMT, <1>3, <1>4, <1>6, <1>7
  <2>3. g[Len(f) + 1] = Frame(r)[1] BY <2>2 DEF Extends
  <2>4. g[Len(f) + 1] = Frame(s)[i] BY <1>4, <2>1
  <2>5. Frame(r)[1][1] = "crc"
    <3>1. Frame(r)[1] = Crc32(Payload(r)) BY FrameIs
    <3> QED BY SMT, <3>1 DEF Crc32
  <2> QED BY <1>5, <2>1, <2>3, <2>4, <2>5
<1> QED BY SMT, <1>2, <1>3, <1>6, <1>7

\* Behind a torn frame, and as long as it is not complete, the frame of r is
\* not delivered; replay of the rest stays as it is.
LEMMA ReachedSame ==
  ASSUME NEW f \in Seq(Unit), NEW g \in Seq(Unit), NEW r \in Record, Extends(f, g, r),
         Torn(f) \/ Len(g) - Len(f) < Len(Frame(r))
  PROVE  Reached(g) = Reached(f)
<1>1. Begins(f, g) /\ Len(f) \in Nat /\ Len(g) \in Nat /\ Len(f) <= Len(g)
  BY SMT DEF Extends, Begins
<1>2. Reached(f) \in SUBSET (1 .. Len(f) + 1) /\ 1 \in Reached(f) /\ Closed(f, Reached(f))
  BY ReachedIs
<1>3. /\ Reached(g) \in SUBSET (1 .. Len(g) + 1)
      /\ \A S \in SUBSET (1 .. Len(g) + 1) : 1 \in S /\ Closed(g, S) => Reached(g) \subseteq S
  BY ReachedIs
<1>4. Reached(f) \in SUBSET (1 .. Len(g) + 1) /\ Reached(f) \in SUBSET (Nat \ {0}) BY SMT, <1>1, <1>2
<1>5. ASSUME NEW q \in Reached(f), Intact(g, q) PROVE NextFrame(g, q) \in Reached(f)
  <2>1. q \in Nat \ {0} /\ q \in 1 .. Len(f) + 1 BY <1>2, <1>4
  <2>2. CASE q <= Len(f)
    <3>1. NextFrame(g, q) <= Len(f) + 1 BY <1>5, <2>1, <2>2, TornStays
    <3>2. Intact(f, q) BY <1>1, <1>5, <2>1, <3>1, BeginsIntact
    <3>3. NextFrame(g, q) = NextFrame(f, q) BY <1>1, <2>1, <3>2, BeginsIntact
    <3> QED BY <1>2, <3>2, <3>3 DEF Closed
  <2>3. CASE q = Len(f) + 1
    <3>1. Len(g) - Len(f) < Len(Frame(r)) BY <1>5, <2>3 DEF Torn
    <3>2. PICK s \in Record : FrameAt(g, q, s) BY <1>5, <2>1, IntactIsWhole
    <3> DEFINE m == Len(Payload(r))
               n == Len(Payload(s))
    <3>3. m \in {1, 2} /\ Len(Frame(r)) = 2 + m /\ Frame(r)[2] = <<"length", m>>
      BY PayloadIs, FrameIs DEF HeaderSize
    <3>4. n \in {1, 2} /\ Len(Frame(s)) = 2 + n /\ Frame(s)[2] = <<"length", n>>
      BY PayloadIs, FrameIs DEF HeaderSize
    <3> HIDE DEF m, n
    <3>5. q + (2 + n) - 1 <= Len(g) /\ \A i \in 1 .. 2 + n : g[q + i - 1] = Frame(s)[i]
      BY <3>2, <3>4 DEF FrameAt
    <3>6. g[q + 2 - 1] = Frame(s)[2] BY SMT, <3>4, <3>5
    <3>7. 2 \in 1 .. Len(g) - Len(f) /\ q + 2 - 1 = Len(f) + 2 BY SMT, <1>1, <2>3, <3>4, <3>5
    <3>8. g[Len(f) + 2] = Frame(r)[2] BY <3>7 DEF Extends
    <3>9. <<"length", m>> = <<"length", n>> BY <3>3, <3>4, <3>6, <3>7, <3>8
    <3>10. m = n BY <3>9
    <3>11. Len(g) - Len(f) < 2 + m BY <3>1, <3>3
    <3> QED BY SMT, <1>1, <2>3, <3>3, <3>5, <3>10, <3>11
  <2> QED BY SMT, <1>1, <2>1, <2>2, <2>3
<1>6. Closed(g, Reached(f)) BY <1>5 DEF Closed
<1>7. Reached(g) \subseteq Reached(f) BY <1>2, <1>3, <1>4, <1>6
<1>8. \A q \in 1 .. Len(f) + 1 : q \in Reached(f) <=> q \in Reached(g) BY <1>1, BeginsReached
<1> QED BY <1>2, <1>7, <1>8

\* A complete frame behind a file that is not torn is delivered.
LEMMA ReachedMore ==
  ASSUME NEW f \in Seq(Unit), NEW g \in Seq(Unit), NEW r \in Record, Extends(f, g, r),
         ~Torn(f), Len(g) - Len(f) = Len(Frame(r))
  PROVE  /\ Reached(g) = Reached(f) \cup {Len(g) + 1}
         /\ FrameAt(g, Len(f) + 1, r)
         /\ ~Torn(g)
<1> DEFINE n == Len(Frame(r))
           p == Len(f) + 1
           T == Reached(f) \cup {Len(g) + 1}
<1>1. Begins(f, g) /\ Len(f) \in Nat /\ Len(g) \in Nat /\ Len(f) <= Len(g)
  BY SMT DEF Extends, Begins
<1>2. Reached(f) \in SUBSET (1 .. Len(f) + 1) /\ 1 \in Reached(f) /\ Closed(f, Reached(f))
  BY ReachedIs
<1>3. /\ Reached(g) \in SUBSET (1 .. Len(g) + 1)
      /\ Closed(g, Reached(g))
      /\ \A S \in SUBSET (1 .. Len(g) + 1) : 1 \in S /\ Closed(g, S) => Reached(g) \subseteq S
  BY ReachedIs
<1>4. T \in SUBSET (1 .. Len(g) + 1) /\ T \in SUBSET (Nat \ {0}) BY SMT, <1>1, <1>2
<1>5. n \in {3, 4} BY FrameLen
<1>6. Len(g) = Len(f) + n BY SMT, <1>1
<1>7. \A i \in 1 .. n : g[Len(f) + i] = Frame(r)[i] BY DEF Extends
<1>8. FrameAt(g, p, r)
  <2> HIDE DEF n
  <2>1. p + n - 1 <= Len(g) /\ \A i \in 1 .. n : p + i - 1 = Len(f) + i BY SMT, <1>1, <1>5, <1>6
  <2> QED BY <1>7, <2>1 DEF FrameAt, n
<1>9. Intact(g, p) /\ NextFrame(g, p) = Len(g) + 1
  <2>1. p \in Nat \ {0} BY SMT, <1>1
  <2>2. Intact(g, p) /\ NextFrame(g, p) = p + n BY <1>8, <2>1, WholeIsIntact
  <2> HIDE DEF n
  <2>3. p + n = Len(g) + 1 BY SMT, <1>1, <1>5, <1>6
  <2> QED BY <2>2, <2>3
<1>10. p \in Reached(f) BY DEF Torn
<1>11. ASSUME NEW q \in T, Intact(g, q) PROVE NextFrame(g, q) \in T
  <2>1. q \in Nat \ {0} /\ q \in 1 .. Len(g) + 1 BY <1>4
  <2>2. q # Len(g) + 1
    <3>1. q + 2 <= Len(g) BY <1>11, <2>1, NextIs
    <3> QED BY SMT, <1>1, <2>1, <3>1
  <2>3. q \in Reached(f) /\ q \in 1 .. Len(f) + 1 BY <1>2, <2>2
  <2>4. CASE q <= Len(f)
    <3>1. NextFrame(g, q) <= Len(f) + 1 BY <1>11, <2>1, <2>4, TornStays
    <3>2. Intact(f, q) BY <1>1, <1>11, <2>1, <3>1, BeginsIntact
    <3>3. NextFrame(g, q) = NextFrame(f, q) BY <1>1, <2>1, <3>2, BeginsIntact
    <3> QED BY <1>2, <2>3, <3>2, <3>3 DEF Closed
  <2>5. CASE q = p BY <1>9, <2>5
  <2> QED BY SMT, <1>1, <2>3, <2>4, <2>5
<1>12. Closed(g, T) BY <1>11 DEF Closed
<1>13. Reached(g) \subseteq T BY <1>2, <1>3, <1>4, <1>12
<1>14. \A q \in 1 .. Len(f) + 1 : q \in Reached(f) <=> q \in Reached(g) BY <1>1, BeginsReached
<1>15. Reached(f) \subseteq Reached(g) BY <1>2, <1>14
<1>16. Len(g) + 1 \in Reached(g) BY <1>3, <1>9, <1>10, <1>15 DEF Closed
<1> QED BY <1>8, <1>13, <1>15, <1>16 DEF Torn

-------------------------------------------------------------------------------
(* The table replay builds *)

Hits(f, k) == {pos \in Delivered(f) : f[pos + HeaderSize][2][1] = k}
IsLast(i, S) == i \in S /\ \A j \in S : j <= i

\* What is delivered is the record of a whole frame.
LEMMA DeliveredIs ==
  ASSUME NEW f \in Seq(Unit), NEW pos \in Delivered(f)
  PROVE  /\ pos \in 1 .. Len(f) + 1 /\ pos + HeaderSize \in 1 .. Len(f)
         /\ Intact(f, pos) /\ pos \in Reached(f)
         /\ \E r \in Record : FrameAt(f, pos, r) /\ f[pos + HeaderSize] = <<"data", r>>
<1>1. Intact(f, pos) /\ pos \in Reached(f) BY DEF Delivered
<1>2. pos \in 1 .. Len(f) + 1 BY <1>1, ReachedIs
<1>3. pos \in Nat \ {0} /\ Len(f) \in Nat BY SMT, <1>2
<1>4. pos + 2 <= Len(f) BY <1>1, <1>2, NextIs
<1>5. pos + HeaderSize \in 1 .. Len(f) BY SMT, <1>3, <1>4 DEF HeaderSize
<1>6. PICK r \in Record : FrameAt(f, pos, r) BY <1>1, <1>3, IntactIsWhole
<1>7. Len(Frame(r)) \in {3, 4} BY FrameLen
<1>8. 3 \in 1 .. Len(Frame(r)) /\ pos + 3 - 1 = pos + HeaderSize
  <2> DEFINE n == Len(Frame(r))
  <2>1. n \in {3, 4} BY <1>7
  <2> HIDE DEF n
  <2>2. 3 \in 1 .. n BY SMT, <2>1
  <2>3. pos + 3 - 1 = pos + HeaderSize BY SMT, <1>3 DEF HeaderSize
  <2> QED BY <2>2, <2>3 DEF n
<1>9. f[pos + 3 - 1] = Frame(r)[3] BY <1>6, <1>8 DEF FrameAt
<1>10. f[pos + HeaderSize] = <<"data", r>> BY <1>8, <1>9, FrameIs
<1> QED BY <1>1, <1>2, <1>5, <1>6, <1>10

\* A key that is delivered has a last record, whose entry the table holds.
LEMMA ReplayIs ==
  ASSUME NEW f \in Seq(Unit), NEW k \in Keys
  PROVE  /\ Hits(f, k) = {} => WalReplay(f)[k] = NotFound
         /\ Hits(f, k) # {} => \E i : IsLast(i, Hits(f, k))
         /\ \A i : IsLast(i, Hits(f, k)) => WalReplay(f)[k] = f[i + HeaderSize][2][2]
<1> DEFINE H == Hits(f, k)
           P(i) == \A j \in H : j <= i
           c == CHOOSE i \in H : P(i)
<1>1. WalReplay(f)[k] = IF H = {} THEN NotFound ELSE f[c + HeaderSize][2][2]
  BY DEF WalReplay, Hits
<1>2. ASSUME NEW i \in H PROVE i \in 1 .. Len(f) + 1
  BY DeliveredIs DEF Hits
<1> HIDE DEF H
<1>3. ASSUME H # {} PROVE \E i \in H : P(i)
  <2> DEFINE S == {m \in Nat : \E i \in H : m = Len(f) + 1 - i}
  <2>1. \A i \in H : Len(f) + 1 - i \in Nat BY SMT, <1>2
  <2>2. S # {} BY <1>3, <2>1
  <2>3. PICK m \in S : \A n \in S : m <= n BY <2>2, LeastNat
  <2>4. PICK i \in H : m = Len(f) + 1 - i BY <2>3
  <2>5. ASSUME NEW j \in H PROVE j <= i
    <3>1. Len(f) + 1 - j \in S BY <2>1
    <3>2. Len(f) + 1 - i <= Len(f) + 1 - j BY <2>3, <2>4, <3>1
    <3>3. i \in Nat /\ j \in Nat /\ Len(f) \in Nat BY SMT, <1>2
    <3> QED BY SMT, <3>2, <3>3
  <2> QED BY <2>5
<1>4. ASSUME NEW i, i \in H, P(i) PROVE c = i
  <2>1. c \in H /\ P(c) BY <1>4
  <2>2. c <= i /\ i <= c BY <1>4, <2>1
  <2>3. c \in Nat /\ i \in Nat BY SMT, <1>2, <1>4, <2>1
  <2> HIDE DEF c
  <2> QED BY SMT, <2>2, <2>3
<1> HIDE DEF c
<1>5. ASSUME NEW i, IsLast(i, H) PROVE WalReplay(f)[k] = f[i + HeaderSize][2][2]
  BY <1>1, <1>4, <1>5 DEF IsLast
<1> QED BY <1>1, <1>3, <1>5 DEF IsLast, H

\* Replay yields a table.
LEMMA ReplayType ==
  ASSUME NEW f \in Seq(Unit)
  PROVE  WalReplay(f) \in [Keys -> Entries \cup {NotFound}]
<1>1. ASSUME NEW k \in Keys PROVE WalReplay(f)[k] \in Entries \cup {NotFound}
  <2>1. CASE Hits(f, k) = {} BY <2>1, ReplayIs
  <2>2. CASE Hits(f, k) # {}
    <3>1. PICK i : IsLast(i, Hits(f, k)) BY <2>2, ReplayIs
    <3>2. WalReplay(f)[k] = f[i + HeaderSize][2][2] BY <3>1, ReplayIs
    <3>3. i \in Delivered(f) BY <3>1 DEF IsLast, Hits
    <3>4. PICK r \in Record : f[i + HeaderSize] = <<"data", r>> BY <3>3, DeliveredIs
    <3>5. r[2] \in Entries BY DEF Record
    <3>6. <<"data", r>>[2] = r OBVIOUS
    <3> QED BY <3>2, <3>4, <3>5, <3>6
  <2> QED BY <2>1, <2>2
<1>2. WalReplay(f) = [k \in Keys |-> WalReplay(f)[k]] BY SMT DEF WalReplay
<1> QED BY <1>1, <1>2

\* The last record of a key that replay hits is the one it leaves.
LEMMA LastWins ==
  ASSUME NEW f \in Seq(Unit), NEW k \in Keys, NEW i, IsLast(i, Hits(f, k))
  PROVE  WalReplay(f)[k] = f[i + HeaderSize][2][2]
<1>1. \A j : IsLast(j, Hits(f, k)) => WalReplay(f)[k] = f[j + HeaderSize][2][2] BY ReplayIs
<1> QED BY <1>1

\* Files that replay goes through alike yield the same table.
LEMMA ReplaySame ==
  ASSUME NEW f \in Seq(Unit), NEW g \in Seq(Unit), Begins(f, g), Reached(g) = Reached(f)
  PROVE  /\ WalReplay(g) = WalReplay(f)
         /\ Delivered(g) = Delivered(f)
         /\ Len(g) > Len(f) => Torn(g)
<1>1. Reached(f) \in SUBSET (1 .. Len(f) + 1) BY ReachedIs
<1>2. ASSUME NEW q \in Reached(f) PROVE Intact(g, q) <=> Intact(f, q)
  <2>1. q \in 1 .. Len(f) + 1 /\ q \in Nat \ {0} BY SMT, <1>1
  <2>2. Closed(g, Reached(g)) BY ReachedIs
  <2>3. ASSUME Intact(g, q) PROVE Intact(f, q)
    <3>1. NextFrame(g, q) \in 1 .. Len(f) + 1 BY <1>1, <2>2, <2>3 DEF Closed
    <3>2. NextFrame(g, q) <= Len(f) + 1 BY SMT, <3>1
    <3> QED BY <2>1, <2>3, <3>2, BeginsIntact
  <2> QED BY <2>1, <2>3, BeginsIntact
<1>3. Delivered(g) = Delivered(f) BY <1>2 DEF Delivered
<1>4. ASSUME NEW pos \in Delivered(f) PROVE f[pos + HeaderSize] = g[pos + HeaderSize]
  <2>1. pos + HeaderSize \in 1 .. Len(f) BY DeliveredIs
  <2> QED BY <2>1 DEF Begins
<1>5. ASSUME NEW k \in Keys PROVE WalReplay(g)[k] = WalReplay(f)[k]
  <2>1. Hits(g, k) = Hits(f, k) BY <1>3, <1>4 DEF Hits
  <2>2. CASE Hits(f, k) = {} BY <2>1, <2>2, ReplayIs
  <2>3. CASE Hits(f, k) # {}
    <3>1. PICK i : IsLast(i, Hits(f, k)) BY <2>3, ReplayIs
    <3>2. i \in Delivered(f) BY <3>1 DEF IsLast, Hits
    <3>3. WalReplay(f)[k] = f[i + HeaderSize][2][2] BY <3>1, LastWins
    <3>4. WalReplay(g)[k] = g[i + HeaderSize][2][2]
      <4>1. IsLast(i, Hits(g, k)) BY <2>1, <3>1
      <4> QED BY <4>1, LastWins
    <3> QED BY <1>4, <3>2, <3>3, <3>4
  <2> QED BY <2>2, <2>3
<1>6. WalReplay(g) = WalReplay(f)
  <2>1. WalReplay(g) \in [Keys -> Entries \cup {NotFound}] /\ WalReplay(f) \in [Keys -> Entries \cup {NotFound}]
    BY ReplayType
  <2> QED BY SMT, <1>5, <2>1
<1>7. ASSUME Len(g) > Len(f) PROVE Torn(g)
  <2>1. Len(g) + 1 \notin 1 .. Len(f) + 1 BY SMT, <1>7
  <2> QED BY <1>1, <2>1 DEF Torn
<1> QED BY <1>3, <1>6, <1>7

\* The record of a frame that is delivered last wins.
LEMMA ReplayAdd ==
  ASSUME NEW f \in Seq(Unit), NEW g \in Seq(Unit), NEW r \in Record, Extends(f, g, r),
         ~Torn(f), Len(g) - Len(f) = Len(Frame(r))
  PROVE  WalReplay(g) = [WalReplay(f) EXCEPT ![r[1]] = r[2]]
<1> DEFINE p == Len(f) + 1
<1>1. Begins(f, g) /\ Len(f) \in Nat /\ Len(g) \in Nat /\ Len(f) <= Len(g)
  BY SMT DEF Extends, Begins
<1>2. Reached(g) = Reached(f) \cup {Len(g) + 1} /\ FrameAt(g, p, r) BY ReachedMore
<1>3. p \in Nat \ {0} /\ p \in 1 .. Len(g) + 1 BY SMT, <1>1
<1>4. Intact(g, p) BY <1>2, <1>3, WholeIsIntact
<1>5. p \in Reached(f) BY DEF Torn
<1>6. p \in Delivered(g) BY <1>2, <1>4, <1>5 DEF Delivered
<1>7. g[p + HeaderSize] = <<"data", r>>
  <2> DEFINE n == Len(Frame(r))
  <2>1. n \in {3, 4} BY FrameLen
  <2> HIDE DEF p, n
  <2>2. 3 \in 1 .. n /\ p + 3 - 1 = p + HeaderSize BY SMT, <1>3, <2>1 DEF HeaderSize
  <2>3. g[p + 3 - 1] = Frame(r)[3] BY <1>2, <2>2 DEF FrameAt, n
  <2> QED BY <2>2, <2>3, FrameIs
<1>8. ASSUME NEW q PROVE q \in Delivered(g) <=> q \in Delivered(f) \/ q = p
  <2>1. ASSUME q \in Delivered(f) PROVE q \in Delivered(g)
    <3>1. q \in Reached(f) /\ Intact(f, q) /\ q \in 1 .. Len(f) + 1 BY <2>1, DeliveredIs
    <3>2. q \in Nat \ {0} BY SMT, <3>1
    <3>3. Intact(g, q) BY <1>1, <3>1, <3>2, BeginsIntact
    <3> QED BY <1>2, <3>1, <3>3 DEF Delivered
  <2>2. ASSUME q \in Delivered(g), q # p PROVE q \in Delivered(f)
    <3>1. q \in Reached(g) /\ Intact(g, q) /\ q + HeaderSize \in 1 .. Len(g) /\ q \in 1 .. Len(g) + 1
      BY <2>2, DeliveredIs
    <3>2. q # Len(g) + 1 BY SMT, <1>1, <3>1 DEF HeaderSize
    <3>3. q \in Reached(f) BY <1>2, <3>1, <3>2
    <3>4. q \in 1 .. Len(f) + 1 BY <3>3, ReachedIs
    <3>5. q \in Nat \ {0} /\ q <= Len(f) BY SMT, <1>1, <2>2, <3>4
    <3>6. NextFrame(g, q) <= Len(f) + 1 BY <3>1, <3>5, TornStays
    <3>7. Intact(f, q) BY <1>1, <3>1, <3>5, <3>6, BeginsIntact
    <3> QED BY <3>3, <3>7 DEF Delivered
  <2> QED BY <1>6, <2>1, <2>2
<1>9. ASSUME NEW pos \in Delivered(f) PROVE f[pos + HeaderSize] = g[pos + HeaderSize] /\ pos <= p
  <2>1. pos + HeaderSize \in 1 .. Len(f) /\ pos \in 1 .. Len(f) + 1 BY DeliveredIs
  <2>2. pos <= p BY SMT, <2>1
  <2> QED BY <1>1, <2>1, <2>2 DEF Begins
<1>10. <<"data", r>>[2] = r OBVIOUS
<1>11. WalReplay(g)[r[1]] = r[2]
  <2>1. r[1] \in Keys BY DEF Record
  <2>2. p \in Hits(g, r[1]) BY <1>6, <1>7, <1>10 DEF Hits
  <2>3. p <= p BY SMT, <1>3
  <2>4. \A j \in Hits(g, r[1]) : j <= p BY <1>8, <1>9, <2>3 DEF Hits
  <2>5. IsLast(p, Hits(g, r[1])) BY <2>2, <2>4 DEF IsLast
  <2>6. WalReplay(g)[r[1]] = g[p + HeaderSize][2][2] BY <2>1, <2>5, LastWins
  <2> QED BY <1>7, <1>10, <2>6
<1>12. ASSUME NEW k \in Keys, k # r[1] PROVE WalReplay(g)[k] = WalReplay(f)[k]
  <2>1. p \notin Hits(g, k) BY <1>7, <1>10, <1>12 DEF Hits
  <2>2. Hits(g, k) = Hits(f, k) BY <1>8, <1>9, <2>1 DEF Hits
  <2>3. CASE Hits(f, k) = {} BY <2>2, <2>3, ReplayIs
  <2>4. CASE Hits(f, k) # {}
    <3>1. PICK i : IsLast(i, Hits(f, k)) BY <2>4, ReplayIs
    <3>2. i \in Delivered(f) BY <3>1 DEF IsLast, Hits
    <3>3. WalReplay(f)[k] = f[i + HeaderSize][2][2] BY <3>1, LastWins
    <3>4. WalReplay(g)[k] = g[i + HeaderSize][2][2]
      <4>1. IsLast(i, Hits(g, k)) BY <2>2, <3>1
      <4> QED BY <4>1, LastWins
    <3> QED BY <1>9, <3>2, <3>3, <3>4
  <2> QED BY <2>3, <2>4
<1>13. WalReplay(g) \in [Keys -> Entries \cup {NotFound}] /\ WalReplay(f) \in [Keys -> Entries \cup {NotFound}]
  BY ReplayType
<1> QED BY <1>11, <1>12, <1>13

-------------------------------------------------------------------------------
(* The writer *)

\* From start on, the file holds a beginning of the frame in progress.
InProgress ==
  IF pc = "idle" THEN start = Len(file) + 1
  ELSE /\ rec \in Record
       /\ start - 1 + Len(Frame(rec)) <= MaxUnits
       /\ Extends(Before, file, rec)
       /\ pc = "fsync" <=> Len(file) - Len(Before) = Len(Frame(rec))

WalInv == TypeOK /\ InProgress /\ synced < start

\* The file before the frame in progress.
LEMMA BeforeIs ==
  ASSUME WalInv
  PROVE  /\ file \in Seq(Unit) /\ Len(file) \in Nat /\ synced \in Nat
         /\ start \in 1 .. Len(file) + 1
         /\ Before \in Seq(Unit) /\ Len(Before) = start - 1
         /\ \A i \in 1 .. start - 1 : Before[i] = file[i]
         /\ Begins(Before, file)
<1>1. file \in Seq(Unit) /\ Len(file) \in Nat /\ synced \in Nat /\ start \in 1 .. Len(file) + 1
  BY SMT DEF WalInv, TypeOK
<1>2. start - 1 \in 0 .. Len(file) BY SMT, <1>1
<1> QED BY <1>1, <1>2, CutBegins DEF Before

\* Where unit i of a frame that begins behind b units and has off units in a file
\* of z units will be, when n more are written.
Moved(b, z, off, n, i) ==
  /\ b + i \in 1 .. z + n /\ ~(b + i <= z) /\ (b + i) - z \in 1 .. n
  /\ off + 1 + ((b + i) - z) - 1 = i

\* Which is behind what is there, among the n.
LEMMA Behind ==
  ASSUME NEW b \in Nat, NEW z \in Nat, NEW off \in Nat, off = z - b, NEW n \in Nat,
         NEW i \in 1 .. off + n, i > off
  PROVE  Moved(b, z, off, n, i)
BY SMT DEF Moved

\* What one write(2) makes of the file.
LEMMA Grown ==
  ASSUME WalInv, pc # "idle", NEW off, off = Len(file) - start + 1,
         NEW n \in 1 .. Len(Frame(rec)) - off
  PROVE  LET g == file \o SubSeq(Frame(rec), off + 1, off + n)
         IN  /\ g \in Seq(Unit)
             /\ Len(g) = Len(file) + n
             /\ Len(g) - Len(Before) = off + n
             /\ Len(g) <= MaxUnits
             /\ Begins(file, g)
             /\ Extends(Before, g, rec)
             /\ SubSeq(g, 1, start - 1) = Before
<1> DEFINE F == Frame(rec)
           s == SubSeq(F, off + 1, off + n)
           g == file \o s
<1>1. /\ file \in Seq(Unit) /\ Len(file) \in Nat /\ start \in 1 .. Len(file) + 1
      /\ Before \in Seq(Unit) /\ Len(Before) = start - 1
      /\ \A i \in 1 .. start - 1 : Before[i] = file[i]
  BY BeforeIs
<1>2. /\ rec \in Record /\ start - 1 + Len(F) <= MaxUnits
      /\ Len(file) - Len(Before) <= Len(F)
      /\ \A i \in 1 .. Len(file) - Len(Before) : file[Len(Before) + i] = F[i]
  BY DEF WalInv, InProgress, Extends
<1>3. F \in Seq(Unit) BY <1>2, FrameIs
<1> HIDE DEF F
<1>4. off \in Nat /\ Len(F) \in Nat /\ off + n <= Len(F) /\ n \in Nat /\ n > 0 BY SMT, <1>1, <1>3 DEF F
<1>6. s \in Seq(Unit) /\ Len(s) = n /\ \A i \in 1 .. n : s[i] = F[off + 1 + i - 1] BY <1>3, <1>4, PieceIs
<1> HIDE DEF s
<1>7. /\ g \in Seq(Unit) /\ Len(g) = Len(file) + Len(s)
      /\ \A i \in 1 .. Len(file) + Len(s) : g[i] = IF i <= Len(file) THEN file[i] ELSE s[i - Len(file)]
  BY <1>1, <1>6, ConcatProperties
<1> HIDE DEF g
<1>8. Len(g) = Len(file) + n /\ Len(g) - Len(Before) = off + n BY SMT, <1>1, <1>4, <1>6, <1>7
<1>9. Len(g) <= MaxUnits BY SMT, <1>1, <1>2, <1>4, <1>8, WalAssumption
<1>10. ASSUME NEW i \in 1 .. Len(file) PROVE g[i] = file[i]
  <2>1. i <= Len(file) /\ i \in 1 .. Len(file) + Len(s) BY SMT, <1>1, <1>4, <1>6
  <2> QED BY <1>7, <2>1
<1>11. Begins(file, g) BY SMT, <1>1, <1>4, <1>8, <1>10 DEF Begins
<1>12. Begins(Before, g) BY SMT, <1>1, <1>4, <1>8, <1>10 DEF Begins
<1>13. ASSUME NEW i \in 1 .. off + n PROVE g[Len(Before) + i] = F[i]
  <2>1. CASE i <= off
    <3>1. Len(Before) + i \in 1 .. Len(file) /\ i \in 1 .. Len(file) - Len(Before) BY SMT, <1>1, <1>4, <2>1
    <3> QED BY <1>2, <1>10, <3>1
  <2>2. CASE i > off
    <3> DEFINE j == Len(Before) + i
               b == Len(Before)
               z == Len(file)
    <3>1. b \in Nat /\ z \in Nat /\ off = z - b /\ off \in Nat /\ n \in Nat /\ Len(s) = n BY SMT, <1>1, <1>4, <1>6
    <3> HIDE DEF b, z
    <3>2. Moved(b, z, off, n, i) BY <2>2, <3>1, Behind
    <3>3. /\ j \in 1 .. Len(file) + Len(s) /\ ~(j <= Len(file))
          /\ j - Len(file) \in 1 .. n /\ off + 1 + (j - Len(file)) - 1 = i
      BY <3>1, <3>2 DEF Moved, b, z
    <3> HIDE DEF j
    <3>4. g[j] = s[j - Len(file)] BY <1>7, <3>3
    <3>5. s[j - Len(file)] = F[i] BY <1>6, <3>3
    <3> QED BY <3>4, <3>5 DEF j
  <2> QED BY SMT, <1>4, <2>1, <2>2
<1>14. Extends(Before, g, rec) BY <1>4, <1>8, <1>12, <1>13 DEF Extends, F
<1>15. SubSeq(g, 1, start - 1) = Before
  <2> DEFINE b == SubSeq(g, 1, start - 1)
  <2>1. start - 1 \in 0 .. Len(g) BY SMT, <1>1, <1>4, <1>8
  <2>2. b \in Seq(Unit) /\ Len(b) = start - 1 /\ \A i \in 1 .. start - 1 : b[i] = g[i]
    BY <1>7, <2>1, CutBegins
  <2>3. \A i \in 1 .. start - 1 : b[i] = Before[i] BY SMT, <1>1, <1>10, <2>2
  <2> HIDE DEF b
  <2>4. b = Before BY <1>1, <2>2, <2>3, SeqEqual
  <2> QED BY <2>4 DEF b
<1> QED BY <1>7, <1>8, <1>9, <1>11, <1>14, <1>15 DEF g, s, F

\* The steps of the writer, as they change the file and what lies before the
\* frame in progress.
LEMMA WriteIs ==
  ASSUME WalInv, Write
  PROVE  /\ file' \in Seq(Unit) /\ Len(file') <= MaxUnits
         /\ Begins(file, file')
         /\ Extends(Before, file', rec)
         /\ SubSeq(file', 1, start - 1) = Before
         /\ rec \in Record
         /\ synced' = synced
         /\ \/ /\ UNCHANGED <<pc, rec, start, safe>>
               /\ Len(file') - Len(Before) < Len(Frame(rec))
            \/ /\ pc' = "fsync" /\ UNCHANGED <<rec, start, safe>>
               /\ Len(file') - Len(Before) = Len(Frame(rec))
            \/ /\ ~Sync /\ Ack
               /\ Len(file') - Len(Before) = Len(Frame(rec))
<1> DEFINE frame == Frame(rec)
           off == Len(file) - start + 1
<1>1. PICK n \in 1 .. Len(frame) - off :
           /\ file' = file \o SubSeq(frame, off + 1, off + n)
           /\ IF off + n < Len(frame) THEN UNCHANGED <<pc, rec, start, safe>>
              ELSE IF Sync THEN pc' = "fsync" /\ UNCHANGED <<rec, start, safe>>
              ELSE Ack
  BY DEF Write
<1>2. pc # "idle" /\ rec \in Record /\ synced' = synced BY DEF Write, WalInv, InProgress
<1>3. Len(frame) \in Nat BY SMT, <1>2, FrameLen
<1>4. off \in Int BY SMT, BeforeIs
<1>5. /\ file' \in Seq(Unit)
      /\ Len(file') - Len(Before) = off + n
      /\ Len(file') <= MaxUnits
      /\ Begins(file, file')
      /\ Extends(Before, file', rec)
      /\ SubSeq(file', 1, start - 1) = Before
  BY <1>1, <1>2, Grown
<1> HIDE DEF frame, off
<1>6. off + n <= Len(frame) BY SMT, <1>3, <1>4
<1>7. off + n < Len(frame) \/ off + n = Len(frame) BY SMT, <1>3, <1>4, <1>6
<1>8. CASE off + n < Len(frame) BY <1>1, <1>2, <1>5, <1>8 DEF frame
<1>9. CASE off + n = Len(frame)
  <2>1. ~(off + n < Len(frame)) BY SMT, <1>3, <1>9
  <2> QED BY <1>1, <1>2, <1>5, <1>9, <2>1 DEF frame
<1> QED BY <1>7, <1>8, <1>9

\* Every step keeps the shape of the file.
LEMMA WalInvStep ==
  ASSUME WalInv, [Next]_vars
  PROVE  WalInv'
<1>1. /\ file \in Seq(Unit) /\ Len(file) \in Nat /\ synced \in Nat /\ synced < start
      /\ start \in 1 .. Len(file) + 1 /\ Len(Before) = start - 1
      /\ Len(file) <= MaxUnits /\ synced \in 0 .. Len(file)
  BY BeforeIs DEF WalInv, TypeOK
<1>2. ASSUME NEW r \in Record, AddRecord(r) PROVE WalInv'
  <2> DEFINE n == Len(Frame(r))
  <2>1. n \in {3, 4} BY FrameLen
  <2>2. /\ up /\ Len(file) + n <= MaxUnits
        /\ pc' = "write" /\ rec' = r /\ start' = Len(file) + 1
        /\ UNCHANGED <<file, synced, up, safe, crashes>>
    BY <1>2 DEF AddRecord
  <2>3. TypeOK' BY SMT, <1>1, <2>2 DEF WalInv, TypeOK
  <2>4. (Before)' = file /\ Len((Before)') = Len(file)
    <3>1. (Before)' = SubSeq(file, 1, Len(file)) BY SMT, <1>1, <2>2 DEF Before
    <3> QED BY SMT, <1>1, <3>1
  <2>5. Extends((Before)', file', rec')
    BY SMT, <1>1, <2>1, <2>2, <2>4 DEF Extends, Begins
  <2> HIDE DEF n
  <2>6. Len(file') - Len((Before)') # n /\ start' - 1 + n <= MaxUnits BY SMT, <1>1, <2>1, <2>2, <2>4
  <2>7. InProgress' BY <2>2, <2>5, <2>6 DEF InProgress, n
  <2>8. (synced < start)' BY SMT, <1>1, <2>2
  <2> QED BY <2>3, <2>7, <2>8 DEF WalInv
<1>3. ASSUME Return, up' \in BOOLEAN, file' \in Seq(Unit), Len(file') <= MaxUnits, synced' \in 0 .. Len(file'),
             \A p \in safe' : p[1] \in 1 .. MaxUnits /\ p[2] \in Record
      PROVE  WalInv'
  <2>1. Len(file') \in Nat /\ start' = Len(file') + 1 /\ pc' = "idle" /\ rec' = NoRecord BY SMT, <1>3 DEF Return
  <2>2. TypeOK' BY SMT, <1>3, <2>1 DEF TypeOK, WalInv
  <2>3. InProgress' BY <2>1 DEF InProgress
  <2>4. (synced < start)' BY SMT, <1>3, <2>1
  <2> QED BY <2>2, <2>3, <2>4 DEF WalInv
<1>4. ASSUME Ack, rec \in Record, start \in 1 .. MaxUnits
      PROVE  \A p \in safe' : p[1] \in 1 .. MaxUnits /\ p[2] \in Record
  <2>1. safe' \subseteq safe \cup {<<start, rec>>} BY <1>4 DEF Ack
  <2>2. \A p \in safe : p[1] \in 1 .. MaxUnits /\ p[2] \in Record BY DEF WalInv, TypeOK
  <2> QED BY SMT, <1>4, <2>1, <2>2
<1>5. ASSUME pc # "idle" PROVE rec \in Record /\ start \in 1 .. MaxUnits
  <2>1. rec \in Record /\ start - 1 + Len(Frame(rec)) <= MaxUnits BY <1>5 DEF WalInv, InProgress
  <2> DEFINE n == Len(Frame(rec))
  <2>2. n \in {3, 4} BY <2>1, FrameLen
  <2> HIDE DEF n
  <2>3. start - 1 + n <= MaxUnits BY <2>1 DEF n
  <2> QED BY SMT, <1>1, <2>1, <2>2, <2>3, WalAssumption
<1>6. ASSUME Write PROVE WalInv'
  <2>1. /\ file' \in Seq(Unit) /\ Len(file') <= MaxUnits
        /\ Begins(file, file')
        /\ Extends(Before, file', rec)
        /\ SubSeq(file', 1, start - 1) = Before
        /\ rec \in Record /\ synced' = synced
    BY <1>6, WriteIs
  <2>2. up' \in BOOLEAN /\ pc = "write" /\ up' = up BY <1>6 DEF Write, WalInv, TypeOK
  <2>3. Len(file') \in Nat /\ Len(file) <= Len(file') BY SMT, <2>1 DEF Begins
  <2>4. synced' \in 0 .. Len(file') BY SMT, <1>1, <2>1, <2>3
  <2>5. CASE start' = start /\ rec' = rec /\ safe' = safe
             /\ \/ pc' = pc /\ Len(file') - Len(Before) < Len(Frame(rec))
                \/ pc' = "fsync" /\ Len(file') - Len(Before) = Len(Frame(rec))
    <3>1. TypeOK' BY SMT, <1>1, <2>1, <2>2, <2>3, <2>4, <2>5 DEF WalInv, TypeOK
    <3>2. (Before)' = Before BY <2>1, <2>5 DEF Before
    <3>3. start - 1 + Len(Frame(rec)) <= MaxUnits BY <2>2 DEF WalInv, InProgress
    <3>4. Len(file') - Len(Before) < Len(Frame(rec)) => Len(file') - Len(Before) # Len(Frame(rec))
      BY SMT, <1>1, <2>1, <2>3, FrameLen
    <3>5. pc' # "idle" /\ (pc' = "fsync" <=> Len(file') - Len(Before) = Len(Frame(rec)))
      BY <2>2, <2>5, <3>4
    <3>6. InProgress' BY <2>1, <2>5, <3>2, <3>3, <3>5 DEF InProgress
    <3>7. (synced < start)' BY <1>1, <2>1, <2>5
    <3> QED BY <3>1, <3>6, <3>7 DEF WalInv
  <2>6. CASE Ack
    <3>1. \A p \in safe' : p[1] \in 1 .. MaxUnits /\ p[2] \in Record
      BY <1>4, <1>5, <2>2, <2>6
    <3> QED BY <1>3, <2>1, <2>2, <2>4, <2>6, <3>1 DEF Ack
  <2> QED BY <1>6, <2>5, <2>6, WriteIs
<1>7. ASSUME WriteFail \/ FsyncFail PROVE WalInv'
  <2>1. Return /\ UNCHANGED <<file, synced, up, safe>> BY <1>7 DEF WriteFail, FsyncFail
  <2>2. /\ up' \in BOOLEAN /\ file' \in Seq(Unit) /\ Len(file') <= MaxUnits /\ synced' \in 0 .. Len(file')
        /\ \A p \in safe' : p[1] \in 1 .. MaxUnits /\ p[2] \in Record
    BY <2>1 DEF WalInv, TypeOK
  <2> QED BY <1>3, <2>1, <2>2
<1>8. ASSUME Fsync PROVE WalInv'
  <2>1. Ack /\ synced' = Len(file) /\ UNCHANGED <<file, up>> /\ pc = "fsync" BY <1>8 DEF Fsync
  <2>2. up' \in BOOLEAN /\ file' \in Seq(Unit) /\ Len(file') <= MaxUnits /\ synced' \in 0 .. Len(file')
    BY SMT, <1>1, <2>1 DEF WalInv, TypeOK
  <2>3. \A p \in safe' : p[1] \in 1 .. MaxUnits /\ p[2] \in Record
    BY <1>4, <1>5, <2>1
  <2> QED BY <1>3, <2>1, <2>2, <2>3 DEF Ack
<1>9. ASSUME Truncate PROVE WalInv'
  <2>1. Return /\ file' = <<>> /\ synced' = 0 /\ safe' = {} /\ up' = up BY <1>9 DEF Truncate
  <2>2. up' \in BOOLEAN /\ file' \in Seq(Unit) /\ Len(file') <= MaxUnits /\ synced' \in 0 .. Len(file')
    BY SMT, <2>1, WalAssumption DEF WalInv, TypeOK
  <2> QED BY <1>3, <2>1, <2>2
<1>10. ASSUME Crash PROVE WalInv'
  <2>1. Return /\ up' = FALSE /\ up' \in BOOLEAN /\ safe' = safe BY <1>10 DEF Crash
  <2>2. \A p \in safe' : p[1] \in 1 .. MaxUnits /\ p[2] \in Record
    BY <2>1 DEF WalInv, TypeOK
  <2>3. CASE UNCHANGED <<file, synced>>
    <3>1. file' \in Seq(Unit) /\ Len(file') <= MaxUnits /\ synced' \in 0 .. Len(file')
      BY <2>3 DEF WalInv, TypeOK
    <3> QED BY <1>3, <2>1, <2>2, <3>1
  <2>4. ASSUME NEW n \in synced .. Len(file), file' = SubSeq(file, 1, n), synced' = n PROVE WalInv'
    <3>1. n \in 0 .. Len(file) BY SMT, <1>1
    <3>2. file' \in Seq(Unit) /\ Len(file') = n BY <1>1, <2>4, <3>1, CutBegins
    <3>3. n <= MaxUnits /\ n \in 0 .. n BY SMT, <1>1, <3>1, WalAssumption
    <3>4. Len(file') <= MaxUnits /\ synced' \in 0 .. Len(file') BY <2>4, <3>2, <3>3
    <3> QED BY <1>3, <2>1, <2>2, <3>2, <3>4
  <2> QED BY <1>10, <2>3, <2>4 DEF Crash
<1>11. ASSUME (Open \/ UNCHANGED vars) PROVE WalInv'
  <2>1. UNCHANGED <<file, synced, pc, rec, start, safe>> /\ up' \in BOOLEAN
    BY <1>11 DEF Open, vars, WalInv, TypeOK
  <2> QED BY <2>1 DEF WalInv, TypeOK, InProgress, Before
<1> QED BY <1>2, <1>6, <1>7, <1>8, <1>9, <1>10, <1>11 DEF Next

\* The shape of the file, and with it the types, in every behaviour.
THEOREM WalInvariance == Spec => []WalInv
<1>1. Init => WalInv
  <2> SUFFICES ASSUME Init PROVE WalInv OBVIOUS
  <2>1. file = <<>> /\ synced = 0 /\ up = TRUE /\ pc = "idle" /\ rec = NoRecord /\ start = 1 /\ safe = {}
    BY DEF Init
  <2>2. TypeOK BY SMT, <2>1, WalAssumption DEF TypeOK
  <2> QED BY SMT, <2>1, <2>2 DEF WalInv, InProgress
<1> QED BY <1>1, WalInvStep, PTL DEF Spec

\* The log keeps its types.
THEOREM WalTypes == Spec => []TypeOK
<1>1. WalInv => TypeOK BY DEF WalInv
<1> QED BY <1>1, WalInvariance, PTL

\* Replay delivers nothing but whole records, whatever writes failed and
\* wherever crashes cut the file.
THEOREM OnlyWholeRecords == Spec => []ReplayedWhole
<1>1. WalInv => ReplayedWhole
  BY DeliveredIs DEF WalInv, TypeOK, ReplayedWhole
<1> QED BY <1>1, WalInvariance, PTL

-------------------------------------------------------------------------------
(* Acknowledged records *)

\* What a crash leaves of the file at least.
Stable == IF PowerLoss THEN synced ELSE Len(file)

\* Acknowledged records are delivered, and lie in what a crash leaves.
SafeInv ==
  /\ AckedReplayed
  /\ \A p \in safe : p[1] + Len(Frame(p[2])) - 1 <= Stable

\* A record delivered from one file is delivered from a longer one, and from a
\* shorter one that still holds its frame.
LEMMA StaysDelivered ==
  ASSUME NEW f \in Seq(Unit), NEW g \in Seq(Unit), Begins(f, g) \/ Begins(g, f),
         NEW r \in Record, NEW q \in Delivered(f), FrameAt(f, q, r), q + Len(Frame(r)) - 1 <= Len(g)
  PROVE  q \in Delivered(g) /\ FrameAt(g, q, r)
<1> DEFINE n == Len(Frame(r))
<1>1. q \in 1 .. Len(f) + 1 /\ Intact(f, q) /\ q \in Reached(f) BY DeliveredIs
<1>2. q \in Nat \ {0} /\ Len(f) \in Nat /\ Len(g) \in Nat BY SMT, <1>1
<1>3. n \in {3, 4} BY FrameLen
<1> HIDE DEF n
<1>4. q + n - 1 <= Len(g) BY DEF n
<1>5. q \in 1 .. Len(g) + 1 BY SMT, <1>2, <1>3, <1>4
<1>6. FrameAt(g, q, r) BY <1>2, BeginsIntact
<1>7. Intact(g, q) BY <1>2, <1>6, WholeIsIntact
<1>8. q \in Reached(g) BY <1>1, <1>5, BeginsReached
<1> QED BY <1>6, <1>7, <1>8 DEF Delivered

\* An acknowledged record stays delivered as long as no crash may take it:
\* with power failures, that is what Options::sync is for.
LEMMA SafeStep ==
  ASSUME PowerLoss => Sync, WalInv, WalInv', SafeInv, [Next]_vars
  PROVE  SafeInv'
<1>1. /\ file \in Seq(Unit) /\ Len(file) \in Nat /\ synced \in 0 .. Len(file)
      /\ start \in 1 .. Len(file) + 1 /\ Len(Before) = start - 1 /\ Before \in Seq(Unit)
      /\ file' \in Seq(Unit) /\ Len(file') \in Nat /\ synced' \in 0 .. Len(file')
      /\ \A p \in safe : p[1] \in Nat \ {0} /\ p[2] \in Record
  BY SMT, BeforeIs DEF WalInv, TypeOK
<1>2. Stable \in Nat /\ Stable <= Len(file) /\ Stable' \in Nat /\ Stable' <= Len(file')
  BY SMT, <1>1 DEF Stable
<1>3. ASSUME Begins(file, file') \/ Begins(file', file), NEW p \in safe,
             p[1] + Len(Frame(p[2])) - 1 <= Stable'
      PROVE  p[1] \in Delivered(file') /\ FrameAt(file', p[1], p[2])
  <2> DEFINE n == Len(Frame(p[2]))
  <2>1. n \in {3, 4} BY <1>1, FrameLen
  <2>2. p[1] \in Delivered(file) /\ FrameAt(file, p[1], p[2]) BY DEF SafeInv, AckedReplayed
  <2> HIDE DEF n
  <2>3. p[1] + n - 1 <= Stable' BY <1>3 DEF n
  <2>4. p[1] + n - 1 <= Len(file')
    <3> DEFINE q == p[1]  m == Len(file')  st == Stable'
    <3>1. q \in Nat /\ m \in Nat /\ st \in Nat /\ st <= m /\ q + n - 1 <= st BY <1>1, <1>2, <2>3
    <3> HIDE DEF q, m, st
    <3>2. q + n - 1 <= m BY SMT, <2>1, <3>1
    <3> QED BY <3>2 DEF q, m
  <2>5. p[1] + Len(Frame(p[2])) - 1 <= Len(file') BY <2>4 DEF n
  <2>6. p[1] \in Nat \ {0} /\ p[2] \in Record BY <1>1
  <2>7. file \in Seq(Unit) /\ file' \in Seq(Unit) BY <1>1
  <2> QED BY <1>3, <2>2, <2>5, <2>6, <2>7, StaysDelivered
<1>4. ASSUME NEW p \in safe, Stable <= Stable' PROVE p[1] + Len(Frame(p[2])) - 1 <= Stable'
  <2> DEFINE n == Len(Frame(p[2]))
  <2>1. n \in {3, 4} BY <1>1, FrameLen
  <2> HIDE DEF n
  <2>2. p[1] + n - 1 <= Stable BY DEF SafeInv, n
  <2>3. p[1] + n - 1 <= Stable'
    <3> DEFINE q == p[1]  s == Stable  t == Stable'
    <3>1. q \in Nat /\ s \in Nat /\ t \in Nat /\ s <= t /\ q + n - 1 <= s BY <1>1, <1>2, <1>4, <2>2
    <3> HIDE DEF q, s, t
    <3>2. q + n - 1 <= t BY SMT, <2>1, <3>1
    <3> QED BY <3>2 DEF q, t
  <2> QED BY <2>3 DEF n
<1>5. ASSUME safe' = safe, Stable <= Stable', Begins(file, file') \/ Begins(file', file)
      PROVE  SafeInv'
  BY <1>3, <1>4, <1>5 DEF SafeInv, AckedReplayed
<1>6. ASSUME Ack, rec \in Record, Begins(file, file'), Extends(Before, file', rec),
             Len(file') - Len(Before) = Len(Frame(rec)), Stable' = Len(file')
      PROVE  SafeInv'
  <2>1. Stable <= Stable' BY SMT, <1>1, <1>2, <1>6 DEF Begins
  <2>2. CASE safe' = safe BY <1>5, <1>6, <2>1, <2>2
  <2>3. CASE ~Torn(Before) /\ safe' = safe \cup {<<start, rec>>}
    <3> DEFINE q == <<start, rec>>
    <3>1. q[1] = start /\ q[2] = rec OBVIOUS
    <3>2. start = Len(Before) + 1 BY SMT, <1>1
    <3>3. Reached(file') = Reached(Before) \cup {Len(file') + 1} /\ FrameAt(file', start, rec)
      BY <1>1, <1>6, <2>3, <3>2, ReachedMore
    <3>4. start \in Reached(file') BY <2>3, <3>2, <3>3 DEF Torn
    <3>5. Intact(file', start)
      <4>1. start \in Nat \ {0} BY SMT, <1>1
      <4> QED BY <1>1, <1>6, <3>3, <4>1, WholeIsIntact
    <3>6. start \in Delivered(file') BY <3>4, <3>5 DEF Delivered
    <3>7. start + Len(Frame(rec)) - 1 <= Stable' BY SMT, <1>1, <1>6, <3>2
    <3> HIDE DEF q
    <3>8. \A p \in safe' : p \in safe \/ p = q BY <2>3 DEF q
    <3>9. \A p \in safe' : p[1] + Len(Frame(p[2])) - 1 <= Stable'
      BY <1>4, <2>1, <3>1, <3>7, <3>8
    <3>10. \A p \in safe' : p[1] \in Delivered(file') /\ FrameAt(file', p[1], p[2])
      BY <1>3, <1>6, <3>1, <3>3, <3>6, <3>8, <3>9
    <3> QED BY <3>9, <3>10 DEF SafeInv, AckedReplayed
  <2> QED BY <1>6, <2>2, <2>3 DEF Ack
<1>7. CASE Write
  <2>1. /\ Begins(file, file') /\ Extends(Before, file', rec) /\ rec \in Record /\ synced' = synced
        /\ \/ safe' = safe
           \/ ~Sync /\ Ack /\ Len(file') - Len(Before) = Len(Frame(rec))
    BY <1>7, WriteIs
  <2>2. Stable <= Stable' BY SMT, <1>1, <2>1 DEF Stable, Begins
  <2>3. ASSUME ~Sync PROVE Stable' = Len(file') BY <2>3 DEF Stable
  <2> QED BY <1>5, <1>6, <2>1, <2>2, <2>3
<1>8. ASSUME file' = file, synced' = synced, safe' = safe PROVE SafeInv'
  BY <1>8 DEF SafeInv, AckedReplayed, Stable
<1>9. CASE Fsync
  <2>1. /\ Ack /\ file' = file /\ synced' = Len(file) /\ pc = "fsync" BY <1>9 DEF Fsync
  <2>2. /\ rec \in Record /\ Extends(Before, file', rec)
        /\ Len(file') - Len(Before) = Len(Frame(rec))
    BY <2>1 DEF WalInv, InProgress
  <2>3. Begins(file, file') BY SMT, <1>1, <2>1 DEF Begins
  <2>4. Stable' = Len(file') BY <2>1 DEF Stable
  <2> QED BY <1>6, <2>1, <2>2, <2>3, <2>4
<1>10. CASE Truncate BY <1>10 DEF Truncate, SafeInv, AckedReplayed
<1>11. CASE Crash
  <2>1. safe' = safe BY <1>11 DEF Crash
  <2>2. CASE UNCHANGED <<file, synced>> BY <1>8, <2>1, <2>2
  <2>3. ASSUME PowerLoss, NEW n \in synced .. Len(file), file' = SubSeq(file, 1, n), synced' = n
        PROVE  SafeInv'
    <3>1. n \in Stable .. Len(file) BY <2>3 DEF Stable
    <3>2. n \in 0 .. Len(file) /\ Stable <= n BY SMT, <1>1, <1>2, <3>1
    <3>3. Len(file') = n /\ Begins(file', file) BY <1>1, <2>3, <3>2, CutBegins
    <3>4. Stable' = n BY <2>3, <3>3 DEF Stable
    <3> QED BY <1>5, <2>1, <3>2, <3>3, <3>4
  <2> QED BY <1>11, <2>2, <2>3 DEF Crash
<1> QED BY <1>7, <1>8, <1>9, <1>10, <1>11 DEF Next, AddRecord, WriteFail, FsyncFail, Open, vars

\* Every record acknowledged before a frame was torn is replayed as it was
\* written, for ever: if the machine may lose power, only where Options::sync
\* makes AddRecord wait for fsync.
THEOREM AcknowledgedReplayed ==
  ASSUME PowerLoss => Sync
  PROVE  Spec => []AckedReplayed
<1>1. Init => SafeInv BY DEF Init, SafeInv, AckedReplayed
<1>2. SafeInv => AckedReplayed BY DEF SafeInv
<1>3. WalInv /\ WalInv' /\ SafeInv /\ [Next]_vars => SafeInv' BY SafeStep
<1> QED BY <1>1, <1>2, <1>3, WalInvariance, PTL DEF Spec

-------------------------------------------------------------------------------
(* The log implements LogSpec *)

\* Cuts of a file and of one that it begins.
LEMMA CutsSame ==
  ASSUME NEW f \in Seq(Unit), NEW g \in Seq(Unit), Begins(f, g), NEW n \in 0 .. Len(f)
  PROVE  SubSeq(g, 1, n) = SubSeq(f, 1, n)
<1> DEFINE a == SubSeq(g, 1, n)
           b == SubSeq(f, 1, n)
<1>1. Len(f) \in Nat /\ Len(g) \in Nat /\ Len(f) <= Len(g) /\ \A i \in 1 .. Len(f) : f[i] = g[i]
  BY SMT DEF Begins
<1>2. n \in 0 .. Len(g) BY SMT, <1>1
<1>3. a \in Seq(Unit) /\ Len(a) = n /\ \A i \in 1 .. n : a[i] = g[i] BY <1>2, CutBegins
<1>4. b \in Seq(Unit) /\ Len(b) = n /\ \A i \in 1 .. n : b[i] = f[i] BY CutBegins
<1> HIDE DEF a, b
<1>5. \A i \in 1 .. n : a[i] = b[i] BY SMT, <1>1, <1>3, <1>4
<1>6. a = b BY <1>3, <1>4, <1>5, SeqEqual
<1> QED BY <1>6 DEF a, b

\* Cutting a file as long as it is leaves it as it is.
LEMMA CutAll ==
  ASSUME NEW f \in Seq(Unit)
  PROVE  SubSeq(f, 1, Len(f)) = f
<1> DEFINE g == SubSeq(f, 1, Len(f))
<1>1. Len(f) \in Nat /\ Len(f) \in 0 .. Len(f) BY SMT
<1>2. g \in Seq(Unit) /\ Len(g) = Len(f) /\ \A i \in 1 .. Len(f) : g[i] = f[i] BY <1>1, CutBegins
<1> HIDE DEF g
<1>3. \A i \in 1 .. Len(g) : g[i] = f[i] BY <1>2
<1>4. g = f BY <1>2, <1>3, SeqEqual
<1> QED BY <1>4 DEF g

\* Cut behind the beginning of a frame, a file still extends what was before.
LEMMA CutExtends ==
  ASSUME NEW f \in Seq(Unit), NEW g \in Seq(Unit), NEW r \in Record, Extends(f, g, r),
         NEW n \in Len(f) .. Len(g)
  PROVE  /\ SubSeq(g, 1, n) \in Seq(Unit) /\ Len(SubSeq(g, 1, n)) = n
         /\ Extends(f, SubSeq(g, 1, n), r)
<1> DEFINE h == SubSeq(g, 1, n)
           m == Len(Frame(r))
<1>1. /\ Len(f) \in Nat /\ Len(g) \in Nat /\ Len(f) <= Len(g) /\ \A i \in 1 .. Len(f) : f[i] = g[i]
      /\ Len(g) - Len(f) <= m
      /\ \A i \in 1 .. Len(g) - Len(f) : g[Len(f) + i] = Frame(r)[i]
  BY SMT DEF Extends, Begins
<1>2. n \in 0 .. Len(g) BY SMT, <1>1
<1>3. h \in Seq(Unit) /\ Len(h) = n /\ \A i \in 1 .. n : h[i] = g[i] BY <1>2, CutBegins
<1>4. m \in {3, 4} BY FrameLen
<1> HIDE DEF h, m
<1>5. Begins(f, h) BY SMT, <1>1, <1>3 DEF Begins
<1>6. Len(h) - Len(f) <= m BY SMT, <1>1, <1>3, <1>4
<1>7. ASSUME NEW i \in 1 .. Len(h) - Len(f) PROVE h[Len(f) + i] = Frame(r)[i]
  <2>1. i \in 1 .. Len(g) - Len(f) /\ Len(f) + i \in 1 .. n BY SMT, <1>1, <1>3
  <2> QED BY <1>1, <1>3, <2>1
<1>8. Extends(f, h, r) BY <1>5, <1>6, <1>7 DEF Extends, m
<1> QED BY <1>3, <1>8 DEF h

\* A frame that is not delivered leaves the table as it is, and the file torn.
LEMMA Undelivered ==
  ASSUME NEW f \in Seq(Unit), NEW g \in Seq(Unit), NEW r \in Record, Extends(f, g, r),
         Torn(f) \/ Len(g) - Len(f) < Len(Frame(r))
  PROVE  WalReplay(g) = WalReplay(f) /\ (Torn(g) <=> Torn(f) \/ Len(g) > Len(f))
<1>1. Begins(f, g) /\ Reached(g) = Reached(f) BY ReachedSame DEF Extends
<1>2. WalReplay(g) = WalReplay(f) /\ (Len(g) > Len(f) => Torn(g)) BY <1>1, ReplaySame
<1>3. Len(g) > Len(f) \/ Len(g) = Len(f) BY SMT, <1>1 DEF Begins
<1>4. ASSUME Len(g) = Len(f) PROVE (Torn(g) <=> Torn(f)) /\ ~(Len(g) > Len(f)) BY SMT, <1>1, <1>4 DEF Torn
<1> QED BY <1>2, <1>3, <1>4

\* An empty file yields an empty table.
LEMMA EmptyReplay ==
  WalReplay(<<>>) = [k \in Keys |-> NotFound] /\ ~Torn(<<>>)
<1> DEFINE f == <<>>
<1>1. f \in Seq(Unit) /\ Len(f) = 0 BY SMT
<1> HIDE DEF f
<1>2. Len(f) + 1 = 1 BY SMT, <1>1
<1>3. ~Torn(f) BY <1>1, <1>2, ReachedIs DEF Torn
<1>4. Delivered(f) = {}
  <2> SUFFICES ASSUME NEW q \in Delivered(f) PROVE FALSE OBVIOUS
  <2>1. q + HeaderSize \in 1 .. Len(f) BY <1>1, DeliveredIs
  <2> QED BY SMT, <1>1, <2>1
<1>5. \A k \in Keys : WalReplay(f)[k] = NotFound BY <1>1, <1>4, ReplayIs DEF Hits
<1>6. WalReplay(f) \in [Keys -> Entries \cup {NotFound}] BY <1>1, ReplayType
<1>7. WalReplay(f) = [k \in Keys |-> NotFound] BY <1>5, <1>6
<1> QED BY <1>3, <1>7 DEF f

\* With all of a file on stable storage, no key is unsure.
LEMMA AllSure ==
  ASSUME NEW f \in Seq(Unit), (Before)' = f, synced' = Len(f)
  PROVE  Unsure' = {}
<1>1. Len(f) .. Len(f) = {Len(f)} BY SMT
<1>2. \A n \in synced' .. Len(f) : SubSeq(f, 1, n) = f BY <1>1, CutAll
<1> QED BY <1>2 DEF Unsure

\* A whole frame written: a record added.
LEMMA AddRefines ==
  ASSUME WalInv, rec \in Record, file' \in Seq(Unit), Extends(Before, file', rec),
         Len(file') - Len(Before) = Len(Frame(rec)), (Before)' = file',
         synced' \in {synced, Len(file')}
  PROVE  Log!Add(rec[1], rec[2])
<1> DEFINE f == Before
           g == file'
           k == rec[1]
           x == rec[2]
<1>1. f \in Seq(Unit) /\ Len(f) \in Nat /\ synced \in Nat BY SMT, BeforeIs
<1>2. g \in Seq(Unit) /\ Len(g) \in Nat /\ Begins(f, g) /\ Len(f) < Len(g)
  <2> DEFINE n == Len(Frame(rec))
  <2>1. n \in {3, 4} /\ Len(g) - Len(f) = n BY FrameLen
  <2> HIDE DEF n
  <2> QED BY SMT, <1>1, <2>1 DEF Extends
<1> HIDE DEF f, g
<1>3. Extends(f, g, rec) /\ Len(g) - Len(f) = Len(Frame(rec)) BY DEF f, g
<1>4. WalReplay(g) = IF Torn(f) THEN WalReplay(f) ELSE [WalReplay(f) EXCEPT ![k] = x]
  BY <1>1, <1>2, <1>3, Undelivered, ReplayAdd
<1>5. Torn(g) <=> Torn(f) BY <1>1, <1>2, <1>3, Undelivered, ReachedMore
<1>6. ASSUME NEW j \in Keys, j # k PROVE WalReplay(g)[j] = WalReplay(f)[j]
  <2>1. WalReplay(f) \in [Keys -> Entries \cup {NotFound}] BY <1>1, ReplayType
  <2>2. CASE Torn(f) BY <1>4, <2>2
  <2>3. CASE ~Torn(f)
    <3>1. WalReplay(g) = [WalReplay(f) EXCEPT ![k] = x] BY <1>4, <2>3
    <3> QED BY <1>6, <2>1, <3>1
  <2> QED BY <2>2, <2>3
<1>7. ASSUME NEW j \in Unsure', j # k PROVE j \in Unsure
  <2>1. PICK n \in synced' .. Len(g) : WalReplay(SubSeq(g, 1, n))[j] # WalReplay(g)[j]
    BY DEF Unsure, g
  <2>2. j \in Keys BY DEF Unsure
  <2> DEFINE h == SubSeq(g, 1, n)
  <2>3. CASE n <= Len(f)
    <3>1. synced' # Len(g) BY SMT, <1>1, <1>2, <2>3
    <3>2. synced' = synced BY <3>1 DEF g
    <3>3. n \in synced .. Len(f) /\ n \in 0 .. Len(f) BY SMT, <1>1, <1>2, <2>3, <3>2
    <3>4. h = SubSeq(f, 1, n) BY <1>1, <1>2, <3>3, CutsSame
    <3>5. WalReplay(SubSeq(f, 1, n))[j] # WalReplay(f)[j] BY <1>6, <1>7, <2>1, <2>2, <3>4
    <3> QED BY <2>2, <3>3, <3>5 DEF Unsure, f
  <2>4. CASE n > Len(f)
    <3>1. n \in Len(f) .. Len(g) /\ (n = Len(g) \/ n < Len(g))
      <4>1. synced' \in Nat BY <1>1, <1>2 DEF g
      <4> QED BY SMT, <1>1, <1>2, <2>4, <4>1
    <3>2. n # Len(g) BY <1>2, <2>1, CutAll
    <3>3. h \in Seq(Unit) /\ Len(h) = n /\ Extends(f, h, rec) BY <1>1, <1>2, <1>3, <3>1, CutExtends
    <3>4. Len(h) - Len(f) < Len(Frame(rec)) BY SMT, <1>1, <1>2, <1>3, <3>1, <3>2, <3>3
    <3>5. WalReplay(h) = WalReplay(f) BY <1>1, <3>3, <3>4, Undelivered
    <3> QED BY <1>6, <1>7, <2>1, <2>2, <3>5
  <2>5. n \in Int BY SMT, <1>1, <1>2 DEF g
  <2> QED BY SMT, <1>1, <2>3, <2>4, <2>5
<1>8. WalReplay(Before)' = WalReplay(g) /\ Torn(Before)' = Torn(g) BY DEF g
<1>9. Unsure' \subseteq Unsure \cup {k} BY <1>7
<1>10. WalReplay(Before)' = IF Torn(Before) THEN WalReplay(Before) ELSE [WalReplay(Before) EXCEPT ![k] = x]
  BY <1>4, <1>8 DEF f
<1>11. Torn(Before)' = Torn(Before)
  <2>1. Torn(g) = Torn(f) BY <1>5 DEF Torn
  <2> QED BY <1>8, <2>1 DEF f
<1> QED BY <1>9, <1>10, <1>11 DEF Log!Add

\* The keys for which a cut behind what is on stable storage matters.
LEMMA UnsureIs ==
  \A k : k \in Unsure <=> k \in Keys /\ \E n \in synced .. Len(Before) :
                                       WalReplay(SubSeq(Before, 1, n))[k] # WalReplay(Before)[k]
<1> DEFINE b == Before
           T(n) == WalReplay(SubSeq(b, 1, n))
           D == synced .. Len(b)
<1>1. Unsure = {k \in Keys : \E t \in {T(n) : n \in D} : t[k] # WalReplay(b)[k]} BY DEF Unsure
<1> HIDE DEF T, D
<1>2. \A k : k \in Unsure <=> k \in Keys /\ \E n \in D : T(n)[k] # WalReplay(b)[k] BY <1>1
<1> QED BY <1>2 DEF T, D

\* A frame left incomplete: nothing, or a tear.
LEMMA TearRefines ==
  ASSUME WalInv, pc # "idle", Len(file) - Len(Before) < Len(Frame(rec)),
         (Before)' = file, synced' = synced
  PROVE  Log!Tear \/ UNCHANGED <<WalReplay(Before), Torn(Before), Unsure>>
<1> DEFINE f == Before
           g == file
<1>1. /\ f \in Seq(Unit) /\ Len(f) \in Nat /\ synced \in Nat /\ synced <= Len(f)
      /\ g \in Seq(Unit) /\ Len(g) \in Nat /\ Begins(f, g) /\ rec \in Record /\ Extends(f, g, rec)
  BY SMT, BeforeIs DEF WalInv, InProgress
<1>2. Len(g) - Len(f) < Len(Frame(rec)) OBVIOUS
<1>3. Len(f) = Len(g) \/ Len(f) < Len(g) BY SMT, <1>1 DEF Begins
<1>4. CASE Len(f) = Len(g)
  <2>1. \A i \in 1 .. Len(f) : f[i] = g[i] BY <1>1 DEF Begins
  <2>2. f = g BY <1>1, <1>4, <2>1, SeqEqual
  <2>3. (Before)' = Before BY <2>2
  <2> QED BY <2>3 DEF Unsure
<1>5. CASE Len(f) < Len(g)
  <2> HIDE DEF f, g
  <2>1. Len(g) > Len(f) BY <1>1, <1>5
  <2>2. WalReplay(g) = WalReplay(f) /\ Torn(g) BY <1>1, <1>2, <2>1, Undelivered DEF f, g
  <2>3. ASSUME NEW n \in 0 .. Len(f) PROVE SubSeq(g, 1, n) = SubSeq(f, 1, n)
    BY <1>1, CutsSame
  <2>4. ASSUME NEW n \in Len(f) .. Len(g) PROVE WalReplay(SubSeq(g, 1, n)) = WalReplay(f)
    <3> DEFINE h == SubSeq(g, 1, n)
    <3>1. h \in Seq(Unit) /\ Len(h) = n /\ Extends(f, h, rec) BY <1>1, CutExtends
    <3>2. Len(h) - Len(f) < Len(Frame(rec))
      <4> DEFINE m == Len(Frame(rec))
      <4>1. m \in {3, 4} /\ Len(g) - Len(f) < m BY <1>1, <1>2, FrameLen DEF f, g
      <4> HIDE DEF m
      <4>2. Len(h) - Len(f) < m BY SMT, <1>1, <3>1, <4>1
      <4> QED BY <4>2 DEF m
    <3> QED BY <1>1, <3>1, <3>2, Undelivered
  <2>5. \A n \in synced .. Len(f) : n \in 0 .. Len(f) /\ n \in synced .. Len(g) BY SMT, <1>1, <2>1
  <2>6. \A n \in synced .. Len(g) : n \in synced .. Len(f) \/ n \in Len(f) .. Len(g) BY SMT, <1>1, <2>1
  <2>7. \A k : k \in Unsure <=> k \in Keys /\ \E n \in synced .. Len(f) : WalReplay(SubSeq(f, 1, n))[k] # WalReplay(f)[k]
    BY UnsureIs DEF f
  <2>8. \A k : k \in Unsure' <=> k \in Keys /\ \E n \in synced .. Len(g) : WalReplay(SubSeq(g, 1, n))[k] # WalReplay(g)[k]
    BY DEF Unsure, g
  <2>9. \A k \in Unsure' : k \in Unsure BY <2>2, <2>3, <2>4, <2>5, <2>6, <2>7, <2>8
  <2>10. \A k \in Unsure : k \in Unsure' BY <2>2, <2>3, <2>5, <2>7, <2>8
  <2>11. Unsure' = Unsure BY <2>9, <2>10
  <2>12. WalReplay(Before)' = WalReplay(Before) BY <2>2 DEF f, g
  <2>13. Torn(Before)' = TRUE BY <2>2 DEF g, Torn
  <2> QED BY <2>11, <2>12, <2>13 DEF Log!Tear
<1> QED BY <1>3, <1>4, <1>5

\* A power loss: the records it takes were not on stable storage, and the frame
\* in progress is all there or not.
LEMMA PowerLossRefines ==
  ASSUME WalInv, Return,
         \E n \in synced .. Len(file) : file' = SubSeq(file, 1, n) /\ synced' = n
  PROVE  Log!Lose \/ (rec \in Record /\ Log!Add(rec[1], rec[2]))
<1> DEFINE f == Before
           h == file'
<1>1. /\ f \in Seq(Unit) /\ Len(f) \in Nat /\ Len(f) = start - 1 /\ Begins(f, file)
      /\ file \in Seq(Unit) /\ Len(file) \in Nat /\ synced \in 0 .. Len(file) /\ synced <= Len(f)
      /\ start \in Nat
  BY SMT, BeforeIs DEF WalInv, TypeOK
<1>2. PICK n \in synced .. Len(file) : file' = SubSeq(file, 1, n) /\ synced' = n OBVIOUS
<1>3. n \in 0 .. Len(file) /\ synced <= n BY SMT, <1>1
<1>4. h \in Seq(Unit) /\ Len(h) = n BY <1>1, <1>2, <1>3, CutBegins
<1>5. (Before)' = h
  <2>1. start' = n + 1 BY <1>4 DEF Return
  <2>2. start' - 1 = n BY SMT, <1>3, <2>1
  <2> QED BY <1>4, <2>2, CutAll DEF Before
<1>6. Unsure' = {} BY <1>2, <1>4, <1>5, AllSure
<1>7. WalReplay(Before)' = WalReplay(h) /\ Torn(Before)' = Torn(h) BY <1>5
<1>8. ASSUME \A k \in Keys \ Unsure : WalReplay(h)[k] = WalReplay(f)[k] PROVE Log!Lose
  <2>1. WalReplay(h) \in [Keys -> Entries \cup {NotFound}] BY <1>4, ReplayType
  <2>2. Torn(Before)' \in BOOLEAN BY DEF Torn
  <2> QED BY <1>6, <1>7, <1>8, <2>1, <2>2 DEF Log!Lose
<1>9. CASE n <= Len(f)
  <2>1. n \in synced .. Len(f) /\ n \in 0 .. Len(f) BY SMT, <1>1, <1>3, <1>9
  <2>2. h = SubSeq(f, 1, n) BY <1>1, <1>2, <2>1, CutsSame
  <2>3. \A k \in Keys \ Unsure : WalReplay(h)[k] = WalReplay(f)[k] BY <2>1, <2>2 DEF Unsure
  <2> QED BY <1>8, <2>3
<1>10. CASE n > Len(f)
  <2>1. pc # "idle" BY SMT, <1>1, <1>3, <1>10 DEF WalInv, InProgress
  <2>2. rec \in Record /\ Extends(f, file, rec) BY <2>1 DEF WalInv, InProgress
  <2>3. n \in Len(f) .. Len(file) BY SMT, <1>1, <1>3, <1>10
  <2>4. Extends(f, h, rec) BY <1>1, <1>2, <2>2, <2>3, CutExtends
  <2>5. CASE Torn(f) \/ Len(h) - Len(f) < Len(Frame(rec))
    <3>1. WalReplay(h) = WalReplay(f) BY <1>1, <1>4, <2>2, <2>4, <2>5, Undelivered
    <3> QED BY <1>8, <3>1
  <2>6. CASE ~Torn(f) /\ ~(Len(h) - Len(f) < Len(Frame(rec)))
    <3> DEFINE m == Len(Frame(rec))
    <3>1. m \in {3, 4} /\ Len(h) - Len(f) <= m /\ ~(Len(h) - Len(f) < m)
      BY <2>2, <2>4, <2>6, FrameLen DEF Extends
    <3> HIDE DEF m
    <3>2. Len(h) - Len(f) = m
      <4> HIDE DEF f, h
      <4> QED BY SMT, <1>1, <1>3, <1>4, <3>1
    <3>3. Len(h) - Len(f) = Len(Frame(rec)) BY <3>2 DEF m
    <3>4. synced' \in {synced, Len(h)} BY <1>2, <1>4
    <3> QED BY <1>4, <1>5, <2>2, <2>4, <3>3, <3>4, AddRefines
  <2> QED BY <2>5, <2>6
<1>11. n <= Len(f) \/ n > Len(f) BY SMT, <1>1, <1>3
<1> QED BY <1>9, <1>10, <1>11

\* Every step of the log is one of LogSpec.
LEMMA LogStep ==
  ASSUME WalInv, [Next]_vars
  PROVE  [Log!Next]_<<WalReplay(Before), Torn(Before), Unsure>>
<1> DEFINE Goal == [Log!Next]_<<WalReplay(Before), Torn(Before), Unsure>>
<1>1. /\ file \in Seq(Unit) /\ Len(file) \in Nat /\ Before \in Seq(Unit) BY BeforeIs
<1>2. ASSUME (Before)' = Before, synced' = synced PROVE Goal
  BY <1>2 DEF Unsure
<1>3. ASSUME rec \in Record, Log!Add(rec[1], rec[2]) PROVE Goal
  <2>1. rec[1] \in Keys /\ rec[2] \in Entries BY <1>3 DEF Record
  <2> QED BY <1>3, <2>1 DEF Log!Next
<1>4. ASSUME Return, file' \in Seq(Unit) PROVE (Before)' = file'
  <2>1. start' = Len(file') + 1 /\ Len(file') \in Nat BY SMT, <1>4 DEF Return
  <2>2. start' - 1 = Len(file') BY SMT, <2>1
  <2> QED BY <1>4, <2>2, CutAll DEF Before
<1>5. ASSUME NEW r \in Record, AddRecord(r) PROVE Goal
  <2>1. pc = "idle" /\ start' = Len(file) + 1 /\ file' = file /\ synced' = synced BY <1>5 DEF AddRecord
  <2>2. start = Len(file) + 1 BY <2>1 DEF WalInv, InProgress
  <2>3. (Before)' = Before BY <2>1, <2>2 DEF Before
  <2> QED BY <1>2, <2>1, <2>3
<1>6. CASE Write
  <2>1. /\ file' \in Seq(Unit) /\ Extends(Before, file', rec) /\ rec \in Record /\ synced' = synced
        /\ SubSeq(file', 1, start - 1) = Before
        /\ start' = start \/ (Ack /\ Len(file') - Len(Before) = Len(Frame(rec)))
    BY <1>6, WriteIs
  <2>2. CASE start' = start
    <3>1. (Before)' = Before BY <2>1, <2>2 DEF Before
    <3> QED BY <1>2, <2>1, <3>1
  <2>3. CASE Ack /\ Len(file') - Len(Before) = Len(Frame(rec))
    <3>1. (Before)' = file' BY <1>4, <2>1, <2>3 DEF Ack
    <3> QED BY <1>3, <2>1, <2>3, <3>1, AddRefines
  <2> QED BY <2>1, <2>2, <2>3
<1>7. ASSUME pc = "fsync", file' = file, synced' \in {synced, Len(file')}, Return PROVE Goal
  <2>1. rec \in Record /\ Extends(Before, file, rec) /\ Len(file) - Len(Before) = Len(Frame(rec))
    BY <1>7 DEF WalInv, InProgress
  <2>2. (Before)' = file' BY <1>1, <1>4, <1>7
  <2> QED BY <1>1, <1>3, <1>7, <2>1, <2>2, AddRefines
<1>8. ASSUME file' = file, synced' = synced, Return PROVE Goal
  <2>1. (Before)' = file BY <1>1, <1>4, <1>8
  <2>2. CASE pc = "idle"
    <3>1. start = Len(file) + 1 /\ start' = Len(file) + 1
      BY <1>8, <2>2 DEF WalInv, InProgress, Return
    <3>2. (Before)' = Before BY <1>8, <3>1 DEF Before
    <3> QED BY <1>2, <1>8, <3>2
  <2>3. CASE pc = "write"
    <3>1. rec \in Record /\ Len(file) - Len(Before) <= Len(Frame(rec))
          /\ Len(file) - Len(Before) # Len(Frame(rec))
      BY <2>3 DEF WalInv, InProgress, Extends
    <3>2. Len(file) - Len(Before) < Len(Frame(rec)) BY SMT, <1>1, <3>1, FrameLen
    <3>3. pc # "idle" BY <2>3
    <3> QED BY <1>8, <2>1, <3>2, <3>3, TearRefines DEF Log!Next
  <2>4. CASE pc = "fsync" BY <1>7, <1>8, <2>4
  <2>5. pc \in {"idle", "write", "fsync"} BY DEF WalInv, TypeOK
  <2> QED BY <2>2, <2>3, <2>4, <2>5
<1>9. CASE Truncate
  <2> DEFINE e == <<>>
  <2>1. file' = e /\ synced' = 0 /\ Return BY <1>9 DEF Truncate
  <2>2. e \in Seq(Unit) /\ Len(e) = 0 BY SMT
  <2>3. (Before)' = e BY <1>4, <2>1, <2>2
  <2>4. Unsure' = {} BY <2>1, <2>2, <2>3, AllSure
  <2>5. WalReplay(Before)' = [k \in Keys |-> NotFound] /\ ~(Torn(Before)') BY <2>3, EmptyReplay
  <2>6. Torn(Before)' = FALSE BY <2>5 DEF Torn
  <2> QED BY <2>4, <2>5, <2>6 DEF Log!Truncate, Log!Next
<1>10. CASE Crash
  <2>1. Return BY <1>10 DEF Crash
  <2>2. CASE UNCHANGED <<file, synced>> BY <1>8, <2>1, <2>2
  <2>3. CASE \E n \in synced .. Len(file) : file' = SubSeq(file, 1, n) /\ synced' = n
    <3>1. Log!Lose \/ (rec \in Record /\ Log!Add(rec[1], rec[2])) BY <2>1, <2>3, PowerLossRefines
    <3> QED BY <1>3, <3>1 DEF Log!Next
  <2> QED BY <1>10, <2>2, <2>3 DEF Crash
<1>11. CASE Fsync
  <2>1. pc = "fsync" /\ file' = file /\ synced' \in {synced, Len(file')} /\ Return
    BY <1>11 DEF Fsync, Ack
  <2> QED BY <1>7, <2>1
<1>12. CASE WriteFail \/ FsyncFail
  <2>1. file' = file /\ synced' = synced /\ Return BY <1>12 DEF WriteFail, FsyncFail
  <2> QED BY <1>8, <2>1
<1>13. CASE Open \/ UNCHANGED vars
  <2>1. file' = file /\ start' = start /\ synced' = synced BY <1>13 DEF Open, vars
  <2> QED BY <1>2, <2>1 DEF Before
<1> QED BY <1>5, <1>6, <1>9, <1>10, <1>11, <1>12, <1>13 DEF Next

\* The log is what the engine takes it for.
THEOREM LogRefinement == Spec => ImplementsLogSpec
<1>1. Init => Log!Init
  <2> SUFFICES ASSUME Init PROVE Log!Init OBVIOUS
  <2> DEFINE e == <<>>
  <2>1. file = e /\ start = 1 /\ synced = 0 BY DEF Init
  <2>2. Before = e BY SMT, <2>1 DEF Before
  <2>3. SubSeq(e, 1, 0) = e /\ Len(e) = 0 /\ 0 .. 0 = {0} BY SMT
  <2> HIDE DEF e
  <2>4. Unsure = {} BY <2>1, <2>2, <2>3 DEF Unsure
  <2>5. WalReplay(Before) = [k \in Keys |-> NotFound] /\ ~Torn(Before) BY <2>2, EmptyReplay DEF e
  <2>6. Torn(Before) = FALSE BY <2>5 DEF Torn
  <2> QED BY <2>4, <2>5, <2>6 DEF Log!Init
<1>2. WalInv /\ [Next]_vars => [Log!Next]_<<WalReplay(Before), Torn(Before), Unsure>> BY LogStep
<1> QED BY <1>1, <1>2, WalInvariance, PTL DEF Spec, ImplementsLogSpec, Log!Spec
===============================================================================
