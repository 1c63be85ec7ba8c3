-------------------------- MODULE RectanglesProofs --------------------------
(***************************************************************************)
(* What the rectangles of an update make together, whatever its region,    *)
(* the colours of the screen, its scale, and the limits of the encodings.  *)
(***************************************************************************)
EXTENDS Rectangles, FiniteSetTheorems, SequenceTheorems, WellFoundedInduction, TLAPS

-----------------------------------------------------------------------------
(* Induction.                                                              *)

\* Every set of numbers that has a member has a least one.
LEMMA Least ==
  ASSUME NEW T \in SUBSET Nat, T # {}
  PROVE  \E n \in T : \A m \in T : n <= m
<1> DEFINE R == OpToRel(<, Nat)
<1>1. IsWellFoundedOn(R, Nat)
  BY NatLessThanWellFounded
<1> HIDE DEF R
<1>2. PICK n \in T : \A m \in T : <<m, n>> \notin R
  BY <1>1, WFMin
<1>3. \A m, k \in Nat : m < k => <<m, k>> \in R
  BY DEF R, OpToRel
<1>4. ASSUME NEW m \in T PROVE n <= m
  <2>1. m \in Nat /\ n \in Nat
    OBVIOUS
  <2>2. ~(m < n)
    BY <1>2, <1>3, <2>1
  <2> QED
    BY <2>1, <2>2
<1> QED
  BY <1>4

\* A set that holds 0 and the successor of each member holds every number.
LEMMA Induction ==
  ASSUME NEW P \in SUBSET Nat, 0 \in P, \A n \in P : n + 1 \in P
  PROVE  P = Nat
<1> SUFFICES ASSUME Nat \ P # {} PROVE FALSE
  OBVIOUS
<1>1. PICK n \in Nat \ P : \A m \in Nat \ P : n <= m
  BY Least
<1>2. n - 1 \in Nat /\ n - 1 \notin Nat \ P
  BY <1>1
<1>3. (n - 1) + 1 \in P
  BY <1>2
<1> QED
  BY <1>1, <1>3

\* The same from 1 to n.
LEMMA Upwards ==
  ASSUME NEW n \in Nat \ {0}, NEW P \in SUBSET (1 .. n), 1 \in P,
         \A i \in P : i + 1 <= n => i + 1 \in P
  PROVE  P = 1 .. n
<1> DEFINE Q == {m \in Nat : m + 1 <= n => m + 1 \in P}
<1>1. 0 \in Q
  OBVIOUS
<1>2. ASSUME NEW m \in Q PROVE m + 1 \in Q
  <2>1. m \in Nat /\ (m + 1 <= n => m + 1 \in P)
    OBVIOUS
  <2>2. m + 1 + 1 <= n => m + 1 + 1 \in P
    BY <2>1
  <2> QED
    BY <2>1, <2>2
<1>3. Q = Nat
  <2>1. Q \in SUBSET Nat
    OBVIOUS
  <2> HIDE DEF Q
  <2> QED
    BY <1>1, <1>2, <2>1, Induction
<1>4. ASSUME NEW i \in 1 .. n PROVE i \in P
  <2>1. i - 1 \in Nat /\ (i - 1) + 1 = i /\ i <= n
    OBVIOUS
  <2>2. i - 1 \in Q
    BY <1>3, <2>1
  <2> QED
    BY <2>1, <2>2
<1> QED
  BY <1>4

\* A loop of n rounds, whose state stays in S, has a state after each of them.
Rounds(f, n, base, step) == f = [i \in 0 .. n |-> IF i = 0 THEN base ELSE step[i][f[i - 1]]]

LEMMA LoopIsDefined ==
  ASSUME NEW n \in Nat, NEW S, NEW base \in S, NEW step,
         \A i \in 1 .. n : \A s \in S : step[i][s] \in S
  PROVE  \E f \in [0 .. n -> S] : Rounds(f, n, base, step)
<1> DEFINE D(f, m) == f \in [0 .. m -> S] /\ Rounds(f, m, base, step)
           P == {m \in Nat : m <= n => \E f : D(f, m)}
<1>1. 0 \in P
  <2> DEFINE f == [i \in 0 .. 0 |-> base]
  <2>1. D(f, 0)
    BY DEF Rounds
  <2> HIDE DEF D, f
  <2> QED
    BY <2>1
<1>2. ASSUME NEW m \in P PROVE m + 1 \in P
  <2> SUFFICES ASSUME m + 1 <= n PROVE \E f : D(f, m + 1)
    OBVIOUS
  <2>1. PICK g : D(g, m)
    <3> HIDE DEF D
    <3>1. m \in Nat /\ m <= n
      OBVIOUS
    <3> QED
      BY <3>1
  <2> DEFINE f == [i \in 0 .. m + 1 |-> IF i = m + 1 THEN step[m + 1][g[m]] ELSE g[i]]
  <2>2. m \in Nat /\ g \in [0 .. m -> S] /\ Rounds(g, m, base, step)
    BY <2>1
  <2>3. ASSUME NEW i \in 0 .. m + 1
        PROVE  f[i] \in S /\ f[i] = IF i = 0 THEN base ELSE step[i][f[i - 1]]
    <3>1. CASE i = m + 1
      <4>1. m \in 0 .. m /\ m \in 0 .. m + 1 /\ m # m + 1 /\ i # 0 /\ i - 1 = m /\ m + 1 \in 1 .. n
        BY <2>2, <3>1
      <4>2. f[i] = step[m + 1][g[m]] /\ f[m] = g[m] /\ g[m] \in S
        BY <2>2, <3>1, <4>1
      <4> QED
        BY <3>1, <4>1, <4>2
    <3>2. CASE i # m + 1
      <4>1. i \in 0 .. m /\ f[i] = g[i] /\ g[i] \in S
        BY <2>2, <3>2
      <4>2. g[i] = IF i = 0 THEN base ELSE step[i][g[i - 1]]
        <5> HIDE DEF f, D, P
        <5> QED
          BY <2>2, <4>1 DEF Rounds
      <4>3. i # 0 => f[i - 1] = g[i - 1]
        BY <2>2, <3>2
      <4> QED
        BY <4>1, <4>2, <4>3
    <3> QED
      BY <3>1, <3>2
  <2>4. D(f, m + 1)
    BY <2>3 DEF Rounds
  <2> HIDE DEF D, f
  <2> QED
    BY <2>4
<1>3. P = Nat
  <2> HIDE DEF P
  <2>1. P \in SUBSET Nat
    BY DEF P
  <2> QED
    BY <1>1, <1>2, <2>1, Induction
<1>4. PICK f : D(f, n)
  <2> HIDE DEF D
  <2>1. n \in P
    BY <1>3
  <2> QED
    BY <2>1
<1> QED
  BY <1>4

-----------------------------------------------------------------------------
(* The parts of a sequence of sequences, one after the other.              *)

LEMMA FlattenedStepwise ==
  ASSUME NEW S, NEW seqs \in Seq(Seq(S)), seqs # <<>>
  PROVE  \E f \in [1 .. Len(seqs) -> Seq(S)] :
           /\ f[1] = seqs[1] /\ FlattenSeq(seqs) = f[Len(seqs)]
           /\ \A i \in 2 .. Len(seqs) : f[i] = f[i - 1] \o seqs[i]
<1> DEFINE n == Len(seqs)
           step == [i \in 1 .. n |-> [s \in Seq(S) |-> IF i = 1 THEN seqs[1] ELSE s \o seqs[i]]]
           F(f) == f = [i \in 1 .. n |-> IF i = 1 THEN seqs[i] ELSE f[i - 1] \o seqs[i]]
<1>1. n \in Nat \ {0} /\ \A i \in 1 .. n : seqs[i] \in Seq(S)
  <2>1. n \in Nat /\ n # 0
    BY EmptySeq, LenProperties
  <2> QED
    BY <2>1, ElementOfSeq
<1>2. <<>> \in Seq(S)
  BY EmptySeq
<1>3. \A i \in 1 .. n : \A s \in Seq(S) : step[i][s] \in Seq(S)
  <2>1. \A i \in 1 .. n : \A s \in Seq(S) : s \o seqs[i] \in Seq(S)
    BY <1>1, ConcatProperties
  <2> HIDE DEF n
  <2> QED
    BY <1>1, <2>1
<1>0. n \in Nat /\ n >= 1 /\ 1 \in 1 .. n /\ 0 + 1 = 1
  BY <1>1
<1> HIDE DEF step, n
<1>4. PICK g \in [0 .. n -> Seq(S)] : Rounds(g, n, <<>>, step)
  BY <1>1, <1>2, <1>3, LoopIsDefined
<1>5. \A i \in 1 .. n : g[i] = IF i = 1 THEN seqs[1] ELSE g[i - 1] \o seqs[i]
  <2> SUFFICES ASSUME NEW i \in 1 .. n PROVE g[i] = IF i = 1 THEN seqs[1] ELSE g[i - 1] \o seqs[i]
    OBVIOUS
  <2>1. i \in 0 .. n /\ i # 0 /\ i - 1 \in 0 .. n
    BY <1>1
  <2>2. g[i] = step[i][g[i - 1]] /\ g[i - 1] \in Seq(S)
    BY <1>4, <2>1 DEF Rounds
  <2> QED
    BY <2>2 DEF step
<1> DEFINE h == [i \in 1 .. n |-> g[i]]
<1>6. F(h)
  <2>1. \A i \in 1 .. n : h[i] = IF i = 1 THEN seqs[i] ELSE h[i - 1] \o seqs[i]
    <3> SUFFICES ASSUME NEW i \in 1 .. n PROVE h[i] = IF i = 1 THEN seqs[i] ELSE h[i - 1] \o seqs[i]
      OBVIOUS
    <3>1. i # 1 => i - 1 \in 1 .. n
      BY <1>1
    <3> QED
      BY <1>5, <3>1
  <2> QED
    BY <2>1
<1> HIDE DEF h
<1> DEFINE f == CHOOSE ff : F(ff)
<1>7. F(f)
  BY <1>6
<1>8. n # 0 /\ FlattenSeq(seqs) = f[n]
  BY <1>1 DEF FlattenSeq, n
<1> HIDE DEF f
<1> DEFINE P == {i \in 1 .. n : f[i] \in Seq(S)}
<1>9. \A i \in 1 .. n : f[i] = IF i = 1 THEN seqs[i] ELSE f[i - 1] \o seqs[i]
  <2>1. f = [i \in 1 .. n |-> IF i = 1 THEN seqs[i] ELSE f[i - 1] \o seqs[i]]
    BY <1>7
  <2> QED
    BY <2>1
<1>10. 1 \in P
  BY <1>0, <1>1, <1>9
<1>11. ASSUME NEW i \in P, i + 1 <= n PROVE i + 1 \in P
  <2>1. i + 1 # 1 /\ (i + 1) - 1 = i /\ i + 1 \in 1 .. n
    BY <1>0, <1>11
  <2>2. f[i + 1] = f[i] \o seqs[i + 1] /\ f[i] \in Seq(S) /\ seqs[i + 1] \in Seq(S)
    BY <1>1, <1>9, <2>1
  <2>3. f[i + 1] \in Seq(S)
    BY <2>2, ConcatProperties
  <2> QED
    BY <2>1, <2>3
<1>12. P = 1 .. n
  <2>1. P \in SUBSET (1 .. n) /\ n \in Nat \ {0}
    BY <1>0
  <2> HIDE DEF P
  <2> QED
    BY <1>10, <1>11, <2>1, Upwards
<1>13. \A i \in 1 .. n : f[i] \in Seq(S)
  BY <1>12
<1>14. f \in [1 .. n -> Seq(S)]
  BY <1>7, <1>13
<1>15. f[1] = seqs[1] /\ \A i \in 2 .. n : f[i] = f[i - 1] \o seqs[i]
  <2>1. \A i \in 2 .. n : i \in 1 .. n /\ i # 1
    BY <1>0
  <2> QED
    BY <1>0, <1>9, <2>1
<1> QED
  BY <1>8, <1>14, <1>15 DEF n
-----------------------------------------------------------------------------
(* What parts make.                                                        *)

\* An update that has what its encoding looks at.
Update(u) ==
  /\ u.encoding \in Encoding
  /\ u.encoding = "tight" => u.level \in Levels /\ u.lastRect \in BOOLEAN

\* A part that fits the buffers, and has one colour if it is sent as one.
GoodParts(u) ==
  {p \in [box : Rectangle, solid : BOOLEAN] :
     Allowed(u, p) /\ (p.solid => OneColour(u.scene, p.box))}

Covered(s) == UNION {Pixels(s[i].box) : i \in DOMAIN s}

AllApart(s) == \A i, j \in DOMAIN s : i # j => Disjoint(s[i].box, s[j].box)

\* Good parts, apart, that cover just those pixels.
Makes(s, u, pixels) == s \in Seq(GoodParts(u)) /\ Covered(s) = pixels /\ AllApart(s)

LEMMA IsSequence ==
  ASSUME NEW S, NEW k \in Nat, NEW f \in [1 .. k -> S]
  PROVE  f \in Seq(S) /\ Len(f) = k /\ DOMAIN f = 1 .. k
OBVIOUS

LEMMA CoveredByTwo ==
  ASSUME NEW S, NEW s \in Seq(S), NEW t \in Seq(S)
  PROVE  /\ s \o t \in Seq(S) /\ Len(s \o t) = Len(s) + Len(t)
         /\ Covered(s \o t) = Covered(s) \cup Covered(t)
<1>1. /\ s \o t \in Seq(S) /\ Len(s \o t) = Len(s) + Len(t)
      /\ \A i \in 1 .. Len(s) + Len(t) : (s \o t)[i] = IF i <= Len(s) THEN s[i] ELSE t[i - Len(s)]
  BY ConcatProperties
<1>2. Len(s) \in Nat /\ Len(t) \in Nat /\ DOMAIN s = 1 .. Len(s) /\ DOMAIN t = 1 .. Len(t)
  BY LenProperties
<1>3. DOMAIN (s \o t) = 1 .. Len(s) + Len(t)
  BY <1>1, LenProperties
<1> DEFINE r == s \o t
<1> HIDE DEF r
<1>4. /\ DOMAIN r = 1 .. Len(s) + Len(t)
      /\ \A i \in 1 .. Len(s) : i \in DOMAIN r /\ r[i] = s[i]
      /\ \A i \in 1 .. Len(t) : i + Len(s) \in DOMAIN r /\ r[i + Len(s)] = t[i]
  <2>1. \A i \in 1 .. Len(s) : i \in 1 .. Len(s) + Len(t) /\ i <= Len(s)
    BY <1>2
  <2>2. \A i \in 1 .. Len(t) : /\ i + Len(s) \in 1 .. Len(s) + Len(t) /\ ~(i + Len(s) <= Len(s))
                              /\ (i + Len(s)) - Len(s) = i
    BY <1>2
  <2> QED
    BY <1>1, <1>3, <2>1, <2>2 DEF r
<1>5. \A i \in DOMAIN r : \/ (i \in 1 .. Len(s) /\ r[i] = s[i])
                          \/ (i - Len(s) \in 1 .. Len(t) /\ r[i] = t[i - Len(s)])
  <2>1. \A i \in 1 .. Len(s) + Len(t) : \/ (i <= Len(s) /\ i \in 1 .. Len(s))
                                       \/ (~(i <= Len(s)) /\ i - Len(s) \in 1 .. Len(t))
    BY <1>2
  <2> QED
    BY <1>1, <1>3, <2>1 DEF r
<1>6. Covered(r) \subseteq Covered(s) \cup Covered(t)
  BY <1>2, <1>5 DEF Covered
<1>7. Covered(s) \subseteq Covered(r) /\ Covered(t) \subseteq Covered(r)
  BY <1>2, <1>4 DEF Covered
<1> QED
  BY <1>1, <1>6, <1>7 DEF r

\* What two make that share no pixel.
LEMMA TwoMake ==
  ASSUME NEW u, NEW s, NEW t, NEW R, NEW Q, Makes(s, u, R), Makes(t, u, Q), R \cap Q = {}
  PROVE  Makes(s \o t, u, R \cup Q)
<1>1. s \in Seq(GoodParts(u)) /\ t \in Seq(GoodParts(u))
  BY DEF Makes
<1>2. s \o t \in Seq(GoodParts(u)) /\ Covered(s \o t) = R \cup Q
  BY <1>1, CoveredByTwo DEF Makes
<1>3. AllApart(s \o t)
  <2>1. /\ DOMAIN (s \o t) = 1 .. Len(s) + Len(t)
        /\ \A i \in 1 .. Len(s) + Len(t) : (s \o t)[i] = IF i <= Len(s) THEN s[i] ELSE t[i - Len(s)]
    BY <1>1, ConcatProperties, LenProperties
  <2>2. Len(s) \in Nat /\ Len(t) \in Nat /\ DOMAIN s = 1 .. Len(s) /\ DOMAIN t = 1 .. Len(t)
    BY <1>1, LenProperties
  <2> DEFINE r == s \o t
  <2>3. \A i \in DOMAIN r : \/ (i \in DOMAIN s /\ r[i] = s[i])
                            \/ (i \notin DOMAIN s /\ i - Len(s) \in DOMAIN t /\ r[i] = t[i - Len(s)])
    <3>1. \A i \in 1 .. Len(s) + Len(t) : \/ (i <= Len(s) /\ i \in 1 .. Len(s))
                                         \/ (~(i <= Len(s)) /\ i \notin 1 .. Len(s) /\ i - Len(s) \in 1 .. Len(t))
      BY <2>2
    <3> QED
      BY <2>1, <2>2, <3>1
  <2>4. DOMAIN r \subseteq Int
    BY <2>1, <2>2
  <2> HIDE DEF r
  <2>5. ASSUME NEW i \in DOMAIN r, NEW j \in DOMAIN r, i # j
        PROVE  Disjoint(r[i].box, r[j].box)
    <3>1. CASE i \in DOMAIN s /\ j \in DOMAIN s
      <4>1. r[i] = s[i] /\ r[j] = s[j]
        BY <2>3, <3>1
      <4> QED
        BY <2>5, <3>1, <4>1 DEF Makes, AllApart
    <3>2. CASE i \notin DOMAIN s /\ j \notin DOMAIN s
      <4>1. r[i] = t[i - Len(s)] /\ r[j] = t[j - Len(s)] /\ i - Len(s) \in DOMAIN t /\ j - Len(s) \in DOMAIN t
        BY <2>3, <3>2
      <4>2. i - Len(s) # j - Len(s)
        BY <2>2, <2>4, <2>5
      <4> QED
        BY <4>1, <4>2 DEF Makes, AllApart
    <3>3. ASSUME NEW k \in DOMAIN s, NEW l \in DOMAIN t
          PROVE  Pixels(s[k].box) \cap Pixels(t[l].box) = {}
      <4>1. Pixels(s[k].box) \subseteq R /\ Pixels(t[l].box) \subseteq Q
        BY DEF Makes, Covered
      <4> QED
        BY <4>1
    <3>4. CASE i \in DOMAIN s /\ j \notin DOMAIN s
      <4>1. r[i] = s[i] /\ r[j] = t[j - Len(s)] /\ j - Len(s) \in DOMAIN t
        BY <2>3, <3>4
      <4> QED
        BY <3>3, <3>4, <4>1 DEF Disjoint
    <3>5. CASE i \notin DOMAIN s /\ j \in DOMAIN s
      <4>1. r[j] = s[j] /\ r[i] = t[i - Len(s)] /\ i - Len(s) \in DOMAIN t
        BY <2>3, <3>5
      <4>2. Pixels(s[j].box) \cap Pixels(t[i - Len(s)].box) = {}
        BY <3>3, <3>5, <4>1
      <4> QED
        BY <4>1, <4>2 DEF Disjoint
    <3> QED
      BY <3>1, <3>2, <3>4, <3>5
  <2> QED
    BY <2>5 DEF AllApart, r
<1> QED
  BY <1>2, <1>3 DEF Makes

LEMMA NothingMakes ==
  ASSUME NEW u PROVE Makes(<<>>, u, {})
<1>1. <<>> \in Seq(GoodParts(u))
  BY EmptySeq
<1> QED
  BY <1>1 DEF Makes, Covered, AllApart

LEMMA OneMakes ==
  ASSUME NEW u, NEW part \in GoodParts(u)
  PROVE  Makes(<<part>>, u, Pixels(part.box)) /\ Len(<<part>>) = 1
<1>1. <<part>> \in Seq(GoodParts(u)) /\ DOMAIN <<part>> = {1} /\ <<part>>[1] = part
  OBVIOUS
<1>2. Covered(<<part>>) = Pixels(part.box)
  BY <1>1 DEF Covered
<1>3. AllApart(<<part>>)
  BY <1>1 DEF AllApart
<1> QED
  BY <1>1, <1>2, <1>3 DEF Makes
\* How long sequences are together, the first i of them.
Lengths(total, seqs) ==
  /\ total[0] = 0
  /\ \A i \in 1 .. Len(seqs) : total[i] = total[i - 1] + Len(seqs[i])

LEMMA AllCovered ==
  ASSUME NEW S, NEW seqs \in Seq(Seq(S)), NEW total, Lengths(total, seqs)
  PROVE  /\ FlattenSeq(seqs) \in Seq(S) /\ Len(FlattenSeq(seqs)) = total[Len(seqs)]
         /\ Covered(FlattenSeq(seqs)) = UNION {Covered(seqs[i]) : i \in DOMAIN seqs}
<1>1. CASE seqs = <<>>
  <2>1. Len(seqs) = 0 /\ DOMAIN seqs = {}
    BY <1>1
  <2>2. FlattenSeq(seqs) = <<>>
    BY <1>1, <2>1 DEF FlattenSeq
  <2>3. Covered(<<>>) = {} /\ Len(<<>>) = 0 /\ <<>> \in Seq(S)
    BY EmptySeq DEF Covered
  <2>4. total[Len(seqs)] = 0
    BY <2>1 DEF Lengths
  <2> QED
    BY <2>1, <2>2, <2>3, <2>4
<1>2. CASE seqs # <<>>
  <2> DEFINE n == Len(seqs)
  <2>1. n \in Nat \ {0} /\ DOMAIN seqs = 1 .. n
    BY <1>2, EmptySeq, LenProperties
  <2>2. \A i \in 1 .. n : seqs[i] \in Seq(S)
    BY <2>1, ElementOfSeq
  <2>3. PICK f \in [1 .. n -> Seq(S)] :
          /\ f[1] = seqs[1] /\ FlattenSeq(seqs) = f[n]
          /\ \A i \in 2 .. n : f[i] = f[i - 1] \o seqs[i]
    BY <1>2, FlattenedStepwise
  <2>4. total[0] = 0 /\ \A i \in 1 .. n : total[i] = total[i - 1] + Len(seqs[i])
    BY DEF Lengths
  <2> HIDE DEF n
  <2> DEFINE Upto(i) == UNION {Covered(seqs[j]) : j \in 1 .. i}
             P == {i \in 1 .. n : Covered(f[i]) = Upto(i) /\ Len(f[i]) = total[i]}
  <2>5. 1 \in P
    <3>1. 1 \in 1 .. n /\ 1 - 1 = 0 /\ 1 .. 1 = {1}
      BY <2>1
    <3>2. Upto(1) = Covered(f[1])
      BY <2>3, <3>1
    <3>3. Len(seqs[1]) \in Nat /\ total[1] = 0 + Len(seqs[1])
      BY <2>2, <2>4, <3>1, LenProperties
    <3> HIDE DEF Upto
    <3> QED
      BY <2>3, <3>1, <3>2, <3>3
  <2>6. ASSUME NEW i \in P, i + 1 <= n PROVE i + 1 \in P
    <3>1. i \in 1 .. n /\ i + 1 \in 1 .. n /\ i + 1 \in 2 .. n /\ (i + 1) - 1 = i
      BY <2>1, <2>6
    <3>2. f[i + 1] = f[i] \o seqs[i + 1] /\ f[i] \in Seq(S) /\ seqs[i + 1] \in Seq(S)
      BY <2>2, <2>3, <3>1
    <3>3. /\ Covered(f[i + 1]) = Covered(f[i]) \cup Covered(seqs[i + 1])
          /\ Len(f[i + 1]) = Len(f[i]) + Len(seqs[i + 1])
      BY <3>2, CoveredByTwo
    <3>4. Upto(i + 1) = Upto(i) \cup Covered(seqs[i + 1])
      <4>1. 1 .. i + 1 = 1 .. i \cup {i + 1}
        BY <3>1
      <4> QED
        BY <4>1
    <3>5. total[i + 1] = total[i] + Len(seqs[i + 1])
      BY <2>4, <3>1
    <3> HIDE DEF Upto
    <3>6. Covered(f[i]) = Upto(i) /\ Len(f[i]) = total[i]
      OBVIOUS
    <3> QED
      BY <3>1, <3>3, <3>4, <3>5, <3>6
  <2>7. P = 1 .. n
    <3>1. P \in SUBSET (1 .. n)
      OBVIOUS
    <3> HIDE DEF P
    <3> QED
      BY <2>1, <2>5, <2>6, <3>1, Upwards
  <2>8. n \in 1 .. n
    BY <2>1
  <2>9. n \in P
    BY <2>7, <2>8
  <2> QED
    BY <2>1, <2>3, <2>8, <2>9 DEF n
<1> QED
  BY <1>1, <1>2

\* Those pixels are the ones of all the sets R[i].
Joins(pixels, R, I) == \A p : p \in pixels <=> \E i \in I : p \in R[i]

\* What sequences make together that share no pixel.
LEMMA AllMake ==
  ASSUME NEW u, NEW seqs \in Seq(Seq(GoodParts(u))), NEW R,
         \A i \in DOMAIN seqs : Makes(seqs[i], u, R[i]),
         \A i, j \in DOMAIN seqs : i # j => R[i] \cap R[j] = {},
         NEW Q, Joins(Q, R, DOMAIN seqs)
  PROVE  Makes(FlattenSeq(seqs), u, Q)
<1>0. Q = UNION {R[i] : i \in DOMAIN seqs}
  BY DEF Joins
<1>1. CASE seqs = <<>>
  <2>1. Len(seqs) = 0 /\ DOMAIN seqs = {}
    BY <1>1
  <2>2. FlattenSeq(seqs) = <<>>
    BY <1>1, <2>1 DEF FlattenSeq
  <2>3. Q = {}
    BY <2>1 DEF Joins
  <2> QED
    BY <2>2, <2>3, NothingMakes
<1>2. CASE seqs # <<>>
  <2> DEFINE n == Len(seqs)
             S == GoodParts(u)
  <2>1. n \in Nat \ {0} /\ DOMAIN seqs = 1 .. n
    BY <1>2, EmptySeq, LenProperties
  <2>2. seqs \in Seq(Seq(S))
    OBVIOUS
  <2> HIDE DEF S
  <2>3. PICK f \in [1 .. n -> Seq(S)] :
          /\ f[1] = seqs[1] /\ FlattenSeq(seqs) = f[n]
          /\ \A i \in 2 .. n : f[i] = f[i - 1] \o seqs[i]
    BY <1>2, <2>2, FlattenedStepwise
  <2> HIDE DEF n
  <2> DEFINE Upto(i) == UNION {R[j] : j \in 1 .. i}
             P == {i \in 1 .. n : Makes(f[i], u, Upto(i))}
  <2>5. 1 \in P
    <3>1. 1 \in 1 .. n /\ 1 - 1 = 0 /\ 1 .. 1 = {1}
      BY <2>1
    <3>2. Upto(1) = R[1]
      BY <3>1
    <3>3. Makes(f[1], u, R[1])
      BY <2>1, <2>3, <3>1
    <3> HIDE DEF Upto
    <3> QED
      BY <3>1, <3>2, <3>3
  <2>6. ASSUME NEW i \in P, i + 1 <= n PROVE i + 1 \in P
    <3>1. i \in 1 .. n /\ i + 1 \in 1 .. n /\ i + 1 \in 2 .. n /\ (i + 1) - 1 = i
      BY <2>1, <2>6
    <3>2. f[i + 1] = f[i] \o seqs[i + 1] /\ Makes(seqs[i + 1], u, R[i + 1])
      BY <2>1, <2>3, <3>1
    <3>3. Upto(i) \cap R[i + 1] = {}
      <4>1. \A j \in 1 .. i : j \in 1 .. n /\ j # i + 1
        BY <2>1, <3>1
      <4>2. \A j \in 1 .. i : R[j] \cap R[i + 1] = {}
        BY <2>1, <3>1, <4>1
      <4> QED
        BY <4>2
    <3>4. Upto(i + 1) = Upto(i) \cup R[i + 1]
      <4>1. 1 .. i + 1 = 1 .. i \cup {i + 1}
        BY <3>1
      <4> QED
        BY <4>1
    <3> HIDE DEF Upto
    <3>6. Makes(f[i], u, Upto(i))
      OBVIOUS
    <3>7. Makes(f[i] \o seqs[i + 1], u, Upto(i) \cup R[i + 1])
      BY <3>2, <3>3, <3>6, TwoMake
    <3> QED
      BY <3>1, <3>2, <3>4, <3>7
  <2>7. P = 1 .. n
    <3>1. P \in SUBSET (1 .. n)
      OBVIOUS
    <3> HIDE DEF P
    <3> QED
      BY <2>1, <2>5, <2>6, <3>1, Upwards
  <2>8. n \in 1 .. n
    BY <2>1
  <2>9. n \in P
    BY <2>7, <2>8
  <2> QED
    BY <1>0, <2>1, <2>3, <2>8, <2>9
<1> QED
  BY <1>1, <1>2

-----------------------------------------------------------------------------
(* Numbers.                                                                *)

LEMMA MinOfTwo ==
  ASSUME NEW a \in Int, NEW b \in Int
  PROVE  Min({a, b}) = (IF a <= b THEN a ELSE b) /\ Max({a, b}) = (IF a >= b THEN a ELSE b)
<1>1. Min({a, b}) = (IF a <= b THEN a ELSE b)
  <2> DEFINE m == IF a <= b THEN a ELSE b
  <2>1. m \in {a, b} /\ \A y \in {a, b} : m <= y
    OBVIOUS
  <2>2. \A x \in {a, b} : (\A y \in {a, b} : x <= y) => x = m
    OBVIOUS
  <2> HIDE DEF m
  <2> QED
    BY <2>1, <2>2 DEF Min, m
<1>2. Max({a, b}) = (IF a >= b THEN a ELSE b)
  <2> DEFINE m == IF a >= b THEN a ELSE b
  <2>1. m \in {a, b} /\ \A y \in {a, b} : m >= y
    OBVIOUS
  <2>2. \A x \in {a, b} : (\A y \in {a, b} : x >= y) => x = m
    OBVIOUS
  <2> HIDE DEF m
  <2> QED
    BY <2>1, <2>2 DEF Max, m
<1> QED
  BY <1>1, <1>2

LEMMA Quotient ==
  ASSUME NEW a \in Int, NEW b \in Nat \ {0}
  PROVE  /\ a \div b \in Int
         /\ b * (a \div b) <= a /\ a < b * (a \div b) + b
<1>1. a = b * (a \div b) + (a % b) /\ a \div b \in Int /\ a % b \in 0 .. b - 1
  OBVIOUS
<1>2. b * (a \div b) \in Int
  BY <1>1
<1> QED
  BY <1>1, <1>2

LEMMA Times ==
  ASSUME NEW a \in Int, NEW b \in Int, NEW c \in Nat, a <= b
  PROVE  a * c \in Int /\ b * c \in Int /\ a * c <= b * c
OBVIOUS

\* How the quotient compares to other numbers.
LEMMA QuotientIsLeast ==
  ASSUME NEW a \in Int, NEW b \in Nat \ {0}, NEW c \in Int
  PROVE  (c <= a \div b <=> c * b <= a) /\ c * b \in Int
<1> DEFINE q == a \div b
<1>1. q \in Int /\ b * q <= a /\ a < b * q + b
  BY Quotient
<1> HIDE DEF q
<1>2. c * b \in Int /\ q * b \in Int /\ q * b = b * q /\ (q + 1) * b = b * q + b
  BY <1>1
<1>3. ASSUME c <= q PROVE c * b <= a
  <2>1. c * b <= q * b
    BY <1>1, <1>3, Times
  <2> QED
    BY <1>1, <1>2, <2>1
<1>4. ASSUME ~(c <= q) PROVE ~(c * b <= a)
  <2>1. q + 1 <= c /\ q + 1 \in Int
    BY <1>1, <1>4
  <2>2. (q + 1) * b <= c * b
    BY <2>1, Times
  <2> QED
    BY <1>1, <1>2, <2>2
<1> QED
  BY <1>2, <1>3, <1>4 DEF q

-----------------------------------------------------------------------------
(* The pieces of a rectangle.                                              *)

\* As many as the counting has it; one ends where the next one begins.
LEMMA CutsMake ==
  ASSUME NEW n \in Nat \ {0}, NEW most \in Nat \ {0}
  PROVE  LET c == Cuts(n, most)
             k == Pieces(n, most)
         IN /\ k \in Nat \ {0} /\ Len(c) = k /\ DOMAIN c = 1 .. k
            /\ c \in Seq([at : Nat, len : Nat])
            /\ \A i \in 1 .. k :
                 /\ c[i].at \in Nat /\ c[i].len \in Nat \ {0}
                 /\ c[i].len <= most /\ c[i].at + c[i].len <= n
                 /\ c[i].at = (i - 1) * most
                 /\ i + 1 <= k => c[i].len = most
                 /\ i = k => c[i].at + c[i].len = n
<1> DEFINE c == Cuts(n, most)
           k == Pieces(n, most)
<1>1. \A j \in Int : (j <= k <=> (j - 1) * most < n) /\ (j - 1) * most \in Int /\ k \in Int
  <2> SUFFICES ASSUME NEW j \in Int
               PROVE  (j <= k <=> (j - 1) * most < n) /\ (j - 1) * most \in Int /\ k \in Int
    OBVIOUS
  <2>1. (j - 1 <= (n - 1) \div most <=> (j - 1) * most <= n - 1) /\ (j - 1) * most \in Int
    BY QuotientIsLeast
  <2>2. (n - 1) \div most \in Int
    BY Quotient
  <2> QED
    BY <2>1, <2>2 DEF Pieces
<1> HIDE DEF k
<1>2. k \in Nat \ {0}
  <2>1. (1 - 1) * most < n
    OBVIOUS
  <2> QED
    BY <1>1, <2>1
<1>3. {j \in 1 .. n : (j - 1) * most < n} = 1 .. k
  <2>1. ASSUME NEW j \in 1 .. k PROVE j \in 1 .. n
    <3>1. (j - 1) * 1 <= (j - 1) * most
      BY <1>2
    <3>2. (j - 1) * most < n /\ (j - 1) * most \in Int
      BY <1>1, <1>2
    <3> QED
      BY <1>2, <3>1, <3>2
  <2>2. \A j \in 1 .. n : j \in 1 .. k <=> (j - 1) * most < n
    BY <1>1, <1>2
  <2> QED
    BY <2>1, <2>2
<1>4. c = [i \in 1 .. k |-> [at |-> (i - 1) * most, len |-> Min({most, n - (i - 1) * most})]]
  BY <1>3 DEF Cuts
<1> HIDE DEF c
<1>5. ASSUME NEW i \in 1 .. k
      PROVE  /\ c[i].at \in Nat /\ c[i].at = (i - 1) * most /\ c[i].len \in Nat \ {0}
             /\ c[i].len <= most /\ c[i].at + c[i].len <= n
             /\ c[i] \in [at : Nat, len : Nat]
             /\ i + 1 <= k => c[i].len = most
             /\ i = k => c[i].at + c[i].len = n
  <2> DEFINE a == (i - 1) * most
  <2>1. a \in Nat /\ a < n
    BY <1>1, <1>2
  <2>2. i * most = a + most
    BY <1>2
  <2>3. (i + 1 <= k <=> i * most < n)
    <3>1. (i + 1) - 1 = i /\ i + 1 \in Int
      BY <1>2
    <3> QED
      BY <1>1, <3>1
  <2>4. c[i] = [at |-> a, len |-> Min({most, n - a})]
    BY <1>4
  <2> HIDE DEF a
  <2>5. Min({most, n - a}) = IF most <= n - a THEN most ELSE n - a
    BY <2>1, MinOfTwo
  <2>6. c[i].at = a /\ c[i].len = Min({most, n - a})
    BY <2>4
  <2>7. /\ c[i].len \in Nat \ {0} /\ c[i].len <= most /\ a + c[i].len <= n
        /\ (i + 1 <= k => c[i].len = most) /\ (i = k => a + c[i].len = n)
    BY <1>2, <2>1, <2>2, <2>3, <2>5, <2>6
  <2>8. c[i] \in [at : Nat, len : Nat]
    BY <2>1, <2>4, <2>6, <2>7
  <2> QED
    BY <2>1, <2>6, <2>7, <2>8 DEF a
<1>6. c \in Seq([at : Nat, len : Nat]) /\ Len(c) = k /\ DOMAIN c = 1 .. k
  <2>1. DOMAIN c = 1 .. k /\ c = [i \in 1 .. k |-> c[i]]
    BY <1>4
  <2>2. \A i \in 1 .. k : c[i] \in [at : Nat, len : Nat]
    BY <1>5
  <2>3. c \in Seq([at : Nat, len : Nat])
    <3>1. c \in [1 .. k -> [at : Nat, len : Nat]]
      BY <2>1, <2>2
    <3> QED
      BY <1>2, <3>1, IsSequence
  <2> QED
    BY <1>2, <2>1, <2>3, LenProperties
<1> QED
  BY <1>2, <1>5, <1>6 DEF c, k

\* They are apart, and the whole.
LEMMA CutsAreApart ==
  ASSUME NEW n \in Nat \ {0}, NEW most \in Nat \ {0}
  PROVE  LET c == Cuts(n, most)
         IN /\ \A x \in 0 .. n - 1 : \E i \in DOMAIN c : c[i].at <= x /\ x < c[i].at + c[i].len
            /\ \A i, j \in DOMAIN c : i < j => c[i].at + c[i].len <= c[j].at
<1> DEFINE c == Cuts(n, most)
           k == Pieces(n, most)
<1>1. /\ k \in Nat \ {0} /\ DOMAIN c = 1 .. k
      /\ \A i \in 1 .. k :
           /\ c[i].at \in Nat /\ c[i].len \in Nat \ {0}
           /\ c[i].len <= most /\ c[i].at + c[i].len <= n
           /\ c[i].at = (i - 1) * most
           /\ i + 1 <= k => c[i].len = most
           /\ i = k => c[i].at + c[i].len = n
  BY CutsMake
<1>2. k = (n - 1) \div most + 1
  BY DEF Pieces
<1> HIDE DEF c, k
<1>3. ASSUME NEW x \in 0 .. n - 1
      PROVE  \E i \in DOMAIN c : c[i].at <= x /\ x < c[i].at + c[i].len
  <2> DEFINE q == x \div most
  <2>1. q \in Int /\ most * q <= x /\ x < most * q + most
    BY Quotient
  <2>2. 0 <= q
    <3>1. 0 <= q <=> 0 * most <= x
      BY QuotientIsLeast
    <3> QED
      BY <3>1
  <2>3. q <= (n - 1) \div most
    <3>1. q <= (n - 1) \div most <=> q * most <= n - 1
      BY <2>1, QuotientIsLeast
    <3>2. q * most = most * q
      BY <2>1
    <3> QED
      BY <2>1, <3>1, <3>2
  <2> HIDE DEF q
  <2>4. (n - 1) \div most \in Int
    BY Quotient
  <2>5. q + 1 \in 1 .. k /\ (q + 1) - 1 = q
    BY <1>1, <1>2, <2>1, <2>2, <2>3, <2>4
  <2>6. q * most = most * q
    BY <2>1
  <2>7. c[q + 1].at = q * most /\ (q + 1 + 1 <= k => c[q + 1].len = most)
        /\ (q + 1 = k => c[q + 1].at + c[q + 1].len = n) /\ c[q + 1].at \in Nat /\ c[q + 1].len \in Nat
    BY <1>1, <2>5
  <2>8. c[q + 1].at <= x /\ x < c[q + 1].at + c[q + 1].len
    BY <1>1, <2>1, <2>5, <2>6, <2>7
  <2> QED
    BY <1>1, <2>5, <2>8
<1>4. ASSUME NEW i \in DOMAIN c, NEW j \in DOMAIN c, i < j
      PROVE  c[i].at + c[i].len <= c[j].at
  <2>1. i \in 1 .. k /\ j \in 1 .. k
    BY <1>1
  <2>2. i * most <= (j - 1) * most
    BY <1>4, <2>1, Times
  <2>3. i * most = (i - 1) * most + most
    BY <2>1
  <2>4. c[i].at = (i - 1) * most /\ c[j].at = (j - 1) * most /\ c[i].len <= most
        /\ c[i].at \in Nat /\ c[j].at \in Nat /\ c[i].len \in Nat
    BY <1>1, <2>1
  <2> QED
    BY <2>2, <2>3, <2>4
<1> QED
  BY <1>3, <1>4 DEF c

LEMMA InPixels ==
  ASSUME NEW x \in Int, NEW y \in Int, NEW w \in Int, NEW h \in Int, NEW p
  PROVE  p \in Pixels(Box(x, y, w, h)) <=> /\ p \in Int \X Int /\ x <= p[1] /\ p[1] < x + w
                                           /\ y <= p[2] /\ p[2] < y + h
<1>1. Pixels(Box(x, y, w, h)) = (x .. x + w - 1) \X (y .. y + h - 1)
  BY DEF Pixels, Box
<1>2. ASSUME p \in (x .. x + w - 1) \X (y .. y + h - 1)
      PROVE  /\ p \in Int \X Int /\ x <= p[1] /\ p[1] < x + w /\ y <= p[2] /\ p[2] < y + h
  BY <1>2
<1>3. ASSUME p \in Int \X Int, x <= p[1], p[1] < x + w, y <= p[2], p[2] < y + h
      PROVE  p \in (x .. x + w - 1) \X (y .. y + h - 1)
  <2>1. p = <<p[1], p[2]>> /\ p[1] \in Int /\ p[2] \in Int
    BY <1>3
  <2>2. p[1] \in x .. x + w - 1 /\ p[2] \in y .. y + h - 1
    BY <1>3, <2>1
  <2> QED
    BY <2>1, <2>2
<1> QED
  BY <1>1, <1>2, <1>3

LEMMA Boxes ==
  /\ \A x, y \in Nat, w, h \in Nat \ {0} : Box(x, y, w, h) \in Rectangle
  /\ \A box \in Rectangle : /\ box = Box(box.x, box.y, box.w, box.h)
                            /\ box.x \in Nat /\ box.y \in Nat
                            /\ box.w \in Nat \ {0} /\ box.h \in Nat \ {0}
  /\ \A x, y, w, h : /\ Box(x, y, w, h).x = x /\ Box(x, y, w, h).y = y
                     /\ Box(x, y, w, h).w = w /\ Box(x, y, w, h).h = h
BY DEF Box, Rectangle

LEMMA Parts ==
  \A box, solid : Part(box, solid).box = box /\ Part(box, solid).solid = solid
BY DEF Part

\* One row of a grid.
Row(cols, x, y, h) == [j \in DOMAIN cols |-> Part(Box(x + cols[j].at, y, cols[j].len, h), FALSE)]

\* Rectangles of at most that size need no search.
Fits(u, w, h) ==
  \A box \in Rectangle : box.w <= w /\ box.h <= h => Part(box, FALSE) \in GoodParts(u)

LEMMA RowMakes ==
  ASSUME NEW u, NEW x \in Nat, NEW y \in Nat, NEW w \in Nat \ {0}, NEW h \in Nat \ {0},
         NEW most \in Nat \ {0}, NEW most2 \in Nat \ {0}, most2 <= w, most <= w => most2 = most,
         most > w => most2 = w, Fits(u, most2, h)
  PROVE  /\ Makes(Row(Cuts(w, most), x, y, h), u, Pixels(Box(x, y, w, h)))
         /\ Len(Row(Cuts(w, most), x, y, h)) = Pieces(w, most)
<1> DEFINE c == Cuts(w, most)
           k == Pieces(w, most)
           s == Row(c, x, y, h)
<1>1. /\ k \in Nat \ {0} /\ DOMAIN c = 1 .. k
      /\ \A i \in 1 .. k :
           /\ c[i].at \in Nat /\ c[i].len \in Nat \ {0}
           /\ c[i].len <= most /\ c[i].at + c[i].len <= w
  BY CutsMake
<1>2. /\ \A z \in 0 .. w - 1 : \E i \in DOMAIN c : c[i].at <= z /\ z < c[i].at + c[i].len
      /\ \A i, j \in DOMAIN c : i < j => c[i].at + c[i].len <= c[j].at
  BY CutsAreApart
<1> HIDE DEF c, k
<1> DEFINE B(j) == Box(x + c[j].at, y, c[j].len, h)
<1>3. \A j \in 1 .. k : /\ B(j) \in Rectangle /\ Part(B(j), FALSE) \in GoodParts(u)
                        /\ x + c[j].at \in Nat /\ c[j].len \in Nat
  <2> SUFFICES ASSUME NEW j \in 1 .. k
               PROVE  /\ B(j) \in Rectangle /\ Part(B(j), FALSE) \in GoodParts(u)
                      /\ x + c[j].at \in Nat /\ c[j].len \in Nat
    OBVIOUS
  <2>1. c[j].at \in Nat /\ c[j].len \in Nat \ {0} /\ c[j].len <= most2
    BY <1>1
  <2>2. x + c[j].at \in Nat
    BY <2>1
  <2>3. B(j) \in Rectangle /\ B(j).w = c[j].len /\ B(j).h = h
    <3> DEFINE X == x + c[j].at
               L == c[j].len
    <3>1. X \in Nat /\ L \in Nat \ {0} /\ B(j) = Box(X, y, L, h)
      BY <2>1, <2>2
    <3> HIDE DEF X, L, B, s
    <3>2. Box(X, y, L, h) \in Rectangle /\ Box(X, y, L, h).w = L /\ Box(X, y, L, h).h = h
      BY <3>1 DEF Box, Rectangle
    <3> QED
      BY <3>1, <3>2 DEF L
  <2>4. B(j).w <= most2 /\ B(j).h <= h
    BY <2>1, <2>3
  <2> QED
    BY <2>1, <2>2, <2>3, <2>4 DEF Fits
<1>4. DOMAIN s = 1 .. k /\ \A j \in 1 .. k : s[j] = Part(B(j), FALSE) /\ s[j].box = B(j)
  BY <1>1, Parts DEF Row
<1>5. s \in Seq(GoodParts(u)) /\ Len(s) = k
  <2>1. s \in [1 .. k -> GoodParts(u)]
    <3>1. s = [j \in 1 .. k |-> Part(B(j), FALSE)]
      BY <1>1 DEF Row
    <3> QED
      BY <1>3, <3>1
  <2> HIDE DEF s
  <2> QED
    BY <1>1, <2>1, IsSequence
<1> HIDE DEF s
<1>6. ASSUME NEW j \in 1 .. k, NEW p
      PROVE  p \in Pixels(B(j)) <=> /\ p \in Int \X Int /\ x + c[j].at <= p[1] /\ p[1] < x + c[j].at + c[j].len
                                    /\ y <= p[2] /\ p[2] < y + h
  <2> DEFINE X == x + c[j].at
             L == c[j].len
  <2>1. X \in Int /\ L \in Int /\ B(j) = Box(X, y, L, h)
    BY <1>1
  <2> HIDE DEF X, L, B
  <2>2. p \in Pixels(Box(X, y, L, h)) <=> /\ p \in Int \X Int /\ X <= p[1] /\ p[1] < X + L
                                           /\ y <= p[2] /\ p[2] < y + h
    BY <2>1, InPixels
  <2> QED
    BY <2>1, <2>2 DEF X, L
<1>7. ASSUME NEW p
      PROVE  p \in Pixels(Box(x, y, w, h)) <=> \E j \in 1 .. k : p \in Pixels(B(j))
  <2>1. p \in Pixels(Box(x, y, w, h)) <=> /\ p \in Int \X Int /\ x <= p[1] /\ p[1] < x + w
                                          /\ y <= p[2] /\ p[2] < y + h
    BY InPixels
  <2> HIDE DEF B
  <2>2. ASSUME NEW j \in 1 .. k, p \in Pixels(B(j)) PROVE p \in Pixels(Box(x, y, w, h))
    <3>1. /\ p \in Int \X Int /\ x + c[j].at <= p[1] /\ p[1] < x + c[j].at + c[j].len
          /\ y <= p[2] /\ p[2] < y + h
      BY <1>6, <2>2
    <3>2. c[j].at \in Nat /\ c[j].len \in Nat /\ c[j].at + c[j].len <= w
      BY <1>1
    <3>3. p[1] \in Int
      BY <3>1
    <3>4. x <= p[1] /\ p[1] < x + w
      BY <3>1, <3>2, <3>3
    <3> QED
      BY <2>1, <3>1, <3>4
  <2>3. ASSUME p \in Pixels(Box(x, y, w, h)) PROVE \E j \in 1 .. k : p \in Pixels(B(j))
    <3>1. p[1] \in Int /\ p[1] - x \in 0 .. w - 1
      BY <2>1, <2>3
    <3>2. PICK j \in 1 .. k : c[j].at <= p[1] - x /\ p[1] - x < c[j].at + c[j].len
      BY <1>1, <1>2, <3>1
    <3>3. c[j].at \in Nat /\ c[j].len \in Nat
      BY <1>1
    <3>4. x + c[j].at <= p[1] /\ p[1] < x + c[j].at + c[j].len
      BY <3>1, <3>2, <3>3
    <3>5. p \in Pixels(B(j))
      BY <1>6, <2>1, <2>3, <3>4
    <3> QED
      BY <3>5
  <2> QED
    BY <2>2, <2>3
<1> HIDE DEF B
<1>8. Covered(s) = Pixels(Box(x, y, w, h))
  <2>1. Covered(s) = UNION {Pixels(B(j)) : j \in 1 .. k}
    BY <1>4 DEF Covered
  <2> QED
    BY <1>7, <2>1
<1>9. ASSUME NEW i \in 1 .. k, NEW j \in 1 .. k, i < j PROVE Pixels(B(i)) \cap Pixels(B(j)) = {}
  <2> SUFFICES ASSUME NEW p, p \in Pixels(B(i)), p \in Pixels(B(j)) PROVE FALSE
    OBVIOUS
  <2>1. p[1] < x + c[i].at + c[i].len /\ p \in Int \X Int
    BY <1>6
  <2>2. x + c[j].at <= p[1]
    BY <1>6
  <2>3. c[i].at + c[i].len <= c[j].at
    BY <1>1, <1>2, <1>9
  <2>4. c[i].at \in Nat /\ c[i].len \in Nat /\ c[j].at \in Nat /\ p[1] \in Int
    BY <1>1, <2>1
  <2> QED
    BY <2>1, <2>2, <2>3, <2>4
<1>10. AllApart(s)
  <2> SUFFICES ASSUME NEW i \in 1 .. k, NEW j \in 1 .. k, i # j
               PROVE  Pixels(B(i)) \cap Pixels(B(j)) = {}
    BY <1>4 DEF AllApart, Disjoint
  <2>1. i < j \/ j < i
    BY <1>1
  <2> QED
    BY <1>9, <2>1
<1> QED
  BY <1>5, <1>8, <1>10 DEF Makes, s, c, k

\* A grid of pieces makes the rectangle, and has as many as counted.
LEMMA GridMakes ==
  ASSUME NEW u, NEW box \in Rectangle, NEW mw \in Nat \ {0}, NEW mh \in Nat \ {0},
         Fits(u, IF mw <= box.w THEN mw ELSE box.w, IF mh <= box.h THEN mh ELSE box.h)
  PROVE  /\ Makes(Grid(box, mw, mh), u, Pixels(box))
         /\ Len(Grid(box, mw, mh)) = Pieces(box.w, mw) * Pieces(box.h, mh)
<1> DEFINE rows == Cuts(box.h, mh)
           cols == Cuts(box.w, mw)
           k == Pieces(box.h, mh)
           m == Pieces(box.w, mw)
           seqs == [i \in DOMAIN rows |-> Row(cols, box.x, box.y + rows[i].at, rows[i].len)]
<1>0. /\ box = Box(box.x, box.y, box.w, box.h) /\ box.x \in Nat /\ box.y \in Nat
      /\ box.w \in Nat \ {0} /\ box.h \in Nat \ {0}
  BY Boxes
<1>1. /\ k \in Nat \ {0} /\ DOMAIN rows = 1 .. k
      /\ \A i \in 1 .. k :
           /\ rows[i].at \in Nat /\ rows[i].len \in Nat \ {0}
           /\ rows[i].len <= mh /\ rows[i].at + rows[i].len <= box.h
  BY <1>0, CutsMake
<1>2. /\ \A z \in 0 .. box.h - 1 : \E i \in DOMAIN rows : rows[i].at <= z /\ z < rows[i].at + rows[i].len
      /\ \A i, j \in DOMAIN rows : i < j => rows[i].at + rows[i].len <= rows[j].at
  BY <1>0, CutsAreApart
<1>3. m \in Nat \ {0}
  BY <1>0, CutsMake
<1>4. Grid(box, mw, mh) = FlattenSeq(seqs)
  BY DEF Grid, Row
<1> HIDE DEF rows, k
<1> DEFINE B(i) == Box(box.x, box.y + rows[i].at, box.w, rows[i].len)
           R == [i \in 1 .. k |-> Pixels(B(i))]
<1>5. ASSUME NEW i \in 1 .. k
      PROVE  Makes(seqs[i], u, R[i]) /\ Len(seqs[i]) = m /\ box.y + rows[i].at \in Nat /\ rows[i].len \in Nat
  <2>1. rows[i].at \in Nat /\ rows[i].len \in Nat \ {0} /\ rows[i].len <= mh /\ rows[i].len <= box.h
    BY <1>0, <1>1
  <2>2. box.y + rows[i].at \in Nat
    BY <1>0, <2>1
  <2> DEFINE most2 == IF mw <= box.w THEN mw ELSE box.w
  <2>3. /\ most2 \in Nat \ {0} /\ most2 <= box.w /\ (mw <= box.w => most2 = mw)
        /\ (mw > box.w => most2 = box.w)
    BY <1>0
  <2>4. Fits(u, most2, rows[i].len)
    <3> DEFINE most3 == IF mh <= box.h THEN mh ELSE box.h
    <3>1. \A h \in Nat : h <= rows[i].len => h <= most3
      BY <1>0, <2>1
    <3>2. Fits(u, most2, most3)
      OBVIOUS
    <3>3. \A b \in Rectangle : b.h \in Nat
      BY Boxes
    <3> HIDE DEF most2, most3
    <3> QED
      BY <3>1, <3>2, <3>3 DEF Fits
  <2> HIDE DEF most2
  <2>5. /\ Makes(Row(Cuts(box.w, mw), box.x, box.y + rows[i].at, rows[i].len), u,
                 Pixels(Box(box.x, box.y + rows[i].at, box.w, rows[i].len)))
        /\ Len(Row(Cuts(box.w, mw), box.x, box.y + rows[i].at, rows[i].len)) = Pieces(box.w, mw)
    <3> DEFINE x == box.x
               y == box.y + rows[i].at
               w == box.w
               h == rows[i].len
    <3>1. /\ x \in Nat /\ y \in Nat /\ w \in Nat \ {0} /\ h \in Nat \ {0}
          /\ most2 \in Nat \ {0} /\ most2 <= w
          /\ (mw <= w => most2 = mw) /\ (mw > w => most2 = w) /\ Fits(u, most2, h)
      BY <1>0, <2>1, <2>2, <2>3, <2>4
    <3> HIDE DEF x, y, w, h
    <3>2. /\ Makes(Row(Cuts(w, mw), x, y, h), u, Pixels(Box(x, y, w, h)))
          /\ Len(Row(Cuts(w, mw), x, y, h)) = Pieces(w, mw)
      BY <3>1, RowMakes
    <3> QED
      BY <3>2 DEF x, y, w, h
  <2>6. seqs[i] = Row(cols, box.x, box.y + rows[i].at, rows[i].len) /\ R[i] = Pixels(B(i))
    BY <1>1
  <2> QED
    BY <2>1, <2>2, <2>5, <2>6
<1>6. seqs \in Seq(Seq(GoodParts(u))) /\ Len(seqs) = k /\ DOMAIN seqs = 1 .. k
  <2>1. DOMAIN seqs = 1 .. k /\ seqs = [i \in 1 .. k |-> seqs[i]]
    BY <1>1
  <2> HIDE DEF seqs
  <2>2. \A i \in 1 .. k : seqs[i] \in Seq(GoodParts(u))
    BY <1>5 DEF Makes
  <2>3. seqs \in [1 .. k -> Seq(GoodParts(u))]
    BY <2>1, <2>2
  <2> QED
    BY <1>1, <2>1, <2>3, IsSequence
<1> HIDE DEF seqs, m
<1>7. ASSUME NEW i \in 1 .. k, NEW p
      PROVE  p \in Pixels(B(i)) <=> /\ p \in Int \X Int /\ box.x <= p[1] /\ p[1] < box.x + box.w
                                    /\ box.y + rows[i].at <= p[2] /\ p[2] < box.y + rows[i].at + rows[i].len
  BY <1>0, <1>5, InPixels
<1>8. ASSUME NEW p
      PROVE  p \in Pixels(box) <=> \E i \in 1 .. k : p \in Pixels(B(i))
  <2>1. p \in Pixels(box) <=> /\ p \in Int \X Int /\ box.x <= p[1] /\ p[1] < box.x + box.w
                              /\ box.y <= p[2] /\ p[2] < box.y + box.h
    <3>1. p \in Pixels(Box(box.x, box.y, box.w, box.h)) <=>
            /\ p \in Int \X Int /\ box.x <= p[1] /\ p[1] < box.x + box.w
            /\ box.y <= p[2] /\ p[2] < box.y + box.h
      BY <1>0, InPixels
    <3> QED
      BY <1>0, <3>1
  <2> HIDE DEF B
  <2>2. ASSUME NEW i \in 1 .. k, p \in Pixels(B(i)) PROVE p \in Pixels(box)
    <3>1. /\ p \in Int \X Int /\ box.x <= p[1] /\ p[1] < box.x + box.w
          /\ box.y + rows[i].at <= p[2] /\ p[2] < box.y + rows[i].at + rows[i].len
      BY <1>7, <2>2
    <3>2. rows[i].at \in Nat /\ rows[i].len \in Nat /\ rows[i].at + rows[i].len <= box.h
      BY <1>1
    <3>3. p[2] \in Int
      BY <3>1
    <3>4. box.y <= p[2] /\ p[2] < box.y + box.h
      BY <1>0, <3>1, <3>2, <3>3
    <3> QED
      BY <2>1, <3>1, <3>4
  <2>3. ASSUME p \in Pixels(box) PROVE \E i \in 1 .. k : p \in Pixels(B(i))
    <3>1. p[2] \in Int /\ p[2] - box.y \in 0 .. box.h - 1
      BY <1>0, <2>1, <2>3
    <3>2. PICK i \in 1 .. k : rows[i].at <= p[2] - box.y /\ p[2] - box.y < rows[i].at + rows[i].len
      BY <1>1, <1>2, <3>1
    <3>3. rows[i].at \in Nat /\ rows[i].len \in Nat
      BY <1>1
    <3>4. box.y + rows[i].at <= p[2] /\ p[2] < box.y + rows[i].at + rows[i].len
      BY <1>0, <3>1, <3>2, <3>3
    <3>5. p \in Pixels(B(i))
      BY <1>7, <2>1, <2>3, <3>4
    <3> QED
      BY <3>5
  <2> QED
    BY <2>2, <2>3
<1> HIDE DEF B
<1>9. ASSUME NEW i \in 1 .. k, NEW j \in 1 .. k, i < j PROVE Pixels(B(i)) \cap Pixels(B(j)) = {}
  <2> SUFFICES ASSUME NEW p, p \in Pixels(B(i)), p \in Pixels(B(j)) PROVE FALSE
    OBVIOUS
  <2>1. p[2] < box.y + rows[i].at + rows[i].len /\ p \in Int \X Int
    BY <1>7
  <2>2. box.y + rows[j].at <= p[2]
    BY <1>7
  <2>3. rows[i].at + rows[i].len <= rows[j].at
    BY <1>1, <1>2, <1>9
  <2>4. rows[i].at \in Nat /\ rows[i].len \in Nat /\ rows[j].at \in Nat /\ p[2] \in Int
    BY <1>1, <2>1
  <2> QED
    BY <1>0, <2>1, <2>2, <2>3, <2>4
<1>10. \A i, j \in 1 .. k : i # j => R[i] \cap R[j] = {}
  <2> SUFFICES ASSUME NEW i \in 1 .. k, NEW j \in 1 .. k, i # j
               PROVE  Pixels(B(i)) \cap Pixels(B(j)) = {}
    OBVIOUS
  <2>1. i < j \/ j < i
    BY <1>1
  <2> QED
    BY <1>9, <2>1
<1>11. Joins(Pixels(box), R, 1 .. k)
  BY <1>8 DEF Joins
<1> HIDE DEF R
<1>12. Makes(FlattenSeq(seqs), u, Pixels(box))
  <2>1. seqs \in Seq(Seq(GoodParts(u))) /\ DOMAIN seqs = 1 .. k
    BY <1>6
  <2> HIDE DEF cols
  <2>2. \A i \in DOMAIN seqs : Makes(seqs[i], u, R[i])
    BY <1>5, <2>1, Zenon
  <2>3. \A i, j \in DOMAIN seqs : i # j => R[i] \cap R[j] = {}
    BY <1>10, <2>1, Zenon
  <2> QED
    BY <1>11, <2>1, <2>2, <2>3, AllMake
<1>13. Len(FlattenSeq(seqs)) = m * k
  <2> DEFINE total == [i \in 0 .. k |-> m * i]
             S == GoodParts(u)
  <2>1. Lengths(total, seqs)
    <3>1. total[0] = 0
      BY <1>1, <1>3
    <3>2. ASSUME NEW i \in 1 .. k PROVE total[i] = total[i - 1] + Len(seqs[i])
      <4>1. i \in 0 .. k /\ i - 1 \in 0 .. k /\ Len(seqs[i]) = m
        BY <1>1, <1>5
      <4>2. m * i = m * (i - 1) + m
        BY <1>3, <4>1
      <4> QED
        BY <4>1, <4>2
    <3> QED
      BY <1>6, <3>1, <3>2 DEF Lengths
  <2>2. total[k] = m * k
    BY <1>1
  <2>3. seqs \in Seq(Seq(S))
    BY <1>6
  <2> HIDE DEF total, S
  <2>4. Len(FlattenSeq(seqs)) = total[Len(seqs)]
    BY <2>1, <2>3, AllCovered
  <2> QED
    BY <1>6, <2>2, <2>4
<1> QED
  BY <1>4, <1>12, <1>13 DEF k, m

-----------------------------------------------------------------------------
(* Areas of one colour.                                                    *)

LEMMA Extremes ==
  ASSUME NEW lo \in Int, NEW hi \in Int, NEW T \in SUBSET (lo .. hi), T # {}
  PROVE  /\ Min(T) \in T /\ Max(T) \in T
         /\ \A x \in T : Min(T) <= x /\ x <= Max(T)
<1>1. \E m \in T : \A x \in T : m <= x
  <2> DEFINE U == {n \in Nat : lo + n \in T}
  <2>1. PICK t \in T : TRUE
    OBVIOUS
  <2>2. t - lo \in Nat /\ lo + (t - lo) = t
    OBVIOUS
  <2>3. U \in SUBSET Nat /\ U # {}
    BY <2>2
  <2>4. PICK n \in U : \A m \in U : n <= m
    <3> HIDE DEF U
    <3> QED
      BY <2>3, Least
  <2>5. ASSUME NEW x \in T PROVE lo + n <= x
    <3>1. x - lo \in Nat /\ lo + (x - lo) = x
      OBVIOUS
    <3>2. x - lo \in U
      BY <3>1
    <3>3. n <= x - lo /\ n \in Nat
      BY <2>4, <3>2
    <3> QED
      BY <3>1, <3>3
  <2> QED
    BY <2>4, <2>5
<1>2. \E m \in T : \A x \in T : m >= x
  <2> DEFINE U == {n \in Nat : hi - n \in T}
  <2>1. PICK t \in T : TRUE
    OBVIOUS
  <2>2. hi - t \in Nat /\ hi - (hi - t) = t
    OBVIOUS
  <2>3. U \in SUBSET Nat /\ U # {}
    BY <2>2
  <2>4. PICK n \in U : \A m \in U : n <= m
    <3> HIDE DEF U
    <3> QED
      BY <2>3, Least
  <2>5. ASSUME NEW x \in T PROVE hi - n >= x
    <3>1. hi - x \in Nat /\ hi - (hi - x) = x
      OBVIOUS
    <3>2. hi - x \in U
      BY <3>1
    <3>3. n <= hi - x /\ n \in Nat
      BY <2>4, <3>2
    <3> QED
      BY <3>1, <3>3
  <2> QED
    BY <2>4, <2>5
<1>3. Min(T) \in T /\ \A x \in T : Min(T) <= x
  BY <1>1 DEF Min
<1>4. Max(T) \in T /\ \A x \in T : Max(T) >= x
  BY <1>2 DEF Max
<1>5. \A x \in T : x \in Int
  OBVIOUS
<1> QED
  BY <1>3, <1>4, <1>5

LEMMA Colours ==
  ASSUME NEW scene, NEW box, NEW c
  PROVE  AllOf(scene, box, c) <=> \A p \in Pixels(box) : scene[p] = c
BY DEF AllOf

\* An area above another one of the same colour that is no wider.
LEMMA ColoursBelow ==
  ASSUME NEW scene, NEW c, NEW x \in Nat, NEW y \in Nat, NEW w \in Nat, NEW h \in Nat,
         NEW w2 \in Nat, NEW h2 \in Nat, w2 <= w,
         AllOf(scene, Box(x, y, w, h), c), AllOf(scene, Box(x, y + h, w2, h2), c)
  PROVE  AllOf(scene, Box(x, y, w2, h + h2), c)
<1> SUFFICES ASSUME NEW p \in Pixels(Box(x, y, w2, h + h2)) PROVE scene[p] = c
  BY Colours
<1>1. /\ p \in Int \X Int /\ x <= p[1] /\ p[1] < x + w2 /\ y <= p[2] /\ p[2] < y + (h + h2)
      /\ h + h2 \in Int /\ y + h \in Int
  <2>1. h + h2 \in Int /\ y + h \in Int
    OBVIOUS
  <2> QED
    BY <2>1, InPixels
<1>2. p[1] \in Int /\ p[2] \in Int
  BY <1>1
<1>3. CASE p[2] < y + h
  <2>1. p[1] < x + w
    BY <1>1, <1>2
  <2>2. p \in Pixels(Box(x, y, w, h))
    BY <1>1, <1>3, <2>1, InPixels
  <2> QED
    BY <2>2, Colours
<1>4. CASE ~(p[2] < y + h)
  <2>1. y + h <= p[2] /\ p[2] < y + h + h2
    BY <1>1, <1>2, <1>4
  <2> DEFINE z == y + h
  <2>2. z \in Int
    BY <1>1
  <2>3. z <= p[2] /\ p[2] < z + h2
    BY <2>1
  <2> HIDE DEF z
  <2>4. p \in Pixels(Box(x, z, w2, h2))
    BY <1>1, <2>2, <2>3, InPixels
  <2> QED
    BY <2>4, Colours DEF z
<1> QED
  BY <1>3, <1>4

\* The widest area of a band that may be taken: nothing, if need be.
LEMMA WideIs ==
  ASSUME NEW scene, NEW c, NEW x \in Nat, NEW y \in Nat, NEW w \in Nat, NEW h \in Nat
  PROVE  LET best == Wide(scene, Box(x, y, w, h), c)
         IN best \in 0 .. w /\ AllOf(scene, Box(x, y, best, h), c)
<1> DEFINE box == Box(x, y, w, h)
           T == {v \in 0 .. box.w : /\ v % MaxSplitTileSize = 0 \/ v = box.w
                                    /\ AllOf(scene, [box EXCEPT !.w = v], c)}
<1>1. box.w = w /\ \A v : [box EXCEPT !.w = v] = Box(x, y, v, h)
  BY DEF Box
<1>2. AllOf(scene, Box(x, y, 0, h), c)
  <2> SUFFICES ASSUME NEW p \in Pixels(Box(x, y, 0, h)) PROVE FALSE
    BY Colours
  <2>1. p \in Int \X Int /\ x <= p[1] /\ p[1] < x + 0
    BY InPixels
  <2>2. p[1] \in Int
    BY <2>1
  <2> QED
    BY <2>1, <2>2
<1>3. 0 \in T
  <2>1. 0 % MaxSplitTileSize = 0
    BY RectanglesAssumption
  <2> QED
    BY <1>1, <1>2, <2>1
<1>4. T \in SUBSET (0 .. w)
  BY <1>1
<1>5. Wide(scene, box, c) = Max(T)
  BY DEF Wide
<1> HIDE DEF T
<1>6. Max(T) \in T
  <2>1. T # {} /\ 0 \in Int /\ w \in Int
    BY <1>3
  <2> HIDE DEF box
  <2> QED
    BY <1>4, <2>1, Extremes
<1>7. Max(T) \in 0 .. w /\ AllOf(scene, Box(x, y, Max(T), h), c)
  BY <1>1, <1>6 DEF T
<1> QED
  BY <1>5, <1>7

\* What FindBestSolidArea has found after some rows: an area of the colour, and that the
\* bands so far have it as wide as the last one.
Found(scene, box, c, rows, found) ==
  /\ found \in [w : 0 .. box.w, h : 0 .. box.h, prev : 0 .. box.w]
  /\ AllOf(scene, Box(box.x, box.y, found.w, found.h), c)
  /\ AllOf(scene, Box(box.x, box.y, found.prev, rows), c)

LEMMA BandIsFound ==
  ASSUME NEW scene, NEW c, NEW box \in Rectangle, NEW at \in Nat, NEW len \in Nat,
         at + len <= box.h, NEW found, Found(scene, box, c, at, found)
  PROVE  Found(scene, box, c, at + len, NextBand(scene, box, c, found, [at |-> at, len |-> len]))
<1> DEFINE x == box.x
           y == box.y
           prev == found.prev
           w == Wide(scene, Box(x, y + at, prev, len), c)
           h == at + len
           next == NextBand(scene, box, c, found, [at |-> at, len |-> len])
<1>1. x \in Nat /\ y \in Nat /\ box.w \in Nat /\ box.h \in Nat
  BY Boxes
<1>2. prev \in 0 .. box.w /\ found.w \in 0 .. box.w /\ found.h \in 0 .. box.h
  BY DEF Found
<1>3. next = IF w * h > found.w * found.h THEN [w |-> w, h |-> h, prev |-> w] ELSE [found EXCEPT !.prev = w]
  BY DEF NextBand
<1>4. AllOf(scene, Box(x, y, prev, at), c) /\ AllOf(scene, Box(x, y, found.w, found.h), c)
  BY DEF Found
<1>5. found \in [w : 0 .. box.w, h : 0 .. box.h, prev : 0 .. box.w]
  BY DEF Found
<1> HIDE DEF x, y, prev
<1>6. w \in 0 .. prev /\ AllOf(scene, Box(x, y + at, w, len), c)
  <2> DEFINE z == y + at
  <2>1. z \in Nat /\ prev \in Nat
    BY <1>1, <1>2
  <2> HIDE DEF z
  <2>2. LET best == Wide(scene, Box(x, z, prev, len), c)
        IN best \in 0 .. prev /\ AllOf(scene, Box(x, z, best, len), c)
    BY <1>1, <2>1, WideIs
  <2> QED
    BY <2>2 DEF z
<1> HIDE DEF w, next
<1>7. AllOf(scene, Box(x, y, w, h), c)
  <2>1. w \in Nat /\ prev \in Nat /\ w <= prev
    BY <1>2, <1>6
  <2> QED
    BY <1>1, <1>4, <1>6, <2>1, ColoursBelow
<1>8. h \in 0 .. box.h /\ w \in 0 .. box.w
  BY <1>1, <1>2, <1>6
<1> HIDE DEF h
<1>9. CASE w * h > found.w * found.h
  <2>1. next = [w |-> w, h |-> h, prev |-> w]
    BY <1>3, <1>9
  <2> QED
    BY <1>7, <1>8, <2>1 DEF Found, next, x, y, h
<1>10. CASE ~(w * h > found.w * found.h)
  <2>1. next = [found EXCEPT !.prev = w]
    BY <1>3, <1>10
  <2>2. next \in [w : 0 .. box.w, h : 0 .. box.h, prev : 0 .. box.w]
    BY <1>5, <1>8, <2>1
  <2>3. next.prev = w /\ next.w = found.w /\ next.h = found.h
    BY <1>5, <2>1
  <2> QED
    BY <1>4, <1>7, <2>2, <2>3 DEF Found, next, x, y, h
<1> QED
  BY <1>9, <1>10

LEMMA BestIsFound ==
  ASSUME NEW scene, NEW c, NEW box \in Rectangle
  PROVE  LET best == FindBestSolidArea(scene, box, c)
         IN /\ best.x = box.x /\ best.y = box.y /\ best.w \in 0 .. box.w /\ best.h \in 0 .. box.h
            /\ best = Box(box.x, box.y, best.w, best.h) /\ AllOf(scene, best, c)
<1> DEFINE bands == Cuts(box.h, MaxSplitTileSize)
           k == Pieces(box.h, MaxSplitTileSize)
           S == [w : 0 .. box.w, h : 0 .. box.h, prev : 0 .. box.w]
           base == [w |-> 0, h |-> 0, prev |-> box.w]
           step == [i \in 1 .. k |-> [s \in S |-> NextBand(scene, box, c, s, bands[i])]]
           F(f) == f = [i \in 0 .. Len(bands) |->
                          IF i = 0 THEN base ELSE NextBand(scene, box, c, f[i - 1], bands[i])]
<1>1. box.x \in Nat /\ box.y \in Nat /\ box.w \in Nat \ {0} /\ box.h \in Nat \ {0} /\ MaxSplitTileSize \in Nat \ {0}
  BY Boxes, RectanglesAssumption
<1>2. /\ k \in Nat \ {0} /\ Len(bands) = k
      /\ bands \in Seq([at : Nat, len : Nat]) /\ DOMAIN bands = 1 .. k
      /\ \A i \in 1 .. k :
           /\ bands[i].at \in Nat /\ bands[i].len \in Nat \ {0}
           /\ bands[i].at + bands[i].len <= box.h
           /\ bands[i].at = (i - 1) * MaxSplitTileSize
           /\ i + 1 <= k => bands[i].len = MaxSplitTileSize
  BY <1>1, CutsMake
<1>3. \A i \in 1 .. k : bands[i] = [at |-> bands[i].at, len |-> bands[i].len]
  <2>1. \A i \in 1 .. k : bands[i] \in [at : Nat, len : Nat]
    BY <1>2, ElementOfSeq
  <2> HIDE DEF bands, k
  <2> QED
    BY <2>1
<1> HIDE DEF bands, k
<1>4. ASSUME NEW i \in 1 .. k, NEW s \in S PROVE NextBand(scene, box, c, s, bands[i]) \in S
  <2> DEFINE at == bands[i].at
             len == bands[i].len
             w == Wide(scene, Box(box.x, box.y + at, s.prev, len), c)
  <2>1. at \in Nat /\ len \in Nat /\ at + len <= box.h /\ s.prev \in Nat /\ box.y + at \in Nat /\ s.prev <= box.w
    <3>1. at \in Nat /\ len \in Nat /\ at + len <= box.h
      BY <1>2
    <3>2. s.prev \in 0 .. box.w
      OBVIOUS
    <3> HIDE DEF at, len, S
    <3> QED
      BY <1>1, <3>1, <3>2
  <2>2. w \in 0 .. s.prev
    <3> DEFINE y == box.y + at
               p == s.prev
    <3>1. y \in Nat /\ p \in Nat
      BY <2>1
    <3> HIDE DEF y, p, at, len
    <3>2. Wide(scene, Box(box.x, y, p, len), c) \in 0 .. p
      BY <1>1, <2>1, <3>1, WideIs
    <3> QED
      BY <3>2 DEF y, p
  <2>3. NextBand(scene, box, c, s, bands[i]) =
          IF w * (at + len) > s.w * s.h THEN [w |-> w, h |-> at + len, prev |-> w] ELSE [s EXCEPT !.prev = w]
    BY DEF NextBand
  <2> HIDE DEF w
  <2>4. w \in 0 .. box.w /\ at + len \in 0 .. box.h
    BY <1>1, <2>1, <2>2
  <2> HIDE DEF at, len
  <2>5. [w |-> w, h |-> at + len, prev |-> w] \in S /\ [s EXCEPT !.prev = w] \in S
    BY <2>4
  <2> QED
    BY <2>3, <2>5
<1>5. base \in S
  BY <1>1
<1> HIDE DEF S
<1>6. PICK g \in [0 .. k -> S] : Rounds(g, k, base, step)
  <2>1. \A i \in 1 .. k : \A s \in S : step[i][s] \in S
    BY <1>4
  <2> HIDE DEF step, base
  <2> QED
    BY <1>2, <1>5, <2>1, LoopIsDefined
<1>7. F(g)
  <2>1. \A i \in 0 .. k : g[i] = IF i = 0 THEN base ELSE NextBand(scene, box, c, g[i - 1], bands[i])
    <3> SUFFICES ASSUME NEW i \in 0 .. k
                 PROVE g[i] = IF i = 0 THEN base ELSE NextBand(scene, box, c, g[i - 1], bands[i])
      OBVIOUS
    <3>1. g[i] = IF i = 0 THEN base ELSE step[i][g[i - 1]]
      <4> HIDE DEF step, base
      <4> QED
        BY <1>6 DEF Rounds
    <3>2. i # 0 => i \in 1 .. k /\ g[i - 1] \in S
      BY <1>2, <1>6
    <3> HIDE DEF base
    <3> QED
      BY <3>1, <3>2
  <2> HIDE DEF base, step
  <2> QED
    BY <1>2, <1>6, <2>1 DEF Rounds
<1> DEFINE best == CHOOSE f : F(f)
<1>8. F(best)
  BY <1>7
<1>9. FindBestSolidArea(scene, box, c) = Box(box.x, box.y, best[k].w, best[k].h)
  BY <1>2 DEF FindBestSolidArea, bands
<1> HIDE DEF best
<1>10. \A i \in 0 .. k : best[i] = IF i = 0 THEN base ELSE NextBand(scene, box, c, best[i - 1], bands[i])
  <2> HIDE DEF base
  <2>1. best = [i \in 0 .. k |-> IF i = 0 THEN base ELSE NextBand(scene, box, c, best[i - 1], bands[i])]
    BY <1>2, <1>8
  <2> QED
    BY <2>1
<1> DEFINE P == {i \in 1 .. k : Found(scene, box, c, bands[i].at + bands[i].len, best[i])}
<1>11. ASSUME NEW i \in 1 .. k, Found(scene, box, c, bands[i].at, best[i - 1]) PROVE i \in P
  <2> DEFINE at == bands[i].at
             len == bands[i].len
             prior == best[i - 1]
  <2>1. at \in Nat /\ len \in Nat /\ at + len <= box.h /\ bands[i] = [at |-> at, len |-> len]
    BY <1>2, <1>3
  <2>2. best[i] = NextBand(scene, box, c, prior, bands[i])
    BY <1>2, <1>10
  <2>3. Found(scene, box, c, at, prior)
    BY <1>11
  <2> HIDE DEF at, len, prior
  <2>4. Found(scene, box, c, at + len, NextBand(scene, box, c, prior, [at |-> at, len |-> len]))
    BY <2>1, <2>3, BandIsFound
  <2> QED
    BY <2>1, <2>2, <2>4 DEF at, len
<1>12. 1 \in P
  <2>1. 1 \in 1 .. k /\ (1 - 1) * MaxSplitTileSize = 0 /\ 1 - 1 = 0 /\ 0 \in 0 .. k
    BY <1>1, <1>2
  <2>2. bands[1].at = 0 /\ best[1 - 1] = base
    BY <1>2, <1>10, <2>1
  <2>3. ASSUME NEW w, w \in {0, box.w} PROVE AllOf(scene, Box(box.x, box.y, w, 0), c)
    <3> SUFFICES ASSUME NEW p \in Pixels(Box(box.x, box.y, w, 0)) PROVE FALSE
      BY Colours
    <3>1. w \in Int /\ box.x \in Int /\ box.y \in Int /\ 0 \in Int
      BY <1>1, <2>3
    <3>2. p \in Int \X Int /\ box.y <= p[2] /\ p[2] < box.y + 0
      BY <3>1, InPixels
    <3>3. p[2] \in Int
      BY <3>2
    <3> QED
      BY <1>1, <3>2, <3>3
  <2>4. base \in [w : 0 .. box.w, h : 0 .. box.h, prev : 0 .. box.w]
        /\ base.w = 0 /\ base.h = 0 /\ base.prev = box.w
    BY <1>1
  <2> HIDE DEF base
  <2>5. Found(scene, box, c, 0, base)
    BY <2>3, <2>4 DEF Found
  <2> QED
    BY <1>11, <2>1, <2>2, <2>5
<1>13. ASSUME NEW i \in P, i + 1 <= k PROVE i + 1 \in P
  <2>1. i \in 1 .. k /\ i + 1 \in 1 .. k /\ (i + 1) - 1 = i
    BY <1>2, <1>13
  <2>2. bands[i + 1].at = i * MaxSplitTileSize /\ bands[i].at = (i - 1) * MaxSplitTileSize
        /\ bands[i].len = MaxSplitTileSize
    BY <1>2, <1>13, <2>1
  <2>3. i * MaxSplitTileSize = (i - 1) * MaxSplitTileSize + MaxSplitTileSize
    BY <1>1, <2>1
  <2>4. Found(scene, box, c, bands[i].at + bands[i].len, best[i])
    OBVIOUS
  <2> HIDE DEF P
  <2>5. Found(scene, box, c, bands[i + 1].at, best[(i + 1) - 1])
    BY <2>1, <2>2, <2>3, <2>4
  <2> QED
    BY <1>11, <2>1, <2>5
<1>14. P = 1 .. k
  <2>1. P \in SUBSET (1 .. k)
    OBVIOUS
  <2> HIDE DEF P
  <2> QED
    BY <1>2, <1>12, <1>13, <2>1, Upwards
<1>15. Found(scene, box, c, bands[k].at + bands[k].len, best[k])
  <2>1. k \in 1 .. k
    BY <1>2
  <2> QED
    BY <1>14, <2>1
<1> DEFINE w == best[k].w
           h == best[k].h
<1>16. w \in 0 .. box.w /\ h \in 0 .. box.h /\ AllOf(scene, Box(box.x, box.y, w, h), c)
  BY <1>15 DEF Found
<1> HIDE DEF w, h
<1>17. /\ Box(box.x, box.y, w, h).x = box.x /\ Box(box.x, box.y, w, h).y = box.y
       /\ Box(box.x, box.y, w, h).w = w /\ Box(box.x, box.y, w, h).h = h
  BY Boxes
<1>18. FindBestSolidArea(scene, box, c) = Box(box.x, box.y, w, h)
  BY <1>9 DEF w, h
<1> QED
  BY <1>16, <1>17, <1>18

LEMMA ColoursBeside ==
  ASSUME NEW scene, NEW c, NEW x \in Nat, NEW y \in Nat, NEW w \in Nat, NEW h \in Nat, NEW w2 \in Nat,
         AllOf(scene, Box(x, y, w, h), c), AllOf(scene, Box(x + w, y, w2, h), c)
  PROVE  AllOf(scene, Box(x, y, w + w2, h), c)
<1> DEFINE z == x + w
           v == w + w2
<1>0. z \in Int /\ v \in Int /\ x + v = z + w2 /\ AllOf(scene, Box(z, y, w2, h), c)
  OBVIOUS
<1> SUFFICES ASSUME NEW p \in Pixels(Box(x, y, v, h)) PROVE scene[p] = c
  BY Colours
<1> HIDE DEF v
<1>1. p \in Int \X Int /\ x <= p[1] /\ p[1] < x + v /\ y <= p[2] /\ p[2] < y + h
  BY <1>0, InPixels
<1>2. p[1] \in Int /\ p[2] \in Int
  BY <1>1
<1>3. CASE p[1] < x + w
  <2>1. p \in Pixels(Box(x, y, w, h))
    BY <1>1, <1>3, InPixels
  <2> QED
    BY <2>1, Colours
<1>4. CASE ~(p[1] < x + w)
  <2>1. z <= p[1] /\ p[1] < z + w2
    BY <1>0, <1>1, <1>2, <1>4
  <2> HIDE DEF z
  <2>2. p \in Pixels(Box(z, y, w2, h))
    BY <1>0, <1>1, <2>1, InPixels
  <2> QED
    BY <1>0, <2>2, Colours
<1> QED
  BY <1>3, <1>4

LEMMA NoColours ==
  ASSUME NEW scene, NEW c, NEW x \in Nat, NEW y \in Nat, NEW w \in Nat, NEW h \in Nat, w = 0 \/ h = 0
  PROVE  AllOf(scene, Box(x, y, w, h), c)
<1> SUFFICES ASSUME NEW p \in Pixels(Box(x, y, w, h)) PROVE FALSE
  BY Colours
<1>1. p \in Int \X Int /\ x <= p[1] /\ p[1] < x + w /\ y <= p[2] /\ p[2] < y + h
  BY InPixels
<1>2. p[1] \in Int /\ p[2] \in Int
  BY <1>1
<1> QED
  BY <1>1, <1>2

Inside(a, box) ==
  /\ box.x <= a.x /\ a.x + a.w <= box.x + box.w
  /\ box.y <= a.y /\ a.y + a.h <= box.y + box.h

LEMMA IsInside ==
  ASSUME NEW x \in Nat, NEW y \in Nat, NEW w \in Nat \ {0}, NEW h \in Nat \ {0}, NEW box,
         box.x <= x, x + w <= box.x + box.w, box.y <= y, y + h <= box.y + box.h
  PROVE  Box(x, y, w, h) \in Rectangle /\ Inside(Box(x, y, w, h), box)
BY DEF Box, Rectangle, Inside

\* An area of that colour within a rectangle.
AreaOf(scene, box, c, a) == a \in Rectangle /\ Inside(a, box) /\ AllOf(scene, a, c)

LEMMA UpIs ==
  ASSUME NEW scene, NEW c, NEW box \in Rectangle, NEW a, AreaOf(scene, box, c, a)
  PROVE  AreaOf(scene, box, c, Up(scene, box, a, c))
<1> DEFINE T == {i \in box.y .. a.y : AllOf(scene, Box(a.x, i, a.w, a.y - i), c)}
           y == Min(T)
           h == a.h + a.y - y
<1>1. /\ box.x \in Nat /\ box.y \in Nat /\ box.w \in Nat /\ box.h \in Nat
      /\ a.x \in Nat /\ a.y \in Nat /\ a.w \in Nat \ {0} /\ a.h \in Nat \ {0}
      /\ a = Box(a.x, a.y, a.w, a.h)
  BY Boxes DEF AreaOf
<1>2. Inside(a, box) /\ AllOf(scene, a, c)
  BY DEF AreaOf
<1>3. AllOf(scene, Box(a.x, a.y, a.w, 0), c)
  BY <1>1, NoColours
<1>4. a.y \in T
  <2>1. a.y - a.y = 0 /\ a.y \in box.y .. a.y
    BY <1>1, <1>2 DEF Inside
  <2> QED
    BY <1>3, <2>1
<1>5. y \in T
  <2>1. T \in SUBSET (box.y .. a.y) /\ T # {} /\ a.y \in Int /\ box.y \in Int
    BY <1>1, <1>4
  <2> HIDE DEF T
  <2> QED
    BY <2>1, Extremes
<1>6. y \in box.y .. a.y /\ AllOf(scene, Box(a.x, y, a.w, a.y - y), c)
  BY <1>5
<1>7. Up(scene, box, a, c) = Box(a.x, y, a.w, h)
  BY DEF Up
<1> HIDE DEF T, y
<1>8. AllOf(scene, Box(a.x, y, a.w, h), c)
  <2> DEFINE g == a.y - y
  <2>1. y \in Nat /\ g \in Nat /\ y + g = a.y /\ h = g + a.h
    BY <1>1, <1>6
  <2>2. AllOf(scene, Box(a.x, y, a.w, g), c)
    BY <1>6
  <2> HIDE DEF g, h
  <2>3. AllOf(scene, Box(a.x, y + g, a.w, a.h), c)
    BY <1>1, <1>2, <2>1
  <2>4. AllOf(scene, Box(a.x, y, a.w, g + a.h), c)
    BY <1>1, <2>1, <2>2, <2>3, ColoursBelow
  <2> QED
    BY <2>1, <2>4
<1>9. y \in Nat /\ h \in Nat \ {0} /\ y + h = a.y + a.h /\ box.y <= y
  BY <1>1, <1>6
<1> HIDE DEF h
<1>10. Box(a.x, y, a.w, h) \in Rectangle /\ Inside(Box(a.x, y, a.w, h), box)
  <2>1. /\ box.x <= a.x /\ a.x + a.w <= box.x + box.w
        /\ box.y <= a.y /\ a.y + a.h <= box.y + box.h
    BY <1>2 DEF Inside
  <2> QED
    BY <1>1, <2>1, <1>9, IsInside
<1> QED
  BY <1>7, <1>8, <1>10 DEF AreaOf

LEMMA LeftIs ==
  ASSUME NEW scene, NEW c, NEW box \in Rectangle, NEW a, AreaOf(scene, box, c, a)
  PROVE  AreaOf(scene, box, c, Left(scene, box, a, c))
<1> DEFINE T == {i \in box.x .. a.x : AllOf(scene, Box(i, a.y, a.x - i, a.h), c)}
           x == Min(T)
           w == a.w + a.x - x
<1>1. /\ box.x \in Nat /\ box.y \in Nat /\ box.w \in Nat /\ box.h \in Nat
      /\ a.x \in Nat /\ a.y \in Nat /\ a.w \in Nat \ {0} /\ a.h \in Nat \ {0}
      /\ a = Box(a.x, a.y, a.w, a.h)
  BY Boxes DEF AreaOf
<1>2. Inside(a, box) /\ AllOf(scene, a, c)
  BY DEF AreaOf
<1>3. AllOf(scene, Box(a.x, a.y, 0, a.h), c)
  BY <1>1, NoColours
<1>4. a.x \in T
  <2>1. a.x - a.x = 0 /\ a.x \in box.x .. a.x
    BY <1>1, <1>2 DEF Inside
  <2> QED
    BY <1>3, <2>1
<1>5. x \in T
  <2>1. T \in SUBSET (box.x .. a.x) /\ T # {} /\ a.x \in Int /\ box.x \in Int
    BY <1>1, <1>4
  <2> HIDE DEF T
  <2> QED
    BY <2>1, Extremes
<1>6. x \in box.x .. a.x /\ AllOf(scene, Box(x, a.y, a.x - x, a.h), c)
  BY <1>5
<1>7. Left(scene, box, a, c) = Box(x, a.y, w, a.h)
  BY DEF Left
<1> HIDE DEF T, x
<1>8. AllOf(scene, Box(x, a.y, w, a.h), c)
  <2> DEFINE g == a.x - x
  <2>1. x \in Nat /\ g \in Nat /\ x + g = a.x /\ w = g + a.w
    BY <1>1, <1>6
  <2>2. AllOf(scene, Box(x, a.y, g, a.h), c)
    BY <1>6
  <2> HIDE DEF g, w
  <2>3. AllOf(scene, Box(x + g, a.y, a.w, a.h), c)
    BY <1>1, <1>2, <2>1
  <2>4. AllOf(scene, Box(x, a.y, g + a.w, a.h), c)
    BY <1>1, <2>1, <2>2, <2>3, ColoursBeside
  <2> QED
    BY <2>1, <2>4
<1>9. x \in Nat /\ w \in Nat \ {0} /\ x + w = a.x + a.w /\ box.x <= x
  BY <1>1, <1>6
<1> HIDE DEF w
<1>10. Box(x, a.y, w, a.h) \in Rectangle /\ Inside(Box(x, a.y, w, a.h), box)
  <2>1. /\ box.x <= a.x /\ a.x + a.w <= box.x + box.w
        /\ box.y <= a.y /\ a.y + a.h <= box.y + box.h
    BY <1>2 DEF Inside
  <2> QED
    BY <1>1, <2>1, <1>9, IsInside
<1> QED
  BY <1>7, <1>8, <1>10 DEF AreaOf

LEMMA DownIs ==
  ASSUME NEW scene, NEW c, NEW box \in Rectangle, NEW a, AreaOf(scene, box, c, a)
  PROVE  AreaOf(scene, box, c, Down(scene, box, a, c))
<1> DEFINE T == {h \in a.h .. box.y + box.h - a.y : AllOf(scene, [a EXCEPT !.h = h], c)}
           m == Max(T)
<1>1. /\ box.x \in Nat /\ box.y \in Nat /\ box.w \in Nat /\ box.h \in Nat
      /\ a.x \in Nat /\ a.y \in Nat /\ a.w \in Nat \ {0} /\ a.h \in Nat \ {0}
      /\ a = Box(a.x, a.y, a.w, a.h)
  BY Boxes DEF AreaOf
<1>2. Inside(a, box) /\ AllOf(scene, a, c) /\ a \in Rectangle
  BY DEF AreaOf
<1>3. \A h : [a EXCEPT !.h = h] = Box(a.x, a.y, a.w, h)
  BY <1>2 DEF Rectangle, Box
<1>4. a.h \in T
  <2>1. a.h \in a.h .. box.y + box.h - a.y
    BY <1>1, <1>2 DEF Inside
  <2> QED
    BY <1>1, <1>2, <1>3, <2>1
<1>5. m \in T
  <2>1. T \in SUBSET (a.h .. box.y + box.h - a.y) /\ T # {} /\ a.h \in Int /\ box.y + box.h - a.y \in Int
    BY <1>1, <1>4
  <2> HIDE DEF T
  <2> QED
    BY <2>1, Extremes
<1>6. Down(scene, box, a, c) = [a EXCEPT !.h = m]
  BY DEF Down
<1>7. m \in a.h .. box.y + box.h - a.y /\ AllOf(scene, Box(a.x, a.y, a.w, m), c)
  BY <1>3, <1>5
<1> HIDE DEF m
<1>8. m \in Nat \ {0} /\ a.y + m <= box.y + box.h
  BY <1>1, <1>7
<1>9. Box(a.x, a.y, a.w, m) \in Rectangle /\ Inside(Box(a.x, a.y, a.w, m), box)
  <2>1. /\ box.x <= a.x /\ a.x + a.w <= box.x + box.w
        /\ box.y <= a.y /\ a.y + a.h <= box.y + box.h
    BY <1>2 DEF Inside
  <2> QED
    BY <1>1, <2>1, <1>8, IsInside
<1> QED
  BY <1>3, <1>6, <1>7, <1>9 DEF AreaOf

LEMMA RightIs ==
  ASSUME NEW scene, NEW c, NEW box \in Rectangle, NEW a, AreaOf(scene, box, c, a)
  PROVE  AreaOf(scene, box, c, Right(scene, box, a, c))
<1> DEFINE T == {w \in a.w .. box.x + box.w - a.x : AllOf(scene, [a EXCEPT !.w = w], c)}
           m == Max(T)
<1>1. /\ box.x \in Nat /\ box.y \in Nat /\ box.w \in Nat /\ box.h \in Nat
      /\ a.x \in Nat /\ a.y \in Nat /\ a.w \in Nat \ {0} /\ a.h \in Nat \ {0}
      /\ a = Box(a.x, a.y, a.w, a.h)
  BY Boxes DEF AreaOf
<1>2. Inside(a, box) /\ AllOf(scene, a, c) /\ a \in Rectangle
  BY DEF AreaOf
<1>3. \A w : [a EXCEPT !.w = w] = Box(a.x, a.y, w, a.h)
  BY <1>2 DEF Rectangle, Box
<1>4. a.w \in T
  <2>1. a.w \in a.w .. box.x + box.w - a.x
    BY <1>1, <1>2 DEF Inside
  <2> QED
    BY <1>1, <1>2, <1>3, <2>1
<1>5. m \in T
  <2>1. T \in SUBSET (a.w .. box.x + box.w - a.x) /\ T # {} /\ a.w \in Int /\ box.x + box.w - a.x \in Int
    BY <1>1, <1>4
  <2> HIDE DEF T
  <2> QED
    BY <2>1, Extremes
<1>6. Right(scene, box, a, c) = [a EXCEPT !.w = m]
  BY DEF Right
<1>7. m \in a.w .. box.x + box.w - a.x /\ AllOf(scene, Box(a.x, a.y, m, a.h), c)
  BY <1>3, <1>5
<1> HIDE DEF m
<1>8. m \in Nat \ {0} /\ a.x + m <= box.x + box.w
  BY <1>1, <1>7
<1>9. Box(a.x, a.y, m, a.h) \in Rectangle /\ Inside(Box(a.x, a.y, m, a.h), box)
  <2>1. /\ box.x <= a.x /\ a.x + a.w <= box.x + box.w
        /\ box.y <= a.y /\ a.y + a.h <= box.y + box.h
    BY <1>2 DEF Inside
  <2> QED
    BY <1>1, <2>1, <1>8, IsInside
<1> QED
  BY <1>3, <1>6, <1>7, <1>9 DEF AreaOf

LEMMA ExtendIs ==
  ASSUME NEW scene, NEW c, NEW box \in Rectangle, NEW a, AreaOf(scene, box, c, a)
  PROVE  AreaOf(scene, box, c, ExtendSolidArea(scene, box, a, c))
<1>1. AreaOf(scene, box, c, Up(scene, box, a, c))
  BY UpIs
<1>2. AreaOf(scene, box, c, Down(scene, box, Up(scene, box, a, c), c))
  BY <1>1, DownIs
<1>3. AreaOf(scene, box, c, Left(scene, box, Down(scene, box, Up(scene, box, a, c), c), c))
  BY <1>2, LeftIs
<1> QED
  BY <1>3, RightIs DEF ExtendSolidArea

\* The areas of one colour within a rectangle.
SolidOf(scene, box) == {a \in Rectangle : Inside(a, box) /\ \E c : AllOf(scene, a, c)}

LEMMA BeginningIs ==
  ASSUME NEW scene, NEW box \in Rectangle, NEW x \in Nat, NEW y \in Nat,
         box.x <= x, x < box.x + box.w, box.y <= y, y < box.y + box.h
  PROVE  Beginning(scene, box, y, x) \in Seq(SolidOf(scene, box))
<1> DEFINE c == scene[<<x, y>>]
           w == box.x + box.w - x
           h == box.y + box.h - y
           best == FindBestSolidArea(scene, Box(x, y, w, h), c)
           Large == best.w * best.h = box.w * box.h \/ best.w * best.h >= MinSolidSubrectSize
           tile == Box(x, y, Min({MaxSplitTileSize, w}), Min({MaxSplitTileSize, h}))
<1>1. box.x \in Nat /\ box.y \in Nat /\ box.w \in Nat \ {0} /\ box.h \in Nat \ {0}
  BY Boxes
<1>2. w \in Nat \ {0} /\ h \in Nat \ {0} /\ x + w = box.x + box.w /\ y + h = box.y + box.h
  BY <1>1
<1>3. Beginning(scene, box, y, x) =
        IF OneColour(scene, tile) /\ Large THEN <<ExtendSolidArea(scene, box, best, c)>> ELSE <<>>
  BY DEF Beginning
<1> HIDE DEF c, w, h, tile
<1>4. /\ best.x = x /\ best.y = y /\ best.w \in 0 .. w /\ best.h \in 0 .. h
      /\ best = Box(best.x, best.y, best.w, best.h) /\ AllOf(scene, best, c)
  <2> DEFINE b == Box(x, y, w, h)
  <2>1. b \in Rectangle /\ b.x = x /\ b.y = y /\ b.w = w /\ b.h = h
    BY <1>2 DEF Box, Rectangle
  <2> HIDE DEF b
  <2>2. LET best2 == FindBestSolidArea(scene, b, c)
        IN /\ best2.x = b.x /\ best2.y = b.y /\ best2.w \in 0 .. b.w /\ best2.h \in 0 .. b.h
           /\ best2 = Box(b.x, b.y, best2.w, best2.h) /\ AllOf(scene, best2, c)
    BY <2>1, BestIsFound
  <2> QED
    BY <2>1, <2>2 DEF b
<1> HIDE DEF best
<1>5. CASE Large
  <2>1. best.w \in Nat \ {0} /\ best.h \in Nat \ {0}
    <3>1. best.w * best.h # 0
      <4>1. box.w * box.h > 0 /\ box.w * box.h \in Nat
        BY <1>1
      <4>2. MinSolidSubrectSize > 0 /\ MinSolidSubrectSize \in Nat
        BY RectanglesAssumption
      <4> QED
        BY <1>5, <4>1, <4>2
    <3>2. best.w \in Nat /\ best.h \in Nat
      BY <1>2, <1>4
    <3> QED
      BY <3>1, <3>2
  <2>2. best.w <= w /\ best.h <= h
    BY <1>2, <1>4
  <2>3. x + best.w <= box.x + box.w /\ y + best.h <= box.y + box.h
    BY <1>1, <1>2, <2>1, <2>2
  <2>4. Box(x, y, best.w, best.h) \in Rectangle /\ Inside(Box(x, y, best.w, best.h), box)
    BY <2>1, <2>3, IsInside
  <2>5. AreaOf(scene, box, c, best)
    BY <1>4, <2>4 DEF AreaOf
  <2>6. AreaOf(scene, box, c, ExtendSolidArea(scene, box, best, c))
    BY <2>5, ExtendIs
  <2>7. ExtendSolidArea(scene, box, best, c) \in SolidOf(scene, box)
    BY <2>6 DEF AreaOf, SolidOf
  <2> DEFINE S == SolidOf(scene, box)
             a == ExtendSolidArea(scene, box, best, c)
  <2> HIDE DEF S, a, Large
  <2>8. a \in S
    BY <2>7 DEF S, a
  <2>9. <<a>> \in Seq(S) /\ <<>> \in Seq(S)
    BY <2>8
  <2> QED
    BY <1>3, <2>9 DEF S, a
<1>6. CASE ~Large
  <2>1. Beginning(scene, box, y, x) = <<>>
    BY <1>3, <1>6
  <2> QED
    BY <2>1, EmptySeq
<1> QED
  BY <1>5, <1>6

LEMMA FlattenedIsSeq ==
  ASSUME NEW S, NEW seqs \in Seq(Seq(S))
  PROVE  FlattenSeq(seqs) \in Seq(S)
<1>1. CASE seqs = <<>>
  <2>1. Len(seqs) = 0
    BY <1>1
  <2> QED
    BY <1>1, <2>1, EmptySeq DEF FlattenSeq
<1>2. CASE seqs # <<>>
  <2>1. PICK f \in [1 .. Len(seqs) -> Seq(S)] : FlattenSeq(seqs) = f[Len(seqs)]
    BY <1>2, FlattenedStepwise
  <2>2. Len(seqs) \in Nat /\ Len(seqs) # 0
    BY <1>2, EmptySeq, LenProperties
  <2>3. Len(seqs) \in 1 .. Len(seqs)
    BY <2>2
  <2> QED
    BY <2>1, <2>3
<1> QED
  BY <1>1, <1>2

LEMMA SolidAreasAre ==
  ASSUME NEW scene, NEW box \in Rectangle, NEW y \in Nat, box.y <= y, y < box.y + box.h
  PROVE  SolidAreas(scene, box, y) \in Seq(SolidOf(scene, box))
<1> DEFINE tiles == Cuts(box.w, MaxSplitTileSize)
           k == Pieces(box.w, MaxSplitTileSize)
           S == SolidOf(scene, box)
           seqs == [i \in DOMAIN tiles |-> Beginning(scene, box, y, box.x + tiles[i].at)]
<1>1. box.x \in Nat /\ box.y \in Nat /\ box.w \in Nat \ {0} /\ box.h \in Nat \ {0} /\ MaxSplitTileSize \in Nat \ {0}
  BY Boxes, RectanglesAssumption
<1>2. /\ k \in Nat \ {0} /\ DOMAIN tiles = 1 .. k
      /\ \A i \in 1 .. k :
           /\ tiles[i].at \in Nat /\ tiles[i].len \in Nat \ {0}
           /\ tiles[i].at + tiles[i].len <= box.w
  BY <1>1, CutsMake
<1>3. SolidAreas(scene, box, y) = FlattenSeq(seqs)
  BY DEF SolidAreas
<1> HIDE DEF tiles, k
<1>4. \A i \in 1 .. k : Beginning(scene, box, y, box.x + tiles[i].at) \in Seq(S)
  <2> SUFFICES ASSUME NEW i \in 1 .. k
               PROVE  Beginning(scene, box, y, box.x + tiles[i].at) \in Seq(S)
    OBVIOUS
  <2> DEFINE x == box.x + tiles[i].at
  <2>1. x \in Nat /\ box.x <= x /\ x < box.x + box.w
    <3> DEFINE at == tiles[i].at
               len == tiles[i].len
    <3>1. at \in Nat /\ len \in Nat \ {0} /\ at + len <= box.w
      BY <1>2
    <3> HIDE DEF at, len, seqs, S
    <3>2. box.x + at \in Nat /\ box.x <= box.x + at /\ box.x + at < box.x + box.w
      BY <1>1, <3>1
    <3> QED
      BY <3>2 DEF at
  <2> HIDE DEF x
  <2>2. Beginning(scene, box, y, x) \in Seq(SolidOf(scene, box))
    BY <2>1, BeginningIs
  <2> QED
    BY <2>2 DEF x
<1>5. seqs \in [1 .. k -> Seq(S)]
  BY <1>2, <1>4
<1> HIDE DEF seqs, S
<1>6. seqs \in Seq(Seq(S))
  BY <1>2, <1>5, IsSequence
<1>7. FlattenSeq(seqs) \in Seq(S)
  BY <1>6, FlattenedIsSeq
<1> QED
  BY <1>3, <1>7 DEF S

\* An area of one colour is a part that may be sent as one.
LEMMA SolidIsGood ==
  ASSUME NEW u, u.encoding = "tight", NEW box \in Rectangle, NEW a \in SolidOf(u.scene, box)
  PROVE  Part(a, TRUE) \in GoodParts(u) /\ OneColour(u.scene, a)
<1>1. a \in Rectangle /\ \E c : AllOf(u.scene, a, c)
  BY DEF SolidOf
<1>2. PICK c : AllOf(u.scene, a, c)
  BY <1>1
<1>3. OneColour(u.scene, a)
  <2>1. /\ a = Box(a.x, a.y, a.w, a.h) /\ a.x \in Nat /\ a.y \in Nat
        /\ a.w \in Nat \ {0} /\ a.h \in Nat \ {0}
    BY <1>1, Boxes
  <2> DEFINE p == <<a.x, a.y>>
  <2>2. p \in Pixels(a)
    <3>1. p \in Int \X Int /\ p[1] = a.x /\ p[2] = a.y
      BY <2>1
    <3>2. a.x <= p[1] /\ p[1] < a.x + a.w /\ a.y <= p[2] /\ p[2] < a.y + a.h
      BY <2>1, <3>1
    <3> HIDE DEF p
    <3>3. p \in Pixels(Box(a.x, a.y, a.w, a.h))
      BY <2>1, <3>1, <3>2, InPixels
    <3> QED
      BY <2>1, <3>3
  <2>3. \A q \in Pixels(a) : u.scene[q] = c
    BY <1>2, Colours
  <2> HIDE DEF p
  <2>4. {u.scene[q] : q \in Pixels(a)} = {c}
    BY <2>2, <2>3
  <2> QED
    BY <2>4, FS_Singleton DEF OneColour
<1>4. Allowed(u, Part(a, TRUE))
  <2>1. Part(a, TRUE).solid
    BY Parts
  <2>2. u.encoding # "corre" /\ u.encoding # "zlib"
    OBVIOUS
  <2> QED
    BY <2>1, <2>2 DEF Allowed
<1>5. Part(a, TRUE) \in [box : Rectangle, solid : BOOLEAN] /\ Part(a, TRUE).box = a
  BY <1>1 DEF Part
<1> QED
  BY <1>3, <1>4, <1>5 DEF GoodParts

-----------------------------------------------------------------------------
(* What tight sends for a rectangle in which it does not search.           *)

LEMMA LevelsAre ==
  ASSUME NEW level \in Levels
  PROVE  /\ level.maxRectSize \in Nat /\ level.maxRectWidth \in Nat \ {0}
         /\ level.maxRectWidth <= level.maxRectSize
<1>1. level \in [maxRectSize : Nat, maxRectWidth : Nat \ {0}] /\ level.maxRectSize >= level.maxRectWidth
  BY RectanglesAssumption
<1> QED
  BY <1>1

LEMMA RowsAre ==
  ASSUME NEW level \in Levels, NEW w \in Nat \ {0}
  PROVE  /\ SubrectMaxWidth(w, level) = (IF level.maxRectWidth <= w THEN level.maxRectWidth ELSE w)
         /\ SubrectMaxWidth(w, level) \in Nat \ {0}
         /\ SubrectMaxHeight(w, level) \in Nat \ {0}
         /\ SubrectMaxHeight(w, level) * SubrectMaxWidth(w, level) <= level.maxRectSize
<1> DEFINE s == SubrectMaxWidth(w, level)
           h == SubrectMaxHeight(w, level)
<1>1. /\ level.maxRectSize \in Nat /\ level.maxRectWidth \in Nat \ {0}
      /\ level.maxRectWidth <= level.maxRectSize
  BY LevelsAre
<1>2. s = IF w <= level.maxRectWidth THEN w ELSE level.maxRectWidth
  <2>1. w \in Int /\ level.maxRectWidth \in Int
    BY <1>1
  <2> QED
    BY <2>1, MinOfTwo DEF SubrectMaxWidth
<1>3. s \in Nat \ {0} /\ s <= level.maxRectSize /\ s = IF level.maxRectWidth <= w THEN level.maxRectWidth ELSE w
  BY <1>1, <1>2
<1>4. h = level.maxRectSize \div s
  BY DEF SubrectMaxHeight
<1> HIDE DEF s, h
<1>5. h \in Int
  BY <1>1, <1>3, <1>4, Quotient
<1>6. 1 <= h <=> 1 * s <= level.maxRectSize
  BY <1>1, <1>3, <1>4, QuotientIsLeast
<1>7. h <= h <=> h * s <= level.maxRectSize
  BY <1>1, <1>3, <1>4, <1>5, QuotientIsLeast
<1>8. 1 <= h /\ h * s <= level.maxRectSize
  BY <1>3, <1>5, <1>6, <1>7
<1>9. h \in Nat \ {0}
  BY <1>5, <1>8
<1> QED
  BY <1>3, <1>8, <1>9 DEF s, h

LEMMA SmallIsGood ==
  ASSUME NEW u, u.encoding = "tight", NEW b \in Rectangle, ~TooLarge(b, u.level)
  PROVE  Part(b, FALSE) \in GoodParts(u)
<1>1. Part(b, FALSE) \in [box : Rectangle, solid : BOOLEAN] /\ Part(b, FALSE).box = b /\ ~Part(b, FALSE).solid
  BY DEF Part
<1>2. u.encoding # "corre" /\ u.encoding # "zlib"
  OBVIOUS
<1>3. Allowed(u, Part(b, FALSE))
  BY <1>1, <1>2 DEF Allowed
<1> QED
  BY <1>1, <1>3 DEF GoodParts

LEMMA SimpleMakes ==
  ASSUME NEW u, u.encoding = "tight", u.level \in Levels, NEW box \in Rectangle
  PROVE  /\ Makes(SendRectSimple(box, u.level), u, Pixels(box))
         /\ Len(SendRectSimple(box, u.level)) =
              IF TooLarge(box, u.level)
              THEN Pieces(box.w, u.level.maxRectWidth) * Pieces(box.h, SubrectMaxHeight(box.w, u.level))
              ELSE 1
<1> DEFINE mw == u.level.maxRectWidth
           mh == SubrectMaxHeight(box.w, u.level)
           s == SubrectMaxWidth(box.w, u.level)
           size == u.level.maxRectSize
<1>1. box.x \in Nat /\ box.y \in Nat /\ box.w \in Nat \ {0} /\ box.h \in Nat \ {0}
  BY Boxes
<1>2. size \in Nat /\ mw \in Nat \ {0}
  BY LevelsAre
<1>3. /\ s = (IF mw <= box.w THEN mw ELSE box.w)
      /\ s \in Nat \ {0} /\ mh \in Nat \ {0} /\ mh * s <= size
  BY <1>1, RowsAre
<1>4. CASE ~TooLarge(box, u.level)
  <2>1. SendRectSimple(box, u.level) = <<Part(box, FALSE)>>
    BY <1>4 DEF SendRectSimple
  <2>2. Part(box, FALSE) \in GoodParts(u) /\ Part(box, FALSE).box = box
    BY <1>4, SmallIsGood, Parts
  <2>3. Makes(<<Part(box, FALSE)>>, u, Pixels(Part(box, FALSE).box)) /\ Len(<<Part(box, FALSE)>>) = 1
    BY <2>2, OneMakes
  <2> QED
    BY <1>4, <2>1, <2>2, <2>3
<1>5. CASE TooLarge(box, u.level)
  <2>1. SendRectSimple(box, u.level) = Grid(box, mw, mh)
    BY <1>5 DEF SendRectSimple
  <2>2. Fits(u, IF mw <= box.w THEN mw ELSE box.w, IF mh <= box.h THEN mh ELSE box.h)
    <3> DEFINE m == IF mh <= box.h THEN mh ELSE box.h
    <3>1. m \in Nat /\ m <= mh
      BY <1>1, <1>3
    <3> HIDE DEF m, s, mh
    <3>2. ASSUME NEW b \in Rectangle, b.w <= s, b.h <= m
          PROVE  Part(b, FALSE) \in GoodParts(u)
      <4>1. b.w \in Nat /\ b.h \in Nat
        BY Boxes
      <4>2. b.w * b.h <= size /\ b.w <= mw
        <5>1. b.h <= mh /\ b.h * b.w <= mh * b.w
          BY <1>3, <3>1, <3>2, <4>1, Times
        <5>2. b.w * mh <= s * mh
          BY <1>3, <3>2, <4>1, Times
        <5>3. b.h * b.w = b.w * b.h /\ mh * b.w = b.w * mh /\ s * mh = mh * s
              /\ b.w * b.h \in Int /\ b.w * mh \in Int /\ mh * s \in Int
          BY <1>3, <4>1
        <5>4. b.w * b.h <= size
          BY <1>2, <1>3, <5>1, <5>2, <5>3
        <5> QED
          BY <1>1, <1>2, <1>3, <3>2, <4>1, <5>4
      <4>3. ~TooLarge(b, u.level)
        <5>1. b.w * b.h \in Int
          BY <4>1
        <5> QED
          BY <1>2, <4>1, <4>2, <5>1 DEF TooLarge
      <4> QED
        BY <4>3, SmallIsGood
    <3>3. Fits(u, s, m)
      BY <3>2 DEF Fits
    <3> QED
      BY <1>3, <3>3 DEF m
  <2> HIDE DEF mw, mh
  <2>3. /\ Makes(Grid(box, mw, mh), u, Pixels(box))
        /\ Len(Grid(box, mw, mh)) = Pieces(box.w, mw) * Pieces(box.h, mh)
    BY <1>2, <1>3, <2>2, GridMakes
  <2> QED
    BY <1>5, <2>1, <2>3 DEF mw, mh
<1> QED
  BY <1>4, <1>5

-----------------------------------------------------------------------------
(* The rectangles around a solid area, and that the search comes to an end. *)

\* What is left to do for a rectangle of which some rows have been looked at.
Place == Rectangle \X Nat

Rank(at) ==
  LET s == at[1].w + at[1].h
  IN s * (s + 1) + (IF at[2] < at[1].h THEN at[1].h - at[2] ELSE 0)

LEMMA RankIs == \A at \in Place : Rank(at) \in Nat
<1> SUFFICES ASSUME NEW at \in Place PROVE Rank(at) \in Nat
  OBVIOUS
<1>1. at[1] \in Rectangle /\ at[2] \in Nat
  BY DEF Place
<1>2. at[1].w \in Nat /\ at[1].h \in Nat
  BY <1>1, Boxes
<1> DEFINE s == at[1].w + at[1].h
<1>3. s \in Nat /\ s * (s + 1) \in Nat
  BY <1>2
<1>4. (IF at[2] < at[1].h THEN at[1].h - at[2] ELSE 0) \in Nat
  BY <1>1, <1>2
<1> HIDE DEF s
<1>5. Rank(at) = s * (s + 1) + (IF at[2] < at[1].h THEN at[1].h - at[2] ELSE 0)
  BY DEF Rank, s
<1> QED
  BY <1>3, <1>4, <1>5

LEMMA SmallerIsLess ==
  ASSUME NEW b \in Rectangle, NEW box \in Rectangle, NEW r \in Nat, NEW rows \in Nat,
         b.w + b.h < box.w + box.h
  PROVE  Rank(<<b, r>>) < Rank(<<box, rows>>)
<1> DEFINE s == b.w + b.h
           t == box.w + box.h
           l == IF r < b.h THEN b.h - r ELSE 0
           m == IF rows < box.h THEN box.h - rows ELSE 0
<1>1. b.w \in Nat \ {0} /\ b.h \in Nat \ {0} /\ box.w \in Nat \ {0} /\ box.h \in Nat \ {0}
  BY Boxes
<1>2. s \in Nat /\ t \in Nat /\ s + 1 <= t /\ l \in Nat /\ m \in Nat /\ l <= s
  BY <1>1
<1>3. Rank(<<b, r>>) = s * (s + 1) + l /\ Rank(<<box, rows>>) = t * (t + 1) + m
  BY DEF Rank
<1> HIDE DEF s, t, l, m
<1>4. (s + 1) * (t + 1) <= t * (t + 1) /\ (s + 1) * (t + 1) \in Int /\ t * (t + 1) \in Int
  <2>1. s + 1 \in Int /\ t \in Int /\ t + 1 \in Nat
    BY <1>2
  <2> QED
    BY <1>2, <2>1, Times
<1>5. (s + 1) * (s + 1) <= (t + 1) * (s + 1) /\ (s + 1) * (s + 1) \in Int
  <2>1. s + 1 \in Nat /\ t + 1 \in Int /\ s + 1 <= t + 1
    BY <1>2
  <2> QED
    BY <2>1, Times
<1>6. (t + 1) * (s + 1) = (s + 1) * (t + 1)
  BY <1>2
<1>7. (s + 1) * (s + 1) = s * (s + 1) + s + 1 /\ s * (s + 1) \in Int
  BY <1>2
<1> QED
  BY <1>2, <1>3, <1>4, <1>5, <1>6, <1>7

LEMMA LaterIsLess ==
  ASSUME NEW box \in Rectangle, NEW r \in Nat, NEW rows \in Nat, rows < box.h, rows < r
  PROVE  Rank(<<box, r>>) < Rank(<<box, rows>>)
<1> DEFINE s == box.w + box.h
           l == IF r < box.h THEN box.h - r ELSE 0
           m == IF rows < box.h THEN box.h - rows ELSE 0
<1>1. box.w \in Nat \ {0} /\ box.h \in Nat \ {0}
  BY Boxes
<1>2. s * (s + 1) \in Int /\ l < m /\ l \in Int /\ m \in Int
  BY <1>1
<1>3. Rank(<<box, r>>) = s * (s + 1) + l /\ Rank(<<box, rows>>) = s * (s + 1) + m
  BY DEF Rank
<1> HIDE DEF s, l, m
<1> QED
  BY <1>2, <1>3

\* Of a solid area: what is to the left and to the right of it, above and below, is
\* smaller than the whole.
LEMMA AroundIs ==
  ASSUME NEW scene, NEW box \in Rectangle, NEW a \in SolidOf(scene, box)
  PROVE  /\ a \in Rectangle /\ Inside(a, box)
         /\ a.x \in Nat /\ a.y \in Nat /\ a.w \in Nat \ {0} /\ a.h \in Nat \ {0}
         /\ a.x - box.x \in Nat /\ box.x + box.w - a.x - a.w \in Nat
         /\ a.y - box.y \in Nat /\ box.y + box.h - a.y - a.h \in Nat
         /\ a.x + a.w \in Nat /\ a.y + a.h \in Nat
         /\ (a.x - box.x) + a.h < box.w + box.h
         /\ (box.x + box.w - a.x - a.w) + a.h < box.w + box.h
         /\ box.w + (box.y + box.h - a.y - a.h) < box.w + box.h
<1>1. a \in Rectangle /\ Inside(a, box)
  BY DEF SolidOf
<1>2. /\ a.x \in Nat /\ a.y \in Nat /\ a.w \in Nat \ {0} /\ a.h \in Nat \ {0}
      /\ box.x \in Nat /\ box.y \in Nat /\ box.w \in Nat \ {0} /\ box.h \in Nat \ {0}
  BY <1>1, Boxes
<1>3. /\ box.x <= a.x /\ a.x + a.w <= box.x + box.w
      /\ box.y <= a.y /\ a.y + a.h <= box.y + box.h
  BY <1>1 DEF Inside
<1> QED
  BY <1>1, <1>2, <1>3

Beside(u, from, x, y, w, h) == IF w = 0 \/ h = 0 THEN <<>> ELSE OrSimple(u, from, Box(x, y, w, h))

Above(u, box, a) == IF a.y = box.y THEN <<>> ELSE SendRectSimple([box EXCEPT !.h = a.y - box.y], u.level)

LEMMA AroundHas ==
  ASSUME NEW u, NEW from, NEW box, NEW a
  PROVE  Around(u, from, box, a) =
           Above(u, box, a)
             \o Beside(u, from, box.x, a.y, a.x - box.x, a.h)
             \o <<Part(a, TRUE)>>
             \o Beside(u, from, a.x + a.w, a.y, box.x + box.w - a.x - a.w, a.h)
             \o Beside(u, from, box.x, a.y + a.h, box.w, box.y + box.h - a.y - a.h)
BY DEF Around, Above, Beside

\* Two accounts of what is sent that are the same for whatever is less.
Agree(f, g, at) == \A b \in Place : Rank(b) < Rank(at) => f[b] = g[b]

LEMMA BesideAgrees ==
  ASSUME NEW u, NEW f, NEW g, NEW box \in Rectangle, NEW rows \in Nat, Agree(f, g, <<box, rows>>),
         NEW x \in Nat, NEW y \in Nat, NEW w \in Nat, NEW h \in Nat, w + h < box.w + box.h
  PROVE  Beside(u, f, x, y, w, h) = Beside(u, g, x, y, w, h)
<1>1. CASE w = 0 \/ h = 0
  BY <1>1 DEF Beside
<1>2. CASE ~(w = 0 \/ h = 0)
  <2> DEFINE b == Box(x, y, w, h)
  <2>1. b \in Rectangle /\ b.w = w /\ b.h = h
    BY <1>2 DEF Box, Rectangle
  <2> HIDE DEF b
  <2>2. <<b, 0>> \in Place
    BY <2>1 DEF Place
  <2>3. Rank(<<b, 0>>) < Rank(<<box, rows>>)
    <3>1. b.w + b.h < box.w + box.h /\ 0 \in Nat
      BY <2>1
    <3> QED
      BY <2>1, <3>1, SmallerIsLess
  <2>4. f[<<b, 0>>] = g[<<b, 0>>]
    BY <2>2, <2>3 DEF Agree
  <2>5. OrSimple(u, f, b) = OrSimple(u, g, b)
    BY <2>4 DEF OrSimple
  <2> QED
    BY <1>2, <2>5 DEF Beside, b
<1> QED
  BY <1>1, <1>2

LEMMA AroundAgrees ==
  ASSUME NEW u, NEW f, NEW g, NEW box \in Rectangle, NEW rows \in Nat, Agree(f, g, <<box, rows>>),
         NEW rest \in Rectangle, rest.w + rest.h <= box.w + box.h,
         NEW scene, NEW a \in SolidOf(scene, rest)
  PROVE  Around(u, f, rest, a) = Around(u, g, rest, a)
<1> DEFINE l == a.x - rest.x
           r == rest.x + rest.w - a.x - a.w
           d == rest.y + rest.h - a.y - a.h
           ax == a.x + a.w
           ay == a.y + a.h
<1>1. /\ a.x \in Nat /\ a.y \in Nat /\ a.w \in Nat \ {0} /\ a.h \in Nat \ {0}
      /\ l \in Nat /\ r \in Nat /\ d \in Nat /\ ax \in Nat /\ ay \in Nat
      /\ l + a.h < rest.w + rest.h /\ r + a.h < rest.w + rest.h /\ rest.w + d < rest.w + rest.h
  BY AroundIs
<1>2. /\ rest.x \in Nat /\ rest.y \in Nat /\ rest.w \in Nat /\ rest.h \in Nat
      /\ box.w \in Nat /\ box.h \in Nat
  BY Boxes
<1>3. \A e : Around(u, e, rest, a) =
           Above(u, rest, a) \o Beside(u, e, rest.x, a.y, l, a.h) \o <<Part(a, TRUE)>>
             \o Beside(u, e, ax, a.y, r, a.h) \o Beside(u, e, rest.x, ay, rest.w, d)
  BY AroundHas
<1> HIDE DEF l, r, d, ax, ay
<1>4. l + a.h < box.w + box.h /\ r + a.h < box.w + box.h /\ rest.w + d < box.w + box.h
  BY <1>1, <1>2
<1>5. Beside(u, f, rest.x, a.y, l, a.h) = Beside(u, g, rest.x, a.y, l, a.h)
  BY <1>1, <1>2, <1>4, BesideAgrees
<1>6. Beside(u, f, ax, a.y, r, a.h) = Beside(u, g, ax, a.y, r, a.h)
  BY <1>1, <1>2, <1>4, BesideAgrees
<1>7. Beside(u, f, rest.x, ay, rest.w, d) = Beside(u, g, rest.x, ay, rest.w, d)
  BY <1>1, <1>2, <1>4, BesideAgrees
<1> QED
  BY <1>3, <1>5, <1>6, <1>7, Zenon

\* What is left after the upper part has been sent early, if it has.
Rest(u, box, rows) ==
  IF rows >= SubrectMaxHeight(box.w, u.level) THEN Below(box, SubrectMaxHeight(box.w, u.level)) ELSE box

Early(u, box, rows) ==
  IF rows >= SubrectMaxHeight(box.w, u.level)
  THEN SendRectSimple([box EXCEPT !.h = SubrectMaxHeight(box.w, u.level)], u.level) ELSE <<>>

Next(u, box, rows) == <<Rest(u, box, rows), box.y + rows + MaxSplitTileSize - Rest(u, box, rows).y>>

LEMMA BandHas ==
  ASSUME NEW u, NEW from, NEW box, NEW rows
  PROVE  FromBand(u, from, box, rows) =
           IF rows >= box.h THEN SendRectSimple(box, u.level)
           ELSE LET solid == SolidAreas(u.scene, Rest(u, box, rows), box.y + rows)
                IN Early(u, box, rows)
                     \o (IF solid # <<>> THEN Around(u, from, Rest(u, box, rows), Head(solid))
                         ELSE from[Next(u, box, rows)])
BY DEF FromBand, Rest, Early, Next

LEMMA RestIs ==
  ASSUME NEW u, u.level \in Levels, NEW box \in Rectangle, NEW rows \in Nat, rows < box.h
  PROVE  LET rest == Rest(u, box, rows)
         IN /\ rest \in Rectangle /\ rest.x = box.x /\ rest.w = box.w
            /\ rest.y + rest.h = box.y + box.h /\ box.y <= rest.y
            /\ rest.y <= box.y + rows /\ box.y + rows < rest.y + rest.h
            /\ rest.w + rest.h <= box.w + box.h
            /\ Next(u, box, rows) \in Place /\ Rank(Next(u, box, rows)) < Rank(<<box, rows>>)
<1> DEFINE m == SubrectMaxHeight(box.w, u.level)
           rest == Rest(u, box, rows)
           dy == box.y + rows + MaxSplitTileSize - rest.y
<1>1. box.x \in Nat /\ box.y \in Nat /\ box.w \in Nat \ {0} /\ box.h \in Nat \ {0}
  BY Boxes
<1>2. m \in Nat \ {0} /\ MaxSplitTileSize \in Nat \ {0}
  BY <1>1, RowsAre, RectanglesAssumption
<1>3. rest = IF rows >= m THEN Below(box, m) ELSE box
  BY DEF Rest
<1>0. Next(u, box, rows) = <<rest, dy>>
  BY DEF Next
<1> HIDE DEF m, rest
<1>4. CASE rows >= m
  <2>1. rest = [box EXCEPT !.y = @ + m, !.h = @ - m]
    BY <1>3, <1>4 DEF Below
  <2>2. rest.x = box.x /\ rest.w = box.w /\ rest.y = box.y + m /\ rest.h = box.h - m
        /\ rest = [x |-> box.x, y |-> box.y + m, w |-> box.w, h |-> box.h - m]
    BY <2>1 DEF Rectangle
  <2>3. box.h - m \in Nat \ {0} /\ box.y + m \in Nat
    BY <1>1, <1>2, <1>4
  <2>4. rest \in Rectangle
    BY <1>1, <2>2, <2>3 DEF Rectangle
  <2>5. dy \in Nat /\ rest.w + rest.h < box.w + box.h
    BY <1>1, <1>2, <1>4, <2>2, <2>3
  <2> HIDE DEF dy
  <2>6. Rank(<<rest, dy>>) < Rank(<<box, rows>>)
    BY <2>4, <2>5, SmallerIsLess
  <2>7. <<rest, dy>> \in Place
    BY <2>4, <2>5 DEF Place
  <2>8. /\ rest.y + rest.h = box.y + box.h /\ box.y <= rest.y
        /\ rest.y <= box.y + rows /\ box.y + rows < rest.y + rest.h
        /\ rest.w + rest.h <= box.w + box.h
    BY <1>1, <1>2, <1>4, <2>2, <2>3
  <2> QED
    BY <1>0, <2>2, <2>4, <2>6, <2>7, <2>8 DEF rest
<1>5. CASE ~(rows >= m)
  <2>1. rest = box
    BY <1>3, <1>5
  <2>2. dy \in Nat /\ rows < dy
    BY <1>1, <1>2, <2>1
  <2> HIDE DEF dy
  <2>3. Rank(<<box, dy>>) < Rank(<<box, rows>>)
    BY <2>2, LaterIsLess
  <2>4. <<box, dy>> \in Place
    BY <2>2 DEF Place
  <2>5. /\ box.y <= box.y + rows /\ box.y + rows < box.y + box.h /\ box.w + box.h <= box.w + box.h
        /\ box.y <= box.y
    BY <1>1
  <2> QED
    BY <1>0, <2>1, <2>3, <2>4, <2>5 DEF rest
<1> QED
  BY <1>4, <1>5

\* A solid area that the search finds.
LEMMA FirstSolid ==
  ASSUME NEW u, u.level \in Levels, NEW box \in Rectangle, NEW rows \in Nat, rows < box.h
  PROVE  LET rest == Rest(u, box, rows)
             solid == SolidAreas(u.scene, rest, box.y + rows)
         IN solid # <<>> => Head(solid) \in SolidOf(u.scene, rest)
<1> DEFINE rest == Rest(u, box, rows)
           y == box.y + rows
           S == SolidOf(u.scene, rest)
           solid == SolidAreas(u.scene, rest, y)
<1>1. rest \in Rectangle /\ rest.y <= y /\ y < rest.y + rest.h
  BY RestIs
<1>2. y \in Nat
  BY Boxes
<1> HIDE DEF rest, y
<1>3. solid \in Seq(S)
  BY <1>1, <1>2, SolidAreasAre
<1> HIDE DEF solid, S
<1>4. solid # <<>> => Head(solid) \in S
  BY <1>3, HeadTailProperties
<1> QED
  BY <1>4 DEF solid, S, rest, y

LEMMA BandAgrees ==
  ASSUME NEW u, u.level \in Levels, NEW f, NEW g, NEW box \in Rectangle, NEW rows \in Nat,
         Agree(f, g, <<box, rows>>)
  PROVE  FromBand(u, f, box, rows) = FromBand(u, g, box, rows)
<1> DEFINE rest == Rest(u, box, rows)
           solid == SolidAreas(u.scene, rest, box.y + rows)
<1>1. CASE rows >= box.h
  <2>1. \A e : FromBand(u, e, box, rows) = SendRectSimple(box, u.level)
    BY <1>1, BandHas
  <2> QED
    BY <2>1
<1>2. CASE ~(rows >= box.h)
  <2>0. rows < box.h
    <3>1. box.h \in Nat
      BY Boxes
    <3> QED
      BY <1>2, <3>1
  <2>1. \A e : FromBand(u, e, box, rows) =
                 Early(u, box, rows) \o (IF solid # <<>> THEN Around(u, e, rest, Head(solid)) ELSE e[Next(u, box, rows)])
    BY <1>2, BandHas
  <2>2. /\ rest \in Rectangle /\ rest.w + rest.h <= box.w + box.h
        /\ Next(u, box, rows) \in Place /\ Rank(Next(u, box, rows)) < Rank(<<box, rows>>)
    BY <2>0, RestIs
  <2>3. solid # <<>> => Head(solid) \in SolidOf(u.scene, rest)
    BY <2>0, FirstSolid
  <2> HIDE DEF rest, solid
  <2>4. CASE solid # <<>>
    <3>1. Around(u, f, rest, Head(solid)) = Around(u, g, rest, Head(solid))
      BY <2>2, <2>3, <2>4, AroundAgrees
    <3> QED
      BY <2>1, <2>4, <3>1
  <2>5. CASE solid = <<>>
    <3>1. f[Next(u, box, rows)] = g[Next(u, box, rows)]
      BY <2>2 DEF Agree
    <3> QED
      BY <2>1, <2>5, <3>1
  <2> QED
    BY <2>4, <2>5
<1> QED
  BY <1>1, <1>2

\* An account of what is sent from each place of a rank below n on.
Knows(u, f, n) == \A at \in Place : Rank(at) < n => f[at] = FromBand(u, f, at[1], at[2])

LEMMA PlaceIs ==
  \A at \in Place : at[1] \in Rectangle /\ at[2] \in Nat /\ at = <<at[1], at[2]>>
BY DEF Place

LEMMA OneAccount ==
  ASSUME NEW u, u.level \in Levels, NEW n \in Nat, NEW f, NEW g, Knows(u, f, n), Knows(u, g, n)
  PROVE  \A at \in Place : Rank(at) < n => f[at] = g[at]
<1> DEFINE W == {at \in Place : Rank(at) < n /\ f[at] # g[at]}
           T == {Rank(at) : at \in W}
<1> SUFFICES ASSUME W # {} PROVE FALSE
  OBVIOUS
<1>1. T \in SUBSET Nat /\ T # {}
  BY RankIs
<1> HIDE DEF T
<1>2. PICK m \in T : \A k \in T : m <= k
  BY <1>1, Least
<1>3. PICK at \in W : Rank(at) = m
  BY DEF T
<1>4. \A b \in W : Rank(at) <= Rank(b)
  BY <1>2, <1>3 DEF T
<1>5. at \in Place /\ Rank(at) < n /\ f[at] # g[at]
  OBVIOUS
<1>6. Agree(f, g, at)
  <2> SUFFICES ASSUME NEW b \in Place, Rank(b) < Rank(at) PROVE f[b] = g[b]
    BY DEF Agree
  <2>1. Rank(b) \in Nat /\ Rank(at) \in Nat
    BY <1>5, RankIs
  <2>2. Rank(b) < n /\ b \notin W
    BY <1>4, <1>5, <2>1
  <2> QED
    BY <2>2
<1> HIDE DEF W
<1>7. at[1] \in Rectangle /\ at[2] \in Nat /\ at = <<at[1], at[2]>>
  BY <1>5, PlaceIs
<1>8. Agree(f, g, <<at[1], at[2]>>)
  BY <1>6, <1>7
<1>9. FromBand(u, f, at[1], at[2]) = FromBand(u, g, at[1], at[2])
  BY <1>7, <1>8, BandAgrees
<1>10. f[at] = FromBand(u, f, at[1], at[2]) /\ g[at] = FromBand(u, g, at[1], at[2])
  BY <1>5 DEF Knows
<1> QED
  BY <1>5, <1>9, <1>10

LEMMA EveryAccount ==
  ASSUME NEW u, u.level \in Levels
  PROVE  \A n \in Nat : \E f : Knows(u, f, n)
<1> DEFINE P == {n \in Nat : \E f : Knows(u, f, n)}
<1>1. 0 \in P
  <2>1. \A at \in Place : ~(Rank(at) < 0)
    BY RankIs
  <2>2. Knows(u, <<>>, 0)
    BY <2>1 DEF Knows
  <2> QED
    BY <2>2
<1>2. ASSUME NEW n \in P PROVE n + 1 \in P
  <2>1. PICK f : Knows(u, f, n)
    OBVIOUS
  <2> DEFINE g == [at \in Place |-> IF Rank(at) < n THEN f[at] ELSE FromBand(u, f, at[1], at[2])]
  <2>2. n \in Nat
    OBVIOUS
  <2>3. \A at \in Place : g[at] = FromBand(u, f, at[1], at[2])
    BY <2>1 DEF Knows
  <2>4. \A at \in Place : Rank(at) < n => g[at] = f[at]
    OBVIOUS
  <2> HIDE DEF g
  <2>5. ASSUME NEW at \in Place, Rank(at) < n + 1 PROVE g[at] = FromBand(u, g, at[1], at[2])
    <3>1. Agree(f, g, at)
      <4> SUFFICES ASSUME NEW b \in Place, Rank(b) < Rank(at) PROVE f[b] = g[b]
        BY DEF Agree
      <4>1. Rank(b) \in Nat /\ Rank(at) \in Nat
        BY RankIs
      <4>2. Rank(b) < n
        BY <2>2, <2>5, <4>1
      <4> QED
        BY <2>4, <4>2
    <3>2. at[1] \in Rectangle /\ at[2] \in Nat /\ at = <<at[1], at[2]>>
      BY PlaceIs
    <3>3. Agree(f, g, <<at[1], at[2]>>)
      BY <3>1, <3>2
    <3>4. FromBand(u, f, at[1], at[2]) = FromBand(u, g, at[1], at[2])
      BY <3>2, <3>3, BandAgrees
    <3> QED
      BY <2>3, <3>4
  <2>6. Knows(u, g, n + 1)
    BY <2>5 DEF Knows
  <2> QED
    BY <2>2, <2>6
<1>3. P = Nat
  <2>1. P \in SUBSET Nat
    OBVIOUS
  <2> HIDE DEF P
  <2> QED
    BY <1>1, <1>2, <2>1, Induction
<1> QED
  BY <1>3

LEMMA FromIsDefined ==
  ASSUME NEW u, u.level \in Levels
  PROVE  \E f : f = [at \in Rectangle \X Nat |-> FromBand(u, f, at[1], at[2])]
<1> DEFINE Upto(n) == CHOOSE f : Knows(u, f, n)
<1>1. \A n \in Nat : Knows(u, Upto(n), n)
  BY EveryAccount
<1> HIDE DEF Upto
<1> DEFINE F == [at \in Place |-> Upto(Rank(at) + 1)[at]]
<1>2. ASSUME NEW at \in Place PROVE F[at] = FromBand(u, F, at[1], at[2])
  <2> DEFINE g == Upto(Rank(at) + 1)
  <2>1. Rank(at) \in Nat /\ Rank(at) + 1 \in Nat /\ Rank(at) < Rank(at) + 1
    BY RankIs
  <2>2. Knows(u, g, Rank(at) + 1)
    BY <1>1, <2>1
  <2>3. F[at] = g[at]
    OBVIOUS
  <2>4. \A b \in Place : F[b] = Upto(Rank(b) + 1)[b]
    OBVIOUS
  <2> HIDE DEF g, F
  <2>5. g[at] = FromBand(u, g, at[1], at[2])
    BY <2>1, <2>2 DEF Knows
  <2>6. Agree(g, F, at)
    <3> SUFFICES ASSUME NEW b \in Place, Rank(b) < Rank(at) PROVE g[b] = F[b]
      BY DEF Agree
    <3> DEFINE h == Upto(Rank(b) + 1)
    <3>1. Rank(b) \in Nat /\ Rank(b) + 1 \in Nat /\ Rank(b) < Rank(b) + 1
      BY RankIs
    <3>2. Knows(u, h, Rank(b) + 1)
      BY <1>1, <3>1
    <3>3. F[b] = h[b]
      BY <2>4
    <3> HIDE DEF h
    <3>4. Knows(u, g, Rank(b) + 1)
      <4> SUFFICES ASSUME NEW c \in Place, Rank(c) < Rank(b) + 1
                   PROVE  g[c] = FromBand(u, g, c[1], c[2])
        BY DEF Knows
      <4>1. Rank(c) \in Nat
        BY RankIs
      <4>2. Rank(c) < Rank(at) + 1
        BY <2>1, <3>1, <4>1
      <4> QED
        BY <2>2, <4>2 DEF Knows
    <3> QED
      BY <3>1, <3>2, <3>3, <3>4, OneAccount
  <2>7. at[1] \in Rectangle /\ at[2] \in Nat /\ at = <<at[1], at[2]>>
    BY PlaceIs
  <2>8. Agree(g, F, <<at[1], at[2]>>)
    BY <2>6, <2>7
  <2>9. FromBand(u, g, at[1], at[2]) = FromBand(u, F, at[1], at[2])
    BY <2>7, <2>8, BandAgrees
  <2> QED
    BY <2>3, <2>5, <2>9
<1>3. F = [at \in Place |-> F[at]]
  OBVIOUS
<1> HIDE DEF F
<1>4. [at \in Place |-> F[at]] = [at \in Place |-> FromBand(u, F, at[1], at[2])]
  BY <1>2
<1>5. F = [at \in Place |-> FromBand(u, F, at[1], at[2])]
  BY <1>3, <1>4
<1>6. F = [at \in Rectangle \X Nat |-> FromBand(u, F, at[1], at[2])]
  BY <1>5, Zenon DEF Place
<1> QED
  BY <1>6

\* What rfbSendRectEncodingTight sends is what the loop over the bands makes of it.
LEMMA TightIs ==
  ASSUME NEW u, u.level \in Levels
  PROVE  \E f : /\ \A at \in Place : f[at] = FromBand(u, f, at[1], at[2])
                /\ \A box : rfbSendRectEncodingTight(u, box) = OrSimple(u, f, box)
<1> DEFINE F(f) == f = [at \in Rectangle \X Nat |-> FromBand(u, f, at[1], at[2])]
           f == CHOOSE from : F(from)
<1>1. F(f)
  BY FromIsDefined
<1>2. \A box : rfbSendRectEncodingTight(u, box) = OrSimple(u, f, box)
  BY DEF rfbSendRectEncodingTight
<1>3. \A at \in Place : f[at] = FromBand(u, f, at[1], at[2])
  <2> HIDE DEF f
  <2>1. f = [at \in Rectangle \X Nat |-> FromBand(u, f, at[1], at[2])]
    BY <1>1
  <2> DEFINE H(at) == FromBand(u, f, at[1], at[2])
  <2>2. f = [at \in Rectangle \X Nat |-> H(at)]
    BY <2>1
  <2> HIDE DEF H
  <2>3. \A at \in Rectangle \X Nat : f[at] = H(at)
    BY <2>2
  <2> QED
    BY <2>3 DEF H, Place
<1> QED
  BY <1>2, <1>3

\* What is sent from the places of less rank makes their rectangles.
MakesBelow(u, f, at) == \A b \in Place : Rank(b) < Rank(at) => Makes(f[b], u, Pixels(b[1]))

LEMMA NoPixels ==
  ASSUME NEW x \in Int, NEW y \in Int, NEW w \in Int, NEW h \in Int, w = 0 \/ h = 0
  PROVE  Pixels(Box(x, y, w, h)) = {}
<1>1. ASSUME NEW p, p \in Pixels(Box(x, y, w, h)) PROVE FALSE
  <2>1. p \in Int \X Int /\ x <= p[1] /\ p[1] < x + w /\ y <= p[2] /\ p[2] < y + h
    BY <1>1, InPixels
  <2>2. p[1] \in Int /\ p[2] \in Int
    BY <2>1
  <2> QED
    BY <2>1, <2>2
<1> QED
  BY <1>1

LEMMA BesideMakes ==
  ASSUME NEW u, u.encoding = "tight", u.level \in Levels, NEW f,
         NEW box \in Rectangle, NEW rows \in Nat, MakesBelow(u, f, <<box, rows>>),
         NEW x \in Nat, NEW y \in Nat, NEW w \in Nat, NEW h \in Nat, w + h < box.w + box.h
  PROVE  Makes(Beside(u, f, x, y, w, h), u, Pixels(Box(x, y, w, h)))
<1>1. CASE w = 0 \/ h = 0
  <2>1. Pixels(Box(x, y, w, h)) = {} /\ Beside(u, f, x, y, w, h) = <<>>
    BY <1>1, NoPixels DEF Beside
  <2> QED
    BY <2>1, NothingMakes
<1>2. CASE ~(w = 0 \/ h = 0)
  <2> DEFINE b == Box(x, y, w, h)
  <2>1. b \in Rectangle /\ b.w = w /\ b.h = h
    BY <1>2 DEF Box, Rectangle
  <2>5. Beside(u, f, x, y, w, h) = OrSimple(u, f, b)
    BY <1>2 DEF Beside
  <2> HIDE DEF b
  <2>2. <<b, 0>> \in Place
    BY <2>1 DEF Place
  <2>3. Rank(<<b, 0>>) < Rank(<<box, rows>>)
    <3>1. b.w + b.h < box.w + box.h /\ 0 \in Nat
      BY <2>1
    <3> QED
      BY <2>1, <3>1, SmallerIsLess
  <2>4. Makes(f[<<b, 0>>], u, Pixels(b))
    <3>1. <<b, 0>>[1] = b
      OBVIOUS
    <3> QED
      BY <2>2, <2>3, <3>1 DEF MakesBelow
  <2>6. Makes(SendRectSimple(b, u.level), u, Pixels(b))
    BY <2>1, SimpleMakes
  <2>7. OrSimple(u, f, b) = SendRectSimple(b, u.level) \/ OrSimple(u, f, b) = f[<<b, 0>>]
    BY DEF OrSimple
  <2>8. Makes(OrSimple(u, f, b), u, Pixels(b))
    BY <2>4, <2>6, <2>7
  <2> QED
    BY <2>5, <2>8 DEF b
<1> QED
  BY <1>1, <1>2

LEMMA AboveMakes ==
  ASSUME NEW u, u.encoding = "tight", u.level \in Levels, NEW box \in Rectangle,
         NEW a \in SolidOf(u.scene, box)
  PROVE  Makes(Above(u, box, a), u, Pixels(Box(box.x, box.y, box.w, a.y - box.y)))
<1> DEFINE h == a.y - box.y
           b == Box(box.x, box.y, box.w, h)
<1>1. h \in Nat /\ a.y \in Nat
  BY AroundIs
<1>2. box.x \in Nat /\ box.y \in Nat /\ box.w \in Nat \ {0} /\ box = Box(box.x, box.y, box.w, box.h)
  BY Boxes
<1>3. a.y = box.y <=> h = 0
  BY <1>1, <1>2
<1>4. Above(u, box, a) = IF h = 0 THEN <<>> ELSE SendRectSimple(b, u.level)
  <2>1. [box EXCEPT !.h = h] = b
    BY DEF Box, Rectangle
  <2> QED
    BY <1>3, <2>1 DEF Above
<1> HIDE DEF h
<1>5. CASE h = 0
  <2>1. Pixels(b) = {} /\ Above(u, box, a) = <<>>
    BY <1>1, <1>2, <1>4, <1>5, NoPixels
  <2>2. Makes(Above(u, box, a), u, Pixels(b))
    BY <2>1, NothingMakes
  <2> QED
    BY <2>2 DEF h
<1>6. CASE h # 0
  <2>1. b \in Rectangle
    BY <1>1, <1>2, <1>6, Boxes
  <2> HIDE DEF b
  <2>2. Makes(SendRectSimple(b, u.level), u, Pixels(b))
    BY <2>1, SimpleMakes
  <2>3. Above(u, box, a) = SendRectSimple(b, u.level)
    BY <1>4, <1>6
  <2>4. Makes(Above(u, box, a), u, Pixels(b))
    BY <2>2, <2>3
  <2> QED
    BY <2>4 DEF b, h
<1> QED
  BY <1>5, <1>6 DEF h

\* A solid area and what is around it are all of the rectangle, each pixel once.
LEMMA AroundCovers ==
  ASSUME NEW scene, NEW box \in Rectangle, NEW a \in SolidOf(scene, box)
  PROVE  LET top == Pixels(Box(box.x, box.y, box.w, a.y - box.y))
             left == Pixels(Box(box.x, a.y, a.x - box.x, a.h))
             right == Pixels(Box(a.x + a.w, a.y, box.x + box.w - a.x - a.w, a.h))
             bottom == Pixels(Box(box.x, a.y + a.h, box.w, box.y + box.h - a.y - a.h))
         IN /\ top \cap left = {}
            /\ (top \cup left) \cap Pixels(a) = {}
            /\ (top \cup left \cup Pixels(a)) \cap right = {}
            /\ (top \cup left \cup Pixels(a) \cup right) \cap bottom = {}
            /\ top \cup left \cup Pixels(a) \cup right \cup bottom = Pixels(box)
<1> DEFINE l == a.x - box.x
           r == box.x + box.w - a.x - a.w
           t == a.y - box.y
           d == box.y + box.h - a.y - a.h
           ax == a.x + a.w
           ay == a.y + a.h
           top == Pixels(Box(box.x, box.y, box.w, t))
           left == Pixels(Box(box.x, a.y, l, a.h))
           right == Pixels(Box(ax, a.y, r, a.h))
           bottom == Pixels(Box(box.x, ay, box.w, d))
<1>1. /\ a \in Rectangle /\ a.x \in Nat /\ a.y \in Nat /\ a.w \in Nat \ {0} /\ a.h \in Nat \ {0}
      /\ l \in Nat /\ r \in Nat /\ t \in Nat /\ d \in Nat /\ ax \in Nat /\ ay \in Nat
  BY AroundIs
<1>2. /\ box.x \in Nat /\ box.y \in Nat /\ box.w \in Nat \ {0} /\ box.h \in Nat \ {0}
  BY Boxes
<1>3. a = Box(a.x, a.y, a.w, a.h) /\ box = Box(box.x, box.y, box.w, box.h)
  BY <1>1, Boxes
<1>4. /\ a.x = box.x + l /\ a.y = box.y + t /\ ax = a.x + a.w /\ ay = a.y + a.h
      /\ ax + r = box.x + box.w /\ ay + d = box.y + box.h
  BY <1>1, <1>2
<1> HIDE DEF l, r, t, d, ax, ay
<1> DEFINE In(p, x, y, w, h) == x <= p[1] /\ p[1] < x + w /\ y <= p[2] /\ p[2] < y + h
<1>5. \A p : /\ p \in top <=> p \in Int \X Int /\ In(p, box.x, box.y, box.w, t)
             /\ p \in left <=> p \in Int \X Int /\ In(p, box.x, a.y, l, a.h)
             /\ p \in right <=> p \in Int \X Int /\ In(p, ax, a.y, r, a.h)
             /\ p \in bottom <=> p \in Int \X Int /\ In(p, box.x, ay, box.w, d)
             /\ p \in Pixels(a) <=> p \in Int \X Int /\ In(p, a.x, a.y, a.w, a.h)
             /\ p \in Pixels(box) <=> p \in Int \X Int /\ In(p, box.x, box.y, box.w, box.h)
  <2> SUFFICES ASSUME NEW p
               PROVE  /\ p \in top <=> p \in Int \X Int /\ In(p, box.x, box.y, box.w, t)
                      /\ p \in left <=> p \in Int \X Int /\ In(p, box.x, a.y, l, a.h)
                      /\ p \in right <=> p \in Int \X Int /\ In(p, ax, a.y, r, a.h)
                      /\ p \in bottom <=> p \in Int \X Int /\ In(p, box.x, ay, box.w, d)
                      /\ p \in Pixels(a) <=> p \in Int \X Int /\ In(p, a.x, a.y, a.w, a.h)
                      /\ p \in Pixels(box) <=> p \in Int \X Int /\ In(p, box.x, box.y, box.w, box.h)
    OBVIOUS
  <2>1. p \in top <=> p \in Int \X Int /\ In(p, box.x, box.y, box.w, t)
    BY <1>1, <1>2, InPixels
  <2>2. p \in left <=> p \in Int \X Int /\ In(p, box.x, a.y, l, a.h)
    BY <1>1, <1>2, InPixels
  <2>3. p \in right <=> p \in Int \X Int /\ In(p, ax, a.y, r, a.h)
    BY <1>1, <1>2, InPixels
  <2>4. p \in bottom <=> p \in Int \X Int /\ In(p, box.x, ay, box.w, d)
    BY <1>1, <1>2, InPixels
  <2>5. p \in Pixels(Box(a.x, a.y, a.w, a.h)) <=> p \in Int \X Int /\ In(p, a.x, a.y, a.w, a.h)
    BY <1>1, InPixels
  <2>6. p \in Pixels(Box(box.x, box.y, box.w, box.h)) <=> p \in Int \X Int /\ In(p, box.x, box.y, box.w, box.h)
    BY <1>2, InPixels
  <2>7. p \in Pixels(a) <=> p \in Int \X Int /\ In(p, a.x, a.y, a.w, a.h)
    BY <1>3, <2>5
  <2>8. p \in Pixels(box) <=> p \in Int \X Int /\ In(p, box.x, box.y, box.w, box.h)
    BY <1>3, <2>6
  <2> QED
    BY <2>1, <2>2, <2>3, <2>4, <2>7, <2>8
<1> HIDE DEF top, left, right, bottom
<1> DEFINE A == Pixels(a)
           B == Pixels(box)
<1>6. \A p : /\ ~(p \in top /\ p \in left) /\ ~(p \in top /\ p \in A) /\ ~(p \in left /\ p \in A)
             /\ ~(p \in top /\ p \in right) /\ ~(p \in left /\ p \in right) /\ ~(p \in A /\ p \in right)
             /\ ~(p \in top /\ p \in bottom) /\ ~(p \in left /\ p \in bottom) /\ ~(p \in A /\ p \in bottom)
             /\ ~(p \in right /\ p \in bottom)
             /\ p \in B <=> p \in top \/ p \in left \/ p \in A \/ p \in right \/ p \in bottom
  <2> SUFFICES ASSUME NEW p
      PROVE  /\ ~(p \in top /\ p \in left) /\ ~(p \in top /\ p \in A) /\ ~(p \in left /\ p \in A)
             /\ ~(p \in top /\ p \in right) /\ ~(p \in left /\ p \in right) /\ ~(p \in A /\ p \in right)
             /\ ~(p \in top /\ p \in bottom) /\ ~(p \in left /\ p \in bottom) /\ ~(p \in A /\ p \in bottom)
             /\ ~(p \in right /\ p \in bottom)
             /\ p \in B <=> p \in top \/ p \in left \/ p \in A \/ p \in right \/ p \in bottom
    OBVIOUS
  <2>1. CASE p \in Int \X Int
    <3>1. p[1] \in Int /\ p[2] \in Int
      BY <2>1
    <3>2. /\ p \in top <=> In(p, box.x, box.y, box.w, t)
          /\ p \in left <=> In(p, box.x, a.y, l, a.h)
          /\ p \in right <=> In(p, ax, a.y, r, a.h)
          /\ p \in bottom <=> In(p, box.x, ay, box.w, d)
          /\ p \in A <=> In(p, a.x, a.y, a.w, a.h)
          /\ p \in B <=> In(p, box.x, box.y, box.w, box.h)
      BY <1>5, <2>1
    <3> HIDE DEF A, B
    <3> QED
      BY <1>1, <1>2, <1>4, <3>1, <3>2
  <2>2. CASE p \notin Int \X Int
    <3>1. p \notin top /\ p \notin left /\ p \notin right /\ p \notin bottom /\ p \notin A /\ p \notin B
      BY <1>5, <2>2
    <3> QED
      BY <3>1
  <2> QED
    BY <2>1, <2>2
<1> HIDE DEF A, B
<1>7. /\ top \cap left = {}
      /\ (top \cup left) \cap A = {}
      /\ (top \cup left \cup A) \cap right = {}
      /\ (top \cup left \cup A \cup right) \cap bottom = {}
      /\ top \cup left \cup A \cup right \cup bottom = B
  BY <1>6
<1> QED
  BY <1>7 DEF top, left, right, bottom, A, B, l, r, t, d, ax, ay

LEMMA AroundMakes ==
  ASSUME NEW u, u.encoding = "tight", u.level \in Levels, NEW f,
         NEW box \in Rectangle, NEW rows \in Nat, MakesBelow(u, f, <<box, rows>>),
         NEW rest \in Rectangle, rest.w + rest.h <= box.w + box.h, NEW a \in SolidOf(u.scene, rest)
  PROVE  Makes(Around(u, f, rest, a), u, Pixels(rest))
<1> DEFINE l == a.x - rest.x
           r == rest.x + rest.w - a.x - a.w
           d == rest.y + rest.h - a.y - a.h
           ax == a.x + a.w
           ay == a.y + a.h
           top == Pixels(Box(rest.x, rest.y, rest.w, a.y - rest.y))
           left == Pixels(Box(rest.x, a.y, l, a.h))
           right == Pixels(Box(ax, a.y, r, a.h))
           bottom == Pixels(Box(rest.x, ay, rest.w, d))
           S1 == Above(u, rest, a)
           S2 == Beside(u, f, rest.x, a.y, l, a.h)
           S3 == <<Part(a, TRUE)>>
           S4 == Beside(u, f, ax, a.y, r, a.h)
           S5 == Beside(u, f, rest.x, ay, rest.w, d)
<1>1. /\ a.x \in Nat /\ a.y \in Nat /\ a.w \in Nat \ {0} /\ a.h \in Nat \ {0}
      /\ l \in Nat /\ r \in Nat /\ d \in Nat /\ ax \in Nat /\ ay \in Nat
      /\ l + a.h < rest.w + rest.h /\ r + a.h < rest.w + rest.h /\ rest.w + d < rest.w + rest.h
  BY AroundIs
<1>2. /\ rest.x \in Nat /\ rest.y \in Nat /\ rest.w \in Nat /\ rest.h \in Nat
      /\ box.w \in Nat /\ box.h \in Nat
  BY Boxes
<1>3. Around(u, f, rest, a) = S1 \o S2 \o S3 \o S4 \o S5
  BY AroundHas
<1>4. /\ top \cap left = {}
      /\ (top \cup left) \cap Pixels(a) = {}
      /\ (top \cup left \cup Pixels(a)) \cap right = {}
      /\ (top \cup left \cup Pixels(a) \cup right) \cap bottom = {}
      /\ top \cup left \cup Pixels(a) \cup right \cup bottom = Pixels(rest)
  BY AroundCovers
<1>5. Makes(S1, u, top)
  BY AboveMakes
<1>6. Makes(S3, u, Pixels(a))
  <2>1. Part(a, TRUE) \in GoodParts(u)
    BY SolidIsGood
  <2> QED
    BY <2>1, OneMakes, Parts
<1> HIDE DEF l, r, d, ax, ay
<1>7. l + a.h < box.w + box.h /\ r + a.h < box.w + box.h /\ rest.w + d < box.w + box.h
  BY <1>1, <1>2
<1>8. Makes(S2, u, left)
  BY <1>1, <1>2, <1>7, BesideMakes
<1>9. Makes(S4, u, right)
  BY <1>1, <1>2, <1>7, BesideMakes
<1>10. Makes(S5, u, bottom)
  BY <1>1, <1>2, <1>7, BesideMakes
<1> HIDE DEF S1, S2, S3, S4, S5, top, left, right, bottom
<1>11. Makes(S1 \o S2, u, top \cup left)
  BY <1>4, <1>5, <1>8, TwoMake
<1>12. Makes(S1 \o S2 \o S3, u, top \cup left \cup Pixels(a))
  BY <1>4, <1>6, <1>11, TwoMake
<1>13. Makes(S1 \o S2 \o S3 \o S4, u, top \cup left \cup Pixels(a) \cup right)
  BY <1>4, <1>9, <1>12, TwoMake
<1>14. Makes(S1 \o S2 \o S3 \o S4 \o S5, u, top \cup left \cup Pixels(a) \cup right \cup bottom)
  BY <1>4, <1>10, <1>13, TwoMake
<1> QED
  BY <1>3, <1>4, <1>14

\* What goes early, before the rest.
LEMMA EarlyMakes ==
  ASSUME NEW u, u.encoding = "tight", u.level \in Levels, NEW box \in Rectangle, NEW rows \in Nat,
         rows < box.h
  PROVE  Makes(Early(u, box, rows), u, Pixels(box) \ Pixels(Rest(u, box, rows)))
         /\ Pixels(Rest(u, box, rows)) \subseteq Pixels(box)
<1> DEFINE m == SubrectMaxHeight(box.w, u.level)
           rest == Rest(u, box, rows)
<1>1. box.x \in Nat /\ box.y \in Nat /\ box.w \in Nat \ {0} /\ box.h \in Nat \ {0}
      /\ box = Box(box.x, box.y, box.w, box.h)
  BY Boxes
<1>2. m \in Nat \ {0}
  BY <1>1, RowsAre
<1>3. rest = IF rows >= m THEN Below(box, m) ELSE box
  BY DEF Rest
<1>4. Early(u, box, rows) = IF rows >= m THEN SendRectSimple([box EXCEPT !.h = m], u.level) ELSE <<>>
  BY DEF Early
<1> HIDE DEF m, rest
<1>5. CASE rows >= m
  <2> DEFINE top == Box(box.x, box.y, box.w, m)
             y == box.y + m
             h == box.h - m
  <2>1. rest = [box EXCEPT !.y = @ + m, !.h = @ - m]
    BY <1>3, <1>5 DEF Below
  <2>2. rest = Box(box.x, y, box.w, h)
    BY <2>1 DEF Rectangle, Box
  <2>3. [box EXCEPT !.h = m] = top
    BY DEF Rectangle, Box
  <2>4. top \in Rectangle /\ y \in Nat /\ h \in Nat /\ y = box.y + m /\ y + h = box.y + box.h
    <3>1. y \in Nat /\ h \in Nat /\ y = box.y + m /\ y + h = box.y + box.h
      BY <1>1, <1>2, <1>5
    <3>2. top \in Rectangle
      BY <1>1, <1>2, Boxes
    <3> QED
      BY <3>1, <3>2
  <2>5. Early(u, box, rows) = SendRectSimple(top, u.level)
    BY <1>4, <1>5, <2>3
  <2> DEFINE PT == Pixels(top)
             PR == Pixels(Box(box.x, y, box.w, h))
             PB == Pixels(Box(box.x, box.y, box.w, box.h))
  <2> HIDE DEF y, h
  <2>6. \A p : /\ p \in PT <=> p \in Int \X Int /\ box.x <= p[1] /\ p[1] < box.x + box.w
                                 /\ box.y <= p[2] /\ p[2] < box.y + m
               /\ p \in PR <=> p \in Int \X Int /\ box.x <= p[1] /\ p[1] < box.x + box.w
                                 /\ y <= p[2] /\ p[2] < y + h
               /\ p \in PB <=> p \in Int \X Int /\ box.x <= p[1] /\ p[1] < box.x + box.w
                                 /\ box.y <= p[2] /\ p[2] < box.y + box.h
    BY <1>1, <1>2, <2>4, InPixels
  <2> HIDE DEF PT, PR, PB
  <2>7. \A p : p \in PT <=> p \in PB /\ p \notin PR
    <3> SUFFICES ASSUME NEW p PROVE p \in PT <=> p \in PB /\ p \notin PR
      OBVIOUS
    <3>1. p \in Int \X Int => p[2] \in Int
      OBVIOUS
    <3> QED
      BY <1>1, <1>2, <2>4, <2>6, <3>1
  <2>8. \A p : p \in PR => p \in PB
    <3> SUFFICES ASSUME NEW p, p \in PR PROVE p \in PB
      OBVIOUS
    <3>1. p \in Int \X Int /\ box.x <= p[1] /\ p[1] < box.x + box.w /\ y <= p[2] /\ p[2] < y + h
      BY <2>6
    <3>2. p[2] \in Int
      BY <3>1
    <3> QED
      BY <1>1, <1>2, <2>4, <2>6, <3>1, <3>2
  <2>9. PT = PB \ PR /\ PR \subseteq PB
    BY <2>7, <2>8
  <2>10. Makes(Early(u, box, rows), u, PT)
    BY <2>4, <2>5, SimpleMakes DEF PT
  <2>11. PR = Pixels(rest) /\ PB = Pixels(box)
    BY <1>1, <2>2 DEF PR, PB
  <2> QED
    BY <2>9, <2>10, <2>11 DEF rest
<1>6. CASE ~(rows >= m)
  <2>1. rest = box /\ Early(u, box, rows) = <<>>
    BY <1>3, <1>4, <1>6
  <2>2. Pixels(box) \ Pixels(rest) = {} /\ Pixels(rest) \subseteq Pixels(box)
    BY <2>1
  <2> QED
    BY <2>1, <2>2, NothingMakes DEF rest
<1> QED
  BY <1>5, <1>6

LEMMA BandMakes ==
  ASSUME NEW u, u.encoding = "tight", u.level \in Levels, NEW f,
         NEW box \in Rectangle, NEW rows \in Nat, MakesBelow(u, f, <<box, rows>>)
  PROVE  Makes(FromBand(u, f, box, rows), u, Pixels(box))
<1> DEFINE rest == Rest(u, box, rows)
           early == Early(u, box, rows)
           solid == SolidAreas(u.scene, rest, box.y + rows)
<1>1. CASE rows >= box.h
  <2>1. FromBand(u, f, box, rows) = SendRectSimple(box, u.level)
    BY <1>1, BandHas
  <2> QED
    BY <2>1, SimpleMakes
<1>2. CASE ~(rows >= box.h)
  <2>0. rows < box.h
    <3>1. box.h \in Nat
      BY Boxes
    <3> QED
      BY <1>2, <3>1
  <2>1. FromBand(u, f, box, rows) =
          early \o (IF solid # <<>> THEN Around(u, f, rest, Head(solid)) ELSE f[Next(u, box, rows)])
    BY <1>2, BandHas
  <2>2. /\ rest \in Rectangle /\ rest.w + rest.h <= box.w + box.h
        /\ Next(u, box, rows) \in Place /\ Rank(Next(u, box, rows)) < Rank(<<box, rows>>)
    BY <2>0, RestIs
  <2>3. solid # <<>> => Head(solid) \in SolidOf(u.scene, rest)
    BY <2>0, FirstSolid
  <2>4. Makes(early, u, Pixels(box) \ Pixels(rest)) /\ Pixels(rest) \subseteq Pixels(box)
    BY <2>0, EarlyMakes
  <2>5. Next(u, box, rows)[1] = rest
    BY DEF Next
  <2> HIDE DEF rest, solid, early
  <2> DEFINE after == IF solid # <<>> THEN Around(u, f, rest, Head(solid)) ELSE f[Next(u, box, rows)]
  <2>6. Makes(after, u, Pixels(rest))
    <3>1. CASE solid # <<>>
      <4>1. Makes(Around(u, f, rest, Head(solid)), u, Pixels(rest))
        BY <2>2, <2>3, <3>1, AroundMakes
      <4> QED
        BY <3>1, <4>1
    <3>2. CASE solid = <<>>
      <4>1. Makes(f[Next(u, box, rows)], u, Pixels(rest))
        BY <2>2, <2>5 DEF MakesBelow
      <4> QED
        BY <3>2, <4>1
    <3> QED
      BY <3>1, <3>2
  <2> HIDE DEF after
  <2>7. Makes(early \o after, u, (Pixels(box) \ Pixels(rest)) \cup Pixels(rest))
    <3>1. (Pixels(box) \ Pixels(rest)) \cap Pixels(rest) = {}
      OBVIOUS
    <3> QED
      BY <2>4, <2>6, <3>1, TwoMake
  <2>8. (Pixels(box) \ Pixels(rest)) \cup Pixels(rest) = Pixels(box)
    BY <2>4
  <2> QED
    BY <2>1, <2>7, <2>8 DEF after
<1> QED
  BY <1>1, <1>2

LEMMA PlacesMake ==
  ASSUME NEW u, u.encoding = "tight", u.level \in Levels, NEW f,
         \A at \in Place : f[at] = FromBand(u, f, at[1], at[2])
  PROVE  \A at \in Place : Makes(f[at], u, Pixels(at[1]))
<1> DEFINE W == {at \in Place : ~Makes(f[at], u, Pixels(at[1]))}
           T == {Rank(at) : at \in W}
<1> SUFFICES ASSUME W # {} PROVE FALSE
  OBVIOUS
<1>1. T \in SUBSET Nat /\ T # {}
  BY RankIs
<1> HIDE DEF T
<1>2. PICK m \in T : \A k \in T : m <= k
  BY <1>1, Least
<1>3. PICK at \in W : Rank(at) = m
  BY DEF T
<1>4. \A b \in W : Rank(at) <= Rank(b)
  BY <1>2, <1>3 DEF T
<1>5. at \in Place /\ ~Makes(f[at], u, Pixels(at[1]))
  OBVIOUS
<1>6. MakesBelow(u, f, at)
  <2> SUFFICES ASSUME NEW b \in Place, Rank(b) < Rank(at) PROVE Makes(f[b], u, Pixels(b[1]))
    BY DEF MakesBelow
  <2>1. Rank(b) \in Nat /\ Rank(at) \in Nat
    BY <1>5, RankIs
  <2>2. b \notin W
    BY <1>4, <1>5, <2>1
  <2> QED
    BY <2>2
<1> HIDE DEF W
<1>7. at[1] \in Rectangle /\ at[2] \in Nat /\ at = <<at[1], at[2]>>
  BY <1>5, PlaceIs
<1>8. MakesBelow(u, f, <<at[1], at[2]>>)
  BY <1>6, <1>7
<1>9. Makes(FromBand(u, f, at[1], at[2]), u, Pixels(at[1]))
  BY <1>7, <1>8, BandMakes
<1> QED
  BY <1>5, <1>9

\* Tight makes every rectangle, whatever areas of one colour it finds.
LEMMA TightMakes ==
  ASSUME NEW u, u.encoding = "tight", u.level \in Levels, NEW box \in Rectangle
  PROVE  Makes(rfbSendRectEncodingTight(u, box), u, Pixels(box))
<1>1. PICK f : /\ \A at \in Place : f[at] = FromBand(u, f, at[1], at[2])
               /\ \A b : rfbSendRectEncodingTight(u, b) = OrSimple(u, f, b)
  BY TightIs
<1>2. \A at \in Place : Makes(f[at], u, Pixels(at[1]))
  BY <1>1, PlacesMake
<1>3. <<box, 0>> \in Place /\ <<box, 0>>[1] = box
  BY DEF Place
<1>4. Makes(f[<<box, 0>>], u, Pixels(box))
  BY <1>2, <1>3
<1>5. Makes(SendRectSimple(box, u.level), u, Pixels(box))
  BY SimpleMakes
<1>6. OrSimple(u, f, box) = SendRectSimple(box, u.level) \/ OrSimple(u, f, box) = f[<<box, 0>>]
  BY DEF OrSimple
<1> QED
  BY <1>1, <1>4, <1>5, <1>6

-----------------------------------------------------------------------------
(* What each encoding makes of one rectangle, and that it was counted.     *)

LEMMA PiecesAre ==
  ASSUME NEW n \in Nat \ {0}, NEW most \in Nat \ {0}
  PROVE  Pieces(n, most) \in Nat \ {0} /\ Pieces(n, n) = 1
<1>1. Pieces(n, most) \in Nat \ {0}
  BY CutsMake
<1>2. (n - 1) \div n = 0
  <2> DEFINE q == (n - 1) \div n
  <2>1. (0 <= q <=> 0 * n <= n - 1) /\ (1 <= q <=> 1 * n <= n - 1)
    BY QuotientIsLeast
  <2>2. q \in Int
    BY Quotient
  <2> HIDE DEF q
  <2>3. q = 0
    BY <2>1, <2>2
  <2> QED
    BY <2>3 DEF q
<1> QED
  BY <1>1, <1>2 DEF Pieces

LEMMA LinesAre ==
  ASSUME NEW w \in Nat \ {0}
  PROVE  /\ MaxLines(w) \in Nat \ {0}
         /\ \A v, h \in Nat : v <= w /\ h <= MaxLines(w) => v * h <= Max({2 * v, ZlibMaxRectSize})
<1> DEFINE z == ZlibMaxRectSize
           m == Max({2 * w, z})
           q == m \div w
<1>1. z \in Nat \ {0} /\ 2 * w \in Nat
  BY RectanglesAssumption
<1>2. m = IF 2 * w >= z THEN 2 * w ELSE z
  BY <1>1, MinOfTwo
<1>3. MaxLines(w) = q
  BY DEF MaxLines
<1> HIDE DEF z, m
<1>4. m \in Nat /\ 2 * w <= m
  BY <1>1, <1>2
<1>5. q \in Int /\ w * q <= m /\ m < w * q + w
  BY <1>4, Quotient
<1>6. 2 <= q /\ (3 <= q <=> 3 * w <= m)
  <2>1. (2 <= q <=> 2 * w <= m) /\ (3 <= q <=> 3 * w <= m)
    BY <1>4, QuotientIsLeast
  <2> QED
    BY <1>4, <2>1
<1> HIDE DEF q
<1>7. ASSUME NEW v \in Nat, NEW h \in Nat, v <= w, h <= q PROVE v * h <= Max({2 * v, z})
  <2>1. Max({2 * v, z}) = IF 2 * v >= z THEN 2 * v ELSE z
    <3>1. 2 * v \in Int /\ z \in Int
      BY <1>1
    <3> QED
      BY <3>1, MinOfTwo
  <2>2. v * h \in Nat /\ v * h = h * v /\ w * q \in Int /\ w * h \in Int /\ w * q = q * w /\ w * h = h * w
        /\ v * h <= w * h
    BY <1>5, <1>7, Times
  <2>3. w * h <= w * q
    <3>1. h * w <= q * w
      BY <1>5, <1>7, Times
    <3> QED
      BY <2>2, <3>1
  <2>4. CASE z >= 2 * w
    <3>1. m = z
      BY <1>1, <1>2, <2>4
    <3>2. v * h <= z
      BY <1>1, <1>5, <2>2, <2>3, <3>1
    <3> QED
      BY <1>1, <2>1, <2>2, <3>2
  <2>5. CASE ~(z >= 2 * w)
    <3>1. m = 2 * w
      BY <1>1, <1>2, <2>5
    <3>2. q = 2
      BY <1>5, <1>6, <3>1
    <3>3. v * h <= 2 * v
      <4>1. h * v <= 2 * v
        BY <1>7, <3>2, Times
      <4> QED
        BY <2>2, <4>1
    <3> QED
      BY <1>1, <2>1, <2>2, <3>3
  <2> QED
    BY <2>4, <2>5
<1> QED
  BY <1>3, <1>5, <1>6, <1>7 DEF z

LEMMA CorreMakes ==
  ASSUME NEW u, u.encoding = "corre", NEW box \in Rectangle
  PROVE  /\ Makes(rfbSendRectEncodingCoRRE(box), u, Pixels(box))
         /\ Len(rfbSendRectEncodingCoRRE(box)) = Pieces(box.w, CorreMax.w) * Pieces(box.h, CorreMax.h)
<1> DEFINE mw == CorreMax.w
           mh == CorreMax.h
           w2 == IF mw <= box.w THEN mw ELSE box.w
           h2 == IF mh <= box.h THEN mh ELSE box.h
<1>1. mw \in Nat \ {0} /\ mh \in Nat \ {0} /\ box.w \in Nat \ {0} /\ box.h \in Nat \ {0}
  BY RectanglesAssumption, Boxes DEF Size
<1>2. w2 <= mw /\ h2 <= mh /\ w2 \in Nat /\ h2 \in Nat
  BY <1>1
<1>3. rfbSendRectEncodingCoRRE(box) = Grid(box, mw, mh)
  BY DEF rfbSendRectEncodingCoRRE
<1>4. ASSUME NEW b \in Rectangle, b.w <= mw, b.h <= mh PROVE Part(b, FALSE) \in GoodParts(u)
  <2>1. Part(b, FALSE) \in [box : Rectangle, solid : BOOLEAN] /\ Part(b, FALSE).box = b /\ ~Part(b, FALSE).solid
    BY DEF Part
  <2>2. Allowed(u, Part(b, FALSE))
    BY <1>4, <2>1 DEF Allowed
  <2> QED
    BY <2>1, <2>2 DEF GoodParts
<1> HIDE DEF mw, mh
<1>5. Fits(u, w2, h2)
  <2> SUFFICES ASSUME NEW b \in Rectangle, b.w <= w2, b.h <= h2 PROVE Part(b, FALSE) \in GoodParts(u)
    BY DEF Fits
  <2>1. b.w \in Nat /\ b.h \in Nat
    BY Boxes
  <2>2. b.w <= mw /\ b.h <= mh
    BY <1>1, <1>2, <2>1
  <2> QED
    BY <1>4, <2>2
<1>6. Makes(Grid(box, mw, mh), u, Pixels(box)) /\ Len(Grid(box, mw, mh)) = Pieces(box.w, mw) * Pieces(box.h, mh)
  BY <1>1, <1>5, GridMakes
<1> QED
  BY <1>3, <1>6 DEF mw, mh

LEMMA ZlibMakes ==
  ASSUME NEW u, u.encoding = "zlib", NEW box \in Rectangle
  PROVE  /\ Makes(rfbSendRectEncodingZlib(box), u, Pixels(box))
         /\ Len(rfbSendRectEncodingZlib(box)) = Pieces(box.h, MaxLines(box.w))
<1> DEFINE w == box.w
           mh == MaxLines(w)
           w2 == IF w <= box.w THEN w ELSE box.w
           h2 == IF mh <= box.h THEN mh ELSE box.h
<1>1. w \in Nat \ {0} /\ box.h \in Nat \ {0} /\ w2 = w
  BY Boxes
<1>2. mh \in Nat \ {0}
  BY <1>1, LinesAre
<1>3. \A v, h \in Nat : v <= w /\ h <= mh => v * h <= Max({2 * v, ZlibMaxRectSize})
  BY <1>1, LinesAre
<1>4. rfbSendRectEncodingZlib(box) = Grid(box, w, mh)
  BY DEF rfbSendRectEncodingZlib
<1> HIDE DEF mh
<1>5. h2 <= mh /\ h2 \in Nat
  BY <1>1, <1>2
<1>6. Fits(u, w2, h2)
  <2> SUFFICES ASSUME NEW b \in Rectangle, b.w <= w2, b.h <= h2 PROVE Part(b, FALSE) \in GoodParts(u)
    BY DEF Fits
  <2>1. b.w \in Nat /\ b.h \in Nat
    BY Boxes
  <2>2. b.w <= w /\ b.h <= mh
    BY <1>1, <1>2, <1>5, <2>1
  <2>3. b.w * b.h <= Max({2 * b.w, ZlibMaxRectSize})
    BY <1>3, <2>1, <2>2
  <2>4. Part(b, FALSE) \in [box : Rectangle, solid : BOOLEAN] /\ Part(b, FALSE).box = b /\ ~Part(b, FALSE).solid
    BY DEF Part
  <2>5. Allowed(u, Part(b, FALSE))
    BY <2>3, <2>4 DEF Allowed
  <2> QED
    BY <2>4, <2>5 DEF GoodParts
<1>7. Makes(Grid(box, w, mh), u, Pixels(box)) /\ Len(Grid(box, w, mh)) = Pieces(box.w, w) * Pieces(box.h, mh)
  BY <1>1, <1>2, <1>6, GridMakes
<1>8. Pieces(box.w, w) = 1 /\ Pieces(box.h, mh) \in Nat
  BY <1>1, <1>2, PiecesAre
<1>9. Pieces(box.w, w) * Pieces(box.h, mh) = Pieces(box.h, mh)
  BY <1>8
<1> QED
  BY <1>4, <1>7, <1>9 DEF mh

LEMMA WholeMakes ==
  ASSUME NEW u, u.encoding = "whole", NEW box \in Rectangle
  PROVE  Makes(<<Part(box, FALSE)>>, u, Pixels(box)) /\ Len(<<Part(box, FALSE)>>) = 1
<1>1. Part(box, FALSE) \in [box : Rectangle, solid : BOOLEAN] /\ Part(box, FALSE).box = box /\ ~Part(box, FALSE).solid
  BY DEF Part
<1>2. Allowed(u, Part(box, FALSE))
  BY DEF Allowed
<1>3. Part(box, FALSE) \in GoodParts(u)
  BY <1>1, <1>2 DEF GoodParts
<1> QED
  BY <1>1, <1>3, OneMakes

\* The number that Tight works out, unless it leaves it open.
LEMMA TightIsCounted ==
  ASSUME NEW u, u.encoding = "tight", u.level \in Levels, u.lastRect \in BOOLEAN, NEW box \in Rectangle
  PROVE  LET coded == rfbNumCodedRectsTight(box, u.level, u.lastRect)
         IN /\ coded \in Nat
            /\ coded = 0 => u.lastRect
            /\ coded # 0 => Len(rfbSendRectEncodingTight(u, box)) = coded
<1> DEFINE mw == u.level.maxRectWidth
           mh == SubrectMaxHeight(box.w, u.level)
           pieces == Pieces(box.w, mw) * Pieces(box.h, mh)
           simple == IF TooLarge(box, u.level) THEN pieces ELSE 1
           coded == rfbNumCodedRectsTight(box, u.level, u.lastRect)
<1>1. box.w \in Nat \ {0} /\ box.h \in Nat \ {0} /\ mw \in Nat \ {0} /\ mh \in Nat \ {0}
  BY Boxes, LevelsAre, RowsAre
<1>2. Pieces(box.w, mw) \in Nat \ {0} /\ Pieces(box.h, mh) \in Nat \ {0}
  BY <1>1, PiecesAre
<1>3. \A a, b \in Nat \ {0} : a * b \in Nat \ {0}
  OBVIOUS
<1>4. simple \in Nat \ {0}
  BY <1>2, <1>3
<1>5. coded = IF u.lastRect /\ box.w * box.h >= MinSplitRectSize THEN 0 ELSE simple
  BY DEF rfbNumCodedRectsTight
<1>6. Len(SendRectSimple(box, u.level)) = simple
  BY SimpleMakes
<1>7. PICK f : \A b : rfbSendRectEncodingTight(u, b) = OrSimple(u, f, b)
  BY TightIs
<1>8. MinSplitRectSize \in Nat /\ box.w * box.h \in Nat
  BY <1>1, RectanglesAssumption
<1> HIDE DEF simple, coded
<1>9. CASE u.lastRect /\ box.w * box.h >= MinSplitRectSize
  <2>1. u.lastRect
    BY <1>9
  <2>2. coded \in Nat /\ coded = 0
    BY <1>5, <1>9
  <2> QED
    BY <2>1, <2>2 DEF coded
<1>10. CASE ~(u.lastRect /\ box.w * box.h >= MinSplitRectSize)
  <2>1. coded = simple
    BY <1>5, <1>10
  <2>2. ~u.lastRect \/ box.w * box.h < MinSplitRectSize
    BY <1>8, <1>10
  <2>3. rfbSendRectEncodingTight(u, box) = SendRectSimple(box, u.level)
    BY <1>7, <2>2 DEF OrSimple
  <2> QED
    BY <1>4, <1>6, <2>1, <2>3 DEF coded
<1> QED
  BY <1>9, <1>10

LEMMA SendRectMakes ==
  ASSUME NEW u, Update(u), NEW box \in Rectangle
  PROVE  /\ Makes(SendRect(u, box), u, Pixels(box))
         /\ CodedRects(u, box) \in Nat
         /\ CodedRects(u, box) = 0 => u.encoding = "tight" /\ u.lastRect
         /\ CodedRects(u, box) # 0 => Len(SendRect(u, box)) = CodedRects(u, box)
<1>0. box.w \in Nat \ {0} /\ box.h \in Nat \ {0} /\ \A a, b \in Nat \ {0} : a * b \in Nat \ {0}
  BY Boxes
<1>1. CASE u.encoding = "corre"
  <2>1. /\ SendRect(u, box) = rfbSendRectEncodingCoRRE(box)
        /\ CodedRects(u, box) = Pieces(box.w, CorreMax.w) * Pieces(box.h, CorreMax.h)
    BY <1>1 DEF SendRect, CodedRects
  <2>2. CorreMax.w \in Nat \ {0} /\ CorreMax.h \in Nat \ {0}
    BY RectanglesAssumption DEF Size
  <2>3. Pieces(box.w, CorreMax.w) \in Nat \ {0} /\ Pieces(box.h, CorreMax.h) \in Nat \ {0}
    BY <1>0, <2>2, PiecesAre
  <2>4. CodedRects(u, box) \in Nat \ {0}
    BY <1>0, <2>1, <2>3
  <2>5. Makes(SendRect(u, box), u, Pixels(box)) /\ Len(SendRect(u, box)) = CodedRects(u, box)
    BY <1>1, <2>1, CorreMakes
  <2> QED
    BY <2>4, <2>5
<1>2. CASE u.encoding = "zlib"
  <2>1. SendRect(u, box) = rfbSendRectEncodingZlib(box) /\ CodedRects(u, box) = Pieces(box.h, MaxLines(box.w))
    BY <1>2 DEF SendRect, CodedRects
  <2>2. MaxLines(box.w) \in Nat \ {0}
    BY <1>0, LinesAre
  <2>3. CodedRects(u, box) \in Nat \ {0}
    BY <1>0, <2>1, <2>2, PiecesAre
  <2>4. Makes(SendRect(u, box), u, Pixels(box)) /\ Len(SendRect(u, box)) = CodedRects(u, box)
    BY <1>2, <2>1, ZlibMakes
  <2> QED
    BY <2>3, <2>4
<1>3. CASE u.encoding = "tight"
  <2>1. /\ SendRect(u, box) = rfbSendRectEncodingTight(u, box)
        /\ CodedRects(u, box) = rfbNumCodedRectsTight(box, u.level, u.lastRect)
    BY <1>3 DEF SendRect, CodedRects
  <2>2. u.level \in Levels /\ u.lastRect \in BOOLEAN
    BY <1>3 DEF Update
  <2>3. Makes(rfbSendRectEncodingTight(u, box), u, Pixels(box))
    BY <1>3, <2>2, TightMakes
  <2>4. LET coded == rfbNumCodedRectsTight(box, u.level, u.lastRect)
        IN /\ coded \in Nat
           /\ coded = 0 => u.lastRect
           /\ coded # 0 => Len(rfbSendRectEncodingTight(u, box)) = coded
    BY <1>3, <2>2, TightIsCounted
  <2> QED
    BY <1>3, <2>1, <2>3, <2>4
<1>4. CASE u.encoding = "whole"
  <2>1. SendRect(u, box) = <<Part(box, FALSE)>> /\ CodedRects(u, box) = 1
    BY <1>4 DEF SendRect, CodedRects
  <2>2. Makes(<<Part(box, FALSE)>>, u, Pixels(box)) /\ Len(<<Part(box, FALSE)>>) = 1
    BY <1>4, WholeMakes
  <2>3. Makes(SendRect(u, box), u, Pixels(box)) /\ Len(SendRect(u, box)) = CodedRects(u, box)
    BY <2>1, <2>2, Zenon
  <2>4. CodedRects(u, box) \in Nat /\ CodedRects(u, box) # 0
    BY <2>1
  <2> QED
    BY <2>3, <2>4
<1> QED
  BY <1>1, <1>2, <1>3, <1>4 DEF Update, Encoding

-----------------------------------------------------------------------------
(* Scaling.                                                                *)

\* What shows something of what: pixel p of n scaled ones, pixel q of s.  With a gap of one
\* they may also lie side by side.
Shows(p, q, n, s, gap) == q * n < (p + 1) * s + gap /\ p * s < (q + 1) * n + gap

\* Along one axis: w pixels from x on are all that show something of n pixels from b on, of
\* s that are scaled to t, and none of them is apart from these.
AxisScales(s, t, b, n, x, w) ==
  /\ x \in Nat /\ w \in Nat \ {0} /\ x + w <= t
  /\ \A p \in Int : (\E q \in b .. b + n - 1 : Shows(p, q, t, s, 0)) => x <= p /\ p < x + w
  /\ \A p \in Int : x <= p /\ p < x + w => \E q \in b .. b + n - 1 : Shows(p, q, t, s, 1)

LEMMA FloorsAndCeils ==
  ASSUME NEW n \in Nat, NEW d \in Nat \ {0}
  PROVE  /\ \A f \in Floors(n, d) : f \in Nat /\ f * d <= n /\ n <= (f + 1) * d
         /\ \A c \in Ceils(n, d) : c \in Nat \ {0} /\ (c - 1) * d <= n /\ n <= c * d
<1>1. n \div d \in Int
  BY Quotient
<1>2. ASSUME NEW f \in Floors(n, d) PROVE f \in Nat /\ f * d <= n /\ n <= (f + 1) * d
  <2>1. f \in Nat /\ f <= n \div d /\ n <= (f + 1) * d
    BY <1>1 DEF Floors
  <2> QED
    BY <2>1, QuotientIsLeast
<1>3. ASSUME NEW c \in Ceils(n, d) PROVE c \in Nat \ {0} /\ (c - 1) * d <= n /\ n <= c * d
  <2>1. c \in Nat \ {0} /\ c - 1 \in Int /\ c - 1 <= n \div d /\ n <= c * d
    BY <1>1 DEF Ceils
  <2> QED
    BY <2>1, QuotientIsLeast
<1> QED
  BY <1>2, <1>3

LEMMA AxisIsScaled ==
  ASSUME NEW s \in Nat \ {0}, NEW t \in Nat \ {0}, NEW b \in Nat, NEW n \in Nat \ {0}, b + n <= s,
         NEW x \in Floors(b * t, s), NEW right \in Ceils((b + n) * t, s)
  PROVE  AxisScales(s, t, b, n, x, Min({Max({1, right - x}), t - x}))
<1> DEFINE e == b + n
           B == b * t
           E == e * t
           w == Min({Max({1, right - x}), t - x})
<1>1. e \in Nat /\ b + 1 <= e /\ B \in Nat /\ E \in Nat /\ e <= s
  OBVIOUS
<1>2. /\ x \in Nat /\ x * s <= B /\ B <= (x + 1) * s
      /\ right \in Nat \ {0} /\ (right - 1) * s <= E /\ E <= right * s
  <2> HIDE DEF B, E
  <2> QED
    BY <1>1, FloorsAndCeils DEF B, E
<1>3. \A i, j \in Int : i <= j => i * t \in Int /\ j * t \in Int /\ i * t <= j * t
  BY Times
<1>4. \A i, j \in Int : i <= j => i * s \in Int /\ j * s \in Int /\ i * s <= j * s
  BY Times
<1>5. t * s = s * t /\ t * s \in Int
  OBVIOUS
<1>6. B + t <= E /\ E <= t * s
  <2>1. (b + 1) * t <= e * t /\ (b + 1) * t = b * t + t
    BY <1>1, <1>3
  <2>2. e * t <= s * t
    BY <1>1, <1>3
  <2> QED
    BY <1>5, <2>1, <2>2
<1> HIDE DEF B, E, e
<1>7. \A i, j \in Int : i * s < j * s => i < j
  <2> SUFFICES ASSUME NEW i \in Int, NEW j \in Int, i * s < j * s PROVE i < j
    OBVIOUS
  <2>1. j <= i => j * s \in Int /\ i * s \in Int /\ j * s <= i * s
    BY <1>4
  <2> QED
    BY <2>1
<1>8. \A i \in Int : i * s \in Int
  BY <1>4
<1>9. x < right /\ x < t
  <2>1. x * s \in Int /\ right * s \in Int
    BY <1>2, <1>8
  <2>2. x * s < right * s /\ x * s < t * s
    BY <1>1, <1>2, <1>5, <1>6, <2>1
  <2> QED
    BY <1>2, <1>7, <2>2
<1>10. w \in Nat \ {0} /\ x + w <= t /\ x + w <= right /\ \A p \in Int : p < right /\ p < t => p < x + w
  <2>1. Max({1, right - x}) = right - x
    <3>1. right - x \in Int /\ 1 \in Int /\ 1 <= right - x
      BY <1>2, <1>9
    <3>2. Max({1, right - x}) = IF 1 >= right - x THEN 1 ELSE right - x
      BY <3>1, MinOfTwo
    <3> QED
      BY <3>1, <3>2
  <2>2. Min({right - x, t - x}) = IF right - x <= t - x THEN right - x ELSE t - x
    <3>1. right - x \in Int /\ t - x \in Int
      BY <1>2
    <3> QED
      BY <3>1, MinOfTwo
  <2>3. w = IF right - x <= t - x THEN right - x ELSE t - x
    BY <2>1, <2>2
  <2> HIDE DEF w
  <2> QED
    BY <1>2, <1>9, <2>3
<1> HIDE DEF w
<1>11. ASSUME NEW p \in Int, NEW q \in b .. e - 1, Shows(p, q, t, s, 0) PROVE x <= p /\ p < x + w
  <2>1. q \in Int /\ b <= q /\ q + 1 <= e /\ q + 1 \in Int /\ b \in Int
    BY <1>1
  <2>2. B <= q * t /\ (q + 1) * t <= E /\ q * t \in Int /\ (q + 1) * t \in Int
    BY <1>1, <1>3, <2>1 DEF B, E
  <2>3. q * t < (p + 1) * s + 0 /\ p * s < (q + 1) * t + 0
    BY <1>11 DEF Shows
  <2>4. p * s \in Int /\ (p + 1) * s \in Int /\ x * s \in Int /\ right * s \in Int
    BY <1>2, <1>8
  <2>5. x * s < (p + 1) * s /\ p * s < right * s /\ p * s < t * s
    BY <1>1, <1>2, <1>5, <1>6, <2>2, <2>3, <2>4
  <2>6. x < p + 1 /\ p < right /\ p < t
    BY <1>2, <1>7, <2>5
  <2>7. p < x + w
    BY <1>10, <2>6
  <2> QED
    BY <1>2, <2>6, <2>7
<1>12. ASSUME NEW p \in Int, x <= p, p < x + w PROVE \E q \in b .. e - 1 : Shows(p, q, t, s, 1)
  <2> DEFINE P == p * s
             N == (p + 1) * s
             k == P \div t
  <2>1. P \in Int /\ N \in Int /\ P <= N /\ B <= N /\ P <= E
    <3>1. p <= p + 1 /\ x + 1 <= p + 1 /\ p <= right - 1
      BY <1>2, <1>10, <1>12
    <3>2. p * s <= (p + 1) * s /\ (x + 1) * s <= (p + 1) * s /\ p * s <= (right - 1) * s
      BY <1>2, <1>4, <3>1
    <3>3. p * s \in Int /\ (p + 1) * s \in Int /\ (x + 1) * s \in Int /\ (right - 1) * s \in Int
      BY <1>2, <1>8
    <3> QED
      BY <1>1, <1>2, <3>2, <3>3
  <2>2. k \in Int /\ t * k <= P /\ P < t * k + t
    <3> HIDE DEF P
    <3> QED
      BY <2>1, Quotient
  <2> HIDE DEF k
  <2>3. k * t = t * k /\ (k + 1) * t = t * k + t /\ t * k \in Int
    BY <2>2
  <2>4. \A q \in Int : q * t < N + 1 /\ P < (q + 1) * t + 1 => Shows(p, q, t, s, 1)
    BY DEF Shows
  <2> HIDE DEF P, N
  <2>5. CASE k <= b
    <3>1. b \in b .. e - 1
      BY <1>1
    <3>2. (k + 1) * t <= (b + 1) * t /\ (b + 1) * t \in Int
      BY <1>3, <2>2, <2>5
    <3>3. b * t < N + 1 /\ P < (b + 1) * t + 1
      BY <1>1, <2>1, <2>2, <2>3, <3>2 DEF B
    <3> QED
      BY <2>4, <3>1, <3>3
  <2>6. CASE ~(k <= b) /\ k <= e - 1
    <3>1. k \in b .. e - 1
      BY <1>1, <2>2, <2>6
    <3>2. k * t < N + 1 /\ P < (k + 1) * t + 1
      BY <2>1, <2>2, <2>3
    <3> QED
      BY <2>4, <3>1, <3>2
  <2>7. CASE ~(k <= e - 1)
    <3>1. e - 1 \in b .. e - 1 /\ e - 1 \in Int /\ e - 1 <= k /\ (e - 1) + 1 = e
      BY <1>1, <2>2, <2>7
    <3>2. (e - 1) * t <= k * t /\ (e - 1) * t \in Int
      BY <1>3, <2>2, <3>1
    <3>3. (e - 1) * t < N + 1 /\ P < ((e - 1) + 1) * t + 1
      BY <1>1, <2>1, <2>2, <2>3, <3>1, <3>2 DEF E
    <3> QED
      BY <2>4, <3>1, <3>3
  <2> QED
    BY <2>5, <2>6, <2>7
<1>13. \A p \in Int : (\E q \in b .. e - 1 : Shows(p, q, t, s, 0)) => x <= p /\ p < x + w
  BY <1>11
<1>14. \A p \in Int : x <= p /\ p < x + w => \E q \in b .. e - 1 : Shows(p, q, t, s, 1)
  BY <1>12
<1>15. AxisScales(s, t, b, n, x, w)
  <2>1. e - 1 = b + n - 1
    BY DEF e
  <2>2. x \in Nat /\ w \in Nat \ {0} /\ x + w <= t
    BY <1>2, <1>10
  <2> QED
    BY <1>13, <1>14, <2>1, <2>2, Zenon DEF AxisScales
<1> QED
  BY <1>15 DEF w

\* Where nothing is scaled a pixel shows itself.
LEMMA ShowsItself ==
  ASSUME NEW p \in Int, NEW q \in Int, NEW n \in Nat \ {0}
  PROVE  Shows(p, q, n, n, 0) <=> p = q
<1>1. /\ p * n \in Int /\ q * n \in Int /\ (p + 1) * n = p * n + n /\ (q + 1) * n = q * n + n
  OBVIOUS
<1>2. p + 1 <= q => (p + 1) * n <= q * n
  BY Times
<1>3. q + 1 <= p => (q + 1) * n <= p * n
  BY Times
<1> QED
  BY <1>1, <1>2, <1>3 DEF Shows

\* A rectangle that is on the screen.
OnScreen(box) == box \in Rectangle /\ box.x + box.w <= Screen.w /\ box.y + box.h <= Screen.h

\* That pixel of a scaled screen shows something of that pixel.
ShowsPixel(p, q, to, gap) ==
  Shows(p[1], q[1], to.w, Screen.w, gap) /\ Shows(p[2], q[2], to.h, Screen.h, gap)

\* Of a rectangle, axis by axis.
LEMMA ShowsByAxis ==
  ASSUME NEW box, NEW to, NEW p, NEW gap
  PROVE  (\E q \in Pixels(box) : ShowsPixel(p, q, to, gap)) <=>
           /\ \E i \in box.x .. box.x + box.w - 1 : Shows(p[1], i, to.w, Screen.w, gap)
           /\ \E j \in box.y .. box.y + box.h - 1 : Shows(p[2], j, to.h, Screen.h, gap)
<1> DEFINE I == box.x .. box.x + box.w - 1
           J == box.y .. box.y + box.h - 1
           s == Screen
<1>1. Pixels(box) = I \X J
  BY DEF Pixels
<1> HIDE DEF I, J
<1>2. ASSUME NEW q \in I \X J, ShowsPixel(p, q, to, gap)
      PROVE  (\E i \in I : Shows(p[1], i, to.w, s.w, gap)) /\ (\E j \in J : Shows(p[2], j, to.h, s.h, gap))
  <2>1. q[1] \in I /\ q[2] \in J
    OBVIOUS
  <2>2. Shows(p[1], q[1], to.w, s.w, gap) /\ Shows(p[2], q[2], to.h, s.h, gap)
    BY <1>2 DEF ShowsPixel
  <2> QED
    BY <2>1, <2>2
<1>3. ASSUME NEW i \in I, NEW j \in J, Shows(p[1], i, to.w, s.w, gap), Shows(p[2], j, to.h, s.h, gap)
      PROVE  \E q \in I \X J : ShowsPixel(p, q, to, gap)
  <2>1. <<i, j>> \in I \X J /\ <<i, j>>[1] = i /\ <<i, j>>[2] = j
    OBVIOUS
  <2>2. ShowsPixel(p, <<i, j>>, to, gap)
    BY <1>3, <2>1 DEF ShowsPixel
  <2> QED
    BY <2>1, <2>2
<1> QED
  BY <1>1, <1>2, <1>3 DEF I, J

\* What a rectangle becomes: on the scaled screen, all that shows something of it, and
\* nothing apart from it.
LEMMA ScaledIs ==
  ASSUME NEW box, OnScreen(box), NEW to \in Size, NEW r \in rfbScaledCorrection(box, to)
  PROVE  /\ r \in Rectangle /\ r.x + r.w <= to.w /\ r.y + r.h <= to.h
         /\ \A p \in Int \X Int : (\E q \in Pixels(box) : ShowsPixel(p, q, to, 0)) => p \in Pixels(r)
         /\ \A p \in Pixels(r) : \E q \in Pixels(box) : ShowsPixel(p, q, to, Gap(to))
         /\ to = Screen => r = box
<1>1. /\ box \in Rectangle /\ box.x \in Nat /\ box.y \in Nat /\ box.w \in Nat \ {0} /\ box.h \in Nat \ {0}
      /\ box = Box(box.x, box.y, box.w, box.h)
      /\ box.x + box.w <= Screen.w /\ box.y + box.h <= Screen.h
  BY Boxes DEF OnScreen
<1>2. Screen.w \in Nat \ {0} /\ Screen.h \in Nat \ {0} /\ to.w \in Nat \ {0} /\ to.h \in Nat \ {0}
  BY RectanglesAssumption DEF Size
<1>3. CASE to = Screen
  <2>1. r = box /\ Gap(to) = 0
    BY <1>3 DEF rfbScaledCorrection, Gap
  <2>2. ASSUME NEW p \in Int \X Int, NEW q \in Pixels(box) PROVE ShowsPixel(p, q, to, 0) <=> p = q
    <3>1. q \in Int \X Int
      BY <1>1, InPixels
    <3>2. /\ p = <<p[1], p[2]>> /\ p[1] \in Int /\ p[2] \in Int
          /\ q = <<q[1], q[2]>> /\ q[1] \in Int /\ q[2] \in Int
      BY <3>1
    <3>3. /\ Shows(p[1], q[1], to.w, Screen.w, 0) <=> p[1] = q[1]
          /\ Shows(p[2], q[2], to.h, Screen.h, 0) <=> p[2] = q[2]
      BY <1>2, <1>3, <3>2, ShowsItself
    <3> QED
      BY <3>2, <3>3 DEF ShowsPixel
  <2>3. \A p \in Pixels(box) : p \in Int \X Int
    BY <1>1, InPixels
  <2> QED
    BY <1>1, <1>3, <2>1, <2>2, <2>3
<1>4. CASE to # Screen
  <2>0. Gap(to) = 1
    BY <1>4 DEF Gap
  <2>1. PICK x \in Floors(box.x * to.w, Screen.w), right \in Ceils((box.x + box.w) * to.w, Screen.w),
             y \in Floors(box.y * to.h, Screen.h), bottom \in Ceils((box.y + box.h) * to.h, Screen.h) :
             r = Between(x, y, right, bottom, to)
    BY <1>4 DEF rfbScaledCorrection
  <2> DEFINE w == Min({Max({1, right - x}), to.w - x})
             h == Min({Max({1, bottom - y}), to.h - y})
  <2>2. AxisScales(Screen.w, to.w, box.x, box.w, x, w)
    BY <1>1, <1>2, AxisIsScaled
  <2>3. AxisScales(Screen.h, to.h, box.y, box.h, y, h)
    BY <1>1, <1>2, AxisIsScaled
  <2>4. r = Box(x, y, w, h)
    BY <2>1 DEF Between
  <2> HIDE DEF w, h
  <2>5. x \in Nat /\ y \in Nat /\ w \in Nat \ {0} /\ h \in Nat \ {0} /\ x + w <= to.w /\ y + h <= to.h
    BY <2>2, <2>3 DEF AxisScales
  <2>6. r \in Rectangle /\ r.x = x /\ r.y = y /\ r.w = w /\ r.h = h
    <3>1. Box(x, y, w, h) \in Rectangle
      BY <2>5, Boxes, Zenon
    <3>2. /\ Box(x, y, w, h).x = x /\ Box(x, y, w, h).y = y
          /\ Box(x, y, w, h).w = w /\ Box(x, y, w, h).h = h
      BY DEF Box
    <3> QED
      BY <2>4, <3>1, <3>2, Zenon
  <2>7. \A p : p \in Pixels(r) <=> /\ p \in Int \X Int /\ x <= p[1] /\ p[1] < x + w
                                   /\ y <= p[2] /\ p[2] < y + h
    BY <2>4, <2>5, InPixels
  <2>8. ASSUME NEW p \in Int \X Int, \E q \in Pixels(box) : ShowsPixel(p, q, to, 0)
        PROVE  p \in Pixels(r)
    <3>1. p[1] \in Int /\ p[2] \in Int
      OBVIOUS
    <3>2. /\ \E i \in box.x .. box.x + box.w - 1 : Shows(p[1], i, to.w, Screen.w, 0)
          /\ \E j \in box.y .. box.y + box.h - 1 : Shows(p[2], j, to.h, Screen.h, 0)
      BY <2>8, ShowsByAxis
    <3>3. x <= p[1] /\ p[1] < x + w
      BY <2>2, <3>1, <3>2, Zenon DEF AxisScales
    <3>4. y <= p[2] /\ p[2] < y + h
      BY <2>3, <3>1, <3>2, Zenon DEF AxisScales
    <3> QED
      BY <2>7, <3>3, <3>4
  <2>9. ASSUME NEW p \in Pixels(r) PROVE \E q \in Pixels(box) : ShowsPixel(p, q, to, 1)
    <3>1. p \in Int \X Int /\ x <= p[1] /\ p[1] < x + w /\ y <= p[2] /\ p[2] < y + h
      BY <2>7
    <3>2. p[1] \in Int /\ p[2] \in Int
      BY <3>1
    <3>3. \E i \in box.x .. box.x + box.w - 1 : Shows(p[1], i, to.w, Screen.w, 1)
      BY <2>2, <3>1, <3>2, Zenon DEF AxisScales
    <3>4. \E j \in box.y .. box.y + box.h - 1 : Shows(p[2], j, to.h, Screen.h, 1)
      BY <2>3, <3>1, <3>2, Zenon DEF AxisScales
    <3> QED
      BY <3>3, <3>4, ShowsByAxis
  <2> QED
    BY <1>4, <2>0, <2>5, <2>6, <2>8, <2>9
<1> QED
  BY <1>3, <1>4

\* Those pixels are on the scaled screen.
LEMMA ScaledIsShown ==
  ASSUME NEW box, OnScreen(box), NEW to \in Size, NEW r \in rfbScaledCorrection(box, to), NEW p
  PROVE  /\ p \in Pixels(Box(0, 0, to.w, to.h)) /\ (\E q \in Pixels(box) : ShowsPixel(p, q, to, 0))
              => p \in Pixels(r)
         /\ p \in Pixels(r) => /\ p \in Pixels(Box(0, 0, to.w, to.h))
                               /\ \E q \in Pixels(box) : ShowsPixel(p, q, to, Gap(to))
<1>1. /\ r \in Rectangle /\ r.x + r.w <= to.w /\ r.y + r.h <= to.h
      /\ \A o \in Int \X Int : (\E q \in Pixels(box) : ShowsPixel(o, q, to, 0)) => o \in Pixels(r)
      /\ \A o \in Pixels(r) : \E q \in Pixels(box) : ShowsPixel(o, q, to, Gap(to))
  BY ScaledIs
<1>2. r.x \in Nat /\ r.y \in Nat /\ r.w \in Nat /\ r.h \in Nat /\ r = Box(r.x, r.y, r.w, r.h)
  BY <1>1, Boxes
<1>3. to.w \in Nat /\ to.h \in Nat
  BY DEF Size
<1>4. p \in Pixels(r) => /\ p \in Int \X Int /\ r.x <= p[1] /\ p[1] < r.x + r.w
                         /\ r.y <= p[2] /\ p[2] < r.y + r.h
  BY <1>2, InPixels
<1>5. p \in Pixels(Box(0, 0, to.w, to.h)) <=> /\ p \in Int \X Int /\ 0 <= p[1] /\ p[1] < 0 + to.w
                                              /\ 0 <= p[2] /\ p[2] < 0 + to.h
  BY <1>3, InPixels
<1>6. p \in Int \X Int => p[1] \in Int /\ p[2] \in Int
  OBVIOUS
<1>7. p \in Pixels(r) => p \in Pixels(Box(0, 0, to.w, to.h))
  BY <1>1, <1>2, <1>3, <1>4, <1>5, <1>6
<1> QED
  BY <1>1, <1>5, <1>7

-----------------------------------------------------------------------------
(* The update.                                                             *)

\* Rectangles apart, on the screen.
GoodArea(area) ==
  /\ area \in Seq(Rectangle) /\ area # <<>>
  /\ \A i \in DOMAIN area : OnScreen(area[i])
  /\ \A i, j \in DOMAIN area : i # j => Disjoint(area[i], area[j])

LEMMA AreasAreGood ==
  ASSUME NEW area \in Areas PROVE GoodArea(area)
<1>1. /\ area \in Seq(Rectangle) \ {<<>>}
      /\ \A i \in DOMAIN area : /\ area[i].x + area[i].w <= Screen.w
                               /\ area[i].y + area[i].h <= Screen.h
                               /\ \A j \in DOMAIN area \ {i} : Disjoint(area[i], area[j])
  BY RectanglesAssumption
<1>2. \A i \in DOMAIN area : area[i] \in Rectangle
  BY <1>1, ElementOfSeq, LenProperties
<1>3. \A i \in DOMAIN area : OnScreen(area[i])
  BY <1>1, <1>2 DEF OnScreen
<1> QED
  BY <1>1, <1>3 DEF GoodArea

LEMMA UpdatesAre ==
  ASSUME NEW area \in Areas, NEW to \in Scales, NEW u \in Updates(area, to)
  PROVE  Update(u) /\ u.area = area /\ u.to = to /\ to \in Size /\ GoodArea(u.area) /\ u # NoUpdate
<1>1. Update(u) /\ u.area = area /\ u.to = to
  <2>1. CASE u \in [area : {area}, to : {to}, encoding : Encoding \ {"tight"}]
    BY <2>1 DEF Update
  <2>2. CASE u \in [area : {area}, to : {to}, encoding : {"tight"}, level : Levels, lastRect : {FALSE}]
    BY <2>2 DEF Update, Encoding
  <2>3. CASE u \in [area : {area}, to : {to}, encoding : {"tight"}, level : Levels, lastRect : {TRUE},
                    scene : Scenes[to]]
    BY <2>3 DEF Update, Encoding
  <2> QED
    BY <2>1, <2>2, <2>3 DEF Updates
<1>2. GoodArea(area) /\ to \in Size
  BY AreasAreGood, RectanglesAssumption
<1>3. area # <<>> /\ NoUpdate.area = <<>>
  BY <1>2 DEF GoodArea, NoUpdate
<1> QED
  BY <1>1, <1>2, <1>3

LEMMA BBoxIs ==
  ASSUME NEW area, GoodArea(area)
  PROVE  OnScreen(BBox(area)) /\ \A i \in DOMAIN area : Pixels(area[i]) \subseteq Pixels(BBox(area))
<1> DEFINE X == {area[i].x : i \in DOMAIN area}
           Y == {area[i].y : i \in DOMAIN area}
           R == {area[i].x + area[i].w : i \in DOMAIN area}
           B == {area[i].y + area[i].h : i \in DOMAIN area}
           D == DOMAIN area
<1>1. Screen.w \in Nat /\ Screen.h \in Nat
  BY RectanglesAssumption DEF Size
<1>2. ASSUME NEW i \in D
      PROVE  /\ area[i].x \in Nat /\ area[i].y \in Nat /\ area[i].w \in Nat \ {0} /\ area[i].h \in Nat \ {0}
             /\ area[i].x + area[i].w <= Screen.w /\ area[i].y + area[i].h <= Screen.h
             /\ area[i] = Box(area[i].x, area[i].y, area[i].w, area[i].h)
  <2>1. OnScreen(area[i])
    BY DEF GoodArea
  <2> QED
    BY <2>1, Boxes DEF OnScreen
<1>3. PICK k \in D : TRUE
  <2>1. area \in Seq(Rectangle) /\ area # <<>>
    BY DEF GoodArea
  <2>2. Len(area) \in Nat /\ Len(area) # 0 /\ DOMAIN area = 1 .. Len(area)
    BY <2>1, EmptySeq, LenProperties
  <2>3. 1 \in DOMAIN area
    BY <2>2
  <2> QED
    BY <2>3
<1> HIDE DEF D
<1>4. \A i \in D : area[i].x \in X /\ area[i].y \in Y /\ area[i].x + area[i].w \in R /\ area[i].y + area[i].h \in B
  BY DEF D
<1>5. /\ X \in SUBSET (0 .. Screen.w) /\ X # {}
      /\ R \in SUBSET (0 .. Screen.w) /\ R # {}
  <2>1. ASSUME NEW v \in X PROVE v \in 0 .. Screen.w
    <3>1. PICK i \in D : v = area[i].x
      BY DEF D
    <3> QED
      BY <1>1, <1>2, <3>1
  <2>2. ASSUME NEW v \in R PROVE v \in 0 .. Screen.w
    <3>1. PICK i \in D : v = area[i].x + area[i].w
      BY DEF D
    <3> QED
      BY <1>1, <1>2, <3>1
  <2> HIDE DEF X, R
  <2> QED
    BY <1>3, <1>4, <2>1, <2>2
<1>6. /\ Y \in SUBSET (0 .. Screen.h) /\ Y # {}
      /\ B \in SUBSET (0 .. Screen.h) /\ B # {}
  <2>1. ASSUME NEW v \in Y PROVE v \in 0 .. Screen.h
    <3>1. PICK i \in D : v = area[i].y
      BY DEF D
    <3> QED
      BY <1>1, <1>2, <3>1
  <2>2. ASSUME NEW v \in B PROVE v \in 0 .. Screen.h
    <3>1. PICK i \in D : v = area[i].y + area[i].h
      BY DEF D
    <3> QED
      BY <1>1, <1>2, <3>1
  <2> HIDE DEF Y, B
  <2> QED
    BY <1>3, <1>4, <2>1, <2>2
<1> DEFINE x == Min(X)
           y == Min(Y)
           r == Max(R)
           b == Max(B)
<1>7. BBox(area) = Box(x, y, r - x, b - y)
  BY DEF BBox
<1> HIDE DEF X, Y, R, B
<1>8. x \in 0 .. Screen.w /\ \A v \in X : x <= v
  <2>1. 0 \in Int /\ Screen.w \in Int
    BY <1>1
  <2>2. Min(X) \in X /\ \A v \in X : Min(X) <= v /\ v <= Max(X)
    BY <1>5, <2>1, Extremes
  <2> QED
    BY <1>5, <2>2
<1>9. r \in 0 .. Screen.w /\ \A v \in R : v <= r
  <2>1. 0 \in Int /\ Screen.w \in Int
    BY <1>1
  <2>2. Max(R) \in R /\ \A v \in R : Min(R) <= v /\ v <= Max(R)
    BY <1>5, <2>1, Extremes
  <2> QED
    BY <1>5, <2>2
<1>10. y \in 0 .. Screen.h /\ \A v \in Y : y <= v
  <2>1. 0 \in Int /\ Screen.h \in Int
    BY <1>1
  <2>2. Min(Y) \in Y /\ \A v \in Y : Min(Y) <= v /\ v <= Max(Y)
    BY <1>6, <2>1, Extremes
  <2> QED
    BY <1>6, <2>2
<1>11. b \in 0 .. Screen.h /\ \A v \in B : v <= b
  <2>1. 0 \in Int /\ Screen.h \in Int
    BY <1>1
  <2>2. Max(B) \in B /\ \A v \in B : Min(B) <= v /\ v <= Max(B)
    BY <1>6, <2>1, Extremes
  <2> QED
    BY <1>6, <2>2
<1> HIDE DEF x, y, r, b
<1>12. \A i \in D : /\ x <= area[i].x /\ area[i].x + area[i].w <= r
                    /\ y <= area[i].y /\ area[i].y + area[i].h <= b
  BY <1>4, <1>8, <1>9, <1>10, <1>11
<1>13. /\ x \in Nat /\ y \in Nat /\ r - x \in Nat \ {0} /\ b - y \in Nat \ {0}
       /\ x + (r - x) = r /\ y + (b - y) = b /\ r <= Screen.w /\ b <= Screen.h
  <2>1. x <= area[k].x /\ area[k].x + area[k].w <= r /\ y <= area[k].y /\ area[k].y + area[k].h <= b
    BY <1>12
  <2> QED
    BY <1>1, <1>2, <1>8, <1>9, <1>10, <1>11, <2>1
<1>14. OnScreen(BBox(area))
  <2>1. Box(x, y, r - x, b - y) \in Rectangle
    BY <1>13, Boxes
  <2> QED
    BY <1>7, <1>13, <2>1, Boxes DEF OnScreen
<1>15. ASSUME NEW i \in D, NEW p \in Pixels(area[i]) PROVE p \in Pixels(BBox(area))
  <2>1. /\ p \in Int \X Int /\ area[i].x <= p[1] /\ p[1] < area[i].x + area[i].w
        /\ area[i].y <= p[2] /\ p[2] < area[i].y + area[i].h
    BY <1>2, InPixels
  <2>2. p[1] \in Int /\ p[2] \in Int
    BY <2>1
  <2>3. x <= p[1] /\ p[1] < r /\ y <= p[2] /\ p[2] < b
    BY <1>2, <1>8, <1>9, <1>10, <1>11, <1>12, <2>1, <2>2
  <2>4. x \in Int /\ y \in Int /\ r - x \in Int /\ b - y \in Int
    BY <1>13
  <2>5. p \in Pixels(Box(x, y, r - x, b - y)) <=> /\ p \in Int \X Int /\ x <= p[1] /\ p[1] < x + (r - x)
                                                   /\ y <= p[2] /\ p[2] < y + (b - y)
    BY <2>4, InPixels
  <2> QED
    BY <1>7, <1>13, <2>1, <2>3, <2>5
<1> QED
  BY <1>14, <1>15 DEF D

\* What is sent is the update, or, where its rectangles are too many, the one around them.
LEMMA SentIs ==
  ASSUME NEW area \in Areas, NEW to \in Scales, NEW u \in Updates(area, to)
  PROVE  LET v == Sent(u)
         IN /\ GoodArea(v.area) /\ v.to = to
            /\ Len(u.area) <= MaxRectsPerUpdate => v = u
            /\ \A i \in DOMAIN u.area : \E j \in DOMAIN v.area : Pixels(u.area[i]) \subseteq Pixels(v.area[j])
<1> DEFINE many == u.encoding = "whole" /\ Len(u.area) > MaxRectsPerUpdate
           v == Sent(u)
<1>0. u.area = area /\ u.to = to /\ GoodArea(u.area)
  BY UpdatesAre
<1>1. Len(u.area) \in Nat /\ MaxRectsPerUpdate \in Nat
  BY <1>0, RectanglesAssumption, LenProperties DEF GoodArea
<1>2. CASE ~many
  <2>1. v = u
    BY <1>2 DEF Sent
  <2>2. \A i \in DOMAIN u.area : Pixels(u.area[i]) \subseteq Pixels(u.area[i])
    OBVIOUS
  <2> HIDE DEF v
  <2>3. \A i \in DOMAIN u.area : \E j \in DOMAIN v.area : Pixels(u.area[i]) \subseteq Pixels(v.area[j])
    BY <2>1, <2>2
  <2> QED
    BY <1>0, <2>1, <2>3 DEF v
<1>3. CASE many
  <2> DEFINE b == BBox(u.area)
  <2>1. v = [u EXCEPT !.area = <<b>>]
    BY <1>3 DEF Sent
  <2>2. u \in [area : {area}, to : {to}, encoding : Encoding \ {"tight"}]
    BY <1>3 DEF Updates
  <2>3. OnScreen(b) /\ \A i \in DOMAIN area : Pixels(area[i]) \subseteq Pixels(b)
    BY <1>0, BBoxIs
  <2> HIDE DEF b, v
  <2>4. v.area = <<b>> /\ v.to = to /\ v.encoding = "whole"
    BY <1>3, <2>1, <2>2
  <2>5. DOMAIN <<b>> = {1} /\ <<b>>[1] = b /\ <<b>> # <<>>
    OBVIOUS
  <2>6. <<b>> \in Seq(Rectangle)
    BY <2>3 DEF OnScreen
  <2>7. GoodArea(v.area)
    BY <2>3, <2>4, <2>5, <2>6 DEF GoodArea
  <2>8. \A i \in DOMAIN u.area : \E j \in DOMAIN v.area : Pixels(u.area[i]) \subseteq Pixels(v.area[j])
    BY <1>0, <2>3, <2>4, <2>5
  <2>9. ~(Len(u.area) <= MaxRectsPerUpdate)
    BY <1>1, <1>3
  <2> QED
    BY <2>4, <2>7, <2>8, <2>9 DEF v
<1> QED
  BY <1>2, <1>3

LEMMA LengthsExist ==
  ASSUME NEW S, NEW seqs \in Seq(Seq(S))
  PROVE  \E total : Lengths(total, seqs)
<1> DEFINE n == Len(seqs)
           step == [i \in 1 .. n |-> [s \in Nat |-> s + Len(seqs[i])]]
<1>1. n \in Nat /\ 0 \in Nat
  BY LenProperties
<1>2. \A i \in 1 .. n : Len(seqs[i]) \in Nat
  <2>1. \A i \in 1 .. n : seqs[i] \in Seq(S)
    BY ElementOfSeq
  <2> QED
    BY <2>1, LenProperties
<1> HIDE DEF n
<1>3. \A i \in 1 .. n : \A s \in Nat : step[i][s] \in Nat /\ step[i][s] = s + Len(seqs[i])
  BY <1>2
<1> HIDE DEF step
<1>4. PICK total \in [0 .. n -> Nat] : Rounds(total, n, 0, step)
  BY <1>1, <1>3, LoopIsDefined
<1>5. total[0] = 0
  <2>1. 0 \in 0 .. n
    BY <1>1
  <2> QED
    BY <1>4, <2>1 DEF Rounds
<1>6. ASSUME NEW i \in 1 .. n PROVE total[i] = total[i - 1] + Len(seqs[i])
  <2>1. i \in 0 .. n /\ i # 0 /\ i - 1 \in 0 .. n
    BY <1>1
  <2>2. total[i] = step[i][total[i - 1]] /\ total[i - 1] \in Nat
    BY <1>4, <2>1 DEF Rounds
  <2> QED
    BY <1>3, <2>2
<1> QED
  BY <1>5, <1>6 DEF Lengths, n

\* What is announced, when all was counted.
LEMMA AnnouncedIs ==
  ASSUME NEW u, NEW boxes, Len(boxes) \in Nat, \A i \in 1 .. Len(boxes) : CodedRects(u, boxes[i]) \in Nat,
         ~Uncounted(u, boxes)
  PROVE  \E total : /\ total[0] = 0
                    /\ \A i \in 1 .. Len(boxes) : total[i] = total[i - 1] + CodedRects(u, boxes[i])
                    /\ Announced(u, boxes) = total[Len(boxes)] /\ Announced(u, boxes) \in Nat
<1> DEFINE n == Len(boxes)
           c == [i \in 1 .. n |-> CodedRects(u, boxes[i])]
           step == [i \in 1 .. n |-> [s \in Nat |-> s + c[i]]]
           F(f) == f = [i \in 0 .. n |-> IF i = 0 THEN 0 ELSE f[i - 1] + CodedRects(u, boxes[i])]
           total == CHOOSE f : F(f)
<1>1. n \in Nat /\ 0 \in Nat
  OBVIOUS
<1>2. Announced(u, boxes) = total[n]
  BY DEF Announced
<1>3. \A i \in 1 .. n : c[i] \in Nat /\ c[i] = CodedRects(u, boxes[i])
  OBVIOUS
<1> HIDE DEF n, c
<1>4. \A i \in 1 .. n : \A s \in Nat : step[i][s] \in Nat /\ step[i][s] = s + c[i]
  BY <1>3
<1> HIDE DEF step
<1>5. PICK g \in [0 .. n -> Nat] : Rounds(g, n, 0, step)
  BY <1>1, <1>4, LoopIsDefined
<1>6. F(g)
  <2>1. ASSUME NEW i \in 0 .. n
        PROVE  g[i] = IF i = 0 THEN 0 ELSE g[i - 1] + CodedRects(u, boxes[i])
    <3>1. CASE i = 0
      BY <1>5, <3>1 DEF Rounds
    <3>2. CASE i # 0
      <4>1. i \in 1 .. n /\ i - 1 \in 0 .. n
        BY <1>1, <3>2
      <4>2. g[i] = step[i][g[i - 1]] /\ g[i - 1] \in Nat
        BY <1>5, <3>2, <4>1 DEF Rounds
      <4>3. g[i] = g[i - 1] + c[i]
        BY <1>4, <4>1, <4>2
      <4> QED
        BY <1>3, <3>2, <4>1, <4>3
    <3> QED
      BY <3>1, <3>2
  <2> QED
    BY <2>1
<1>7. F(total)
  BY <1>6
<1> HIDE DEF total
<1> DEFINE H(i) == CodedRects(u, boxes[i])
<1>8. total = [i \in 0 .. n |-> IF i = 0 THEN 0 ELSE total[i - 1] + H(i)]
  BY <1>7
<1>9. \A i \in 1 .. n : H(i) \in Nat
  BY <1>3
<1> HIDE DEF H, F
<1>10. total[0] = 0
  BY <1>1, <1>8
<1>11. \A i \in 1 .. n : total[i] = total[i - 1] + H(i)
  <2> SUFFICES ASSUME NEW i \in 1 .. n PROVE total[i] = total[i - 1] + H(i)
    OBVIOUS
  <2>1. i \in 0 .. n /\ i # 0
    BY <1>1
  <2> QED
    BY <1>8, <2>1
<1> DEFINE P == {i \in Nat : i <= n => total[i] \in Nat}
<1>12. P = Nat
  <2>1. 0 \in P
    BY <1>10
  <2>2. ASSUME NEW i \in P PROVE i + 1 \in P
    <3> SUFFICES ASSUME i + 1 <= n PROVE total[i + 1] \in Nat
      OBVIOUS
    <3>1. i \in Nat /\ i + 1 \in 1 .. n /\ (i + 1) - 1 = i /\ total[i] \in Nat
      BY <1>1
    <3>2. total[i + 1] = total[i] + H(i + 1) /\ H(i + 1) \in Nat
      <4>1. total[i + 1] = total[(i + 1) - 1] + H(i + 1)
        BY <1>11, <3>1
      <4> QED
        BY <1>9, <3>1, <4>1
    <3> QED
      BY <3>1, <3>2
  <2>3. P \in SUBSET Nat
    OBVIOUS
  <2> HIDE DEF P
  <2> QED
    BY <2>1, <2>2, <2>3, Induction
<1>13. total[n] \in Nat
  BY <1>1, <1>12
<1> QED
  BY <1>2, <1>10, <1>11, <1>13 DEF n, H

\* What is sent for the rectangles of an update, one after the other.
Sendings(u, boxes) == [i \in DOMAIN boxes |-> SendRect(u, boxes[i])]

LEMMA SendingsAre ==
  ASSUME NEW area \in Areas, NEW to \in Scales, NEW u \in Updates(area, to),
         NEW boxes \in Corrections(Sent(u))
  PROVE  LET v == Sent(u)
             n == Len(v.area)
         IN /\ n \in Nat /\ DOMAIN v.area = 1 .. n /\ DOMAIN boxes = 1 .. n /\ Len(boxes) = n
            /\ Sendings(u, boxes) \in Seq(Seq(GoodParts(u))) /\ Len(Sendings(u, boxes)) = n
            /\ \A i \in 1 .. n : /\ OnScreen(v.area[i]) /\ boxes[i] \in rfbScaledCorrection(v.area[i], to)
                                 /\ Sendings(u, boxes)[i] = SendRect(u, boxes[i])
                                 /\ boxes[i] \in Rectangle
                                 /\ Makes(Sendings(u, boxes)[i], u, Pixels(boxes[i]))
<1> DEFINE v == Sent(u)
           n == Len(v.area)
           S == GoodParts(u)
           seqs == Sendings(u, boxes)
           U == UNION {rfbScaledCorrection(v.area[i], v.to) : i \in DOMAIN v.area}
<1>1. GoodArea(v.area) /\ v.to = to
  BY SentIs
<1>2. Update(u) /\ to \in Size
  BY UpdatesAre
<1>3. n \in Nat /\ DOMAIN v.area = 1 .. n /\ \A i \in 1 .. n : OnScreen(v.area[i])
  BY <1>1, LenProperties DEF GoodArea
<1>4. boxes \in [DOMAIN v.area -> U] /\ \A i \in DOMAIN v.area : boxes[i] \in rfbScaledCorrection(v.area[i], v.to)
  <2> HIDE DEF v
  <2>1. boxes \in Corrections(v)
    BY DEF v
  <2> QED
    BY <2>1 DEF Corrections
<1> HIDE DEF n, seqs, v, U
<1>5. DOMAIN boxes = 1 .. n /\ Len(boxes) = n /\ \A i \in 1 .. n : boxes[i] \in rfbScaledCorrection(v.area[i], to)
  <2>1. boxes \in [1 .. n -> U]
    BY <1>3, <1>4
  <2> QED
    BY <1>1, <1>3, <1>4, <2>1, IsSequence
<1>6. seqs = [i \in 1 .. n |-> SendRect(u, boxes[i])]
  BY <1>5 DEF Sendings, seqs
<1>7. ASSUME NEW i \in 1 .. n
      PROVE  boxes[i] \in Rectangle /\ Makes(seqs[i], u, Pixels(boxes[i])) /\ seqs[i] = SendRect(u, boxes[i])
  <2>1. boxes[i] \in Rectangle
    <3>1. OnScreen(v.area[i]) /\ boxes[i] \in rfbScaledCorrection(v.area[i], to)
      BY <1>3, <1>5
    <3> QED
      BY <1>2, <3>1, ScaledIs
  <2>2. Makes(SendRect(u, boxes[i]), u, Pixels(boxes[i]))
    BY <1>2, <2>1, SendRectMakes
  <2>3. seqs[i] = SendRect(u, boxes[i])
    BY <1>6
  <2> QED
    BY <2>1, <2>2, <2>3
<1>8. \A i \in 1 .. n : seqs[i] \in Seq(S)
  BY <1>7 DEF Makes
<1> HIDE DEF S
<1>9. seqs \in Seq(Seq(S)) /\ Len(seqs) = n
  <2>1. seqs \in [1 .. n -> Seq(S)]
    BY <1>6, <1>8
  <2> QED
    BY <1>3, <2>1, IsSequence
<1> QED
  BY <1>3, <1>5, <1>7, <1>9 DEF n, seqs, S, v

LEMMA ShownIs ==
  ASSUME NEW u, NEW p, NEW gap
  PROVE  p \in Shown(u, gap) <=>
           /\ p \in Pixels(Box(0, 0, u.to.w, u.to.h))
           /\ \E i \in DOMAIN u.area : \E q \in Pixels(u.area[i]) : ShowsPixel(p, q, u.to, gap)
<1> DEFINE P(x) == \E i \in DOMAIN u.area : \E q \in Pixels(u.area[i]) : ShowsPixel(x, q, u.to, gap)
           All == Pixels(Box(0, 0, u.to.w, u.to.h))
<1>1. Shown(u, gap) = {x \in All : P(x)}
  BY Zenon DEF Shown, ShowsPixel, Shows
<1> HIDE DEF P, All
<1>2. p \in Shown(u, gap) <=> p \in All /\ P(p)
  BY <1>1
<1> QED
  BY <1>2 DEF P, All

\* Together they are all that shows the update, and no more than borders on it.
LEMMA SendingsCover ==
  ASSUME NEW area \in Areas, NEW to \in Scales, NEW u \in Updates(area, to),
         NEW boxes \in Corrections(Sent(u))
  PROVE  LET s == FlattenSeq(Sendings(u, boxes))
         IN /\ s \in Seq(GoodParts(u))
            /\ Shown(Sent(u), 0) \subseteq Covered(s) /\ Covered(s) \subseteq Shown(Sent(u), Gap(to))
<1> DEFINE v == Sent(u)
           n == Len(v.area)
           S == GoodParts(u)
           seqs == Sendings(u, boxes)
           C == Covered(FlattenSeq(seqs))
<1>1. /\ n \in Nat /\ DOMAIN v.area = 1 .. n
      /\ seqs \in Seq(Seq(S)) /\ Len(seqs) = n
      /\ \A i \in 1 .. n : /\ OnScreen(v.area[i]) /\ boxes[i] \in rfbScaledCorrection(v.area[i], to)
                           /\ Makes(seqs[i], u, Pixels(boxes[i]))
  BY SendingsAre
<1>2. v.to = to /\ to \in Size
  BY SentIs, UpdatesAre
<1> HIDE DEF v, n, S, seqs
<1>3. PICK total : Lengths(total, seqs)
  BY <1>1, LengthsExist
<1>4. FlattenSeq(seqs) \in Seq(S) /\ C = UNION {Covered(seqs[i]) : i \in DOMAIN seqs}
  BY <1>1, <1>3, AllCovered
<1>5. DOMAIN seqs = 1 .. n
  BY <1>1, LenProperties
<1>6. \A p : p \in C <=> \E i \in 1 .. n : p \in Pixels(boxes[i])
  <2>1. \A i \in 1 .. n : Covered(seqs[i]) = Pixels(boxes[i])
    BY <1>1 DEF Makes
  <2> HIDE DEF C
  <2> QED
    BY <1>4, <1>5, <2>1
<1> HIDE DEF C
<1>7. ASSUME NEW p, NEW gap
      PROVE  p \in Shown(v, gap) <=> /\ p \in Pixels(Box(0, 0, to.w, to.h))
                                     /\ \E i \in 1 .. n : \E q \in Pixels(v.area[i]) : ShowsPixel(p, q, to, gap)
  <2>1. p \in Shown(v, gap) <=>
          /\ p \in Pixels(Box(0, 0, v.to.w, v.to.h))
          /\ \E i \in DOMAIN v.area : \E q \in Pixels(v.area[i]) : ShowsPixel(p, q, v.to, gap)
    BY ShownIs
  <2> QED
    BY <1>1, <1>2, <2>1
<1>8. ASSUME NEW p \in Shown(v, 0) PROVE p \in C
  <2>1. PICK i \in 1 .. n : \E q \in Pixels(v.area[i]) : ShowsPixel(p, q, to, 0)
    BY <1>7
  <2>2. p \in Pixels(Box(0, 0, to.w, to.h))
    BY <1>7
  <2>3. p \in Pixels(boxes[i])
    BY <1>1, <1>2, <2>1, <2>2, ScaledIsShown
  <2> QED
    BY <1>6, <2>3
<1>9. ASSUME NEW p \in C PROVE p \in Shown(v, Gap(to))
  <2>1. PICK i \in 1 .. n : p \in Pixels(boxes[i])
    BY <1>6
  <2>2. p \in Pixels(Box(0, 0, to.w, to.h)) /\ \E q \in Pixels(v.area[i]) : ShowsPixel(p, q, to, Gap(to))
    BY <1>1, <1>2, <2>1, ScaledIsShown
  <2> QED
    BY <1>7, <2>2
<1> QED
  BY <1>4, <1>8, <1>9 DEF S, C, seqs, v

\* Of an update that shows no more than itself.
LEMMA ShownIsSent ==
  ASSUME NEW area \in Areas, NEW to \in Scales, NEW u \in Updates(area, to)
  PROVE  /\ Shown(u, 0) \subseteq Shown(Sent(u), 0)
         /\ Len(u.area) <= MaxRectsPerUpdate => Shown(Sent(u), Gap(to)) = Shown(u, Gap(to))
<1> DEFINE v == Sent(u)
<1>1. /\ v.to = to /\ (Len(u.area) <= MaxRectsPerUpdate => v = u)
      /\ \A i \in DOMAIN u.area : \E j \in DOMAIN v.area : Pixels(u.area[i]) \subseteq Pixels(v.area[j])
  BY SentIs
<1>2. u.to = to
  BY UpdatesAre
<1> HIDE DEF v
<1>3. ASSUME NEW p \in Shown(u, 0) PROVE p \in Shown(v, 0)
  <2>1. /\ p \in Pixels(Box(0, 0, to.w, to.h))
        /\ \E i \in DOMAIN u.area : \E q \in Pixels(u.area[i]) : ShowsPixel(p, q, to, 0)
    BY <1>2, ShownIs
  <2>2. PICK i \in DOMAIN u.area : \E q \in Pixels(u.area[i]) : ShowsPixel(p, q, to, 0)
    BY <2>1
  <2>3. PICK q \in Pixels(u.area[i]) : ShowsPixel(p, q, to, 0)
    BY <2>2
  <2>4. PICK j \in DOMAIN v.area : Pixels(u.area[i]) \subseteq Pixels(v.area[j])
    BY <1>1
  <2>5. q \in Pixels(v.area[j])
    BY <2>4
  <2>6. p \in Shown(v, 0) <=> /\ p \in Pixels(Box(0, 0, v.to.w, v.to.h))
                              /\ \E k \in DOMAIN v.area : \E r \in Pixels(v.area[k]) : ShowsPixel(p, r, v.to, 0)
    BY ShownIs
  <2> QED
    BY <1>1, <2>1, <2>3, <2>5, <2>6
<1>4. Shown(u, 0) \subseteq Shown(v, 0)
  BY <1>3
<1>5. Len(u.area) <= MaxRectsPerUpdate => Shown(v, Gap(to)) = Shown(u, Gap(to))
  BY <1>1
<1> QED
  BY <1>4, <1>5 DEF v

\* Where nothing is scaled no pixel is sent twice.
LEMMA SendingsAreApart ==
  ASSUME NEW area \in Areas, NEW to \in Scales, NEW u \in Updates(area, to), to = Screen,
         NEW boxes \in Corrections(Sent(u))
  PROVE  AllApart(FlattenSeq(Sendings(u, boxes)))
<1> DEFINE v == Sent(u)
           n == Len(v.area)
           seqs == Sendings(u, boxes)
           R == [i \in 1 .. n |-> Pixels(v.area[i])]
           Q == UNION {R[i] : i \in 1 .. n}
<1>1. /\ n \in Nat /\ DOMAIN v.area = 1 .. n
      /\ seqs \in Seq(Seq(GoodParts(u))) /\ Len(seqs) = n
      /\ \A i \in 1 .. n : /\ OnScreen(v.area[i]) /\ boxes[i] \in rfbScaledCorrection(v.area[i], to)
                           /\ Makes(seqs[i], u, Pixels(boxes[i]))
  BY SendingsAre
<1>2. GoodArea(v.area) /\ to \in Size
  BY SentIs, UpdatesAre
<1>3. DOMAIN seqs = 1 .. n
  BY <1>1, LenProperties
<1> HIDE DEF v, n, seqs
<1>4. \A i \in 1 .. n : boxes[i] = v.area[i]
  BY <1>1, <1>2, ScaledIs
<1>5. \A i \in DOMAIN seqs : Makes(seqs[i], u, R[i])
  <2> SUFFICES ASSUME NEW i \in 1 .. n PROVE Makes(seqs[i], u, R[i])
    BY <1>3
  <2>1. Makes(seqs[i], u, Pixels(boxes[i])) /\ boxes[i] = v.area[i]
    BY <1>1, <1>4
  <2>2. R[i] = Pixels(v.area[i])
    OBVIOUS
  <2> QED
    BY <2>1, <2>2
<1>6. \A i, j \in DOMAIN seqs : i # j => R[i] \cap R[j] = {}
  <2> SUFFICES ASSUME NEW i \in 1 .. n, NEW j \in 1 .. n, i # j PROVE R[i] \cap R[j] = {}
    BY <1>3
  <2>1. Disjoint(v.area[i], v.area[j])
    BY <1>1, <1>2 DEF GoodArea
  <2> QED
    BY <2>1 DEF Disjoint
<1>7. Joins(Q, R, DOMAIN seqs)
  BY <1>3 DEF Joins
<1> HIDE DEF R, Q
<1>8. Makes(FlattenSeq(seqs), u, Q)
  BY <1>1, <1>5, <1>6, <1>7, AllMake
<1> QED
  BY <1>8 DEF Makes, seqs

\* What was counted is what is sent; what was not, Tight leaves open, and may.
LEMMA SendingsAreCounted ==
  ASSUME NEW area \in Areas, NEW to \in Scales, NEW u \in Updates(area, to),
         NEW boxes \in Corrections(Sent(u))
  PROVE  /\ Uncounted(u, boxes) => u.encoding = "tight" /\ u.lastRect /\ Announced(u, boxes) = LastRectCount
         /\ ~Uncounted(u, boxes) => /\ Announced(u, boxes) = Len(FlattenSeq(Sendings(u, boxes)))
                                    /\ Announced(u, boxes) \in Nat
<1> DEFINE n == Len(boxes)
           seqs == Sendings(u, boxes)
           S == GoodParts(u)
<1>1. /\ n \in Nat /\ DOMAIN boxes = 1 .. n
      /\ seqs \in Seq(Seq(S)) /\ Len(seqs) = n
      /\ \A i \in 1 .. n : seqs[i] = SendRect(u, boxes[i]) /\ boxes[i] \in Rectangle
  BY SendingsAre
<1>2. Update(u)
  BY UpdatesAre
<1> HIDE DEF seqs, S
<1>3. ASSUME NEW i \in 1 .. n
      PROVE  /\ CodedRects(u, boxes[i]) \in Nat
             /\ CodedRects(u, boxes[i]) = 0 => u.encoding = "tight" /\ u.lastRect
             /\ CodedRects(u, boxes[i]) # 0 => Len(seqs[i]) = CodedRects(u, boxes[i])
  <2> DEFINE b == boxes[i]
  <2>1. b \in Rectangle /\ seqs[i] = SendRect(u, b)
    BY <1>1
  <2> HIDE DEF b
  <2>2. /\ CodedRects(u, b) \in Nat
        /\ CodedRects(u, b) = 0 => u.encoding = "tight" /\ u.lastRect
        /\ CodedRects(u, b) # 0 => Len(SendRect(u, b)) = CodedRects(u, b)
    BY <1>2, <2>1, SendRectMakes
  <2> QED
    BY <2>1, <2>2 DEF b
<1>4. ASSUME Uncounted(u, boxes)
      PROVE  u.encoding = "tight" /\ u.lastRect /\ Announced(u, boxes) = LastRectCount
  <2>1. Announced(u, boxes) = LastRectCount
    BY <1>4 DEF Announced
  <2>2. PICK i \in DOMAIN boxes : CodedRects(u, boxes[i]) = 0
    BY <1>4 DEF Uncounted
  <2>3. u.encoding = "tight" /\ u.lastRect
    BY <1>1, <1>3, <2>2
  <2> QED
    BY <2>1, <2>3
<1>5. ASSUME ~Uncounted(u, boxes)
      PROVE  Announced(u, boxes) = Len(FlattenSeq(seqs)) /\ Announced(u, boxes) \in Nat
  <2>1. \A i \in 1 .. n : CodedRects(u, boxes[i]) \in Nat /\ CodedRects(u, boxes[i]) = Len(seqs[i])
    <3>1. \A i \in 1 .. n : CodedRects(u, boxes[i]) # 0
      BY <1>1, <1>5 DEF Uncounted
    <3> QED
      BY <1>3, <3>1
  <2>2. PICK total : /\ total[0] = 0
                     /\ \A i \in 1 .. n : total[i] = total[i - 1] + CodedRects(u, boxes[i])
                     /\ Announced(u, boxes) = total[n] /\ Announced(u, boxes) \in Nat
    BY <1>1, <1>5, <2>1, AnnouncedIs
  <2> HIDE DEF n
  <2>3. \A i \in 1 .. n : total[i] = total[i - 1] + Len(seqs[i])
    BY <2>1, <2>2
  <2>4. Lengths(total, seqs)
    BY <1>1, <2>2, <2>3 DEF Lengths
  <2>5. Len(FlattenSeq(seqs)) = total[Len(seqs)]
    BY <1>1, <2>4, AllCovered
  <2> QED
    BY <1>1, <2>2, <2>5
<1> QED
  BY <1>4, <1>5 DEF seqs

\* One update is whole.
LEMMA UpdateMakesWhole ==
  ASSUME NEW area \in Areas, NEW to \in Scales, NEW u \in Updates(area, to), rfbSendFramebufferUpdate(u)
  PROVE  UpdateIsWhole'
<1> DEFINE v == Sent(u)
<1>1. PICK boxes \in Corrections(v) :
        /\ update' = u /\ nRects' = Announced(u, boxes) /\ parts' = FlattenSeq(Sendings(u, boxes))
        /\ (marker' <=> nRects' = LastRectCount)
  BY DEF rfbSendFramebufferUpdate, Sendings
<1> DEFINE s == FlattenSeq(Sendings(u, boxes))
<1>2. s \in Seq(GoodParts(u)) /\ Shown(v, 0) \subseteq Covered(s) /\ Covered(s) \subseteq Shown(v, Gap(to))
  BY SendingsCover
<1>3. u.to = to /\ u # NoUpdate
  BY UpdatesAre
<1>4. Shown(u, 0) \subseteq Shown(v, 0) /\ (Len(u.area) <= MaxRectsPerUpdate => Shown(v, Gap(to)) = Shown(u, Gap(to)))
  BY ShownIsSent
<1>5. u.to = Screen => AllApart(s)
  BY <1>3, SendingsAreApart
<1>6. /\ Uncounted(u, boxes) => u.encoding = "tight" /\ u.lastRect /\ Announced(u, boxes) = LastRectCount
      /\ ~Uncounted(u, boxes) => Announced(u, boxes) = Len(s) /\ Announced(u, boxes) \in Nat
  BY SendingsAreCounted
<1>7. Uncounted(u, boxes) \/ Announced(u, boxes) < LastRectCount
  BY FewParts
<1>8. update' = u /\ nRects' = Announced(u, boxes) /\ parts' = s /\ (marker' <=> nRects' = LastRectCount)
  BY <1>1
<1> HIDE DEF s, v
<1>9. AnnouncedIsSent'
  <2>1. CASE Uncounted(u, boxes)
    <3>1. marker' /\ u.encoding = "tight" /\ u.lastRect
      BY <1>6, <1>8, <2>1
    <3> QED
      BY <1>8, <3>1 DEF AnnouncedIsSent
  <2>2. CASE ~Uncounted(u, boxes)
    <3>1. Announced(u, boxes) # LastRectCount
      BY <1>6, <1>7, <2>2, RectanglesAssumption
    <3>2. ~marker' /\ nRects' = Len(parts')
      BY <1>6, <1>8, <2>2, <3>1
    <3> QED
      BY <3>2 DEF AnnouncedIsSent
  <2> QED
    BY <2>1, <2>2
<1>10. PartsMakeTheUpdate'
  <2>1. ASSUME NEW i \in DOMAIN s PROVE Allowed(u, s[i]) /\ (s[i].solid => OneColour(u.scene, s[i].box))
    <3> DEFINE S == GoodParts(u)
    <3>1. s \in Seq(S)
      BY <1>2
    <3> HIDE DEF S
    <3>2. s[i] \in S
      BY <3>1, ElementOfSeq, LenProperties
    <3> QED
      BY <3>2 DEF S, GoodParts
  <2> DEFINE C == UNION {Pixels(s[i].box) : i \in DOMAIN s}
  <2>2. Shown(u, 0) \subseteq C /\ (Len(u.area) <= MaxRectsPerUpdate => C \subseteq Shown(u, Gap(u.to)))
    <3>1. C = Covered(s)
      BY DEF Covered
    <3> HIDE DEF C
    <3> QED
      BY <1>2, <1>3, <1>4, <3>1
  <2>3. u.to = Screen => \A i, j \in DOMAIN s : i # j => Disjoint(s[i].box, s[j].box)
    BY <1>5 DEF AllApart
  <2> QED
    BY <1>8, <2>1, <2>2, <2>3 DEF PartsMakeTheUpdate
<1> QED
  BY <1>9, <1>10 DEF UpdateIsWhole

\* rfbSendFramebufferUpdate announces as many rectangles as it sends, or ends with a marker
\* what the viewer asked to be ended so; none is too large for its buffer, what goes as one
\* colour has one, and together they are all of the update, on a scaled screen with at most
\* what borders on it: for every region, scale, encoding, and picture, however the scale is
\* rounded.
THEOREM UpdatesAreWhole == UpdateSpec => []UpdateIsWhole
<1>1. UpdateInit => UpdateIsWhole
  BY DEF UpdateInit, UpdateIsWhole, AnnouncedIsSent, PartsMakeTheUpdate
<1>2. UpdateIsWhole /\ [UpdateNext]_updateVars => UpdateIsWhole'
  <2> SUFFICES ASSUME UpdateIsWhole, [UpdateNext]_updateVars PROVE UpdateIsWhole'
    OBVIOUS
  <2>1. CASE UNCHANGED updateVars
    BY <2>1 DEF updateVars, UpdateIsWhole, AnnouncedIsSent, PartsMakeTheUpdate
  <2>2. CASE Done
    BY <2>2 DEF Done, UpdateIsWhole, AnnouncedIsSent, PartsMakeTheUpdate
  <2>3. ASSUME NEW area \in Areas, NEW to \in Scales, NEW u \in Updates(area, to), rfbSendFramebufferUpdate(u)
        PROVE  UpdateIsWhole'
    BY <2>3, UpdateMakesWhole
  <2> QED
    BY <2>1, <2>2, <2>3 DEF UpdateNext
<1> QED
  BY <1>1, <1>2, PTL DEF UpdateSpec
=============================================================================
