---- MODULE FoldFacts ----
(***************************************************************************)
(* Induction, and what a left fold computes.  The induction theorems of    *)
(* the library take the property as an operator, which no prover here      *)
(* instantiates; below the property is a set, and the operator of the fold *)
(* is a parameter of the module, for an INSTANCE to fill in.  Its first    *)
(* argument is what stays the same from step to step.                      *)
(***************************************************************************)
EXTENDS Integers, Sequences, SequencesExt, SequenceTheorems, WellFoundedInduction, TLAPS

CONSTANTS Step(_, _, _), Base

\* Every set of naturals that is not empty has a least element.
LEMMA LeastNatural ==
    ASSUME NEW S \in SUBSET Nat, S # {}
    PROVE  \E m \in S : \A n \in S : m <= n
<1> DEFINE R == OpToRel(<, Nat)
<1>1. IsWellFoundedOn(R, Nat)
  BY NatLessThanWellFounded
<1>2. \A x, y \in Nat : x < y => <<x, y>> \in R
  BY DEF OpToRel
<1> HIDE DEF R
<1>3. PICK m \in S : \A n \in S : ~(<<n, m>> \in R)
  BY <1>1, WFMin
<1>4. ASSUME NEW n \in S PROVE m <= n
  <2>1. m \in Nat /\ n \in Nat /\ ~(n < m)
    BY <1>2, <1>3
  <2> QED BY <2>1
<1> QED BY <1>4

\* Induction over the naturals, for a property given as a set.
LEMMA NaturalInduction ==
    ASSUME NEW P, 0 \in P, \A n \in Nat : n \in P => n + 1 \in P
    PROVE  Nat \subseteq P
<1> SUFFICES ASSUME Nat \ P # {} PROVE FALSE
  OBVIOUS
<1>1. PICK m \in Nat \ P : \A n \in Nat \ P : m <= n
  BY LeastNatural
<1>2. m - 1 \in Nat
  BY <1>1
<1>3. m - 1 \in P
  BY <1>1, <1>2
<1> QED BY <1>1, <1>2, <1>3

\* Some numbers between two others have a least and a greatest.
LEMMA LeastOfInterval ==
    ASSUME NEW a \in Int, NEW b \in Int, NEW S \in SUBSET (a .. b), S # {}
    PROVE  \E m \in S : \A x \in S : m <= x
<1> DEFINE D == {x - a : x \in S}
<1>1. D \in SUBSET Nat /\ D # {}
  OBVIOUS
<1>2. PICK d \in D : \A e \in D : d <= e
  BY <1>1, LeastNatural
<1>3. PICK m \in S : d = m - a
  BY <1>2
<1>4. ASSUME NEW x \in S PROVE m <= x
  <2>1. x - a \in D
    OBVIOUS
  <2>2. m \in Int /\ x \in Int
    OBVIOUS
  <2> HIDE DEF D
  <2> QED BY <2>1, <2>2, <1>2, <1>3
<1> QED BY <1>4

\* A set of integers between two has a greatest one.
LEMMA GreatestOfInterval ==
    ASSUME NEW a \in Int, NEW b \in Int, NEW S \in SUBSET (a .. b), S # {}
    PROVE  \E m \in S : \A x \in S : m >= x
<1> DEFINE D == {b - x : x \in S}
<1>1. D \in SUBSET Nat /\ D # {}
  <2>1. \A x \in S : b - x \in Nat
    OBVIOUS
  <2>2. D \in SUBSET Nat
    BY <2>1
  <2> QED BY <2>2
<1>2. PICK d \in D : \A e \in D : d <= e
  BY <1>1, LeastNatural
<1>3. PICK m \in S : d = b - m
  BY <1>2
<1>4. ASSUME NEW x \in S PROVE m >= x
  <2>1. b - x \in D
    OBVIOUS
  <2>2. m \in Int /\ x \in Int
    OBVIOUS
  <2> HIDE DEF D
  <2> QED BY <2>1, <2>2, <1>2, <1>3
<1> QED BY <1>4

\* Which is its maximum.
LEMMA MaxOfInterval ==
    ASSUME NEW a \in Int, NEW b \in Int, NEW S \in SUBSET (a .. b), S # {}
    PROVE  Max(S) \in S /\ \A x \in S : x <= Max(S)
<1>1. Max(S) \in S /\ \A x \in S : Max(S) >= x
  BY GreatestOfInterval DEF Max
<1>2. ASSUME NEW x \in S PROVE x <= Max(S)
  <2>1. x \in Int
    OBVIOUS
  <2>2. Max(S) \in a .. b /\ Max(S) >= x
    BY <1>1, Zenon
  <2> QED BY <2>1, <2>2
<1> QED BY <1>1, <1>2

\* Induction over sequences that grow at the end, for a property given as a set.
LEMMA SequenceInduction ==
    ASSUME NEW E, NEW P, <<>> \in P,
           \A s \in Seq(E), e \in E : s \in P => Append(s, e) \in P
    PROVE  Seq(E) \subseteq P
<1> DEFINE Q == {n \in Nat : \A s \in Seq(E) : Len(s) = n => s \in P}
<1>1. 0 \in Q
  <2>1. \A s \in Seq(E) : Len(s) = 0 => s = <<>>
    BY EmptySeq
  <2> QED BY <2>1
<1>2. ASSUME NEW n \in Nat, n \in Q PROVE n + 1 \in Q
  <2>1. ASSUME NEW s \in Seq(E), Len(s) = n + 1 PROVE s \in P
    <3>1. s # <<>>
      BY <2>1, EmptySeq
    <3>2. PICK t \in Seq(E), e \in E : s = Append(t, e)
      BY <3>1, SequenceEmptyOrAppend
    <3>3. Len(t) \in Nat /\ Len(s) = Len(t) + 1
      BY <3>2, AppendProperties, LenProperties
    <3>4. Len(t) = n
      BY <3>3, <2>1
    <3>5. t \in P
      BY <3>4, <1>2
    <3> QED BY <3>2, <3>5
  <2> QED BY <2>1
<1> HIDE DEF Q
<1>3. Nat \subseteq Q
  BY <1>1, <1>2, NaturalInduction
<1>4. ASSUME NEW s \in Seq(E) PROVE s \in P
  <2>1. Len(s) \in Q
    BY <1>3, LenProperties
  <2> QED BY <2>1 DEF Q
<1> QED BY <1>4

-----------------------------------------------------------------------------
(* The recursive function inside FoldLeft exists, and agrees with itself on  *)
(* the beginnings of the sequence.                                           *)

IsIteration(p, h, s, n) ==
    h = [t \in SUBSET (1 .. n) |->
           IF t = {} THEN Base ELSE Step(p, h[t \ {Max(t)}], s[Max(t)])]

\* There are functions that iterate a step any number of times.
LEMMA IterationExists ==
    ASSUME NEW p, NEW s
    PROVE  \A n \in Nat : \E h : IsIteration(p, h, s, n)
<1> DEFINE P == {n \in Nat : \E h : IsIteration(p, h, s, n)}
<1>1. 0 \in P
  <2> DEFINE h == [t \in SUBSET (1 .. 0) |-> Base]
  <2>1. \A t \in SUBSET (1 .. 0) : t = {}
    OBVIOUS
  <2>2. IsIteration(p, h, s, 0)
    BY <2>1, Zenon DEF IsIteration
  <2> QED BY <2>2
<1>2. ASSUME NEW n \in Nat, n \in P PROVE n + 1 \in P
  <2>1. PICK h : IsIteration(p, h, s, n)
    BY <1>2
  <2> DEFINE k == [t \in SUBSET (1 .. n + 1) |->
                     IF n + 1 \in t THEN Step(p, h[t \ {n + 1}], s[n + 1]) ELSE h[t]]
  <2> DEFINE at(t) == IF t = {} THEN Base ELSE Step(p, k[t \ {Max(t)}], s[Max(t)])
  <2>2. ASSUME NEW t \in SUBSET (1 .. n + 1) PROVE k[t] = at(t)
    <3>1. CASE n + 1 \in t
      <4>1. Max(t) = n + 1
        <5>1. 1 \in Int /\ n + 1 \in Int /\ t # {}
          BY <3>1
        <5>2. Max(t) \in t /\ \A x \in t : x <= Max(t)
          BY <5>1, MaxOfInterval, Zenon
        <5>3. Max(t) \in 1 .. n + 1 /\ n + 1 <= Max(t)
          BY <5>2, <3>1
        <5> QED BY <5>3
      <4>2. t \ {n + 1} \in SUBSET (1 .. n + 1) /\ n + 1 \notin t \ {n + 1}
        OBVIOUS
      <4>3. k[t \ {n + 1}] = h[t \ {n + 1}]
        BY <4>2
      <4>4. k[t] = Step(p, h[t \ {n + 1}], s[n + 1])
        BY <3>1
      <4>5. t # {}
        BY <3>1
      <4> HIDE DEF k
      <4> QED BY <4>1, <4>3, <4>4, <4>5
    <3>2. CASE n + 1 \notin t
      <4>1. t \in SUBSET (1 .. n)
        BY <3>2
      <4>2. k[t] = h[t]
        BY <3>2
      <4>3. h[t] = IF t = {} THEN Base ELSE Step(p, h[t \ {Max(t)}], s[Max(t)])
        BY <2>1, <4>1, Zenon DEF IsIteration
      <4>4. t \ {Max(t)} \in SUBSET (1 .. n + 1) /\ n + 1 \notin t \ {Max(t)}
        BY <3>2
      <4>5. k[t \ {Max(t)}] = h[t \ {Max(t)}]
        BY <4>4
      <4> HIDE DEF k
      <4> QED BY <4>2, <4>3, <4>5
    <3> QED BY <3>1, <3>2
  <2>3. k = [t \in SUBSET (1 .. n + 1) |-> at(t)]
    BY <2>2, Zenon
  <2> HIDE DEF k
  <2>4. IsIteration(p, k, s, n + 1)
    BY <2>3, Zenon DEF IsIteration
  <2> QED BY <2>4
<1> HIDE DEF P
<1>3. Nat \subseteq P
  BY <1>1, <1>2, NaturalInduction
<1> QED BY <1>3 DEF P

Iteration(p, s, n) == CHOOSE h : IsIteration(p, h, s, n)

\* The one that is chosen begins with the base and makes one step at a time.
LEMMA IterationUnrolled ==
    ASSUME NEW p, NEW s, NEW n \in Nat
    PROVE  /\ Iteration(p, s, n)[1 .. 0] = Base
           /\ \A k \in 1 .. n : Iteration(p, s, n)[1 .. k]
                                  = Step(p, Iteration(p, s, n)[1 .. k - 1], s[k])
<1> DEFINE h == Iteration(p, s, n)
<1>1. IsIteration(p, h, s, n)
  BY IterationExists DEF Iteration
<1> HIDE DEF h
<1>2. \A t \in SUBSET (1 .. n) :
        h[t] = IF t = {} THEN Base ELSE Step(p, h[t \ {Max(t)}], s[Max(t)])
  BY <1>1, Zenon DEF IsIteration
<1>3. h[1 .. 0] = Base
  BY <1>2
<1>4. ASSUME NEW k \in 1 .. n PROVE h[1 .. k] = Step(p, h[1 .. k - 1], s[k])
  <2>1. 1 .. k \in SUBSET (1 .. n) /\ 1 .. k # {}
    OBVIOUS
  <2>2. Max(1 .. k) = k
    <3>1. 1 .. k \in SUBSET (1 .. k) /\ 1 \in Int /\ k \in Int /\ k \in 1 .. k
      OBVIOUS
    <3>2. Max(1 .. k) \in 1 .. k /\ \A x \in 1 .. k : x <= Max(1 .. k)
      BY <2>1, <3>1, MaxOfInterval, Zenon
    <3>3. Max(1 .. k) \in 1 .. k /\ k <= Max(1 .. k)
      BY <3>1, <3>2
    <3> QED BY <3>3
  <2>3. (1 .. k) \ {k} = 1 .. k - 1
    OBVIOUS
  <2> QED BY <1>2, <2>1, <2>2, <2>3
<1> QED BY <1>3, <1>4 DEF h

Fold(p, s) == FoldLeft(LAMBDA v, e : Step(p, v, e), Base, s)

\* A fold over a sequence is as many of them as it is long.
LEMMA FoldIsIteration ==
    ASSUME NEW p, NEW E, NEW s \in Seq(E)
    PROVE  Fold(p, s) = Iteration(p, s, Len(s))[1 .. Len(s)]
<1>1. DOMAIN s = 1 .. Len(s)
  BY LenProperties
<1> QED BY <1>1, Zenon DEF Fold, FoldLeft, MapThenFoldSet, Iteration, IsIteration

\* Nothing folded is the base.
LEMMA FoldEmpty == \A p : Fold(p, <<>>) = Base
<1> TAKE p
<1>1. <<>> \in Seq({}) /\ Len(<<>>) = 0
  BY EmptySeq
<1>2. Fold(p, <<>>) = Iteration(p, <<>>, Len(<<>>))[1 .. Len(<<>>)]
  BY <1>1, FoldIsIteration
<1>3. Iteration(p, <<>>, 0)[1 .. 0] = Base
  BY IterationUnrolled, 0 \in Nat
<1> QED BY <1>1, <1>2, <1>3, Zenon

\* One element more is one step more.
LEMMA FoldAppend ==
    ASSUME NEW p, NEW E, NEW s \in Seq(E), NEW e \in E
    PROVE  Fold(p, Append(s, e)) = Step(p, Fold(p, s), e)
<1> DEFINE t == Append(s, e)
           n == Len(s)
           g == Iteration(p, s, n)
           h == Iteration(p, t, n + 1)
<1>1. n \in Nat /\ t \in Seq(E) /\ Len(t) = n + 1
      /\ (\A i \in 1 .. n : t[i] = s[i]) /\ t[n + 1] = e
  BY AppendProperties, LenProperties
<1>2. g[1 .. 0] = Base /\ \A k \in 1 .. n : g[1 .. k] = Step(p, g[1 .. k - 1], s[k])
  BY <1>1, IterationUnrolled
<1>3. h[1 .. 0] = Base /\ \A k \in 1 .. n + 1 : h[1 .. k] = Step(p, h[1 .. k - 1], t[k])
  <2>1. n + 1 \in Nat
    BY <1>1
  <2> HIDE DEF t
  <2> QED BY <2>1, IterationUnrolled
<1> HIDE DEF g, h, t
<1> DEFINE P == {k \in Nat : k <= n => h[1 .. k] = g[1 .. k]}
<1>4. 0 \in P
  BY <1>2, <1>3
<1>5. ASSUME NEW k \in Nat, k \in P PROVE k + 1 \in P
  <2> SUFFICES ASSUME k + 1 <= n PROVE h[1 .. k + 1] = g[1 .. k + 1]
    OBVIOUS
  <2>1. h[1 .. k] = g[1 .. k]
    BY <1>1, <1>5
  <2>2. k + 1 \in 1 .. n /\ k + 1 \in 1 .. n + 1 /\ (k + 1) - 1 = k
    BY <1>1
  <2>3. t[k + 1] = s[k + 1]
    BY <1>1, <2>2
  <2>4. h[1 .. k + 1] = Step(p, h[1 .. k], t[k + 1])
    BY <1>3, <2>2
  <2>5. g[1 .. k + 1] = Step(p, g[1 .. k], s[k + 1])
    BY <1>2, <2>2
  <2> QED BY <2>1, <2>3, <2>4, <2>5, Zenon
<1> HIDE DEF P
<1>6. n \in P
  BY <1>1, <1>4, <1>5, NaturalInduction
<1>7. h[1 .. n] = g[1 .. n]
  BY <1>1, <1>6 DEF P
<1>8. h[1 .. n + 1] = Step(p, h[1 .. n], e)
  <2>1. n + 1 \in 1 .. n + 1 /\ (n + 1) - 1 = n
    BY <1>1
  <2> QED BY <1>1, <1>3, <2>1
<1>9. Fold(p, s) = g[1 .. n]
  BY FoldIsIteration DEF g
<1>10. Fold(p, t) = h[1 .. n + 1]
  BY <1>1, FoldIsIteration DEF h
<1>11. Fold(p, t) = Step(p, Fold(p, s), e)
  BY <1>7, <1>8, <1>9, <1>10, Zenon
<1> QED BY <1>11 DEF t

\* From one beginning of a sequence to the next.
LEMMA FoldPrefix ==
    ASSUME NEW p, NEW E, NEW s \in Seq(E)
    PROVE  /\ Fold(p, SubSeq(s, 1, 0)) = Base
           /\ \A k \in 0 .. Len(s) - 1 :
                Fold(p, SubSeq(s, 1, k + 1)) = Step(p, Fold(p, SubSeq(s, 1, k)), s[k + 1])
           /\ Fold(p, SubSeq(s, 1, Len(s))) = Fold(p, s)
<1>1. Len(s) \in Nat /\ \A k \in 1 .. Len(s) : s[k] \in E
  BY LenProperties, ElementOfSeq
<1>2. SubSeq(s, 1, 0) = <<>>
  BY SubSeqEmpty
<1>3. ASSUME NEW k \in 0 .. Len(s) - 1
      PROVE  Fold(p, SubSeq(s, 1, k + 1)) = Step(p, Fold(p, SubSeq(s, 1, k)), s[k + 1])
  <2>1. k + 1 \in 1 .. Len(s) /\ 1 \in 1 .. Len(s) /\ k + 1 \in 1 .. Len(s) /\ (k + 1) - 1 = k
        /\ k + 1 \in 1 .. Len(s) /\ k \in Int
    BY <1>1
  <2>2. SubSeq(s, 1, k + 1) = SubSeq(s, 1, k) \o <<s[k + 1]>>
    BY <2>1, SubSeqRecursiveSecond, Zenon
  <2>3. SubSeq(s, 1, k) \in Seq(E)
    <3>1. \A i \in 1 .. k : s[i] \in E
      BY <1>1, <2>1
    <3> QED BY <2>1, <3>1, SubSeqProperties
  <2>4. SubSeq(s, 1, k + 1) = Append(SubSeq(s, 1, k), s[k + 1])
    BY <1>1, <2>1, <2>2, <2>3, AppendIsConcat
  <2>5. s[k + 1] \in E
    BY <1>1, <2>1
  <2>6. Fold(p, Append(SubSeq(s, 1, k), s[k + 1])) = Step(p, Fold(p, SubSeq(s, 1, k)), s[k + 1])
    BY <2>3, <2>5, FoldAppend
  <2> QED BY <2>4, <2>6, Zenon
<1>4. SubSeq(s, 1, Len(s)) = s
  BY SubSeqFull
<1> QED BY <1>2, <1>3, <1>4, FoldEmpty, Zenon

====
