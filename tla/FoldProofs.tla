----------------------------- MODULE FoldProofs ----------------------------
(***************************************************************************)
(* What the other proofs start from: induction over the naturals as a fact *)
(* about sets, and the folds of the community modules as traces, position  *)
(* by position.                                                            *)
(***************************************************************************)
EXTENDS Integers, FiniteSetsExt, SequencesExt, FiniteSetTheorems, SequenceTheorems,
        WellFoundedInduction, TLAPS

-----------------------------------------------------------------------------
Less == {p \in Nat \X Nat : p[1] < p[2]}

\* A non-empty set of naturals has a least element.
LEMMA Least ==
  ASSUME NEW S \in SUBSET Nat, S # {}
  PROVE  \E n \in S : \A m \in S : n <= m
<1>1. IsWellFoundedOn(Less, Nat)
  BY NatLessThanWellFounded DEF OpToRel, Less
<1>2. PICK n \in S : \A m \in S : ~(<<m, n>> \in Less)
  BY <1>1, WFMin
<1>3. \A m \in S : ~(m < n)
  BY <1>2 DEF Less
<1>4. QED
  BY <1>3

\* Induction, as a fact about sets of naturals.
LEMMA SetInduction ==
  ASSUME NEW S, 0 \in S, \A n \in Nat : n \in S => n + 1 \in S
  PROVE  Nat \subseteq S
<1>1. SUFFICES ASSUME Nat \ S # {} PROVE FALSE
  OBVIOUS
<1>2. PICK x \in Nat \ S : \A y \in Nat \ S : x <= y
  BY <1>1, Least
<1>3. x # 0 /\ x - 1 \in Nat /\ x - 1 < x
  BY <1>2
<1>4. x - 1 \in S
  BY <1>2, <1>3
<1>5. QED
  BY <1>2, <1>3, <1>4

\* A non-empty set of naturals with a bound has a greatest element.
LEMMA Greatest ==
  ASSUME NEW n \in Nat, NEW S \in SUBSET (0 .. n), S # {}
  PROVE  Max(S) \in S /\ \A m \in S : m <= Max(S)
<1> DEFINE T == {d \in 0 .. n : n - d \in S}
<1>0. PICK s \in S : TRUE
  OBVIOUS
<1>1. T \in SUBSET Nat /\ n - s \in T
  BY <1>0
<1>2. PICK d \in T : \A e \in T : d <= e
  BY <1>1, Least
<1>3. PICK x \in S : x = n - d
  BY <1>2
<1>4. \A m \in S : n - m \in T
  OBVIOUS
<1>5. ASSUME NEW m \in S PROVE x >= m
  <2>1. d <= n - m
    BY <1>2, <1>4
  <2>2. QED
    BY <1>3, <2>1
<1>6. QED
  BY <1>3, <1>5 DEF Max

LEMMA MaxOfInitial ==
  ASSUME NEW n \in Nat, NEW S \in SUBSET (1 .. n + 1), n + 1 \in S
  PROVE  Max(S) = n + 1
<1>1. \A y \in S : n + 1 >= y
  OBVIOUS
<1>2. \A x \in S : (\A y \in S : x >= y) => x = n + 1
  OBVIOUS
<1>3. QED
  BY <1>1, <1>2 DEF Max

\* f is the fold over the positions 1 .. k.
Solves(f, P, base, g, k) ==
  /\ f \in [SUBSET (1 .. k) -> P]
  /\ f[{}] = base
  /\ \A S \in SUBSET (1 .. k) : S # {} => f[S] = g[<<f[S \ {Max(S)}], Max(S)>>]

\* The recursion of a fold over the positions 1 .. n has a solution: g is the step,
\* from an accumulator and a position.
LEMMA FoldExists ==
  ASSUME NEW P, NEW base \in P, NEW n \in Nat, NEW g \in [P \X (1 .. n) -> P]
  PROVE  \E f : Solves(f, P, base, g, n)
<1> DEFINE Q == {k \in Nat : k <= n => \E f : Solves(f, P, base, g, k)}
<1>1. 0 \in Q
  <2> DEFINE f == [S \in SUBSET (1 .. 0) |-> base]
  <2>1. Solves(f, P, base, g, 0)
    <3>1. 1 .. 0 = {} /\ SUBSET (1 .. 0) = {{}}
      OBVIOUS
    <3>2. QED
      BY <3>1 DEF Solves
  <2>2. QED
    BY <2>1
<1>2. ASSUME NEW k \in Nat, k \in Q PROVE k + 1 \in Q
  <2>1. SUFFICES ASSUME k + 1 <= n PROVE \E f : Solves(f, P, base, g, k + 1)
    BY <1>2
  <2>2. PICK f : Solves(f, P, base, g, k)
    BY <1>2, <2>1
  <2> DEFINE h == [S \in SUBSET (1 .. k + 1) |->
                     IF k + 1 \in S THEN g[<<f[S \ {k + 1}], k + 1>>] ELSE f[S]]
  <2>3. \A S \in SUBSET (1 .. k + 1) : S \ {k + 1} \in SUBSET (1 .. k)
    OBVIOUS
  <2>4. \A S \in SUBSET (1 .. k + 1) : k + 1 \notin S => S \in SUBSET (1 .. k)
    OBVIOUS
  <2>5. h \in [SUBSET (1 .. k + 1) -> P]
    <3>1. ASSUME NEW S \in SUBSET (1 .. k + 1), k + 1 \in S
          PROVE  g[<<f[S \ {k + 1}], k + 1>>] \in P
      <4>1. f[S \ {k + 1}] \in P
        BY <2>2, <2>3 DEF Solves
      <4>2. k + 1 \in 1 .. n
        BY <2>1
      <4>3. QED
        BY <4>1, <4>2
    <3>2. ASSUME NEW S \in SUBSET (1 .. k + 1), k + 1 \notin S
          PROVE  f[S] \in P
      BY <2>2, <2>4, <3>2 DEF Solves
    <3>3. QED
      BY <3>1, <3>2
  <2>6. h[{}] = base
    BY <2>2 DEF Solves
  <2>7. ASSUME NEW S \in SUBSET (1 .. k + 1), S # {}
        PROVE  h[S] = g[<<h[S \ {Max(S)}], Max(S)>>]
    <3>1. CASE k + 1 \in S
      <4>1. Max(S) = k + 1
        BY <3>1, MaxOfInitial
      <4>2. h[S \ {k + 1}] = f[S \ {k + 1}]
        BY <2>3
      <4>3. QED
        BY <3>1, <4>1, <4>2
    <3>2. CASE k + 1 \notin S
      <4> DEFINE R == S \ {Max(S)}
      <4>1. R \in SUBSET (1 .. k + 1) /\ k + 1 \notin R
        BY <3>2
      <4>2. h[R] = f[R]
        BY <4>1
      <4>3. f[S] = g[<<f[R], Max(S)>>]
        BY <2>2, <2>4, <2>7, <3>2 DEF Solves
      <4>4. h[S] = f[S]
        BY <3>2
      <4>5. QED
        BY <4>2, <4>3, <4>4
    <3>3. QED
      BY <3>1, <3>2
  <2>8. QED
    BY <2>5, <2>6, <2>7 DEF Solves
<1>3. n \in Q
  <2>1. \A k \in Nat : k \in Q => k + 1 \in Q
    BY <1>2
  <2>2. Nat \subseteq Q
    <3> HIDE DEF Q
    <3> QED
      BY <1>1, <2>1, SetInduction
  <2>3. QED
    BY <2>2
<1>4. QED
  BY <1>3

\* f obeys the recursion of the fold wherever it has a value in P to start from.
Obeys(f, P, base, g, n) ==
  /\ f[{}] = base
  /\ \A S \in SUBSET (1 .. n) :
       S # {} /\ f[S \ {Max(S)}] \in P => f[S] = g[<<f[S \ {Max(S)}], Max(S)>>]

\* It goes through the positions one by one, from base and within P.
StepsThrough(f, P, base, g, n) ==
  /\ \A k \in 0 .. n : f[1 .. k] \in P
  /\ f[1 .. 0] = base
  /\ \A k \in 1 .. n : f[1 .. k] = g[<<f[1 .. k - 1], k>>]

\* Any solution of that recursion steps through the positions one by one.
LEMMA FoldTrace ==
  ASSUME NEW P, NEW base \in P, NEW n \in Nat, NEW g \in [P \X (1 .. n) -> P],
         NEW f, Obeys(f, P, base, g, n)
  PROVE  StepsThrough(f, P, base, g, n)
<1> DEFINE Q == {k \in Nat : k <= n => f[1 .. k] \in P}
<1>1. 1 .. 0 = {}
  OBVIOUS
<1>2. 0 \in Q
  BY <1>1 DEF Obeys
<1>3. ASSUME NEW k \in Nat, k + 1 <= n, f[1 .. k] \in P
      PROVE  f[1 .. k + 1] = g[<<f[1 .. k], k + 1>>] /\ f[1 .. k + 1] \in P
  <2> DEFINE S == 1 .. k + 1
  <2>1. S \in SUBSET (1 .. n) /\ k + 1 \in S
    BY <1>3
  <2>2. Max(S) = k + 1
    BY <2>1, MaxOfInitial
  <2>3. S \ {Max(S)} = 1 .. k
    BY <2>2
  <2>4. f[S] = g[<<f[1 .. k], k + 1>>]
    BY <1>3, <2>1, <2>2, <2>3 DEF Obeys
  <2>5. QED
    BY <1>3, <2>4
<1>4. ASSUME NEW k \in Nat, k \in Q PROVE k + 1 \in Q
  <2>1. SUFFICES ASSUME k + 1 <= n PROVE f[1 .. k + 1] \in P
    OBVIOUS
  <2>2. f[1 .. k] \in P
    BY <1>4, <2>1
  <2>3. QED
    BY <1>3, <2>1, <2>2
<1>5. Nat \subseteq Q
  <2> HIDE DEF Q
  <2> QED
    BY <1>2, <1>4, SetInduction
<1>6. \A k \in 0 .. n : f[1 .. k] \in P
  BY <1>5
<1>7. ASSUME NEW k \in 1 .. n PROVE f[1 .. k] = g[<<f[1 .. k - 1], k>>]
  <2>1. k - 1 \in Nat /\ (k - 1) + 1 = k /\ f[1 .. k - 1] \in P
    BY <1>6
  <2>2. QED
    BY <1>3, <2>1
<1>8. QED
  BY <1>1, <1>6, <1>7 DEF Obeys, StepsThrough
=============================================================================
