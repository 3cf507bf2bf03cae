---------------------------- MODULE FoldInduction ----------------------------
(***************************************************************************)
(* Induction for the proofs: over the natural numbers, by their least      *)
(* element, along a sequence that is folded from left to right, and for a  *)
(* function of a number that is given by its value for the number before.  *)
(*                                                                         *)
(* A module that folds Op instantiates this one with what it claims of the *)
(* fold: P(base, s, acc, i) says what acc, folded from base over the first *)
(* i elements of s, has to do with them.                                   *)
(***************************************************************************)
EXTENDS Integers, Sequences, SequencesExt, WellFoundedInduction, TLAPS

CONSTANTS Op(_, _), P(_, _, _, _)

-----------------------------------------------------------------------------
(* Sets of numbers. *)

\* A set of natural numbers has a least element: an induction looks at the
\* least number that is wrong.
THEOREM LeastNatural ==
    ASSUME NEW T \in SUBSET Nat, T # {}
    PROVE  \E m \in T : \A k \in T : m <= k
<1> DEFINE R == OpToRel(<, Nat)
<1>1. \A x, y \in Nat : <<x, y>> \in R <=> x < y
  BY DEF OpToRel
<1>2. IsWellFoundedOn(R, Nat)
  BY NatLessThanWellFounded
<1> HIDE DEF R
<1>3. PICK m \in T : \A k \in T : <<k, m>> \notin R
  BY <1>2, WFMin
<1>4. m \in Nat /\ \A k \in T : k \in Nat
  OBVIOUS
<1>5. \A k \in T : ~ (k < m)
  BY <1>1, <1>3, <1>4
<1>6. \A k \in T : m <= k
  BY <1>4, <1>5
<1> QED
  BY <1>6

\* A bounded set of positions has a greatest one, which is its Max.
THEOREM GreatestPosition ==
    ASSUME NEW n \in Nat, NEW t \in SUBSET (1 .. n), t # {}
    PROVE  /\ Max(t) \in t
           /\ \A k \in t : k <= Max(t)
           /\ t \ {Max(t)} \in SUBSET (1 .. Max(t) - 1)
<1> DEFINE Bounds == {b \in Nat : \A k \in t : k <= b}
<1>1. n \in Bounds
  OBVIOUS
<1>2. PICK b \in Bounds : \A c \in Bounds : b <= c
  BY <1>1, LeastNatural
<1>3. b \in t
  <2>1. SUFFICES ASSUME b \notin t
                 PROVE  FALSE
    OBVIOUS
  <2>2. \A k \in t : k <= b /\ k # b /\ k \in Nat /\ 1 <= k
    BY <2>1
  <2>3. b \in Nat /\ \E k \in t : TRUE
    OBVIOUS
  <2>4. b - 1 \in Nat /\ \A k \in t : k <= b - 1
    BY <2>2, <2>3
  <2>5. b - 1 \in Bounds
    BY <2>4
  <2> QED
    BY <1>2, <2>3, <2>5
<1>4. \E x \in t : \A y \in t : x >= y
  BY <1>2, <1>3
<1>5. Max(t) \in t /\ \A y \in t : Max(t) >= y
  BY <1>4 DEF Max
<1>6. \A k \in t : k \in Nat /\ 1 <= k
  OBVIOUS
<1>7. Max(t) \in Nat
  BY <1>5, <1>6
<1> HIDE DEF Bounds
<1>8. \A k \in t : k <= Max(t)
  BY <1>5, <1>6, <1>7
<1>9. ASSUME NEW k \in t \ {Max(t)}
      PROVE  k \in 1 .. Max(t) - 1
  <2>1. k \in Nat /\ 1 <= k /\ k <= Max(t) /\ k # Max(t)
    BY <1>6, <1>8
  <2> QED
    BY <2>1, <1>7
<1> QED
  BY <1>5, <1>8, <1>9

\* The greatest of the first m positions, and the others.
LEMMA UpTo ==
    ASSUME NEW m \in Nat, 1 <= m
    PROVE  /\ 1 .. m # {} /\ \A n \in Nat : m <= n => 1 .. m \in SUBSET (1 .. n)
           /\ Max(1 .. m) = m
           /\ (1 .. m) \ {m} = 1 .. m - 1
<1>1. m \in 1 .. m
  OBVIOUS
<1>2. Max(1 .. m) \in 1 .. m /\ m <= Max(1 .. m)
  BY <1>1, GreatestPosition
<1>3. Max(1 .. m) = m
  BY <1>2
<1> QED
  BY <1>1, <1>3

-----------------------------------------------------------------------------
(* The fold. *)

\* What FoldLeft unfolds to: the function that folds over a set of positions.
Folds(s, base, n, g) ==
    g = [t \in SUBSET (1 .. n) |->
           IF t = {} THEN base ELSE Op(g[t \ {Max(t)}], s[Max(t)])]

\* There is such a function.
LEMMA FoldExists ==
    ASSUME NEW s, NEW base, NEW N \in Nat
    PROVE  \E g : Folds(s, base, N, g)
<1> DEFINE Bad == {n \in Nat : ~ \E g : Folds(s, base, n, g)}
<1>1. SUFFICES Bad = {}
  OBVIOUS
<1>2. SUFFICES ASSUME Bad # {}
               PROVE  FALSE
  OBVIOUS
<1>3. PICK m \in Bad : \A k \in Bad : m <= k
  BY <1>2, LeastNatural
<1>4. m # 0
  <2> DEFINE g == [t \in SUBSET (1 .. 0) |-> base]
  <2>1. \A t \in SUBSET (1 .. 0) : t = {}
    OBVIOUS
  <2>2. g = [t \in SUBSET (1 .. 0) |->
               IF t = {} THEN base ELSE Op(g[t \ {Max(t)}], s[Max(t)])]
    BY <2>1
  <2>3. Folds(s, base, 0, g)
    BY <2>2 DEF Folds
  <2> QED
    BY <2>3
<1>5. m - 1 \in Nat /\ m - 1 \notin Bad
  BY <1>3, <1>4
<1>6. PICK g : Folds(s, base, m - 1, g)
  BY <1>5
<1> DEFINE h == [t \in SUBSET (1 .. m) |->
                   IF t = {} THEN base ELSE Op(g[t \ {Max(t)}], s[Max(t)])]
<1>7. ASSUME NEW t \in SUBSET (1 .. m), t # {}
      PROVE  h[t \ {Max(t)}] = g[t \ {Max(t)}]
  <2> DEFINE u == t \ {Max(t)}
  <2>0. m \in Nat
    BY <1>3
  <2>1. u \in SUBSET (1 .. m - 1) /\ u \in SUBSET (1 .. m)
    <3>1. Max(t) \in t /\ u \in SUBSET (1 .. Max(t) - 1)
      BY <2>0, <1>7, GreatestPosition
    <3>2. Max(t) \in 1 .. m
      BY <3>1
    <3> QED
      BY <2>0, <3>1, <3>2
  <2>2. g[u] = IF u = {} THEN base ELSE Op(g[u \ {Max(u)}], s[Max(u)])
    BY <1>6, <2>1 DEF Folds
  <2>3. h[u] = IF u = {} THEN base ELSE Op(g[u \ {Max(u)}], s[Max(u)])
    BY <2>1
  <2> QED
    BY <2>2, <2>3
<1>8. h = [t \in SUBSET (1 .. m) |->
             IF t = {} THEN base ELSE Op(h[t \ {Max(t)}], s[Max(t)])]
  BY <1>7
<1>9. Folds(s, base, m, h)
  BY <1>8 DEF Folds
<1> QED
  BY <1>3, <1>9

\* A fold is the work of such a function.
LEMMA FoldIs ==
    ASSUME NEW S, NEW s \in Seq(S), NEW base
    PROVE  \E g : Folds(s, base, Len(s), g) /\ FoldLeft(Op, base, s) = g[1 .. Len(s)]
<1> DEFINE it == CHOOSE g : Folds(s, base, Len(s), g)
<1>1. Folds(s, base, Len(s), it)
  BY FoldExists
<1>2. DOMAIN s = 1 .. Len(s)
  OBVIOUS
<1>3. FoldLeft(Op, base, s) = it[1 .. Len(s)]
  BY <1>2 DEF FoldLeft, MapThenFoldSet, Folds
<1> QED
  BY <1>1, <1>3

\* What holds of the base, and goes on to hold with every element that is
\* folded in, holds of the fold.
THEOREM FoldInduct ==
    ASSUME NEW S, NEW s \in Seq(S), NEW base,
           P(base, s, base, 0),
           \A acc, i : i \in 1 .. Len(s) /\ P(base, s, acc, i - 1) => P(base, s, Op(acc, s[i]), i)
    PROVE  P(base, s, FoldLeft(Op, base, s), Len(s))
<1>1. PICK g : Folds(s, base, Len(s), g) /\ FoldLeft(Op, base, s) = g[1 .. Len(s)]
  BY FoldIs
<1> DEFINE Bad == {n \in 0 .. Len(s) : ~ P(base, s, g[1 .. n], n)}
<1>2. SUFFICES Bad = {}
  BY <1>1
<1>3. SUFFICES ASSUME Bad # {}
               PROVE  FALSE
  OBVIOUS
<1>4. PICK m \in Bad : \A k \in Bad : m <= k
  <2>1. Bad \in SUBSET Nat
    OBVIOUS
  <2> HIDE DEF Bad
  <2> QED
    BY <1>3, <2>1, LeastNatural
<1>5. m # 0
  <2>1. g[1 .. 0] = base
    BY <1>1 DEF Folds
  <2> QED
    BY <2>1
<1>6. m \in 1 .. Len(s) /\ m - 1 \in 0 .. Len(s) /\ m - 1 \notin Bad
  BY <1>4, <1>5
<1>7. P(base, s, g[1 .. m - 1], m - 1)
  BY <1>6
<1>8. P(base, s, Op(g[1 .. m - 1], s[m]), m)
  BY <1>6, <1>7
<1>9. g[1 .. m] = Op(g[1 .. m - 1], s[m])
  <2>1. m \in Nat /\ 1 <= m /\ m <= Len(s) /\ Len(s) \in Nat
    BY <1>6
  <2>2. 1 .. m \in SUBSET (1 .. Len(s)) /\ 1 .. m # {}
    BY <2>1, UpTo
  <2>3. Max(1 .. m) = m /\ (1 .. m) \ {m} = 1 .. m - 1
    BY <2>1, UpTo
  <2> QED
    BY <1>1, <2>2, <2>3 DEF Folds
<1> QED
  BY <1>4, <1>8, <1>9

\* A fold over nothing is its base, and over one more element one step more.
THEOREM FoldSteps ==
    ASSUME NEW S, NEW s \in Seq(S), NEW x \in S, NEW base
    PROVE  /\ FoldLeft(Op, base, <<>>) = base
           /\ FoldLeft(Op, base, Append(s, x)) = Op(FoldLeft(Op, base, s), x)
<1> DEFINE n == Len(s)
           t == Append(s, x)
<1>1. n \in Nat /\ t \in Seq(S) /\ Len(t) = n + 1 /\ t[n + 1] = x /\ \A i \in 1 .. n : t[i] = s[i]
  OBVIOUS
<1>2. PICK g : Folds(s, base, n, g) /\ FoldLeft(Op, base, s) = g[1 .. n]
  BY FoldIs
<1>3. PICK h : Folds(t, base, n + 1, h) /\ FoldLeft(Op, base, t) = h[1 .. n + 1]
  BY <1>1, FoldIs
<1> HIDE DEF t, n
<1>4. ASSUME NEW k \in Nat, 1 <= k, k <= n
      PROVE  /\ g[1 .. k] = Op(g[1 .. k - 1], s[k])
             /\ h[1 .. k] = Op(h[1 .. k - 1], s[k])
  <2>1. n \in Nat /\ n + 1 \in Nat /\ k <= n + 1
    BY <1>1, <1>4
  <2>2. 1 .. k # {} /\ 1 .. k \in SUBSET (1 .. n) /\ 1 .. k \in SUBSET (1 .. n + 1)
    BY <1>4, <2>1, UpTo
  <2>3. Max(1 .. k) = k /\ (1 .. k) \ {k} = 1 .. k - 1
    BY <1>4, UpTo
  <2>4. t[k] = s[k]
    BY <1>1, <1>4
  <2>5. g[1 .. k] = Op(g[1 .. k - 1], s[k])
    BY <1>2, <2>2, <2>3 DEF Folds
  <2>6. h[1 .. k] = Op(h[1 .. k - 1], s[k])
    BY <1>3, <2>2, <2>3, <2>4 DEF Folds
  <2> QED
    BY <2>5, <2>6
<1>5. g[1 .. 0] = base /\ h[1 .. 0] = base
  BY <1>1, <1>2, <1>3 DEF Folds
<1> DEFINE Bad == {k \in 0 .. n : g[1 .. k] # h[1 .. k]}
<1>6. Bad = {}
  <2>1. SUFFICES ASSUME Bad # {}
                 PROVE  FALSE
    OBVIOUS
  <2>2. PICK m \in Bad : \A k \in Bad : m <= k
    <3>1. Bad \in SUBSET Nat
      BY <1>1
    <3> HIDE DEF Bad
    <3> QED
      BY <2>1, <3>1, LeastNatural
  <2>3. m # 0
    BY <1>5
  <2>4. m \in Nat /\ 1 <= m /\ m <= n /\ m - 1 \notin Bad /\ m - 1 \in 0 .. n
    BY <1>1, <2>2, <2>3
  <2>5. g[1 .. m - 1] = h[1 .. m - 1]
    BY <2>4
  <2>6. g[1 .. m] = h[1 .. m]
    BY <1>4, <2>4, <2>5
  <2> QED
    BY <2>2, <2>6
<1>7. g[1 .. n] = h[1 .. n]
  BY <1>1, <1>6
<1>8. h[1 .. n + 1] = Op(h[1 .. n], x)
  <2>1. n + 1 \in Nat /\ 1 <= n + 1
    BY <1>1
  <2>2. 1 .. n + 1 # {} /\ 1 .. n + 1 \in SUBSET (1 .. n + 1)
        /\ Max(1 .. n + 1) = n + 1 /\ (1 .. n + 1) \ {n + 1} = 1 .. n
    <3>1. 1 .. (n + 1) - 1 = 1 .. n
      BY <1>1
    <3> QED
      BY <2>1, <3>1, UpTo
  <2> QED
    BY <1>1, <1>3, <2>2 DEF Folds
<1>9. FoldLeft(Op, base, <<>>) = base
  <2>1. PICK f : Folds(<<>>, base, Len(<<>>), f) /\ FoldLeft(Op, base, <<>>) = f[1 .. Len(<<>>)]
    <3>1. <<>> \in Seq(S)
      OBVIOUS
    <3> QED
      BY <3>1, FoldIs
  <2>2. 1 .. Len(<<>>) = {}
    OBVIOUS
  <2> QED
    BY <2>1, <2>2 DEF Folds
<1> QED
  BY <1>2, <1>3, <1>7, <1>8, <1>9 DEF t, n

-----------------------------------------------------------------------------
(* A function of a number that is given by its value for the number before. *)

\* There is one on the numbers to n.
Recurs(f, n) == f = [m \in 0 .. n |-> Op(f[m - 1], m)]

LEMMA RecursExists ==
    ASSUME \A f, g : Op(f, 0) = Op(g, 0), NEW N \in Nat
    PROVE  \E f : Recurs(f, N)
<1> DEFINE Bad == {n \in Nat : ~ \E f : Recurs(f, n)}
<1>1. SUFFICES ASSUME Bad # {}
               PROVE  FALSE
  OBVIOUS
<1>2. PICK n \in Bad : \A k \in Bad : n <= k
  BY <1>1, LeastNatural
<1>3. n # 0
  <2> DEFINE f == [m \in 0 .. 0 |-> Op(0, m)]
  <2>1. f = [m \in 0 .. 0 |-> Op(f[m - 1], m)]
    <3>1. \A m \in 0 .. 0 : m = 0
      OBVIOUS
    <3>2. ASSUME NEW m \in 0 .. 0
          PROVE  Op(0, m) = Op(f[m - 1], m)
      <4> HIDE DEF f
      <4> QED
        BY <3>1
    <3> QED
      BY <3>2
  <2> QED
    BY <2>1 DEF Recurs
<1>4. n - 1 \in Nat /\ n - 1 \notin Bad
  BY <1>2, <1>3
<1>5. PICK f : Recurs(f, n - 1)
  BY <1>4
<1> DEFINE h == [m \in 0 .. n |-> IF m = n THEN Op(f[n - 1], n) ELSE f[m]]
<1>6. n \in Nat
  OBVIOUS
<1>7. ASSUME NEW m \in 0 .. n
      PROVE  h[m] = Op(h[m - 1], m)
  <2>1. CASE m = 0
    <3>1. f[0] = Op(f[0 - 1], 0)
      BY <1>4, <1>5 DEF Recurs
    <3>2. h[m] = f[0]
      BY <1>3, <2>1
    <3> HIDE DEF h
    <3> QED
      BY <2>1, <3>1, <3>2
  <2>2. CASE m = n
    <3>1. h[m - 1] = f[n - 1]
      BY <1>3, <2>2
    <3> QED
      BY <2>2, <3>1
  <2>3. CASE m # 0 /\ m # n
    <3>1. m \in 0 .. n - 1 /\ m - 1 \in 0 .. n /\ m - 1 # n
      BY <2>3
    <3>2. f[m] = Op(f[m - 1], m)
      BY <1>5, <3>1 DEF Recurs
    <3> QED
      BY <2>3, <3>1, <3>2
  <2> QED
    BY <2>1, <2>2, <2>3
<1>8. h = [m \in 0 .. n |-> Op(h[m - 1], m)]
  BY <1>7
<1>9. Recurs(h, n)
  BY <1>8 DEF Recurs
<1> QED
  BY <1>2, <1>9

\* And there is one on all numbers: it takes each value from one of those.
THEOREM Recursion ==
    ASSUME \A f, g : Op(f, 0) = Op(g, 0)
    PROVE  \E f : f = [n \in Nat |-> Op(f[n - 1], n)]
<1> DEFINE To(n) == CHOOSE f : Recurs(f, n)
<1>1. \A n \in Nat : Recurs(To(n), n)
  BY RecursExists
<1> HIDE DEF To
<1>2. ASSUME NEW n \in Nat, NEW m \in 0 .. n
      PROVE  To(n)[m] = To(m)[m]
  <2> DEFINE Bad == {k \in 0 .. m : To(n)[k] # To(m)[k]}
  <2>1. SUFFICES Bad = {}
    OBVIOUS
  <2>2. SUFFICES ASSUME Bad # {}
                 PROVE  FALSE
    OBVIOUS
  <2>3. PICK k \in Bad : \A j \in Bad : k <= j
    <3>1. Bad \in SUBSET Nat
      OBVIOUS
    <3> HIDE DEF Bad
    <3> QED
      BY <2>2, <3>1, LeastNatural
  <2>4. k \in 0 .. n /\ k \in 0 .. m /\ m \in Nat
    BY <2>3
  <2>5. To(n)[k] = Op(To(n)[k - 1], k)
    BY <1>1, <2>4 DEF Recurs
  <2>6. To(m)[k] = Op(To(m)[k - 1], k)
    BY <1>1, <2>4 DEF Recurs
  <2>7. k # 0
    BY <2>3, <2>5, <2>6
  <2>8. k - 1 \notin Bad /\ k - 1 \in 0 .. m
    BY <2>3, <2>7
  <2>9. To(n)[k - 1] = To(m)[k - 1]
    BY <2>8
  <2> QED
    BY <2>3, <2>5, <2>6, <2>9
<1> DEFINE F == [n \in Nat |-> To(n)[n]]
<1>3. ASSUME NEW n \in Nat
      PROVE  F[n] = Op(F[n - 1], n)
  <2>1. To(n)[n] = Op(To(n)[n - 1], n)
    BY <1>1 DEF Recurs
  <2>2. CASE n = 0
    <3>1. F[n] = Op(To(n)[n - 1], n)
      BY <2>1
    <3> HIDE DEF F
    <3> QED
      BY <2>2, <3>1
  <2>3. CASE n # 0
    <3>1. n - 1 \in Nat /\ n - 1 \in 0 .. n
      BY <2>3
    <3>2. To(n)[n - 1] = F[n - 1]
      BY <1>2, <3>1
    <3> QED
      BY <2>1, <3>2
  <2> QED
    BY <2>2, <2>3
<1>4. F = [n \in Nat |-> Op(F[n - 1], n)]
  BY <1>3
<1> QED
  BY <1>4
=============================================================================
