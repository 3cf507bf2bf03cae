------------------------------ MODULE SfsProofs ------------------------------
(***************************************************************************)
(* Proofs about SfsCodec, for any keys, texts, counts and limits: the four *)
(* properties that its run checks on a small instance.                     *)
(*                                                                         *)
(* Values and what is defined of them (their size, cost and code, whether  *)
(* they can be written) are functions of the depth: each is one level more *)
(* of itself (FoldInduction's Recursion), and what is claimed of all of    *)
(* them is claimed at the least depth where it fails.  Sums and codes in a *)
(* row are folds.                                                          *)
(*                                                                         *)
(* Three invariants carry the steps.  HeldInv: what the frames on the      *)
(* stack hold has been counted.  PrintInv: what has been shown, what is    *)
(* left of the budget and what the walks still owe add up.  CodeInv: the   *)
(* codes of the frames, in a row, are the bytes that were read, those of   *)
(* bools as 0 or 1, as long as no key came twice and every string can be   *)
(* written.                                                                *)
(***************************************************************************)
EXTENDS SfsCodec, FiniteSetTheorems, TLAPS

\* Where only a recursion is needed, no claim is folded.
NoClaim(base, s, acc, i) == TRUE

-----------------------------------------------------------------------------
(* Sequences. *)

LEMMA SeqSplit ==
    ASSUME NEW S, NEW s \in Seq(S), s # <<>>
    PROVE  /\ Front(s) \in Seq(S) /\ Last(s) \in S
           /\ Len(Front(s)) = Len(s) - 1
           /\ s = Append(Front(s), Last(s))
           /\ \A i \in 1 .. Len(s) - 1 : Front(s)[i] = s[i]
           /\ Last(s) = s[Len(s)]
<1>1. Len(s) \in Nat /\ Len(s) # 0
  OBVIOUS
<1>2. Front(s) = [i \in 1 .. Len(s) - 1 |-> s[i]]
  BY <1>1 DEF Front
<1>3. Last(s) = s[Len(s)] /\ Last(s) \in S
  BY <1>1 DEF Last
<1>4. Len(s) - 1 \in Nat /\ \A i \in 1 .. Len(s) - 1 : s[i] \in S
  BY <1>1
<1>5. Front(s) \in Seq(S) /\ Len(Front(s)) = Len(s) - 1
  BY <1>2, <1>4
<1>6. Len(Append(Front(s), Last(s))) = Len(s)
  BY <1>1, <1>3, <1>5
<1>7. \A i \in 1 .. Len(s) : Append(Front(s), Last(s))[i] = s[i]
  BY <1>1, <1>2, <1>3, <1>5
<1>8. s = Append(Front(s), Last(s))
  BY <1>3, <1>5, <1>6, <1>7
<1> QED
  BY <1>2, <1>3, <1>5, <1>8

LEMMA SeqElement ==
    ASSUME NEW S, NEW s \in Seq(S), NEW i \in DOMAIN s
    PROVE  s[i] \in S /\ i \in 1 .. Len(s)
OBVIOUS

\* A sequence mapped is one.
LEMMA MappedSeq ==
    ASSUME NEW S, NEW s \in Seq(S), NEW T, NEW f \in [DOMAIN s -> T]
    PROVE  f \in Seq(T) /\ Len(f) = Len(s) /\ DOMAIN f = DOMAIN s
<1>1. Len(s) \in Nat /\ DOMAIN s = 1 .. Len(s)
  OBVIOUS
<1>2. f \in [1 .. Len(s) -> T]
  BY <1>1
<1> QED
  BY <1>1, <1>2

LEMMA AppendSplit ==
    ASSUME NEW S, NEW s \in Seq(S), NEW x \in S
    PROVE  /\ Append(s, x) \in Seq(S) /\ Append(s, x) # <<>>
           /\ Front(Append(s, x)) = s
           /\ Last(Append(s, x)) = x
<1>1. Append(s, x) \in Seq(S) /\ Len(Append(s, x)) = Len(s) + 1 /\ Len(s) \in Nat
  OBVIOUS
<1>2. Last(Append(s, x)) = x
  BY <1>1 DEF Last
<1>3. Front(Append(s, x)) \in Seq(S) /\ Len(Front(Append(s, x))) = Len(s)
      /\ \A i \in 1 .. Len(s) : Front(Append(s, x))[i] = s[i]
  <2> DEFINE t == Append(s, x)
  <2>1. t \in Seq(S) /\ t # <<>> /\ Len(t) = Len(s) + 1 /\ Len(s) \in Nat
    BY <1>1
  <2>2. \A i \in 1 .. Len(s) : t[i] = s[i]
    OBVIOUS
  <2> HIDE DEF t
  <2>3. Front(t) \in Seq(S) /\ Len(Front(t)) = Len(t) - 1 /\ \A i \in 1 .. Len(t) - 1 : Front(t)[i] = t[i]
    BY <2>1, SeqSplit
  <2>4. Len(t) - 1 = Len(s)
    BY <2>1
  <2>5. Front(t) \in Seq(S) /\ Len(Front(t)) = Len(s) /\ \A i \in 1 .. Len(s) : Front(t)[i] = s[i]
    BY <2>2, <2>3, <2>4
  <2> QED
    BY <2>5 DEF t
<1>4. Front(Append(s, x)) = s
  BY <1>3
<1> QED
  BY <1>1, <1>2, <1>4

-----------------------------------------------------------------------------
(* Sums. *)

TotalNat(base, s, acc, i) == acc \in Nat

\* The sum of s and the first elements of another sequence.
TotalOn(base, s, acc, i) == acc = base + Total(SubSeq(s, 1, i))

Adding == INSTANCE FoldInduction WITH Op <- Plus, P <- TotalNat
AddingOn == INSTANCE FoldInduction WITH Op <- Plus, P <- TotalOn

LEMMA TotalSteps ==
    ASSUME NEW s \in Seq(Nat), NEW x \in Nat
    PROVE  /\ Total(<<>>) = 0
           /\ Total(s) \in Nat
           /\ Total(Append(s, x)) = Total(s) + x
<1>0. /\ Adding!FoldLeft(Plus, 0, <<>>) = FoldLeft(Plus, 0, <<>>)
      /\ Adding!FoldLeft(Plus, 0, s) = FoldLeft(Plus, 0, s)
      /\ Adding!FoldLeft(Plus, 0, Append(s, x)) = FoldLeft(Plus, 0, Append(s, x))
  BY DEF Adding!FoldLeft, FoldLeft, Adding!MapThenFoldSet, MapThenFoldSet, Adding!Max, Max
<1>1. FoldLeft(Plus, 0, <<>>) = 0 /\ FoldLeft(Plus, 0, Append(s, x)) = Plus(FoldLeft(Plus, 0, s), x)
  <2>1. Adding!FoldLeft(Plus, 0, <<>>) = 0 /\ Adding!FoldLeft(Plus, 0, Append(s, x)) = Plus(Adding!FoldLeft(Plus, 0, s), x)
    BY Adding!FoldSteps
  <2>2. FoldLeft(Plus, 0, <<>>) = 0
    BY <1>0, <2>1, Zenon
  <2>3. FoldLeft(Plus, 0, Append(s, x)) = Plus(FoldLeft(Plus, 0, s), x)
    BY <1>0, <2>1, Zenon
  <2> QED
    BY <2>2, <2>3
<1>2. TotalNat(0, s, FoldLeft(Plus, 0, s), Len(s))
  <2>1. TotalNat(0, s, 0, 0)
    BY DEF TotalNat
  <2>2. \A acc, i : i \in 1 .. Len(s) /\ TotalNat(0, s, acc, i - 1) => TotalNat(0, s, Plus(acc, s[i]), i)
    BY DEF TotalNat, Plus
  <2> QED
    BY <1>0, <2>1, <2>2, Adding!FoldInduct
<1> QED
  BY <1>1, <1>2 DEF Total, TotalNat, Plus

LEMMA FirstSteps ==
    ASSUME NEW S, NEW s \in Seq(S), NEW i \in 1 .. Len(s)
    PROVE  /\ SubSeq(s, 1, i - 1) \in Seq(S)
           /\ SubSeq(s, 1, i) = Append(SubSeq(s, 1, i - 1), s[i])
<1>1. Len(s) \in Nat /\ i \in Nat /\ i - 1 \in Nat /\ s[i] \in S
  OBVIOUS
<1>2. SubSeq(s, 1, i - 1) \in Seq(S) /\ Len(SubSeq(s, 1, i - 1)) = i - 1
  BY <1>1
<1>3. Len(SubSeq(s, 1, i)) = i /\ SubSeq(s, 1, i) \in Seq(S)
  BY <1>1
<1>4. \A k \in 1 .. i : SubSeq(s, 1, i)[k] = Append(SubSeq(s, 1, i - 1), s[i])[k]
  BY <1>1, <1>2
<1> QED
  BY <1>1, <1>2, <1>3, <1>4

LEMMA WholeSeq ==
    ASSUME NEW S, NEW s \in Seq(S)
    PROVE  SubSeq(s, 1, 0) = <<>> /\ SubSeq(s, 1, Len(s)) = s
OBVIOUS

LEMMA TotalFrom ==
    ASSUME NEW s \in Seq(Nat), NEW b \in Nat
    PROVE  FoldLeft(Plus, b, s) = b + Total(s)
<1>1. TotalOn(b, s, b, 0)
  <2>1. SubSeq(s, 1, 0) = <<>>
    BY WholeSeq
  <2>2. Total(<<>>) = 0
    BY TotalSteps
  <2>3. Total(SubSeq(s, 1, 0)) = 0
    BY <2>1, <2>2, Zenon
  <2> QED
    BY <2>3 DEF TotalOn
<1>2. ASSUME NEW acc, NEW i, i \in 1 .. Len(s), TotalOn(b, s, acc, i - 1)
      PROVE  TotalOn(b, s, Plus(acc, s[i]), i)
  <2>1. s[i] \in Nat
    BY <1>2
  <2>2. SubSeq(s, 1, i - 1) \in Seq(Nat) /\ SubSeq(s, 1, i) = Append(SubSeq(s, 1, i - 1), s[i])
    BY <1>2, FirstSteps
  <2>3. Total(SubSeq(s, 1, i)) = Total(SubSeq(s, 1, i - 1)) + s[i] /\ Total(SubSeq(s, 1, i - 1)) \in Nat
    BY <2>1, <2>2, TotalSteps
  <2> QED
    BY <1>2, <2>1, <2>3 DEF TotalOn, Plus
<1>3. \A acc, i : i \in 1 .. Len(s) /\ TotalOn(b, s, acc, i - 1) => TotalOn(b, s, Plus(acc, s[i]), i)
  BY <1>2
<1>4. TotalOn(b, s, AddingOn!FoldLeft(Plus, b, s), Len(s))
  BY <1>1, <1>3, AddingOn!FoldInduct
<1>5. AddingOn!FoldLeft(Plus, b, s) = FoldLeft(Plus, b, s)
  BY DEF AddingOn!FoldLeft, FoldLeft, AddingOn!MapThenFoldSet, MapThenFoldSet, AddingOn!Max, Max
<1> QED
  BY <1>4, <1>5, WholeSeq DEF TotalOn

LEMMA TotalNatural ==
    ASSUME NEW s \in Seq(Nat)
    PROVE  Total(s) \in Nat
<1>1. 0 \in Nat
  OBVIOUS
<1> QED
  BY <1>1, TotalSteps

LEMMA TotalEmpty == Total(<<>>) = 0
<1>1. <<>> \in Seq(Nat) /\ 0 \in Nat
  OBVIOUS
<1> QED
  BY <1>1, TotalSteps

LEMMA TotalConcat ==
    ASSUME NEW s \in Seq(Nat), NEW t \in Seq(Nat)
    PROVE  Total(s \o t) = Total(s) + Total(t)
<1> DEFINE Bad == {k \in 0 .. Len(t) : Total(s \o SubSeq(t, 1, k)) # Total(s) + Total(SubSeq(t, 1, k))}
<1>1. SUFFICES Bad = {}
  <2>1. Len(t) \in 0 .. Len(t)
    OBVIOUS
  <2>2. SubSeq(t, 1, Len(t)) = t
    BY WholeSeq
  <2>3. Len(t) \notin Bad
    OBVIOUS
  <2>4. Total(s \o SubSeq(t, 1, Len(t))) = Total(s) + Total(SubSeq(t, 1, Len(t)))
    BY <2>1, <2>3
  <2> QED
    BY <2>2, <2>4, Zenon
<1>2. SUFFICES ASSUME Bad # {}
               PROVE  FALSE
  OBVIOUS
<1>3. PICK m \in Bad : \A k \in Bad : m <= k
  <2>1. Bad \in SUBSET Nat
    OBVIOUS
  <2> HIDE DEF Bad
  <2> QED
    BY <1>2, <2>1, Adding!LeastNatural
<1>4. m \in Nat /\ m <= Len(t) /\ Len(t) \in Nat
  OBVIOUS
<1>5. m # 0
  <2>1. SubSeq(t, 1, 0) = <<>>
    BY WholeSeq
  <2>2. Total(<<>>) = 0 /\ Total(s) \in Nat
    BY TotalSteps, TotalNatural
  <2>3. s \o <<>> = s
    OBVIOUS
  <2>4. Total(s) = Total(s) + 0
    BY <2>2
  <2>5. Total(s \o SubSeq(t, 1, 0)) = Total(s) + Total(SubSeq(t, 1, 0))
    BY <2>1, <2>2, <2>3, <2>4, Zenon
  <2> QED
    BY <2>5
<1>6. m - 1 \in 0 .. Len(t) /\ m - 1 \notin Bad /\ m \in 1 .. Len(t)
  BY <1>3, <1>4, <1>5
<1> DEFINE u == SubSeq(t, 1, m - 1)
<1>7. Total(s \o u) = Total(s) + Total(u)
  BY <1>6
<1>8. u \in Seq(Nat) /\ SubSeq(t, 1, m) = Append(u, t[m]) /\ t[m] \in Nat
  <2>1. u \in Seq(Nat) /\ SubSeq(t, 1, m) = Append(u, t[m])
    BY <1>6, FirstSteps
  <2>2. t[m] \in Nat
    BY <1>6
  <2> QED
    BY <2>1, <2>2
<1> HIDE DEF u
<1>9. s \o Append(u, t[m]) = Append(s \o u, t[m]) /\ s \o u \in Seq(Nat)
  BY <1>8
<1>10. Total(Append(s \o u, t[m])) = Total(s \o u) + t[m] /\ Total(Append(u, t[m])) = Total(u) + t[m]
       /\ Total(u) \in Nat /\ Total(s) \in Nat
  BY <1>8, <1>9, TotalSteps, TotalNatural
<1>11. Total(s \o Append(u, t[m])) = Total(s) + Total(Append(u, t[m]))
  BY <1>7, <1>8, <1>9, <1>10
<1> QED
  BY <1>3, <1>8, <1>11

\* The sum loses its first element with it.
LEMMA TotalTail ==
    ASSUME NEW s \in Seq(Nat), s # <<>>
    PROVE  /\ Tail(s) \in Seq(Nat) /\ Head(s) \in Nat
           /\ Total(s) = Head(s) + Total(Tail(s))
           /\ Total(Tail(s)) \in Nat
<1>1. Tail(s) \in Seq(Nat) /\ Head(s) \in Nat /\ <<Head(s)>> \in Seq(Nat) /\ <<>> \in Seq(Nat)
  OBVIOUS
<1>2. s = <<Head(s)>> \o Tail(s)
  OBVIOUS
<1>3. Total(<<Head(s)>>) = Head(s)
  <2>1. Append(<<>>, Head(s)) = <<Head(s)>>
    OBVIOUS
  <2>2. Total(Append(<<>>, Head(s))) = Total(<<>>) + Head(s) /\ Total(<<>>) = 0
    BY <1>1, TotalSteps
  <2>3. Total(Append(<<>>, Head(s))) = Head(s)
    BY <1>1, <2>2
  <2> QED
    BY <2>1, <2>3, Zenon
<1>4. Total(<<Head(s)>> \o Tail(s)) = Head(s) + Total(Tail(s))
  BY <1>1, <1>3, TotalConcat
<1> QED
  BY <1>1, <1>2, <1>4, TotalNatural, Zenon

LEMMA TotalAround ==
    ASSUME NEW a \in Seq(Nat), NEW b \in Seq(Nat), NEW x \in Nat
    PROVE  /\ Total(Append(a, x) \o b) = Total(a) + x + Total(b)
           /\ Total(a) \in Nat /\ Total(b) \in Nat
<1>1. Append(a, x) \in Seq(Nat)
  OBVIOUS
<1>2. Total(Append(a, x) \o b) = Total(Append(a, x)) + Total(b)
  BY <1>1, TotalConcat
<1> QED
  BY <1>2, TotalSteps, TotalNatural

LEMMA SameSeq ==
    ASSUME NEW S, NEW s \in Seq(S), NEW t \in Seq(S), Len(s) = Len(t), \A i \in 1 .. Len(s) : s[i] = t[i]
    PROVE  s = t
OBVIOUS

\* a and b are what s is before and after its element i.
Around(s, i, a, b) ==
    /\ Len(a) = i - 1 /\ \A k \in 1 .. i - 1 : a[k] = s[k]
    /\ Len(b) = Len(s) - i /\ \A k \in 1 .. Len(s) - i : b[k] = s[k + i]

LEMMA SeqAround ==
    ASSUME NEW S, NEW s \in Seq(S), NEW i \in 1 .. Len(s)
    PROVE  \E a, b \in Seq(S) : Around(s, i, a, b)
<1>1. i \in Nat /\ i >= 1 /\ i <= Len(s) /\ Len(s) \in Nat /\ i - 1 \in Nat /\ Len(s) - i \in Nat
  OBVIOUS
<1> DEFINE a == SubSeq(s, 1, i - 1)
           b == SubSeq(s, i + 1, Len(s))
<1>2. a \in Seq(S) /\ Len(a) = i - 1 /\ \A k \in 1 .. i - 1 : a[k] = s[k]
  BY <1>1
<1>3. b \in Seq(S)
  BY <1>1
<1>4. Len(b) = Len(s) - i
  BY <1>1
<1>5. \A k \in 1 .. Len(s) - i : b[k] = s[k + i]
  BY <1>1
<1> HIDE DEF a, b
<1> QED
  BY <1>2, <1>3, <1>4, <1>5 DEF Around

LEMMA SeqIsAround ==
    ASSUME NEW S, NEW a \in Seq(S), NEW b \in Seq(S), NEW s \in Seq(S), NEW i \in 1 .. Len(s), Around(s, i, a, b)
    PROVE  s = Append(a, s[i]) \o b
<1> DEFINE c == Append(a, s[i])
<1>1. i \in Nat /\ i >= 1 /\ i <= Len(s) /\ Len(s) \in Nat /\ i - 1 \in Nat /\ Len(s) - i \in Nat /\ s[i] \in S
  OBVIOUS
<1>2. c \in Seq(S) /\ Len(c) = i /\ c[i] = s[i] /\ \A k \in 1 .. i - 1 : c[k] = s[k]
  BY <1>1 DEF Around
<1>0. Len(b) = Len(s) - i /\ \A k \in 1 .. Len(s) - i : b[k] = s[k + i]
  BY DEF Around
<1> HIDE DEF c
<1> DEFINE d == c \o b
<1>3. d \in Seq(S) /\ Len(d) = Len(s)
  BY <1>0, <1>1, <1>2
<1>4. ASSUME NEW k \in 1 .. Len(s)
      PROVE  d[k] = s[k]
  <2>1. CASE k <= i
    <3>1. d[k] = c[k]
      <4>1. c \in Seq(S) /\ b \in Seq(S) /\ k \in 1 .. Len(c)
        BY <1>1, <1>2, <2>1
      <4> QED
        BY <4>1
    <3>2. k = i \/ k \in 1 .. i - 1
      BY <1>1, <2>1
    <3> QED
      BY <1>2, <3>1, <3>2
  <2>2. CASE ~ (k <= i)
    <3>1. k - i \in 1 .. Len(s) - i /\ k - i + i = k
      BY <1>1, <2>2
    <3>2. d[k] = b[k - i]
      BY <1>0, <1>1, <1>2, <2>2, <3>1
    <3> QED
      BY <1>0, <3>1, <3>2
  <2> QED
    BY <2>1, <2>2
<1> HIDE DEF d
<1>5. d = s
  BY <1>3, <1>4, SameSeq
<1> QED
  BY <1>5 DEF c, d

\* One element changed changes the sum by as much.
LEMMA TotalChange ==
    ASSUME NEW s \in Seq(Nat), NEW i \in 1 .. Len(s), NEW t \in Seq(Nat), Len(t) = Len(s),
           \A k \in 1 .. Len(s) : k # i => t[k] = s[k]
    PROVE  /\ Total(t) + s[i] = Total(s) + t[i]
           /\ s[i] \in Nat /\ t[i] \in Nat /\ Total(s) \in Nat /\ Total(t) \in Nat
<1>1. PICK a, b \in Seq(Nat) : Around(s, i, a, b)
  BY SeqAround
<1>2. Around(t, i, a, b)
  <2>1. \A k \in 1 .. i - 1 : k \in 1 .. Len(s) /\ k # i
    OBVIOUS
  <2>2. \A k \in 1 .. Len(s) - i : k + i \in 1 .. Len(s) /\ k + i # i
    OBVIOUS
  <2> QED
    BY <1>1, <2>1, <2>2 DEF Around
<1>3. s = Append(a, s[i]) \o b
  BY <1>1, SeqIsAround
<1>4. t = Append(a, t[i]) \o b
  BY <1>2, SeqIsAround
<1>5. s[i] \in Nat /\ t[i] \in Nat
  OBVIOUS
<1> DEFINE x == s[i]
           y == t[i]
<1> HIDE DEF x, y
<1>6. x \in Nat /\ y \in Nat /\ s = Append(a, x) \o b /\ t = Append(a, y) \o b
  BY <1>3, <1>4, <1>5 DEF x, y
<1>7. Total(Append(a, x) \o b) = Total(a) + x + Total(b)
  BY <1>6, TotalAround
<1>8. Total(Append(a, y) \o b) = Total(a) + y + Total(b)
  BY <1>6, TotalAround
<1>9. Total(s) = Total(a) + x + Total(b) /\ Total(t) = Total(a) + y + Total(b)
  BY <1>6, <1>7, <1>8, Zenon
<1>10. Total(a) \in Nat /\ Total(b) \in Nat
  BY TotalNatural
<1>11. Total(t) + x = Total(s) + y
  BY <1>6, <1>9, <1>10
<1> QED
  BY <1>5, <1>11, TotalNatural DEF x, y

-----------------------------------------------------------------------------
(* Values, level by level. *)

DeeperValues(V, n) ==
    IF n = 0 THEN Leafs
    ELSE Leafs \cup [tag : {Array, Object}, cells : {<<>>}, items : ItemsOf(V)]

ValuesBy == INSTANCE FoldInduction WITH Op <- DeeperValues, P <- NoClaim

LEMMA ValuesAre ==
    /\ Values[0] = Leafs
    /\ \A n \in Nat : Values[n + 1] = Leafs \cup [tag : {Array, Object}, cells : {<<>>}, items : ItemsOf(Values[n])]
<1>1. \A f, g : DeeperValues(f, 0) = DeeperValues(g, 0)
  BY DEF DeeperValues
<1>2. \E V : V = [n \in Nat |-> DeeperValues(V[n - 1], n)]
  BY <1>1, ValuesBy!Recursion
<1>3. Values = [n \in Nat |-> DeeperValues(Values[n - 1], n)]
  BY <1>2 DEF Values, DeeperValues
<1>4. ASSUME NEW n \in Nat
      PROVE  Values[n + 1] = DeeperValues(Values[n], n + 1)
  <2>1. n + 1 \in Nat /\ n + 1 - 1 = n
    OBVIOUS
  <2> QED
    BY <1>3, <2>1
<1>5. \A n \in Nat : n + 1 # 0
  OBVIOUS
<1> QED
  BY <1>3, <1>4, <1>5 DEF DeeperValues

Containers == {Array, Object}
LeafTags == {Null, Bool, Number, Utf, Text, BoolArray, ByteArray, IntArray}

LEMMA TagsAre ==
    /\ Null = 0 /\ Bool = 1 /\ Number = 4 /\ Utf = 8 /\ BoolArray = 9 /\ ByteArray = 10 /\ IntArray = 12 /\ UtfArray = 16
    /\ Array = 17 /\ Object = 18 /\ Class = 19 /\ Text = 20
    /\ Containers \cap LeafTags = {} /\ UtfArray \notin Containers /\ UtfArray \notin LeafTags
BY DEF Null, Bool, Number, Utf, BoolArray, ByteArray, IntArray, UtfArray, Array, Object, Class, Text, Containers, LeafTags

\* What a value is made of.
LEMMA ValueParts ==
    ASSUME NEW n \in Nat, NEW v \in Values[n]
    PROVE  /\ v = [tag |-> v.tag, cells |-> v.cells, items |-> v.items]
           /\ v.tag \in Containers \cup LeafTags \cup {UtfArray}
           /\ v.tag \in Containers => n # 0 /\ v.cells = <<>> /\ v.items \in ItemsOf(Values[n - 1])
           /\ v.tag \notin Containers => v.items = <<>>
           /\ v.tag \in LeafTags => v.cells \in Seq(Nat)
           /\ v.tag = UtfArray => v.cells \in Seq(Seq(Nat))
<1>1. ASSUME v \in Leafs
      PROVE  /\ v = [tag |-> v.tag, cells |-> v.cells, items |-> v.items]
             /\ v.tag \in LeafTags \cup {UtfArray}
             /\ v.items = <<>>
             /\ v.tag \in LeafTags => v.cells \in Seq(Nat)
             /\ v.tag = UtfArray => v.cells \in Seq(Seq(Nat))
  BY <1>1, TagsAre DEF Leafs, LeafTags
<1>2. CASE v \in Leafs
  BY <1>1, <1>2, TagsAre
<1>3. CASE v \notin Leafs
  <2>1. n # 0
    BY <1>3, ValuesAre
  <2>2. n - 1 \in Nat /\ n - 1 + 1 = n
    BY <2>1
  <2>3. v \in [tag : {Array, Object}, cells : {<<>>}, items : ItemsOf(Values[n - 1])]
    BY <1>3, <2>2, ValuesAre
  <2> QED
    BY <2>1, <2>3, TagsAre DEF Containers
<1> QED
  BY <1>2, <1>3

LEMMA ItemParts ==
    ASSUME NEW n \in Nat, NEW v \in Values[n], NEW i \in DOMAIN v.items
    PROVE  /\ n # 0 /\ n - 1 \in Nat /\ v.tag \in Containers
           /\ v.items[i] \in [key : Keys \cup {<<>>}, value : Values[n - 1]]
           /\ v.items[i].key \in Keys \cup {<<>>}
           /\ v.items[i].value \in Values[n - 1]
<1>1. v.tag \in Containers
  BY ValueParts
<1>2. n # 0 /\ v.items \in ItemsOf(Values[n - 1])
  BY <1>1, ValueParts
<1>3. v.items[i] \in [key : Keys \cup {<<>>}, value : Values[n - 1]]
  BY <1>2, SeqElement DEF ItemsOf
<1> QED
  BY <1>1, <1>2, <1>3

LEMMA NoItems ==
    ASSUME NEW v \in Values[0]
    PROVE  v.items = <<>> /\ v.tag \notin Containers
BY ValueParts

LEMMA LeafsAreValues ==
    ASSUME NEW n \in Nat
    PROVE  Leafs \subseteq Values[n]
<1>1. CASE n = 0
  BY <1>1, ValuesAre
<1>2. CASE n # 0
  <2>1. n - 1 \in Nat /\ n - 1 + 1 = n
    BY <1>2
  <2> QED
    BY <2>1, ValuesAre
<1> QED
  BY <1>1, <1>2

-----------------------------------------------------------------------------
(* Sizes. *)

BiggerSize(f, n) ==
    [v \in Values[n] |->
       1 + (IF v.tag \in {BoolArray, IntArray, UtfArray} THEN Len(v.cells) ELSE 0)
         + Total([i \in DOMAIN v.items |-> f[v.items[i].value]])]

SizeBy == INSTANCE FoldInduction WITH Op <- BiggerSize, P <- NoClaim

LEMMA SizeIs ==
    \A n \in Nat : Size[n] = BiggerSize(Size[n - 1], n)
<1>1. ASSUME NEW f, NEW g
      PROVE  BiggerSize(f, 0) = BiggerSize(g, 0)
  <2>1. ASSUME NEW v \in Values[0]
        PROVE  [i \in DOMAIN v.items |-> f[v.items[i].value]] = [i \in DOMAIN v.items |-> g[v.items[i].value]]
    <3>1. DOMAIN v.items = {}
      BY NoItems
    <3> QED
      BY <3>1
  <2> QED
    BY <2>1 DEF BiggerSize
<1>2. \E f : f = [n \in Nat |-> BiggerSize(f[n - 1], n)]
  BY <1>1, SizeBy!Recursion, Zenon
<1>3. Size = [n \in Nat |-> BiggerSize(Size[n - 1], n)]
  BY <1>2, Zenon DEF Size, BiggerSize
<1> QED
  BY <1>3

\* The items of an object or an array are a sequence.
LEMMA ItemsSeq ==
    ASSUME NEW n \in Nat, NEW v \in Values[n]
    PROVE  v.items \in Seq([key : Keys \cup {<<>>}, value : Values[n - 1]])
<1>1. CASE v.tag \in Containers
  BY <1>1, ValueParts DEF ItemsOf
<1>2. CASE v.tag \notin Containers
  <2>1. v.items = <<>>
    BY <1>2, ValueParts
  <2> QED
    BY <2>1
<1> QED
  BY <1>1, <1>2

SizeNatAt(n) == \A v \in Values[n] : Size[n][v] \in Nat

\* What a value adds to the sizes of its items.
OwnSize(v) == 1 + IF v.tag \in {BoolArray, IntArray, UtfArray} THEN Len(v.cells) ELSE 0

LEMMA OwnSizeNat ==
    ASSUME NEW n \in Nat, NEW v \in Values[n]
    PROVE  OwnSize(v) \in Nat /\ OwnSize(v) >= 1
<1>1. v.tag \in {BoolArray, IntArray, UtfArray} => Len(v.cells) \in Nat
  <2>1. {BoolArray, IntArray} \subseteq LeafTags
    BY DEF LeafTags
  <2>2. v.tag \in {BoolArray, IntArray, UtfArray} => v.cells \in Seq(Nat) \/ v.cells \in Seq(Seq(Nat))
    BY <2>1, ValueParts
  <2> QED
    BY <2>2
<1> QED
  BY <1>1 DEF OwnSize

SizesOf(n, s) == [i \in DOMAIN s |-> Size[n][s[i].value]]

LEMMA SizeOf ==
    ASSUME NEW n \in Nat, NEW v \in Values[n]
    PROVE  Size[n][v] = OwnSize(v) + Total(SizesOf(n - 1, v.items))
<1>1. Size[n] = BiggerSize(Size[n - 1], n)
  BY SizeIs
<1>2. Size[n][v] = 1 + (IF v.tag \in {BoolArray, IntArray, UtfArray} THEN Len(v.cells) ELSE 0)
                     + Total([i \in DOMAIN v.items |-> Size[n - 1][v.items[i].value]])
  BY <1>1 DEF BiggerSize
<1> QED
  BY <1>2 DEF OwnSize, SizesOf

LEMMA SizesSeq ==
    ASSUME NEW n \in Nat, SizeNatAt(n), NEW s \in ItemsOf(Values[n])
    PROVE  SizesOf(n, s) \in Seq(Nat) /\ Len(SizesOf(n, s)) = Len(s)
<1>1. s \in Seq([key : Keys \cup {<<>>}, value : Values[n]])
  BY DEF ItemsOf
<1>2. ASSUME NEW i \in DOMAIN s
      PROVE  Size[n][s[i].value] \in Nat
  <2>1. s[i] \in [key : Keys \cup {<<>>}, value : Values[n]]
    BY <1>1, SeqElement
  <2> QED
    BY <2>1 DEF SizeNatAt
<1>3. SizesOf(n, s) \in [DOMAIN s -> Nat]
  BY <1>2 DEF SizesOf
<1> QED
  BY <1>1, <1>3, MappedSeq

LEMMA SizeNat == \A n \in Nat : SizeNatAt(n)
<1> DEFINE Bad == {n \in Nat : ~ SizeNatAt(n)}
<1>1. SUFFICES ASSUME Bad # {}
               PROVE  FALSE
  OBVIOUS
<1>2. PICK n \in Bad : \A k \in Bad : n <= k
  BY <1>1, Adding!LeastNatural
<1>3. ASSUME NEW v \in Values[n]
      PROVE  Size[n][v] \in Nat
  <2>1. Size[n][v] = OwnSize(v) + Total(SizesOf(n - 1, v.items)) /\ OwnSize(v) \in Nat
    BY <1>2, SizeOf, OwnSizeNat
  <2>2. SizesOf(n - 1, v.items) \in Seq(Nat)
    <3>1. CASE v.tag \in Containers
      <4>1. n - 1 \in Nat /\ v.items \in ItemsOf(Values[n - 1])
        BY <3>1, ValueParts
      <4>2. SizeNatAt(n - 1)
        BY <1>2, <4>1
      <4> QED
        BY <4>1, <4>2, SizesSeq
    <3>2. CASE v.tag \notin Containers
      <4>1. v.items = <<>>
        BY <3>2, ValueParts
      <4> QED
        BY <4>1 DEF SizesOf
    <3> QED
      BY <3>1, <3>2
  <2>3. Total(SizesOf(n - 1, v.items)) \in Nat
    BY <2>2, TotalNatural
  <2> QED
    BY <2>1, <2>3
<1> QED
  BY <1>2, <1>3 DEF SizeNatAt

-----------------------------------------------------------------------------
(* Frames and stacks. *)

Frames(n) == [tag : Containers, key : Keys \cup {<<>>}, left : Nat, items : ItemsOf(Values[n])]
AnyFrame == UNION {Frames(n) : n \in Nat}

\* A stack of the reader: every frame but the last waits for a value.
Stacked(st) ==
    /\ st \in Seq(AnyFrame)
    /\ Len(st) <= MaxNestDepth
    /\ \A d \in 1 .. Len(st) : st[d] \in Frames(Level(d)) /\ (d < Len(st) => st[d].left > 0)

SizesHeld(st) == [d \in DOMAIN st |-> Size[Level(d) + 1][FrameValue(st[d])]]
Held(st) == Total(SizesHeld(st))

LEMMA LevelNat ==
    ASSUME NEW d \in Nat, d <= MaxNestDepth
    PROVE  Level(d) \in Nat /\ MaxNestDepth \in Nat
BY CodecAssumption DEF Level

LEMMA FrameIsValue ==
    ASSUME NEW n \in Nat, NEW f \in Frames(n)
    PROVE  /\ FrameValue(f) \in Values[n + 1]
           /\ f.items \in ItemsOf(Values[n])
           /\ Size[n + 1][FrameValue(f)] = 1 + Total(SizesOf(n, f.items))
           /\ Size[n + 1][FrameValue(f)] \in Nat
<1>1. f.tag \in Containers /\ f.items \in ItemsOf(Values[n])
  BY DEF Frames
<1>2. FrameValue(f) = [tag |-> f.tag, cells |-> <<>>, items |-> f.items]
  BY DEF FrameValue, Value
<1>3. FrameValue(f) \in Values[n + 1]
  BY <1>1, <1>2, ValuesAre DEF Containers
<1>4. n + 1 \in Nat /\ n + 1 - 1 = n
  OBVIOUS
<1>5. OwnSize(FrameValue(f)) = 1
  <2>1. f.tag \notin {BoolArray, IntArray, UtfArray}
    BY <1>1, TagsAre DEF Containers
  <2> QED
    BY <1>2, <2>1 DEF OwnSize
<1>6. Size[n + 1][FrameValue(f)] = OwnSize(FrameValue(f)) + Total(SizesOf(n + 1 - 1, FrameValue(f).items))
  BY <1>3, <1>4, SizeOf
<1>7. FrameValue(f).items = f.items
  BY <1>2
<1>8. Size[n + 1][FrameValue(f)] \in Nat
  BY <1>3, <1>4, SizeNat DEF SizeNatAt
<1> QED
  BY <1>1, <1>3, <1>4, <1>5, <1>6, <1>7, <1>8

\* What put does to a frame: under a key that is new, and under one that is there.
LEMMA PutNew ==
    ASSUME NEW n \in Nat, NEW f \in Frames(n), f.left > 0, NEW key \in Keys \cup {<<>>}, NEW v \in Values[n],
           ~ HasKey(f, key)
    PROVE  /\ PutItem(f, key, v) \in Frames(n)
           /\ PutItem(f, key, v).tag = f.tag /\ PutItem(f, key, v).key = f.key
           /\ PutItem(f, key, v).left = f.left - 1
           /\ PutItem(f, key, v).items = Append(f.items, Item(key, v))
<1>1. f.tag \in Containers /\ f.key \in Keys \cup {<<>>} /\ f.left \in Nat /\ f.items \in ItemsOf(Values[n])
  BY DEF Frames
<1>2. f = [tag |-> f.tag, key |-> f.key, left |-> f.left, items |-> f.items]
  BY DEF Frames
<1>3. f.items \in Seq([key : Keys \cup {<<>>}, value : Values[n]])
  BY <1>1 DEF ItemsOf
<1>4. Item(key, v) \in [key : Keys \cup {<<>>}, value : Values[n]]
  BY DEF Item
<1>5. f.left - 1 \in Nat
  BY <1>1
<1>6. PutItem(f, key, v) = [f EXCEPT !.items = Append(f.items, Item(key, v)), !.left = f.left - 1]
  BY DEF PutItem
<1>7. Append(f.items, Item(key, v)) \in ItemsOf(Values[n])
  BY <1>3, <1>4 DEF ItemsOf
<1>8. PutItem(f, key, v) = [tag |-> f.tag, key |-> f.key, left |-> f.left - 1, items |-> Append(f.items, Item(key, v))]
  BY <1>2, <1>6
<1> QED
  BY <1>1, <1>5, <1>7, <1>8 DEF Frames

\* its is items with x in place of an item of that key.
Replaces(its, items, key, x) ==
    \E k \in 1 .. Len(items) : items[k].key = key /\ its = [items EXCEPT ![k] = x]

LEMMA PutOld ==
    ASSUME NEW n \in Nat, NEW f \in Frames(n), f.left > 0, NEW key \in Keys \cup {<<>>}, NEW v \in Values[n],
           HasKey(f, key)
    PROVE  /\ PutItem(f, key, v) \in Frames(n)
           /\ PutItem(f, key, v).tag = f.tag /\ PutItem(f, key, v).key = f.key
           /\ PutItem(f, key, v).left = f.left - 1
           /\ Replaces(PutItem(f, key, v).items, f.items, key, Item(key, v))
<1>1. f.tag \in Containers /\ f.key \in Keys \cup {<<>>} /\ f.left \in Nat /\ f.items \in ItemsOf(Values[n])
  BY DEF Frames
<1>2. f = [tag |-> f.tag, key |-> f.key, left |-> f.left, items |-> f.items]
  BY DEF Frames
<1>3. f.items \in Seq([key : Keys \cup {<<>>}, value : Values[n]])
  BY <1>1 DEF ItemsOf
<1>4. Item(key, v) \in [key : Keys \cup {<<>>}, value : Values[n]]
  BY DEF Item
<1>5. f.left - 1 \in Nat
  BY <1>1
<1> DEFINE k == CHOOSE i \in DOMAIN f.items : f.items[i].key = key
<1>6. k \in DOMAIN f.items /\ f.items[k].key = key
  BY DEF HasKey
<1>7. PutItem(f, key, v) = [f EXCEPT !.items = [f.items EXCEPT ![k] = Item(key, v)], !.left = f.left - 1]
  BY <1>2 DEF PutItem
<1> HIDE DEF k
<1>8. k \in 1 .. Len(f.items)
  BY <1>3, <1>6, SeqElement
<1>9. [f.items EXCEPT ![k] = Item(key, v)] \in ItemsOf(Values[n])
  BY <1>3, <1>4, <1>8 DEF ItemsOf
<1>10. PutItem(f, key, v) = [tag |-> f.tag, key |-> f.key, left |-> f.left - 1, items |-> [f.items EXCEPT ![k] = Item(key, v)]]
  BY <1>2, <1>7
<1>11. PutItem(f, key, v) \in Frames(n)
  BY <1>1, <1>5, <1>9, <1>10 DEF Frames
<1>12. /\ PutItem(f, key, v).tag = f.tag /\ PutItem(f, key, v).key = f.key /\ PutItem(f, key, v).left = f.left - 1
       /\ PutItem(f, key, v).items = [f.items EXCEPT ![k] = Item(key, v)]
  BY <1>10
<1>13. Replaces(PutItem(f, key, v).items, f.items, key, Item(key, v))
  BY <1>6, <1>8, <1>12 DEF Replaces
<1> QED
  BY <1>11, <1>12, <1>13

LEMMA PutKeeps ==
    ASSUME NEW n \in Nat, NEW f \in Frames(n), f.left > 0, NEW key \in Keys \cup {<<>>}, NEW v \in Values[n]
    PROVE  /\ PutItem(f, key, v) \in Frames(n)
           /\ PutItem(f, key, v).tag = f.tag /\ PutItem(f, key, v).key = f.key
           /\ PutItem(f, key, v).left = f.left - 1
BY PutNew, PutOld

LEMMA ItemsAreSeq ==
    ASSUME NEW n \in Nat, NEW f \in Frames(n), NEW key \in Keys \cup {<<>>}, NEW v \in Values[n]
    PROVE  /\ f.items \in Seq([key : Keys \cup {<<>>}, value : Values[n]])
           /\ Item(key, v) \in [key : Keys \cup {<<>>}, value : Values[n]]
           /\ Item(key, v).value = v /\ Item(key, v).key = key
BY DEF Item, Frames, ItemsOf

LEMMA PutSize ==
    ASSUME NEW n \in Nat, NEW f \in Frames(n), f.left > 0, NEW key \in Keys \cup {<<>>}, NEW v \in Values[n]
    PROVE  /\ Size[n + 1][FrameValue(PutItem(f, key, v))] <= Size[n + 1][FrameValue(f)] + Size[n][v]
           /\ Size[n][v] \in Nat
<1> DEFINE g == PutItem(f, key, v)
           new == Item(key, v)
<1>0. f.items \in Seq([key : Keys \cup {<<>>}, value : Values[n]])
      /\ new \in [key : Keys \cup {<<>>}, value : Values[n]] /\ new.value = v
  BY ItemsAreSeq
<1>9. g \in Frames(n)
  BY PutKeeps
<1>1. g \in Frames(n) /\ f.items \in Seq([key : Keys \cup {<<>>}, value : Values[n]])
      /\ new \in [key : Keys \cup {<<>>}, value : Values[n]] /\ new.value = v
  BY <1>0, <1>9
<1>2. /\ ~ HasKey(f, key) => g.items = Append(f.items, new)
      /\ HasKey(f, key) => \E k \in 1 .. Len(f.items) : f.items[k].key = key /\ g.items = [f.items EXCEPT ![k] = new]
  <2>1. ~ HasKey(f, key) => g.items = Append(f.items, new)
    BY PutNew
  <2>2. HasKey(f, key) => Replaces(g.items, f.items, key, new)
    BY PutOld
  <2> HIDE DEF g, new
  <2> QED
    BY <2>1, <2>2 DEF Replaces
<1> HIDE DEF g, new
<1>3. Size[n][v] \in Nat /\ SizeNatAt(n)
  BY SizeNat DEF SizeNatAt
<1>4. SizesOf(n, f.items) \in Seq(Nat) /\ SizesOf(n, g.items) \in Seq(Nat) /\ Len(SizesOf(n, f.items)) = Len(f.items)
      /\ Len(SizesOf(n, g.items)) = Len(g.items)
  BY <1>1, <1>3, SizesSeq, FrameIsValue
<1>5. Total(SizesOf(n, g.items)) <= Total(SizesOf(n, f.items)) + Size[n][v]
  <2>1. CASE ~ HasKey(f, key)
    <3>1. SizesOf(n, g.items) = Append(SizesOf(n, f.items), Size[n][v])
      <4>1. g.items = Append(f.items, new) /\ Len(g.items) = Len(f.items) + 1 /\ DOMAIN g.items = 1 .. Len(f.items) + 1
            /\ Len(f.items) \in Nat
        BY <1>1, <1>2, <2>1
      <4>2. Append(SizesOf(n, f.items), Size[n][v]) \in Seq(Nat) /\ Len(Append(SizesOf(n, f.items), Size[n][v])) = Len(f.items) + 1
        BY <1>3, <1>4
      <4>3. ASSUME NEW i \in 1 .. Len(f.items) + 1
            PROVE  SizesOf(n, g.items)[i] = Append(SizesOf(n, f.items), Size[n][v])[i]
        <5>1. SizesOf(n, g.items)[i] = Size[n][g.items[i].value]
          BY <4>1 DEF SizesOf
        <5>2. CASE i = Len(f.items) + 1
          <6>1. g.items[i] = new
            BY <1>1, <4>1, <5>2
          <6>2. Append(SizesOf(n, f.items), Size[n][v])[i] = Size[n][v]
            BY <1>3, <1>4, <5>2
          <6> QED
            BY <1>1, <5>1, <6>1, <6>2
        <5>3. CASE i # Len(f.items) + 1
          <6>1. i \in 1 .. Len(f.items) /\ i \in DOMAIN f.items
            BY <1>1, <4>1, <5>3
          <6>2. g.items[i] = f.items[i]
            BY <1>1, <4>1, <6>1
          <6>3. Append(SizesOf(n, f.items), Size[n][v])[i] = SizesOf(n, f.items)[i]
            BY <1>3, <1>4, <6>1
          <6>4. SizesOf(n, f.items)[i] = Size[n][f.items[i].value]
            BY <6>1 DEF SizesOf
          <6> QED
            BY <5>1, <6>2, <6>3, <6>4
        <5> QED
          BY <5>2, <5>3
      <4> QED
        BY <1>4, <4>1, <4>2, <4>3, SameSeq
    <3>2. Total(Append(SizesOf(n, f.items), Size[n][v])) = Total(SizesOf(n, f.items)) + Size[n][v]
          /\ Total(SizesOf(n, f.items)) \in Nat
      BY <1>3, <1>4, TotalSteps
    <3> QED
      BY <1>3, <3>1, <3>2
  <2>2. CASE HasKey(f, key)
    <3>1. PICK k \in 1 .. Len(f.items) : g.items = [f.items EXCEPT ![k] = new]
      BY <1>2, <2>2
    <3>2. Len(g.items) = Len(f.items) /\ DOMAIN g.items = 1 .. Len(f.items) /\ DOMAIN f.items = 1 .. Len(f.items)
          /\ g.items[k] = new /\ \A i \in 1 .. Len(f.items) : i # k => g.items[i] = f.items[i]
      BY <1>1, <3>1
    <3>3. SizesOf(n, g.items)[k] = Size[n][v]
      BY <1>1, <3>2 DEF SizesOf
    <3>4. \A i \in 1 .. Len(f.items) : i # k => SizesOf(n, g.items)[i] = SizesOf(n, f.items)[i]
      BY <3>2 DEF SizesOf
    <3> DEFINE s == SizesOf(n, f.items)
               t == SizesOf(n, g.items)
    <3>5. s \in Seq(Nat) /\ t \in Seq(Nat) /\ k \in 1 .. Len(s) /\ Len(t) = Len(s)
          /\ t[k] = Size[n][v] /\ \A i \in 1 .. Len(s) : i # k => t[i] = s[i]
      BY <1>4, <3>2, <3>3, <3>4
    <3> HIDE DEF s, t
    <3>6. Total(t) + s[k] = Total(s) + t[k] /\ s[k] \in Nat /\ t[k] \in Nat /\ Total(s) \in Nat /\ Total(t) \in Nat
      BY <3>5, TotalChange
    <3>7. Total(t) <= Total(s) + Size[n][v]
      BY <1>3, <3>5, <3>6
    <3> QED
      BY <3>7 DEF s, t
  <2> QED
    BY <2>1, <2>2
<1>6. Size[n + 1][FrameValue(g)] = 1 + Total(SizesOf(n, g.items)) /\ Size[n + 1][FrameValue(f)] = 1 + Total(SizesOf(n, f.items))
  BY <1>1, FrameIsValue
<1>7. Total(SizesOf(n, g.items)) \in Nat /\ Total(SizesOf(n, f.items)) \in Nat
  BY <1>4, TotalNatural
<1> QED
  BY <1>3, <1>5, <1>6, <1>7 DEF g

LEMMA StackedSplit ==
    ASSUME NEW st, Stacked(st), st # <<>>
    PROVE  /\ Stacked(Front(st)) /\ Front(st) \in Seq(AnyFrame)
           /\ Last(st) \in Frames(Level(Len(st))) /\ Last(st) \in AnyFrame
           /\ Len(st) \in Nat /\ Len(st) >= 1 /\ Len(st) <= MaxNestDepth /\ Level(Len(st)) \in Nat
           /\ Len(Front(st)) = Len(st) - 1
           /\ st = Append(Front(st), Last(st))
           /\ Front(st) # <<>> => Last(Front(st)).left > 0
<1>1. st \in Seq(AnyFrame) /\ Len(st) <= MaxNestDepth /\ MaxNestDepth \in Nat
  BY CodecAssumption DEF Stacked
<1>2. \A d \in 1 .. Len(st) : st[d] \in Frames(Level(d)) /\ (d < Len(st) => st[d].left > 0)
  BY DEF Stacked
<1>3. /\ Front(st) \in Seq(AnyFrame) /\ Last(st) \in AnyFrame
      /\ Len(Front(st)) = Len(st) - 1 /\ st = Append(Front(st), Last(st))
      /\ Last(st) = st[Len(st)]
  BY <1>1, SeqSplit
<1>4. \A i \in 1 .. Len(st) - 1 : Front(st)[i] = st[i]
  BY <1>1, SeqSplit
<1>5. Len(st) \in Nat /\ Len(st) >= 1 /\ Len(st) \in 1 .. Len(st)
  BY <1>1
<1>6. Last(st) \in Frames(Level(Len(st))) /\ Level(Len(st)) \in Nat
  BY <1>1, <1>2, <1>3, <1>5, LevelNat
<1>7. Stacked(Front(st))
  <2>1. Len(Front(st)) <= MaxNestDepth
    BY <1>1, <1>3, <1>5
  <2>2. ASSUME NEW d \in 1 .. Len(Front(st))
        PROVE  Front(st)[d] \in Frames(Level(d)) /\ (d < Len(Front(st)) => Front(st)[d].left > 0)
    <3>1. d \in 1 .. Len(st) - 1 /\ d \in 1 .. Len(st) /\ d < Len(st)
      BY <1>3, <1>5
    <3> QED
      BY <1>2, <1>4, <3>1
  <2> QED
    BY <1>3, <2>1, <2>2 DEF Stacked
<1>8. ASSUME Front(st) # <<>>
      PROVE  Last(Front(st)).left > 0
  <2>1. Last(Front(st)) = Front(st)[Len(Front(st))] /\ Len(Front(st)) >= 1
    <3>1. Len(Front(st)) >= 1
      BY <1>3, <1>5, <1>8
    <3> QED
      BY <3>1 DEF Last
  <2>2. Len(st) - 1 \in 1 .. Len(st) - 1 /\ Len(st) - 1 \in 1 .. Len(st) /\ Len(st) - 1 < Len(st)
    BY <1>3, <1>5, <2>1
  <2>3. Last(Front(st)) = st[Len(st) - 1]
    BY <1>3, <1>4, <2>1, <2>2
  <2> QED
    BY <1>2, <2>2, <2>3
<1> QED
  BY <1>1, <1>3, <1>5, <1>6, <1>7, <1>8

LEMMA StackedAppend ==
    ASSUME NEW st, Stacked(st), Len(st) < MaxNestDepth, st # <<>> => Last(st).left > 0,
           NEW f \in Frames(Level(Len(st) + 1))
    PROVE  Stacked(Append(st, f)) /\ f \in AnyFrame
<1>1. st \in Seq(AnyFrame) /\ MaxNestDepth \in Nat /\ Len(st) \in Nat
  BY CodecAssumption DEF Stacked
<1>2. f \in AnyFrame
  <2>1. Level(Len(st) + 1) \in Nat
    BY <1>1 DEF Level
  <2> QED
    BY <2>1 DEF AnyFrame
<1>3. Append(st, f) \in Seq(AnyFrame) /\ Len(Append(st, f)) = Len(st) + 1 /\ Append(st, f)[Len(st) + 1] = f
      /\ \A d \in 1 .. Len(st) : Append(st, f)[d] = st[d]
  BY <1>1, <1>2
<1>4. ASSUME NEW d \in 1 .. Len(st) + 1
      PROVE  Append(st, f)[d] \in Frames(Level(d)) /\ (d < Len(st) + 1 => Append(st, f)[d].left > 0)
  <2>1. CASE d = Len(st) + 1
    BY <1>1, <1>3, <2>1
  <2>2. CASE d \in 1 .. Len(st)
    <3>1. st[d] \in Frames(Level(d)) /\ (d < Len(st) => st[d].left > 0)
      BY <2>2 DEF Stacked
    <3>2. d = Len(st) => st[d].left > 0
      BY <1>1, <2>2 DEF Last
    <3>3. d < Len(st) \/ d = Len(st)
      BY <1>1, <2>2
    <3> QED
      BY <1>3, <2>2, <3>1, <3>2, <3>3
  <2> QED
    BY <1>1, <2>1, <2>2
<1> QED
  BY <1>1, <1>2, <1>3, <1>4 DEF Stacked

LEMMA SizesHeldSeq ==
    ASSUME NEW st, Stacked(st)
    PROVE  SizesHeld(st) \in Seq(Nat) /\ Len(SizesHeld(st)) = Len(st) /\ Held(st) \in Nat
<1>1. st \in Seq(AnyFrame) /\ Len(st) \in Nat /\ DOMAIN st = 1 .. Len(st) /\ Len(st) <= MaxNestDepth
  BY DEF Stacked
<1>2. ASSUME NEW d \in DOMAIN st
      PROVE  Size[Level(d) + 1][FrameValue(st[d])] \in Nat
  <2>1. st[d] \in Frames(Level(d))
    BY <1>1 DEF Stacked
  <2>2. Level(d) \in Nat
    BY <1>1, LevelNat, CodecAssumption
  <2> QED
    BY <2>1, <2>2, FrameIsValue
<1>3. SizesHeld(st) \in [DOMAIN st -> Nat]
  BY <1>2 DEF SizesHeld
<1> QED
  BY <1>1, <1>3, MappedSeq, TotalNatural DEF Held

LEMMA HeldAppend ==
    ASSUME NEW st \in Seq(AnyFrame), NEW f \in AnyFrame, Stacked(st), Stacked(Append(st, f))
    PROVE  /\ Held(Append(st, f)) = Held(st) + Size[Level(Len(st))][FrameValue(f)]
           /\ Held(st) \in Nat
           /\ Size[Level(Len(st))][FrameValue(f)] \in Nat
<1> DEFINE t == Append(st, f)
           x == Size[Level(Len(st))][FrameValue(f)]
<1>1. t \in Seq(AnyFrame) /\ Len(t) = Len(st) + 1 /\ t[Len(st) + 1] = f /\ Len(st) \in Nat
      /\ DOMAIN t = 1 .. Len(st) + 1 /\ DOMAIN st = 1 .. Len(st)
      /\ \A d \in 1 .. Len(st) : t[d] = st[d]
  OBVIOUS
<1>2. SizesHeld(st) \in Seq(Nat) /\ Len(SizesHeld(st)) = Len(st) /\ Held(st) \in Nat
  BY SizesHeldSeq
<1>3. SizesHeld(t) \in Seq(Nat) /\ Len(SizesHeld(t)) = Len(st) + 1
  BY <1>1, SizesHeldSeq
<1>4. Level(Len(st) + 1) + 1 = Level(Len(st))
  BY <1>1, CodecAssumption DEF Level
<1>5. SizesHeld(t)[Len(st) + 1] = x
  BY <1>1, <1>4 DEF SizesHeld
<1>6. \A d \in 1 .. Len(st) : SizesHeld(t)[d] = SizesHeld(st)[d]
  BY <1>1 DEF SizesHeld
<1> HIDE DEF t, x
<1>7. x \in Nat
  BY <1>1, <1>3, <1>5
<1>8. SizesHeld(t) = Append(SizesHeld(st), x)
  <2> DEFINE a == SizesHeld(t)
             b == SizesHeld(st)
  <2>1. a \in Seq(Nat) /\ b \in Seq(Nat) /\ Len(a) = Len(b) + 1 /\ a[Len(b) + 1] = x /\ \A d \in 1 .. Len(b) : a[d] = b[d]
    BY <1>2, <1>3, <1>5, <1>6
  <2> HIDE DEF a, b
  <2>2. a = Append(b, x)
    BY <1>7, <2>1
  <2> QED
    BY <2>2 DEF a, b
<1>9. Total(Append(SizesHeld(st), x)) = Total(SizesHeld(st)) + x
  BY <1>2, <1>7, TotalSteps
<1> QED
  BY <1>2, <1>7, <1>8, <1>9 DEF Held, t, x

\* A value goes into the last frame.
LEMMA TookStack ==
    ASSUME NEW st, Stacked(st), st # <<>>, Last(st).left > 0,
           NEW key \in Keys \cup {<<>>}, NEW v \in Values[Level(Len(st))]
    PROVE  /\ Stacked(Append(Front(st), PutItem(Last(st), key, v)))
           /\ Held(Append(Front(st), PutItem(Last(st), key, v))) <= Held(st) + Size[Level(Len(st))][v]
           /\ Held(Append(Front(st), PutItem(Last(st), key, v))) \in Nat
           /\ Held(st) \in Nat /\ Size[Level(Len(st))][v] \in Nat
<1> DEFINE a == Front(st)
           f == Last(st)
           n == Level(Len(st))
           g == PutItem(f, key, v)
<1>1. /\ Stacked(a) /\ a \in Seq(AnyFrame) /\ f \in Frames(n) /\ f \in AnyFrame
      /\ Len(st) \in Nat /\ Len(st) >= 1 /\ Len(st) <= MaxNestDepth /\ n \in Nat
      /\ Len(a) = Len(st) - 1 /\ st = Append(a, f)
      /\ a # <<>> => Last(a).left > 0
  BY StackedSplit
<1>2. g \in Frames(n)
  BY <1>1, PutKeeps
<1>3. Size[n + 1][FrameValue(g)] <= Size[n + 1][FrameValue(f)] + Size[n][v] /\ Size[n][v] \in Nat
  BY <1>1, PutSize
<1>4. Level(Len(a)) = n + 1 /\ Level(Len(a) + 1) = n /\ Len(a) < MaxNestDepth
  BY <1>1, CodecAssumption DEF Level
<1> HIDE DEF a, f, n, g
<1>5. Stacked(Append(a, g)) /\ g \in AnyFrame
  BY <1>1, <1>2, <1>4, StackedAppend
<1>6. Stacked(Append(a, f))
  BY <1>1
<1>7. Held(Append(a, g)) = Held(a) + Size[n + 1][FrameValue(g)] /\ Size[n + 1][FrameValue(g)] \in Nat
  BY <1>1, <1>4, <1>5, HeldAppend
<1>8. Held(Append(a, f)) = Held(a) + Size[n + 1][FrameValue(f)] /\ Size[n + 1][FrameValue(f)] \in Nat /\ Held(a) \in Nat
  BY <1>1, <1>4, <1>6, HeldAppend
<1>9. Held(st) = Held(a) + Size[n + 1][FrameValue(f)]
  BY <1>1, <1>8, Zenon
<1>10. Held(Append(a, g)) <= Held(st) + Size[n][v] /\ Held(st) \in Nat /\ Held(Append(a, g)) \in Nat
  BY <1>3, <1>7, <1>8, <1>9
<1> QED
  BY <1>3, <1>5, <1>10 DEF a, f, n, g

\* An object or an array is opened.
LEMMA OpenStack ==
    ASSUME NEW st, Stacked(st), Len(st) < MaxNestDepth, st # <<>> => Last(st).left > 0,
           NEW key \in Keys \cup {<<>>}, NEW tag \in Containers, NEW n \in Nat
    PROVE  /\ Stacked(Append(st, Open(tag, key, n)))
           /\ Held(Append(st, Open(tag, key, n))) = Held(st) + 1
           /\ Held(st) \in Nat
<1> DEFINE f == Open(tag, key, n)
           l == Level(Len(st) + 1)
<1>1. st \in Seq(AnyFrame) /\ Len(st) \in Nat /\ MaxNestDepth \in Nat
  BY CodecAssumption DEF Stacked
<1>2. l \in Nat /\ l + 1 = Level(Len(st))
  BY <1>1 DEF Level
<1>3. f = [tag |-> tag, key |-> key, left |-> n, items |-> <<>>]
  BY DEF Open
<1>4. f \in Frames(l) /\ f.items = <<>>
  BY <1>3 DEF Frames, ItemsOf
<1> HIDE DEF f, l
<1>5. Stacked(Append(st, f)) /\ f \in AnyFrame
  BY <1>4, StackedAppend DEF l
<1>6. Size[l + 1][FrameValue(f)] = 1
  <2>1. Size[l + 1][FrameValue(f)] = 1 + Total(SizesOf(l, f.items))
    BY <1>2, <1>4, FrameIsValue
  <2>2. SizesOf(l, f.items) = <<>>
    BY <1>4 DEF SizesOf
  <2>3. Total(<<>>) = 0
    BY TotalEmpty
  <2>4. Total(SizesOf(l, f.items)) = 0
    BY <2>2, <2>3, Zenon
  <2> QED
    BY <2>1, <2>4
<1>7. Held(Append(st, f)) = Held(st) + Size[Level(Len(st))][FrameValue(f)] /\ Held(st) \in Nat
  BY <1>1, <1>5, HeldAppend
<1> QED
  BY <1>2, <1>5, <1>6, <1>7 DEF f

\* The last frame is closed and goes into the one before.
LEMMA CloseStack ==
    ASSUME NEW st, Stacked(st), Len(st) > 1
    PROVE  /\ Stacked(Append(Front(Front(st)), PutItem(Last(Front(st)), Last(st).key, FrameValue(Last(st)))))
           /\ Held(Append(Front(Front(st)), PutItem(Last(Front(st)), Last(st).key, FrameValue(Last(st))))) <= Held(st)
           /\ Held(Append(Front(Front(st)), PutItem(Last(Front(st)), Last(st).key, FrameValue(Last(st))))) \in Nat
           /\ Held(st) \in Nat
<1> DEFINE a == Front(st)
           f == Last(st)
           n == Level(Len(st))
           v == FrameValue(f)
<1>0. st # <<>> /\ Len(st) \in Nat
  BY DEF Stacked
<1>1. /\ Stacked(a) /\ a \in Seq(AnyFrame) /\ f \in Frames(n) /\ f \in AnyFrame
      /\ Len(st) <= MaxNestDepth /\ n \in Nat
      /\ Len(a) = Len(st) - 1 /\ st = Append(a, f)
      /\ a # <<>> => Last(a).left > 0
  BY <1>0, StackedSplit
<1>2. f.key \in Keys \cup {<<>>} /\ v \in Values[n + 1]
  BY <1>1, FrameIsValue DEF Frames
<1>3. Level(Len(a)) = n + 1 /\ a # <<>>
  BY <1>0, <1>1, CodecAssumption DEF Level
<1> HIDE DEF a, f, n, v
<1>4. /\ Stacked(Append(Front(a), PutItem(Last(a), f.key, v)))
      /\ Held(Append(Front(a), PutItem(Last(a), f.key, v))) <= Held(a) + Size[n + 1][v]
      /\ Held(Append(Front(a), PutItem(Last(a), f.key, v))) \in Nat
  BY <1>1, <1>2, <1>3, TookStack
<1>5. Stacked(Append(a, f))
  BY <1>1
<1>6. Held(Append(a, f)) = Held(a) + Size[n + 1][FrameValue(f)] /\ Held(a) \in Nat /\ Size[n + 1][FrameValue(f)] \in Nat
  BY <1>1, <1>3, <1>5, HeldAppend
<1>7. Held(st) = Held(a) + Size[n + 1][v]
  BY <1>1, <1>6 DEF v
<1>8. Held(Append(Front(a), PutItem(Last(a), f.key, v))) <= Held(st) /\ Held(st) \in Nat
  BY <1>4, <1>6, <1>7 DEF v
<1> QED
  BY <1>4, <1>8 DEF a, f, v

-----------------------------------------------------------------------------
(* Codes in a row. *)

JoinedInts(base, s, acc, i) ==
    base \in Seq(Int) /\ s \in Seq(Seq(Int)) => acc \in Seq(Int)

Joining == INSTANCE FoldInduction WITH Op <- Then, P <- JoinedInts

LEMMA JoinedSteps ==
    ASSUME NEW s \in Seq(Seq(Int)), NEW x \in Seq(Int)
    PROVE  /\ Joined(<<>>) = <<>>
           /\ Joined(s) \in Seq(Int)
           /\ Joined(Append(s, x)) = Joined(s) \o x
<1>0. /\ Joining!FoldLeft(Then, <<>>, <<>>) = FoldLeft(Then, <<>>, <<>>)
      /\ Joining!FoldLeft(Then, <<>>, s) = FoldLeft(Then, <<>>, s)
      /\ Joining!FoldLeft(Then, <<>>, Append(s, x)) = FoldLeft(Then, <<>>, Append(s, x))
  BY DEF Joining!FoldLeft, FoldLeft, Joining!MapThenFoldSet, MapThenFoldSet, Joining!Max, Max
<1>1. FoldLeft(Then, <<>>, <<>>) = <<>> /\ FoldLeft(Then, <<>>, Append(s, x)) = Then(FoldLeft(Then, <<>>, s), x)
  <2>1. Joining!FoldLeft(Then, <<>>, <<>>) = <<>>
        /\ Joining!FoldLeft(Then, <<>>, Append(s, x)) = Then(Joining!FoldLeft(Then, <<>>, s), x)
    BY Joining!FoldSteps
  <2> QED
    BY <1>0, <2>1
<1>2. JoinedInts(<<>>, s, FoldLeft(Then, <<>>, s), Len(s))
  <2>1. JoinedInts(<<>>, s, <<>>, 0)
    BY DEF JoinedInts
  <2>2. ASSUME NEW acc, NEW i, i \in 1 .. Len(s), JoinedInts(<<>>, s, acc, i - 1)
        PROVE  JoinedInts(<<>>, s, Then(acc, s[i]), i)
    <3>1. s[i] \in Seq(Int) /\ <<>> \in Seq(Int) /\ acc \in Seq(Int)
      BY <2>2 DEF JoinedInts
    <3> QED
      BY <3>1 DEF JoinedInts, Then
  <2>3. \A acc, i : i \in 1 .. Len(s) /\ JoinedInts(<<>>, s, acc, i - 1) => JoinedInts(<<>>, s, Then(acc, s[i]), i)
    BY <2>2
  <2> QED
    BY <1>0, <2>1, <2>3, Joining!FoldInduct
<1>3. FoldLeft(Then, <<>>, s) \in Seq(Int)
  <2>1. <<>> \in Seq(Int)
    OBVIOUS
  <2> QED
    BY <1>2, <2>1 DEF JoinedInts
<1> QED
  BY <1>1, <1>3 DEF Joined, Then

LEMMA JoinedInt ==
    ASSUME NEW s \in Seq(Seq(Int))
    PROVE  Joined(s) \in Seq(Int)
<1>1. <<>> \in Seq(Int)
  OBVIOUS
<1> QED
  BY <1>1, JoinedSteps

-----------------------------------------------------------------------------
(* What a leaf was read from. *)

LeafCells(v) ==
    <<v.tag>> \o IF v.tag \in {Null, Bool, Number} THEN v.cells
                 ELSE IF v.tag = UtfArray THEN <<Len(v.cells)>> \o Joined([i \in DOMAIN v.cells |-> Utf16(v.cells[i])])
                 ELSE Utf16(v.cells)

LEMMA Utf16Int ==
    ASSUME NEW s \in Seq(Nat)
    PROVE  Utf16(s) \in Seq(Int) /\ Len(Utf16(s)) = Len(s) + 1 /\ Len(s) \in Nat
<1>1. <<Len(s)>> \in Seq(Int) /\ s \in Seq(Int) /\ Len(<<Len(s)>>) = 1
  OBVIOUS
<1> QED
  BY <1>1 DEF Utf16

LEMMA StringsInt ==
    ASSUME NEW ss \in Seq(Seq(Nat))
    PROVE  /\ [i \in DOMAIN ss |-> Utf16(ss[i])] \in Seq(Seq(Int))
           /\ Joined([i \in DOMAIN ss |-> Utf16(ss[i])]) \in Seq(Int)
           /\ Len(ss) \in Nat
<1>1. \A i \in DOMAIN ss : Utf16(ss[i]) \in Seq(Int)
  BY SeqElement, Utf16Int
<1>2. [i \in DOMAIN ss |-> Utf16(ss[i])] \in [DOMAIN ss -> Seq(Int)]
  BY <1>1
<1>3. [i \in DOMAIN ss |-> Utf16(ss[i])] \in Seq(Seq(Int))
  BY <1>2, MappedSeq
<1> QED
  BY <1>3, JoinedInt

LEMMA LeafParts ==
    ASSUME NEW v \in Leafs
    PROVE  /\ v = [tag |-> v.tag, cells |-> v.cells, items |-> <<>>]
           /\ v.items = <<>>
           /\ (v.tag \in LeafTags /\ v.cells \in Seq(Nat)) \/ (v.tag = UtfArray /\ v.cells \in Seq(Seq(Nat)))
           /\ v.tag \notin Containers /\ v.tag \in Int
<1>1. CASE v \in [tag : {Null, Bool, Number, Utf, Text, BoolArray, ByteArray, IntArray}, cells : Seq(Nat), items : {<<>>}]
  <2>1. v.tag \in LeafTags /\ v.cells \in Seq(Nat) /\ v.items = <<>>
    BY <1>1 DEF LeafTags
  <2>2. v = [tag |-> v.tag, cells |-> v.cells, items |-> <<>>]
    BY <1>1
  <2>4. v.tag \notin Containers
    BY <2>1, TagsAre
  <2>5. v.tag \in Int
    BY <2>1 DEF LeafTags, Null, Bool, Number, Utf, Text, BoolArray, ByteArray, IntArray
  <2>3. v.tag \notin Containers /\ v.tag \in Int
    BY <2>4, <2>5
  <2>6. (v.tag \in LeafTags /\ v.cells \in Seq(Nat)) \/ (v.tag = UtfArray /\ v.cells \in Seq(Seq(Nat)))
    BY <2>1, Zenon
  <2> QED
    BY <2>1, <2>2, <2>3, <2>6
<1>2. CASE v \in [tag : {UtfArray}, cells : Seq(Seq(Nat)), items : {<<>>}]
  <2>1. v.tag = UtfArray /\ v.cells \in Seq(Seq(Nat)) /\ v.items = <<>>
    BY <1>2
  <2>2. v = [tag |-> v.tag, cells |-> v.cells, items |-> <<>>]
    BY <1>2
  <2>3. v.tag \notin Containers /\ v.tag \in Int
    BY <2>1, TagsAre DEF Containers, UtfArray, Array, Object
  <2> QED
    BY <2>1, <2>2, <2>3
<1> QED
  BY <1>1, <1>2 DEF Leafs

LEMMA LeafCellsInt ==
    ASSUME NEW v \in Leafs
    PROVE  LeafCells(v) \in Seq(Int)
<1>1. <<v.tag>> \in Seq(Int)
  BY LeafParts
<1>2. CASE v.tag = UtfArray
  <2>1. Joined([i \in DOMAIN v.cells |-> Utf16(v.cells[i])]) \in Seq(Int) /\ Len(v.cells) \in Nat
    BY <1>2, LeafParts, StringsInt, TagsAre
  <2>2. v.tag \notin {Null, Bool, Number}
    BY <1>2, TagsAre
  <2>3. LeafCells(v) = <<v.tag>> \o (<<Len(v.cells)>> \o Joined([i \in DOMAIN v.cells |-> Utf16(v.cells[i])]))
    BY <1>2, <2>2 DEF LeafCells
  <2>4. <<Len(v.cells)>> \in Seq(Int)
    BY <2>1
  <2> QED
    BY <1>1, <2>1, <2>3, <2>4
<1>3. CASE v.tag # UtfArray
  <2>0. v.cells \in Seq(Nat)
    BY <1>3, LeafParts
  <2>1. v.cells \in Seq(Int) /\ Utf16(v.cells) \in Seq(Int)
    BY <2>0, Utf16Int
  <2>2. CASE v.tag \in {Null, Bool, Number}
    <3>1. LeafCells(v) = <<v.tag>> \o v.cells
      BY <2>2 DEF LeafCells
    <3> QED
      BY <1>1, <2>1, <3>1
  <2>3. CASE v.tag \notin {Null, Bool, Number}
    <3>1. LeafCells(v) = <<v.tag>> \o Utf16(v.cells)
      BY <1>3, <2>3 DEF LeafCells
    <3> QED
      BY <1>1, <2>1, <3>1
  <2> QED
    BY <2>2, <2>3
<1> QED
  BY <1>2, <1>3

LEMMA LeafSize ==
    ASSUME NEW n \in Nat, NEW v \in Leafs
    PROVE  v \in Values[n] /\ Size[n][v] = OwnSize(v) /\ OwnSize(v) \in Nat /\ OwnSize(v) >= 1
<1>1. v \in Values[n] /\ v.items = <<>>
  BY LeafsAreValues, LeafParts
<1>2. Size[n][v] = OwnSize(v) + Total(SizesOf(n - 1, v.items)) /\ OwnSize(v) \in Nat /\ OwnSize(v) >= 1
  BY <1>1, SizeOf, OwnSizeNat
<1>3. SizesOf(n - 1, v.items) = <<>>
  BY <1>1 DEF SizesOf
<1>4. Total(SizesOf(n - 1, v.items)) = 0
  BY <1>3, TotalEmpty, Zenon
<1> QED
  BY <1>1, <1>2, <1>4

-----------------------------------------------------------------------------
(* The reader's steps. *)

CodecDone == result \in {"ok", "printing", "printed"}

\* The types, and what the result tells of the stack.
CodecTyped ==
    /\ data \in Seq(Int)
    /\ bools \subseteq 1 .. Len(data)
    /\ nodes \in Nat
    /\ alloc \in Nat
    /\ twice \in BOOLEAN
    /\ result \in {"reading", "refused", "ok", "printing", "printed"}
    /\ Stacked(stack)
    /\ result = "refused" => stack = <<>>
    /\ result # "refused" => stack # <<>> /\ stack[1].tag = Object
    /\ CodecDone => Len(stack) = 1

\* What is held was counted, and what was allocated is no more.
HeldInv ==
    /\ alloc <= nodes
    /\ alloc <= MaxDecodedNodes
    /\ result # "refused" => nodes <= MaxDecodedNodes /\ Held(stack) <= nodes

RefuseStep ==
    /\ result \in {"reading", "ok"}
    /\ result' = "refused"
    /\ stack' = <<>>
    /\ data' \in Seq(Int) /\ bools' \subseteq 1 .. Len(data')
    /\ nodes' \in Nat
    /\ alloc' \in Nat
    /\ alloc' <= nodes'
    /\ alloc' <= MaxDecodedNodes
    /\ UNCHANGED <<twice, bools, todo, print>>

Counted ==
    /\ nodes' \in Nat
    /\ alloc' \in Nat
    /\ alloc' <= nodes'
    /\ nodes' <= MaxDecodedNodes

Truths(xs) == [i \in DOMAIN xs |-> Truth(xs[i])]

\* The cells that a leaf is read from are those that it is written as, but for
\* the bytes of its bools.
Reads(v, cells) ==
    IF v.tag \in {Bool, BoolArray}
    THEN \E p \in Seq(Int), xs \in Seq(Nat) :
            cells = p \o xs /\ Len(v.cells) = Len(xs) /\ LeafCells(v) = p \o Truths(xs)
    ELSE cells = LeafCells(v)

LeafStep ==
    /\ Reading
    /\ \E key \in KeysHere, v \in Leafs, cells \in Seq(Int) :
          /\ Took(key, cells, v)
          /\ Reads(v, cells)
          /\ nodes' = nodes + OwnSize(v)
    /\ Counted

OpenStep ==
    /\ Reading
    /\ Len(stack) < MaxNestDepth
    /\ \E key \in KeysHere, tag \in Containers, n \in Nat :
          /\ stack' = Append(stack, Open(tag, key, n))
          /\ data' = data \o KeyCells(Top, key) \o <<tag, n>>
    /\ nodes' = nodes + 1
    /\ Counted
    /\ UNCHANGED <<twice, bools, result, todo, print>>

ReadStep == RefuseStep \/ LeafStep \/ OpenStep

LEMMA RefuseIsStep ==
    ASSUME CodecTyped, NEW cells \in Seq(Int), Refuse(cells), result \in {"reading", "ok"},
           nodes' \in Nat, alloc' \in Nat, alloc' <= nodes', alloc' <= MaxDecodedNodes
    PROVE  RefuseStep
<1>1. data' = data \o cells /\ bools' = bools /\ data \in Seq(Int) /\ bools \subseteq 1 .. Len(data)
  BY DEF CodecTyped, Refuse
<1>2. data' \in Seq(Int) /\ Len(data') = Len(data) + Len(cells) /\ Len(data) \in Nat /\ Len(cells) \in Nat
  BY <1>1
<1>3. bools' \subseteq 1 .. Len(data')
  BY <1>1, <1>2
<1> QED
  BY <1>2, <1>3 DEF Refuse, RefuseStep

LEMMA CountIsCounted ==
    ASSUME CodecTyped, HeldInv, ~ Uncounted, Count, UNCHANGED alloc
    PROVE  nodes' = nodes + 1 /\ nodes' \in Nat /\ alloc' \in Nat /\ alloc' <= nodes' /\ nodes' <= MaxDecodedNodes
           /\ Counted
BY CodecAssumption DEF CodecTyped, HeldInv, Uncounted, Count, Counted

LEMMA RefuseValueStep ==
    ASSUME CodecTyped, HeldInv, RefuseValue
    PROVE  RefuseStep
<1>1. nodes' \in Nat /\ alloc' \in Nat /\ alloc' <= nodes' /\ alloc' <= MaxDecodedNodes
  BY CodecAssumption DEF CodecTyped, HeldInv, RefuseValue, Count
<1>2. <<Class>> \in Seq(Int)
  BY DEF Class
<1> QED
  BY <1>1, <1>2, RefuseIsStep DEF RefuseValue, Reading

LEMMA NegativeSizeStep ==
    ASSUME CodecTyped, HeldInv, NegativeSize
    PROVE  RefuseStep
<1>1. nodes' \in Nat /\ alloc' \in Nat /\ alloc' <= nodes' /\ alloc' <= MaxDecodedNodes
  BY CodecAssumption DEF CodecTyped, HeldInv, NegativeSize, Count
<1>2. PICK tag \in {Text, BoolArray, ByteArray, IntArray, UtfArray, Array, Object}, n \in Counts : Refuse(<<tag, n>>)
  BY DEF NegativeSize
<1>3. tag \in Int /\ n \in Int
  BY CodecAssumption DEF Text, BoolArray, ByteArray, IntArray, UtfArray, Array, Object
<1>4. <<tag, n>> \in Seq(Int)
  BY <1>3
<1> QED
  BY <1>1, <1>2, <1>4, RefuseIsStep DEF NegativeSize, Reading

LEMMA ConcatAt ==
    ASSUME NEW S, NEW s \in Seq(S), NEW t \in Seq(S)
    PROVE  /\ s \o t \in Seq(S) /\ Len(s \o t) = Len(s) + Len(t)
           /\ \A i \in 1 .. Len(s) : (s \o t)[i] = s[i]
           /\ \A i \in 1 .. Len(t) : (s \o t)[Len(s) + i] = t[i]
<1>1. Len(s) \in Nat /\ Len(t) \in Nat
  OBVIOUS
<1>2. s \o t \in Seq(S) /\ Len(s \o t) = Len(s) + Len(t)
  OBVIOUS
<1>3. \A i \in 1 .. Len(s) : (s \o t)[i] = s[i]
  BY <1>1
<1>4. \A i \in 1 .. Len(t) : (s \o t)[Len(s) + i] = t[i]
  BY <1>1
<1> QED
  BY <1>2, <1>3, <1>4

LEMMA AppendIs ==
    ASSUME NEW S, NEW p \in Seq(S), NEW b \in S,
           NEW r \in Seq(S), Len(r) = Len(p) + 1, r[Len(p) + 1] = b, \A i \in 1 .. Len(p) : r[i] = p[i]
    PROVE  r = Append(p, b)
OBVIOUS

LEMMA LastJoined ==
    ASSUME NEW S, NEW p \in Seq(S), NEW b \in S
    PROVE  p \o <<b>> = Append(p, b)
OBVIOUS

LEMMA PairJoined ==
    ASSUME NEW S, NEW a \in S, NEW b \in S
    PROVE  <<a>> \o <<b>> = <<a, b>>
<1> DEFINE p == <<a>>
           r == <<a, b>>
<1>1. p \in Seq(S) /\ Len(p) = 1 /\ p[1] = a /\ r \in Seq(S) /\ Len(r) = 2 /\ r[1] = a /\ r[2] = b
  OBVIOUS
<1>2. p \o <<b>> = Append(p, b)
  BY <1>1, LastJoined
<1> HIDE DEF p, r
<1>3. Len(r) = Len(p) + 1
  BY <1>1
<1>4. r[Len(p) + 1] = b
  BY <1>1
<1>5. \A i \in 1 .. Len(p) : r[i] = p[i]
  BY <1>1
<1>6. p \in Seq(S) /\ r \in Seq(S)
  BY <1>1
<1>7. r = Append(p, b)
  BY <1>3, <1>4, <1>5, <1>6, AppendIs
<1> QED
  BY <1>2, <1>7 DEF p, r

LEMMA LeafIs ==
    ASSUME NEW tag \in LeafTags, NEW s \in Seq(Nat)
    PROVE  /\ Leaf(tag, s) \in Leafs
           /\ tag \in {Null, Bool, Number} => LeafCells(Leaf(tag, s)) = <<tag>> \o s
           /\ tag \notin {Null, Bool, Number} => LeafCells(Leaf(tag, s)) = <<tag>> \o Utf16(s)
           /\ tag \notin {BoolArray, IntArray} => OwnSize(Leaf(tag, s)) = 1
<1>1. Leaf(tag, s) = [tag |-> tag, cells |-> s, items |-> <<>>]
  BY DEF Leaf, Value
<1>2. tag # UtfArray
  BY TagsAre
<1>3. Leaf(tag, s) \in Leafs
  BY <1>1 DEF Leafs, LeafTags
<1>4. /\ tag \in {Null, Bool, Number} => LeafCells(Leaf(tag, s)) = <<tag>> \o s
      /\ tag \notin {Null, Bool, Number} => LeafCells(Leaf(tag, s)) = <<tag>> \o Utf16(s)
  BY <1>1, <1>2 DEF LeafCells
<1>5. tag \notin {BoolArray, IntArray} => OwnSize(Leaf(tag, s)) = 1
  BY <1>1, <1>2 DEF OwnSize
<1> QED
  BY <1>3, <1>4, <1>5

LEMMA KeptIs ==
    ASSUME NEW tag, NEW xs \in Seq(Nat)
    PROVE  /\ Kept(tag, xs) \in Seq(Nat) /\ Len(Kept(tag, xs)) = Len(xs)
           /\ Truths(xs) \in Seq(Nat) /\ Len(Truths(xs)) = Len(xs)
           /\ tag \in {Bool, BoolArray} => Kept(tag, xs) = Truths(xs)
           /\ tag \notin {Bool, BoolArray} => Kept(tag, xs) = xs
<1>1. Truths(xs) \in [DOMAIN xs -> Nat]
  BY DEF Truths, Truth
<1>2. Truths(xs) \in Seq(Nat) /\ Len(Truths(xs)) = Len(xs)
  BY <1>1, MappedSeq
<1>3. /\ tag \in {Bool, BoolArray} => Kept(tag, xs) = Truths(xs)
      /\ tag \notin {Bool, BoolArray} => Kept(tag, xs) = xs
  BY DEF Kept, Truths
<1> QED
  BY <1>2, <1>3

\* A leaf of fixed-size fields.
LEMMA FieldsRead ==
    ASSUME NEW tag, NEW p \in Seq(Int), NEW xs \in Seq(Nat),
           LeafCells(Leaf(tag, Kept(tag, xs))) = p \o Kept(tag, xs)
    PROVE  Reads(Leaf(tag, Kept(tag, xs)), p \o xs) /\ p \o xs \in Seq(Int)
<1> DEFINE v == Leaf(tag, Kept(tag, xs))
<1>1. v.tag = tag /\ v.cells = Kept(tag, xs)
  BY DEF Leaf, Value
<1> HIDE DEF v
<1>2. LeafCells(v) = p \o Kept(tag, xs)
  BY DEF v
<1>3. p \o xs \in Seq(Int)
  OBVIOUS
<1>4. CASE tag \in {Bool, BoolArray}
  <2>1. Len(v.cells) = Len(xs) /\ LeafCells(v) = p \o Truths(xs)
    BY <1>1, <1>2, <1>4, KeptIs
  <2>2. Reads(v, p \o xs)
    BY <1>1, <1>4, <2>1, Zenon DEF Reads
  <2> QED
    BY <1>3, <2>2 DEF v
<1>5. CASE tag \notin {Bool, BoolArray}
  <2>1. LeafCells(v) = p \o xs
    BY <1>2, <1>5, KeptIs
  <2>2. Reads(v, p \o xs)
    BY <1>1, <1>5, <2>1, Zenon DEF Reads
  <2> QED
    BY <1>3, <2>2 DEF v
<1> QED
  BY <1>4, <1>5

LEMMA ReadLeafStep ==
    ASSUME CodecTyped, HeldInv, ReadLeaf
    PROVE  LeafStep
<1>1. nodes' = nodes + 1 /\ Counted /\ Reading
  BY CountIsCounted DEF ReadLeaf
<1>2. PICK key \in KeysHere :
          \/ Took(key, <<Null>>, Leaf(Null, <<>>))
          \/ \E tag \in {Bool, Number}, x \in Fields : Took(key, <<tag, x>>, Leaf(tag, Kept(tag, <<x>>)))
          \/ \E tag \in {Utf, Text, ByteArray}, s \in Texts : Took(key, <<tag>> \o Utf16(s), Leaf(tag, s))
  BY DEF ReadLeaf
<1>3. ASSUME NEW v \in Leafs, OwnSize(v) = 1, NEW cells \in Seq(Int), Reads(v, cells), Took(key, cells, v)
      PROVE  LeafStep
  <2>1. nodes' = nodes + OwnSize(v)
    BY <1>1, <1>3
  <2> QED
    BY <1>1, <1>3, <2>1 DEF LeafStep
<1>7. ASSUME NEW v \in Leafs, OwnSize(v) = 1, v.tag \notin {Bool, BoolArray}, NEW cells, cells = LeafCells(v), Took(key, cells, v)
      PROVE  LeafStep
  <2>1. cells \in Seq(Int)
    BY <1>7, LeafCellsInt
  <2>2. Reads(v, cells)
    BY <1>7 DEF Reads
  <2> QED
    BY <1>3, <1>7, <2>1, <2>2
<1>4. CASE Took(key, <<Null>>, Leaf(Null, <<>>))
  <2>1. Null \in LeafTags /\ Null \in {Null, Bool, Number} /\ Null \notin {BoolArray, IntArray} /\ Null \notin {Bool, BoolArray}
    BY DEF LeafTags, Null, Bool, BoolArray, IntArray
  <2>2. <<>> \in Seq(Nat) /\ <<Null>> \o <<>> = <<Null>>
    BY DEF Null
  <2>3. Leaf(Null, <<>>) \in Leafs /\ LeafCells(Leaf(Null, <<>>)) = <<Null>> /\ OwnSize(Leaf(Null, <<>>)) = 1
    BY <2>1, <2>2, LeafIs
  <2>4. Leaf(Null, <<>>).tag \notin {Bool, BoolArray}
    BY <2>1 DEF Leaf, Value
  <2> QED
    BY <1>4, <1>7, <2>3, <2>4
<1>5. ASSUME NEW tag \in {Bool, Number}, NEW x \in Fields, Took(key, <<tag, x>>, Leaf(tag, Kept(tag, <<x>>)))
      PROVE  LeafStep
  <2>1. tag \in LeafTags /\ tag \in {Null, Bool, Number} /\ tag \notin {BoolArray, IntArray}
    BY DEF LeafTags, Null, Bool, Number, BoolArray, IntArray
  <2>2. x \in Nat /\ tag \in Nat
    BY CodecAssumption DEF Bool, Number
  <2>3. <<x>> \in Seq(Nat) /\ <<tag>> \in Seq(Int)
    BY <2>2
  <2>4. <<tag>> \o <<x>> = <<tag, x>>
    BY <2>2, PairJoined
  <2>5. Kept(tag, <<x>>) \in Seq(Nat)
    BY <2>3, KeptIs
  <2> DEFINE v == Leaf(tag, Kept(tag, <<x>>))
  <2>6. v \in Leafs /\ LeafCells(v) = <<tag>> \o Kept(tag, <<x>>) /\ OwnSize(v) = 1
    BY <2>1, <2>5, LeafIs
  <2>7. Reads(v, <<tag>> \o <<x>>) /\ <<tag>> \o <<x>> \in Seq(Int)
    BY <2>3, <2>6, FieldsRead
  <2> HIDE DEF v
  <2>8. Took(key, <<tag>> \o <<x>>, v)
    BY <1>5, <2>4 DEF v
  <2> QED
    BY <1>3, <2>6, <2>7, <2>8
<1>6. ASSUME NEW tag \in {Utf, Text, ByteArray}, NEW s \in Texts, Took(key, <<tag>> \o Utf16(s), Leaf(tag, s))
      PROVE  LeafStep
  <2>1. tag \in LeafTags /\ tag \notin {Null, Bool, Number} /\ tag \notin {BoolArray, IntArray} /\ tag \notin {Bool, BoolArray}
    BY DEF LeafTags, Utf, Text, ByteArray, Null, Bool, Number, BoolArray, IntArray
  <2>2. s \in Seq(Nat)
    BY CodecAssumption
  <2>3. Leaf(tag, s) \in Leafs /\ LeafCells(Leaf(tag, s)) = <<tag>> \o Utf16(s) /\ OwnSize(Leaf(tag, s)) = 1
    BY <2>1, <2>2, LeafIs
  <2>4. Leaf(tag, s).tag \notin {Bool, BoolArray}
    BY <2>1 DEF Leaf, Value
  <2> QED
    BY <1>6, <1>7, <2>3, <2>4
<1> QED
  BY <1>2, <1>4, <1>5, <1>6

\* A leaf of an array of fixed-size fields, and one of strings.
LEMMA IntArrayLeaf ==
    ASSUME NEW tag \in {BoolArray, IntArray}, NEW n \in Nat, NEW xs \in [1 .. n -> Fields]
    PROVE  LET v == Leaf(tag, Kept(tag, xs))
           IN  /\ v \in Leafs
               /\ Reads(v, <<tag, n>> \o xs) /\ <<tag, n>> \o xs \in Seq(Int)
               /\ OwnSize(v) = 1 + n
<1> DEFINE ks == Kept(tag, xs)
           v == Leaf(tag, ks)
<1>1. v = [tag |-> tag, cells |-> ks, items |-> <<>>]
  BY DEF Leaf, Value
<1>2. xs \in Seq(Nat) /\ Len(xs) = n
  <2>1. xs \in [1 .. n -> Nat]
    BY CodecAssumption
  <2> QED
    BY <2>1
<1>3. ks \in Seq(Nat) /\ Len(ks) = n
  BY <1>2, KeptIs
<1> HIDE DEF ks
<1>4. v \in Leafs
  BY <1>1, <1>3 DEF Leafs
<1>5. tag \notin {Null, Bool, Number} /\ tag # UtfArray /\ tag \in Nat
  BY TagsAre DEF BoolArray, IntArray
<1>6. LeafCells(v) = <<tag>> \o (<<n>> \o ks)
  BY <1>1, <1>3, <1>5 DEF LeafCells, Utf16
<1>7. <<tag>> \o (<<n>> \o ks) = <<tag, n>> \o ks
  <2>1. <<tag>> \in Seq(Nat) /\ <<n>> \in Seq(Nat) /\ <<tag>> \o <<n>> = <<tag, n>>
    <3>1. tag \in Nat /\ n \in Nat
      BY <1>5
    <3>2. <<tag>> \in Seq(Nat) /\ <<n>> \in Seq(Nat)
      BY <3>1
    <3> QED
      BY <3>1, <3>2, PairJoined
  <2>2. <<tag>> \o (<<n>> \o ks) = (<<tag>> \o <<n>>) \o ks
    <3> DEFINE a == <<tag>>
               b == <<n>>
    <3>1. a \in Seq(Nat) /\ b \in Seq(Nat)
      BY <2>1
    <3> HIDE DEF a, b
    <3>2. a \o (b \o ks) = (a \o b) \o ks
      BY <1>3, <3>1
    <3> QED
      BY <3>2 DEF a, b
  <2> QED
    BY <2>1, <2>2
<1>8. OwnSize(v) = 1 + n
  BY <1>1, <1>3 DEF OwnSize
<1> HIDE DEF v
<1>9. <<tag, n>> \in Seq(Int)
  BY <1>5
<1>10. LeafCells(v) = <<tag, n>> \o ks
  BY <1>6, <1>7, Zenon
<1>11. Reads(v, <<tag, n>> \o xs) /\ <<tag, n>> \o xs \in Seq(Int)
  BY <1>2, <1>9, <1>10, FieldsRead DEF v, ks
<1> QED
  BY <1>4, <1>8, <1>11 DEF v, ks

LEMMA StringsLeaf ==
    ASSUME NEW n \in Nat, NEW ss \in [1 .. n -> Texts]
    PROVE  /\ Leaf(UtfArray, ss) \in Leafs
           /\ LeafCells(Leaf(UtfArray, ss)) = <<UtfArray, n>> \o Joined([i \in 1 .. n |-> Utf16(ss[i])])
           /\ OwnSize(Leaf(UtfArray, ss)) = 1 + n
           /\ Leaf(UtfArray, ss).tag = UtfArray
<1>1. Leaf(UtfArray, ss) = [tag |-> UtfArray, cells |-> ss, items |-> <<>>]
  BY DEF Leaf, Value
<1>2. ss \in Seq(Seq(Nat)) /\ Len(ss) = n /\ DOMAIN ss = 1 .. n
  <2>1. ss \in [1 .. n -> Seq(Nat)]
    BY CodecAssumption
  <2> QED
    BY <2>1
<1>3. Leaf(UtfArray, ss) \in Leafs
  BY <1>1, <1>2 DEF Leafs
<1> DEFINE j == Joined([i \in 1 .. n |-> Utf16(ss[i])])
<1>4. UtfArray \notin {Null, Bool, Number}
  BY TagsAre
<1>8. j = Joined([i \in DOMAIN ss |-> Utf16(ss[i])]) /\ j \in Seq(Int)
  BY <1>2, StringsInt
<1>5. LeafCells(Leaf(UtfArray, ss)) = <<UtfArray>> \o (<<n>> \o j)
  BY <1>1, <1>2, <1>4, <1>8 DEF LeafCells
<1> HIDE DEF j
<1>6. <<UtfArray>> \o (<<n>> \o j) = <<UtfArray, n>> \o j
  BY <1>8 DEF UtfArray
<1>7. OwnSize(Leaf(UtfArray, ss)) = 1 + n
  BY <1>1, <1>2 DEF OwnSize
<1>9. Leaf(UtfArray, ss).tag = UtfArray
  BY <1>1
<1> QED
  BY <1>3, <1>5, <1>6, <1>7, <1>9 DEF j

LEMMA ReadArrayStep ==
    ASSUME CodecTyped, HeldInv, ReadArray
    PROVE  ReadStep
<1>1. PICK key \in KeysHere, tag \in {BoolArray, IntArray}, n \in Counts :
         /\ n >= 0
         /\ nodes' = nodes + 1 + n
         /\ \/ nodes' > MaxDecodedNodes /\ Refuse(<<tag, n>>) /\ UNCHANGED alloc
            \/ /\ nodes' <= MaxDecodedNodes
               /\ alloc' = alloc + n
               /\ \/ n > 0 /\ Refuse(<<tag, n>>)
                  \/ \E xs \in [1 .. n -> Fields] : Took(key, <<tag, n>> \o xs, Leaf(tag, Kept(tag, xs)))
  BY DEF ReadArray
<1>2. n \in Nat /\ nodes \in Nat /\ alloc \in Nat /\ alloc <= nodes /\ alloc <= MaxDecodedNodes /\ MaxDecodedNodes \in Nat
  BY <1>1, CodecAssumption DEF CodecTyped, HeldInv
<1>3. <<tag, n>> \in Seq(Int)
  BY <1>2 DEF BoolArray, IntArray
<1>4. Reading /\ result \in {"reading", "ok"}
  BY DEF ReadArray, Reading
<1>5. CASE nodes' > MaxDecodedNodes /\ Refuse(<<tag, n>>) /\ UNCHANGED alloc
  <2>1. nodes' \in Nat /\ alloc' \in Nat /\ alloc' <= nodes' /\ alloc' <= MaxDecodedNodes
    BY <1>1, <1>2, <1>5
  <2> QED
    BY <1>3, <1>4, <1>5, <2>1, RefuseIsStep DEF ReadStep
<1>6. ASSUME nodes' <= MaxDecodedNodes, alloc' = alloc + n
      PROVE  nodes' \in Nat /\ alloc' \in Nat /\ alloc' <= nodes' /\ alloc' <= MaxDecodedNodes
  BY <1>1, <1>2, <1>6
<1>7. CASE nodes' <= MaxDecodedNodes /\ alloc' = alloc + n /\ Refuse(<<tag, n>>)
  BY <1>3, <1>4, <1>6, <1>7, RefuseIsStep DEF ReadStep
<1>8. CASE nodes' <= MaxDecodedNodes /\ alloc' = alloc + n
           /\ \E xs \in [1 .. n -> Fields] : Took(key, <<tag, n>> \o xs, Leaf(tag, Kept(tag, xs)))
  <2>1. PICK xs \in [1 .. n -> Fields] : Took(key, <<tag, n>> \o xs, Leaf(tag, Kept(tag, xs)))
    BY <1>8
  <2> DEFINE v == Leaf(tag, Kept(tag, xs))
  <2>2. /\ v \in Leafs /\ OwnSize(v) = 1 + n
        /\ Reads(v, <<tag, n>> \o xs) /\ <<tag, n>> \o xs \in Seq(Int)
    BY <1>2, IntArrayLeaf
  <2>3. Took(key, <<tag, n>> \o xs, v)
    BY <2>1
  <2>4. nodes' = nodes + OwnSize(v)
    BY <1>1, <1>2, <2>2
  <2>5. Counted
    BY <1>6, <1>8 DEF Counted
  <2> HIDE DEF v
  <2> QED
    BY <1>4, <2>2, <2>3, <2>4, <2>5 DEF ReadStep, LeafStep
<1> QED
  BY <1>1, <1>5, <1>7, <1>8

LEMMA ReadStringsStep ==
    ASSUME CodecTyped, HeldInv, ReadStrings
    PROVE  LeafStep
<1>1. PICK key \in KeysHere, n \in Counts :
         /\ n >= 0
         /\ nodes' = nodes + 1 + n
         /\ nodes' <= MaxDecodedNodes
         /\ alloc' = alloc + n
         /\ \E ss \in [1 .. n -> Texts] :
               Took(key, <<UtfArray, n>> \o Joined([i \in 1 .. n |-> Utf16(ss[i])]), Leaf(UtfArray, ss))
  BY DEF ReadStrings
<1>2. n \in Nat /\ nodes \in Nat /\ alloc \in Nat /\ alloc <= nodes
  BY <1>1, CodecAssumption DEF CodecTyped, HeldInv
<1>3. PICK ss \in [1 .. n -> Texts] :
         Took(key, <<UtfArray, n>> \o Joined([i \in 1 .. n |-> Utf16(ss[i])]), Leaf(UtfArray, ss))
  BY <1>1
<1> DEFINE v == Leaf(UtfArray, ss)
<1>4. /\ v \in Leafs /\ LeafCells(v) = <<UtfArray, n>> \o Joined([i \in 1 .. n |-> Utf16(ss[i])]) /\ OwnSize(v) = 1 + n
      /\ v.tag = UtfArray
  BY <1>2, StringsLeaf
<1>5. Took(key, LeafCells(v), v)
  BY <1>3, <1>4, Zenon
<1>6. nodes' = nodes + OwnSize(v) /\ Counted
  BY <1>1, <1>2, <1>4 DEF Counted
<1>7. Reading
  BY DEF ReadStrings
<1> HIDE DEF v
<1>8. Reads(v, LeafCells(v)) /\ LeafCells(v) \in Seq(Int)
  <2>1. v.tag \notin {Bool, BoolArray}
    BY <1>4, TagsAre
  <2> QED
    BY <1>4, <2>1, LeafCellsInt DEF Reads
<1> QED
  BY <1>4, <1>5, <1>6, <1>7, <1>8 DEF LeafStep

LEMMA OpenNestedStep ==
    ASSUME CodecTyped, HeldInv, OpenNested
    PROVE  RefuseStep \/ OpenStep
<1>1. nodes' = nodes + 1 /\ Counted
  BY CountIsCounted DEF OpenNested
<1>2. PICK key \in KeysHere, tag \in Containers, n \in Counts :
         /\ n >= 0
         /\ IF Len(stack) >= MaxNestDepth THEN Refuse(<<tag, n>>)
            ELSE /\ stack' = Append(stack, Open(tag, key, n))
                 /\ data' = data \o KeyCells(Top, key) \o <<tag, n>>
                 /\ UNCHANGED <<twice, bools, result, todo, print>>
  BY DEF OpenNested, Containers
<1>3. n \in Nat /\ tag \in Int /\ <<tag, n>> \in Seq(Int)
  BY <1>2, CodecAssumption DEF Containers, Array, Object
<1>4. Reading /\ result \in {"reading", "ok"}
  BY DEF OpenNested, Reading
<1>5. CASE Len(stack) >= MaxNestDepth
  <2>1. alloc' <= MaxDecodedNodes
    BY CodecAssumption DEF OpenNested, HeldInv, CodecTyped
  <2> QED
    BY <1>1, <1>2, <1>3, <1>4, <1>5, <2>1, RefuseIsStep DEF Counted
<1>6. CASE ~ (Len(stack) >= MaxNestDepth)
  <2>1. Len(stack) < MaxNestDepth
    BY <1>6, CodecAssumption DEF CodecTyped, Stacked
  <2> QED
    BY <1>1, <1>2, <1>3, <1>4, <1>6, <2>1 DEF OpenStep
<1> QED
  BY <1>5, <1>6

LEMMA KeyCellsInt ==
    ASSUME NEW f, NEW key \in Keys \cup {<<>>}
    PROVE  KeyCells(f, key) \in Seq(Int)
<1>1. key \in Seq(Nat)
  <2>1. <<>> \in Seq(Nat)
    OBVIOUS
  <2> QED
    BY <2>1, CodecAssumption
<1>2. <<>> \in Seq(Int) /\ Utf16(key) \in Seq(Int)
  BY <1>1, Utf16Int
<1> QED
  BY <1>2 DEF KeyCells

\* The cells of d as they are written back: those at s are bools.
ReadAs(d, s) == [i \in DOMAIN d |-> IF i \in s THEN Truth(d[i]) ELSE d[i]]

\* u is s and t in a row, and a is d with the bytes at b as bools.
InARow(u, s, t) ==
    /\ Len(u) = Len(s) + Len(t)
    /\ \A i \in 1 .. Len(s) : u[i] = s[i]
    /\ \A i \in 1 .. Len(t) : u[Len(s) + i] = t[i]

AreRead(a, d, b) ==
    /\ Len(a) = Len(d)
    /\ \A i \in 1 .. Len(d) : a[i] = IF i \in b THEN Truth(d[i]) ELSE d[i]

LEMMA JoinedInARow ==
    ASSUME NEW s \in Seq(Int), NEW t \in Seq(Int)
    PROVE  s \o t \in Seq(Int) /\ InARow(s \o t, s, t)
  BY ConcatAt DEF InARow

LEMMA ReadAsIs ==
    ASSUME NEW d \in Seq(Int), NEW b
    PROVE  ReadAs(d, b) \in Seq(Int) /\ AreRead(ReadAs(d, b), d, b)
<1>1. DOMAIN d = 1 .. Len(d) /\ Len(d) \in Nat /\ \A i \in 1 .. Len(d) : d[i] \in Int
  OBVIOUS
<1>2. ReadAs(d, b) \in [DOMAIN d -> Int]
  BY <1>1 DEF ReadAs, Truth
<1>3. ReadAs(d, b) \in Seq(Int) /\ Len(ReadAs(d, b)) = Len(d)
  BY <1>2, MappedSeq
<1>4. \A i \in 1 .. Len(d) : ReadAs(d, b)[i] = IF i \in b THEN Truth(d[i]) ELSE d[i]
  BY <1>1 DEF ReadAs
<1> QED
  BY <1>3, <1>4 DEF AreRead

\* The bytes f are d and xs in a row, those of f at t are bools', and c is d as
\* read, and then e.
MoreRead(a, c, d, b, xs, f, t, g, e) ==
    /\ b \subseteq 1 .. Len(d)
    /\ InARow(f, d, xs) /\ AreRead(g, d, b) /\ AreRead(a, f, t) /\ InARow(c, g, e)

\* More cells that are not of bools.
LEMMA MoreCells ==
    ASSUME NEW d \in Seq(Int), NEW b, NEW e \in Seq(Int), NEW f \in Seq(Int), NEW g \in Seq(Int),
           NEW a \in Seq(Int), NEW c \in Seq(Int), MoreRead(a, c, d, b, e, f, b, g, e)
    PROVE  a = c
<1>0. b \subseteq 1 .. Len(d) /\ InARow(f, d, e) /\ AreRead(g, d, b) /\ AreRead(a, f, b) /\ InARow(c, g, e)
  BY DEF MoreRead
<1>1. Len(d) \in Nat /\ Len(e) \in Nat /\ Len(g) = Len(d) /\ Len(f) = Len(d) + Len(e)
      /\ Len(a) = Len(f) /\ Len(c) = Len(f)
  BY <1>0 DEF InARow, AreRead
<1>2. ASSUME NEW i \in 1 .. Len(a)
      PROVE  a[i] = c[i]
  <2>1. a[i] = IF i \in b THEN Truth(f[i]) ELSE f[i]
    BY <1>0, <1>1 DEF AreRead
  <2>2. CASE i \in 1 .. Len(d)
    <3>1. g[i] = IF i \in b THEN Truth(d[i]) ELSE d[i]
      BY <1>0, <2>2 DEF AreRead
    <3>2. f[i] = d[i] /\ c[i] = g[i]
      BY <1>0, <1>1, <2>2 DEF InARow
    <3> QED
      BY <2>1, <3>1, <3>2
  <2>3. CASE i \notin 1 .. Len(d)
    <3>1. i - Len(d) \in 1 .. Len(e) /\ Len(d) + (i - Len(d)) = i /\ i \notin b
      BY <1>0, <1>1, <2>3
    <3>2. f[i] = e[i - Len(d)] /\ c[i] = e[i - Len(d)]
      BY <1>0, <1>1, <3>1 DEF InARow
    <3> QED
      BY <2>1, <3>1, <3>2
  <2> QED
    BY <2>2, <2>3
<1> QED
  BY <1>1, <1>2, SameSeq

BoolsAdded(f, t, d, b, xs, e) ==
    /\ \A i \in 1 .. Len(f) : i \in t <=> i \in b \/ i \notin 1 .. Len(d)
    /\ Len(e) = Len(xs) /\ \A i \in 1 .. Len(xs) : e[i] = Truth(xs[i])

\* More cells, all of them of bools.
LEMMA MoreBools ==
    ASSUME NEW d \in Seq(Int), NEW b, NEW xs \in Seq(Int), NEW f \in Seq(Int), NEW t, NEW g \in Seq(Int),
           NEW a \in Seq(Int), NEW e \in Seq(Int), NEW c \in Seq(Int),
           MoreRead(a, c, d, b, xs, f, t, g, e), BoolsAdded(f, t, d, b, xs, e)
    PROVE  a = c
<1>0. b \subseteq 1 .. Len(d) /\ InARow(f, d, xs) /\ AreRead(g, d, b) /\ AreRead(a, f, t) /\ InARow(c, g, e)
  BY DEF MoreRead
<1>1. /\ \A i \in 1 .. Len(f) : i \in t <=> i \in b \/ i \notin 1 .. Len(d)
      /\ Len(e) = Len(xs) /\ \A i \in 1 .. Len(xs) : e[i] = Truth(xs[i])
  BY DEF BoolsAdded
<1>2. Len(d) \in Nat /\ Len(xs) \in Nat /\ Len(g) = Len(d) /\ Len(f) = Len(d) + Len(xs)
      /\ Len(a) = Len(f) /\ Len(c) = Len(f)
  BY <1>0, <1>1 DEF InARow, AreRead
<1>3. ASSUME NEW i \in 1 .. Len(a)
      PROVE  a[i] = c[i]
  <2>1. a[i] = IF i \in t THEN Truth(f[i]) ELSE f[i]
    BY <1>0, <1>2 DEF AreRead
  <2>2. CASE i \in 1 .. Len(d)
    <3>1. g[i] = IF i \in b THEN Truth(d[i]) ELSE d[i]
      BY <1>0, <2>2 DEF AreRead
    <3>2. f[i] = d[i] /\ c[i] = g[i]
      BY <1>0, <1>2, <2>2 DEF InARow
    <3>3. i \in t <=> i \in b
      BY <1>2, <1>1, <2>2
    <3> QED
      BY <2>1, <3>1, <3>2, <3>3
  <2>3. CASE i \notin 1 .. Len(d)
    <3>1. i - Len(d) \in 1 .. Len(xs) /\ Len(d) + (i - Len(d)) = i /\ i \in t
      BY <1>0, <1>2, <1>1, <2>3
    <3>2. f[i] = xs[i - Len(d)] /\ c[i] = Truth(xs[i - Len(d)])
      BY <1>0, <1>2, <1>1, <3>1 DEF InARow
    <3> QED
      BY <2>1, <3>1, <3>2
  <2> QED
    BY <2>2, <2>3
<1> QED
  BY <1>2, <1>3, SameSeq

LEMMA JoinedLens ==
    ASSUME NEW p \in Seq(Int), NEW q \in Seq(Int)
    PROVE  p \o q \in Seq(Int) /\ Len(p \o q) = Len(p) + Len(q) /\ Len(p) \in Nat /\ Len(q) \in Nat
  OBVIOUS

LEMMA JoinedAgain ==
    ASSUME NEW p \in Seq(Int), NEW q \in Seq(Int), NEW t \in Seq(Int)
    PROVE  (p \o q) \o t = p \o (q \o t)
  OBVIOUS

\* The bytes m, those at t bools', are the bytes d, those at b bools', and then
\* what is read as e.
Adds(m, t, d, b, e) ==
    /\ m \in Seq(Int) /\ e \in Seq(Int)
    /\ Len(m) = Len(d) + Len(e)
    /\ t \subseteq 1 .. Len(m)
    /\ ReadAs(m, t) = ReadAs(d, b) \o e

LEMMA ReadAsMore ==
    ASSUME NEW d \in Seq(Int), NEW b, b \subseteq 1 .. Len(d), NEW e \in Seq(Int)
    PROVE  Adds(d \o e, b, d, b, e)
<1>1. d \o e \in Seq(Int) /\ Len(d \o e) = Len(d) + Len(e) /\ Len(d) \in Nat /\ Len(e) \in Nat
  OBVIOUS
<1>2. b \subseteq 1 .. Len(d \o e)
  BY <1>1
<1>3. ReadAs(d \o e, b) = ReadAs(d, b) \o e
  <2> DEFINE f == d \o e
             g == ReadAs(d, b)
             a == ReadAs(f, b)
             c == g \o e
  <2>1. f \in Seq(Int) /\ InARow(f, d, e)
    BY JoinedInARow
  <2>2. g \in Seq(Int) /\ AreRead(g, d, b)
    BY ReadAsIs
  <2> HIDE DEF f, g
  <2>3. a \in Seq(Int) /\ AreRead(a, f, b)
    BY <2>1, ReadAsIs
  <2>4. c \in Seq(Int) /\ InARow(c, g, e)
    BY <2>2, JoinedInARow
  <2> HIDE DEF a, c
  <2>5. MoreRead(a, c, d, b, e, f, b, g, e)
    BY <2>1, <2>2, <2>3, <2>4 DEF MoreRead
  <2>6. a = c
    BY <2>1, <2>2, <2>3, <2>4, <2>5, MoreCells
  <2> QED
    BY <2>6 DEF a, c, f, g
<1> QED
  BY <1>1, <1>2, <1>3 DEF Adds

LEMMA ReadAsBools ==
    ASSUME NEW d \in Seq(Int), NEW b, b \subseteq 1 .. Len(d), NEW xs \in Seq(Nat)
    PROVE  Adds(d \o xs, b \cup Len(d) + 1 .. Len(d) + Len(xs), d, b, Truths(xs))
<1>1. /\ d \o xs \in Seq(Int) /\ Len(d \o xs) = Len(d) + Len(xs) /\ Len(d) \in Nat /\ Len(xs) \in Nat
      /\ xs \in Seq(Int)
  OBVIOUS
<1>2. Truths(xs) \in Seq(Int) /\ Len(Truths(xs)) = Len(xs) /\ \A i \in 1 .. Len(xs) : Truths(xs)[i] = Truth(xs[i])
  <2>1. Truths(xs) \in Seq(Nat) /\ Len(Truths(xs)) = Len(xs)
    BY KeptIs
  <2>2. \A i \in 1 .. Len(xs) : Truths(xs)[i] = Truth(xs[i])
    BY DEF Truths
  <2> QED
    BY <2>1, <2>2
<1> DEFINE t == b \cup Len(d) + 1 .. Len(d) + Len(xs)
<1>3. t \subseteq 1 .. Len(d \o xs)
  <2>1. ASSUME NEW i \in t
        PROVE  i \in 1 .. Len(d) + Len(xs)
    <3>1. i \in 1 .. Len(d) \/ i \in Len(d) + 1 .. Len(d) + Len(xs)
      OBVIOUS
    <3> QED
      BY <1>1, <3>1
  <2> QED
    BY <1>1, <2>1
<1>4. ReadAs(d \o xs, t) = ReadAs(d, b) \o Truths(xs)
  <2> DEFINE e == Truths(xs)
             f == d \o xs
             g == ReadAs(d, b)
             a == ReadAs(f, t)
             c == g \o e
  <2>1. \A i \in 1 .. Len(f) : i \in t <=> i \in b \/ i \notin 1 .. Len(d)
    BY <1>1
  <2>2. f \in Seq(Int) /\ InARow(f, d, xs)
    BY <1>1, JoinedInARow
  <2>3. g \in Seq(Int) /\ AreRead(g, d, b)
    BY ReadAsIs
  <2>4. e \in Seq(Int) /\ Len(e) = Len(xs) /\ \A i \in 1 .. Len(xs) : e[i] = Truth(xs[i])
    BY <1>2
  <2> HIDE DEF e, f, g, t
  <2>5. a \in Seq(Int) /\ AreRead(a, f, t)
    BY <2>2, ReadAsIs
  <2>6. c \in Seq(Int) /\ InARow(c, g, e)
    BY <2>3, <2>4, JoinedInARow
  <2> HIDE DEF a, c
  <2>7. MoreRead(a, c, d, b, xs, f, t, g, e)
    BY <2>2, <2>3, <2>5, <2>6 DEF MoreRead
  <2>8. BoolsAdded(f, t, d, b, xs, e)
    BY <2>1, <2>4 DEF BoolsAdded
  <2>9. a = c
    BY <1>1, <2>2, <2>3, <2>4, <2>5, <2>6, <2>7, <2>8, MoreBools
  <2> QED
    BY <2>9 DEF a, c, e, f, g
<1> QED
  BY <1>1, <1>2, <1>3, <1>4 DEF Adds

\* One after the other.
LEMMA AddsMore ==
    ASSUME NEW d \in Seq(Int), NEW b, NEW m \in Seq(Int), NEW t, NEW e \in Seq(Int), Adds(m, t, d, b, e),
           NEW n, NEW u, NEW y, Adds(n, u, m, t, y)
    PROVE  Adds(n, u, d, b, e \o y)
<1>1. y \in Seq(Int) /\ n \in Seq(Int) /\ u \subseteq 1 .. Len(n) /\ Len(n) = Len(m) + Len(y) /\ Len(m) = Len(d) + Len(e)
      /\ ReadAs(n, u) = (ReadAs(d, b) \o e) \o y
  BY DEF Adds
<1>2. e \o y \in Seq(Int) /\ Len(e \o y) = Len(e) + Len(y) /\ Len(e) \in Nat /\ Len(y) \in Nat
  BY <1>1, JoinedLens
<1>3. Len(d) \in Nat /\ ReadAs(d, b) \in Seq(Int)
  BY ReadAsIs, JoinedLens
<1>4. (ReadAs(d, b) \o e) \o y = ReadAs(d, b) \o (e \o y)
  BY <1>1, <1>3, JoinedAgain
<1>5. Len(n) = Len(d) + Len(e \o y)
  BY <1>1, <1>2, <1>3
<1> QED
  BY <1>1, <1>2, <1>4, <1>5 DEF Adds

\* What a leaf that is taken adds to the bytes.
LEMMA TookCells ==
    ASSUME CodecTyped, NEW key \in Keys \cup {<<>>}, NEW v \in Leafs, NEW cells \in Seq(Int),
           Took(key, cells, v), Reads(v, cells)
    PROVE  Adds(data', bools', data, bools, KeyCells(Top, key) \o LeafCells(v))
<1> DEFINE k == KeyCells(Top, key)
           l == LeafCells(v)
           m == data \o k
<1>1. data \in Seq(Int) /\ bools \subseteq 1 .. Len(data) /\ k \in Seq(Int) /\ l \in Seq(Int)
  BY KeyCellsInt, LeafCellsInt DEF CodecTyped
<1>2. data' = m \o cells
  BY DEF Took
<1>3. bools' = bools \cup (IF v.tag \in {Bool, BoolArray} THEN Len(data') - Len(v.cells) + 1 .. Len(data') ELSE {})
  BY DEF Took, LastRead
<1> HIDE DEF k, l
<1>4. Adds(m, bools, data, bools, k)
  BY <1>1, ReadAsMore
<1>5. m \in Seq(Int) /\ bools \subseteq 1 .. Len(m)
  BY <1>4 DEF Adds
<1> HIDE DEF m
<1>6. CASE v.tag \in {Bool, BoolArray}
  <2>1. PICK p \in Seq(Int), xs \in Seq(Nat) :
           cells = p \o xs /\ Len(v.cells) = Len(xs) /\ l = p \o Truths(xs)
    BY <1>6 DEF Reads, l
  <2> DEFINE n == m \o p
             t == bools \cup Len(n) + 1 .. Len(n) + Len(xs)
  <2>2. Adds(n, bools, m, bools, p)
    BY <1>5, ReadAsMore
  <2>3. n \in Seq(Int) /\ bools \subseteq 1 .. Len(n)
    BY <2>2 DEF Adds
  <2>4. xs \in Seq(Int)
    OBVIOUS
  <2>5. data' = n \o xs
    BY <1>2, <1>5, <2>1, <2>4, JoinedAgain
  <2> HIDE DEF n
  <2>6. Adds(n \o xs, t, n, bools, Truths(xs))
    BY <2>3, ReadAsBools
  <2>7. bools' = t
    <3>1. Len(n \o xs) = Len(n) + Len(xs) /\ Len(n) \in Nat /\ Len(xs) \in Nat
      BY <2>3, <2>4, JoinedLens
    <3>2. Len(data') - Len(v.cells) + 1 = Len(n) + 1 /\ Len(data') = Len(n) + Len(xs)
      BY <2>1, <2>5, <3>1
    <3> QED
      BY <1>3, <1>6, <3>2
  <2> HIDE DEF t
  <2>8. Adds(data', bools', n, bools, Truths(xs))
    BY <2>5, <2>6, <2>7
  <2>9. Adds(data', bools', m, bools, l)
    BY <1>5, <2>1, <2>2, <2>3, <2>8, AddsMore
  <2> QED
    BY <1>1, <1>4, <1>5, <2>9, AddsMore DEF k, l
<1>7. CASE v.tag \notin {Bool, BoolArray}
  <2>1. cells = l /\ bools' = bools
    BY <1>3, <1>7 DEF Reads, l
  <2>2. Adds(m \o l, bools, m, bools, l)
    BY <1>1, <1>5, ReadAsMore
  <2>3. Adds(data', bools', m, bools, l)
    BY <1>2, <2>1, <2>2
  <2> QED
    BY <1>1, <1>4, <1>5, <2>3, AddsMore DEF k, l
<1> QED
  BY <1>6, <1>7

\* The outermost frame stays what it is when the last one takes a value.
LEMMA FirstTag ==
    ASSUME NEW st, Stacked(st), st # <<>>, NEW g \in AnyFrame, g.tag = Last(st).tag
    PROVE  /\ Append(Front(st), g) # <<>>
           /\ Append(Front(st), g)[1].tag = st[1].tag
           /\ Len(Append(Front(st), g)) = Len(st)
<1> DEFINE a == Front(st)
           f == Last(st)
<1>1. a \in Seq(AnyFrame) /\ f \in AnyFrame /\ st = Append(a, f) /\ Len(st) \in Nat /\ Len(a) = Len(st) - 1
  BY StackedSplit
<1> HIDE DEF a, f
<1>2. /\ Append(a, f) \in Seq(AnyFrame) /\ Len(Append(a, f)) = Len(a) + 1
      /\ \A i \in 1 .. Len(a) : Append(a, f)[i] = a[i]
      /\ Append(a, f)[Len(a) + 1] = f /\ Len(a) \in Nat
  BY <1>1
<1>3. /\ Append(a, g) \in Seq(AnyFrame) /\ Len(Append(a, g)) = Len(a) + 1
      /\ \A i \in 1 .. Len(a) : Append(a, g)[i] = a[i]
      /\ Append(a, g)[Len(a) + 1] = g
  BY <1>1
<1>4. Append(a, g)[1].tag = Append(a, f)[1].tag
  <2>1. CASE Len(a) = 0
    BY <1>2, <1>3, <2>1 DEF f
  <2>2. CASE Len(a) # 0
    <3>1. 1 \in 1 .. Len(a)
      BY <1>2, <2>2
    <3> QED
      BY <1>2, <1>3, <3>1
  <2> QED
    BY <2>1, <2>2
<1>5. Append(a, g) # <<>>
  BY <1>3, <1>2
<1> QED
  BY <1>1, <1>2, <1>3, <1>4, <1>5 DEF a

LEMMA RefuseKeeps ==
    ASSUME CodecTyped, HeldInv, RefuseStep
    PROVE  CodecTyped' /\ HeldInv'
<1>1. Stacked(<<>>)
  <2>1. <<>> \in Seq(AnyFrame) /\ Len(<<>>) = 0
    OBVIOUS
  <2> QED
    BY <2>1, CodecAssumption DEF Stacked
<1>2. Stacked(stack')
  BY <1>1 DEF RefuseStep
<1>3. ~ CodecDone'
  BY DEF CodecDone, RefuseStep
<1>4. CodecTyped'
  BY <1>2, <1>3 DEF CodecTyped, RefuseStep
<1>5. HeldInv'
  BY DEF HeldInv, RefuseStep
<1> QED
  BY <1>4, <1>5

LEMMA KeysHereAre ==
    ASSUME NEW key \in KeysHere
    PROVE  key \in Keys \cup {<<>>}
BY DEF KeysHere

LEMMA LeafKeeps ==
    ASSUME CodecTyped, HeldInv, LeafStep
    PROVE  CodecTyped' /\ HeldInv'
<1>1. PICK key \in KeysHere, v \in Leafs, cells \in Seq(Int) :
         Took(key, cells, v) /\ Reads(v, cells) /\ nodes' = nodes + OwnSize(v)
  BY DEF LeafStep
<1> DEFINE g == PutItem(Last(stack), key, v)
           st == Append(Front(stack), g)
           n == Level(Len(stack))
<1>2. Stacked(stack) /\ stack # <<>> /\ Last(stack).left > 0 /\ result = "reading" /\ Counted
  BY DEF LeafStep, Reading, Top, CodecTyped
<1>3. key \in Keys \cup {<<>>}
  BY KeysHereAre
<1>4. n \in Nat /\ Last(stack) \in Frames(n)
  BY <1>2, StackedSplit
<1>5. v \in Values[n] /\ Size[n][v] = OwnSize(v)
  BY <1>4, LeafSize
<1>6. Stacked(st) /\ Held(st) <= Held(stack) + OwnSize(v) /\ Held(st) \in Nat /\ Held(stack) \in Nat /\ OwnSize(v) \in Nat
  BY <1>2, <1>3, <1>5, TookStack
<1>7. g \in Frames(n) /\ g.tag = Last(stack).tag
  BY <1>2, <1>3, <1>4, <1>5, PutKeeps
<1>8. st # <<>> /\ st[1].tag = stack[1].tag
  <2>1. g \in AnyFrame
    BY <1>4, <1>7 DEF AnyFrame
  <2> HIDE DEF g
  <2> QED
    BY <1>2, <1>7, <2>1, FirstTag
<1>9. stack' = st /\ result' = result /\ twice' \in BOOLEAN
  BY <1>1 DEF Took, Top, CodecTyped
<1>10. data' \in Seq(Int) /\ bools' \subseteq 1 .. Len(data')
  <2>1. Adds(data', bools', data, bools, KeyCells(Top, key) \o LeafCells(v))
    BY <1>1, <1>3, TookCells
  <2> QED
    BY <2>1 DEF Adds
<1> HIDE DEF g, st, n
<1>11. stack'# <<>> /\ stack'[1].tag = Object /\ Stacked(stack')
  BY <1>2, <1>6, <1>8, <1>9 DEF CodecTyped
<1>12. CodecTyped'
  BY <1>2, <1>9, <1>10, <1>11 DEF CodecTyped, CodecDone, Counted
<1>13. HeldInv'
  <2>1. Held(stack') <= nodes'
    BY <1>1, <1>2, <1>6, <1>9 DEF HeldInv, CodecTyped
  <2>2. alloc' <= MaxDecodedNodes
    BY <1>2, CodecAssumption DEF Counted
  <2> QED
    BY <1>2, <2>1, <2>2 DEF HeldInv, Counted
<1> QED
  BY <1>12, <1>13

LEMMA OpenKeeps ==
    ASSUME CodecTyped, HeldInv, OpenStep
    PROVE  CodecTyped' /\ HeldInv'
<1>1. PICK key \in KeysHere, tag \in Containers, n \in Nat :
          /\ stack' = Append(stack, Open(tag, key, n))
          /\ data' = data \o KeyCells(Top, key) \o <<tag, n>>
  BY DEF OpenStep
<1> DEFINE f == Open(tag, key, n)
           st == Append(stack, f)
<1>2. Stacked(stack) /\ stack # <<>> /\ Last(stack).left > 0 /\ result = "reading" /\ Counted /\ Len(stack) < MaxNestDepth
  BY DEF OpenStep, Reading, Top, CodecTyped
<1>3. key \in Keys \cup {<<>>}
  BY KeysHereAre
<1>4. Stacked(st) /\ Held(st) = Held(stack) + 1 /\ Held(stack) \in Nat
  BY <1>2, <1>3, OpenStack
<1>5. st # <<>> /\ st[1] = stack[1]
  <2>1. stack \in Seq(AnyFrame) /\ stack # <<>>
    BY <1>2 DEF Stacked
  <2> HIDE DEF f
  <2> QED
    BY <2>1
<1>6. data' \in Seq(Int) /\ bools' \subseteq 1 .. Len(data')
  <2>1. KeyCells(Top, key) \in Seq(Int) /\ data \in Seq(Int) /\ tag \in Int
    BY <1>3, KeyCellsInt DEF CodecTyped, Containers, Array, Object
  <2>2. <<tag, n>> \in Seq(Int) /\ Len(<<tag, n>>) = 2
    BY <2>1
  <2> DEFINE e == <<tag, n>>
             k == KeyCells(Top, key)
  <2> HIDE DEF e, k
  <2>3. data' = (data \o k) \o e /\ k \in Seq(Int) /\ e \in Seq(Int)
    BY <1>1, <2>1, <2>2 DEF k, e
  <2>4. data' \in Seq(Int) /\ Len(data') = Len(data) + Len(k) + Len(e) /\ Len(data) \in Nat /\ Len(k) \in Nat /\ Len(e) \in Nat
    BY <2>1, <2>3
  <2>5. bools' = bools /\ bools \subseteq 1 .. Len(data)
    BY DEF OpenStep, CodecTyped
  <2> QED
    BY <2>4, <2>5
<1>7. stack' = st /\ result' = result /\ twice' = twice /\ nodes' = nodes + 1
  BY <1>1 DEF OpenStep
<1> HIDE DEF f, st
<1>8. stack'# <<>> /\ stack'[1].tag = Object /\ Stacked(stack')
  BY <1>2, <1>4, <1>5, <1>7 DEF CodecTyped
<1>9. CodecTyped'
  BY <1>2, <1>6, <1>7, <1>8 DEF CodecTyped, CodecDone, Counted
<1>10. HeldInv'
  <2>1. Held(stack') <= nodes'
    BY <1>2, <1>4, <1>7 DEF HeldInv, CodecTyped
  <2>2. alloc' <= MaxDecodedNodes
    BY <1>2, CodecAssumption DEF Counted
  <2> QED
    BY <1>2, <2>1, <2>2 DEF HeldInv, Counted
<1> QED
  BY <1>9, <1>10

LEMMA CloseKeeps ==
    ASSUME CodecTyped, HeldInv, CloseNested
    PROVE  CodecTyped' /\ HeldInv'
<1> DEFINE outer == Last(Front(stack))
           g == PutItem(outer, Top.key, FrameValue(Top))
           st == Append(Front(Front(stack)), g)
<1>1. Stacked(stack) /\ Len(stack) > 1 /\ stack # <<>> /\ stack[1].tag = Object /\ result = "reading"
  <2>1. Len(<<>>) = 0
    OBVIOUS
  <2> QED
    BY <2>1 DEF CloseNested, CodecTyped
<1>2. stack' = st /\ twice' \in BOOLEAN /\ UNCHANGED <<data, nodes, alloc, bools, result, todo, print>>
  BY DEF CloseNested, CodecTyped
<1>3. Stacked(st) /\ Held(st) <= Held(stack) /\ Held(st) \in Nat /\ Held(stack) \in Nat
  BY <1>1, CloseStack DEF Top
<1>4. st # <<>> /\ st[1].tag = Object
  <2>1. /\ Stacked(Front(stack)) /\ Len(Front(stack)) = Len(stack) - 1 /\ Len(stack) \in Nat
        /\ Front(stack) # <<>> => outer.left > 0
        /\ Front(stack) \in Seq(AnyFrame) /\ Last(stack) \in AnyFrame /\ stack = Append(Front(stack), Last(stack))
        /\ Last(stack) \in Frames(Level(Len(stack))) /\ Level(Len(stack)) \in Nat
    BY <1>1, StackedSplit
  <2>2. Front(stack) # <<>>
    BY <1>1, <2>1
  <2>3. outer \in Frames(Level(Len(Front(stack)))) /\ Level(Len(Front(stack))) \in Nat
    BY <2>1, <2>2, StackedSplit
  <2>4. Level(Len(Front(stack))) = Level(Len(stack)) + 1
    BY <2>1, CodecAssumption DEF Level
  <2>5. Top.key \in Keys \cup {<<>>} /\ FrameValue(Top) \in Values[Level(Len(stack)) + 1]
    BY <2>1, FrameIsValue DEF Top, Frames
  <2>6. g \in Frames(Level(Len(Front(stack)))) /\ g.tag = outer.tag
    BY <2>1, <2>2, <2>3, <2>4, <2>5, PutKeeps
  <2>7. g \in AnyFrame
    BY <2>3, <2>6 DEF AnyFrame
  <2> HIDE DEF g
  <2>8. st # <<>> /\ st[1].tag = Front(stack)[1].tag
    BY <2>1, <2>2, <2>6, <2>7, FirstTag
  <2>9. Front(stack)[1] = stack[1]
    BY <1>1, <2>1, SeqSplit
  <2> QED
    BY <1>1, <2>8, <2>9
<1> HIDE DEF st
<1>5. CodecTyped'
  BY <1>1, <1>2, <1>3, <1>4 DEF CodecTyped, CodecDone
<1>6. HeldInv'
  BY <1>1, <1>2, <1>3 DEF HeldInv, CodecTyped
<1> QED
  BY <1>5, <1>6

LEMMA FinishKeeps ==
    ASSUME CodecTyped, HeldInv, Finish
    PROVE  CodecTyped' /\ HeldInv'
<1>1. CASE Refuse(<<Null>>)
  <2>1. nodes' \in Nat /\ alloc' \in Nat /\ alloc' <= nodes' /\ alloc' <= MaxDecodedNodes
    BY DEF Finish, CodecTyped, HeldInv
  <2>2. <<Null>> \in Seq(Int)
    BY DEF Null
  <2>3. result \in {"reading", "ok"}
    BY DEF Finish
  <2>4. RefuseStep
    BY <1>1, <2>1, <2>2, <2>3, RefuseIsStep
  <2> QED
    BY <2>4, RefuseKeeps
<1>2. CASE result' = "ok" /\ UNCHANGED <<data, stack, twice, bools, todo, print>>
  <2>1. UNCHANGED <<nodes, alloc>> /\ result = "reading" /\ Len(stack) = 1
    BY DEF Finish
  <2>2. CodecTyped'
    BY <1>2, <2>1 DEF CodecTyped, CodecDone
  <2>3. HeldInv'
    BY <1>2, <2>1 DEF HeldInv
  <2> QED
    BY <2>2, <2>3
<1> QED
  BY <1>1, <1>2 DEF Finish

LEMMA PrintIsStep ==
    ASSUME Log \/ CutItems \/ MaskItem \/ FormatLeaf \/ FormatNested \/ FormatEnd
    PROVE  /\ UNCHANGED <<data, stack, nodes, alloc, twice, bools>>
           /\ result \in {"ok", "printing"} /\ result' \in {"printing", "printed"}
<1>1. CASE Log
  BY <1>1 DEF Log
<1>2. CASE CutItems \/ MaskItem \/ FormatLeaf \/ FormatNested
  BY <1>2 DEF CutItems, MaskItem, FormatLeaf, FormatNested, Printing
<1>3. CASE FormatEnd
  <2>1. Printing /\ result' = IF Len(todo) = 1 THEN "printed" ELSE result
    BY <1>3 DEF FormatEnd
  <2> QED
    BY <2>1 DEF Printing
<1> QED
  BY <1>1, <1>2, <1>3

LEMMA PrintKeeps ==
    ASSUME CodecTyped, HeldInv, UNCHANGED <<data, stack, nodes, alloc, twice, bools>>,
           result \in {"ok", "printing"}, result' \in {"printing", "printed"}
    PROVE  CodecTyped' /\ HeldInv'
<1>1. CodecTyped'
  BY DEF CodecTyped, CodecDone
<1>2. HeldInv'
  BY DEF HeldInv
<1> QED
  BY <1>1, <1>2

LEMMA CodecKeeps ==
    ASSUME CodecTyped, HeldInv, [CodecNext]_codecVars
    PROVE  CodecTyped' /\ HeldInv'
<1>1. CASE RefuseValue
  BY <1>1, RefuseValueStep, RefuseKeeps
<1>2. CASE ReadLeaf
  BY <1>2, ReadLeafStep, LeafKeeps
<1>3. CASE NegativeSize
  BY <1>3, NegativeSizeStep, RefuseKeeps
<1>4. CASE ReadArray
  <2>1. ReadStep
    BY <1>4, ReadArrayStep
  <2> QED
    BY <2>1, RefuseKeeps, LeafKeeps, OpenKeeps DEF ReadStep
<1>5. CASE ReadStrings
  BY <1>5, ReadStringsStep, LeafKeeps
<1>6. CASE OpenNested
  BY <1>6, OpenNestedStep, RefuseKeeps, OpenKeeps
<1>7. CASE CloseNested
  BY <1>7, CloseKeeps
<1>8. CASE Finish
  BY <1>8, FinishKeeps
<1>9. CASE Log \/ CutItems \/ MaskItem \/ FormatLeaf \/ FormatNested \/ FormatEnd
  BY <1>9, PrintIsStep, PrintKeeps
<1>10. CASE UNCHANGED codecVars
  BY <1>10 DEF codecVars, CodecTyped, CodecDone, HeldInv
<1> QED
  BY <1>1, <1>2, <1>3, <1>4, <1>5, <1>6, <1>7, <1>8, <1>9, <1>10 DEF CodecNext

LEMMA CodecStarts ==
    ASSUME CodecInit
    PROVE  CodecTyped /\ HeldInv
<1>1. PICK n \in Counts :
          /\ data = <<Object, n>>
          /\ IF n < 0 \/ MaxDecodedNodes < 1 \/ MaxNestDepth < 1
             THEN stack = <<>> /\ result = "refused"
             ELSE stack = <<Open(Object, <<>>, n)>> /\ result = "reading"
  BY DEF CodecInit
<1>2. n \in Int /\ MaxDecodedNodes \in Nat /\ MaxNestDepth \in Nat
  BY CodecAssumption
<1>3. data \in Seq(Int) /\ bools \subseteq 1 .. Len(data)
  BY <1>1, <1>2 DEF Object, CodecInit
<1>4. nodes = 1 /\ alloc = 0 /\ twice = FALSE
  BY DEF CodecInit
<1>5. Stacked(<<>>) /\ Held(<<>>) = 0
  <2>1. <<>> \in Seq(AnyFrame) /\ Len(<<>>) = 0
    OBVIOUS
  <2>2. Stacked(<<>>)
    BY <2>1, CodecAssumption DEF Stacked
  <2>3. SizesHeld(<<>>) = <<>>
    BY DEF SizesHeld
  <2>4. Held(<<>>) = 0
    BY <2>3, TotalEmpty DEF Held
  <2> QED
    BY <2>2, <2>4
<1>6. CASE n < 0 \/ MaxDecodedNodes < 1 \/ MaxNestDepth < 1
  <2>1. stack = <<>> /\ result = "refused"
    BY <1>1, <1>6
  <2>2. ~ CodecDone /\ Stacked(stack)
    BY <1>5, <2>1 DEF CodecDone
  <2>3. CodecTyped
    BY <1>3, <1>4, <2>1, <2>2 DEF CodecTyped
  <2>4. HeldInv
    BY <1>2, <1>4, <2>1 DEF HeldInv
  <2> QED
    BY <2>3, <2>4
<1>7. CASE ~ (n < 0 \/ MaxDecodedNodes < 1 \/ MaxNestDepth < 1)
  <2> DEFINE f == Open(Object, <<>>, n)
  <2>1. stack = <<f>> /\ result = "reading"
    BY <1>1, <1>7
  <2>2. n \in Nat /\ MaxDecodedNodes >= 1 /\ Len(<<>>) < MaxNestDepth
    BY <1>2, <1>7
  <2>3. Object \in Containers /\ <<>> \in Keys \cup {<<>>}
    BY DEF Containers
  <2>4. Stacked(Append(<<>>, f)) /\ Held(Append(<<>>, f)) = Held(<<>>) + 1
    BY <1>5, <2>2, <2>3, OpenStack
  <2>5. Append(<<>>, f) = <<f>> /\ <<f>> # <<>> /\ <<f>>[1] = f
    OBVIOUS
  <2>6. f.tag = Object
    BY DEF Open
  <2> HIDE DEF f
  <2>7. Stacked(stack) /\ Held(stack) = 1
    BY <1>5, <2>1, <2>4, <2>5
  <2>8. ~ CodecDone
    BY <2>1 DEF CodecDone
  <2>9. stack # <<>> /\ stack[1].tag = Object
    BY <2>1, <2>5, <2>6
  <2>10. CodecTyped
    BY <1>3, <1>4, <2>1, <2>7, <2>8, <2>9 DEF CodecTyped
  <2>11. HeldInv
    BY <1>2, <1>4, <2>1, <2>2, <2>7 DEF HeldInv
  <2> QED
    BY <2>10, <2>11
<1> QED
  BY <1>6, <1>7

\* The reader's stack is one of frames no deeper than the limit, and what the
\* frames hold, and what was allocated, has been counted before (chargeNodes and
\* the depth test of readValuePayload).
THEOREM CodecInvariant == CodecSpec => [](CodecTyped /\ HeldInv)
<1>1. CodecInit => CodecTyped /\ HeldInv
  BY CodecStarts
<1>2. CodecTyped /\ HeldInv /\ [CodecNext]_codecVars => (CodecTyped /\ HeldInv)'
  BY CodecKeeps
<1> QED
  BY <1>1, <1>2, PTL DEF CodecSpec

LEMMA HeldIsBounded ==
    ASSUME CodecTyped, HeldInv
    PROVE  DecoderBounded
<1>1. alloc <= MaxDecodedNodes /\ Len(stack) <= MaxNestDepth
  BY DEF CodecTyped, HeldInv, Stacked
<1>2. Held(stack) <= MaxDecodedNodes
  <2>1. CASE result = "refused"
    <3>1. SizesHeld(<<>>) = <<>>
      BY DEF SizesHeld
    <3>2. Held(<<>>) = 0
      BY <3>1, TotalEmpty DEF Held
    <3> QED
      BY <2>1, <3>2, CodecAssumption DEF CodecTyped
  <2>2. CASE result # "refused"
    <3>1. Held(stack) \in Nat
      BY SizesHeldSeq DEF CodecTyped
    <3> QED
      BY <2>2, <3>1, CodecAssumption DEF CodecTyped, HeldInv
  <2> QED
    BY <2>1, <2>2
<1> QED
  BY <1>1, <1>2 DEF DecoderBounded, Held, SizesHeld

\* Whatever counts a peer claims and however it nests, what DecodeObject holds and
\* what it has allocated stay within its limits.
THEOREM DecoderStaysBounded == CodecSpec => []DecoderBounded
<1>1. CodecTyped /\ HeldInv => DecoderBounded
  BY HeldIsBounded
<1> QED
  BY <1>1, CodecInvariant, PTL

-----------------------------------------------------------------------------
(* Pieces of a print. *)

Paths == Seq(Keys \cup {<<>>})
Kinds == {"item", "open", "masked", "marker"}
Pieces == [path : Paths, kind : Kinds, n : Nat, of : Nat]
Prints == [left : Nat, cut : BOOLEAN, out : Seq(Pieces)]

Shown(out) == Total([i \in DOMAIN out |-> Charged(out[i])])
Markers(out) == {i \in DOMAIN out : out[i].kind = "marker"}
Clean(path) == \A k \in Range(path) : Lower[k] \notin SensitiveKeys

\* What of a string of so many characters is shown is its ends.
EndsOnly(n, of) == n <= 2 * MaxKept /\ n * KeptShare <= 2 * of /\ (of <= KeptShare => n = 0)

PieceClean(x) ==
    /\ x.kind = "open" => Clean(x.path)
    /\ x.kind = "masked" => EndsOnly(x.n, x.of)
AllClean(out) == \A i \in DOMAIN out : PieceClean(out[i])

LEMMA PieceIs ==
    ASSUME NEW path \in Paths, NEW kind \in Kinds, NEW n \in Nat, NEW of \in Nat
    PROVE  /\ Piece(path, kind, n, of) \in Pieces
           /\ Piece(path, kind, n, of).path = path
           /\ Piece(path, kind, n, of).kind = kind
           /\ Piece(path, kind, n, of).n = n
           /\ Piece(path, kind, n, of).of = of
BY DEF Piece, Pieces

LEMMA ShownNat ==
    ASSUME NEW out \in Seq(Pieces)
    PROVE  [i \in DOMAIN out |-> Charged(out[i])] \in Seq(Nat) /\ Len([i \in DOMAIN out |-> Charged(out[i])]) = Len(out)
           /\ Shown(out) \in Nat
<1>1. \A i \in DOMAIN out : out[i] \in Pieces
  BY SeqElement
<1>2. [i \in DOMAIN out |-> Charged(out[i])] \in [DOMAIN out -> Nat]
  BY <1>1 DEF Pieces, Charged
<1>3. [i \in DOMAIN out |-> Charged(out[i])] \in Seq(Nat) /\ Len([i \in DOMAIN out |-> Charged(out[i])]) = Len(out)
  BY <1>2, MappedSeq
<1> QED
  BY <1>3, TotalNatural DEF Shown

LEMMA AppendParts ==
    ASSUME NEW S, NEW s \in Seq(S), NEW x \in S
    PROVE  /\ Append(s, x) \in Seq(S) /\ Len(Append(s, x)) = Len(s) + 1 /\ Len(s) \in Nat
           /\ DOMAIN Append(s, x) = 1 .. Len(s) + 1 /\ DOMAIN s = 1 .. Len(s)
           /\ \A i \in 1 .. Len(s) : Append(s, x)[i] = s[i]
           /\ Append(s, x)[Len(s) + 1] = x
OBVIOUS

\* One more piece.
LEMMA ShownAppend ==
    ASSUME NEW out \in Seq(Pieces), NEW x \in Pieces
    PROVE  Shown(Append(out, x)) = Shown(out) + Charged(x) /\ Shown(out) \in Nat /\ Charged(x) \in Nat
<1> DEFINE a == [i \in DOMAIN out |-> Charged(out[i])]
           w == Append(out, x)
           b == [i \in DOMAIN w |-> Charged(w[i])]
<1>1. /\ w \in Seq(Pieces) /\ Len(w) = Len(out) + 1 /\ Len(out) \in Nat
      /\ DOMAIN w = 1 .. Len(out) + 1 /\ DOMAIN out = 1 .. Len(out)
      /\ \A i \in 1 .. Len(out) : w[i] = out[i]
      /\ w[Len(out) + 1] = x
  BY AppendParts
<1>2. a \in Seq(Nat) /\ Len(a) = Len(out) /\ Shown(out) \in Nat
  BY ShownNat
<1> HIDE DEF w
<1>3. b \in Seq(Nat) /\ Len(b) = Len(a) + 1
  BY <1>1, <1>2, ShownNat
<1>4. b[Len(a) + 1] = Charged(x)
  BY <1>1, <1>2
<1>5. \A i \in 1 .. Len(a) : b[i] = a[i]
  BY <1>1, <1>2
<1>6. Charged(x) \in Nat
  BY DEF Pieces, Charged
<1>7. Shown(out) = Total(a) /\ Shown(w) = Total(b)
  BY DEF Shown
<1> HIDE DEF a, b
<1>8. b = Append(a, Charged(x))
  BY <1>2, <1>3, <1>4, <1>5, <1>6, AppendIs
<1>9. Total(Append(a, Charged(x))) = Total(a) + Charged(x)
  BY <1>2, <1>6, TotalSteps
<1>10. Total(b) = Total(a) + Charged(x)
  BY <1>8, <1>9, Zenon
<1> QED
  BY <1>2, <1>6, <1>7, <1>10 DEF w

LEMMA MarkersAppend ==
    ASSUME NEW out \in Seq(Pieces), NEW x \in Pieces
    PROVE  /\ x.kind # "marker" => Markers(Append(out, x)) = Markers(out)
           /\ x.kind = "marker" => Markers(Append(out, x)) = Markers(out) \cup {Len(out) + 1}
           /\ AllClean(out) /\ PieceClean(x) => AllClean(Append(out, x))
<1> DEFINE w == Append(out, x)
<1>1. /\ Len(out) \in Nat
      /\ DOMAIN w = 1 .. Len(out) + 1 /\ DOMAIN out = 1 .. Len(out)
      /\ \A i \in 1 .. Len(out) : w[i] = out[i]
      /\ w[Len(out) + 1] = x
  BY AppendParts
<1> HIDE DEF w
<1>2. 1 .. Len(out) + 1 = (1 .. Len(out)) \cup {Len(out) + 1}
  BY <1>1
<1>3. x.kind # "marker" => Markers(w) = Markers(out)
  BY <1>1, <1>2 DEF Markers
<1>4. x.kind = "marker" => Markers(w) = Markers(out) \cup {Len(out) + 1}
  BY <1>1, <1>2 DEF Markers
<1>5. AllClean(out) /\ PieceClean(x) => AllClean(w)
  BY <1>1, <1>2 DEF AllClean
<1> QED
  BY <1>3, <1>4, <1>5 DEF w

LEMMA PutIs ==
    ASSUME NEW p \in Prints, NEW path \in Paths, NEW kind \in Kinds, NEW n \in Nat, NEW of \in Nat
    PROVE  /\ Put(p, path, kind, n, of) \in Prints
           /\ Put(p, path, kind, n, of).left = p.left
           /\ Put(p, path, kind, n, of).cut = p.cut
           /\ Put(p, path, kind, n, of).out = Append(p.out, Piece(path, kind, n, of))
           /\ Shown(Put(p, path, kind, n, of).out) = Shown(p.out) + (IF kind = "masked" THEN 0 ELSE n)
           /\ Shown(p.out) \in Nat
           /\ Piece(path, kind, n, of) \in Pieces /\ p.out \in Seq(Pieces)
<1> DEFINE x == Piece(path, kind, n, of)
           q == Put(p, path, kind, n, of)
<1>1. x \in Pieces /\ Charged(x) = IF kind = "masked" THEN 0 ELSE n
  BY PieceIs DEF Charged
<1>2. p.out \in Seq(Pieces)
  BY DEF Prints
<1> HIDE DEF x
<1>4. Append(p.out, x) \in Seq(Pieces)
  BY <1>1, <1>2, AppendParts
<1> DEFINE y == Append(p.out, x)
<1>3. q = [p EXCEPT !.out = y]
  BY DEF Put, x
<1> HIDE DEF q, y
<1>9. y \in Seq(Pieces)
  BY <1>4 DEF y
<1>8. q \in Prints /\ q.left = p.left /\ q.cut = p.cut /\ q.out = y
  BY <1>3, <1>9 DEF Prints
<1>5. q \in Prints /\ q.left = p.left /\ q.cut = p.cut /\ q.out = Append(p.out, x)
  BY <1>8 DEF y
<1>6. Shown(q.out) = Shown(p.out) + (IF kind = "masked" THEN 0 ELSE n) /\ Shown(p.out) \in Nat
  BY <1>1, <1>2, <1>5, ShownAppend
<1> QED
  BY <1>1, <1>2, <1>5, <1>6 DEF q, x

\* q is p with n characters more and no marker.
Wrote(q, p, n) ==
    /\ q \in Prints /\ q.left = p.left /\ q.cut = p.cut
    /\ Shown(q.out) = Shown(p.out) + n /\ Shown(p.out) \in Nat
    /\ Markers(q.out) = Markers(p.out)
    /\ AllClean(p.out) => AllClean(q.out)

LEMMA PutWrote ==
    ASSUME NEW p \in Prints, NEW path \in Paths, NEW kind \in {"item", "open"}, NEW n \in Nat, NEW of \in Nat,
           kind = "open" => Clean(path)
    PROVE  Wrote(Put(p, path, kind, n, of), p, n)
<1> DEFINE x == Piece(path, kind, n, of)
           q == Put(p, path, kind, n, of)
<1>1. kind \in Kinds /\ kind # "marker" /\ kind # "masked"
  BY DEF Kinds
<1>2. /\ q \in Prints /\ q.left = p.left /\ q.cut = p.cut /\ q.out = Append(p.out, x)
      /\ Shown(q.out) = Shown(p.out) + n /\ Shown(p.out) \in Nat
      /\ x \in Pieces /\ p.out \in Seq(Pieces)
  BY <1>1, PutIs
<1>3. x.kind # "marker" /\ PieceClean(x)
  BY <1>1, PieceIs DEF PieceClean
<1> HIDE DEF x, q
<1>4. /\ x.kind # "marker" => Markers(Append(p.out, x)) = Markers(p.out)
      /\ AllClean(p.out) /\ PieceClean(x) => AllClean(Append(p.out, x))
  BY <1>2, MarkersAppend
<1> QED
  BY <1>2, <1>3, <1>4 DEF Wrote, q

LEMMA PutPiece ==
    ASSUME NEW p \in Prints, NEW path \in Paths, NEW kind \in {"item", "open"}, NEW n \in Nat, NEW of \in Nat,
           kind = "open" => Clean(path)
    PROVE  /\ Put(p, path, kind, n, of) \in Prints
           /\ Put(p, path, kind, n, of).left = p.left
           /\ Put(p, path, kind, n, of).cut = p.cut
           /\ Shown(Put(p, path, kind, n, of).out) = Shown(p.out) + n
           /\ Shown(p.out) \in Nat
           /\ Markers(Put(p, path, kind, n, of).out) = Markers(p.out)
           /\ AllClean(p.out) => AllClean(Put(p, path, kind, n, of).out)
<1>1. Wrote(Put(p, path, kind, n, of), p, n)
  BY PutWrote
<1> QED
  BY <1>1 DEF Wrote

\* q is p with one piece more, x.
OneMore(q, p, x) ==
    /\ q \in Prints /\ q.left = p.left /\ q.cut = p.cut /\ q.out = Append(p.out, x)
    /\ x \in Pieces /\ p.out \in Seq(Pieces)

LEMMA PutOneMore ==
    ASSUME NEW p \in Prints, NEW path \in Paths, NEW kind \in Kinds, NEW n \in Nat, NEW of \in Nat
    PROVE  OneMore(Put(p, path, kind, n, of), p, Piece(path, kind, n, of))
BY PutIs DEF OneMore

\* The ends of a string that is masked are not charged.
LEMMA PutMasked ==
    ASSUME NEW p \in Prints, NEW path \in Paths, NEW n \in Nat, NEW of \in Nat,
           EndsOnly(n, of)
    PROVE  /\ Put(p, path, "masked", n, of) \in Prints
           /\ Put(p, path, "masked", n, of).left = p.left
           /\ Put(p, path, "masked", n, of).cut = p.cut
           /\ Shown(Put(p, path, "masked", n, of).out) = Shown(p.out)
           /\ Shown(p.out) \in Nat
           /\ Markers(Put(p, path, "masked", n, of).out) = Markers(p.out)
           /\ AllClean(p.out) => AllClean(Put(p, path, "masked", n, of).out)
<1> DEFINE kind == "masked"
           x == Piece(path, kind, n, of)
           q == Put(p, path, kind, n, of)
<1>1. kind \in Kinds /\ kind = "masked"
  BY DEF Kinds
<1> HIDE DEF kind
<1>2. /\ q \in Prints /\ q.left = p.left /\ q.cut = p.cut /\ q.out = Append(p.out, x)
      /\ Shown(q.out) = Shown(p.out) /\ Shown(p.out) \in Nat
      /\ x \in Pieces /\ p.out \in Seq(Pieces)
  <2>1. Shown(q.out) = Shown(p.out) + 0 /\ Shown(p.out) \in Nat
    BY <1>1, PutIs
  <2>2. Shown(q.out) = Shown(p.out)
    BY <2>1
  <2>3. OneMore(q, p, x)
    BY <1>1, PutOneMore
  <2> HIDE DEF q, x
  <2> QED
    BY <2>1, <2>2, <2>3 DEF OneMore
<1>3. x.kind # "marker" /\ PieceClean(x)
  <2>1. x.kind = "masked" /\ x.n = n /\ x.of = of
    BY <1>1, PieceIs
  <2> HIDE DEF x
  <2> QED
    BY <2>1 DEF PieceClean
<1> HIDE DEF x, q
<1>4. /\ x.kind # "marker" => Markers(Append(p.out, x)) = Markers(p.out)
      /\ AllClean(p.out) /\ PieceClean(x) => AllClean(Append(p.out, x))
  BY <1>2, MarkersAppend
<1> QED
  BY <1>2, <1>3, <1>4 DEF q, kind

LEMMA PutMarker ==
    ASSUME NEW p \in Prints, NEW path \in Paths
    PROVE  /\ Put(p, path, "marker", 0, 0) \in Prints
           /\ Put(p, path, "marker", 0, 0).left = p.left
           /\ Shown(Put(p, path, "marker", 0, 0).out) = Shown(p.out)
           /\ Shown(p.out) \in Nat
           /\ Markers(Put(p, path, "marker", 0, 0).out) = Markers(p.out) \cup {Len(p.out) + 1}
           /\ AllClean(p.out) => AllClean(Put(p, path, "marker", 0, 0).out)
<1> DEFINE kind == "marker"
           n == 0
           x == Piece(path, kind, n, n)
           q == Put(p, path, kind, n, n)
<1>1. kind \in Kinds /\ kind # "masked" /\ n \in Nat /\ n = 0
  BY DEF Kinds
<1> HIDE DEF kind, n
<1>2. /\ q \in Prints /\ q.left = p.left /\ q.out = Append(p.out, x)
      /\ Shown(q.out) = Shown(p.out) + n /\ Shown(p.out) \in Nat
      /\ x \in Pieces /\ p.out \in Seq(Pieces)
  BY <1>1, PutIs
<1>3. x.kind = "marker" /\ PieceClean(x)
  <2>1. x.kind = kind
    BY <1>1, PieceIs
  <2> QED
    BY <2>1 DEF kind, PieceClean
<1> HIDE DEF x, q
<1>4. /\ x.kind = "marker" => Markers(Append(p.out, x)) = Markers(p.out) \cup {Len(p.out) + 1}
      /\ AllClean(p.out) /\ PieceClean(x) => AllClean(Append(p.out, x))
  BY <1>2, MarkersAppend
<1>5. Markers(q.out) = Markers(p.out) \cup {Len(p.out) + 1} /\ (AllClean(p.out) => AllClean(q.out))
  BY <1>2, <1>3, <1>4
<1>6. Shown(q.out) = Shown(p.out)
  BY <1>1, <1>2
<1> QED
  BY <1>2, <1>5, <1>6 DEF q, n, kind

\* The budget goes down by what is shown.
LEMMA SpentPrint ==
    ASSUME NEW p \in Prints, NEW k \in Nat, k <= p.left
    PROVE  /\ [p EXCEPT !.left = @ - k] \in Prints
           /\ [p EXCEPT !.left = @ - k].left = p.left - k
           /\ [p EXCEPT !.left = @ - k].cut = p.cut
           /\ [p EXCEPT !.left = @ - k].out = p.out
           /\ p.left \in Nat
<1>1. p = [left |-> p.left, cut |-> p.cut, out |-> p.out] /\ p.left \in Nat /\ p.cut \in BOOLEAN /\ p.out \in Seq(Pieces)
  BY DEF Prints
<1>2. p.left - k \in Nat
  BY <1>1
<1> QED
  BY <1>1, <1>2 DEF Prints

LEMMA ChargeIs ==
    ASSUME NEW p \in Prints, p.left > 0, NEW path \in Paths
    PROVE  /\ Charge(p, path) \in Prints
           /\ Charge(p, path).left = p.left - 1 /\ Charge(p, path).cut = p.cut
           /\ Shown(Charge(p, path).out) = Shown(p.out) + 1 /\ Shown(p.out) \in Nat
           /\ Markers(Charge(p, path).out) = Markers(p.out)
           /\ AllClean(p.out) => AllClean(Charge(p, path).out)
<1> DEFINE q == [p EXCEPT !.left = @ - 1]
<1>1. q \in Prints /\ q.left = p.left - 1 /\ q.cut = p.cut /\ q.out = p.out
  <2>1. p.left \in Nat
    BY DEF Prints
  <2>2. 1 \in Nat /\ 1 <= p.left
    BY <2>1
  <2> QED
    BY <2>2, SpentPrint
<1>2. Charge(p, path) = Put(q, path, "item", 1, 1)
  BY DEF Charge
<1> HIDE DEF q
<1>3. /\ Put(q, path, "item", 1, 1) \in Prints
      /\ Put(q, path, "item", 1, 1).left = q.left /\ Put(q, path, "item", 1, 1).cut = q.cut
      /\ Shown(Put(q, path, "item", 1, 1).out) = Shown(q.out) + 1 /\ Shown(q.out) \in Nat
      /\ Markers(Put(q, path, "item", 1, 1).out) = Markers(q.out)
      /\ AllClean(q.out) => AllClean(Put(q, path, "item", 1, 1).out)
  BY <1>1, PutPiece
<1> QED
  BY <1>1, <1>2, <1>3, Zenon

\* What Redact shows of a string.
LEMMA RedactEnds ==
    ASSUME NEW n \in Nat
    PROVE  2 * Redact(n) \in Nat /\ EndsOnly(2 * Redact(n), n)
<1>1. KeptShare \in Nat /\ KeptShare > 0 /\ MaxKept \in Nat
  BY CodecAssumption
<1> DEFINE d == n \div KeptShare
<1>2. d \in Nat /\ d * KeptShare <= n
  BY <1>1
<1>3. Redact(n) \in Nat /\ Redact(n) <= d /\ Redact(n) <= MaxKept /\ (n <= KeptShare => Redact(n) = 0)
  <2>1. Redact(n) = IF n <= KeptShare THEN 0 ELSE IF d <= MaxKept THEN d ELSE MaxKept
    BY DEF Redact
  <2> HIDE DEF d
  <2> QED
    BY <1>1, <1>2, <2>1
<1> DEFINE k == Redact(n)
<1> HIDE DEF d, k
<1>4. k * KeptShare <= d * KeptShare /\ k * KeptShare \in Nat /\ d * KeptShare \in Nat
  BY <1>1, <1>2, <1>3 DEF k
<1>5. (2 * k) * KeptShare = 2 * (k * KeptShare)
  BY <1>1, <1>3 DEF k
<1>6. (2 * k) * KeptShare <= 2 * n
  BY <1>2, <1>4, <1>5
<1> QED
  BY <1>1, <1>3, <1>6 DEF k, EndsOnly

LEMMA MaskedIs ==
    ASSUME NEW p \in Prints, NEW path \in Paths, NEW m \in Nat, NEW v \in Values[m]
    PROVE  /\ Masked(p, path, v) \in Prints
           /\ Masked(p, path, v).left = p.left /\ Masked(p, path, v).cut = p.cut
           /\ Shown(Masked(p, path, v).out) = Shown(p.out) /\ Shown(p.out) \in Nat
           /\ Markers(Masked(p, path, v).out) = Markers(p.out)
           /\ AllClean(p.out) => AllClean(Masked(p, path, v).out)
<1>1. CASE v.tag \in {Utf, Text}
  <2>1. v.cells \in Seq(Nat)
    <3>1. v.tag \in LeafTags
      BY <1>1 DEF LeafTags
    <3> QED
      BY <3>1, ValueParts
  <2> DEFINE of == Len(v.cells)
             n == 2 * Redact(of)
  <2>2. of \in Nat
    BY <2>1
  <2>3. n \in Nat /\ EndsOnly(n, of)
    BY <2>2, RedactEnds
  <2>4. Masked(p, path, v) = Put(p, path, "masked", n, of)
    BY <1>1 DEF Masked
  <2> HIDE DEF of, n
  <2> QED
    BY <2>2, <2>3, <2>4, PutMasked
<1>2. CASE v.tag \notin {Utf, Text}
  <2>1. EndsOnly(0, 0)
    BY CodecAssumption DEF EndsOnly
  <2>2. Masked(p, path, v) = Put(p, path, "masked", 0, 0)
    BY <1>2 DEF Masked
  <2> QED
    BY <2>1, <2>2, PutMasked
<1> QED
  BY <1>1, <1>2

LEMMA NoteIs ==
    ASSUME NEW p \in Prints, ~ p.cut
    PROVE  /\ NoteTruncation(p) \in Prints
           /\ NoteTruncation(p).left = p.left /\ NoteTruncation(p).cut = TRUE
           /\ Shown(NoteTruncation(p).out) = Shown(p.out) /\ Shown(p.out) \in Nat
           /\ Markers(NoteTruncation(p).out) = Markers(p.out) \cup {Len(p.out) + 1}
           /\ AllClean(p.out) => AllClean(NoteTruncation(p).out)
<1> DEFINE q == Put(p, <<>>, "marker", 0, 0)
<1>1. <<>> \in Paths
  BY DEF Paths
<1>2. /\ q \in Prints /\ q.left = p.left
      /\ Shown(q.out) = Shown(p.out) /\ Shown(p.out) \in Nat
      /\ Markers(q.out) = Markers(p.out) \cup {Len(p.out) + 1}
      /\ AllClean(p.out) => AllClean(q.out)
  BY <1>1, PutMarker
<1>3. NoteTruncation(p) = [q EXCEPT !.cut = TRUE]
  BY DEF NoteTruncation
<1> HIDE DEF q
<1>4. [q EXCEPT !.cut = TRUE] \in Prints /\ [q EXCEPT !.cut = TRUE].left = q.left
      /\ [q EXCEPT !.cut = TRUE].cut = TRUE /\ [q EXCEPT !.cut = TRUE].out = q.out
  BY <1>2 DEF Prints
<1>5. Shown(q.out) = Shown(p.out)
  BY <1>2
<1> QED
  BY <1>2, <1>3, <1>4, <1>5, Zenon

LEMMA ChargeUpToFits ==
    ASSUME NEW p \in Prints, NEW path \in Paths, NEW n \in Nat, n <= p.left, Clean(path)
    PROVE  /\ ChargeUpTo(p, path, n) \in Prints
           /\ ChargeUpTo(p, path, n).left = p.left - n /\ ChargeUpTo(p, path, n).cut = p.cut
           /\ Shown(ChargeUpTo(p, path, n).out) = Shown(p.out) + n /\ Shown(p.out) \in Nat
           /\ Markers(ChargeUpTo(p, path, n).out) = Markers(p.out)
           /\ AllClean(p.out) => AllClean(ChargeUpTo(p, path, n).out)
<1> DEFINE q == [p EXCEPT !.left = @ - n]
<1>1. q \in Prints /\ q.left = p.left - n /\ q.cut = p.cut /\ q.out = p.out
  BY SpentPrint
<1>2. ChargeUpTo(p, path, n) = Put(q, path, "open", n, n)
  BY DEF ChargeUpTo
<1> HIDE DEF q
<1>3. /\ Put(q, path, "open", n, n) \in Prints
      /\ Put(q, path, "open", n, n).left = q.left /\ Put(q, path, "open", n, n).cut = q.cut
      /\ Shown(Put(q, path, "open", n, n).out) = Shown(q.out) + n /\ Shown(q.out) \in Nat
      /\ Markers(Put(q, path, "open", n, n).out) = Markers(q.out)
      /\ AllClean(q.out) => AllClean(Put(q, path, "open", n, n).out)
  BY <1>1, PutPiece
<1> QED
  BY <1>1, <1>2, <1>3, Zenon

LEMMA ChargeUpToCuts ==
    ASSUME NEW p \in Prints, ~ p.cut, NEW path \in Paths, NEW n \in Nat, n > p.left, Clean(path)
    PROVE  /\ ChargeUpTo(p, path, n) \in Prints
           /\ ChargeUpTo(p, path, n).left = 0 /\ ChargeUpTo(p, path, n).cut = TRUE
           /\ Shown(ChargeUpTo(p, path, n).out) = Shown(p.out) + p.left /\ Shown(p.out) \in Nat
           /\ \E k : Markers(ChargeUpTo(p, path, n).out) = Markers(p.out) \cup {k}
           /\ AllClean(p.out) => AllClean(ChargeUpTo(p, path, n).out)
<1> DEFINE k == p.left
           q == [p EXCEPT !.left = @ - k]
           w == Put(q, path, "open", k, n)
<1>1. k \in Nat /\ k <= p.left /\ p.left - k = 0 /\ k < n /\ ~ (n <= p.left)
  BY DEF Prints
<1>2. q \in Prints /\ q.left = 0 /\ q.cut = p.cut /\ q.out = p.out
  <2>1. q \in Prints /\ q.left = p.left - k /\ q.cut = p.cut /\ q.out = p.out
    BY <1>1, SpentPrint
  <2> QED
    BY <1>1, <2>1
<1>3. ChargeUpTo(p, path, n) = NoteTruncation(w)
  BY <1>1 DEF ChargeUpTo
<1> HIDE DEF k, q
<1>4. /\ w \in Prints /\ w.left = q.left /\ w.cut = q.cut
      /\ Shown(w.out) = Shown(q.out) + k /\ Shown(q.out) \in Nat
      /\ Markers(w.out) = Markers(q.out)
      /\ AllClean(q.out) => AllClean(w.out)
  <2> DEFINE kind == "open"
  <2>1. kind \in {"item", "open"} /\ (kind = "open" => Clean(path))
    OBVIOUS
  <2>2. q \in Prints /\ k \in Nat
    BY <1>1, <1>2
  <2> HIDE DEF kind
  <2>3. Wrote(Put(q, path, kind, k, n), q, k)
    BY <2>1, <2>2, PutWrote
  <2>4. Wrote(w, q, k)
    BY <2>3 DEF kind
  <2> HIDE DEF w
  <2> QED
    BY <2>4 DEF Wrote
<1> HIDE DEF w
<1>5. /\ NoteTruncation(w) \in Prints
      /\ NoteTruncation(w).left = w.left /\ NoteTruncation(w).cut = TRUE
      /\ Shown(NoteTruncation(w).out) = Shown(w.out)
      /\ Markers(NoteTruncation(w).out) = Markers(w.out) \cup {Len(w.out) + 1}
      /\ AllClean(w.out) => AllClean(NoteTruncation(w).out)
  <2>1. ~ w.cut
    BY <1>2, <1>4
  <2> QED
    BY <1>4, <2>1, NoteIs
<1>6. Shown(NoteTruncation(w).out) = Shown(p.out) + p.left
  BY <1>2, <1>4, <1>5, Zenon DEF k
<1>7. \E i : Markers(NoteTruncation(w).out) = Markers(p.out) \cup {i}
  BY <1>2, <1>4, <1>5, Zenon
<1> QED
  BY <1>2, <1>3, <1>4, <1>5, <1>6, <1>7, Zenon

-----------------------------------------------------------------------------
(* Costs. *)

DeeperCost(f, n) ==
    [v \in Values[n] |->
       IF v.tag \in {Array, Object}
       THEN Total([i \in DOMAIN v.items |->
                     1 + IF v.tag = Object /\ IsSensitiveSFSKey(v.items[i].key) THEN 0
                         ELSE f[v.items[i].value]])
       ELSE LeafLen(v)]

CostBy == INSTANCE FoldInduction WITH Op <- DeeperCost, P <- NoClaim

LEMMA CostIs ==
    \A n \in Nat : Cost[n] = DeeperCost(Cost[n - 1], n)
<1>1. ASSUME NEW f, NEW g
      PROVE  DeeperCost(f, 0) = DeeperCost(g, 0)
  <2>1. ASSUME NEW v \in Values[0]
        PROVE  v.tag \notin {Array, Object}
    BY NoItems, Zenon DEF Containers
  <2> QED
    BY <2>1 DEF DeeperCost
<1>2. \E f : f = [n \in Nat |-> DeeperCost(f[n - 1], n)]
  BY <1>1, CostBy!Recursion
<1>3. Cost = [n \in Nat |-> DeeperCost(Cost[n - 1], n)]
  BY <1>2, Zenon DEF Cost, DeeperCost
<1> QED
  BY <1>3

\* What one item costs, and what the items of an object or an array do.
ItemCost(n, tag, x) == 1 + IF tag = Object /\ IsSensitiveSFSKey(x.key) THEN 0 ELSE Cost[n][x.value]
CostsOf(n, tag, s) == [i \in DOMAIN s |-> ItemCost(n, tag, s[i])]

Pairs(n) == [key : Keys \cup {<<>>}, value : Values[n]]

LEMMA CostOf ==
    ASSUME NEW n \in Nat, NEW v \in Values[n]
    PROVE  /\ v.tag \in Containers => Cost[n][v] = Total(CostsOf(n - 1, v.tag, v.items))
           /\ v.tag \notin Containers => Cost[n][v] = LeafLen(v)
<1>1. Cost[n] = DeeperCost(Cost[n - 1], n)
  BY CostIs
<1>2. v.tag \in Containers => Cost[n][v] = Total([i \in DOMAIN v.items |->
                     1 + IF v.tag = Object /\ IsSensitiveSFSKey(v.items[i].key) THEN 0
                         ELSE Cost[n - 1][v.items[i].value]])
  BY <1>1 DEF DeeperCost, Containers
<1>3. v.tag \notin Containers => Cost[n][v] = LeafLen(v)
  BY <1>1 DEF DeeperCost, Containers
<1> QED
  BY <1>2, <1>3 DEF CostsOf, ItemCost

LEMMA LeafLenNat ==
    ASSUME NEW n \in Nat, NEW v \in Values[n], v.tag \notin Containers
    PROVE  LeafLen(v) \in Nat
<1>1. v.cells \in Seq(Nat) \/ v.cells \in Seq(Seq(Nat))
  BY ValueParts
<1>2. Len(v.cells) \in Nat
  BY <1>1
<1> QED
  BY <1>2 DEF LeafLen

CostNatAt(n) == \A v \in Values[n] : Cost[n][v] \in Nat

LEMMA CostsSeq ==
    ASSUME NEW n \in Nat, CostNatAt(n), NEW s \in Seq(Pairs(n)), NEW tag
    PROVE  CostsOf(n, tag, s) \in Seq(Nat) /\ Len(CostsOf(n, tag, s)) = Len(s) /\ Total(CostsOf(n, tag, s)) \in Nat
<1>1. ASSUME NEW i \in DOMAIN s
      PROVE  ItemCost(n, tag, s[i]) \in Nat
  <2>1. s[i] \in Pairs(n)
    BY SeqElement
  <2>2. Cost[n][s[i].value] \in Nat
    BY <2>1 DEF CostNatAt, Pairs
  <2> QED
    BY <2>2 DEF ItemCost
<1>2. CostsOf(n, tag, s) \in [DOMAIN s -> Nat]
  BY <1>1 DEF CostsOf
<1> QED
  BY <1>2, MappedSeq, TotalNatural

LEMMA CostNat == \A n \in Nat : CostNatAt(n)
<1> DEFINE Bad == {n \in Nat : ~ CostNatAt(n)}
<1>1. SUFFICES ASSUME Bad # {}
               PROVE  FALSE
  OBVIOUS
<1>2. PICK n \in Bad : \A k \in Bad : n <= k
  BY <1>1, Adding!LeastNatural
<1>3. ASSUME NEW v \in Values[n]
      PROVE  Cost[n][v] \in Nat
  <2>1. CASE v.tag \in Containers
    <3>0. n - 1 \in Nat /\ v.items \in ItemsOf(Values[n - 1])
      BY <2>1, ValueParts
    <3>1. n - 1 \in Nat /\ v.items \in Seq(Pairs(n - 1))
      BY <3>0 DEF ItemsOf, Pairs
    <3>2. CostNatAt(n - 1)
      BY <1>2, <3>1
    <3> QED
      BY <2>1, <3>1, <3>2, CostsSeq, CostOf
  <2>2. CASE v.tag \notin Containers
    BY <2>2, CostOf, LeafLenNat
  <2> QED
    BY <2>1, <2>2
<1> QED
  BY <1>2, <1>3 DEF CostNatAt

LEMMA HeadItem ==
    ASSUME NEW n \in Nat, NEW s \in Seq(Pairs(n)), s # <<>>, NEW tag
    PROVE  /\ Head(s) \in Pairs(n) /\ Tail(s) \in Seq(Pairs(n))
           /\ Total(CostsOf(n, tag, s)) = ItemCost(n, tag, Head(s)) + Total(CostsOf(n, tag, Tail(s)))
           /\ ItemCost(n, tag, Head(s)) \in Nat /\ ItemCost(n, tag, Head(s)) >= 1
           /\ Total(CostsOf(n, tag, s)) \in Nat /\ Total(CostsOf(n, tag, Tail(s))) \in Nat
<1> DEFINE t == Tail(s)
           a == CostsOf(n, tag, s)
           b == CostsOf(n, tag, t)
<1>1. /\ Head(s) \in Pairs(n) /\ t \in Seq(Pairs(n)) /\ Len(t) = Len(s) - 1 /\ Len(s) \in Nat /\ Len(s) >= 1
      /\ Head(s) = s[1] /\ \A i \in 1 .. Len(t) : t[i] = s[i + 1]
  OBVIOUS
<1>2. DOMAIN s = 1 .. Len(s) /\ DOMAIN t = 1 .. Len(t)
  BY <1>1
<1>3. CostNatAt(n)
  BY CostNat
<1> HIDE DEF t
<1>4. a \in Seq(Nat) /\ Len(a) = Len(s) /\ Total(a) \in Nat
  BY <1>3, CostsSeq
<1>5. b \in Seq(Nat) /\ Len(b) = Len(t) /\ Total(b) \in Nat
  BY <1>1, <1>3, CostsSeq
<1>6. a[1] = ItemCost(n, tag, Head(s))
  BY <1>1, <1>2 DEF CostsOf
<1>7. \A i \in 1 .. Len(t) : b[i] = a[i + 1]
  <2>1. ASSUME NEW i \in 1 .. Len(t)
        PROVE  b[i] = a[i + 1]
    <3>1. i \in DOMAIN t /\ i + 1 \in DOMAIN s
      BY <1>1, <1>2
    <3>2. b[i] = ItemCost(n, tag, t[i]) /\ a[i + 1] = ItemCost(n, tag, s[i + 1])
      BY <3>1 DEF CostsOf
    <3> QED
      BY <1>1, <3>2
  <2> QED
    BY <2>1
<1> HIDE DEF a, b
<1>8. a # <<>> /\ Head(a) = a[1]
  BY <1>1, <1>4
<1>9. b = Tail(a)
  <2>1. Tail(a) \in Seq(Nat) /\ Len(Tail(a)) = Len(b) /\ \A i \in 1 .. Len(b) : b[i] = Tail(a)[i]
    BY <1>1, <1>4, <1>5, <1>7, <1>8
  <2> QED
    BY <1>5, <2>1, SameSeq
<1>10. Total(a) = Head(a) + Total(Tail(a))
  BY <1>4, <1>8, TotalTail
<1>11. Total(a) = ItemCost(n, tag, Head(s)) + Total(b)
  BY <1>6, <1>8, <1>9, <1>10, Zenon
<1>12. ItemCost(n, tag, Head(s)) \in Nat /\ ItemCost(n, tag, Head(s)) >= 1
  <2>1. Cost[n][Head(s).value] \in Nat
    BY <1>1, <1>3 DEF CostNatAt, Pairs
  <2> QED
    BY <2>1 DEF ItemCost
<1> QED
  BY <1>1, <1>4, <1>5, <1>11, <1>12 DEF t, a, b

-----------------------------------------------------------------------------
(* What is being printed. *)

Walks(n) == [path : Paths, tag : Containers, items : Seq(Pairs(n))]
AnyWalk == UNION {Walks(n) : n \in Nat}

Walked(td) ==
    /\ td \in Seq(AnyWalk)
    /\ Len(td) <= MaxNestDepth
    /\ \A d \in 1 .. Len(td) : td[d] \in Walks(Level(d))

DuesOf(td) == [d \in DOMAIN td |-> Total(CostsOf(Level(d), td[d].tag, td[d].items))]
Due(td) == Total(DuesOf(td))

LEMMA WalkedSplit ==
    ASSUME NEW td, Walked(td), td # <<>>
    PROVE  /\ Walked(Front(td)) /\ Front(td) \in Seq(AnyWalk)
           /\ Last(td) \in Walks(Level(Len(td))) /\ Last(td) \in AnyWalk
           /\ Len(td) \in Nat /\ Len(td) >= 1 /\ Len(td) <= MaxNestDepth /\ Level(Len(td)) \in Nat
           /\ Len(Front(td)) = Len(td) - 1
           /\ td = Append(Front(td), Last(td))
<1>1. td \in Seq(AnyWalk) /\ Len(td) \in Nat /\ Len(td) >= 1 /\ Len(td) <= MaxNestDepth
  <2>1. td \in Seq(AnyWalk)
    BY DEF Walked
  <2> QED
    BY <2>1 DEF Walked
<1>2. /\ Front(td) \in Seq(AnyWalk) /\ Last(td) \in AnyWalk
      /\ Len(Front(td)) = Len(td) - 1
      /\ td = Append(Front(td), Last(td))
      /\ \A i \in 1 .. Len(td) - 1 : Front(td)[i] = td[i]
      /\ Last(td) = td[Len(td)]
  BY <1>1, SeqSplit
<1>3. Last(td) \in Walks(Level(Len(td)))
  BY <1>1, <1>2 DEF Walked
<1>4. Walked(Front(td))
  <2>1. Len(Front(td)) <= MaxNestDepth
    BY <1>1, <1>2, CodecAssumption
  <2>2. \A d \in 1 .. Len(Front(td)) : Front(td)[d] \in Walks(Level(d))
    BY <1>1, <1>2 DEF Walked
  <2> QED
    BY <1>2, <2>1, <2>2 DEF Walked
<1>5. Level(Len(td)) \in Nat
  BY <1>1, LevelNat
<1> QED
  BY <1>1, <1>2, <1>3, <1>4, <1>5

LEMMA WalkedAppend ==
    ASSUME NEW td, Walked(td), Len(td) < MaxNestDepth, NEW w \in Walks(Level(Len(td) + 1))
    PROVE  /\ Walked(Append(td, w)) /\ w \in AnyWalk
           /\ Due(Append(td, w)) = Due(td) + Total(CostsOf(Level(Len(td) + 1), w.tag, w.items))
           /\ Due(td) \in Nat
           /\ Total(CostsOf(Level(Len(td) + 1), w.tag, w.items)) \in Nat
           /\ Append(td, w) # <<>>
<1> DEFINE t == Append(td, w)
           l == Level(Len(td) + 1)
           x == Total(CostsOf(l, w.tag, w.items))
<1>1. td \in Seq(AnyWalk) /\ Len(td) \in Nat /\ MaxNestDepth \in Nat /\ Len(td) + 1 <= MaxNestDepth
  <2>1. td \in Seq(AnyWalk) /\ MaxNestDepth \in Nat
    BY CodecAssumption DEF Walked
  <2> QED
    BY <2>1
<1>2. l \in Nat /\ w \in AnyWalk
  BY <1>1, LevelNat DEF AnyWalk
<1>3. /\ t \in Seq(AnyWalk) /\ Len(t) = Len(td) + 1
      /\ DOMAIN t = 1 .. Len(td) + 1 /\ DOMAIN td = 1 .. Len(td)
      /\ \A i \in 1 .. Len(td) : t[i] = td[i]
      /\ t[Len(td) + 1] = w
  BY <1>1, <1>2, AppendParts
<1> HIDE DEF t
<1>4. ASSUME NEW d \in 1 .. Len(td) + 1
      PROVE  t[d] \in Walks(Level(d))
  <2>1. CASE d = Len(td) + 1
    BY <1>3, <2>1
  <2>2. CASE d # Len(td) + 1
    <3>1. d \in 1 .. Len(td)
      BY <1>1, <2>2
    <3> QED
      BY <1>3, <3>1 DEF Walked
  <2> QED
    BY <2>1, <2>2
<1>5. Walked(t)
  BY <1>1, <1>3, <1>4 DEF Walked
<1>6. ASSUME NEW d \in 1 .. Len(td) + 1
      PROVE  Total(CostsOf(Level(d), t[d].tag, t[d].items)) \in Nat
  <2>1. Level(d) \in Nat
    BY <1>1, LevelNat
  <2>2. t[d].items \in Seq(Pairs(Level(d)))
    BY <1>4 DEF Walks
  <2>3. CostNatAt(Level(d))
    BY <2>1, CostNat
  <2> HIDE DEF Level
  <2> QED
    BY <2>1, <2>2, <2>3, CostsSeq
<1> DEFINE a == DuesOf(td)
           b == DuesOf(t)
<1>7. b \in Seq(Nat) /\ Len(b) = Len(td) + 1
  <2>1. b \in [DOMAIN t -> Nat]
    BY <1>3, <1>6 DEF DuesOf
  <2> QED
    BY <1>3, <2>1, MappedSeq
<1>8. a \in Seq(Nat) /\ Len(a) = Len(td)
  <2>1. ASSUME NEW d \in DOMAIN td
        PROVE  Total(CostsOf(Level(d), td[d].tag, td[d].items)) \in Nat
    <3>1. d \in 1 .. Len(td) /\ d \in 1 .. Len(td) + 1
      BY <1>1, <1>3
    <3> QED
      BY <1>3, <1>6, <3>1
  <2>2. a \in [DOMAIN td -> Nat]
    BY <2>1 DEF DuesOf
  <2> QED
    BY <1>1, <2>2, MappedSeq
<1>9. b[Len(td) + 1] = x
  BY <1>1, <1>3 DEF DuesOf
<1>10. \A d \in 1 .. Len(td) : b[d] = a[d]
  BY <1>1, <1>3 DEF DuesOf
<1>11. x \in Nat
  BY <1>1, <1>7, <1>9
<1>12. Due(td) = Total(a) /\ Due(t) = Total(b)
  BY DEF Due
<1> HIDE DEF a, b, x
<1>13. b = Append(a, x)
  BY <1>7, <1>8, <1>9, <1>10, <1>11, AppendIs
<1>14. Total(Append(a, x)) = Total(a) + x /\ Total(a) \in Nat
  BY <1>8, <1>11, TotalSteps
<1>15. Due(t) = Due(td) + x
  BY <1>12, <1>13, <1>14, Zenon
<1>16. t # <<>>
  BY <1>1, <1>3
<1> QED
  BY <1>2, <1>5, <1>11, <1>12, <1>14, <1>15, <1>16 DEF t, x

CleanTodo(td) == \A d \in DOMAIN td : Clean(td[d].path)

PrintTyped ==
    /\ print \in Prints
    /\ Walked(todo)
    /\ result = "printing" => todo # <<>>
    /\ result # "printing" => todo = <<>>
    /\ result \in {"reading", "refused", "ok"} => print = Print0

ShownInv ==
    /\ AllClean(print.out)
    /\ CleanTodo(todo)

\* Nothing is cut as long as what is shown and what is still to come fit.
WholeSoFar ==
    /\ Shown(print.out) + print.left = MaxFormatted
    /\ Shown(print.out) + Due(todo) = Cost[MaxNestDepth][Decoded]
    /\ Markers(print.out) = {}

CutOnce ==
    /\ print.left = 0
    /\ Shown(print.out) = MaxFormatted
    /\ Cost[MaxNestDepth][Decoded] > MaxFormatted
    /\ \E k : Markers(print.out) = {k}

BudgetInv ==
    result \in {"printing", "printed"} => IF print.cut THEN CutOnce ELSE WholeSoFar

LEMMA DecodedIs ==
    ASSUME CodecTyped, CodecDone
    PROVE  /\ Level(1) \in Nat /\ Level(1) = MaxNestDepth - 1 /\ MaxNestDepth \in Nat /\ 1 <= MaxNestDepth
           /\ stack[1] \in Frames(Level(1))
           /\ Decoded \in Values[MaxNestDepth] /\ Decoded.tag = Object /\ Decoded.items = stack[1].items
           /\ Decoded.items \in Seq(Pairs(Level(1)))
           /\ Cost[MaxNestDepth][Decoded] = Total(CostsOf(Level(1), Object, Decoded.items))
           /\ Cost[MaxNestDepth][Decoded] \in Nat
<1>1. Stacked(stack) /\ Len(stack) = 1 /\ stack # <<>> /\ stack[1].tag = Object
  <2>1. result # "refused"
    BY DEF CodecDone
  <2> QED
    BY <2>1 DEF CodecTyped
<1>2. 1 \in 1 .. Len(stack) /\ 1 <= MaxNestDepth /\ MaxNestDepth \in Nat
  BY <1>1, CodecAssumption DEF Stacked
<1>3. stack[1] \in Frames(Level(1))
  BY <1>1, <1>2 DEF Stacked
<1>4. Level(1) \in Nat /\ Level(1) = MaxNestDepth - 1
  BY <1>2 DEF Level
<1>5. Decoded \in Values[Level(1) + 1] /\ stack[1].items \in ItemsOf(Values[Level(1)])
  BY <1>3, <1>4, FrameIsValue DEF Decoded
<1>6. Level(1) + 1 = MaxNestDepth
  BY <1>2, <1>4
<1>7. Decoded.tag = Object /\ Decoded.items = stack[1].items
  BY <1>1 DEF Decoded, FrameValue, Value
<1>8. Decoded \in Values[MaxNestDepth]
  BY <1>5, <1>6
<1>9. Decoded.items \in Seq(Pairs(Level(1)))
  BY <1>5, <1>7 DEF ItemsOf, Pairs
<1>10. Cost[MaxNestDepth][Decoded] = Total(CostsOf(Level(1), Object, Decoded.items))
  <2>1. Object \in Containers
    BY DEF Containers
  <2> QED
    BY <1>2, <1>4, <1>7, <1>8, <2>1, CostOf
<1>11. Cost[MaxNestDepth][Decoded] \in Nat
  BY <1>2, <1>8, CostNat DEF CostNatAt
<1> QED
  BY <1>2, <1>3, <1>4, <1>7, <1>8, <1>9, <1>10, <1>11

LEMMA WalkIs ==
    ASSUME NEW n \in Nat, NEW path \in Paths, NEW v \in Values[n + 1], v.tag \in Containers
    PROVE  /\ Walk(path, v) \in Walks(n)
           /\ Walk(path, v).path = path /\ Walk(path, v).tag = v.tag /\ Walk(path, v).items = v.items
           /\ Cost[n + 1][v] = Total(CostsOf(n, v.tag, v.items))
<1>1. (n + 1) - 1 = n /\ n + 1 \in Nat
  OBVIOUS
<1>2. v.items \in ItemsOf(Values[n])
  BY <1>1, ValueParts
<1>3. v.items \in Seq(Pairs(n))
  BY <1>2 DEF ItemsOf, Pairs
<1>4. Walk(path, v) = [path |-> path, tag |-> v.tag, items |-> v.items]
  BY DEF Walk
<1>5. Walk(path, v) \in Walks(n)
  BY <1>3, <1>4 DEF Walks
<1>6. Cost[n + 1][v] = Total(CostsOf(n, v.tag, v.items))
  BY <1>1, CostOf
<1> QED
  BY <1>4, <1>5, <1>6

LEMMA CleanAppend ==
    ASSUME NEW td \in Seq(AnyWalk), NEW w \in AnyWalk
    PROVE  CleanTodo(Append(td, w)) <=> CleanTodo(td) /\ Clean(w.path)
<1> DEFINE t == Append(td, w)
<1>1. /\ Len(td) \in Nat
      /\ DOMAIN t = 1 .. Len(td) + 1 /\ DOMAIN td = 1 .. Len(td)
      /\ \A i \in 1 .. Len(td) : t[i] = td[i]
      /\ t[Len(td) + 1] = w
  BY AppendParts
<1> HIDE DEF t
<1>2. 1 .. Len(td) + 1 = (1 .. Len(td)) \cup {Len(td) + 1}
  BY <1>1
<1>3. CleanTodo(t) <=> CleanTodo(td) /\ Clean(w.path)
  BY <1>1, <1>2 DEF CleanTodo
<1> QED
  BY <1>3 DEF t

LEMMA NothingWalked ==
    Walked(<<>>) /\ Due(<<>>) = 0 /\ CleanTodo(<<>>)
<1>1. <<>> \in Seq(AnyWalk) /\ Len(<<>>) = 0
  OBVIOUS
<1>2. Walked(<<>>) /\ CleanTodo(<<>>)
  BY <1>1, CodecAssumption DEF Walked, CleanTodo
<1>3. DuesOf(<<>>) = <<>>
  BY DEF DuesOf
<1> QED
  BY <1>2, <1>3, TotalEmpty DEF Due

\* The walk that is on: what it still owes.
Depth == Level(Len(todo))
HereOwes == Total(CostsOf(Depth, Here.tag, Here.items))

LEMMA HereIs ==
    ASSUME PrintTyped, result = "printing"
    PROVE  /\ todo # <<>> /\ Depth \in Nat /\ Here \in Walks(Depth) /\ Here \in AnyWalk
           /\ Walked(Front(todo)) /\ Front(todo) \in Seq(AnyWalk) /\ Len(Front(todo)) < MaxNestDepth
           /\ Level(Len(Front(todo)) + 1) = Depth /\ Len(Front(todo)) = Len(todo) - 1 /\ Len(todo) \in Nat
           /\ todo = Append(Front(todo), Here)
           /\ Due(todo) = Due(Front(todo)) + HereOwes
           /\ Due(Front(todo)) \in Nat /\ HereOwes \in Nat
           /\ CleanTodo(todo) <=> CleanTodo(Front(todo)) /\ Clean(Here.path)
<1> DEFINE a == Front(todo)
           w == Here
<1>1. todo # <<>> /\ Walked(todo)
  BY DEF PrintTyped
<1>2. /\ Walked(a) /\ a \in Seq(AnyWalk)
      /\ w \in Walks(Depth) /\ w \in AnyWalk
      /\ Len(todo) \in Nat /\ Len(todo) >= 1 /\ Len(todo) <= MaxNestDepth /\ Depth \in Nat
      /\ Len(a) = Len(todo) - 1
      /\ todo = Append(a, w)
  BY <1>1, WalkedSplit DEF Depth, Here
<1>3. Len(a) < MaxNestDepth /\ Len(a) + 1 = Len(todo)
  BY <1>2, CodecAssumption
<1>4. Level(Len(a) + 1) = Depth
  BY <1>3 DEF Depth
<1> HIDE DEF a, w
<1>5. /\ Due(Append(a, w)) = Due(a) + Total(CostsOf(Depth, w.tag, w.items))
      /\ Due(a) \in Nat /\ Total(CostsOf(Depth, w.tag, w.items)) \in Nat
  BY <1>2, <1>3, <1>4, WalkedAppend
<1>6. CleanTodo(Append(a, w)) <=> CleanTodo(a) /\ Clean(w.path)
  BY <1>2, CleanAppend
<1>7. Due(todo) = Due(a) + Total(CostsOf(Depth, w.tag, w.items))
  BY <1>2, <1>5, Zenon
<1>8. CleanTodo(todo) <=> CleanTodo(a) /\ Clean(w.path)
  BY <1>2, <1>6, Zenon
<1>9. Total(CostsOf(Depth, w.tag, w.items)) = HereOwes
  BY DEF HereOwes, w
<1> QED
  BY <1>1, <1>2, <1>3, <1>4, <1>5, <1>7, <1>8, <1>9 DEF a, w

\* Another walk takes its place.
LEMMA InPlaceOfHere ==
    ASSUME PrintTyped, result = "printing", NEW w \in Walks(Depth)
    PROVE  /\ Walked(Append(Front(todo), w)) /\ Append(Front(todo), w) # <<>>
           /\ Append(Front(todo), w) \in Seq(AnyWalk) /\ Len(Append(Front(todo), w)) = Len(todo)
           /\ Due(Append(Front(todo), w)) = Due(Front(todo)) + Total(CostsOf(Depth, w.tag, w.items))
           /\ Total(CostsOf(Depth, w.tag, w.items)) \in Nat
           /\ CleanTodo(Append(Front(todo), w)) <=> CleanTodo(Front(todo)) /\ Clean(w.path)
<1> DEFINE a == Front(todo)
<1>1. /\ Walked(a) /\ a \in Seq(AnyWalk) /\ Len(a) < MaxNestDepth /\ Level(Len(a) + 1) = Depth
      /\ Len(a) = Len(todo) - 1 /\ Len(todo) \in Nat
  BY HereIs
<1> HIDE DEF a
<1>2. /\ Walked(Append(a, w)) /\ w \in AnyWalk /\ Append(a, w) # <<>>
      /\ Due(Append(a, w)) = Due(a) + Total(CostsOf(Depth, w.tag, w.items))
      /\ Total(CostsOf(Depth, w.tag, w.items)) \in Nat
  BY <1>1, WalkedAppend
<1>3. CleanTodo(Append(a, w)) <=> CleanTodo(a) /\ Clean(w.path)
  BY <1>1, <1>2, CleanAppend
<1>4. Append(a, w) \in Seq(AnyWalk) /\ Len(Append(a, w)) = Len(todo)
  BY <1>1, <1>2, AppendParts
<1> QED
  BY <1>2, <1>3, <1>4 DEF a

LEMMA GivenIs ==
    ASSUME PrintTyped, result = "printing", Here.items # <<>>
    PROVE  /\ Given.key \in Keys \cup {<<>>} /\ Given.value \in Values[Depth]
           /\ PathOf \in Paths
           /\ Walked(GoOn) /\ GoOn # <<>> /\ GoOn \in Seq(AnyWalk) /\ Len(GoOn) = Len(todo)
           /\ Due(todo) = Due(GoOn) + ItemCost(Depth, Here.tag, Given)
           /\ ItemCost(Depth, Here.tag, Given) \in Nat /\ ItemCost(Depth, Here.tag, Given) >= 1
           /\ Due(GoOn) \in Nat
           /\ CleanTodo(todo) => CleanTodo(GoOn) /\ Clean(Here.path)
<1>1. Depth \in Nat /\ Here \in Walks(Depth)
  BY HereIs
<1>2. Here.path \in Paths /\ Here.items \in Seq(Pairs(Depth))
  BY <1>1 DEF Walks
<1>3. /\ Given \in Pairs(Depth) /\ Tail(Here.items) \in Seq(Pairs(Depth))
      /\ HereOwes = ItemCost(Depth, Here.tag, Given) + Total(CostsOf(Depth, Here.tag, Tail(Here.items)))
      /\ ItemCost(Depth, Here.tag, Given) \in Nat /\ ItemCost(Depth, Here.tag, Given) >= 1
      /\ Total(CostsOf(Depth, Here.tag, Tail(Here.items))) \in Nat
  BY <1>1, <1>2, HeadItem DEF Given, HereOwes
<1>4. Given.key \in Keys \cup {<<>>} /\ Given.value \in Values[Depth]
  BY <1>3 DEF Pairs
<1>5. PathOf \in Paths
  BY <1>2, <1>4 DEF PathOf, Paths
<1> DEFINE w == [Here EXCEPT !.items = Tail(@)]
<1>6. w \in Walks(Depth) /\ w.path = Here.path /\ w.tag = Here.tag /\ w.items = Tail(Here.items)
  <2> DEFINE t == Tail(Here.items)
  <2>1. w = [Here EXCEPT !.items = t]
    OBVIOUS
  <2>2. t \in Seq(Pairs(Depth))
    BY <1>3
  <2> HIDE DEF t, w
  <2>3. w \in Walks(Depth) /\ w.path = Here.path /\ w.tag = Here.tag /\ w.items = t
    BY <1>1, <2>1, <2>2 DEF Walks
  <2> QED
    BY <2>3 DEF t
<1>7. GoOn = Append(Front(todo), w)
  BY DEF GoOn
<1> HIDE DEF w
<1>8. /\ Walked(GoOn) /\ GoOn # <<>> /\ GoOn \in Seq(AnyWalk) /\ Len(GoOn) = Len(todo)
      /\ Due(GoOn) = Due(Front(todo)) + Total(CostsOf(Depth, w.tag, w.items))
      /\ Total(CostsOf(Depth, w.tag, w.items)) \in Nat
      /\ CleanTodo(GoOn) <=> CleanTodo(Front(todo)) /\ Clean(w.path)
  BY <1>6, <1>7, InPlaceOfHere
<1>9. /\ Due(todo) = Due(Front(todo)) + HereOwes /\ Due(Front(todo)) \in Nat
      /\ CleanTodo(todo) <=> CleanTodo(Front(todo)) /\ Clean(Here.path)
  BY HereIs
<1>10. Due(todo) = Due(GoOn) + ItemCost(Depth, Here.tag, Given) /\ Due(GoOn) \in Nat
  BY <1>3, <1>6, <1>8, <1>9
<1>11. CleanTodo(todo) => CleanTodo(GoOn) /\ Clean(Here.path)
  BY <1>6, <1>8, <1>9
<1> QED
  BY <1>3, <1>4, <1>5, <1>8, <1>10, <1>11

PrintInv == PrintTyped /\ ShownInv /\ BudgetInv

LEMMA NotPrinting ==
    ASSUME PrintInv, UNCHANGED <<todo, print>>,
           result \in {"reading", "refused", "ok"}, result' \in {"reading", "refused", "ok"}
    PROVE  PrintInv'
<1>1. PrintTyped'
  BY DEF PrintInv, PrintTyped
<1>2. ShownInv'
  BY DEF PrintInv, ShownInv
<1>3. BudgetInv'
  BY DEF BudgetInv
<1> QED
  BY <1>1, <1>2, <1>3 DEF PrintInv

LEMMA LogKeeps ==
    ASSUME CodecTyped, PrintInv, Log
    PROVE  PrintInv'
<1> DEFINE w == Walk(<<>>, Decoded)
           n == Level(1)
<1>1. result = "ok" /\ result' = "printing" /\ todo' = <<w>> /\ print' = print /\ print = Print0 /\ stack' = stack
  BY DEF Log, PrintInv, PrintTyped
<1>2. /\ n \in Nat /\ n + 1 = MaxNestDepth /\ MaxNestDepth \in Nat /\ 1 <= MaxNestDepth
      /\ Decoded \in Values[MaxNestDepth] /\ Decoded.tag = Object
  <2>1. CodecDone
    BY <1>1 DEF CodecDone
  <2>2. n \in Nat /\ n = MaxNestDepth - 1 /\ MaxNestDepth \in Nat /\ 1 <= MaxNestDepth
    BY <2>1, DecodedIs
  <2>3. n + 1 = MaxNestDepth
    BY <2>2
  <2> QED
    BY <2>1, <2>2, <2>3, DecodedIs
<1>3. <<>> \in Paths /\ Decoded.tag \in Containers
  BY <1>2 DEF Paths, Containers
<1>4. /\ w \in Walks(n) /\ w.path = <<>>
      /\ Cost[MaxNestDepth][Decoded] = Total(CostsOf(n, w.tag, w.items))
  BY <1>2, <1>3, WalkIs
<1> HIDE DEF w
<1>5. /\ Walked(Append(<<>>, w)) /\ w \in AnyWalk
      /\ Due(Append(<<>>, w)) = Due(<<>>) + Total(CostsOf(n, w.tag, w.items))
      /\ Total(CostsOf(n, w.tag, w.items)) \in Nat
      /\ Append(<<>>, w) # <<>>
  <2>1. Len(<<>>) = 0 /\ Len(<<>>) + 1 = 1 /\ Len(<<>>) < MaxNestDepth
    BY <1>2
  <2>2. w \in Walks(Level(Len(<<>>) + 1))
    BY <1>4, <2>1
  <2>3. Walked(<<>>)
    BY NothingWalked
  <2>4. /\ Walked(Append(<<>>, w)) /\ w \in AnyWalk
        /\ Due(Append(<<>>, w)) = Due(<<>>) + Total(CostsOf(Level(Len(<<>>) + 1), w.tag, w.items))
        /\ Total(CostsOf(Level(Len(<<>>) + 1), w.tag, w.items)) \in Nat
        /\ Append(<<>>, w) # <<>>
    BY <2>1, <2>2, <2>3, WalkedAppend
  <2> QED
    BY <2>1, <2>4
<1>6. Append(<<>>, w) = <<w>>
  OBVIOUS
<1>7. CleanTodo(<<w>>)
  <2>1. Clean(w.path)
    BY <1>4 DEF Clean, Range
  <2>2. DOMAIN <<w>> = {1} /\ <<w>>[1] = w
    OBVIOUS
  <2> QED
    BY <2>1, <2>2 DEF CleanTodo
<1>8. Due(<<w>>) = Cost[MaxNestDepth][Decoded] /\ Walked(<<w>>) /\ <<w>> # <<>>
  <2>1. Due(Append(<<>>, w)) = Cost[MaxNestDepth][Decoded]
    BY <1>4, <1>5, NothingWalked
  <2> QED
    BY <1>5, <1>6, <2>1, Zenon
<1>9. PrintTyped'
  BY <1>1, <1>8 DEF PrintInv, PrintTyped
<1>10. ShownInv'
  BY <1>1, <1>7 DEF PrintInv, ShownInv
<1>11. Shown(<<>>) = 0 /\ Markers(<<>>) = {}
  <2>1. [i \in DOMAIN <<>> |-> <<>>[i].n] = <<>>
    OBVIOUS
  <2> QED
    BY <2>1, TotalEmpty DEF Shown, Markers
<1>12. print.left = MaxFormatted /\ print.cut = FALSE /\ print.out = <<>>
  BY <1>1 DEF Print0
<1>13. Decoded' = Decoded
  BY <1>1 DEF Decoded
<1>14. Cost[MaxNestDepth][Decoded] \in Nat /\ MaxFormatted \in Nat
  BY <1>4, <1>5, CodecAssumption
<1>15. WholeSoFar'
  <2>1. Shown(print'.out) + print'.left = MaxFormatted /\ Markers(print'.out) = {}
    BY <1>1, <1>11, <1>12, <1>14
  <2>2. Shown(print'.out) + Due(todo') = Cost[MaxNestDepth][Decoded']
    BY <1>1, <1>8, <1>11, <1>12, <1>13, <1>14
  <2> QED
    BY <2>1, <2>2 DEF WholeSoFar
<1>16. BudgetInv'
  BY <1>1, <1>12, <1>15 DEF BudgetInv
<1> QED
  BY <1>9, <1>10, <1>16 DEF PrintInv

\* While a print is on, and its items fit.
LEMMA Budgets ==
    ASSUME CodecTyped, PrintInv, result = "printing"
    PROVE  /\ print \in Prints /\ print.left \in Nat /\ print.cut \in BOOLEAN /\ Shown(print.out) \in Nat
           /\ Due(todo) \in Nat /\ Cost[MaxNestDepth][Decoded] \in Nat /\ MaxFormatted \in Nat
           /\ print.cut => CutOnce
           /\ ~ print.cut => WholeSoFar
<1>1. print \in Prints
  BY DEF PrintInv, PrintTyped
<1>2. print.left \in Nat /\ print.cut \in BOOLEAN /\ print.out \in Seq(Pieces)
  BY <1>1 DEF Prints
<1>3. Shown(print.out) \in Nat
  BY <1>2, ShownNat
<1>4. Due(todo) \in Nat
  BY HereIs DEF PrintInv
<1>5. Cost[MaxNestDepth][Decoded] \in Nat
  BY DecodedIs DEF CodecDone
<1>6. (print.cut => CutOnce) /\ (~ print.cut => WholeSoFar)
  BY DEF PrintInv, BudgetInv
<1> QED
  BY <1>1, <1>2, <1>3, <1>4, <1>5, <1>6, CodecAssumption

LEMMA SameDecoded ==
    ASSUME UNCHANGED stack
    PROVE  Decoded' = Decoded
BY DEF Decoded

LEMMA CutItemsKeeps ==
    ASSUME CodecTyped, PrintInv, CutItems
    PROVE  PrintInv'
<1>1. /\ result = "printing" /\ result' = "printing" /\ stack' = stack
      /\ Here.items # <<>> /\ print.left = 0 /\ print' = NoteTruncation(print) /\ todo' = Break
  BY DEF CutItems, Printing
<1>2. PrintTyped
  BY DEF PrintInv
<1> DEFINE w == [Here EXCEPT !.items = <<>>]
<1>3. Depth \in Nat /\ Here \in Walks(Depth)
  BY <1>1, <1>2, HereIs
<1>4. w \in Walks(Depth) /\ w.path = Here.path
  <2> DEFINE t == <<>>
  <2>1. w = [Here EXCEPT !.items = t] /\ t \in Seq(Pairs(Depth))
    OBVIOUS
  <2> HIDE DEF t, w
  <2> QED
    BY <1>3, <2>1 DEF Walks
<1>5. todo' = Append(Front(todo), w)
  BY <1>1 DEF Break
<1> HIDE DEF w
<1>6. /\ Walked(todo') /\ todo' # <<>>
      /\ CleanTodo(todo') <=> CleanTodo(Front(todo)) /\ Clean(w.path)
  BY <1>1, <1>2, <1>4, <1>5, InPlaceOfHere
<1>7. CleanTodo(todo')
  BY <1>1, <1>2, <1>4, <1>6, HereIs DEF PrintInv, ShownInv
<1>8. Due(todo) >= 1 /\ Due(todo) \in Nat
  <2>1. /\ Due(todo) = Due(GoOn) + ItemCost(Depth, Here.tag, Given)
        /\ ItemCost(Depth, Here.tag, Given) \in Nat /\ ItemCost(Depth, Here.tag, Given) >= 1
        /\ Due(GoOn) \in Nat
    BY <1>1, <1>2, GivenIs
  <2> QED
    BY <2>1
<1>9. /\ print \in Prints /\ print.cut \in BOOLEAN /\ Shown(print.out) \in Nat
      /\ Cost[MaxNestDepth][Decoded] \in Nat /\ MaxFormatted \in Nat
      /\ print.cut => CutOnce
      /\ ~ print.cut => WholeSoFar
  BY <1>1, Budgets
<1>10. Decoded' = Decoded
  BY <1>1, SameDecoded
<1>11. CASE print.cut
  <2>1. print' = print
    BY <1>1, <1>11 DEF NoteTruncation
  <2>2. CutOnce'
    BY <1>9, <1>10, <1>11, <2>1 DEF CutOnce
  <2>3. BudgetInv'
    BY <1>11, <2>1, <2>2 DEF BudgetInv
  <2>4. PrintTyped' /\ ShownInv'
    BY <1>1, <1>6, <1>7, <1>9, <2>1 DEF PrintInv, PrintTyped, ShownInv
  <2> QED
    BY <2>3, <2>4 DEF PrintInv
<1>12. CASE ~ print.cut
  <2>1. /\ print' \in Prints
        /\ print'.left = print.left /\ print'.cut = TRUE
        /\ Shown(print'.out) = Shown(print.out)
        /\ Markers(print'.out) = Markers(print.out) \cup {Len(print.out) + 1}
        /\ AllClean(print.out) => AllClean(print'.out)
    BY <1>1, <1>9, <1>12, NoteIs
  <2>2. /\ Shown(print.out) + print.left = MaxFormatted
        /\ Shown(print.out) + Due(todo) = Cost[MaxNestDepth][Decoded]
        /\ Markers(print.out) = {}
    BY <1>9, <1>12 DEF WholeSoFar
  <2>3. Shown(print.out) = MaxFormatted /\ Cost[MaxNestDepth][Decoded] > MaxFormatted
    BY <1>1, <1>8, <1>9, <2>2
  <2>4. \E k : Markers(print'.out) = {k}
    BY <2>1, <2>2
  <2>5. CutOnce'
    BY <1>1, <1>10, <2>1, <2>3, <2>4 DEF CutOnce
  <2>6. BudgetInv'
    BY <2>1, <2>5 DEF BudgetInv
  <2>7. PrintTyped' /\ ShownInv'
    BY <1>1, <1>6, <1>7, <2>1 DEF PrintInv, PrintTyped, ShownInv
  <2> QED
    BY <2>6, <2>7 DEF PrintInv
<1> QED
  BY <1>9, <1>11, <1>12

\* An item is charged while the budget lasts: nothing is cut yet.
LEMMA ItemCharged ==
    ASSUME CodecTyped, PrintInv, result = "printing", Here.items # <<>>, print.left > 0
    PROVE  /\ ~ print.cut /\ WholeSoFar
           /\ Charge(print, PathOf) \in Prints /\ PathOf \in Paths
           /\ Charge(print, PathOf).left = print.left - 1 /\ Charge(print, PathOf).cut = FALSE
           /\ Shown(Charge(print, PathOf).out) = Shown(print.out) + 1
           /\ Markers(Charge(print, PathOf).out) = {}
           /\ AllClean(Charge(print, PathOf).out)
           /\ Shown(print.out) \in Nat /\ print.left \in Nat
           /\ Cost[MaxNestDepth][Decoded] \in Nat /\ MaxFormatted \in Nat
<1>1. /\ print \in Prints /\ print.left \in Nat /\ print.cut \in BOOLEAN /\ Shown(print.out) \in Nat
      /\ Cost[MaxNestDepth][Decoded] \in Nat /\ MaxFormatted \in Nat
      /\ print.cut => CutOnce
      /\ ~ print.cut => WholeSoFar
  BY Budgets
<1>2. ~ print.cut
  BY <1>1 DEF CutOnce
<1>3. PathOf \in Paths
  BY GivenIs DEF PrintInv
<1>4. /\ Charge(print, PathOf) \in Prints
      /\ Charge(print, PathOf).left = print.left - 1 /\ Charge(print, PathOf).cut = print.cut
      /\ Shown(Charge(print, PathOf).out) = Shown(print.out) + 1
      /\ Markers(Charge(print, PathOf).out) = Markers(print.out)
      /\ AllClean(print.out) => AllClean(Charge(print, PathOf).out)
  BY <1>1, <1>3, ChargeIs
<1>5. AllClean(print.out)
  BY DEF PrintInv, ShownInv
<1>6. Markers(print.out) = {} /\ WholeSoFar
  BY <1>1, <1>2 DEF WholeSoFar
<1> QED
  BY <1>1, <1>2, <1>3, <1>4, <1>5, <1>6

\* The loop goes on, with what is due less the item.
LEMMA GoesOn ==
    ASSUME CodecTyped, PrintInv, result = "printing", result' = "printing", Here.items # <<>>, todo' = GoOn,
           print' \in Prints, AllClean(print'.out), UNCHANGED stack
    PROVE  /\ PrintTyped' /\ ShownInv'
           /\ Due(todo) = Due(todo') + ItemCost(Depth, Here.tag, Given) /\ Due(todo') \in Nat
           /\ ItemCost(Depth, Here.tag, Given) \in Nat
           /\ Decoded' = Decoded
<1>1. /\ Walked(GoOn) /\ GoOn # <<>>
      /\ Due(todo) = Due(GoOn) + ItemCost(Depth, Here.tag, Given)
      /\ ItemCost(Depth, Here.tag, Given) \in Nat
      /\ Due(GoOn) \in Nat
      /\ CleanTodo(todo) => CleanTodo(GoOn)
  BY GivenIs DEF PrintInv
<1>2. CleanTodo(todo)
  BY DEF PrintInv, ShownInv
<1>3. PrintTyped'
  BY <1>1 DEF PrintTyped
<1>4. ShownInv'
  BY <1>1, <1>2 DEF ShownInv
<1> QED
  BY <1>1, <1>3, <1>4, SameDecoded

LEMMA MaskItemKeeps ==
    ASSUME CodecTyped, PrintInv, MaskItem
    PROVE  PrintInv'
<1>1. /\ result = "printing" /\ result' = "printing" /\ stack' = stack
      /\ Here.items # <<>> /\ print.left > 0 /\ Sensitive
      /\ print' = Masked(Charge(print, PathOf), PathOf, Given.value) /\ todo' = GoOn
  BY DEF MaskItem, Printing
<1> DEFINE q == Charge(print, PathOf)
<1>2. /\ ~ print.cut /\ WholeSoFar
      /\ q \in Prints /\ PathOf \in Paths
      /\ q.left = print.left - 1 /\ q.cut = FALSE
      /\ Shown(q.out) = Shown(print.out) + 1
      /\ Markers(q.out) = {}
      /\ AllClean(q.out)
      /\ Shown(print.out) \in Nat /\ print.left \in Nat
      /\ Cost[MaxNestDepth][Decoded] \in Nat /\ MaxFormatted \in Nat
  BY <1>1, ItemCharged
<1> HIDE DEF q
<1>3. /\ print' \in Prints /\ print'.left = q.left /\ print'.cut = q.cut
      /\ Shown(print'.out) = Shown(q.out)
      /\ Markers(print'.out) = Markers(q.out)
      /\ AllClean(print'.out)
  <2>1. Depth \in Nat /\ Given.value \in Values[Depth]
    BY <1>1, HereIs, GivenIs DEF PrintInv
  <2>2. print' = Masked(q, PathOf, Given.value)
    BY <1>1 DEF q
  <2> QED
    BY <1>2, <2>1, <2>2, MaskedIs
<1>4. ItemCost(Depth, Here.tag, Given) = 1
  BY <1>1 DEF Sensitive, ItemCost
<1>5. /\ PrintTyped' /\ ShownInv'
      /\ Due(todo) = Due(todo') + ItemCost(Depth, Here.tag, Given) /\ Due(todo') \in Nat
      /\ Decoded' = Decoded
  BY <1>1, <1>3, GoesOn
<1>6. /\ Shown(print.out) + print.left = MaxFormatted
      /\ Shown(print.out) + Due(todo) = Cost[MaxNestDepth][Decoded]
  BY <1>2 DEF WholeSoFar
<1>7. /\ Shown(print'.out) + print'.left = MaxFormatted
      /\ Shown(print'.out) + Due(todo') = Cost[MaxNestDepth][Decoded]
  BY <1>2, <1>3, <1>4, <1>5, <1>6
<1>8. WholeSoFar'
  BY <1>2, <1>3, <1>5, <1>7 DEF WholeSoFar
<1>9. BudgetInv'
  BY <1>2, <1>3, <1>8 DEF BudgetInv
<1> QED
  BY <1>5, <1>9 DEF PrintInv

\* The path of an item that is not masked has no sensitive key in it.
LEMMA PathIsClean ==
    ASSUME PrintInv, result = "printing", Here.items # <<>>, ~ Sensitive
    PROVE  Clean(PathOf)
<1>1. Clean(Here.path) /\ Here.path \in Paths
  <2>1. Here \in Walks(Depth) /\ Clean(Here.path)
    BY HereIs DEF PrintInv, ShownInv
  <2> QED
    BY <2>1 DEF Walks
<1>2. Given.key \in Keys \cup {<<>>}
  BY GivenIs DEF PrintInv
<1>3. CASE Here.tag = Object
  <2>1. PathOf = Append(Here.path, Given.key)
    BY <1>3 DEF PathOf
  <2>2. Lower[Given.key] \notin SensitiveKeys
    BY <1>3 DEF Sensitive, IsSensitiveSFSKey
  <2> DEFINE a == Here.path
             k == Given.key
  <2>3. a \in Seq(Keys \cup {<<>>}) /\ k \in Keys \cup {<<>>}
    BY <1>1, <1>2 DEF Paths
  <2> HIDE DEF a, k
  <2>4. /\ Len(a) \in Nat
        /\ DOMAIN Append(a, k) = 1 .. Len(a) + 1 /\ DOMAIN a = 1 .. Len(a)
        /\ \A i \in 1 .. Len(a) : Append(a, k)[i] = a[i]
        /\ Append(a, k)[Len(a) + 1] = k
    BY <2>3, AppendParts
  <2>5. ASSUME NEW x \in Range(Append(a, k))
        PROVE  Lower[x] \notin SensitiveKeys
    <3>1. PICK i \in 1 .. Len(a) + 1 : x = Append(a, k)[i]
      BY <2>4 DEF Range
    <3>2. CASE i = Len(a) + 1
      BY <2>2, <2>4, <3>1, <3>2 DEF k
    <3>3. CASE i # Len(a) + 1
      <4>1. i \in 1 .. Len(a)
        BY <2>4, <3>3
      <4>2. x \in Range(a)
        BY <2>4, <3>1, <4>1 DEF Range
      <4> QED
        BY <1>1, <4>2 DEF Clean, a
    <3> QED
      BY <3>2, <3>3
  <2>6. Clean(Append(a, k))
    BY <2>5 DEF Clean
  <2> QED
    BY <2>1, <2>6 DEF a, k
<1>4. CASE Here.tag # Object
  BY <1>1, <1>4 DEF PathOf
<1> QED
  BY <1>3, <1>4

LEMMA FormatLeafKeeps ==
    ASSUME CodecTyped, PrintInv, FormatLeaf
    PROVE  PrintInv'
<1>1. /\ result = "printing" /\ result' = "printing" /\ stack' = stack
      /\ Here.items # <<>> /\ print.left > 0 /\ ~ Sensitive /\ ~ Nested
      /\ print' = ChargeUpTo(Charge(print, PathOf), PathOf, LeafLen(Given.value)) /\ todo' = GoOn
  BY DEF FormatLeaf, Printing
<1> DEFINE q == Charge(print, PathOf)
           n == LeafLen(Given.value)
<1>2. /\ ~ print.cut /\ WholeSoFar
      /\ q \in Prints /\ PathOf \in Paths
      /\ q.left = print.left - 1 /\ q.cut = FALSE
      /\ Shown(q.out) = Shown(print.out) + 1
      /\ Markers(q.out) = {}
      /\ AllClean(q.out)
      /\ Shown(print.out) \in Nat /\ print.left \in Nat
      /\ Cost[MaxNestDepth][Decoded] \in Nat /\ MaxFormatted \in Nat
  BY <1>1, ItemCharged
<1>3. Clean(PathOf)
  BY <1>1, PathIsClean
<1>4. n \in Nat /\ ItemCost(Depth, Here.tag, Given) = 1 + n
  <2>1. Depth \in Nat /\ Given.value \in Values[Depth]
    BY <1>1, HereIs, GivenIs DEF PrintInv
  <2>2. Given.value.tag \notin Containers
    BY <1>1 DEF Nested, Containers
  <2>3. n \in Nat /\ Cost[Depth][Given.value] = n
    BY <2>1, <2>2, LeafLenNat, CostOf
  <2> QED
    BY <1>1, <2>3 DEF ItemCost, Sensitive
<1>5. print' = ChargeUpTo(q, PathOf, n)
  BY <1>1
<1> HIDE DEF q, n
<1>6. /\ Shown(print.out) + print.left = MaxFormatted
      /\ Shown(print.out) + Due(todo) = Cost[MaxNestDepth][Decoded]
  BY <1>2 DEF WholeSoFar
<1>7. CASE n <= q.left
  <2>1. /\ print' \in Prints
        /\ print'.left = q.left - n /\ print'.cut = q.cut
        /\ Shown(print'.out) = Shown(q.out) + n
        /\ Markers(print'.out) = Markers(q.out)
        /\ AllClean(print'.out)
    BY <1>2, <1>3, <1>4, <1>5, <1>7, ChargeUpToFits
  <2>2. /\ PrintTyped' /\ ShownInv'
        /\ Due(todo) = Due(todo') + ItemCost(Depth, Here.tag, Given) /\ Due(todo') \in Nat
        /\ Decoded' = Decoded
    BY <1>1, <2>1, GoesOn
  <2>3. /\ Shown(print'.out) + print'.left = MaxFormatted
        /\ Shown(print'.out) + Due(todo') = Cost[MaxNestDepth][Decoded]
    BY <1>2, <1>4, <1>6, <2>1, <2>2
  <2>4. WholeSoFar'
    BY <1>2, <2>1, <2>2, <2>3 DEF WholeSoFar
  <2>5. BudgetInv'
    BY <1>2, <2>1, <2>4 DEF BudgetInv
  <2> QED
    BY <2>2, <2>5 DEF PrintInv
<1>8. CASE n > q.left
  <2>1. /\ print' \in Prints
        /\ print'.left = 0 /\ print'.cut = TRUE
        /\ Shown(print'.out) = Shown(q.out) + q.left
        /\ \E k : Markers(print'.out) = Markers(q.out) \cup {k}
        /\ AllClean(print'.out)
    <3>1. ~ q.cut
      BY <1>2
    <3> QED
      BY <1>2, <1>3, <1>4, <1>5, <1>8, <3>1, ChargeUpToCuts
  <2>2. /\ PrintTyped' /\ ShownInv'
        /\ Due(todo) = Due(todo') + ItemCost(Depth, Here.tag, Given) /\ Due(todo') \in Nat
        /\ Decoded' = Decoded
    BY <1>1, <2>1, GoesOn
  <2>3. Shown(print'.out) = MaxFormatted
    BY <1>2, <1>6, <2>1
  <2>4. Cost[MaxNestDepth][Decoded] > MaxFormatted
    BY <1>2, <1>4, <1>6, <1>8, <2>2
  <2>5. \E k : Markers(print'.out) = {k}
    BY <1>2, <2>1
  <2>6. CutOnce'
    BY <2>1, <2>2, <2>3, <2>4, <2>5 DEF CutOnce
  <2>7. BudgetInv'
    BY <2>1, <2>6 DEF BudgetInv
  <2> QED
    BY <2>2, <2>7 DEF PrintInv
<1> QED
  <2>1. q.left \in Nat
    BY <1>2 DEF Prints
  <2> QED
    BY <1>4, <1>7, <1>8, <2>1

LEMMA FormatNestedKeeps ==
    ASSUME CodecTyped, PrintInv, FormatNested
    PROVE  PrintInv'
<1>1. /\ result = "printing" /\ result' = "printing" /\ stack' = stack
      /\ Here.items # <<>> /\ print.left > 0 /\ ~ Sensitive /\ Nested
      /\ print' = Charge(print, PathOf) /\ todo' = Append(GoOn, Walk(PathOf, Given.value))
  BY DEF FormatNested, Printing
<1> DEFINE v == Given.value
           w == Walk(PathOf, v)
           n == Level(Len(GoOn) + 1)
<1>2. /\ ~ print.cut /\ WholeSoFar
      /\ print' \in Prints /\ PathOf \in Paths
      /\ print'.left = print.left - 1 /\ print'.cut = FALSE
      /\ Shown(print'.out) = Shown(print.out) + 1
      /\ Markers(print'.out) = {}
      /\ AllClean(print'.out)
      /\ Shown(print.out) \in Nat /\ print.left \in Nat
      /\ Cost[MaxNestDepth][Decoded] \in Nat /\ MaxFormatted \in Nat
  BY <1>1, ItemCharged
<1>3. Clean(PathOf)
  BY <1>1, PathIsClean
<1>4. /\ v \in Values[Depth] /\ Depth \in Nat
      /\ Walked(GoOn) /\ GoOn \in Seq(AnyWalk) /\ Len(GoOn) = Len(todo)
      /\ Due(todo) = Due(GoOn) + ItemCost(Depth, Here.tag, Given)
      /\ Due(GoOn) \in Nat
      /\ CleanTodo(todo) => CleanTodo(GoOn)
  BY <1>1, HereIs, GivenIs DEF PrintInv
<1>5. v.tag \in Containers
  BY <1>1 DEF Nested, Containers
<1>6. Len(todo) \in Nat /\ Len(todo) <= MaxNestDepth /\ MaxNestDepth \in Nat /\ Depth = MaxNestDepth - Len(todo)
  <2>1. Len(todo) \in Nat
    BY <1>1, HereIs DEF PrintInv
  <2> QED
    BY <2>1, CodecAssumption DEF PrintInv, PrintTyped, Walked, Depth, Level
<1>7. Depth # 0
  BY <1>4, <1>5, ValueParts
<1>8. n \in Nat /\ n + 1 = Depth /\ Len(GoOn) < MaxNestDepth
  BY <1>4, <1>6, <1>7 DEF Level
<1> HIDE DEF v, n
<1>9. w \in Walks(n) /\ w.path = PathOf /\ Cost[Depth][v] = Total(CostsOf(n, w.tag, w.items))
  <2>1. v \in Values[n + 1]
    BY <1>4, <1>8
  <2>2. /\ w \in Walks(n) /\ w.path = PathOf /\ w.tag = v.tag /\ w.items = v.items
        /\ Cost[n + 1][v] = Total(CostsOf(n, v.tag, v.items))
    BY <1>2, <1>5, <1>8, <2>1, WalkIs
  <2> QED
    BY <1>8, <2>2
<1> HIDE DEF w
<1>10. /\ Walked(Append(GoOn, w)) /\ w \in AnyWalk
       /\ Due(Append(GoOn, w)) = Due(GoOn) + Total(CostsOf(n, w.tag, w.items))
       /\ Total(CostsOf(n, w.tag, w.items)) \in Nat
       /\ Append(GoOn, w) # <<>>
  BY <1>4, <1>8, <1>9, WalkedAppend DEF n
<1>11. CleanTodo(Append(GoOn, w))
  <2>1. CleanTodo(GoOn)
    BY <1>4 DEF PrintInv, ShownInv
  <2> QED
    BY <1>3, <1>4, <1>9, <1>10, <2>1, CleanAppend
<1>12. todo' = Append(GoOn, w)
  BY <1>1 DEF w, v
<1>13. ItemCost(Depth, Here.tag, Given) = 1 + Cost[Depth][v]
  BY <1>1 DEF ItemCost, Sensitive, v
<1>14. /\ Shown(print.out) + print.left = MaxFormatted
       /\ Shown(print.out) + Due(todo) = Cost[MaxNestDepth][Decoded]
  BY <1>2 DEF WholeSoFar
<1>15. Due(todo') = Due(GoOn) + Cost[Depth][v] /\ Cost[Depth][v] \in Nat
  BY <1>9, <1>10, <1>12
<1>16. /\ Shown(print'.out) + print'.left = MaxFormatted
       /\ Shown(print'.out) + Due(todo') = Cost[MaxNestDepth][Decoded]
  <2> DEFINE c == Cost[Depth][v]
             i == ItemCost(Depth, Here.tag, Given)
  <2>1. i = 1 + c /\ c \in Nat /\ Due(todo) = Due(GoOn) + i /\ Due(todo') = Due(GoOn) + c /\ Due(GoOn) \in Nat
    BY <1>4, <1>13, <1>15
  <2> HIDE DEF c, i
  <2>2. Due(todo) = Due(todo') + 1 /\ Due(todo') \in Nat
    BY <2>1
  <2>3. Shown(print'.out) + print'.left = MaxFormatted
    BY <1>2, <1>14
  <2>4. Shown(print'.out) + Due(todo') = Cost[MaxNestDepth][Decoded]
    BY <1>2, <1>14, <2>2
  <2> QED
    BY <2>3, <2>4
<1>17. Decoded' = Decoded
  BY <1>1, SameDecoded
<1>18. WholeSoFar'
  BY <1>2, <1>16, <1>17 DEF WholeSoFar
<1>19. BudgetInv'
  BY <1>2, <1>18 DEF BudgetInv
<1>20. PrintTyped' /\ ShownInv'
  BY <1>1, <1>2, <1>10, <1>11, <1>12 DEF PrintTyped, ShownInv
<1> QED
  BY <1>19, <1>20 DEF PrintInv

LEMMA FormatEndKeeps ==
    ASSUME CodecTyped, PrintInv, FormatEnd
    PROVE  PrintInv'
<1>1. /\ result = "printing" /\ stack' = stack /\ Here.items = <<>>
      /\ todo' = Front(todo) /\ print' = print
      /\ result' = IF Len(todo) = 1 THEN "printed" ELSE result
  BY DEF FormatEnd, Printing
<1>2. /\ todo # <<>> /\ Walked(Front(todo)) /\ Len(Front(todo)) = Len(todo) - 1 /\ Len(todo) \in Nat
      /\ Front(todo) \in Seq(AnyWalk)
      /\ Due(todo) = Due(Front(todo)) + HereOwes
      /\ Due(Front(todo)) \in Nat
      /\ CleanTodo(todo) => CleanTodo(Front(todo))
  BY <1>1, HereIs DEF PrintInv
<1>3. HereOwes = 0
  <2>1. CostsOf(Depth, Here.tag, Here.items) = <<>>
    BY <1>1 DEF CostsOf
  <2> QED
    BY <2>1, TotalEmpty, Zenon DEF HereOwes
<1>4. Due(todo') = Due(todo)
  BY <1>1, <1>2, <1>3
<1>5. Decoded' = Decoded
  BY <1>1, SameDecoded
<1>6. PrintTyped'
  <2>1. CASE Len(todo) = 1
    <3>1. Front(todo) = <<>> /\ result' = "printed"
      BY <1>1, <1>2, <2>1
    <3> QED
      BY <1>1, <1>2, <3>1 DEF PrintInv, PrintTyped
  <2>2. CASE Len(todo) # 1
    <3>0. Len(<<>>) = 0
      OBVIOUS
    <3>1. Front(todo) # <<>> /\ result' = "printing"
      <4>1. Len(todo) # 0
        BY <1>2
      <4> QED
        BY <1>1, <1>2, <2>2, <3>0, <4>1
    <3> QED
      BY <1>1, <1>2, <3>1 DEF PrintInv, PrintTyped
  <2> QED
    BY <2>1, <2>2
<1>7. ShownInv'
  BY <1>1, <1>2 DEF PrintInv, ShownInv
<1>8. BudgetInv'
  <2>1. (print.cut => CutOnce) /\ (~ print.cut => WholeSoFar)
    BY <1>1, Budgets
  <2>2. CASE print.cut
    <3>1. CutOnce'
      BY <1>1, <1>5, <2>1, <2>2 DEF CutOnce
    <3> QED
      BY <1>1, <2>2, <3>1 DEF BudgetInv
  <2>3. CASE ~ print.cut
    <3>1. WholeSoFar'
      BY <1>1, <1>4, <1>5, <2>1, <2>3 DEF WholeSoFar
    <3> QED
      BY <1>1, <2>3, <3>1 DEF BudgetInv
  <2> QED
    BY <2>2, <2>3
<1> QED
  BY <1>6, <1>7, <1>8 DEF PrintInv

LEMMA ReadIsSilent ==
    ASSUME CodecTyped,
           RefuseValue \/ ReadLeaf \/ NegativeSize \/ ReadArray \/ ReadStrings \/ OpenNested \/ CloseNested \/ Finish
    PROVE  /\ UNCHANGED <<todo, print>>
           /\ result = "reading" /\ result' \in {"reading", "refused", "ok"}
<1>1. ASSUME NEW cells, Refuse(cells)
      PROVE  UNCHANGED <<todo, print>> /\ result' = "refused"
  BY <1>1 DEF Refuse
<1>2. ASSUME NEW key, NEW cells, NEW v, Took(key, cells, v)
      PROVE  UNCHANGED <<todo, print>> /\ result' = result
  BY <1>2 DEF Took
<1>3. CASE RefuseValue
  BY <1>1, <1>3 DEF RefuseValue, Reading
<1>4. CASE ReadLeaf
  BY <1>2, <1>4 DEF ReadLeaf, Reading
<1>5. CASE NegativeSize
  BY <1>1, <1>5 DEF NegativeSize, Reading
<1>6. CASE ReadArray
  <2>1. \/ \E cells : Refuse(cells)
        \/ \E key, cells, v : Took(key, cells, v)
    BY <1>6 DEF ReadArray
  <2> QED
    BY <1>1, <1>2, <1>6, <2>1 DEF ReadArray, Reading
<1>7. CASE ReadStrings
  <2>1. \E key, cells, v : Took(key, cells, v)
    BY <1>7 DEF ReadStrings
  <2> QED
    BY <1>2, <1>7, <2>1 DEF ReadStrings, Reading
<1>8. CASE OpenNested
  <2>1. (\E cells : Refuse(cells)) \/ UNCHANGED <<twice, bools, result, todo, print>>
    BY <1>8 DEF OpenNested
  <2> QED
    BY <1>1, <1>8, <2>1 DEF OpenNested, Reading
<1>9. CASE CloseNested
  BY <1>9 DEF CloseNested
<1>10. CASE Finish
  BY <1>1, <1>10 DEF Finish
<1> QED
  BY <1>3, <1>4, <1>5, <1>6, <1>7, <1>8, <1>9, <1>10

LEMMA PrintInvKeeps ==
    ASSUME CodecTyped, PrintInv, [CodecNext]_codecVars
    PROVE  PrintInv'
<1>1. CASE RefuseValue \/ ReadLeaf \/ NegativeSize \/ ReadArray \/ ReadStrings \/ OpenNested \/ CloseNested \/ Finish
  <2>1. /\ UNCHANGED <<todo, print>>
        /\ result \in {"reading", "refused", "ok"} /\ result' \in {"reading", "refused", "ok"}
    BY <1>1, ReadIsSilent
  <2> QED
    BY <2>1, NotPrinting
<1>2. CASE Log
  BY <1>2, LogKeeps
<1>3. CASE CutItems
  BY <1>3, CutItemsKeeps
<1>4. CASE MaskItem
  BY <1>4, MaskItemKeeps
<1>5. CASE FormatLeaf
  BY <1>5, FormatLeafKeeps
<1>6. CASE FormatNested
  BY <1>6, FormatNestedKeeps
<1>7. CASE FormatEnd
  BY <1>7, FormatEndKeeps
<1>8. CASE UNCHANGED codecVars
  <2>1. UNCHANGED <<data, stack, nodes, alloc, twice, bools, result, todo, print>>
    BY <1>8 DEF codecVars
  <2>2. PrintTyped'
    BY <2>1 DEF PrintInv, PrintTyped
  <2>3. ShownInv'
    BY <2>1 DEF PrintInv, ShownInv
  <2>4. Decoded' = Decoded
    BY <2>1, SameDecoded
  <2>5. BudgetInv'
    <3>1. CutOnce' <=> CutOnce
      BY <2>1, <2>4 DEF CutOnce
    <3>2. WholeSoFar' <=> WholeSoFar
      BY <2>1, <2>4 DEF WholeSoFar
    <3> QED
      BY <2>1, <3>1, <3>2 DEF PrintInv, BudgetInv
  <2> QED
    BY <2>2, <2>3, <2>5 DEF PrintInv
<1> QED
  BY <1>1, <1>2, <1>3, <1>4, <1>5, <1>6, <1>7, <1>8 DEF CodecNext

LEMMA PrintInvStarts ==
    ASSUME CodecInit
    PROVE  PrintInv
<1>1. todo = <<>> /\ print = Print0 /\ result \in {"reading", "refused"}
  <2>1. todo = <<>> /\ print = Print0
    BY DEF CodecInit
  <2>2. result \in {"reading", "refused"}
    BY DEF CodecInit
  <2> QED
    BY <2>1, <2>2
<1>2. print = [left |-> MaxFormatted, cut |-> FALSE, out |-> <<>>]
  BY <1>1 DEF Print0
<1>3. print \in Prints
  BY <1>2, CodecAssumption DEF Prints
<1>4. PrintTyped
  BY <1>1, <1>3, NothingWalked DEF PrintTyped
<1>5. ShownInv
  BY <1>1, <1>2, NothingWalked DEF ShownInv, AllClean
<1>6. BudgetInv
  BY <1>1 DEF BudgetInv
<1> QED
  BY <1>4, <1>5, <1>6 DEF PrintInv

\* While StringRedacted is on its way down an object, what is shown, what is left
\* of its budget and what is still due add up, and no path with a sensitive key
\* in it has been shown in the open.
THEOREM PrintInvariant == CodecSpec => []PrintInv
<1>1. CodecInit => PrintInv
  BY PrintInvStarts
<1>2. CodecTyped /\ PrintInv /\ [CodecNext]_codecVars => PrintInv'
  BY PrintInvKeeps
<1>3. CodecSpec => []CodecTyped
  BY CodecInvariant, PTL
<1> QED
  BY <1>1, <1>2, <1>3, PTL DEF CodecSpec

\* StringRedacted shows nothing in the open that is under a sensitive key, at any
\* depth and however the key is spelled, and of a string right under one no more
\* than its ends (Redact).
THEOREM NothingSensitiveIsShown == CodecSpec => []NothingSensitiveShown
<1>1. PrintInv => NothingSensitiveShown
  BY DEF PrintInv, ShownInv, AllClean, PieceClean, Clean, EndsOnly, NothingSensitiveShown
<1> QED
  BY <1>1, PrintInvariant, PTL

LEMMA BudgetIsKept ==
    ASSUME CodecTyped, PrintInv
    PROVE  PrintBounded
<1>1. SUFFICES ASSUME result = "printed"
               PROVE  LET shown == Shown(print.out)
                          markers == Cardinality(Markers(print.out))
                      IN IF Cost[MaxNestDepth][Decoded] > MaxFormatted THEN shown = MaxFormatted /\ markers = 1
                         ELSE shown = Cost[MaxNestDepth][Decoded] /\ markers = 0
  BY DEF PrintBounded, Shown, Markers
<1>2. todo = <<>> /\ print \in Prints /\ BudgetInv
  BY <1>1 DEF PrintInv, PrintTyped
<1>3. print.left \in Nat /\ print.cut \in BOOLEAN /\ print.out \in Seq(Pieces)
  BY <1>2 DEF Prints
<1>4. Shown(print.out) \in Nat
  BY <1>3, ShownNat
<1>5. Cost[MaxNestDepth][Decoded] \in Nat /\ MaxFormatted \in Nat
  BY <1>1, DecodedIs, CodecAssumption DEF CodecDone
<1>6. CASE print.cut
  <2>1. CutOnce
    BY <1>1, <1>2, <1>6 DEF BudgetInv
  <2>2. PICK k : Markers(print.out) = {k}
    BY <2>1 DEF CutOnce
  <2>3. Cardinality({k}) = 1
    BY FS_Singleton
  <2>4. Cardinality(Markers(print.out)) = 1
    BY <2>2, <2>3, Zenon
  <2> QED
    BY <2>1, <2>4 DEF CutOnce
<1>7. CASE ~ print.cut
  <2>1. WholeSoFar
    BY <1>1, <1>2, <1>7 DEF BudgetInv
  <2>2. Due(todo) = 0
    BY <1>2, NothingWalked, Zenon
  <2>3. Shown(print.out) = Cost[MaxNestDepth][Decoded] /\ Shown(print.out) <= MaxFormatted
    BY <1>3, <1>4, <1>5, <2>1, <2>2 DEF WholeSoFar
  <2>4. Cardinality(Markers(print.out)) = 0
    <3>1. Cardinality({}) = 0
      BY FS_EmptySet
    <3> QED
      BY <2>1, <3>1, Zenon DEF WholeSoFar
  <2> QED
    BY <1>4, <1>5, <2>3, <2>4
<1> QED
  BY <1>3, <1>6, <1>7

\* StringRedacted shows all of an object that fits its budget and says nothing of
\* a cut; of any other it shows as much as the budget and says so once.
THEOREM PrintsStayBounded == CodecSpec => []PrintBounded
<1>1. CodecTyped /\ PrintInv => PrintBounded
  BY BudgetIsKept
<1> QED
  BY <1>1, CodecInvariant, PrintInvariant, PTL

-----------------------------------------------------------------------------
(* Codes, level by level. *)

DeeperTagged(f, n) ==
    [v \in Values[n] |-> <<v.tag>> \o Payload(v, [i \in DOMAIN v.items |-> f[v.items[i].value]])]

DeeperWritable(W, n) ==
    {v \in Values[n] :
       /\ v.tag = Utf => Len(v.cells) <= MaxUtf
       /\ v.tag = UtfArray => \A i \in DOMAIN v.cells : Len(v.cells[i]) <= MaxUtf
       /\ v.tag = Object => \A i \in DOMAIN v.items : Len(v.items[i].key) <= MaxUtf
       /\ \A i \in DOMAIN v.items : v.items[i].value \in W}

DeeperOnce(W, n) ==
    {v \in Values[n] :
       /\ v.tag = Object => \A i, j \in DOMAIN v.items : v.items[i].key = v.items[j].key => i = j
       /\ \A i \in DOMAIN v.items : v.items[i].value \in W}

TaggedBy == INSTANCE FoldInduction WITH Op <- DeeperTagged, P <- NoClaim
WritableBy == INSTANCE FoldInduction WITH Op <- DeeperWritable, P <- NoClaim
OnceBy == INSTANCE FoldInduction WITH Op <- DeeperOnce, P <- NoClaim

LEMMA TaggedIs ==
    \A n \in Nat : Tagged[n] = DeeperTagged(Tagged[n - 1], n)
<1>1. ASSUME NEW f, NEW g
      PROVE  DeeperTagged(f, 0) = DeeperTagged(g, 0)
  <2>1. ASSUME NEW v \in Values[0]
        PROVE  [i \in DOMAIN v.items |-> f[v.items[i].value]] = [i \in DOMAIN v.items |-> g[v.items[i].value]]
    <3>1. DOMAIN v.items = {}
      BY NoItems
    <3> QED
      BY <3>1
  <2> QED
    BY <2>1 DEF DeeperTagged
<1>2. \E f : f = [n \in Nat |-> DeeperTagged(f[n - 1], n)]
  BY <1>1, TaggedBy!Recursion, Zenon
<1>3. Tagged = [n \in Nat |-> DeeperTagged(Tagged[n - 1], n)]
  BY <1>2, Zenon DEF Tagged, DeeperTagged
<1> QED
  BY <1>3

LEMMA WritableIs ==
    \A n \in Nat : Writable[n] = DeeperWritable(Writable[n - 1], n)
<1>1. ASSUME NEW f, NEW g
      PROVE  DeeperWritable(f, 0) = DeeperWritable(g, 0)
  <2>1. \A v \in Values[0] : DOMAIN v.items = {}
    BY NoItems
  <2> QED
    BY <2>1 DEF DeeperWritable
<1>2. \E f : f = [n \in Nat |-> DeeperWritable(f[n - 1], n)]
  BY <1>1, WritableBy!Recursion
<1>3. Writable = [n \in Nat |-> DeeperWritable(Writable[n - 1], n)]
  BY <1>2 DEF Writable, DeeperWritable
<1> QED
  BY <1>3

LEMMA KeysOnceIs ==
    \A n \in Nat : KeysOnce[n] = DeeperOnce(KeysOnce[n - 1], n)
<1>1. ASSUME NEW f, NEW g
      PROVE  DeeperOnce(f, 0) = DeeperOnce(g, 0)
  <2>1. \A v \in Values[0] : DOMAIN v.items = {}
    BY NoItems
  <2> QED
    BY <2>1 DEF DeeperOnce
<1>2. \E f : f = [n \in Nat |-> DeeperOnce(f[n - 1], n)]
  BY <1>1, OnceBy!Recursion
<1>3. KeysOnce = [n \in Nat |-> DeeperOnce(KeysOnce[n - 1], n)]
  BY <1>2 DEF KeysOnce, DeeperOnce
<1> QED
  BY <1>3

\* Every leaf has each key once, and can be written when its strings can.
LEMMA LeafsOnce ==
    ASSUME NEW n \in Nat, NEW v \in Leafs
    PROVE  /\ v \in KeysOnce[n]
           /\ v \in Writable[n] <=> /\ v.tag = Utf => Len(v.cells) <= MaxUtf
                                    /\ v.tag = UtfArray => \A i \in DOMAIN v.cells : Len(v.cells[i]) <= MaxUtf
<1>1. v \in Values[n] /\ DOMAIN v.items = {}
  <2>1. v.items = <<>>
    BY LeafParts
  <2> QED
    BY <2>1, LeafsAreValues
<1>2. v \in DeeperOnce(KeysOnce[n - 1], n)
  BY <1>1 DEF DeeperOnce
<1>3. v \in DeeperWritable(Writable[n - 1], n)
        <=> /\ v.tag = Utf => Len(v.cells) <= MaxUtf
            /\ v.tag = UtfArray => \A i \in DOMAIN v.cells : Len(v.cells[i]) <= MaxUtf
  BY <1>1 DEF DeeperWritable
<1> QED
  BY <1>2, <1>3, KeysOnceIs, WritableIs, Zenon

\* The values an object or an array may hold, and its keys.
LEMMA ContainerOnce ==
    ASSUME NEW n \in Nat, NEW v \in Values[n + 1], v.tag \in Containers
    PROVE  /\ v \in KeysOnce[n + 1]
                <=> /\ v.tag = Object => \A i, j \in DOMAIN v.items : v.items[i].key = v.items[j].key => i = j
                    /\ \A i \in DOMAIN v.items : v.items[i].value \in KeysOnce[n]
           /\ v \in Writable[n + 1]
                <=> /\ v.tag = Object => \A i \in DOMAIN v.items : Len(v.items[i].key) <= MaxUtf
                    /\ \A i \in DOMAIN v.items : v.items[i].value \in Writable[n]
<1>1. n + 1 \in Nat /\ n + 1 - 1 = n
  OBVIOUS
<1>2. KeysOnce[n + 1] = DeeperOnce(KeysOnce[n], n + 1) /\ Writable[n + 1] = DeeperWritable(Writable[n], n + 1)
  BY <1>1, KeysOnceIs, WritableIs
<1>3. v.tag # Utf /\ v.tag # UtfArray
  BY TagsAre DEF LeafTags
<1>4. v \in DeeperOnce(KeysOnce[n], n + 1)
                <=> /\ v.tag = Object => \A i, j \in DOMAIN v.items : v.items[i].key = v.items[j].key => i = j
                    /\ \A i \in DOMAIN v.items : v.items[i].value \in KeysOnce[n]
  BY DEF DeeperOnce
<1>5. v \in DeeperWritable(Writable[n], n + 1)
                <=> /\ v.tag = Object => \A i \in DOMAIN v.items : Len(v.items[i].key) <= MaxUtf
                    /\ \A i \in DOMAIN v.items : v.items[i].value \in Writable[n]
  BY <1>3 DEF DeeperWritable
<1> QED
  BY <1>2, <1>4, <1>5, Zenon

-----------------------------------------------------------------------------
(* More on codes in a row. *)

LEMMA NothingIn ==
    ASSUME NEW S, NEW s \in Seq(S), Len(s) = 0
    PROVE  s = <<>>
OBVIOUS

JoinedNats(base, s, acc, i) ==
    base \in Seq(Nat) /\ s \in Seq(Seq(Nat)) => acc \in Seq(Nat)

JoinedError(base, s, acc, i) ==
    /\ acc \in Seq(Int)
    /\ (\E k \in 1 .. i : -1 \in Range(s[k])) => -1 \in Range(acc)

JoiningNats == INSTANCE FoldInduction WITH Op <- Then, P <- JoinedNats
JoiningError == INSTANCE FoldInduction WITH Op <- Then, P <- JoinedError

LEMMA JoinedNat ==
    ASSUME NEW s \in Seq(Seq(Nat))
    PROVE  Joined(s) \in Seq(Nat)
<1>0. JoiningNats!FoldLeft(Then, <<>>, s) = FoldLeft(Then, <<>>, s)
  BY DEF JoiningNats!FoldLeft, FoldLeft, JoiningNats!MapThenFoldSet, MapThenFoldSet, JoiningNats!Max, Max
<1>1. JoinedNats(<<>>, s, <<>>, 0)
  BY DEF JoinedNats
<1>2. ASSUME NEW acc, NEW i, i \in 1 .. Len(s), JoinedNats(<<>>, s, acc, i - 1)
      PROVE  JoinedNats(<<>>, s, Then(acc, s[i]), i)
  <2>1. s[i] \in Seq(Nat) /\ <<>> \in Seq(Nat) /\ acc \in Seq(Nat)
    BY <1>2 DEF JoinedNats
  <2> QED
    BY <2>1 DEF JoinedNats, Then
<1>3. \A acc, i : i \in 1 .. Len(s) /\ JoinedNats(<<>>, s, acc, i - 1) => JoinedNats(<<>>, s, Then(acc, s[i]), i)
  BY <1>2
<1>4. JoinedNats(<<>>, s, FoldLeft(Then, <<>>, s), Len(s))
  BY <1>0, <1>1, <1>3, JoiningNats!FoldInduct
<1>5. <<>> \in Seq(Nat)
  OBVIOUS
<1> QED
  BY <1>4, <1>5 DEF JoinedNats, Joined

LEMMA RangeThen ==
    ASSUME NEW S, NEW s \in Seq(S), NEW t \in Seq(S), NEW x
    PROVE  x \in Range(s \o t) <=> x \in Range(s) \/ x \in Range(t)
<1>1. /\ s \o t \in Seq(S) /\ Len(s \o t) = Len(s) + Len(t)
      /\ \A i \in 1 .. Len(s) : (s \o t)[i] = s[i]
      /\ \A i \in 1 .. Len(t) : (s \o t)[Len(s) + i] = t[i]
  BY ConcatAt
<1> DEFINE c == s \o t
<1>2. /\ DOMAIN c = 1 .. Len(s) + Len(t) /\ DOMAIN s = 1 .. Len(s) /\ DOMAIN t = 1 .. Len(t)
      /\ Len(s) \in Nat /\ Len(t) \in Nat
  BY <1>1
<1> HIDE DEF c
<1>3. \A i \in 1 .. Len(s) : i \in DOMAIN c /\ c[i] = s[i]
  BY <1>1, <1>2 DEF c
<1>4. \A i \in 1 .. Len(t) : Len(s) + i \in DOMAIN c /\ c[Len(s) + i] = t[i]
  BY <1>1, <1>2 DEF c
<1>5. ASSUME x \in Range(s) \/ x \in Range(t)
      PROVE  x \in Range(c)
  BY <1>2, <1>3, <1>4, <1>5 DEF Range
<1>6. ASSUME x \in Range(c)
      PROVE  x \in Range(s) \/ x \in Range(t)
  <2>1. PICK i \in 1 .. Len(s) + Len(t) : c[i] = x
    BY <1>2, <1>6 DEF Range
  <2>2. CASE i \in 1 .. Len(s)
    BY <1>2, <1>3, <2>1, <2>2 DEF Range
  <2>3. CASE i \notin 1 .. Len(s)
    <3>1. i - Len(s) \in 1 .. Len(t) /\ Len(s) + (i - Len(s)) = i
      BY <1>2, <2>3
    <3>2. t[i - Len(s)] = x
      BY <1>4, <2>1, <3>1
    <3> QED
      BY <1>2, <3>1, <3>2 DEF Range
  <2> QED
    BY <2>2, <2>3
<1> QED
  BY <1>5, <1>6 DEF c

LEMMA JoinedHasError ==
    ASSUME NEW s \in Seq(Seq(Int)), NEW k \in DOMAIN s, -1 \in Range(s[k])
    PROVE  -1 \in Range(Joined(s))
<1>0. JoiningError!FoldLeft(Then, <<>>, s) = FoldLeft(Then, <<>>, s)
  BY DEF JoiningError!FoldLeft, FoldLeft, JoiningError!MapThenFoldSet, MapThenFoldSet, JoiningError!Max, Max
<1>1. JoinedError(<<>>, s, <<>>, 0)
  BY DEF JoinedError
<1>2. ASSUME NEW acc, NEW i, i \in 1 .. Len(s), JoinedError(<<>>, s, acc, i - 1)
      PROVE  JoinedError(<<>>, s, Then(acc, s[i]), i)
  <2>1. s[i] \in Seq(Int) /\ acc \in Seq(Int) /\ i \in Nat
    BY <1>2 DEF JoinedError
  <2>2. Then(acc, s[i]) \in Seq(Int)
    BY <2>1 DEF Then
  <2>3. -1 \in Range(Then(acc, s[i])) <=> -1 \in Range(acc) \/ -1 \in Range(s[i])
    BY <2>1, RangeThen DEF Then
  <2>4. ASSUME NEW j \in 1 .. i, -1 \in Range(s[j])
        PROVE  -1 \in Range(Then(acc, s[i]))
    <3>1. CASE j = i
      BY <2>3, <2>4, <3>1
    <3>2. CASE j # i
      <4>1. j \in 1 .. i - 1
        BY <2>1, <3>2
      <4>2. -1 \in Range(acc)
        BY <1>2, <2>4, <4>1 DEF JoinedError
      <4> QED
        BY <2>3, <4>2
    <3> QED
      BY <3>1, <3>2
  <2> QED
    BY <2>2, <2>4 DEF JoinedError
<1>3. \A acc, i : i \in 1 .. Len(s) /\ JoinedError(<<>>, s, acc, i - 1) => JoinedError(<<>>, s, Then(acc, s[i]), i)
  BY <1>2
<1>4. JoinedError(<<>>, s, FoldLeft(Then, <<>>, s), Len(s))
  BY <1>0, <1>1, <1>3, JoiningError!FoldInduct
<1>5. k \in 1 .. Len(s)
  BY SeqElement
<1> QED
  BY <1>4, <1>5 DEF JoinedError, Joined

\* How long the codes in a row are.
Lens(s) == [i \in DOMAIN s |-> Len(s[i])]

LEMMA LensSeq ==
    ASSUME NEW s \in Seq(Seq(Int))
    PROVE  Lens(s) \in Seq(Nat) /\ Len(Lens(s)) = Len(s) /\ Len(s) \in Nat /\ \A i \in 1 .. Len(s) : Lens(s)[i] = Len(s[i])
<1>1. \A i \in DOMAIN s : Len(s[i]) \in Nat
  <2>1. \A i \in DOMAIN s : s[i] \in Seq(Int)
    BY SeqElement
  <2> QED
    BY <2>1
<1>2. Lens(s) \in [DOMAIN s -> Nat]
  BY <1>1 DEF Lens
<1>3. DOMAIN s = 1 .. Len(s) /\ Len(s) \in Nat
  OBVIOUS
<1> QED
  BY <1>2, <1>3, MappedSeq DEF Lens

LEMMA LensAppend ==
    ASSUME NEW s \in Seq(Seq(Int)), NEW x \in Seq(Int)
    PROVE  Lens(Append(s, x)) = Append(Lens(s), Len(x))
<1> DEFINE t == Append(s, x)
           n == Len(x)
<1>1. t \in Seq(Seq(Int)) /\ Len(t) = Len(s) + 1 /\ t[Len(s) + 1] = x /\ \A i \in 1 .. Len(s) : t[i] = s[i]
  OBVIOUS
<1>2. n \in Nat
  OBVIOUS
<1>3. Lens(t) \in Seq(Nat) /\ Len(Lens(t)) = Len(s) + 1 /\ \A i \in 1 .. Len(s) + 1 : Lens(t)[i] = Len(t[i])
  BY <1>1, LensSeq
<1>4. Lens(s) \in Seq(Nat) /\ Len(Lens(s)) = Len(s) /\ Len(s) \in Nat /\ \A i \in 1 .. Len(s) : Lens(s)[i] = Len(s[i])
  BY LensSeq
<1>5. Lens(t)[Len(Lens(s)) + 1] = n
  BY <1>1, <1>3, <1>4
<1> HIDE DEF t, n
<1>6. \A i \in 1 .. Len(Lens(s)) : Lens(t)[i] = Lens(s)[i]
  BY <1>1, <1>3, <1>4
<1>7. Lens(t) = Append(Lens(s), n)
  BY <1>2, <1>3, <1>4, <1>5, <1>6, AppendIs
<1> QED
  BY <1>7 DEF t, n

LEMMA JoinedLen ==
    ASSUME NEW r \in Seq(Seq(Int))
    PROVE  Len(Joined(r)) = Total(Lens(r)) /\ Joined(r) \in Seq(Int)
<1> DEFINE Bad == {n \in Nat : \E s \in Seq(Seq(Int)) : Len(s) = n /\ Len(Joined(s)) # Total(Lens(s))}
<1>1. SUFFICES ASSUME Bad # {}
               PROVE  FALSE
  <2>1. Len(r) \in Nat
    OBVIOUS
  <2> QED
    BY <2>1, JoinedInt
<1>2. PICK n \in Bad : \A k \in Bad : n <= k
  BY <1>1, Adding!LeastNatural
<1>3. PICK s \in Seq(Seq(Int)) : Len(s) = n /\ Len(Joined(s)) # Total(Lens(s))
  BY <1>2
<1>4. CASE s = <<>>
  <2>1. Joined(<<>>) = <<>>
    <3>1. <<>> \in Seq(Int) /\ <<>> \in Seq(Seq(Int))
      OBVIOUS
    <3> QED
      BY <3>1, JoinedSteps
  <2>2. Lens(<<>>) = <<>>
    BY DEF Lens
  <2>3. Len(Joined(s)) = 0
    BY <1>4, <2>1
  <2>4. Total(Lens(s)) = 0
    BY <1>4, <2>2, TotalEmpty, Zenon
  <2> QED
    BY <1>3, <2>3, <2>4
<1>5. CASE s # <<>>
  <2> DEFINE a == Front(s)
             x == Last(s)
  <2>1. a \in Seq(Seq(Int)) /\ x \in Seq(Int) /\ Len(a) = Len(s) - 1 /\ s = Append(a, x)
    BY <1>5, SeqSplit
  <2>2. n \in Nat /\ Len(a) \in Nat
    BY <2>1
  <2> HIDE DEF a, x
  <2>3. Len(Joined(a)) = Total(Lens(a))
    <3>1. Len(a) \notin Bad
      <4>1. Len(a) < n
        BY <1>3, <2>1, <2>2
      <4> QED
        BY <1>2, <2>2, <4>1
    <3> QED
      BY <2>1, <2>2, <3>1
  <2>4. Joined(s) = Joined(a) \o x /\ Joined(a) \in Seq(Int)
    BY <2>1, JoinedSteps
  <2>5. Len(Joined(s)) = Len(Joined(a)) + Len(x)
    BY <2>1, <2>4
  <2>6. Lens(s) = Append(Lens(a), Len(x)) /\ Lens(a) \in Seq(Nat) /\ Len(x) \in Nat
    BY <2>1, LensAppend, LensSeq
  <2>7. Total(Append(Lens(a), Len(x))) = Total(Lens(a)) + Len(x)
    BY <2>6, TotalSteps
  <2>8. Total(Lens(s)) = Total(Lens(a)) + Len(x)
    BY <2>6, <2>7, Zenon
  <2> QED
    BY <1>3, <2>3, <2>5, <2>8, Zenon
<1> QED
  BY <1>4, <1>5

\* Codes none of which is longer make no longer a row.
LEMMA JoinedShorter ==
    ASSUME NEW p \in Seq(Seq(Int)), NEW q \in Seq(Seq(Int)), Len(p) = Len(q),
           \A i \in 1 .. Len(p) : Len(p[i]) <= Len(q[i])
    PROVE  Len(Joined(p)) <= Len(Joined(q))
<1> DEFINE Shorter(s, t) == Len(s) = Len(t) /\ \A i \in 1 .. Len(s) : Len(s[i]) <= Len(t[i])
           Bad == {n \in Nat : \E s, t \in Seq(Seq(Int)) :
                      Len(s) = n /\ Shorter(s, t) /\ ~ (Len(Joined(s)) <= Len(Joined(t)))}
<1>1. SUFFICES ASSUME Bad # {}
               PROVE  FALSE
  <2>1. Len(p) \in Nat
    OBVIOUS
  <2> QED
    BY <2>1
<1>2. PICK n \in Bad : \A k \in Bad : n <= k
  BY <1>1, Adding!LeastNatural
<1>3. PICK s, t \in Seq(Seq(Int)) : Len(s) = n /\ Shorter(s, t) /\ ~ (Len(Joined(s)) <= Len(Joined(t)))
  BY <1>2
<1>4. n \in Nat /\ Len(s) = Len(t)
  BY <1>3
<1>5. CASE n = 0
  <2>0. Len(s) = 0 /\ Len(t) = 0
    BY <1>3, <1>4, <1>5
  <2>1. s = <<>> /\ t = <<>>
    BY <2>0, NothingIn
  <2>2. Len(Joined(s)) = Len(Joined(t)) /\ Len(Joined(s)) \in Nat
    <3>1. Joined(s) \in Seq(Int)
      BY JoinedInt
    <3> QED
      BY <2>1, <3>1
  <2> QED
    BY <1>3, <2>2
<1>6. CASE n # 0
  <2> DEFINE a == Front(s)
             b == Front(t)
             x == Last(s)
             y == Last(t)
  <2>1. s # <<>> /\ t # <<>>
    BY <1>3, <1>4, <1>6
  <2>2. /\ a \in Seq(Seq(Int)) /\ x \in Seq(Int) /\ Len(a) = Len(s) - 1 /\ s = Append(a, x)
        /\ x = s[Len(s)] /\ \A i \in 1 .. Len(s) - 1 : a[i] = s[i]
    BY <2>1, SeqSplit
  <2>3. /\ b \in Seq(Seq(Int)) /\ y \in Seq(Int) /\ Len(b) = Len(t) - 1 /\ t = Append(b, y)
        /\ y = t[Len(t)] /\ \A i \in 1 .. Len(t) - 1 : b[i] = t[i]
    BY <2>1, SeqSplit
  <2> HIDE DEF a, b, x, y
  <2>4. Len(x) <= Len(y)
    <3>1. Len(s) \in 1 .. Len(s)
      BY <1>3, <1>4, <1>6
    <3> QED
      BY <1>3, <1>4, <2>2, <2>3, <3>1
  <2>5. Shorter(a, b)
    <3>1. \A i \in 1 .. Len(s) - 1 : i \in 1 .. Len(s)
      BY <1>3, <1>4
    <3>2. \A i \in 1 .. Len(s) - 1 : Len(a[i]) <= Len(b[i])
      BY <1>3, <1>4, <2>2, <2>3, <3>1
    <3> QED
      BY <1>4, <2>2, <2>3, <3>2
  <2>6. Len(Joined(a)) <= Len(Joined(b))
    <3>1. Len(a) \in Nat /\ Len(a) < n
      BY <1>3, <1>4, <2>2
    <3>2. Len(a) \notin Bad
      BY <1>2, <1>4, <3>1
    <3> HIDE DEF Shorter
    <3> QED
      BY <2>2, <2>3, <2>5, <3>1, <3>2
  <2>7. Joined(s) = Joined(a) \o x /\ Joined(a) \in Seq(Int) /\ Joined(t) = Joined(b) \o y /\ Joined(b) \in Seq(Int)
    BY <2>2, <2>3, JoinedSteps
  <2>8. Len(Joined(s)) = Len(Joined(a)) + Len(x) /\ Len(Joined(t)) = Len(Joined(b)) + Len(y)
        /\ Len(Joined(a)) \in Nat /\ Len(Joined(b)) \in Nat /\ Len(x) \in Nat /\ Len(y) \in Nat
    BY <2>2, <2>3, <2>7
  <2>9. Len(Joined(s)) <= Len(Joined(t))
    BY <2>4, <2>6, <2>8
  <2> QED
    BY <1>3, <2>9
<1> QED
  BY <1>5, <1>6

\* One code changed changes the length of the row by as much.
LEMMA JoinedChange ==
    ASSUME NEW s \in Seq(Seq(Int)), NEW k \in 1 .. Len(s), NEW t \in Seq(Seq(Int)), Len(t) = Len(s),
           \A i \in 1 .. Len(s) : i # k => t[i] = s[i]
    PROVE  /\ Len(Joined(t)) + Len(s[k]) = Len(Joined(s)) + Len(t[k])
           /\ Len(s[k]) \in Nat /\ Len(t[k]) \in Nat /\ Len(Joined(s)) \in Nat /\ Len(Joined(t)) \in Nat
<1>1. Lens(s) \in Seq(Nat) /\ Len(Lens(s)) = Len(s) /\ \A i \in 1 .. Len(s) : Lens(s)[i] = Len(s[i])
  BY LensSeq
<1>2. Lens(t) \in Seq(Nat) /\ Len(Lens(t)) = Len(s) /\ \A i \in 1 .. Len(s) : Lens(t)[i] = Len(t[i])
  BY LensSeq
<1>3. \A i \in 1 .. Len(Lens(s)) : i # k => Lens(t)[i] = Lens(s)[i]
  BY <1>1, <1>2
<1>4. k \in 1 .. Len(Lens(s)) /\ Len(Lens(t)) = Len(Lens(s)) /\ Lens(s)[k] = Len(s[k]) /\ Lens(t)[k] = Len(t[k])
  BY <1>1, <1>2
<1>5. /\ Total(Lens(t)) + Lens(s)[k] = Total(Lens(s)) + Lens(t)[k]
      /\ Lens(s)[k] \in Nat /\ Lens(t)[k] \in Nat /\ Total(Lens(s)) \in Nat /\ Total(Lens(t)) \in Nat
  BY <1>1, <1>2, <1>3, <1>4, TotalChange
<1>6. Len(Joined(s)) = Total(Lens(s)) /\ Len(Joined(t)) = Total(Lens(t))
  BY JoinedLen
<1> QED
  BY <1>4, <1>5, <1>6

-----------------------------------------------------------------------------
(* What a leaf is written as. *)

LEMMA WriteUtfIs ==
    ASSUME NEW s \in Seq(Nat)
    PROVE  /\ WriteUtf(s) \in Seq(Int)
           /\ Len(WriteUtf(s)) <= Len(Utf16(s))
           /\ Len(s) <= MaxUtf => WriteUtf(s) = Utf16(s) /\ WriteUtf(s) \in Seq(Nat)
           /\ ~ (Len(s) <= MaxUtf) => -1 \in Range(WriteUtf(s))
<1>1. Len(s) \in Nat /\ MaxUtf \in Nat /\ Utf16(s) \in Seq(Int) /\ Len(Utf16(s)) = Len(s) + 1
  BY Utf16Int, CodecAssumption
<1>2. Failed \in Seq(Int) /\ Len(Failed) = 1 /\ -1 \in Range(Failed)
  <2>1. Failed \in Seq(Int) /\ Len(Failed) = 1 /\ 1 \in DOMAIN Failed /\ Failed[1] = -1
    BY DEF Failed
  <2> HIDE DEF Failed
  <2>2. Failed[1] \in Range(Failed)
    BY <2>1 DEF Range
  <2>3. -1 \in Range(Failed)
    BY <2>1, <2>2, Zenon
  <2> QED
    BY <2>1, <2>3
<1>3. CASE Len(s) <= MaxUtf
  <2>1. WriteUtf(s) = Utf16(s)
    BY <1>1, <1>3 DEF WriteUtf
  <2>2. Utf16(s) \in Seq(Nat)
    BY <1>1 DEF Utf16
  <2> QED
    BY <1>1, <1>3, <2>1, <2>2
<1>4. CASE ~ (Len(s) <= MaxUtf)
  <2>1. WriteUtf(s) = Failed
    BY <1>1, <1>4 DEF WriteUtf
  <2>2. Len(WriteUtf(s)) <= Len(Utf16(s))
    BY <1>1, <1>2, <2>1
  <2> QED
    BY <1>2, <1>4, <2>1, <2>2, Zenon
<1> QED
  BY <1>3, <1>4

\* A cell before a code.
LEMMA CellBefore ==
    ASSUME NEW a \in Nat, NEW p \in Seq(Int)
    PROVE  /\ <<a>> \o p \in Seq(Int) /\ Len(<<a>> \o p) = Len(p) + 1 /\ Len(p) \in Nat
           /\ p \in Seq(Nat) => <<a>> \o p \in Seq(Nat)
           /\ -1 \in Range(p) => -1 \in Range(<<a>> \o p)
<1>1. <<a>> \in Seq(Int) /\ Len(<<a>>) = 1 /\ <<a>> \in Seq(Nat)
  OBVIOUS
<1>2. -1 \in Range(p) => -1 \in Range(<<a>> \o p)
  BY <1>1, RangeThen
<1>3. <<a>> \o p \in Seq(Int) /\ Len(<<a>> \o p) = Len(p) + 1 /\ Len(p) \in Nat
  BY <1>1
<1>4. ASSUME p \in Seq(Nat)
      PROVE  <<a>> \o p \in Seq(Nat)
  BY <1>1, <1>4
<1> QED
  BY <1>2, <1>3, <1>4

\* An array of strings.
LEMMA StringsWritten ==
    ASSUME NEW ss \in Seq(Seq(Nat))
    PROVE  LET w == Joined([i \in DOMAIN ss |-> WriteUtf(ss[i])])
               r == Joined([i \in DOMAIN ss |-> Utf16(ss[i])])
           IN /\ w \in Seq(Int) /\ r \in Seq(Int) /\ Len(w) <= Len(r)
              /\ (\A i \in DOMAIN ss : Len(ss[i]) <= MaxUtf) => w = r /\ w \in Seq(Nat)
              /\ ~ (\A i \in DOMAIN ss : Len(ss[i]) <= MaxUtf) => -1 \in Range(w)
<1> DEFINE a == [i \in DOMAIN ss |-> WriteUtf(ss[i])]
           b == [i \in DOMAIN ss |-> Utf16(ss[i])]
<1>1. \A i \in DOMAIN ss : ss[i] \in Seq(Nat)
  BY SeqElement
<1>2. b \in Seq(Seq(Int)) /\ Joined(b) \in Seq(Int) /\ Len(b) = Len(ss)
  <2>1. b \in [DOMAIN ss -> Seq(Int)]
    BY <1>1, Utf16Int
  <2> QED
    BY <2>1, StringsInt, MappedSeq
<1>3. a \in Seq(Seq(Int)) /\ Len(a) = Len(ss) /\ Joined(a) \in Seq(Int)
  <2>1. a \in [DOMAIN ss -> Seq(Int)]
    BY <1>1, WriteUtfIs
  <2>2. a \in Seq(Seq(Int)) /\ Len(a) = Len(ss)
    BY <2>1, MappedSeq
  <2> QED
    BY <2>2, JoinedInt
<1>4. \A i \in DOMAIN ss : a[i] = WriteUtf(ss[i]) /\ b[i] = Utf16(ss[i])
  OBVIOUS
<1>5. DOMAIN ss = 1 .. Len(ss) /\ DOMAIN a = DOMAIN ss
  OBVIOUS
<1> HIDE DEF a, b
<1>6. Len(Joined(a)) <= Len(Joined(b))
  <2>1. \A i \in 1 .. Len(a) : Len(a[i]) <= Len(b[i])
    BY <1>1, <1>3, <1>4, <1>5, WriteUtfIs
  <2> QED
    BY <1>2, <1>3, <2>1, JoinedShorter
<1>7. ASSUME \A i \in DOMAIN ss : Len(ss[i]) <= MaxUtf
      PROVE  Joined(a) = Joined(b) /\ Joined(a) \in Seq(Nat)
  <2>1. \A i \in DOMAIN ss : WriteUtf(ss[i]) = Utf16(ss[i]) /\ WriteUtf(ss[i]) \in Seq(Nat)
    BY <1>1, <1>7, WriteUtfIs
  <2>2. a = b
    BY <2>1 DEF a, b
  <2>3. a \in [DOMAIN ss -> Seq(Nat)]
    BY <2>1 DEF a
  <2>4. a \in Seq(Seq(Nat))
    BY <2>3, MappedSeq
  <2> QED
    BY <2>2, <2>4, JoinedNat
<1>8. ASSUME NEW i \in DOMAIN ss, ~ (Len(ss[i]) <= MaxUtf)
      PROVE  -1 \in Range(Joined(a))
  <2>1. -1 \in Range(a[i])
    BY <1>1, <1>4, <1>8, WriteUtfIs
  <2> QED
    BY <1>3, <1>5, <2>1, JoinedHasError
<1> QED
  BY <1>2, <1>3, <1>6, <1>7, <1>8 DEF a, b

\* The code of a leaf is what it was read from, but for strings that are too long.
LeafCode(c, v, fits) ==
    /\ c \in Seq(Int) /\ Len(c) >= 1
    /\ Len(c) <= Len(LeafCells(v))
    /\ fits => c = LeafCells(v) /\ c \in Seq(Nat)
    /\ ~ fits => -1 \in Range(c)

LEMMA LeafWritten ==
    ASSUME NEW n \in Nat, NEW v \in Leafs
    PROVE  LeafCode(Tagged[n][v], v, v \in Writable[n])
<1> DEFINE fits == v \in Writable[n]
           p == Payload(v, <<>>)
           r == IF v.tag \in {Null, Bool, Number} THEN v.cells
                ELSE IF v.tag = UtfArray THEN <<Len(v.cells)>> \o Joined([i \in DOMAIN v.cells |-> Utf16(v.cells[i])])
                ELSE Utf16(v.cells)
<1>1. v \in Values[n] /\ v.items = <<>>
  <2>1. v \in Values[n]
    BY LeafsAreValues, Zenon
  <2>2. v.items = <<>>
    BY LeafParts, Zenon
  <2> QED
    BY <2>1, <2>2
<1>2. Tagged[n][v] = <<v.tag>> \o p
  <2>1. Tagged[n] = DeeperTagged(Tagged[n - 1], n)
    BY TaggedIs
  <2>2. [i \in DOMAIN v.items |-> Tagged[n - 1][v.items[i].value]] = <<>>
    BY <1>1
  <2> QED
    BY <1>1, <2>1, <2>2, Zenon DEF DeeperTagged
<1>3. LeafCells(v) = <<v.tag>> \o r
  BY DEF LeafCells
<1>4. v.tag \in Nat
  <2>1. v.tag \in LeafTags \/ v.tag = UtfArray
    BY LeafParts
  <2> QED
    BY <2>1 DEF LeafTags, Null, Bool, Number, Utf, Text, BoolArray, ByteArray, IntArray, UtfArray
<1>5. fits <=> /\ v.tag = Utf => Len(v.cells) <= MaxUtf
               /\ v.tag = UtfArray => \A i \in DOMAIN v.cells : Len(v.cells[i]) <= MaxUtf
  BY LeafsOnce
<1> HIDE DEF fits
<1>6. /\ p \in Seq(Int) /\ r \in Seq(Int) /\ Len(p) <= Len(r)
      /\ fits => p = r /\ p \in Seq(Nat)
      /\ ~ fits => -1 \in Range(p)
  <2>1. CASE v.tag = UtfArray
    <3> DEFINE w == Joined([i \in DOMAIN v.cells |-> WriteUtf(v.cells[i])])
               u == Joined([i \in DOMAIN v.cells |-> Utf16(v.cells[i])])
    <3>1. v.tag \notin LeafTags /\ v.tag \notin {Null, Bool, Number} /\ v.tag # Utf /\ v.tag \notin {Text, BoolArray, ByteArray, IntArray}
      BY <2>1, TagsAre DEF LeafTags
    <3>2. v.cells \in Seq(Seq(Nat))
      BY <3>1, LeafParts
    <3>3. Len(v.cells) \in Nat
      BY <3>2
    <3>4. p = <<Len(v.cells)>> \o w /\ r = <<Len(v.cells)>> \o u
      BY <2>1, <3>1 DEF Payload, Null, Bool, Number, Utf, Text, BoolArray, ByteArray, IntArray, UtfArray, Array, Object
    <3>5. /\ w \in Seq(Int) /\ u \in Seq(Int) /\ Len(w) <= Len(u)
          /\ fits => w = u /\ w \in Seq(Nat)
          /\ ~ fits => -1 \in Range(w)
      BY <1>5, <2>1, <3>1, <3>2, StringsWritten
    <3> HIDE DEF w, u, p, r
    <3>6. Len(p) = Len(w) + 1 /\ p \in Seq(Int) /\ (w \in Seq(Nat) => p \in Seq(Nat)) /\ (-1 \in Range(w) => -1 \in Range(p))
          /\ Len(w) \in Nat
      BY <3>3, <3>4, <3>5, CellBefore
    <3>7. Len(r) = Len(u) + 1 /\ r \in Seq(Int) /\ Len(u) \in Nat
      BY <3>3, <3>4, <3>5, CellBefore
    <3>8. Len(p) <= Len(r)
      BY <3>5, <3>6, <3>7
    <3>9. fits => p = r /\ p \in Seq(Nat)
      BY <3>4, <3>5, <3>6
    <3> QED
      BY <3>5, <3>6, <3>7, <3>8, <3>9
  <2>2. CASE v.tag # UtfArray
    <3>1. v.cells \in Seq(Nat) /\ v.tag \in LeafTags
      BY <2>2, LeafParts
    <3>2. v.cells \in Seq(Int) /\ Utf16(v.cells) \in Seq(Int) /\ Len(Utf16(v.cells)) \in Nat /\ Len(v.cells) \in Nat
      BY <3>1, Utf16Int
    <3>3. CASE v.tag \in {Null, Bool, Number}
      <4>1. v.tag # Utf
        BY <3>3, TagsAre
      <4>2. fits
        BY <1>5, <2>2, <4>1
      <4>3. p = v.cells /\ r = v.cells
        BY <3>3 DEF Payload, Null, Bool, Number, Utf, Text, BoolArray, ByteArray, IntArray, UtfArray, Array, Object
      <4> HIDE DEF p, r
      <4> QED
        BY <3>1, <3>2, <4>2, <4>3
    <3>4. CASE v.tag = Utf
      <4>1. v.tag \notin {Null, Bool, Number}
        BY <3>4, TagsAre
      <4>2. fits <=> Len(v.cells) <= MaxUtf
        BY <1>5, <2>2, <3>4
      <4>3. p = WriteUtf(v.cells) /\ r = Utf16(v.cells)
        BY <2>2, <3>4, <4>1 DEF Payload, Null, Bool, Number, Utf, Text, BoolArray, ByteArray, IntArray, UtfArray, Array, Object
      <4> HIDE DEF p, r
      <4> QED
        BY <3>1, <3>2, <4>2, <4>3, WriteUtfIs
    <3>5. CASE v.tag \in {Text, BoolArray, ByteArray, IntArray}
      <4>1. v.tag \notin {Null, Bool, Number} /\ v.tag # Utf
        BY <3>5 DEF Null, Bool, Number, Utf, Text, BoolArray, ByteArray, IntArray
      <4>2. fits
        BY <1>5, <2>2, <4>1
      <4>3. p = <<Len(v.cells)>> \o v.cells /\ r = Utf16(v.cells)
        <5>1. v.tag # UtfArray /\ v.tag # Array /\ v.tag # Object
          BY <3>5 DEF Text, BoolArray, ByteArray, IntArray, UtfArray, Array, Object
        <5>2. p = <<Len(v.cells)>> \o v.cells
          <6> HIDE DEF fits, r
          <6> QED
            BY <3>5, <4>1, <5>1 DEF Payload
        <5>3. r = Utf16(v.cells)
          BY <4>1, <5>1
        <5> QED
          BY <5>2, <5>3
      <4>4. p = r
        BY <4>3 DEF Utf16
      <4> HIDE DEF p, r
      <4>5. p \in Seq(Nat)
        BY <3>1, <3>2, <4>3
      <4> QED
        BY <3>2, <4>2, <4>3, <4>4, <4>5
    <3> QED
      BY <3>1, <3>3, <3>4, <3>5 DEF LeafTags
  <2> QED
    BY <2>1, <2>2
<1> DEFINE c == Tagged[n][v]
           l == LeafCells(v)
<1> HIDE DEF p, r
<1>7. c \in Seq(Int) /\ Len(c) = Len(p) + 1 /\ Len(p) \in Nat /\ (p \in Seq(Nat) => c \in Seq(Nat)) /\ (-1 \in Range(p) => -1 \in Range(c))
  BY <1>2, <1>4, <1>6, CellBefore
<1>8. Len(l) = Len(r) + 1 /\ Len(r) \in Nat
  BY <1>3, <1>4, <1>6, CellBefore
<1>9. fits => c = l
  BY <1>2, <1>3, <1>6
<1> HIDE DEF c, l
<1>10. Len(c) >= 1 /\ Len(c) <= Len(l)
  BY <1>6, <1>7, <1>8
<1>11. /\ c \in Seq(Int) /\ Len(c) >= 1 /\ Len(c) <= Len(l)
       /\ fits => c = l /\ c \in Seq(Nat)
       /\ ~ fits => -1 \in Range(c)
  BY <1>6, <1>7, <1>9, <1>10
<1> QED
  BY <1>11 DEF LeafCode, c, l, fits

-----------------------------------------------------------------------------
(* What an object or an array is written as. *)

KeyCode(tag, key) == IF tag = Object THEN WriteUtf(key) ELSE <<>>
FitsKey(tag, key) == tag = Object => Len(key) <= MaxUtf
ItemCode(n, tag, x) == KeyCode(tag, x.key) \o Tagged[n][x.value]
CodesOf(n, tag, s) == [i \in DOMAIN s |-> ItemCode(n, tag, s[i])]

\* A code has the mark of an error exactly when a string in it is too long.
Written(c, fits) ==
    /\ c \in Seq(Int) /\ Len(c) >= 1
    /\ fits => c \in Seq(Nat)
    /\ ~ fits => -1 \in Range(c)

WrittenAt(n) == \A v \in Values[n] : Written(Tagged[n][v], v \in Writable[n])

LEMMA KeyIs ==
    ASSUME NEW key \in Keys \cup {<<>>}
    PROVE  key \in Seq(Nat)
<1>1. <<>> \in Seq(Nat)
  OBVIOUS
<1> QED
  BY <1>1, CodecAssumption

LEMMA KeyCodeIs ==
    ASSUME NEW tag, NEW key \in Keys \cup {<<>>}
    PROVE  /\ KeyCode(tag, key) \in Seq(Int)
           /\ FitsKey(tag, key) => KeyCode(tag, key) \in Seq(Nat)
           /\ ~ FitsKey(tag, key) => -1 \in Range(KeyCode(tag, key))
<1>1. key \in Seq(Nat)
  BY KeyIs
<1>2. CASE tag = Object
  <2>1. KeyCode(tag, key) = WriteUtf(key) /\ (FitsKey(tag, key) <=> Len(key) <= MaxUtf)
    BY <1>2 DEF KeyCode, FitsKey
  <2> QED
    BY <1>1, <2>1, WriteUtfIs
<1>3. CASE tag # Object
  <2>1. KeyCode(tag, key) = <<>> /\ FitsKey(tag, key)
    BY <1>3 DEF KeyCode, FitsKey
  <2>2. <<>> \in Seq(Int) /\ <<>> \in Seq(Nat)
    OBVIOUS
  <2> QED
    BY <2>1, <2>2
<1> QED
  BY <1>2, <1>3

LEMMA RowOfTwo ==
    ASSUME NEW p \in Seq(Int), NEW q \in Seq(Int)
    PROVE  /\ p \o q \in Seq(Int) /\ Len(p \o q) = Len(p) + Len(q) /\ Len(p) \in Nat /\ Len(q) \in Nat
           /\ p \in Seq(Nat) /\ q \in Seq(Nat) => p \o q \in Seq(Nat)
           /\ -1 \in Range(p) \/ -1 \in Range(q) => -1 \in Range(p \o q)
<1>1. p \o q \in Seq(Int) /\ Len(p \o q) = Len(p) + Len(q) /\ Len(p) \in Nat /\ Len(q) \in Nat
  OBVIOUS
<1>2. ASSUME p \in Seq(Nat), q \in Seq(Nat)
      PROVE  p \o q \in Seq(Nat)
  BY <1>2
<1>3. -1 \in Range(p) \/ -1 \in Range(q) => -1 \in Range(p \o q)
  BY RangeThen
<1> QED
  BY <1>1, <1>2, <1>3

LEMMA ItemWritten ==
    ASSUME NEW n \in Nat, WrittenAt(n), NEW tag, NEW x \in Pairs(n)
    PROVE  Written(ItemCode(n, tag, x), FitsKey(tag, x.key) /\ x.value \in Writable[n])
<1> DEFINE p == KeyCode(tag, x.key)
           q == Tagged[n][x.value]
           a == FitsKey(tag, x.key)
           b == x.value \in Writable[n]
<1>1. x.key \in Keys \cup {<<>>} /\ x.value \in Values[n]
  BY DEF Pairs
<1>2. p \in Seq(Int) /\ (a => p \in Seq(Nat)) /\ (~ a => -1 \in Range(p))
  BY <1>1, KeyCodeIs
<1>3. q \in Seq(Int) /\ Len(q) >= 1 /\ (b => q \in Seq(Nat)) /\ (~ b => -1 \in Range(q))
  BY <1>1 DEF WrittenAt, Written
<1>4. ItemCode(n, tag, x) = p \o q
  BY DEF ItemCode
<1> HIDE DEF p, q, a, b
<1>5. /\ p \o q \in Seq(Int) /\ Len(p \o q) = Len(p) + Len(q) /\ Len(p) \in Nat /\ Len(q) \in Nat
      /\ p \in Seq(Nat) /\ q \in Seq(Nat) => p \o q \in Seq(Nat)
      /\ -1 \in Range(p) \/ -1 \in Range(q) => -1 \in Range(p \o q)
  BY <1>2, <1>3, RowOfTwo
<1> DEFINE c == p \o q
<1> HIDE DEF c
<1>6. c \in Seq(Int) /\ Len(c) >= 1
  BY <1>3, <1>5 DEF c
<1>7. (a /\ b => c \in Seq(Nat)) /\ (~ (a /\ b) => -1 \in Range(c))
  BY <1>2, <1>3, <1>5, Zenon DEF c
<1>8. Written(c, a /\ b)
  BY <1>6, <1>7 DEF Written
<1> QED
  BY <1>4, <1>8 DEF a, b, c

LEMMA CodesSeq ==
    ASSUME NEW n \in Nat, WrittenAt(n), NEW tag, NEW s \in Seq(Pairs(n))
    PROVE  /\ CodesOf(n, tag, s) \in Seq(Seq(Int)) /\ Len(CodesOf(n, tag, s)) = Len(s) /\ Len(s) \in Nat
           /\ Joined(CodesOf(n, tag, s)) \in Seq(Int)
           /\ \A i \in 1 .. Len(s) : CodesOf(n, tag, s)[i] = ItemCode(n, tag, s[i])
<1>1. \A i \in DOMAIN s : s[i] \in Pairs(n)
  BY SeqElement
<1>2. \A i \in DOMAIN s : ItemCode(n, tag, s[i]) \in Seq(Int)
  BY <1>1, ItemWritten DEF Written
<1>3. CodesOf(n, tag, s) \in [DOMAIN s -> Seq(Int)]
  BY <1>2 DEF CodesOf
<1>4. DOMAIN s = 1 .. Len(s) /\ Len(s) \in Nat
  OBVIOUS
<1>5. CodesOf(n, tag, s) \in Seq(Seq(Int)) /\ Len(CodesOf(n, tag, s)) = Len(s)
  BY <1>3, MappedSeq
<1>6. \A i \in 1 .. Len(s) : CodesOf(n, tag, s)[i] = ItemCode(n, tag, s[i])
  BY <1>4 DEF CodesOf
<1> QED
  BY <1>4, <1>5, <1>6, JoinedInt

LEMMA EmptyThen ==
    ASSUME NEW S, NEW s \in Seq(S)
    PROVE  <<>> \o s = s
OBVIOUS

LEMMA CodesInARow ==
    ASSUME NEW a \in Seq(Int), NEW b \in Seq(Int), NEW c \in Seq(Int)
    PROVE  (a \o b) \o c = a \o (b \o c)
OBVIOUS

LEMMA SameSum ==
    ASSUME NEW a \in Nat, NEW b \in Nat, NEW c, NEW d, c = a + 1, d = b - 1
    PROVE  c + d = a + b
OBVIOUS

LEMMA ContainerItems ==
    ASSUME NEW n \in Nat, NEW v \in Values[n + 1], v.tag \in Containers
    PROVE  /\ v.items \in Seq(Pairs(n)) /\ DOMAIN v.items = 1 .. Len(v.items) /\ Len(v.items) \in Nat
           /\ \A i \in DOMAIN v.items : v.items[i] \in Pairs(n) /\ v.items[i].value \in Values[n] /\ v.items[i].key \in Keys \cup {<<>>}
<1>1. n + 1 \in Nat /\ n + 1 - 1 = n
  OBVIOUS
<1>2. v.items \in Seq(Pairs(n))
  BY <1>1, ItemsSeq DEF Pairs
<1>3. \A i \in DOMAIN v.items : v.items[i] \in Pairs(n)
  BY <1>2, SeqElement
<1> QED
  BY <1>2, <1>3 DEF Pairs

LEMMA OneDeeper == \A n \in Nat : n + 1 \in Nat /\ n + 1 - 1 = n
OBVIOUS

LEMMA ContainerCode ==
    ASSUME NEW n \in Nat, WrittenAt(n), NEW v \in Values[n + 1], v.tag \in Containers
    PROVE  /\ Tagged[n + 1][v] = <<v.tag, Len(v.items)>> \o Joined(CodesOf(n, v.tag, v.items))
           /\ Joined(CodesOf(n, v.tag, v.items)) \in Seq(Int)
<1> DEFINE t == [i \in DOMAIN v.items |-> Tagged[n][v.items[i].value]]
           j == Joined(CodesOf(n, v.tag, v.items))
<1>1. n + 1 \in Nat /\ n + 1 - 1 = n
  BY OneDeeper, Zenon
<1>2. Tagged[n + 1][v] = <<v.tag>> \o Payload(v, t)
  <2>1. Tagged[n + 1] = DeeperTagged(Tagged[n], n + 1)
    BY <1>1, TaggedIs
  <2> QED
    BY <2>1, Zenon DEF DeeperTagged
<1>3. /\ v.items \in Seq(Pairs(n)) /\ Len(v.items) \in Nat
      /\ \A i \in DOMAIN v.items : v.items[i] \in Pairs(n) /\ v.items[i].value \in Values[n]
  BY ContainerItems
<1>4. j \in Seq(Int)
  BY <1>3, CodesSeq
<1>5. Payload(v, t) = <<Len(v.items)>> \o j
  <2>1. CASE v.tag = Array
    <3>1. CodesOf(n, v.tag, v.items) = t
      <4>1. v.tag # Object
        BY <2>1 DEF Array, Object
      <4>2. ASSUME NEW i \in DOMAIN v.items
            PROVE  ItemCode(n, v.tag, v.items[i]) = Tagged[n][v.items[i].value]
        <5>1. Tagged[n][v.items[i].value] \in Seq(Int)
          BY <1>3 DEF WrittenAt, Written
        <5>2. KeyCode(v.tag, v.items[i].key) = <<>>
          BY <4>1 DEF KeyCode
        <5> QED
          BY <5>1, <5>2, EmptyThen DEF ItemCode
      <4> QED
        BY <4>2 DEF CodesOf
    <3>2. Payload(v, t) = <<Len(v.items)>> \o Joined(t)
      BY <2>1 DEF Payload, Null, Bool, Number, Utf, Text, BoolArray, ByteArray, IntArray, UtfArray, Array, Object
    <3> QED
      BY <3>1, <3>2, Zenon
  <2>2. CASE v.tag = Object
    <3>1. CodesOf(n, v.tag, v.items) = [i \in DOMAIN v.items |-> WriteUtf(v.items[i].key) \o t[i]]
      <4>1. \A i \in DOMAIN v.items : t[i] = Tagged[n][v.items[i].value]
        OBVIOUS
      <4> HIDE DEF t
      <4>2. \A i \in DOMAIN v.items : KeyCode(v.tag, v.items[i].key) = WriteUtf(v.items[i].key)
        BY <2>2 DEF KeyCode
      <4>3. \A i \in DOMAIN v.items : ItemCode(n, v.tag, v.items[i]) = WriteUtf(v.items[i].key) \o t[i]
        BY <4>1, <4>2, Zenon DEF ItemCode
      <4> QED
        BY <4>3, Zenon DEF CodesOf
    <3>2. Payload(v, t) = <<Len(v.items)>> \o Joined([i \in DOMAIN v.items |-> WriteUtf(v.items[i].key) \o t[i]])
      <4> DEFINE p == <<Len(v.items)>> \o Joined([i \in DOMAIN v.items |-> WriteUtf(v.items[i].key) \o t[i]])
      <4> HIDE DEF t
      <4>1. /\ v.tag \notin {Null, Bool, Number} /\ v.tag # Utf /\ v.tag \notin {Text, BoolArray, ByteArray, IntArray}
            /\ v.tag # UtfArray /\ v.tag # Array
        BY <2>2 DEF Null, Bool, Number, Utf, Text, BoolArray, ByteArray, IntArray, UtfArray, Array, Object
      <4> QED
        BY <2>2, <4>1 DEF Payload
    <3> QED
      BY <3>1, <3>2, Zenon
  <2> QED
    BY <2>1, <2>2, Zenon DEF Containers
<1>6. v.tag \in Int
  BY DEF Containers, Array, Object
<1> HIDE DEF t, j
<1>7. <<v.tag>> \o (<<Len(v.items)>> \o j) = <<v.tag, Len(v.items)>> \o j
  BY <1>3, <1>4, <1>6
<1> QED
  BY <1>2, <1>4, <1>5, <1>7 DEF j

LEMMA CodesWritten == \A n \in Nat : WrittenAt(n)
<1> DEFINE Bad == {n \in Nat : ~ WrittenAt(n)}
<1>1. SUFFICES ASSUME Bad # {}
               PROVE  FALSE
  OBVIOUS
<1>2. PICK m \in Bad : \A k \in Bad : m <= k
  BY <1>1, Adding!LeastNatural
<1>3. ASSUME NEW v \in Values[m]
      PROVE  Written(Tagged[m][v], v \in Writable[m])
  <2>1. CASE v \in Leafs
    BY <1>2, <2>1, LeafWritten DEF LeafCode, Written
  <2>2. CASE v \notin Leafs
    <3>1. v.tag \in Containers /\ m # 0
      <4>1. m # 0
        BY <2>2, ValuesAre
      <4>2. m - 1 \in Nat /\ m - 1 + 1 = m
        BY <1>2, <4>1
      <4>3. v \in [tag : {Array, Object}, cells : {<<>>}, items : ItemsOf(Values[m - 1])]
        BY <2>2, <4>2, ValuesAre
      <4> QED
        BY <4>1, <4>3 DEF Containers
    <3>2. PICK n \in Nat : m = n + 1
      <4>1. m - 1 \in Nat /\ m = m - 1 + 1
        BY <1>2, <3>1
      <4> QED
        BY <4>1
    <3>3. WrittenAt(n)
      BY <1>2, <3>2
    <3> DEFINE s == v.items
               cs == CodesOf(n, v.tag, s)
               fit(i) == FitsKey(v.tag, s[i].key) /\ s[i].value \in Writable[n]
    <3>4. /\ s \in Seq(Pairs(n)) /\ DOMAIN s = 1 .. Len(s) /\ Len(s) \in Nat
          /\ \A i \in DOMAIN s : s[i] \in Pairs(n) /\ s[i].value \in Values[n] /\ s[i].key \in Keys \cup {<<>>}
      BY <3>1, <3>2, ContainerItems
    <3>5. Tagged[m][v] = <<v.tag, Len(s)>> \o Joined(cs)
      BY <3>1, <3>2, <3>3, ContainerCode
    <3>6. cs \in Seq(Seq(Int)) /\ Len(cs) = Len(s) /\ Joined(cs) \in Seq(Int) /\ \A i \in 1 .. Len(s) : cs[i] = ItemCode(n, v.tag, s[i])
      BY <3>3, <3>4, CodesSeq
    <3>7. v \in Writable[m] <=> \A i \in DOMAIN s : fit(i)
      <4>1. v \in Writable[m]
              <=> /\ v.tag = Object => \A i \in DOMAIN v.items : Len(v.items[i].key) <= MaxUtf
                  /\ \A i \in DOMAIN v.items : v.items[i].value \in Writable[n]
        BY <3>1, <3>2, ContainerOnce
      <4>2. (v.tag = Object => \A i \in DOMAIN v.items : Len(v.items[i].key) <= MaxUtf)
              <=> \A i \in DOMAIN v.items : FitsKey(v.tag, v.items[i].key)
        BY DEF FitsKey
      <4> QED
        BY <4>1, <4>2, Zenon
    <3> HIDE DEF s, cs, fit
    <3>8. ASSUME NEW i \in DOMAIN s
          PROVE  Written(cs[i], fit(i))
      <4>1. Written(ItemCode(n, v.tag, s[i]), FitsKey(v.tag, s[i].key) /\ s[i].value \in Writable[n])
        BY <3>3, <3>4, ItemWritten, Zenon
      <4>2. cs[i] = ItemCode(n, v.tag, s[i])
        BY <3>4, <3>6
      <4> QED
        BY <4>1, <4>2, Zenon DEF fit
    <3>9. ASSUME v \in Writable[m]
          PROVE  Joined(cs) \in Seq(Nat)
      <4>1. \A i \in DOMAIN cs : cs[i] \in Seq(Nat)
        <5>1. DOMAIN cs = DOMAIN s
          BY <3>4, <3>6
        <5> QED
          BY <3>7, <3>8, <3>9, <5>1 DEF Written
      <4>2. cs \in Seq(Seq(Nat))
        BY <3>6, <4>1
      <4> QED
        BY <4>2, JoinedNat
    <3>10. ASSUME v \notin Writable[m]
           PROVE  -1 \in Range(Joined(cs))
      <4>1. PICK i \in DOMAIN s : ~ fit(i)
        BY <3>7, <3>10
      <4>2. -1 \in Range(cs[i]) /\ i \in DOMAIN cs
        BY <3>4, <3>6, <3>8, <4>1 DEF Written
      <4> QED
        BY <3>6, <4>2, JoinedHasError
    <3> DEFINE h == <<v.tag, Len(s)>>
               j == Joined(cs)
    <3>11. h \in Seq(Int) /\ h \in Seq(Nat) /\ Len(h) = 2
      <4>1. v.tag \in Nat
        BY <3>1 DEF Containers, Array, Object
      <4> QED
        BY <3>4, <4>1
    <3> HIDE DEF h, j
    <3>12. j \in Seq(Int) /\ Tagged[m][v] = h \o j
      BY <3>5, <3>6 DEF h, j
    <3>13. /\ h \o j \in Seq(Int) /\ Len(h \o j) = Len(h) + Len(j) /\ Len(j) \in Nat
           /\ j \in Seq(Nat) => h \o j \in Seq(Nat)
           /\ -1 \in Range(j) => -1 \in Range(h \o j)
      BY <3>11, <3>12, RowOfTwo
    <3> DEFINE c == h \o j
    <3> HIDE DEF c
    <3>14. c \in Seq(Int) /\ Len(c) >= 1
      BY <3>11, <3>13 DEF c
    <3>15. Written(c, v \in Writable[m])
      BY <3>9, <3>10, <3>13, <3>14 DEF Written, c, j
    <3> QED
      BY <3>12, <3>15 DEF c
  <2> QED
    BY <2>1, <2>2
<1> QED
  BY <1>2, <1>3 DEF WrittenAt

-----------------------------------------------------------------------------
(* The codes of what is being read. *)

FrameCode(n, f) == <<f.tag, Len(f.items) + f.left>> \o Joined(CodesOf(n, f.tag, f.items))

FrameFits(n, f) == FrameValue(f) \in Writable[n + 1]
FrameOnce(n, f) == FrameValue(f) \in KeysOnce[n + 1]

LEMMA FrameParts ==
    ASSUME NEW n \in Nat, NEW f \in Frames(n)
    PROVE  /\ f.tag \in Containers /\ f.left \in Nat /\ f.key \in Keys \cup {<<>>} /\ f.items \in Seq(Pairs(n)) /\ Len(f.items) \in Nat
           /\ DOMAIN f.items = 1 .. Len(f.items)
           /\ \A i \in DOMAIN f.items : f.items[i] \in Pairs(n)
           /\ FrameValue(f).tag = f.tag /\ FrameValue(f).items = f.items
           /\ FrameValue(f) \in Values[n + 1]
<1>1. f.items \in Seq(Pairs(n))
  BY DEF Frames, ItemsOf, Pairs
<1>2. f.tag \in Containers /\ f.left \in Nat /\ f.key \in Keys \cup {<<>>}
  BY DEF Frames
<1>3. FrameValue(f).tag = f.tag /\ FrameValue(f).items = f.items
  BY DEF FrameValue, Value
<1>4. FrameValue(f) \in Values[n + 1]
  BY FrameIsValue
<1>5. DOMAIN f.items = 1 .. Len(f.items) /\ Len(f.items) \in Nat
  BY <1>1
<1>6. \A i \in DOMAIN f.items : f.items[i] \in Pairs(n)
  BY <1>1, SeqElement
<1> QED
  BY <1>1, <1>2, <1>3, <1>4, <1>5, <1>6

LEMMA FrameOnceIs ==
    ASSUME NEW n \in Nat, NEW f \in Frames(n)
    PROVE  /\ FrameOnce(n, f) <=>
                /\ f.tag = Object => \A i, j \in DOMAIN f.items : f.items[i].key = f.items[j].key => i = j
                /\ \A i \in DOMAIN f.items : f.items[i].value \in KeysOnce[n]
           /\ FrameFits(n, f) <=>
                /\ f.tag = Object => \A i \in DOMAIN f.items : Len(f.items[i].key) <= MaxUtf
                /\ \A i \in DOMAIN f.items : f.items[i].value \in Writable[n]
<1> DEFINE v == FrameValue(f)
<1>1. v \in Values[n + 1] /\ v.tag = f.tag /\ v.items = f.items /\ v.tag \in Containers
  BY FrameParts
<1> HIDE DEF v
<1>2. /\ v \in KeysOnce[n + 1]
                <=> /\ v.tag = Object => \A i, j \in DOMAIN v.items : v.items[i].key = v.items[j].key => i = j
                    /\ \A i \in DOMAIN v.items : v.items[i].value \in KeysOnce[n]
      /\ v \in Writable[n + 1]
                <=> /\ v.tag = Object => \A i \in DOMAIN v.items : Len(v.items[i].key) <= MaxUtf
                    /\ \A i \in DOMAIN v.items : v.items[i].value \in Writable[n]
  BY <1>1, ContainerOnce
<1> QED
  BY <1>1, <1>2, Zenon DEF FrameOnce, FrameFits, v

LEMMA FrameCodeIs ==
    ASSUME NEW n \in Nat, NEW f \in Frames(n)
    PROVE  /\ FrameCode(n, f) \in Seq(Int) /\ Len(FrameCode(n, f)) \in Nat
           /\ <<f.tag, Len(f.items) + f.left>> \in Seq(Int)
           /\ Joined(CodesOf(n, f.tag, f.items)) \in Seq(Int)
           /\ f.left = 0 => FrameCode(n, f) = Tagged[n + 1][FrameValue(f)]
<1>1. /\ f.tag \in Containers /\ f.left \in Nat /\ f.items \in Seq(Pairs(n)) /\ Len(f.items) \in Nat
      /\ FrameValue(f).tag = f.tag /\ FrameValue(f).items = f.items
      /\ FrameValue(f) \in Values[n + 1]
  BY FrameParts
<1>2. f.tag \in Int
  BY <1>1 DEF Containers, Array, Object
<1>3. WrittenAt(n)
  BY CodesWritten
<1> DEFINE h == <<f.tag, Len(f.items) + f.left>>
           j == Joined(CodesOf(n, f.tag, f.items))
<1>4. j \in Seq(Int)
  BY <1>1, <1>3, CodesSeq
<1>5. h \in Seq(Int)
  BY <1>1, <1>2
<1>6. FrameCode(n, f) = h \o j
  BY DEF FrameCode
<1>7. f.left = 0 => h = <<f.tag, Len(f.items)>>
  BY <1>1
<1> HIDE DEF h
<1>8. Tagged[n + 1][FrameValue(f)] = <<f.tag, Len(f.items)>> \o j
  <2> DEFINE v == FrameValue(f)
  <2>1. v \in Values[n + 1] /\ v.tag = f.tag /\ v.items = f.items /\ v.tag \in Containers
    BY <1>1
  <2> HIDE DEF v, j
  <2>2. Tagged[n + 1][v] = <<v.tag, Len(v.items)>> \o Joined(CodesOf(n, v.tag, v.items))
    BY <1>3, <2>1, ContainerCode
  <2> QED
    BY <2>1, <2>2, Zenon DEF v, j
<1> HIDE DEF j
<1>9. h \o j \in Seq(Int) /\ Len(h \o j) \in Nat
  BY <1>4, <1>5
<1> QED
  BY <1>4, <1>5, <1>6, <1>7, <1>8, <1>9 DEF h, j

\* What a value that goes into a frame does to its code.
LEMMA PutCode ==
    ASSUME NEW n \in Nat, NEW f \in Frames(n), f.left > 0, NEW key \in Keys \cup {<<>>}, NEW v \in Values[n]
    PROVE  LET g == PutItem(f, key, v)
               c == ItemCode(n, f.tag, Item(key, v))
           IN /\ c \in Seq(Int) /\ Len(c) \in Nat
              /\ ~ HasKey(f, key) => FrameCode(n, g) = FrameCode(n, f) \o c
              /\ HasKey(f, key) => Len(FrameCode(n, g)) < Len(FrameCode(n, f)) + Len(c)
<1> DEFINE g == PutItem(f, key, v)
           x == Item(key, v)
           c == ItemCode(n, f.tag, x)
           cs == CodesOf(n, f.tag, f.items)
           ds == CodesOf(n, f.tag, g.items)
<1>0. WrittenAt(n)
  BY CodesWritten
<1>1. f.tag \in Containers /\ f.left \in Nat /\ f.items \in Seq(Pairs(n)) /\ Len(f.items) \in Nat
      /\ DOMAIN f.items = 1 .. Len(f.items)
  BY FrameParts
<1>2. x \in Pairs(n)
  BY DEF Item, Pairs
<1>3. c \in Seq(Int) /\ Len(c) \in Nat
  <2>1. c \in Seq(Int)
    BY <1>0, <1>2, ItemWritten DEF Written
  <2> HIDE DEF c
  <2> QED
    BY <2>1
<1>4. g \in Frames(n) /\ g.tag = f.tag /\ g.left = f.left - 1
  BY PutKeeps
<1>5. g.items \in Seq(Pairs(n)) /\ Len(g.items) \in Nat
  BY <1>4, FrameParts
<1>6. /\ cs \in Seq(Seq(Int)) /\ Len(cs) = Len(f.items) /\ Joined(cs) \in Seq(Int)
      /\ \A i \in 1 .. Len(f.items) : cs[i] = ItemCode(n, f.tag, f.items[i])
  BY <1>0, <1>1, CodesSeq
<1>7. /\ ds \in Seq(Seq(Int)) /\ Len(ds) = Len(g.items) /\ Joined(ds) \in Seq(Int)
      /\ \A i \in 1 .. Len(g.items) : ds[i] = ItemCode(n, f.tag, g.items[i])
  BY <1>0, <1>5, CodesSeq
<1> DEFINE h == <<f.tag, Len(f.items) + f.left>>
           k == <<g.tag, Len(g.items) + g.left>>
<1>8. FrameCode(n, f) = h \o Joined(cs) /\ FrameCode(n, g) = k \o Joined(ds)
  BY <1>4 DEF FrameCode
<1>9. h \in Seq(Int) /\ k \in Seq(Int) /\ Len(h) = 2 /\ Len(k) = 2
  <2>1. f.tag \in Int /\ g.tag \in Int
    BY <1>1, <1>4 DEF Containers, Array, Object
  <2>2. g.left \in Nat
    BY <1>4, FrameParts
  <2> HIDE DEF g
  <2> QED
    BY <1>1, <1>5, <2>1, <2>2
<1>10. ASSUME ~ HasKey(f, key)
       PROVE  FrameCode(n, g) = FrameCode(n, f) \o c
  <2>1. g.items = Append(f.items, x)
    BY <1>10, PutNew
  <2> HIDE DEF g, x
  <2>2. Len(g.items) = Len(f.items) + 1 /\ g.items[Len(f.items) + 1] = x /\ \A i \in 1 .. Len(f.items) : g.items[i] = f.items[i]
    BY <1>1, <1>2, <2>1
  <2>3. h = k
    <3>1. Len(g.items) + g.left = Len(f.items) + f.left
      <4> DEFINE a == Len(f.items)
                 b == f.left
                 p == Len(g.items)
                 q == g.left
      <4>1. a \in Nat /\ b \in Nat /\ p = a + 1 /\ q = b - 1
        BY <1>1, <1>4, <2>2, Zenon
      <4> HIDE DEF a, b, p, q
      <4>2. p + q = a + b
        BY <4>1, SameSum
      <4> QED
        BY <4>2 DEF a, b, p, q
    <3> QED
      BY <1>4, <3>1, Zenon
  <2>4. ds[Len(cs) + 1] = c
    <3>1. Len(cs) + 1 = Len(f.items) + 1 /\ Len(f.items) + 1 \in 1 .. Len(g.items)
      BY <1>1, <1>6, <2>2
    <3>2. ds[Len(f.items) + 1] = ItemCode(n, f.tag, g.items[Len(f.items) + 1])
      BY <1>7, <3>1
    <3> QED
      BY <2>2, <3>1, <3>2, Zenon
  <2>5. ASSUME NEW i \in 1 .. Len(f.items)
        PROVE  ds[i] = cs[i]
    <3>1. i \in 1 .. Len(g.items)
      BY <1>1, <2>2
    <3>2. g.items[i] = f.items[i]
      BY <2>2, Zenon
    <3> QED
      BY <1>6, <1>7, <3>1, <3>2, Zenon
  <2>6. Len(ds) = Len(cs) + 1
    BY <1>6, <1>7, <2>2
  <2> HIDE DEF c, cs, ds, h, k
  <2>7. ds = Append(cs, c)
    BY <1>3, <1>6, <1>7, <2>4, <2>5, <2>6, AppendIs
  <2>8. Joined(ds) = Joined(cs) \o c
    BY <1>3, <1>6, <2>7, JoinedSteps
  <2>9. h \o (Joined(cs) \o c) = (h \o Joined(cs)) \o c
    <3> DEFINE j == Joined(cs)
    <3>1. j \in Seq(Int)
      BY <1>6
    <3> HIDE DEF j
    <3>2. h \o (j \o c) = (h \o j) \o c
      BY <1>3, <1>9, <3>1, CodesInARow
    <3> QED
      BY <3>2 DEF j
  <2> QED
    BY <1>8, <2>3, <2>8, <2>9
<1>11. ASSUME HasKey(f, key)
       PROVE  Len(FrameCode(n, g)) < Len(FrameCode(n, f)) + Len(c)
  <2>0. Replaces(g.items, f.items, key, x)
    BY <1>11, PutOld
  <2>1. PICK m \in 1 .. Len(f.items) : g.items = [f.items EXCEPT ![m] = x]
    BY <2>0 DEF Replaces
  <2> HIDE DEF g, x
  <2>2. Len(g.items) = Len(f.items) /\ g.items[m] = x /\ \A i \in 1 .. Len(f.items) : i # m => g.items[i] = f.items[i]
    BY <1>1, <1>2, <2>1
  <2>3. m \in 1 .. Len(cs) /\ Len(ds) = Len(cs) /\ ds[m] = c
    BY <1>6, <1>7, <2>2
  <2>4. \A i \in 1 .. Len(cs) : i # m => ds[i] = cs[i]
    BY <1>6, <1>7, <2>2
  <2>5. Len(cs[m]) >= 1
    <3>1. f.items[m] \in Pairs(n)
      BY <1>1
    <3>2. Len(ItemCode(n, f.tag, f.items[m])) >= 1
      BY <1>0, <3>1, ItemWritten DEF Written
    <3>3. cs[m] = ItemCode(n, f.tag, f.items[m])
      BY <1>6
    <3> HIDE DEF cs
    <3> QED
      BY <3>2, <3>3, Zenon
  <2> HIDE DEF c, cs, ds, h, k
  <2>6. Len(Joined(ds)) + Len(cs[m]) = Len(Joined(cs)) + Len(ds[m]) /\ Len(cs[m]) \in Nat
        /\ Len(Joined(cs)) \in Nat /\ Len(Joined(ds)) \in Nat
    BY <1>6, <1>7, <2>3, <2>4, JoinedChange
  <2>7. Len(FrameCode(n, f)) = 2 + Len(Joined(cs)) /\ Len(FrameCode(n, g)) = 2 + Len(Joined(ds))
    <3>1. Len(h \o Joined(cs)) = Len(h) + Len(Joined(cs)) /\ Len(k \o Joined(ds)) = Len(k) + Len(Joined(ds))
      BY <1>6, <1>7, <1>9, RowOfTwo
    <3> QED
      BY <1>8, <1>9, <3>1
  <2> QED
    BY <1>3, <2>3, <2>5, <2>6, <2>7
<1> QED
  BY <1>3, <1>10, <1>11 DEF g, c, x

\* Each key of a frame stays there once, and what can be written could be before.
LEMMA PutOnce ==
    ASSUME NEW n \in Nat, NEW f \in Frames(n), f.left > 0, NEW key \in Keys \cup {<<>>}, NEW v \in Values[n]
    PROVE  /\ FrameOnce(n, f) /\ v \in KeysOnce[n] => FrameOnce(n, PutItem(f, key, v))
           /\ ~ HasKey(f, key) /\ FrameFits(n, PutItem(f, key, v)) =>
                FrameFits(n, f) /\ FitsKey(f.tag, key) /\ v \in Writable[n]
<1> DEFINE g == PutItem(f, key, v)
           x == Item(key, v)
<1>1. f.tag \in Containers /\ f.items \in Seq(Pairs(n)) /\ Len(f.items) \in Nat
      /\ DOMAIN f.items = 1 .. Len(f.items)
  BY FrameParts
<1>2. x \in Pairs(n) /\ x.key = key /\ x.value = v
  BY DEF Item, Pairs
<1>3. g \in Frames(n) /\ g.tag = f.tag
  BY PutKeeps
<1>4. DOMAIN g.items = 1 .. Len(g.items)
  BY <1>3, FrameParts
<1>5. /\ FrameOnce(n, g) <=>
                /\ f.tag = Object => \A i, j \in 1 .. Len(g.items) : g.items[i].key = g.items[j].key => i = j
                /\ \A i \in 1 .. Len(g.items) : g.items[i].value \in KeysOnce[n]
      /\ FrameFits(n, g) <=>
                /\ f.tag = Object => \A i \in 1 .. Len(g.items) : Len(g.items[i].key) <= MaxUtf
                /\ \A i \in 1 .. Len(g.items) : g.items[i].value \in Writable[n]
  <2> HIDE DEF g
  <2>1. /\ FrameOnce(n, g) <=>
                /\ g.tag = Object => \A i, j \in DOMAIN g.items : g.items[i].key = g.items[j].key => i = j
                /\ \A i \in DOMAIN g.items : g.items[i].value \in KeysOnce[n]
        /\ FrameFits(n, g) <=>
                /\ g.tag = Object => \A i \in DOMAIN g.items : Len(g.items[i].key) <= MaxUtf
                /\ \A i \in DOMAIN g.items : g.items[i].value \in Writable[n]
    BY <1>3, FrameOnceIs
  <2> QED
    BY <1>3, <1>4, <2>1, Zenon
<1>6. /\ FrameOnce(n, f) <=>
                /\ f.tag = Object => \A i, j \in 1 .. Len(f.items) : f.items[i].key = f.items[j].key => i = j
                /\ \A i \in 1 .. Len(f.items) : f.items[i].value \in KeysOnce[n]
      /\ FrameFits(n, f) <=>
                /\ f.tag = Object => \A i \in 1 .. Len(f.items) : Len(f.items[i].key) <= MaxUtf
                /\ \A i \in 1 .. Len(f.items) : f.items[i].value \in Writable[n]
  BY <1>1, FrameOnceIs
<1>7. CASE ~ HasKey(f, key)
  <2>1. g.items = Append(f.items, x)
    BY <1>7, PutNew
  <2>2. f.tag = Object => \A i \in 1 .. Len(f.items) : f.items[i].key # key
    BY <1>1, <1>7 DEF HasKey
  <2> HIDE DEF g, x
  <2> DEFINE e == Len(f.items) + 1
  <2>3. /\ Len(g.items) = e /\ g.items[e] = x /\ \A i \in 1 .. Len(f.items) : g.items[i] = f.items[i]
        /\ \A i \in 1 .. e : i \in 1 .. Len(f.items) \/ i = e
        /\ \A i \in 1 .. Len(f.items) : i \in 1 .. e
        /\ e \in 1 .. e
    BY <1>1, <1>2, <2>1
  <2> HIDE DEF e
  <2>4. ASSUME FrameOnce(n, f), v \in KeysOnce[n]
        PROVE  FrameOnce(n, g)
    <3>1. \A i \in 1 .. Len(g.items) : g.items[i].value \in KeysOnce[n]
      BY <1>2, <1>6, <2>3, <2>4
    <3>2. ASSUME f.tag = Object, NEW i \in 1 .. Len(g.items), NEW j \in 1 .. Len(g.items), g.items[i].key = g.items[j].key
          PROVE  i = j
      BY <1>2, <1>6, <2>2, <2>3, <2>4, <3>2
    <3> QED
      BY <1>5, <3>1, <3>2, Zenon
  <2>5. ASSUME FrameFits(n, g)
        PROVE  FrameFits(n, f) /\ FitsKey(f.tag, key) /\ v \in Writable[n]
    <3>1. v \in Writable[n] /\ \A i \in 1 .. Len(f.items) : f.items[i].value \in Writable[n]
      BY <1>2, <1>5, <2>3, <2>5
    <3>2. f.tag = Object => Len(key) <= MaxUtf /\ \A i \in 1 .. Len(f.items) : Len(f.items[i].key) <= MaxUtf
      BY <1>2, <1>5, <2>3, <2>5
    <3>3. FrameFits(n, f)
      BY <1>6, <3>1, <3>2, Zenon
    <3> QED
      BY <3>1, <3>2, <3>3 DEF FitsKey
  <2> QED
    BY <2>4, <2>5 DEF g
<1>8. CASE HasKey(f, key)
  <2>1. PICK m \in 1 .. Len(f.items) : f.items[m].key = key /\ g.items = [f.items EXCEPT ![m] = x]
    <3>1. Replaces(g.items, f.items, key, x)
      BY <1>8, PutOld
    <3> HIDE DEF g, x
    <3> QED
      BY <3>1 DEF Replaces
  <2> HIDE DEF g, x
  <2>2. Len(g.items) = Len(f.items) /\ g.items[m] = x /\ \A i \in 1 .. Len(f.items) : i # m => g.items[i] = f.items[i]
    BY <1>1, <1>2, <2>1
  <2>3. ASSUME FrameOnce(n, f), v \in KeysOnce[n]
        PROVE  FrameOnce(n, g)
    <3>1. \A i \in 1 .. Len(g.items) : g.items[i].value \in KeysOnce[n]
      BY <1>2, <1>6, <2>2, <2>3
    <3>2. \A i \in 1 .. Len(f.items) : g.items[i].key = f.items[i].key
      BY <1>2, <2>1, <2>2
    <3>3. f.tag = Object => \A i, j \in 1 .. Len(g.items) : g.items[i].key = g.items[j].key => i = j
      BY <1>6, <2>2, <2>3, <3>2
    <3> QED
      BY <1>5, <3>1, <3>3, Zenon
  <2> QED
    BY <1>8, <2>3 DEF g
<1> QED
  BY <1>7, <1>8

\* The frames of a stack in a row: each after the code of the key it goes under.
Before(st, d) == IF d = 1 THEN <<>> ELSE KeyCode(st[d - 1].tag, st[d].key)
RowsOf(st) == [d \in DOMAIN st |-> Before(st, d) \o FrameCode(Level(d), st[d])]
Row(st) == Joined(RowsOf(st))

RowOnce(st) == \A d \in 1 .. Len(st) : FrameOnce(Level(d), st[d])

\* Every string in the stack can be written.
RowFits(st) ==
    \A d \in 1 .. Len(st) : FrameFits(Level(d), st[d]) /\ (d # 1 => FitsKey(st[d - 1].tag, st[d].key))

LEMMA StackedParts ==
    ASSUME NEW st, Stacked(st)
    PROVE  /\ st \in Seq(AnyFrame) /\ Len(st) \in Nat /\ DOMAIN st = 1 .. Len(st)
           /\ \A d \in 1 .. Len(st) : Level(d) \in Nat /\ st[d] \in Frames(Level(d)) /\ st[d].key \in Keys \cup {<<>>}
<1>1. st \in Seq(AnyFrame) /\ Len(st) <= MaxNestDepth /\ \A d \in 1 .. Len(st) : st[d] \in Frames(Level(d))
  BY DEF Stacked
<1>2. Len(st) \in Nat /\ DOMAIN st = 1 .. Len(st)
  BY <1>1
<1>3. \A d \in 1 .. Len(st) : Level(d) \in Nat
  BY <1>1, <1>2, LevelNat, CodecAssumption
<1>4. \A d \in 1 .. Len(st) : st[d].key \in Keys \cup {<<>>}
  BY <1>1 DEF Frames
<1> QED
  BY <1>1, <1>2, <1>3, <1>4

LEMMA BeforeInt ==
    ASSUME NEW st, Stacked(st), NEW d \in 1 .. Len(st)
    PROVE  Before(st, d) \in Seq(Int) /\ FrameCode(Level(d), st[d]) \in Seq(Int)
<1>1. Level(d) \in Nat /\ st[d] \in Frames(Level(d)) /\ st[d].key \in Keys \cup {<<>>}
  BY StackedParts
<1>2. <<>> \in Seq(Int)
  OBVIOUS
<1> QED
  BY <1>1, <1>2, KeyCodeIs, FrameCodeIs DEF Before

LEMMA RowsSeq ==
    ASSUME NEW st, Stacked(st)
    PROVE  /\ RowsOf(st) \in Seq(Seq(Int)) /\ Len(RowsOf(st)) = Len(st) /\ Len(st) \in Nat
           /\ \A d \in 1 .. Len(st) : RowsOf(st)[d] = Before(st, d) \o FrameCode(Level(d), st[d])
           /\ Row(st) \in Seq(Int)
<1>1. st \in Seq(AnyFrame) /\ Len(st) \in Nat /\ DOMAIN st = 1 .. Len(st)
  BY StackedParts
<1>2. \A d \in DOMAIN st : Before(st, d) \o FrameCode(Level(d), st[d]) \in Seq(Int)
  BY <1>1, BeforeInt, RowOfTwo
<1>3. RowsOf(st) \in [DOMAIN st -> Seq(Int)]
  BY <1>2 DEF RowsOf
<1>4. RowsOf(st) \in Seq(Seq(Int)) /\ Len(RowsOf(st)) = Len(st)
  BY <1>1, <1>3, MappedSeq
<1>5. \A d \in 1 .. Len(st) : RowsOf(st)[d] = Before(st, d) \o FrameCode(Level(d), st[d])
  BY <1>1 DEF RowsOf
<1> QED
  BY <1>1, <1>4, <1>5, JoinedInt DEF Row

\* The code of the key that the next frame goes under.
HeadCode(st, key) == IF st = <<>> THEN <<>> ELSE KeyCode(Last(st).tag, key)
HeadFits(st, key) == st # <<>> => FitsKey(Last(st).tag, key)

LEMMA RowAppend ==
    ASSUME NEW st, Stacked(st), NEW f \in AnyFrame, Stacked(Append(st, f))
    PROVE  /\ Row(Append(st, f)) = Row(st) \o (HeadCode(st, f.key) \o FrameCode(Level(Len(st) + 1), f))
           /\ HeadCode(st, f.key) \in Seq(Int) /\ FrameCode(Level(Len(st) + 1), f) \in Seq(Int) /\ Row(st) \in Seq(Int)
           /\ RowFits(Append(st, f)) <=> RowFits(st) /\ FrameFits(Level(Len(st) + 1), f) /\ HeadFits(st, f.key)
           /\ RowOnce(Append(st, f)) <=> RowOnce(st) /\ FrameOnce(Level(Len(st) + 1), f)
<1> DEFINE t == Append(st, f)
           e == Len(st) + 1
           w == HeadCode(st, f.key) \o FrameCode(Level(e), f)
<1>1. st \in Seq(AnyFrame) /\ Len(st) \in Nat
  BY StackedParts
<1>2. t \in Seq(AnyFrame) /\ Len(t) = e /\ t[e] = f /\ \A d \in 1 .. Len(st) : t[d] = st[d]
  BY <1>1
<1>3. /\ \A d \in 1 .. Len(st) : d \in 1 .. e /\ (d # 1 => d - 1 \in 1 .. Len(st))
      /\ e \in 1 .. e
      /\ \A d \in 1 .. e : d \in 1 .. Len(st) \/ d = e
      /\ e # 1 <=> st # <<>>
      /\ e # 1 => Len(st) \in 1 .. Len(st) /\ Last(st) = st[Len(st)] /\ e - 1 = Len(st)
  BY <1>1 DEF Last
<1> HIDE DEF t, e
<1>4. Before(t, e) = HeadCode(st, f.key)
  BY <1>2, <1>3 DEF Before, HeadCode
<1>5. \A d \in 1 .. Len(st) : Before(t, d) = Before(st, d)
  BY <1>2, <1>3 DEF Before
<1>6. HeadCode(st, f.key) \in Seq(Int) /\ FrameCode(Level(e), f) \in Seq(Int)
  <2>1. Stacked(t)
    BY DEF t
  <2> QED
    BY <1>2, <1>3, <1>4, <2>1, BeforeInt
<1>7. Row(t) = Row(st) \o w /\ Row(st) \in Seq(Int)
  <2> DEFINE a == RowsOf(st)
             b == RowsOf(t)
  <2>1. Stacked(t)
    BY DEF t
  <2>2. /\ a \in Seq(Seq(Int)) /\ Len(a) = Len(st) /\ Row(st) \in Seq(Int)
        /\ \A d \in 1 .. Len(st) : a[d] = Before(st, d) \o FrameCode(Level(d), st[d])
    BY RowsSeq
  <2>3. /\ b \in Seq(Seq(Int)) /\ Len(b) = e
        /\ \A d \in 1 .. e : b[d] = Before(t, d) \o FrameCode(Level(d), t[d])
    BY <1>2, <2>1, RowsSeq
  <2>4. w \in Seq(Int)
    BY <1>6, RowOfTwo
  <2>5. b[e] = w
    BY <1>2, <1>3, <1>4, <2>3
  <2> HIDE DEF a, b, w
  <2>6. ASSUME NEW d \in 1 .. Len(a)
        PROVE  b[d] = a[d]
    <3>1. d \in 1 .. Len(st) /\ d \in 1 .. e
      BY <1>3, <2>2
    <3>2. t[d] = st[d] /\ Before(t, d) = Before(st, d)
      BY <1>2, <1>5, <3>1, Zenon
    <3>3. a[d] = Before(st, d) \o FrameCode(Level(d), st[d]) /\ b[d] = Before(t, d) \o FrameCode(Level(d), t[d])
      BY <2>2, <2>3, <3>1, Zenon
    <3> QED
      BY <3>2, <3>3, Zenon
  <2>7. Len(b) = Len(a) + 1 /\ b[Len(a) + 1] = w
    BY <2>2, <2>3, <2>5 DEF e
  <2>8. b = Append(a, w)
    BY <2>2, <2>3, <2>4, <2>6, <2>7, AppendIs
  <2>9. Joined(b) = Joined(a) \o w
    BY <2>2, <2>4, <2>8, JoinedSteps
  <2> QED
    BY <2>2, <2>9 DEF Row, a, b
<1>8. RowOnce(t) <=> RowOnce(st) /\ FrameOnce(Level(e), f)
  BY <1>2, <1>3 DEF RowOnce
<1>9. RowFits(t) <=> RowFits(st) /\ FrameFits(Level(e), f) /\ HeadFits(st, f.key)
  <2> DEFINE At(u, d) == FrameFits(Level(d), u[d]) /\ (d # 1 => FitsKey(u[d - 1].tag, u[d].key))
  <2>1. \A d \in 1 .. Len(st) : At(t, d) <=> At(st, d)
    BY <1>2, <1>3
  <2>2. At(t, e) <=> FrameFits(Level(e), f) /\ HeadFits(st, f.key)
    BY <1>2, <1>3 DEF HeadFits
  <2>3. RowFits(t) <=> \A d \in 1 .. e : At(t, d)
    BY <1>2 DEF RowFits
  <2>4. RowFits(st) <=> \A d \in 1 .. Len(st) : At(st, d)
    BY DEF RowFits
  <2> HIDE DEF At
  <2> QED
    BY <1>3, <2>1, <2>2, <2>3, <2>4
<1> QED
  BY <1>6, <1>7, <1>8, <1>9 DEF t, e, w

LEMMA ThreeLens ==
    ASSUME NEW a \in Seq(Int), NEW b \in Seq(Int), NEW c \in Seq(Int)
    PROVE  Len(a \o (b \o c)) = Len(a) + Len(b) + Len(c) /\ a \o (b \o c) \in Seq(Int)
           /\ Len(a) \in Nat /\ Len(b) \in Nat /\ Len(c) \in Nat
<1>1. b \o c \in Seq(Int) /\ Len(b \o c) = Len(b) + Len(c) /\ Len(b) \in Nat /\ Len(c) \in Nat /\ Len(a) \in Nat
  OBVIOUS
<1> DEFINE d == b \o c
<1> HIDE DEF d
<1>2. a \o d \in Seq(Int) /\ Len(a \o d) = Len(a) + Len(d)
  BY <1>1 DEF d
<1> QED
  BY <1>1, <1>2 DEF d

\* What a value that goes into the last frame does to the row.
TookFrame(st, key, v) == Append(Front(st), PutItem(Last(st), key, v))
TookCode(st, key, v) == ItemCode(Level(Len(st)), Last(st).tag, Item(key, v))

LEMMA TookRow ==
    ASSUME NEW st, Stacked(st), st # <<>>, Last(st).left > 0,
           NEW key \in Keys \cup {<<>>}, NEW v \in Values[Level(Len(st))]
    PROVE  /\ TookCode(st, key, v) \in Seq(Int) /\ Row(st) \in Seq(Int) /\ Row(TookFrame(st, key, v)) \in Seq(Int)
           /\ ~ HasKey(Last(st), key) => Row(TookFrame(st, key, v)) = Row(st) \o TookCode(st, key, v)
           /\ HasKey(Last(st), key) => Len(Row(TookFrame(st, key, v))) < Len(Row(st)) + Len(TookCode(st, key, v))
           /\ RowOnce(st) /\ v \in KeysOnce[Level(Len(st))] => RowOnce(TookFrame(st, key, v))
           /\ ~ HasKey(Last(st), key) /\ RowFits(TookFrame(st, key, v)) =>
                RowFits(st) /\ FitsKey(Last(st).tag, key) /\ v \in Writable[Level(Len(st))]
<1> DEFINE a == Front(st)
           f == Last(st)
           n == Level(Len(st))
           g == PutItem(f, key, v)
           c == ItemCode(n, f.tag, Item(key, v))
           k == HeadCode(a, f.key)
           p == FrameCode(n, f)
           q == FrameCode(n, g)
           r == Row(a)
<1>1. /\ Stacked(a) /\ a \in Seq(AnyFrame) /\ f \in Frames(n) /\ f \in AnyFrame
      /\ Len(st) \in Nat /\ n \in Nat
      /\ Len(a) = Len(st) - 1 /\ st = Append(a, f)
      /\ Len(a) + 1 = Len(st)
  BY StackedSplit
<1>2. g \in Frames(n) /\ g.key = f.key
  <2>1. CASE HasKey(f, key)
    BY <1>1, <2>1, PutOld
  <2>2. CASE ~ HasKey(f, key)
    BY <1>1, <2>2, PutNew
  <2> QED
    BY <2>1, <2>2
<1>3. g \in AnyFrame /\ Stacked(Append(a, g))
  <2>1. g \in AnyFrame
    BY <1>1, <1>2 DEF AnyFrame
  <2>2. Stacked(Append(a, g))
    BY TookStack
  <2> QED
    BY <2>1, <2>2
<1>4. /\ c \in Seq(Int) /\ Len(c) \in Nat
      /\ ~ HasKey(f, key) => q = p \o c
      /\ HasKey(f, key) => Len(q) < Len(p) + Len(c)
  BY <1>1, PutCode
<1>5. /\ FrameOnce(n, f) /\ v \in KeysOnce[n] => FrameOnce(n, g)
      /\ ~ HasKey(f, key) /\ FrameFits(n, g) => FrameFits(n, f) /\ FitsKey(f.tag, key) /\ v \in Writable[n]
  BY <1>1, PutOnce
<1>6. TookFrame(st, key, v) = Append(a, g) /\ TookCode(st, key, v) = c
  BY DEF TookFrame, TookCode
<1> HIDE DEF a, f, n, g, c
<1>7. /\ Row(Append(a, f)) = r \o (k \o p) /\ k \in Seq(Int) /\ p \in Seq(Int) /\ r \in Seq(Int)
      /\ RowFits(Append(a, f)) <=> RowFits(a) /\ FrameFits(n, f) /\ HeadFits(a, f.key)
      /\ RowOnce(Append(a, f)) <=> RowOnce(a) /\ FrameOnce(n, f)
  <2>1. Stacked(Append(a, f))
    BY <1>1
  <2>2. Level(Len(a) + 1) = n
    BY <1>1 DEF n
  <2> QED
    BY <1>1, <2>1, <2>2, RowAppend
<1>8. /\ Row(Append(a, g)) = r \o (k \o q) /\ q \in Seq(Int)
      /\ RowFits(Append(a, g)) <=> RowFits(a) /\ FrameFits(n, g) /\ HeadFits(a, f.key)
      /\ RowOnce(Append(a, g)) <=> RowOnce(a) /\ FrameOnce(n, g)
  <2>2. Level(Len(a) + 1) = n
    BY <1>1 DEF n
  <2> QED
    BY <1>1, <1>2, <1>3, <2>2, RowAppend
<1> HIDE DEF k, p, q, r
<1>9. /\ Len(r \o (k \o p)) = Len(r) + Len(k) + Len(p) /\ r \o (k \o p) \in Seq(Int)
      /\ Len(r) \in Nat /\ Len(k) \in Nat /\ Len(p) \in Nat
  BY <1>7, ThreeLens
<1>10. /\ Len(r \o (k \o q)) = Len(r) + Len(k) + Len(q) /\ r \o (k \o q) \in Seq(Int) /\ Len(q) \in Nat
  BY <1>7, <1>8, ThreeLens
<1>11. ASSUME ~ HasKey(f, key)
       PROVE  Row(Append(a, g)) = Row(Append(a, f)) \o c
  <2>1. q = p \o c
    BY <1>4, <1>11
  <2>2. (k \o p) \o c = k \o (p \o c) /\ k \o p \in Seq(Int)
    <3>1. k \in Seq(Int) /\ p \in Seq(Int) /\ c \in Seq(Int)
      BY <1>4, <1>7, Zenon
    <3>2. k \o p \in Seq(Int)
      BY <3>1, RowOfTwo
    <3>3. (k \o p) \o c = k \o (p \o c)
      BY <3>1, CodesInARow
    <3> QED
      BY <3>2, <3>3, Zenon
  <2> DEFINE m == k \o p
  <2> HIDE DEF m
  <2>3. (r \o m) \o c = r \o (m \o c)
    BY <1>4, <1>7, <2>2, CodesInARow DEF m
  <2> QED
    BY <1>7, <1>8, <2>1, <2>2, <2>3, Zenon DEF m
<1>12. ASSUME HasKey(f, key)
       PROVE  Len(Row(Append(a, g))) < Len(Row(Append(a, f))) + Len(c)
  <2>1. Len(q) < Len(p) + Len(c)
    BY <1>4, <1>12
  <2>2. Len(Row(Append(a, g))) = Len(r) + Len(k) + Len(q) /\ Len(Row(Append(a, f))) = Len(r) + Len(k) + Len(p)
    BY <1>7, <1>8, <1>9, <1>10
  <2> QED
    BY <1>4, <1>9, <1>10, <2>1, <2>2
<1> DEFINE new == Append(a, g)
<1>13. /\ c \in Seq(Int) /\ Row(st) \in Seq(Int) /\ Row(new) \in Seq(Int)
       /\ ~ HasKey(f, key) => Row(new) = Row(st) \o c
       /\ HasKey(f, key) => Len(Row(new)) < Len(Row(st)) + Len(c)
  <2> HIDE DEF new
  <2>1. Row(st) = Row(Append(a, f))
    BY <1>1, Zenon
  <2>2. Row(Append(a, f)) \in Seq(Int) /\ Row(new) \in Seq(Int)
    BY <1>7, <1>8, <1>9, <1>10, Zenon DEF new
  <2> QED
    BY <1>4, <1>11, <1>12, <2>1, <2>2, Zenon DEF new
<1>14. RowOnce(st) /\ v \in KeysOnce[n] => RowOnce(new)
  BY <1>1, <1>5, <1>7, <1>8, Zenon
<1>15. ~ HasKey(f, key) /\ RowFits(new) => RowFits(st) /\ FitsKey(f.tag, key) /\ v \in Writable[n]
  BY <1>1, <1>5, <1>7, <1>8, Zenon
<1> HIDE DEF new
<1>16. TookFrame(st, key, v) = new
  BY <1>6 DEF new
<1> QED
  BY <1>6, <1>13, <1>14, <1>15, <1>16, Zenon DEF f, n

-----------------------------------------------------------------------------
(* The bytes that were read are the codes of what is held. *)

CodeInv ==
    result # "refused" =>
        /\ RowOnce(stack)
        /\ Len(Row(stack)) <= Len(data)
        /\ twice => Len(Row(stack)) < Len(data)
        /\ ~ twice /\ RowFits(stack) => AsRead = Row(stack)
        /\ CodecDone => stack[1].left = 0

\* What a leaf was read from, with its key, is what it is written as.
LEMMA ItemRead ==
    ASSUME NEW n \in Nat, NEW f, NEW key \in Keys \cup {<<>>}, NEW v \in Leafs
    PROVE  LET c == ItemCode(n, f.tag, Item(key, v))
               e == KeyCells(f, key) \o LeafCells(v)
           IN /\ c \in Seq(Int) /\ e \in Seq(Int) /\ Len(c) <= Len(e)
              /\ FitsKey(f.tag, key) /\ v \in Writable[n] => c = e
<1> DEFINE p == KeyCode(f.tag, key)
           q == Tagged[n][v]
           r == KeyCells(f, key)
           l == LeafCells(v)
<1>1. ItemCode(n, f.tag, Item(key, v)) = p \o q
  BY DEF ItemCode, Item
<1>2. key \in Seq(Nat)
  BY KeyIs
<1>3. /\ p \in Seq(Int) /\ r \in Seq(Int) /\ Len(p) <= Len(r)
      /\ FitsKey(f.tag, key) => p = r
  <2>1. CASE f.tag = Object
    <3>1. p = WriteUtf(key) /\ r = Utf16(key) /\ (FitsKey(f.tag, key) <=> Len(key) <= MaxUtf)
      BY <2>1 DEF KeyCode, KeyCells, FitsKey
    <3>2. Utf16(key) \in Seq(Int)
      BY <1>2, Utf16Int
    <3> QED
      BY <1>2, <3>1, <3>2, WriteUtfIs
  <2>2. CASE f.tag # Object
    <3>1. p = <<>> /\ r = <<>>
      BY <2>2 DEF KeyCode, KeyCells
    <3> HIDE DEF p, r
    <3>2. <<>> \in Seq(Int) /\ Len(<<>>) = 0
      OBVIOUS
    <3> QED
      BY <3>1, <3>2
  <2> QED
    BY <2>1, <2>2
<1>4. /\ q \in Seq(Int) /\ l \in Seq(Int) /\ Len(q) <= Len(l)
      /\ v \in Writable[n] => q = l
  BY LeafWritten, LeafCellsInt DEF LeafCode
<1> HIDE DEF p, q, r, l
<1>5. /\ p \o q \in Seq(Int) /\ Len(p \o q) = Len(p) + Len(q) /\ Len(p) \in Nat /\ Len(q) \in Nat
  BY <1>3, <1>4, RowOfTwo
<1>6. /\ r \o l \in Seq(Int) /\ Len(r \o l) = Len(r) + Len(l) /\ Len(r) \in Nat /\ Len(l) \in Nat
  BY <1>3, <1>4, RowOfTwo
<1>7. Len(p \o q) <= Len(r \o l)
  BY <1>3, <1>4, <1>5, <1>6
<1>8. FitsKey(f.tag, key) /\ v \in Writable[n] => p \o q = r \o l
  BY <1>3, <1>4, Zenon
<1> QED
  BY <1>1, <1>5, <1>6, <1>7, <1>8, Zenon DEF r, l

LEMMA LeafCodes ==
    ASSUME CodecTyped, HeldInv, CodeInv, LeafStep
    PROVE  CodeInv'
<1>1. PICK key \in KeysHere, v \in Leafs, cells \in Seq(Int) : Took(key, cells, v) /\ Reads(v, cells)
  BY DEF LeafStep
<1> DEFINE f == Last(stack)
           n == Level(Len(stack))
           new == TookFrame(stack, key, v)
           c == TookCode(stack, key, v)
           e == KeyCells(f, key) \o LeafCells(v)
           row == Row(stack)
<1>2. Stacked(stack) /\ stack # <<>> /\ f.left > 0 /\ result = "reading" /\ data \in Seq(Int) /\ twice \in BOOLEAN
  BY DEF LeafStep, Reading, Top, CodecTyped
<1>3. key \in Keys \cup {<<>>}
  BY KeysHereAre
<1>4. n \in Nat
  BY <1>2, StackedSplit
<1>5. v \in Values[n] /\ v \in KeysOnce[n]
  BY <1>4, LeafSize, LeafsOnce
<1>6. /\ c \in Seq(Int) /\ row \in Seq(Int) /\ Row(new) \in Seq(Int)
      /\ ~ HasKey(f, key) => Row(new) = row \o c
      /\ HasKey(f, key) => Len(Row(new)) < Len(row) + Len(c)
      /\ RowOnce(stack) /\ v \in KeysOnce[n] => RowOnce(new)
      /\ ~ HasKey(f, key) /\ RowFits(new) => RowFits(stack) /\ FitsKey(f.tag, key) /\ v \in Writable[n]
  BY <1>2, <1>3, <1>5, TookRow
<1>7. /\ c \in Seq(Int) /\ e \in Seq(Int) /\ Len(c) <= Len(e)
      /\ FitsKey(f.tag, key) /\ v \in Writable[n] => c = e
  BY <1>3, <1>4, ItemRead DEF TookCode
<1>8. stack' = new /\ result' = "reading" /\ twice' = (twice \/ HasKey(f, key))
  BY <1>1, <1>2 DEF Took, Top, TookFrame
<1>9. Len(data') = Len(data) + Len(e) /\ AsRead' = AsRead \o e
  <2>1. Adds(data', bools', data, bools, KeyCells(Top, key) \o LeafCells(v))
    BY <1>1, <1>3, TookCells
  <2>2. Adds(data', bools', data, bools, e)
    BY <2>1 DEF Top
  <2> HIDE DEF e
  <2> QED
    BY <2>2 DEF Adds, AsRead, ReadAs
<1>10. /\ RowOnce(stack) /\ Len(row) <= Len(data) /\ (twice => Len(row) < Len(data))
       /\ ~ twice /\ RowFits(stack) => AsRead = row
  BY <1>2 DEF CodeInv
<1> HIDE DEF f, n, new, c, e, row
<1>11. Len(data') = Len(data) + Len(e) /\ Len(data) \in Nat /\ Len(e) \in Nat
  BY <1>2, <1>7, <1>9
<1>12. Len(row \o c) = Len(row) + Len(c) /\ Len(row) \in Nat /\ Len(c) \in Nat
  BY <1>6, RowOfTwo
<1>13. Len(Row(new)) \in Nat
  BY <1>6
<1>14. Len(Row(new)) <= Len(data') /\ (twice' => Len(Row(new)) < Len(data'))
  <2>1. CASE HasKey(f, key)
    <3>1. Len(Row(new)) < Len(data')
      BY <1>6, <1>7, <1>10, <1>11, <1>12, <1>13, <2>1
    <3> QED
      BY <1>11, <1>13, <3>1
  <2>2. CASE ~ HasKey(f, key)
    <3>1. Len(Row(new)) = Len(row) + Len(c)
      BY <1>6, <1>12, <2>2
    <3>2. twice' => twice
      BY <1>8, <2>2
    <3> QED
      BY <1>7, <1>10, <1>11, <1>12, <3>1, <3>2
  <2> QED
    BY <2>1, <2>2
<1>15. ASSUME ~ twice', RowFits(new)
       PROVE  AsRead \o e = Row(new)
  <2>1. ~ twice /\ ~ HasKey(f, key)
    BY <1>8, <1>15
  <2>2. RowFits(stack) /\ c = e
    BY <1>6, <1>7, <1>15, <2>1
  <2> QED
    BY <1>6, <1>10, <2>1, <2>2, Zenon
<1>16. RowOnce(new)
  BY <1>5, <1>6, <1>10
<1>17. ~ CodecDone'
  BY <1>8 DEF CodecDone
<1> QED
  BY <1>8, <1>9, <1>14, <1>15, <1>16, <1>17, Zenon DEF CodeInv

\* What an object or an array that is opened is written as, so far.
LEMMA OpenCode ==
    ASSUME NEW n \in Nat, NEW tag \in Containers, NEW key \in Keys \cup {<<>>}, NEW left \in Nat
    PROVE  /\ Open(tag, key, left) \in Frames(n) /\ Open(tag, key, left).key = key
           /\ FrameCode(n, Open(tag, key, left)) = <<tag, left>>
           /\ FrameOnce(n, Open(tag, key, left)) /\ FrameFits(n, Open(tag, key, left))
<1> DEFINE f == Open(tag, key, left)
<1>1. f = [tag |-> tag, key |-> key, left |-> left, items |-> <<>>]
  BY DEF Open
<1>2. f \in Frames(n) /\ f.key = key /\ f.items = <<>> /\ f.tag = tag /\ f.left = left
  BY <1>1 DEF Frames, ItemsOf
<1> HIDE DEF f
<1>3. FrameOnce(n, f) /\ FrameFits(n, f)
  <2>1. DOMAIN f.items = {}
    BY <1>2
  <2> QED
    BY <1>2, <2>1, FrameOnceIs
<1>4. FrameCode(n, f) = <<tag, left>>
  <2>1. CodesOf(n, f.tag, f.items) = <<>>
    BY <1>2 DEF CodesOf
  <2>2. Joined(<<>>) = <<>>
    <3>1. <<>> \in Seq(Int) /\ <<>> \in Seq(Seq(Int))
      OBVIOUS
    <3> QED
      BY <3>1, JoinedSteps
  <2>3. Joined(CodesOf(n, f.tag, f.items)) = <<>>
    BY <2>1, <2>2, Zenon
  <2>4. Len(f.items) + f.left = left
    BY <1>2
  <2>5. <<tag, left>> \in Seq(Int)
    <3>1. tag \in Int
      BY DEF Containers, Array, Object
    <3> QED
      BY <3>1
  <2>6. <<tag, left>> \o <<>> = <<tag, left>>
    BY <2>5
  <2> QED
    BY <1>2, <2>3, <2>4, <2>6, Zenon DEF FrameCode
<1> QED
  BY <1>2, <1>3, <1>4 DEF f

LEMMA OpenCodes ==
    ASSUME CodecTyped, HeldInv, CodeInv, OpenStep
    PROVE  CodeInv'
<1>1. PICK key \in KeysHere, tag \in Containers, left \in Nat :
          /\ stack' = Append(stack, Open(tag, key, left))
          /\ data' = data \o KeyCells(Top, key) \o <<tag, left>>
  BY DEF OpenStep
<1> DEFINE f == Open(tag, key, left)
           n == Level(Len(stack) + 1)
           new == Append(stack, f)
           top == Last(stack)
           h == HeadCode(stack, key)
           k == KeyCells(top, key)
           w == <<tag, left>>
           row == Row(stack)
<1>2. Stacked(stack) /\ stack # <<>> /\ top.left > 0 /\ result = "reading" /\ data \in Seq(Int) /\ Len(stack) < MaxNestDepth
      /\ Len(stack) \in Nat /\ bools \subseteq 1 .. Len(data) /\ bools' = bools
  BY DEF OpenStep, Reading, Top, CodecTyped, Stacked
<1>3. key \in Keys \cup {<<>>}
  BY KeysHereAre
<1>4. n \in Nat
  BY <1>2, CodecAssumption DEF Level
<1>5. f \in Frames(n) /\ f.key = key /\ FrameCode(n, f) = w /\ FrameOnce(n, f) /\ FrameFits(n, f)
  BY <1>3, <1>4, OpenCode
<1>6. Stacked(new) /\ f \in AnyFrame
  <2>1. Stacked(new)
    BY <1>2, <1>3, OpenStack
  <2>2. f \in AnyFrame
    BY <1>4, <1>5 DEF AnyFrame
  <2> QED
    BY <2>1, <2>2
<1>7. stack' = new /\ result' = "reading" /\ twice' = twice
  BY <1>1, <1>2 DEF OpenStep
<1>8. /\ Row(new) = row \o (h \o FrameCode(n, f)) /\ h \in Seq(Int) /\ FrameCode(n, f) \in Seq(Int) /\ row \in Seq(Int)
      /\ RowFits(new) <=> RowFits(stack) /\ FrameFits(n, f) /\ HeadFits(stack, f.key)
      /\ RowOnce(new) <=> RowOnce(stack) /\ FrameOnce(n, f)
  <2> HIDE DEF f
  <2>1. /\ Row(Append(stack, f)) = Row(stack) \o (HeadCode(stack, f.key) \o FrameCode(Level(Len(stack) + 1), f))
        /\ HeadCode(stack, f.key) \in Seq(Int) /\ FrameCode(Level(Len(stack) + 1), f) \in Seq(Int) /\ Row(stack) \in Seq(Int)
        /\ RowFits(Append(stack, f)) <=> RowFits(stack) /\ FrameFits(Level(Len(stack) + 1), f) /\ HeadFits(stack, f.key)
        /\ RowOnce(Append(stack, f)) <=> RowOnce(stack) /\ FrameOnce(Level(Len(stack) + 1), f)
    BY <1>2, <1>6, RowAppend
  <2> QED
    BY <1>5, <2>1, Zenon
<1>9. /\ k \in Seq(Int) /\ Len(h) <= Len(k)
      /\ FitsKey(top.tag, key) => h = k
  <2>1. h = KeyCode(top.tag, key)
    BY <1>2 DEF HeadCode
  <2>2. CASE top.tag = Object
    <3>1. key \in Seq(Nat)
      BY <1>3, KeyIs
    <3>2. h = WriteUtf(key) /\ k = Utf16(key) /\ (FitsKey(top.tag, key) <=> Len(key) <= MaxUtf)
      BY <2>1, <2>2 DEF KeyCode, KeyCells, FitsKey
    <3> HIDE DEF h, k
    <3> QED
      BY <3>1, <3>2, WriteUtfIs, Utf16Int
  <2>3. CASE top.tag # Object
    <3>1. h = <<>> /\ k = <<>>
      BY <2>1, <2>3 DEF KeyCode, KeyCells
    <3> HIDE DEF h, k
    <3>2. <<>> \in Seq(Int) /\ Len(<<>>) = 0
      OBVIOUS
    <3> QED
      BY <3>1, <3>2
  <2> QED
    BY <2>2, <2>3
<1>10. /\ RowOnce(stack) /\ Len(row) <= Len(data) /\ (twice => Len(row) < Len(data))
       /\ ~ twice /\ RowFits(stack) => AsRead = row
  BY <1>2 DEF CodeInv
<1>11. HeadFits(stack, key) <=> FitsKey(top.tag, key)
  BY <1>2 DEF HeadFits
<1>12. data' = (data \o k) \o w
  BY <1>1 DEF Top
<1> HIDE DEF f, n, new, top, h, k, w, row
<1>13. w \in Seq(Int)
  BY <1>5, <1>8
<1>14. data' = data \o (k \o w)
  BY <1>2, <1>9, <1>12, <1>13, CodesInARow
<1>15. Row(new) = row \o (h \o w)
  BY <1>5, <1>8, Zenon
<1>16. /\ Len(data \o (k \o w)) = Len(data) + Len(k) + Len(w)
       /\ Len(data) \in Nat /\ Len(k) \in Nat /\ Len(w) \in Nat
  BY <1>2, <1>9, <1>13, ThreeLens
<1>17. /\ Len(row \o (h \o w)) = Len(row) + Len(h) + Len(w)
       /\ Len(row) \in Nat /\ Len(h) \in Nat
  BY <1>8, <1>13, ThreeLens
<1>22. AsRead' = AsRead \o (k \o w)
  <2>1. k \o w \in Seq(Int)
    BY <1>9, <1>13
  <2>2. ReadAs(data \o (k \o w), bools) = ReadAs(data, bools) \o (k \o w)
    <3>1. bools \subseteq 1 .. Len(data)
      BY DEF CodecTyped
    <3>2. Adds(data \o (k \o w), bools, data, bools, k \o w)
      BY <1>2, <2>1, <3>1, ReadAsMore
    <3> QED
      BY <3>2 DEF Adds
  <2>3. AsRead = ReadAs(data, bools) /\ AsRead' = ReadAs(data', bools')
    BY DEF AsRead, ReadAs
  <2> QED
    BY <1>2, <1>14, <2>2, <2>3
<1>18. Len(row \o (h \o w)) <= Len(data \o (k \o w)) /\ (twice => Len(row \o (h \o w)) < Len(data \o (k \o w)))
  BY <1>9, <1>10, <1>16, <1>17
<1>19. ASSUME ~ twice, RowFits(new)
       PROVE  AsRead \o (k \o w) = row \o (h \o w)
  <2>1. RowFits(stack) /\ FitsKey(top.tag, key)
    BY <1>5, <1>8, <1>11, <1>19, Zenon
  <2> QED
    BY <1>9, <1>10, <1>19, <2>1, Zenon
<1>20. RowOnce(new)
  BY <1>5, <1>8, <1>10
<1>21. ~ CodecDone'
  BY <1>7 DEF CodecDone
<1> QED
  BY <1>7, <1>14, <1>15, <1>18, <1>19, <1>20, <1>21, <1>22, Zenon DEF CodeInv

LEMMA CloseCodes ==
    ASSUME CodecTyped, HeldInv, CodeInv, CloseNested
    PROVE  CodeInv'
<1> DEFINE a == Front(stack)
           f == Last(stack)
           n == Level(Len(stack))
           o == Last(a)
           v == FrameValue(f)
           new == TookFrame(a, f.key, v)
           c == TookCode(a, f.key, v)
<1>1. Stacked(stack) /\ Len(stack) > 1 /\ stack # <<>> /\ result = "reading" /\ f.left = 0 /\ data \in Seq(Int) /\ twice \in BOOLEAN
  <2>1. Len(<<>>) = 0
    OBVIOUS
  <2> QED
    BY <2>1 DEF CloseNested, CodecTyped, Top
<1>2. /\ Stacked(a) /\ a \in Seq(AnyFrame) /\ f \in Frames(n) /\ f \in AnyFrame
      /\ Len(stack) \in Nat /\ n \in Nat
      /\ Len(a) = Len(stack) - 1 /\ stack = Append(a, f)
      /\ a # <<>> => o.left > 0
  BY <1>1, StackedSplit
<1>3. a # <<>>
  BY <1>1, <1>2
<1>4. Level(Len(a)) = n + 1 /\ Level(Len(a) + 1) = n
  BY <1>2, CodecAssumption DEF Level
<1>5. f.key \in Keys \cup {<<>>} /\ v \in Values[n + 1]
  BY <1>2, FrameParts
<1>6. stack' = new /\ result' = "reading" /\ data' = data /\ AsRead' = AsRead /\ twice' = (twice \/ HasKey(o, f.key))
  BY <1>1 DEF CloseNested, Top, TookFrame, AsRead
<1>7. FrameCode(n, f) = Tagged[n + 1][v]
  BY <1>1, <1>2, FrameCodeIs
<1>8. c = HeadCode(a, f.key) \o FrameCode(n, f)
  <2>1. c = ItemCode(n + 1, o.tag, Item(f.key, v))
    BY <1>4 DEF TookCode
  <2>2. Item(f.key, v).key = f.key /\ Item(f.key, v).value = v
    BY DEF Item
  <2>3. c = KeyCode(o.tag, f.key) \o Tagged[n + 1][v]
    BY <2>1, <2>2, Zenon DEF ItemCode
  <2>4. HeadCode(a, f.key) = KeyCode(o.tag, f.key)
    BY <1>3 DEF HeadCode
  <2> QED
    BY <1>7, <2>3, <2>4, Zenon
<1> HIDE DEF a, f, n, o, v, new, c
<1>9. /\ c \in Seq(Int) /\ Row(a) \in Seq(Int) /\ Row(new) \in Seq(Int)
      /\ ~ HasKey(o, f.key) => Row(new) = Row(a) \o c
      /\ HasKey(o, f.key) => Len(Row(new)) < Len(Row(a)) + Len(c)
      /\ RowOnce(a) /\ v \in KeysOnce[n + 1] => RowOnce(new)
      /\ ~ HasKey(o, f.key) /\ RowFits(new) => RowFits(a) /\ FitsKey(o.tag, f.key) /\ v \in Writable[n + 1]
  BY <1>2, <1>3, <1>4, <1>5, TookRow DEF o, new, c
<1>10. /\ Row(stack) = Row(a) \o c
       /\ RowFits(stack) <=> RowFits(a) /\ FrameFits(n, f) /\ HeadFits(a, f.key)
       /\ RowOnce(stack) <=> RowOnce(a) /\ FrameOnce(n, f)
  <2>1. Stacked(Append(a, f))
    BY <1>1, <1>2
  <2>2. /\ Row(Append(a, f)) = Row(a) \o (HeadCode(a, f.key) \o FrameCode(Level(Len(a) + 1), f))
        /\ RowFits(Append(a, f)) <=> RowFits(a) /\ FrameFits(Level(Len(a) + 1), f) /\ HeadFits(a, f.key)
        /\ RowOnce(Append(a, f)) <=> RowOnce(a) /\ FrameOnce(Level(Len(a) + 1), f)
    BY <1>2, <2>1, RowAppend
  <2> QED
    BY <1>2, <1>4, <1>8, <2>2, Zenon
<1>11. /\ RowOnce(stack) /\ Len(Row(stack)) <= Len(data) /\ (twice => Len(Row(stack)) < Len(data))
       /\ ~ twice /\ RowFits(stack) => AsRead = Row(stack)
  BY <1>1 DEF CodeInv
<1>12. RowOnce(new)
  BY <1>9, <1>10, <1>11 DEF FrameOnce, v
<1>13. Len(Row(stack)) = Len(Row(a)) + Len(c) /\ Len(Row(a)) \in Nat /\ Len(c) \in Nat /\ Len(data) \in Nat /\ Len(Row(new)) \in Nat
  <2>1. Len(Row(a) \o c) = Len(Row(a)) + Len(c) /\ Len(Row(a)) \in Nat /\ Len(c) \in Nat
    BY <1>9, RowOfTwo
  <2>2. Len(data) \in Nat /\ Len(Row(new)) \in Nat
    BY <1>1, <1>9
  <2> QED
    BY <1>10, <2>1, <2>2
<1>14. Len(Row(new)) <= Len(data) /\ (twice' => Len(Row(new)) < Len(data))
  <2>1. CASE HasKey(o, f.key)
    BY <1>9, <1>11, <1>13, <2>1
  <2>2. CASE ~ HasKey(o, f.key)
    <3>1. Row(new) = Row(stack)
      BY <1>9, <1>10, <2>2
    <3>2. twice' => twice
      BY <1>6, <2>2
    <3> QED
      BY <1>11, <3>1, <3>2
  <2> QED
    BY <2>1, <2>2
<1>15. ASSUME ~ twice', RowFits(new)
       PROVE  AsRead = Row(new)
  <2>1. ~ twice /\ ~ HasKey(o, f.key)
    BY <1>6, <1>15, Zenon
  <2>2. RowFits(stack)
    <3>1. HeadFits(a, f.key) <=> FitsKey(o.tag, f.key)
      BY <1>3 DEF HeadFits, o
    <3>2. FrameFits(n, f) <=> v \in Writable[n + 1]
      BY DEF FrameFits, v
    <3> QED
      BY <1>9, <1>10, <1>15, <2>1, <3>1, <3>2, Zenon
  <2> QED
    BY <1>9, <1>10, <1>11, <2>1, <2>2, Zenon
<1>16. ~ CodecDone'
  BY <1>6 DEF CodecDone
<1> QED
  BY <1>6, <1>12, <1>14, <1>15, <1>16, Zenon DEF CodeInv

LEMMA RefuseCodes ==
    ASSUME RefuseStep
    PROVE  CodeInv'
BY DEF RefuseStep, CodeInv

\* A row of nothing is empty.
LEMMA NoRow == Stacked(<<>>) /\ Row(<<>>) = <<>> /\ RowOnce(<<>>) /\ RowFits(<<>>)
<1>1. Stacked(<<>>)
  <2>1. <<>> \in Seq(AnyFrame) /\ Len(<<>>) = 0
    OBVIOUS
  <2> QED
    BY <2>1, CodecAssumption DEF Stacked
<1>2. Row(<<>>) = <<>>
  <2>1. RowsOf(<<>>) = <<>>
    BY DEF RowsOf
  <2>2. Joined(<<>>) = <<>>
    <3>1. <<>> \in Seq(Int) /\ <<>> \in Seq(Seq(Int))
      OBVIOUS
    <3> QED
      BY <3>1, JoinedSteps
  <2> QED
    BY <2>1, <2>2, Zenon DEF Row
<1>3. \A d \in 1 .. Len(<<>>) : FALSE
  OBVIOUS
<1>4. RowOnce(<<>>) /\ RowFits(<<>>)
  BY <1>3, Zenon DEF RowOnce, RowFits
<1> QED
  BY <1>1, <1>2, <1>4

\* The row of a single frame is its code.
LEMMA OneRow ==
    ASSUME NEW f \in AnyFrame, Stacked(<<f>>)
    PROVE  /\ Row(<<f>>) = FrameCode(Level(1), f) /\ Row(<<f>>) \in Seq(Int)
           /\ RowFits(<<f>>) <=> FrameFits(Level(1), f)
           /\ RowOnce(<<f>>) <=> FrameOnce(Level(1), f)
<1>1. Append(<<>>, f) = <<f>> /\ Len(<<>>) + 1 = 1
  OBVIOUS
<1>2. HeadCode(<<>>, f.key) = <<>> /\ HeadFits(<<>>, f.key)
  BY DEF HeadCode, HeadFits
<1> DEFINE c == FrameCode(Level(1), f)
<1>3. Stacked(Append(<<>>, f)) /\ Stacked(<<>>)
  BY <1>1, NoRow, Zenon
<1>4. /\ Row(Append(<<>>, f)) = Row(<<>>) \o (HeadCode(<<>>, f.key) \o FrameCode(Level(Len(<<>>) + 1), f))
      /\ FrameCode(Level(Len(<<>>) + 1), f) \in Seq(Int)
      /\ RowFits(Append(<<>>, f)) <=> RowFits(<<>>) /\ FrameFits(Level(Len(<<>>) + 1), f) /\ HeadFits(<<>>, f.key)
      /\ RowOnce(Append(<<>>, f)) <=> RowOnce(<<>>) /\ FrameOnce(Level(Len(<<>>) + 1), f)
  BY <1>3, RowAppend
<1>5. /\ Row(<<f>>) = <<>> \o (<<>> \o c) /\ c \in Seq(Int)
      /\ RowFits(<<f>>) <=> FrameFits(Level(1), f)
      /\ RowOnce(<<f>>) <=> FrameOnce(Level(1), f)
  BY <1>1, <1>2, <1>4, NoRow, Zenon
<1> HIDE DEF c
<1>6. <<>> \o c = c
  BY <1>5, EmptyThen
<1> QED
  BY <1>5, <1>6, Zenon DEF c

LEMMA CodesStart ==
    ASSUME CodecInit
    PROVE  CodeInv
<1>1. PICK n \in Counts :
          /\ data = <<Object, n>>
          /\ IF n < 0 \/ MaxDecodedNodes < 1 \/ MaxNestDepth < 1
             THEN stack = <<>> /\ result = "refused"
             ELSE stack = <<Open(Object, <<>>, n)>> /\ result = "reading"
  BY DEF CodecInit
<1>2. n \in Int /\ MaxDecodedNodes \in Nat /\ MaxNestDepth \in Nat
  BY CodecAssumption
<1>3. CASE n < 0 \/ MaxDecodedNodes < 1 \/ MaxNestDepth < 1
  <2>1. result = "refused"
    BY <1>1, <1>3
  <2> QED
    BY <2>1 DEF CodeInv
<1>4. CASE ~ (n < 0 \/ MaxDecodedNodes < 1 \/ MaxNestDepth < 1)
  <2> DEFINE f == Open(Object, <<>>, n)
  <2>1. stack = <<f>> /\ result = "reading" /\ data = <<Object, n>>
    BY <1>1, <1>4
  <2>2. n \in Nat /\ 1 <= MaxNestDepth
    BY <1>2, <1>4
  <2>3. Object \in Containers /\ <<>> \in Keys \cup {<<>>}
    BY DEF Containers
  <2>4. Level(1) \in Nat
    BY <1>2, <2>2 DEF Level
  <2>5. /\ f \in Frames(Level(1)) /\ FrameCode(Level(1), f) = <<Object, n>>
        /\ FrameOnce(Level(1), f) /\ FrameFits(Level(1), f)
    BY <2>2, <2>3, <2>4, OpenCode
  <2>6. f \in AnyFrame
    BY <2>4, <2>5 DEF AnyFrame
  <2> HIDE DEF f
  <2>7. CodecTyped
    BY CodecStarts
  <2>8. Stacked(<<f>>)
    BY <2>1, <2>7 DEF CodecTyped
  <2>9. /\ Row(<<f>>) = FrameCode(Level(1), f) /\ Row(<<f>>) \in Seq(Int)
        /\ RowFits(<<f>>) <=> FrameFits(Level(1), f)
        /\ RowOnce(<<f>>) <=> FrameOnce(Level(1), f)
    BY <2>6, <2>8, OneRow
  <2>10. Row(stack) = data /\ RowOnce(stack)
    BY <2>1, <2>5, <2>9, Zenon
  <2>11. Len(Row(stack)) <= Len(data)
    <3>1. Len(data) \in Nat
      BY <2>7 DEF CodecTyped
    <3> QED
      BY <2>10, <3>1
  <2>13. AsRead = data
    <3>1. bools = {} /\ data \in Seq(Int)
      BY <2>7 DEF CodecInit, CodecTyped
    <3> QED
      BY <3>1 DEF AsRead
  <2>12. ~ twice /\ ~ CodecDone
    BY <2>1 DEF CodecInit, CodecDone
  <2> QED
    BY <2>10, <2>11, <2>12, <2>13 DEF CodeInv
<1> QED
  BY <1>3, <1>4

LEMMA FinishCodes ==
    ASSUME CodecTyped, HeldInv, CodeInv, Finish
    PROVE  CodeInv'
<1>1. CASE Refuse(<<Null>>)
  BY <1>1 DEF Refuse, CodeInv
<1>2. CASE result' = "ok" /\ UNCHANGED <<data, stack, twice, bools, todo, print>>
  <2>1. result = "reading" /\ Len(stack) = 1 /\ Last(stack).left = 0
    BY DEF Finish, Top
  <2>2. Last(stack) = stack[1]
    BY <2>1 DEF Last
  <2>3. stack'[1].left = 0
    BY <1>2, <2>1, <2>2
  <2>4. AsRead' = AsRead
    BY <1>2 DEF AsRead
  <2> QED
    BY <1>2, <2>1, <2>3, <2>4 DEF CodeInv
<1> QED
  BY <1>1, <1>2 DEF Finish

LEMMA PrintCodes ==
    ASSUME CodeInv, UNCHANGED <<data, stack, nodes, alloc, twice, bools>>,
           result \in {"ok", "printing"}, result' \in {"printing", "printed"}
    PROVE  CodeInv'
<1>1. CodecDone /\ result # "refused"
  BY DEF CodecDone
<1>2. stack[1].left = 0 /\ AsRead' = AsRead
  BY <1>1 DEF CodeInv, AsRead
<1> QED
  BY <1>1, <1>2 DEF CodeInv

LEMMA CodesKeep ==
    ASSUME CodecTyped, HeldInv, CodeInv, [CodecNext]_codecVars
    PROVE  CodeInv'
<1>1. CASE RefuseValue
  BY <1>1, RefuseValueStep, RefuseCodes
<1>2. CASE ReadLeaf
  BY <1>2, ReadLeafStep, LeafCodes
<1>3. CASE NegativeSize
  BY <1>3, NegativeSizeStep, RefuseCodes
<1>4. CASE ReadArray
  <2>1. ReadStep
    BY <1>4, ReadArrayStep
  <2> QED
    BY <2>1, RefuseCodes, LeafCodes, OpenCodes DEF ReadStep
<1>5. CASE ReadStrings
  BY <1>5, ReadStringsStep, LeafCodes
<1>6. CASE OpenNested
  BY <1>6, OpenNestedStep, RefuseCodes, OpenCodes
<1>7. CASE CloseNested
  BY <1>7, CloseCodes
<1>8. CASE Finish
  BY <1>8, FinishCodes
<1>9. CASE Log \/ CutItems \/ MaskItem \/ FormatLeaf \/ FormatNested \/ FormatEnd
  BY <1>9, PrintIsStep, PrintCodes
<1>10. CASE UNCHANGED codecVars
  BY <1>10 DEF codecVars, CodeInv, CodecDone, AsRead
<1> QED
  BY <1>1, <1>2, <1>3, <1>4, <1>5, <1>6, <1>7, <1>8, <1>9, <1>10 DEF CodecNext

LEMMA CodesEncodeBack ==
    ASSUME CodecTyped, CodeInv
    PROVE  EncodesBack
<1>1. SUFFICES ASSUME result \in {"ok", "printing", "printed"}
               PROVE  /\ Decoded \in KeysOnce[MaxNestDepth]
                      /\ IF Decoded \notin Writable[MaxNestDepth] THEN EncodeObject(Decoded) = Failed
                         ELSE IF twice THEN Len(EncodeObject(Decoded)) < Len(data)
                         ELSE EncodeObject(Decoded) = AsRead
  BY DEF EncodesBack
<1>2. CodecDone /\ result # "refused"
  BY <1>1 DEF CodecDone
<1> DEFINE f == stack[1]
           c == Tagged[MaxNestDepth][Decoded]
<1>3. stack = <<f>> /\ f \in Frames(Level(1)) /\ f \in AnyFrame /\ Stacked(stack) /\ f.left = 0
      /\ Level(1) \in Nat /\ Level(1) + 1 = MaxNestDepth
  <2>1. Stacked(stack) /\ Len(stack) = 1 /\ f.left = 0
    BY <1>2 DEF CodecTyped, CodeInv, CodecDone
  <2>2. stack \in Seq(AnyFrame) /\ 1 \in 1 .. Len(stack)
    BY <2>1 DEF Stacked
  <2>3. stack = <<f>>
    <3>1. stack[1] \in AnyFrame
      BY <2>2
    <3> QED
      BY <2>1, <2>2, <3>1
  <2>4. Level(1) \in Nat /\ f \in Frames(Level(1))
    BY <2>1, <2>2, StackedParts
  <2>5. f \in AnyFrame
    BY <2>2
  <2>6. Level(1) + 1 = MaxNestDepth
    BY CodecAssumption DEF Level
  <2> QED
    BY <2>1, <2>3, <2>4, <2>5, <2>6
<1>4. FrameCode(Level(1), f) = c
  BY <1>3, FrameCodeIs, Zenon DEF Decoded
<1>5. /\ Row(<<f>>) = FrameCode(Level(1), f) /\ Row(<<f>>) \in Seq(Int)
      /\ RowFits(<<f>>) <=> FrameFits(Level(1), f)
      /\ RowOnce(<<f>>) <=> FrameOnce(Level(1), f)
  <2> HIDE DEF f
  <2> QED
    BY <1>3, OneRow
<1>6. /\ Row(stack) = c
      /\ RowFits(stack) <=> Decoded \in Writable[MaxNestDepth]
      /\ RowOnce(stack) <=> Decoded \in KeysOnce[MaxNestDepth]
  BY <1>3, <1>4, <1>5, Zenon DEF FrameFits, FrameOnce, Decoded
<1>7. /\ Decoded \in KeysOnce[MaxNestDepth]
      /\ twice => Len(c) < Len(data)
      /\ ~ twice /\ Decoded \in Writable[MaxNestDepth] => AsRead = c
  <2> HIDE DEF c, f
  <2> QED
    BY <1>2, <1>6 DEF CodeInv
<1>8. Written(c, Decoded \in Writable[MaxNestDepth])
  <2>1. Decoded \in Values[MaxNestDepth]
    BY <1>3, FrameParts, Zenon DEF Decoded
  <2>2. WrittenAt(MaxNestDepth)
    BY CodecAssumption, CodesWritten
  <2> QED
    BY <2>1, <2>2, Zenon DEF WrittenAt
<1>9. EncodeObject(Decoded) = IF -1 \in Range(c) THEN Failed ELSE c
  BY DEF EncodeObject
<1> HIDE DEF c, f
<1>10. CASE Decoded \notin Writable[MaxNestDepth]
  <2>1. -1 \in Range(c)
    BY <1>8, <1>10, Zenon DEF Written
  <2>2. EncodeObject(Decoded) = Failed
    BY <1>9, <2>1
  <2> QED
    BY <1>7, <1>10, <2>2
<1>11. CASE Decoded \in Writable[MaxNestDepth]
  <2>1. c \in Seq(Nat)
    BY <1>8, <1>11, Zenon DEF Written
  <2>2. -1 \notin Range(c)
    BY <2>1 DEF Range
  <2>3. EncodeObject(Decoded) = c
    BY <1>9, <2>2
  <2> QED
    BY <1>7, <1>11, <2>3
<1> QED
  BY <1>10, <1>11

\* EncodeObject of what DecodeObject took gives back the bytes it came from, but
\* for the bytes of bools, which come back as 0 or 1, and keys that came twice; a
\* string too long to be written is an error.
THEOREM DecodedEncodesBack == CodecSpec => []EncodesBack
<1>1. CodecInit => CodecTyped /\ HeldInv /\ CodeInv
  BY CodecStarts, CodesStart
<1>2. CodecTyped /\ HeldInv /\ CodeInv /\ [CodecNext]_codecVars => (CodecTyped /\ HeldInv /\ CodeInv)'
  BY CodecKeeps, CodesKeep
<1>3. CodecTyped /\ HeldInv /\ CodeInv => EncodesBack
  BY CodesEncodeBack
<1> QED
  BY <1>1, <1>2, <1>3, PTL DEF CodecSpec
=============================================================================
