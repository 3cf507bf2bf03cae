------------------------- MODULE CollectCoreProofs -------------------------
(***************************************************************************)
(* Proofs about CollectCore, for any lists, limits and facts: every failed *)
(* request is in the error the caller gets, nothing is sent after a loss   *)
(* of the connection (FailuresHeeded), the core implements the safety part *)
(* of CollectPromise, and it asks for each thing once (AskedExactlyOnce).  *)
(*                                                                         *)
(* FailuresHeeded is not inductive: that no request goes out after a loss  *)
(* rests on where each step leaves the run (LossInv), and that the core    *)
(* does not end quietly on a broken connection on its first request, which *)
(* is sent whatever the lists hold (LinkInv).                              *)
(*                                                                         *)
(* AskedExactlyOnce rests on what the lists hold, which are folds: their   *)
(* lemmas come by FoldInduction, instantiated for each fold with what it   *)
(* keeps.  From them follows AskInv, which says at each step what was      *)
(* asked for and what still waits.  Those of the lists the server pushes   *)
(* come first (PushLists): what the parsers keep of a push is a list of    *)
(* ids, and what several pushes make is one without repeats and within its *)
(* limit.                                                                  *)
(***************************************************************************)
EXTENDS CollectCore, SequenceTheorems, TLAPS

-----------------------------------------------------------------------------
(* The lists the server pushes. *)

\* No element of a list is there twice.
NoRepeats(s) == \A i, j \in 1 .. Len(s) : s[i] = s[j] => i = j

LEMMA RangeIs ==
    ASSUME NEW S, NEW s \in Seq(S)
    PROVE  /\ Range(s) = {s[i] : i \in 1 .. Len(s)}
           /\ Range(s) \subseteq S
BY DEF Range

LEMMA InRange ==
    ASSUME NEW S, NEW s \in Seq(S), NEW x
    PROVE  x \in Range(s) <=> \E i \in 1 .. Len(s) : s[i] = x
BY RangeIs

LEMMA EmptyRange == Range(<<>>) = {}
BY DEF Range

LEMMA AppendRange ==
    ASSUME NEW S, NEW s \in Seq(S), NEW x \in S
    PROVE  /\ Append(s, x) \in Seq(S)
           /\ Len(Append(s, x)) = Len(s) + 1
           /\ Range(Append(s, x)) = Range(s) \cup {x}
<1>1. /\ Append(s, x) \in Seq(S) /\ Len(Append(s, x)) = Len(s) + 1
      /\ Append(s, x)[Len(s) + 1] = x
      /\ \A i \in 1 .. Len(s) : Append(s, x)[i] = s[i]
  OBVIOUS
<1>2. ASSUME NEW y
      PROVE  y \in Range(Append(s, x)) <=> y \in Range(s) \cup {x}
  <2>1. y \in Range(Append(s, x)) <=> \E i \in 1 .. Len(s) + 1 : Append(s, x)[i] = y
    <3> DEFINE t == Append(s, x)
    <3>1. t \in Seq(S) /\ Len(t) = Len(s) + 1
      BY <1>1
    <3> HIDE DEF t
    <3>2. y \in Range(t) <=> \E i \in 1 .. Len(t) : t[i] = y
      BY <3>1, InRange
    <3> QED
      BY <3>1, <3>2 DEF t
  <2>2. y \in Range(s) <=> \E i \in 1 .. Len(s) : s[i] = y
    BY InRange
  <2>3. Len(s) \in Nat
    OBVIOUS
  <2>4. \A i : i \in 1 .. Len(s) + 1 <=> i \in 1 .. Len(s) \/ i = Len(s) + 1
    BY <2>3
  <2> QED
    BY <1>1, <2>1, <2>2, <2>4
<1> QED
  BY <1>1, <1>2

LEMMA AppendNoRepeats ==
    ASSUME NEW S, NEW s \in Seq(S), NEW x \in S, NoRepeats(s), x \notin Range(s)
    PROVE  NoRepeats(Append(s, x))
<1>1. \A i \in 1 .. Len(s) : s[i] # x
  BY InRange
<1>2. Len(s) \in Nat /\ Len(Append(s, x)) = Len(s) + 1 /\ Append(s, x)[Len(s) + 1] = x
      /\ \A i \in 1 .. Len(s) : Append(s, x)[i] = s[i]
  OBVIOUS
<1>3. ASSUME NEW i \in 1 .. Len(s) + 1, NEW j \in 1 .. Len(s) + 1,
             Append(s, x)[i] = Append(s, x)[j]
      PROVE  i = j
  <2>1. (i \in 1 .. Len(s) \/ i = Len(s) + 1) /\ (j \in 1 .. Len(s) \/ j = Len(s) + 1)
    BY <1>2
  <2> QED
    BY <1>1, <1>2, <1>3, <2>1 DEF NoRepeats
<1> QED
  BY <1>2, <1>3 DEF NoRepeats

\* What is left of a list after its first element.
LEMMA TailOf ==
    ASSUME NEW S, NEW s \in Seq(S), s # <<>>
    PROVE  /\ Head(s) \in S /\ Tail(s) \in Seq(S)
           /\ Range(s) = {Head(s)} \cup Range(Tail(s))
           /\ NoRepeats(s) => NoRepeats(Tail(s)) /\ Head(s) \notin Range(Tail(s))
<1>1. /\ Len(s) \in Nat /\ Len(s) >= 1 /\ Head(s) = s[1] /\ Head(s) \in S
      /\ Tail(s) \in Seq(S) /\ Len(Tail(s)) = Len(s) - 1
      /\ \A i \in 1 .. Len(s) - 1 : Tail(s)[i] = s[i + 1]
  OBVIOUS
<1>2. ASSUME NEW y
      PROVE  y \in Range(Tail(s)) <=> \E i \in 1 .. Len(s) - 1 : s[i + 1] = y
  <2> DEFINE t == Tail(s)
  <2>1. t \in Seq(S) /\ Len(t) = Len(s) - 1 /\ \A i \in 1 .. Len(s) - 1 : t[i] = s[i + 1]
    BY <1>1
  <2> HIDE DEF t
  <2>2. y \in Range(t) <=> \E i \in 1 .. Len(t) : t[i] = y
    BY <2>1, InRange
  <2>3. y \in Range(t) <=> \E i \in 1 .. Len(s) - 1 : s[i + 1] = y
    BY <2>1, <2>2
  <2> QED
    BY <2>3 DEF t
<1>3. ASSUME NEW y
      PROVE  y \in Range(s) <=> y \in {Head(s)} \cup Range(Tail(s))
  <2>1. y \in Range(s) <=> \E i \in 1 .. Len(s) : s[i] = y
    BY InRange
  <2>2. y \in Range(Tail(s)) <=> \E i \in 1 .. Len(s) - 1 : s[i + 1] = y
    BY <1>2
  <2>3. \A i \in 1 .. Len(s) : i = 1 \/ (i - 1 \in 1 .. Len(s) - 1 /\ (i - 1) + 1 = i)
    BY <1>1
  <2>4. 1 \in 1 .. Len(s) /\ \A i \in 1 .. Len(s) - 1 : i + 1 \in 1 .. Len(s)
    BY <1>1
  <2> QED
    BY <1>1, <2>1, <2>2, <2>3, <2>4
<1>4. ASSUME NoRepeats(s)
      PROVE  NoRepeats(Tail(s)) /\ Head(s) \notin Range(Tail(s))
  <2>1. \A i, j \in 1 .. Len(s) - 1 : s[i + 1] = s[j + 1] => i = j
    <3>1. \A i \in 1 .. Len(s) - 1 : i \in Nat /\ i + 1 \in 1 .. Len(s)
      BY <1>1
    <3>2. \A i, j \in 1 .. Len(s) - 1 : s[i + 1] = s[j + 1] => i + 1 = j + 1
      BY <1>4, <3>1 DEF NoRepeats
    <3> QED
      BY <3>1, <3>2
  <2>2. \A i \in 1 .. Len(s) - 1 : s[i + 1] # s[1]
    <3>1. \A i \in 1 .. Len(s) - 1 : i + 1 \in 1 .. Len(s) /\ 1 \in 1 .. Len(s) /\ i + 1 # 1
      BY <1>1
    <3> QED
      BY <1>4, <3>1 DEF NoRepeats
  <2>3. Head(s) \notin Range(Tail(s))
    BY <1>1, <1>2, <2>2
  <2> QED
    BY <1>1, <2>1, <2>3 DEF NoRepeats
<1> QED
  BY <1>1, <1>3, <1>4

LEMMA FirstItemsOf ==
    ASSUME NEW S, NEW s \in Seq(S), NEW n \in Nat
    PROVE  /\ FirstItems(s, n) \in Seq(S)
           /\ Len(FirstItems(s, n)) = IF Len(s) < n THEN Len(s) ELSE n
           /\ \A i \in 1 .. Len(FirstItems(s, n)) : i \in 1 .. Len(s) /\ FirstItems(s, n)[i] = s[i]
           /\ Len(s) <= n => FirstItems(s, n) = s
<1> DEFINE k == IF Len(s) < n THEN Len(s) ELSE n
<1>1. k \in Nat /\ k <= Len(s) /\ Len(s) \in Nat
  OBVIOUS
<1> HIDE DEF k
<1>2. /\ SubSeq(s, 1, k) \in Seq(S) /\ Len(SubSeq(s, 1, k)) = k
      /\ \A i \in 1 .. k : SubSeq(s, 1, k)[i] = s[i]
  BY <1>1
<1>3. FirstItems(s, n) = SubSeq(s, 1, k)
  BY DEF FirstItems, k
<1>4. ASSUME Len(s) <= n
      PROVE  FirstItems(s, n) = s
  <2>1. k = Len(s)
    BY <1>4, <1>1 DEF k
  <2> QED
    BY <1>2, <1>3, <2>1
<1>5. \A i \in 1 .. k : i \in 1 .. Len(s)
  BY <1>1
<1> QED
  BY <1>2, <1>3, <1>4, <1>5 DEF k

LEMMA FirstNoRepeats ==
    ASSUME NEW S, NEW s \in Seq(S), NEW n \in Nat, NoRepeats(s)
    PROVE  NoRepeats(FirstItems(s, n))
BY FirstItemsOf DEF NoRepeats

-----------------------------------------------------------------------------
(* The parsers' loop over a push. *)

\* What has been kept is a list of ids.
KeptValid(base, s, kept, i) ==
    \A S : base \in Seq(S) /\ s \in Seq(S \cup {Malformed}) => kept \in Seq(S)

Parse == INSTANCE FoldInduction WITH Op <- KeepValid, P <- KeptValid

LEMMA ParsedIsList ==
    ASSUME NEW S, NEW items \in RawLists(S), NEW n \in Nat
    PROVE  FoldLeft(KeepValid, <<>>, FirstItems(items, n)) \in Seq(S)
<1> DEFINE s == FirstItems(items, n)
<1>1. s \in Seq(S \cup {Malformed})
  <2>1. PICK m \in 0 .. MaxItems : items \in [1 .. m -> S \cup {Malformed}]
    BY DEF RawLists, SeqOf
  <2>2. items \in Seq(S \cup {Malformed})
    BY <2>1, PushListsAssumption
  <2> QED
    BY <2>2, FirstItemsOf
<1> HIDE DEF s
<1>2. KeptValid(<<>>, s, <<>>, 0)
  BY DEF KeptValid
<1>3. ASSUME NEW kept, NEW i, i \in 1 .. Len(s) /\ KeptValid(<<>>, s, kept, i - 1)
      PROVE  KeptValid(<<>>, s, KeepValid(kept, s[i]), i)
  <2> SUFFICES ASSUME NEW T, <<>> \in Seq(T), s \in Seq(T \cup {Malformed})
               PROVE  KeepValid(kept, s[i]) \in Seq(T)
    BY DEF KeptValid
  <2>1. kept \in Seq(T) /\ s[i] \in T \cup {Malformed}
    BY <1>3 DEF KeptValid
  <2> QED
    BY <2>1 DEF KeepValid
<1>4. KeptValid(<<>>, s, Parse!FoldLeft(KeepValid, <<>>, s), Len(s))
  BY <1>1, <1>2, <1>3, Parse!FoldInduct
<1>5. Parse!FoldLeft(KeepValid, <<>>, s) = FoldLeft(KeepValid, <<>>, s)
  BY DEF Parse!FoldLeft, FoldLeft, Parse!MapThenFoldSet, MapThenFoldSet, Parse!Max, Max
<1> QED
  BY <1>1, <1>4, <1>5 DEF KeptValid, s

LEMMA PushesAreLists ==
    /\ BuildingPushes \subseteq Seq(Uuids)
    /\ VisitorPushes \subseteq Seq(Uids)
BY ParsedIsList, PushListsAssumption
   DEF BuildingPushes, VisitorPushes, ParseInitBuildings, ParseInitVisitors

-----------------------------------------------------------------------------
(* Several pushes make one list. *)

\* The list so far is without repeats and within its limit, if it was so.
AppendedNew(base, s, list, i) ==
    \A S : base \in Seq(S) /\ s \in Seq(S) =>
              /\ list \in Seq(S)
              /\ NoRepeats(base) => NoRepeats(list)
              /\ Len(base) <= MaxAggregate => Len(list) <= MaxAggregate

Aggregate == INSTANCE FoldInduction WITH Op <- AppendNew, P <- AppendedNew

LEMMA AppendNewOf ==
    ASSUME NEW S, NEW list \in Seq(S), NEW x \in S
    PROVE  /\ AppendNew(list, x) \in Seq(S)
           /\ NoRepeats(list) => NoRepeats(AppendNew(list, x))
           /\ Len(list) <= MaxAggregate => Len(AppendNew(list, x)) <= MaxAggregate
<1>1. CASE Len(list) >= MaxAggregate \/ x \in Range(list)
  BY <1>1 DEF AppendNew
<1>2. CASE ~(Len(list) >= MaxAggregate \/ x \in Range(list))
  <2>1. AppendNew(list, x) = Append(list, x)
    BY <1>2 DEF AppendNew
  <2>2. Len(Append(list, x)) = Len(list) + 1 /\ Len(list) \in Nat /\ MaxAggregate \in Nat
    BY AppendRange, PushListsAssumption
  <2> QED
    BY <1>2, <2>1, <2>2, AppendRange, AppendNoRepeats
<1> QED
  BY <1>1, <1>2

LEMMA AppendAllOf ==
    ASSUME NEW S, NEW list \in Seq(S), NEW items \in Seq(S)
    PROVE  /\ AppendAll(list, items) \in Seq(S)
           /\ NoRepeats(list) => NoRepeats(AppendAll(list, items))
           /\ Len(list) <= MaxAggregate => Len(AppendAll(list, items)) <= MaxAggregate
<1>1. AppendedNew(list, items, list, 0)
  BY DEF AppendedNew
<1>2. ASSUME NEW acc, NEW i, i \in 1 .. Len(items) /\ AppendedNew(list, items, acc, i - 1)
      PROVE  AppendedNew(list, items, AppendNew(acc, items[i]), i)
  <2> SUFFICES ASSUME NEW T, list \in Seq(T), items \in Seq(T)
               PROVE  /\ AppendNew(acc, items[i]) \in Seq(T)
                      /\ NoRepeats(list) => NoRepeats(AppendNew(acc, items[i]))
                      /\ Len(list) <= MaxAggregate => Len(AppendNew(acc, items[i])) <= MaxAggregate
    BY DEF AppendedNew
  <2>1. /\ acc \in Seq(T) /\ items[i] \in T
        /\ NoRepeats(list) => NoRepeats(acc)
        /\ Len(list) <= MaxAggregate => Len(acc) <= MaxAggregate
    BY <1>2 DEF AppendedNew
  <2> QED
    BY <2>1, AppendNewOf
<1>3. AppendedNew(list, items, Aggregate!FoldLeft(AppendNew, list, items), Len(items))
  BY <1>1, <1>2, Aggregate!FoldInduct
<1>4. Aggregate!FoldLeft(AppendNew, list, items) = FoldLeft(AppendNew, list, items)
  BY DEF Aggregate!FoldLeft, FoldLeft, Aggregate!MapThenFoldSet, MapThenFoldSet, Aggregate!Max, Max
<1> QED
  BY <1>3, <1>4 DEF AppendedNew, AppendAll

\* However the server cuts, repeats or pads its lists, a run works on lists of
\* ids without repeats and within their limit (ParseInitBuildings,
\* ParseInitVisitors, dedupeBuildings and dedupeVisitors).
THEOREM ListsAreSound ==
    /\ \A list \in BuildingLists :
          list \in Seq(Uuids) /\ NoRepeats(list) /\ Len(list) <= MaxAggregate
    /\ \A list \in VisitorLists :
          list \in Seq(Uids) /\ NoRepeats(list) /\ Len(list) <= MaxAggregate
<1>1. ASSUME NEW S, NEW items \in Seq(S)
      PROVE  /\ AppendAll(<<>>, items) \in Seq(S)
             /\ NoRepeats(AppendAll(<<>>, items))
             /\ Len(AppendAll(<<>>, items)) <= MaxAggregate
  <2>1. <<>> \in Seq(S) /\ Len(<<>>) = 0 /\ NoRepeats(<<>>) /\ Len(<<>>) <= MaxAggregate
    BY PushListsAssumption DEF NoRepeats
  <2> QED
    BY <2>1, AppendAllOf
<1> QED
  BY <1>1, PushesAreLists DEF BuildingLists, VisitorLists

-----------------------------------------------------------------------------
(* Failures and losses. *)

\* Errors are failures, a lost connection among them ends the core.
LossInv ==
    /\ errs \subseteq Failures
    /\ errs \cap Fatal # {} => step = "done"

\* A connection that is broken without an error has not been used yet.
LinkInv ==
    /\ link \in {"up"} \cup Fatal
    /\ link # "up" /\ errs \cap Fatal = {} => step \in {"filter", "idle.peek"}

IInv == FailuresHeeded /\ LossInv /\ LinkInv

PromiseStep == Promise!PromiseNext \/ UNCHANGED Promise!promiseVars

LEMMA InitIInv == Init => IInv
BY DEF Init, IInv, FailuresHeeded, LossInv, LinkInv, Fatal, Failures

\* What every request does to the errors and to the connection.
LEMMA RequestStep ==
    ASSUME NEW o, NEW what, IInv, Send(what, o), Join(o),
           step # "done",
           o \in Fatal => step' = "done",
           o \notin Fatal => step' # "done"
    PROVE  IInv' /\ PromiseStep
<1>1. /\ o \in IF link = "up" THEN {"none"} \cup Failures ELSE {link}
      /\ late' = (late \/ errs \cap Fatal # {})
      /\ faults' = faults \cup ErrorOf(o)
      /\ link' = IF o \in Fatal THEN o ELSE link
      /\ errs' = errs \cup ErrorOf(o)
  BY DEF Send, Join, Outcomes
<1>2. errs \cap Fatal = {} /\ ~late /\ errs = faults /\ errs \subseteq Failures
  BY DEF IInv, FailuresHeeded, LossInv
<1>3. link \in {"up"} \cup Fatal
  BY DEF IInv, LinkInv
<1>4. o \in {"none"} \cup Failures /\ (link # "up" => o = link /\ o \in Fatal)
  BY <1>1, <1>3 DEF Fatal, Failures
<1>5. ErrorOf(o) = IF o = "none" THEN {} ELSE {o}
  BY <1>4 DEF ErrorOf, Failures
<1>6. FailuresHeeded'
  BY <1>1, <1>2 DEF FailuresHeeded
<1>7. LossInv'
  <2>1. errs' \subseteq Failures
    BY <1>1, <1>2, <1>4, <1>5
  <2>2. errs' \cap Fatal # {} => o \in Fatal
    BY <1>1, <1>2, <1>5
  <2> QED
    BY <2>1, <2>2 DEF LossInv
<1>8. LinkInv'
  <2>1. CASE o \in Fatal
    BY <2>1, <1>1, <1>4, <1>5 DEF LinkInv, Fatal, Failures
  <2>2. CASE o \notin Fatal
    BY <2>2, <1>1, <1>3, <1>4 DEF LinkInv
  <2> QED
    BY <2>1, <2>2
<1>9. PromiseStep
  <2>1. CASE o = "none"
    <3>1. o \notin Fatal
      BY <2>1 DEF Fatal
    <3>2. link' = link /\ errs' = errs
      BY <3>1, <2>1, <1>1, <1>5
    <3> QED
      BY <3>1, <3>2 DEF PromiseStep, Promise!promiseVars, PartDone
  <2>2. CASE o \in Failures \ Fatal
    <3>1. link = "up" /\ link' = link /\ errs' = errs \cup {o} /\ o # "none"
      BY <2>2, <1>1, <1>4, <1>5 DEF Failures, Fatal
    <3>2. Promise!Fail(o)
      BY <3>1, <2>2 DEF Promise!Fail, Promise!Fatal, Fatal
    <3> QED
      BY <3>2, <2>2 DEF PromiseStep, Promise!PromiseNext, Promise!Failures, Failures
  <2>3. CASE o \in Fatal
    <3>1. link \in {"up", o} /\ link' = o /\ errs' = errs \cup {o} /\ o # "none"
      BY <2>3, <1>1, <1>3, <1>4, <1>5 DEF Fatal
    <3>2. PartDone' = "done"
      BY <3>1, <2>3 DEF PartDone
    <3>3. Promise!Fail(o)
      BY <3>1, <3>2, <2>3 DEF Promise!Fail, Promise!Fatal, Fatal
    <3> QED
      BY <3>3, <2>3 DEF PromiseStep, Promise!PromiseNext, Promise!Failures, Fatal
  <2> QED
    BY <2>1, <2>2, <2>3, <1>4
<1> QED
  BY <1>6, <1>7, <1>8, <1>9 DEF IInv

\* A step that sends nothing and does not end the core.
LEMMA SilentStep ==
    ASSUME IInv, UNCHANGED <<link, errs, faults, late>>,
           step # "done", step' # "done",
           step \in {"filter", "idle.peek"} => step' \in {"filter", "idle.peek"}
    PROVE  IInv' /\ PromiseStep
<1>1. IInv'
  BY DEF IInv, FailuresHeeded, LossInv, LinkInv
<1>2. PromiseStep
  BY DEF PromiseStep, Promise!promiseVars
<1> QED
  BY <1>1, <1>2

\* The end of the core: its first request was answered, so the connection is up.
LEMMA CollectedStep ==
    ASSUME IInv, Collected
    PROVE  IInv' /\ PromiseStep
<1>1. /\ UNCHANGED <<link, errs, faults, late>>
      /\ step = "build" /\ step' = "done"
  BY DEF Collected
<1>2. errs \cap Fatal = {} /\ link = "up"
  BY <1>1 DEF IInv, LossInv, LinkInv
<1>3. IInv'
  BY <1>1, <1>2 DEF IInv, FailuresHeeded, LossInv, LinkInv
<1>4. PartDone' = "features"
  BY <1>1, <1>2 DEF PartDone
<1>5. Promise!CoreDone
  BY <1>1, <1>2, <1>4 DEF Promise!CoreDone
<1> QED
  BY <1>3, <1>5 DEF PromiseStep, Promise!PromiseNext

\* Each request is sent while the core runs, and ends it on a loss only.
LEMMA RequestCases ==
    ASSUME NEW o, IInv, Request(o)
    PROVE  IInv' /\ PromiseStep
<1> USE DEF NextAction
<1>1. CASE PeekIdle(o)
  <2>1. Send({}, o) /\ Join(o) /\ step # "done"
    BY <1>1 DEF PeekIdle
  <2>2. (o \in Fatal => step' = "done") /\ (o \notin Fatal => step' # "done")
    BY <1>1 DEF PeekIdle, Fatal, Failures
  <2> QED
    BY <2>1, <2>2, RequestStep
<1>2. CASE ClaimIdle(o)
  <2>1. Send({}, o) /\ Join(o) /\ step # "done"
    BY <1>2 DEF ClaimIdle
  <2>2. (o \in Fatal => step' = "done") /\ (o \notin Fatal => step' # "done")
    BY <1>2 DEF ClaimIdle
  <2> QED
    BY <2>1, <2>2, RequestStep
<1>3. CASE Greet(o)
  <2>1. Send({<<"greet", Head(queue)>>}, o) /\ Join(o) /\ step # "done"
    BY <1>3 DEF Greet
  <2>2. (o \in Fatal => step' = "done") /\ (o \notin Fatal => step' # "done")
    BY <1>3 DEF Greet
  <2> QED
    BY <2>1, <2>2, RequestStep
<1>4. CASE ListMailPage(o)
  <2>1. Send({}, o) /\ Join(o) /\ step = "mail.list"
    BY <1>4 DEF ListMailPage
  <2>2. ASSUME NEW ms, MailListed(ms)
        PROVE  step' # "done"
    BY <2>2 DEF MailListed
  <2>3. CASE o \in Fatal
    <3>1. o \in Failures
      BY <2>3 DEF Fatal, Failures
    <3>2. step' = "done"
      BY <1>4, <2>3, <3>1 DEF ListMailPage
    <3> QED
      BY <2>1, <2>3, <3>2, RequestStep
  <2>4. CASE o \notin Fatal
    <3>1. CASE o \in Failures
      BY <1>4, <2>1, <2>2, <2>4, <3>1, RequestStep DEF ListMailPage
    <3>2. CASE o \notin Failures
      <4>1. PICK items \in MailPages, more \in BOOLEAN :
               LET ms == FoldLeft(TakeMail, mail, items)
               IN (UNCHANGED step \/ MailListed(ms))
        BY <1>4, <3>2 DEF ListMailPage
      <4>2. step' # "done"
        BY <4>1, <2>1, <2>2
      <4> QED
        BY <2>1, <2>4, <4>2, RequestStep
    <3> QED
      BY <3>1, <3>2
  <2> QED
    BY <2>3, <2>4
<1>5. CASE ReadMail(o)
  <2>1. Send({<<"read", m>> : m \in Range(Head(queue))}, o) /\ Join(o) /\ step # "done"
    BY <1>5 DEF ReadMail
  <2>2. (o \in Fatal => step' = "done") /\ (o \notin Fatal => step' # "done")
    BY <1>5 DEF ReadMail
  <2> QED
    BY <2>1, <2>2, RequestStep
<1>6. CASE ClaimMail(o)
  <2>1. Send({<<"reward", m>> : m \in Range(Head(queue))}, o) /\ Join(o) /\ step # "done"
    BY <1>6 DEF ClaimMail
  <2>2. (o \in Fatal => step' = "done") /\ (o \notin Fatal => step' # "done")
    BY <1>6 DEF ClaimMail
  <2> QED
    BY <2>1, <2>2, RequestStep
<1>7. CASE AskHelp(o)
  <2>1. Send({}, o) /\ Join(o) /\ step # "done"
    BY <1>7 DEF AskHelp
  <2>2. (o \in Fatal => step' = "done") /\ (o \notin Fatal => step' # "done")
    BY <1>7 DEF AskHelp, Fatal, Failures
  <2> QED
    BY <2>1, <2>2, RequestStep
<1>8. CASE HelpAll(o)
  <2>1. Send({}, o) /\ Join(o) /\ step # "done"
    BY <1>8 DEF HelpAll
  <2>2. (o \in Fatal => step' = "done") /\ (o \notin Fatal => step' # "done")
    BY <1>8 DEF HelpAll
  <2> QED
    BY <2>1, <2>2, RequestStep
<1>9. CASE ListGifts(o)
  <2>1. Send({}, o) /\ Join(o) /\ step # "done"
    BY <1>9 DEF ListGifts
  <2>2. (o \in Fatal => step' = "done") /\ (o \notin Fatal => step' # "done")
    BY <1>9 DEF ListGifts
  <2> QED
    BY <2>1, <2>2, RequestStep
<1>10. CASE ClaimGifts(o)
  <2>1. Send({}, o) /\ Join(o) /\ step # "done"
    BY <1>10 DEF ClaimGifts
  <2>2. (o \in Fatal => step' = "done") /\ (o \notin Fatal => step' # "done")
    BY <1>10 DEF ClaimGifts
  <2> QED
    BY <2>1, <2>2, RequestStep
<1>11. CASE AskTech(o)
  <2>1. Send({}, o) /\ Join(o) /\ step # "done"
    BY <1>11 DEF AskTech
  <2>2. (o \in Fatal => step' = "done") /\ (o \notin Fatal => step' # "done")
    BY <1>11 DEF AskTech, Fatal, Failures
  <2> QED
    BY <2>1, <2>2, RequestStep
<1>12. CASE Donate(o)
  <2>1. Send({}, o) /\ Join(o) /\ step # "done"
    BY <1>12 DEF Donate
  <2>2. (o \in Fatal => step' = "done") /\ (o \notin Fatal => step' # "done")
    BY <1>12 DEF Donate
  <2> QED
    BY <2>1, <2>2, RequestStep
<1>13. CASE AskVip(o)
  <2>1. Send({}, o) /\ Join(o) /\ step # "done"
    BY <1>13 DEF AskVip
  <2>2. (o \in Fatal => step' = "done") /\ (o \notin Fatal => step' # "done")
    BY <1>13 DEF AskVip
  <2> QED
    BY <2>1, <2>2, RequestStep
<1>14. CASE ClaimVip(o)
  <2>1. Send({}, o) /\ Join(o) /\ step # "done"
    BY <1>14 DEF ClaimVip
  <2>2. (o \in Fatal => step' = "done") /\ (o \notin Fatal => step' # "done")
    BY <1>14 DEF ClaimVip
  <2> QED
    BY <2>1, <2>2, RequestStep
<1>15. CASE CollectBuilding(o)
  <2>1. Send({<<"collect", Head(queue)>>}, o) /\ Join(o) /\ step # "done"
    BY <1>15 DEF CollectBuilding
  <2>2. (o \in Fatal => step' = "done") /\ (o \notin Fatal => step' # "done")
    BY <1>15 DEF CollectBuilding
  <2> QED
    BY <2>1, <2>2, RequestStep
<1> QED
  BY <1>1, <1>2, <1>3, <1>4, <1>5, <1>6, <1>7, <1>8, <1>9, <1>10, <1>11, <1>12, <1>13,
     <1>14, <1>15 DEF Request

LEMMA NextIInv ==
    ASSUME IInv, [Next]_vars
    PROVE  IInv' /\ PromiseStep
<1>1. CASE UNCHANGED vars
  BY <1>1 DEF vars, IInv, FailuresHeeded, LossInv, LinkInv, PromiseStep, Promise!promiseVars,
              PartDone
<1>2. CASE FilterBuilding \/ Filtered
  BY <1>2, SilentStep DEF FilterBuilding, Filtered
<1>3. CASE Greeted \/ MailRead \/ MailClaimed
  BY <1>3, SilentStep DEF Greeted, MailRead, MailClaimed
<1>4. CASE SkipGifts \/ BlindGifts \/ GiftsClaimed \/ SkipTech
  BY <1>4, SilentStep DEF SkipGifts, BlindGifts, GiftsClaimed, SkipTech
<1>5. CASE VipAtHand \/ VipClaimed
  BY <1>5, SilentStep DEF VipAtHand, VipClaimed
<1>6. CASE Collected
  BY <1>6, CollectedStep
<1>7. CASE \E o \in Outcomes : Request(o)
  BY <1>7, RequestCases
<1> QED
  BY <1>1, <1>2, <1>3, <1>4, <1>5, <1>6, <1>7 DEF Next

LEMMA SpecIInv == SafeSpec => []IInv
<1>1. IInv /\ [Next]_vars => IInv'
  BY NextIInv
<1> QED
  BY <1>1, InitIInv, PTL DEF SafeSpec

\* Every failed request is in the error that collectCore returns, and after a
\* loss of the connection it sends nothing (the loops of buildings.go,
\* visitors.go, mail.go, alliance.go and vip.go, for any lists and caps).
THEOREM FailuresAreHeeded == SafeSpec => []FailuresHeeded
<1>1. IInv => FailuresHeeded
  BY DEF IInv
<1> QED
  BY <1>1, SpecIInv, PTL

\* collectCore does to the connection and to the error only what the rest of a
\* run expects of it (the safety part of CollectPromise).
THEOREM ImplementsPromise == SafeSpec => Promise!CoreSafety
<1>1. Init => Promise!PromiseInit
  BY DEF Init, Promise!PromiseInit, Promise!Fatal, Fatal
<1>2. IInv /\ [Next]_vars => [Promise!PromiseNext]_(Promise!promiseVars)
  BY NextIInv DEF PromiseStep
<1> QED
  BY <1>1, <1>2, SpecIInv, PTL DEF SafeSpec, Promise!CoreSafety

-----------------------------------------------------------------------------
(***************************************************************************)
(* The lists collectCore works through, each of them folded from another.  *)
(***************************************************************************)

\* kept has, once each, those of the first i elements of s that are in T.
KeptOf(S, T, s, i, kept) ==
    /\ kept \in Seq(S)
    /\ Range(kept) = {s[j] : j \in {k \in 1 .. i : s[k] \in T}}
    /\ NoRepeats(s) => NoRepeats(kept)

LEMMA KeepsNone ==
    ASSUME NEW S, NEW T, NEW s
    PROVE  KeptOf(S, T, s, 0, <<>>)
BY EmptyRange DEF KeptOf, NoRepeats

LEMMA KeepNext ==
    ASSUME NEW S, NEW T, NEW s \in Seq(S), NEW i \in 1 .. Len(s), NEW kept,
           KeptOf(S, T, s, i - 1, kept)
    PROVE  /\ s[i] \in T => KeptOf(S, T, s, i, Append(kept, s[i]))
           /\ s[i] \notin T => KeptOf(S, T, s, i, kept)
<1> DEFINE Up(n) == {s[j] : j \in {k \in 1 .. n : s[k] \in T}}
<1>1. /\ s[i] \in S /\ i \in Nat /\ i - 1 \in Nat /\ kept \in Seq(S)
      /\ \A k : k \in 1 .. i <=> k \in 1 .. i - 1 \/ k = i
      /\ \A k \in 1 .. i - 1 : k \in 1 .. Len(s) /\ k # i
  BY DEF KeptOf
<1>2. Range(kept) = Up(i - 1)
  BY DEF KeptOf
<1>3. ASSUME s[i] \in T
      PROVE  KeptOf(S, T, s, i, Append(kept, s[i]))
  <2>1. Up(i) = Up(i - 1) \cup {s[i]}
    BY <1>1, <1>3
  <2>2. /\ Append(kept, s[i]) \in Seq(S)
        /\ Range(Append(kept, s[i])) = Range(kept) \cup {s[i]}
    BY <1>1, AppendRange
  <2>3. ASSUME NoRepeats(s)
        PROVE  NoRepeats(Append(kept, s[i]))
    <3>1. s[i] \notin Range(kept)
      BY <1>1, <1>2, <2>3 DEF NoRepeats
    <3>2. NoRepeats(kept)
      BY <2>3 DEF KeptOf
    <3> QED
      BY <1>1, <3>1, <3>2, AppendNoRepeats
  <2> QED
    BY <1>2, <2>1, <2>2, <2>3 DEF KeptOf
<1>4. ASSUME s[i] \notin T
      PROVE  KeptOf(S, T, s, i, kept)
  <2>1. Up(i) = Up(i - 1)
    BY <1>1, <1>4
  <2> QED
    BY <1>2, <2>1 DEF KeptOf
<1> QED
  BY <1>3, <1>4

LEMMA KeptAll ==
    ASSUME NEW S, NEW T, NEW s \in Seq(S), NEW kept, KeptOf(S, T, s, Len(s), kept)
    PROVE  /\ kept \in Seq(S)
           /\ Range(kept) = Range(s) \cap T
           /\ NoRepeats(s) => NoRepeats(kept)
BY RangeIs DEF KeptOf

\* The visitors that may be greeted, once each.
GreetKept(base, s, list, i) ==
    \A S : base = <<>> /\ s \in Seq(S) => KeptOf(S, {v \in S : Greetable(v)}, s, i, list)

GreetFold == INSTANCE FoldInduction WITH Op <- AddToGreet, P <- GreetKept

LEMMA ToGreetIs ==
    ASSUME NEW S, visitors \in Seq(S), NoRepeats(visitors)
    PROVE  /\ ToGreet \in Seq(S) /\ NoRepeats(ToGreet)
           /\ Range(ToGreet) = {v \in Range(visitors) : Greetable(v)}
<1>1. GreetKept(<<>>, visitors, <<>>, 0)
  BY KeepsNone DEF GreetKept
<1>2. ASSUME NEW acc, NEW i, i \in 1 .. Len(visitors) /\ GreetKept(<<>>, visitors, acc, i - 1)
      PROVE  GreetKept(<<>>, visitors, AddToGreet(acc, visitors[i]), i)
  <2> SUFFICES ASSUME NEW T, visitors \in Seq(T)
               PROVE  KeptOf(T, {v \in T : Greetable(v)}, visitors, i, AddToGreet(acc, visitors[i]))
    BY DEF GreetKept
  <2>1. KeptOf(T, {v \in T : Greetable(v)}, visitors, i - 1, acc)
    BY <1>2 DEF GreetKept
  <2>2. visitors[i] \in T
    BY <1>2
  <2> QED
    BY <1>2, <2>1, <2>2, KeepNext DEF AddToGreet
<1>3. GreetKept(<<>>, visitors, GreetFold!FoldLeft(AddToGreet, <<>>, visitors), Len(visitors))
  BY <1>1, <1>2, GreetFold!FoldInduct
<1>4. GreetFold!FoldLeft(AddToGreet, <<>>, visitors) = ToGreet
  BY DEF ToGreet, GreetFold!FoldLeft, FoldLeft, GreetFold!MapThenFoldSet, MapThenFoldSet, GreetFold!Max, Max
<1>5. KeptOf(S, {v \in S : Greetable(v)}, visitors, Len(visitors), ToGreet)
  BY <1>3, <1>4 DEF GreetKept
<1>6. /\ ToGreet \in Seq(S) /\ NoRepeats(ToGreet)
      /\ Range(ToGreet) = Range(visitors) \cap {v \in S : Greetable(v)}
  BY <1>5, KeptAll
<1>7. Range(visitors) \subseteq S
  BY RangeIs
<1> QED
  BY <1>6, <1>7

\* The mails that are unread, once each.
UnreadKept(base, s, list, i) ==
    \A S : base = <<>> /\ s \in Seq(S) => KeptOf(S, {m \in S : Unread(m)}, s, i, list)

UnreadFold == INSTANCE FoldInduction WITH Op <- AddUnread, P <- UnreadKept

LEMMA UnreadIs ==
    ASSUME NEW S, NEW ms \in Seq(S), NoRepeats(ms)
    PROVE  /\ FoldLeft(AddUnread, <<>>, ms) \in Seq(S)
           /\ NoRepeats(FoldLeft(AddUnread, <<>>, ms))
           /\ Range(FoldLeft(AddUnread, <<>>, ms)) = {m \in Range(ms) : Unread(m)}
<1>1. UnreadKept(<<>>, ms, <<>>, 0)
  BY KeepsNone DEF UnreadKept
<1>2. ASSUME NEW acc, NEW i, i \in 1 .. Len(ms) /\ UnreadKept(<<>>, ms, acc, i - 1)
      PROVE  UnreadKept(<<>>, ms, AddUnread(acc, ms[i]), i)
  <2> SUFFICES ASSUME NEW T, ms \in Seq(T)
               PROVE  KeptOf(T, {m \in T : Unread(m)}, ms, i, AddUnread(acc, ms[i]))
    BY DEF UnreadKept
  <2>1. KeptOf(T, {m \in T : Unread(m)}, ms, i - 1, acc)
    BY <1>2 DEF UnreadKept
  <2>2. ms[i] \in T
    BY <1>2
  <2> QED
    BY <1>2, <2>1, <2>2, KeepNext DEF AddUnread
<1>3. UnreadKept(<<>>, ms, UnreadFold!FoldLeft(AddUnread, <<>>, ms), Len(ms))
  BY <1>1, <1>2, UnreadFold!FoldInduct
<1>4. UnreadFold!FoldLeft(AddUnread, <<>>, ms) = FoldLeft(AddUnread, <<>>, ms)
  BY DEF UnreadFold!FoldLeft, FoldLeft, UnreadFold!MapThenFoldSet, MapThenFoldSet, UnreadFold!Max, Max
<1>5. KeptOf(S, {m \in S : Unread(m)}, ms, Len(ms), FoldLeft(AddUnread, <<>>, ms))
  BY <1>3, <1>4 DEF UnreadKept
<1>6. /\ FoldLeft(AddUnread, <<>>, ms) \in Seq(S) /\ NoRepeats(FoldLeft(AddUnread, <<>>, ms))
      /\ Range(FoldLeft(AddUnread, <<>>, ms)) = Range(ms) \cap {m \in S : Unread(m)}
  BY <1>5, KeptAll
<1>7. Range(ms) \subseteq S
  BY RangeIs
<1> QED
  BY <1>6, <1>7

\* The mails of each group whose reward is claimed, once each.
OfGroup(S, g) == {m \in S : Unclaimed(m) /\ MailFacts[m].group = g}

GroupKept(base, s, byGroup, i) ==
    \A S : base = [g \in Range(ShowGroups) |-> <<>>] /\ s \in Seq(S) =>
              /\ byGroup = [g \in Range(ShowGroups) |-> byGroup[g]]
              /\ \A g \in Range(ShowGroups) : KeptOf(S, OfGroup(S, g), s, i, byGroup[g])

GroupFold == INSTANCE FoldInduction WITH Op <- AddToGroup, P <- GroupKept

LEMMA ByGroupIs ==
    ASSUME NEW S, NEW ms \in Seq(S), NoRepeats(ms), NEW g \in Range(ShowGroups)
    PROVE  /\ ByGroup(ms)[g] \in Seq(S)
           /\ NoRepeats(ByGroup(ms)[g])
           /\ Range(ByGroup(ms)[g]) = {m \in Range(ms) : Unclaimed(m) /\ MailFacts[m].group = g}
<1> DEFINE none == [h \in Range(ShowGroups) |-> <<>>]
<1>1. GroupKept(none, ms, none, 0)
  BY KeepsNone DEF GroupKept
<1> HIDE DEF none
<1>2. ASSUME NEW acc, NEW i, i \in 1 .. Len(ms) /\ GroupKept(none, ms, acc, i - 1)
      PROVE  GroupKept(none, ms, AddToGroup(acc, ms[i]), i)
  <2> SUFFICES ASSUME NEW T, none = [h \in Range(ShowGroups) |-> <<>>], ms \in Seq(T)
               PROVE  /\ AddToGroup(acc, ms[i]) = [h \in Range(ShowGroups) |-> AddToGroup(acc, ms[i])[h]]
                      /\ \A h \in Range(ShowGroups) :
                            KeptOf(T, OfGroup(T, h), ms, i, AddToGroup(acc, ms[i])[h])
    BY DEF GroupKept
  <2>1. /\ acc = [h \in Range(ShowGroups) |-> acc[h]]
        /\ \A h \in Range(ShowGroups) : KeptOf(T, OfGroup(T, h), ms, i - 1, acc[h])
    BY <1>2 DEF GroupKept
  <2>2. ms[i] \in T /\ i \in 1 .. Len(ms)
    BY <1>2
  <2>3. CASE Unclaimed(ms[i])
    <3>1. AddToGroup(acc, ms[i]) =
              [h \in Range(ShowGroups) |->
                  IF h = MailFacts[ms[i]].group THEN Append(acc[h], ms[i]) ELSE acc[h]]
      BY <2>1, <2>3 DEF AddToGroup
    <3>2. ASSUME NEW h \in Range(ShowGroups)
          PROVE  KeptOf(T, OfGroup(T, h), ms, i, AddToGroup(acc, ms[i])[h])
      <4>1. ms[i] \in OfGroup(T, h) <=> h = MailFacts[ms[i]].group
        BY <2>2, <2>3 DEF OfGroup
      <4>2. AddToGroup(acc, ms[i])[h] = IF ms[i] \in OfGroup(T, h) THEN Append(acc[h], ms[i]) ELSE acc[h]
        BY <3>1, <4>1
      <4> QED
        BY <2>1, <2>2, <4>2, KeepNext
    <3> QED
      BY <3>1, <3>2
  <2>4. CASE ~Unclaimed(ms[i])
    <3>1. AddToGroup(acc, ms[i]) = acc
      BY <2>4 DEF AddToGroup
    <3>2. \A h \in Range(ShowGroups) : ms[i] \notin OfGroup(T, h)
      BY <2>4 DEF OfGroup
    <3> QED
      BY <2>1, <2>2, <3>1, <3>2, KeepNext
  <2> QED
    BY <2>3, <2>4
<1>3. GroupKept(none, ms, GroupFold!FoldLeft(AddToGroup, none, ms), Len(ms))
  BY <1>1, <1>2, GroupFold!FoldInduct
<1>4. GroupFold!FoldLeft(AddToGroup, none, ms) = ByGroup(ms)
  BY DEF none, ByGroup, GroupFold!FoldLeft, FoldLeft, GroupFold!MapThenFoldSet, MapThenFoldSet,
         GroupFold!Max, Max
<1>5. KeptOf(S, OfGroup(S, g), ms, Len(ms), ByGroup(ms)[g])
  BY <1>3, <1>4 DEF GroupKept, none
<1>6. /\ ByGroup(ms)[g] \in Seq(S) /\ NoRepeats(ByGroup(ms)[g])
      /\ Range(ByGroup(ms)[g]) = Range(ms) \cap OfGroup(S, g)
  BY <1>5, KeptAll
<1>7. Range(ms) \subseteq S
  BY RangeIs
<1> QED
  BY <1>6, <1>7 DEF OfGroup

\* The mail of a page that is new.
TakenMail(base, s, ms, i) ==
    \A S : base \in Seq(S) /\ s \in Seq(S) => ms \in Seq(S) /\ (NoRepeats(base) => NoRepeats(ms))

MailFold == INSTANCE FoldInduction WITH Op <- TakeMail, P <- TakenMail

LEMMA TakeMailOf ==
    ASSUME NEW S, NEW base \in Seq(S), NEW items \in Seq(S)
    PROVE  /\ FoldLeft(TakeMail, base, items) \in Seq(S)
           /\ NoRepeats(base) => NoRepeats(FoldLeft(TakeMail, base, items))
<1>1. TakenMail(base, items, base, 0)
  BY DEF TakenMail
<1>2. ASSUME NEW acc, NEW i, i \in 1 .. Len(items) /\ TakenMail(base, items, acc, i - 1)
      PROVE  TakenMail(base, items, TakeMail(acc, items[i]), i)
  <2> SUFFICES ASSUME NEW T, base \in Seq(T), items \in Seq(T)
               PROVE  /\ TakeMail(acc, items[i]) \in Seq(T)
                      /\ NoRepeats(base) => NoRepeats(TakeMail(acc, items[i]))
    BY DEF TakenMail
  <2>1. acc \in Seq(T) /\ items[i] \in T /\ (NoRepeats(base) => NoRepeats(acc))
    BY <1>2 DEF TakenMail
  <2>2. \/ TakeMail(acc, items[i]) = acc
        \/ items[i] \notin Range(acc) /\ TakeMail(acc, items[i]) = Append(acc, items[i])
    BY DEF TakeMail
  <2>3. CASE TakeMail(acc, items[i]) = acc
    BY <2>1, <2>3
  <2>4. CASE items[i] \notin Range(acc) /\ TakeMail(acc, items[i]) = Append(acc, items[i])
    <3>1. Append(acc, items[i]) \in Seq(T)
      BY <2>1, AppendRange
    <3>2. NoRepeats(base) => NoRepeats(Append(acc, items[i]))
      BY <2>1, <2>4, AppendNoRepeats
    <3> QED
      BY <2>4, <3>1, <3>2
  <2> QED
    BY <2>2, <2>3, <2>4
<1>3. TakenMail(base, items, MailFold!FoldLeft(TakeMail, base, items), Len(items))
  BY <1>1, <1>2, MailFold!FoldInduct
<1>4. MailFold!FoldLeft(TakeMail, base, items) = FoldLeft(TakeMail, base, items)
  BY DEF MailFold!FoldLeft, FoldLeft, MailFold!MapThenFoldSet, MapThenFoldSet, MailFold!Max, Max
<1> QED
  BY <1>3, <1>4 DEF TakenMail

-----------------------------------------------------------------------------
(* Batches: lists cut into lists. *)

\* The members of all batches.
Members(batches) == UNION {Range(batches[k]) : k \in 1 .. Len(batches)}

\* No two batches share a member.
Apart(batches) ==
    \A k, l \in 1 .. Len(batches) : k # l => Range(batches[k]) \cap Range(batches[l]) = {}

LEMMA NoBatches == <<>> \in Seq(Seq(Mails)) /\ Members(<<>>) = {} /\ Apart(<<>>)
BY DEF Members, Apart

\* One more batch.
LEMMA MoreBatches ==
    ASSUME NEW S, NEW bs \in Seq(Seq(S)), NEW b \in Seq(S)
    PROVE  /\ Append(bs, b) \in Seq(Seq(S))
           /\ Members(Append(bs, b)) = Members(bs) \cup Range(b)
           /\ Apart(bs) /\ Members(bs) \cap Range(b) = {} => Apart(Append(bs, b))
<1> DEFINE n == Len(bs)
           cs == Append(bs, b)
<1>1. /\ n \in Nat /\ cs \in Seq(Seq(S)) /\ Len(cs) = n + 1 /\ cs[n + 1] = b
      /\ \A k \in 1 .. n : cs[k] = bs[k]
      /\ \A k : k \in 1 .. n + 1 <=> k \in 1 .. n \/ k = n + 1
      /\ n + 1 \notin 1 .. n
  OBVIOUS
<1> HIDE DEF n, cs
<1>2. Members(bs) = UNION {Range(bs[k]) : k \in 1 .. n}
  BY DEF Members, n
<1>3. Members(cs) = Members(bs) \cup Range(b)
  BY <1>1, <1>2 DEF Members
<1>4. ASSUME Apart(bs), Members(bs) \cap Range(b) = {}
      PROVE  Apart(cs)
  <2>1. \A k \in 1 .. n : Range(bs[k]) \cap Range(b) = {}
    BY <1>2, <1>4
  <2>2. \A k, l \in 1 .. n : k # l => Range(bs[k]) \cap Range(bs[l]) = {}
    BY <1>4 DEF Apart, n
  <2>3. ASSUME NEW k \in 1 .. n + 1, NEW l \in 1 .. n + 1, k # l
        PROVE  Range(cs[k]) \cap Range(cs[l]) = {}
    <3>1. CASE k \in 1 .. n /\ l \in 1 .. n
      BY <1>1, <2>2, <2>3, <3>1
    <3>2. CASE k \in 1 .. n /\ l = n + 1
      BY <1>1, <2>1, <3>2
    <3>3. CASE k = n + 1 /\ l \in 1 .. n
      BY <1>1, <2>1, <3>3
    <3> QED
      BY <1>1, <2>3, <3>1, <3>2, <3>3
  <2> QED
    BY <1>1, <2>3 DEF Apart
<1> QED
  BY <1>1, <1>3, <1>4 DEF cs

\* The first batch, and the others.
LEMMA FirstBatch ==
    ASSUME NEW S, NEW bs \in Seq(Seq(S)), bs # <<>>
    PROVE  /\ Head(bs) \in Seq(S) /\ Tail(bs) \in Seq(Seq(S))
           /\ Members(bs) = Range(Head(bs)) \cup Members(Tail(bs))
           /\ Apart(bs) => Apart(Tail(bs)) /\ Range(Head(bs)) \cap Members(Tail(bs)) = {}
<1> DEFINE n == Len(bs)
           cs == Tail(bs)
<1>1. /\ n \in Nat /\ n >= 1 /\ Head(bs) = bs[1] /\ Head(bs) \in Seq(S)
      /\ cs \in Seq(Seq(S)) /\ Len(cs) = n - 1
      /\ \A k \in 1 .. n - 1 : cs[k] = bs[k + 1]
  OBVIOUS
<1> HIDE DEF n, cs
<1>2. /\ 1 \in 1 .. n
      /\ \A k \in 1 .. n - 1 : k \in Nat /\ k + 1 \in 1 .. n /\ k + 1 # 1
      /\ \A k \in 1 .. n : k = 1 \/ (k - 1 \in 1 .. n - 1 /\ (k - 1) + 1 = k)
  BY <1>1
<1>3. Members(cs) = UNION {Range(bs[k + 1]) : k \in 1 .. n - 1}
  BY <1>1 DEF Members
<1>4. Members(bs) = Range(Head(bs)) \cup Members(cs)
  <2>1. Members(bs) = UNION {Range(bs[k]) : k \in 1 .. n}
    BY DEF Members, n
  <2>2. \A y : y \in Members(bs) <=> \E k \in 1 .. n : y \in Range(bs[k])
    BY <2>1
  <2>3. \A y : y \in Members(cs) <=> \E k \in 1 .. n - 1 : y \in Range(bs[k + 1])
    BY <1>3
  <2>4. ASSUME NEW y
        PROVE  y \in Members(bs) <=> y \in Range(Head(bs)) \cup Members(cs)
    <3>1. ASSUME NEW k \in 1 .. n, y \in Range(bs[k])
          PROVE  y \in Range(bs[1]) \/ y \in Members(cs)
      <4>1. CASE k = 1
        BY <3>1, <4>1
      <4>2. CASE k - 1 \in 1 .. n - 1 /\ (k - 1) + 1 = k
        <5>1. \E j \in 1 .. n - 1 : y \in Range(bs[j + 1])
          BY <3>1, <4>2
        <5> QED
          BY <2>3, <5>1
      <4> QED
        BY <1>2, <4>1, <4>2
    <3>2. y \in Range(bs[1]) => y \in Members(bs)
      BY <1>2, <2>2
    <3>3. y \in Members(cs) => y \in Members(bs)
      BY <1>2, <2>2, <2>3
    <3> QED
      BY <1>1, <2>2, <3>1, <3>2, <3>3
  <2> QED
    BY <2>4
<1>5. ASSUME Apart(bs)
      PROVE  Apart(cs) /\ Range(Head(bs)) \cap Members(cs) = {}
  <2>1. \A k, l \in 1 .. n : k # l => Range(bs[k]) \cap Range(bs[l]) = {}
    BY <1>5 DEF Apart, n
  <2>2. ASSUME NEW k \in 1 .. n - 1, NEW l \in 1 .. n - 1, k # l
        PROVE  Range(cs[k]) \cap Range(cs[l]) = {}
    <3>1. k + 1 # l + 1
      BY <1>2, <2>2
    <3> QED
      BY <1>1, <1>2, <2>1, <3>1
  <2>3. \A k \in 1 .. n - 1 : Range(bs[1]) \cap Range(bs[k + 1]) = {}
    BY <1>2, <2>1
  <2>4. Range(bs[1]) \cap Members(cs) = {}
    BY <1>3, <2>3
  <2> QED
    BY <1>1, <2>2, <2>4 DEF Apart
<1> QED
  BY <1>1, <1>4, <1>5 DEF cs

\* The batches that a cap leaves.
LEMMA TruncatedBatches ==
    ASSUME NEW S, NEW bs \in Seq(Seq(S)), NEW n \in Nat
    PROVE  /\ FirstItems(bs, n) \in Seq(Seq(S))
           /\ Members(FirstItems(bs, n)) \subseteq Members(bs)
           /\ Apart(bs) => Apart(FirstItems(bs, n))
           /\ Len(bs) <= n => FirstItems(bs, n) = bs
<1>1. /\ FirstItems(bs, n) \in Seq(Seq(S))
      /\ \A k \in 1 .. Len(FirstItems(bs, n)) : k \in 1 .. Len(bs) /\ FirstItems(bs, n)[k] = bs[k]
      /\ Len(bs) <= n => FirstItems(bs, n) = bs
  BY FirstItemsOf
<1>2. Members(FirstItems(bs, n)) \subseteq Members(bs)
  BY <1>1 DEF Members
<1>3. Apart(bs) => Apart(FirstItems(bs, n))
  BY <1>1 DEF Apart
<1> QED
  BY <1>1, <1>2, <1>3

\* The last batch grows.
LEMMA GrownBatch ==
    ASSUME NEW S, NEW bs \in Seq(Seq(S)), bs # <<>>, NEW x \in S,
           Apart(bs), x \notin Members(bs)
    PROVE  LET cs == Append(Front(bs), Append(Last(bs), x))
           IN cs \in Seq(Seq(S)) /\ Apart(cs) /\ Members(cs) = Members(bs) \cup {x}
<1> DEFINE n == Len(bs)
           front == Front(bs)
           b == Last(bs)
<1>1. n \in Nat /\ n >= 1 /\ n - 1 \in Nat /\ n \in 1 .. n
  OBVIOUS
<1>2. b = bs[n] /\ b \in Seq(S)
  BY <1>1 DEF Last
<1>3. /\ front \in Seq(Seq(S)) /\ Len(front) = n - 1
      /\ \A k \in 1 .. n - 1 : front[k] = bs[k]
  <2> DEFINE m == n - 1
  <2>1. m \in Nat /\ m <= Len(bs)
    BY <1>1
  <2> HIDE DEF m
  <2>2. /\ SubSeq(bs, 1, m) \in Seq(Seq(S)) /\ Len(SubSeq(bs, 1, m)) = m
        /\ \A k \in 1 .. m : SubSeq(bs, 1, m)[k] = bs[k]
    BY <2>1
  <2> QED
    BY <2>2 DEF Front, m
<1> HIDE DEF n, front, b
<1>4. \A k \in 1 .. n - 1 : k \in 1 .. n /\ k # n
  BY <1>1
<1>5. \A k \in 1 .. n : k \in 1 .. n - 1 \/ k = n
  BY <1>1
<1>6. Members(front) = UNION {Range(bs[k]) : k \in 1 .. n - 1}
  BY <1>3 DEF Members
<1>7. Members(bs) = Members(front) \cup Range(b)
  <2>1. Members(bs) = UNION {Range(bs[k]) : k \in 1 .. n}
    BY DEF Members, n
  <2> QED
    BY <1>1, <1>2, <1>4, <1>5, <1>6, <2>1
<1>8. Apart(front) /\ Members(front) \cap Range(b) = {}
  <2>1. \A k, l \in 1 .. n : k # l => Range(bs[k]) \cap Range(bs[l]) = {}
    BY DEF Apart, n
  <2>2. Apart(front)
    BY <1>3, <1>4, <2>1 DEF Apart
  <2>3. \A k \in 1 .. n - 1 : Range(bs[k]) \cap Range(bs[n]) = {}
    BY <1>1, <1>4, <2>1
  <2> QED
    BY <1>2, <1>6, <2>2, <2>3
<1>9. Append(b, x) \in Seq(S) /\ Range(Append(b, x)) = Range(b) \cup {x}
  BY <1>2, AppendRange
<1>10. Members(front) \cap Range(Append(b, x)) = {}
  BY <1>7, <1>8, <1>9
<1> DEFINE c == Append(b, x)
           cs == Append(front, c)
<1> HIDE DEF c
<1>11. c \in Seq(S) /\ Range(c) = Range(b) \cup {x} /\ Members(front) \cap Range(c) = {}
  BY <1>9, <1>10 DEF c
<1>12. cs \in Seq(Seq(S)) /\ Apart(cs) /\ Members(cs) = Members(front) \cup Range(c)
  BY <1>3, <1>8, <1>11, MoreBatches
<1> QED
  BY <1>7, <1>11, <1>12 DEF front, b, c

\* The batches of the first i mails of a list without repeats.
Batched(base, s, bs, i) ==
    \A S : base = <<>> /\ s \in Seq(S) /\ NoRepeats(s) =>
              bs \in Seq(Seq(S)) /\ Apart(bs) /\ Members(bs) = {s[j] : j \in 1 .. i}

BatchFold == INSTANCE FoldInduction WITH Op <- AddToBatches, P <- Batched

\* batchByCountAndBytes puts each uid in one batch, whatever its two limits.
LEMMA BatchesOf ==
    ASSUME NEW S, NEW uids \in Seq(S), NoRepeats(uids)
    PROVE  /\ BatchByCountAndBytes(uids) \in Seq(Seq(S))
           /\ Apart(BatchByCountAndBytes(uids))
           /\ Members(BatchByCountAndBytes(uids)) = Range(uids)
<1>1. Batched(<<>>, uids, <<>>, 0)
  BY DEF Batched, Members, Apart
<1>2. ASSUME NEW acc, NEW i, i \in 1 .. Len(uids) /\ Batched(<<>>, uids, acc, i - 1)
      PROVE  Batched(<<>>, uids, AddToBatches(acc, uids[i]), i)
  <2> SUFFICES ASSUME NEW T, uids \in Seq(T)
               PROVE  /\ AddToBatches(acc, uids[i]) \in Seq(Seq(T))
                      /\ Apart(AddToBatches(acc, uids[i]))
                      /\ Members(AddToBatches(acc, uids[i])) = {uids[j] : j \in 1 .. i}
    BY DEF Batched
  <2> DEFINE x == uids[i]
  <2>1. acc \in Seq(Seq(T)) /\ Apart(acc) /\ Members(acc) = {uids[j] : j \in 1 .. i - 1}
    BY <1>2 DEF Batched
  <2>2. x \in T /\ i \in Nat /\ \A j \in 1 .. i - 1 : j \in 1 .. Len(uids) /\ j # i
    BY <1>2
  <2>3. x \notin Members(acc)
    BY <1>2, <2>1, <2>2 DEF NoRepeats
  <2>4. {uids[j] : j \in 1 .. i} = {uids[j] : j \in 1 .. i - 1} \cup {x}
    <3>1. \A j : j \in 1 .. i <=> j \in 1 .. i - 1 \/ j = i
      BY <1>2
    <3> QED
      BY <3>1
  <2> HIDE DEF x
  <2>5. CASE acc # <<>> /\ Fits(Last(acc), x)
    <3>1. AddToBatches(acc, x) = Append(Front(acc), Append(Last(acc), x))
      BY <2>5 DEF AddToBatches
    <3>2. /\ AddToBatches(acc, x) \in Seq(Seq(T)) /\ Apart(AddToBatches(acc, x))
          /\ Members(AddToBatches(acc, x)) = Members(acc) \cup {x}
      BY <2>1, <2>2, <2>3, <2>5, <3>1, GrownBatch
    <3> QED
      BY <2>1, <2>4, <3>2 DEF x
  <2>6. CASE ~(acc # <<>> /\ Fits(Last(acc), x))
    <3> DEFINE b == <<x>>
    <3>1. b \in Seq(T) /\ Range(b) = {x}
      BY <2>2 DEF Range
    <3>2. AddToBatches(acc, x) = Append(acc, b)
      BY <2>6 DEF AddToBatches
    <3> HIDE DEF b
    <3>3. Members(acc) \cap Range(b) = {}
      BY <2>3, <3>1
    <3>4. /\ AddToBatches(acc, x) \in Seq(Seq(T)) /\ Apart(AddToBatches(acc, x))
          /\ Members(AddToBatches(acc, x)) = Members(acc) \cup {x}
      BY <2>1, <3>1, <3>2, <3>3, MoreBatches
    <3> QED
      BY <2>1, <2>4, <3>4 DEF x
  <2> QED
    BY <2>5, <2>6
<1>3. Batched(<<>>, uids, BatchFold!FoldLeft(AddToBatches, <<>>, uids), Len(uids))
  BY <1>1, <1>2, BatchFold!FoldInduct
<1>4. BatchFold!FoldLeft(AddToBatches, <<>>, uids) = BatchByCountAndBytes(uids)
  BY DEF BatchByCountAndBytes, BatchFold!FoldLeft, FoldLeft, BatchFold!MapThenFoldSet, MapThenFoldSet,
         BatchFold!Max, Max
<1> QED
  BY <1>3, <1>4, RangeIs DEF Batched

LEMMA ReadBatchesIs ==
    ASSUME NEW ms \in Seq(Mails), NoRepeats(ms)
    PROVE  /\ ReadBatches(ms) \in Seq(Seq(Mails)) /\ Apart(ReadBatches(ms))
           /\ Members(ReadBatches(ms)) = {m \in Range(ms) : Unread(m)}
BY UnreadIs, BatchesOf DEF ReadBatches

LEMMA GroupBatchesIs ==
    ASSUME NEW ms \in Seq(Mails), NoRepeats(ms), NEW g \in Range(ShowGroups)
    PROVE  /\ GroupBatches(ms, g) \in Seq(Seq(Mails)) /\ Apart(GroupBatches(ms, g))
           /\ Members(GroupBatches(ms, g)) = {m \in Range(ms) : Unclaimed(m) /\ MailFacts[m].group = g}
BY ByGroupIs, BatchesOf DEF GroupBatches

\* The batches of the first i groups, if no two of them share a mail.
AllJoined(base, s, bs, i) ==
    \A S : /\ base = <<>> /\ s \in Seq(Seq(Seq(S)))
           /\ \A j \in 1 .. Len(s) : Apart(s[j])
           /\ \A j, k \in 1 .. Len(s) : j # k => Members(s[j]) \cap Members(s[k]) = {}
           => /\ bs \in Seq(Seq(S)) /\ Apart(bs)
              /\ Members(bs) = UNION {Members(s[j]) : j \in 1 .. i}

JoinFold == INSTANCE FoldInduction WITH Op <- Joined, P <- AllJoined

\* The elements of two lists in one.
LEMMA ConcatOf ==
    ASSUME NEW T, NEW ps \in Seq(T), NEW bs \in Seq(T)
    PROVE  /\ Len(ps) \in Nat /\ Len(bs) \in Nat
           /\ ps \o bs \in Seq(T) /\ Len(ps \o bs) = Len(ps) + Len(bs)
           /\ \A k \in 1 .. Len(ps) : (ps \o bs)[k] = ps[k]
           /\ \A k \in 1 .. Len(bs) : (ps \o bs)[Len(ps) + k] = bs[k]
<1> DEFINE n == Len(ps)
           r == Len(bs)
           cs == ps \o bs
<1>1. /\ cs \in Seq(T) /\ Len(cs) = n + r
      /\ \A k \in 1 .. n + r : cs[k] = IF k <= n THEN ps[k] ELSE bs[k - n]
  BY ConcatProperties
<1>2. n \in Nat /\ r \in Nat
  OBVIOUS
<1> HIDE DEF n, r, cs
<1>3. ASSUME NEW k \in 1 .. n
      PROVE  cs[k] = ps[k]
  <2>1. k \in 1 .. n + r /\ k <= n
    BY <1>2
  <2> QED
    BY <1>1, <2>1
<1>4. ASSUME NEW k \in 1 .. r
      PROVE  cs[n + k] = bs[k]
  <2>1. n + k \in 1 .. n + r /\ ~(n + k <= n) /\ (n + k) - n = k
    BY <1>2
  <2> QED
    BY <1>1, <2>1
<1> QED
  BY <1>1, <1>2, <1>3, <1>4 DEF n, r, cs

LEMMA JoinedOf ==
    ASSUME NEW S, NEW ps \in Seq(Seq(S)), NEW bs \in Seq(Seq(S))
    PROVE  /\ Joined(ps, bs) \in Seq(Seq(S))
           /\ Members(Joined(ps, bs)) = Members(ps) \cup Members(bs)
           /\ Apart(ps) /\ Apart(bs) /\ Members(ps) \cap Members(bs) = {} => Apart(Joined(ps, bs))
<1> DEFINE n == Len(ps)
           r == Len(bs)
           cs == ps \o bs
<1>1. /\ n \in Nat /\ r \in Nat /\ cs \in Seq(Seq(S)) /\ Len(cs) = n + r
      /\ \A k \in 1 .. n : cs[k] = ps[k]
      /\ \A k \in 1 .. r : cs[n + k] = bs[k]
  BY ConcatOf
<1> HIDE DEF n, r, cs
<1>2. /\ \A k \in 1 .. n : k \in 1 .. n + r
      /\ \A k \in 1 .. r : k \in Nat /\ n + k \in 1 .. n + r
      /\ \A k \in 1 .. n + r : k \in 1 .. n \/ (k - n \in 1 .. r /\ n + (k - n) = k)
  BY <1>1
<1>3. /\ \A y : y \in Members(ps) <=> \E k \in 1 .. n : y \in Range(ps[k])
      /\ \A y : y \in Members(bs) <=> \E k \in 1 .. r : y \in Range(bs[k])
      /\ \A y : y \in Members(cs) <=> \E k \in 1 .. n + r : y \in Range(cs[k])
  BY <1>1 DEF Members, n, r
<1>4. ASSUME NEW k \in 1 .. n + r
      PROVE  (k \in 1 .. n /\ cs[k] = ps[k]) \/ (k - n \in 1 .. r /\ cs[k] = bs[k - n])
  BY <1>1, <1>2
<1>5. Members(cs) = Members(ps) \cup Members(bs)
  <2>1. ASSUME NEW y \in Members(cs)
        PROVE  y \in Members(ps) \cup Members(bs)
    <3>1. PICK k \in 1 .. n + r : y \in Range(cs[k])
      BY <1>3
    <3> QED
      BY <1>3, <1>4, <3>1
  <2>2. ASSUME NEW y \in Members(ps)
        PROVE  y \in Members(cs)
    BY <1>1, <1>2, <1>3
  <2>3. ASSUME NEW y \in Members(bs)
        PROVE  y \in Members(cs)
    <3>1. PICK k \in 1 .. r : y \in Range(bs[k])
      BY <1>3
    <3>2. n + k \in 1 .. n + r /\ y \in Range(cs[n + k])
      BY <1>1, <1>2, <3>1
    <3> QED
      BY <1>3, <3>2
  <2> QED
    BY <2>1, <2>2, <2>3
<1>6. ASSUME Apart(ps), Apart(bs), Members(ps) \cap Members(bs) = {}
      PROVE  Apart(cs)
  <2>1. \A k, l \in 1 .. n : k # l => Range(ps[k]) \cap Range(ps[l]) = {}
    BY <1>6 DEF Apart, n
  <2>2. \A k, l \in 1 .. r : k # l => Range(bs[k]) \cap Range(bs[l]) = {}
    BY <1>6 DEF Apart, r
  <2>3. \A k \in 1 .. n, l \in 1 .. r : Range(ps[k]) \cap Range(bs[l]) = {}
    BY <1>3, <1>6
  <2>4. ASSUME NEW k \in 1 .. n + r, NEW l \in 1 .. n + r, k # l
        PROVE  Range(cs[k]) \cap Range(cs[l]) = {}
    <3>1. CASE k \in 1 .. n /\ cs[k] = ps[k]
      <4>1. CASE l \in 1 .. n /\ cs[l] = ps[l]
        BY <2>1, <2>4, <3>1, <4>1
      <4>2. CASE l - n \in 1 .. r /\ cs[l] = bs[l - n]
        BY <2>3, <3>1, <4>2
      <4> QED
        BY <1>4, <4>1, <4>2
    <3>2. CASE k - n \in 1 .. r /\ cs[k] = bs[k - n]
      <4>1. CASE l \in 1 .. n /\ cs[l] = ps[l]
        BY <2>3, <3>2, <4>1
      <4>2. CASE l - n \in 1 .. r /\ cs[l] = bs[l - n]
        <5>1. k - n # l - n
          BY <1>1, <2>4
        <5> QED
          BY <2>2, <3>2, <4>2, <5>1
      <4> QED
        BY <1>4, <4>1, <4>2
    <3> QED
      BY <1>4, <3>1, <3>2
  <2> QED
    BY <1>1, <2>4 DEF Apart
<1> QED
  BY <1>1, <1>5, <1>6 DEF cs, Joined

\* Of the groups' batches, no two share a mail, and without a cap none is left out.
GroupsCut(ms) == \E i \in DOMAIN ShowGroups : Len(GroupBatches(ms, ShowGroups[i])) > MaxLoopBatches

\* The groups' batches: each mail in one of them.
LEMMA RewardBatchesIs ==
    ASSUME NEW ms \in Seq(Mails), NoRepeats(ms)
    PROVE  /\ RewardBatches(ms) \in Seq(Seq(Mails)) /\ Apart(RewardBatches(ms))
           /\ Members(RewardBatches(ms)) \subseteq Range(ms)
           /\ GroupsCut(ms) \/ Members(RewardBatches(ms)) = {m \in Range(ms) : Unclaimed(m)}
<1> DEFINE n == Len(ShowGroups)
           s == [i \in DOMAIN ShowGroups |-> TruncateMailBatches(GroupBatches(ms, ShowGroups[i]))]
           Of(i) == {m \in Range(ms) : Unclaimed(m) /\ MailFacts[m].group = ShowGroups[i]}
<1>1. /\ n \in Nat /\ DOMAIN ShowGroups = 1 .. n /\ Range(ShowGroups) = {ShowGroups[i] : i \in 1 .. n}
      /\ \A i, j \in 1 .. n : i # j => ShowGroups[i] # ShowGroups[j]
      /\ MaxLoopBatches \in Nat
  <2>1. n \in Nat /\ DOMAIN ShowGroups = 1 .. n
    BY CollectAssumption
  <2>2. Range(ShowGroups) = {ShowGroups[i] : i \in 1 .. n}
    BY <2>1 DEF Range
  <2>3. \A i, j \in 1 .. n : i # j => ShowGroups[i] # ShowGroups[j]
    BY <2>1, CollectAssumption DEF IsInjective
  <2>4. MaxLoopBatches \in Nat
    BY CollectAssumption
  <2> QED
    BY <2>1, <2>2, <2>3, <2>4
<1>2. ASSUME NEW i \in 1 .. n
      PROVE  /\ s[i] \in Seq(Seq(Mails)) /\ Apart(s[i]) /\ Members(s[i]) \subseteq Of(i)
             /\ GroupsCut(ms) \/ Members(s[i]) = Of(i)
  <2> DEFINE bs == GroupBatches(ms, ShowGroups[i])
  <2>1. ShowGroups[i] \in Range(ShowGroups)
    BY <1>1
  <2>2. bs \in Seq(Seq(Mails)) /\ Apart(bs) /\ Members(bs) = Of(i)
    BY <2>1, GroupBatchesIs
  <2>3. Len(bs) > MaxLoopBatches => GroupsCut(ms)
    BY <1>1 DEF GroupsCut
  <2>4. Len(bs) \in Nat
    BY <2>2
  <2>5. s[i] = FirstItems(bs, MaxLoopBatches)
    BY <1>1 DEF TruncateMailBatches
  <2> HIDE DEF bs, s, Of
  <2>6. /\ FirstItems(bs, MaxLoopBatches) \in Seq(Seq(Mails))
        /\ Members(FirstItems(bs, MaxLoopBatches)) \subseteq Members(bs)
        /\ Apart(FirstItems(bs, MaxLoopBatches))
        /\ Len(bs) <= MaxLoopBatches => FirstItems(bs, MaxLoopBatches) = bs
    BY <1>1, <2>2, TruncatedBatches
  <2> QED
    BY <1>1, <2>2, <2>3, <2>4, <2>5, <2>6
<1>3. s \in Seq(Seq(Seq(Mails))) /\ Len(s) = n /\ DOMAIN s = 1 .. n
  <2> DEFINE T == Seq(Seq(Mails))
  <2> HIDE DEF T
  <2>1. s = [i \in 1 .. n |-> s[i]] /\ \A i \in 1 .. n : s[i] \in T
    BY <1>1, <1>2 DEF T
  <2> HIDE DEF s
  <2>2. s \in Seq(T) /\ Len(s) = n
    BY <1>1, <2>1
  <2> QED
    BY <1>1, <2>1, <2>2 DEF T
<1>4. \A i, j \in 1 .. n : i # j => Of(i) \cap Of(j) = {}
  BY <1>1
<1>5. RewardBatches(ms) = FoldLeft(Joined, <<>>, s)
  BY DEF RewardBatches
<1> HIDE DEF s, n
<1>6. \A i, j \in 1 .. Len(s) : i # j => Members(s[i]) \cap Members(s[j]) = {}
  <2>1. \A i \in 1 .. n : Members(s[i]) \subseteq Of(i)
    BY <1>2
  <2> HIDE DEF Of
  <2> QED
    BY <1>3, <1>4, <2>1
<1>7. AllJoined(<<>>, s, <<>>, 0)
  BY NoBatches DEF AllJoined, Members, Apart
<1>8. ASSUME NEW acc, NEW i, i \in 1 .. Len(s) /\ AllJoined(<<>>, s, acc, i - 1)
      PROVE  AllJoined(<<>>, s, Joined(acc, s[i]), i)
  <2> SUFFICES ASSUME NEW S, s \in Seq(Seq(Seq(S))),
                      \A j \in 1 .. Len(s) : Apart(s[j]),
                      \A j, k \in 1 .. Len(s) : j # k => Members(s[j]) \cap Members(s[k]) = {}
               PROVE  /\ Joined(acc, s[i]) \in Seq(Seq(S)) /\ Apart(Joined(acc, s[i]))
                      /\ Members(Joined(acc, s[i])) = UNION {Members(s[j]) : j \in 1 .. i}
    BY DEF AllJoined
  <2>1. /\ acc \in Seq(Seq(S)) /\ Apart(acc)
        /\ Members(acc) = UNION {Members(s[j]) : j \in 1 .. i - 1}
    BY <1>8 DEF AllJoined
  <2>2. s[i] \in Seq(Seq(S)) /\ Apart(s[i])
    <3> DEFINE T == Seq(Seq(S))
    <3> HIDE DEF T
    <3>1. s \in Seq(T)
      BY DEF T
    <3>2. s[i] \in T
      BY <1>8, <3>1
    <3> QED
      BY <1>8, <3>2 DEF T
  <2>3. /\ \A j : j \in 1 .. i <=> j \in 1 .. i - 1 \/ j = i
        /\ \A j \in 1 .. i - 1 : j \in 1 .. Len(s) /\ j # i
    BY <1>3, <1>8
  <2>4. Members(acc) \cap Members(s[i]) = {}
    BY <1>8, <2>1, <2>3
  <2>5. /\ Joined(acc, s[i]) \in Seq(Seq(S)) /\ Apart(Joined(acc, s[i]))
        /\ Members(Joined(acc, s[i])) = Members(acc) \cup Members(s[i])
    BY <2>1, <2>2, <2>4, JoinedOf
  <2>6. UNION {Members(s[j]) : j \in 1 .. i} = (UNION {Members(s[j]) : j \in 1 .. i - 1}) \cup Members(s[i])
    BY <2>3
  <2> QED
    BY <2>1, <2>5, <2>6
<1>9. AllJoined(<<>>, s, JoinFold!FoldLeft(Joined, <<>>, s), Len(s))
  BY <1>3, <1>7, <1>8, JoinFold!FoldInduct
<1>10. JoinFold!FoldLeft(Joined, <<>>, s) = RewardBatches(ms)
  BY <1>5 DEF JoinFold!FoldLeft, FoldLeft, JoinFold!MapThenFoldSet, MapThenFoldSet,
              JoinFold!Max, Max
<1>11. /\ RewardBatches(ms) \in Seq(Seq(Mails)) /\ Apart(RewardBatches(ms))
       /\ Members(RewardBatches(ms)) = UNION {Members(s[j]) : j \in 1 .. n}
  BY <1>2, <1>3, <1>6, <1>9, <1>10 DEF AllJoined
<1>12. Members(RewardBatches(ms)) \subseteq Range(ms)
  BY <1>2, <1>11
<1>13. ASSUME ~GroupsCut(ms)
       PROVE  Members(RewardBatches(ms)) = {m \in Range(ms) : Unclaimed(m)}
  <2>1. \A m : Unclaimed(m) => \E i \in 1 .. n : MailFacts[m].group = ShowGroups[i]
    BY <1>1 DEF Unclaimed, n
  <2>2. \A j \in 1 .. n : Members(s[j]) = Of(j)
    BY <1>2, <1>13
  <2> QED
    BY <1>11, <2>1, <2>2
<1> QED
  BY <1>11, <1>12, <1>13

-----------------------------------------------------------------------------
(***************************************************************************)
(* Everything once.  AskedExactlyOnce speaks of the end of a run; what is  *)
(* inductive says at every step which kinds of requests have begun, what   *)
(* still waits in the queue and was not asked for yet, and that each thing *)
(* of a kind that has begun was asked for or waits.                        *)
(***************************************************************************)
Start == {"filter", "idle.peek", "idle.claim"}
Middle == {"help", "help.all", "gifts", "gifts.claim", "tech", "tech.donate", "vip", "vip.claim"}

\* Requests of kind k may have been sent by now.
Begun(k) ==
    \/ k = "greet" /\ step \notin Start
    \/ k = "read" /\ step \notin Start \cup {"greet", "mail.list"}
    \/ k = "reward" /\ step \notin Start \cup {"greet", "mail.list", "mail.read"}
    \/ k = "collect" /\ step \in {"build", "done"}

Asked(k, x) == <<k, x>> \in DOMAIN asks

\* The queue holds x for a request of kind k.
Waits(k, x) ==
    \/ k = "greet" /\ step = "greet" /\ x \in Range(queue)
    \/ k = "read" /\ step = "mail.read" /\ x \in Members(queue)
    \/ k = "reward" /\ step = "mail.reward" /\ x \in Members(queue)
    \/ k = "collect" /\ step = "build" /\ x \in Range(queue)

ListInv ==
    /\ visitors \in Seq(Uids) /\ NoRepeats(visitors)
    /\ mail \in Seq(Mails) /\ NoRepeats(mail)
    /\ toCollect \in Seq(Uuids) /\ NoRepeats(toCollect)

QueueInv ==
    /\ step = "filter" => /\ queue \in Seq(Uuids) /\ NoRepeats(queue)
                          /\ Range(queue) \cap Range(toCollect) = {}
    /\ step = "greet" => queue \in Seq(Uids) /\ NoRepeats(queue)
    /\ step \in {"mail.read", "mail.reward"} => queue \in Seq(Seq(Mails)) /\ Apart(queue)
    /\ step = "build" => queue \in Seq(Uuids) /\ NoRepeats(queue)

OnceInv == \A x \in DOMAIN asks : asks[x] = 1

FreshInv == \A k, x : (Asked(k, x) => Begun(k)) /\ ~(Asked(k, x) /\ Waits(k, x))

\* What was begun: asked for, or waiting.
Served(k, xs) == Begun(k) => \A x \in xs : Asked(k, x) \/ Waits(k, x)

\* The groups' batches are cut when the queue is made; it is noted at its end.
RewardsCut == cut \/ (step = "mail.reward" /\ GroupsCut(mail))

ServedInv ==
    \/ errs \cap Fatal # {}
    \/ /\ Served("greet", Range(ToGreet))
       /\ cut \/ Served("read", {m \in Range(mail) : Unread(m)})
       /\ RewardsCut \/ Served("reward", {m \in Range(mail) : Unclaimed(m)})
       /\ Served("collect", Range(toCollect))

AskInv == ListInv /\ QueueInv /\ OnceInv /\ FreshInv /\ ServedInv

\* What a request leaves asked for.
LEMMA AskedAfter ==
    ASSUME NEW what, NEW o, Send(what, o)
    PROVE  /\ \A k, x : Asked(k, x)' <=> Asked(k, x) \/ <<k, x>> \in what
           /\ OnceInv /\ (\A k, x : <<k, x>> \in what => ~Asked(k, x)) /\
              (\A y \in what : \E k, x : y = <<k, x>>) => OnceInv'
<1>1. asks' = [x \in DOMAIN asks \cup what |-> AskedFor(x) + IF x \in what THEN 1 ELSE 0]
  BY DEF Send
<1>2. DOMAIN asks' = DOMAIN asks \cup what
  BY <1>1
<1>3. ASSUME OnceInv, \A k, x : <<k, x>> \in what => ~Asked(k, x),
             \A y \in what : \E k, x : y = <<k, x>>
      PROVE  OnceInv'
  <2>1. \A y \in what : y \notin DOMAIN asks
    BY <1>3 DEF Asked
  <2>2. ASSUME NEW y \in DOMAIN asks'
        PROVE  asks'[y] = 1
    <3>1. asks'[y] = AskedFor(y) + IF y \in what THEN 1 ELSE 0
      BY <1>1, <1>2, <2>2
    <3>2. CASE y \in what
      <4>1. AskedFor(y) = 0
        BY <2>1, <3>2 DEF AskedFor
      <4> QED
        BY <3>1, <3>2, <4>1
    <3>3. CASE y \notin what
      <4>1. AskedFor(y) = 1
        BY <1>2, <1>3, <3>3 DEF AskedFor, OnceInv
      <4> QED
        BY <3>1, <3>3, <4>1
    <3> QED
      BY <3>2, <3>3
  <2> QED
    BY <2>2 DEF OnceInv
<1> QED
  BY <1>2, <1>3 DEF Asked

\* A request that carries no ids.
LEMMA AskedNothing ==
    ASSUME NEW o, Send({}, o)
    PROVE  /\ \A k, x : Asked(k, x)' <=> Asked(k, x)
           /\ OnceInv => OnceInv'
<1> DEFINE none == {}
<1>1. Send(none, o) /\ \A y : y \notin none
  OBVIOUS
<1> HIDE DEF none
<1>2. /\ \A k, x : Asked(k, x)' <=> Asked(k, x) \/ <<k, x>> \in none
      /\ OnceInv /\ (\A k, x : <<k, x>> \in none => ~Asked(k, x)) /\
              (\A y \in none : \E k, x : y = <<k, x>>) => OnceInv'
  BY <1>1, AskedAfter
<1> QED
  BY <1>1, <1>2

LEMMA AskedSame ==
    ASSUME UNCHANGED asks
    PROVE  /\ \A k, x : Asked(k, x)' <=> Asked(k, x)
           /\ OnceInv => OnceInv'
BY DEF Asked, OnceInv

\* A lost connection is among the errors.
LEMMA LossJoined ==
    ASSUME NEW o, Join(o), o \in Fatal
    PROVE  errs' \cap Fatal # {}
BY DEF Join, ErrorOf, Fatal, Failures

\* What was asked for or waits still is or does.
LEMMA ServedOn ==
    ASSUME ServedInv, errs \cap Fatal = {}, UNCHANGED <<visitors, toCollect, mail>>,
           cut => cut', RewardsCut => RewardsCut',
           \A k : Begun(k)' => Begun(k),
           \A k, x : Asked(k, x) \/ Waits(k, x) => Asked(k, x)' \/ Waits(k, x)'
    PROVE  ServedInv'
<1>1. /\ Served("greet", Range(ToGreet))
      /\ cut \/ Served("read", {m \in Range(mail) : Unread(m)})
      /\ RewardsCut \/ Served("reward", {m \in Range(mail) : Unclaimed(m)})
      /\ Served("collect", Range(toCollect))
  BY DEF ServedInv
<1>2. ASSUME NEW k, NEW S, Served(k, S)
      PROVE  Begun(k)' => \A x \in S : Asked(k, x)' \/ Waits(k, x)'
  BY <1>2 DEF Served
<1>3. Served("greet", Range(ToGreet))'
  <2>1. Begun("greet")' => \A x \in Range(ToGreet) : Asked("greet", x)' \/ Waits("greet", x)'
    BY <1>1, <1>2
  <2>2. Range(ToGreet)' = Range(ToGreet)
    BY DEF ToGreet
  <2> QED
    BY <2>1, <2>2 DEF Served
<1>4. (cut \/ Served("read", {m \in Range(mail) : Unread(m)}))'
  <2>1. CASE cut
    BY <2>1
  <2>2. CASE Served("read", {m \in Range(mail) : Unread(m)})
    <3>1. Begun("read")' =>
             \A x \in {m \in Range(mail) : Unread(m)} : Asked("read", x)' \/ Waits("read", x)'
      BY <1>2, <2>2
    <3> QED
      BY <3>1 DEF Served
  <2> QED
    BY <1>1, <2>1, <2>2
<1>5. (RewardsCut \/ Served("reward", {m \in Range(mail) : Unclaimed(m)}))'
  <2>1. CASE RewardsCut
    BY <2>1
  <2>2. CASE Served("reward", {m \in Range(mail) : Unclaimed(m)})
    <3>1. Begun("reward")' =>
             \A x \in {m \in Range(mail) : Unclaimed(m)} : Asked("reward", x)' \/ Waits("reward", x)'
      BY <1>2, <2>2
    <3> QED
      BY <3>1 DEF Served
  <2> QED
    BY <1>1, <2>1, <2>2
<1>6. Served("collect", Range(toCollect))'
  <2>1. Begun("collect")' => \A x \in Range(toCollect) : Asked("collect", x)' \/ Waits("collect", x)'
    BY <1>1, <1>2
  <2> QED
    BY <2>1 DEF Served
<1> QED
  BY <1>3, <1>4, <1>5, <1>6 DEF ServedInv

\* A request for the xs that wait at the head of the queue.
LEMMA AskedFirst ==
    ASSUME IInv, AskInv, NEW kind, NEW xs, NEW rest, NEW o,
           Send({<<kind, x>> : x \in xs}, o), Join(o),
           UNCHANGED <<visitors, toCollect, mail, cut>>,
           \/ kind = "greet" /\ step = "greet"
           \/ kind = "read" /\ step = "mail.read"
           \/ kind = "reward" /\ step = "mail.reward"
           \/ kind = "collect" /\ step = "build",
           NextAction(o, step), QueueInv',
           xs \cap rest = {},
           \A x : Waits(kind, x) <=> x \in xs \/ x \in rest,
           o \notin Fatal => \A x : Waits(kind, x)' <=> x \in rest
    PROVE  AskInv'
<1> DEFINE what == {<<kind, x>> : x \in xs}
<1>1. \A k, x : <<k, x>> \in what <=> k = kind /\ x \in xs
  OBVIOUS
<1>2. \A y \in what : \E k, x : y = <<k, x>>
  OBVIOUS
<1>3. \A x : Waits(kind, x) => ~Asked(kind, x)
  BY DEF AskInv, FreshInv
<1>4. /\ \A k, x : Asked(k, x)' <=> Asked(k, x) \/ <<k, x>> \in what
      /\ OnceInv'
  <2>1. \A k, x : <<k, x>> \in what => ~Asked(k, x)
    BY <1>1, <1>3
  <2> HIDE DEF what
  <2>2. Send(what, o)
    BY DEF what
  <2> QED
    BY <1>2, <2>1, <2>2, AskedAfter DEF AskInv
<1> HIDE DEF what
<1>5. \A k, x : Asked(k, x)' <=> Asked(k, x) \/ (k = kind /\ x \in xs)
  BY <1>1, <1>4
<1>6. ListInv'
  BY DEF AskInv, ListInv
<1>7. step' = IF o \in Fatal THEN "done" ELSE step
  BY DEF NextAction
<1>8. \A k : Begun(k) => Begun(k)'
  BY <1>7 DEF Begun, Start
<1>9. Begun(kind)
  BY DEF Begun, Start
<1>10. FreshInv'
  <2>1. \A k, x : Asked(k, x) => Begun(k)
    BY DEF AskInv, FreshInv
  <2>2. \A k, x : Asked(k, x)' => Begun(k)'
    BY <1>5, <1>8, <1>9, <2>1
  <2>3. ASSUME NEW k, NEW x, Waits(k, x)'
        PROVE  ~Asked(k, x)'
    <3>1. o \notin Fatal /\ step' = step
      BY <1>7, <2>3 DEF Waits
    <3>2. k = kind
      BY <2>3, <3>1 DEF Waits
    <3>3. x \in rest
      BY <2>3, <3>1, <3>2
    <3> QED
      BY <1>3, <1>5, <3>2, <3>3
  <2> QED
    BY <2>2, <2>3 DEF FreshInv
<1>11. ServedInv'
  <2>1. CASE o \in Fatal
    BY <2>1, LossJoined DEF ServedInv
  <2>2. CASE o \notin Fatal
    <3>1. step' = step
      BY <1>7, <2>2
    <3>2. errs \cap Fatal = {}
      BY DEF IInv, LossInv
    <3>3. \A k : Begun(k)' <=> Begun(k)
      BY <3>1 DEF Begun
    <3>4. \A k, x : Waits(k, x) => k = kind
      BY DEF Waits
    <3>5. \A k, x : Asked(k, x) \/ Waits(k, x) => Asked(k, x)' \/ Waits(k, x)'
      BY <1>5, <2>2, <3>4
    <3>6. (cut => cut') /\ (RewardsCut => RewardsCut')
      BY <3>1 DEF RewardsCut
    <3> QED
      BY <3>2, <3>3, <3>5, <3>6, ServedOn DEF AskInv
  <2> QED
    BY <2>1, <2>2
<1> QED
  BY <1>4, <1>6, <1>10, <1>11 DEF AskInv

\* A step between the mail and the buildings: it asks for none of the things.
LEMMA MiddleStep ==
    ASSUME IInv, AskInv, OnceInv', \A k, x : Asked(k, x)' <=> Asked(k, x),
           UNCHANGED <<visitors, toCollect, mail, cut>>,
           step \in Middle, step' \in Middle \cup {"done"},
           step' = "done" => errs' \cap Fatal # {}
    PROVE  AskInv'
<1>1. ListInv' /\ QueueInv'
  BY DEF AskInv, ListInv, QueueInv, Middle
<1>2. \A k : Begun(k) => Begun(k)'
  BY DEF Begun, Start, Middle
<1>3. \A k, x : ~Waits(k, x) /\ ~Waits(k, x)'
  BY DEF Waits, Middle
<1>4. FreshInv'
  BY <1>2, <1>3 DEF AskInv, FreshInv
<1>5. ServedInv'
  <2>1. CASE step' = "done"
    BY <2>1 DEF ServedInv
  <2>2. CASE step' \in Middle
    <3>1. errs \cap Fatal = {}
      BY DEF IInv, LossInv, Middle
    <3>2. \A k : Begun(k)' <=> Begun(k)
      BY <2>2 DEF Begun, Start, Middle
    <3>3. RewardsCut => cut
      BY DEF RewardsCut, Middle
    <3>4. (cut => cut') /\ (RewardsCut => RewardsCut')
      BY <3>3 DEF RewardsCut
    <3> QED
      BY <1>3, <3>1, <3>2, <3>4, ServedOn DEF AskInv
  <2> QED
    BY <2>1, <2>2
<1> QED
  BY <1>1, <1>4, <1>5 DEF AskInv

\* The building at the head of the queue is ready, or it is left out.
LEMMA FilterAskInv ==
    ASSUME AskInv, FilterBuilding
    PROVE  AskInv'
<1>1. /\ step = "filter" /\ queue # <<>> /\ queue' = Tail(queue)
      /\ toCollect' = Append(toCollect, Head(queue)) \/ toCollect' = toCollect
      /\ UNCHANGED <<visitors, step, mail, errs, asks, cut>>
  BY DEF FilterBuilding
<1>2. /\ queue \in Seq(Uuids) /\ NoRepeats(queue) /\ Range(queue) \cap Range(toCollect) = {}
      /\ toCollect \in Seq(Uuids) /\ NoRepeats(toCollect)
  BY <1>1 DEF AskInv, ListInv, QueueInv
<1>3. /\ Head(queue) \in Uuids /\ Tail(queue) \in Seq(Uuids) /\ NoRepeats(Tail(queue))
      /\ Range(queue) = {Head(queue)} \cup Range(Tail(queue)) /\ Head(queue) \notin Range(Tail(queue))
  BY <1>1, <1>2, TailOf
<1>4. CASE toCollect' = Append(toCollect, Head(queue))
  <2>1. toCollect' \in Seq(Uuids) /\ Range(toCollect') = Range(toCollect) \cup {Head(queue)}
    BY <1>2, <1>3, <1>4, AppendRange
  <2>2. NoRepeats(toCollect')
    BY <1>2, <1>3, <1>4, AppendNoRepeats
  <2>3. ListInv'
    BY <1>1, <2>1, <2>2 DEF AskInv, ListInv, NoRepeats
  <2>4. NoRepeats(queue)' /\ Range(queue)' = Range(Tail(queue)) /\ Range(toCollect)' = Range(toCollect')
    BY <1>1, <1>3 DEF NoRepeats
  <2>5. QueueInv'
    BY <1>1, <1>2, <1>3, <2>1, <2>4 DEF QueueInv
  <2>6. OnceInv' /\ FreshInv' /\ ServedInv'
    BY <1>1, AskedSame DEF AskInv, FreshInv, ServedInv, Served, Begun, Waits, Start
  <2> QED
    BY <2>3, <2>5, <2>6 DEF AskInv
<1>5. CASE toCollect' = toCollect
  <2>1. ListInv'
    BY <1>1, <1>5 DEF AskInv, ListInv, NoRepeats
  <2>2. NoRepeats(queue)' /\ Range(queue)' = Range(Tail(queue)) /\ Range(toCollect)' = Range(toCollect)
    BY <1>1, <1>3, <1>5 DEF NoRepeats
  <2>3. QueueInv'
    BY <1>1, <1>2, <1>3, <2>2 DEF QueueInv
  <2>4. OnceInv' /\ FreshInv' /\ ServedInv'
    BY <1>1, AskedSame DEF AskInv, FreshInv, ServedInv, Served, Begun, Waits, Start
  <2> QED
    BY <2>1, <2>3, <2>4 DEF AskInv
<1> QED
  BY <1>1, <1>4, <1>5

LEMMA FilteredAskInv ==
    ASSUME AskInv, Filtered
    PROVE  AskInv'
<1>1. /\ step = "filter" /\ step' = "idle.peek" /\ toCollect' = FirstItems(toCollect, MaxCollects)
      /\ UNCHANGED <<visitors, mail, errs, asks>>
  BY DEF Filtered
<1>2. toCollect \in Seq(Uuids) /\ NoRepeats(toCollect) /\ MaxCollects \in Nat
  BY CollectAssumption DEF AskInv, ListInv
<1>3. toCollect' \in Seq(Uuids) /\ NoRepeats(toCollect')
  BY <1>1, <1>2, FirstItemsOf, FirstNoRepeats
<1>4. ListInv'
  BY <1>1, <1>3 DEF AskInv, ListInv, NoRepeats
<1>5. QueueInv' /\ OnceInv' /\ FreshInv' /\ ServedInv'
  BY <1>1, AskedSame DEF AskInv, QueueInv, FreshInv, ServedInv, Served, Begun, Waits, Start
<1> QED
  BY <1>4, <1>5 DEF AskInv

\* The idle reward is done with: the visitors' turn.
LEMMA GreetBegins ==
    ASSUME AskInv, step \in Start, OnceInv', \A k, x : Asked(k, x)' <=> Asked(k, x),
           UNCHANGED <<visitors, toCollect, mail>>,
           \/ step' = "idle.claim"
           \/ step' = "greet" /\ queue' = ToGreet
           \/ step' = "done" /\ errs' \cap Fatal # {}
    PROVE  AskInv'
<1>1. ListInv'
  BY DEF AskInv, ListInv
<1>2. ToGreet \in Seq(Uids) /\ NoRepeats(ToGreet)
  BY ToGreetIs DEF AskInv, ListInv
<1>3. \A k, x : ~Asked(k, x)
  BY DEF AskInv, FreshInv, Begun, Start
<1>4. FreshInv'
  BY <1>3 DEF FreshInv
<1>5. CASE step' = "idle.claim"
  BY <1>1, <1>4, <1>5 DEF AskInv, QueueInv, ServedInv, Served, Begun, Start
<1>6. CASE step' = "greet" /\ queue' = ToGreet
  <2>1. QueueInv'
    BY <1>2, <1>6 DEF QueueInv, NoRepeats
  <2>2. ToGreet' = ToGreet
    BY DEF ToGreet
  <2>3. \A k : Begun(k)' => k = "greet"
    BY <1>6 DEF Begun
  <2>4. Served("greet", Range(ToGreet))'
    BY <1>6, <2>2 DEF Served, Waits
  <2>5. ServedInv'
    BY <2>3, <2>4 DEF ServedInv, Served
  <2> QED
    BY <1>1, <1>4, <2>1, <2>5 DEF AskInv
<1>7. CASE step' = "done" /\ errs' \cap Fatal # {}
  BY <1>1, <1>4, <1>7 DEF AskInv, QueueInv, ServedInv
<1> QED
  BY <1>5, <1>6, <1>7

LEMMA GreetedAskInv ==
    ASSUME IInv, AskInv, Greeted
    PROVE  AskInv'
<1>1. /\ step = "greet" /\ queue = <<>> /\ step' = "mail.list"
      /\ UNCHANGED <<visitors, toCollect, mail, errs, asks, cut>>
  BY DEF Greeted
<1>2. ListInv' /\ QueueInv' /\ OnceInv'
  BY <1>1, AskedSame DEF AskInv, ListInv, QueueInv
<1>3. \A k, x : ~Waits(k, x) /\ ~Waits(k, x)'
  BY <1>1, EmptyRange DEF Waits
<1>4. \A k : Begun(k)' <=> Begun(k)
  BY <1>1 DEF Begun, Start
<1>5. FreshInv'
  BY <1>1, <1>3, <1>4, AskedSame DEF AskInv, FreshInv
<1>6. errs \cap Fatal = {} /\ (cut => cut') /\ (RewardsCut => RewardsCut')
  BY <1>1 DEF IInv, LossInv, RewardsCut
<1>7. ServedInv'
  BY <1>1, <1>3, <1>4, <1>6, AskedSame, ServedOn DEF AskInv
<1> QED
  BY <1>2, <1>5, <1>7 DEF AskInv

\* While the mail is listed every visitor has been greeted, and nothing waits.
LEMMA WhileListing ==
    ASSUME IInv, AskInv, step = "mail.list"
    PROVE  /\ \A k, x : Asked(k, x) => k = "greet"
           /\ \A x \in Range(ToGreet) : Asked("greet", x)
<1>1. \A k, x : Asked(k, x) => k = "greet"
  BY DEF AskInv, FreshInv, Begun, Start
<1>2. Served("greet", Range(ToGreet)) /\ Begun("greet") /\ \A x : ~Waits("greet", x)
  BY DEF IInv, LossInv, AskInv, ServedInv, Begun, Start, Waits
<1> QED
  BY <1>1, <1>2 DEF Served

LEMMA MailListedAskInv ==
    ASSUME IInv, AskInv, step = "mail.list", NEW ms \in Seq(Mails), NoRepeats(ms), MailListed(ms),
           UNCHANGED <<visitors, toCollect>>, OnceInv', \A k, x : Asked(k, x)' <=> Asked(k, x),
           cut' \/ Len(ReadBatches(ms)) <= MaxLoopBatches
    PROVE  AskInv'
<1>1. mail' = ms
  BY DEF MailListed
<1>2. ListInv'
  BY <1>1 DEF AskInv, ListInv, NoRepeats
<1>3. Served("greet", Range(ToGreet))'
  <2>1. Range(ToGreet)' = Range(ToGreet)
    BY DEF ToGreet
  <2> QED
    BY <2>1, WhileListing DEF Served
<1>4. CASE ms = <<>>
  <2>1. step' = "help"
    BY <1>4 DEF MailListed
  <2>2. FreshInv'
    BY <2>1, WhileListing DEF FreshInv, Begun, Waits, Start
  <2>3. \A m : m \notin Range(mail)'
    BY <1>1, <1>4, EmptyRange
  <2>4. Served("collect", Range(toCollect))'
    BY <2>1 DEF Served, Begun
  <2>5. Served("read", {m \in Range(mail) : Unread(m)})'
    BY <2>3 DEF Served
  <2>6. Served("reward", {m \in Range(mail) : Unclaimed(m)})'
    BY <2>3 DEF Served
  <2>7. QueueInv'
    BY <2>1 DEF QueueInv
  <2> QED
    BY <1>2, <1>3, <2>2, <2>4, <2>5, <2>6, <2>7 DEF AskInv, ServedInv
<1>5. CASE ms # <<>>
  <2> DEFINE bs == ReadBatches(ms)
  <2>1. step' = "mail.read" /\ queue' = FirstItems(bs, MaxLoopBatches)
    BY <1>5 DEF MailListed, TruncateMailBatches
  <2>2. bs \in Seq(Seq(Mails)) /\ Apart(bs) /\ Members(bs) = {m \in Range(ms) : Unread(m)}
    BY ReadBatchesIs
  <2>3. MaxLoopBatches \in Nat
    BY CollectAssumption
  <2> HIDE DEF bs
  <2>4. /\ queue' \in Seq(Seq(Mails)) /\ Apart(queue')
        /\ Len(bs) <= MaxLoopBatches => queue' = bs
    BY <2>1, <2>2, <2>3, TruncatedBatches
  <2>5. QueueInv'
    BY <2>1, <2>4 DEF QueueInv, Apart
  <2>6. FreshInv'
    BY <2>1, WhileListing DEF FreshInv, Begun, Waits, Start
  <2>7. cut' \/ Served("read", {m \in Range(mail) : Unread(m)})'
    <3>1. ASSUME queue' = bs
          PROVE  Served("read", {m \in Range(mail) : Unread(m)})'
      <4>1. Members(queue)' = {m \in Range(mail) : Unread(m)}'
        BY <1>1, <2>2, <3>1 DEF Members
      <4> QED
        BY <2>1, <4>1 DEF Served, Waits
    <3> QED
      BY <2>4, <3>1 DEF bs
  <2>8. ServedInv'
    BY <1>3, <2>1, <2>7 DEF ServedInv, Served, Begun
  <2> QED
    BY <1>2, <2>5, <2>6, <2>8 DEF AskInv
<1> QED
  BY <1>4, <1>5

LEMMA ListMailAskInv ==
    ASSUME NEW o, IInv, AskInv, ListMailPage(o)
    PROVE  AskInv'
<1>1. /\ step = "mail.list" /\ Send({}, o) /\ Join(o) /\ UNCHANGED <<visitors, toCollect>>
      /\ mail \in Seq(Mails) /\ NoRepeats(mail)
  BY DEF ListMailPage, AskInv, ListInv
<1>2. OnceInv' /\ \A k, x : Asked(k, x)' <=> Asked(k, x)
  BY <1>1, AskedNothing DEF AskInv
<1>3. CASE o \in Fatal
  <2>1. step' = "done" /\ UNCHANGED mail /\ errs' \cap Fatal # {}
    BY <1>1, <1>3, LossJoined DEF ListMailPage, Fatal, Failures
  <2>2. ListInv' /\ QueueInv' /\ FreshInv' /\ ServedInv'
    BY <1>1, <1>2, <2>1 DEF AskInv, ListInv, QueueInv, FreshInv, ServedInv, Begun, Waits, Start
  <2> QED
    BY <1>2, <2>2 DEF AskInv
<1>4. CASE o \in Failures \ Fatal
  <2>1. cut' /\ MailListed(mail)
    BY <1>4 DEF ListMailPage
  <2> QED
    BY <1>1, <1>2, <2>1, MailListedAskInv
<1>5. CASE o \notin Failures
  <2>1. PICK items \in MailPages, more \in BOOLEAN :
           LET ms == FoldLeft(TakeMail, mail, items)
           IN \/ mail' = ms /\ UNCHANGED <<step, queue, cut>>
              \/ MailListed(ms) /\ cut' = (cut \/ Len(ReadBatches(ms)) > MaxLoopBatches)
    BY <1>5 DEF ListMailPage
  <2> DEFINE ms == FoldLeft(TakeMail, mail, items)
  <2>2. items \in Seq(Mails)
    BY ParsedIsList, CollectAssumption DEF MailPages
  <2>3. ms \in Seq(Mails) /\ NoRepeats(ms)
    BY <1>1, <2>2, TakeMailOf
  <2>4. \/ mail' = ms /\ UNCHANGED <<step, queue, cut>>
        \/ MailListed(ms) /\ cut' = (cut \/ Len(ReadBatches(ms)) > MaxLoopBatches)
    BY <2>1
  <2> HIDE DEF ms
  <2>5. CASE mail' = ms /\ UNCHANGED <<step, queue, cut>>
    <3>1. ListInv' /\ QueueInv'
      BY <1>1, <2>3, <2>5 DEF AskInv, ListInv, QueueInv, NoRepeats
    <3>2. FreshInv'
      BY <1>1, <1>2, <2>5 DEF AskInv, FreshInv, Begun, Waits
    <3>3. Served("greet", Range(ToGreet))'
      <4>1. Range(ToGreet)' = Range(ToGreet)
        BY <1>1 DEF ToGreet
      <4> QED
        BY <1>1, <1>2, <4>1, WhileListing DEF Served
    <3>4. ServedInv'
      BY <1>1, <2>5, <3>3 DEF ServedInv, Served, Begun
    <3> QED
      BY <1>2, <3>1, <3>2, <3>4 DEF AskInv
  <2>6. CASE MailListed(ms) /\ cut' = (cut \/ Len(ReadBatches(ms)) > MaxLoopBatches)
    <3>1. Len(ReadBatches(ms)) \in Nat /\ MaxLoopBatches \in Nat
      BY <2>3, ReadBatchesIs, CollectAssumption
    <3>2. cut' \/ Len(ReadBatches(ms)) <= MaxLoopBatches
      <4>1. Len(ReadBatches(ms)) > MaxLoopBatches \/ Len(ReadBatches(ms)) <= MaxLoopBatches
        BY <3>1
      <4>2. ASSUME Len(ReadBatches(ms)) > MaxLoopBatches
            PROVE  cut'
        BY <2>6, <4>2, Zenon
      <4> QED
        BY <4>1, <4>2
    <3> QED
      BY <1>1, <1>2, <2>3, <2>6, <3>2, MailListedAskInv
  <2> QED
    BY <2>4, <2>5, <2>6
<1> QED
  BY <1>3, <1>4, <1>5

\* The unread mail is done with: the rewards' turn.
LEMMA MailReadAskInv ==
    ASSUME IInv, AskInv, MailRead
    PROVE  AskInv'
<1>1. /\ step = "mail.read" /\ queue = <<>> /\ step' = "mail.reward" /\ queue' = RewardBatches(mail)
      /\ UNCHANGED <<visitors, toCollect, mail, errs, asks, cut>>
  BY DEF MailRead
<1>2. mail \in Seq(Mails) /\ NoRepeats(mail) /\ OnceInv' /\ \A k, x : Asked(k, x)' <=> Asked(k, x)
  BY <1>1, AskedSame DEF AskInv, ListInv
<1>3. /\ RewardBatches(mail) \in Seq(Seq(Mails)) /\ Apart(RewardBatches(mail))
      /\ GroupsCut(mail) \/ Members(RewardBatches(mail)) = {m \in Range(mail) : Unclaimed(m)}
  BY <1>2, RewardBatchesIs
<1>4. ListInv'
  BY <1>1 DEF AskInv, ListInv
<1>5. QueueInv'
  BY <1>1, <1>3 DEF QueueInv, Apart
<1>6. \A k, x : Asked(k, x) => k \in {"greet", "read"}
  BY <1>1 DEF AskInv, FreshInv, Begun, Start
<1>7. FreshInv'
  BY <1>1, <1>2, <1>6 DEF FreshInv, Begun, Waits, Start
<1>8. \A k, x : ~Waits(k, x)
  BY <1>1, NoBatches DEF Waits
<1>9. /\ Served("greet", Range(ToGreet))
      /\ cut \/ Served("read", {m \in Range(mail) : Unread(m)})
      /\ Begun("greet") /\ Begun("read")
  BY <1>1 DEF IInv, LossInv, AskInv, ServedInv, Begun, Start
<1>10. Served("greet", Range(ToGreet))'
  <2>1. Range(ToGreet)' = Range(ToGreet)
    BY <1>1 DEF ToGreet
  <2> QED
    BY <1>2, <1>8, <1>9, <2>1 DEF Served
<1>11. cut' \/ Served("read", {m \in Range(mail) : Unread(m)})'
  <2>1. CASE cut
    BY <1>1, <2>1
  <2>2. CASE Served("read", {m \in Range(mail) : Unread(m)})
    BY <1>1, <1>2, <1>8, <1>9, <2>2 DEF Served
  <2> QED
    BY <1>9, <2>1, <2>2
<1>12. RewardsCut' \/ Served("reward", {m \in Range(mail) : Unclaimed(m)})'
  <2>1. CASE GroupsCut(mail)
    BY <1>1, <2>1 DEF RewardsCut, GroupsCut
  <2>2. CASE Members(RewardBatches(mail)) = {m \in Range(mail) : Unclaimed(m)}
    <3>1. Members(queue)' = {m \in Range(mail) : Unclaimed(m)}'
      BY <1>1, <2>2 DEF Members
    <3> QED
      BY <1>1, <3>1 DEF Served, Waits
  <2> QED
    BY <1>3, <2>1, <2>2
<1>13. Served("collect", Range(toCollect))'
  BY <1>1 DEF Served, Begun
<1> QED
  BY <1>2, <1>4, <1>5, <1>7, <1>10, <1>11, <1>12, <1>13 DEF AskInv, ServedInv

LEMMA MailClaimedAskInv ==
    ASSUME IInv, AskInv, MailClaimed
    PROVE  AskInv'
<1>1. /\ step = "mail.reward" /\ step' = "help"
      /\ UNCHANGED <<visitors, toCollect, mail, errs, asks>>
      /\ cut' = (cut \/ queue # <<>> \/ GroupsCut(mail))
  BY DEF MailClaimed, GroupsCut
<1>2. ListInv' /\ QueueInv' /\ OnceInv' /\ \A k, x : Asked(k, x)' <=> Asked(k, x)
  BY <1>1, AskedSame DEF AskInv, ListInv, QueueInv
<1>3. \A k : Begun(k)' <=> Begun(k)
  BY <1>1 DEF Begun, Start
<1>4. \A k, x : ~Waits(k, x)'
  BY <1>1 DEF Waits
<1>5. FreshInv'
  BY <1>2, <1>3, <1>4 DEF AskInv, FreshInv
<1>6. CASE cut'
  <2>1. Served("greet", Range(ToGreet))'
    <3>1. Served("greet", Range(ToGreet)) /\ \A x : ~Waits("greet", x)
      BY <1>1 DEF IInv, LossInv, AskInv, ServedInv, Waits
    <3>2. Range(ToGreet)' = Range(ToGreet)
      BY <1>1 DEF ToGreet
    <3> QED
      BY <1>2, <1>3, <3>1, <3>2 DEF Served
  <2>2. Served("collect", Range(toCollect))'
    BY <1>1 DEF Served, Begun
  <2> QED
    BY <1>2, <1>5, <1>6, <2>1, <2>2 DEF AskInv, ServedInv, RewardsCut
<1>7. CASE ~cut'
  <2>1. ~cut /\ queue = <<>> /\ ~GroupsCut(mail)
    BY <1>1, <1>7, Zenon
  <2>2. \A k, x : ~Waits(k, x)
    BY <1>1, <2>1, NoBatches DEF Waits
  <2>3. errs \cap Fatal = {} /\ ~RewardsCut
    BY <1>1, <2>1 DEF IInv, LossInv, RewardsCut
  <2> QED
    BY <1>1, <1>2, <1>3, <1>5, <2>1, <2>2, <2>3, ServedOn DEF AskInv
<1> QED
  BY <1>6, <1>7

\* The buildings' turn, the last.
LEMMA VipClaimedAskInv ==
    ASSUME IInv, AskInv, VipClaimed
    PROVE  AskInv'
<1>1. /\ step = "vip.claim" /\ step' = "build" /\ queue' = toCollect
      /\ UNCHANGED <<visitors, toCollect, mail, errs, asks, cut>>
  BY DEF VipClaimed
<1>2. OnceInv' /\ \A k, x : Asked(k, x)' <=> Asked(k, x)
  BY <1>1, AskedSame DEF AskInv
<1>3. ListInv' /\ QueueInv'
  BY <1>1 DEF AskInv, ListInv, QueueInv, NoRepeats
<1>4. \A k, x : Asked(k, x) => k # "collect"
  BY <1>1 DEF AskInv, FreshInv, Begun
<1>5. /\ \A k : Begun(k)' <=> Begun(k) \/ k = "collect"
      /\ \A k, x : ~Waits(k, x)
      /\ \A k, x : Waits(k, x)' <=> k = "collect" /\ x \in Range(toCollect)
  BY <1>1 DEF Begun, Start, Waits
<1>6. FreshInv'
  BY <1>2, <1>4, <1>5 DEF AskInv, FreshInv
<1>7. /\ Served("greet", Range(ToGreet))
      /\ cut \/ Served("read", {m \in Range(mail) : Unread(m)})
      /\ cut \/ Served("reward", {m \in Range(mail) : Unclaimed(m)})
  BY <1>1 DEF IInv, LossInv, AskInv, ServedInv, RewardsCut
<1>8. Served("greet", Range(ToGreet))'
  <2>1. Range(ToGreet)' = Range(ToGreet)
    BY <1>1 DEF ToGreet
  <2> QED
    BY <1>2, <1>5, <1>7, <2>1 DEF Served
<1>9. Served("collect", Range(toCollect))'
  BY <1>1, <1>5 DEF Served
<1>10. CASE cut
  BY <1>1, <1>2, <1>3, <1>6, <1>8, <1>9, <1>10 DEF AskInv, ServedInv, RewardsCut
<1>11. CASE ~cut
  <2>1. Served("read", {m \in Range(mail) : Unread(m)})'
    BY <1>1, <1>2, <1>5, <1>7, <1>11 DEF Served
  <2>2. Served("reward", {m \in Range(mail) : Unclaimed(m)})'
    BY <1>1, <1>2, <1>5, <1>7, <1>11 DEF Served
  <2> QED
    BY <1>2, <1>3, <1>6, <1>8, <1>9, <2>1, <2>2 DEF AskInv, ServedInv
<1> QED
  BY <1>10, <1>11

LEMMA CollectedAskInv ==
    ASSUME IInv, AskInv, Collected
    PROVE  AskInv'
<1>1. /\ step = "build" /\ queue = <<>> /\ step' = "done"
      /\ UNCHANGED <<visitors, toCollect, mail, errs, asks, cut>>
  BY DEF Collected
<1>2. ListInv' /\ QueueInv' /\ OnceInv' /\ \A k, x : Asked(k, x)' <=> Asked(k, x)
  BY <1>1, AskedSame DEF AskInv, ListInv, QueueInv
<1>3. \A k : Begun(k)' <=> Begun(k)
  BY <1>1 DEF Begun, Start
<1>4. \A k, x : ~Waits(k, x) /\ ~Waits(k, x)'
  BY <1>1, EmptyRange DEF Waits
<1>5. FreshInv'
  BY <1>2, <1>3, <1>4 DEF AskInv, FreshInv
<1>6. errs \cap Fatal = {} /\ (cut => cut') /\ (RewardsCut => RewardsCut')
  BY <1>1 DEF IInv, LossInv, RewardsCut
<1> QED
  BY <1>1, <1>2, <1>3, <1>4, <1>5, <1>6, ServedOn DEF AskInv

LEMMA GreetAskInv ==
    ASSUME NEW o, IInv, AskInv, Greet(o)
    PROVE  AskInv'
<1>1. /\ step = "greet" /\ queue # <<>> /\ queue' = Tail(queue)
      /\ Send({<<"greet", Head(queue)>>}, o) /\ Join(o) /\ NextAction(o, step)
      /\ UNCHANGED <<visitors, toCollect, mail, cut>>
  BY DEF Greet
<1>2. queue \in Seq(Uids) /\ NoRepeats(queue)
  BY <1>1 DEF AskInv, QueueInv
<1> DEFINE xs == {Head(queue)}
           rest == Range(Tail(queue))
<1>3. /\ Tail(queue) \in Seq(Uids) /\ NoRepeats(Tail(queue))
      /\ Range(queue) = xs \cup rest /\ xs \cap rest = {}
  BY <1>1, <1>2, TailOf
<1>4. \A x : Waits("greet", x) <=> x \in xs \/ x \in rest
  BY <1>1, <1>3 DEF Waits
<1>5. QueueInv'
  BY <1>1, <1>3 DEF QueueInv, NextAction, NoRepeats
<1>6. o \notin Fatal => \A x : Waits("greet", x)' <=> x \in rest
  BY <1>1 DEF Waits, NextAction
<1>7. {<<"greet", Head(queue)>>} = {<<"greet", x>> : x \in xs}
  OBVIOUS
<1> HIDE DEF xs, rest
<1>8. Send({<<"greet", x>> : x \in xs}, o)
  BY <1>1, <1>7
<1> QED
  BY <1>1, <1>3, <1>4, <1>5, <1>6, <1>8, AskedFirst

LEMMA ReadMailAskInv ==
    ASSUME NEW o, IInv, AskInv, ReadMail(o)
    PROVE  AskInv'
<1>1. /\ step = "mail.read" /\ queue # <<>> /\ queue' = Tail(queue)
      /\ Send({<<"read", m>> : m \in Range(Head(queue))}, o) /\ Join(o) /\ NextAction(o, step)
      /\ UNCHANGED <<visitors, toCollect, mail, cut>>
  BY DEF ReadMail
<1>2. queue \in Seq(Seq(Mails)) /\ Apart(queue)
  BY <1>1 DEF AskInv, QueueInv
<1> DEFINE xs == Range(Head(queue))
           rest == Members(Tail(queue))
<1>3. /\ Tail(queue) \in Seq(Seq(Mails)) /\ Apart(Tail(queue))
      /\ Members(queue) = xs \cup rest /\ xs \cap rest = {}
  BY <1>1, <1>2, FirstBatch
<1>4. \A x : Waits("read", x) <=> x \in xs \/ x \in rest
  BY <1>1, <1>3 DEF Waits
<1>5. QueueInv'
  BY <1>1, <1>3 DEF QueueInv, NextAction, Apart
<1>6. Members(queue)' = rest
  BY <1>1 DEF Members
<1>7. o \notin Fatal => \A x : Waits("read", x)' <=> x \in rest
  BY <1>1, <1>6 DEF Waits, NextAction
<1> HIDE DEF rest
<1>8. Send({<<"read", x>> : x \in xs}, o)
  BY <1>1
<1> HIDE DEF xs
<1> QED
  BY <1>1, <1>3, <1>4, <1>5, <1>7, <1>8, AskedFirst

LEMMA ClaimMailAskInv ==
    ASSUME NEW o, IInv, AskInv, ClaimMail(o)
    PROVE  AskInv'
<1>1. /\ step = "mail.reward" /\ queue # <<>> /\ queue' = Tail(queue)
      /\ Send({<<"reward", m>> : m \in Range(Head(queue))}, o) /\ Join(o) /\ NextAction(o, step)
      /\ UNCHANGED <<visitors, toCollect, mail, cut>>
  BY DEF ClaimMail
<1>2. queue \in Seq(Seq(Mails)) /\ Apart(queue)
  BY <1>1 DEF AskInv, QueueInv
<1> DEFINE xs == Range(Head(queue))
           rest == Members(Tail(queue))
<1>3. /\ Tail(queue) \in Seq(Seq(Mails)) /\ Apart(Tail(queue))
      /\ Members(queue) = xs \cup rest /\ xs \cap rest = {}
  BY <1>1, <1>2, FirstBatch
<1>4. \A x : Waits("reward", x) <=> x \in xs \/ x \in rest
  BY <1>1, <1>3 DEF Waits
<1>5. QueueInv'
  BY <1>1, <1>3 DEF QueueInv, NextAction, Apart
<1>6. Members(queue)' = rest
  BY <1>1 DEF Members
<1>7. o \notin Fatal => \A x : Waits("reward", x)' <=> x \in rest
  BY <1>1, <1>6 DEF Waits, NextAction
<1> HIDE DEF rest
<1>8. Send({<<"reward", x>> : x \in xs}, o)
  BY <1>1
<1> HIDE DEF xs
<1> QED
  BY <1>1, <1>3, <1>4, <1>5, <1>7, <1>8, AskedFirst

LEMMA CollectAskInv ==
    ASSUME NEW o, IInv, AskInv, CollectBuilding(o)
    PROVE  AskInv'
<1>1. /\ step = "build" /\ queue # <<>> /\ queue' = Tail(queue)
      /\ Send({<<"collect", Head(queue)>>}, o) /\ Join(o) /\ NextAction(o, step)
      /\ UNCHANGED <<visitors, toCollect, mail, cut>>
  BY DEF CollectBuilding
<1>2. queue \in Seq(Uuids) /\ NoRepeats(queue)
  BY <1>1 DEF AskInv, QueueInv
<1> DEFINE xs == {Head(queue)}
           rest == Range(Tail(queue))
<1>3. /\ Tail(queue) \in Seq(Uuids) /\ NoRepeats(Tail(queue))
      /\ Range(queue) = xs \cup rest /\ xs \cap rest = {}
  BY <1>1, <1>2, TailOf
<1>4. \A x : Waits("collect", x) <=> x \in xs \/ x \in rest
  BY <1>1, <1>3 DEF Waits
<1>5. QueueInv'
  BY <1>1, <1>3 DEF QueueInv, NextAction, NoRepeats
<1>6. o \notin Fatal => \A x : Waits("collect", x)' <=> x \in rest
  BY <1>1 DEF Waits, NextAction
<1>7. {<<"collect", Head(queue)>>} = {<<"collect", x>> : x \in xs}
  OBVIOUS
<1> HIDE DEF xs, rest
<1>8. Send({<<"collect", x>> : x \in xs}, o)
  BY <1>1, <1>7
<1> QED
  BY <1>1, <1>3, <1>4, <1>5, <1>6, <1>8, AskedFirst

\* A request between the mail and the buildings.
MiddleRequest(o) ==
    AskHelp(o) \/ HelpAll(o) \/ ListGifts(o) \/ ClaimGifts(o) \/ AskTech(o) \/ Donate(o) \/ AskVip(o)
    \/ ClaimVip(o)

LEMMA MiddleRequestAskInv ==
    ASSUME NEW o, IInv, AskInv, MiddleRequest(o)
    PROVE  AskInv'
<1>1. Send({}, o) /\ Join(o) /\ UNCHANGED <<visitors, toCollect, mail, cut>>
  BY DEF MiddleRequest, AskHelp, HelpAll, ListGifts, ClaimGifts, AskTech, Donate, AskVip, ClaimVip
<1>2. step \in Middle
  BY DEF Middle, MiddleRequest, AskHelp, HelpAll, ListGifts, ClaimGifts, AskTech, Donate, AskVip, ClaimVip
<1>3. step' \in Middle \/ (step' = "done" /\ o \in Fatal)
  <2>1. CASE AskHelp(o)
    BY <2>1 DEF AskHelp, NextAction, Middle
  <2>2. CASE HelpAll(o)
    BY <2>2 DEF HelpAll, NextAction, Middle
  <2>3. CASE ListGifts(o)
    BY <2>3 DEF ListGifts, NextAction, Middle
  <2>4. CASE ClaimGifts(o)
    BY <2>4 DEF ClaimGifts, NextAction, Middle
  <2>5. CASE AskTech(o)
    BY <2>5 DEF AskTech, NextAction, Middle
  <2>6. CASE Donate(o)
    BY <2>6 DEF Donate, NextAction, Middle
  <2>7. CASE AskVip(o)
    BY <2>7 DEF AskVip, NextAction, Middle
  <2>8. CASE ClaimVip(o)
    BY <2>8 DEF ClaimVip, NextAction, Middle
  <2> QED
    BY <2>1, <2>2, <2>3, <2>4, <2>5, <2>6, <2>7, <2>8 DEF MiddleRequest
<1>4. OnceInv' /\ \A k, x : Asked(k, x)' <=> Asked(k, x)
  BY <1>1, AskedNothing DEF AskInv
<1>5. step' = "done" => errs' \cap Fatal # {}
  BY <1>1, <1>3, LossJoined DEF Middle
<1>6. step' \in Middle \cup {"done"}
  BY <1>3
<1> QED
  BY <1>1, <1>2, <1>4, <1>5, <1>6, MiddleStep

\* The idle reward, before the visitors.
LEMMA IdleAskInv ==
    ASSUME NEW o, IInv, AskInv, PeekIdle(o) \/ ClaimIdle(o)
    PROVE  AskInv'
<1>1. Send({}, o) /\ Join(o) /\ step \in Start /\ UNCHANGED <<visitors, toCollect, mail, cut>>
  BY DEF PeekIdle, ClaimIdle, Start
<1>2. \/ step' = "idle.claim"
      \/ step' = "greet" /\ queue' = ToGreet
      \/ step' = "done" /\ o \in Fatal
  BY DEF PeekIdle, ClaimIdle, NextAction
<1>3. OnceInv' /\ \A k, x : Asked(k, x)' <=> Asked(k, x)
  BY <1>1, AskedNothing DEF AskInv
<1>4. \/ step' = "idle.claim"
      \/ step' = "greet" /\ queue' = ToGreet
      \/ step' = "done" /\ errs' \cap Fatal # {}
  BY <1>1, <1>2, LossJoined
<1> QED
  BY <1>1, <1>3, <1>4, GreetBegins

LEMMA InitAskInv == Init => AskInv
<1> SUFFICES ASSUME Init
             PROVE  AskInv
  OBVIOUS
<1>1. /\ step = "filter" /\ mail = <<>> /\ toCollect = <<>> /\ asks = <<>>
      /\ visitors \in VisitorLists /\ queue \in BuildingLists
  BY DEF Init
<1>2. visitors \in Seq(Uids) /\ NoRepeats(visitors) /\ queue \in Seq(Uuids) /\ NoRepeats(queue)
  BY <1>1, ListsAreSound
<1>3. NoRepeats(<<>>) /\ <<>> \in Seq(Mails) /\ <<>> \in Seq(Uuids) /\ Range(<<>>) = {}
  BY EmptyRange DEF NoRepeats
<1>4. ListInv /\ QueueInv
  BY <1>1, <1>2, <1>3 DEF ListInv, QueueInv
<1>5. DOMAIN asks = {}
  BY <1>1
<1>6. OnceInv /\ FreshInv
  BY <1>5 DEF OnceInv, FreshInv, Asked
<1>7. ServedInv
  BY <1>1 DEF ServedInv, Served, Begun, Start
<1> QED
  BY <1>4, <1>6, <1>7 DEF AskInv

LEMMA NextAskInv ==
    ASSUME IInv, AskInv, [Next]_vars
    PROVE  AskInv'
<1>1. CASE UNCHANGED vars
  <2>1. UNCHANGED <<visitors, mail, toCollect, queue, step, errs, asks, cut>>
    BY <1>1 DEF vars
  <2>2. ListInv' /\ OnceInv'
    BY <2>1 DEF AskInv, ListInv, OnceInv
  <2>3. QueueInv'
    BY <2>1 DEF AskInv, QueueInv
  <2>4. FreshInv'
    BY <2>1 DEF AskInv, FreshInv, Asked, Begun, Waits
  <2>5. ServedInv'
    BY <2>1 DEF AskInv, ServedInv, Served, Asked, Begun, Waits, ToGreet, RewardsCut
  <2> QED
    BY <2>2, <2>3, <2>4, <2>5 DEF AskInv
<1>2. CASE FilterBuilding \/ Filtered
  BY <1>2, FilterAskInv, FilteredAskInv
<1>3. CASE Greeted \/ MailRead \/ MailClaimed \/ VipClaimed \/ Collected
  BY <1>3, GreetedAskInv, MailReadAskInv, MailClaimedAskInv, VipClaimedAskInv, CollectedAskInv
<1>4. CASE SkipGifts \/ BlindGifts \/ GiftsClaimed \/ SkipTech \/ VipAtHand
  <2>1. /\ step \in Middle /\ step' \in Middle
        /\ UNCHANGED <<visitors, toCollect, mail, cut, asks>>
    BY <1>4 DEF SkipGifts, BlindGifts, GiftsClaimed, SkipTech, VipAtHand, Middle
  <2>2. OnceInv' /\ \A k, x : Asked(k, x)' <=> Asked(k, x)
    BY <2>1, AskedSame DEF AskInv
  <2>3. step' # "done"
    BY <2>1 DEF Middle
  <2> QED
    BY <2>1, <2>2, <2>3, MiddleStep
<1>5. CASE \E o \in Outcomes : Request(o)
  <2>1. PICK o : Request(o)
    BY <1>5
  <2>2. CASE PeekIdle(o) \/ ClaimIdle(o)
    BY <2>2, IdleAskInv
  <2>3. CASE Greet(o) \/ ListMailPage(o) \/ ReadMail(o) \/ ClaimMail(o) \/ CollectBuilding(o)
    BY <2>3, GreetAskInv, ListMailAskInv, ReadMailAskInv, ClaimMailAskInv, CollectAskInv
  <2>4. CASE MiddleRequest(o)
    BY <2>4, MiddleRequestAskInv
  <2> QED
    BY <2>1, <2>2, <2>3, <2>4 DEF Request, MiddleRequest
<1> QED
  BY <1>1, <1>2, <1>3, <1>4, <1>5 DEF Next

\* Nothing is asked for twice in a run, and a core that ran through without a
\* cap has asked once for every building, visitor and mail it should (collectCore
\* with readyBuildings, greetVisitors, ListMail and claimMailGroups, for any
\* pushes, pages, facts and limits).
THEOREM AskedOnce == SafeSpec => []AskedExactlyOnce
<1>1. IInv /\ AskInv => AskedExactlyOnce
  <2> SUFFICES ASSUME IInv, AskInv
               PROVE  AskedExactlyOnce
    OBVIOUS
  <2>1. \A x \in DOMAIN asks : asks[x] = 1
    BY DEF AskInv, OnceInv
  <2>2. \A k, x : Asked(k, x) => AskedFor(<<k, x>>) = 1
    BY <2>1 DEF Asked, AskedFor
  <2>3. ASSUME step = "done", errs \cap Fatal = {}, ~cut
        PROVE  /\ \A b \in Range(toCollect) : Asked("collect", b)
               /\ \A v \in Range(ToGreet) : Asked("greet", v)
               /\ \A m \in Range(mail) :
                     (Unread(m) => Asked("read", m)) /\ (Unclaimed(m) => Asked("reward", m))
    <3>1. /\ \A k \in {"greet", "read", "reward", "collect"} : Begun(k)
          /\ \A k, x : ~Waits(k, x)
          /\ ~RewardsCut
      BY <2>3 DEF Begun, Start, Waits, RewardsCut
    <3>2. /\ Served("greet", Range(ToGreet))
          /\ Served("read", {m \in Range(mail) : Unread(m)})
          /\ Served("reward", {m \in Range(mail) : Unclaimed(m)})
          /\ Served("collect", Range(toCollect))
      BY <2>3, <3>1 DEF AskInv, ServedInv
    <3> QED
      BY <3>1, <3>2 DEF Served
  <2> QED
    BY <2>1, <2>2, <2>3 DEF AskedExactlyOnce
<1>2. AskInv /\ IInv /\ [Next]_vars => AskInv'
  BY NextAskInv
<1> QED
  BY <1>1, <1>2, InitAskInv, SpecIInv, PTL DEF SafeSpec
=============================================================================
