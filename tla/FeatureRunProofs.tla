-------------------------- MODULE FeatureRunProofs --------------------------
(***************************************************************************)
(* Proofs about FeatureRun, for any features, events, kinds of claims,     *)
(* duel days and session configs: a feature that is to be held starts only *)
(* on a day that scores it (HeldOffDuty), no request goes out after a loss *)
(* of the connection that was told of (FeaturesHeedLoss), and a run        *)
(* without a fault leaves nothing due (NothingDueLeft).                    *)
(*                                                                         *)
(* A loss can be on record in three places: the errors of the features     *)
(* that have run, the errors of the one that runs, and the sweep's cache,  *)
(* where the duel's reply is the only one that outlives the feature it     *)
(* ends (TodayDuel answers a failed read with nothing).  HeedInv says      *)
(* where each of them stands while the run goes on; VisitInv says that an  *)
(* event is visited for a kind it has, so that no Forget is about the      *)
(* duel.                                                                   *)
(*                                                                         *)
(* Nothing is left due because, while no request has failed, whatever a    *)
(* concluding feature has been through is settled (SettledInv).  That it   *)
(* becomes so takes what the feature knows of the event it visits          *)
(* (KnownInv), which takes the replies that are still to be read to be as  *)
(* the server is (CacheInv): nothing is earned once the first such feature *)
(* has begun (FromInv, OrderInv), the replies are forgotten before the     *)
(* progress claims (RunInv), and no two kinds, nor two features, claim the *)
(* same of an event but the pass and its overflow, in that order.          *)
(***************************************************************************)
EXTENDS FeatureRun, FiniteSetTheorems, TLAPS

ShapeInv ==
    /\ stage \in {"log", "next", "run", "done"}
    /\ stage # "run" => pc = "idle" /\ batch = {}
    /\ listed \in Seq(Activities)

\* A reply in the cache lists days of the schedule only.
RepliesInv == \A a \in DOMAIN replies : replies[a].days \subseteq DuelDays

\* The events still to visit are of the kind that is taken.
OfKind(k) == {a \in Activities : k \in Fact(a).kinds}

Visiting == pc \in {"read", "tasks", "reread", "boxes", "drain"}

VisitInv ==
    /\ todo \in Seq(OfKind(Head(kinds)))
    /\ Visiting => todo # <<>>

\* The sweep has lost the connection, and the duel's reply says so.
SweepLost == {"sweep"} \X Fatal \cap faults # {}

DuelLost == DuelEntry \in DOMAIN replies /\ replies[DuelEntry].res \in Fatal

HeedInv ==
    /\ stage # "done" => ~Loss(errs)
    /\ pc # "end" => ~Loss(batch)
    /\ SweepLost => Loss(batch) \/ Loss(errs) \/ DuelLost
    /\ FeaturesHeedLoss

IInv == ShapeInv /\ RepliesInv /\ VisitInv /\ HeedInv

-----------------------------------------------------------------------------
(* The kinds of claims.                                                     *)

\* What the visits rely on: how each way to read, to claim and to learn the
\* score goes with the others.
Coherent(k, r) ==
    /\ k = "duel_chests" => r.read = "sweep" /\ r.after = "none"
    /\ k = "crystal_boss" => r.read = "direct" /\ r.tasks = "none" /\ r.boxes = "all"
    /\ k = "overflow" <=> r.boxes = "drain"
    /\ k = "overflow" => r.read = "fresh" /\ r.tasks = "none"
    /\ r.read = "once" <=> k \in {"week_cards", "week_gift"}
    /\ r.read = "once" => r.tasks = "none" /\ r.after = "none" /\ r.boxes = "all"
    /\ r.tasks # "none" /\ r.after = "none" => r.boxes = "none"
    /\ r.after \in {"none", "reread", "reply", "chain"}

CoherentKinds(f) == \A k \in DOMAIN f : Coherent(k, f[k])

LEMMA EventKindsAre == CoherentKinds(EventKinds)
BY DEF CoherentKinds, Coherent, EventKinds, Kind, ActivityTasks, Arenas, ArmsRace, BattlePass, BountyStash,
       CrystalBoss, DuelChests, EventShop, FlowerTrains, Overflow, SevenDay, SevenDayAll, SevenDayV2, SignIn,
       TorchRelay, WinterStorm, Asked, ListInInit

LEMMA OtherKindsAre ==
    /\ CoherentKinds(ActivityVisitors)
    /\ CoherentKinds(AllianceCallHelp)
    /\ CoherentKinds(AllianceGifts)
    /\ CoherentKinds(AllianceSalary)
    /\ CoherentKinds(AllianceTasks)
    /\ CoherentKinds(CardDailies)
    /\ CoherentKinds(CollectRewards)
    /\ CoherentKinds(DailyQuests)
    /\ CoherentKinds(DailyStamina)
    /\ CoherentKinds(FinishedTimers)
    /\ CoherentKinds(FreeChests)
    /\ CoherentKinds(FreeRecruits)
    /\ CoherentKinds(GhostRecon)
    /\ CoherentKinds(IdleExpedition)
    /\ CoherentKinds(KonbiniFree)
    /\ CoherentKinds(Quests)
    /\ CoherentKinds(RailwayCargo)
    /\ CoherentKinds(SeasonDailies)
    /\ CoherentKinds(SeasonMummies)
    /\ CoherentKinds(SeasonOutput)
    /\ CoherentKinds(SeasonWeekCard)
    /\ CoherentKinds(SecretTasks)
    /\ CoherentKinds(StageQuests)
    /\ CoherentKinds(TowerUpRewards)
    /\ CoherentKinds(WorldSmallClaims)
    /\ CoherentKinds(WoundedRefunds)
    /\ CoherentKinds(ZoneMobilization)
<1>1. CoherentKinds(ActivityVisitors)
  BY DEF CoherentKinds, Coherent, Kind, InInit, ListInInit, PairInInit, Asked, ListAsked, BatchAsked, WeekCardInfo, ActivityVisitors
<1>2. CoherentKinds(AllianceCallHelp)
  BY DEF CoherentKinds, Coherent, Kind, InInit, ListInInit, PairInInit, Asked, ListAsked, BatchAsked, WeekCardInfo, AllianceCallHelp
<1>3. CoherentKinds(AllianceGifts)
  BY DEF CoherentKinds, Coherent, Kind, InInit, ListInInit, PairInInit, Asked, ListAsked, BatchAsked, WeekCardInfo, AllianceGifts
<1>4. CoherentKinds(AllianceSalary)
  BY DEF CoherentKinds, Coherent, Kind, InInit, ListInInit, PairInInit, Asked, ListAsked, BatchAsked, WeekCardInfo, AllianceSalary
<1>5. CoherentKinds(AllianceTasks)
  BY DEF CoherentKinds, Coherent, Kind, InInit, ListInInit, PairInInit, Asked, ListAsked, BatchAsked, WeekCardInfo, AllianceTasks
<1>6. CoherentKinds(CardDailies)
  BY DEF CoherentKinds, Coherent, Kind, InInit, ListInInit, PairInInit, Asked, ListAsked, BatchAsked, WeekCardInfo, CardDailies
<1>7. CoherentKinds(CollectRewards)
  BY DEF CoherentKinds, Coherent, Kind, InInit, ListInInit, PairInInit, Asked, ListAsked, BatchAsked, WeekCardInfo, CollectRewards
<1>8. CoherentKinds(DailyQuests)
  BY DEF CoherentKinds, Coherent, Kind, InInit, ListInInit, PairInInit, Asked, ListAsked, BatchAsked, WeekCardInfo, DailyQuests
<1>9. CoherentKinds(DailyStamina)
  BY DEF CoherentKinds, Coherent, Kind, InInit, ListInInit, PairInInit, Asked, ListAsked, BatchAsked, WeekCardInfo, DailyStamina
<1>10. CoherentKinds(FinishedTimers)
  BY DEF CoherentKinds, Coherent, Kind, InInit, ListInInit, PairInInit, Asked, ListAsked, BatchAsked, WeekCardInfo, FinishedTimers
<1>11. CoherentKinds(FreeChests)
  BY DEF CoherentKinds, Coherent, Kind, InInit, ListInInit, PairInInit, Asked, ListAsked, BatchAsked, WeekCardInfo, FreeChests
<1>12. CoherentKinds(FreeRecruits)
  BY DEF CoherentKinds, Coherent, Kind, InInit, ListInInit, PairInInit, Asked, ListAsked, BatchAsked, WeekCardInfo, FreeRecruits
<1>13. CoherentKinds(GhostRecon)
  BY DEF CoherentKinds, Coherent, Kind, InInit, ListInInit, PairInInit, Asked, ListAsked, BatchAsked, WeekCardInfo, GhostRecon
<1>14. CoherentKinds(IdleExpedition)
  BY DEF CoherentKinds, Coherent, Kind, InInit, ListInInit, PairInInit, Asked, ListAsked, BatchAsked, WeekCardInfo, IdleExpedition
<1>15. CoherentKinds(KonbiniFree)
  BY DEF CoherentKinds, Coherent, Kind, InInit, ListInInit, PairInInit, Asked, ListAsked, BatchAsked, WeekCardInfo, KonbiniFree
<1>16. CoherentKinds(Quests)
  BY DEF CoherentKinds, Coherent, Kind, InInit, ListInInit, PairInInit, Asked, ListAsked, BatchAsked, WeekCardInfo, Quests
<1>17. CoherentKinds(RailwayCargo)
  BY DEF CoherentKinds, Coherent, Kind, InInit, ListInInit, PairInInit, Asked, ListAsked, BatchAsked, WeekCardInfo, RailwayCargo
<1>18. CoherentKinds(SeasonDailies)
  BY DEF CoherentKinds, Coherent, Kind, InInit, ListInInit, PairInInit, Asked, ListAsked, BatchAsked, WeekCardInfo, SeasonDailies
<1>19. CoherentKinds(SeasonMummies)
  BY DEF CoherentKinds, Coherent, Kind, InInit, ListInInit, PairInInit, Asked, ListAsked, BatchAsked, WeekCardInfo, SeasonMummies
<1>20. CoherentKinds(SeasonOutput)
  BY DEF CoherentKinds, Coherent, Kind, InInit, ListInInit, PairInInit, Asked, ListAsked, BatchAsked, WeekCardInfo, SeasonOutput
<1>21. CoherentKinds(SeasonWeekCard)
  BY DEF CoherentKinds, Coherent, Kind, InInit, ListInInit, PairInInit, Asked, ListAsked, BatchAsked, WeekCardInfo, SeasonWeekCard
<1>22. CoherentKinds(SecretTasks)
  BY DEF CoherentKinds, Coherent, Kind, InInit, ListInInit, PairInInit, Asked, ListAsked, BatchAsked, WeekCardInfo, SecretTasks
<1>23. CoherentKinds(StageQuests)
  BY DEF CoherentKinds, Coherent, Kind, InInit, ListInInit, PairInInit, Asked, ListAsked, BatchAsked, WeekCardInfo, StageQuests
<1>24. CoherentKinds(TowerUpRewards)
  BY DEF CoherentKinds, Coherent, Kind, InInit, ListInInit, PairInInit, Asked, ListAsked, BatchAsked, WeekCardInfo, TowerUpRewards
<1>25. CoherentKinds(WorldSmallClaims)
  BY DEF CoherentKinds, Coherent, Kind, InInit, ListInInit, PairInInit, Asked, ListAsked, BatchAsked, WeekCardInfo, WorldSmallClaims
<1>26. CoherentKinds(WoundedRefunds)
  BY DEF CoherentKinds, Coherent, Kind, InInit, ListInInit, PairInInit, Asked, ListAsked, BatchAsked, WeekCardInfo, WoundedRefunds
<1>27. CoherentKinds(ZoneMobilization)
  BY DEF CoherentKinds, Coherent, Kind, InInit, ListInInit, PairInInit, Asked, ListAsked, BatchAsked, WeekCardInfo, ZoneMobilization
<1> QED
  BY <1>1, <1>2, <1>3, <1>4, <1>5, <1>6, <1>7, <1>8, <1>9, <1>10, <1>11, <1>12, <1>13, <1>14, <1>15, <1>16, <1>17, <1>18, <1>19, <1>20, <1>21, <1>22, <1>23, <1>24, <1>25, <1>26, <1>27

LEMMA KindsAre == CoherentKinds(KindFacts)
<1>1. \A t \in KindTables : CoherentKinds(t)
  BY EventKindsAre, OtherKindsAre DEF KindTables
<1>2. ASSUME NEW k \in DOMAIN KindFacts
      PROVE  \E t \in KindTables : k \in DOMAIN t /\ KindFacts[k] = t[k]
  BY DEF KindFacts
<1> QED
  BY <1>1, <1>2 DEF CoherentKinds

LEMMA DuelKind == "duel_chests" \in DOMAIN KindFacts
<1>1. "duel_chests" \in DOMAIN EventKinds
  BY DEF EventKinds
<1>2. EventKinds \in KindTables
  BY DEF KindTables
<1> QED
  BY <1>1, <1>2 DEF KindFacts

-----------------------------------------------------------------------------
(* The events of a kind.                                                    *)

ParsedOf(base, s, list, i) ==
    base = <<>> /\ s \in Seq(Activities) => list \in Seq(Activities)

ParsedFold == INSTANCE FoldInduction WITH Op <- AddParsed, P <- ParsedOf

LEMMA ParsedIs ==
    ASSUME listed \in Seq(Activities)
    PROVE  Parsed \in Seq(Activities)
<1> DEFINE none == <<>>
<1>1. ParsedOf(none, listed, none, 0)
  BY DEF ParsedOf
<1>2. ASSUME NEW list, NEW i, i \in 1 .. Len(listed), ParsedOf(none, listed, list, i - 1)
      PROVE  ParsedOf(none, listed, AddParsed(list, listed[i]), i)
  <2>1. listed[i] \in Activities /\ list \in Seq(Activities)
    BY <1>2 DEF ParsedOf
  <2> QED
    BY <2>1 DEF ParsedOf, AddParsed
<1> HIDE DEF none
<1>3. ParsedOf(none, listed, ParsedFold!FoldLeft(AddParsed, none, listed), Len(listed))
  BY <1>1, <1>2, ParsedFold!FoldInduct
<1>4. ParsedFold!FoldLeft(AddParsed, none, listed) = FoldLeft(AddParsed, none, listed)
  BY DEF ParsedFold!FoldLeft, FoldLeft, ParsedFold!MapThenFoldSet, MapThenFoldSet, ParsedFold!Max, Max
<1> USE DEF none
<1> QED
  BY <1>3, <1>4 DEF ParsedOf, Parsed

OpenOf(base, s, acc, i) ==
    \A k : base = [kind |-> k, list |-> <<>>] /\ s \in Seq(Activities)
              => \E list \in Seq(OfKind(k)) : acc = [kind |-> k, list |-> list]

OpenFold == INSTANCE FoldInduction WITH Op <- AddOpen, P <- OpenOf

LEMMA OpenIs ==
    ASSUME NEW k, listed \in Seq(Activities)
    PROVE  Open(k) \in Seq(OfKind(k))
<1> DEFINE base == [kind |-> k, list |-> <<>>]
<1>1. Parsed \in Seq(Activities)
  BY ParsedIs
<1>2. OpenOf(base, Parsed, base, 0)
  <2>1. \A j : base = [kind |-> j, list |-> <<>>] => j = k
    OBVIOUS
  <2>2. <<>> \in Seq(OfKind(k))
    OBVIOUS
  <2> QED
    BY <2>1, <2>2 DEF OpenOf
<1>3. ASSUME NEW acc, NEW i, i \in 1 .. Len(Parsed), OpenOf(base, Parsed, acc, i - 1)
      PROVE  OpenOf(base, Parsed, AddOpen(acc, Parsed[i]), i)
  <2>1. PICK list \in Seq(OfKind(k)) : acc = [kind |-> k, list |-> list]
    BY <1>1, <1>3 DEF OpenOf
  <2>2. Parsed[i] \in Activities
    BY <1>1, <1>3
  <2>3. CASE AddOpen(acc, Parsed[i]) = acc
    <3>1. \A j : base = [kind |-> j, list |-> <<>>] => j = k
      OBVIOUS
    <3> QED
      BY <2>1, <2>3, <3>1 DEF OpenOf
  <2>4. CASE AddOpen(acc, Parsed[i]) # acc
    <3>1. k \in Fact(Parsed[i]).kinds /\ AddOpen(acc, Parsed[i]) = [acc EXCEPT !.list = Append(@, Parsed[i])]
      BY <2>1, <2>4 DEF AddOpen
    <3>2. Append(list, Parsed[i]) \in Seq(OfKind(k))
      BY <2>1, <2>2, <3>1 DEF OfKind
    <3>3. AddOpen(acc, Parsed[i]) = [kind |-> k, list |-> Append(list, Parsed[i])]
      BY <2>1, <3>1
    <3>4. \A j : base = [kind |-> j, list |-> <<>>] => j = k
      OBVIOUS
    <3> QED
      BY <3>2, <3>3, <3>4 DEF OpenOf
  <2> QED
    BY <2>3, <2>4
<1> HIDE DEF base
<1>4. OpenOf(base, Parsed, OpenFold!FoldLeft(AddOpen, base, Parsed), Len(Parsed))
  BY <1>1, <1>2, <1>3, OpenFold!FoldInduct
<1>5. OpenFold!FoldLeft(AddOpen, base, Parsed) = FoldLeft(AddOpen, base, Parsed)
  BY DEF OpenFold!FoldLeft, FoldLeft, OpenFold!MapThenFoldSet, MapThenFoldSet, OpenFold!Max, Max
<1> USE DEF base
<1>6. PICK list \in Seq(OfKind(k)) : FoldLeft(AddOpen, base, Parsed) = [kind |-> k, list |-> list]
  BY <1>1, <1>4, <1>5 DEF OpenOf
<1> QED
  BY <1>6 DEF Open

LEMMA VisitsIs ==
    ASSUME NEW k, listed \in Seq(Activities)
    PROVE  Visits(k) \in Seq(OfKind(k))
<1>1. Open(k) \in Seq(OfKind(k))
  BY OpenIs
<1>2. Open(k) # <<>> => Head(Open(k)) \in OfKind(k)
  BY <1>1
<1> QED
  BY <1>1, <1>2 DEF Visits

-----------------------------------------------------------------------------
(* Requests and the cache.                                                  *)

\* A request that is no refused one is sent while no loss is on record, and
\* brings a loss of the sweep's on record only by its own outcome.
LEMMA SendHeeds ==
    ASSUME NEW by \in {"sweep", "claim"}, NEW o, Send(by, o),
           ~late, ~Loss(errs), ~Loss(batch), by = "sweep" => ~SweepLost
    PROVE  /\ ~late'
           /\ SweepLost' => SweepLost \/ (by = "sweep" /\ o \in Fatal)
<1>1. by = "sweep" => {by} \X Fatal \cap faults = {}
  BY DEF SweepLost
<1>2. ~late'
  BY <1>1 DEF Send
<1>3. faults' = faults \cup {by} \X ErrorOf(o)
  BY DEF Send
<1>4. ASSUME SweepLost', ~SweepLost
      PROVE  by = "sweep" /\ o \in Fatal
  <2>1. PICK x \in {"sweep"} \X Fatal : x \in faults'
    BY <1>4 DEF SweepLost
  <2>2. x \notin faults
    BY <1>4, <2>1 DEF SweepLost
  <2>3. x \in {by} \X ErrorOf(o)
    BY <1>3, <2>1, <2>2
  <2>4. x[1] = "sweep" /\ x[2] \in Fatal /\ x[1] = by /\ x[2] \in ErrorOf(o)
    BY <2>1, <2>3
  <2> QED
    BY <2>4 DEF ErrorOf
<1> QED
  BY <1>2, <1>4

LEMMA NoSendHeeds ==
    ASSUME NoSend, ~late
    PROVE  ~late' /\ (SweepLost' <=> SweepLost)
BY DEF NoSend, SweepLost

\* What the cache still has when a reply is forgotten.
LEMMA Forgotten ==
    ASSUME NEW reps, NEW a
    PROVE  /\ DOMAIN Without(reps, a) = DOMAIN reps \ {a}
           /\ \A b \in DOMAIN reps \ {a} : Without(reps, a)[b] = reps[b]
BY DEF Without, Restrict

\* Info, of a cache that still has the duel's loss if there is one: a loss that
\* the sweep meets is what Info answers.
LEMMA InfoHeeds ==
    ASSUME ~late, ~Loss(errs), ~Loss(batch),
           SweepLost => DuelLost,
           NEW reps, NEW a, NEW o, NEW days, Info(reps, a, o, days),
           DuelLost => DuelEntry \in DOMAIN reps /\ reps[DuelEntry] = replies[DuelEntry],
           \A b \in DOMAIN reps : reps[b].days \subseteq DuelDays
    PROVE  /\ ~late'
           /\ RepliesInv'
           /\ DuelLost => DuelLost'
           /\ SweepLost' => \/ DuelLost'
                            \/ Answer(reps, a, o, days).res \in Fatal
           /\ SweepLost' /\ a = DuelEntry => DuelLost'
           /\ Answer(reps, a, o, days).days \subseteq DuelDays \/ Answer(reps, a, o, days).res \in Fatal
<1>1. days \subseteq DuelDays
  BY DEF Info
<1>2. CASE Asks(reps, a)
  <2>1. Lost(reps) = {} /\ a \notin DOMAIN reps
    BY <1>2 DEF Asks
  <2>2. ~DuelLost
    BY <2>1 DEF DuelLost, Lost
  <2>3. Send("sweep", o) /\ replies' = With(reps, a, Reply(a, o, days))
    BY <1>2 DEF Info
  <2>4. ~late' /\ (SweepLost' => o \in Fatal)
    BY <2>2, <2>3, SendHeeds
  <2>5. Answer(reps, a, o, days) = Reply(a, o, days)
    BY <2>1 DEF Answer
  <2>6. Answer(reps, a, o, days).res = o /\ Answer(reps, a, o, days).days = days
    BY <2>5 DEF Reply
  <2>7. /\ DOMAIN replies' = {a} \cup DOMAIN reps
        /\ replies'[a].res = o /\ replies'[a].days = days
        /\ \A b \in DOMAIN reps : b # a => replies'[b] = reps[b]
    BY <2>3 DEF With, Reply
  <2>8. RepliesInv'
    BY <1>1, <2>7 DEF RepliesInv
  <2>9. SweepLost' /\ a = DuelEntry => DuelLost'
    BY <2>4, <2>7 DEF DuelLost
  <2> QED
    BY <1>1, <2>2, <2>4, <2>6, <2>8, <2>9
<1>3. CASE ~Asks(reps, a)
  <2>1. NoSend /\ replies' = reps
    BY <1>3 DEF Info
  <2>2. ~late' /\ (SweepLost' <=> SweepLost)
    BY <2>1, NoSendHeeds
  <2>3. DuelLost => DuelLost'
    BY <2>1 DEF DuelLost
  <2>4. RepliesInv'
    BY <2>1 DEF RepliesInv
  <2>5. CASE a \in DOMAIN reps
    <3>1. Answer(reps, a, o, days) = reps[a]
      BY <2>5 DEF Answer
    <3> QED
      BY <2>2, <2>3, <2>4, <2>5, <3>1
  <2>6. CASE a \notin DOMAIN reps
    <3>1. Lost(reps) # {}
      BY <1>3, <2>6 DEF Asks
    <3>2. Answer(reps, a, o, days).res \in Fatal
      BY <2>6, <3>1 DEF Answer, Lost
    <3> QED
      BY <2>2, <2>3, <2>4, <3>2
  <2> QED
    BY <2>5, <2>6
<1> QED
  BY <1>2, <1>3

-----------------------------------------------------------------------------
(* The steps of a feature that claims.                                      *)

LEMMA LeaveKeeps ==
    ASSUME VisitInv, Visiting, LeaveVisit
    PROVE  /\ VisitInv'
           /\ pc' # "end" => ~Loss(batch')
<1>1. CASE Loss(batch')
  BY <1>1 DEF LeaveVisit, VisitInv, Visiting
<1>2. CASE ~Loss(batch') /\ Head(kinds) = "crystal_boss" /\ part < 3
  BY <1>2 DEF LeaveVisit, VisitInv, Visiting
<1>3. CASE ~Loss(batch') /\ ~(Head(kinds) = "crystal_boss" /\ part < 3)
  <2>1. /\ todo' = Tail(todo)
        /\ pc' = IF Tail(todo) = <<>> THEN "kind" ELSE "read"
        /\ kinds' = IF Tail(todo) = <<>> THEN Tail(kinds) ELSE kinds
    BY <1>3 DEF LeaveVisit
  <2>2. todo # <<>> /\ todo \in Seq(OfKind(Head(kinds)))
    BY DEF VisitInv
  <2>3. CASE Tail(todo) = <<>>
    <3>1. todo' = <<>> /\ pc' = "kind"
      BY <2>1, <2>3
    <3>2. VisitInv'
      BY <3>1 DEF VisitInv, Visiting
    <3> QED
      BY <1>3, <3>2
  <2>4. CASE Tail(todo) # <<>>
    <3>1. kinds' = kinds /\ todo' # <<>> /\ todo' \in Seq(OfKind(Head(kinds)))
      BY <2>1, <2>2, <2>4
    <3>2. VisitInv'
      BY <3>1 DEF VisitInv, OfKind
    <3> QED
      BY <1>3, <3>2
  <2> QED
    BY <2>3, <2>4
<1> QED
  BY <1>1, <1>2, <1>3

\* The event of a visit is of its kind, and no Forget is about the duel.
LEMMA VisitedIs ==
    ASSUME VisitInv, Visiting
    PROVE  /\ A \in Activities
           /\ K.read = "fresh" \/ K.after = "reread" => A # DuelEntry
<1>1. A \in OfKind(Head(kinds))
  <2>1. todo # <<>> /\ todo \in Seq(OfKind(Head(kinds)))
    BY DEF VisitInv
  <2> QED
    BY <2>1 DEF A
<1>2. A \in Activities /\ Head(kinds) \in ActivityFacts[A].kinds
  BY <1>1 DEF OfKind, Fact
<1>3. A = DuelEntry => KindFacts[Head(kinds)].read = "sweep" /\ KindFacts[Head(kinds)].after = "none"
  BY <1>2, EntriesAssumption, KindsAre, DuelKind DEF CoherentKinds, Coherent, Fact
<1> QED
  BY <1>2, <1>3 DEF K

\* What a step of a claiming feature has to keep.
Claiming ==
    /\ VisitInv'
    /\ RepliesInv'
    /\ pc' # "end" => ~Loss(batch')
    /\ ~late'
    /\ SweepLost' => Loss(batch') \/ DuelLost'

\* The feature is at work, with no loss on record but the duel's.
AtWork ==
    /\ VisitInv /\ RepliesInv
    /\ listed \in Seq(Activities)
    /\ ~Loss(errs) /\ ~Loss(batch) /\ ~late
    /\ SweepLost => DuelLost

\* A step that sends nothing, or a claim, and leaves the cache alone.
LEMMA ClaimingStep ==
    ASSUME AtWork, UNCHANGED replies, NoSend \/ \E o : Send("claim", o)
    PROVE  /\ RepliesInv'
           /\ ~late'
           /\ SweepLost' => DuelLost'
<1>1. RepliesInv' /\ (DuelLost <=> DuelLost')
  BY DEF AtWork, RepliesInv, DuelLost
<1>2. CASE NoSend
  BY <1>1, <1>2, NoSendHeeds DEF AtWork
<1>3. CASE \E o : Send("claim", o)
  <2>1. PICK o : Send("claim", o)
    BY <1>3
  <2>2. ~late' /\ (SweepLost' => SweepLost)
    BY <2>1, SendHeeds DEF AtWork
  <2> QED
    BY <1>1, <2>2 DEF AtWork
<1> QED
  BY <1>2, <1>3

LEMMA TakeKindClaims ==
    ASSUME AtWork, TakeKind
    PROVE  Claiming
<1>1. UNCHANGED replies /\ (NoSend \/ \E o : Send("claim", o))
  BY DEF TakeKind
<1>2. RepliesInv' /\ ~late' /\ (SweepLost' => DuelLost')
  BY <1>1, ClaimingStep
<1>3. CASE pc' = "end"
  <2>1. todo' \in Seq(OfKind(Head(kinds')))
    <3>1. CASE todo' = <<>>
      BY <3>1
    <3>2. CASE todo' # <<>>
      <4>1. todo' = todo /\ kinds' = kinds
        BY <1>3, <3>2 DEF TakeKind
      <4>2. todo \in Seq(OfKind(Head(kinds)))
        BY DEF AtWork, VisitInv
      <4> QED
        BY <4>1, <4>2
    <3> QED
      BY <3>1, <3>2
  <2>2. VisitInv'
    BY <1>3, <2>1 DEF VisitInv, Visiting, OfKind
  <2> QED
    BY <1>2, <1>3, <2>2 DEF Claiming
<1>4. CASE pc' # "end"
  <2>1. kinds # <<>>
    BY <1>4 DEF TakeKind
  <2>2. ~Loss(batch')
    BY <1>4, <2>1 DEF TakeKind
  <2>3. \/ pc' = "read" /\ todo' = Visits(Head(kinds)) /\ todo' # <<>> /\ kinds' = kinds
        \/ pc' = "kind" /\ todo' = <<>>
    BY <1>4, <2>1 DEF TakeKind
  <2>4. Visits(Head(kinds)) \in Seq(OfKind(Head(kinds)))
    BY VisitsIs DEF AtWork
  <2>5. todo' \in Seq(OfKind(Head(kinds')))
    <3>1. CASE todo' = <<>>
      BY <3>1
    <3>2. CASE todo' # <<>>
      BY <2>3, <2>4, <3>2
    <3> QED
      BY <3>1, <3>2
  <2>6. Visiting' => todo' # <<>>
    BY <2>3 DEF Visiting
  <2>7. VisitInv'
    BY <2>5, <2>6 DEF VisitInv, OfKind
  <2> QED
    BY <1>2, <2>2, <2>7 DEF Claiming
<1> QED
  BY <1>3, <1>4

\* A step in a visit that leaves it, or stays in it with no loss.
Stays == pc' # "end" /\ kinds' = kinds /\ todo' = todo /\ ~Loss(batch')

LEMMA VisitKeeps ==
    ASSUME AtWork, Visiting, LeaveVisit \/ Stays
    PROVE  VisitInv' /\ (pc' # "end" => ~Loss(batch'))
<1>1. CASE LeaveVisit
  BY <1>1, LeaveKeeps DEF AtWork
<1>2. CASE Stays
  BY <1>2 DEF AtWork, VisitInv, Visiting, Stays, OfKind
<1> QED
  BY <1>1, <1>2

LEMMA VisitClaims ==
    ASSUME AtWork, Visiting, UNCHANGED replies,
           NoSend \/ \E o : Send("claim", o), LeaveVisit \/ Stays
    PROVE  Claiming
BY ClaimingStep, VisitKeeps DEF Claiming

\* No error of a request is a loss but one that lost the connection.
LEMMA Errors ==
    ASSUME NEW o
    PROVE  /\ o \notin Fatal => ~Loss(ErrorOf(o))
           /\ Loss(ErrorOf("none")) = FALSE
           /\ \A es : Loss(batch \cup es) <=> Loss(batch) \/ Loss(es)
BY DEF Loss, ErrorOf, Fatal, Failures

\* A reply that is heeded ends the visit if it is a loss.
LEMMA HeedStays ==
    ASSUME AtWork, Visiting, NEW rep, Heed(rep)
    PROVE  /\ LeaveVisit \/ Stays
           /\ rep.res \in Fatal => Loss(batch')
<1>1. ASSUME NEW e, NEW days, Proceed(e, days), ~Loss(batch')
      PROVE  LeaveVisit \/ Stays
  BY <1>1 DEF Proceed, Stays
<1>2. batch' = batch \cup ReadError(rep.res)
  BY DEF Heed
<1>3. rep.res \in Fatal => Loss(batch')
  BY <1>2 DEF ReadError, ErrorOf, Loss, Fatal, Failures
<1>4. CASE rep.res = "none"
  <2>1. ~Loss(batch')
    BY <1>2, <1>4 DEF ReadError, ErrorOf, Loss, Fatal, Failures, AtWork
  <2>2. Proceed(rep.event, rep.days)
    BY <1>4 DEF Heed
  <2> QED
    BY <1>1, <1>3, <2>1, <2>2
<1>5. CASE rep.res # "none"
  BY <1>1, <1>3, <1>5 DEF Heed
<1> QED
  BY <1>4, <1>5

LEMMA ReadSweepClaims ==
    ASSUME AtWork, pc = "read", ReadSweep
    PROVE  Claiming
<1> PICK o \in Turns, days \in SUBSET DuelDays :
       Info(CacheForRead, A, o, days) /\ Heed(Answer(CacheForRead, A, o, days))
  BY DEF ReadSweep
<1> DEFINE reps == CacheForRead
<1>1. Visiting
  BY DEF Visiting
<1>2. K.read = "fresh" => A # DuelEntry
  BY <1>1, VisitedIs DEF AtWork
<1>3. /\ DOMAIN reps \subseteq DOMAIN replies
      /\ \A b \in DOMAIN reps : reps[b] = replies[b]
      /\ DuelEntry \in DOMAIN replies => DuelEntry \in DOMAIN reps
  BY <1>2, Forgotten DEF CacheForRead
<1>4. \A b \in DOMAIN reps : reps[b].days \subseteq DuelDays
  BY <1>3 DEF AtWork, RepliesInv
<1>5. DuelLost => DuelEntry \in DOMAIN reps /\ reps[DuelEntry] = replies[DuelEntry]
  BY <1>3 DEF DuelLost
<1>6. /\ ~late'
      /\ RepliesInv'
      /\ SweepLost' => DuelLost' \/ Answer(reps, A, o, days).res \in Fatal
  BY <1>4, <1>5, InfoHeeds DEF AtWork
<1>7. /\ LeaveVisit \/ Stays
      /\ Answer(reps, A, o, days).res \in Fatal => Loss(batch')
  BY <1>1, HeedStays
<1>8. VisitInv' /\ (pc' # "end" => ~Loss(batch'))
  BY <1>1, <1>7, VisitKeeps
<1> QED
  BY <1>6, <1>7, <1>8 DEF Claiming

LEMMA AskForItClaims ==
    ASSUME AtWork, pc = "read", AskForIt
    PROVE  Claiming
<1>1. PICK o \in Outcomes : Send("claim", o) /\ Heed(Reply(A, o, {}))
  BY DEF AskForIt
<1>2. Visiting
  BY DEF Visiting
<1>3. LeaveVisit \/ Stays
  BY <1>1, <1>2, HeedStays
<1> QED
  BY <1>1, <1>2, <1>3, VisitClaims DEF AskForIt

LEMMA ReadOnceClaims ==
    ASSUME AtWork, pc = "read", ReadOnce
    PROVE  Claiming
<1>1. Visiting
  BY DEF Visiting
<1>2. CASE A \in DOMAIN replies
  <2>1. NoSend /\ Heed(replies[A]) /\ UNCHANGED replies
    BY <1>2 DEF ReadOnce
  <2>2. LeaveVisit \/ Stays
    BY <1>1, <2>1, HeedStays
  <2> QED
    BY <1>1, <2>1, <2>2, VisitClaims
<1>3. CASE A \notin DOMAIN replies
  <2>1. PICK o \in Outcomes :
           /\ Send("claim", o) /\ Heed(Reply(A, o, {}))
           /\ replies' = With(replies, A, Reply(A, o, {}))
    BY <1>3 DEF ReadOnce
  <2>2. LeaveVisit \/ Stays
    BY <1>1, <2>1, HeedStays
  <2>3. VisitInv' /\ (pc' # "end" => ~Loss(batch'))
    BY <1>1, <2>2, VisitKeeps
  <2>4. ~late' /\ (SweepLost' => SweepLost)
    BY <2>1, SendHeeds DEF AtWork
  <2>5. /\ DOMAIN replies' = DOMAIN replies \cup {A}
        /\ replies'[A].days = {}
        /\ \A b \in DOMAIN replies : replies'[b] = replies[b]
    BY <1>3, <2>1 DEF With, Reply
  <2>6. RepliesInv'
    BY <2>5 DEF AtWork, RepliesInv
  <2>7. DuelLost => DuelLost'
    BY <2>5 DEF DuelLost
  <2> QED
    BY <2>3, <2>4, <2>6, <2>7 DEF Claiming, AtWork
<1> QED
  BY <1>2, <1>3

LEMMA FindInInitClaims ==
    ASSUME AtWork, pc = "read", FindInInit
    PROVE  Claiming
<1>1. Visiting
  BY DEF Visiting
<1>2. LeaveVisit \/ Stays
  BY DEF FindInInit, Proceed, Stays, AtWork
<1> QED
  BY <1>1, <1>2, VisitClaims DEF FindInInit

LEMMA ReadClaims ==
    ASSUME AtWork, Read
    PROVE  Claiming
BY ReadSweepClaims, AskForItClaims, ReadOnceClaims, FindInInitClaims DEF Read

LEMMA ClaimTasksClaims ==
    ASSUME AtWork, ClaimTasks
    PROVE  Claiming
<1>1. Visiting
  BY DEF ClaimTasks, Visiting
<1>2. PICK o \in Outcomes :
         /\ Send("claim", o)
         /\ batch' = batch \cup ErrorOf(o)
         /\ IF o = "none"
            THEN UNCHANGED <<pc, kinds, todo>>
            ELSE IF Loss(batch') THEN LeaveVisit
            ELSE pc' \in {"tasks", "reread"} /\ UNCHANGED <<kinds, todo>>
  BY DEF ClaimTasks
<1>3. LeaveVisit \/ Stays
  BY <1>2, Errors DEF Stays, ClaimTasks, AtWork
<1> QED
  BY <1>1, <1>2, <1>3, VisitClaims DEF ClaimTasks

LEMMA TasksDoneClaims ==
    ASSUME AtWork, TasksDone
    PROVE  Claiming
<1>1. Visiting /\ Stays
  BY DEF TasksDone, Visiting, Stays, Goto, Stay, visitVars, AtWork
<1> QED
  BY <1>1, VisitClaims DEF TasksDone

LEMMA RereadClaims ==
    ASSUME AtWork, Reread
    PROVE  Claiming
<1>1. Visiting
  BY DEF Reread, Visiting
<1>2. CASE ~Rereads
  <2>1. Stays
    BY <1>2 DEF Reread, Stays, Goto, Stay, visitVars, AtWork
  <2> QED
    BY <1>1, <1>2, <2>1, VisitClaims DEF Reread
<1>3. CASE Rereads
  <2> DEFINE reps == Without(replies, A)
  <2>1. PICK o \in Turns :
           /\ Info(reps, A, o, {})
           /\ batch' = batch \cup ErrorOf(Answer(reps, A, o, {}).res)
           /\ IF Answer(reps, A, o, {}).res = "none"
              THEN pc' = "boxes" /\ UNCHANGED <<kinds, todo>>
              ELSE LeaveVisit
    BY <1>3 DEF Reread
  <2>2. A # DuelEntry
    BY <1>1, <1>3, VisitedIs DEF AtWork, Rereads
  <2>3. /\ \A b \in DOMAIN reps : b \in DOMAIN replies /\ reps[b] = replies[b]
        /\ DuelEntry \in DOMAIN replies => DuelEntry \in DOMAIN reps
    BY <2>2, Forgotten
  <2>4. \A b \in DOMAIN reps : reps[b].days \subseteq DuelDays
    BY <2>3 DEF AtWork, RepliesInv
  <2>5. DuelLost => DuelEntry \in DOMAIN reps /\ reps[DuelEntry] = replies[DuelEntry]
    BY <2>3 DEF DuelLost
  <2> HIDE DEF reps
  <2>6. /\ ~late'
        /\ RepliesInv'
        /\ SweepLost' => DuelLost' \/ Answer(reps, A, o, {}).res \in Fatal
    BY <2>1, <2>4, <2>5, InfoHeeds DEF AtWork
  <2>7. Answer(reps, A, o, {}).res \in Fatal => Loss(batch')
    BY <2>1 DEF ErrorOf, Loss, Fatal, Failures
  <2>8. LeaveVisit \/ Stays
    BY <2>1, Errors DEF Stays, AtWork
  <2>9. VisitInv' /\ (pc' # "end" => ~Loss(batch'))
    BY <1>1, <2>8, VisitKeeps
  <2> QED
    BY <2>6, <2>7, <2>9 DEF Claiming
<1> QED
  BY <1>2, <1>3

LEMMA ClaimBoxesClaims ==
    ASSUME AtWork, ClaimBoxes
    PROVE  Claiming
<1>1. Visiting
  BY DEF ClaimBoxes, Visiting
<1>2. PICK o \in Outcomes :
         /\ Send("claim", o)
         /\ batch' = batch \cup ErrorOf(o)
         /\ IF o = "none" \/ (K.boxes \in {"each", "parts"} /\ ~Loss(batch'))
            THEN UNCHANGED <<pc, kinds, todo>>
            ELSE LeaveVisit
  BY DEF ClaimBoxes
<1>3. LeaveVisit \/ Stays
  BY <1>2, Errors DEF Stays, ClaimBoxes, AtWork
<1> QED
  BY <1>1, <1>2, <1>3, VisitClaims DEF ClaimBoxes

LEMMA BoxesDoneClaims ==
    ASSUME AtWork, BoxesDone
    PROVE  Claiming
BY VisitClaims DEF BoxesDone, Visiting

LEMMA ClaimOverflowClaims ==
    ASSUME AtWork, ClaimOverflow
    PROVE  Claiming
<1>1. Visiting
  BY DEF ClaimOverflow, Visiting
<1>2. CASE \E o \in Outcomes :
              /\ Send("claim", o)
              /\ batch' = batch \cup ErrorOf(o)
              /\ IF o = "none" THEN pc' = "read" /\ UNCHANGED <<kinds, todo>> ELSE LeaveVisit
  <2>1. PICK o \in Outcomes :
           /\ Send("claim", o)
           /\ batch' = batch \cup ErrorOf(o)
           /\ IF o = "none" THEN pc' = "read" /\ UNCHANGED <<kinds, todo>> ELSE LeaveVisit
    BY <1>2
  <2>2. LeaveVisit \/ Stays
    BY <2>1, Errors DEF Stays, AtWork
  <2> QED
    BY <1>1, <2>1, <2>2, VisitClaims DEF ClaimOverflow
<1>3. CASE /\ faults' = faults \cup {<<"claim", "ignored">>}
           /\ pc' = "read"
           /\ UNCHANGED <<link, late, batch, server, kinds, todo, part, info, answered>>
  <2>1. VisitInv'
    BY <1>1, <1>3 DEF AtWork, VisitInv, Visiting, OfKind
  <2>2. UNCHANGED replies
    BY DEF ClaimOverflow
  <2>3. RepliesInv' /\ (DuelLost <=> DuelLost')
    BY <2>2 DEF AtWork, RepliesInv, DuelLost
  <2>4. <<"claim", "ignored">> \notin {"sweep"} \X Fatal
    OBVIOUS
  <2>5. SweepLost' => SweepLost
    BY <1>3, <2>4 DEF SweepLost
  <2> QED
    BY <1>3, <2>1, <2>3, <2>5 DEF Claiming, AtWork
<1> QED
  BY <1>2, <1>3 DEF ClaimOverflow

LEMMA OverflowDoneClaims ==
    ASSUME AtWork, OverflowDone
    PROVE  Claiming
BY VisitClaims DEF OverflowDone, Visiting

LEMMA ClaimsClaims ==
    ASSUME AtWork, Claims
    PROVE  Claiming
BY TakeKindClaims, ReadClaims, ClaimTasksClaims, TasksDoneClaims, RereadClaims, ClaimBoxesClaims,
   BoxesDoneClaims, ClaimOverflowClaims, OverflowDoneClaims DEF Claims

-----------------------------------------------------------------------------
(* The run.                                                                 *)

LEMMA InitIInv == Init => IInv
<1> SUFFICES ASSUME Init
             PROVE  IInv
  OBVIOUS
<1>1. ShapeInv
  <2>1. PICK s \in Scenarios : listed = s.listed
    BY DEF Init
  <2> QED
    BY <2>1, RunAssumption DEF Init, NoVisit, ShapeInv
<1>2. RepliesInv
  BY DEF Init, RepliesInv
<1>3. VisitInv
  BY DEF Init, NoVisit, VisitInv, Visiting
<1>4. HeedInv
  BY DEF Init, HeedInv, SweepLost, FeaturesHeedLoss, Loss
<1> QED
  BY <1>1, <1>2, <1>3, <1>4 DEF IInv

\* Before a feature begins, nothing but the duel's reply records a loss.
LEMMA Between ==
    ASSUME IInv, stage \in {"log", "next"}
    PROVE  AtWork /\ pc = "idle" /\ batch = {}
BY DEF IInv, ShapeInv, HeedInv, AtWork, FeaturesHeedLoss, Loss

LEMMA TodayHeeds ==
    ASSUME AtWork, NEW o, NEW days, TodayDuel(o, days)
    PROVE  /\ ~late' /\ RepliesInv' /\ (SweepLost' => DuelLost')
           /\ ScoresToday(o, days) \subseteq
                 UNION {d.scores : d \in {x \in DuelDays : x.begin <= now /\ now < x.end}}
<1>1. CASE DuelOpen
  <2>1. Info(replies, DuelEntry, o, days)
    BY <1>1 DEF TodayDuel
  <2>2. \A b \in DOMAIN replies : replies[b].days \subseteq DuelDays
    BY DEF AtWork, RepliesInv
  <2>3. DuelLost => DuelEntry \in DOMAIN replies
    BY DEF DuelLost
  <2> DEFINE answer == Answer(replies, DuelEntry, o, days)
  <2>4. /\ ~late' /\ RepliesInv' /\ (SweepLost' => DuelLost')
        /\ answer.days \subseteq DuelDays \/ answer.res \in Fatal
    <3>1. /\ ~late' /\ RepliesInv'
          /\ DuelLost => DuelLost'
          /\ SweepLost' /\ DuelEntry = DuelEntry => DuelLost'
          /\ answer.days \subseteq DuelDays \/ answer.res \in Fatal
      BY <2>1, <2>2, <2>3, InfoHeeds DEF AtWork
    <3> QED
      BY <3>1
  <2>5. CASE answer.res # "none"
    <3>1. ScoresToday(o, days) = {}
      BY <2>5 DEF ScoresToday
    <3> QED
      BY <2>4, <3>1
  <2>6. CASE answer.res = "none"
    <3>1. answer.days \subseteq DuelDays
      BY <2>4, <2>6 DEF Fatal
    <3>2. ScoresToday(o, days) = UNION {d.scores : d \in Today(answer.days)}
      BY <1>1, <2>6 DEF ScoresToday
    <3> HIDE DEF answer
    <3>3. Today(answer.days) \subseteq {x \in DuelDays : x.begin <= now /\ now < x.end}
      BY <3>1 DEF Today
    <3> QED
      BY <2>4, <3>2, <3>3
  <2> QED
    BY <2>5, <2>6
<1>2. CASE ~DuelOpen
  <2>1. NoSend /\ UNCHANGED replies
    BY <1>2 DEF TodayDuel
  <2>2. ~late' /\ RepliesInv' /\ (SweepLost' => DuelLost')
    BY <2>1, ClaimingStep
  <2>3. ScoresToday(o, days) = {}
    BY <1>2 DEF ScoresToday
  <2> QED
    BY <2>2, <2>3
<1> QED
  BY <1>1, <1>2

\* A step between two features.
LEMMA BetweenStep ==
    ASSUME AtWork, ~late', RepliesInv', SweepLost' => DuelLost', ~Loss(errs'), batch' = batch,
           UNCHANGED listed, stage' \in {"next", "run", "done"}, stage' # "run" => pc' = "idle" /\ batch' = {},
           todo' = <<>> \/ UNCHANGED <<kinds, todo>>, ~Visiting'
    PROVE  IInv'
<1>1. ShapeInv'
  BY DEF AtWork, ShapeInv
<1>2. VisitInv'
  <2>1. todo' \in Seq(OfKind(Head(kinds')))
    <3>1. CASE todo' = <<>>
      BY <3>1
    <3>2. CASE UNCHANGED <<kinds, todo>>
      BY <3>2 DEF AtWork, VisitInv
    <3> QED
      BY <3>1, <3>2
  <2> QED
    BY <2>1 DEF VisitInv, OfKind
<1>3. HeedInv'
  BY DEF AtWork, HeedInv, FeaturesHeedLoss
<1> QED
  BY <1>1, <1>2, <1>3 DEF IInv

LEMMA BeginKeeps ==
    ASSUME NEW f, Begin(f)
    PROVE  /\ stage' = "run" /\ ~Visiting' /\ UNCHANGED errs
           /\ todo' = <<>> \/ UNCHANGED <<kinds, todo>>
BY DEF Begin, BeginClaims, Visiting, visitVars

LEMMA LogDuelStatusKeeps ==
    ASSUME IInv, LogDuelStatus
    PROVE  IInv'
<1>1. AtWork /\ pc = "idle" /\ batch = {}
  BY Between DEF LogDuelStatus
<1>2. ~late' /\ RepliesInv' /\ (SweepLost' => DuelLost')
  <2>1. CASE command.only # "all" \/ order # <<>>
    <3>1. PICK o \in Turns, days \in SUBSET DuelDays : TodayDuel(o, days)
      BY <2>1 DEF LogDuelStatus
    <3> QED
      BY <1>1, <3>1, TodayHeeds
  <2>2. CASE ~(command.only # "all" \/ order # <<>>)
    <3>1. NoSend /\ UNCHANGED replies
      BY <2>2 DEF LogDuelStatus
    <3> QED
      BY <1>1, <3>1, ClaimingStep
  <2> QED
    BY <2>1, <2>2
<1>3. /\ stage' = "next"
      /\ UNCHANGED <<listed, errs, batch, pc, kinds, todo>>
  BY DEF LogDuelStatus, UnchangedClaims, visitVars
<1>4. ~Loss(errs') /\ ~Visiting'
  BY <1>1, <1>3 DEF AtWork, Visiting
<1> QED
  BY <1>1, <1>2, <1>3, <1>4, BetweenStep

LEMMA CoreLostKeeps ==
    ASSUME IInv, CoreLost
    PROVE  IInv'
<1>1. AtWork /\ pc = "idle" /\ batch = {}
  BY Between DEF CoreLost
<1>2. /\ stage' = "done"
      /\ \E o \in Fatal : errs' = errs \cup {o}
      /\ UNCHANGED <<listed, replies, batch, faults, late, pc, kinds, todo>>
  BY DEF CoreLost, UnchangedClaims, visitVars
<1>3. ShapeInv' /\ RepliesInv' /\ VisitInv'
  BY <1>1, <1>2 DEF AtWork, ShapeInv, RepliesInv, VisitInv, Visiting, OfKind
<1>4. HeedInv'
  BY <1>1, <1>2 DEF AtWork, HeedInv, FeaturesHeedLoss, Loss, SweepLost
<1> QED
  BY <1>3, <1>4 DEF IInv

LEMMA StartHeldKeeps ==
    ASSUME IInv, StartHeld
    PROVE  IInv'
<1>1. AtWork /\ pc = "idle" /\ batch = {}
  BY Between DEF StartHeld
<1>2. PICK o \in Turns, days \in SUBSET DuelDays :
         /\ TodayDuel(o, days)
         /\ \/ Refuse /\ UnchangedClaims
            \/ Skip /\ UnchangedClaims
            \/ Begin(order[pos])
  BY DEF StartHeld
<1>3. ~late' /\ RepliesInv' /\ (SweepLost' => DuelLost')
  BY <1>1, <1>2, TodayHeeds
<1>4. UNCHANGED <<listed, batch>>
  BY DEF StartHeld
<1>5. CASE Refuse /\ UnchangedClaims
  <2>1. /\ stage' = "done" /\ UNCHANGED <<pc, kinds, todo>>
        /\ ~Loss(errs') /\ ~Visiting'
    BY <1>1, <1>5 DEF Refuse, UnchangedClaims, visitVars, AtWork, Loss, Fatal, Visiting
  <2> QED
    BY <1>1, <1>3, <1>4, <2>1, BetweenStep
<1>6. CASE Skip /\ UnchangedClaims
  <2>1. /\ stage' = "next" /\ UNCHANGED <<pc, kinds, todo>>
        /\ ~Loss(errs') /\ ~Visiting'
    BY <1>1, <1>6 DEF Skip, UnchangedClaims, visitVars, AtWork, Visiting, StartHeld
  <2> QED
    BY <1>1, <1>3, <1>4, <2>1, BetweenStep
<1>7. CASE Begin(order[pos])
  <2>1. /\ stage' = "run" /\ ~Visiting' /\ UNCHANGED errs
        /\ todo' = <<>> \/ UNCHANGED <<kinds, todo>>
    BY <1>7, BeginKeeps
  <2>2. ~Loss(errs')
    BY <1>1, <2>1 DEF AtWork
  <2> QED
    BY <1>1, <1>3, <1>4, <2>1, <2>2, BetweenStep
<1> QED
  BY <1>2, <1>5, <1>6, <1>7

\* The sweep forgets the replies, but not the losses.
LEMMA KeptHeeds ==
    ASSUME RepliesInv, replies' \in {KeptReplies, replies}, faults' = faults
    PROVE  RepliesInv' /\ (DuelLost => DuelLost') /\ (SweepLost' <=> SweepLost)
<1>1. /\ DOMAIN replies' \subseteq DOMAIN replies
      /\ \A b \in DOMAIN replies' : replies'[b] = replies[b]
      /\ \A b \in DOMAIN replies : replies[b].res \in Fatal => b \in DOMAIN replies'
  BY DEF KeptReplies, Restrict, Lost
<1> QED
  BY <1>1 DEF RepliesInv, DuelLost, SweepLost

LEMMA StartKeeps ==
    ASSUME IInv, Start
    PROVE  IInv'
<1>1. AtWork /\ pc = "idle" /\ batch = {}
  BY Between DEF Start
<1>2. /\ Begin(order[pos]) /\ replies' \in {KeptReplies, replies}
      /\ NoSend /\ UNCHANGED <<listed, batch>>
  BY DEF Start
<1>3. ~late' /\ RepliesInv' /\ (SweepLost' => DuelLost')
  BY <1>1, <1>2, KeptHeeds DEF AtWork, NoSend
<1>4. /\ stage' = "run" /\ ~Visiting' /\ UNCHANGED errs
      /\ todo' = <<>> \/ UNCHANGED <<kinds, todo>>
  BY <1>2, BeginKeeps
<1>5. ~Loss(errs')
  BY <1>1, <1>4 DEF AtWork
<1> QED
  BY <1>1, <1>2, <1>3, <1>4, <1>5, BetweenStep

\* A feature that has not ended has told of no loss.
LEMMA Working ==
    ASSUME IInv, stage = "run", pc # "end"
    PROVE  AtWork
BY DEF IInv, ShapeInv, HeedInv, AtWork, FeaturesHeedLoss

LEMMA RequestKeeps ==
    ASSUME IInv, Request
    PROVE  IInv'
<1>1. AtWork
  BY Working DEF Request
<1>2. PICK o \in Outcomes : Send("claim", o)
  BY DEF Request
<1>3. /\ pc = "request" /\ pc' = "end" /\ UNCHANGED <<listed, replies, errs, kinds, todo, stage>>
      /\ stage = "run"
  BY DEF Request, visitVars, runVars
<1>4. RepliesInv' /\ ~late' /\ (SweepLost' => DuelLost')
  BY <1>1, <1>2, <1>3, ClaimingStep
<1>5. ShapeInv'
  BY <1>1, <1>3 DEF ShapeInv, AtWork
<1>6. VisitInv'
  BY <1>1, <1>3 DEF AtWork, VisitInv, Visiting, OfKind
<1>7. HeedInv'
  BY <1>1, <1>3, <1>4 DEF AtWork, HeedInv, FeaturesHeedLoss
<1> QED
  BY <1>4, <1>5, <1>6, <1>7 DEF IInv

LEMMA ClaimKeeps ==
    ASSUME IInv, Claim
    PROVE  IInv'
<1>1. stage = "run" /\ Claims /\ UNCHANGED stage
  BY DEF Claim, runVars
<1>2. pc # "end" /\ UNCHANGED <<listed, errs>>
  BY <1>1 DEF Claims, TakeKind, Read, ClaimTasks, TasksDone, Reread, ClaimBoxes, BoxesDone,
              ClaimOverflow, OverflowDone
<1>3. AtWork
  BY <1>1, <1>2, Working
<1>4. Claiming
  BY <1>1, <1>3, ClaimsClaims
<1>5. ShapeInv'
  BY <1>1, <1>2, <1>3 DEF ShapeInv, AtWork
<1>6. HeedInv'
  BY <1>1, <1>2, <1>3, <1>4 DEF AtWork, Claiming, HeedInv, FeaturesHeedLoss
<1> QED
  BY <1>4, <1>5, <1>6 DEF IInv, Claiming

LEMMA EndFeatureKeeps ==
    ASSUME IInv, EndFeature
    PROVE  IInv'
<1>1. /\ stage = "run" /\ pc = "end" /\ pc' = "idle"
      /\ errs' = errs \cup batch /\ batch' = {}
      /\ stage' = IF Loss(batch) \/ pos = Len(order) THEN "done" ELSE "next"
      /\ UNCHANGED <<listed, replies, faults, late, kinds, todo>>
  BY DEF EndFeature, Breaks, visitVars
<1>2. Loss(errs') <=> Loss(errs) \/ Loss(batch)
  BY <1>1 DEF Loss
<1>3. ShapeInv' /\ RepliesInv' /\ VisitInv'
  BY <1>1 DEF IInv, ShapeInv, RepliesInv, VisitInv, Visiting, OfKind
<1>4. ~Loss(batch')
  BY <1>1 DEF Loss
<1>5. (SweepLost' <=> SweepLost) /\ (DuelLost' <=> DuelLost)
  BY <1>1 DEF SweepLost, DuelLost
<1>6. HeedInv'
  BY <1>1, <1>2, <1>4, <1>5 DEF IInv, HeedInv, FeaturesHeedLoss
<1> QED
  BY <1>3, <1>6 DEF IInv

\* Time passes, no feature is left, or nothing happens.
LEMMA QuietKeeps ==
    ASSUME IInv, RunDone \/ Tick \/ UNCHANGED vars
    PROVE  IInv'
<1>1. /\ UNCHANGED <<listed, replies, errs, batch, faults, late, pc, kinds, todo>>
      /\ stage' = stage \/ (stage = "next" /\ stage' = "done")
  BY DEF RunDone, Tick, vars, sweepVars, visitVars, runVars
<1>2. ShapeInv' /\ RepliesInv' /\ VisitInv'
  BY <1>1 DEF IInv, ShapeInv, RepliesInv, VisitInv, Visiting, OfKind
<1>3. HeedInv'
  BY <1>1 DEF IInv, HeedInv, FeaturesHeedLoss, SweepLost, DuelLost
<1> QED
  BY <1>2, <1>3 DEF IInv

LEMMA NextIInv == IInv /\ [Next]_vars => IInv'
<1> SUFFICES ASSUME IInv, [Next]_vars
             PROVE  IInv'
  OBVIOUS
<1> QED
  BY LogDuelStatusKeeps, CoreLostKeeps, StartHeldKeeps, StartKeeps, RequestKeeps, ClaimKeeps,
     EndFeatureKeeps, QuietKeeps DEF Next, Over

THEOREM SpecIInv == Spec => []IInv
BY InitIInv, NextIInv, PTL DEF Spec

-----------------------------------------------------------------------------
\* Once a feature has told of a lost connection no request is sent, and none by
\* the sweep after a loss it was told of itself: RunFeatures breaks, evBatch is
\* dead, and the duel's failed read stays in the cache whatever is forgotten.
THEOREM LossIsHeeded == Spec => []FeaturesHeedLoss
<1>1. IInv => FeaturesHeedLoss
  BY DEF IInv, HeedInv
<1> QED
  BY <1>1, SpecIInv, PTL

\* A policy that the config misspells is none, so that the feature's own holds.
LEMMA HeldIs ==
    ASSUME NEW f,
           FeatureFacts[f].duel # {},
           \/ f \in DOMAIN config.policy /\ config.policy[f] = "hold"
           \/ FeatureFacts[f].hold /\ ~(f \in DOMAIN config.policy /\ config.policy[f] = "always")
    PROVE  Holds(f)
BY DEF Holds, CleanPolicy

LEMMA HeldStep ==
    ASSUME IInv, Next, stage = "next", stage' = "run", ~command.force,
           FeatureFacts[order[pos]].duel # {}, Holds(order[pos])
    PROVE  \E d \in DuelDays :
              d.begin <= now /\ now < d.end /\ d.scores \cap FeatureFacts[order[pos]].duel # {}
<1> DEFINE f == order[pos]
<1>1. StartHeld
  BY DEF Next, LogDuelStatus, CoreLost, Start, Request, Claim, EndFeature, RunDone, Tick, Over, vars, runVars
<1>2. AtWork
  BY Between
<1>3. PICK o \in Turns, days \in SUBSET DuelDays :
         /\ TodayDuel(o, days)
         /\ FeatureFacts[f].duel \cap ScoresToday(o, days) # {}
  BY <1>1 DEF StartHeld, Refuse, Skip
<1>4. ScoresToday(o, days) \subseteq
         UNION {d.scores : d \in {x \in DuelDays : x.begin <= now /\ now < x.end}}
  BY <1>2, <1>3, TodayHeeds
<1> QED
  BY <1>3, <1>4

\* A feature that the registry or the config holds begins only on a day whose
\* score it adds to, unless the command forces it: no config, no failed read and
\* no stale day makes it run on another (CleanDuelPolicy, TodayDuel).
THEOREM HeldUntilItsDay == Spec => HeldOffDuty
<1>1. IInv /\ [Next]_vars =>
         [stage = "next" /\ stage' = "run" /\ ~command.force =>
             LET f == order[pos]
                 given(p) == f \in DOMAIN config.policy /\ config.policy[f] = p
             IN FeatureFacts[f].duel # {} /\ (given("hold") \/ (FeatureFacts[f].hold /\ ~given("always")))
                => \E d \in DuelDays :
                      d.begin <= now /\ now < d.end /\ d.scores \cap FeatureFacts[f].duel # {}]_vars
  BY HeldIs, HeldStep
<1> QED
  BY <1>1, SpecIInv, PTL DEF Spec, HeldOffDuty

-----------------------------------------------------------------------------
(* What is due at the end of a run (NothingDueLeft).                        *)

\* -collect, and no request has failed.
NoFault == faults = {} /\ command.only = "all"

Typed ==
    /\ link \in {"up"} \cup Fatal
    /\ now \in Nat
    /\ IsInjective(listed)
    /\ DOMAIN server = ToSet(listed)
    /\ \A a \in ToSet(listed) : server[a] \in Events(a)
    /\ batch \subseteq {"panic"}
    /\ pos \in Nat /\ pos > 0
    /\ claims \in Nat /\ before \in Int /\ part \in 1 .. 3
    /\ answered \in BOOLEAN /\ ranEarlier \in BOOLEAN

\* The order of two features in a run.
Place(f) == CHOOSE i \in DOMAIN Registry : Registry[i] = f

Earlier(f, g) == Phase(f) < Phase(g) \/ (Phase(f) = Phase(g) /\ Place(f) < Place(g))

OrderInv ==
    /\ order \in Seq(FeatureNames)
    /\ \A i, j \in DOMAIN order : i < j => Earlier(order[i], order[j])

ClaimSteps == {"kind", "read", "tasks", "reread", "boxes", "drain", "end"}

RunInv ==
    /\ stage = "log" => pos = 1
    /\ stage = "run" =>
          /\ pos <= Len(order)
          /\ Phase(order[pos]) = phaseProgress <=> ~ranEarlier
          /\ IF Kinds(order[pos]) = {} THEN pc \in {"request", "end"} ELSE pc \in ClaimSteps
    /\ stage = "done" /\ errs = {} => pos > Len(order)

FromInv ==
    /\ claimsFrom = -1 \/ (claimsFrom \in Nat /\ claimsFrom <= now)
    /\ claimsFrom = -1 =>
          \A i \in DOMAIN order : i < pos \/ (i = pos /\ stage = "run") => ~Concluding(i)
    /\ claimsFrom # -1 => \A i \in DOMAIN order : i >= pos => Kinds(order[i]) # {}

\* Where the feature stands in its kinds and events.
PlaceInv ==
    /\ pc \in {"idle", "request", "end"} => kinds = <<>>
    /\ pc = "kind" => before = -1 /\ claims = 0
    /\ stage = "run" /\ pc \in ClaimSteps =>
          /\ kinds \in Seq(Kinds(order[pos])) /\ IsInjective(kinds)
          /\ Visiting => kinds # <<>> /\ todo \in Seq(ToSet(Visits(Head(kinds)))) /\ IsInjective(todo)

ToCome(k) == \E i \in DOMAIN order : k \in Kinds(order[i]) /\ (i > pos \/ (i = pos /\ stage # "run"))

\* The event is still to be read for a kind that keeps its replies.
Pending(k, a) ==
    /\ k \in DOMAIN KindFacts /\ KindFacts[k].read \in {"sweep", "once"}
    /\ \/ ToCome(k)
       \/ /\ stage = "run" /\ kinds # <<>>
          /\ \/ k \in ToSet(Tail(kinds))
             \/ k = Head(kinds) /\ pc = "kind"
             \/ k = Head(kinds) /\ Visiting /\ (a \in ToSet(Tail(todo)) \/ (a = A /\ pc = "read"))

Same(k, e, s) ==
    /\ e.task = s.task /\ e.score = s.score
    /\ OwnBoxes(k, e.got) = OwnBoxes(k, s.got)

Serves(k, a) ==
    IF KindFacts[k].read = "once" THEN Same(k, replies[a].event, server[a])
    ELSE a = DuelEntry /\ (~ranEarlier => replies[a].event = server[a])

CacheInv ==
    /\ DOMAIN replies \subseteq ToSet(listed)
    /\ \A a \in DOMAIN replies :
          /\ replies[a].res = "none"
          /\ replies[a].event \in Events(a)
          /\ a # DuelEntry => replies[a].days = {}
          /\ \A k \in Fact(a).kinds : Pending(k, a) => Serves(k, a)

Settled(k, a) == Offers(k, a) => ~Due(k, a)

Taken(k) ==
    \/ claimsFrom = now /\ \E i \in DOMAIN order : i < pos /\ Concluding(i) /\ k \in Kinds(order[i])
    \/ stage = "run" /\ pc \in ClaimSteps /\ k \in Kinds(order[pos]) \ ToSet(kinds)

Visited(k, a) == stage = "run" /\ Visiting /\ k = Head(kinds) /\ a \notin ToSet(todo)

SettledInv ==
    \A k \in DOMAIN KindFacts : \A a \in ToSet(Visits(k)) : Taken(k) \/ Visited(k, a) => Settled(k, a)

\* What the feature knows about the event, and has left of it.
Knows ==
    /\ info \in Events(A)
    /\ info.task = server[A].task
    /\ OwnBoxes(Head(kinds), info.got) = OwnBoxes(Head(kinds), server[A].got)
    /\ \/ info.score = server[A].score
       \/ K.after = "none" /\ K.boxes = "none"
       \/ K.after = "reread" /\ answered /\ pc # "boxes"

\* The parts of the crystal boss that have been taken are taken.
BossInv ==
    Visiting /\ Head(kinds) = "crystal_boss" =>
       \A p \in 1 .. part - 1 : Offers(Head(kinds), A) => p \notin BoxesDue(A, server[A])

\* Each claim of what is left over has taken one.
DrainInv ==
    pc = "drain" \/ (pc = "read" /\ K.boxes = "drain") =>
       claims <= server[A].drained /\ (before < 0 \/ LeftOver(A, server[A]) < before)

LearntInv ==
    /\ pc = "drain" => info = server[A] /\ K.boxes = "drain"
    /\ pc \in {"tasks", "reread", "boxes"} => K.boxes # "drain" /\ Knows
    /\ pc \in {"reread", "boxes"} => K.tasks = "none" \/ TasksDue(A, server[A]) = {}

KnownInv == stage = "run" => BossInv /\ DrainInv /\ LearntInv

Good == Typed /\ OrderInv /\ RunInv /\ FromInv /\ PlaceInv /\ CacheInv /\ SettledInv /\ KnownInv

DueInv == NoFault => Good

-----------------------------------------------------------------------------
(* What is folded from lists.                                               *)

\* A list of elements of the first i of a sequence, each once.
Picked(list, s, i) ==
    /\ list \in Seq(ToSet(s)) /\ IsInjective(list)
    /\ \A x \in DOMAIN list : \E j \in 1 .. i : list[x] = s[j]

LEMMA PickMore ==
    ASSUME NEW S, NEW s \in Seq(S), IsInjective(s), NEW i \in 1 .. Len(s), NEW list, Picked(list, s, i - 1)
    PROVE  Picked(list, s, i) /\ Picked(Append(list, s[i]), s, i)
<1>1. list \in Seq(ToSet(s)) /\ s[i] \in ToSet(s) /\ DOMAIN s = 1 .. Len(s)
  BY DEF Picked, ToSet
<1>2. \A x \in DOMAIN list : \E j \in 1 .. i - 1 : list[x] = s[j]
  BY DEF Picked
<1>3. \A x \in DOMAIN list : list[x] # s[i]
  BY <1>1, <1>2 DEF IsInjective
<1>4. /\ DOMAIN Append(list, s[i]) = DOMAIN list \cup {Len(list) + 1}
      /\ \A x \in DOMAIN list : Append(list, s[i])[x] = list[x]
      /\ Append(list, s[i])[Len(list) + 1] = s[i]
      /\ Append(list, s[i]) \in Seq(ToSet(s))
  BY <1>1
<1>5. \A x \in DOMAIN list : \E j \in 1 .. i : list[x] = s[j]
  BY <1>2
<1>6. Picked(list, s, i)
  BY <1>5 DEF Picked
<1>7. IsInjective(Append(list, s[i]))
  BY <1>3, <1>4 DEF IsInjective, Picked
<1>8. \A x \in DOMAIN Append(list, s[i]) : \E j \in 1 .. i : Append(list, s[i])[x] = s[j]
  BY <1>4, <1>5
<1> QED
  BY <1>4, <1>6, <1>7, <1>8 DEF Picked

\* Picked is from the whole.
LEMMA PickedIs ==
    ASSUME NEW list, NEW s, NEW i, Picked(list, s, i)
    PROVE  list \in Seq(ToSet(s)) /\ IsInjective(list) /\ ToSet(list) \subseteq ToSet(s)
BY DEF Picked, ToSet

PickedParsed(base, s, list, i) ==
    base = <<>> /\ s = listed /\ IsInjective(s) => Picked(list, s, i)

PickParsed == INSTANCE FoldInduction WITH Op <- AddParsed, P <- PickedParsed

LEMMA ParsedPicked ==
    ASSUME listed \in Seq(Activities), IsInjective(listed)
    PROVE  Picked(Parsed, listed, Len(listed))
<1> DEFINE none == <<>>
<1>1. PickedParsed(none, listed, none, 0)
  BY DEF PickedParsed, Picked, IsInjective
<1>2. ASSUME NEW list, NEW i, i \in 1 .. Len(listed), PickedParsed(none, listed, list, i - 1)
      PROVE  PickedParsed(none, listed, AddParsed(list, listed[i]), i)
  <2>1. Picked(list, listed, i - 1)
    BY <1>2 DEF PickedParsed
  <2>2. Picked(list, listed, i) /\ Picked(Append(list, listed[i]), listed, i)
    BY <1>2, <2>1, PickMore
  <2> QED
    BY <2>2 DEF PickedParsed, AddParsed
<1> HIDE DEF none
<1>3. PickedParsed(none, listed, PickParsed!FoldLeft(AddParsed, none, listed), Len(listed))
  BY <1>1, <1>2, PickParsed!FoldInduct
<1>4. PickParsed!FoldLeft(AddParsed, none, listed) = FoldLeft(AddParsed, none, listed)
  BY DEF PickParsed!FoldLeft, FoldLeft, PickParsed!MapThenFoldSet, MapThenFoldSet, PickParsed!Max, Max
<1> USE DEF none
<1> QED
  BY <1>3, <1>4 DEF PickedParsed, Parsed

PickedOpen(base, s, acc, i) ==
    \A k : base = [kind |-> k, list |-> <<>>] /\ s = Parsed /\ IsInjective(s)
              => \E list : acc = [kind |-> k, list |-> list] /\ Picked(list, s, i)

PickOpen == INSTANCE FoldInduction WITH Op <- AddOpen, P <- PickedOpen

LEMMA OpenPicked ==
    ASSUME NEW k, listed \in Seq(Activities), IsInjective(listed)
    PROVE  IsInjective(Open(k)) /\ ToSet(Open(k)) \subseteq ToSet(listed)
<1> DEFINE base == [kind |-> k, list |-> <<>>]
<1>0. \A j : base = [kind |-> j, list |-> <<>>] => j = k
  OBVIOUS
<1>1. Parsed \in Seq(Activities) /\ IsInjective(Parsed) /\ ToSet(Parsed) \subseteq ToSet(listed)
  BY ParsedIs, ParsedPicked, PickedIs
<1>2. PickedOpen(base, Parsed, base, 0)
  <2>1. Picked(<<>>, Parsed, 0)
    BY DEF Picked, IsInjective
  <2> QED
    BY <1>0, <2>1 DEF PickedOpen
<1>3. ASSUME NEW acc, NEW i, i \in 1 .. Len(Parsed), PickedOpen(base, Parsed, acc, i - 1)
      PROVE  PickedOpen(base, Parsed, AddOpen(acc, Parsed[i]), i)
  <2>1. PICK list : acc = [kind |-> k, list |-> list] /\ Picked(list, Parsed, i - 1)
    BY <1>1, <1>3 DEF PickedOpen
  <2>2. Picked(list, Parsed, i) /\ Picked(Append(list, Parsed[i]), Parsed, i)
    BY <1>1, <1>3, <2>1, PickMore
  <2>3. AddOpen(acc, Parsed[i]) \in {acc, [kind |-> k, list |-> Append(list, Parsed[i])]}
    BY <2>1 DEF AddOpen
  <2>4. \E l : AddOpen(acc, Parsed[i]) = [kind |-> k, list |-> l] /\ Picked(l, Parsed, i)
    BY <2>1, <2>2, <2>3
  <2> QED
    BY <1>0, <2>4 DEF PickedOpen
<1> HIDE DEF base
<1>4. PickedOpen(base, Parsed, PickOpen!FoldLeft(AddOpen, base, Parsed), Len(Parsed))
  BY <1>1, <1>2, <1>3, PickOpen!FoldInduct
<1>5. PickOpen!FoldLeft(AddOpen, base, Parsed) = FoldLeft(AddOpen, base, Parsed)
  BY DEF PickOpen!FoldLeft, FoldLeft, PickOpen!MapThenFoldSet, MapThenFoldSet, PickOpen!Max, Max
<1> USE DEF base
<1>6. PICK list : FoldLeft(AddOpen, base, Parsed) = [kind |-> k, list |-> list] /\ Picked(list, Parsed, Len(Parsed))
  BY <1>1, <1>4, <1>5 DEF PickedOpen
<1>7. Open(k) = list
  BY <1>6 DEF Open
<1> QED
  BY <1>1, <1>6, <1>7, PickedIs

\* The events visited for a kind are listed, have that kind, and come once each.
LEMMA VisitsAre ==
    ASSUME NEW k, listed \in Seq(Activities), IsInjective(listed)
    PROVE  /\ Visits(k) \in Seq(ToSet(Visits(k))) /\ IsInjective(Visits(k))
           /\ ToSet(Visits(k)) \subseteq ToSet(listed) \cap OfKind(k)
<1>1. Open(k) \in Seq(OfKind(k)) /\ IsInjective(Open(k)) /\ ToSet(Open(k)) \subseteq ToSet(listed)
  BY OpenIs, OpenPicked
<1>2. CASE Visits(k) = Open(k)
  BY <1>1, <1>2 DEF ToSet
<1>3. CASE Open(k) # <<>> /\ Visits(k) = <<Head(Open(k))>>
  <2>1. Head(Open(k)) \in OfKind(k) \cap ToSet(Open(k))
    BY <1>1, <1>3 DEF ToSet
  <2>2. ToSet(Visits(k)) = {Head(Open(k))} /\ IsInjective(Visits(k)) /\ Visits(k) \in Seq(ToSet(Visits(k)))
    BY <1>3 DEF ToSet, IsInjective
  <2> QED
    BY <1>1, <2>1, <2>2
<1> QED
  BY <1>2, <1>3 DEF Visits

\* Which events are visited is a matter of the time and of what is listed.
LEMMA VisitsStay ==
    ASSUME NEW k, UNCHANGED <<now, listed>>
    PROVE  Visits(k)' = Visits(k)
<1>1. Open(k)' = Open(k)
  BY DEF Open, AddOpen, Parsed, AddParsed, IsOpen, InWindow, Superseded, FoldLeft, MapThenFoldSet, Max, Fact
<1> QED
  BY <1>1 DEF Visits

\* The server holds what the scenario allows of each entry.
FirstOf(base, s, servers, i) ==
    base = {<<>>} => \A t \in servers :
       /\ DOMAIN t = {s[j] : j \in 1 .. i}
       /\ \A j \in 1 .. i : t[s[j]] \in FirstEvents[s[j]]

FirstFold == INSTANCE FoldInduction WITH Op <- AddFirst, P <- FirstOf

LEMMA FirstServersAre ==
    ASSUME listed \in Seq(Activities), server \in FirstServers
    PROVE  DOMAIN server = ToSet(listed) /\ \A a \in ToSet(listed) : server[a] \in Events(a)
<1> DEFINE base == {<<>>}
<1>1. FirstOf(base, listed, base, 0)
  BY DEF FirstOf
<1>2. ASSUME NEW servers, NEW i, i \in 1 .. Len(listed), FirstOf(base, listed, servers, i - 1)
      PROVE  FirstOf(base, listed, AddFirst(servers, listed[i]), i)
  <2>1. ASSUME NEW t \in AddFirst(servers, listed[i])
        PROVE  /\ DOMAIN t = {listed[j] : j \in 1 .. i}
               /\ \A j \in 1 .. i : t[listed[j]] \in FirstEvents[listed[j]]
    <3>1. PICK s \in servers, e \in FirstEvents[listed[i]] : t = With(s, listed[i], e)
      BY DEF AddFirst
    <3>2. /\ DOMAIN s = {listed[j] : j \in 1 .. i - 1}
          /\ \A j \in 1 .. i - 1 : s[listed[j]] \in FirstEvents[listed[j]]
      BY <1>2 DEF FirstOf
    <3>3. /\ DOMAIN t = DOMAIN s \cup {listed[i]}
          /\ t[listed[i]] = e
          /\ \A b \in DOMAIN s : b # listed[i] => t[b] = s[b]
      BY <3>1 DEF With
    <3>4. 1 .. i = (1 .. i - 1) \cup {i}
      BY <1>2
    <3>5. \A j \in 1 .. i - 1 : t[listed[j]] \in FirstEvents[listed[j]]
      BY <3>2, <3>3
    <3> QED
      BY <3>2, <3>3, <3>4, <3>5
  <2> QED
    BY <2>1 DEF FirstOf
<1> HIDE DEF base
<1>3. FirstOf(base, listed, FirstFold!FoldLeft(AddFirst, base, listed), Len(listed))
  BY <1>1, <1>2, FirstFold!FoldInduct
<1>4. FirstFold!FoldLeft(AddFirst, base, listed) = FoldLeft(AddFirst, base, listed)
  BY DEF FirstFold!FoldLeft, FoldLeft, FirstFold!MapThenFoldSet, MapThenFoldSet, FirstFold!Max, Max
<1> USE DEF base
<1>5. /\ DOMAIN server = {listed[j] : j \in 1 .. Len(listed)}
      /\ \A j \in 1 .. Len(listed) : server[listed[j]] \in FirstEvents[listed[j]]
  BY <1>3, <1>4 DEF FirstOf, FirstServers
<1>6. DOMAIN listed = 1 .. Len(listed) /\ \A j \in DOMAIN listed : listed[j] \in Activities
  OBVIOUS
<1> QED
  BY <1>5, <1>6, RunAssumption DEF ToSet

-----------------------------------------------------------------------------
(* The order of a run.                                                      *)

LEMMA PlaceIs ==
    ASSUME NEW i \in DOMAIN Registry
    PROVE  Place(Registry[i]) = i
BY RegistryAssumption DEF Place, IsInjective

LEMMA EarlierOnce ==
    ASSUME NEW f \in FeatureNames, NEW g \in FeatureNames
    PROVE  /\ Phase(f) \in 1 .. 3 /\ Place(f) \in DOMAIN Registry /\ Place(f) \in Nat /\ f = Registry[Place(f)]
           /\ Earlier(f, g) => f # g /\ ~Earlier(g, f)
<1>1. /\ Phase(f) \in 1 .. 3 /\ Phase(g) \in 1 .. 3
      /\ Place(f) \in Nat /\ Place(g) \in Nat
      /\ f = Registry[Place(f)] /\ Place(f) \in DOMAIN Registry
  BY RegistryAssumption, PlaceIs DEF FeatureNames, ToSet
<1>2. Earlier(f, g) => f # g /\ ~Earlier(g, f)
  BY <1>1 DEF Earlier
<1> QED
  BY <1>1, <1>2

\* The features of phase p among the first i, each after those before it.
InPlace(l, p, i) ==
    /\ l \in Seq(FeatureNames)
    /\ \A x \in DOMAIN l : Phase(l[x]) = p /\ Place(l[x]) <= i
    /\ \A x, y \in DOMAIN l : x < y => Place(l[x]) < Place(l[y])

OfPhaseOf(base, s, acc, i) ==
    \A p : base = [phase |-> p, list |-> <<>>] /\ s = Registry
              => \E l : acc = [phase |-> p, list |-> l] /\ InPlace(l, p, i)

OfPhaseFold == INSTANCE FoldInduction WITH Op <- AddOfPhase, P <- OfPhaseOf

LEMMA InPlaceMore ==
    ASSUME NEW p, NEW i \in 1 .. Len(Registry), NEW l, InPlace(l, p, i - 1)
    PROVE  /\ InPlace(l, p, i)
           /\ Phase(Registry[i]) = p => InPlace(Append(l, Registry[i]), p, i)
<1>1. l \in Seq(FeatureNames) /\ i \in DOMAIN Registry /\ Registry[i] \in FeatureNames
  BY RegistryAssumption DEF InPlace, FeatureNames, ToSet
<1>2. Place(Registry[i]) = i
  BY <1>1, PlaceIs
<1>3. \A x \in DOMAIN l : l[x] \in FeatureNames /\ Place(l[x]) \in Nat /\ Place(l[x]) <= i - 1
  BY <1>1, EarlierOnce DEF InPlace
<1>4. InPlace(l, p, i)
  BY <1>3 DEF InPlace
<1>5. ASSUME Phase(Registry[i]) = p
      PROVE  InPlace(Append(l, Registry[i]), p, i)
  <2> DEFINE m == Append(l, Registry[i])
  <2>1. /\ DOMAIN m = DOMAIN l \cup {Len(l) + 1} /\ DOMAIN l = 1 .. Len(l) /\ Len(l) \in Nat
        /\ \A x \in DOMAIN l : m[x] = l[x]
        /\ m[Len(l) + 1] = Registry[i]
        /\ m \in Seq(FeatureNames)
    BY <1>1
  <2> HIDE DEF m
  <2>2. \A x \in DOMAIN m : Phase(m[x]) = p /\ Place(m[x]) <= i
    BY <1>2, <1>4, <1>5, <2>1 DEF InPlace
  <2>3. ASSUME NEW x \in DOMAIN m, NEW y \in DOMAIN m, x < y
        PROVE  Place(m[x]) < Place(m[y])
    <3>1. x \in DOMAIN l
      BY <2>1, <2>3
    <3>2. CASE y \in DOMAIN l
      BY <2>1, <2>3, <3>1, <3>2 DEF InPlace
    <3>3. CASE y = Len(l) + 1
      BY <1>2, <1>3, <2>1, <3>1, <3>3
    <3> QED
      BY <2>1, <3>2, <3>3
  <2> QED
    BY <2>1, <2>2, <2>3 DEF InPlace, m
<1> QED
  BY <1>4, <1>5

LEMMA OfPhaseIs ==
    ASSUME NEW p
    PROVE  InPlace(OfPhase(p), p, Len(Registry))
<1> DEFINE base == [phase |-> p, list |-> <<>>]
<1>0. \A q : base = [phase |-> q, list |-> <<>>] => q = p
  OBVIOUS
<1>1. OfPhaseOf(base, Registry, base, 0)
  <2>1. InPlace(<<>>, p, 0)
    BY DEF InPlace
  <2> QED
    BY <1>0, <2>1 DEF OfPhaseOf
<1>2. ASSUME NEW acc, NEW i, i \in 1 .. Len(Registry), OfPhaseOf(base, Registry, acc, i - 1)
      PROVE  OfPhaseOf(base, Registry, AddOfPhase(acc, Registry[i]), i)
  <2>1. PICK l : acc = [phase |-> p, list |-> l] /\ InPlace(l, p, i - 1)
    BY <1>2 DEF OfPhaseOf
  <2>2. \/ AddOfPhase(acc, Registry[i]) = acc
        \/ /\ AddOfPhase(acc, Registry[i]) = [phase |-> p, list |-> Append(l, Registry[i])]
           /\ Phase(Registry[i]) = p
    BY <2>1 DEF AddOfPhase
  <2>3. \E m : AddOfPhase(acc, Registry[i]) = [phase |-> p, list |-> m] /\ InPlace(m, p, i)
    BY <1>2, <2>1, <2>2, InPlaceMore
  <2> QED
    BY <1>0, <2>3 DEF OfPhaseOf
<1> HIDE DEF base
<1>3. Registry \in Seq(DOMAIN FeatureFacts)
  BY RegistryAssumption
<1>4. OfPhaseOf(base, Registry, OfPhaseFold!FoldLeft(AddOfPhase, base, Registry), Len(Registry))
  BY <1>1, <1>2, <1>3, OfPhaseFold!FoldInduct
<1>5. OfPhaseFold!FoldLeft(AddOfPhase, base, Registry) = FoldLeft(AddOfPhase, base, Registry)
  BY DEF OfPhaseFold!FoldLeft, FoldLeft, OfPhaseFold!MapThenFoldSet, MapThenFoldSet, OfPhaseFold!Max, Max
<1> USE DEF base
<1>6. PICK l : FoldLeft(AddOfPhase, base, Registry) = [phase |-> p, list |-> l] /\ InPlace(l, p, Len(Registry))
  BY <1>4, <1>5 DEF OfPhaseOf
<1> QED
  BY <1>6 DEF OfPhase

\* An element of two lists is of the one or of the other.
LEMMA ConcatIs ==
    ASSUME NEW S, NEW l \in Seq(S), NEW m \in Seq(S), NEW x \in DOMAIN (l \o m)
    PROVE  \/ x \in DOMAIN l /\ (l \o m)[x] = l[x]
           \/ x > Len(l) /\ x - Len(l) \in DOMAIN m /\ (l \o m)[x] = m[x - Len(l)]
<1>1. /\ Len(l) \in Nat /\ Len(m) \in Nat
      /\ DOMAIN l = 1 .. Len(l) /\ DOMAIN m = 1 .. Len(m)
      /\ DOMAIN (l \o m) = 1 .. (Len(l) + Len(m))
      /\ \A y \in DOMAIN l : (l \o m)[y] = l[y]
      /\ \A y \in DOMAIN m : (l \o m)[Len(l) + y] = m[y]
  OBVIOUS
<1>2. CASE x <= Len(l)
  BY <1>1, <1>2
<1>3. CASE x > Len(l)
  <2>1. x - Len(l) \in DOMAIN m /\ Len(l) + (x - Len(l)) = x
    BY <1>1, <1>3
  <2> QED
    BY <1>1, <1>3, <2>1
<1> QED
  BY <1>1, <1>2, <1>3

\* Features that follow those of earlier phases.
LEMMA EarlierConcat ==
    ASSUME NEW l \in Seq(FeatureNames), NEW m \in Seq(FeatureNames),
           \A x, y \in DOMAIN l : x < y => Earlier(l[x], l[y]),
           \A x, y \in DOMAIN m : x < y => Earlier(m[x], m[y]),
           \A x \in DOMAIN l, y \in DOMAIN m : Earlier(l[x], m[y])
    PROVE  /\ l \o m \in Seq(FeatureNames)
           /\ \A x, y \in DOMAIN (l \o m) : x < y => Earlier((l \o m)[x], (l \o m)[y])
<1> DEFINE n == l \o m
<1>1. /\ n \in Seq(FeatureNames) /\ Len(l) \in Nat /\ Len(m) \in Nat
      /\ DOMAIN l = 1 .. Len(l) /\ DOMAIN m = 1 .. Len(m)
      /\ DOMAIN n = 1 .. (Len(l) + Len(m))
  OBVIOUS
<1> HIDE DEF n
<1>2. ASSUME NEW x \in DOMAIN n
      PROVE  \/ x \in DOMAIN l /\ n[x] = l[x]
             \/ x > Len(l) /\ x - Len(l) \in DOMAIN m /\ n[x] = m[x - Len(l)]
  BY <1>2, ConcatIs DEF n
<1>3. ASSUME NEW x \in DOMAIN n, NEW y \in DOMAIN n, x < y
      PROVE  Earlier(n[x], n[y])
  <2>1. CASE x \in DOMAIN l /\ n[x] = l[x]
    BY <1>1, <1>2, <1>3, <2>1
  <2>2. CASE x > Len(l) /\ x - Len(l) \in DOMAIN m /\ n[x] = m[x - Len(l)]
    <3>1. y > Len(l) /\ y - Len(l) \in DOMAIN m /\ n[y] = m[y - Len(l)] /\ x - Len(l) < y - Len(l)
      BY <1>1, <1>2, <1>3, <2>2
    <3> QED
      BY <2>2, <3>1
  <2> QED
    BY <1>2, <2>1, <2>2
<1> QED
  BY <1>1, <1>3 DEF n

LEMMA EarlierPhases ==
    ASSUME NEW l \in Seq(FeatureNames), NEW m \in Seq(FeatureNames), NEW p \in Nat,
           \A x \in DOMAIN l : Phase(l[x]) < p,
           \A y \in DOMAIN m : Phase(m[y]) = p
    PROVE  /\ \A x \in DOMAIN l, y \in DOMAIN m : Earlier(l[x], m[y])
           /\ \A x \in DOMAIN (l \o m) : Phase((l \o m)[x]) < p + 1
<1>1. \A f \in FeatureNames : Phase(f) \in Nat
  BY EarlierOnce
<1>2. \A x \in DOMAIN l : l[x] \in FeatureNames
  OBVIOUS
<1>3. \A x \in DOMAIN l, y \in DOMAIN m : Earlier(l[x], m[y])
  BY DEF Earlier
<1>4. ASSUME NEW x \in DOMAIN (l \o m)
      PROVE  Phase((l \o m)[x]) < p + 1
  <2>1. CASE x \in DOMAIN l /\ (l \o m)[x] = l[x]
    <3>1. Phase(l[x]) < p /\ Phase(l[x]) \in Nat
      BY <1>1, <1>2, <2>1
    <3> QED
      BY <2>1, <3>1
  <2>2. CASE x > Len(l) /\ x - Len(l) \in DOMAIN m /\ (l \o m)[x] = m[x - Len(l)]
    <3>1. Phase(m[x - Len(l)]) = p
      BY <2>2
    <3> QED
      BY <2>2, <3>1
  <2> QED
    BY <1>4, <2>1, <2>2, ConcatIs
<1> QED
  BY <1>3, <1>4

LEMMA RunOrderIs ==
    ASSUME command.only = "all"
    PROVE  /\ RunOrder \in Seq(FeatureNames)
           /\ \A i, j \in DOMAIN RunOrder : i < j => Earlier(RunOrder[i], RunOrder[j])
<1>1. \A p : /\ OfPhase(p) \in Seq(FeatureNames)
             /\ \A x \in DOMAIN OfPhase(p) : Phase(OfPhase(p)[x]) = p
             /\ \A x, y \in DOMAIN OfPhase(p) : x < y => Earlier(OfPhase(p)[x], OfPhase(p)[y])
  BY OfPhaseIs DEF InPlace, Earlier
<1> DEFINE first == OfPhase(1)
           second == OfPhase(2)
           third == OfPhase(3)
<1>2. /\ \A x \in DOMAIN first : Phase(first[x]) < 2
      /\ \A x \in DOMAIN second : Phase(second[x]) = 2
      /\ \A x \in DOMAIN third : Phase(third[x]) = 3
      /\ first \in Seq(FeatureNames) /\ second \in Seq(FeatureNames) /\ third \in Seq(FeatureNames)
      /\ \A x, y \in DOMAIN first : x < y => Earlier(first[x], first[y])
      /\ \A x, y \in DOMAIN second : x < y => Earlier(second[x], second[y])
      /\ \A x, y \in DOMAIN third : x < y => Earlier(third[x], third[y])
  <2>1. \A x \in DOMAIN first : Phase(first[x]) = 1
    BY <1>1
  <2>2. \A f : Phase(f) = 1 => Phase(f) < 2
    <3>1. \A n : n = 1 => n < 2
      OBVIOUS
    <3> QED
      BY <3>1
  <2>3. \A x \in DOMAIN first : Phase(first[x]) < 2
    BY <2>1, <2>2
  <2> QED
    BY <1>1, <2>3
<1>3. RunOrder = (first \o second) \o third
  BY DEF RunOrder
<1> HIDE DEF first, second, third
<1>4. /\ \A x \in DOMAIN first, y \in DOMAIN second : Earlier(first[x], second[y])
      /\ \A x \in DOMAIN (first \o second) : Phase((first \o second)[x]) < 2 + 1
  BY <1>2, EarlierPhases
<1> DEFINE l == first \o second
<1>5. l \in Seq(FeatureNames) /\ \A x, y \in DOMAIN l : x < y => Earlier(l[x], l[y])
  BY <1>2, <1>4, EarlierConcat
<1>6. \A x \in DOMAIN l : Phase(l[x]) < 3
  <2>1. 2 + 1 = 3
    OBVIOUS
  <2> HIDE DEF l
  <2> QED
    BY <1>4, <2>1 DEF l
<1> HIDE DEF l
<1>7. \A x \in DOMAIN l, y \in DOMAIN third : Earlier(l[x], third[y])
  BY <1>2, <1>5, <1>6, EarlierPhases
<1>8. l \o third \in Seq(FeatureNames)
      /\ \A x, y \in DOMAIN (l \o third) : x < y => Earlier((l \o third)[x], (l \o third)[y])
  BY <1>2, <1>5, <1>7, EarlierConcat
<1> QED
  BY <1>3, <1>8 DEF l

-----------------------------------------------------------------------------
(* A feature's lists.                                                       *)

LEMMA ListIs ==
    ASSUME NEW S, NEW s \in Seq(S)
    PROVE  ToSet(s) \subseteq S /\ (s = <<>> <=> ToSet(s) = {}) /\ s \in Seq(ToSet(s))
BY DEF ToSet

LEMMA TailIs ==
    ASSUME NEW S, NEW s \in Seq(S), s # <<>>, IsInjective(s)
    PROVE  /\ Head(s) \in S /\ Tail(s) \in Seq(S) /\ IsInjective(Tail(s))
           /\ ToSet(s) = {Head(s)} \cup ToSet(Tail(s))
           /\ Head(s) \notin ToSet(Tail(s))
<1>1. /\ Len(s) \in Nat /\ Len(s) > 0 /\ DOMAIN s = 1 .. Len(s)
      /\ Head(s) = s[1] /\ Head(s) \in S
      /\ Tail(s) \in Seq(S) /\ DOMAIN Tail(s) = 1 .. Len(s) - 1
      /\ \A i \in 1 .. Len(s) - 1 : Tail(s)[i] = s[i + 1]
  OBVIOUS
<1>2. IsInjective(Tail(s)) /\ Head(s) \notin ToSet(Tail(s))
  BY <1>1 DEF IsInjective, ToSet
<1>3. \A i \in 1 .. Len(s) : i = 1 \/ (i - 1 \in 1 .. Len(s) - 1 /\ (i - 1) + 1 = i)
  BY <1>1
<1>4. \A i \in 1 .. Len(s) - 1 : i + 1 \in 1 .. Len(s)
  BY <1>1
<1>5. ToSet(s) \subseteq {Head(s)} \cup ToSet(Tail(s))
  <2>1. ASSUME NEW i \in 1 .. Len(s)
        PROVE  s[i] = Head(s) \/ s[i] \in ToSet(Tail(s))
    <3>1. CASE i = 1
      BY <1>1, <3>1
    <3>2. CASE i - 1 \in 1 .. Len(s) - 1 /\ (i - 1) + 1 = i
      <4>1. s[i] = Tail(s)[i - 1] /\ i - 1 \in DOMAIN Tail(s)
        BY <1>1, <3>2
      <4> QED
        BY <4>1 DEF ToSet
    <3> QED
      BY <1>3, <3>1, <3>2
  <2> QED
    BY <1>1, <2>1 DEF ToSet
<1>6. {Head(s)} \cup ToSet(Tail(s)) \subseteq ToSet(s)
  BY <1>1, <1>4 DEF ToSet
<1> QED
  BY <1>1, <1>2, <1>5, <1>6

-----------------------------------------------------------------------------
(* An event's states.                                                       *)

\* What is left over, of a score past the top.
LEMMA TasksAre ==
    ASSUME NEW a \in Activities, NEW e \in Events(a), NEW f \in Events(a), e.task = f.task
    PROVE  /\ TasksDue(a, e) = TasksDue(a, f)
           /\ TasksDue(a, e) \subseteq DOMAIN e.task
           /\ DOMAIN e.task \in SUBSET Nat /\ IsFiniteSet(DOMAIN e.task)
<1>1. Fact(a).days \in Seq(Nat)
  BY SweepAssumption DEF Fact
<1>2. DOMAIN e.task = 1 .. Len(Fact(a).days) /\ Len(Fact(a).days) \in Nat
  BY <1>1 DEF Events
<1> QED
  BY <1>2, FS_Interval DEF TasksDue

\* The tasks whose claim raises the score.
Won(e, ts) == {t \in ts : e.task[t] = 1}

LEMMA TasksClaimedIs ==
    ASSUME NEW a \in Activities, NEW e \in Events(a), NEW ts \in SUBSET DOMAIN e.task
    PROVE  /\ TasksClaimed(e, ts) \in Events(a)
           /\ TasksClaimed(e, ts).task = [t \in DOMAIN e.task |-> IF t \in ts THEN 2 ELSE e.task[t]]
           /\ TasksClaimed(e, ts).got = e.got /\ TasksClaimed(e, ts).drained = e.drained
           /\ TasksClaimed(e, ts).score = e.score + Cardinality(Won(e, ts))
           /\ Cardinality(Won(e, ts)) \in Nat
<1>1. /\ e = [task |-> e.task, score |-> e.score, got |-> e.got, drained |-> e.drained]
      /\ e.task \in [DOMAIN Fact(a).days -> 0 .. 2] /\ e.score \in Nat /\ e.got \in SUBSET Nat /\ e.drained \in Nat
  BY DEF Events
<1> DEFINE won == Won(e, ts)
<1>2. Cardinality(won) \in Nat
  <2>1. IsFiniteSet(DOMAIN e.task)
    BY TasksAre
  <2>2. IsFiniteSet(won)
    BY <2>1, FS_Subset DEF Won
  <2> QED
    BY <2>2, FS_CardinalityType
<1> DEFINE task == [t \in DOMAIN e.task |-> IF t \in ts THEN 2 ELSE e.task[t]]
<1>3. task \in [DOMAIN Fact(a).days -> 0 .. 2]
  BY <1>1
<1>4. TasksClaimed(e, ts) =
         [task |-> task, score |-> e.score + Cardinality(won), got |-> e.got, drained |-> e.drained]
  <2>1. ASSUME NEW g, NEW n
        PROVE  [e EXCEPT !.task = g, !.score = @ + n] =
                  [task |-> g, score |-> e.score + n, got |-> e.got, drained |-> e.drained]
    <3>1. [e EXCEPT !.task = g] = [task |-> g, score |-> e.score, got |-> e.got, drained |-> e.drained]
      BY <1>1
    <3>2. ASSUME NEW h, NEW v, h = [task |-> g, score |-> e.score, got |-> e.got, drained |-> e.drained]
          PROVE  [h EXCEPT !.score = v] = [task |-> g, score |-> v, got |-> e.got, drained |-> e.drained]
      BY <3>2
    <3> QED
      BY <3>1, <3>2, Zenon
  <2>2. TasksClaimed(e, ts) = [e EXCEPT !.task = task, !.score = @ + Cardinality(won)]
    BY DEF TasksClaimed, Won
  <2> HIDE DEF task, won
  <2> QED
    BY <2>1, <2>2
<1> HIDE DEF task, won
<1>5. TasksClaimed(e, ts) \in Events(a)
  BY <1>1, <1>2, <1>3, <1>4 DEF Events
<1> QED
  BY <1>2, <1>4, <1>5 DEF task, won

LEMMA FollowIs ==
    ASSUME NEW a \in Activities, NEW e \in Events(a)
    PROVE  /\ Follow(e) \in Events(a)
           /\ Follow(e).score = e.score /\ Follow(e).got = e.got /\ Follow(e).drained = e.drained
           /\ K.after # "chain" => Follow(e) = e
           /\ \A f \in Events(a) : f.task = e.task => Follow(f).task = Follow(e).task
<1> DEFINE next(f) == {t \in DOMAIN f.task : f.task[t] = 0}
<1>1. ASSUME NEW f \in Events(a)
      PROVE  /\ Follow(f) \in Events(a)
             /\ Follow(f).score = f.score /\ Follow(f).got = f.got /\ Follow(f).drained = f.drained
             /\ Follow(f).task = IF K.after # "chain" \/ next(f) = {} THEN f.task
                                 ELSE [f.task EXCEPT ![Min(next(f))] = 1]
  <2>1. /\ f = [task |-> f.task, score |-> f.score, got |-> f.got, drained |-> f.drained]
        /\ f.task \in [DOMAIN Fact(a).days -> 0 .. 2] /\ f.score \in Nat /\ f.got \in SUBSET Nat /\ f.drained \in Nat
    BY DEF Events
  <2> DEFINE task == [f.task EXCEPT ![Min(next(f))] = 1]
  <2>2. task \in [DOMAIN Fact(a).days -> 0 .. 2]
    <3>1. ASSUME NEW D, NEW g \in [D -> 0 .. 2], NEW x
          PROVE  [g EXCEPT ![x] = 1] \in [D -> 0 .. 2]
      <4>1. 1 \in 0 .. 2
        OBVIOUS
      <4> QED
        BY <4>1
    <3> QED
      BY <2>1, <3>1
  <2>3. [f EXCEPT !.task[Min(next(f))] = 1] =
           [task |-> task, score |-> f.score, got |-> f.got, drained |-> f.drained]
    BY <2>1
  <2>4. Follow(f) = IF K.after # "chain" \/ next(f) = {} THEN f ELSE [f EXCEPT !.task[Min(next(f))] = 1]
    BY DEF Follow
  <2> HIDE DEF task, next
  <2>5. CASE K.after # "chain" \/ next(f) = {}
    BY <2>1, <2>4, <2>5
  <2>6. CASE ~(K.after # "chain" \/ next(f) = {})
    <3>1. Follow(f) = [task |-> task, score |-> f.score, got |-> f.got, drained |-> f.drained]
      BY <2>3, <2>4, <2>6
    <3>2. Follow(f) \in Events(a)
      BY <2>1, <2>2, <3>1 DEF Events
    <3> QED
      BY <2>6, <3>1, <3>2 DEF task
  <2> QED
    BY <2>5, <2>6
<1>2. \A f \in Events(a) : f.task = e.task => next(f) = next(e)
  OBVIOUS
<1>3. K.after # "chain" => Follow(e) = e
  BY DEF Follow
<1> HIDE DEF next
<1>4. ASSUME NEW f \in Events(a), f.task = e.task
      PROVE  Follow(f).task = Follow(e).task
  <2>1. next(f) = next(e)
    BY <1>2, <1>4
  <2>2. Follow(f).task = IF K.after # "chain" \/ next(f) = {} THEN f.task
                         ELSE [f.task EXCEPT ![Min(next(f))] = 1]
    BY <1>1
  <2>3. Follow(e).task = IF K.after # "chain" \/ next(e) = {} THEN e.task
                         ELSE [e.task EXCEPT ![Min(next(e))] = 1]
    BY <1>1
  <2> QED
    BY <1>4, <2>1, <2>2, <2>3
<1>5. /\ Follow(e) \in Events(a)
      /\ Follow(e).score = e.score /\ Follow(e).got = e.got /\ Follow(e).drained = e.drained
  BY <1>1
<1> QED
  BY <1>3, <1>4, <1>5

LEMMA BoxesOpenedIs ==
    ASSUME NEW a \in Activities, NEW e \in Events(a), NEW bs \in SUBSET Nat
    PROVE  /\ BoxesOpened(e, bs) \in Events(a)
           /\ BoxesOpened(e, bs).task = e.task /\ BoxesOpened(e, bs).score = e.score
           /\ BoxesOpened(e, bs).drained = e.drained
           /\ BoxesOpened(e, bs).got = e.got \cup bs
BY DEF BoxesOpened, Events

LEMMA DrainedIs ==
    ASSUME NEW a \in Activities, NEW e \in Events(a)
    PROVE  /\ [e EXCEPT !.drained = @ + 1] \in Events(a)
           /\ [e EXCEPT !.drained = @ + 1].task = e.task /\ [e EXCEPT !.drained = @ + 1].got = e.got
           /\ [e EXCEPT !.drained = @ + 1].score = e.score
           /\ [e EXCEPT !.drained = @ + 1].drained = e.drained + 1
BY DEF Events

LEMMA EarnedIs ==
    ASSUME NEW a \in Activities, NEW e \in Events(a), NEW f \in Earned(e)
    PROVE  f \in Events(a)
<1>1. /\ e = [task |-> e.task, score |-> e.score, got |-> e.got, drained |-> e.drained]
      /\ e.task \in [DOMAIN Fact(a).days -> 0 .. 2] /\ e.score \in Nat /\ e.got \in SUBSET Nat /\ e.drained \in Nat
  BY DEF Events
<1>2. CASE \E t \in DOMAIN e.task : f = [e EXCEPT !.task[t] = 1]
  <2>1. PICK t \in DOMAIN e.task : f = [e EXCEPT !.task[t] = 1]
    BY <1>2
  <2>2. f = [task |-> [e.task EXCEPT ![t] = 1], score |-> e.score, got |-> e.got, drained |-> e.drained]
    BY <1>1, <2>1
  <2>3. [e.task EXCEPT ![t] = 1] \in [DOMAIN Fact(a).days -> 0 .. 2]
    BY <1>1
  <2> QED
    BY <1>1, <2>2, <2>3 DEF Events
<1>3. CASE f = [e EXCEPT !.score = @ + 1]
  BY <1>1, <1>3 DEF Events
<1> QED
  BY <1>2, <1>3 DEF Earned

\* The boxes due are of the entry, and there are fewer when more have been opened.
LEMMA BoxesAre ==
    ASSUME NEW a \in Activities, NEW e \in Events(a)
    PROVE  /\ BoxesDue(a, e) \subseteq 1 .. Len(Fact(a).boxes)
           /\ BoxesDue(a, e) \in SUBSET Nat /\ BoxesDue(a, e) \subseteq Int
           /\ \A f \in Events(a) : f.score = e.score /\ e.got \subseteq f.got => BoxesDue(a, f) \subseteq BoxesDue(a, e)
           /\ \A f \in Events(a) : f.score = e.score /\ e.got = f.got => BoxesDue(a, f) = BoxesDue(a, e)
<1>1. Fact(a).boxes \in Seq(Nat)
  BY SweepAssumption DEF Fact
<1>2. DOMAIN Fact(a).boxes = 1 .. Len(Fact(a).boxes) /\ Len(Fact(a).boxes) \in Nat
  BY <1>1
<1> QED
  BY <1>2 DEF BoxesDue

\* Where two kinds share a reply, each counts the boxes of its own.
LEMMA OwnAre ==
    ASSUME NEW k, NEW bs, NEW cs
    PROVE  /\ OwnBoxes(k, bs) \subseteq bs
           /\ OwnBoxes(k, bs \cup cs) = OwnBoxes(k, bs) \cup OwnBoxes(k, cs)
           /\ OwnBoxes(k, OwnBoxes(k, bs)) = OwnBoxes(k, bs)
           /\ k \notin {"week_cards", "week_gift"} => OwnBoxes(k, bs) = bs
           /\ \A j : {j, k} = {"week_cards", "week_gift"} => OwnBoxes(j, OwnBoxes(k, bs)) = {}
BY DEF OwnBoxes, SharedBoxes

LEMMA OwnBoxesDue ==
    ASSUME NEW a \in Activities, NEW e \in Events(a), NEW f \in Events(a), NEW k,
           e.score = f.score, OwnBoxes(k, e.got) = OwnBoxes(k, f.got)
    PROVE  OwnBoxes(k, BoxesDue(a, e)) = OwnBoxes(k, BoxesDue(a, f))
BY DEF OwnBoxes, BoxesDue

\* The least of a set of numbers that is not empty is one of them.
LEMMA LeastIs ==
    ASSUME NEW T \in SUBSET Nat, T # {}
    PROVE  Min(T) \in T
BY FirstFold!LeastNatural DEF Min

-----------------------------------------------------------------------------
(* Which kinds may share an event, and which features come first.           *)

LEMMA FeatureIs ==
    ASSUME OrderInv, NEW i \in DOMAIN order
    PROVE  /\ order[i] \in FeatureNames /\ i \in Nat /\ 1 <= i /\ i <= Len(order) /\ Len(order) \in Nat
           /\ Phase(order[i]) \in 1 .. 3
           /\ Kinds(order[i]) \subseteq DOMAIN KindFacts
           /\ FeatureFacts[order[i]].kinds \in Seq(Kinds(order[i]))
           /\ IsInjective(FeatureFacts[order[i]].kinds)
           /\ FeatureFacts[order[i]].kinds = <<>> <=> Kinds(order[i]) = {}
<1>1. order[i] \in FeatureNames /\ i \in Nat /\ 1 <= i /\ i <= Len(order) /\ Len(order) \in Nat
  BY DEF OrderInv
<1>2. FeatureFacts[order[i]].kinds \in Seq(DOMAIN KindFacts) /\ IsInjective(FeatureFacts[order[i]].kinds)
  BY <1>1, RegistryAssumption
<1> QED
  BY <1>1, <1>2, EarlierOnce, ListIs DEF Kinds

\* A kind is one feature's.
LEMMA OneFeature ==
    ASSUME OrderInv, NEW i \in DOMAIN order, NEW j \in DOMAIN order, NEW k,
           k \in Kinds(order[i]), k \in Kinds(order[j])
    PROVE  i = j
<1>1. order[i] \in FeatureNames /\ order[j] \in FeatureNames /\ i \in Nat /\ j \in Nat
  BY FeatureIs
<1>2. order[i] = order[j]
  BY <1>1, RegistryAssumption
<1>3. ~Earlier(order[i], order[j]) /\ ~Earlier(order[j], order[i])
  BY <1>1, <1>2, EarlierOnce
<1> QED
  BY <1>1, <1>3 DEF OrderInv

\* The overflow follows the pass.
LEMMA OverflowFollows ==
    ASSUME OrderInv, NEW i \in DOMAIN order, NEW j \in DOMAIN order,
           "battle_pass" \in Kinds(order[i]), "overflow" \in Kinds(order[j])
    PROVE  i < j
<1>1. order[i] \in FeatureNames /\ order[j] \in FeatureNames /\ i \in Nat /\ j \in Nat
  BY FeatureIs
<1> DEFINE x == Place(order[i])
           y == Place(order[j])
<1>2. /\ x \in DOMAIN Registry /\ y \in DOMAIN Registry /\ x \in Nat /\ y \in Nat
      /\ Registry[x] = order[i] /\ Registry[y] = order[j]
      /\ Phase(order[i]) \in 1 .. 3 /\ Phase(order[j]) \in 1 .. 3
  BY <1>1, EarlierOnce
<1> HIDE DEF x, y
<1>3. x < y /\ Phase(order[i]) <= Phase(order[j])
  BY <1>2, RegistryAssumption
<1>4. Earlier(order[i], order[j])
  BY <1>2, <1>3 DEF Earlier, x, y
<1>5. ~(j < i) /\ i # j
  BY <1>1, <1>4, EarlierOnce DEF OrderInv
<1> QED
  BY <1>1, <1>5

\* What follows a progress claim is one.
LEMMA ProgressLast ==
    ASSUME OrderInv, NEW i \in DOMAIN order, NEW j \in DOMAIN order, i <= j, Phase(order[i]) = phaseProgress
    PROVE  Phase(order[j]) = phaseProgress /\ Kinds(order[j]) # {} /\ FeatureFacts[order[j]].duel = {}
<1>1. /\ order[i] \in FeatureNames /\ order[j] \in FeatureNames /\ i \in Nat /\ j \in Nat
      /\ Phase(order[i]) \in 1 .. 3 /\ Phase(order[j]) \in 1 .. 3
  BY FeatureIs
<1>2. CASE i = j
  BY <1>1, <1>2, RegistryAssumption
<1>3. CASE i < j
  <2>1. Earlier(order[i], order[j])
    BY <1>3 DEF OrderInv
  <2>2. Phase(order[j]) = phaseProgress
    BY <1>1, <2>1 DEF Earlier, phaseProgress
  <2> QED
    BY <1>1, <2>2, RegistryAssumption
<1> QED
  BY <1>1, <1>2, <1>3

\* Two kinds of one entry.
LEMMA SharedEntry ==
    ASSUME NEW a \in Activities, NEW j \in Fact(a).kinds, NEW k \in Fact(a).kinds, j # k
    PROVE  \/ j = "battle_pass" /\ k = "overflow"
           \/ j = "overflow" /\ k = "battle_pass"
           \/ {j, k} = {"week_cards", "week_gift"}
<1>1. {j, k} \in {{"battle_pass", "overflow"}, {"week_cards", "week_gift"}}
  BY EntriesAssumption
<1>2. CASE {j, k} = {"battle_pass", "overflow"}
  <2>1. j \in {"battle_pass", "overflow"} /\ k \in {"battle_pass", "overflow"}
    BY <1>2
  <2> QED
    BY <2>1
<1> QED
  BY <1>1, <1>2

LEMMA KindIs ==
    ASSUME NEW k \in DOMAIN KindFacts
    PROVE  Coherent(k, KindFacts[k])
BY KindsAre DEF CoherentKinds

-----------------------------------------------------------------------------
(* A step of a feature that claims, in a run without a fault.               *)

AtClaim ==
    /\ Good /\ AtWork /\ stage = "run" /\ pc \in ClaimSteps \ {"end"}
    /\ faults' = {} /\ command.only = "all"
    /\ UNCHANGED <<now, listed, errs, runVars>>

LEMMA HereIs ==
    ASSUME AtClaim
    PROVE  /\ pos \in DOMAIN order
           /\ kinds \in Seq(Kinds(order[pos])) /\ IsInjective(kinds)
           /\ Kinds(order[pos]) \subseteq DOMAIN KindFacts
           /\ listed \in Seq(Activities) /\ IsInjective(listed)
<1>1. /\ OrderInv /\ RunInv /\ PlaceInv /\ Typed /\ stage = "run" /\ pc \in ClaimSteps
      /\ listed \in Seq(Activities)
  BY DEF AtClaim, AtWork, Good
<1>2. pos \in DOMAIN order
  BY <1>1 DEF OrderInv, RunInv, Typed
<1> QED
  BY <1>1, <1>2, FeatureIs DEF PlaceInv, Typed

LEMMA VisitIs ==
    ASSUME AtClaim, Visiting
    PROVE  /\ kinds # <<>> /\ Head(kinds) \in Kinds(order[pos]) /\ Head(kinds) \in DOMAIN KindFacts
           /\ Coherent(Head(kinds), K)
           /\ todo # <<>> /\ todo \in Seq(ToSet(Visits(Head(kinds)))) /\ IsInjective(todo)
           /\ A \in ToSet(Visits(Head(kinds))) /\ A \in ToSet(listed) /\ A \in Activities
           /\ Head(kinds) \in Fact(A).kinds
           /\ server[A] \in Events(A) /\ A \in DOMAIN server
           /\ A \in ToSet(todo)
<1>1. /\ PlaceInv /\ VisitInv /\ Typed
  BY DEF AtClaim, AtWork, Good
<1>2. /\ kinds # <<>> /\ todo # <<>>
      /\ todo \in Seq(ToSet(Visits(Head(kinds)))) /\ IsInjective(todo)
  BY <1>1 DEF PlaceInv, AtClaim, VisitInv
<1>3. Head(kinds) \in Kinds(order[pos]) /\ Head(kinds) \in DOMAIN KindFacts
  BY <1>2, HereIs
<1>4. A \in ToSet(Visits(Head(kinds))) /\ A \in ToSet(todo)
  BY <1>2, TailIs DEF A
<1>5. A \in ToSet(listed) /\ A \in OfKind(Head(kinds))
  BY <1>4, HereIs, VisitsAre
<1> QED
  BY <1>1, <1>2, <1>3, <1>4, <1>5, KindIs DEF K, OfKind, Typed

\* How a step moves on: through the events of a kind, and through the kinds.
StaysPut == Visiting /\ Visiting' /\ UNCHANGED <<kinds, todo, part>>

BossPart == Visiting /\ Head(kinds) = "crystal_boss" /\ part < 3 /\ part' = part + 1
                /\ pc' = "read" /\ UNCHANGED <<kinds, todo, answered, before, claims>>

LeavesKind == Visiting /\ ~(Head(kinds) = "crystal_boss" /\ part < 3)

NextEvent == LeavesKind /\ Tail(todo) # <<>> /\ todo' = Tail(todo) /\ pc' = "read" /\ kinds' = kinds /\ ClearVisit

NextKind == LeavesKind /\ Tail(todo) = <<>> /\ todo' = <<>> /\ pc' = "kind" /\ kinds' = Tail(kinds) /\ ClearVisit

KindsDone == pc = "kind" /\ kinds = <<>> /\ pc' = "end" /\ UNCHANGED <<kinds, todo>>

NoVisits == pc = "kind" /\ kinds # <<>> /\ Visits(Head(kinds)) = <<>> /\ pc' = "kind" /\ kinds' = Tail(kinds)
                /\ todo' = <<>> /\ UNCHANGED <<before, claims>>

ToVisits == pc = "kind" /\ kinds # <<>> /\ pc' = "read" /\ kinds' = kinds /\ todo' = Visits(Head(kinds))
                /\ todo' # <<>> /\ part' = 1 /\ UNCHANGED <<before, claims>>

Leaves == BossPart \/ NextEvent \/ NextKind
Moves == StaysPut \/ Leaves \/ KindsDone \/ NoVisits \/ ToVisits

LEMMA LeaveIs ==
    ASSUME Visiting, LeaveVisit, ~Loss(batch')
    PROVE  Leaves
<1>1. CASE Head(kinds) = "crystal_boss" /\ part < 3
  BY <1>1 DEF LeaveVisit, Leaves, BossPart
<1>2. CASE ~(Head(kinds) = "crystal_boss" /\ part < 3)
  <2>1. /\ todo' = Tail(todo) /\ ClearVisit
        /\ pc' = IF Tail(todo) = <<>> THEN "kind" ELSE "read"
        /\ kinds' = IF Tail(todo) = <<>> THEN Tail(kinds) ELSE kinds
    BY <1>2 DEF LeaveVisit
  <2> QED
    BY <1>2, <2>1 DEF Leaves, NextEvent, NextKind, LeavesKind
<1> QED
  BY <1>1, <1>2

LEMMA MovesKeepPlace ==
    ASSUME AtClaim, Moves
    PROVE  PlaceInv' /\ pc' \in ClaimSteps
<1>1. PlaceInv /\ pos \in DOMAIN order /\ kinds \in Seq(Kinds(order[pos])) /\ IsInjective(kinds)
  BY HereIs DEF AtClaim, Good
<1>2. UNCHANGED <<order, pos, stage>> /\ stage = "run" /\ \A k : Visits(k)' = Visits(k)
  BY VisitsStay DEF AtClaim, runVars
<1>3. Kinds(order[pos])' = Kinds(order[pos])
  BY <1>2
<1>4. CASE StaysPut \/ BossPart
  <2>1. /\ kinds # <<>> /\ todo \in Seq(ToSet(Visits(Head(kinds)))) /\ IsInjective(todo)
        /\ UNCHANGED <<kinds, todo>> /\ Visiting'
    BY <1>4, VisitIs DEF StaysPut, BossPart, Visiting
  <2> QED
    BY <1>1, <1>2, <1>3, <2>1 DEF PlaceInv, Visiting, ClaimSteps
<1>5. CASE NextEvent
  <2>1. /\ kinds # <<>> /\ todo # <<>> /\ todo \in Seq(ToSet(Visits(Head(kinds)))) /\ IsInjective(todo)
    BY <1>5, VisitIs DEF NextEvent, LeavesKind
  <2>2. todo' \in Seq(ToSet(Visits(Head(kinds)))) /\ IsInjective(todo')
    BY <1>5, <2>1, TailIs DEF NextEvent
  <2> QED
    BY <1>1, <1>2, <1>3, <1>5, <2>1, <2>2 DEF NextEvent, PlaceInv, Visiting, ClaimSteps
<1>6. CASE NextKind \/ NoVisits
  <2>1. kinds # <<>>
    BY <1>6, VisitIs DEF NextKind, NoVisits, LeavesKind
  <2>2. kinds' \in Seq(Kinds(order[pos])) /\ IsInjective(kinds')
    <3>1. kinds' = Tail(kinds)
      BY <1>6 DEF NextKind, NoVisits
    <3>2. Tail(kinds) \in Seq(Kinds(order[pos])) /\ IsInjective(Tail(kinds))
      BY <1>1, <2>1, TailIs
    <3> QED
      BY <3>1, <3>2
  <2>3. pc' = "kind" /\ before' = -1 /\ claims' = 0
    BY <1>1, <1>6 DEF NextKind, NoVisits, ClearVisit, PlaceInv
  <2> QED
    BY <1>2, <1>3, <2>2, <2>3 DEF PlaceInv, Visiting, ClaimSteps
<1>7. CASE KindsDone
  BY <1>1, <1>2, <1>3, <1>7 DEF KindsDone, PlaceInv, Visiting, ClaimSteps
<1>8. CASE ToVisits
  <2>1. todo' \in Seq(ToSet(Visits(Head(kinds)))) /\ IsInjective(todo')
    BY <1>8, HereIs, VisitsAre DEF ToVisits
  <2> QED
    BY <1>1, <1>2, <1>3, <1>8, <2>1 DEF ToVisits, PlaceInv, Visiting, ClaimSteps
<1> QED
  BY <1>4, <1>5, <1>6, <1>7, <1>8 DEF Moves, Leaves

\* What a move may add to what is settled: the event it leaves.
LEMMA MovesSettle ==
    ASSUME AtClaim, Moves, NEW k \in DOMAIN KindFacts, NEW a \in ToSet(Visits(k)), Taken(k)' \/ Visited(k, a)'
    PROVE  Taken(k) \/ Visited(k, a) \/ (k = Head(kinds) /\ a = A /\ (NextEvent \/ NextKind))
<1>1. PlaceInv /\ pos \in DOMAIN order /\ kinds \in Seq(Kinds(order[pos])) /\ IsInjective(kinds)
  BY HereIs DEF AtClaim, Good
<1>2. UNCHANGED <<now, order, pos, stage, claimsFrom, config>> /\ stage = "run" /\ pc \in ClaimSteps
  BY DEF AtClaim, runVars
<1> DEFINE Before == claimsFrom = now /\ \E i \in DOMAIN order : i < pos /\ Concluding(i) /\ k \in Kinds(order[i])
<1>3. Before' <=> Before
  BY <1>2 DEF Concluding, Holds, CleanPolicy
<1>4. Taken(k) <=> Before \/ k \in Kinds(order[pos]) \ ToSet(kinds)
  BY <1>2 DEF Taken
<1>5. Taken(k)' => Before \/ k \in Kinds(order[pos]) \ ToSet(kinds')
  BY <1>2, <1>3 DEF Taken
<1> HIDE DEF Before
<1>6. CASE StaysPut \/ BossPart
  <2>1. UNCHANGED <<kinds, todo>> /\ Visiting
    BY <1>6 DEF StaysPut, BossPart
  <2> QED
    BY <1>2, <1>4, <1>5, <2>1 DEF Visited
<1>7. CASE NextEvent
  <2>1. Visiting /\ kinds' = kinds /\ todo' = Tail(todo)
    BY <1>7 DEF NextEvent, LeavesKind
  <2>2. ToSet(todo) = {A} \cup ToSet(Tail(todo))
    BY <2>1, VisitIs, TailIs DEF A
  <2>3. Visited(k, a)' => k = Head(kinds) /\ a \notin ToSet(Tail(todo))
    BY <2>1 DEF Visited
  <2> QED
    BY <1>2, <1>4, <1>5, <1>7, <2>1, <2>2, <2>3 DEF Visited
<1>8. CASE NextKind
  <2>1. Visiting /\ kinds' = Tail(kinds) /\ Tail(todo) = <<>> /\ pc' = "kind"
    BY <1>8 DEF NextKind, LeavesKind
  <2>2. ToSet(todo) = {A} \cup ToSet(Tail(todo)) /\ ToSet(Tail(todo)) = {}
    <3>1. ToSet(todo) = {A} \cup ToSet(Tail(todo))
      BY <2>1, VisitIs, TailIs DEF A
    <3>2. ToSet(Tail(todo)) = {}
      BY <2>1 DEF ToSet
    <3> QED
      BY <3>1, <3>2
  <2>3. ToSet(kinds) = {Head(kinds)} \cup ToSet(kinds')
    BY <1>1, <2>1, VisitIs, TailIs
  <2>4. ~Visited(k, a)'
    BY <2>1 DEF Visited, Visiting
  <2>5. k = Head(kinds) => a = A \/ Visited(k, a)
    BY <1>2, <2>1, <2>2 DEF Visited
  <2> QED
    BY <1>4, <1>5, <1>8, <2>3, <2>4, <2>5
<1>9. CASE KindsDone
  <2>1. kinds' = kinds /\ pc' = "end"
    BY <1>9 DEF KindsDone
  <2>2. ~Visited(k, a)'
    BY <2>1 DEF Visited, Visiting
  <2> QED
    BY <1>4, <1>5, <2>1, <2>2
<1>10. CASE NoVisits
  <2>1. kinds # <<>> /\ kinds' = Tail(kinds) /\ pc' = "kind" /\ Visits(Head(kinds)) = <<>>
    BY <1>10 DEF NoVisits
  <2>2. ToSet(kinds) = {Head(kinds)} \cup ToSet(kinds')
    BY <1>1, <2>1, TailIs
  <2>3. ~Visited(k, a)'
    BY <2>1 DEF Visited, Visiting
  <2>4. k # Head(kinds)
    BY <2>1 DEF ToSet
  <2> QED
    BY <1>4, <1>5, <2>2, <2>3, <2>4
<1>11. CASE ToVisits
  <2>1. kinds' = kinds /\ todo' = Visits(Head(kinds))
    BY <1>11 DEF ToVisits
  <2>2. ~Visited(k, a)'
    BY <2>1 DEF Visited
  <2> QED
    BY <1>4, <1>5, <2>1, <2>2
<1> QED
  BY <1>6, <1>7, <1>8, <1>9, <1>10, <1>11 DEF Moves, Leaves

\* The event that is visited is not settled yet.
LEMMA NotSettledYet ==
    ASSUME AtClaim, Visiting
    PROVE  ~Taken(Head(kinds)) /\ ~Visited(Head(kinds), A)
<1>1. Head(kinds) \in Kinds(order[pos]) /\ Head(kinds) \in ToSet(kinds) /\ A \in ToSet(todo)
  BY VisitIs, HereIs, TailIs
<1>2. ASSUME NEW i \in DOMAIN order, i < pos
      PROVE  Head(kinds) \notin Kinds(order[i])
  <2>1. OrderInv /\ pos \in DOMAIN order /\ i \in Nat /\ pos \in Nat
    BY HereIs, FeatureIs DEF AtClaim, Good
  <2> QED
    BY <1>1, <1>2, <2>1, OneFeature
<1> QED
  BY <1>1, <1>2 DEF Taken, Visited

\* A feature reads no more than it was to read.
LEMMA MovesRead ==
    ASSUME AtClaim, Moves, NEW k, NEW a, Pending(k, a)', StaysPut => pc' # "read" \/ K.read \notin {"sweep", "once"}
    PROVE  Pending(k, a) /\ (Visiting => ~(k = Head(kinds) /\ a = A))
<1>1. PlaceInv /\ pos \in DOMAIN order /\ kinds \in Seq(Kinds(order[pos])) /\ IsInjective(kinds) /\ OrderInv
  BY HereIs DEF AtClaim, Good
<1>2. UNCHANGED <<order, pos, stage>> /\ stage = "run"
  BY DEF AtClaim, runVars
<1>3. ToCome(k)' <=> ToCome(k)
  BY <1>2 DEF ToCome
<1>4. k \in DOMAIN KindFacts /\ KindFacts[k].read \in {"sweep", "once"}
  BY DEF Pending
<1>5. Visiting => ~ToCome(Head(kinds))
  <2>1. ASSUME Visiting, NEW i \in DOMAIN order, Head(kinds) \in Kinds(order[i])
        PROVE  i = pos
    BY <1>1, <2>1, VisitIs, OneFeature
  <2>2. pos \in Nat
    BY <1>1, FeatureIs
  <2> QED
    BY <1>2, <2>1, <2>2 DEF ToCome
<1>6. CASE ToCome(k)'
  BY <1>2, <1>3, <1>4, <1>5, <1>6 DEF Pending
<1>7. CASE kinds' # <<>> /\ k \in ToSet(Tail(kinds'))
  <2>1. kinds # <<>> /\ kinds' \in {kinds, Tail(kinds)}
    BY <1>7, VisitIs DEF Moves, Leaves, StaysPut, BossPart, NextEvent, NextKind, LeavesKind, KindsDone, NoVisits, ToVisits
  <2>2. k \in ToSet(Tail(kinds))
    <3>1. Tail(kinds) \in Seq(Kinds(order[pos])) /\ IsInjective(Tail(kinds))
      BY <1>1, <2>1, TailIs
    <3>2. CASE kinds' = Tail(kinds)
      BY <1>7, <3>1, <3>2, TailIs
    <3> QED
      BY <1>7, <2>1, <3>2
  <2>3. k # Head(kinds)
    BY <1>1, <2>1, <2>2, TailIs
  <2> QED
    BY <1>2, <1>4, <2>1, <2>2, <2>3 DEF Pending
<1>8. CASE kinds' # <<>> /\ k = Head(kinds') /\ pc' = "kind"
  <2>1. kinds # <<>> /\ kinds' = Tail(kinds)
    BY <1>8, VisitIs DEF Moves, Leaves, StaysPut, BossPart, NextEvent, NextKind, LeavesKind, KindsDone, NoVisits,
                         ToVisits, Visiting
  <2>2. k \in ToSet(Tail(kinds))
    <3>1. Tail(kinds) \in Seq(Kinds(order[pos])) /\ IsInjective(Tail(kinds))
      BY <1>1, <2>1, TailIs
    <3>2. k = Head(Tail(kinds)) /\ Tail(kinds) # <<>>
      BY <1>8, <2>1
    <3> DEFINE rest == Tail(kinds)
    <3> HIDE DEF rest
    <3>3. ToSet(rest) = {Head(rest)} \cup ToSet(Tail(rest))
      BY <3>1, <3>2, TailIs DEF rest
    <3> QED
      BY <3>2, <3>3 DEF rest
  <2>3. k # Head(kinds)
    BY <1>1, <2>1, <2>2, TailIs
  <2> QED
    BY <1>2, <1>4, <2>1, <2>2, <2>3 DEF Pending
<1>9. CASE /\ kinds' # <<>> /\ k = Head(kinds') /\ Visiting'
           /\ a \in ToSet(Tail(todo')) \/ (a = Head(todo') /\ pc' = "read")
  <2>1. CASE StaysPut
    <3>1. UNCHANGED <<kinds, todo>> /\ Visiting /\ K.read = KindFacts[Head(kinds)].read
      BY <2>1 DEF StaysPut, K
    <3>2. a \in ToSet(Tail(todo)) /\ k = Head(kinds) /\ kinds # <<>>
      BY <1>4, <1>9, <2>1, <3>1
    <3>3. a # A
      BY <3>1, <3>2, VisitIs, TailIs DEF A
    <3>4. Pending(k, a)
      BY <1>2, <1>4, <3>1, <3>2 DEF Pending
    <3> QED
      BY <3>3, <3>4
  <2>2. CASE BossPart
    <3>1. Visiting /\ kinds' = kinds /\ Head(kinds) = "crystal_boss"
      BY <2>2 DEF BossPart
    <3>2. K.read = "direct" /\ K = KindFacts[Head(kinds)]
      BY <3>1, VisitIs DEF Coherent, K
    <3> QED
      BY <1>4, <1>9, <3>1, <3>2
  <2>3. CASE NextEvent
    <3>1. Visiting /\ kinds' = kinds /\ Tail(todo) # <<>> /\ todo' = Tail(todo) /\ kinds # <<>>
      BY <2>3, VisitIs DEF NextEvent, LeavesKind
    <3>2. Tail(todo) \in Seq(ToSet(Visits(Head(kinds)))) /\ IsInjective(Tail(todo)) /\ A \notin ToSet(Tail(todo))
      BY <3>1, VisitIs, TailIs DEF A
    <3>3. a \in ToSet(Tail(todo))
      BY <1>9, <3>1, <3>2, TailIs
    <3> QED
      BY <1>2, <1>4, <1>9, <3>1, <3>2, <3>3 DEF Pending
  <2>4. CASE ToVisits
    <3>1. pc = "kind" /\ kinds # <<>> /\ kinds' = kinds
      BY <2>4 DEF ToVisits
    <3> QED
      BY <1>2, <1>4, <1>9, <3>1 DEF Pending, Visiting
  <2> QED
    BY <1>9, <2>1, <2>2, <2>3, <2>4 DEF Moves, Leaves, NextKind, KindsDone, NoVisits, Visiting
<1> QED
  BY <1>6, <1>7, <1>8, <1>9 DEF Pending, A

\* Of an event whose visit is past its read, no other feature is to read what
\* the sweep keeps: only the other of the week cards' two kinds.
LEMMA NoneReadsOn ==
    ASSUME AtClaim, Moves, Visiting, StaysPut => pc' # "read" \/ K.read \notin {"sweep", "once"},
           NEW a, a = A, NEW k \in Fact(a).kinds, Pending(k, a)'
    PROVE  K.read = "once" /\ KindFacts[k].read = "once" /\ {k, Head(kinds)} = {"week_cards", "week_gift"}
<1>1. Pending(k, a) /\ k # Head(kinds)
  BY MovesRead
<1>2. /\ A \in Activities /\ Head(kinds) \in Fact(A).kinds /\ Coherent(Head(kinds), K)
      /\ Head(kinds) \in Kinds(order[pos]) /\ k \in Fact(A).kinds
  BY VisitIs
<1>3. k \in DOMAIN KindFacts /\ KindFacts[k].read \in {"sweep", "once"} /\ Coherent(k, KindFacts[k])
  BY <1>1, KindIs DEF Pending
<1>4. k # "overflow"
  BY <1>3 DEF Coherent
<1>5. ~(k = "battle_pass" /\ Head(kinds) = "overflow")
  <2>1. SUFFICES ASSUME k = "battle_pass", Head(kinds) = "overflow"
                 PROVE  FALSE
    OBVIOUS
  <2>2. \E i \in DOMAIN order : k \in Kinds(order[i]) /\ i >= pos
    <3>1. CASE ToCome(k)
      <4>1. PICK i \in DOMAIN order : k \in Kinds(order[i]) /\ (i > pos \/ i = pos)
        BY <3>1 DEF ToCome
      <4>2. i \in Nat /\ pos \in Nat
        BY <4>1, HereIs, FeatureIs DEF AtClaim, Good
      <4> QED
        BY <4>1, <4>2
    <3>2. CASE kinds # <<>> /\ k \in ToSet(Tail(kinds))
      <4>1. k \in Kinds(order[pos])
        BY <3>2, HereIs, TailIs, ListIs
      <4>2. pos \in DOMAIN order /\ pos \in Nat
        BY HereIs, FeatureIs DEF AtClaim, Good
      <4> QED
        BY <4>1, <4>2
    <3> QED
      BY <1>1, <3>1, <3>2 DEF Pending
  <2>3. PICK i \in DOMAIN order : k \in Kinds(order[i]) /\ i >= pos
    BY <2>2
  <2>4. OrderInv /\ pos \in DOMAIN order /\ i \in Nat /\ pos \in Nat
    BY HereIs, FeatureIs DEF AtClaim, Good
  <2>5. i < pos
    BY <1>2, <2>1, <2>3, <2>4, OverflowFollows
  <2> QED
    BY <2>3, <2>4, <2>5
<1>6. {k, Head(kinds)} = {"week_cards", "week_gift"}
  BY <1>1, <1>2, <1>4, <1>5, SharedEntry
<1>7. k \in {"week_cards", "week_gift"} /\ Head(kinds) \in {"week_cards", "week_gift"}
  BY <1>6
<1> QED
  BY <1>2, <1>3, <1>6, <1>7 DEF Coherent

\* A step that stays in the run of a feature keeps what is about the run.
LEMMA ClaimIsGood ==
    ASSUME AtClaim, Moves, Typed', CacheInv', SettledInv', KnownInv'
    PROVE  Good'
<1>1. UNCHANGED <<now, order, pos, stage, claimsFrom, config, ranEarlier, errs>> /\ stage = "run" /\ pc \in ClaimSteps \ {"end"}
  BY DEF AtClaim, runVars
<1>2. OrderInv /\ RunInv /\ FromInv
  BY DEF AtClaim, Good
<1>3. PlaceInv' /\ pc' \in ClaimSteps
  BY MovesKeepPlace
<1>4. OrderInv'
  BY <1>1, <1>2 DEF OrderInv
<1>5. RunInv'
  <2>1. Kinds(order[pos])' = Kinds(order[pos]) /\ Phase(order[pos])' = Phase(order[pos])
    BY <1>1
  <2>2. Kinds(order[pos]) # {}
    BY <1>1, <1>2 DEF RunInv, ClaimSteps
  <2> QED
    BY <1>1, <1>2, <1>3, <2>1, <2>2 DEF RunInv
<1>6. FromInv'
  BY <1>1, <1>2 DEF FromInv, Concluding, Holds, CleanPolicy
<1> QED
  BY <1>3, <1>4, <1>5, <1>6 DEF Good

\* What is settled stays settled where the server and the duel's day stay.
LEMMA SettledStays ==
    ASSUME NEW k, NEW a, Settled(k, a), UNCHANGED now, server'[a] = server[a], Offers(k, a)' => Offers(k, a)
    PROVE  Settled(k, a)'
<1>1. Due(k, a)' <=> Due(k, a)
  BY DEF Due, LeftOver, TasksDue, BoxesDue
<1> QED
  BY <1>1 DEF Settled

\* The step leaves the event it is about only if nothing of it is due.
LeavesSettled == \A k, a : (NextEvent \/ NextKind) /\ k = Head(kinds) /\ a = A => Settled(k, a)'

LEMMA SettledIf ==
    ASSUME AtClaim, Moves, LeavesSettled,
           \A k \in DOMAIN KindFacts : \A a \in ToSet(Visits(k)) :
              (Taken(k) \/ Visited(k, a)) /\ Settled(k, a) /\ (Visiting => ~(k = Head(kinds) /\ a = A)) => Settled(k, a)'
    PROVE  SettledInv'
<1>1. \A k : Visits(k)' = Visits(k)
  BY VisitsStay DEF AtClaim
<1>2. ASSUME NEW k \in DOMAIN KindFacts, NEW a \in ToSet(Visits(k)), Taken(k)' \/ Visited(k, a)'
      PROVE  Settled(k, a)'
  <2>1. CASE k = Head(kinds) /\ a = A /\ (NextEvent \/ NextKind)
    BY <2>1 DEF LeavesSettled
  <2>2. CASE Taken(k) \/ Visited(k, a)
    <3>1. Settled(k, a)
      BY <2>2 DEF AtClaim, Good, SettledInv
    <3>2. Visiting => ~(k = Head(kinds) /\ a = A)
      BY <2>2, NotSettledYet
    <3> QED
      BY <2>2, <3>1, <3>2
  <2> QED
    BY <1>2, <2>1, <2>2, MovesSettle
<1> QED
  BY <1>1, <1>2 DEF SettledInv

\* A step that changes nothing at the server, and no reply but the event's.
LEMMA SettledRead ==
    ASSUME AtClaim, Moves, LeavesSettled, UNCHANGED server,
           \A b \in DOMAIN replies' : \/ Visiting /\ b = A
                                      \/ b \in DOMAIN replies /\ replies'[b] = replies[b]
    PROVE  SettledInv'
<1>1. UNCHANGED now
  BY DEF AtClaim
<1>2. ASSUME NEW k \in DOMAIN KindFacts, NEW a \in ToSet(Visits(k)), Settled(k, a),
             Visiting => ~(k = Head(kinds) /\ a = A)
      PROVE  Settled(k, a)'
  <2>1. CASE Visiting /\ a = A /\ k = "duel_chests"
    <3>1. a \in OfKind(k) /\ a \in Activities /\ Head(kinds) \in Fact(a).kinds
      BY <2>1, VisitIs, HereIs, VisitsAre
    <3>2. k # Head(kinds) /\ k \in Fact(a).kinds
      BY <1>2, <2>1, <3>1 DEF OfKind
    <3> QED
      BY <2>1, <3>1, <3>2, SharedEntry
  <2>2. CASE ~(Visiting /\ a = A /\ k = "duel_chests")
    <3>1. Offers(k, a)' => Offers(k, a)
      BY <1>1, <2>2 DEF Offers
    <3> QED
      BY <1>1, <1>2, <3>1, SettledStays
  <2> QED
    BY <2>1, <2>2
<1> QED
  BY <1>2, SettledIf

\* A claim changes the event alone, and only what its kind is about.
ClaimsAt ==
    /\ Visiting /\ UNCHANGED replies
    /\ DOMAIN server' = DOMAIN server
    /\ \A b \in DOMAIN server \ {A} : server'[b] = server[b]
    /\ \A a : a = A =>
          LET s == server[a]
              e == server'[a]
          IN /\ e \in Events(a)
             /\ \/ e.task = s.task /\ e.score = s.score /\ e.drained = s.drained /\ s.got \subseteq e.got
                \/ e.task = s.task /\ e.score = s.score /\ e.got = s.got /\ K.boxes = "drain"
                \/ K.tasks # "none"
             /\ \A k : {k, Head(kinds)} = {"week_cards", "week_gift"} => OwnBoxes(k, e.got) = OwnBoxes(k, s.got)

LEMMA SettledClaim ==
    ASSUME AtClaim, Moves, LeavesSettled, ClaimsAt
    PROVE  SettledInv'
<1>1. UNCHANGED now /\ UNCHANGED replies /\ Visiting
  BY DEF AtClaim, ClaimsAt
<1>2. ASSUME NEW k \in DOMAIN KindFacts, NEW a \in ToSet(Visits(k)), Settled(k, a), Taken(k) \/ Visited(k, a),
             ~(k = Head(kinds) /\ a = A)
      PROVE  Settled(k, a)'
  <2>1. Offers(k, a)' <=> Offers(k, a)
    BY <1>1 DEF Offers
  <2>2. a \in OfKind(k) /\ a \in Activities /\ a \in ToSet(listed) /\ a \in DOMAIN server /\ server[a] \in Events(a)
        /\ k \in Fact(a).kinds
    BY HereIs, VisitsAre DEF OfKind, AtClaim, Good, Typed
  <2>3. CASE a # A
    <3>1. server'[a] = server[a]
      BY <2>2, <2>3 DEF ClaimsAt
    <3> QED
      BY <1>1, <1>2, <2>1, <3>1, SettledStays
  <2>4. CASE a = A
    <3>1. k # Head(kinds) /\ Head(kinds) \in Fact(a).kinds /\ Coherent(Head(kinds), K) /\ Coherent(k, KindFacts[k])
          /\ Head(kinds) \in Kinds(order[pos])
      BY <1>1, <1>2, <2>4, VisitIs, KindIs
    <3> DEFINE s == server[a]
               e == server'[a]
    <3>2. /\ e \in Events(a)
          /\ \/ e.task = s.task /\ e.score = s.score /\ e.drained = s.drained /\ s.got \subseteq e.got
             \/ e.task = s.task /\ e.score = s.score /\ e.got = s.got /\ K.boxes = "drain"
             \/ K.tasks # "none"
      BY <2>4 DEF ClaimsAt
    <3>3. SUFFICES Due(k, a)' => Due(k, a)
      BY <1>2, <2>1 DEF Settled
    <3>4. CASE e.task = s.task /\ e.score = s.score /\ e.drained = s.drained /\ s.got \subseteq e.got
      <4>1. /\ LeftOver(a, server[a])' = LeftOver(a, server[a])
            /\ TasksDue(a, server[a])' = TasksDue(a, server[a])
            /\ BoxesDue(a, server[a])' \subseteq BoxesDue(a, server[a])
        BY <1>1, <3>4 DEF LeftOver, TasksDue, BoxesDue
      <4>2. OwnBoxes(k, BoxesDue(a, server[a]))' \subseteq OwnBoxes(k, BoxesDue(a, server[a]))
        BY <4>1 DEF OwnBoxes
      <4> QED
        BY <3>4, <4>1, <4>2 DEF Due
    <3>5. CASE e.task = s.task /\ e.score = s.score /\ e.got = s.got /\ K.boxes = "drain"
      <4>1. Head(kinds) = "overflow" /\ k = "battle_pass"
        BY <2>2, <3>1, <3>5, SharedEntry DEF Coherent
      <4>2. KindFacts[k].boxes # "drain"
        BY <3>1, <4>1 DEF Coherent
      <4>3. /\ TasksDue(a, server[a])' = TasksDue(a, server[a])
            /\ BoxesDue(a, server[a])' = BoxesDue(a, server[a])
        BY <1>1, <3>5 DEF TasksDue, BoxesDue
      <4> QED
        BY <4>2, <4>3 DEF Due, OwnBoxes
    <3>6. CASE K.tasks # "none"
      <4>1. Head(kinds) = "battle_pass" /\ k = "overflow"
        BY <2>2, <3>1, <3>6, SharedEntry DEF Coherent
      <4>2. OrderInv /\ pos \in DOMAIN order /\ pos \in Nat
        BY HereIs, FeatureIs DEF AtClaim, Good
      <4>3. ASSUME NEW i \in DOMAIN order, k \in Kinds(order[i])
            PROVE  pos < i /\ i \in Nat
        BY <3>1, <4>1, <4>2, <4>3, OverflowFollows, FeatureIs
      <4>4. ~Taken(k) /\ ~Visited(k, a)
        BY <3>1, <4>2, <4>3 DEF Taken, Visited
      <4> QED
        BY <1>2, <4>4
    <3> QED
      BY <3>2, <3>4, <3>5, <3>6
  <2> QED
    BY <2>3, <2>4
<1> QED
  BY <1>1, <1>2, SettledIf

-----------------------------------------------------------------------------
(* The cache, in a step of a feature that claims.                           *)

ReadsNot == StaysPut => pc' # "read" \/ K.read \notin {"sweep", "once"}

\* A step that changes no reply but the event's, which is what the server has,
\* or was there and serves.
LEMMA CacheRead ==
    ASSUME AtClaim, Moves, ReadsNot, UNCHANGED server,
           DOMAIN replies' \subseteq ToSet(listed),
           \A b \in DOMAIN replies' : \/ b \in DOMAIN replies /\ replies'[b] = replies[b]
                                      \/ /\ Visiting /\ b = A
                                         /\ replies'[b].res = "none" /\ replies'[b].event = server[b]
                                         /\ b # DuelEntry => replies'[b].days = {}
    PROVE  CacheInv'
<1>1. UNCHANGED <<listed, ranEarlier>> /\ CacheInv /\ Typed
  BY DEF AtClaim, runVars, Good
<1>2. ASSUME NEW a \in DOMAIN replies'
      PROVE  /\ replies'[a].res = "none" /\ replies'[a].event \in Events(a)
             /\ a # DuelEntry => replies'[a].days = {}
  BY <1>1 DEF CacheInv, Typed
<1>3. ASSUME NEW a \in DOMAIN replies', NEW k \in Fact(a).kinds, Pending(k, a)'
      PROVE  Serves(k, a)'
  <2>1. Pending(k, a)
    BY <1>3, MovesRead DEF ReadsNot
  <2>2. CASE a \in DOMAIN replies /\ replies'[a] = replies[a]
    <3>1. Serves(k, a)
      BY <1>1, <2>1, <2>2 DEF CacheInv
    <3> QED
      BY <1>1, <2>2, <3>1 DEF Serves, Same
  <2>3. CASE Visiting /\ a = A /\ replies'[a].event = server[a]
    <3>1. KindFacts[k].read = "once"
      BY <1>3, <2>3, NoneReadsOn DEF ReadsNot
    <3> QED
      BY <2>3, <3>1 DEF Serves, Same
  <2> QED
    BY <1>3, <2>2, <2>3
<1> QED
  BY <1>1, <1>2, <1>3 DEF CacheInv, Events

LEMMA CacheClaim ==
    ASSUME AtClaim, Moves, ReadsNot, ClaimsAt
    PROVE  CacheInv'
<1>1. UNCHANGED <<listed, ranEarlier, replies>> /\ CacheInv /\ Typed /\ Visiting
  BY DEF AtClaim, runVars, Good, ClaimsAt
<1>2. ASSUME NEW a \in DOMAIN replies, NEW k \in Fact(a).kinds, Pending(k, a)'
      PROVE  Serves(k, a)'
  <2>1. Pending(k, a) /\ Serves(k, a)
    BY <1>1, <1>2, MovesRead DEF ReadsNot, CacheInv
  <2>2. CASE a # A
    <3>1. server'[a] = server[a]
      BY <1>1, <2>2 DEF ClaimsAt, CacheInv, Typed
    <3> QED
      BY <1>1, <2>1, <3>1 DEF Serves, Same
  <2>3. CASE a = A
    <3>1. K.read = "once" /\ KindFacts[k].read = "once" /\ {k, Head(kinds)} = {"week_cards", "week_gift"}
      BY <1>1, <1>2, <2>3, NoneReadsOn DEF ReadsNot
    <3>2. K.tasks = "none" /\ K.boxes = "all"
      BY <1>1, <3>1, VisitIs DEF Coherent
    <3>3. /\ server'[a].task = server[a].task /\ server'[a].score = server[a].score
          /\ OwnBoxes(k, server'[a].got) = OwnBoxes(k, server[a].got)
      BY <2>3, <3>1, <3>2 DEF ClaimsAt
    <3> QED
      BY <1>1, <2>1, <3>1, <3>3 DEF Serves, Same
  <2> QED
    BY <2>2, <2>3
<1> QED
  BY <1>1, <1>2 DEF CacheInv, Events

-----------------------------------------------------------------------------
(* Requests that do not fail.                                               *)

LEMMA SendsWell ==
    ASSUME Typed, faults' = {}, NEW by, NEW o, Send(by, o)
    PROVE  o = "none" /\ ErrorOf(o) = {} /\ UNCHANGED link
<1>1. {by} \X ErrorOf(o) = {}
  BY DEF Send
<1>2. ErrorOf(o) = {}
  <2>1. ASSUME NEW x \in ErrorOf(o)
        PROVE  FALSE
    <3>1. <<by, x>> \in {by} \X ErrorOf(o)
      BY <2>1
    <3> QED
      BY <1>1, <3>1
  <2> QED
    BY <2>1
<1>3. o = "none"
  BY <1>2 DEF Typed, Send, Outcomes, ErrorOf, Failures, Fatal
<1> QED
  BY <1>2, <1>3 DEF Send, Fatal

LEMMA InfoWell ==
    ASSUME Typed, faults' = {}, NEW reps, NEW a, NEW o, NEW days, Info(reps, a, o, days),
           \A b \in DOMAIN reps : reps[b].res = "none"
    PROVE  /\ UNCHANGED link
           /\ DOMAIN replies' = DOMAIN reps \cup {a}
           /\ \A b \in DOMAIN reps : replies'[b] = reps[b]
           /\ Answer(reps, a, o, days) = replies'[a] /\ replies'[a].res = "none"
           /\ a \notin DOMAIN reps => replies'[a].event = server[a] /\ (a # DuelEntry => replies'[a].days = {})
<1>1. Lost(reps) = {}
  BY DEF Lost, Fatal
<1>2. CASE a \in DOMAIN reps
  <2>1. replies' = reps /\ NoSend
    BY <1>2 DEF Info, Asks
  <2>2. Answer(reps, a, o, days) = reps[a]
    BY <1>2 DEF Answer
  <2> QED
    BY <1>2, <2>1, <2>2 DEF NoSend
<1>3. CASE a \notin DOMAIN reps
  <2>1. Send("sweep", o) /\ replies' = With(reps, a, Reply(a, o, days))
    BY <1>1, <1>3 DEF Info, Asks
  <2>2. o = "none" /\ UNCHANGED link
    BY <2>1, SendsWell
  <2>3. Answer(reps, a, o, days) = Reply(a, o, days)
    BY <1>1, <1>3 DEF Answer
  <2>4. /\ DOMAIN replies' = DOMAIN reps \cup {a} /\ replies'[a] = Reply(a, o, days)
        /\ \A b \in DOMAIN reps : replies'[b] = reps[b]
    BY <1>3, <2>1 DEF With
  <2>5. Reply(a, o, days).res = "none" /\ Reply(a, o, days).event = server[a] /\ Reply(a, o, days).days = days
    BY <2>2 DEF Reply
  <2>6. a # DuelEntry => days = {}
    BY DEF Info
  <2> QED
    BY <1>3, <2>2, <2>3, <2>4, <2>5, <2>6
<1> QED
  BY <1>2, <1>3

\* What CacheRead asks of the replies.
OnlyHere ==
    /\ DOMAIN replies' \subseteq ToSet(listed)
    /\ \A b \in DOMAIN replies' : \/ b \in DOMAIN replies /\ replies'[b] = replies[b]
                                  \/ /\ Visiting /\ b = A
                                     /\ replies'[b].res = "none" /\ replies'[b].event = server[b]
                                     /\ b # DuelEntry => replies'[b].days = {}

\* The sweep's read tells the event as it is: a reply that is kept is of the
\* duel, read when no feature that could earn something was to come.
LEMMA ReadsWell ==
    ASSUME AtClaim, Visiting, NEW reps, NEW o, NEW days, Info(reps, A, o, days),
           reps = Without(replies, A) \/ (reps = replies /\ pc = "read" /\ K.read = "sweep")
    PROVE  /\ UNCHANGED link /\ OnlyHere
           /\ A \in DOMAIN replies' /\ Answer(reps, A, o, days) = replies'[A]
           /\ replies'[A].res = "none" /\ replies'[A].event = server[A]
<1>1. Typed /\ CacheInv /\ faults' = {} /\ OrderInv /\ RunInv /\ stage = "run"
  BY DEF AtClaim, Good
<1>2. /\ DOMAIN reps \subseteq DOMAIN replies
      /\ \A b \in DOMAIN reps : reps[b] = replies[b] /\ reps[b].res = "none"
  <2>1. CASE reps = replies
    BY <1>1, <2>1 DEF CacheInv
  <2>2. CASE reps = Without(replies, A)
    <3>1. /\ DOMAIN reps = DOMAIN replies \ {A}
          /\ \A b \in DOMAIN replies \ {A} : reps[b] = replies[b]
      BY <2>2, Forgotten
    <3>2. \A b \in DOMAIN replies : replies[b].res = "none"
      BY <1>1 DEF CacheInv
    <3> QED
      BY <3>1, <3>2
  <2> QED
    BY <2>1, <2>2
<1>3. /\ UNCHANGED link
      /\ DOMAIN replies' = DOMAIN reps \cup {A}
      /\ \A b \in DOMAIN reps : replies'[b] = reps[b]
      /\ Answer(reps, A, o, days) = replies'[A] /\ replies'[A].res = "none"
      /\ A \notin DOMAIN reps => replies'[A].event = server[A] /\ (A # DuelEntry => replies'[A].days = {})
  BY <1>1, <1>2, InfoWell
<1>4. A \in DOMAIN reps => replies[A].event = server[A]
  <2>1. SUFFICES ASSUME A \in DOMAIN reps
                 PROVE  replies[A].event = server[A]
    OBVIOUS
  <2>2. reps = replies /\ pc = "read" /\ K.read = "sweep" /\ A \in DOMAIN replies
    BY <2>1, Forgotten
  <2>3. Head(kinds) \in Fact(A).kinds /\ Head(kinds) \in DOMAIN KindFacts /\ kinds # <<>>
        /\ Head(kinds) \in Kinds(order[pos])
    BY VisitIs
  <2>4. Pending(Head(kinds), A)
    BY <1>1, <2>2, <2>3 DEF Pending, K
  <2>5. Serves(Head(kinds), A)
    BY <1>1, <2>2, <2>3, <2>4 DEF CacheInv
  <2>6. A = DuelEntry /\ (~ranEarlier => replies[A].event = server[A])
    BY <2>2, <2>5 DEF Serves, K
  <2>7. Head(kinds) = "duel_chests"
    BY <2>3, <2>6, VisitIs, EntriesAssumption
  <2>8. pos \in DOMAIN order /\ order[pos] \in FeatureNames
    BY <1>1, HereIs, FeatureIs
  <2>9. Phase(order[pos]) = phaseProgress
    BY <2>3, <2>7, <2>8, RegistryAssumption
  <2>10. ~ranEarlier
    BY <1>1, <2>9 DEF RunInv
  <2> QED
    BY <2>6, <2>10
<1>5. A \in ToSet(listed)
  BY VisitIs
<1>6. OnlyHere
  BY <1>1, <1>2, <1>3, <1>5 DEF OnlyHere, CacheInv
<1> QED
  BY <1>2, <1>3, <1>4, <1>6

-----------------------------------------------------------------------------
(* The steps of a visit.                                                    *)

LEMMA TypedKeeps ==
    ASSUME AtClaim, UNCHANGED <<link, batch>>, UNCHANGED server \/ ClaimsAt,
           part' \in 1 .. 3, claims' \in Nat, before' \in Int, answered' \in BOOLEAN
    PROVE  Typed'
<1>1. UNCHANGED <<now, listed, pos, ranEarlier>> /\ Typed
  BY DEF AtClaim, runVars, Good
<1>2. DOMAIN server' = ToSet(listed) /\ \A a \in ToSet(listed) : server'[a] \in Events(a)
  <2>1. CASE UNCHANGED server
    BY <1>1, <2>1 DEF Typed
  <2>2. CASE ClaimsAt
    <3>1. \A a \in ToSet(listed) : a = A \/ server'[a] = server[a]
      BY <1>1, <2>2 DEF ClaimsAt, Typed
    <3> QED
      BY <1>1, <2>2, <3>1 DEF ClaimsAt, Typed
  <2> QED
    BY <2>1, <2>2
<1>3. Events(1)' = Events(1)
  BY DEF Events
<1>4. \A a \in ToSet(listed)' : (server[a] \in Events(a))'
  BY <1>1, <1>2 DEF Events
<1>5. (DOMAIN server = ToSet(listed))'
  BY <1>1, <1>2
<1>6. (IsInjective(listed))'
  BY <1>1 DEF Typed
<1> QED
  BY <1>1, <1>4, <1>5, <1>6 DEF Typed

\* A visit that begins knows nothing yet, and has nothing to answer for.
LEMMA FreshVisit ==
    ASSUME AtClaim, Moves, Typed', pc' = "read", part' = 1, before' = -1, claims' = 0
    PROVE  KnownInv'
<1>1. PlaceInv' /\ stage' = "run" /\ listed' = listed
  BY MovesKeepPlace DEF AtClaim, runVars
<1>2. kinds' # <<>> /\ (todo \in Seq(ToSet(Visits(Head(kinds)))))' /\ IsInjective(todo')
  BY <1>1 DEF PlaceInv, Visiting, ClaimSteps
<1>3. todo' # <<>>
  BY VisitIs DEF Moves, Leaves, StaysPut, BossPart, NextEvent, NextKind, LeavesKind, KindsDone, NoVisits, ToVisits
<1>4. listed' \in Seq(Activities) /\ IsInjective(listed')
  BY <1>1 DEF AtClaim, AtWork, Typed
<1>5. \A k : (ToSet(Visits(k)) \subseteq ToSet(listed))'
  <2>1. \A k : Visits(k)' = Visits(k)
    BY VisitsStay DEF AtClaim
  <2>2. \A k : ToSet(Visits(k)) \subseteq ToSet(listed)
    BY HereIs, VisitsAre
  <2> QED
    BY <1>1, <2>1, <2>2
<1>6. A' \in ToSet(listed')
  <2> DEFINE V == ToSet(Visits(Head(kinds)))'
  <2>1. V \subseteq ToSet(listed')
    BY <1>5
  <2>2. todo' \in Seq(V)
    BY <1>2
  <2> HIDE DEF V
  <2>3. Head(todo') \in V
    BY <1>3, <2>2
  <2> QED
    BY <2>1, <2>3 DEF A
<1>7. (server[A].drained)' \in Nat
  BY <1>6 DEF Typed, Events
<1> QED
  BY <1>1, <1>7 DEF KnownInv, BossInv, DrainInv, LearntInv

LEMMA LeavesWell ==
    ASSUME AtClaim, Leaves, UNCHANGED <<link, batch, server>>, OnlyHere, LeavesSettled,
           BossPart => \A a : a = A /\ Offers("crystal_boss", a) => part \notin BoxesDue(a, server[a])
    PROVE  Good'
<1>1. Moves /\ ReadsNot
  <2>1. Moves
    BY DEF Moves
  <2>2. ASSUME StaysPut
        PROVE  FALSE
    <3>1. UNCHANGED <<todo, part>> /\ Visiting /\ Visiting'
      BY <2>2 DEF StaysPut
    <3>2. part \in 1 .. 3
      BY DEF AtClaim, Good, Typed
    <3>3. ~BossPart
      BY <3>1, <3>2 DEF BossPart
    <3>4. ~NextKind
      BY <3>1 DEF NextKind, Visiting
    <3>5. ASSUME NEW S, NEW l \in Seq(S), l # <<>>
          PROVE  Tail(l) # l
      <4>1. Len(Tail(l)) # Len(l)
        BY <3>5
      <4> QED
        BY <4>1
    <3>6. Tail(todo) # todo
      BY <3>1, <3>5, VisitIs
    <3>7. ~NextEvent
      BY <3>1, <3>6 DEF NextEvent
    <3> QED
      BY <3>3, <3>4, <3>7 DEF Leaves
  <2> QED
    BY <2>1, <2>2 DEF ReadsNot
<1>2. Typed /\ UNCHANGED now
  BY DEF AtClaim, Good
<1>3. Typed'
  <2>1. part' \in 1 .. 3 /\ claims' \in Nat /\ before' \in Int /\ answered' \in BOOLEAN
    <3>1. CASE BossPart
      BY <1>2, <3>1 DEF BossPart, Typed
    <3>2. CASE NextEvent \/ NextKind
      <4>1. part' = 1 /\ claims' = 0 /\ before' = -1 /\ answered' = FALSE
        BY <3>2 DEF NextEvent, NextKind, ClearVisit
      <4>2. /\ 1 \in 1 .. 3 /\ 0 \in Nat /\ -1 \in Int /\ FALSE \in BOOLEAN
        OBVIOUS
      <4> QED
        BY <4>1, <4>2
    <3> QED
      BY <3>1, <3>2 DEF Leaves
  <2> QED
    BY <2>1, TypedKeeps
<1>4. KnownInv'
  <2>1. CASE NextEvent
    BY <1>1, <1>3, <2>1, FreshVisit DEF NextEvent, ClearVisit
  <2>2. CASE NextKind
    BY <2>2 DEF NextKind, KnownInv, BossInv, DrainInv, LearntInv, Visiting
  <2>3. CASE BossPart
    <3>1. /\ Visiting /\ Head(kinds) = "crystal_boss" /\ part' = part + 1 /\ pc' = "read"
          /\ UNCHANGED <<kinds, todo>> /\ part \in 1 .. 3
      BY <1>2, <2>3 DEF BossPart, Typed
    <3>2. K.boxes = "all" /\ UNCHANGED K /\ UNCHANGED A
      BY <3>1, VisitIs DEF Coherent, K, A
    <3>3. ASSUME NEW q \in 1 .. part' - 1, NEW a, a = A, Offers("crystal_boss", a)'
          PROVE  q \notin BoxesDue(a, server[a])'
      <4>1. Offers("crystal_boss", a)
        BY <1>2, <3>3 DEF Offers
      <4>2. BoxesDue(a, server[a])' = BoxesDue(a, server[a])
        BY DEF BoxesDue
      <4>3. q \in 1 .. part - 1 \/ q = part
        BY <3>1, <3>3
      <4>4. \A r \in 1 .. part - 1 : r \notin BoxesDue(a, server[a])
        BY <3>1, <3>3, <4>1 DEF AtClaim, Good, KnownInv, BossInv
      <4> QED
        BY <2>3, <3>3, <4>1, <4>2, <4>3, <4>4
    <3>4. \A q \in 1 .. part' - 1 : Offers(Head(kinds), A)' => (q \notin BoxesDue(A, server[A])')
      <4>1. PICK a : a = A
        OBVIOUS
      <4>2. A' = a /\ Head(kinds') = "crystal_boss"
        BY <3>1, <3>2, <4>1
      <4>3. Offers(Head(kinds), A)' <=> Offers("crystal_boss", a)'
        BY <4>2 DEF Offers
      <4>4. BoxesDue(A, server[A])' = BoxesDue(a, server[a])'
        BY <4>2 DEF BoxesDue
      <4> QED
        BY <3>3, <4>1, <4>3, <4>4
    <3> QED
      BY <3>1, <3>2, <3>4 DEF KnownInv, BossInv, DrainInv, LearntInv
  <2> QED
    BY <2>1, <2>2, <2>3 DEF Leaves
<1>5. CacheInv'
  BY <1>1, CacheRead DEF OnlyHere
<1>6. SettledInv'
  BY <1>1, SettledRead DEF OnlyHere
<1> QED
  BY <1>1, <1>3, <1>4, <1>5, <1>6, ClaimIsGood

\* What the crystal boss gave stays given while the visit goes on.
LEMMA BossKeeps ==
    ASSUME AtClaim, StaysPut,
           \A a : a = A => BoxesDue(a, server[a])' \subseteq BoxesDue(a, server[a])
    PROVE  BossInv'
<1>1. UNCHANGED <<kinds, todo, part, now>> /\ Visiting /\ BossInv
  BY DEF AtClaim, Good, KnownInv, StaysPut
<1>2. SUFFICES ASSUME Head(kinds) = "crystal_boss"
               PROVE  BossInv'
  BY <1>1 DEF BossInv
<1>3. PICK a : a = A
  OBVIOUS
<1>4. \A p \in 1 .. part - 1 : Offers("crystal_boss", a) => p \notin BoxesDue(a, server[a])
  BY <1>1, <1>2, <1>3 DEF BossInv
<1>5. Offers("crystal_boss", a)' <=> Offers("crystal_boss", a)
  BY <1>1 DEF Offers
<1>6. \A p \in 1 .. part - 1 : Offers("crystal_boss", a)' => (p \notin BoxesDue(a, server[a])')
  BY <1>3, <1>4, <1>5
<1>7. A' = a /\ Head(kinds') = "crystal_boss"
  BY <1>1, <1>2, <1>3 DEF A
<1>8. /\ Offers(Head(kinds), A)' <=> Offers("crystal_boss", a)'
      /\ BoxesDue(A, server[A])' = BoxesDue(a, server[a])'
  BY <1>7 DEF Offers, BoxesDue
<1> QED
  BY <1>1, <1>6, <1>8 DEF BossInv

\* What the feature has read about the event is so.
Tells(e) ==
    /\ e \in Events(A)
    /\ e.task = server[A].task /\ e.score = server[A].score
    /\ OwnBoxes(Head(kinds), e.got) = OwnBoxes(Head(kinds), server[A].got)
    /\ K.boxes = "drain" => e = server[A]

LEMMA ProceedWell ==
    ASSUME AtClaim, pc = "read", NEW e, NEW days, Proceed(e, days), Tells(e),
           UNCHANGED <<link, batch, server>>, OnlyHere,
           Head(kinds) = "duel_chests" => \A a : a = A => a \in DOMAIN replies' /\ replies'[a].days = days
    PROVE  Good'
<1>1. Visiting /\ Typed /\ UNCHANGED now /\ ~Loss(batch')
  BY DEF AtClaim, Good, AtWork, Visiting
<1>2. CASE \/ Fact(A).stageEnd # 0 /\ now >= Fact(A).stageEnd
           \/ Head(kinds) = "duel_chests" /\ days = {}
  <2>1. Leaves
    BY <1>1, <1>2, LeaveIs DEF Proceed
  <2>2. Fact(A).stageEnd \in Nat /\ now \in Nat
    BY <1>1, VisitIs, SweepAssumption DEF Fact, Typed
  <2>3. ASSUME NEW a, a = A
        PROVE  ~Offers(Head(kinds), a) \/ Head(kinds) = "duel_chests"
    BY <1>2, <2>2, <2>3 DEF Offers
  <2>4. ASSUME NEW k, NEW a, k = Head(kinds), a = A
        PROVE  ~Offers(k, a)'
    BY <1>1, <1>2, <2>2, <2>4 DEF Offers
  <2>5. LeavesSettled
    BY <2>4 DEF LeavesSettled, Settled
  <2>6. BossPart => \A a : a = A /\ Offers("crystal_boss", a) => part \notin BoxesDue(a, server[a])
    BY <2>3 DEF BossPart
  <2> QED
    BY <2>1, <2>5, <2>6, LeavesWell
<1>3. CASE ~ \/ Fact(A).stageEnd # 0 /\ now >= Fact(A).stageEnd
             \/ Head(kinds) = "duel_chests" /\ days = {}
  <2>1. /\ info' = e /\ pc' = IF K.boxes = "drain" THEN "drain" ELSE "tasks"
        /\ UNCHANGED <<kinds, todo, part, answered, before, claims>>
    BY <1>3 DEF Proceed
  <2>2. StaysPut /\ Moves /\ ReadsNot
    BY <1>1, <2>1 DEF StaysPut, Moves, ReadsNot, Visiting
  <2>3. LeavesSettled
    BY <2>1 DEF LeavesSettled, NextEvent, NextKind
  <2>4. Typed'
    BY <1>1, <2>1, TypedKeeps DEF Typed
  <2>5. CacheInv' /\ SettledInv'
    BY <2>2, <2>3, CacheRead, SettledRead DEF OnlyHere
  <2>6. UNCHANGED <<K, A>>
    BY <2>1 DEF K, A
  <2>7. BossInv'
    <3>1. \A a : BoxesDue(a, server[a])' = BoxesDue(a, server[a])
      BY DEF BoxesDue
    <3> QED
      BY <2>2, <3>1, BossKeeps
  <2>8. DrainInv'
    <3>1. DrainInv
      BY DEF AtClaim, Good, KnownInv
    <3>2. LeftOver(A, server[A])' = LeftOver(A, server[A])
      BY <2>6 DEF LeftOver
    <3>3. server[A]' = server[A]
      BY <2>6
    <3>4. pc' = "drain" \/ (pc' = "read" /\ K.boxes' = "drain") => pc = "read" /\ K.boxes = "drain"
      BY <2>1, <2>6
    <3> QED
      BY <2>1, <3>1, <3>2, <3>3, <3>4 DEF DrainInv
  <2>9. LearntInv'
    <3>1. server[A]' = server[A] /\ Head(kinds') = Head(kinds) /\ Events(A)' = Events(A)
      BY <2>1, <2>6 DEF Events
    <3>2. Knows'
      BY <2>1, <3>1 DEF Tells, Knows
    <3>3. pc' = "drain" => info' = server[A]' /\ K.boxes' = "drain"
      BY <2>1, <2>6, <3>1 DEF Tells
    <3>4. pc' # "drain" => pc' = "tasks" /\ K.boxes' # "drain"
      BY <2>1, <2>6
    <3> QED
      BY <3>2, <3>3, <3>4 DEF LearntInv
  <2>10. KnownInv'
    BY <2>7, <2>8, <2>9 DEF KnownInv
  <2> QED
    BY <2>2, <2>4, <2>5, <2>10, ClaimIsGood
<1> QED
  BY <1>2, <1>3

LEMMA ReadWell ==
    ASSUME AtClaim, pc = "read", Read
    PROVE  Good'
<1>1. /\ Typed /\ CacheInv /\ faults' = {} /\ UNCHANGED server /\ stage = "run" /\ Visiting
  BY DEF AtClaim, Good, Read, Visiting
<1>2. /\ Head(kinds) \in Fact(A).kinds /\ Head(kinds) \in DOMAIN KindFacts /\ kinds # <<>>
      /\ Coherent(Head(kinds), K) /\ server[A] \in Events(A) /\ A \in ToSet(listed)
  BY <1>1, VisitIs
<1>3. Tells(server[A])
  BY <1>2 DEF Tells
<1>4. ReadError("none") = {}
  BY DEF ReadError, ErrorOf, Failures
<1>5. ASSUME NEW r, Heed(r), r.res = "none"
      PROVE  Proceed(r.event, r.days) /\ UNCHANGED batch
  BY <1>4, <1>5 DEF Heed
<1>6. CASE ReadSweep
  <2>1. PICK o \in Turns, days \in SUBSET DuelDays :
           Info(CacheForRead, A, o, days) /\ Heed(Answer(CacheForRead, A, o, days))
    BY <1>6 DEF ReadSweep
  <2>2. CacheForRead = Without(replies, A) \/ (CacheForRead = replies /\ pc = "read" /\ K.read = "sweep")
    BY <1>6 DEF ReadSweep, CacheForRead
  <2>3. /\ UNCHANGED link /\ OnlyHere
        /\ A \in DOMAIN replies' /\ Answer(CacheForRead, A, o, days) = replies'[A]
        /\ replies'[A].res = "none" /\ replies'[A].event = server[A]
    BY <1>1, <2>1, <2>2, ReadsWell
  <2> DEFINE r == replies'[A]
  <2>4. Proceed(r.event, r.days) /\ UNCHANGED batch
    BY <1>5, <2>1, <2>3
  <2>5. \A a : a = A => a \in DOMAIN replies' /\ replies'[a].days = r.days
    BY <2>3
  <2>6. r.event = server[A]
    BY <2>3
  <2> HIDE DEF r
  <2> QED
    BY <1>1, <1>3, <2>3, <2>4, <2>5, <2>6, ProceedWell
<1>7. CASE AskForIt
  <2>1. PICK o \in Outcomes : Send("claim", o) /\ Heed(Reply(A, o, {}))
    BY <1>7 DEF AskForIt
  <2>2. o = "none" /\ UNCHANGED link
    BY <1>1, <2>1, SendsWell
  <2>3. Reply(A, o, {}).res = "none" /\ Reply(A, o, {}).event = server[A] /\ Reply(A, o, {}).days = {}
    BY <2>2 DEF Reply
  <2>4. Proceed(server[A], {}) /\ UNCHANGED batch
    BY <1>5, <2>1, <2>3
  <2>5. UNCHANGED replies /\ OnlyHere
    BY <1>1, <1>7 DEF AskForIt, OnlyHere, CacheInv
  <2>6. Head(kinds) # "duel_chests"
    BY <1>2, <1>7 DEF AskForIt, Coherent
  <2> QED
    BY <1>1, <1>3, <2>2, <2>4, <2>5, <2>6, ProceedWell
<1>8. CASE FindInInit
  <2>1. Proceed(server[A], {}) /\ UNCHANGED <<batch, replies, link>>
    BY <1>8 DEF FindInInit, NoSend
  <2>2. OnlyHere
    BY <1>1, <2>1 DEF OnlyHere, CacheInv
  <2>3. Head(kinds) # "duel_chests"
    BY <1>2, <1>8 DEF FindInInit, Coherent
  <2> QED
    BY <1>1, <1>3, <2>1, <2>2, <2>3, ProceedWell
<1>9. CASE ReadOnce
  <2>1. K.read = "once" /\ K.boxes = "all" /\ Head(kinds) # "duel_chests"
    BY <1>2, <1>9 DEF ReadOnce, Coherent
  <2>2. CASE A \in DOMAIN replies
    <3>1. NoSend /\ Heed(replies[A]) /\ UNCHANGED replies
      BY <1>9, <2>2 DEF ReadOnce
    <3>2. replies[A].res = "none" /\ replies[A].event \in Events(A)
      BY <1>1, <2>2 DEF CacheInv
    <3>3. Pending(Head(kinds), A)
      BY <1>1, <1>2, <2>1 DEF Pending, K
    <3>4. Same(Head(kinds), replies[A].event, server[A])
      <4>1. Serves(Head(kinds), A)
        BY <1>1, <1>2, <2>2, <3>3 DEF CacheInv
      <4> QED
        BY <2>1, <4>1 DEF Serves, K
    <3>5. Tells(replies[A].event)
      BY <2>1, <3>2, <3>4 DEF Tells, Same
    <3>6. Proceed(replies[A].event, replies[A].days) /\ UNCHANGED batch
      BY <1>5, <3>1, <3>2
    <3>7. UNCHANGED link /\ OnlyHere
      BY <1>1, <3>1 DEF NoSend, OnlyHere, CacheInv
    <3> QED
      BY <1>1, <2>1, <3>5, <3>6, <3>7, ProceedWell
  <2>3. CASE A \notin DOMAIN replies
    <3>1. PICK o \in Outcomes :
             Send("claim", o) /\ Heed(Reply(A, o, {})) /\ replies' = With(replies, A, Reply(A, o, {}))
      BY <1>9, <2>3 DEF ReadOnce
    <3>2. o = "none" /\ UNCHANGED link
      BY <1>1, <3>1, SendsWell
    <3>3. Reply(A, o, {}).res = "none" /\ Reply(A, o, {}).event = server[A] /\ Reply(A, o, {}).days = {}
      BY <3>2 DEF Reply
    <3>4. Proceed(server[A], {}) /\ UNCHANGED batch
      BY <1>5, <3>1, <3>3
    <3>5. /\ DOMAIN replies' = DOMAIN replies \cup {A} /\ replies'[A] = Reply(A, o, {})
          /\ \A b \in DOMAIN replies : replies'[b] = replies[b]
      BY <2>3, <3>1 DEF With
    <3>6. DOMAIN replies \subseteq ToSet(listed)
      BY <1>1 DEF CacheInv
    <3>7. OnlyHere
      BY <1>1, <1>2, <3>3, <3>5, <3>6 DEF OnlyHere
    <3> QED
      BY <1>1, <1>3, <2>1, <3>2, <3>4, <3>7, ProceedWell
  <2> QED
    BY <2>2, <2>3
<1> QED
  BY <1>6, <1>7, <1>8, <1>9 DEF Read

\* The feature turns to a kind: its events are listed, or it has none.
LEMMA TakeKindWell ==
    ASSUME AtClaim, TakeKind
    PROVE  Good'
<1>1. /\ Typed /\ CacheInv /\ faults' = {} /\ pc = "kind" /\ ~Loss(batch)
      /\ UNCHANGED <<server, replies, before, claims, answered>> /\ part' = 1
  BY DEF AtClaim, Good, AtWork, TakeKind
<1>2. UNCHANGED <<link, batch>> /\ (KindsDone \/ NoVisits \/ ToVisits)
  <2>1. CASE kinds = <<>>
    BY <1>1, <2>1 DEF TakeKind, KindsDone, NoSend
  <2>2. CASE kinds # <<>>
    <3>1. PICK o \in Turns :
             /\ IF Head(kinds) = "arenas" THEN Send("claim", o) ELSE o = "none" /\ NoSend
             /\ batch' = batch \cup ErrorOf(o)
             /\ IF Loss(batch')
                THEN pc' = "end" /\ kinds' = <<>> /\ todo' = <<>>
                ELSE IF o = "none" /\ Visits(Head(kinds)) # <<>>
                THEN pc' = "read" /\ todo' = Visits(Head(kinds)) /\ UNCHANGED kinds
                ELSE pc' = "kind" /\ kinds' = Tail(kinds) /\ todo' = <<>>
      BY <2>2 DEF TakeKind
    <3>2. o = "none" /\ UNCHANGED link
      <4>1. CASE Head(kinds) = "arenas"
        BY <1>1, <3>1, <4>1, SendsWell
      <4>2. CASE Head(kinds) # "arenas"
        BY <3>1, <4>2 DEF NoSend
      <4> QED
        BY <4>1, <4>2
    <3>3. UNCHANGED batch
      BY <3>1, <3>2 DEF ErrorOf, Failures
    <3>4. ~Loss(batch')
      BY <1>1, <3>3
    <3>5. CASE Visits(Head(kinds)) # <<>>
      BY <1>1, <2>2, <3>1, <3>2, <3>3, <3>4, <3>5 DEF ToVisits
    <3>6. CASE Visits(Head(kinds)) = <<>>
      BY <1>1, <2>2, <3>1, <3>2, <3>3, <3>4, <3>6 DEF NoVisits
    <3> QED
      BY <3>2, <3>3, <3>5, <3>6
  <2> QED
    BY <2>1, <2>2
<1>3. Moves
  BY <1>2 DEF Moves
<1>4. ~Visiting
  BY <1>1 DEF Visiting
<1>5. ReadsNot /\ LeavesSettled
  BY <1>4 DEF ReadsNot, LeavesSettled, StaysPut, NextEvent, NextKind, LeavesKind
<1>6. Typed'
  <2>1. 1 \in 1 .. 3
    OBVIOUS
  <2> QED
    BY <1>1, <1>2, <2>1, TypedKeeps DEF Typed
<1>7. DOMAIN replies \subseteq ToSet(listed)
  BY <1>1 DEF CacheInv
<1>8. CacheInv' /\ SettledInv'
  BY <1>1, <1>3, <1>5, <1>7, CacheRead, SettledRead
<1>9. KnownInv'
  <2>1. CASE ToVisits
    <3>1. before' = -1 /\ claims' = 0 /\ pc' = "read"
      BY <1>1, <2>1 DEF ToVisits, AtClaim, Good, PlaceInv
    <3> QED
      BY <1>1, <1>3, <1>6, <3>1, FreshVisit
  <2>2. CASE KindsDone \/ NoVisits
    BY <2>2 DEF KindsDone, NoVisits, KnownInv, BossInv, DrainInv, LearntInv, Visiting
  <2> QED
    BY <1>2, <2>1, <2>2
<1> QED
  BY <1>3, <1>6, <1>8, <1>9, ClaimIsGood

\* A claim that the server accepts: the visit stays with the event.
LEMMA AcceptsIs ==
    ASSUME AtClaim, StaysPut, NEW e, Accepts(e)
    PROVE  /\ UNCHANGED <<A, K>> /\ Head(kinds') = Head(kinds) /\ server[A]' = e
           /\ DOMAIN server' = DOMAIN server
           /\ \A b \in DOMAIN server \ {A} : server'[b] = server[b]
<1>1. UNCHANGED <<A, K>> /\ Head(kinds') = Head(kinds) /\ Visiting
  BY DEF StaysPut, A, K
<1>2. A \in DOMAIN server
  BY <1>1, VisitIs
<1>3. server' = [server EXCEPT ![A] = e]
  BY DEF Accepts
<1> QED
  BY <1>1, <1>2, <1>3

LEMMA ClaimWell ==
    ASSUME AtClaim, StaysPut, ReadsNot, UNCHANGED <<replies, link, batch>>,
           NEW e, Accepts(e), e \in Events(A),
           NEW s, s = server[A],
           \/ e.task = s.task /\ e.score = s.score /\ e.drained = s.drained /\ s.got \subseteq e.got
           \/ e.task = s.task /\ e.score = s.score /\ e.got = s.got /\ K.boxes = "drain"
           \/ K.tasks # "none",
           \A k : {k, Head(kinds)} = {"week_cards", "week_gift"} => OwnBoxes(k, e.got) = OwnBoxes(k, s.got),
           claims' \in Nat, before' \in Int, answered' \in BOOLEAN, KnownInv'
    PROVE  Good'
<1>1. Visiting /\ part' = part /\ part \in 1 .. 3
  BY DEF StaysPut, AtClaim, Good, Typed
<1>2. ClaimsAt
  <2>1. /\ server'[A] = e
        /\ DOMAIN server' = DOMAIN server
        /\ \A b \in DOMAIN server \ {A} : server'[b] = server[b]
    BY AcceptsIs
  <2> QED
    BY <1>1, <2>1 DEF ClaimsAt
<1>3. Typed'
  BY <1>1, <1>2, TypedKeeps
<1>4. Moves
  BY DEF Moves
<1>5. LeavesSettled
  <2>1. ~NextKind
    BY DEF StaysPut, NextKind, Visiting
  <2>2. ~NextEvent
    <3>1. ASSUME NEW S, NEW l \in Seq(S), l # <<>>
          PROVE  Tail(l) # l
      <4>1. Len(Tail(l)) # Len(l)
        BY <3>1
      <4> QED
        BY <4>1
    <3>2. Tail(todo) # todo
      BY <1>1, <3>1, VisitIs
    <3> QED
      BY <3>2 DEF StaysPut, NextEvent
  <2> QED
    BY <2>1, <2>2 DEF LeavesSettled
<1>6. CacheInv' /\ SettledInv'
  BY <1>2, <1>4, <1>5, CacheClaim, SettledClaim
<1> QED
  BY <1>3, <1>4, <1>6, ClaimIsGood

\* The tasks that a claim is for are the ones the server has done.
LEMMA NextTasksAre ==
    ASSUME AtClaim, pc = "tasks"
    PROVE  /\ K.tasks # "none" => TasksDue(A, info) = TasksDue(A, server[A])
           /\ NextTasks \subseteq DOMAIN info.task
           /\ NextTasks # {} => K.tasks # "none" /\ AllOrNext = NextTasks
           /\ NextTasks = {} => K.tasks = "none" \/ TasksDue(A, server[A]) = {}
<1>1. Visiting /\ Knows
  BY DEF AtClaim, Good, KnownInv, LearntInv, Visiting
<1>2. /\ A \in Activities /\ info \in Events(A) /\ server[A] \in Events(A) /\ info.task = server[A].task
  BY <1>1, VisitIs DEF Knows
<1> DEFINE due == TasksDue(A, info)
<1>3. /\ due = TasksDue(A, server[A])
      /\ due \subseteq DOMAIN info.task /\ due \in SUBSET Nat
  BY <1>2, TasksAre
<1>4. due # {} => Min(due) \in due
  BY <1>3, LeastIs
<1>5. NextTasks = IF K.tasks = "none" \/ due = {} THEN {} ELSE IF K.tasks = "all" THEN due ELSE {Min(due)}
  BY DEF NextTasks
<1> HIDE DEF due
<1>6. AllOrNext = IF K.tasks = "all" THEN due ELSE NextTasks
  BY <1>3 DEF AllOrNext
<1> QED
  BY <1>3, <1>4, <1>5, <1>6 DEF due

LEMMA ClaimTasksWell ==
    ASSUME AtClaim, ClaimTasks
    PROVE  Good'
<1>1. /\ Typed /\ faults' = {} /\ pc = "tasks" /\ Visiting /\ NextTasks # {} /\ UNCHANGED replies /\ stage = "run"
      /\ Knows /\ K.boxes # "drain"
  BY DEF AtClaim, Good, ClaimTasks, KnownInv, LearntInv, Visiting
<1>2. PICK o \in Outcomes :
         /\ Send("claim", o)
         /\ batch' = batch \cup ErrorOf(o)
         /\ o = "none" =>
               /\ Accepts(Follow(TasksClaimed(server[A], AllOrNext)))
               /\ info' = LET tried == TasksClaimed(info, NextTasks)
                          IN IF K.after \in {"reply", "chain"} THEN Follow(tried)
                             ELSE [tried EXCEPT !.score = info.score]
               /\ answered' = TRUE
               /\ UNCHANGED <<pc, kinds, todo, part, before, claims>>
  BY DEF ClaimTasks
<1>3. o = "none" /\ UNCHANGED <<link, batch>>
  <2>1. o = "none" /\ ErrorOf(o) = {} /\ UNCHANGED link
    BY <1>1, <1>2, SendsWell
  <2> QED
    BY <1>2, <2>1
<1> DEFINE T == NextTasks
           s == server[A]
           e == Follow(TasksClaimed(server[A], NextTasks))
           tried == TasksClaimed(info, NextTasks)
<1>4. /\ K.tasks # "none" /\ AllOrNext = NextTasks /\ T \subseteq DOMAIN info.task
  BY <1>1, NextTasksAre
<1>5. /\ Accepts(e) /\ answered' = TRUE
      /\ info' = IF K.after \in {"reply", "chain"} THEN Follow(tried) ELSE [tried EXCEPT !.score = info.score]
      /\ UNCHANGED <<pc, kinds, todo, part, before, claims>>
  BY <1>2, <1>3, <1>4
<1>6. StaysPut /\ ReadsNot
  BY <1>1, <1>5 DEF StaysPut, ReadsNot, Visiting
<1>7. /\ A \in Activities /\ s \in Events(A) /\ info \in Events(A) /\ info.task = s.task
      /\ OwnBoxes(Head(kinds), info.got) = OwnBoxes(Head(kinds), s.got)
      /\ \/ info.score = s.score
         \/ K.after = "none" /\ K.boxes = "none"
         \/ K.after = "reread"
  BY <1>1, VisitIs DEF Knows
<1>8. Coherent(Head(kinds), K)
  BY <1>1, VisitIs
<1> DEFINE s1 == TasksClaimed(server[A], NextTasks)
           n == Cardinality(Won(s, T))
<1>9. /\ s1 \in Events(A) /\ s1.got = s.got /\ s1.score = s.score + n
      /\ tried \in Events(A) /\ tried.got = info.got /\ tried.score = info.score + n
      /\ tried.task = s1.task /\ n \in Nat
  <2>1. T \in SUBSET DOMAIN s.task /\ T \in SUBSET DOMAIN info.task
    BY <1>4, <1>7
  <2>2. /\ s1 \in Events(A) /\ s1.got = s.got /\ s1.score = s.score + n /\ n \in Nat
        /\ s1.task = [t \in DOMAIN s.task |-> IF t \in T THEN 2 ELSE s.task[t]]
    BY <1>7, <2>1, TasksClaimedIs
  <2>3. /\ tried \in Events(A) /\ tried.got = info.got
        /\ tried.score = info.score + Cardinality(Won(info, T))
        /\ tried.task = [t \in DOMAIN info.task |-> IF t \in T THEN 2 ELSE info.task[t]]
    <3>1. A \in Activities /\ info \in Events(A)
      BY <1>7
    <3>2. T \in SUBSET DOMAIN info.task
      BY <2>1
    <3>3. tried = TasksClaimed(info, T)
      OBVIOUS
    <3> HIDE DEF T, s, tried, s1
    <3> QED
      BY <3>1, <3>2, <3>3, TasksClaimedIs
  <2>4. Won(info, T) = Won(s, T)
    BY <1>7 DEF Won
  <2>5. tried.task = s1.task
    BY <1>7, <2>2, <2>3
  <2>6. tried.score = info.score + n
    BY <2>3, <2>4
  <2> HIDE DEF T, s, s1, tried, n
  <2> QED
    BY <2>2, <2>3, <2>5, <2>6
<1> HIDE DEF T, s, s1, tried, n
<1>10. e = Follow(s1)
  BY DEF s1
<1> HIDE DEF e
<1>11. /\ e \in Events(A) /\ e.got = s1.got /\ e.score = s1.score
       /\ K.after # "chain" => e = s1
       /\ Follow(tried) \in Events(A) /\ Follow(tried).got = tried.got /\ Follow(tried).score = tried.score
       /\ Follow(tried).task = e.task
  BY <1>7, <1>9, <1>10, FollowIs
<1>12. /\ info' \in Events(A) /\ info'.got = info.got /\ info'.task = e.task
       /\ K.after \in {"reply", "chain"} => info'.score = info.score + n
  <2>1. CASE K.after \in {"reply", "chain"}
    BY <1>5, <1>9, <1>11, <2>1
  <2>2. CASE K.after \notin {"reply", "chain"}
    <3>1. info' = [tried EXCEPT !.score = info.score] /\ e = s1
      BY <1>5, <1>11, <2>2
    <3>2. [tried EXCEPT !.score = info.score] \in Events(A)
          /\ [tried EXCEPT !.score = info.score].got = tried.got
          /\ [tried EXCEPT !.score = info.score].task = tried.task
      BY <1>7, <1>9 DEF Events
    <3> QED
      BY <1>9, <2>2, <3>1, <3>2
  <2> QED
    BY <2>1, <2>2
<1>13. UNCHANGED <<A, K>> /\ Head(kinds') = Head(kinds) /\ server[A]' = e
  BY <1>5, <1>6, AcceptsIs
<1>14. Knows'
  <2>1. Events(A)' = Events(A)
    BY <1>13 DEF Events
  <2>2. \/ info'.score = e.score
        \/ K.after = "none" /\ K.boxes = "none"
        \/ K.after = "reread" /\ answered' /\ pc' # "boxes"
    <3>1. K.after = "none" => K.boxes = "none"
      BY <1>4, <1>8 DEF Coherent
    <3>2. K.after \in {"none", "reread", "reply", "chain"}
      BY <1>8 DEF Coherent
    <3>3. CASE K.after \in {"reply", "chain"}
      <4>1. info.score = s.score
        BY <1>7, <3>3
      <4> QED
        BY <1>9, <1>11, <1>12, <3>3, <4>1
    <3> QED
      BY <1>1, <1>5, <3>1, <3>2, <3>3
  <2>3. info' \in Events(A) /\ info'.task = e.task
        /\ OwnBoxes(Head(kinds), info'.got) = OwnBoxes(Head(kinds), e.got)
    BY <1>7, <1>9, <1>11, <1>12
  <2> HIDE DEF e
  <2> QED
    BY <1>13, <2>1, <2>2, <2>3 DEF Knows, OwnBoxes
<1>15. KnownInv'
  <2>1. BossInv'
    <3>1. Head(kinds') # "crystal_boss"
      BY <1>4, <1>8, <1>13 DEF Coherent
    <3> QED
      BY <3>1 DEF BossInv
  <2>2. pc' = "tasks" /\ K.boxes' # "drain"
    BY <1>1, <1>5, <1>13
  <2> QED
    BY <1>14, <2>1, <2>2 DEF KnownInv, DrainInv, LearntInv
<1>16. \A k : OwnBoxes(k, e.got) = OwnBoxes(k, s.got)
  BY <1>9, <1>11
<1>17. claims' \in Nat /\ before' \in Int /\ answered' \in BOOLEAN
  BY <1>1, <1>5 DEF Typed
<1>18. s = server[A]
  BY DEF s
<1> QED
  BY <1>1, <1>3, <1>4, <1>5, <1>6, <1>11, <1>15, <1>16, <1>17, <1>18, ClaimWell

LEMMA TasksDoneWell ==
    ASSUME AtClaim, TasksDone
    PROVE  Good'
<1>1. /\ Typed /\ CacheInv /\ pc = "tasks" /\ Visiting /\ NextTasks = {} /\ pc' = "reread"
      /\ UNCHANGED <<replies, server, batch, link, kinds, todo, part, info, answered, before, claims>>
      /\ Knows /\ K.boxes # "drain" /\ stage = "run"
  BY DEF AtClaim, Good, TasksDone, NoSend, Goto, Stay, visitVars, KnownInv, LearntInv, Visiting
<1>2. StaysPut /\ ReadsNot /\ Moves /\ LeavesSettled
  BY <1>1 DEF StaysPut, ReadsNot, Moves, LeavesSettled, NextEvent, NextKind, Visiting
<1>3. Typed'
  BY <1>1, TypedKeeps DEF Typed
<1>4. DOMAIN replies \subseteq ToSet(listed)
  BY <1>1 DEF CacheInv
<1>5. CacheInv' /\ SettledInv'
  BY <1>1, <1>2, <1>4, CacheRead, SettledRead
<1>6. UNCHANGED <<A, K, now>> /\ server[A]' = server[A]
  BY <1>1 DEF A, K, AtClaim
<1>7. BossInv'
  <2>1. \A a : BoxesDue(a, server[a])' = BoxesDue(a, server[a])
    BY <1>1 DEF BoxesDue
  <2> QED
    BY <1>2, <2>1, BossKeeps
<1>8. Knows'
  <2>1. Events(A)' = Events(A)
    BY <1>6 DEF Events
  <2> QED
    BY <1>1, <1>6, <2>1 DEF Knows, OwnBoxes
<1>9. K.tasks' = "none" \/ TasksDue(A, server[A])' = {}
  <2>1. K.tasks = "none" \/ TasksDue(A, server[A]) = {}
    BY <1>1, NextTasksAre
  <2> QED
    BY <1>1, <1>6, <2>1 DEF TasksDue
<1>10. KnownInv'
  BY <1>1, <1>6, <1>7, <1>8, <1>9 DEF KnownInv, DrainInv, LearntInv
<1> QED
  BY <1>2, <1>3, <1>5, <1>10, ClaimIsGood

LEMMA RereadWell ==
    ASSUME AtClaim, Reread
    PROVE  Good'
<1>1. /\ Typed /\ CacheInv /\ pc = "reread" /\ Visiting /\ faults' = {} /\ UNCHANGED server
      /\ Knows /\ K.boxes # "drain" /\ stage = "run"
      /\ K.tasks = "none" \/ TasksDue(A, server[A]) = {}
  BY DEF AtClaim, Good, Reread, KnownInv, LearntInv, Visiting
<1>2. /\ pc' = "boxes" /\ OnlyHere
      /\ UNCHANGED <<batch, link, kinds, todo, part, answered, before, claims>>
      /\ info' = server[A] \/ (info' = info /\ ~Rereads)
  <2>1. CASE Rereads
    <3>1. PICK o \in Turns :
             /\ Info(Without(replies, A), A, o, {})
             /\ LET r == Answer(Without(replies, A), A, o, {})
                IN /\ batch' = batch \cup ErrorOf(r.res)
                   /\ IF r.res = "none"
                      THEN /\ info' = r.event
                           /\ pc' = "boxes"
                           /\ UNCHANGED <<kinds, todo, part, answered, before, claims>>
                      ELSE LeaveVisit
      BY <2>1 DEF Reread
    <3> DEFINE r == Answer(Without(replies, A), A, o, {})
    <3>2. UNCHANGED link /\ OnlyHere /\ r.res = "none" /\ r.event = server[A]
      BY <1>1, <3>1, ReadsWell
    <3> HIDE DEF r
    <3>3. ErrorOf("none") = {}
      BY DEF ErrorOf, Failures
    <3>4. batch' = batch \cup ErrorOf(r.res) /\ (r.res = "none" =>
             info' = r.event /\ pc' = "boxes" /\ UNCHANGED <<kinds, todo, part, answered, before, claims>>)
      BY <3>1 DEF r
    <3> QED
      BY <3>2, <3>3, <3>4
  <2>2. CASE ~Rereads
    <3>1. pc' = "boxes" /\ UNCHANGED <<batch, replies, link, kinds, todo, part, info, answered, before, claims>>
      BY <2>2 DEF Reread, Goto, Stay, NoSend, visitVars
    <3>2. OnlyHere
      BY <1>1, <3>1 DEF OnlyHere, CacheInv
    <3> QED
      BY <2>2, <3>1, <3>2
  <2> QED
    BY <2>1, <2>2
<1>3. StaysPut /\ ReadsNot /\ Moves /\ LeavesSettled
  BY <1>1, <1>2 DEF StaysPut, ReadsNot, Moves, LeavesSettled, NextEvent, NextKind, Visiting
<1>4. Typed'
  BY <1>1, <1>2, TypedKeeps DEF Typed
<1>5. CacheInv' /\ SettledInv'
  BY <1>1, <1>2, <1>3, CacheRead, SettledRead DEF OnlyHere
<1>6. UNCHANGED <<A, K, now>> /\ server[A]' = server[A] /\ Head(kinds') = Head(kinds)
  BY <1>1, <1>2 DEF A, K, AtClaim
<1>7. BossInv'
  <2>1. \A a : BoxesDue(a, server[a])' = BoxesDue(a, server[a])
    BY <1>1 DEF BoxesDue
  <2> QED
    BY <1>3, <2>1, BossKeeps
<1>8. Knows'
  <2>1. Events(A)' = Events(A)
    BY <1>6 DEF Events
  <2>2. CASE info' = server[A]
    <3>1. server[A] \in Events(A)
      BY <1>1, VisitIs
    <3> QED
      BY <1>6, <2>1, <2>2, <3>1 DEF Knows, OwnBoxes
  <2>3. CASE info' = info /\ ~Rereads
    BY <1>1, <1>2, <1>6, <2>1, <2>3 DEF Knows, OwnBoxes, Rereads
  <2> QED
    BY <1>2, <2>2, <2>3
<1>9. K.tasks' = "none" \/ TasksDue(A, server[A])' = {}
  BY <1>1, <1>6 DEF TasksDue
<1>10. KnownInv'
  BY <1>1, <1>2, <1>6, <1>7, <1>8, <1>9 DEF KnownInv, DrainInv, LearntInv
<1> QED
  BY <1>3, <1>4, <1>5, <1>10, ClaimIsGood

\* The boxes that are due are the ones the server has due.
LEMMA NextBoxesAre ==
    ASSUME AtClaim, pc = "boxes"
    PROVE  /\ K.boxes # "none" => /\ info.score = server[A].score
                                  /\ InPart(BoxesDue(A, info)) = InPart(BoxesDue(A, server[A]))
           /\ NextBoxes \in SUBSET Nat
           /\ NextBoxes # {} => /\ K.boxes # "none" /\ Granted(NextBoxes) = NextBoxes
                                /\ NextBoxes \subseteq InPart(BoxesDue(A, server[A]))
           /\ NextBoxes = {} => K.boxes = "none" \/ InPart(BoxesDue(A, server[A])) = {}
<1>1. Visiting /\ Knows
  BY DEF AtClaim, Good, KnownInv, LearntInv, Visiting
<1>2. /\ A \in Activities /\ info \in Events(A) /\ server[A] \in Events(A)
      /\ OwnBoxes(Head(kinds), info.got) = OwnBoxes(Head(kinds), server[A].got)
      /\ K.boxes # "none" => info.score = server[A].score
  BY <1>1, VisitIs DEF Knows
<1> DEFINE due == InPart(BoxesDue(A, info))
<1>3. K.boxes # "none" => due = InPart(BoxesDue(A, server[A]))
  <2>1. SUFFICES ASSUME K.boxes # "none"
                 PROVE  due = InPart(BoxesDue(A, server[A]))
    OBVIOUS
  <2>2. OwnBoxes(Head(kinds), BoxesDue(A, info)) = OwnBoxes(Head(kinds), BoxesDue(A, server[A]))
    BY <1>2, <2>1, OwnBoxesDue
  <2>3. Head(kinds) = "crystal_boss" => BoxesDue(A, info) = BoxesDue(A, server[A])
    <3>1. \A bs : OwnBoxes("crystal_boss", bs) = bs
      BY OwnAre
    <3> QED
      BY <2>2, <3>1
  <2> QED
    BY <2>2, <2>3 DEF InPart
<1>4. due \in SUBSET Nat
  <2>1. BoxesDue(A, info) \in SUBSET Nat
    BY <1>2, BoxesAre
  <2> QED
    BY <2>1, OwnAre DEF InPart
<1>5. due # {} => Min(due) \in due
  BY <1>4, LeastIs
<1>6. NextBoxes = IF K.boxes = "none" \/ due = {} THEN {} ELSE IF K.boxes = "all" THEN due ELSE {Min(due)}
  BY DEF NextBoxes
<1> HIDE DEF due
<1>7. NextBoxes \subseteq due
  BY <1>5, <1>6
<1>8. Granted(NextBoxes) = IF K.boxes = "all" THEN InPart(BoxesDue(A, server[A])) ELSE NextBoxes
  BY DEF Granted
<1> QED
  BY <1>2, <1>3, <1>4, <1>5, <1>6, <1>7, <1>8 DEF due

LEMMA ClaimBoxesWell ==
    ASSUME AtClaim, ClaimBoxes
    PROVE  Good'
<1>1. /\ Typed /\ faults' = {} /\ pc = "boxes" /\ Visiting /\ NextBoxes # {} /\ UNCHANGED replies /\ stage = "run"
      /\ Knows /\ K.boxes # "drain"
      /\ K.tasks = "none" \/ TasksDue(A, server[A]) = {}
  BY DEF AtClaim, Good, ClaimBoxes, KnownInv, LearntInv, Visiting
<1> DEFINE B == NextBoxes
           s == server[A]
           e == BoxesOpened(server[A], B)
<1>2. /\ K.boxes # "none" /\ Granted(B) = B /\ B \in SUBSET Nat /\ info.score = s.score
      /\ B \subseteq InPart(BoxesDue(A, s))
  BY <1>1, NextBoxesAre
<1>3. /\ Accepts(e) /\ info' = BoxesOpened(info, B)
      /\ UNCHANGED <<link, batch, pc, kinds, todo, part, answered, before, claims>>
  <2>1. PICK o \in Outcomes :
           /\ Send("claim", o)
           /\ batch' = batch \cup ErrorOf(o)
           /\ o = "none" =>
                 /\ Accepts(BoxesOpened(server[A], Granted(NextBoxes)))
                 /\ info' = BoxesOpened(info, NextBoxes)
                 /\ UNCHANGED <<pc, kinds, todo, part, answered, before, claims>>
    BY DEF ClaimBoxes
  <2>2. o = "none" /\ ErrorOf(o) = {} /\ UNCHANGED link
    BY <1>1, <2>1, SendsWell
  <2> QED
    BY <1>2, <2>1, <2>2
<1>4. StaysPut /\ ReadsNot
  BY <1>1, <1>3 DEF StaysPut, ReadsNot, Visiting
<1>5. /\ A \in Activities /\ s \in Events(A) /\ info \in Events(A) /\ info.task = s.task
      /\ OwnBoxes(Head(kinds), info.got) = OwnBoxes(Head(kinds), s.got)
      /\ Coherent(Head(kinds), K)
  BY <1>1, VisitIs DEF Knows
<1>6. /\ e \in Events(A) /\ e.task = s.task /\ e.score = s.score /\ e.drained = s.drained /\ e.got = s.got \cup B
  BY <1>2, <1>5, BoxesOpenedIs
<1>7. /\ info' \in Events(A) /\ info'.task = info.task /\ info'.score = info.score /\ info'.got = info.got \cup B
  BY <1>2, <1>3, <1>5, BoxesOpenedIs
<1>8. UNCHANGED <<A, K, now>> /\ Head(kinds') = Head(kinds) /\ server[A]' = e
  BY <1>3, <1>4, AcceptsIs DEF AtClaim
<1> HIDE DEF B, e, s
<1>9. Knows'
  <2>1. Events(A)' = Events(A)
    BY <1>8 DEF Events
  <2>2. OwnBoxes(Head(kinds), info'.got) = OwnBoxes(Head(kinds), e.got)
    <3>1. \A bs : OwnBoxes(Head(kinds), bs \cup B) = OwnBoxes(Head(kinds), bs) \cup OwnBoxes(Head(kinds), B)
      BY OwnAre
    <3> QED
      BY <1>5, <1>6, <1>7, <3>1
  <2>3. info'.task = e.task /\ info'.score = e.score
    BY <1>2, <1>5, <1>6, <1>7
  <2> QED
    BY <1>7, <1>8, <2>1, <2>2, <2>3 DEF Knows, OwnBoxes
<1>10. BossInv'
  <2>1. ASSUME NEW a, a = A
        PROVE  BoxesDue(a, server[a])' \subseteq BoxesDue(a, server[a])
    <3>1. BoxesDue(A, e) \subseteq BoxesDue(A, s)
      BY <1>5, <1>6, BoxesAre
    <3>2. server'[a] = e /\ server[a] = s
      BY <1>8, <2>1 DEF s
    <3>3. BoxesDue(a, server[a])' = BoxesDue(a, e)
      BY <3>2 DEF BoxesDue
    <3> QED
      BY <2>1, <3>1, <3>2, <3>3
  <2> QED
    BY <1>4, <2>1, BossKeeps
<1>11. TasksDue(A, server[A])' = TasksDue(A, server[A])
  BY <1>6, <1>8 DEF TasksDue, s
<1>12. KnownInv'
  BY <1>1, <1>3, <1>8, <1>9, <1>10, <1>11 DEF KnownInv, DrainInv, LearntInv
<1>13. ASSUME NEW k, {k, Head(kinds)} = {"week_cards", "week_gift"}
       PROVE  OwnBoxes(k, e.got) = OwnBoxes(k, s.got)
  <2>1. Head(kinds) # "crystal_boss"
    BY <1>13
  <2> DEFINE due == BoxesDue(A, s)
  <2>2. B \subseteq OwnBoxes(Head(kinds), due)
    BY <1>2, <2>1 DEF InPart
  <2> HIDE DEF due
  <2>3. OwnBoxes(k, OwnBoxes(Head(kinds), due)) = {}
    BY <1>13, OwnAre
  <2>4. OwnBoxes(k, B) = {}
    BY <2>2, <2>3 DEF OwnBoxes
  <2>5. OwnBoxes(k, e.got) = OwnBoxes(k, s.got) \cup OwnBoxes(k, B)
    BY <1>6, OwnAre
  <2> QED
    BY <2>4, <2>5
<1>14. claims' \in Nat /\ before' \in Int /\ answered' \in BOOLEAN
  BY <1>1, <1>3 DEF Typed
<1>15. s = server[A] /\ s.got \subseteq e.got
  BY <1>6 DEF s
<1>16. \A k : {k, Head(kinds)} = {"week_cards", "week_gift"} => OwnBoxes(k, e.got) = OwnBoxes(k, s.got)
  BY <1>13
<1>17. UNCHANGED <<replies, link, batch>>
  BY <1>1, <1>3
<1> QED
  BY <1>3, <1>4, <1>6, <1>12, <1>14, <1>15, <1>16, <1>17, ClaimWell

LEMMA BoxesDoneWell ==
    ASSUME AtClaim, BoxesDone
    PROVE  Good'
<1>1. /\ Typed /\ CacheInv /\ BossInv /\ pc = "boxes" /\ Visiting /\ NextBoxes = {} /\ stage = "run"
      /\ UNCHANGED <<link, server, replies, batch, now>> /\ LeaveVisit /\ ~Loss(batch')
      /\ K.boxes # "drain"
      /\ K.tasks = "none" \/ TasksDue(A, server[A]) = {}
  BY DEF AtClaim, Good, AtWork, BoxesDone, NoSend, KnownInv, LearntInv, Visiting
<1>2. Leaves
  BY <1>1, LeaveIs
<1>3. OnlyHere
  BY <1>1 DEF OnlyHere, CacheInv
<1>4. K.boxes = "none" \/ InPart(BoxesDue(A, server[A])) = {}
  BY <1>1, NextBoxesAre
<1>5. A \in Activities /\ server[A] \in Events(A) /\ Head(kinds) \in Fact(A).kinds /\ Coherent(Head(kinds), K)
  BY <1>1, VisitIs
<1>6. ASSUME NextEvent \/ NextKind, Offers(Head(kinds), A), K.boxes # "none"
      PROVE  OwnBoxes(Head(kinds), BoxesDue(A, server[A])) = {}
  <2> DEFINE due == BoxesDue(A, server[A])
  <2>1. CASE Head(kinds) # "crystal_boss"
    BY <1>4, <1>6, <2>1 DEF InPart
  <2>2. CASE Head(kinds) = "crystal_boss"
    <3>1. part \in 1 .. 3 /\ ~(part < 3)
      BY <1>1, <1>6, <2>2 DEF NextEvent, NextKind, LeavesKind, Typed
    <3>2. part = 3
      BY <3>1
    <3>3. 3 \notin due
      BY <1>4, <1>6, <2>2, <3>2 DEF InPart
    <3>4. 1 \notin due /\ 2 \notin due
      <4>1. 1 \in 1 .. 3 - 1 /\ 2 \in 1 .. 3 - 1
        OBVIOUS
      <4> QED
        BY <1>1, <1>6, <2>2, <3>2, <4>1 DEF BossInv
    <3>5. due \subseteq 1 .. 3
      <4>1. due \subseteq 1 .. Len(Fact(A).boxes)
        BY <1>5, BoxesAre
      <4>2. Len(Fact(A).boxes) <= 3 /\ Len(Fact(A).boxes) \in Nat
        BY <1>5, <2>2, EntriesAssumption, SweepAssumption DEF Fact
      <4> HIDE DEF due
      <4> QED
        BY <4>1, <4>2
    <3> HIDE DEF due
    <3>6. due = {}
      BY <3>3, <3>4, <3>5
    <3>7. OwnBoxes(Head(kinds), due) \subseteq due
      BY OwnAre
    <3> QED
      BY <3>6, <3>7 DEF due
  <2> QED
    BY <2>1, <2>2
<1>7. ASSUME NEW k, NEW a, NextEvent \/ NextKind, k = Head(kinds), a = A
      PROVE  Settled(k, a)'
  <2>1. Offers(k, a)' <=> Offers(Head(kinds), A)
    BY <1>1, <1>7 DEF Offers
  <2>2. Due(k, a)' <=> Due(Head(kinds), A)
    BY <1>1, <1>7 DEF Due, LeftOver, TasksDue, BoxesDue, OwnBoxes
  <2>3. Offers(Head(kinds), A) => ~Due(Head(kinds), A)
    BY <1>1, <1>6, <1>7 DEF Due, K
  <2> QED
    BY <2>1, <2>2, <2>3 DEF Settled
<1>8. LeavesSettled
  BY <1>7 DEF LeavesSettled
<1>9. BossPart => \A a : a = A /\ Offers("crystal_boss", a) => part \notin BoxesDue(a, server[a])
  <2>1. BossPart => Head(kinds) = "crystal_boss" /\ K.boxes # "none"
    BY <1>5 DEF BossPart, Coherent
  <2> QED
    BY <1>4, <2>1 DEF InPart
<1> QED
  BY <1>1, <1>2, <1>3, <1>8, <1>9, LeavesWell

\* What is left over is less for what was taken.
LEMMA LeftOverIs ==
    ASSUME NEW a \in Activities, NEW e \in Events(a), NEW f \in Events(a), f.score = e.score, f.drained = e.drained + 1
    PROVE  /\ LeftOver(a, e) \in Int
           /\ LeftOver(a, e) > 0 => LeftOver(a, f) < LeftOver(a, e)
<1>1. Len(Fact(a).boxes) \in Nat
  BY SweepAssumption DEF Fact
<1>2. e.score \in Nat /\ e.drained \in Nat
  BY DEF Events
<1>3. CASE e.score > Len(Fact(a).boxes)
  BY <1>1, <1>2, <1>3 DEF LeftOver
<1>4. CASE ~(e.score > Len(Fact(a).boxes))
  BY <1>4 DEF LeftOver
<1> QED
  BY <1>3, <1>4

LEMMA ClaimOverflowWell ==
    ASSUME AtClaim, ClaimOverflow
    PROVE  Good'
<1>1. /\ Typed /\ faults' = {} /\ pc = "drain" /\ Visiting /\ UNCHANGED replies /\ stage = "run"
      /\ info = server[A] /\ K.boxes = "drain" /\ DrainInv /\ Drains(LeftOver(A, info))
  BY DEF AtClaim, Good, ClaimOverflow, KnownInv, LearntInv, Visiting
<1>2. A \in Activities /\ server[A] \in Events(A) /\ Coherent(Head(kinds), K)
  BY <1>1, VisitIs
<1> DEFINE s == server[A]
           e == [server[A] EXCEPT !.drained = @ + 1]
<1>3. /\ Accepts(e) /\ pc' = "read" /\ before' = LeftOver(A, s) /\ claims' = claims + 1
      /\ UNCHANGED <<link, batch, kinds, todo, part, answered>>
  <2>1. ~(faults' = faults \cup {<<"claim", "ignored">>})
    BY <1>1
  <2>2. PICK o \in Outcomes :
           /\ Send("claim", o)
           /\ batch' = batch \cup ErrorOf(o)
           /\ o = "none" =>
                 /\ Accepts(e)
                 /\ pc' = "read" /\ before' = LeftOver(A, info) /\ claims' = claims + 1
                 /\ UNCHANGED <<kinds, todo, part, info, answered>>
    BY <2>1 DEF ClaimOverflow
  <2>3. o = "none" /\ ErrorOf(o) = {} /\ UNCHANGED link
    BY <1>1, <2>2, SendsWell
  <2> QED
    BY <1>1, <2>2, <2>3
<1>4. StaysPut
  BY <1>1, <1>3 DEF StaysPut, Visiting
<1>5. K.read = "fresh" /\ Head(kinds) = "overflow"
  BY <1>1, <1>2 DEF Coherent
<1>6. ReadsNot
  BY <1>5 DEF ReadsNot
<1>7. /\ e \in Events(A) /\ e.task = s.task /\ e.got = s.got /\ e.score = s.score /\ e.drained = s.drained + 1
  BY <1>2, DrainedIs
<1>8. UNCHANGED <<A, K>> /\ Head(kinds') = Head(kinds) /\ server[A]' = e
  BY <1>3, <1>4, AcceptsIs
<1>9. s \in Events(A) /\ s = server[A]
  BY <1>2
<1> HIDE DEF e, s
<1>10. LeftOver(A, s) \in Int /\ LeftOver(A, e) < LeftOver(A, s)
  BY <1>1, <1>2, <1>7, <1>9, LeftOverIs DEF Drains
<1>11. claims \in Nat /\ s.drained \in Nat /\ claims <= s.drained
  BY <1>1, <1>9 DEF Typed, Events, DrainInv
<1>12. DrainInv'
  <2>1. LeftOver(A, server[A])' = LeftOver(A, e)
    BY <1>8 DEF LeftOver
  <2>2. claims' <= e.drained
    BY <1>3, <1>7, <1>11
  <2>3. LeftOver(A, e) < before'
    BY <1>3, <1>10
  <2> QED
    BY <1>8, <2>1, <2>2, <2>3 DEF DrainInv
<1>13. BossInv' /\ LearntInv'
  BY <1>3, <1>5, <1>8 DEF BossInv, LearntInv
<1>14. KnownInv'
  BY <1>12, <1>13 DEF KnownInv
<1>15. claims' \in Nat /\ before' \in Int /\ answered' \in BOOLEAN
  BY <1>1, <1>3, <1>10, <1>11 DEF Typed
<1>16. \A k : OwnBoxes(k, e.got) = OwnBoxes(k, s.got)
  BY <1>7
<1>17. UNCHANGED <<replies, link, batch>>
  BY <1>1, <1>3
<1> QED
  BY <1>1, <1>3, <1>4, <1>6, <1>7, <1>9, <1>14, <1>15, <1>16, <1>17, ClaimWell

LEMMA OverflowDoneWell ==
    ASSUME AtClaim, OverflowDone
    PROVE  Good'
<1>1. /\ Typed /\ CacheInv /\ DrainInv /\ pc = "drain" /\ Visiting /\ stage = "run"
      /\ UNCHANGED <<link, server, replies, batch, now>> /\ LeaveVisit /\ ~Loss(batch')
      /\ info = server[A] /\ K.boxes = "drain" /\ ~Drains(LeftOver(A, info))
  BY DEF AtClaim, Good, AtWork, OverflowDone, NoSend, KnownInv, LearntInv, Visiting
<1>2. Leaves
  BY <1>1, LeaveIs
<1>3. OnlyHere
  BY <1>1 DEF OnlyHere, CacheInv
<1>4. A \in Activities /\ server[A] \in Events(A) /\ Coherent(Head(kinds), K)
  BY <1>1, VisitIs
<1>5. ~(LeftOver(A, server[A]) > 0 /\ server[A].drained < OverflowMax)
  <2>1. claims <= server[A].drained /\ (before < 0 \/ LeftOver(A, server[A]) < before)
    BY <1>1 DEF DrainInv
  <2>2. claims \in Nat /\ server[A].drained \in Nat /\ OverflowMax \in Nat
    BY <1>1, <1>4, EntriesAssumption DEF Typed, Events
  <2>3. ~(LeftOver(A, server[A]) > 0) \/ ~(claims < OverflowMax)
    BY <1>1, <2>1 DEF Drains
  <2> QED
    BY <2>1, <2>2, <2>3
<1>6. ASSUME NEW k, NEW a, NextEvent \/ NextKind, k = Head(kinds), a = A
      PROVE  Settled(k, a)'
  <2>1. Due(k, a)' <=> Due(Head(kinds), A)
    BY <1>1, <1>6 DEF Due, LeftOver, TasksDue, BoxesDue, OwnBoxes
  <2>2. ~Due(Head(kinds), A)
    BY <1>1, <1>5 DEF Due, K
  <2> QED
    BY <2>1, <2>2 DEF Settled
<1>7. LeavesSettled
  BY <1>6 DEF LeavesSettled
<1>8. ~BossPart
  BY <1>1, <1>4 DEF BossPart, Coherent
<1> QED
  BY <1>1, <1>2, <1>3, <1>7, <1>8, LeavesWell

LEMMA ClaimsWell ==
    ASSUME AtClaim, Claims
    PROVE  Good'
<1>1. Read => pc = "read"
  BY DEF Read
<1> QED
  BY <1>1, TakeKindWell, ReadWell, ClaimTasksWell, TasksDoneWell, RereadWell, ClaimBoxesWell, BoxesDoneWell,
     ClaimOverflowWell, OverflowDoneWell DEF Claims

-----------------------------------------------------------------------------
(* The steps of a run, from one feature to the next, in a run without a      *)
(* fault.                                                                   *)

Idles == stage # "run" /\ stage' # "run" /\ pos' \in {pos, pos + 1} /\ UnchangedClaims

Begins == stage # "run" /\ pos <= Len(order) /\ Begin(order[pos])

Ends == stage = "run" /\ pc = "end" /\ pos' = pos + 1 /\ stage' # "run" /\ pc' = "idle" /\ UNCHANGED visitVars

RunStep ==
    /\ Good /\ IInv
    /\ faults' = {} /\ command.only = "all"
    /\ UNCHANGED <<listed, config, command, order>>
    /\ Idles \/ Begins \/ Ends

LEMMA StepIs ==
    ASSUME RunStep
    PROVE  /\ pos \in Nat /\ pos > 0 /\ Len(order) \in Nat /\ DOMAIN order = 1 .. Len(order)
           /\ \A i : Concluding(i)' <=> Concluding(i)
           /\ Begins => pos \in DOMAIN order
           /\ stage # "run" => pc = "idle" /\ kinds = <<>> /\ batch = {}
           /\ Ends => kinds = <<>>
<1>1. Good /\ IInv /\ UNCHANGED <<config, order>>
  BY DEF RunStep
<1>2. pos \in Nat /\ pos > 0 /\ order \in Seq(FeatureNames)
  BY <1>1 DEF Good, Typed, OrderInv
<1>3. \A i : Concluding(i)' <=> Concluding(i)
  BY <1>1 DEF Concluding, Holds, CleanPolicy
<1>4. Begins => pos \in DOMAIN order
  BY <1>2 DEF Begins
<1>5. (stage # "run" => pc = "idle" /\ kinds = <<>> /\ batch = {}) /\ (Ends => kinds = <<>>)
  BY <1>1 DEF Good, PlaceInv, IInv, ShapeInv, Ends
<1> QED
  BY <1>2, <1>3, <1>4, <1>5

\* How a feature begins.
LEMMA BeginIs ==
    ASSUME RunStep, Begins
    PROVE  /\ pos \in DOMAIN order /\ stage' = "run" /\ UNCHANGED <<pos, errs>>
           /\ \/ Kinds(order[pos]) = {} /\ pc' = "request" /\ kinds' = <<>> /\ UNCHANGED visitVars
              \/ /\ Kinds(order[pos]) # {} /\ pc' = "kind" /\ kinds' = FeatureFacts[order[pos]].kinds
                 /\ part' = 1 /\ answered' = FALSE /\ before' = -1 /\ claims' = 0
<1>1. pos \in DOMAIN order /\ kinds = <<>> /\ OrderInv
  BY StepIs DEF Begins, RunStep, Good
<1>2. FeatureFacts[order[pos]].kinds = <<>> <=> Kinds(order[pos]) = {}
  BY <1>1, FeatureIs
<1> QED
  BY <1>1, <1>2 DEF Begins, Begin, BeginClaims, ClearVisit, visitVars

LEMMA StepPending ==
    ASSUME RunStep, NEW k, NEW a, Pending(k, a)'
    PROVE  Pending(k, a)
<1>1. /\ pos \in Nat /\ DOMAIN order = 1 .. Len(order) /\ Len(order) \in Nat /\ OrderInv /\ UNCHANGED order
  BY StepIs DEF RunStep, Good
<1>2. k \in DOMAIN KindFacts /\ KindFacts[k].read \in {"sweep", "once"}
  BY DEF Pending
<1>3. SUFFICES ToCome(k)
  BY <1>2 DEF Pending
<1>4. CASE ToCome(k)'
  <2>1. PICK i \in DOMAIN order : k \in Kinds(order[i]) /\ (i > pos' \/ (i = pos' /\ stage' # "run"))
    BY <1>1, <1>4 DEF ToCome
  <2>2. i > pos \/ (i = pos /\ stage # "run")
    <3>1. CASE Idles
      BY <1>1, <2>1, <3>1 DEF Idles
    <3>2. CASE Begins
      BY <2>1, <3>2, BeginIs
    <3>3. CASE Ends
      BY <1>1, <2>1, <3>3 DEF Ends
    <3> QED
      BY <3>1, <3>2, <3>3 DEF RunStep
  <2> QED
    BY <2>1, <2>2 DEF ToCome
<1>5. CASE ~ToCome(k)'
  <2>1. stage' = "run" /\ kinds' # <<>> /\ (k \in ToSet(Tail(kinds')) \/ k = Head(kinds'))
    BY <1>5 DEF Pending
  <2>2. Begins
    BY <2>1 DEF RunStep, Idles, Ends
  <2>3. pos \in DOMAIN order /\ kinds' = FeatureFacts[order[pos]].kinds
    BY <2>1, <2>2, BeginIs
  <2>4. kinds' \in Seq(Kinds(order[pos])) /\ IsInjective(kinds')
    BY <1>1, <2>3, FeatureIs
  <2>5. k \in ToSet(kinds') /\ ToSet(kinds') \subseteq Kinds(order[pos])
    BY <2>1, <2>4, TailIs, ListIs
  <2> QED
    BY <2>2, <2>3, <2>5 DEF ToCome, Begins
<1> QED
  BY <1>4, <1>5

\* Between two features a reply is added about the duel only, or all are
\* forgotten.
LEMMA StepCache ==
    ASSUME RunStep, UNCHANGED server, DOMAIN replies' \subseteq ToSet(listed),
           \A b \in DOMAIN replies' : \/ b \in DOMAIN replies /\ replies'[b] = replies[b]
                                      \/ b = DuelEntry /\ replies'[b].res = "none" /\ replies'[b].event = server[b],
           ranEarlier /\ ~ranEarlier' => DOMAIN replies' = {}
    PROVE  CacheInv'
<1>1. CacheInv /\ Typed /\ UNCHANGED listed /\ listed \in Seq(Activities)
  BY DEF RunStep, Good, IInv, ShapeInv
<1>2. ASSUME NEW a \in DOMAIN replies'
      PROVE  /\ replies'[a].res = "none" /\ replies'[a].event \in Events(a)
             /\ a # DuelEntry => replies'[a].days = {}
  BY <1>1 DEF CacheInv, Typed
<1>3. ASSUME NEW a \in DOMAIN replies', NEW k \in Fact(a).kinds, Pending(k, a)'
      PROVE  Serves(k, a)'
  <2>1. Pending(k, a)
    BY <1>3, StepPending
  <2>2. CASE a \in DOMAIN replies /\ replies'[a] = replies[a]
    <3>1. Serves(k, a)
      BY <1>1, <2>1, <2>2 DEF CacheInv
    <3>2. ~ranEarlier' => ~ranEarlier
      BY <1>3
    <3> QED
      BY <2>2, <3>1, <3>2 DEF Serves, Same
  <2>3. CASE a = DuelEntry /\ replies'[a].event = server[a]
    <3>1. a \in Activities
      BY <1>1, ListIs
    <3>2. k = "duel_chests"
      BY <1>3, <2>3, <3>1, EntriesAssumption
    <3>3. KindFacts[k].read = "sweep"
      BY <3>2, DuelKind, KindIs DEF Coherent
    <3> QED
      BY <2>3, <3>3 DEF Serves
  <2> QED
    BY <1>3, <2>2, <2>3
<1> QED
  BY <1>1, <1>2, <1>3 DEF CacheInv, Events

\* No kind is taken by such a step; but the duel's chests may be offered when
\* the duel's day is read.
LEMMA StepSettled ==
    ASSUME RunStep, UNCHANGED server,
           now' = now \/ claimsFrom' # now',
           claimsFrom' = claimsFrom \/ claimsFrom = -1,
           stage # "run" /\ pos' # pos => ~Concluding(pos),
           \/ \A b \in DOMAIN replies' : b \in DOMAIN replies /\ replies'[b] = replies[b]
           \/ ~Taken("duel_chests")
    PROVE  SettledInv'
<1>1. /\ pos \in Nat /\ DOMAIN order = 1 .. Len(order) /\ Len(order) \in Nat /\ OrderInv /\ UNCHANGED order
      /\ FromInv /\ SettledInv /\ RunInv /\ UNCHANGED listed
      /\ \A i : Concluding(i)' <=> Concluding(i)
  BY StepIs DEF RunStep, Good
<1>2. ASSUME NEW k, Taken(k)'
      PROVE  Taken(k) /\ now' = now
  <2>1. ~(stage' = "run" /\ pc' \in ClaimSteps /\ k \in Kinds(order[pos']) \ ToSet(kinds'))
    <3>1. SUFFICES ASSUME stage' = "run"
                   PROVE  k \in Kinds(order[pos']) => pc' = "request" \/ k \in ToSet(kinds')
      BY DEF ClaimSteps
    <3>2. Begins
      BY <3>1 DEF RunStep, Idles, Ends
    <3> QED
      BY <3>2, BeginIs DEF Kinds
  <2>2. claimsFrom' = now' /\ \E i \in DOMAIN order : i < pos' /\ Concluding(i) /\ k \in Kinds(order[i])
    BY <1>1, <1>2, <2>1 DEF Taken
  <2>3. now' = now
    BY <2>2
  <2>4. PICK i \in DOMAIN order : i < pos' /\ Concluding(i) /\ k \in Kinds(order[i])
    BY <2>2
  <2>5. i < pos \/ (stage = "run" /\ pc = "end" /\ i = pos /\ kinds = <<>>)
    <3>1. CASE Idles
      <4>1. i \in Nat /\ (pos' = pos \/ pos' = pos + 1)
        BY <1>1, <3>1 DEF Idles
      <4>2. pos' # pos => i # pos
        BY <2>4, <3>1 DEF Idles
      <4> QED
        BY <1>1, <2>4, <4>1, <4>2
    <3>2. CASE Begins
      BY <2>4, <3>2, BeginIs
    <3>3. CASE Ends
      <4>1. kinds = <<>> /\ i \in Nat /\ pos' = pos + 1 /\ stage = "run" /\ pc = "end"
        BY <1>1, <3>3, StepIs DEF Ends
      <4>2. i < pos \/ i = pos
        BY <1>1, <2>4, <4>1
      <4> QED
        BY <4>1, <4>2
    <3> QED
      BY <3>1, <3>2, <3>3 DEF RunStep
  <2>6. claimsFrom # -1
    BY <1>1, <2>4, <2>5 DEF FromInv
  <2>7. CASE i < pos
    BY <2>2, <2>3, <2>4, <2>6, <2>7 DEF Taken
  <2>8. CASE stage = "run" /\ pc = "end" /\ i = pos /\ kinds = <<>>
    <3>1. k \in Kinds(order[pos]) /\ pc \in ClaimSteps
      BY <2>4, <2>8 DEF ClaimSteps
    <3>2. k \notin ToSet(kinds)
      BY <2>8 DEF ToSet
    <3> QED
      BY <2>3, <2>8, <3>1, <3>2 DEF Taken
  <2> QED
    BY <2>3, <2>5, <2>7, <2>8
<1>3. \A k, a : ~Visited(k, a)'
  <2>1. ~(stage' = "run" /\ Visiting')
    <3>1. Begins => ~Visiting'
      BY BeginIs DEF Visiting
    <3> QED
      BY <3>1 DEF RunStep, Idles, Ends
  <2> QED
    BY <2>1 DEF Visited
<1>4. ASSUME NEW k \in DOMAIN KindFacts, NEW a \in ToSet(Visits(k))', Taken(k)'
      PROVE  Settled(k, a)'
  <2>1. Taken(k) /\ now' = now
    BY <1>2, <1>4
  <2>2. a \in ToSet(Visits(k))
    BY <1>1, <1>4, <2>1, VisitsStay
  <2>3. Settled(k, a)
    BY <1>1, <2>1, <2>2 DEF SettledInv
  <2>4. Offers(k, a)' => Offers(k, a)
    BY <2>1 DEF Offers
  <2>5. server'[a] = server[a]
    OBVIOUS
  <2> QED
    BY <2>1, <2>3, <2>4, <2>5, SettledStays
<1> QED
  BY <1>3, <1>4 DEF SettledInv

LEMMA StepFrom ==
    ASSUME RunStep, now' \in {now, now + 1},
           \/ /\ claimsFrom' = claimsFrom
              /\ stage # "run" /\ (pos' # pos \/ stage' = "run") => ~Concluding(pos) \/ claimsFrom # -1
           \/ Begins /\ claimsFrom = -1 /\ claimsFrom' = now /\ now' = now /\ Concluding(pos)
    PROVE  FromInv'
<1>1. /\ pos \in Nat /\ DOMAIN order = 1 .. Len(order) /\ Len(order) \in Nat /\ OrderInv /\ UNCHANGED order
      /\ FromInv /\ now \in Nat
      /\ \A i : Concluding(i)' <=> Concluding(i)
  BY StepIs DEF RunStep, Good, Typed
<1>2. \/ Idles /\ (pos' = pos \/ pos' = pos + 1) /\ stage' # "run"
      \/ Begins /\ pos' = pos /\ stage' = "run"
      \/ Ends /\ pos' = pos + 1 /\ stage' # "run"
  BY BeginIs DEF RunStep, Idles, Ends
<1>3. \A i \in DOMAIN order : i \in Nat
  BY <1>1
<1>4. CASE /\ claimsFrom' = claimsFrom
           /\ stage # "run" /\ (pos' # pos \/ stage' = "run") => ~Concluding(pos) \/ claimsFrom # -1
  <2>1. claimsFrom' = -1 \/ (claimsFrom' \in Nat /\ claimsFrom' <= now')
    BY <1>1, <1>4 DEF FromInv
  <2>2. ASSUME claimsFrom' = -1, NEW i \in DOMAIN order, i < pos' \/ (i = pos' /\ stage' = "run")
        PROVE  ~Concluding(i)
    <3>1. i < pos \/ i = pos
      BY <1>1, <1>2, <1>3, <2>2
    <3>2. CASE i < pos
      BY <1>1, <1>4, <2>2, <3>2 DEF FromInv
    <3>3. CASE i = pos /\ stage = "run"
      BY <1>1, <1>4, <2>2, <3>3 DEF FromInv
    <3>4. CASE i = pos /\ stage # "run"
      <4>1. pos' # pos \/ stage' = "run"
        BY <1>1, <2>2, <3>4
      <4> QED
        BY <1>4, <2>2, <3>4, <4>1
    <3> QED
      BY <3>1, <3>2, <3>3, <3>4
  <2>3. ASSUME claimsFrom' # -1, NEW i \in DOMAIN order, i >= pos'
        PROVE  Kinds(order[i]) # {}
    <3>1. i >= pos
      BY <1>1, <1>2, <1>3, <2>3
    <3> QED
      BY <1>1, <1>4, <2>3, <3>1 DEF FromInv
  <2> QED
    BY <1>1, <2>1, <2>2, <2>3 DEF FromInv
<1>5. CASE Begins /\ claimsFrom = -1 /\ claimsFrom' = now /\ now' = now /\ Concluding(pos)
  <2>1. pos' = pos /\ pos \in DOMAIN order
    BY <1>5, BeginIs
  <2>2. claimsFrom' \in Nat /\ claimsFrom' <= now' /\ claimsFrom' # -1
    BY <1>1, <1>5
  <2>3. ASSUME NEW i \in DOMAIN order, i >= pos
        PROVE  Kinds(order[i]) # {}
    <3>1. CASE Phase(order[pos]) = phaseProgress
      <4>1. pos <= i
        BY <1>1, <1>3, <2>3
      <4> QED
        BY <1>1, <2>1, <3>1, <4>1, ProgressLast
    <3>2. CASE i = pos
      BY <1>1, <1>5, <3>2, FeatureIs DEF Concluding
    <3>3. CASE i # pos /\ \A j \in pos + 1 .. Len(order) : FeatureFacts[order[j]].kinds # <<>>
      <4>1. i \in pos + 1 .. Len(order)
        BY <1>1, <2>3, <3>3
      <4> QED
        BY <1>1, <3>3, <4>1, FeatureIs
    <3> QED
      BY <1>5, <3>1, <3>2, <3>3 DEF Concluding
  <2> QED
    BY <1>1, <2>1, <2>2, <2>3 DEF FromInv
<1> QED
  BY <1>4, <1>5

LEMMA StepGood ==
    ASSUME RunStep, Typed', RunInv', FromInv', CacheInv', SettledInv'
    PROVE  Good'
<1>1. OrderInv' /\ UNCHANGED order
  BY DEF RunStep, Good, OrderInv
<1>2. PlaceInv' /\ KnownInv'
  <2>1. CASE Begins
    <3>1. /\ pos \in DOMAIN order /\ pos' = pos /\ stage' = "run"
          /\ \/ pc' = "request" /\ kinds' = <<>>
             \/ pc' = "kind" /\ kinds' = FeatureFacts[order[pos]].kinds /\ before' = -1 /\ claims' = 0
      BY <2>1, BeginIs
    <3>2. FeatureFacts[order[pos]].kinds \in Seq(Kinds(order[pos])) /\ IsInjective(FeatureFacts[order[pos]].kinds)
      BY <3>1, FeatureIs DEF RunStep, Good
    <3>3. Kinds(order[pos])' = Kinds(order[pos])
      BY <1>1, <3>1
    <3>4. PlaceInv'
      <4>1. (pc \in {"idle", "request", "end"} => kinds = <<>>)' /\ (pc = "kind" => before = -1 /\ claims = 0)'
        BY <3>1
      <4>2. pc' \in ClaimSteps => kinds' \in Seq(Kinds(order[pos])) /\ IsInjective(kinds') /\ ~Visiting'
        BY <3>1, <3>2 DEF ClaimSteps, Visiting
      <4> QED
        BY <3>3, <4>1, <4>2 DEF PlaceInv
    <3>5. KnownInv'
      BY <3>1 DEF KnownInv, BossInv, DrainInv, LearntInv, Visiting
    <3> QED
      BY <3>4, <3>5
  <2>2. CASE Idles \/ Ends
    <3>1. pc' = "idle" /\ kinds' = <<>> /\ stage' # "run"
      BY <2>2, StepIs DEF Idles, Ends, UnchangedClaims, visitVars
    <3> QED
      BY <3>1 DEF PlaceInv, KnownInv
  <2> QED
    BY <2>1, <2>2 DEF RunStep
<1> QED
  BY <1>1, <1>2 DEF Good

\* What TodayDuel changes: a reply about the duel is kept.
LEMMA TodayWell ==
    ASSUME RunStep, NEW o, NEW days, TodayDuel(o, days), UNCHANGED server
    PROVE  /\ UNCHANGED link
           /\ DOMAIN replies' \subseteq ToSet(listed)
           /\ \A b \in DOMAIN replies' : \/ b \in DOMAIN replies /\ replies'[b] = replies[b]
                                         \/ b = DuelEntry /\ replies'[b].res = "none" /\ replies'[b].event = server[b]
<1>1. Typed /\ CacheInv /\ faults' = {} /\ listed \in Seq(Activities) /\ IsInjective(listed)
  BY DEF RunStep, Good, IInv, ShapeInv, Typed
<1>2. DOMAIN replies \subseteq ToSet(listed) /\ \A b \in DOMAIN replies : replies[b].res = "none"
  BY <1>1 DEF CacheInv
<1>3. CASE DuelOpen
  <2>1. Info(replies, DuelEntry, o, days)
    BY <1>3 DEF TodayDuel
  <2>2. DuelEntry \in ToSet(listed)
    <3>1. DuelEntry \in ToSet(Parsed)
      BY <1>3 DEF DuelOpen, ToSet
    <3>2. ToSet(Parsed) \subseteq ToSet(listed)
      BY <1>1, ParsedPicked, PickedIs
    <3> QED
      BY <3>1, <3>2
  <2>3. /\ UNCHANGED link
        /\ DOMAIN replies' = DOMAIN replies \cup {DuelEntry}
        /\ \A b \in DOMAIN replies : replies'[b] = replies[b]
        /\ replies'[DuelEntry].res = "none"
        /\ DuelEntry \notin DOMAIN replies => replies'[DuelEntry].event = server[DuelEntry]
    <3>1. ASSUME NEW a, Info(replies, a, o, days)
          PROVE  /\ UNCHANGED link
                 /\ DOMAIN replies' = DOMAIN replies \cup {a}
                 /\ \A b \in DOMAIN replies : replies'[b] = replies[b]
                 /\ replies'[a].res = "none"
                 /\ a \notin DOMAIN replies => replies'[a].event = server[a]
      <4>1. \A b \in DOMAIN replies : replies[b].res = "none"
        BY <1>2
      <4>2. /\ UNCHANGED link
            /\ DOMAIN replies' = DOMAIN replies \cup {a}
            /\ \A b \in DOMAIN replies : replies'[b] = replies[b]
            /\ Answer(replies, a, o, days) = replies'[a] /\ replies'[a].res = "none"
            /\ a \notin DOMAIN replies => replies'[a].event = server[a] /\ (a # DuelEntry => replies'[a].days = {})
        BY <1>1, <3>1, <4>1, InfoWell
      <4> QED
        BY <4>2
    <3> QED
      BY <2>1, <3>1
  <2> QED
    BY <1>2, <2>2, <2>3
<1>4. CASE ~DuelOpen
  BY <1>2, <1>4 DEF TodayDuel, NoSend
<1> QED
  BY <1>3, <1>4

LEMMA FirstGood ==
    ASSUME Init, NoFault
    PROVE  Good
<1>1. /\ link = "up" /\ now = 0 /\ order = RunOrder /\ server \in FirstServers /\ replies = <<>> /\ batch = {}
      /\ pc = "idle" /\ kinds = <<>> /\ part = 1 /\ answered = FALSE /\ before = -1 /\ claims = 0
      /\ stage = "log" /\ pos = 1 /\ ranEarlier = FALSE /\ claimsFrom = -1
  BY DEF Init, NoVisit
<1>2. listed \in Seq(Activities) /\ IsInjective(listed)
  <2>1. PICK s \in Scenarios : listed = s.listed
    BY DEF Init
  <2> QED
    BY <2>1, RunAssumption
<1>3. DOMAIN server = ToSet(listed) /\ \A a \in ToSet(listed) : server[a] \in Events(a)
  BY <1>1, <1>2, FirstServersAre
<1>4. Typed
  <2>1. /\ 0 \in Nat /\ 1 \in Nat /\ 1 > 0 /\ 1 \in 1 .. 3 /\ -1 \in Int
    OBVIOUS
  <2> QED
    BY <1>1, <1>2, <1>3, <2>1 DEF Typed
<1>5. OrderInv
  BY <1>1, RunOrderIs DEF NoFault, OrderInv
<1>6. RunInv
  BY <1>1 DEF RunInv
<1>7. FromInv
  <2>1. \A i \in DOMAIN order : ~(i < 1)
    BY <1>5 DEF OrderInv
  <2> QED
    BY <1>1, <2>1 DEF FromInv
<1>8. PlaceInv /\ KnownInv
  BY <1>1 DEF PlaceInv, KnownInv
<1>9. CacheInv
  BY <1>1 DEF CacheInv
<1>10. SettledInv
  BY <1>1 DEF SettledInv, Taken, Visited
<1> QED
  BY <1>4, <1>5, <1>6, <1>7, <1>8, <1>9, <1>10 DEF Good

\* A step of the run leaves the connection and the server alone.
LEMMA StepTyped ==
    ASSUME RunStep, link' \in {"up"} \cup Fatal, UNCHANGED server, now' \in Nat, ranEarlier' \in BOOLEAN,
           batch' \subseteq {"panic"}
    PROVE  Typed'
<1>1. Typed /\ UNCHANGED listed
  BY DEF RunStep, Good
<1>2. pos' \in {pos, pos + 1} /\ pos' \in Nat /\ pos' > 0
  <2>1. pos' = pos \/ pos' = pos + 1
    BY BeginIs DEF RunStep, Idles, Ends
  <2> QED
    BY <2>1, StepIs
<1>3. claims' \in Nat /\ before' \in Int /\ part' \in 1 .. 3 /\ answered' \in BOOLEAN
  <2>1. CASE UNCHANGED visitVars
    BY <1>1, <2>1 DEF visitVars, Typed
  <2>2. CASE part' = 1 /\ answered' = FALSE /\ before' = -1 /\ claims' = 0
    <3>1. 0 \in Nat /\ 1 \in 1 .. 3 /\ -1 \in Int /\ FALSE \in BOOLEAN
      OBVIOUS
    <3> QED
      BY <2>2, <3>1
  <2> QED
    BY <2>1, <2>2, BeginIs DEF RunStep, Idles, Ends, UnchangedClaims
<1>4. \A a \in ToSet(listed)' : (server[a] \in Events(a))'
  BY <1>1 DEF Typed, Events
<1>5. (DOMAIN server = ToSet(listed))' /\ IsInjective(listed)'
  BY <1>1 DEF Typed
<1> QED
  BY <1>2, <1>3, <1>4, <1>5 DEF Typed

LEMMA LogDuelStatusWell ==
    ASSUME Good, IInv, LogDuelStatus, faults' = {}, command.only = "all"
    PROVE  Good'
<1>1. /\ stage = "log" /\ stage' = "next" /\ pos' = pos
      /\ UNCHANGED <<now, listed, server, errs, batch, config, command, order, ranEarlier, claimsFrom>>
      /\ UnchangedClaims /\ Typed /\ RunInv /\ CacheInv
  BY DEF LogDuelStatus, Good
<1>2. RunStep
  BY <1>1 DEF RunStep, Idles
<1>3. pos = 1
  BY <1>1 DEF RunInv
<1>4. /\ UNCHANGED link
      /\ DOMAIN replies' \subseteq ToSet(listed)
      /\ \A b \in DOMAIN replies' : \/ b \in DOMAIN replies /\ replies'[b] = replies[b]
                                    \/ b = DuelEntry /\ replies'[b].res = "none" /\ replies'[b].event = server[b]
  <2>1. CASE \E o \in Turns, days \in SUBSET DuelDays : TodayDuel(o, days)
    BY <1>1, <1>2, <2>1, TodayWell
  <2>2. CASE NoSend /\ UNCHANGED replies
    BY <1>1, <2>2 DEF NoSend, CacheInv
  <2> QED
    BY <2>1, <2>2 DEF LogDuelStatus
<1>5. CacheInv'
  BY <1>1, <1>2, <1>4, StepCache
<1>6. ~Taken("duel_chests")
  <2>1. \A i \in DOMAIN order : ~(i < pos)
    BY <1>2, <1>3, StepIs
  <2> QED
    BY <1>1, <2>1 DEF Taken
<1>7. SettledInv'
  BY <1>1, <1>2, <1>6, StepSettled
<1>8. FromInv'
  BY <1>1, <1>2, StepFrom
<1>9. Typed'
  BY <1>1, <1>2, <1>4, StepTyped DEF Typed
<1>10. RunInv'
  BY <1>1 DEF RunInv
<1> QED
  BY <1>2, <1>5, <1>7, <1>8, <1>9, <1>10, StepGood

LEMMA StartHeldWell ==
    ASSUME Good, IInv, StartHeld, faults' = {}, command.only = "all"
    PROVE  Good'
<1>1. /\ stage = "next" /\ pos <= Len(order) /\ Holds(order[pos])
      /\ UNCHANGED <<now, listed, server, batch, config, command, order, claimsFrom>>
      /\ Typed /\ RunInv /\ CacheInv /\ OrderInv /\ FromInv
  BY DEF StartHeld, Good
<1>2. PICK o \in Turns, days \in SUBSET DuelDays :
         /\ TodayDuel(o, days)
         /\ \/ Skip /\ UnchangedClaims /\ UNCHANGED ranEarlier
            \/ Begin(order[pos]) /\ ranEarlier' = TRUE
  BY DEF StartHeld
<1>3. RunStep
  <2>1. Idles \/ Begins
    BY <1>1, <1>2 DEF Idles, Begins, Skip
  <2> QED
    BY <1>1, <2>1 DEF RunStep
<1>4. /\ UNCHANGED link
      /\ DOMAIN replies' \subseteq ToSet(listed)
      /\ \A b \in DOMAIN replies' : \/ b \in DOMAIN replies /\ replies'[b] = replies[b]
                                    \/ b = DuelEntry /\ replies'[b].res = "none" /\ replies'[b].event = server[b]
  BY <1>1, <1>2, <1>3, TodayWell
<1>5. ranEarlier' \in BOOLEAN /\ ~(ranEarlier /\ ~ranEarlier')
  <2>1. ranEarlier' = ranEarlier \/ ranEarlier' = TRUE
    BY <1>2
  <2>2. ranEarlier \in BOOLEAN
    BY <1>1 DEF Typed
  <2>3. CASE ranEarlier' = ranEarlier
    <3>1. ranEarlier' \in BOOLEAN
      BY <2>2, <2>3, Zenon
    <3>2. ~(ranEarlier /\ ~ranEarlier')
      BY <2>3, Zenon
    <3> QED
      BY <3>1, <3>2
  <2>4. CASE ranEarlier' = TRUE
    BY <2>4, Zenon
  <2> QED
    BY <2>1, <2>3, <2>4
<1>6. CacheInv'
  BY <1>1, <1>3, <1>4, <1>5, StepCache
<1>7. pos \in DOMAIN order /\ ~Concluding(pos)
  BY <1>1, <1>3, StepIs DEF Concluding
<1>8. \A i \in DOMAIN order : i <= pos => Phase(order[i]) # phaseProgress
  BY <1>1, <1>7, ProgressLast DEF Holds
<1>9. ~Taken("duel_chests")
  <2>1. ASSUME NEW i \in DOMAIN order, i < pos
        PROVE  "duel_chests" \notin Kinds(order[i])
    <3>1. i <= pos /\ order[i] \in FeatureNames
      BY <1>1, <1>7, <2>1, FeatureIs
    <3> QED
      BY <1>8, <3>1, RegistryAssumption
  <2> QED
    BY <1>1, <2>1 DEF Taken
<1>10. SettledInv'
  BY <1>1, <1>3, <1>7, <1>9, StepSettled
<1>11. FromInv'
  BY <1>1, <1>3, <1>7, StepFrom
<1>12. Typed'
  BY <1>1, <1>3, <1>4, <1>5, StepTyped DEF Typed
<1>13. RunInv'
  <2>1. CASE Skip
    BY <1>1, <2>1 DEF Skip, RunInv
  <2>2. CASE Begin(order[pos]) /\ ranEarlier' = TRUE
    <3>1. Begins
      BY <1>1, <2>2 DEF Begins
    <3>2. Phase(order[pos]) # phaseProgress
      <4>1. pos <= pos
        BY <1>1 DEF Typed
      <4> QED
        BY <1>7, <1>8, <4>1
    <3>3. Kinds(order[pos])' = Kinds(order[pos]) /\ Phase(order[pos])' = Phase(order[pos])
      BY <1>1, <1>3, <3>1, BeginIs
    <3> QED
      BY <1>1, <1>3, <2>2, <3>1, <3>2, <3>3, BeginIs DEF RunInv, ClaimSteps
  <2> QED
    BY <1>2, <2>1, <2>2
<1> QED
  BY <1>3, <1>6, <1>10, <1>11, <1>12, <1>13, StepGood

LEMMA StartWell ==
    ASSUME Good, IInv, Start, faults' = {}, command.only = "all"
    PROVE  Good'
<1>1. /\ stage = "next" /\ pos <= Len(order) /\ ~Holds(order[pos]) /\ Begin(order[pos])
      /\ UNCHANGED <<now, listed, server, batch, config, command, order, link>>
      /\ Typed /\ RunInv /\ CacheInv /\ OrderInv /\ FromInv
      /\ ranEarlier' = ~(Phase(order[pos]) = phaseProgress)
      /\ replies' = IF Phase(order[pos]) = phaseProgress /\ ranEarlier THEN KeptReplies ELSE replies
      /\ claimsFrom' = IF Concluding(pos) /\ claimsFrom < 0 THEN now ELSE claimsFrom
  BY DEF Start, Good, NoSend
<1>2. Begins
  BY <1>1 DEF Begins
<1>3. RunStep
  BY <1>1, <1>2 DEF RunStep
<1>4. KeptReplies = <<>> /\ DOMAIN KeptReplies = {}
  <2>1. Lost(replies) = {}
    BY <1>1 DEF CacheInv, Lost, Fatal
  <2> QED
    BY <2>1 DEF KeptReplies, Restrict
<1>5. \A b \in DOMAIN replies' : b \in DOMAIN replies /\ replies'[b] = replies[b]
  BY <1>1, <1>4
<1>6. DOMAIN replies' \subseteq ToSet(listed)
  BY <1>1, <1>5 DEF CacheInv
<1>7. ranEarlier' \in BOOLEAN /\ (ranEarlier /\ ~ranEarlier' => DOMAIN replies' = {})
  BY <1>1, <1>4
<1>8. CacheInv'
  BY <1>1, <1>3, <1>5, <1>6, <1>7, StepCache
<1>9. /\ now \in Nat /\ (claimsFrom = -1 \/ claimsFrom \in Nat)
      /\ pos \in DOMAIN order /\ pos' = pos
  BY <1>1, <1>2, <1>3, BeginIs DEF Typed, FromInv
<1>10. \/ claimsFrom' = claimsFrom /\ (~Concluding(pos) \/ claimsFrom # -1)
       \/ claimsFrom = -1 /\ claimsFrom' = now /\ Concluding(pos)
  <2>1. claimsFrom < 0 <=> claimsFrom = -1
    BY <1>9
  <2> QED
    BY <1>1, <2>1
<1>11. SettledInv'
  <2>1. claimsFrom' = claimsFrom \/ claimsFrom = -1
    BY <1>10
  <2> QED
    BY <1>1, <1>3, <1>5, <1>9, <2>1, StepSettled
<1>12. FromInv'
  BY <1>1, <1>2, <1>3, <1>10, StepFrom
<1>13. Typed'
  BY <1>1, <1>3, <1>7, <1>9, StepTyped DEF Typed
<1>14. RunInv'
  <2>1. Kinds(order[pos])' = Kinds(order[pos]) /\ Phase(order[pos])' = Phase(order[pos])
    BY <1>1, <1>9
  <2> QED
    BY <1>1, <1>2, <1>3, <1>9, <2>1, BeginIs DEF RunInv, ClaimSteps
<1> QED
  BY <1>3, <1>8, <1>11, <1>12, <1>13, <1>14, StepGood

\* The core collection has lost the connection, no feature is left, or time
\* passes.
LEMMA QuietWell ==
    ASSUME Good, IInv, CoreLost \/ RunDone \/ Tick, faults' = {}, command.only = "all"
    PROVE  Good'
<1>1. /\ UNCHANGED <<listed, server, replies, batch, config, command, order, pos, ranEarlier, claimsFrom>>
      /\ UnchangedClaims
      /\ \/ stage = "log" /\ stage' = "done" /\ now' = now /\ link' \in Fatal /\ errs' # {}
         \/ stage = "next" /\ stage' = "done" /\ now' = now /\ link' = link /\ pos > Len(order)
         \/ stage = "next" /\ stage' = "next" /\ now' = now + 1 /\ link' = link
      /\ Typed /\ RunInv /\ CacheInv /\ FromInv
  BY DEF CoreLost, RunDone, Tick, Good, sweepVars, runVars, UnchangedClaims
<1>2. RunStep
  BY <1>1 DEF RunStep, Idles
<1>3. DOMAIN replies \subseteq ToSet(listed)
  BY <1>1 DEF CacheInv
<1>4. CacheInv'
  BY <1>1, <1>2, <1>3, StepCache
<1>5. now \in Nat /\ now' \in {now, now + 1} /\ (now' = now \/ claimsFrom' # now')
  BY <1>1 DEF Typed, FromInv
<1>6. SettledInv'
  BY <1>1, <1>2, <1>5, StepSettled
<1>7. FromInv'
  BY <1>1, <1>2, <1>5, StepFrom
<1>8. Typed'
  <2>1. link' \in {"up"} \cup Fatal /\ now' \in Nat
    BY <1>1, <1>5 DEF Typed
  <2> QED
    BY <1>1, <1>2, <2>1, StepTyped DEF Typed
<1>9. RunInv'
  BY <1>1 DEF RunInv
<1> QED
  BY <1>2, <1>4, <1>6, <1>7, <1>8, <1>9, StepGood

LEMMA EndFeatureWell ==
    ASSUME Good, IInv, EndFeature, faults' = {}, command.only = "all"
    PROVE  Good'
<1>1. /\ stage = "run" /\ pc = "end" /\ pc' = "idle" /\ pos' = pos + 1
      /\ errs' = errs \cup batch /\ batch' = {}
      /\ stage' = IF Breaks THEN "done" ELSE "next"
      /\ UNCHANGED <<link, now, listed, server, replies, visitVars, config, command, order, ranEarlier, claimsFrom>>
      /\ Typed /\ RunInv /\ CacheInv
  BY DEF EndFeature, Good
<1>2. RunStep
  BY <1>1 DEF RunStep, Ends
<1>3. DOMAIN replies \subseteq ToSet(listed)
  BY <1>1 DEF CacheInv
<1>4. CacheInv'
  BY <1>1, <1>2, <1>3, StepCache
<1>5. SettledInv' /\ FromInv'
  BY <1>1, <1>2, StepSettled, StepFrom
<1>6. Typed'
  BY <1>1, <1>2, StepTyped DEF Typed
<1>7. RunInv'
  <2>1. ~Loss(batch)
    BY <1>1 DEF Typed, Loss, Fatal
  <2>2. stage' = "done" => pos = Len(order)
    BY <1>1, <2>1 DEF Breaks
  <2>3. pos \in Nat
    BY <1>1 DEF Typed
  <2> QED
    BY <1>1, <2>2, <2>3 DEF RunInv
<1> QED
  BY <1>2, <1>4, <1>5, <1>6, <1>7, StepGood

LEMMA RequestWell ==
    ASSUME Good, IInv, Request, faults' = {}, command.only = "all"
    PROVE  Good'
<1>1. /\ stage = "run" /\ pc = "request" /\ pc' = "end"
      /\ UNCHANGED <<now, listed, replies, errs>> /\ UNCHANGED visitVars /\ UNCHANGED runVars
  BY DEF Request
<1>2. UNCHANGED <<kinds, todo, part, info, answered, before, claims, config, command, order, stage, pos, ranEarlier, claimsFrom>>
  BY <1>1 DEF visitVars, runVars
<1>3. Typed /\ OrderInv /\ RunInv /\ FromInv /\ PlaceInv /\ CacheInv
  BY DEF Good
<1>4. pos \in DOMAIN order /\ Kinds(order[pos]) = {} /\ kinds = <<>>
  <2>1. pos <= Len(order) /\ pos \in Nat /\ pos > 0
    BY <1>1, <1>3 DEF RunInv, Typed
  <2>2. Kinds(order[pos]) = {}
    BY <1>1, <1>3 DEF RunInv, ClaimSteps
  <2>3. DOMAIN order = 1 .. Len(order) /\ Len(order) \in Nat
    BY <1>3 DEF OrderInv
  <2>4. kinds = <<>>
    BY <1>1, <1>3 DEF PlaceInv
  <2> QED
    BY <2>1, <2>2, <2>3, <2>4
<1>5. ranEarlier
  <2>1. Phase(order[pos]) # phaseProgress
    BY <1>3, <1>4, FeatureIs, RegistryAssumption
  <2> QED
    BY <1>1, <1>3, <2>1 DEF RunInv
<1>6. claimsFrom = -1
  <2>1. pos >= pos
    BY <1>3 DEF Typed
  <2> QED
    BY <1>3, <1>4, <2>1 DEF FromInv
<1>7. PICK o \in Outcomes :
         /\ Send("claim", o)
         /\ \/ UNCHANGED server
            \/ \E a \in MayEarn : \E e \in Earned(server[a]) : server' = [server EXCEPT ![a] = e]
         /\ batch' \in {ErrorOf(o), {"panic"}} \cup IF FeatureFacts[order[pos]].quiet THEN {{}} ELSE {}
  BY DEF Request
<1>8. UNCHANGED link /\ ErrorOf(o) = {}
  BY <1>3, <1>7, SendsWell
<1>9. batch' \subseteq {"panic"}
  BY <1>7, <1>8
<1>10. /\ DOMAIN server' = ToSet(listed)
       /\ \A b \in ToSet(listed) : /\ server'[b] \in Events(b)
                                   /\ b \notin MayEarn => server'[b] = server[b]
  <2>1. CASE UNCHANGED server
    BY <1>3, <2>1 DEF Typed
  <2>2. CASE \E a \in MayEarn : \E e \in Earned(server[a]) : server' = [server EXCEPT ![a] = e]
    <3>0. PICK a \in MayEarn : \E e \in Earned(server[a]) : server' = [server EXCEPT ![a] = e]
      BY <2>2
    <3>1. PICK e \in Earned(server[a]) : server' = [server EXCEPT ![a] = e]
      BY <3>0
    <3>2. a \in ToSet(listed)
      BY DEF MayEarn
    <3>3. a \in Activities
      <4>1. listed \in Seq(Activities)
        BY DEF IInv, ShapeInv
      <4> QED
        BY <3>2, <4>1, ListIs
    <3>4. server[a] \in Events(a)
      BY <1>3, <3>2 DEF Typed
    <3>5. e \in Events(a)
      BY <3>3, <3>4, EarnedIs
    <3> QED
      BY <1>3, <3>1, <3>2, <3>5 DEF Typed
  <2> QED
    BY <1>7, <2>1, <2>2
<1>11. Typed'
  <2>1. \A b \in ToSet(listed) : server'[b] \in Events(b)
    BY <1>10
  <2> QED
    BY <1>1, <1>2, <1>3, <1>8, <1>9, <1>10, <2>1 DEF Typed, Events
<1>12. OrderInv' /\ FromInv'
  <2>1. OrderInv'
    BY <1>2, <1>3 DEF OrderInv
  <2>2. FromInv'
    BY <1>1, <1>2, <1>3 DEF FromInv, Concluding, Holds, CleanPolicy
  <2> QED
    BY <2>1, <2>2
<1>13. RunInv'
  BY <1>1, <1>2, <1>3, <1>4, <1>5 DEF RunInv
<1>14. PlaceInv'
  <2>1. kinds' = <<>> /\ ~Visiting'
    BY <1>1, <1>2, <1>4 DEF Visiting
  <2>2. kinds' \in Seq(Kinds(order[pos]))' /\ IsInjective(kinds')
    BY <2>1 DEF IsInjective
  <2> QED
    BY <1>1, <2>1, <2>2 DEF PlaceInv
<1>15. ASSUME NEW b \in DOMAIN replies, NEW k \in Fact(b).kinds, Pending(k, b)'
       PROVE  Serves(k, b)'
  <2>1. Pending(k, b)
    <3>1. ToCome(k)' => ToCome(k)
      BY <1>2 DEF ToCome
    <3>2. k \in DOMAIN KindFacts /\ KindFacts[k].read \in {"sweep", "once"} /\ ToCome(k)'
      BY <1>2, <1>4, <1>15 DEF Pending
    <3> QED
      BY <3>1, <3>2 DEF Pending
  <2>2. Serves(k, b)
    BY <1>3, <1>15, <2>1 DEF CacheInv
  <2>3. CASE KindFacts[k].read = "once"
    <3>1. b \in ToSet(listed) /\ b \notin MayEarn
      BY <1>3, <1>15, <2>3 DEF CacheInv, MayEarn
    <3>2. server'[b] = server[b]
      BY <1>10, <3>1
    <3> QED
      BY <1>1, <2>2, <2>3, <3>2 DEF Serves, Same
  <2>4. CASE KindFacts[k].read # "once"
    BY <1>2, <1>5, <2>2, <2>4 DEF Serves
  <2> QED
    BY <2>3, <2>4
<1>16. CacheInv'
  BY <1>1, <1>3, <1>15 DEF CacheInv, Events
<1>17. SettledInv'
  <2>1. \A k, a : ~Taken(k)' /\ ~Visited(k, a)'
    <3>1. claimsFrom' # now'
      BY <1>1, <1>2, <1>3, <1>6 DEF Typed
    <3>2. Kinds(order[pos])' = {}
      BY <1>2, <1>4
    <3>3. \A k, a : ~Visited(k, a)'
      BY <1>1 DEF Visited, Visiting
    <3>4. \A k : ~Taken(k)'
      BY <3>1, <3>2 DEF Taken
    <3> QED
      BY <3>3, <3>4
  <2> QED
    BY <2>1 DEF SettledInv
<1>18. KnownInv'
  BY <1>1 DEF KnownInv, BossInv, DrainInv, LearntInv, Visiting
<1> QED
  BY <1>11, <1>12, <1>13, <1>14, <1>16, <1>17, <1>18 DEF Good

\* The feature that claims is at work.
LEMMA ClaimActionWell ==
    ASSUME Good, IInv, Claim, faults' = {}, command.only = "all"
    PROVE  Good'
<1>1. stage = "run" /\ Claims /\ UNCHANGED runVars
  BY DEF Claim
<1>2. pc \in ClaimSteps \ {"end"} /\ UNCHANGED <<now, listed, errs>>
  BY <1>1 DEF Claims, TakeKind, Read, ClaimTasks, TasksDone, Reread, ClaimBoxes, BoxesDone,
              ClaimOverflow, OverflowDone, ClaimSteps
<1>3. AtWork
  BY <1>1, <1>2, Working
<1> QED
  BY <1>1, <1>2, <1>3, ClaimsWell DEF AtClaim

\* Nothing happens.
LEMMA StutterWell ==
    ASSUME Good, UNCHANGED vars
    PROVE  Good'
<1>1. /\ UNCHANGED <<link, now, listed, server, replies, errs, batch, faults, late, pc, kinds, todo, part, info>>
      /\ UNCHANGED <<answered, before, claims, config, command, order, stage, pos, ranEarlier, claimsFrom>>
  BY DEF vars, sweepVars, visitVars, runVars
<1>2. Typed' /\ OrderInv' /\ RunInv'
  BY <1>1 DEF Good, Typed, OrderInv, RunInv, Events
<1>3. FromInv'
  BY <1>1 DEF Good, FromInv, Concluding, Holds, CleanPolicy
<1>4. \A k : Visits(k)' = Visits(k)
  BY <1>1, VisitsStay
<1>5. PlaceInv'
  <2>1. PlaceInv /\ (Visiting' <=> Visiting)
    BY <1>1 DEF Good, Visiting
  <2>2. ToSet(Visits(Head(kinds)))' = ToSet(Visits(Head(kinds)))
    BY <1>1, <1>4
  <2> QED
    BY <1>1, <2>1, <2>2 DEF PlaceInv
<1>6. CacheInv'
  <2>1. CacheInv
    BY DEF Good
  <2>2. \A k, a : Pending(k, a)' => Pending(k, a)
    BY <1>1 DEF Pending, ToCome, Visiting, A
  <2>3. \A k, a : Serves(k, a) => Serves(k, a)'
    BY <1>1 DEF Serves, Same
  <2> QED
    BY <1>1, <2>1, <2>2, <2>3 DEF CacheInv, Events
<1>7. SettledInv'
  <2>1. SettledInv
    BY DEF Good
  <2>2. \A k, a : Settled(k, a) => Settled(k, a)'
    BY <1>1 DEF Settled, Offers, Due, LeftOver, TasksDue, BoxesDue, OwnBoxes
  <2>3. \A k : Taken(k)' => Taken(k)
    BY <1>1 DEF Taken, Concluding, Holds, CleanPolicy
  <2>4. \A k, a : Visited(k, a)' => Visited(k, a)
    BY <1>1 DEF Visited, Visiting
  <2> QED
    BY <1>1, <1>4, <2>1, <2>2, <2>3, <2>4 DEF SettledInv
<1>8. KnownInv'
  BY <1>1 DEF Good, KnownInv, BossInv, DrainInv, LearntInv, Knows, Visiting, K, A, Offers, BoxesDue, TasksDue,
              LeftOver, Events, OwnBoxes
<1> QED
  BY <1>2, <1>3, <1>5, <1>6, <1>7, <1>8 DEF Good

\* A fault stays on record, and the command is what it was.
LEMMA FaultsStay ==
    ASSUME [Next]_vars, NoFault'
    PROVE  NoFault
<1>1. faults \subseteq faults' /\ UNCHANGED command
  <2>1. \A o, days : TodayDuel(o, days) => faults \subseteq faults'
    BY DEF TodayDuel, Info, Send, NoSend
  <2>2. \A reps, a, o, days : Info(reps, a, o, days) => faults \subseteq faults'
    BY DEF Info, Send, NoSend
  <2>3. \A by, o : Send(by, o) => faults \subseteq faults'
    BY DEF Send
  <2>4. NoSend => faults \subseteq faults'
    BY DEF NoSend
  <2>5. CASE LogDuelStatus
    BY <2>1, <2>4, <2>5 DEF LogDuelStatus
  <2>6. CASE StartHeld
    BY <2>1, <2>6 DEF StartHeld
  <2>7. CASE Start
    BY <2>4, <2>7 DEF Start
  <2>8. CASE Request
    BY <2>3, <2>8 DEF Request, runVars
  <2>9. CASE Claim
    <3>1. UNCHANGED command /\ Claims
      BY <2>9 DEF Claim, runVars
    <3>2. CASE TakeKind
      BY <2>3, <2>4, <3>1, <3>2 DEF TakeKind
    <3>3. CASE Read
      BY <2>2, <2>3, <2>4, <3>1, <3>3 DEF Read, ReadSweep, AskForIt, ReadOnce, FindInInit
    <3>4. CASE ClaimTasks \/ ClaimBoxes \/ ClaimOverflow
      BY <2>3, <3>1, <3>4 DEF ClaimTasks, ClaimBoxes, ClaimOverflow
    <3>5. CASE Reread
      BY <2>2, <2>4, <3>1, <3>5 DEF Reread
    <3>6. CASE TasksDone \/ BoxesDone \/ OverflowDone
      BY <2>4, <3>1, <3>6 DEF TasksDone, BoxesDone, OverflowDone
    <3> QED
      BY <3>1, <3>2, <3>3, <3>4, <3>5, <3>6 DEF Claims
  <2>10. CASE CoreLost \/ EndFeature \/ RunDone \/ Tick \/ UNCHANGED vars
    BY <2>10 DEF CoreLost, EndFeature, RunDone, Tick, vars, sweepVars, runVars
  <2> QED
    BY <2>5, <2>6, <2>7, <2>8, <2>9, <2>10 DEF Next, Over
<1> QED
  BY <1>1 DEF NoFault

LEMMA NextDue == IInv /\ DueInv /\ [Next]_vars => DueInv'
<1> SUFFICES ASSUME IInv, DueInv, [Next]_vars, NoFault'
             PROVE  Good'
  BY DEF DueInv
<1>1. Good /\ faults' = {} /\ command.only = "all"
  BY FaultsStay DEF DueInv, NoFault
<1> QED
  BY <1>1, LogDuelStatusWell, StartHeldWell, StartWell, RequestWell, ClaimActionWell, EndFeatureWell, QuietWell,
     StutterWell DEF Next, Over

\* What is settled at the end of a run is all that its concluding claims are about.
LEMMA DueInvSuffices == DueInv => NothingDueLeft
<1> SUFFICES ASSUME DueInv, stage = "done", faults = {}, errs = {}, command.only = "all", now = claimsFrom,
                    NEW i \in DOMAIN order, Concluding(i),
                    NEW k \in ToSet(FeatureFacts[order[i]].kinds), NEW a \in ToSet(Visits(k)), Offers(k, a)
             PROVE  ~Due(k, a)
  BY DEF NothingDueLeft
<1>1. Typed /\ OrderInv /\ RunInv /\ SettledInv
  BY DEF DueInv, NoFault, Good
<1>2. i < pos
  BY <1>1, FeatureIs DEF RunInv, Typed
<1>3. k \in Kinds(order[i])
  BY DEF Kinds
<1>4. k \in DOMAIN KindFacts
  BY <1>1, <1>3, FeatureIs
<1>5. Taken(k)
  BY <1>2, <1>3 DEF Taken
<1>6. Settled(k, a)
  BY <1>1, <1>4, <1>5 DEF SettledInv
<1> QED
  BY <1>6 DEF Settled

\* A run without a fault, whatever its config, its features and its events,
\* leaves nothing due of what its concluding claims are about: featurePhases puts
\* them last, forgetActivityReplies and Forget have them read what is so, and each
\* claims until nothing is left.
THEOREM NothingIsDueLeft == Spec => []NothingDueLeft
<1>1. Init => DueInv
  BY FirstGood DEF DueInv
<1>2. Spec => []DueInv
  BY <1>1, SpecIInv, NextDue, PTL DEF Spec
<1> QED
  BY <1>2, DueInvSuffices, PTL

=============================================================================
