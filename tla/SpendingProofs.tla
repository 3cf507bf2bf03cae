--------------------------- MODULE SpendingProofs ---------------------------
(***************************************************************************)
(* Proofs about the features that spend what the player has, for any       *)
(* bounds, pools and costs.                                                *)
(*                                                                         *)
(* SpendRun: its type invariant, that no feature asks for more items than  *)
(* were held, that the tripwire file stops every spend, and that a feature *)
(* that saw a drop spends no more.  The last two are about single steps,   *)
(* but some features look at the file and at the flags only when they      *)
(* begin: FileInv carries what they found to each of their spends, and     *)
(* SawInv what is remembered of a drop.  CountsInv relates what was asked  *)
(* for to the ledger, request by request.                                  *)
(*                                                                         *)
(* DigRun: that the radar's limits hold over all the rounds of a run,      *)
(* treasure-digs included, that a day that scores radar tasks is used up   *)
(* (DayInv: what is still to be claimed, and what the server has made of   *)
(* the tasks of a round), that the feature's copies of the boards serve as *)
(* the boards, and that it leaves no chest but those that a shut vault     *)
(* keeps (ChestInv: what is still to be claimed at each step).             *)
(***************************************************************************)
EXTENDS SpendRun, DigRun, FiniteSetTheorems, TLAPS

\* A feature runs from its beginning to its return; only the guarded ones check
\* the balance.
FlowInv ==
    /\ pos = 0 <=> pc \in {"idle", "duel"}
    /\ pc \in {"probe", "check"} => Feature \in Guarded

\* The features that look at the file once run without it to their end.
FileInv ==
    /\ Feature = "duel-speedups" /\ pc # "enter" => ~file /\ ~trip.speedups
    /\ Feature = "secret-tasks-start" /\ pc # "enter" => ~file
    /\ Feature = "treasure-digs" /\ pc # "enter" /\ ~barred => ~file

\* A drop that was seen is remembered: by its flag, or by the run being past
\* the one feature that keeps none.
SawInv ==
    /\ \A f \in Flags : f \in saw => trip[f]
    /\ "tasks" \in saw => pos = 0 \/ pos > 5
    /\ pc = "duel" => saw = {}

\* What a feature has asked for and what its ledger still holds.
CountsInv ==
    /\ pc \in {"idle", "duel", "enter"} \/ Feature = "secret-tasks-start" =>
          used = 0 /\ held = 0 /\ ledger = 0
    /\ Feature \in Guarded \cup {"treasure-digs"} => ledger + used <= held
    /\ Feature \in DigGames =>
          IF pc = "spend" THEN ledger >= 1 /\ used >= 1 /\ ledger + used <= held + 1
          ELSE ledger + used <= held
    /\ Feature = "duel-speedups" =>
          IF pc = "spend" THEN held <= used + ledger /\ used <= held /\ ledger <= held /\ left > 0
          ELSE used + ledger = held
    /\ (\/ Feature = "secret-tasks-start" /\ pc = "place"
        \/ Feature = "treasure-digs" /\ pc = "spend") => left > 0

IInv ==
    /\ TypeOK
    /\ FlowInv
    /\ FileInv
    /\ SawInv
    /\ CountsInv

\* The type invariant in the parts that a step changes together.
EnvTypes ==
    /\ path \in BOOLEAN /\ file \in BOOLEAN
    /\ trip \in [Flags -> BOOLEAN]
    /\ dead \in BOOLEAN
    /\ day \in {"running", "ending", "none"}
    /\ gold \in Golds
    /\ initGold \in GoldOrNone /\ base \in GoldOrNone
    /\ barred \in BOOLEAN
    /\ saw \subseteq Flags \cup {"tasks"}

WorkTypes ==
    /\ probe \in BOOLEAN
    /\ left \in Nat /\ ledger \in Nat /\ room \in Nat /\ calls \in Nat
    /\ held \in Nat /\ used \in Nat
    /\ after \in GoldOrNone
    /\ pool \in Pool

LEMMA TypeParts == TypeOK <=> EnvTypes /\ pos \in 0 .. 7 /\ pc \in Steps /\ WorkTypes
<1>1. Len(RunOrder) = 7
  BY DEF RunOrder
<1> QED
  BY <1>1 DEF TypeOK, EnvTypes, WorkTypes

LEMMA TypePartsNext ==
    ASSUME EnvTypes', pos' \in 0 .. 7, pc' \in Steps, WorkTypes'
    PROVE  TypeOK'
<1>1. Len(RunOrder) = 7
  BY DEF RunOrder
<1> QED
  BY <1>1 DEF TypeOK, EnvTypes, WorkTypes

LEMMA Limits ==
    /\ MaxGold \in Nat /\ MaxHeld \in Nat /\ MaxJobs \in Nat /\ MaxCalls \in Nat
    /\ Ten \in Nat \ {0} /\ MaxRoom \in Nat
BY BoundsAssumption

\* Which feature a place in the run order is.
LEMMA FeatureAt ==
    ASSUME pos \in 0 .. 7
    PROVE  /\ Feature = "none" <=> pos = 0
           /\ Feature = "secret-tasks-start" <=> pos = 5
<1>1. CASE pos = 0
  BY <1>1 DEF Feature
<1>2. CASE pos = 1
  BY <1>2 DEF Feature, RunOrder
<1>3. CASE pos = 2
  BY <1>3 DEF Feature, RunOrder
<1>4. CASE pos = 3
  BY <1>4 DEF Feature, RunOrder
<1>5. CASE pos = 4
  BY <1>5 DEF Feature, RunOrder
<1>6. CASE pos = 5
  BY <1>6 DEF Feature, RunOrder
<1>7. CASE pos = 6
  BY <1>7 DEF Feature, RunOrder
<1>8. CASE pos = 7
  BY <1>8 DEF Feature, RunOrder
<1> QED
  BY <1>1, <1>2, <1>3, <1>4, <1>5, <1>6, <1>7, <1>8

LEMMA FeatureNames ==
    ASSUME pos \in 0 .. 7
    PROVE  \/ Feature \in {"none", "duel-speedups", "secret-tasks-start", "treasure-digs"}
           \/ Feature \in Guarded \/ Feature \in DigGames
<1>1. CASE pos \in {0, 1}
  BY <1>1 DEF Feature, RunOrder, Guarded
<1>2. CASE pos \in {2, 3}
  BY <1>2 DEF Feature, RunOrder, Guarded
<1>3. CASE pos \in {4, 5}
  BY <1>3 DEF Feature, RunOrder, DigGames
<1>4. CASE pos \in {6, 7}
  BY <1>4 DEF Feature, RunOrder, DigGames
<1> QED
  BY <1>1, <1>2, <1>3, <1>4

LEMMA FeatureStays == pos' = pos => Feature' = Feature
BY DEF Feature

LEMMA NoFeature == pos' = 0 => Feature' = "none"
BY DEF Feature

\* A pool in hand is one.
LEMMA NoPoolType == NoPool \in Pool
BY DEF NoPool, Pool

LEMMA HeroPoolType == HeroPools \subseteq Pool
BY PoolsAssumption

LEMMA SurvivorPoolType == ASSUME NEW free \in BOOLEAN PROVE SurvivorPool(free) \in Pool
BY Limits DEF SurvivorPool, Pool

\* A pull costs no more than the tickets there are.
LEMMA PullCostBound ==
    ASSUME NEW p \in Pool, NEW got \in Nat
    PROVE  PullCost(p, got) \in 0 .. got
<1>1. p.single \in Nat /\ p.ten \in Nat /\ p.freeDue \in BOOLEAN
  BY DEF Pool
<1> QED
  BY <1>1, Limits DEF PullCost

\* A cost is a number, and so is what can be paid for.
LEMMA CostTypes ==
    ASSUME NEW n \in Nat, NEW got \in Nat, NEW unit \in UnitCosts, NEW rate \in CostRates
    PROVE  TrainCost(n, unit, rate) \in Nat /\ TrainAffordable(got, unit, rate) \in Nat
<1>1. unit \in Nat \ {0} /\ rate \in Nat \ {0}
  BY CostsAssumption
<1>2. n * unit \in Nat
  BY <1>1
<1>3. (n * unit) * rate \in Nat
  BY <1>1, <1>2
<1>4. unit * rate \in Nat /\ unit * rate > 0
  BY <1>1
<1>5. TrainCost(n, unit, rate) \in Nat
  <2> DEFINE c == (n * unit) * rate
  <2>1. c \in Nat
    BY <1>3
  <2> HIDE DEF c
  <2>2. (c + 10000 - 1) \div 10000 \in Nat
    BY <2>1
  <2> QED
    BY <2>2 DEF TrainCost, Basis, c
<1>6. TrainAffordable(got, unit, rate) \in Nat
  <2> DEFINE d == unit * rate
  <2>1. d \in Nat /\ d > 0
    BY <1>4
  <2> HIDE DEF d
  <2>2. (got * 10000) \div d \in Nat
    BY <2>1
  <2> QED
    BY <2>2 DEF TrainAffordable, Basis, d
<1> QED
  BY <1>5, <1>6

-----------------------------------------------------------------------------
(* The steps come in three shapes: the feature returns, it goes on, or it  *)
(* goes on and tripwire and environment stay as they are.                  *)

\* A step after which no feature has anything in hand.
Emptied ==
    /\ ClearWork
    /\ Stop \/ (pos \in 0 .. 6 /\ pos' = pos + 1 /\ pc' = "enter")

LEMMA EmptiedIInv ==
    ASSUME IInv, Emptied, EnvTypes',
           \A f \in Flags : f \in saw' => trip'[f],
           "tasks" \in saw' => pos >= 5 \/ pos' = 0
    PROVE  IInv'
<1>1. WorkTypes'
  BY NoPoolType DEF Emptied, ClearWork, WorkTypes, GoldOrNone
<1>2. pos \in 0 .. 7
  BY TypeParts DEF IInv
<1>3. pos' \in 0 .. 7 /\ pc' \in {"idle", "enter"} /\ (pos' = 0 <=> pc' = "idle")
  BY <1>2 DEF Emptied, Stop
<1>4. pos' = 0 \/ pos' = pos + 1
  BY DEF Emptied, Stop
<1>5. TypeOK'
  BY <1>1, <1>3, TypePartsNext DEF Steps
<1>6. FlowInv' /\ FileInv'
  BY <1>3, NoFeature DEF FlowInv, FileInv
<1>7. SawInv'
  BY <1>2, <1>3, <1>4 DEF SawInv
<1>8. used' = 0 /\ held' = 0 /\ ledger' = 0
  BY DEF Emptied, ClearWork
<1>9. CountsInv'
  BY <1>3, <1>8 DEF CountsInv
<1> QED
  BY <1>5, <1>6, <1>7, <1>9 DEF IInv

LEMMA ReturnEmpties ==
    ASSUME IInv, pos # 0, NEW err, Return(err)
    PROVE  Emptied
<1>1. Len(RunOrder) = 7
  BY DEF RunOrder
<1>2. pos \in 0 .. 7
  BY TypeParts DEF IInv
<1> QED
  BY <1>1, <1>2 DEF Return, NextFeature, Emptied

\* A return that changes nothing of what the tripwire knows.
LEMMA QuietReturn ==
    ASSUME IInv, pos # 0, NEW err, Return(err), dead' \in BOOLEAN, base' \in GoldOrNone,
           UNCHANGED <<path, day, gold, initGold, file, trip, saw, barred>>
    PROVE  IInv'
<1>1. EnvTypes'
  BY TypeParts DEF IInv, EnvTypes
<1>2. pos \in 0 .. 7 /\ SawInv
  BY TypeParts DEF IInv
<1> QED
  BY <1>1, <1>2, ReturnEmpties, EmptiedIInv DEF SawInv

\* The feature goes on.
LEMMA GoesOn ==
    ASSUME IInv, pos # 0, pos' = pos, pc' \in Steps \ {"idle", "duel"},
           EnvTypes', WorkTypes', FileInv', CountsInv',
           pc' \in {"probe", "check"} => Feature \in Guarded,
           \A f \in Flags : f \in saw' => trip'[f],
           "tasks" \in saw' => "tasks" \in saw
    PROVE  IInv'
<1>1. pos \in 0 .. 7 /\ FlowInv /\ SawInv
  BY TypeParts DEF IInv
<1>2. TypeOK'
  BY <1>1, TypePartsNext
<1>3. FlowInv' /\ SawInv'
  BY <1>1, FeatureStays DEF FlowInv, SawInv
<1> QED
  BY <1>2, <1>3 DEF IInv

\* The feature goes on, past its beginning, and what the tripwire knows stays.
LEMMA QuietlyGoesOn ==
    ASSUME IInv, pos # 0, pos' = pos, pc # "enter", pc' \in Waits \cup {"loop"},
           UNCHANGED <<runVars, file, trip, saw>>, base' \in GoldOrNone, barred' \in BOOLEAN,
           Feature = "treasure-digs" => barred' = barred,
           pc' \in {"probe", "check"} => Feature \in Guarded,
           WorkTypes', CountsInv'
    PROVE  IInv'
<1>1. EnvTypes'
  BY TypeParts DEF IInv, EnvTypes, runVars
<1>2. FileInv'
  BY FeatureStays DEF IInv, FileInv
<1>3. SawInv
  BY DEF IInv
<1> QED
  BY <1>1, <1>2, <1>3, GoesOn DEF SawInv, Steps, Waits

\* The facts that every step of a feature starts from.
LEMMA InFeature ==
    ASSUME IInv, pc \in Steps \ {"idle", "duel"}
    PROVE  pos \in 1 .. 7 /\ Feature # "none"
BY TypeParts, FeatureAt DEF IInv, FlowInv

-----------------------------------------------------------------------------
(* The run and its environment. *)

LEMMA InitIInv == Init => IInv
<1> SUFFICES ASSUME Init PROVE IInv
  OBVIOUS
<1>1. EnvTypes
  BY Limits DEF Init, EnvTypes, GoldOrNone, Golds
<1>2. WorkTypes
  BY NoPoolType DEF Init, WorkTypes, GoldOrNone
<1>3. pos = 0 /\ pc = "idle" /\ used = 0 /\ held = 0 /\ ledger = 0 /\ saw = {}
  BY DEF Init
<1>4. TypeOK
  BY <1>1, <1>2, <1>3, TypeParts DEF Steps
<1>5. Feature = "none"
  BY <1>3 DEF Feature
<1> QED
  BY <1>3, <1>4, <1>5 DEF IInv, FlowInv, FileInv, SawInv, CountsInv, Guarded, DigGames

LEMMA StartRunIInv ==
    ASSUME IInv, StartRun
    PROVE  IInv'
<1>1. EnvTypes'
  BY TypeParts DEF IInv, EnvTypes, StartRun, GoldOrNone, fileVars
<1>2. WorkTypes'
  BY TypeParts DEF IInv, WorkTypes, StartRun, workVars
<1>3. pos' = 0 /\ pc' = "duel" /\ saw' = {} /\ used' = 0 /\ held' = 0 /\ ledger' = 0
  BY DEF IInv, CountsInv, StartRun, workVars
<1>4. TypeOK'
  BY <1>1, <1>2, <1>3, TypePartsNext DEF Steps
<1>5. Feature' = "none"
  BY <1>3, NoFeature
<1> QED
  BY <1>3, <1>4, <1>5 DEF IInv, FlowInv, FileInv, SawInv, CountsInv, Guarded, DigGames

LEMMA LogDuelStatusIInv ==
    ASSUME IInv, LogDuelStatus
    PROVE  IInv'
<1>1. EnvTypes'
  BY TypeParts DEF IInv, EnvTypes, LogDuelStatus, goldVars
<1>2. WorkTypes'
  BY TypeParts DEF IInv, WorkTypes, LogDuelStatus, workVars
<1>3. pos' = 1 /\ pc' = "enter" /\ saw' = {} /\ used' = 0 /\ held' = 0 /\ ledger' = 0
  BY DEF IInv, CountsInv, SawInv, LogDuelStatus, workVars, goldVars
<1>4. TypeOK'
  BY <1>1, <1>2, <1>3, TypePartsNext DEF Steps
<1> QED
  BY <1>3, <1>4 DEF IInv, FlowInv, FileInv, SawInv, CountsInv

LEMMA SkipIInv ==
    ASSUME IInv, Skip
    PROVE  IInv'
<1>1. pos # 0 /\ base \in GoldOrNone /\ dead \in BOOLEAN
  BY InFeature, TypeParts DEF Skip, IInv, EnvTypes, Steps
<1> QED
  BY <1>1, QuietReturn DEF Skip, goldVars

LEMMA BreaksIInv ==
    ASSUME IInv, Breaks
    PROVE  IInv'
<1>1. pos # 0 /\ base \in GoldOrNone
  BY InFeature, TypeParts DEF Breaks, IInv, EnvTypes, Steps, Waits
<1> QED
  BY <1>1, QuietReturn DEF Breaks, goldVars

LEMMA KilledIInv ==
    ASSUME IInv, Killed
    PROVE  IInv'
<1>1. Emptied /\ pos' = 0
  BY DEF Killed, Emptied, Stop
<1>2. EnvTypes'
  BY TypeParts DEF IInv, EnvTypes, Killed, goldVars
<1>3. saw' = saw /\ trip' = trip /\ SawInv
  BY DEF Killed, goldVars, IInv
<1> QED
  BY <1>1, <1>2, <1>3, EmptiedIInv DEF SawInv

\* The account, the day and the file change beside the run.
LEMMA BesideIInv ==
    ASSUME IInv, GoldMoves \/ DayEnds \/ ClearTripwire
    PROVE  IInv'
<1>1. UNCHANGED <<pos, pc, barred, trip, saw, workVars>> /\ (file' = file \/ file' = FALSE)
  BY DEF GoldMoves, DayEnds, ClearTripwire, fileVars, goldVars
<1>2. EnvTypes'
  BY TypeParts DEF IInv, EnvTypes, GoldMoves, DayEnds, ClearTripwire, fileVars, goldVars
<1>3. WorkTypes'
  BY <1>1, TypeParts DEF IInv, WorkTypes, workVars
<1>4. TypeOK'
  BY <1>1, <1>2, <1>3, TypeParts, TypePartsNext DEF IInv
<1>5. Feature' = Feature
  BY <1>1, FeatureStays
<1>6. FlowInv' /\ SawInv'
  BY <1>1, <1>5 DEF IInv, FlowInv, SawInv
<1>7. FileInv'
  BY <1>1, <1>5 DEF IInv, FileInv
<1>8. CountsInv'
  BY <1>1, <1>5 DEF IInv, CountsInv, workVars
<1> QED
  BY <1>4, <1>6, <1>7, <1>8 DEF IInv

-----------------------------------------------------------------------------
(* The guarded features. *)

LEMMA WithNothingUsed == ASSUME NEW a \in Nat, NEW b \in Nat, a <= b PROVE a + 0 <= b
OBVIOUS

\* The guard's start, after the feature has set its ledger.
LEMMA ArmIInv ==
    ASSUME IInv, Feature \in Guarded, pc = "enter", ArmGuard, GuardMayStart,
           left' \in Nat, room' \in Nat, pool' \in Pool, ledger' \in Nat,
           held' \in Nat, ledger' <= held'
    PROVE  IInv'
<1>1. pos # 0 /\ used = 0
  BY InFeature DEF IInv, CountsInv, Steps
<1>2. EnvTypes'
  BY TypeParts DEF IInv, EnvTypes, ArmGuard, runVars, GoldOrNone, GuardMayStart
<1>3. WorkTypes'
  BY TypeParts DEF IInv, WorkTypes, ArmGuard
<1>4. pos' = pos /\ pc' = "probe" /\ Feature' = Feature /\ used' = 0
  BY <1>1, FeatureStays DEF ArmGuard, Goto
<1>5. FileInv'
  BY <1>4 DEF FileInv, Guarded
<1>6. CountsInv'
  <2>1. ledger' + used' <= held'
    BY <1>4, WithNothingUsed
  <2> QED
    BY <1>4, <2>1 DEF CountsInv, Guarded, DigGames
<1>7. saw' = saw /\ trip' = trip
  BY DEF ArmGuard
<1> QED
  BY <1>1, <1>2, <1>3, <1>4, <1>5, <1>6, <1>7, GoesOn DEF Steps, Waits, IInv, SawInv

LEMMA RecruitEnterIInv ==
    ASSUME IInv, RecruitEnter
    PROVE  IInv'
<1>1. Feature \in Guarded /\ pc = "enter"
  BY DEF RecruitEnter, At, Guarded
<1>2. PICK p \in HeroPools, h \in 1 .. MaxHeld :
         pool' = p /\ ledger' = h /\ held' = h
  BY DEF RecruitEnter, TakeHeroPool
<1>3. left' \in Nat /\ room' \in Nat
  BY Limits, TypeParts DEF RecruitEnter, IInv, WorkTypes
<1>4. pool' \in Pool /\ ledger' \in Nat
  BY <1>2, HeroPoolType, Limits
<1>5. held' \in Nat /\ ledger' <= held'
  BY <1>2, Limits
<1> QED
  BY <1>1, <1>3, <1>4, <1>5, ArmIInv DEF RecruitEnter

LEMMA TrainEnterIInv ==
    ASSUME IInv, TrainEnter
    PROVE  IInv'
<1>1. Feature \in Guarded /\ pc = "enter"
  BY DEF TrainEnter, At, Guarded
<1>2. left' \in Nat /\ room' \in Nat /\ ledger' \in Nat /\ pool' \in Pool
  BY Limits, TypeParts DEF TrainEnter, IInv, WorkTypes
<1>3. held' \in Nat /\ ledger' <= held'
  <2>1. held' = ledger'
    BY DEF TrainEnter
  <2> QED
    BY <1>2, <2>1
<1> QED
  BY <1>1, <1>2, <1>3, ArmIInv DEF TrainEnter

LEMMA ReadsGoldIInv ==
    ASSUME IInv, ReadsGold
    PROVE  IInv'
<1>1. /\ Feature \in Guarded /\ pc \in Waits
      /\ UNCHANGED <<runVars, pos, pc, workVars>>
  BY DEF ReadsGold
<1>2. pos # 0
  BY <1>1, InFeature DEF Steps, Waits
<1>3. gold \in Golds /\ EnvTypes /\ WorkTypes
  BY TypeParts DEF IInv, EnvTypes
<1>4. /\ base' \in GoldOrNone /\ barred' \in BOOLEAN /\ file' \in BOOLEAN
      /\ \/ UNCHANGED <<trip, saw>>
         \/ trip' = [trip EXCEPT !["duel"] = TRUE] /\ saw' = saw \cup {"duel"}
  BY <1>3 DEF ReadsGold, SeeGold, goldVars, Trip, FilesAfterTrip, EnvTypes, GoldOrNone
<1>5. /\ trip' \in [Flags -> BOOLEAN] /\ saw' \subseteq Flags \cup {"tasks"}
      /\ "tasks" \in saw' => "tasks" \in saw
      /\ \A f \in Flags : f \in saw' => trip'[f]
  BY <1>3, <1>4 DEF EnvTypes, Flags, IInv, SawInv
<1>6. EnvTypes'
  BY <1>1, <1>3, <1>4, <1>5 DEF EnvTypes, runVars
<1>7. WorkTypes'
  BY <1>1, <1>3 DEF WorkTypes, workVars
<1>8. Feature' = Feature
  BY <1>1, FeatureStays
<1>9. FileInv' /\ CountsInv'
  BY <1>1, <1>8 DEF FileInv, CountsInv, Guarded, DigGames, IInv, workVars
<1> QED
  BY <1>1, <1>2, <1>5, <1>6, <1>7, <1>9, GoesOn DEF Steps, Waits

LEMMA ReadsCountIInv ==
    ASSUME IInv, ReadsCount
    PROVE  IInv'
<1>1. Feature \in Guarded /\ pc \in Waits /\ pos # 0
  BY InFeature DEF ReadsCount, Steps, Waits
<1>2. ledger' \in Nat /\ ledger' < ledger
  BY TypeParts DEF ReadsCount, IInv, WorkTypes
<1>3. WorkTypes'
  BY <1>2, TypeParts DEF ReadsCount, IInv, WorkTypes
<1>4. Feature' = Feature
  BY FeatureStays DEF ReadsCount
<1>5. CountsInv'
  BY <1>1, <1>2, <1>4, TypeParts DEF ReadsCount, IInv, CountsInv, Guarded, DigGames, Waits, WorkTypes
<1>6. base \in GoldOrNone /\ barred \in BOOLEAN
  BY TypeParts DEF IInv, EnvTypes
<1> QED
  BY <1>1, <1>3, <1>5, <1>6, QuietlyGoesOn DEF ReadsCount, goldVars, Waits

\* Where a guarded feature goes on with nothing spent.
LEMMA GuardedGoesOn ==
    ASSUME IInv, Feature \in Guarded, pc \in Steps \ {"idle", "duel", "enter"},
           pos' = pos, pc' \in Waits \cup {"loop"}, UNCHANGED <<runVars, goldVars>>,
           WorkTypes', ledger' + used' <= held'
    PROVE  IInv'
<1>1. pos # 0
  BY InFeature
<1>2. Feature' = Feature
  BY FeatureStays
<1>3. CountsInv'
  BY <1>2 DEF CountsInv, Guarded, DigGames, Waits
<1>4. base \in GoldOrNone /\ barred \in BOOLEAN
  BY TypeParts DEF IInv, EnvTypes
<1> QED
  BY <1>1, <1>3, <1>4, QuietlyGoesOn DEF goldVars

\* Where it returns.
LEMMA GuardedReturns ==
    ASSUME IInv, Feature \in Guarded, pc \in Steps \ {"idle", "duel"},
           NEW err, Return(err), UNCHANGED <<runVars, goldVars>>
    PROVE  IInv'
<1>1. pos # 0 /\ base \in GoldOrNone /\ dead \in BOOLEAN
  BY InFeature, TypeParts DEF IInv, EnvTypes
<1> QED
  BY <1>1, QuietReturn DEF goldVars, runVars

\* What a guarded feature has asked for.
LEMMA GuardedCounts ==
    ASSUME IInv, Feature \in Guarded
    PROVE  ledger + used <= held /\ WorkTypes
BY TypeParts DEF IInv, CountsInv

LEMMA ProbeAnsweredIInv ==
    ASSUME IInv, ProbeAnswered
    PROVE  IInv'
<1>0. Feature \in Guarded
  BY DEF ProbeAnswered, IInv, FlowInv
<1>1. CASE barred
  BY <1>0, <1>1, GuardedReturns DEF ProbeAnswered, Steps, Waits
<1>2. CASE ~barred
  <2>1. WorkTypes' /\ ledger' + used' <= held'
    BY <1>0, <1>2, GuardedCounts DEF ProbeAnswered, WorkTypes
  <2> QED
    BY <1>0, <1>2, <2>1, GuardedGoesOn DEF ProbeAnswered, Goto, Steps, Waits
<1> QED
  BY <1>1, <1>2

LEMMA SpendAcceptedIInv ==
    ASSUME IInv, SpendAccepted
    PROVE  IInv'
<1>1. WorkTypes' /\ ledger' + used' <= held'
  BY GuardedCounts DEF SpendAccepted, WorkTypes, workVars
<1> QED
  BY <1>1, GuardedGoesOn DEF SpendAccepted, Goto, Steps, Waits

LEMMA CheckAnsweredIInv ==
    ASSUME IInv, CheckAnswered
    PROVE  IInv'
<1>0. Feature \in Guarded
  BY DEF CheckAnswered, IInv, FlowInv
<1>1. CASE ~barred /\ Goto("loop") /\ UNCHANGED workVars
  <2>1. WorkTypes' /\ ledger' + used' <= held'
    BY <1>0, <1>1, GuardedCounts DEF WorkTypes, workVars
  <2> QED
    BY <1>0, <1>1, <2>1, GuardedGoesOn DEF CheckAnswered, Goto, Steps, Waits
<1>2. CASE Return("failed")
  BY <1>0, <1>2, GuardedReturns DEF CheckAnswered, Steps, Waits
<1> QED
  BY <1>1, <1>2 DEF CheckAnswered

\* Items that move from the ledger to what was asked for.
LEMMA Moved ==
    ASSUME NEW a \in Nat, NEW b \in Nat, NEW c \in Nat, NEW n \in 0 .. a, a + b <= c
    PROVE  a - n \in Nat /\ b + n \in Nat /\ (a - n) + (b + n) <= c
OBVIOUS

LEMMA NextPoolIInv ==
    ASSUME IInv, Feature \in Guarded, pc \in {"loop", "spend"}, NextPool,
           UNCHANGED <<runVars, goldVars>>
    PROVE  IInv'
<1>1. WorkTypes
  BY GuardedCounts
<1>2. CASE Return("none")
  BY <1>2, GuardedReturns DEF Steps, Waits
<1>3. CASE left > 0 /\ left' = left - 1 /\ TakeHeroPool /\ Goto("loop")
           /\ UNCHANGED <<probe, room, calls, after>>
  <2>1. PICK p \in HeroPools, h \in 1 .. MaxHeld : pool' = p /\ ledger' = h /\ held' = h /\ used' = 0
    BY <1>3 DEF TakeHeroPool
  <2>2. pool' \in Pool /\ h \in Nat /\ h + 0 <= h
    BY <2>1, HeroPoolType, Limits
  <2>3. left' \in Nat
    BY <1>1, <1>3 DEF WorkTypes
  <2>4. WorkTypes' /\ ledger' + used' <= held'
    BY <1>1, <1>3, <2>1, <2>2, <2>3 DEF WorkTypes
  <2> QED
    BY <1>3, <2>4, GuardedGoesOn DEF Goto, Steps, Waits
<1>4. CASE left' = 0 /\ TakeSurvivors /\ Goto("info") /\ UNCHANGED <<probe, room, calls, after>>
  <2>1. PICK h \in 1 .. MaxHeld, free \in BOOLEAN :
           pool' = SurvivorPool(free) /\ ledger' = h /\ held' = h /\ used' = 0
    BY <1>4 DEF TakeSurvivors
  <2>2. pool' \in Pool /\ h \in Nat /\ h + 0 <= h
    BY <2>1, SurvivorPoolType, Limits
  <2>3. WorkTypes' /\ ledger' + used' <= held'
    BY <1>1, <1>4, <2>1, <2>2 DEF WorkTypes
  <2> QED
    BY <1>4, <2>3, GuardedGoesOn DEF Goto, Steps, Waits
<1> QED
  BY <1>2, <1>3, <1>4 DEF NextPool

LEMMA RecruitInfoIInv ==
    ASSUME IInv, RecruitInfo
    PROVE  IInv'
<1>1. Feature \in Guarded /\ pc = "info" /\ UNCHANGED <<runVars, goldVars>>
  BY DEF RecruitInfo, At, Guarded
<1>2. CASE Goto("loop") /\ UNCHANGED workVars
  <2>1. WorkTypes' /\ ledger' + used' <= held'
    BY <1>1, <1>2, GuardedCounts DEF WorkTypes, workVars
  <2> QED
    BY <1>1, <1>2, <2>1, GuardedGoesOn DEF Goto, Steps, Waits
<1>3. CASE Return("failed")
  BY <1>1, <1>3, GuardedReturns DEF Steps, Waits
<1> QED
  BY <1>2, <1>3 DEF RecruitInfo

LEMMA RecruitPullIInv ==
    ASSUME IInv, RecruitPull
    PROVE  IInv'
<1>1. /\ Feature \in Guarded /\ pc = "loop" /\ UNCHANGED <<runVars, goldVars>>
      /\ pos' = pos /\ pc' = "spend"
  BY DEF RecruitPull, At, Guarded, Goto
<1>2. WorkTypes /\ ledger + used <= held
  BY <1>1, GuardedCounts
<1>3. PullCost(pool, ledger) \in 0 .. ledger
  BY <1>2, PullCostBound DEF WorkTypes
<1>4. /\ ledger' = ledger - PullCost(pool, ledger)
      /\ used' = used + PullCost(pool, ledger)
      /\ calls' = calls + 1
      /\ UNCHANGED <<probe, left, pool, room, after, held>>
  BY DEF RecruitPull
<1>5. /\ ledger - PullCost(pool, ledger) \in Nat /\ used + PullCost(pool, ledger) \in Nat
      /\ (ledger - PullCost(pool, ledger)) + (used + PullCost(pool, ledger)) <= held
  BY <1>2, <1>3, Moved DEF WorkTypes
<1>6. calls' \in Nat
  BY <1>2, <1>4 DEF WorkTypes
<1>7. WorkTypes' /\ ledger' + used' <= held'
  BY <1>2, <1>4, <1>5, <1>6 DEF WorkTypes
<1> QED
  BY <1>1, <1>7, GuardedGoesOn DEF Steps, Waits

LEMMA RecruitPoolDoneIInv ==
    ASSUME IInv, RecruitPoolDone
    PROVE  IInv'
<1>1. Feature \in Guarded /\ pc = "loop" /\ UNCHANGED <<runVars, goldVars>>
  BY DEF RecruitPoolDone, At, Guarded
<1>2. CASE Return("failed")
  BY <1>1, <1>2, GuardedReturns DEF Steps, Waits
<1>3. CASE NextPool
  BY <1>1, <1>3, NextPoolIInv
<1> QED
  BY <1>2, <1>3 DEF RecruitPoolDone

LEMMA RecruitFailsIInv ==
    ASSUME IInv, RecruitFails
    PROVE  IInv'
<1>1. Feature \in Guarded /\ pc = "spend" /\ UNCHANGED <<runVars, goldVars>>
  BY DEF RecruitFails, At, Guarded
<1>2. CASE Return("failed")
  BY <1>1, <1>2, GuardedReturns DEF Steps, Waits
<1>3. CASE NextPool
  BY <1>1, <1>3, NextPoolIInv
<1> QED
  BY <1>2, <1>3 DEF RecruitFails

LEMMA TrainCampIInv ==
    ASSUME IInv, TrainCamp
    PROVE  IInv'
<1>1. /\ Feature \in Guarded /\ pc = "loop" /\ UNCHANGED <<runVars, goldVars>>
      /\ left > 0 /\ left' = left - 1
      /\ UNCHANGED <<probe, pool, calls, after, held>>
  BY DEF TrainCamp, At, Guarded
<1>2. WorkTypes /\ ledger + used <= held
  BY <1>1, GuardedCounts
<1>3. left' \in Nat
  BY <1>1, <1>2 DEF WorkTypes
<1>4. CASE UNCHANGED <<pos, pc, ledger, room, used>>
  <2>1. WorkTypes' /\ ledger' + used' <= held'
    BY <1>1, <1>2, <1>3, <1>4 DEF WorkTypes
  <2> QED
    BY <1>1, <1>4, <2>1, GuardedGoesOn DEF Steps, Waits
<1>5. ASSUME NEW unit \in UnitCosts, NEW rate \in CostRates, NEW most \in 0 .. MaxRoom,
             NEW n, n = Lesser(Lesser(most, room), TrainAffordable(ledger, unit, rate)),
             n > 0, TrainCost(n, unit, rate) <= ledger,
             ledger' = ledger - TrainCost(n, unit, rate),
             used' = used + TrainCost(n, unit, rate),
             room' = room - n, Goto("spend")
      PROVE  IInv'
  <2>1. most \in Nat /\ room \in Nat /\ ledger \in Nat /\ used \in Nat /\ held \in Nat
    BY <1>2, Limits DEF WorkTypes
  <2>2. TrainAffordable(ledger, unit, rate) \in Nat
    BY <2>1, CostTypes
  <2>3. n \in Nat /\ n <= room
    BY <1>5, <2>1, <2>2 DEF Lesser
  <2>4. TrainCost(n, unit, rate) \in Nat
    BY <2>1, <2>3, CostTypes
  <2>5. TrainCost(n, unit, rate) \in 0 .. ledger
    BY <1>5, <2>1, <2>4
  <2>6. /\ ledger - TrainCost(n, unit, rate) \in Nat /\ used + TrainCost(n, unit, rate) \in Nat
        /\ (ledger - TrainCost(n, unit, rate)) + (used + TrainCost(n, unit, rate)) <= held
    BY <1>2, <2>1, <2>5, Moved
  <2>7. room - n \in Nat
    BY <2>1, <2>3
  <2>8. WorkTypes' /\ ledger' + used' <= held'
    BY <1>1, <1>2, <1>3, <1>5, <2>6, <2>7 DEF WorkTypes
  <2> QED
    BY <1>1, <1>5, <2>8, GuardedGoesOn DEF Goto, Steps, Waits
<1> QED
  BY <1>4, <1>5 DEF TrainCamp

LEMMA TrainEndsIInv ==
    ASSUME IInv, TrainDone \/ TrainFails
    PROVE  IInv'
<1>1. CASE TrainDone
  BY <1>1, GuardedReturns DEF TrainDone, At, Guarded, Steps, Waits
<1>2. CASE TrainFails
  BY <1>2, GuardedReturns DEF TrainFails, At, Guarded, Steps, Waits
<1> QED
  BY <1>1, <1>2

-----------------------------------------------------------------------------
(* duel-speedups. *)

\* Where duel-speedups goes on.
LEMMA SpeedupsGoOn ==
    ASSUME IInv, Feature = "duel-speedups", pc \in {"loop", "spend"}, pos' = pos,
           UNCHANGED <<runVars, file, trip, saw, barred>>, base' \in GoldOrNone, WorkTypes',
           \/ pc' = "loop" /\ used' + ledger' = held'
           \/ pc' = "spend" /\ held' <= used' + ledger' /\ used' <= held' /\ ledger' <= held' /\ left' > 0
    PROVE  IInv'
<1>1. pos # 0
  BY InFeature DEF Steps, Waits
<1>2. Feature' = Feature
  BY FeatureStays
<1>3. CountsInv'
  BY <1>2 DEF CountsInv, Guarded, DigGames
<1>4. barred \in BOOLEAN
  BY TypeParts DEF IInv, EnvTypes
<1> QED
  BY <1>1, <1>3, <1>4, QuietlyGoesOn DEF Waits

\* The items in hand when a reply has settled what was asked for.
LEMMA Settled ==
    ASSUME NEW a \in Nat, NEW u \in Nat, NEW h \in Nat, h <= u + a, u <= h, a <= h
    PROVE  /\ u - (u - (h - a)) \in Nat /\ (u - (u - (h - a))) + a = h
           /\ a - (u - (h - a)) \in Nat /\ u + (a - (u - (h - a))) = h
OBVIOUS

\* And when items are asked for.
LEMMA Asked ==
    ASSUME NEW a \in Nat, NEW u \in Nat, NEW h \in Nat, u + a = h, NEW n \in 1 .. a
    PROVE  u + n \in Nat /\ h <= (u + n) + a /\ u + n <= h /\ a <= h
OBVIOUS

LEMMA SpeedupsEnterIInv ==
    ASSUME IInv, SpeedupsEnter
    PROVE  IInv'
<1>1. Feature = "duel-speedups" /\ pc = "enter" /\ pos' = pos /\ pc' = "loop"
  BY DEF SpeedupsEnter, At, Goto
<1>2. pos # 0 /\ used = 0
  BY <1>1, InFeature DEF IInv, CountsInv, Steps
<1>3. Feature' = Feature
  BY <1>1, FeatureStays
<1>4. EnvTypes'
  BY TypeParts DEF IInv, EnvTypes, SpeedupsEnter, runVars
<1>5. PICK h \in Nat : held' = h /\ ledger' = h
  BY Limits DEF SpeedupsEnter
<1>6. left' \in Nat
  BY Limits DEF SpeedupsEnter
<1>7. WorkTypes'
  BY <1>2, <1>5, <1>6, TypeParts DEF IInv, WorkTypes, SpeedupsEnter
<1>8. ~file' /\ ~trip'.speedups
  BY <1>1 DEF SpeedupsEnter, Refused
<1>9. FileInv'
  BY <1>1, <1>3, <1>8 DEF FileInv
<1>10. CountsInv'
  <2>1. 0 + ledger' = held'
    BY <1>5
  <2>2. used' = 0
    BY <1>2 DEF SpeedupsEnter
  <2> QED
    BY <1>1, <1>3, <2>1, <2>2 DEF CountsInv, Guarded, DigGames
<1>11. saw' = saw /\ trip' = trip /\ SawInv
  BY DEF SpeedupsEnter, IInv
<1> QED
  BY <1>1, <1>2, <1>4, <1>7, <1>9, <1>10, <1>11, GoesOn DEF Steps, Waits, SawInv

LEMMA SpeedupsApplyIInv ==
    ASSUME IInv, SpeedupsApply
    PROVE  IInv'
<1>1. /\ Feature = "duel-speedups" /\ pc = "loop" /\ pos' = pos /\ pc' = "spend" /\ left > 0
      /\ UNCHANGED <<runVars, goldVars, probe, left, pool, ledger, room, after, held>>
      /\ calls' = calls + 1
  BY DEF SpeedupsApply, At, Goto
<1>2. WorkTypes /\ base \in GoldOrNone /\ used + ledger = held
  BY <1>1, TypeParts DEF IInv, EnvTypes, CountsInv
<1>3. PICK n \in 1 .. ledger : used' = used + n
  BY DEF SpeedupsApply
<1>4. used + n \in Nat /\ held <= (used + n) + ledger /\ used + n <= held /\ ledger <= held
  BY <1>2, Asked DEF WorkTypes
<1>5. calls' \in Nat
  BY <1>1, <1>2 DEF WorkTypes
<1>6. WorkTypes' /\ held' <= used' + ledger' /\ used' <= held' /\ ledger' <= held' /\ left' > 0
  BY <1>1, <1>2, <1>3, <1>4, <1>5 DEF WorkTypes
<1> QED
  BY <1>1, <1>2, <1>6, SpeedupsGoOn DEF goldVars

LEMMA SpeedupsNextJobIInv ==
    ASSUME IInv, SpeedupsNextJob
    PROVE  IInv'
<1>1. Feature = "duel-speedups" /\ pc = "loop" /\ UNCHANGED <<runVars, goldVars>>
  BY DEF SpeedupsNextJob, At
<1>2. WorkTypes /\ base \in GoldOrNone /\ used + ledger = held /\ pos # 0 /\ dead \in BOOLEAN
  BY <1>1, TypeParts, InFeature DEF IInv, EnvTypes, CountsInv, Steps
<1>3. CASE Return("none")
  BY <1>1, <1>2, <1>3, QuietReturn DEF goldVars, runVars
<1>4. CASE /\ left > 0 /\ left' = left - 1
           /\ UNCHANGED <<pos, pc, probe, pool, ledger, room, calls, after, held, used>>
  <2>1. left' \in Nat
    BY <1>2, <1>4 DEF WorkTypes
  <2>2. WorkTypes' /\ used' + ledger' = held'
    BY <1>2, <1>4, <2>1 DEF WorkTypes
  <2> QED
    BY <1>1, <1>2, <1>4, <2>2, SpeedupsGoOn DEF goldVars
<1> QED
  BY <1>3, <1>4 DEF SpeedupsNextJob

LEMMA SpeedupsReplyIInv ==
    ASSUME IInv, SpeedupsReply
    PROVE  IInv'
<1>1. /\ Feature = "duel-speedups" /\ pc = "spend" /\ UNCHANGED runVars
      /\ pos' = pos /\ pc' = "loop"
  BY DEF SpeedupsReply, At, Goto
<1>2. /\ WorkTypes /\ base \in GoldOrNone /\ gold \in GoldOrNone
      /\ held <= used + ledger /\ used <= held /\ ledger <= held /\ left > 0
  BY <1>1, TypeParts DEF IInv, EnvTypes, CountsInv, GoldOrNone
<1>3. /\ used - (used - (held - ledger)) \in Nat
      /\ (used - (used - (held - ledger))) + ledger = held
      /\ ledger - (used - (held - ledger)) \in Nat
      /\ used + (ledger - (used - (held - ledger))) = held
  BY <1>2, Settled DEF WorkTypes
<1>4. left - 1 \in Nat
  BY <1>2 DEF WorkTypes
<1>5. CASE /\ left' = left - 1 /\ used' = used - (used - (held - ledger))
           /\ UNCHANGED <<goldVars, probe, pool, ledger, room, calls, after, held>>
  <2>1. WorkTypes' /\ used' + ledger' = held'
    BY <1>2, <1>3, <1>4, <1>5 DEF WorkTypes
  <2> QED
    BY <1>1, <1>2, <1>5, <2>1, SpeedupsGoOn DEF goldVars
<1>6. ASSUME NEW g \in Carried, base' = BaseAfter(g),
             ledger' = ledger - (used - (held - ledger)), left' \in {left, left - 1},
             UNCHANGED <<file, barred, trip, saw, probe, pool, room, calls, after, held, used>>
      PROVE  IInv'
  <2>1. base' \in GoldOrNone
    BY <1>2, <1>6 DEF Carried, BaseAfter
  <2>2. WorkTypes' /\ used' + ledger' = held'
    BY <1>2, <1>3, <1>4, <1>6 DEF WorkTypes
  <2> QED
    BY <1>1, <1>6, <2>1, <2>2, SpeedupsGoOn
<1> QED
  BY <1>5, <1>6 DEF SpeedupsReply

LEMMA SpeedupsHaltsIInv ==
    ASSUME IInv, SpeedupsHalts
    PROVE  IInv'
<1>1. /\ pc = "spend" /\ Return("failed") /\ UNCHANGED runVars /\ base' = base
      /\ \/ UNCHANGED <<barred, trip, file, saw>>
         \/ trip' = [trip EXCEPT !["speedups"] = TRUE] /\ UNCHANGED <<barred, file, saw>>
         \/ /\ barred' = TRUE /\ trip' = [trip EXCEPT !["speedups"] = TRUE]
            /\ saw' = saw \cup {"speedups"} /\ file' \in FilesAfterTrip
  BY DEF SpeedupsHalts, At, Trip
<1>2. EnvTypes /\ SawInv /\ pos # 0
  BY <1>1, TypeParts, InFeature DEF IInv, Steps, Waits
<1>3. /\ trip' \in [Flags -> BOOLEAN] /\ saw' \subseteq Flags \cup {"tasks"}
      /\ \A f \in Flags : f \in saw' => trip'[f]
      /\ "tasks" \in saw' => "tasks" \in saw
  BY <1>1, <1>2 DEF EnvTypes, SawInv, Flags
<1>4. barred' \in BOOLEAN /\ file' \in BOOLEAN
  BY <1>1, <1>2 DEF EnvTypes, FilesAfterTrip
<1>5. EnvTypes'
  BY <1>1, <1>2, <1>3, <1>4 DEF EnvTypes, runVars
<1>6. pos \in 0 .. 7 /\ Emptied
  BY <1>1, <1>2, TypeParts, ReturnEmpties DEF IInv
<1> QED
  BY <1>2, <1>3, <1>5, <1>6, EmptiedIInv DEF SawInv

-----------------------------------------------------------------------------
(* secret-tasks-start. *)

\* Where secret-tasks-start goes on: it has no ledger.
LEMMA SecretGoesOn ==
    ASSUME IInv, Feature = "secret-tasks-start", pc \in Waits \cup {"loop"}, pos' = pos,
           pc' \in Waits \cup {"loop"}, pc' \notin {"probe", "check"},
           UNCHANGED <<runVars, file, trip, saw, ledger, held, used, probe, pool, room>>,
           base' \in GoldOrNone, barred' \in BOOLEAN,
           left' \in Nat, calls' \in Nat, after' \in GoldOrNone,
           pc' = "place" => left' > 0
    PROVE  IInv'
<1>1. pos # 0 /\ WorkTypes
  BY InFeature, TypeParts DEF IInv, Steps, Waits
<1>2. Feature' = Feature
  BY FeatureStays
<1>3. used' = 0 /\ held' = 0 /\ ledger' = 0
  BY DEF IInv, CountsInv
<1>4. CountsInv'
  BY <1>2, <1>3 DEF CountsInv, Guarded, DigGames
<1>5. WorkTypes'
  BY <1>1 DEF WorkTypes
<1> QED
  BY <1>1, <1>4, <1>5, QuietlyGoesOn DEF Waits

\* Where it returns, with a drop that was seen or without.
LEMMA SecretReturns ==
    ASSUME IInv, Feature = "secret-tasks-start", pc \in Waits \cup {"loop"},
           NEW err, Return(err), UNCHANGED <<path, day, gold, initGold, base, trip>>,
           dead' \in BOOLEAN, barred' \in BOOLEAN, file' \in BOOLEAN,
           saw' = saw \/ saw' = saw \cup {"tasks"}
    PROVE  IInv'
<1>1. EnvTypes /\ SawInv /\ pos = 5
  BY FeatureAt, TypeParts DEF IInv
<1>2. EnvTypes'
  BY <1>1 DEF EnvTypes
<1>3. \A f \in Flags : f \in saw' => trip'[f]
  BY <1>1 DEF SawInv, Flags
<1>4. Emptied
  BY <1>1, ReturnEmpties
<1> QED
  BY <1>1, <1>2, <1>3, <1>4, EmptiedIInv

LEMMA SecretEnterIInv ==
    ASSUME IInv, SecretEnter
    PROVE  IInv'
<1>1. Feature = "secret-tasks-start" /\ pc = "enter" /\ pos' = pos /\ pc' = "list"
  BY DEF SecretEnter, At, Goto
<1>2. pos # 0 /\ used = 0 /\ held = 0 /\ ledger = 0
  BY <1>1, InFeature DEF IInv, CountsInv, Steps
<1>3. Feature' = Feature
  BY <1>1, FeatureStays
<1>4. EnvTypes'
  BY TypeParts DEF IInv, EnvTypes, SecretEnter, runVars, goldVars
<1>5. left' \in Nat
  BY Limits DEF SecretEnter
<1>6. WorkTypes'
  BY <1>5, TypeParts DEF IInv, WorkTypes, SecretEnter
<1>7. FileInv'
  BY <1>1, <1>3 DEF FileInv, SecretEnter, Refused, goldVars
<1>8. CountsInv'
  BY <1>1, <1>2, <1>3 DEF CountsInv, SecretEnter, Guarded, DigGames
<1>9. saw' = saw /\ trip' = trip /\ SawInv
  BY DEF SecretEnter, IInv, goldVars
<1> QED
  BY <1>1, <1>2, <1>4, <1>6, <1>7, <1>8, <1>9, GoesOn DEF Steps, Waits, SawInv

\* What the steps of secret-tasks-start may rely on.
LEMMA SecretTypes ==
    ASSUME IInv
    PROVE  /\ left \in Nat /\ calls \in Nat /\ after \in GoldOrNone /\ base \in GoldOrNone
           /\ gold \in GoldOrNone /\ initGold \in GoldOrNone
           /\ barred \in BOOLEAN /\ dead \in BOOLEAN /\ file \in BOOLEAN
           /\ NoGold \in GoldOrNone
           /\ Carried \subseteq GoldOrNone /\ FilesAfterTrip \subseteq BOOLEAN
           /\ Feature = "secret-tasks-start" /\ pc = "place" => left > 0
BY TypeParts DEF IInv, EnvTypes, WorkTypes, GoldOrNone, Carried, FilesAfterTrip, CountsInv

LEMMA SecretListedIInv ==
    ASSUME IInv, SecretListed
    PROVE  IInv'
<1> USE SecretTypes
<1>1. /\ Feature = "secret-tasks-start" /\ pc = "list"
      /\ UNCHANGED <<runVars, file, trip, saw>>
  BY DEF SecretListed, At
<1>2. CASE Return("failed") /\ UNCHANGED <<base, barred>>
  BY <1>1, <1>2, SecretReturns DEF Waits, runVars
<1>3. ASSUME NEW g \in Carried, NEW known, known = (IF g # NoGold THEN g ELSE initGold),
             base' = known, barred' = FALSE, Goto("loop"), UNCHANGED workVars
      PROVE  IInv'
  <2>1. base' \in GoldOrNone
    BY <1>3
  <2> QED
    BY <1>1, <1>3, <2>1, SecretGoesOn DEF Goto, Waits, workVars
<1> QED
  BY <1>2, <1>3 DEF SecretListed

LEMMA SecretNextIInv ==
    ASSUME IInv, SecretNext
    PROVE  IInv'
<1> USE SecretTypes
<1>1. Feature = "secret-tasks-start" /\ pc = "loop" /\ UNCHANGED <<runVars, goldVars>>
  BY DEF SecretNext, At
<1>2. CASE Return("none")
  BY <1>1, <1>2, SecretReturns DEF Waits, runVars, goldVars
<1>3. CASE /\ left > 0 /\ left' = left - 1
           /\ UNCHANGED <<pos, pc, calls, after, probe, pool, ledger, room, held, used>>
  <2>1. left' \in Nat
    BY <1>3
  <2> QED
    BY <1>1, <1>3, <2>1, SecretGoesOn DEF Waits, goldVars
<1>4. CASE left > 0 /\ Goto("place") /\ UNCHANGED workVars
  BY <1>1, <1>4, SecretGoesOn DEF Goto, Waits, workVars, goldVars
<1> QED
  BY <1>2, <1>3, <1>4 DEF SecretNext

LEMMA SecretStartIInv ==
    ASSUME IInv, SecretStart
    PROVE  IInv'
<1> USE SecretTypes
<1>1. /\ Feature = "secret-tasks-start" /\ pc \in {"loop", "place"} /\ left > 0
      /\ UNCHANGED <<runVars, goldVars, probe, pool, ledger, room, held, used>>
      /\ pos' = pos /\ pc' = "spend" /\ after' = NoGold
  BY DEF SecretStart, At, Goto
<1>2. left' \in Nat /\ calls' \in Nat
  BY <1>1 DEF SecretStart
<1> QED
  BY <1>1, <1>2, SecretGoesOn DEF Waits, goldVars

LEMMA SecretNotPlacedIInv ==
    ASSUME IInv, SecretNotPlaced
    PROVE  IInv'
<1> USE SecretTypes
<1>1. /\ Feature = "secret-tasks-start" /\ pc = "place" /\ left > 0
      /\ UNCHANGED <<runVars, goldVars, probe, pool, ledger, room, calls, after, held, used>>
      /\ pos' = pos /\ pc' = "loop"
  BY DEF SecretNotPlaced, At, Goto
<1>2. left' \in Nat
  BY <1>1 DEF SecretNotPlaced
<1> QED
  BY <1>1, <1>2, SecretGoesOn DEF Waits, goldVars

LEMMA SecretStartedIInv ==
    ASSUME IInv, SecretStarted
    PROVE  IInv'
<1> USE SecretTypes
<1>1. /\ Feature = "secret-tasks-start" /\ pc = "spend" /\ after' \in GoldOrNone
      /\ UNCHANGED <<runVars, goldVars, probe, left, pool, ledger, room, calls, held, used>>
      /\ pos' = pos /\ pc' = "relist"
  BY DEF SecretStarted, At, Goto
<1> QED
  BY <1>1, SecretGoesOn DEF Waits, goldVars

LEMMA LowerType ==
    ASSUME NEW a \in GoldOrNone, NEW b \in GoldOrNone
    PROVE  Lower(a, b) \in GoldOrNone
BY DEF Lower, Lesser, GoldOrNone

LEMMA SecretRelistedIInv ==
    ASSUME IInv, SecretRelisted
    PROVE  IInv'
<1> USE SecretTypes
<1>1. Feature = "secret-tasks-start" /\ pc = "relist" /\ UNCHANGED runVars
  BY DEF SecretRelisted, At
<1>2. CASE /\ barred' = TRUE /\ saw' = saw \cup {"tasks"} /\ file' \in FilesAfterTrip
           /\ Return("failed") /\ UNCHANGED <<base, trip>>
  BY <1>1, <1>2, SecretReturns DEF Waits, runVars
<1>3. ASSUME NEW g \in Carried, base' = BaseAfter(Lower(after, g)), Goto("loop"), after' = NoGold,
             UNCHANGED <<barred, trip, file, saw, probe, left, pool, ledger, room, calls, held, used>>
      PROVE  IInv'
  <2>1. base' \in GoldOrNone
    BY <1>3, LowerType DEF BaseAfter
  <2> QED
    BY <1>1, <1>3, <2>1, SecretGoesOn DEF Goto, Waits
<1> QED
  BY <1>2, <1>3 DEF SecretRelisted

LEMMA SecretRelistFailsIInv ==
    ASSUME IInv, SecretRelistFails
    PROVE  IInv'
<1> USE SecretTypes
<1>1. /\ Feature = "secret-tasks-start" /\ pc = "relist" /\ Return("failed")
      /\ UNCHANGED <<path, day, gold, initGold>>
  BY DEF SecretRelistFails, At
<1>2. CASE /\ barred' = TRUE /\ saw' = saw \cup {"tasks"} /\ file' \in FilesAfterTrip
           /\ dead' \in BOOLEAN /\ UNCHANGED <<base, trip>>
  BY <1>1, <1>2, SecretReturns DEF Waits
<1>3. CASE UNCHANGED <<dead, goldVars>>
  BY <1>1, <1>3, SecretReturns DEF Waits, goldVars
<1> QED
  BY <1>2, <1>3 DEF SecretRelistFails

-----------------------------------------------------------------------------
(* treasure-digs and the digsRun games. *)

\* What their steps may rely on.
LEMMA DigTypes ==
    ASSUME IInv
    PROVE  /\ EnvTypes /\ WorkTypes
           /\ gold \in GoldOrNone /\ NoGold \in GoldOrNone /\ FilesAfterTrip \subseteq BOOLEAN
           /\ Feature = "treasure-digs" => ledger + used <= held
           /\ Feature = "treasure-digs" /\ pc = "spend" => left > 0
           /\ Feature \in DigGames =>
                 IF pc = "spend" THEN ledger >= 1 /\ used >= 1 /\ ledger + used <= held + 1
                 ELSE ledger + used <= held
BY TypeParts DEF IInv, CountsInv, EnvTypes, GoldOrNone, FilesAfterTrip

\* Where treasure-digs goes on.
LEMMA DigsGoesOn ==
    ASSUME IInv, Feature = "treasure-digs", pc \in {"loop", "list", "claim", "spend"},
           pos' = pos, pc' \in {"loop", "claim", "spend"}, UNCHANGED <<runVars, goldVars>>,
           WorkTypes', ledger' + used' <= held', pc' = "spend" => left' > 0
    PROVE  IInv'
<1>1. pos # 0
  BY InFeature DEF Steps, Waits
<1>2. Feature' = Feature
  BY FeatureStays
<1>3. CountsInv'
  BY <1>2 DEF CountsInv, Guarded, DigGames
<1>4. base \in GoldOrNone /\ barred \in BOOLEAN
  BY DigTypes DEF EnvTypes
<1> QED
  BY <1>1, <1>3, <1>4, QuietlyGoesOn DEF goldVars, Waits

LEMMA DigsEnterIInv ==
    ASSUME IInv, DigsEnter
    PROVE  IInv'
<1>1. Feature = "treasure-digs" /\ pc = "enter" /\ pos' = pos /\ pc' = "list"
  BY DEF DigsEnter, At, Goto
<1>2. pos # 0 /\ used = 0
  BY <1>1, InFeature DEF IInv, CountsInv, Steps
<1>3. Feature' = Feature
  BY <1>1, FeatureStays
<1>4. EnvTypes'
  BY DigTypes DEF EnvTypes, DigsEnter, runVars
<1>5. PICK h \in Nat : held' = h /\ ledger' = h
  BY Limits DEF DigsEnter
<1>6. left' \in Nat
  BY Limits DEF DigsEnter
<1>7. WorkTypes'
  BY <1>5, <1>6, DigTypes DEF WorkTypes, DigsEnter
<1>8. FileInv'
  BY <1>1, <1>3 DEF FileInv, DigsEnter
<1>9. CountsInv'
  <2>1. ledger' + 0 <= held'
    BY <1>5
  <2>2. used' = 0
    BY <1>2 DEF DigsEnter
  <2> QED
    BY <1>1, <1>3, <2>1, <2>2 DEF CountsInv, Guarded, DigGames
<1>10. saw' = saw /\ trip' = trip /\ SawInv
  BY DEF DigsEnter, IInv
<1> QED
  BY <1>1, <1>2, <1>4, <1>7, <1>8, <1>9, <1>10, GoesOn DEF Steps, Waits, SawInv

LEMMA DigsListedIInv ==
    ASSUME IInv, DigsListed
    PROVE  IInv'
<1>1. Feature = "treasure-digs" /\ pc = "list" /\ pos' = pos /\ pc' = "loop"
      /\ UNCHANGED <<runVars, goldVars, workVars>>
  BY DEF DigsListed, At, Goto
<1>2. WorkTypes' /\ ledger' + used' <= held'
  BY <1>1, DigTypes DEF WorkTypes, workVars
<1> QED
  BY <1>1, <1>2, DigsGoesOn

LEMMA DigsClaimIInv ==
    ASSUME IInv, DigsClaim
    PROVE  IInv'
<1>1. /\ Feature = "treasure-digs" /\ pc = "loop" /\ pos' = pos /\ pc' = "claim"
      /\ UNCHANGED <<runVars, goldVars, probe, left, pool, ledger, room, after, held, used>>
  BY DEF DigsClaim, At, Goto
<1>2. calls' \in Nat
  BY DigTypes DEF WorkTypes, DigsClaim
<1>3. WorkTypes' /\ ledger' + used' <= held'
  BY <1>1, <1>2, DigTypes DEF WorkTypes
<1> QED
  BY <1>1, <1>3, DigsGoesOn

\* A ledger up to what is held leaves the rest as asked for.
LEMMA Rest ==
    ASSUME NEW h \in Nat, NEW a \in Nat, a <= h
    PROVE  h - a \in Nat /\ a + (h - a) <= h
OBVIOUS

LEMMA DigsClaimedIInv ==
    ASSUME IInv, DigsClaimed
    PROVE  IInv'
<1>1. /\ Feature = "treasure-digs" /\ pc = "claim" /\ pos' = pos /\ pc' = "loop"
      /\ UNCHANGED <<runVars, goldVars, probe, left, pool, room, calls, after>>
  BY DEF DigsClaimed, At, Goto
<1>2. ledger \in Nat /\ held \in Nat
  BY DigTypes DEF WorkTypes
<1>3. PICK gain \in 0 .. MaxHeld - held :
         held' = held + gain /\ ledger' \in ledger + gain .. held' /\ used' = held' - ledger'
  BY DEF DigsClaimed
<1>4. PICK h \in Nat : h = held + gain
  BY <1>2, <1>3, Limits
<1>5. PICK a \in Nat : a = ledger' /\ a <= h
  BY <1>2, <1>3, <1>4, Limits
<1>6. held' = h /\ ledger' = a /\ used' = h - a
  BY <1>3, <1>4, <1>5
<1>7. h - a \in Nat /\ a + (h - a) <= h
  BY <1>5, Rest
<1>8. WorkTypes' /\ ledger' + used' <= held'
  BY <1>1, <1>6, <1>7, DigTypes DEF WorkTypes
<1> QED
  BY <1>1, <1>8, DigsGoesOn

LEMMA DigsOpenIInv ==
    ASSUME IInv, DigsOpen
    PROVE  IInv'
<1>1. /\ Feature = "treasure-digs" /\ pc = "loop" /\ pos' = pos /\ pc' = "spend"
      /\ left > 0 /\ ledger > 0
      /\ ledger' = ledger - 1 /\ used' = used + 1 /\ calls' = calls + 1
      /\ UNCHANGED <<runVars, goldVars, probe, left, pool, room, after, held>>
  BY DEF DigsOpen, At, Goto
<1>2. WorkTypes /\ ledger + used <= held
  BY <1>1, DigTypes
<1>3. ledger - 1 \in Nat /\ used + 1 \in Nat /\ (ledger - 1) + (used + 1) <= held
  BY <1>1, <1>2, Moved DEF WorkTypes
<1>4. calls' \in Nat
  BY <1>1, <1>2 DEF WorkTypes
<1>5. WorkTypes' /\ ledger' + used' <= held'
  BY <1>1, <1>2, <1>3, <1>4 DEF WorkTypes
<1> QED
  BY <1>1, <1>5, DigsGoesOn

LEMMA DigsOpenedIInv ==
    ASSUME IInv, DigsOpened
    PROVE  IInv'
<1>1. /\ Feature = "treasure-digs" /\ pc = "spend" /\ pos' = pos /\ pc' = "loop"
      /\ left' \in {left, left - 1}
      /\ UNCHANGED <<runVars, goldVars, probe, pool, ledger, room, calls, after, held, used>>
  BY DEF DigsOpened, At, Goto
<1>2. left' \in Nat
  BY <1>1, DigTypes DEF WorkTypes
<1>3. WorkTypes' /\ ledger' + used' <= held'
  BY <1>1, <1>2, DigTypes DEF WorkTypes
<1> QED
  BY <1>1, <1>3, DigsGoesOn

LEMMA DigsNextBoardIInv ==
    ASSUME IInv, DigsNextBoard
    PROVE  IInv'
<1>1. Feature = "treasure-digs" /\ pc = "loop" /\ UNCHANGED <<runVars, goldVars>>
  BY DEF DigsNextBoard, At
<1>2. pos # 0 /\ base \in GoldOrNone /\ dead \in BOOLEAN
  BY <1>1, InFeature, DigTypes DEF Steps, EnvTypes
<1>3. CASE Return("none")
  BY <1>1, <1>2, <1>3, QuietReturn DEF goldVars, runVars
<1>4. CASE /\ left > 0 /\ left' = left - 1
           /\ UNCHANGED <<pos, pc, probe, pool, ledger, room, calls, after, held, used>>
  <2>1. left' \in Nat
    BY <1>4, DigTypes DEF WorkTypes
  <2>2. WorkTypes' /\ ledger' + used' <= held'
    BY <1>1, <1>4, <2>1, DigTypes DEF WorkTypes
  <2> QED
    BY <1>1, <1>4, <2>2, DigsGoesOn
<1> QED
  BY <1>3, <1>4 DEF DigsNextBoard

\* Where a dig game goes on.
LEMMA DigGameGoesOn ==
    ASSUME IInv, Feature \in DigGames, pc \in {"loop", "list", "claim", "spend"},
           pos' = pos, pc' \in {"loop", "list", "claim", "spend"},
           UNCHANGED <<runVars, file, trip, saw, barred>>, base' \in GoldOrNone,
           WorkTypes',
           IF pc' = "spend" THEN ledger' >= 1 /\ used' >= 1 /\ ledger' + used' <= held' + 1
           ELSE ledger' + used' <= held'
    PROVE  IInv'
<1>1. pos # 0
  BY InFeature DEF Steps, Waits
<1>2. Feature' = Feature
  BY FeatureStays
<1>3. CountsInv'
  BY <1>2 DEF CountsInv, Guarded, DigGames
<1>4. barred \in BOOLEAN
  BY DigTypes DEF EnvTypes
<1> QED
  BY <1>1, <1>3, <1>4, QuietlyGoesOn DEF Waits

LEMMA DigGameEnterIInv ==
    ASSUME IInv, DigGameEnter
    PROVE  IInv'
<1>1. Feature \in DigGames /\ pc = "enter" /\ pos' = pos /\ pc' = "list"
  BY DEF DigGameEnter, Goto
<1>2. pos # 0 /\ used = 0
  BY <1>1, InFeature DEF IInv, CountsInv, Steps
<1>3. Feature' = Feature
  BY <1>1, FeatureStays
<1>4. EnvTypes'
  BY DigTypes DEF EnvTypes, DigGameEnter, runVars
<1>5. PICK h \in Nat : held' = h /\ ledger' = h
  BY Limits DEF DigGameEnter
<1>6. WorkTypes'
  BY <1>5, DigTypes DEF WorkTypes, DigGameEnter
<1>7. FileInv'
  BY <1>1, <1>3 DEF FileInv, DigGames
<1>8. CountsInv'
  <2>1. ledger' + 0 <= held'
    BY <1>5
  <2>2. used' = 0
    BY <1>2 DEF DigGameEnter
  <2> QED
    BY <1>1, <1>3, <2>1, <2>2 DEF CountsInv, Guarded, DigGames
<1>9. saw' = saw /\ trip' = trip /\ SawInv
  BY DEF DigGameEnter, IInv
<1> QED
  BY <1>1, <1>2, <1>4, <1>6, <1>7, <1>8, <1>9, GoesOn DEF Steps, Waits, SawInv

\* The pickaxe that a dig took, and the one that a refused dig did not.
LEMMA Dug ==
    ASSUME NEW a \in Nat, NEW u \in Nat, NEW h \in Nat, a >= 1, u >= 1, a + u <= h + 1
    PROVE  /\ a - 1 \in Nat /\ (a - 1) + u <= h
           /\ u - 1 \in Nat /\ a + (u - 1) <= h /\ 0 + (u - 1) <= h
OBVIOUS

LEMMA DigGameAnsweredIInv ==
    ASSUME IInv, DigGameAnswered
    PROVE  IInv'
<1>1. /\ Feature \in DigGames /\ pc \in {"list", "claim", "spend"} /\ UNCHANGED runVars
      /\ EnvTypes /\ WorkTypes /\ SawInv
  BY DigTypes DEF DigGameAnswered, IInv
<1>2. PICK g \in Carried : CheckGold(g)
  BY DEF DigGameAnswered
<1>3. pos # 0
  BY <1>1, InFeature DEF Steps, Waits
<1>4. CASE barred'
  <2>1. Return("failed")
    BY <1>4 DEF DigGameAnswered
  <2>2. Emptied
    BY <1>3, <2>1, ReturnEmpties
  <2>3. base' \in GoldOrNone
    BY <1>1, <1>2, DigTypes DEF CheckGold, BaseAfter, Carried, EnvTypes
  <2>4. \/ UNCHANGED <<barred, trip, file, saw>>
        \/ /\ barred' = TRUE /\ trip' = [trip EXCEPT !["digs"] = TRUE]
           /\ saw' = saw \cup {"digs"} /\ file' \in FilesAfterTrip
    BY <1>2 DEF CheckGold, Trip
  <2>5. /\ trip' \in [Flags -> BOOLEAN] /\ saw' \subseteq Flags \cup {"tasks"}
        /\ \A f \in Flags : f \in saw' => trip'[f]
        /\ "tasks" \in saw' => "tasks" \in saw
    BY <1>1, <2>4 DEF EnvTypes, SawInv, Flags
  <2>6. barred' \in BOOLEAN /\ file' \in BOOLEAN
    BY <1>1, <2>4 DEF EnvTypes, FilesAfterTrip
  <2>7. EnvTypes'
    BY <1>1, <2>3, <2>5, <2>6 DEF EnvTypes, runVars
  <2>8. pos \in 0 .. 7
    BY TypeParts DEF IInv
  <2> QED
    BY <1>1, <1>3, <2>2, <2>5, <2>7, <2>8, EmptiedIInv DEF SawInv
<1>5. CASE ~barred'
  <2>1. base' \in GoldOrNone /\ UNCHANGED <<barred, trip, file, saw>>
    BY <1>1, <1>2, <1>5, DigTypes DEF CheckGold, BaseAfter, Carried, EnvTypes
  <2>2. /\ ledger' = IF pc = "spend" THEN ledger - 1 ELSE ledger
        /\ pos' = pos /\ pc' \in {"loop", "list"}
        /\ UNCHANGED <<probe, left, pool, room, calls, after, held, used>>
    BY <1>5 DEF DigGameAnswered, Goto
  <2>3. CASE pc = "spend"
    <3>1. ledger - 1 \in Nat /\ (ledger - 1) + used <= held
      BY <1>1, <2>3, DigTypes, Dug DEF WorkTypes
    <3>2. WorkTypes' /\ ledger' + used' <= held'
      BY <1>1, <2>2, <2>3, <3>1 DEF WorkTypes
    <3> QED
      BY <1>1, <2>1, <2>2, <3>2, DigGameGoesOn
  <2>4. CASE pc # "spend"
    <3>1. WorkTypes' /\ ledger' + used' <= held'
      BY <1>1, <2>2, <2>4, DigTypes DEF WorkTypes
    <3> QED
      BY <1>1, <2>1, <2>2, <3>1, DigGameGoesOn
  <2> QED
    BY <2>3, <2>4
<1> QED
  BY <1>4, <1>5

LEMMA DigGameRefusedIInv ==
    ASSUME IInv, DigGameRefused
    PROVE  IInv'
<1>1. /\ Feature \in DigGames /\ pc \in {"claim", "spend"} /\ pos' = pos /\ pc' = "loop"
      /\ UNCHANGED <<runVars, goldVars, probe, left, pool, room, calls, after, held>>
      /\ WorkTypes /\ base \in GoldOrNone
  BY DigTypes DEF DigGameRefused, Goto, EnvTypes
<1>2. CASE pc = "spend"
  <2>1. used' = used - 1 /\ ledger' \in {0, ledger}
    BY <1>2 DEF DigGameRefused
  <2>2. used - 1 \in Nat /\ ledger + (used - 1) <= held /\ 0 + (used - 1) <= held
    BY <1>1, <1>2, DigTypes, Dug DEF WorkTypes
  <2>3. WorkTypes' /\ ledger' + used' <= held'
    <3>1. CASE ledger' = 0
      BY <1>1, <2>1, <2>2, <3>1 DEF WorkTypes
    <3>2. CASE ledger' = ledger
      BY <1>1, <2>1, <2>2, <3>2 DEF WorkTypes
    <3> QED
      BY <2>1, <3>1, <3>2
  <2> QED
    BY <1>1, <2>3, DigGameGoesOn DEF goldVars
<1>3. CASE pc = "claim"
  <2>1. UNCHANGED <<used, ledger>>
    BY <1>3 DEF DigGameRefused
  <2>2. WorkTypes' /\ ledger' + used' <= held'
    BY <1>1, <1>3, <2>1, DigTypes DEF WorkTypes
  <2> QED
    BY <1>1, <2>2, DigGameGoesOn DEF goldVars
<1> QED
  BY <1>1, <1>2, <1>3

LEMMA DigGameWriteIInv ==
    ASSUME IInv, DigGameWrite
    PROVE  IInv'
<1>1. /\ Feature \in DigGames /\ pc = "loop" /\ pos' = pos
      /\ UNCHANGED <<runVars, goldVars, probe, left, pool, ledger, room, after, held>>
      /\ WorkTypes /\ base \in GoldOrNone /\ ledger + used <= held
  BY DigTypes DEF DigGameWrite, Goto, EnvTypes
<1>2. calls' \in Nat
  BY <1>1 DEF DigGameWrite, WorkTypes
<1>3. CASE pc' = "claim" /\ UNCHANGED used
  <2>1. WorkTypes' /\ ledger' + used' <= held'
    BY <1>1, <1>2, <1>3 DEF WorkTypes
  <2> QED
    BY <1>1, <1>3, <2>1, DigGameGoesOn DEF goldVars
<1>4. CASE ledger > 0 /\ used' = used + 1 /\ pc' = "spend"
  <2>1. ledger >= 1 /\ used + 1 \in Nat /\ used + 1 >= 1 /\ ledger + (used + 1) <= held + 1
    BY <1>1, <1>4 DEF WorkTypes
  <2>2. WorkTypes' /\ ledger' >= 1 /\ used' >= 1 /\ ledger' + used' <= held' + 1
    BY <1>1, <1>2, <1>4, <2>1 DEF WorkTypes
  <2> QED
    BY <1>1, <1>4, <2>2, DigGameGoesOn DEF goldVars
<1> QED
  BY <1>3, <1>4 DEF DigGameWrite, Goto

LEMMA DigGameEndsIInv ==
    ASSUME IInv, DigGameUnanswered \/ DigGameDone
    PROVE  IInv'
<1>1. /\ pc \in Steps \ {"idle", "duel"} /\ UNCHANGED <<runVars, goldVars>>
      /\ Return("failed") \/ Return("none")
  BY DEF DigGameUnanswered, DigGameDone, Steps, Waits
<1>2. pos # 0 /\ base \in GoldOrNone /\ dead \in BOOLEAN
  BY <1>1, InFeature, DigTypes DEF EnvTypes
<1> QED
  BY <1>1, <1>2, QuietReturn DEF goldVars, runVars

-----------------------------------------------------------------------------
(* The theorems. *)

LEMMA RunsIInv == IInv /\ Runs => IInv'
<1> SUFFICES ASSUME IInv, Runs PROVE IInv'
  OBVIOUS
<1>1. CASE LogDuelStatus \/ Skip \/ Breaks
  BY <1>1, LogDuelStatusIInv, SkipIInv, BreaksIInv
<1>2. CASE Guard
  BY <1>2, ProbeAnsweredIInv, SpendAcceptedIInv, CheckAnsweredIInv DEF Guard
<1>3. CASE Recruit
  BY <1>3, RecruitEnterIInv, RecruitInfoIInv, RecruitPullIInv, RecruitPoolDoneIInv,
     RecruitFailsIInv DEF Recruit
<1>4. CASE Train
  BY <1>4, TrainEnterIInv, TrainCampIInv, TrainEndsIInv DEF Train
<1>5. CASE Speedups
  BY <1>5, SpeedupsEnterIInv, SpeedupsApplyIInv, SpeedupsNextJobIInv, SpeedupsReplyIInv,
     SpeedupsHaltsIInv DEF Speedups
<1>6. CASE Secret
  BY <1>6, SecretEnterIInv, SecretListedIInv, SecretNextIInv, SecretStartIInv,
     SecretNotPlacedIInv, SecretStartedIInv, SecretRelistedIInv, SecretRelistFailsIInv DEF Secret
<1>7. CASE Digs
  BY <1>7, DigsEnterIInv, DigsListedIInv, DigsClaimIInv, DigsClaimedIInv, DigsOpenIInv,
     DigsOpenedIInv, DigsNextBoardIInv DEF Digs
<1>8. CASE DigGame
  BY <1>8, DigGameEnterIInv, DigGameAnsweredIInv, DigGameRefusedIInv, DigGameWriteIInv,
     DigGameEndsIInv DEF DigGame
<1> QED
  BY <1>1, <1>2, <1>3, <1>4, <1>5, <1>6, <1>7, <1>8 DEF Runs

LEMMA NextIInv == IInv /\ [Next]_vars => IInv'
<1> SUFFICES ASSUME IInv, [Next]_vars PROVE IInv'
  OBVIOUS
<1>1. CASE UNCHANGED vars
  BY <1>1 DEF vars, IInv, TypeOK, FlowInv, FileInv, SawInv, CountsInv, Feature
<1>2. CASE Runs
  BY <1>2, RunsIInv
<1>3. CASE StartRun \/ Killed \/ ReadsGold \/ ReadsCount
  BY <1>3, StartRunIInv, KilledIInv, ReadsGoldIInv, ReadsCountIInv
<1>4. CASE GoldMoves \/ DayEnds \/ ClearTripwire
  BY <1>4, BesideIInv
<1> QED
  BY <1>1, <1>2, <1>3, <1>4 DEF Next

\* The inductive invariant holds throughout, with or without fairness.
THEOREM SafeSpecIInv == SafeSpec => []IInv
BY InitIInv, NextIInv, PTL DEF SafeSpec

LEMMA SpecIsSafe == Spec => SafeSpec
BY PTL DEF Spec

\* Every variable keeps to its values.
THEOREM TypeCorrect == Spec => []TypeOK
<1>1. IInv => TypeOK
  BY DEF IInv
<1> QED
  BY <1>1, SafeSpecIInv, SpecIsSafe, PTL

\* No feature asks for more items than were held when it began plus what it
\* was granted, whichever replies are lost or refused.
THEOREM NeverBeyondHeld == Spec => []WithinHeld
<1>1. IInv => WithinHeld
  <2> SUFFICES ASSUME IInv PROVE used <= held
    BY DEF WithinHeld
  <2>1. WorkTypes /\ pos \in 0 .. 7 /\ pc \in Steps
    BY TypeParts DEF IInv
  <2>2. CASE Feature \in {"none", "secret-tasks-start"}
    <3>1. used = 0 /\ held = 0
      BY <2>1, <2>2, FeatureAt DEF IInv, FlowInv, CountsInv
    <3> QED
      BY <3>1
  <2>3. CASE Feature \in Guarded \cup {"treasure-digs"}
    BY <2>1, <2>3 DEF IInv, CountsInv, WorkTypes
  <2>4. CASE Feature \in DigGames
    BY <2>1, <2>4 DEF IInv, CountsInv, WorkTypes
  <2>5. CASE Feature = "duel-speedups"
    BY <2>1, <2>5 DEF IInv, CountsInv, WorkTypes
  <2>6. \/ Feature \in {"none", "secret-tasks-start"} \/ Feature \in Guarded \cup {"treasure-digs"}
        \/ Feature \in DigGames \/ Feature = "duel-speedups"
    BY <2>1, FeatureNames
  <2> QED
    BY <2>2, <2>3, <2>4, <2>5, <2>6
<1> QED
  BY <1>1, SafeSpecIInv, SpecIsSafe, PTL

\* The steps that send a request that spends, and what each has found.
LEMMA SpendingStep ==
    ASSUME IInv, [Next]_vars, Spends
    PROVE  /\ ~file
           /\ \/ Feature \in Guarded /\ ~trip.duel
              \/ Feature = "duel-speedups" /\ ~trip.speedups
              \/ Feature = "secret-tasks-start"
              \/ Feature = "treasure-digs"
              \/ Feature \in DigGames /\ ~trip.digs
<1>1. pc # "spend" /\ pc' = "spend"
  BY DEF Spends
<1>2. ~Return("none") /\ ~Return("failed") /\ ~Return("dead") /\ ~Return("barred")
  BY <1>1 DEF Return, NextFeature, Stop
<1>3. ~UNCHANGED vars /\ ~UNCHANGED pc
  BY <1>1 DEF vars
<1>4. \A s \in {"loop", "info", "probe", "check", "list", "place", "relist", "claim"} : ~Goto(s)
  BY <1>1 DEF Goto
<1>5. CASE LogDuelStatus \/ Skip \/ Breaks \/ StartRun \/ Killed
  BY <1>1, <1>2, <1>5 DEF LogDuelStatus, Skip, Breaks, StartRun, Killed, Stop
<1>6. CASE ReadsGold \/ ReadsCount \/ GoldMoves \/ DayEnds \/ ClearTripwire
  BY <1>3, <1>6 DEF ReadsGold, ReadsCount, GoldMoves, DayEnds, ClearTripwire
<1>7. CASE Guard
  BY <1>1, <1>2, <1>4, <1>7 DEF Guard, ProbeAnswered, SpendAccepted, CheckAnswered
<1>8. CASE Recruit
  <2>1. ~NextPool /\ ~ArmGuard
    BY <1>2, <1>4 DEF NextPool, ArmGuard
  <2>2. RecruitPull
    BY <1>2, <1>4, <1>8, <2>1 DEF Recruit, RecruitEnter, RecruitInfo, RecruitPoolDone, RecruitFails
  <2> QED
    BY <2>2 DEF RecruitPull, GuardRefuses, Refused, At, Guarded
<1>9. CASE Train
  <2>1. ~ArmGuard
    BY <1>4 DEF ArmGuard
  <2>2. TrainCamp
    BY <1>2, <1>9, <2>1 DEF Train, TrainEnter, TrainDone, TrainFails
  <2>3. ~GuardRefuses /\ Feature = "duel-troop-training"
    BY <1>3, <2>2 DEF TrainCamp, At
  <2> QED
    BY <2>3 DEF GuardRefuses, Refused, Guarded
<1>10. CASE Speedups
  <2>1. SpeedupsApply
    BY <1>2, <1>3, <1>4, <1>10 DEF Speedups, SpeedupsEnter, SpeedupsNextJob, SpeedupsReply, SpeedupsHalts
  <2> QED
    BY <2>1 DEF SpeedupsApply, At, IInv, FileInv
<1>11. CASE Secret
  <2>1. SecretStart
    BY <1>2, <1>3, <1>4, <1>11 DEF Secret, SecretEnter, SecretListed, SecretNext, SecretNotPlaced,
       SecretStarted, SecretRelisted, SecretRelistFails
  <2> QED
    BY <2>1 DEF SecretStart, At, IInv, FileInv
<1>12. CASE Digs
  <2>1. DigsOpen
    BY <1>2, <1>3, <1>4, <1>12 DEF Digs, DigsEnter, DigsListed, DigsClaim, DigsClaimed, DigsOpened,
       DigsNextBoard
  <2> QED
    BY <2>1 DEF DigsOpen, At, IInv, FileInv
<1>13. CASE DigGame
  <2>1. DigGameWrite
    BY <1>2, <1>4, <1>13 DEF DigGame, DigGameEnter, DigGameAnswered, DigGameRefused,
       DigGameUnanswered, DigGameDone
  <2> QED
    BY <1>4, <2>1 DEF DigGameWrite
<1> QED
  BY <1>3, <1>5, <1>6, <1>7, <1>8, <1>9, <1>10, <1>11, <1>12, <1>13 DEF Next, Runs

\* While the tripwire file exists no spend request is sent, by any run.
THEOREM FileStopsEverySpend == Spec => FileStopsSpends
<1>1. IInv /\ [Next]_vars => [Spends => ~file]_vars
  BY SpendingStep
<1> QED
  BY <1>1, SafeSpecIInv, SpecIsSafe, PTL DEF SafeSpec, FileStopsSpends

\* A feature that has seen a drop spends no more in that process, with or
\* without the file.
THEOREM SeenDropStops == Spec => SeenDropStopsItsOwn
<1>1. IInv /\ [Next]_vars => [Spends => Flag(Feature) \notin saw]_vars
  <2> SUFFICES ASSUME IInv, [Next]_vars, Spends PROVE Flag(Feature) \notin saw
    OBVIOUS
  <2>1. SawInv /\ EnvTypes /\ pos \in 0 .. 7
    BY TypeParts DEF IInv
  <2>2. CASE Feature \in Guarded /\ ~trip.duel
    <3>1. Flag(Feature) = "duel"
      BY <2>2 DEF Flag, Guarded, DigGames
    <3> QED
      BY <2>1, <2>2, <3>1 DEF SawInv, Flags
  <2>3. CASE Feature = "duel-speedups" /\ ~trip.speedups
    <3>1. Flag(Feature) = "speedups"
      BY <2>3 DEF Flag, Guarded, DigGames
    <3> QED
      BY <2>1, <2>3, <3>1 DEF SawInv, Flags
  <2>4. CASE Feature = "secret-tasks-start"
    BY <2>1, <2>4, FeatureAt DEF SawInv, Flag, Guarded, DigGames
  <2>5. CASE Feature = "treasure-digs"
    BY <2>1, <2>5 DEF EnvTypes, Flag, Flags, Guarded, DigGames
  <2>6. CASE Feature \in DigGames /\ ~trip.digs
    BY <2>1, <2>6 DEF SawInv, Flag, Flags, Guarded, DigGames
  <2> QED
    BY <2>2, <2>3, <2>4, <2>5, <2>6, SpendingStep
<1> QED
  BY <1>1, SafeSpecIInv, SpecIsSafe, PTL DEF SafeSpec, SeenDropStopsItsOwn

-----------------------------------------------------------------------------
(* Radar: the helps that cost stamina, counted by their places in a list.   *)

Paid(t) == Type(t) = "help" /\ ~TaskFacts[t].free

PaidIn(s) == {i \in 1 .. Len(s) : Paid(s[i])}

Helps(s) == Cardinality(PaidIn(s))

LEMMA HelpsType ==
    ASSUME NEW S, NEW s \in Seq(S)
    PROVE  /\ IsFiniteSet(PaidIn(s)) /\ Helps(s) \in Nat /\ Helps(s) <= Len(s)
           /\ PaidIn(s) = {} <=> Helps(s) = 0
<1>1. IsFiniteSet(1 .. Len(s)) /\ Cardinality(1 .. Len(s)) = Len(s)
  <2>1. 1 \in Int /\ Len(s) \in Int /\ Len(s) >= 0
    OBVIOUS
  <2>2. Cardinality(1 .. Len(s)) = (IF 1 > Len(s) THEN 0 ELSE Len(s) - 1 + 1) /\ IsFiniteSet(1 .. Len(s))
    BY <2>1, FS_Interval
  <2> QED
    BY <2>1, <2>2
<1>2. PaidIn(s) \in SUBSET (1 .. Len(s))
  BY DEF PaidIn
<1>3. IsFiniteSet(PaidIn(s)) /\ Cardinality(PaidIn(s)) <= Cardinality(1 .. Len(s))
  BY <1>1, <1>2, FS_Subset
<1> QED
  BY <1>1, <1>3, FS_CardinalityType, FS_EmptySet DEF Helps

\* The helps of two lists, one after the other.
LEMMA HelpsConcat ==
    ASSUME NEW S, NEW s \in Seq(S), NEW t \in Seq(S)
    PROVE  Helps(s \o t) = Helps(s) + Helps(t)
<1> DEFINE n == Len(s)
           late == {i \in n + 1 .. n + Len(t) : Paid(t[i - n])}
           f == [i \in PaidIn(t) |-> i + n]
<1>1. n \in Nat /\ Len(t) \in Nat /\ Len(s \o t) = n + Len(t)
  OBVIOUS
<1>2. \A i \in 1 .. n + Len(t) : (s \o t)[i] = IF i <= n THEN s[i] ELSE t[i - n]
  OBVIOUS
<1>3. PaidIn(s \o t) = PaidIn(s) \cup late
  <2>1. ASSUME NEW i
        PROVE  i \in PaidIn(s \o t) <=> i \in PaidIn(s) \cup late
    <3>1. CASE i \in 1 .. n
      BY <1>1, <1>2, <3>1 DEF PaidIn
    <3>2. CASE i \in n + 1 .. n + Len(t)
      BY <1>1, <1>2, <3>2 DEF PaidIn
    <3>3. CASE i \notin 1 .. n + Len(t)
      BY <1>1, <3>3 DEF PaidIn
    <3> QED
      BY <1>1, <3>1, <3>2, <3>3
  <2> QED
    BY <2>1
<1>4. PaidIn(s) \cap late = {}
  BY <1>1 DEF PaidIn
<1>5. f \in Bijection(PaidIn(t), late)
  <2>1. \A i \in PaidIn(t) : i \in Nat /\ f[i] = i + n /\ f[i] \in late
    BY <1>1 DEF PaidIn
  <2>2. \A j \in late : j - n \in PaidIn(t) /\ j = f[j - n]
    BY <1>1 DEF PaidIn
  <2>3. f \in [PaidIn(t) -> late]
    BY <2>1
  <2>4. \A i, j \in PaidIn(t) : f[i] = f[j] => i = j
    BY <1>1, <2>1
  <2> HIDE DEF f, late
  <2>5. f \in Surjection(PaidIn(t), late)
    BY <2>2, <2>3 DEF Surjection
  <2>6. f \in Injection(PaidIn(t), late)
    BY <2>3, <2>4 DEF Injection, IsInjective
  <2> QED
    BY <2>5, <2>6 DEF Bijection
<1>6. IsFiniteSet(PaidIn(s)) /\ IsFiniteSet(PaidIn(t))
  BY HelpsType
<1>7. IsFiniteSet(late) /\ Cardinality(late) = Cardinality(PaidIn(t))
  BY <1>5, <1>6, FS_Bijection DEF ExistsBijection
<1> HIDE DEF late
<1>8. Cardinality(PaidIn(s) \cup late)
        = Cardinality(PaidIn(s)) + Cardinality(late) - Cardinality(PaidIn(s) \cap late)
  BY <1>6, <1>7, FS_Union
<1>9. Cardinality(PaidIn(s)) \in Nat /\ Cardinality(PaidIn(t)) \in Nat
  BY HelpsType DEF Helps
<1>10. Cardinality(PaidIn(s) \cap late) = 0
  BY <1>4, FS_EmptySet
<1> QED
  BY <1>3, <1>7, <1>8, <1>9, <1>10 DEF Helps

LEMMA HelpsOne ==
    ASSUME NEW S, NEW t \in S
    PROVE  Helps(<<t>>) = IF Paid(t) THEN 1 ELSE 0
<1>1. PaidIn(<<t>>) = IF Paid(t) THEN {1} ELSE {}
  BY DEF PaidIn
<1> QED
  BY <1>1, FS_EmptySet, FS_Singleton DEF Helps

LEMMA HelpsAppend ==
    ASSUME NEW S, NEW s \in Seq(S), NEW t \in S
    PROVE  Helps(Append(s, t)) = Helps(s) + IF Paid(t) THEN 1 ELSE 0
<1>1. Append(s, t) = s \o <<t>> /\ <<t>> \in Seq(S)
  OBVIOUS
<1> QED
  BY <1>1, HelpsConcat, HelpsOne

LEMMA HelpsTail ==
    ASSUME NEW S, NEW s \in Seq(S), s # <<>>
    PROVE  Helps(s) = Helps(Tail(s)) + IF Paid(Head(s)) THEN 1 ELSE 0
<1>1. s = <<Head(s)>> \o Tail(s) /\ <<Head(s)>> \in Seq(S) /\ Tail(s) \in Seq(S) /\ Head(s) \in S
  OBVIOUS
<1>2. Helps(<<Head(s)>>) = IF Paid(Head(s)) THEN 1 ELSE 0
  BY <1>1, HelpsOne
<1>3. Helps(<<Head(s)>> \o Tail(s)) = Helps(<<Head(s)>>) + Helps(Tail(s))
  BY <1>1, HelpsConcat
<1>4. Helps(Tail(s)) \in Nat
  BY <1>1, HelpsType
<1>5. Helps(s) = Helps(<<Head(s)>>) + Helps(Tail(s))
  BY <1>1, <1>3, Zenon
<1> QED
  BY <1>2, <1>4, <1>5

LEMMA HelpsNone == Helps(<<>>) = 0
<1>1. PaidIn(<<>>) = {}
  BY DEF PaidIn
<1> QED
  BY <1>1, FS_EmptySet DEF Helps

-----------------------------------------------------------------------------
(* Radar: what a round decides and in which order it begins.                *)

\* A set has a sequence of its elements.
LEMMA SetToSeqHas ==
    ASSUME NEW ts, IsFiniteSet(ts)
    PROVE  SetToSeq(ts) \in Seq(ts) /\ ToSet(SetToSeq(ts)) = ts
<1> DEFINE n == Cardinality(ts)
           s == SetToSeq(ts)
<1>1. n \in Nat /\ ExistsBijection(1 .. n, ts)
  BY FS_CardinalityType
<1>2. PICK f : f \in Bijection(1 .. n, ts)
  BY <1>1 DEF ExistsBijection
<1>3. f \in [1 .. n -> ts] /\ IsInjective(f)
  BY <1>2 DEF Bijection, Injection, IsInjective
<1>4. s \in [1 .. n -> ts] /\ IsInjective(s)
  BY <1>3 DEF SetToSeq
<1> HIDE DEF s
<1>5. s \in Injection(1 .. n, ts)
  BY <1>4 DEF Injection, IsInjective
<1>6. Cardinality(1 .. n) = n
  <2>1. Cardinality(1 .. n) = IF 1 > n THEN 0 ELSE n - 1 + 1
    BY <1>1, FS_Interval
  <2> HIDE DEF n
  <2> QED
    BY <1>1, <2>1
<1>7. s \in Surjection(1 .. n, ts)
  BY <1>5, <1>6, FS_Injection
<1>8. ToSet(s) = ts
  BY <1>4, <1>7 DEF Surjection, ToSet
<1> QED
  BY <1>1, <1>4, <1>8 DEF s

\* What is put into a list is in it, and nothing goes out of it.
LEMMA JoinedHas ==
    ASSUME NEW ts, NEW list \in Seq(ts), NEW t \in ts, NEW k \in 0 .. Len(list)
    PROVE  LET all == SubSeq(list, 1, k) \o <<t>> \o SubSeq(list, k + 1, Len(list))
           IN all \in Seq(ts) /\ ToSet(list) \cup {t} \subseteq ToSet(all)
<1> DEFINE a == SubSeq(list, 1, k)
           b == SubSeq(list, k + 1, Len(list))
           c == a \o <<t>>
           all == c \o b
<1>1. /\ a \in Seq(ts) /\ Len(a) = k /\ \A i \in 1 .. k : a[i] = list[i]
      /\ b \in Seq(ts) /\ Len(b) = Len(list) - k /\ \A i \in 1 .. Len(list) - k : b[i] = list[k + i]
  OBVIOUS
<1> HIDE DEF a, b
<1>2. /\ c \in Seq(ts) /\ Len(c) = k + 1 /\ c[k + 1] = t
      /\ \A i \in 1 .. k : c[i] = list[i]
  BY <1>1
<1> HIDE DEF c
<1>3. /\ all \in Seq(ts) /\ Len(all) = Len(list) + 1
      /\ \A i \in 1 .. k + 1 : all[i] = c[i]
      /\ \A i \in 1 .. Len(list) - k : all[k + 1 + i] = list[k + i]
  BY <1>1, <1>2
<1>4. (\A i \in 1 .. k : all[i] = list[i]) /\ all[k + 1] = t
  BY <1>2, <1>3
<1> HIDE DEF all
<1>5. t \in ToSet(all)
  BY <1>3, <1>4 DEF ToSet
<1>6. ASSUME NEW i \in 1 .. Len(list) PROVE list[i] \in ToSet(all)
  <2>1. CASE i <= k
    <3>1. i \in DOMAIN all /\ all[i] = list[i]
      BY <1>3, <1>4, <2>1
    <3> QED
      BY <3>1 DEF ToSet
  <2>2. CASE i > k
    <3>1. PICK j \in 1 .. Len(list) - k : k + j = i
      <4>1. i - k \in 1 .. Len(list) - k /\ k + (i - k) = i
        BY <2>2
      <4> QED
        BY <4>1
    <3>2. k + 1 + j \in 1 .. Len(list) + 1 /\ DOMAIN all = 1 .. Len(list) + 1
      BY <1>3
    <3>3. all[k + 1 + j] = list[i]
      BY <1>3, <3>1
    <3> QED
      BY <3>2, <3>3 DEF ToSet
  <2> QED
    BY <2>1, <2>2
<1>7. ToSet(list) \cup {t} \subseteq ToSet(all)
  BY <1>5, <1>6 DEF ToSet
<1> QED
  BY <1>3, <1>7 DEF all, c, a, b

LEMMA InsertTaskSplits ==
    ASSUME NEW ts, NEW list \in Seq(ts), NEW t
    PROVE  \E k \in 0 .. Len(list) :
              InsertTask(list, t) = SubSeq(list, 1, k) \o <<t>> \o SubSeq(list, k + 1, Len(list))
<1> DEFINE before == {i \in DOMAIN list : Before(list[i], t)}
           k == Cardinality(before)
<1>1. DOMAIN list = 1 .. Len(list) /\ Len(list) \in Nat
  OBVIOUS
<1>2. IsFiniteSet(1 .. Len(list)) /\ Cardinality(1 .. Len(list)) = Len(list)
  <2>1. 1 \in Int /\ Len(list) \in Int /\ Len(list) >= 0
    OBVIOUS
  <2>2. /\ Cardinality(1 .. Len(list)) = (IF 1 > Len(list) THEN 0 ELSE Len(list) - 1 + 1)
        /\ IsFiniteSet(1 .. Len(list))
    BY <2>1, FS_Interval
  <2> QED
    BY <2>1, <2>2
<1>3. before \in SUBSET (1 .. Len(list))
  BY <1>1
<1> HIDE DEF before
<1>4. k \in Nat /\ k <= Len(list)
  BY <1>2, <1>3, FS_Subset, FS_CardinalityType
<1>5. InsertTask(list, t) = InsertAt(list, k + 1, t)
  BY DEF InsertTask, before
<1> HIDE DEF k
<1>6. (k + 1) - 1 = k /\ k \in 0 .. Len(list)
  BY <1>1, <1>4
<1>7. InsertAt(list, k + 1, t) = SubSeq(list, 1, k) \o <<t>> \o SubSeq(list, k + 1, Len(list))
  BY <1>6, Zenon DEF InsertAt
<1> QED
  BY <1>5, <1>6, <1>7, Zenon

HoldsAll(from, s, list, i) ==
    \A ts : from = <<>> /\ s \in Seq(ts) => list \in Seq(ts) /\ \A k \in 1 .. i : s[k] \in ToSet(list)

Holding == INSTANCE FoldInduction WITH Op <- InsertTask, P <- HoldsAll

\* The sort keeps every task.
LEMMA SoonestFirstHas ==
    ASSUME NEW ts, IsFiniteSet(ts)
    PROVE  SoonestFirst(ts) \in Seq(ts) /\ ts \subseteq ToSet(SoonestFirst(ts))
<1> DEFINE none == <<>>
           s == SetToSeq(ts)
<1>1. s \in Seq(ts) /\ ToSet(s) = ts
  BY SetToSeqHas
<1> HIDE DEF s
<1>2. HoldsAll(none, s, none, 0)
  BY DEF HoldsAll
<1>3. ASSUME NEW list, NEW i, i \in 1 .. Len(s), HoldsAll(none, s, list, i - 1)
      PROVE  HoldsAll(none, s, InsertTask(list, s[i]), i)
  <2>1. SUFFICES ASSUME NEW us, s \in Seq(us)
                 PROVE  /\ InsertTask(list, s[i]) \in Seq(us)
                        /\ \A k \in 1 .. i : s[k] \in ToSet(InsertTask(list, s[i]))
    BY DEF HoldsAll
  <2>2. list \in Seq(us) /\ s[i] \in us /\ \A k \in 1 .. i - 1 : s[k] \in ToSet(list)
    BY <1>3, <2>1 DEF HoldsAll
  <2>3. PICK k \in 0 .. Len(list) :
             InsertTask(list, s[i]) = SubSeq(list, 1, k) \o <<s[i]>> \o SubSeq(list, k + 1, Len(list))
    BY <2>2, InsertTaskSplits
  <2>4. InsertTask(list, s[i]) \in Seq(us) /\ ToSet(list) \cup {s[i]} \subseteq ToSet(InsertTask(list, s[i]))
    BY <2>2, <2>3, JoinedHas
  <2>5. \A j \in 1 .. i : j \in 1 .. i - 1 \/ j = i
    BY <1>1, <1>3
  <2> QED
    BY <2>2, <2>4, <2>5
<1> HIDE DEF none
<1>4. HoldsAll(none, s, Holding!FoldLeft(InsertTask, none, s), Len(s))
  BY <1>1, <1>2, <1>3, Holding!FoldInduct
<1>5. Holding!FoldLeft(InsertTask, none, s) = FoldLeft(InsertTask, none, s)
  BY DEF Holding!FoldLeft, FoldLeft, Holding!MapThenFoldSet, MapThenFoldSet, Holding!Max, Max
<1>6. SoonestFirst(ts) = FoldLeft(InsertTask, none, s)
  BY DEF SoonestFirst, none, s
<1>7. SoonestFirst(ts) \in Seq(ts) /\ \A k \in 1 .. Len(s) : s[k] \in ToSet(SoonestFirst(ts))
  BY <1>1, <1>4, <1>5, <1>6 DEF HoldsAll, none
<1> QED
  BY <1>1, <1>7 DEF ToSet


\* What a round has taken so far is within its budget, and the helps of it that
\* cost are paid for from the stamina above the reserve.
TakenFrom(acc, st) ==
    \E run \in Seq(Tasks), rem \in Int :
       /\ acc = [run |-> run, left |-> rem]
       /\ Len(run) <= budget
       /\ rem + HelpCost * Helps(run) = st
       /\ rem = st \/ rem >= HelpReserve
       /\ Helps(run) > 0 => rem >= HelpReserve

TakenOf(from, s, acc, i) ==
    \A st \in Int : TakenFrom(from, st) /\ s \in Seq(Tasks) /\ budget \in Nat => TakenFrom(acc, st)

Taking == INSTANCE FoldInduction WITH Op <- TakeTask, P <- TakenOf

LEMMA TakeTaskIs ==
    ASSUME NEW st \in Int, NEW acc, NEW t \in Tasks, budget \in Nat, TakenFrom(acc, st)
    PROVE  TakenFrom(TakeTask(acc, t), st)
<1>1. PICK run \in Seq(Tasks), rem \in Int :
           /\ acc = [run |-> run, left |-> rem]
           /\ Len(run) <= budget
           /\ rem + HelpCost * Helps(run) = st
           /\ rem = st \/ rem >= HelpReserve
           /\ Helps(run) > 0 => rem >= HelpReserve
  BY DEF TakenFrom
<1>2. acc.run = run /\ acc.left = rem
  BY <1>1
<1>3. HelpCost \in Nat /\ HelpReserve \in Nat /\ Helps(run) \in Nat
  BY RadarAssumption, HelpsType
<1>4. CASE TakeTask(acc, t) = acc
  BY <1>4
<1>5. CASE TakeTask(acc, t) # acc
  <2> DEFINE p == Plan(t, snap[t])
             paid == IF p = "help" THEN Cost(t) ELSE 0
  <2>1. /\ p # "skip" /\ Len(run) < budget
        /\ p = "help" => Affordable(t, rem)
        /\ TakeTask(acc, t) = [run |-> Append(run, t), left |-> rem - paid]
    BY <1>2, <1>3, <1>5 DEF TakeTask
  <2>2. p = Type(t)
    BY <2>1 DEF Plan
  <2> HIDE DEF p
  <2>3. Append(run, t) \in Seq(Tasks) /\ Len(Append(run, t)) <= budget
    BY <2>1
  <2>4. Helps(Append(run, t)) = Helps(run) + IF Paid(t) THEN 1 ELSE 0
    BY HelpsAppend
  <2>5. CASE Paid(t)
    <3>1. p = "help" /\ paid = HelpCost
      BY <2>2, <2>5 DEF Paid, Cost
    <3>2. rem - HelpCost >= HelpReserve
      BY <2>1, <2>5, <3>1 DEF Affordable, Paid, Cost
    <3>3. Helps(Append(run, t)) = Helps(run) + 1
      BY <2>4, <2>5
    <3>4. HelpCost * (Helps(run) + 1) = HelpCost * Helps(run) + HelpCost
      BY <1>3
    <3>5. rem - HelpCost \in Int /\ rem - HelpCost + HelpCost * Helps(Append(run, t)) = st
      BY <1>1, <1>3, <3>3, <3>4
    <3>6. TakeTask(acc, t) = [run |-> Append(run, t), left |-> rem - HelpCost]
      BY <2>1, <3>1
    <3> QED
      BY <2>3, <3>2, <3>5, <3>6 DEF TakenFrom
  <2>6. CASE ~Paid(t)
    <3>1. paid = 0
      BY <2>2, <2>6 DEF Paid, Cost
    <3>2. Helps(Append(run, t)) = Helps(run)
      BY <1>3, <2>4, <2>6
    <3>3. TakeTask(acc, t) = [run |-> Append(run, t), left |-> rem]
      <4>1. \A q : q = 0 => rem - q = rem
        OBVIOUS
      <4> HIDE DEF paid
      <4>2. rem - paid = rem
        BY <3>1, <4>1
      <4> QED
        BY <2>1, <4>2
    <3> QED
      BY <1>1, <2>3, <3>2, <3>3 DEF TakenFrom
  <2> QED
    BY <2>5, <2>6
<1> QED
  BY <1>4, <1>5

LEMMA DecideIs ==
    ASSUME budget \in Nat, have \in Int, DOMAIN snap \subseteq Tasks
    PROVE  TakenFrom(Decide, have)
<1> DEFINE from == [run |-> <<>>, left |-> RoundStamina]
           s == SoonestFirst(DOMAIN snap)
<1>1. s \in Seq(Tasks)
  <2>1. IsFiniteSet(DOMAIN snap)
    BY FS_Subset, RadarAssumption
  <2>2. s \in Seq(DOMAIN snap)
    BY <2>1, SoonestFirstHas
  <2> HIDE DEF s
  <2> QED
    BY <2>2
<1>2. TakenFrom(from, have)
  <2>1. HelpCost \in Nat /\ <<>> \in Seq(Tasks) /\ Len(<<>>) = 0
    BY RadarAssumption
  <2>2. Helps(<<>>) = 0 /\ HelpCost * 0 = 0
    BY <2>1, HelpsNone
  <2>3. have + HelpCost * Helps(<<>>) = have
    BY <2>2
  <2>4. from = [run |-> <<>>, left |-> have]
    BY DEF RoundStamina
  <2> HIDE DEF from
  <2>5. SUFFICES \E run \in Seq(Tasks), rem \in Int :
                   /\ from = [run |-> run, left |-> rem]
                   /\ Len(run) <= budget
                   /\ rem + HelpCost * Helps(run) = have
                   /\ rem = have \/ rem >= HelpReserve
                   /\ Helps(run) > 0 => rem >= HelpReserve
    BY DEF TakenFrom
  <2> WITNESS <<>> \in Seq(Tasks), have \in Int
  <2> QED
    BY <2>1, <2>2, <2>3, <2>4
<1> HIDE DEF from, s
<1>3. TakenOf(from, s, from, 0)
  BY DEF TakenOf
<1>4. ASSUME NEW acc, NEW i, i \in 1 .. Len(s), TakenOf(from, s, acc, i - 1)
      PROVE  TakenOf(from, s, TakeTask(acc, s[i]), i)
  <2>1. s[i] \in Tasks
    BY <1>1, <1>4
  <2> QED
    BY <1>4, <2>1, TakeTaskIs DEF TakenOf
<1>5. TakenOf(from, s, Taking!FoldLeft(TakeTask, from, s), Len(s))
  BY <1>1, <1>3, <1>4, Taking!FoldInduct
<1>6. Taking!FoldLeft(TakeTask, from, s) = FoldLeft(TakeTask, from, s)
  BY DEF Taking!FoldLeft, FoldLeft, Taking!MapThenFoldSet, MapThenFoldSet, Taking!Max, Max
<1>7. Decide = Taking!FoldLeft(TakeTask, from, s)
  BY <1>6 DEF Decide, from, s
<1> QED
  BY <1>1, <1>2, <1>5, <1>7 DEF TakenOf

\* What is put in order is no longer than the list it is of, nor costs more.
OrderedFrom(acc, placed, s, i) ==
    \E there \in Seq(Tasks), then \in Seq(Tasks) :
       /\ acc = [placed |-> placed, there |-> there, then |-> then]
       /\ Len(there) + Len(then) <= i
       /\ Helps(there) + Helps(then) <= Helps(SubSeq(s, 1, i))

OrderedOf(from, s, acc, i) ==
    \A placed : OrderedFrom(from, placed, s, 0) /\ s \in Seq(Tasks) => OrderedFrom(acc, placed, s, i)

Ordering == INSTANCE FoldInduction WITH Op <- PutInOrder, P <- OrderedOf

LEMMA PutInOrderIs ==
    ASSUME NEW placed, NEW s \in Seq(Tasks), NEW i \in 1 .. Len(s), NEW acc,
           OrderedFrom(acc, placed, s, i - 1)
    PROVE  OrderedFrom(PutInOrder(acc, s[i]), placed, s, i)
<1>1. PICK there \in Seq(Tasks), then \in Seq(Tasks) :
           /\ acc = [placed |-> placed, there |-> there, then |-> then]
           /\ Len(there) + Len(then) <= i - 1
           /\ Helps(there) + Helps(then) <= Helps(SubSeq(s, 1, i - 1))
  BY DEF OrderedFrom
<1> DEFINE t == s[i]
           one == IF Paid(t) THEN 1 ELSE 0
<1>2. t \in Tasks /\ one \in 0 .. 1
  OBVIOUS
<1>3. Helps(SubSeq(s, 1, i)) = Helps(SubSeq(s, 1, i - 1)) + one
  <2>1. /\ SubSeq(s, 1, i - 1) \in Seq(Tasks)
        /\ SubSeq(s, 1, i) = Append(SubSeq(s, 1, i - 1), t)
    OBVIOUS
  <2> QED
    BY <1>2, <2>1, HelpsAppend
<1>4. /\ Helps(there) \in Nat /\ Helps(then) \in Nat
      /\ Helps(SubSeq(s, 1, i)) \in Nat /\ Helps(SubSeq(s, 1, i - 1)) \in Nat
  <2>1. SubSeq(s, 1, i) \in Seq(Tasks) /\ SubSeq(s, 1, i - 1) \in Seq(Tasks)
    OBVIOUS
  <2> QED
    BY <2>1, HelpsType
<1>5. /\ Append(there, t) \in Seq(Tasks) /\ Append(then, t) \in Seq(Tasks)
      /\ Len(Append(there, t)) = Len(there) + 1 /\ Len(Append(then, t)) = Len(then) + 1
      /\ Len(there) \in Nat /\ Len(then) \in Nat
  BY <1>2
<1>6. Helps(Append(there, t)) = Helps(there) + one /\ Helps(Append(then, t)) = Helps(then) + one
  BY <1>2, HelpsAppend
<1> HIDE DEF t, one
<1> SUFFICES OrderedFrom(PutInOrder(acc, t), placed, s, i)
  BY DEF t
<1>7. \/ PutInOrder(acc, t) = [placed |-> placed, there |-> Append(there, t), then |-> then]
      \/ PutInOrder(acc, t) = [placed |-> placed, there |-> there, then |-> Append(then, t)]
      \/ PutInOrder(acc, t) = acc
  BY <1>1 DEF PutInOrder
<1>8. ASSUME NEW a \in Seq(Tasks), NEW b \in Seq(Tasks),
             PutInOrder(acc, t) = [placed |-> placed, there |-> a, then |-> b],
             Len(a) + Len(b) <= i, Helps(a) + Helps(b) <= Helps(SubSeq(s, 1, i))
      PROVE  OrderedFrom(PutInOrder(acc, t), placed, s, i)
  BY <1>8 DEF OrderedFrom
<1>9. CASE PutInOrder(acc, t) = [placed |-> placed, there |-> Append(there, t), then |-> then]
  <2>1. Len(Append(there, t)) + Len(then) <= i
    BY <1>1, <1>5
  <2>2. Helps(Append(there, t)) + Helps(then) <= Helps(SubSeq(s, 1, i))
    BY <1>1, <1>2, <1>3, <1>4, <1>6
  <2> QED
    BY <1>5, <1>8, <1>9, <2>1, <2>2
<1>10. CASE PutInOrder(acc, t) = [placed |-> placed, there |-> there, then |-> Append(then, t)]
  <2>1. Len(there) + Len(Append(then, t)) <= i
    BY <1>1, <1>5
  <2>2. Helps(there) + Helps(Append(then, t)) <= Helps(SubSeq(s, 1, i))
    BY <1>1, <1>2, <1>3, <1>4, <1>6
  <2> QED
    BY <1>5, <1>8, <1>10, <2>1, <2>2
<1>11. CASE PutInOrder(acc, t) = acc
  <2>1. Len(there) + Len(then) <= i
    BY <1>1, <1>5
  <2>2. Helps(there) + Helps(then) <= Helps(SubSeq(s, 1, i))
    BY <1>1, <1>2, <1>3, <1>4
  <2> QED
    BY <1>1, <1>8, <1>11, <2>1, <2>2
<1> QED
  BY <1>7, <1>9, <1>10, <1>11

LEMMA InOrderIs ==
    ASSUME NEW placed, rest \in Seq(Tasks)
    PROVE  /\ InOrder(placed) \in Seq(Tasks)
           /\ Len(InOrder(placed)) <= Len(rest)
           /\ Helps(InOrder(placed)) <= Helps(rest)
<1> DEFINE from == [placed |-> placed, there |-> <<>>, then |-> <<>>]
           all == FoldLeft(PutInOrder, from, rest)
<1>1. OrderedFrom(from, placed, rest, 0)
  <2>1. <<>> \in Seq(Tasks) /\ Len(<<>>) = 0 /\ Helps(<<>>) = 0
    BY HelpsNone
  <2>2. Helps(SubSeq(rest, 1, 0)) = 0
    <3>1. SubSeq(rest, 1, 0) = <<>>
      OBVIOUS
    <3> QED
      BY <3>1, HelpsNone, Zenon
  <2>3. from = [placed |-> placed, there |-> <<>>, then |-> <<>>]
    OBVIOUS
  <2> HIDE DEF from
  <2>4. SUFFICES \E there \in Seq(Tasks), then \in Seq(Tasks) :
                   /\ from = [placed |-> placed, there |-> there, then |-> then]
                   /\ Len(there) + Len(then) <= 0
                   /\ Helps(there) + Helps(then) <= Helps(SubSeq(rest, 1, 0))
    BY DEF OrderedFrom
  <2>5. Len(<<>>) + Len(<<>>) <= 0 /\ Helps(<<>>) + Helps(<<>>) <= Helps(SubSeq(rest, 1, 0))
    <3>1. ASSUME NEW a, NEW b, NEW c, a = 0, b = 0, c = 0
          PROVE  a + a <= 0 /\ b + b <= c
      BY <3>1
    <3> QED
      BY <2>1, <2>2, <3>1, Zenon
  <2> QED
    BY <2>1, <2>3, <2>5, Zenon
<1> HIDE DEF from
<1>2. OrderedOf(from, rest, from, 0)
  BY DEF OrderedOf
<1>3. ASSUME NEW acc, NEW i, i \in 1 .. Len(rest), OrderedOf(from, rest, acc, i - 1)
      PROVE  OrderedOf(from, rest, PutInOrder(acc, rest[i]), i)
  BY <1>3, PutInOrderIs DEF OrderedOf
<1>4. OrderedOf(from, rest, Ordering!FoldLeft(PutInOrder, from, rest), Len(rest))
  BY <1>2, <1>3, Ordering!FoldInduct
<1>5. Ordering!FoldLeft(PutInOrder, from, rest) = FoldLeft(PutInOrder, from, rest)
  BY DEF Ordering!FoldLeft, FoldLeft, Ordering!MapThenFoldSet, MapThenFoldSet, Ordering!Max, Max
<1>6. OrderedFrom(all, placed, rest, Len(rest))
  BY <1>1, <1>4, <1>5 DEF OrderedOf
<1>7. InOrder(placed) = all.there \o all.then
  BY DEF InOrder, from
<1> HIDE DEF all
<1>8. PICK there \in Seq(Tasks), then \in Seq(Tasks) :
           /\ all = [placed |-> placed, there |-> there, then |-> then]
           /\ Len(there) + Len(then) <= Len(rest)
           /\ Helps(there) + Helps(then) <= Helps(SubSeq(rest, 1, Len(rest)))
  BY <1>6 DEF OrderedFrom
<1>9. InOrder(placed) = there \o then
  BY <1>7, <1>8
<1>10. Helps(there \o then) = Helps(there) + Helps(then)
  BY HelpsConcat
<1>11. SubSeq(rest, 1, Len(rest)) = rest
  OBVIOUS
<1>12. Helps(there) + Helps(then) <= Helps(rest)
  BY <1>8, <1>11, Zenon
<1>13. there \o then \in Seq(Tasks) /\ Len(there \o then) = Len(there) + Len(then)
  OBVIOUS
<1>14. Len(there) + Len(then) <= Len(rest)
  BY <1>8
<1> QED
  BY <1>9, <1>10, <1>12, <1>13, <1>14, Zenon

-----------------------------------------------------------------------------
(* LimitsAreForTheRun.  The feature's own account of the stamina is a lower *)
(* bound of the player's, and stays one when the helps that it still has to *)
(* start are paid for; the starts sent, those due and those left of the     *)
(* run's budget are together no more than a run may send.                   *)

\* Before radar-execute sets out, the run has sent no start.
Early == {"hold", "info", "events", "gate", "read", "day"}

\* The starts that the round has decided and not sent.
Due == IF step \in {"place", "start"} THEN rest ELSE <<>>

SpendType ==
    /\ have \in Int /\ stamina \in Int /\ budget \in Nat /\ starts \in Nat
    /\ account \in Accounts /\ DOMAIN snap \subseteq Tasks
    /\ Due \in Seq(Tasks)

PaidForInv == stamina >= have + HelpCost * Helps(Due)

ReserveInv == spent \/ Helps(Due) > 0 => have >= HelpReserve

CapInv == starts + Len(Due) + budget <= MaxEvents

EarlyInv == step \in Early => starts = 0 /\ ~spent /\ stamina = TrueStamina(account)

SpendInv == SpendType /\ PaidForInv /\ ReserveInv /\ CapInv /\ EarlyInv

\* The server's stamina is at least the client's lower bound of it: effects raise
\* the rate and the cap (radarStaminaFloor).
LEMMA FloorIsLower ==
    ASSUME account \in Accounts
    PROVE  /\ TrueStamina(account) \in Nat /\ StaminaFloor \in Nat
           /\ TrueStamina(account) >= StaminaFloor
<1> DEFINE a == account
           grown == a.stamina + a.elapsed * a.rate
<1>1. /\ a.stamina \in Nat /\ a.elapsed \in Nat /\ a.cap \in Nat /\ a.rate \in Nat \ {0}
      /\ BaseMax \in Nat /\ a.cap >= BaseMax
  BY RadarAssumption
<1>2. \A x, y \in Nat : Min({x, y}) = IF x <= y THEN x ELSE y
  BY DEF Min
<1>3. a.elapsed * a.rate \in Nat /\ a.elapsed * a.rate >= a.elapsed
  BY <1>1
<1>4. grown \in Nat /\ grown >= a.stamina + a.elapsed
  BY <1>1, <1>3
<1>5. TrueStamina(a) = IF a.stamina < a.cap THEN Min({grown, a.cap}) ELSE a.stamina
  BY DEF TrueStamina
<1> HIDE DEF grown
<1>6. TrueStamina(a) = IF a.stamina < a.cap THEN (IF grown <= a.cap THEN grown ELSE a.cap) ELSE a.stamina
  BY <1>1, <1>2, <1>4, <1>5
<1>7. StaminaFloor = IF a.stamina < BaseMax THEN (IF a.stamina + a.elapsed <= BaseMax
                                                  THEN a.stamina + a.elapsed ELSE BaseMax)
                     ELSE a.stamina
  BY <1>1, <1>2 DEF StaminaFloor
<1> QED
  BY <1>1, <1>4, <1>6, <1>7

\* A step that spends nothing and decides nothing.
Idle ==
    /\ UNCHANGED <<have, stamina, budget, starts, spent, account>>
    /\ Due' = Due /\ DOMAIN snap' \subseteq Tasks
    /\ step' \in Early => step \in Early

LEMMA IdleKeeps == ASSUME SpendInv, Idle PROVE SpendInv'
<1>1. TrueStamina(account)' = TrueStamina(account)
  BY DEF Idle, TrueStamina
<1>2. Helps(Due)' = Helps(Due) /\ Len(Due)' = Len(Due)
  BY DEF Idle, Helps, PaidIn, Paid, Type
<1> USE DEF Idle, SpendInv
<1>3. SpendType'
  BY DEF SpendType
<1>4. PaidForInv'
  BY <1>2 DEF PaidForInv
<1>5. ReserveInv'
  BY <1>2 DEF ReserveInv
<1>6. CapInv'
  BY <1>2 DEF CapInv
<1>7. EarlyInv'
  BY <1>1 DEF EarlyInv
<1> QED
  BY <1>3, <1>4, <1>5, <1>6, <1>7

\* What a reply to get.detect.info lists are the radar's tasks.
LEMMA ReadsTasks ==
    ASSUME NEW o, ReadDetect(o), DOMAIN snap \subseteq Tasks
    PROVE  DOMAIN snap' \subseteq Tasks
<1>1. DOMAIN [t \in Listed |-> task[t]] = Listed /\ Listed \subseteq Tasks
  BY DEF Listed
<1> QED
  BY <1>1 DEF ReadDetect

\* What the radar features do beside deciding and starting.
LEMMA RadarIdles ==
    ASSUME SpendInv, Hold \/ Info \/ ClaimEvent \/ ClaimLevel \/ ClaimsOver \/ Gate \/ Read \/ March
           \/ EndSampling \/ EndTask \/ Ended \/ Reread \/ ClaimDone \/ RoundEnds \/ Redraw
    PROVE  Idle
<1>0. DOMAIN snap \subseteq Tasks
  BY DEF SpendInv, SpendType
<1>1. CASE Hold
  BY <1>0, <1>1 DEF Idle, Due, Early, Hold, JudgeDay, Send, Try, NoEffect, roundVars
<1>2. CASE Info
  <2>1. DOMAIN snap' \subseteq Tasks
    BY <1>0, <1>2, ReadsTasks DEF Info
  <2> QED
    BY <1>2, <2>1 DEF Idle, Due, Early, Info, ReadDetect, Send, Try, NoEffect
<1>3. CASE ClaimEvent
  BY <1>0, <1>3 DEF Idle, Due, Early, ClaimEvent, Reward, Send, Try
<1>4. CASE ClaimLevel
  BY <1>0, <1>4 DEF Idle, Due, Early, ClaimLevel, roundVars
<1>5. CASE ClaimsOver
  BY <1>0, <1>5 DEF Idle, Due, Early, ClaimsOver, serverVars, roundVars
<1>6. CASE Gate
  BY <1>0, <1>6 DEF Idle, Due, Early, Gate, serverVars, roundVars
<1>7. CASE Read
  <2>1. DOMAIN snap' \subseteq Tasks
    BY <1>0, <1>7, ReadsTasks DEF Read
  <2> QED
    BY <1>7, <2>1 DEF Idle, Due, Early, Read, ReadDetect, Send, Try, NoEffect, roundVars
<1>8. CASE March
  BY <1>0, <1>8 DEF Idle, Due, Early, March, serverVars
<1>9. CASE EndSampling
  BY <1>0, <1>9 DEF Idle, Due, Early, EndSampling, Send, Try, NoEffect
<1>10. CASE EndTask
  BY <1>0, <1>10 DEF Idle, Due, Early, EndTask, End, Send, Try
<1>11. CASE Ended
  BY <1>0, <1>11 DEF Idle, Due, Early, Ended, serverVars, roundVars
<1>12. CASE Reread
  <2>1. DOMAIN snap' \subseteq Tasks
    BY <1>0, <1>12, ReadsTasks DEF Reread
  <2> QED
    BY <1>12, <2>1 DEF Idle, Due, Early, Reread, ReadDetect, Send, Try, NoEffect
<1>13. CASE ClaimDone
  BY <1>0, <1>13 DEF Idle, Due, Early, ClaimDone, Reward, Send, Try
<1>14. CASE RoundEnds
  BY <1>0, <1>14 DEF Idle, Due, Early, RoundEnds, serverVars, roundVars
<1>15. CASE Redraw
  <2>1. DOMAIN snap' \subseteq Tasks
    BY <1>0, <1>15, ReadsTasks DEF Redraw
  <2> QED
    BY <1>15, <2>1 DEF Idle, Due, Early, Redraw, ReadDetect, Send, Try, NoEffect
<1> QED
  BY <1>1, <1>2, <1>3, <1>4, <1>5, <1>6, <1>7, <1>8, <1>9, <1>10, <1>11, <1>12, <1>13, <1>14, <1>15

\* treasure-digs comes after them and leaves what they keep alone.
LEMMA DigsIdle == ASSUME SpendInv, DigNext PROVE Idle
<1>0. DOMAIN snap \subseteq Tasks
  BY DEF SpendInv, SpendType
<1> USE DEF Idle, Due, Early, NotRadar, roundVars
<1>1. CASE DigsBegin
  BY <1>0, <1>1 DEF DigsBegin, Silent
<1>2. CASE RuinsInfo
  BY <1>0, <1>2 DEF RuinsInfo, Reads, Then
<1>3. CASE Ruin
  BY <1>0, <1>3 DEF Ruin, Silent
<1>4. CASE PlaceRuin
  BY <1>0, <1>4 DEF PlaceRuin, Reads, Then
<1>5. CASE RuinBoard
  BY <1>0, <1>5 DEF RuinBoard, FreeHammers, Then, Silent
<1>6. CASE RuinDug
  BY <1>0, <1>6 DEF RuinDug, Silent
<1>7. CASE RuinHeld
  BY <1>0, <1>7 DEF RuinHeld, Reads
<1>8. CASE RuinChest
  BY <1>0, <1>8 DEF RuinChest, Then
<1>9. CASE City
  BY <1>0, <1>9 DEF City, Silent
<1>10. CASE CityBoard
  BY <1>0, <1>10 DEF CityBoard, FreeHammers, Then, Silent
<1>11. CASE CityDug
  BY <1>0, <1>11 DEF CityDug, Silent
<1>12. CASE CityChest
  BY <1>0, <1>12 DEF CityChest, ClaimChest, Then
<1>13. CASE CityOver
  BY <1>0, <1>13 DEF CityOver, Silent
<1>14. CASE Vault
  BY <1>0, <1>14 DEF Vault, Silent, Reads, Then
<1>15. CASE Round
  BY <1>0, <1>15 DEF Round, Silent
<1>16. CASE VaultChest
  BY <1>0, <1>16 DEF VaultChest, ClaimChest, Then
<1>17. CASE StartTimed
  BY <1>0, <1>17 DEF StartTimed, TimedIs, Then
<1>18. CASE DigTimed
  BY <1>0, <1>18 DEF DigTimed, TimedIs, Silent
<1>19. CASE TimedChest
  BY <1>0, <1>19 DEF TimedChest, TimedIs, Then
<1>20. CASE TimedFailed
  BY <1>0, <1>20 DEF TimedFailed, TimedIs, Reads, Then
<1>21. CASE LeaveVault
  BY <1>0, <1>21 DEF LeaveVault, Silent
<1>22. CASE Stage
  BY <1>0, <1>22 DEF Stage, Silent
<1>23. CASE TimedDug
  BY <1>0, <1>23 DEF TimedDug, Silent
<1>24. CASE StageDug
  BY <1>0, <1>24 DEF StageDug, Silent
<1>25. CASE Turned
  BY <1>0, <1>25 DEF Turned, Silent
<1>26. CASE TrackInfo
  BY <1>0, <1>26 DEF TrackInfo, Silent, Reads, Then
<1>27. CASE TrackChest
  BY <1>0, <1>27 DEF TrackChest, Then
<1>28. CASE TrackOver
  BY <1>0, <1>28 DEF TrackOver, Silent
<1>29. CASE DigEnds
  BY <1>0, <1>29 DEF DigEnds, Silent
<1>30. CASE OpenBrick
  BY <1>0, <1>30 DEF OpenBrick, Then
<1> QED
  BY <1>1, <1>2, <1>3, <1>4, <1>5, <1>6, <1>7, <1>8, <1>9, <1>10, <1>11, <1>12, <1>13, <1>14, <1>15, <1>16, <1>17, <1>18, <1>19, <1>20, <1>21, <1>22, <1>23, <1>24, <1>25, <1>26, <1>27, <1>28, <1>29, <1>30 DEF DigNext

LEMMA DayKeeps == ASSUME SpendInv, Day PROVE SpendInv'
<1>1. /\ have' = (IF account.known THEN StaminaFloor ELSE 0)
      /\ budget' = MaxEvents /\ step' = "decide"
      /\ stamina' = stamina /\ starts' = starts /\ spent' = spent /\ account' = account /\ snap' = snap
  BY DEF Day, JudgeDay, Send, Try, NoEffect
<1>2. /\ starts = 0 /\ ~spent /\ stamina = TrueStamina(account)
      /\ account \in Accounts /\ DOMAIN snap \subseteq Tasks
  BY DEF Day, SpendInv, SpendType, EarlyInv, Early
<1>3. have' \in Int /\ stamina >= have' /\ stamina \in Int
  BY <1>1, <1>2, FloorIsLower
<1>4. Due' = <<>>
  BY <1>1 DEF Due
<1>5. Helps(Due)' = 0
  <2>1. Helps(Due)' = Cardinality({j \in 1 .. Len(Due') : Paid(Due'[j])})
    BY DEF Helps, PaidIn, Paid, Type
  <2>2. Helps(Due') = Helps(Due)'
    BY <2>1 DEF Helps, PaidIn
  <2> QED
    BY <1>4, <2>2, HelpsNone
<1>6. HelpCost \in Nat /\ MaxEvents \in Nat
  BY RadarAssumption
<1>7. SpendType'
  BY <1>1, <1>2, <1>3, <1>4, <1>6 DEF SpendType
<1>8. PaidForInv'
  BY <1>1, <1>3, <1>5, <1>6 DEF PaidForInv
<1>9. ReserveInv'
  BY <1>1, <1>2, <1>5 DEF ReserveInv
<1>10. CapInv'
  BY <1>1, <1>2, <1>4, <1>6 DEF CapInv
<1>11. EarlyInv'
  BY <1>1 DEF EarlyInv, Early
<1> QED
  BY <1>7, <1>8, <1>9, <1>10, <1>11 DEF SpendInv

LEMMA RoundKeeps == ASSUME SpendInv, RoundBegins PROVE SpendInv'
<1>0. /\ stamina' = stamina /\ starts' = starts /\ spent' = spent /\ account' = account /\ snap' = snap
      /\ Due = <<>> /\ step' \notin Early /\ step \notin Early
  BY DEF RoundBegins, Due, Early, serverVars
<1>1. CASE step' = "done"
  <2>1. Idle
    BY <1>0, <1>1 DEF Idle, RoundBegins, Due, SpendInv, SpendType
  <2> QED
    BY <2>1, IdleKeeps
<1>2. CASE step' # "done"
  <2>1. /\ step' = "place" /\ have' = Decide.left /\ rest' = Decide.run
        /\ budget' = budget - Len(Decide.run)
    BY <1>2 DEF RoundBegins, BudgetLeft
  <2>2. have \in Int /\ budget \in Nat /\ starts \in Nat /\ stamina \in Int /\ DOMAIN snap \subseteq Tasks
    BY DEF SpendInv, SpendType
  <2>3. PICK run \in Seq(Tasks), rem \in Int :
             /\ Decide = [run |-> run, left |-> rem]
             /\ Len(run) <= budget
             /\ rem + HelpCost * Helps(run) = have
             /\ rem = have \/ rem >= HelpReserve
             /\ Helps(run) > 0 => rem >= HelpReserve
    BY <2>2, DecideIs DEF TakenFrom
  <2>4. Decide.run = run /\ Decide.left = rem
    BY <2>3
  <2>5. have' = rem /\ rest' = run /\ budget' = budget - Len(run) /\ Due' = run
    BY <2>1, <2>4 DEF Due
  <2>6. Helps(Due)' = Helps(run)
    <3>1. Helps(Due)' = Helps(Due')
      BY DEF Helps, PaidIn, Paid, Type
    <3> QED
      BY <2>5, <3>1
  <2>7. /\ stamina >= have /\ (spent => have >= HelpReserve) /\ starts + budget <= MaxEvents
    <3>1. Helps(Due) = 0 /\ HelpCost * 0 = 0 /\ Len(Due) = 0
      BY <1>0, HelpsNone, RadarAssumption
    <3> QED
      BY <1>0, <2>2, <3>1 DEF SpendInv, PaidForInv, ReserveInv, CapInv
  <2>8. HelpCost \in Nat /\ MaxEvents \in Nat /\ HelpReserve \in Nat /\ Helps(run) \in Nat /\ Len(run) \in Nat
    BY RadarAssumption, HelpsType
  <2>9. SpendType'
    <3>1. budget' \in Nat
      BY <2>2, <2>3, <2>5, <2>8
    <3>2. have' \in Int /\ Due' \in Seq(Tasks)
      BY <2>5
    <3> QED
      BY <1>0, <3>1, <3>2 DEF SpendInv, SpendType
  <2>10. PaidForInv'
    BY <1>0, <2>3, <2>5, <2>6, <2>7, <2>8 DEF PaidForInv
  <2>11. ReserveInv'
    BY <1>0, <2>2, <2>3, <2>5, <2>6, <2>7, <2>8 DEF ReserveInv
  <2>12. CapInv'
    BY <1>0, <2>2, <2>5, <2>7, <2>8 DEF CapInv
  <2>13. EarlyInv'
    BY <1>0 DEF EarlyInv
  <2> QED
    BY <2>9, <2>10, <2>11, <2>12, <2>13 DEF SpendInv
<1> QED
  BY <1>1, <1>2

LEMMA PlaceKeeps == ASSUME SpendInv, Place PROVE SpendInv'
<1>1. /\ have' = have /\ budget' = budget /\ starts' = starts /\ account' = account /\ snap' = snap
      /\ stamina' = stamina /\ spent' = spent
      /\ step = "place" /\ step' \in {"start", "done"}
      /\ \E placed : rest' = InOrder(placed)
  BY DEF Place, serverVars
<1>2. /\ have \in Int /\ budget \in Nat /\ starts \in Nat /\ stamina \in Int
      /\ Due = rest /\ rest \in Seq(Tasks)
  BY <1>1 DEF SpendInv, SpendType, Due
<1>3. rest' \in Seq(Tasks) /\ Len(rest') <= Len(rest) /\ Helps(rest') <= Helps(rest)
  BY <1>1, <1>2, InOrderIs
<1>4. Due' \in Seq(Tasks) /\ Len(Due') <= Len(rest) /\ Helps(Due)' <= Helps(rest)
  <2>1. Helps(Due)' = Helps(Due')
    BY DEF Helps, PaidIn, Paid, Type
  <2>2. CASE step' = "start"
    <3>1. Due' = rest'
      BY <2>2 DEF Due
    <3> QED
      BY <1>3, <2>1, <3>1
  <2>3. CASE step' = "done"
    <3>1. Due' = <<>>
      BY <2>3 DEF Due
    <3>2. Helps(Due') = 0 /\ <<>> \in Seq(Tasks) /\ Len(<<>>) = 0
      BY <3>1, HelpsNone
    <3>3. Helps(rest) \in Nat /\ Len(rest) \in Nat
      BY <1>2, HelpsType
    <3> QED
      BY <2>1, <3>1, <3>2, <3>3
  <2> QED
    BY <1>1, <2>2, <2>3
<1>5. Helps(Due)' \in Nat /\ Helps(rest) \in Nat /\ Len(Due') \in Nat /\ Len(rest) \in Nat
  <2>1. Helps(Due)' = Helps(Due')
    BY DEF Helps, PaidIn, Paid, Type
  <2> QED
    BY <1>2, <1>4, <2>1, HelpsType
<1>6. HelpCost \in Nat /\ HelpReserve \in Nat /\ MaxEvents \in Nat
  BY RadarAssumption
<1>7. SpendType'
  BY <1>1, <1>4 DEF SpendInv, SpendType
<1>8. PaidForInv'
  <2>1. HelpCost * Helps(Due)' <= HelpCost * Helps(rest)
    BY <1>4, <1>5, <1>6
  <2>2. stamina >= have + HelpCost * Helps(rest)
    BY <1>2 DEF SpendInv, PaidForInv
  <2>3. HelpCost * Helps(Due)' \in Nat /\ HelpCost * Helps(rest) \in Nat
    BY <1>5, <1>6
  <2>4. stamina >= have + HelpCost * Helps(Due)'
    BY <1>2, <2>1, <2>2, <2>3
  <2> QED
    BY <1>1, <2>4 DEF PaidForInv
<1>9. ReserveInv'
  BY <1>1, <1>2, <1>4, <1>5 DEF SpendInv, ReserveInv
<1>10. CapInv'
  BY <1>1, <1>2, <1>4, <1>5, <1>6 DEF SpendInv, CapInv
<1>11. EarlyInv'
  BY <1>1 DEF EarlyInv, Early
<1> QED
  BY <1>7, <1>8, <1>9, <1>10, <1>11 DEF SpendInv

LEMMA StartKeeps == ASSUME SpendInv, StartTask PROVE SpendInv'
<1> DEFINE t == Head(rest)
<1>1. /\ have' = have /\ budget' = budget /\ starts' = starts + 1 /\ account' = account /\ snap' = snap
      /\ step = "start" /\ step' \in {"start", "done"} /\ rest # <<>> /\ rest' = Tail(rest)
      /\ \/ stamina' = stamina /\ spent' = spent
         \/ /\ stamina' = stamina - (IF Type(t) = "help" THEN Cost(t) ELSE 0)
            /\ spent' = (spent \/ (Type(t) = "help" /\ Cost(t) > 0))
  BY DEF StartTask, Begin
<1>2. /\ have \in Int /\ budget \in Nat /\ starts \in Nat /\ stamina \in Int
      /\ Due = rest /\ rest \in Seq(Tasks)
  BY <1>1 DEF SpendInv, SpendType, Due
<1>3. /\ HelpCost \in Nat /\ HelpReserve \in Nat /\ MaxEvents \in Nat
      /\ Tail(rest) \in Seq(Tasks) /\ Len(rest) = Len(Tail(rest)) + 1 /\ Len(Tail(rest)) \in Nat
  BY <1>1, <1>2, RadarAssumption
<1>4. Helps(rest) = Helps(Tail(rest)) + (IF Paid(t) THEN 1 ELSE 0) /\ Helps(Tail(rest)) \in Nat
  BY <1>1, <1>2, <1>3, HelpsTail, HelpsType
<1>5. /\ Due' \in Seq(Tasks) /\ Len(Due') \in Nat /\ Len(Due') <= Len(Tail(rest))
      /\ Helps(Due)' \in Nat /\ Helps(Due)' <= Helps(Tail(rest))
  <2>1. Helps(Due)' = Helps(Due')
    BY DEF Helps, PaidIn, Paid, Type
  <2>2. CASE step' = "start"
    <3>1. Due' = Tail(rest)
      BY <1>1, <2>2 DEF Due
    <3> QED
      BY <1>3, <1>4, <2>1, <3>1
  <2>3. CASE step' = "done"
    <3>1. Due' = <<>>
      BY <2>3 DEF Due
    <3>2. Helps(Due') = 0 /\ <<>> \in Seq(Tasks) /\ Len(<<>>) = 0
      BY <3>1, HelpsNone
    <3> QED
      BY <1>3, <1>4, <2>1, <3>1, <3>2
  <2> QED
    BY <1>1, <2>2, <2>3
<1>6. /\ stamina >= have + HelpCost * Helps(rest)
      /\ spent \/ Helps(rest) > 0 => have >= HelpReserve
      /\ starts + Len(rest) + budget <= MaxEvents
  BY <1>2 DEF SpendInv, PaidForInv, ReserveInv, CapInv
<1>7. /\ stamina' = stamina \/ (Paid(t) /\ stamina' = stamina - HelpCost)
      /\ spent' => spent \/ Paid(t)
  <2>1. CASE Paid(t)
    BY <1>1, <1>2, <2>1 DEF Paid, Cost
  <2>2. CASE ~Paid(t)
    <3> DEFINE cost == IF Type(t) = "help" THEN Cost(t) ELSE 0
    <3>1. cost = 0 /\ ~(Type(t) = "help" /\ Cost(t) > 0)
      BY <2>2 DEF Paid, Cost
    <3>2. \/ stamina' = stamina /\ spent' = spent
          \/ /\ stamina' = stamina - cost
             /\ spent' = (spent \/ (Type(t) = "help" /\ Cost(t) > 0))
      BY <1>1
    <3> HIDE DEF cost
    <3>3. stamina - cost = stamina
      BY <1>2, <3>1
    <3>4. stamina' = stamina
      BY <3>2, <3>3
    <3>5. spent' => spent
      BY <3>1, <3>2, Zenon
    <3> QED
      BY <3>4, <3>5
  <2> QED
    BY <2>1, <2>2
<1> HIDE DEF t
<1>8. SpendType'
  <2>1. stamina' \in Int /\ starts' \in Nat
    BY <1>1, <1>2, <1>3, <1>7
  <2> QED
    BY <1>1, <1>5, <2>1 DEF SpendInv, SpendType
<1>9. PaidForInv'
  <2>1. HelpCost * (Helps(Tail(rest)) + 1) = HelpCost * Helps(Tail(rest)) + HelpCost
    BY <1>3, <1>4
  <2>2. HelpCost * Helps(Due)' <= HelpCost * Helps(Tail(rest))
    BY <1>3, <1>4, <1>5
  <2>3. HelpCost * Helps(Tail(rest)) \in Nat /\ HelpCost * Helps(Due)' \in Nat
    BY <1>3, <1>4, <1>5
  <2>4. stamina' >= have + HelpCost * Helps(Tail(rest))
    <3>1. CASE Paid(t)
      <4>1. Helps(rest) = Helps(Tail(rest)) + 1
        BY <1>4, <3>1
      <4>2. stamina >= have + (HelpCost * Helps(Tail(rest)) + HelpCost)
        BY <1>6, <2>1, <4>1
      <4> QED
        BY <1>2, <1>3, <1>7, <2>3, <4>2
    <3>2. CASE ~Paid(t)
      <4>1. Helps(rest) = Helps(Tail(rest))
        BY <1>4, <3>2
      <4> QED
        BY <1>6, <1>7, <3>2, <4>1
    <3> QED
      BY <3>1, <3>2
  <2>5. stamina' \in Int
    BY <1>2, <1>3, <1>7
  <2>6. stamina' >= have + HelpCost * Helps(Due)'
    BY <1>2, <2>2, <2>3, <2>4, <2>5
  <2> QED
    BY <1>1, <2>6 DEF PaidForInv
<1>10. ReserveInv'
  <2>1. Helps(rest) > 0 => have >= HelpReserve
    BY <1>6
  <2>2. Paid(t) => Helps(rest) > 0
    BY <1>4
  <2>3. Helps(Due)' > 0 => Helps(rest) > 0
    BY <1>4, <1>5
  <2> QED
    BY <1>1, <1>6, <1>7, <2>1, <2>2, <2>3 DEF ReserveInv
<1>11. CapInv'
  BY <1>1, <1>2, <1>3, <1>5, <1>6 DEF CapInv
<1>12. EarlyInv'
  BY <1>1 DEF EarlyInv, Early
<1> QED
  BY <1>8, <1>9, <1>10, <1>11, <1>12 DEF SpendInv

LEMMA SpendInit == DigInit => SpendInv
<1> SUFFICES ASSUME NEW s \in Scenarios, RadarInit(s.account, s.tasks)
             PROVE  SpendInv
  BY DEF DigInit
<1>1. /\ account = s.account /\ account \in Accounts
      /\ stamina = TrueStamina(account) /\ snap = <<>> /\ have = 0 /\ budget = 0
      /\ starts = 0 /\ ~spent /\ step \in {"hold", "gate", "done"}
  BY DigAssumption DEF RadarInit
<1>2. stamina \in Nat /\ HelpCost \in Nat /\ MaxEvents \in Nat /\ HelpCost * 0 = 0
  BY <1>1, FloorIsLower, RadarAssumption
<1>3. Due = <<>> /\ Due \in Seq(Tasks) /\ Len(Due) = 0
  BY <1>1 DEF Due
<1>4. Helps(Due) = 0
  BY <1>3, HelpsNone
<1>5. DOMAIN snap \subseteq Tasks
  BY <1>1
<1> QED
  BY <1>1, <1>2, <1>3, <1>4, <1>5
     DEF SpendInv, SpendType, PaidForInv, ReserveInv, CapInv, EarlyInv

LEMMA SpendNext == SpendInv /\ [RunNext]_allVars => SpendInv'
<1> SUFFICES ASSUME SpendInv, [RunNext]_allVars
             PROVE  SpendInv'
  OBVIOUS
<1>1. CASE RadarNext
  BY <1>1, RadarIdles, IdleKeeps, DayKeeps, RoundKeeps, PlaceKeeps, StartKeeps DEF RadarNext
<1>2. CASE DigNext
  BY <1>2, DigsIdle, IdleKeeps
<1>3. CASE UNCHANGED allVars
  <2>1. Idle
    BY <1>3 DEF allVars, radarVars, serverVars, roundVars, Idle, Due, SpendInv, SpendType
  <2> QED
    BY <2>1, IdleKeeps
<1> QED
  BY <1>1, <1>2, <1>3 DEF RunNext, RadarStep, Over

LEMMA SpendIsLimited == SpendInv => LimitsAreForTheRun
<1> SUFFICES ASSUME SpendInv PROVE LimitsAreForTheRun
  OBVIOUS
<1>1. /\ HelpCost \in Nat /\ HelpReserve \in Nat /\ MaxEvents \in Nat
      /\ Helps(Due) \in Nat /\ Len(Due) \in Nat
  BY RadarAssumption, HelpsType DEF SpendInv, SpendType
<1>2. HelpCost * Helps(Due) \in Nat
  BY <1>1
<1> QED
  BY <1>1, <1>2
     DEF SpendInv, SpendType, PaidForInv, ReserveInv, CapInv, LimitsAreForTheRun

\* Whatever requests of a run fail, are repeated or get no answer, the helps leave
\* the player the stamina that is held back for marches, and all the rounds
\* together send no more starts than a run may.
THEOREM LimitsHold == DigSpec => []LimitsAreForTheRun
<1> QED
  BY SpendInit, SpendNext, SpendIsLimited, PTL DEF DigSpec

-----------------------------------------------------------------------------
(* Radar: what a round leaves out.                                          *)

\* The tasks that the fold has not taken, as long as it has taken none.
Untaken(t) == Plan(t, snap[t]) = "skip" \/ (Plan(t, snap[t]) = "help" /\ ~Affordable(t, have))

LeavesOut(acc, s, i) ==
    \E run \in Seq(Tasks), rem \in Int :
       /\ acc = [run |-> run, left |-> rem]
       /\ \A k \in DOMAIN run : run[k] \in ToSet(s) /\ Plan(run[k], snap[run[k]]) # "skip"
       /\ run = <<>> => rem = have /\ \A k \in 1 .. i : Untaken(s[k])

LeavesOutOf(from, s, acc, i) ==
    LeavesOut(from, s, 0) /\ s \in Seq(Tasks) /\ budget \in Nat \ {0} => LeavesOut(acc, s, i)

Leaving == INSTANCE FoldInduction WITH Op <- TakeTask, P <- LeavesOutOf

LEMMA TakeTaskLeaves ==
    ASSUME NEW s \in Seq(Tasks), NEW i \in 1 .. Len(s), NEW acc, LeavesOut(acc, s, i - 1), budget \in Nat \ {0}
    PROVE  LeavesOut(TakeTask(acc, s[i]), s, i)
<1> DEFINE t == s[i]
           p == Plan(t, snap[t])
           paid == IF p = "help" THEN Cost(t) ELSE 0
<1>1. PICK run \in Seq(Tasks), rem \in Int :
           /\ acc = [run |-> run, left |-> rem]
           /\ \A k \in DOMAIN run : run[k] \in ToSet(s) /\ Plan(run[k], snap[run[k]]) # "skip"
           /\ run = <<>> => rem = have /\ \A k \in 1 .. i - 1 : Untaken(s[k])
  BY DEF LeavesOut
<1>2. acc.run = run /\ acc.left = rem /\ t \in Tasks /\ t \in ToSet(s)
  BY <1>1 DEF ToSet
<1>3. Cost(t) \in Int
  BY RadarAssumption DEF Cost
<1>4. TakeTask(acc, t) = IF p = "skip" \/ Len(run) >= budget \/ (p = "help" /\ ~Affordable(t, rem))
                         THEN acc ELSE [run |-> Append(run, t), left |-> rem - paid]
  BY <1>2 DEF TakeTask
<1>5. CASE p = "skip" \/ Len(run) >= budget \/ (p = "help" /\ ~Affordable(t, rem))
  <2>1. TakeTask(acc, t) = [run |-> run, left |-> rem]
    BY <1>1, <1>4, <1>5
  <2>2. run = <<>> => ~(Len(run) >= budget)
    OBVIOUS
  <2>3. run = <<>> => Untaken(s[i])
    BY <1>1, <1>5, <2>2 DEF Untaken
  <2>4. run = <<>> => rem = have /\ \A k \in 1 .. i : Untaken(s[k])
    <3>1. \A k \in 1 .. i : k \in 1 .. i - 1 \/ k = i
      OBVIOUS
    <3> QED
      BY <1>1, <2>3, <3>1
  <2> HIDE DEF t
  <2> QED
    BY <1>1, <2>1, <2>4 DEF LeavesOut, t
<1>6. CASE ~(p = "skip" \/ Len(run) >= budget \/ (p = "help" /\ ~Affordable(t, rem)))
  <2>1. TakeTask(acc, t) = [run |-> Append(run, t), left |-> rem - paid]
    BY <1>4, <1>6
  <2>2. paid \in Int
    BY <1>3
  <2> HIDE DEF t, paid
  <2>3. Append(run, t) \in Seq(Tasks) /\ rem - paid \in Int /\ Append(run, t) # <<>>
    BY <1>2, <2>2
  <2>4. ASSUME NEW k \in DOMAIN Append(run, t)
        PROVE  LET u == Append(run, t)[k] IN u \in ToSet(s) /\ Plan(u, snap[u]) # "skip"
    <3>1. CASE k \in DOMAIN run
      BY <1>1, <3>1
    <3>2. CASE k \notin DOMAIN run
      <4>1. Append(run, t)[k] = t
        BY <3>2
      <4> QED
        BY <1>2, <1>6, <4>1
    <3> QED
      BY <3>1, <3>2
  <2> QED
    BY <2>1, <2>3, <2>4 DEF LeavesOut, t
<1> QED
  BY <1>5, <1>6

\* A round takes tasks that it could run; where it takes none, there is none.
LEMMA DecideLeaves ==
    ASSUME budget \in Nat \ {0}, have \in Int, DOMAIN snap \subseteq Tasks
    PROVE  /\ Decide.run \in Seq(Tasks)
           /\ \A t \in ToSet(Decide.run) : t \in DOMAIN snap /\ Plan(t, snap[t]) # "skip"
           /\ Decide.run = <<>> => \A t \in DOMAIN snap : Untaken(t)
<1> DEFINE from == [run |-> <<>>, left |-> RoundStamina]
           s == SoonestFirst(DOMAIN snap)
<1>1. s \in Seq(Tasks) /\ s \in Seq(DOMAIN snap) /\ DOMAIN snap \subseteq ToSet(s)
  <2>1. IsFiniteSet(DOMAIN snap)
    BY FS_Subset, RadarAssumption
  <2>2. s \in Seq(DOMAIN snap) /\ DOMAIN snap \subseteq ToSet(s)
    BY <2>1, SoonestFirstHas
  <2> HIDE DEF s
  <2> QED
    BY <2>2
<1> HIDE DEF s
<1>2. LeavesOut(from, s, 0)
  <2>1. <<>> \in Seq(Tasks) /\ from = [run |-> <<>>, left |-> have] /\ DOMAIN <<>> = {} /\ 1 .. 0 = {}
    BY DEF RoundStamina
  <2> HIDE DEF from
  <2>2. SUFFICES \E run \in Seq(Tasks), rem \in Int :
                   /\ from = [run |-> run, left |-> rem]
                   /\ \A k \in DOMAIN run : run[k] \in ToSet(s) /\ Plan(run[k], snap[run[k]]) # "skip"
                   /\ run = <<>> => rem = have /\ \A k \in 1 .. 0 : Untaken(s[k])
    BY DEF LeavesOut
  <2> WITNESS <<>> \in Seq(Tasks), have \in Int
  <2> QED
    BY <2>1
<1> HIDE DEF from
<1>3. LeavesOutOf(from, s, from, 0)
  BY DEF LeavesOutOf
<1>4. ASSUME NEW acc, NEW i, i \in 1 .. Len(s), LeavesOutOf(from, s, acc, i - 1)
      PROVE  LeavesOutOf(from, s, TakeTask(acc, s[i]), i)
  BY <1>1, <1>4, TakeTaskLeaves DEF LeavesOutOf
<1>5. LeavesOutOf(from, s, Leaving!FoldLeft(TakeTask, from, s), Len(s))
  BY <1>1, <1>3, <1>4, Leaving!FoldInduct
<1>6. Leaving!FoldLeft(TakeTask, from, s) = FoldLeft(TakeTask, from, s)
  BY DEF Leaving!FoldLeft, FoldLeft, Leaving!MapThenFoldSet, MapThenFoldSet, Leaving!Max, Max
<1>7. Decide = Leaving!FoldLeft(TakeTask, from, s)
  BY <1>6 DEF Decide, from, s
<1>8. LeavesOut(Decide, s, Len(s))
  BY <1>1, <1>2, <1>5, <1>7 DEF LeavesOutOf
<1>9. PICK run \in Seq(Tasks), rem \in Int :
           /\ Decide = [run |-> run, left |-> rem]
           /\ \A k \in DOMAIN run : run[k] \in ToSet(s) /\ Plan(run[k], snap[run[k]]) # "skip"
           /\ run = <<>> => rem = have /\ \A k \in 1 .. Len(s) : Untaken(s[k])
  BY <1>8 DEF LeavesOut
<1>10. Decide.run = run
  BY <1>9
<1>11. ASSUME NEW t \in ToSet(run) PROVE t \in DOMAIN snap /\ Plan(t, snap[t]) # "skip"
  BY <1>1, <1>9 DEF ToSet
<1>12. ASSUME run = <<>>, NEW t \in DOMAIN snap PROVE Untaken(t)
  <2>1. PICK k \in 1 .. Len(s) : s[k] = t
    BY <1>1 DEF ToSet
  <2> QED
    BY <1>9, <1>12, <2>1
<1> QED
  BY <1>10, <1>11, <1>12

\* Put in order, a list keeps what it has, but for tasks that could not be placed.
KeepsOrder(acc, placed, s, i) ==
    \E there \in Seq(Tasks), then \in Seq(Tasks) :
       /\ acc = [placed |-> placed, there |-> there, then |-> then]
       /\ ToSet(there) \cup ToSet(then) \subseteq ToSet(s)
       /\ \A k \in 1 .. i : ~ToPlace(s[k]) \/ s[k] \in placed => s[k] \in ToSet(there) \cup ToSet(then)

KeepsOrderOf(from, s, acc, i) ==
    \A placed : KeepsOrder(from, placed, s, 0) /\ s \in Seq(Tasks) => KeepsOrder(acc, placed, s, i)

Keeping == INSTANCE FoldInduction WITH Op <- PutInOrder, P <- KeepsOrderOf

LEMMA AppendHas ==
    ASSUME NEW ts, NEW s \in Seq(ts), NEW t \in ts
    PROVE  Append(s, t) \in Seq(ts) /\ ToSet(Append(s, t)) = ToSet(s) \cup {t}
<1>1. /\ Append(s, t) \in Seq(ts) /\ Len(Append(s, t)) = Len(s) + 1
      /\ \A i \in 1 .. Len(s) : Append(s, t)[i] = s[i]
      /\ Append(s, t)[Len(s) + 1] = t
  OBVIOUS
<1>2. DOMAIN Append(s, t) = 1 .. Len(s) \cup {Len(s) + 1} /\ DOMAIN s = 1 .. Len(s)
  BY <1>1
<1> QED
  BY <1>1, <1>2 DEF ToSet

LEMMA PutInOrderKeeps ==
    ASSUME NEW placed, NEW s \in Seq(Tasks), NEW i \in 1 .. Len(s), NEW acc, KeepsOrder(acc, placed, s, i - 1)
    PROVE  KeepsOrder(PutInOrder(acc, s[i]), placed, s, i)
<1> DEFINE t == s[i]
<1>1. PICK there \in Seq(Tasks), then \in Seq(Tasks) :
           /\ acc = [placed |-> placed, there |-> there, then |-> then]
           /\ ToSet(there) \cup ToSet(then) \subseteq ToSet(s)
           /\ \A k \in 1 .. i - 1 : ~ToPlace(s[k]) \/ s[k] \in placed => s[k] \in ToSet(there) \cup ToSet(then)
  BY DEF KeepsOrder
<1>2. t \in Tasks /\ t \in ToSet(s) /\ \A k \in 1 .. i : k \in 1 .. i - 1 \/ s[k] = t
  BY DEF ToSet
<1> HIDE DEF t
<1> SUFFICES KeepsOrder(PutInOrder(acc, t), placed, s, i)
  BY DEF t
<1>3. /\ Append(there, t) \in Seq(Tasks) /\ ToSet(Append(there, t)) = ToSet(there) \cup {t}
      /\ Append(then, t) \in Seq(Tasks) /\ ToSet(Append(then, t)) = ToSet(then) \cup {t}
  BY <1>2, AppendHas
<1>4. ASSUME NEW a \in Seq(Tasks), NEW b \in Seq(Tasks),
             PutInOrder(acc, t) = [placed |-> placed, there |-> a, then |-> b],
             ToSet(a) \cup ToSet(b) \subseteq ToSet(s),
             ToSet(there) \cup ToSet(then) \subseteq ToSet(a) \cup ToSet(b),
             ~ToPlace(t) \/ t \in placed => t \in ToSet(a) \cup ToSet(b)
      PROVE  KeepsOrder(PutInOrder(acc, t), placed, s, i)
  <2>1. ASSUME NEW k \in 1 .. i, ~ToPlace(s[k]) \/ s[k] \in placed
        PROVE  s[k] \in ToSet(a) \cup ToSet(b)
    <3>1. CASE k \in 1 .. i - 1
      BY <1>1, <1>4, <2>1, <3>1
    <3>2. CASE s[k] = t
      BY <1>4, <2>1, <3>2
    <3> QED
      BY <1>2, <3>1, <3>2
  <2> QED
    BY <1>4, <2>1 DEF KeepsOrder
<1>5. CASE ~ToPlace(t)
  <2>1. PutInOrder(acc, t) = [placed |-> placed, there |-> Append(there, t), then |-> then]
    BY <1>1, <1>5 DEF PutInOrder
  <2>2. /\ ToSet(Append(there, t)) \cup ToSet(then) \subseteq ToSet(s)
        /\ ToSet(there) \cup ToSet(then) \subseteq ToSet(Append(there, t)) \cup ToSet(then)
        /\ t \in ToSet(Append(there, t))
    BY <1>1, <1>2, <1>3
  <2> QED
    BY <1>3, <1>4, <2>1, <2>2
<1>6. CASE ToPlace(t) /\ t \in placed
  <2>1. PutInOrder(acc, t) = [placed |-> placed, there |-> there, then |-> Append(then, t)]
    BY <1>1, <1>6 DEF PutInOrder
  <2>2. /\ ToSet(there) \cup ToSet(Append(then, t)) \subseteq ToSet(s)
        /\ ToSet(there) \cup ToSet(then) \subseteq ToSet(there) \cup ToSet(Append(then, t))
        /\ t \in ToSet(Append(then, t))
    BY <1>1, <1>2, <1>3
  <2> QED
    BY <1>3, <1>4, <2>1, <2>2
<1>7. CASE ToPlace(t) /\ t \notin placed
  <2>1. PutInOrder(acc, t) = [placed |-> placed, there |-> there, then |-> then]
    BY <1>1, <1>7 DEF PutInOrder
  <2> QED
    BY <1>1, <1>4, <1>7, <2>1
<1> QED
  BY <1>5, <1>6, <1>7

LEMMA ConcatHas ==
    ASSUME NEW a \in Seq(Tasks), NEW b \in Seq(Tasks)
    PROVE  a \o b \in Seq(Tasks) /\ ToSet(a \o b) = ToSet(a) \cup ToSet(b)
<1>1. /\ a \o b \in Seq(Tasks) /\ Len(a \o b) = Len(a) + Len(b)
      /\ \A i \in 1 .. Len(a) : (a \o b)[i] = a[i]
      /\ \A i \in 1 .. Len(b) : (a \o b)[Len(a) + i] = b[i]
  OBVIOUS
<1>2. ASSUME NEW i \in DOMAIN (a \o b) PROVE (a \o b)[i] \in ToSet(a) \cup ToSet(b)
  <2>1. CASE i \in 1 .. Len(a)
    BY <1>1, <2>1 DEF ToSet
  <2>2. CASE i \notin 1 .. Len(a)
    <3>1. i - Len(a) \in 1 .. Len(b) /\ Len(a) + (i - Len(a)) = i
      BY <1>1, <2>2
    <3>2. (a \o b)[i] = b[i - Len(a)]
      BY <1>1, <3>1
    <3> QED
      BY <3>1, <3>2 DEF ToSet
  <2> QED
    BY <2>1, <2>2
<1>3. \A i \in 1 .. Len(a) : a[i] \in ToSet(a \o b)
  <2>1. \A i \in 1 .. Len(a) : i \in DOMAIN (a \o b)
    BY <1>1
  <2> QED
    BY <1>1, <2>1 DEF ToSet
<1>4. \A i \in 1 .. Len(b) : b[i] \in ToSet(a \o b)
  <2>1. \A i \in 1 .. Len(b) : Len(a) + i \in DOMAIN (a \o b)
    BY <1>1
  <2> QED
    BY <1>1, <2>1 DEF ToSet
<1>5. ToSet(a \o b) \subseteq ToSet(a) \cup ToSet(b)
  BY <1>2 DEF ToSet
<1>6. ToSet(a) \cup ToSet(b) \subseteq ToSet(a \o b)
  <2>1. DOMAIN a = 1 .. Len(a) /\ DOMAIN b = 1 .. Len(b)
    OBVIOUS
  <2>2. ASSUME NEW x \in ToSet(a) PROVE x \in ToSet(a \o b)
    BY <1>3, <2>1, <2>2 DEF ToSet
  <2>3. ASSUME NEW x \in ToSet(b) PROVE x \in ToSet(a \o b)
    BY <1>4, <2>1, <2>3 DEF ToSet
  <2> QED
    BY <2>2, <2>3
<1> QED
  BY <1>1, <1>5, <1>6

LEMMA InOrderHas ==
    ASSUME NEW placed, rest \in Seq(Tasks), {t \in ToSet(rest) : ToPlace(t)} \subseteq placed
    PROVE  InOrder(placed) \in Seq(Tasks) /\ ToSet(InOrder(placed)) = ToSet(rest)
<1> DEFINE from == [placed |-> placed, there |-> <<>>, then |-> <<>>]
           all == FoldLeft(PutInOrder, from, rest)
<1>1. KeepsOrder(from, placed, rest, 0)
  <2>1. <<>> \in Seq(Tasks) /\ ToSet(<<>>) = {} /\ 1 .. 0 = {}
    BY DEF ToSet
  <2>2. from = [placed |-> placed, there |-> <<>>, then |-> <<>>]
    OBVIOUS
  <2> HIDE DEF from
  <2>3. SUFFICES \E there \in Seq(Tasks), then \in Seq(Tasks) :
           /\ from = [placed |-> placed, there |-> there, then |-> then]
           /\ ToSet(there) \cup ToSet(then) \subseteq ToSet(rest)
           /\ \A k \in 1 .. 0 : ~ToPlace(rest[k]) \/ rest[k] \in placed => rest[k] \in ToSet(there) \cup ToSet(then)
    BY DEF KeepsOrder
  <2> WITNESS <<>> \in Seq(Tasks), <<>> \in Seq(Tasks)
  <2> QED
    BY <2>1, <2>2
<1> HIDE DEF from
<1>2. KeepsOrderOf(from, rest, from, 0)
  BY DEF KeepsOrderOf
<1>3. ASSUME NEW acc, NEW i, i \in 1 .. Len(rest), KeepsOrderOf(from, rest, acc, i - 1)
      PROVE  KeepsOrderOf(from, rest, PutInOrder(acc, rest[i]), i)
  BY <1>3, PutInOrderKeeps DEF KeepsOrderOf
<1>4. KeepsOrderOf(from, rest, Keeping!FoldLeft(PutInOrder, from, rest), Len(rest))
  BY <1>2, <1>3, Keeping!FoldInduct
<1>5. Keeping!FoldLeft(PutInOrder, from, rest) = FoldLeft(PutInOrder, from, rest)
  BY DEF Keeping!FoldLeft, FoldLeft, Keeping!MapThenFoldSet, MapThenFoldSet, Keeping!Max, Max
<1>6. KeepsOrder(all, placed, rest, Len(rest))
  BY <1>1, <1>4, <1>5 DEF KeepsOrderOf
<1>7. InOrder(placed) = all.there \o all.then
  BY DEF InOrder, from
<1> HIDE DEF all
<1>8. PICK there \in Seq(Tasks), then \in Seq(Tasks) :
           /\ all = [placed |-> placed, there |-> there, then |-> then]
           /\ ToSet(there) \cup ToSet(then) \subseteq ToSet(rest)
           /\ \A k \in 1 .. Len(rest) :
                 ~ToPlace(rest[k]) \/ rest[k] \in placed => rest[k] \in ToSet(there) \cup ToSet(then)
  BY <1>6 DEF KeepsOrder
<1>9. InOrder(placed) = there \o then
  BY <1>7, <1>8
<1>10. InOrder(placed) \in Seq(Tasks) /\ ToSet(InOrder(placed)) = ToSet(there) \cup ToSet(then)
  BY <1>9, ConcatHas
<1>11. ASSUME NEW t \in ToSet(rest) PROVE t \in ToSet(there) \cup ToSet(then)
  <2>1. PICK k \in 1 .. Len(rest) : rest[k] = t
    BY DEF ToSet
  <2> QED
    BY <1>8, <2>1
<1> QED
  BY <1>8, <1>10, <1>11

-----------------------------------------------------------------------------
(* DayUsedUp.  What a run without a fault has still to do on a day that      *)
(* scores: which finished tasks wait for a claim (WaitingInv), and what the  *)
(* server makes of the tasks of a round (RoundInv), so that a round that     *)
(* started more than talks claims something and is not the last.             *)

Fine == ~failed /\ account.scores

Quick == {"pick", "visitor", "help", "talk"}

Waiting == {t \in Tasks : task[t] = "finished" /\ Type(t) \notin SkippedTypes}

\* The tasks that were started and bring a reward to claim.
Acts == {t \in ToSet(started) : Type(t) # "talk"}

\* From here on radar-claims is over.
Claimed == {"gate", "read", "day", "decide", "place", "start", "end", "reread", "claim", "redraw", "done"}

DayType ==
    /\ round \in Nat /\ claimed \in Nat /\ DOMAIN task = Tasks
    /\ rest \in Seq(Tasks) /\ started \in Seq(Tasks)

ScoresInv ==
    step \in {"info", "decide", "place", "start", "end", "reread", "claim", "redraw"} => radarDay

WaitingInv ==
    "radar-claims" \in account.runs =>
        /\ step \in {"gate", "read", "day", "decide", "place", "start", "redraw", "done"} => Waiting = {}
        /\ step \in {"events", "claim"} => Waiting \subseteq ToSet(rest)
        /\ step \in {"end", "reread"} => Waiting \subseteq done
        /\ step \in Claimed => rewardLevel >= account.level \/ levels = MaxLevelClaims

SnapInv ==
    /\ step \in {"day", "decide"} => snap = [t \in Listed |-> task[t]]
    /\ step = "place" =>
          /\ rest # <<>>
          /\ \A t \in ToSet(rest) : snap[t] = task[t] /\ task[t] \in {"open", "hidden"} /\ Type(t) \in Quick

RoundInv ==
    /\ step = "place" => started = <<>>
    /\ step = "start" =>
          /\ rest # <<>> \/ started # <<>>
          /\ \A t \in ToSet(rest) \cup ToSet(started) :
                Type(t) \in Quick /\ (Type(t) # "talk" => task[t] = "open")
          /\ Acts \subseteq begun
    /\ step \in {"end", "reread", "claim"} => started # <<>>
    /\ step = "end" =>
          /\ half # "refused"
          /\ \A t \in Acts : /\ Type(t) \in Quick /\ t \in begun
                             /\ \/ t \in ToSet(rest) /\ task[t] = "open"
                                \/ t \in done /\ task[t] = "finished"
    /\ step = "reread" => \A t \in Acts : Type(t) \in Quick /\ t \in done /\ task[t] = "finished"
    /\ step = "claim" => claimed > 0 \/ Acts \subseteq ToSet(rest)

DayInv == Fine => ScoresInv /\ WaitingInv /\ SnapInv /\ RoundInv /\ DayUsedUp

\* A request without a fault was done in full.
LEMMA TriedWell == ASSUME NEW o, NEW full, Try(o, full), Fine', UNCHANGED account PROVE o = "ok" /\ full /\ Fine
  BY DEF Try, Fine

LEMMA TailHas ==
    ASSUME NEW list \in Seq(Tasks), list # <<>>
    PROVE  /\ Head(list) \in Tasks /\ Tail(list) \in Seq(Tasks)
           /\ ToSet(list) = {Head(list)} \cup ToSet(Tail(list))
<1>1. /\ Head(list) = list[1] /\ Head(list) \in Tasks
      /\ Tail(list) \in Seq(Tasks) /\ Len(Tail(list)) = Len(list) - 1
      /\ \A i \in 1 .. Len(list) - 1 : Tail(list)[i] = list[i + 1]
      /\ Len(list) \in Nat \ {0} /\ DOMAIN list = 1 .. Len(list)
  OBVIOUS
<1>2. DOMAIN Tail(list) = 1 .. Len(list) - 1
  BY <1>1
<1>3. ASSUME NEW i \in DOMAIN list PROVE list[i] \in {Head(list)} \cup ToSet(Tail(list))
  <2>1. CASE i = 1
    BY <1>1, <2>1
  <2>2. CASE i # 1
    <3>1. i - 1 \in 1 .. Len(list) - 1 /\ (i - 1) + 1 = i
      BY <1>1, <2>2
    <3>2. list[i] = Tail(list)[i - 1] /\ i - 1 \in DOMAIN Tail(list)
      BY <1>1, <1>2, <3>1
    <3> QED
      BY <3>2 DEF ToSet
  <2> QED
    BY <2>1, <2>2
<1>4. ASSUME NEW i \in DOMAIN Tail(list) PROVE Tail(list)[i] \in ToSet(list)
  <2>1. i + 1 \in DOMAIN list /\ Tail(list)[i] = list[i + 1]
    BY <1>1, <1>2
  <2> QED
    BY <2>1 DEF ToSet
<1>5. Head(list) \in ToSet(list)
  <2>1. 1 \in DOMAIN list
    BY <1>1
  <2> QED
    BY <1>1, <2>1 DEF ToSet
<1>6. ToSet(list) \subseteq {Head(list)} \cup ToSet(Tail(list))
  BY <1>3 DEF ToSet
<1>7. ToSet(Tail(list)) \subseteq ToSet(list)
  BY <1>4 DEF ToSet
<1> QED
  BY <1>1, <1>5, <1>6, <1>7

LEMMA DrawnIs ==
    ASSUME NEW f, DOMAIN f = Tasks, NEW g \in Drawn(f)
    PROVE  /\ DOMAIN g = Tasks
           /\ \A u \in Tasks : g[u] = f[u] \/ (f[u] = "stock" /\ g[u] \in {"hidden", "open"})
  BY DEF Drawn

LEMMA RewardIs ==
    ASSUME NEW t, NEW o, Reward(t, o), DOMAIN task = Tasks
    PROVE  /\ DOMAIN task' = Tasks /\ Waiting' \subseteq Waiting
           /\ o = "ok" => t \notin Waiting'
<1>1. PICK reached \in Reached(o) :
           IF reached /\ task[t] = "finished" THEN task' \in Drawn([task EXCEPT ![t] = "rewarded"]) ELSE task' = task
  BY DEF Reward
<1>2. o = "ok" => reached
  BY DEF Reached
<1>3. CASE reached /\ task[t] = "finished"
  <2> DEFINE f == [task EXCEPT ![t] = "rewarded"]
  <2>1. DOMAIN f = Tasks /\ task' \in Drawn(f)
    BY <1>1, <1>3
  <2>2. \A u \in Tasks : f[u] = IF u = t THEN "rewarded" ELSE task[u]
    OBVIOUS
  <2> HIDE DEF f
  <2>3. /\ DOMAIN task' = Tasks
        /\ \A u \in Tasks : task'[u] = f[u] \/ (f[u] = "stock" /\ task'[u] \in {"hidden", "open"})
    BY <2>1, DrawnIs
  <2> QED
    BY <2>2, <2>3 DEF Waiting, Type
<1>4. CASE ~(reached /\ task[t] = "finished")
  BY <1>1, <1>2, <1>4 DEF Waiting, Type
<1> QED
  BY <1>3, <1>4

LEMMA EndIs ==
    ASSUME NEW t \in Tasks, NEW o, End(t, o), DOMAIN task = Tasks
    PROVE  /\ DOMAIN task' = Tasks /\ begun' = begun
           /\ \A u \in Tasks \ {t} : task[u] \in {"open", "finished"} => task'[u] = task[u]
           /\ Waiting' \subseteq Waiting \cup IF Type(t) = "talk" THEN {} ELSE {t}
           /\ task[t] = "finished" => task'[t] = "finished"
           /\ o = "ok" /\ Type(t) # "talk" /\ t \in begun /\ task[t] = "open" => task'[t] = "finished"
<1>0. begun' = begun
  BY DEF End
<1>1. PICK reached \in Reached(o) :
           IF reached /\ t \in begun /\ task[t] = "open"
           THEN IF Type(t) = "talk"
                THEN task' \in Drawn([task EXCEPT ![t] = "rewarded"])
                ELSE task' = [task EXCEPT ![t] = "finished"]
           ELSE task' = task
  BY DEF End
<1>2. o = "ok" => reached
  BY DEF Reached
<1>3. CASE reached /\ t \in begun /\ task[t] = "open" /\ Type(t) = "talk"
  <2> DEFINE f == [task EXCEPT ![t] = "rewarded"]
  <2>1. DOMAIN f = Tasks /\ task' \in Drawn(f)
    BY <1>1, <1>3
  <2>2. \A u \in Tasks : f[u] = IF u = t THEN "rewarded" ELSE task[u]
    OBVIOUS
  <2> HIDE DEF f
  <2>3. /\ DOMAIN task' = Tasks
        /\ \A u \in Tasks : task'[u] = f[u] \/ (f[u] = "stock" /\ task'[u] \in {"hidden", "open"})
    BY <2>1, DrawnIs
  <2> QED
    BY <1>0, <1>3, <2>2, <2>3 DEF Waiting, Type
<1>4. CASE reached /\ t \in begun /\ task[t] = "open" /\ Type(t) # "talk"
  <2>1. task' = [task EXCEPT ![t] = "finished"]
    BY <1>1, <1>4
  <2> QED
    BY <1>0, <1>4, <2>1 DEF Waiting, Type
<1>5. CASE ~(reached /\ t \in begun /\ task[t] = "open")
  BY <1>0, <1>1, <1>2, <1>5 DEF Waiting, Type
<1> QED
  BY <1>3, <1>4, <1>5

\* A reply to get.detect.info is true of the server, and what may be claimed of it
\* is a list.
LEMMA ReadIs ==
    ASSUME ReadDetect("ok"), DOMAIN task = Tasks
    PROVE  /\ snap' = [t \in Listed' |-> task'[t]] /\ task' = task /\ DOMAIN snap' \subseteq Tasks
           /\ \A t \in Tasks : task[t] = "finished" => t \in DOMAIN snap' /\ snap'[t] = "finished"
<1>1. snap' = [t \in Listed |-> task[t]] /\ task' = task
  BY DEF ReadDetect, NoEffect
<1>2. Listed' = Listed /\ Listed \subseteq Tasks
  BY <1>1 DEF Listed
<1> QED
  BY <1>1, <1>2 DEF Listed

LEMMA ListedForClaim ==
    ASSUME NEW ts \in SUBSET Tasks
    PROVE  SetToSeq(ts) \in Seq(Tasks) /\ ToSet(SetToSeq(ts)) = ts
<1>1. IsFiniteSet(ts)
  BY FS_Subset, RadarAssumption
<1>2. SetToSeq(ts) \in Seq(ts) /\ ToSet(SetToSeq(ts)) = ts
  BY <1>1, SetToSeqHas
<1> HIDE DEF SetToSeq
<1> QED
  BY <1>2


\* The steps of treasure-digs.
Beyond ==
    {"ruins", "ruin", "ruin_place", "board", "dig", "dug", "held", "ruin_chest", "city", "city_board", "city_chests",
     "vault", "again", "round", "chest", "boards", "turned", "track", "track_chest", "over"}

LEMMA DigsAreBeyond == ASSUME DigNext PROVE NotRadar /\ step' \in Beyond
<1> USE DEF Beyond, Silent, Reads, Then
<1>1. CASE DigsBegin
  BY <1>1 DEF DigsBegin
<1>2. CASE RuinsInfo
  BY <1>2 DEF RuinsInfo
<1>3. CASE Ruin
  BY <1>3 DEF Ruin
<1>4. CASE PlaceRuin
  BY <1>4 DEF PlaceRuin
<1>5. CASE RuinBoard
  BY <1>5 DEF RuinBoard, FreeHammers
<1>6. CASE RuinDug
  BY <1>6 DEF RuinDug
<1>7. CASE RuinHeld
  BY <1>7 DEF RuinHeld
<1>8. CASE RuinChest
  BY <1>8 DEF RuinChest
<1>9. CASE City
  BY <1>9 DEF City
<1>10. CASE CityBoard
  BY <1>10 DEF CityBoard, FreeHammers
<1>11. CASE CityDug
  BY <1>11 DEF CityDug
<1>12. CASE CityChest
  BY <1>12 DEF CityChest, ClaimChest
<1>13. CASE CityOver
  BY <1>13 DEF CityOver
<1>14. CASE Vault
  BY <1>14 DEF Vault
<1>15. CASE Round
  BY <1>15 DEF Round
<1>16. CASE VaultChest
  BY <1>16 DEF VaultChest, ClaimChest
<1>17. CASE StartTimed
  BY <1>17 DEF StartTimed, TimedIs
<1>18. CASE DigTimed
  BY <1>18 DEF DigTimed, TimedIs
<1>19. CASE TimedChest
  BY <1>19 DEF TimedChest, TimedIs
<1>20. CASE TimedFailed
  BY <1>20 DEF TimedFailed, TimedIs
<1>21. CASE LeaveVault
  BY <1>21 DEF LeaveVault
<1>22. CASE Stage
  BY <1>22 DEF Stage
<1>23. CASE TimedDug
  BY <1>23 DEF TimedDug
<1>24. CASE StageDug
  BY <1>24 DEF StageDug
<1>25. CASE Turned
  BY <1>25 DEF Turned
<1>26. CASE TrackInfo
  BY <1>26 DEF TrackInfo
<1>27. CASE TrackChest
  BY <1>27 DEF TrackChest
<1>28. CASE TrackOver
  BY <1>28 DEF TrackOver
<1>29. CASE DigEnds
  BY <1>29 DEF DigEnds
<1>30. CASE OpenBrick
  BY <1>30 DEF OpenBrick
<1> QED
  BY <1>1, <1>2, <1>3, <1>4, <1>5, <1>6, <1>7, <1>8, <1>9, <1>10, <1>11, <1>12, <1>13, <1>14, <1>15, <1>16, <1>17, <1>18, <1>19, <1>20, <1>21, <1>22, <1>23, <1>24, <1>25, <1>26, <1>27, <1>28, <1>29, <1>30 DEF DigNext

\* The parts of a radar step that DayType is about.
LEMMA RadarKeepsDayType == ASSUME DayType, SpendInv, RadarNext PROVE DayType'
<1> USE DEF DayType
<1>0. <<>> \in Seq(Tasks) /\ DOMAIN snap \subseteq Tasks
  BY DEF SpendInv, SpendType
<1>1. CASE Hold
  BY <1>1 DEF Hold, JudgeDay, NoEffect, roundVars
<1>2. CASE Info
  <2>1. PICK o \in Outcomes :
             /\ ReadDetect(o)
             /\ rest' = IF o = "ok" THEN SetToSeq({t \in DOMAIN snap' : Claimable(t)'}) ELSE <<>>
    BY <1>2 DEF Info
  <2>2. DOMAIN snap' \subseteq Tasks
    BY <1>0, <2>1, ReadsTasks
  <2>3. {t \in DOMAIN snap' : Claimable(t)'} \in SUBSET Tasks
    BY <2>2
  <2>4. rest' \in Seq(Tasks)
    BY <1>0, <2>1, <2>3, ListedForClaim, Zenon
  <2>5. UNCHANGED <<round, claimed, task, started>>
    BY <1>2, <2>1 DEF Info, ReadDetect, NoEffect
  <2> QED
    BY <2>4, <2>5
<1>3. CASE ClaimEvent
  <2>1. PICK o \in Outcomes : Reward(Head(rest), o)
    BY <1>3 DEF ClaimEvent
  <2>2. DOMAIN task' = Tasks
    BY <2>1, RewardIs
  <2>3. UNCHANGED <<round, claimed, started>> /\ rest' = Tail(rest) /\ rest # <<>>
    BY <1>3 DEF ClaimEvent
  <2> QED
    BY <2>2, <2>3, TailHas
<1>4. CASE ClaimLevel
  <2>1. task' \in Drawn(task) \/ task' = task
    BY <1>4 DEF ClaimLevel
  <2>2. DOMAIN task' = Tasks
    BY <2>1, DrawnIs
  <2> QED
    BY <1>4, <2>2 DEF ClaimLevel, roundVars
<1>5. CASE ClaimsOver \/ Gate \/ Ended \/ RoundEnds
  BY <1>5 DEF ClaimsOver, Gate, Ended, RoundEnds, serverVars, roundVars
<1>6. CASE Read
  BY <1>6 DEF Read, ReadDetect, NoEffect, roundVars
<1>7. CASE Day
  BY <1>7 DEF Day, JudgeDay, NoEffect
<1>8. CASE RoundBegins
  <2>1. UNCHANGED <<round, task>> /\ started' = <<>>
    BY <1>8 DEF RoundBegins, serverVars
  <2>2. CASE step' = "done"
    BY <1>0, <1>8, <2>1, <2>2 DEF RoundBegins
  <2>3. CASE step' # "done"
    <3>1. rest' = Decide.run /\ claimed' = 0 /\ budget # 0
      BY <1>8, <2>3 DEF RoundBegins
    <3>2. budget \in Nat \ {0} /\ have \in Int
      BY <3>1 DEF SpendInv, SpendType
    <3> QED
      BY <1>0, <2>1, <3>1, <3>2, DecideLeaves
  <2> QED
    BY <2>2, <2>3
<1>9. CASE Place
  <2>1. UNCHANGED <<round, claimed, started>> /\ \E placed : rest' = InOrder(placed)
    BY <1>9 DEF Place
  <2>2. DOMAIN task' = Tasks
    BY <1>9 DEF Place, serverVars
  <2> QED
    BY <2>1, <2>2, InOrderIs
<1>10. CASE StartTask
  <2>1. rest # <<>> /\ rest' = Tail(rest) /\ UNCHANGED <<round, claimed, task>>
    BY <1>10 DEF StartTask, Begin
  <2>2. started' = started \/ started' = Append(started, Head(rest))
    BY <1>10 DEF StartTask
  <2>3. Head(rest) \in Tasks /\ Tail(rest) \in Seq(Tasks)
    BY <2>1, TailHas
  <2>4. Append(started, Head(rest)) \in Seq(Tasks)
    BY <2>3, AppendHas
  <2> QED
    BY <2>1, <2>2, <2>3, <2>4
<1>11. CASE March
  BY <1>11 DEF March, serverVars
<1>12. CASE EndSampling
  BY <1>12 DEF EndSampling, NoEffect
<1>13. CASE EndTask
  <2>1. PICK o \in Outcomes : End(Head(rest), o)
    BY <1>13 DEF EndTask
  <2>2. rest # <<>> /\ rest' = Tail(rest) /\ UNCHANGED <<round, claimed, started>>
    BY <1>13 DEF EndTask
  <2>3. Head(rest) \in Tasks /\ Tail(rest) \in Seq(Tasks)
    BY <2>2, TailHas
  <2> QED
    BY <2>1, <2>2, <2>3, EndIs
<1>14. CASE Reread
  <2>1. PICK o \in Outcomes :
             /\ ReadDetect(o)
             /\ rest' = IF o = "ok" THEN SetToSeq({t \in DOMAIN snap' \cap done : Claimable(t)'}) ELSE <<>>
    BY <1>14 DEF Reread
  <2>2. DOMAIN snap' \subseteq Tasks
    BY <1>0, <2>1, ReadsTasks
  <2>3. {t \in DOMAIN snap' \cap done : Claimable(t)'} \in SUBSET Tasks
    BY <2>2
  <2>4. rest' \in Seq(Tasks)
    BY <1>0, <2>1, <2>3, ListedForClaim, Zenon
  <2>5. UNCHANGED <<round, claimed, task, started>>
    BY <1>14, <2>1 DEF Reread, ReadDetect, NoEffect
  <2> QED
    BY <2>4, <2>5
<1>15. CASE ClaimDone
  <2>1. PICK o \in Outcomes : Reward(Head(rest), o)
    BY <1>15 DEF ClaimDone
  <2>2. DOMAIN task' = Tasks
    BY <2>1, RewardIs
  <2>3. UNCHANGED <<round, started>> /\ rest' = Tail(rest) /\ rest # <<>> /\ claimed' \in {claimed, claimed + 1}
    BY <1>15 DEF ClaimDone
  <2> QED
    BY <2>2, <2>3, TailHas
<1>16. CASE Redraw
  BY <1>16 DEF Redraw, ReadDetect, NoEffect
<1> QED
  BY <1>1, <1>2, <1>3, <1>4, <1>5, <1>6, <1>7, <1>8, <1>9, <1>10, <1>11, <1>12, <1>13, <1>14, <1>15, <1>16 DEF RadarNext

LEMMA DayTypeInit == DigInit => DayType
<1> SUFFICES ASSUME NEW s \in Scenarios, RadarInit(s.account, s.tasks)
             PROVE  DayType
  BY DEF DigInit
<1>1. round = 0 /\ claimed = 0 /\ task = s.tasks /\ rest = <<>> /\ started = <<>>
  BY DEF RadarInit
<1>2. DOMAIN s.tasks = Tasks
  BY DigAssumption
<1> QED
  BY <1>1, <1>2 DEF DayType

LEMMA DayTypeNext == DayType /\ SpendInv /\ [RunNext]_allVars => DayType'
<1> SUFFICES ASSUME DayType, SpendInv, [RunNext]_allVars PROVE DayType'
  OBVIOUS
<1>1. CASE RadarNext
  BY <1>1, RadarKeepsDayType
<1>2. CASE DigNext
  <2>1. UNCHANGED <<round, claimed, task, rest, started>>
    BY <1>2, DigsAreBeyond DEF NotRadar, roundVars
  <2> QED
    BY <2>1 DEF DayType
<1>3. CASE UNCHANGED allVars
  BY <1>3 DEF allVars, radarVars, serverVars, roundVars, DayType
<1> QED
  BY <1>1, <1>2, <1>3 DEF RunNext, RadarStep, Over

\* One lemma for each step of the radar features.
LEMMA HoldKeepsDay == ASSUME DayType, SpendInv, DayInv, Hold PROVE DayInv'
<1> SUFFICES ASSUME Fine' PROVE ScoresInv' /\ WaitingInv' /\ SnapInv' /\ RoundInv' /\ DayUsedUp'
  BY DEF DayInv
<1>1. PICK o \in Outcomes : JudgeDay(o)
  BY DEF Hold
<1>2. account' = account /\ step' = IF radarDay' THEN "info" ELSE "gate"
  BY DEF Hold
<1>3. o = "ok" /\ Fine
  BY <1>1, <1>2, TriedWell DEF JudgeDay, Send
<1>4. radarDay' /\ step' = "info"
  BY <1>1, <1>2, <1>3 DEF JudgeDay, Fine
<1> QED
  BY <1>4 DEF ScoresInv, WaitingInv, SnapInv, RoundInv, DayUsedUp, Claimed

LEMMA InfoKeepsDay == ASSUME DayType, SpendInv, DayInv, Info PROVE DayInv'
<1> SUFFICES ASSUME Fine' PROVE ScoresInv' /\ WaitingInv' /\ SnapInv' /\ RoundInv' /\ DayUsedUp'
  BY DEF DayInv
<1>1. PICK o \in Outcomes :
           /\ ReadDetect(o)
           /\ step' = CASE o = "ok" -> "events" [] o = "lost" -> "done" [] OTHER -> "gate"
           /\ rest' = IF o = "ok" THEN SetToSeq({t \in DOMAIN snap' : Claimable(t)'}) ELSE <<>>
  BY DEF Info
<1>2. account' = account /\ radarDay' = radarDay
  BY DEF Info
<1>3. o = "ok" /\ Fine
  BY <1>1, <1>2, TriedWell DEF ReadDetect, Send
<1>4. ReadDetect("ok") /\ step' = "events" /\ rest' = SetToSeq({t \in DOMAIN snap' : Claimable(t)'})
  BY <1>1, <1>3
<1>5. /\ task' = task /\ DOMAIN snap' \subseteq Tasks
      /\ \A t \in Tasks : task[t] = "finished" => t \in DOMAIN snap' /\ snap'[t] = "finished"
  BY <1>4, ReadIs DEF DayType
<1>6. {t \in DOMAIN snap' : Claimable(t)'} \in SUBSET Tasks
  BY <1>5
<1>7. ToSet(rest') = {t \in DOMAIN snap' : Claimable(t)'}
  BY <1>4, <1>6, ListedForClaim, Zenon
<1>8. Waiting' \subseteq ToSet(rest')
  BY <1>5, <1>7 DEF Waiting, Claimable, Type
<1>9. Waiting' \subseteq ToSet(rest)'
  BY <1>8 DEF ToSet
<1> QED
  BY <1>4, <1>9 DEF ScoresInv, WaitingInv, SnapInv, RoundInv, DayUsedUp, Claimed

LEMMA ClaimEventKeepsDay == ASSUME DayType, SpendInv, DayInv, ClaimEvent PROVE DayInv'
<1> SUFFICES ASSUME Fine' PROVE ScoresInv' /\ WaitingInv' /\ SnapInv' /\ RoundInv' /\ DayUsedUp'
  BY DEF DayInv
<1>1. PICK o \in Outcomes : Reward(Head(rest), o) /\ step' = IF o = "lost" THEN "done" ELSE step
  BY DEF ClaimEvent
<1>2. account' = account /\ step = "events" /\ rest # <<>> /\ rest' = Tail(rest)
  BY DEF ClaimEvent
<1>3. o = "ok" /\ Fine
  BY <1>1, <1>2, TriedWell DEF Reward, Send
<1>4. step' = "events" /\ Waiting' \subseteq Waiting \ {Head(rest)}
  BY <1>1, <1>2, <1>3, RewardIs DEF DayType
<1>5. ToSet(rest) = {Head(rest)} \cup ToSet(rest')
  BY <1>2, TailHas DEF DayType
<1>6. "radar-claims" \in account.runs => Waiting \subseteq ToSet(rest)
  BY <1>2, <1>3 DEF DayInv, WaitingInv
<1>7. "radar-claims" \in account'.runs => Waiting' \subseteq ToSet(rest)'
  <2>1. ToSet(rest') = ToSet(rest)'
    BY DEF ToSet
  <2> QED
    BY <1>2, <1>4, <1>5, <1>6, <2>1
<1> QED
  BY <1>4, <1>7 DEF ScoresInv, WaitingInv, SnapInv, RoundInv, DayUsedUp, Claimed

LEMMA ClaimLevelKeepsDay == ASSUME DayType, SpendInv, DayInv, ClaimLevel PROVE DayInv'
<1> SUFFICES ASSUME Fine' PROVE ScoresInv' /\ WaitingInv' /\ SnapInv' /\ RoundInv' /\ DayUsedUp'
  BY DEF DayInv
<1>1. PICK o \in Outcomes, advances \in BOOLEAN :
           /\ Try(o, advances)
           /\ step' = CASE o = "ok" /\ advances -> step [] o = "lost" -> "done" [] OTHER -> "gate"
  BY DEF ClaimLevel
<1>2. account' = account /\ step = "events" /\ rest' = rest /\ (task' \in Drawn(task) \/ task' = task)
  BY DEF ClaimLevel, roundVars
<1>3. o = "ok" /\ advances /\ Fine
  BY <1>1, <1>2, TriedWell
<1>4. step' = "events"
  BY <1>1, <1>2, <1>3
<1>5. Waiting' \subseteq Waiting
  BY <1>2, DrawnIs DEF DayType, Waiting, Type
<1>6. "radar-claims" \in account.runs => Waiting \subseteq ToSet(rest)
  BY <1>2, <1>3 DEF DayInv, WaitingInv
<1>7. "radar-claims" \in account'.runs => Waiting' \subseteq ToSet(rest)'
  BY <1>2, <1>5, <1>6 DEF ToSet
<1> QED
  BY <1>4, <1>7 DEF ScoresInv, WaitingInv, SnapInv, RoundInv, DayUsedUp, Claimed

LEMMA ClaimsOverKeepsDay == ASSUME DayType, SpendInv, DayInv, ClaimsOver PROVE DayInv'
<1> SUFFICES ASSUME Fine' PROVE ScoresInv' /\ WaitingInv' /\ SnapInv' /\ RoundInv' /\ DayUsedUp'
  BY DEF DayInv
<1>1. /\ step = "events" /\ rest = <<>> /\ step' = "gate"
      /\ rewardLevel >= account.level \/ levels = MaxLevelClaims
      /\ UNCHANGED <<task, account, rewardLevel, levels, failed>>
  BY DEF ClaimsOver, serverVars
<1>2. Fine
  BY <1>1 DEF Fine
<1>3. ToSet(rest) = {}
  BY <1>1 DEF ToSet
<1>4. "radar-claims" \in account.runs => Waiting = {}
  BY <1>1, <1>2, <1>3 DEF DayInv, WaitingInv
<1>5. "radar-claims" \in account'.runs => Waiting' = {}
  BY <1>1, <1>4 DEF Waiting, Type
<1> QED
  BY <1>1, <1>5 DEF ScoresInv, WaitingInv, SnapInv, RoundInv, DayUsedUp, Claimed

LEMMA GateKeepsDay == ASSUME DayType, SpendInv, DayInv, Gate PROVE DayInv'
<1> SUFFICES ASSUME Fine' PROVE ScoresInv' /\ WaitingInv' /\ SnapInv' /\ RoundInv' /\ DayUsedUp'
  BY DEF DayInv
<1>1. /\ step = "gate" /\ step' \in {"read", "done"}
      /\ step' = "done" => ~("radar-execute" \in account.runs /\ QuickExecuteOpen)
      /\ UNCHANGED <<task, account, rewardLevel, levels, failed>>
  BY DEF Gate, serverVars
<1>2. Fine
  BY <1>1 DEF Fine
<1>3. "radar-claims" \in account.runs => Waiting = {} /\ (rewardLevel >= account.level \/ levels = MaxLevelClaims)
  BY <1>1, <1>2 DEF DayInv, WaitingInv, Claimed
<1>4. Waiting' = Waiting /\ QuickExecuteOpen' = QuickExecuteOpen
  BY <1>1 DEF Waiting, Type, QuickExecuteOpen
<1>5. WaitingInv'
  BY <1>1, <1>3, <1>4 DEF WaitingInv, Claimed
<1>6. DayUsedUp'
  BY <1>1, <1>3, <1>4 DEF DayUsedUp, Waiting, Type
<1> QED
  BY <1>1, <1>5, <1>6 DEF ScoresInv, SnapInv, RoundInv

LEMMA ReadKeepsDay == ASSUME DayType, SpendInv, DayInv, Read PROVE DayInv'
<1> SUFFICES ASSUME Fine' PROVE ScoresInv' /\ WaitingInv' /\ SnapInv' /\ RoundInv' /\ DayUsedUp'
  BY DEF DayInv
<1>1. PICK o \in Outcomes : ReadDetect(o) /\ step' = IF o = "ok" /\ LevelOpen THEN "day" ELSE "done"
  BY DEF Read
<1>2. /\ step = "read" /\ step' \in {"day", "done"}
      /\ UNCHANGED <<account, rewardLevel, levels, task>>
  BY <1>1 DEF Read, ReadDetect, NoEffect
<1>3. o = "ok" /\ Fine
  BY <1>1, <1>2, TriedWell DEF ReadDetect, Send
<1>4. "radar-claims" \in account.runs => Waiting = {} /\ (rewardLevel >= account.level \/ levels = MaxLevelClaims)
  BY <1>2, <1>3 DEF DayInv, WaitingInv, Claimed
<1>5. Waiting' = Waiting /\ LevelOpen' = LevelOpen /\ Listed' = Listed
  BY <1>2 DEF Waiting, Type, LevelOpen, Listed
<1>6. WaitingInv'
  BY <1>2, <1>4, <1>5 DEF WaitingInv, Claimed
<1>7. DayUsedUp'
  BY <1>1, <1>2, <1>3, <1>4, <1>5 DEF DayUsedUp, Waiting, Type
<1>8. SnapInv'
  <2>1. snap' = [t \in Listed' |-> task'[t]]
    BY <1>1, <1>3, ReadIs DEF DayType
  <2> QED
    BY <1>2, <2>1 DEF SnapInv
<1> QED
  BY <1>2, <1>6, <1>7, <1>8 DEF ScoresInv, RoundInv

LEMMA DayKeepsDay == ASSUME DayType, SpendInv, DayInv, Day PROVE DayInv'
<1> SUFFICES ASSUME Fine' PROVE ScoresInv' /\ WaitingInv' /\ SnapInv' /\ RoundInv' /\ DayUsedUp'
  BY DEF DayInv
<1>1. PICK o \in Outcomes : JudgeDay(o)
  BY DEF Day
<1>2. /\ step = "day" /\ step' = "decide"
      /\ UNCHANGED <<account, rewardLevel, levels, task, snap>>
  BY <1>1 DEF Day, JudgeDay, NoEffect
<1>3. o = "ok" /\ Fine
  BY <1>1, <1>2, TriedWell DEF JudgeDay, Send
<1>4. "radar-claims" \in account.runs => Waiting = {} /\ (rewardLevel >= account.level \/ levels = MaxLevelClaims)
  BY <1>2, <1>3 DEF DayInv, WaitingInv, Claimed
<1>5. Waiting' = Waiting /\ Listed' = Listed
  BY <1>2 DEF Waiting, Type, Listed
<1>6. WaitingInv'
  BY <1>2, <1>4, <1>5 DEF WaitingInv, Claimed
<1>7. SnapInv'
  <2>1. snap = [t \in Listed |-> task[t]]
    BY <1>2, <1>3 DEF DayInv, SnapInv
  <2> QED
    BY <1>2, <1>5, <2>1 DEF SnapInv
<1>8. radarDay'
  BY <1>1, <1>3 DEF JudgeDay, Fine
<1> QED
  BY <1>2, <1>6, <1>7, <1>8 DEF ScoresInv, RoundInv, DayUsedUp

LEMMA RoundBeginsKeepsDay == ASSUME DayType, SpendInv, DayInv, RoundBegins PROVE DayInv'
<1> SUFFICES ASSUME Fine' PROVE ScoresInv' /\ WaitingInv' /\ SnapInv' /\ RoundInv' /\ DayUsedUp'
  BY DEF DayInv
<1>1. /\ step = "decide" /\ step' \in {"place", "done"} /\ started' = <<>>
      /\ UNCHANGED <<account, rewardLevel, levels, task, snap, now, radarDay, failed, round>>
  BY DEF RoundBegins, serverVars
<1>2. Fine
  BY <1>1 DEF Fine
<1>3. /\ radarDay /\ snap = [t \in Listed |-> task[t]]
      /\ "radar-claims" \in account.runs => Waiting = {} /\ (rewardLevel >= account.level \/ levels = MaxLevelClaims)
  BY <1>1, <1>2 DEF DayInv, WaitingInv, ScoresInv, SnapInv, Claimed
<1>4. Waiting' = Waiting
  BY <1>1 DEF Waiting, Type
<1>5. ScoresInv' /\ WaitingInv' /\ RoundInv'
  BY <1>1, <1>3, <1>4 DEF ScoresInv, WaitingInv, RoundInv, Claimed
<1>6. DOMAIN snap = Listed /\ Listed \subseteq Tasks /\ \A t \in Listed : snap[t] = task[t]
  BY <1>3 DEF Listed
<1>7. budget \in Nat /\ have \in Int /\ round \in Nat /\ MaxRounds \in Nat
  BY RadarAssumption DEF SpendInv, SpendType, DayType
<1>8. CASE step' = "done"
  <2>1. (round > MaxRounds \/ budget = 0 \/ Decide.run = <<>>) /\ UNCHANGED <<have, budget>>
    BY <1>3, <1>8 DEF RoundBegins, Rounds
  <2>2. ASSUME round <= MaxRounds, budget > 0 PROVE Runnable' = {}
    <3>1. Decide.run = <<>> /\ budget \in Nat \ {0}
      BY <1>7, <2>1, <2>2
    <3>2. \A t \in Listed : Untaken(t)
      BY <1>6, <1>7, <3>1, DecideLeaves
    <3>3. ASSUME NEW t \in Runnable PROVE FALSE
      <4>1. t \in Tasks /\ Plan(t, task[t]) # "skip" /\ (Plan(t, task[t]) = "help" => Affordable(t, have))
        BY <3>3 DEF Runnable
      <4>2. task[t] # "stock"
        BY <4>1 DEF Plan
      <4>3. t \in Listed
        BY <4>1, <4>2 DEF Listed
      <4>4. Untaken(t) /\ snap[t] = task[t]
        BY <1>6, <3>2, <4>3
      <4> QED
        BY <4>1, <4>4 DEF Untaken
    <3>4. Runnable' = Runnable
      BY <1>1, <2>1 DEF Runnable, Plan, Expired, Type, Affordable, Cost
    <3> QED
      BY <3>3, <3>4
  <2>3. DayUsedUp'
    BY <1>1, <1>3, <1>4, <2>1, <2>2 DEF DayUsedUp, Waiting, Type
  <2>4. SnapInv'
    BY <1>8 DEF SnapInv
  <2> QED
    BY <1>5, <2>3, <2>4
<1>9. CASE step' = "place"
  <2>1. rest' = Decide.run /\ Decide.run # <<>> /\ budget # 0
    BY <1>9 DEF RoundBegins
  <2>2. Decide.run \in Seq(Tasks) /\ \A t \in ToSet(Decide.run) : t \in DOMAIN snap /\ Plan(t, snap[t]) # "skip"
    <3>1. budget \in Nat \ {0} /\ DOMAIN snap \subseteq Tasks
      BY <1>6, <1>7, <2>1
    <3> QED
      BY <1>7, <3>1, DecideLeaves
  <2>3. ASSUME NEW t \in ToSet(Decide.run)
        PROVE  snap[t] = task[t] /\ task[t] \in {"open", "hidden"} /\ Type(t) \in Quick
    <3>1. t \in Listed /\ Plan(t, task[t]) # "skip" /\ snap[t] = task[t]
      BY <1>6, <2>2
    <3> QED
      BY <3>1 DEF Plan, Quick
  <2>4. ToSet(rest)' = ToSet(Decide.run)
    BY <2>1 DEF ToSet
  <2>5. SnapInv'
    BY <1>1, <1>9, <2>1, <2>3, <2>4 DEF SnapInv, Type
  <2>6. DayUsedUp'
    BY <1>9 DEF DayUsedUp
  <2> QED
    BY <1>5, <2>5, <2>6
<1> QED
  BY <1>1, <1>8, <1>9

LEMMA PlaceKeepsDay == ASSUME DayType, SpendInv, DayInv, Place PROVE DayInv'
<1> SUFFICES ASSUME Fine' PROVE ScoresInv' /\ WaitingInv' /\ SnapInv' /\ RoundInv' /\ DayUsedUp'
  BY DEF DayInv
<1> DEFINE place == {t \in ToSet(rest) : ToPlace(t)}
<1>1. /\ step = "place" /\ step' \in {"start", "done"}
      /\ UNCHANGED <<account, rewardLevel, levels, snap, radarDay, started, begun>>
  BY DEF Place, serverVars
<1>2. \E placed : /\ place \subseteq placed /\ placed \subseteq place
                  /\ \A t \in Tasks : task'[t] = IF t \in placed THEN "open" ELSE task[t]
                  /\ rest' = InOrder(placed) /\ step' = "start" /\ Fine
  <2>1. CASE place = {}
    <3>1. rest' = InOrder({}) /\ step' = "start" /\ task' = task /\ Fine
      BY <1>1, <2>1 DEF Place, serverVars, Fine
    <3>2. place \subseteq {} /\ {} \subseteq place
      BY <2>1
    <3> HIDE DEF place
    <3> QED
      BY <3>1, <3>2
  <2>2. CASE place # {}
    <3>1. PICK o \in Outcomes, placed \in SUBSET place :
                  /\ Try(o, placed = place)
                  /\ task' = [t \in Tasks |-> IF t \in placed THEN "open" ELSE task[t]]
                  /\ rest' = InOrder(IF o = "ok" THEN placed ELSE {})
                  /\ step' = IF o = "lost" THEN "done" ELSE "start"
      BY <2>2 DEF Place
    <3> HIDE DEF place
    <3>2. o = "ok" /\ placed = place /\ Fine
      BY <1>1, <3>1, TriedWell
    <3> QED
      BY <3>1, <3>2
  <2> QED
    BY <2>1, <2>2
<1>3. PICK placed : /\ place \subseteq placed /\ placed \subseteq place
                    /\ \A t \in Tasks : task'[t] = IF t \in placed THEN "open" ELSE task[t]
                    /\ rest' = InOrder(placed) /\ step' = "start" /\ Fine
  BY <1>2
<1>4. Fine
  BY <1>3
<1>5. /\ radarDay /\ rest # <<>>
      /\ \A t \in ToSet(rest) : snap[t] = task[t] /\ task[t] \in {"open", "hidden"} /\ Type(t) \in Quick
      /\ "radar-claims" \in account.runs => Waiting = {} /\ (rewardLevel >= account.level \/ levels = MaxLevelClaims)
  BY <1>1, <1>4 DEF DayInv, WaitingInv, ScoresInv, SnapInv, Claimed
<1>6. rest' \in Seq(Tasks) /\ ToSet(rest') = ToSet(rest)
  BY <1>3, InOrderHas DEF DayType
<1>7. rest' # <<>>
  <2>1. rest[1] \in ToSet(rest) /\ ToSet(<<>>) = {}
    BY <1>5 DEF DayType, ToSet
  <2> QED
    BY <1>6, <2>1
<1>8. Waiting' \subseteq Waiting
  BY <1>3 DEF Waiting, Type
<1>9. \A t \in ToSet(rest') : Type(t) \in Quick /\ (Type(t) # "talk" => task'[t] = "open")
  <2>1. SUFFICES ASSUME NEW t \in ToSet(rest), Type(t) # "talk" PROVE task'[t] = "open"
    BY <1>5, <1>6
  <2>2. t \in Tasks /\ snap[t] = task[t] /\ task[t] \in {"open", "hidden"}
    BY <1>5, <2>1 DEF DayType, ToSet
  <2>3. CASE task[t] = "open"
    BY <1>3, <2>2, <2>3
  <2>4. CASE task[t] = "hidden"
    <3>1. t \in place
      BY <2>1, <2>2, <2>4 DEF ToPlace
    <3> QED
      BY <1>3, <2>2, <3>1
  <2> QED
    BY <2>2, <2>3, <2>4
<1> HIDE DEF place
<1>10. started' = <<>> /\ ToSet(started') = {}
  BY <1>1, <1>4 DEF DayInv, RoundInv, ToSet
<1>11. WaitingInv' /\ ScoresInv' /\ SnapInv' /\ DayUsedUp'
  BY <1>1, <1>3, <1>5, <1>8 DEF WaitingInv, ScoresInv, SnapInv, DayUsedUp, Claimed
<1>12. RoundInv'
  <2>1. ToSet(rest)' = ToSet(rest') /\ ToSet(started)' = {} /\ Acts' = {}
    BY <1>10 DEF ToSet, Acts
  <2> QED
    BY <1>1, <1>3, <1>7, <1>9, <2>1 DEF RoundInv, Type
<1> QED
  BY <1>11, <1>12

LEMMA StartTaskKeepsDay == ASSUME DayType, SpendInv, DayInv, StartTask PROVE DayInv'
<1> SUFFICES ASSUME Fine' PROVE ScoresInv' /\ WaitingInv' /\ SnapInv' /\ RoundInv' /\ DayUsedUp'
  BY DEF DayInv
<1> DEFINE t == Head(rest)
<1>1. PICK o \in Outcomes :
           /\ Begin(t, o) /\ started' = (IF Sent(o) THEN Append(started, t) ELSE started)
           /\ step' = IF o = "lost" THEN "done" ELSE step
  BY DEF StartTask
<1>2. /\ step = "start" /\ rest # <<>> /\ rest' = Tail(rest)
      /\ UNCHANGED <<account, rewardLevel, levels, snap, radarDay, task>>
  BY <1>1 DEF StartTask, Begin
<1>3. o = "ok" /\ Fine
  BY <1>1, <1>2, TriedWell DEF Begin, Send
<1>4. /\ radarDay
      /\ \A u \in ToSet(rest) \cup ToSet(started) : Type(u) \in Quick /\ (Type(u) # "talk" => task[u] = "open")
      /\ Acts \subseteq begun
      /\ "radar-claims" \in account.runs => Waiting = {} /\ (rewardLevel >= account.level \/ levels = MaxLevelClaims)
  BY <1>2, <1>3 DEF DayInv, WaitingInv, ScoresInv, RoundInv, Claimed
<1>5. t \in Tasks /\ ToSet(rest) = {t} \cup ToSet(rest')
  BY <1>2, TailHas DEF DayType
<1>6. started' = Append(started, t) /\ step' = "start"
  BY <1>1, <1>2, <1>3 DEF Sent
<1>7. begun \subseteq begun' /\ (task[t] = "open" => t \in begun')
  BY <1>1, <1>3 DEF Begin, Reached
<1> HIDE DEF t
<1>8. ToSet(started') = ToSet(started) \cup {t} /\ started' # <<>>
  <2>1. ToSet(started') = ToSet(started) \cup {t}
    BY <1>5, <1>6, AppendHas DEF DayType
  <2>2. ToSet(<<>>) = {}
    BY DEF ToSet
  <2> QED
    BY <2>1, <2>2
<1>9. Acts' \subseteq begun' /\ ToSet(rest)' = ToSet(rest') /\ ToSet(started)' = ToSet(started')
  <2>1. ToSet(rest)' = ToSet(rest') /\ ToSet(started)' = ToSet(started')
    BY DEF ToSet
  <2>2. Acts' = {u \in ToSet(started') : Type(u) # "talk"}
    BY <2>1 DEF Acts, Type
  <2> QED
    BY <1>4, <1>5, <1>7, <1>8, <2>1, <2>2 DEF Acts
<1>10. Waiting' = Waiting
  BY <1>2 DEF Waiting, Type
<1>11. RoundInv'
  BY <1>2, <1>4, <1>5, <1>6, <1>8, <1>9 DEF RoundInv, Type
<1>12. WaitingInv' /\ ScoresInv' /\ SnapInv' /\ DayUsedUp'
  BY <1>2, <1>4, <1>6, <1>10 DEF WaitingInv, ScoresInv, SnapInv, DayUsedUp, Claimed
<1> QED
  BY <1>11, <1>12

LEMMA MarchKeepsDay == ASSUME DayType, SpendInv, DayInv, March PROVE DayInv'
<1> SUFFICES ASSUME Fine' PROVE ScoresInv' /\ WaitingInv' /\ SnapInv' /\ RoundInv' /\ DayUsedUp'
  BY DEF DayInv
<1>1. /\ step = "start" /\ step' = "end" /\ rest = <<>> /\ rest' = started /\ half' = "none"
      /\ UNCHANGED <<account, rewardLevel, levels, snap, radarDay, task, begun, failed, started>>
  BY DEF March, serverVars
<1>2. Fine
  BY <1>1 DEF Fine
<1>3. /\ radarDay /\ started # <<>>
      /\ \A u \in ToSet(started) : Type(u) \in Quick /\ (Type(u) # "talk" => task[u] = "open")
      /\ Acts \subseteq begun
      /\ "radar-claims" \in account.runs => Waiting = {} /\ (rewardLevel >= account.level \/ levels = MaxLevelClaims)
  BY <1>1, <1>2 DEF DayInv, WaitingInv, ScoresInv, RoundInv, Claimed
<1>4. Waiting' = Waiting /\ Acts' = Acts /\ ToSet(rest)' = ToSet(started)
  BY <1>1 DEF Waiting, Acts, Type, ToSet
<1>5. \A u \in Acts : Type(u) \in Quick /\ u \in begun /\ u \in ToSet(started) /\ task[u] = "open"
  BY <1>3 DEF Acts
<1>6. RoundInv'
  BY <1>1, <1>3, <1>4, <1>5 DEF RoundInv, Type
<1>7. WaitingInv' /\ ScoresInv' /\ SnapInv' /\ DayUsedUp'
  BY <1>1, <1>3, <1>4 DEF WaitingInv, ScoresInv, SnapInv, DayUsedUp, Claimed
<1> QED
  BY <1>6, <1>7

LEMMA EndSamplingKeepsDay == ASSUME DayType, SpendInv, DayInv, EndSampling PROVE DayInv'
<1> SUFFICES ASSUME Fine' PROVE ScoresInv' /\ WaitingInv' /\ SnapInv' /\ RoundInv' /\ DayUsedUp'
  BY DEF DayInv
<1>1. PICK o \in Outcomes :
           /\ Send(o) /\ half' = (IF Sent(o) THEN "sent" ELSE "refused")
           /\ step' = IF o = "lost" THEN "done" ELSE step
  BY DEF EndSampling
<1>2. /\ step = "end"
      /\ UNCHANGED <<account, rewardLevel, levels, snap, radarDay, task, begun, started, rest, done>>
  BY DEF EndSampling, NoEffect
<1>3. o = "ok" /\ Fine
  BY <1>1, <1>2, TriedWell DEF Send
<1>4. step' = "end" /\ half' = "sent"
  BY <1>1, <1>2, <1>3 DEF Sent
<1>5. Waiting' = Waiting /\ Acts' = Acts /\ ToSet(rest)' = ToSet(rest)
  BY <1>2 DEF Waiting, Acts, Type, ToSet
<1>6. ScoresInv /\ WaitingInv /\ RoundInv
  BY <1>3 DEF DayInv
<1>7. RoundInv'
  BY <1>2, <1>4, <1>5, <1>6 DEF RoundInv, Type
<1>8. WaitingInv' /\ ScoresInv' /\ SnapInv' /\ DayUsedUp'
  BY <1>2, <1>4, <1>5, <1>6 DEF WaitingInv, ScoresInv, SnapInv, DayUsedUp, Claimed
<1> QED
  BY <1>7, <1>8

LEMMA EndTaskKeepsDay == ASSUME DayType, SpendInv, DayInv, EndTask PROVE DayInv'
<1> SUFFICES ASSUME Fine' PROVE ScoresInv' /\ WaitingInv' /\ SnapInv' /\ RoundInv' /\ DayUsedUp'
  BY DEF DayInv
<1> DEFINE t == Head(rest)
<1>1. PICK o \in Outcomes :
           /\ End(t, o)
           /\ done' = (IF Sent(o) /\ half # "refused" /\ Type(t) # "talk" THEN done \cup {t} ELSE done)
           /\ step' = IF o = "lost" THEN "done" ELSE step
  BY DEF EndTask
<1>2. /\ step = "end" /\ rest # <<>> /\ rest' = Tail(rest) /\ half' = "none"
      /\ UNCHANGED <<account, rewardLevel, levels, snap, radarDay, started>>
  BY <1>1 DEF EndTask, End
<1>3. o = "ok" /\ Fine
  BY <1>1, <1>2, TriedWell DEF End, Send
<1>4. ScoresInv /\ WaitingInv /\ RoundInv
  BY <1>3 DEF DayInv
<1>5. step' = "end" /\ done' = (IF Type(t) # "talk" THEN done \cup {t} ELSE done)
  BY <1>1, <1>2, <1>3, <1>4 DEF Sent, RoundInv
<1>6. t \in Tasks /\ ToSet(rest) = {t} \cup ToSet(rest')
  BY <1>2, TailHas DEF DayType
<1>7. /\ begun' = begun
      /\ \A u \in Tasks \ {t} : task[u] \in {"open", "finished"} => task'[u] = task[u]
      /\ Waiting' \subseteq Waiting \cup IF Type(t) = "talk" THEN {} ELSE {t}
      /\ task[t] = "finished" => task'[t] = "finished"
      /\ Type(t) # "talk" /\ t \in begun /\ task[t] = "open" => task'[t] = "finished"
  BY <1>1, <1>3, <1>6, EndIs DEF DayType
<1> HIDE DEF t
<1>8. Acts' = Acts /\ ToSet(rest)' = ToSet(rest') /\ Acts \subseteq Tasks
  BY <1>2 DEF Acts, Type, ToSet, DayType
<1>9. ASSUME NEW u \in Acts
      PROVE  /\ Type(u) \in Quick /\ u \in begun'
             /\ \/ u \in ToSet(rest') /\ task'[u] = "open"
                \/ u \in done' /\ task'[u] = "finished"
  <2>1. /\ Type(u) \in Quick /\ u \in begun /\ Type(u) # "talk" /\ u \in Tasks
        /\ \/ u \in ToSet(rest) /\ task[u] = "open"
           \/ u \in done /\ task[u] = "finished"
    BY <1>2, <1>4, <1>8 DEF RoundInv, Acts
  <2>2. CASE u = t
    BY <1>5, <1>7, <2>1, <2>2
  <2>3. CASE u # t
    BY <1>5, <1>6, <1>7, <2>1, <2>3
  <2> QED
    BY <2>2, <2>3
<1>10. RoundInv'
  BY <1>2, <1>4, <1>5, <1>8, <1>9 DEF RoundInv, Type
<1>11. "radar-claims" \in account.runs => Waiting' \subseteq done'
  BY <1>2, <1>4, <1>5, <1>7 DEF WaitingInv
<1>12. WaitingInv'
  BY <1>2, <1>4, <1>5, <1>11 DEF WaitingInv, Claimed
<1>13. ScoresInv' /\ SnapInv' /\ DayUsedUp'
  BY <1>2, <1>4, <1>5 DEF ScoresInv, SnapInv, DayUsedUp
<1> QED
  BY <1>10, <1>12, <1>13

LEMMA EndedKeepsDay == ASSUME DayType, SpendInv, DayInv, Ended PROVE DayInv'
<1> SUFFICES ASSUME Fine' PROVE ScoresInv' /\ WaitingInv' /\ SnapInv' /\ RoundInv' /\ DayUsedUp'
  BY DEF DayInv
<1>1. /\ step = "end" /\ rest = <<>> /\ step' = IF radarDay THEN "reread" ELSE "done"
      /\ UNCHANGED <<account, rewardLevel, levels, snap, radarDay, task, begun, failed, started, rest, done>>
  BY DEF Ended, serverVars, roundVars
<1>2. ScoresInv /\ WaitingInv /\ RoundInv
  BY <1>1 DEF DayInv, Fine
<1>3. radarDay /\ step' = "reread"
  BY <1>1, <1>2 DEF ScoresInv
<1>4. Waiting' = Waiting /\ Acts' = Acts /\ ToSet(rest) = {}
  BY <1>1 DEF Waiting, Acts, Type, ToSet
<1>5. RoundInv'
  BY <1>1, <1>2, <1>3, <1>4 DEF RoundInv, Type
<1>6. WaitingInv' /\ ScoresInv' /\ SnapInv' /\ DayUsedUp'
  BY <1>1, <1>2, <1>3, <1>4 DEF WaitingInv, ScoresInv, SnapInv, DayUsedUp, Claimed
<1> QED
  BY <1>5, <1>6

LEMMA RereadKeepsDay == ASSUME DayType, SpendInv, DayInv, Reread PROVE DayInv'
<1> SUFFICES ASSUME Fine' PROVE ScoresInv' /\ WaitingInv' /\ SnapInv' /\ RoundInv' /\ DayUsedUp'
  BY DEF DayInv
<1> DEFINE ts == {t \in DOMAIN snap' \cap done : Claimable(t)'}
<1>1. PICK o \in Outcomes :
           /\ ReadDetect(o)
           /\ step' = (IF o = "ok" THEN "claim" ELSE "done")
           /\ rest' = IF o = "ok" THEN SetToSeq(ts) ELSE <<>>
  BY DEF Reread
<1>2. /\ step = "reread"
      /\ UNCHANGED <<account, rewardLevel, levels, radarDay, started, done>>
  BY <1>1 DEF Reread, ReadDetect, NoEffect
<1>3. o = "ok" /\ Fine
  BY <1>1, <1>2, TriedWell DEF ReadDetect, Send
<1>4. ReadDetect("ok") /\ step' = "claim" /\ rest' = SetToSeq(ts)
  BY <1>1, <1>3
<1>5. /\ task' = task /\ DOMAIN snap' \subseteq Tasks
      /\ \A t \in Tasks : task[t] = "finished" => t \in DOMAIN snap' /\ snap'[t] = "finished"
  BY <1>4, ReadIs DEF DayType
<1>6. ToSet(rest)' = ts
  <2>1. ts \in SUBSET Tasks
    BY <1>5
  <2>2. ToSet(rest') = ts
    BY <1>4, <2>1, ListedForClaim, Zenon
  <2> QED
    BY <2>2 DEF ToSet
<1>7. ScoresInv /\ WaitingInv /\ RoundInv
  BY <1>3 DEF DayInv
<1>8. \A t \in Tasks : t \in done /\ task[t] = "finished" /\ Type(t) \notin SkippedTypes => t \in ts
  BY <1>5 DEF Claimable, Type
<1> HIDE DEF ts
<1>9. Acts' = Acts /\ Acts \subseteq ts /\ started # <<>>
  <2>1. Acts' = Acts /\ Acts \subseteq Tasks
    BY <1>2 DEF Acts, Type, ToSet, DayType
  <2> QED
    BY <1>2, <1>7, <1>8, <2>1 DEF RoundInv, Quick, SkippedTypes
<1>10. "radar-claims" \in account.runs => Waiting' \subseteq ts
  <2>1. Waiting' = Waiting
    BY <1>5 DEF Waiting, Type
  <2> QED
    BY <1>2, <1>7, <1>8, <2>1 DEF WaitingInv, Waiting
<1>11. RoundInv'
  BY <1>2, <1>4, <1>6, <1>9 DEF RoundInv
<1>12. WaitingInv'
  BY <1>2, <1>4, <1>6, <1>7, <1>10 DEF WaitingInv, Claimed
<1>13. ScoresInv' /\ SnapInv' /\ DayUsedUp'
  BY <1>2, <1>4, <1>7 DEF ScoresInv, SnapInv, DayUsedUp
<1> QED
  BY <1>11, <1>12, <1>13

LEMMA ClaimDoneKeepsDay == ASSUME DayType, SpendInv, DayInv, ClaimDone PROVE DayInv'
<1> SUFFICES ASSUME Fine' PROVE ScoresInv' /\ WaitingInv' /\ SnapInv' /\ RoundInv' /\ DayUsedUp'
  BY DEF DayInv
<1> DEFINE t == Head(rest)
<1>1. PICK o \in Outcomes :
           /\ Reward(t, o) /\ claimed' = (IF o = "ok" THEN claimed + 1 ELSE claimed)
           /\ step' = IF o = "lost" THEN "done" ELSE step
  BY DEF ClaimDone
<1>2. /\ step = "claim" /\ rest # <<>> /\ rest' = Tail(rest)
      /\ UNCHANGED <<account, rewardLevel, levels, radarDay, started>>
  BY <1>1 DEF ClaimDone, Reward
<1>3. o = "ok" /\ Fine
  BY <1>1, <1>2, TriedWell DEF Reward, Send
<1>4. step' = "claim" /\ claimed' = claimed + 1 /\ Waiting' \subseteq Waiting \ {t}
  BY <1>1, <1>2, <1>3, RewardIs DEF DayType
<1>5. ToSet(rest) = {t} \cup ToSet(rest') /\ ToSet(rest') = ToSet(rest)'
  <2>1. ToSet(rest) = {t} \cup ToSet(Tail(rest))
    BY <1>2, TailHas DEF DayType
  <2> HIDE DEF t
  <2> QED
    BY <1>2, <2>1 DEF ToSet
<1> HIDE DEF t
<1>6. ScoresInv /\ WaitingInv /\ RoundInv
  BY <1>3 DEF DayInv
<1>7. claimed' > 0
  BY <1>4 DEF DayType
<1>8. RoundInv'
  BY <1>2, <1>4, <1>6, <1>7 DEF RoundInv
<1>9. "radar-claims" \in account.runs => Waiting' \subseteq ToSet(rest)'
  BY <1>2, <1>4, <1>5, <1>6 DEF WaitingInv
<1>10. WaitingInv'
  BY <1>2, <1>4, <1>6, <1>9 DEF WaitingInv, Claimed
<1>11. ScoresInv' /\ SnapInv' /\ DayUsedUp'
  BY <1>2, <1>4, <1>6 DEF ScoresInv, SnapInv, DayUsedUp
<1> QED
  BY <1>8, <1>10, <1>11

LEMMA RoundEndsKeepsDay == ASSUME DayType, SpendInv, DayInv, RoundEnds PROVE DayInv'
<1> SUFFICES ASSUME Fine' PROVE ScoresInv' /\ WaitingInv' /\ SnapInv' /\ RoundInv' /\ DayUsedUp'
  BY DEF DayInv
<1>1. /\ step = "claim" /\ rest = <<>> /\ step' = IF claimed = 0 THEN "done" ELSE "redraw"
      /\ UNCHANGED <<account, rewardLevel, levels, radarDay, task, failed, started, rest>>
  BY DEF RoundEnds, serverVars, roundVars
<1>2. ScoresInv /\ WaitingInv /\ RoundInv
  BY <1>1 DEF DayInv, Fine
<1>3. Waiting' = Waiting /\ ToSet(rest) = {}
  BY <1>1 DEF Waiting, Type, ToSet
<1>4. "radar-claims" \in account.runs => Waiting = {} /\ (rewardLevel >= account.level \/ levels = MaxLevelClaims)
  BY <1>1, <1>2, <1>3 DEF WaitingInv, Claimed
<1>5. ScoresInv' /\ WaitingInv' /\ SnapInv' /\ RoundInv'
  BY <1>1, <1>2, <1>3, <1>4 DEF ScoresInv, WaitingInv, SnapInv, RoundInv, Claimed
<1>6. ASSUME claimed = 0 PROVE OnlyTalked'
  <2>1. Acts = {} /\ started # <<>>
    BY <1>1, <1>2, <1>3, <1>6 DEF RoundInv
  <2>2. \A i \in DOMAIN started : Type(started[i]) = "talk"
    BY <2>1 DEF Acts, ToSet
  <2> QED
    BY <1>1, <2>1, <2>2 DEF OnlyTalked, Type
<1>7. DayUsedUp'
  BY <1>1, <1>3, <1>4, <1>6 DEF DayUsedUp, Waiting, Type
<1> QED
  BY <1>5, <1>7

LEMMA RedrawKeepsDay == ASSUME DayType, SpendInv, DayInv, Redraw PROVE DayInv'
<1> SUFFICES ASSUME Fine' PROVE ScoresInv' /\ WaitingInv' /\ SnapInv' /\ RoundInv' /\ DayUsedUp'
  BY DEF DayInv
<1>1. PICK o \in Outcomes : ReadDetect(o) /\ step' = IF o = "ok" THEN "decide" ELSE "done"
  BY DEF Redraw
<1>2. /\ step = "redraw"
      /\ UNCHANGED <<account, rewardLevel, levels, radarDay, task>>
  BY <1>1 DEF Redraw, ReadDetect, NoEffect
<1>3. o = "ok" /\ Fine
  BY <1>1, <1>2, TriedWell DEF ReadDetect, Send
<1>4. ScoresInv /\ WaitingInv
  BY <1>3 DEF DayInv
<1>5. step' = "decide" /\ snap' = [t \in Listed' |-> task'[t]]
  BY <1>1, <1>3, ReadIs DEF DayType
<1>6. Waiting' = Waiting
  BY <1>2 DEF Waiting, Type
<1>7. SnapInv' /\ RoundInv'
  BY <1>5 DEF SnapInv, RoundInv
<1>8. WaitingInv' /\ ScoresInv' /\ DayUsedUp'
  BY <1>2, <1>4, <1>5, <1>6 DEF WaitingInv, ScoresInv, DayUsedUp, Claimed
<1> QED
  BY <1>7, <1>8

LEMMA DayInit == DigInit => DayInv
<1> SUFFICES ASSUME NEW s \in Scenarios, RadarInit(s.account, s.tasks)
             PROVE  ScoresInv /\ WaitingInv /\ SnapInv /\ RoundInv /\ DayUsedUp
  BY DEF DigInit, DayInv
<1>1. step = IF "radar-claims" \in account.runs THEN "hold"
             ELSE IF "radar-execute" \in account.runs THEN "gate" ELSE "done"
  BY DEF RadarInit
<1>2. step \in {"hold", "gate", "done"} /\ (step # "hold" => "radar-claims" \notin account.runs)
      /\ (step = "done" => "radar-execute" \notin account.runs)
  BY <1>1
<1> QED
  BY <1>2 DEF ScoresInv, WaitingInv, SnapInv, RoundInv, DayUsedUp, Claimed

LEMMA DayNext == DayInv /\ DayType /\ SpendInv /\ [RunNext]_allVars => DayInv'
<1> SUFFICES ASSUME DayInv, DayType, SpendInv, [RunNext]_allVars PROVE DayInv'
  OBVIOUS
<1>1. CASE RadarNext
  BY <1>1, HoldKeepsDay, InfoKeepsDay, ClaimEventKeepsDay, ClaimLevelKeepsDay, ClaimsOverKeepsDay, GateKeepsDay,
     ReadKeepsDay, DayKeepsDay, RoundBeginsKeepsDay, PlaceKeepsDay, StartTaskKeepsDay, MarchKeepsDay,
     EndSamplingKeepsDay, EndTaskKeepsDay, EndedKeepsDay, RereadKeepsDay, ClaimDoneKeepsDay, RoundEndsKeepsDay,
     RedrawKeepsDay DEF RadarNext
<1>2. CASE DigNext
  <2>1. step' \in Beyond
    BY <1>2, DigsAreBeyond
  <2>2. ScoresInv' /\ WaitingInv' /\ SnapInv' /\ RoundInv' /\ DayUsedUp'
    BY <2>1 DEF Beyond, ScoresInv, WaitingInv, SnapInv, RoundInv, DayUsedUp, Claimed
  <2> QED
    BY <2>2 DEF DayInv
<1>3. CASE UNCHANGED allVars
  <2>1. UNCHANGED radarVars
    BY <1>3 DEF allVars
  <2>2. UNCHANGED <<link, task, begun, stamina, rewardLevel, failed, spent, now, account, step, radarDay, snap, levels, starts,
                    have, round, budget, rest, started, half, done, claimed>>
    BY <2>1 DEF radarVars, serverVars, roundVars
  <2>3. /\ Fine' = Fine /\ Waiting' = Waiting /\ Acts' = Acts /\ Listed' = Listed
        /\ ToSet(rest)' = ToSet(rest) /\ ToSet(started)' = ToSet(started)
    BY <2>2 DEF Fine, Waiting, Acts, Listed, Type, ToSet
  <2>4. ScoresInv' = ScoresInv /\ WaitingInv' = WaitingInv
    BY <2>2, <2>3 DEF ScoresInv, WaitingInv
  <2>5. SnapInv' = SnapInv
    BY <2>2, <2>3 DEF SnapInv, Type
  <2>6. RoundInv' = RoundInv
    BY <2>2, <2>3 DEF RoundInv, Type
  <2>7. DayUsedUp' = DayUsedUp
    <3>1. Runnable' = Runnable
      BY <2>2 DEF Runnable, Plan, Expired, Type, Affordable, Cost
    <3>2. OnlyTalked' = OnlyTalked /\ QuickExecuteOpen' = QuickExecuteOpen /\ LevelOpen' = LevelOpen
      BY <2>2 DEF OnlyTalked, QuickExecuteOpen, LevelOpen, Type
    <3> QED
      BY <2>2, <3>1, <3>2 DEF DayUsedUp, Type
  <2> QED
    BY <2>3, <2>4, <2>5, <2>6, <2>7 DEF DayInv
<1> QED
  BY <1>1, <1>2, <1>3 DEF RunNext, RadarStep, Over

\* On a day that scores radar tasks, a run without a fault leaves nothing finished
\* that may be claimed, no level reward, and nothing that it could still run, what
\* its own claims drew from the stock included: unless the rounds or the starts
\* are used up, or the last round only talked.
THEOREM DayIsUsedUp == DigSpec => []DayUsedUp
<1>1. DayInv => DayUsedUp
  BY DEF DayInv, Fine, DayUsedUp
<1> QED
  BY <1>1, SpendInit, SpendNext, DayTypeInit, DayTypeNext, DayInit, DayNext, PTL DEF DigSpec

-----------------------------------------------------------------------------
(* Boards: the next brick is a closed one, and what checkOpenAll finds out. *)

LEMMA MinIs == ASSUME NEW T \in SUBSET Nat, T # {} PROVE Min(T) \in T
<1>1. PICK m \in T : \A k \in T : m <= k
  BY Taking!LeastNatural
<1> QED
  BY <1>1 DEF Min

LEMMA BricksAreNumbers ==
    ASSUME NEW m, NEW bid, NEW at, m.cfg \in DOMAIN Levels
    PROVE  Bricks(m, bid, at) \subseteq Nat
<1> SUFFICES ASSUME bid \in DOMAIN BlockSizes, at \in 1 .. Size(m)
             PROVE  Bricks(m, bid, at) \subseteq Nat
  BY DEF Bricks
<1> DEFINE w == Levels[m.cfg].w
           h == Levels[m.cfg].h
           bw == BlockSizes[bid].w
           bh == BlockSizes[bid].h
           x == (at - 1) % w
           y == (at - 1) \div w
<1>1. w \in Nat /\ h \in Nat /\ bw \in Nat /\ bh \in Nat
  BY BoardAssumption
<1>2. at \in 1 .. w * h
  BY DEF Size
<1>3. Bricks(m, bid, at) \subseteq {j * w + i + 1 : i \in x .. x + bw - 1, j \in y .. y + bh - 1}
  BY DEF Bricks
<1> HIDE DEF w, h, bw, bh
<1>4. w # 0
  BY <1>1, <1>2
<1>5. x \in Nat /\ y \in Nat
  BY <1>1, <1>2, <1>4
<1> HIDE DEF x, y
<1>6. ASSUME NEW i \in x .. x + bw - 1, NEW j \in y .. y + bh - 1
      PROVE  j * w + i + 1 \in Nat
  <2>1. i \in Nat /\ j \in Nat
    BY <1>1, <1>5
  <2>2. j * w \in Nat
    BY <1>1, <2>1
  <2> QED
    BY <2>1, <2>2
<1> QED
  BY <1>3, <1>6

\* nextBrick never gives an open brick.
LEMMA NextBrickIsClosed ==
    ASSUME NEW m, m.cfg \in DOMAIN Levels, NextBrick(m) # 0
    PROVE  NextBrick(m) \notin m.opened
<1> DEFINE sought == (UNION InSight(m)) \ m.opened
<1>1. sought \subseteq Nat
  BY BricksAreNumbers DEF InSight
<1>2. Closed(m) \subseteq Nat
  BY DEF Closed
<1>3. NextBrick(m) \in sought \/ NextBrick(m) \in Closed(m)
  <2> HIDE DEF sought
  <2>1. NextBrick(m) = IF sought # {} THEN Min(sought) ELSE IF Closed(m) # {} THEN Min(Closed(m)) ELSE 0
    BY DEF NextBrick, sought
  <2> QED
    BY <1>1, <1>2, <2>1, MinIs
<1> QED
  BY <1>3 DEF Closed

-----------------------------------------------------------------------------
(* BoardCopyTrue.  A copy of a board is true until a brick is sent for that  *)
(* gets no reply, or one that only says to read the board again: such a      *)
(* board is not dug any more, unless it is read again first.  The copies     *)
(* that the run may still dig by are the trusted ones; they also know of     *)
(* every gem that the server lists by now.                                   *)

OnTheWay == {"ruin", "ruin_place", "board"}

\* Before the first board is dug.
Undug ==
    {"hold", "info", "events", "gate", "read", "day", "decide", "place", "start", "end", "reread",
     "claim", "redraw", "done", "ruins"}

\* The ruins that the run has yet to dig, the one that it digs included.
RuinsLeft ==
    IF step \in OnTheWay \/ (step = "dig" /\ Kind(r.cur) = "ruin") THEN ToSet(r.list)
    ELSE IF step \in {"held", "ruin_chest"} \/ (step = "dug" /\ Kind(r.cur) = "ruin")
         THEN ToSet(Tail(r.list))
    ELSE {}

CityAhead ==
    \/ step \in OnTheWay \cup {"held", "ruin_chest", "city", "city_board"}
    \/ step \in {"dig", "dug"} /\ Kind(r.cur) = "ruin"
    \/ step \in {"dig", "dug"} /\ Kind(r.cur) = "city" /\ (step = "dug" => ~r.broken)

InVault ==
    \/ step \in {"round", "chest", "boards", "turned"}
    \/ /\ step \in {"dig", "dug"} /\ Kind(r.cur) \in VaultKinds
       /\ step = "dug" => ~r.broken /\ r.last # "recheck"

Trusted ==
    {b \in Boards : \/ step \in Undug
                    \/ b \in RuinsLeft
                    \/ Kind(b) = "city" /\ CityAhead
                    \/ Kind(b) \in VaultKinds /\ InVault}

\* The gems that the server lists of a board on which these bricks are open.
ListedWith(b, opened) ==
    Fact(b).listed \cup {gem \in DOMAIN Fact(b).gems : Fact(b).seen /\ GemBricks(b, gem) \cap opened # {}}

SyncInv ==
    \A b \in Trusted :
        /\ server[b].opened \subseteq maps[b].opened
        /\ ListedWith(b, server[b].opened) \subseteq DOMAIN maps[b].blocks

Ruins == {b \in Boards : Kind(b) = "ruin"}
InCity == {b \in Boards : Kind(b) = "city"}
VaultOwn == {b \in Boards : Kind(b) \in VaultKinds}

ListInv == r.list \in Seq(Ruins) /\ IsInjective(r.list)

CurInv ==
    /\ step \in {"ruin_place", "board", "held", "ruin_chest"} => r.list # <<>>
    /\ step = "city_board" => r.cur \in InCity
    /\ step \in {"held", "ruin_chest"} => r.cur \in Boards
    /\ step \in {"dig", "dug"} =>
          /\ r.cur \in Boards /\ Known(r.cur)
          /\ Kind(r.cur) = "ruin" => r.list # <<>> /\ r.cur = Head(r.list)
          /\ r.last = "next" => Fact(r.cur).next # NoBoard
          /\ r.last = "recheck" => Kind(r.cur) = "stage"

RunInv ==
    /\ \E s \in Scenarios : plan = s.plan
    /\ DOMAIN r = {"list", "cur", "last", "broken", "stage", "timed", "mine", "turn", "progressed", "left"}
    /\ ListInv
    /\ {r.stage, r.timed} \subseteq VaultOwn \cup {NoBoard}
    /\ CurInv

\* The copy knows gems of the board; the place of one is not known or true.
BlocksTrue(blocks, gems) ==
    /\ DOMAIN blocks \subseteq DOMAIN gems
    /\ \A gem \in DOMAIN blocks :
          /\ DOMAIN blocks[gem] = {"pos", "at"}
          /\ blocks[gem].pos \in {0, gems[gem]}

CopyOf(m, b, opened) ==
    /\ DOMAIN m = {"state", "cfg", "opened", "check", "blocks"}
    /\ m.cfg = Fact(b).cfg
    /\ m.check \subseteq opened
    /\ BlocksTrue(m.blocks, Fact(b).gems)

CopiesInv ==
    /\ DOMAIN server = Boards /\ DOMAIN maps = Boards
    /\ \A b \in Boards : DOMAIN server[b] = {"state", "opened"}
    /\ \A b \in Boards : CopyOf(maps[b], b, server[b].opened)

DigInv == RunInv /\ CopiesInv /\ SyncInv /\ BoardCopyTrue

LEMMA PlanIs ==
    ASSUME RunInv
    PROVE  /\ plan.ruins \in Seq(Ruins) /\ IsInjective(plan.ruins)
           /\ plan.city \in InCity \cup {NoBoard}
           /\ {plan.stage, plan.timed} \subseteq VaultOwn \cup {NoBoard}
BY DigAssumption DEF RunInv, Ruins, InCity, VaultOwn, VaultKinds, Kind, Fact

LEMMA TailKeepsList ==
    ASSUME NEW list \in Seq(Ruins), IsInjective(list), list # <<>>
    PROVE  /\ Tail(list) \in Seq(Ruins) /\ IsInjective(Tail(list))
           /\ Head(list) \in Ruins /\ Head(list) \in ToSet(list)
           /\ ToSet(Tail(list)) \subseteq ToSet(list)
           /\ Head(list) \notin ToSet(Tail(list))
<1>1. /\ Tail(list) \in Seq(Ruins) /\ Head(list) \in Ruins /\ Head(list) = list[1]
      /\ Len(list) \in Nat \ {0} /\ Len(Tail(list)) = Len(list) - 1
      /\ DOMAIN list = 1 .. Len(list) /\ DOMAIN Tail(list) = 1 .. Len(list) - 1
      /\ \A i \in 1 .. Len(list) - 1 : Tail(list)[i] = list[i + 1]
  OBVIOUS
<1>2. IsInjective(Tail(list))
  BY <1>1 DEF IsInjective
<1>3. \A i \in 1 .. Len(list) - 1 : i + 1 \in 1 .. Len(list) /\ list[i + 1] # list[1]
  BY <1>1 DEF IsInjective
<1> QED
  BY <1>1, <1>2, <1>3 DEF ToSet

\* What a board is sent as is a true copy of it.
LEMMA ParseIs ==
    ASSUME NEW b \in Boards
    PROVE  /\ CopyOf(ParseMap(b), b, server[b].opened) /\ ParseMap(b).opened = server[b].opened
           /\ DOMAIN ParseMap(b).blocks = ListedWith(b, server[b].opened)
<1>1. GemsListed(b) = ListedWith(b, server[b].opened)
  BY DEF GemsListed, ListedWith
<1>2. GemsListed(b) \subseteq DOMAIN Fact(b).gems
  BY <1>1, DigAssumption DEF ListedWith, Fact
<1>3. DOMAIN ParseMap(b).blocks = GemsListed(b)
  BY DEF ParseMap
<1>4. BlocksTrue(ParseMap(b).blocks, Fact(b).gems)
  BY <1>2 DEF ParseMap, BlocksTrue
<1> QED
  BY <1>1, <1>3, <1>4 DEF ParseMap, CopyOf

\* A step that opens no brick.
SameCopy(m, n) ==
    DOMAIN n = DOMAIN m /\ n.cfg = m.cfg /\ n.opened = m.opened /\ n.check = m.check /\ n.blocks = m.blocks

Even ==
    /\ UNCHANGED <<wasted, falseAll>>
    /\ DOMAIN server' = Boards /\ DOMAIN maps' = Boards
    /\ \A b \in Boards :
          /\ DOMAIN server'[b] = {"state", "opened"} /\ server'[b].opened = server[b].opened
          /\ maps'[b] = ParseMap(b) \/ SameCopy(maps[b], maps'[b])

StillTrusted == \A b \in Trusted' : b \in Trusted \/ maps'[b] = ParseMap(b)

LEMMA EvenKeeps ==
    ASSUME DigInv, RunInv', Even, StillTrusted
    PROVE  DigInv'
<1>1. CopiesInv'
  <2>1. ASSUME NEW b \in Boards
        PROVE  CopyOf(maps'[b], b, server'[b].opened)
    <3>1. CASE maps'[b] = ParseMap(b)
      BY <3>1, ParseIs DEF Even
    <3>2. CASE SameCopy(maps[b], maps'[b])
      BY <3>2 DEF Even, DigInv, CopiesInv, CopyOf, SameCopy
    <3> QED
      BY <3>1, <3>2 DEF Even
  <2>2. \A b \in Boards : CopyOf(maps'[b], b, server'[b].opened) = CopyOf(maps[b], b, server[b].opened)'
    BY DEF CopyOf, BlocksTrue, Fact
  <2> QED
    BY <2>1, <2>2 DEF Even, CopiesInv
<1>2. SyncInv'
  <2> SUFFICES ASSUME NEW b \in Trusted'
               PROVE  /\ server'[b].opened \subseteq maps'[b].opened
                      /\ ListedWith(b, server'[b].opened) \subseteq DOMAIN maps'[b].blocks
    BY DEF SyncInv, ListedWith, GemBricks, Fact
  <2>1. b \in Boards
    BY DEF Trusted
  <2>2. CASE maps'[b] = ParseMap(b)
    BY <2>1, <2>2, ParseIs DEF Even
  <2>3. CASE maps'[b] # ParseMap(b)
    <3>1. b \in Trusted /\ SameCopy(maps[b], maps'[b])
      BY <2>1, <2>3 DEF Even, StillTrusted
    <3> QED
      BY <2>1, <3>1 DEF Even, SameCopy, DigInv, SyncInv
  <2> QED
    BY <2>2, <2>3
<1>3. BoardCopyTrue'
  BY DEF Even, DigInv, BoardCopyTrue
<1> QED
  BY <1>1, <1>2, <1>3 DEF DigInv

Quiet == UNCHANGED <<server, maps, wasted, falseAll>>

LEMMA QuietKeeps ==
    ASSUME DigInv, RunInv', Quiet, Trusted' \subseteq Trusted
    PROVE  DigInv'
<1>1. Even
  BY DEF Quiet, Even, DigInv, CopiesInv, SameCopy
<1> QED
  BY <1>1, EvenKeeps DEF StillTrusted

\* The list goes on to its next ruin.
LEMMA NextRuinIs ==
    ASSUME RunInv, r.list # <<>>, r' = NextRuin
    PROVE  /\ ListInv' /\ DOMAIN r' = DOMAIN r
           /\ r'.list = Tail(r.list) /\ ToSet(r'.list) \subseteq ToSet(r.list)
           /\ r'.stage = r.stage /\ r'.timed = r.timed
           /\ r'.cur = r.cur /\ r'.last = r.last /\ r'.broken = r.broken
<1>1. /\ DOMAIN r' = DOMAIN r /\ r'.list = Tail(r.list)
      /\ r'.stage = r.stage /\ r'.timed = r.timed
      /\ r'.cur = r.cur /\ r'.last = r.last /\ r'.broken = r.broken
  BY DEF RunInv, NextRuin
<1>2. Tail(r.list) \in Seq(Ruins) /\ IsInjective(Tail(r.list)) /\ ToSet(Tail(r.list)) \subseteq ToSet(r.list)
  BY TailKeepsList DEF RunInv, ListInv
<1> QED
  BY <1>1, <1>2 DEF ListInv, Ruins, Kind, Fact

\* A board is taken up.
LEMMA StartDigIs ==
    ASSUME RunInv, NEW b, r' = StartDig(b)
    PROVE  /\ ListInv' /\ DOMAIN r' = DOMAIN r /\ r'.list = r.list
           /\ r'.stage = r.stage /\ r'.timed = r.timed
           /\ r'.cur = b /\ r'.last = "none" /\ r'.broken = FALSE
<1>1. /\ DOMAIN r' = DOMAIN r /\ r'.list = r.list
      /\ r'.stage = r.stage /\ r'.timed = r.timed
      /\ r'.cur = b /\ r'.last = "none" /\ r'.broken = FALSE
  BY DEF RunInv, StartDig
<1> QED
  BY <1>1 DEF RunInv, ListInv, Ruins, Kind, Fact

LEMMA NoRuins == <<>> \in Seq(Ruins) /\ IsInjective(<<>>)
BY DEF IsInjective

\* The steps that leave the boards and their copies alone.
LEMMA QuietSteps ==
    ASSUME DigInv,
           \/ DigsBegin \/ RuinsInfo \/ Ruin \/ PlaceRuin \/ RuinDug \/ RuinHeld \/ City
           \/ CityChest \/ CityOver \/ Round \/ VaultChest \/ DigTimed \/ TimedFailed \/ LeaveVault
           \/ Stage \/ TimedDug \/ Turned \/ TrackInfo \/ TrackChest \/ TrackOver \/ DigEnds
    PROVE  DigInv'
<1> USE DEF boardVars, history
<1>0. RunInv
  BY DEF DigInv
<1>1. CASE DigsBegin
  <2>1. Quiet
    BY <1>1 DEF Quiet, DigsBegin, Silent
  <2>2. RunInv'
    BY <1>0, <1>1, PlanIs, TailKeepsList DEF RunInv, ListInv, CurInv, DigsBegin, Silent
  <2>3. Trusted' \subseteq Trusted
    BY <1>0, <1>1, TailKeepsList DEF RunInv, ListInv, CurInv, Trusted, RuinsLeft, CityAhead, InVault, OnTheWay, Undug, DigsBegin, Silent
  <2> QED
    BY <2>1, <2>2, <2>3, QuietKeeps
<1>2. CASE RuinsInfo
  <2>1. Quiet
    BY <1>2 DEF Quiet, RuinsInfo, Reads, Then
  <2>2. RunInv'
    <3>1. r'.list = plan.ruins \/ r'.list = <<>>
      BY <1>0, <1>2 DEF RunInv, RuinsInfo
    <3>2. ListInv'
      BY <1>0, <3>1, PlanIs, NoRuins DEF ListInv, Ruins, Kind, Fact
    <3> QED
      BY <1>0, <1>2, <3>2 DEF RunInv, CurInv, VaultOwn, Kind, Fact, RuinsInfo, Reads, Then
  <2>3. Trusted' \subseteq Trusted
    BY <1>0, <1>2, TailKeepsList DEF RunInv, ListInv, CurInv, Trusted, RuinsLeft, CityAhead, InVault, OnTheWay, Undug, RuinsInfo, Reads, Then
  <2> QED
    BY <2>1, <2>2, <2>3, QuietKeeps
<1>3. CASE Ruin
  <2>1. Quiet
    BY <1>3 DEF Quiet, Ruin, Silent, NextRuin
  <2>4. r' = r \/ (r.list # <<>> /\ r' = NextRuin)
    BY <1>0, <1>3 DEF RunInv, CurInv, Ruin
  <2>2. RunInv'
    <3>1. CASE r' = r
      BY <1>0, <1>3, <3>1 DEF RunInv, ListInv, CurInv, VaultOwn, Ruins, Kind, Fact, Ruin, Silent
    <3>2. CASE r' # r
      <4>1. r.list # <<>> /\ r' = NextRuin
        BY <2>4, <3>2
      <4> QED
        BY <1>0, <1>3, <4>1, NextRuinIs DEF RunInv, CurInv, VaultOwn, Kind, Fact, Ruin, Silent
    <3> QED
      BY <3>1, <3>2
  <2>3. Trusted' \subseteq Trusted
    <3>1. CASE r' = r
      BY <1>0, <1>3, <3>1 DEF RunInv, CurInv, Trusted, RuinsLeft, CityAhead, InVault, OnTheWay, Undug, Ruin, Silent
    <3>2. CASE r' # r
      <4>1. r.list # <<>> /\ r' = NextRuin
        BY <2>4, <3>2
      <4> QED
        BY <1>0, <1>3, <4>1, NextRuinIs DEF RunInv, CurInv, Trusted, RuinsLeft, CityAhead, InVault, OnTheWay, Undug, Ruin, Silent
    <3> QED
      BY <3>1, <3>2
  <2> QED
    BY <2>1, <2>2, <2>3, QuietKeeps
<1>4. CASE PlaceRuin
  <2>1. Quiet
    BY <1>4 DEF Quiet, PlaceRuin, Reads, Then, NextRuin
  <2>2. RunInv'
    BY <1>0, <1>4, PlanIs, TailKeepsList DEF RunInv, ListInv, CurInv, PlaceRuin, Reads, Then, NextRuin
  <2>3. Trusted' \subseteq Trusted
    BY <1>0, <1>4, TailKeepsList DEF RunInv, ListInv, CurInv, Trusted, RuinsLeft, CityAhead, InVault, OnTheWay, Undug, PlaceRuin, Reads, Then, NextRuin
  <2> QED
    BY <2>1, <2>2, <2>3, QuietKeeps
<1>5. CASE RuinDug
  <2>1. Quiet
    BY <1>5 DEF Quiet, RuinDug, Silent
  <2>4. \/ r' = r /\ step' = "held"
        \/ r.list # <<>> /\ r' = NextRuin /\ step' \in {"ruin", "over"}
    BY <1>0, <1>5 DEF RunInv, CurInv, RuinDug
  <2>5. CASE r' = r /\ step' = "held"
    <3>1. RunInv'
      BY <1>0, <1>5, <2>5 DEF RunInv, ListInv, CurInv, VaultOwn, Ruins, Kind, Fact, RuinDug, Silent
    <3>2. Trusted' \subseteq Trusted
      BY <1>0, <1>5, <2>5 DEF RunInv, CurInv, Trusted, RuinsLeft, CityAhead, InVault, OnTheWay, Undug, RuinDug, Silent
    <3> QED
      BY <2>1, <3>1, <3>2, QuietKeeps
  <2>6. CASE r.list # <<>> /\ r' = NextRuin /\ step' \in {"ruin", "over"}
    <3>1. RunInv'
      BY <1>0, <1>5, <2>6, NextRuinIs DEF RunInv, CurInv, VaultOwn, Kind, Fact, RuinDug, Silent
    <3>2. Trusted' \subseteq Trusted
      BY <1>0, <1>5, <2>6, NextRuinIs DEF RunInv, CurInv, Trusted, RuinsLeft, CityAhead, InVault, OnTheWay, Undug, RuinDug, Silent
    <3> QED
      BY <2>1, <3>1, <3>2, QuietKeeps
  <2> QED
    BY <2>4, <2>5, <2>6
<1>6. CASE RuinHeld
  <2>1. Quiet
    BY <1>6 DEF Quiet, RuinHeld, Reads
  <2>4. \/ r' = r /\ step' = "ruin_chest"
        \/ r.list # <<>> /\ r' = NextRuin /\ step' \in {"ruin", "over"}
    BY <1>0, <1>6 DEF RunInv, CurInv, RuinHeld
  <2>5. CASE r' = r /\ step' = "ruin_chest"
    <3>1. RunInv'
      BY <1>0, <1>6, <2>5 DEF RunInv, ListInv, CurInv, VaultOwn, Ruins, Kind, Fact, RuinHeld, Reads
    <3>2. Trusted' \subseteq Trusted
      BY <1>0, <1>6, <2>5 DEF RunInv, CurInv, Trusted, RuinsLeft, CityAhead, InVault, OnTheWay, Undug, RuinHeld, Reads
    <3> QED
      BY <2>1, <3>1, <3>2, QuietKeeps
  <2>6. CASE r.list # <<>> /\ r' = NextRuin /\ step' \in {"ruin", "over"}
    <3>1. RunInv'
      BY <1>0, <1>6, <2>6, NextRuinIs DEF RunInv, CurInv, VaultOwn, Kind, Fact, RuinHeld, Reads
    <3>2. Trusted' \subseteq Trusted
      BY <1>0, <1>6, <2>6, NextRuinIs DEF RunInv, CurInv, Trusted, RuinsLeft, CityAhead, InVault, OnTheWay, Undug, RuinHeld, Reads
    <3> QED
      BY <2>1, <3>1, <3>2, QuietKeeps
  <2> QED
    BY <2>4, <2>5, <2>6
<1>7. CASE City
  <2>1. Quiet
    BY <1>7 DEF Quiet, City, Silent
  <2>2. RunInv'
    BY <1>0, <1>7, PlanIs, TailKeepsList DEF RunInv, ListInv, CurInv, City, Silent
  <2>3. Trusted' \subseteq Trusted
    BY <1>0, <1>7, TailKeepsList DEF RunInv, ListInv, CurInv, Trusted, RuinsLeft, CityAhead, InVault, OnTheWay, Undug, City, Silent
  <2> QED
    BY <2>1, <2>2, <2>3, QuietKeeps
<1>8. CASE CityChest
  <2>1. Quiet
    BY <1>8 DEF Quiet, CityChest, ClaimChest, Then
  <2>2. RunInv'
    BY <1>0, <1>8, PlanIs, TailKeepsList DEF RunInv, ListInv, CurInv, CityChest, ClaimChest, Then
  <2>3. Trusted' \subseteq Trusted
    BY <1>0, <1>8, TailKeepsList DEF RunInv, ListInv, CurInv, Trusted, RuinsLeft, CityAhead, InVault, OnTheWay, Undug, CityChest, ClaimChest, Then
  <2> QED
    BY <2>1, <2>2, <2>3, QuietKeeps
<1>9. CASE CityOver
  <2>1. Quiet
    BY <1>9 DEF Quiet, CityOver, Silent
  <2>2. RunInv'
    BY <1>0, <1>9, PlanIs, TailKeepsList DEF RunInv, ListInv, CurInv, CityOver, Silent
  <2>3. Trusted' \subseteq Trusted
    BY <1>0, <1>9, TailKeepsList DEF RunInv, ListInv, CurInv, Trusted, RuinsLeft, CityAhead, InVault, OnTheWay, Undug, CityOver, Silent
  <2> QED
    BY <2>1, <2>2, <2>3, QuietKeeps
<1>10. CASE Round
  <2>1. Quiet
    BY <1>10 DEF Quiet, Round, Silent
  <2>2. RunInv'
    BY <1>0, <1>10, PlanIs, TailKeepsList DEF RunInv, ListInv, CurInv, Round, Silent
  <2>3. Trusted' \subseteq Trusted
    BY <1>0, <1>10, TailKeepsList DEF RunInv, ListInv, CurInv, Trusted, RuinsLeft, CityAhead, InVault, OnTheWay, Undug, Round, Silent
  <2> QED
    BY <2>1, <2>2, <2>3, QuietKeeps
<1>11. CASE VaultChest
  <2>1. Quiet
    BY <1>11 DEF Quiet, VaultChest, ClaimChest, Then
  <2>2. RunInv'
    BY <1>0, <1>11, PlanIs, TailKeepsList DEF RunInv, ListInv, CurInv, VaultChest, ClaimChest, Then
  <2>3. Trusted' \subseteq Trusted
    BY <1>0, <1>11, TailKeepsList DEF RunInv, ListInv, CurInv, Trusted, RuinsLeft, CityAhead, InVault, OnTheWay, Undug, VaultChest, ClaimChest, Then
  <2> QED
    BY <2>1, <2>2, <2>3, QuietKeeps
<1>12. CASE DigTimed
  <2>1. Quiet
    BY <1>12 DEF Quiet, DigTimed, TimedIs, TimedActive, Silent
  <2>2. r' = StartDig(r.timed) /\ step' = "dig" /\ step = "boards" /\ r.timed \in VaultOwn /\ Known(r.timed)
    BY <1>0, <1>12 DEF RunInv, DigTimed, TimedIs, TimedActive, Silent
  <2>3. plan' = plan
    BY <1>12 DEF DigTimed, TimedIs, TimedActive, Silent
  <2>4. RunInv'
    BY <1>0, <2>2, <2>3, StartDigIs DEF RunInv, CurInv, VaultOwn, VaultKinds, Kind, Fact, Known
  <2>5. Trusted' \subseteq Trusted
    BY <1>0, <2>2, StartDigIs DEF RunInv, CurInv, Trusted, RuinsLeft, CityAhead, InVault, OnTheWay, Undug, VaultOwn, VaultKinds, Kind, Fact
  <2> QED
    BY <2>1, <2>4, <2>5, QuietKeeps
<1>13. CASE TimedFailed
  <2>1. Quiet
    BY <1>13 DEF Quiet, TimedFailed, TimedIs, TimedActive, Reads, Then
  <2>2. RunInv'
    BY <1>0, <1>13, PlanIs, TailKeepsList DEF RunInv, ListInv, CurInv, TimedFailed, TimedIs, TimedActive, Reads, Then
  <2>3. Trusted' \subseteq Trusted
    BY <1>0, <1>13, TailKeepsList DEF RunInv, ListInv, CurInv, Trusted, RuinsLeft, CityAhead, InVault, OnTheWay, Undug, TimedFailed, TimedIs, TimedActive, Reads, Then
  <2> QED
    BY <2>1, <2>2, <2>3, QuietKeeps
<1>14. CASE LeaveVault
  <2>1. Quiet
    BY <1>14 DEF Quiet, LeaveVault, Silent
  <2>2. RunInv'
    BY <1>0, <1>14, PlanIs, TailKeepsList DEF RunInv, ListInv, CurInv, LeaveVault, Silent
  <2>3. Trusted' \subseteq Trusted
    BY <1>0, <1>14, TailKeepsList DEF RunInv, ListInv, CurInv, Trusted, RuinsLeft, CityAhead, InVault, OnTheWay, Undug, LeaveVault, Silent
  <2> QED
    BY <2>1, <2>2, <2>3, QuietKeeps
<1>15. CASE Stage
  <2>1. Quiet
    BY <1>15 DEF Quiet, Stage, Silent
  <2>2. plan' = plan
    BY <1>15 DEF Stage, Silent
  <2>3. \/ r' = r /\ step' \in {"turned", "track"} /\ step = "boards"
        \/ r' = StartDig(r.stage) /\ step' = "dig" /\ step = "boards" /\ r.stage \in VaultOwn /\ Known(r.stage)
    BY <1>0, <1>15 DEF RunInv, Stage, Silent
  <2>4. CASE r' = r /\ step' \in {"turned", "track"} /\ step = "boards"
    <3>1. RunInv'
      BY <1>0, <2>2, <2>4 DEF RunInv, ListInv, CurInv, VaultOwn, Ruins, Kind, Fact
    <3>2. Trusted' \subseteq Trusted
      BY <1>0, <2>4 DEF RunInv, CurInv, Trusted, RuinsLeft, CityAhead, InVault, OnTheWay, Undug, VaultOwn, VaultKinds, Kind, Fact
    <3> QED
      BY <2>1, <3>1, <3>2, QuietKeeps
  <2>5. CASE r' = StartDig(r.stage) /\ step' = "dig" /\ step = "boards" /\ r.stage \in VaultOwn /\ Known(r.stage)
    <3>1. RunInv'
      BY <1>0, <2>2, <2>5, StartDigIs DEF RunInv, CurInv, VaultOwn, VaultKinds, Kind, Fact, Known
    <3>2. Trusted' \subseteq Trusted
      BY <1>0, <2>5, StartDigIs DEF RunInv, CurInv, Trusted, RuinsLeft, CityAhead, InVault, OnTheWay, Undug, VaultOwn, VaultKinds, Kind, Fact
    <3> QED
      BY <2>1, <3>1, <3>2, QuietKeeps
  <2> QED
    BY <2>3, <2>4, <2>5
<1>16. CASE TimedDug
  <2>1. Quiet
    BY <1>16 DEF Quiet, TimedDug, Silent
  <2>2. RunInv'
    BY <1>0, <1>16, PlanIs, TailKeepsList DEF VaultKinds, VaultOwn, RunInv, ListInv, CurInv, TimedDug, Silent
  <2>3. Trusted' \subseteq Trusted
    BY <1>0, <1>16, TailKeepsList DEF VaultKinds, VaultOwn, RunInv, ListInv, CurInv, Trusted, RuinsLeft, CityAhead, InVault, OnTheWay, Undug, TimedDug, Silent
  <2> QED
    BY <2>1, <2>2, <2>3, QuietKeeps
<1>17. CASE Turned
  <2>1. Quiet
    BY <1>17 DEF Quiet, Turned, Silent
  <2>2. RunInv'
    BY <1>0, <1>17, PlanIs, TailKeepsList DEF RunInv, ListInv, CurInv, Turned, Silent
  <2>3. Trusted' \subseteq Trusted
    BY <1>0, <1>17, TailKeepsList DEF RunInv, ListInv, CurInv, Trusted, RuinsLeft, CityAhead, InVault, OnTheWay, Undug, Turned, Silent
  <2> QED
    BY <2>1, <2>2, <2>3, QuietKeeps
<1>18. CASE TrackInfo
  <2>1. Quiet
    BY <1>18 DEF Quiet, TrackInfo, Silent, Reads, Then
  <2>2. RunInv'
    BY <1>0, <1>18, PlanIs, TailKeepsList DEF RunInv, ListInv, CurInv, TrackInfo, Silent, Reads, Then
  <2>3. Trusted' \subseteq Trusted
    BY <1>0, <1>18, TailKeepsList DEF RunInv, ListInv, CurInv, Trusted, RuinsLeft, CityAhead, InVault, OnTheWay, Undug, TrackInfo, Silent, Reads, Then
  <2> QED
    BY <2>1, <2>2, <2>3, QuietKeeps
<1>19. CASE TrackChest
  <2>1. Quiet
    BY <1>19 DEF Quiet, TrackChest, Then
  <2>2. RunInv'
    BY <1>0, <1>19, PlanIs, TailKeepsList DEF RunInv, ListInv, CurInv, TrackChest, Then
  <2>3. Trusted' \subseteq Trusted
    BY <1>0, <1>19, TailKeepsList DEF RunInv, ListInv, CurInv, Trusted, RuinsLeft, CityAhead, InVault, OnTheWay, Undug, TrackChest, Then
  <2> QED
    BY <2>1, <2>2, <2>3, QuietKeeps
<1>20. CASE TrackOver
  <2>1. Quiet
    BY <1>20 DEF Quiet, TrackOver, Silent
  <2>2. RunInv'
    BY <1>0, <1>20, PlanIs, TailKeepsList DEF RunInv, ListInv, CurInv, TrackOver, Silent
  <2>3. Trusted' \subseteq Trusted
    BY <1>0, <1>20, TailKeepsList DEF RunInv, ListInv, CurInv, Trusted, RuinsLeft, CityAhead, InVault, OnTheWay, Undug, TrackOver, Silent
  <2> QED
    BY <2>1, <2>2, <2>3, QuietKeeps
<1>21. CASE DigEnds
  <2>1. Quiet
    BY <1>21 DEF Quiet, DigEnds, Silent
  <2>2. RunInv'
    BY <1>0, <1>21, PlanIs, TailKeepsList DEF RunInv, ListInv, CurInv, DigEnds, Silent
  <2>3. Trusted' \subseteq Trusted
    BY <1>0, <1>21, TailKeepsList DEF RunInv, ListInv, CurInv, Trusted, RuinsLeft, CityAhead, InVault, OnTheWay, Undug, DigEnds, Silent
  <2> QED
    BY <2>1, <2>2, <2>3, QuietKeeps
<1> QED
  BY <1>1, <1>2, <1>3, <1>4, <1>5, <1>6, <1>7, <1>8, <1>9, <1>10, <1>11, <1>12, <1>13, <1>14, <1>15, <1>16, <1>17, <1>18, <1>19, <1>20, <1>21

\* The server takes note of the start of a board or of a chest, and the copy of
\* what it said.
LEMMA StateKeepsEven ==
    ASSUME DigInv, UNCHANGED <<wasted, falseAll>>, NEW b \in Boards,
           server' = server \/ \E v : server' = [server EXCEPT ![b].state = v],
           maps' = maps \/ \E v : maps' = [maps EXCEPT ![b].state = v]
    PROVE  Even
<1>1. /\ DOMAIN server = Boards /\ DOMAIN maps = Boards
      /\ \A c \in Boards : DOMAIN server[c] = {"state", "opened"}
      /\ \A c \in Boards : DOMAIN maps[c] = {"state", "cfg", "opened", "check", "blocks"}
  BY DEF DigInv, CopiesInv, CopyOf
<1>2. DOMAIN server' = Boards /\ \A c \in Boards : DOMAIN server'[c] = {"state", "opened"} /\ server'[c].opened = server[c].opened
  BY <1>1
<1>3. DOMAIN maps' = Boards /\ \A c \in Boards : SameCopy(maps[c], maps'[c])
  BY <1>1 DEF SameCopy
<1> QED
  BY <1>2, <1>3 DEF Even

LEMMA EvenAndNoMore ==
    ASSUME DigInv, RunInv', Even, Trusted' \subseteq Trusted
    PROVE  DigInv'
BY EvenKeeps DEF StillTrusted

LEMMA FreeHammersKeep ==
    ASSUME DigInv, NEW b \in Boards, FreeHammers(b), Known(b), Kind(b) \in {"ruin", "city"},
           step \in {"board", "city_board"},
           step = "board" => r.list # <<>> /\ b = Head(r.list),
           step = "city_board" => Kind(b) = "city", step = "board" => Kind(b) = "ruin"
    PROVE  DigInv'
<1>0. RunInv
  BY DEF DigInv
<1>1. /\ r' = StartDig(b) /\ step' \in {"dig", "over"} /\ plan' = plan
      /\ UNCHANGED <<wasted, falseAll>>
      /\ server' = server \/ \E v : server' = [server EXCEPT ![b].state = v]
      /\ maps' = maps \/ \E v : maps' = [maps EXCEPT ![b].state = v]
  BY DEF FreeHammers, Started, Then, history
<1>2. Even
  BY <1>1, StateKeepsEven
<1>3. RunInv'
  <2>1. Kind(b) = "ruin" => r.list # <<>> /\ b = Head(r.list)
    OBVIOUS
  <2>2. /\ ListInv' /\ DOMAIN r' = DOMAIN r /\ r'.list = r.list
        /\ r'.stage = r.stage /\ r'.timed = r.timed
        /\ r'.cur = b /\ r'.last = "none"
    BY <1>0, <1>1, StartDigIs
  <2>3. CurInv'
    BY <1>1, <2>1, <2>2 DEF CurInv, Kind, Fact, Known
  <2>4. {r'.stage, r'.timed} \subseteq VaultOwn \cup {NoBoard}
    BY <1>0, <2>2 DEF RunInv
  <2> QED
    BY <1>0, <1>1, <2>2, <2>3, <2>4 DEF RunInv, VaultOwn, Kind, Fact
<1>4. Trusted' \subseteq Trusted
  BY <1>0, <1>1, StartDigIs
     DEF Trusted, RuinsLeft, CityAhead, InVault, OnTheWay, Undug, VaultKinds, Kind, Fact
<1> QED
  BY <1>2, <1>3, <1>4, EvenAndNoMore

LEMMA RuinBoardKeeps == ASSUME DigInv, RuinBoard PROVE DigInv'
<1>0. RunInv /\ step = "board" /\ r.list # <<>>
  BY DEF DigInv, RunInv, CurInv, RuinBoard
<1>1. Head(r.list) \in Ruins
  BY <1>0, TailKeepsList DEF RunInv, ListInv
<1>2. CASE Known(Head(r.list))
  <2>1. FreeHammers(Head(r.list))
    BY <1>2 DEF RuinBoard
  <2> QED
    BY <1>0, <1>1, <1>2, <2>1, FreeHammersKeep DEF Ruins
<1>3. CASE ~Known(Head(r.list))
  <2>1. step' = "ruin" /\ r' = NextRuin /\ Silent /\ UNCHANGED maps
    BY <1>3 DEF RuinBoard
  <2>2. Quiet /\ plan' = plan
    BY <2>1 DEF Quiet, Silent, boardVars, history
  <2>3. RunInv'
    BY <1>0, <2>1, <2>2, NextRuinIs DEF RunInv, CurInv, VaultOwn, Kind, Fact
  <2>4. Trusted' \subseteq Trusted
    BY <1>0, <2>1, NextRuinIs DEF RunInv, Trusted, RuinsLeft, CityAhead, InVault, OnTheWay, Undug
  <2> QED
    BY <2>2, <2>3, <2>4, QuietKeeps
<1> QED
  BY <1>2, <1>3

LEMMA CityBoardKeeps == ASSUME DigInv, CityBoard PROVE DigInv'
<1>0. RunInv /\ step = "city_board" /\ r.cur \in InCity
  BY DEF DigInv, RunInv, CurInv, CityBoard
<1>1. CASE Known(r.cur) /\ FreeHammers(r.cur)
  BY <1>0, <1>1, FreeHammersKeep DEF InCity
<1>2. CASE step' = "city_chests" /\ UNCHANGED <<maps, r>> /\ Silent
  <2>1. Quiet /\ plan' = plan
    BY <1>2 DEF Quiet, Silent, boardVars, history
  <2>2. RunInv'
    BY <1>0, <1>2, <2>1 DEF RunInv, ListInv, CurInv, VaultOwn, Ruins, Kind, Fact
  <2>3. Trusted' \subseteq Trusted
    BY <1>0, <1>2 DEF RunInv, Trusted, RuinsLeft, CityAhead, InVault, OnTheWay, Undug
  <2> QED
    BY <2>1, <2>2, <2>3, QuietKeeps
<1> QED
  BY <1>1, <1>2 DEF CityBoard

LEMMA RuinChestKeeps == ASSUME DigInv, RuinChest PROVE DigInv'
<1>0. RunInv /\ step = "ruin_chest" /\ r.list # <<>> /\ r.cur \in Boards
  BY DEF DigInv, RunInv, CurInv, RuinChest
<1>1. /\ r' = NextRuin /\ step' \in {"ruin", "over"} /\ plan' = plan /\ maps' = maps
      /\ UNCHANGED <<wasted, falseAll>>
      /\ server' = server \/ \E v : server' = [server EXCEPT ![r.cur].state = v]
  BY DEF RuinChest, Then, history
<1>2. Even
  BY <1>0, <1>1, StateKeepsEven
<1>3. RunInv'
  BY <1>0, <1>1, NextRuinIs DEF RunInv, CurInv, VaultOwn, Kind, Fact
<1>4. Trusted' \subseteq Trusted
  BY <1>0, <1>1, NextRuinIs DEF RunInv, Trusted, RuinsLeft, CityAhead, InVault, OnTheWay, Undug
<1> QED
  BY <1>2, <1>3, <1>4, EvenAndNoMore

LEMMA StartTimedKeeps == ASSUME DigInv, StartTimed PROVE DigInv'
<1>0. RunInv /\ step = "boards" /\ r.timed \in Boards
  BY DEF DigInv, RunInv, VaultOwn, StartTimed, TimedIs, TimedActive
<1>1. /\ step' \in {"turned", "over"} /\ plan' = plan
      /\ UNCHANGED <<wasted, falseAll>>
      /\ server' = server \/ \E v : server' = [server EXCEPT ![r.timed].state = v]
      /\ maps' = maps \/ \E v : maps' = [maps EXCEPT ![r.timed].state = v]
      /\ \E v : r' = [r EXCEPT !.progressed = v]
  BY DEF StartTimed, Started, Then
<1>2. Even
  BY <1>0, <1>1, StateKeepsEven
<1>3. RunInv'
  BY <1>0, <1>1 DEF RunInv, ListInv, CurInv, VaultOwn, Ruins, Kind, Fact
<1>4. Trusted' \subseteq Trusted
  BY <1>0, <1>1 DEF RunInv, Trusted, RuinsLeft, CityAhead, InVault, OnTheWay, Undug
<1> QED
  BY <1>2, <1>3, <1>4, EvenAndNoMore

LEMMA TimedChestKeeps == ASSUME DigInv, TimedChest PROVE DigInv'
<1>0. RunInv /\ step = "boards" /\ r.timed \in Boards
  BY DEF DigInv, RunInv, VaultOwn, TimedChest, TimedIs, TimedActive
<1>1. /\ step' \in {"turned", "over"} /\ plan' = plan /\ maps' = maps
      /\ UNCHANGED <<wasted, falseAll>>
      /\ server' = server \/ \E v : server' = [server EXCEPT ![r.timed].state = v]
      /\ r' = r \/ r' = [r EXCEPT !.progressed = TRUE, !.timed = NoBoard]
  BY DEF TimedChest, Then, history
<1>2. Even
  BY <1>0, <1>1, StateKeepsEven
<1>3. RunInv'
  BY <1>0, <1>1 DEF RunInv, ListInv, CurInv, VaultOwn, Ruins, Kind, Fact
<1>4. Trusted' \subseteq Trusted
  BY <1>0, <1>1 DEF RunInv, Trusted, RuinsLeft, CityAhead, InVault, OnTheWay, Undug
<1> QED
  BY <1>2, <1>3, <1>4, EvenAndNoMore

LEMMA ParsedEven ==
    ASSUME DigInv, UNCHANGED <<server, wasted, falseAll>>, NEW b \in Boards,
           maps' = [maps EXCEPT ![b] = ParseMap(b)]
    PROVE  Even
<1>1. DOMAIN server = Boards /\ DOMAIN maps = Boards
      /\ \A c \in Boards : DOMAIN server[c] = {"state", "opened"}
  BY DEF DigInv, CopiesInv
<1>2. DOMAIN maps' = Boards /\ \A c \in Boards : maps'[c] = ParseMap(c) \/ SameCopy(maps[c], maps'[c])
  BY <1>1 DEF SameCopy
<1> QED
  BY <1>1, <1>2 DEF Even

LEMMA CityDugKeeps == ASSUME DigInv, CityDug PROVE DigInv'
<1> DEFINE next == Fact(r.cur).next
<1>0. RunInv /\ step = "dug" /\ r.cur \in Boards /\ Kind(r.cur) = "city" /\ DOMAIN r' = DOMAIN r
      /\ r'.list = r.list /\ r'.stage = r.stage /\ r'.timed = r.timed /\ plan' = plan
      /\ UNCHANGED <<server, wasted, falseAll>>
  BY DEF DigInv, RunInv, CurInv, CityDug, Silent, boardVars, history
<1>1. CASE ~r.broken /\ r.last = "next"
  <2>1. step' = "city_board" /\ r'.cur = next /\ maps' = [maps EXCEPT ![next] = ParseMap(next)]
    BY <1>0, <1>1 DEF RunInv, CityDug
  <2>2. next \in Boards /\ Kind(next) = "city"
    <3>1. next # NoBoard
      BY <1>0, <1>1 DEF RunInv, CurInv
    <3> QED
      BY <1>0, <3>1, DigAssumption DEF Kind, Fact
  <2> HIDE DEF next
  <2>3. Even
    BY <1>0, <2>1, <2>2, ParsedEven
  <2>4. RunInv'
    BY <1>0, <2>1, <2>2 DEF RunInv, ListInv, CurInv, VaultOwn, InCity, Ruins, Kind, Fact
  <2>5. Trusted' \subseteq Trusted
    BY <1>0, <1>1, <2>1 DEF Trusted, RuinsLeft, CityAhead, InVault, OnTheWay, Undug, Kind, Fact
  <2> QED
    BY <2>3, <2>4, <2>5, EvenAndNoMore
<1>2. CASE ~(~r.broken /\ r.last = "next")
  <2>1. step' = "city_chests" /\ maps' = maps
    BY <1>2 DEF CityDug
  <2>2. Quiet
    BY <1>0, <2>1 DEF Quiet
  <2>3. RunInv'
    BY <1>0, <2>1 DEF RunInv, ListInv, CurInv, VaultOwn, Ruins, Kind, Fact
  <2>4. Trusted' \subseteq Trusted
    BY <1>0, <2>1 DEF Trusted, RuinsLeft, CityAhead, InVault, OnTheWay, Undug, Kind, Fact
  <2> QED
    BY <2>2, <2>3, <2>4, QuietKeeps
<1> QED
  BY <1>1, <1>2

\* The vault is read again: all its boards are as they were sent.
LEMMA ReadVaultKeeps ==
    ASSUME DigInv, step' = "round", plan' = plan, UNCHANGED <<server, wasted, falseAll>>,
           NEW stage \in VaultOwn \cup {NoBoard}, NEW timed \in VaultOwn \cup {NoBoard},
           ReadVault(stage, timed)
    PROVE  DigInv'
<1>0. RunInv
  BY DEF DigInv
<1>1. /\ DOMAIN r' = DOMAIN r /\ r'.list = r.list /\ r'.stage = stage /\ r'.timed = timed
      /\ maps' = [b \in Boards |-> IF Kind(b) \in VaultKinds THEN ParseMap(b) ELSE maps[b]]
  BY <1>0 DEF RunInv, ReadVault
<1>2. Even
  BY <1>1 DEF Even, SameCopy, DigInv, CopiesInv
<1>3. RunInv'
  BY <1>0, <1>1 DEF RunInv, ListInv, CurInv, VaultOwn, Ruins, Kind, Fact
<1>4. StillTrusted
  BY <1>1 DEF StillTrusted, Trusted, RuinsLeft, CityAhead, InVault, OnTheWay, Undug, Kind, Fact
<1> QED
  BY <1>2, <1>3, <1>4, EvenKeeps

LEMMA VaultKeeps == ASSUME DigInv, Vault PROVE DigInv'
<1>0. RunInv /\ step \in {"vault", "again"}
  BY DEF DigInv, Vault
<1>1. /\ plan' = plan /\ UNCHANGED <<server, wasted, falseAll>>
      /\ \/ step' \in {"track", "over"} /\ maps' = maps /\ r' = r
         \/ step' = "round" /\ ReadVault(plan.stage, plan.timed)
         \/ step' = "round" /\ ReadVault(Current(r.stage, "stage"), Current(r.stage, "timed"))
  BY DEF Vault, Silent, Reads, Then, boardVars, history
<1>2. CASE step' \in {"track", "over"} /\ maps' = maps /\ r' = r
  <2>1. Quiet
    BY <1>1, <1>2 DEF Quiet
  <2>2. RunInv'
    BY <1>0, <1>1, <1>2 DEF RunInv, ListInv, CurInv, VaultOwn, Ruins, Kind, Fact
  <2>3. Trusted' \subseteq Trusted
    BY <1>0, <1>2 DEF Trusted, RuinsLeft, CityAhead, InVault, OnTheWay, Undug, Kind, Fact
  <2> QED
    BY <2>1, <2>2, <2>3, QuietKeeps
<1>3. CASE step' = "round" /\ ReadVault(plan.stage, plan.timed)
  BY <1>0, <1>1, <1>3, PlanIs, ReadVaultKeeps
<1>4. CASE step' = "round" /\ ReadVault(Current(r.stage, "stage"), Current(r.stage, "timed"))
  <2>1. ASSUME NEW kind \in VaultKinds
        PROVE  Current(r.stage, kind) \in VaultOwn \cup {NoBoard}
    BY <1>0, DigAssumption DEF Current, RunInv, VaultOwn, Kind, Fact
  <2> QED
    BY <1>1, <1>4, <2>1, ReadVaultKeeps DEF VaultKinds
<1> QED
  BY <1>1, <1>2, <1>3, <1>4

LEMMA StageDugKeeps == ASSUME DigInv, StageDug PROVE DigInv'
<1> DEFINE next == IF r.last = "next" THEN Fact(r.cur).next ELSE NoBoard
<1>0. RunInv /\ step = "dug" /\ r.cur \in Boards /\ Kind(r.cur) = "stage" /\ plan' = plan
      /\ UNCHANGED <<server, wasted, falseAll>>
  BY DEF DigInv, RunInv, CurInv, StageDug, Silent, boardVars, history
<1>1. next \in Boards \cup {NoBoard}
  BY <1>0, DigAssumption DEF Fact
<1>2. /\ DOMAIN r' = DOMAIN r /\ r'.list = r.list
      /\ r'.timed = (IF next # NoBoard /\ Kind(next) = "timed" THEN next ELSE r.timed)
      /\ r'.stage = (IF next # NoBoard /\ Kind(next) = "stage" THEN next ELSE r.stage)
      /\ step' = (IF r.broken THEN "track" ELSE IF r.last = "recheck" THEN "again" ELSE "turned")
      /\ maps' = (IF next # NoBoard /\ ~r.broken THEN [maps EXCEPT ![next] = ParseMap(next)] ELSE maps)
  BY <1>0 DEF StageDug, RunInv
<1> HIDE DEF next
<1>3. Even
  <2>1. CASE next # NoBoard /\ ~r.broken
    BY <1>0, <1>1, <1>2, <2>1, ParsedEven
  <2>2. CASE ~(next # NoBoard /\ ~r.broken)
    BY <1>0, <1>2, <2>2 DEF Even, SameCopy, DigInv, CopiesInv
  <2> QED
    BY <2>1, <2>2
<1>4. step' \in {"track", "again", "turned"} /\ (step' = "turned" => ~r.broken /\ r.last # "recheck")
  BY <1>2
<1>5. RunInv'
  <2>1. {r'.stage, r'.timed} \subseteq VaultOwn \cup {NoBoard}
    BY <1>0, <1>1, <1>2 DEF RunInv, VaultOwn, VaultKinds
  <2> QED
    BY <1>0, <1>2, <1>4, <2>1 DEF RunInv, ListInv, CurInv, VaultOwn, Ruins, Kind, Fact
<1>6. Trusted' \subseteq Trusted
  BY <1>0, <1>4 DEF Trusted, RuinsLeft, CityAhead, InVault, OnTheWay, Undug, VaultKinds, Kind, Fact
<1> QED
  BY <1>3, <1>5, <1>6, EvenAndNoMore

-----------------------------------------------------------------------------
(* A brick is opened.                                                       *)

LEMMA AddBlockKeeps ==
    ASSUME NEW blocks, NEW b \in Boards, BlocksTrue(blocks, Fact(b).gems), NEW gem \in DOMAIN Fact(b).gems
    PROVE  LET more == AddBlock(blocks, gem, Fact(b).gems[gem])
           IN BlocksTrue(more, Fact(b).gems) /\ DOMAIN more = DOMAIN blocks \cup {gem}
BY DEF AddBlock, BlocksTrue

\* The vault is told that all gems are out only when all that are known are.
LEMMA CheckIsTrue ==
    ASSUME NEW b \in Boards, NEW m, NEW opened, NEW brick,
           CopyOf(m, b, opened), CheckOpenAll(m, brick)
    PROVE  AreOut(b, DOMAIN m.blocks, opened \cup {brick})
<1> SUFFICES ASSUME NEW gem \in DOMAIN m.blocks
             PROVE  Bricks(Fact(b), gem, Fact(b).gems[gem]) \subseteq opened \cup {brick}
  BY DEF AreOut, GemBricks
<1>1. /\ m.cfg = Fact(b).cfg /\ m.check \subseteq opened
      /\ m.blocks[gem].pos \in {0, Fact(b).gems[gem]}
  BY DEF CopyOf, BlocksTrue
<1>2. /\ Bricks(m, gem, m.blocks[gem].pos) # {}
      /\ Bricks(m, gem, m.blocks[gem].pos) \subseteq m.check \cup {brick}
  BY <1>1 DEF CheckOpenAll, Covered
<1>3. m.blocks[gem].pos = Fact(b).gems[gem]
  <2>1. Bricks(m, gem, 0) = {}
    <3>1. 0 \notin 1 .. Size(m)
      OBVIOUS
    <3> QED
      BY <3>1 DEF Bricks
  <2> QED
    BY <1>1, <1>2, <2>1
<1>4. \A at : Bricks(m, gem, at) = Bricks(Fact(b), gem, at)
  BY <1>1 DEF Bricks, Size
<1> QED
  BY <1>1, <1>2, <1>3, <1>4

\* A brick brings one gem in sight at most, the one that the reply names.
LEMMA UnderIs ==
    ASSUME NEW b \in Boards, Known(b), NEW opened, NEW brick
    PROVE  /\ \A g, h \in Under(b, brick) : g = h
           /\ ListedWith(b, opened \cup {brick}) \subseteq ListedWith(b, opened) \cup Under(b, brick)
<1>1. \A g, h \in DOMAIN Fact(b).gems : g # h => GemBricks(b, g) \cap GemBricks(b, h) = {}
  BY DigAssumption DEF Known, GemBricks, Fact
<1> QED
  BY <1>1 DEF Under, ListedWith

LEMMA OpenBrickKeeps == ASSUME DigInv, OpenBrick PROVE DigInv'
<1> DEFINE b == r.cur
           brick == NextBrick(maps[b])
           says == Kind(b) = "stage" /\ CheckOpenAll(maps[b], brick)
           open == server[b].opened \cup {brick}
<1>1. /\ RunInv /\ CopiesInv /\ step = "dig" /\ b \in Boards /\ Known(b) /\ brick # 0 /\ plan' = plan
      /\ CopyOf(maps[b], b, server[b].opened)
  BY DEF DigInv, RunInv, CurInv, CopiesInv, OpenBrick, MayOpen
<1>2. b \in Trusted
  <2>1. Kind(b) \in Kinds
    BY <1>1, DigAssumption DEF Kind, Fact
  <2>2. CASE Kind(b) = "ruin"
    <3>1. b \in ToSet(r.list)
      BY <1>1, <2>2, TailKeepsList DEF RunInv, ListInv, CurInv
    <3> QED
      BY <1>1, <2>2, <3>1 DEF Trusted, RuinsLeft
  <2>3. CASE Kind(b) # "ruin"
    BY <1>1, <2>1, <2>3 DEF Trusted, CityAhead, InVault, Kinds, VaultKinds
  <2> QED
    BY <2>2, <2>3
<1>3. brick \notin server[b].opened /\ server[b].opened \subseteq maps[b].opened
  <2>1. brick \notin maps[b].opened
    BY <1>1, NextBrickIsClosed DEF CopyOf, Known
  <2>2. server[b].opened \subseteq maps[b].opened
    BY <1>2 DEF DigInv, SyncInv
  <2> QED
    BY <2>1, <2>2
<1>4. says => AreOut(b, GemsListed(b), open)
  <2>1. GemsListed(b) \subseteq DOMAIN maps[b].blocks
    BY <1>2 DEF DigInv, SyncInv, GemsListed, ListedWith
  <2>2. says => AreOut(b, DOMAIN maps[b].blocks, open)
    BY <1>1, CheckIsTrue
  <2> QED
    BY <2>1, <2>2 DEF AreOut
<1>5. BoardCopyTrue'
  <2>1. /\ wasted' = (wasted \/ brick \in server[b].opened)
        /\ falseAll' = (falseAll \/ (says /\ ~AreOut(b, GemsListed(b), open)))
    BY DEF OpenBrick
  <2>2. ~wasted /\ ~falseAll
    BY DEF DigInv, BoardCopyTrue
  <2> QED
    BY <1>3, <1>4, <2>1, <2>2 DEF BoardCopyTrue
<1>6. PICK o \in Outcomes, recheck \in {says, FALSE} :
           /\ \E reached \in Reached(o) :
                 IF reached THEN Opened(b, brick) ELSE UNCHANGED <<server, chests>>
           /\ maps' = (IF o = "ok" /\ ~recheck THEN [maps EXCEPT ![b] = Noted(@, brick, b)] ELSE maps)
           /\ LET ends == server'[b].state = "can_get" /\ Fact(b).next # NoBoard
              IN /\ r' = [r EXCEPT !.broken = o # "ok",
                                   !.last = IF o # "ok" THEN @
                                         ELSE IF recheck THEN "recheck"
                                         ELSE IF ends THEN "next" ELSE "reply"]
                 /\ Then(o, IF o # "ok" \/ recheck \/ ends THEN "dug" ELSE step)
  BY DEF OpenBrick
<1> HIDE DEF brick, says, open
<1>7. recheck \in BOOLEAN /\ (recheck => Kind(b) = "stage")
  BY <1>6 DEF says
<1>8. /\ DOMAIN server' = Boards /\ \A c \in Boards : DOMAIN server'[c] = {"state", "opened"}
      /\ \A c \in Boards \ {b} : server'[c] = server[c]
      /\ server'[b].opened \in {open, server[b].opened}
      /\ o = "ok" => server'[b].opened = open
  <2>1. DOMAIN server = Boards /\ \A c \in Boards : DOMAIN server[c] = {"state", "opened"}
    BY <1>1 DEF CopiesInv
  <2>2. o = "ok" => Reached(o) = {TRUE}
    BY DEF Reached
  <2>3. Opened(b, brick) \/ (o # "ok" /\ server' = server)
    <3>1. PICK reached \in Reached(o) :
             IF reached THEN Opened(b, brick) ELSE UNCHANGED <<server, chests>>
      BY <1>6
    <3>2. CASE reached
      BY <3>1, <3>2
    <3>3. CASE ~reached
      <4>1. o = "ok" => reached = TRUE
        BY <2>2
      <4>2. server' = server
        BY <3>1, <3>3
      <4> QED
        BY <3>3, <4>1, <4>2
    <3> QED
      BY <3>2, <3>3
  <2>4. CASE Opened(b, brick)
    <3> DEFINE state == IF GemsOut(b, open) THEN "can_get" ELSE server[b].state
    <3>1. server' = [server EXCEPT ![b].opened = open, ![b].state = state]
      BY <1>1, <2>1, <2>4 DEF Opened, open
    <3> HIDE DEF state, b
    <3> QED
      BY <1>1, <2>1, <3>1
  <2>5. CASE o # "ok" /\ server' = server
    BY <1>1, <2>1, <2>5
  <2> QED
    BY <2>3, <2>4, <2>5
<1>9. /\ DOMAIN maps' = Boards /\ \A c \in Boards \ {b} : maps'[c] = maps[c]
      /\ IF o = "ok" /\ ~recheck THEN maps'[b] = Noted(maps[b], brick, b) ELSE maps'[b] = maps[b]
  <2>1. DOMAIN maps = Boards
    BY <1>1 DEF CopiesInv
  <2> QED
    BY <1>1, <1>6, <2>1
<1>10. /\ DOMAIN r' = DOMAIN r /\ r'.list = r.list /\ r'.cur = b
       /\ r'.stage = r.stage /\ r'.timed = r.timed
       /\ r'.broken = (o # "ok")
       /\ o = "ok" /\ recheck => r'.last = "recheck" /\ step' = "dug"
       /\ o = "ok" /\ ~recheck => r'.last \in {"next", "reply"} /\ step' \in {"dug", "dig"}
       /\ o # "ok" => r'.last = r.last /\ step' \in {"dug", "over"}
       /\ o = "ok" /\ r'.last = "next" => Fact(b).next # NoBoard
  <2> DEFINE ends == server'[b].state = "can_get" /\ Fact(b).next # NoBoard
             last == IF o # "ok" THEN r.last
                     ELSE IF recheck THEN "recheck"
                     ELSE IF ends THEN "next" ELSE "reply"
             next == IF o # "ok" \/ recheck \/ ends THEN "dug" ELSE step
  <2>1. r' = [r EXCEPT !.broken = o # "ok", !.last = last] /\ Then(o, next)
    BY <1>6
  <2>2. /\ o = "ok" /\ recheck => last = "recheck" /\ next = "dug"
        /\ o = "ok" /\ ~recheck => last \in {"next", "reply"} /\ next \in {"dug", "dig"}
        /\ o # "ok" => last = r.last /\ next = "dug"
        /\ o = "ok" /\ last = "next" => Fact(b).next # NoBoard
    <3>1. o # "ok" => last = r.last /\ next = "dug"
      OBVIOUS
    <3>2. o = "ok" /\ recheck => last = "recheck" /\ next = "dug"
      OBVIOUS
    <3>3. o = "ok" /\ ~recheck /\ ends => last = "next" /\ next = "dug"
      OBVIOUS
    <3>4. o = "ok" /\ ~recheck /\ ~ends => last = "reply" /\ next = step
      OBVIOUS
    <3> HIDE DEF last, next
    <3> QED
      BY <1>1, <3>1, <3>2, <3>3, <3>4
  <2> HIDE DEF last, next, ends
  <2>3. /\ DOMAIN r' = DOMAIN r /\ r'.list = r.list /\ r'.cur = r.cur
        /\ r'.stage = r.stage /\ r'.timed = r.timed
        /\ r'.broken = (o # "ok") /\ r'.last = last
    BY <1>1, <2>1 DEF RunInv
  <2>4. step' = IF o = "lost" THEN "over" ELSE next
    BY <2>1 DEF Then
  <2> QED
    BY <2>2, <2>3, <2>4
<1>11. /\ CopyOf(maps'[b], b, server'[b].opened)
       /\ o = "ok" /\ ~recheck =>
             /\ maps'[b].opened = maps[b].opened \cup {brick}
             /\ ListedWith(b, server[b].opened \cup {brick}) \subseteq DOMAIN maps'[b].blocks
  <2>1. CASE o = "ok" /\ ~recheck
    <3> DEFINE m == maps[b]
               n == Noted(m, brick, b)
               gem == CHOOSE g \in Under(b, brick) : TRUE
    <3>1. Under(b, brick) # {} => gem \in DOMAIN Fact(b).gems /\ Under(b, brick) = {gem}
      <4>1. Under(b, brick) # {} => gem \in Under(b, brick)
        OBVIOUS
      <4>2. \A g, h \in Under(b, brick) : g = h
        BY <1>1, UnderIs
      <4>3. Under(b, brick) \subseteq DOMAIN Fact(b).gems
        BY DEF Under
      <4> HIDE DEF gem
      <4> QED
        BY <4>1, <4>2, <4>3
    <3>2. DOMAIN m = {"state", "cfg", "opened", "check", "blocks"}
      BY <1>1 DEF CopyOf
    <3>3. /\ DOMAIN n = {"state", "cfg", "opened", "check", "blocks"} /\ n.cfg = m.cfg
          /\ n.opened = m.opened \cup {brick}
          /\ n.check \subseteq m.check \cup {brick}
          /\ n.blocks = IF Under(b, brick) = {} THEN m.blocks ELSE AddBlock(m.blocks, gem, Fact(b).gems[gem])
      BY <3>2 DEF Noted
    <3>9. ListedWith(b, server[b].opened) \subseteq DOMAIN m.blocks
      BY <1>2 DEF DigInv, SyncInv
    <3>10. ListedWith(b, server[b].opened \cup {brick}) \subseteq ListedWith(b, server[b].opened) \cup Under(b, brick)
      BY <1>1, UnderIs
    <3> HIDE DEF gem, m, n
    <3>4. BlocksTrue(m.blocks, Fact(b).gems) /\ m.cfg = Fact(b).cfg /\ m.check \subseteq server[b].opened
      BY <1>1 DEF CopyOf, m
    <3>5. BlocksTrue(n.blocks, Fact(b).gems) /\ DOMAIN n.blocks = DOMAIN m.blocks \cup Under(b, brick)
      <4>1. CASE Under(b, brick) = {}
        BY <3>3, <3>4, <4>1
      <4>2. CASE Under(b, brick) # {}
        <5> DEFINE more == AddBlock(m.blocks, gem, Fact(b).gems[gem])
        <5>1. BlocksTrue(more, Fact(b).gems) /\ DOMAIN more = DOMAIN m.blocks \cup {gem}
          BY <1>1, <3>1, <3>4, <4>2, AddBlockKeeps
        <5>2. n.blocks = more
          BY <3>3, <4>2
        <5> HIDE DEF more
        <5> QED
          BY <3>1, <4>2, <5>1, <5>2
      <4> QED
        BY <4>1, <4>2
    <3>6. n.check \subseteq server'[b].opened
      BY <1>8, <2>1, <3>3, <3>4 DEF open
    <3>7. CopyOf(n, b, server'[b].opened)
      BY <3>3, <3>4, <3>5, <3>6 DEF CopyOf
    <3>8. ListedWith(b, server[b].opened \cup {brick}) \subseteq DOMAIN n.blocks
      BY <3>5, <3>9, <3>10
    <3> QED
      BY <1>9, <2>1, <3>3, <3>7, <3>8 DEF m, n
  <2>2. CASE ~(o = "ok" /\ ~recheck)
    BY <1>1, <1>8, <1>9, <2>2 DEF CopyOf, open
  <2> QED
    BY <2>1, <2>2
<1>12. CopiesInv'
  <2>1. \A c \in Boards : CopyOf(maps'[c], c, server'[c].opened) = CopyOf(maps[c], c, server[c].opened)'
    BY DEF CopyOf, BlocksTrue, Fact
  <2>2. \A c \in Boards \ {b} : CopyOf(maps'[c], c, server'[c].opened)
    BY <1>1, <1>8, <1>9 DEF CopiesInv
  <2> HIDE DEF b
  <2> QED
    BY <1>8, <1>9, <1>11, <2>1, <2>2 DEF CopiesInv
<1>13. RunInv'
  <2>1. ListInv'
    BY <1>1, <1>10 DEF RunInv, ListInv, Ruins, Kind, Fact
  <2>2. CurInv'
    <3>1. /\ Kind(b) = "ruin" => r.list # <<>> /\ b = Head(r.list)
          /\ r.last = "next" => Fact(b).next # NoBoard
          /\ r.last = "recheck" => Kind(b) = "stage"
      BY <1>1 DEF RunInv, CurInv
    <3>2. r'.last = "next" => Fact(b).next # NoBoard
      BY <1>10, <3>1
    <3>3. r'.last = "recheck" => Kind(b) = "stage"
      BY <1>7, <1>10, <3>1
    <3>4. step' \in {"dig", "dug", "over"}
      BY <1>10
    <3> HIDE DEF b
    <3> QED
      BY <1>1, <1>10, <3>1, <3>2, <3>3, <3>4 DEF CurInv, Kind, Fact, Known
  <2> QED
    BY <1>1, <1>10, <2>1, <2>2 DEF RunInv, VaultOwn, Kind, Fact
<1>14. Trusted' \subseteq Trusted
  <2>1. step' \in {"dig", "dug", "over"} /\ (step' = "dug" /\ Kind(b) = "ruin" => ToSet(Tail(r.list)) \subseteq ToSet(r.list))
    BY <1>1, <1>10, TailKeepsList DEF RunInv, ListInv, CurInv
  <2> HIDE DEF b
  <2>2. r.cur = b
    BY DEF b
  <2> QED
    BY <1>1, <1>10, <2>1, <2>2 DEF Trusted, RuinsLeft, CityAhead, InVault, OnTheWay, Undug, Kind, Fact
<1>15. ~(o = "ok" /\ ~recheck) => b \notin Trusted'
  <2>1. SUFFICES ASSUME ~(o = "ok" /\ ~recheck)
                 PROVE  b \notin Trusted'
    OBVIOUS
  <2>2. step' \in {"dug", "over"} /\ (r'.broken \/ (r'.last = "recheck" /\ Kind(b) = "stage"))
    BY <1>7, <1>10, <2>1
  <2>3. Kind(b) = "ruin" => b \notin ToSet(Tail(r.list))
    BY <1>1, TailKeepsList DEF RunInv, ListInv, CurInv
  <2> HIDE DEF b
  <2> QED
    BY <1>10, <2>2, <2>3 DEF Trusted, RuinsLeft, CityAhead, InVault, OnTheWay, Undug, VaultKinds, Kind, Fact
<1>16. SyncInv'
  <2> SUFFICES ASSUME NEW c \in Trusted'
               PROVE  /\ server'[c].opened \subseteq maps'[c].opened
                      /\ ListedWith(c, server'[c].opened) \subseteq DOMAIN maps'[c].blocks
    BY DEF SyncInv, ListedWith, GemBricks, Fact
  <2>1. c \in Boards /\ c \in Trusted
    BY <1>14 DEF Trusted
  <2>2. CASE c = b
    <3>1. o = "ok" /\ ~recheck
      BY <1>15, <2>2
    <3> QED
      BY <1>3, <1>8, <1>11, <2>2, <3>1 DEF open
  <2>3. CASE c # b
    BY <1>8, <1>9, <2>1, <2>3 DEF DigInv, SyncInv
  <2> QED
    BY <2>2, <2>3
<1> QED
  BY <1>5, <1>12, <1>13, <1>16 DEF DigInv

\* The radar features touch no board.
LEMMA RadarIsBefore == RadarNext => step \in Undug /\ step' \in Undug
<1>1. Hold => step \in Undug /\ step' \in Undug
  BY DEF Hold, Undug
<1>2. Info => step \in Undug /\ step' \in Undug
  BY DEF Info, Undug
<1>3. ClaimEvent => step \in Undug /\ step' \in Undug
  BY DEF ClaimEvent, Undug
<1>4. ClaimLevel => step \in Undug /\ step' \in Undug
  BY DEF ClaimLevel, Undug
<1>5. ClaimsOver => step \in Undug /\ step' \in Undug
  BY DEF ClaimsOver, Undug
<1>6. Gate => step \in Undug /\ step' \in Undug
  BY DEF Gate, Undug
<1>7. Read => step \in Undug /\ step' \in Undug
  BY DEF Read, Undug
<1>8. Day => step \in Undug /\ step' \in Undug
  BY DEF Day, Undug
<1>9. RoundBegins => step \in Undug /\ step' \in Undug
  BY DEF RoundBegins, Undug
<1>10. Place => step \in Undug /\ step' \in Undug
  BY DEF Place, Undug
<1>11. StartTask => step \in Undug /\ step' \in Undug
  BY DEF StartTask, Undug
<1>12. March => step \in Undug /\ step' \in Undug
  BY DEF March, Undug
<1>13. EndSampling => step \in Undug /\ step' \in Undug
  BY DEF EndSampling, Undug
<1>14. EndTask => step \in Undug /\ step' \in Undug
  BY DEF EndTask, Undug
<1>15. Ended => step \in Undug /\ step' \in Undug
  BY DEF Ended, Undug
<1>16. Reread => step \in Undug /\ step' \in Undug
  BY DEF Reread, Undug
<1>17. ClaimDone => step \in Undug /\ step' \in Undug
  BY DEF ClaimDone, Undug
<1>18. RoundEnds => step \in Undug /\ step' \in Undug
  BY DEF RoundEnds, Undug
<1>19. Redraw => step \in Undug /\ step' \in Undug
  BY DEF Redraw, Undug
<1> QED
  BY <1>1, <1>2, <1>3, <1>4, <1>5, <1>6, <1>7, <1>8, <1>9, <1>10, <1>11, <1>12, <1>13, <1>14, <1>15, <1>16, <1>17, <1>18, <1>19 DEF RadarNext

LEMMA RadarKeeps == ASSUME DigInv, RadarStep PROVE DigInv'
<1>0. RunInv /\ step \in Undug /\ step' \in Undug /\ UNCHANGED <<plan, r>>
  BY RadarIsBefore DEF DigInv, RadarStep, digVars, boardVars
<1>1. Quiet
  BY DEF Quiet, RadarStep, digVars, boardVars, history
<1>2. RunInv'
  BY <1>0 DEF RunInv, ListInv, CurInv, Undug, VaultOwn, Ruins, Kind, Fact
<1>3. Trusted' \subseteq Trusted
  BY <1>0 DEF Trusted, Kind, Fact
<1> QED
  BY <1>1, <1>2, <1>3, QuietKeeps

LEMMA DigInitInv == DigInit => DigInv
<1> SUFFICES ASSUME DigInit PROVE DigInv
  OBVIOUS
<1>1. PICK s \in Scenarios : plan = s.plan /\ RadarInit(s.account, s.tasks)
  BY DEF DigInit
<1>2. step \in Undug
  BY <1>1 DEF RadarInit, Undug
<1>3. RunInv
  <2>1. /\ DOMAIN r = {"list", "cur", "last", "broken", "stage", "timed", "mine", "turn", "progressed", "left"}
        /\ r.list = <<>> /\ r.stage = NoBoard /\ r.timed = NoBoard
    BY DEF DigInit
  <2> QED
    BY <1>1, <1>2, <2>1, NoRuins DEF RunInv, ListInv, CurInv, Undug
<1>4. CopiesInv /\ \A b \in Boards : /\ maps[b].opened = server[b].opened
                                      /\ DOMAIN maps[b].blocks = ListedWith(b, server[b].opened)
  BY ParseIs DEF DigInit, CopiesInv
<1>5. SyncInv
  BY <1>4 DEF SyncInv, Trusted
<1>6. BoardCopyTrue
  BY DEF DigInit, BoardCopyTrue
<1> QED
  BY <1>3, <1>4, <1>5, <1>6 DEF DigInv

LEMMA DigNextInv == DigInv /\ [RunNext]_allVars => DigInv'
<1> SUFFICES ASSUME DigInv, [RunNext]_allVars PROVE DigInv'
  OBVIOUS
<1>1. CASE RadarStep
  BY <1>1, RadarKeeps
<1>2. CASE DigNext
  BY <1>2, QuietSteps, RuinBoardKeeps, CityBoardKeeps, RuinChestKeeps, StartTimedKeeps, TimedChestKeeps,
     CityDugKeeps, VaultKeeps, StageDugKeeps, OpenBrickKeeps DEF DigNext
<1>3. CASE UNCHANGED allVars
  <2>1. UNCHANGED <<plan, r, step>> /\ Quiet
    BY <1>3 DEF allVars, radarVars, digVars, boardVars, history, Quiet
  <2>2. RunInv' /\ Trusted' \subseteq Trusted
    BY <2>1 DEF DigInv, RunInv, ListInv, CurInv, VaultOwn, InCity, Ruins, Kind, Fact, Known,
                Trusted, RuinsLeft, CityAhead, InVault
  <2> QED
    BY <2>1, <2>2, QuietKeeps
<1> QED
  BY <1>1, <1>2, <1>3 DEF RunNext, Over

\* Whatever of a run fails, and whatever board comes in a board's place: no hammer
\* goes to a brick that is open on the server, and the vault is told that all gems
\* are out only when all are that it would list at that moment.
THEOREM BoardCopiesServe == DigSpec => []BoardCopyTrue
<1>1. DigInv => BoardCopyTrue
  BY DEF DigInv
<1> QED
  BY <1>1, DigInitInv, DigNextInv, PTL DEF DigSpec


-----------------------------------------------------------------------------
(* NoChestLeft.  What a run without a fault has still to claim: before the   *)
(* city, the chests that were ready when it began; on its way through the    *)
(* city and the vault, what it has noted (r.mine) and what the last brick    *)
(* made ready; past each of them nothing, or what a shut vault keeps.        *)

Clean == ~failed /\ claims < MaxClaims

Digging(kinds) == step \in {"dig", "dug"} /\ Kind(r.cur) \in kinds

BeforeCity ==
    step \in Undug \cup OnTheWay \cup {"held", "ruin_chest", "city"} \/ Digging({"ruin"})

AtCity == step \in {"city_board", "city_chests"} \/ Digging({"city"})

AtVault == step \in {"round", "chest", "boards", "turned"} \/ Digging(VaultKinds)

\* The chests of the run's own that it has noted or is about to.
Noticed == r.mine \cup IF step \in {"dig", "dug"} THEN MadeReady(r.cur) ELSE {}

\* A stage's last reply asked for the vault to be read again.
RecheckAsked == step = "dug" /\ Kind(r.cur) = "stage" /\ r.last = "recheck"

CityChests == OfKind(chests, {"city"})
StageChests == OfKind(chests, {"stage"})

CityChestsInv ==
    /\ BeforeCity => chests = plan.chests
    /\ AtCity => CityChests \subseteq Noticed
    /\ BeforeCity \/ AtCity \/ CityChests = {}

StageChestsInv ==
    /\ AtCity \/ step = "vault" => StageChests = OfKind(plan.chests, {"stage"})
    /\ AtVault => StageChests \subseteq Noticed \/ RecheckAsked
    /\ step \in {"track", "track_chest", "over"} =>
          StageChests = {} \/ r.turn >= MaxDigRounds \/ VaultShut

\* A round that has claimed a chest and has more to claim knows of it, but for
\* the dig of a timed stage.
ProgressInv ==
    /\ step = "boards" \/ Digging({"stage"}) => r.mine = {} \/ r.progressed
    /\ Digging({"timed"}) => r.cur = r.timed /\ ~Fact(r.cur).late
    /\ step = "turned" => r.mine = {} \/ r.progressed \/ (TimedActive /\ r.cur = r.timed)

Stages == {b \in Boards : Kind(b) = "stage"}
TimedStages == {b \in Boards : Kind(b) = "timed"}

VaultInv ==
    /\ AtVault \/ step = "again" => /\ r.stage \in Stages \cup {NoBoard}
                                   /\ r.timed \in TimedStages \cup {NoBoard}
    /\ Digging({"stage"}) => r.cur = r.stage
    /\ step = "again" => r.stage \in Stages

TrackInv ==
    /\ step \notin {"track_chest", "over"} => track = plan.track
    /\ step = "track_chest" => r.left = track
    /\ step = "over" => track = 0

UnbrokenInv == step \in {"dig", "dug"} => ~r.broken

ClaimsInv == CityChestsInv /\ StageChestsInv /\ ProgressInv /\ VaultInv /\ TrackInv /\ UnbrokenInv

ChestInv == claims \in Nat /\ (Clean => ClaimsInv)

\* A step goes on without a fault only if its request did.
LEMMA SentWell == ASSUME NEW o, Send(o), ~failed' PROVE o = "ok" /\ ~failed
  BY DEF Send, Try

LEMMA ClaimedWell ==
    ASSUME NEW o, o \in ClaimOutcomes, Claim(o), claims \in Nat
    PROVE  /\ claims' \in Nat
           /\ Clean' => o = "ok" /\ Clean
<1>1. CASE o = "capped"
  <2>1. claims' = claims /\ ~(claims < MaxClaims)
    BY <1>1 DEF Claim, ClaimOutcomes, MayClaim, Outcomes
  <2> QED
    BY <2>1 DEF Clean
<1>2. CASE o # "capped"
  <2>1. Send(o) /\ claims' = claims + 1
    BY <1>2 DEF Claim
  <2>2. MaxClaims \in Nat
    BY DigAssumption
  <2> QED
    BY <2>1, <2>2, SentWell DEF Clean
<1> QED
  BY <1>1, <1>2

LEMMA EarlyKeeps ==
    ASSUME ChestInv, BeforeCity, claims' \in Nat, UNCHANGED <<plan, chests, track>>,
           Clean' => Clean /\ BeforeCity' /\ (step' \in {"dig", "dug"} => ~r'.broken)
    PROVE  ChestInv'
<1> SUFFICES ASSUME Clean' PROVE ClaimsInv'
  BY DEF ChestInv
<1>1. Clean /\ BeforeCity' /\ ClaimsInv
  BY DEF ChestInv
<1>2. /\ ~AtCity' /\ ~AtVault' /\ step' \notin {"vault", "again", "track", "track_chest", "over", "boards", "turned"}
      /\ ~(step' \in {"dig", "dug"} /\ Kind(r.cur)' \in {"city", "stage", "timed"})
      /\ step \notin {"track_chest", "over"}
  BY <1>1 DEF BeforeCity, AtCity, AtVault, Digging, Undug, OnTheWay, VaultKinds
<1>3. CityChestsInv' /\ StageChestsInv'
  BY <1>1, <1>2 DEF CityChestsInv, StageChestsInv, ClaimsInv
<1>4. ProgressInv' /\ VaultInv' /\ TrackInv' /\ UnbrokenInv'
  BY <1>1, <1>2 DEF ProgressInv, VaultInv, TrackInv, UnbrokenInv, ClaimsInv, Digging
<1> QED
  BY <1>3, <1>4 DEF ClaimsInv

LEMMA RadarKeepsChests == ASSUME ChestInv, RadarStep PROVE ChestInv'
<1>1. step \in Undug /\ step' \in Undug
  BY RadarIsBefore DEF RadarStep
<1>2. UNCHANGED <<plan, chests, track, claims>>
  BY DEF RadarStep, digVars, boardVars
<1>3. failed => failed'
  BY DEF RadarStep, RadarNext, Hold, Info, ClaimEvent, ClaimLevel, ClaimsOver, Gate, Read, Day, RoundBegins,
         Place, StartTask, March, EndSampling, EndTask, Ended, Reread, ClaimDone, RoundEnds, Redraw,
         JudgeDay, ReadDetect, Reward, Begin, End, Send, Try, serverVars
<1> QED
  BY <1>1, <1>2, <1>3, EarlyKeeps DEF ChestInv, Clean, BeforeCity, Undug

\* The radar's ruins.
LEMMA RuinsKeepChests ==
    ASSUME ChestInv, DigInv,
           DigsBegin \/ RuinsInfo \/ Ruin \/ PlaceRuin \/ RuinDug \/ RuinHeld
    PROVE  ChestInv'
<1>1. UNCHANGED <<plan, chests, track, claims>>
  BY DEF DigsBegin, RuinsInfo, Ruin, PlaceRuin, RuinDug, RuinHeld, Silent, Reads, boardVars
<1>2. BeforeCity
  BY DEF DigsBegin, RuinsInfo, Ruin, PlaceRuin, RuinDug, RuinHeld, BeforeCity, Digging, Undug, OnTheWay
<1>3. ~failed' => /\ ~failed
                  /\ step' \in {"ruins", "ruin", "city", "ruin_place", "board", "held", "ruin_chest"}
  <2>1. CASE DigsBegin \/ Ruin \/ RuinDug
    BY <2>1 DEF DigsBegin, Ruin, RuinDug, Silent
  <2>2. CASE RuinsInfo
    BY <2>2, SentWell DEF RuinsInfo, Reads, Then
  <2>3. CASE PlaceRuin
    BY <2>3, SentWell DEF PlaceRuin, Reads, Then
  <2>4. CASE RuinHeld
    BY <2>4, SentWell DEF RuinHeld, Reads
  <2> QED
    BY <2>1, <2>2, <2>3, <2>4
<1>4. Clean' => Clean /\ BeforeCity' /\ step' \notin {"dig", "dug"}
  BY <1>1, <1>3 DEF Clean, BeforeCity, Undug, OnTheWay
<1> QED
  BY <1>1, <1>2, <1>4, EarlyKeeps DEF ChestInv

\* The free hammers of a board, and the start of its dig.
LEMMA HammersKeepRecords ==
    ASSUME RunInv, claims \in Nat, NEW b, FreeHammers(b)
    PROVE  /\ claims' \in Nat /\ UNCHANGED <<plan, chests, track>>
           /\ r'.cur = b /\ r'.last = "none" /\ ~r'.broken
           /\ r'.mine = r.mine /\ r'.progressed = r.progressed
           /\ Clean' => Clean /\ step' = "dig"
<1>1. UNCHANGED <<plan, chests, track>> /\ r' = StartDig(b)
  BY DEF FreeHammers
<1>2. /\ r'.cur = b /\ r'.last = "none" /\ ~r'.broken
      /\ r'.mine = r.mine /\ r'.progressed = r.progressed
  BY <1>1 DEF StartDig, RunInv
<1>3. CASE maps[b].state = "not_begun"
  <2>1. PICK o \in ClaimOutcomes : Claim(o) /\ Then(o, "dig")
    BY <1>3 DEF FreeHammers
  <2> QED
    BY <1>1, <1>2, <2>1, ClaimedWell DEF Then
<1>4. CASE maps[b].state # "not_begun"
  BY <1>1, <1>2, <1>4 DEF FreeHammers, Clean
<1> QED
  BY <1>3, <1>4

LEMMA RuinBoardKeepsChests == ASSUME ChestInv, DigInv, RuinBoard PROVE ChestInv'
<1>1. step = "board" /\ RunInv /\ BeforeCity
  BY DEF RuinBoard, DigInv, BeforeCity, OnTheWay
<1>2. Head(r.list) \in Ruins
  BY <1>1, TailKeepsList DEF RunInv, CurInv, ListInv
<1>3. CASE Known(Head(r.list))
  <2>1. FreeHammers(Head(r.list))
    BY <1>3 DEF RuinBoard
  <2>2. Clean' => Clean /\ BeforeCity' /\ ~r'.broken
    BY <1>1, <1>2, <2>1, HammersKeepRecords DEF ChestInv, BeforeCity, Digging, Ruins, Kind, Fact
  <2> QED
    BY <1>1, <2>1, <2>2, HammersKeepRecords, EarlyKeeps DEF ChestInv
<1>4. CASE ~Known(Head(r.list))
  <2>1. step' = "ruin" /\ UNCHANGED <<plan, chests, track, claims, failed>>
    BY <1>4 DEF RuinBoard, Silent, boardVars
  <2> QED
    BY <1>1, <2>1, EarlyKeeps DEF ChestInv, Clean, BeforeCity, OnTheWay
<1> QED
  BY <1>3, <1>4

LEMMA RuinChestKeepsChests == ASSUME ChestInv, DigInv, RuinChest PROVE ChestInv'
<1>1. BeforeCity /\ UNCHANGED <<plan, chests, track>>
  BY DEF RuinChest, BeforeCity
<1>2. PICK o \in ClaimOutcomes : Claim(o) /\ Then(o, "ruin")
  BY DEF RuinChest
<1>3. claims' \in Nat /\ (Clean' => Clean /\ step' = "ruin")
  BY <1>2, ClaimedWell DEF Then, ChestInv
<1> QED
  BY <1>1, <1>3, EarlyKeeps DEF BeforeCity, OnTheWay

LEMMA CityKeepsChests == ASSUME ChestInv, DigInv, City PROVE ChestInv'
<1>1. /\ step = "city" /\ step' \in {"city_board", "city_chests"}
      /\ UNCHANGED <<plan, chests, track, claims, failed>>
      /\ r'.mine = OfKind(plan.chests, {"city"})
  BY DEF City, Silent, boardVars, DigInv, RunInv
<1> SUFFICES ASSUME Clean' PROVE ClaimsInv'
  BY <1>1 DEF ChestInv
<1>2. chests = plan.chests /\ track = plan.track
  BY <1>1 DEF ChestInv, Clean, ClaimsInv, CityChestsInv, TrackInv, BeforeCity
<1> QED
  BY <1>1, <1>2 DEF ClaimsInv, CityChestsInv, StageChestsInv, ProgressInv, VaultInv, TrackInv, UnbrokenInv, BeforeCity,
       AtCity, AtVault, Digging, Undug, OnTheWay, Noticed, CityChests, StageChests

\* What the city's steps leave to check.
LEMMA CityGoesOn ==
    ASSUME ChestInv, AtCity, AtCity', claims' \in Nat, UNCHANGED <<plan, track>>,
           Clean' => /\ Clean
                     /\ (CityChests \subseteq Noticed) => (CityChests \subseteq Noticed)'
                     /\ StageChests' = StageChests
                     /\ step' \in {"dig", "dug"} => ~r'.broken
    PROVE  ChestInv'
<1> SUFFICES ASSUME Clean' PROVE ClaimsInv'
  BY DEF ChestInv
<1>1. ClaimsInv /\ Clean
  BY DEF ChestInv
<1>2. /\ ~BeforeCity' /\ ~AtVault'
      /\ step' \notin {"vault", "again", "track", "track_chest", "over", "boards", "turned"}
      /\ ~(step' \in {"dig", "dug"} /\ Kind(r.cur)' \in {"stage", "timed"})
      /\ step \notin {"track_chest", "over"}
  BY DEF BeforeCity, AtCity, AtVault, Digging, Undug, OnTheWay, VaultKinds
<1>3. CityChestsInv' /\ StageChestsInv'
  BY <1>1, <1>2 DEF CityChestsInv, StageChestsInv, ClaimsInv
<1>4. ProgressInv' /\ VaultInv' /\ TrackInv' /\ UnbrokenInv'
  BY <1>1, <1>2 DEF ProgressInv, VaultInv, TrackInv, UnbrokenInv, ClaimsInv, Digging
<1> QED
  BY <1>3, <1>4 DEF ClaimsInv

LEMMA CityBoardKeepsChests == ASSUME ChestInv, DigInv, CityBoard PROVE ChestInv'
<1>1. step = "city_board" /\ RunInv /\ r.cur \in InCity /\ AtCity
  BY DEF CityBoard, DigInv, RunInv, CurInv, AtCity
<1>2. CASE FreeHammers(r.cur)
  <2>1. /\ claims' \in Nat /\ UNCHANGED <<plan, chests, track>>
        /\ r'.cur = r.cur /\ r'.last = "none" /\ ~r'.broken /\ r'.mine = r.mine
        /\ Clean' => Clean /\ step' = "dig"
    BY <1>1, <1>2, HammersKeepRecords DEF ChestInv
  <2>2. Clean' => AtCity'
    BY <1>1, <2>1 DEF AtCity, Digging, InCity, Kind, Fact
  <2>3. r.mine \subseteq Noticed' /\ Noticed = r.mine
    BY <1>1, <2>1 DEF Noticed
  <2>4. CASE AtCity'
    BY <1>1, <2>1, <2>3, <2>4, CityGoesOn DEF CityChests, StageChests
  <2>5. CASE ~AtCity'
    BY <2>1, <2>2, <2>5 DEF ChestInv
  <2> QED
    BY <2>4, <2>5
<1>3. CASE ~FreeHammers(r.cur)
  <2>1. step' = "city_chests" /\ UNCHANGED <<plan, chests, track, claims, failed, r>>
    BY <1>3 DEF CityBoard, Silent, boardVars
  <2>2. AtCity' /\ Noticed' = Noticed
    BY <1>1, <2>1 DEF AtCity, Noticed
  <2> QED
    BY <1>1, <2>1, <2>2, CityGoesOn DEF ChestInv, Clean, CityChests, StageChests
<1> QED
  BY <1>2, <1>3

LEMMA CityDugKeepsChests == ASSUME ChestInv, DigInv, CityDug PROVE ChestInv'
<1>1. /\ step = "dug" /\ AtCity /\ step' \in {"city_board", "city_chests"}
      /\ UNCHANGED <<plan, chests, track, claims, failed>>
      /\ r'.mine = r.mine \cup MadeReady(r.cur)
  BY DEF CityDug, AtCity, Digging, Silent, boardVars, DigInv, RunInv
<1>2. AtCity' /\ Noticed' = Noticed
  BY <1>1 DEF AtCity, Noticed
<1> QED
  BY <1>1, <1>2, CityGoesOn DEF ChestInv, Clean, CityChests, StageChests

LEMMA CityChestKeepsChests == ASSUME ChestInv, DigInv, CityChest PROVE ChestInv'
<1>1. PICK o \in ClaimOutcomes :
           /\ ClaimChest({"city"}, o)
           /\ r' = [r EXCEPT !.mine = OfKind(chests', {"city"})]
           /\ Then(o, IF o = "ok" THEN step ELSE "vault")
  BY DEF CityChest
<1>2. /\ step = "city_chests" /\ AtCity /\ Claim(o) /\ UNCHANGED <<plan, track>>
      /\ r'.mine = OfKind(chests', {"city"})
      /\ chests' = chests \/ \E b \in OfKind(chests, {"city"}) : chests' = chests \ {b}
  BY <1>1 DEF CityChest, AtCity, ClaimChest, DigInv, RunInv
<1>3. claims' \in Nat /\ (Clean' => Clean /\ step' = "city_chests")
  BY <1>1, <1>2, ClaimedWell DEF ChestInv, Then
<1>4. OfKind(chests', {"stage"}) = OfKind(chests, {"stage"})
  BY <1>2 DEF OfKind
<1>5. CASE step' = "city_chests"
  <2>1. AtCity' /\ Noticed' = r'.mine
    BY <1>5 DEF AtCity, Noticed
  <2> QED
    BY <1>2, <1>3, <1>4, <1>5, <2>1, CityGoesOn DEF CityChests, StageChests
<1>6. CASE step' # "city_chests"
  BY <1>3, <1>6 DEF ChestInv
<1> QED
  BY <1>5, <1>6

LEMMA CityOverKeepsChests == ASSUME ChestInv, DigInv, CityOver PROVE ChestInv'
<1>1. step = "city_chests" /\ r.mine = {} /\ step' = "vault" /\ UNCHANGED <<plan, chests, track, claims, failed>>
  BY DEF CityOver, Silent, boardVars
<1> SUFFICES ASSUME Clean' PROVE ClaimsInv'
  BY <1>1 DEF ChestInv
<1>2. CityChests = {} /\ StageChests = OfKind(plan.chests, {"stage"}) /\ track = plan.track
  BY <1>1 DEF ChestInv, Clean, ClaimsInv, CityChestsInv, StageChestsInv, TrackInv, AtCity, Noticed
<1> QED
  BY <1>1, <1>2 DEF ClaimsInv, CityChestsInv, StageChestsInv, ProgressInv, VaultInv, TrackInv, UnbrokenInv, BeforeCity,
       AtCity, AtVault, Digging, Undug, OnTheWay, Noticed, CityChests, StageChests

-----------------------------------------------------------------------------
\* The vault's steps, but those that leave it.
LEMMA VaultGoesOn ==
    ASSUME ChestInv, step \in {"vault", "again"} \/ AtVault, claims' \in Nat, UNCHANGED <<plan, track>>,
           Clean' => /\ Clean /\ (AtVault' \/ step' = "again")
                     /\ CityChests' = CityChests
                     /\ AtVault' => StageChests' \subseteq Noticed' \/ RecheckAsked'
                     /\ ProgressInv' /\ VaultInv' /\ UnbrokenInv'
    PROVE  ChestInv'
<1> SUFFICES ASSUME Clean' PROVE ClaimsInv'
  BY DEF ChestInv
<1>1. ClaimsInv /\ (AtVault' \/ step' = "again")
  BY DEF ChestInv
<1>2. ~BeforeCity /\ ~AtCity /\ step \notin {"track_chest", "over"}
  BY DEF BeforeCity, AtCity, AtVault, Digging, Undug, OnTheWay, VaultKinds
<1>3. ~BeforeCity' /\ ~AtCity' /\ step' \notin {"vault", "track", "track_chest", "over"}
  BY <1>1 DEF BeforeCity, AtCity, AtVault, Digging, Undug, OnTheWay, VaultKinds
<1>4. CityChestsInv' /\ StageChestsInv'
  BY <1>1, <1>2, <1>3 DEF CityChestsInv, StageChestsInv, ClaimsInv
<1>5. TrackInv'
  BY <1>1, <1>2, <1>3 DEF TrackInv, ClaimsInv
<1> QED
  BY <1>4, <1>5 DEF ClaimsInv

\* The vault is left, with its chests claimed or for one of the reasons allowed.
LEMMA VaultIsLeft ==
    ASSUME ChestInv, step = "vault" \/ AtVault, step' = "track",
           UNCHANGED <<plan, chests, track, claims, failed>>,
           Clean => StageChests = {} \/ r'.turn >= MaxDigRounds \/ VaultShut'
    PROVE  ChestInv'
<1> SUFFICES ASSUME Clean' PROVE ClaimsInv'
  BY DEF ChestInv
<1>1. Clean /\ ClaimsInv
  BY DEF ChestInv, Clean
<1>2. ~BeforeCity /\ ~AtCity /\ step \notin {"track_chest", "over"}
  BY DEF BeforeCity, AtCity, AtVault, Digging, Undug, OnTheWay, VaultKinds
<1>3. ~BeforeCity' /\ ~AtCity' /\ ~AtVault' /\ ~(step' \in {"dig", "dug"})
  BY DEF BeforeCity, AtCity, AtVault, Digging, Undug, OnTheWay, VaultKinds
<1>4. CityChestsInv' /\ StageChestsInv'
  BY <1>1, <1>2, <1>3 DEF CityChestsInv, StageChestsInv, ClaimsInv, CityChests, StageChests
<1>5. ProgressInv' /\ VaultInv' /\ TrackInv' /\ UnbrokenInv'
  BY <1>1, <1>2, <1>3 DEF ProgressInv, VaultInv, TrackInv, UnbrokenInv, ClaimsInv, Digging
<1> QED
  BY <1>4, <1>5 DEF ClaimsInv

LEMMA VaultKeepsChests == ASSUME ChestInv, DigInv, Vault PROVE ChestInv'
<1>1. step \in {"vault", "again"} /\ UNCHANGED <<plan, chests, track, claims>> /\ RunInv
  BY DEF Vault, Silent, Reads, boardVars, DigInv
<1>2. CASE step = "vault" /\ ~VaultOpen
  <2>1. step' = "track" /\ UNCHANGED failed
    BY <1>2 DEF Vault, Silent
  <2>2. Clean => StageChests = {}
    BY <1>1, <1>2 DEF ChestInv, ClaimsInv, StageChestsInv, VaultOpen
  <2> QED
    BY <1>1, <1>2, <2>1, <2>2, VaultIsLeft
<1>3. CASE ~(step = "vault" /\ ~VaultOpen)
  <2>1. PICK o \in Outcomes :
             /\ Reads(o)
             /\ IF o # "ok" THEN UNCHANGED <<maps, r>>
                ELSE IF step = "vault" THEN ReadVault(plan.stage, plan.timed)
                ELSE ReadVault(Current(r.stage, "stage"), Current(r.stage, "timed"))
             /\ Then(o, IF o = "ok" THEN "round" ELSE "track")
    BY <1>3 DEF Vault
  <2>2. Clean' => o = "ok" /\ Clean /\ step' = "round"
    BY <1>1, <2>1, SentWell DEF Reads, Clean, Then
  <2> SUFFICES ASSUME Clean' PROVE ChestInv'
    BY <1>1 DEF ChestInv
  <2>3. PICK stage, timed :
             /\ ReadVault(stage, timed)
             /\ stage \in Stages \cup {NoBoard} /\ timed \in TimedStages \cup {NoBoard}
    <3>1. CASE step = "vault"
      <4>1. plan.stage \in Stages \cup {NoBoard} /\ plan.timed \in TimedStages \cup {NoBoard}
        BY <1>1, DigAssumption DEF RunInv, Stages, TimedStages, Kind, Fact
      <4> QED
        BY <2>1, <2>2, <3>1, <4>1
    <3>2. CASE step = "again"
      <4>1. r.stage \in Stages /\ r.timed \in TimedStages \cup {NoBoard}
        BY <2>2, <3>2 DEF ChestInv, ClaimsInv, VaultInv
      <4>2. /\ Current(r.stage, "stage") \in Stages \cup {NoBoard}
            /\ Current(r.stage, "timed") \in TimedStages \cup {NoBoard}
        BY <4>1, DigAssumption DEF Current, Stages, TimedStages, Kind, Fact
      <4> QED
        BY <2>1, <2>2, <3>2, <4>2
    <3> QED
      BY <1>1, <3>1, <3>2
  <2>4. r'.mine = StageChests /\ r'.stage = stage /\ r'.timed = timed
    BY <1>1, <2>3 DEF ReadVault, RunInv, StageChests
  <2>5. AtVault' /\ Noticed' = r'.mine /\ step' = "round"
    BY <2>2 DEF AtVault, Noticed
  <2>6. ProgressInv' /\ VaultInv' /\ UnbrokenInv'
    BY <2>3, <2>4, <2>5 DEF ProgressInv, VaultInv, UnbrokenInv, Digging, Stages, TimedStages, Kind, Fact
  <2> QED
    BY <1>1, <2>2, <2>4, <2>5, <2>6, VaultGoesOn DEF ChestInv, CityChests, StageChests
<1> QED
  BY <1>2, <1>3

LEMMA RoundKeepsChests == ASSUME ChestInv, DigInv, Round PROVE ChestInv'
<1>1. /\ step = "round" /\ AtVault /\ UNCHANGED <<plan, chests, track, claims, failed>>
      /\ r'.mine = r.mine /\ r'.turn = r.turn /\ r'.stage = r.stage /\ r'.timed = r.timed
      /\ step' = IF r.turn >= MaxDigRounds THEN "track" ELSE IF r.mine # {} THEN "chest" ELSE "boards"
  BY DEF Round, AtVault, Silent, boardVars, DigInv, RunInv
<1>2. CASE r.turn >= MaxDigRounds
  BY <1>1, <1>2, VaultIsLeft
<1>3. CASE ~(r.turn >= MaxDigRounds)
  <2>1. step' \in {"chest", "boards"} /\ (step' = "boards" => r.mine = {}) /\ AtVault'
    BY <1>1, <1>3 DEF AtVault
  <2>2. Noticed' = r.mine /\ Noticed = r.mine
    BY <1>1, <2>1 DEF Noticed
  <2>3. Clean' => /\ Clean /\ StageChests \subseteq Noticed
                  /\ ProgressInv' /\ VaultInv' /\ UnbrokenInv'
    BY <1>1, <2>1 DEF ChestInv, Clean, ClaimsInv, StageChestsInv, ProgressInv, VaultInv, UnbrokenInv, Digging, Stages,
         TimedStages, Kind, Fact, RecheckAsked
  <2> QED
    BY <1>1, <2>1, <2>2, <2>3, VaultGoesOn DEF ChestInv, CityChests, StageChests
<1> QED
  BY <1>2, <1>3

LEMMA VaultChestKeepsChests == ASSUME ChestInv, DigInv, VaultChest PROVE ChestInv'
<1>1. PICK o \in ClaimOutcomes :
           /\ ClaimChest({"stage"}, o)
           /\ r' = IF o = "ok" THEN [r EXCEPT !.progressed = TRUE, !.mine = OfKind(chests', {"stage"})] ELSE r
           /\ Then(o, "boards")
  BY DEF VaultChest
<1>2. /\ step = "chest" /\ AtVault /\ Claim(o) /\ UNCHANGED <<plan, track>>
      /\ chests' = chests \/ \E b \in OfKind(chests, {"stage"}) : chests' = chests \ {b}
  BY <1>1 DEF VaultChest, AtVault, ClaimChest
<1>3. claims' \in Nat /\ (Clean' => Clean /\ o = "ok" /\ step' = "boards")
  BY <1>1, <1>2, ClaimedWell DEF ChestInv, Then
<1>4. OfKind(chests', {"city"}) = OfKind(chests, {"city"})
  BY <1>2 DEF OfKind
<1> SUFFICES ASSUME Clean' PROVE ChestInv'
  BY <1>3 DEF ChestInv
<1>5. /\ r'.progressed /\ r'.mine = OfKind(chests', {"stage"}) /\ r'.stage = r.stage /\ r'.timed = r.timed
  BY <1>1, <1>3 DEF DigInv, RunInv
<1>6. AtVault' /\ Noticed' = r'.mine
  BY <1>3 DEF AtVault, Noticed
<1>7. ProgressInv' /\ VaultInv' /\ UnbrokenInv'
  BY <1>2, <1>3, <1>5 DEF ChestInv, ClaimsInv, ProgressInv, VaultInv, UnbrokenInv, Digging, Stages, TimedStages, Kind, Fact
<1> QED
  BY <1>2, <1>3, <1>4, <1>5, <1>6, <1>7, VaultGoesOn DEF CityChests, StageChests

\* A step from the vault's boards that claims no chest of a stage.
LEMMA BoardsGoOn ==
    ASSUME ChestInv, step \in {"boards", "dug"}, AtVault, ~RecheckAsked, claims' \in Nat,
           UNCHANGED <<plan, chests, track>>,
           Clean' => /\ Clean /\ step' \in {"turned", "dig"} /\ AtVault'
                     /\ Noticed \subseteq Noticed'
                     /\ ProgressInv' /\ VaultInv' /\ UnbrokenInv'
    PROVE  ChestInv'
<1>1. Clean => StageChests \subseteq Noticed
  BY DEF ChestInv, ClaimsInv, StageChestsInv
<1> QED
  BY <1>1, VaultGoesOn DEF CityChests, StageChests

LEMMA StartTimedKeepsChests == ASSUME ChestInv, DigInv, StartTimed PROVE ChestInv'
<1>1. PICK o \in ClaimOutcomes :
           /\ Claim(o)
           /\ r' = [r EXCEPT !.progressed = @ \/ o = "ok"]
           /\ Then(o, "turned")
  BY DEF StartTimed
<1>2. step = "boards" /\ AtVault /\ ~RecheckAsked /\ UNCHANGED <<plan, chests, track>> /\ RunInv
  BY DEF StartTimed, TimedIs, AtVault, RecheckAsked, DigInv
<1>3. claims' \in Nat /\ (Clean' => Clean /\ o = "ok" /\ step' = "turned")
  BY <1>1, ClaimedWell DEF ChestInv, Then
<1> SUFFICES ASSUME Clean' PROVE ChestInv'
  BY <1>3 DEF ChestInv
<1>4. r'.progressed /\ r'.mine = r.mine /\ r'.stage = r.stage /\ r'.timed = r.timed
  BY <1>1, <1>2, <1>3 DEF RunInv
<1>5. AtVault' /\ Noticed' = r.mine /\ Noticed = r.mine
  BY <1>2, <1>3, <1>4 DEF AtVault, Noticed
<1>6. ProgressInv' /\ VaultInv' /\ UnbrokenInv'
  BY <1>2, <1>3, <1>4 DEF ChestInv, ClaimsInv, ProgressInv, VaultInv, UnbrokenInv, Digging
<1> QED
  BY <1>2, <1>3, <1>5, <1>6, BoardsGoOn

LEMMA TimedEndsKeepsChests == ASSUME ChestInv, DigInv, TimedChest \/ TimedFailed PROVE ChestInv'
<1>1. PICK o :
           /\ \/ o \in ClaimOutcomes /\ Claim(o)
              \/ Send(o) /\ claims' = claims
           /\ r' = IF o = "ok" THEN [r EXCEPT !.progressed = TRUE, !.timed = NoBoard] ELSE r
           /\ Then(o, "turned")
  BY DEF TimedChest, TimedFailed, Reads
<1>2. step = "boards" /\ AtVault /\ ~RecheckAsked /\ UNCHANGED <<plan, chests, track>> /\ RunInv
  BY DEF TimedChest, TimedFailed, TimedIs, Reads, boardVars, AtVault, RecheckAsked, DigInv
<1>3. claims' \in Nat /\ (Clean' => Clean /\ o = "ok" /\ step' = "turned")
  BY <1>1, ClaimedWell, SentWell DEF ChestInv, Then, Clean
<1> SUFFICES ASSUME Clean' PROVE ChestInv'
  BY <1>3 DEF ChestInv
<1>4. r'.progressed /\ r'.mine = r.mine /\ r'.stage = r.stage /\ r'.timed = NoBoard
  BY <1>1, <1>2, <1>3 DEF RunInv
<1>5. AtVault' /\ Noticed' = r.mine /\ Noticed = r.mine
  BY <1>2, <1>3, <1>4 DEF AtVault, Noticed
<1>6. ProgressInv' /\ VaultInv' /\ UnbrokenInv'
  BY <1>2, <1>3, <1>4 DEF ChestInv, ClaimsInv, ProgressInv, VaultInv, UnbrokenInv, Digging
<1> QED
  BY <1>2, <1>3, <1>5, <1>6, BoardsGoOn

LEMMA DigTimedKeepsChests == ASSUME ChestInv, DigInv, DigTimed PROVE ChestInv'
<1>1. /\ step = "boards" /\ step' = "dig" /\ AtVault /\ ~RecheckAsked /\ RunInv
      /\ UNCHANGED <<plan, chests, track, claims, failed>>
      /\ r' = StartDig(r.timed) /\ r.timed # NoBoard /\ ~Fact(r.timed).late
  BY DEF DigTimed, TimedIs, TimedActive, Silent, boardVars, AtVault, RecheckAsked, DigInv
<1>2. r'.cur = r.timed /\ ~r'.broken /\ r'.mine = r.mine /\ r'.stage = r.stage /\ r'.timed = r.timed
  BY <1>1 DEF StartDig, RunInv
<1> SUFFICES ASSUME Clean' PROVE ChestInv'
  BY <1>1 DEF ChestInv
<1>3. Clean /\ ClaimsInv
  BY <1>1 DEF ChestInv, Clean
<1>4. r.timed \in TimedStages
  BY <1>1, <1>3 DEF ClaimsInv, VaultInv
<1>5. AtVault' /\ Noticed \subseteq Noticed'
  BY <1>1, <1>2, <1>4 DEF AtVault, Noticed, Digging, VaultKinds, TimedStages, Kind, Fact
<1>6. ProgressInv' /\ VaultInv' /\ UnbrokenInv'
  BY <1>1, <1>2, <1>3, <1>4 DEF ClaimsInv, ProgressInv, VaultInv, UnbrokenInv, Digging, TimedStages, Kind, Fact
<1> QED
  BY <1>1, <1>3, <1>5, <1>6, BoardsGoOn DEF ChestInv

LEMMA LeaveVaultKeepsChests == ASSUME ChestInv, DigInv, LeaveVault PROVE ChestInv'
<1>1. /\ step = "boards" /\ step' = "track" /\ AtVault /\ ~RecheckAsked /\ TimedActive
      /\ UNCHANGED <<plan, chests, track, claims, failed, r, maps>>
  BY DEF LeaveVault, Silent, boardVars, AtVault, RecheckAsked
<1>2. Clean => StageChests = {} \/ r.progressed
  BY <1>1 DEF ChestInv, ClaimsInv, StageChestsInv, ProgressInv, Noticed
<1>3. TimedActive'
  BY <1>1 DEF TimedActive
<1> QED
  BY <1>1, <1>2, <1>3, VaultIsLeft DEF VaultShut

LEMMA StageKeepsChests == ASSUME ChestInv, DigInv, Stage PROVE ChestInv'
<1>1. /\ step = "boards" /\ AtVault /\ ~RecheckAsked /\ RunInv
      /\ UNCHANGED <<plan, chests, track, claims, failed, maps>>
  BY DEF Stage, Silent, boardVars, AtVault, RecheckAsked, DigInv
<1>2. Clean => ClaimsInv /\ r.stage \in Stages \cup {NoBoard} /\ (r.mine = {} \/ r.progressed)
               /\ StageChests \subseteq r.mine
  BY <1>1 DEF ChestInv, ClaimsInv, VaultInv, ProgressInv, StageChestsInv, Noticed
<1>3. CASE step' = "turned" /\ UNCHANGED r
  <2>1. AtVault' /\ Noticed' = Noticed
    BY <1>1, <1>3 DEF AtVault, Noticed
  <2>2. Clean => ProgressInv' /\ VaultInv' /\ UnbrokenInv'
    BY <1>1, <1>2, <1>3 DEF ClaimsInv, ProgressInv, VaultInv, UnbrokenInv, Digging
  <2> QED
    BY <1>1, <1>3, <2>1, <2>2, BoardsGoOn DEF ChestInv, Clean
<1>4. CASE r.stage # NoBoard /\ ~Known(r.stage) /\ step' = "track" /\ UNCHANGED r
  <2>1. Clean => StageChests = {} \/ VaultShut'
    BY <1>2, <1>4 DEF VaultShut, Known, Fact
  <2> QED
    BY <1>1, <1>4, <2>1, VaultIsLeft
<1>5. CASE r.stage # NoBoard /\ step' = "dig" /\ r' = StartDig(r.stage)
  <2>1. r'.cur = r.stage /\ ~r'.broken /\ r'.mine = r.mine /\ r'.stage = r.stage /\ r'.timed = r.timed
        /\ r'.progressed = r.progressed
    BY <1>1, <1>5 DEF StartDig, RunInv
  <2>2. Clean => r.stage \in Stages
    BY <1>2, <1>5
  <2>3. Clean => AtVault' /\ Noticed \subseteq Noticed'
    BY <1>1, <1>5, <2>1, <2>2 DEF AtVault, Noticed, Digging, VaultKinds, Stages, Kind, Fact
  <2>4. Clean => ProgressInv' /\ VaultInv' /\ UnbrokenInv'
    BY <1>1, <1>2, <1>5, <2>1, <2>2 DEF ClaimsInv, ProgressInv, VaultInv, UnbrokenInv, Digging, Stages, Kind, Fact
  <2> QED
    BY <1>1, <1>5, <2>3, <2>4, BoardsGoOn DEF ChestInv, Clean
<1> QED
  BY <1>3, <1>4, <1>5 DEF Stage

LEMMA TimedDugKeepsChests == ASSUME ChestInv, DigInv, TimedDug PROVE ChestInv'
<1>1. /\ step = "dug" /\ Kind(r.cur) = "timed" /\ AtVault /\ ~RecheckAsked /\ RunInv
      /\ UNCHANGED <<plan, chests, track, claims, failed, maps>>
      /\ step' = IF r.broken THEN "track" ELSE "turned"
      /\ r'.mine = r.mine /\ r'.stage = r.stage /\ r'.timed = r.timed /\ r'.cur = r.cur
  BY DEF TimedDug, Silent, boardVars, AtVault, RecheckAsked, DigInv, RunInv, Digging, VaultKinds
<1> SUFFICES ASSUME Clean' PROVE ChestInv'
  BY <1>1 DEF ChestInv
<1>2. Clean /\ ClaimsInv
  BY <1>1 DEF ChestInv, Clean
<1>3. ~r.broken /\ r.cur = r.timed /\ ~Fact(r.cur).late /\ r.timed \in TimedStages \cup {NoBoard}
  BY <1>1, <1>2 DEF ClaimsInv, UnbrokenInv, ProgressInv, VaultInv, Digging
<1>4. r.cur \in Boards /\ r.cur # NoBoard
  BY <1>1, DigAssumption DEF RunInv, CurInv
<1>5. AtVault' /\ TimedActive'
  BY <1>1, <1>3, <1>4 DEF AtVault, TimedActive
<1>6. StageChests \subseteq r.mine
  <2>1. MadeReady(r.cur) \cap StageChests = {}
    BY <1>1 DEF MadeReady, StageChests, OfKind
  <2> QED
    BY <1>1, <1>2, <2>1 DEF ClaimsInv, StageChestsInv, Noticed
<1>7. ProgressInv' /\ VaultInv' /\ UnbrokenInv'
  BY <1>1, <1>2, <1>3, <1>5 DEF ClaimsInv, ProgressInv, VaultInv, UnbrokenInv, Digging
<1>8. StageChests' \subseteq Noticed'
  BY <1>1, <1>3, <1>6 DEF StageChests, Noticed
<1> QED
  BY <1>1, <1>2, <1>5, <1>7, <1>8, VaultGoesOn DEF ChestInv, CityChests

LEMMA StageDugKeepsChests == ASSUME ChestInv, DigInv, StageDug PROVE ChestInv'
<1> DEFINE next == IF r.last = "next" THEN Fact(r.cur).next ELSE NoBoard
<1>1. /\ step = "dug" /\ Kind(r.cur) = "stage" /\ AtVault /\ RunInv
      /\ UNCHANGED <<plan, chests, track, claims, failed>>
      /\ step' = IF r.broken THEN "track" ELSE IF r.last = "recheck" THEN "again" ELSE "turned"
      /\ r.cur \in Boards
  BY DEF StageDug, Silent, boardVars, AtVault, DigInv, RunInv, CurInv, Digging, VaultKinds
<1>2. /\ r'.progressed = (r.progressed \/ r.last # "none")
      /\ r'.mine = r.mine \cup MadeReady(r.cur)
      /\ r'.timed = IF next # NoBoard /\ Kind(next) = "timed" THEN next ELSE r.timed
      /\ r'.stage = IF next # NoBoard /\ Kind(next) = "stage" THEN next ELSE r.stage
  BY <1>1 DEF StageDug, RunInv
<1>3. next \in Boards \cup {NoBoard}
  BY <1>1, DigAssumption DEF Fact
<1> SUFFICES ASSUME Clean' PROVE ChestInv'
  BY <1>1 DEF ChestInv
<1>4. Clean /\ ClaimsInv
  BY <1>1 DEF ChestInv, Clean
<1>5. /\ ~r.broken /\ r.cur = r.stage /\ (r.mine = {} \/ r.progressed)
      /\ r.stage \in Stages \cup {NoBoard} /\ r.timed \in TimedStages \cup {NoBoard}
  BY <1>1, <1>4 DEF ClaimsInv, UnbrokenInv, ProgressInv, VaultInv, Digging
<1>6. r'.stage \in Stages \cup {NoBoard} /\ r'.timed \in TimedStages \cup {NoBoard}
  BY <1>2, <1>3, <1>5 DEF Stages, TimedStages
<1>7. CASE r.last = "recheck"
  <2>1. step' = "again" /\ r'.stage = r.stage /\ r.stage \in Stages
    BY <1>1, <1>2, <1>5, <1>7 DEF Stages
  <2>2. ProgressInv' /\ VaultInv' /\ UnbrokenInv' /\ ~AtVault'
    BY <1>6, <2>1 DEF ProgressInv, VaultInv, UnbrokenInv, Digging, AtVault
  <2> QED
    BY <1>1, <1>4, <2>1, <2>2, VaultGoesOn DEF ChestInv, CityChests
<1>8. CASE r.last # "recheck"
  <2>1. step' = "turned" /\ AtVault' /\ Noticed' = Noticed
    BY <1>1, <1>2, <1>5, <1>8 DEF AtVault, Noticed
  <2>2. r'.mine = {} \/ r'.progressed
    BY <1>2, <1>5 DEF MadeReady
  <2>3. ProgressInv' /\ VaultInv' /\ UnbrokenInv'
    BY <1>6, <2>1, <2>2 DEF ProgressInv, VaultInv, UnbrokenInv, Digging
  <2> QED
    BY <1>1, <1>4, <1>8, <2>1, <2>3, BoardsGoOn DEF ChestInv, RecheckAsked
<1> QED
  BY <1>7, <1>8

LEMMA TurnedKeepsChests == ASSUME ChestInv, DigInv, Turned PROVE ChestInv'
<1>1. /\ step = "turned" /\ AtVault /\ RunInv
      /\ UNCHANGED <<plan, chests, track, claims, failed, maps>>
      /\ step' = IF r.progressed THEN "round" ELSE "track"
      /\ r'.mine = r.mine /\ r'.stage = r.stage /\ r'.timed = r.timed /\ r'.cur = r.cur
  BY DEF Turned, Silent, boardVars, AtVault, DigInv, RunInv
<1>2. Clean => /\ StageChests \subseteq r.mine
               /\ r.mine = {} \/ r.progressed \/ (TimedActive /\ r.cur = r.timed)
  BY <1>1 DEF ChestInv, ClaimsInv, StageChestsInv, ProgressInv, Noticed, RecheckAsked
<1>3. CASE r.progressed
  <2>1. AtVault' /\ Noticed' = r.mine /\ step' = "round"
    BY <1>1, <1>3 DEF AtVault, Noticed
  <2>2. Clean => ProgressInv' /\ VaultInv' /\ UnbrokenInv'
    BY <1>1, <2>1 DEF ChestInv, ClaimsInv, ProgressInv, VaultInv, UnbrokenInv, Digging
  <2> QED
    BY <1>1, <1>2, <2>1, <2>2, VaultGoesOn DEF ChestInv, Clean, CityChests, StageChests
<1>4. CASE ~r.progressed
  <2>1. TimedActive /\ r.cur = r.timed => VaultShut'
    BY <1>1 DEF TimedActive, VaultShut
  <2> QED
    BY <1>1, <1>2, <1>4, <2>1, VaultIsLeft
<1> QED
  BY <1>3, <1>4

-----------------------------------------------------------------------------
\* A dig: what it brings is noted by the reply, or read again.
LEMMA DigGoesOn ==
    ASSUME ChestInv, DigInv, step = "dig", step' \in {"dig", "dug", "over"}, claims' \in Nat,
           UNCHANGED <<plan, track>>,
           r'.cur = r.cur, r'.stage = r.stage, r'.timed = r.timed, r'.mine = r.mine, r'.progressed = r.progressed,
           Clean' => /\ Clean /\ step' \in {"dig", "dug"} /\ ~r'.broken
                     /\ Kind(r.cur) \in {"ruin", "timed"} => chests' = chests
                     /\ (Noticed \subseteq Noticed' /\ (chests' = chests \/ chests' = chests \cup (MadeReady(r.cur))'))
                        \/ (RecheckAsked' /\ CityChests' = CityChests)
    PROVE  ChestInv'
<1> SUFFICES ASSUME Clean' PROVE ChestInv'
  BY DEF ChestInv
<1>1. Clean /\ ClaimsInv /\ RunInv /\ r.cur \in Boards /\ Kind(r.cur) \in Kinds /\ step' \in {"dig", "dug"}
  BY DigAssumption DEF ChestInv, DigInv, RunInv, CurInv, Kind, Fact
<1>2. CASE Kind(r.cur) = "ruin"
  <2>1. BeforeCity /\ BeforeCity' /\ chests' = chests
    BY <1>1, <1>2 DEF BeforeCity, Digging, Kind, Fact
  <2> QED
    BY <1>1, <2>1, EarlyKeeps
<1>3. CASE Kind(r.cur) = "city"
  <2>1. AtCity /\ AtCity' /\ ~RecheckAsked'
    BY <1>1, <1>3 DEF AtCity, Digging, RecheckAsked, Kind, Fact
  <2>2. /\ Noticed \subseteq Noticed'
        /\ chests' = chests \/ chests' = chests \cup (MadeReady(r.cur))'
    BY <2>1
  <2>3. (MadeReady(r.cur))' \subseteq Noticed' /\ (MadeReady(r.cur))' \subseteq {r.cur}
    BY <1>1 DEF Noticed, MadeReady
  <2>4. StageChests' = StageChests /\ (CityChests \subseteq Noticed => CityChests' \subseteq Noticed')
    BY <1>3, <2>2, <2>3 DEF StageChests, CityChests, OfKind
  <2> QED
    BY <1>1, <2>1, <2>4, CityGoesOn
<1>4. CASE Kind(r.cur) \in VaultKinds
  <2>1. AtVault /\ AtVault' /\ ~RecheckAsked
    BY <1>1, <1>4 DEF AtVault, Digging, RecheckAsked, Kind, Fact
  <2>2. StageChests \subseteq Noticed
    BY <1>1, <2>1 DEF ClaimsInv, StageChestsInv
  <2>3. ProgressInv' /\ VaultInv' /\ UnbrokenInv'
    BY <1>1, <1>4, <2>1 DEF ClaimsInv, ProgressInv, VaultInv, UnbrokenInv, Digging, Kind, Fact
  <2>4. CASE RecheckAsked' /\ CityChests' = CityChests
    BY <1>1, <2>1, <2>3, <2>4, VaultGoesOn
  <2>5. CASE ~(RecheckAsked' /\ CityChests' = CityChests)
    <3>1. /\ Noticed \subseteq Noticed'
          /\ chests' = chests \/ chests' = chests \cup (MadeReady(r.cur))'
      BY <2>5
    <3>2. (MadeReady(r.cur))' \subseteq Noticed' /\ (MadeReady(r.cur))' \subseteq {r.cur}
      BY <1>1 DEF Noticed, MadeReady
    <3>3. CityChests' = CityChests /\ StageChests' \subseteq Noticed'
      BY <1>4, <2>2, <3>1, <3>2 DEF StageChests, CityChests, OfKind, VaultKinds
    <3> QED
      BY <1>1, <2>1, <2>3, <3>3, VaultGoesOn
  <2> QED
    BY <2>4, <2>5
<1> QED
  BY <1>1, <1>2, <1>3, <1>4 DEF Kinds, VaultKinds

LEMMA DigEndsKeepsChests == ASSUME ChestInv, DigInv, DigEnds PROVE ChestInv'
<1>1. step = "dig" /\ step' = "dug" /\ UNCHANGED <<plan, chests, track, claims, failed, maps, r>>
  BY DEF DigEnds, Silent, boardVars
<1>2. Noticed' = Noticed
  BY <1>1 DEF Noticed, MadeReady
<1>3. Clean => ~r.broken
  BY <1>1 DEF ChestInv, ClaimsInv, UnbrokenInv
<1> QED
  BY <1>1, <1>2, <1>3, DigGoesOn DEF ChestInv, Clean

LEMMA OpenBrickKeepsChests == ASSUME ChestInv, DigInv, OpenBrick PROVE ChestInv'
<1> DEFINE b == r.cur
           brick == NextBrick(maps[b])
           says == Kind(b) = "stage" /\ CheckOpenAll(maps[b], brick)
           out == GemsOut(b, server[b].opened \cup {brick})
<1>1. /\ RunInv /\ CopiesInv /\ step = "dig" /\ b \in Boards /\ maps[b].state = "digging"
      /\ UNCHANGED <<plan, track, claims>>
  BY DEF DigInv, RunInv, CurInv, OpenBrick, MayOpen
<1>2. PICK o \in Outcomes, recheck \in {says, FALSE} :
           /\ Send(o)
           /\ \E reached \in Reached(o) :
                 IF reached THEN Opened(b, brick) ELSE UNCHANGED <<server, chests>>
           /\ maps' = (IF o = "ok" /\ ~recheck THEN [maps EXCEPT ![b] = Noted(@, brick, b)] ELSE maps)
           /\ LET ends == server'[b].state = "can_get" /\ Fact(b).next # NoBoard
              IN /\ r' = [r EXCEPT !.broken = o # "ok",
                                   !.last = IF o # "ok" THEN @
                                         ELSE IF recheck THEN "recheck"
                                         ELSE IF ends THEN "next" ELSE "reply"]
                 /\ Then(o, IF o # "ok" \/ recheck \/ ends THEN "dug" ELSE step)
  BY DEF OpenBrick
<1> DEFINE ends == server'[b].state = "can_get" /\ Fact(b).next # NoBoard
           last == IF o # "ok" THEN r.last ELSE IF recheck THEN "recheck" ELSE IF ends THEN "next" ELSE "reply"
<1>3. /\ r' = [r EXCEPT !.broken = o # "ok", !.last = last]
      /\ Then(o, IF o # "ok" \/ recheck \/ ends THEN "dug" ELSE step)
  BY <1>2
<1>4. recheck \in BOOLEAN /\ (recheck => Kind(b) = "stage")
  BY <1>2
<1> HIDE DEF brick, says, out, ends, last
<1>5. /\ r'.cur = b /\ r'.stage = r.stage /\ r'.timed = r.timed /\ r'.mine = r.mine
      /\ r'.progressed = r.progressed /\ r'.last = last /\ r'.broken = (o # "ok")
  BY <1>1, <1>3 DEF RunInv
<1>6. step' \in {"dig", "dug", "over"}
  BY <1>1, <1>3 DEF Then
<1>7. ASSUME Clean'
      PROVE  /\ Clean /\ step' \in {"dig", "dug"} /\ ~r'.broken
             /\ Kind(r.cur) \in {"ruin", "timed"} => chests' = chests
             /\ (Noticed \subseteq Noticed' /\ (chests' = chests \/ chests' = chests \cup (MadeReady(r.cur))'))
                \/ (RecheckAsked' /\ CityChests' = CityChests)
  <2>1. o = "ok" /\ Clean
    BY <1>1, <1>2, <1>7, SentWell DEF Clean
  <2>2. step' \in {"dig", "dug"} /\ ~r'.broken /\ (recheck => step' = "dug" /\ r'.last = "recheck")
    BY <1>1, <1>3, <1>4, <1>5, <2>1 DEF Then, last
  <2>3. Opened(b, brick)
    <3>1. Reached(o) = {TRUE}
      BY <2>1 DEF Reached
    <3> QED
      BY <1>2, <3>1
  <2>4. /\ server' = [server EXCEPT ![b].opened = server[b].opened \cup {brick},
                                    ![b].state = IF out THEN "can_get" ELSE @]
        /\ chests' = IF out /\ Kind(b) \in {"city", "stage"} THEN chests \cup {b} ELSE chests
    BY <2>3 DEF Opened, out
  <2>5. Noticed = r.mine
    BY <1>1 DEF Noticed, MadeReady
  <2>6. Noticed' = r.mine \cup (MadeReady(r.cur))'
    BY <1>5, <2>2 DEF Noticed
  <2>7. CASE recheck
    <3>1. RecheckAsked'
      BY <1>4, <1>5, <2>2, <2>7 DEF RecheckAsked, Kind, Fact
    <3>2. CityChests' = CityChests
      BY <1>4, <2>4, <2>7 DEF CityChests, OfKind
    <3> QED
      BY <1>4, <2>1, <2>2, <2>4, <2>7, <3>1, <3>2
  <2>8. CASE ~recheck
    <3>1. CASE out /\ Kind(b) \in {"city", "stage"}
      <4>1. server'[b].state = "can_get"
        BY <1>1, <2>4, <3>1 DEF CopiesInv
      <4>2. maps'[b].state = server'[b].state
        <5>1. maps'[b] = Noted(maps[b], brick, b)
          BY <1>1, <1>2, <2>1, <2>8 DEF CopiesInv
        <5>2. "state" \in DOMAIN maps[b]
          BY <1>1 DEF CopiesInv, CopyOf
        <5> QED
          BY <5>1, <5>2 DEF Noted
      <4>3. r'.last # "none"
        BY <1>5, <2>1, <2>8 DEF last
      <4>4. (MadeReady(r.cur))' = {b}
        BY <1>5, <2>2, <4>1, <4>2, <4>3 DEF MadeReady
      <4> QED
        BY <2>1, <2>2, <2>4, <2>5, <2>6, <3>1, <4>4
    <3>2. CASE ~(out /\ Kind(b) \in {"city", "stage"})
      BY <2>1, <2>2, <2>4, <2>5, <2>6, <3>2
    <3> QED
      BY <3>1, <3>2
  <2> QED
    BY <1>4, <2>7, <2>8
<1> QED
  BY <1>1, <1>5, <1>6, <1>7, DigGoesOn DEF ChestInv

-----------------------------------------------------------------------------
\* The track.
LEMMA TrackKeepsChests == ASSUME ChestInv, DigInv, TrackInfo \/ TrackChest \/ TrackOver PROVE ChestInv'
<1>1. /\ step \in {"track", "track_chest"} /\ UNCHANGED <<plan, chests, maps>> /\ RunInv
  BY DEF TrackInfo, TrackChest, TrackOver, Silent, Reads, boardVars, DigInv
<1>2. /\ r'.cur = r.cur /\ r'.stage = r.stage /\ r'.timed = r.timed /\ r'.turn = r.turn
      /\ r'.progressed = r.progressed
  BY <1>1 DEF TrackInfo, TrackChest, TrackOver, RunInv
<1>3. /\ claims' \in Nat
      /\ Clean' => /\ Clean /\ step' \in {"track_chest", "over"}
                   /\ step' = "track_chest" => r'.left = track'
                   /\ step' = "over" => track' = 0
  <2>1. CASE TrackInfo
    <3>1. step = "track" /\ claims' = claims /\ track' = track
      BY <2>1 DEF TrackInfo, Silent, Reads, boardVars
    <3>2. CASE plan.track = 0
      <4>1. step' = "over" /\ failed' = failed
        BY <2>1, <3>2 DEF TrackInfo, Silent
      <4> QED
        BY <3>1, <3>2, <4>1 DEF ChestInv, Clean, ClaimsInv, TrackInv
    <3>3. CASE plan.track # 0
      <4>1. PICK o \in Outcomes :
                 /\ Reads(o)
                 /\ r' = [r EXCEPT !.left = IF o = "ok" THEN track ELSE 0]
                 /\ Then(o, IF o = "ok" THEN "track_chest" ELSE "over")
        BY <2>1, <3>3 DEF TrackInfo
      <4>2. Clean' => Clean /\ o = "ok"
        BY <3>1, <4>1, SentWell DEF Reads, Clean
      <4>3. o = "ok" => step' = "track_chest" /\ r'.left = track
        BY <1>1, <4>1 DEF Then, RunInv
      <4> QED
        BY <3>1, <4>2, <4>3 DEF ChestInv
    <3> QED
      BY <3>2, <3>3
  <2>2. CASE TrackChest
    <3>1. PICK o \in ClaimOutcomes :
               /\ Claim(o) /\ r' = [r EXCEPT !.left = track'] /\ Then(o, IF o = "ok" THEN step ELSE "over")
      BY <2>2 DEF TrackChest
    <3>2. step = "track_chest" /\ r'.left = track'
      BY <1>1, <2>2, <3>1 DEF TrackChest, RunInv
    <3>3. claims' \in Nat /\ (Clean' => Clean /\ o = "ok")
      BY <3>1, ClaimedWell DEF ChestInv
    <3> QED
      BY <3>1, <3>2, <3>3 DEF Then
  <2>3. CASE TrackOver
    <3>1. step = "track_chest" /\ step' = "over" /\ r.left = 0 /\ UNCHANGED <<track, claims, failed>>
      BY <2>3 DEF TrackOver, Silent, boardVars
    <3> QED
      BY <3>1 DEF ChestInv, Clean, ClaimsInv, TrackInv
  <2> QED
    BY <2>1, <2>2, <2>3
<1> SUFFICES ASSUME Clean' PROVE ClaimsInv'
  BY <1>3 DEF ChestInv
<1>4. Clean /\ ClaimsInv /\ step' \in {"track_chest", "over"}
  BY <1>3 DEF ChestInv
<1>5. ~BeforeCity /\ ~AtCity /\ ~BeforeCity' /\ ~AtCity' /\ ~AtVault'
  BY <1>1, <1>4 DEF BeforeCity, AtCity, AtVault, Digging, Undug, OnTheWay
<1>6. VaultShut' = VaultShut
  BY <1>1, <1>2 DEF VaultShut, TimedActive, Known, Fact
<1>7. CityChestsInv' /\ StageChestsInv'
  BY <1>1, <1>2, <1>4, <1>5, <1>6 DEF ClaimsInv, CityChestsInv, StageChestsInv, CityChests, StageChests
<1>8. ProgressInv' /\ VaultInv' /\ TrackInv' /\ UnbrokenInv'
  BY <1>3, <1>4, <1>5 DEF ProgressInv, VaultInv, TrackInv, UnbrokenInv, Digging
<1> QED
  BY <1>7, <1>8 DEF ClaimsInv

LEMMA ChestInit == DigInit => ChestInv
<1> SUFFICES ASSUME DigInit PROVE ChestInv
  OBVIOUS
<1>1. step \in Undug /\ claims = 0 /\ chests = plan.chests /\ track = plan.track
  BY DEF DigInit, RadarInit, Undug
<1>2. BeforeCity /\ ~AtCity /\ ~AtVault
  BY <1>1 DEF BeforeCity, AtCity, AtVault, Digging, Undug
<1>3. CityChestsInv /\ StageChestsInv
  BY <1>1, <1>2 DEF CityChestsInv, StageChestsInv, Undug
<1>4. ProgressInv /\ VaultInv /\ TrackInv /\ UnbrokenInv
  BY <1>1, <1>2 DEF ProgressInv, VaultInv, TrackInv, UnbrokenInv, Digging, Undug
<1> QED
  BY <1>1, <1>3, <1>4 DEF ChestInv, ClaimsInv

LEMMA ChestNext == ChestInv /\ DigInv /\ [RunNext]_allVars => ChestInv'
<1> SUFFICES ASSUME ChestInv, DigInv, [RunNext]_allVars PROVE ChestInv'
  OBVIOUS
<1>1. CASE RadarStep
  BY <1>1, RadarKeepsChests
<1>2. CASE DigNext
  BY <1>2, RuinsKeepChests, RuinBoardKeepsChests, RuinChestKeepsChests, CityKeepsChests, CityBoardKeepsChests,
     CityDugKeepsChests, CityChestKeepsChests, CityOverKeepsChests, VaultKeepsChests, RoundKeepsChests,
     VaultChestKeepsChests, StartTimedKeepsChests, TimedEndsKeepsChests, DigTimedKeepsChests, LeaveVaultKeepsChests,
     StageKeepsChests, TimedDugKeepsChests, StageDugKeepsChests, TurnedKeepsChests, DigEndsKeepsChests,
     OpenBrickKeepsChests, TrackKeepsChests DEF DigNext
<1>3. CASE UNCHANGED allVars
  <2>1. UNCHANGED <<plan, chests, track, claims, failed, maps, r, step>>
    BY <1>3 DEF allVars, radarVars, digVars, boardVars, serverVars
  <2>2. /\ Clean' = Clean /\ BeforeCity' = BeforeCity /\ AtCity' = AtCity /\ AtVault' = AtVault
        /\ Noticed' = Noticed /\ RecheckAsked' = RecheckAsked /\ VaultShut' = VaultShut
    BY <2>1 DEF Clean, BeforeCity, AtCity, AtVault, Digging, Noticed, MadeReady, RecheckAsked, VaultShut, TimedActive,
       Known, Kind, Fact
  <2>3. CityChestsInv' = CityChestsInv /\ StageChestsInv' = StageChestsInv
    BY <2>1, <2>2 DEF CityChestsInv, StageChestsInv, CityChests, StageChests
  <2>4. ProgressInv' = ProgressInv /\ VaultInv' = VaultInv
    BY <2>1, <2>2 DEF ProgressInv, VaultInv, Digging, TimedActive, Kind, Fact
  <2>5. TrackInv' = TrackInv /\ UnbrokenInv' = UnbrokenInv
    BY <2>1 DEF TrackInv, UnbrokenInv
  <2> QED
    BY <2>1, <2>2, <2>3, <2>4, <2>5 DEF ChestInv, ClaimsInv
<1> QED
  BY <1>1, <1>2, <1>3 DEF RunNext, Over

TurnInv == r.turn \in Nat

LEMMA TurnInit == DigInit => TurnInv
BY DEF DigInit, TurnInv

LEMMA TurnNext == TurnInv /\ DigInv /\ [RunNext]_allVars => TurnInv'
<1> SUFFICES ASSUME TurnInv, RunInv, [RunNext]_allVars PROVE r'.turn \in Nat
  BY DEF TurnInv, DigInv
<1>1. CASE r' = r
  BY <1>1 DEF TurnInv
<1>2. CASE DigsBegin \/ RuinsInfo \/ Ruin \/ PlaceRuin \/ RuinDug \/ RuinHeld \/ RuinChest
  BY <1>2 DEF TurnInv, RunInv, DigsBegin, RuinsInfo, Ruin, PlaceRuin, RuinDug, RuinHeld, RuinChest, NextRuin
<1>3. CASE RuinBoard \/ CityBoard
  BY <1>3 DEF TurnInv, RunInv, RuinBoard, CityBoard, FreeHammers, StartDig, NextRuin
<1>4. CASE City \/ CityDug \/ CityChest \/ CityOver
  <2>1. r'.turn \in {r.turn, 0, r.turn + 1}
    <3>1. CASE City
      BY <3>1 DEF RunInv, City
    <3>2. CASE CityDug
      BY <3>2 DEF RunInv, CityDug
    <3>3. CASE CityChest
      BY <3>3 DEF RunInv, CityChest
    <3> QED
      BY <1>4, <3>1, <3>2, <3>3 DEF CityOver
  <2> QED
    BY <2>1 DEF TurnInv
<1>5. CASE Vault \/ Round \/ VaultChest \/ Turned
  <2>1. r'.turn \in {r.turn, 0, r.turn + 1}
    <3>1. CASE Vault
      BY <3>1 DEF RunInv, Vault, ReadVault
    <3>2. CASE Round
      BY <3>2 DEF RunInv, Round
    <3>3. CASE VaultChest
      BY <3>3 DEF RunInv, VaultChest
    <3>4. CASE Turned
      BY <3>4 DEF RunInv, Turned
    <3> QED
      BY <1>5, <3>1, <3>2, <3>3, <3>4
  <2> QED
    BY <2>1 DEF TurnInv
<1>6. CASE StartTimed \/ DigTimed \/ TimedChest \/ TimedFailed \/ LeaveVault \/ Stage
  BY <1>6 DEF TurnInv, RunInv, StartTimed, DigTimed, TimedChest, TimedFailed, LeaveVault, Stage, StartDig
<1>7. CASE TimedDug \/ StageDug \/ DigEnds \/ OpenBrick
  BY <1>7 DEF TurnInv, RunInv, TimedDug, StageDug, DigEnds, OpenBrick
<1>8. CASE TrackInfo \/ TrackChest \/ TrackOver
  BY <1>8 DEF TurnInv, RunInv, TrackInfo, TrackChest, TrackOver
<1> QED
  BY <1>1, <1>2, <1>3, <1>4, <1>5, <1>6, <1>7, <1>8 DEF RunNext, DigNext, Over, RadarStep, digVars, allVars

\* A run without a fault leaves no chest of the city, of the vault or of its track
\* that was ready or that its own bricks made ready, unless its claims or its
\* rounds are used up or a board ends its visit to the vault.
THEOREM NoChestIsLeft == DigSpec => []NoChestLeft
<1>1. ChestInv /\ TurnInv => NoChestLeft
  <2> SUFFICES ASSUME ChestInv, TurnInv, step = "over", ~failed, claims < MaxClaims, r.turn < MaxDigRounds
               PROVE  /\ OfKind(chests, {"city"}) = {} /\ track = 0
                      /\ OfKind(chests, {"stage"}) # {} => VaultShut
    BY DEF NoChestLeft
  <2>1. ClaimsInv /\ ~BeforeCity /\ ~AtCity
    BY DEF ChestInv, Clean, BeforeCity, AtCity, Digging, Undug, OnTheWay
  <2> QED
    BY <2>1, DigAssumption DEF ClaimsInv, CityChestsInv, StageChestsInv, TrackInv, CityChests, StageChests, TurnInv
<1> QED
  BY <1>1, TurnInit, TurnNext, ChestInit, ChestNext, DigInitInv, DigNextInv, PTL DEF DigSpec

=============================================================================
