------------------------------ MODULE SpendRun ------------------------------
(***************************************************************************)
(* The features that spend what the account owns, as one -collect run      *)
(* after another executes them (src/internal/game/features.go), and the    *)
(* diamond tripwire that is to stop them (tripwire.go): each of them sends *)
(* requests that should cost items only, reads the diamond balance where a *)
(* message carries it, and trips when the balance has fallen.              *)
(*                                                                         *)
(* Items of any kind (tickets, speed-up items, iron, hammers, pickaxes)    *)
(* are counts.  What a feature reads or claims for free is left out unless *)
(* it can trip the tripwire or end the run; so are the features that spend *)
(* nothing.                                                                *)
(***************************************************************************)
EXTENDS Integers, Sequences

CONSTANTS
    NoGold,         \* a balance that is not known
    MaxGold,        \* bound: the diamond balance
    MaxHeld,        \* bound: items held of one kind
    MaxJobs,        \* bound: pools, jobs, camps, tasks and boards of a feature
    MaxCalls,       \* the cap on a feature's requests (200, 100, 2, 150 in the code)
    Ten,            \* pulls in a ten pull (10 in the code)
    HeroPools,      \* the hero pools there may be: their ticket costs, free pull due
    UnitCosts,      \* iron per unit a camp trains
    CostRates,      \* the training cost rates, in basis points
    MaxRoom         \* bound: room in the soldier stock

ASSUME BoundsAssumption ==
    /\ {MaxGold, MaxHeld, MaxJobs, MaxCalls, Ten, MaxRoom} \subseteq Nat \ {0}
    /\ NoGold \notin 0 .. MaxGold

\* A pool: tickets for one pull and for ten (0: none), whether its free pull is
\* due, and whether it is the survivors' pool.
Pool == [single : Nat \ {0}, ten : Nat, freeDue : BOOLEAN, survivors : BOOLEAN]

ASSUME PoolsAssumption ==
    HeroPools # {} /\ \A p \in HeroPools : p \in Pool /\ ~p.survivors

ASSUME CostsAssumption == UnitCosts \cup CostRates \subseteq Nat \ {0}

VARIABLES
    path,       \* there is a session config, so a tripwire file has a path
    file,       \* the tripwire file exists
    trip,       \* the process's own flags: duelSpendHalted, duelSpeedupsTrip, digsTrip
    pos, pc,    \* the feature that is running and where it stands
    dead,       \* a request has failed with a dead-connection error
    day,        \* the duel day of the cached event info
    gold,       \* the account's diamonds, on the server
    initGold,   \* user.gold of the init push
    base,       \* the balance the feature compares with
    probe,      \* the guard's gold check carries a balance
    barred,     \* the feature may spend no more: it has tripped, or (treasure-digs)
                \* it found the file when it began
    left,       \* pools, jobs, camps, tasks or boards still to do
    pool,       \* the recruit pool in hand
    ledger,     \* items the feature counts as its own
    room,       \* room left in the soldier stock
    calls,      \* requests so far
    after,      \* the lowest balance read since a secret task's start
    \* what has happened, for the properties
    held, used, \* items the account had for this; items it was asked for
    saw         \* the flags whose features have seen a drop in this process

fileVars == <<path, file>>
goldVars == <<base, barred, trip, file, saw>>
workVars == <<probe, left, pool, ledger, room, calls, after, held, used>>
runVars == <<path, dead, day, gold, initGold>>
vars == <<path, file, trip, pos, pc, dead, day, gold, initGold, base, probe, barred,
          left, pool, ledger, room, calls, after, held, used, saw>>

\* The features that spend, and one of the vault games (which send free writes
\* only, but compare balances too), in (phase, name) order: all are actions.
RunOrder == <<"duel-recruit-tickets", "duel-speedups", "duel-troop-training",
              "season-dig", "secret-tasks-start", "treasure-digs", "treasure-hunt">>

Guarded == {"duel-recruit-tickets", "duel-troop-training"}
DigGames == {"season-dig", "treasure-hunt"}

Golds == 0 .. MaxGold
Flags == {"duel", "speedups", "digs"}
NoPool == [single |-> 1, ten |-> 0, freeDue |-> TRUE, survivors |-> TRUE]

\* Where a feature stands: about to run, between requests, or waiting for a
\* reply ("spend" is the request that spends, the others are reads and claims).
Waits == {"spend", "probe", "check", "info", "list", "place", "relist", "claim"}
Steps == {"idle", "duel", "enter", "loop"} \cup Waits

Lesser(a, b) == IF a < b THEN a ELSE b

Feature == IF pos = 0 THEN "none" ELSE RunOrder[pos]
At(f, step) == Feature = f /\ pc = step
Goto(step) == pc' = step /\ UNCHANGED pos

ClearWork ==
    /\ probe' = FALSE
    /\ left' = 0
    /\ pool' = NoPool
    /\ ledger' = 0
    /\ room' = 0
    /\ calls' = 0
    /\ after' = NoGold
    /\ held' = 0
    /\ used' = 0

Stop == pos' = 0 /\ pc' = "idle"

\* RunFeatures: the feature's error breaks the loop when it holds a
\* dead-connection error.
NextFeature(err) ==
    IF err = "dead" \/ pos = Len(RunOrder) THEN Stop ELSE pos' = pos + 1 /\ pc' = "enter"

\* The feature returns.
Return(err) == NextFeature(err) /\ ClearWork

-----------------------------------------------------------------------------
(* The tripwire. *)

\* tripwireTrip: nothing without a path, and a failed write is only logged.
FilesAfterTrip == {file} \cup (IF path THEN {TRUE} ELSE {})

Trip(flag) ==
    /\ trip' = [trip EXCEPT ![flag] = TRUE]
    /\ saw' = saw \cup {flag}
    /\ file' \in FilesAfterTrip

\* A balance that was read is below another one.
Below(g, b) == g # NoGold /\ b # NoGold /\ g < b

\* A balance in a reply, or none, and the baseline after it.
Carried == {gold, NoGold}
BaseAfter(g) == IF g = NoGold THEN base ELSE g

\* duelSpendGuard.seeGold: a higher balance raises the baseline, a lower one
\* trips, and once barred nothing changes it.
SeeGold(n) ==
    \/ /\ n > base /\ ~barred
       /\ base' = n
       /\ UNCHANGED <<barred, trip, file, saw>>
    \/ /\ n < base /\ ~barred
       /\ barred' = TRUE
       /\ Trip("duel")
       /\ UNCHANGED base
    \/ /\ n = base \/ barred
       /\ UNCHANGED goldVars

\* A variant that knows of this process's trips only.
RefusedByFlag ==
    \/ trip.duel /\ Feature \in Guarded
    \/ trip.speedups /\ Feature = "duel-speedups"

\* A variant that relies on the file.
RefusedByFile == file

\* tripwireErr, and the flags that duelSpendHaltedErr and duel-speedups read.
Refused ==
    \/ file
    \/ trip.duel /\ Feature \in Guarded
    \/ trip.speedups /\ Feature = "duel-speedups"

-----------------------------------------------------------------------------
(* A run: login, the duel's event info, then the features in order. *)

StartRun ==
    /\ pc = "idle"
    /\ pc' = "duel" /\ pos' = 0
    /\ initGold' \in {gold, NoGold}
    /\ trip' = [f \in Flags |-> FALSE]
    /\ dead' = FALSE
    /\ base' = NoGold
    /\ barred' = FALSE
    /\ saw' = {}
    /\ UNCHANGED <<fileVars, day, gold, workVars>>

\* LogDuelStatus: TodayDuel answers every error with no duel day, and its
\* cached reply is what the features' own TodayDuel reads.
LogDuelStatus ==
    /\ pc = "duel"
    /\ pos' = 1 /\ pc' = "enter"
    /\ \/ day' \in {"running", "ending", "none"} /\ UNCHANGED dead
       \/ day' = "none" /\ dead' = TRUE
    /\ UNCHANGED <<path, gold, initGold, goldVars, workVars>>

\* The feature is off, held, has nothing to do, or refuses.
Skip ==
    /\ pc = "enter"
    /\ Return("none")
    /\ UNCHANGED <<path, dead, day, gold, initGold, goldVars>>

\* A request fails with a dead connection: every feature gives up and returns
\* that error (but see SecretRelistFails).
Breaks ==
    /\ pc \in Waits
    /\ ~(pc = "relist" /\ Below(after, base))
    /\ dead' = TRUE
    /\ Return("dead")
    /\ UNCHANGED <<path, day, gold, initGold, goldVars>>

\* The environment: rewards and charges, the duel day's end (its last two
\* minutes first), the process killed, the operator's -clear-tripwire.
GoldMoves ==
    /\ gold' \in Golds
    /\ UNCHANGED <<fileVars, trip, pos, pc, dead, day, initGold, base, barred, saw, workVars>>

DayEnds ==
    /\ day \in {"running", "ending"}
    /\ day' = IF day = "running" THEN "ending" ELSE "none"
    /\ UNCHANGED <<path, pos, pc, dead, gold, initGold, goldVars, workVars>>

Killed ==
    /\ pc # "idle"
    /\ Stop
    /\ ClearWork
    /\ UNCHANGED <<path, dead, day, gold, initGold, goldVars>>

ClearTripwire ==
    /\ file
    /\ file' = FALSE
    /\ UNCHANGED <<path, trip, pos, pc, dead, day, gold, initGold, base, barred, saw, workVars>>

-----------------------------------------------------------------------------
(* duelSpendGuard: duel-recruit-tickets and duel-troop-training. *)

GuardMayStart == ~Refused /\ day # "none" /\ initGold # NoGold /\ ~dead

\* newDuelSpendGuard arms the tripwire and sends the gold check.
ArmGuard ==
    /\ base' = initGold
    /\ barred' = FALSE
    /\ Goto("probe")
    /\ probe' = FALSE
    /\ UNCHANGED <<runVars, file, trip, saw, calls, after, used>>

\* While any reply is awaited, observe reads the balances and counts of every
\* message: pushes, and the reply itself before the wait returns.
ReadsGold ==
    /\ Feature \in Guarded
    /\ pc \in Waits
    /\ SeeGold(gold)
    /\ UNCHANGED <<runVars, pos, pc, workVars>>

ReadsCount ==
    /\ Feature \in Guarded
    /\ pc \in Waits
    /\ ledger > 0
    /\ ledger' \in 0 .. ledger - 1
    /\ UNCHANGED <<runVars, pos, pc, goldVars, probe, left, pool, room, calls, after, held, used>>

\* The gold check before the first spend; without a balance in it (or without
\* any answer) the feature goes on, unless what it read has barred it.
ProbeAnswered ==
    /\ pc = "probe" /\ ~dead
    /\ IF barred
       THEN Return("barred")
       ELSE /\ probe' \in BOOLEAN
            /\ Goto("loop")
            /\ UNCHANGED <<left, pool, ledger, room, calls, after, held, used>>
    /\ UNCHANGED <<runVars, goldVars>>

\* spend refuses once the tripwire has fired.
GuardRefuses == barred \/ Refused

\* A spend that was accepted, with nothing barred meanwhile: the balance is
\* checked again when the first check carried one.
SpendAccepted ==
    /\ pc = "spend" /\ Feature \in Guarded
    /\ ~dead /\ ~barred
    /\ Goto(IF probe THEN "check" ELSE "loop")
    /\ UNCHANGED <<runVars, goldVars, workVars>>

CheckAnswered ==
    /\ pc = "check" /\ ~dead
    /\ \/ ~barred /\ Goto("loop") /\ UNCHANGED workVars
       \/ Return("failed")      \* no reply, no balance in it, or barred
    /\ UNCHANGED <<runVars, goldVars>>

-----------------------------------------------------------------------------
(* duel-recruit-tickets. *)

\* A variant that makes a ten pull whenever ten tickets are held.
PullCostOfTen(p, have) ==
    IF p.ten > 0 /\ have >= Ten THEN p.ten
    ELSE IF have < p.single \/ p.freeDue THEN 0 ELSE p.single

\* The tickets the next pull costs: ten at a time while they last, single
\* pulls unless the pool's free pull is due, 0 when neither can be made.
PullCost(p, have) ==
    IF p.ten > 0 /\ have >= Ten /\ have >= p.ten THEN p.ten
    ELSE IF have < p.single \/ p.freeDue THEN 0 ELSE p.single

CanPull == calls < MaxCalls /\ day # "none"

\* A hero pool and the tickets held for it (one pool per ticket).
TakeHeroPool ==
    \E p \in HeroPools, h \in 1 .. MaxHeld :
        /\ h >= p.single
        /\ pool' = p
        /\ ledger' = h
        /\ held' = h
        /\ used' = 0

SurvivorPool(free) == [single |-> 1, ten |-> Ten, freeDue |-> free, survivors |-> TRUE]

\* The survivors' pool; whether its free draw is due is asked first.
TakeSurvivors ==
    \E h \in 1 .. MaxHeld, free \in BOOLEAN :
        /\ pool' = SurvivorPool(free)
        /\ ledger' = h
        /\ held' = h
        /\ used' = 0

RecruitEnter ==
    /\ At("duel-recruit-tickets", "enter")
    /\ GuardMayStart
    /\ left' \in 0 .. MaxJobs - 1
    /\ TakeHeroPool
    /\ ArmGuard
    /\ UNCHANGED <<room>>

\* The next hero pool, then the survivors, then the end.
NextPool ==
    \/ /\ left > 0 /\ ~pool.survivors
       /\ left' = left - 1
       /\ TakeHeroPool
       /\ Goto("loop")
       /\ UNCHANGED <<probe, room, calls, after>>
    \/ /\ ~pool.survivors
       /\ left' = 0
       /\ TakeSurvivors
       /\ Goto("info")
       /\ UNCHANGED <<probe, room, calls, after>>
    \/ Return("none")

RecruitInfo ==
    /\ At("duel-recruit-tickets", "info") /\ ~dead
    /\ \/ ~barred /\ Goto("loop") /\ UNCHANGED workVars
       \/ Return("failed")
    /\ UNCHANGED <<runVars, goldVars>>

\* A pull: its tickets leave the ledger before it is sent.
RecruitPull ==
    LET cost == PullCost(pool, ledger)
    IN  /\ At("duel-recruit-tickets", "loop")
        /\ CanPull /\ cost > 0 /\ ~GuardRefuses
        /\ ledger' = ledger - cost
        /\ used' = used + cost
        /\ calls' = calls + 1
        /\ Goto("spend")
        /\ UNCHANGED <<runVars, goldVars, probe, left, pool, room, after, held>>

RecruitPoolDone ==
    /\ At("duel-recruit-tickets", "loop")
    /\ IF GuardRefuses THEN Return("failed")
       ELSE ~(CanPull /\ PullCost(pool, ledger) > 0) /\ NextPool
    /\ UNCHANGED <<runVars, goldVars>>

\* No reply, an error code, or a balance that fell: this pool is given up, and
\* the whole feature once the tripwire has fired (duelSpendStop).
RecruitFails ==
    /\ At("duel-recruit-tickets", "spend") /\ ~dead
    /\ IF trip.duel \/ pool.survivors THEN Return("failed") ELSE NextPool
    /\ UNCHANGED <<runVars, goldVars>>

-----------------------------------------------------------------------------
(* duel-troop-training. *)

Basis == 10000

\* duelTrainCost: what the server charges for n units, rounded up.
TrainCost(n, perUnit, rate) == (n * perUnit * rate + Basis - 1) \div Basis

\* duelTrainAffordable: the largest n whose cost is at most have.
TrainAffordable(have, perUnit, rate) == (have * Basis) \div (perUnit * rate)

TrainEnter ==
    /\ At("duel-troop-training", "enter")
    /\ GuardMayStart
    /\ left' \in 1 .. MaxJobs
    /\ ledger' \in 0 .. MaxHeld
    /\ held' = ledger'
    /\ room' \in 1 .. MaxRoom
    /\ ArmGuard
    /\ UNCHANGED pool

\* The next camp trains as many units as it can hold, as there is room for and
\* as the iron pays for; iron and room leave the ledgers before it is sent.
TrainCamp ==
    /\ At("duel-troop-training", "loop")
    /\ day # "none" /\ left > 0 /\ room > 0
    /\ left' = left - 1
    /\ \E unit \in UnitCosts, rate \in CostRates, most \in 0 .. MaxRoom :
           LET n == Lesser(Lesser(most, room), TrainAffordable(ledger, unit, rate))
               cost == TrainCost(n, unit, rate)
           IN  \/ /\ n = 0 \/ cost > ledger
                  /\ UNCHANGED <<pos, pc, ledger, room, used>>
               \/ /\ n > 0 /\ cost <= ledger /\ ~GuardRefuses
                  /\ ledger' = ledger - cost
                  /\ used' = used + cost
                  /\ room' = room - n
                  /\ Goto("spend")
    /\ UNCHANGED <<runVars, goldVars, probe, pool, calls, after, held>>

TrainDone ==
    /\ At("duel-troop-training", "loop")
    /\ day = "none" \/ left = 0 \/ room = 0 \/ GuardRefuses
    /\ Return("none")
    /\ UNCHANGED <<runVars, goldVars>>

\* Any failure ends the feature, as does a reply of the instant-finish path.
TrainFails ==
    /\ At("duel-troop-training", "spend") /\ ~dead
    /\ Return("failed")
    /\ UNCHANGED <<runVars, goldVars>>

-----------------------------------------------------------------------------
(* duel-speedups. *)

SpeedupsEnter ==
    /\ At("duel-speedups", "enter")
    /\ ~Refused /\ day # "none" /\ initGold # NoGold /\ ~dead
    /\ base' = initGold
    /\ barred' = FALSE
    /\ left' \in 1 .. MaxJobs
    /\ held' \in 1 .. MaxHeld
    /\ ledger' = held'
    /\ Goto("loop")
    /\ UNCHANGED <<runVars, file, trip, saw, probe, pool, room, calls, after, used>>

\* apply: one or more items onto the job in hand, until the call cap or the
\* last minutes of the duel day.
SpeedupsApply ==
    /\ At("duel-speedups", "loop")
    /\ left > 0 /\ calls < MaxCalls /\ day = "running"
    /\ calls' = calls + 1
    /\ \E n \in 1 .. ledger : used' = used + n
    /\ Goto("spend")
    /\ UNCHANGED <<runVars, goldVars, probe, left, pool, ledger, room, after, held>>

\* No item suits the job, or the run halts.
SpeedupsNextJob ==
    /\ At("duel-speedups", "loop")
    /\ \/ /\ left > 0
          /\ left' = left - 1
          /\ UNCHANGED <<pos, pc, probe, pool, ledger, room, calls, after, held, used>>
       \/ /\ left = 0 \/ ledger = 0 \/ calls = MaxCalls \/ day # "running"
          /\ Return("none")
    /\ UNCHANGED <<runVars, goldVars>>

\* A reply: an error code ends the job; otherwise the balance it carries is
\* compared, then the items leave the ledger and the job goes on or is done.
SpeedupsReply ==
    LET spent == used - (held - ledger)
    IN  /\ At("duel-speedups", "spend") /\ ~dead
        /\ \/ /\ left' = left - 1
              /\ used' = used - spent
              /\ Goto("loop")
              /\ UNCHANGED <<goldVars, probe, pool, ledger, room, calls, after, held>>
           \/ \E g \in Carried :
                 /\ ~Below(g, base)
                 /\ base' = BaseAfter(g)
                 /\ ledger' = ledger - spent
                 /\ left' \in {left, left - 1}
                 /\ Goto("loop")
                 /\ UNCHANGED <<file, barred, trip, saw, probe, pool, room, calls, after,
                                held, used>>
        /\ UNCHANGED runVars

\* A reply whose balance fell trips and persists; one of the wrong shape stops
\* this process only; without a reply the run is halted.
SpeedupsHalts ==
    /\ At("duel-speedups", "spend") /\ ~dead
    /\ \/ Below(gold, base) /\ barred' = TRUE /\ Trip("speedups")
       \/ /\ trip' = [trip EXCEPT !.speedups = TRUE]
          /\ UNCHANGED <<barred, file, saw>>
       \/ UNCHANGED <<barred, trip, file, saw>>
    /\ Return("failed")
    /\ UNCHANGED <<runVars, base>>

-----------------------------------------------------------------------------
(* secret-tasks-start. *)

SecretEnter ==
    /\ At("secret-tasks-start", "enter")
    /\ ~Refused
    /\ left' \in 1 .. MaxJobs
    /\ Goto("list")
    /\ UNCHANGED <<runVars, goldVars, probe, pool, ledger, room, calls, after, held, used>>

\* The balance is the list's, else that of init; without either, or without a
\* list, nothing is started.
SecretListed ==
    /\ At("secret-tasks-start", "list") /\ ~dead
    /\ \/ \E g \in Carried :
             LET known == IF g # NoGold THEN g ELSE initGold
             IN  /\ known # NoGold
                 /\ base' = known
                 /\ barred' = FALSE
                 /\ Goto("loop")
                 /\ UNCHANGED workVars
       \/ Return("failed") /\ UNCHANGED <<base, barred>>
    /\ UNCHANGED <<runVars, file, trip, saw>>

\* The next task: skipped, or put on the map first, or started.
SecretNext ==
    /\ At("secret-tasks-start", "loop")
    /\ \/ /\ left > 0
          /\ left' = left - 1
          /\ UNCHANGED <<pos, pc, calls, after, probe, pool, ledger, room, held, used>>
       \/ /\ left > 0 /\ calls < MaxCalls
          /\ Goto("place")
          /\ UNCHANGED workVars
       \/ left = 0 /\ Return("none")
    /\ UNCHANGED <<runVars, goldVars>>

SecretStart ==
    /\ \/ At("secret-tasks-start", "loop") /\ left > 0 /\ calls < MaxCalls
       \/ At("secret-tasks-start", "place") /\ ~dead
    /\ left' = left - 1
    /\ calls' = calls + 1
    /\ after' = NoGold
    /\ Goto("spend")
    /\ UNCHANGED <<runVars, goldVars, probe, pool, ledger, room, held, used>>

SecretNotPlaced ==
    /\ At("secret-tasks-start", "place") /\ ~dead
    /\ left' = left - 1
    /\ Goto("loop")
    /\ UNCHANGED <<runVars, goldVars, probe, pool, ledger, room, calls, after, held, used>>

\* After a start, answered or not, the list is read again.
SecretStarted ==
    /\ At("secret-tasks-start", "spend") /\ ~dead
    /\ after' \in Carried
    /\ Goto("relist")
    /\ UNCHANGED <<runVars, goldVars, probe, left, pool, ledger, room, calls, held, used>>

\* The lower of the balances in the two replies counts.
Lower(a, b) == IF a = NoGold THEN b ELSE IF b = NoGold THEN a ELSE Lesser(a, b)

SecretRelisted ==
    /\ At("secret-tasks-start", "relist") /\ ~dead
    /\ \E g \in Carried :
          LET low == Lower(after, g)
          IN  \/ /\ Below(low, base)
                 /\ barred' = TRUE
                 /\ saw' = saw \cup {"tasks"}
                 /\ file' \in FilesAfterTrip
                 /\ Return("failed")
                 /\ UNCHANGED <<base, trip>>
              \/ /\ ~Below(low, base)
                 /\ base' = BaseAfter(low)
                 /\ Goto("loop")
                 /\ after' = NoGold
                 /\ UNCHANGED <<barred, trip, file, saw, probe, left, pool, ledger, room,
                                calls, held, used>>
    /\ UNCHANGED runVars

\* No list: a balance that fell in the start's reply still trips, and then the
\* error returned is that one alone, even if the connection is dead.
SecretRelistFails ==
    /\ At("secret-tasks-start", "relist") /\ ~dead
    /\ \/ /\ Below(after, base)
          /\ barred' = TRUE
          /\ saw' = saw \cup {"tasks"}
          /\ file' \in FilesAfterTrip
          /\ dead' \in BOOLEAN
          /\ UNCHANGED <<base, trip>>
       \/ ~Below(after, base) /\ UNCHANGED <<dead, goldVars>>
    /\ Return("failed")
    /\ UNCHANGED <<path, day, gold, initGold>>

-----------------------------------------------------------------------------
(* treasure-digs: bricks opened with owned hammers, no tripwire of its own. *)

\* The first read; the file is looked at before it (spendRefused).
DigsEnter ==
    /\ At("treasure-digs", "enter")
    /\ left' \in 1 .. MaxJobs
    /\ held' \in 0 .. MaxHeld
    /\ ledger' = held'
    /\ barred' = file
    /\ Goto("list")
    /\ UNCHANGED <<runVars, base, trip, file, saw, probe, pool, room, calls, after, used>>

\* A variant that does not count the claims.
DigsClaimUncounted ==
    /\ At("treasure-digs", "loop")
    /\ left > 0 /\ calls < MaxCalls
    /\ Goto("claim")
    /\ UNCHANGED <<runVars, goldVars, workVars>>

\* A board's claims: none is sent past the cap.
DigsClaim ==
    /\ At("treasure-digs", "loop")
    /\ left > 0 /\ calls < MaxCalls
    /\ calls' = calls + 1
    /\ Goto("claim")
    /\ UNCHANGED <<runVars, goldVars, probe, left, pool, ledger, room, after, held, used>>

\* What a claim grants raises the ledger, by the gain or to the server's own
\* total.
DigsClaimed ==
    /\ At("treasure-digs", "claim") /\ ~dead
    /\ \E gain \in 0 .. MaxHeld - held :
           /\ held' = held + gain
           /\ ledger' \in ledger + gain .. held'
           /\ used' = held' - ledger'
    /\ Goto("loop")
    /\ UNCHANGED <<runVars, goldVars, probe, left, pool, room, calls, after>>

\* A brick: its hammer leaves the ledger before it is sent.
DigsOpen ==
    /\ At("treasure-digs", "loop")
    /\ ~barred /\ left > 0 /\ calls < MaxCalls /\ ledger > 0
    /\ ledger' = ledger - 1
    /\ used' = used + 1
    /\ calls' = calls + 1
    /\ Goto("spend")
    /\ UNCHANGED <<runVars, goldVars, probe, left, pool, room, after, held>>

\* The brick's answer; the board goes on, or is done or left alone.
DigsOpened ==
    /\ At("treasure-digs", "spend") /\ ~dead
    /\ left' \in {left, left - 1}
    /\ Goto("loop")
    /\ UNCHANGED <<runVars, goldVars, probe, pool, ledger, room, calls, after, held, used>>

DigsNextBoard ==
    /\ At("treasure-digs", "loop")
    /\ \/ /\ left > 0
          /\ left' = left - 1
          /\ UNCHANGED <<pos, pc, probe, pool, ledger, room, calls, after, held, used>>
       \/ left = 0 /\ Return("none")
    /\ UNCHANGED <<runVars, goldVars>>

DigsListed ==
    /\ At("treasure-digs", "list") /\ ~dead
    /\ Goto("loop")
    /\ UNCHANGED <<runVars, goldVars, workVars>>

-----------------------------------------------------------------------------
(* The digsRun games: treasure-hunt, and season-dig for the vault games.   *)

DigGameEnter ==
    /\ Feature \in DigGames /\ pc = "enter"
    /\ base' = initGold
    /\ barred' = FALSE
    /\ held' \in 0 .. MaxHeld
    /\ ledger' = held'
    /\ Goto("list")
    /\ UNCHANGED <<runVars, file, trip, saw, probe, left, pool, room, calls, after, used>>

\* checkGold: a balance below the last one trips, any other becomes the base.
CheckGold(g) ==
    \/ /\ Below(g, base)
       /\ barred' = TRUE
       /\ Trip("digs")
       /\ UNCHANGED base
    \/ /\ ~Below(g, base)
       /\ base' = BaseAfter(g)
       /\ UNCHANGED <<barred, trip, file, saw>>

\* The info, a free write (a choice, a claim, a vault open) or a dig is
\* answered; a drop halts the feature.
DigGameAnswered ==
    /\ Feature \in DigGames /\ pc \in {"list", "claim", "spend"} /\ ~dead
    /\ \E g \in Carried : CheckGold(g)
    /\ IF barred'
       THEN Return("failed")
       ELSE /\ ledger' = IF pc = "spend" THEN ledger - 1 ELSE ledger
            /\ \/ Goto("loop")
               \/ pc # "list" /\ Goto("list")
            /\ UNCHANGED <<probe, left, pool, room, calls, after, held, used>>
    /\ UNCHANGED runVars

\* An error code: a dig it refuses took no pickaxe (and, when there is none
\* left, ends the digging).
DigGameRefused ==
    /\ Feature \in DigGames /\ pc \in {"claim", "spend"} /\ ~dead
    /\ IF pc = "spend" THEN used' = used - 1 /\ ledger' \in {0, ledger} ELSE UNCHANGED <<used, ledger>>
    /\ Goto("loop")
    /\ UNCHANGED <<runVars, goldVars, probe, left, pool, room, calls, after, held>>

\* No reply: the feature halts.
DigGameUnanswered ==
    /\ Feature \in DigGames /\ pc \in {"list", "claim", "spend"} /\ ~dead
    /\ Return("failed")
    /\ UNCHANGED <<runVars, goldVars>>

\* write: refused for good once a dig game has tripped in this process; a dig
\* (the one write that spends) also while the file exists.
DigGameWrite ==
    /\ Feature \in DigGames /\ pc = "loop"
    /\ calls < MaxCalls /\ ~trip.digs
    /\ calls' = calls + 1
    /\ \/ Goto("claim") /\ UNCHANGED used
       \/ /\ Feature = "treasure-hunt" /\ ledger > 0 /\ ~file
          /\ used' = used + 1
          /\ Goto("spend")
    /\ UNCHANGED <<runVars, goldVars, probe, left, pool, ledger, room, after, held>>

DigGameDone ==
    /\ Feature \in DigGames /\ pc = "loop"
    /\ Return("none")
    /\ UNCHANGED <<runVars, goldVars>>

-----------------------------------------------------------------------------

Init ==
    /\ path \in BOOLEAN
    /\ file = FALSE
    /\ trip = [f \in Flags |-> FALSE]
    /\ pos = 0 /\ pc = "idle"
    /\ dead = FALSE
    /\ day = "none"
    /\ gold \in Golds
    /\ initGold = NoGold /\ base = NoGold /\ barred = FALSE
    /\ probe = FALSE /\ left = 0 /\ pool = NoPool /\ ledger = 0 /\ room = 0
    /\ calls = 0 /\ after = NoGold /\ held = 0 /\ used = 0
    /\ saw = {}

Guard == ProbeAnswered \/ SpendAccepted \/ CheckAnswered

Recruit ==
    \/ RecruitEnter \/ RecruitInfo \/ RecruitPull \/ RecruitPoolDone \/ RecruitFails

Train == TrainEnter \/ TrainCamp \/ TrainDone \/ TrainFails

Speedups ==
    SpeedupsEnter \/ SpeedupsApply \/ SpeedupsNextJob \/ SpeedupsReply \/ SpeedupsHalts

Secret ==
    \/ SecretEnter \/ SecretListed \/ SecretNext \/ SecretStart \/ SecretNotPlaced
    \/ SecretStarted \/ SecretRelisted \/ SecretRelistFails

Digs ==
    \/ DigsEnter \/ DigsListed \/ DigsClaim \/ DigsClaimed \/ DigsOpen \/ DigsOpened
    \/ DigsNextBoard

DigGame ==
    \/ DigGameEnter \/ DigGameAnswered \/ DigGameRefused \/ DigGameUnanswered
    \/ DigGameWrite \/ DigGameDone

\* What the run itself does, replies and the end of waits included.
Runs ==
    \/ LogDuelStatus \/ Skip \/ Breaks
    \/ Guard \/ Recruit \/ Train \/ Speedups \/ Secret \/ Digs \/ DigGame

Next ==
    \/ Runs
    \/ StartRun \/ Killed \/ ReadsGold \/ ReadsCount
    \/ GoldMoves \/ DayEnds \/ ClearTripwire

SafeSpec == Init /\ [][Next]_vars

\* Every wait ends, by a reply, an error or its timeout, and the client is
\* never stuck between two requests.
Fairness == WF_vars(Runs)

Spec == SafeSpec /\ Fairness

-----------------------------------------------------------------------------
(* Properties. *)

GoldOrNone == Golds \cup {NoGold}

\* Types.
TypeOK ==
    /\ path \in BOOLEAN /\ file \in BOOLEAN
    /\ trip \in [Flags -> BOOLEAN]
    /\ pos \in 0 .. Len(RunOrder) /\ pc \in Steps
    /\ dead \in BOOLEAN
    /\ day \in {"running", "ending", "none"}
    /\ gold \in Golds
    /\ {initGold, base, after} \subseteq GoldOrNone
    /\ probe \in BOOLEAN /\ barred \in BOOLEAN
    /\ pool \in Pool
    /\ {left, ledger, room, calls, held, used} \subseteq Nat
    /\ saw \subseteq Flags \cup {"tasks"}

\* A request that spends goes out in this step.
Spends == pc # "spend" /\ pc' = "spend"

\* While the tripwire file exists no spend request is sent, by the run that
\* wrote it or by a later one (tripwire.go: "nothing spends again until a
\* person has looked"): some features look at the file before every spend,
\* some once when they begin.
FileStopsSpends == [][Spends => ~file]_vars

\* A feature that has seen the balance fall spends no more in that process,
\* nor do those that share its flag, written file or not and whatever the
\* operator clears meanwhile.
Flag(f) ==
    CASE f \in Guarded -> "duel"
      [] f = "duel-speedups" -> "speedups"
      [] f \in DigGames -> "digs"
      [] f = "secret-tasks-start" -> "tasks"
      [] OTHER -> "none"

SeenDropStopsItsOwn == [][Spends => Flag(Feature) \notin saw]_vars

\* No feature asks for more items than the account held when it began, plus
\* what it was granted: not with lost replies, refused requests or pushed
\* counts, since the server may fill what is missing with diamonds.
WithinHeld == used <= held

\* Every run ends: no loop over pools, jobs, camps, tasks, boards or cards goes
\* on for ever.
RunEnds == (pc # "idle") ~> (pc = "idle")
=============================================================================
