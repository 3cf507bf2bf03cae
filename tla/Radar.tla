------------------------------- MODULE Radar -------------------------------
(***************************************************************************)
(* The two radar features of a run, in the order they run: radar-claims    *)
(* (src/internal/game/feature_radar_claims.go), which claims what waits    *)
(* finished, and radar-execute (feature_radar_execute.go), which runs the  *)
(* tasks that need no march and, on a day that scores them, claims what it *)
(* finished and goes on with the tasks that those claims drew.             *)
(*                                                                         *)
(* A task goes from the stock onto the radar ("hidden"), onto the map      *)
(* ("open"), and on to "finished" and "rewarded".  Stamina is in units of  *)
(* ten points.                                                             *)
(***************************************************************************)
EXTENDS Integers, Sequences, SequencesExt, FiniteSets, FiniteSetsExt

CONSTANTS
    Tasks,          \* the radar's tasks, by uuid
    TaskFacts,      \* of each: type, free (it costs no stamina), end (0: never),
                    \* agrees (its own type is the table's)
    Accounts,       \* the features to run, what init says and what is true of the player
    HelpCost, HelpReserve, BaseMax, \* 10, 60 and 110 points in the code
    QuickMinSeason, QuickMinLevel,
    MaxEvents, MaxRounds, MaxLevelClaims    \* 30, 4 and 50 in the code

AccountFields ==
    {"runs", "switch", "season", "level", "rewardLevel", "alliance", "scores",
     "known", "stamina", "elapsed", "rate", "cap"}

ASSUME RadarAssumption ==
    /\ Tasks \subseteq Nat \ {0} /\ IsFiniteSet(Tasks)
    /\ DOMAIN TaskFacts = Tasks
    /\ \A a \in Accounts : DOMAIN a = AccountFields /\ a.cap >= BaseMax
    /\ \A a \in Accounts : {a.stamina, a.elapsed, a.cap} \subseteq Nat /\ a.rate \in Nat \ {0}
    /\ {HelpCost, HelpReserve, BaseMax, QuickMinSeason, QuickMinLevel} \subseteq Nat
    /\ {MaxEvents, MaxRounds, MaxLevelClaims} \subseteq Nat

VARIABLES
    link,       \* the connection: "up" or "lost"
    now,        \* the time
    task,       \* the server's tasks
    begun,      \* those it has seen the start of
    stamina,    \* what it has of the player's
    rewardLevel,\* the lowest level whose reward it has not given
    account,    \* the player
    step,         \* the request that is next
    radarDay,   \* today scores radar tasks, as far as the features know
    snap,       \* the last reply to get.detect.info
    have,       \* radarStamina.have
    round, budget,
    rest,       \* the tasks of the loop that runs, from the next one on
    started,    \* the tasks started in this round
    half,       \* of a visitor's two steps at its end, the first: "none", "sent" or "refused"
    done,       \* the tasks ended in this round
    claimed,    \* how many of them were claimed
    levels,     \* how many level rewards were asked for
    \* what has happened, for the properties
    failed,     \* a request has failed, or was not done in full
    starts,     \* how many starts were sent
    spent       \* a help has cost stamina

serverVars == <<link, task, begun, stamina, rewardLevel, failed, spent>>
roundVars == <<have, round, budget, rest, started, half, done, claimed>>
radarVars == <<serverVars, now, account, step, radarDay, snap, levels, starts, roundVars>>

Type(t) == TaskFacts[t].type

-----------------------------------------------------------------------------
(* The server: a request that got no answer may have reached it or not.     *)

Outcomes == IF link = "up" THEN {"ok", "refused", "timeout", "lost"} ELSE {"lost"}

Reached(o) == CASE o = "ok" -> {TRUE} [] o = "refused" -> {FALSE} [] OTHER -> BOOLEAN

\* A request turns out as o, and is done in full or not.
Try(o, full) ==
    /\ o \in Outcomes
    /\ link' = IF o = "lost" THEN "lost" ELSE link
    /\ failed' = (failed \/ o # "ok" \/ ~full)

Send(o) == Try(o, TRUE)

\* A reward given may draw a task from the stock.
Drawn(f) == {f} \cup {[f EXCEPT ![t] = s] : t \in {u \in Tasks : f[u] = "stock"}, s \in {"hidden", "open"}}

Listed == {t \in Tasks : task[t] # "stock"}

\* receive.detect.event.reward.
Reward(t, o) ==
    /\ Send(o)
    /\ \E reached \in Reached(o) :
          IF reached /\ task[t] = "finished"
          THEN task' \in Drawn([task EXCEPT ![t] = "rewarded"]) ELSE UNCHANGED task
    /\ UNCHANGED <<begun, stamina, rewardLevel, spent>>

NoEffect == UNCHANGED <<task, begun, stamina, rewardLevel, spent>>

\* TodayDuel: an error leaves it unknown what today scores.
JudgeDay(o) ==
    /\ Send(o) /\ NoEffect
    /\ radarDay' = (o = "ok" /\ account.scores)

\* readDetect.
ReadDetect(o) ==
    /\ Send(o) /\ NoEffect
    /\ snap' = IF o = "ok" THEN [t \in Listed |-> task[t]] ELSE snap

-----------------------------------------------------------------------------
(* radar-claims.                                                            *)

\* radarSkippedEvent.
SkippedTypes == {"guide", "rescue"}

Claimable(t) == snap[t] = "finished" /\ Type(t) \notin SkippedTypes

\* RunFeatures holds the feature until a day that scores it.
Hold ==
    /\ step = "hold"
    /\ \E o \in Outcomes : JudgeDay(o)
    /\ step' = IF radarDay' THEN "info" ELSE "gate"
    /\ UNCHANGED <<now, account, snap, levels, starts, roundVars>>

\* runRadarClaims reads the radar.  A lost connection ends the features' run.
Info ==
    /\ step = "info"
    /\ \E o \in Outcomes :
          /\ ReadDetect(o)
          /\ step' = CASE o = "ok" -> "events" [] o = "lost" -> "done" [] OTHER -> "gate"
          /\ rest' = IF o = "ok" THEN SetToSeq({t \in DOMAIN snap' : Claimable(t)'}) ELSE <<>>
    /\ UNCHANGED <<now, account, radarDay, levels, starts, have, round, budget, started,
                   half, done, claimed>>

ClaimEvent ==
    /\ step = "events" /\ rest # <<>>
    /\ \E o \in Outcomes :
          /\ Reward(Head(rest), o)
          /\ step' = IF o = "lost" THEN "done" ELSE step
    /\ rest' = Tail(rest)
    /\ UNCHANGED <<now, account, radarDay, snap, levels, starts, have, round, budget, started, half, done, claimed>>

\* The level rewards: the reply tells which is next, and one that does not
\* advance ends the loop.
ClaimLevel ==
    /\ step = "events" /\ rest = <<>>
    /\ rewardLevel < account.level /\ levels < MaxLevelClaims
    /\ levels' = levels + 1
    /\ \E o \in Outcomes, advances \in BOOLEAN :
          /\ Try(o, advances)
          /\ \E reached \in Reached(o) :
                IF reached
                THEN task' \in Drawn(task) /\ rewardLevel' = rewardLevel + 1
                ELSE UNCHANGED <<task, rewardLevel>>
          /\ step' = CASE o = "ok" /\ advances -> step [] o = "lost" -> "done" [] OTHER -> "gate"
    /\ UNCHANGED <<begun, stamina, spent, now, account, radarDay, snap, starts, roundVars>>

ClaimsOver ==
    /\ step = "events" /\ rest = <<>>
    /\ rewardLevel >= account.level \/ levels = MaxLevelClaims
    /\ step' = "gate"
    /\ UNCHANGED <<serverVars, now, account, radarDay, snap, levels, starts, roundVars>>

-----------------------------------------------------------------------------
(* radar-execute: what it would do.                                         *)

\* radarStaminaFloor: the least that the stamina of init has grown to.
StaminaFloor ==
    IF account.stamina < BaseMax THEN Min({account.stamina + account.elapsed, BaseMax})
    ELSE account.stamina

\* What it has in truth grown to: effects raise the rate and the cap.
TrueStamina(a) ==
    IF a.stamina < a.cap THEN Min({a.stamina + a.elapsed * a.rate, a.cap}) ELSE a.stamina

Expired(t) == TaskFacts[t].end > 0 /\ TaskFacts[t].end <= now

\* radarExecPlan.
Plan(t, state) ==
    IF \/ state \notin {"open", "hidden"}
       \/ ~TaskFacts[t].agrees \/ Expired(t)
       \/ Type(t) = "talk" /\ ~radarDay
       \/ Type(t) \notin {"pick", "visitor", "help", "talk"}
    THEN "skip" ELSE Type(t)

Cost(t) == IF TaskFacts[t].free THEN 0 ELSE HelpCost

Affordable(t, left) == account.alliance /\ account.known /\ left - Cost(t) >= HelpReserve

\* Soonest to expire first.
Before(s, t) ==
    LET e == TaskFacts[s].end
        f == TaskFacts[t].end
    IN IF e = f THEN s < t ELSE e # 0 /\ (f = 0 \/ e < f)

\* The sort: a task goes in after those that expire before it.
InsertTask(list, t) ==
    InsertAt(list, Cardinality({i \in DOMAIN list : Before(list[i], t)}) + 1, t)

SoonestFirst(ts) == FoldLeft(InsertTask, <<>>, SetToSeq(ts))

\* A variant that starts every round from what init says.
InitStamina == StaminaFloor

\* What a round has to spend: what the rounds before it left.
RoundStamina == have

\* radarExecuteDecide: the tasks to run, and the stamina that is left.
TakeTask(acc, t) ==
    LET plan == Plan(t, snap[t])
    IN IF \/ plan = "skip" \/ Len(acc.run) >= budget
          \/ plan = "help" /\ ~Affordable(t, acc.left)
       THEN acc
       ELSE [run |-> Append(acc.run, t),
             left |-> acc.left - IF plan = "help" THEN Cost(t) ELSE 0]

Decide == FoldLeft(TakeTask, [run |-> <<>>, left |-> RoundStamina], SoonestFirst(DOMAIN snap))

\* radarQuickExecuteOpen, without and with the radar's level.
QuickExecuteOpen == account.switch /\ account.season >= QuickMinSeason

LevelOpen == account.level >= QuickMinLevel

-----------------------------------------------------------------------------
(* radar-execute: its run.                                                  *)

Gate ==
    /\ step = "gate"
    /\ step' = IF "radar-execute" \in account.runs /\ QuickExecuteOpen THEN "read" ELSE "done"
    /\ UNCHANGED <<serverVars, now, account, radarDay, snap, levels, starts, roundVars>>

Read ==
    /\ step = "read"
    /\ \E o \in Outcomes : ReadDetect(o) /\ step' = IF o = "ok" /\ LevelOpen THEN "day" ELSE "done"
    /\ UNCHANGED <<now, account, radarDay, levels, starts, roundVars>>

Day ==
    /\ step = "day" /\ step' = "decide"
    /\ \E o \in Outcomes : JudgeDay(o)
    /\ have' = IF account.known THEN StaminaFloor ELSE 0
    /\ round' = 1 /\ budget' = MaxEvents
    /\ UNCHANGED <<now, account, snap, levels, starts, rest, started, half, done, claimed>>

\* A variant with one round on any day.
OneRound == 1

Rounds == IF radarDay THEN MaxRounds ELSE 1

\* The cap is for the run.
BudgetLeft(n) == budget - n

RoundBegins ==
    /\ step = "decide"
    /\ started' = <<>>
    /\ IF round > Rounds \/ budget = 0 \/ Decide.run = <<>>
       THEN step' = "done" /\ UNCHANGED <<have, budget, rest, done, claimed>>
       ELSE /\ step' = "place"
            /\ have' = Decide.left
            /\ budget' = BudgetLeft(Len(Decide.run))
            /\ rest' = Decide.run
            /\ done' = {} /\ claimed' = 0
    /\ UNCHANGED <<serverVars, now, account, radarDay, snap, levels, starts, round, half>>

ToPlace(t) == snap[t] = "hidden" /\ Type(t) # "talk"

\* Of the tasks to run, those that are on the map and those that are then placed.
PutInOrder(acc, t) ==
    IF ~ToPlace(t) THEN [acc EXCEPT !.there = Append(@, t)]
    ELSE IF t \in acc.placed THEN [acc EXCEPT !.then = Append(@, t)] ELSE acc

InOrder(placed) ==
    LET all == FoldLeft(PutInOrder, [placed |-> placed, there |-> <<>>, then |-> <<>>], rest)
    IN all.there \o all.then

\* radarPlace: the reply lists the tasks that are on the map now.
Place ==
    /\ step = "place"
    /\ LET place == {t \in ToSet(rest) : ToPlace(t)}
       IN IF place = {}
          THEN rest' = InOrder({}) /\ step' = "start" /\ UNCHANGED serverVars
          ELSE \E o \in Outcomes, placed \in SUBSET place :
                  /\ Try(o, placed = place)
                  /\ o = "refused" => placed = {}
                  /\ task' = [t \in Tasks |-> IF t \in placed THEN "open" ELSE task[t]]
                  /\ rest' = InOrder(IF o = "ok" THEN placed ELSE {})
                  /\ step' = IF o = "lost" THEN "done" ELSE "start"
                  /\ UNCHANGED <<begun, stamina, rewardLevel, spent>>
    /\ UNCHANGED <<now, account, radarDay, snap, levels, starts, have, round, budget, started, half, done, claimed>>

\* radarSend: a step without a reply counts as sent.
Sent(o) == o \in {"ok", "timeout"}

\* The server starts an open task; a help is paid for at its start.
Begin(t, o) ==
    /\ Send(o)
    /\ \E reached \in Reached(o) :
          IF reached /\ task[t] = "open"
          THEN /\ begun' = begun \cup {t}
               /\ stamina' = stamina - IF Type(t) = "help" THEN Cost(t) ELSE 0
               /\ spent' = (spent \/ (Type(t) = "help" /\ Cost(t) > 0))
          ELSE UNCHANGED <<begun, stamina, spent>>
    /\ UNCHANGED <<task, rewardLevel>>

StartTask ==
    /\ step = "start" /\ rest # <<>>
    /\ \E o \in Outcomes :
          /\ Begin(Head(rest), o)
          /\ started' = IF Sent(o) THEN Append(started, Head(rest)) ELSE started
          /\ step' = IF o = "lost" THEN "done" ELSE step
    /\ rest' = Tail(rest)
    /\ starts' = starts + 1
    /\ UNCHANGED <<now, account, radarDay, snap, levels, have, round, budget, half, done,
                   claimed>>

\* After the starts, the wait of a march: nothing started is nothing ended.
March ==
    /\ step = "start" /\ rest = <<>>
    /\ now' = IF started = <<>> THEN now ELSE now + 1
    /\ rest' = started /\ half' = "none"
    /\ step' = "end"
    /\ UNCHANGED <<serverVars, account, radarDay, snap, levels, starts, have, round, budget, started, done, claimed>>

\* The server ends a task it has seen the start of: a talk's end is its claim.
End(t, o) ==
    /\ Send(o)
    /\ \E reached \in Reached(o) :
          IF reached /\ t \in begun /\ task[t] = "open"
          THEN IF Type(t) = "talk"
               THEN task' \in Drawn([task EXCEPT ![t] = "rewarded"])
               ELSE task' = [task EXCEPT ![t] = "finished"]
          ELSE UNCHANGED task
    /\ UNCHANGED <<begun, stamina, rewardLevel, spent>>

\* The first of a visitor's two steps.
EndSampling ==
    /\ step = "end" /\ rest # <<>> /\ half = "none" /\ Type(Head(rest)) = "visitor"
    /\ \E o \in Outcomes :
          /\ Send(o) /\ NoEffect
          /\ half' = IF Sent(o) THEN "sent" ELSE "refused"
          /\ step' = IF o = "lost" THEN "done" ELSE step
    /\ UNCHANGED <<now, account, radarDay, snap, levels, starts, have, round, budget, rest,
                   started, done, claimed>>

EndTask ==
    /\ step = "end" /\ rest # <<>>
    /\ Type(Head(rest)) = "visitor" => half # "none"
    /\ \E o \in Outcomes :
          /\ End(Head(rest), o)
          /\ done' = IF Sent(o) /\ half # "refused" /\ Type(Head(rest)) # "talk"
                     THEN done \cup {Head(rest)} ELSE done
          /\ step' = IF o = "lost" THEN "done" ELSE step
    /\ rest' = Tail(rest) /\ half' = "none"
    /\ UNCHANGED <<now, account, radarDay, snap, levels, starts, have, round, budget, started, claimed>>

\* Only a day that scores goes on to the claims.
Ended ==
    /\ step = "end" /\ rest = <<>>
    /\ step' = IF radarDay THEN "reread" ELSE "done"
    /\ UNCHANGED <<serverVars, now, account, radarDay, snap, levels, starts, roundVars>>

Reread ==
    /\ step = "reread"
    /\ \E o \in Outcomes :
          /\ ReadDetect(o)
          /\ step' = IF o = "ok" THEN "claim" ELSE "done"
          /\ rest' = IF o = "ok" THEN SetToSeq({t \in DOMAIN snap' \cap done : Claimable(t)'}) ELSE <<>>
    /\ UNCHANGED <<now, account, radarDay, levels, starts, have, round, budget, started,
                   half, done, claimed>>

\* radarClaimFinished.
ClaimDone ==
    /\ step = "claim" /\ rest # <<>>
    /\ \E o \in Outcomes :
          /\ Reward(Head(rest), o)
          /\ claimed' = IF o = "ok" THEN claimed + 1 ELSE claimed
          /\ step' = IF o = "lost" THEN "done" ELSE step
    /\ rest' = Tail(rest)
    /\ UNCHANGED <<now, account, radarDay, snap, levels, starts, have, round, budget, started, half, done>>

\* A round that claimed nothing is the last.
RoundEnds ==
    /\ step = "claim" /\ rest = <<>>
    /\ step' = IF claimed = 0 THEN "done" ELSE "redraw"
    /\ UNCHANGED <<serverVars, now, account, radarDay, snap, levels, starts, roundVars>>

\* The tasks that the claims drew.
Redraw ==
    /\ step = "redraw"
    /\ \E o \in Outcomes : ReadDetect(o) /\ step' = IF o = "ok" THEN "decide" ELSE "done"
    /\ round' = round + 1
    /\ UNCHANGED <<now, account, radarDay, levels, starts, have, budget, rest, started,
                   half, done, claimed>>

RadarNext ==
    \/ Hold \/ Info \/ ClaimEvent \/ ClaimLevel \/ ClaimsOver \/ Gate \/ Read \/ Day
    \/ RoundBegins \/ Place \/ StartTask \/ March \/ EndSampling \/ EndTask \/ Ended
    \/ Reread \/ ClaimDone \/ RoundEnds \/ Redraw

\* The run begins with the first of the features that it runs.
RadarInit(a, tasks) ==
    /\ link = "up" /\ now = 0
    /\ account = a /\ task = tasks
    /\ begun = {}
    /\ stamina = TrueStamina(account)
    /\ rewardLevel = account.rewardLevel
    /\ step = IF "radar-claims" \in account.runs THEN "hold"
              ELSE IF "radar-execute" \in account.runs THEN "gate" ELSE "done"
    /\ radarDay = FALSE
    /\ snap = <<>>
    /\ have = 0 /\ round = 0 /\ budget = 0
    /\ rest = <<>> /\ started = <<>> /\ half = "none"
    /\ done = {} /\ claimed = 0 /\ levels = 0
    /\ failed = FALSE /\ starts = 0 /\ spent = FALSE

-----------------------------------------------------------------------------
\* A run's limits hold over all its rounds: the helps, those of the rounds after
\* the first and those that were sent twice included, leave the player the
\* stamina held back for marches, though the client only knows a lower bound of
\* it (radarHelpStaminaReserve), and the rounds together start no more than a
\* run may (radarExecuteMaxEvents).
LimitsAreForTheRun ==
    /\ spent => stamina >= HelpReserve
    /\ starts <= MaxEvents

Runnable ==
    {t \in Tasks : LET plan == Plan(t, task[t]) IN plan # "skip" /\ (plan = "help" => Affordable(t, have))}

OnlyTalked == started # <<>> /\ \A i \in DOMAIN started : Type(started[i]) = "talk"

\* On a day that scores, a run without a fault leaves nothing finished that may
\* be claimed, no level reward, and nothing that it could still run, what its
\* own claims drew from the stock included: unless the rounds or the starts are
\* used up, or the last round only talked, whose rewards are no claims.
DayUsedUp ==
    step = "done" /\ ~failed /\ account.scores =>
        /\ "radar-claims" \in account.runs =>
              /\ \A t \in Tasks : task[t] = "finished" => Type(t) \in SkippedTypes
              /\ rewardLevel >= account.level \/ levels = MaxLevelClaims
        /\ /\ "radar-execute" \in account.runs /\ QuickExecuteOpen /\ LevelOpen
           /\ round <= MaxRounds /\ budget > 0 /\ ~OnlyTalked
           => Runnable = {}

=============================================================================
