----------------------------- MODULE FeatureRun -----------------------------
(***************************************************************************)
(* One run of the features (Collect and RunFeatures in                     *)
(* src/internal/game/features.go): which of them run, in which order, held *)
(* by the Alliance Duel or not (duel.go), what they share through the      *)
(* sweep's cache, and what their errors and panics mean for the rest.      *)
(*                                                                         *)
(* A feature either claims (EventClaims) or is one request that may earn   *)
(* something for an event.                                                 *)
(***************************************************************************)
EXTENDS EventClaims

CONSTANTS
    Registry,       \* the features, by name
    FeatureFacts,   \* of each: phase, on (DefaultOn), hold, duel, kinds, quiet
    Scenarios,      \* the runs: [config, command, listed], of which
                    \*   config: [enabled, policy], maps by feature
                    \*   command: [only, force]; only is "all" for -collect
                    \*   listed: the entries that init lists
    FirstEvents,    \* what an entry's event may be at login
    MaxNow          \* bound: the time

FeatureNames == ToSet(Registry)

\* The kinds a feature takes, and its phase.
Kinds(f) == ToSet(FeatureFacts[f].kinds)
Phase(f) == FeatureFacts[f].phase
phaseProgress == 3

\* What the registry says of each feature: every claim is one feature's; the
\* progress features only claim, and are not held for the duel; its chests are
\* claimed by one of them; and battle-pass-overflow follows battle-pass.
ASSUME RegistryAssumption ==
    /\ Registry \in Seq(DOMAIN FeatureFacts) /\ IsInjective(Registry)
    /\ \A f \in FeatureNames :
          /\ Phase(f) \in 1 .. 3
          /\ FeatureFacts[f].kinds \in Seq(DOMAIN KindFacts) /\ IsInjective(FeatureFacts[f].kinds)
          /\ Phase(f) = phaseProgress => Kinds(f) # {} /\ FeatureFacts[f].duel = {}
          /\ "duel_chests" \in Kinds(f) => Phase(f) = phaseProgress
    /\ \A f, g \in FeatureNames : f # g => Kinds(f) \cap Kinds(g) = {}
    /\ \A i, j \in DOMAIN Registry :
          "battle_pass" \in Kinds(Registry[i]) /\ "overflow" \in Kinds(Registry[j])
             => i < j /\ Phase(Registry[i]) <= Phase(Registry[j])

ASSUME RunAssumption ==
    /\ \A s \in Scenarios : s.listed \in Seq(Activities) /\ IsInjective(s.listed)
    /\ \A a \in Activities : FirstEvents[a] \subseteq Events(a)
    /\ MaxNow \in Nat

VARIABLES
    config, command,
    order,      \* the enabled features, as they run
    stage,      \* "log", "next", "run" or "done"
    pos,        \* the place in the run order of the feature that is next, or runs
    ranEarlier, \* a feature before the progress claims has run since the last Forget
    claimsFrom  \* when the first feature began that no action follows, or -1

runVars == <<config, command, order, stage, pos, ranEarlier, claimsFrom>>
vars == <<sweepVars, pc, visitVars, runVars>>

\* FeatureEnabled: an entry of the config wins.
FeatureEnabled(f) ==
    IF f \in DOMAIN config.enabled THEN config.enabled[f] ELSE FeatureFacts[f].on

\* The enabled features of a phase, by name.
AddOfPhase(acc, f) ==
    IF FeatureEnabled(f) /\ Phase(f) = acc.phase THEN [acc EXCEPT !.list = Append(@, f)] ELSE acc

OfPhase(p) == FoldLeft(AddOfPhase, [phase |-> p, list |-> <<>>], Registry).list

\* featuresInRunOrder, and of those the enabled ones; -run has its one feature.
RunOrder ==
    IF command.only # "all" THEN <<command.only>> ELSE OfPhase(1) \o OfPhase(2) \o OfPhase(3)

\* CleanDuelPolicy: the feature's entry, without the values it cannot apply.
CleanPolicy(f) ==
    IF f \in DOMAIN config.policy /\ config.policy[f] \in {"hold", "always"}
    THEN config.policy[f] ELSE "none"

Holds(f) ==
    /\ IF CleanPolicy(f) = "none" THEN FeatureFacts[f].hold ELSE CleanPolicy(f) = "hold"
    /\ FeatureFacts[f].duel # {}

\* The claiming features that no action follows, the progress claims among them,
\* but not those that wait for their day of the duel.
Concluding(i) ==
    /\ FeatureFacts[order[i]].kinds # <<>> /\ ~Holds(order[i])
    /\ \/ Phase(order[i]) = phaseProgress
       \/ \A j \in i + 1 .. Len(order) : FeatureFacts[order[j]].kinds # <<>>

\* A variant that falls back to any day listed.
TodayOrStale(days) ==
    LET today == {d \in days : d.begin <= now /\ now < d.end} IN IF today = {} THEN days ELSE today

\* parseDuelDay: the day whose window has now in it.
Today(days) == {d \in days : d.begin <= now /\ now < d.end}

DuelOpen == \E i \in DOMAIN Parsed : Parsed[i] = DuelEntry /\ IsOpen(DuelEntry)

\* TodayDuel, for an action that goes by its answer: what today scores.  Every
\* error is answered with nothing.
TodayDuel(o, days) ==
    IF DuelOpen THEN Info(replies, DuelEntry, o, days)
    ELSE o = "none" /\ days = {} /\ NoSend /\ UNCHANGED replies

ScoresToday(o, days) ==
    IF ~DuelOpen \/ Answer(replies, DuelEntry, o, days).res # "none" THEN {}
    ELSE UNION {d.scores : d \in Today(Answer(replies, DuelEntry, o, days).days)}

-----------------------------------------------------------------------------
\* What the server may hold of the entries listed.
AddFirst(servers, a) == {With(s, a, e) : e \in FirstEvents[a], s \in servers}

FirstServers == FoldLeft(AddFirst, {<<>>}, listed)

Init ==
    /\ link = "up" /\ now = 0
    /\ \E s \in Scenarios : config = s.config /\ command = s.command /\ listed = s.listed
    /\ order = RunOrder
    /\ server \in FirstServers
    /\ replies = <<>>
    /\ errs = {} /\ batch = {} /\ faults = {} /\ late = FALSE
    /\ NoVisit
    /\ stage = "log" /\ pos = 1
    /\ ranEarlier = FALSE /\ claimsFrom = -1

UnchangedClaims == UNCHANGED <<pc, visitVars>>

\* The duel's line in the log reads today's duel; -collect has no use for it
\* when no feature is enabled.
LogDuelStatus ==
    /\ stage = "log" /\ stage' = "next"
    /\ \E o \in Turns, days \in SUBSET DuelDays :
          IF command.only # "all" \/ order # <<>> THEN TodayDuel(o, days)
          ELSE o = "none" /\ days = {} /\ NoSend /\ UNCHANGED replies
    /\ UNCHANGED <<now, listed, server, errs, batch, config, command, order, pos, ranEarlier, claimsFrom>>
    /\ UnchangedClaims

\* A -run without -run-anyway of a feature that is held is an error.
Refuse == stage' = "done" /\ errs' = errs \cup {"held"} /\ UNCHANGED pos

\* The core collection has lost the connection: no feature runs.
CoreLost ==
    /\ stage = "log" /\ command.only = "all"
    /\ stage' = "done"
    /\ \E o \in Fatal : link' = o /\ errs' = errs \cup {o}
    /\ UNCHANGED <<now, listed, server, replies, batch, faults, late, config, command, order, pos,
                   ranEarlier, claimsFrom>>
    /\ UnchangedClaims

\* A variant of forgetActivityReplies that forgets losses too.
ForgetAll == <<>>

\* A variant that forgets nothing.
ForgetNothing == replies

\* forgetActivityReplies: a loss of the connection stays.
KeptReplies == Restrict(replies, Lost(replies))

Skip == pos' = pos + 1 /\ UNCHANGED <<stage, errs>>

\* runFeature: its body begins.
Begin(f) ==
    /\ stage' = "run"
    /\ IF FeatureFacts[f].kinds = <<>> THEN pc' = "request" /\ UNCHANGED visitVars
       ELSE BeginClaims(FeatureFacts[f].kinds)
    /\ UNCHANGED <<pos, errs>>

\* The turn of a feature that can be held: it runs on a day that scores it.
StartHeld ==
    /\ stage = "next" /\ pos <= Len(order) /\ Holds(order[pos])
    /\ LET f == order[pos]
       IN \E o \in Turns, days \in SUBSET DuelDays :
             /\ TodayDuel(o, days)
             /\ LET held == FeatureFacts[f].duel \cap ScoresToday(o, days) = {}
                IN IF held /\ ~(command.only # "all" /\ command.force)
                   THEN /\ IF command.only # "all" THEN Refuse ELSE Skip
                        /\ UnchangedClaims /\ UNCHANGED ranEarlier
                   ELSE Begin(f) /\ ranEarlier' = TRUE
    /\ UNCHANGED <<now, listed, server, batch, config, command, order, claimsFrom>>

\* The turn of any other: the progress claims do not go by what was read before
\* the features that ran earlier.
Start ==
    /\ stage = "next" /\ pos <= Len(order) /\ ~Holds(order[pos])
    /\ LET f == order[pos]
           progress == Phase(f) = phaseProgress /\ command.only = "all"
       IN /\ Begin(f)
          /\ ranEarlier' = ~progress
          /\ replies' = IF progress /\ ranEarlier THEN KeptReplies ELSE replies
          /\ claimsFrom' = IF Concluding(pos) /\ claimsFrom < 0 THEN now ELSE claimsFrom
    /\ NoSend
    /\ UNCHANGED <<now, listed, server, batch, config, command, order>>

\* What one request earns: what a feature takes from the login it could not see.
MayEarn ==
    {a \in ToSet(listed) : \A k \in Fact(a).kinds : KindFacts[k].read \notin {"init", "lenient", "once"}}

\* A feature of one request.  Its error may be a panic's; secret-tasks-start
\* may keep the loss of its connection to itself.
Request ==
    /\ stage = "run" /\ pc = "request" /\ pc' = "end"
    /\ \E o \in Outcomes :
          /\ Send("claim", o)
          /\ \/ UNCHANGED server
             \/ /\ o = "none"
                /\ \E a \in MayEarn : \E e \in Earned(server[a]) :
                      server' = [server EXCEPT ![a] = e]
          /\ batch' \in {ErrorOf(o), {"panic"}}
                           \cup IF FeatureFacts[order[pos]].quiet THEN {{}} ELSE {}
    /\ UNCHANGED <<now, listed, replies, errs, visitVars, runVars>>

Claim == stage = "run" /\ Claims /\ UNCHANGED runVars

\* The loop breaks on a lost connection.
Breaks == Loss(batch) \/ pos = Len(order)

EndFeature ==
    /\ stage = "run" /\ pc = "end"
    /\ errs' = errs \cup batch /\ batch' = {}
    /\ pc' = "idle"
    /\ pos' = pos + 1
    /\ stage' = IF Breaks THEN "done" ELSE "next"
    /\ UNCHANGED <<link, now, listed, server, replies, faults, late, visitVars, config, command, order,
                   ranEarlier, claimsFrom>>

\* No feature is left.
RunDone ==
    /\ stage = "next" /\ pos > Len(order)
    /\ stage' = "done"
    /\ UNCHANGED <<sweepVars, pc, visitVars, config, command, order, pos, ranEarlier, claimsFrom>>

Tick ==
    /\ stage = "next" /\ now < MaxNow
    /\ now' = now + 1
    /\ UNCHANGED <<link, listed, server, replies, errs, batch, faults, late, pc, visitVars, runVars>>

Over == stage = "done" /\ UNCHANGED vars

Next == LogDuelStatus \/ CoreLost \/ StartHeld \/ Start \/ Request \/ Claim \/ EndFeature
            \/ RunDone \/ Tick \/ Over

Spec == Init /\ [][Next]_vars

-----------------------------------------------------------------------------
\* What a feature would find due if it asked the server now.
Due(k, a) ==
    IF KindFacts[k].boxes = "drain" THEN LeftOver(a, server[a]) > 0 /\ server[a].drained < OverflowMax
    ELSE \/ KindFacts[k].tasks # "none" /\ TasksDue(a, server[a]) # {}
         \/ KindFacts[k].boxes # "none" /\ OwnBoxes(k, BoxesDue(a, server[a])) # {}

Offers(k, a) ==
    /\ (Fact(a).stageEnd = 0 \/ now < Fact(a).stageEnd)
    /\ (k = "duel_chests" => a \in DOMAIN replies /\ replies[a].days # {})

\* A run without a fault leaves nothing for its progress claims to claim, nor for
\* any other that no action follows: not what its own actions earned after the
\* events were first read, nor what the claims' own rewards opened, the quests
\* that follow others, or what two features read in one reply (featurePhases,
\* forgetActivityReplies, Forget, weekCardInfo).  A clock that moved since the
\* claims began may have opened something.
NothingDueLeft ==
    stage = "done" /\ link = "up" /\ faults = {} /\ errs = {} /\ command.only = "all" /\ now = claimsFrom =>
        \A i \in DOMAIN order :
           Concluding(i) =>
              \A k \in ToSet(FeatureFacts[order[i]].kinds) :
                 \A a \in ToSet(Visits(k)) : Offers(k, a) => ~Due(k, a)

\* Whatever the session config says and however the reads of the duel fail, a
\* feature that is to be held starts only on a day that scores it: no stale day,
\* no misspelt policy (README's duelPolicy, CleanDuelPolicy, TodayDuel).
HeldOffDuty ==
    [][stage = "next" /\ stage' = "run" /\ ~command.force =>
          LET f == order[pos]
              given(p) == f \in DOMAIN config.policy /\ config.policy[f] = p
          IN FeatureFacts[f].duel # {} /\ (given("hold") \/ (FeatureFacts[f].hold /\ ~given("always")))
             => \E d \in DuelDays :
                   d.begin <= now /\ now < d.end /\ d.scores \cap FeatureFacts[f].duel # {}]_vars

\* No request goes out after a loss of the connection that a feature has told
\* of, and none by the sweep after one it was told of itself (evBatch.dead,
\* RunFeatures' break, the losses that stay in the cache).
FeaturesHeedLoss == ~late

=============================================================================
