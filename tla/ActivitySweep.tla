--------------------------- MODULE ActivitySweep ---------------------------
(***************************************************************************)
(* The events of a run and the replies about them that its features share  *)
(* (ActivitySweep in src/internal/game/activities.go), and the server they *)
(* are about.                                                              *)
(*                                                                         *)
(* An event is what its claims have in common: tasks, a score that they    *)
(* raise, boxes that open as the score rises, and what is left over past   *)
(* the last box.  A reply about an event is the event as the server had it *)
(* at that moment; the features decide by replies, never by the server.    *)
(***************************************************************************)
EXTENDS Integers, Sequences, SequencesExt, FiniteSets, FiniteSetsExt

CONSTANTS
    Activities,     \* the entries init's `activity` map may have
    ActivityFacts,  \* what is known of each
    HQ,             \* the level of the headquarters
    Tolerance,      \* activityOpenToleranceMs (1 s in the code)
    DuelEntry,      \* the Alliance Duel's entry
    DuelDays        \* its schedule: what each of its days scores

\* Of an entry: the ways it is claimed from; whether its id is in table
\* `activity`, the level it needs, its window (an end of 0 is open for some
\* types) and its group's rank; when its tasks' days begin and its stage ends;
\* what each box needs, and the boxes this player may open (VIP level, unlock
\* effects).
FactFields == {"kinds", "known", "needHQ", "begin", "end", "endless", "group", "rank",
               "days", "stageEnd", "boxes", "allowed"}

ASSUME SweepAssumption ==
    /\ DOMAIN ActivityFacts = Activities
    /\ \A a \in Activities :
          /\ DOMAIN ActivityFacts[a] = FactFields
          /\ ActivityFacts[a].days \in Seq(Nat) /\ ActivityFacts[a].boxes \in Seq(Nat)
          /\ ActivityFacts[a].stageEnd \in Nat
    /\ {HQ, Tolerance} \subseteq Nat

VARIABLES
    link,       \* the connection: "up", "dead", or "ended" by the server
    now,        \* the time
    listed,     \* the entries of init's `activity` map, by id
    server,     \* the events as they are
    replies,    \* ActivitySweep.replies
    errs,       \* the errors of the features that have run
    batch,      \* the errors of the feature that runs (evBatch.errs)
    \* what has happened, for the properties
    faults,     \* whose requests have failed, and how
    late        \* a request went out though the loss of the connection was on record

sweepVars == <<link, now, listed, server, replies, errs, batch, faults, late>>

Failures == {"refused", "timeout", "dead", "ended"}
Fatal == {"dead", "ended"}

\* How a request may turn out; a lost connection stays lost.
Outcomes == IF link = "up" THEN {"none"} \cup Failures ELSE {link}

\* How a step turns out that may do without a request.
Turns == Outcomes \cup {"none"}

ErrorOf(o) == {o} \cap Failures

\* ContainsNonTimeoutNetError.
Loss(es) == es \cap Fatal # {}

\* The sweep, or the feature itself, sends a request, which turns out as o.
Send(by, o) ==
    /\ o \in Outcomes
    /\ late' = \/ late \/ Loss(errs) \/ Loss(batch)
               \/ by = "sweep" /\ {by} \X Fatal \cap faults # {}
    /\ faults' = faults \cup {by} \X ErrorOf(o)
    /\ link' = IF o \in Fatal THEN o ELSE link

NoSend == UNCHANGED <<link, faults, late>>

-----------------------------------------------------------------------------
(* An event: the states of its tasks (0: open, 1: done, 2: claimed), its    *)
(* score, the boxes opened and what was taken of what is left over.         *)

Fact(a) == ActivityFacts[a]

Events(a) == [task : [DOMAIN Fact(a).days -> 0 .. 2], score : Nat, got : SUBSET Nat, drained : Nat]

TasksDue(a, e) == {t \in DOMAIN e.task : e.task[t] = 1 /\ Fact(a).days[t] <= now}

BoxesDue(a, e) ==
    {b \in Fact(a).allowed \cap DOMAIN Fact(a).boxes : b \notin e.got /\ e.score >= Fact(a).boxes[b]}

\* battlePassOverflowState: the boxes of what is over the top level.
LeftOver(a, e) ==
    LET top == Len(Fact(a).boxes)
    IN IF e.score > top THEN e.score - top - e.drained ELSE 0

TasksClaimed(e, ts) ==
    [e EXCEPT !.task = [t \in DOMAIN e.task |-> IF t \in ts THEN 2 ELSE e.task[t]],
              !.score = @ + Cardinality({t \in ts : e.task[t] = 1})]

BoxesOpened(e, bs) == [e EXCEPT !.got = @ \cup bs]

\* What an action of this run does for an event: a task done, or score.
Earned(e) ==
    {[e EXCEPT !.task[t] = 1] : t \in {u \in DOMAIN e.task : e.task[u] = 0}}
        \cup IF DOMAIN e.task = {} THEN {[e EXCEPT !.score = @ + 1]} ELSE {}

-----------------------------------------------------------------------------
(* The sweep. *)

\* Activity.open: now is in the window, give or take the tolerance (the arenas
\* have none), and the headquarters is of the level.
InWindow(a) ==
    LET margin == IF "arenas" \in Fact(a).kinds THEN 0 ELSE Tolerance
    IN \/ now >= Fact(a).begin - margin /\ now <= Fact(a).end + margin
       \/ Fact(a).end = 0 /\ Fact(a).endless

IsOpen(a) == InWindow(a) /\ HQ >= Fact(a).needHQ

\* parseActivities: the entries whose id is known, by id.
AddParsed(list, a) == IF Fact(a).known THEN Append(list, a) ELSE list

Parsed == FoldLeft(AddParsed, <<>>, listed)

\* armsRaceActivities: one of the same group, open or not, ranks higher.
Superseded(a) ==
    \E b \in ToSet(Parsed) : Fact(b).group = Fact(a).group /\ Fact(b).rank > Fact(a).rank

\* Open: the open entries of a kind.
AddOpen(acc, a) ==
    IF acc.kind \in Fact(a).kinds /\ IsOpen(a) /\ ~Superseded(a)
    THEN [acc EXCEPT !.list = Append(@, a)] ELSE acc

Open(k) == FoldLeft(AddOpen, [kind |-> k, list |-> <<>>], Parsed).list

\* A reply, or the failure in its place; the duel's lists days of its schedule.
Reply(a, o, days) == [res |-> o, event |-> server[a], days |-> days]

Lost(reps) == {a \in DOMAIN reps : reps[a].res \in Fatal}

\* A reply is cached under its event.
With(reps, a, r) == [b \in DOMAIN reps \cup {a} |-> IF b = a THEN r ELSE reps[b]]

\* Forget.
Without(reps, a) == Restrict(reps, DOMAIN reps \ {a})

\* Whether Info has to ask: no reply is cached, and no loss of the connection.
Asks(reps, a) == a \notin DOMAIN reps /\ Lost(reps) = {}

\* What Info returns: the cached reply, the cached loss, or the answer.
Answer(reps, a, o, days) ==
    IF a \in DOMAIN reps THEN reps[a]
    ELSE IF Lost(reps) # {} THEN reps[CHOOSE x \in Lost(reps) : TRUE]
    ELSE Reply(a, o, days)

\* Info, with the cache as it is after a Forget.  An answer is cached, whatever
\* it is; a loss that was cached is not cached again.
Info(reps, a, o, days) ==
    /\ days \in IF a = DuelEntry /\ o = "none" THEN SUBSET DuelDays ELSE {{}}
    /\ IF Asks(reps, a)
       THEN Send("sweep", o) /\ replies' = With(reps, a, Reply(a, o, days))
       ELSE o = "none" /\ days = {} /\ NoSend /\ replies' = reps

=============================================================================
