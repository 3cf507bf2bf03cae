---------------------------- MODULE EventClaims ----------------------------
(***************************************************************************)
(* How a feature claims (feature_event_claims.go and the other claiming    *)
(* feature_*.go in src/internal/game): it takes its kinds one after        *)
(* another, visits each open event of the kind, reads about it, claims the *)
(* tasks that the reply calls done, may read again, and opens the boxes    *)
(* whose score is reached.                                                 *)
(*                                                                         *)
(* The kinds (ClaimKinds) differ in where they read, in whether a failed   *)
(* claim ends the visit, and in how they learn what the claims brought.    *)
(* What is claimed but is no event stands as one that is always open: its  *)
(* gates (an alliance, a switch, a season) are in whether it is listed.    *)
(***************************************************************************)
EXTENDS ActivitySweep, ClaimKinds

CONSTANT OverflowMax    \* battlePassOverflowMaxClaims (20 in the code)

\* An entry is of one type, claimed in one way; but the pass has what is left
\* over, and two features share the week cards.  The duel's entry is for its
\* chests alone: none of the calls of Forget is about it, so that a failed read
\* of it stays in the cache.  The crystal boss has three rewards.
ASSUME EntriesAssumption ==
    /\ OverflowMax \in Nat
    /\ \A a \in Activities :
          /\ \A j, k \in Fact(a).kinds :
                j # k => {j, k} \in {{"battle_pass", "overflow"}, {"week_cards", "week_gift"}}
          /\ a = DuelEntry => Fact(a).kinds \subseteq {"duel_chests"}
          /\ "crystal_boss" \in Fact(a).kinds => Len(Fact(a).boxes) <= 3

VARIABLES
    pc,         \* where the feature stands
    kinds,      \* the kinds of event it has still to take
    todo,       \* the events of the kind still to visit, the visited one first
    part,       \* crystal boss: which of its rewards
    info,       \* the event as the feature knows it
    answered,   \* a task's claim was answered
    before,     \* overflow boxes before the last claim, or -1
    claims      \* overflow claims of this visit

visitVars == <<kinds, todo, part, info, answered, before, claims>>

\* The kind and the event of the visit.
K == KindFacts[Head(kinds)]
A == Head(todo)

NoEvent == [task |-> <<>>, score |-> 0, got |-> {}, drained |-> 0]

ClearVisit ==
    /\ part' = 1 /\ info' = NoEvent /\ answered' = FALSE
    /\ before' = -1 /\ claims' = 0

NoVisit == pc = "idle" /\ kinds = <<>> /\ todo = <<>> /\ part = 1 /\ info = NoEvent
           /\ answered = FALSE /\ before = -1 /\ claims = 0

Goto(step) == pc' = step

Stay == UNCHANGED visitVars

\* The feature begins with the kinds it takes.
BeginClaims(ks) ==
    /\ pc' = "kind"
    /\ kinds' = ks
    /\ todo' = <<>>
    /\ ClearVisit

\* It is done with the event: what comes next, unless the connection is lost
\* (evBatch.dead).
LeaveVisit ==
    IF Loss(batch')
    THEN pc' = "end" /\ kinds' = <<>> /\ todo' = <<>> /\ ClearVisit
    ELSE IF Head(kinds) = "crystal_boss" /\ part < 3
    THEN /\ part' = part + 1 /\ pc' = "read" /\ info' = NoEvent
         /\ UNCHANGED <<kinds, todo, answered, before, claims>>
    ELSE /\ todo' = Tail(todo)
         /\ pc' = IF Tail(todo) = <<>> THEN "kind" ELSE "read"
         /\ kinds' = IF Tail(todo) = <<>> THEN Tail(kinds) ELSE kinds
         /\ ClearVisit

\* The boxes of the entry that kind k is about.
OwnBoxes(k, bs) == IF k \in DOMAIN SharedBoxes THEN bs \cap SharedBoxes[k] ELSE bs

\* The boxes a part of a visit is about.
InPart(bs) ==
    IF Head(kinds) = "crystal_boss" THEN bs \cap {part} ELSE OwnBoxes(Head(kinds), bs)

\* The open events of a kind that are visited.
Visits(k) ==
    IF k \in OnlyFirst /\ Open(k) # <<>> THEN <<Head(Open(k))>> ELSE Open(k)

\* What the server does when it accepts a claim.
Accepts(e) == server' = [server EXCEPT ![A] = e]

-----------------------------------------------------------------------------
\* The next kind: its open events.  The arenas are asked about first.
TakeKind ==
    /\ pc = "kind"
    /\ UNCHANGED <<listed, now, server, replies, errs>>
    /\ part' = 1 /\ UNCHANGED <<info, answered, before, claims>>
    /\ IF kinds = <<>>
       THEN pc' = "end" /\ NoSend /\ UNCHANGED <<batch, kinds, todo>>
       ELSE \E o \in Turns :
               /\ IF Head(kinds) = "arenas" THEN Send("claim", o) ELSE o = "none" /\ NoSend
               /\ batch' = batch \cup ErrorOf(o)
               /\ IF Loss(batch')
                  THEN pc' = "end" /\ kinds' = <<>> /\ todo' = <<>>
                  ELSE IF o = "none" /\ Visits(Head(kinds)) # <<>>
                  THEN pc' = "read" /\ todo' = Visits(Head(kinds)) /\ UNCHANGED kinds
                  ELSE pc' = "kind" /\ kinds' = Tail(kinds) /\ todo' = <<>>

\* What is known about the event decides how the visit goes on; a stage that
\* has ended, and a duel without a day, offer nothing.
Proceed(e, days) ==
    IF \/ Fact(A).stageEnd # 0 /\ now >= Fact(A).stageEnd
       \/ Head(kinds) = "duel_chests" /\ days = {}
    THEN LeaveVisit
    ELSE /\ info' = e
         /\ pc' = IF K.boxes = "drain" THEN "drain" ELSE "tasks"
         /\ UNCHANGED <<kinds, todo, part, answered, before, claims>>

\* What a failed read leaves known of the salary: init has the day's, the first.
InitSalary(e) == [e EXCEPT !.task = [t \in DOMAIN e.task |-> IF t = 1 THEN e.task[t] ELSE 0]]

\* The expedition's read may be refused without an error.
ReadError(o) == IF K.read = "quiet" THEN ErrorOf(o) \ {"refused"} ELSE ErrorOf(o)

\* The reply to a read, or the error in its place, which leaves the visit (but
\* the salary's only where the connection is lost).
Heed(r) ==
    /\ batch' = batch \cup ReadError(r.res)
    /\ IF r.res = "none" THEN Proceed(r.event, r.days)
       ELSE IF K.read = "lenient" /\ ~Loss(batch') THEN Proceed(InitSalary(server[A]), {})
       ELSE LeaveVisit

\* The cache a read goes by: battlePassFreshInfo forgets the reply first.
CacheForRead == IF K.read = "fresh" THEN Without(replies, A) ELSE replies

ReadSweep ==
    /\ K.read \in {"sweep", "fresh"}
    /\ \E o \in Turns, days \in SUBSET DuelDays :
          /\ Info(CacheForRead, A, o, days)
          /\ Heed(Answer(CacheForRead, A, o, days))

AskForIt ==
    /\ K.read \in {"direct", "quiet", "lenient"}
    /\ \E o \in Outcomes : Send("claim", o) /\ Heed(Reply(A, o, {}))
    /\ UNCHANGED replies

\* weekCardInfo's reply of the login is kept among the sweep's: no feature that
\* asks for it runs once those are forgotten.
ReadOnce ==
    /\ K.read = "once"
    /\ IF A \in DOMAIN replies
       THEN NoSend /\ Heed(replies[A]) /\ UNCHANGED replies
       ELSE \E o \in Outcomes :
               /\ Send("claim", o) /\ Heed(Reply(A, o, {}))
               /\ replies' = With(replies, A, Reply(A, o, {}))

FindInInit == K.read = "init" /\ NoSend /\ Proceed(server[A], {}) /\ UNCHANGED <<replies, batch>>

Read ==
    /\ pc = "read"
    /\ ReadSweep \/ AskForIt \/ ReadOnce \/ FindInInit
    /\ UNCHANGED <<listed, now, server, errs>>

\* The tasks the next claim is for.
NextTasks ==
    LET due == TasksDue(A, info)
    IN IF K.tasks = "none" \/ due = {} THEN {}
       ELSE IF K.tasks = "all" THEN due ELSE {Min(due)}

\* A claim of all tasks takes every one the server calls due.
AllOrNext == IF K.tasks = "all" THEN TasksDue(A, server[A]) ELSE NextTasks

\* The next quest is done when the one before it is claimed (runQuests).
Follow(e) ==
    LET next == {t \in DOMAIN e.task : e.task[t] = 0}
    IN IF K.after # "chain" \/ next = {} THEN e ELSE [e EXCEPT !.task[Min(next)] = 1]

\* A claim of tasks.  A lost connection ends the visit; any other failure goes
\* on to the next task, or (torch relay) to the milestones.
ClaimTasks ==
    /\ pc = "tasks" /\ NextTasks # {}
    /\ \E o \in Outcomes :
          /\ Send("claim", o)
          /\ batch' = batch \cup ErrorOf(o)
          /\ IF o = "none"
             THEN /\ Accepts(Follow(TasksClaimed(server[A], AllOrNext)))
                  /\ info' = LET tried == TasksClaimed(info, NextTasks)
                             IN IF K.after \in {"reply", "chain"} THEN Follow(tried)
                                ELSE [tried EXCEPT !.score = info.score]
                  /\ answered' = TRUE
                  /\ UNCHANGED <<pc, kinds, todo, part, before, claims>>
             ELSE /\ UNCHANGED server
                  /\ IF Loss(batch') THEN LeaveVisit
                     ELSE /\ pc' = IF K.tasks = "each" THEN "tasks" ELSE "reread"
                          /\ info' = [TasksClaimed(info, NextTasks) EXCEPT !.score = info.score]
                          /\ UNCHANGED <<kinds, todo, part, answered, before, claims>>
    /\ UNCHANGED <<listed, now, replies, errs>>

TasksDone ==
    /\ pc = "tasks" /\ NextTasks = {}
    /\ Goto("reread") /\ Stay /\ NoSend
    /\ UNCHANGED <<listed, now, server, replies, errs, batch>>

\* After a claim that was answered the cached reply is stale.
Rereads == K.after = "reread" /\ answered

\* The second read, if there is one.
Reread ==
    /\ pc = "reread"
    /\ UNCHANGED <<listed, now, server, errs>>
    /\ IF Rereads
       THEN \E o \in Turns :
               /\ Info(Without(replies, A), A, o, {})
               /\ LET r == Answer(Without(replies, A), A, o, {})
                  IN /\ batch' = batch \cup ErrorOf(r.res)
                     /\ IF r.res = "none"
                        THEN /\ info' = r.event
                             /\ pc' = "boxes"
                             /\ UNCHANGED <<kinds, todo, part, answered, before, claims>>
                        ELSE LeaveVisit
       ELSE Goto("boxes") /\ Stay /\ NoSend /\ UNCHANGED <<replies, batch>>

\* The boxes the next claim is for.
NextBoxes ==
    LET due == InPart(BoxesDue(A, info))
    IN IF K.boxes = "none" \/ due = {} THEN {}
       ELSE IF K.boxes = "all" THEN due ELSE {Min(due)}

\* A claim of all boxes takes every one the server calls due.
Granted(bs) == IF K.boxes = "all" THEN InPart(BoxesDue(A, server[A])) ELSE bs

\* The boxes that a failed claim gives up: a part's are tried until one fails.
GivenUp(bs) ==
    IF K.boxes = "parts" THEN UNION {p \in ZoneParts : p \cap bs # {}} ELSE bs

\* A claim of boxes; after a failure the next box, the next part, or none.
ClaimBoxes ==
    /\ pc = "boxes" /\ NextBoxes # {}
    /\ \E o \in Outcomes :
          /\ Send("claim", o)
          /\ batch' = batch \cup ErrorOf(o)
          /\ IF o = "none" THEN Accepts(BoxesOpened(server[A], Granted(NextBoxes))) ELSE UNCHANGED server
          /\ IF o = "none" \/ (K.boxes \in {"each", "parts"} /\ ~Loss(batch'))
             THEN /\ info' = BoxesOpened(info, IF o = "none" THEN NextBoxes ELSE GivenUp(NextBoxes))
                  /\ UNCHANGED <<pc, kinds, todo, part, answered, before, claims>>
             ELSE LeaveVisit
    /\ UNCHANGED <<listed, now, replies, errs>>

BoxesDone ==
    /\ pc = "boxes" /\ NextBoxes = {}
    /\ NoSend
    /\ UNCHANGED <<listed, now, server, replies, errs, batch>>
    /\ LeaveVisit

\* Whether an overflow box is claimed: there is one, the last claim took one,
\* and the bound is not reached.
Drains(left) == left > 0 /\ (before < 0 \/ left < before) /\ claims < OverflowMax

\* An overflow box; the server may answer and not grant it.  Then read again.
ClaimOverflow ==
    /\ pc = "drain" /\ Drains(LeftOver(A, info))
    /\ \/ \E o \in Outcomes :
             /\ Send("claim", o)
             /\ batch' = batch \cup ErrorOf(o)
             /\ IF o = "none" THEN Accepts([server[A] EXCEPT !.drained = @ + 1]) ELSE UNCHANGED server
             /\ IF o = "none"
                THEN /\ pc' = "read" /\ before' = LeftOver(A, info) /\ claims' = claims + 1
                     /\ UNCHANGED <<kinds, todo, part, info, answered>>
                ELSE LeaveVisit
       \/ /\ link = "up"
          /\ faults' = faults \cup {<<"claim", "ignored">>}
          /\ pc' = "read" /\ before' = LeftOver(A, info) /\ claims' = claims + 1
          /\ UNCHANGED <<link, late, batch, server, kinds, todo, part, info, answered>>
    /\ UNCHANGED <<listed, now, replies, errs>>

OverflowDone ==
    /\ pc = "drain" /\ ~Drains(LeftOver(A, info))
    /\ NoSend
    /\ UNCHANGED <<listed, now, server, replies, errs, batch>>
    /\ LeaveVisit

Claims == TakeKind \/ Read \/ ClaimTasks \/ TasksDone \/ Reread \/ ClaimBoxes \/ BoxesDone
              \/ ClaimOverflow \/ OverflowDone

=============================================================================
