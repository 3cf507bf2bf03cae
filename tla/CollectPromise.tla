--------------------------- MODULE CollectPromise ---------------------------
(***************************************************************************)
(* What the parts of a run that send requests promise to the rest of it    *)
(* (main.go), whatever they ask for: errors are joined, a broken           *)
(* connection ends the core at once and is among its errors, and the core  *)
(* comes to an end.  What runs after the core, the features, may lose the  *)
(* connection and report nothing: TodayDuel answers a failed read with "no *)
(* duel" (src/internal/game/duel.go).                                      *)
(***************************************************************************)
EXTENDS Integers

VARIABLES
    link,   \* the connection: "up", "dead", or "ended" by the server
    part,   \* "core", "features" or "done"
    errs    \* the errors joined so far

promiseVars == <<link, part, errs>>

Failures == {"refused", "timeout", "dead", "ended"}
Fatal == {"dead", "ended"}

PromiseInit ==
    /\ link \in {"up"} \cup Fatal
    /\ part \in {"core", "features"}
    /\ errs = {}

\* A request fails: on a broken connection it can only fail that way.
Fail(o) ==
    /\ part # "done"
    /\ link \in {"up", o}
    /\ errs' = errs \cup {o}
    /\ IF o \in Fatal THEN link' = o /\ part' = "done" ELSE UNCHANGED <<link, part>>

\* The core is through: it cannot be without a connection.
CoreDone ==
    /\ part = "core"
    /\ link = "up"
    /\ part' = "features"
    /\ UNCHANGED <<link, errs>>

\* A feature loses the connection without a word.
LoseQuietly(o) ==
    /\ part = "features"
    /\ link = "up"
    /\ link' = o
    /\ UNCHANGED <<part, errs>>

FeaturesDone ==
    /\ part = "features"
    /\ part' = "done"
    /\ UNCHANGED <<link, errs>>

PromiseNext ==
    \/ \E o \in Failures : Fail(o)
    \/ CoreDone
    \/ \E o \in Fatal : LoseQuietly(o)
    \/ FeaturesDone

\* The core ends, one way or the other.
CoreEnds == CoreDone \/ (part = "core" /\ \E o \in Fatal : Fail(o))

CoreSafety == PromiseInit /\ [][PromiseNext]_promiseVars

CorePromise == CoreSafety /\ WF_promiseVars(CoreEnds)
=============================================================================
