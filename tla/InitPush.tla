------------------------------ MODULE InitPush ------------------------------
(***************************************************************************)
(* The two waits for what the server pushes after a login: waitForInitPush *)
(* (src/internal/auth/login.go), which asks for a push that does not come, *)
(* and fetchInit (src/internal/game/buildings.go), which gathers buildings *)
(* and visitors from several pushes in a window that can only shrink.      *)
(*                                                                         *)
(* Time passes only while a read waits, and a read past its deadline       *)
(* returns: handling an envelope takes no time.                            *)
(***************************************************************************)
EXTENDS Integers, Sequences, SequencesExt, PushLists

CONSTANTS
    MaxDecode,      \* MaxConsecutiveDecodeFailures (20 in the code)
    MaxNonMatching, \* MaxNonMatchingEnvelopesPerWait (1000 in the code)
    Timeout,        \* the wait's budget (12 s, 15 s in the code), in ticks
    Window          \* what is left of a fetch after a push (3 s in the code)

ASSUME InitPushAssumption ==
    /\ Timeout \in Nat \ {0}
    /\ {MaxDecode, MaxNonMatching, Window} \subseteq Nat

VARIABLES
    wait,       \* which wait runs: "none", "login" (waitForInitPush) or "fetch"
    reading,    \* it is reading; otherwise it stands at the top of its loop
    now,        \* ticks since it began
    deadline,   \* when it gives up
    asked,      \* login.init has been sent
    initSeen,   \* an init push has been taken
    bad, other, \* its two counters: frames in a row that did not decode, and
                \* envelopes that did not help
    buildings, visitors,    \* what it has gathered
    result      \* "none", or how it ended: "init", "quiet" (its time is up, or a
                \* list is full), "flooded", "dead", "ended"

pushVars == <<wait, reading, now, deadline, asked, initSeen, bad, other,
              buildings, visitors, result>>

InitPushIdle ==
    /\ wait = "none"
    /\ reading = FALSE
    /\ now = 0
    /\ deadline = Timeout
    /\ asked = FALSE
    /\ initSeen = FALSE
    /\ bad = 0
    /\ other = 0
    /\ buildings = <<>>
    /\ visitors = <<>>
    /\ result = "none"

\* A wait begins with fresh counters and empty lists.
BeginWait(kind) ==
    /\ wait' = kind
    /\ reading' = FALSE
    /\ now' = 0
    /\ deadline' = Timeout
    /\ asked' = FALSE
    /\ initSeen' = FALSE
    /\ bad' = 0
    /\ other' = 0
    /\ buildings' = <<>>
    /\ visitors' = <<>>
    /\ result' = "none"

Running == wait # "none" /\ result = "none"
AtTop == Running /\ ~reading
Reading == Running /\ reading

End(how) == result' = how /\ reading' = FALSE
LoopAgain == reading' = FALSE /\ UNCHANGED result

-----------------------------------------------------------------------------
(* The top of each loop, and the reads of both. *)

Halfway == Timeout \div 2

\* waitForInitPush's loop top: past the deadline it is over; past the middle
\* login.init goes out, once, and a failed send ends the wait.
LoginTop(link) ==
    /\ AtTop
    /\ wait = "login"
    /\ \/ /\ now >= deadline
          /\ End("quiet")
          /\ UNCHANGED asked
       \/ /\ now < deadline
          /\ now >= Halfway
          /\ ~asked
          /\ asked' = TRUE
          /\ \/ link # "dead" /\ reading' = TRUE /\ UNCHANGED result
             \/ link = "dead" /\ End("dead")
       \/ /\ now < deadline
          /\ now < Halfway \/ asked
          /\ reading' = TRUE
          /\ UNCHANGED <<asked, result>>
    /\ UNCHANGED <<wait, now, deadline, initSeen, bad, other, buildings, visitors>>

\* Until login.init is out, a read ends at the middle of the wait.
ReadUntil == IF wait = "login" /\ ~asked /\ Halfway < deadline THEN Halfway ELSE deadline

\* A variant that leaves the deadline to the reads.
FetchTopNoClock ==
    /\ AtTop
    /\ wait = "fetch"
    /\ IF MaxAggregate \in {Len(visitors), Len(buildings)} THEN End("quiet")
       ELSE reading' = TRUE /\ UNCHANGED result
    /\ UNCHANGED <<wait, now, deadline, asked, initSeen, bad, other, buildings, visitors>>

\* fetchInit's loop top: a full list, or the deadline, ends it.
FetchTop ==
    /\ AtTop
    /\ wait = "fetch"
    /\ IF \/ Len(visitors) >= MaxAggregate
          \/ Len(buildings) >= MaxAggregate
          \/ now >= deadline
       THEN End("quiet")
       ELSE reading' = TRUE /\ UNCHANGED result
    /\ UNCHANGED <<wait, now, deadline, asked, initSeen, bad, other, buildings, visitors>>

Pass ==
    /\ Reading
    /\ now < ReadUntil
    /\ now' = now + 1
    /\ UNCHANGED <<wait, reading, deadline, asked, initSeen, bad, other,
                   buildings, visitors, result>>

\* The read times out; before login.init that only means it is time to send it.
ReadExpires ==
    /\ Reading
    /\ now >= ReadUntil
    /\ IF wait = "login" /\ ~asked /\ now < deadline THEN LoopAgain ELSE End("quiet")
    /\ UNCHANGED <<wait, now, deadline, asked, initSeen, bad, other, buildings, visitors>>

\* The connection is lost, or a terminal push is read.
ReadFails(link) ==
    /\ Reading
    /\ link # "up"
    /\ End(link)
    /\ UNCHANGED <<wait, now, deadline, asked, initSeen, bad, other, buildings, visitors>>

\* An envelope does not decode: too many in a row are a dead connection.
ReadUndecodable ==
    /\ Reading
    /\ bad' = bad + 1
    /\ IF bad' > MaxDecode THEN End("dead") ELSE LoopAgain
    /\ UNCHANGED <<wait, now, deadline, asked, initSeen, other, buildings, visitors>>

\* checkNonMatchingEnvelopeCap: any other envelope (push.queue.add and
\* push.build.queue.info among them).
ReadOther ==
    /\ Reading
    /\ bad' = 0
    /\ other' = other + 1
    /\ IF other' > MaxNonMatching THEN End("flooded") ELSE LoopAgain
    /\ UNCHANGED <<wait, now, deadline, asked, initSeen, buildings, visitors>>

-----------------------------------------------------------------------------
(* The pushes that carry the lists. *)

\* waitForInitPush takes the first init push.
LoginInitPush ==
    /\ Reading
    /\ wait = "login"
    /\ \E bs \in BuildingPushes, vs \in VisitorPushes :
          /\ buildings' = AppendAll(<<>>, bs)
          /\ visitors' = AppendAll(<<>>, vs)
    /\ bad' = 0
    /\ initSeen' = TRUE
    /\ End("init")
    /\ UNCHANGED <<wait, now, deadline, asked, other>>

\* capDeadline: never past the budget the caller gave.
CapDeadline(candidate) == IF candidate > Timeout THEN Timeout ELSE candidate

\* fetchInit's "init".
FetchInitPush ==
    /\ Reading
    /\ wait = "fetch"
    /\ \E bs \in BuildingPushes, vs \in VisitorPushes :
          /\ buildings' = AppendAll(buildings, bs)
          /\ visitors' = AppendAll(visitors, vs)
    /\ bad' = 0
    /\ initSeen' = TRUE
    /\ deadline' = CapDeadline(now + Window)
    /\ LoopAgain
    /\ UNCHANGED <<wait, now, asked, other>>

\* A variant in which the secondary push shortens the wait too.
FetchBuildPushShrinks ==
    /\ Reading
    /\ wait = "fetch"
    /\ \E bs \in BuildingPushes : buildings' = AppendAll(buildings, bs)
    /\ bad' = 0
    /\ deadline' = CapDeadline(now + Window)
    /\ LoopAgain
    /\ UNCHANGED <<wait, now, asked, initSeen, other, visitors>>

\* "push.init.build": it shortens the wait only once init itself is in.
FetchBuildPush ==
    /\ Reading
    /\ wait = "fetch"
    /\ \E bs \in BuildingPushes : buildings' = AppendAll(buildings, bs)
    /\ bad' = 0
    /\ deadline' = IF initSeen THEN CapDeadline(now + Window) ELSE deadline
    /\ LoopAgain
    /\ UNCHANGED <<wait, now, asked, initSeen, other, visitors>>

\* "push.add.building".
FetchAddPush ==
    /\ Reading
    /\ wait = "fetch"
    /\ \E bs \in BuildingPushes : buildings' = AppendAll(buildings, bs)
    /\ bad' = 0
    /\ LoopAgain
    /\ UNCHANGED <<wait, now, deadline, asked, initSeen, other, visitors>>

Received ==
    \/ ReadUndecodable
    \/ ReadOther
    \/ LoginInitPush
    \/ FetchInitPush
    \/ FetchBuildPush
    \/ FetchAddPush

\* One step of the wait that runs, over a connection in state link.
WaitStep(link) == LoginTop(link) \/ FetchTop \/ ReadExpires \/ ReadFails(link) \/ (link = "up" /\ Received)
=============================================================================
