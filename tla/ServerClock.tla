---------------------------- MODULE ServerClock ----------------------------
(***************************************************************************)
(* The server time a connection keeps from its pongs (serverClock in       *)
(* src/internal/session/clock.go): the heartbeat's pings carry the host's  *)
(* clock, the pongs echo it beside the server's, and each side may be slow *)
(* in between.  A pong can wait in the socket while other envelopes are    *)
(* read, and it can answer an earlier ping than the last.                  *)
(*                                                                         *)
(* Times are in ms.  now is the host's clock; the server's is now + skew.  *)
(* The names leave those of GameConn free, whose connection the clock is   *)
(* part of: the theorems of both are in GameConnProofs.                    *)
(***************************************************************************)
EXTENDS Integers, Sequences

CONSTANTS
    MaxTime,        \* bound: the host's clock
    MaxPings,       \* bound: pings on their way or unanswered
    Skews,          \* how far the server's clock may be from the host's
    FastRTT,        \* clockReplaceRTT (200 in the code)
    MinServer       \* clockMinServerMs (2020-01-01 in the code)

ASSUME ClockAssumption ==
    /\ {MaxTime, MaxPings, FastRTT} \subseteq Nat
    /\ Skews \subseteq Int
    /\ MinServer \in Int

VARIABLES
    now, skew,      \* the host's clock and the server's distance from it
    start,          \* serverClock.start, NotStarted while it is zero
    pings,          \* the clientTimes of the pings on their way
    pongs,          \* the pongs on their way or unread
    synced, minRTT, base, syncAt,   \* serverClock
    best            \* the shortest round trip of the pongs used so far

clockVars == <<now, skew, start, pings, pongs, synced, minRTT, base, syncAt, best>>

NotStarted == -1

\* A round trip longer than any (math.MaxInt64).
Longest == MaxTime + 1

\* What a pong carries; has is FALSE when one of the times is not there.
Pong == [client : Nat, server : Int, has : BOOLEAN]

Samples == 0 .. Longest

ClockTypeOK ==
    /\ now \in 0 .. MaxTime
    /\ skew \in Skews
    /\ start \in 0 .. MaxTime \cup {NotStarted}
    /\ pings \in Seq(Nat)
    /\ pongs \in Seq(Pong)
    /\ synced \in BOOLEAN
    /\ minRTT \in Samples /\ best \in Samples
    /\ base \in Int /\ syncAt \in Nat

ClockInit ==
    /\ now = 0
    /\ skew \in Skews
    /\ start = NotStarted
    /\ pings = <<>> /\ pongs = <<>>
    /\ synced = FALSE
    /\ minRTT = Longest /\ best = Longest
    /\ base = 0 /\ syncAt = 0

-----------------------------------------------------------------------------
\* setStart, then the first ping at once.
StartClock ==
    /\ start = NotStarted
    /\ start' = now
    /\ minRTT' = Longest
    /\ pings' = <<0>>
    /\ UNCHANGED <<now, skew, pongs, synced, base, syncAt, best>>

\* sendHeartbeat: the time since start goes out.
SendHeartbeat ==
    /\ start # NotStarted
    /\ Len(pings) + Len(pongs) < MaxPings
    /\ pings' = Append(pings, now - start)
    /\ UNCHANGED <<now, skew, start, pongs, synced, minRTT, base, syncAt, best>>

\* The server answers the next ping with its time, or without the times.
Answer ==
    /\ pings # <<>>
    /\ pings' = Tail(pings)
    /\ \E has \in BOOLEAN :
          pongs' = Append(pongs, [client |-> Head(pings), server |-> now + skew, has |-> has])
    /\ UNCHANGED <<now, skew, start, synced, minRTT, base, syncAt, best>>

\* A variant that adds the whole round trip.
SampleWholeTrip(server, rtt) == server + rtt

\* The server's time at arrival: half the round trip after its answer.
Sample(server, rtt) == server + rtt \div 2

\* A variant that takes every sample.
TakesAny(rtt) == TRUE

\* Whether a sample replaces the one in use.
Takes(rtt) == rtt < minRTT \/ rtt < FastRTT \/ minRTT = 0

\* notePong and sync, as of the moment the packet is read off the socket.
ReadPong ==
    /\ pongs # <<>>
    /\ pongs' = Tail(pongs)
    /\ LET p == Head(pongs)
           rtt == now - start - p.client
           usable == p.has /\ p.server >= MinServer /\ start # NotStarted /\ rtt >= 0
       IN /\ best' = IF usable /\ rtt < best THEN rtt ELSE best
          /\ IF usable /\ Takes(rtt)
             THEN /\ minRTT' = rtt
                  /\ base' = Sample(p.server, rtt)
                  /\ syncAt' = now
                  /\ synced' = TRUE
             ELSE UNCHANGED <<minRTT, base, syncAt, synced>>
    /\ UNCHANGED <<now, skew, start, pings>>

Tick ==
    /\ now < MaxTime
    /\ now' = now + 1
    /\ UNCHANGED <<skew, start, pings, pongs, synced, minRTT, base, syncAt, best>>

ClockNext == StartClock \/ SendHeartbeat \/ Answer \/ ReadPong \/ Tick

ClockSpec == ClockInit /\ [][ClockNext]_clockVars

-----------------------------------------------------------------------------
\* ServerNow: the sample in use, run on with the host's monotonic clock.
ServerNow == base + (now - syncAt)

Abs(x) == IF x < 0 THEN -x ELSE x

\* A synced clock is never further from the server's than half the round trip
\* of the sample in use, however long the pong was on its way or lay unread,
\* and whichever ping it answered.
WithinHalfTrip == synced => 2 * Abs(ServerNow - (now + skew)) <= minRTT + 1

\* A slow pong never spoils a clock that a shorter round trip has set: the
\* sample in use is the best yet or a fast one (unless a round trip of 0 was
\* seen, after which sync takes any).
GoodSampleStays == synced /\ best > 0 => minRTT = best \/ minRTT < FastRTT

=============================================================================
