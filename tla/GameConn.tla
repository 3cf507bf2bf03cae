------------------------------ MODULE GameConn ------------------------------
(***************************************************************************)
(* One game connection (src/internal/session/conn.go, wire.go and the      *)
(* frame reader of src/internal/sfs/packet.go): the main goroutine, which  *)
(* sends requests and is the only reader, the heartbeat goroutine, which   *)
(* shares the socket's write side with it, and the server at the other     *)
(* end of the TCP stream.                                                  *)
(*                                                                         *)
(* A frame is abstracted to what the read loops tell apart, a request to   *)
(* its `_id` and its cmd.  Time is abstracted to deadlines: a wait's       *)
(* deadline has passed or it has not.                                      *)
(***************************************************************************)
EXTENDS Naturals, Sequences

CONSTANTS
    Cmds,                 \* the extension commands the main flow sends
    MaxDecodeFailures,    \* MaxConsecutiveDecodeFailures (20 in the code)
    MaxNonMatching,       \* MaxNonMatchingEnvelopesPerWait (1000 in the code)
    MaxRequests,          \* bound: extension requests per connection
    MaxInFlight           \* bound: frames on their way to the client

ASSUME CmdsAssumption ==
    /\ Cmds # {}
    /\ {"none", "ping", "Login", "login.init"} \cap Cmds = {}

ASSUME BoundsAssumption ==
    /\ MaxDecodeFailures \in Nat
    /\ MaxNonMatching \in Nat
    /\ MaxRequests \in Nat
    /\ MaxInFlight \in Nat

Main == "main"
Heart == "heart"
Senders == {Main, Heart}
Free == "free"

\* The `_id` of the Login envelope; the extension sequence continues after it.
loginFutureID == 1

Request == [id : Nat, cmd : Cmds \cup {"none", "ping", "Login", "login.init"}]
NoReq == [id |-> 0, cmd |-> "none"]
Ping == [id |-> 0, cmd |-> "ping"]
Login == [id |-> loginFutureID, cmd |-> "Login"]

\* What the server puts on the stream: an answer to a request, any other
\* well-formed envelope (a push, a pong), a frame that does not decode, or a
\* terminal push (push.user.off, push.server.stop, init.error).
Frame == [kind : {"answer", "push", "bad", "terminal"}, req : Request]

VARIABLES
    conn,       \* "open", or "closed" once Close has run
    stop,       \* the stopHeartbeat channel is closed
    ended,      \* a terminal push was read (GameConn.ended)
    extSent,    \* extension requests begun (GameConn.extSent)
    wmu,        \* who holds the write mutex
    pc,         \* where each goroutine is
    stage,      \* how far the main flow has come on this connection
    cur,        \* the request the main goroutine is sending or waiting for
    mid,        \* the reader has consumed part of a frame
    wait,       \* the running wait: its two counters and its deadline
    peer,       \* the server's side: "up", "stalled" (takes no bytes), "gone"
    down,       \* frames on their way to the client
    answered,   \* ids the server has answered
    \* what has happened, for the properties
    wire,       \* requests written to the socket, in order
    torn,       \* goroutines that left part of a frame on an open connection
    late,       \* writes that went out after the session had ended
    desync,     \* a read began in the middle of a frame
    accepted,   \* pairs: a request and the answer taken for it
    timedOut    \* requests whose wait was given up

sockVars == <<conn, stop>>
readVars == <<mid, desync, ended>>
netVars == <<peer, down, answered>>
pastVars == <<accepted, timedOut>>
sendVars == <<wire, torn, late, wmu>>
vars == <<sockVars, readVars, netVars, pastVars, sendVars,
          extSent, pc, stage, cur, wait>>

FreshWait == [bad |-> 0, other |-> 0, expired |-> FALSE]

Init ==
    /\ conn = "open"
    /\ stop = FALSE
    /\ ended = FALSE
    /\ extSent = 0
    /\ wmu = Free
    /\ pc = [p \in Senders |-> IF p = Main THEN "idle" ELSE "off"]
    /\ stage = "dialed"
    /\ cur = NoReq
    /\ mid = FALSE
    /\ wait = FreshWait
    /\ peer = "up"
    /\ down = <<>>
    /\ answered = {}
    /\ wire = <<>>
    /\ torn = {}
    /\ late = [p \in Senders |-> 0]
    /\ desync = FALSE
    /\ accepted = {}
    /\ timedOut = {}

-----------------------------------------------------------------------------
(* The main flow begins an operation. *)

\* Close: the socket and the heartbeat's stop channel, once, whoever calls it.
Close ==
    /\ conn' = "closed"
    /\ stop' = TRUE

\* StartHeartbeat sends the first ping itself, before its goroutine exists.
StartHeartbeat ==
    /\ stage = "dialed"
    /\ pc[Main] = "idle"
    /\ cur' = Ping
    /\ pc' = [pc EXCEPT ![Main] = "check"]
    /\ UNCHANGED <<sockVars, readVars, netVars, pastVars, sendVars,
                   extSent, stage, wait>>

SendLogin ==
    /\ stage = "login"
    /\ pc[Main] = "idle"
    /\ cur' = Login
    /\ pc' = [pc EXCEPT ![Main] = "check"]
    /\ UNCHANGED <<sockVars, readVars, netVars, pastVars, sendVars,
                   extSent, stage, wait>>

\* SendExtension: every call advances the sequence, also one whose caller set
\* `_id` itself, and also one that is then refused or fails.
SendExtension(cmd, id) ==
    /\ extSent < MaxRequests
    /\ extSent' = extSent + 1
    /\ cur' = [id |-> id, cmd |-> cmd]
    /\ pc' = [pc EXCEPT ![Main] = "check"]
    /\ UNCHANGED <<sockVars, readVars, netVars, pastVars, sendVars, wait>>

\* The login.init fallback sets `_id` 2; nothing waits for its answer.
LoginInit ==
    /\ stage = "init"
    /\ pc[Main] = "idle"
    /\ SendExtension("login.init", 2)
    /\ stage' = "run"

NextId == extSent + 1 + loginFutureID

SendCmd(cmd) ==
    /\ stage \in {"init", "run"}
    /\ pc[Main] = "idle"
    /\ SendExtension(cmd, NextId)
    /\ stage' = "run"

-----------------------------------------------------------------------------
(* SendEnvelope, by either goroutine. *)

\* A variant in which the heartbeat ticks on after a refusal.
AfterRefusalTickOn(p) == IF p = Main THEN "dead" ELSE "idle"

\* How a refused or failed send ends: SendStageError is never a timeout, so the
\* main flow gives the connection up; a failed ping closes it; a heartbeat that
\* is refused because the session has ended just returns.
AfterRefusal(p) == IF p = Main THEN "dead" ELSE "off"

AfterWriteError(p) == IF p = Main THEN "dead" ELSE "closing"

\* A variant without the session-ended check.
CheckNothing(p) ==
    /\ pc[p] = "check"
    /\ pc' = [pc EXCEPT ![p] = "lock"]
    /\ UNCHANGED <<sockVars, readVars, netVars, pastVars, sendVars,
                   extSent, stage, cur, wait>>

\* The session-ended check comes first, before the write mutex is taken.
Check(p) ==
    /\ pc[p] = "check"
    /\ pc' = [pc EXCEPT ![p] = IF ended THEN AfterRefusal(p) ELSE "lock"]
    /\ UNCHANGED <<sockVars, readVars, netVars, pastVars, sendVars,
                   extSent, stage, cur, wait>>

Lock(p) ==
    /\ pc[p] = "lock"
    /\ wmu = Free
    /\ wmu' = p
    /\ pc' = [pc EXCEPT ![p] = "write"]
    /\ UNCHANGED <<sockVars, readVars, netVars, pastVars, wire, torn, late,
                   extSent, stage, cur, wait>>

\* The frame goes out whole and the mutex is released.
WroteFrame(p) ==
    /\ pc[p] = "write"
    /\ conn = "open"
    /\ peer # "stalled"
    /\ wmu' = Free
    /\ late' = IF ended THEN [late EXCEPT ![p] = @ + 1] ELSE late
    /\ UNCHANGED <<sockVars, readVars, netVars, pastVars, torn, extSent>>

\* The first ping is out: the heartbeat goroutine starts.
WriteFirstPing ==
    /\ cur = Ping
    /\ WroteFrame(Main)
    /\ pc' = [pc EXCEPT ![Main] = "idle", ![Heart] = "idle"]
    /\ stage' = "login"
    /\ UNCHANGED <<wire, cur, wait>>

\* A request is out; its wait starts with a fresh deadline and counters.
WriteRequest ==
    /\ cur # Ping
    /\ cur.cmd # "login.init"
    /\ WroteFrame(Main)
    /\ wire' = Append(wire, cur)
    /\ pc' = [pc EXCEPT ![Main] = "loop"]
    /\ wait' = FreshWait
    /\ UNCHANGED <<stage, cur>>

WriteLoginInit ==
    /\ cur.cmd = "login.init"
    /\ WroteFrame(Main)
    /\ wire' = Append(wire, cur)
    /\ pc' = [pc EXCEPT ![Main] = "idle"]
    /\ UNCHANGED <<stage, cur, wait>>

WritePing ==
    /\ WroteFrame(Heart)
    /\ pc' = [pc EXCEPT ![Heart] = "idle"]
    /\ UNCHANGED <<wire, stage, cur, wait>>

\* A variant without a write deadline.
WriteErrorNoDeadline(p) ==
    /\ pc[p] = "write"
    /\ conn = "closed" \/ peer = "gone"
    /\ wmu' = Free
    /\ pc' = [pc EXCEPT ![p] = AfterWriteError(p)]
    /\ UNCHANGED <<sockVars, readVars, netVars, pastVars, wire, torn, late,
                   extSent, stage, cur, wait>>

\* The write fails: the socket is closed, the peer is gone, or the peer takes no
\* bytes and the 10 s write deadline passes. Part of the frame may be out. The
\* first ping's sender closes the connection itself and the login goes on (and
\* fails at its own send).
WriteError(p) ==
    /\ pc[p] = "write"
    /\ conn = "closed" \/ peer \in {"stalled", "gone"}
    /\ wmu' = Free
    /\ IF p = Main /\ cur = Ping
         THEN /\ Close
              /\ pc' = [pc EXCEPT ![Main] = "idle"]
              /\ stage' = "login"
              /\ UNCHANGED torn
         ELSE /\ pc' = [pc EXCEPT ![p] = AfterWriteError(p)]
              /\ torn' \in IF conn = "open" THEN {torn, torn \cup {p}} ELSE {torn}
              /\ UNCHANGED <<sockVars, stage>>
    /\ UNCHANGED <<readVars, netVars, pastVars, wire, late, extSent, cur, wait>>

-----------------------------------------------------------------------------
(* The heartbeat goroutine. *)

HeartTick ==
    /\ pc[Heart] = "idle"
    /\ pc' = [pc EXCEPT ![Heart] = "check"]
    /\ UNCHANGED <<sockVars, readVars, netVars, pastVars, sendVars,
                   extSent, stage, cur, wait>>

HeartStop ==
    /\ pc[Heart] = "idle"
    /\ stop
    /\ pc' = [pc EXCEPT ![Heart] = "off"]
    /\ UNCHANGED <<sockVars, readVars, netVars, pastVars, sendVars,
                   extSent, stage, cur, wait>>

\* A ping that could not be sent closes the connection under the main flow.
HeartClose ==
    /\ pc[Heart] = "closing"
    /\ Close
    /\ pc' = [pc EXCEPT ![Heart] = "off"]
    /\ UNCHANGED <<readVars, netVars, pastVars, sendVars,
                   extSent, stage, cur, wait>>

-----------------------------------------------------------------------------
(* WaitFor and ReadEnvelope, in the main goroutine. *)

\* The main flow of a login gives up on any error; the collect loop goes on to
\* its next action after one that only means "no answer in time".
GiveUp ==
    /\ pc' = [pc EXCEPT ![Main] = IF stage = "login" THEN "dead" ELSE "idle"]
    /\ timedOut' = timedOut \cup {cur}

\* A variant in which the caller goes on after an error that is no timeout.
AbortGoOn == pc' = [pc EXCEPT ![Main] = "idle"]

Abort == pc' = [pc EXCEPT ![Main] = "dead"]

\* Top of the loop: past the deadline the wait ends, benignly, even under a
\* steady stream of other envelopes.
WaitLoop ==
    /\ pc[Main] = "loop"
    /\ IF wait.expired
         THEN GiveUp
         ELSE /\ pc' = [pc EXCEPT ![Main] = "read"]
              /\ UNCHANGED timedOut
    /\ UNCHANGED <<sockVars, readVars, netVars, sendVars, accepted,
                   extSent, stage, cur, wait>>

\* The leading header byte arrives; from here on the frame is partly consumed.
ReadHeader ==
    /\ pc[Main] = "read"
    /\ ~ended
    /\ down # <<>>
    /\ mid' = TRUE
    /\ desync' = (desync \/ mid)
    /\ pc' = [pc EXCEPT ![Main] = "body"]
    /\ UNCHANGED <<sockVars, ended, netVars, pastVars, sendVars,
                   extSent, stage, cur, wait>>

\* A variant whose read has no deadline and ends only with the connection.
ReadTimeoutNever ==
    /\ pc[Main] = "read"
    /\ wait.expired
    /\ conn = "closed"
    /\ GiveUp
    /\ UNCHANGED <<sockVars, readVars, netVars, sendVars, accepted,
                   extSent, stage, cur, wait>>

\* Nothing arrived before the deadline: nothing was consumed, so a later read
\* may try again.
ReadTimeout ==
    /\ pc[Main] = "read"
    /\ ~ended
    /\ wait.expired
    /\ GiveUp
    /\ UNCHANGED <<sockVars, readVars, netVars, sendVars, accepted,
                   extSent, stage, cur, wait>>

\* The stream ended, or the heartbeat closed the socket under the read.
ReadLost ==
    /\ pc[Main] = "read"
    /\ ended \/ conn = "closed" \/ peer = "gone"
    /\ Abort
    /\ UNCHANGED <<sockVars, readVars, netVars, pastVars, sendVars,
                   extSent, stage, cur, wait>>

\* Any failure after the header, also a mere timeout, is a DeadConnError: the
\* reader now stands in the middle of a frame. So it does after a frame whose
\* length field is over the limit, whose body it leaves unread.
AfterFrameError == Abort /\ UNCHANGED timedOut

ReadFrameError ==
    /\ pc[Main] = "body"
    /\ \/ wait.expired \/ conn = "closed" \/ peer = "gone"
       \/ down # <<>> /\ Head(down).kind = "bad"
    /\ AfterFrameError
    /\ UNCHANGED <<sockVars, readVars, netVars, sendVars, accepted,
                   extSent, stage, cur, wait>>

\* The rest of the frame arrives and the reader is at a frame boundary again.
FrameRead(kinds) ==
    /\ pc[Main] = "body"
    /\ down # <<>>
    /\ Head(down).kind \in kinds
    /\ down' = Tail(down)
    /\ mid' = FALSE
    /\ UNCHANGED <<sockVars, desync, peer, answered, sendVars, extSent, cur>>

\* A variant that takes any answer.
MatchesAny(frame) == frame.kind = "answer"

\* WaitForCmd compares the cmd alone.
Matches(frame) == frame.kind = "answer" /\ frame.req.cmd = cur.cmd

\* The awaited envelope. A Login answer is an acceptance, or a rejection or
\* redirect, after which this connection is given up.
TakeAnswer ==
    /\ FrameRead({"answer"})
    /\ Matches(Head(down))
    /\ accepted' = accepted \cup {<<cur, Head(down).req>>}
    /\ \/ /\ pc' = [pc EXCEPT ![Main] = "idle"]
          /\ stage' = IF stage = "login" THEN "init" ELSE stage
       \/ /\ stage = "login"
          /\ Abort
          /\ UNCHANGED stage
    /\ UNCHANGED <<ended, timedOut, wait>>

\* Another well-formed envelope is dropped; too many of them end the wait as a
\* timeout would.
SkipEnvelope ==
    /\ FrameRead({"answer", "push"})
    /\ ~Matches(Head(down))
    /\ wait' = [wait EXCEPT !.bad = 0, !.other = @ + 1]
    /\ IF wait'.other > MaxNonMatching
         THEN GiveUp
         ELSE /\ pc' = [pc EXCEPT ![Main] = "loop"]
              /\ UNCHANGED timedOut
    /\ UNCHANGED <<ended, stage, accepted>>

\* A frame that does not decode was consumed whole, so the stream is in step:
\* the wait goes on, but a run of them means the connection is dead.
SkipUndecodable ==
    /\ FrameRead({"bad"})
    /\ wait' = [wait EXCEPT !.bad = @ + 1]
    /\ IF wait'.bad > MaxDecodeFailures
         THEN Abort
         ELSE pc' = [pc EXCEPT ![Main] = "loop"]
    /\ UNCHANGED <<ended, stage, pastVars>>

\* endIfTerminalPush: the session has ended for every later read and send.
ReadTerminalPush ==
    /\ FrameRead({"terminal"})
    /\ ended' = TRUE
    /\ Abort
    /\ UNCHANGED <<stage, pastVars, wait>>

\* The main flow closes: after a failure that ends the run or the login
\* attempt, or because it has done everything.
MainClose ==
    /\ pc[Main] = "dead" \/ (pc[Main] = "idle" /\ stage \in {"init", "run"})
    /\ Close
    /\ pc' = [pc EXCEPT ![Main] = "done"]
    /\ UNCHANGED <<readVars, netVars, pastVars, sendVars,
                   extSent, stage, cur, wait>>

-----------------------------------------------------------------------------
(* Time and the server (not part of src: what the code has to cope with). *)

Waiting == pc[Main] \in {"loop", "read", "body"}

Expire ==
    /\ Waiting
    /\ ~wait.expired
    /\ wait' = [wait EXCEPT !.expired = TRUE]
    /\ UNCHANGED <<sockVars, readVars, netVars, pastVars, sendVars,
                   extSent, pc, stage, cur>>

Arrive(frame) ==
    /\ conn = "open"
    /\ peer # "gone"
    /\ Len(down) < MaxInFlight
    /\ down' = Append(down, frame)

\* The server answers a request once, or never, in any order.
ServerAnswer ==
    \E i \in DOMAIN wire :
        /\ wire[i].id \notin answered
        /\ wire[i].cmd # "login.init"
        /\ Arrive([kind |-> "answer", req |-> wire[i]])
        /\ answered' = answered \cup {wire[i].id}
        /\ UNCHANGED <<sockVars, readVars, peer, pastVars, sendVars,
                       extSent, pc, stage, cur, wait>>

ServerSend ==
    \E kind \in {"push", "bad", "terminal"} :
        /\ Arrive([kind |-> kind, req |-> NoReq])
        /\ UNCHANGED <<sockVars, readVars, peer, answered, pastVars, sendVars,
                       extSent, pc, stage, cur, wait>>

PeerChange ==
    /\ \/ peer = "up" /\ peer' \in {"stalled", "gone"}
       \/ peer = "stalled" /\ peer' \in {"up", "gone"}
    /\ UNCHANGED <<sockVars, readVars, down, answered, pastVars, sendVars,
                   extSent, pc, stage, cur, wait>>

-----------------------------------------------------------------------------
WriteStep(p) ==
    \/ p = Main /\ (WriteFirstPing \/ WriteRequest \/ WriteLoginInit)
    \/ p = Heart /\ WritePing
    \/ WriteError(p)

Reader ==
    \/ WaitLoop \/ ReadHeader \/ ReadTimeout \/ ReadLost \/ ReadFrameError
    \/ TakeAnswer \/ SkipEnvelope \/ SkipUndecodable \/ ReadTerminalPush

Begin ==
    \/ StartHeartbeat \/ SendLogin \/ LoginInit
    \/ \E cmd \in Cmds : SendCmd(cmd)

Heartbeat == HeartTick \/ HeartStop \/ HeartClose

Environment == Expire \/ ServerAnswer \/ ServerSend \/ PeerChange

\* Both goroutines have ended.
Terminated ==
    /\ pc[Main] = "done"
    /\ pc[Heart] = "off"
    /\ UNCHANGED vars

Next ==
    \/ Begin
    \/ Reader
    \/ MainClose
    \/ Heartbeat
    \/ \E p \in Senders : Check(p) \/ Lock(p) \/ WriteStep(p)
    \/ Environment
    \/ Terminated

\* Goroutines that can run do run, the ticker ticks and deadlines pass. Strong
\* fairness for the mutex: a sync.Mutex hands itself to a starving waiter.
\* Nothing is assumed of the server, nor that the main flow asks or closes.
Fairness ==
    /\ WF_vars(Reader)
    /\ WF_vars(Expire)
    /\ WF_vars(Heartbeat)
    /\ \A p \in Senders :
         WF_vars(Check(p)) /\ SF_vars(Lock(p)) /\ WF_vars(WriteStep(p))

SafeSpec == Init /\ [][Next]_vars

Spec == SafeSpec /\ Fairness

-----------------------------------------------------------------------------
(* Properties. *)

PcValues == {"idle", "check", "lock", "write", "loop", "read", "body",
             "closing", "dead", "done", "off"}

\* Every variable has its type, and a wait's counters stay below their limits.
TypeOK ==
    /\ conn \in {"open", "closed"}
    /\ stop \in BOOLEAN
    /\ ended \in BOOLEAN
    /\ extSent \in Nat
    /\ wmu \in Senders \cup {Free}
    /\ pc \in [Senders -> PcValues]
    /\ stage \in {"dialed", "login", "init", "run"}
    /\ cur \in Request
    /\ mid \in BOOLEAN
    /\ wait \in [bad : 0 .. MaxDecodeFailures + 1,
                 other : 0 .. MaxNonMatching + 1, expired : BOOLEAN]
    /\ peer \in {"up", "stalled", "gone"}
    /\ down \in Seq(Frame)
    /\ answered \subseteq Nat
    /\ wire \in Seq(Request)
    /\ torn \subseteq Senders
    /\ late \in [Senders -> Nat]
    /\ desync \in BOOLEAN
    /\ accepted \subseteq Request \X Request
    /\ timedOut \subseteq Request

\* No two goroutines write to the socket at once, so frames never interleave
\* on the wire (SendEnvelope's wmu).
WriteMutex == \A p, q \in Senders : pc[p] = "write" /\ pc[q] = "write" => p = q

\* The `_id`s on the wire start with Login's and grow from request to request,
\* whatever was refused or failed in between and although login.init sets its
\* own: the server can tell every request of a connection from the others.
UniqueIds ==
    /\ \A i, j \in DOMAIN wire : i < j => wire[i].id < wire[j].id
    /\ \A i \in DOMAIN wire : wire[i].id = loginFutureID <=> i = 1

\* No read begins in the middle of a frame: a read error that left the reader
\* there was never taken for a harmless timeout (ReadFrameField).
NoDesync == ~desync

\* Once a terminal push was read the main flow writes nothing more, and the
\* heartbeat at most the one ping whose ended-check came before the push.
OneLatePing == late[Main] = 0 /\ late[Heart] <= 1

\* An answer taken for a request has its cmd, and it is the answer to another
\* request only if an earlier request of that cmd was given up on: a late
\* answer is the only way WaitForCmd can be given the wrong one.
StaleOnlyAfterTimeout ==
    \A pair \in accepted :
        LET asked == pair[1]
            got == pair[2]
        IN  /\ got.cmd = asked.cmd
            /\ got # asked =>
                 /\ got.id < asked.id
                 /\ \E t \in timedOut : t.cmd = asked.cmd /\ t.id < asked.id

\* A request that went out only in part is the main flow's last: SendStageError
\* is never mistaken for a wait that timed out.
NothingAfterTornRequest == [][(Main \in torn) => UNCHANGED wire]_vars

\* The connection as its user sees it.
Use == INSTANCE SessionUse WITH
    over <- pc[Main] \in {"dead", "done"},
    pending <- pc[Main] \in {"check", "lock", "write", "loop", "read", "body"}
               /\ cur # Ping,
    broken <- ended \/ Main \in torn \/ (mid /\ pc[Main] # "body")

\* The connection keeps its promise to the caller, fairness included.
ImplementsSessionUse == Use!Spec

\* Neither goroutine hangs in a send: the write deadline frees the mutex even
\* when the peer takes no bytes and the main flow never closes.
SendsReturn ==
    \A p \in Senders :
        pc[p] \in {"check", "lock", "write"} ~>
            pc[p] \notin {"check", "lock", "write"}

\* Every wait ends, whatever the server sends or does not send.
WaitReturns == Waiting ~> ~Waiting

\* The heartbeat goroutine ends once the session has ended or the connection
\* was closed, also if nobody closes a connection the server has ended.
HeartbeatStops == (ended \/ conn = "closed") ~> pc[Heart] = "off"
=============================================================================
