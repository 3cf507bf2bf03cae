--------------------------- MODULE GameConnProofs ---------------------------
(***************************************************************************)
(* Proofs about GameConn, for any set of cmds and any limits and bounds:   *)
(* its type invariant, the safety invariants that the run of MCGameConn    *)
(* checks on a small instance, and that it implements the safety part of   *)
(* SessionUse.                                                             *)
(*                                                                         *)
(* None of the invariants is inductive alone.  IInv is: it adds where each *)
(* goroutine must be when the session has ended, when the reader stands    *)
(* inside a frame and when a request went out in part, and how the next    *)
(* `_id` relates to those on the wire at each stage of the main flow.      *)
(*                                                                         *)
(* The last part is about the connection's clock (ServerClock): it is      *)
(* within half the round trip of the sample in use, and the sample in use  *)
(* is the best yet or a fast one.                                          *)
(***************************************************************************)
EXTENDS GameConn, ServerClock, TLAPS

Sending == pc[Main] \in {"check", "lock", "write"}

\* A writer holds the mutex.
MutexInv == \A p \in Senders : pc[p] = "write" => wmu = p

\* Reading the terminal push is the main flow's last act on the connection, and
\* a ping that went out after it was the one already past its check.
EndedInv ==
    /\ ended => pc[Main] \in {"dead", "done"}
    /\ late[Main] = 0
    /\ \/ late[Heart] = 0
       \/ late[Heart] = 1 /\ ended /\ pc[Heart] \notin {"lock", "write"}

\* The reader is inside a frame only while it reads it, or never reads again.
FrameInv ==
    /\ ~desync
    /\ mid => pc[Main] \in {"body", "dead", "done"}

\* A request that went out in part was the last one.
TornInv == Main \in torn => pc[Main] \in {"dead", "done"}

\* The counters of a wait that goes on are within their limits.
WaitInv ==
    Waiting => wait.bad <= MaxDecodeFailures /\ wait.other <= MaxNonMatching

\* What has been sent, and what may be sent next, at each stage.
IdInv ==
    /\ stage = "dialed" =>
         /\ pc[Main] = "idle" \/ (Sending /\ cur = Ping)
         /\ wire = <<>>
    /\ stage = "login" =>
         /\ pc[Main] = "idle" \/ cur = Login
         /\ Sending \/ pc[Main] = "idle" => wire = <<>>
         /\ Waiting => wire # <<>>
    /\ stage = "init" => ~Sending
    /\ stage \in {"init", "run"} => cur # Ping /\ wire # <<>>
    /\ stage # "run" => extSent = 0
    /\ stage = "run" /\ Sending =>
         /\ cur.id = extSent + 1
         /\ \A i \in DOMAIN wire : wire[i].id < cur.id
    /\ \A i \in DOMAIN wire : wire[i].id <= extSent + 1
    /\ UniqueIds

IInv ==
    /\ TypeOK
    /\ MutexInv
    /\ EndedInv
    /\ FrameInv
    /\ TornInv
    /\ WaitInv
    /\ IdInv

-----------------------------------------------------------------------------
(* Facts about actions, used in several proofs. *)

\* Time and the server change nothing but the deadline, the peer and the frames
\* on their way: they do not move a goroutine.
LEMMA EnvironmentFrame ==
    ASSUME Environment
    PROVE  /\ UNCHANGED <<conn, stop, ended, extSent, wmu, pc, stage, cur, mid>>
           /\ UNCHANGED <<wire, torn, late, desync, accepted, timedOut>>
<1> USE DEF sockVars, readVars, netVars, pastVars, sendVars
<1>1. CASE Expire
  BY <1>1 DEF Expire
<1>2. CASE ServerAnswer
  BY <1>2 DEF ServerAnswer
<1>3. CASE ServerSend
  BY <1>3 DEF ServerSend
<1>4. CASE PeerChange
  BY <1>4 DEF PeerChange
<1> QED
  BY <1>1, <1>2, <1>3, <1>4 DEF Environment

\* The records the actions build are requests, frames and waits.
LEMMA RequestTypes ==
    /\ Ping \in Request
    /\ Login \in Request
    /\ NoReq \in Request
    /\ \A id \in Nat, cmd \in Cmds \cup {"login.init"} :
         [id |-> id, cmd |-> cmd] \in Request
    /\ \A req \in Request : req.id \in Nat
    /\ Ping.id = 0 /\ Ping.cmd = "ping"
    /\ Login.id = 1 /\ Login.cmd = "Login"
BY DEF Request, Ping, Login, NoReq, loginFutureID

\* The server's frames are frames.
LEMMA FrameTypes ==
    /\ \A kind \in {"answer", "push", "bad", "terminal"}, req \in Request :
         [kind |-> kind, req |-> req] \in Frame
    /\ \A frame \in Frame : frame.req \in Request
BY DEF Frame

\* What a wait may hold while it goes on, and just after.
WaitType == [bad : 0 .. MaxDecodeFailures + 1,
             other : 0 .. MaxNonMatching + 1, expired : BOOLEAN]

\* A wait that goes on may count one more frame.
LEMMA WaitTypes ==
    /\ FreshWait \in WaitType
    /\ \A w \in WaitType : [w EXCEPT !.expired = TRUE] \in WaitType
    /\ \A w \in WaitType : w.bad <= MaxDecodeFailures => [w EXCEPT !.bad = @ + 1] \in WaitType
    /\ \A w \in WaitType :
         w.other <= MaxNonMatching => [w EXCEPT !.bad = 0, !.other = @ + 1] \in WaitType
<1>1. ASSUME NEW w \in WaitType, w.other <= MaxNonMatching
      PROVE  [w EXCEPT !.bad = 0, !.other = @ + 1] \in WaitType
  <2>1. w.other + 1 \in 0 .. MaxNonMatching + 1 /\ 0 \in 0 .. MaxDecodeFailures + 1
    BY <1>1, BoundsAssumption DEF WaitType
  <2> QED
    BY <2>1 DEF WaitType
<1>2. ASSUME NEW w \in WaitType, w.bad <= MaxDecodeFailures
      PROVE  [w EXCEPT !.bad = @ + 1] \in WaitType
  BY <1>2, BoundsAssumption DEF WaitType
<1>3. FreshWait \in WaitType
  BY BoundsAssumption DEF WaitType, FreshWait
<1>4. \A w \in WaitType : [w EXCEPT !.expired = TRUE] \in WaitType
  BY DEF WaitType
<1> QED
  BY <1>1, <1>2, <1>3, <1>4

\* Taking a frame off the stream leaves frames on it.
LEMMA FrameReadType ==
    ASSUME TypeOK, NEW kinds, FrameRead(kinds)
    PROVE  /\ Head(down) \in Frame
           /\ down' \in Seq(Frame)
           /\ mid' = FALSE
           /\ UNCHANGED <<conn, stop, desync, peer, answered, wire, torn, late, wmu,
                          extSent, cur>>
BY DEF FrameRead, TypeOK, sockVars, sendVars

-----------------------------------------------------------------------------
(* The steps preserve each part of the invariant. *)

\* A goroutine writes only with the mutex, and nobody takes it from another.
LEMMA MutexInvStep == IInv /\ [Next]_vars => MutexInv'
<1> SUFFICES ASSUME IInv, [Next]_vars PROVE MutexInv'
  OBVIOUS
<1> USE BoundsAssumption DEF IInv, MutexInv, TypeOK, PcValues, Senders, Main, Heart, Free,
      sockVars, readVars, netVars, pastVars, sendVars, FreshWait
<1>1. CASE Begin
  BY <1>1 DEF Begin, StartHeartbeat, SendLogin, LoginInit, SendCmd, SendExtension
<1>2. CASE Reader
  BY <1>2 DEF Reader, WaitLoop, ReadHeader, ReadTimeout, ReadLost, ReadFrameError, TakeAnswer,
              SkipEnvelope, SkipUndecodable, ReadTerminalPush, FrameRead, GiveUp, Abort,
              AfterFrameError
<1>3. CASE MainClose
  BY <1>3 DEF MainClose, Close
<1>4. CASE Heartbeat
  BY <1>4 DEF Heartbeat, HeartTick, HeartStop, HeartClose, Close
<1>5. ASSUME NEW p \in Senders, Check(p) PROVE MutexInv'
  BY <1>5 DEF Check, AfterRefusal
<1>6. ASSUME NEW p \in Senders, Lock(p) PROVE MutexInv'
  BY <1>6 DEF Lock
<1>7. ASSUME NEW p \in Senders, WriteStep(p) PROVE MutexInv'
  BY <1>7 DEF WriteStep, WriteFirstPing, WriteRequest, WriteLoginInit, WritePing,
              WroteFrame, WriteError, AfterWriteError, Close
<1>8. CASE Environment
  BY <1>8, EnvironmentFrame
<1>9. CASE Terminated \/ UNCHANGED vars
  BY <1>9 DEF Terminated, vars
<1> QED
  BY <1>1, <1>2, <1>3, <1>4, <1>5, <1>6, <1>7, <1>8, <1>9 DEF Next

\* Only the reader ends the session, and it stops with it.
LEMMA EndedInvStep == IInv /\ [Next]_vars => EndedInv'
<1> SUFFICES ASSUME IInv, [Next]_vars PROVE EndedInv'
  OBVIOUS
<1> USE BoundsAssumption DEF IInv, EndedInv, TypeOK, PcValues, Senders, Main, Heart, Free,
      sockVars, readVars, netVars, pastVars, sendVars, FreshWait
<1>1. CASE Begin
  BY <1>1 DEF Begin, StartHeartbeat, SendLogin, LoginInit, SendCmd, SendExtension
<1>2. CASE Reader
  <2>1. CASE WaitLoop
    BY <2>1 DEF WaitLoop, GiveUp
  <2>2. CASE ReadHeader
    BY <2>2 DEF ReadHeader
  <2>3. CASE ReadTimeout
    BY <2>3 DEF ReadTimeout, GiveUp
  <2>4. CASE ReadLost
    BY <2>4 DEF ReadLost, Abort
  <2>5. CASE ReadFrameError
    BY <2>5 DEF ReadFrameError, AfterFrameError, Abort
  <2>6. CASE TakeAnswer
    BY <2>6 DEF TakeAnswer, Abort, FrameRead
  <2>7. CASE SkipEnvelope
    BY <2>7 DEF SkipEnvelope, GiveUp, FrameRead
  <2>8. CASE SkipUndecodable
    BY <2>8 DEF SkipUndecodable, Abort, FrameRead
  <2>9. CASE ReadTerminalPush
    BY <2>9 DEF ReadTerminalPush, Abort, FrameRead
  <2> QED
    BY <1>2, <2>1, <2>2, <2>3, <2>4, <2>5, <2>6, <2>7, <2>8, <2>9 DEF Reader
<1>3. CASE MainClose
  BY <1>3 DEF MainClose, Close
<1>4. CASE Heartbeat
  BY <1>4 DEF Heartbeat, HeartTick, HeartStop, HeartClose, Close
<1>5. ASSUME NEW p \in Senders, Check(p) PROVE EndedInv'
  BY <1>5 DEF Check, AfterRefusal
<1>6. ASSUME NEW p \in Senders, Lock(p) PROVE EndedInv'
  BY <1>6 DEF Lock
<1>7. ASSUME NEW p \in Senders, WriteStep(p) PROVE EndedInv'
  BY <1>7 DEF WriteStep, WriteFirstPing, WriteRequest, WriteLoginInit, WritePing,
              WroteFrame, WriteError, AfterWriteError, Close
<1>8. CASE Environment
  BY <1>8, EnvironmentFrame
<1>9. CASE Terminated \/ UNCHANGED vars
  BY <1>9 DEF Terminated, vars
<1> QED
  BY <1>1, <1>2, <1>3, <1>4, <1>5, <1>6, <1>7, <1>8, <1>9 DEF Next

\* Whatever leaves the reader inside a frame is fatal to the main flow.
LEMMA FrameInvStep == IInv /\ [Next]_vars => FrameInv'
<1> SUFFICES ASSUME IInv, [Next]_vars PROVE FrameInv'
  OBVIOUS
<1> USE BoundsAssumption DEF IInv, FrameInv, TypeOK, PcValues, Senders, Main, Heart, Free,
      sockVars, readVars, netVars, pastVars, sendVars, FreshWait
<1>1. CASE Begin
  BY <1>1 DEF Begin, StartHeartbeat, SendLogin, LoginInit, SendCmd, SendExtension
<1>2. CASE Reader
  <2>1. CASE WaitLoop
    BY <2>1 DEF WaitLoop, GiveUp
  <2>2. CASE ReadHeader
    BY <2>2 DEF ReadHeader
  <2>3. CASE ReadTimeout
    BY <2>3 DEF ReadTimeout, GiveUp
  <2>4. CASE ReadLost
    BY <2>4 DEF ReadLost, Abort
  <2>5. CASE ReadFrameError
    BY <2>5 DEF ReadFrameError, AfterFrameError, Abort
  <2>6. CASE TakeAnswer
    BY <2>6 DEF TakeAnswer, Abort, FrameRead
  <2>7. CASE SkipEnvelope
    BY <2>7 DEF SkipEnvelope, GiveUp, FrameRead
  <2>8. CASE SkipUndecodable
    BY <2>8 DEF SkipUndecodable, Abort, FrameRead
  <2>9. CASE ReadTerminalPush
    BY <2>9 DEF ReadTerminalPush, Abort, FrameRead
  <2> QED
    BY <1>2, <2>1, <2>2, <2>3, <2>4, <2>5, <2>6, <2>7, <2>8, <2>9 DEF Reader
<1>3. CASE MainClose
  BY <1>3 DEF MainClose, Close
<1>4. CASE Heartbeat
  BY <1>4 DEF Heartbeat, HeartTick, HeartStop, HeartClose, Close
<1>5. ASSUME NEW p \in Senders, Check(p) PROVE FrameInv'
  BY <1>5 DEF Check, AfterRefusal
<1>6. ASSUME NEW p \in Senders, Lock(p) PROVE FrameInv'
  BY <1>6 DEF Lock
<1>7. ASSUME NEW p \in Senders, WriteStep(p) PROVE FrameInv'
  BY <1>7 DEF WriteStep, WriteFirstPing, WriteRequest, WriteLoginInit, WritePing,
              WroteFrame, WriteError, AfterWriteError, Close
<1>8. CASE Environment
  BY <1>8, EnvironmentFrame
<1>9. CASE Terminated \/ UNCHANGED vars
  BY <1>9 DEF Terminated, vars
<1> QED
  BY <1>1, <1>2, <1>3, <1>4, <1>5, <1>6, <1>7, <1>8, <1>9 DEF Next

\* A failed send of the main flow is fatal to it.
LEMMA TornInvStep == IInv /\ [Next]_vars => TornInv'
<1> SUFFICES ASSUME IInv, [Next]_vars PROVE TornInv'
  OBVIOUS
<1> USE BoundsAssumption DEF IInv, TornInv, TypeOK, PcValues, Senders, Main, Heart, Free,
      sockVars, readVars, netVars, pastVars, sendVars, FreshWait
<1>1. CASE Begin
  BY <1>1 DEF Begin, StartHeartbeat, SendLogin, LoginInit, SendCmd, SendExtension
<1>2. CASE Reader
  BY <1>2 DEF Reader, WaitLoop, ReadHeader, ReadTimeout, ReadLost, ReadFrameError, TakeAnswer,
              SkipEnvelope, SkipUndecodable, ReadTerminalPush, FrameRead, GiveUp, Abort,
              AfterFrameError
<1>3. CASE MainClose
  BY <1>3 DEF MainClose, Close
<1>4. CASE Heartbeat
  BY <1>4 DEF Heartbeat, HeartTick, HeartStop, HeartClose, Close
<1>5. ASSUME NEW p \in Senders, Check(p) PROVE TornInv'
  BY <1>5 DEF Check, AfterRefusal
<1>6. ASSUME NEW p \in Senders, Lock(p) PROVE TornInv'
  BY <1>6 DEF Lock
<1>7. ASSUME NEW p \in Senders, WriteStep(p) PROVE TornInv'
  BY <1>7 DEF WriteStep, WriteFirstPing, WriteRequest, WriteLoginInit, WritePing,
              WroteFrame, WriteError, AfterWriteError, Close
<1>8. CASE Environment
  BY <1>8, EnvironmentFrame
<1>9. CASE Terminated \/ UNCHANGED vars
  BY <1>9 DEF Terminated, vars
<1> QED
  BY <1>1, <1>2, <1>3, <1>4, <1>5, <1>6, <1>7, <1>8, <1>9 DEF Next

\* A counter that passes its limit ends the wait.
LEMMA WaitInvStep == IInv /\ [Next]_vars => WaitInv'
<1> SUFFICES ASSUME IInv, [Next]_vars PROVE WaitInv'
  OBVIOUS
<1> USE BoundsAssumption DEF IInv, WaitInv, Waiting, TypeOK, PcValues, Senders, Main, Heart, Free,
      sockVars, readVars, netVars, pastVars, sendVars, FreshWait
<1>1. CASE Begin
  BY <1>1 DEF Begin, StartHeartbeat, SendLogin, LoginInit, SendCmd, SendExtension
<1>2. CASE Reader
  <2>1. CASE WaitLoop
    BY <2>1 DEF WaitLoop, GiveUp
  <2>2. CASE ReadHeader
    BY <2>2 DEF ReadHeader
  <2>3. CASE ReadTimeout
    BY <2>3 DEF ReadTimeout, GiveUp
  <2>4. CASE ReadLost
    BY <2>4 DEF ReadLost, Abort
  <2>5. CASE ReadFrameError
    BY <2>5 DEF ReadFrameError, AfterFrameError, Abort
  <2>6. CASE TakeAnswer
    BY <2>6 DEF TakeAnswer, Abort, FrameRead
  <2>7. CASE SkipEnvelope
    BY <2>7 DEF SkipEnvelope, GiveUp, FrameRead
  <2>8. CASE SkipUndecodable
    BY <2>8 DEF SkipUndecodable, Abort, FrameRead
  <2>9. CASE ReadTerminalPush
    BY <2>9 DEF ReadTerminalPush, Abort, FrameRead
  <2> QED
    BY <1>2, <2>1, <2>2, <2>3, <2>4, <2>5, <2>6, <2>7, <2>8, <2>9 DEF Reader
<1>3. CASE MainClose
  BY <1>3 DEF MainClose, Close
<1>4. CASE Heartbeat
  BY <1>4 DEF Heartbeat, HeartTick, HeartStop, HeartClose, Close
<1>5. ASSUME NEW p \in Senders, Check(p) PROVE WaitInv'
  BY <1>5 DEF Check, AfterRefusal
<1>6. ASSUME NEW p \in Senders, Lock(p) PROVE WaitInv'
  BY <1>6 DEF Lock
<1>7. ASSUME NEW p \in Senders, WriteStep(p) PROVE WaitInv'
  BY <1>7 DEF WriteStep, WriteFirstPing, WriteRequest, WriteLoginInit, WritePing,
              WroteFrame, WriteError, AfterWriteError, Close
<1>8. CASE Environment
  BY <1>8, EnvironmentFrame DEF Environment, Expire, ServerAnswer, ServerSend, PeerChange
<1>9. CASE Terminated \/ UNCHANGED vars
  BY <1>9 DEF Terminated, vars
<1> QED
  BY <1>1, <1>2, <1>3, <1>4, <1>5, <1>6, <1>7, <1>8, <1>9 DEF Next

\* Every step keeps every variable in its type.
LEMMA TypeOKStep == IInv /\ [Next]_vars => TypeOK'
<1> SUFFICES ASSUME TypeOK, WaitInv, [Next]_vars PROVE TypeOK'
  BY DEF IInv
<1> USE RequestTypes, FrameTypes
    DEF TypeOK, PcValues, Senders, Main, Heart, Free, sockVars, readVars, netVars, pastVars,
        sendVars
<1>1. CASE StartHeartbeat
  BY <1>1 DEF StartHeartbeat
<1>2. CASE SendLogin
  BY <1>2 DEF SendLogin
<1>3. CASE LoginInit
  BY <1>3 DEF LoginInit, SendExtension
<1>4. ASSUME NEW cmd \in Cmds, SendCmd(cmd) PROVE TypeOK'
  BY <1>4 DEF SendCmd, SendExtension, NextId, loginFutureID
<1>5. CASE MainClose
  BY <1>5 DEF MainClose, Close
<1>6. CASE HeartTick
  BY <1>6 DEF HeartTick
<1>7. CASE HeartStop
  BY <1>7 DEF HeartStop
<1>8. CASE HeartClose
  BY <1>8 DEF HeartClose, Close
<1>9. ASSUME NEW p \in Senders, Check(p) PROVE TypeOK'
  BY <1>9 DEF Check, AfterRefusal
<1>10. ASSUME NEW p \in Senders, Lock(p) PROVE TypeOK'
  BY <1>10 DEF Lock
<1>11. CASE WriteFirstPing
  BY <1>11 DEF WriteFirstPing, WroteFrame
<1>12. CASE WriteRequest
  <2>1. wait' \in WaitType
    BY <1>12, WaitTypes DEF WriteRequest
  <2>2. wire' \in Seq(Request)
    BY <1>12 DEF WriteRequest
  <2>3. late' \in [Senders -> Nat]
    BY <1>12 DEF WriteRequest, WroteFrame
  <2> QED
    BY <1>12, <2>1, <2>2, <2>3 DEF WriteRequest, WroteFrame, WaitType
<1>13. CASE WriteLoginInit
  BY <1>13 DEF WriteLoginInit, WroteFrame
<1>14. CASE WritePing
  BY <1>14 DEF WritePing, WroteFrame
<1>15. ASSUME NEW p \in Senders, WriteError(p) PROVE TypeOK'
  <2>1. torn' \subseteq Senders
    BY <1>15 DEF WriteError
  <2>2. /\ pc' \in [Senders -> PcValues]
        /\ wmu' \in Senders \cup {Free}
        /\ stage' \in {"dialed", "login", "init", "run"}
    BY <1>15 DEF WriteError, AfterWriteError
  <2>3. conn' \in {"open", "closed"} /\ stop' \in BOOLEAN
    BY <1>15 DEF WriteError, Close
  <2>4. UNCHANGED <<mid, desync, ended, peer, down, answered, accepted, timedOut, wire,
                    late, extSent, cur, wait>>
    BY <1>15 DEF WriteError
  <2> QED
    BY <2>1, <2>2, <2>3, <2>4
<1>16. CASE WaitLoop
  BY <1>16 DEF WaitLoop, GiveUp
<1>17. CASE ReadHeader
  BY <1>17 DEF ReadHeader
<1>18. CASE ReadTimeout
  BY <1>18 DEF ReadTimeout, GiveUp
<1>19. CASE ReadLost
  BY <1>19 DEF ReadLost, Abort
<1>20. CASE ReadFrameError
  BY <1>20 DEF ReadFrameError, AfterFrameError, Abort
<1>21. CASE TakeAnswer
  <2>1. /\ Head(down) \in Frame
        /\ down' \in Seq(Frame)
        /\ UNCHANGED <<conn, stop, desync, peer, answered, wire, torn, late, wmu,
                       extSent, cur>>
        /\ mid' = FALSE
    BY <1>21, FrameReadType DEF TakeAnswer
  <2>2. accepted' \subseteq Request \X Request
    BY <1>21, <2>1 DEF TakeAnswer
  <2>3. /\ pc' \in [Senders -> PcValues]
        /\ stage' \in {"dialed", "login", "init", "run"}
        /\ UNCHANGED <<ended, timedOut, wait>>
    BY <1>21 DEF TakeAnswer, Abort
  <2> QED
    BY <2>1, <2>2, <2>3
<1>22. CASE SkipEnvelope
  <2>1. wait \in WaitType /\ wait.other <= MaxNonMatching
    BY <1>22 DEF SkipEnvelope, FrameRead, WaitInv, Waiting, WaitType
  <2>2. wait' \in WaitType
    BY <1>22, <2>1, WaitTypes DEF SkipEnvelope
  <2>3. /\ pc' \in [Senders -> PcValues]
        /\ timedOut' \subseteq Request
        /\ UNCHANGED <<ended, stage, accepted>>
    BY <1>22 DEF SkipEnvelope, GiveUp
  <2>4. /\ down' \in Seq(Frame)
        /\ UNCHANGED <<conn, stop, desync, peer, answered, wire, torn, late, wmu,
                       extSent, cur>>
        /\ mid' = FALSE
    BY <1>22, FrameReadType DEF SkipEnvelope
  <2> QED
    BY <2>2, <2>3, <2>4 DEF WaitType
<1>23. CASE SkipUndecodable
  <2>1. wait \in WaitType /\ wait.bad <= MaxDecodeFailures
    BY <1>23 DEF SkipUndecodable, FrameRead, WaitInv, Waiting, WaitType
  <2>2. wait' \in WaitType
    BY <1>23, <2>1, WaitTypes DEF SkipUndecodable
  <2>3. /\ pc' \in [Senders -> PcValues]
        /\ UNCHANGED <<ended, stage, accepted, timedOut>>
    BY <1>23 DEF SkipUndecodable, Abort
  <2>4. /\ down' \in Seq(Frame)
        /\ UNCHANGED <<conn, stop, desync, peer, answered, wire, torn, late, wmu,
                       extSent, cur>>
        /\ mid' = FALSE
    BY <1>23, FrameReadType DEF SkipUndecodable
  <2> QED
    BY <2>2, <2>3, <2>4 DEF WaitType
<1>24. CASE ReadTerminalPush
  <2>1. /\ down' \in Seq(Frame)
        /\ UNCHANGED <<conn, stop, desync, peer, answered, wire, torn, late, wmu,
                       extSent, cur>>
        /\ mid' = FALSE
    BY <1>24, FrameReadType DEF ReadTerminalPush
  <2> QED
    BY <1>24, <2>1 DEF ReadTerminalPush, Abort
<1>25. CASE Expire
  <2>1. wait' \in WaitType
    BY <1>25, WaitTypes DEF Expire, WaitType
  <2> QED
    BY <1>25, <2>1 DEF Expire, WaitType
<1>26. CASE ServerAnswer
  <2>1. PICK i \in DOMAIN wire :
           /\ down' = Append(down, [kind |-> "answer", req |-> wire[i]])
           /\ answered' = answered \cup {wire[i].id}
    BY <1>26 DEF ServerAnswer, Arrive
  <2>2. wire[i] \in Request
    BY <2>1
  <2>3. down' \in Seq(Frame)
    BY <2>1, <2>2
  <2>6. answered' \subseteq Nat
    BY <2>1, <2>2
  <2>4. UNCHANGED <<peer, wait>>
    BY <1>26 DEF ServerAnswer
  <2>5. UNCHANGED <<conn, stop, ended, extSent, wmu, pc, stage, cur, mid, wire, torn, late,
                    desync, accepted, timedOut>>
    BY <1>26 DEF ServerAnswer
  <2> QED
    BY <2>3, <2>4, <2>5, <2>6
<1>27. CASE ServerSend
  <2>1. PICK kind \in {"push", "bad", "terminal"} :
           /\ down' = Append(down, [kind |-> kind, req |-> NoReq])
           /\ UNCHANGED <<peer, answered, wait>>
    BY <1>27 DEF ServerSend, Arrive
  <2>2. down' \in Seq(Frame)
    BY <2>1
  <2>3. UNCHANGED <<conn, stop, ended, extSent, wmu, pc, stage, cur, mid, wire, torn, late,
                    desync, accepted, timedOut>>
    BY <1>27 DEF ServerSend
  <2> QED
    BY <2>1, <2>2, <2>3
<1>28. CASE PeerChange
  BY <1>28 DEF PeerChange
<1>29. CASE Terminated \/ UNCHANGED vars
  <2>1. UNCHANGED <<sockVars, readVars, netVars, pastVars, sendVars, extSent, pc, stage, cur,
                    wait>>
    BY <1>29 DEF Terminated, vars
  <2> QED
    BY <2>1
<1> QED
  BY <1>1, <1>2, <1>3, <1>4, <1>5, <1>6, <1>7, <1>8, <1>9, <1>10, <1>11, <1>12, <1>13, <1>14,
     <1>15, <1>16, <1>17, <1>18, <1>19, <1>20, <1>21, <1>22, <1>23, <1>24, <1>25, <1>26, <1>27, <1>28, <1>29
  DEF Next, Begin, Reader, Heartbeat, WriteStep, Environment

\* A request whose `_id` is above all those on the wire keeps them growing.
LEMMA AppendIds ==
    ASSUME wire \in Seq(Request), cur \in Request, UniqueIds, wire # <<>>,
           \A i \in DOMAIN wire : wire[i].id < cur.id,
           wire' = Append(wire, cur)
    PROVE  UniqueIds' /\ \A i \in DOMAIN wire' : wire'[i].id <= cur.id
<1>1. /\ DOMAIN wire = 1 .. Len(wire)
      /\ DOMAIN wire' = 1 .. Len(wire) + 1
      /\ Len(wire) \in Nat \ {0}
  OBVIOUS
<1>2. \A i \in 1 .. Len(wire) : wire'[i] = wire[i]
  OBVIOUS
<1>3. wire'[Len(wire) + 1] = cur
  OBVIOUS
<1>4. /\ cur.id \in Nat
      /\ \A i \in 1 .. Len(wire) : wire[i].id \in Nat
  BY RequestTypes
<1>5. \A i \in DOMAIN wire' :
        IF i = Len(wire) + 1 THEN wire'[i].id = cur.id
                             ELSE i \in DOMAIN wire /\ wire'[i].id = wire[i].id
  BY <1>1, <1>2, <1>3
<1>6. wire[1].id = 1 /\ wire[1].id < cur.id
  BY <1>1 DEF UniqueIds, loginFutureID
<1>7. \A i, j \in DOMAIN wire' : i < j => wire'[i].id < wire'[j].id
  BY <1>1, <1>4, <1>5 DEF UniqueIds
<1>8. \A i \in DOMAIN wire' : wire'[i].id = 1 <=> i = 1
  BY <1>1, <1>4, <1>5, <1>6 DEF UniqueIds, loginFutureID
<1>9. \A i \in DOMAIN wire' : wire'[i].id <= cur.id
  BY <1>1, <1>4, <1>5
<1> QED
  BY <1>7, <1>8, <1>9 DEF UniqueIds, loginFutureID

\* The `_id` of the next request is above all those on the wire.
LEMMA IdInvStep == IInv /\ [Next]_vars => IdInv'
<1> SUFFICES ASSUME TypeOK, EndedInv, IdInv, [Next]_vars PROVE IdInv'
  BY DEF IInv
<1> USE RequestTypes
    DEF TypeOK, IdInv, UniqueIds, Sending, Waiting, loginFutureID, Senders, Main, Heart, Free, sockVars, readVars, netVars, pastVars, sendVars
<1>1. CASE StartHeartbeat
  BY <1>1 DEF StartHeartbeat
<1>2. CASE SendLogin
  BY <1>2 DEF SendLogin
<1>3. CASE LoginInit
  <2>1. /\ stage = "init" /\ stage' = "run" /\ extSent' = 1 /\ UNCHANGED wire
        /\ pc' = [pc EXCEPT ![Main] = "check"]
    BY <1>3 DEF LoginInit, SendExtension
  <2>2. cur' = [id |-> 2, cmd |-> "login.init"]
    BY <1>3 DEF LoginInit, SendExtension
  <2>3. cur'.id = 2 /\ cur' # Ping
    BY <2>2
  <2>4. \A i \in DOMAIN wire : wire[i].id \in Nat /\ wire[i].id <= 1
    BY <2>1, RequestTypes
  <2>5. UniqueIds'
    BY <2>1
  <2> HIDE DEF UniqueIds, TypeOK
  <2> QED
    BY <2>1, <2>3, <2>4, <2>5
<1>4. ASSUME NEW cmd \in Cmds, SendCmd(cmd) PROVE IdInv'
  <2>1. /\ stage \in {"init", "run"} /\ stage' = "run" /\ extSent' = extSent + 1
        /\ UNCHANGED wire
        /\ pc' = [pc EXCEPT ![Main] = "check"]
    BY <1>4 DEF SendCmd, SendExtension
  <2>2. cur' = [id |-> extSent + 2, cmd |-> cmd]
    BY <1>4 DEF SendCmd, SendExtension, NextId
  <2>3. cur'.id = extSent' + 1 /\ cur' # Ping
    BY <2>1, <2>2
  <2>4. /\ extSent \in Nat
        /\ \A i \in DOMAIN wire : wire[i].id \in Nat /\ wire[i].id <= extSent + 1
    BY RequestTypes
  <2>5. UniqueIds' /\ wire # <<>>
    BY <2>1
  <2> HIDE DEF UniqueIds, TypeOK
  <2> QED
    BY <2>1, <2>3, <2>4, <2>5
<1>5. CASE MainClose
  BY <1>5 DEF MainClose, Close
<1>6. CASE HeartTick
  BY <1>6 DEF HeartTick
<1>7. CASE HeartStop
  BY <1>7 DEF HeartStop
<1>8. CASE HeartClose
  BY <1>8 DEF HeartClose, Close
<1>9. ASSUME NEW p \in Senders, Check(p) PROVE IdInv'
  BY <1>9 DEF Check, AfterRefusal, EndedInv
<1>10. ASSUME NEW p \in Senders, Lock(p) PROVE IdInv'
  BY <1>10 DEF Lock
<1>11. CASE WriteFirstPing
  BY <1>11 DEF WriteFirstPing, WroteFrame
<1>12. CASE WriteRequest
  <2>1. /\ pc[Main] = "write" /\ cur # Ping /\ wire' = Append(wire, cur)
        /\ pc' = [pc EXCEPT ![Main] = "loop"]
        /\ UNCHANGED <<stage, cur, extSent>>
    BY <1>12 DEF WriteRequest, WroteFrame
  <2>2. CASE stage = "login"
    BY <2>1, <2>2
  <2>3. CASE stage = "run"
    <3>1. UniqueIds' /\ \A i \in DOMAIN wire' : wire'[i].id <= cur.id
      BY <2>1, <2>3, AppendIds
    <3>2. wire' # <<>> /\ cur.id = extSent + 1 /\ pc'[Main] = "loop"
      BY <2>1, <2>3
    <3> HIDE DEF UniqueIds, TypeOK
    <3> QED
      BY <2>1, <2>3, <3>1, <3>2
  <2> QED
    BY <2>1, <2>2, <2>3
<1>13. CASE WriteLoginInit
  <2>1. /\ pc[Main] = "write" /\ cur.cmd = "login.init" /\ wire' = Append(wire, cur)
        /\ pc' = [pc EXCEPT ![Main] = "idle"]
        /\ UNCHANGED <<stage, cur, extSent>>
    BY <1>13 DEF WriteLoginInit, WroteFrame
  <2>2. stage = "run"
    BY <2>1
  <2>3. UniqueIds' /\ \A i \in DOMAIN wire' : wire'[i].id <= cur.id
    BY <2>1, <2>2, AppendIds
  <2>4. /\ wire' # <<>> /\ cur # Ping
        /\ cur.id = extSent + 1 /\ pc'[Main] = "idle"
    BY <2>1, <2>2
  <2> HIDE DEF UniqueIds, TypeOK
  <2> QED
    BY <2>1, <2>2, <2>3, <2>4
<1>14. CASE WritePing
  BY <1>14 DEF WritePing, WroteFrame
<1>15. ASSUME NEW p \in Senders, WriteError(p) PROVE IdInv'
  BY <1>15 DEF WriteError, Close, AfterWriteError
<1>16. CASE WaitLoop
  BY <1>16 DEF WaitLoop, GiveUp
<1>17. CASE ReadHeader
  BY <1>17 DEF ReadHeader
<1>18. CASE ReadTimeout
  BY <1>18 DEF ReadTimeout, GiveUp
<1>19. CASE ReadLost
  BY <1>19 DEF ReadLost, Abort
<1>20. CASE ReadFrameError
  BY <1>20 DEF ReadFrameError, AfterFrameError, Abort
<1>21. CASE TakeAnswer
  BY <1>21 DEF TakeAnswer, FrameRead, Abort
<1>22. CASE SkipEnvelope
  BY <1>22 DEF SkipEnvelope, FrameRead, GiveUp
<1>23. CASE SkipUndecodable
  BY <1>23 DEF SkipUndecodable, FrameRead, Abort
<1>24. CASE ReadTerminalPush
  BY <1>24 DEF ReadTerminalPush, FrameRead, Abort
<1>25. CASE Expire
  BY <1>25 DEF Expire
<1>26. CASE ServerAnswer
  BY <1>26 DEF ServerAnswer
<1>27. CASE ServerSend
  BY <1>27 DEF ServerSend
<1>28. CASE PeerChange
  BY <1>28 DEF PeerChange
<1>29. CASE Terminated \/ UNCHANGED vars
  BY <1>29 DEF Terminated, vars
<1> QED
  BY <1>1, <1>2, <1>3, <1>4, <1>5, <1>6, <1>7, <1>8, <1>9, <1>10, <1>11, <1>12, <1>13, <1>14,
     <1>15, <1>16, <1>17, <1>18, <1>19, <1>20, <1>21, <1>22, <1>23, <1>24, <1>25, <1>26, <1>27, <1>28, <1>29
  DEF Next, Begin, Reader, Heartbeat, WriteStep, Environment

-----------------------------------------------------------------------------
(* The theorems. *)

\* A freshly dialled connection satisfies the inductive invariant.
LEMMA InitIInv == Init => IInv
<1> SUFFICES ASSUME Init PROVE IInv
  OBVIOUS
<1> USE BoundsAssumption, RequestTypes
    DEF Init, Senders, Main, Heart, Free, PcValues
<1>1. TypeOK
  <2>1. wait \in WaitType
    BY WaitTypes
  <2>2. /\ down \in Seq(Frame)
        /\ wire \in Seq(Request)
        /\ cur \in Request
    OBVIOUS
  <2>3. /\ pc \in [Senders -> PcValues]
        /\ late \in [Senders -> Nat]
    OBVIOUS
  <2> QED
    BY <2>1, <2>2, <2>3 DEF TypeOK, WaitType
<1>2. MutexInv /\ EndedInv /\ FrameInv /\ TornInv /\ WaitInv
  BY DEF MutexInv, EndedInv, FrameInv, TornInv, WaitInv, Waiting
<1>3. IdInv
  BY DEF IdInv, UniqueIds, Sending, Waiting
<1> QED
  BY <1>1, <1>2, <1>3 DEF IInv

\* Every step preserves it: each part by its own lemma.
LEMMA IInvStep == IInv /\ [Next]_vars => IInv'
BY TypeOKStep, MutexInvStep, EndedInvStep, FrameInvStep, TornInvStep, WaitInvStep, IdInvStep
   DEF IInv

\* The inductive invariant of the connection's two goroutines (who may write,
\* where the reader stands in the stream, which ids are used up) always holds.
THEOREM SafeSpecIInv == SafeSpec => []IInv
BY InitIInv, IInvStep, PTL DEF SafeSpec

\* Fairness only removes behaviours: what SafeSpec satisfies, Spec does.
LEMMA SpecIsSafe == Spec => SafeSpec
BY PTL DEF Spec

\* Every variable keeps its type, and a wait's counters their limits, whatever
\* the limits are.
THEOREM TypeCorrect == Spec => []TypeOK
<1>1. IInv => TypeOK
  BY DEF IInv
<1> QED
  BY <1>1, SafeSpecIInv, SpecIsSafe, PTL

\* The write mutex does its work: the main goroutine and the heartbeat never
\* write to the socket at the same time.
THEOREM WritesExclude == Spec => []WriteMutex
<1>1. IInv => WriteMutex
  BY DEF IInv, MutexInv, WriteMutex
<1> QED
  BY <1>1, SafeSpecIInv, SpecIsSafe, PTL

\* No two requests of a connection carry the same `_id`, for any number of
\* requests, failed and refused ones included.
THEOREM IdsUnique == Spec => []UniqueIds
<1>1. IInv => UniqueIds
  BY DEF IInv, IdInv
<1> QED
  BY <1>1, SafeSpecIInv, SpecIsSafe, PTL

\* The reader never starts a frame in the middle of another one.
THEOREM ReaderInStep == Spec => []NoDesync
<1>1. IInv => NoDesync
  BY DEF IInv, FrameInv, NoDesync
<1> QED
  BY <1>1, SafeSpecIInv, SpecIsSafe, PTL

\* After a terminal push at most one ping goes out, and no request.
THEOREM AtMostOneLatePing == Spec => []OneLatePing
<1>1. IInv => OneLatePing
  BY DEF IInv, EndedInv, OneLatePing, TypeOK
<1> QED
  BY <1>1, SafeSpecIInv, SpecIsSafe, PTL

\* Nothing follows a request that went out in part.
THEOREM TornRequestIsLast == Spec => NothingAfterTornRequest
<1>1. IInv /\ [Next]_vars => [(Main \in torn) => UNCHANGED wire]_vars
  <2> SUFFICES ASSUME IInv, Next, Main \in torn PROVE UNCHANGED wire
    BY DEF vars, sendVars
  <2>1. pc[Main] \in {"dead", "done"}
    BY DEF IInv, TornInv
  <2> USE <2>1 DEF sockVars, readVars, netVars, pastVars, sendVars
  <2>2. CASE Begin
    BY <2>2 DEF Begin, StartHeartbeat, SendLogin, LoginInit, SendCmd, SendExtension
  <2>3. CASE Reader
    BY <2>3 DEF Reader, WaitLoop, ReadHeader, ReadTimeout, ReadLost, ReadFrameError,
                TakeAnswer, SkipEnvelope, SkipUndecodable, ReadTerminalPush, FrameRead
  <2>4. CASE MainClose \/ Heartbeat
    BY <2>4 DEF MainClose, Heartbeat, HeartTick, HeartStop, HeartClose
  <2>5. ASSUME NEW p \in Senders, Check(p) \/ Lock(p) \/ WriteStep(p)
        PROVE  UNCHANGED wire
    BY <2>5 DEF Check, Lock, WriteStep, WriteFirstPing, WriteRequest, WriteLoginInit,
                WritePing, WroteFrame, WriteError
  <2>6. CASE Environment
    BY <2>6, EnvironmentFrame
  <2>7. CASE Terminated
    BY <2>7 DEF Terminated, vars
  <2> QED
    BY <2>2, <2>3, <2>4, <2>5, <2>6, <2>7 DEF Next
<1> QED
  BY <1>1, SafeSpecIInv, SpecIsSafe, PTL DEF Spec, SafeSpec, NothingAfterTornRequest

-----------------------------------------------------------------------------
(* Which answer a wait can be given. *)

\* The main flow has not given the connection up.
GoingOn == pc[Main] \notin {"dead", "done"}

\* A request needs no answer any more: its own was taken, or an earlier request
\* of its cmd, or itself, was given up.
Settled(req) ==
    \/ \E pair \in accepted : pair[2] = req
    \/ \E t \in timedOut : t.cmd = req.cmd /\ t.id <= req.id

\* An answer on its way is the only one to a request that went out, and nobody
\* has been given it before.
AnswerInv ==
    /\ \A k \in DOMAIN down : down[k].kind = "answer" =>
         /\ \E i \in DOMAIN wire : wire[i] = down[k].req
         /\ down[k].req.cmd # "login.init"
         /\ down[k].req.id \in answered
         /\ \A l \in DOMAIN down :
              down[l].kind = "answer" /\ down[l].req.id = down[k].req.id => l = k
    /\ \A pair \in accepted :
         /\ pair[2].id \in answered
         /\ \A k \in DOMAIN down :
              down[k].kind = "answer" => down[k].req.id # pair[2].id

\* The request that is waited for is the last one that went out; while the main
\* flow goes on those before it are settled.
SettledInv ==
    /\ Waiting => wire # <<>> /\ wire[Len(wire)] = cur
    /\ GoingOn =>
         \A i \in DOMAIN wire :
           \/ wire[i].cmd = "login.init"
           \/ Waiting /\ wire[i] = cur
           \/ Settled(wire[i])

StaleInv == AnswerInv /\ SettledInv /\ StaleOnlyAfterTimeout

\* A step that concerns no request: the wait goes on if it was and the main flow
\* does, and none begins.
NoRequestStep ==
    /\ UNCHANGED <<down, answered, wire, accepted, timedOut>>
    /\ Waiting' => Waiting /\ UNCHANGED cur
    /\ GoingOn' => GoingOn /\ (Waiting => Waiting' /\ UNCHANGED cur)

\* The wait for the current request ends without an answer.
GiveUpStep ==
    /\ Waiting
    /\ ~Waiting'
    /\ timedOut' = timedOut \cup {cur}
    /\ UNCHANGED <<answered, wire, accepted, cur>>
    /\ down' = down \/ (down # <<>> /\ down' = Tail(down))

\* A frame is dropped: the wait goes on, or the main flow ends.
DropStep ==
    /\ Waiting
    /\ Waiting' \/ ~GoingOn'
    /\ down # <<>>
    /\ down' = Tail(down)
    /\ UNCHANGED <<answered, wire, accepted, cur, timedOut>>

\* What a step does to requests and their answers.
LEMMA RequestSteps ==
    ASSUME IInv, [Next]_vars
    PROVE  \/ NoRequestStep \/ GiveUpStep \/ DropStep
           \/ WriteRequest \/ WriteLoginInit
           \/ TakeAnswer \/ ServerAnswer \/ ServerSend
<1>0. pc \in [Senders -> PcValues]
  BY DEF IInv, TypeOK
<1> USE <1>0 DEF NoRequestStep, Waiting, GoingOn, PcValues, Senders, Main, Heart, Free,
      sockVars, readVars, netVars, pastVars, sendVars
<1>1. CASE Begin
  BY <1>1 DEF Begin, StartHeartbeat, SendLogin, LoginInit, SendCmd, SendExtension
<1>2. CASE Reader
  <2>1. CASE WaitLoop
    BY <2>1 DEF WaitLoop, GiveUp, GiveUpStep
  <2>2. CASE ReadHeader
    BY <2>2 DEF ReadHeader
  <2>3. CASE ReadTimeout
    BY <2>3 DEF ReadTimeout, GiveUp, GiveUpStep
  <2>4. CASE ReadLost
    BY <2>4 DEF ReadLost, Abort
  <2>5. CASE ReadFrameError
    BY <2>5 DEF ReadFrameError, AfterFrameError, Abort
  <2>6. CASE SkipEnvelope
    BY <2>6 DEF SkipEnvelope, GiveUp, FrameRead, GiveUpStep, DropStep
  <2>7. CASE SkipUndecodable
    BY <2>7 DEF SkipUndecodable, Abort, FrameRead, DropStep
  <2>8. CASE ReadTerminalPush
    BY <2>8 DEF ReadTerminalPush, Abort, FrameRead, DropStep
  <2> QED
    BY <1>2, <2>1, <2>2, <2>3, <2>4, <2>5, <2>6, <2>7, <2>8 DEF Reader
<1>3. CASE MainClose
  BY <1>3 DEF MainClose, Close
<1>4. CASE Heartbeat
  BY <1>4 DEF Heartbeat, HeartTick, HeartStop, HeartClose, Close
<1>5. ASSUME NEW p \in Senders, Check(p) PROVE NoRequestStep
  BY <1>5 DEF Check, AfterRefusal
<1>6. ASSUME NEW p \in Senders, Lock(p) PROVE NoRequestStep
  BY <1>6 DEF Lock
<1>7. ASSUME NEW p \in Senders, WriteStep(p), ~WriteRequest, ~WriteLoginInit
      PROVE  NoRequestStep
  BY <1>7 DEF WriteStep, WriteFirstPing, WritePing, WroteFrame, WriteError, AfterWriteError,
              Close
<1>8. CASE Expire \/ PeerChange
  BY <1>8 DEF Expire, PeerChange
<1>9. CASE Terminated \/ UNCHANGED vars
  BY <1>9 DEF Terminated, vars
<1> QED
  BY <1>1, <1>2, <1>3, <1>4, <1>5, <1>6, <1>7, <1>8, <1>9 DEF Next, Environment

\* Taking a frame off the stream moves the others up by one.
LEMMA TailDown ==
    ASSUME down \in Seq(Frame), down # <<>>, down' = Tail(down)
    PROVE  \A k \in DOMAIN down' : k \in Nat /\ k + 1 \in DOMAIN down /\ down'[k] = down[k + 1]
OBVIOUS

\* What is on the wire stays there.
LEMMA WireGrows ==
    ASSUME IInv, wire' = Append(wire, cur)
    PROVE  /\ \A i \in DOMAIN wire : i \in DOMAIN wire' /\ wire'[i] = wire[i]
           /\ \A i \in DOMAIN wire' : wire'[i] = cur \/ (i \in DOMAIN wire /\ wire'[i] = wire[i])
           /\ wire' # <<>> /\ wire'[Len(wire')] = cur
<1>1. wire \in Seq(Request)
  BY DEF IInv, TypeOK
<1>2. cur \in Request
  BY DEF IInv, TypeOK
<1> QED
  BY <1>1, <1>2

\* While a request is waited for it has the greatest `_id` on the wire, and no
\* other one has it.
LEMMA CurIsLast ==
    ASSUME IInv, SettledInv, Waiting
    PROVE  \A i \in DOMAIN wire :
             /\ wire[i] \in Request
             /\ wire[i] # cur => wire[i].id < cur.id
<1>1. /\ wire \in Seq(Request)
      /\ UniqueIds
      /\ wire # <<>> /\ wire[Len(wire)] = cur
  BY DEF IInv, TypeOK, IdInv, SettledInv
<1>2. /\ DOMAIN wire = 1 .. Len(wire)
      /\ Len(wire) \in DOMAIN wire
  BY <1>1
<1> QED
  BY <1>1, <1>2 DEF UniqueIds

\* The answer that is taken is the current request's own, or a late one to an
\* earlier request of its cmd, and then a request of that cmd was given up.
LEMMA AnswerTaken ==
    ASSUME IInv, AnswerInv, SettledInv, TakeAnswer
    PROVE  /\ accepted' = accepted \cup {<<cur, Head(down).req>>}
           /\ Head(down).req \in Request
           /\ Head(down).req.cmd = cur.cmd
           /\ Head(down).req # cur =>
                /\ Head(down).req.id < cur.id
                /\ \E t \in timedOut : t.cmd = cur.cmd /\ t.id < cur.id
<1> DEFINE got == Head(down).req
<1>1. /\ down \in Seq(Frame)
      /\ down # <<>>
      /\ down[1].kind = "answer"
      /\ down[1].req = got
      /\ got.cmd = cur.cmd
      /\ accepted' = accepted \cup {<<cur, got>>}
      /\ pc[Main] = "body"
  BY DEF IInv, TypeOK, TakeAnswer, FrameRead, Matches
<1>2. 1 \in DOMAIN down
  BY <1>1
<1>3. Waiting /\ GoingOn
  BY <1>1 DEF Waiting, GoingOn
<1>4. PICK i \in DOMAIN wire : wire[i] = got
  BY <1>1, <1>2 DEF AnswerInv
<1>5. got \in Request
  BY <1>3, <1>4, CurIsLast
<1>6. ASSUME got # cur
      PROVE  /\ got.id < cur.id
             /\ \E t \in timedOut : t.cmd = cur.cmd /\ t.id < cur.id
  <2>1. got.id < cur.id
    BY <1>3, <1>4, <1>6, CurIsLast
  <2>2. Settled(got)
    BY <1>1, <1>2, <1>3, <1>4, <1>6 DEF SettledInv, AnswerInv
  <2>3. ~ \E pair \in accepted : pair[2] = got
    BY <1>1, <1>2 DEF AnswerInv
  <2>4. PICK t \in timedOut : t.cmd = got.cmd /\ t.id <= got.id
    BY <2>2, <2>3 DEF Settled
  <2>5. t.id \in Nat /\ got.id \in Nat /\ cur.id \in Nat
    BY <1>5, <2>4, RequestTypes DEF IInv, TypeOK
  <2> QED
    BY <1>1, <2>1, <2>4, <2>5
<1> QED
  BY <1>1, <1>5, <1>6

\* The answers on their way stay those that nobody was given.
LEMMA AnswerInvStep == IInv /\ StaleInv /\ [Next]_vars => AnswerInv'
<1> SUFFICES ASSUME IInv, AnswerInv, SettledInv, [Next]_vars PROVE AnswerInv'
  BY DEF StaleInv
<1>0. /\ down \in Seq(Frame)
      /\ wire \in Seq(Request)
      /\ answered \subseteq Nat
      /\ timedOut \subseteq Request
  BY DEF IInv, TypeOK
<1>1. ASSUME UNCHANGED <<answered, wire, accepted>>,
             down' = down \/ (down # <<>> /\ down' = Tail(down))
      PROVE  AnswerInv'
  <2>1. CASE down' = down
    BY <1>1, <2>1 DEF AnswerInv
  <2>2. CASE down # <<>> /\ down' = Tail(down)
    <3>1. \A k \in DOMAIN down' : k \in Nat /\ k + 1 \in DOMAIN down /\ down'[k] = down[k + 1]
      BY <1>0, <2>2, TailDown
    <3>2. ASSUME NEW k \in DOMAIN down', down'[k].kind = "answer",
                 NEW l \in DOMAIN down', down'[l].kind = "answer",
                 down'[l].req.id = down'[k].req.id
          PROVE  l = k
      <4>1. l + 1 = k + 1
        BY <3>1, <3>2 DEF AnswerInv
      <4> QED
        BY <3>1, <4>1
    <3>3. \A k \in DOMAIN down' : down'[k].kind = "answer" =>
             /\ \E i \in DOMAIN wire : wire[i] = down'[k].req
             /\ down'[k].req.cmd # "login.init"
             /\ down'[k].req.id \in answered
      BY <3>1 DEF AnswerInv
    <3>4. \A pair \in accepted :
            /\ pair[2].id \in answered
            /\ \A k \in DOMAIN down' : down'[k].kind = "answer" => down'[k].req.id # pair[2].id
      BY <3>1 DEF AnswerInv
    <3> QED
      BY <1>1, <3>2, <3>3, <3>4 DEF AnswerInv
  <2> QED
    BY <1>1, <2>1, <2>2
<1>2. CASE NoRequestStep \/ GiveUpStep \/ DropStep
  BY <1>1, <1>2 DEF NoRequestStep, GiveUpStep, DropStep
<1>3. CASE WriteRequest \/ WriteLoginInit
  <2>1. /\ wire' = Append(wire, cur)
        /\ UNCHANGED <<down, answered, accepted>>
    BY <1>3 DEF WriteRequest, WriteLoginInit, WroteFrame, netVars, pastVars
  <2> QED
    BY <2>1, WireGrows DEF AnswerInv
<1>4. CASE TakeAnswer
  <2>1. /\ down # <<>> /\ down' = Tail(down)
        /\ UNCHANGED <<answered, wire>>
        /\ Head(down) = down[1] /\ 1 \in DOMAIN down
        /\ down[1].kind = "answer"
    BY <1>0, <1>4 DEF TakeAnswer, FrameRead, Matches, sendVars
  <2>2. \A k \in DOMAIN down' : k \in Nat /\ k + 1 \in DOMAIN down /\ down'[k] = down[k + 1]
    BY <1>0, <2>1, TailDown
  <2>3. accepted' = accepted \cup {<<cur, down[1].req>>}
    BY <1>4, <2>1, AnswerTaken
  <2>4. \A k \in DOMAIN down' : down'[k].kind = "answer" => down'[k].req.id # down[1].req.id
    <3> SUFFICES ASSUME NEW k \in DOMAIN down', down'[k].kind = "answer",
                        down'[k].req.id = down[1].req.id
                 PROVE  FALSE
      OBVIOUS
    <3>1. k + 1 = 1
      BY <2>1, <2>2 DEF AnswerInv
    <3> QED
      BY <2>1, <2>2, <3>1, <1>0
  <2>5. down[1].req.id \in answered
    BY <2>1 DEF AnswerInv
  <2> QED
    BY <2>1, <2>2, <2>3, <2>4, <2>5 DEF AnswerInv
<1>5. CASE ServerAnswer
  <2>1. PICK i \in DOMAIN wire :
          /\ wire[i].id \notin answered
          /\ wire[i].cmd # "login.init"
          /\ down' = Append(down, [kind |-> "answer", req |-> wire[i]])
          /\ answered' = answered \cup {wire[i].id}
          /\ UNCHANGED <<wire, accepted>>
    BY <1>5 DEF ServerAnswer, Arrive, sendVars, pastVars
  <2>2. \A k \in DOMAIN down' :
          \/ k \in DOMAIN down /\ down'[k] = down[k]
          \/ k = Len(down) + 1 /\ down'[k] = [kind |-> "answer", req |-> wire[i]]
    BY <1>0, <2>1
  <2> QED
    BY <2>1, <2>2 DEF AnswerInv
<1>6. CASE ServerSend
  <2>1. PICK kind \in {"push", "bad", "terminal"} :
          /\ down' = Append(down, [kind |-> kind, req |-> NoReq])
          /\ UNCHANGED <<wire, accepted, answered>>
    BY <1>6 DEF ServerSend, Arrive, sendVars, pastVars
  <2>2. \A k \in DOMAIN down' :
          \/ k \in DOMAIN down /\ down'[k] = down[k]
          \/ down'[k].kind # "answer"
    BY <1>0, <2>1
  <2> QED
    BY <2>1, <2>2 DEF AnswerInv
<1> QED
  BY <1>2, <1>3, <1>4, <1>5, <1>6, RequestSteps

\* A request that is not waited for any more is settled.
LEMMA SettledInvStep == IInv /\ StaleInv /\ [Next]_vars => SettledInv'
<1> SUFFICES ASSUME IInv, AnswerInv, SettledInv, [Next]_vars PROVE SettledInv'
  BY DEF StaleInv
<1>0. /\ cur \in Request
      /\ pc \in [Senders -> PcValues]
  BY DEF IInv, TypeOK
<1>1. CASE NoRequestStep
  BY <1>1 DEF NoRequestStep, SettledInv, Settled
<1>2. CASE GiveUpStep
  <2>1. /\ Waiting /\ ~Waiting' /\ GoingOn
        /\ timedOut' = timedOut \cup {cur}
        /\ UNCHANGED <<wire, accepted, cur>>
    BY <1>2 DEF GiveUpStep, Waiting, GoingOn
  <2>2. \A req : Settled(req) => Settled(req)'
    BY <2>1 DEF Settled
  <2>3. Settled(cur)'
    BY <1>2, <2>1, <1>0, RequestTypes DEF Settled, GiveUpStep
  <2> QED
    BY <2>1, <2>2, <2>3 DEF SettledInv, Settled
<1>3. CASE DropStep
  BY <1>3 DEF DropStep, SettledInv, Settled, Waiting, GoingOn
<1>4. CASE WriteRequest
  <2>1. /\ wire' = Append(wire, cur)
        /\ ~Waiting /\ GoingOn /\ Waiting' /\ UNCHANGED <<cur, accepted, timedOut>>
    BY <1>0, <1>4 DEF WriteRequest, WroteFrame, pastVars, Waiting, GoingOn, Senders, Main, PcValues
  <2> QED
    BY <2>1, WireGrows DEF SettledInv, Settled
<1>5. CASE WriteLoginInit
  <2>1. /\ wire' = Append(wire, cur)
        /\ cur.cmd = "login.init"
        /\ ~Waiting /\ GoingOn /\ ~Waiting' /\ UNCHANGED <<cur, accepted, timedOut>>
    BY <1>0, <1>5 DEF WriteLoginInit, WroteFrame, pastVars, Waiting, GoingOn, Senders, Main,
                       PcValues
  <2> QED
    BY <2>1, WireGrows DEF SettledInv, Settled
<1>6. CASE TakeAnswer
  <2>1. /\ Waiting /\ ~Waiting' /\ GoingOn
        /\ UNCHANGED <<wire, timedOut, cur>>
    BY <1>0, <1>6 DEF TakeAnswer, FrameRead, sendVars, Waiting, GoingOn, Abort, Senders, Main,
                       PcValues
  <2>2. accepted' = accepted \cup {<<cur, Head(down).req>>}
    BY <1>6, AnswerTaken
  <2>3. Settled(cur)'
    <3>1. CASE Head(down).req = cur
      <4>1. <<cur, cur>> \in accepted' /\ <<cur, cur>>[2] = cur'
        BY <2>1, <2>2, <3>1
      <4> QED
        BY <4>1 DEF Settled
    <3>2. CASE Head(down).req # cur
      <4>1. PICK t \in timedOut : t.cmd = cur.cmd /\ t.id < cur.id
        BY <1>6, <3>2, AnswerTaken
      <4>2. t.id \in Nat /\ cur.id \in Nat
        BY <1>0, RequestTypes DEF IInv, TypeOK
      <4> QED
        BY <2>1, <4>1, <4>2 DEF Settled
    <3> QED
      BY <3>1, <3>2
  <2>4. \A req : Settled(req) => Settled(req)'
    BY <2>1, <2>2 DEF Settled
  <2> QED
    BY <2>1, <2>3, <2>4 DEF SettledInv, Settled
<1>7. CASE ServerAnswer \/ ServerSend
  BY <1>7 DEF ServerAnswer, ServerSend, Arrive, sendVars, pastVars, SettledInv, Settled, Waiting,
              GoingOn
<1> QED
  BY <1>1, <1>2, <1>3, <1>4, <1>5, <1>6, <1>7, RequestSteps

\* A pair is recorded only when an answer is taken.
LEMMA StaleStep == IInv /\ StaleInv /\ [Next]_vars => StaleOnlyAfterTimeout'
<1> SUFFICES ASSUME IInv, AnswerInv, SettledInv, StaleOnlyAfterTimeout, [Next]_vars
             PROVE  StaleOnlyAfterTimeout'
  BY DEF StaleInv
<1>1. CASE TakeAnswer
  <2>1. UNCHANGED timedOut
    BY <1>1 DEF TakeAnswer
  <2> QED
    BY <1>1, <2>1, AnswerTaken DEF StaleOnlyAfterTimeout
<1>2. ASSUME ~TakeAnswer
      PROVE  accepted' = accepted /\ timedOut \subseteq timedOut'
  BY <1>2, RequestSteps
  DEF NoRequestStep, GiveUpStep, DropStep, WriteRequest, WriteLoginInit, WroteFrame, ServerAnswer,
      ServerSend, Arrive, pastVars
<1>3. CASE ~TakeAnswer
  BY <1>2, <1>3 DEF StaleOnlyAfterTimeout
<1> QED
  BY <1>1, <1>3

\* Before the first request nothing is owed.
LEMMA InitStale == Init => StaleInv
BY DEF Init, StaleInv, AnswerInv, SettledInv, StaleOnlyAfterTimeout, Waiting, Senders, Main, Heart

\* An answer taken for a request carries its cmd, and it is another request's
\* only when a request of that cmd was given up before: with any number of
\* requests out and answers in any order, `WaitForCmd` is misled by nothing else.
THEOREM StaleAnswersExplained == Spec => []StaleOnlyAfterTimeout
<1>1. IInv /\ StaleInv /\ [Next]_vars => StaleInv'
  BY AnswerInvStep, SettledInvStep, StaleStep DEF StaleInv
<1>2. StaleInv => StaleOnlyAfterTimeout
  BY DEF StaleInv
<1> QED
  BY <1>1, <1>2, InitStale, SafeSpecIInv, SpecIsSafe, PTL DEF SafeSpec

-----------------------------------------------------------------------------
(* The connection implements SessionUse. *)

\* While a request is out it is not the first ping.
LEMMA RequestOut ==
    ASSUME IInv
    PROVE  /\ Waiting => cur # Ping
           /\ stage # "dialed" /\ Sending => cur # Ping
<1> USE RequestTypes DEF IInv, IdInv, Waiting, Sending
<1>1. CASE stage = "dialed"
  BY <1>1
<1>2. CASE stage = "login"
  BY <1>2
<1>3. CASE stage \in {"init", "run"}
  BY <1>3
<1> QED
  BY <1>1, <1>2, <1>3 DEF TypeOK

\* A fresh connection is a fresh one to its user.
LEMMA InitUse == Init => Use!Init
BY DEF Init, Use!Init, Senders, Main, Heart

\* Every step is one of the abstract steps or changes nothing the user of the
\* connection can tell.
LEMMA StepUse == IInv /\ [Next]_vars => [Use!Next]_(Use!vars)
<1> SUFFICES ASSUME IInv, [Next]_vars PROVE Use!Next \/ UNCHANGED Use!vars
  OBVIOUS
<1>0. /\ pc \in [Senders -> PcValues]
      /\ mid => pc[Main] \in {"body", "dead", "done"}
      /\ Main \in torn => pc[Main] \in {"dead", "done"}
      /\ ended => pc[Main] \in {"dead", "done"}
  BY DEF IInv, TypeOK, FrameInv, TornInv, EndedInv
<1> USE <1>0, RequestOut, RequestTypes
    DEF Use!Next, Use!Ask, Use!Settle, Use!Fail, Use!Leave, Use!vars, Waiting, Sending,
        Senders, Main, Heart, Free, sockVars, readVars, netVars, pastVars, sendVars
<1>1. CASE StartHeartbeat
  BY <1>1 DEF StartHeartbeat
<1>2. CASE SendLogin
  BY <1>2 DEF SendLogin
<1>3. CASE LoginInit
  BY <1>3 DEF LoginInit, SendExtension
<1>4. ASSUME NEW cmd \in Cmds, SendCmd(cmd)
      PROVE  Use!Next \/ UNCHANGED Use!vars
  BY <1>4 DEF SendCmd, SendExtension, NextId, loginFutureID
<1>5. CASE MainClose
  BY <1>5 DEF MainClose
<1>6. CASE HeartTick
  BY <1>6 DEF HeartTick
<1>7. CASE HeartStop
  BY <1>7 DEF HeartStop
<1>8. CASE HeartClose
  BY <1>8 DEF HeartClose, Close
<1>9. ASSUME NEW p \in Senders, Check(p)
      PROVE  Use!Next \/ UNCHANGED Use!vars
  BY <1>9 DEF Check, AfterRefusal
<1>10. ASSUME NEW p \in Senders, Lock(p)
      PROVE  Use!Next \/ UNCHANGED Use!vars
  BY <1>10 DEF Lock
<1>11. CASE WriteFirstPing
  BY <1>11 DEF WriteFirstPing, WroteFrame
<1>12. CASE WriteRequest
  BY <1>12 DEF WriteRequest, WroteFrame
<1>13. CASE WriteLoginInit
  BY <1>13 DEF WriteLoginInit, WroteFrame
<1>14. CASE WritePing
  BY <1>14 DEF WritePing, WroteFrame
<1>15. ASSUME NEW p \in Senders, WriteError(p)
      PROVE  Use!Next \/ UNCHANGED Use!vars
  BY <1>15 DEF WriteError, Close, AfterWriteError
<1>16. CASE WaitLoop
  BY <1>16 DEF WaitLoop, GiveUp
<1>17. CASE ReadHeader
  BY <1>17 DEF ReadHeader
<1>18. CASE ReadTimeout
  BY <1>18 DEF ReadTimeout, GiveUp
<1>19. CASE ReadLost
  BY <1>19 DEF ReadLost, Abort
<1>20. CASE ReadFrameError
  BY <1>20 DEF ReadFrameError, AfterFrameError, Abort
<1>21. CASE TakeAnswer
  BY <1>21 DEF TakeAnswer, FrameRead, Abort
<1>22. CASE SkipEnvelope
  BY <1>22 DEF SkipEnvelope, FrameRead, GiveUp
<1>23. CASE SkipUndecodable
  BY <1>23 DEF SkipUndecodable, FrameRead, Abort
<1>24. CASE ReadTerminalPush
  BY <1>24 DEF ReadTerminalPush, FrameRead, Abort
<1>25. CASE Terminated \/ UNCHANGED vars
  BY <1>25 DEF Terminated, vars
<1>26. CASE Environment
  BY <1>26, EnvironmentFrame
<1> QED
  BY <1>1, <1>2, <1>3, <1>4, <1>5, <1>6, <1>7, <1>8, <1>9, <1>10, <1>11, <1>12, <1>13, <1>14,
     <1>15, <1>16, <1>17, <1>18, <1>19, <1>20, <1>21, <1>22, <1>23, <1>24, <1>25, <1>26
  DEF Next, Begin, Reader, Heartbeat, WriteStep

\* What the main goroutine relies on: requests are asked and settled one at a
\* time, and after a failure that leaves the stream out of step, or the session
\* ended, it asks nothing more.
THEOREM ImplementsUse == SafeSpec => Use!SafeSpec
BY SafeSpecIInv, InitUse, StepUse, PTL DEF SafeSpec, Use!SafeSpec

-----------------------------------------------------------------------------
(* The connection's clock.  Neither of its properties is inductive: what a  *)
(* pong will set depends on when its ping went out and on when it was       *)
(* answered.  FlightInv keeps both, SampleInv what the sample in use says   *)
(* of the server's clock.                                                   *)


\* Pings and pongs are this heartbeat's, and a pong's ping went out before the
\* server answered.
FlightInv ==
    /\ start <= now
    /\ \A i \in 1 .. Len(pings) : start # NotStarted /\ start + pings[i] <= now
    /\ \A i \in 1 .. Len(pongs) :
          /\ start # NotStarted
          /\ start + pongs[i].client + skew <= pongs[i].server
          /\ pongs[i].server <= now + skew

\* The sample in use bounds the server's distance from the host.
SampleInv ==
    /\ synced => start # NotStarted
    /\ synced => 2 * (base - syncAt - skew) <= minRTT + 1
    /\ synced => 2 * (syncAt + skew - base) <= minRTT + 1
    /\ ~synced => best = Longest /\ minRTT = Longest
    /\ best <= minRTT

ClockInv ==
    /\ ClockTypeOK
    /\ FlightInv
    /\ SampleInv
    /\ GoodSampleStays

LEMMA ClockInitInv == ClockInit => ClockInv
<1> SUFFICES ASSUME ClockInit
             PROVE  ClockInv
  OBVIOUS
<1> USE ClockAssumption DEF ClockInit
<1>1. MaxTime \in Nat /\ Longest \in Nat
  BY DEF Longest
<1>2. ClockTypeOK
  <2>1. pings \in Seq(Nat)
    OBVIOUS
  <2>2. pongs \in Seq(Pong)
    OBVIOUS
  <2>3. minRTT \in Samples /\ best \in Samples
    BY <1>1 DEF Samples
  <2>4. now \in 0 .. MaxTime /\ start \in 0 .. MaxTime \cup {NotStarted}
    BY <1>1
  <2>5. base \in Int /\ syncAt \in Nat /\ skew \in Skews
    OBVIOUS
  <2>6. synced \in BOOLEAN
    BY Zenon
  <2> QED
    BY <2>1, <2>2, <2>3, <2>4, <2>5, <2>6 DEF ClockTypeOK
<1>3. FlightInv /\ SampleInv /\ GoodSampleStays
  BY <1>1 DEF FlightInv, SampleInv, GoodSampleStays, NotStarted
<1> QED
  BY <1>2, <1>3 DEF ClockInv

-----------------------------------------------------------------------------
(* The steps. *)

LEMMA StartClockInv ==
    ASSUME ClockInv, StartClock
    PROVE  ClockInv'
BY ClockAssumption DEF ClockInv, ClockTypeOK, FlightInv, SampleInv, GoodSampleStays, StartClock, Longest,
   Samples, NotStarted

LEMMA SendInv ==
    ASSUME ClockInv, SendHeartbeat
    PROVE  ClockInv'
<1> USE ClockAssumption DEF ClockInv, ClockTypeOK, FlightInv, SendHeartbeat, NotStarted
<1>1. now - start \in Nat
  BY DEF NotStarted
<1>2. ClockTypeOK'
  BY <1>1
<1>3. FlightInv'
  BY <1>1
<1>4. SampleInv' /\ GoodSampleStays'
  BY DEF SampleInv, GoodSampleStays, Longest
<1> QED
  BY <1>2, <1>3, <1>4

LEMMA AnswerClockInv ==
    ASSUME ClockInv, Answer
    PROVE  ClockInv'
<1> USE ClockAssumption DEF ClockInv
<1>1. PICK has \in BOOLEAN :
          pongs' = Append(pongs, [client |-> Head(pings), server |-> now + skew, has |-> has])
  BY DEF Answer
<1>2. Head(pings) \in Nat /\ start # NotStarted /\ start + Head(pings) <= now
  BY DEF Answer, ClockTypeOK, FlightInv
<1>3. now \in Nat /\ skew \in Int
  BY DEF ClockTypeOK
<1>4. [client |-> Head(pings), server |-> now + skew, has |-> has] \in Pong
  BY <1>2, <1>3 DEF Pong
<1>5. ClockTypeOK'
  BY <1>1, <1>4 DEF ClockTypeOK, Answer
<1>6. FlightInv'
  <2>0. start' <= now'
    BY DEF FlightInv, Answer
  <2>1. \A i \in 1 .. Len(pings') : start' # NotStarted /\ start' + pings'[i] <= now'
    BY DEF ClockTypeOK, FlightInv, Answer
  <2>2. \A i \in 1 .. Len(pongs') :
            /\ start' # NotStarted
            /\ start' + pongs'[i].client + skew' <= pongs'[i].server
            /\ pongs'[i].server <= now' + skew'
    <3> TAKE i \in 1 .. Len(pongs')
    <3>1. CASE i <= Len(pongs)
      BY <1>1, <3>1 DEF ClockTypeOK, FlightInv, Answer
    <3>2. CASE i = Len(pongs) + 1
      BY <1>1, <1>2, <1>3, <3>2 DEF ClockTypeOK, Answer, NotStarted
    <3> QED
      BY <1>1, <3>1, <3>2 DEF ClockTypeOK
  <2> QED
    BY <2>0, <2>1, <2>2 DEF FlightInv
<1>7. SampleInv' /\ GoodSampleStays'
  BY DEF SampleInv, GoodSampleStays, Longest, Answer
<1> QED
  BY <1>5, <1>6, <1>7

\* What half a round trip does to a reading taken during it.
LEMMA HalfTrip ==
    ASSUME NEW server \in Int, NEW rtt \in Nat, NEW at \in Int,
           server <= at, at - rtt <= server
    PROVE  /\ 2 * (Sample(server, rtt) - at) <= rtt + 1
           /\ 2 * (at - Sample(server, rtt)) <= rtt + 1
           /\ Sample(server, rtt) \in Int
BY DEF Sample

LEMMA ReadPongInv ==
    ASSUME ClockInv, ReadPong
    PROVE  ClockInv'
<1> USE ClockAssumption DEF ClockInv
<1> DEFINE p == Head(pongs)
           rtt == now - start - p.client
           usable == p.has /\ p.server >= MinServer /\ start # NotStarted /\ rtt >= 0
<1>1. p \in Pong /\ p.client \in Nat /\ p.server \in Int
  <2>1. pongs \in Seq(Pong) /\ pongs # <<>>
    BY DEF ReadPong, ClockTypeOK
  <2>2. Head(pongs) \in Pong
    BY <2>1
  <2> QED
    BY <2>2 DEF Pong
<1>2. /\ start # NotStarted /\ start + p.client + skew <= p.server
      /\ p.server <= now + skew
  <2>1. 1 \in 1 .. Len(pongs) /\ Head(pongs) = pongs[1]
    BY DEF ReadPong, ClockTypeOK
  <2> QED
    BY <2>1 DEF FlightInv
<1>3. /\ start \in Nat /\ now \in Nat /\ skew \in Int /\ rtt \in Nat /\ rtt < Longest
      /\ now <= MaxTime /\ MaxTime \in Nat
  <2>1. start \in Nat /\ now \in Nat /\ skew \in Int /\ now <= MaxTime /\ MaxTime \in Nat
    BY <1>2 DEF ClockTypeOK, NotStarted
  <2> QED
    BY <1>1, <1>2, <2>1 DEF Longest
<1>4. /\ minRTT \in Nat /\ best \in Nat /\ best <= minRTT
      /\ Longest \in Nat /\ minRTT <= Longest /\ FastRTT \in Nat
  BY DEF ClockTypeOK, SampleInv, Samples, Longest
<1>5. FlightInv'
  BY DEF ReadPong, ClockTypeOK, FlightInv
<1>6. pongs' \in Seq(Pong)
  BY DEF ReadPong, ClockTypeOK
<1>7. best' = IF usable /\ rtt < best THEN rtt ELSE best
  BY DEF ReadPong
<1>8. CASE usable /\ Takes(rtt)
  <2>1. minRTT' = rtt /\ base' = Sample(p.server, rtt) /\ syncAt' = now /\ synced' = TRUE
    BY <1>8 DEF ReadPong
  <2>2. /\ 2 * (Sample(p.server, rtt) - (now + skew)) <= rtt + 1
        /\ 2 * ((now + skew) - Sample(p.server, rtt)) <= rtt + 1
        /\ Sample(p.server, rtt) \in Int
    <3> HIDE DEF p, rtt
    <3>1. now + skew \in Int /\ (now + skew) - rtt <= p.server
      BY <1>1, <1>2, <1>3 DEF rtt
    <3> QED
      BY <1>1, <1>2, <1>3, <3>1, HalfTrip
  <2>3. ClockTypeOK'
    <3> HIDE DEF p, rtt, usable
    <3>1. UNCHANGED <<now, skew, start, pings>>
      BY DEF ReadPong
    <3>2. minRTT' \in Samples /\ best' \in Samples
      BY <1>3, <1>4, <1>7, <2>1 DEF Samples
    <3>3. base' \in Int /\ syncAt' \in Nat /\ synced' \in BOOLEAN
      BY <1>3, <2>1, <2>2
    <3>4. Samples' = Samples
      BY DEF Samples, Longest
    <3> QED
      BY <1>6, <3>1, <3>2, <3>3, <3>4 DEF ClockTypeOK
  <2>4. SampleInv'
    <3> HIDE DEF p, rtt
    <3>0. start' = start /\ skew' = skew
      BY DEF ReadPong
    <3>1. best' <= minRTT'
      BY <1>3, <1>4, <1>7, <1>8, <2>1
    <3>2. /\ 2 * (base' - syncAt' - skew') <= minRTT' + 1
          /\ 2 * (syncAt' + skew' - base') <= minRTT' + 1
      BY <1>3, <2>1, <2>2, <3>0
    <3> QED
      BY <1>2, <2>1, <3>0, <3>1, <3>2 DEF SampleInv
  <2>5. GoodSampleStays'
    <3> HIDE DEF p, rtt
    <3>1. best' = IF rtt < best THEN rtt ELSE best
      BY <1>7, <1>8
    <3>2. CASE rtt < best
      BY <2>1, <3>1, <3>2 DEF GoodSampleStays
    <3>3. CASE ~(rtt < best)
      <4>1. synced
        BY <1>3, <1>4, <3>3 DEF SampleInv
      <4>2. CASE best > 0
        BY <1>3, <1>4, <1>8, <2>1, <3>1, <3>3, <4>1, <4>2 DEF GoodSampleStays, Takes
      <4> QED
        BY <1>4, <3>1, <3>3, <4>2 DEF GoodSampleStays
    <3> QED
      BY <3>2, <3>3
  <2> QED
    BY <1>5, <2>3, <2>4, <2>5
<1>9. CASE ~(usable /\ Takes(rtt))
  <2>1. UNCHANGED <<minRTT, base, syncAt, synced, now, skew, start, pings>>
    BY <1>9 DEF ReadPong
  <2>2. best' = best
    <3> HIDE DEF p, rtt
    <3> QED
      BY <1>3, <1>4, <1>7, <1>9 DEF Takes
  <2> QED
    BY <1>5, <1>6, <2>1, <2>2 DEF ClockTypeOK, SampleInv, GoodSampleStays, Longest, Samples
<1> QED
  BY <1>8, <1>9

LEMMA TickInv ==
    ASSUME ClockInv, Tick
    PROVE  ClockInv'
<1> USE ClockAssumption DEF ClockInv, Tick
<1>1. ClockTypeOK'
  BY DEF ClockTypeOK
<1>2. FlightInv'
  <2>0. start <= now + 1
    BY DEF ClockTypeOK, FlightInv, NotStarted
  <2>1. \A i \in 1 .. Len(pings) : start # NotStarted /\ start + pings[i] <= now + 1
    BY DEF ClockTypeOK, FlightInv
  <2>2. \A i \in 1 .. Len(pongs) : pongs[i] \in Pong
    BY DEF ClockTypeOK
  <2>3. ASSUME NEW i \in 1 .. Len(pongs)
        PROVE  /\ start # NotStarted
               /\ start + pongs[i].client + skew <= pongs[i].server
               /\ pongs[i].server <= now + 1 + skew
    <3>1. /\ start # NotStarted
          /\ start + pongs[i].client + skew <= pongs[i].server
          /\ pongs[i].server <= now + skew
      BY DEF FlightInv
    <3>2. pongs[i] \in Pong
      BY <2>2
    <3>3. pongs[i].server \in Int
      BY <3>2 DEF Pong
    <3>4. now \in Int /\ skew \in Int
      BY DEF ClockTypeOK
    <3> HIDE DEF ClockInv, Tick
    <3> QED
      BY <3>1, <3>3, <3>4
  <2> QED
    BY <2>0, <2>1, <2>3 DEF FlightInv
<1>3. SampleInv' /\ GoodSampleStays'
  BY DEF SampleInv, GoodSampleStays, Longest
<1> QED
  BY <1>1, <1>2, <1>3

LEMMA ClockNextInv == ClockInv /\ [ClockNext]_clockVars => ClockInv'
<1> SUFFICES ASSUME ClockInv, [ClockNext]_clockVars
             PROVE  ClockInv'
  OBVIOUS
<1>1. CASE ClockNext
  BY <1>1, StartClockInv, SendInv, AnswerClockInv, ReadPongInv, TickInv DEF ClockNext
<1>2. CASE UNCHANGED clockVars
  BY <1>2 DEF clockVars, ClockInv, ClockTypeOK, FlightInv, SampleInv, GoodSampleStays, Longest, Samples
<1> QED
  BY <1>1, <1>2

LEMMA ClockInvariance == ClockSpec => []ClockInv
BY ClockInitInv, ClockNextInv, PTL DEF ClockSpec

-----------------------------------------------------------------------------
\* The sample in use bounds how far the clock has run from the server's.
LEMMA ClockFromSample == ClockInv => WithinHalfTrip
<1> SUFFICES ASSUME ClockInv, synced
             PROVE  2 * Abs(ServerNow - (now + skew)) <= minRTT + 1
  BY DEF WithinHalfTrip
<1>1. /\ now \in Int /\ skew \in Int /\ base \in Int /\ syncAt \in Int /\ minRTT \in Int
      /\ 2 * (base - syncAt - skew) <= minRTT + 1
      /\ 2 * (syncAt + skew - base) <= minRTT + 1
  BY ClockAssumption DEF ClockInv, ClockTypeOK, SampleInv, Samples, Longest
<1> QED
  BY <1>1 DEF Abs, ServerNow

\* A synced clock is within half the round trip of the sample in use, for every
\* skew and however long a pong took or lay unread (serverClock.sync and now).
THEOREM ClockTheorem == ClockSpec => []WithinHalfTrip
BY ClockInvariance, ClockFromSample, PTL

\* The sample in use is the best yet or a fast one (serverClock.sync).
THEOREM GoodSampleTheorem == ClockSpec => []GoodSampleStays
<1>1. ClockInv => GoodSampleStays
  BY DEF ClockInv
<1> QED
  BY <1>1, ClockInvariance, PTL
=============================================================================
