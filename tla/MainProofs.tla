----------------------------- MODULE MainProofs -----------------------------
(***************************************************************************)
(* Proofs about the two halves of main: CrossServerRun, from the flags to a *)
(* logged-in connection, and AfterLogin, from there to the exit.            *)
(*                                                                          *)
(* CrossServerRun: type correctness, the bound on retries, and what happens *)
(* to tokens, for any devices, addresses, session configs and combinations  *)
(* of flags that its assumptions allow.  Three inductive invariants carry   *)
(* them beside TypeOK: RetryInv counts a run's requests by how far it has   *)
(* come, TokenInv relates the tokens of file, run, reply and GSL, and       *)
(* PlainInv, the state of a run without flags that nothing disturbed, says  *)
(* what it has learned and what it has saved.                               *)
(*                                                                          *)
(* AfterLogin, for any lists, limits and budgets: the exit code tells what  *)
(* main was told (ExitTellsAll), the main goroutine never exits over the    *)
(* signal goroutine's own close of the connection (NeverBlamesShutdown),    *)
(* and a wait that gives up in silence has waited for init its whole budget *)
(* (WaitsForInit).  The first two rest on the way a run comes to its exit:  *)
(* SignalInv relates the closed connection to the flag and to what the main *)
(* goroutine saw of it; StageInv says what main was told, and of which      *)
(* errors, by each stage.  The third rests on what a wait has done with its *)
(* time and its lists (BudgetInv, ListInv, at the end).                     *)
(***************************************************************************)
EXTENDS CrossServerRun, AfterLogin, TLAPS

-----------------------------------------------------------------------------
(* CrossServerRun. *)


-----------------------------------------------------------------------------
(* Types. *)

\* No token is a token.
LEMMA TokTypes == NoTok \in Token
  BY DEF NoTok, Token

\* The empty values have their types.
LEMMA NoTypes ==
    /\ NoReply \in Reply
    /\ NoTally \in Tally
    /\ NoConfig \in SessionConfig
    /\ NoFlags \in Flags
  BY TokTypes DEF NoReply, NoTally, NoConfig, NoFlags, Reply, Tally, SessionConfig, Flags, Age

\* So has the state between runs.
LEMMA NoRunType == NoRun \in Locals
  BY TokTypes, NoTypes, DevicesAssumption DEF NoRun, Locals, Age

\* A fault uses up part of the budget.
LEMMA FaultType == ASSUME TypeOK, Fault PROVE budget' \in 0 .. MaxEvents /\ faulty' \in BOOLEAN
  BY CountsAssumption DEF TypeOK, Fault

\* A smooth step uses none.
LEMMA SmoothType == ASSUME TypeOK, Smooth PROVE budget' \in 0 .. MaxEvents /\ faulty' \in BOOLEAN
  BY DEF TypeOK, Smooth

\* A run that ends leaves well-typed values.
LEMMA ExitType == ASSUME NEW c \in {0, 1, 2, 3, 4, 137}, Exit(c)
  PROVE /\ pc' \in PcValues /\ last' \in {0, 1, 2, 3, 4, 137}
        /\ run' \in Locals /\ reply' \in Reply /\ tally' \in Tally
  BY NoTypes, NoRunType DEF Exit, PcValues

\* Merging flags and session config yields well-typed locals.
LEMMA StartType ==
    ASSUME TypeOK, NEW flags \in FlagSets \cup {NoFlags}, StartRun(flags),
           budget' \in 0 .. MaxEvents
    PROVE  TypeOK'
  <1> DEFINE cfg == IF flags.noConfig THEN NoConfig ELSE disk
             dev == IF flags.dev # NoDev THEN flags.dev ELSE cfg.dev
             at == IF flags.at # NoTok THEN flags.at ELSE cfg.at
             addr == IF flags.ip # NoAddr THEN flags.ip ELSE cfg.addr
             rt == configRefreshToken(cfg, dev)
             age == IF flags.at # NoTok THEN "unknown" ELSE cfg.age
             orig == [cfg EXCEPT !.at = at, !.addr = addr]
  <1>1. flags \in Flags
    BY NoTypes, FlagSetsAssumption
  <1>2. cfg \in SessionConfig
    BY NoTypes DEF TypeOK
  <1>3. /\ dev \in Devices \cup {NoDev}
        /\ at \in Token
        /\ addr \in Addrs \cup {NoAddr}
        /\ rt \in Token
        /\ age \in Age
        /\ cfg.uid \in BOOLEAN
        /\ cfg.inst \in Devices \cup {NoDev}
    <2> HIDE DEF cfg
    <2> QED
      BY <1>1, <1>2, TokTypes DEF Flags, SessionConfig, configRefreshToken, Age
  <1>4. orig \in SessionConfig
    <2> HIDE DEF cfg, at, addr
    <2> QED
      BY <1>2, <1>3 DEF SessionConfig
  <1>5. RunDevice(dev) \in Devices
    BY <1>3, DevicesAssumption DEF RunDevice
  <1>6. run' = [NoRun EXCEPT !.flags = flags, !.dev = RunDevice(dev),
                             !.at = at, !.rt = rt, !.addr = addr, !.uid = cfg.uid,
                             !.age = age, !.inst = cfg.inst, !.orig = orig]
    BY DEF StartRun
  <1>7. run' \in Locals
    <2> HIDE DEF cfg, dev, at, addr, rt, age, orig
    <2> QED
      BY <1>1, <1>3, <1>4, <1>5, <1>6, NoRunType DEF Locals
  <1> QED
    BY <1>7 DEF TypeOK, StartRun, Goto, PcValues, pastVars

\* Replies that lack something are replies.
LEMMA ReplyType ==
    ASSUME NEW kind \in {"net", "code", "ok", "reauth"}, NEW rt \in Token,
           NEW obj \in BOOLEAN, NEW addr \in Addrs \cup {NoAddr}
    PROVE  /\ [NoReply EXCEPT !.kind = kind] \in Reply
           /\ [NoReply EXCEPT !.kind = kind, !.rt = rt] \in Reply
           /\ [NoReply EXCEPT !.kind = kind, !.rt = rt, !.obj = obj, !.addr = addr] \in Reply
  BY NoTypes DEF Reply

\* What GSL grants is a token, and leaves its side well typed.
LEMMA GrantType ==
    ASSUME TypeOK,
           NEW a \in Newer(gsl.at[run.dev]), NEW r \in Newer(gsl.rt[run.dev])
    PROVE  /\ NewRt(r) \in Token
           /\ [dev |-> run.dev, n |-> a] \in Token
           /\ [gsl EXCEPT !.at[run.dev] = a, !.rt[run.dev] = r] \in Gsl
  <1>1. run.dev \in Devices
    BY DEF TypeOK, Locals
  <1>2. gsl \in Gsl /\ gsl.at[run.dev] \in 1 .. MaxGen /\ gsl.rt[run.dev] \in 1 .. MaxGen
    BY <1>1 DEF TypeOK, Gsl
  <1>3. a \in 1 .. MaxGen /\ r \in 1 .. MaxGen
    BY <1>2, CountsAssumption DEF Newer
  <1>4. NewRt(r) \in Token /\ [dev |-> run.dev, n |-> a] \in Token
    BY <1>1, <1>3, TokTypes DEF Token, NewRt
  <1>5. [gsl EXCEPT !.at[run.dev] = a, !.rt[run.dev] = r] \in Gsl
    BY <1>1, <1>2, <1>3 DEF Gsl
  <1> QED
    BY <1>4, <1>5

\* GSL's side of a refresh keeps its types.
LEMMA RefreshType ==
    ASSUME TypeOK, NEW tok, GslRefresh(tok)
    PROVE  gsl' \in Gsl /\ reply' \in Reply /\ budget' \in 0 .. MaxEvents /\ faulty' \in BOOLEAN
  <1>1. gsl \in Gsl /\ gsl.home \in Addrs
    BY DEF TypeOK, Gsl
  <1>2. CASE GslRefuses
    BY <1>1, <1>2, SmoothType, ReplyType, TokTypes DEF GslRefuses
  <1>3. CASE GslFails
    BY <1>1, <1>3, FaultType, ReplyType, TokTypes DEF GslFails
  <1>4. ASSUME NEW a \in Newer(gsl.at[run.dev]), NEW r \in Newer(gsl.rt[run.dev]),
               GslGrants(a, r)
        PROVE  /\ gsl' \in Gsl /\ reply' \in Reply
               /\ budget' \in 0 .. MaxEvents /\ faulty' \in BOOLEAN
    <2>1. NewRt(r) \in Token /\ [dev |-> run.dev, n |-> a] \in Token /\ gsl' \in Gsl
      BY <1>4, GrantType DEF GslGrants
    <2>2. CASE Smooth /\ FullReply(a, r)
      <3>1. reply' \in Reply
        BY <1>1, <2>1, <2>2 DEF FullReply, Reply, Age
      <3> QED
        BY <2>1, <2>2, <3>1, SmoothType
    <2>3. CASE Fault /\ PoorReply(r)
      <3>1. reply' \in Reply
        <4>1. CASE reply' = [NoReply EXCEPT !.kind = "net", !.rt = NewRt(r)]
          BY <2>1, <4>1, ReplyType
        <4>2. ASSUME NEW obj \in BOOLEAN, NEW addr \in {NoAddr, gsl.home},
                     reply' = [NoReply EXCEPT !.kind = "ok", !.rt = NewRt(r),
                                              !.obj = obj, !.addr = addr]
              PROVE  reply' \in Reply
          BY <1>1, <2>1, <4>2, ReplyType
        <4> QED
          BY <2>3, <4>1, <4>2 DEF PoorReply
      <3> QED
        BY <2>1, <2>3, <3>1, FaultType
    <2> QED
      BY <1>4, <2>2, <2>3 DEF GslGrants
  <1> QED
    BY <1>2, <1>3, <1>4 DEF GslRefresh

\* A refresh token that goes nowhere is a device's.
LEMMA LoseType ==
    ASSUME TypeOK, NEW condition, LoseIf(condition)
    PROVE  lost' \subseteq Devices /\ mixed' \in BOOLEAN
  BY DEF TypeOK, Locals, LoseIf

\* Saving refreshed tokens keeps the file a session config.
LEMMA SaveType ==
    ASSUME TypeOK, NEW at \in Token, NEW age \in Age, NEW rt \in Token,
           saveRefreshedTokens(at, age, rt)
    PROVE  /\ disk' \in SessionConfig /\ budget' \in 0 .. MaxEvents /\ faulty' \in BOOLEAN
           /\ lost' \subseteq Devices /\ mixed' \in BOOLEAN
  <1>1. disk \in SessionConfig /\ [disk EXCEPT !.at = at, !.age = age, !.rt = rt] \in SessionConfig
    BY DEF TypeOK, SessionConfig
  <1>2. lost \subseteq Devices /\ mixed \in BOOLEAN
    BY DEF TypeOK
  <1> QED
    BY <1>1, <1>2, SmoothType, FaultType, LoseType DEF saveRefreshedTokens

\* A tally stays one.
LEMMA CountType ==
    ASSUME TypeOK, NEW field \in {"asked", "refreshed", "logins", "lookups"}, Count(field)
    PROVE  tally' \in Tally
  BY DEF TypeOK, Tally, Count

\* The fields of the values at hand.
LEMMA FieldTypes ==
    ASSUME TypeOK
    PROVE  /\ reply.at \in Token /\ reply.rt \in Token /\ reply.age \in Age
           /\ reply.addr \in Addrs \cup {NoAddr}
           /\ run.at \in Token /\ run.rt \in Token /\ run.age \in Age
           /\ run.flags.rt \in Token /\ run.flags \in Flags
           /\ run.dev \in Devices /\ run.addr \in Addrs \cup {NoAddr}
           /\ run.inst \in Devices \cup {NoDev} /\ run.uid \in BOOLEAN
           /\ gsl.home \in Addrs
  BY DEF TypeOK, Reply, Locals, Flags, Gsl

\* Tokens from -cs-rt keep the types.
LEMMA CsRtRefreshedType == ASSUME TypeOK, CsRtRefreshed PROVE TypeOK'
  <1> DEFINE at == IF reply.at # NoTok THEN reply.at ELSE run.at
             age == IF reply.at # NoTok THEN reply.age ELSE run.age
             rt == IF Rotated THEN reply.rt ELSE run.flags.rt
  <1>1. at \in Token /\ age \in Age /\ rt \in Token
    BY FieldTypes
  <1>2. /\ run' = [run EXCEPT !.at = at, !.age = age, !.rt = rt, !.refreshed = TRUE,
                              !.addr = IF reply.addr # NoAddr THEN reply.addr ELSE @,
                              !.uid = @ \/ reply.addr # NoAddr]
        /\ saveRefreshedTokens(at, age, rt)
        /\ Count("refreshed")
        /\ reply' = NoReply
        /\ pc' = "stale"
        /\ UNCHANGED <<gsl, calm, last>>
    BY DEF CsRtRefreshed, Goto
  <1> HIDE DEF at, age, rt
  <1>3. run' \in Locals
    <2>1. run \in Locals
      BY DEF TypeOK
    <2> QED
      BY <1>1, <1>2, <2>1, FieldTypes DEF Locals
  <1>4. tally' \in Tally
    BY <1>2, CountType
  <1>5. /\ disk' \in SessionConfig /\ budget' \in 0 .. MaxEvents /\ faulty' \in BOOLEAN
        /\ lost' \subseteq Devices /\ mixed' \in BOOLEAN
    BY <1>1, <1>2, SaveType
  <1> QED
    BY <1>2, <1>3, <1>4, <1>5, NoTypes DEF TypeOK, PcValues

\* So do those of the other refreshes.
LEMMA TakeType ==
    ASSUME TypeOK, NEW next \in PcValues, NEW retry \in {"none", "looked", "refreshed"},
           TakeRefreshedTokens(next, retry)
    PROVE  TypeOK'
  <1> DEFINE rt == IF Rotated THEN reply.rt ELSE run.rt
  <1>1. rt \in Token
    BY FieldTypes
  <1>2. /\ run' = [run EXCEPT !.at = reply.at, !.age = reply.age, !.rt = rt,
                              !.refreshed = TRUE, !.retry = retry]
        /\ saveRefreshedTokens(reply.at, reply.age, rt)
        /\ Count("refreshed")
        /\ reply' = NoReply
        /\ pc' = next
        /\ UNCHANGED <<gsl, calm, last>>
    BY DEF TakeRefreshedTokens, Goto
  <1> HIDE DEF rt
  <1>3. run' \in Locals
    <2>1. run \in Locals
      BY DEF TypeOK
    <2> QED
      BY <1>1, <1>2, <2>1, FieldTypes DEF Locals
  <1>4. tally' \in Tally
    BY <1>2, CountType
  <1>5. /\ disk' \in SessionConfig /\ budget' \in 0 .. MaxEvents /\ faulty' \in BOOLEAN
        /\ lost' \subseteq Devices /\ mixed' \in BOOLEAN
    BY <1>1, <1>2, SaveType, FieldTypes
  <1> QED
    BY <1>2, <1>3, <1>4, <1>5, NoTypes DEF TypeOK

\* A refresh that fails keeps the types.
LEMMA RefreshFailedType == ASSUME TypeOK, RefreshFailed PROVE TypeOK'
  <1>1. Exit(1) \/ Exit(2)
    BY DEF RefreshFailed
  <1>2. Smooth /\ LoseIf(Rotated) /\ UNCHANGED <<disk, gsl, calm>>
    BY DEF RefreshFailed
  <1> QED
    BY <1>1, <1>2, ExitType, SmoothType, LoseType DEF TypeOK

\* Asking keeps the types.
LEMMA AskType ==
    ASSUME TypeOK, NEW tok, GslRefresh(tok), NEW next \in PcValues, Goto(next), Count("asked"),
           UNCHANGED <<disk, run, calm, pastVars>>
    PROVE  TypeOK'
  BY RefreshType, CountType DEF TypeOK, Goto, pastVars

\* So does asking without a gate host.
LEMMA AskRefreshType ==
    ASSUME TypeOK, NEW next \in PcValues, AskRefresh(next)
    PROVE  TypeOK'
  <1>1. CASE run.gate
    BY <1>1, AskType DEF AskRefresh
  <1>2. CASE ~run.gate
    BY <1>2, SmoothType, ReplyType, CountType, TokTypes DEF AskRefresh, TypeOK, Goto, pastVars
  <1> QED
    BY <1>1, <1>2

\* Every variable keeps its type in every step.
LEMMA StepType == ASSUME TypeOK, [Next]_vars PROVE TypeOK'
  <1>1. CASE UNCHANGED vars
    BY <1>1 DEF TypeOK, vars, pastVars
  <1>2. CASE StartPlainRun
    <2>1. StartRun(NoFlags) /\ budget' \in 0 .. MaxEvents
      BY <1>2 DEF StartPlainRun, TypeOK
    <2> QED
      BY <2>1, StartType
  <1>3. ASSUME NEW flags \in FlagSets, StartFlaggedRun(flags) PROVE TypeOK'
    <2>1. StartRun(flags) /\ budget' \in 0 .. MaxEvents
      BY <1>3, CountsAssumption DEF StartFlaggedRun, TypeOK
    <2> QED
      BY <2>1, StartType
  <1>4. CASE CheckVersion
    <2>1. CASE Fault /\ Exit(1)
      BY <1>4, <2>1, FaultType, ExitType DEF CheckVersion, TypeOK, pastVars
    <2>2. CASE ~(Fault /\ Exit(1))
      <3>1. run' \in Locals
        <4>1. run \in Locals
          BY DEF TypeOK
        <4> QED
          BY <1>4, <2>2, <4>1 DEF CheckVersion, Locals
      <3> QED
        BY <1>4, <2>2, <3>1, FaultType, SmoothType
        DEF CheckVersion, TypeOK, pastVars, Goto, PcValues
    <2> QED
      BY <2>1, <2>2
  <1>5. CASE AskCsRt
    BY <1>5, AskType DEF AskCsRt, PcValues, Asking
  <1>6. CASE CsRtFailed
    <2>1. Exit(1) \/ Exit(2)
      BY <1>6 DEF CsRtFailed
    <2>2. Smooth /\ LoseIf(Rotated) /\ UNCHANGED <<disk, gsl, calm>>
      BY <1>6 DEF CsRtFailed
    <2> QED
      BY <2>1, <2>2, ExitType, SmoothType, LoseType DEF TypeOK
  <1>7. CASE CsRtRefreshed
    BY <1>7, CsRtRefreshedType
  <1>8. CASE AskIfStale
    BY <1>8, AskRefreshType DEF AskIfStale, PcValues, Asking
  <1>9. CASE SkipRefresh
    BY <1>9, SmoothType DEF SkipRefresh, TypeOK, Goto, PcValues, pastVars
  <1>10. CASE StaleReply
    <2>1. run.retry \in {"none", "looked", "refreshed"} /\ "look" \in PcValues
      BY DEF TypeOK, Locals, PcValues
    <2>2. CASE TakeRefreshedTokens("look", run.retry)
      BY <2>1, <2>2, TakeType
    <2>3. CASE RefreshFailed
      BY <2>3, RefreshFailedType
    <2>4. CASE /\ reply' = NoReply /\ LoseIf(Rotated) /\ Goto("look") /\ Smooth
               /\ UNCHANGED <<disk, run, gsl, calm, tally>>
      BY <2>1, <2>4, SmoothType, LoseType, NoTypes DEF TypeOK, Goto
    <2> QED
      BY <1>10, <2>2, <2>3, <2>4 DEF StaleReply
  <1>11. CASE LookBeforeDial
    <2>1. CASE Exit(1) \/ Exit(2)
      BY <1>11, <2>1, ExitType, SmoothType, FaultType DEF LookBeforeDial, TypeOK, pastVars
    <2>2. CASE /\ Smooth /\ run' = [run EXCEPT !.addr = gsl.home, !.lookedUp = TRUE]
               /\ Count("lookups") /\ Goto("mint") /\ UNCHANGED reply
      <3>1. run' \in Locals
        <4>1. run \in Locals
          BY DEF TypeOK
        <4> QED
          BY <2>2, <4>1, FieldTypes DEF Locals
      <3> QED
        BY <1>11, <2>2, <3>1, CountType, SmoothType
        DEF LookBeforeDial, TypeOK, Goto, PcValues, pastVars
    <2> QED
      BY <1>11, <2>1, <2>2 DEF LookBeforeDial
  <1>12. CASE HaveAddress
    <2>1. CASE Exit(1)
      BY <1>12, <2>1, ExitType, SmoothType DEF HaveAddress, TypeOK, pastVars
    <2>2. CASE Goto("mint") /\ UNCHANGED <<run, reply, tally>>
      BY <1>12, <2>2, SmoothType DEF HaveAddress, TypeOK, Goto, PcValues, pastVars
    <2> QED
      BY <1>12, <2>1, <2>2 DEF HaveAddress
  <1>13. CASE Mint
    <2>1. run' \in Locals
      <3>1. run \in Locals
        BY DEF TypeOK
      <3> QED
        BY <1>13, <3>1, FieldTypes DEF Mint, Locals
    <2>2. disk' \in SessionConfig
      <3>1. disk \in SessionConfig
        BY DEF TypeOK
      <3> QED
        BY <1>13, <3>1, FieldTypes DEF Mint, SessionConfig
    <2>3. budget' \in 0 .. MaxEvents /\ faulty' \in BOOLEAN
      BY <1>13, SmoothType, FaultType DEF Mint
    <2> QED
      BY <1>13, <2>1, <2>2, <2>3 DEF Mint, TypeOK, Goto, PcValues, pastVars
  <1>14. CASE LoginOk
    <2>1. run' \in Locals
      <3>1. run \in Locals
        BY DEF TypeOK
      <3> QED
        BY <1>14, <3>1, FieldTypes DEF LoginOk, Locals
    <2> QED
      BY <1>14, <2>1, SmoothType, CountType DEF LoginOk, TypeOK, Goto, PcValues, pastVars
  <1>15. ASSUME NEW err \in LoginFaults \cup {"E011"}, LoginFailed(err) PROVE TypeOK'
    <2>1. budget' \in 0 .. MaxEvents /\ faulty' \in BOOLEAN
      BY <1>15, SmoothType, FaultType DEF LoginFailed
    <2>2. UNCHANGED <<disk, gsl, calm, pastVars>>
      BY <1>15 DEF LoginFailed
    <2>3. CASE Exit(ExitCode(err))
      <3>1. ExitCode(err) \in {0, 1, 2, 3, 4, 137}
        BY DEF ExitCode
      <3> QED
        BY <2>1, <2>2, <2>3, <3>1, ExitType DEF TypeOK, pastVars
    <2>4. CASE (Goto("relook") \/ Goto("e011")) /\ Count("logins") /\ UNCHANGED <<run, reply>>
      BY <2>1, <2>2, <2>4, CountType DEF TypeOK, pastVars, Goto, PcValues
    <2> QED
      BY <1>15, <2>3, <2>4 DEF LoginFailed
  <1>16. CASE LookAgain
    <2>1. CASE Exit(ExitCode("net"))
      <3>1. ExitCode("net") \in {0, 1, 2, 3, 4, 137}
        BY DEF ExitCode
      <3> QED
        BY <1>16, <2>1, <3>1, ExitType, SmoothType, FaultType DEF LookAgain, TypeOK, pastVars
    <2>2. CASE /\ Smooth /\ run' = [run EXCEPT !.addr = gsl.home, !.retry = "looked"]
               /\ Count("lookups") /\ Goto("login") /\ UNCHANGED reply
      <3>1. run' \in Locals
        <4>1. run \in Locals
          BY DEF TypeOK
        <4> QED
          BY <2>2, <4>1, FieldTypes DEF Locals
      <3> QED
        BY <1>16, <2>2, <3>1, CountType, SmoothType
        DEF LookAgain, TypeOK, Goto, PcValues, pastVars
    <2> QED
      BY <1>16, <2>1, <2>2 DEF LookAgain
  <1>17. CASE AskAfterE011
    BY <1>17, AskRefreshType DEF AskAfterE011, PcValues, Asking
  <1>18. CASE E011Reply
    BY <1>18, TakeType, RefreshFailedType DEF E011Reply, PcValues
  <1>19. CASE SaveBack
    <2>1. SaveBackConfig \in SessionConfig
      BY FieldTypes DEF SaveBackConfig, SessionConfig
    <2> QED
      BY <1>19, <2>1, SmoothType, FaultType DEF SaveBack, TypeOK, Goto, PcValues, pastVars
  <1>20. CASE Play
    BY <1>20, ExitType, SmoothType, FaultType DEF Play, TypeOK, pastVars
  <1>21. CASE Crash
    BY <1>21, ExitType, FaultType, LoseType DEF Crash, TypeOK
  <1>22. CASE Elsewhere
    <2>1. gsl' \in Gsl
      <3>1. gsl \in Gsl
        BY DEF TypeOK
      <3> QED
        BY <1>22, <3>1, CountsAssumption DEF Elsewhere, Gsl
    <2>2. disk' \in SessionConfig
      <3>1. disk \in SessionConfig
        BY DEF TypeOK
      <3> QED
        BY <1>22, <3>1 DEF Elsewhere, SessionConfig, Age
    <2>3. budget' \in 0 .. MaxEvents
      BY <1>22, CountsAssumption DEF Elsewhere, TypeOK
    <2>4. faulty' \in BOOLEAN
      BY <1>22 DEF Elsewhere, TypeOK
    <2> QED
      BY <1>22, <2>1, <2>2, <2>3, <2>4 DEF Elsewhere, TypeOK, pastVars
  <1>23. CASE CalmDown
    BY <1>23 DEF CalmDown, TypeOK, pastVars
  <1> QED
    BY <1>1, <1>2, <1>3, <1>4, <1>5, <1>6, <1>7, <1>8, <1>9, <1>10, <1>11, <1>12, <1>13,
       <1>14, <1>15, <1>16, <1>17, <1>18, <1>19, <1>20, <1>21, <1>22, <1>23
    DEF Next, RunStep

\* Every variable of a cross-server run stays within its type, for any devices,
\* addresses, session configs and combinations of flags.
THEOREM TypeCorrect == SafeSpec => []TypeOK
  <1>1. Init => TypeOK
    <2> SUFFICES ASSUME Init PROVE TypeOK
      OBVIOUS
    <2>1. gsl \in Gsl
      BY CountsAssumption DEF Init, Gsl
    <2>2. disk \in SessionConfig
      BY ConfigsAssumption DEF Init
    <2>3. run \in Locals /\ reply \in Reply /\ tally \in Tally
      BY NoTypes, NoRunType DEF Init
    <2>4. budget \in 0 .. MaxEvents
      BY CountsAssumption DEF Init
    <2> QED
      BY <2>1, <2>2, <2>3, <2>4 DEF Init, TypeOK, PcValues
  <1> QED
    BY <1>1, StepType, PTL DEF SafeSpec
-----------------------------------------------------------------------------
(* The bound on retries. *)

\* What a run has asked for by each point, and what keeps it from asking again.
RetryInv ==
    /\ tally.refreshed = IF run.refreshed THEN 1 ELSE 0
    /\ pc \in {"idle", "version", "csrt"} => tally.asked = 0 /\ ~run.refreshed
    /\ pc = "csrtReply" => tally.asked = 1 /\ ~run.refreshed
    /\ pc = "stale" => tally.asked <= 1 /\ (~run.refreshed => tally.asked = 0)
    /\ pc = "staleReply" => tally.asked = 1 /\ ~run.refreshed
    /\ pc \in {"look", "mint", "relook", "e011"} => tally.asked <= 1
    /\ pc = "login" /\ run.retry # "refreshed" => tally.asked <= 1
    /\ tally.asked <= 2
    /\ pc \in {"idle", "version", "csrt", "csrtReply", "stale", "staleReply", "look",
               "mint"} =>
         tally.logins = 0 /\ run.retry = "none"
    /\ pc \in {"idle", "version", "csrt", "csrtReply", "stale", "staleReply", "look"} =>
         tally.lookups = 0 /\ ~run.lookedUp
    /\ pc = "login" => 
         tally.logins <= (IF run.retry = "none" THEN 0
                          ELSE IF run.retry = "looked" THEN 1 ELSE 2)
    /\ pc = "relook" => tally.logins = 1 /\ run.retry = "none" /\ ~run.lookedUp
    /\ pc \in {"e011", "e011Reply"} =>
         tally.logins <= 2 /\ ~run.refreshed /\ run.retry # "refreshed"
    /\ run.retry = "refreshed" => run.refreshed
    /\ tally.logins <= 2 + tally.refreshed
    /\ tally.lookups <= 1
    /\ run.retry = "none" /\ ~run.lookedUp => tally.lookups = 0

\* How one more step of a run changes its tally.
LEMMA CountIs ==
    ASSUME TypeOK, NEW field \in {"asked", "refreshed", "logins", "lookups"}, Count(field)
    PROVE  /\ tally.asked \in Nat /\ tally.refreshed \in Nat
           /\ tally.logins \in Nat /\ tally.lookups \in Nat
           /\ tally'.asked = tally.asked + (IF field = "asked" THEN 1 ELSE 0)
           /\ tally'.refreshed = tally.refreshed + (IF field = "refreshed" THEN 1 ELSE 0)
           /\ tally'.logins = tally.logins + (IF field = "logins" THEN 1 ELSE 0)
           /\ tally'.lookups = tally.lookups + (IF field = "lookups" THEN 1 ELSE 0)
  BY DEF TypeOK, Tally, Count

\* The fields that guard retries.
LEMMA RunFields == ASSUME TypeOK PROVE
   /\ run \in Locals
   /\ run.refreshed \in BOOLEAN /\ run.lookedUp \in BOOLEAN
   /\ run.retry \in {"none", "looked", "refreshed"}
  BY DEF TypeOK, Locals

\* What accepted tokens change, field by field.
LEMMA TakeIs ==
    ASSUME TypeOK, NEW next, NEW retry, TakeRefreshedTokens(next, retry)
    PROVE  /\ run'.at = reply.at
           /\ run'.rt = IF Rotated THEN reply.rt ELSE run.rt
           /\ run'.dev = run.dev /\ run'.flags = run.flags /\ run'.orig = run.orig
           /\ run'.refreshed = TRUE /\ run'.lookedUp = run.lookedUp /\ run'.retry = retry
           /\ reply' = NoReply /\ reply.kind = "ok" /\ gsl' = gsl /\ pc' = next
           /\ Count("refreshed")
  BY RunFields DEF TakeRefreshedTokens, Refreshed, Locals, Goto

\* A run that ends has done nothing.
LEMMA ExitRetry == ASSUME NEW c, Exit(c) PROVE RetryInv'
  BY DEF Exit, RetryInv, NoTally, NoRun

\* A run that starts has done nothing.
LEMMA RetryStart == ASSUME TypeOK, RetryInv, NEW flags, StartRun(flags) PROVE RetryInv'
  BY DEF RetryInv, StartRun, Goto, NoRun

\* Every step keeps the count.
LEMMA RetryStep == ASSUME TypeOK, RetryInv, [Next]_vars PROVE RetryInv'
  <1> USE DEF RetryInv
  <1>1. CASE UNCHANGED vars
    BY <1>1 DEF vars, pastVars
  <1>2. CASE StartPlainRun
    BY <1>2, RetryStart DEF StartPlainRun
  <1>3. ASSUME NEW flags \in FlagSets, StartFlaggedRun(flags) PROVE RetryInv'
    BY <1>3, RetryStart DEF StartFlaggedRun
  <1>4. CASE CheckVersion
    BY <1>4, ExitRetry, RunFields DEF CheckVersion, Locals, Goto
  <1>5. CASE AskCsRt
    BY <1>5, CountIs DEF AskCsRt, Goto
  <1>6. CASE CsRtFailed
    BY <1>6, ExitRetry DEF CsRtFailed
  <1>7. CASE CsRtRefreshed
    BY <1>7, CountIs, RunFields DEF CsRtRefreshed, Locals, Goto
  <1>8. CASE AskIfStale
    BY <1>8, CountIs DEF AskIfStale, AskRefresh, Goto
  <1>9. CASE SkipRefresh
    BY <1>9 DEF SkipRefresh, Goto
  <1>10. CASE StaleReply
    <2>1. CASE TakeRefreshedTokens("look", run.retry)
      <3>1. /\ run'.refreshed = TRUE /\ run'.lookedUp = run.lookedUp /\ run'.retry = run.retry
            /\ pc' = "look" /\ Count("refreshed") /\ pc = "staleReply"
        BY <1>10, <2>1, TakeIs DEF StaleReply
      <3>2. /\ tally'.asked = tally.asked /\ tally'.refreshed = tally.refreshed + 1
            /\ tally'.logins = tally.logins /\ tally'.lookups = tally.lookups
            /\ tally.logins \in Nat /\ tally.refreshed \in Nat
        BY <3>1, CountIs
      <3> QED
        BY <3>1, <3>2
    <2>2. CASE RefreshFailed
      BY <2>2, ExitRetry DEF RefreshFailed
    <2>3. CASE ~TakeRefreshedTokens("look", run.retry) /\ ~RefreshFailed
      BY <1>10, <2>3 DEF StaleReply, Goto
    <2> QED
      BY <2>1, <2>2, <2>3
  <1>11. CASE LookBeforeDial
    <2>1. CASE Exit(1) \/ Exit(2)
      BY <2>1, ExitRetry
    <2>2. CASE ~(Exit(1) \/ Exit(2))
      <3>1. /\ run'.refreshed = run.refreshed /\ run'.lookedUp = TRUE /\ run'.retry = run.retry
            /\ pc' = "mint" /\ Count("lookups") /\ pc = "look"
        BY <1>11, <2>2, RunFields DEF LookBeforeDial, Locals, Goto
      <3>2. /\ tally'.asked = tally.asked /\ tally'.refreshed = tally.refreshed
            /\ tally'.logins = tally.logins /\ tally'.lookups = tally.lookups + 1
            /\ tally.logins \in Nat /\ tally.refreshed \in Nat
        BY <3>1, CountIs
      <3> QED
        BY <3>1, <3>2
    <2> QED
      BY <2>1, <2>2
  <1>12. CASE HaveAddress
    BY <1>12, ExitRetry DEF HaveAddress, Goto
  <1>13. CASE Mint
    BY <1>13, RunFields DEF Mint, Goto, Locals
  <1>14. CASE LoginOk
    BY <1>14, RunFields, CountIs DEF LoginOk, Goto, Locals
  <1>15. ASSUME NEW err \in LoginFaults \cup {"E011"}, LoginFailed(err) PROVE RetryInv'
    BY <1>15, ExitRetry, RunFields, CountIs DEF LoginFailed, Goto, MayLookAgain, MayRefresh
  <1>16. CASE LookAgain
    <2>1. CASE Exit(ExitCode("net"))
      BY <2>1, ExitRetry
    <2>2. CASE ~Exit(ExitCode("net"))
      <3>1. /\ run'.refreshed = run.refreshed /\ run'.lookedUp = run.lookedUp
            /\ run'.retry = "looked"
            /\ pc' = "login" /\ Count("lookups") /\ pc = "relook"
        BY <1>16, <2>2, RunFields DEF LookAgain, Locals, Goto
      <3>2. /\ tally'.asked = tally.asked /\ tally'.refreshed = tally.refreshed
            /\ tally'.logins = tally.logins /\ tally'.lookups = tally.lookups + 1
            /\ tally.logins \in Nat /\ tally.refreshed \in Nat
        BY <3>1, CountIs
      <3> QED
        BY <3>1, <3>2
    <2> QED
      BY <2>1, <2>2
  <1>17. CASE AskAfterE011
    BY <1>17, CountIs DEF AskAfterE011, AskRefresh, Goto
  <1>18. CASE E011Reply
    <2>1. CASE TakeRefreshedTokens("login", "refreshed")
      <3>1. /\ run'.refreshed = TRUE /\ run'.lookedUp = run.lookedUp /\ run'.retry = "refreshed"
            /\ pc' = "login" /\ Count("refreshed") /\ pc = "e011Reply"
        BY <1>18, <2>1, TakeIs DEF E011Reply
      <3>2. /\ tally'.asked = tally.asked /\ tally'.refreshed = tally.refreshed + 1
            /\ tally'.logins = tally.logins /\ tally'.lookups = tally.lookups
            /\ tally.logins \in Nat /\ tally.refreshed \in Nat
        BY <3>1, CountIs
      <3> QED
        BY <3>1, <3>2
    <2>2. CASE RefreshFailed
      BY <2>2, ExitRetry DEF RefreshFailed
    <2> QED
      BY <1>18, <2>1, <2>2 DEF E011Reply
  <1>19. CASE SaveBack
    BY <1>19 DEF SaveBack, Goto
  <1>20. CASE Play
    BY <1>20, ExitRetry DEF Play
  <1>21. CASE Crash
    BY <1>21, ExitRetry DEF Crash
  <1>22. CASE Elsewhere
    BY <1>22 DEF Elsewhere
  <1>23. CASE CalmDown
    BY <1>23 DEF CalmDown
  <1> HIDE DEF RetryInv
  <1> QED
    BY <1>1, <1>2, <1>3, <1>4, <1>5, <1>6, <1>7, <1>8, <1>9, <1>10, <1>11, <1>12, <1>13,
       <1>14, <1>15, <1>16, <1>17, <1>18, <1>19, <1>20, <1>21, <1>22, <1>23
    DEF Next, RunStep

\* One run refreshes at most once with success, asks GSL for it at most twice,
\* looks its server up at most once and logs in at most three times, whatever
\* fails on the way.
THEOREM RetriesBounded == SafeSpec => []BoundedRetries
  <1>1. Init => RetryInv
    BY DEF Init, RetryInv, NoTally, NoRun
  <1>2. RetryInv => BoundedRetries
    BY DEF RetryInv, BoundedRetries
  <1> QED
    BY <1>1, <1>2, RetryStep, TypeCorrect, PTL DEF SafeSpec

-----------------------------------------------------------------------------
(* Tokens. *)

\* What a run knows of its flags, and that nothing is left of a reply that was
\* dealt with.
FlagsInv ==
    /\ pc # "idle" => run.flags \in FlagSets \cup {NoFlags}
    /\ pc \in {"csrt", "csrtReply"} => run.flags.rt # NoTok
    /\ pc \in {"staleReply", "e011", "e011Reply"} => run.rt # NoTok
    /\ pc \in {"version", "csrt", "csrtReply"} /\ run.flags.at # NoTok =>
         run.at = run.flags.at
    /\ pc \in {"version", "csrt", "csrtReply"} /\ ~run.flags.noConfig /\ run.flags.at = NoTok =>
         run.at = disk.at
    /\ pc \notin Asking => reply = NoReply

\* What a reply carries is issued to the run's device; a new refresh token is the
\* one in force.
ReplyInv ==
    /\ {reply.at.dev, reply.rt.dev} \subseteq {NoDev, run.dev}
    /\ Rotated => reply.rt = Rt(run.dev)
    /\ pc = "csrtReply" /\ reply.kind = "ok" =>
         run.flags.rt.dev = run.dev /\ (~Rotated => run.flags.rt = Rt(run.dev))

\* TokensOfOwner with what it rests on: a config that names no device holds the
\* client's own token, a run's refresh token is its device's.
OwnerInv ==
    /\ TokensOfOwner
    /\ disk.dev = NoDev /\ ~mixed => disk.rt.dev \in {NoDev, LocalDev}
    /\ pc # "idle" /\ ~mixed => run.rt.dev \in {NoDev, run.dev}
    /\ pc = "saveback" => run.at.dev = run.dev

\* RefreshTokenKept, and the same of the token the run holds.
KeptInv ==
    /\ RefreshTokenKept
    /\ /\ run.rt # NoTok
       /\ run.rt.dev \notin lost
       /\ ~(Rotated /\ run.dev = run.rt.dev)
       => run.rt = Rt(run.rt.dev)

\* No token is ahead of GSL, and a run's is never behind the file's.
NewestInv ==
    /\ disk.rt # NoTok => disk.rt.n <= gsl.rt[disk.rt.dev]
    /\ run.rt # NoTok => run.rt.n <= gsl.rt[run.rt.dev]
    /\ pc # "idle" /\ ~run.flags.noConfig /\ disk.rt # NoTok =>
         /\ run.rt # NoTok /\ disk.rt.dev = run.rt.dev => run.rt.n >= disk.rt.n
         /\ disk.dev = run.dev => run.rt # NoTok

TokenInv == FlagsInv /\ ReplyInv /\ OwnerInv /\ KeptInv /\ NewestInv

\* A token is none, or has a device and a generation.
LEMMA TokenIs ==
    ASSUME NEW tok \in Token
    PROVE  /\ tok.dev = NoDev <=> tok = NoTok
           /\ tok # NoTok => tok.dev \in Devices
           /\ tok.n \in Nat
           /\ tok = [dev |-> tok.dev, n |-> tok.n]
  BY DevicesAssumption, CountsAssumption DEF Token, NoTok

\* A step that leaves the tokens of file, run and reply alone.
LEMMA QuietToken ==
    ASSUME TypeOK, TokenInv,
           pc # "idle", pc \notin Asking, pc' # "idle", pc' \notin Asking,
           pc' = "csrt" => run.flags.rt # NoTok,
           pc' = "e011" => run.rt # NoTok,
           pc' = "saveback" => run.at.dev = run.dev,
           pc' = "csrt" => pc = "version",
           pc' # "version",
           run'.at = run.at, run'.rt = run.rt, run'.dev = run.dev, run'.flags = run.flags,
           disk'.at = disk.at, disk'.rt = disk.rt, disk'.dev = disk.dev,
           gsl'.rt = gsl.rt, reply' = reply, UNCHANGED pastVars
    PROVE  TokenInv'
  <1> USE DEF TokenInv
  <1>1. FlagsInv'
    BY DEF FlagsInv, Asking
  <1>2. ReplyInv'
    BY DEF ReplyInv, FlagsInv, Rotated, Rt, Asking
  <1>3. OwnerInv'
    BY DEF OwnerInv, TokensOfOwner, pastVars
  <1>4. KeptInv'
    BY DEF KeptInv, RefreshTokenKept, Rotated, Rt, pastVars
  <1>5. NewestInv'
    BY DEF NewestInv
  <1> QED
    BY <1>1, <1>2, <1>3, <1>4, <1>5

\* A run that ends, with a new refresh token that goes nowhere if there is one.
LEMMA ExitToken ==
    ASSUME TypeOK, TokenInv, NEW c, Exit(c),
           disk' = disk, gsl' = gsl, mixed' = mixed,
           lost' = IF Rotated THEN lost \cup {run.dev} ELSE lost
    PROVE  TokenInv'
  <1> USE DEF TokenInv, Exit
  <1>1. run' = NoRun /\ reply' = NoReply /\ pc' = "idle" /\ ~Rotated'
    BY DEF Rotated, NoReply
  <1>2. FlagsInv'
    BY <1>1 DEF FlagsInv
  <1>3. ReplyInv'
    BY <1>1 DEF ReplyInv, NoReply, NoTok
  <1>4. OwnerInv'
    BY <1>1 DEF OwnerInv, TokensOfOwner
  <1>5. KeptInv'
    <2>1. run'.rt = NoTok
      BY <1>1 DEF NoRun
    <2>2. RefreshTokenKept'
      BY <1>1 DEF KeptInv, RefreshTokenKept, Rt
    <2> QED
      BY <2>1, <2>2 DEF KeptInv
  <1>6. NewestInv'
    BY <1>1 DEF NewestInv, NoRun
  <1> QED
    BY <1>2, <1>3, <1>4, <1>5, <1>6

\* A run starts with the file's refresh token or none.
LEMMA StartToken ==
    ASSUME TypeOK, TokenInv, NEW flags \in FlagSets \cup {NoFlags}, StartRun(flags)
    PROVE  TokenInv'
  <1> DEFINE cfg == IF flags.noConfig THEN NoConfig ELSE disk
             dev == IF flags.dev # NoDev THEN flags.dev ELSE cfg.dev
             at == IF flags.at # NoTok THEN flags.at ELSE cfg.at
  <1>1. /\ pc = "idle" /\ pc' = "version" /\ reply = NoReply
        /\ UNCHANGED <<disk, reply, gsl, pastVars>>
        /\ run'.flags = flags /\ run'.dev = RunDevice(dev) /\ run'.at = at
        /\ run'.rt = configRefreshToken(cfg, dev)
    BY DEF StartRun, Goto, TokenInv, FlagsInv, Asking, NoRun
  <1>2. ~Rotated /\ ~Rotated'
    BY <1>1 DEF Rotated, NoReply
  <1>3. run'.rt \in {NoTok, disk.rt}
    BY <1>1 DEF configRefreshToken, NoConfig
  <1>4. FlagsInv'
    BY <1>1 DEF FlagsInv, Asking
  <1>5. ReplyInv'
    BY <1>1, <1>2 DEF ReplyInv, NoReply, NoTok
  <1>6. OwnerInv'
    <2>1. TokensOfOwner' /\ (disk'.dev = NoDev /\ ~mixed' => disk'.rt.dev \in {NoDev, LocalDev})
      BY <1>1 DEF TokenInv, OwnerInv, TokensOfOwner, pastVars
    <2>2. ~mixed' => run'.rt.dev \in {NoDev, run'.dev}
      BY <1>1
      DEF TokenInv, OwnerInv, TokensOfOwner, pastVars, configRefreshToken, RunDevice,
          NoConfig, NoTok
    <2> QED
      BY <1>1, <2>1, <2>2 DEF OwnerInv
  <1>7. KeptInv'
    BY <1>1, <1>2, <1>3 DEF TokenInv, KeptInv, RefreshTokenKept, Rt, pastVars
  <1>8. NewestInv'
    <2>1. ~flags.noConfig /\ disk.rt # NoTok /\ disk.dev = run'.dev => run'.rt # NoTok
      BY <1>1, FieldTypes, DevicesAssumption, NoTypes, FlagSetsAssumption
      DEF configRefreshToken, RunDevice, TypeOK, SessionConfig, Flags
    <2>2. disk.rt # NoTok => disk.rt.n \in Nat
      BY TokenIs DEF TypeOK, SessionConfig
    <2> QED
      BY <1>1, <1>3, <2>1, <2>2 DEF TokenInv, NewestInv
  <1> QED
    BY <1>4, <1>5, <1>6, <1>7, <1>8 DEF TokenInv

\* What GSL's reply says of the refresh tokens in force.
LEMMA ReplyIs ==
    ASSUME TypeOK, NEW tok,
           \/ GslRefresh(tok)
           \/ reply' = [NoReply EXCEPT !.kind = "net"] /\ gsl' = gsl
    PROVE  /\ reply'.at.dev \in {NoDev, run.dev}
           /\ reply'.kind = "ok" => tok = Rt(run.dev)
           /\ \/ reply'.rt = NoTok /\ gsl'.rt = gsl.rt
              \/ /\ tok = Rt(run.dev)
                 /\ reply'.rt = [dev |-> run.dev, n |-> gsl'.rt[run.dev]]
                 /\ reply'.rt # NoTok
                 /\ gsl'.rt = [gsl.rt EXCEPT ![run.dev] = gsl.rt[run.dev] + 1]
  <1>0. gsl \in Gsl /\ gsl.rt \in [Devices -> 1 .. MaxGen] /\ run.dev \in Devices
    BY DEF TypeOK, Gsl, Locals
  <1>1. CASE reply' = [NoReply EXCEPT !.kind = "net"] /\ gsl' = gsl
    BY <1>1 DEF NoReply, NoTok
  <1>2. CASE GslRefuses
    BY <1>2 DEF GslRefuses, NoReply, NoTok
  <1>3. CASE GslFails
    BY <1>3 DEF GslFails, NoReply, NoTok
  <1>4. ASSUME NEW a \in Newer(gsl.at[run.dev]), NEW r \in Newer(gsl.rt[run.dev]),
               GslAccepts(tok), GslGrants(a, r)
        PROVE  /\ reply'.at.dev \in {NoDev, run.dev}
               /\ tok = Rt(run.dev)
               /\ \/ reply'.rt = NoTok /\ gsl'.rt = gsl.rt
                  \/ /\ reply'.rt = [dev |-> run.dev, n |-> gsl'.rt[run.dev]]
                     /\ reply'.rt # NoTok
                     /\ gsl'.rt = [gsl.rt EXCEPT ![run.dev] = gsl.rt[run.dev] + 1]
    <2>1. tok = Rt(run.dev)
      BY <1>4 DEF GslAccepts
    <2>2. reply'.rt = NewRt(r) /\ reply'.at.dev \in {NoDev, run.dev}
      <3>1. CASE FullReply(a, r)
        BY <3>1 DEF FullReply
      <3>2. CASE PoorReply(r)
        <4>1. CASE reply' = [NoReply EXCEPT !.kind = "net", !.rt = NewRt(r)]
          BY <4>1 DEF NoReply, NoTok
        <4>2. ASSUME NEW obj \in BOOLEAN, NEW addr \in {NoAddr, gsl.home},
                     reply' = [NoReply EXCEPT !.kind = "ok", !.rt = NewRt(r),
                                              !.obj = obj, !.addr = addr]
              PROVE  reply'.rt = NewRt(r) /\ reply'.at.dev \in {NoDev, run.dev}
          BY <4>2 DEF NoReply, NoTok
        <4> QED
          BY <3>2, <4>1, <4>2 DEF PoorReply
      <3> QED
        BY <1>4, <3>1, <3>2 DEF GslGrants
    <2>3. gsl'.rt = [gsl.rt EXCEPT ![run.dev] = r]
      BY <1>0, <1>4 DEF GslGrants, Gsl
    <2>4. CASE r = gsl.rt[run.dev]
      BY <1>0, <2>1, <2>2, <2>3, <2>4 DEF NewRt
    <2>5. CASE r # gsl.rt[run.dev]
      <3>1. r = gsl.rt[run.dev] + 1
        BY <2>5 DEF Newer
      <3>2. NewRt(r) = [dev |-> run.dev, n |-> gsl'.rt[run.dev]]
        BY <1>0, <2>3, <2>5 DEF NewRt
      <3>3. NewRt(r) # NoTok
        BY <1>0, <3>2, DevicesAssumption DEF NoTok
      <3> QED
        BY <2>1, <2>2, <2>3, <3>1, <3>2, <3>3
    <2> QED
      BY <2>4, <2>5
  <1> QED
    BY <1>1, <1>2, <1>3, <1>4 DEF GslRefresh

\* Asking GSL for new tokens.
LEMMA AskToken ==
    ASSUME TypeOK, TokenInv, NEW tok, NEW next \in Asking,
           \/ GslRefresh(tok)
           \/ reply' = [NoReply EXCEPT !.kind = "net"] /\ gsl' = gsl,
           pc # "idle", pc \notin Asking, pc' = next,
           next = "csrtReply" => pc = "csrt" /\ tok = run.flags.rt,
           next # "csrtReply" => run.rt # NoTok,
           UNCHANGED <<disk, run, pastVars>>
    PROVE  TokenInv'
  <1>0. gsl.rt \in [Devices -> 1 .. MaxGen] /\ run.dev \in Devices
    BY DEF TypeOK, Gsl, Locals
  <1>1. ~Rotated /\ disk \in SessionConfig /\ run \in Locals
    BY DEF TokenInv, FlagsInv, Rotated, NoReply, TypeOK
  <1>2. /\ reply'.at.dev \in {NoDev, run.dev}
        /\ reply'.kind = "ok" => tok = Rt(run.dev)
        /\ \/ ~Rotated' /\ gsl'.rt = gsl.rt
           \/ /\ tok = Rt(run.dev)
              /\ reply'.rt = Rt(run.dev)'
              /\ Rotated'
              /\ gsl'.rt = [gsl.rt EXCEPT ![run.dev] = gsl.rt[run.dev] + 1]
    BY ReplyIs DEF Rotated, Rt
  <1>3. FlagsInv'
    BY DEF TokenInv, FlagsInv, Asking
  <1>4. ReplyInv'
    BY <1>2 DEF ReplyInv, Rotated, Rt, NoTok
  <1>5. OwnerInv'
    BY DEF TokenInv, OwnerInv, TokensOfOwner, pastVars, Asking
  <1>6. \A d \in Devices : ~(Rotated' /\ d = run.dev) => Rt(d)' = Rt(d)
    BY <1>0, <1>2 DEF Rt
  <1>7. (disk.rt # NoTok => disk.rt.dev \in Devices) /\ (run.rt # NoTok => run.rt.dev \in Devices)
    BY TokenIs, FieldTypes DEF TypeOK, SessionConfig
  <1>8. KeptInv'
    BY <1>1, <1>6, <1>7 DEF TokenInv, KeptInv, RefreshTokenKept, pastVars
  <1>9. NewestInv'
    <2>1. \A d \in Devices : gsl'.rt[d] >= gsl.rt[d] /\ gsl.rt[d] \in Nat /\ gsl'.rt[d] \in Nat
      BY <1>0, <1>2
    <2>2. disk.rt.n \in Nat /\ run.rt.n \in Nat
      BY TokenIs, FieldTypes DEF TypeOK, SessionConfig
    <2> QED
      BY <1>7, <2>1, <2>2 DEF TokenInv, NewestInv, Asking
  <1> QED
    BY <1>3, <1>4, <1>5, <1>8, <1>9 DEF TokenInv

\* What saving refreshed tokens does to the file.
LEMMA SaveIs ==
    ASSUME TypeOK, NEW at, NEW age, NEW rt, saveRefreshedTokens(at, age, rt)
    PROVE  \/ /\ disk.dev \in {NoDev, run.dev}
              /\ ~run.flags.noConfig
              /\ disk'.at = at /\ disk'.rt = rt /\ disk'.dev = disk.dev
              /\ mixed' = (mixed \/ (disk.dev = NoDev /\ run.dev # LocalDev))
              /\ lost' = lost
           \/ /\ disk' = disk
              /\ mixed' = mixed
              /\ lost' = IF Rotated THEN lost \cup {run.dev} ELSE lost
  BY DEF saveRefreshedTokens, LoseIf, MaySave, Owner, TypeOK, SessionConfig

\* What RefreshTokenNeverOlder says of one step.
NeverOlder ==
    (disk.rt # NoTok /\ disk'.dev = disk.dev) =>
        disk'.rt # NoTok /\ (disk'.rt.dev = disk.rt.dev => disk'.rt.n >= disk.rt.n)

\* Tokens a run has just got: held, and saved if they may be.
LEMMA SavedToken ==
    ASSUME TypeOK, TokenInv, NEW at \in Token, NEW age, NEW rt \in Token,
           saveRefreshedTokens(at, age, rt),
           pc \in Asking, pc' \in {"stale", "look", "login"}, reply' = NoReply, gsl' = gsl,
           run'.rt = rt, run'.dev = run.dev, run'.flags = run.flags,
           rt # NoTok,
           rt = Rt(run.dev) \/ (rt = run.rt /\ ~Rotated),
           /\ disk.dev \in {NoDev, run.dev} /\ ~run.flags.noConfig /\ ~mixed
           => at.dev \in {NoDev, run.dev} \/ at = disk.at
    PROVE  TokenInv' /\ NeverOlder
  <1>1. ~Rotated' /\ pc # "idle" /\ pc' # "idle"
    BY DEF Rotated, NoReply, Asking
  <1>2. /\ Rt(run.dev).dev = run.dev /\ Rt(run.dev).n = gsl.rt[run.dev]
        /\ \A d \in Devices : Rt(d)' = Rt(d)
    BY DEF Rt
  <1>3. run.dev \in Devices /\ disk.rt \in Token /\ rt.dev \in Devices
    BY FieldTypes, TokenIs DEF TypeOK, SessionConfig
  <1>4. disk.rt.n \in Nat /\ rt.n \in Nat /\ (disk.rt # NoTok => disk.rt.dev \in Devices)
    BY <1>3, TokenIs
  <1>5. FlagsInv'
    BY DEF TokenInv, FlagsInv, Asking
  <1>6. ReplyInv'
    BY <1>1 DEF ReplyInv, NoReply, NoTok
  <1>7. ~mixed => rt.dev = run.dev
    BY <1>1, <1>2, <1>3, DevicesAssumption DEF TokenInv, OwnerInv
  <1>8. OwnerInv'
    <2>1. CASE /\ disk.dev \in {NoDev, run.dev}
               /\ ~run.flags.noConfig
               /\ disk'.at = at /\ disk'.rt = rt /\ disk'.dev = disk.dev
               /\ mixed' = (mixed \/ (disk.dev = NoDev /\ run.dev # LocalDev))
      BY <1>1, <1>3, <1>7, <2>1 DEF TokenInv, OwnerInv, TokensOfOwner
    <2>2. CASE disk' = disk /\ mixed' = mixed
      BY <1>1, <1>3, <1>7, <2>2 DEF TokenInv, OwnerInv, TokensOfOwner
    <2> QED
      BY <2>1, <2>2, SaveIs
  <1>9. KeptInv'
    <2>1. rt.dev \notin lost => rt = Rt(rt.dev)
      BY <1>2 DEF TokenInv, KeptInv
    <2>2. CASE disk'.rt = rt /\ lost' = lost
      BY <1>1, <1>2, <1>3, <2>1, <2>2 DEF KeptInv, RefreshTokenKept
    <2>3. CASE disk' = disk /\ lost' = IF Rotated THEN lost \cup {run.dev} ELSE lost
      BY <1>1, <1>2, <1>3, <1>4, <2>1, <2>3 DEF TokenInv, KeptInv, RefreshTokenKept
    <2> QED
      BY <2>2, <2>3, SaveIs
  <1>10. rt.n <= gsl.rt[rt.dev]
    BY <1>2, <1>4 DEF TokenInv, NewestInv, TypeOK, Gsl
  <1>11. ~run.flags.noConfig /\ disk.rt # NoTok /\ disk.rt.dev = rt.dev => rt.n >= disk.rt.n
    BY <1>1, <1>2 DEF TokenInv, NewestInv
  <1>12. NewestInv'
    <2>1. CASE disk'.rt = rt /\ disk'.dev = disk.dev
      BY <1>4, <1>10, <2>1 DEF TokenInv, NewestInv
    <2>2. CASE disk' = disk
      BY <1>10, <1>11, <2>2 DEF TokenInv, NewestInv
    <2> QED
      BY <2>1, <2>2, SaveIs
  <1>13. NeverOlder
    <2>1. CASE disk'.rt = rt /\ ~run.flags.noConfig
      BY <1>11, <2>1 DEF NeverOlder
    <2>2. CASE disk' = disk
      BY <1>4, <2>2 DEF NeverOlder
    <2> QED
      BY <2>1, <2>2, SaveIs
  <1> QED
    BY <1>5, <1>6, <1>8, <1>9, <1>12, <1>13 DEF TokenInv

\* The save-back after the Login.
LEMMA SaveBackToken == ASSUME TypeOK, TokenInv, SaveBack PROVE TokenInv' /\ NeverOlder
  <1>1. /\ pc = "saveback" /\ pc' = "play" /\ reply' = reply /\ reply = NoReply
        /\ UNCHANGED <<run, gsl, pastVars>>
    BY DEF SaveBack, Goto, TokenInv, FlagsInv, Asking
  <1>2. ~Rotated /\ ~Rotated' /\ \A d \in Devices : Rt(d)' = Rt(d)
    BY <1>1 DEF Rotated, NoReply, Rt
  <1>3. \/ disk' = disk
        \/ /\ ~run.flags.noConfig
           /\ disk'.dev = run.dev /\ disk'.at = run.at /\ disk'.rt = run.rt
    BY DEF SaveBack, SaveBackConfig
  <1>4. /\ run.dev \in Devices /\ run.rt \in Token /\ disk.rt \in Token
        /\ run.rt # NoTok => run.rt.dev \in Devices
        /\ disk.rt # NoTok => disk.rt.dev \in Devices
        /\ disk.rt.n \in Nat /\ run.rt.n \in Nat
    BY FieldTypes, TokenIs DEF TypeOK, SessionConfig
  <1>5. FlagsInv'
    BY <1>1 DEF TokenInv, FlagsInv, Asking
  <1>6. ReplyInv'
    BY <1>1, <1>2 DEF ReplyInv, NoReply, NoTok
  <1>7. OwnerInv'
    BY <1>1, <1>3, <1>4, DevicesAssumption DEF TokenInv, OwnerInv, TokensOfOwner, pastVars
  <1>8. KeptInv'
    BY <1>1, <1>2, <1>3, <1>4 DEF TokenInv, KeptInv, RefreshTokenKept, pastVars
  <1>9. NewestInv'
    BY <1>1, <1>3, <1>4 DEF TokenInv, NewestInv
  <1>10. NeverOlder
    BY <1>1, <1>3, <1>4 DEF TokenInv, NewestInv, NeverOlder
  <1> QED
    BY <1>5, <1>6, <1>7, <1>8, <1>9, <1>10 DEF TokenInv

\* Tokens from -cs-rt.
LEMMA CsRtToken == ASSUME TypeOK, TokenInv, CsRtRefreshed PROVE TokenInv' /\ NeverOlder
  <1> DEFINE at == IF reply.at # NoTok THEN reply.at ELSE run.at
             age == IF reply.at # NoTok THEN reply.age ELSE run.age
             rt == IF Rotated THEN reply.rt ELSE run.flags.rt
  <1>1. /\ saveRefreshedTokens(at, age, rt)
        /\ pc = "csrtReply" /\ pc' = "stale" /\ reply' = NoReply /\ gsl' = gsl
        /\ reply.kind = "ok"
    BY DEF CsRtRefreshed, Goto
  <1>2. run'.rt = rt /\ run'.dev = run.dev /\ run'.flags = run.flags
    BY RunFields DEF CsRtRefreshed, Locals
  <1>3. at \in Token /\ rt \in Token
    BY FieldTypes
  <1>4. rt # NoTok /\ rt = Rt(run.dev) /\ run.flags.rt.dev = run.dev /\ run.flags.rt # NoTok
    BY <1>1 DEF TokenInv, FlagsInv, ReplyInv, Rotated
  <1>5. ~run.flags.noConfig => at.dev \in {NoDev, run.dev} \/ at = disk.at
    <2>1. CASE reply.at # NoTok
      BY <2>1 DEF TokenInv, ReplyInv
    <2>2. CASE reply.at = NoTok /\ run.flags.at = NoTok
      BY <1>1, <2>2 DEF TokenInv, FlagsInv
    <2>3. CASE reply.at = NoTok /\ run.flags.at # NoTok
      <3>1. at = run.flags.at /\ run.flags \in FlagSets
        BY <1>1, <1>4, <2>3 DEF TokenInv, FlagsInv, NoFlags
      <3> QED
        BY <1>4, <2>3, <3>1, FlagSetsAssumption
    <2> QED
      BY <2>1, <2>2, <2>3
  <1> HIDE DEF at, age, rt
  <1> QED
    BY <1>1, <1>2, <1>3, <1>4, <1>5, SavedToken DEF Asking

\* Tokens from the refreshes before and after a Login.
LEMMA TakeToken ==
    ASSUME TypeOK, TokenInv, NEW next \in {"look", "login"}, NEW retry,
           TakeRefreshedTokens(next, retry), pc \in {"staleReply", "e011Reply"}
    PROVE  TokenInv' /\ NeverOlder
  <1> DEFINE rt == IF Rotated THEN reply.rt ELSE run.rt
  <1>1. saveRefreshedTokens(reply.at, reply.age, rt)
    BY DEF TakeRefreshedTokens
  <1>2. /\ run'.rt = rt /\ run'.dev = run.dev /\ run'.flags = run.flags
        /\ reply' = NoReply /\ gsl' = gsl /\ pc' = next
    BY TakeIs
  <1>3. reply.at \in Token /\ rt \in Token
    BY FieldTypes
  <1>4. rt # NoTok /\ (rt = Rt(run.dev) \/ (rt = run.rt /\ ~Rotated))
    BY DEF TokenInv, FlagsInv, ReplyInv, Rotated
  <1>5. reply.at.dev \in {NoDev, run.dev}
    BY DEF TokenInv, ReplyInv
  <1> HIDE DEF rt
  <1> QED
    BY <1>1, <1>2, <1>3, <1>4, <1>5, SavedToken DEF Asking

\* Between the requests there is no reply to lose.
LEMMA NoAsking == ASSUME TokenInv, pc \notin Asking PROVE ~Rotated
  BY DEF TokenInv, FlagsInv, Rotated, NoReply

\* A refused or failed refresh that the run goes on without.
LEMMA DroppedToken ==
    ASSUME TypeOK, TokenInv, pc = "staleReply", pc' = "look", reply' = NoReply,
           UNCHANGED <<disk, run, gsl, mixed>>,
           lost' = IF Rotated THEN lost \cup {run.dev} ELSE lost
    PROVE  TokenInv'
  <1>1. ~Rotated' /\ \A d \in Devices : Rt(d)' = Rt(d)
    BY DEF Rotated, NoReply, Rt
  <1>2. (disk.rt # NoTok => disk.rt.dev \in Devices) /\ (run.rt # NoTok => run.rt.dev \in Devices)
    BY FieldTypes, TokenIs DEF TypeOK, SessionConfig
  <1>3. FlagsInv'
    BY DEF TokenInv, FlagsInv, Asking
  <1>4. ReplyInv'
    BY <1>1 DEF ReplyInv, NoReply, NoTok
  <1>5. OwnerInv'
    BY DEF TokenInv, OwnerInv, TokensOfOwner
  <1>6. KeptInv'
    BY <1>1, <1>2 DEF TokenInv, KeptInv, RefreshTokenKept
  <1>7. NewestInv'
    BY DEF TokenInv, NewestInv
  <1> QED
    BY <1>3, <1>4, <1>5, <1>6, <1>7 DEF TokenInv

\* A step that leaves the file's refresh token alone puts no older one back.
LEMMA SameToken ==
    ASSUME TypeOK, disk'.rt = disk.rt PROVE NeverOlder
  BY TokenIs DEF NeverOlder, TypeOK, SessionConfig

\* A run that ends when no reply is awaited.
LEMMA EndToken ==
    ASSUME TypeOK, TokenInv, pc \notin Asking, NEW c, Exit(c),
           UNCHANGED <<disk, gsl, pastVars>>
    PROVE  TokenInv' /\ NeverOlder
  <1>1. lost' = IF Rotated THEN lost \cup {run.dev} ELSE lost
    BY NoAsking DEF pastVars
  <1> QED
    BY <1>1, ExitToken, SameToken DEF pastVars

\* Every step keeps the tokens' invariant and saves nothing older.
LEMMA TokenStep == ASSUME TypeOK, TokenInv, [Next]_vars PROVE TokenInv' /\ NeverOlder
  <1>1. CASE UNCHANGED vars
    <2>1. TokenInv'
      BY <1>1 DEF vars, pastVars, TokenInv, FlagsInv, ReplyInv, OwnerInv, KeptInv, NewestInv,
                  TokensOfOwner, RefreshTokenKept, Rotated, Rt
    <2> QED
      BY <1>1, <2>1, SameToken DEF vars
  <1>2. CASE StartPlainRun
    BY <1>2, StartToken, SameToken DEF StartPlainRun, StartRun
  <1>3. ASSUME NEW flags \in FlagSets, StartFlaggedRun(flags) PROVE TokenInv' /\ NeverOlder
    BY <1>3, StartToken, SameToken DEF StartFlaggedRun, StartRun
  <1>4. CASE CheckVersion
    <2>1. CASE Exit(1)
      BY <1>4, <2>1, EndToken DEF CheckVersion, Asking
    <2>2. CASE ~Exit(1)
      <3>1. /\ run'.at = run.at /\ run'.rt = run.rt /\ run'.dev = run.dev /\ run'.flags = run.flags
        BY <1>4, <2>2, RunFields DEF CheckVersion, Locals
      <3> QED
        BY <1>4, <2>2, <3>1, QuietToken, SameToken DEF CheckVersion, Goto, Asking
    <2> QED
      BY <2>1, <2>2
  <1>5. CASE AskCsRt
    BY <1>5, AskToken, SameToken DEF AskCsRt, Goto, Asking
  <1>6. CASE CsRtFailed
    BY <1>6, ExitToken, SameToken DEF CsRtFailed, LoseIf
  <1>7. CASE CsRtRefreshed
    BY <1>7, CsRtToken
  <1>8. CASE AskIfStale
    <2>1. run.rt # NoTok /\ pc = "stale" /\ pc' = "staleReply" /\ UNCHANGED <<disk, run, pastVars>>
      BY <1>8 DEF AskIfStale, AskRefresh, Goto, accessTokenStale
    <2>2. GslRefresh(run.rt) \/ (reply' = [NoReply EXCEPT !.kind = "net"] /\ gsl' = gsl)
      BY <1>8 DEF AskIfStale, AskRefresh
    <2> QED
      BY <2>1, <2>2, AskToken, SameToken DEF Asking
  <1>9. CASE SkipRefresh
    BY <1>9, QuietToken, SameToken DEF SkipRefresh, Goto, Asking
  <1>10. CASE StaleReply
    <2>1. CASE TakeRefreshedTokens("look", run.retry)
      BY <1>10, <2>1, TakeToken DEF StaleReply
    <2>2. CASE RefreshFailed
      BY <2>2, ExitToken, SameToken DEF RefreshFailed, LoseIf
    <2>3. CASE /\ pc = "staleReply" /\ reply' = NoReply /\ LoseIf(Rotated) /\ Goto("look")
               /\ UNCHANGED <<disk, run, gsl, calm, tally>>
      BY <2>3, DroppedToken, SameToken DEF LoseIf, Goto
    <2> QED
      BY <1>10, <2>1, <2>2, <2>3 DEF StaleReply
  <1>11. CASE LookBeforeDial
    <2>1. CASE Exit(1) \/ Exit(2)
      BY <1>11, <2>1, EndToken DEF LookBeforeDial, Asking
    <2>2. CASE ~(Exit(1) \/ Exit(2))
      <3>1. /\ run'.at = run.at /\ run'.rt = run.rt /\ run'.dev = run.dev /\ run'.flags = run.flags
        BY <1>11, <2>2, RunFields DEF LookBeforeDial, Locals
      <3> QED
        BY <1>11, <2>2, <3>1, QuietToken, SameToken DEF LookBeforeDial, Goto, Asking
    <2> QED
      BY <2>1, <2>2
  <1>12. CASE HaveAddress
    <2>1. CASE Exit(1)
      BY <1>12, <2>1, EndToken DEF HaveAddress, Asking
    <2>2. CASE ~Exit(1)
      BY <1>12, <2>2, QuietToken, SameToken DEF HaveAddress, Goto, Asking
    <2> QED
      BY <2>1, <2>2
  <1>13. CASE Mint
    <2>1. /\ run'.at = run.at /\ run'.rt = run.rt /\ run'.dev = run.dev /\ run'.flags = run.flags
      BY <1>13, RunFields DEF Mint, Locals
    <2>2. /\ disk'.at = disk.at /\ disk'.rt = disk.rt /\ disk'.dev = disk.dev
      BY <1>13 DEF Mint, TypeOK, SessionConfig
    <2> QED
      BY <1>13, <2>1, <2>2, QuietToken, SameToken DEF Mint, Goto, Asking
  <1>14. CASE LoginOk
    <2>1. /\ run'.at = run.at /\ run'.rt = run.rt /\ run'.dev = run.dev /\ run'.flags = run.flags
      BY <1>14, RunFields DEF LoginOk, Locals
    <2>2. run.at.dev = run.dev
      BY <1>14 DEF LoginOk, At
    <2> QED
      BY <1>14, <2>1, <2>2, QuietToken, SameToken DEF LoginOk, Goto, Asking
  <1>15. ASSUME NEW err \in LoginFaults \cup {"E011"}, LoginFailed(err)
         PROVE  TokenInv' /\ NeverOlder
    <2>1. CASE Exit(ExitCode(err))
      BY <1>15, <2>1, EndToken DEF LoginFailed, Asking
    <2>2. CASE ~Exit(ExitCode(err))
      BY <1>15, <2>2, QuietToken, SameToken DEF LoginFailed, MayRefresh, Goto, Asking
    <2> QED
      BY <2>1, <2>2
  <1>16. CASE LookAgain
    <2>1. CASE Exit(ExitCode("net"))
      BY <1>16, <2>1, EndToken DEF LookAgain, Asking
    <2>2. CASE ~Exit(ExitCode("net"))
      <3>1. /\ run'.at = run.at /\ run'.rt = run.rt /\ run'.dev = run.dev /\ run'.flags = run.flags
        BY <1>16, <2>2, RunFields DEF LookAgain, Locals
      <3> QED
        BY <1>16, <2>2, <3>1, QuietToken, SameToken DEF LookAgain, Goto, Asking
    <2> QED
      BY <2>1, <2>2
  <1>17. CASE AskAfterE011
    <2>1. run.rt # NoTok /\ pc = "e011" /\ pc' = "e011Reply" /\ UNCHANGED <<disk, run, pastVars>>
      BY <1>17 DEF AskAfterE011, AskRefresh, Goto, TokenInv, FlagsInv
    <2>2. GslRefresh(run.rt) \/ (reply' = [NoReply EXCEPT !.kind = "net"] /\ gsl' = gsl)
      BY <1>17 DEF AskAfterE011, AskRefresh
    <2> QED
      BY <2>1, <2>2, AskToken, SameToken DEF Asking
  <1>18. CASE E011Reply
    BY <1>18, TakeToken, ExitToken, SameToken DEF E011Reply, RefreshFailed, LoseIf
  <1>19. CASE SaveBack
    BY <1>19, SaveBackToken
  <1>20. CASE Play
    BY <1>20, EndToken DEF Play, Asking
  <1>21. CASE Crash
    BY <1>21, ExitToken, SameToken DEF Crash, LoseIf
  <1>22. CASE Elsewhere
    <2>1. gsl'.rt = gsl.rt
      <3>1. gsl \in Gsl
        BY DEF TypeOK
      <3> QED
        BY <1>22, <3>1 DEF Elsewhere, Gsl
    <2>2. disk'.at = disk.at /\ disk'.rt = disk.rt /\ disk'.dev = disk.dev
      BY <1>22 DEF Elsewhere, TypeOK, SessionConfig
    <2>3. UNCHANGED <<run, pc, reply, pastVars>>
      BY <1>22 DEF Elsewhere
    <2> QED
      BY <2>1, <2>2, <2>3, SameToken
      DEF pastVars, TokenInv, FlagsInv, ReplyInv, OwnerInv, KeptInv, NewestInv,
          TokensOfOwner, RefreshTokenKept, Rotated, Rt
  <1>23. CASE CalmDown
    <2>1. UNCHANGED <<disk, run, pc, reply, gsl, pastVars>>
      BY <1>23 DEF CalmDown
    <2> QED
      BY <2>1, SameToken
      DEF pastVars, TokenInv, FlagsInv, ReplyInv, OwnerInv, KeptInv, NewestInv,
          TokensOfOwner, RefreshTokenKept, Rotated, Rt
  <1> QED
    BY <1>1, <1>2, <1>3, <1>4, <1>5, <1>6, <1>7, <1>8, <1>9, <1>10, <1>11, <1>12, <1>13,
       <1>14, <1>15, <1>16, <1>17, <1>18, <1>19, <1>20, <1>21, <1>22, <1>23
    DEF Next, RunStep

\* The first config holds tokens in force.
LEMMA InitToken == Init => TokenInv
  <1> SUFFICES ASSUME Init PROVE TokenInv
    OBVIOUS
  <1>1. /\ run = NoRun /\ reply = NoReply /\ pc = "idle" /\ ~mixed /\ disk \in Configs
        /\ gsl.rt = [d \in Devices |-> 1]
    BY DEF Init
  <1>2. run.rt = NoTok /\ ~Rotated
    BY <1>1 DEF NoRun, NoReply, Rotated
  <1>3. disk.rt # NoTok =>
          /\ disk.rt.dev \in Devices /\ disk.rt.n = 1
          /\ disk.rt = [dev |-> disk.rt.dev, n |-> 1]
    <2>1. disk \in SessionConfig /\ disk.rt \in Token /\ disk.rt.n <= 1
      BY <1>1, ConfigsAssumption DEF SessionConfig
    <2>2. disk.rt # NoTok => disk.rt \in [dev : Devices, n : 1 .. MaxGen]
      BY <2>1 DEF Token
    <2>3. disk.rt # NoTok => disk.rt.n = 1
      BY <2>1, <2>2, CountsAssumption
    <2> QED
      BY <2>2, <2>3
  <1>4. FlagsInv
    BY <1>1 DEF FlagsInv
  <1>5. ReplyInv
    BY <1>1, <1>2 DEF ReplyInv, NoReply, NoTok
  <1>6. OwnerInv
    BY <1>1, ConfigsAssumption DEF OwnerInv, TokensOfOwner
  <1>7. KeptInv
    BY <1>1, <1>2, <1>3 DEF KeptInv, RefreshTokenKept, Rt
  <1>8. NewestInv
    BY <1>1, <1>2, <1>3 DEF NewestInv
  <1> QED
    BY <1>4, <1>5, <1>6, <1>7, <1>8 DEF TokenInv

\* The invariant of every reachable state.
LEMMA TokenAlways == SafeSpec => [](TypeOK /\ TokenInv)
  <1>1. TypeOK /\ TokenInv /\ [Next]_vars => TokenInv'
    BY TokenStep
  <1> QED
    BY <1>1, InitToken, TypeCorrect, PTL DEF SafeSpec

\* A session config that names its device never holds another device's tokens,
\* whatever flags the runs over it were started with and wherever they ended.
THEOREM TokensStayWithOwner == SafeSpec => []TokensOfOwner
  <1>1. TokenInv => TokensOfOwner
    BY DEF TokenInv, OwnerInv
  <1> QED
    BY <1>1, TokenAlways, PTL

\* The refresh token on file stays the one in force unless GSL's reply was lost
\* or its save failed or was refused: no crash, order of runs or choice of flags
\* makes it stale.
THEOREM RefreshTokenStaysCurrent == SafeSpec => []RefreshTokenKept
  <1>1. TokenInv => RefreshTokenKept
    BY DEF TokenInv, KeptInv
  <1> QED
    BY <1>1, TokenAlways, PTL

\* No save drops the refresh token of the config's device or puts an older one
\* back over a newer one.
THEOREM NoOlderTokenSaved == SafeSpec => RefreshTokenNeverOlder
  <1>1. TypeOK /\ TokenInv /\ [Next]_vars => [NeverOlder]_vars
    BY TokenStep
  <1>2. [NeverOlder]_vars => [(disk.rt # NoTok /\ disk'.dev = disk.dev) =>
         disk'.rt # NoTok /\ (disk'.rt.dev = disk.rt.dev => disk'.rt.n >= disk.rt.n)]_vars
    BY DEF NeverOlder
  <1> QED
    BY <1>1, <1>2, TokenAlways, PTL DEF SafeSpec, RefreshTokenNeverOlder
-----------------------------------------------------------------------------
(* A run without flags in which nothing goes wrong. *)

Plain == pc # "idle" /\ run.flags = NoFlags /\ ~faulty

\* What such a run knows of its credentials: a refused refresh token is not the
\* one in force, a refreshed access token is, one that got E011 is not.
TruthInv ==
    /\ reply.kind = "reauth" => run.dev \in gsl.revoked \/ run.rt # Rt(run.dev)
    /\ reply.kind = "reauth" /\ pc = "e011Reply" => run.at # At(run.dev)
    /\ reply.kind = "ok" => reply.at = At(run.dev)
    /\ run.refreshed => run.at = At(run.dev)
    /\ pc = "e011" => run.at # At(run.dev)

\* What is on file: until the save-back the address it started with, the access
\* token it started with or holds now, and the refresh token it holds unless the
\* file may not take it.
SavedInv ==
    /\ pc # "play" =>
         /\ disk.addr = run.orig.addr
         /\ disk.at \in {run.at, run.orig.at}
         /\ ~run.refreshed => disk.at = run.orig.at
    /\ disk.rt = run.rt \/ run.dev \in lost
    /\ pc = "play" => disk.at = run.at /\ disk.addr = run.addr

PlainInv == Plain => TruthInv /\ SavedInv

\* Nothing is known of a run that has ended or in which something went wrong.
LEMMA NotPlain == ASSUME pc' = "idle" \/ faulty' PROVE PlainInv'
  BY DEF PlainInv, Plain

\* A step between the requests that leaves the tokens alone.
LEMMA QuietPlain ==
    ASSUME PlainInv, FlagsInv, pc # "idle", pc # "play", pc' # "play", pc \notin Asking, pc' \notin Asking,
           pc' = "e011" /\ ~faulty' => run.at # At(run.dev),
           ~faulty' => ~faulty,
           run'.at = run.at, run'.rt = run.rt, run'.dev = run.dev, run'.flags = run.flags,
           run'.orig = run.orig, run'.refreshed = run.refreshed,
           disk'.at = disk.at, disk'.rt = disk.rt, disk'.addr = disk.addr,
           gsl' = gsl, reply' = reply, UNCHANGED pastVars
    PROVE  PlainInv'
  <1>1. reply = NoReply /\ reply'.kind = "none"
    BY DEF FlagsInv, NoReply
  <1>2. SUFFICES ASSUME Plain, ~faulty' PROVE TruthInv' /\ SavedInv'
    BY DEF PlainInv, Plain
  <1>3. TruthInv'
    BY <1>1, <1>2 DEF PlainInv, TruthInv, Rt, At
  <1>4. SavedInv'
    BY <1>2 DEF PlainInv, SavedInv, pastVars
  <1> QED
    BY <1>3, <1>4

\* A run starts with what is on file.
LEMMA StartPlainInv ==
    ASSUME TokenInv, NEW flags, StartRun(flags)
    PROVE  PlainInv'
  <1>1. SUFFICES ASSUME flags = NoFlags PROVE TruthInv' /\ SavedInv'
    BY DEF PlainInv, Plain, StartRun, NoRun
  <1>2. /\ run'.at = disk.at /\ run'.rt = disk.rt /\ run'.refreshed = FALSE
        /\ run'.orig = [disk EXCEPT !.at = disk.at, !.addr = disk.addr]
    BY <1>1 DEF StartRun, NoFlags, NoRun, configRefreshToken
  <1>3. pc' = "version" /\ reply'.kind = "none" /\ disk' = disk
    BY DEF StartRun, Goto, TokenInv, FlagsInv, Asking, NoReply
  <1>4. TruthInv'
    BY <1>2, <1>3 DEF TruthInv
  <1>5. SavedInv'
    BY <1>2, <1>3 DEF SavedInv
  <1> QED
    BY <1>4, <1>5

\* What GSL says of the tokens it was asked with, when nothing goes wrong.
LEMMA ReplyTrue ==
    ASSUME TypeOK, NEW tok, ~faulty',
           \/ GslRefresh(tok)
           \/ reply' = [NoReply EXCEPT !.kind = "net"] /\ gsl' = gsl
    PROVE  /\ reply'.kind = "reauth" =>
                /\ gsl' = gsl
                /\ run.dev \in gsl.revoked \/ tok # Rt(run.dev)
           /\ reply'.kind = "ok" => reply'.at = [dev |-> run.dev, n |-> gsl'.at[run.dev]]
  <1>0. gsl \in Gsl /\ gsl.at \in [Devices -> 1 .. MaxGen] /\ run.dev \in Devices
    BY DEF TypeOK, Gsl, Locals
  <1>1. CASE reply' = [NoReply EXCEPT !.kind = "net"] /\ gsl' = gsl
    BY <1>1 DEF NoReply
  <1>2. CASE ~GslAccepts(tok) /\ GslRefuses
    BY <1>2 DEF GslRefuses, GslAccepts, NoReply
  <1>3. CASE GslFails
    BY <1>3 DEF GslFails, Fault
  <1>4. ASSUME NEW a \in Newer(gsl.at[run.dev]), NEW r \in Newer(gsl.rt[run.dev]),
               GslGrants(a, r)
        PROVE  /\ reply'.kind = "ok"
               /\ reply'.at = [dev |-> run.dev, n |-> gsl'.at[run.dev]]
    <2>1. FullReply(a, r)
      BY <1>4 DEF GslGrants, Fault
    <2>2. gsl'.at[run.dev] = a
      BY <1>0, <1>4 DEF GslGrants, Gsl
    <2> QED
      BY <2>1, <2>2 DEF FullReply
  <1> QED
    BY <1>1, <1>2, <1>3, <1>4 DEF GslRefresh

\* Asking for new tokens tells the run the truth about those it has.
LEMMA AskPlain ==
    ASSUME TypeOK, PlainInv, pc \in {"stale", "e011"}, ~run.refreshed, NEW next \in Asking,
           pc = "stale" => next = "staleReply",
           AskRefresh(next)
    PROVE  PlainInv'
  <1>1. SUFFICES ASSUME Plain, ~faulty' PROVE TruthInv' /\ SavedInv'
    BY DEF PlainInv, Plain, AskRefresh, GslRefresh, GslRefuses, GslFails, GslGrants, Smooth, Fault
  <1>2. /\ UNCHANGED <<disk, run, pastVars>>
        /\ pc' = next
        /\ \/ GslRefresh(run.rt)
           \/ reply' = [NoReply EXCEPT !.kind = "net"] /\ gsl' = gsl
    BY DEF AskRefresh, Goto
  <1>3. TruthInv /\ SavedInv
    BY <1>1 DEF PlainInv
  <1>4. /\ reply'.kind = "reauth" => gsl' = gsl /\ (run.dev \in gsl.revoked \/ run.rt # Rt(run.dev))
        /\ reply'.kind = "ok" => reply'.at = [dev |-> run.dev, n |-> gsl'.at[run.dev]]
    BY <1>1, <1>2, ReplyTrue
  <1>5. TruthInv'
    BY <1>2, <1>3, <1>4 DEF TruthInv, At, Rt, Asking
  <1>6. SavedInv'
    BY <1>2, <1>3 DEF SavedInv, pastVars, Asking
  <1> QED
    BY <1>5, <1>6

\* What a run takes from a reply it holds, and puts on file if it may.
LEMMA TakePlain ==
    ASSUME TypeOK, PlainInv, NEW next \in {"look", "login"}, NEW retry,
           TakeRefreshedTokens(next, retry), pc \in {"staleReply", "e011Reply"}, ~run.refreshed
    PROVE  PlainInv'
  <1> DEFINE rt == IF Rotated THEN reply.rt ELSE run.rt
  <1>0. ~faulty' => ~faulty
    BY DEF TakeRefreshedTokens, saveRefreshedTokens, Smooth, Fault
  <1>7. run'.flags = run.flags /\ pc # "idle"
    BY TakeIs
  <1>1. SUFFICES ASSUME Plain, ~faulty' PROVE TruthInv' /\ SavedInv'
    BY <1>0, <1>7 DEF PlainInv, Plain
  <1>2. /\ run'.rt = rt /\ run'.dev = run.dev /\ run'.at = reply.at
        /\ run'.orig = run.orig /\ run'.refreshed = TRUE
        /\ reply' = NoReply /\ gsl' = gsl /\ pc' = next /\ reply.kind = "ok"
    BY TakeIs
  <1>3. TruthInv /\ SavedInv
    BY <1>1 DEF PlainInv
  <1>4. /\ disk'.addr = disk.addr
        /\ \/ disk'.at = reply.at /\ disk'.rt = rt
           \/ disk' = disk /\ lost' = IF Rotated THEN lost \cup {run.dev} ELSE lost
        /\ lost \subseteq lost'
    BY DEF TakeRefreshedTokens, saveRefreshedTokens, LoseIf, TypeOK, SessionConfig
  <1>5. TruthInv'
    BY <1>2, <1>3 DEF TruthInv, At, NoReply
  <1>6. SavedInv'
    BY <1>1, <1>2, <1>3, <1>4 DEF SavedInv, Plain
  <1> QED
    BY <1>5, <1>6

\* The save-back writes what the Login used, unless it is on file already.
LEMMA SaveBackPlain == ASSUME TypeOK, PlainInv, FlagsInv, SaveBack PROVE PlainInv'
  <1>1. SUFFICES ASSUME Plain, ~faulty' PROVE TruthInv' /\ SavedInv'
    BY DEF PlainInv, Plain, SaveBack, Smooth, Fault
  <1>2. /\ pc = "saveback" /\ pc' = "play" /\ UNCHANGED <<run, reply, gsl, lost>>
        /\ reply = NoReply
    BY DEF SaveBack, Goto, pastVars, FlagsInv, Asking
  <1>3. TruthInv /\ SavedInv
    BY <1>1 DEF PlainInv
  <1>4. IF crossServerSaveBackNeeded THEN disk' = SaveBackConfig ELSE disk' = disk
    BY <1>1 DEF SaveBack, Fault, Plain, NoFlags
  <1>5. TruthInv'
    BY <1>2, <1>3 DEF TruthInv, At, Rt
  <1>6. SavedInv'
    BY <1>2, <1>3, <1>4 DEF SavedInv, crossServerSaveBackNeeded, SaveBackConfig
  <1> QED
    BY <1>5, <1>6

\* Every step keeps what a run without flags knows, as long as nothing goes wrong.
LEMMA PlainStep ==
    ASSUME TypeOK, RetryInv, TokenInv, PlainInv, [Next]_vars
    PROVE  PlainInv'
  <1>0. FlagsInv
    BY DEF TokenInv
  <1>1. CASE UNCHANGED vars
    BY <1>1 DEF vars, pastVars, PlainInv, Plain, TruthInv, SavedInv, At, Rt
  <1>2. CASE StartPlainRun
    BY <1>2, StartPlainInv DEF StartPlainRun
  <1>3. ASSUME NEW flags \in FlagSets, StartFlaggedRun(flags) PROVE PlainInv'
    BY <1>3, StartPlainInv DEF StartFlaggedRun
  <1>4. CASE CheckVersion
    <2>1. CASE Exit(1)
      BY <2>1, NotPlain DEF Exit
    <2>2. CASE ~Exit(1)
      <3>1. /\ run'.at = run.at /\ run'.rt = run.rt /\ run'.dev = run.dev /\ run'.flags = run.flags
            /\ run'.orig = run.orig /\ run'.refreshed = run.refreshed
        BY <1>4, <2>2, RunFields DEF CheckVersion, Locals
      <3> QED
        BY <1>0, <1>4, <2>2, <3>1, QuietPlain DEF CheckVersion, Goto, Asking, Smooth, Fault
    <2> QED
      BY <2>1, <2>2
  <1>5. CASE AskCsRt \/ CsRtFailed \/ CsRtRefreshed
    <2>1. run.flags # NoFlags
      BY <1>0, <1>5 DEF FlagsInv, NoFlags, AskCsRt, CsRtFailed, CsRtRefreshed
    <2>2. pc' = "idle" \/ run'.flags = run.flags
      BY <1>5, RunFields DEF AskCsRt, CsRtFailed, CsRtRefreshed, Exit, Locals
    <2> QED
      BY <2>1, <2>2 DEF PlainInv, Plain
  <1>6. CASE AskIfStale
    BY <1>6, AskPlain DEF AskIfStale, Asking
  <1>7. CASE SkipRefresh
    BY <1>0, <1>7, QuietPlain DEF SkipRefresh, Goto, Asking, Smooth
  <1>8. CASE StaleReply
    <2>1. pc = "staleReply" /\ ~run.refreshed
      BY <1>8 DEF StaleReply, RetryInv
    <2>2. CASE TakeRefreshedTokens("look", run.retry)
      BY <2>1, <2>2, TakePlain
    <2>3. CASE RefreshFailed
      BY <2>3, NotPlain DEF RefreshFailed, Exit
    <2>4. CASE /\ reply' = NoReply /\ LoseIf(Rotated) /\ Goto("look") /\ Smooth
               /\ UNCHANGED <<disk, run, gsl, calm, tally>>
      BY <2>1, <2>4 DEF PlainInv, Plain, TruthInv, SavedInv, NoReply, LoseIf, Goto, Smooth, At
    <2> QED
      BY <1>8, <2>2, <2>3, <2>4 DEF StaleReply
  <1>9. CASE LookBeforeDial
    <2>1. CASE Exit(1) \/ Exit(2)
      BY <2>1, NotPlain DEF Exit
    <2>2. CASE ~(Exit(1) \/ Exit(2))
      <3>1. /\ run'.at = run.at /\ run'.rt = run.rt /\ run'.dev = run.dev /\ run'.flags = run.flags
            /\ run'.orig = run.orig /\ run'.refreshed = run.refreshed
        BY <1>9, <2>2, RunFields DEF LookBeforeDial, Locals
      <3> QED
        BY <1>0, <1>9, <2>2, <3>1, QuietPlain DEF LookBeforeDial, Goto, Asking, Smooth
    <2> QED
      BY <2>1, <2>2
  <1>10. CASE HaveAddress
    <2>1. CASE Exit(1)
      BY <2>1, NotPlain DEF Exit
    <2>2. CASE ~Exit(1)
      BY <1>0, <1>10, <2>2, QuietPlain DEF HaveAddress, Goto, Asking, Smooth
    <2> QED
      BY <2>1, <2>2
  <1>11. CASE Mint
    <2>1. /\ run'.at = run.at /\ run'.rt = run.rt /\ run'.dev = run.dev /\ run'.flags = run.flags
          /\ run'.orig = run.orig /\ run'.refreshed = run.refreshed
      BY <1>11, RunFields DEF Mint, Locals
    <2>2. /\ disk'.at = disk.at /\ disk'.rt = disk.rt /\ disk'.addr = disk.addr
          /\ ~faulty' => ~faulty
      BY <1>11 DEF Mint, TypeOK, SessionConfig, Smooth, Fault
    <2> QED
      BY <1>0, <1>11, <2>1, <2>2, QuietPlain DEF Mint, Goto, Asking
  <1>12. CASE LoginOk
    <2>1. /\ run'.at = run.at /\ run'.rt = run.rt /\ run'.dev = run.dev /\ run'.flags = run.flags
          /\ run'.orig = run.orig /\ run'.refreshed = run.refreshed
      BY <1>12, RunFields DEF LoginOk, Locals
    <2> QED
      BY <1>0, <1>12, <2>1, QuietPlain DEF LoginOk, Goto, Asking, Smooth
  <1>13. ASSUME NEW err \in LoginFaults \cup {"E011"}, LoginFailed(err) PROVE PlainInv'
    <2>1. CASE Exit(ExitCode(err))
      BY <2>1, NotPlain DEF Exit
    <2>2. CASE ~Exit(ExitCode(err))
      <3>1. /\ UNCHANGED <<run, reply, disk, gsl, pastVars>>
            /\ pc = "login" /\ pc' \in {"relook", "e011"}
            /\ ~faulty' => ~faulty
        BY <1>13, <2>2 DEF LoginFailed, Goto, Smooth, Fault
      <3>2. pc' = "e011" /\ ~faulty' => run.at # At(run.dev)
        <4> SUFFICES ASSUME pc' = "e011", ~faulty' PROVE run.at # At(run.dev)
          OBVIOUS
        <4>1. MayRefresh(err) /\ err \in LoginErrors
          BY <1>13, <2>2 DEF LoginFailed, Goto, Fault
        <4>2. err = "E011"
          BY <4>1 DEF MayRefresh, Wraps, LoginErrors
        <4>3. run.at # NoTok
          BY <4>1, <4>2 DEF LoginErrors
        <4> QED
          BY <4>1, <4>2, <4>3 DEF LoginErrors
      <3> QED
        BY <1>0, <3>1, <3>2, QuietPlain DEF Asking
    <2> QED
      BY <2>1, <2>2
  <1>14. CASE LookAgain
    <2>1. CASE Exit(ExitCode("net"))
      BY <2>1, NotPlain DEF Exit
    <2>2. CASE ~Exit(ExitCode("net"))
      <3>1. /\ run'.at = run.at /\ run'.rt = run.rt /\ run'.dev = run.dev /\ run'.flags = run.flags
            /\ run'.orig = run.orig /\ run'.refreshed = run.refreshed
        BY <1>14, <2>2, RunFields DEF LookAgain, Locals
      <3> QED
        BY <1>0, <1>14, <2>2, <3>1, QuietPlain DEF LookAgain, Goto, Asking, Smooth
    <2> QED
      BY <2>1, <2>2
  <1>15. CASE AskAfterE011
    BY <1>15, AskPlain DEF AskAfterE011, Asking, RetryInv
  <1>16. CASE E011Reply
    <2>1. pc = "e011Reply" /\ ~run.refreshed
      BY <1>16 DEF E011Reply, RetryInv
    <2>2. CASE TakeRefreshedTokens("login", "refreshed")
      BY <2>1, <2>2, TakePlain
    <2>3. CASE RefreshFailed
      BY <2>3, NotPlain DEF RefreshFailed, Exit
    <2> QED
      BY <1>16, <2>2, <2>3 DEF E011Reply
  <1>17. CASE SaveBack
    BY <1>0, <1>17, SaveBackPlain
  <1>18. CASE Play
    BY <1>18, NotPlain DEF Play, Exit
  <1>19. CASE Crash
    BY <1>19, NotPlain DEF Crash, Exit
  <1>20. CASE Elsewhere
    BY <1>20, NotPlain DEF Elsewhere
  <1>21. CASE CalmDown
    BY <1>21, NotPlain DEF CalmDown
  <1> QED
    BY <1>1, <1>2, <1>3, <1>4, <1>5, <1>6, <1>7, <1>8, <1>9, <1>10, <1>11, <1>12, <1>13,
       <1>14, <1>15, <1>16, <1>17, <1>18, <1>19, <1>20, <1>21
    DEF Next, RunStep

\* The invariant holds in every reachable state.
LEMMA PlainAlways == SafeSpec => [](TypeOK /\ RetryInv /\ TokenInv /\ PlainInv)
  <1>1. Init => RetryInv
    BY DEF Init, RetryInv, NoTally, NoRun
  <1>2. Init => PlainInv
    BY DEF Init, PlainInv, Plain
  <1> QED
    BY <1>1, <1>2, RetryStep, PlainStep, TokenAlways, PTL DEF SafeSpec

\* After a run without flags in which nothing went wrong the file holds the access
\* token and the address that its Login used, and its refresh token unless the
\* file belongs to another device: whatever was refreshed, looked up or redirected
\* on the way, and whatever the runs before it did.
THEOREM WorkingSessionIsSaved == SafeSpec => []WorkingSessionSaved
  <1>1. PlainInv => WorkingSessionSaved
    BY DEF PlainInv, Plain, SavedInv, WorkingSessionSaved
  <1> QED
    BY <1>1, PlainAlways, PTL

\* A device that GSL has not refused has a token in force.
LEMMA NoTokIsNotInForce ==
    ASSUME TypeOK PROVE At(run.dev) # NoTok /\ Rt(run.dev) # NoTok
  BY FieldTypes, DevicesAssumption DEF At, Rt, NoTok

\* What StaleExitIsTrue says of one step.
StaleExit ==
    (pc # "idle" /\ pc' = "idle" /\ last' = 2 /\ ~faulty' /\ run.flags = NoFlags)
        => CredentialsGone

\* A refresh that GSL refuses, of a run whose access token does not work.
LEMMA RefusedExit ==
    ASSUME TypeOK, PlainInv, RefreshFailed, pc \in {"staleReply", "e011Reply"},
           pc = "staleReply" => run.at = NoTok
    PROVE  StaleExit
  <1> SUFFICES ASSUME last' = 2, ~faulty', run.flags = NoFlags PROVE CredentialsGone
    BY DEF StaleExit
  <1>1. reply.kind = "reauth"
    BY DEF RefreshFailed, Exit
  <1>2. TruthInv
    BY DEF PlainInv, Plain, RefreshFailed, Smooth
  <1> QED
    BY <1>1, <1>2, NoTokIsNotInForce DEF TruthInv, CredentialsGone

\* A Login that is refused for good.
LEMMA RejectedExit ==
    ASSUME TypeOK, RetryInv, PlainInv, NEW err \in LoginFaults \cup {"E011"}, LoginFailed(err)
    PROVE  StaleExit
  <1> SUFFICES ASSUME pc' = "idle", last' = 2, ~faulty', run.flags = NoFlags
               PROVE  CredentialsGone
    BY DEF StaleExit
  <1>1. /\ pc = "login" /\ ~faulty /\ err \in LoginErrors
        /\ ExitCode(err) = 2 /\ ~MayRefresh(err)
    BY DEF LoginFailed, Goto, Exit, Smooth, Fault
  <1>2. err = "E011" /\ run.at # At(run.dev)
    BY <1>1 DEF LoginErrors, ExitCode, Wraps
  <1>3. ~run.refreshed
    BY <1>1, <1>2 DEF PlainInv, Plain, TruthInv
  <1>4. run.rt = NoTok
    BY <1>1, <1>2, <1>3 DEF MayRefresh, Wraps, RetryInv
  <1> QED
    BY <1>2, <1>4, NoTokIsNotInForce DEF CredentialsGone

\* Every step that ends a run with exit code 2 has looked at both tokens.
LEMMA StaleExitStep ==
    ASSUME TypeOK, RetryInv, TokenInv, PlainInv, Next
    PROVE  StaleExit
  <1> USE DEF StaleExit
  <1>1. CASE StartPlainRun \/ \E flags \in FlagSets : StartFlaggedRun(flags)
    BY <1>1 DEF StartPlainRun, StartFlaggedRun, StartRun
  <1>2. CASE CheckVersion \/ HaveAddress \/ Play \/ Crash
    BY <1>2 DEF CheckVersion, HaveAddress, Play, Crash, Exit, Goto
  <1>3. CASE AskCsRt \/ CsRtFailed \/ CsRtRefreshed
    BY <1>3 DEF TokenInv, FlagsInv, NoFlags, AskCsRt, CsRtFailed, CsRtRefreshed, Goto
  <1>4. CASE AskIfStale \/ SkipRefresh \/ AskAfterE011
    BY <1>4 DEF AskIfStale, SkipRefresh, AskAfterE011, AskRefresh, Goto
  <1>5. CASE StaleReply
    <2>1. CASE TakeRefreshedTokens("look", run.retry)
      BY <2>1 DEF TakeRefreshedTokens, Goto
    <2>2. CASE run.at = NoTok /\ RefreshFailed
      <3>1. pc = "staleReply"
        BY <1>5 DEF StaleReply
      <3> HIDE DEF StaleExit
      <3> QED
        BY <2>2, <3>1, RefusedExit
    <2>3. CASE Goto("look")
      BY <2>3 DEF Goto
    <2> QED
      BY <1>5, <2>1, <2>2, <2>3 DEF StaleReply
  <1>6. CASE LookBeforeDial
    BY <1>6 DEF LookBeforeDial, LookupRefused, CredentialsGone, Exit, Goto
  <1>7. CASE Mint \/ LoginOk \/ SaveBack
    BY <1>7 DEF Mint, LoginOk, SaveBack, Goto
  <1>8. ASSUME NEW err \in LoginFaults \cup {"E011"}, LoginFailed(err) PROVE StaleExit
    BY <1>8, RejectedExit DEF StaleExit
  <1>9. CASE LookAgain
    BY <1>9 DEF LookAgain, Exit, Goto, ExitCode, Wraps
  <1>10. CASE E011Reply
    <2>1. CASE TakeRefreshedTokens("login", "refreshed")
      BY <2>1 DEF TakeRefreshedTokens, Goto
    <2>2. CASE RefreshFailed
      <3>1. pc = "e011Reply"
        BY <1>10 DEF E011Reply
      <3> HIDE DEF StaleExit
      <3> QED
        BY <2>2, <3>1, RefusedExit
    <2> QED
      BY <1>10, <2>1, <2>2 DEF E011Reply
  <1>11. CASE Elsewhere \/ CalmDown
    BY <1>11 DEF Elsewhere, CalmDown
  <1> HIDE DEF StaleExit
  <1> QED
    BY <1>1, <1>2, <1>3, <1>4, <1>5, <1>6, <1>7, <1>8, <1>9, <1>10, <1>11 DEF Next, RunStep

\* Exit code 2, the signal to bind the device again, is never given by a run
\* without flags that nothing disturbed unless both its tokens are dead: it has
\* tried the access token, and GSL has refused the refresh token or there was none.
THEOREM StaleExitTellsTruth == SafeSpec => StaleExitIsTrue
  <1>1. TypeOK /\ RetryInv /\ TokenInv /\ PlainInv /\ [Next]_vars => [StaleExit]_vars
    BY StaleExitStep
  <1>2. [StaleExit]_vars =>
          [(pc # "idle" /\ pc' = "idle" /\ last' = 2 /\ ~faulty' /\ run.flags = NoFlags)
             => CredentialsGone]_vars
    BY DEF StaleExit
  <1> QED
    BY <1>1, <1>2, PlainAlways, PTL DEF SafeSpec, StaleExitIsTrue

-----------------------------------------------------------------------------
(* AfterLogin. *)


Stages == {"start", "login", "fallback", "fetch", "notify", "collect", "idle", "interactive", "exited"}
Results == {"none", "init", "quiet", "flooded", "dead", "ended"}
Causes == {"none", "pipe", "dead", "ended", "closed"}

ShapeInv ==
    /\ link \in {"up", "dead", "ended", "closed"}
    /\ result \in Results
    /\ errs \subseteq Failures
    /\ stage \in Stages
    /\ cause \in Causes
    /\ stage \notin {"interactive", "exited"} => ipc = "off"
    /\ stage = "interactive" => ipc # "off"
    /\ ipc = "off" => cause = "none" /\ sig = "none" /\ ~stopping

\* Only the signal goroutine closes the connection, after it has set the flag,
\* and the main goroutine looks at the flag after it has seen the connection.
SignalInv ==
    /\ sig \in {"stored", "closed"} => stopping
    /\ stopping => sig # "none"
    /\ link = "closed" => stopping
    /\ cause = "closed" => ipc = "failed" /\ stopping
    /\ ipc \in {"failed", "fatal"} => cause # "none"
    /\ ipc = "returned" => stopping

\* Before its exit, a run goes on past failures of a live connection only, and
\* past the waits only if it is to become interactive.
StageInv ==
    /\ stage \in {"start", "login", "fallback", "fetch"} => known = {}
    /\ stage \in {"start", "login", "fallback", "fetch", "notify"} => errs = {}
    /\ stage # "exited" => known \cap {"dead", "ended", "pipe"} = {}
    /\ stage # "exited" => (known # {} => inter)
    /\ stage \in {"idle", "interactive"} => mode # "run"

ExitInv == ExitTellsAll /\ NeverBlamesShutdown

IInv == ShapeInv /\ SignalInv /\ StageInv /\ ExitInv

LEMMA InitIInv == MainInit => IInv
<1> SUFFICES ASSUME MainInit
             PROVE  IInv
  OBVIOUS
<1> USE DEF MainInit, InitPushIdle, InteractiveOff
<1>1. ShapeInv
  BY DEF ShapeInv, Results, Stages, Causes
<1>2. SignalInv
  BY DEF SignalInv
<1>3. StageInv
  BY DEF StageInv
<1>4. ExitInv
  BY DEF ExitInv, ExitTellsAll, NeverBlamesShutdown
<1> QED
  BY <1>1, <1>2, <1>3, <1>4 DEF IInv

-----------------------------------------------------------------------------
(* The login, the waits and collecting: the interactive mode has not begun. *)

LEMMA StartStep ==
    ASSUME IInv, Start
    PROVE  IInv'
<1> USE DEF IInv, Start, GoOnTo, BeginWait, promiseVars, interactiveVars, runVars
<1>1. ShapeInv'
  BY DEF ShapeInv, Results, Stages
<1>2. SignalInv'
  BY DEF SignalInv
<1>3. StageInv'
  BY DEF StageInv
<1>4. ExitInv'
  BY DEF ExitInv, ExitTellsAll, NeverBlamesShutdown
<1> QED
  BY <1>1, <1>2, <1>3, <1>4

\* A wait ends in one of its ways.
LEMMA WaitResult ==
    ASSUME ShapeInv, link # "closed", WaitStep(link)
    PROVE  result' \in Results
<1> USE DEF ShapeInv, Results, End, LoopAgain
<1>1. CASE LoginTop(link)
  BY <1>1 DEF LoginTop
<1>2. CASE FetchTop
  BY <1>2 DEF FetchTop
<1>3. CASE ReadExpires
  BY <1>3 DEF ReadExpires
<1>4. CASE ReadFails(link)
  BY <1>4 DEF ReadFails
<1>5. CASE ReadUndecodable
  BY <1>5 DEF ReadUndecodable
<1>6. CASE ReadOther
  BY <1>6 DEF ReadOther
<1>7. CASE LoginInitPush
  BY <1>7 DEF LoginInitPush
<1>8. CASE FetchInitPush
  BY <1>8 DEF FetchInitPush
<1>9. CASE FetchBuildPush
  BY <1>9 DEF FetchBuildPush
<1>10. CASE FetchAddPush
  BY <1>10 DEF FetchAddPush
<1> QED
  BY <1>1, <1>2, <1>3, <1>4, <1>5, <1>6, <1>7, <1>8, <1>9, <1>10 DEF WaitStep, Received

\* Waiting, with or without time passing, only moves the wait.
LEMMA WaitingStep ==
    ASSUME IInv, Wait \/ TimePasses
    PROVE  IInv'
<1>1. /\ Waiting
      /\ UNCHANGED <<promiseVars, interactiveVars, runVars, stage, known, code>>
  BY DEF Wait, TimePasses
<1>2. result' \in Results
  <2>1. ipc = "off"
    BY <1>1 DEF IInv, ShapeInv, Waiting
  <2>2. link # "closed"
    BY <2>1 DEF IInv, ShapeInv, SignalInv
  <2>3. CASE Wait
    BY <2>2, <2>3, WaitResult DEF IInv, Wait
  <2>4. CASE TimePasses
    BY <2>4 DEF IInv, ShapeInv, TimePasses, Pass
  <2> QED
    BY <2>3, <2>4
<1> USE <1>1 DEF IInv, promiseVars, interactiveVars, runVars
<1>3. ShapeInv'
  BY <1>2 DEF ShapeInv
<1>4. SignalInv'
  BY DEF SignalInv
<1>5. StageInv'
  BY DEF StageInv
<1>6. ExitInv'
  BY DEF ExitInv, ExitTellsAll, NeverBlamesShutdown
<1> QED
  BY <1>3, <1>4, <1>5, <1>6

LEMMA LoginWaitedStep ==
    ASSUME IInv, LoginWaited
    PROVE  IInv'
<1>1. /\ stage = "login" /\ known = {} /\ errs = {} /\ result \in Results
      /\ ipc = "off" /\ cause = "none" /\ sig = "none"
  BY DEF IInv, ShapeInv, StageInv, LoginWaited, Waited
<1>2. UNCHANGED <<link, part, errs, ipc, tries, scanErrs, cause, sig, stopping, path, mode, inter>>
  BY DEF LoginWaited, promiseVars, interactiveVars, runVars
<1>3. known' = {result} \cap Fatal /\ result' = "none"
  BY <1>1 DEF LoginWaited, Told, BeginWait, WaitOver
<1>4. \/ stage' \in {"fallback", "notify"} /\ result \notin Fatal
      \/ stage' = "exited" /\ result = "ended" /\ code' = 3
      \/ stage' = "exited" /\ result = "dead" /\ code' = 1
  BY DEF LoginWaited, GoOnTo, ExitWith, Fatal
<1> USE <1>1, <1>2, <1>3, <1>4 DEF Fatal
<1>5. ShapeInv'
  BY DEF IInv, ShapeInv, Stages, Results
<1>6. SignalInv'
  BY DEF IInv, SignalInv
<1>7. StageInv'
  BY DEF IInv, StageInv
<1>8. ExitInv'
  BY DEF ExitInv, ExitTellsAll, NeverBlamesShutdown
<1> QED
  BY <1>5, <1>6, <1>7, <1>8 DEF IInv

\* Both fetches are judged alike.
LEMMA FetchedStep ==
    ASSUME IInv, FallbackWaited \/ FetchWaited
    PROVE  IInv'
<1>1. stage \in {"fallback", "fetch"}
  BY DEF FallbackWaited, FetchWaited, Waited
<1>2. /\ known = {} /\ errs = {} /\ result \in Results
      /\ ipc = "off" /\ cause = "none" /\ sig = "none"
  BY <1>1 DEF IInv, ShapeInv, StageInv
<1>3. UNCHANGED <<link, part, errs, ipc, tries, scanErrs, cause, sig, stopping, path, mode, inter>>
  BY DEF FallbackWaited, FetchWaited, promiseVars, interactiveVars, runVars
<1>4. known' = WaitErrors /\ result' = "none" /\ Judge(WaitErrors, "notify")
  BY <1>2 DEF FallbackWaited, FetchWaited, Told, WaitOver
<1>5. WaitErrors = IF result \in {"flooded", "dead", "ended"} THEN {result} ELSE {}
  BY DEF WaitErrors
<1>6. \/ stage' = "exited" /\ result = "ended" /\ code' = 3
      \/ stage' = "exited" /\ code' = 1 /\ (result = "dead" \/ (result = "flooded" /\ ~inter))
      \/ stage' = "notify" /\ result \notin {"dead", "ended"} /\ (result = "flooded" => inter)
  BY <1>4, <1>5 DEF Judge, ExitWith, GoOnTo
<1> USE <1>2, <1>3, <1>4, <1>5, <1>6
<1>7. ShapeInv'
  BY DEF IInv, ShapeInv, Stages, Results
<1>8. SignalInv'
  BY DEF IInv, SignalInv
<1>9. StageInv'
  BY DEF StageInv
<1>10. ExitInv'
  BY DEF ExitInv, ExitTellsAll, NeverBlamesShutdown, Fatal
<1> QED
  BY <1>7, <1>8, <1>9, <1>10 DEF IInv

LEMMA NotifyStep ==
    ASSUME IInv, Notify
    PROVE  IInv'
<1>1. /\ stage = "notify" /\ stage' = IF mode = "print" THEN "idle" ELSE "collect"
      /\ UNCHANGED <<link, errs, result, interactiveVars, runVars, known, code>>
  BY DEF Notify, GoOnTo
<1> USE <1>1 DEF IInv, interactiveVars, runVars
<1>2. ShapeInv'
  BY DEF ShapeInv, Stages
<1>3. SignalInv'
  BY DEF SignalInv
<1>4. StageInv'
  BY DEF StageInv
<1>5. ExitInv'
  BY DEF ExitInv, ExitTellsAll, NeverBlamesShutdown
<1> QED
  BY <1>2, <1>3, <1>4, <1>5

LEMMA CollectStepStep ==
    ASSUME IInv, CollectStep
    PROVE  IInv'
<1>1. /\ stage = "collect"
      /\ UNCHANGED <<result, interactiveVars, runVars, stage, known, code>>
  BY DEF CollectStep, pushVars
<1>2. errs' \subseteq Failures /\ link' \in {"up", "dead", "ended"}
  <2>1. PromiseNext /\ errs \subseteq Failures /\ link \in {"up", "dead", "ended"}
    BY <1>1 DEF CollectStep, IInv, ShapeInv, SignalInv
  <2> QED
    BY <2>1 DEF PromiseNext, Fail, CoreDone, LoseQuietly, FeaturesDone, Failures, Fatal
<1> USE <1>1 DEF IInv, interactiveVars, runVars
<1>3. ShapeInv'
  BY <1>2 DEF ShapeInv
<1>4. SignalInv'
  BY <1>2 DEF SignalInv
<1>5. StageInv'
  BY DEF StageInv
<1>6. ExitInv'
  BY DEF ExitInv, ExitTellsAll, NeverBlamesShutdown
<1> QED
  BY <1>3, <1>4, <1>5, <1>6

LEMMA CollectEndsStep ==
    ASSUME IInv, CollectEnds
    PROVE  IInv'
<1>1. stage = "collect" /\ known' = known \cup errs
  BY DEF CollectEnds, Told
<1>2. /\ known \cap {"dead", "ended", "pipe"} = {} /\ (known # {} => inter)
      /\ errs \subseteq Failures /\ ipc = "off" /\ cause = "none" /\ sig = "none"
  BY <1>1 DEF IInv, ShapeInv, StageInv
<1>3. UNCHANGED <<link, errs, result, ipc, tries, scanErrs, cause, sig, stopping, path, mode, inter>>
  BY DEF CollectEnds, pushVars, interactiveVars, runVars
<1>4. \/ stage' = "exited" /\ code' = 3 /\ "ended" \in errs
      \/ /\ stage' = "exited" /\ code' = 1 /\ "ended" \notin errs
         /\ errs # {} /\ ("dead" \in errs \/ ~inter \/ mode = "run")
      \/ stage' = "exited" /\ code' = 0 /\ errs = {} /\ mode = "run"
      \/ /\ stage' = "idle" /\ mode # "run" /\ errs \cap {"dead", "ended"} = {}
         /\ (errs # {} => inter)
  BY DEF CollectEnds, JudgeFeature, Judge, ExitWith, GoOnTo
<1> USE <1>1, <1>2, <1>3, <1>4
<1>5. ShapeInv'
  BY DEF IInv, ShapeInv, Stages
<1>6. SignalInv'
  BY DEF IInv, SignalInv
<1>7. StageInv'
  BY DEF StageInv, Failures
<1>8. ExitInv'
  <2>1. "pipe" \notin known'
    BY DEF Failures
  <2>2. "ended" \in known' <=> "ended" \in errs
    OBVIOUS
  <2>3. "dead" \in known' <=> "dead" \in errs
    OBVIOUS
  <2>4. errs = {} => (known' # {} => inter)
    OBVIOUS
  <2> QED
    BY <2>1, <2>2, <2>3, <2>4 DEF ExitInv, ExitTellsAll, NeverBlamesShutdown, Fatal
<1> QED
  BY <1>5, <1>6, <1>7, <1>8 DEF IInv

LEMMA FinishStep ==
    ASSUME IInv, Finish
    PROVE  IInv'
<1>1. stage = "idle" /\ UNCHANGED <<link, errs, result, path, mode, inter, known>>
  BY DEF Finish, promiseVars, pushVars, runVars
<1>2. /\ known \cap {"dead", "ended", "pipe"} = {} /\ (known # {} => inter) /\ mode # "run"
      /\ ipc = "off" /\ cause = "none" /\ sig = "none" /\ ~stopping
  BY <1>1 DEF IInv, ShapeInv, StageInv
<1>3. /\ UNCHANGED <<cause, sig, stopping>>
      /\ \/ ~inter /\ stage' = "exited" /\ code' = 0 /\ ipc' = "off"
         \/ inter /\ stage' = "interactive" /\ ipc' = "stat"
  BY <1>2 DEF Finish, ExitWith, GoOnTo, InteractiveBegin, interactiveVars
<1> USE <1>1, <1>2, <1>3
<1>4. ShapeInv'
  BY DEF IInv, ShapeInv, Stages
<1>5. SignalInv'
  BY DEF IInv, SignalInv
<1>6. StageInv'
  BY DEF StageInv
<1>7. ExitInv'
  BY DEF ExitInv, ExitTellsAll, NeverBlamesShutdown
<1> QED
  BY <1>4, <1>5, <1>6, <1>7 DEF IInv

-----------------------------------------------------------------------------
(* Interactive mode. *)

\* The main goroutine: what it saw of the connection, and of the flag after it.
LEMMA InteractingStep ==
    ASSUME IInv, Interacting
    PROVE  IInv'
<1>1. /\ stage = "interactive" /\ MainStep(link)
      /\ UNCHANGED <<link, errs, result, path, mode, inter, stage, known, code>>
  BY DEF Interacting, promiseVars, pushVars, runVars
<1>2. UNCHANGED <<sig, stopping>>
  BY <1>1 DEF MainStep, Stat, StatNotFifo, OpenPipe, ReadLine, PipeEnds, PipeScanError,
              SendLine, AnswerLine, CheckStopping
<1>3. /\ link \in {"up", "dead", "ended", "closed"} /\ (link = "closed" => stopping)
      /\ ipc # "off" /\ cause \in Causes
      /\ cause = "closed" => ipc = "failed" /\ stopping
      /\ ipc \in {"failed", "fatal"} => cause # "none"
      /\ ipc = "returned" => stopping
  BY <1>1 DEF IInv, ShapeInv, SignalInv
<1>4. /\ ipc' # "off" /\ cause' \in Causes
      /\ cause' = "closed" => ipc' = "failed" /\ stopping
      /\ ipc' \in {"failed", "fatal"} => cause' # "none"
      /\ ipc' = "returned" => stopping
  <2> USE <1>3 DEF Causes
  <2>1. CASE Stat
    BY <2>1 DEF Stat, Attempt
  <2>2. CASE StatNotFifo
    BY <2>2 DEF StatNotFifo
  <2>3. CASE OpenPipe
    BY <2>3 DEF OpenPipe, Attempt
  <2>4. CASE ReadLine
    BY <2>4 DEF ReadLine
  <2>5. CASE PipeEnds
    BY <2>5 DEF PipeEnds
  <2>6. CASE PipeScanError
    BY <2>6 DEF PipeScanError
  <2>7. CASE SendLine(link)
    BY <2>7 DEF SendLine
  <2>8. CASE AnswerLine(link)
    BY <2>8 DEF AnswerLine
  <2>9. CASE CheckStopping
    BY <2>9 DEF CheckStopping
  <2> QED
    BY <1>1, <2>1, <2>2, <2>3, <2>4, <2>5, <2>6, <2>7, <2>8, <2>9 DEF MainStep
<1> USE <1>1, <1>2, <1>4
<1>5. ShapeInv'
  BY DEF IInv, ShapeInv
<1>6. SignalInv'
  BY DEF IInv, SignalInv
<1>7. StageInv'
  BY DEF IInv, StageInv
<1>8. ExitInv'
  BY DEF ExitInv, ExitTellsAll, NeverBlamesShutdown
<1> QED
  BY <1>5, <1>6, <1>7, <1>8 DEF IInv

LEMMA InteractiveExitStep ==
    ASSUME IInv, InteractiveExit
    PROVE  IInv'
<1>1. /\ stage = "interactive" /\ stage' = "exited"
      /\ known' = known \cup ({cause} \ {"none"})
      /\ UNCHANGED <<link, errs, result, ipc, tries, scanErrs, cause, sig, stopping, path, mode, inter>>
      /\ \/ ipc = "returned" /\ code' = 0
         \/ ipc = "fatal" /\ code' = IF cause = "ended" THEN 3 ELSE 1
  BY DEF InteractiveExit, ExitWith, Told, promiseVars, pushVars, interactiveVars, runVars
<1>2. /\ known \cap {"dead", "ended", "pipe"} = {} /\ (known # {} => inter) /\ mode # "run"
      /\ cause \in Causes /\ cause # "closed" /\ ipc # "off"
      /\ ipc = "fatal" => cause # "none"
      /\ ipc = "returned" => sig # "none"
  BY <1>1 DEF IInv, ShapeInv, SignalInv, StageInv
<1>3. ShapeInv'
  BY <1>1 DEF IInv, ShapeInv, Stages
<1>4. SignalInv'
  BY <1>1 DEF IInv, SignalInv
<1>5. StageInv'
  BY <1>1 DEF StageInv
<1>6. ExitInv'
  <2>1. CASE ipc = "returned"
    BY <1>1, <1>2, <2>1 DEF ExitInv, ExitTellsAll, NeverBlamesShutdown
  <2>2. CASE ipc = "fatal"
    <3>1. cause \in {"pipe", "dead", "ended"} /\ known' = known \cup {cause}
      BY <1>1, <1>2, <2>2 DEF Causes
    <3> QED
      BY <1>1, <1>2, <2>2, <3>1 DEF ExitInv, ExitTellsAll, NeverBlamesShutdown
  <2> QED
    BY <1>1, <2>1, <2>2
<1> QED
  BY <1>3, <1>4, <1>5, <1>6 DEF IInv

LEMMA SignalStepStep ==
    ASSUME IInv, SignalStep
    PROVE  IInv'
<1>1. /\ stage = "interactive"
      /\ UNCHANGED <<errs, result, ipc, cause, path, mode, inter, known>>
      /\ ipc # "off"
  BY DEF IInv, ShapeInv, SignalStep, Signalled, SignalCloses, SignalExit, CatchSignal,
         StoreFlag, CloseConn, promiseVars, pushVars, interactiveVars, runVars
<1>2. \/ sig = "none" /\ sig' = "caught" /\ UNCHANGED <<link, stopping, stage, code>>
      \/ sig = "caught" /\ sig' = "stored" /\ stopping' = TRUE /\ UNCHANGED <<link, stage, code>>
      \/ sig = "stored" /\ sig' = "closed" /\ link' = "closed" /\ UNCHANGED <<stopping, stage, code>>
      \/ sig = "closed" /\ stage' = "exited" /\ code' = 0 /\ UNCHANGED <<link, sig, stopping>>
  BY DEF SignalStep, Signalled, SignalCloses, SignalExit, CatchSignal, StoreFlag, CloseConn,
         ExitWith, promiseVars, interactiveVars
<1> USE <1>1, <1>2
<1>3. ShapeInv'
  BY DEF IInv, ShapeInv, Stages
<1>4. SignalInv'
  BY DEF IInv, SignalInv
<1>5. StageInv'
  BY DEF IInv, StageInv
<1>6. ExitInv'
  BY DEF ExitInv, ExitTellsAll, NeverBlamesShutdown
<1> QED
  BY <1>3, <1>4, <1>5, <1>6 DEF IInv

LEMMA BreakStep ==
    ASSUME IInv, NEW o \in Fatal, Break(o)
    PROVE  IInv'
<1>1. /\ stage # "exited" /\ link' \in {"dead", "ended"}
      /\ UNCHANGED <<errs, result, ipc, cause, sig, stopping, mode, inter, stage, known, code>>
  BY DEF Break, Waiting, Fatal, pushVars, interactiveVars, runVars
<1> USE <1>1 DEF IInv
<1>2. ShapeInv'
  BY DEF ShapeInv
<1>3. SignalInv'
  BY DEF SignalInv
<1>4. StageInv'
  BY DEF StageInv
<1>5. ExitInv'
  BY DEF ExitInv, ExitTellsAll, NeverBlamesShutdown
<1> QED
  BY <1>2, <1>3, <1>4, <1>5

-----------------------------------------------------------------------------
LEMMA NextIInv ==
    ASSUME IInv, [MainNext]_mainVars
    PROVE  IInv'
<1>1. CASE UNCHANGED mainVars
  BY <1>1 DEF mainVars, pushVars, promiseVars, interactiveVars, runVars, IInv, ShapeInv, SignalInv,
              StageInv, ExitInv, ExitTellsAll, NeverBlamesShutdown
<1>2. CASE Start
  BY <1>2, StartStep
<1>3. CASE Wait \/ TimePasses
  BY <1>3, WaitingStep
<1>4. CASE LoginWaited
  BY <1>4, LoginWaitedStep
<1>5. CASE FallbackWaited \/ FetchWaited
  BY <1>5, FetchedStep
<1>6. CASE Notify
  BY <1>6, NotifyStep
<1>7. CASE CollectStep
  BY <1>7, CollectStepStep
<1>8. CASE CollectEnds
  BY <1>8, CollectEndsStep
<1>9. CASE Finish
  BY <1>9, FinishStep
<1>10. CASE Interacting
  BY <1>10, InteractingStep
<1>11. CASE InteractiveExit
  BY <1>11, InteractiveExitStep
<1>12. CASE SignalStep
  BY <1>12, SignalStepStep
<1>13. CASE \E o \in Fatal : Break(o)
  BY <1>13, BreakStep
<1> QED
  BY <1>1, <1>2, <1>3, <1>4, <1>5, <1>6, <1>7, <1>8, <1>9, <1>10, <1>11, <1>12, <1>13
     DEF MainNext, MainProceeds

LEMMA SpecIInv == MainSafeSpec => []IInv
<1>1. IInv /\ [MainNext]_mainVars => IInv'
  BY NextIInv
<1> QED
  BY <1>1, InitIInv, PTL DEF MainSafeSpec

\* The exit code of a run tells what main was told, on every path through
\* main.go (exitIfSessionEnded, shouldAbortBeforeInteractive, the -run branch).
THEOREM ExitCodeTellsAll == MainSafeSpec => []ExitTellsAll
<1>1. IInv => ExitTellsAll
  BY DEF IInv, ExitInv
<1> QED
  BY <1>1, SpecIInv, PTL

\* The main goroutine of interactive mode never exits with a failure that is
\* the signal goroutine's close of the connection (interactiveShuttingDown).
THEOREM ShutdownNeverBlamed == MainSafeSpec => []NeverBlamesShutdown
<1>1. IInv => NeverBlamesShutdown
  BY DEF IInv, ExitInv
<1> QED
  BY <1>1, SpecIInv, PTL

-----------------------------------------------------------------------------
(***************************************************************************)
(* The waits.  WaitsForInit is about the end of a wait; BudgetInv is what  *)
(* the wait has done with its time until then (only an init push moves the *)
(* deadline, and login.init goes out at the middle), ListInv what it has   *)
(* gathered.                                                               *)
(***************************************************************************)

BudgetInv ==
    /\ now \in Nat /\ deadline \in Nat
    /\ now <= deadline /\ deadline <= Timeout
    /\ ~initSeen \/ wait = "login" => deadline = Timeout
    /\ wait = "login" /\ ~asked => now <= Halfway

ListInv ==
    /\ {buildings, visitors, kept} \subseteq Seq(Uuids \cup Uids)
    /\ \A list \in {buildings, visitors, kept} : Len(list) <= MaxAggregate

\* A wait ends where its caller takes over.
OverInv == result # "none" => stage \in {"login", "fallback", "fetch"}

WaitInv == BudgetInv /\ ListInv /\ OverInv /\ WaitsForInit

LEMMA Budget ==
    /\ Timeout \in Nat /\ Halfway \in Nat /\ 0 < Timeout /\ Halfway < Timeout
    /\ Window \in Nat /\ MaxAggregate \in Nat
<1>1. Timeout \in Nat \ {0}
  BY InitPushAssumption
<1>2. Timeout \div 2 \in Nat /\ Timeout \div 2 < Timeout
  BY <1>1
<1> QED
  BY <1>1, <1>2, InitPushAssumption, PushListsAssumption DEF Halfway

\* What the parsers keep of a push: their loop is a fold.
KeptIds(base, s, list, i) == list \in Seq(Uuids \cup Uids)

Parsing == INSTANCE FoldInduction WITH Op <- KeepValid, P <- KeptIds

LEMMA ParsedIds ==
    ASSUME NEW items \in Seq(Uuids \cup Uids \cup {Malformed}), NEW n \in Nat
    PROVE  FoldLeft(KeepValid, <<>>, FirstItems(items, n)) \in Seq(Uuids \cup Uids)
<1> DEFINE k == IF Len(items) < n THEN Len(items) ELSE n
           s == FirstItems(items, n)
<1>1. k \in Nat /\ k <= Len(items)
  OBVIOUS
<1>2. s = SubSeq(items, 1, k)
  BY DEF FirstItems
<1> HIDE DEF k
<1>3. s \in Seq(Uuids \cup Uids \cup {Malformed})
  BY <1>1, <1>2
<1> HIDE DEF s
<1>4. KeptIds(<<>>, s, <<>>, 0)
  BY DEF KeptIds
<1>5. ASSUME NEW list, NEW i, i \in 1 .. Len(s) /\ KeptIds(<<>>, s, list, i - 1)
      PROVE  KeptIds(<<>>, s, KeepValid(list, s[i]), i)
  <2>1. list \in Seq(Uuids \cup Uids) /\ s[i] \in Uuids \cup Uids \cup {Malformed}
    BY <1>3, <1>5 DEF KeptIds
  <2> QED
    BY <2>1 DEF KeepValid, KeptIds
<1>6. KeptIds(<<>>, s, Parsing!FoldLeft(KeepValid, <<>>, s), Len(s))
  BY <1>3, <1>4, <1>5, Parsing!FoldInduct
<1>7. Parsing!FoldLeft(KeepValid, <<>>, s) = FoldLeft(KeepValid, <<>>, s)
  BY DEF Parsing!FoldLeft, FoldLeft, Parsing!MapThenFoldSet, MapThenFoldSet, Parsing!Max, Max
<1> QED
  BY <1>6, <1>7 DEF KeptIds, s

LEMMA PushedIds == BuildingPushes \cup VisitorPushes \subseteq Seq(Uuids \cup Uids)
<1>1. RawLists(Uuids) \cup RawLists(Uids) \subseteq Seq(Uuids \cup Uids \cup {Malformed})
  BY PushListsAssumption DEF RawLists, SeqOf
<1> QED
  BY <1>1, ParsedIds, PushListsAssumption
     DEF BuildingPushes, VisitorPushes, ParseInitBuildings, ParseInitVisitors

\* A push adds to the lists of the wait.
GatheredIds(base, s, list, i) == list \in Seq(Uuids \cup Uids) /\ Len(list) <= MaxAggregate

Gathering == INSTANCE FoldInduction WITH Op <- AppendNew, P <- GatheredIds

LEMMA GatheredOf ==
    ASSUME NEW list, list \in Seq(Uuids \cup Uids), Len(list) <= MaxAggregate,
           NEW items \in BuildingPushes \cup VisitorPushes
    PROVE  AppendAll(list, items) \in Seq(Uuids \cup Uids) /\ Len(AppendAll(list, items)) <= MaxAggregate
<1>1. items \in Seq(Uuids \cup Uids)
  BY PushedIds
<1>2. GatheredIds(list, items, list, 0)
  BY DEF GatheredIds
<1>3. ASSUME NEW acc, NEW i, i \in 1 .. Len(items) /\ GatheredIds(list, items, acc, i - 1)
      PROVE  GatheredIds(list, items, AppendNew(acc, items[i]), i)
  <2>1. acc \in Seq(Uuids \cup Uids) /\ Len(acc) <= MaxAggregate /\ items[i] \in Uuids \cup Uids
    BY <1>1, <1>3 DEF GatheredIds
  <2>2. Len(Append(acc, items[i])) = Len(acc) + 1 /\ Len(acc) \in Nat /\ MaxAggregate \in Nat
    BY <2>1, PushListsAssumption
  <2> QED
    BY <2>1, <2>2 DEF AppendNew, GatheredIds
<1>4. GatheredIds(list, items, Gathering!FoldLeft(AppendNew, list, items), Len(items))
  BY <1>1, <1>2, <1>3, Gathering!FoldInduct
<1>5. Gathering!FoldLeft(AppendNew, list, items) = FoldLeft(AppendNew, list, items)
  BY DEF Gathering!FoldLeft, FoldLeft, Gathering!MapThenFoldSet, MapThenFoldSet, Gathering!Max, Max
<1> QED
  BY <1>4, <1>5 DEF GatheredIds, AppendAll

LEMMA InitWaitInv == MainInit => WaitInv
BY Budget DEF MainInit, InitPushIdle, WaitInv, BudgetInv, ListInv, OverInv, WaitsForInit

\* A wait that begins, or is over.
LEMMA FreshWait ==
    ASSUME WaitInv, now' = 0, deadline' = Timeout, result' = "none",
           \A list \in {buildings', visitors', kept'} :
              list \in {buildings, visitors, kept, <<>>}
    PROVE  WaitInv'
<1>1. <<>> \in Seq(Uuids \cup Uids) /\ Len(<<>>) <= MaxAggregate
  BY Budget
<1>2. ListInv'
  BY <1>1 DEF WaitInv, ListInv
<1>3. BudgetInv'
  BY Budget DEF BudgetInv, Halfway
<1> QED
  BY <1>2, <1>3 DEF WaitInv, OverInv, WaitsForInit

\* The steps of a wait that leave its lists and its time alone.
LEMMA LoopWaitInv ==
    ASSUME WaitInv, NEW l, LoginTop(l) \/ FetchTop \/ ReadExpires \/ ReadFails(l) \/ ReadUndecodable \/ ReadOther,
           l # "quiet",
           UNCHANGED <<kept, stage>>, stage \in {"login", "fallback", "fetch"}
    PROVE  WaitInv'
<1>1. UNCHANGED <<wait, now, deadline, initSeen, buildings, visitors, kept>>
  BY DEF LoginTop, FetchTop, ReadExpires, ReadFails, ReadUndecodable, ReadOther
<1>2. asked' = asked \/ (asked' = TRUE /\ wait = "login")
  BY DEF LoginTop, FetchTop, ReadExpires, ReadFails, ReadUndecodable, ReadOther
<1>3. BudgetInv'
  BY <1>1, <1>2 DEF WaitInv, BudgetInv, Halfway
<1>4. ListInv'
  BY <1>1 DEF WaitInv, ListInv
<1>5. WaitsForInit'
  <2> SUFFICES ASSUME result' = "quiet", ~initSeen
               PROVE  /\ wait = "login" => asked'
                      /\ now = Timeout \/ MaxAggregate \in {Len(buildings), Len(visitors)}
    BY <1>1 DEF WaitsForInit
  <2>0. /\ now \in Nat /\ deadline = Timeout /\ now <= deadline
        /\ wait = "login" /\ ~asked => now <= Halfway
        /\ Len(buildings) <= MaxAggregate /\ Len(visitors) <= MaxAggregate
        /\ Len(buildings) \in Nat /\ Len(visitors) \in Nat
    BY DEF WaitInv, BudgetInv, ListInv
  <2> USE <2>0, Budget DEF End, LoopAgain
  <2>1. CASE LoginTop(l)
    BY <2>1 DEF LoginTop, AtTop, Running
  <2>2. CASE FetchTop
    BY <2>2 DEF FetchTop, AtTop, Running
  <2>3. CASE ReadExpires
    BY <2>3 DEF ReadExpires, ReadUntil, Reading, Running
  <2>4. CASE ReadFails(l)
    BY <2>4 DEF ReadFails
  <2>5. CASE ReadUndecodable \/ ReadOther
    BY <2>5 DEF ReadUndecodable, ReadOther, Reading, Running
  <2> QED
    BY <2>1, <2>2, <2>3, <2>4, <2>5
<1> QED
  BY <1>3, <1>4, <1>5 DEF WaitInv, OverInv

\* The pushes that carry the lists.
LEMMA PushWaitInv ==
    ASSUME WaitInv, LoginInitPush \/ FetchInitPush \/ FetchBuildPush \/ FetchAddPush,
           UNCHANGED <<kept, stage>>, stage \in {"login", "fallback", "fetch"}
    PROVE  WaitInv'
<1> USE DEF LoginInitPush, FetchInitPush, FetchBuildPush, FetchAddPush, Reading, Running, End, LoopAgain
<1>1. /\ UNCHANGED <<wait, now, asked, kept>>
      /\ result' # "quiet"
      /\ initSeen' = initSeen \/ initSeen' = TRUE
  OBVIOUS
<1>2. ListInv'
  <2>1. /\ buildings' = buildings \/ \E bs \in BuildingPushes :
              buildings' = AppendAll(buildings, bs) \/ buildings' = AppendAll(<<>>, bs)
        /\ visitors' = visitors \/ \E vs \in VisitorPushes :
              visitors' = AppendAll(visitors, vs) \/ visitors' = AppendAll(<<>>, vs)
    OBVIOUS
  <2>2. <<>> \in Seq(Uuids \cup Uids) /\ Len(<<>>) <= MaxAggregate
    BY Budget
  <2>3. \A list \in {buildings, visitors, kept} :
           list \in Seq(Uuids \cup Uids) /\ Len(list) <= MaxAggregate
    BY DEF WaitInv, ListInv
  <2>4. buildings' \in Seq(Uuids \cup Uids) /\ Len(buildings') <= MaxAggregate
    BY <2>1, <2>2, <2>3, GatheredOf
  <2>5. visitors' \in Seq(Uuids \cup Uids) /\ Len(visitors') <= MaxAggregate
    BY <2>1, <2>2, <2>3, GatheredOf
  <2> QED
    BY <1>1, <2>3, <2>4, <2>5 DEF ListInv
<1>3. BudgetInv'
  <2>1. BudgetInv /\ (initSeen' \/ deadline' = deadline)
    BY DEF WaitInv
  <2>2. deadline' = deadline \/ (wait = "fetch" /\ deadline' = CapDeadline(now + Window))
    OBVIOUS
  <2>3. CASE deadline' = deadline
    BY <1>1, <2>1, <2>3 DEF BudgetInv, Halfway
  <2>4. CASE wait = "fetch" /\ deadline' = CapDeadline(now + Window) /\ initSeen'
    BY <1>1, <2>1, <2>4, Budget DEF BudgetInv, CapDeadline
  <2> QED
    BY <2>1, <2>2, <2>3, <2>4
<1> QED
  BY <1>1, <1>2, <1>3 DEF WaitInv, OverInv, WaitsForInit

LEMMA WaitStepInv ==
    ASSUME IInv, WaitInv, Wait
    PROVE  WaitInv'
<1>1. /\ WaitStep(link) /\ link # "quiet" /\ UNCHANGED <<kept, stage>>
      /\ stage \in {"login", "fallback", "fetch"}
  BY DEF Wait, Waiting, IInv, ShapeInv
<1> QED
  BY <1>1, LoopWaitInv, PushWaitInv DEF WaitStep, Received

LEMMA PassWaitInv ==
    ASSUME WaitInv, TimePasses
    PROVE  WaitInv'
<1>1. /\ now < ReadUntil /\ now' = now + 1 /\ result = "none"
      /\ UNCHANGED <<wait, deadline, asked, initSeen, buildings, visitors, kept, stage, result>>
  BY DEF TimePasses, Pass, Reading, Running
<1>2. BudgetInv'
  <2>1. BudgetInv
    BY DEF WaitInv
  <2>2. ReadUntil <= deadline /\ (wait = "login" /\ ~asked => ReadUntil <= Halfway)
    BY <2>1, Budget DEF ReadUntil, BudgetInv
  <2>3. ReadUntil \in Nat
    BY <2>1, Budget DEF ReadUntil, BudgetInv
  <2> QED
    BY <1>1, <2>1, <2>2, <2>3, Budget DEF BudgetInv, Halfway
<1> QED
  BY <1>1, <1>2 DEF WaitInv, ListInv, OverInv, WaitsForInit

\* The rest of a run leaves what a wait has done alone, or begins another.
LEMMA RestWaitInv ==
    ASSUME WaitInv,
           UNCHANGED <<wait, now, deadline, asked, initSeen, buildings, visitors, kept, result>>,
           result = "none" \/ stage' = stage
    PROVE  WaitInv'
BY DEF WaitInv, BudgetInv, ListInv, OverInv, WaitsForInit, Halfway

LEMMA NextWaitInv ==
    ASSUME IInv, WaitInv, [MainNext]_mainVars
    PROVE  WaitInv'
<1>1. CASE UNCHANGED mainVars
  BY <1>1, RestWaitInv DEF mainVars, pushVars
<1>2. CASE Start
  BY <1>2, FreshWait DEF Start, BeginWait
<1>3. CASE Wait
  BY <1>3, WaitStepInv
<1>4. CASE TimePasses
  BY <1>4, PassWaitInv
<1>5. CASE LoginWaited
  BY <1>5, FreshWait DEF LoginWaited, BeginWait, WaitOver
<1>6. CASE FallbackWaited \/ FetchWaited
  BY <1>6, FreshWait DEF FallbackWaited, FetchWaited, WaitOver
<1>7. CASE Notify
  <2>1. UNCHANGED <<wait, now, deadline, asked, initSeen, result>>
        /\ buildings' = <<>> /\ visitors' = <<>> /\ kept' = <<>>
    BY <1>7 DEF Notify
  <2>2. result = "none"
    BY <1>7 DEF Notify, WaitInv, OverInv
  <2> QED
    BY <2>1, <2>2, Budget DEF WaitInv, BudgetInv, ListInv, OverInv, WaitsForInit, Halfway
<1>8. CASE CollectStep \/ CollectEnds \/ Finish \/ InteractiveExit \/ Interacting \/ SignalStep
  <2>1. stage \in {"collect", "idle", "interactive"}
    BY <1>8 DEF CollectStep, CollectEnds, Finish, InteractiveExit, Interacting, SignalStep,
                Signalled, SignalCloses, SignalExit
  <2>2. result = "none"
    BY <2>1 DEF WaitInv, OverInv
  <2> QED
    BY <1>8, <2>2, RestWaitInv
       DEF CollectStep, CollectEnds, Finish, InteractiveExit, Interacting, SignalStep, Signalled,
           SignalCloses, SignalExit, pushVars
<1>9. CASE \E o \in Fatal : Break(o)
  BY <1>9, RestWaitInv DEF Break, pushVars
<1> QED
  BY <1>1, <1>2, <1>3, <1>4, <1>5, <1>6, <1>7, <1>8, <1>9 DEF MainNext, MainProceeds

\* A wait that gives up in silence has waited its whole budget for the init
\* push, and has asked for it (waitForInitPush, fetchInit), for any budgets,
\* limits and pushes.
THEOREM WaitsWholeBudget == MainSafeSpec => []WaitsForInit
<1>1. IInv /\ WaitInv /\ [MainNext]_mainVars => WaitInv'
  BY NextWaitInv
<1>2. WaitInv => WaitsForInit
  BY DEF WaitInv
<1> QED
  BY <1>1, <1>2, InitWaitInv, SpecIInv, PTL DEF MainSafeSpec
=============================================================================
