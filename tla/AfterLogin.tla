----------------------------- MODULE AfterLogin -----------------------------
(***************************************************************************)
(* A run from the moment its Login is answered to its exit code: the wait  *)
(* for the init push, the fallback fetch, the collect run or one feature,  *)
(* and interactive mode (main and runCrossServerTest in                    *)
(* src/internal/app/main.go), on both login paths.                         *)
(*                                                                         *)
(* The waits are InitPush, the interactive mode Interactive; of collecting *)
(* only what it promises is used (CollectPromise), which CollectCore and   *)
(* FeatureRun keep.                                                        *)
(***************************************************************************)
EXTENDS InitPush, CollectPromise, Interactive, FiniteSets

VARIABLES
    path,   \* "email" (auth.Login) or "cross" (runCrossServerTest)
    mode,   \* "print", "collect" or "run" (-run, one feature)
    inter,  \* -interactive was given
    stage,  \* "start", "login", "fallback", "fetch", "notify", "collect", "idle",
            \* "interactive", "exited"
    got,    \* the init push was taken (by login's wait, on the email path)
    kept,   \* the visitors login's own init push named
    told,   \* check.device.change has been sent
    known,  \* every failure main was told of, for the properties
    code    \* the exit code

runVars == <<path, mode, inter>>
mainVars == <<pushVars, promiseVars, interactiveVars, runVars, stage, got, kept, told, known, code>>

MainInit ==
    /\ InitPushIdle
    /\ link = "up"
    /\ part = "done"
    /\ errs = {}
    /\ InteractiveOff
    /\ path \in {"email", "cross"}
    /\ mode \in IF path = "cross" THEN {"print", "collect", "run"} ELSE {"print", "collect"}
    /\ inter \in BOOLEAN
    /\ stage = "start"
    /\ got = FALSE
    /\ kept = <<>>
    /\ told = FALSE
    /\ known = {}
    /\ code = 0

-----------------------------------------------------------------------------

ExitWith(c) == stage' = "exited" /\ code' = c
Told(es) == known' = known \cup es
GoOnTo(s) == stage' = s /\ UNCHANGED code

\* What an error of a wait is to its caller: "flooded" is an error of fetchInit only.
WaitErrors == IF result \in {"flooded", "dead", "ended"} THEN {result} ELSE {}

\* A variant that takes an ended session for a failed request.
JudgeAlike(es, next) ==
    IF "dead" \in es \/ (es # {} /\ ~inter) THEN ExitWith(1) ELSE GoOnTo(next)

\* exitIfSessionEnded, then shouldAbortBeforeInteractive.
Judge(es, next) ==
    IF "ended" \in es THEN ExitWith(3)
    ELSE IF "dead" \in es \/ (es # {} /\ ~inter) THEN ExitWith(1)
    ELSE GoOnTo(next)

Start ==
    /\ stage = "start"
    /\ \/ path = "email" /\ GoOnTo("login") /\ BeginWait("login")
       \/ path = "cross" /\ GoOnTo("fetch") /\ BeginWait("fetch")
    /\ UNCHANGED <<promiseVars, interactiveVars, runVars, got, kept, told, known>>

Waiting == stage \in {"login", "fallback", "fetch"} /\ result = "none"
Waited(s) == stage = s /\ result # "none"

Wait ==
    /\ Waiting
    /\ WaitStep(link)
    /\ UNCHANGED <<promiseVars, interactiveVars, runVars, stage, got, kept, told, known, code>>

TimePasses ==
    /\ Waiting
    /\ Pass
    /\ UNCHANGED <<promiseVars, interactiveVars, runVars, stage, got, kept, told, known, code>>

\* A wait leaves its lists to what follows it, and nothing else.
WaitOver ==
    /\ wait' = "none"
    /\ reading' = FALSE
    /\ now' = 0
    /\ deadline' = Timeout
    /\ asked' = FALSE
    /\ initSeen' = FALSE
    /\ bad' = 0
    /\ other' = 0
    /\ result' = "none"

\* login.go after its wait: without the push the run goes on, on a broken
\* connection it is over (exitLoginFailed).  Without buildings main waits again.
LoginWaited ==
    /\ Waited("login")
    /\ got' = initSeen
    /\ kept' = visitors
    /\ IF result \notin Fatal /\ buildings = <<>> THEN GoOnTo("fallback") /\ BeginWait("fetch")
       ELSE /\ IF result = "ended" THEN ExitWith(3) ELSE IF result = "dead" THEN ExitWith(1) ELSE GoOnTo("notify")
            /\ WaitOver
            /\ UNCHANGED <<buildings, visitors>>
    /\ Told({result} \cap Fatal)
    /\ UNCHANGED <<promiseVars, interactiveVars, runVars, told>>

\* main's fallback: the visitors of login's own push stay.
FallbackWaited ==
    /\ Waited("fallback")
    /\ visitors' = IF kept = <<>> THEN visitors ELSE kept
    /\ Judge(WaitErrors, "notify")
    /\ Told(WaitErrors)
    /\ WaitOver
    /\ UNCHANGED <<promiseVars, interactiveVars, runVars, buildings, got, kept, told>>

FetchWaited ==
    /\ Waited("fetch")
    /\ got' = initSeen
    /\ Judge(WaitErrors, "notify")
    /\ Told(WaitErrors)
    /\ WaitOver
    /\ UNCHANGED <<promiseVars, interactiveVars, runVars, buildings, visitors, kept, told>>

\* sendCheckDeviceChange, whose failure is only logged; then collecting, or the
\* one feature, begins.
Notify ==
    /\ stage = "notify"
    /\ told' = (got \/ (path = "email" /\ buildings # <<>>))
    /\ buildings' = <<>>
    /\ visitors' = <<>>
    /\ kept' = <<>>
    /\ GoOnTo(IF mode = "print" THEN "idle" ELSE "collect")
    /\ part' = CASE mode = "print" -> "done" [] mode = "collect" -> "core" [] mode = "run" -> "features"
    /\ UNCHANGED <<link, errs, wait, reading, now, deadline, asked, initSeen, bad, other,
                   result, interactiveVars, runVars, got, known>>

\* The requests of the core and of the features; CollectAll, on the email path,
\* has no features.
CollectStep ==
    /\ stage = "collect"
    /\ PromiseNext
    /\ path = "email" => part # "features"
    /\ UNCHANGED <<pushVars, interactiveVars, runVars, stage, got, kept, told, known, code>>

CollectOver == part = "done" \/ (path = "email" /\ part = "features")

\* One feature's error ends the run, -interactive or not.
JudgeFeature(es) ==
    IF "ended" \in es THEN ExitWith(3) ELSE IF es # {} THEN ExitWith(1) ELSE ExitWith(0)

CollectEnds ==
    /\ stage = "collect"
    /\ CollectOver
    /\ IF mode = "run" THEN JudgeFeature(errs) ELSE Judge(errs, "idle")
    /\ Told(errs)
    /\ part' = "done"
    /\ UNCHANGED <<link, errs, pushVars, interactiveVars, runVars, got, kept, told>>

\* What is left: interactive mode, or the end.
Finish ==
    /\ stage = "idle"
    /\ \/ ~inter /\ ExitWith(0) /\ UNCHANGED interactiveVars
       \/ inter /\ GoOnTo("interactive") /\ InteractiveBegin
    /\ UNCHANGED <<promiseVars, pushVars, runVars, got, kept, told, known>>

-----------------------------------------------------------------------------
(* Interactive mode, and what happens to the connection. *)

Interacting ==
    /\ stage = "interactive"
    /\ MainStep(link)
    /\ UNCHANGED <<promiseVars, pushVars, runVars, stage, got, kept, told, known, code>>

\* os.Exit after the failure was judged (exitIfSessionEnded for a line's), or
\* the caller's own return.
InteractiveExit ==
    /\ stage = "interactive"
    /\ \/ ipc = "returned" /\ ExitWith(0)
       \/ ipc = "fatal" /\ ExitWith(IF cause = "ended" THEN 3 ELSE 1)
    /\ Told({cause} \ {"none"})
    /\ UNCHANGED <<promiseVars, pushVars, interactiveVars, runVars, got, kept, told>>

Signalled ==
    /\ stage = "interactive"
    /\ CatchSignal \/ StoreFlag
    /\ UNCHANGED <<promiseVars, pushVars, runVars, stage, got, kept, told, known, code>>

\* The signal goroutine closes the connection under the reader.
SignalCloses ==
    /\ stage = "interactive"
    /\ CloseConn
    /\ link' = "closed"
    /\ UNCHANGED <<part, errs, pushVars, runVars, stage, got, kept, told, known, code>>

SignalExit ==
    /\ stage = "interactive"
    /\ sig = "closed"
    /\ ExitWith(0)
    /\ UNCHANGED <<promiseVars, pushVars, interactiveVars, runVars, got, kept, told, known>>

\* The connection is lost, or the server ends the session, outside a request.
Break(o) ==
    /\ Waiting \/ stage = "interactive"
    /\ link = "up"
    /\ link' = o
    /\ UNCHANGED <<part, errs, pushVars, interactiveVars, runVars, stage, got, kept, told, known, code>>

\* What the run itself does, but for the passing of time in its waits.
MainProceeds ==
    \/ Start
    \/ Wait
    \/ LoginWaited
    \/ FallbackWaited
    \/ FetchWaited
    \/ Notify
    \/ CollectStep
    \/ CollectEnds
    \/ Finish
    \/ InteractiveExit

SignalStep == Signalled \/ SignalCloses \/ SignalExit

MainNext ==
    \/ MainProceeds
    \/ TimePasses
    \/ Interacting
    \/ SignalStep
    \/ \E o \in Fatal : Break(o)

MainSafeSpec == MainInit /\ [][MainNext]_mainVars

\* Each step of the run is taken in the end, time passes while a wait reads,
\* however many pushes come in between, and the signal goroutine goes on.
Fairness == WF_mainVars(MainProceeds) /\ SF_mainVars(TimePasses) /\ WF_mainVars(SignalStep)

MainSpec == MainSafeSpec /\ Fairness

-----------------------------------------------------------------------------
(* Properties. *)

\* A wait that gives up in silence has waited for init its whole budget: the
\* login wait has asked for it by then, and no other push has cut the fetch
\* short (a full list ends it).
WaitsForInit ==
    result = "quiet" /\ ~initSeen =>
        /\ wait = "login" => asked
        /\ now = Timeout \/ MaxAggregate \in {Len(buildings), Len(visitors)}

\* Unless a signal ended it, the exit code tells what main was told: 3 if the
\* server ended the session, 1 for any other failure that counts, 0 only
\* without one.  On a run that stays connected only a lost connection counts
\* (and -run's own errors), and it does come to interactive mode otherwise.
ExitTellsAll ==
    stage = "exited" =>
        /\ sig = "none" =>
              code = IF "ended" \in known THEN 3
                     ELSE IF \/ known \cap {"dead", "pipe"} # {}
                             \/ known # {} /\ ~inter
                             \/ errs # {} /\ mode = "run"
                     THEN 1 ELSE 0
        /\ inter /\ mode # "run" /\ known \cap Fatal = {} => ipc # "off"

\* The main goroutine never exits with a failure that is the signal goroutine's
\* own close of the connection.
NeverBlamesShutdown == stage = "exited" /\ code # 0 => cause # "closed"

\* Every run ends or comes to interactive mode (no stream of pushes, and no
\* silence, holds a wait for ever), and there a signal ends the process wherever
\* the main goroutine is.
RunEnds ==
    /\ <>(stage \in {"interactive", "exited"})
    /\ sig = "caught" ~> stage = "exited"
=============================================================================
