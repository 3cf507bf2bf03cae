---------------------------- MODULE Interactive ----------------------------
(***************************************************************************)
(* Interactive mode (RunInteractive in src/internal/app/interactive.go):   *)
(* one goroutine opens the control pipe, reads command lines from it and   *)
(* sends each, the other waits for a signal to end the process.  They      *)
(* share the connection and interactiveShuttingDown.                       *)
(***************************************************************************)
EXTENDS Integers

CONSTANT Retries    \* controlPipeRetries (5 in the code)

ASSUME InteractiveAssumption == Retries \in Nat

VARIABLES
    ipc,        \* where the main goroutine is: "off", "stat", "open", "scan",
                \* "send", "answer", "failed" (the pipe, or a line), "fatal",
                \* "returned"
    tries,      \* attempts of the stat or open that runs
    scanErrs,   \* consecutiveScanErrors
    cause,      \* why it failed: "none", "pipe", or the connection's state
    sig,        \* the signal goroutine: "none", "caught", "stored", "closed"
    stopping    \* interactiveShuttingDown

interactiveVars == <<ipc, tries, scanErrs, cause, sig, stopping>>

InteractiveOff ==
    /\ ipc = "off"
    /\ tries = 0
    /\ scanErrs = 0
    /\ cause = "none"
    /\ sig = "none"
    /\ stopping = FALSE

\* The mode begins with the signal handler in place.
InteractiveBegin == ipc' = "stat" /\ UNCHANGED <<tries, scanErrs, cause, sig, stopping>>

-----------------------------------------------------------------------------
(* The main goroutine. *)

\* statControlPipeWithRetry, openControlPipeWithRetry: one attempt; the pipe
\* being opened, the open waits for a writer.
Attempt(next) ==
    \/ ipc' = next /\ tries' = 0 /\ UNCHANGED cause
    \/ IF tries < Retries THEN tries' = tries + 1 /\ UNCHANGED <<ipc, cause>>
       ELSE tries' = 0 /\ ipc' = "failed" /\ cause' = "pipe"

Stat == ipc = "stat" /\ Attempt("open") /\ UNCHANGED <<scanErrs, sig, stopping>>

\* What is there is not a FIFO: no retry.
StatNotFifo ==
    /\ ipc = "stat"
    /\ tries' = 0
    /\ ipc' = "failed"
    /\ cause' = "pipe"
    /\ UNCHANGED <<scanErrs, sig, stopping>>

OpenPipe == ipc = "open" /\ Attempt("scan") /\ UNCHANGED <<scanErrs, sig, stopping>>

\* A line that is a command; any other line is logged and dropped.
ReadLine == ipc = "scan" /\ ipc' = "send" /\ UNCHANGED <<tries, scanErrs, cause, sig, stopping>>

\* The writers are gone: the pipe is opened again.
PipeEnds ==
    /\ ipc = "scan"
    /\ ipc' = "stat"
    /\ scanErrs' = 0
    /\ UNCHANGED <<tries, cause, sig, stopping>>

PipeScanError ==
    /\ ipc = "scan"
    /\ scanErrs' = scanErrs + 1
    /\ IF scanErrs' > Retries THEN ipc' = "failed" /\ cause' = "pipe"
       ELSE ipc' = "stat" /\ UNCHANGED cause
    /\ UNCHANGED <<tries, sig, stopping>>

\* SendExtension: a session the server ended is told only by reading.
SendLine(link) ==
    /\ ipc = "send"
    /\ IF link \in {"dead", "closed"} THEN ipc' = "failed" /\ cause' = link
       ELSE ipc' = "answer" /\ UNCHANGED cause
    /\ UNCHANGED <<tries, scanErrs, sig, stopping>>

\* WaitForCmd: an answer, or none within the time, and the next line is read;
\* anything else ends the mode.
AnswerLine(link) ==
    /\ ipc = "answer"
    /\ IF link = "up" THEN ipc' = "scan" /\ UNCHANGED cause ELSE ipc' = "failed" /\ cause' = link
    /\ UNCHANGED <<tries, scanErrs, sig, stopping>>

\* A variant of CheckStopping that does not look at the flag.
DieAtOnce ==
    /\ ipc = "failed"
    /\ ipc' = "fatal"
    /\ UNCHANGED <<tries, scanErrs, cause, sig, stopping>>

\* A failure of the process's own shutdown is none: the pipe's ends the mode
\* (and the caller exits 0), a line's is dropped.
CheckStopping ==
    /\ ipc = "failed"
    /\ \/ ~stopping /\ ipc' = "fatal" /\ UNCHANGED cause
       \/ stopping /\ cause = "pipe" /\ ipc' = "returned" /\ UNCHANGED cause
       \/ stopping /\ cause # "pipe" /\ ipc' = "scan" /\ cause' = "none"
    /\ UNCHANGED <<tries, scanErrs, sig, stopping>>

MainStep(link) ==
    \/ Stat
    \/ StatNotFifo
    \/ OpenPipe
    \/ ReadLine
    \/ PipeEnds
    \/ PipeScanError
    \/ SendLine(link)
    \/ AnswerLine(link)
    \/ CheckStopping

-----------------------------------------------------------------------------
(* The signal goroutine: SIGINT or SIGTERM, the flag, the connection, exit 0. *)

CatchSignal ==
    /\ ipc # "off"
    /\ sig = "none"
    /\ sig' = "caught"
    /\ UNCHANGED <<ipc, tries, scanErrs, cause, stopping>>

StoreFlag ==
    /\ sig = "caught"
    /\ sig' = "stored"
    /\ stopping' = TRUE
    /\ UNCHANGED <<ipc, tries, scanErrs, cause>>

CloseConn ==
    /\ sig = "stored"
    /\ sig' = "closed"
    /\ UNCHANGED <<ipc, tries, scanErrs, cause, stopping>>

=============================================================================
