----------------------------- MODULE SessionUse -----------------------------
(***************************************************************************)
(* What one game connection promises the code that uses it, seen from the  *)
(* main goroutine: requests are issued one at a time, every request is     *)
(* settled (answered, or given up without harm), and only a failure that    *)
(* also ends the session may leave the connection broken, so that no       *)
(* request is ever issued on a broken one.                                 *)
(*                                                                         *)
(* This is the abstract specification; GameConn implements it.             *)
(***************************************************************************)
VARIABLES
    over,       \* no further request will be issued on this connection
    pending,    \* a request is out and not yet settled
    broken      \* the stream is out of step, or the server has ended the session

vars == <<over, pending, broken>>

Init ==
    /\ over = FALSE
    /\ pending = FALSE
    /\ broken = FALSE

\* The caller issues a request; it never has two out at once.
Ask ==
    /\ ~over
    /\ ~pending
    /\ pending' = TRUE
    /\ UNCHANGED <<over, broken>>

\* The request came to an end that leaves the connection usable.
Settle ==
    /\ pending
    /\ pending' = FALSE
    /\ UNCHANGED <<over, broken>>

\* The request failed in a way that ends the session.
Fail ==
    /\ pending
    /\ pending' = FALSE
    /\ over' = TRUE
    /\ broken' \in BOOLEAN

\* The caller is finished with the connection.
Leave ==
    /\ ~over
    /\ ~pending
    /\ over' = TRUE
    /\ UNCHANGED <<pending, broken>>

Next == Ask \/ Settle \/ Fail \/ Leave

SafeSpec == Init /\ [][Next]_vars

Spec == SafeSpec /\ WF_vars(Settle \/ Fail)
=============================================================================
