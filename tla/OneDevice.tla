------------------------------ MODULE OneDevice ------------------------------
(***************************************************************************)
(* What the device identity promises to the runs that share a state        *)
(* directory: there is one device id, drawn by the first run that needs    *)
(* one, and every run learns that id.  The one exception is a directory    *)
(* that an empty device-id file was left in: runs that meet it at the same *)
(* time may replace each other's id.                                       *)
(*                                                                         *)
(* This is the abstract specification; DeviceIdentity implements it.       *)
(***************************************************************************)
CONSTANTS Procs, Ids, NoId

VARIABLES
    id,         \* the device id, or NoId before there is one
    known,      \* the id each run goes by, or NoId
    leftover    \* an empty file was there to begin with

vars == <<id, known, leftover>>

Init ==
    /\ id \in Ids \cup {NoId}
    /\ known = [p \in Procs |-> NoId]
    /\ leftover \in BOOLEAN
    /\ leftover => id = NoId

Create(p) ==
    /\ id = NoId
    /\ id' \in Ids
    /\ known' = [known EXCEPT ![p] = id']
    /\ UNCHANGED leftover

Learn(p) ==
    /\ id # NoId
    /\ known' = [known EXCEPT ![p] = id]
    /\ UNCHANGED <<id, leftover>>

\* Only where an empty file was left behind.
Replace(p) ==
    /\ leftover
    /\ id # NoId
    /\ id' \in Ids
    /\ known' = [known EXCEPT ![p] = id']
    /\ UNCHANGED leftover

Forget(p) ==
    /\ known' = [known EXCEPT ![p] = NoId]
    /\ UNCHANGED <<id, leftover>>

Next == \E p \in Procs : Create(p) \/ Learn(p) \/ Replace(p) \/ Forget(p)

Spec == Init /\ [][Next]_vars
=============================================================================
