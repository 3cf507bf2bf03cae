--------------------------- MODULE DeviceIdentity ---------------------------
(***************************************************************************)
(* The device-id file of a state directory and the runs that load it       *)
(* (LoadOrCreateDeviceIdentity in src/internal/auth/identity.go), as any   *)
(* number of runs may at the same time: reading it, drawing an id when     *)
(* there is none, publishing that id by an exclusive link, and replacing   *)
(* an empty file that stays empty.                                         *)
(*                                                                         *)
(* The names leave those of OwnDevice free, which uses the device the file *)
(* names: the theorems of both are in DeviceProofs.                        *)
(***************************************************************************)
EXTENDS Naturals

CONSTANTS
    Procs,              \* the runs (processes) that share the directory
    Ids,                \* device ids
    RereadAttempts,     \* deviceIDEmptyRetryAttempts (3 in the code)
    MaxIOFaults           \* bound: I/O errors, refusals and crashes

ASSUME IdsAssumption == Ids # {} /\ {"missing", "empty", "none"} \cap Ids = {}

ASSUME LimitsAssumption == RereadAttempts \in Nat \ {0} /\ MaxIOFaults \in Nat

Missing == "missing"
Empty == "empty"
NoId == "none"

VARIABLES
    file,       \* the device-id file: missing, empty, or an id
    at,         \* where each run's load is
    own,        \* the id each run has drawn or read
    tries,      \* reads of an existing but empty file
    ioFaults,     \* faults left
    leftover    \* the file was empty to begin with

idVars == <<file, at, own, tries, leftover>>
idAllVars == <<idVars, ioFaults>>

Loading == {"read", "temp", "link", "reread", "heal"}

IdInit ==
    /\ file \in Ids \cup {Missing, Empty}
    /\ at = [p \in Procs |-> "idle"]
    /\ own = [p \in Procs |-> NoId]
    /\ tries = [p \in Procs |-> 0]
    /\ ioFaults = MaxIOFaults
    /\ leftover = (file = Empty)

NoIOFault == UNCHANGED ioFaults

IOFault ==
    /\ ioFaults > 0
    /\ ioFaults' = ioFaults - 1

-----------------------------------------------------------------------------
\* A run starts to load the identity; one run may do so several times.
Load(p) ==
    /\ at[p] \in {"idle", "known"}
    /\ at' = [at EXCEPT ![p] = "read"]
    /\ own' = [own EXCEPT ![p] = NoId]
    /\ UNCHANGED <<file, tries, leftover>>

\* 16 random bytes: no id that any run holds or the file has.
Fresh == Ids \ ({own[q] : q \in Procs} \cup {file})

Know(p, id) ==
    /\ own' = [own EXCEPT ![p] = id]
    /\ at' = [at EXCEPT ![p] = "known"]

\* A file that is missing or empty gives no id: one is drawn.
ReadId(p) ==
    /\ at[p] = "read"
    /\ IF file \in Ids
         THEN Know(p, file)
         ELSE /\ own' \in {[own EXCEPT ![p] = id] : id \in Fresh}
              /\ at' = [at EXCEPT ![p] = "temp"]
    /\ UNCHANGED <<file, tries, leftover>>

\* writeTempStateFile: the whole id goes to a file of its own, and to the disk,
\* before the device-id file is touched.
WriteTemp(p) ==
    /\ at[p] = "temp"
    /\ at' = [at EXCEPT ![p] = "link"]
    /\ UNCHANGED <<file, own, tries, leftover>>

\* createDeviceIDStateFile publishes by os.Link, which fails when the file is
\* there: somebody else wrote it in between, or it is an empty leftover.
Link(p) ==
    /\ at[p] = "link"
    /\ IF file = Missing
         THEN /\ file' = own[p]
              /\ at' = [at EXCEPT ![p] = "known"]
              /\ UNCHANGED tries
         ELSE /\ at' = [at EXCEPT ![p] = "reread"]
              /\ tries' = [tries EXCEPT ![p] = 1]
              /\ UNCHANGED file
    /\ UNCHANGED <<own, leftover>>

\* A variant that gives up on a file that stays empty.
RereadGiveUp(p) ==
    /\ at[p] = "reread"
    /\ IF file \in Ids THEN Know(p, file)
       ELSE /\ at' = [at EXCEPT ![p] = "failed"]
            /\ UNCHANGED own
    /\ UNCHANGED <<file, tries, leftover>>

\* The id another run wrote is taken; a file that is empty at every attempt is
\* a leftover.
Reread(p) ==
    /\ at[p] = "reread"
    /\ IF file \in Ids
         THEN Know(p, file) /\ UNCHANGED tries
         ELSE /\ IF tries[p] < RereadAttempts
                   THEN tries' = [tries EXCEPT ![p] = @ + 1] /\ UNCHANGED at
                   ELSE at' = [at EXCEPT ![p] = "heal"] /\ UNCHANGED tries
              /\ UNCHANGED own
    /\ UNCHANGED <<file, leftover>>

\* AtomicWriteStateFile: the rename replaces whatever is there by now.
Heal(p) ==
    /\ at[p] = "heal"
    /\ file' = own[p]
    /\ at' = [at EXCEPT ![p] = "known"]
    /\ UNCHANGED <<own, tries, leftover>>

\* A variant that takes any failed read for a file that is not there.
FailAsMissing(p) ==
    /\ at[p] \in Loading
    /\ IOFault
    /\ own' \in {[own EXCEPT ![p] = id] : id \in Fresh}
    /\ at' = [at EXCEPT ![p] = "heal"]
    /\ UNCHANGED <<file, tries, leftover>>

\* Any error but "no such file" and "file exists" ends the load: a file that
\* cannot be read is never replaced.
FailLoad(p) ==
    /\ at[p] \in Loading
    /\ IOFault
    /\ at' = [at EXCEPT ![p] = "failed"]
    /\ UNCHANGED <<file, own, tries, leftover>>

\* The run is over, whatever it was doing.
Drop(p) ==
    /\ at' = [at EXCEPT ![p] = "idle"]
    /\ own' = [own EXCEPT ![p] = NoId]
    /\ UNCHANGED <<file, tries, leftover>>

LoadStep(p) == ReadId(p) \/ WriteTemp(p) \/ Link(p) \/ Reread(p) \/ Heal(p)

IdNext == \E p \in Procs :
    \/ (Load(p) \/ LoadStep(p) \/ Drop(p)) /\ NoIOFault
    \/ FailLoad(p)

IdSafeSpec == IdInit /\ [][IdNext]_idAllVars

\* A load goes on: its calls return, and its rereads are a few sleeps apart.
IdFairness == \A p \in Procs : WF_idAllVars(LoadStep(p) /\ NoIOFault)

IdSpec == IdSafeSpec /\ IdFairness

-----------------------------------------------------------------------------
(* Properties. *)

AtValues == Loading \cup {"idle", "known", "failed"}

IdTypeOK ==
    /\ file \in Ids \cup {Missing, Empty}
    /\ at \in [Procs -> AtValues]
    /\ own \in [Procs -> Ids \cup {NoId}]
    /\ tries \in [Procs -> 0 .. RereadAttempts]
    /\ ioFaults \in 0 .. MaxIOFaults
    /\ leftover \in BOOLEAN

\* Every run goes by the id on file, however many of them start, race, fail and
\* crash at the same time, unless the file was an empty leftover to begin with.
OneIdentity == leftover \/ \A p \in Procs : at[p] = "known" => own[p] = file

\* A load fails only by an error of its own: an empty file, which an earlier
\* crash may have left behind, never stops a run for good.
FailsByFaultOnly == (\E p \in Procs : at[p] = "failed") => ioFaults < MaxIOFaults

\* The state directory as its runs see it.
Device == INSTANCE OneDevice WITH
    id <- IF file \in Ids THEN file ELSE NoId,
    known <- [p \in Procs |-> IF at[p] = "known" THEN own[p] ELSE NoId]

\* The loads keep the promise of one device id.
ImplementsOneDevice == Device!Spec
=============================================================================
