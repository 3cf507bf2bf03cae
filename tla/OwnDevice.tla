------------------------------ MODULE OwnDevice ------------------------------
(***************************************************************************)
(* The runs of this client's own device, one after the other, over one     *)
(* state directory: the base-zone Login with its redirects and its email   *)
(* binding (Login in src/internal/auth/login.go), the trade of the saved   *)
(* loginKey for a session config (src/internal/auth/owndevice.go, called   *)
(* from src/internal/app/main.go), and the gameUid and loginKey files they *)
(* read and write.  Every save, answer and connection may fail, and a run  *)
(* may crash at any step.                                                  *)
(*                                                                         *)
(* DeviceIdentity models the fourth file, the device id, and runs that     *)
(* overlap on it.  The username file is left out: only logs depend on it.  *)
(***************************************************************************)
EXTENDS Naturals

CONSTANTS
    Roles,              \* the roles of the account, one per server
    TopRole,            \* the role push.account.login.new names at its top level
    maxRedirectHops,    \* 3 in the code
    MaxShard,           \* bound: how often a role moves to another shard
    MaxRuns,            \* bound: runs started
    MaxFaults           \* bound: errors and crashes

ASSUME RolesAssumption ==
    /\ TopRole \in Roles
    /\ {"guest", "none", "account"} \cap Roles = {}

ASSUME BoundsAssumption ==
    /\ maxRedirectHops \in Nat
    /\ MaxShard \in Nat
    /\ MaxRuns \in Nat
    /\ MaxFaults \in Nat

Guest == "guest"        \* the throwaway account of a device that is not bound
NoRole == "none"
NoKey == "none"
AccountKey == "account"

\* A gameUid names a role and the shard it was on; a loginKey is the account's
\* or one role's.
Uid == [role : Roles \cup {Guest}, shard : 0 .. MaxShard]
NoUid == [role |-> NoRole, shard |-> 0]
Key == Roles \cup {AccountKey, NoKey}

VARIABLES
    uidFile,    \* the gameUid file
    keyFile,    \* the loginKey file
    config,     \* the session config that -own-device-session wrote last, and
                \* the role it was asked for on a device with none on file
    step,       \* how far the current run has come
    run,        \* its flags and its own values
    conns,      \* the connections it has open
    shard,      \* the shard each role is on
    started,    \* runs started
    faults,     \* faults left
    \* what has happened, for the properties
    bound,      \* the role of the first binding that was saved in full
    adopted     \* a Login took another role's gameUid for the one on file

stateVars == <<uidFile, keyFile, config>>
pastVars == <<bound, adopted>>
vars == <<stateVars, step, run, conns, shard, started, faults, pastVars>>

NoConfig == [uid |-> NoUid, named |-> FALSE, asked |-> NoRole]

\* The flags -own-device-session, -email and -server; what the identity is
\* loaded for; the gameUid and the loginKey; redirects followed; whether no role
\* was on file when it started.
NoRun == [trade |-> FALSE, email |-> FALSE, server |-> NoRole, for |-> "login",
          uid |-> NoUid, key |-> NoKey, hops |-> 0, fresh |-> FALSE]

NoFault == UNCHANGED faults
Fault == faults > 0 /\ faults' = faults - 1

\* The run is over, by its return or by an error.
End == step' = "off" /\ run' = NoRun

-----------------------------------------------------------------------------
(* Starting, and loading the identity. *)

\* With -email, -own-device-session first looks whether the device is bound.
Start(trade, email, server) ==
    /\ step = "off"
    /\ started < MaxRuns
    /\ started' = started + 1
    /\ step' = "load"
    /\ run' = [NoRun EXCEPT
                 !.trade = trade, !.email = email, !.server = server,
                 !.fresh = uidFile.role \notin Roles,
                 !.for = IF ~trade THEN "login" ELSE IF email THEN "look" ELSE "trade"]
    /\ NoFault
    /\ UNCHANGED <<stateVars, conns, shard, pastVars>>

\* bindOwnDevice leaves a device that holds a loginKey alone, -server and all.
AfterLook(r) ==
    IF keyFile = NoKey THEN [r EXCEPT !.for = "login"]
    ELSE [r EXCEPT !.for = "trade", !.server = NoRole]

\* LoadOrCreateDeviceIdentity: a file that cannot be read ends the run.
LoadIdentity ==
    /\ step = "load"
    /\ \/ /\ run.for = "look"
          /\ run' = AfterLook(run)
          /\ UNCHANGED step
       \/ /\ run.for # "look"
          /\ run' = [run EXCEPT !.uid = uidFile, !.key = keyFile]
          /\ step' = IF run.for = "login" THEN "gsl" ELSE "trade"
    /\ NoFault
    /\ UNCHANGED <<stateVars, conns, shard, started, pastVars>>

-----------------------------------------------------------------------------
(* GSL (not part of src): the server list it replies with. *)

\* The roles a loginKey leads to; GSL need not list every role of an account.
Reach(key) == IF key = AccountKey THEN (SUBSET Roles) \ {{}} ELSE {{key}}

\* The gameUid of a role now, or as it was a shard ago.
UidOf(role, lag) ==
    [role |-> role,
     shard |-> IF role \notin Roles THEN 0
               ELSE IF shard[role] > lag THEN shard[role] - lag ELSE 0]

\* A list may also name no gameUid at all.
ServerLists(reach) ==
    {{UidOf(role, lag) : role \in roles} : roles \in reach, lag \in {0, 1}} \cup {{NoUid}}

\* gslOptFor: opt=login with a loginKey, else opt=fix, else opt=new.
gslOptFor(r) ==
    IF r.key # NoKey THEN Reach(r.key)
    ELSE IF r.uid # NoUid THEN {{r.uid.role}}
    ELSE {{Guest}}

\* PickServer: the entry of this gameUid, else lastLoggedServer's or the first.
PickServer(uid, list) == IF uid # NoUid /\ uid \in list THEN {uid} ELSE list

\* SaveGameUid: the identity in memory and then the file; a save that fails is
\* only logged.
SaveGameUid(uid) == (uidFile' = uid /\ NoFault) \/ (uidFile' = uidFile /\ Fault)

\* Login and its redirects adopt a gameUid that they are given.
Adopt(uid, r) ==
    IF uid \in {NoUid, run.uid}
      THEN run' = r /\ NoFault /\ UNCHANGED uidFile
      ELSE run' = [r EXCEPT !.uid = uid] /\ SaveGameUid(uid)

-----------------------------------------------------------------------------
(* Login. *)

AskGsl ==
    /\ step = "gsl"
    /\ \E list \in ServerLists(gslOptFor(run)) : \E uid \in PickServer(run.uid, list) :
         /\ Adopt(uid, run)
         /\ adopted' = (adopted \/ /\ uid # NoUid
                                   /\ run.uid.role \in Roles \ {uid.role})
    /\ step' = "dial"
    /\ UNCHANGED <<keyFile, config, conns, shard, started, bound>>

Dial ==
    /\ step = "dial"
    /\ conns' = conns + 1
    /\ step' = "login"
    /\ NoFault
    /\ UNCHANGED <<stateVars, run, shard, started, pastVars>>

LoginAccepted ==
    /\ step = "login"
    /\ step' = "init"
    /\ NoFault
    /\ UNCHANGED <<stateVars, run, conns, shard, started, pastVars>>

\* A variant that does not count the servers it was sent on to.
RedirectUncounted(uid) ==
    /\ step = "login"
    /\ run.hops < maxRedirectHops
    /\ conns' = 0
    /\ Adopt(uid, run)
    /\ step' = "dial"
    /\ UNCHANGED <<keyFile, config, shard, started, pastVars>>

\* A serverInfo redirect, which may name the gameUid the role has on its new
\* shard: this connection is closed and the next server is dialed.
Redirect(uid) ==
    /\ step = "login"
    /\ run.hops < maxRedirectHops
    /\ conns' = 0
    /\ Adopt(uid, [run EXCEPT !.hops = @ + 1])
    /\ step' = "dial"
    /\ UNCHANGED <<keyFile, config, shard, started, pastVars>>

RedirectUids == {NoUid, IF run.uid = NoUid THEN NoUid ELSE UidOf(run.uid.role, 0)}

TooManyRedirects ==
    /\ step = "login"
    /\ run.hops >= maxRedirectHops
    /\ conns' = 0
    /\ End
    /\ NoFault
    /\ UNCHANGED <<stateVars, shard, started, pastVars>>

\* A variant that asks for the email code although a loginKey led it in.
AfterInitEmail(r) == IF r.email THEN "email" ELSE "in"

\* A Login by loginKey, or with no -email, is finished; -email and -server are
\* ignored on a loginKey.
AfterInit(r) == IF r.email /\ r.key = NoKey THEN "email" ELSE "in"

\* The init push came, or did not come in time: the Login goes on either way.
InitDone ==
    /\ step = "init"
    /\ step' = AfterInit(run)
    /\ NoFault
    /\ UNCHANGED <<stateVars, run, conns, shard, started, pastVars>>

\* Every step of a Login after its dial.
OnConn == {"login", "init", "email", "verify", "saveKey", "saveUid", "in"}
Waiting == {"login", "init", "email", "verify"}

\* A file that cannot be read, a request that fails, a Login or an email code
\* that is refused or not answered, a connection lost before the init push: the
\* run ends with the error and closes its connection.
Fail ==
    /\ step \in {"load", "gsl", "dial", "trade"} \cup Waiting
    /\ Fault
    /\ conns' = 0
    /\ End
    /\ UNCHANGED <<stateVars, shard, started, pastVars>>

-----------------------------------------------------------------------------
(* Binding the device by email: the requests and answers of the verification *)
(* come one after the other and change nothing before the last.  Between     *)
(* them the run waits for the operator, on stdin or on a pipe.               *)

\* readCodeFrom: the code is there, whenever the operator gives it.
EnterCode ==
    /\ step = "email"
    /\ step' = "verify"
    /\ NoFault
    /\ UNCHANGED <<stateVars, run, conns, shard, started, pastVars>>

\* pickRole: the role on the asked server, or the top-level one.
pickRole(server) == IF server = NoRole THEN TopRole ELSE server

\* push.account.login.new: an entry may carry a loginKey of its own.
TakeRole ==
    /\ step = "verify"
    /\ \E key \in {AccountKey} \cup ({run.server} \ {NoRole}) :
         run' = [run EXCEPT !.uid = UidOf(pickRole(run.server), 0), !.key = key]
    /\ step' = "saveKey"
    /\ NoFault
    /\ UNCHANGED <<stateVars, conns, shard, started, pastVars>>

\* -server names a server with no role, or with two: nothing is saved.
NoSuchRole ==
    /\ step = "verify"
    /\ run.server # NoRole
    /\ conns' = 0
    /\ End
    /\ NoFault
    /\ UNCHANGED <<stateVars, shard, started, pastVars>>

\* Two saves, the loginKey first; one that fails is only logged.
SaveKey ==
    /\ step = "saveKey"
    /\ (keyFile' = run.key /\ NoFault) \/ (keyFile' = keyFile /\ Fault)
    /\ step' = "saveUid"
    /\ UNCHANGED <<uidFile, config, run, conns, shard, started, pastVars>>

SaveUid ==
    /\ step = "saveUid"
    /\ SaveGameUid(run.uid)
    /\ bound' = IF bound = NoRole /\ keyFile = run.key /\ uidFile' = run.uid
                  THEN pickRole(run.server) ELSE bound
    /\ step' = "in"
    /\ UNCHANGED <<keyFile, config, run, conns, shard, started, adopted>>

\* A run that is logged in plays, or goes on to the trade; either way it closes
\* its connection.
Leave ==
    /\ step = "in"
    /\ conns' = 0
    /\ IF run.trade
         THEN step' = "load" /\ run' = [run EXCEPT !.for = "trade"]
         ELSE End
    /\ NoFault
    /\ UNCHANGED <<stateVars, shard, started, pastVars>>

-----------------------------------------------------------------------------
(* Trading the loginKey for a session config (BootstrapOwnDevice). *)

\* A variant that takes whatever server GSL picks.
TradeTakes(uid, named) == TRUE

\* An entry of another role is refused; one that names none cannot be told.
TradeAllows(uid, named) == named \in {NoUid, uid}

Tradable == run.key # NoKey /\ run.uid # NoUid

Trade ==
    /\ step = "trade"
    /\ Tradable
    /\ \E list \in ServerLists(Reach(run.key)) : \E named \in PickServer(run.uid, list) :
         IF TradeAllows(run.uid, named)
           THEN config' = [uid |-> IF named = NoUid THEN run.uid ELSE named,
                           named |-> named # NoUid,
                           asked |-> IF run.fresh THEN run.server ELSE NoRole]
           ELSE UNCHANGED config
    /\ End
    /\ NoFault
    /\ UNCHANGED <<uidFile, keyFile, conns, shard, started, pastVars>>

NothingToTrade ==
    /\ step = "trade"
    /\ ~Tradable
    /\ End
    /\ NoFault
    /\ UNCHANGED <<stateVars, conns, shard, started, pastVars>>

-----------------------------------------------------------------------------
Crash ==
    /\ step # "off"
    /\ Fault
    /\ conns' = 0
    /\ End
    /\ UNCHANGED <<stateVars, shard, started, pastVars>>

\* The server moves a role to another shard (not part of src).
Move(role) ==
    /\ shard[role] < MaxShard
    /\ shard' = [shard EXCEPT ![role] = @ + 1]
    /\ NoFault
    /\ UNCHANGED <<stateVars, step, run, conns, started, pastVars>>

Init ==
    /\ uidFile = NoUid
    /\ keyFile = NoKey
    /\ config = NoConfig
    /\ step = "off"
    /\ run = NoRun
    /\ conns = 0
    /\ shard = [role \in Roles |-> 0]
    /\ started = 0
    /\ faults = MaxFaults
    /\ bound = NoRole
    /\ adopted = FALSE

LoginStep ==
    \/ AskGsl \/ Dial \/ LoginAccepted \/ TooManyRedirects
    \/ (\E uid \in RedirectUids : Redirect(uid))
    \/ InitDone

BindStep == TakeRole \/ NoSuchRole \/ SaveKey \/ SaveUid

RunStep == LoadIdentity \/ LoginStep \/ BindStep \/ (run.trade /\ Leave) \/ Trade \/ NothingToTrade

\* What the operator has a say in: when the code comes, and how long a run that
\* is logged in goes on (-interactive).
OperatorStep == EnterCode \/ (~run.trade /\ Leave)

StartAny ==
    \E trade \in BOOLEAN :
        \/ Start(trade, FALSE, NoRole)
        \/ \E server \in Roles \cup {NoRole} : Start(trade, TRUE, server)

Next == StartAny \/ RunStep \/ OperatorStep \/ Fail \/ Crash \/ \E role \in Roles : Move(role)

SafeSpec == Init /\ [][Next]_vars

\* A run that was started goes on: every wait of a Login has a deadline, but the
\* one for the code.
Spec == SafeSpec /\ WF_vars(RunStep)

-----------------------------------------------------------------------------
(* Properties. *)

Steps == OnConn \cup {"off", "load", "gsl", "dial", "trade"}

Runs == [trade : BOOLEAN, email : BOOLEAN, server : Roles \cup {NoRole},
         for : {"look", "login", "trade"}, uid : Uid \cup {NoUid}, key : Key,
         hops : 0 .. maxRedirectHops, fresh : BOOLEAN]

Configs == [uid : Uid \cup {NoUid}, named : BOOLEAN, asked : Roles \cup {NoRole}]

TypeOK ==
    /\ uidFile \in Uid \cup {NoUid}
    /\ keyFile \in Key
    /\ config \in Configs
    /\ step \in Steps
    /\ run \in Runs
    /\ conns \in Nat
    /\ shard \in [Roles -> 0 .. MaxShard]
    /\ started \in 0 .. MaxRuns
    /\ faults \in 0 .. MaxFaults
    /\ bound \in Roles \cup {NoRole}
    /\ adopted \in BOOLEAN

\* A run holds one connection while it logs in and plays, and none before it
\* dials, between two servers of a redirect, and after any error.
OneConnection == conns = IF step \in OnConn THEN 1 ELSE 0

\* Once a binding was saved in full, the gameUid and the loginKey on file are
\* that role's for good, whatever the later runs ask for and whichever of their
\* steps fail or crash, unless a Login adopted another role from GSL's list.
BindingKept ==
    bound # NoRole /\ ~adopted => uidFile.role = bound /\ keyFile \in {bound, AccountKey}

\* A run that binds a device with no role on file, with -server, and goes on to
\* write a session config writes the config of the role it was asked for, also
\* when one of the binding's two saves failed.
AskedRoleTraded ==
    config.asked # NoRole /\ config.named => config.uid.role = config.asked

\* Every run ends, however often the servers redirect it, unless it waits for its
\* code for ever or is logged in and kept by the operator.
RunsEnd ==
    step # "off" ~>
        \/ step = "off"
        \/ [](step = "email")
        \/ [](step = "in" /\ ~run.trade)
=============================================================================
