---------------------------- MODULE DeviceProofs ----------------------------
(***************************************************************************)
(* Proofs about OwnDevice, for any roles and any limits and bounds: its    *)
(* type invariant, that a run holds one connection, that a saved binding   *)
(* is kept, and that a fresh device's session config is of the role that   *)
(* was asked for.                                                          *)
(*                                                                         *)
(* The last two are about files that are written at different steps and by *)
(* different runs.  IInv adds to them what the current run knows of those  *)
(* files at each step: FlowInv how its own values relate to them, BindInv  *)
(* and RoleInv what it can do to a binding that is there, AskInv how far a *)
(* binding with -server has come.                                          *)
(***************************************************************************)
EXTENDS OwnDevice, DeviceIdentity, TLAPS

LoggingIn == {"gsl", "dial", "login", "init"}
Binding == {"email", "verify", "saveKey", "saveUid"}

\* What the run holds and what is on file.
FlowInv ==
    /\ run.for \in {"look", "trade"} => run.trade
    /\ step = "load" /\ run.for = "look" => run.email
    /\ step = "trade" => run.for = "trade" /\ run.key = keyFile /\ run.uid = uidFile
    /\ step \in LoggingIn => run.key = keyFile
    /\ step \in {"email", "verify", "saveKey"} => keyFile = NoKey
    /\ step = "saveUid" => keyFile \in {NoKey, run.key}
    /\ step \in {"saveKey", "saveUid"} =>
          /\ run.uid.role = pickRole(run.server)
          /\ run.key \in {AccountKey, pickRole(run.server)}

\* A device that is bound holds a loginKey and is not bound again.
BindInv == bound # NoRole => keyFile # NoKey /\ step \notin Binding

\* A Login on a bound device goes by the role on file.
RoleInv == bound # NoRole /\ ~adopted /\ step \in LoggingIn => run.uid.role = bound

\* Up to the binding a fresh device has no loginKey and no role on file; from
\* then on it has none or the one that was asked for.
Asking == step # "off" /\ run.trade /\ run.fresh /\ run.server # NoRole

Unbound == step \in LoggingIn \cup Binding \/ (step = "load" /\ run.for # "trade")

AskInv ==
    Asking =>
        /\ run.email
        /\ Unbound => uidFile.role \notin Roles
        /\ step \in LoggingIn \cup {"email", "verify"} => run.key = NoKey /\ run.uid.role \notin Roles
        /\ step = "load" /\ run.for = "login" => keyFile = NoKey
        /\ ~Unbound /\ uidFile.role \in Roles => uidFile.role = run.server

IInv ==
    /\ TypeOK
    /\ OneConnection
    /\ FlowInv
    /\ BindInv
    /\ RoleInv
    /\ BindingKept
    /\ AskInv
    /\ AskedRoleTraded

\* No role is mistaken for the guest, the account's key or for none.
LEMMA RolesApart ==
    /\ Guest \notin Roles /\ NoRole \notin Roles /\ AccountKey \notin Roles
    /\ NoKey \notin Roles /\ AccountKey # NoKey /\ Guest # NoRole
BY RolesAssumption DEF Guest, NoRole, AccountKey, NoKey

LEMMA Limits == maxRedirectHops \in Nat /\ MaxShard \in Nat /\ MaxRuns \in Nat /\ MaxFaults \in Nat
BY BoundsAssumption

\* What the type invariant says of the run's fields.
LEMMA RunTypes ==
    ASSUME TypeOK
    PROVE  /\ run.trade \in BOOLEAN /\ run.email \in BOOLEAN /\ run.fresh \in BOOLEAN
           /\ run.server \in Roles \cup {NoRole}
           /\ run.for \in {"look", "login", "trade"}
           /\ run.uid \in Uid \cup {NoUid}
           /\ run.key \in Key
           /\ run.hops \in 0 .. maxRedirectHops
           /\ run = [trade |-> run.trade, email |-> run.email, server |-> run.server,
                     for |-> run.for, uid |-> run.uid, key |-> run.key, hops |-> run.hops,
                     fresh |-> run.fresh]
BY DEF TypeOK, Runs

\* NoUid is no role's.
LEMMA NoUidRole == NoUid.role = NoRole /\ \A u \in Uid : u.role \in Roles \cup {Guest} /\ u # NoUid
BY RolesApart DEF NoUid, Uid

\* The gameUid of a role is one.
LEMMA UidOfType ==
    ASSUME TypeOK, NEW role \in Roles \cup {Guest}, NEW lag \in {0, 1}
    PROVE  UidOf(role, lag) \in Uid /\ UidOf(role, lag).role = role
BY RolesApart, Limits DEF TypeOK, UidOf, Uid

\* A server list names gameUids of the roles that were asked for, or none.
LEMMA ServerListType ==
    ASSUME TypeOK, NEW reach \in SUBSET SUBSET (Roles \cup {Guest}),
           NEW list \in ServerLists(reach), NEW uid \in Uid \cup {NoUid},
           NEW u \in PickServer(uid, list)
    PROVE  u = NoUid \/ (u \in Uid /\ \E roles \in reach : u.role \in roles)
<1>1. u \in list
  BY DEF PickServer
<1>2. CASE list = {NoUid}
  BY <1>1, <1>2
<1>3. CASE list # {NoUid}
  <2>1. PICK roles \in reach, lag \in {0, 1} : list = {UidOf(role, lag) : role \in roles}
    BY <1>3 DEF ServerLists
  <2>2. PICK role \in roles : u = UidOf(role, lag)
    BY <1>1, <2>1
  <2>3. roles \in SUBSET (Roles \cup {Guest})
    OBVIOUS
  <2>4. role \in Roles \cup {Guest}
    BY <2>3
  <2>5. u \in Uid /\ u.role = role
    BY <2>2, <2>4, UidOfType
  <2> QED
    BY <2>1, <2>2, <2>5
<1> QED
  BY <1>2, <1>3

\* A loginKey leads to roles, and a Login to the roles of its key or gameUid.
LEMMA ReachType ==
    ASSUME NEW key \in Key \ {NoKey}
    PROVE  Reach(key) \in SUBSET SUBSET Roles
BY DEF Reach, Key

LEMMA GslType ==
    ASSUME TypeOK
    PROVE  /\ gslOptFor(run) \in SUBSET SUBSET (Roles \cup {Guest})
           /\ run.key = NoKey /\ run.uid.role \notin Roles => gslOptFor(run) = {{Guest}}
<1> USE RunTypes, RolesApart, NoUidRole
<1>1. CASE run.key # NoKey
  BY <1>1, ReachType DEF gslOptFor
<1>2. CASE run.key = NoKey /\ run.uid # NoUid
  BY <1>2 DEF gslOptFor
<1>3. CASE run.key = NoKey /\ run.uid = NoUid
  BY <1>3 DEF gslOptFor
<1> QED
  BY <1>1, <1>2, <1>3

LEMMA InitIInv == Init => IInv
<1> SUFFICES ASSUME Init PROVE IInv
  OBVIOUS
<1>1. /\ run.trade = FALSE /\ run.for = "login" /\ run.uid = NoUid /\ run.key = NoKey
      /\ step = "off" /\ bound = NoRole /\ conns = 0
      /\ config.uid = NoUid /\ config.named = FALSE /\ config.asked = NoRole
  BY DEF Init, NoRun, NoConfig
<1>2. run \in Runs
  BY Limits DEF Init, NoRun, Runs, Key
<1>3. config \in Configs
  BY DEF Init, NoConfig, Configs
<1>4. TypeOK
  <2>1. shard \in [Roles -> 0 .. MaxShard]
    BY Limits DEF Init
  <2>2. started \in 0 .. MaxRuns /\ faults \in 0 .. MaxFaults /\ conns \in Nat
    BY Limits DEF Init
  <2>3. uidFile = NoUid /\ keyFile \in Key /\ step \in Steps /\ bound = NoRole /\ adopted = FALSE
    BY DEF Init, Key, Steps
  <2> QED
    BY <1>2, <1>3, <2>1, <2>2, <2>3 DEF TypeOK
<1>5. OneConnection /\ FlowInv /\ BindInv /\ RoleInv
  <2>1. OneConnection
    BY <1>1 DEF OneConnection, OnConn
  <2>2. FlowInv
    BY <1>1 DEF FlowInv, LoggingIn
  <2> QED
    BY <1>1, <2>1, <2>2 DEF BindInv, RoleInv
<1>6. BindingKept /\ AskInv /\ AskedRoleTraded
  BY <1>1 DEF BindingKept, AskInv, AskedRoleTraded, Asking
<1> QED
  BY <1>4, <1>5, <1>6 DEF IInv

-----------------------------------------------------------------------------
(* The steps. *)

LEMMA FailIInv ==
    ASSUME IInv, Fail
    PROVE  IInv'
<1> USE RunTypes, RolesApart, Limits, NoUidRole DEF IInv, NoFault, Fault
<1>1. run' = NoRun /\ step' = "off"
  BY DEF Fail, End
<1>2. /\ run'.trade = FALSE /\ run'.for = "login" /\ run' \in Runs
  BY <1>1 DEF NoRun, Runs, Key
<1>8. TypeOK'
  BY <1>1, <1>2 DEF TypeOK, Fail, stateVars, pastVars, Steps, OnConn, Waiting
<1>9. (OneConnection /\ FlowInv /\ BindInv /\ RoleInv /\ BindingKept /\ AskInv /\ AskedRoleTraded)'
  BY <1>1, <1>2 DEF TypeOK, Fail, stateVars, pastVars, OneConnection, FlowInv, BindInv, RoleInv, BindingKept, AskInv,
     AskedRoleTraded, Asking, Unbound, LoggingIn, Binding, OnConn, Waiting
<1> QED
  BY <1>8, <1>9

LEMMA CrashIInv ==
    ASSUME IInv, Crash
    PROVE  IInv'
<1> USE RunTypes, RolesApart, Limits, NoUidRole DEF IInv, NoFault, Fault
<1>1. run' = NoRun /\ step' = "off"
  BY DEF Crash, End
<1>2. /\ run'.trade = FALSE /\ run'.for = "login" /\ run' \in Runs
  BY <1>1 DEF NoRun, Runs, Key
<1>8. TypeOK'
  BY <1>1, <1>2 DEF TypeOK, Crash, stateVars, pastVars, Steps, OnConn, Waiting
<1>9. (OneConnection /\ FlowInv /\ BindInv /\ RoleInv /\ BindingKept /\ AskInv /\ AskedRoleTraded)'
  BY <1>1, <1>2 DEF TypeOK, Crash, stateVars, pastVars, OneConnection, FlowInv, BindInv, RoleInv, BindingKept, AskInv,
     AskedRoleTraded, Asking, Unbound, LoggingIn, Binding, OnConn, Waiting
<1> QED
  BY <1>8, <1>9

LEMMA NoSuchRoleIInv ==
    ASSUME IInv, NoSuchRole
    PROVE  IInv'
<1> USE RunTypes, RolesApart, Limits, NoUidRole DEF IInv, NoFault, Fault
<1>1. run' = NoRun /\ step' = "off"
  BY DEF NoSuchRole, End
<1>2. /\ run'.trade = FALSE /\ run'.for = "login" /\ run' \in Runs
  BY <1>1 DEF NoRun, Runs, Key
<1>8. TypeOK'
  BY <1>1, <1>2 DEF TypeOK, NoSuchRole, stateVars, pastVars, Steps, OnConn, Waiting
<1>9. (OneConnection /\ FlowInv /\ BindInv /\ RoleInv /\ BindingKept /\ AskInv /\ AskedRoleTraded)'
  BY <1>1, <1>2 DEF TypeOK, NoSuchRole, stateVars, pastVars, OneConnection, FlowInv, BindInv, RoleInv, BindingKept, AskInv,
     AskedRoleTraded, Asking, Unbound, LoggingIn, Binding, OnConn, Waiting
<1> QED
  BY <1>8, <1>9

LEMMA TooManyRedirectsIInv ==
    ASSUME IInv, TooManyRedirects
    PROVE  IInv'
<1> USE RunTypes, RolesApart, Limits, NoUidRole DEF IInv, NoFault, Fault
<1>1. run' = NoRun /\ step' = "off"
  BY DEF TooManyRedirects, End
<1>2. /\ run'.trade = FALSE /\ run'.for = "login" /\ run' \in Runs
  BY <1>1 DEF NoRun, Runs, Key
<1>8. TypeOK'
  BY <1>1, <1>2 DEF TypeOK, TooManyRedirects, stateVars, pastVars, Steps, OnConn, Waiting
<1>9. (OneConnection /\ FlowInv /\ BindInv /\ RoleInv /\ BindingKept /\ AskInv /\ AskedRoleTraded)'
  BY <1>1, <1>2 DEF TypeOK, TooManyRedirects, stateVars, pastVars, OneConnection, FlowInv, BindInv, RoleInv, BindingKept, AskInv,
     AskedRoleTraded, Asking, Unbound, LoggingIn, Binding, OnConn, Waiting
<1> QED
  BY <1>8, <1>9

LEMMA NothingToTradeIInv ==
    ASSUME IInv, NothingToTrade
    PROVE  IInv'
<1> USE RunTypes, RolesApart, Limits, NoUidRole DEF IInv, NoFault, Fault
<1>1. run' = NoRun /\ step' = "off"
  BY DEF NothingToTrade, End
<1>2. /\ run'.trade = FALSE /\ run'.for = "login" /\ run' \in Runs
  BY <1>1 DEF NoRun, Runs, Key
<1>8. TypeOK'
  BY <1>1, <1>2 DEF TypeOK, NothingToTrade, stateVars, pastVars, Steps, OnConn, Waiting
<1>9. (OneConnection /\ FlowInv /\ BindInv /\ RoleInv /\ BindingKept /\ AskInv /\ AskedRoleTraded)'
  BY <1>1, <1>2 DEF TypeOK, NothingToTrade, stateVars, pastVars, OneConnection, FlowInv, BindInv, RoleInv, BindingKept, AskInv,
     AskedRoleTraded, Asking, Unbound, LoggingIn, Binding, OnConn, Waiting
<1> QED
  BY <1>8, <1>9

LEMMA DialIInv ==
    ASSUME IInv, Dial
    PROVE  IInv'
<1> USE RunTypes, RolesApart, Limits, NoUidRole DEF IInv, NoFault, Fault
<1>8. TypeOK'
  BY DEF TypeOK, Dial, stateVars, pastVars, Steps, OnConn, Waiting
<1>9. (OneConnection /\ FlowInv /\ BindInv /\ RoleInv /\ BindingKept /\ AskInv /\ AskedRoleTraded)'
  BY DEF TypeOK, Dial, stateVars, pastVars, OneConnection, FlowInv, BindInv, RoleInv, BindingKept, AskInv,
     AskedRoleTraded, Asking, Unbound, LoggingIn, Binding, OnConn, Waiting
<1> QED
  BY <1>8, <1>9

LEMMA LoginAcceptedIInv ==
    ASSUME IInv, LoginAccepted
    PROVE  IInv'
<1> USE RunTypes, RolesApart, Limits, NoUidRole DEF IInv, NoFault, Fault
<1>8. TypeOK'
  BY DEF TypeOK, LoginAccepted, stateVars, pastVars, Steps, OnConn, Waiting
<1>9. (OneConnection /\ FlowInv /\ BindInv /\ RoleInv /\ BindingKept /\ AskInv /\ AskedRoleTraded)'
  BY DEF TypeOK, LoginAccepted, stateVars, pastVars, OneConnection, FlowInv, BindInv, RoleInv, BindingKept, AskInv,
     AskedRoleTraded, Asking, Unbound, LoggingIn, Binding, OnConn, Waiting
<1> QED
  BY <1>8, <1>9

LEMMA SaveKeyIInv ==
    ASSUME IInv, SaveKey
    PROVE  IInv'
<1> USE RunTypes, RolesApart, Limits, NoUidRole DEF IInv, NoFault, Fault
<1>8. TypeOK'
  BY DEF TypeOK, SaveKey, stateVars, pastVars, Steps, OnConn, Waiting
<1>9. (OneConnection /\ FlowInv /\ BindInv /\ RoleInv /\ BindingKept /\ AskInv /\ AskedRoleTraded)'
  BY DEF TypeOK, SaveKey, stateVars, pastVars, OneConnection, FlowInv, BindInv, RoleInv, BindingKept, AskInv,
     AskedRoleTraded, Asking, Unbound, LoggingIn, Binding, OnConn, Waiting
<1> QED
  BY <1>8, <1>9

\* The role that a binding is for is one of the account's.
LEMMA PickRoleType ==
    ASSUME TypeOK
    PROVE  /\ pickRole(run.server) \in Roles
           /\ run.server # NoRole => pickRole(run.server) = run.server
BY RunTypes, RolesAssumption DEF pickRole

LEMMA SaveUidIInv ==
    ASSUME IInv, SaveUid
    PROVE  IInv'
<1> USE RunTypes, RolesApart, Limits, NoUidRole, PickRoleType DEF IInv, NoFault, Fault
<1>1. /\ step = "saveUid" /\ step' = "in" /\ bound = NoRole
      /\ UNCHANGED <<keyFile, config, run, conns, shard, started, adopted>>
      /\ uidFile' \in {uidFile, run.uid}
      /\ faults' \in {faults, faults - 1} /\ (faults' # faults => faults > 0)
  BY DEF SaveUid, SaveGameUid, BindInv, Binding
<1>2. /\ bound' \in Roles \cup {NoRole}
      /\ bound' # NoRole => /\ bound' = pickRole(run.server)
                             /\ keyFile = run.key /\ uidFile' = run.uid
  BY <1>1 DEF SaveUid, SaveGameUid
<1>3. run.uid.role = pickRole(run.server) /\ run.key \in {AccountKey, pickRole(run.server)}
  BY <1>1 DEF FlowInv
<1>4. TypeOK'
  BY <1>1, <1>2 DEF TypeOK, Steps, OnConn
<1>5. (OneConnection /\ FlowInv /\ BindInv /\ RoleInv)'
  BY <1>1, <1>2, <1>3 DEF OneConnection, FlowInv, BindInv, RoleInv, LoggingIn, Binding, OnConn
<1>6. (BindingKept /\ AskInv /\ AskedRoleTraded)'
  BY <1>1, <1>2, <1>3
  DEF BindingKept, AskInv, AskedRoleTraded, Asking, Unbound, LoggingIn, Binding
<1> QED
  BY <1>4, <1>5, <1>6

LEMMA StartIInv ==
    ASSUME IInv, NEW trade \in BOOLEAN, NEW email \in BOOLEAN,
           NEW server \in Roles \cup {NoRole}, email \/ server = NoRole,
           Start(trade, email, server)
    PROVE  IInv'
<1> USE RolesApart, Limits, NoUidRole DEF IInv, NoFault
<1>1. /\ step = "off" /\ step' = "load"
      /\ run' = [trade |-> trade, email |-> email, server |-> server,
                 for |-> IF ~trade THEN "login" ELSE IF email THEN "look" ELSE "trade",
                 uid |-> NoUid, key |-> NoKey, hops |-> 0, fresh |-> uidFile.role \notin Roles]
      /\ UNCHANGED <<uidFile, keyFile, config, conns, shard, faults, bound, adopted>>
      /\ started' = started + 1 /\ started < MaxRuns
  BY DEF Start, NoRun, stateVars, pastVars
<1>2. run' \in Runs
  BY <1>1 DEF Runs, Key
<1>3. /\ run'.trade = trade /\ run'.email = email /\ run'.server = server
      /\ run'.for = IF ~trade THEN "login" ELSE IF email THEN "look" ELSE "trade"
      /\ run'.fresh = (uidFile.role \notin Roles)
  BY <1>1
<1>4. TypeOK'
  BY <1>1, <1>2 DEF TypeOK, Steps, OnConn
<1>5. (OneConnection /\ FlowInv /\ BindInv /\ RoleInv)'
  BY <1>1, <1>3 DEF OneConnection, FlowInv, BindInv, RoleInv, LoggingIn, Binding, OnConn
<1>6. (BindingKept /\ AskInv /\ AskedRoleTraded)'
  BY <1>1, <1>3 DEF BindingKept, AskInv, AskedRoleTraded, Asking, Unbound, LoggingIn, Binding
<1> QED
  BY <1>4, <1>5, <1>6

LEMMA LoadIdentityIInv ==
    ASSUME IInv, LoadIdentity
    PROVE  IInv'
<1> USE RunTypes, RolesApart, Limits, NoUidRole DEF IInv, NoFault
<1>1. /\ step = "load"
      /\ UNCHANGED <<uidFile, keyFile, config, conns, shard, started, faults, bound, adopted>>
  BY DEF LoadIdentity, stateVars, pastVars
<1>2. CASE run.for = "look" /\ keyFile = NoKey
  <2>1. run' = [run EXCEPT !.for = "login"] /\ step' = step
    BY <1>2 DEF LoadIdentity, AfterLook
  <2>2. /\ run'.for = "login" /\ run'.trade = run.trade /\ run'.email = run.email
        /\ run'.server = run.server /\ run'.fresh = run.fresh /\ run' \in Runs
    BY <2>1 DEF Runs
  <2> QED
    BY <1>1, <1>2, <2>1, <2>2
    DEF TypeOK, OneConnection, FlowInv, BindInv, RoleInv, BindingKept, AskInv, AskedRoleTraded,
        Asking, Unbound, LoggingIn, Binding, OnConn
<1>3. CASE run.for = "look" /\ keyFile # NoKey
  <2>1. run' = [run EXCEPT !.for = "trade", !.server = NoRole] /\ step' = step
    BY <1>3 DEF LoadIdentity, AfterLook
  <2>2. run'.for = "trade" /\ run'.trade = run.trade /\ run'.server = NoRole /\ run' \in Runs
    BY <2>1 DEF Runs
  <2> QED
    BY <1>1, <1>3, <2>1, <2>2
    DEF TypeOK, OneConnection, FlowInv, BindInv, RoleInv, BindingKept, AskInv, AskedRoleTraded,
        Asking, Unbound, LoggingIn, Binding, OnConn
<1>4. CASE run.for # "look"
  <2>1. /\ run' = [run EXCEPT !.uid = uidFile, !.key = keyFile]
        /\ step' = IF run.for = "login" THEN "gsl" ELSE "trade"
    BY <1>4 DEF LoadIdentity
  <2>2. /\ run'.for = run.for /\ run'.trade = run.trade /\ run'.email = run.email
        /\ run'.server = run.server /\ run'.fresh = run.fresh
        /\ run'.uid = uidFile /\ run'.key = keyFile
    BY <2>1
  <2>3. run' \in Runs
    BY <2>1 DEF Runs, TypeOK
  <2>4. TypeOK'
    BY <1>1, <2>1, <2>3 DEF TypeOK, Steps, OnConn
  <2>5. (OneConnection /\ FlowInv /\ BindInv /\ RoleInv)'
    BY <1>1, <1>4, <2>1, <2>2 DEF OneConnection, FlowInv, BindInv, RoleInv, BindingKept, LoggingIn, Binding, OnConn
  <2>6. (BindingKept /\ AskInv /\ AskedRoleTraded)'
    BY <1>1, <1>4, <2>1, <2>2
    DEF BindingKept, AskInv, AskedRoleTraded, Asking, Unbound, LoggingIn, Binding
  <2> QED
    BY <2>4, <2>5, <2>6
<1> QED
  BY <1>2, <1>3, <1>4

LEMMA AskGslIInv ==
    ASSUME IInv, AskGsl
    PROVE  IInv'
<1> USE RunTypes, RolesApart, Limits, NoUidRole DEF IInv
<1>1. /\ step = "gsl" /\ step' = "dial"
      /\ UNCHANGED <<keyFile, config, conns, shard, started, bound>>
  BY DEF AskGsl
<1>0. PICK list \in ServerLists(gslOptFor(run)) : \E uid \in PickServer(run.uid, list) :
         /\ Adopt(uid, run)
         /\ adopted' = (adopted \/ (uid # NoUid /\ run.uid.role \in Roles \ {uid.role}))
  BY DEF AskGsl
<1>2. PICK uid \in PickServer(run.uid, list) :
         /\ Adopt(uid, run)
         /\ adopted' = (adopted \/ (uid # NoUid /\ run.uid.role \in Roles \ {uid.role}))
  BY <1>0
<1>3. uid = NoUid \/ (uid \in Uid /\ \E roles \in gslOptFor(run) : uid.role \in roles)
  BY <1>2, ServerListType, GslType
<1>4. run.key = NoKey /\ run.uid.role \notin Roles => uid.role \notin Roles
  BY <1>3, GslType
<1>5. /\ adopted' \in BOOLEAN
      /\ ~adopted' => ~adopted /\ (uid = NoUid \/ run.uid.role \notin Roles \ {uid.role})
  BY <1>2, Zenon DEF TypeOK
<1>6. /\ run' = [run EXCEPT !.uid = run'.uid]
      /\ run'.uid \in {run.uid, uid} /\ (run'.uid = uid => uid # NoUid \/ run.uid = NoUid)
      /\ uidFile' \in {uidFile, uid} /\ (uidFile' # uidFile => uid # NoUid)
      /\ faults' \in {faults, faults - 1} /\ (faults' # faults => faults > 0)
  <2>1. CASE uid \in {NoUid, run.uid}
    BY <1>2, <2>1 DEF Adopt, NoFault
  <2>2. CASE uid \notin {NoUid, run.uid}
    BY <1>2, <2>2 DEF Adopt, SaveGameUid, NoFault, Fault
  <2> QED
    BY <2>1, <2>2
<1>7. /\ run'.for = run.for /\ run'.trade = run.trade /\ run'.email = run.email
      /\ run'.server = run.server /\ run'.fresh = run.fresh /\ run'.key = run.key
  BY <1>6
<1>8. run' \in Runs
  BY <1>3, <1>6 DEF Runs
<1>9. TypeOK'
  BY <1>1, <1>3, <1>5, <1>6, <1>8 DEF TypeOK, Steps, OnConn
<1>10. (OneConnection /\ FlowInv /\ BindInv)'
  BY <1>1, <1>7 DEF OneConnection, FlowInv, BindInv, LoggingIn, Binding, OnConn
<1>11. (RoleInv /\ BindingKept)'
  <2>1. SUFFICES ASSUME bound # NoRole, ~adopted'
                 PROVE  /\ run'.uid.role = bound /\ uidFile'.role = bound
                        /\ keyFile \in {bound, AccountKey}
    BY <1>1 DEF RoleInv, BindingKept
  <2>2. bound \in Roles /\ ~adopted /\ run.uid.role = bound /\ uidFile.role = bound
        /\ keyFile \in {bound, AccountKey}
    BY <1>1, <1>5, <2>1 DEF TypeOK, RoleInv, BindingKept, LoggingIn
  <2>3. uid = NoUid \/ uid.role = bound
    BY <1>5, <2>1, <2>2
  <2> QED
    BY <1>6, <2>2, <2>3
<1>12. (AskInv /\ AskedRoleTraded)'
  BY <1>1, <1>4, <1>6, <1>7
  DEF AskInv, AskedRoleTraded, Asking, Unbound, LoggingIn, Binding
<1> QED
  BY <1>9, <1>10, <1>11, <1>12

LEMMA RedirectIInv ==
    ASSUME IInv, NEW uid \in RedirectUids, Redirect(uid)
    PROVE  IInv'
<1> USE RunTypes, RolesApart, Limits, NoUidRole DEF IInv
<1>1. /\ step = "login" /\ step' = "dial" /\ conns' = 0 /\ run.hops < maxRedirectHops
      /\ UNCHANGED <<keyFile, config, shard, started, bound, adopted>>
      /\ Adopt(uid, [run EXCEPT !.hops = @ + 1])
  BY DEF Redirect, pastVars
<1>2. uid = NoUid \/ (uid \in Uid /\ uid.role = run.uid.role)
  <2>1. run.uid # NoUid => run.uid.role \in Roles \cup {Guest}
    OBVIOUS
  <2> QED
    BY <2>1, UidOfType DEF RedirectUids
<1>3. /\ run' = [run EXCEPT !.hops = @ + 1, !.uid = run'.uid]
      /\ run'.uid \in {run.uid, uid} /\ (run'.uid = uid => uid # NoUid \/ run.uid = NoUid)
      /\ uidFile' \in {uidFile, uid} /\ (uidFile' # uidFile => uid # NoUid)
      /\ faults' \in {faults, faults - 1} /\ (faults' # faults => faults > 0)
  <2>1. CASE uid \in {NoUid, run.uid}
    BY <1>1, <2>1 DEF Adopt, NoFault
  <2>2. CASE uid \notin {NoUid, run.uid}
    BY <1>1, <2>2 DEF Adopt, SaveGameUid, NoFault, Fault
  <2> QED
    BY <2>1, <2>2
<1>4. /\ run'.for = run.for /\ run'.trade = run.trade /\ run'.email = run.email
      /\ run'.server = run.server /\ run'.fresh = run.fresh /\ run'.key = run.key
  BY <1>3
<1>5. run' \in Runs
  <2>1. run.hops + 1 \in 0 .. maxRedirectHops /\ run'.uid \in Uid \cup {NoUid}
    BY <1>1, <1>2, <1>3
  <2> QED
    BY <1>3, <2>1 DEF Runs
<1>6. TypeOK'
  BY <1>1, <1>2, <1>3, <1>5 DEF TypeOK, Steps, OnConn
<1>7. (OneConnection /\ FlowInv /\ BindInv)'
  BY <1>1, <1>4 DEF OneConnection, FlowInv, BindInv, LoggingIn, Binding, OnConn
<1>8. (RoleInv /\ BindingKept)'
  BY <1>1, <1>2, <1>3 DEF RoleInv, BindingKept, LoggingIn
<1>9. (AskInv /\ AskedRoleTraded)'
  BY <1>1, <1>2, <1>3, <1>4
  DEF AskInv, AskedRoleTraded, Asking, Unbound, LoggingIn, Binding
<1> QED
  BY <1>6, <1>7, <1>8, <1>9

LEMMA InitDoneIInv ==
    ASSUME IInv, InitDone
    PROVE  IInv'
<1> USE RunTypes, RolesApart, Limits, NoUidRole DEF IInv, NoFault
<1>1. /\ step = "init" /\ step' \in {"email", "in"}
      /\ step' = "email" <=> run.email /\ run.key = NoKey
      /\ UNCHANGED <<uidFile, keyFile, config, run, conns, shard, started, faults, bound, adopted>>
  BY DEF InitDone, AfterInit, stateVars, pastVars
<1>2. TypeOK'
  BY <1>1 DEF TypeOK, Steps, OnConn
<1>3. (OneConnection /\ FlowInv /\ BindInv /\ RoleInv)'
  BY <1>1 DEF OneConnection, FlowInv, BindInv, RoleInv, LoggingIn, Binding, OnConn
<1>4. (BindingKept /\ AskInv /\ AskedRoleTraded)'
  BY <1>1 DEF BindingKept, AskInv, AskedRoleTraded, Asking, Unbound, LoggingIn, Binding
<1> QED
  BY <1>2, <1>3, <1>4

LEMMA EnterCodeIInv ==
    ASSUME IInv, EnterCode
    PROVE  IInv'
<1> USE DEF IInv, NoFault
<1>1. /\ step = "email" /\ step' = "verify"
      /\ UNCHANGED <<uidFile, keyFile, config, run, conns, shard, started, faults, bound, adopted>>
  BY DEF EnterCode, stateVars, pastVars
<1>2. TypeOK'
  BY <1>1 DEF TypeOK, Steps, OnConn
<1>3. (OneConnection /\ FlowInv /\ BindInv /\ RoleInv)'
  BY <1>1 DEF OneConnection, FlowInv, BindInv, RoleInv, LoggingIn, Binding, OnConn
<1>4. (BindingKept /\ AskInv /\ AskedRoleTraded)'
  BY <1>1 DEF BindingKept, AskInv, AskedRoleTraded, Asking, Unbound, LoggingIn, Binding
<1> QED
  BY <1>2, <1>3, <1>4

LEMMA TakeRoleIInv ==
    ASSUME IInv, TakeRole
    PROVE  IInv'
<1> USE RunTypes, RolesApart, Limits, NoUidRole, PickRoleType DEF IInv, NoFault
<1>1. PICK key \in {AccountKey} \cup ({run.server} \ {NoRole}) :
         run' = [run EXCEPT !.uid = UidOf(pickRole(run.server), 0), !.key = key]
  BY DEF TakeRole
<1>2. /\ step = "verify" /\ step' = "saveKey"
      /\ UNCHANGED <<uidFile, keyFile, config, conns, shard, started, faults, bound, adopted>>
  BY DEF TakeRole, stateVars, pastVars
<1>3. /\ run'.for = run.for /\ run'.trade = run.trade /\ run'.email = run.email
      /\ run'.server = run.server /\ run'.fresh = run.fresh
      /\ run'.key \in {AccountKey, pickRole(run.server)}
      /\ run'.uid \in Uid /\ run'.uid.role = pickRole(run.server)
  BY <1>1, UidOfType
<1>4. run' \in Runs
  BY <1>1, <1>3 DEF Runs, Key
<1>5. TypeOK'
  BY <1>2, <1>4 DEF TypeOK, Steps, OnConn
<1>6. (OneConnection /\ FlowInv /\ BindInv /\ RoleInv)'
  BY <1>2, <1>3 DEF OneConnection, FlowInv, BindInv, RoleInv, LoggingIn, Binding, OnConn
<1>7. (BindingKept /\ AskInv /\ AskedRoleTraded)'
  BY <1>2, <1>3 DEF BindingKept, AskInv, AskedRoleTraded, Asking, Unbound, LoggingIn, Binding
<1> QED
  BY <1>5, <1>6, <1>7

LEMMA LeaveIInv ==
    ASSUME IInv, Leave
    PROVE  IInv'
<1> USE RunTypes, RolesApart, Limits, NoUidRole DEF IInv, NoFault
<1>1. /\ step = "in" /\ conns' = 0
      /\ UNCHANGED <<uidFile, keyFile, config, shard, started, faults, bound, adopted>>
  BY DEF Leave, stateVars, pastVars
<1>2. CASE run.trade
  <2>1. step' = "load" /\ run' = [run EXCEPT !.for = "trade"]
    BY <1>2 DEF Leave
  <2>2. /\ run'.for = "trade" /\ run'.trade = run.trade /\ run'.email = run.email
        /\ run'.server = run.server /\ run'.fresh = run.fresh /\ run' \in Runs
    BY <2>1 DEF Runs
  <2> QED
    BY <1>1, <1>2, <2>1, <2>2
    DEF TypeOK, OneConnection, FlowInv, BindInv, RoleInv, BindingKept, AskInv, AskedRoleTraded,
        Asking, Unbound, LoggingIn, Binding, OnConn, Steps
<1>3. CASE ~run.trade
  <2>1. step' = "off" /\ run' = NoRun
    BY <1>3 DEF Leave, End
  <2>2. run'.trade = FALSE /\ run'.for = "login" /\ run' \in Runs
    BY <2>1 DEF NoRun, Runs, Key
  <2> QED
    BY <1>1, <2>1, <2>2
    DEF TypeOK, OneConnection, FlowInv, BindInv, RoleInv, BindingKept, AskInv, AskedRoleTraded,
        Asking, Unbound, LoggingIn, Binding, OnConn, Steps
<1> QED
  BY <1>2, <1>3

LEMMA TradeIInv ==
    ASSUME IInv, Trade
    PROVE  IInv'
<1> USE RunTypes, RolesApart, Limits, NoUidRole DEF IInv, NoFault
<1>1. /\ step = "trade" /\ step' = "off" /\ run' = NoRun
      /\ run.key # NoKey /\ run.uid # NoUid
      /\ UNCHANGED <<uidFile, keyFile, conns, shard, started, faults, bound, adopted>>
  BY DEF Trade, Tradable, End, pastVars
<1>2. run'.trade = FALSE /\ run'.for = "login" /\ run' \in Runs
  BY <1>1 DEF NoRun, Runs, Key
<1>0. PICK list \in ServerLists(Reach(run.key)) : \E named \in PickServer(run.uid, list) :
         IF TradeAllows(run.uid, named)
           THEN config' = [uid |-> IF named = NoUid THEN run.uid ELSE named,
                           named |-> named # NoUid,
                           asked |-> IF run.fresh THEN run.server ELSE NoRole]
           ELSE UNCHANGED config
  BY <1>1 DEF Trade
<1>3. PICK named \in PickServer(run.uid, list) :
         IF TradeAllows(run.uid, named)
           THEN config' = [uid |-> IF named = NoUid THEN run.uid ELSE named,
                           named |-> named # NoUid,
                           asked |-> IF run.fresh THEN run.server ELSE NoRole]
           ELSE UNCHANGED config
  BY <1>0
<1>4. named = NoUid \/ (named \in Uid /\ named.role \in Roles)
  <2>1. Reach(run.key) \in SUBSET SUBSET Roles
    BY <1>1, ReachType
  <2>2. Reach(run.key) \in SUBSET SUBSET (Roles \cup {Guest})
    BY <2>1
  <2>3. named = NoUid \/ (named \in Uid /\ \E roles \in Reach(run.key) : named.role \in roles)
    BY <1>3, <2>2, ServerListType
  <2> QED
    BY <2>1, <2>3
<1>5. config' \in Configs /\ AskedRoleTraded'
  <2>1. CASE ~TradeAllows(run.uid, named)
    BY <1>3, <2>1 DEF TypeOK, AskedRoleTraded
  <2>2. CASE TradeAllows(run.uid, named)
    <3>1. config' = [uid |-> IF named = NoUid THEN run.uid ELSE named,
                     named |-> named # NoUid,
                     asked |-> IF run.fresh THEN run.server ELSE NoRole]
      BY <1>3, <2>2
    <3>2. config' \in Configs
      BY <1>4, <3>1 DEF Configs
    <3>3. ASSUME config'.asked # NoRole, config'.named
          PROVE  config'.uid.role = config'.asked
      <4>1. named # NoUid /\ run.fresh /\ run.server # NoRole
            /\ config'.asked = run.server /\ config'.uid = named
        BY <3>1, <3>3
      <4>2. named = uidFile
        BY <1>1, <2>2, <4>1 DEF TradeAllows, FlowInv
      <4>3. Asking /\ ~Unbound
        BY <1>1, <4>1 DEF Asking, Unbound, FlowInv, LoggingIn, Binding
      <4> QED
        BY <1>4, <4>1, <4>2, <4>3 DEF AskInv
    <3> QED
      BY <3>2, <3>3 DEF AskedRoleTraded
  <2> QED
    BY <2>1, <2>2
<1>6. TypeOK'
  BY <1>1, <1>2, <1>5 DEF TypeOK, Steps, OnConn
<1>7. (OneConnection /\ FlowInv /\ BindInv /\ RoleInv)'
  BY <1>1, <1>2 DEF OneConnection, FlowInv, BindInv, RoleInv, LoggingIn, Binding, OnConn
<1>8. (BindingKept /\ AskInv)'
  BY <1>1, <1>2 DEF BindingKept, AskInv, Asking
<1> QED
  BY <1>5, <1>6, <1>7, <1>8

LEMMA MoveIInv ==
    ASSUME IInv, NEW role \in Roles, Move(role)
    PROVE  IInv'
<1> USE DEF IInv, NoFault
<1>1. UNCHANGED <<uidFile, keyFile, config, step, run, conns, started, faults, bound, adopted>>
  BY DEF Move, stateVars, pastVars
<1>2. shard' \in [Roles -> 0 .. MaxShard]
  BY Limits DEF Move, TypeOK
<1> QED
  BY <1>1, <1>2
  DEF TypeOK, OneConnection, FlowInv, BindInv, RoleInv, BindingKept, AskInv, AskedRoleTraded,
      Asking, Unbound

LEMMA NextIInv == IInv /\ [Next]_vars => IInv'
<1> SUFFICES ASSUME IInv, [Next]_vars PROVE IInv'
  OBVIOUS
<1>1. CASE UNCHANGED vars
  BY <1>1 DEF vars, stateVars, pastVars, IInv, TypeOK, OneConnection, FlowInv, BindInv, RoleInv,
              BindingKept, AskInv, AskedRoleTraded, Asking, Unbound
<1>2. CASE StartAny
  BY <1>2, StartIInv DEF StartAny
<1>3. CASE LoginStep
  BY <1>3, AskGslIInv, DialIInv, LoginAcceptedIInv, TooManyRedirectsIInv, RedirectIInv,
     InitDoneIInv DEF LoginStep
<1>4. CASE BindStep
  BY <1>4, TakeRoleIInv, NoSuchRoleIInv, SaveKeyIInv, SaveUidIInv DEF BindStep
<1>5. CASE LoadIdentity \/ Leave \/ EnterCode \/ Trade \/ NothingToTrade \/ Fail \/ Crash
  BY <1>5, LoadIdentityIInv, LeaveIInv, EnterCodeIInv, TradeIInv, NothingToTradeIInv, FailIInv, CrashIInv
<1>6. CASE \E role \in Roles : Move(role)
  BY <1>6, MoveIInv
<1> QED
  BY <1>1, <1>2, <1>3, <1>4, <1>5, <1>6 DEF Next, RunStep, OperatorStep

-----------------------------------------------------------------------------
(* The theorems. *)

\* The inductive invariant holds throughout, with or without fairness.
THEOREM SafeSpecIInv == SafeSpec => []IInv
BY InitIInv, NextIInv, PTL DEF SafeSpec

LEMMA SpecIsSafe == Spec => SafeSpec
BY PTL DEF Spec

\* Every variable keeps to its values.
THEOREM TypeCorrect == Spec => []TypeOK
<1>1. IInv => TypeOK
  BY DEF IInv
<1> QED
  BY <1>1, SafeSpecIInv, SpecIsSafe, PTL

\* A run has one connection open from its dial to its end, through any number
\* of redirects and after any error none.
THEOREM OneConnectionHeld == Spec => []OneConnection
<1>1. IInv => OneConnection
  BY DEF IInv
<1> QED
  BY <1>1, SafeSpecIInv, SpecIsSafe, PTL

\* A binding that was saved in full stays the one on file, unless a Login
\* adopts another role from GSL's list.
THEOREM BindingStays == Spec => []BindingKept
<1>1. IInv => BindingKept
  BY DEF IInv
<1> QED
  BY <1>1, SafeSpecIInv, SpecIsSafe, PTL

\* A fresh device that is bound with -server gets the asked role's session
\* config or none, whichever save fails.
THEOREM AskedRoleIsTraded == Spec => []AskedRoleTraded
<1>1. IInv => AskedRoleTraded
  BY DEF IInv
<1> QED
  BY <1>1, SafeSpecIInv, SpecIsSafe, PTL

-----------------------------------------------------------------------------
(***************************************************************************)
(* The device-id file (DeviceIdentity), for any set of runs and of ids:    *)
(* its type invariant, that all runs go by the id on file, that a load     *)
(* fails only by an error, and that the loads implement OneDevice.         *)
(*                                                                         *)
(* OneIdentity is not inductive: whether a step keeps it depends on what a *)
(* run that is still loading has seen.  IdInv adds that: who has drawn or  *)
(* read an id, that a file which was there stays there, and that only an   *)
(* empty leftover brings a run to replace the file.                        *)
(***************************************************************************)

\* A run that has come past its first read holds an id.
HoldsId == \A p \in Procs : at[p] \in {"temp", "link", "reread", "heal", "known"} => own[p] \in Ids

\* Only an empty file that was there to begin with is ever empty.
EmptyInv == file = Empty => leftover

\* A run rereads a file that was there, and the file is never removed.
ThereInv == \A p \in Procs : at[p] \in {"reread", "heal", "known"} => file # Missing

\* A run replaces the file only if it was an empty leftover.
HealInv == \A p \in Procs : at[p] = "heal" => leftover

\* What a run goes by was on file, so the file holds an id.
KnownInv == \A p \in Procs : at[p] = "known" => file \in Ids

IdInv ==
    /\ IdTypeOK
    /\ HoldsId
    /\ EmptyInv
    /\ ThereInv
    /\ HealInv
    /\ KnownInv
    /\ OneIdentity
    /\ FailsByFaultOnly

\* No id is mistaken for a file that is missing or empty, or for no id.
LEMMA IdsApart == Missing \notin Ids /\ Empty \notin Ids /\ NoId \notin Ids
BY IdsAssumption DEF Missing, Empty, NoId

LEMMA InitLeftover == IdInit => leftover \in BOOLEAN /\ (leftover <=> file = Empty)
BY Zenon DEF IdInit

LEMMA IdInitInv == IdInit => IdInv
BY InitLeftover, IdsApart, LimitsAssumption DEF IdInit, IdInv, IdTypeOK, HoldsId, EmptyInv, ThereInv, HealInv,
   KnownInv, OneIdentity, FailsByFaultOnly, AtValues, Loading, Missing, Empty, NoId

-----------------------------------------------------------------------------
(* The steps. *)

LEMMA LoadInv ==
    ASSUME IdInv, NEW p \in Procs, Load(p), NoIOFault
    PROVE  IdInv'
BY IdsApart DEF IdInv, IdTypeOK, HoldsId, EmptyInv, ThereInv, HealInv, KnownInv, OneIdentity,
   FailsByFaultOnly, AtValues, Loading, Load, NoIOFault

LEMMA ReadIdInv ==
    ASSUME IdInv, NEW p \in Procs, ReadId(p), NoIOFault
    PROVE  IdInv'
<1> USE IdsApart DEF IdInv, IdTypeOK, HoldsId, EmptyInv, ThereInv, HealInv, KnownInv, OneIdentity,
    FailsByFaultOnly, AtValues, Loading, ReadId, NoIOFault
<1>1. CASE file \in Ids
  BY <1>1 DEF Know
<1>2. CASE file \notin Ids
  <2>1. PICK id \in Fresh : own' = [own EXCEPT ![p] = id] /\ at' = [at EXCEPT ![p] = "temp"]
    BY <1>2
  <2>2. id \in Ids
    BY DEF Fresh
  <2> QED
    BY <1>2, <2>1, <2>2
<1> QED
  BY <1>1, <1>2

LEMMA WriteTempInv ==
    ASSUME IdInv, NEW p \in Procs, WriteTemp(p), NoIOFault
    PROVE  IdInv'
BY IdsApart DEF IdInv, IdTypeOK, HoldsId, EmptyInv, ThereInv, HealInv, KnownInv, OneIdentity,
   FailsByFaultOnly, AtValues, Loading, WriteTemp, NoIOFault

LEMMA LinkInv ==
    ASSUME IdInv, NEW p \in Procs, Link(p), NoIOFault
    PROVE  IdInv'
<1> USE IdsApart, LimitsAssumption
    DEF IdInv, IdTypeOK, HoldsId, EmptyInv, ThereInv, HealInv, KnownInv, OneIdentity,
    FailsByFaultOnly, AtValues, Loading, Link, NoIOFault
<1>1. CASE file = Missing
  BY <1>1
<1>2. CASE file # Missing
  BY <1>2
<1> QED
  BY <1>1, <1>2

LEMMA RereadInv ==
    ASSUME IdInv, NEW p \in Procs, Reread(p), NoIOFault
    PROVE  IdInv'
<1> USE IdsApart, LimitsAssumption
    DEF IdInv, IdTypeOK, HoldsId, EmptyInv, ThereInv, HealInv, KnownInv, OneIdentity,
    FailsByFaultOnly, AtValues, Loading, Reread, NoIOFault
<1>1. CASE file \in Ids
  BY <1>1 DEF Know
<1>2. CASE file \notin Ids /\ tries[p] < RereadAttempts
  BY <1>2
<1>3. CASE file \notin Ids /\ ~(tries[p] < RereadAttempts)
  BY <1>3
<1> QED
  BY <1>1, <1>2, <1>3

LEMMA HealStepInv ==
    ASSUME IdInv, NEW p \in Procs, Heal(p), NoIOFault
    PROVE  IdInv'
BY IdsApart DEF IdInv, IdTypeOK, HoldsId, EmptyInv, ThereInv, HealInv, KnownInv, OneIdentity,
   FailsByFaultOnly, AtValues, Loading, Heal, NoIOFault

LEMMA DropInv ==
    ASSUME IdInv, NEW p \in Procs, Drop(p), NoIOFault
    PROVE  IdInv'
BY IdsApart DEF IdInv, IdTypeOK, HoldsId, EmptyInv, ThereInv, HealInv, KnownInv, OneIdentity,
   FailsByFaultOnly, AtValues, Loading, Drop, NoIOFault

LEMMA FailLoadInv ==
    ASSUME IdInv, NEW p \in Procs, FailLoad(p)
    PROVE  IdInv'
BY IdsApart, LimitsAssumption
   DEF IdInv, IdTypeOK, HoldsId, EmptyInv, ThereInv, HealInv, KnownInv, OneIdentity,
   FailsByFaultOnly, AtValues, Loading, FailLoad, IOFault

LEMMA IdNextInv == IdInv /\ [IdNext]_idAllVars => IdInv'
<1> SUFFICES ASSUME IdInv, [IdNext]_idAllVars PROVE IdInv'
  OBVIOUS
<1>1. CASE UNCHANGED idAllVars
  BY <1>1 DEF idAllVars, idVars, IdInv, IdTypeOK, HoldsId, EmptyInv, ThereInv, HealInv, KnownInv,
              OneIdentity, FailsByFaultOnly
<1>2. CASE IdNext
  <2>1. PICK p \in Procs : ((Load(p) \/ LoadStep(p) \/ Drop(p)) /\ NoIOFault) \/ FailLoad(p)
    BY <1>2 DEF IdNext
  <2> QED
    BY <2>1, LoadInv, ReadIdInv, WriteTempInv, LinkInv, RereadInv, HealStepInv, DropInv,
       FailLoadInv DEF LoadStep
<1> QED
  BY <1>1, <1>2

\* The inductive invariant holds throughout, with or without fairness.
THEOREM IdSafeSpecInv == IdSafeSpec => []IdInv
BY IdInitInv, IdNextInv, PTL DEF IdSafeSpec

LEMMA IdSpecIsSafe == IdSpec => IdSafeSpec
BY DEF IdSpec

\* Every variable keeps to its values.
THEOREM IdTypeCorrect == IdSpec => []IdTypeOK
<1>1. IdInv => IdTypeOK
  BY DEF IdInv
<1> QED
  BY <1>1, IdSafeSpecInv, IdSpecIsSafe, PTL

\* However many runs start, race, fail and crash over one state directory, they
\* all go by the device id on file, unless an empty file was left there.
THEOREM OneIdentityHolds == IdSpec => []OneIdentity
<1>1. IdInv => OneIdentity
  BY DEF IdInv
<1> QED
  BY <1>1, IdSafeSpecInv, IdSpecIsSafe, PTL

\* No load that met no error is refused, an empty leftover or not.
THEOREM LoadsFailByFaultOnly == IdSpec => []FailsByFaultOnly
<1>1. IdInv => FailsByFaultOnly
  BY DEF IdInv
<1> QED
  BY <1>1, IdSafeSpecInv, IdSpecIsSafe, PTL

-----------------------------------------------------------------------------
(* The loads implement OneDevice. *)

LEMMA InitDevice == IdInit => Device!Init
BY InitLeftover, IdsApart DEF IdInit, Device!Init, Missing, Empty, NoId

\* What the directory's users see of a step: a run drops or learns an id.
LEMMA StepDevice == IdInv /\ [IdNext]_idAllVars => [Device!Next]_(Device!vars)
<1> SUFFICES ASSUME IdInv, [IdNext]_idAllVars PROVE Device!Next \/ UNCHANGED Device!vars
  OBVIOUS
<1> USE IdsApart DEF Device!Next, Device!vars
<1>0. /\ file \in Ids \cup {Missing, Empty}
      /\ at \in [Procs -> AtValues]
      /\ own \in [Procs -> Ids \cup {NoId}]
  BY DEF IdInv, IdTypeOK
<1>1. ASSUME NEW p \in Procs, Load(p) \/ Drop(p)
      PROVE  Device!Next
  <2>1. \A q \in Procs :
           (IF at'[q] = "known" THEN own'[q] ELSE NoId)
             = IF q = p THEN NoId ELSE IF at[q] = "known" THEN own[q] ELSE NoId
    BY <1>0, <1>1 DEF Load, Drop
  <2>2. UNCHANGED <<file, leftover>>
    BY <1>1 DEF Load, Drop
  <2> QED
    BY <2>1, <2>2 DEF Device!Forget
<1>2. ASSUME NEW p \in Procs, ReadId(p)
      PROVE  Device!Next \/ UNCHANGED Device!vars
  <2>1. CASE file \in Ids
    <3>1. \A q \in Procs :
             (IF at'[q] = "known" THEN own'[q] ELSE NoId)
               = IF q = p THEN file ELSE IF at[q] = "known" THEN own[q] ELSE NoId
      BY <1>0, <1>2, <2>1 DEF ReadId, Know
    <3>2. UNCHANGED <<file, leftover>>
      BY <1>2 DEF ReadId
    <3> QED
      BY <2>1, <3>1, <3>2 DEF Device!Learn
  <2>2. CASE file \notin Ids
    <3>1. PICK id \in Fresh : own' = [own EXCEPT ![p] = id] /\ at' = [at EXCEPT ![p] = "temp"]
      BY <1>2, <2>2 DEF ReadId
    <3>2. \A q \in Procs :
             /\ at'[q] = "known" <=> at[q] = "known"
             /\ at[q] = "known" => own'[q] = own[q]
      BY <1>0, <1>2, <3>1 DEF ReadId
    <3> QED
      BY <1>2, <2>2, <3>2 DEF ReadId
  <2> QED
    BY <2>1, <2>2
<1>3. ASSUME NEW p \in Procs, WriteTemp(p)
      PROVE  UNCHANGED Device!vars
  <2>1. \A q \in Procs : (at'[q] = "known" <=> at[q] = "known") /\ own'[q] = own[q]
    BY <1>0, <1>3 DEF WriteTemp
  <2> QED
    BY <1>3, <2>1 DEF WriteTemp
<1>4. ASSUME NEW p \in Procs, Link(p)
      PROVE  Device!Next \/ UNCHANGED Device!vars
  <2>1. CASE file = Missing
    <3>1. own[p] \in Ids
      BY <1>4 DEF IdInv, HoldsId, Link
    <3> QED
      BY <1>0, <1>4, <2>1, <3>1 DEF Link, Device!Create
  <2>2. CASE file # Missing
    BY <1>0, <1>4, <2>2 DEF Link
  <2> QED
    BY <2>1, <2>2
<1>5. ASSUME NEW p \in Procs, Reread(p)
      PROVE  Device!Next \/ UNCHANGED Device!vars
  <2>1. CASE file \in Ids
    <3>1. \A q \in Procs :
             (IF at'[q] = "known" THEN own'[q] ELSE NoId)
               = IF q = p THEN file ELSE IF at[q] = "known" THEN own[q] ELSE NoId
      BY <1>0, <1>5, <2>1 DEF Reread, Know
    <3>2. UNCHANGED <<file, leftover>>
      BY <1>5 DEF Reread
    <3> QED
      BY <2>1, <3>1, <3>2 DEF Device!Learn
  <2>2. CASE file \notin Ids
    BY <1>0, <1>5, <2>2 DEF Reread
  <2> QED
    BY <2>1, <2>2
<1>6. ASSUME NEW p \in Procs, Heal(p)
      PROVE  Device!Next
  <2>1. own[p] \in Ids /\ leftover
    BY <1>6 DEF IdInv, HoldsId, HealInv, Heal
  <2>2. CASE file \in Ids
    BY <1>0, <1>6, <2>1, <2>2 DEF Heal, Device!Replace
  <2>3. CASE file \notin Ids
    BY <1>0, <1>6, <2>1, <2>3 DEF Heal, Device!Create
  <2> QED
    BY <2>2, <2>3
<1>7. ASSUME NEW p \in Procs, FailLoad(p)
      PROVE  UNCHANGED Device!vars
  <2>1. \A q \in Procs : (at'[q] = "known" <=> at[q] = "known") /\ own'[q] = own[q]
    BY <1>0, <1>7 DEF FailLoad, Loading
  <2> QED
    BY <1>7, <2>1 DEF FailLoad
<1>8. CASE UNCHANGED idAllVars
  BY <1>8 DEF idAllVars, idVars
<1> QED
  BY <1>1, <1>2, <1>3, <1>4, <1>5, <1>6, <1>7, <1>8 DEF IdNext, LoadStep

\* There is one device id, drawn once, and every run learns that one; only an
\* empty leftover lets runs replace each other's.
THEOREM ImplementsDevice == IdSpec => ImplementsOneDevice
BY IdSafeSpecInv, IdSpecIsSafe, InitDevice, StepDevice, PTL
   DEF IdSafeSpec, ImplementsOneDevice, Device!Spec
=============================================================================
