--------------------------- MODULE CrossServerRun ---------------------------
(***************************************************************************)
(* Successive cross-server runs of the client (runCrossServerTest in       *)
(* src/internal/app/main.go) over one session config file                  *)
(* (src/internal/app/config.go): which device a run presents, when it      *)
(* refreshes its tokens, looks its game server up and logs in again, what  *)
(* it saves and when, and the code it exits with.                          *)
(*                                                                         *)
(* A token is the device it was issued to and a generation; a game server  *)
(* address (gateways, port and zone together) is a value.                  *)
(***************************************************************************)
EXTENDS Naturals

CONSTANTS
    Devices,        \* device ids
    NoDev,          \* an empty deviceId
    LocalDev,       \* the device of this client's own identity file
    Addrs,          \* game server addresses
    NoAddr,         \* no address given
    Configs,        \* the session configs there may be to begin with
    FlagSets,       \* the combinations of flags runs are started with
    MaxGen,         \* bound: generations of each token
    MaxEvents       \* bound: faults, changes elsewhere and runs with flags

ASSUME DevicesAssumption == LocalDev \in Devices /\ NoDev \notin Devices

ASSUME AddrsAssumption == Addrs # {} /\ NoAddr \notin Addrs

ASSUME CountsAssumption == MaxGen \in Nat \ {0} /\ MaxEvents \in Nat

NoTok == [dev |-> NoDev, n |-> 0]
Token == [dev : Devices, n : 1 .. MaxGen] \cup {NoTok}

\* What a token's at.time says: unknown (0), within 30 days, 30 days old.
Age == {"unknown", "fresh", "old"}

\* The session config: the device it is for, the device its shumeiInstall is
\* for, the tokens, the address, and whether it holds a gameUid.
SessionConfig ==
    [dev : Devices \cup {NoDev}, inst : Devices \cup {NoDev},
     at : Token, age : Age, rt : Token, addr : Addrs \cup {NoAddr}, uid : BOOLEAN]

NoConfig == [dev |-> NoDev, inst |-> NoDev, at |-> NoTok, age |-> "unknown",
             rt |-> NoTok, addr |-> NoAddr, uid |-> FALSE]

\* The flags of a run: -cs-deviceid, -cs-rt, -cs-at, -cs-ip (with -cs-port and
\* -cs-zone), -cs-shumei-gen and -no-config.
Flags == [dev : Devices \cup {NoDev}, rt : Token, at : Token,
          ip : Addrs \cup {NoAddr}, gen : BOOLEAN, noConfig : BOOLEAN]

NoFlags == [dev |-> NoDev, rt |-> NoTok, at |-> NoTok, ip |-> NoAddr,
            gen |-> FALSE, noConfig |-> FALSE]

\* A session config as a capture, an own-device session or an operator leaves
\* it: it selects the cross-server run and holds no other device's tokens (one
\* that names no device, no other than this client's own refresh token).
ASSUME ConfigsAssumption ==
    \A c \in Configs :
        /\ c \in SessionConfig
        /\ c.dev # NoDev => {c.at.dev, c.rt.dev} \subseteq {NoDev, c.dev}
        /\ c.dev = NoDev => c.rt.dev \in {NoDev, LocalDev}
        /\ c.at.n <= 1 /\ c.rt.n <= 1
        /\ c.addr # NoAddr \/ c.at # NoTok \/ c.rt # NoTok

\* When both tokens are given on the command line they are of one device.
ASSUME FlagSetsAssumption ==
    \A f \in FlagSets :
        /\ f \in Flags
        /\ f.rt # NoTok /\ f.at # NoTok => f.at.dev = f.rt.dev

VARIABLES
    disk,       \* the session config file
    run,        \* the run's own values (runCrossServerTest's locals)
    pc,         \* how far the run has come
    reply,      \* GSL's reply to the refresh that is under way
    gsl,        \* the tokens in force, the devices refused, the role's address
    calm,       \* from here on nothing fails, changes elsewhere or takes flags
    budget,     \* events left
    last,       \* the exit code of the previous run
    \* what has happened, for the properties
    faulty,     \* something went wrong during this run
    lost,       \* devices whose rotated refresh token this client could not keep
    mixed,      \* another device's tokens went into a config that names no device
    tally       \* what this run has done so far

pastVars == <<lost, mixed>>
vars == <<disk, run, pc, reply, gsl, calm, budget, last, faulty, pastVars, tally>>

NoReply == [kind |-> "none", at |-> NoTok, age |-> "unknown", rt |-> NoTok,
            obj |-> FALSE, addr |-> NoAddr]

NoTally == [asked |-> 0, refreshed |-> 0, logins |-> 0, lookups |-> 0]

NoRun == [flags |-> NoFlags, dev |-> LocalDev, at |-> NoTok, age |-> "unknown",
          rt |-> NoTok, addr |-> NoAddr, uid |-> FALSE, inst |-> NoDev,
          orig |-> NoConfig, gate |-> FALSE, refreshed |-> FALSE,
          lookedUp |-> FALSE, retry |-> "none"]

\* The tokens in force for a device.
At(d) == [dev |-> d, n |-> gsl.at[d]]
Rt(d) == [dev |-> d, n |-> gsl.rt[d]]

\* A step in which nothing goes wrong, and one in which something does.
Smooth == UNCHANGED <<budget, faulty>>

Fault ==
    /\ ~calm
    /\ budget > 0
    /\ budget' = budget - 1
    /\ faulty' = TRUE

Exit(code) ==
    /\ pc' = "idle"
    /\ last' = code
    /\ run' = NoRun
    /\ reply' = NoReply
    /\ tally' = NoTally

Goto(next) == pc' = next /\ UNCHANGED last

Count(field) == tally' = [tally EXCEPT ![field] = @ + 1]

-----------------------------------------------------------------------------
(* Starting a run: flags and session config are merged. *)

\* A variant that gives any run the config's refresh token.
configRefreshTokenOfAny(cfg, runDev) == cfg.rt

\* The config's refresh token is bound to the config's device.
configRefreshToken(cfg, runDev) == IF runDev = cfg.dev THEN cfg.rt ELSE NoTok

\* Without a deviceId a run presents the device of the identity file.
RunDevice(dev) == IF dev = NoDev THEN LocalDev ELSE dev

StartRun(flags) ==
    LET cfg == IF flags.noConfig THEN NoConfig ELSE disk
        dev == IF flags.dev # NoDev THEN flags.dev ELSE cfg.dev
        at == IF flags.at # NoTok THEN flags.at ELSE cfg.at
        addr == IF flags.ip # NoAddr THEN flags.ip ELSE cfg.addr
        rt == configRefreshToken(cfg, dev)
    IN  /\ pc = "idle"
        /\ addr # NoAddr \/ flags.rt # NoTok \/ at # NoTok \/ rt # NoTok
        /\ run' = [NoRun EXCEPT
                     !.flags = flags,
                     !.dev = RunDevice(dev),
                     !.at = at, !.rt = rt, !.addr = addr, !.uid = cfg.uid,
                     !.age = IF flags.at # NoTok THEN "unknown" ELSE cfg.age,
                     !.inst = cfg.inst,
                     !.orig = [cfg EXCEPT !.at = at, !.addr = addr]]
        /\ Goto("version")
        /\ faulty' = FALSE
        /\ UNCHANGED <<disk, reply, gsl, calm, pastVars, tally>>

StartPlainRun ==
    /\ StartRun(NoFlags)
    /\ UNCHANGED budget

StartFlaggedRun(flags) ==
    /\ ~calm
    /\ budget > 0
    /\ budget' = budget - 1
    /\ StartRun(flags)

\* The identity file is read, then check-version is asked: only -cs-rt cannot
\* do without its gate host and RSA key.
CheckVersion ==
    /\ pc = "version"
    /\ \/ Fault /\ Exit(1)
       \/ /\ \/ Smooth /\ run' = [run EXCEPT !.gate = TRUE]
             \/ Fault /\ run.flags.rt = NoTok /\ run' = run
          /\ Goto(IF run.flags.rt # NoTok THEN "csrt" ELSE "stale")
          /\ UNCHANGED <<reply, tally>>
    /\ UNCHANGED <<disk, gsl, calm, pastVars>>

-----------------------------------------------------------------------------
(* Refreshing: GSL opt=refresh and what becomes of the tokens it returns. *)

Rotated == reply.rt # NoTok

\* GSL's side. It refuses a token that is not in force (211, 212); otherwise it
\* may issue a new access token, with a new at.time, and a new refresh token.
\* Its reply can get lost, fail, or lack the access token.
GslAccepts(tok) == tok = Rt(run.dev) /\ run.dev \notin gsl.revoked

Newer(n) == IF n < MaxGen THEN {n, n + 1} ELSE {n}

GslRefuses ==
    /\ Smooth
    /\ reply' = [NoReply EXCEPT !.kind = "reauth"]
    /\ UNCHANGED gsl

GslFails ==
    /\ Fault
    /\ \E kind \in {"net", "code"} : reply' = [NoReply EXCEPT !.kind = kind]
    /\ UNCHANGED gsl

\* The new refresh token a reply carries, if any.
NewRt(r) == IF r = gsl.rt[run.dev] THEN NoTok ELSE [dev |-> run.dev, n |-> r]

FullReply(a, r) ==
    \E age \in {"fresh", "old"}, addr \in {NoAddr, gsl.home} :
        /\ a # gsl.at[run.dev] => age = "fresh"
        /\ reply' = [kind |-> "ok", at |-> [dev |-> run.dev, n |-> a], age |-> age,
                     rt |-> NewRt(r), obj |-> TRUE, addr |-> addr]

PoorReply(r) ==
    \/ reply' = [NoReply EXCEPT !.kind = "net", !.rt = NewRt(r)]
    \/ \E obj \in BOOLEAN, addr \in {NoAddr, gsl.home} :
          reply' = [NoReply EXCEPT !.kind = "ok", !.rt = NewRt(r),
                                   !.obj = obj, !.addr = addr]

GslGrants(a, r) ==
    /\ gsl' = [gsl EXCEPT !.at[run.dev] = a, !.rt[run.dev] = r]
    /\ (Smooth /\ FullReply(a, r)) \/ (Fault /\ PoorReply(r))

GslRefresh(tok) ==
    \/ ~GslAccepts(tok) /\ GslRefuses
    \/ GslFails
    \/ /\ GslAccepts(tok)
       /\ \E a \in Newer(gsl.at[run.dev]), r \in Newer(gsl.rt[run.dev]) : GslGrants(a, r)

\* A device whose new refresh token arrives nowhere.
LoseIf(condition) ==
    /\ lost' = IF condition THEN lost \cup {run.dev} ELSE lost
    /\ UNCHANGED mixed

\* The device a session config's tokens and install are kept for.
Owner == IF disk.dev # NoDev THEN disk.dev ELSE disk.inst

MaySave == ~run.flags.noConfig /\ Owner \in {NoDev, run.dev}

\* A variant that leaves the file to the save-back after the Login.
saveLater(at, age, rt) ==
    /\ Smooth
    /\ LoseIf(~MaySave /\ Rotated)
    /\ UNCHANGED disk

\* saveRefreshedTokens: at once, only the tokens, and only into a config that
\* is not another device's. A failure is logged.
saveRefreshedTokens(at, age, rt) ==
    \/ /\ MaySave
       /\ Smooth
       /\ disk' = [disk EXCEPT !.at = at, !.age = age, !.rt = rt]
       /\ mixed' = (mixed \/ (disk.dev = NoDev /\ run.dev # LocalDev))
       /\ UNCHANGED lost
    \/ /\ MaySave
       /\ Fault
       /\ LoseIf(Rotated)
       /\ UNCHANGED disk
    \/ /\ ~MaySave
       /\ Smooth
       /\ LoseIf(Rotated)
       /\ UNCHANGED disk

\* -cs-rt: its token is refreshed before anything else.
AskCsRt ==
    /\ pc = "csrt"
    /\ GslRefresh(run.flags.rt)
    /\ Count("asked")
    /\ Goto("csrtReply")
    /\ UNCHANGED <<disk, run, calm, pastVars>>

\* A reply is usable when it has an access token object or a server list.
refreshHasUsableData == reply.obj \/ reply.addr # NoAddr

CsRtFailed ==
    /\ pc = "csrtReply"
    /\ reply.kind # "ok" \/ ~refreshHasUsableData
    /\ Exit(IF reply.kind \in {"net", "code"} THEN 1 ELSE 2)
    /\ Smooth
    /\ LoseIf(Rotated)
    /\ UNCHANGED <<disk, gsl, calm>>

CsRtRefreshed ==
    LET hasAt == reply.at # NoTok
        at == IF hasAt THEN reply.at ELSE run.at
        age == IF hasAt THEN reply.age ELSE run.age
        rt == IF Rotated THEN reply.rt ELSE run.flags.rt
    IN  /\ pc = "csrtReply"
        /\ reply.kind = "ok"
        /\ refreshHasUsableData
        /\ run' = [run EXCEPT !.at = at, !.age = age, !.rt = rt, !.refreshed = TRUE,
                              !.addr = IF reply.addr # NoAddr THEN reply.addr ELSE @,
                              !.uid = @ \/ reply.addr # NoAddr]
        /\ saveRefreshedTokens(at, age, rt)
        /\ Count("refreshed")
        /\ reply' = NoReply
        /\ Goto("stale")
        /\ UNCHANGED <<gsl, calm>>

\* refreshWithConfigToken's request; without check-version it fails at once.
AskRefresh(next) ==
    /\ IF run.gate
         THEN GslRefresh(run.rt)
         ELSE /\ Smooth
              /\ reply' = [NoReply EXCEPT !.kind = "net"]
              /\ UNCHANGED gsl
    /\ Count("asked")
    /\ Goto(next)
    /\ UNCHANGED <<disk, run, calm, pastVars>>

Refreshed == reply.kind = "ok" /\ reply.at # NoTok

\* A reply without an access token is an error, whatever else it carries.
TakeRefreshedTokens(next, retry) ==
    LET rt == IF Rotated THEN reply.rt ELSE run.rt
    IN  /\ Refreshed
        /\ run' = [run EXCEPT !.at = reply.at, !.age = reply.age, !.rt = rt,
                              !.refreshed = TRUE, !.retry = retry]
        /\ saveRefreshedTokens(reply.at, reply.age, rt)
        /\ Count("refreshed")
        /\ reply' = NoReply
        /\ Goto(next)
        /\ UNCHANGED <<gsl, calm>>

RefreshFailed ==
    /\ ~Refreshed
    /\ Exit(IF reply.kind = "reauth" THEN 2 ELSE 1)
    /\ Smooth
    /\ LoseIf(Rotated)
    /\ UNCHANGED <<disk, gsl, calm>>

\* gsl.ChooseOpt's opt=refresh row.
accessTokenStale ==
    run.uid /\ run.rt # NoTok /\ (run.at = NoTok \/ run.age = "old")

AskIfStale ==
    /\ pc = "stale"
    /\ ~run.refreshed
    /\ accessTokenStale
    /\ AskRefresh("staleReply")

SkipRefresh ==
    /\ pc = "stale"
    /\ run.refreshed \/ ~accessTokenStale
    /\ Goto("look")
    /\ Smooth
    /\ UNCHANGED <<disk, run, reply, gsl, calm, pastVars, tally>>

\* A variant that gives up when GSL refuses the refresh token.
StaleReplyGiveUp ==
    /\ pc = "staleReply"
    /\ TakeRefreshedTokens("look", run.retry) \/ RefreshFailed

\* Without an access token to fall back on a failed refresh ends the run; with
\* one the run tries it, since it may still work.
StaleReply ==
    /\ pc = "staleReply"
    /\ \/ TakeRefreshedTokens("look", run.retry)
       \/ run.at = NoTok /\ RefreshFailed
       \/ /\ run.at # NoTok
          /\ ~Refreshed
          /\ reply' = NoReply
          /\ LoseIf(Rotated)
          /\ Goto("look")
          /\ Smooth
          /\ UNCHANGED <<disk, run, gsl, calm, tally>>

-----------------------------------------------------------------------------
(* The game server's address, and the Login. *)

\* Whether this run can look its game server up with GSL getserverlist.
CanLook == run.flags.rt = NoTok /\ run.gate /\ run.uid /\ run.at # NoTok

MustLook == CanLook /\ run.addr = NoAddr

LookupRefused == run.dev \in gsl.revoked

LookBeforeDial ==
    /\ pc = "look"
    /\ MustLook
    /\ \/ /\ Smooth
          /\ ~LookupRefused
          /\ run' = [run EXCEPT !.addr = gsl.home, !.lookedUp = TRUE]
          /\ Count("lookups")
          /\ Goto("mint")
          /\ UNCHANGED reply
       \/ Smooth /\ LookupRefused /\ Exit(2)
       \/ Fault /\ Exit(1)
    /\ UNCHANGED <<disk, gsl, calm, pastVars>>

HaveAddress ==
    /\ pc = "look"
    /\ ~MustLook
    /\ Smooth
    /\ IF run.addr = NoAddr \/ ~run.uid
         THEN Exit(1)
         ELSE /\ Goto("mint")
              /\ UNCHANGED <<run, reply, tally>>
    /\ UNCHANGED <<disk, gsl, calm, pastVars>>

\* mintShumeiBoxID: the install of another device is replaced in this run, but
\* stays in a config that is not this device's (saveShumeiInstall).
Mint ==
    /\ pc = "mint"
    /\ Goto("login")
    /\ IF run.flags.gen
         THEN /\ run' = [run EXCEPT !.inst = run.dev]
              /\ \/ Fault /\ disk' = disk
                 \/ Smooth /\ disk' = IF MaySave THEN [disk EXCEPT !.inst = run.dev]
                                                 ELSE disk
         ELSE Smooth /\ UNCHANGED <<run, disk>>
    /\ UNCHANGED <<reply, gsl, calm, pastVars, tally>>

\* What errors.Is finds in the error of a failed Login.
Wraps(err) ==
    CASE err = "ended" -> {"ErrSessionEnded"}
      [] err = "E011" -> {"ErrTokenRejected", "ErrAuthRejected"}
      [] err = "blocked" -> {"ErrAccountBlocked", "ErrAuthRejected"}
      [] err = "rejected" -> {"ErrAuthRejected"}
      [] err = "net" -> {"net.Error"}
      [] err = "other" -> {}

ExitCode(err) ==
    IF "ErrSessionEnded" \in Wraps(err) THEN 3
    ELSE IF "ErrAccountBlocked" \in Wraps(err) THEN 4
    ELSE IF "ErrAuthRejected" \in Wraps(err) THEN 2
    ELSE 1

connectFailed(err) ==
    /\ "net.Error" \in Wraps(err)
    /\ {"ErrAuthRejected", "ErrSessionEnded"} \cap Wraps(err) = {}

\* The outcomes of DoCrossServerLogin: the server accepts the token in force for
\* the device, redirecting a Login that reached an old address or not answering
\* it; an empty token is never sent.
LoginErrors ==
    IF run.at = NoTok THEN {"other"}
    ELSE (IF run.addr # gsl.home THEN {"net"} ELSE {})
         \cup (IF run.at # At(run.dev) THEN {"E011"} ELSE {})

LoginFaults == {"net", "ended", "blocked", "rejected", "other"}

LoginOk ==
    /\ pc = "login"
    /\ run.at = At(run.dev)
    /\ Smooth
    /\ run' = [run EXCEPT !.addr = gsl.home]
    /\ Count("logins")
    /\ Goto("saveback")
    /\ UNCHANGED <<disk, reply, gsl, calm, pastVars>>

MayLookAgain(err) ==
    /\ run.retry = "none"
    /\ CanLook
    /\ ~run.lookedUp
    /\ connectFailed(err)

\* A variant that only refreshes what is 30 days old.
MayRefreshStale(err) ==
    /\ "ErrTokenRejected" \in Wraps(err)
    /\ accessTokenStale
    /\ ~run.refreshed

\* Once per run: a token rejected right after a refresh won't improve.
MayRefresh(err) ==
    /\ run.retry # "refreshed"
    /\ "ErrTokenRejected" \in Wraps(err)
    /\ run.rt # NoTok
    /\ ~run.refreshed

LoginFailed(err) ==
    /\ pc = "login"
    /\ \/ Smooth /\ err \in LoginErrors
       \/ Fault /\ run.at # NoTok /\ err \in LoginFaults
    /\ IF MayLookAgain(err) THEN Goto("relook") /\ Count("logins") /\ UNCHANGED <<run, reply>>
       ELSE IF MayRefresh(err) THEN Goto("e011") /\ Count("logins") /\ UNCHANGED <<run, reply>>
       ELSE Exit(ExitCode(err))
    /\ UNCHANGED <<disk, gsl, calm, pastVars>>

\* The lookup after a connect failure; when it fails or names the same server,
\* the run ends with the Login's own error.
LookAgain ==
    /\ pc = "relook"
    /\ \/ /\ Smooth
          /\ ~LookupRefused
          /\ run.addr # gsl.home
          /\ run' = [run EXCEPT !.addr = gsl.home, !.retry = "looked"]
          /\ Count("lookups")
          /\ Goto("login")
          /\ UNCHANGED reply
       \/ /\ Smooth
          /\ LookupRefused \/ run.addr = gsl.home
          /\ Exit(ExitCode("net"))
       \/ Fault /\ Exit(ExitCode("net"))
    /\ UNCHANGED <<disk, gsl, calm, pastVars>>

AskAfterE011 ==
    /\ pc = "e011"
    /\ AskRefresh("e011Reply")

E011Reply ==
    /\ pc = "e011Reply"
    /\ TakeRefreshedTokens("login", "refreshed") \/ RefreshFailed

-----------------------------------------------------------------------------
(* After the Login. *)

\* A variant that compares with the address after the lookup.
SaveBackNeededAfter == run.at # run.orig.at \/ run.uid # run.orig.uid

\* What the Login used differs from what the run started with.
crossServerSaveBackNeeded ==
    run.addr # run.orig.addr \/ run.at # run.orig.at \/ run.uid # run.orig.uid

\* The whole config, under the run's device.
SaveBackConfig ==
    [dev |-> run.dev, inst |-> IF run.inst = run.dev THEN run.dev ELSE NoDev,
     at |-> run.at, age |-> run.age, rt |-> run.rt,
     addr |-> run.addr, uid |-> run.uid]

SaveBack ==
    /\ pc = "saveback"
    /\ Goto("play")
    /\ IF ~run.flags.noConfig /\ crossServerSaveBackNeeded
         THEN \/ Smooth /\ disk' = SaveBackConfig
              \/ Fault /\ UNCHANGED disk
         ELSE Smooth /\ UNCHANGED disk
    /\ UNCHANGED <<run, reply, gsl, calm, pastVars, tally>>

\* The init push, the features, collecting and interactive mode.
Play ==
    /\ pc = "play"
    /\ \/ Smooth /\ Exit(0)
       \/ Fault /\ (Exit(0) \/ Exit(1) \/ Exit(3))
    /\ UNCHANGED <<disk, gsl, calm, pastVars>>

-----------------------------------------------------------------------------
(* Crashes, and what happens elsewhere (not part of src). *)

Crash ==
    /\ pc # "idle"
    /\ Fault
    /\ Exit(137)
    /\ LoseIf(Rotated)
    /\ UNCHANGED <<disk, gsl, calm>>

Elsewhere ==
    /\ ~calm
    /\ budget > 0
    /\ budget' = budget - 1
    /\ faulty' = (faulty \/ pc # "idle")
    /\ \/ \E d \in Devices :
            /\ gsl.at[d] < MaxGen
            /\ gsl' = [gsl EXCEPT !.at[d] = @ + 1]
            /\ UNCHANGED disk
       \/ \E d \in Devices \ gsl.revoked :
            /\ gsl' = [gsl EXCEPT !.revoked = @ \cup {d}]
            /\ UNCHANGED disk
       \/ \E addr \in Addrs \ {gsl.home} :
            /\ gsl' = [gsl EXCEPT !.home = addr]
            /\ UNCHANGED disk
       \/ \* thirty days pass
          /\ pc = "idle"
          /\ disk.age = "fresh"
          /\ disk' = [disk EXCEPT !.age = "old"]
          /\ UNCHANGED gsl
    /\ UNCHANGED <<run, pc, reply, calm, last, pastVars, tally>>

CalmDown ==
    /\ pc = "idle"
    /\ ~calm
    /\ calm' = TRUE
    /\ UNCHANGED <<disk, run, pc, reply, gsl, budget, last, faulty, pastVars, tally>>

-----------------------------------------------------------------------------
Init ==
    /\ gsl \in [at : {[d \in Devices |-> 1]}, rt : {[d \in Devices |-> 1]},
                revoked : {{}}, home : Addrs]
    /\ disk \in Configs
    /\ run = NoRun
    /\ pc = "idle"
    /\ reply = NoReply
    /\ calm = FALSE
    /\ budget = MaxEvents
    /\ last = 0
    /\ faulty = FALSE
    /\ lost = {}
    /\ mixed = FALSE
    /\ tally = NoTally

RunStep ==
    \/ CheckVersion
    \/ AskCsRt \/ CsRtFailed \/ CsRtRefreshed
    \/ AskIfStale \/ SkipRefresh \/ StaleReply
    \/ LookBeforeDial \/ HaveAddress \/ Mint
    \/ LoginOk \/ (\E err \in LoginFaults \cup {"E011"} : LoginFailed(err))
    \/ LookAgain \/ AskAfterE011 \/ E011Reply
    \/ SaveBack \/ Play

Next ==
    \/ StartPlainRun
    \/ \E flags \in FlagSets : StartFlaggedRun(flags)
    \/ RunStep
    \/ Crash
    \/ Elsewhere
    \/ CalmDown

SafeSpec == Init /\ [][Next]_vars

\* A run that was started goes on, and the schedule starts the next one.
Spec == SafeSpec /\ WF_vars(RunStep) /\ WF_vars(StartPlainRun)

-----------------------------------------------------------------------------
(* Properties. *)

Asking == {"csrtReply", "staleReply", "e011Reply"}

PcValues == Asking \cup {"idle", "version", "csrt", "stale", "look", "mint",
                         "login", "relook", "e011", "saveback", "play"}

Locals == [flags : Flags, dev : Devices, at : Token, age : Age, rt : Token,
           addr : Addrs \cup {NoAddr}, uid : BOOLEAN,
           inst : Devices \cup {NoDev}, orig : SessionConfig, gate : BOOLEAN,
           refreshed : BOOLEAN, lookedUp : BOOLEAN,
           retry : {"none", "looked", "refreshed"}]

Reply == [kind : {"none", "ok", "net", "code", "reauth"}, at : Token,
          age : Age, rt : Token, obj : BOOLEAN, addr : Addrs \cup {NoAddr}]

Gsl == [at : [Devices -> 1 .. MaxGen], rt : [Devices -> 1 .. MaxGen],
        revoked : SUBSET Devices, home : Addrs]

Tally == [asked : Nat, refreshed : Nat, logins : Nat, lookups : Nat]

TypeOK ==
    /\ disk \in SessionConfig
    /\ run \in Locals
    /\ pc \in PcValues
    /\ reply \in Reply
    /\ gsl \in Gsl
    /\ calm \in BOOLEAN
    /\ budget \in 0 .. MaxEvents
    /\ last \in {0, 1, 2, 3, 4, 137}
    /\ faulty \in BOOLEAN
    /\ lost \subseteq Devices
    /\ mixed \in BOOLEAN
    /\ tally \in Tally

\* A config that names its device holds only that device's tokens, whatever
\* runs under other devices wrote to it or were started from it.
TokensOfOwner ==
    (disk.dev # NoDev /\ ~mixed) => {disk.at.dev, disk.rt.dev} \subseteq {NoDev, disk.dev}

\* The refresh token on file is the one in force for its device, also after a
\* crash at any point and whatever the runs before it did, unless a new one is
\* just arriving, or GSL's reply was lost or its save failed or was refused.
RefreshTokenKept ==
    /\ disk.rt # NoTok
    /\ disk.rt.dev \notin lost
    /\ ~(Rotated /\ run.dev = disk.rt.dev)
    => disk.rt = Rt(disk.rt.dev)

\* No save drops the refresh token of the config's device or puts an older one
\* back.
RefreshTokenNeverOlder ==
    [][(disk.rt # NoTok /\ disk'.dev = disk.dev) =>
         disk'.rt # NoTok /\ (disk'.rt.dev = disk.rt.dev => disk'.rt.n >= disk.rt.n)]_vars

\* One run refreshes at most once with success, asks at most twice, looks the
\* server up at most once and logs in at most three times.
BoundedRetries ==
    /\ tally.refreshed <= 1
    /\ tally.asked <= 2
    /\ tally.lookups <= 1
    /\ tally.logins <= 2 + tally.refreshed

\* The run's device has no credentials left.
CredentialsGone ==
    \/ run.dev \in gsl.revoked
    \/ run.at # At(run.dev) /\ run.rt # Rt(run.dev)

\* Exit code 2 tells the truth: a run without flags in which nothing went wrong
\* ends with it only when its device has no credentials left.
StaleExitIsTrue ==
    [][(pc # "idle" /\ pc' = "idle" /\ last' = 2 /\ ~faulty' /\ run.flags = NoFlags)
         => CredentialsGone]_vars

\* What worked is on file: once a plain run in which nothing went wrong has
\* logged in and saved, the config leads the next run straight to it. Only a
\* new refresh token that the file may not take is missing from it.
WorkingSessionSaved ==
    (pc = "play" /\ run.flags = NoFlags /\ ~faulty) =>
        /\ disk.at = run.at
        /\ disk.addr = run.addr
        /\ disk.rt = run.rt \/ run.dev \in lost

\* A credential in force that a run can use. A refresh token needs a file that may
\* take the new one, or an address that is right: a refresh after an E011 is not
\* followed by a lookup, and what the run then held is gone with it.
Recoverable ==
    LET d == IF disk.dev = NoDev THEN LocalDev ELSE disk.dev
    IN  /\ d \notin gsl.revoked
        /\ disk.uid
        /\ \/ disk.at = At(d)
           \/ /\ disk.rt = Rt(d)
              /\ Owner \in {NoDev, d} \/ disk.addr \in {NoAddr, gsl.home}

\* Once nothing fails any more, a config with one working credential leads to a
\* Login, wherever its address points and however old its access token is.
Heals == (calm /\ pc = "idle" /\ Recoverable) ~> (calm /\ pc = "play")
=============================================================================
