# TLA+ models of lastwar-client

This directory holds the TLA+ specifications of the Go client in `src/`: what
its components do, step by step, what they promise, TLC configurations that check
the promises on small instances, and proofs, checked by TLAPS, of the promises
that matter most for every value of the constants.

The client logs in to a game server over TCP (SmartFoxServer frames), runs
once-a-day chores there and leaves. It is run by a schedule, again and again and
without anybody watching, over a few small files: a device identity and, for the
servers a captured or own session leads to, a *session config* with the tokens.
A run that goes wrong is rarely repaired by hand. The hard part of the code is
therefore not any one request; it is what is left behind, on the socket and on
disk, after a step that failed, came late, came twice or was interrupted.

Contents: [inventory](#1-inventory), [plan](#2-plan), the modules
([GameConn](#3-gameconn-one-connection), [CrossServerRun](#4-crossserverrun-runs-over-one-session-config),
[DeviceIdentity](#5-deviceidentity-the-first-id-of-a-state-directory),
[OwnDevice](#6-owndevice-runs-of-the-clients-own-device),
[SpendRun](#7-spendrun-the-features-that-spend),
[AfterLogin](#8-afterlogin-from-the-login-to-the-exit-code),
[CollectCore](#9-collectcore-the-core-of-a-collect-run),
[FeatureRun](#10-featurerun-order-duel-and-event-claims),
[DigRun](#11-digrun-the-radar-and-the-digs),
[SfsCodec](#12-sfscodec-objects-on-the-wire-and-in-the-log),
[ServerClock](#13-serverclock-the-servers-time)), [runs](#14-runs-and-bounds),
[fairness](#15-fairness), [proofs](#16-proofs), [findings](#17-where-the-code-and-its-documentation-disagree),
[what is left out](#18-what-is-not-modelled).

## 1. Inventory

Sizes are non-test lines. "Holds" is state that outlives a call.

### Connection (`internal/session/conn.go`, `wire.go`, `errors.go`; `internal/sfs/packet.go`)

- **Holds** the socket, the write mutex `wmu`, the `ended` error of a terminal
  push, the extension counter `extSent`, the stop channel of the heartbeat; the
  reader's place in the stream is state too, although no field keeps it.
- **Operations**: `Dial`, `StartHeartbeat` and its goroutine, `SendEnvelope`,
  `SendExtension`, `ReadEnvelope`, `WaitFor`, `WaitForCmd`, `SendAndWait`, `Close`.
- **Interacts** with everything: each caller sends and waits, one request at a
  time; the heartbeat goroutine only sends, and closes the socket when it cannot.
- **Hard**: two goroutines on one socket; deadlines in the middle of a frame, of a
  read and of a write; a peer that stalls, vanishes or ends the session; answers that
  come after their wait was given up.
- **Correct** when frames do not interleave, ids are unique, the stream stays in
  step or the session ends, every send and every wait returns, and the heartbeat ends.

### Server clock (`internal/session/clock.go`, `internal/game/clock.go`)

- **Holds** the best pong so far: base, host time, round trip. The heartbeat's
  pongs feed it; features compare game timers with it.
- **Correct** when a late, repeated or senseless pong does not move it more than its
  round trip allows.

### Base-zone and email login (`internal/auth/login.go`, `roles.go`)

- **Holds** nothing itself; reads and writes the identity files (gameUid, loginKey,
  username).
- **Operations**: `Login`: the server list from GSL, dial, the Login request, up to
  three `serverInfo` redirects each on a new connection, the init push, and with
  `-email` the verification that binds the device to an account.
- **Hard**: each redirect and each error path owns a connection; the two saves of a
  binding are two files; the list may name another role than the one on file.
- **Correct** when one connection is open at a time and none after an error, and the
  role on file stays the role that was bound.

### Cross-server login (`internal/auth/crossserver.go`)

- **Operations**: `DoCrossServerLogin` over a list of gateways, with redirects; its error
  kinds decide what the run does next.

### Identity and state files (`internal/auth/identity.go`)

- **Holds** the files `device-id`, `gameUid`, `loginKey`, `username`.
- **Operations**: load or create, exclusive creation by `link`, atomic replace by
  rename, the self-heal of an empty file.
- **Hard**: several runs may start on an empty directory at once; a crash of an earlier
  version may have left an empty file.
- **Correct** when all runs end up with one device id and no run is stuck.

### Own device (`internal/auth/owndevice.go`, `internal/app/owndevice.go`)

- **Operations**: with `-own-device-session`, bind the device if it is not bound, then
  trade the loginKey for a session config.
- **Correct** when the config it writes is the bound role's.

### Tokens and server lookup (`internal/auth/refresh.go`, `serverlookup.go`; `internal/gsl/gsl.go`)

- **Operations**: GSL requests `opt=refresh`, `getserverlist`, `login`, `fix`, `new`; GSL
  rotates tokens, so a reply that is lost is a token that is lost.

### Update gate and resource version (`internal/auth/updategate.go`, `resversion.go`)

- Parsing of check-version's answer; no state.

### Session config and application run (`internal/app/config.go`, `main.go`, `features.go`)

- **Holds** the session config file: device, install, tokens, address, gameUid.
- **Operations**: merge with the flags, refresh, look up, register an install, Login,
  retry, save back, run the features, exit code.
- **Hard**: every recovery (refresh, lookup, second Login) is guarded by what the others
  left behind in the same local variables; saves happen at three places under three
  rules; a run under another device works on the same file.
- **Correct** when tokens are never lost, put back or given to another device, a run
  asks a bounded number of times, and a config that can still work does work again.

### Interactive mode (`internal/app/interactive.go`)

- **Operations**: commands from a control pipe; reopening with bounded retries; a signal
  handler that closes and exits.
- **Hard**: the loop and the handler both end the process.

### Feature runner, rewards and tripwire (`internal/game/features.go`, `reward.go`, `tripwire.go`, `duel.go`, `activities.go`)

- **Holds** the tripwire file, which stops all later spending until an operator removes it;
  per run the claim lists, the activity replies and the duel of the day.
- **Operations**: enabled features in phase order; a feature's error is logged, a dead
  connection stops the run; a spend that cost diamonds trips the wire.
- **Hard**: three flags in memory and one file, each read by some features, before each spend or once.
- **Correct** when nothing is spent after a trip, in this run or a later one, and nothing is sent
  on a dead connection.

### Init push, buildings, visitors, mail (`internal/game/buildings.go`, `visitors.go`, `mail.go`)

- **Operations**: gather buildings from pushes until they are complete or a cap is met;
  collect each once; claim mail rewards in batches.
- **Correct** when caps and de-duplication hold over any pushes and each item is asked
  for once.

### Features (`internal/game/feature_*.go`, `alliance.go`, `dig_games.go`, `railway_squads.go`, `worldpoint_proto.go`)

- Some forty, most of one shape: ask for a list, claim what is due, skip benign refusals,
  stop on a dead connection. Those with a protocol of several requests: treasure digs, dig
  vaults, secret tasks, speedups, recruit tickets, radar, fireworks, railway.

### Codec, crypto, captures, fingerprint (`internal/sfs`, `internal/crypto`, `internal/pcap`, `internal/shumei`)

- SFS2X objects (nesting and size limits), AES/RSA, TCP reassembly of captured traffic, the
  device fingerprint and its registered install. Pure, but for the install.

### Generated tables and their generators, test fixtures

- `*_gen.go`, `internal/game/gen*/`, `internal/testutil` and the `testsupport.go` files: no behaviour of a run.

### How the parts meet

A run starts in `main`, which loads the session config or the identity files, gets an
address and tokens (GSL), and logs in over a fresh connection. From then on the main
goroutine owns reading, and shares writing with the heartbeat. Features call
`SendAndWait`; what `errors.As` finds in their error decides whether the next one runs.
The end of a run is its exit code, read by the schedule. `PROJECT.json` lists the hazards
of this design, each at its line.

## 2. Plan

Order of the work, the most important behaviour first:

| | Module | Abstract specification | Composes |
|-|-|-|-|
| done | `GameConn` | `SessionUse`: one request at a time, none on a broken connection | main flow, heartbeat, server |
| done | `CrossServerRun` | none: its promises are about files over many runs | runs, GSL, schedule, operator |
| done | `DeviceIdentity` | `OneDevice`: one id, learned by all | any number of runs |
| done | `OwnDevice` | none | login, binding, trade, GSL, servers |
| done | `SpendRun` | none: its promises are about the tripwire over many runs | runner, tripwire file and flags, seven features |
| done | `AfterLogin` | uses `CollectPromise` in the place of collecting | `InitPush`, `Interactive`, the signal |
| done | `CollectCore` | `CollectPromise`: errors are joined, a loss ends it | `PushLists`, mail, alliance, VIP, buildings |
| done | `FeatureRun` | none | `EventClaims` over `ActivitySweep`, the duel |
| done | `DigRun` | none | `Radar` and the boards of `DigBoard`, one connection |
| done | `SfsCodec` | reference definitions of size, length and cost | decode, encode and print of one object |
| done | `ServerClock` | none | heartbeat, pongs |
| next | `CrossServerLogin` | `LoginAttempt`: one outcome, no connection left open | gateways, redirects; the outcomes are those of `CrossServerRun` |
| later | the other features that claim or act | | fireworks, railway plunder, alliance extras, trucks, treasures |
| later | pure algorithms | reference definitions | `PickServer`, `ChooseOpt`, TCP reassembly |

Theorems worth proving next: with `CrossServerLogin`, that its outcomes are those `CrossServerRun` assumes. Every safety invariant
that a run checks is proved. All modules are written for that: no RECURSIVE operator, and named assumptions on their constants.
A loop of the code over a list is a fold (`FoldLeft`) of a named operator, and its recursion down nested objects an explicit stack
or a function of the depth; `FoldInduction` has the induction for both.

## 3. GameConn: one connection

`GameConn.tla` is one connection from `Dial` to `Close`: the main goroutine, the heartbeat
goroutine, and the server with the network, as the code has to cope with them.

| In the model | In the code |
|-|-|
| `conn`, `stop` | the socket is closed; the channel that ends the heartbeat |
| `ended` | `GameConn.ended`, set by `endIfTerminalPush` |
| `extSent` | the counter behind `_id` |
| `wmu` | the write mutex |
| `pc[p]` | where a goroutine is: between operations, before the ended check, at the mutex, writing, at the top of a wait, before a frame's header, in its body, finished |
| `stage` | dialed, first ping sent, logged in, running |
| `mid` | part of a frame has been consumed |
| `wait` | the counters of a wait and whether its deadline has passed |
| `peer`, `down`, `answered` | the server: up, taking no bytes, gone; frames on their way; what it has answered |
| `wire`, `torn`, `late`, `desync`, `accepted`, `timedOut` | history, read by properties only |

`Check`, `Lock` and the `Write...` actions are `SendEnvelope` in its order: the ended check,
the mutex, the write under its deadline. They are three steps because the other
goroutine can run between them. `SendExtension` numbers a request before it can be refused.
`ReadHeader` and `FrameRead` are `sfs.ReadPacket` split where a deadline hurts: after the
header byte any failure is a `DeadConnError`. `TakeAnswer`, `SkipEnvelope`,
`SkipUndecodable` and `ReadTerminalPush` are the branches of `WaitFor`, with both of its
limits. `ServerAnswer`, `ServerSend`, `PeerChange` and `Expire` are the environment.

A frame is what the read loops tell apart: an answer to a request, another good
envelope, one that does not decode, a terminal push. A frame with a length over the limit is
a `bad` one met in the body. A wait's deadline passes at any moment.

`SessionUse.tla` is the promise to the caller: one request out at a time, each settled, and
a broken stream only after the caller has stopped. `GameConn` implements it with `over` mapped
to "the main flow has given up or is done", `pending` to "sending or waiting", `broken` to
"ended, or a request went out in part, or the reader stands inside a frame nobody reads".

What the properties say: after a terminal push no request goes out and at most one ping (`OneLatePing`); a wrong
answer is always a late one of the same cmd (`StaleOnlyAfterTimeout`); the caller's view is that of `SessionUse`
(`ImplementsSessionUse`); sends and waits return and the heartbeat ends (`SendsReturn`, `WaitReturns`,
`HeartbeatStops`). Proved on the way to them: frames never interleave (`WriteMutex`), ids on the wire grow
(`UniqueIds`), no read starts inside a frame (`NoDesync`), and nothing follows a request written in part
(`NothingAfterTornRequest`).

## 4. CrossServerRun: runs over one session config

`CrossServerRun.tla` is `runCrossServerTest` (`internal/app/main.go`), run after run, with the
config file's rules (`internal/app/config.go`) and GSL's side of a refresh.

| In the model | In the code |
|-|-|
| `disk` | the session config file |
| `run` | the function's locals: device, tokens, address, what the run started from (`orig`), what it has already tried |
| `pc` | how far the function has come |
| `reply` | GSL's answer to the refresh under way |
| `gsl` | the tokens in force per device, the devices refused, the address the role lives at |
| `budget`, `calm` | events left; nothing goes wrong any more |
| `last` | the exit code |
| `lost`, `mixed`, `faulty`, `tally` | history: tokens this client could not keep; a config without a device took another device's tokens; something went wrong in this run; what this run asked for |

`StartRun` is the merge of config and flags; `CheckVersion`; `AskCsRt`, `CsRtFailed` and
`CsRtRefreshed` are `-cs-rt`; `AskIfStale`, `SkipRefresh` and `StaleReply` the refresh before
the Login; `LookBeforeDial` and `HaveAddress` the lookup; `Mint` the registration of an
install; `LoginOk`, `LoginFailed` with `MayLookAgain` and `MayRefresh` the attempt and
its two recoveries, `LookAgain`, `AskAfterE011` and `E011Reply` their steps; `SaveBack` the
save after the Login; `Play` the rest. `Crash` can happen at any step. `Elsewhere` is what the
code does not see: tokens rotated by the phone, a device refused, the role moved, thirty days.

A token is the device it was issued to and a generation. An address stands for
gateways, port and zone. The Login is one step with the error kinds of
`internal/session/errors.go` and `internal/auth`; its hops are planned as `CrossServerLogin`.

A config without `deviceId` is taken to be its install's device's, or anybody's. That is
intended (the tests of `main_refresh_test.go` say so) and it means such a config may accept another
device's tokens; `mixed` marks that, and `TokensOfOwner` is about every other config. A
save-back under `-cs-deviceid` rewrites the whole config under the run's device; the
comment at `config.go:57` documents it, and `TokensOfOwner` covers what it leaves.

What the properties say: a config that names its device holds only that device's tokens
(`TokensOfOwner`); the refresh token on file is the one in force (`RefreshTokenKept`), except when
GSL's reply never arrived, lacked the access token, or could not be saved; what worked
is on file, so that the config leads the next run straight to it, and only a new refresh token that the file may not take is missing
(`WorkingSessionSaved`); exit code 2 means the session is dead (`StaleExitIsTrue`); a config with one working credential leads to a
Login once nothing fails (`Heals`). `Recoverable` is what counts as working: a refresh token needs a file that may take its
successor, or an address that is right (section 17, item 3). Proved beside them: no
save puts an older refresh token back (`RefreshTokenNeverOlder`), and retries are bounded (`BoundedRetries`).

## 5. DeviceIdentity: the first id of a state directory

`DeviceIdentity.tla` is `LoadOrCreateDeviceIdentity` (`internal/auth/identity.go`) as any number of
runs may execute it at the same time. `file` is the `device-id` file; `at[p]` is where the
load of run `p` stands: reading, writing its temporary file, linking, rereading after somebody
else's link, replacing an empty file. `own[p]` is the id it drew or read. `FailLoad` is an I/O
error at any of these steps; `Drop` is the end of the run, a crash included.

`OneDevice.tla` is the promise: there is one id, the first run creates it and each other learns it. Its one
exception, `Replace`, is allowed only in a directory an empty file was left in: two runs that
meet that file together may both replace it, and the first then goes by an id that is no longer
on file. The self-heal is a plain rename, so the code cannot exclude this; the refinement shows
there is no other way to it.

## 6. OwnDevice: runs of the client's own device

`OwnDevice.tla` composes `Login` (`internal/auth/login.go`), `bindOwnDevice` and the trade
(`internal/auth/owndevice.go`, `internal/app/owndevice.go` and `main.go`) over the gameUid and loginKey files,
for runs that follow one another.

| In the model | In the code |
|-|-|
| `uidFile`, `keyFile` | the gameUid and loginKey files |
| `config` | the session config the trade writes |
| `step`, `run` | how far the run has come; its flags and the identity it holds in memory |
| `conns` | connections that are open |
| `shard` | the shard each role is on (a gameUid names a role on a shard) |
| `bound`, `adopted` | history: the role first bound in full; a Login took another role from GSL's list |

`AskGsl` is the list (`gslOptFor`, `PickServer`) and the adoption of its gameUid; `Dial`,
`LoginAccepted`, `Redirect`, `TooManyRedirects` and `InitDone` the Login; `TakeRole`, `NoSuchRole`,
`SaveKey` and `SaveUid` the last message of the email verification and its two saves;
`Trade` and `NothingToTrade` the trade. A save that fails is logged and the run goes on, as in the code.
The verification's other messages change nothing: those before the code are one step with the last one before them, those after it one with
the push that brings the account. Between them the run waits for the operator, on stdin or on `-code-pipe`, and `EnterCode` is the code's
arrival; an input that is closed without one is a `Fail`. The username file is left out because only logs read it. A redirect names the role's own gameUid or none. A
binding push without a gameUid or loginKey counts as the save that fails.

What the properties say: a binding that was saved stays (`BindingKept`); a fresh device's config is the asked role's (`AskedRoleTraded`); a
run that has begun ends, or waits for the code for good, or was to play and is logged in (`RunsEnd`). The last two are the operator's: the
wait for the code has no deadline (the comment at `login.go:966-969` says that the process can sit there idle), and `-interactive` goes on as long as it
is kept.

`AskedRoleTraded` is stated for a device with no role on file. That is needed: when an
earlier binding saved its gameUid but not its loginKey, and a later binding with `-server`
saves its loginKey but not its gameUid, the trade writes the earlier role's config and exits
with 0. It takes two failed saves.

## 7. SpendRun: the features that spend

`SpendRun.tla` is one `-collect` run after another over the features that spend what the account
owns, with the runner that executes them (`internal/game/features.go`) and the diamond tripwire
(`tripwire.go`). Each request is meant to cost items only. Whether it cost diamonds shows in a balance
that some replies and pushes carry; a fall trips the wire, which is a flag in memory and a file
beside the session config.

| In the model | In the code |
|-|-|
| `path`, `file` | the tripwire file has a path; it exists |
| `trip` | `duelSpendHalted`, `duelSpeedupsTrip`, `digsTrip` |
| `pos`, `pc` | the feature that runs and where it stands: about to run, between requests, waiting for a reply |
| `gold`, `initGold`, `base` | the balance on the server, in the init push, and the one a feature compares with |
| `barred`, `probe` | the guard's `tripped` (and `spendRefused`); its gold check carries a balance |
| `left`, `calls`, `ledger`, `room`, `pool` | what is still to do, the caps, the item ledger, the stock's room, the recruit pool in hand |
| `day`, `dead` | the duel day; a request has failed with a dead connection |
| `held`, `used`, `saw` | history: items held and asked for, and who has seen a fall |

`StartRun`, `LogDuelStatus`, `Skip`, `Breaks` and the `Return` of each feature are `Collect` and
`RunFeatures`; `Trip` and `Refused` are `tripwireTrip` and `tripwireErr`, where the file can fail
to be written. `ReadsGold` and `ReadsCount` are `duelSpendGuard.observe`, which sees every
message read while a reply is awaited. `Recruit...` and `Train...` are the guarded features,
`Speedups...`, `Secret...` and `Digs...` those with checks of their own, `DigGame...` the `digsRun` games:
`treasure-hunt`, and `season-dig` for the vault games, which send only what is free but compare balances as
well. `GoldMoves`, `DayEnds`, `Killed` and `ClearTripwire` happen at any moment.

Which pool, job, camp, task or brick comes next is a choice; items of every kind are one count. Two guards of
`treasure-digs` (150 opens, 40 claims) share the counter `calls`. Processes follow one another, because
a second login ends the first.

What the properties say: no spend is sent while the tripwire file exists, by the run that wrote it or a
later one (`FileStopsSpends`); a feature that saw a fall spends no more in its process, file or not
(`SeenDropStopsItsOwn`); no feature asks for more than was held or granted, over lost replies, refusals
and pushed counts (`WithinHeld`); every run ends (`RunEnds`).

## 8. AfterLogin: from the Login to the exit code

`AfterLogin.tla` is what a run does once its Login is answered (`main` and `runCrossServerTest` in
`internal/app/main.go`), on both login paths, up to the exit code that the schedule reads.

| In the model | In the code |
|-|-|
| `path`, `mode`, `inter` | the email or the cross-server login; nothing, `-collect` or `-run`; `-interactive` |
| `stage` | which part of `main` runs |
| `InitPush` | `waitForInitPush` (`login.go`) and `fetchInit` (`buildings.go`): deadline, two counters, the lists |
| `now`, `deadline` | time in ticks, and when the wait gives up |
| `CollectPromise` | what collecting and the features do to the connection and to the errors |
| `ipc`, `tries`, `scanErrs`, `cause` | `RunInteractive`'s main goroutine: pipe, lines, its failure |
| `sig`, `stopping` | the signal goroutine and `interactiveShuttingDown` |
| `known` | history: every failure `main` was told of |

`LoginTop` sends `login.init` at half of the wait; `ReadExpires` tells that timeout from the last one. `FetchInitPush`,
`FetchBuildPush` and `FetchAddPush` are the three pushes that fill the lists, with `CapDeadline`. `Judge` is
`exitIfSessionEnded` followed by `shouldAbortBeforeInteractive`; `Notify` is `check.device.change`; `Break` is
the connection lost, or the session ended, at any moment. The signal's three steps (caught, flag stored, connection
closed, then exit) interleave with every step of the main goroutine. `PushLists.tla` has the lists that the
pushes fill: cap, de-duplication, entries without a uuid.

What the properties say: a wait that gives up in silence has waited its whole budget, and the login's has asked
for init by then (`WaitsForInit`: a secondary push never cuts the wait for init short); the exit code tells what
`main` was told, 3 for an ended session before 1 for any other failure that counts (`ExitTellsAll`); the
main goroutine never exits 1 over the signal goroutine's own close (`NeverBlamesShutdown`); every run ends or comes to
interactive mode, and there a signal ends it (`RunEnds`).

Two outcomes the properties allow because the code has them: `-run` with `-interactive` tolerates a fetch that failed on a connection
that stays up and exits with the feature's result; and a signal that comes between the check of the flag and `os.Exit(1)` does
not change that exit.

## 9. CollectCore: the core of a collect run

`CollectCore.tla` is `collectCore` (`internal/game/buildings.go`) with all its requests: idle rewards, visitors
(`visitors.go`), mail (`mail.go`), the alliance's help, gifts and technology (`alliance.go`), the VIP dailies
(`vip.go`) and the buildings whose production is ready.

| In the model | In the code |
|-|-|
| `raw` | there is an init push (`Init.Raw`), so that lists and flags are known |
| `step`, `queue` | the action that runs, what its loop has still to ask for |
| `toCollect`, `visitors`, `mail` | the lists, as filtered, received or read page by page |
| `page`, `claims`, `offer` | pages read, claim batches sent, what an action found to claim |
| `errs` | the joined error |
| `asks`, `faults`, `late`, `cut` | history: how often each item was asked for, every failure, a request after a loss, a list cut by a cap |

`ProductionReady` is the arithmetic of `buildings.go:1043-1098`: a line's start, its tick, its end and the last
collection, aligned. `BatchByCountAndBytes`, `TruncateMailBatches` and `TakeMail` are the mail's limits. A request
is refused, times out, or finds the connection lost or ended; `NextAction` is what the code does with that.

`CollectPromise.tla` is what the rest of a run builds on: errors are joined, a broken connection ends the core at
once and is among its errors, and the core ends. `CollectCore` implements it (`KeepsPromise`), `AfterLogin` uses it.
What runs after the core may lose the connection without a word, since `TodayDuel` answers a failed read with nil.

What the properties say: no building, visitor or mail is asked for twice, and a core that ran through has asked for
every one that was due, unless a cap left it out (`AskedExactlyOnce`: one failed request skips no other); every
failure is in the error the caller gets, and nothing is sent after a loss (`FailuresHeeded`).

## 10. FeatureRun: order, duel and event claims

`FeatureRun.tla` is `Collect` and `RunFeatures` (`internal/game/features.go`) over features that claim from events.
`ActivitySweep.tla` is the events of a run and the cache of replies that features share (`activities.go`);
`EventClaims.tla` is how a feature claims, and `ClaimKinds.tla` what each of 34 features claims from: the events of
`event-claims`, `arms-race-chests`, `battle-pass` and its overflow, `torch-relay`, `sign-in` and
`event-shop-freebies`, and the rewards of 27 more (quests, recruits, cards, chests, salaries, ended timers, season
output and others).

| In the model | In the code |
|-|-|
| `listed`, `server` | the entries of init's `activity` map, by id; the events as the game server has them |
| `replies` | `ActivitySweep.replies`: a reply, or the failure in its place |
| `errs`, `batch` | errors of the features that ran; `evBatch.errs` |
| `config`, `command` | enabled features and duel policy; `-collect`, or `-run` with `-run-anyway` |
| `order`, `stage`, `pos` | what `featuresInRunOrder` lists, less what is not enabled; the loop of `RunFeatures` |
| `kinds`, `todo`, `info`, `before` | the claiming feature's loops and what it knows of the event |
| `faults`, `late` | history: whose requests failed; a request after a loss on record |

Most claiming features have one shape, and `KindFacts` says how each kind departs from it: where it
reads (the sweep's cache, a request of its own, the login's one reply about week cards that two features
share, the init push), what a failed read or claim means for the next, how it learns what the tasks
brought, how it opens boxes. A reward that is no event stands as an entry that is always open, with a list of
rewards as its tasks and single ones as its boxes; its gates are in whether a scenario lists it. The four ways of reading are
actions of `Read` (`ReadSweep`, `AskForIt`, `ReadOnce`, `FindInInit`). `KeptReplies` is
`forgetActivityReplies`, `Without` is `Forget`, `TodayDuel` and `Holds` the duel's hold. A feature of another
phase is one request that may earn something.

What the registry's features have in common is an assumption (`RegistryAssumption`): each claim is one feature's; the features of the
last phase only claim and are never held; the duel's chests are claimed there; `battle-pass-overflow` follows `battle-pass`, as the comment
on `featurePhases` asks. `EntriesAssumption` is that an entry of the calendar is of one type, so claimed in one way, but for the pass with its
overflow and the week cards of two features.

What the properties say: a run without faults leaves nothing to claim for its progress claims, nor for any
other claiming feature that no action follows and that the duel's policy does not hold (`Concluding`; a held one may wait for its
day, and leaves what it then finds): neither what its own actions earned
after the events were first read, nor what the claims' rewards opened, nor the quest after a claimed
one, nor what a feature read in a reply that another had asked for (`NothingDueLeft`); a feature that is to be held
starts only on a day that scores it, however the reads of the duel fail and whatever the config says
(`HeldOffDuty`); no request goes out after a loss that a feature has told of, nor by the sweep after one of its own
(`FeaturesHeedLoss`). The loss that only `TodayDuel` saw and swallowed is excepted, as the code has it.

## 11. DigRun: the radar and the digs

`DigRun.tla` is `treasure-digs` (`feature_treasure_digs.go`) after the radar features of the same run
(`Radar.tla`: `feature_radar_claims.go`, `feature_radar_execute.go`), over one connection.

| In the model | In the code |
|-|-|
| `task`, `stamina`, `rewardLevel`, `server`, `chests`, `track` | the game server's side |
| `snap`, `maps` | `detectSnapshot`; the boards as the feature knows them (`digMap`) |
| `have`, `budget`, `round` | `radarStamina.have`, the starts left, the round |
| `started`, `half`, `done`, `claimed` | a round's tasks, and where a task's two requests stand |
| `hammers`, `opens`, `claims` | the ledger, and the run's caps of 150 and 40 |
| `r` | `digRun`: ruins left, the board dug, vault boards, chests, rounds |
| `wasted`, `undertaken`, `falseAll` | history: a hammer on an open brick, timed stages started, a `checkOpenAll` of 1 while a gem that the server would list is buried |

A request that got no answer may have reached the server or not (`Reached`), so the feature's copy and
the board drift apart unless the code notes what it must. `DigBoard.tla` is the geometry: what a gem covers
(`Bricks`), the choice of the next brick (`NextBrick`), the claim that all gems are out (`CheckOpenAll`).
`Decide` is `radarExecuteDecide` with its stamina ledger, a fold over the tasks in the order of their ends (`SoonestFirst`, an
insertion sort for the code's stable one); `Round`, `StartTimed`, `Stage` and `Turned` are the vault. `step` is the request that is next,
of either module. `DigAssumption` says of the data what the code takes for granted: a gem is on a board once (`addBlock` finds it
by its id), a ruin in the radar's list once, and a city's boards make way for boards of the city.

Which gems a board's `blockInfo` names is the server's choice, board by board (`listed`, `seen`): all of them, some or none to begin with,
and those in sight as well or not. An open reply names the gem under the brick (`openBlockInfo`), also one that was not named before. What
`checkOpenAll` can say depends on it: of a gem that no message has named the client knows nothing, and with none named it says 1 on the
first brick while gems are buried, as the game's client does and as `feature_treasure_digs_test.go:282-286` asserts. `BoardCopyTrue` does not
say otherwise.

What the properties say: over all rounds, helps leave the stamina held back for marches, and a run starts no more
tasks than it may (`LimitsAreForTheRun`); on a day that scores, a run without a fault leaves nothing it could claim or
run, drawn tasks included (`DayUsedUp`); no hammer goes to an open brick, and the vault is told that all gems are out
only when all are that the server would list if it were asked at that moment, those that came in sight since the last read included
(`BoardCopyTrue`); no ready chest is left (`NoChestLeft`), with the exception that the code has: a round of the
vault sends one claim and then goes to a board, and a timed stage that cannot go on, or a stage that the table lacks, ends the visit (`VaultShut`):
of several chests that are ready the others stay for the next run. `TimedCannotFail` is the code's comment, which does not hold (section 17).

## 12. SfsCodec: objects on the wire and in the log

`SfsCodec.tla` decodes one object byte by byte group, encodes it again and prints it for the log
(`internal/sfs/sfsobject.go`, `redact.go`). `stack` holds the objects and arrays that are open, `nodes` and `alloc` what
was charged and made room for, `data` the bytes so far. `todo` holds the objects and arrays on their way into the log, each with
what is left of it and the keys that lead to it, and `print` what the log shows and what is left of the budget. Tags are grouped by
layout, one for each; a key or a string is a sequence of cells. A peer may claim any count, so the count is an input of its own
next to the bytes that follow. A bool is decoded as `b != 0` and encoded as 1 or 0, in an array too (`Kept`, `Truth`), so a byte other than
these does not come back; `bools` says which of the bytes read are bools'. A masked string keeps its ends (`Redact`): an eighth of it at
each end, four characters at most, and none of one of up to eight. A masked piece of the print says how much it shows of how much.

What the properties say: what the decoder holds, and what it makes room for before reading, stays within the
limits (`DecoderBounded`); encoding gives the bytes back, except for keys that came twice and with every true bool as 1, and a string that can be
decoded but not encoded is an error and never a shorter string (`EncodesBack`); nothing under a sensitive key
is printed in the open, however deep and however spelled, and of a string right under one no more than a quarter, eight characters at most
and nothing of a short one (`NothingSensitiveShown`; `sfsobject_redact_test.go:46-50` asserts the ends); a print is cut exactly when it would go over
the budget of all levels together, and says so once, the ends of masked strings not counted (`PrintBounded`). The reference definitions (`Size`, `Writable`,
`KeysOnce`, `Cost`) are functions of the decoded value, independent of the counters of the decoder and of the print.

## 13. ServerClock: the server's time

`ServerClock.tla` is `serverClock` (`internal/session/clock.go`) between the heartbeat's pings and the pongs: `pings`
and `pongs` are on their way or unread for any time, a pong may lack its times, and the server's clock is
anywhere (`skew`). `Takes` is the rule for a sample, `Sample` the half trip, `ReadPong` is `sync`.

What the properties say: a synced clock is within half the round trip of the sample in use, however late the
pong was read (`WithinHalfTrip`); a slow pong does not replace a better sample (`GoodSampleStays`). The second is
stated with an exception the code has, as the client it follows does: after a round trip of 0 any sample is taken.

## 14. Runs and bounds

| Run | Module | States | Shows |
|-|-|-|-|
| `conn` | `MCGameConn` | 247,692 | all of section 3, refinement and liveness included |
| `runs` | `MCCrossServerRun` | 339,645 | all of section 4 |
| `device_id` | `MCDeviceIdentity` | 263,332 | all of section 5, refinement included |
| `own_device` | `MCOwnDevice` | 249,828 | all of section 6 |
| `spend` | `MCSpendRun` | 324,346 | all of section 7 |
| `after_login` | `MCAfterLogin` | 109,299 | all of section 8 |
| `collect` | `MCCollectCore` | 177,610 | all of section 9, the promise included |
| `features` | `MCFeatureRun` | 186,781 | all of section 10 |
| `radar_digs` | `MCDigRun` | 338,206 | all of section 11 |
| `digs_timed` | `MCDigRun` | violation | a timed stage started and left |
| `codec` | `MCSfsCodec` | 2,557,492 | all of section 12 |
| `clock` | `MCServerClock` | 2,478,220 | all of section 13 |

The bounds, and why the interesting cases fit in them:

- `conn`: two cmds, so that an answer can be late for its own cmd or for another; two
  requests, so that one can follow one that was given up; both limits 1 (20 and 1000 in the
  code), so that either can be passed, one after the other and mixed; one frame on its way at a
  time, and the next as soon as the reader has taken it, so the length of a stream is not
  bounded. Frames in flight only add to what a later read finds.
- `runs`: this client's device and a captured one; two addresses, so that the role can move; two
  generations of each token, so that one can be old; five configs (an own-device session, a captured one
  without a refresh token, one without a device, with and without an address, one whose access token was cleared)
  and five sets of flags. Two events: each is a fault, a crash, a change elsewhere or a run with flags, and
  plain runs are free. The hazards of the list need one or two.
- `device_id`: three runs, so that one can meet the files of two others; an id for each and one on
  file; two rereads (3 in the code), so that an empty file can fill between them; one
  error, and any number of crashes.
- `own_device`: a top-level role and another; three runs, in any order bind, play and trade; two
  errors or crashes, enough for both saves; one move of each role, two redirects (3 in the code), enough to
  follow it and be refused. `CHECK_DEADLOCK FALSE`, since the bound on runs ends the
  behaviour.
- `spend`: any number of runs, kills and clearings. A balance of 0 or 1 can fall and rise again. Three items
  and pulls of one, two and three tickets, with a ten pull of two (10 in the code), so that a ten pull can be
  affordable, too dear, or lowered by a push; two pools, jobs, camps, tasks or boards, so that one follows
  a failed one; two calls (200, 100, 2 and 150 in the code), so that the cap is met in and between them; room
  for two soldiers and iron costs that round up.
- `after_login`: a budget of four ticks, so that the middle, the shrunk window and the end differ; lists of two over three
  buildings, so that a list fills and an entry is cut; both read counters and the pipe's retries 1. Terminates, hence
  `CHECK_DEADLOCK FALSE`, as in `collect`.
- `collect`: two buildings and two visitors, so that one follows a failed one and a push can name one twice; three mails of two
  groups, two of which do not fit in one batch; two pages, so that a failed page follows a good one; two batches per loop and per
  run, so that both caps are met. `MCLines` puts a line's times before, at and after each tick.
- `features`: one or two events of a run listed, or all that one feature claims from, of every kind; the claims of the
  last phase alone and after an action, and the two features that share a reply; two duel days; two moments, so that a day, a
  task's day or an arena's window can pass between features; boxes of one and two points, so that a task's point opens the first
  and a second box stays. Configs with no policy, a misspelt one and both values.
- `radar_digs`: seven tasks, of which some are still in the stock, so that claims draw new ones; stamina at the reserve, one and two helps
  above it; three starts (30 in the code) and three rounds (4), so that either ends the run; boards of two by two bricks with
  a one-brick and a two-brick gem, of which the server lists both, one, none, or those in sight; six opens, four claims and five rounds (150, 40 and 12), so that each cap is met in one scenario and
  not in another. The radar's scenarios and the digs' share few tasks, since all they share is the connection.
- `codec`: a depth of 3, four nodes, a print budget of 3, keys of one cell and strings of none, which encode, and of four, which do not; bytes of bools that come
  back and one (5) that does not; one character kept of two at each end, and one at most (an eighth and 4 in the code), so that a string of four keeps
  less than its share would allow. Each limit is met exactly and passed by one; that of a string's length
  is met by keys and passed by three. Counts of -1 and 9 are claims without the bytes. It ends with the object, hence `CHECK_DEADLOCK FALSE`.
- `clock`: eight moments and two pings, so that round trips of 0, below, at and above the fast one (2; 200 ms in the code) follow one another.

No run has symmetry: most check liveness or a refinement with fairness, where symmetry is not sound, and in the others the members of
the sets differ in their facts.

## 15. Fairness

- `GameConn`: goroutines that can run do run, the ticker ticks, deadlines pass (weak fairness of
  the reader, the heartbeat, a sender's check and write). The mutex has strong
  fairness: Go's `sync.Mutex` hands itself to a waiter that has starved for a millisecond.
  Nothing is assumed of the server, and not that the main flow ever closes.
- `CrossServerRun`: a run that has begun goes on, since each request has a timeout; the schedule
  starts the next plain run. `Heals` speaks of the time after `calm`, from which on nothing
  fails; without it a server could refuse for ever.
- `OwnDevice`: a run that has begun goes on where it waits for a server, since each of those waits has a deadline. The wait for the emailed
  code has none, and a run that plays (`-interactive`) leaves when its operator ends it: `EnterCode` and the `Leave` of such a run have no
  fairness, and `RunsEnd` excepts those two places.
- `SpendRun`: the same for the waits of the features. Pushes, the balance and the operator have no fairness.
- `AfterLogin`: weak fairness of the run and of the signal goroutine. Time has strong fairness: it passes only while a read waits,
  and a flood of pushes interrupts every read, yet the clock goes on. The main goroutine has none in interactive mode, where it may
  wait for the operator for ever, and nobody has to send a signal.
- `CollectCore`: each request is answered or its wait times out (`WF_vars(Next)`).
- `DeviceIdentity`, `FeatureRun`, `DigRun`, `SfsCodec` and `ServerClock` are checked for safety; `DeviceIdentity` states fairness (calls return and
  sleeps end) that its refinement does not need.

## 16. Proofs

TLAPS checks all of it, for every value of the constants that satisfies the named assumptions: disjoint names, bounds in `Nat`, a
non-empty set of ids or pools, positive costs; in `CrossServerRun` what a config and a set of flags may hold to begin with; in
`ServerClock` integer skews; in `InitPush` and `CollectCore` what a push and a mail may list; in `EventClaims` and
`FeatureRun` what section 10 says of the entries and of the registry; in `DigRun` what section 11 says of the boards. TLC evaluates each of them on the
constants of its run. Hardly a property is inductive alone; the invariants that carry them are made of named parts, and TLC
checked each before it was proved.

- **GameConnProofs** (`GameConn`, `ServerClock`). `IInv` adds to the type invariant: a writer holds the mutex (`MutexInv`);
  after the terminal push the main flow is finished and a late ping is past its check
  (`EndedInv`); the reader is inside a frame only while it reads it or never again (`FrameInv`);
  a torn request was the last (`TornInv`); counters stay in their limits (`WaitInv`); and
  what is on the wire at each stage, in particular that the next id is above all of them although
  login.init sets its own (`IdInv`). From it: `TypeCorrect`, `WritesExclude`, `IdsUnique`,
  `ReaderInStep`, `AtMostOneLatePing`, `TornRequestIsLast`, and with `StepUse` that
  the safety part implements that of `SessionUse` (`ImplementsUse`). `StaleAnswersExplained` needs two more: an answer on its way is
  the only one to a request that went out, and given to nobody yet (`AnswerInv`); every request before the current one was answered or
  followed a timeout of its cmd (`SettledInv`). So an answer that is taken by the wrong wait has a timeout to blame.
  Of `ServerClock`, `FlightInv` says of each ping and pong on its way that its ping went out before the server answered and the
  server answered before now, `SampleInv` that the sample in use bounds the server's distance from the host by half its
  round trip, on either side: `ClockTheorem` and `GoodSampleTheorem`.
- **MainProofs** (`CrossServerRun`, `AfterLogin`). `RetryInv` says what a run has asked for by each point and
  what keeps it from asking again, and gives `RetriesBounded`. `TokenInv` is five parts: what flags imply at
  each point (`FlagsInv`), whose tokens a reply carries (`ReplyInv`), whose are on file
  and in the run's hands (`OwnerInv`), that both are in force unless lost (`KeptInv`), and
  that the run's is never behind the file's (`NewestInv`). The properties about the file need all of
  them, since a save writes what the run holds. It gives `TokensStayWithOwner`,
  `RefreshTokenStaysCurrent` and `NoOlderTokenSaved`. `PlainInv` is about a run without flags in which nothing went wrong: what it
  has learned of its credentials is true (`TruthInv`: a refused one is not in force, a refreshed one is) and what it has saved is what it
  holds (`SavedInv`). It gives `WorkingSessionIsSaved` and `StaleExitTellsTruth`.
  Of `AfterLogin`, `SignalInv` relates the signal goroutine's steps to the flag it sets and the connection it closes,
  and what main looked at to both; `StageInv` says which failures a run can still be carrying at each stage. They give
  `ExitCodeTellsAll` and `ShutdownNeverBlamed`. `WaitsWholeBudget` rests on what a wait has done with its time (`BudgetInv`: only an
  init push moves the deadline, login.init is asked for at the middle) and on what it has gathered (`ListInv`).
- **DeviceProofs** (`OwnDevice`, `DeviceIdentity`). `FlowInv` relates a run's values to the files at each step, `BindInv` and
  `RoleInv` say what a run can do to a binding that is there, `AskInv` how far a binding with
  `-server` has come. They give `OneConnectionHeld`, `BindingStays` and `AskedRoleIsTraded`. Of `DeviceIdentity`, that a run past its
  draw holds an id, that only a leftover is empty, that a file once linked against stays, that only a leftover is healed and that a known id
  means a file with an id: `OneIdentityHolds`, `LoadsFailByFaultOnly` and `ImplementsDevice`, a full refinement since `OneDevice` has no
  fairness.
- **CollectCoreProofs**. `LossInv` says that a fatal error is in the list only when the run is over, `LinkInv`
  that a connection broken without an error has not been used since. They give `FailuresAreHeeded`,
  and each step is one of `CollectPromise` or a stutter: `ImplementsPromise`, its safety part. `AskedOnce` is that each thing is
  asked for once and, in a core that ran through, each that was due: the lists have no repeats (`ListInv`), nor have the queues made
  of them (`QueueInv`), nothing was asked twice (`OnceInv`) or both asked and still waiting (`FreshInv`), and what was begun is one or the
  other unless a cap left it out (`ServedInv`). A property of the end alone says nothing of a loop half way; these do.
  `ListsAreSound`: what several pushes make of a list has no repeats, holds ids only and stays within its limit.
- **FeatureRunProofs**. `HeedInv` says where a loss can be on record while the run goes on: not among the errors of the features that
  ran, among those of the current one only at its end, and one that the sweep saw in either of the two or in the duel's reply.
  `VisitInv` says that the event visited is of the kind that is taken, so that no `Forget` drops the duel's reply. They give
  `LossIsHeeded`. `HeldUntilItsDay` needs only that the cache lists days of the schedule (`RepliesInv`).
  `NothingIsDueLeft` says of the end of a run without a fault that nothing is left; while the run goes on, `DueInv` says what that takes.
  `SettledInv`: once a concluding feature has been through a kind, or has left an event, nothing of it is due, and nothing becomes due
  again in the same moment. It is inductive because what comes later earns nothing (`OrderInv`, `FromInv`: from the first concluding
  feature on only claims run) and claims nothing of the same event, except the overflow after the pass, which takes only what is left over,
  and the two features of the week cards, each of which counts its own boxes. That a visit ends only when its event is settled takes what the
  feature knows of it: `KnownInv` says at each step of the visit how far `info` is what the server has, also between a claim and the second
  read, that each overflow claim has taken one (`DrainInv`), and which parts of the crystal boss are done (`BossInv`). A read tells the truth
  although it may come from the cache: a reply that is still to be read agrees with the server where its reader looks (`CacheInv`, `Pending`,
  `Serves`). The only replies that anyone but their reader asks for are the duel's, forgotten after the last action (`RunInv`), and the week
  cards', of which each of the two features looks at its own boxes. `RunOrderIs` is that the run order is by phase and name, `VisitsAre` that the visits of a kind are without repeats.
- **SpendingProofs** (`SpendRun`, `Radar`, `DigRun`). `FileInv` carries what a feature that looks once found of the file to each of its
  spends, `SawInv` says what is remembered of a drop, `CountsInv` relates requests and ledger while one is
  out and after each outcome, `FlowInv` says where a run is between features. `SpendingStep` lists the
  steps that send a spend and what each has found; it gives `FileStopsEverySpend` and
  `SeenDropStops`. `NeverBeyondHeld` follows from `CountsInv`; its lemmas on `PullCost` and the training
  costs hold for any pools and rates.
  `LimitsHold`: the feature's own account of the stamina is never above the player's (`FloorIsLower`, the estimate of regeneration), also with
  the helps that are decided and not sent paid for (`PaidForInv`); these leave the reserve (`ReserveInv`); the starts sent, decided and left
  in the budget are together within the limit (`CapInv`). What `Decide` and `InOrder` compute, folds over any number of tasks, are lemmas of
  their own (`DecideIs`, `InOrderIs`).
  `DayIsUsedUp`: `WaitingInv` says of each step of a run without a fault where the finished tasks are that nobody has claimed: in the list that
  is gone through, among the tasks that the round has ended, or nowhere. `RoundInv` follows the tasks of a round through the server: placed
  before they are started, started before they are ended, finished when they are claimed, so that a round which started more than talks claims
  something and another follows. A run that stops because `Decide` took nothing has just read the radar (`SnapInv`), and then there was nothing
  to take (`DecideLeaves`): the first task that fits the stamina is always taken. `InOrderHas` is that a round whose tasks were all placed starts all of them.
  `BoardCopiesServe`: the feature's copy of a board goes wrong with the first request that gets no answer, or is answered only by "read
  the board again", and the code never repairs it; it stops digging the board. So the invariant is about the boards that the run may
  still dig by (`Trusted`: which those are depends on the step, on the ruins left, on how the last dig ended): their copies have all bricks
  that the server has open and all gems that it would list (`SyncInv`). `CopiesInv` says of every copy, trusted or not, that it has gems of the board only, each at its true
  place or none, and counts for `checkOpenAll` only bricks that are open; `RunInv` that the ruin in hand is the first of the ruins left, and what the
  last dig's result implies. That the next brick is closed (`NextBrickIsClosed`) and that `checkOpenAll` is right (`CheckIsTrue`) are lemmas about any board.
  `NoChestIsLeft`: `ChestInv` says of each step of a run without a fault what is still to be claimed: before the city all that was ready at
  the start, in the city and the vault at most what is noted and what the last brick made ready (`Noticed`), after each of them nothing, or what a
  shut vault keeps. `ProgressInv` is why the vault goes round again while a chest is noted: a round that left one has claimed another, unless it dug
  a timed stage, which forgets the claim.
- **SfsProofs** (`SfsCodec`). Values, and what is defined of them, are functions of the depth; each is shown to exist (`Recursion`) and to be
  one level more of itself, and what is claimed of all values is claimed at the least depth where it fails. With that, three
  invariants about the stacks. `HeldInv`: what the frames hold has been counted, which is `DecoderStaysBounded`; a frame further in is
  one level less, so a value that is closed goes into its parent at the parent's depth. `PrintInv`: what is shown and what is left of the
  budget are the budget, and what is shown and still owed by the walks under way is the cost of the whole object until the cut, after which
  nothing is left (`BudgetInv`); the path of a walk has no sensitive key in it (`ShownInv`). They give `PrintsStayBounded` and
  `NothingSensitiveIsShown`. `CodeInv`: the codes of the frames, in a row, are the bytes read so far, with a frame's count as it was
  claimed; a key that came twice makes them shorter and a string that cannot be written makes them an error; the places of the bools are those where the bytes and the
  code may differ. It gives `DecodedEncodesBack`. The theorems hold for any keys, texts, counts and limits, spellings that lower to the same key included.
- **FoldInduction** is the induction the others use: that a set of numbers has a least element; along a sequence folded from left to
  right; and that a function on the numbers exists that is given at 0 and made from its predecessor elsewhere. A module instantiates
  it with the operator that is folded, or the step, and with what it claims of the result.

Some theorems state properties that no run lists any more, because every run lists few: `TypeCorrect` of each theory,
`WritesExclude`, `IdsUnique`, `ReaderInStep`, `TornRequestIsLast`, `OneIdentityHolds`, `OneConnectionHeld`, `RetriesBounded` and
`NoOlderTokenSaved`. They hold for every value of the constants, which a run could not add to.

Only model-checked is liveness (`SendsReturn`, `WaitReturns`, `HeartbeatStops`, `Heals`, `RunsEnd`, `RunEnds` of two modules, the fairness of
  `ImplementsSessionUse` and of `KeepsPromise`), which TLAPS cannot prove.

## 17. Where the code and its documentation disagree

One disagreement has a run that ends in a counterexample:

- `feature_treasure_digs.go:34-35` says of a timed stage that the run "starts it only when the hammers held plus that grant cover every
  brick, so the 180 s stage cannot fail". The gate (line 958) counts hammers, while opens are capped at 150 and rounds at 12 for
  the whole run: a run that has opened bricks elsewhere starts the stage, meets the cap part way and leaves it (`digs_timed`).

Others were met while modelling and are recorded here without a run of their own; the properties named are what holds instead.

1. `conn.go:164` says that after a terminal push nothing is written. The check comes before the
   mutex, so a heartbeat past its check writes one ping. `OneLatePing` bounds it.
2. `conn.go:547` says that `SendAndWait` waits for its command's response. It takes any answer of the
   cmd, also a late one. `StaleOnlyAfterTimeout` says when.
3. `docs/auth.mdx:220` says that every refresh is saved at once. For a config without a
   `deviceId` whose install slot another device has claimed it is not, and if the Login then
   fails the rotated token is gone. `RefreshTokenKept` is stated about the rest. When the role has moved as well, such a config
   never heals: the first Login gets E011, the refresh rotates the token and its save is refused, the retry goes to the old address
   unanswered, and after a refresh no lookup follows (`main.go:1599-1645`), so the run exits with 1; the next run's refresh token is
   the old one, and it exits with 2 for ever. `Recoverable` leaves out this case and no other.
4. `docs/auth.mdx:203` says that the trade fails when GSL does not list the picked role. A plain
   Login in between adopts whatever GSL picks, and the trade then writes that role.
   `BindingKept` says that this adoption is the only way a binding is left.
5. `feature_duel_recruit_tickets.go:476` says that `duelSpendHalted` stops every duel spend for the process.
   Two of the four do not read it, and without the file they spend on.
   `SeenDropStopsItsOwn` says who does stop, `FileStopsSpends` that with the file all do.
6. `features.go:200` says that a dead connection stops the features. `secret-tasks-start` leaves
   it out of its error when the start's reply had shown a fall; `FeaturesHeedLoss` is about a loss that was told of.
7. `README.md:373` of the repository and `errors.go:120-121` say that a session the server ends on purpose exits with 3.
   `TodayDuel` (`duel.go:134`) answers that error with nil too, and when every enabled feature is held nothing
   else is sent, so the run exits with 0.

## 18. What is not modelled

- *Planned* (section 2): the inside of the cross-server login; the other features
  (alliance extras, likes, donations and treasures, fireworks, railway plunder, trucks, T11's idle events, the
  treasure hunt, fresh visitors); the pure algorithms (server choice, reassembly).
- *`GameConn`*: `DoHandshake`'s own read loop; the logging of pongs and pushes.
- *Configs and identity*: parsing of configs that are malformed; permissions and lengths of state files; Login parameters; two
  cross-server runs that overlap on one session config, which nothing in the code prevents (listed under hazards).
- *`AfterLogin`*: the JSON of a command line; the guest run with a captured Login; decode mode.
- *`SpendRun`, `FeatureRun`*: reads and claims that neither compare a balance nor end the run; guards against a missing init push; replies
  for another activity's type; the event shop's missing `tomorrow`; the one duel entry and the duel chests' fallback to a stale day; benign
  "already claimed" codes. Which task or box is due is a task's state or a score, whatever each event calls it. Time passes only between
  features, and three rewards of one crystal boss are parts of one visit. Of the 27 others: their caps per run (20, 50 or 300
  claims) and batches, the room for healed troops and the chip factory's second cmd, versions and levels of a notice, the
  shares of a season's cities. Quests follow one another one at a time. What the server may add to an entry read from the init push in
  the middle of a run waits for the next, as in the code.
- *`Radar`*: openings of allies at the same time, a radar day that begins during the run, regeneration of stamina after the read, `radar-inventory`. A
  round of talks only ends the rounds, as in the code.
- *`DigRun`*: the 180 seconds of a timed stage (only "late" or not); a stage chest's reply that carries the next board; the dry run
  (`treasure-digs-plan`); totals of items in a grant; more than one city ruin. The personal and the alliance's lists of open bricks are one flag.
- *`SfsCodec`*: the typed getters, the escaping of control characters, characters of more than one byte (`Redact` counts bytes for the
  short ones and characters for the rest).
- *`ServerClock`*: log lines, and `gameNow` before the first pong.
- *Out of a model checker's reach*: AES and RSA, the fingerprint's contents, wording, file formats.
- *No behaviour*: generated tables, their generators, test fixtures.
