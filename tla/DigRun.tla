------------------------------- MODULE DigRun -------------------------------
(***************************************************************************)
(* treasure-digs (src/internal/game/feature_treasure_digs.go) after the    *)
(* radar features of the same run: it digs the radar's ruins, the city's   *)
(* ruin and the Secret Vault with the hammers held, and claims the chests. *)
(*                                                                         *)
(* The server has the boards; the feature has the copies it was sent.      *)
(***************************************************************************)
EXTENDS Radar, DigBoard

CONSTANTS
    Boards,         \* the boards there are, by id
    BoardFacts,     \* of each: kind ("ruin", "city", "stage" or "timed"), cfg,
                    \* gems (the place of each), listed (the gems that blockInfo
                    \* names), seen (and those in sight), sent (their places are
                    \* sent), next (the board its end brings), own (the open
                    \* bricks are personal), event (a ruin's: "open", "hidden" or
                    \* "gone") and late (a timed one's end has passed)
    NoBoard,
    Scenarios,      \* the runs: account, tasks (at login) and plan; a plan is
                    \* what treasure-digs finds: ruins, city, stage, timed, their
                    \* states, hammers, chests, track, barred
    MaxOpens, MaxClaims, MaxDigRounds   \* 150, 40 and 12 in the code

Kinds == {"ruin", "city", "stage", "timed"}
VaultKinds == {"stage", "timed"}

\* A brick lies over one gem, and a ruin is in the radar's list once; the city's
\* boards make way for boards of the city.
ASSUME DigAssumption ==
    /\ DOMAIN BoardFacts = Boards /\ NoBoard \notin Boards
    /\ \A b \in Boards :
          LET fact == BoardFacts[b]
          IN /\ fact.kind \in Kinds /\ fact.next \in Boards \cup {NoBoard}
             /\ fact.kind = "city" /\ fact.next # NoBoard => BoardFacts[fact.next].kind = "city"
             /\ fact.listed \subseteq DOMAIN fact.gems
             /\ fact.cfg \in DOMAIN Levels =>
                   \A g, h \in DOMAIN fact.gems :
                      g # h => Bricks(fact, g, fact.gems[g]) \cap Bricks(fact, h, fact.gems[h]) = {}
    /\ \A s \in Scenarios :
          /\ s.account \in Accounts /\ DOMAIN s.tasks = Tasks
          /\ s.plan.ruins \in Seq({b \in Boards : BoardFacts[b].kind = "ruin"})
          /\ IsInjective(s.plan.ruins)
          /\ s.plan.city \in {b \in Boards : BoardFacts[b].kind = "city"} \cup {NoBoard}
          /\ s.plan.stage \in {b \in Boards : BoardFacts[b].kind = "stage"} \cup {NoBoard}
          /\ s.plan.timed \in {b \in Boards : BoardFacts[b].kind = "timed"} \cup {NoBoard}
    /\ {MaxOpens, MaxClaims, MaxDigRounds} \subseteq Nat

VARIABLES
    plan,       \* what the run finds
    server,     \* the server's boards: state, and the bricks open
    chests,     \* the boards whose chest it has ready
    track,      \* how many chests of the track it has ready
    maps,       \* the boards as the feature knows them
    hammers,    \* the ledger, by the kind of hammer
    opens, claims,
    r,          \* where the run is: list (the ruins left), cur (the board that is
                \* dug), last and broken (dig's results), stage and timed (the
                \* vault's boards), mine (the chests it may claim), turn (the
                \* rounds), progressed, left (the chests of the track)
    \* what has happened, for the properties
    wasted,     \* a hammer was spent on a brick that was open
    undertaken, \* the timed boards that the feature has started
    falseAll    \* it said that all gems were out while one of the list was not

boardVars == <<plan, server, chests, track>>
history == <<wasted, undertaken, falseAll>>
digVars == <<boardVars, maps, hammers, opens, claims, r, history>>
allVars == <<radarVars, digVars>>

Fact(b) == BoardFacts[b]
Kind(b) == Fact(b).kind
Hammer(b) == IF Kind(b) \in {"ruin", "city"} THEN "explorer" ELSE "dig"

\* What the radar features keep to themselves.
NotRadar == UNCHANGED <<now, task, begun, stamina, rewardLevel, account, radarDay, snap, levels,
                        starts, spent, roundVars>>

\* The bricks over a gem of the board.
GemBricks(b, gem) == Bricks(Fact(b), gem, Fact(b).gems[gem])

\* The gems that the server lists of a board (blockInfo): all, some or none.
GemsListed(b) ==
    Fact(b).listed
    \cup {gem \in DOMAIN Fact(b).gems : Fact(b).seen /\ GemBricks(b, gem) \cap server[b].opened # {}}

\* parseDigMap: what the server sends of a board.
ParseMap(b) ==
    [state |-> server[b].state, cfg |-> Fact(b).cfg,
     opened |-> server[b].opened,
     check |-> IF Fact(b).own THEN {} ELSE server[b].opened,
     blocks |-> [gem \in GemsListed(b) |->
                    LET at == IF Fact(b).sent THEN Fact(b).gems[gem] ELSE 0
                    IN [pos |-> at, at |-> at]]]

Known(b) == Fact(b).cfg \in DOMAIN Levels

AreOut(b, gems, opened) == \A gem \in gems : GemBricks(b, gem) \subseteq opened
GemsOut(b, opened) == AreOut(b, DOMAIN Fact(b).gems, opened)

-----------------------------------------------------------------------------
(* Requests: a claim counts against its cap, whatever it is for.            *)

MayClaim == claims < MaxClaims

ClaimOutcomes == IF MayClaim THEN Outcomes ELSE {"capped"}

\* claim: past the cap nothing is sent.
Claim(o) ==
    /\ o \in ClaimOutcomes
    /\ IF o = "capped" THEN UNCHANGED <<link, failed, claims>> ELSE Send(o) /\ claims' = claims + 1

Effect(o) == IF o = "capped" THEN {FALSE} ELSE Reached(o)

\* A lost connection ends the feature.
Then(o, next) == step' = IF o = "lost" THEN "over" ELSE next

\* The free hammers and the start of a timed stage, with its hammers.
Granted(b) == [hammers EXCEPT ![Hammer(b)] = @ + Levels[Fact(b).cfg].hammers]

Started(b, o) ==
    /\ \E reached \in Effect(o) :
          server' = IF reached /\ server[b].state = "not_begun"
                    THEN [server EXCEPT ![b].state = "digging"] ELSE server
    /\ hammers' = IF o = "ok" THEN Granted(b) ELSE hammers

\* An action that sends nothing, and one that reads.
Silent == NotRadar /\ UNCHANGED <<link, failed, boardVars, hammers, opens, claims, history>>
Reads(o) == Send(o) /\ NotRadar /\ UNCHANGED <<boardVars, hammers, opens, claims, history>>

-----------------------------------------------------------------------------
(* dig: the bricks of one board.                                            *)

MayOpen(b) ==
    /\ maps[b].state = "digging" /\ ~plan.barred
    /\ opens < MaxOpens /\ hammers[Hammer(b)] > 0
    /\ NextBrick(maps[b]) # 0

StartDig(b) == [r EXCEPT !.cur = b, !.last = "none", !.broken = FALSE]

DigEnds ==
    /\ step = "dig" /\ step' = "dug"
    /\ ~MayOpen(r.cur)
    /\ Silent /\ UNCHANGED <<maps, r>>

\* A variant that forgets the bricks it opened.
NotedNothing(m, brick, b) == [m EXCEPT !.state = server'[b].state]

\* The gem under a brick, if there is one.
Under(b, brick) == {gem \in DOMAIN Fact(b).gems : brick \in GemBricks(b, gem)}

\* What the feature makes of the reply: the gem that came in sight is in it.
Noted(m, brick, b) ==
    [m EXCEPT !.opened = @ \cup {brick},
              !.check = IF Kind(b) = "stage" THEN @ \cup {brick} ELSE @,
              !.blocks = IF Under(b, brick) = {} THEN @
                         ELSE LET gem == CHOOSE g \in Under(b, brick) : TRUE
                              IN AddBlock(@, gem, Fact(b).gems[gem]),
              !.state = server'[b].state]

\* The server opens a brick; with its last gem out, the board's chest is ready.
Opened(b, brick) ==
    LET open == server[b].opened \cup {brick}
        out == GemsOut(b, open)
    IN /\ server' = [server EXCEPT ![b].opened = open, ![b].state = IF out THEN "can_get" ELSE @]
       /\ chests' = IF out /\ Kind(b) \in {"city", "stage"} THEN chests \cup {b} ELSE chests

\* A reply may ask for the board to be read again, where it was told that all
\* gems are out.
OpenBrick ==
    /\ step = "dig" /\ MayOpen(r.cur)
    /\ LET b == r.cur
           brick == NextBrick(maps[b])
           says == Kind(b) = "stage" /\ CheckOpenAll(maps[b], brick)
       IN /\ hammers' = [hammers EXCEPT ![Hammer(b)] = @ - 1]
          /\ wasted' = (wasted \/ brick \in server[b].opened)
          /\ falseAll' = (falseAll \/ (says /\ ~AreOut(b, GemsListed(b), server[b].opened \cup {brick})))
          /\ \E o \in Outcomes, recheck \in {says, FALSE} :
                /\ Send(o)
                /\ \E reached \in Reached(o) :
                      IF reached THEN Opened(b, brick) ELSE UNCHANGED <<server, chests>>
                /\ maps' = IF o = "ok" /\ ~recheck
                           THEN [maps EXCEPT ![b] = Noted(@, brick, b)] ELSE maps
                /\ LET ends == server'[b].state = "can_get" /\ Fact(b).next # NoBoard
                   IN /\ r' = [r EXCEPT !.broken = o # "ok",
                                        !.last = IF o # "ok" THEN @
                                                 ELSE IF recheck THEN "recheck"
                                                 ELSE IF ends THEN "next" ELSE "reply"]
                      /\ Then(o, IF o # "ok" \/ recheck \/ ends THEN "dug" ELSE step)
    /\ opens' = opens + 1
    /\ NotRadar /\ UNCHANGED <<plan, track, claims, undertaken>>

-----------------------------------------------------------------------------
(* The radar's ruins, the soonest to expire first.                          *)

DigsBegin ==
    /\ step = "done" /\ link = "up" /\ "treasure-digs" \in account.runs
    /\ step' = "ruins"
    /\ Silent /\ UNCHANGED <<maps, r>>

RuinsInfo ==
    /\ step = "ruins"
    /\ \E o \in Outcomes :
          /\ Reads(o)
          /\ Then(o, IF o = "ok" THEN "ruin" ELSE "city")
          /\ r' = [r EXCEPT !.list = IF o = "ok" THEN plan.ruins ELSE <<>>]
    /\ UNCHANGED maps

NextRuin == [r EXCEPT !.list = Tail(@)]

\* One that is off the map is placed, one that is over or unknown is left.
Ruin ==
    /\ step = "ruin"
    /\ IF r.list = <<>> THEN step' = "city" /\ UNCHANGED r
       ELSE LET b == Head(r.list)
            IN IF Fact(b).event = "gone" THEN step' = step /\ r' = NextRuin
               ELSE step' = (IF Fact(b).event = "hidden" THEN "ruin_place" ELSE "board") /\ UNCHANGED r
    /\ Silent /\ UNCHANGED maps

PlaceRuin ==
    /\ step = "ruin_place"
    /\ \E o \in Outcomes :
          /\ Reads(o)
          /\ Then(o, IF o = "ok" THEN "board" ELSE "ruin")
          /\ r' = IF o = "ok" THEN r ELSE NextRuin
    /\ UNCHANGED maps

\* A board of a ruin, or of the city: its free hammers come first.
FreeHammers(b) ==
    /\ r' = StartDig(b)
    /\ IF maps[b].state = "not_begun"
       THEN \E o \in ClaimOutcomes :
               /\ Claim(o) /\ Started(b, o)
               /\ maps' = IF o = "ok" THEN [maps EXCEPT ![b].state = "digging"] ELSE maps
               /\ Then(o, "dig")
       ELSE step' = "dig" /\ UNCHANGED <<link, failed, claims, server, hammers, maps>>
    /\ NotRadar /\ UNCHANGED <<plan, chests, track, opens, history>>

RuinBoard ==
    /\ step = "board"
    /\ LET b == Head(r.list)
       IN IF Known(b) THEN FreeHammers(b)
          ELSE step' = "ruin" /\ r' = NextRuin /\ Silent /\ UNCHANGED maps

RuinDug ==
    /\ step = "dug" /\ Kind(r.cur) = "ruin"
    /\ IF ~r.broken /\ maps[r.cur].state = "can_get"
       THEN step' = "held" /\ UNCHANGED r
       ELSE step' = "ruin" /\ r' = NextRuin
    /\ Silent /\ UNCHANGED maps

\* radarChestHeld: the chest scores as a radar task does.
RuinHeld ==
    /\ step = "held"
    /\ \E o \in Outcomes :
          /\ Reads(o)
          /\ IF o = "ok" /\ account.scores THEN step' = "ruin_chest" /\ UNCHANGED r
             ELSE step' = "ruin" /\ r' = NextRuin
    /\ UNCHANGED maps

RuinChest ==
    /\ step = "ruin_chest"
    /\ \E o \in ClaimOutcomes :
          /\ Claim(o)
          /\ \E reached \in Effect(o) :
                /\ server' = IF reached THEN [server EXCEPT ![r.cur].state = "have_got"] ELSE server
          /\ Then(o, "ruin")
    /\ r' = NextRuin
    /\ NotRadar /\ UNCHANGED <<plan, chests, track, maps, hammers, opens, history>>

-----------------------------------------------------------------------------
(* The city's ruin: board after board, then the chests.                     *)

OfKind(bs, kinds) == {b \in bs : Kind(b) \in kinds}

\* A variant that claims only the chests that were ready before.
ReadyBefore(b) == {}

\* The chest that a reply to the last brick made ready.
MadeReady(b) == IF ~r.broken /\ r.last # "none" /\ maps[b].state = "can_get" THEN {b} ELSE {}

City ==
    /\ step = "city"
    /\ step' = IF plan.city = NoBoard THEN "city_chests" ELSE "city_board"
    /\ r' = [r EXCEPT !.cur = plan.city, !.turn = 0, !.mine = OfKind(plan.chests, {"city"})]
    /\ Silent /\ UNCHANGED maps

CityBoard ==
    /\ step = "city_board"
    /\ IF r.turn < MaxDigRounds /\ Known(r.cur) THEN FreeHammers(r.cur)
       ELSE step' = "city_chests" /\ UNCHANGED <<maps, r>> /\ Silent

CityDug ==
    /\ step = "dug" /\ Kind(r.cur) = "city"
    /\ LET next == Fact(r.cur).next
       IN IF ~r.broken /\ r.last = "next"
          THEN /\ step' = "city_board"
               /\ r' = [r EXCEPT !.cur = next, !.turn = @ + 1, !.mine = @ \cup MadeReady(r.cur)]
               /\ maps' = [maps EXCEPT ![next] = ParseMap(next)]
          ELSE /\ step' = "city_chests"
               /\ r' = [r EXCEPT !.mine = @ \cup MadeReady(r.cur)]
               /\ UNCHANGED maps
    /\ Silent

\* A chest of the city or of the vault: the reply lists those that are left.
ClaimChest(kinds, o) ==
    /\ Claim(o)
    /\ \E reached \in Effect(o) :
          chests' \in IF reached /\ OfKind(chests, kinds) # {}
                      THEN {chests \ {b} : b \in OfKind(chests, kinds)} ELSE {chests}
    /\ NotRadar /\ UNCHANGED <<plan, server, track, maps, hammers, opens, history>>

CityChest ==
    /\ step = "city_chests" /\ r.mine # {}
    /\ \E o \in ClaimOutcomes :
          /\ ClaimChest({"city"}, o)
          /\ r' = [r EXCEPT !.mine = OfKind(chests', {"city"})]
          /\ Then(o, IF o = "ok" THEN step ELSE "vault")

CityOver ==
    /\ step = "city_chests" /\ r.mine = {} /\ step' = "vault"
    /\ Silent /\ UNCHANGED <<maps, r>>

-----------------------------------------------------------------------------
(* The Secret Vault: its stage, or a timed stage in the stage's place.      *)

\* Its activity is open: the vault has a board or a chest.
VaultOpen == {plan.stage, plan.timed} # {NoBoard} \/ OfKind(plan.chests, {"stage"}) # {}

\* The board that the server has of the kind: one that is done makes way.
Current(b, kind) ==
    IF b # NoBoard /\ server[b].state = "can_get" /\ Fact(b).next # NoBoard /\ Kind(Fact(b).next) = kind
    THEN Fact(b).next ELSE IF b # NoBoard /\ Kind(b) = kind THEN b ELSE r.timed

\* parseVault, of the boards that the vault has now.
ReadVault(stage, timed) ==
    /\ maps' = [b \in Boards |-> IF Kind(b) \in VaultKinds THEN ParseMap(b) ELSE maps[b]]
    /\ r' = [r EXCEPT !.stage = stage, !.timed = timed, !.mine = OfKind(chests, {"stage"}),
                      !.turn = IF step = "vault" THEN 0 ELSE @ + 1, !.progressed = FALSE]

\* The first read, and the one after a reply that asked for it.
Vault ==
    /\ step \in {"vault", "again"}
    /\ IF step = "vault" /\ ~VaultOpen THEN step' = "track" /\ Silent /\ UNCHANGED <<maps, r>>
       ELSE \E o \in Outcomes :
               /\ Reads(o)
               /\ IF o # "ok" THEN UNCHANGED <<maps, r>>
                  ELSE IF step = "vault" THEN ReadVault(plan.stage, plan.timed)
                  ELSE ReadVault(Current(r.stage, "stage"), Current(r.stage, "timed"))
               /\ Then(o, IF o = "ok" THEN "round" ELSE "track")

Round ==
    /\ step = "round"
    /\ step' = IF r.turn >= MaxDigRounds THEN "track" ELSE IF r.mine # {} THEN "chest" ELSE "boards"
    /\ r' = [r EXCEPT !.progressed = FALSE]
    /\ Silent /\ UNCHANGED maps

VaultChest ==
    /\ step = "chest"
    /\ \E o \in ClaimOutcomes :
          /\ ClaimChest({"stage"}, o)
          /\ r' = IF o = "ok" THEN [r EXCEPT !.progressed = TRUE, !.mine = OfKind(chests', {"stage"})]
                  ELSE r
          /\ Then(o, "boards")

\* IsHaveTimeLimitMap.
TimedActive == r.timed # NoBoard /\ (~Fact(r.timed).late \/ maps[r.timed].state # "have_got")

\* What the hammers of the start leave uncovered.
Need(b) == Size(maps[b]) - Levels[Fact(b).cfg].hammers

\* A timed stage that is ready is started when the hammers cover it.
MayStartTimed(b) ==
    /\ ~plan.barred
    /\ Levels[Fact(b).cfg].hammers > 0 /\ hammers["dig"] >= Need(b)

TimedIs(states) == step = "boards" /\ TimedActive /\ Known(r.timed) /\ maps[r.timed].state \in states

StartTimed ==
    /\ TimedIs({"not_begun"}) /\ MayStartTimed(r.timed)
    /\ \E o \in ClaimOutcomes :
          /\ Claim(o) /\ Started(r.timed, o)
          /\ maps' = IF o = "ok" THEN [maps EXCEPT ![r.timed].state = "digging"] ELSE maps
          /\ r' = [r EXCEPT !.progressed = @ \/ o = "ok"]
          /\ undertaken' = IF o = "ok" THEN undertaken \cup {r.timed} ELSE undertaken
          /\ Then(o, "turned")
    /\ NotRadar /\ UNCHANGED <<plan, chests, track, opens, wasted, falseAll>>

DigTimed ==
    /\ TimedIs({"digging"}) /\ ~Fact(r.timed).late
    /\ r' = StartDig(r.timed) /\ step' = "dig"
    /\ Silent /\ UNCHANGED maps

\* Its chest, or the acknowledgement that it failed: the stage is back.
TimedChest ==
    /\ TimedIs({"can_get"})
    /\ \E o \in ClaimOutcomes :
          /\ Claim(o)
          /\ \E reached \in Effect(o) :
                server' = IF reached THEN [server EXCEPT ![r.timed].state = "have_got"] ELSE server
          /\ r' = IF o = "ok" THEN [r EXCEPT !.progressed = TRUE, !.timed = NoBoard] ELSE r
          /\ Then(o, "turned")
    /\ NotRadar /\ UNCHANGED <<plan, chests, track, maps, hammers, opens, history>>

TimedFailed ==
    /\ \/ TimedIs({"fail"})
       \/ TimedIs({"digging"}) /\ Fact(r.timed).late
    /\ \E o \in Outcomes :
          /\ Reads(o)
          /\ r' = IF o = "ok" THEN [r EXCEPT !.progressed = TRUE, !.timed = NoBoard] ELSE r
          /\ Then(o, "turned")
    /\ UNCHANGED maps

\* The vault is left: a timed stage that is not known, not started, or over.
LeaveVault ==
    /\ step = "boards" /\ TimedActive
    /\ \/ ~Known(r.timed)
       \/ TimedIs({"not_begun"}) /\ ~MayStartTimed(r.timed)
       \/ TimedIs({"have_got"})
    /\ step' = "track"
    /\ Silent /\ UNCHANGED <<maps, r>>

Stage ==
    /\ step = "boards" /\ ~TimedActive
    /\ IF r.stage = NoBoard THEN step' = "turned" /\ UNCHANGED r
       ELSE IF ~Known(r.stage) THEN step' = "track" /\ UNCHANGED r
       ELSE IF maps[r.stage].state # "digging" THEN step' = "turned" /\ UNCHANGED r
       ELSE step' = "dig" /\ r' = StartDig(r.stage)
    /\ Silent /\ UNCHANGED maps

TimedDug ==
    /\ step = "dug" /\ Kind(r.cur) = "timed"
    /\ step' = IF r.broken THEN "track" ELSE "turned"
    /\ r' = [r EXCEPT !.progressed = r.last # "none"]
    /\ Silent /\ UNCHANGED maps

\* A stage that is done brings its chest and the next board.
StageDug ==
    /\ step = "dug" /\ Kind(r.cur) = "stage"
    /\ LET next == IF r.last = "next" THEN Fact(r.cur).next ELSE NoBoard
       IN /\ step' = IF r.broken THEN "track" ELSE IF r.last = "recheck" THEN "again" ELSE "turned"
          /\ r' = [r EXCEPT
                     !.progressed = @ \/ r.last # "none",
                     !.mine = @ \cup MadeReady(r.cur),
                     !.timed = IF next # NoBoard /\ Kind(next) = "timed" THEN next ELSE @,
                     !.stage = IF next # NoBoard /\ Kind(next) = "stage" THEN next ELSE @]
          /\ maps' = IF next # NoBoard /\ ~r.broken THEN [maps EXCEPT ![next] = ParseMap(next)] ELSE maps
    /\ Silent

Turned ==
    /\ step = "turned"
    /\ step' = IF r.progressed THEN "round" ELSE "track"
    /\ r' = [r EXCEPT !.turn = @ + 1]
    /\ Silent /\ UNCHANGED maps

-----------------------------------------------------------------------------
(* The vault's chest track.                                                 *)

TrackInfo ==
    /\ step = "track"
    /\ IF plan.track = 0 THEN step' = "over" /\ Silent /\ UNCHANGED r
       ELSE \E o \in Outcomes :
               /\ Reads(o)
               /\ r' = [r EXCEPT !.left = IF o = "ok" THEN track ELSE 0]
               /\ Then(o, IF o = "ok" THEN "track_chest" ELSE "over")
    /\ UNCHANGED maps

TrackChest ==
    /\ step = "track_chest" /\ r.left > 0
    /\ \E o \in ClaimOutcomes :
          /\ Claim(o)
          /\ \E reached \in Effect(o) : track' = IF reached /\ track > 0 THEN track - 1 ELSE track
          /\ r' = [r EXCEPT !.left = track']
          /\ Then(o, IF o = "ok" THEN step ELSE "over")
    /\ NotRadar /\ UNCHANGED <<plan, server, chests, maps, hammers, opens, history>>

TrackOver ==
    /\ step = "track_chest" /\ r.left = 0 /\ step' = "over"
    /\ Silent /\ UNCHANGED <<maps, r>>

Over ==
    /\ \/ step = "over"
       \/ step = "done" /\ (link = "lost" \/ "treasure-digs" \notin account.runs)
    /\ UNCHANGED allVars

DigNext ==
    \/ DigsBegin \/ RuinsInfo \/ Ruin \/ PlaceRuin \/ RuinBoard \/ RuinDug \/ RuinHeld \/ RuinChest
    \/ City \/ CityBoard \/ CityDug \/ CityChest \/ CityOver
    \/ Vault \/ Round \/ VaultChest \/ StartTimed \/ DigTimed \/ TimedChest \/ TimedFailed
    \/ LeaveVault \/ Stage \/ TimedDug \/ StageDug \/ Turned
    \/ TrackInfo \/ TrackChest \/ TrackOver \/ DigEnds \/ OpenBrick

RadarStep == RadarNext /\ UNCHANGED digVars

RunNext == RadarStep \/ DigNext \/ Over

\* Before it is read, a board is as the server has it.
DigInit ==
    /\ \E s \in Scenarios : RadarInit(s.account, s.tasks) /\ plan = s.plan
    /\ server = [b \in Boards |-> [state |-> plan.state[b], opened |-> {}]]
    /\ chests = plan.chests /\ track = plan.track
    /\ maps = [b \in Boards |-> ParseMap(b)]
    /\ hammers = plan.hammers
    /\ opens = 0 /\ claims = 0
    /\ r = [list |-> <<>>, cur |-> NoBoard, last |-> "none", broken |-> FALSE, stage |-> NoBoard,
            timed |-> NoBoard, mine |-> {}, turn |-> 0, progressed |-> FALSE,
            left |-> 0]
    /\ wasted = FALSE /\ undertaken = {} /\ falseAll = FALSE

DigSpec == DigInit /\ [][RunNext]_allVars

-----------------------------------------------------------------------------
\* The feature's copy of a board, which is its own between two reads, serves as
\* the board would, whatever failed before and whatever board came in a board's
\* place: no hammer goes to a brick that is open on the server (digMap.opened),
\* and the vault is told that all gems are out only when those are that it would
\* list at that moment, the ones that came in sight since the last read included
\* (checkOpenAll).  Gems that it does not list may be buried.
BoardCopyTrue == ~wasted /\ ~falseAll

\* The vault's last round has claimed a chest and then met a board that ends the
\* visit: a timed stage that cannot go on, whose dig takes no note of the claim, or
\* a stage that the table lacks.
VaultShut ==
    \/ TimedActive /\ (r.progressed \/ r.cur = r.timed)
    \/ r.stage # NoBoard /\ ~Known(r.stage) /\ r.progressed

\* A run without a fault leaves no chest of the city, of the vault or of its track
\* that was ready or that its own bricks made ready, unless its claims or its
\* rounds are used up.  A round of the vault claims one: of several that are ready
\* the others are left where a board ends the visit.
NoChestLeft ==
    step = "over" /\ ~failed /\ claims < MaxClaims /\ r.turn < MaxDigRounds =>
        /\ OfKind(chests, {"city"}) = {} /\ track = 0
        /\ OfKind(chests, {"stage"}) # {} => VaultShut

\* What feature_treasure_digs.go says at lines 24-27: a timed stage is started
\* only when the hammers cover every brick, so it cannot fail.
TimedCannotFail ==
    step = "over" /\ ~failed => \A b \in undertaken : server[b].state # "digging"

=============================================================================
