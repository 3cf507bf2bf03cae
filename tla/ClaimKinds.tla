----------------------------- MODULE ClaimKinds -----------------------------
(***************************************************************************)
(* What the features of src/internal/game claim from, by kind, and how     *)
(* each kind departs from the shape they share: read about it, claim its   *)
(* tasks, perhaps read again, open its boxes.                              *)
(*                                                                         *)
(* Some kinds are the server's events.  The others are rewards of the      *)
(* account, its alliance or its season (quests, cards, chests, salaries,   *)
(* queues): a one-time reward is a box, a list of them tasks.              *)
(***************************************************************************)
EXTENDS Sequences

\* How a kind reads: from the sweep's cache ("sweep"); past it ("fresh"); by a
\* request of its own ("direct"), which may be without an error where the server
\* refuses it ("quiet"), without end where it fails ("lenient": the rest is in
\* the init push), or of one reply for the login ("once"); or from the init push.
\* What a failed task claim means: the next task ("each") or none ("stop");
\* "all" claims them at once.  What the kind learns from the tasks: the score by
\* a second read, or by the claims' replies; the quests that follow ("chain").
\* The boxes: one by one past failures ("each"), until one fails ("stop"), at
\* once ("all"), one by one with a read before each ("drain"), or by parts, of
\* which each ends at its first failure ("parts").
Kind(read, tasks, after, boxes) ==
    [read |-> read, tasks |-> tasks, after |-> after, boxes |-> boxes]

\* The shapes that several kinds have.
InInit      == Kind("init",   "none", "none", "all")
ListInInit  == Kind("init",   "each", "none", "none")
PairInInit  == Kind("init",   "none", "none", "each")
Asked       == Kind("direct", "none", "none", "all")
ListAsked   == Kind("direct", "each", "none", "none")
BatchAsked  == Kind("direct", "all",  "none", "none")
WeekCardInfo == Kind("once",  "none", "none", "all")

-----------------------------------------------------------------------------
(* The events. *)

ActivityTasks == Kind("sweep",  "each", "reread", "stop")
Arenas        == Kind("direct", "none", "none",   "each")
ArmsRace      == Kind("sweep",  "all",  "reread", "each")
BattlePass    == Kind("sweep",  "each", "reply",  "all")
BountyStash   == Kind("sweep",  "none", "none",   "all")
CrystalBoss   == Asked
DuelChests    == Kind("sweep",  "none", "none",   "each")
EventShop     == Kind("sweep",  "none", "none",   "all")
FlowerTrains  == ListInInit
Overflow      == Kind("fresh",  "none", "none",   "drain")
SevenDay      == Kind("sweep",  "none", "none",   "each")
SevenDayAll   == Kind("sweep",  "none", "none",   "all")
SevenDayV2    == Kind("sweep",  "each", "reread", "all")
SignIn        == Kind("sweep",  "none", "none",   "all")
TorchRelay    == Kind("sweep",  "stop", "reply",  "stop")
WinterStorm   == Asked

EventKinds ==
    [activity_tasks |-> ActivityTasks, arenas |-> Arenas, arms_race |-> ArmsRace,
     battle_pass |-> BattlePass, bounty_stash |-> BountyStash, crystal_boss |-> CrystalBoss,
     duel_chests |-> DuelChests, event_shop |-> EventShop, flower_trains |-> FlowerTrains,
     overflow |-> Overflow, seven_day |-> SevenDay, seven_day_all |-> SevenDayAll,
     seven_day_v2 |-> SevenDayV2, sign_in |-> SignIn, torch_relay |-> TorchRelay,
     winter_storm |-> WinterStorm]

-----------------------------------------------------------------------------
(* The other features, each with its kinds. *)

ActivityVisitors  == [activity_visitors |-> ListInInit]
AllianceCallHelp  == [call_help |-> ListInInit]
AllianceGifts     == [premium_gifts |-> Kind("direct", "stop", "none", "none")]
AllianceSalary    == [salary |-> Kind("lenient", "each", "none", "none")]
AllianceTasks     == [alliance_tasks |-> ListAsked]
CardDailies       == [month_card |-> InInit, week_cards |-> WeekCardInfo, hero_cards |-> ListAsked,
                      golloes |-> PairInInit, truck_privilege |-> InInit]
CollectRewards    == [collect_rewards |-> Kind("init", "none", "none", "stop")]
DailyQuests       == [daily_quests |-> Kind("direct", "each", "reply", "all")]
DailyStamina      == [stamina |-> Asked]
FinishedTimers    == [finished_timers |-> ListInInit]
FreeChests        == [store_chest |-> InInit, weekly_chest |-> InInit, week_gift |-> WeekCardInfo]
FreeRecruits      == [free_heroes |-> ListInInit, free_survivor |-> Asked]
GhostRecon        == [ghost_recon |-> BatchAsked]
IdleExpedition    == [idle_expedition |-> Kind("quiet", "none", "none", "all")]
KonbiniFree       == [konbini |-> InInit]
Quests            == [quests |-> Kind("init", "each", "chain", "all")]
RailwayCargo      == [railway_cargo |-> PairInInit]
SeasonDailies     == [power_milestones |-> Asked, military_daily |-> Asked,
                      season_tasks |-> Kind("sweep", "each", "none", "none")]
SeasonMummies     == [mummies |-> InInit]
SeasonOutput      == [city_output |-> Asked, strongholds |-> ListAsked, attachments |-> Asked,
                      faction_output |-> Asked]
SeasonWeekCard    == [season_card |-> Kind("direct", "none", "none", "each")]
SecretTasks       == [secret_tasks |-> BatchAsked]
StageQuests       == [stage_quests |-> Kind("init", "stop", "none", "none")]
TowerUpRewards    == [tower_up |-> PairInInit]
WorldSmallClaims  == [whistle_box |-> InInit, notices |-> ListAsked, trends |-> ListAsked,
                      locked_monsters |-> ListInInit, boss_refund |-> Asked]
WoundedRefunds    == [wounded_refunds |-> ListInInit]
ZoneMobilization  == [zone_mobilization |-> Kind("direct", "none", "none", "parts")]

\* The kinds of the events and of each other feature; no kind is in two of them.
KindTables ==
    {EventKinds, ActivityVisitors, AllianceCallHelp, AllianceGifts, AllianceSalary, AllianceTasks,
     CardDailies, CollectRewards, DailyQuests, DailyStamina, FinishedTimers, FreeChests,
     FreeRecruits, GhostRecon, IdleExpedition, KonbiniFree, Quests, RailwayCargo, SeasonDailies,
     SeasonMummies, SeasonOutput, SeasonWeekCard, SecretTasks, StageQuests, TowerUpRewards,
     WorldSmallClaims, WoundedRefunds, ZoneMobilization}

KindFacts ==
    [k \in UNION {DOMAIN t : t \in KindTables} |-> (CHOOSE t \in KindTables : k \in DOMAIN t)[k]]

\* The kinds of which only the first open entry is visited.
OnlyFirst == {"ghost_recon", "military_daily", "season_card"}

\* The boxes a kind is about where two kinds share one reply.
SharedBoxes == [week_cards |-> {1}, week_gift |-> {2}]

\* The parts of the zone mobilization: challenge, defence, donation boxes, stages.
ZoneParts == {{1}, {2, 3}, {4, 5}, {6}}

-----------------------------------------------------------------------------
(* The kinds the features take, in their order; a feature of one kind has no *)
(* order.                                                                    *)

RunArmsRaceChests == <<"arms_race", "duel_chests">>
RunBattlePass == <<"battle_pass">>
RunBattlePassOverflow == <<"overflow">>
RunCardDailies == <<"month_card", "week_cards", "hero_cards", "golloes", "truck_privilege">>
RunEventClaims ==
    <<"crystal_boss", "winter_storm", "seven_day", "seven_day_all", "seven_day_v2", "bounty_stash",
      "activity_tasks", "arenas", "flower_trains">>
RunEventShopFreebies == <<"event_shop">>
RunFreeChests == <<"store_chest", "weekly_chest", "week_gift">>
RunFreeRecruits == <<"free_heroes", "free_survivor">>
RunSeasonDailies == <<"power_milestones", "military_daily", "season_tasks">>
RunSeasonOutput == <<"city_output", "strongholds", "attachments", "faction_output">>
RunSignIn == <<"sign_in">>
RunTorchRelay == <<"torch_relay">>
RunWorldSmallClaims == <<"whistle_box", "notices", "trends", "locked_monsters", "boss_refund">>

=============================================================================
