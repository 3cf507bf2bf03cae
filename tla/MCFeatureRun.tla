---------------------------- MODULE MCFeatureRun ----------------------------
(***************************************************************************)
(* FeatureRun for TLC: every kind the code claims from, those of one       *)
(* feature or of two in a run, two duel days, and session configs with a   *)
(* policy that is right, misspelt or absent.                               *)
(***************************************************************************)
EXTENDS FeatureRun, TLC

\* An entry of one kind, open, with two boxes; e changes it.
Plain(k) ==
    [kinds |-> {k}, known |-> TRUE, needHQ |-> 0, begin |-> 0, end |-> 2, endless |-> FALSE,
     group |-> 0, rank |-> 0, days |-> <<>>, stageEnd |-> 0, boxes |-> <<1, 2>>, allowed |-> {1, 2}]

WithTasks(k, days) == [Plain(k) EXCEPT !.days = days]

MCEvents == <<"arenas", "arms", "arms-old", "boss", "bounty", "days", "days-all", "days-v2", "duel",
               "new", "pass", "shop", "sign", "storm", "tasks", "torch", "train">>

MCEventFacts ==
    ("arenas"   :> [Plain("arenas") EXCEPT !.begin = 1]) @@
    ("arms"     :> [WithTasks("arms_race", <<0, 0>>) EXCEPT !.group = 1, !.rank = 2, !.stageEnd = 2]) @@
    ("arms-old" :> [WithTasks("arms_race", <<0>>) EXCEPT !.group = 1, !.rank = 1]) @@
    ("boss"     :> [Plain("crystal_boss") EXCEPT !.boxes = <<1, 1, 2>>, !.allowed = {1, 2, 3}]) @@
    ("bounty"   :> [Plain("bounty_stash") EXCEPT !.boxes = <<1>>]) @@
    ("days"     :> [Plain("seven_day") EXCEPT !.allowed = {1}]) @@
    ("days-all" :> Plain("seven_day_all")) @@
    ("days-v2"  :> WithTasks("seven_day_v2", <<0, 1>>)) @@
    ("duel"     :> Plain("duel_chests")) @@
    ("new"      :> [Plain("bounty_stash") EXCEPT !.known = FALSE]) @@
    ("pass"     :> [WithTasks("battle_pass", <<0, 0>>) EXCEPT !.kinds = @ \cup {"overflow"}, !.boxes = <<1>>]) @@
    ("shop"     :> [Plain("event_shop") EXCEPT !.boxes = <<0>>, !.end = 0, !.endless = TRUE]) @@
    ("sign"     :> [Plain("sign_in") EXCEPT !.needHQ = 2]) @@
    ("storm"    :> Plain("winter_storm")) @@
    ("tasks"    :> WithTasks("activity_tasks", <<0, 0>>)) @@
    ("torch"    :> WithTasks("torch_relay", <<0, 0>>)) @@
    ("train"    :> WithTasks("flower_trains", <<1>>))

\* No feature of the repository is on by default.
Claimer(phase, ks) ==
    [phase |-> phase, on |-> FALSE, hold |-> FALSE, duel |-> {}, kinds |-> ks, quiet |-> FALSE]

\* The features that claim no events: their phase, and their kinds in order.
MCDailies ==
    ("activity-visitors"      :> Claimer(2, <<"activity_visitors">>)) @@
    ("alliance-call-help"     :> Claimer(2, <<"call_help">>)) @@
    ("alliance-premium-gifts" :> Claimer(3, <<"premium_gifts">>)) @@
    ("alliance-salary"        :> Claimer(2, <<"salary">>)) @@
    ("alliance-tasks"         :> Claimer(2, <<"alliance_tasks">>)) @@
    ("card-dailies"           :> Claimer(2, RunCardDailies)) @@
    ("collect-rewards"        :> Claimer(2, <<"collect_rewards">>)) @@
    ("daily-quests"           :> Claimer(3, <<"daily_quests">>)) @@
    ("daily-stamina"          :> Claimer(2, <<"stamina">>)) @@
    ("finished-timers"        :> Claimer(1, <<"finished_timers">>)) @@
    ("free-chests"            :> Claimer(2, RunFreeChests)) @@
    ("free-recruits"          :> [Claimer(2, RunFreeRecruits) EXCEPT !.duel = {"recruits"}]) @@
    ("ghost-recon"            :> Claimer(3, <<"ghost_recon">>)) @@
    ("konbini-free"           :> Claimer(2, <<"konbini">>)) @@
    ("quests"                 :> Claimer(3, <<"quests">>)) @@
    ("railway-cargo"          :> Claimer(2, <<"railway_cargo">>)) @@
    ("season-dailies"         :> Claimer(2, RunSeasonDailies)) @@
    ("season-mummies"         :> Claimer(2, <<"mummies">>)) @@
    ("season-output"          :> Claimer(2, RunSeasonOutput)) @@
    ("season-week-card"       :> Claimer(2, <<"season_card">>)) @@
    ("secret-tasks-claim"     :> Claimer(1, <<"secret_tasks">>)) @@
    ("stage-quests"           :> Claimer(3, <<"stage_quests">>)) @@
    ("t11-idle-expedition"    :> Claimer(2, <<"idle_expedition">>)) @@
    ("tower-up-first-rewards" :> Claimer(3, <<"tower_up">>)) @@
    ("world-small-claims"     :> Claimer(2, RunWorldSmallClaims)) @@
    ("wounded-compensation"   :> Claimer(2, <<"wounded_refunds">>)) @@
    ("zone-mobilization"      :> Claimer(3, <<"zone_mobilization">>))

\* Their entries are named after their kinds.  Most rewards are there from one
\* point on; the week cards' two are of one reply, the alliance has two lists.
DailyKinds == (UNION {ToSet(MCDailies[f].kinds) : f \in DOMAIN MCDailies}) \ {"week_cards", "week_gift"}

MCDailyFacts ==
    ("daily_quests"      :> WithTasks("daily_quests", <<0, 0>>)) @@
    ("quests"            :> [WithTasks("quests", <<0, 0>>) EXCEPT !.boxes = <<2>>]) @@
    ("secret_tasks"      :> [WithTasks("secret_tasks", <<0, 1>>) EXCEPT !.needHQ = 2]) @@
    ("season_alliance"   :> WithTasks("alliance_tasks", <<0>>)) @@
    ("week_card"         :> [Plain("week_cards") EXCEPT !.kinds = @ \cup {"week_gift"}, !.boxes = <<1, 1>>]) @@
    ("zone_mobilization" :> [Plain("zone_mobilization") EXCEPT !.boxes = <<1, 1, 1, 1, 1, 1>>, !.allowed = 1 .. 6]) @@
    [k \in DailyKinds |->
        IF KindFacts[k].tasks = "none" THEN [Plain(k) EXCEPT !.boxes = <<1, 1>>] ELSE WithTasks(k, <<0, 1>>)]

MCActivityFacts == MCEventFacts @@ MCDailyFacts

\* By id.
MCEntries == MCEvents \o FoldSet(LAMBDA a, s : Append(s, a), <<>>, DOMAIN MCDailyFacts)

MCActivities == ToSet(MCEntries)

MCDuelDays ==
    {[begin |-> 0, end |-> 1, scores |-> {"radar"}], [begin |-> 1, end |-> 2, scores |-> {"tasks"}]}

MCFeatureFacts ==
    ("arms-race-chests"     :> Claimer(3, RunArmsRaceChests)) @@
    ("battle-pass"          :> Claimer(3, RunBattlePass)) @@
    ("battle-pass-overflow" :> Claimer(3, RunBattlePassOverflow)) @@
    ("event-claims"         :> Claimer(3, RunEventClaims)) @@
    ("event-shop-freebies"  :> Claimer(2, RunEventShopFreebies)) @@
    ("radar-claims"         :> [Claimer(2, <<>>) EXCEPT !.hold = TRUE, !.duel = {"radar"}]) @@
    ("secret-tasks-start"   :> [Claimer(2, <<>>) EXCEPT !.duel = {"tasks"}, !.quiet = TRUE]) @@
    ("sign-in"              :> Claimer(2, RunSignIn)) @@
    ("torch-relay"          :> Claimer(3, RunTorchRelay)) @@
    MCDailies

\* By name.
MCRegistry ==
    <<"activity-visitors", "alliance-call-help", "alliance-premium-gifts", "alliance-salary",
      "alliance-tasks", "arms-race-chests", "battle-pass", "battle-pass-overflow", "card-dailies",
      "collect-rewards", "daily-quests", "daily-stamina", "event-claims", "event-shop-freebies",
      "finished-timers", "free-chests", "free-recruits", "ghost-recon", "konbini-free", "quests",
      "radar-claims", "railway-cargo", "season-dailies", "season-mummies", "season-output",
      "season-week-card", "secret-tasks-claim", "secret-tasks-start", "sign-in", "stage-quests",
      "t11-idle-expedition", "torch-relay", "tower-up-first-rewards", "world-small-claims",
      "wounded-compensation", "zone-mobilization">>

\* What a session config enables.
On(fs) == [f \in fs |-> TRUE]

Collect == [only |-> "all", force |-> FALSE]

Scenario(fs, p, cmd, as) ==
    [config |-> [enabled |-> On(fs), policy |-> p], command |-> cmd,
     listed |-> SelectSeq(MCEntries, LAMBDA a : a \in as)]

\* The features that may be held, and what follows them.
Spenders == {"radar-claims", "secret-tasks-start", "arms-race-chests"}

Claimers == {"secret-tasks-start", "event-claims", "torch-relay", "event-shop-freebies", "sign-in"}

\* The entries that features claim from.
EntriesOf(fs) ==
    {a \in MCActivities :
        MCActivityFacts[a].kinds \cap UNION {ToSet(MCFeatureFacts[f].kinds) : f \in fs} # {}}

MCScenarios ==
    {Scenario(Spenders, p, Collect, {"duel"}) :
        p \in {<<>>, "radar-claims" :> "Hold",
               ("secret-tasks-start" :> "hold") @@ ("radar-claims" :> "always")}}
    \cup {Scenario({"radar-claims"}, <<>>, Collect, {"duel"})}
    \cup {Scenario({}, <<>>, cmd, {"duel"}) :
             cmd \in {Collect} \cup {[only |-> "radar-claims", force |-> b] : b \in BOOLEAN}}
    \cup {Scenario(Spenders, <<>>, Collect, {"arms", "arms-old"}),
          Scenario({"secret-tasks-start", "battle-pass", "battle-pass-overflow"}, <<>>, Collect, {"pass"})}
    \cup {Scenario(Claimers, <<>>, Collect, as) :
             as \in {{"arenas", "new", "bounty"}, {"boss"}, {"storm"}, {"days"}, {"sign", "shop"},
                         {"days-all"}, {"days-v2"}, {"tasks"}, {"torch"}, {"train"}}}
    \cup {Scenario({f}, <<>>, Collect, EntriesOf({f})) : f \in DOMAIN MCDailies}
    \cup {Scenario({f, "secret-tasks-start"}, <<>>, Collect, EntriesOf({f})) :
             f \in {g \in DOMAIN MCDailies : MCDailies[g].phase = 3}}
    \cup {Scenario({"card-dailies", "free-chests"}, <<>>, Collect, {"month_card", "week_card"}),
          Scenario({"free-recruits", "stage-quests"}, "free-recruits" :> "hold", Collect,
                   {"duel", "free_survivor", "stage_quests"})}

\* The entries of which every reward is there from the beginning: no action of
\* the scenarios adds to them.
Ready == {a \in DOMAIN MCDailyFacts : a \notin EntriesOf({f \in DOMAIN MCDailies : MCDailies[f].phase = 3})}

MCFirstEvents ==
    [a \in MCActivities |->
        {[task |-> t, score |-> s, got |-> {}, drained |-> 0] :
            t \in [DOMAIN MCActivityFacts[a].days -> IF a \in Ready THEN {1} ELSE {0, 1}],
            s \in IF a \in Ready THEN {1}
                  ELSE IF a \in {"boss", "storm", "days", "days-all", "bounty", "tower_up", "zone_mobilization"}
                  THEN {0, 1} ELSE {0}}]

=============================================================================
