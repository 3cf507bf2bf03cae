------------------------------- MODULE MCDigRun ------------------------------
\* An instance of DigRun: helps that cost and one that does not, a talk, a
\* visitor, a rescue, and tasks that are drawn during the run; ruins, a city of
\* two boards, and vaults with and without a timed stage.
EXTENDS DigRun, TLC

MCTasks == 1 .. 7

Task(type) == [type |-> type, free |-> FALSE, end |-> 0, agrees |-> TRUE]

MCTaskFacts ==
    1 :> Task("help")
    @@ 2 :> [Task("visitor") EXCEPT !.end = 2]
    @@ 3 :> Task("talk")
    @@ 4 :> Task("help")
    @@ 5 :> Task("pick")
    @@ 6 :> [Task("help") EXCEPT !.free = TRUE]
    @@ 7 :> Task("rescue")

MCFirstTasks ==
    {<<"open", "stock", "stock", "stock", "stock", "rewarded", "rewarded">>,
     <<"stock", "hidden", "open", "stock", "rewarded", "rewarded", "open">>,
     <<"finished", "stock", "stock", "hidden", "hidden", "rewarded", "finished">>,
     <<"open", "stock", "rewarded", "stock", "open", "stock", "rewarded">>,
     <<"stock", "finished", "hidden", "open", "stock", "open", "rewarded">>}

Account == [runs |-> {"radar-claims", "radar-execute"}, switch |-> TRUE, season |-> 2, level |-> 6, rewardLevel |-> 6,
            alliance |-> TRUE, scores |-> TRUE, known |-> TRUE, stamina |-> 6, elapsed |-> 0,
            rate |-> 1, cap |-> 11]

Alone == [Account EXCEPT !.runs = {"radar-execute"}]
Digs == [Account EXCEPT !.runs = {"treasure-digs"}]

MCAccounts ==
    {Account, Alone, Digs,
     [Digs EXCEPT !.scores = FALSE],
     [Alone EXCEPT !.stamina = 7],
     [Account EXCEPT !.stamina = 5, !.elapsed = 3, !.rate = 2, !.scores = FALSE],
     [Account EXCEPT !.rewardLevel = 5, !.stamina = 8, !.cap = 12],
     [Account EXCEPT !.alliance = FALSE],
     [Account EXCEPT !.level = 5, !.rewardLevel = 3],
     [Account EXCEPT !.switch = FALSE, !.runs = @ \cup {"treasure-digs"}]}

\* A board of 2 by 2 bricks, one of 2 by 1 whose start brings a hammer, and one
\* that the table lacks.
MCLevels == "wide" :> [w |-> 2, h |-> 2, hammers |-> 2] @@ "timed" :> [w |-> 2, h |-> 1, hammers |-> 1]
MCBlockSizes == "gem" :> [w |-> 1, h |-> 1] @@ "bar" :> [w |-> 1, h |-> 2]

Board(kind) ==
    [kind |-> kind, cfg |-> "wide", gems |-> "gem" :> 1 @@ "bar" :> 2, listed |-> {"gem", "bar"},
     seen |-> FALSE, sent |-> TRUE, next |-> "none", own |-> FALSE, event |-> "open", late |-> FALSE]

\* One that lists the gems in sight only.
Sighted(board) == [board EXCEPT !.listed = {}, !.seen = TRUE]

OneGem(board, gem, at) == [board EXCEPT !.gems = gem :> at, !.listed = {gem}]
Timed == OneGem([Board("timed") EXCEPT !.cfg = "timed"], "gem", 2)

MCBoardFacts ==
    "r1" :> [Board("ruin") EXCEPT !.event = "hidden", !.sent = FALSE]
    @@ "r2" :> Sighted(Board("ruin"))
    @@ "r3" :> [Board("ruin") EXCEPT !.cfg = "other"]
    @@ "r4" :> [Board("ruin") EXCEPT !.event = "gone"]
    @@ "c1" :> OneGem([Board("city") EXCEPT !.next = "c2"], "gem", 1)
    @@ "c2" :> OneGem(Board("city"), "gem", 3)
    @@ "s1" :> [Board("stage") EXCEPT !.next = "t1"]
    @@ "s2" :> [Board("stage") EXCEPT !.next = "s3", !.sent = FALSE]
    @@ "s3" :> OneGem([Board("stage") EXCEPT !.own = TRUE], "bar", 1)
    @@ "s4" :> [Board("stage") EXCEPT !.cfg = "other"]
    @@ "s5" :> Sighted(Board("stage"))
    @@ "s6" :> [Board("stage") EXCEPT !.listed = {"bar"}, !.own = TRUE]
    @@ "t1" :> Timed
    @@ "t2" :> [Timed EXCEPT !.late = TRUE]
    @@ "t3" :> [Timed EXCEPT !.cfg = "other"]

MCBoards == DOMAIN MCBoardFacts

Found == [ruins |-> <<>>, city |-> "none", stage |-> "none", timed |-> "none",
          state |-> [b \in MCBoards |-> IF b \in {"r1", "c1", "t1"} THEN "not_begun" ELSE "digging"],
          hammers |-> [dig |-> 4, explorer |-> 1], chests |-> {}, track |-> 0, barred |-> FALSE]

MCPlans ==
    {[Found EXCEPT !.ruins = <<"r4", "r1", "r3", "r2">>, !.track = 2],
     [Found EXCEPT !.city = "c1", !.chests = {"c2"}],
     [Found EXCEPT !.stage = "s1", !.chests = {"s3"}],
     [Found EXCEPT !.stage = "s1", !.hammers.dig = 3, !.track = 1],
     [Found EXCEPT !.stage = "s2", !.hammers.dig = 6],
     [Found EXCEPT !.stage = "s5"],
     [Found EXCEPT !.stage = "s6", !.hammers.dig = 6],
     [Found EXCEPT !.stage = "s3", !.timed = "t2"],
     [Found EXCEPT !.stage = "s3", !.timed = "t1", !.state = [@ EXCEPT !["t1"] = "can_get"]],
     [Found EXCEPT !.stage = "s4", !.timed = "t1", !.hammers.dig = 1],
     [Found EXCEPT !.stage = "s3", !.timed = "t1", !.barred = TRUE],
     [Found EXCEPT !.stage = "s3", !.timed = "t1", !.state = [@ EXCEPT !["t1"] = "have_got"]],
     [Found EXCEPT !.stage = "s3", !.timed = "t2", !.state = [@ EXCEPT !["t2"] = "fail"]],
     [Found EXCEPT !.stage = "s3", !.timed = "t3"],
     [Found EXCEPT !.stage = "s3", !.timed = "t3", !.chests = {"s1", "s3"}],
     [Found EXCEPT !.chests = {"c2", "s3"}],
     [Found EXCEPT !.ruins = <<"r1">>, !.stage = "s1"]}

FewTasks == <<"finished", "rewarded", "open", "rewarded", "rewarded", "rewarded", "rewarded">>

MCScenarios ==
    [account : {a \in MCAccounts : "radar-execute" \in a.runs /\ "treasure-digs" \notin a.runs},
     tasks : MCFirstTasks, plan : {Found}]
    \cup [account : {a \in MCAccounts : "treasure-digs" \in a.runs}, tasks : {FewTasks}, plan : MCPlans]
=============================================================================
