CONSTANTS
    Tasks <- MCTasks
    TaskFacts <- MCTaskFacts
    Accounts <- MCAccounts
    HelpCost = 1
    HelpReserve = 6
    BaseMax = 11
    QuickMinSeason = 2
    QuickMinLevel = 6
    MaxEvents = 3
    MaxRounds = 3
    MaxLevelClaims = 1
    Levels <- MCLevels
    BlockSizes <- MCBlockSizes
    Boards <- MCBoards
    BoardFacts <- MCBoardFacts
    NoBoard = "none"
    Scenarios <- MCScenarios
    MaxOpens = 6
    MaxClaims = 4
    MaxDigRounds = 5
SPECIFICATION DigSpec
INVARIANT TimedCannotFail
