SPECIFICATION MCSpec
CONSTANTS
    NAccounts = 2
    NBettings = 1
    NBattles = 1
    NItems = 6
    OddsValues <- TwoOdds
    OddsLists <- AllLists
    Scores <- AllScores
    BattleTypes = {"Finals", "League", "SemiFinals"}
    StartTimes = {1}
    MinBet = 1
    Amounts = {1, 2}
    Inviters = {2}
    Funds <- MCFunds
    MaxTime = 1
    MaxBets = 2
    MaxWithdrawn = 2
INVARIANTS BooksAreSound BookedIsBacked WinnersShortOnlyDust
PROPERTIES PoolPaysOnce
CHECK_DEADLOCK FALSE
