SPECIFICATION MCSpec
CONSTANTS
    NAccounts = 2
    NBattles = 2
    MaxSelects = 2
    MaxGames = 2
    MaxClosings = 2
    Receivers = {1}
    Reopening = TRUE
    Pairings <- OnePair
    BattleTypes = {"Finals", "League"}
    FirstTypes = {"Finals", "League"}
    TicketPrice = 20
    MaxTicketAmount = 1
    Amounts = {1, 2}
    Given = 2
    Inviters = {2}
    Funds <- OneTicket
    Sponsored = 0
    StartTime = 1
    MaxTime = 1
INVARIANTS LedgersAreSound CalcMirrorsVotes PointsMatchPicks TreasuryCoversClaims
CHECK_DEADLOCK FALSE
