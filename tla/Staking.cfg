SPECIFICATION MCSpec
CONSTANTS
    NStakers = 2
    NDominators = 2
    SeasonDuration = 4
    GracePeriod = 2
    UnstakeDelay = 4
    OnlineThreshold = 2
    MinStake = 1
    Parts = 1000
    Funds <- MCFunds
    Amounts = {1, 2}
    Profits = {3}
    MaxProfit = 3
    MaxBlock = 11
INVARIANTS StakesAreReserved OnlineAtThreshold SnapshotCoversUnclaimed PaidFromProfit
PROPERTIES CallsKeepEntitlements UnstakedIsFreed
