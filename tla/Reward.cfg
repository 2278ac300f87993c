SPECIFICATION MCSpec
CONSTANTS
    NUsers = 2
    EraDuration = 2
    TimeCoefficientZoom = 1
    RewardTerminateAt = 3
    Parts = 1000
    EraRewardsSet = {3, 5}
    RewardsPerEra = 5
    LegacyRewards <- MCLegacyRewards
    LegacyVolumes <- MCLegacyVolumes
    Prices = {2}
    Amounts = {2}
    MaxTaken = 4
    MaxOpen = 1
    MaxBlock = 4
INVARIANTS SharesFit EraIsPaidOnce
PROPERTIES EntitlementsKept
