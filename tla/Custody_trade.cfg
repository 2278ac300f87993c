\* Trading between two accounts at one dominator, which also earn the fees.
CONSTANTS
    NUsers = 2
    NDominators = 1
    Tokens <- MCTokens
    Markets <- MCMarkets
    InitFree <- MCInitFree
    Amounts = {2}
    OrderAmounts = {0, 1, 2}
    FillPlans <- MCFillPlans
    FeeRates = {0, 10000}
    MaxFee = 10000
    Tolerance = 1
    Beneficiary <- MCBeneficiary
    Brokers = {1}
    MatcherMayReject = FALSE
SPECIFICATION Spec
INVARIANTS BookMatchesReserves HoldingsAddUp
