\* What the comment on TransferIn says of the stash.
CONSTANTS
    NUsers = 1
    NDominators = 2
    Tokens <- MCTokens
    Markets <- MCMarkets
    InitFree <- OneRich
    Amounts = {0, 1, 2}
    OrderAmounts = {0, 1}
    FillPlans <- NoFillPlans
    FeeRates = {0}
    MaxFee = 10000
    Tolerance = 1
    Beneficiary <- MCBeneficiary
    Brokers = {}
    MatcherMayReject = TRUE
SPECIFICATION FairSpec

PROPERTIES StashMovesToAuthorizing
