\* Two dominators, no trading: receipts, rejections, callbacks, evictions.
CONSTANTS
    NUsers = 1
    NDominators = 2
    Tokens <- MCTokens
    Markets <- MCMarkets
    InitFree <- OneRich
    Amounts = {0, 1, 2}
    OrderAmounts = {0, 1}
    FillPlans <- NoFillPlans
    FeeRates = {0}
    MaxFee = 10000
    Tolerance = 1
    Beneficiary <- MCBeneficiary
    Brokers = {}
    MatcherMayReject = TRUE
SPECIFICATION FairSpec
INVARIANTS StashCoversReceipt ReservedCoversClaims RevokeResolvable
PROPERTIES StrandedOnlyByTransferIn ReceiptsAnswered
