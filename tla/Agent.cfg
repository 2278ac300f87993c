SPECIFICATION MCSpec
CONSTANTS
    NUsers = 2
    InitFree <- MCInitFree
    MaxBlock = 8
    Duration = 2
    Width = 16
    EpochWidth = 10
    BrokerStakingThreshold = 2
    Dominators = {1}
    Symbols <- MCSymbols
    Terms <- MCTerms
    External = {2}
    Fee = 1
    SignedCalls <- MCCalls
    MaxNonce = 4
INVARIANTS LedgersAgree OneUsePerLife TermsAreTheDominators
PROPERTIES VaultsEnd
CHECK_DEADLOCK FALSE
