\* One user, the native token and one with a contract on another chain, fewer or more decimals than the chain's.
CONSTANTS
    alice = alice
    treasury = treasury
    donor = donor
    bridge = bridge
    prover = prover
    usdt = usdt
    tao = tao
    here = here
    eth = eth
    Accounts = {alice, treasury, donor, bridge}
    Users = {alice}
    Dominators = {prover}
    Treasury = treasury
    Donor = donor
    BridgeAccount = bridge
    Chains = {here, eth}
    Contracts = {usdt, tao}
    ThisChain = here
    TAO = tao
    Associations <- MCAssociations
    AssociatedIds = {0}
    Decimals = {0, 2}
    MaxTokens = 1
    StandardDecimals = 1
    MaxDecimals = 2
    Base = 10
    Width = 100
    BurnTAOwhenIssue = 1
    InitFree <- MCInitFree
    Quintill = 10
    DefaultBridgingFee = 4
    Fees = {0}
    Trades <- MCTrades
    NativeTokenMaxValue = 48
    DonationForAgent = 1
    Amounts = {3, 13}
    Messages = {1, 2}
    MaxOut = 16
SPECIFICATION MCSpec
INVARIANTS BridgeIsSolvent
PROPERTIES BurnedIsAnnounced ArrivesAtDominator DepositsArrive
CHECK_DEADLOCK FALSE
