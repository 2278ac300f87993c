\* Up to three relayers, one proposal with a lifetime of two blocks.
CONSTANTS
    a = a
    b = b
    c = c
    unlock = unlock
    tao = tao
    Candidates = {a, b, c}
    ChainIds = {0, 1}
    OwnChain = 0
    ResourceIds = {tao}
    Proposals <- OneProposal
    ResourceOf <- MCResourceOf
    ProposalLifetime = 2
    MaxThreshold = 3
    MaxNonce = 2
    MaxBlock = 4
SPECIFICATION Spec
SYMMETRY Interchangeable
PROPERTIES DispatchNeedsQuorum CancelledWhenHopeless ClosedIsFinal DeliversOnce
