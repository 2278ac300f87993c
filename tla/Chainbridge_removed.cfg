\* What the doc of remove_resource says of its effect.
CONSTANTS
    a = a
    b = b
    c = c
    unlock = unlock
    tao = tao
    Candidates = {a, b}
    ChainIds = {0, 1}
    OwnChain = 0
    ResourceIds = {tao}
    Proposals <- OneProposal
    ResourceOf <- MCResourceOf
    ProposalLifetime = 2
    MaxThreshold = 2
    MaxNonce = 2
    MaxBlock = 4
SPECIFICATION FairSpec
PROPERTIES RemovedResourceRejected
