\* A request and a subscription that share a queue of one, over two connections.
CONSTANTS
    get_nonce = get_nonce
    alice = alice
    Requests = {get_nonce}
    Subscribers = {alice}
    QueueSize = 1
    MaxConnections = 2
SPECIFICATION FairSpec
INVARIANTS RecordsAreRight
PROPERTIES OwnAnswerOnce EveryCallEnds
CHECK_DEADLOCK FALSE
