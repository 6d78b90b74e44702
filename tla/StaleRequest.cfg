\* Reset may come while a request is under way.
SPECIFICATION ResetSpec
CONSTANTS
    Hosts <- MCHosts
    Ports <- MCPorts
    TableSize = 4
    Hash <- MCHash
    TxTuples <- NoTuples
    RxTuples <- NoTuples
    Ingresses <- MCIngresses
    Naps <- MCNaps
    TornHost <- MCTorn
    Empty = Empty
    X = X
    NoTuple = NoTuple
    NoBeat = NoBeat
INVARIANTS RewritesOwnTuple
\* The test stops when all packets are back.
CHECK_DEADLOCK FALSE
