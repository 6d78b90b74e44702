\* New connections only, and senders that never pause.
SPECIFICATION ArbiterSpec
CONSTANTS
    Hosts <- MCHosts
    Ports <- MCPorts
    TableSize = 16
    Hash <- MCHash
    TxTuples <- NoTuples
    RxTuples <- NoTuples
    Ingresses <- MCIngresses
    Naps <- MCNaps
    TornHost <- MCTorn
    Empty = Empty
    X = X
    NoTuple = NoTuple
    NoBeat = NoBeat
INVARIANTS RoundRobin
\* The test stops when all packets are back.
CHECK_DEADLOCK FALSE
