\* Three packets out and back, every pause of the two senders.
SPECIFICATION SystemSpec
CONSTANTS
    Hosts <- MCHosts
    Ports <- MCPorts
    TableSize = 4
    Hash <- MCHash
    TxTuples <- NoTuples
    RxTuples <- NoTuples
    Ingresses <- MCIngresses
    Naps <- MCNaps
    TornHost <- MCTorn
    Empty = Empty
    X = X
    NoTuple = NoTuple
    NoBeat = NoBeat
INVARIANTS SystemTypeOK RequestsAreCurrent HeaderAligned StreamsIntact SameTupleSamePort EchoRestoresPort RepliesAreKnown TestVerdict
PROPERTIES AllEchoed
\* The test stops when all packets are back.
CHECK_DEADLOCK FALSE
