\* The TCP packets of gen_packet_ip.
SPECIFICATION SystemSpec
CONSTANTS
    Hosts <- MCHosts
    Ports <- MCPorts
    TableSize = 4
    Hash <- MCHash
    TxTuples <- NoTuples
    RxTuples <- NoTuples
    Ingresses <- TestIngresses
    Naps <- MCNaps
    TornHost <- MCTorn
    Empty = Empty
    X = X
    NoTuple = NoTuple
    NoBeat = NoBeat
INVARIANTS TestTranslatesAllTcp
\* The test stops when all packets are back.
CHECK_DEADLOCK FALSE
