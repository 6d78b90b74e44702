\* Three connections, table of 2: the table fills up and is asked for more.
SPECIFICATION FairSpec
CONSTANTS
    Hosts <- MCHosts
    Ports <- MCPorts
    TableSize = 2
    ByteSize = 2
    Hash <- MCHash
    TxTuples <- FullConns
    RxTuples <- SomeReplies
    Empty = Empty
    X = X
    NoTuple = NoTuple
INVARIANTS UniquePorts
PROPERTIES SearchesEnd InsertionEnds
