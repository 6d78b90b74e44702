\* More connections than entries.
SPECIFICATION FairSpec
CONSTANTS
    Hosts <- MCHosts
    Ports <- MCPorts
    TableSize = 2
    ByteSize = 2
    Hash <- MCHash
    TxTuples <- FullConns
    RxTuples <- SomeReplies
    Empty = Empty
    X = X
    NoTuple = NoTuple
PROPERTIES OutboundSearchEnds
