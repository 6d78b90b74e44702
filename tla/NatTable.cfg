\* Three connections, two of them colliding, table of 4; a byte holds two indices.
SPECIFICATION FairSpec
CONSTANTS
    Hosts <- MCHosts
    Ports <- MCPorts
    TableSize = 4
    ByteSize = 2
    Hash <- MCHash
    TxTuples <- SomeConns
    RxTuples <- SomeReplies
    Empty = Empty
    X = X
    NoTuple = NoTuple
INVARIANTS TypeOK UniquePorts SequentialPorts UniqueKeys TablesMirror NoHoles AnswersMatchTables BytesLeadBack
PROPERTIES ImplementsService
