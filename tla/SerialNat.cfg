\* Four tuples in every order, every pause.
SPECIFICATION BenchSpec
CONSTANTS
    Hosts <- MCHosts
    Ports <- MCPorts
    Protocols <- MCProtocols
    IdSpace = 4
    SerialHash <- MCHash
    Arrays <- MCArrays
    None = None
INVARIANTS BenchTypeOK ResultsIdentifyTuples ResultsInOrder ProbesBounded
PROPERTIES AllAnswered ImplementsService
\* The bench stops when it has all results.
CHECK_DEADLOCK FALSE
