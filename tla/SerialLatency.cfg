\* The bound the README gives.
SPECIFICATION BenchSpec
CONSTANTS
    Hosts <- MCHosts
    Ports <- MCPorts
    Protocols <- MCProtocols
    IdSpace = 4
    SerialHash <- MCHash
    Arrays <- MCArrays
    None = None
INVARIANTS WorstCase
\* The bench stops when it has all results.
CHECK_DEADLOCK FALSE
