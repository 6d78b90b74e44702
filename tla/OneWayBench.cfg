\* Two packets a test, every pause of the sender.
SPECIFICATION OneWaySpec
CONSTANTS
    Lengths <- MCLengths
    Fills <- MCFills
    TestTuples <- MCTuples
    PacketCount = 2
    ArpLimit = 100
    IpLimit = 96
    Naps <- MCNaps
    TornHost = TornHost
    X = X
    NoTuple = NoTuple
    NoBeat = NoBeat
INVARIANTS OneWayTypeOK BytesInOrder LimitIsEnough ArpTestPasses IpVerdict
PROPERTIES BothTestsEnd
\* main ends after the second test.
CHECK_DEADLOCK FALSE
