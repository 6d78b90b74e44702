\* Four pairs of programs, one lost frame, one frame of others.
SPECIFICATION HostSpec
CONSTANTS
    Clients <- MCClients
    Servers <- MCServers
    PayloadLens <- MCPayloadLens
    tuple5s <- MCTuples
    pktcnt = 3
    Senders <- MCSenders
    Echoers <- MCEchoers
    ForeignFrames <- MCForeign
    MaxLost = 1
    MaxForeign = 1
INVARIANTS HostTypeOK OneOutstanding RepliesAreAccepted ReportIsTrue BuffersAreReplies
PROPERTIES ClientEnds
\* A client without a reply waits for ever.
CHECK_DEADLOCK FALSE
