-------------------------- MODULE MCHostPrograms --------------------------
(***************************************************************************)
(* Instance of HostPrograms: every client with every server, two           *)
(* connections, one of which has its port at both ends, and frames of      *)
(* others: ARP, one longer than any buffer, and of the EtherType of the    *)
(* test UDP and what looks like an echo.                                   *)
(***************************************************************************)
EXTENDS HostPrograms

MCClients == {"test_client", "perf_client"}
MCServers == {"test_server", "perf_server"}

Tuple(host, port, protocol) ==
    [src_ip |-> "soarx", dst_ip |-> host, src_port |-> 5, dst_port |-> port,
     protocol |-> protocol]
MCTuples == <<Tuple("a", 7, 6), Tuple("b", 5, 6)>>

\* Padded, as it is, and too long for a server.
MCPayloadLens == {0, 128, 4800}

MCSenders == {"s1", "s2"}
MCEchoers == {"e1", "e2"}

Other(ether, tuple, len) ==
    [ether |-> ether, tuple |-> tuple, payload |-> 0, len |-> len, from |-> "others"]
MCForeign == {Other("arp", MCTuples[1], 60), Other("ip", MCTuples[1], 9000),
              Other("custom", Tuple("a", 7, 17), 60),
              Other("custom", Reversed(MCTuples[1]), HeaderBytes + 128)}
=============================================================================
