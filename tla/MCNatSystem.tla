---------------------------- MODULE MCNatSystem ----------------------------
(***************************************************************************)
(* Instances of NatSystem: packets of seven words, 54 bytes, the shortest  *)
(* the test sends (src/3ip_testbench.cpp:533), and a table of 4 entries.   *)
(***************************************************************************)
EXTENDS NatSystem, TupleHash

MCTorn  == 0
MCHosts == {MCTorn, 1, 2, 3}
MCPorts == 0 .. 7
MCHash  == [k \in [inner : MCHosts, iport : MCPorts, outer : MCHosts, oport : MCPorts]
              |-> XorHash(k, TableSize)]

\* Three connections, the first two with colliding keys and the third to another
\* host; an ARP packet; a UDP packet of the EtherType that is translated; a TCP
\* packet of EtherType 0x0800 with the 5-tuple of the second connection, whose port
\* is the one the test expects of a second connection, and the one of its reply.
Kinds == {[ether |-> "custom", proto |-> 6,  sport |-> 5, outer |-> 2],
          [ether |-> "custom", proto |-> 6,  sport |-> 1, outer |-> 2],
          [ether |-> "custom", proto |-> 6,  sport |-> 5, outer |-> 3],
          [ether |-> "custom", proto |-> 17, sport |-> 5, outer |-> 2],
          [ether |-> "arp",    proto |-> 6,  sport |-> 5, outer |-> 2],
          [ether |-> "ip",     proto |-> 6,  sport |-> 1, outer |-> 2]}

PacketOf(kind, id) ==
    [id |-> id, len |-> 7, ether |-> kind.ether, proto |-> kind.proto,
     src |-> 1, sport |-> kind.sport, dst |-> kind.outer, dport |-> 1]

\* At most one packet of a list is neither ARP nor translated.
Other(kind)  == kind.ether = "ip" \/ kind.proto = 17
MCIngresses  == {[i \in 1 .. 3 |-> PacketOf(kinds[i], i)] :
                    kinds \in {k \in [1 .. 3 -> Kinds] :
                                 Cardinality({i \in 1 .. 3 : Other(k[i])}) <= 1}}

\* TCP packets as gen_packet_ip builds them (src/3ip_testbench.cpp:548-549).
TestKind == [ether |-> "ip", proto |-> 6, sport |-> 5, outer |-> 2]
TestIngresses == {[i \in 1 .. 3 |-> PacketOf(TestKind, i)]}

MCNaps == 0 .. 2
NoTuples == {}
=============================================================================
