----------------------------- MODULE MCNatTable -----------------------------
(***************************************************************************)
(* Instances of NatTable: the XOR hash of the code over a table of 2 or 4  *)
(* entries, inner host 1 and outer hosts 2 and 3.                          *)
(***************************************************************************)
EXTENDS NatWire, TupleHash

MCHosts == 1 .. 3
MCPorts == 0 .. 7
MCHash  == [k \in [inner : MCHosts, iport : MCPorts, outer : MCHosts, oport : MCPorts]
              |-> XorHash(k, TableSize)]

Conn(sport, outer) == [src |-> 1, sport |-> sport, dst |-> outer, dport |-> 7]
Reply(outer, port) == [src |-> outer, sport |-> 7, dst |-> 1, dport |-> port]

OneConn   == {Conn(5, 2)}
\* In a table of 4 the first two collide.
SomeConns == {Conn(5, 2), Conn(1, 2), Conn(4, 3)}
\* In a table of 2 the last two collide, and so do the reverse entries of the first
\* and the last; both chains go across the end of the table.
FullConns == {Conn(4, 2), Conn(5, 2), Conn(4, 3)}
\* Replies to ports 0 and 1 of either outer host; some are never handed out.
SomeReplies == {Reply(o, p) : o \in 2 .. 3, p \in 0 .. 1}
=============================================================================
