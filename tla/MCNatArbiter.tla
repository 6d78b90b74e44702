---------------------------- MODULE MCNatArbiter ----------------------------
(***************************************************************************)
(* One list of new connections whose reverse entries all collide: packet n *)
(* gets index n - 1 and goes to the outer port of that number.             *)
(***************************************************************************)
EXTENDS NatArbiter, TupleHash

MCTorn  == 0
MCHosts == {MCTorn, 1, 2}
MCPorts == 0 .. 15
MCHash  == [k \in [inner : MCHosts, iport : MCPorts, outer : MCHosts, oport : MCPorts]
              |-> XorHash(k, TableSize)]

Colliding == [n \in 1 .. 13 |->
    [id |-> n, len |-> 7, ether |-> "custom", proto |-> 6,
     src |-> 1, sport |-> 3, dst |-> 2, dport |-> n - 1]]

MCIngresses == {Colliding}
MCNaps == {0}
NoTuples == {}
=============================================================================
