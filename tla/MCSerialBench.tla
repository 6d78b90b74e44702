---------------------------- MODULE MCSerialBench ----------------------------
(***************************************************************************)
(* Instances of SerialBench: a table for hashes 0 .. 3, three tuples that  *)
(* hash to 3, the last hash value, and two that hash to 0, one of which    *)
(* differs from one of the others in its protocol only.                    *)
(***************************************************************************)
EXTENDS SerialBench, TupleHash

MCHosts     == 0 .. 1
MCPorts     == 0 .. 5
MCProtocols == {0, 6, 17}
MCHash == [t \in Tuple5 |-> SerialXor(t, IdSpace)]

Tup(sport, dport, protocol) ==
    [srcip |-> 1, dstip |-> 0, srcport |-> sport, dstport |-> dport, protocol |-> protocol]

Some == {Tup(1, 5, 6), Tup(5, 1, 6), Tup(4, 0, 6), Tup(3, 4, 6), Tup(4, 0, 17)}

MCArrays == [1 .. 4 -> Some]
=============================================================================
