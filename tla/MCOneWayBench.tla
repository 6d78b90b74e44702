--------------------------- MODULE MCOneWayBench ---------------------------
(***************************************************************************)
(* Instance of OneWayBench: two packets, of seven full words or a last     *)
(* word that is not full, and of the greatest length the tests generate.   *)
(***************************************************************************)
EXTENDS OneWayBench

MCLengths == {54, 56, 153}
\* No two bytes near each other are equal.
MCFills   == {[j \in 0 .. 152 |-> (7 * j + 3) % 256]}
\* Two tuples, with the ports the test expects of the first connection and of the second.
Tuple(port) == [src_ip   |-> [i \in 0 .. 3 |-> 10 + i], dst_ip |-> [i \in 0 .. 3 |-> 20 + i],
                src_port |-> [i \in 0 .. 1 |-> IF i = 1 THEN port ELSE 0],
                dst_port |-> [i \in 0 .. 1 |-> 40 + i], protocol |-> 6]
MCTuples  == {Tuple(0), Tuple(1)}
MCNaps    == 0 .. 2
=============================================================================
