------------------------------ MODULE SerialNat ------------------------------
(***************************************************************************)
(* The serial NAT, module "main" of src/nat.v.  It takes a 5-tuple as four *)
(* words, looks for it in one table by linear probing and delivers the     *)
(* index of its entry as the connection ID.  Edge is a rising clock edge:  *)
(* both always blocks of the module, which assign state in different       *)
(* states.                                                                 *)
(***************************************************************************)
EXTENDS Integers

CONSTANTS
    Hosts, Ports, Protocols,    \* values of the fields, 0 is one of each
    IdSpace,                    \* id_space, 1 << hash_len (line 21)
    SerialHash                  \* the XOR of the fields of a tuple, cut to hash_len bits

\* conn_mem has id_space + 1 entries, loc_to_probe one bit more than the hash.
Entries   == 0 .. IdSpace
Positions == 0 .. 2 * IdSpace - 1

Tuple5 == [srcip : Hosts, dstip : Hosts, srcport : Ports, dstport : Ports, protocol : Protocols]

\* "All zero represents no connection" (line 23).
Zero == [srcip |-> 0, dstip |-> 0, srcport |-> 0, dstport |-> 0, protocol |-> 0]

ASSUME IdSpaceAssumption    == IdSpace \in Nat /\ IdSpace > 1
ASSUME FieldsAssumption     == Zero \in Tuple5
ASSUME SerialHashAssumption == SerialHash \in [Tuple5 -> 0 .. IdSpace - 1]

VARIABLES
    state,          \* 0-3 words still to come, 4 processing, 5 result ready
    tuple_buffer, conn_mem, loc_to_probe,
    conn_valid_o, conn_data_o

natVars == <<state, tuple_buffer, conn_mem, loc_to_probe, conn_valid_o, conn_data_o>>

\* Operators named <definition>_<bug> are faulty variants, see NatTable.

tuple_ready_o == state < 4

\* The outputs are X until the first edge, which a condition takes as false.
SerialInit ==
    /\ state = 0
    /\ tuple_buffer = Zero
    /\ conn_mem = [e \in Entries |-> Zero]
    /\ loc_to_probe = 0
    /\ conn_valid_o = FALSE /\ conn_data_o = 0

hash_value_OldProtocol(protocol) == SerialHash[tuple_buffer]

\* The wire of lines 43-48 takes the protocol from the input: the buffer gets it on
\* this very edge.
hash_value(protocol) == SerialHash[[tuple_buffer EXCEPT !.protocol = protocol]]

\* Lines 60-76.  Words 0, 1 and 3 are numbers, word 2 is a pair of ports.
TakeWord(word) ==
    /\ state' = state + 1
    /\ tuple_buffer' =
          CASE state = 0 -> [tuple_buffer EXCEPT !.srcip = word]
            [] state = 1 -> [tuple_buffer EXCEPT !.dstip = word]
            [] state = 2 -> [tuple_buffer EXCEPT !.srcport = word[1], !.dstport = word[2]]
            [] state = 3 -> [tuple_buffer EXCEPT !.protocol = word]
    /\ loc_to_probe' = IF state = 3 THEN hash_value(word) ELSE loc_to_probe

\* While words are collected the second block keeps the output low.
Collect(valid, word) ==
    /\ tuple_ready_o
    /\ IF valid THEN TakeWord(word) ELSE UNCHANGED <<state, tuple_buffer, loc_to_probe>>
    /\ conn_valid_o' = FALSE /\ conn_data_o' = 0
    /\ UNCHANGED conn_mem

\* A position past the last entry reads as X, which equals nothing (line 103).
Matches(position) ==
    /\ position \in Entries
    /\ conn_mem[position] \in {tuple_buffer, Zero}

Found ==
    /\ state = 4
    /\ Matches(loc_to_probe)
    /\ conn_mem' = [conn_mem EXCEPT ![loc_to_probe] = tuple_buffer]
    /\ conn_valid_o' = TRUE /\ conn_data_o' = loc_to_probe
    /\ state' = 5
    /\ UNCHANGED <<tuple_buffer, loc_to_probe>>

NextPosition_Stops(p) == IF p = IdSpace THEN p ELSE p + 1
NextPosition_Wider(p) == p + 1
\* loc_to_probe wraps at its own width, not at the end of the table.
NextPosition(p) == IF p = 2 * IdSpace - 1 THEN 0 ELSE p + 1

ProbeOn ==
    /\ state = 4
    /\ ~Matches(loc_to_probe)
    /\ loc_to_probe' = NextPosition(loc_to_probe)
    /\ conn_valid_o' = FALSE
    /\ UNCHANGED <<state, tuple_buffer, conn_mem, conn_data_o>>

Deliver_KeepsState(ready) ==
    /\ state = 5
    /\ ready
    /\ conn_valid_o' = FALSE /\ conn_data_o' = 0
    /\ state' = 4
    /\ UNCHANGED <<tuple_buffer, conn_mem, loc_to_probe>>

Deliver(ready) ==
    /\ state = 5
    /\ ready
    /\ conn_valid_o' = FALSE /\ conn_data_o' = 0
    /\ state' = 0
    /\ UNCHANGED <<tuple_buffer, conn_mem, loc_to_probe>>

AwaitReady(ready) == state = 5 /\ ~ready /\ UNCHANGED natVars

Edge(valid, word, ready) ==
    Collect(valid, word) \/ Found \/ ProbeOn \/ Deliver(ready) \/ AwaitReady(ready)
=============================================================================
