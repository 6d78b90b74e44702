------------------------------ MODULE NatWire ------------------------------
(***************************************************************************)
(* The connection table with its answers as they lie in a packet.  Of the  *)
(* index of an entry the answer carries one byte (src/hash_ip.v:116, 120), *)
(* although the index has hash_len bits and hash_len is a parameter.       *)
(***************************************************************************)
EXTENDS NatTable

CONSTANT ByteSize   \* the values of one byte: 256 in the code

ASSUME ByteSizeAssumption == ByteSize \in Nat \ {0}

\* conn_data_0[15:8]: the low bits of the index, all there is room for.
AnswerByte_HighBits(idx) == idx \div ByteSize

AnswerByte(idx) == idx % ByteSize

\* A reply to the port that the packets of entry s left with finds a reverse entry
\* that gives it the inner port of s.
ReplyFinds(s) ==
    \E r \in Used(conn_mem_rx) :
        /\ conn_mem_rx[r] = Translated(conn_mem_tx[s], AnswerByte(conn_idx_tx[s]))
        /\ conn_port_rx[r] = conn_mem_tx[s].iport

\* Replies find the way back to exactly the connections whose index fits the byte
\* (the note of hash_ip.v:25 on hash_len): the others leave with the port of an
\* earlier connection.  The connection whose reverse entry is being written is left out.
BytesLeadBack ==
    \A s \in Used(conn_mem_tx) :
        \/ stage = 2 /\ conn_idx_tx[s] = replace_port
        \/ ReplyFinds(s) <=> conn_idx_tx[s] < ByteSize
=============================================================================
