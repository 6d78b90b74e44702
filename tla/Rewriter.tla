------------------------------ MODULE Rewriter ------------------------------
(***************************************************************************)
(* The packet rewriter, module "main" of src/our_ip.v: it forwards a       *)
(* stream of 8-byte beats, holds the beat that carries the ports of a TCP  *)
(* packet, asks the connection table for the new port and lets the stream  *)
(* go on when the answer has been written into the held beat.              *)
(*                                                                         *)
(* A beat is the word-th 8 bytes of the packet pkt; last is tlast.  The    *)
(* fields of pkt are the ones the rewriter looks at.  The output has no    *)
(* tready: what is shown with tvalid is taken by the receiver on that edge.*)
(***************************************************************************)
EXTENDS Integers

CONSTANTS
    PortField,  \* port_position: "sport" for 16, "dport" for 32 (line 52)
    TornHost,   \* an address whose halves come from two packets
    NoBeat,     \* s_axis_tvalid is low
    NoTuple,    \* tuple_valid_o is low
    X           \* a register that was never written

VARIABLE rw

\* Operators named <definition>_<bug> are faulty variants, see NatTable.

Custom == "custom"  \* EtherType 0x0900 (line 90)
TCP    == 6

\* byte_cnt counts the 8-byte words already taken, up to the first word no case
\* of line 87 is about; a packet would need 2^32 bytes to make it wrap around.
PayloadWord == 5
NextWord(n) == IF n = PayloadWord THEN n ELSE n + 1

Initial ==
    [tready |-> TRUE, tvalid |-> FALSE, out |-> NoBeat, byte_cnt |-> 0,
     is_custom_ip |-> FALSE, protocol |-> X, src_ip |-> X, dst_ip |-> X,
     src_port |-> X, dst_port |-> X, tuple_valid |-> FALSE, hash_stage |-> FALSE]
RewriterInit == rw = Initial

\* tuple_data_o and tuple_valid_o.
Request ==
    IF rw.tuple_valid
    THEN [src |-> rw.src_ip, sport |-> rw.src_port, dst |-> rw.dst_ip, dport |-> rw.dst_port]
    ELSE NoTuple

\* Reset leaves tuple_valid and the header registers as they are.
ResetEdge ==
    rw' = [rw EXCEPT !.tvalid = FALSE, !.tready = TRUE, !.byte_cnt = 0,
                     !.is_custom_ip = FALSE, !.hash_stage = FALSE]

Parse_HalfAddress(pkt) ==
    CASE rw.byte_cnt = 1 -> [rw EXCEPT !.is_custom_ip = (pkt.ether = Custom)]
      [] rw.byte_cnt = 2 -> [rw EXCEPT !.protocol = pkt.proto]
      [] rw.byte_cnt = 3 -> [rw EXCEPT !.src_ip = pkt.src,
                                       !.dst_ip = IF @ = pkt.dst THEN @ ELSE TornHost]
      [] rw.byte_cnt = 4 -> [rw EXCEPT !.src_port = pkt.sport, !.dst_port = pkt.dport]
      [] OTHER -> rw

\* Lines 87-114: what the word at byte_cnt leaves in the header registers.
Parse(pkt) ==
    CASE rw.byte_cnt = 1 -> [rw EXCEPT !.is_custom_ip = (pkt.ether = Custom)]
      [] rw.byte_cnt = 2 -> [rw EXCEPT !.protocol = pkt.proto]
      [] rw.byte_cnt = 3 -> [rw EXCEPT !.src_ip = pkt.src,
                                       !.dst_ip = IF @ = pkt.dst THEN @ ELSE TornHost]
      [] rw.byte_cnt = 4 -> [rw EXCEPT !.dst_ip = pkt.dst, !.src_port = pkt.sport,
                                       !.dst_port = pkt.dport]
      [] OTHER -> rw

Hold_Shows(parsed) == [parsed EXCEPT !.tuple_valid = TRUE, !.hash_stage = TRUE,
                                     !.tready = FALSE, !.tvalid = TRUE]

Hold(parsed) == [parsed EXCEPT !.tuple_valid = TRUE, !.hash_stage = TRUE,
                               !.tready = FALSE, !.tvalid = FALSE]
Pass(parsed) == [parsed EXCEPT !.tvalid = TRUE]

Translates_TooEarly == rw.byte_cnt = 3 /\ rw.is_custom_ip /\ rw.protocol = TCP

Translates == rw.byte_cnt = 4 /\ rw.is_custom_ip /\ rw.protocol = TCP

Count_NoReset(r, last) == [r EXCEPT !.byte_cnt = NextWord(@)]

\* Lines 116-122 come last and win: the end of the packet clears is_custom_ip.
Count(r, last) ==
    IF last THEN [r EXCEPT !.byte_cnt = 0, !.is_custom_ip = FALSE]
            ELSE [r EXCEPT !.byte_cnt = NextWord(@)]

Accept(beat) ==
    /\ beat # NoBeat
    /\ rw.tready
    /\ LET parsed == [Parse(beat.pkt) EXCEPT !.out = beat]
       IN  rw' = Count(IF Translates THEN Hold(parsed) ELSE Pass(parsed), beat.last)

Blocked(beat) == ~(beat # NoBeat /\ rw.tready)

Rewrite(beat, conn_valid, conn_data) ==
    /\ Blocked(beat)
    /\ rw.hash_stage
    /\ conn_valid
    /\ rw' = [rw EXCEPT !.out.pkt[PortField] = conn_data, !.tready = TRUE, !.tvalid = TRUE,
                        !.tuple_valid = FALSE, !.hash_stage = FALSE]

Await(beat, conn_valid) ==
    /\ Blocked(beat)
    /\ rw.hash_stage
    /\ ~conn_valid
    /\ UNCHANGED rw

Gap_StaysValid(beat) == Blocked(beat) /\ ~rw.hash_stage /\ UNCHANGED rw

Gap(beat) ==
    /\ Blocked(beat)
    /\ ~rw.hash_stage
    /\ rw' = [rw EXCEPT !.tvalid = FALSE]

Edge(beat, conn_valid, conn_data) ==
    \/ Accept(beat)
    \/ Rewrite(beat, conn_valid, conn_data)
    \/ Await(beat, conn_valid)
    \/ Gap(beat)
=============================================================================
