---------------------------- MODULE PacketCheck ----------------------------
(***************************************************************************)
(* The verdicts of the system tests (src/3ip_testbench.cpp): what a list   *)
(* of received packets must look like beside the list that was sent.  The  *)
(* loops return false at the first packet that fails, so a list passes     *)
(* when every packet does.  The functions that read a packet are           *)
(* parameters: NatSystem applies them to lists of beats, OneWayBench to    *)
(* bytes.                                                                  *)
(***************************************************************************)
EXTENDS Sequences, Integers, FiniteSets

CONSTANTS
    SizeOf(_),     \* data.size()
    IsArp(_),      \* the EtherType bytes are 0x0806
    PayloadOf(_),  \* the bytes from 14 + 20 + 20 on
    Tuple5Of(_),   \* tuple5()
    PortOf(_)      \* ntohs(src_port) of a 5-tuple

\* Operators named <definition>_<bug> are faulty variants, see NatTable.

exact_compare(packets_a, packets_b) ==
    /\ Len(packets_a) = Len(packets_b)
    /\ \A i \in DOMAIN packets_a : packets_a[i] = packets_b[i]

\* Sizes agree; an ARP packet comes out as it went in, of another one the payload.
Unharmed(packet, recv_packet) ==
    /\ SizeOf(packet) = SizeOf(recv_packet)
    /\ IF IsArp(packet) THEN packet = recv_packet
                        ELSE PayloadOf(packet) = PayloadOf(recv_packet)

\* nat_table when the loop comes to packet i: the 5-tuples of the IP packets before
\* it, each with the 5-tuple its packet was received with.
Earlier(packets, i) == {j \in 1 .. i - 1 : ~ IsArp(packets[j])}
Known(packets, i)   == {Tuple5Of(packets[j]) : j \in Earlier(packets, i)}

Mapped_CountsArp(packets, recv_packets, i) ==
    \/ Tuple5Of(packets[i]) \in Known(packets, i)
    \/ PortOf(Tuple5Of(recv_packets[i])) = i - 1

Mapped(packets, recv_packets, i) ==
    IF Tuple5Of(packets[i]) \in Known(packets, i)
    THEN \A j \in Earlier(packets, i) :
            Tuple5Of(packets[j]) = Tuple5Of(packets[i]) =>
                Tuple5Of(recv_packets[j]) = Tuple5Of(recv_packets[i])
    ELSE PortOf(Tuple5Of(recv_packets[i])) = Cardinality(Known(packets, i))

Forwarded(packets, recv_packets, i) ==
    /\ Unharmed(packets[i], recv_packets[i])
    /\ IsArp(packets[i]) \/ Mapped(packets, recv_packets, i)

\* Packet f is the first of the connection of packet i, and the number of connections
\* that came before it.
IsFirst(packets, f, i) ==
    /\ f \in 1 .. i /\ ~ IsArp(packets[f])
    /\ Tuple5Of(packets[f]) = Tuple5Of(packets[i])
    /\ Tuple5Of(packets[f]) \notin Known(packets, f)
PortWanted(packets, i) ==
    Cardinality(Known(packets, CHOOSE f \in 1 .. i : IsFirst(packets, f, i)))

\* The replies follow the packets in recv_packets.
Returned(packet, recv_packet) ==
    /\ Unharmed(packet, recv_packet)
    /\ IsArp(packet) \/ PortOf(Tuple5Of(packet)) = PortOf(Tuple5Of(recv_packet))

check_nat_funtionality(packets, recv_packets) ==
    /\ Len(recv_packets) = 2 * Len(packets)
    /\ \A i \in DOMAIN packets :
          /\ Forwarded(packets, recv_packets, i)
          /\ Returned(packets[i], recv_packets[Len(packets) + i])
=============================================================================
