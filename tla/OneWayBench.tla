---------------------------- MODULE OneWayBench ----------------------------
(***************************************************************************)
(* The bench of one rewriter, src/testbench.cpp (make verl), byte by byte: *)
(* test_arp and then test_ip send random packets through a new design      *)
(* each and judge what comes out.  The instance of the table that once     *)
(* answered the rewriter is a comment (src/our_ip.v:24-34) and conn_valid_i *)
(* stays low; no packet of this bench asks for an answer.                  *)
(***************************************************************************)
EXTENDS TupleWire, Sequences, FiniteSets

CONSTANTS
    Lengths,      \* 14 + 20 + 20 + rand() % 100
    Fills,        \* the random bytes a packet is filled with
    TestTuples,   \* the random 5-tuples of gen_packet_ip
    PacketCount,  \* 10000
    ArpLimit, IpLimit,  \* cycles of simulation per packet: 100 and 256 / 8 + 64
    Naps,         \* rand() % 3
    NoBeat, NoTuple, X, TornHost

ASSUME LengthsAssumption == Lengths \subseteq HeaderBytes .. HeaderBytes + 99
ASSUME FillsAssumption   == \A fill \in Fills : fill \in Bytes(HeaderBytes + 99)
ASSUME TuplesAssumption  == TestTuples \subseteq {t \in Tuple5s : t.protocol = 6}
ASSUME CountAssumption   == PacketCount \in Nat
ASSUME NapsAssumption    == Naps \subseteq 0 .. 2
\* A word takes at most three cycles, and the longest packet has 20 words.
ASSUME LimitsAssumption  == {ArpLimit, IpLimit} \subseteq {limit \in Nat : limit >= 3 * 20}

VARIABLES
    test, status,  \* the test that runs, and how it ended
    ingress, cycles, rw, sender, recver

vars == <<test, status, ingress, cycles, rw, sender, recver>>

Our == INSTANCE Rewriter WITH PortField <- "sport"

\* Operators named <definition>_<bug> are faulty variants, see NatTable.

size(data) == Cardinality(DOMAIN data)

-----------------------------------------------------------------------------
(***************************************************************************)
(* Packets.                                                                *)
(***************************************************************************)
RandomPacket(n, fill) == [j \in 0 .. n - 1 |-> fill[j]]
Marked(data, type)    == [data EXCEPT ![12] = type[1], ![13] = type[2]]

ArpPackets == {Marked(RandomPacket(n, fill), ARP) : n \in Lengths, fill \in Fills}
IpPackets  == {apply(Marked(packet, IPv4), t) : packet \in ArpPackets, t \in TestTuples}

gen_packet_ARP == [1 .. PacketCount -> ArpPackets]
gen_packet_ip  == [1 .. PacketCount -> ArpPackets \cup IpPackets]

\* The fields of a packet that the rewriter looks at.
Fields(data) ==
    LET t == HeaderTuple(data)
    IN  [ether |-> IF EtherType(data) = <<9, 0>> THEN Our!Custom ELSE "other",
         proto |-> t.protocol, src |-> t.src_ip, dst |-> t.dst_ip,
         sport |-> t.src_port, dport |-> t.dst_port]

-----------------------------------------------------------------------------
(***************************************************************************)
(* The ends of the stream.  sent: bytes erased from the front packet.      *)
(***************************************************************************)
SenderInit(packets) == [packets |-> packets, sent |-> 0, sleeping |-> 0, valid |-> FALSE]
RecverInit          == [packets |-> << >>, current_packet |-> << >>]

Rest(s) == size(Head(s.packets)) - s.sent

\* What a beat can be; no beat is another value.
Beats == [pkt  : [ether : {Our!Custom, "other"}, proto : Byte, src : Bytes(4), dst : Bytes(4),
                  sport : Bytes(2), dport : Bytes(2)],
          last : BOOLEAN, keep : SUBSET (0 .. 7), data : Bytes(8)]
ASSUME NoBeatAssumption == NoBeat \notin Beats

transmit(s) == IF Rest(s) < 8 THEN Rest(s) ELSE 8

IsLast_Strict(s) == Rest(s) < transmit(s)
IsLast(s) == Rest(s) <= transmit(s)

\* tkeep has a one for each of the lanes that carry a byte.
Keep_All(s) == 0 .. 7
Keep(s) == 0 .. transmit(s) - 1

Offered(s) ==
    IF s.valid
    THEN [pkt  |-> Fields(Head(s.packets)), last |-> IsLast(s), keep |-> Keep(s),
          data |-> [i \in 0 .. 7 |-> IF i < transmit(s) THEN Head(s.packets)[s.sent + i] ELSE 0]]
    ELSE NoBeat

Erase_KeepsOffset(s, nap) ==
    IF Rest(s) = transmit(s)
    THEN [s EXCEPT !.packets = Tail(@), !.sleeping = nap]
    ELSE [s EXCEPT !.sent = @ + transmit(s), !.sleeping = nap]

Erase(s, nap) ==
    IF Rest(s) = transmit(s)
    THEN [s EXCEPT !.packets = Tail(@), !.sent = 0, !.sleeping = nap]
    ELSE [s EXCEPT !.sent = @ + transmit(s), !.sleeping = nap]

Propose(s) ==
    IF s.sleeping > 0 THEN [s EXCEPT !.sleeping = @ - 1, !.valid = FALSE]
                      ELSE [s EXCEPT !.valid = (s.packets # << >>)]

SenderEdge(s, tready, nap) == Propose(IF s.valid /\ tready THEN Erase(s, nap) ELSE s)

\* push_back of the bytes that tkeep marks, the low lanes of the beat.
Push(data, beat) ==
    [i \in 0 .. size(data) + Cardinality(beat.keep) - 1 |->
        IF i < size(data) THEN data[i] ELSE beat.data[i - size(data)]]

RecverEdge(r, tvalid, beat) ==
    IF ~ tvalid THEN r
    ELSE LET data == Push(r.current_packet, beat)
         IN  IF beat.last THEN [packets |-> Append(r.packets, data), current_packet |-> << >>]
                          ELSE [r EXCEPT !.current_packet = data]

-----------------------------------------------------------------------------
(***************************************************************************)
(* The tests.                                                              *)
(***************************************************************************)
SizeOf(data)    == size(data)
IsArp(data)     == EtherType(data) = ARP
PayloadOf(data) == [j \in HeaderBytes .. size(data) - 1 |-> data[j]]
PortOf(t)       == ntohs(t.src_port)
Check == INSTANCE PacketCheck WITH Tuple5Of <- tuple5

check_nat_funtionality(packets, recv_packets) ==
    /\ Len(packets) = Len(recv_packets)
    /\ \A i \in DOMAIN packets : Check!Forwarded(packets, recv_packets, i)

Passes(packets) ==
    IF test = "arp" THEN Check!exact_compare(ingress, packets)
                    ELSE check_nat_funtionality(ingress, packets)

MAX_SIM_CYCLE == PacketCount * (IF test = "arp" THEN ArpLimit ELSE IpLimit)

\* process starts with a new design and new ends.
OneWayInit ==
    /\ test = "arp" /\ status = "running"
    /\ ingress \in gen_packet_ARP
    /\ cycles = 0
    /\ Our!RewriterInit
    /\ sender = SenderInit(ingress) /\ recver = RecverInit

InLoop == /\ status = "running"
          /\ cycles < MAX_SIM_CYCLE
          /\ Len(recver.packets) < PacketCount

\* One round of the loop, lines 262-280.
Tick ==
    /\ InLoop
    /\ Our!Edge(Offered(sender), FALSE, 0)
    /\ \E nap \in Naps : sender' = SenderEdge(sender, rw'.tready, nap)
    /\ recver' = RecverEdge(recver, rw'.tvalid, rw'.out)
    /\ cycles' = cycles + 1
    /\ UNCHANGED <<test, status, ingress>>

\* Lines 285-291 and the verdict of the test; either failure exits.
Judge ==
    /\ status = "running" /\ ~ InLoop
    /\ status' = CASE recver.current_packet # << >> -> "corrupted"
                   [] Passes(recver.packets)        -> "passed"
                   [] OTHER                         -> "failed"
    /\ UNCHANGED <<test, ingress, cycles, rw, sender, recver>>

\* main, lines 447-448.
NextTest ==
    /\ test = "arp" /\ status = "passed"
    /\ test' = "ip" /\ status' = "running"
    /\ ingress' \in gen_packet_ip
    /\ cycles' = 0
    /\ rw' = Our!Initial
    /\ sender' = SenderInit(ingress') /\ recver' = RecverInit

Next == Tick \/ Judge \/ NextTest

OneWaySpec == OneWayInit /\ [][Next]_vars /\ WF_vars(Next)

-----------------------------------------------------------------------------
(***************************************************************************)
(* Properties.                                                             *)
(***************************************************************************)
\* Type invariant of the tests and of the ends of the stream.
OneWayTypeOK ==
    /\ test \in {"arp", "ip"} /\ status \in {"running", "passed", "failed", "corrupted"}
    /\ cycles \in 0 .. MAX_SIM_CYCLE
    /\ sender.sleeping \in 0 .. 2
    /\ sender.packets # << >> => sender.sent \in 0 .. size(Head(sender.packets)) - 1

\* Whatever the pauses, what has come out is the packets sent, each with all its
\* bytes, and of the next one a beginning: the lanes of a last beat that is not
\* full are neither dropped nor filled (lines 135-141, 161-170, our_ip.v:81-84).
BytesInOrder ==
    /\ \A i \in DOMAIN recver.packets : recver.packets[i] = ingress[i]
    /\ recver.current_packet # << >> =>
          \A j \in DOMAIN recver.current_packet :
              recver.current_packet[j] = ingress[Len(recver.packets) + 1][j]

\* The limit of the loop leaves room for the longest packets and pauses, so that a
\* verdict is about all packets and none is cut (lines 262, 286, 298, 437).
LimitIsEnough == status # "running" =>
                    Len(recver.packets) = PacketCount /\ status # "corrupted"

\* test_arp lets test_ip start, for every list of packets and pauses (lines 294-305).
ArpTestPasses == test = "arp" => status # "failed"

\* What test_ip comes to (lines 309-394, 431-443): no packet of it is translated, so it
\* passes exactly if the random source port of each IP packet happens to be the number
\* of connections that came before its own, whatever the pauses.
IpVerdict ==
    test = "ip" /\ status # "running" =>
        (status = "passed" <=> \A i \in DOMAIN ingress :
            \/ IsArp(ingress[i])
            \/ ntohs(tuple5(ingress[i]).src_port) = Check!PortWanted(ingress, i))

\* Both tests come to a verdict.  Fairness is the loop of process.
BothTestsEnd == <>(test = "ip" /\ status # "running")
=============================================================================
