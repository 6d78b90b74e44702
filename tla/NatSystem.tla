----------------------------- MODULE NatSystem -----------------------------
(***************************************************************************)
(* The whole NAT of src/3ip_test.v in the test bench of                    *)
(* src/3ip_testbench.cpp.  The outbound rewriter (tx) drives port 0 of the *)
(* connection table, the inbound one (rx) port 1, and all three see the    *)
(* same clock: in one step each of them reads what the others showed       *)
(* before the edge.  After the edge the four ends of the streams run, in   *)
(* the order of the loop: the sender of the ingress packets, the receiver, *)
(* which returns every packet to the echo sender, the echo sender and the  *)
(* echo receiver.                                                          *)
(***************************************************************************)
EXTENDS NatTable, StreamEnds, FiniteSetsExt

CONSTANTS
    Ingresses,  \* the lists of packets the test may start with
    Naps,       \* rand() % 3: edges a sender sleeps after a beat
    TornHost    \* see Rewriter

\* A packet as the modules see it: of 54 bytes, which is seven words, or more
\* (src/3ip_testbench.cpp:533).
Packets == [id : Nat, len : Nat \ (0 .. 6), ether : STRING, proto : Nat,
            src : Hosts, sport : Ports, dst : Hosts, dport : Ports]
Beats   == [pkt : Packets, word : Nat, last : BOOLEAN]

ASSUME IngressAssumption == Ingresses \subseteq Seq(Packets)
ASSUME NapsAssumption    == Naps \subseteq 0 .. 2
ASSUME NoBeatAssumption  == NoBeat \notin Beats

VARIABLES ingress, tx, rx, sender, recver, echo_sender, echo_recver

Tx == INSTANCE Rewriter WITH rw <- tx, PortField <- "sport"
Rx == INSTANCE Rewriter WITH rw <- rx, PortField <- "sport"

ends == <<sender, recver, echo_sender, echo_recver>>
systemVars == <<tableVars, ingress, tx, rx, ends>>

SystemInit ==
    /\ TableInit
    /\ Tx!RewriterInit /\ Rx!RewriterInit
    /\ ingress \in Ingresses
    /\ sender = SenderInit(ingress)
    /\ echo_sender = SenderInit(<< >>)
    /\ recver = RecverInit /\ echo_recver = RecverInit

\* The rising edge at all three modules (src/3ip_test.v:45-56).
ClockEdge ==
    /\ Clock(Tx!Request, Rx!Request)
    /\ Tx!Edge(Offered(sender), conn_valid_0, conn_data_0)
    /\ Rx!Edge(Offered(echo_sender), conn_valid_1, conn_data_1)

\* What Recver hands to EchoSender on this edge.
Returned ==
    IF recver'.packets = recver.packets THEN << >>
    ELSE <<Echo(Header(recver'.packets[Len(recver'.packets)]))>>

EndsEdge ==
    /\ \E nap \in Naps : sender' = SenderEdge(sender, tx'.tready, nap)
    /\ recver' = RecverEdge(recver, tx'.tvalid, tx'.out)
    /\ \E nap \in Naps :
          echo_sender' = SenderEdge([echo_sender EXCEPT !.packets = @ \o Returned],
                                    rx'.tready, nap)
    /\ echo_recver' = RecverEdge(echo_recver, rx'.tvalid, rx'.out)

\* One round of the loop of lines 338-358, which ends when all packets are back.
Tick ==
    /\ Len(echo_recver.packets) < Len(ingress)
    /\ ClockEdge
    /\ EndsEdge
    /\ UNCHANGED ingress

SystemSpec == SystemInit /\ [][Tick]_systemVars /\ WF_systemVars(Tick)

\* The test bench never asserts reset.  On the board it reaches all modules at
\* once; the ends of the streams then start over with the next packet.
ResetTick ==
    /\ ResetEdge
    /\ Tx!ResetEdge /\ Rx!ResetEdge
    /\ sender' = SenderInit(IF sender.word > 0 THEN Tail(sender.packets) ELSE sender.packets)
    /\ echo_sender' = SenderInit(<< >>)
    /\ recver' = RecverInit /\ echo_recver' = RecverInit
    /\ UNCHANGED ingress

ResetSpec == SystemInit /\ [][Tick \/ ResetTick]_systemVars

-----------------------------------------------------------------------------
(***************************************************************************)
(* The verdict of test_ip.  A packet is the list of its beats; the payload *)
(* begins in word 6.                                                       *)
(***************************************************************************)
BeatsOf(p) == [i \in 1 .. p.len |-> [pkt |-> p, word |-> i - 1, last |-> i = p.len]]

PayloadOf(beats) == [i \in 7 .. Len(beats) |-> <<beats[i].pkt.id, beats[i].word>>]
Tuple5Of(beats)  == [f \in {"src", "sport", "dst", "dport", "proto"} |-> Header(beats)[f]]
IsArp(beats)     == Header(beats).ether = "arp"
PortOf(t)        == t.sport
Check == INSTANCE PacketCheck WITH SizeOf <- Len

Sent     == [i \in DOMAIN ingress |-> BeatsOf(ingress[i])]
Finished == Len(echo_recver.packets) = Len(ingress)
TestAccepts ==
    /\ recver.current = << >>
    /\ Check!check_nat_funtionality(Sent, recver.packets \o echo_recver.packets)

-----------------------------------------------------------------------------
(***************************************************************************)
(* Properties.                                                             *)
(***************************************************************************)
IsTranslated(p) == p.ether = Tx!Custom /\ p.proto = Tx!TCP
TupleOf(p) == [src |-> p.src, sport |-> p.sport, dst |-> p.dst, dport |-> p.dport]

\* Type invariant of the rewriters and of the ends of the streams.
RewriterOK(r) ==
    /\ {r.tready, r.tvalid, r.is_custom_ip, r.tuple_valid, r.hash_stage} \subseteq BOOLEAN
    /\ r.byte_cnt \in 0 .. Tx!PayloadWord
    /\ r.tuple_valid => [src |-> r.src_ip, sport |-> r.src_port,
                         dst |-> r.dst_ip, dport |-> r.dst_port] \in Tuples
SystemTypeOK ==
    /\ TypeOK
    /\ RewriterOK(tx) /\ RewriterOK(rx)
    /\ sender.sleeping \in 0 .. 2 /\ echo_sender.sleeping \in 0 .. 2

\* Rewriter r holds the beat that sender s goes on offering.
HoldsBeatOf(r, s) == r.hash_stage /\ s.valid /\ r.out = Offered(s)

\* The table only ever works for a rewriter that holds a beat, or answers it, and
\* then on the addresses and ports of the packet that beat is of: nothing in the
\* registers is left of an earlier packet (our_ip.v:100-114), and no request is
\* served twice although tuple_valid stays high on the edge that shows the answer
\* (hash_ip.v:64-67, 123, 143 against our_ip.v:123-131).
RequestsAreCurrent ==
    /\ stage = 1 \/ conn_valid_0 =>
            HoldsBeatOf(tx, sender) /\ key = Outbound(TupleOf(Offered(sender).pkt))
    /\ stage = 3 \/ conn_valid_1 =>
            HoldsBeatOf(rx, echo_sender) /\ key = Inbound(TupleOf(Offered(echo_sender).pkt))

\* byte_cnt follows the packet: the header words are read from the right beats
\* even when the stream was held in between (our_ip.v:87, :117-122).
HeaderAligned ==
    /\ Offered(sender) # NoBeat /\ tx.tready =>
          tx.byte_cnt = Min({Offered(sender).word, Tx!PayloadWord})
    /\ Offered(echo_sender) # NoBeat /\ rx.tready =>
          rx.byte_cnt = Min({Offered(echo_sender).word, Tx!PayloadWord})

\* beats are the first words of packet p, in order, each of them once, and no
\* field differs but the source port of a translated packet, in word 4 only.
Carries(beats, p) ==
    \A i \in DOMAIN beats :
        /\ beats[i].word = i - 1
        /\ beats[i].last = (i = p.len)
        /\ beats[i].pkt = IF i = 5 /\ IsTranslated(p) THEN [p EXCEPT !.sport = beats[i].pkt.sport]
                                                      ELSE p
Stream(r) == Append(r.packets, r.current)

\* Neither rewriter loses, repeats or reorders a beat, whatever the pauses of the
\* senders and the waits for the table; the echo is of what Recver returned.
StreamsIntact ==
    /\ \A i \in DOMAIN Stream(recver) :
          Stream(recver)[i] # << >> => Carries(Stream(recver)[i], ingress[i])
    /\ \A i \in DOMAIN Stream(echo_recver) :
          Stream(echo_recver)[i] # << >> =>
              Carries(Stream(echo_recver)[i], Echo(Header(recver.packets[i])))

\* How many connections the NAT was asked to translate before that of packet i.
NatPort(i) ==
    LET Tuple(j) == TupleOf(ingress[j])
        Picked   == {j \in DOMAIN ingress : IsTranslated(ingress[j])}
        first    == Min({j \in Picked : Tuple(j) = Tuple(i)})
    IN  Cardinality({Tuple(j) : j \in {n \in Picked : n < first}})

\* All packets of a connection leave with one port: how many connections came
\* before the first packet of its own (3ip_testbench.cpp:442-466), whatever is
\* between them.
SameTupleSamePort ==
    \A i \in DOMAIN recver.packets :
        IsTranslated(ingress[i]) => Header(recver.packets[i]).sport = NatPort(i)

\* The reply to a translated packet comes back with the port the packet had
\* before translation (3ip_testbench.cpp:510-511).
EchoRestoresPort ==
    \A i \in DOMAIN echo_recver.packets :
        IsTranslated(ingress[i]) => Header(echo_recver.packets[i]).sport = ingress[i].sport

\* A reply never searches the table before the reverse entry of its connection is
\* there, although the outbound packet left before it was written: the endless
\* search of hash_ip.v:139-147 is not entered.
RepliesAreKnown == stage = 3 => \E s \in Slots : conn_mem_rx[s] = key

\* Every packet comes back: the two rewriters and the table never wait for each
\* other for ever.  Fairness is the clock of the simulation loop.
AllEchoed == <>(Len(echo_recver.packets) = Len(ingress))

\* "wait for a 5-tuple response from NAT IP, and upon receiving the response,
\* modify the packet header" (system_design.tex:46): a held packet takes the
\* answer to its own request.
RewritesOwnTuple == tx.hash_stage /\ conn_valid_0 => key = Outbound(Tx!Request)

\* The source ports that packet i leaves with and comes back with.
PortOut(i)  == IF IsTranslated(ingress[i]) THEN NatPort(i) ELSE ingress[i].sport
PortBack(i) == IF IsTranslated(ingress[i]) THEN ingress[i].sport ELSE ingress[i].dport

\* The verdict of test_ip (3ip_testbench.cpp:355-371, 442-466, 510-511, 562-574), for
\* every list of packets: it accepts exactly if each packet that is not ARP leaves
\* with the number of connections, translated or not, that came before its own, and
\* comes back with its port.  The NAT numbers only the connections it translates, so
\* one other packet can spoil the test.
TestVerdict ==
    Finished =>
        (TestAccepts <=> \A i \in DOMAIN ingress :
            \/ ingress[i].ether = "arp"
            \/ PortOut(i) = Check!PortWanted(Sent, i) /\ PortBack(i) = ingress[i].sport)

\* gen_packet_ip sends TCP packets of EtherType 0x0800 (lines 548-550), of which
\* check_nat_funtionality expects translation as of every packet that is not ARP.
TestTranslatesAllTcp == Finished => TestAccepts
=============================================================================
