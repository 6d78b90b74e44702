-------------------------- MODULE NatSystemProofs --------------------------
(***************************************************************************)
(* Proofs about the rewriters, the table and the test bench on one clock,  *)
(* for all lists of packets, all pauses and every table: requests and      *)
(* answers, both streams, the ports of packets and their replies, and the  *)
(* verdict of the test.                                                    *)
(***************************************************************************)
EXTENDS NatStreamProofs

-----------------------------------------------------------------------------
\* What each side may rely on: while the table searches for a rewriter, and on the
\* one edge on which it shows the answer, that rewriter holds the packet.
TxCurrent ==
    /\ stage = 1 => tx.hash_stage /\ ~ conn_valid_0 /\ key = Outbound(Tx!Request)
    /\ conn_valid_0 => /\ tx.hash_stage /\ ~ tuple_ready_0
                       /\ stage \in {0, 2} /\ key = Outbound(Tx!Request)
RxCurrent ==
    /\ stage = 3 => rx.hash_stage /\ ~ conn_valid_1 /\ key = Inbound(Rx!Request)
    /\ conn_valid_1 => /\ rx.hash_stage /\ ~ tuple_ready_1
                       /\ stage = 0 /\ key = Inbound(Rx!Request)

Handshake == /\ FlagsOK
             /\ Holding(tx) /\ Holding(rx)
             /\ TxCurrent /\ RxCurrent

LEMMA HandshakeInit == ASSUME SystemInit PROVE Handshake
<1>1. FlagsOK /\ stage = 0 /\ ~ conn_valid_0 /\ ~ conn_valid_1
  BY DEF SystemInit, TableInit, FlagsOK
<1>2. Holding(tx)
  BY DEF SystemInit, Tx!RewriterInit, Tx!Initial, Holding, RegisterNames
<1>3. Holding(rx)
  BY DEF SystemInit, Rx!RewriterInit, Rx!Initial, Holding, RegisterNames
<1> QED
  BY <1>1, <1>2, <1>3 DEF Handshake, TxCurrent, RxCurrent

\* An answer appears at the end of a search only, and for one edge.
LEMMA AnswersAreBrief ==
  ASSUME NEW q0, NEW q1, Clock(q0, q1)
  PROVE  /\ FlagsOK'
         /\ conn_valid_0' => stage = 1 /\ stage' \in {0, 2} /\ ~ tuple_ready_0' /\ key' = key
         /\ conn_valid_1' => stage = 3 /\ stage' = 0 /\ ~ tuple_ready_1' /\ key' = key
  BY DEF Clock, Busy, AcceptTx, AcceptRx, Idle, TxInsert, TxHit, TxProbe, RxInsert,
     RxInsertProbe, RxHit, RxProbe, Latch, ProbeNext, Silent0, Silent1, Answer0, Answer1, FlagsOK

\* A search begins with a request that is accepted and goes on with its key.
LEMMA SearchesKeepTheirKey ==
  ASSUME NEW q0, NEW q1, Clock(q0, q1)
  PROVE  /\ stage' = 1 =>
                /\ ~ conn_valid_0'
                /\ \/ stage = 1 /\ key' = key
                   \/ Accepted0(q0) /\ stage = 0 /\ key' = Outbound(q0)
         /\ stage' = 3 =>
                /\ ~ conn_valid_1'
                /\ \/ stage = 3 /\ key' = key
                   \/ Accepted1(q1) /\ stage = 0 /\ key' = Inbound(q1)
<1> USE DEF Latch, ProbeNext, Silent0, Silent1, txTable, rxTable
<1>1. CASE AcceptTx(q0)
  BY <1>1 DEF AcceptTx
<1>2. CASE AcceptRx(q0, q1)
  BY <1>2 DEF AcceptRx
<1>3. CASE Idle(q0, q1)
  BY <1>3 DEF Idle
<1>4. CASE TxProbe
  BY <1>4 DEF TxProbe
<1>6. CASE RxInsertProbe
  BY <1>6 DEF RxInsertProbe
<1>7. CASE RxProbe
  BY <1>7 DEF RxProbe
<1>5. CASE TxInsert \/ TxHit \/ RxInsert \/ RxHit
  BY <1>5 DEF TxInsert, TxHit, RxInsert, RxHit
<1> QED
  BY <1>1, <1>2, <1>3, <1>4, <1>5, <1>6, <1>7 DEF Clock, Busy

LEMMA HandshakeStep == ASSUME Handshake, [Tick]_systemVars PROVE Handshake'
<1>1. CASE UNCHANGED systemVars
  BY <1>1 DEF systemVars, tableVars, port0, port1, Handshake, FlagsOK, Holding, TxCurrent,
     RxCurrent, Tx!Request, Rx!Request
<1>2. CASE Tick
  <2>1. /\ Clock(Tx!Request, Rx!Request)
        /\ Tx!Edge(Offered(sender), conn_valid_0, conn_data_0)
        /\ Rx!Edge(Offered(echo_sender), conn_valid_1, conn_data_1)
    BY <1>2 DEF Tick, ClockEdge
  <2>2. FlagsOK' /\ Holding(tx)' /\ Holding(rx)'
    BY <2>1, AnswersAreBrief, TxHolding, RxHolding DEF Handshake
  \* A rewriter with a request that no answer has reached stays as it is.
  <2>3. /\ tx.hash_stage /\ ~ conn_valid_0 => tx' = tx
        /\ rx.hash_stage /\ ~ conn_valid_1 => rx' = rx
    BY <2>1, TxHolding, RxHolding DEF Handshake
  <2>4. /\ Accepted0(Tx!Request) => tx.hash_stage /\ ~ conn_valid_0
        /\ Accepted1(Rx!Request) => rx.hash_stage /\ ~ conn_valid_1
    BY DEF Handshake, Holding, TxCurrent, RxCurrent, Accepted0, Accepted1, Tx!Request, Rx!Request
  <2>5. /\ tx' = tx => (Tx!Request)' = Tx!Request
        /\ rx' = rx => (Rx!Request)' = Rx!Request
    BY DEF Tx!Request, Rx!Request
  <2>6. TxCurrent'
    <3>1. stage' = 1 => tx' = tx /\ tx.hash_stage /\ ~ conn_valid_0' /\ key' = Outbound(Tx!Request)
      BY <2>1, <2>3, <2>4, SearchesKeepTheirKey DEF Handshake, TxCurrent
    <3>2. conn_valid_0' => /\ tx' = tx /\ tx.hash_stage /\ ~ tuple_ready_0' /\ stage' \in {0, 2}
                           /\ key' = Outbound(Tx!Request)
      BY <2>1, <2>3, AnswersAreBrief DEF Handshake, TxCurrent
    <3> QED
      BY <3>1, <3>2, <2>5 DEF TxCurrent
  <2>7. RxCurrent'
    <3>1. stage' = 3 => rx' = rx /\ rx.hash_stage /\ ~ conn_valid_1' /\ key' = Inbound(Rx!Request)
      BY <2>1, <2>3, <2>4, SearchesKeepTheirKey DEF Handshake, RxCurrent
    <3>2. conn_valid_1' => /\ rx' = rx /\ rx.hash_stage /\ ~ tuple_ready_1' /\ stage' = 0
                           /\ key' = Inbound(Rx!Request)
      BY <2>1, <2>3, AnswersAreBrief DEF Handshake, RxCurrent
    <3> QED
      BY <3>1, <3>2, <2>5 DEF RxCurrent
  <2> QED
    BY <2>2, <2>6, <2>7 DEF Handshake
<1> QED
  BY <1>1, <1>2

-----------------------------------------------------------------------------
\* The echo sender is given the packets that were received, turned round.
Echoes == [i \in 1 .. Len(recver.packets) |-> Echo(Header(recver.packets[i]))]

Streams == /\ Link(ingress, sender, tx, recver)
           /\ Link(Echoes, echo_sender, rx, echo_recver)

LEMMA LinkInit ==
  ASSUME NEW src \in Seq(Packets), NEW r, Holding(r), r.tready, r.byte_cnt = 0
  PROVE  Link(src, SenderInit(src), r, RecverInit)
<1>1. SenderOK(SenderInit(src))
  <2>1. src # << >> => Head(src).len \in Nat /\ Head(src).len > 6
    BY FirstAndRest, PacketLength
  <2> QED
    BY <2>1 DEF SenderOK, SenderInit
<1>2. RecverOK(RecverInit) /\ Len(RecverInit.packets) = 0 /\ RecverInit.current = << >>
  BY DEF RecverOK, RecverInit
<1>3. Remaining(src, SenderInit(src), RecverInit)
  BY <1>2 DEF Remaining, SenderInit
<1>4. Delivered(src, SenderInit(src), RecverInit)
  BY <1>2 DEF Delivered, SenderInit, Carries
<1>5. Reads(SenderInit(src), r)
  BY DEF Reads, SenderInit, Upto
<1> QED
  BY <1>1, <1>2, <1>3, <1>4, <1>5 DEF Link

LEMMA StreamsInit == ASSUME SystemInit PROVE Streams
<1>1. /\ Holding(tx) /\ tx.tready /\ tx.byte_cnt = 0
      /\ Holding(rx) /\ rx.tready /\ rx.byte_cnt = 0
  BY DEF SystemInit, Tx!RewriterInit, Tx!Initial, Rx!RewriterInit, Rx!Initial, Holding, RegisterNames
<1>2. /\ ingress \in Seq(Packets) /\ sender = SenderInit(ingress) /\ recver = RecverInit
      /\ echo_sender = SenderInit(<< >>) /\ echo_recver = RecverInit
  BY IngressAssumption DEF SystemInit
<1>3. Echoes = << >> /\ << >> \in Seq(Packets)
  BY <1>2 DEF Echoes, RecverInit
<1> QED
  BY <1>1, <1>2, <1>3, LinkInit DEF Streams

LEMMA Joined ==
  ASSUME NEW S, NEW q \in Seq(S), NEW more \in Seq(S)
  PROVE  /\ q \o more \in Seq(S) /\ Len(q \o more) = Len(q) + Len(more)
         /\ Len(q) \in Nat /\ Len(more) \in Nat
         /\ \A i \in 1 .. Len(q) + Len(more) :
               (q \o more)[i] = IF i <= Len(q) THEN q[i] ELSE more[i - Len(q)]
         /\ q # << >> => q \o more # << >> /\ Head(q \o more) = Head(q)
  BY ConcatProperties

\* More packets behind those a sender has leave the link as it is.
LEMMA LinkExtend ==
  ASSUME NEW src, NEW s, NEW r, NEW v, Link(src, s, r, v), NEW more \in Seq(Packets)
  PROVE  LET s1 == [s EXCEPT !.packets = @ \o more]
         IN  Link(src \o more, s1, r, v) /\ Offered(s1) = Offered(s)
<1> DEFINE s1 == [s EXCEPT !.packets = @ \o more]
<1>1. /\ Holding(r) /\ SenderOK(s) /\ RecverOK(v) /\ Len(v.packets) \in Nat
      /\ Remaining(src, s, v) /\ Delivered(src, s, v) /\ Reads(s, r)
  BY DEF Link, RecverOK
<1>2. s \in [packets : Seq(Packets), word : Nat, sleeping : 0 .. 2, valid : BOOLEAN]
  BY <1>1 DEF SenderOK
<1>3. /\ s1 \in [packets : Seq(Packets), word : Nat, sleeping : 0 .. 2, valid : BOOLEAN]
      /\ s1.packets = s.packets \o more
      /\ s1.word = s.word /\ s1.sleeping = s.sleeping /\ s1.valid = s.valid
  <2>1. s.packets \o more \in Seq(Packets)
    BY <1>2, Joined
  <2> QED
    BY <1>2, <2>1
<1> HIDE DEF s1
<1>4. /\ s.packets # << >> => s1.packets # << >> /\ Head(s1.packets) = Head(s.packets)
      /\ s.packets = << >> => ~ s.valid /\ s.word = 0
  BY <1>1, <1>2, <1>3, Joined DEF SenderOK
<1>5. SenderOK(s1)
  <2>1. s1.packets # << >> => Head(s1.packets).len \in Nat /\ Head(s1.packets).len > 6
    BY <1>3, FirstAndRest, PacketLength
  <2> QED
    BY <1>1, <1>3, <1>4, <2>1 DEF SenderOK
<1>6. Remaining(src \o more, s1, v)
  <2> DEFINE n == Len(v.packets)
             m == Len(s.packets)
             l == Len(more)
  <2>1. /\ src \in Seq(Packets) /\ s.packets \in Seq(Packets)
        /\ n \in Nat /\ m \in Nat /\ l \in Nat
        /\ Len(src) = n + m
        /\ \A k \in 1 .. m : s.packets[k] = src[n + k]
    BY <1>1, <1>2 DEF Remaining
  <2>2. /\ src \o more \in Seq(Packets) /\ Len(src \o more) = (n + m) + l
        /\ \A i \in 1 .. (n + m) + l :
              (src \o more)[i] = IF i <= n + m THEN src[i] ELSE more[i - (n + m)]
    <3>1. /\ src \o more \in Seq(Packets) /\ Len(src \o more) = Len(src) + l
          /\ \A i \in 1 .. Len(src) + l :
                (src \o more)[i] = IF i <= Len(src) THEN src[i] ELSE more[i - Len(src)]
      BY <2>1, Joined
    <3> QED
      BY <2>1, <3>1
  <2>3. /\ Len(s1.packets) = m + l
        /\ \A k \in 1 .. m + l : s1.packets[k] = IF k <= m THEN s.packets[k] ELSE more[k - m]
    BY <1>3, <2>1, Joined
  <2> HIDE DEF n, m, l
  <2>4. ASSUME NEW k \in 1 .. m + l
        PROVE  s1.packets[k] = (src \o more)[n + k]
    <3>1. n + k \in 1 .. (n + m) + l /\ (n + k <= n + m <=> k <= m) /\ (n + k) - (n + m) = k - m
      BY <2>1
    <3>2. (src \o more)[n + k] = IF k <= m THEN src[n + k] ELSE more[k - m]
      BY <2>2, <3>1
    <3>3. k <= m => s.packets[k] = src[n + k]
      BY <2>1
    <3> QED
      BY <2>3, <3>2, <3>3
  <2>5. (n + m) + l = n + (m + l)
    BY <2>1
  <2> QED
    BY <2>2, <2>3, <2>4, <2>5 DEF Remaining, n
<1>7. Delivered(src \o more, s1, v)
  <2>1. ASSUME NEW i \in 1 .. Len(v.packets) PROVE (src \o more)[i] = src[i]
    BY <1>1, <1>2 DEF Remaining
  <2>2. Carries(v.current, Head(s1.packets))
    <3>1. CASE s.packets = << >>
      <4>1. Len(v.current) = 0 /\ v.current \in Seq(Beats)
        BY <1>1, <1>4, <3>1 DEF Delivered, RecverOK
      <4> QED
        BY <4>1 DEF Carries
    <3>2. CASE s.packets # << >>
      BY <1>1, <1>4, <3>2 DEF Delivered
    <3> QED
      BY <3>1, <3>2
  <2> QED
    BY <1>1, <1>3, <2>1, <2>2 DEF Delivered
<1>8. Reads(s1, r) /\ Offered(s1) = Offered(s)
  BY <1>1, <1>3, <1>4 DEF Reads, Offered
<1> QED
  BY <1>1, <1>5, <1>6, <1>7, <1>8 DEF Link, s1

\* A complete packet has its header in word 4, as it was sent but for the port.
LEMMA HeaderArrived ==
  ASSUME NEW src, NEW s, NEW v, RecverOK(v), Remaining(src, s, v), Delivered(src, s, v),
         NEW i \in 1 .. Len(v.packets)
  PROVE  /\ src[i] \in Packets /\ v.packets[i] \in Seq(Beats)
         /\ Len(v.packets[i]) = src[i].len /\ Len(v.packets[i]) > 6
         /\ 5 \in DOMAIN v.packets[i]
         /\ Header(v.packets[i]) = v.packets[i][5].pkt
         /\ Header(v.packets[i]) \in Packets
         /\ Header(v.packets[i]) =
               IF IsTranslated(src[i])
               THEN [src[i] EXCEPT !.sport = Header(v.packets[i]).sport] ELSE src[i]
<1>1. v.packets \in Seq(Seq(Beats)) /\ src \in Seq(Packets) /\ i \in 1 .. Len(src)
  BY DEF RecverOK, Remaining
<1>2. v.packets[i] \in Seq(Beats) /\ src[i] \in Packets
  BY <1>1
<1>3. Len(v.packets[i]) = src[i].len /\ Carries(v.packets[i], src[i])
  BY DEF Delivered
<1>4. src[i].len \in Nat /\ src[i].len > 6
  BY <1>2, PacketLength
<1> DEFINE beats == v.packets[i]
           p == src[i]
<1> HIDE DEF beats, p
<1>5. beats \in Seq(Beats) /\ Len(beats) > 6 /\ Len(beats) \in Nat /\ Carries(beats, p)
  BY <1>2, <1>3, <1>4 DEF beats, p
<1>6. 5 \in DOMAIN beats /\ beats[5] \in Beats
  BY <1>5
<1>7. beats[5].pkt = IF IsTranslated(p) THEN [p EXCEPT !.sport = beats[5].pkt.sport] ELSE p
  BY <1>5, <1>6 DEF Carries
<1>8. Header(beats) = beats[5].pkt /\ beats[5].pkt \in Packets
  BY <1>5, <1>6 DEF Header, Beats
<1> QED
  BY <1>2, <1>3, <1>4, <1>5, <1>6, <1>7, <1>8 DEF beats, p

LEMMA EchoPacket == \A p \in Packets : Echo(p) \in Packets
  BY DEF Packets, Echo

\* The list to echo grows by what the receiver returns on this edge.
LEMMA EchoesGrow ==
  ASSUME NEW src, NEW s, NEW r, Link(src, s, r, recver),
         NEW src1, NEW s1, NEW r1, Link(src1, s1, r1, recver'),
         NEW valid, NEW out, recver' = RecverEdge(recver, valid, out)
  PROVE  /\ Returned \in Seq(Packets)
         /\ Echoes' = Echoes \o Returned
<1> DEFINE n == Len(recver.packets)
           new == Append(recver.current, out)
           T == Seq(Beats) \cup {new}
           E(i) == Echo(Header(recver'.packets[i]))
<1>1. recver.packets \in Seq(Seq(Beats)) /\ n \in Nat
  BY DEF Link, RecverOK
<1>2. \A i \in 1 .. Len(recver'.packets) : E(i) \in Packets
  <2> SUFFICES ASSUME NEW i \in 1 .. Len(recver'.packets) PROVE E(i) \in Packets
    OBVIOUS
  <2>1. Header(recver'.packets[i]) \in Packets
    BY HeaderArrived DEF Link
  <2> QED
    BY <2>1, EchoPacket
<1>3. Echoes \in Seq(Packets) /\ Len(Echoes) = n
  <2>1. \A i \in 1 .. n : Echo(Header(recver.packets[i])) \in Packets
    <3> SUFFICES ASSUME NEW i \in 1 .. n PROVE Echo(Header(recver.packets[i])) \in Packets
      OBVIOUS
    <3>1. Header(recver.packets[i]) \in Packets
      BY HeaderArrived DEF Link
    <3> QED
      BY <3>1, EchoPacket
  <2> QED
    BY <1>1, <2>1 DEF Echoes
<1>4. CASE recver'.packets = recver.packets
  BY <1>3, <1>4, ConcatEmptySeq DEF Returned, Echoes
<1>5. CASE recver'.packets = Append(recver.packets, new)
  <2>1. recver.packets \in Seq(T) /\ new \in T
    <3>1. Seq(Beats) \subseteq T
      OBVIOUS
    <3> HIDE DEF T
    <3>2. recver.packets \in Seq(T)
      BY <1>1, <3>1, SeqMonotonic
    <3> QED
      BY <3>2 DEF T
  <2> HIDE DEF T, new
  <2>2. /\ Len(recver'.packets) = n + 1
        /\ \A i \in 1 .. n : recver'.packets[i] = recver.packets[i]
    BY <1>5, <2>1, Appended
  <2>3. Returned = <<E(n + 1)>>
    <3>1. recver'.packets # recver.packets
      BY <1>1, <2>2
    <3> QED
      BY <2>2, <3>1 DEF Returned
  <2>4. E(n + 1) \in Packets
    BY <1>1, <1>2, <2>2
  <2>5. Echoes' = [i \in 1 .. n + 1 |-> E(i)]
    BY <2>2 DEF Echoes
  <2>6. \A i \in 1 .. n : E(i) = Echoes[i]
    BY <2>2 DEF Echoes
  <2> HIDE DEF E, n
  <2>7. Echoes' = Append(Echoes, E(n + 1))
    <3>1. /\ Append(Echoes, E(n + 1)) \in Seq(Packets) /\ Len(Append(Echoes, E(n + 1))) = n + 1
          /\ \A i \in 1 .. n : Append(Echoes, E(n + 1))[i] = E(i)
          /\ Append(Echoes, E(n + 1))[n + 1] = E(n + 1)
      BY <1>3, <2>4, <2>6, Appended
    <3>2. Echoes' \in Seq(Packets) /\ Len(Echoes') = n + 1
      BY <1>1, <1>2, <2>2, <2>5
    <3>3. \A i \in 1 .. n + 1 : Echoes'[i] = Append(Echoes, E(n + 1))[i]
      BY <1>1, <2>5, <3>1, Split
    <3> QED
      BY <3>1, <3>2, <3>3, SeqEqual
  <2> QED
    BY <1>3, <2>3, <2>4, <2>7, AppendIsConcat
<1>6. recver'.packets = recver.packets \/ recver'.packets = Append(recver.packets, new)
  BY DEF RecverEdge, Link, RecverOK
<1> QED
  BY <1>4, <1>5, <1>6

\* A rewriter asks for the tuple of the packet it holds, which is a tuple.
LEMMA HeldRequest ==
  ASSUME NEW src, NEW s, NEW r, NEW v, Link(src, s, r, v), r.hash_stage
  PROVE  /\ s.valid /\ s.word = 4 /\ s.packets # << >>
         /\ Len(v.packets) + 1 \in 1 .. Len(src)
         /\ src[Len(v.packets) + 1] = Head(s.packets) /\ Head(s.packets) \in Packets
         /\ IsTranslated(Head(s.packets))
         /\ Request(r) = TupleOf(Head(s.packets)) /\ Request(r) \in Tuples
<1>1. SenderOK(s) /\ Reads(s, r) /\ Remaining(src, s, v) /\ ~ r.tready
  BY DEF Link, Holding
<1>2. s.valid /\ s.word = 4 /\ IsTranslated(Head(s.packets)) /\ Request(r) = TupleOf(Head(s.packets))
  BY <1>1 DEF Reads
<1>3. s.packets \in Seq(Packets) /\ s.packets # << >>
  BY <1>1, <1>2 DEF SenderOK
<1>4. Head(s.packets) \in Packets /\ Head(s.packets) = s.packets[1] /\ 1 \in 1 .. Len(s.packets)
  BY <1>3, FirstAndRest
<1>5. TupleOf(Head(s.packets)) \in Tuples
  BY <1>4 DEF Packets, TupleOf, Tuples
<1>6. Len(v.packets) \in Nat /\ Len(s.packets) \in Nat
  BY <1>3 DEF Link, RecverOK
<1>7. src[Len(v.packets) + 1] = s.packets[1] /\ Len(src) = Len(v.packets) + Len(s.packets)
  BY <1>1, <1>4 DEF Remaining
<1>8. Len(v.packets) + 1 \in 1 .. Len(src)
  BY <1>4, <1>6, <1>7, Inside
<1> QED
  BY <1>2, <1>3, <1>4, <1>5, <1>7, <1>8

LEMMA RequestsAreTuples ==
  ASSUME Streams
  PROVE  /\ Tx!Request = IF tx.hash_stage THEN Request(tx) ELSE NoTuple
         /\ Rx!Request = IF rx.hash_stage THEN Request(rx) ELSE NoTuple
         /\ Tx!Request \in Requests /\ Rx!Request \in Requests
<1>1. /\ tx.tuple_valid = tx.hash_stage /\ rx.tuple_valid = rx.hash_stage
      /\ tx.hash_stage \in BOOLEAN /\ rx.hash_stage \in BOOLEAN
  BY DEF Streams, Link, Holding
<1>2. tx.hash_stage => Request(tx) \in Tuples
  BY HeldRequest DEF Streams
<1>3. rx.hash_stage => Request(rx) \in Tuples
  BY HeldRequest DEF Streams
<1> QED
  BY <1>1, <1>2, <1>3 DEF Tx!Request, Rx!Request, Request, Requests

\* The invariant of the closed system.
SystemInv == IInv /\ Handshake /\ Streams

LEMMA SystemInvInit == ASSUME SystemInit PROVE SystemInv
  BY InitIInv, HandshakeInit, StreamsInit DEF SystemInv, SystemInit

LEMMA StreamsStep == ASSUME SystemInv, Tick PROVE Streams'
<1>1. /\ Tx!Edge(Offered(sender), conn_valid_0, conn_data_0)
      /\ Rx!Edge(Offered(echo_sender), conn_valid_1, conn_data_1)
      /\ ingress' = ingress
  BY DEF Tick, ClockEdge
<1>2. Link(ingress, sender, tx, recver) /\ Link(Echoes, echo_sender, rx, echo_recver)
  BY DEF SystemInv, Streams
<1>3. /\ Holding(tx') /\ Works(Offered(sender), conn_valid_0, conn_data_0, tx, tx')
      /\ Holding(rx') /\ Works(Offered(echo_sender), conn_valid_1, conn_data_1, rx, rx')
  BY <1>1, <1>2, TxHolding, RxHolding, TxWorks, RxWorks DEF Link
<1>4. conn_data_0 \in Ports /\ conn_data_1 \in Ports
  BY SlotsArePorts DEF SystemInv, IInv, TypeOK, RegistersOK
<1>5. recver' = RecverEdge(recver, tx'.tvalid, tx'.out)
      /\ echo_recver' = RecverEdge(echo_recver, rx'.tvalid, rx'.out)
  BY DEF Tick, EndsEdge
<1>6. Link(ingress, sender', tx', recver')
  <2>1. PICK nap \in Naps : sender' = SenderEdge(sender, tx'.tready, nap)
    BY DEF Tick, EndsEdge
  <2>2. nap \in 0 .. 2
    BY <2>1, NapsAssumption
  <2> QED
    BY <1>2, <1>3, <1>4, <1>5, <2>1, <2>2, LinkStep
<1>7. Link(Echoes', echo_sender', rx', echo_recver')
  <2> DEFINE s1 == [echo_sender EXCEPT !.packets = @ \o Returned]
  <2>1. Returned \in Seq(Packets) /\ Echoes' = Echoes \o Returned
    BY <1>2, <1>5, <1>6, EchoesGrow
  <2>2. Link(Echoes', s1, rx, echo_recver) /\ Offered(s1) = Offered(echo_sender)
    BY <1>2, <2>1, LinkExtend
  <2>3. PICK nap \in Naps : echo_sender' = SenderEdge(s1, rx'.tready, nap)
    BY DEF Tick, EndsEdge
  <2>4. nap \in 0 .. 2
    BY <2>3, NapsAssumption
  <2> HIDE DEF s1
  <2> QED
    BY <1>3, <1>4, <1>5, <2>2, <2>3, <2>4, LinkStep
<1> QED
  BY <1>1, <1>6, <1>7 DEF Streams

LEMMA SystemInvStep == ASSUME SystemInv, [Tick]_systemVars PROVE SystemInv'
<1>1. CASE UNCHANGED systemVars
  <2>1. UNCHANGED tableVars /\ UNCHANGED <<ingress, tx, rx, sender, recver, echo_sender, echo_recver>>
    BY <1>1 DEF systemVars, ends
  <2>2. IInv'
    BY <2>1, DrivenIInv DEF SystemInv
  <2>3. Streams'
    BY <2>1 DEF SystemInv, Streams, Echoes
  <2> QED
    BY <1>1, <2>2, <2>3, HandshakeStep DEF SystemInv
<1>2. CASE Tick
  <2>1. Clock(Tx!Request, Rx!Request)
    BY <1>2 DEF Tick, ClockEdge
  <2>2. Tx!Request \in Requests /\ Rx!Request \in Requests
    BY RequestsAreTuples DEF SystemInv
  <2>3. IInv'
    BY <2>1, <2>2, DrivenIInv DEF SystemInv, Driven, Clocked
  <2> QED
    BY <1>2, <2>3, StreamsStep, HandshakeStep DEF SystemInv
<1> QED
  BY <1>1, <1>2

THEOREM SystemIsInductive == SystemSpec => []SystemInv
  BY SystemInvInit, SystemInvStep, PTL DEF SystemSpec

\* Without a reset the table only ever works for a rewriter that holds a beat, or
\* answers it, and on the tuple of the packet that the beat is of (our_ip.v:100-114,
\* hash_ip.v:64-67, 123, 143), for all lists of packets and pauses.
LEMMA HeldTuple ==
  ASSUME NEW src, NEW s, NEW r, NEW v, Link(src, s, r, v), r.hash_stage
  PROVE  HoldsBeatOf(r, s) /\ r.tuple_valid /\ Request(r) = TupleOf(Offered(s).pkt)
<1>1. /\ s.valid /\ r.out = Offered(s) /\ Request(r) = TupleOf(Head(s.packets))
      /\ r.tuple_valid
  BY DEF Link, Holding, Reads
<1>2. Offered(s).pkt = Head(s.packets)
  BY <1>1 DEF Offered
<1> QED
  BY <1>1, <1>2 DEF HoldsBeatOf

THEOREM EveryRequestIsCurrent == SystemSpec => []RequestsAreCurrent
<1>1. SystemInv => RequestsAreCurrent
  <2> SUFFICES ASSUME SystemInv PROVE RequestsAreCurrent
    OBVIOUS
  <2>1. /\ stage = 1 \/ conn_valid_0 => tx.hash_stage /\ key = Outbound(Tx!Request)
        /\ stage = 3 \/ conn_valid_1 => rx.hash_stage /\ key = Inbound(Rx!Request)
    BY DEF SystemInv, Handshake, TxCurrent, RxCurrent
  <2>2. tx.hash_stage =>
           HoldsBeatOf(tx, sender) /\ Tx!Request = TupleOf(Offered(sender).pkt)
    BY HeldTuple DEF SystemInv, Streams, Tx!Request, Request
  <2>3. rx.hash_stage =>
           HoldsBeatOf(rx, echo_sender) /\ Rx!Request = TupleOf(Offered(echo_sender).pkt)
    BY HeldTuple DEF SystemInv, Streams, Rx!Request, Request
  <2> QED
    BY <2>1, <2>2, <2>3 DEF RequestsAreCurrent
<1> QED
  BY <1>1, SystemIsInductive, PTL

-----------------------------------------------------------------------------
\* The registers of both rewriters and both senders keep their types, and what a
\* rewriter shows the table with tuple_valid is a tuple (our_ip.v:87-131).
THEOREM SystemTypeCorrect == SystemSpec => []SystemTypeOK
<1>1. ASSUME NEW src, NEW s, NEW r, NEW v, Link(src, s, r, v)
      PROVE  RewriterOK(r) /\ s.sleeping \in 0 .. 2
  <2>1. Holding(r) /\ SenderOK(s) /\ Reads(s, r)
    BY <1>1 DEF Link
  <2>2. s.word \in Nat /\ s.sleeping \in 0 .. 2
    BY <2>1 DEF SenderOK
  <2>3. r.byte_cnt \in 0 .. Tx!PayloadWord
    BY <2>1, <2>2 DEF Holding, Reads, Upto, Tx!PayloadWord
  <2>4. r.tuple_valid => Request(r) \in Tuples
    BY <1>1, <2>1, HeldRequest DEF Holding
  <2>5. {r.tready, r.tvalid, r.is_custom_ip, r.tuple_valid, r.hash_stage} \subseteq BOOLEAN
    BY <2>1 DEF Holding
  <2> QED
    BY <2>2, <2>3, <2>4, <2>5 DEF RewriterOK, Request
<1>2. SystemInv => SystemTypeOK
  BY <1>1 DEF SystemInv, IInv, Streams, SystemTypeOK
<1> QED
  BY <1>2, SystemIsInductive, PTL

LEMMA MinOfTwo == \A n \in Nat : Min({n, Tx!PayloadWord}) = Upto(n)
<1> SUFFICES ASSUME NEW n \in Nat PROVE Min({n, 5}) = Upto(n)
  BY DEF Tx!PayloadWord
<1>1. \E x \in {n, 5} : \A y \in {n, 5} : x <= y
  OBVIOUS
<1>2. Min({n, 5}) \in {n, 5} /\ \A y \in {n, 5} : Min({n, 5}) <= y
  BY <1>1 DEF Min
<1> QED
  BY <1>2 DEF Upto

\* The headers are read from the right words of every packet, in both directions,
\* for all packets, pauses and waits for the table (our_ip.v:87, 117-122 against
\* the hold of 107-113 and the senders' look at tready after the edge).
THEOREM HeadersAreAligned == SystemSpec => []HeaderAligned
<1>1. ASSUME NEW src, NEW s, NEW r, NEW v, Link(src, s, r, v)
      PROVE  Offered(s) # NoBeat /\ r.tready =>
                r.byte_cnt = Min({Offered(s).word, Tx!PayloadWord})
  <2>1. SenderOK(s) /\ Reads(s, r) /\ s.word \in Nat
    BY <1>1 DEF Link, SenderOK
  <2>2. Offered(s) # NoBeat => Offered(s).word = s.word
    BY <2>1, OfferedBeat
  <2>3. r.tready => r.byte_cnt = Upto(s.word)
    BY <2>1 DEF Reads
  <2> QED
    BY <2>1, <2>2, <2>3, MinOfTwo
<1>2. SystemInv => HeaderAligned
  BY <1>1 DEF SystemInv, Streams, HeaderAligned
<1> QED
  BY <1>2, SystemIsInductive, PTL

LEMMA LinkIsIntact ==
  ASSUME NEW src, NEW s, NEW r, NEW v, Link(src, s, r, v),
         NEW i \in DOMAIN Stream(v), Stream(v)[i] # << >>
  PROVE  i \in 1 .. Len(src) /\ Carries(Stream(v)[i], src[i])
<1> DEFINE T == Seq(Beats)
           n == Len(v.packets)
<1>1. SenderOK(s) /\ RecverOK(v) /\ Remaining(src, s, v) /\ Delivered(src, s, v)
  BY DEF Link
<1>2. v.packets \in Seq(T) /\ v.current \in T
  BY <1>1 DEF RecverOK
<1> HIDE DEF T
<1>3. /\ Stream(v) \in Seq(T) /\ n \in Nat /\ Len(Stream(v)) = n + 1
      /\ \A k \in 1 .. n : Stream(v)[k] = v.packets[k]
      /\ Stream(v)[n + 1] = v.current
  BY <1>2, Appended DEF Stream
<1>4. i \in 1 .. n + 1
  BY <1>3
<1>5. s.packets \in Seq(Packets) /\ Len(s.packets) \in Nat /\ Len(src) = n + Len(s.packets)
  BY <1>1 DEF SenderOK, Remaining
<1>6. CASE i \in 1 .. n
  <2>1. i \in 1 .. Len(src)
    BY <1>3, <1>5, <1>6, Inside
  <2> QED
    BY <1>1, <1>3, <1>6, <2>1 DEF Delivered
<1>7. CASE i = n + 1
  <2>1. Len(v.current) = s.word /\ v.current # << >> /\ Carries(v.current, Head(s.packets))
    BY <1>1, <1>3, <1>7 DEF Delivered
  <2>2. s.word # 0
    BY <1>2, <2>1 DEF T
  <2>3. s.packets # << >>
    BY <1>1, <2>2 DEF SenderOK
  <2>4. Head(s.packets) = s.packets[1] /\ 1 \in 1 .. Len(s.packets)
    BY <1>5, <2>3, FirstAndRest
  <2>5. Head(s.packets) = src[n + 1]
    BY <1>1, <2>4 DEF Remaining
  <2>6. n + 1 \in 1 .. Len(src)
    BY <1>3, <1>5, <2>4, Inside
  <2> QED
    BY <1>3, <1>7, <2>1, <2>5, <2>6
<1> QED
  BY <1>3, <1>4, <1>6, <1>7, Split

\* Neither direction loses, repeats or reorders a word, and no field changes but
\* the port of a translated packet, for all packets, pauses and waits (our_ip.v:78-137).
THEOREM StreamsAreIntact == SystemSpec => []StreamsIntact
<1>1. SystemInv => StreamsIntact
  <2> SUFFICES ASSUME SystemInv PROVE StreamsIntact
    OBVIOUS
  <2>1. \A i \in DOMAIN Stream(recver) :
           Stream(recver)[i] # << >> => Carries(Stream(recver)[i], ingress[i])
    BY LinkIsIntact DEF SystemInv, Streams
  <2>2. ASSUME NEW i \in DOMAIN Stream(echo_recver), Stream(echo_recver)[i] # << >>
        PROVE  Carries(Stream(echo_recver)[i], Echo(Header(recver.packets[i])))
    <3>1. i \in 1 .. Len(Echoes) /\ Carries(Stream(echo_recver)[i], Echoes[i])
      BY <2>2, LinkIsIntact DEF SystemInv, Streams
    <3>2. Len(recver.packets) \in Nat
      BY DEF SystemInv, Streams, Link, RecverOK
    <3> QED
      BY <3>1, <3>2 DEF Echoes
  <2> QED
    BY <2>1, <2>2 DEF StreamsIntact
<1> QED
  BY <1>1, SystemIsInductive, PTL

-----------------------------------------------------------------------------
\* The packets of which a receiver has the word with the ports, and the source
\* port that it shows.
Arrived(v)   == {i \in DOMAIN Stream(v) : Len(Stream(v)[i]) > 4}
PortAt(v, i) == Stream(v)[i][5].pkt.sport

\* The table has bound tuple t to port p.
Bound(t, p) ==
    \E s \in Used(conn_mem_tx) : conn_mem_tx[s] = Outbound(t) /\ conn_idx_tx[s] = p

\* The connections of the first n packets.
Conns(n) == {TupleOf(ingress[j]) : j \in {k \in 1 .. n : IsTranslated(ingress[k])}}

\* What left is bound, what came back has its own port again, ...
TxPorts == \A i \in Arrived(recver) :
               IsTranslated(ingress[i]) => Bound(TupleOf(ingress[i]), PortAt(recver, i))
RxPorts == \A i \in Arrived(echo_recver) :
               IsTranslated(ingress[i]) => PortAt(echo_recver, i) = ingress[i].sport

\* ... and the port of an entry is the number of the connections before its own.
StartedBy(s, j) ==
    /\ IsTranslated(ingress[j])
    /\ conn_mem_tx[s] = Outbound(TupleOf(ingress[j]))
    /\ TupleOf(ingress[j]) \notin Conns(j - 1)
    /\ conn_idx_tx[s] = Cardinality(Conns(j - 1))
Ranked == \A s \in Used(conn_mem_tx) :
              \E j \in 1 .. Len(recver.packets) + 1 : j <= Len(ingress) /\ StartedBy(s, j)

PortsInv == TxPorts /\ RxPorts /\ Ranked

LEMMA StreamParts ==
  ASSUME NEW v, RecverOK(v)
  PROVE  /\ Len(v.packets) \in Nat
         /\ DOMAIN Stream(v) = 1 .. Len(v.packets) + 1
         /\ \A k \in 1 .. Len(v.packets) : Stream(v)[k] = v.packets[k] /\ v.packets[k] \in Seq(Beats)
         /\ Stream(v)[Len(v.packets) + 1] = v.current
<1> DEFINE T == Seq(Beats)
<1>1. v.packets \in Seq(T) /\ v.current \in T
  BY DEF RecverOK
<1>2. \A k \in 1 .. Len(v.packets) : v.packets[k] \in T
  BY <1>1
<1>3. \A k \in 1 .. Len(v.packets) : v.packets[k] \in Seq(Beats)
  BY <1>2 DEF T
<1> HIDE DEF T
<1>4. /\ Stream(v) \in Seq(T) /\ Len(Stream(v)) = Len(v.packets) + 1
      /\ Len(v.packets) \in Nat
      /\ \A k \in 1 .. Len(v.packets) : Stream(v)[k] = v.packets[k]
      /\ Stream(v)[Len(v.packets) + 1] = v.current
  BY <1>1, Appended DEF Stream
<1>5. DOMAIN Stream(v) = 1 .. Len(Stream(v))
  BY <1>4
<1> QED
  BY <1>3, <1>4, <1>5

LEMMA Fifth == \A n \in Nat : n + 1 > 4 /\ n # 4 => n > 4 /\ 5 \in 1 .. n
  OBVIOUS

\* A receiver sees the port of one more packet when it takes the fifth word of it.
LEMMA ArrivedStep ==
  ASSUME NEW v, RecverOK(v), NEW valid, NEW out \in Beats,
         NEW i \in Arrived(RecverEdge(v, valid, out))
  PROVE  LET w == RecverEdge(v, valid, out)
         IN  \/ i \in Arrived(v) /\ PortAt(w, i) = PortAt(v, i)
             \/ /\ valid /\ i = Len(v.packets) + 1 /\ Len(v.current) = 4
                /\ PortAt(w, i) = out.pkt.sport
<1> DEFINE w == RecverEdge(v, valid, out)
           n == Len(v.packets)
           new == Append(v.current, out)
           T == Seq(Beats)
<1>1. v.packets \in Seq(T) /\ v.current \in Seq(Beats)
  BY DEF RecverOK
<1>2. /\ new \in T /\ Len(v.current) \in Nat /\ Len(new) = Len(v.current) + 1
      /\ \A k \in 1 .. Len(v.current) : new[k] = v.current[k]
      /\ new[Len(v.current) + 1] = out
  BY <1>1, Appended
<1>3. /\ n \in Nat /\ DOMAIN Stream(v) = 1 .. n + 1
      /\ \A k \in 1 .. n : Stream(v)[k] = v.packets[k]
      /\ Stream(v)[n + 1] = v.current
  BY StreamParts
<1>4. CASE ~ valid
  BY <1>4 DEF RecverEdge
<1>5. CASE valid
  <2>1. /\ \A k \in 1 .. n : k \in DOMAIN Stream(w) => Stream(w)[k] = v.packets[k]
        /\ Stream(w)[n + 1] = new
        /\ \A k \in DOMAIN Stream(w) : k \in 1 .. n + 1 \/ Stream(w)[k] = << >>
    <3>1. CASE out.last
      <4>1. w.packets = Append(v.packets, new) /\ w.current = << >>
        BY <1>5, <3>1 DEF RecverEdge
      <4>2. /\ w.packets \in Seq(T) /\ Len(w.packets) = n + 1
            /\ \A k \in 1 .. n : w.packets[k] = v.packets[k]
            /\ w.packets[n + 1] = new
        <5> HIDE DEF T, new
        <5> QED
          BY <1>1, <1>2, <4>1, Appended
      <4>3. << >> \in T
        OBVIOUS
      <4> HIDE DEF T, new, w, n
      <4>4. /\ Stream(w) \in Seq(T) /\ Len(Stream(w)) = (n + 1) + 1
            /\ \A k \in 1 .. n + 1 : Stream(w)[k] = w.packets[k]
            /\ Stream(w)[(n + 1) + 1] = << >>
        BY <4>1, <4>2, <4>3, Appended DEF Stream
      <4>5. DOMAIN Stream(w) = 1 .. (n + 1) + 1
        BY <4>4
      <4>6. \A k \in 1 .. n : k \in 1 .. n + 1
        BY <1>3
      <4>7. n + 1 \in 1 .. n + 1 /\ \A k \in 1 .. (n + 1) + 1 : k \in 1 .. n + 1 \/ k = (n + 1) + 1
        BY <1>3
      <4> QED
        BY <4>2, <4>4, <4>5, <4>6, <4>7
    <3>2. CASE ~ out.last
      <4>1. w.packets = v.packets /\ w.current = new
        BY <1>5, <3>2 DEF RecverEdge, RecverOK
      <4> HIDE DEF T, new, w, n
      <4>2. /\ Stream(w) \in Seq(T) /\ Len(Stream(w)) = n + 1
            /\ \A k \in 1 .. n : Stream(w)[k] = v.packets[k]
            /\ Stream(w)[n + 1] = new
        BY <1>1, <1>2, <4>1, Appended DEF Stream, n
      <4>3. DOMAIN Stream(w) = 1 .. n + 1
        BY <4>2
      <4> QED
        BY <4>2, <4>3
    <3> QED
      BY <3>1, <3>2
  <2>2. i \in DOMAIN Stream(w) /\ Len(Stream(w)[i]) > 4
    BY DEF Arrived
  <2> HIDE DEF w, new, n
  <2>3. i \in 1 .. n + 1
    <3>1. Stream(w)[i] # << >>
      BY <2>2
    <3> QED
      BY <2>1, <2>2, <3>1
  <2>4. CASE i \in 1 .. n
    <3>1. Stream(w)[i] = Stream(v)[i] /\ i \in DOMAIN Stream(v)
      BY <1>3, <2>1, <2>2, <2>4
    <3> QED
      BY <2>2, <3>1 DEF Arrived, PortAt, w
  <2>5. CASE i = n + 1
    <3>1. Stream(w)[i] = new /\ Stream(v)[i] = v.current /\ i \in DOMAIN Stream(v)
      BY <1>3, <2>1, <2>5
    <3>2. Len(v.current) + 1 > 4
      BY <1>2, <2>2, <3>1
    <3>3. CASE Len(v.current) = 4
      <4>1. new[5] = out
        BY <1>2, <3>3
      <4> QED
        BY <1>5, <2>5, <3>1, <3>3, <4>1 DEF PortAt, w, n
    <3>4. CASE Len(v.current) # 4
      <4>1. Len(v.current) > 4 /\ 5 \in 1 .. Len(v.current)
        BY <1>2, <3>2, <3>4, Fifth
      <4>2. new[5] = v.current[5]
        BY <1>2, <4>1
      <4> QED
        BY <3>1, <4>1, <4>2 DEF PortAt, Arrived, w
    <3> QED
      BY <3>3, <3>4
  <2> QED
    BY <1>3, <2>3, <2>4, <2>5, Split
<1> QED
  BY <1>4, <1>5

\* What one edge of a direction adds: the port of a packet that is not translated,
\* or the answer to the packet that was held.
Advances(src, r, v, w, ok, d) ==
    \A i \in Arrived(w) :
        \/ i \in Arrived(v) /\ PortAt(w, i) = PortAt(v, i)
        \/ i \in 1 .. Len(src) /\ ~ IsTranslated(src[i])
        \/ i = Len(v.packets) + 1 /\ r.hash_stage /\ ok /\ PortAt(w, i) = d

LEMMA PortsStep ==
  ASSUME NEW src, NEW s, NEW r, NEW v, Link(src, s, r, v),
         NEW ok, NEW d, ok => d \in Ports,
         NEW new, Works(Offered(s), ok, d, r, new)
  PROVE  Advances(src, r, v, RecverEdge(v, new.tvalid, new.out), ok, d)
<1> SUFFICES ASSUME NEW w, w = RecverEdge(v, new.tvalid, new.out), NEW i \in Arrived(w)
             PROVE  \/ i \in Arrived(v) /\ PortAt(w, i) = PortAt(v, i)
                    \/ i \in 1 .. Len(src) /\ ~ IsTranslated(src[i])
                    \/ i = Len(v.packets) + 1 /\ r.hash_stage /\ ok /\ PortAt(w, i) = d
  BY DEF Advances
<1>1. /\ Holding(r) /\ SenderOK(s) /\ RecverOK(v)
      /\ Remaining(src, s, v) /\ Delivered(src, s, v) /\ Reads(s, r)
  BY DEF Link
<1>2. CASE ~ new.tvalid
  BY <1>2 DEF RecverEdge
<1>3. CASE new.tvalid
  <2>1. Passes(Offered(s), r, new) \/ Answers(ok, d, r, new)
    BY <1>1, <1>3 DEF Works, Holds, Waits, Pauses, Reads
  <2>2. s.valid /\ s.packets # << >>
    BY <1>1, <2>1, OfferedBeat DEF Passes, Answers, Reads, SenderOK
  <2>3. SentAs(s, new.out)
    BY <1>1, <2>1, <2>2, LeavesAsSent
  <2>4. \/ i \in Arrived(v) /\ PortAt(w, i) = PortAt(v, i)
        \/ i = Len(v.packets) + 1 /\ Len(v.current) = 4 /\ PortAt(w, i) = new.out.pkt.sport
    BY <1>1, <2>3, ArrivedStep DEF SentAs
  <2>5. ASSUME i = Len(v.packets) + 1, Len(v.current) = 4, PortAt(w, i) = new.out.pkt.sport
        PROVE  \/ i \in 1 .. Len(src) /\ ~ IsTranslated(src[i])
               \/ r.hash_stage /\ ok /\ PortAt(w, i) = d
    <3>1. s.word = 4
      BY <1>1, <2>5 DEF Delivered
    <3>2. /\ s.packets \in Seq(Packets) /\ Len(s.packets) \in Nat /\ Len(v.packets) \in Nat
          /\ Head(s.packets) = s.packets[1] /\ 1 \in 1 .. Len(s.packets)
      BY <1>1, <2>2, FirstAndRest DEF SenderOK, RecverOK
    <3>3. src[i] = Head(s.packets) /\ Len(src) = Len(v.packets) + Len(s.packets)
      BY <1>1, <2>5, <3>2 DEF Remaining
    <3>4. i \in 1 .. Len(src)
      BY <2>5, <3>2, <3>3, Inside
    <3>5. CASE Passes(Offered(s), r, new)
      <4>1. ~ IsTranslated(Head(s.packets))
        BY <1>1, <3>1, <3>5 DEF Passes, MustHold, Reads, IsTranslated, Upto
      <4> QED
        BY <3>3, <3>4, <4>1
    <3>6. CASE Answers(ok, d, r, new)
      <4>1. /\ ~ r.tready /\ ok /\ r.out = Offered(s)
            /\ new.out = [r.out EXCEPT !.pkt = [@ EXCEPT !.sport = d]]
        BY <1>1, <3>6 DEF Answers, Reads
      <4>2. Offered(s) \in Beats /\ Offered(s).pkt \in Packets
        BY <1>1, <2>2, OfferedBeat
      <4>3. [Offered(s).pkt EXCEPT !.sport = d].sport = d
        BY <4>2 DEF Packets
      <4>4. new.out.pkt = [Offered(s).pkt EXCEPT !.sport = d]
        BY <4>1, <4>2 DEF Beats
      <4>5. r.hash_stage
        BY <1>1, <4>1 DEF Holding
      <4> QED
        BY <2>5, <4>1, <4>3, <4>4, <4>5
    <3> QED
      BY <2>1, <3>5, <3>6
  <2> QED
    BY <2>4, <2>5
<1> QED
  BY <1>2, <1>3

\* A binding stays: no edge but reset takes an entry away.
LEMMA BindingsStay ==
  ASSUME IInv, NEW q0, NEW q1, Clock(q0, q1)
  PROVE  \A s \in Used(conn_mem_tx) :
            /\ s \in Used(conn_mem_tx)'
            /\ conn_mem_tx'[s] = conn_mem_tx[s] /\ conn_idx_tx'[s] = conn_idx_tx[s]
<1>1. conn_mem_tx \in [Slots -> Keys \cup {Empty}] /\ conn_idx_tx \in [Slots -> Slots \cup {X}]
  BY DEF IInv, TypeOK, RegistersOK
<1>2. CASE TxInsert
  <2>1. /\ loc_to_probe \in Slots /\ conn_mem_tx[loc_to_probe] = Empty
        /\ conn_mem_tx' = [conn_mem_tx EXCEPT ![loc_to_probe] = key]
        /\ conn_idx_tx' = [conn_idx_tx EXCEPT ![loc_to_probe] = next_conn_idx]
    BY <1>2 DEF TxInsert, IInv, TypeOK, RegistersOK
  <2> QED
    BY <1>1, <2>1 DEF Used
<1>3. CASE RxInsert
  BY <1>3 DEF RxInsert, txTable, Used
<1>4. CASE ~ TxInsert /\ ~ RxInsert
  BY <1>4, QuietSteps DEF Used
<1> QED
  BY <1>2, <1>3, <1>4

LEMMA BoundStays ==
  ASSUME IInv, NEW q0, NEW q1, Clock(q0, q1), NEW t, NEW p, Bound(t, p)
  PROVE  Bound(t, p)'
<1>1. PICK s \in Used(conn_mem_tx) : conn_mem_tx[s] = Outbound(t) /\ conn_idx_tx[s] = p
  BY DEF Bound
<1> QED
  BY <1>1, BindingsStay DEF Bound

\* Every packet that leaves has the port its connection is bound to.
LEMMA TxPortsStep == ASSUME SystemInv, TxPorts, Tick PROVE TxPorts'
<1>1. /\ Clock(Tx!Request, Rx!Request)
      /\ Tx!Edge(Offered(sender), conn_valid_0, conn_data_0)
      /\ ingress' = ingress /\ recver' = RecverEdge(recver, tx'.tvalid, tx'.out)
      /\ IInv /\ Handshake /\ Link(ingress, sender, tx, recver)
  BY DEF Tick, ClockEdge, EndsEdge, SystemInv, Streams
<1>2. Works(Offered(sender), conn_valid_0, conn_data_0, tx, tx')
  BY <1>1, TxWorks DEF Link
<1>3. conn_data_0 \in Ports
  BY <1>1, SlotsArePorts DEF IInv, TypeOK, RegistersOK
<1> SUFFICES ASSUME NEW i \in Arrived(recver'), IsTranslated(ingress[i]),
                    NEW p, p = PortAt(recver', i)
             PROVE  Bound(TupleOf(ingress[i]), p)'
  BY <1>1 DEF TxPorts, TupleOf, IsTranslated
<1>4. \/ i \in Arrived(recver) /\ p = PortAt(recver, i)
      \/ i = Len(recver.packets) + 1 /\ tx.hash_stage /\ conn_valid_0
         /\ p = conn_data_0
  <2>1. Advances(ingress, tx, recver, recver', conn_valid_0, conn_data_0)
    BY <1>1, <1>2, <1>3, PortsStep
  <2> QED
    BY <2>1 DEF Advances
<1>5. Bound(TupleOf(ingress[i]), p)
  <2>1. CASE i \in Arrived(recver) /\ p = PortAt(recver, i)
    BY <2>1 DEF TxPorts
  <2>2. CASE /\ i = Len(recver.packets) + 1 /\ tx.hash_stage /\ conn_valid_0
             /\ p = conn_data_0
    <3>1. Request(tx) = TupleOf(ingress[i])
      BY <1>1, <2>2, HeldRequest
    <3>2. Tx!Request = Request(tx)
      BY <2>2, RequestsAreTuples DEF SystemInv
    <3>3. key = Outbound(Tx!Request)
      BY <1>1, <2>2 DEF Handshake, TxCurrent
    <3>4. \E s \in Used(conn_mem_tx) : conn_mem_tx[s] = key /\ conn_idx_tx[s] = conn_data_0
      BY <1>1, <2>2 DEF IInv, AnswersMatchTables
    <3> QED
      BY <2>2, <3>1, <3>2, <3>3, <3>4 DEF Bound
  <2> QED
    BY <1>4, <2>1, <2>2
<1>6. ASSUME NEW t, Bound(t, p) PROVE Bound(t, p)'
  BY <1>1, <1>6, BoundStays
<1> QED
  BY <1>1, <1>5, <1>6 DEF TupleOf

LEMMA CompleteArrived ==
  ASSUME NEW src, NEW s, NEW r, NEW v, Link(src, s, r, v), NEW i \in 1 .. Len(v.packets)
  PROVE  i \in Arrived(v) /\ PortAt(v, i) = Header(v.packets[i]).sport
<1>1. RecverOK(v) /\ Remaining(src, s, v) /\ Delivered(src, s, v)
  BY DEF Link
<1>2. Len(v.packets[i]) > 6
  BY <1>1, HeaderArrived
<1>3. i \in DOMAIN Stream(v) /\ Stream(v)[i] = v.packets[i] /\ Len(v.packets[i]) \in Nat
  BY <1>1, StreamParts
<1>4. Len(v.packets[i]) > 4
  BY <1>2, <1>3
<1> QED
  BY <1>3, <1>4 DEF Arrived, PortAt, Header

\* The tuple of a reply is the mapping of its connection, turned round.
LEMMA ReplyTuple ==
  ASSUME Streams, NEW i \in 1 .. Len(Echoes)
  PROVE  /\ i \in 1 .. Len(recver.packets) /\ i \in Arrived(recver)
         /\ ingress[i] \in Packets
         /\ IsTranslated(Echoes[i]) <=> IsTranslated(ingress[i])
         /\ IsTranslated(ingress[i]) =>
               Inbound(TupleOf(Echoes[i])) =
                  Translated(Outbound(TupleOf(ingress[i])), PortAt(recver, i))
<1> DEFINE p == ingress[i]
           h == Header(recver.packets[i])
<1>1. Link(ingress, sender, tx, recver) /\ RecverOK(recver)
  BY DEF Streams, Link
<1>2. i \in 1 .. Len(recver.packets) /\ Echoes[i] = Echo(h)
  <2>1. Len(recver.packets) \in Nat
    BY <1>1 DEF RecverOK
  <2> QED
    BY <2>1 DEF Echoes
<1>3. /\ p \in Packets /\ h \in Packets
      /\ h = IF IsTranslated(p) THEN [p EXCEPT !.sport = h.sport] ELSE p
  BY <1>1, <1>2, HeaderArrived DEF Link
<1>4. i \in Arrived(recver) /\ PortAt(recver, i) = h.sport
  BY <1>1, <1>2, CompleteArrived
<1> HIDE DEF p, h
<1>5. h.ether = p.ether /\ h.proto = p.proto
  BY <1>3 DEF Packets
<1>6. Echo(h).ether = h.ether /\ Echo(h).proto = h.proto
  BY <1>3 DEF Echo, Packets
<1>7. IsTranslated(Echo(h)) <=> IsTranslated(p)
  BY <1>5, <1>6 DEF IsTranslated
<1>8. ASSUME IsTranslated(p)
      PROVE  Inbound(TupleOf(Echo(h))) = Translated(Outbound(TupleOf(p)), h.sport)
  <2>1. p.ether # "arp"
    BY <1>8 DEF IsTranslated, Tx!Custom
  <2>2. /\ Echo(h).src = h.dst /\ Echo(h).dst = h.src
        /\ Echo(h).sport = h.dport /\ Echo(h).dport = h.sport
    BY <1>3, <1>5, <2>1 DEF Echo, Packets
  <2>3. h.src = p.src /\ h.dst = p.dst /\ h.dport = p.dport
    BY <1>3 DEF Packets
  <2> QED
    BY <2>2, <2>3 DEF TupleOf, Inbound, Outbound, Translated
<1> QED
  BY <1>2, <1>3, <1>4, <1>7, <1>8 DEF p, h

\* A reply asks for a binding that the table has, that of its own connection.
LEMMA ReplyIsBound ==
  ASSUME SystemInv, TxPorts, rx.hash_stage
  PROVE  LET i == Len(echo_recver.packets) + 1
         IN  \E s \in Used(conn_mem_tx) :
                /\ conn_mem_tx[s] = Outbound(TupleOf(ingress[i]))
                /\ Inbound(Rx!Request) = Translated(conn_mem_tx[s], conn_idx_tx[s])
<1> DEFINE i == Len(echo_recver.packets) + 1
<1>1. Streams /\ Link(Echoes, echo_sender, rx, echo_recver)
  BY DEF SystemInv, Streams
<1>2. /\ i \in 1 .. Len(Echoes) /\ IsTranslated(Echoes[i])
      /\ Request(rx) = TupleOf(Echoes[i])
  BY <1>1, HeldRequest
<1>3. Rx!Request = Request(rx)
  BY <1>1, RequestsAreTuples
<1> HIDE DEF i
<1>4. /\ i \in Arrived(recver) /\ IsTranslated(ingress[i])
      /\ Inbound(TupleOf(Echoes[i])) = Translated(Outbound(TupleOf(ingress[i])), PortAt(recver, i))
  BY <1>1, <1>2, ReplyTuple
<1>5. Bound(TupleOf(ingress[i]), PortAt(recver, i))
  BY <1>4 DEF TxPorts
<1> QED
  BY <1>2, <1>3, <1>4, <1>5 DEF Bound, i

\* Every reply leaves with the port its packet came with.
LEMMA RxPortsStep == ASSUME SystemInv, TxPorts, RxPorts, Tick PROVE RxPorts'
<1>1. /\ Rx!Edge(Offered(echo_sender), conn_valid_1, conn_data_1)
      /\ ingress' = ingress /\ echo_recver' = RecverEdge(echo_recver, rx'.tvalid, rx'.out)
      /\ IInv /\ Handshake /\ Streams /\ Link(Echoes, echo_sender, rx, echo_recver)
  BY DEF Tick, ClockEdge, EndsEdge, SystemInv, Streams
<1>2. Works(Offered(echo_sender), conn_valid_1, conn_data_1, rx, rx')
  BY <1>1, RxWorks DEF Link
<1>3. conn_data_1 \in Ports
  BY <1>1 DEF IInv, TypeOK, RegistersOK
<1>4. Advances(Echoes, rx, echo_recver, echo_recver', conn_valid_1, conn_data_1)
  BY <1>1, <1>2, <1>3, PortsStep
<1> SUFFICES ASSUME NEW i \in Arrived(echo_recver'), IsTranslated(ingress[i])
             PROVE  PortAt(echo_recver', i) = ingress[i].sport
  BY <1>1 DEF RxPorts, IsTranslated
<1>5. CASE i \in Arrived(echo_recver) /\ PortAt(echo_recver', i) = PortAt(echo_recver, i)
  BY <1>5 DEF RxPorts
<1>6. ASSUME i \in 1 .. Len(Echoes), ~ IsTranslated(Echoes[i]) PROVE FALSE
  BY <1>1, <1>6, ReplyTuple
<1>7. CASE /\ i = Len(echo_recver.packets) + 1 /\ rx.hash_stage /\ conn_valid_1
           /\ PortAt(echo_recver', i) = conn_data_1
  <2>1. PICK s \in Used(conn_mem_tx) :
              /\ conn_mem_tx[s] = Outbound(TupleOf(ingress[i]))
              /\ Inbound(Rx!Request) = Translated(conn_mem_tx[s], conn_idx_tx[s])
    BY <1>7, ReplyIsBound
  <2>2. key = Inbound(Rx!Request)
    BY <1>1, <1>7 DEF Handshake, RxCurrent
  <2>3. PICK t \in Used(conn_mem_tx) :
              /\ Translated(conn_mem_tx[t], conn_idx_tx[t]) = key
              /\ conn_mem_tx[t].iport = conn_data_1
    BY <1>1, <1>7 DEF IInv, AnswersMatchTables
  <2>4. conn_mem_tx[s] \in Keys /\ conn_mem_tx[t] \in Keys
    BY <1>1 DEF IInv, TypeOK, RegistersOK, Used
  <2>5. conn_idx_tx[s] = conn_idx_tx[t]
    BY <2>1, <2>2, <2>3, <2>4 DEF Translated, Keys
  <2>6. s = t
    BY <1>1, <2>5 DEF IInv, UniquePorts
  <2> QED
    BY <1>7, <2>1, <2>3, <2>6 DEF Outbound, TupleOf
<1> QED
  BY <1>4, <1>5, <1>6, <1>7 DEF Advances

LEMMA SameSize ==
  ASSUME NEW S, NEW T, IsFiniteSet(S), NEW f \in [S -> T],
         \A x, y \in S : f[x] = f[y] => x = y,
         \A y \in T : \E x \in S : f[x] = y
  PROVE  IsFiniteSet(T) /\ Cardinality(T) = Cardinality(S)
<1>1. f \in Bijection(S, T)
  BY DEF Bijection, Injection, Surjection, IsInjective
<1>2. ExistsBijection(S, T)
  BY <1>1 DEF ExistsBijection
<1> QED
  BY <1>2, FS_Bijection

LEMMA OutboundIsOneToOne ==
  /\ \A t, u \in Tuples : Outbound(t) = Outbound(u) => t = u
  /\ \A p \in Packets : TupleOf(p) \in Tuples
  BY DEF Tuples, Outbound, Packets, TupleOf

\* The connections that the table has, but for the one of the packet under way, are
\* those of the packets that left.
LEMMA BoundConns ==
  ASSUME SystemInv, TxPorts, Ranked,
         \A s \in Used(conn_mem_tx) :
            conn_mem_tx[s] # Outbound(TupleOf(ingress[Len(recver.packets) + 1]))
  PROVE  Cardinality(Conns(Len(recver.packets))) = Cardinality(Used(conn_mem_tx))
<1> DEFINE n == Len(recver.packets)
           U == Used(conn_mem_tx)
           C == Conns(n)
<1>1. /\ Link(ingress, sender, tx, recver) /\ n \in Nat
      /\ ingress \in Seq(Packets) /\ \A j \in 1 .. n : j \in 1 .. Len(ingress)
  <2>1. /\ Link(ingress, sender, tx, recver) /\ n \in Nat /\ Len(sender.packets) \in Nat
        /\ ingress \in Seq(Packets) /\ Len(ingress) = n + Len(sender.packets)
    BY DEF SystemInv, Streams, Link, RecverOK, SenderOK, Remaining
  <2> QED
    BY <2>1, Inside
<1>2. IsFiniteSet(U)
  BY UsedFinite DEF Used
<1>3. \A t \in C : t \in Tuples
  <2>1. \A j \in 1 .. n : TupleOf(ingress[j]) \in Tuples
    BY <1>1, OutboundIsOneToOne
  <2> QED
    BY <2>1 DEF Conns
<1>4. \A s \in U : \E t \in C : conn_mem_tx[s] = Outbound(t)
  <2> SUFFICES ASSUME NEW s \in U PROVE \E t \in C : conn_mem_tx[s] = Outbound(t)
    OBVIOUS
  <2>1. PICK j \in 1 .. n + 1 : StartedBy(s, j)
    BY DEF Ranked
  <2>2. j \in 1 .. n
    <3>1. j # n + 1
      BY <2>1 DEF StartedBy
    <3> QED
      BY <1>1, <3>1, Split
  <2> QED
    BY <2>1, <2>2 DEF StartedBy, Conns
<1>5. \A t \in C : \E s \in U : conn_mem_tx[s] = Outbound(t)
  <2> SUFFICES ASSUME NEW j \in 1 .. n, IsTranslated(ingress[j])
               PROVE  \E s \in U : conn_mem_tx[s] = Outbound(TupleOf(ingress[j]))
    BY DEF Conns
  <2>1. j \in Arrived(recver)
    BY <1>1, CompleteArrived
  <2> QED
    BY <2>1 DEF TxPorts, Bound
<1>6. \A s, u \in U : conn_mem_tx[s] = conn_mem_tx[u] => s = u
  BY DEF SystemInv, IInv, UniqueKeys, Distinct
<1> HIDE DEF U, C, n
<1> DEFINE f == [s \in U |-> CHOOSE t \in C : conn_mem_tx[s] = Outbound(t)]
<1>7. \A s \in U : f[s] \in C /\ conn_mem_tx[s] = Outbound(f[s])
  BY <1>4
<1> HIDE DEF f
<1>8. f \in [U -> C]
  BY <1>7 DEF f
<1>9. \A s, u \in U : f[s] = f[u] => s = u
  BY <1>6, <1>7
<1>10. \A t \in C : \E s \in U : f[s] = t
  BY <1>3, <1>5, <1>7, OutboundIsOneToOne
<1>11. Cardinality(C) = Cardinality(U)
  BY <1>2, <1>8, <1>9, <1>10, SameSize
<1> QED
  BY <1>11 DEF C, U, n

\* A new entry gets the number of the connections before it as its port.
LEMMA RankedStep == ASSUME SystemInv, TxPorts, Ranked, Tick PROVE Ranked'
<1> DEFINE n == Len(recver.packets)
           m == Len(recver'.packets)
<1>1. /\ Clock(Tx!Request, Rx!Request) /\ ingress' = ingress
      /\ IInv /\ Handshake /\ Streams /\ Link(ingress, sender, tx, recver)
  BY DEF Tick, ClockEdge, SystemInv, Streams
<1>2. n \in Nat /\ m \in Nat /\ \A j \in 1 .. n + 1 : j \in 1 .. m + 1
  <2>1. Link(ingress', sender', tx', recver')
    BY StreamsStep DEF Streams
  <2>2. recver.packets \in Seq(Seq(Beats)) /\ recver'.packets \in Seq(Seq(Beats))
    BY <1>1, <2>1 DEF Link, RecverOK
  <2>3. m = n \/ m = n + 1
    <3> DEFINE new == Append(recver.current, tx'.out)
               T == Seq(Beats) \cup {new}
    <3>1. recver' = RecverEdge(recver, tx'.tvalid, tx'.out)
      BY DEF Tick, EndsEdge
    <3>2. recver'.packets = recver.packets \/ recver'.packets = Append(recver.packets, new)
      BY <1>1, <3>1 DEF RecverEdge, Link, RecverOK
    <3> HIDE DEF new
    <3>3. Len(Append(recver.packets, new)) = n + 1
      BY <2>2
    <3> QED
      BY <3>2, <3>3
  <2> QED
    BY <2>2, <2>3
<1>3. \A j : Conns(j - 1)' = Conns(j - 1)
  BY <1>1 DEF Conns, IsTranslated, TupleOf
<1>4. ASSUME NEW s \in Used(conn_mem_tx) PROVE \E j \in 1 .. m + 1 : (j <= Len(ingress) /\ StartedBy(s, j))'
  <2>1. PICK j \in 1 .. n + 1 : j <= Len(ingress) /\ StartedBy(s, j)
    BY DEF Ranked
  <2>2. conn_mem_tx'[s] = conn_mem_tx[s] /\ conn_idx_tx'[s] = conn_idx_tx[s]
    BY <1>1, BindingsStay
  <2>3. (j <= Len(ingress) /\ StartedBy(s, j))'
    BY <1>1, <1>3, <2>1, <2>2 DEF StartedBy, IsTranslated, TupleOf
  <2> QED
    BY <1>2, <2>1, <2>3
<1>5. CASE ~ TxInsert
  <2>1. conn_mem_tx' = conn_mem_tx
    BY <1>1, <1>5, QuietSteps DEF RxInsert, txTable
  <2> QED
    BY <1>1, <1>4, <2>1 DEF Ranked, Used
<1>6. CASE TxInsert
  <2>0. PICK l \in Slots, k \in Nat : l = loc_to_probe /\ k = n + 1
    BY <1>1, <1>2 DEF IInv, TypeOK, RegistersOK
  <2>1. /\ stage = 1 /\ key \in Keys /\ conn_mem_tx[l] = Empty
        /\ conn_mem_tx \in [Slots -> Keys \cup {Empty}]
        /\ conn_mem_tx' = [conn_mem_tx EXCEPT ![l] = key]
        /\ conn_idx_tx' = [conn_idx_tx EXCEPT ![l] = next_conn_idx]
        /\ conn_idx_tx \in [Slots -> Slots \cup {X}]
    BY <1>1, <1>6, <2>0 DEF TxInsert, IInv, TypeOK, RegistersOK
  <2>2. /\ k \in 1 .. Len(ingress) /\ IsTranslated(ingress[k]) /\ ingress[k] \in Packets
        /\ key = Outbound(TupleOf(ingress[k]))
    <3>1. tx.hash_stage /\ key = Outbound(Tx!Request)
      BY <1>1, <2>1 DEF Handshake, TxCurrent
    <3>2. Tx!Request = Request(tx)
      BY <1>1, <3>1, RequestsAreTuples
    <3> QED
      BY <1>1, <2>0, <3>1, <3>2, HeldRequest
  <2>3. \A s \in Used(conn_mem_tx) : conn_mem_tx[s] # key
    BY <1>1, <2>0, <2>1, FreshKey DEF IInv, NoHoles, Frontier
  <2>4. Cardinality(Conns(n)) = Cardinality(Used(conn_mem_tx))
    BY <2>0, <2>2, <2>3, BoundConns
  <2>5. next_conn_idx = Cardinality(Used(conn_mem_tx))
    BY <1>1, <2>1 DEF IInv, IndexCount, Used
  <2>6. TupleOf(ingress[k]) \notin Conns(n)
    <3> SUFFICES ASSUME NEW j \in 1 .. n, IsTranslated(ingress[j]),
                        TupleOf(ingress[j]) = TupleOf(ingress[k])
                 PROVE  FALSE
      BY DEF Conns
    <3>1. j \in Arrived(recver)
      BY <1>1, CompleteArrived
    <3> QED
      BY <2>2, <2>3, <3>1 DEF TxPorts, Bound
  <2>7. k - 1 = n /\ k \in 1 .. n + 1
    BY <1>2, <2>0
  <2>8. conn_mem_tx'[l] = key /\ conn_idx_tx'[l] = next_conn_idx
    BY <2>1
  <2> HIDE DEF n
  <2>9. Used(conn_mem_tx)' = Used(conn_mem_tx) \cup {l}
    BY <2>1, UsedInsert
  <2>10. (k <= Len(ingress) /\ StartedBy(l, k))'
    <3>1. k <= Len(ingress)
      BY <2>2
    <3> QED
      BY <1>1, <1>3, <2>2, <2>4, <2>5, <2>6, <2>7, <2>8, <3>1 DEF StartedBy, IsTranslated, TupleOf
  <2> QED
    BY <1>2, <1>4, <2>7, <2>9, <2>10 DEF Ranked, n
<1> QED
  BY <1>5, <1>6

\* The invariant of the closed system with what the ends of the streams saw.
ClosedInv == SystemInv /\ PortsInv

LEMMA ClosedInvInit == ASSUME SystemInit PROVE ClosedInv
<1>1. ASSUME NEW v, v = RecverInit PROVE Arrived(v) = {}
  <2>1. RecverOK(v) /\ Len(v.packets) = 0 /\ Len(v.current) = 0
    BY <1>1 DEF RecverInit, RecverOK
  <2>2. DOMAIN Stream(v) = 1 .. 0 + 1 /\ Stream(v)[0 + 1] = v.current
    BY <2>1, StreamParts
  <2>3. \A i \in 1 .. 0 + 1 : i = 0 + 1
    OBVIOUS
  <2> QED
    BY <2>1, <2>2, <2>3 DEF Arrived
<1>2. Arrived(recver) = {} /\ Arrived(echo_recver) = {}
  BY <1>1 DEF SystemInit
<1>3. Used(conn_mem_tx) = {}
  BY UsedReset DEF SystemInit, TableInit
<1> QED
  BY <1>2, <1>3, SystemInvInit DEF ClosedInv, PortsInv, TxPorts, RxPorts, Ranked

LEMMA ClosedInvStep == ASSUME ClosedInv, [Tick]_systemVars PROVE ClosedInv'
<1>1. SystemInv'
  BY SystemInvStep DEF ClosedInv
<1>2. CASE UNCHANGED systemVars
  <2>1. UNCHANGED <<conn_mem_tx, conn_idx_tx, ingress, recver, echo_recver>>
    BY <1>2 DEF systemVars, ends, tableVars, txTable
  <2>2. TxPorts' /\ RxPorts'
    BY <2>1 DEF ClosedInv, PortsInv, TxPorts, RxPorts, Bound, Used
  <2>3. \A s, j : StartedBy(s, j) => StartedBy(s, j)'
    BY <2>1 DEF StartedBy, Conns
  <2>4. Ranked'
    BY <2>1, <2>3 DEF ClosedInv, PortsInv, Ranked, Used
  <2> QED
    BY <1>1, <2>2, <2>4 DEF ClosedInv, PortsInv
<1>3. CASE Tick
  BY <1>1, <1>3, TxPortsStep, RxPortsStep, RankedStep DEF ClosedInv, PortsInv
<1> QED
  BY <1>2, <1>3

THEOREM ClosedInductive == SystemSpec => []ClosedInv
  BY ClosedInvInit, ClosedInvStep, PTL DEF SystemSpec

\* No reply is looked up before the reverse entry of its connection is written,
\* although the packet leaves before that: the search of hash_ip.v:139-147 that
\* never ends is not entered, for all packets, pauses and tables.
THEOREM RepliesFindTheirEntry == SystemSpec => []RepliesAreKnown
<1>1. ClosedInv => RepliesAreKnown
  <2> SUFFICES ASSUME ClosedInv, stage = 3 PROVE \E r \in Slots : conn_mem_rx[r] = key
    BY DEF RepliesAreKnown
  <2>1. rx.hash_stage /\ key = Inbound(Rx!Request)
    BY DEF ClosedInv, SystemInv, Handshake, RxCurrent
  <2>2. PICK s \in Used(conn_mem_tx) :
              Inbound(Rx!Request) = Translated(conn_mem_tx[s], conn_idx_tx[s])
    BY <2>1, ReplyIsBound DEF ClosedInv, PortsInv
  <2>3. PICK r \in Used(conn_mem_rx) : Twins(s, r)
    BY DEF ClosedInv, SystemInv, IInv, TablesMirror
  <2> QED
    BY <2>1, <2>2, <2>3 DEF Twins, Used
<1> QED
  BY <1>1, ClosedInductive, PTL

\* The reply to a translated packet arrives with the port the packet came with
\* (3ip_testbench.cpp:510-511), for all packets, pauses and tables.
THEOREM EchoesHaveTheirPort == SystemSpec => []EchoRestoresPort
<1>1. ClosedInv => EchoRestoresPort
  <2> SUFFICES ASSUME ClosedInv, NEW i \in DOMAIN echo_recver.packets, IsTranslated(ingress[i])
               PROVE  Header(echo_recver.packets[i]).sport = ingress[i].sport
    BY DEF EchoRestoresPort
  <2>1. Link(Echoes, echo_sender, rx, echo_recver)
    BY DEF ClosedInv, SystemInv, Streams
  <2>2. i \in 1 .. Len(echo_recver.packets)
    BY <2>1 DEF Link, RecverOK
  <2>3. i \in Arrived(echo_recver) /\ PortAt(echo_recver, i) = Header(echo_recver.packets[i]).sport
    BY <2>1, <2>2, CompleteArrived
  <2> QED
    BY <2>3 DEF ClosedInv, PortsInv, RxPorts
<1> QED
  BY <1>1, ClosedInductive, PTL

LEMMA Within == \A n, m \in Nat : \A k \in 1 .. n + 1 : k <= m => k \in 1 .. m
  OBVIOUS

\* What a packet leaves with: the number of connections before its own.
LEMMA PortIsRank ==
  ASSUME ClosedInv, NEW i \in 1 .. Len(recver.packets), IsTranslated(ingress[i])
  PROVE  \E f \in 1 .. Len(ingress) :
            /\ IsTranslated(ingress[f]) /\ TupleOf(ingress[f]) = TupleOf(ingress[i])
            /\ TupleOf(ingress[f]) \notin Conns(f - 1)
            /\ Header(recver.packets[i]).sport = Cardinality(Conns(f - 1))
<1>1. Link(ingress, sender, tx, recver) /\ SystemInv /\ PortsInv
  BY DEF ClosedInv, SystemInv, Streams
<1>2. /\ ingress \in Seq(Packets) /\ Len(recver.packets) \in Nat /\ Len(sender.packets) \in Nat
      /\ Len(ingress) = Len(recver.packets) + Len(sender.packets)
  BY <1>1 DEF Link, RecverOK, SenderOK, Remaining
<1>3. i \in Arrived(recver) /\ PortAt(recver, i) = Header(recver.packets[i]).sport
  BY <1>1, CompleteArrived
<1>4. PICK s \in Used(conn_mem_tx) :
            /\ conn_mem_tx[s] = Outbound(TupleOf(ingress[i]))
            /\ conn_idx_tx[s] = Header(recver.packets[i]).sport
  BY <1>1, <1>3 DEF PortsInv, TxPorts, Bound
<1>5. PICK f \in 1 .. Len(recver.packets) + 1 : f <= Len(ingress) /\ StartedBy(s, f)
  BY <1>1 DEF PortsInv, Ranked
<1>6. f \in 1 .. Len(ingress) /\ i \in 1 .. Len(ingress)
  <2>1. i \in 1 .. Len(ingress)
    BY <1>2, Inside
  <2>2. Len(ingress) \in Nat
    <3>1. ingress \in Seq(Packets)
      BY <1>2
    <3> QED
      BY <3>1
  <2> QED
    BY <1>2, <1>5, <2>1, <2>2, Within
<1>7. TupleOf(ingress[f]) \in Tuples /\ TupleOf(ingress[i]) \in Tuples
  <2>1. \A k \in 1 .. Len(ingress) : ingress[k] \in Packets
    <3>1. ingress \in Seq(Packets)
      BY <1>2
    <3> QED
      BY <3>1
  <2> QED
    BY <1>6, <2>1, OutboundIsOneToOne
<1>8. TupleOf(ingress[f]) = TupleOf(ingress[i])
  BY <1>4, <1>5, <1>7, OutboundIsOneToOne DEF StartedBy
<1> QED
  BY <1>4, <1>5, <1>6, <1>8 DEF StartedBy

\* Which is the number NatPort that the property names.
LEMMA NatPortIsRank ==
  ASSUME NEW i, NEW f \in 1 .. Len(ingress), ingress \in Seq(Packets),
         IsTranslated(ingress[f]), TupleOf(ingress[f]) = TupleOf(ingress[i]),
         TupleOf(ingress[f]) \notin Conns(f - 1)
  PROVE  NatPort(i) = Cardinality(Conns(f - 1))
<1> DEFINE Tuple(j) == TupleOf(ingress[j])
           Picked   == {j \in DOMAIN ingress : IsTranslated(ingress[j])}
           Own      == {j \in Picked : Tuple(j) = Tuple(i)}
<1>1. DOMAIN ingress = 1 .. Len(ingress) /\ Len(ingress) \in Nat /\ f \in Nat
  OBVIOUS
<1>2. f \in Own /\ Own \subseteq Nat
  BY <1>1
<1>3. \A j \in Own : f <= j
  <2> SUFFICES ASSUME NEW j \in Own, j < f PROVE FALSE
    BY <1>1, <1>2
  <2>1. j \in 1 .. f - 1
    BY <1>1
  <2> QED
    BY <2>1 DEF Conns
<1>4. Min(Own) = f
  <2>1. Min(Own) \in Own /\ \A j \in Own : Min(Own) <= j
    BY <1>2, <1>3 DEF Min
  <2>2. \A a, b \in Nat : a <= b /\ b <= a => a = b
    OBVIOUS
  <2> HIDE DEF Own
  <2> QED
    BY <1>2, <1>3, <2>1, <2>2
<1>5. {n \in Picked : n < f} = {k \in 1 .. f - 1 : IsTranslated(ingress[k])}
  BY <1>1
<1>6. {Tuple(j) : j \in {n \in Picked : n < f}} = Conns(f - 1)
  BY <1>5 DEF Conns
<1>7. NatPort(i) = Cardinality({Tuple(j) : j \in {n \in Picked : n < Min(Own)}})
  BY DEF NatPort
<1> QED
  BY <1>4, <1>6, <1>7

\* All packets of a connection leave with one port, the number of connections that
\* came before it (3ip_testbench.cpp:442-466), whatever is between them and
\* whatever the pauses, the answers of the table and its hash function.
LEMMA PortsAreNumbers == ASSUME ClosedInv PROVE SameTupleSamePort
<1> SUFFICES ASSUME NEW i \in DOMAIN recver.packets, IsTranslated(ingress[i])
             PROVE  Header(recver.packets[i]).sport = NatPort(i)
  BY DEF SameTupleSamePort
<1>1. ingress \in Seq(Packets) /\ i \in 1 .. Len(recver.packets)
  BY DEF ClosedInv, SystemInv, Streams, Link, Remaining, RecverOK
<1> QED
  BY <1>1, PortIsRank, NatPortIsRank

THEOREM OnePortPerConnection == SystemSpec => []SameTupleSamePort
  BY PortsAreNumbers, ClosedInductive, PTL

-----------------------------------------------------------------------------
(***************************************************************************)
(* The verdict of the test.                                                *)
(***************************************************************************)
LEMMA CheckCounts == \A S : Check!Cardinality(S) = Cardinality(S)
  BY DEF Check!Cardinality, Cardinality

LEMMA BeatsOfPacket ==
  ASSUME NEW p \in Packets
  PROVE  /\ p.len \in Nat /\ p.len > 6
         /\ DOMAIN BeatsOf(p) = 1 .. p.len /\ Len(BeatsOf(p)) = p.len
         /\ Header(BeatsOf(p)) = p
<1>1. p.len \in Nat /\ p.len > 6
  BY PacketLength
<1> DEFINE n == p.len
<1> HIDE DEF n
<1>2. n \in Nat /\ n > 6 /\ 5 \in 1 .. n
  BY <1>1 DEF n
<1>3. /\ DOMAIN BeatsOf(p) = 1 .. n
      /\ \A k \in 1 .. n : BeatsOf(p)[k] = [pkt |-> p, word |-> k - 1, last |-> k = n]
  BY DEF BeatsOf, n
<1>4. Len(BeatsOf(p)) = n
  BY <1>2, <1>3
<1>5. BeatsOf(p)[5].pkt = p
  BY <1>2, <1>3
<1>6. Len(BeatsOf(p)) > 4
  BY <1>2, <1>4
<1> QED
  BY <1>1, <1>3, <1>4, <1>5, <1>6 DEF Header, n

\* A packet that came through, out or back, is unharmed.
LEMMA CarriedIsUnharmed ==
  ASSUME NEW p \in Packets, NEW q \in Packets,
         q.id = p.id, q.len = p.len, q.ether = p.ether, p.ether = "arp" => q = p,
         NEW beats \in Seq(Beats), Len(beats) = q.len, Carries(beats, q)
  PROVE  Check!Unharmed(BeatsOf(p), beats)
<1> DEFINE n == p.len
<1>1. n \in Nat /\ DOMAIN BeatsOf(p) = 1 .. n /\ Len(BeatsOf(p)) = n /\ Header(BeatsOf(p)) = p
  BY BeatsOfPacket
<1>2. DOMAIN beats = 1 .. n /\ \A k \in 1 .. n : beats[k] \in Beats
  <2>1. DOMAIN beats = 1 .. Len(beats) /\ \A k \in 1 .. Len(beats) : beats[k] \in Beats
    OBVIOUS
  <2> QED
    BY <2>1
<1>3. \A k \in 1 .. n : BeatsOf(p)[k] = [pkt |-> p, word |-> k - 1, last |-> k = n]
  BY DEF BeatsOf
<1>4. \A k \in 1 .. n :
         /\ beats[k].word = k - 1 /\ beats[k].last = (k = n)
         /\ beats[k].pkt = IF k = 5 /\ IsTranslated(q) THEN [q EXCEPT !.sport = beats[k].pkt.sport]
                                                      ELSE q
  BY <1>2 DEF Carries
<1> HIDE DEF n
<1>5. ASSUME p.ether = "arp" PROVE BeatsOf(p) = beats
  <2>1. ~ IsTranslated(q) /\ q = p
    BY <1>5 DEF IsTranslated, Tx!Custom
  <2>2. ASSUME NEW k \in 1 .. n PROVE BeatsOf(p)[k] = beats[k]
    <3>1. beats[k] \in [pkt : Packets, word : Nat, last : BOOLEAN]
      BY <1>2 DEF Beats
    <3>2. beats[k].pkt = p /\ beats[k].word = k - 1 /\ beats[k].last = (k = n)
      BY <1>4, <2>1
    <3>3. beats[k] = [pkt |-> p, word |-> k - 1, last |-> k = n]
      BY <3>1, <3>2
    <3> QED
      BY <1>3, <3>3
  <2>3. BeatsOf(p) = [k \in 1 .. n |-> BeatsOf(p)[k]]
    BY <1>1 DEF BeatsOf
  <2>4. beats = [k \in 1 .. n |-> beats[k]]
    BY <1>2
  <2> QED
    BY <2>2, <2>3, <2>4
<1>6. PayloadOf(BeatsOf(p)) = PayloadOf(beats)
  <2>1. Len(beats) = n
    BY DEF n
  <2>2. ASSUME NEW k \in 7 .. n
        PROVE  /\ BeatsOf(p)[k].pkt.id = beats[k].pkt.id
               /\ BeatsOf(p)[k].word = beats[k].word
    <3>1. k \in 1 .. n /\ k # 5
      BY <1>1
    <3>2. BeatsOf(p)[k].pkt = p /\ BeatsOf(p)[k].word = k - 1
      <4>1. BeatsOf(p)[k] = [pkt |-> p, word |-> k - 1, last |-> k = n]
        BY <1>3, <3>1
      <4> QED
        BY <4>1
    <3>3. beats[k].pkt = q /\ beats[k].word = k - 1
      BY <1>4, <3>1
    <3> QED
      BY <3>2, <3>3
  <2> QED
    BY <1>1, <2>1, <2>2 DEF PayloadOf
<1>7. IsArp(BeatsOf(p)) <=> p.ether = "arp"
  BY <1>1 DEF IsArp
<1>8. Len(BeatsOf(p)) = Len(beats)
  BY <1>1 DEF n
<1> QED
  BY <1>5, <1>6, <1>7, <1>8 DEF Check!Unharmed

\* The 5-tuple of the test is the tuple of the rewriter with the protocol.
FieldNames == {"src", "sport", "dst", "dport", "proto"}
Tuple5(t)  == [f \in FieldNames |-> IF f = "proto" THEN Tx!TCP ELSE t[f]]

LEMMA TupleInTest ==
  /\ \A t, u \in Tuples : Tuple5(t) = Tuple5(u) => t = u
  /\ \A beats : IsTranslated(Header(beats)) =>
         Tuple5Of(beats) = Tuple5(TupleOf(Header(beats)))
  /\ \A beats : PortOf(Tuple5Of(beats)) = Header(beats).sport
<1>1. ASSUME NEW t \in Tuples, NEW u \in Tuples, Tuple5(t) = Tuple5(u) PROVE t = u
  <2>1. \A f \in {"src", "sport", "dst", "dport"} : Tuple5(t)[f] = t[f] /\ Tuple5(u)[f] = u[f]
    BY DEF Tuple5, FieldNames
  <2>2. t.src = u.src /\ t.sport = u.sport /\ t.dst = u.dst /\ t.dport = u.dport
    BY <1>1, <2>1
  <2> QED
    BY <2>2 DEF Tuples
<1>2. ASSUME NEW beats, IsTranslated(Header(beats))
      PROVE  Tuple5Of(beats) = Tuple5(TupleOf(Header(beats)))
  <2> DEFINE h == Header(beats)
  <2>1. h.proto = Tx!TCP
    BY <1>2 DEF IsTranslated
  <2> HIDE DEF h
  <2>2. \A f \in FieldNames : h[f] = IF f = "proto" THEN Tx!TCP ELSE TupleOf(h)[f]
    BY <2>1 DEF FieldNames, TupleOf
  <2> QED
    BY <2>2 DEF Tuple5Of, Tuple5, FieldNames, h
<1>3. ASSUME NEW beats PROVE PortOf(Tuple5Of(beats)) = Header(beats).sport
  BY DEF PortOf, Tuple5Of
<1> QED
  BY <1>1, <1>2, <1>3

LEMMA ConnsAreFinite == ASSUME NEW n \in Nat PROVE IsFiniteSet(Conns(n))
<1> DEFINE J == {k \in 1 .. n : IsTranslated(ingress[k])}
           f == [j \in J |-> TupleOf(ingress[j])]
<1>1. IsFiniteSet(1 .. n)
  BY FS_Interval
<1>2. IsFiniteSet(J)
  BY <1>1, FS_Subset
<1>3. f \in Surjection(J, Conns(n))
  BY DEF Conns, Surjection
<1> QED
  BY <1>2, <1>3, FS_Surjection

LEMMA SentPacket ==
  ASSUME ingress \in Seq(Packets), NEW i \in 1 .. Len(ingress)
  PROVE  /\ ingress[i] \in Packets /\ Sent[i] = BeatsOf(ingress[i])
         /\ Header(Sent[i]) = ingress[i] /\ Len(Sent[i]) = ingress[i].len
         /\ IsArp(Sent[i]) <=> ingress[i].ether = "arp"
         /\ \A f \in FieldNames : Tuple5Of(Sent[i])[f] = ingress[i][f]
         /\ IsTranslated(ingress[i]) =>
               /\ ~ IsArp(Sent[i])
               /\ Tuple5Of(Sent[i]) = Tuple5(TupleOf(ingress[i]))
<1>1. i \in DOMAIN ingress /\ ingress[i] \in Packets
  OBVIOUS
<1>2. Sent[i] = BeatsOf(ingress[i])
  BY <1>1 DEF Sent
<1>3. Header(Sent[i]) = ingress[i] /\ Len(Sent[i]) = ingress[i].len
  BY <1>1, <1>2, BeatsOfPacket
<1>4. IsArp(Sent[i]) <=> ingress[i].ether = "arp"
  BY <1>3 DEF IsArp
<1>5. IsTranslated(ingress[i]) => ~ IsArp(Sent[i])
  BY <1>4 DEF IsTranslated, Tx!Custom
<1>6. IsTranslated(ingress[i]) => Tuple5Of(Sent[i]) = Tuple5(TupleOf(ingress[i]))
  <2> DEFINE b == Sent[i]
  <2>1. Header(b) = ingress[i]
    BY <1>3
  <2> HIDE DEF b
  <2>2. IsTranslated(ingress[i]) => Tuple5Of(b) = Tuple5(TupleOf(ingress[i]))
    BY <2>1, TupleInTest
  <2> QED
    BY <2>2 DEF b
<1>7. \A f \in FieldNames : Tuple5Of(Sent[i])[f] = ingress[i][f]
  <2> DEFINE b == Sent[i]
  <2>1. Header(b) = ingress[i]
    BY <1>3
  <2> HIDE DEF b
  <2>2. \A f \in FieldNames : Tuple5Of(b)[f] = ingress[i][f]
    BY <2>1 DEF Tuple5Of, FieldNames
  <2> QED
    BY <2>2 DEF b
<1> QED
  BY <1>1, <1>2, <1>3, <1>4, <1>5, <1>6, <1>7

\* The two lists stay in step: what came through is what was sent there, ...
LEMMA OutOfIngress ==
  ASSUME ClosedInv
  PROVE  /\ Link(ingress, sender, tx, recver) /\ RecverOK(recver)
         /\ Remaining(ingress, sender, recver) /\ Delivered(ingress, sender, recver)
         /\ ingress \in Seq(Packets)
         /\ \A k \in 1 .. Len(recver.packets) : k \in 1 .. Len(ingress)
<1>1. /\ Link(ingress, sender, tx, recver) /\ RecverOK(recver) /\ Remaining(ingress, sender, recver)
      /\ Delivered(ingress, sender, recver) /\ ingress \in Seq(Packets)
  BY DEF ClosedInv, SystemInv, Streams, Link, Remaining
<1>2. /\ Len(recver.packets) \in Nat /\ Len(sender.packets) \in Nat
      /\ Len(ingress) = Len(recver.packets) + Len(sender.packets)
  BY <1>1 DEF RecverOK, Remaining, Link, SenderOK
<1> QED
  BY <1>1, <1>2, Inside

\* ... unharmed, ...
LEMMA OutUnharmed ==
  ASSUME ClosedInv, NEW i \in 1 .. Len(recver.packets)
  PROVE  Check!Unharmed(Sent[i], recver.packets[i])
<1>1. i \in 1 .. Len(ingress) /\ ingress[i] \in Packets /\ Sent[i] = BeatsOf(ingress[i])
  BY OutOfIngress, SentPacket
<1>2. recver.packets[i] \in Seq(Beats)
  BY OutOfIngress, StreamParts
<1>3. Len(recver.packets[i]) = ingress[i].len /\ Carries(recver.packets[i], ingress[i])
  BY OutOfIngress DEF Delivered
<1>4. Check!Unharmed(BeatsOf(ingress[i]), recver.packets[i])
  BY <1>1, <1>2, <1>3, CarriedIsUnharmed
<1> QED
  BY <1>1, <1>4

\* ... and nothing of its 5-tuple is new but the port, which is PortOut.
LEMMA OutTuple ==
  ASSUME ClosedInv, NEW i \in 1 .. Len(recver.packets)
  PROVE  /\ PortOf(Tuple5Of(recver.packets[i])) = PortOut(i)
         /\ Tuple5Of(recver.packets[i]) =
               [f \in FieldNames |-> IF f = "sport" THEN PortOut(i) ELSE Tuple5Of(Sent[i])[f]]
<1> DEFINE b == recver.packets[i]
           h == Header(b)
           p == ingress[i]
<1>1. p \in Packets /\ \A f \in FieldNames : Tuple5Of(Sent[i])[f] = p[f]
  BY OutOfIngress, SentPacket
<1>2. h = IF IsTranslated(p) THEN [p EXCEPT !.sport = h.sport] ELSE p
  BY OutOfIngress, HeaderArrived
<1>3. IsTranslated(p) => h.sport = NatPort(i)
  BY PortsAreNumbers, OutOfIngress DEF SameTupleSamePort, RecverOK
<1> HIDE DEF b, h, p
<1>4. h.src = p.src /\ h.dst = p.dst /\ h.dport = p.dport /\ h.proto = p.proto
  BY <1>1, <1>2 DEF Packets
<1>5. h.sport = PortOut(i)
  BY <1>2, <1>3 DEF PortOut, p
<1>6. Tuple5Of(b) = [f \in FieldNames |-> h[f]]
  BY DEF Tuple5Of, FieldNames, h
<1>7. \A f \in FieldNames : h[f] = IF f = "sport" THEN PortOut(i) ELSE p[f]
  BY <1>4, <1>5 DEF FieldNames
<1>8. PortOf(Tuple5Of(b)) = PortOut(i)
  BY <1>5, <1>6 DEF PortOf, FieldNames
<1>9. Tuple5Of(b) = [f \in FieldNames |-> IF f = "sport" THEN PortOut(i) ELSE Tuple5Of(Sent[i])[f]]
  BY <1>1, <1>6, <1>7
<1> QED
  BY <1>8, <1>9 DEF b

\* What comes back is unharmed too, and has its port again if it was translated: the
\* reply to another packet has the ports exchanged.
LEMMA BackIsReturned ==
  ASSUME ClosedInv, NEW i \in 1 .. Len(echo_recver.packets)
  PROVE  /\ i \in 1 .. Len(ingress)
         /\ Check!Returned(Sent[i], echo_recver.packets[i])
               <=> ingress[i].ether = "arp" \/ PortBack(i) = ingress[i].sport
<1> DEFINE p == ingress[i]
           h == Header(recver.packets[i])
           beats == echo_recver.packets[i]
<1>1. /\ Link(Echoes, echo_sender, rx, echo_recver)
      /\ RecverOK(echo_recver) /\ Remaining(Echoes, echo_sender, echo_recver)
      /\ Delivered(Echoes, echo_sender, echo_recver)
      /\ Streams /\ RxPorts
  BY DEF ClosedInv, SystemInv, PortsInv, Streams, Link
<1>2. i \in 1 .. Len(Echoes)
  <2>1. /\ Len(echo_recver.packets) \in Nat /\ Len(echo_sender.packets) \in Nat
        /\ Len(Echoes) = Len(echo_recver.packets) + Len(echo_sender.packets)
    BY <1>1 DEF RecverOK, Remaining, Link, SenderOK
  <2> QED
    BY <2>1, Inside
<1>3. i \in 1 .. Len(recver.packets) /\ p \in Packets /\ i \in 1 .. Len(ingress)
  BY <1>1, <1>2, ReplyTuple, OutOfIngress
<1>4. Echoes[i] = Echo(h) /\ (IsTranslated(Echo(h)) <=> IsTranslated(p))
  <2>1. Echoes[i] = Echo(h)
    BY <1>2 DEF Echoes
  <2>2. IsTranslated(Echoes[i]) <=> IsTranslated(p)
    BY <1>1, <1>2, ReplyTuple
  <2> QED
    BY <2>1, <2>2
<1>5. h \in Packets /\ h = IF IsTranslated(p) THEN [p EXCEPT !.sport = h.sport] ELSE p
  BY <1>3, HeaderArrived, OutOfIngress
<1>6. /\ beats \in Seq(Beats) /\ Len(beats) = Echo(h).len /\ Carries(beats, Echo(h))
      /\ Header(beats) = IF IsTranslated(Echo(h))
                         THEN [Echo(h) EXCEPT !.sport = Header(beats).sport] ELSE Echo(h)
  <2>1. beats \in Seq(Beats)
    BY <1>1, StreamParts
  <2>2. Len(beats) = Echoes[i].len /\ Carries(beats, Echoes[i])
    BY <1>1 DEF Delivered
  <2>3. Header(beats) = IF IsTranslated(Echoes[i])
                        THEN [Echoes[i] EXCEPT !.sport = Header(beats).sport] ELSE Echoes[i]
    BY <1>1, HeaderArrived
  <2> QED
    BY <1>4, <2>1, <2>2, <2>3
<1>7. IsTranslated(p) => Header(beats).sport = p.sport
  <2>1. i \in Arrived(echo_recver) /\ PortAt(echo_recver, i) = Header(beats).sport
    BY <1>1, CompleteArrived
  <2> QED
    BY <1>1, <2>1 DEF RxPorts
<1>8. Sent[i] = BeatsOf(p) /\ PortOf(Tuple5Of(Sent[i])) = p.sport
      /\ (IsArp(Sent[i]) <=> p.ether = "arp")
  BY <1>3, OutOfIngress, SentPacket DEF PortOf, FieldNames
<1>9. PortBack(i) = IF IsTranslated(p) THEN p.sport ELSE p.dport
  BY DEF PortBack
<1> HIDE DEF p, h, beats
<1>10. Check!Unharmed(BeatsOf(p), beats)
  <2>1. h.id = p.id /\ h.len = p.len /\ h.ether = p.ether /\ (p.ether = "arp" => h = p)
    BY <1>3, <1>5 DEF Packets, IsTranslated, Tx!Custom
  <2>2. /\ Echo(h).id = h.id /\ Echo(h).len = h.len /\ Echo(h).ether = h.ether
        /\ h.ether = "arp" => Echo(h) = h
    BY <1>5 DEF Packets, Echo
  <2>3. Echo(h) \in Packets
    BY <1>5, EchoPacket
  <2>4. /\ Echo(h).id = p.id /\ Echo(h).len = p.len /\ Echo(h).ether = p.ether
        /\ p.ether = "arp" => Echo(h) = p
    BY <2>1, <2>2
  <2> QED
    BY <1>3, <1>6, <2>3, <2>4, CarriedIsUnharmed
<1>11. PortOf(Tuple5Of(beats)) = Header(beats).sport
  BY TupleInTest
<1>12. p.ether # "arp" => Header(beats).sport = PortBack(i)
  <2>1. CASE IsTranslated(p)
    BY <1>7, <1>9, <2>1
  <2>2. CASE ~ IsTranslated(p) /\ p.ether # "arp"
    BY <1>3, <1>4, <1>5, <1>6, <1>9, <2>2 DEF Echo, Packets
  <2> QED
    BY <2>1, <2>2
<1>13. Check!Returned(Sent[i], beats) <=> p.ether = "arp" \/ PortBack(i) = p.sport
  BY <1>8, <1>10, <1>11, <1>12 DEF Check!Returned
<1> QED
  BY <1>3, <1>13 DEF p, beats

\* When all packets are back nothing is under way.
LEMMA AllBack ==
  ASSUME ClosedInv, Finished
  PROVE  /\ Len(recver.packets) = Len(ingress) /\ Len(echo_recver.packets) = Len(ingress)
         /\ Len(ingress) \in Nat /\ DOMAIN ingress = 1 .. Len(ingress)
         /\ recver.current = << >>
<1>1. Link(ingress, sender, tx, recver) /\ Link(Echoes, echo_sender, rx, echo_recver)
  BY DEF ClosedInv, SystemInv, Streams
<1>2. /\ Len(recver.packets) \in Nat /\ Len(sender.packets) \in Nat
      /\ Len(ingress) = Len(recver.packets) + Len(sender.packets)
      /\ Len(recver.current) = sender.word /\ recver.current \in Seq(Beats)
  BY <1>1 DEF Link, RecverOK, SenderOK, Remaining, Delivered
<1>3. /\ Len(echo_recver.packets) \in Nat /\ Len(echo_sender.packets) \in Nat
      /\ Len(Echoes) = Len(echo_recver.packets) + Len(echo_sender.packets)
  BY <1>1 DEF Link, RecverOK, SenderOK, Remaining
<1>4. Len(Echoes) = Len(recver.packets)
  <2>1. Len(recver.packets) \in Nat
    BY <1>2
  <2> QED
    BY <2>1 DEF Echoes
<1>5. Len(echo_recver.packets) = Len(ingress)
  BY DEF Finished
<1>6. Len(sender.packets) = 0 /\ Len(recver.packets) = Len(ingress)
  <2> DEFINE a == Len(recver.packets)
             b == Len(sender.packets)
             c == Len(ingress)
             d == Len(echo_sender.packets)
  <2>1. a \in Nat /\ b \in Nat /\ c = a + b
    BY <1>2
  <2>2. d \in Nat /\ a = c + d
    BY <1>3, <1>4, <1>5
  <2> HIDE DEF a, b, c, d
  <2>3. b = 0 /\ a = c
    BY <2>1, <2>2
  <2> QED
    BY <2>3 DEF a, b, c
<1>7. sender.packets = << >> /\ sender.word = 0
  <2>1. sender.packets \in Seq(Packets) /\ (sender.packets = << >> => sender.word = 0)
    BY <1>1 DEF Link, SenderOK
  <2> QED
    BY <1>6, <2>1
<1>8. recver.current = << >>
  BY <1>2, <1>7
<1>9. ingress \in Seq(Packets)
  BY <1>1 DEF Link, Remaining
<1> QED
  BY <1>5, <1>6, <1>8, <1>9

\* The lemmas about the loop of the check, for packets of beats.
Loop == INSTANCE PacketCheckProofs WITH SizeOf <- Len

LEMMA SameLoop ==
  ASSUME NEW packets, NEW recv_packets, NEW i
  PROVE  /\ Loop!Mapped(packets, recv_packets, i) <=> Check!Mapped(packets, recv_packets, i)
         /\ Loop!PortWanted(packets, i) = Check!PortWanted(packets, i)
         /\ Loop!Known(packets, i) = Check!Known(packets, i)
<1>1. \A S : Loop!Cardinality(S) = Check!Cardinality(S)
  BY DEF Loop!Cardinality, Check!Cardinality
<1>2. \A k : Loop!Earlier(packets, k) = Check!Earlier(packets, k)
  BY DEF Loop!Earlier, Check!Earlier
<1>3. \A k : Loop!Known(packets, k) = Check!Known(packets, k)
  BY <1>2 DEF Loop!Known, Check!Known
<1>4. \A f : Loop!IsFirst(packets, f, i) <=> Check!IsFirst(packets, f, i)
  BY <1>3 DEF Loop!IsFirst, Check!IsFirst
<1>5. Loop!PortWanted(packets, i) = Check!PortWanted(packets, i)
  BY <1>1, <1>3, <1>4 DEF Loop!PortWanted, Check!PortWanted
<1>6. Loop!Mapped(packets, recv_packets, i) <=> Check!Mapped(packets, recv_packets, i)
  BY <1>1, <1>2, <1>3 DEF Loop!Mapped, Check!Mapped
<1> QED
  BY <1>3, <1>5, <1>6

\* What the check wants of the ports on the way out.
LEMMA OutIsMapped ==
  ASSUME ClosedInv, Finished, NEW all,
         \A k \in 1 .. Len(ingress) : all[k] = recver.packets[k]
  PROVE  (\A i \in 1 .. Len(ingress) : IsArp(Sent[i]) \/ Check!Mapped(Sent, all, i))
         <=> \A i \in 1 .. Len(ingress) :
                IsArp(Sent[i]) \/ PortOut(i) = Check!PortWanted(Sent, i)
<1> DEFINE n == Len(ingress)
<1>1. n \in Nat /\ Len(recver.packets) = n
  BY AllBack
<1>2. ASSUME NEW i \in 1 .. n
      PROVE  /\ PortOf(Tuple5Of(all[i])) = PortOut(i)
             /\ Tuple5Of(all[i]) =
                   [f \in FieldNames |-> IF f = "sport" THEN PortOut(i) ELSE Tuple5Of(Sent[i])[f]]
  BY <1>1, OutTuple
<1> HIDE DEF n
<1>3. ASSUME NEW i \in 1 .. n, NEW j \in 1 .. n, ~ IsArp(Sent[i]), ~ IsArp(Sent[j]),
             Tuple5Of(Sent[i]) = Tuple5Of(Sent[j]),
             PortOf(Tuple5Of(all[i])) = PortOf(Tuple5Of(all[j]))
      PROVE  Tuple5Of(all[i]) = Tuple5Of(all[j])
  <2>1. /\ PortOf(Tuple5Of(all[i])) = PortOut(i) /\ PortOf(Tuple5Of(all[j])) = PortOut(j)
        /\ Tuple5Of(all[i]) =
              [f \in FieldNames |-> IF f = "sport" THEN PortOut(i) ELSE Tuple5Of(Sent[i])[f]]
        /\ Tuple5Of(all[j]) =
              [f \in FieldNames |-> IF f = "sport" THEN PortOut(j) ELSE Tuple5Of(Sent[j])[f]]
    BY <1>2
  <2>2. PortOut(i) = PortOut(j)
    BY <1>3, <2>1
  <2> QED
    BY <1>3, <2>1, <2>2
<1>4. (\A i \in 1 .. n : IsArp(Sent[i]) \/ Loop!Mapped(Sent, all, i))
      <=> \A i \in 1 .. n :
             IsArp(Sent[i]) \/ PortOf(Tuple5Of(all[i])) = Loop!PortWanted(Sent, i)
  BY <1>1, <1>3, Loop!MappedByPorts
<1> QED
  BY <1>2, <1>4, SameLoop DEF n

\* The verdict of test_ip when the loop ends (3ip_testbench.cpp:355-371, 390-521,
\* 562-574), for all lists of packets, all pauses, every table and hash function.
LEMMA VerdictOfTest == ASSUME ClosedInv PROVE TestVerdict
<1> SUFFICES ASSUME Finished
             PROVE  TestAccepts <=> \A i \in DOMAIN ingress :
                       \/ ingress[i].ether = "arp"
                       \/ PortOut(i) = Check!PortWanted(Sent, i) /\ PortBack(i) = ingress[i].sport
  BY DEF TestVerdict
<1> DEFINE n == Len(ingress)
           out == recver.packets
           back == echo_recver.packets
           all == out \o back
           T == Seq(Beats)
<1>1. Len(out) = n /\ Len(back) = n /\ n \in Nat /\ DOMAIN ingress = 1 .. n
      /\ recver.current = << >>
  BY AllBack
<1>2. out \in Seq(T) /\ back \in Seq(T)
  BY DEF ClosedInv, SystemInv, Streams, Link, RecverOK
<1>3. DOMAIN Sent = 1 .. n /\ Len(Sent) = n
  BY <1>1 DEF Sent
<1>4. \A i \in 1 .. n : IsArp(Sent[i]) <=> ingress[i].ether = "arp"
  BY OutOfIngress, SentPacket
<1> HIDE DEF n, out, back, T
<1>5. /\ Len(out \o back) = n + n
      /\ \A k \in 1 .. n + n : (out \o back)[k] = IF k <= n THEN out[k] ELSE back[k - n]
  BY <1>1, <1>2, Joined
<1>6. /\ \A k \in 1 .. n : all[k] = out[k]
      /\ \A k \in 1 .. n : all[n + k] = back[k]
  <2>1. \A k \in 1 .. n : k \in 1 .. n + n /\ n + k \in 1 .. n + n
                          /\ k <= n /\ ~ (n + k <= n) /\ (n + k) - n = k
    BY <1>1
  <2> QED
    BY <1>5, <2>1
<1>7. Len(all) = 2 * n
  <2>1. n + n = 2 * n
    BY <1>1
  <2> QED
    BY <1>5, <2>1
<1> HIDE DEF all
<1>8. TestAccepts <=> \A i \in 1 .. n : /\ Check!Forwarded(Sent, all, i)
                                        /\ Check!Returned(Sent[i], all[n + i])
  BY <1>1, <1>3, <1>7 DEF TestAccepts, Check!check_nat_funtionality, out, back, all
<1>9. \A i \in 1 .. n : Check!Forwarded(Sent, all, i) <=>
                           IsArp(Sent[i]) \/ Check!Mapped(Sent, all, i)
  <2>1. \A i \in 1 .. n : Check!Unharmed(Sent[i], all[i])
    BY <1>1, <1>6, OutUnharmed DEF out
  <2> QED
    BY <2>1 DEF Check!Forwarded
<1>10. \A i \in 1 .. n : Check!Returned(Sent[i], all[n + i])
                            <=> ingress[i].ether = "arp" \/ PortBack(i) = ingress[i].sport
  BY <1>1, <1>6, BackIsReturned DEF back
<1>11. (\A i \in 1 .. n : IsArp(Sent[i]) \/ Check!Mapped(Sent, all, i))
       <=> \A i \in 1 .. n : IsArp(Sent[i]) \/ PortOut(i) = Check!PortWanted(Sent, i)
  BY <1>6, OutIsMapped DEF n, out
<1> QED
  BY <1>1, <1>4, <1>8, <1>9, <1>10, <1>11

THEOREM TestComesToThis == SystemSpec => []TestVerdict
  BY VerdictOfTest, ClosedInductive, PTL

\* A list in which the NAT translates all but the ARP packets.
AllTranslated == \A i \in DOMAIN ingress : ingress[i].ether = "arp" \/ IsTranslated(ingress[i])

\* The numbers of the check are then the numbers of the NAT.
LEMMA WantedIsGiven ==
  ASSUME ingress \in Seq(Packets), AllTranslated,
         NEW i \in 1 .. Len(ingress), IsTranslated(ingress[i])
  PROVE  NatPort(i) = Check!PortWanted(Sent, i)
<1> DEFINE P(k) == ingress[k]
<1>1. DOMAIN ingress = 1 .. Len(ingress) /\ Len(ingress) \in Nat /\ i \in Nat \ {0}
  OBVIOUS
<1>2. ~ IsArp(Sent[i])
  BY SentPacket
<1>3. PICK f \in 1 .. i : Loop!IsFirst(Sent, f, i)
  BY <1>1, <1>2, Loop!FirstExists
<1>4. f \in 1 .. Len(ingress) /\ f \in Nat /\ f - 1 \in Nat
      /\ \A k \in 1 .. f - 1 : k \in 1 .. Len(ingress)
  BY <1>1
<1>5. \A k \in 1 .. Len(ingress) : IsArp(Sent[k]) \/ IsTranslated(P(k))
  BY <1>1, SentPacket DEF AllTranslated
<1>6. /\ ~ IsArp(Sent[f]) /\ Tuple5Of(Sent[f]) = Tuple5Of(Sent[i])
      /\ Tuple5Of(Sent[f]) \notin Loop!Known(Sent, f)
  BY <1>3 DEF Loop!IsFirst
<1>7. ASSUME NEW k \in 1 .. Len(ingress), IsTranslated(P(k))
      PROVE  /\ Tuple5Of(Sent[k]) = Tuple5(TupleOf(P(k))) /\ TupleOf(P(k)) \in Tuples
             /\ ~ IsArp(Sent[k])
  BY <1>7, SentPacket, OutboundIsOneToOne
<1>8. IsTranslated(P(f)) /\ TupleOf(P(f)) = TupleOf(P(i))
  <2>1. IsTranslated(P(f))
    BY <1>4, <1>5, <1>6
  <2> QED
    BY <1>4, <1>6, <1>7, <2>1, TupleInTest
<1> DEFINE J == {k \in 1 .. f - 1 : IsTranslated(P(k))}
           C == Conns(f - 1)
<1>9. Check!Earlier(Sent, f) = J
  BY <1>4, <1>5, <1>7 DEF Check!Earlier
<1>10. C = {TupleOf(P(j)) : j \in J}
  BY DEF Conns
<1>11. \A j \in J : Tuple5Of(Sent[j]) = Tuple5(TupleOf(P(j))) /\ TupleOf(P(j)) \in Tuples
  BY <1>4, <1>7
<1>12. Check!Known(Sent, f) = {Tuple5(t) : t \in C}
  <2>1. Check!Known(Sent, f) = {Tuple5Of(Sent[j]) : j \in J}
    BY <1>9 DEF Check!Known
  <2> HIDE DEF J, C
  <2> QED
    BY <1>10, <1>11, <2>1
<1>13. \A t \in C : t \in Tuples
  <2> HIDE DEF J, C
  <2> QED
    BY <1>10, <1>11
<1>14. IsFiniteSet(C)
  BY <1>4, ConnsAreFinite
<1>15. TupleOf(P(f)) \notin C
  <2>1. Tuple5(TupleOf(P(f))) \notin Check!Known(Sent, f)
    BY <1>4, <1>6, <1>7, <1>8, SameLoop
  <2> QED
    BY <1>12, <2>1
<1>16. Check!Cardinality(Check!Known(Sent, f)) = Cardinality(C)
  <2> DEFINE K == {Tuple5(t) : t \in C}
             g == [t \in C |-> Tuple5(t)]
  <2> HIDE DEF C
  <2>1. g \in [C -> K] /\ \A y \in K : \E t \in C : g[t] = y
    OBVIOUS
  <2>2. \A t, u \in C : g[t] = g[u] => t = u
    BY <1>13, TupleInTest
  <2>3. Cardinality(K) = Cardinality(C)
    <3> HIDE DEF K, g
    <3> QED
      BY <1>14, <2>1, <2>2, SameSize
  <2> QED
    BY <1>12, <2>3, CheckCounts
<1>17. NatPort(i) = Cardinality(C)
  BY <1>4, <1>8, <1>15, NatPortIsRank
<1>18. Loop!PortWanted(Sent, i) = Loop!Cardinality(Loop!Known(Sent, f))
  BY <1>1, <1>3, Loop!WantedOfFirst
<1>19. \A S : Loop!Cardinality(S) = Check!Cardinality(S)
  BY DEF Loop!Cardinality, Check!Cardinality
<1> QED
  BY <1>16, <1>17, <1>18, <1>19, SameLoop

\* So the test accepts every list of ARP packets and packets that the NAT translates;
\* the lists that gen_packet_ip makes are others (3ip_testbench.cpp:548-549).
THEOREM TranslatedListsPass == SystemSpec => [](Finished /\ AllTranslated => TestAccepts)
<1>1. ClosedInv => (Finished /\ AllTranslated => TestAccepts)
  <2> SUFFICES ASSUME ClosedInv, Finished, AllTranslated PROVE TestAccepts
    OBVIOUS
  <2>1. DOMAIN ingress = 1 .. Len(ingress) /\ ingress \in Seq(Packets)
    BY OutOfIngress
  <2>2. ASSUME NEW i \in DOMAIN ingress, ingress[i].ether # "arp"
        PROVE  PortOut(i) = Check!PortWanted(Sent, i) /\ PortBack(i) = ingress[i].sport
    <3>1. IsTranslated(ingress[i])
      BY <2>2 DEF AllTranslated
    <3> QED
      BY <2>1, <3>1, WantedIsGiven DEF PortOut, PortBack
  <2> QED
    BY <2>2, VerdictOfTest DEF TestVerdict
<1> QED
  BY <1>1, ClosedInductive, PTL
=============================================================================
