---------------------------- MODULE OneWayProofs ----------------------------
(***************************************************************************)
(* Proofs about the bench of one rewriter, for every list of packets and   *)
(* every pause: no byte is lost or added, the loop never runs into its     *)
(* limit, and the verdicts depend on the packets only.                     *)
(***************************************************************************)
EXTENDS OneWayBench, TupleWireProofs, FiniteSetTheorems, SequenceTheorems

Longest == HeaderBytes + 99

\* The packets of both tests.
Packets == {data \in UNION {Bytes(n) : n \in HeaderBytes .. Longest} :
               EtherType(data) \in {ARP, IPv4}}

\* The rewriter of this bench takes a word on every edge: no packet is one that it
\* would translate.
RegisterNames == {"tready", "tvalid", "out", "byte_cnt", "is_custom_ip", "protocol", "src_ip",
                  "dst_ip", "src_port", "dst_port", "tuple_valid", "hash_stage"}
Forwards(r) == /\ DOMAIN r = RegisterNames
               /\ r.tready = TRUE /\ r.hash_stage = FALSE /\ r.is_custom_ip = FALSE

\* A sender is inside its first packet, and offers a beat only after its nap.
SenderOK(s) ==
    /\ s \in [packets : Seq(Packets), sent : Nat, sleeping : 0 .. 2, valid : BOOLEAN]
    /\ s.valid => s.sleeping = 0 /\ s.packets # << >>
    /\ IF s.packets = << >> THEN s.sent = 0 ELSE s.sent < size(Head(s.packets))

\* The list sent is what was received, the part of a packet under way and the rest.
Prefix(data, k) == IF k = 0 THEN << >> ELSE [i \in 0 .. k - 1 |-> data[i]]
Stream(packets, s, v) ==
    /\ DOMAIN v = {"packets", "current_packet"} /\ v.packets \in Seq(Packets)
    /\ packets = v.packets \o s.packets
    /\ v.current_packet = Prefix(Head(s.packets), s.sent)

\* After n cycles: three have gone by for every eight bytes that have left, of which a
\* packet has at most 160, and one for the beat on offer.
Spare(s) == IF s.valid THEN 1 ELSE 0 - s.sleeping
InTime(n, s, v) == 8 * n <= 480 * Len(v.packets) + 3 * s.sent + 8 * Spare(s)

\* A verdict is one about the packets that were sent.
Judged == /\ recver.packets = ingress /\ recver.current_packet = << >>
          /\ status \in {"passed", "failed"}
          /\ status = "passed" <=> Passes(ingress)

OneWayInv ==
    /\ test \in {"arp", "ip"} /\ status \in {"running", "passed", "failed", "corrupted"}
    /\ cycles \in 0 .. MAX_SIM_CYCLE
    /\ ingress \in [1 .. PacketCount -> Packets]
    /\ Forwards(rw) /\ SenderOK(sender) /\ Stream(ingress, sender, recver)
    /\ status = "running" => InTime(cycles, sender, recver)
    /\ status # "running" => Judged

-----------------------------------------------------------------------------
(***************************************************************************)
(* Packets.                                                                *)
(***************************************************************************)
LEMMA SizeOfBytes ==
  ASSUME NEW n \in Nat, NEW data, DOMAIN data = 0 .. n - 1
  PROVE  size(data) = n
<1>1. 0 \in Int /\ n - 1 \in Int
  OBVIOUS
<1>2. Cardinality(0 .. n - 1) = IF 0 > n - 1 THEN 0 ELSE (n - 1) - 0 + 1
  BY <1>1, FS_Interval
<1> QED
  BY <1>2 DEF size

LEMMA PacketBytes ==
  ASSUME NEW data \in Packets
  PROVE  /\ size(data) \in HeaderBytes .. Longest /\ size(data) \in Nat
         /\ data \in Bytes(size(data))
         /\ EtherType(data) \in {ARP, IPv4}
<1>1. PICK n \in HeaderBytes .. Longest : data \in Bytes(n)
  BY DEF Packets
<1>2. n \in Nat /\ DOMAIN data = 0 .. n - 1
  BY <1>1 DEF HeaderBytes, Longest, Bytes
<1>3. size(data) = n
  BY <1>2, SizeOfBytes
<1> QED
  BY <1>1, <1>2, <1>3 DEF Packets

LEMMA PacketsHaveBytes == \A data \in Packets : size(data) \in Nat /\ size(data) > 0
  BY PacketBytes DEF HeaderBytes, Longest

LEMMA ArpIsPacket == ArpPackets \subseteq Packets
<1> SUFFICES ASSUME NEW n \in Lengths, NEW fill \in Fills
             PROVE  Marked(RandomPacket(n, fill), ARP) \in Packets
  BY DEF ArpPackets
<1> DEFINE data == RandomPacket(n, fill)
           packet == Marked(data, ARP)
<1>1. n \in HeaderBytes .. Longest /\ fill \in Bytes(Longest)
  BY LengthsAssumption, FillsAssumption DEF Longest
<1>2. data \in Bytes(n)
  BY <1>1 DEF RandomPacket, Bytes, HeaderBytes, Longest
<1>3. 12 \in 0 .. n - 1 /\ 13 \in 0 .. n - 1 /\ ARP[1] \in Byte /\ ARP[2] \in Byte
  BY <1>1 DEF HeaderBytes, Longest, ARP, Byte
<1> HIDE DEF data
<1>4. packet \in Bytes(n)
  BY <1>2, <1>3 DEF Marked, Bytes
<1>5. packet[12] = ARP[1] /\ packet[13] = ARP[2]
  BY <1>2, <1>3 DEF Marked, Bytes
<1> HIDE DEF packet
<1>6. EtherType(packet) = ARP
  BY <1>5 DEF EtherType, ARP
<1> QED
  BY <1>1, <1>4, <1>6 DEF Packets, packet, data

LEMMA IpIsPacket == IpPackets \subseteq Packets
<1> SUFFICES ASSUME NEW arp \in ArpPackets, NEW t \in TestTuples
             PROVE  apply(Marked(arp, IPv4), t) \in Packets
  BY DEF IpPackets
<1> DEFINE data == Marked(arp, IPv4)
           packet == apply(data, t)
<1>1. PICK n \in HeaderBytes .. Longest : arp \in Bytes(n)
  BY ArpIsPacket DEF Packets
<1>2. /\ n \in Nat /\ n >= HeaderBytes
      /\ 12 \in 0 .. n - 1 /\ 13 \in 0 .. n - 1 /\ IPv4[1] \in Byte /\ IPv4[2] \in Byte
  BY <1>1 DEF HeaderBytes, Longest, IPv4, Byte
<1>3. data \in Bytes(n) /\ data[12] = IPv4[1] /\ data[13] = IPv4[2]
  BY <1>1, <1>2 DEF Marked, Bytes
<1> HIDE DEF data
<1>4. DOMAIN data = 0 .. n - 1 /\ DOMAIN packet = 0 .. n - 1
  BY <1>3 DEF Bytes, apply
<1>5. Writes(packet, t, data)
  BY <1>2, <1>4, AppliedBytes
<1>6. packet[12] = data[12] /\ packet[13] = data[13]
  <2>1. 12 \in DOMAIN data /\ 12 \notin 23 .. 24 \cup 26 .. 37
    BY <1>2, <1>4
  <2>2. 13 \in DOMAIN data /\ 13 \notin 23 .. 24 \cup 26 .. 37
    BY <1>2, <1>4
  <2> HIDE DEF packet
  <2>3. \A i \in DOMAIN data : i \notin 23 .. 24 \cup 26 .. 37 => packet[i] = data[i]
    BY <1>5 DEF Writes
  <2> QED
    BY <2>1, <2>2, <2>3
<1>7. packet \in Bytes(n)
  <2>1. /\ t.src_ip \in Bytes(4) /\ t.dst_ip \in Bytes(4)
        /\ t.src_port \in Bytes(2) /\ t.dst_port \in Bytes(2) /\ t.protocol \in Byte
    BY TuplesAssumption DEF Tuple5s
  <2>2. ASSUME NEW i \in 0 .. n - 1 PROVE packet[i] \in Byte
    <3>1. CASE i \in 26 .. 29
      BY <1>5, <2>1, <3>1 DEF Writes, Bytes
    <3>2. CASE i \in 30 .. 33
      BY <1>5, <2>1, <3>2 DEF Writes, Bytes
    <3>3. CASE i \in 34 .. 35
      BY <1>5, <2>1, <3>3 DEF Writes, Bytes
    <3>4. CASE i \in 36 .. 37
      BY <1>5, <2>1, <3>4 DEF Writes, Bytes
    <3>5. CASE i \in 23 .. 24
      BY <1>5, <2>1, <3>5 DEF Writes, Byte
    <3>6. CASE i \notin 23 .. 24 \cup 26 .. 37
      BY <1>3, <1>4, <1>5, <3>6 DEF Writes, Bytes
    <3> QED
      BY <3>1, <3>2, <3>3, <3>4, <3>5, <3>6
  <2>3. packet = [i \in 0 .. n - 1 |-> packet[i]]
    BY <1>4 DEF apply
  <2> HIDE DEF packet
  <2> QED
    BY <2>2, <2>3 DEF Bytes
<1> HIDE DEF packet
<1>8. EtherType(packet) = IPv4
  BY <1>3, <1>6 DEF EtherType, IPv4
<1> QED
  BY <1>1, <1>7, <1>8 DEF Packets, packet, data

LEMMA TestPackets == /\ gen_packet_ARP \subseteq [1 .. PacketCount -> Packets]
                     /\ gen_packet_ip \subseteq [1 .. PacketCount -> Packets]
  BY ArpIsPacket, IpIsPacket DEF gen_packet_ARP, gen_packet_ip

LEMMA PacketFields ==
  ASSUME NEW data \in Packets
  PROVE  Fields(data) \in [ether : {Our!Custom, "other"}, proto : Byte, src : Bytes(4),
                           dst : Bytes(4), sport : Bytes(2), dport : Bytes(2)]
         /\ Fields(data).ether # Our!Custom
<1>1. /\ size(data) \in Nat /\ size(data) >= HeaderBytes /\ data \in Bytes(size(data))
      /\ EtherType(data) # <<9, 0>>
  BY PacketBytes DEF ARP, IPv4, HeaderBytes, Longest
<1>2. HeaderTuple(data) = tuple5(data) /\ tuple5(data) \in Tuple5s
  BY <1>1, RewriterReadsTheTuple, TuplesAreTyped
<1> DEFINE t == HeaderTuple(data)
<1>3. t \in Tuple5s
  BY <1>2
<1> HIDE DEF t
<1>4. Fields(data) = [ether |-> "other", proto |-> t.protocol, src |-> t.src_ip,
                      dst |-> t.dst_ip, sport |-> t.src_port, dport |-> t.dst_port]
  BY <1>1 DEF Fields, t
<1> QED
  BY <1>3, <1>4 DEF Tuple5s, Our!Custom

-----------------------------------------------------------------------------
(***************************************************************************)
(* One edge: the rewriter, the sender and the receiver.                    *)
(***************************************************************************)
LEMMA RewriterForwards ==
  ASSUME Forwards(rw), NEW b, b # NoBeat => b.pkt.ether # Our!Custom, Our!Edge(b, FALSE, 0)
  PROVE  /\ Forwards(rw')
         /\ b # NoBeat => rw'.tvalid /\ rw'.out = b
         /\ b = NoBeat => ~ rw'.tvalid
<1> USE DEF Forwards, RegisterNames
<1>1. CASE Our!Accept(b)
  <2> DEFINE parsed == [Our!Parse(b.pkt) EXCEPT !.out = b]
             passed == Our!Pass(parsed)
  <2>1. /\ DOMAIN parsed = RegisterNames /\ parsed.out = b
        /\ parsed.tready = TRUE /\ parsed.hash_stage = FALSE /\ parsed.is_custom_ip = FALSE
    BY <1>1 DEF Our!Parse, Our!Accept
  <2>2. rw' = Our!Count(passed, b.last) /\ b # NoBeat
    BY <1>1 DEF Our!Accept, Our!Translates
  <2> HIDE DEF parsed
  <2>3. /\ DOMAIN passed = RegisterNames /\ passed.out = b /\ passed.tvalid = TRUE
        /\ passed.tready = TRUE /\ passed.hash_stage = FALSE /\ passed.is_custom_ip = FALSE
    BY <2>1 DEF Our!Pass
  <2> HIDE DEF passed
  <2> QED
    BY <2>2, <2>3 DEF Our!Count
<1>2. CASE Our!Gap(b)
  BY <1>2 DEF Our!Gap, Our!Blocked
<1> QED
  BY <1>1, <1>2 DEF Our!Edge, Our!Rewrite, Our!Await

\* The beat on the input.
LEMMA OfferedBeat ==
  ASSUME NEW s, SenderOK(s)
  PROVE  /\ ~ s.valid => Offered(s) = NoBeat
         /\ s.valid => /\ Offered(s) # NoBeat /\ Offered(s).pkt.ether # Our!Custom
                       /\ Offered(s).last = IsLast(s) /\ Offered(s).keep = Keep(s)
                       /\ \A i \in 0 .. transmit(s) - 1 :
                             Offered(s).data[i] = Head(s.packets)[s.sent + i]
<1>1. ~ s.valid => Offered(s) = NoBeat
  BY DEF Offered
<1> SUFFICES ASSUME s.valid
             PROVE  /\ Offered(s) # NoBeat /\ Offered(s).pkt.ether # Our!Custom
                    /\ Offered(s).last = IsLast(s) /\ Offered(s).keep = Keep(s)
                    /\ \A i \in 0 .. transmit(s) - 1 :
                          Offered(s).data[i] = Head(s.packets)[s.sent + i]
  BY <1>1
<1> DEFINE p == Head(s.packets)
           n == size(p)
           data == [i \in 0 .. 7 |-> IF i < transmit(s) THEN p[s.sent + i] ELSE 0]
<1>2. s.packets \in Seq(Packets) /\ s.packets # << >> /\ s.sent \in Nat /\ s.sent < n
  BY DEF SenderOK
<1>3. p \in Packets
  BY <1>2, HeadTailProperties
<1>4. n \in Nat /\ p \in Bytes(n)
  BY <1>3, PacketBytes
<1>5. transmit(s) = IF n - s.sent < 8 THEN n - s.sent ELSE 8
  BY DEF transmit, Rest
<1> HIDE DEF p, n
<1>6. transmit(s) \in 1 .. 8 /\ transmit(s) <= n - s.sent
  BY <1>2, <1>4, <1>5
<1>7. data \in Bytes(8)
  <2>1. ASSUME NEW i \in 0 .. 7 PROVE data[i] \in Byte
    <3>1. CASE i < transmit(s)
      <4>1. s.sent + i \in 0 .. n - 1
        BY <1>2, <1>4, <1>6, <3>1
      <4>2. p[s.sent + i] \in Byte
        BY <1>4, <4>1 DEF Bytes
      <4> QED
        BY <3>1, <4>2
    <3>2. CASE ~ (i < transmit(s))
      BY <3>2 DEF Byte
    <3> QED
      BY <3>1, <3>2
  <2> QED
    BY <2>1 DEF Bytes
<1>8. Keep(s) \in SUBSET (0 .. 7)
  BY <1>6 DEF Keep
<1>9. IsLast(s) \in BOOLEAN
  BY DEF IsLast
<1>10. Offered(s) = [pkt |-> Fields(p), last |-> IsLast(s), keep |-> Keep(s), data |-> data]
  BY DEF Offered, p
<1>11. \A i \in 0 .. transmit(s) - 1 : data[i] = p[s.sent + i]
  BY <1>6
<1> HIDE DEF data
<1>12. Offered(s) \in Beats
  BY <1>3, <1>7, <1>8, <1>9, <1>10, PacketFields DEF Beats
<1> QED
  BY <1>3, <1>10, <1>11, <1>12, PacketFields, NoBeatAssumption DEF p

\* The bytes of a beat continue the beginning of the packet.
LEMMA PushedBytes ==
  ASSUME NEW s, SenderOK(s), s.valid
  PROVE  Push(Prefix(Head(s.packets), s.sent), Offered(s))
         = Prefix(Head(s.packets), s.sent + transmit(s))
<1> DEFINE p == Head(s.packets)
           n == size(p)
           k == s.sent
           m == transmit(s)
           begun == Prefix(p, k)
           beat == Offered(s)
<1>1. s.packets \in Seq(Packets) /\ s.packets # << >> /\ k \in Nat /\ k < n
  BY DEF SenderOK
<1>2. p \in Packets
  BY <1>1, HeadTailProperties
<1>3. n \in Nat
  BY <1>2, PacketBytes
<1>4. m = IF n - k < 8 THEN n - k ELSE 8
  BY DEF transmit, Rest
<1>5. /\ beat.keep = 0 .. m - 1
      /\ \A i \in 0 .. m - 1 : beat.data[i] = p[k + i]
  BY OfferedBeat DEF Keep
<1> HIDE DEF p, n, m, beat
<1>6. m \in 1 .. 8
  BY <1>1, <1>3, <1>4
<1>7. Cardinality(beat.keep) = m
  <2>1. 0 \in Int /\ m - 1 \in Int
    BY <1>6
  <2>2. Cardinality(0 .. m - 1) = IF 0 > m - 1 THEN 0 ELSE (m - 1) - 0 + 1
    BY <2>1, FS_Interval
  <2> QED
    BY <1>5, <1>6, <2>2
<1>8. DOMAIN begun = 0 .. k - 1
  <2>1. CASE k = 0
    BY <2>1 DEF Prefix
  <2>2. CASE k # 0
    BY <2>2 DEF Prefix
  <2> QED
    BY <2>1, <2>2
<1>9. size(begun) = k
  BY <1>1, <1>8, SizeOfBytes
<1>10. \A i \in 0 .. k - 1 : begun[i] = p[i]
  BY <1>1 DEF Prefix
<1> HIDE DEF k, begun
<1>11. Push(begun, beat) = [i \in 0 .. k + m - 1 |->
                              IF i < k THEN begun[i] ELSE beat.data[i - k]]
  BY <1>7, <1>9 DEF Push
<1>12. \A i \in 0 .. k + m - 1 : (IF i < k THEN begun[i] ELSE beat.data[i - k]) = p[i]
  <2> TAKE i \in 0 .. k + m - 1
  <2>1. CASE i < k
    <3>1. i \in 0 .. k - 1
      BY <1>1, <2>1
    <3> QED
      BY <1>10, <2>1, <3>1
  <2>2. CASE ~ (i < k)
    <3>1. i - k \in 0 .. m - 1 /\ k + (i - k) = i
      BY <1>1, <1>6, <2>2
    <3>2. beat.data[i - k] = p[i]
      BY <1>5, <3>1
    <3> QED
      BY <2>2, <3>2
  <2> QED
    BY <2>1, <2>2
<1>13. Push(begun, beat) = [i \in 0 .. k + m - 1 |-> p[i]]
  BY <1>11, <1>12
<1> DEFINE all == k + m
<1>14. all # 0
  BY <1>1, <1>6
<1>15. Push(begun, beat) = [i \in 0 .. all - 1 |-> p[i]]
  <2>1. k + m - 1 = all - 1
    BY <1>1, <1>6
  <2> QED
    BY <1>13, <2>1
<1> HIDE DEF all
<1>16. Push(begun, beat) = Prefix(p, all)
  BY <1>14, <1>15 DEF Prefix
<1> QED
  BY <1>16 DEF all, p, k, m, begun, beat

\* All the bytes are the packet.
LEMMA WholePacket == \A data \in Packets : Prefix(data, size(data)) = data
<1> SUFFICES ASSUME NEW data \in Packets PROVE Prefix(data, size(data)) = data
  OBVIOUS
<1>1. size(data) \in Nat /\ size(data) # 0 /\ data \in Bytes(size(data))
  BY PacketBytes DEF HeaderBytes, Longest
<1> QED
  BY <1>1 DEF Prefix, Bytes

LEMMA FrontMoves ==
  ASSUME NEW S, NEW a \in Seq(S), NEW b \in Seq(S), b # << >>
  PROVE  /\ Append(a, Head(b)) \in Seq(S) /\ Tail(b) \in Seq(S)
         /\ Append(a, Head(b)) \o Tail(b) = a \o b
         /\ Len(Append(a, Head(b))) = Len(a) + 1 /\ Len(a) \in Nat
<1> DEFINE h == Head(b)
           t == Tail(b)
<1>1. h \in S /\ t \in Seq(S) /\ Len(t) = Len(b) - 1 /\ \A i \in 1 .. Len(t) : t[i] = b[i + 1]
  BY HeadTailProperties
<1>2. h = b[1] /\ Len(b) \in Nat /\ Len(b) > 0
  BY EmptySeq
<1> HIDE DEF h, t
<1>3. /\ Append(a, h) \in Seq(S) /\ Len(Append(a, h)) = Len(a) + 1 /\ Len(a) \in Nat
      /\ \A i \in 1 .. Len(a) : Append(a, h)[i] = a[i]
      /\ Append(a, h)[Len(a) + 1] = h
  BY <1>1, AppendProperties, LenProperties
<1>4. /\ a \o b \in Seq(S) /\ Len(a \o b) = Len(a) + Len(b)
      /\ \A i \in 1 .. Len(a) + Len(b) : (a \o b)[i] = IF i <= Len(a) THEN a[i] ELSE b[i - Len(a)]
  BY ConcatProperties
<1> DEFINE c == Append(a, h)
<1> HIDE DEF c
<1>5. /\ c \o t \in Seq(S) /\ Len(c \o t) = Len(c) + Len(t)
      /\ \A i \in 1 .. Len(c) + Len(t) : (c \o t)[i] = IF i <= Len(c) THEN c[i] ELSE t[i - Len(c)]
  BY <1>1, <1>3, ConcatProperties DEF c
<1>6. Len(c \o t) = Len(a \o b)
  BY <1>1, <1>2, <1>3, <1>4, <1>5 DEF c
<1>7. ASSUME NEW i \in 1 .. Len(c \o t) PROVE (c \o t)[i] = (a \o b)[i]
  <2>1. /\ i \in 1 .. Len(a) + Len(b) /\ i \in 1 .. Len(c) + Len(t)
        /\ Len(c) = Len(a) + 1 /\ Len(t) = Len(b) - 1
    BY <1>1, <1>3, <1>4, <1>5, <1>6 DEF c
  <2>2. (c \o t)[i] = IF i <= Len(c) THEN c[i] ELSE t[i - Len(c)]
    BY <1>5, <2>1
  <2>3. (a \o b)[i] = IF i <= Len(a) THEN a[i] ELSE b[i - Len(a)]
    BY <1>4, <2>1
  <2>4. CASE i <= Len(a)
    <3>1. i \in 1 .. Len(a) /\ i <= Len(c)
      BY <1>3, <2>1, <2>4
    <3> QED
      BY <1>3, <2>2, <2>3, <2>4, <3>1 DEF c
  <2>5. CASE i = Len(a) + 1
    <3>1. i <= Len(c) /\ ~ (i <= Len(a)) /\ i - Len(a) = 1
      BY <1>3, <2>1, <2>5
    <3> QED
      BY <1>2, <1>3, <2>2, <2>3, <2>5, <3>1 DEF c
  <2>6. CASE i > Len(a) + 1
    <3>1. /\ ~ (i <= Len(c)) /\ ~ (i <= Len(a))
          /\ i - Len(c) \in 1 .. Len(t) /\ (i - Len(c)) + 1 = i - Len(a)
      BY <1>2, <1>3, <2>1, <2>6
    <3> QED
      BY <1>1, <2>2, <2>3, <3>1
  <2> QED
    BY <1>3, <2>1, <2>4, <2>5, <2>6
<1>8. c \o t = a \o b
  BY <1>4, <1>5, <1>6, <1>7, SeqEqual
<1> QED
  BY <1>1, <1>3, <1>8 DEF c, h, t

\* A taken word moves from the sender to the receiver and to nowhere else, ...
TakenFrom(packets, s, v, nap, t, w) ==
    /\ t \in [packets : Seq(Packets), sent : Nat, sleeping : 0 .. 2, valid : BOOLEAN]
    /\ IF t.packets = << >> THEN t.sent = 0 ELSE t.sent < size(Head(t.packets))
    /\ Stream(packets, t, w)
    /\ t.sleeping = nap
    /\ \/ Len(w.packets) = Len(v.packets) + 1 /\ s.sent <= 152 /\ t.sent = 0
       \/ Len(w.packets) = Len(v.packets) /\ t.sent = s.sent + 8

LEMMA WordTaken ==
  ASSUME NEW packets, NEW s, NEW v, SenderOK(s), s.valid, Stream(packets, s, v),
         NEW nap \in 0 .. 2
  PROVE  TakenFrom(packets, s, v, nap, Erase(s, nap), RecverEdge(v, TRUE, Offered(s)))
<1> DEFINE t == Erase(s, nap)
           beat == Offered(s)
           w == RecverEdge(v, TRUE, beat)
           p == Head(s.packets)
           n == size(p)
           m == transmit(s)
           data == Push(v.current_packet, beat)
<1>1. /\ s \in [packets : Seq(Packets), sent : Nat, sleeping : 0 .. 2, valid : BOOLEAN]
      /\ s.packets \in Seq(Packets) /\ s.packets # << >> /\ s.sent \in Nat /\ s.sent < n
  BY DEF SenderOK
<1>2. p \in Packets
  BY <1>1, HeadTailProperties
<1>3. n \in HeaderBytes .. Longest /\ n \in Nat
  BY <1>2, PacketBytes
<1>4. Rest(s) = n - s.sent /\ m = IF n - s.sent < 8 THEN n - s.sent ELSE 8
  BY DEF transmit, Rest
<1>5. data = Prefix(p, s.sent + m)
  BY PushedBytes DEF Stream
<1>6. beat.last = (Rest(s) <= m)
  BY OfferedBeat DEF IsLast
<1>7. /\ DOMAIN v = {"packets", "current_packet"} /\ v.packets \in Seq(Packets)
      /\ packets = v.packets \o s.packets /\ Len(v.packets) \in Nat
  BY LenProperties DEF Stream
<1>8. w = IF beat.last THEN [packets |-> Append(v.packets, data), current_packet |-> << >>]
                       ELSE [v EXCEPT !.current_packet = data]
  BY DEF RecverEdge
<1>9. t = IF Rest(s) = m THEN [s EXCEPT !.packets = Tail(s.packets), !.sent = 0, !.sleeping = nap]
                         ELSE [s EXCEPT !.sent = s.sent + m, !.sleeping = nap]
  BY DEF Erase
<1> HIDE DEF t, w, data, beat, n, m
<1>10. CASE Rest(s) = m
  <2>1. s.sent + m = n /\ s.sent <= 152 /\ beat.last
    BY <1>1, <1>3, <1>4, <1>6, <1>10 DEF Longest, HeaderBytes
  <2>2. data = p
    BY <1>2, <1>5, <2>1, WholePacket DEF n
  <2>3. w = [packets |-> Append(v.packets, p), current_packet |-> << >>]
    BY <1>8, <2>1, <2>2
  <2>4. /\ Append(v.packets, p) \in Seq(Packets) /\ Tail(s.packets) \in Seq(Packets)
        /\ Append(v.packets, p) \o Tail(s.packets) = packets
        /\ Len(Append(v.packets, p)) = Len(v.packets) + 1
    BY <1>1, <1>7, FrontMoves
  <2>5. t = [packets |-> Tail(s.packets), sent |-> 0, sleeping |-> nap, valid |-> s.valid]
    BY <1>1, <1>9, <1>10
  <2>6. t \in [packets : Seq(Packets), sent : Nat, sleeping : 0 .. 2, valid : BOOLEAN]
    BY <1>1, <2>4, <2>5
  <2>7. t.packets # << >> => 0 < size(Head(t.packets))
    <3>1. t.packets # << >> => Head(t.packets) \in Packets
      BY <2>4, <2>5, HeadTailProperties
    <3> QED
      BY <3>1, PacketsHaveBytes
  <2>8. Stream(packets, t, w)
    BY <2>3, <2>4, <2>5 DEF Stream, Prefix
  <2>9. IF t.packets = << >> THEN t.sent = 0 ELSE t.sent < size(Head(t.packets))
    BY <2>5, <2>7
  <2>10. t.sleeping = nap /\ Len(w.packets) = Len(v.packets) + 1 /\ t.sent = 0
    BY <2>3, <2>4, <2>5
  <2> QED
    BY <1>7, <2>1, <2>6, <2>8, <2>9, <2>10 DEF TakenFrom, t, w, beat
<1>11. CASE Rest(s) # m
  <2>1. m = 8 /\ s.sent + 8 \in Nat /\ s.sent + 8 < n /\ ~ beat.last
    <3> DEFINE k == s.sent
    <3>1. k \in Nat /\ k < n /\ Rest(s) = n - k /\ m = IF n - k < 8 THEN n - k ELSE 8
      BY <1>1, <1>4
    <3> HIDE DEF k
    <3>2. m = 8 /\ k + 8 \in Nat /\ k + 8 < n /\ ~ (Rest(s) <= m)
      BY <1>3, <1>11, <3>1
    <3> QED
      BY <1>6, <3>2 DEF k
  <2>2. t = [s EXCEPT !.sent = s.sent + 8, !.sleeping = nap]
    BY <1>9, <1>11, <2>1
  <2>3. /\ t \in [packets : Seq(Packets), sent : Nat, sleeping : 0 .. 2, valid : BOOLEAN]
        /\ t.packets = s.packets /\ t.sent = s.sent + 8 /\ t.sleeping = nap
    BY <1>1, <2>1, <2>2
  <2>4. DOMAIN w = {"packets", "current_packet"} /\ w.packets = v.packets
        /\ w.current_packet = data
    BY <1>7, <1>8, <2>1
  <2>5. Stream(packets, t, w)
    BY <1>5, <1>7, <2>1, <2>3, <2>4 DEF Stream
  <2> QED
    BY <1>1, <1>7, <2>1, <2>3, <2>4, <2>5 DEF TakenFrom, t, w, beat, n
<1> QED
  BY <1>10, <1>11

\* ... and then the sender offers its next word, or naps.
LEMMA Proposed ==
  ASSUME NEW t \in [packets : Seq(Packets), sent : Nat, sleeping : 0 .. 2, valid : BOOLEAN],
         IF t.packets = << >> THEN t.sent = 0 ELSE t.sent < size(Head(t.packets))
  PROVE  /\ SenderOK(Propose(t))
         /\ Propose(t).packets = t.packets /\ Propose(t).sent = t.sent
         /\ Propose(t).packets # << >> => Spare(Propose(t)) >= 1 - t.sleeping
         /\ Spare(Propose(t)) \in Int /\ Spare(Propose(t)) >= 0 - 1
<1>1. CASE t.sleeping > 0
  <2>1. Propose(t) = [packets |-> t.packets, sent |-> t.sent,
                      sleeping |-> t.sleeping - 1, valid |-> FALSE]
    BY <1>1 DEF Propose
  <2> QED
    BY <1>1, <2>1 DEF SenderOK, Spare
<1>2. CASE ~ (t.sleeping > 0)
  <2> DEFINE offers == (t.packets # << >>)
             u == [t EXCEPT !.valid = offers]
  <2>1. t.sleeping = 0 /\ Propose(t) = u
    BY <1>2 DEF Propose
  <2>2. offers \in BOOLEAN /\ (offers <=> t.packets # << >>)
    OBVIOUS
  <2> HIDE DEF offers
  <2>3. /\ u \in [packets : Seq(Packets), sent : Nat, sleeping : 0 .. 2, valid : BOOLEAN]
        /\ u.packets = t.packets /\ u.sent = t.sent /\ u.sleeping = t.sleeping
        /\ u.valid = offers
    BY <2>2
  <2> HIDE DEF u
  <2>4. SenderOK(u)
    BY <2>1, <2>2, <2>3 DEF SenderOK
  <2>5. Spare(u) = IF offers THEN 1 ELSE 0 - u.sleeping
    BY <2>2, <2>3 DEF Spare
  <2> QED
    BY <2>1, <2>2, <2>3, <2>4, <2>5
<1> QED
  BY <1>1, <1>2

-----------------------------------------------------------------------------
(***************************************************************************)
(* The invariant of the bench.                                             *)
(***************************************************************************)
LEMMA SpareIsNumber ==
  ASSUME NEW s, SenderOK(s)
  PROVE  /\ Spare(s) \in Int /\ Spare(s) <= 1
         /\ s.valid => Spare(s) = 1
         /\ ~ s.valid => Spare(s) = 0 - s.sleeping /\ s.sleeping \in 0 .. 2
<1>1. s.sleeping \in 0 .. 2 /\ s.valid \in BOOLEAN
  BY DEF SenderOK
<1> QED
  BY <1>1 DEF Spare

\* At the start of a test nothing has been sent.
LEMMA StartIsInTime ==
  ASSUME NEW packets \in [1 .. PacketCount -> Packets]
  PROVE  /\ SenderOK(SenderInit(packets)) /\ Stream(packets, SenderInit(packets), RecverInit)
         /\ Spare(SenderInit(packets)) = 0
         /\ Len(RecverInit.packets) = 0 /\ SenderInit(packets).sent = 0
         /\ Forwards(Our!Initial)
<1> DEFINE s == SenderInit(packets)
<1>1. packets \in Seq(Packets)
  BY CountAssumption
<1>2. s = [packets |-> packets, sent |-> 0, sleeping |-> 0, valid |-> FALSE]
  BY DEF SenderInit
<1> HIDE DEF s
<1>3. SenderOK(s)
  <2>1. packets # << >> => 0 < size(Head(packets))
    <3>1. packets # << >> => Head(packets) \in Packets
      BY <1>1, HeadTailProperties
    <3> QED
      BY <3>1, PacketsHaveBytes
  <2> QED
    BY <1>1, <1>2, <2>1 DEF SenderOK
<1>4. << >> \o packets = packets /\ << >> \in Seq(Packets)
  BY <1>1, ConcatEmptySeq
<1>5. Stream(packets, s, RecverInit)
  BY <1>2, <1>4 DEF Stream, Prefix, RecverInit
<1>6. Spare(s) = 0 /\ s.sent = 0 /\ Len(RecverInit.packets) = 0
  <2>1. s.valid = FALSE /\ s.sleeping = 0 /\ s.sent = 0 /\ RecverInit.packets = << >>
    BY <1>2 DEF RecverInit
  <2> QED
    BY <2>1 DEF Spare
<1>7. Forwards(Our!Initial)
  BY DEF Forwards, RegisterNames, Our!Initial
<1> QED
  BY <1>3, <1>5, <1>6, <1>7 DEF s

LEMMA LimitType ==
  /\ MAX_SIM_CYCLE \in Nat
  /\ MAX_SIM_CYCLE >= 60 * PacketCount
<1> DEFINE limit == IF test = "arp" THEN ArpLimit ELSE IpLimit
<1>1. limit \in Nat /\ limit >= 60 /\ PacketCount \in Nat
  BY LimitsAssumption, CountAssumption
<1>2. MAX_SIM_CYCLE = PacketCount * limit
  BY DEF MAX_SIM_CYCLE
<1> HIDE DEF limit
<1>3. \A n, m \in Nat : n * m \in Nat /\ (m >= 60 => n * m >= 60 * n)
  OBVIOUS
<1> QED
  BY <1>1, <1>2, <1>3

\* What is not yet received is still to be sent.
Accounted(packets, s, v) ==
    /\ Len(v.packets) \in Nat /\ Len(s.packets) \in Nat
    /\ PacketCount = Len(v.packets) + Len(s.packets)
    /\ \A i \in 1 .. Len(v.packets) : v.packets[i] = packets[i]
    /\ s.packets # << >> =>
          Head(s.packets) = packets[Len(v.packets) + 1] /\ Head(s.packets) \in Packets
    /\ s.packets = << >> => v.packets = packets /\ v.current_packet = << >>

LEMMA Accounts ==
  ASSUME NEW packets \in [1 .. PacketCount -> Packets], NEW s, NEW v,
         SenderOK(s), Stream(packets, s, v)
  PROVE  Accounted(packets, s, v)
<1> DEFINE a == v.packets
           b == s.packets
<1>1. a \in Seq(Packets) /\ b \in Seq(Packets) /\ packets = a \o b
  BY DEF SenderOK, Stream
<1>2. Len(packets) = PacketCount
  BY CountAssumption
<1> HIDE DEF a, b
<1>3. Len(a) \in Nat /\ Len(b) \in Nat /\ (b # << >> => Len(b) > 0)
  BY <1>1, LenProperties, EmptySeq
<1>4. /\ Len(packets) = Len(a) + Len(b)
      /\ \A i \in 1 .. Len(a) + Len(b) : packets[i] = IF i <= Len(a) THEN a[i] ELSE b[i - Len(a)]
  BY <1>1, ConcatProperties
<1>5. \A i \in 1 .. Len(a) : a[i] = packets[i]
  BY <1>3, <1>4
<1>6. b # << >> => Head(b) = packets[Len(a) + 1] /\ Head(b) \in Packets
  <2> SUFFICES ASSUME b # << >> PROVE Head(b) = packets[Len(a) + 1] /\ Head(b) \in Packets
    OBVIOUS
  <2>1. Len(a) + 1 \in 1 .. Len(a) + Len(b) /\ ~ (Len(a) + 1 <= Len(a)) /\ (Len(a) + 1) - Len(a) = 1
    BY <1>3
  <2>2. packets[Len(a) + 1] = b[1]
    BY <1>4, <2>1
  <2> QED
    BY <1>1, <2>2, HeadTailProperties
<1>7. b = << >> => a = packets
  BY <1>1, ConcatEmptySeq
<1>8. b = << >> => v.current_packet = << >>
  BY DEF SenderOK, Stream, Prefix, b
<1> QED
  BY <1>2, <1>3, <1>4, <1>5, <1>6, <1>7, <1>8 DEF Accounted, a, b

LEMMA OneWayInvInit == ASSUME OneWayInit PROVE OneWayInv
<1>1. /\ test = "arp" /\ status = "running" /\ ingress \in [1 .. PacketCount -> Packets]
      /\ cycles = 0 /\ rw = Our!Initial /\ sender = SenderInit(ingress) /\ recver = RecverInit
  BY TestPackets DEF OneWayInit, Our!RewriterInit
<1>2. InTime(cycles, sender, recver)
  BY <1>1, StartIsInTime DEF InTime
<1> QED
  BY <1>1, <1>2, StartIsInTime, LimitType DEF OneWayInv

LEMMA NextTestKeeps == ASSUME OneWayInv, NextTest PROVE OneWayInv'
<1>1. PICK packets \in gen_packet_ip :
         /\ test' = "ip" /\ status' = "running" /\ ingress' = packets /\ cycles' = 0
         /\ rw' = Our!Initial /\ sender' = SenderInit(packets) /\ recver' = RecverInit
  BY DEF NextTest
<1>2. packets \in [1 .. PacketCount -> Packets]
  BY TestPackets
<1>3. /\ SenderOK(sender') /\ Stream(ingress', sender', recver') /\ Forwards(rw')
      /\ Spare(sender') = 0 /\ Len(recver'.packets) = 0 /\ sender'.sent = 0
  BY <1>1, <1>2, StartIsInTime
<1>4. InTime(cycles', sender', recver')
  BY <1>1, <1>3 DEF InTime
<1>5. cycles' \in 0 .. MAX_SIM_CYCLE'
  <2>1. MAX_SIM_CYCLE' = PacketCount * IpLimit
    BY <1>1 DEF MAX_SIM_CYCLE
  <2>2. PacketCount \in Nat /\ IpLimit \in Nat
    BY CountAssumption, LimitsAssumption
  <2>3. PacketCount * IpLimit \in Nat
    BY <2>2
  <2> QED
    BY <1>1, <2>1, <2>3
<1> QED
  BY <1>1, <1>2, <1>3, <1>4, <1>5 DEF OneWayInv

LEMMA StillInTime ==
  ASSUME NEW packets, NEW s, NEW v, SenderOK(s), Stream(packets, s, v), s.packets # << >>,
         Len(v.packets) \in Nat, NEW n \in Nat, InTime(n, s, v), NEW nap \in 0 .. 2
  PROVE  LET u == SenderEdge(s, TRUE, nap)
             w == RecverEdge(v, s.valid, Offered(s))
         IN  SenderOK(u) /\ Stream(packets, u, w) /\ InTime(n + 1, u, w)
<1> DEFINE u == SenderEdge(s, TRUE, nap)
           w == RecverEdge(v, s.valid, Offered(s))
           a == Len(v.packets)
           k == s.sent
           e == Spare(u)
<1>1. a \in Nat /\ k \in Nat
  BY DEF SenderOK
<1>2. CASE s.valid
  <2> DEFINE t == Erase(s, nap)
  <2>1. u = Propose(t) /\ w = RecverEdge(v, TRUE, Offered(s))
    BY <1>2 DEF SenderEdge, RecverEdge
  <2> HIDE DEF u, w
  <2>2. /\ t \in [packets : Seq(Packets), sent : Nat, sleeping : 0 .. 2, valid : BOOLEAN]
        /\ IF t.packets = << >> THEN t.sent = 0 ELSE t.sent < size(Head(t.packets))
        /\ Stream(packets, t, w) /\ t.sleeping = nap
        /\ \/ Len(w.packets) = a + 1 /\ k <= 152 /\ t.sent = 0
           \/ Len(w.packets) = a /\ t.sent = k + 8
    <3>1. TakenFrom(packets, s, v, nap, t, w)
      BY <1>2, <2>1, WordTaken
    <3> HIDE DEF t
    <3> QED
      BY <3>1 DEF TakenFrom
  <2> HIDE DEF t, a, k
  <2>3. /\ SenderOK(u) /\ u.packets = t.packets /\ u.sent = t.sent
        /\ u.packets # << >> => e >= 1 - nap
        /\ e \in Int /\ e >= 0 - 1
    BY <2>1, <2>2, Proposed
  <2>4. Stream(packets, u, w)
    BY <2>2, <2>3 DEF Stream
  <2>5. 8 * n <= 480 * a + 3 * k + 8
    BY <1>2, SpareIsNumber DEF InTime, a, k
  <2> HIDE DEF e
  <2>6. 8 * (n + 1) <= 480 * Len(w.packets) + 3 * u.sent + 8 * e
    <3>1. CASE Len(w.packets) = a + 1 /\ k <= 152 /\ t.sent = 0
      <4>1. 8 * (n + 1) <= 480 * (a + 1) + 3 * 0 + 8 * e
        BY <1>1, <2>3, <2>5, <3>1
      <4> QED
        BY <2>3, <3>1, <4>1
    <3>2. CASE Len(w.packets) = a /\ t.sent = k + 8
      <4>1. 8 * (n + 1) <= 480 * a + 3 * (k + 8) + 8 * e
        BY <1>1, <2>3, <2>5
      <4> QED
        BY <2>3, <3>2, <4>1
    <3> QED
      BY <2>2, <3>1, <3>2
  <2> QED
    BY <2>3, <2>4, <2>6 DEF InTime, e, u, w
<1>3. CASE ~ s.valid
  <2>1. u = Propose(s) /\ w = v
    BY <1>3 DEF SenderEdge, RecverEdge
  <2> HIDE DEF u, w
  <2>2. /\ SenderOK(u) /\ u.packets = s.packets /\ u.sent = s.sent
        /\ e >= 1 - s.sleeping /\ e \in Int
    BY <2>1, Proposed DEF SenderOK
  <2>3. Stream(packets, u, w)
    BY <2>1, <2>2 DEF Stream
  <2> DEFINE g == s.sleeping
  <2>4. g \in 0 .. 2 /\ 8 * n <= 480 * a + 3 * k + 8 * (0 - g) /\ e >= 1 - g
    BY <1>3, <2>2, SpareIsNumber DEF InTime
  <2> HIDE DEF a, k, e, g
  <2>5. 8 * (n + 1) <= 480 * a + 3 * k + 8 * e
    BY <1>1, <2>2, <2>4
  <2>6. InTime(n + 1, u, w)
    BY <2>1, <2>2, <2>5 DEF InTime, a, k, e
  <2> QED
    BY <2>2, <2>3, <2>6 DEF u, w
<1> QED
  BY <1>2, <1>3 DEF SenderOK

LEMMA TickKeeps == ASSUME OneWayInv, Tick PROVE OneWayInv'
<1>1. /\ status = "running" /\ cycles < MAX_SIM_CYCLE /\ Len(recver.packets) < PacketCount
      /\ Our!Edge(Offered(sender), FALSE, 0)
      /\ recver' = RecverEdge(recver, rw'.tvalid, rw'.out)
      /\ cycles' = cycles + 1 /\ test' = test /\ status' = status /\ ingress' = ingress
  BY DEF Tick, InLoop
<1>2. PICK nap \in 0 .. 2 : sender' = SenderEdge(sender, rw'.tready, nap)
  BY NapsAssumption DEF Tick
<1>3. /\ cycles \in 0 .. MAX_SIM_CYCLE /\ ingress \in [1 .. PacketCount -> Packets]
      /\ Forwards(rw) /\ SenderOK(sender) /\ Stream(ingress, sender, recver)
      /\ InTime(cycles, sender, recver) /\ test \in {"arp", "ip"}
  BY <1>1 DEF OneWayInv
<1>4. /\ Forwards(rw')
      /\ sender.valid => rw'.tvalid /\ rw'.out = Offered(sender)
      /\ ~ sender.valid => ~ rw'.tvalid
  BY <1>1, <1>3, OfferedBeat, RewriterForwards
<1>5. sender' = SenderEdge(sender, TRUE, nap)
  BY <1>2, <1>4 DEF Forwards
<1>6. recver' = RecverEdge(recver, sender.valid, Offered(sender))
  BY <1>1, <1>4 DEF RecverEdge
<1>7. Len(recver.packets) \in Nat /\ sender.packets # << >>
  <2>1. Accounted(ingress, sender, recver)
    BY <1>3, Accounts
  <2>2. Len(recver.packets) \in Nat /\ PacketCount = Len(recver.packets) + Len(sender.packets)
    BY <2>1 DEF Accounted
  <2> DEFINE a == Len(recver.packets)
             b == Len(sender.packets)
  <2>3. sender.packets = << >> => b = 0
    OBVIOUS
  <2>4. a < PacketCount
    BY <1>1
  <2>5. a \in Nat /\ PacketCount = a + b
    BY <2>2
  <2> HIDE DEF a, b
  <2>6. a \in Nat /\ b # 0
    BY <2>4, <2>5, CountAssumption
  <2> QED
    BY <2>2, <2>3, <2>6
<1>8. cycles \in Nat /\ cycles' \in 0 .. MAX_SIM_CYCLE'
  <2>1. MAX_SIM_CYCLE' = MAX_SIM_CYCLE /\ MAX_SIM_CYCLE \in Nat
    BY <1>1, LimitType DEF MAX_SIM_CYCLE
  <2> QED
    BY <1>1, <1>3, <2>1
<1>9. SenderOK(sender') /\ Stream(ingress, sender', recver') /\ InTime(cycles + 1, sender', recver')
  BY <1>3, <1>5, <1>6, <1>7, <1>8, StillInTime
<1> QED
  BY <1>1, <1>3, <1>4, <1>8, <1>9 DEF OneWayInv

\* A verdict comes after the last packet, and well before the limit.
LEMMA JudgeKeeps == ASSUME OneWayInv, Judge PROVE OneWayInv'
<1>1. /\ status = "running" /\ ~ (cycles < MAX_SIM_CYCLE /\ Len(recver.packets) < PacketCount)
      /\ UNCHANGED <<test, ingress, cycles, rw, sender, recver>>
      /\ status' = CASE recver.current_packet # << >> -> "corrupted"
                     [] Passes(recver.packets)        -> "passed"
                     [] OTHER                         -> "failed"
  BY DEF Judge, InLoop
<1>2. /\ cycles \in 0 .. MAX_SIM_CYCLE /\ ingress \in [1 .. PacketCount -> Packets]
      /\ Forwards(rw) /\ SenderOK(sender) /\ Stream(ingress, sender, recver)
      /\ InTime(cycles, sender, recver) /\ test \in {"arp", "ip"}
  BY <1>1 DEF OneWayInv
<1> DEFINE a == Len(recver.packets)
           b == Len(sender.packets)
           k == sender.sent
           e == Spare(sender)
<1>9. Accounted(ingress, sender, recver)
  BY <1>2, Accounts
<1>3. a \in Nat /\ b \in Nat /\ PacketCount = a + b
  BY <1>9 DEF Accounted
<1>4. sender.packets = << >>
  <2> SUFFICES ASSUME sender.packets # << >> PROVE FALSE
    OBVIOUS
  <2>1. b > 0
    BY EmptySeq, <1>2 DEF SenderOK
  <2>2. Head(sender.packets) \in Packets
    BY <1>9 DEF Accounted
  <2>3. k \in Nat /\ k <= 152
    <3> DEFINE n == size(Head(sender.packets))
    <3>1. n \in HeaderBytes .. Longest
      BY <2>2, PacketBytes
    <3>2. k \in Nat /\ k < n
      BY <1>2 DEF SenderOK
    <3> HIDE DEF n, k
    <3>3. n \in Int /\ n <= 153
      BY <3>1 DEF HeaderBytes, Longest
    <3> QED
      BY <3>2, <3>3
  <2>4. e \in Int /\ e <= 1
    BY <1>2, SpareIsNumber
  <2>5. 8 * cycles <= 480 * a + 3 * k + 8 * e
    BY <1>2 DEF InTime
  <2> HIDE DEF a, b, k, e
  <2>6. a < PacketCount /\ ~ (cycles < MAX_SIM_CYCLE)
    BY <1>1, <1>3, <2>1 DEF a
  <2>7. cycles \in Nat /\ cycles >= 60 * PacketCount
    BY <1>2, <2>6, LimitType, CountAssumption
  <2>8. 480 * PacketCount >= 480 * (a + 1)
    BY <1>3, <2>1
  <2> QED
    BY <1>3, <2>3, <2>4, <2>5, <2>7, <2>8
<1>5. recver.packets = ingress /\ recver.current_packet = << >>
  BY <1>9, <1>4 DEF Accounted
<1>6. status' = IF Passes(ingress) THEN "passed" ELSE "failed"
  BY <1>1, <1>5
<1>7. Passes(ingress)' = Passes(ingress) /\ MAX_SIM_CYCLE' = MAX_SIM_CYCLE
  BY <1>1 DEF Passes, check_nat_funtionality, MAX_SIM_CYCLE
<1>8. Judged'
  BY <1>1, <1>5, <1>6, <1>7 DEF Judged
<1> QED
  BY <1>1, <1>2, <1>6, <1>7, <1>8 DEF OneWayInv

\* The bench stays inside the limit of its loop, and what it has received is a
\* beginning of what it sends.
THEOREM BenchIsInductive == OneWaySpec => []OneWayInv
<1>1. ASSUME OneWayInv, [Next]_vars PROVE OneWayInv'
  <2>1. CASE UNCHANGED vars
    <3>1. Passes(ingress)' = Passes(ingress) /\ MAX_SIM_CYCLE' = MAX_SIM_CYCLE
      BY <2>1 DEF vars, Passes, check_nat_funtionality, MAX_SIM_CYCLE
    <3>2. Judged' = Judged
      BY <2>1, <3>1 DEF vars, Judged
    <3> QED
      BY <1>1, <2>1, <3>1, <3>2 DEF vars, OneWayInv
  <2> QED
    BY <1>1, <2>1, TickKeeps, JudgeKeeps, NextTestKeeps DEF Next
<1> QED
  BY OneWayInvInit, <1>1, PTL DEF OneWaySpec

-----------------------------------------------------------------------------
(***************************************************************************)
(* The properties of the bench.                                            *)
(***************************************************************************)
\* The counters of the bench and of its sender stay in their ranges.
THEOREM OneWayTypeCorrect == OneWaySpec => []OneWayTypeOK
<1>1. OneWayInv => OneWayTypeOK
  <2> SUFFICES ASSUME OneWayInv PROVE OneWayTypeOK
    OBVIOUS
  <2>1. sender.sleeping \in 0 .. 2
    BY DEF OneWayInv, SenderOK
  <2>2. sender.packets # << >> => sender.sent \in 0 .. size(Head(sender.packets)) - 1
    <3> SUFFICES ASSUME sender.packets # << >>
                 PROVE  sender.sent \in 0 .. size(Head(sender.packets)) - 1
      OBVIOUS
    <3>1. Head(sender.packets) \in Packets
      BY HeadTailProperties DEF OneWayInv, SenderOK
    <3> DEFINE n == size(Head(sender.packets))
               k == sender.sent
    <3>2. n \in Nat
      BY <3>1, PacketBytes
    <3>3. k \in Nat /\ k < n
      BY DEF OneWayInv, SenderOK
    <3> HIDE DEF n, k
    <3>4. k \in 0 .. n - 1
      BY <3>2, <3>3
    <3> QED
      BY <3>4 DEF n, k
  <2> QED
    BY <2>1, <2>2 DEF OneWayInv, OneWayTypeOK
<1> QED
  BY <1>1, BenchIsInductive, PTL

\* No byte is lost, added or moved between the sender and the receiver, whatever the
\* lengths of the packets and the pauses (testbench.cpp:105-174, our_ip.v:81-84).
THEOREM BytesStayInOrder == OneWaySpec => []BytesInOrder
<1>1. OneWayInv => BytesInOrder
  <2> SUFFICES ASSUME OneWayInv PROVE BytesInOrder
    OBVIOUS
  <2>1. /\ SenderOK(sender) /\ Stream(ingress, sender, recver)
        /\ ingress \in [1 .. PacketCount -> Packets]
    BY DEF OneWayInv
  <2>2. Accounted(ingress, sender, recver)
    BY <2>1, Accounts
  <2>3. DOMAIN recver.packets = 1 .. Len(recver.packets)
    BY <2>1, LenProperties DEF Stream
  <2>4. \A i \in DOMAIN recver.packets : recver.packets[i] = ingress[i]
    BY <2>2, <2>3 DEF Accounted
  <2> DEFINE k == sender.sent
             p == Head(sender.packets)
             begun == recver.current_packet
  <2>5. begun = Prefix(p, k) /\ (sender.packets = << >> => k = 0)
    BY <2>1 DEF Stream, SenderOK
  <2>6. sender.packets # << >> => p = ingress[Len(recver.packets) + 1]
    BY <2>2 DEF Accounted
  <2> HIDE DEF k, p, begun
  <2>7. begun # << >> => k # 0 /\ begun = [j \in 0 .. k - 1 |-> p[j]]
    BY <2>5 DEF Prefix
  <2>8. begun # << >> => \A j \in DOMAIN begun : begun[j] = p[j]
    BY <2>7
  <2> QED
    BY <2>4, <2>5, <2>6, <2>7, <2>8 DEF BytesInOrder, begun
<1> QED
  BY <1>1, BenchIsInductive, PTL

\* The limits of testbench.cpp:298 and 437 are never the reason that a test ends: a
\* word takes three cycles at most and the longest packet has 20 words.
THEOREM TheLimitIsEnough == OneWaySpec => []LimitIsEnough
<1>1. OneWayInv => LimitIsEnough
  <2> SUFFICES ASSUME OneWayInv, status # "running"
               PROVE  Len(recver.packets) = PacketCount /\ status # "corrupted"
    BY DEF LimitIsEnough
  <2>1. Judged /\ ingress \in [1 .. PacketCount -> Packets]
    BY DEF OneWayInv
  <2>2. Len(ingress) = PacketCount
    BY <2>1, CountAssumption
  <2> QED
    BY <2>1, <2>2 DEF Judged
<1> QED
  BY <1>1, BenchIsInductive, PTL

\* test_arp never fails, so that main goes on to test_ip (testbench.cpp:294-305, 447).
THEOREM ArpTestAlwaysPasses == OneWaySpec => []ArpTestPasses
<1>1. OneWayInv => ArpTestPasses
  <2> SUFFICES ASSUME OneWayInv, test = "arp", status # "running" PROVE status # "failed"
    BY DEF ArpTestPasses
  <2>1. Passes(ingress)
    BY DEF Passes, Check!exact_compare
  <2> QED
    BY <2>1 DEF OneWayInv, Judged
<1> QED
  BY <1>1, BenchIsInductive, PTL

\* The lemmas about the loop of the check, for packets of bytes.
Loop == INSTANCE PacketCheckProofs WITH Tuple5Of <- tuple5

LEMMA SameLoop ==
  ASSUME NEW packets, NEW i
  PROVE  /\ Loop!Mapped(packets, packets, i) <=> Check!Mapped(packets, packets, i)
         /\ Loop!PortWanted(packets, i) = Check!PortWanted(packets, i)
<1>1. \A S : Loop!Cardinality(S) = Check!Cardinality(S)
  BY DEF Loop!Cardinality, Check!Cardinality
<1>2. \A k : Loop!Earlier(packets, k) = Check!Earlier(packets, k)
  BY DEF Loop!Earlier, Check!Earlier
<1>3. \A k : Loop!Known(packets, k) = Check!Known(packets, k)
  BY <1>2 DEF Loop!Known, Check!Known
<1>4. \A f : Loop!IsFirst(packets, f, i) <=> Check!IsFirst(packets, f, i)
  BY <1>3 DEF Loop!IsFirst, Check!IsFirst
<1>5. Loop!PortWanted(packets, i) = Check!PortWanted(packets, i)
  BY <1>1, <1>3, <1>4 DEF Loop!PortWanted, Check!PortWanted
<1>6. Loop!Mapped(packets, packets, i) <=> Check!Mapped(packets, packets, i)
  BY <1>1, <1>2, <1>3 DEF Loop!Mapped, Check!Mapped
<1> QED
  BY <1>5, <1>6

\* The verdict of test_ip, for all packets, tuples and pauses: it passes exactly if the
\* source ports happen to be the numbers that the check wants, because no packet of
\* this bench is translated (testbench.cpp:309-394, 431-443).
THEOREM IpTestComesToThis == OneWaySpec => []IpVerdict
<1>1. OneWayInv => IpVerdict
  <2> SUFFICES ASSUME OneWayInv, test = "ip", status # "running"
               PROVE  status = "passed" <=> \A i \in DOMAIN ingress :
                         \/ IsArp(ingress[i])
                         \/ PortOf(tuple5(ingress[i])) = Check!PortWanted(ingress, i)
    BY DEF IpVerdict, PortOf
  <2>1. DOMAIN ingress = 1 .. PacketCount /\ PacketCount \in Nat
    BY CountAssumption DEF OneWayInv
  <2>2. status = "passed" <=> \A i \in 1 .. PacketCount :
                                 IsArp(ingress[i]) \/ Check!Mapped(ingress, ingress, i)
    <3>1. status = "passed" <=> check_nat_funtionality(ingress, ingress)
      BY DEF OneWayInv, Judged, Passes
    <3>2. \A i \in 1 .. PacketCount : Check!Unharmed(ingress[i], ingress[i])
      BY DEF Check!Unharmed
    <3> QED
      BY <2>1, <3>1, <3>2 DEF check_nat_funtionality, Check!Forwarded
  <2>3. (\A i \in 1 .. PacketCount : IsArp(ingress[i]) \/ Loop!Mapped(ingress, ingress, i))
        <=> \A i \in 1 .. PacketCount :
               \/ IsArp(ingress[i])
               \/ PortOf(tuple5(ingress[i])) = Loop!PortWanted(ingress, i)
    <3>1. \A i, j \in 1 .. PacketCount : tuple5(ingress[i]) = tuple5(ingress[j])
                                         => tuple5(ingress[i]) = tuple5(ingress[j])
      OBVIOUS
    <3> QED
      BY <2>1, <3>1, Loop!MappedByPorts
  <2> QED
    BY <2>1, <2>2, <2>3, SameLoop
<1> QED
  BY <1>1, BenchIsInductive, PTL
=============================================================================
