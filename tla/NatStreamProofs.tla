-------------------------- MODULE NatStreamProofs --------------------------
(***************************************************************************)
(* What one clock edge does to one direction of the system, a sender, a    *)
(* rewriter and a receiver, for all packets, pauses and answers.           *)
(***************************************************************************)
EXTENDS NatSystem, NatTableProofs, SequenceTheorems

RegisterNames == {"tready", "tvalid", "out", "byte_cnt", "is_custom_ip", "protocol", "src_ip",
                  "dst_ip", "src_port", "dst_port", "tuple_valid", "hash_stage"}

\* A rewriter that shows a request holds its input, and the other way round.
Holding(r) ==
    /\ DOMAIN r = RegisterNames
    /\ r.tready \in BOOLEAN /\ r.tvalid \in BOOLEAN /\ r.is_custom_ip \in BOOLEAN
    /\ r.hash_stage \in BOOLEAN
    /\ r.tuple_valid = r.hash_stage /\ r.tready = ~ r.hash_stage

LEMMA TxHolding ==
  ASSUME Holding(tx), NEW b, NEW v, NEW d, Tx!Edge(b, v, d)
  PROVE  /\ Holding(tx')
         /\ tx.hash_stage /\ ~ v => tx' = tx
         /\ v /\ tx.hash_stage => ~ tx'.hash_stage
<1> USE DEF Holding, RegisterNames
<1>1. CASE Tx!Accept(b)
  BY <1>1 DEF Tx!Accept, Tx!Count, Tx!Hold, Tx!Pass, Tx!Parse
<1>2. CASE Tx!Rewrite(b, v, d)
  BY <1>2 DEF Tx!Rewrite
<1>3. CASE Tx!Await(b, v)
  BY <1>3 DEF Tx!Await
<1>4. CASE Tx!Gap(b)
  BY <1>4 DEF Tx!Gap
<1> QED
  BY <1>1, <1>2, <1>3, <1>4 DEF Tx!Edge

LEMMA RxHolding ==
  ASSUME Holding(rx), NEW b, NEW v, NEW d, Rx!Edge(b, v, d)
  PROVE  /\ Holding(rx')
         /\ rx.hash_stage /\ ~ v => rx' = rx
         /\ v /\ rx.hash_stage => ~ rx'.hash_stage
<1> USE DEF Holding, RegisterNames
<1>1. CASE Rx!Accept(b)
  BY <1>1 DEF Rx!Accept, Rx!Count, Rx!Hold, Rx!Pass, Rx!Parse
<1>2. CASE Rx!Rewrite(b, v, d)
  BY <1>2 DEF Rx!Rewrite
<1>3. CASE Rx!Await(b, v)
  BY <1>3 DEF Rx!Await
<1>4. CASE Rx!Gap(b)
  BY <1>4 DEF Rx!Gap
<1> QED
  BY <1>1, <1>2, <1>3, <1>4 DEF Rx!Edge

-----------------------------------------------------------------------------
\* The edges of a rewriter whose registers are r before and new after, with the
\* beat b on its input: what a word leaves in the registers, ...
Learns(r, pkt, new) ==
    /\ new.protocol = IF r.byte_cnt = 2 THEN pkt.proto ELSE r.protocol
    /\ new.src_ip = IF r.byte_cnt = 3 THEN pkt.src ELSE r.src_ip
    /\ r.byte_cnt = 4 =>
          new.dst_ip = pkt.dst /\ new.src_port = pkt.sport /\ new.dst_port = pkt.dport
Counts(r, b, new) ==
    /\ new.byte_cnt = IF b.last THEN 0 ELSE Tx!NextWord(r.byte_cnt)
    /\ ~ b.last => (new.is_custom_ip <=> IF r.byte_cnt = 1 THEN b.pkt.ether = Tx!Custom
                                                           ELSE r.is_custom_ip)
MustHold(r) == r.byte_cnt = 4 /\ r.is_custom_ip /\ r.protocol = Tx!TCP
Rests(r, new) == /\ new.byte_cnt = r.byte_cnt /\ new.is_custom_ip = r.is_custom_ip
                 /\ new.protocol = r.protocol /\ new.src_ip = r.src_ip

\* ... a word that passes, one that is held, the answer to a held one, the wait
\* for it, and an edge without a word.
Passes(b, r, new) ==
    /\ b # NoBeat /\ r.tready /\ ~ MustHold(r)
    /\ new.tready /\ new.tvalid /\ new.out = b
    /\ Learns(r, b.pkt, new) /\ Counts(r, b, new)
Holds(b, r, new) ==
    /\ b # NoBeat /\ r.tready /\ MustHold(r)
    /\ ~ new.tready /\ ~ new.tvalid /\ new.out = b
    /\ Learns(r, b.pkt, new) /\ Counts(r, b, new)
Answers(v, d, r, new) ==
    /\ ~ r.tready /\ v
    /\ new.tready /\ new.tvalid /\ new.out = [r.out EXCEPT !.pkt = [@ EXCEPT !.sport = d]]
    /\ Rests(r, new)
Waits(v, r, new)  == ~ r.tready /\ ~ v /\ new = r
Pauses(b, r, new) == b = NoBeat /\ r.tready /\ new.tready /\ ~ new.tvalid /\ Rests(r, new)

Works(b, v, d, r, new) == \/ Passes(b, r, new) \/ Holds(b, r, new)
                          \/ Answers(v, d, r, new) \/ Waits(v, r, new) \/ Pauses(b, r, new)

LEMMA TxWorks ==
  ASSUME Holding(tx), NEW b, NEW v, NEW d, Tx!Edge(b, v, d)
  PROVE  Works(b, v, d, tx, tx')
<1> USE DEF Holding, RegisterNames
<1>1. CASE Tx!Accept(b)
  <2> DEFINE parsed == [Tx!Parse(b.pkt) EXCEPT !.out = b]
             held == IF Tx!Translates THEN Tx!Hold(parsed) ELSE Tx!Pass(parsed)
  <2>1. /\ DOMAIN parsed = RegisterNames /\ parsed.out = b
        /\ parsed.tready = tx.tready /\ parsed.byte_cnt = tx.byte_cnt
        /\ parsed.is_custom_ip = IF tx.byte_cnt = 1 THEN b.pkt.ether = Tx!Custom
                                                    ELSE tx.is_custom_ip
        /\ Learns(tx, b.pkt, parsed)
    BY DEF Tx!Parse, Learns
  <2> HIDE DEF parsed
  <2>2. /\ DOMAIN held = RegisterNames /\ held.out = b
        /\ held.byte_cnt = tx.byte_cnt
        /\ held.is_custom_ip = parsed.is_custom_ip
        /\ Learns(tx, b.pkt, held)
        /\ IF Tx!Translates THEN ~ held.tready /\ ~ held.tvalid
                            ELSE held.tready /\ held.tvalid
    BY <1>1, <2>1 DEF Tx!Hold, Tx!Pass, Learns, Tx!Accept
  <2>3. tx' = Tx!Count(held, b.last) /\ b # NoBeat /\ tx.tready
    BY <1>1 DEF Tx!Accept, parsed
  <2> HIDE DEF held
  <2>4. /\ tx'.out = b /\ tx'.tready = held.tready /\ tx'.tvalid = held.tvalid
        /\ Learns(tx, b.pkt, tx') /\ Counts(tx, b, tx')
    BY <2>1, <2>2, <2>3 DEF Tx!Count, Learns, Counts
  <2>5. Tx!Translates <=> MustHold(tx)
    BY DEF Tx!Translates, MustHold
  <2> QED
    BY <2>2, <2>3, <2>4, <2>5 DEF Works, Passes, Holds
<1>2. CASE Tx!Rewrite(b, v, d)
  BY <1>2 DEF Tx!Rewrite, Works, Answers, Rests
<1>3. CASE Tx!Await(b, v)
  BY <1>3 DEF Tx!Await, Works, Waits
<1>4. CASE Tx!Gap(b)
  BY <1>4 DEF Tx!Gap, Tx!Blocked, Works, Pauses, Rests
<1> QED
  BY <1>1, <1>2, <1>3, <1>4 DEF Tx!Edge

LEMMA RxWorks ==
  ASSUME Holding(rx), NEW b, NEW v, NEW d, Rx!Edge(b, v, d)
  PROVE  Works(b, v, d, rx, rx')
<1> USE DEF Holding, RegisterNames
<1>1. CASE Rx!Accept(b)
  <2> DEFINE parsed == [Rx!Parse(b.pkt) EXCEPT !.out = b]
             held == IF Rx!Translates THEN Rx!Hold(parsed) ELSE Rx!Pass(parsed)
  <2>1. /\ DOMAIN parsed = RegisterNames /\ parsed.out = b
        /\ parsed.tready = rx.tready /\ parsed.byte_cnt = rx.byte_cnt
        /\ parsed.is_custom_ip = IF rx.byte_cnt = 1 THEN b.pkt.ether = Tx!Custom
                                                    ELSE rx.is_custom_ip
        /\ Learns(rx, b.pkt, parsed)
    BY DEF Rx!Parse, Learns, Rx!Custom, Tx!Custom
  <2> HIDE DEF parsed
  <2>2. /\ DOMAIN held = RegisterNames /\ held.out = b
        /\ held.byte_cnt = rx.byte_cnt
        /\ held.is_custom_ip = parsed.is_custom_ip
        /\ Learns(rx, b.pkt, held)
        /\ IF Rx!Translates THEN ~ held.tready /\ ~ held.tvalid
                            ELSE held.tready /\ held.tvalid
    BY <1>1, <2>1 DEF Rx!Hold, Rx!Pass, Learns, Rx!Accept
  <2>3. rx' = Rx!Count(held, b.last) /\ b # NoBeat /\ rx.tready
    BY <1>1 DEF Rx!Accept, parsed
  <2> HIDE DEF held
  <2>4. /\ rx'.out = b /\ rx'.tready = held.tready /\ rx'.tvalid = held.tvalid
        /\ Learns(rx, b.pkt, rx') /\ Counts(rx, b, rx')
    BY <2>1, <2>2, <2>3 DEF Rx!Count, Learns, Counts, Rx!NextWord, Tx!NextWord,
       Rx!PayloadWord, Tx!PayloadWord
  <2>5. Rx!Translates <=> MustHold(rx)
    BY DEF Rx!Translates, MustHold, Rx!TCP, Tx!TCP
  <2> QED
    BY <2>2, <2>3, <2>4, <2>5 DEF Works, Passes, Holds
<1>2. CASE Rx!Rewrite(b, v, d)
  BY <1>2 DEF Rx!Rewrite, Works, Answers, Rests
<1>3. CASE Rx!Await(b, v)
  BY <1>3 DEF Rx!Await, Works, Waits
<1>4. CASE Rx!Gap(b)
  BY <1>4 DEF Rx!Gap, Rx!Blocked, Works, Pauses, Rests
<1> QED
  BY <1>1, <1>2, <1>3, <1>4 DEF Rx!Edge

-----------------------------------------------------------------------------
Upto(n) == IF n <= 5 THEN n ELSE 5

LEMMA NextWordUpto == \A n \in Nat : Tx!NextWord(Upto(n)) = Upto(n + 1)
  BY DEF Upto, Tx!NextWord, Tx!PayloadWord

\* A sender offers the word it is at; a nap is over when it offers one.
SenderOK(s) ==
    /\ s \in [packets : Seq(Packets), word : Nat, sleeping : 0 .. 2, valid : BOOLEAN]
    /\ s.valid => s.sleeping = 0 /\ s.packets # << >>
    /\ IF s.packets = << >> THEN s.word = 0 ELSE s.word < Head(s.packets).len
RecverOK(v) == v \in [packets : Seq(Seq(Beats)), current : Seq(Beats)]

\* What the sender of src still has is what the receiver v has not completed, ...
Remaining(src, s, v) ==
    /\ src \in Seq(Packets)
    /\ Len(src) = Len(v.packets) + Len(s.packets)
    /\ \A k \in 1 .. Len(s.packets) : s.packets[k] = src[Len(v.packets) + k]

\* ... complete packets carry what was sent, the incomplete one what was taken, ...
Delivered(src, s, v) ==
    /\ \A i \in 1 .. Len(v.packets) :
          Len(v.packets[i]) = src[i].len /\ Carries(v.packets[i], src[i])
    /\ Len(v.current) = s.word
    /\ Carries(v.current, Head(s.packets))

\* ... and the registers hold what they need of the packet on the wire, up to the
\* word with the ports, which stays offered while it is held.
Request(r) == [src |-> r.src_ip, sport |-> r.src_port, dst |-> r.dst_ip, dport |-> r.dst_port]
Reads(s, r) ==
    LET p == Head(s.packets)
    IN  /\ r.tready =>
              /\ r.byte_cnt = Upto(s.word)
              /\ s.word \in 2 .. 4 => (r.is_custom_ip <=> p.ether = Tx!Custom)
              /\ s.word \in 3 .. 4 => r.protocol = p.proto
              /\ s.word = 4 => r.src_ip = p.src
        /\ ~ r.tready =>
              /\ s.valid /\ s.word = 4 /\ r.byte_cnt = 5 /\ IsTranslated(p)
              /\ ~ r.tvalid /\ r.out = Offered(s) /\ Request(r) = TupleOf(p)

Link(src, s, r, v) == /\ Holding(r) /\ SenderOK(s) /\ RecverOK(v)
                      /\ Remaining(src, s, v) /\ Delivered(src, s, v) /\ Reads(s, r)

\* The beat that leaves when a word is taken: the word itself, but for the port.
SentAs(s, out) ==
    LET p == Head(s.packets)
    IN  /\ out \in Beats /\ out.word = s.word /\ out.last = (s.word = p.len - 1)
        /\ out.pkt = IF s.word = 4 /\ IsTranslated(p)
                     THEN [p EXCEPT !.sport = out.pkt.sport] ELSE p

LEMMA PacketLength == \A p \in Packets : p.len \in Nat /\ p.len > 6
  BY DEF Packets

LEMMA Shift == \A a, k \in Nat : a + (k + 1) = (a + 1) + k
  OBVIOUS
LEMMA Moved == \A a, b \in Nat : (a + 1) + (b - 1) = a + b
  OBVIOUS
LEMMA Inside ==
  \A a, b \in Nat :
      /\ \A i \in 1 .. a : i \in 1 .. a + b
      /\ 1 \in 1 .. b => a + 1 \in 1 .. a + b
  OBVIOUS
LEMMA Before == \A n \in Nat : (n + 1) - 1 = n
  OBVIOUS
LEMMA Split == \A n \in Nat : \A i \in 1 .. n + 1 : i \in 1 .. n \/ i = n + 1
  OBVIOUS

LEMMA FirstAndRest ==
  ASSUME NEW S, NEW q \in Seq(S), q # << >>
  PROVE  /\ Head(q) \in S /\ Head(q) = q[1] /\ Len(q) \in Nat /\ Len(q) > 0
         /\ Tail(q) \in Seq(S) /\ Len(Tail(q)) = Len(q) - 1
         /\ \A k \in 1 .. Len(q) - 1 : Tail(q)[k] = q[k + 1]
  OBVIOUS

LEMMA Appended ==
  ASSUME NEW S, NEW q \in Seq(S), NEW e \in S
  PROVE  /\ Append(q, e) \in Seq(S) /\ Len(q) \in Nat
         /\ Len(Append(q, e)) = Len(q) + 1
         /\ \A k \in 1 .. Len(q) : Append(q, e)[k] = q[k]
         /\ Append(q, e)[Len(q) + 1] = e
  BY AppendProperties

\* A word is taken by the receiver on the edge on which the sender drops it.
LEMMA LastWordTaken ==
  ASSUME NEW src, NEW s, NEW v, SenderOK(s), s.packets # << >>, RecverOK(v),
         Remaining(src, s, v), Delivered(src, s, v),
         NEW out, SentAs(s, out), out.last, NEW nap \in 0 .. 2
  PROVE  LET t == Drop(s, nap)
             w == RecverEdge(v, TRUE, out)
         IN  /\ t \in [packets : Seq(Packets), word : Nat, sleeping : 0 .. 2, valid : BOOLEAN]
             /\ t.word = 0
             /\ RecverOK(w) /\ Remaining(src, t, w) /\ Delivered(src, t, w)
<1> DEFINE t == Drop(s, nap)
           w == RecverEdge(v, TRUE, out)
           p == Head(s.packets)
           beats == Append(v.current, out)
<1>1. /\ s.packets \in Seq(Packets) /\ s.word \in Nat /\ s.valid \in BOOLEAN
      /\ v.packets \in Seq(Seq(Beats)) /\ v.current \in Seq(Beats) /\ out \in Beats
      /\ DOMAIN s = {"packets", "word", "sleeping", "valid"}
  BY DEF SenderOK, RecverOK, SentAs
<1>2. /\ p \in Packets /\ p = s.packets[1] /\ Len(s.packets) \in Nat /\ Len(s.packets) > 0
      /\ Tail(s.packets) \in Seq(Packets) /\ Len(Tail(s.packets)) = Len(s.packets) - 1
      /\ \A k \in 1 .. Len(s.packets) - 1 : Tail(s.packets)[k] = s.packets[k + 1]
  BY <1>1, FirstAndRest
<1>3. p.len \in Nat /\ s.word = p.len - 1
  BY <1>2, PacketLength DEF SentAs
<1>4. t = [packets |-> Tail(s.packets), word |-> 0, sleeping |-> nap, valid |-> s.valid]
  BY <1>1, <1>3 DEF Drop, SenderOK
<1>5. /\ t \in [packets : Seq(Packets), word : Nat, sleeping : 0 .. 2, valid : BOOLEAN]
      /\ t.packets = Tail(s.packets) /\ t.word = 0
  BY <1>1, <1>2, <1>4
<1>6. w = [packets |-> Append(v.packets, beats), current |-> << >>]
  BY DEF RecverEdge
<1>7. /\ beats \in Seq(Beats) /\ Len(beats) = s.word + 1
      /\ \A i \in 1 .. s.word : beats[i] = v.current[i]
      /\ beats[s.word + 1] = out
  BY <1>1, Appended DEF Delivered
<1>8. Carries(beats, p)
  <2>1. DOMAIN beats = 1 .. s.word + 1 /\ DOMAIN v.current = 1 .. s.word
    BY <1>1, <1>7 DEF Delivered
  <2> QED
    BY <1>1, <1>3, <1>7, <2>1 DEF Delivered, Carries, SentAs
<1> HIDE DEF t, w, beats, p
<1>9. /\ Append(v.packets, beats) \in Seq(Seq(Beats))
      /\ Len(v.packets) \in Nat /\ Len(Append(v.packets, beats)) = Len(v.packets) + 1
      /\ \A i \in 1 .. Len(v.packets) : Append(v.packets, beats)[i] = v.packets[i]
      /\ Append(v.packets, beats)[Len(v.packets) + 1] = beats
  <2> DEFINE T == Seq(Beats)
  <2>1. beats \in T /\ v.packets \in Seq(T)
    BY <1>1, <1>7
  <2> HIDE DEF T
  <2>2. /\ Append(v.packets, beats) \in Seq(T)
        /\ Len(v.packets) \in Nat /\ Len(Append(v.packets, beats)) = Len(v.packets) + 1
        /\ \A i \in 1 .. Len(v.packets) : Append(v.packets, beats)[i] = v.packets[i]
        /\ Append(v.packets, beats)[Len(v.packets) + 1] = beats
    BY <2>1, Appended
  <2> QED
    BY <2>2 DEF T
<1>10. /\ RecverOK(w) /\ w.current = << >> /\ Len(w.packets) = Len(v.packets) + 1
       /\ \A i \in 1 .. Len(v.packets) : w.packets[i] = v.packets[i]
       /\ w.packets[Len(v.packets) + 1] = beats
  BY <1>6, <1>9 DEF RecverOK
<1>15. Len(v.packets) \in Nat
  BY <1>9
<1>16. Len(s.packets) \in Nat
  BY <1>2
<1>11. p = src[Len(v.packets) + 1]
  <2>1. 1 \in 1 .. Len(s.packets)
    BY <1>2
  <2> QED
    BY <1>2, <2>1 DEF Remaining
<1>12. Remaining(src, t, w)
  <2>1. src \in Seq(Packets) /\ Len(src) = Len(v.packets) + Len(s.packets)
    BY DEF Remaining
  <2>2. Len(src) = Len(w.packets) + Len(t.packets)
    <3>1. Len(w.packets) = Len(v.packets) + 1 /\ Len(t.packets) = Len(s.packets) - 1
      BY <1>2, <1>5, <1>10
    <3>2. (Len(v.packets) + 1) + (Len(s.packets) - 1) = Len(v.packets) + Len(s.packets)
      BY <1>15, <1>16, Moved
    <3> QED
      BY <2>1, <3>1, <3>2
  <2>3. ASSUME NEW k \in 1 .. Len(t.packets)
        PROVE  t.packets[k] = src[Len(w.packets) + k]
    <3>1. k \in 1 .. Len(s.packets) - 1 /\ k + 1 \in 1 .. Len(s.packets)
      BY <1>2, <1>5
    <3>2. t.packets[k] = src[Len(v.packets) + (k + 1)]
      BY <1>2, <1>5, <3>1 DEF Remaining
    <3>3. Len(w.packets) = Len(v.packets) + 1
      BY <1>10
    <3>4. Len(v.packets) + (k + 1) = (Len(v.packets) + 1) + k
      <4>1. k \in Nat
        BY <1>16, <3>1
      <4> QED
        BY <1>15, <4>1, Shift
    <3> QED
      BY <3>2, <3>3, <3>4
  <2> QED
    BY <2>1, <2>2, <2>3 DEF Remaining
<1>13. Delivered(src, t, w)
  <2>1. ASSUME NEW i \in 1 .. Len(w.packets)
        PROVE  Len(w.packets[i]) = src[i].len /\ Carries(w.packets[i], src[i])
    <3>1. CASE i \in 1 .. Len(v.packets)
      BY <1>10, <3>1 DEF Delivered
    <3>2. CASE i = Len(v.packets) + 1
      BY <1>1, <1>3, <1>7, <1>8, <1>10, <1>11, <3>2
    <3>3. i \in Nat /\ 1 <= i /\ i <= Len(v.packets) + 1
      BY <1>10, <1>15
    <3> QED
      BY <1>15, <3>1, <3>2, <3>3
  <2>2. Len(w.current) = t.word /\ Carries(w.current, Head(t.packets))
    BY <1>5, <1>10 DEF Carries
  <2> QED
    BY <2>1, <2>2 DEF Delivered
<1> QED
  BY <1>5, <1>10, <1>12, <1>13 DEF t, w

LEMMA NextWordTaken ==
  ASSUME NEW src, NEW s, NEW v, SenderOK(s), s.packets # << >>, RecverOK(v),
         Remaining(src, s, v), Delivered(src, s, v),
         NEW out, SentAs(s, out), ~ out.last, NEW nap \in 0 .. 2
  PROVE  LET t == Drop(s, nap)
             w == RecverEdge(v, TRUE, out)
         IN  /\ t = [s EXCEPT !.word = s.word + 1, !.sleeping = nap]
             /\ s.word + 1 < Head(s.packets).len
             /\ RecverOK(w) /\ Remaining(src, t, w) /\ Delivered(src, t, w)
<1> DEFINE t == Drop(s, nap)
           w == RecverEdge(v, TRUE, out)
           p == Head(s.packets)
           beats == Append(v.current, out)
<1>1. /\ s.packets \in Seq(Packets) /\ s.word \in Nat
      /\ v.packets \in Seq(Seq(Beats)) /\ v.current \in Seq(Beats) /\ out \in Beats
      /\ DOMAIN s = {"packets", "word", "sleeping", "valid"}
      /\ v = [packets |-> v.packets, current |-> v.current]
  BY DEF SenderOK, RecverOK, SentAs
<1>13. s.word \in Nat
  BY <1>1
<1>2. p \in Packets /\ p.len \in Nat
  BY <1>1, FirstAndRest, PacketLength
<1>3. s.word < p.len /\ s.word # p.len - 1
  BY <1>2 DEF SenderOK, SentAs
<1>4. t = [s EXCEPT !.word = s.word + 1, !.sleeping = nap]
  BY <1>3 DEF Drop
<1>5. t.packets = s.packets /\ t.word = s.word + 1
  BY <1>1, <1>4
<1>6. w = [packets |-> v.packets, current |-> beats]
  BY <1>1 DEF RecverEdge
<1>7. /\ beats \in Seq(Beats) /\ Len(beats) = s.word + 1
      /\ \A i \in 1 .. s.word : beats[i] = v.current[i]
      /\ beats[s.word + 1] = out
  BY <1>1, Appended DEF Delivered
<1>8. Carries(beats, p)
  <2>1. DOMAIN beats = 1 .. s.word + 1 /\ DOMAIN v.current = 1 .. s.word
    BY <1>1, <1>7 DEF Delivered
  <2>2. /\ Carries(v.current, p)
        /\ out.word = s.word /\ out.last = (s.word + 1 = p.len)
        /\ out.pkt = IF s.word + 1 = 5 /\ IsTranslated(p)
                     THEN [p EXCEPT !.sport = out.pkt.sport] ELSE p
    BY <1>1, <1>2 DEF Delivered, SentAs
  <2> HIDE DEF p, beats
  <2>3. ASSUME NEW i \in 1 .. s.word + 1, i # s.word + 1
        PROVE  i \in 1 .. s.word
    BY <1>13, <2>3, Split
  <2>4. ASSUME NEW i \in DOMAIN beats
        PROVE  /\ beats[i].word = i - 1 /\ beats[i].last = (i = p.len)
               /\ beats[i].pkt = IF i = 5 /\ IsTranslated(p)
                                 THEN [p EXCEPT !.sport = beats[i].pkt.sport] ELSE p
    <3>1. CASE i = s.word + 1
      <4>1. i - 1 = s.word
        BY <1>13, <3>1, Before
      <4>2. beats[i] = out
        BY <1>7, <3>1
      <4> QED
        BY <2>2, <3>1, <4>1, <4>2
    <3>2. CASE i # s.word + 1
      <4>1. i \in 1 .. s.word
        BY <2>1, <2>3, <3>2
      <4>2. beats[i] = v.current[i] /\ i \in DOMAIN v.current
        BY <1>7, <2>1, <4>1
      <4> QED
        BY <2>2, <4>2 DEF Carries
    <3> QED
      BY <3>1, <3>2
  <2> QED
    BY <2>4 DEF Carries
<1> HIDE DEF t, w, beats
<1>9. w.packets = v.packets /\ w.current = beats /\ RecverOK(w)
  BY <1>1, <1>6, <1>7 DEF RecverOK
<1>10. Remaining(src, t, w)
  BY <1>5, <1>9 DEF Remaining
<1>11. Delivered(src, t, w)
  BY <1>5, <1>7, <1>8, <1>9 DEF Delivered
<1>12. s.word + 1 < p.len
  BY <1>1, <1>2, <1>3
<1> QED
  BY <1>4, <1>9, <1>10, <1>11, <1>12 DEF t, w

\* The end of the edge: the next word is offered unless the sender naps.
LEMMA ProposeKeeps ==
  ASSUME NEW t \in [packets : Seq(Packets), word : Nat, sleeping : 0 .. 2, valid : BOOLEAN],
         IF t.packets = << >> THEN t.word = 0 ELSE t.word < Head(t.packets).len
  PROVE  /\ SenderOK(Propose(t))
         /\ Propose(t).packets = t.packets /\ Propose(t).word = t.word
<1>1. CASE t.sleeping > 0
  <2>1. Propose(t) = [packets |-> t.packets, word |-> t.word,
                      sleeping |-> t.sleeping - 1, valid |-> FALSE]
    BY <1>1 DEF Propose
  <2> QED
    BY <1>1, <2>1 DEF SenderOK
<1>2. CASE ~ (t.sleeping > 0)
  <2> DEFINE offers == (t.packets # << >>)
             u == [t EXCEPT !.valid = offers]
  <2>1. t.sleeping = 0 /\ Propose(t) = u
    BY <1>2 DEF Propose
  <2>2. offers \in BOOLEAN /\ (offers => t.packets # << >>)
    OBVIOUS
  <2> HIDE DEF offers
  <2>3. /\ u \in [packets : Seq(Packets), word : Nat, sleeping : 0 .. 2, valid : BOOLEAN]
        /\ u.packets = t.packets /\ u.word = t.word /\ u.sleeping = t.sleeping
        /\ u.valid = offers
    BY <2>2
  <2> HIDE DEF u
  <2>4. SenderOK(u)
    BY <2>1, <2>2, <2>3 DEF SenderOK
  <2> QED
    BY <2>1, <2>3, <2>4
<1> QED
  BY <1>1, <1>2

LEMMA OfferedBeat ==
  ASSUME NEW s, SenderOK(s)
  PROVE  /\ s.valid => /\ Head(s.packets) \in Packets
                       /\ Offered(s) \in Beats /\ Offered(s) # NoBeat
                       /\ Offered(s).pkt = Head(s.packets) /\ Offered(s).word = s.word
                       /\ Offered(s).last = (s.word = Head(s.packets).len - 1)
         /\ ~ s.valid => Offered(s) = NoBeat
<1>1. s.packets \in Seq(Packets) /\ s.word \in Nat /\ s.valid \in BOOLEAN
  BY DEF SenderOK
<1>2. s.valid => Head(s.packets) \in Packets
  BY <1>1, FirstAndRest DEF SenderOK
<1>3. s.valid => Offered(s) \in Beats
  BY <1>1, <1>2 DEF Offered, Beats
<1> QED
  BY <1>2, <1>3, NoBeatAssumption DEF Offered

\* The registers after a word has been taken, t being the sender that dropped it.
LEMMA PassReads ==
  ASSUME NEW s, NEW r, NEW new, NEW t, SenderOK(s), s.valid, Reads(s, r),
         Passes(Offered(s), r, new),
         t.word = IF s.word = Head(s.packets).len - 1 THEN 0 ELSE s.word + 1,
         s.word # Head(s.packets).len - 1 => t.packets = s.packets
  PROVE  Reads(t, new)
<1> DEFINE p == Head(s.packets)
<1>1. s.word \in Nat /\ p \in Packets /\ Offered(s).pkt = p
      /\ Offered(s).last = (s.word = p.len - 1)
  BY OfferedBeat DEF SenderOK
<1>2. /\ r.tready /\ r.byte_cnt = Upto(s.word)
      /\ new.tready
      /\ Learns(r, p, new)
      /\ new.byte_cnt = IF s.word = p.len - 1 THEN 0 ELSE Upto(s.word + 1)
      /\ s.word # p.len - 1 =>
            (new.is_custom_ip <=> IF r.byte_cnt = 1 THEN p.ether = Tx!Custom
                                                    ELSE r.is_custom_ip)
  BY <1>1, NextWordUpto DEF Passes, Reads, Counts
<1>3. /\ s.word \in 2 .. 4 => (r.is_custom_ip <=> p.ether = Tx!Custom)
      /\ s.word \in 3 .. 4 => r.protocol = p.proto
      /\ s.word = 4 => r.src_ip = p.src
  BY <1>2 DEF Reads
<1> HIDE DEF p
<1>4. CASE s.word = p.len - 1
  BY <1>2, <1>4 DEF Reads, Upto, p
<1>5. CASE s.word # p.len - 1
  <2>1. t.word = s.word + 1 /\ Head(t.packets) = p
    BY <1>5 DEF p
  <2>2. new.byte_cnt = Upto(t.word)
    BY <1>2, <1>5, <2>1
  <2>3. t.word \in 2 .. 4 => (new.is_custom_ip <=> p.ether = Tx!Custom)
    BY <1>1, <1>2, <1>3, <1>5, <2>1 DEF Upto
  <2>4. t.word \in 3 .. 4 => new.protocol = p.proto
    BY <1>1, <1>2, <1>3, <2>1 DEF Upto, Learns
  <2>5. t.word = 4 => new.src_ip = p.src
    BY <1>1, <1>2, <2>1 DEF Upto, Learns
  <2> QED
    BY <1>2, <2>1, <2>2, <2>3, <2>4, <2>5 DEF Reads
<1> QED
  BY <1>4, <1>5

\* A word is held only if it is the one with the ports of a packet to translate.
LEMMA HoldReads ==
  ASSUME NEW s, NEW r, NEW new, SenderOK(s), s.valid, Reads(s, r),
         Holds(Offered(s), r, new)
  PROVE  Reads(s, new)
<1> DEFINE p == Head(s.packets)
<1>1. s.word \in Nat /\ p \in Packets /\ Offered(s).pkt = p
      /\ Offered(s).last = (s.word = p.len - 1)
  BY OfferedBeat DEF SenderOK
<1>2. /\ r.tready /\ r.byte_cnt = Upto(s.word) /\ r.byte_cnt = 4
      /\ r.is_custom_ip /\ r.protocol = Tx!TCP
      /\ ~ new.tready /\ ~ new.tvalid /\ new.out = Offered(s)
      /\ Learns(r, p, new) /\ Counts(r, Offered(s), new)
  BY <1>1 DEF Holds, MustHold, Reads
<1>3. s.word = 4
  BY <1>1, <1>2 DEF Upto
<1>4. IsTranslated(p)
  <2>1. /\ s.word \in 2 .. 4 => (r.is_custom_ip <=> p.ether = Tx!Custom)
        /\ s.word \in 3 .. 4 => r.protocol = p.proto
    BY <1>2 DEF Reads
  <2>2. p.proto = Tx!TCP
    BY <1>2, <1>3, <2>1
  <2>3. p.ether = Tx!Custom
    BY <1>2, <1>3, <2>1
  <2> QED
    BY <2>2, <2>3 DEF IsTranslated
<1>5. Request(new) = TupleOf(p)
  BY <1>2, <1>3 DEF Reads, Learns, Request, TupleOf
<1>6. new.byte_cnt = 5
  <2>1. Offered(s).last = FALSE
    <3>1. p.len - 1 # 4
      BY <1>1, PacketLength
    <3> QED
      BY <1>1, <1>3, <3>1
  <2> QED
    BY <1>2, <2>1 DEF Counts, Tx!NextWord, Tx!PayloadWord
<1> QED
  BY <1>2, <1>3, <1>4, <1>5, <1>6 DEF Reads

\* The word that leaves is the word the sender drops, with the answer as its port
\* if it was held.
LEMMA LeavesAsSent ==
  ASSUME NEW s, NEW r, NEW new, SenderOK(s), s.valid, Reads(s, r),
         NEW v, NEW d, v => d \in Ports,
         Passes(Offered(s), r, new) \/ Answers(v, d, r, new)
  PROVE  SentAs(s, new.out)
<1> DEFINE p == Head(s.packets)
<1>1. /\ s.word \in Nat /\ p \in Packets /\ Offered(s) \in Beats
      /\ Offered(s).pkt = p /\ Offered(s).word = s.word
      /\ Offered(s).last = (s.word = p.len - 1)
  BY OfferedBeat DEF SenderOK
<1> HIDE DEF p
<1>2. CASE Passes(Offered(s), r, new)
  <2>1. r.tready /\ ~ MustHold(r) /\ new.out = Offered(s)
    BY <1>2 DEF Passes
  <2>2. ~ (s.word = 4 /\ IsTranslated(p))
    <3>1. s.word = 4 => /\ r.byte_cnt = 4
                        /\ (r.is_custom_ip <=> p.ether = Tx!Custom) /\ r.protocol = p.proto
      BY <2>1 DEF Reads, Upto, p
    <3> QED
      BY <2>1, <3>1 DEF MustHold, IsTranslated
  <2> QED
    BY <1>1, <2>1, <2>2 DEF SentAs, p
<1>3. CASE Answers(v, d, r, new)
  <2>1. /\ s.word = 4 /\ IsTranslated(p) /\ r.out = Offered(s)
        /\ new.out = [r.out EXCEPT !.pkt = [@ EXCEPT !.sport = d]] /\ d \in Ports
    BY <1>3 DEF Answers, Reads, p
  <2> DEFINE q == [p EXCEPT !.sport = d]
  <2>2. q \in Packets /\ q.sport = d
    BY <1>1, <2>1 DEF Packets
  <2> HIDE DEF q
  <2>3. new.out = [Offered(s) EXCEPT !.pkt = q]
    BY <1>1, <2>1 DEF q
  <2>4. /\ new.out \in Beats /\ new.out.pkt = q
        /\ new.out.word = s.word /\ new.out.last = (s.word = p.len - 1)
    BY <1>1, <2>2, <2>3 DEF Beats
  <2> QED
    BY <1>1, <2>1, <2>2, <2>4 DEF SentAs, p, q
<1> QED
  BY <1>2, <1>3

\* One edge of one direction.
LEMMA LinkStep ==
  ASSUME NEW src, NEW s, NEW r, NEW v, Link(src, s, r, v),
         NEW ok, NEW d, ok => d \in Ports, NEW nap \in 0 .. 2,
         NEW new, Holding(new), Works(Offered(s), ok, d, r, new)
  PROVE  Link(src, SenderEdge(s, new.tready, nap), new, RecverEdge(v, new.tvalid, new.out))
<1> DEFINE u == SenderEdge(s, new.tready, nap)
           w == RecverEdge(v, new.tvalid, new.out)
<1>1. /\ Holding(r) /\ SenderOK(s) /\ RecverOK(v)
      /\ Remaining(src, s, v) /\ Delivered(src, s, v) /\ Reads(s, r)
  BY DEF Link
<1>2. CASE Passes(Offered(s), r, new) \/ Answers(ok, d, r, new)
  <2> DEFINE t == Drop(s, nap)
             wt == RecverEdge(v, TRUE, new.out)
  <2>1. s.valid /\ s.packets # << >> /\ new.tready /\ new.tvalid
    BY <1>1, <1>2, OfferedBeat DEF Passes, Answers, Reads, SenderOK
  <2>2. SentAs(s, new.out)
    BY <1>1, <1>2, <2>1, LeavesAsSent
  <2>3. u = Propose(t) /\ w = wt
    BY <2>1 DEF SenderEdge, Taken, RecverEdge
  <2>4. new.out.last = (s.word = Head(s.packets).len - 1)
    BY <2>2 DEF SentAs
  <2> HIDE DEF t, wt, u, w
  <2>5. /\ t \in [packets : Seq(Packets), word : Nat, sleeping : 0 .. 2, valid : BOOLEAN]
        /\ RecverOK(wt) /\ Remaining(src, t, wt) /\ Delivered(src, t, wt)
        /\ t.word = IF s.word = Head(s.packets).len - 1 THEN 0 ELSE s.word + 1
        /\ s.word # Head(s.packets).len - 1 =>
              t.packets = s.packets /\ t.word < Head(t.packets).len
    <3>1. CASE new.out.last
      <4>1. /\ t \in [packets : Seq(Packets), word : Nat, sleeping : 0 .. 2, valid : BOOLEAN]
            /\ t.word = 0
            /\ RecverOK(wt) /\ Remaining(src, t, wt) /\ Delivered(src, t, wt)
        BY <1>1, <2>1, <2>2, <3>1, LastWordTaken DEF t, wt
      <4> QED
        BY <2>4, <3>1, <4>1
    <3>2. CASE ~ new.out.last
      <4>1. /\ t = [s EXCEPT !.word = s.word + 1, !.sleeping = nap]
            /\ s.word + 1 < Head(s.packets).len
            /\ RecverOK(wt) /\ Remaining(src, t, wt) /\ Delivered(src, t, wt)
        BY <1>1, <2>1, <2>2, <3>2, NextWordTaken DEF t, wt
      <4>2. t \in [packets : Seq(Packets), word : Nat, sleeping : 0 .. 2, valid : BOOLEAN]
        <5>1. /\ s \in [packets : Seq(Packets), word : Nat, sleeping : 0 .. 2, valid : BOOLEAN]
              /\ s.word + 1 \in Nat
          BY <1>1 DEF SenderOK
        <5> QED
          BY <4>1, <5>1
      <4>3. t.packets = s.packets /\ t.word = s.word + 1
        BY <1>1, <4>1 DEF SenderOK
      <4> QED
        BY <2>4, <3>2, <4>1, <4>2, <4>3
    <3> QED
      BY <3>1, <3>2
  <2>6. IF t.packets = << >> THEN t.word = 0 ELSE t.word < Head(t.packets).len
    <3>1. CASE s.word = Head(s.packets).len - 1
      <4>1. t.packets # << >> => Head(t.packets).len \in Nat /\ Head(t.packets).len > 6
        BY <2>5, FirstAndRest, PacketLength
      <4> QED
        BY <2>5, <3>1, <4>1
    <3>2. CASE s.word # Head(s.packets).len - 1
      BY <2>1, <2>5, <3>2
    <3> QED
      BY <3>1, <3>2
  <2>7. Reads(t, new)
    <3>1. CASE Passes(Offered(s), r, new)
      BY <1>1, <2>1, <2>5, <3>1, PassReads
    <3>2. CASE Answers(ok, d, r, new)
      <4>1. s.word = 4 /\ new.byte_cnt = 5
        BY <1>1, <3>2 DEF Answers, Rests, Reads
      <4>2. Head(s.packets) \in Packets
        BY <1>1, <2>1, OfferedBeat
      <4>3. t.word = 5
        BY <2>5, <4>1, <4>2, PacketLength
      <4> QED
        BY <2>1, <4>1, <4>3 DEF Reads, Upto
    <3> QED
      BY <1>2, <3>1, <3>2
  <2>8. SenderOK(u) /\ u.packets = t.packets /\ u.word = t.word
    BY <2>3, <2>5, <2>6, ProposeKeeps
  <2>9. Remaining(src, u, w) /\ Delivered(src, u, w) /\ RecverOK(w)
    BY <2>3, <2>5, <2>8 DEF Remaining, Delivered
  <2>10. Reads(u, new)
    BY <2>1, <2>7, <2>8 DEF Reads
  <2> QED
    BY <2>8, <2>9, <2>10 DEF Link, u, w
\* Nothing is taken: the sender at most offers its next word.
<1>3. CASE Holds(Offered(s), r, new) \/ Waits(ok, r, new)
  <2>1. s.valid /\ ~ new.tready /\ ~ new.tvalid
    BY <1>1, <1>3, OfferedBeat DEF Holds, Waits, Reads
  <2>2. Reads(s, new)
    <3>1. CASE Holds(Offered(s), r, new)
      BY <1>1, <2>1, <3>1, HoldReads
    <3>2. CASE Waits(ok, r, new)
      BY <1>1, <3>2 DEF Waits
    <3> QED
      BY <1>3, <3>1, <3>2
  <2>3. u = s
    <3>1. s.sleeping = 0 /\ s.packets # << >> /\ s.valid = TRUE
      BY <1>1, <2>1 DEF SenderOK
    <3>2. u = [s EXCEPT !.valid = (s.packets # << >>)]
      BY <2>1, <3>1 DEF SenderEdge, Taken, Propose
    <3>3. [s EXCEPT !.valid = TRUE] = s
      BY <1>1, <3>1 DEF SenderOK
    <3> QED
      BY <3>1, <3>2, <3>3
  <2>4. w = v
    BY <2>1 DEF RecverEdge
  <2> QED
    BY <1>1, <2>2, <2>3, <2>4 DEF Link
<1>4. CASE Pauses(Offered(s), r, new)
  <2>1. ~ s.valid /\ r.tready /\ new.tready /\ ~ new.tvalid /\ Rests(r, new)
    BY <1>1, <1>4, OfferedBeat DEF Pauses
  <2>2. u = Propose(s)
    BY <2>1 DEF SenderEdge, Taken
  <2>3. SenderOK(u) /\ u.packets = s.packets /\ u.word = s.word
    BY <1>1, <2>2, ProposeKeeps DEF SenderOK
  <2>4. w = v
    BY <2>1 DEF RecverEdge
  <2> HIDE DEF u, w
  <2>5. Remaining(src, u, w) /\ Delivered(src, u, w) /\ RecverOK(w)
    BY <1>1, <2>3, <2>4 DEF Remaining, Delivered
  <2>6. Reads(u, new)
    BY <1>1, <2>1, <2>3 DEF Reads, Rests
  <2> QED
    BY <2>3, <2>5, <2>6 DEF Link, u, w
<1> QED
  BY <1>2, <1>3, <1>4 DEF Works
=============================================================================
