----------------------------- MODULE HostProofs -----------------------------
(***************************************************************************)
(* Proofs about the programs at the ends of the link, for every number of  *)
(* threads, packets and connections, and any number of lost frames and of  *)
(* frames of others.                                                       *)
(***************************************************************************)
EXTENDS HostPrograms, FiniteSetTheorems, SequenceTheorems, TLAPS

-----------------------------------------------------------------------------
(***************************************************************************)
(* Queues of frames.                                                       *)
(***************************************************************************)
FrameNames == {"ether", "tuple", "payload", "len", "from"}
IsFrame(f) == DOMAIN f = FrameNames /\ f.len \in Nat

Queue(q) == \E S : q \in Seq(S) /\ \A f \in S : IsFrame(f)

\* The frames of the test among those of a queue.
Ours(q) == {q[i] : i \in InTransit(q)}
None(q) == InTransit(q) = {}
One(q)  == \A i, j \in InTransit(q) : i = j

LEMMA EmptyQueue == Queue(<< >>) /\ None(<< >>) /\ Ours(<< >>) = {}
<1>1. << >> \in Seq({}) /\ DOMAIN << >> = {}
  BY EmptySeq
<1>2. InTransit(<< >>) = {}
  BY <1>1 DEF InTransit
<1> QED
  BY <1>1, <1>2 DEF Queue, None, Ours

LEMMA AppendQueue ==
  ASSUME NEW q, Queue(q), NEW f, IsFrame(f)
  PROVE  /\ Queue(Append(q, f))
         /\ Ours(Append(q, f)) = Ours(q) \cup (IF Own(f) THEN {f} ELSE {})
         /\ None(q) => One(Append(q, f))
         /\ ~ Own(f) => (None(q) <=> None(Append(q, f))) /\ (One(q) <=> One(Append(q, f)))
<1> DEFINE r == Append(q, f)
           n == Len(q)
<1>1. PICK S : q \in Seq(S) /\ \A g \in S : IsFrame(g)
  BY DEF Queue
<1> DEFINE T == S \cup {f}
<1>2. q \in Seq(T)
  BY <1>1, SeqMonotonic
<1>3. /\ n \in Nat /\ DOMAIN q = 1 .. n
      /\ r \in Seq(T) /\ DOMAIN r = 1 .. n + 1
      /\ \A i \in 1 .. n : r[i] = q[i]
      /\ r[n + 1] = f
  BY <1>2, LenProperties, AppendProperties
<1>4. Queue(r)
  <2>1. \A g \in T : IsFrame(g)
    BY <1>1
  <2> QED
    BY <1>3, <2>1 DEF Queue
<1> HIDE DEF r, n
<1>5. InTransit(r) = InTransit(q) \cup (IF Own(f) THEN {n + 1} ELSE {})
  BY <1>3 DEF InTransit
<1>6. InTransit(q) \subseteq 1 .. n
  BY <1>3 DEF InTransit
<1>7. Ours(r) = Ours(q) \cup (IF Own(f) THEN {f} ELSE {})
  <2>1. \A i \in InTransit(q) : r[i] = q[i]
    BY <1>3, <1>6
  <2> QED
    BY <1>3, <1>5, <2>1 DEF Ours
<1>8. /\ None(q) => One(r)
      /\ ~ Own(f) => (None(q) <=> None(r)) /\ (One(q) <=> One(r))
  BY <1>5 DEF None, One
<1> QED
  BY <1>4, <1>7, <1>8 DEF r

LEMMA TailQueue ==
  ASSUME NEW q, Queue(q), q # << >>
  PROVE  /\ Queue(Tail(q)) /\ IsFrame(Head(q))
         /\ Ours(Tail(q)) \subseteq Ours(q)
         /\ Own(Head(q)) => Head(q) \in Ours(q)
         /\ None(q) => None(Tail(q)) /\ ~ Own(Head(q))
         /\ One(q) => One(Tail(q)) /\ (Own(Head(q)) => None(Tail(q)))
<1> DEFINE r == Tail(q)
           n == Len(q)
<1>1. PICK S : q \in Seq(S) /\ \A g \in S : IsFrame(g)
  BY DEF Queue
<1>2. /\ n \in Nat /\ n > 0 /\ DOMAIN q = 1 .. n
      /\ r \in Seq(S) /\ DOMAIN r = 1 .. n - 1
      /\ \A i \in 1 .. n - 1 : r[i] = q[i + 1]
      /\ Head(q) = q[1] /\ Head(q) \in S
  BY <1>1, LenProperties, HeadTailProperties, EmptySeq, ElementOfSeq
<1>3. Queue(r) /\ IsFrame(Head(q))
  BY <1>1, <1>2 DEF Queue
<1> HIDE DEF r, n
<1>4. \A i \in InTransit(r) : i \in Nat /\ i + 1 \in InTransit(q) /\ r[i] = q[i + 1] /\ i + 1 # 1
  BY <1>2 DEF InTransit
<1>5. Own(Head(q)) <=> 1 \in InTransit(q)
  BY <1>2 DEF InTransit
<1>6. Ours(r) \subseteq Ours(q) /\ (Own(Head(q)) => Head(q) \in Ours(q))
  BY <1>2, <1>4, <1>5 DEF Ours
<1>7. None(q) => None(r) /\ ~ Own(Head(q))
  BY <1>4, <1>5 DEF None
<1>8. One(q) => One(r) /\ (Own(Head(q)) => None(r))
  BY <1>4, <1>5 DEF None, One
<1> QED
  BY <1>3, <1>6, <1>7, <1>8 DEF r

-----------------------------------------------------------------------------
(***************************************************************************)
(* Types, and what a thread of a server has in its buffer.                 *)
(***************************************************************************)
ThreadOK(r) ==
    /\ DOMAIN r = {"pc", "buffer", "taken"} /\ r.pc \in {"recv", "swap"}
    /\ IsFrame(r.buffer) /\ IsFrame(r.taken)
    /\ r.pc = "swap" => r.buffer = r.taken
    /\ r.pc = "recv" /\ IsCustomTcp(r.taken) => is_reply(r.buffer.tuple, r.taken.tuple)

NetworkOK == /\ programs.payload_len \in Nat
             /\ programs.client = "test_client" => programs.payload_len <= 1500
             /\ Queue(to_server) /\ Queue(to_client)
             /\ \A t \in DOMAIN threads : ThreadOK(threads[t])

LEMMA FramesAreBuilt ==
  ASSUME programs.payload_len \in Nat, NEW tuple, NEW payload
  PROVE  /\ IsFrame(create_custom_L4_pkt(tuple, payload))
         /\ IsFrame(OnTheWire(create_custom_L4_pkt(tuple, payload)))
  BY DEF IsFrame, FrameNames, create_custom_L4_pkt, OnTheWire, MinFrame, pkt_len, HeaderBytes

LEMMA FramesStayFrames ==
  ASSUME NEW f, IsFrame(f)
  PROVE  /\ IsFrame(OnTheWire(f)) /\ IsFrame(Truncated(f))
         /\ IsFrame([f EXCEPT !.tuple = Reversed(@)])
         /\ [f EXCEPT !.tuple = Reversed(@)].tuple = Reversed(f.tuple)
         /\ Own(OnTheWire(f)) <=> Own(f)
         /\ Own(Truncated(f)) <=> Own(f)
         /\ Own([f EXCEPT !.tuple = Reversed(@)]) <=> Own(f)
  BY DEF IsFrame, FrameNames, OnTheWire, Truncated, MinFrame, Own, Reversed

LEMMA ForeignIsFrame == \A f \in ForeignFrames : IsFrame(f)
<1> SUFFICES ASSUME NEW f \in ForeignFrames PROVE IsFrame(f)
  OBVIOUS
<1>1. DOMAIN f = {"ether", "tuple", "payload", "len", "from"} /\ f.len \in Nat
  BY ForeignAssumption
<1> QED
  BY <1>1 DEF IsFrame, FrameNames

LEMMA NetworkInit == ASSUME Init PROVE NetworkOK
<1>1. IsFrame(NoFrame) /\ ~ IsCustomTcp(NoFrame)
  BY DEF IsFrame, FrameNames, NoFrame, IsCustomTcp
<1>2. \A t \in DOMAIN threads : ThreadOK(threads[t])
  BY <1>1 DEF Init, ThreadOK
<1> QED
  BY <1>2, EmptyQueue, PayloadAssumption DEF Init, NetworkOK

LEMMA RecvStep ==
  ASSUME NetworkOK, NEW t \in DOMAIN threads, Recv(t)
  PROVE  NetworkOK'
<1> DEFINE frame == Head(to_server)
<1>1. /\ to_server # << >> /\ to_server' = Tail(to_server)
      /\ UNCHANGED <<programs, to_client>>
      /\ UNCHANGED threads \/ threads' = Store(t, Truncated(frame))
  BY DEF Recv, ExitServer
<1>2. Queue(to_server') /\ IsFrame(Truncated(frame))
  BY <1>1, TailQueue, FramesStayFrames DEF NetworkOK
<1> HIDE DEF frame
<1>3. ThreadOK(Working(Truncated(frame)))
  BY <1>2 DEF ThreadOK, Working, IsCustomTcp
<1>4. \A u \in DOMAIN threads' : ThreadOK(threads'[u])
  BY <1>1, <1>3 DEF NetworkOK, Store
<1> QED
  BY <1>1, <1>2, <1>4 DEF NetworkOK

LEMMA SwapStep ==
  ASSUME NetworkOK, NEW t \in DOMAIN threads, SwapAndSend(t)
  PROVE  NetworkOK'
<1> DEFINE r == threads[t]
           echo == [r.buffer EXCEPT !.tuple = Reversed(@)]
           s == [r EXCEPT !.pc = "recv", !.buffer = echo]
<1>1. /\ r.pc = "swap"
      /\ threads' = [threads EXCEPT ![t].pc = "recv", ![t].buffer = echo]
      /\ to_client' = Append(to_client, OnTheWire(echo)) \/ to_client' = to_client
      /\ UNCHANGED <<programs, to_server>>
  BY DEF SwapAndSend, Answer
<1>2. threads' = [threads EXCEPT ![t] = s]
  BY <1>1
<1>3. ThreadOK(r) /\ IsFrame(echo) /\ echo.tuple = Reversed(r.buffer.tuple) /\ r.buffer = r.taken
  BY <1>1, FramesStayFrames DEF NetworkOK, ThreadOK
<1> HIDE DEF r, echo
<1>4. /\ DOMAIN s = {"pc", "buffer", "taken"} /\ s.pc = "recv" /\ s.buffer = echo
      /\ s.taken = r.taken
  BY <1>3 DEF ThreadOK
<1> HIDE DEF s
<1>5. ThreadOK(s)
  BY <1>3, <1>4 DEF ThreadOK, is_reply, Reversed
<1>6. \A u \in DOMAIN threads' : ThreadOK(threads'[u])
  BY <1>2, <1>5 DEF NetworkOK
<1>7. Queue(to_client')
  <2>1. IsFrame(OnTheWire(echo)) /\ Queue(to_client)
    BY <1>3, FramesStayFrames DEF NetworkOK
  <2>2. Queue(Append(to_client, OnTheWire(echo)))
    BY <2>1, AppendQueue
  <2> QED
    BY <1>1, <2>1, <2>2
<1> QED
  BY <1>1, <1>6, <1>7 DEF NetworkOK

LEMMA NetworkStep == ASSUME NetworkOK, [Next]_vars PROVE NetworkOK'
<1>1. CASE UNCHANGED vars
  BY <1>1 DEF vars, NetworkOK
<1>2. CASE Lose
  <2>1. /\ Queue(to_server) /\ Queue(to_client)
        /\ to_server # << >> => Queue(Tail(to_server))
        /\ to_client # << >> => Queue(Tail(to_client))
    BY TailQueue DEF NetworkOK
  <2>2. \/ to_server # << >> /\ to_server' = Tail(to_server) /\ to_client' = to_client
        \/ to_client # << >> /\ to_client' = Tail(to_client) /\ to_server' = to_server
    BY <1>2 DEF Lose
  <2>3. Queue(to_server') /\ Queue(to_client')
    <3>1. CASE to_server # << >> /\ to_server' = Tail(to_server) /\ to_client' = to_client
      BY <2>1, <3>1
    <3>2. CASE to_client # << >> /\ to_client' = Tail(to_client) /\ to_server' = to_server
      BY <2>1, <3>2
    <3> QED
      BY <2>2, <3>1, <3>2
  <2>4. UNCHANGED <<programs, threads>>
    BY <1>2 DEF Lose
  <2> QED
    BY <2>3, <2>4 DEF NetworkOK
<1>3. CASE Foreign
  <2>1. PICK f \in ForeignFrames :
              \/ to_server' = Append(to_server, f) /\ UNCHANGED to_client
              \/ to_client' = Append(to_client, f) /\ UNCHANGED to_server
    BY <1>3 DEF Foreign
  <2>2. Queue(Append(to_server, f)) /\ Queue(Append(to_client, f))
    BY AppendQueue, ForeignIsFrame DEF NetworkOK
  <2>3. Queue(to_server') /\ Queue(to_client')
    BY <2>1, <2>2 DEF NetworkOK
  <2>4. UNCHANGED <<programs, threads>>
    BY <1>3 DEF Foreign
  <2> QED
    BY <2>3, <2>4 DEF NetworkOK
<1>4. CASE SendPacket
  <2>1. \/ \E k \in DOMAIN tuple5s :
              to_server' = Append(to_server, OnTheWire(create_custom_L4_pkt(tuple5s[k], client.i)))
        \/ to_server' = to_server
    BY <1>4 DEF SendPacket
  <2>2. Queue(to_server')
    BY <2>1, AppendQueue, FramesAreBuilt DEF NetworkOK
  <2> QED
    BY <1>4, <2>2 DEF SendPacket, NetworkOK
<1>5. CASE RecvReply
  BY <1>5, TailQueue DEF RecvReply, NetworkOK
<1>6. CASE Passed \/ RecvError \/ PerfSendError \/ Report
  BY <1>6 DEF Passed, RecvError, PerfSendError, Report, network, NetworkOK
<1>7. CASE \E t \in Senders : send_pkts(t)
  <2>1. PICK t \in Senders : send_pkts(t)
    BY <1>7
  <2>2. to_server' = Append(to_server, OnTheWire(create_custom_L4_pkt(tuple5s[idx(sent[t])], idx(sent[t]))))
    BY <2>1 DEF send_pkts
  <2>3. Queue(to_server')
    BY <2>2, AppendQueue, FramesAreBuilt DEF NetworkOK
  <2> QED
    BY <2>1, <2>3 DEF send_pkts, NetworkOK
<1>8. CASE \E t \in DOMAIN threads : Recv(t) \/ SwapAndSend(t)
  BY <1>8, RecvStep, SwapStep
<1>9. CASE \E t \in DOMAIN threads : AssertFails(t) \/ ServerError(t)
  BY <1>9 DEF AssertFails, ServerError, ExitServer, NetworkOK
<1> QED
  BY <1>1, <1>2, <1>3, <1>4, <1>5, <1>6, <1>7, <1>8, <1>9
     DEF Next, TestClientStep, PerfClientStep, ServerStep

\* Whatever the threads do beside each other, each one's buffer holds the reply to
\* the frame it took (perf_server.c:32-77, test_server.c:141-155).
THEOREM BuffersHoldReplies == HostSpec => []BuffersAreReplies
<1>1. NetworkOK => BuffersAreReplies
  BY DEF NetworkOK, ThreadOK, BuffersAreReplies
<1> QED
  BY <1>1, NetworkInit, NetworkStep, PTL DEF HostSpec

-----------------------------------------------------------------------------
(***************************************************************************)
(* Stop and wait.                                                          *)
(***************************************************************************)
\* The test packet is at one place, and at none when the next is sent.
AtOnePlace ==
    /\ One(to_server) /\ One(to_client) /\ \A s, t \in InHand : s = t
    /\ None(to_server) \/ None(to_client)
    /\ None(to_server) \/ InHand = {}
    /\ None(to_client) \/ InHand = {}
    /\ client.status = "sending" => None(to_server) /\ None(to_client) /\ InHand = {}

\* It is the packet sent last, or its echo, and padded.
Padded == IF pkt_len < MinFrame THEN MinFrame ELSE pkt_len
Request(f) ==
    /\ f.ether = "custom" /\ f.tuple = client.pkt.tuple
    /\ f.payload = client.pkt.payload /\ f.len = Padded
Reply(f) ==
    /\ f.ether = "custom" /\ f.tuple = Reversed(client.pkt.tuple)
    /\ f.payload = client.pkt.payload /\ f.len = Padded

IsLastPacket ==
    client.status = "waiting" =>
        /\ client.pkt.len = pkt_len
        /\ \A f \in Ours(to_server) : Request(f)
        /\ \A t \in InHand : Request(threads[t].buffer)
        /\ \A f \in Ours(to_client) : Reply(f)

\* No frame is cut short between the client and its echo.
BuffersFit == \A t \in DOMAIN threads : threads[t].buffer.len <= 4096

Undisturbed == AtOnePlace /\ IsLastPacket /\ BuffersFit

ClientOK ==
    /\ DOMAIN client = {"status", "i", "pkt"}
    /\ client.status \in {"mismatch", "too_big"} => misled
    /\ client.status = "wrong_length" => misled \/ pkt_len < MinFrame

StopAndWait ==
    /\ NetworkOK /\ ClientOK /\ misled \in BOOLEAN
    /\ programs.client = "test_client" /\ ~ misled => Undisturbed

LEMMA StopAndWaitInit == ASSUME Init PROVE StopAndWait
<1>1. NetworkOK
  BY NetworkInit
<1>2. InHand = {} /\ BuffersFit
  BY DEF Init, InHand, NoFrame, BuffersFit
<1>3. AtOnePlace
  BY <1>2, EmptyQueue DEF Init, AtOnePlace, None, One
<1> QED
  BY <1>1, <1>2, <1>3 DEF Init, StopAndWait, Undisturbed, IsLastPacket, ClientOK

\* A frame leaves a queue and reaches nobody.
LEMMA LoseKeeps == ASSUME NetworkOK, Undisturbed, Lose PROVE Undisturbed'
<1>1. /\ UNCHANGED <<programs, client, threads>>
      /\ \/ to_server # << >> /\ to_server' = Tail(to_server) /\ UNCHANGED to_client
         \/ to_client # << >> /\ to_client' = Tail(to_client) /\ UNCHANGED to_server
  BY DEF Lose
<1>2. /\ to_server # << >> => /\ Ours(Tail(to_server)) \subseteq Ours(to_server)
                              /\ None(to_server) => None(Tail(to_server))
                              /\ One(to_server) => One(Tail(to_server))
      /\ to_client # << >> => /\ Ours(Tail(to_client)) \subseteq Ours(to_client)
                              /\ None(to_client) => None(Tail(to_client))
                              /\ One(to_client) => One(Tail(to_client))
  BY TailQueue DEF NetworkOK
<1>3. /\ Ours(to_server') \subseteq Ours(to_server) /\ Ours(to_client') \subseteq Ours(to_client)
      /\ None(to_server) => None(to_server')
      /\ None(to_client) => None(to_client')
      /\ One(to_server) => One(to_server')
      /\ One(to_client) => One(to_client')
  BY <1>1, <1>2
<1>4. InHand' = InHand /\ pkt_len' = pkt_len
  BY <1>1 DEF InHand, pkt_len
<1>5. AtOnePlace'
  BY <1>1, <1>3, <1>4 DEF Undisturbed, AtOnePlace
<1>6. IsLastPacket'
  BY <1>1, <1>3, <1>4 DEF Undisturbed, IsLastPacket, Request, Reply, Padded
<1> QED
  BY <1>1, <1>5, <1>6 DEF Undisturbed, BuffersFit

LEMMA ForeignKeeps == ASSUME NetworkOK, Undisturbed, Foreign PROVE Undisturbed'
<1>1. PICK f \in ForeignFrames :
          \/ to_server' = Append(to_server, f) /\ UNCHANGED to_client
          \/ to_client' = Append(to_client, f) /\ UNCHANGED to_server
  BY DEF Foreign
<1>2. UNCHANGED <<programs, client, threads>>
  BY DEF Foreign
<1>3. IsFrame(f) /\ ~ Own(f)
  BY ForeignIsFrame, ForeignAssumption
<1>4. ASSUME NEW q, Queue(q)
      PROVE  /\ Ours(Append(q, f)) = Ours(q)
             /\ None(q) <=> None(Append(q, f))
             /\ One(q) <=> One(Append(q, f))
  <2>1. /\ Ours(Append(q, f)) = Ours(q) \cup (IF Own(f) THEN {f} ELSE {})
        /\ ~ Own(f) => (None(q) <=> None(Append(q, f))) /\ (One(q) <=> One(Append(q, f)))
    BY <1>3, <1>4, AppendQueue
  <2> QED
    BY <1>3, <2>1
<1>5. /\ Ours(Append(to_server, f)) = Ours(to_server)
      /\ None(to_server) <=> None(Append(to_server, f))
      /\ One(to_server) <=> One(Append(to_server, f))
      /\ Ours(Append(to_client, f)) = Ours(to_client)
      /\ None(to_client) <=> None(Append(to_client, f))
      /\ One(to_client) <=> One(Append(to_client, f))
  <2>1. Queue(to_server) /\ Queue(to_client)
    BY DEF NetworkOK
  <2> QED
    BY <1>4, <2>1
<1>6. /\ Ours(to_server') = Ours(to_server) /\ Ours(to_client') = Ours(to_client)
      /\ None(to_server) <=> None(to_server')
      /\ None(to_client) <=> None(to_client')
      /\ One(to_server) <=> One(to_server')
      /\ One(to_client) <=> One(to_client')
  BY <1>1, <1>5
<1>7. InHand' = InHand /\ pkt_len' = pkt_len
  BY <1>2 DEF InHand, pkt_len
<1>8. AtOnePlace'
  BY <1>2, <1>6, <1>7 DEF Undisturbed, AtOnePlace
<1>9. IsLastPacket'
  BY <1>2, <1>6, <1>7 DEF Undisturbed, IsLastPacket, Request, Reply, Padded
<1> QED
  BY <1>2, <1>8, <1>9 DEF Undisturbed, BuffersFit

LEMMA SendKeeps == ASSUME NetworkOK, Undisturbed, SendPacket, DOMAIN client = {"status", "i", "pkt"}
                   PROVE  Undisturbed'
<1>1. /\ client.status = "sending" /\ UNCHANGED <<programs, to_client, threads>>
      /\ None(to_server) /\ None(to_client) /\ InHand = {}
  BY DEF SendPacket, TestClient, Undisturbed, AtOnePlace
<1>2. InHand' = {} /\ pkt_len' = pkt_len
  BY <1>1 DEF InHand, pkt_len
<1>3. Ours(to_client) = {} /\ One(to_client)
  BY <1>1 DEF None, One, Ours
<1>4. BuffersFit'
  BY <1>1 DEF Undisturbed, BuffersFit
<1>5. PICK k \in DOMAIN tuple5s :
          LET pkt == create_custom_L4_pkt(tuple5s[k], client.i)
          IN  \/ /\ client' = [client EXCEPT !.status = "waiting", !.pkt = pkt]
                 /\ to_server' = Append(to_server, OnTheWire(pkt))
              \/ ExitClient("send_error") /\ UNCHANGED to_server
  BY DEF SendPacket
<1> DEFINE pkt == create_custom_L4_pkt(tuple5s[k], client.i)
           f == OnTheWire(pkt)
<1>6. CASE ExitClient("send_error") /\ UNCHANGED to_server
  <2>1. client'.status = "send_error"
    BY <1>6 DEF ExitClient
  <2>2. One(to_server)
    BY <1>1 DEF None, One
  <2> QED
    BY <1>1, <1>2, <1>3, <1>4, <1>6, <2>1, <2>2 DEF Undisturbed, AtOnePlace, IsLastPacket
<1>7. CASE client' = [client EXCEPT !.status = "waiting", !.pkt = pkt] /\ to_server' = Append(to_server, f)
  <2>1. /\ IsFrame(f) /\ Own(f) /\ f.ether = "custom"
        /\ pkt.len = pkt_len
        /\ f.tuple = pkt.tuple /\ f.payload = pkt.payload /\ f.len = Padded
    <3>1. IsFrame(f)
      BY FramesAreBuilt DEF NetworkOK
    <3> QED
      BY <3>1 DEF create_custom_L4_pkt, OnTheWire, Padded, Own
  <2> HIDE DEF pkt, f
  <2>2. client'.status = "waiting" /\ client'.pkt = pkt
    BY <1>7
  <2>3. Ours(to_server') = {f} /\ One(to_server')
    <3>1. Queue(to_server) /\ Ours(to_server) = {}
      BY <1>1 DEF NetworkOK, None, Ours
    <3>2. Ours(Append(to_server, f)) = Ours(to_server) \cup (IF Own(f) THEN {f} ELSE {})
      BY <2>1, <3>1, AppendQueue
    <3>3. None(to_server) => One(Append(to_server, f))
      BY <2>1, <3>1, AppendQueue
    <3> QED
      BY <1>1, <1>7, <2>1, <3>1, <3>2, <3>3
  <2>4. AtOnePlace'
    BY <1>1, <1>2, <1>3, <2>2, <2>3 DEF AtOnePlace
  <2>5. IsLastPacket'
    BY <1>1, <1>2, <1>3, <2>1, <2>2, <2>3 DEF IsLastPacket, Request, Reply, Padded
  <2> QED
    BY <1>4, <2>4, <2>5 DEF Undisturbed
<1> QED
  BY <1>5, <1>6, <1>7

\* What the client does with a frame of others that does not mislead it is to skip it;
\* the reply it accepts, unless it came back padded.
LEMMA ReplyKeeps ==
  ASSUME NetworkOK, Undisturbed, programs.client = "test_client", RecvReply,
         ~ Misleads(Head(to_client)), DOMAIN client = {"status", "i", "pkt"}
  PROVE  /\ Undisturbed'
         /\ \/ client' = client
            \/ client'.status = "sending"
            \/ client'.status = "wrong_length" /\ pkt_len < MinFrame
<1> DEFINE frame == Head(to_client)
<1>1. /\ client.status = "waiting" /\ to_client # << >> /\ to_client' = Tail(to_client)
      /\ UNCHANGED <<programs, to_server, threads>>
      /\ IF frame.len >= 8192 THEN ExitClient("too_big") ELSE Compare(frame)
  BY DEF RecvReply, TestClient
<1>2. /\ Ours(to_client') \subseteq Ours(to_client)
      /\ None(to_client) => None(to_client')
      /\ One(to_client) => One(to_client')
      /\ Own(frame) => frame \in Ours(to_client) /\ ~ None(to_client) /\ None(to_client')
      /\ IsFrame(frame)
  BY <1>1, TailQueue DEF NetworkOK, Undisturbed, AtOnePlace
<1>3. ~ Misleads(frame)
  OBVIOUS
<1> HIDE DEF frame
<1>4. InHand' = InHand /\ pkt_len' = pkt_len /\ BuffersFit'
  BY <1>1 DEF InHand, pkt_len, Undisturbed, BuffersFit
<1>5. CASE ~ Own(frame)
  <2>1. frame.ether # "custom" /\ ~ (frame.len >= 8192)
    BY <1>3, <1>5 DEF Misleads
  <2>2. client' = client
    BY <1>1, <2>1 DEF Compare, SkipFrame
  <2>3. AtOnePlace'
    BY <1>1, <1>2, <1>4, <2>2 DEF Undisturbed, AtOnePlace
  <2>4. IsLastPacket'
    BY <1>1, <1>2, <1>4, <2>2 DEF Undisturbed, IsLastPacket, Request, Reply, Padded
  <2> QED
    BY <1>4, <2>2, <2>3, <2>4 DEF Undisturbed
<1>6. CASE Own(frame)
  <2>1. Reply(frame) /\ client.pkt.len = pkt_len
    BY <1>1, <1>2, <1>6 DEF Undisturbed, IsLastPacket
  <2>2. IsEcho(client.pkt, frame) /\ frame.ether = "custom"
    BY <2>1 DEF IsEcho, Reply, Reversed
  <2>3. /\ None(to_server') /\ None(to_client') /\ InHand' = {}
        /\ One(to_server') /\ One(to_client')
    <3>1. None(to_server) /\ InHand = {} /\ None(to_client')
      BY <1>2, <1>6 DEF Undisturbed, AtOnePlace
    <3> QED
      BY <1>1, <1>4, <3>1 DEF None, One
  <2>4. Padded < 8192 /\ frame.len = Padded /\ Padded \in Nat
    BY <2>1 DEF Reply, NetworkOK, Padded, pkt_len, HeaderBytes, MinFrame
  <2>5. Compare(frame)
    BY <1>1, <2>4
  <2>6. \/ client' = [client EXCEPT !.status = "sending", !.i = @ + 1]
        \/ frame.len # pkt_len /\ client' = [client EXCEPT !.status = "wrong_length"]
    BY <2>1, <2>2, <2>5 DEF Compare, NextPacket, ExitClient
  <2>7. \/ client'.status = "sending"
        \/ client'.status = "wrong_length" /\ pkt_len < MinFrame
    <3>1. frame.len # pkt_len => pkt_len < MinFrame
      BY <2>4 DEF Padded
    <3> HIDE DEF pkt_len
    <3>2. DOMAIN client = {"status", "i", "pkt"}
      OBVIOUS
    <3> QED
      BY <2>6, <3>1, <3>2
  <2> QED
    BY <1>4, <2>3, <2>7 DEF Undisturbed, AtOnePlace, IsLastPacket
<1> QED
  BY <1>5, <1>6

LEMMA RecvKeeps ==
  ASSUME NetworkOK, Undisturbed, programs.client = "test_client",
         NEW t \in DOMAIN threads, Recv(t)
  PROVE  Undisturbed'
<1> DEFINE frame == Truncated(Head(to_server))
<1>1. /\ to_server # << >> /\ to_server' = Tail(to_server) /\ threads[t].pc = "recv"
      /\ UNCHANGED <<programs, to_client, client>>
      /\ UNCHANGED threads \/ threads' = Store(t, frame)
  BY DEF Recv, ExitServer
<1>2. /\ Ours(to_server') \subseteq Ours(to_server)
      /\ None(to_server) => None(to_server')
      /\ One(to_server) => One(to_server')
      /\ Own(Head(to_server)) =>
            Head(to_server) \in Ours(to_server) /\ ~ None(to_server) /\ None(to_server')
      /\ IsFrame(Head(to_server))
  BY <1>1, TailQueue DEF NetworkOK, Undisturbed, AtOnePlace
<1>3. /\ IsFrame(frame) /\ (Own(frame) <=> Own(Head(to_server)))
      /\ frame.len <= 4096 /\ frame.tuple = Head(to_server).tuple
      /\ frame.payload = Head(to_server).payload /\ frame.ether = Head(to_server).ether
      /\ Head(to_server).len <= 4096 => frame.len = Head(to_server).len
  <2> DEFINE g == Head(to_server)
  <2>1. IsFrame(g)
    BY <1>2
  <2> HIDE DEF g
  <2>2. IsFrame(Truncated(g)) /\ (Own(Truncated(g)) <=> Own(g))
    BY <2>1, FramesStayFrames
  <2>3. /\ Truncated(g).tuple = g.tuple /\ Truncated(g).payload = g.payload
        /\ Truncated(g).ether = g.ether
        /\ Truncated(g).len = IF g.len > 4096 THEN 4096 ELSE g.len
    BY <2>1 DEF Truncated, IsFrame, FrameNames
  <2>4. g.len \in Nat
    BY <2>1 DEF IsFrame
  <2> QED
    BY <2>2, <2>3, <2>4 DEF g
<1> HIDE DEF frame
<1>4. pkt_len' = pkt_len /\ Padded' = Padded
  BY <1>1 DEF pkt_len, Padded
<1>5. CASE UNCHANGED threads
  <2>1. InHand' = InHand
    BY <1>5 DEF InHand
  <2>2. AtOnePlace'
    BY <1>1, <1>2, <2>1 DEF Undisturbed, AtOnePlace
  <2>3. IsLastPacket'
    BY <1>1, <1>2, <1>4, <1>5, <2>1 DEF Undisturbed, IsLastPacket, Request, Reply
  <2> QED
    BY <1>5, <2>2, <2>3 DEF Undisturbed, BuffersFit
<1>6. CASE threads' = Store(t, frame)
  <2> DEFINE r == Working(frame)
  <2>1. r.buffer = frame /\ (r.pc = "swap" <=> frame.ether = "custom")
    BY DEF Working
  <2> HIDE DEF r
  <2>2. DOMAIN threads' = DOMAIN threads /\ \A u \in DOMAIN threads : threads'[u] = IF u = t THEN r ELSE threads[u]
    BY <1>6 DEF Store, r
  <2>3. /\ t \notin InHand
        /\ InHand' = InHand \cup (IF Own(frame) /\ frame.ether = "custom" THEN {t} ELSE {})
    BY <1>1, <2>1, <2>2 DEF InHand
  <2>4. BuffersFit'
    BY <1>3, <2>1, <2>2 DEF Undisturbed, BuffersFit
  <2>5. AtOnePlace'
    BY <1>1, <1>2, <1>3, <2>3 DEF Undisturbed, AtOnePlace
  <2>6. ASSUME client.status = "waiting", Own(frame)
        PROVE  Request(frame)
    <3>1. Request(Head(to_server))
      BY <1>2, <1>3, <2>6 DEF Undisturbed, IsLastPacket
    <3>2. Padded <= 4096
      BY DEF NetworkOK, Padded, pkt_len, HeaderBytes, MinFrame
    <3> QED
      BY <1>3, <3>1, <3>2 DEF Request
  <2>7. IsLastPacket'
    <3> SUFFICES ASSUME client.status = "waiting" PROVE IsLastPacket'
      BY <1>1 DEF IsLastPacket
    <3>1. \A u \in InHand' : Request(threads'[u].buffer)
      <4> SUFFICES ASSUME NEW u \in InHand' PROVE Request(threads'[u].buffer)
        OBVIOUS
      <4>1. CASE u \in InHand
        BY <2>2, <2>3, <4>1 DEF Undisturbed, IsLastPacket, InHand
      <4>2. CASE u \notin InHand
        BY <1>1, <2>1, <2>2, <2>3, <2>6, <4>2 DEF InHand
      <4> QED
        BY <4>1, <4>2
    <3> QED
      BY <1>1, <1>2, <1>4, <3>1 DEF Undisturbed, IsLastPacket, Request, Reply
  <2> QED
    BY <2>4, <2>5, <2>7 DEF Undisturbed
<1> QED
  BY <1>1, <1>5, <1>6

LEMMA SwapKeeps ==
  ASSUME NetworkOK, Undisturbed, programs.client = "test_client",
         NEW t \in DOMAIN threads, SwapAndSend(t)
  PROVE  Undisturbed'
<1> DEFINE buffer == threads[t].buffer
           echo == [buffer EXCEPT !.tuple = Reversed(@)]
           f == OnTheWire(echo)
           s == [threads[t] EXCEPT !.pc = "recv", !.buffer = echo]
<1>1. /\ threads[t].pc = "swap"
      /\ threads' = [threads EXCEPT ![t].pc = "recv", ![t].buffer = echo]
      /\ to_client' = Append(to_client, f) \/ to_client' = to_client
      /\ UNCHANGED <<programs, to_server, client>>
  BY DEF SwapAndSend, Answer
<1>2. threads' = [threads EXCEPT ![t] = s]
  BY <1>1
<1>3. t \in InHand <=> Own(buffer)
  BY <1>1 DEF InHand
<1>4. IsFrame(buffer) /\ buffer.len \in Nat /\ buffer.len <= 4096 /\ DOMAIN threads[t] = {"pc", "buffer", "taken"}
  BY DEF NetworkOK, ThreadOK, IsFrame, Undisturbed, BuffersFit
<1> HIDE DEF buffer
<1>5. /\ IsFrame(f) /\ (Own(f) <=> Own(buffer)) /\ echo.len <= 4096
      /\ f.tuple = Reversed(buffer.tuple) /\ f.payload = buffer.payload /\ f.ether = buffer.ether
      /\ buffer.len >= MinFrame => f.len = buffer.len
  <2>1. IsFrame(echo) /\ (Own(echo) <=> Own(buffer)) /\ echo.tuple = Reversed(buffer.tuple)
    BY <1>4, FramesStayFrames
  <2>2. IsFrame(f) /\ (Own(f) <=> Own(echo))
    BY <2>1, FramesStayFrames
  <2>3. echo.len = buffer.len /\ echo.payload = buffer.payload /\ echo.ether = buffer.ether
        /\ DOMAIN echo = DOMAIN buffer
    BY <1>4 DEF IsFrame, FrameNames
  <2> HIDE DEF echo
  <2>4. /\ f.tuple = echo.tuple /\ f.payload = echo.payload /\ f.ether = echo.ether
        /\ f.len = IF echo.len < MinFrame THEN MinFrame ELSE echo.len
    BY <1>4, <2>3 DEF OnTheWire, IsFrame, FrameNames
  <2> QED
    BY <1>4, <2>1, <2>2, <2>3, <2>4 DEF MinFrame
<1> HIDE DEF echo, f
<1>6. s.pc = "recv" /\ s.buffer = echo
  BY <1>4
<1> HIDE DEF s
<1>7. /\ DOMAIN threads' = DOMAIN threads /\ threads'[t] = s
      /\ \A u \in DOMAIN threads : u # t => threads'[u] = threads[u]
  BY <1>2
<1>8. InHand' = InHand \ {t} /\ BuffersFit'
  BY <1>5, <1>6, <1>7 DEF InHand, Undisturbed, BuffersFit
<1>9. pkt_len' = pkt_len /\ Padded' = Padded
  BY <1>1 DEF pkt_len, Padded
<1>10. /\ Ours(Append(to_client, f)) = Ours(to_client) \cup (IF Own(f) THEN {f} ELSE {})
       /\ None(to_client) => One(Append(to_client, f))
       /\ ~ Own(f) => /\ None(to_client) <=> None(Append(to_client, f))
                      /\ One(to_client) <=> One(Append(to_client, f))
  <2>1. Queue(to_client)
    BY DEF NetworkOK
  <2> QED
    BY <1>5, <2>1, AppendQueue
\* A thread turns round a frame of others that is like one of the test.
<1>11. CASE ~ Own(buffer)
  <2>1. /\ Ours(to_client') = Ours(to_client)
        /\ None(to_client) <=> None(to_client')
        /\ One(to_client) <=> One(to_client')
    <3>1. CASE to_client' = Append(to_client, f)
      <4>1. ~ Own(f)
        BY <1>5, <1>11
      <4>2. /\ Ours(Append(to_client, f)) = Ours(to_client)
            /\ None(to_client) <=> None(Append(to_client, f))
            /\ One(to_client) <=> One(Append(to_client, f))
        BY <1>10, <4>1
      <4>3. /\ Ours(to_client') = Ours(Append(to_client, f))
            /\ None(to_client') <=> None(Append(to_client, f))
            /\ One(to_client') <=> One(Append(to_client, f))
        BY <3>1
      <4> QED
        BY <4>2, <4>3
    <3>2. CASE to_client' = to_client
      BY <3>2
    <3> QED
      BY <1>1, <3>1, <3>2
  <2>2. InHand' = InHand /\ \A u \in InHand : threads'[u] = threads[u]
    BY <1>3, <1>7, <1>8, <1>11 DEF InHand
  <2>3. AtOnePlace'
    BY <1>1, <2>1, <2>2 DEF Undisturbed, AtOnePlace
  <2>4. IsLastPacket'
    BY <1>1, <1>9, <2>1, <2>2 DEF Undisturbed, IsLastPacket, Request, Reply
  <2> QED
    BY <1>8, <2>3, <2>4 DEF Undisturbed
\* It turns round the client's packet.
<1>12. CASE Own(buffer)
  <2>1. InHand = {t} /\ None(to_server) /\ None(to_client)
    BY <1>3, <1>12 DEF Undisturbed, AtOnePlace
  <2>2. Ours(to_client) = {} /\ Ours(to_server') = {} /\ One(to_client) /\ One(to_server')
    BY <1>1, <2>1 DEF None, One, Ours
  <2>3. One(to_client') /\ Ours(to_client') \subseteq {f}
    BY <1>1, <1>10, <2>1, <2>2
  <2>4. InHand' = {}
    BY <1>8, <2>1
  <2>5. client'.status # "sending"
    BY <1>1, <2>1 DEF Undisturbed, AtOnePlace
  <2>6. AtOnePlace'
    BY <1>1, <2>1, <2>2, <2>3, <2>4, <2>5 DEF AtOnePlace
  <2>7. client.status = "waiting" => Reply(f)
    <3>1. Padded >= MinFrame
      BY DEF NetworkOK, Padded, pkt_len, HeaderBytes, MinFrame
    <3>2. client.status = "waiting" => Request(buffer)
      BY <2>1 DEF Undisturbed, IsLastPacket, buffer
    <3> QED
      BY <1>5, <3>1, <3>2 DEF Request, Reply
  <2>8. IsLastPacket'
    BY <1>1, <1>9, <2>2, <2>3, <2>4, <2>7 DEF Undisturbed, IsLastPacket, Request, Reply
  <2> QED
    BY <1>8, <2>6, <2>8 DEF Undisturbed
<1> QED
  BY <1>11, <1>12

\* The client's fields, and what it may end with without having received a frame.
LEMMA ClientStep ==
  ASSUME DOMAIN client = {"status", "i", "pkt"}, [Next]_vars
  PROVE  /\ DOMAIN client' = DOMAIN client
         /\ RecvReply \/ UNCHANGED misled
         /\ \/ RecvReply
            \/ client' = client
            \/ client'.status \in {"waiting", "passed", "reported", "send_error", "recv_error"}
<1>1. CASE UNCHANGED vars \/ Lose \/ Foreign \/ ServerStep \/ (\E t \in Senders : send_pkts(t))
             \/ \E t \in DOMAIN threads : ServerError(t)
  BY <1>1 DEF vars, Lose, Foreign, ServerStep, ServerError, Recv, SwapAndSend, AssertFails, send_pkts
<1>2. CASE SendPacket
  BY <1>2 DEF SendPacket, ExitClient
<1>3. CASE Passed \/ RecvError \/ PerfSendError \/ Report
  BY <1>3 DEF Passed, RecvError, PerfSendError, Report, ExitClient
<1>4. CASE RecvReply
  <2> DEFINE frame == Head(to_client)
  <2>1. ExitClient("too_big") \/ Compare(frame)
    BY <1>4 DEF RecvReply
  <2> HIDE DEF frame
  <2>2. client' = client \/ NextPacket
          \/ \E reason \in {"too_big", "wrong_length", "mismatch"} : ExitClient(reason)
    BY <2>1 DEF Compare, SkipFrame
  <2> QED
    BY <1>4, <2>2 DEF ExitClient, NextPacket
<1> QED
  BY <1>1, <1>2, <1>3, <1>4 DEF Next, TestClientStep, PerfClientStep

\* Nothing in the network changes, and the client goes on as it was or ends.
LEMMA EndKeeps ==
  ASSUME Undisturbed, UNCHANGED <<programs, to_server, to_client, threads>>,
         client' = client \/ client'.status \in {"passed", "recv_error"}
  PROVE  Undisturbed'
<1>1. InHand' = InHand /\ pkt_len' = pkt_len
  BY DEF InHand, pkt_len
<1>2. AtOnePlace'
  BY <1>1 DEF Undisturbed, AtOnePlace
<1>3. IsLastPacket'
  BY <1>1 DEF Undisturbed, IsLastPacket, Request, Reply, Padded
<1> QED
  BY <1>2, <1>3 DEF Undisturbed, BuffersFit

LEMMA StopAndWaitStep == ASSUME StopAndWait, [Next]_vars PROVE StopAndWait'
<1>1. NetworkOK /\ NetworkOK' /\ programs' = programs /\ pkt_len' = pkt_len
  <2>1. NetworkOK /\ NetworkOK'
    BY NetworkStep DEF StopAndWait
  <2>2. programs' = programs
    BY DEF vars, Next, Lose, Foreign, TestClientStep, SendPacket, Passed, RecvReply, RecvError,
           PerfClientStep, send_pkts, PerfSendError, Report, ServerStep, Recv, SwapAndSend,
           AssertFails, ServerError
  <2> QED
    BY <2>1, <2>2 DEF pkt_len
<1>2. /\ ClientOK /\ DOMAIN client' = {"status", "i", "pkt"}
      /\ RecvReply \/ UNCHANGED misled
      /\ \/ RecvReply
         \/ client' = client
         \/ client'.status \in {"waiting", "passed", "reported", "send_error", "recv_error"}
  BY ClientStep DEF StopAndWait, ClientOK
<1>3. CASE RecvReply
  <2>1. programs.client = "test_client" /\ misled' = (misled \/ Misleads(Head(to_client)))
    BY <1>3 DEF RecvReply, TestClient
  <2>2. misled \in BOOLEAN
    BY DEF StopAndWait
  <2>3. CASE misled \/ Misleads(Head(to_client))
    BY <1>1, <1>2, <2>1, <2>3 DEF StopAndWait, ClientOK
  <2>4. CASE ~ misled /\ ~ Misleads(Head(to_client))
    <3>1. /\ Undisturbed'
          /\ \/ client' = client
             \/ client'.status = "sending"
             \/ client'.status = "wrong_length" /\ pkt_len < MinFrame
      BY <1>1, <1>2, <1>3, <2>1, <2>4, ReplyKeeps DEF StopAndWait, ClientOK
    <3>2. misled' = FALSE
      BY <2>1, <2>4
    <3>3. ClientOK'
      BY <1>1, <1>2, <2>4, <3>1, <3>2 DEF ClientOK
    <3> QED
      BY <1>1, <3>1, <3>2, <3>3 DEF StopAndWait
  <2> QED
    BY <2>3, <2>4
<1>4. CASE ~ RecvReply
  <2>1. ClientOK' /\ misled' = misled
    BY <1>1, <1>2, <1>4 DEF ClientOK
  <2> SUFFICES ASSUME programs.client = "test_client", Undisturbed
               PROVE  Undisturbed'
    BY <1>1, <2>1 DEF StopAndWait
  <2>2. CASE UNCHANGED vars
    BY <2>2, EndKeeps DEF vars
  <2>3. CASE Passed \/ RecvError
    <3>1. UNCHANGED <<programs, to_server, to_client, threads>>
      BY <2>3 DEF Passed, RecvError, network
    <3>2. client'.status \in {"passed", "recv_error"}
      BY <1>2, <2>3 DEF Passed, RecvError, ExitClient, ClientOK
    <3> QED
      BY <3>1, <3>2, EndKeeps
  <2>4. CASE \E t \in DOMAIN threads : AssertFails(t) \/ ServerError(t)
    BY <2>4, EndKeeps DEF AssertFails, ServerError, ExitServer
  <2>5. CASE \E t \in DOMAIN threads : Recv(t) \/ SwapAndSend(t)
    BY <1>1, <2>5, RecvKeeps, SwapKeeps
  <2>6. CASE Lose \/ Foreign \/ SendPacket
    BY <1>1, <1>2, <2>6, LoseKeeps, ForeignKeeps, SendKeeps DEF ClientOK
  <2>7. ~ PerfClientStep
    BY DEF PerfClientStep, send_pkts, PerfSendError, Report, PerfClient
  <2> QED
    BY <1>4, <2>2, <2>3, <2>4, <2>5, <2>6, <2>7 DEF Next, TestClientStep, ServerStep
<1> QED
  BY <1>3, <1>4

LEMMA StopAndWaitHolds == HostSpec => []StopAndWait
  BY StopAndWaitInit, StopAndWaitStep, PTL DEF HostSpec

LEMMA FewOutstanding ==
  ASSUME NEW S, \A i, j \in S : i = j
  PROVE  Cardinality(S) \in {0, 1} /\ (S = {} => Cardinality(S) = 0)
<1>1. CASE S = {}
  BY <1>1, FS_EmptySet
<1>2. CASE S # {}
  <2>1. PICK x : S = {x}
    BY <1>2
  <2>2. Cardinality({x}) = 1
    BY FS_Singleton
  <2> QED
    BY <1>2, <2>1, <2>2
<1> QED
  BY <1>1, <1>2

\* Of the client's packets one at most is on its way, whatever is lost, fails or comes
\* from others, until the client receives what it cannot tell from a reply
\* (test_client.c:191-220).
THEOREM OneIsOutstanding == HostSpec => []OneOutstanding
<1>1. StopAndWait => OneOutstanding
  <2> SUFFICES ASSUME StopAndWait, programs.client = "test_client", ~ misled
               PROVE  Cardinality(InTransit(to_server)) + Cardinality(InTransit(to_client))
                        + Cardinality(InHand) <= IF client.status = "sending" THEN 0 ELSE 1
    BY DEF OneOutstanding
  <2>1. AtOnePlace
    BY DEF StopAndWait, Undisturbed
  <2> DEFINE a == Cardinality(InTransit(to_server))
             b == Cardinality(InTransit(to_client))
             c == Cardinality(InHand)
  <2>2. /\ a \in {0, 1} /\ (None(to_server) => a = 0)
        /\ b \in {0, 1} /\ (None(to_client) => b = 0)
        /\ c \in {0, 1} /\ (InHand = {} => c = 0)
    BY <2>1, FewOutstanding DEF AtOnePlace, One, None
  <2> HIDE DEF a, b, c
  <2>3. a + b + c <= IF client.status = "sending" THEN 0 ELSE 1
    BY <2>1, <2>2 DEF AtOnePlace
  <2> QED
    BY <2>3 DEF a, b, c
<1> QED
  BY <1>1, StopAndWaitHolds, PTL

\* What the client compares is the echo of its last packet, unless it has received a
\* frame of others of EtherType 0x0900 or too long: so it finds no fault with a reply,
\* except with the length of short packets, which are padded (test_client.c:204-254).
THEOREM EveryReplyIsAccepted == HostSpec => []RepliesAreAccepted
<1>1. StopAndWait => RepliesAreAccepted
  BY DEF StopAndWait, ClientOK, RepliesAreAccepted
<1> QED
  BY <1>1, StopAndWaitHolds, PTL

-----------------------------------------------------------------------------
(***************************************************************************)
(* The report of perf_client.                                              *)
(***************************************************************************)
Turn == Senders \X (0 .. pktcnt - 1)
TurnsOf(k) == {p \in Turn : p[2] < sent[p[1]] /\ idx(p[2]) = k}

Counted ==
    /\ sent \in [Senders -> 0 .. pktcnt]
    /\ DOMAIN handed = DOMAIN tuple5s
    /\ \A k \in DOMAIN tuple5s : handed[k] = Cardinality(TurnsOf(k))
    /\ DOMAIN client = {"status", "i", "pkt"}
    /\ client.status = "reported" => \A t \in Senders : sent[t] = pktcnt

LEMMA TurnsAreFinite == \A k : IsFiniteSet(TurnsOf(k)) /\ Cardinality(TurnsOf(k)) \in Nat
<1>1. 0 \in Int /\ pktcnt - 1 \in Int
  BY PktcntAssumption
<1>2. IsFiniteSet(0 .. pktcnt - 1)
  BY <1>1, FS_Interval
<1>3. IsFiniteSet(Turn)
  BY <1>2, ThreadsAssumption, FS_Product DEF Turn
<1>4. \A k : IsFiniteSet(TurnsOf(k))
  BY <1>3, FS_Subset DEF TurnsOf
<1> QED
  BY <1>4, FS_CardinalityType

LEMMA SendCounts == ASSUME Counted, NEW t \in Senders, send_pkts(t) PROVE Counted'
<1> DEFINE n == sent[t]
           turn == <<t, n>>
<1>1. /\ n \in 0 .. pktcnt - 1
      /\ sent' = [sent EXCEPT ![t] = n + 1]
      /\ handed' = [handed EXCEPT ![idx(n)] = @ + 1]
      /\ client' = client /\ client.status = "sending"
  BY PktcntAssumption DEF send_pkts, MoreToSend, PerfClient, Counted
<1>2. /\ sent' \in [Senders -> 0 .. pktcnt] /\ sent'[t] = n + 1
      /\ \A u \in Senders : u # t => sent'[u] = sent[u]
  BY <1>1, PktcntAssumption DEF Counted
<1> HIDE DEF n
<1>3. turn \in Turn /\ turn[1] = t /\ turn[2] = n
  BY <1>1 DEF Turn
<1>4. ASSUME NEW p \in Turn
      PROVE  p[2] < sent'[p[1]] <=> p[2] < sent[p[1]] \/ p = turn
  <2>1. p[1] \in Senders /\ p[2] \in Int /\ p = <<p[1], p[2]>>
    BY DEF Turn
  <2>2. CASE p[1] = t
    BY <1>1, <1>2, <2>1, <2>2 DEF n
  <2>3. CASE p[1] # t
    BY <1>2, <2>1, <2>3
  <2> QED
    BY <2>2, <2>3
<1>5. ~ (turn[2] < sent[turn[1]])
  BY <1>1, <1>3 DEF n
<1> HIDE DEF turn
<1>6. ASSUME NEW k \in DOMAIN tuple5s
      PROVE  handed'[k] = Cardinality(TurnsOf(k)')
  <2>1. CASE k = idx(n)
    <3>1. TurnsOf(k)' = TurnsOf(k) \cup {turn} /\ turn \notin TurnsOf(k)
      BY <1>3, <1>4, <1>5, <2>1 DEF TurnsOf, idx, Turn
    <3>2. Cardinality(TurnsOf(k) \cup {turn}) = Cardinality(TurnsOf(k)) + 1
      BY <3>1, TurnsAreFinite, FS_AddElement
    <3>3. handed'[k] = handed[k] + 1
      BY <1>1, <2>1 DEF Counted
    <3> QED
      BY <3>1, <3>2, <3>3 DEF Counted
  <2>2. CASE k # idx(n)
    <3>1. TurnsOf(k)' = TurnsOf(k)
      BY <1>3, <1>4, <2>2 DEF TurnsOf, idx, Turn
    <3>2. handed'[k] = handed[k]
      BY <1>1, <2>2 DEF Counted
    <3> QED
      BY <3>1, <3>2 DEF Counted
  <2> QED
    BY <2>1, <2>2
<1>7. DOMAIN handed' = DOMAIN handed /\ client'.status # "reported"
  BY <1>1
<1> QED
  BY <1>1, <1>2, <1>6, <1>7 DEF Counted

LEMMA CountedInit == ASSUME Init PROVE Counted
<1>1. /\ sent = [t \in Senders |-> 0] /\ handed = [k \in DOMAIN tuple5s |-> 0]
      /\ client = [status |-> "sending", i |-> 0, pkt |-> NoFrame]
  BY DEF Init
<1>2. sent \in [Senders -> 0 .. pktcnt]
  BY <1>1, PktcntAssumption
<1>3. ASSUME NEW k PROVE TurnsOf(k) = {}
  <2>1. \A p \in Turn : p[1] \in Senders /\ p[2] \in 0 .. pktcnt - 1
    BY DEF Turn
  <2>2. \A p \in Turn : sent[p[1]] = 0 /\ ~ (p[2] < 0)
    BY <1>1, <2>1, PktcntAssumption
  <2> QED
    BY <2>2 DEF TurnsOf
<1>4. \A k \in DOMAIN tuple5s : handed[k] = Cardinality(TurnsOf(k))
  BY <1>1, <1>3, FS_EmptySet
<1> QED
  BY <1>1, <1>2, <1>4 DEF Counted

LEMMA CountedStep == ASSUME Counted, [Next]_vars PROVE Counted'
<1>1. ASSUME UNCHANGED <<sent, handed>>, DOMAIN client' = DOMAIN client,
             client'.status = "reported" => client.status = "reported" \/ Joined
      PROVE  Counted'
  <2>1. \A k : TurnsOf(k)' = TurnsOf(k)
    BY <1>1 DEF TurnsOf, Turn, idx
  <2>2. Joined => \A t \in Senders : sent[t] = pktcnt
    BY PktcntAssumption DEF Joined, MoreToSend, Counted
  <2> QED
    BY <1>1, <2>1, <2>2 DEF Counted
<1>2. CASE \E t \in Senders : send_pkts(t)
  BY <1>2, SendCounts
<1>3. CASE UNCHANGED vars \/ Lose \/ Foreign \/ ServerStep
              \/ \E t \in DOMAIN threads : ServerError(t)
  <2>1. UNCHANGED <<sent, handed, client>>
    BY <1>3 DEF vars, Lose, Foreign, ServerStep, ServerError, Recv, SwapAndSend, AssertFails
  <2> QED
    BY <1>1, <2>1
<1>4. CASE TestClientStep \/ PerfSendError \/ Report
  <2>1. UNCHANGED <<sent, handed>>
    BY <1>4 DEF TestClientStep, SendPacket, Passed, RecvReply, RecvError, PerfSendError, Report
  <2>2. /\ DOMAIN client' = DOMAIN client
        /\ client'.status = "reported" => client.status = "reported" \/ Joined
    <3>1. CASE SendPacket
      BY <3>1 DEF SendPacket, ExitClient, Counted
    <3>2. CASE Passed \/ RecvError \/ PerfSendError
      BY <3>2 DEF Passed, RecvError, PerfSendError, ExitClient, Counted
    <3>3. CASE RecvReply
      <4> DEFINE frame == Head(to_client)
      <4>1. ExitClient("too_big") \/ Compare(frame)
        BY <3>3 DEF RecvReply
      <4> HIDE DEF frame
      <4>2. \/ client' = client
            \/ \E reason \in {"too_big", "wrong_length", "mismatch"} : ExitClient(reason)
            \/ NextPacket
        BY <4>1 DEF Compare, SkipFrame
      <4> QED
        BY <4>2 DEF ExitClient, NextPacket, Counted
    <3>4. CASE Report
      BY <3>4 DEF Report, ExitClient, Counted
    <3> QED
      BY <1>4, <3>1, <3>2, <3>3, <3>4 DEF TestClientStep
  <2> QED
    BY <1>1, <2>1, <2>2
<1> QED
  BY <1>2, <1>3, <1>4 DEF Next, PerfClientStep

\* A report is of packets sent: each thread has taken all its turns, and each
\* connection as many as the turns that fall to it (perf_client.c:89-96, 267-275).
THEOREM ReportsAreTrue == HostSpec => []ReportIsTrue
<1>1. Counted => ReportIsTrue
  <2> SUFFICES ASSUME Counted, client.status = "reported", NEW k \in DOMAIN tuple5s
               PROVE  handed[k] = Cardinality(Senders)
                                    * Cardinality({i \in 0 .. pktcnt - 1 : idx(i) = k})
    BY DEF ReportIsTrue
  <2> DEFINE Mine == {i \in 0 .. pktcnt - 1 : idx(i) = k}
  <2>1. \A p \in Turn : p[1] \in Senders /\ p[2] \in 0 .. pktcnt - 1 /\ p = <<p[1], p[2]>>
    BY DEF Turn
  <2>2. \A p \in Turn : p[2] < sent[p[1]]
    BY <2>1, PktcntAssumption DEF Counted
  <2>3. TurnsOf(k) = Senders \X Mine
    BY <2>1, <2>2 DEF TurnsOf, Turn
  <2>4. 0 \in Int /\ pktcnt - 1 \in Int
    BY PktcntAssumption
  <2>5. IsFiniteSet(Mine)
    BY <2>4, FS_Interval, FS_Subset
  <2> HIDE DEF Mine
  <2>6. Cardinality(Senders \X Mine) = Cardinality(Senders) * Cardinality(Mine)
    BY <2>5, ThreadsAssumption, FS_Product
  <2> QED
    BY <2>3, <2>6 DEF Counted, Mine
<1> QED
  BY <1>1, CountedInit, CountedStep, PTL DEF HostSpec

-----------------------------------------------------------------------------
(***************************************************************************)
(* Type correctness.  The loop of test_client stays below its bound since  *)
(* a packet is only waited for while i <= pktcnt.                          *)
(***************************************************************************)
ThreadFields == \A t \in DOMAIN threads : DOMAIN threads[t] = {"pc", "buffer", "taken"}

HostInv ==
    /\ HostTypeOK
    /\ DOMAIN client = {"status", "i", "pkt"}
    /\ client.status = "waiting" => client.i <= pktcnt
    /\ ThreadFields

LEMMA HostInvInit == ASSUME Init PROVE HostInv
<1>1. /\ client = [status |-> "sending", i |-> 0, pkt |-> NoFrame]
      /\ sent = [t \in Senders |-> 0] /\ server = "running"
      /\ threads = [t \in ServerThreads |->
                      [pc |-> "recv", buffer |-> NoFrame, taken |-> NoFrame]]
  BY DEF Init
<1>2. client.i \in 0 .. pktcnt + 1 /\ sent \in [Senders -> 0 .. pktcnt]
  BY <1>1, PktcntAssumption
<1>3. ThreadFields /\ \A t \in DOMAIN threads : threads[t].pc \in {"recv", "swap"}
  BY <1>1 DEF ThreadFields
<1> QED
  BY <1>1, <1>2, <1>3 DEF HostInv, HostTypeOK

LEMMA HostInvStep == ASSUME HostInv, [Next]_vars PROVE HostInv'
<1> USE PktcntAssumption
\* The client's fields after a step that ends it, goes on or leaves it alone.
<1>1. ASSUME NEW status \in {"passed", "reported", "wrong_length", "mismatch", "too_big",
                             "send_error", "recv_error"},
             ExitClient(status), UNCHANGED <<sent, server, threads>>
      PROVE  HostInv'
  BY <1>1 DEF HostInv, HostTypeOK, ExitClient, ThreadFields
<1>2. ASSUME UNCHANGED <<client, sent, server, threads>> PROVE HostInv'
  BY <1>2 DEF HostInv, HostTypeOK, ThreadFields
<1>3. CASE SendPacket
  <2>1. UNCHANGED <<sent, server, threads>> /\ client.i <= pktcnt /\ client.status = "sending"
    BY <1>3 DEF SendPacket, TestClient
  <2>2. \/ ExitClient("send_error")
        \/ \E pkt : client' = [client EXCEPT !.status = "waiting", !.pkt = pkt]
    BY <1>3 DEF SendPacket
  <2> QED
    BY <1>1, <2>1, <2>2 DEF HostInv, HostTypeOK, ThreadFields
<1>4. CASE RecvReply
  <2> DEFINE frame == Head(to_client)
  <2>1. UNCHANGED <<sent, server, threads>> /\ client.status = "waiting"
    BY <1>4 DEF RecvReply, TestClient
  <2>2. ExitClient("too_big") \/ Compare(frame)
    BY <1>4 DEF RecvReply
  <2> HIDE DEF frame
  <2>3. \/ client' = client
        \/ \E reason \in {"too_big", "wrong_length", "mismatch"} : ExitClient(reason)
        \/ NextPacket
    BY <2>2 DEF Compare, SkipFrame
  <2>4. CASE NextPacket
    BY <2>1, <2>4 DEF NextPacket, HostInv, HostTypeOK, ThreadFields
  <2> QED
    BY <1>1, <1>2, <2>1, <2>3, <2>4
<1>5. CASE Passed \/ RecvError \/ PerfSendError \/ Report
  BY <1>1, <1>5 DEF Passed, RecvError, PerfSendError, Report
<1>6. CASE \E t \in Senders : send_pkts(t)
  <2>1. PICK t \in Senders : send_pkts(t)
    BY <1>6
  <2>2. /\ UNCHANGED <<client, server, threads>>
        /\ sent[t] < pktcnt /\ sent' = [sent EXCEPT ![t] = @ + 1]
    BY <2>1 DEF send_pkts, MoreToSend
  <2>3. sent \in [Senders -> 0 .. pktcnt]
    BY DEF HostInv, HostTypeOK
  <2>4. sent[t] + 1 \in 0 .. pktcnt
    BY <2>2, <2>3
  <2>5. sent' \in [Senders -> 0 .. pktcnt]
    BY <2>2, <2>3, <2>4
  <2> QED
    BY <2>2, <2>5 DEF HostInv, HostTypeOK, ThreadFields
<1>7. CASE \E t \in DOMAIN threads : Recv(t)
  <2>1. PICK t \in DOMAIN threads : Recv(t)
    BY <1>7
  <2>2. UNCHANGED <<client, sent>>
    BY <2>1 DEF Recv
  <2>3. \/ UNCHANGED threads /\ server' = "too_large"
        \/ UNCHANGED server /\ \E frame : threads' = Store(t, frame)
    BY <2>1 DEF Recv, ExitServer
  <2>4. CASE \E frame : threads' = Store(t, frame)
    <3>1. PICK frame : threads' = Store(t, frame)
      BY <2>4
    <3>2. /\ DOMAIN Working(frame) = {"pc", "buffer", "taken"}
          /\ Working(frame).pc \in {"recv", "swap"}
      BY DEF Working
    <3>3. DOMAIN threads' = DOMAIN threads
          /\ \A u \in DOMAIN threads : threads'[u] = IF u = t THEN Working(frame) ELSE threads[u]
      BY <2>1, <3>1 DEF Store
    <3> HIDE DEF Working
    <3>4. ThreadFields' /\ \A u \in DOMAIN threads' : threads'[u].pc \in {"recv", "swap"}
      BY <3>2, <3>3 DEF HostInv, HostTypeOK, ThreadFields
    <3>5. server' \in {"running", "too_large", "aborted", "send_error", "recv_error"}
      BY <2>3 DEF HostInv, HostTypeOK
    <3> QED
      BY <2>2, <3>4, <3>5 DEF HostInv, HostTypeOK
  <2> QED
    BY <2>2, <2>3, <2>4 DEF HostInv, HostTypeOK, ThreadFields
<1>8. CASE \E t \in DOMAIN threads : SwapAndSend(t)
  <2>0. PICK t \in DOMAIN threads : SwapAndSend(t)
    BY <1>8
  <2>1. PICK echo : /\ UNCHANGED <<client, sent, server>>
                    /\ threads' = [threads EXCEPT ![t].pc = "recv", ![t].buffer = echo]
    BY <2>0 DEF SwapAndSend
  <2>2. DOMAIN threads' = DOMAIN threads
    BY <2>1
  <2>3. \A u \in DOMAIN threads :
           /\ DOMAIN threads'[u] = {"pc", "buffer", "taken"}
           /\ threads'[u].pc \in {"recv", "swap"}
    BY <2>1 DEF HostInv, HostTypeOK, ThreadFields
  <2> QED
    BY <2>1, <2>2, <2>3 DEF HostInv, HostTypeOK, ThreadFields
<1>9. CASE \E t \in DOMAIN threads : AssertFails(t) \/ ServerError(t)
  BY <1>9 DEF AssertFails, ServerError, ExitServer, HostInv, HostTypeOK, ThreadFields
<1>10. CASE UNCHANGED vars \/ Lose \/ Foreign
  BY <1>2, <1>10 DEF vars, Lose, Foreign
<1> QED
  BY <1>3, <1>4, <1>5, <1>6, <1>7, <1>8, <1>9, <1>10
     DEF Next, TestClientStep, PerfClientStep, ServerStep

\* The counters of the two programs stay within their loops, and a program ends in
\* one of the ways its exits name (test_client.c:186-258, perf_client.c:89-97).
THEOREM HostTypeCorrect == HostSpec => []HostTypeOK
<1>1. HostInv => HostTypeOK
  BY DEF HostInv
<1> QED
  BY <1>1, HostInvInit, HostInvStep, PTL DEF HostSpec
=============================================================================
