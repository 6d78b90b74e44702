---------------------------- MODULE HostPrograms ----------------------------
(***************************************************************************)
(* The programs at the two ends of the link.  On the host test_client.c    *)
(* sends a packet and waits for its echo, or the threads of perf_client.c  *)
(* send without waiting.  On the board test_server.c, or the threads of    *)
(* perf_server.c, take frames of EtherType 0x0900 and exchange source and  *)
(* destination; test_server.c sends them back.  All threads of a program   *)
(* share one raw socket, which never shows a program its own frames.  The  *)
(* link may lose frames and carries frames of others.                      *)
(*                                                                         *)
(* A frame is its EtherType, its 5-tuple, its payload and its length, and  *)
(* who first sent it, which no program looks at.                           *)
(***************************************************************************)
EXTENDS TupleWire, Sequences, FiniteSets

CONSTANTS
    Clients, Servers,   \* which programs may run
    PayloadLens,        \* -l
    tuple5s,            \* the random 5-tuples, in a sequence: their number is -c
    pktcnt,             \* 10 (test_client.c:168) or 1024 * 128 (perf_client.c:247)
    Senders, Echoers,   \* threads of perf_client and of perf_server
    ForeignFrames,      \* frames of others that arrive
    MaxLost, MaxForeign \* bounds of the model

ASSUME Tuple5sAssumption == tuple5s # << >> /\ \A i \in DOMAIN tuple5s : tuple5s[i].protocol = 6
ASSUME PktcntAssumption  == pktcnt \in Nat
ASSUME ThreadsAssumption == IsFiniteSet(Senders)
ASSUME PayloadAssumption == PayloadLens \subseteq Nat

VARIABLES
    programs,            \* [client, server, payload_len], chosen once
    to_server, to_client,  \* frames under way, up to recv
    lost, foreign,       \* frames lost, frames of others so far
    client,              \* [status, i, pkt], test_client or the process of perf_client
    sent,                \* i of each thread of perf_client
    handed,              \* packets of each connection that send has taken (history)
    misled,              \* test_client has received what it cannot tell from a reply (history)
    server,              \* status of the server's process
    threads              \* [pc, buffer, taken] of each of its threads

vars == <<programs, to_server, to_client, lost, foreign, client, sent, handed, misled, server, threads>>
network == <<to_server, to_client, lost, foreign>>

\* Operators named <definition>_<bug> are faulty variants, see NatTable.

NoFrame == [ether |-> "none", tuple |-> tuple5s[1], payload |-> 0, len |-> 0, from |-> "others"]

\* Ethernet pads shorter frames.
MinFrame == 60
OnTheWire(frame) == [frame EXCEPT !.len = IF @ < MinFrame THEN MinFrame ELSE @]

pkt_len == HeaderBytes + programs.payload_len
create_custom_L4_pkt(tuple, payload) ==
    [ether |-> "custom", tuple |-> tuple, payload |-> payload, len |-> pkt_len,
     from |-> "test"]

IsCustomTcp(frame) == frame.ether = "custom" /\ frame.tuple.protocol = 6
Own(frame) == frame.from = "test"

\* Any frame of Ethernet may come from others, one of the test's EtherType too.
ASSUME ForeignAssumption ==
    \A frame \in ForeignFrames :
        /\ DOMAIN frame = {"ether", "tuple", "payload", "len", "from"}
        /\ frame.len \in Nat /\ frame.len >= MinFrame /\ ~ Own(frame)

\* The threads a program has.
ServerThreads == IF programs.server = "perf_server" THEN Echoers ELSE {"main"}

Init ==
    /\ programs \in [client : Clients, server : Servers, payload_len : PayloadLens]
    /\ programs.client = "test_client" => programs.payload_len <= 1500
    /\ to_server = << >> /\ to_client = << >> /\ lost = 0 /\ foreign = 0
    /\ client = [status |-> "sending", i |-> 0, pkt |-> NoFrame]
    /\ sent = [t \in Senders |-> 0] /\ handed = [k \in DOMAIN tuple5s |-> 0]
    /\ misled = FALSE
    /\ server = "running"
    /\ threads = [t \in ServerThreads |-> [pc |-> "recv", buffer |-> NoFrame, taken |-> NoFrame]]

-----------------------------------------------------------------------------
(***************************************************************************)
(* The network.                                                            *)
(***************************************************************************)
Lose ==
    /\ lost < MaxLost /\ lost' = lost + 1
    /\ \/ to_server # << >> /\ to_server' = Tail(to_server) /\ UNCHANGED to_client
       \/ to_client # << >> /\ to_client' = Tail(to_client) /\ UNCHANGED to_server
    /\ UNCHANGED <<programs, foreign, client, sent, handed, misled, server, threads>>

Foreign ==
    /\ foreign < MaxForeign /\ foreign' = foreign + 1
    /\ \E frame \in ForeignFrames :
          \/ to_server' = Append(to_server, frame) /\ UNCHANGED to_client
          \/ to_client' = Append(to_client, frame) /\ UNCHANGED to_server
    /\ UNCHANGED <<programs, lost, client, sent, handed, misled, server, threads>>

-----------------------------------------------------------------------------
(***************************************************************************)
(* test_client.c.                                                          *)
(***************************************************************************)
TestClient(status) == programs.client = "test_client" /\ client.status = status
ExitClient(reason) == client' = [client EXCEPT !.status = reason]

\* for (int i = 0; i <= pktcnt; i++)
SendPacket ==
    /\ TestClient("sending") /\ client.i <= pktcnt
    /\ \E k \in DOMAIN tuple5s :
          LET pkt == create_custom_L4_pkt(tuple5s[k], client.i)
          IN  \/ /\ client' = [client EXCEPT !.status = "waiting", !.pkt = pkt]
                 /\ to_server' = Append(to_server, OnTheWire(pkt))
              \/ ExitClient("send_error") /\ UNCHANGED to_server
    /\ UNCHANGED <<programs, to_client, lost, foreign, sent, handed, misled, server, threads>>

Passed ==
    /\ TestClient("sending") /\ client.i > pktcnt
    /\ ExitClient("passed")
    /\ UNCHANGED <<programs, network, sent, handed, misled, server, threads>>

\* Lines 228-254; the protocol is not compared.
IsEcho(pkt, frame) ==
    /\ pkt.tuple.src_ip = frame.tuple.dst_ip /\ pkt.tuple.dst_ip = frame.tuple.src_ip
    /\ pkt.tuple.src_port = frame.tuple.dst_port /\ pkt.tuple.dst_port = frame.tuple.src_port
    /\ pkt.payload = frame.payload

NextPacket == client' = [client EXCEPT !.status = "sending", !.i = @ + 1]

\* Not our packet: the loop of line 197 goes on.
SkipFrame_Breaks == NextPacket
SkipFrame == UNCHANGED client

Compare(frame) ==
    \/ frame.ether # "custom" /\ SkipFrame
    \/ frame.ether = "custom" /\ frame.len # client.pkt.len /\ ExitClient("wrong_length")
    \/ /\ frame.ether = "custom" /\ frame.len = client.pkt.len
       /\ IF IsEcho(client.pkt, frame) THEN NextPacket ELSE ExitClient("mismatch")

\* A frame of others that the loop does not skip.
Misleads(frame) == ~ Own(frame) /\ (frame.ether = "custom" \/ frame.len >= 8192)

RecvReply ==
    /\ TestClient("waiting")
    /\ to_client # << >> /\ to_client' = Tail(to_client)
    /\ IF Head(to_client).len >= 8192 THEN ExitClient("too_big") ELSE Compare(Head(to_client))
    /\ misled' = (misled \/ Misleads(Head(to_client)))
    /\ UNCHANGED <<programs, to_server, lost, foreign, sent, handed, server, threads>>

RecvError ==
    /\ TestClient("waiting") /\ ExitClient("recv_error")
    /\ UNCHANGED <<programs, network, sent, handed, misled, server, threads>>

-----------------------------------------------------------------------------
(***************************************************************************)
(* perf_client.c.                                                          *)
(***************************************************************************)
PerfClient == programs.client = "perf_client" /\ client.status = "sending"

MoreToSend_Inclusive(i) == i <= pktcnt
MoreToSend(i) == i < pktcnt

\* pkt[i % tuple5_cnt], built once by main; sequences count from 1.
idx(i) == (i % Len(tuple5s)) + 1

send_pkts(t) ==
    /\ PerfClient /\ MoreToSend(sent[t])
    /\ LET k == idx(sent[t])
       IN  /\ to_server' = Append(to_server, OnTheWire(create_custom_L4_pkt(tuple5s[k], k)))
           /\ handed' = [handed EXCEPT ![k] = @ + 1]
    /\ sent' = [sent EXCEPT ![t] = @ + 1]
    /\ UNCHANGED <<programs, to_client, lost, foreign, client, misled, server, threads>>

\* exit(-1) in one thread ends them all.
PerfSendError ==
    /\ PerfClient /\ \E t \in Senders : MoreToSend(sent[t])
    /\ ExitClient("send_error")
    /\ UNCHANGED <<programs, network, sent, handed, misled, server, threads>>

Joined_First == \E t \in Senders : ~ MoreToSend(sent[t])
Joined == \A t \in Senders : ~ MoreToSend(sent[t])

Report ==
    /\ PerfClient /\ Joined
    /\ ExitClient("reported")
    /\ UNCHANGED <<programs, network, sent, handed, misled, server, threads>>

-----------------------------------------------------------------------------
(***************************************************************************)
(* The servers.  taken: the frame a thread works on or worked on last.     *)
(***************************************************************************)
ExitServer(reason) == server' = reason /\ UNCHANGED threads

Working(frame) == [pc |-> IF frame.ether = "custom" THEN "swap" ELSE "recv",
                   buffer |-> frame, taken |-> frame]

Store_SharedBuffer(t, frame) ==
    [u \in DOMAIN threads |->
        IF u = t THEN Working(frame) ELSE [threads[u] EXCEPT !.buffer = frame]]

Store(t, frame) == [threads EXCEPT ![t] = Working(frame)]

\* perf_server has room for 4096 bytes of a frame; test_server exits over a longer
\* one.  ONLY_OUR decides what test_server prints about other frames.
Truncated(frame) == [frame EXCEPT !.len = IF @ > 4096 THEN 4096 ELSE @]

Recv(t) ==
    /\ server = "running" /\ threads[t].pc = "recv"
    /\ to_server # << >> /\ to_server' = Tail(to_server)
    /\ LET frame == Head(to_server)
       IN  \/ /\ programs.server = "test_server" /\ frame.len > 4096
              /\ ExitServer("too_large")
           \/ /\ programs.server = "perf_server" \/ frame.len <= 4096
              /\ threads' = Store(t, Truncated(frame))
              /\ UNCHANGED server
    /\ UNCHANGED <<programs, to_client, lost, foreign, client, sent, handed, misled>>

\* The rest of the loop body; send is commented out in perf_server.c:79-95.
Answer_Commented(frame) == UNCHANGED to_client
Answer(frame) ==
    IF programs.server = "test_server" THEN to_client' = Append(to_client, OnTheWire(frame))
                                       ELSE UNCHANGED to_client

SwapAndSend(t) ==
    /\ server = "running" /\ threads[t].pc = "swap" /\ IsCustomTcp(threads[t].buffer)
    /\ LET echo == [threads[t].buffer EXCEPT !.tuple = Reversed(@)]
       IN  /\ threads' = [threads EXCEPT ![t].pc = "recv", ![t].buffer = echo]
           /\ Answer(echo)
    /\ UNCHANGED <<programs, to_server, lost, foreign, client, sent, handed, misled, server>>

\* assert(0) on a packet of the EtherType that is not TCP.
AssertFails(t) ==
    /\ server = "running" /\ threads[t].pc = "swap" /\ ~ IsCustomTcp(threads[t].buffer)
    /\ ExitServer("aborted")
    /\ UNCHANGED <<programs, to_server, to_client, lost, foreign, client, sent, handed, misled>>

\* An error in one thread ends them all; perf_server sends nothing.
ServerError(t) ==
    /\ server = "running"
    /\ \/ threads[t].pc = "recv" /\ ExitServer("recv_error")
       \/ /\ threads[t].pc = "swap" /\ IsCustomTcp(threads[t].buffer)
          /\ programs.server = "test_server" /\ ExitServer("send_error")
    /\ UNCHANGED <<programs, to_server, to_client, lost, foreign, client, sent, handed, misled>>

-----------------------------------------------------------------------------
TestClientStep == SendPacket \/ Passed \/ RecvReply \/ RecvError
PerfClientStep == (\E t \in Senders : send_pkts(t)) \/ PerfSendError \/ Report
ServerStep     == \E t \in DOMAIN threads : Recv(t) \/ SwapAndSend(t) \/ AssertFails(t)

Next == \/ Lose \/ Foreign
        \/ TestClientStep \/ PerfClientStep
        \/ ServerStep \/ \E t \in DOMAIN threads : ServerError(t)

\* Every process gets on; errors need not come.
HostSpec == /\ Init /\ [][Next]_vars
            /\ WF_vars(SendPacket \/ Passed \/ RecvReply)
            /\ WF_vars(PerfClientStep) /\ WF_vars(ServerStep)

-----------------------------------------------------------------------------
(***************************************************************************)
(* Properties.                                                             *)
(***************************************************************************)
Ended == client.status \notin {"sending", "waiting"}
InTransit(frames) == {i \in DOMAIN frames : Own(frames[i])}
InHand == {t \in DOMAIN threads : threads[t].pc = "swap" /\ Own(threads[t].buffer)}

\* Type invariant of the two programs.
HostTypeOK ==
    /\ client.status \in {"sending", "waiting", "passed", "reported", "wrong_length", "mismatch",
                          "too_big", "send_error", "recv_error"}
    /\ client.i \in 0 .. pktcnt + 1
    /\ sent \in [Senders -> 0 .. pktcnt]
    /\ server \in {"running", "too_large", "aborted", "send_error", "recv_error"}
    /\ \A t \in DOMAIN threads : threads[t].pc \in {"recv", "swap"}

\* Stop and wait: of the client's packets one at most is anywhere between send and
\* the comparison, and none when the next is sent, whatever is lost and comes from
\* others, until a frame of others arrives that the receive loop does not tell from a
\* reply: of EtherType 0x0900, or too long (test_client.c:191-220).
OneOutstanding ==
    programs.client = "test_client" /\ ~ misled =>
        LET outstanding == Cardinality(InTransit(to_server))
                             + Cardinality(InTransit(to_client)) + Cardinality(InHand)
        IN  outstanding <= IF client.status = "sending" THEN 0 ELSE 1

\* The client finds fault with no reply to its own packets: it gives "does not match"
\* and "too big" as the reason only after it received a frame of others that its loop
\* does not skip, and another length only then or if Ethernet padded its packet
\* (lines 204-254).
RepliesAreAccepted ==
    /\ client.status \in {"mismatch", "too_big"} => misled
    /\ client.status = "wrong_length" => misled \/ pkt_len < MinFrame

\* When the client reports thread_num * pktcnt packets, that many were sent, and as
\* many of each connection as its turns in the loop (perf_client.c:89-96, 267-275).
ReportIsTrue ==
    client.status = "reported" =>
        \A k \in DOMAIN tuple5s :
            handed[k] = Cardinality(Senders) * Cardinality({i \in 0 .. pktcnt - 1 : idx(i) = k})

\* What a thread has worked on and has not yet overwritten is the reply to the frame
\* it took, whatever the threads beside it do (perf_server.c:32-77).
BuffersAreReplies ==
    \A t \in DOMAIN threads :
        threads[t].pc = "recv" /\ IsCustomTcp(threads[t].taken) =>
            is_reply(threads[t].buffer.tuple, threads[t].taken.tuple)

\* perf_client ends.  test_client has no timeout: it ends if no frame is lost and the
\* server lives.  Fairness: no process stops for ever where it could go on.
ClientEnds ==
    /\ <>(programs.client = "perf_client" => Ended)
    /\ <>(programs.client = "test_client" /\ programs.server = "test_server" =>
            Ended \/ lost > 0 \/ server # "running")
=============================================================================
