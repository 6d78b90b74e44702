----------------------------- MODULE StreamEnds -----------------------------
(***************************************************************************)
(* The ends of the packet streams in src/3ip_testbench.cpp: Sender and     *)
(* EchoSender feed a rewriter, Recver and EchoRecver collect what it sends *)
(* and Recver turns every packet round.  Each operator is one call of a    *)
(* rising_edge method, made after the clock edge has updated the design.   *)
(***************************************************************************)
EXTENDS Sequences, Integers

CONSTANT NoBeat

\* packets: what is left to send; word: words of the first one already taken.
SenderInit(packets) == [packets |-> packets, word |-> 0, sleeping |-> 0, valid |-> FALSE]

\* The beat on s_axis_*: the next word of the first packet (lines 132-141).
Offered(s) ==
    IF s.valid THEN [pkt  |-> Head(s.packets), word |-> s.word,
                     last |-> s.word = Head(s.packets).len - 1]
               ELSE NoBeat

\* The beat offered so far is done when tready is high AFTER the edge, which is
\* when the answer arrives for a beat the rewriter holds (lines 106-118).
Taken(s, tready) == s.valid /\ tready

Drop(s, nap) ==
    IF s.word = Head(s.packets).len - 1
    THEN [s EXCEPT !.packets = Tail(@), !.word = 0, !.sleeping = nap]
    ELSE [s EXCEPT !.word = @ + 1, !.sleeping = nap]

Propose(s) ==
    IF s.sleeping > 0 THEN [s EXCEPT !.sleeping = @ - 1, !.valid = FALSE]
                      ELSE [s EXCEPT !.valid = (s.packets # << >>)]

SenderEdge(s, tready, nap) == Propose(IF Taken(s, tready) THEN Drop(s, nap) ELSE s)

-----------------------------------------------------------------------------
\* packets: complete packets; current: the one being received.  Either is kept as
\* the beats that arrived.
RecverInit == [packets |-> << >>, current |-> << >>]

RecverEdge(r, tvalid, beat) ==
    IF ~tvalid THEN r
    ELSE IF beat.last
         THEN [packets |-> Append(r.packets, Append(r.current, beat)), current |-> << >>]
         ELSE [r EXCEPT !.current = Append(@, beat)]

\* The header of a received packet: word 4 is the one that may be rewritten.
Header(beats) == beats[IF Len(beats) > 4 THEN 5 ELSE 1].pkt

\* Recver sends each packet back with source and destination exchanged, unless
\* it is an ARP packet (lines 214-220).
Echo(p) ==
    IF p.ether = "arp" THEN p
    ELSE [p EXCEPT !.src = p.dst, !.dst = p.src, !.sport = p.dport, !.dport = p.sport]
=============================================================================
