----------------------------- MODULE TupleWire -----------------------------
(***************************************************************************)
(* How a 5-tuple lies in the bytes of a packet: as the programs read and   *)
(* write it (Tuple5 and Packet of src/tuple5.h, of which both test benches *)
(* have a copy), as the rewriter cuts it out of the beats (src/our_ip.v)   *)
(* and as the connection table reorders, hashes and answers it             *)
(* (src/hash_ip.v).  A packet is a function from 0 .. n-1 to bytes; a      *)
(* value of several bytes is the function of its bytes in memory order,    *)
(* the lowest first.                                                       *)
(***************************************************************************)
EXTENDS Integers

\* Operators named <definition>_<bug> are faulty variants, see NatTable.

Byte == 0 .. 255
Bytes(n) == [0 .. n - 1 -> Byte]

\* 14 + 20 + 20 bytes of headers; what follows is payload.
HeaderBytes == 54

Field(data, at, n) == [i \in 0 .. n - 1 |-> data[at + i]]

Tuple5s == [src_ip : Bytes(4), dst_ip : Bytes(4), src_port : Bytes(2), dst_port : Bytes(2),
            protocol : Byte]

\* ip_protocol() points to 16 bits at byte 23, of which the 8-bit field of Tuple5
\* keeps the first byte.
tuple5(data) ==
    [src_ip   |-> Field(data, 26, 4), dst_ip   |-> Field(data, 30, 4),
     src_port |-> Field(data, 34, 2), dst_port |-> Field(data, 36, 2), protocol |-> data[23]]

\* Written through the same pointers: the protocol with a zero byte after it.
apply(data, t) ==
    [i \in DOMAIN data |->
        CASE i \in 26 .. 29 -> t.src_ip[i - 26]
          [] i \in 30 .. 33 -> t.dst_ip[i - 30]
          [] i \in 34 .. 35 -> t.src_port[i - 34]
          [] i \in 36 .. 37 -> t.dst_port[i - 36]
          [] i = 23 -> t.protocol
          [] i = 24 -> 0
          [] OTHER  -> data[i]]

EtherType(data) == <<data[12], data[13]>>
ARP  == <<8, 6>>   \* 0x0806
IPv4 == <<8, 0>>   \* 0x0800

is_reply(t, other) ==
    /\ t.src_ip = other.dst_ip /\ t.dst_ip = other.src_ip
    /\ t.src_port = other.dst_port /\ t.dst_port = other.src_port
    /\ t.protocol = other.protocol

\* The tuple of the reply: addresses exchanged, ports exchanged.
Reversed_LosesPort(t) == [src_ip |-> t.dst_ip, dst_ip |-> t.src_ip, src_port |-> t.dst_port,
                          dst_port |-> t.dst_port, protocol |-> t.protocol]

Reversed(t) == [src_ip |-> t.dst_ip, dst_ip |-> t.src_ip, src_port |-> t.dst_port,
                dst_port |-> t.src_port, protocol |-> t.protocol]

\* < on unsigned integers of the little-endian host: the highest byte that differs.
LessThan(a, b) ==
    \E i \in DOMAIN a : a[i] < b[i] /\ \A j \in DOMAIN a : j > i => a[j] = b[j]

\* operator<, the order of the std::map that the tests keep their mappings in.
Precedes(s, t) ==
    \/ LessThan(s.src_ip, t.src_ip)
    \/ s.src_ip = t.src_ip /\ LessThan(s.dst_ip, t.dst_ip)
    \/ s.src_ip = t.src_ip /\ s.dst_ip = t.dst_ip /\ LessThan(s.src_port, t.src_port)
    \/ /\ s.src_ip = t.src_ip /\ s.dst_ip = t.dst_ip /\ s.src_port = t.src_port
       /\ LessThan(s.dst_port, t.dst_port)
    \/ /\ s.src_ip = t.src_ip /\ s.dst_ip = t.dst_ip /\ s.src_port = t.src_port
       /\ s.dst_port = t.dst_port /\ s.protocol < t.protocol

\* ntohs: the number a port stands for, the high byte first on the wire.
ntohs(port) == 256 * port[0] + port[1]

-----------------------------------------------------------------------------
\* Bits lo to lo + 8n - 1 of s_axis_tdata when the w-th word of a packet is on it.
Slice(data, w, lo, n) == [i \in 0 .. n - 1 |-> data[8 * w + lo \div 8 + i]]

\* The header registers after word 4; dst_ip is loaded in two halves.
HeaderTuple(data) ==
    [src_ip   |-> Slice(data, 3, 16, 4),
     dst_ip   |-> [i \in 0 .. 3 |-> IF i < 2 THEN Slice(data, 3, 48, 2)[i]
                                             ELSE Slice(data, 4, 0, 2)[i - 2]],
     src_port |-> Slice(data, 4, 16, 2), dst_port |-> Slice(data, 4, 32, 2),
     protocol |-> Slice(data, 2, 56, 1)[0]]

\* The inner_port and outer_port registers: the two bytes of a port exchanged.
PortRegister(port) == [i \in 0 .. 1 |-> port[1 - i]]

\* conn_data_0: an index in the high byte of the answer, the low byte is never written.
AnswerPort(idx) == [i \in 0 .. 1 |-> IF i = 1 THEN idx % 256 ELSE 0]

\* conn_data_1 and conn_port_rx: the bytes of inner_port exchanged once more.
RestoredPort(register) == [i \in 0 .. 1 |-> register[1 - i]]

\* Header bytes of a packet after the rewriter has written an answer into word 4.
Rewritten(data, conn_data) == [i \in DOMAIN data |-> IF i \in 34 .. 35 THEN conn_data[i - 34]
                                                                  ELSE data[i]]
=============================================================================
