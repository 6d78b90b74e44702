------------------------------ MODULE HashBits ------------------------------
(***************************************************************************)
(* The hash of the connection table bit by bit (src/hash_ip.v).  Stage 2   *)
(* enters the reverse of a connection under a hash of registers, stage 0   *)
(* looks a reply up under a hash of slices of the tuple it arrives with:   *)
(* NatTable has one function Hash for both.  A tuple is its bits 0 .. 103  *)
(* in the order of src/our_ip.v:49: protocol lowest, then destination and  *)
(* source port, destination and source address.                            *)
(***************************************************************************)
EXTENDS Integers

Bit == {0, 1}
TupleBits == [0 .. 103 -> Bit]

\* a ^ b ^ c ^ d ^ e on bits.
Xor5(a, b, c, d, e) == (a + b + c + d + e) % 2

\* Bit i of loc_to_probe when stage 0 accepts the tuple q.
LookupBit(q, i) == Xor5(q[i], q[16 + i], q[32 + i], q[40 + i], q[72 + i])

\* The registers that stage 0 loads from an outbound tuple q; protocol has 8 bits.
inner_ip(q, i)   == q[72 + i]
outer_ip(q, i)   == q[40 + i]
outer_port(q, i) == IF i < 8 THEN q[16 + i] ELSE q[i]
protocol(q, i)   == IF i < 8 THEN q[i] ELSE 0

\* Bit i of loc_to_probe when stage 1 has given the connection of q the index idx.
InsertBit(q, idx, i) ==
    Xor5(inner_ip(q, i), outer_ip(q, i), idx[i], outer_port(q, i), protocol(q, i))

\* The reply to a packet of q that left with the answer idx: addresses and ports
\* exchanged, and in the port the eight bits of the index that line 116 has room for.
ReplyTo(q, idx, hash_len) ==
    [i \in 0 .. 103 |->
        CASE i >= 72            -> q[i - 32]
          [] i \in 40 .. 71     -> q[i + 32]
          [] i \in 24 .. 39     -> q[i - 16]
          [] i \in 16 .. 23     -> IF i - 16 < hash_len THEN idx[i - 16] ELSE 0
          [] i \in 8 .. 15      -> 0
          [] OTHER              -> q[i]]
=============================================================================
