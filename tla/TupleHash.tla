----------------------------- MODULE TupleHash -----------------------------
(***************************************************************************)
(* The hash of a connection key: the XOR of the fields of the 5-tuple, cut *)
(* to hash_len bits (src/hash_ip.v:86-90, 100-104 and 114).  The tables of *)
(* NatTable work for any hash function; the model-checking instances use   *)
(* this one.                                                               *)
(***************************************************************************)
LOCAL INSTANCE Bitwise
LOCAL INSTANCE Integers

TCP == 6

XorHash(k, idSpace) ==
    ((((TCP ^^ k.oport) ^^ k.iport) ^^ k.outer) ^^ k.inner) % idSpace

\* The same in src/nat.v:43-48.
SerialXor(t, idSpace) ==
    ((((t.srcip ^^ t.dstip) ^^ t.srcport) ^^ t.dstport) ^^ t.protocol) % idSpace
=============================================================================
