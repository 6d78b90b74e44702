-------------------------- MODULE TupleWireProofs --------------------------
(***************************************************************************)
(* What the byte layout of TupleWire and the hash of HashBits guarantee    *)
(* for every packet, tuple and index.                                      *)
(***************************************************************************)
EXTENDS TupleWire, HashBits, TLAPS

\* The bytes that apply writes, and those it leaves alone.
Writes(packet, t, data) ==
  /\ \A i \in 26 .. 29 : packet[i] = t.src_ip[i - 26]
  /\ \A i \in 30 .. 33 : packet[i] = t.dst_ip[i - 30]
  /\ \A i \in 34 .. 35 : packet[i] = t.src_port[i - 34]
  /\ \A i \in 36 .. 37 : packet[i] = t.dst_port[i - 36]
  /\ packet[23] = t.protocol /\ packet[24] = 0
  /\ \A i \in DOMAIN data : i \notin 23 .. 24 \cup 26 .. 37 => packet[i] = data[i]

LEMMA AppliedBytes ==
  ASSUME NEW n \in Nat, n >= HeaderBytes, NEW data, DOMAIN data = 0 .. n - 1, NEW t
  PROVE  Writes(apply(data, t), t, data)
<1> USE DEF HeaderBytes
<1>1. \A i \in 26 .. 29 : apply(data, t)[i] = t.src_ip[i - 26]
  BY DEF apply
<1>2. \A i \in 30 .. 33 : apply(data, t)[i] = t.dst_ip[i - 30]
  BY DEF apply
<1>3. \A i \in 34 .. 35 : apply(data, t)[i] = t.src_port[i - 34]
  BY DEF apply
<1>4. \A i \in 36 .. 37 : apply(data, t)[i] = t.dst_port[i - 36]
  BY DEF apply
<1>5. apply(data, t)[23] = t.protocol /\ apply(data, t)[24] = 0
  BY DEF apply
<1>6. \A i \in DOMAIN data : i \notin 23 .. 24 \cup 26 .. 37 => apply(data, t)[i] = data[i]
  BY DEF apply
<1> QED
  BY <1>1, <1>2, <1>3, <1>4, <1>5, <1>6 DEF Writes

\* Packet::apply and Packet::tuple5 (tuple5.h:112-122) are inverse, the protocol
\* included, although it is written as 16 bits and read as 8.
THEOREM ApplyWritesTheTuple ==
  ASSUME NEW n \in Nat, n >= HeaderBytes, NEW data \in Bytes(n), NEW t \in Tuple5s
  PROVE  tuple5(apply(data, t)) = t
<1> DEFINE d == apply(data, t)
<1> USE DEF HeaderBytes
<1>1. DOMAIN data = 0 .. n - 1
  BY DEF Bytes
<1>2. /\ Field(d, 26, 4) = t.src_ip
      /\ Field(d, 30, 4) = t.dst_ip
      /\ Field(d, 34, 2) = t.src_port
      /\ Field(d, 36, 2) = t.dst_port
      /\ d[23] = t.protocol
  <2>1. t.src_ip = [i \in 0 .. 3 |-> t.src_ip[i]] /\ t.dst_ip = [i \in 0 .. 3 |-> t.dst_ip[i]]
    BY DEF Tuple5s, Bytes
  <2>2. t.src_port = [i \in 0 .. 1 |-> t.src_port[i]] /\ t.dst_port = [i \in 0 .. 1 |-> t.dst_port[i]]
    BY DEF Tuple5s, Bytes
  <2>3. /\ \A i \in 26 .. 29 : d[i] = t.src_ip[i - 26]
        /\ \A i \in 30 .. 33 : d[i] = t.dst_ip[i - 30]
        /\ \A i \in 34 .. 35 : d[i] = t.src_port[i - 34]
        /\ \A i \in 36 .. 37 : d[i] = t.dst_port[i - 36]
        /\ d[23] = t.protocol
    BY <1>1, AppliedBytes DEF Writes
  <2> HIDE DEF d
  <2>4. \A i \in 0 .. 3 : d[26 + i] = t.src_ip[i] /\ d[30 + i] = t.dst_ip[i]
    BY <2>3
  <2>5. \A i \in 0 .. 1 : d[34 + i] = t.src_port[i] /\ d[36 + i] = t.dst_port[i]
    BY <2>3
  <2> QED
    BY <2>1, <2>2, <2>3, <2>4, <2>5 DEF Field
<1>3. t = [src_ip |-> t.src_ip, dst_ip |-> t.dst_ip, src_port |-> t.src_port,
           dst_port |-> t.dst_port, protocol |-> t.protocol]
  BY DEF Tuple5s
<1> HIDE DEF d
<1>4. tuple5(d) = t
  BY <1>2, <1>3 DEF tuple5
<1> QED
  BY <1>4 DEF d

\* The rewriter's slices of words 2, 3 and 4 (our_ip.v:96-106) are the fields the
\* test programs read (tuple5.h:92-114): the 5-tuple that is looked up is the
\* one the test calls the connection.
THEOREM RewriterReadsTheTuple ==
  ASSUME NEW n \in Nat, n >= HeaderBytes, NEW data \in Bytes(n)
  PROVE  HeaderTuple(data) = tuple5(data)
<1>1. Slice(data, 3, 16, 4) = Field(data, 26, 4)
  BY DEF Slice, Field
<1>2. [i \in 0 .. 3 |-> IF i < 2 THEN Slice(data, 3, 48, 2)[i] ELSE Slice(data, 4, 0, 2)[i - 2]]
        = Field(data, 30, 4)
  BY DEF Slice, Field
<1>3. Slice(data, 4, 16, 2) = Field(data, 34, 2) /\ Slice(data, 4, 32, 2) = Field(data, 36, 2)
  BY DEF Slice, Field
<1>4. Slice(data, 2, 56, 1)[0] = data[23]
  BY DEF Slice
<1> QED
  BY <1>1, <1>2, <1>3, <1>4 DEF HeaderTuple, tuple5

LEMMA TuplesAreTyped ==
  /\ \A n \in Nat : \A data \in Bytes(n) : n >= HeaderBytes => tuple5(data) \in Tuple5s
  /\ \A t \in Tuple5s : Reversed(t) \in Tuple5s
  BY DEF HeaderBytes, Bytes, Tuple5s, tuple5, Field, Reversed

\* What the receivers of the test and the servers do to a packet, twice: the tuple
\* is the one from before, each is the reply of the other, and of the other
\* bytes only byte 24, the first of the IP checksum, has been cleared
\* (tuple5.h:70-72, 116-122; ip_protocol() is 16 bits wide).
THEOREM EchoOfEchoIsTheOriginal ==
  ASSUME NEW n \in Nat, n >= HeaderBytes, NEW data \in Bytes(n)
  PROVE  LET echo  == apply(data, Reversed(tuple5(data)))
             again == apply(echo, Reversed(tuple5(echo)))
         IN  /\ is_reply(tuple5(echo), tuple5(data))
             /\ tuple5(again) = tuple5(data)
             /\ \A i \in DOMAIN data \ {24} : again[i] = data[i]
             /\ again[24] = 0
<1> DEFINE t     == tuple5(data)
           echo  == apply(data, Reversed(t))
           again == apply(echo, Reversed(tuple5(echo)))
<1>1. t \in Tuple5s /\ Reversed(t) \in Tuple5s
  BY TuplesAreTyped
<1>2. echo \in Bytes(n) /\ DOMAIN data = 0 .. n - 1
  <2>1. DOMAIN data = 0 .. n - 1 /\ \A i \in 0 .. n - 1 : data[i] \in Byte
    BY DEF Bytes
  <2>2. ASSUME NEW r \in Tuple5s, NEW i \in 0 .. n - 1
        PROVE  apply(data, r)[i] \in Byte
    <3>1. /\ \A k \in 0 .. 3 : r.src_ip[k] \in Byte /\ r.dst_ip[k] \in Byte
          /\ \A k \in 0 .. 1 : r.src_port[k] \in Byte /\ r.dst_port[k] \in Byte
          /\ r.protocol \in Byte
      BY DEF Tuple5s, Bytes
    <3> DEFINE p == apply(data, r)
    <3>2. Writes(p, r, data)
      BY <2>1, AppliedBytes
    <3> SUFFICES p[i] \in Byte
      OBVIOUS
    <3> HIDE DEF p
    <3>3. CASE i \in 26 .. 29
      <4>1. i - 26 \in 0 .. 3
        BY <3>3
      <4> QED
        BY <3>1, <3>2, <3>3, <4>1 DEF Writes
    <3>4. CASE i \in 30 .. 33
      <4>1. i - 30 \in 0 .. 3
        BY <3>4
      <4> QED
        BY <3>1, <3>2, <3>4, <4>1 DEF Writes
    <3>5. CASE i \in 34 .. 35
      <4>1. i - 34 \in 0 .. 1
        BY <3>5
      <4> QED
        BY <3>1, <3>2, <3>5, <4>1 DEF Writes
    <3>6. CASE i \in 36 .. 37
      <4>1. i - 36 \in 0 .. 1
        BY <3>6
      <4> QED
        BY <3>1, <3>2, <3>6, <4>1 DEF Writes
    <3>7. CASE i = 23 \/ i = 24
      BY <3>1, <3>2, <3>7 DEF Writes, Byte
    <3>8. CASE i \notin 23 .. 24 \cup 26 .. 37
      BY <2>1, <3>2, <3>8 DEF Writes
    <3> QED
      BY <3>3, <3>4, <3>5, <3>6, <3>7, <3>8
  <2>3. echo = [i \in 0 .. n - 1 |-> echo[i]]
    BY <2>1 DEF apply
  <2> QED
    BY <1>1, <2>1, <2>2, <2>3 DEF Bytes
<1>3. tuple5(echo) = Reversed(t)
  BY <1>1, ApplyWritesTheTuple
<1>4. Reversed(Reversed(t)) = t
  BY <1>1 DEF Reversed, Tuple5s
<1>5. again = apply(echo, t)
  BY <1>3, <1>4
<1> HIDE DEF echo, again
<1>6. tuple5(again) = t
  BY <1>1, <1>2, <1>5, ApplyWritesTheTuple
<1>7. is_reply(tuple5(echo), t)
  BY <1>3 DEF is_reply, Reversed
<1>8. /\ \A i \in 26 .. 29 : again[i] = t.src_ip[i - 26]
      /\ \A i \in 30 .. 33 : again[i] = t.dst_ip[i - 30]
      /\ \A i \in 34 .. 35 : again[i] = t.src_port[i - 34]
      /\ \A i \in 36 .. 37 : again[i] = t.dst_port[i - 36]
      /\ again[23] = t.protocol /\ again[24] = 0
      /\ \A i \in 0 .. n - 1 : i \notin 23 .. 24 \cup 26 .. 37 => again[i] = echo[i]
  <2>1. DOMAIN echo = 0 .. n - 1
    BY <1>2 DEF Bytes
  <2>2. Writes(again, t, echo)
    BY <1>5, <2>1, AppliedBytes
  <2> QED
    BY <2>1, <2>2 DEF Writes
<1>9. \A i \in 0 .. n - 1 : i \notin 23 .. 24 \cup 26 .. 37 => echo[i] = data[i]
  <2>1. Writes(echo, Reversed(t), data)
    BY <1>2, AppliedBytes DEF echo
  <2> QED
    BY <1>2, <2>1 DEF Writes
<1>10. /\ \A i \in 26 .. 29 : t.src_ip[i - 26] = data[i]
       /\ \A i \in 30 .. 33 : t.dst_ip[i - 30] = data[i]
       /\ \A i \in 34 .. 35 : t.src_port[i - 34] = data[i]
       /\ \A i \in 36 .. 37 : t.dst_port[i - 36] = data[i]
       /\ t.protocol = data[23]
  BY DEF tuple5, Field
<1> HIDE DEF t
<1>11. \A i \in 0 .. n - 1 : i # 24 => again[i] = data[i]
  BY <1>8, <1>9, <1>10
<1> QED
  BY <1>2, <1>6, <1>7, <1>8, <1>11 DEF echo, again, t

-----------------------------------------------------------------------------
LEMMA BytesAreNumbers ==
  ASSUME NEW n \in Nat, NEW a \in Bytes(n), NEW i \in 0 .. n - 1
  PROVE  a[i] \in Int
<1>1. a[i] \in Byte
  BY DEF Bytes
<1> QED
  BY <1>1 DEF Byte

LEMMA LessThanIrreflexive == ASSUME NEW n \in Nat, NEW a \in Bytes(n) PROVE ~ LessThan(a, a)
<1>1. DOMAIN a = 0 .. n - 1
  BY DEF Bytes
<1> QED
  BY <1>1, BytesAreNumbers DEF LessThan

LEMMA LessThanTransitive ==
  ASSUME NEW n \in Nat, NEW a \in Bytes(n), NEW b \in Bytes(n), NEW c \in Bytes(n),
         LessThan(a, b), LessThan(b, c)
  PROVE  LessThan(a, c)
<1>1. PICK i \in 0 .. n - 1 : a[i] < b[i] /\ \A j \in 0 .. n - 1 : j > i => a[j] = b[j]
  BY DEF LessThan, Bytes
<1>2. PICK k \in 0 .. n - 1 : b[k] < c[k] /\ \A j \in 0 .. n - 1 : j > k => b[j] = c[j]
  BY DEF LessThan, Bytes
<1>3. \A j \in 0 .. n - 1 : a[j] \in Int /\ b[j] \in Int /\ c[j] \in Int
  BY BytesAreNumbers
<1>4. DOMAIN a = 0 .. n - 1
  BY DEF Bytes
<1>5. CASE i > k
  <2>1. a[i] < c[i] /\ \A j \in 0 .. n - 1 : j > i => a[j] = c[j]
    BY <1>1, <1>2, <1>5
  <2> QED
    BY <2>1, <1>4 DEF LessThan
<1>6. CASE i < k
  <2>1. a[k] < c[k] /\ \A j \in 0 .. n - 1 : j > k => a[j] = c[j]
    BY <1>1, <1>2, <1>6
  <2> QED
    BY <2>1, <1>4 DEF LessThan
<1>7. CASE i = k
  <2>1. a[k] < c[k] /\ \A j \in 0 .. n - 1 : j > k => a[j] = c[j]
    BY <1>1, <1>2, <1>3, <1>7
  <2> QED
    BY <2>1, <1>4 DEF LessThan
<1> QED
  BY <1>5, <1>6, <1>7

LEMMA LessThanTotal ==
  ASSUME NEW n \in {2, 4}, NEW a \in Bytes(n), NEW b \in Bytes(n)
  PROVE  LessThan(a, b) \/ a = b \/ LessThan(b, a)
<1>1. DOMAIN a = 0 .. n - 1 /\ DOMAIN b = 0 .. n - 1
  BY DEF Bytes
<1>2. \A i \in 0 .. n - 1 : a[i] \in Int /\ b[i] \in Int
  BY BytesAreNumbers
<1>3. SUFFICES ASSUME a # b PROVE LessThan(a, b) \/ LessThan(b, a)
  OBVIOUS
<1>4. \E i \in 0 .. n - 1 : a[i] # b[i]
  BY <1>3 DEF Bytes
<1>5. \E i \in 0 .. n - 1 : a[i] # b[i] /\ \A j \in 0 .. n - 1 : j > i => a[j] = b[j]
  <2>1. CASE n = 2
    <3>1. 0 .. 1 = {0, 1}
      OBVIOUS
    <3> QED
      BY <1>4, <2>1, <3>1
  <2>2. CASE n = 4
    <3>1. 0 .. 3 = {0, 1, 2, 3}
      OBVIOUS
    <3>2. CASE a[3] # b[3]
      BY <2>2, <3>1, <3>2
    <3>3. CASE a[3] = b[3] /\ a[2] # b[2]
      BY <2>2, <3>1, <3>3
    <3>4. CASE a[3] = b[3] /\ a[2] = b[2] /\ a[1] # b[1]
      BY <2>2, <3>1, <3>4
    <3>5. CASE a[3] = b[3] /\ a[2] = b[2] /\ a[1] = b[1]
      BY <1>4, <2>2, <3>1, <3>5
    <3> QED
      BY <3>2, <3>3, <3>4, <3>5
  <2> QED
    BY <2>1, <2>2
<1>6. PICK i \in 0 .. n - 1 : a[i] # b[i] /\ \A j \in 0 .. n - 1 : j > i => a[j] = b[j]
  BY <1>5
<1>7. a[i] < b[i] \/ b[i] < a[i]
  BY <1>2, <1>6
<1> QED
  BY <1>1, <1>6, <1>7 DEF LessThan

\* operator< (tuple5.h:54-68) is a strict total order whose equivalence is
\* equality: what std::map requires, and why find() and operator[] of the tests'
\* nat_table mean the entry of exactly this 5-tuple.
THEOREM MapOrderIsSound ==
  /\ \A t \in Tuple5s : ~ Precedes(t, t)
  /\ \A s, t, u \in Tuple5s : Precedes(s, t) /\ Precedes(t, u) => Precedes(s, u)
  /\ \A s, t \in Tuple5s : Precedes(s, t) \/ s = t \/ Precedes(t, s)
<1>1. \A t \in Tuple5s : /\ t.src_ip \in Bytes(4) /\ t.dst_ip \in Bytes(4)
                         /\ t.src_port \in Bytes(2) /\ t.dst_port \in Bytes(2)
                         /\ t.protocol \in Int
  BY DEF Tuple5s, Byte
<1>2. \A t \in Tuple5s : ~ Precedes(t, t)
  BY <1>1, LessThanIrreflexive DEF Precedes
<1>3. ASSUME NEW s \in Tuple5s, NEW t \in Tuple5s, NEW u \in Tuple5s, Precedes(s, t), Precedes(t, u)
      PROVE  Precedes(s, u)
  <2>1. \A n \in {2, 4} : \A a, b, c \in Bytes(n) : LessThan(a, b) /\ LessThan(b, c) => LessThan(a, c)
    BY LessThanTransitive
  <2>2. s.protocol < t.protocol /\ t.protocol < u.protocol => s.protocol < u.protocol
    BY <1>1
  <2> QED
    BY <1>1, <1>3, <2>1, <2>2 DEF Precedes
<1>4. ASSUME NEW s \in Tuple5s, NEW t \in Tuple5s, s # t
      PROVE  Precedes(s, t) \/ Precedes(t, s)
  <2>1. \/ s.src_ip # t.src_ip \/ s.dst_ip # t.dst_ip \/ s.src_port # t.src_port
        \/ s.dst_port # t.dst_port \/ s.protocol # t.protocol
    BY <1>4 DEF Tuple5s
  <2>2. s.protocol < t.protocol \/ s.protocol = t.protocol \/ t.protocol < s.protocol
    BY <1>1
  <2>3. \A n \in {2, 4} : \A a, b \in Bytes(n) : LessThan(a, b) \/ a = b \/ LessThan(b, a)
    BY LessThanTotal
  <2> QED
    BY <1>1, <2>1, <2>2, <2>3 DEF Precedes
<1> QED
  BY <1>2, <1>3, <1>4

-----------------------------------------------------------------------------
\* Up to 256 entries (hash_len 8) the packet leaves with the index as its source
\* port, its register when the reply comes is the index again, and different
\* indices are different ports; with more entries two of them are the
\* same port (hash_ip.v:81-83, 94-95, 116; the comment of line 25).
THEOREM AnswersFitOneByte ==
  /\ \A idx \in 0 .. 255 : /\ ntohs(AnswerPort(idx)) = idx
                           /\ LET r == PortRegister(AnswerPort(idx)) IN 256 * r[1] + r[0] = idx
  /\ \A size \in Nat :
        (\A i, j \in 0 .. size - 1 : AnswerPort(i) = AnswerPort(j) => i = j) <=> size <= 256
<1>1. \A idx \in Nat : /\ AnswerPort(idx)[0] = 0 /\ AnswerPort(idx)[1] = idx % 256
                       /\ PortRegister(AnswerPort(idx))[0] = idx % 256
                       /\ PortRegister(AnswerPort(idx))[1] = 0
  BY DEF AnswerPort, PortRegister
<1>2. \A idx \in 0 .. 255 : idx % 256 = idx
  OBVIOUS
<1>3. ASSUME NEW size \in Nat, size <= 256, NEW i \in 0 .. size - 1, NEW j \in 0 .. size - 1,
             AnswerPort(i) = AnswerPort(j)
      PROVE  i = j
  BY <1>1, <1>2, <1>3
<1>4. ASSUME NEW size \in Nat, size > 256
      PROVE  \E i, j \in 0 .. size - 1 : AnswerPort(i) = AnswerPort(j) /\ i # j
  <2>1. AnswerPort(0) = AnswerPort(256)
    BY DEF AnswerPort
  <2> QED
    BY <2>1, <1>4
<1>5. ASSUME NEW idx \in 0 .. 255
      PROVE  /\ ntohs(AnswerPort(idx)) = idx
             /\ LET r == PortRegister(AnswerPort(idx)) IN 256 * r[1] + r[0] = idx
  <2>1. idx \in Nat /\ idx % 256 = idx
    BY <1>2
  <2> QED
    BY <1>1, <2>1 DEF ntohs
<1>6. \A size \in Nat : size > 256 \/ size <= 256
  OBVIOUS
<1>7. \A size \in Nat :
        (\A i, j \in 0 .. size - 1 : AnswerPort(i) = AnswerPort(j) => i = j) <=> size <= 256
  BY <1>3, <1>4, <1>6, Zenon
<1> QED
  BY <1>5, <1>7

\* A port of the inner host comes back in the byte order it had, whatever its
\* bytes (hash_ip.v:82-83, 131-132, 141).
THEOREM PortsAreRestored == \A port \in Bytes(2) : RestoredPort(PortRegister(port)) = port
  BY DEF RestoredPort, PortRegister, Bytes

-----------------------------------------------------------------------------
LEMMA BitsAreNumbers == ASSUME NEW q \in TupleBits, NEW k \in 0 .. 103 PROVE q[k] \in Int
<1>1. q[k] \in Bit
  BY DEF TupleBits
<1> QED
  BY <1>1 DEF Bit

LEMMA LookupIsSum ==
  ASSUME NEW q, NEW idx, NEW hash_len \in 1 .. 8, NEW i \in 0 .. hash_len - 1
  PROVE  LookupBit(ReplyTo(q, idx, hash_len), i)
           = (q[i] + idx[i] + q[16 + i] + q[72 + i] + q[40 + i]) % 2
  BY DEF ReplyTo, LookupBit, Xor5

\* Up to hash_len 8 a reply is looked up from the entry where the insertion of its
\* connection started, so that linear probing finds it (hash_ip.v:100-104
\* against 114): the byte orders of ports differ, the bits that are used do not.
THEOREM ReplyHashIsInsertionHash ==
  ASSUME NEW hash_len \in 1 .. 8, NEW q \in TupleBits, NEW idx \in [0 .. hash_len - 1 -> Bit],
         NEW i \in 0 .. hash_len - 1
  PROVE  LookupBit(ReplyTo(q, idx, hash_len), i) = InsertBit(q, idx, i)
<1>1. /\ i \in 0 .. 103 /\ 16 + i \in 0 .. 103 /\ 72 + i \in 0 .. 103 /\ 40 + i \in 0 .. 103 /\ i < 8
  OBVIOUS
<1>2. /\ q[i] \in Int /\ q[16 + i] \in Int /\ q[72 + i] \in Int /\ q[40 + i] \in Int
  BY <1>1, BitsAreNumbers
<1>3. idx[i] \in Int
  BY DEF Bit
<1>4. InsertBit(q, idx, i) = (q[72 + i] + q[40 + i] + idx[i] + q[16 + i] + q[i]) % 2
  BY <1>1 DEF InsertBit, Xor5, inner_ip, outer_ip, outer_port, protocol
<1>5. LookupBit(ReplyTo(q, idx, hash_len), i)
        = (q[i] + idx[i] + q[16 + i] + q[72 + i] + q[40 + i]) % 2
  BY LookupIsSum
<1> QED
  BY <1>2, <1>3, <1>4, <1>5

\* From hash_len 9 on (the report configures 1024 entries, hash_len 10) it is not:
\* bit 8 of the two hashes differs whenever bit 8 of the index is not the lowest
\* bit of the inner address, which slice 39:32 of the tuple runs into
\* (hash_ip.v:102 with our_ip.v:49; "need special treatment", line 25).
THEOREM LongHashesDiffer ==
  ASSUME NEW hash_len \in 9 .. 16, NEW q \in TupleBits, NEW idx \in [0 .. hash_len - 1 -> Bit],
         idx[8] # q[72]
  PROVE  LookupBit(ReplyTo(q, idx, hash_len), 8) # InsertBit(q, idx, 8)
<1> DEFINE r == ReplyTo(q, idx, hash_len)
<1>1. /\ q[8] \in Bit /\ idx[8] \in Bit /\ q[72] \in Bit /\ q[80] \in Bit
      /\ q[48] \in Bit
  <2>1. \A k \in 0 .. 103 : q[k] \in Bit
    BY DEF TupleBits
  <2>2. 8 \in 0 .. hash_len - 1
    OBVIOUS
  <2> QED
    BY <2>1, <2>2
<1>2. r[8] = 0 /\ r[24] = q[8] /\ r[40] = q[72] /\ r[48] = q[80] /\ r[80] = q[48]
  BY DEF ReplyTo
<1>3. /\ inner_ip(q, 8) = q[80] /\ outer_ip(q, 8) = q[48]
      /\ outer_port(q, 8) = q[8] /\ protocol(q, 8) = 0
  BY DEF inner_ip, outer_ip, outer_port, protocol
<1> HIDE DEF r
<1>4. /\ LookupBit(r, 8) = (0 + q[8] + q[72] + q[80] + q[48]) % 2
      /\ InsertBit(q, idx, 8) = (q[80] + q[48] + idx[8] + q[8] + 0) % 2
  BY <1>2, <1>3 DEF LookupBit, InsertBit, Xor5
<1>5. LookupBit(r, 8) # InsertBit(q, idx, 8)
  BY <1>1, <1>4 DEF Bit
<1> QED
  BY <1>5 DEF r
=============================================================================
