------------------------- MODULE PacketCheckProofs -------------------------
(***************************************************************************)
(* What a passed system test says about the NAT, for every list of packets *)
(* and every list of answers.                                              *)
(***************************************************************************)
EXTENDS PacketCheck, FiniteSetTheorems, FunctionTheorems, WellFoundedInduction, TLAPS

LEMMA FirstExists ==
  ASSUME NEW packets, NEW i \in Nat \ {0}, ~ IsArp(packets[i])
  PROVE  \E f \in 1 .. i : IsFirst(packets, f, i)
<1> DEFINE T == {j \in 1 .. i : ~ IsArp(packets[j]) /\ Tuple5Of(packets[j]) = Tuple5Of(packets[i])}
<1>1. T \subseteq Nat /\ T # {}
  <2>1. i \in T
    OBVIOUS
  <2> QED
    BY <2>1
<1>2. PICK f \in T : \A j \in T : ~ (<<j, f>> \in OpToRel(<, Nat))
  BY <1>1, WFMin, NatLessThanWellFounded
<1>3. \A j \in T : ~ (j < f)
  BY <1>1, <1>2 DEF OpToRel
<1>4. Tuple5Of(packets[f]) \notin Known(packets, f)
  BY <1>3 DEF Known, Earlier
<1> QED
  BY <1>2, <1>4 DEF IsFirst

LEMMA KnownIsFinite ==
  ASSUME NEW packets, NEW i \in Nat
  PROVE  IsFiniteSet(Known(packets, i)) /\ Cardinality(Known(packets, i)) \in Nat
<1>1. IsFiniteSet(1 .. i - 1)
  BY FS_Interval
<1>2. IsFiniteSet(Earlier(packets, i))
  BY <1>1, FS_Subset DEF Earlier
<1> DEFINE tuple == [j \in Earlier(packets, i) |-> Tuple5Of(packets[j])]
<1>3. tuple \in Surjection(Earlier(packets, i), Known(packets, i))
  BY DEF Known, Surjection
<1>4. IsFiniteSet(Known(packets, i))
  BY <1>2, <1>3, FS_Surjection
<1> QED
  BY <1>4, FS_CardinalityType

\* The table of the loop only grows, and by every connection it comes to.
LEMMA KnownGrows ==
  ASSUME NEW packets, NEW f \in Nat, NEW g \in Nat, f < g, ~ IsArp(packets[f]), f > 0,
         Tuple5Of(packets[f]) \notin Known(packets, f)
  PROVE  Cardinality(Known(packets, f)) < Cardinality(Known(packets, g))
<1>1. Known(packets, f) \subseteq Known(packets, g)
  BY DEF Known, Earlier
<1>2. Tuple5Of(packets[f]) \in Known(packets, g)
  BY DEF Known, Earlier
<1>3. /\ IsFiniteSet(Known(packets, g))
      /\ Cardinality(Known(packets, f)) \in Nat /\ Cardinality(Known(packets, g)) \in Nat
  BY KnownIsFinite
<1>4. /\ Cardinality(Known(packets, f)) <= Cardinality(Known(packets, g))
      /\ Cardinality(Known(packets, g)) = Cardinality(Known(packets, f))
            => Known(packets, g) = Known(packets, f)
  BY <1>1, <1>3, FS_Subset
<1>5. Cardinality(Known(packets, g)) # Cardinality(Known(packets, f))
  BY <1>2, <1>4
<1> QED
  BY <1>3, <1>4, <1>5

\* The answer to a packet carries the number of connections before its own.
LEMMA PortOfFirst ==
  ASSUME NEW packets, NEW recv_packets, NEW n \in Nat,
         \A k \in 1 .. n : IsArp(packets[k]) \/ Mapped(packets, recv_packets, k),
         NEW i \in 1 .. n, ~ IsArp(packets[i]),
         NEW f \in 1 .. i, IsFirst(packets, f, i)
  PROVE  PortOf(Tuple5Of(recv_packets[i])) = Cardinality(Known(packets, f))
<1>1. PortOf(Tuple5Of(recv_packets[f])) = Cardinality(Known(packets, f))
  BY DEF Mapped, IsFirst
<1>2. CASE f = i
  BY <1>1, <1>2
<1>3. CASE f # i
  <2>1. f \in Earlier(packets, i)
    BY <1>3 DEF Earlier, IsFirst
  <2>2. Tuple5Of(packets[f]) = Tuple5Of(packets[i])
    BY DEF IsFirst
  <2>3. Tuple5Of(packets[i]) \in Known(packets, i)
    BY <2>1, <2>2 DEF Known
  <2>4. Tuple5Of(recv_packets[f]) = Tuple5Of(recv_packets[i])
    BY <2>1, <2>2, <2>3 DEF Mapped
  <2> QED
    BY <1>1, <2>4
<1> QED
  BY <1>2, <1>3

\* A connection has one first packet.
LEMMA FirstIsUnique ==
  ASSUME NEW packets, NEW i \in Nat, NEW j \in Nat,
         Tuple5Of(packets[i]) = Tuple5Of(packets[j]),
         NEW f \in 1 .. i, IsFirst(packets, f, i), NEW g \in 1 .. j, IsFirst(packets, g, j)
  PROVE  f = g
<1>1. ~ (f < g) /\ ~ (g < f)
  BY DEF IsFirst, Known, Earlier
<1> QED
  BY <1>1

LEMMA WantedOfFirst ==
  ASSUME NEW packets, NEW i \in Nat, NEW f \in 1 .. i, IsFirst(packets, f, i)
  PROVE  PortWanted(packets, i) = Cardinality(Known(packets, f))
<1> DEFINE c == CHOOSE e \in 1 .. i : IsFirst(packets, e, i)
<1>1. c \in 1 .. i /\ IsFirst(packets, c, i)
  OBVIOUS
<1> HIDE DEF c
<1>2. c = f
  BY <1>1, FirstIsUnique
<1> QED
  BY <1>2 DEF PortWanted, c

\* What the loop over the packets comes to when no more than the source port of a
\* 5-tuple is changed: it compares ports with a counter only where a connection
\* begins, yet it accepts exactly if every port is the one wanted.
LEMMA MappedByPorts ==
  ASSUME NEW packets, NEW recv_packets, NEW n \in Nat,
         \A i, j \in 1 .. n :
            /\ ~ IsArp(packets[i]) /\ ~ IsArp(packets[j])
            /\ Tuple5Of(packets[i]) = Tuple5Of(packets[j])
            /\ PortOf(Tuple5Of(recv_packets[i])) = PortOf(Tuple5Of(recv_packets[j]))
            => Tuple5Of(recv_packets[i]) = Tuple5Of(recv_packets[j])
  PROVE  (\A i \in 1 .. n : IsArp(packets[i]) \/ Mapped(packets, recv_packets, i))
         <=> \A i \in 1 .. n :
                \/ IsArp(packets[i])
                \/ PortOf(Tuple5Of(recv_packets[i])) = PortWanted(packets, i)
<1>1. ASSUME \A k \in 1 .. n : IsArp(packets[k]) \/ Mapped(packets, recv_packets, k),
             NEW i \in 1 .. n, ~ IsArp(packets[i])
      PROVE  PortOf(Tuple5Of(recv_packets[i])) = PortWanted(packets, i)
  <2>1. PICK f \in 1 .. i : IsFirst(packets, f, i)
    BY <1>1, FirstExists
  <2> QED
    BY <1>1, <2>1, PortOfFirst, WantedOfFirst
<1>2. ASSUME \A k \in 1 .. n :
                \/ IsArp(packets[k])
                \/ PortOf(Tuple5Of(recv_packets[k])) = PortWanted(packets, k),
             NEW i \in 1 .. n, ~ IsArp(packets[i])
      PROVE  Mapped(packets, recv_packets, i)
  <2>1. PICK f \in 1 .. i : IsFirst(packets, f, i)
    BY <1>2, FirstExists
  <2>2. CASE Tuple5Of(packets[i]) \notin Known(packets, i)
    <3>1. IsFirst(packets, i, i)
      BY <1>2, <2>2 DEF IsFirst
    <3>2. PortWanted(packets, i) = Cardinality(Known(packets, i))
      BY <3>1, WantedOfFirst
    <3> QED
      BY <1>2, <2>2, <3>2 DEF Mapped
  <2>3. CASE Tuple5Of(packets[i]) \in Known(packets, i)
    <3>1. ASSUME NEW j \in Earlier(packets, i), Tuple5Of(packets[j]) = Tuple5Of(packets[i])
          PROVE  Tuple5Of(recv_packets[j]) = Tuple5Of(recv_packets[i])
      <4>1. j \in 1 .. n /\ ~ IsArp(packets[j])
        BY DEF Earlier
      <4>2. PICK g \in 1 .. j : IsFirst(packets, g, j)
        BY <4>1, FirstExists
      <4>3. f = g
        BY <2>1, <3>1, <4>1, <4>2, FirstIsUnique
      <4>4. PortWanted(packets, i) = PortWanted(packets, j)
        BY <2>1, <4>1, <4>2, <4>3, WantedOfFirst
      <4> QED
        BY <1>2, <3>1, <4>1, <4>4
    <3> QED
      BY <2>3, <3>1 DEF Mapped
  <2> QED
    BY <2>2, <2>3
<1> QED
  BY <1>1, <1>2

\* Lists that check_nat_funtionality (src/3ip_testbench.cpp:390-521) accepts: packets
\* of one connection leave with one port, packets of different connections with
\* different ports, although the loop compares new ports with a counter only and
\* never with the ports of other connections.
THEOREM AcceptedIsOneToOne ==
  ASSUME NEW packets, NEW recv_packets, NEW n \in Nat, DOMAIN packets = 1 .. n,
         check_nat_funtionality(packets, recv_packets),
         NEW i \in 1 .. n, NEW j \in 1 .. n, ~ IsArp(packets[i]), ~ IsArp(packets[j])
  PROVE  Tuple5Of(packets[i]) = Tuple5Of(packets[j]) <=>
            PortOf(Tuple5Of(recv_packets[i])) = PortOf(Tuple5Of(recv_packets[j]))
<1>1. \A k \in 1 .. n : IsArp(packets[k]) \/ Mapped(packets, recv_packets, k)
  BY DEF check_nat_funtionality, Forwarded
<1>2. PICK f \in 1 .. i : IsFirst(packets, f, i)
  BY FirstExists
<1>3. PICK g \in 1 .. j : IsFirst(packets, g, j)
  BY FirstExists
<1>4. PortOf(Tuple5Of(recv_packets[i])) = Cardinality(Known(packets, f))
  BY <1>1, <1>2, PortOfFirst
<1>5. PortOf(Tuple5Of(recv_packets[j])) = Cardinality(Known(packets, g))
  BY <1>1, <1>3, PortOfFirst
<1>6. f \in Nat /\ g \in Nat /\ f > 0 /\ g > 0
  OBVIOUS
<1>7. /\ Cardinality(Known(packets, f)) \in Nat
      /\ Cardinality(Known(packets, g)) \in Nat
  BY <1>6, KnownIsFinite
<1>8. CASE f < g
  <2>1. Tuple5Of(packets[f]) \in Known(packets, g)
    BY <1>2, <1>6, <1>8 DEF Known, Earlier, IsFirst
  <2>2. Tuple5Of(packets[i]) # Tuple5Of(packets[j])
    BY <1>2, <1>3, <2>1 DEF IsFirst
  <2>3. Cardinality(Known(packets, f)) < Cardinality(Known(packets, g))
    BY <1>2, <1>6, <1>8, KnownGrows DEF IsFirst
  <2> QED
    BY <1>4, <1>5, <1>7, <2>2, <2>3
<1>9. CASE g < f
  <2>1. Tuple5Of(packets[g]) \in Known(packets, f)
    BY <1>3, <1>6, <1>9 DEF Known, Earlier, IsFirst
  <2>2. Tuple5Of(packets[i]) # Tuple5Of(packets[j])
    BY <1>2, <1>3, <2>1 DEF IsFirst
  <2>3. Cardinality(Known(packets, g)) < Cardinality(Known(packets, f))
    BY <1>3, <1>6, <1>9, KnownGrows DEF IsFirst
  <2> QED
    BY <1>4, <1>5, <1>7, <2>2, <2>3
<1>10. CASE f = g
  BY <1>2, <1>3, <1>4, <1>5, <1>10 DEF IsFirst
<1> QED
  BY <1>6, <1>8, <1>9, <1>10
=============================================================================
