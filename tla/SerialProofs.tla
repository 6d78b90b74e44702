---------------------------- MODULE SerialProofs ----------------------------
(***************************************************************************)
(* Proofs about the serial NAT in its bench, for every size of the table,  *)
(* every hash function, every array of tuples and every pause.             *)
(***************************************************************************)
EXTENDS SerialBench, FiniteSetTheorems, SequenceTheorems, TLAPS

USE IdSpaceAssumption DEF Entries, Positions

LEMMA ZeroType == Zero \in Tuple5
  BY FieldsAssumption

LEMMA HashType == \A t \in Tuple5 : SerialHash[t] \in 0 .. IdSpace - 1
  BY SerialHashAssumption

LEMMA PositionType == \A p \in Positions : NextPosition(p) \in Positions
  BY DEF NextPosition

-----------------------------------------------------------------------------
\* The order in which a search that starts at h visits the entries.
LEMMA PassedNone == \A h \in 0 .. IdSpace - 1 : EntriesPassed(h, h) = {}
  BY DEF EntriesPassed

LEMMA PassedNext ==
  \A h \in 0 .. IdSpace - 1, p \in Positions :
      EntriesPassed(h, NextPosition(p)) \subseteq EntriesPassed(h, p) \cup ({p} \cap Entries)
  BY DEF EntriesPassed, NextPosition

LEMMA PassedSplit ==
  \A h \in 0 .. IdSpace - 1, d, e \in Entries :
      d # e => d \in EntriesPassed(h, e) \/ e \in EntriesPassed(h, d)
  BY DEF EntriesPassed

-----------------------------------------------------------------------------
\* What a search that ends leaves in the table.  The table is changed in one entry
\* at most, an entry that was empty, and only if no other holds the tuple.
LEMMA FoundTable ==
  ASSUME SerialInv, Found
  PROVE  /\ loc_to_probe \in Entries
         /\ tuple_buffer \in Tuple5 \ {Zero}
         /\ conn_mem' \in [Entries -> Tuple5]
         /\ conn_mem'[loc_to_probe] = tuple_buffer
         /\ \A e \in Entries : e # loc_to_probe => conn_mem'[e] = conn_mem[e]
         /\ Bound' = Bound \cup {loc_to_probe}
         /\ \/ conn_mem[loc_to_probe] = tuple_buffer
            \/ conn_mem[loc_to_probe] = Zero /\ \A e \in Bound : conn_mem[e] # tuple_buffer
<1> DEFINE l == loc_to_probe
           h == SerialHash[tuple_buffer]
<1>1. /\ l \in Entries
      /\ conn_mem[l] \in {tuple_buffer, Zero}
      /\ conn_mem \in [Entries -> Tuple5] /\ tuple_buffer \in Tuple5
      /\ conn_mem' = [conn_mem EXCEPT ![l] = tuple_buffer]
  BY DEF Found, Matches, SerialInv, RegistersOK
<1>2. tuple_buffer # Zero
  <2>1. tuple_index \in 2 .. Len(tuples) + 1 /\ tuple_buffer = tuples[tuple_index - 1]
    BY DEF Found, SerialInv, InHand, RegistersOK, NumTuples
  <2>2. tuples[tuple_index - 1] \in Tuple5 \ {Zero}
    BY <2>1, ElementOfSeq DEF SerialInv
  <2> QED
    BY <2>1, <2>2
<1>3. Bound' = Bound \cup {l}
  BY <1>1, <1>2 DEF Bound
<1>4. ASSUME conn_mem[l] = Zero, NEW e \in Bound, conn_mem[e] = tuple_buffer
      PROVE  FALSE
  <2>1. e \in Entries /\ e # l /\ h \in 0 .. IdSpace - 1 /\ l \notin Bound
    BY <1>1, <1>2, <1>4, HashType DEF Bound
  <2>2. CASE e \in EntriesPassed(h, l)
    BY <1>4, <2>2 DEF SerialInv, Frontier, Found
  <2>3. CASE l \in EntriesPassed(h, e)
    BY <1>4, <2>1, <2>3 DEF SerialInv, NoHoles
  <2> QED
    BY <1>1, <2>1, <2>2, <2>3, PassedSplit
<1> QED
  BY <1>1, <1>2, <1>3, <1>4

-----------------------------------------------------------------------------
LEMMA SerialInvInit == ASSUME BenchInit PROVE SerialInv
<1>1. tuples \in Seq(Tuple5 \ {Zero}) /\ Len(tuples) \in Nat
  BY ArraysAssumption, LenProperties DEF BenchInit
<1>2. Bound = {}
  BY DEF BenchInit, SerialInit, Bound
<1>3. RegistersOK /\ OutputOK
  BY <1>1, ZeroType DEF BenchInit, SerialInit, RegistersOK, OutputOK, NumTuples
<1> QED
  BY <1>1, <1>2, <1>3, EmptySeq DEF BenchInit, SerialInit, SerialInv, Distinct, NoHoles,
     Frontier, InHand, ResultsInOrder

\* The output is valid exactly while a result waits.
LEMMA OutputStep ==
  ASSUME NEW valid, NEW word, NEW ready, state \in 0 .. 5, OutputOK, Edge(valid, word, ready)
  PROVE  OutputOK'
<1>1. CASE Collect(valid, word)
  <2>1. state \in 0 .. 3 /\ (state' = state + 1 \/ state' = state)
    BY <1>1 DEF Collect, TakeWord, tuple_ready_o
  <2>2. conn_valid_o' = FALSE
    BY <1>1 DEF Collect
  <2>3. state' # 5
    BY <2>1
  <2> QED
    BY <2>2, <2>3, Zenon DEF OutputOK
<1>2. CASE Found
  BY <1>2, Zenon DEF Found, OutputOK
<1>3. CASE ProbeOn
  <2>1. state' # 5 /\ conn_valid_o' = FALSE
    BY <1>3 DEF ProbeOn
  <2> QED
    BY <2>1, Zenon DEF OutputOK
<1>4. CASE Deliver(ready)
  <2>1. state' # 5 /\ conn_valid_o' = FALSE
    BY <1>4 DEF Deliver
  <2> QED
    BY <2>1, Zenon DEF OutputOK
<1>5. CASE AwaitReady(ready)
  BY <1>5 DEF AwaitReady, OutputOK, natVars
<1> QED
  BY <1>1, <1>2, <1>3, <1>4, <1>5 DEF Edge

\* The receiver takes a result exactly when the NAT delivers it.
LEMMA ReceiveStep ==
  ASSUME NEW ready \in BOOLEAN, OutputOK, recv_result(ready)
  PROVE  /\ state # 5 \/ ~ready => conn_buffer' = conn_buffer
         /\ state = 5 /\ ready => conn_buffer' = Append(conn_buffer, conn_data_o)
<1>1. CASE state = 5 /\ ready
  <2>1. conn_valid_o /\ ready
    BY <1>1, Zenon DEF OutputOK
  <2> QED
    BY <1>1, <2>1, Zenon DEF recv_result
<1>2. CASE state # 5 \/ ~ready
  <2>1. ~(conn_valid_o /\ ready)
    BY <1>2, Zenon DEF OutputOK
  <2> QED
    BY <1>2, <2>1, Zenon DEF recv_result
<1> QED
  BY <1>1, <1>2, Zenon

\* An edge of the bench is one of the five actions of the NAT.
LEMMA SerialInvStep == ASSUME SerialInv, [BenchNext]_benchVars PROVE SerialInv'
<1> USE DEF SerialInv
<1>0. /\ Len(tuples) \in Nat /\ Len(conn_buffer) \in Nat
      /\ DOMAIN conn_buffer = 1 .. Len(conn_buffer)
  BY LenProperties
<1>1. CASE UNCHANGED benchVars
  BY <1>1 DEF benchVars, natVars, RegistersOK, OutputOK, Distinct, NoHoles, Frontier, InHand,
     ResultsInOrder, Bound, NumTuples
<1>2. ASSUME NEW valid \in BOOLEAN, NEW ready \in BOOLEAN, BenchEdge(valid, ready)
      PROVE  SerialInv'
  <2> USE DEF RegistersOK, NumTuples
  <2>0. UNCHANGED tuples /\ OutputOK'
    <3>1. UNCHANGED tuples /\ Edge(valid, IF valid THEN Offered ELSE None, ready)
      BY <1>2 DEF BenchEdge
    <3> QED
      BY <3>1, OutputStep
  <2>a. /\ valid => tuple_index <= NumTuples
        /\ send_tuple(valid)
        /\ state # 5 \/ ~ready => conn_buffer' = conn_buffer
        /\ state = 5 /\ ready => conn_buffer' = Append(conn_buffer, conn_data_o)
    <3>1. recv_result(ready) /\ send_tuple(valid) /\ (valid => tuple_index <= NumTuples)
      BY <1>2 DEF BenchEdge
    <3> QED
      BY <3>1, ReceiveStep, Zenon
  <2>1. CASE Collect(valid, IF valid THEN Offered ELSE None) /\ ~valid
    <3>1. /\ UNCHANGED <<state, tuple_buffer, loc_to_probe, conn_mem, send_state, tuple_index>>
          /\ conn_buffer' = conn_buffer
          /\ conn_data_o' = 0 /\ state < 4
      BY <2>a, <2>1 DEF Collect, send_tuple, tuple_ready_o
    <3>2. RegistersOK'
      BY <2>0, <3>1
    <3>3. Frontier' /\ InHand'
      BY <2>0, <3>1 DEF Frontier, InHand
    <3>4. ResultsInOrder'
      BY <2>0, <3>1 DEF ResultsInOrder
    <3> QED
      BY <2>0, <3>1, <3>2, <3>3, <3>4 DEF Distinct, NoHoles, Bound
  <2>2. CASE Collect(valid, IF valid THEN Offered ELSE None) /\ valid
    <3>1. /\ state \in 0 .. 3 /\ TakeWord(Offered)
          /\ tuple_index \in 1 .. Len(tuples)
          /\ UNCHANGED conn_mem
          /\ conn_data_o' = 0
          /\ conn_buffer' = conn_buffer
          /\ send_state' = (send_state + 1) % 4 /\ send_state = state
          /\ tuple_index' = IF send_state = 3 THEN tuple_index + 1 ELSE tuple_index
      BY <1>0, <2>a, <2>2 DEF Collect, send_tuple, tuple_ready_o
    <3> DEFINE t == tuples[tuple_index]
    <3>2. t \in Tuple5 \ {Zero}
      BY <3>1, ElementOfSeq
    <3>3. /\ state' = state + 1
          /\ send_state' = IF state = 3 THEN 0 ELSE state + 1
      BY <3>1 DEF TakeWord
    <3>4. tuple_buffer' \in Tuple5 /\ InHand'
      <4>1. CASE state = 0
        <5>1. tuple_buffer' = [tuple_buffer EXCEPT !.srcip = t.srcip]
          BY <3>1, <4>1 DEF TakeWord, Offered
        <5>2. tuple_buffer' \in Tuple5 /\ tuple_buffer'.srcip = t.srcip
          BY <3>2, <5>1 DEF Tuple5
        <5> QED
          BY <2>0, <3>1, <3>3, <4>1, <5>2 DEF InHand
      <4>2. CASE state = 1
        <5>1. tuple_buffer' = [tuple_buffer EXCEPT !.dstip = t.dstip]
          BY <3>1, <4>2 DEF TakeWord, Offered
        <5>2. tuple_buffer' \in Tuple5 /\ tuple_buffer'.dstip = t.dstip
          BY <3>2, <5>1 DEF Tuple5
        <5>3. tuple_buffer'.srcip = t.srcip
          BY <4>2, <5>1 DEF InHand, Tuple5
        <5> QED
          BY <2>0, <3>1, <3>3, <4>2, <5>2, <5>3 DEF InHand
      <4>3. CASE state = 2
        <5>1. tuple_buffer' = [tuple_buffer EXCEPT !.srcport = t.srcport, !.dstport = t.dstport]
          BY <3>1, <4>3 DEF TakeWord, Offered
        <5>2. /\ tuple_buffer' \in Tuple5
              /\ tuple_buffer'.srcport = t.srcport /\ tuple_buffer'.dstport = t.dstport
          BY <3>2, <5>1 DEF Tuple5
        <5>3. tuple_buffer'.srcip = t.srcip /\ tuple_buffer'.dstip = t.dstip
          BY <4>3, <5>1 DEF InHand, Tuple5
        <5> QED
          BY <2>0, <3>1, <3>3, <4>3, <5>2, <5>3 DEF InHand
      <4>4. CASE state = 3
        <5>1. tuple_buffer' = [tuple_buffer EXCEPT !.protocol = t.protocol]
          BY <3>1, <4>4 DEF TakeWord, Offered
        <5>2. /\ tuple_buffer.srcip = t.srcip /\ tuple_buffer.dstip = t.dstip
              /\ tuple_buffer.srcport = t.srcport /\ tuple_buffer.dstport = t.dstport
          BY <4>4 DEF InHand
        <5>3. tuple_buffer' = t
          BY <3>2, <5>1, <5>2 DEF Tuple5
        <5> QED
          BY <2>0, <3>1, <3>2, <3>3, <4>4, <5>3 DEF InHand
      <4> QED
        BY <3>1, <4>1, <4>2, <4>3, <4>4
    <3>5. loc_to_probe' \in Positions /\ Frontier'
      <4>1. CASE state = 3
        <5>1. tuple_buffer' = [tuple_buffer EXCEPT !.protocol = t.protocol]
              /\ loc_to_probe' = SerialHash[tuple_buffer']
          BY <3>1, <4>1 DEF TakeWord, Offered, hash_value
        <5>2. loc_to_probe' \in 0 .. IdSpace - 1
          BY <3>4, <5>1, HashType
        <5>3. EntriesPassed(SerialHash[tuple_buffer'], loc_to_probe') = {}
          BY <5>1, <5>2, PassedNone
        <5>4. loc_to_probe' \in Positions
          BY <5>2
        <5>5. Frontier'
          BY <5>3 DEF Frontier
        <5> QED
          BY <5>4, <5>5
      <4>2. CASE state # 3
        BY <3>1, <3>3, <4>2 DEF TakeWord, Frontier
      <4> QED
        BY <4>1, <4>2
    <3>6. RegistersOK'
      BY <2>0, <3>1, <3>3, <3>4, <3>5
    <3>7. ResultsInOrder'
      BY <1>0, <2>0, <3>1, <3>3 DEF ResultsInOrder
    <3> QED
      BY <2>0, <3>1, <3>4, <3>5, <3>6, <3>7 DEF Distinct, NoHoles, Bound
  <2>3. CASE Found
    <3> DEFINE l == loc_to_probe
    <3>1. /\ state = 4 /\ state' = 5
          /\ UNCHANGED <<tuple_buffer, loc_to_probe, send_state, tuple_index>>
          /\ conn_data_o' = l
          /\ conn_buffer' = conn_buffer
      BY <2>a, <2>3 DEF Found, send_tuple, tuple_ready_o
    <3>2. /\ l \in Entries /\ tuple_buffer \in Tuple5 \ {Zero}
          /\ conn_mem' \in [Entries -> Tuple5] /\ conn_mem'[l] = tuple_buffer
          /\ \A e \in Entries : e # l => conn_mem'[e] = conn_mem[e]
          /\ Bound' = Bound \cup {l}
          /\ \/ conn_mem[l] = tuple_buffer
             \/ conn_mem[l] = Zero /\ \A e \in Bound : conn_mem[e] # tuple_buffer
      BY <2>3, FoundTable
    <3>3. Bound \subseteq Entries /\ \A e \in Bound : conn_mem'[e] = conn_mem[e]
      BY <3>2 DEF Bound
    <3>4. Distinct'
      <4>1. CASE conn_mem[l] = tuple_buffer
        BY <3>2, <3>3, <4>1 DEF Distinct, Bound
      <4>2. CASE conn_mem[l] = Zero /\ \A e \in Bound : conn_mem[e] # tuple_buffer
        BY <3>2, <3>3, <4>2 DEF Distinct
      <4> QED
        BY <3>2, <4>1, <4>2
    <3>5. EntriesPassed(SerialHash[tuple_buffer], l) \subseteq Bound
      BY <3>1 DEF Frontier, Bound, EntriesPassed
    <3>6. NoHoles'
      BY <3>2, <3>3, <3>5 DEF NoHoles
    <3>7. ResultsInOrder'
      <4>0. \A i \in 1 .. Len(conn_buffer) : i \in 1 .. Len(tuples)
        BY <1>0, <3>1 DEF ResultsInOrder
      <4>1. \A i \in 1 .. Len(conn_buffer) : tuples[i] # Zero /\ conn_buffer[i] \in Entries
        BY <4>0, ElementOfSeq
      <4>2. \A i \in 1 .. Len(conn_buffer) : conn_buffer[i] \in Bound
        BY <1>0, <4>1 DEF ResultsInOrder, Bound
      <4> QED
        BY <1>0, <2>0, <3>1, <3>3, <4>2 DEF ResultsInOrder
    <3>8. RegistersOK'
      BY <2>0, <3>1, <3>2
    <3>9. Frontier' /\ InHand'
      BY <2>0, <3>1, <3>2 DEF Frontier, InHand
    <3> QED
      BY <2>0, <3>1, <3>4, <3>6, <3>7, <3>8, <3>9
  <2>4. CASE ProbeOn
    <3>1. /\ state = 4 /\ ~Matches(loc_to_probe)
          /\ loc_to_probe' = NextPosition(loc_to_probe)
          /\ UNCHANGED <<state, tuple_buffer, conn_mem, conn_data_o, send_state, tuple_index>>
          /\ conn_buffer' = conn_buffer
      BY <2>a, <2>4 DEF ProbeOn, send_tuple, tuple_ready_o
    <3>2. Frontier'
      BY <3>1, HashType, PassedNext DEF Frontier, Matches
    <3>3. RegistersOK'
      BY <2>0, <3>1, PositionType
    <3>4. InHand'
      BY <2>0, <3>1 DEF InHand
    <3>5. ResultsInOrder'
      BY <2>0, <3>1 DEF ResultsInOrder
    <3> QED
      BY <2>0, <3>1, <3>2, <3>3, <3>4, <3>5 DEF Distinct, NoHoles, Bound
  <2>5. CASE Deliver(ready)
    <3>1. /\ state = 5 /\ state' = 0 /\ ready
          /\ conn_data_o' = 0
          /\ UNCHANGED <<tuple_buffer, conn_mem, loc_to_probe, send_state, tuple_index>>
          /\ conn_buffer' = Append(conn_buffer, conn_data_o)
      BY <2>a, <2>5 DEF Deliver, send_tuple, tuple_ready_o
    <3>2. /\ conn_buffer' \in Seq(Entries)
          /\ Len(conn_buffer') = Len(conn_buffer) + 1
          /\ conn_buffer'[Len(conn_buffer) + 1] = conn_data_o
          /\ \A i \in 1 .. Len(conn_buffer) : conn_buffer'[i] = conn_buffer[i]
          /\ DOMAIN conn_buffer' = 1 .. Len(conn_buffer) + 1
      BY <3>1, AppendProperties, LenProperties
    <3>3. Len(conn_buffer) + 1 = tuple_index - 1 /\ conn_mem[conn_data_o] = tuples[tuple_index - 1]
      BY <3>1 DEF ResultsInOrder, InHand
    <3>4. ResultsInOrder'
      BY <1>0, <2>0, <3>1, <3>2, <3>3 DEF ResultsInOrder
    <3>5. RegistersOK'
      BY <2>0, <3>1
    <3>6. Frontier' /\ InHand'
      BY <2>0, <3>1 DEF Frontier, InHand
    <3> QED
      BY <2>0, <3>1, <3>2, <3>4, <3>5, <3>6 DEF Distinct, NoHoles, Bound
  <2>6. CASE AwaitReady(ready)
    <3>1. UNCHANGED <<natVars, send_state, tuple_index, conn_buffer>>
      BY <2>a, <2>6 DEF AwaitReady, natVars, send_tuple, tuple_ready_o
    <3>2. RegistersOK' /\ Frontier' /\ InHand'
      BY <2>0, <3>1 DEF natVars, Frontier, InHand
    <3>3. ResultsInOrder'
      BY <2>0, <3>1 DEF natVars, ResultsInOrder
    <3> QED
      BY <2>0, <3>1, <3>2, <3>3 DEF natVars, Distinct, NoHoles, Bound
  <2> QED
    BY <1>2, <2>1, <2>2, <2>3, <2>4, <2>5, <2>6 DEF BenchEdge, Edge
<1> QED
  BY <1>1, <1>2 DEF BenchNext

\* The invariant holds in every state.
THEOREM SerialInductive == BenchSpec => []SerialInv
  BY SerialInvInit, SerialInvStep, PTL DEF BenchSpec

\* Every register stays in its range, and bench and NAT agree on the word in hand.
THEOREM BenchTypeCorrect == BenchSpec => []BenchTypeOK
<1>1. SerialInv => BenchTypeOK
  BY DEF SerialInv, BenchTypeOK
<1> QED
  BY <1>1, SerialInductive, PTL

\* One result per tuple, in order, each the entry that holds the tuple.
THEOREM ResultsAreInOrder == BenchSpec => []ResultsInOrder
<1>1. SerialInv => ResultsInOrder
  BY DEF SerialInv
<1> QED
  BY <1>1, SerialInductive, PTL

\* What verify_results of the bench checks: equal IDs exactly for equal tuples.
THEOREM ResultsAreIdentities == BenchSpec => []ResultsIdentifyTuples
<1>1. ASSUME SerialInv PROVE ResultsIdentifyTuples
  <2>1. /\ DOMAIN conn_buffer = 1 .. Len(conn_buffer) /\ Len(conn_buffer) \in Nat
        /\ Len(tuples) \in Nat
    BY <1>1, LenProperties DEF SerialInv
  <2>2. \A i \in 1 .. Len(conn_buffer) : conn_buffer[i] \in Entries
    BY <1>1, ElementOfSeq DEF SerialInv
  <2>3. \A i \in 1 .. Len(conn_buffer) : i \in 1 .. Len(tuples)
    BY <1>1, <2>1 DEF SerialInv, ResultsInOrder, RegistersOK, NumTuples
  <2>4. \A i \in 1 .. Len(conn_buffer) : tuples[i] # Zero
    BY <1>1, <2>3, ElementOfSeq DEF SerialInv
  <2>5. \A i \in 1 .. Len(conn_buffer) :
            conn_buffer[i] \in Bound /\ conn_mem[conn_buffer[i]] = tuples[i]
    BY <1>1, <2>1, <2>2, <2>4 DEF SerialInv, ResultsInOrder, Bound
  <2> QED
    BY <1>1, <2>1, <2>5 DEF ResultsIdentifyTuples, SerialInv, Distinct
<1> QED
  BY <1>1, SerialInductive, PTL

-----------------------------------------------------------------------------
(***************************************************************************)
(* The length of a search.  It stands where so many steps from the hash    *)
(* lead, and the table, which holds tuples of the bench only, has room.    *)
(***************************************************************************)
Wrapped(n) == IF n < 2 * IdSpace THEN n ELSE n - 2 * IdSpace

ProbesInv ==
    /\ Len(tuples) <= IdSpace
    /\ \A e \in Bound : \E j \in 1 .. Len(tuples) : conn_mem[e] = tuples[j]
    /\ probes \in 0 .. 2 * IdSpace
    /\ state = 4 => /\ probes < 2 * IdSpace
                    /\ loc_to_probe = Wrapped(SerialHash[tuple_buffer] + probes)

\* Entries outnumber the tuples, so that they are not all taken.
LEMMA TableHasRoom == ASSUME SerialInv, ProbesInv PROVE ~ (Entries \subseteq Bound)
<1> SUFFICES ASSUME Entries \subseteq Bound PROVE FALSE
  OBVIOUS
<1> DEFINE n == Len(tuples)
           place == [e \in Entries |-> CHOOSE j \in 1 .. n : conn_mem[e] = tuples[j]]
<1>1. n \in Nat /\ n <= IdSpace
  BY LenProperties DEF SerialInv, ProbesInv
<1> HIDE DEF n
<1>2. \A e \in Entries : \E j \in 1 .. n : conn_mem[e] = tuples[j]
  BY DEF ProbesInv, n
<1>3. place \in [Entries -> 1 .. n] /\ \A e \in Entries : conn_mem[e] = tuples[place[e]]
  BY <1>2
<1>4. IsFiniteSet(Entries) /\ Cardinality(Entries) = IdSpace + 1
  <2>1. 0 \in Int /\ IdSpace \in Int /\ ~ (0 > IdSpace) /\ IdSpace - 0 + 1 = IdSpace + 1
    OBVIOUS
  <2>2. IsFiniteSet(0 .. IdSpace)
        /\ Cardinality(0 .. IdSpace) = IF 0 > IdSpace THEN 0 ELSE IdSpace - 0 + 1
    BY <2>1, FS_Interval
  <2> QED
    BY <2>1, <2>2
<1>5. IsFiniteSet(1 .. n) /\ Cardinality(1 .. n) = n
  <2>1. 1 \in Int /\ n \in Int
    BY <1>1
  <2>2. IsFiniteSet(1 .. n) /\ Cardinality(1 .. n) = IF 1 > n THEN 0 ELSE n - 1 + 1
    BY <2>1, FS_Interval
  <2>3. (IF 1 > n THEN 0 ELSE n - 1 + 1) = n
    BY <1>1
  <2> QED
    BY <2>2, <2>3
<1>6. Cardinality(Entries) > Cardinality(1 .. n)
  BY <1>1, <1>4, <1>5
<1> HIDE DEF place
<1>7. \E d, e \in Entries : d # e /\ place[d] = place[e]
  <2> DEFINE E == Entries
             P == 1 .. n
  <2>1. IsFiniteSet(E) /\ IsFiniteSet(P) /\ Cardinality(E) > Cardinality(P) /\ place \in [E -> P]
    BY <1>3, <1>4, <1>5, <1>6
  <2> HIDE DEF E, P
  <2>2. \E d, e \in E : d # e /\ place[d] = place[e]
    BY <2>1, FS_PigeonHole
  <2> QED
    BY <2>2 DEF E
<1>8. PICK d, e \in Entries : d # e /\ conn_mem[d] = conn_mem[e]
  BY <1>3, <1>7
<1> QED
  BY <1>8 DEF SerialInv, Distinct

\* The last position of a round has all others behind it.
LEMMA LastOfRound ==
  ASSUME NEW h \in 0 .. IdSpace - 1
  PROVE  Entries \subseteq EntriesPassed(h, Wrapped(h + (2 * IdSpace - 1)))
                             \cup {Wrapped(h + (2 * IdSpace - 1))}
  BY DEF EntriesPassed, Wrapped

LEMMA NextWrapped ==
  \A h \in 0 .. IdSpace - 1, n \in 0 .. 2 * IdSpace - 1 :
      NextPosition(Wrapped(h + n)) = Wrapped(h + (n + 1))
  BY DEF NextPosition, Wrapped

LEMMA ProbesInvInit == ASSUME BenchInit PROVE ProbesInv
<1>1. Bound = {} /\ Len(tuples) <= IdSpace /\ state = 0 /\ probes = 0
  BY ArrayLengthAssumption DEF BenchInit, SerialInit, Bound
<1> QED
  BY <1>1 DEF ProbesInv

LEMMA ProbesInvStep ==
  ASSUME SerialInv, ProbesInv, SerialInv', [BenchNext]_benchVars PROVE ProbesInv'
<1>1. CASE UNCHANGED benchVars
  BY <1>1 DEF benchVars, natVars, ProbesInv, Bound, Wrapped
<1>2. ASSUME NEW valid \in BOOLEAN, NEW ready \in BOOLEAN, BenchEdge(valid, ready)
      PROVE  ProbesInv'
  <2>1. /\ UNCHANGED tuples
        /\ Edge(valid, IF valid THEN Offered ELSE None, ready)
        /\ probes' = CASE state = 4 -> IF probes > 2 * IdSpace THEN probes ELSE probes + 1
                       [] state = 5 -> probes
                       [] OTHER -> 0
    BY <1>2 DEF BenchEdge
  <2>2. probes \in 0 .. 2 * IdSpace /\ (state = 4 => probes < 2 * IdSpace)
        /\ state \in 0 .. 5 /\ tuple_buffer \in Tuple5
    BY DEF ProbesInv, SerialInv, RegistersOK
  <2>3. CASE Collect(valid, IF valid THEN Offered ELSE None)
    <3>1. /\ state \in 0 .. 3 /\ UNCHANGED conn_mem
          /\ \/ UNCHANGED state
             \/ TakeWord(IF valid THEN Offered ELSE None)
      BY <2>2, <2>3 DEF Collect, tuple_ready_o
    <3>2. probes' = 0
      BY <2>1, <3>1
    <3>3. state' = 4 => loc_to_probe' = SerialHash[tuple_buffer']
      <4> SUFFICES ASSUME state' = 4 PROVE loc_to_probe' = SerialHash[tuple_buffer']
        OBVIOUS
      <4>1. state = 3 /\ TakeWord(IF valid THEN Offered ELSE None)
        BY <3>1 DEF TakeWord
      <4> QED
        BY <4>1 DEF TakeWord, hash_value
    <3>4. state' = 4 => SerialHash[tuple_buffer'] \in 0 .. IdSpace - 1
      BY HashType DEF SerialInv, RegistersOK
    <3> QED
      BY <2>1, <3>1, <3>2, <3>3, <3>4 DEF ProbesInv, Bound, Wrapped
  <2>4. CASE Found
    <3>1. state = 4 /\ state' = 5 /\ probes' = probes + 1
      BY <2>1, <2>2, <2>4 DEF Found
    <3>2. /\ loc_to_probe \in Entries /\ conn_mem'[loc_to_probe] = tuple_buffer
          /\ \A e \in Entries : e # loc_to_probe => conn_mem'[e] = conn_mem[e]
          /\ Bound' = Bound \cup {loc_to_probe}
      BY <2>4, FoundTable
    <3>3. tuple_index - 1 \in 1 .. Len(tuples) /\ tuple_buffer = tuples[tuple_index - 1]
      BY <3>1, LenProperties DEF SerialInv, InHand, RegistersOK, NumTuples
    <3>4. ASSUME NEW e \in Bound' PROVE \E j \in 1 .. Len(tuples) : conn_mem'[e] = tuples[j]
      <4>1. CASE e = loc_to_probe
        BY <3>2, <3>3, <4>1
      <4>2. CASE e # loc_to_probe
        <5>1. e \in Bound /\ e \in Entries
          BY <3>2, <4>2 DEF Bound
        <5>2. conn_mem'[e] = conn_mem[e]
          BY <3>2, <4>2, <5>1
        <5> QED
          BY <5>1, <5>2 DEF ProbesInv
      <4> QED
        BY <4>1, <4>2
    <3>5. probes' \in 0 .. 2 * IdSpace
      BY <2>2, <3>1
    <3> QED
      BY <2>1, <3>1, <3>4, <3>5 DEF ProbesInv
  <2>5. CASE ProbeOn
    <3> DEFINE h == SerialHash[tuple_buffer]
    <3>1. /\ state = 4 /\ UNCHANGED <<state, tuple_buffer, conn_mem>>
          /\ ~ Matches(loc_to_probe) /\ loc_to_probe' = NextPosition(loc_to_probe)
          /\ probes' = probes + 1
      BY <2>1, <2>2, <2>5 DEF ProbeOn
    <3>2. h \in 0 .. IdSpace - 1 /\ loc_to_probe = Wrapped(h + probes)
      BY <2>2, <3>1, HashType DEF ProbesInv
    <3> HIDE DEF h
    \* The search does not come round.
    <3>3. probes # 2 * IdSpace - 1
      <4> SUFFICES ASSUME probes = 2 * IdSpace - 1 PROVE FALSE
        OBVIOUS
      <4>1. Entries \subseteq EntriesPassed(h, loc_to_probe) \cup {loc_to_probe}
        BY <3>2, LastOfRound
      <4>2. \A e \in EntriesPassed(h, loc_to_probe) : e \in Bound
        BY <3>1 DEF h, SerialInv, Frontier, Bound, EntriesPassed
      <4>3. loc_to_probe \in Entries => loc_to_probe \in Bound
        BY <3>1 DEF Matches, Bound
      <4>4. Entries \subseteq Bound
        BY <4>1, <4>2, <4>3
      <4> QED
        BY <4>4, TableHasRoom
    <3>4. probes \in 0 .. 2 * IdSpace - 1
      BY <2>2, <3>1
    <3>5. loc_to_probe' = Wrapped(h + probes') /\ probes' \in 0 .. 2 * IdSpace - 1
      <4>1. NextPosition(Wrapped(h + probes)) = Wrapped(h + (probes + 1))
        BY <3>2, <3>4, NextWrapped
      <4>2. probes + 1 \in 0 .. 2 * IdSpace - 1
        BY <3>3, <3>4
      <4> QED
        BY <3>1, <3>2, <4>1, <4>2
    <3> QED
      BY <2>1, <3>1, <3>5 DEF ProbesInv, Bound, Wrapped, h
  <2>6. CASE Deliver(ready) \/ AwaitReady(ready)
    <3>1. state = 5 /\ UNCHANGED conn_mem /\ state' \in {0, 5} /\ probes' = probes
      BY <2>1, <2>6 DEF Deliver, AwaitReady, natVars
    <3> QED
      BY <2>1, <3>1 DEF ProbesInv, Bound
  <2> QED
    BY <2>1, <2>3, <2>4, <2>5, <2>6 DEF Edge
<1> QED
  BY <1>1, <1>2 DEF BenchNext

\* A search ends before it would visit a position a second time, since the bench has
\* fewer tuples than the table has entries (nat.v:51, 103-109, nat_tb.v:3).
THEOREM SearchesAreBounded == BenchSpec => []ProbesBounded
<1>1. ProbesInv => ProbesBounded
  BY DEF ProbesInv, ProbesBounded
<1>2. BenchSpec => [](SerialInv /\ ProbesInv)
  BY SerialInvInit, SerialInvStep, ProbesInvInit, ProbesInvStep, PTL DEF BenchSpec
<1> QED
  BY <1>1, <1>2, PTL

-----------------------------------------------------------------------------
(***************************************************************************)
(* The serial NAT implements the outbound side of the abstract NAT of      *)
(* NatService: every edge of the bench is a step of it, or none.           *)
(***************************************************************************)
BoundTuples == {conn_mem[e] : e \in Bound}

LEMMA IdOfType == DOMAIN IdOf = BoundTuples
  BY DEF IdOf, BoundTuples

\* The mapping shows the entry that holds the tuple.
LEMMA IdOfEntry ==
  ASSUME Distinct, NEW e \in Bound
  PROVE  IdOf[conn_mem[e]] = e
<1> DEFINE d == CHOOSE u \in Bound : conn_mem[u] = conn_mem[e]
<1>1. d \in Bound /\ conn_mem[d] = conn_mem[e]
  OBVIOUS
<1>2. d = e
  BY <1>1 DEF Distinct
<1> QED
  BY <1>2 DEF IdOf

IdsShown == \A e \in Bound : IdOf[conn_mem[e]] = e

LEMMA IdsAreShown == Distinct => IdsShown
  BY IdOfEntry DEF IdsShown

LEMMA IdsAreShownNext == Distinct' => IdsShown'
  BY IdsAreShown, PTL

\* The IDs in use are the entries in use.
LEMMA BoundIds == ASSUME Distinct PROVE Service!Range(IdOf) = Bound
<1>1. \A t \in BoundTuples : IdOf[t] \in Bound
  BY IdOfEntry DEF BoundTuples
<1>2. \A e \in Bound : e = IdOf[conn_mem[e]] /\ conn_mem[e] \in BoundTuples
  BY IdOfEntry DEF BoundTuples
<1> QED
  BY <1>1, <1>2, IdOfType DEF Service!Range

LEMMA InitRefines == ASSUME BenchInit PROVE Service!Init
<1>1. BoundTuples = {}
  BY DEF BenchInit, SerialInit, Bound, BoundTuples
<1>2. IdOf = Service!NoBindings
  BY <1>1 DEF IdOf, BoundTuples, Service!NoBindings
<1>3. Shown = None
  BY Zenon DEF BenchInit, SerialInit, Shown
<1> QED
  BY <1>2, <1>3 DEF Service!Init

-----------------------------------------------------------------------------
\* A search that ends shows the entry it found, with the tuple searched for.
LEMMA FoundShown ==
  ASSUME Found
  PROVE  Shown' = [conn |-> tuple_buffer, port |-> loc_to_probe]
<1>1. conn_valid_o' = TRUE /\ conn_data_o' = loc_to_probe /\ tuple_buffer' = tuple_buffer
  BY DEF Found
<1> QED
  BY <1>1, Zenon DEF Shown

\* At an empty entry it binds the index of the entry to the tuple, elsewhere it
\* answers with what is bound.
LEMMA FoundRefines ==
  ASSUME SerialInv, SerialInv', Found
  PROVE  Service!Bind(tuple_buffer) \/ Service!AnswerTx(tuple_buffer)
<1> DEFINE l == loc_to_probe
           t == tuple_buffer
<1>1. Distinct /\ Distinct'
  BY DEF SerialInv
<1>2. /\ l \in Entries /\ t \in Tuple5 \ {Zero}
      /\ conn_mem'[l] = t
      /\ \A e \in Entries : e # l => conn_mem'[e] = conn_mem[e]
      /\ Bound' = Bound \cup {l} /\ Bound \subseteq Entries
      /\ \/ conn_mem[l] = t
         \/ conn_mem[l] = Zero /\ \A e \in Bound : conn_mem[e] # t
  BY FoundTable DEF Bound
<1>3. \A e \in Bound : conn_mem'[e] = conn_mem[e]
  BY <1>2 DEF Bound
<1>4. BoundTuples' = BoundTuples \cup {t}
  BY <1>2, <1>3 DEF BoundTuples
<1>5. IdOf'[t] = l /\ \A d \in BoundTuples : IdOf'[d] = IdOf[d]
  <2>1. \A e \in Bound \cup {l} : IdOf'[conn_mem'[e]] = e
    BY <1>1, <1>2, IdsAreShownNext DEF IdsShown
  <2>2. \A e \in Bound : IdOf[conn_mem[e]] = e
    BY <1>1, IdOfEntry
  <2> QED
    BY <1>2, <1>3, <2>1, <2>2 DEF BoundTuples
<1>6. IdOf' = [d \in BoundTuples \cup {t} |-> IF d = t THEN l ELSE IdOf[d]]
  <2>1. IdOf' = [d \in BoundTuples' |-> IdOf'[d]]
    BY DEF IdOf, BoundTuples
  <2> QED
    BY <1>4, <1>5, <2>1
<1>7. CASE conn_mem[l] = t
  <2>1. t \in BoundTuples /\ IdOf[t] = l
    BY <1>1, <1>2, <1>7, IdOfEntry DEF BoundTuples, Bound
  <2>2. IdOf = [d \in BoundTuples |-> IdOf[d]]
    BY DEF IdOf, BoundTuples
  <2>3. BoundTuples \cup {t} = BoundTuples
    BY <2>1
  <2>4. IdOf' = IdOf
    BY <1>6, <2>1, <2>2, <2>3
  <2> QED
    BY <2>1, <2>4, FoundShown, IdOfType DEF Service!AnswerTx, Service!Bound
<1>8. CASE conn_mem[l] = Zero /\ \A e \in Bound : conn_mem[e] # t
  <2>1. t \notin BoundTuples
    BY <1>8 DEF BoundTuples
  <2>2. l \in Entries \ Service!Range(IdOf)
    BY <1>1, <1>2, <1>8, BoundIds DEF Bound
  <2> QED
    BY <1>6, <2>1, <2>2, FoundShown, IdOfType DEF Service!Bind, Service!Bound
<1> QED
  BY <1>2, <1>7, <1>8

\* The other edges of the NAT show no answer, or the same one, and bind nothing.
LEMMA OthersRefine ==
  ASSUME NEW valid, NEW word, NEW ready,
         Collect(valid, word) \/ ProbeOn \/ Deliver(ready)
  PROVE  Service!Silent
<1>1. conn_valid_o' = FALSE /\ UNCHANGED conn_mem
  BY DEF Collect, ProbeOn, Deliver
<1>2. Shown' = None
  BY <1>1, Zenon DEF Shown
<1>3. UNCHANGED IdOf
  BY <1>1 DEF IdOf, Bound
<1> QED
  BY <1>2, <1>3 DEF Service!Silent

LEMMA PauseRefines ==
  ASSUME UNCHANGED natVars
  PROVE  UNCHANGED Service!serviceVars
<1>1. UNCHANGED <<conn_valid_o, conn_data_o, tuple_buffer, conn_mem>>
  BY DEF natVars
<1>2. UNCHANGED Shown
  BY <1>1, Zenon DEF Shown
<1>3. UNCHANGED IdOf
  BY <1>1 DEF IdOf, Bound
<1> QED
  BY <1>2, <1>3 DEF Service!serviceVars

LEMMA NextRefines ==
  ASSUME SerialInv, SerialInv', [BenchNext]_benchVars
  PROVE  [Service!Next]_Service!serviceVars
<1>1. CASE UNCHANGED benchVars
  <2>1. UNCHANGED natVars
    BY <1>1 DEF benchVars
  <2> QED
    BY <2>1, PauseRefines
<1>2. ASSUME NEW valid \in BOOLEAN, NEW ready \in BOOLEAN, BenchEdge(valid, ready)
      PROVE  [Service!Next]_Service!serviceVars
  <2>1. CASE Found
    <3>1. tuple_buffer \in Tuple5 \ {Zero}
      BY <2>1, FoundTable
    <3> QED
      BY <2>1, <3>1, FoundRefines DEF Service!Next
  <2>2. CASE AwaitReady(ready)
    BY <2>2, PauseRefines DEF AwaitReady
  <2>3. CASE \/ Collect(valid, IF valid THEN Offered ELSE None)
             \/ ProbeOn \/ Deliver(ready)
    BY <2>3, OthersRefine DEF Service!Next
  <2> QED
    BY <1>2, <2>1, <2>2, <2>3 DEF BenchEdge, Edge
<1> QED
  BY <1>1, <1>2 DEF BenchNext

\* An ID is bound to a tuple when its first search ends, to no other tuple, and
\* every later result for the tuple is the same ID.
THEOREM SerialImplementsService == BenchSpec => ImplementsService
<1>1. BenchInit => Service!Init
  BY InitRefines
<1>2. SerialInv /\ SerialInv' /\ [BenchNext]_benchVars
         => [Service!Next]_Service!serviceVars
  BY NextRefines
<1> QED
  BY <1>1, <1>2, SerialInductive, PTL DEF BenchSpec, ImplementsService, Service!Spec
=============================================================================
