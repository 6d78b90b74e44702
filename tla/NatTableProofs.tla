--------------------------- MODULE NatTableProofs ---------------------------
(***************************************************************************)
(* Proofs about the connection table for every table size, every set of    *)
(* hosts and ports, every hash function and every environment.             *)
(***************************************************************************)
EXTENDS NatWire, FiniteSetTheorems, TLAPS

USE TableSizeAssumption

LEMMA SlotsNonEmpty == 0 \in Slots
  BY DEF Slots

\* The wrap-around of the hash_len-bit registers stays inside the table.
LEMMA SuccType == \A s \in Slots : Succ(s) \in Slots
  BY DEF Slots, Succ

\* The keys built from tuples are keys, and so is a key with its port replaced.
LEMMA KeyTypes ==
  /\ \A t \in Tuples : Outbound(t) \in Keys /\ Inbound(t) \in Keys
  /\ \A k \in Keys, p \in Slots : Translated(k, p) \in Keys
  /\ \A k \in Keys : Hash[k] \in Slots
  BY SlotsArePorts, HashAssumption DEF Tuples, Keys, Outbound, Inbound, Translated

-----------------------------------------------------------------------------
\* The steps below are those of any environment: the ports show tuples or nothing.
Requests == Tuples \cup {NoTuple}
Clocked  == \E q0, q1 \in Requests : Clock(q0, q1)
Driven   == ResetEdge \/ Clocked

\* The flags are Boolean after every edge.
LEMMA FlagsStep == ASSUME FlagsOK, [Driven]_tableVars PROVE FlagsOK'
<1>1. CASE UNCHANGED tableVars
  BY <1>1 DEF FlagsOK, tableVars, port0, port1
<1>2. CASE Driven
  BY <1>2 DEF FlagsOK, Driven, Clocked, Clock, Busy, ResetEdge, AcceptTx, AcceptRx, Idle,
     TxInsert, TxHit, TxProbe, RxInsert, RxInsertProbe, RxHit, RxProbe,
     Latch, ProbeNext, Silent0, Silent1, Answer0, Answer1
<1> QED
  BY <1>1, <1>2

\* Every register keeps its type on every edge; the hits need Written.
LEMMA RegistersStep ==
  ASSUME RegistersOK, Written, [Driven]_tableVars
  PROVE  RegistersOK' /\ Written'
<1> USE DEF RegistersOK, Written, Used
<1>1. CASE UNCHANGED tableVars
  BY <1>1 DEF tableVars, txTable, rxTable, port0, port1
<1>2. CASE ResetEdge
  <2>1. [s \in Slots |-> Empty] \in [Slots -> Keys \cup {Empty}]
    OBVIOUS
  <2> QED
    BY <1>2, <2>1, SlotsNonEmpty DEF ResetEdge, Silent0, Silent1
<1>3. CASE Clocked
  <2>1. PICK q0, q1 \in Requests : Clock(q0, q1)
    BY <1>3 DEF Clocked
  <2> USE DEF txTable, rxTable, Silent0, Silent1, Answer0, Answer1
  <2>2. CASE AcceptTx(q0)
    <3>1. q0 \in Tuples
      BY <2>2 DEF Requests, AcceptTx, Accepted0
    <3>2. Outbound(q0) \in Keys /\ Hash[Outbound(q0)] \in Slots
      BY <3>1, KeyTypes
    <3> QED
      BY <2>2, <3>2 DEF AcceptTx, Latch
  <2>3. CASE AcceptRx(q0, q1)
    <3>1. q1 \in Tuples
      BY <2>3 DEF Requests, AcceptRx, Accepted1
    <3>2. Inbound(q1) \in Keys /\ Hash[Inbound(q1)] \in Slots
      BY <3>1, KeyTypes
    <3> QED
      BY <2>3, <3>2 DEF AcceptRx, Latch
  <2>4. CASE Idle(q0, q1)
    BY <2>4 DEF Idle
  <2>5. CASE TxInsert
    <3>1. key \in Keys /\ Hash[Translated(key, next_conn_idx)] \in Slots
      BY <2>5, KeyTypes DEF TxInsert
    <3> QED
      BY <2>5, <3>1 DEF TxInsert
  <2>6. CASE TxHit
    BY <2>6, SentinelAssumption DEF TxHit
  <2>7. CASE TxProbe
    BY <2>7, SuccType DEF TxProbe, ProbeNext
  <2>8. CASE RxInsert
    <3>1. key \in Keys /\ Translated(key, replace_port) \in Keys /\ key.iport \in Ports
      BY <2>8, KeyTypes DEF RxInsert, Keys
    <3>2. Succ(next_conn_idx) \in Slots
      BY SuccType
    <3> QED
      BY <2>8, <3>1, <3>2 DEF RxInsert
  <2>9. CASE RxInsertProbe
    BY <2>9, SuccType DEF RxInsertProbe, ProbeNext
  <2>10. CASE RxHit
    BY <2>10, SentinelAssumption DEF RxHit
  <2>11. CASE RxProbe
    BY <2>11, SuccType DEF RxProbe, ProbeNext
  <2> QED
    BY <2>1, <2>2, <2>3, <2>4, <2>5, <2>6, <2>7, <2>8, <2>9, <2>10, <2>11 DEF Clock, Busy
<1> QED
  BY <1>1, <1>2, <1>3 DEF Driven
-----------------------------------------------------------------------------
\* Sets of table entries and their sizes.
LEMMA SlotsFinite == IsFiniteSet(Slots) /\ Cardinality(Slots) = TableSize
<1>1. IsFiniteSet(0 .. TableSize - 1) /\ Cardinality(0 .. TableSize - 1) = TableSize
  BY FS_Interval
<1> QED
  BY <1>1 DEF Slots

LEMMA UsedFinite ==
  ASSUME NEW U \in SUBSET Slots
  PROVE  /\ IsFiniteSet(U)
         /\ Cardinality(U) \in Nat
         /\ Cardinality(U) <= TableSize
         /\ Cardinality(U) = TableSize => U = Slots
  BY SlotsFinite, FS_Subset, FS_CardinalityType

LEMMA AddEntry ==
  ASSUME NEW U \in SUBSET Slots, NEW l \in Slots \ U
  PROVE  /\ Cardinality(U \cup {l}) = Cardinality(U) + 1
         /\ Cardinality(U) + 1 <= TableSize
<1>1. Cardinality(U \cup {l}) = Cardinality(U) + 1
  BY UsedFinite, FS_AddElement
<1>2. U \cup {l} \in SUBSET Slots
  OBVIOUS
<1> QED
  BY <1>1, <1>2, UsedFinite

\* The entries in use after an insertion and after a reset.
LEMMA UsedInsert ==
  ASSUME NEW mem \in [Slots -> Keys \cup {Empty}], NEW l \in Slots, NEW k \in Keys
  PROVE  Used([mem EXCEPT ![l] = k]) = Used(mem) \cup {l}
  BY SentinelAssumption DEF Used

LEMMA UsedReset == Used([s \in Slots |-> Empty]) = {}
  BY DEF Used

\* Only the two insertions write the tables, the counter and replace_port.
LEMMA QuietSteps ==
  ASSUME NEW q0, NEW q1, Clock(q0, q1), ~TxInsert, ~RxInsert
  PROVE  /\ UNCHANGED <<conn_mem_tx, conn_idx_tx, conn_mem_rx, conn_port_rx>>
         /\ UNCHANGED <<next_conn_idx, replace_port>>
         /\ stage' = 2 <=> stage = 2
         /\ stage = 2 => UNCHANGED key
  BY DEF Clock, Busy, AcceptTx, AcceptRx, Idle, TxHit, TxProbe, RxInsertProbe, RxHit, RxProbe,
     Latch, ProbeNext, txTable, rxTable

-----------------------------------------------------------------------------
\* The indices handed out are 0, 1, 2, ... in order, and never twice.
Numbering == IndexCount /\ SequentialPorts /\ UniquePorts

LEMMA NumberingInit == ASSUME TableInit PROVE Numbering
<1>1. Used(conn_mem_tx) = {}
  BY UsedReset DEF TableInit
<1>2. Cardinality(Used(conn_mem_tx)) = 0
  BY <1>1, FS_EmptySet
<1> QED
  BY <1>1, <1>2 DEF TableInit, Numbering, IndexCount, SequentialPorts, UniquePorts

LEMMA NumberingStep ==
  ASSUME RegistersOK, Numbering, [Driven]_tableVars
  PROVE  Numbering'
<1> DEFINE U == Used(conn_mem_tx)
<1>1. CASE UNCHANGED tableVars
  BY <1>1 DEF tableVars, txTable, Numbering, IndexCount, SequentialPorts, UniquePorts, Used
<1>2. CASE ResetEdge
  <2>1. Used(conn_mem_tx)' = {}
    BY <1>2, UsedReset DEF ResetEdge
  <2>2. Cardinality(Used(conn_mem_tx)') = 0
    BY <2>1, FS_EmptySet
  <2>3. IndexCount' /\ UniquePorts'
    BY <1>2, <2>1, <2>2 DEF ResetEdge, IndexCount, UniquePorts
  <2>4. SequentialPorts'
    BY <2>1, <2>2 DEF SequentialPorts
  <2> QED
    BY <2>3, <2>4 DEF Numbering
<1>3. CASE TxInsert
  <2> DEFINE l == loc_to_probe
  <2>1. /\ l \in Slots \ U
        /\ key \in Keys
        /\ conn_mem_tx \in [Slots -> Keys \cup {Empty}]
    BY <1>3 DEF RegistersOK, TxInsert, Used
  <2>2. Used(conn_mem_tx)' = U \cup {l}
    BY <1>3, <2>1, UsedInsert DEF TxInsert
  <2>3. U \in SUBSET Slots
    BY DEF Used
  <2>4. Cardinality(U \cup {l}) = Cardinality(U) + 1 /\ Cardinality(U) \in Nat
    BY <2>1, <2>3, AddEntry, UsedFinite
  <2>5. next_conn_idx = Cardinality(U)
    BY <1>3, <2>1 DEF Numbering, IndexCount, TxInsert
  <2>6. IndexCount'
    BY <1>3, <2>2, <2>4, <2>5 DEF IndexCount, TxInsert
  <2>7. /\ conn_idx_tx'[l] = next_conn_idx
        /\ \A s \in U : conn_idx_tx'[s] = conn_idx_tx[s]
    BY <1>3, <2>1, <2>3 DEF TxInsert, RegistersOK
  <2>8. {conn_idx_tx'[s] : s \in U \cup {l}} = {conn_idx_tx[s] : s \in U} \cup {next_conn_idx}
    BY <2>7
  <2>9. {conn_idx_tx[s] : s \in U} = 0 .. (Cardinality(U) - 1)
    BY DEF Numbering, SequentialPorts
  <2>10. SequentialPorts'
    <3>1. \A n \in Nat : (0 .. (n - 1)) \cup {n} = 0 .. n
      OBVIOUS
    <3>2. {conn_idx_tx'[s] : s \in U \cup {l}} = 0 .. Cardinality(U)
      BY <2>4, <2>5, <2>8, <2>9, <3>1, Zenon
    <3>3. 0 .. Cardinality(U) = 0 .. (Cardinality(U \cup {l}) - 1)
      BY <2>4
    <3> QED
      BY <3>2, <3>3, <2>2 DEF SequentialPorts
  <2>11. UniquePorts'
    <3>1. \A s \in U : conn_idx_tx[s] # next_conn_idx
      BY <2>4, <2>5, <2>9
    <3> QED
      BY <3>1, <2>1, <2>2, <2>7 DEF UniquePorts, Numbering
  <2> QED
    BY <2>6, <2>10, <2>11 DEF Numbering
<1>4. CASE RxInsert
  <2>1. UNCHANGED <<conn_mem_tx, conn_idx_tx>> /\ stage = 2 /\ stage' = 0
    BY <1>4 DEF RxInsert, txTable
  <2>2. SequentialPorts' /\ UniquePorts'
    BY <2>1 DEF Numbering, SequentialPorts, UniquePorts, Used
  <2>3. next_conn_idx' = Succ(next_conn_idx) /\ next_conn_idx + 1 = Cardinality(U)
    BY <1>4 DEF RxInsert, Numbering, IndexCount
  <2>4. U \in SUBSET Slots /\ next_conn_idx \in Slots /\ Used(conn_mem_tx)' = U
    BY <2>1 DEF Used, RegistersOK
  <2>5. CASE next_conn_idx = TableSize - 1
    <3>1. U = Slots
      BY <2>3, <2>4, <2>5, UsedFinite
    <3> QED
      BY <2>1, <2>2, <2>3, <2>4, <2>5, <3>1 DEF Numbering, IndexCount, Succ
  <2>6. CASE next_conn_idx # TableSize - 1
    BY <2>1, <2>2, <2>3, <2>4, <2>6 DEF Numbering, IndexCount, Succ
  <2> QED
    BY <2>5, <2>6
<1>5. ASSUME NEW q0, NEW q1, Clock(q0, q1), ~TxInsert, ~RxInsert
      PROVE  Numbering'
  <2>1. /\ UNCHANGED <<conn_mem_tx, conn_idx_tx, next_conn_idx, replace_port>>
        /\ stage' = 2 <=> stage = 2
    BY <1>5, QuietSteps
  <2>2. UNCHANGED U
    BY <2>1 DEF Used
  <2>3. IndexCount'
    BY <2>1, <2>2 DEF Numbering, IndexCount
  <2>4. SequentialPorts' /\ UniquePorts'
    BY <2>1, <2>2 DEF Numbering, SequentialPorts, UniquePorts
  <2> QED
    BY <2>3, <2>4 DEF Numbering
<1>6. CASE Clocked
  BY <1>3, <1>4, <1>5, <1>6 DEF Clocked
<1> QED
  BY <1>1, <1>2, <1>6 DEF Driven

-----------------------------------------------------------------------------
\* The order in which linear probing visits the entries.
LEMMA PassedSlots == \A h, l \in Slots : Passed(h, l) \subseteq Slots
  BY DEF Passed, Slots

LEMMA PassedNone == \A h \in Slots : Passed(h, h) = {}
  BY DEF Passed, Slots

LEMMA PassedSucc == \A h, l \in Slots : Passed(h, Succ(l)) \subseteq Passed(h, l) \cup {l}
  BY DEF Passed, Slots, Succ

\* Of two entries, one is visited before the other, from wherever the search starts.
LEMMA PassedSplit ==
  \A h, l, t \in Slots : l # t => t \in Passed(h, l) \/ l \in Passed(h, t)
  BY DEF Passed, Slots

\* A search that reached an empty entry has shown that the key is nowhere.
LEMMA FreshKey ==
  ASSUME NEW mem \in [Slots -> Keys \cup {Empty}], NEW k \in Keys, NEW l \in Slots,
         Connected(mem), mem[l] = Empty,
         \A s \in Passed(Hash[k], l) : mem[s] \notin {Empty, k}
  PROVE  \A s \in Used(mem) : mem[s] # k
<1> SUFFICES ASSUME NEW s \in Used(mem), mem[s] = k PROVE FALSE
  OBVIOUS
<1>1. s \in Slots /\ s # l /\ Hash[k] \in Slots
  BY KeyTypes DEF Used
<1>2. CASE s \in Passed(Hash[k], l)
  BY <1>2
<1>3. CASE l \in Passed(Hash[k], s)
  <2>1. l \in Used(mem)
    BY <1>3 DEF Connected
  <2> QED
    BY <2>1 DEF Used
<1> QED
  BY <1>1, <1>2, <1>3, PassedSplit

\* An insertion at the end of an unbroken probe path keeps all paths unbroken.
LEMMA InsertConnected ==
  ASSUME NEW mem \in [Slots -> Keys \cup {Empty}], NEW k \in Keys, NEW l \in Slots,
         Connected(mem), mem[l] = Empty,
         \A s \in Passed(Hash[k], l) : mem[s] # Empty
  PROVE  Connected([mem EXCEPT ![l] = k])
<1> DEFINE new == [mem EXCEPT ![l] = k]
<1>1. Used(new) = Used(mem) \cup {l}
  BY UsedInsert
<1>2. new[l] = k /\ \A s \in Used(mem) : new[s] = mem[s]
  BY DEF Used
<1>3. Passed(Hash[k], l) \subseteq Used(mem)
  BY KeyTypes, PassedSlots DEF Used
<1> QED
  BY <1>1, <1>2, <1>3 DEF Connected

\* An insertion of a key that is not in the table keeps the keys distinct.
LEMMA InsertDistinct ==
  ASSUME NEW mem \in [Slots -> Keys \cup {Empty}], NEW k \in Keys, NEW l \in Slots,
         Distinct(mem), mem[l] = Empty,
         \A s \in Used(mem) : mem[s] # k
  PROVE  Distinct([mem EXCEPT ![l] = k])
<1> DEFINE new == [mem EXCEPT ![l] = k]
<1>1. Used(new) = Used(mem) \cup {l}
  BY UsedInsert
<1>2. new[l] = k /\ \A s \in Used(mem) : new[s] = mem[s]
  BY DEF Used
<1> QED
  BY <1>1, <1>2 DEF Distinct

-----------------------------------------------------------------------------
\* Probing: searches end where they should, entries can be found, keys are unique.
Probing == Frontier /\ NoHoles /\ UniqueKeys

LEMMA ProbingInit == ASSUME TableInit PROVE Probing
  BY UsedReset DEF TableInit, Probing, Frontier, NoHoles, UniqueKeys, Connected, Distinct

LEMMA ProbingStep ==
  ASSUME RegistersOK, Probing, Pending, [Driven]_tableVars
  PROVE  Probing'
<1>1. CASE UNCHANGED tableVars
  BY <1>1 DEF tableVars, txTable, rxTable, Probing, Frontier, NoHoles, UniqueKeys,
     Connected, Distinct, Used
<1>2. CASE ResetEdge
  <2>1. Used(conn_mem_tx)' = {} /\ Used(conn_mem_rx)' = {} /\ stage' = 0
    BY <1>2, UsedReset DEF ResetEdge
  <2> QED
    BY <2>1 DEF Probing, Frontier, NoHoles, UniqueKeys, Connected, Distinct
<1>3. CASE TxInsert
  <2> DEFINE l == loc_to_probe
             k == key
  <2>1. /\ l \in Slots /\ k \in Keys /\ conn_mem_tx[l] = Empty
        /\ conn_mem_tx \in [Slots -> Keys \cup {Empty}]
        /\ conn_mem_tx' = [conn_mem_tx EXCEPT ![l] = k]
        /\ conn_mem_rx' = conn_mem_rx
    BY <1>3 DEF RegistersOK, TxInsert, rxTable
  <2>2. Connected(conn_mem_tx) /\ Distinct(conn_mem_tx)
    BY DEF Probing, NoHoles, UniqueKeys
  <2>3. \A s \in Passed(Hash[k], l) : conn_mem_tx[s] \notin {Empty, k}
    BY <1>3 DEF Probing, Frontier, TxInsert
  <2>4. \A s \in Used(conn_mem_tx) : conn_mem_tx[s] # k
    BY <2>1, <2>2, <2>3, FreshKey
  <2>5. Connected(conn_mem_tx') /\ Distinct(conn_mem_tx')
    BY <2>1, <2>2, <2>3, <2>4, InsertConnected, InsertDistinct
  <2>6. Connected(conn_mem_rx') /\ Distinct(conn_mem_rx')
    BY <2>1 DEF Probing, NoHoles, UniqueKeys
  <2>7. Frontier'
    <3>1. stage' = 2 /\ loc_to_probe' = Hash[Translated(key', replace_port')]
      BY <1>3 DEF TxInsert
    <3>2. Hash[Translated(key', replace_port')] \in Slots
      BY <1>3, <2>1, KeyTypes DEF TxInsert, RegistersOK
    <3> QED
      BY <3>1, <3>2, PassedNone DEF Frontier
  <2> QED
    BY <2>5, <2>6, <2>7 DEF Probing, NoHoles, UniqueKeys, Connected, Distinct, Used
<1>4. CASE RxInsert
  <2> DEFINE l == loc_to_probe
             k == Translated(key, replace_port)
  <2>1. /\ l \in Slots /\ conn_mem_rx[l] = Empty
        /\ conn_mem_rx \in [Slots -> Keys \cup {Empty}]
        /\ conn_mem_rx' = [conn_mem_rx EXCEPT ![l] = k]
        /\ conn_mem_tx' = conn_mem_tx
    BY <1>4 DEF RegistersOK, RxInsert, txTable
  <2>2. k \in Keys /\ k.iport = replace_port
    BY <1>4, KeyTypes DEF RegistersOK, RxInsert, Translated, Keys
  <2>3. Connected(conn_mem_rx) /\ Distinct(conn_mem_rx)
    BY DEF Probing, NoHoles, UniqueKeys
  <2>4. \A s \in Passed(Hash[k], l) : conn_mem_rx[s] # Empty
    BY <1>4 DEF Probing, Frontier, RxInsert
  <2>5. \A r \in Used(conn_mem_rx) : conn_mem_rx[r] # k
    BY <1>4, <2>2 DEF Pending, RxInsert
  <2>6. Connected(conn_mem_rx') /\ Distinct(conn_mem_rx')
    BY <2>1, <2>2, <2>3, <2>4, <2>5, InsertConnected, InsertDistinct
  <2>7. Connected(conn_mem_tx') /\ Distinct(conn_mem_tx')
    BY <2>1 DEF Probing, NoHoles, UniqueKeys
  <2>8. Frontier'
    BY <1>4 DEF RxInsert, Frontier
  <2> QED
    BY <2>6, <2>7, <2>8 DEF Probing, NoHoles, UniqueKeys, Connected, Distinct, Used
<1>5. ASSUME NEW q0 \in Requests, NEW q1 \in Requests,
             Clock(q0, q1), ~TxInsert, ~RxInsert
      PROVE  Probing'
  <2>1. UNCHANGED <<conn_mem_tx, conn_mem_rx, replace_port>>
    BY <1>5, QuietSteps
  <2>2. NoHoles' /\ UniqueKeys'
    BY <2>1 DEF Probing, NoHoles, UniqueKeys, Connected, Distinct, Used
  <2>3. CASE AcceptTx(q0)
    <3>1. q0 \in Tuples
      BY <2>3 DEF Requests, AcceptTx, Accepted0
    <3>2. stage' = 1 /\ loc_to_probe' = Hash[key'] /\ Hash[key'] \in Slots
      BY <2>3, <3>1, KeyTypes DEF AcceptTx, Latch
    <3> QED
      BY <2>2, <3>2, PassedNone DEF Probing, Frontier
  <2>4. CASE stage' \in {0, 3}
    BY <2>2, <2>4 DEF Probing, Frontier
  <2>5. CASE TxProbe
    <3>1. /\ stage = 1 /\ stage' = 1 /\ key' = key /\ key \in Keys
          /\ loc_to_probe \in Slots /\ loc_to_probe' = Succ(loc_to_probe)
          /\ conn_mem_tx[loc_to_probe] \notin {Empty, key}
      BY <2>5 DEF TxProbe, ProbeNext, RegistersOK
    <3>2. Passed(Hash[key], loc_to_probe') \subseteq Passed(Hash[key], loc_to_probe) \cup {loc_to_probe}
      BY <3>1, KeyTypes, PassedSucc
    <3>3. \A s \in Passed(Hash[key'], loc_to_probe') : conn_mem_tx'[s] \notin {Empty, key'}
      BY <2>1, <3>1, <3>2 DEF Probing, Frontier
    <3> QED
      BY <2>2, <3>1, <3>3 DEF Probing, Frontier
  <2>6. CASE RxInsertProbe
    <3> DEFINE k == Translated(key, replace_port)
    <3>1. /\ stage = 2 /\ stage' = 2 /\ UNCHANGED <<key, replace_port>> /\ k \in Keys
          /\ loc_to_probe \in Slots /\ loc_to_probe' = Succ(loc_to_probe)
          /\ conn_mem_rx[loc_to_probe] # Empty
      BY <2>6, KeyTypes DEF RxInsertProbe, ProbeNext, RegistersOK
    <3>2. Passed(Hash[k], loc_to_probe') \subseteq Passed(Hash[k], loc_to_probe) \cup {loc_to_probe}
      BY <3>1, KeyTypes, PassedSucc
    <3>3. \A s \in Passed(Hash[k], loc_to_probe') : conn_mem_rx'[s] # Empty
      BY <2>1, <3>1, <3>2 DEF Probing, Frontier
    <3> QED
      BY <2>2, <3>1, <3>3 DEF Probing, Frontier
  <2>7. stage' \in {0, 3} \/ AcceptTx(q0) \/ TxProbe \/ RxInsertProbe
    BY <1>5 DEF Clock, Busy, AcceptRx, Idle, TxHit, RxHit, RxProbe, Latch, ProbeNext
  <2> QED
    BY <2>3, <2>4, <2>5, <2>6, <2>7
<1>6. CASE Clocked
  BY <1>3, <1>4, <1>5, <1>6 DEF Clocked
<1> QED
  BY <1>1, <1>2, <1>6 DEF Driven

-----------------------------------------------------------------------------
\* The two tables mirror each other, but for the one pending reverse entry.
Mirroring == Pending /\ TablesMirror

LEMMA MirroringInit == ASSUME TableInit PROVE Mirroring
<1>1. Used(conn_mem_tx) = {} /\ Used(conn_mem_rx) = {} /\ stage = 0
  BY UsedReset DEF TableInit
<1> QED
  BY <1>1 DEF Mirroring, Pending, TablesMirror

LEMMA MirroringStep ==
  ASSUME RegistersOK, Numbering, Mirroring, [Driven]_tableVars
  PROVE  Mirroring'
<1> DEFINE U == Used(conn_mem_tx)
           R == Used(conn_mem_rx)
           l == loc_to_probe
<1>1. CASE UNCHANGED tableVars
  BY <1>1 DEF tableVars, txTable, rxTable, Mirroring, Pending, TablesMirror, Twins, Used
<1>2. CASE ResetEdge
  <2>1. Used(conn_mem_tx)' = {} /\ Used(conn_mem_rx)' = {} /\ stage' = 0
    BY <1>2, UsedReset DEF ResetEdge
  <2> QED
    BY <2>1 DEF Mirroring, Pending, TablesMirror
<1>3. CASE TxInsert
  <2>1. /\ l \in Slots \ U /\ key \in Keys /\ stage' = 2 /\ stage = 1
        /\ UNCHANGED <<conn_mem_rx, conn_port_rx, key>>
        /\ replace_port' = next_conn_idx
    BY <1>3 DEF RegistersOK, TxInsert, rxTable, Used
  <2>2. /\ conn_mem_tx'[l] = key /\ conn_idx_tx'[l] = next_conn_idx
        /\ \A s \in U : conn_mem_tx'[s] = conn_mem_tx[s] /\ conn_idx_tx'[s] = conn_idx_tx[s]
    BY <1>3, <2>1 DEF TxInsert, RegistersOK, Used
  <2>3. Used(conn_mem_tx)' = U \cup {l} /\ Used(conn_mem_rx)' = R
    BY <1>3, <2>1, UsedInsert DEF TxInsert, RegistersOK, Used
  <2>4. \A s \in U, r \in R : Twins(s, r) => Twins(s, r)'
    BY <2>1, <2>2 DEF Twins
  <2>5. TablesMirror'
    BY <2>1, <2>2, <2>3, <2>4 DEF Mirroring, TablesMirror
  <2>6. next_conn_idx = Cardinality(U)
    BY <1>3, <2>1 DEF Numbering, IndexCount, TxInsert
  <2>7. \A s \in U : conn_idx_tx[s] # next_conn_idx
    <3>1. Cardinality(U) \in Nat
      BY UsedFinite DEF Used
    <3> QED
      BY <3>1, <2>6 DEF Numbering, SequentialPorts
  <2>8. ASSUME NEW r \in R
        PROVE  conn_mem_rx[r].iport # next_conn_idx
    <3>1. PICK s \in U : Twins(s, r)
      BY DEF Mirroring, TablesMirror
    <3>2. conn_mem_tx[s] \in Keys
      BY DEF RegistersOK, Used
    <3>3. conn_mem_rx[r].iport = conn_idx_tx[s]
      BY <3>1, <3>2 DEF Twins, Translated, Keys
    <3> QED
      BY <3>3, <2>7
  <2>9. Pending'
    BY <2>1, <2>2, <2>3, <2>8 DEF Pending
  <2> QED
    BY <2>5, <2>9 DEF Mirroring
<1>4. CASE RxInsert
  <2>1. /\ l \in Slots \ R /\ stage = 2 /\ stage' = 0
        /\ UNCHANGED <<conn_mem_tx, conn_idx_tx, loc_to_probe>>
        /\ Translated(key, replace_port) \in Keys
    BY <1>4, KeyTypes DEF RegistersOK, RxInsert, txTable, Used
  <2>2. /\ conn_mem_rx'[l] = Translated(key, replace_port) /\ conn_port_rx'[l] = key.iport
        /\ \A r \in R : conn_mem_rx'[r] = conn_mem_rx[r] /\ conn_port_rx'[r] = conn_port_rx[r]
    BY <1>4, <2>1 DEF RxInsert, RegistersOK, Used
  <2>3. Used(conn_mem_rx)' = R \cup {l} /\ Used(conn_mem_tx)' = U
    BY <1>4, <2>1, UsedInsert DEF RxInsert, RegistersOK, Used
  <2>4. \A s \in U, r \in R : Twins(s, r) => Twins(s, r)'
    BY <2>1, <2>2 DEF Twins
  <2>5. \A s \in U : conn_mem_tx[s] = key /\ conn_idx_tx[s] = replace_port => Twins(s, l)'
    BY <2>1, <2>2 DEF Twins
  <2>6. \E s \in U : conn_mem_tx[s] = key /\ conn_idx_tx[s] = replace_port
    BY <2>1 DEF Mirroring, Pending
  <2>7. TablesMirror'
    BY <2>1, <2>3, <2>4, <2>5, <2>6 DEF Mirroring, TablesMirror
  <2> QED
    BY <2>1, <2>7 DEF Mirroring, Pending
<1>5. ASSUME NEW q0, NEW q1, Clock(q0, q1), ~TxInsert, ~RxInsert
      PROVE  Mirroring'
  <2>1. /\ UNCHANGED <<conn_mem_tx, conn_idx_tx, conn_mem_rx, conn_port_rx, replace_port>>
        /\ stage' = 2 <=> stage = 2
        /\ stage = 2 => UNCHANGED key
    BY <1>5, QuietSteps
  <2>2. UNCHANGED <<U, R>> /\ \A s, r : Twins(s, r) <=> Twins(s, r)'
    BY <2>1 DEF Used, Twins
  <2>3. Pending'
    BY <2>1, <2>2 DEF Mirroring, Pending
  <2>4. TablesMirror'
    BY <2>1, <2>2 DEF Mirroring, TablesMirror
  <2> QED
    BY <2>3, <2>4 DEF Mirroring
<1>6. CASE Clocked
  BY <1>3, <1>4, <1>5, <1>6 DEF Clocked
<1> QED
  BY <1>1, <1>2, <1>6 DEF Driven

-----------------------------------------------------------------------------
\* Whoever is answered is told what the tables hold for the key that was latched.
LEMMA AnswersStep ==
  ASSUME RegistersOK, Mirroring, AnswersMatchTables, [Driven]_tableVars
  PROVE  AnswersMatchTables'
<1> DEFINE l == loc_to_probe
<1>1. CASE UNCHANGED tableVars
  BY <1>1 DEF tableVars, txTable, rxTable, port0, port1, AnswersMatchTables, Used
<1>2. CASE TxInsert
  <2>1. l \in Slots /\ key \in Keys /\ key' = key /\ conn_valid_1' = FALSE
    BY <1>2 DEF RegistersOK, TxInsert, Silent1
  <2>2. conn_mem_tx'[l] = key /\ conn_idx_tx'[l] = conn_data_0'
    BY <1>2, <2>1 DEF TxInsert, RegistersOK, Answer0
  <2>3. l \in Used(conn_mem_tx)'
    BY <2>1, <2>2, SentinelAssumption DEF Used
  <2> QED
    BY <2>1, <2>2, <2>3 DEF AnswersMatchTables
<1>3. CASE TxHit
  <2>1. /\ l \in Slots /\ conn_mem_tx[l] = key /\ key \in Keys
        /\ UNCHANGED <<key, conn_mem_tx, conn_idx_tx>>
        /\ conn_data_0' = conn_idx_tx[l] /\ conn_valid_1' = FALSE
    BY <1>3 DEF RegistersOK, TxHit, Answer0, Silent1, txTable
  <2>2. l \in Used(conn_mem_tx)'
    BY <2>1, SentinelAssumption DEF Used
  <2> QED
    BY <2>1, <2>2 DEF AnswersMatchTables
<1>4. CASE RxHit
  <2>1. /\ l \in Slots /\ conn_mem_rx[l] = key /\ key \in Keys
        /\ UNCHANGED <<key, conn_mem_tx, conn_idx_tx>>
        /\ conn_data_1' = conn_port_rx[l] /\ conn_valid_0' = FALSE
    BY <1>4 DEF RegistersOK, RxHit, Answer1, Silent0, txTable
  <2>2. l \in Used(conn_mem_rx)
    BY <2>1, SentinelAssumption DEF Used
  <2>3. PICK s \in Used(conn_mem_tx) : Twins(s, l)
    BY <2>2 DEF Mirroring, TablesMirror
  <2>4. s \in Used(conn_mem_tx)'
    BY <2>1 DEF Used
  <2>5. Translated(conn_mem_tx'[s], conn_idx_tx'[s]) = key' /\ conn_mem_tx'[s].iport = conn_data_1'
    BY <2>1, <2>3 DEF Twins
  <2> QED
    BY <2>1, <2>4, <2>5 DEF AnswersMatchTables
<1>5. ASSUME Driven, ~TxInsert, ~TxHit, ~RxHit
      PROVE  AnswersMatchTables'
  <2>1. conn_valid_0' = FALSE /\ conn_valid_1' = FALSE
    BY <1>5 DEF Driven, Clocked, Clock, Busy, ResetEdge, AcceptTx, AcceptRx, Idle, TxProbe,
       RxInsert, RxInsertProbe, RxProbe, Latch, ProbeNext, Silent0, Silent1
  <2> QED
    BY <2>1 DEF AnswersMatchTables
<1> QED
  BY <1>1, <1>2, <1>3, <1>4, <1>5

-----------------------------------------------------------------------------
\* IInv is an inductive invariant of the table.
LEMMA InitIInv == ASSUME TableInit PROVE IInv
<1>1. Used(conn_mem_tx) = {} /\ Used(conn_mem_rx) = {}
  BY UsedReset DEF TableInit
<1>2. RegistersOK
  <2>1. /\ [s \in Slots |-> Empty] \in [Slots -> Keys \cup {Empty}]
        /\ [s \in Slots |-> X] \in [Slots -> Slots \cup {X}]
        /\ [s \in Slots |-> X] \in [Slots -> Ports \cup {X}]
    OBVIOUS
  <2> QED
    BY <2>1, SlotsNonEmpty, SlotsArePorts DEF TableInit, RegistersOK
<1>3. FlagsOK
  BY DEF TableInit, FlagsOK
<1>4. Written /\ AnswersMatchTables
  BY <1>1 DEF TableInit, Written, AnswersMatchTables
<1> QED
  BY <1>2, <1>3, <1>4, NumberingInit, ProbingInit, MirroringInit
     DEF IInv, TypeOK, Numbering, Probing, Mirroring

LEMMA DrivenIInv == ASSUME IInv, [Driven]_tableVars PROVE IInv'
<1>1. RegistersOK /\ FlagsOK /\ Written /\ Numbering /\ Probing /\ Mirroring /\ AnswersMatchTables
  BY DEF IInv, TypeOK, Numbering, Probing, Mirroring
<1>2. RegistersOK' /\ Written' /\ FlagsOK'
  BY <1>1, RegistersStep, FlagsStep
<1>3. Numbering' /\ Mirroring' /\ AnswersMatchTables'
  BY <1>1, NumberingStep, MirroringStep, AnswersStep
<1>4. Probing'
  BY <1>1, ProbingStep DEF Mirroring
<1> QED
  BY <1>2, <1>3, <1>4 DEF IInv, TypeOK, Numbering, Probing, Mirroring

LEMMA NextIInv == ASSUME IInv, [Next]_tableVars PROVE IInv'
<1>1. Next => Driven
  BY TuplesAssumption DEF Next, Running, Driven, Clocked, Requests
<1> QED
  BY <1>1, DrivenIInv

THEOREM Inductive == Spec => []IInv
  BY InitIInv, NextIInv, PTL DEF Spec

\* The registers keep their types; no answer shows what was never written.
THEOREM TypeCorrect == Spec => []TypeOK
  BY Inductive, PTL DEF IInv

\* No two connections share a public port, for any number of connections.
THEOREM PortsAreUnique == Spec => []UniquePorts
  BY Inductive, PTL DEF IInv

\* n live connections hold exactly the ports 0 .. n-1.
THEOREM PortsAreSequential == Spec => []SequentialPorts
  BY Inductive, PTL DEF IInv

\* Every key is in one entry at most.
THEOREM KeysAreUnique == Spec => []UniqueKeys
  BY Inductive, PTL DEF IInv

\* Linear probing reaches every entry, whatever the hash function.
THEOREM EntriesAreReachable == Spec => []NoHoles
  BY Inductive, PTL DEF IInv

\* The rx table is the reverse of the tx table, but for a pending entry.
THEOREM TablesAreReverse == Spec => []TablesMirror
  BY Inductive, PTL DEF IInv

\* Answers on both ports agree with the tables.
THEOREM AnswersAreCorrect == Spec => []AnswersMatchTables
  BY Inductive, PTL DEF IInv

\* At any time, reset or not, a reply to the port a live connection leaves with finds
\* the way back if the index fits a byte, and never otherwise (hash_ip.v:116, 122, 133).
THEOREM BytesAlwaysLeadBack == Spec => []BytesLeadBack
<1>1. IInv => BytesLeadBack
  <2> SUFFICES ASSUME IInv, NEW s \in Used(conn_mem_tx),
                      ~(stage = 2 /\ conn_idx_tx[s] = replace_port)
               PROVE  ReplyFinds(s) <=> conn_idx_tx[s] < ByteSize
    BY DEF BytesLeadBack
  <2> DEFINE k == conn_mem_tx[s]
             i == conn_idx_tx[s]
  <2>1. k \in Keys /\ i \in Nat
    BY DEF IInv, TypeOK, RegistersOK, Written, Used, Slots
  <2>2. ASSUME i < ByteSize PROVE ReplyFinds(s)
    <3>1. AnswerByte(i) = i
      BY <2>1, <2>2, ByteSizeAssumption DEF AnswerByte
    <3>2. PICK r \in Used(conn_mem_rx) : Twins(s, r)
      BY DEF IInv, TablesMirror
    <3> QED
      BY <3>1, <3>2 DEF ReplyFinds, Twins
  <2>3. ASSUME ReplyFinds(s) PROVE i < ByteSize
    <3>1. PICK r \in Used(conn_mem_rx) : /\ conn_mem_rx[r] = Translated(k, AnswerByte(i))
                                         /\ conn_port_rx[r] = k.iport
      BY <2>3 DEF ReplyFinds
    <3>2. PICK t \in Used(conn_mem_tx) : Twins(t, r)
      BY DEF IInv, TablesMirror
    <3>3. conn_mem_tx[t] \in Keys
      BY DEF IInv, TypeOK, RegistersOK, Used
    <3>4. \A l, m \in Keys : \A p, q :
             Translated(l, p) = Translated(m, q) /\ l.iport = m.iport => l = m /\ p = q
      <4> SUFFICES ASSUME NEW l \in Keys, NEW m \in Keys, NEW p, NEW q,
                          Translated(l, p) = Translated(m, q), l.iport = m.iport
                   PROVE  l = m /\ p = q
        OBVIOUS
      <4>1. /\ Translated(l, p).inner = l.inner /\ Translated(m, q).inner = m.inner
            /\ Translated(l, p).outer = l.outer /\ Translated(m, q).outer = m.outer
            /\ Translated(l, p).oport = l.oport /\ Translated(m, q).oport = m.oport
            /\ Translated(l, p).iport = p /\ Translated(m, q).iport = q
        BY DEF Translated, Keys
      <4> QED
        BY <4>1 DEF Keys
    <3>5. k = conn_mem_tx[t] /\ AnswerByte(i) = conn_idx_tx[t]
      <4>1. /\ Translated(conn_mem_tx[t], conn_idx_tx[t]) = Translated(k, AnswerByte(i))
            /\ conn_mem_tx[t].iport = k.iport
        BY <3>1, <3>2 DEF Twins
      <4> HIDE DEF k, i
      <4> QED
        BY <4>1, <3>3, <3>4, <2>1
    <3>6. i = i % ByteSize
      BY <3>5 DEF IInv, UniqueKeys, Distinct, AnswerByte
    <3> QED
      BY <3>6, <2>1, ByteSizeAssumption
  <2> QED
    BY <2>2, <2>3
<1> QED
  BY <1>1, Inductive, PTL

-----------------------------------------------------------------------------
(***************************************************************************)
(* The table implements the abstract NAT of NatService: every edge is a    *)
(* step of it, or none.                                                    *)
(***************************************************************************)
\* The mapping shows the index of the entry that holds the key.
LEMMA BoundPortType == DOMAIN BoundPort = BoundKeys
  BY DEF BoundPort

LEMMA BoundPortOf ==
  ASSUME Distinct(conn_mem_tx), NEW s \in Used(conn_mem_tx)
  PROVE  BoundPort[conn_mem_tx[s]] = conn_idx_tx[s]
<1> DEFINE t == CHOOSE u \in Used(conn_mem_tx) : conn_mem_tx[u] = conn_mem_tx[s]
<1>1. t \in Used(conn_mem_tx) /\ conn_mem_tx[t] = conn_mem_tx[s]
  OBVIOUS
<1>2. t = s
  BY <1>1 DEF Distinct
<1>3. conn_mem_tx[s] \in BoundKeys
  BY DEF BoundKeys
<1> QED
  BY <1>2, <1>3 DEF BoundPort

PortsShown == \A s \in Used(conn_mem_tx) : BoundPort[conn_mem_tx[s]] = conn_idx_tx[s]

LEMMA PortsAreShown == Distinct(conn_mem_tx) => PortsShown
  BY BoundPortOf DEF PortsShown

LEMMA PortsAreShownNext == Distinct(conn_mem_tx)' => PortsShown'
  BY PortsAreShown, PTL

\* The ports in use are the indices of the entries in use.
LEMMA BoundPorts ==
  ASSUME Distinct(conn_mem_tx)
  PROVE  Service!Range(BoundPort) = {conn_idx_tx[s] : s \in Used(conn_mem_tx)}
<1>1. \A k \in BoundKeys : \E s \in Used(conn_mem_tx) : BoundPort[k] = conn_idx_tx[s]
  BY BoundPortOf DEF BoundKeys
<1>2. \A s \in Used(conn_mem_tx) : \E k \in BoundKeys : BoundPort[k] = conn_idx_tx[s]
  BY BoundPortOf DEF BoundKeys
<1> QED
  BY <1>1, <1>2, BoundPortType DEF Service!Range

\* A table without entries is a service without bindings.
LEMMA NothingBound ==
  ASSUME Used(conn_mem_tx) = {}
  PROVE  BoundPort = Service!NoBindings
<1>1. BoundKeys = {}
  BY DEF BoundKeys
<1> QED
  BY <1>1 DEF BoundPort, Service!NoBindings

LEMMA InitRefines == ASSUME TableInit PROVE Service!Init
<1>1. Used(conn_mem_tx) = {}
  BY UsedReset DEF TableInit
<1>2. BoundPort = Service!NoBindings
  BY <1>1, NothingBound
<1>3. ShownTx = NoTuple /\ ShownRx = NoTuple
  BY DEF TableInit, ShownTx, ShownRx
<1> QED
  BY <1>2, <1>3 DEF Service!Init

-----------------------------------------------------------------------------
LEMMA ClearRefines == ASSUME ResetEdge PROVE Service!Clear
<1>1. Used(conn_mem_tx)' = {}
  BY UsedReset DEF ResetEdge
<1>2. BoundPort' = Service!NoBindings
  <2>1. BoundKeys' = {}
    BY <1>1 DEF BoundKeys
  <2> QED
    BY <2>1 DEF BoundPort, Service!NoBindings
<1>3. ShownTx' = NoTuple /\ ShownRx' = NoTuple
  BY DEF ResetEdge, Silent0, Silent1, ShownTx, ShownRx
<1> QED
  BY <1>2, <1>3 DEF Service!Clear

\* The insertion of a new connection binds the next port to it.
LEMMA InsertRefines == ASSUME IInv, IInv', TxInsert PROVE Service!Bind(key)
<1> DEFINE U == Used(conn_mem_tx)
           l == loc_to_probe
<1>1. /\ Distinct(conn_mem_tx) /\ Distinct(conn_mem_tx')
      /\ Distinct(conn_mem_tx)'
  BY DEF IInv, UniqueKeys, Distinct, Used
<1>2. /\ l \in Slots \ U /\ key \in Keys /\ key' = key /\ conn_mem_tx[l] = Empty
      /\ conn_mem_tx \in [Slots -> Keys \cup {Empty}]
      /\ conn_data_0' = next_conn_idx /\ next_conn_idx \in Slots
  BY DEF IInv, TypeOK, RegistersOK, TxInsert, Used, Answer0
<1>3. /\ conn_mem_tx'[l] = key /\ conn_idx_tx'[l] = next_conn_idx
      /\ \A s \in U : conn_mem_tx'[s] = conn_mem_tx[s] /\ conn_idx_tx'[s] = conn_idx_tx[s]
  BY <1>2 DEF TxInsert, IInv, TypeOK, RegistersOK, Used
<1>4. Used(conn_mem_tx)' = U \cup {l}
  BY <1>2, UsedInsert DEF TxInsert, Used
<1>5. key \notin BoundKeys
  <2>1. \A s \in U : conn_mem_tx[s] # key
    BY <1>2, FreshKey DEF IInv, NoHoles, Frontier, TxInsert
  <2> QED
    BY <2>1 DEF BoundKeys
<1>6. next_conn_idx \in Slots \ Service!Range(BoundPort)
  <2>1. next_conn_idx = Cardinality(U)
    BY <1>2 DEF IInv, IndexCount, TxInsert
  <2>2. Cardinality(U) \in Nat
    BY UsedFinite DEF Used
  <2>3. {conn_idx_tx[s] : s \in U} = 0 .. (Cardinality(U) - 1)
    BY DEF IInv, SequentialPorts
  <2>4. next_conn_idx \notin {conn_idx_tx[s] : s \in U}
    BY <2>1, <2>2, <2>3
  <2> QED
    BY <1>1, <1>2, <2>4, BoundPorts
<1>7. BoundPort' = [d \in BoundKeys \cup {key} |-> IF d = key THEN next_conn_idx ELSE BoundPort[d]]
  <2>1. BoundKeys' = BoundKeys \cup {key}
    BY <1>3, <1>4 DEF BoundKeys
  <2>2. \A s \in U \cup {l} : BoundPort'[conn_mem_tx'[s]] = conn_idx_tx'[s]
    <3>1. PortsShown'
      BY <1>1, PortsAreShownNext
    <3> QED
      BY <3>1, <1>4 DEF PortsShown
  <2>3. \A s \in U : BoundPort[conn_mem_tx[s]] = conn_idx_tx[s]
    BY <1>1, BoundPortOf
  <2>4. BoundPort'[key] = next_conn_idx
    BY <2>2, <1>3
  <2>5. \A d \in BoundKeys : BoundPort'[d] = BoundPort[d]
    BY <2>2, <2>3, <1>3 DEF BoundKeys
  <2>6. BoundPort' = [d \in BoundKeys' |-> BoundPort'[d]]
    BY DEF BoundPort
  <2> QED
    BY <1>5, <2>1, <2>4, <2>5, <2>6
<1>8. ShownTx' = [conn |-> key, port |-> next_conn_idx] /\ ShownRx' = NoTuple
  BY <1>2 DEF TxInsert, Answer0, Silent1, ShownTx, ShownRx
<1> QED
  BY <1>5, <1>6, <1>7, <1>8, BoundPortType DEF Service!Bind, Service!Bound

\* A hit in the tx table answers with the port bound to the connection.
LEMMA TxHitRefines == ASSUME IInv, TxHit PROVE Service!AnswerTx(key)
<1>1. /\ loc_to_probe \in Used(conn_mem_tx) /\ conn_mem_tx[loc_to_probe] = key
      /\ UNCHANGED <<key, conn_mem_tx, conn_idx_tx>>
      /\ conn_data_0' = conn_idx_tx[loc_to_probe]
  BY SentinelAssumption DEF IInv, TypeOK, RegistersOK, TxHit, Answer0, txTable, Used
<1>2. key \in BoundKeys /\ BoundPort[key] = conn_idx_tx[loc_to_probe]
  BY <1>1, BoundPortOf DEF BoundKeys, IInv, UniqueKeys
<1>3. ShownTx' = [conn |-> key, port |-> conn_idx_tx[loc_to_probe]] /\ ShownRx' = NoTuple
  BY <1>1 DEF TxHit, Answer0, Silent1, ShownTx, ShownRx
<1>4. UNCHANGED BoundPort
  BY <1>1 DEF BoundPort, BoundKeys, Used
<1> QED
  BY <1>2, <1>3, <1>4, BoundPortType DEF Service!AnswerTx, Service!Bound

\* A hit in the rx table answers with the inner port of the connection whose
\* reply was asked about.
LEMMA RxHitRefines == ASSUME IInv, RxHit PROVE \E c \in Keys : Service!AnswerRx(c)
<1>1. /\ loc_to_probe \in Used(conn_mem_rx) /\ conn_mem_rx[loc_to_probe] = key
      /\ UNCHANGED <<key, conn_mem_tx, conn_idx_tx>>
      /\ conn_data_1' = conn_port_rx[loc_to_probe]
  BY SentinelAssumption DEF IInv, TypeOK, RegistersOK, RxHit, Answer1, txTable, Used
<1>2. PICK s \in Used(conn_mem_tx) : Twins(s, loc_to_probe)
  BY <1>1 DEF IInv, TablesMirror
<1> DEFINE c == conn_mem_tx[s]
<1>3. c \in Keys /\ c \in BoundKeys /\ BoundPort[c] = conn_idx_tx[s]
  BY BoundPortOf DEF BoundKeys, IInv, UniqueKeys, TypeOK, RegistersOK, Used
<1>4. key = [c EXCEPT !.iport = BoundPort[c]] /\ conn_data_1' = c.iport
  BY <1>1, <1>2, <1>3 DEF Twins, Translated
<1>5. ShownRx' = [reply |-> key, port |-> conn_data_1'] /\ ShownTx' = NoTuple
  BY <1>1 DEF RxHit, Answer1, Silent0, ShownTx, ShownRx
<1>6. UNCHANGED BoundPort
  BY <1>1 DEF BoundPort, BoundKeys, Used
<1>7. Service!AnswerRx(c)
  BY <1>3, <1>4, <1>5, <1>6, BoundPortType DEF Service!AnswerRx, Service!Bound, Service!ReplyTo
<1> QED
  BY <1>3, <1>7

\* Every other edge shows no answer and binds nothing.
LEMMA OthersRefine ==
  ASSUME Running, ~TxInsert, ~TxHit, ~RxHit
  PROVE  Service!Silent
<1>1. /\ UNCHANGED <<conn_mem_tx, conn_idx_tx>>
      /\ conn_valid_0' = FALSE /\ conn_valid_1' = FALSE
  BY DEF Running, Clock, Busy, AcceptTx, AcceptRx, Idle, TxProbe, RxInsert, RxInsertProbe,
     RxProbe, Latch, ProbeNext, Silent0, Silent1, txTable
<1>2. ShownTx' = NoTuple /\ ShownRx' = NoTuple
  BY <1>1 DEF ShownTx, ShownRx
<1>3. UNCHANGED BoundPort
  BY <1>1 DEF BoundPort, BoundKeys, Used
<1> QED
  BY <1>2, <1>3 DEF Service!Silent

LEMMA NextRefines ==
  ASSUME IInv, IInv', [Next]_tableVars
  PROVE  [Service!Next]_Service!serviceVars
<1>1. CASE UNCHANGED tableVars
  BY <1>1 DEF tableVars, txTable, rxTable, port0, port1, BoundPort, BoundKeys, Used,
     ShownTx, ShownRx, Service!serviceVars
<1>2. CASE ResetEdge
  BY <1>2, ClearRefines DEF Service!Next
<1>3. CASE TxInsert
  <2>1. key \in Keys
    BY <1>3 DEF IInv, TypeOK, RegistersOK, TxInsert
  <2> QED
    BY <1>3, <2>1, InsertRefines DEF Service!Next
<1>4. CASE TxHit
  <2>1. key \in Keys
    BY <1>4 DEF IInv, TypeOK, RegistersOK, TxHit
  <2> QED
    BY <1>4, <2>1, TxHitRefines DEF Service!Next
<1>5. CASE RxHit
  BY <1>5, RxHitRefines DEF Service!Next
<1>6. CASE Running /\ ~TxInsert /\ ~TxHit /\ ~RxHit
  BY <1>6, OthersRefine DEF Service!Next
<1> QED
  BY <1>1, <1>2, <1>3, <1>4, <1>5, <1>6 DEF Next

\* The table is a NAT as NatService states it: one to one, stable bindings, and
\* answers on both sides that agree with them.
THEOREM TableImplementsService == Spec => ImplementsService
<1>1. TableInit => Service!Init
  BY InitRefines
<1>2. IInv /\ IInv' /\ [Next]_tableVars => [Service!Next]_Service!serviceVars
  BY NextRefines
<1> QED
  BY <1>1, <1>2, Inductive, PTL DEF Spec, ImplementsService, Service!Spec
=============================================================================
