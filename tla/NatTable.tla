------------------------------ MODULE NatTable ------------------------------
(***************************************************************************)
(* The connection table of the NAT, module "hash" of src/hash_ip.v.        *)
(*                                                                         *)
(* One step is one rising clock edge.  The two request ports (0: outbound, *)
(* tx; 1: inbound, rx) are inputs of the step: on every edge each of them  *)
(* may carry any tuple of its domain or no valid tuple at all, and reset   *)
(* may be asserted.  NatSystem closes this model with the packet rewriters *)
(* that really drive the ports.                                            *)
(*                                                                         *)
(* A 104-bit table entry { inner_ip, outer_ip, inner_port, outer_port,     *)
(* protocol } is a record of Keys; the protocol field is left out because  *)
(* src/our_ip.v:107 only sends tuples of protocol 6, which is also why no  *)
(* key equals the all-zero word that marks an empty entry.                 *)
(***************************************************************************)
EXTENDS Integers, FiniteSets

CONSTANTS
    Hosts,      \* IP addresses
    Ports,      \* 16-bit TCP ports
    TableSize,  \* id_space, 1 << hash_len (line 26)
    Hash,       \* the XOR of the fields of a key, cut to hash_len bits
    TxTuples,   \* tuples offered on port 0
    RxTuples,   \* tuples offered on port 1
    Empty,      \* the all-zero table entry
    X,          \* the contents of a register that was never written
    NoTuple     \* tuple_valid_i is low

Slots == 0 .. TableSize - 1

Tuples == [src : Hosts, sport : Ports, dst : Hosts, dport : Ports]
Keys   == [inner : Hosts, iport : Ports, outer : Hosts, oport : Ports]

ASSUME TableSizeAssumption == TableSize \in Nat /\ TableSize > 1
ASSUME SlotsArePorts       == Slots \subseteq Ports
ASSUME HashAssumption      == Hash \in [Keys -> Slots]
ASSUME TuplesAssumption    == TxTuples \subseteq Tuples /\ RxTuples \subseteq Tuples
ASSUME SentinelAssumption  == /\ Empty \notin Keys
                              /\ X \notin Keys \cup Ports
                              /\ NoTuple \notin Tuples

VARIABLES
    stage,                          \* 0 idle, 1 search tx, 2 insert rx, 3 search rx
    key,                            \* inner_ip, outer_ip, inner_port, outer_port
    loc_to_probe, replace_port,
    conn_mem_tx, conn_idx_tx,       \* outbound key -> connection index
    conn_mem_rx, conn_port_rx,      \* inbound key -> port of the inner host
    next_conn_idx,
    conn_valid_0, conn_data_0, tuple_ready_0,
    conn_valid_1, conn_data_1, tuple_ready_1

txTable == <<conn_mem_tx, conn_idx_tx>>
rxTable == <<conn_mem_rx, conn_port_rx>>
port0   == <<conn_valid_0, conn_data_0, tuple_ready_0>>
port1   == <<conn_valid_1, conn_data_1, tuple_ready_1>>
tableVars == <<stage, key, loc_to_probe, replace_port, txTable, rxTable,
               next_conn_idx, port0, port1>>

-----------------------------------------------------------------------------
\* Operators named <definition>_<bug> are faulty variants of a definition, used to
\* check that a property can fail; no specification uses them.
Outbound_NoOuter(t) == [inner |-> t.src, iport |-> t.sport, outer |-> t.src, oport |-> t.sport]
Inbound_NotSwapped(t) == [inner |-> t.src, iport |-> t.sport, outer |-> t.dst, oport |-> t.dport]

\* The fields of a wire tuple land in inner_* and outer_* by direction.
Outbound(t) == [inner |-> t.src, iport |-> t.sport, outer |-> t.dst, oport |-> t.dport]
Inbound(t)  == [inner |-> t.dst, iport |-> t.dport, outer |-> t.src, oport |-> t.sport]

\* The key under which replies to a connection arrive once its port is p.
Translated(k, p) == [k EXCEPT !.iport = p]

Succ_OffByOne(s)  == IF s = TableSize THEN 0 ELSE s + 1
Succ_Saturates(s) == IF s = TableSize - 1 THEN s ELSE s + 1

\* loc_to_probe and next_conn_idx are hash_len bits wide and wrap around.
Succ(s) == IF s = TableSize - 1 THEN 0 ELSE s + 1

TableInit ==
    /\ stage = 0
    /\ key = X
    /\ loc_to_probe = 0
    /\ replace_port = 0
    /\ conn_mem_tx = [s \in Slots |-> Empty]
    /\ conn_idx_tx = [s \in Slots |-> X]
    /\ conn_mem_rx = [s \in Slots |-> Empty]
    /\ conn_port_rx = [s \in Slots |-> X]
    /\ next_conn_idx = 0
    /\ conn_valid_0 = FALSE /\ conn_data_0 = 0 /\ tuple_ready_0 = TRUE
    /\ conn_valid_1 = FALSE /\ conn_data_1 = 0 /\ tuple_ready_1 = TRUE

-----------------------------------------------------------------------------
Silent0_Held     == tuple_ready_0' = TRUE /\ UNCHANGED <<conn_valid_0, conn_data_0>>
Silent0_NotReady == conn_valid_0' = FALSE /\ UNCHANGED <<tuple_ready_0, conn_data_0>>
Answer0_Ready(data)   == conn_valid_0' = TRUE /\ tuple_ready_0' = TRUE /\ conn_data_0' = data
Answer1_OldData(data) == conn_valid_1' = TRUE /\ tuple_ready_1' = FALSE /\ UNCHANGED conn_data_1

\* The defaults of lines 64-67 on one port, and the assignments that override them.
Silent0 == /\ conn_valid_0' = FALSE /\ tuple_ready_0' = TRUE
           /\ UNCHANGED conn_data_0
Silent1 == /\ conn_valid_1' = FALSE /\ tuple_ready_1' = TRUE
           /\ UNCHANGED conn_data_1
Answer0(data) == conn_valid_0' = TRUE /\ tuple_ready_0' = FALSE /\ conn_data_0' = data
Answer1(data) == conn_valid_1' = TRUE /\ tuple_ready_1' = FALSE /\ conn_data_1' = data

ResetEdge_TxKept ==
    /\ stage' = 0 /\ next_conn_idx' = 0
    /\ conn_mem_rx' = [s \in Slots |-> Empty]
    /\ Silent0 /\ Silent1
    /\ UNCHANGED <<key, loc_to_probe, replace_port, txTable, conn_port_rx>>

ResetEdge_CounterKept ==
    /\ stage' = 0
    /\ conn_mem_tx' = [s \in Slots |-> Empty] /\ conn_mem_rx' = [s \in Slots |-> Empty]
    /\ Silent0 /\ Silent1
    /\ UNCHANGED <<key, loc_to_probe, replace_port, conn_idx_tx, conn_port_rx, next_conn_idx>>

\* Reset clears both tables and the counter, but neither the index and port
\* arrays nor the latched key, the probe position and the data outputs.
ResetEdge ==
    /\ stage' = 0
    /\ next_conn_idx' = 0
    /\ conn_mem_tx' = [s \in Slots |-> Empty]
    /\ conn_mem_rx' = [s \in Slots |-> Empty]
    /\ Silent0 /\ Silent1
    /\ UNCHANGED <<key, loc_to_probe, replace_port, conn_idx_tx, conn_port_rx>>

Accepted0(q0) == q0 # NoTuple /\ tuple_ready_0
Accepted1(q1) == q1 # NoTuple /\ tuple_ready_1

Latch_KeepsLoc(k, next) ==
    /\ stage' = next /\ key' = k
    /\ Silent0 /\ Silent1
    /\ UNCHANGED <<loc_to_probe, replace_port, txTable, rxTable, next_conn_idx>>

Latch(k, next) ==
    /\ stage' = next
    /\ key' = k
    /\ loc_to_probe' = Hash[k]
    /\ Silent0 /\ Silent1
    /\ UNCHANGED <<replace_port, txTable, rxTable, next_conn_idx>>

AcceptTx(q0) ==
    /\ stage = 0
    /\ Accepted0(q0)
    /\ Latch(Outbound(q0), 1)

AcceptRx(q0, q1) ==
    /\ stage = 0
    /\ ~Accepted0(q0)
    /\ Accepted1(q1)
    /\ Latch(Inbound(q1), 3)

Idle(q0, q1) ==
    /\ stage = 0
    /\ ~Accepted0(q0)
    /\ ~Accepted1(q1)
    /\ Silent0 /\ Silent1
    /\ UNCHANGED <<stage, key, loc_to_probe, replace_port, txTable, rxTable, next_conn_idx>>

\* The else branches of stages 1, 2 and 3: look at the next entry.
ProbeNext ==
    /\ loc_to_probe' = Succ(loc_to_probe)
    /\ Silent0 /\ Silent1
    /\ UNCHANGED <<stage, key, replace_port, txTable, rxTable, next_conn_idx>>

\* The answer is sent now; the reverse entry is written in stage 2.
TxInsert ==
    /\ stage = 1
    /\ conn_mem_tx[loc_to_probe] = Empty
    /\ conn_mem_tx' = [conn_mem_tx EXCEPT ![loc_to_probe] = key]
    /\ conn_idx_tx' = [conn_idx_tx EXCEPT ![loc_to_probe] = next_conn_idx]
    /\ stage' = 2
    /\ loc_to_probe' = Hash[Translated(key, next_conn_idx)]
    /\ replace_port' = next_conn_idx
    /\ Answer0(next_conn_idx) /\ Silent1
    /\ UNCHANGED <<key, rxTable, next_conn_idx>>

TxHit ==
    /\ stage = 1
    /\ conn_mem_tx[loc_to_probe] = key
    /\ stage' = 0
    /\ Answer0(conn_idx_tx[loc_to_probe]) /\ Silent1
    /\ UNCHANGED <<key, loc_to_probe, replace_port, txTable, rxTable, next_conn_idx>>

TxProbe ==
    /\ stage = 1
    /\ conn_mem_tx[loc_to_probe] \notin {key, Empty}
    /\ ProbeNext

RxInsert_Overwrites ==
    /\ stage = 2 /\ stage' = 0
    /\ conn_mem_rx' = [conn_mem_rx EXCEPT ![loc_to_probe] = Translated(key, replace_port)]
    /\ conn_port_rx' = [conn_port_rx EXCEPT ![loc_to_probe] = key.iport]
    /\ next_conn_idx' = Succ(next_conn_idx)
    /\ Silent0 /\ Silent1
    /\ UNCHANGED <<key, loc_to_probe, replace_port, txTable>>

RxInsert ==
    /\ stage = 2
    /\ conn_mem_rx[loc_to_probe] = Empty
    /\ conn_mem_rx' = [conn_mem_rx EXCEPT ![loc_to_probe] = Translated(key, replace_port)]
    /\ conn_port_rx' = [conn_port_rx EXCEPT ![loc_to_probe] = key.iport]
    /\ next_conn_idx' = Succ(next_conn_idx)
    /\ stage' = 0
    /\ Silent0 /\ Silent1
    /\ UNCHANGED <<key, loc_to_probe, replace_port, txTable>>

RxInsertProbe ==
    /\ stage = 2
    /\ conn_mem_rx[loc_to_probe] # Empty
    /\ ProbeNext

RxHit ==
    /\ stage = 3
    /\ conn_mem_rx[loc_to_probe] = key
    /\ stage' = 0
    /\ Answer1(conn_port_rx[loc_to_probe]) /\ Silent0
    /\ UNCHANGED <<key, loc_to_probe, replace_port, txTable, rxTable, next_conn_idx>>

RxProbe ==
    /\ stage = 3
    /\ conn_mem_rx[loc_to_probe] # key
    /\ ProbeNext

Busy == TxInsert \/ TxHit \/ TxProbe \/ RxInsert \/ RxInsertProbe \/ RxHit \/ RxProbe

\* An edge without reset, on which the ports show q0 and q1.
Clock(q0, q1) == AcceptTx(q0) \/ AcceptRx(q0, q1) \/ Idle(q0, q1) \/ Busy

Running == \E q0 \in TxTuples \cup {NoTuple}, q1 \in RxTuples \cup {NoTuple} : Clock(q0, q1)

Next == ResetEdge \/ Running

Spec == TableInit /\ [][Next]_tableVars

\* The clock never stops; reset may come at any edge and need not come at all.
FairSpec == Spec /\ WF_tableVars(Running)

-----------------------------------------------------------------------------
(***************************************************************************)
(* Properties.                                                             *)
(***************************************************************************)
Used(mem) == {s \in Slots : mem[s] # Empty}

\* The entries that linear probing passes on its way from entry "from" to "to".
Passed(from, to) == IF from <= to THEN from .. (to - 1)
                                  ELSE (from .. (TableSize - 1)) \cup (0 .. (to - 1))

RegistersOK ==
    /\ stage \in 0 .. 3
    /\ key \in Keys \cup {X}
    /\ stage # 0 => key \in Keys
    /\ loc_to_probe \in Slots /\ replace_port \in Slots /\ next_conn_idx \in Slots
    /\ conn_mem_tx \in [Slots -> Keys \cup {Empty}]
    /\ conn_idx_tx \in [Slots -> Slots \cup {X}]
    /\ conn_mem_rx \in [Slots -> Keys \cup {Empty}]
    /\ conn_port_rx \in [Slots -> Ports \cup {X}]
    /\ conn_data_0 \in Slots /\ conn_data_1 \in Ports
FlagsOK ==
    /\ conn_valid_0 \in BOOLEAN /\ tuple_ready_0 \in BOOLEAN
    /\ conn_valid_1 \in BOOLEAN /\ tuple_ready_1 \in BOOLEAN

\* Type invariant of the registers.  X marks those nothing has written yet; it
\* never gets as far as the data outputs.
TypeOK == RegistersOK /\ FlagsOK

\* Two live outbound connections never share a public port, however inserts,
\* wrap-arounds of the 6-bit counter and resets interleave (lines 112, 133).
UniquePorts ==
    \A s, t \in Used(conn_mem_tx) : conn_idx_tx[s] = conn_idx_tx[t] => s = t

\* The "special guarantee" of the tests (src/3ip_testbench.cpp:444): the n live
\* connections hold exactly the ports 0 .. n-1, so connection n+1 gets port n.
SequentialPorts ==
    {conn_idx_tx[s] : s \in Used(conn_mem_tx)} = 0 .. (Cardinality(Used(conn_mem_tx)) - 1)

\* A key is in at most one entry of each table (lines 108-126, 129-137).
Distinct(mem) == \A s, t \in Used(mem) : mem[s] = mem[t] => s = t
UniqueKeys == Distinct(conn_mem_tx) /\ Distinct(conn_mem_rx)

\* Entry r of the rx table is the reverse of entry s of the tx table.
Twins(s, r) ==
    /\ conn_mem_rx[r] = Translated(conn_mem_tx[s], conn_idx_tx[s])
    /\ conn_port_rx[r] = conn_mem_tx[s].iport

\* The two tables mirror each other whenever no insertion is under way: between
\* stage 1 and the end of stage 2 only the newest connection lacks its reverse.
TablesMirror ==
    /\ \A r \in Used(conn_mem_rx) : \E s \in Used(conn_mem_tx) : Twins(s, r)
    /\ \A s \in Used(conn_mem_tx) :
          \/ \E r \in Used(conn_mem_rx) : Twins(s, r)
          \/ stage = 2 /\ conn_mem_tx[s] = key /\ conn_idx_tx[s] = replace_port

\* Linear probing finds every entry: no hole between the hash of a key and the
\* entry that holds it, across the end of the table too (lines 125, 136, 146).
Connected(mem) == \A s \in Used(mem) : Passed(Hash[mem[s]], s) \subseteq Used(mem)
NoHoles == Connected(conn_mem_tx) /\ Connected(conn_mem_rx)

\* An answer is the mapping of the key that was latched, even though the answer
\* to a new connection is sent before its reverse entry is written (line 122).
AnswersMatchTables ==
    /\ conn_valid_0 => \E s \in Used(conn_mem_tx) :
            conn_mem_tx[s] = key /\ conn_idx_tx[s] = conn_data_0
    /\ conn_valid_1 => \E s \in Used(conn_mem_tx) :
            Translated(conn_mem_tx[s], conn_idx_tx[s]) = key /\ conn_mem_tx[s].iport = conn_data_1

-----------------------------------------------------------------------------
\* The inductive invariant: what the entries hold was written with them, ...
Written ==
    /\ \A s \in Used(conn_mem_tx) : conn_idx_tx[s] \in Slots
    /\ \A s \in Used(conn_mem_rx) : conn_port_rx[s] \in Ports

\* ... next_conn_idx counts the connections, except that it has wrapped around to
\* 0 when the table is full and lags by one while a reverse entry is pending, ...
IndexCount ==
    IF stage = 2
    THEN next_conn_idx + 1 = Cardinality(Used(conn_mem_tx)) /\ replace_port = next_conn_idx
    ELSE \/ next_conn_idx = Cardinality(Used(conn_mem_tx))
         \/ next_conn_idx = 0 /\ Used(conn_mem_tx) = Slots

\* ... the entries a search or insertion has passed are taken, by other keys, ...
Frontier ==
    /\ stage = 1 => \A s \in Passed(Hash[key], loc_to_probe) :
                        conn_mem_tx[s] \notin {Empty, key}
    /\ stage = 2 => \A s \in Passed(Hash[Translated(key, replace_port)], loc_to_probe) :
                        conn_mem_rx[s] # Empty

\* ... and the pending reverse entry belongs to a connection and is not there yet.
Pending ==
    stage = 2 =>
        /\ \E s \in Used(conn_mem_tx) : conn_mem_tx[s] = key /\ conn_idx_tx[s] = replace_port
        /\ \A r \in Used(conn_mem_rx) : conn_mem_rx[r].iport # replace_port

IInv == /\ TypeOK /\ Written
        /\ IndexCount /\ SequentialPorts /\ UniquePorts
        /\ Frontier /\ NoHoles /\ UniqueKeys
        /\ Pending /\ TablesMirror /\ AnswersMatchTables

-----------------------------------------------------------------------------
\* A search that can succeed ends: an outbound one whose key is in the table or
\* that some entry is free for, an inbound one of a known mapping.
SearchesEnd ==
    /\ (stage = 1 /\ \E s \in Slots : conn_mem_tx[s] \in {key, Empty}) ~> stage # 1
    /\ (stage = 3 /\ \E s \in Slots : conn_mem_rx[s] = key) ~> stage # 3

\* Once the answer has been sent, the insertion of the reverse entry ends and
\* the table serves again: it never runs out of rx entries first (lines 128-138).
InsertionEnds == stage = 2 ~> stage = 0

\* "Even in extreme situations where the load factor is 1, the maximum latency
\* is only tableSize x cycleTime" (src/report/section-texs/eval.tex:21).
OutboundSearchEnds == stage = 1 ~> stage # 1

\* The table implements the abstract NAT: a connection keeps its port until
\* reset, ports are never shared, and every answer on either side is the binding
\* of the connection asked about (NatService; all of lines 63-150).
BoundKeys == {conn_mem_tx[s] : s \in Used(conn_mem_tx)}
BoundPort == [k \in BoundKeys |->
                 conn_idx_tx[CHOOSE s \in Used(conn_mem_tx) : conn_mem_tx[s] = k]]
ShownTx == IF conn_valid_0 THEN [conn |-> key, port |-> conn_data_0] ELSE NoTuple
ShownRx == IF conn_valid_1 THEN [reply |-> key, port |-> conn_data_1] ELSE NoTuple

Service == INSTANCE NatService WITH
    Conns <- Keys, PublicPorts <- Slots, None <- NoTuple,
    bindings <- BoundPort, txAnswer <- ShownTx, rxAnswer <- ShownRx

ImplementsService == Service!Spec
=============================================================================
