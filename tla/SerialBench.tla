----------------------------- MODULE SerialBench -----------------------------
(***************************************************************************)
(* The serial NAT in the test bench src/nat_tb.v, which sends an array of  *)
(* tuples word by word and collects the connection IDs.  The bench holds   *)
(* tuple_valid_i and conn_ready_i high; here both sides may also pause,    *)
(* as the handshake of src/nat.v:55-58, 94 provides for.                   *)
(***************************************************************************)
EXTENDS SerialNat, Sequences, FiniteSets

CONSTANTS
    Arrays,     \* the arrays of tuples the bench may have made (lines 32-52)
    None        \* no answer is shown

\* No tuple is all zero; the bench's $random makes one with odds of 2^-104.
ASSUME ArraysAssumption == Arrays \subseteq Seq(Tuple5 \ {Zero})

\* NUM_TUPLES is id_space: the table never fills (lines 3 and 21 of the two files).
ASSUME ArrayLengthAssumption == \A array \in Arrays : Len(array) <= IdSpace

VARIABLES
    tuples,         \* src_ip_buffer .. protocol_buffer
    send_state,     \* the word being offered
    tuple_index,    \* the tuple being offered
    conn_buffer,    \* the connection IDs received
    probes          \* history: edges in state 4 for the tuple in hand, capped above 2 * IdSpace

benchVars == <<natVars, tuples, send_state, tuple_index, conn_buffer, probes>>

NumTuples == Len(tuples)

BenchInit ==
    /\ SerialInit
    /\ tuples \in Arrays
    /\ send_state = 0 /\ tuple_index = 1
    /\ conn_buffer = << >>
    /\ probes = 0

\* tuple_data_i (lines 74-79, 84-97); after the last tuple nothing is left.
Offered ==
    LET t == tuples[tuple_index]
    IN  CASE send_state = 0 -> t.srcip
          [] send_state = 1 -> t.dstip
          [] send_state = 2 -> <<t.srcport, t.dstport>>
          [] send_state = 3 -> t.protocol

send_tuple(valid) ==
    IF valid /\ tuple_ready_o
    THEN /\ send_state' = (send_state + 1) % 4
         /\ tuple_index' = IF send_state = 3 THEN tuple_index + 1 ELSE tuple_index
    ELSE UNCHANGED <<send_state, tuple_index>>

recv_result(ready) ==
    conn_buffer' = IF conn_valid_o /\ ready THEN Append(conn_buffer, conn_data_o)
                                            ELSE conn_buffer

BenchEdge(valid, ready) ==
    /\ Len(conn_buffer) < NumTuples
    /\ valid => tuple_index <= NumTuples
    /\ Edge(valid, IF valid THEN Offered ELSE None, ready)
    /\ send_tuple(valid)
    /\ recv_result(ready)
    /\ probes' = CASE state = 4 -> IF probes > 2 * IdSpace THEN probes ELSE probes + 1
                   [] state = 5 -> probes
                   [] OTHER -> 0
    /\ UNCHANGED tuples

BenchNext == \E valid, ready \in BOOLEAN : BenchEdge(valid, ready)

\* The bench never pauses for ever: it offers what is left and takes results.
BenchSpec ==
    /\ BenchInit
    /\ [][BenchNext]_benchVars
    /\ WF_benchVars(BenchEdge(tuple_index <= NumTuples, TRUE))

-----------------------------------------------------------------------------
(***************************************************************************)
(* Properties.                                                             *)
(***************************************************************************)
RegistersOK ==
    /\ state \in 0 .. 5
    /\ tuple_buffer \in Tuple5
    /\ conn_mem \in [Entries -> Tuple5]
    /\ loc_to_probe \in Positions
    /\ conn_data_o \in Entries
    /\ send_state = IF state < 4 THEN state ELSE 0
    /\ tuple_index \in 1 .. NumTuples + 1
OutputOK == conn_valid_o \in BOOLEAN /\ (conn_valid_o <=> state = 5)

\* Type invariant; it also says that bench and NAT agree on the word in hand.
BenchTypeOK == RegistersOK /\ OutputOK

\* "the same tuple should have the same result, different tuples should have
\* different results" (src/nat_tb.v:118-119), whatever lies between the two.
ResultsIdentifyTuples ==
    \A i, j \in DOMAIN conn_buffer :
        tuples[i] = tuples[j] <=> conn_buffer[i] = conn_buffer[j]

\* Exactly one result per tuple, in the order sent: while a tuple is in hand its
\* result is the next one, and it is the index of the entry that holds the tuple.
ResultsInOrder ==
    /\ Len(conn_buffer) = tuple_index - (IF state \in {4, 5} THEN 2 ELSE 1)
    /\ \A i \in DOMAIN conn_buffer : conn_mem[conn_buffer[i]] = tuples[i]

\* A search visits each position once at most, those past the end of the table
\* included (lines 51, 109).
ProbesBounded == probes <= 2 * IdSpace

\* Every tuple is answered.
AllAnswered == <>(Len(conn_buffer) = NumTuples)

\* "At worst cases, it may need 4+table_len cycles" (src/README.md:7): four words
\* and one probe per entry of the table.
WorstCase == probes <= Cardinality(Entries)

\* The serial NAT is the outbound side of the abstract NAT: an ID is bound to a
\* tuple on first use, to no other tuple, and never changes.
Bound == {e \in Entries : conn_mem[e] # Zero}
IdOf  == [t \in {conn_mem[e] : e \in Bound} |-> CHOOSE e \in Bound : conn_mem[e] = t]
Shown == IF conn_valid_o THEN [conn |-> tuple_buffer, port |-> conn_data_o] ELSE None

Service == INSTANCE NatService WITH
    Conns <- Tuple5 \ {Zero}, PublicPorts <- Entries, None <- None, bindings <- IdOf,
    txAnswer <- Shown, rxAnswer <- None

ImplementsService == Service!Spec

-----------------------------------------------------------------------------
\* The inductive invariant.  The entries probing passes from a hash to a position,
\* which may lie behind the last entry:
EntriesPassed(from, to) ==
    {e \in Entries : IF from <= to THEN from <= e /\ e < to ELSE from <= e \/ e < to}

Distinct == \A d, e \in Bound : conn_mem[d] = conn_mem[e] => d = e
NoHoles  == \A e \in Bound : EntriesPassed(SerialHash[conn_mem[e]], e) \subseteq Bound
Frontier ==
    state = 4 => \A e \in EntriesPassed(SerialHash[tuple_buffer], loc_to_probe) :
                    conn_mem[e] \notin {tuple_buffer, Zero}

\* The buffer has the words taken so far; what was found holds the whole tuple.
InHand ==
    /\ state \in 1 .. 3 => /\ tuple_index <= NumTuples
                           /\ tuple_buffer.srcip = tuples[tuple_index].srcip
    /\ state \in 2 .. 3 => tuple_buffer.dstip = tuples[tuple_index].dstip
    /\ state = 3 => /\ tuple_buffer.srcport = tuples[tuple_index].srcport
                   /\ tuple_buffer.dstport = tuples[tuple_index].dstport
    /\ state \in 4 .. 5 => tuple_index > 1 /\ tuple_buffer = tuples[tuple_index - 1]
    /\ state = 5 => conn_mem[conn_data_o] = tuple_buffer

SerialInv ==
    /\ tuples \in Seq(Tuple5 \ {Zero})
    /\ conn_buffer \in Seq(Entries)
    /\ RegistersOK /\ OutputOK /\ Distinct /\ NoHoles /\ Frontier /\ InHand /\ ResultsInOrder
=============================================================================
