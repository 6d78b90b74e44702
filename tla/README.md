# A verification development for the FPGA-accelerated NAT

The program translates the source port of TCP packets in hardware. Verilog modules
sit on the two packet streams between a network card and the processor; they
look up a shared connection table and write the port it answers into the packet.
This directory holds TLA+ models of those modules and of the test bench around
them, the configurations that check the models with TLC, and theorems proved with
TLAPS.

## 1. Inventory

### Parts and how they interact

| part | source | state | operations | modelled by |
|---|---|---|---|---|
| connection table | `hash_ip.v` | stage, latched key, probe position, two tables of entries, connection counter, two answer ports | accept a request of port 0 or 1, search, insert, answer, reset | `NatTable`, `NatService` |
| tuple hash | `hash_ip.v:86-90, 114` | none | XOR of the tuple, cut to `hash_len` bits | `TupleHash` (numbers), `HashBits` (bits) |
| packet and tuple layout | `tuple5.h`, slices of `our_ip.v` and `hash_ip.v` | none | read and write a tuple in the bytes of a packet, reverse it, order it, exchange the bytes of a port | `TupleWire`, `NatWire` |
| packet rewriter | `our_ip.v` | header registers, word counter, held beat, request flag | pass, parse, hold, rewrite, reset | `Rewriter` |
| system | `3ip_test.v` | wires | tx rewriter on port 0, rx rewriter on port 1, one clock | `NatSystem` |
| system test bench | `3ip_testbench.cpp` | queues of packets to send and received, pauses | propose a beat, collect beats, turn a packet round, judge | `StreamEnds`, `NatSystem`, `PacketCheck` |
| one-direction bench | `testbench.cpp` | a list of packets, the bytes still to send and those received, a cycle count | `test_arp`, then `test_ip`: send, collect, judge | `OneWayBench`, `Rewriter`, `PacketCheck` |
| serial NAT | `nat.v`, `nat_tb.v` | serial input state, tuple buffer, one table; arrays of tuples and results | collect four words, probe, deliver an index; send, receive, verify | `SerialNat`, `SerialBench` |
| pipelined NAT | `pipeline.v` | the same in three stages | unfinished prototype, in no build target | no (section 6) |
| echo programs | `test_client.c`, `test_server.c` | a packet under way; a buffer | send, wait for the echo, compare; take a frame, exchange its ends, send it back | `HostPrograms` |
| throughput programs | `perf_test/*.c` | threads on one socket, a count each; a buffer each | send without waiting, report; take a frame, exchange its ends | `HostPrograms` |
| other Verilog benches, lock example | `our_ip_tb*.v`, `verilog-example-lock/` | | | no (section 6) |

A rewriter raises `tuple_valid` with a 5-tuple and stops its input (`our_ip.v:107-112`).
The table takes one request at a time, when it is in stage 0, port 0 first; it
answers with `conn_valid` high for one edge (`hash_ip.v:122, 142`), which
the rewriter takes as the answer to its request (`our_ip.v:124-130`). Nothing else ties an
answer to a request. In the test bench the outbound stream is returned with
source and destination exchanged to the inbound rewriter, so that every packet comes back.

The C programs run at the two ends of the real link, through the NAT on the board: a client
on the host, a server behind the card. They meet only in the frames they exchange. `HostPrograms` has the link
without the NAT; what the NAT does to packets that come back is `EchoRestoresPort` of `NatSystem`: nothing the client sees. All threads of
a program use one raw socket, on which frames of others arrive as well.

The serial NAT is the first prototype and stands alone: its bench hands it a tuple in four
words under a valid/ready handshake and takes the index of the tuple's entry, the connection
ID, under a second one.

### What is hard

* **One table, two clients, no tags.** Requests come at any edge of a search of
  the other side. One set of key registers serves both.
* **The answer precedes the insertion.** A new connection is answered in stage 1;
  its reverse entry is written in stage 2, after the packet may have left.
* **Requests outlast their answers by an edge.** `tuple_valid` is still high when the
  answer is read; `tuple_ready` low for that one edge prevents a second service.
* **Wrap-around** of the probe position and of the connection counter.
* **Reset** clears half of the registers.
* **Searches without an exit**: full table, unknown inbound packet.
* **Two blocks that assign one register.** `nat.v` drives `state` from two `always` blocks, one
  per half of its values, and hashes the last word on the edge on which it is stored.
* **A position register wider than the table** (`nat.v:51`): the search wraps late.
* **Holding a beat** inside a stream with pauses, without losing or repeating one.
* **Last beats that are not full**: which of the eight lanes carry a byte.
* **Three byte orders**: ports lie high byte first in a packet, registers hold them exchanged, an
  answer is written into the high byte of a register, and the two hashes of a connection (of the
  request, and of the registers for its reverse) must still agree.
* **Test verdicts**: a loop with a limit of cycles, a map filled while it is read, replies behind
  the packets in one list.
* **Stop and wait without a timeout**, on a socket that also delivers frames of others, shorter
  packets that Ethernet pads, and longer ones that a server has no room for.
* **Threads** of one program: one socket, one exit, a report that is a product and not a count.

`PROJECT.json` lists each hazard with its line and the properties aimed at it.

### What makes each part correct

* table: a connection has one port until reset, no two share a port, the two
  tables mirror each other, probing finds every entry, an answer is the
  mapping of the key asked about, a search that can succeed ends;
* rewriter: streams come out beat by beat as they went in, but for the port of
  translated packets, and headers are parsed from the right words;
* system: all packets of a connection leave with one port, replies come back with the
  original port, nothing waits for ever;
* layout: what is written is what is read, by the programs and by the Verilog slices; the reverse of
  the reverse is the tuple; the order of tuples is one; a reply is looked up where it was entered;
* answers as bytes: replies find the way back for every connection whose index fits the byte it leaves with;
* verdicts: accepted exactly if packets of one connection, and no others, share a port; a function of the packets
  sent and not a matter of pauses;
* programs: unless others send what looks like one, the client takes no frame for a reply but the reply to its last
  packet, and finds no fault with that; the report is true; a thread's buffer holds the reply to the frame the thread took;
* serial NAT: one result per tuple, in order, equal results exactly for equal tuples,
  and no search without an end while entries are free.

## 2. Modules

| module | what it is |
|---|---|
| `NatService` | abstract specification: a one to one binding of connections to ports, and answers on two sides |
| `NatTable` | `hash_ip.v`: one step per clock edge, one action per branch of the `case`; the inductive invariant |
| `TupleHash` | the XOR hash, used by the model-checking instances only |
| `Rewriter` | `our_ip.v`: one record variable, one action per branch |
| `StreamEnds` | the four `rising_edge` methods of the test bench |
| `NatSystem` | two `Rewriter` instances, the table and the stream ends on one clock, and the verdict of `test_ip` |
| `NatArbiter` | `NatSystem` with a history variable that counts services a waiting inbound request sees pass |
| `TupleWire` | a 5-tuple in the bytes of a packet: `tuple5.h`, and the slices and exchanges of bytes in `our_ip.v` and `hash_ip.v` |
| `NatWire` | `NatTable` with the one byte that carries its answers |
| `HashBits` | the two hashes of a connection, bit by bit |
| `PacketCheck` | `exact_compare` and `check_nat_funtionality`; parameters say how a packet is read |
| `OneWayBench` | `testbench.cpp` around one `Rewriter`, on bytes |
| `HostPrograms` | the two clients, the two servers and the link |
| `SerialNat` | `nat.v`: one action per branch of the two `always` blocks |
| `SerialBench` | `nat_tb.v` around `SerialNat`, with pauses on both sides; the properties of both |
| `MCNatTable`, `MCNatSystem`, `MCNatArbiter`, `MCOneWayBench`, `MCHostPrograms`, `MCSerialBench` | instances for TLC |
| `NatTableProofs` | the table: its inductive invariant, its properties, the refinement of `NatService` |
| `NatStreamProofs` | one rewriter between a sender and a receiver, for any packets: what an edge may do, and that the stream stays whole |
| `NatSystemProofs` | the composition: requests and answers, both streams, ports, the verdict of the test |
| `OneWayProofs` | the one-direction bench on bytes |
| `TupleWireProofs`, `PacketCheckProofs` | the layout of bytes; what the check of the tests accepts |
| `HostProofs` | the programs |
| `SerialProofs` | the serial NAT: its properties, the length of a search, the refinement of `NatService` |

### Correspondence to the code

*A step is a rising edge.* Non-blocking assignments of all `always` blocks take effect
together, so an edge of the system is the conjunction of one action of the table and
one of each rewriter, each reading unprimed values: what the others
showed before the edge. The test bench code after the edge (`3ip_testbench.cpp:345-348`)
reads primed values. Later assignments of a block override earlier ones; each
action states the values that remain. The negative edge changes nothing.

*Table.* `stage`, `loc_to_probe`, `replace_port`, `next_conn_idx` and the answer registers
have their names. The five key registers are one record `key`. `Empty` is
the all-zero entry, `X` the contents of a register nothing has written. In
`NatTable` alone the request ports are inputs of the step: any tuple of `TxTuples`
or `RxTuples`, or none, on any edge, withdrawn at will. That is more than the
rewriters can do, and the safety properties and all proofs hold for it.

*Rewriter.* A beat carries its packet, the number of its word and `tlast`; the packet's header
fields are in the record, so that a rewritten beat differs from the original in one field.
`dst_ip` is loaded in two halves (`our_ip.v:101, 104`): between the two it is `TornHost`,
unless both packets have the same address.

*Test bench.* Senders pause 0 to 2 edges after each beat (`rand() % 3`).
They test `tready` after the edge has updated it, which is why a held beat counts as taken
only when the answer has come.

*Layout.* A packet is a function from offsets to bytes and a field the function of its bytes in memory
order, as the pointers of `Packet` see it on a little-endian host. `HeaderTuple` reads the same fields through
the bit slices of the words; that both agree is a theorem. `HashBits` has the tuple as 104 bits, as the
concatenation of `our_ip.v:49` lays them out, and both hashes with the width their registers have.

*Verdicts.* The loop of `check_nat_funtionality` fills `nat_table` while it goes through the packets; `Known`
is what the map holds when it comes to packet `i`. `NatSystem` applies the verdict to lists of beats,
`OneWayBench` to bytes.

*One-direction bench.* One step is one round of the loop of `process`. The instance of the table that the rewriter
once had is a comment (`our_ip.v:24-34`), so `conn_valid_i` stays low; the bench offers no packet that asks. The
make target `verl` names two files with a `top`; the model takes the bench with the rewriter it drives.
A second test runs with a new design and a new stream, and only if the first passed.

*Programs.* A step is a call of `send` or `recv` with what the loop does up to the next; nothing else touches the
state in between but what is a step of another thread, and the two halves of a server's loop body are two steps. A
frame is its EtherType, 5-tuple, payload and length, and who first sent it (`from`, which no program looks at);
`taken`, `handed` and `misled` are history variables. Every call may fail, and
`exit` in one thread ends them all. The link is external: it keeps the order, may lose the first frame of a
queue, pads to 60 bytes, and delivers frames of others to either program, of any EtherType and length.

*Serial NAT.* An edge is one of `Collect` (states 0 to 3), `Found`, `ProbeOn` (state 4), `Deliver`,
`AwaitReady` (state 5). `conn_mem` has the `id_space + 1` entries of line 24; a
position behind them reads as X in the code and matches nothing, which is what `Matches` says. In the bench
`tuple_valid_i` and `conn_ready_i` are constantly high; `BenchEdge(valid, ready)` lets either side pause on any edge, and
`BenchEdge(TRUE, TRUE)` is the bench as written, but for the
words past the end of its arrays that it offers while the last result is under way. `probes` is a history variable, read by
`ProbesBounded` and `WorstCase` only.

*Faulty variants.* An operator named `<definition>_<bug>` differs from
`<definition>` as a plausible slip of the code would (a dropped reset, a missing wrap,
an old value). No specification uses it; it is what each property is tried against.

### Abstractions

* The protocol field is left out of the keys of `NatTable`: only TCP requests are made (`our_ip.v:107`).
  It is also why no key equals the all-zero word: field 7:0 of every entry is 6.
* In `NatTable` ports are numbers. The code keeps them in network byte order and places an answer in
  the high byte (`hash_ip.v:116`). Up to `hash_len` 8 that is a renaming: `AnswersFitOneByte`, `PortsAreRestored` and
  `ReplyHashIsInsertionHash` are the theorems that say so. From 9 on it is not: `BytesLeadBack` says that replies then find
  exactly the connections whose index fits the byte, and `LongHashesDiffer` has tuples that are entered under one hash and looked up under another, as the comment of
  line 25 warns. The report configures 1024 entries (`eval.tex:10`), which is `hash_len` 10.
* In `NatSystem` addresses, MAC headers and payload are model values, and the number of a word stands for its bytes.
  `OneWayBench` has the bytes, with the MAC addresses among the random ones.
* In `HostPrograms` MAC addresses and the contents of a payload (a letter that depends on the packet) are one value.
  A server exchanges MAC addresses as well; the client does not compare them.
* In `SerialBench` the random tuples of `init_arrays` are lists over a constant set without the all-zero
  tuple, which `nat.v:23` reserves; the assumption `ArraysAssumption` says so.

## 3. Runs

| run | instance | checks | result |
|---|---|---|---|
| `nat_table` | table of 4, 3 connections of which 2 collide, replies to 4 keys, some of no connection; reset at any edge | type, unique and sequential ports, unique keys, mirror, probing, answers, which replies the byte of the answer leads back, refinement of `NatService` | holds, 81 409 states |
| `nat_table_full` | table of 2, 3 connections | ports after the counter wraps; searches that can succeed end; insertions end | holds, 3 738 states |
| `nat_system` | table of 4, all 160 lists of 3 packets of 6 kinds with at most one that is neither ARP nor translated, all pauses | requests are of the packet held, headers aligned, streams intact, one port per connection, echo restored, replies known, which lists the test accepts, all packets back | holds, 440 738 states |
| `one_way` | 2 packets of 54, 56 or 153 bytes in each test, all pauses | type, bytes in order, the limit of cycles is enough, `test_arp` passes, for which lists `test_ip` passes, both tests end | holds, 263 140 states |
| `host_programs` | both clients with both servers, 2 sending and 2 receiving threads, 3 packets, 2 connections, one frame lost and one of others | type, stop and wait, replies accepted, report true, buffers hold replies, clients end | holds, 539 958 states |
| `serial_nat` | hash of 4 values, all 625 lists of 4 tuples of 5, all pauses | type, equal results for equal tuples, order of results, length of a search, every tuple answered, refinement of `NatService` | holds, 18 730 states |
| `full_table_search` | as `nat_table_full` | every outbound search ends | violated |
| `unknown_inbound` | table of 4, 1 connection | every inbound search ends | violated |
| `stale_request_after_reset` | `nat_system` with resets | a held packet takes the answer to its own request | violated |
| `test_ethertype` | 3 TCP packets as the test generates them | they leave with the number of their connection | violated |
| `round_robin` | table of 16, 13 colliding new connections, no pauses | a waiting inbound request is passed by one service at most | violated |
| `serial_latency` | as `serial_nat` | a search takes no more probes than the table has entries | violated |

Each violated run checks a statement of the report, or of the test, against what the
code does; section 5 explains them.

### Bounds and why they suffice

* `TableSize` 4 has chains of two and three entries, chains across the end of the
  table and holes; 2 fills up and lets the counter wrap. The invariants of the table are proved for every
  size (section 4). The code has 64.
* Three connections: two that collide and one on another host, so that hit, insert and
  probe occur in both tables with other keys in between.
* `ByteSize`, the number of values of a byte, is 2 where the code has 256, so that a table of 4 has indices
  beyond it, as one of 1024 has in the code; the theorem is for every size of both.
* Three packets of seven words, the shortest the test sends (54 bytes): one may
  be held while the one before it is on its way back. The six kinds are two colliding
  connections, a third to another host, ARP, UDP of the translated EtherType, and TCP of another EtherType, with the
  port the test expects of a second connection: an untranslated packet may spoil the verdict or, by chance, not. One of the
  last two kinds in a list is enough for either; three are in `test_ethertype`.
* `PayloadWord` (5) caps the word counter at the first word the parser ignores.
* `Naps` 0 to 2 is the whole range of the code.
* `round_robin` needs a chain long enough to outlast the rest of a packet, hence 16 entries.
* `serial_nat`: hashes 0 to 3, entries 0 to 4, positions 0 to 7. Of the five tuples three hash to 3,
  so that the third goes through the positions 5 to 7 and round to entry 0, and two hash to 0, where it
  may find them; two differ in the protocol only. Four tuples never fill five entries, as the
  1024 of the bench (`nat_tb.v:3`) never fill the 1025 of the code. `probes` is capped above twice the size of the hash range.
* In `nat_system` the cycle limit of the loop (`MAX_SIM_CYCLE`) is left out: the run shows
  that the loop ends without it. In `one_way` it is the limit of the code, 100 or 96 cycles a packet.
* `one_way`: 54 bytes end in a beat with six bytes, 56 in a full one, 153 is the longest packet the
  tests make, the case for the limit. Two packets have a boundary between them. The two tuples
  have the ports that the verdict expects of a first and of a second connection, so that `test_ip` passes for some lists and not
  for others, and ARP packets before a first packet must not be counted.
* `host_programs`: payloads of 0 (padded), 128, and 4800 bytes (longer than a server's buffer; only the throughput
  client sends them). Three packets take both connections in turn, one of them twice. `MaxLost` and `MaxForeign` are 1: a lost
  frame in either direction and one of others at any time to either program: ARP, a frame of 9000 bytes, UDP of the EtherType of the
  test, or a copy of the first packet's echo.

### Fairness

`FairSpec` has weak fairness of a clock edge without reset: the clock is free running, and
reset is not required to come, nor excluded. `SystemSpec` has weak fairness of `Tick`, the simulation
loop. No fairness is asked of the choice between ports, packets or pauses; a liveness
property that holds does so whatever the other side does.

`BenchSpec` has weak fairness of the edge on which the bench offers what it has left and takes
results: `nat_tb.v` holds both signals high (lines 5, 78), so it never pauses, and the
model's pauses may not go on for ever.

`OneWaySpec` has weak fairness of the loop and of the steps of `main`. `HostSpec` has weak fairness of each program: no process
stops for ever where it could go on. Errors of `send` and `recv` are allowed and never required; neither is loss. That
is why `ClientEnds` says of `test_client`, which has no timeout, only that it ends unless a frame is lost or the server ends.

`nat_system` and its variants, `one_way` and `host_programs` stop when all packets are back, when the tests have
ended, or when a client waits for a reply that is lost; they are checked without deadlock
checking, and `AllEchoed`, `BothTestsEnd` and `ClientEnds` state how far they get.

### Assumptions about the surroundings

`ForeignAssumption` of `HostPrograms`: frames of others are frames of Ethernet. They may be of any kind, TCP of EtherType 0x0900
included, which the server turns round and the client cannot tell from its own. `Misleads` names what the client's receive loop
does not skip, EtherType 0x0900 or 8192 bytes and more, and the two properties of the client are about the time
before it has received such a frame (`misled`). A socket does not deliver a program its own frames (external).

## 4. What is proved

Every invariant that a passing run checks, and both refinements, are stated by a theorem here.

### The table

`NatTableProofs` proves, for every table size above 1, every hash function, every
set of requests, and with resets at any time, that the table's specification implies

| theorem | property |
|---|---|
| `TypeCorrect` | `TypeOK` |
| `PortsAreUnique` | `UniquePorts` |
| `PortsAreSequential` | `SequentialPorts` |
| `KeysAreUnique` | `UniqueKeys` |
| `EntriesAreReachable` | `NoHoles` |
| `TablesAreReverse` | `TablesMirror` |
| `AnswersAreCorrect` | `AnswersMatchTables` |

with `TableImplementsService`: every behaviour of the table is one of `NatService` under the
mapping `BoundPort`, `ShownTx`, `ShownRx`; and `BytesAlwaysLeadBack` (`BytesLeadBack`): a reply to the byte a connection left
with finds its reverse entry and its port if and only if the index fits the byte. That it does not otherwise needs
`UniquePorts`: the remainder is the index of another connection, or of none.

*Assumptions* (`NatTable`): the table has more than one entry, indices are ports, the hash
of a key is an index, requests are tuples, and the sentinels `Empty`, `X`, `NoTuple` are none of the values
they stand beside.

*The argument.* None of the properties is inductive alone. `IInv` adds
what the registers owe to the steps before:

* `IndexCount`: `next_conn_idx` is the number of used entries, except that it is one
  behind during stage 2 and 0 when the table is full. Without it a new connection
  could be given a port in use. It makes `SequentialPorts` and `UniquePorts` inductive: an insertion happens
  only at an empty entry, so the table is not full and the counter is the count.
* `Frontier`: all entries between the hash of the key and the position looked at are taken, by other
  keys. It gives `NoHoles` after an insertion, and with `NoHoles` that an insertion happens only
  when no entry has the key (`UniqueKeys`): the key's entry would lie beyond a hole.
* `Pending`: during stage 2 the connection that waits for its reverse entry is in the tx table,
  and no reverse entry carries its port.
* `Written`: the index and port of a used entry are not left over from before it was
  used, although reset does not clear those arrays.

`Inductive` proves `IInv` from `TableInit` and preservation action by action; the arithmetic of
wrapped intervals is in lemmas about `Passed` and `Succ`, the counting in lemmas
on cardinalities from `FiniteSetTheorems`. The refinement theorem maps `TxInsert` to `Bind`,
`TxHit` and `RxHit` to `AnswerTx` and `AnswerRx`, `ResetEdge` to `Clear`, and everything else to `Silent`
or a stutter; it needs `UniqueKeys` for the binding to be a function and `TablesMirror` for inbound answers.

### The serial NAT

`SerialProofs` proves, for every `IdSpace` above 1, every hash function, every list of tuples
and all pauses, `BenchTypeCorrect` (`BenchTypeOK`), `ResultsAreInOrder` (`ResultsInOrder`) and
`ResultsAreIdentities` (`ResultsIdentifyTuples`), `SearchesAreBounded` (`ProbesBounded`) and
`SerialImplementsService` (`ImplementsService`). The invariant is `SerialInv`: that different
entries hold different tuples (`Distinct`) needs `NoHoles`, that the entries between the hash of a
tuple and its entry are taken, and `Frontier`, the same of the search under way; *between* is `EntriesPassed`, which skips the
positions behind the table. `InHand` ties the words taken so far, and the result shown, to the tuple the
bench has sent, which is what makes the results come in order. `FoundTable` is the heart: a
search that ends at an empty entry has passed every entry that could hold the tuple. In the refinement
`Found` is `Bind` or `AnswerTx`, everything else `Silent` or a stutter.

The length of a search needs one more invariant, `ProbesInv`: in state 4 the position is the hash plus
the number of probes, around twice the hash range (`Wrapped`), and every entry holds one of the tuples sent.
Were there as many probes as positions, every entry would have been passed and be taken
(`LastOfRound`); but there are `id_space + 1` entries and at most `id_space` tuples, each in one entry
(`TableHasRoom`). That is `ArrayLengthAssumption`: `nat_tb.v` sends `NUM_TUPLES` = `id_space` of them. Without it
the property is false, as the search has no other exit.

### The two rewriters, the table and the bench

`NatStreamProofs` and `NatSystemProofs` are about the composition, for every table, hash function, list of
packets and all pauses, without reset.

*Assumptions* (`NatSystem`), beside those of the table: the bench sends lists of packets (`IngressAssumption`; a packet
has the seven words of its headers at least, `3ip_testbench.cpp:535`), pauses are `rand() % 3` (`NapsAssumption`), and the value for
"nothing on the stream" is no beat (`NoBeatAssumption`).

| theorem | property |
|---|---|
| `SystemTypeCorrect` | `SystemTypeOK` |
| `EveryRequestIsCurrent` | `RequestsAreCurrent` |
| `HeadersAreAligned` | `HeaderAligned` |
| `StreamsAreIntact` | `StreamsIntact` |
| `RepliesFindTheirEntry` | `RepliesAreKnown` |
| `EchoesHaveTheirPort` | `EchoRestoresPort` |
| `OnePortPerConnection` | `SameTupleSamePort` |
| `TestComesToThis` | `TestVerdict` |

*The argument.* `SystemInv` (`SystemIsInductive`) is the table's `IInv` with

* `Handshake`, for each side: while the table searches for a rewriter, and on the one edge that shows the answer,
  the rewriter holds the beat and its registers have the tuple searched for; on that edge `tuple_ready`
  is low, which keeps the table from taking the request again. Without that last part it is not inductive.
* `Streams`, a `Link` for each direction. It relates a sender, the rewriter and the receiver behind it to the list that is sent: what the receiver
  has not completed the sender still has (`Remaining`), and what the receiver has is what the sender has given away, word for word
  (`Delivered`), so that a held beat, which the sender still offers, is not counted twice. `Reads` says that `byte_cnt` is the number of the word
  the sender has next, or of the one after it while a beat is held, and that the header registers hold the
  fields of the words already read. `Link` is stated for any list of packets, because the echo needs it too, where the
  list is what the outbound receiver has completed so far and grows while it is sent (`Echoes`).

What an edge of a rewriter does is cut down first to four cases (`Works`: pass, hold, answer, pause), and all lemmas
of streams start from these.

`PortsInv` adds what came out, and `ClosedInv` (`ClosedInductive`) is both. `TxPorts`: a packet that has left with a port has an entry
with that port *and that entry is still there*; `RxPorts`: a packet that has come back has its own port; `Ranked`: the
port of an entry is the number of connections before the packet that made it. None is inductive alone. The rank needs
`IndexCount` of the table (the answer to a new connection is the number of entries) and that entries are
made by outbound packets in their order only. `RepliesFindTheirEntry` is the delicate one: the packet leaves
when stage 1 answers and the reverse entry is written in stage 2, so its reply may be on the way before the
entry is there; it is looked up in stage 3 only, to which the table cannot go before it has left stage 2, so the entry that
`TxPorts` gives has its twin in the other table (`TablesMirror`, `Pending`).

`EveryRequestIsCurrent` needs both parts of `SystemInv`: `Handshake` has the key in the rewriter's registers, and `Reads` of `Streams` has the
registers be those of the packet of the held beat, both halves of the address included.

`TestComesToThis` evaluates `check_nat_funtionality` on what came out. A translated packet leaves with the number of *translated* connections
before its own (`NatPort`), any other with the port it had; the check wants of every packet but ARP the number of *all* connections
before its own (`PortWanted`), and of its reply the port it had. The test accepts if and only if these agree. For
lists of ARP and translated packets they do (`TranslatedListsPass`). The test's own lists are of EtherType 0x0800, which is not
translated: finding 4 is that they do not agree there.

### The one-direction bench

`OneWayProofs`: for any number of packets of 54 to 153 bytes, with any bytes, and all pauses,
`OneWayTypeCorrect` (`OneWayTypeOK`), `BytesStayInOrder` (`BytesInOrder`), `TheLimitIsEnough` (`LimitIsEnough`), `ArpTestAlwaysPasses`
(`ArpTestPasses`) and `IpTestComesToThis` (`IpVerdict`), all from `OneWayInv` (`BenchIsInductive`).

*Assumptions* (`OneWayBench`): lengths, bytes and tuples are those the generators can make (`LengthsAssumption`,
`FillsAssumption`, `TuplesAssumption`), `CountAssumption`, `NapsAssumption` and `NoBeatAssumption` as above, and
`LimitsAssumption`: the limit is at least 60 cycles a packet. The code has 100 and 96 (`testbench.cpp:298, 437`).

`Forwards` says that the rewriter never asks and never stops: no packet of this bench has the EtherType it translates. `Stream` says that the
list sent is what the receiver has completed and what the sender still has, and that the packet under way is with the receiver up to the byte
the sender has come to. `InTime` is a
potential: every eight bytes that have left pay for three cycles - one for the beat, two for the longest pause - the beat on
offer and the pause still to come are credit and debt (`Spare`), and a packet has at most 160 bytes in whole words. So after
`n` cycles enough has left, and when the limit is reached everything has. Without the
potential the limit is not inductive: the count of cycles alone says nothing about the stream. `Judged`: a verdict, once given, is the one
about the packets *sent*, since those received are the same.

### Bytes and verdicts

`TupleWireProofs` proves the facts about bytes: `ApplyWritesTheTuple`, `RewriterReadsTheTuple`, `EchoOfEchoIsTheOriginal`, `MapOrderIsSound`
(a strict total order, which `std::map` needs), `AnswersFitOneByte`, `PortsAreRestored`,
`ReplyHashIsInsertionHash` and `LongHashesDiffer`. They have no state; they are what lets `NatTable` use numbers
for ports and one function `Hash` for both hashes.

`PacketCheckProofs` proves `AcceptedIsOneToOne`: in any lists that `check_nat_funtionality` accepts, two packets have one
port if and only if they have one connection, and `MappedByPorts`: for packets whose answers depend on their connection only, the
loop's map check is `PortWanted`. The verdicts of both benches are evaluated through it.

### The programs

`HostProofs` proves, for every number of threads, packets, connections, lost frames and frames of others:

* `BuffersHoldReplies` (`BuffersAreReplies`). The invariant, `NetworkOK`, says what is in the queues (frames) and what a
  thread has in hand: between the two steps of the loop the frame as it was taken, after them its reply. The frames may be anyone's.
* `OneIsOutstanding` (`OneOutstanding`) and `EveryReplyIsAccepted` (`RepliesAreAccepted`). The invariant,
  `StopAndWait`, says that the test packet is at one place (`AtOnePlace`: in the queue to the server, in the hand of its thread, in
  the queue back, or lost), and what it is there (`IsLastPacket`: the packet sent last, its bytes, its padded length, then its reverse). Neither
  is inductive without the other: the client takes what arrives for the reply because nothing else of its own is on its
  way, and sends the next because nothing is left behind. Both hold until the client is `misled`; after that an old echo may meet a newer packet.
* `HostTypeCorrect` (`HostTypeOK`). `HostInv` adds that the client waits inside its loop only, so that `i` stops one after `pktcnt`.
* `ReportsAreTrue` (`ReportIsTrue`). The invariant, `Counted`, has `handed[k]` as the number of turns taken so far that fall to
  connection `k`; when all threads are joined these are the pairs of a thread and a turn of `k`.

### Only model-checked

* Liveness: `SearchesEnd`, `InsertionEnds`, `AllEchoed`, `AllAnswered`, `BothTestsEnd`, `ClientEnds`. The prover has no ENABLED, which
  fairness is about. `TheLimitIsEnough` and `SearchesAreBounded` are the safe part of two of them: a bound on the cycles, and on the probes.
* The statements that section 5 refutes, which are false.
* `TupleHash` and the constants of the instances: the proofs hold for any hash function. With resets only the table is proved; the
  composition is not (finding 3 is what goes wrong there).

## 5. Findings

1. **`unknown_inbound`.** Stages 1 and 2 stop at an empty entry; stage 3 does
   not (`hash_ip.v:140`). An inbound TCP packet that answers no
   connection is looked for until reset, and the outbound side waits with it. The report gives a
   maximum latency of table size times cycle time (`eval.tex:21`).
2. **`full_table_search`.** With all entries taken, a new connection meets neither
   its key nor an empty entry (`hash_ip.v:108`). The report gives the same
   bound "even" for load factor 1. Entries are never removed, except by reset.
3. **`stale_request_after_reset`.** `our_ip.v:64-69` does not clear `tuple_valid`.
   Whoever resets the design in the middle of a lookup gets the old request again.
4. **`test_ethertype`.** `test_ip` sends EtherType 0x0800; the rewriter translates 0x0900.
   Test and code do not fit at this commit.
5. **`round_robin`.** The arbiter is a fixed priority with one edge of mercy, and
   that edge is lost when the table is inserting. It needs long probing chains, and
   the outbound side never passes by more than the load of the table allows.
6. **`serial_latency`.** The probe position of `nat.v` has one bit more than the hash and is
   never brought back at the end of the table (`nat.v:51, 109`): a search that passes the last entry
   looks at `id_space - 1` positions without an entry first. Results are right, but
   "At worst cases, it may need `4+table_len` cycles" (`src/README.md:7`) is not.

Smaller observations, which no run is about:

* `test_arp` of `3ip_testbench.cpp` is never called. It would fail: it compares n packets with the
  2n that `process` returns.
* `test_client.c` announces `pktcnt` packets and its loop (line 186, `<=`) sends one more.
* `perf_server.c` has the comment "send the pkt back" (line 79) and the call below it is one too, so a
  throughput test counts packets handed to the socket and not packets returned. `ReportIsTrue` says that much.
* `run.sh` starts the throughput client under the name `test_server.elf`, with payloads up to 8000 bytes, of which
  a server's buffer takes 4096.
* Packets shorter than 60 bytes come back padded, and `test_client` then fails on the length
  (`RepliesAreAccepted` has that exception); its default payload of 128 bytes is long enough.

## 6. What is not modelled, and why

* `pipeline.v`: an unfinished prototype in no build target and without a bench. `input_valid`, `hash_valid` and `probe_valid` are each assigned
  by two `always` blocks on one edge, in an order that Verilog leaves open, and the next tuple overwrites `tuple_buffer` while
  the last one is still compared with it. Nothing states what it promises in that form.
* `our_ip_tb.v`, `our_ip_tb2.v`: Verilog benches for a rewriter with an earlier list of ports; they do not compile against this one.
* `verilog-example-lock/`: a tool example unrelated to the NAT.
* `test_client.py`: a script that sends a packet through a library.
* The checksum core, MAC and DMA of the report are not in the repository. Back pressure
  of a receiver is not modelled: the rewriter has no `tready` on its output, and the benches' receivers comment theirs out.
* Files, messages, options and the set-up of sockets. Random contents are inputs.

## 7. What is left

1. Proofs: that the composition implements a specification of its own, one list of packets in and one out with a binding between
   them, instead of the properties one by one.
2. Proofs: the number of edges the table takes for an outbound request, as `SearchesAreBounded` does for the serial NAT.
3. A model of `pipeline.v`, should it be finished.
