# A TLA+ development for coding-examples

The repository is a collection of small systems programs. This directory holds
specifications of those that have a state worth checking, the TLC runs that check them,
and TLAPS proofs about the hash table of the flow tracker, the echo servers and their client, the
regular expression engines, the ns-2 scripts and all but one of the small programs. Paths below are relative to the root of the repository.

- [The system](#the-system)
- [Modules and how they correspond to the code](#modules-and-how-they-correspond-to-the-code)
- [Runs](#runs)
- [Fairness](#fairness)
- [Proofs](#proofs)
- [Disagreements between code and text](#disagreements-between-code-and-text)
- [What is not modelled](#what-is-not-modelled)
- [Plan](#plan)

## The system

There is no one program: the components below share no process. What they share is a
kind of problem (a server with many peers, a callback protocol, a machine with threads)
and in one case code: the `crc16` of `src/crc` is copied into the flow tracker, whose hash
it is. The experiments of `src/traffic-gen-ns2` share a generator, and one of them builds the
topology of `src/fattree-ns2` with the same lines.

| Component | State | Operations | What is hard |
|---|---|---|---|
| `flow-tracker` (kernel module) | a hash table of flow entries in lists, `num_flows`, a spin lock; which hooks are registered | the hook on every outgoing packet: `insert_table` (SYN), `delete_table` (FIN, RST), `search_table` and `bytes_sent +=` (all others); load and unload | every CPU runs the hook at once; the search takes no lock; the check and the insertion are two critical sections; `kmalloc` and registration may fail |
| `poll-echo-server` | `clients[]` (fd, revents), `maxi`, `nready` | poll, accept, read, write, close | one process for all; results of `poll` used after accept and close have changed the table; partial writes; descriptors run out |
| `select-echo-server` | `clients[]`, `allset`, `rset`, `maxfd`, `maxi` | the same with `select` | sets indexed by descriptor, and descriptors are used again; FD_SETSIZE |
| `echo-server`, server | parent, children, pending SIGCHLD | accept, fork, echo loop, close, `sig_chld` | signals merge; two processes hold a connection; EINTR; fork fails |
| `echo-server`, client | a line being written, a line being read | fgets, `writen`, `readline` | `readline` sees a newline only at the end of what one `read` returned; the client waits for each line before it takes the next |
| `simple-traffic-gen` | two programs in lock step over a byte stream | sizes one way, messages the other, size 0 at the end | partial reads and writes, buffers smaller than messages, breaking connections |
| `traffic-gen-ns2` | pools of connections per group, global flow counters | arrival of a flow, at-now send, completion callback, end | several events between the count of a pair as busy and its flag; shared counters |
| `incast-ns2` | a barrier: `fin_pairs` against `num_pairs` | warm-up, rounds, callbacks | a round started by the clock while callbacks of the last one are due |
| `regex-vm` | threads on a stack (backtracking) or in lists (Thompson) | one instruction per step | forgotten or repeated threads, loops that read nothing, a full stack |
| `crc` | a register | a byte, bitwise and by table | both must be the same function, and a remainder |
| `py-http-server` | one thread per connection: request so far, body sent so far | recv, parse, send header, chunks, 404 | the request arrives in pieces; sends fail half way; gzip with chunks |
| `ipip` (kernel module) | two hooks on each of two hosts; the MSS each TCP has learnt | encapsulate, lower the MSS of a SYN, decapsulate; load and unload | SYNs repeat and cross; options in any order and of any length; `skb_linearize` fails; hooks come and go in the middle of a connection; packets must fit the MTU |
| `fattree-ns2`, `fattree_empirical.tcl` | nodes and links | three loops that place links by index arithmetic | integer division with odd k or a fractional ratio |
| `netlink-latency` (kernel module and user) | a static socket pointer, a user's inbox | load, unload; send, handler, receive | a message while the module is loaded; an answer for which there is no memory |
| `run-interpose`, `rdma-monitor` | static pointers to the real functions, one shared handle | the first call of a wrapper binds it | threads bind at once; one failing `dlopen` overwrites the handle of another |
| `binary-search-prefetch` | the range searched, the cache lines asked for | an iteration | bounds and the halves; does the prefetch name what comes next? |
| `mem-read-lat` | an array of addresses into itself | shuffle, unrolled walk | the shuffle must keep a permutation; the remainder of the unrolling; an array without an element |
| `traffic-trace-gen` | a distribution read from a file, the trace | `gen_size`, `dist_avg_size`, the loop | the first row, equal rows, a CDF that does not span [0, 1], an average of zero |
| `re2demo`, `pcredemo` | an array of offsets | fill it, print it | more groups than room, groups that took no part |
| `pcredemo`, `hyperscan-test`, `simple-jit-x64`, `kernel-mem-alloc`, `cpu-cache-impact`, the `main` of the two array programs | resources held | acquire, use, release | any call may fail, each way out releases its own set |

The properties that make each component correct are listed with the runs; the hazards
they are aimed at, each at its line, are in `PROJECT.json`.

The programs interact with things outside the repository: the kernel's sockets, netfilter,
TCP, ns-2. These are modelled from how the code uses them, in actions of their own that
`PROJECT.json` marks external, and mostly in one module, `EchoNet`, which three servers
share.

## Modules and how they correspond to the code

A step is the largest piece of code that nobody else can see the middle of: a system call
with the bookkeeping up to the next one in the user programs, an event of the simulator in
the ns-2 scripts, an access to shared memory in the kernel hooks. `PROJECT.json` maps each
definition to its lines.

**`FlowSet`, `FlowTable`** (`src/flow-tracker`). `FlowTable` is the module. `chain[b]` is list b, `heap[n]` the memory of an entry,
`lock` the spin lock, and `pc[c]`, `pkt[c]`, `obj[c]`, `nxt[c]`, `reg[c]` the hook call on CPU c:
`nxt` is the saved successor of `hlist_for_each_entry_safe`, `reg` the value of `bytes_sent` between the load
and the store of `+=`. `insert_table` is InsertCheck, InsertAlloc or InsertNoMemory, InsertLink,
InsertInc; `delete_table` is DeleteUnlink, DeleteFree, DeleteDec, with unlink and kfree apart because
the lockless search may see what lies between them; `search_table` is SearchStart, SearchNext,
SearchCompare. Any packet may be processed on any CPU, and nothing keeps the calls apart but the lock: the model has the search that follows a pointer
into freed or poisoned memory (which sets `fault`), the addition that is lost and the flow that is inserted twice, as the code does. `bytes_sent` wraps at `Wrap`, 2^32 in the code.
`mod` follows `flow_tracker_init` and `flow_tracker_exit`: when the second registration fails the module is gone and its table and first hook stay (StaleHook).

`view[c]` is a history variable and holds nothing of the code. It is set when a search starts, to whether its flow has an entry then, and becomes "overtaken" when `delete_table` unlinks an entry
of the same list, or when another `+=` stores to the entry between the load and the store of this one. `SearchIsAtomic` is stated with it. `FlowSet` is what the table is whatever the CPUs do: how many
entries each flow has, how many insertions are under way (claims), and that a claim begins only while the flow has no entry.

**`EchoNet`, `PollServer`, `SelectServer`, `ForkServer`** (`src/poll-echo-server`,
`src/select-echo-server`, `src/echo-server/tcpserv.c`). `EchoNet` is the kernel and the clients: a queue of
connections, per client two byte streams, FIN, departure without reading, reset. A byte is
its number in the stream, so that losses, repetitions and swaps show. Each server adds its loop.
In `PollServer` the `revents` of a slot no `poll` has covered yet is what the stack or an
earlier client left there. `SelectServer` gives descriptors numbers, the lowest free one
first, as its sets are indexed by them. In `ForkServer` SIGCHLD is one bit, and the
handler reaps one child per step, interrupting the parent only.

**`EchoSession`** (`src/echo-server/tcpcli.c`, `unp.h`) composes `ForkServer` with `str_cli` at the other end: some peers
run the client, the others are those of `EchoNet`. A text on stdin is a length and the places of its newlines; `fgets` takes a line or as
much as fits, `writen` is the Send of `EchoNet` byte by byte, and `readline` a read of as many bytes as there are. `step[p]`, `pos[p]` and `printed[p]` are
where a client is.

**`TrafficGen`** (`src/simple-traffic-gen`). Client and server are one `pc` each; `left` and `moved` are the
variables of `read_exact` and `write_exact`. The bytes of a size carry their value and index, the bytes of a message
are only counted. The server's Accept follows the client's Connect as the kernel allows it. `Programs` runs it.

**`Workload`, `FlowGen`** (`src/traffic-gen-ns2/tcp-traffic-gen.tcl`). `Workload` is the abstract promise: FlowTot flows, each alone on
its connection, and an end exactly when the last is finished. `FlowGen` is the script: `pending` are the at-now sends,
`busy` the pairs whose `is_busy` is set, `signal` and `unsent` the agents of ns-2. An id of -1
leads to the status "error", a Tcl error.

**`RegexProgram`, `Backtrack`, `Thompson`, `RegexMain`** (`src/regex-vm`). `RegexProgram` has the instructions and the meaning
of a program: the configurations that can be reached, defined without any engine. `Backtrack` runs
`backtrackingvm` and `recursiveloop` by the instruction (one keeps its waiting threads on an array, the other on the call stack);
`recursive` is a recursive function they are compared with. `Thompson` runs one thread of
`clist` per step. `RegexMain` composes the two as `main` does: first one, then the other, on the same program and string.

**`Crc`, `HashedTable`** (`src/crc`, `src/flow-tracker/flow_table.c`). No variables: both solutions of both widths as operators on words, which are
sets of bits; the reference is division of polynomials over GF(2), on sets of exponents. The table of `flow-tracker/crc_table.h` is the one that
`gen_lookuptable` makes. `HashedTable` joins it to `FlowTable`: the lists are numbered by words of `Bits` bits, and `index` picks the list of a flow from its addresses and ports, as `insert_table`,
`search_table` and `delete_table` do.

**`FatTree`** (`src/fattree-ns2/fattree.tcl`, `src/traffic-gen-ns2/fattree_empirical.tcl`). Servers and three layers of switches; a step is an
iteration of an outer loop and adds its links. A link to a node that no loop has made is a Tcl error. `topology_x` is a pair of a numerator and a
denominator, so any ratio; the products of the script are exact here before `int` cuts them, where Tcl has doubles.

**`Ns2`** composes the four scripts: `fattree.tcl` runs `FatTree`; `fattree_empirical.tcl` runs it, and then `FlowGen` between all ordered pairs of servers;
`many-to-one.tcl` runs `FlowGen`, and `incast.tcl` runs `Incast`.

**`Incast`** (`src/incast-ns2`). `pending` and `outstanding` are the send events and unacknowledged sends of each
sender. ns-2 calls `done_data` when all an agent was given is acknowledged, so sends
that overlap produce one callback.

**`HttpServer`** (`src/py-http-server`). One thread: threads share only the folder. The request has five
parts, those that the code looks for or that the network may cut apart. `wire` is what has been sent, and `Decoded` what HTTP
makes of it.

**`IpIp`** (`src/ipip`). Two hosts, a TCP connection between them, and a network that keeps every packet
and may deliver it again. `ipip_init` and `ipip_exit` register and unregister one hook after the other (`outgoing`, `incoming`), on each host at any time. The options of a SYN are bytes, in the base
`Radix`; `ReduceTcpMss` is the loop of `reduce_tcp_mss`: `Turn` is one turn with its two ways to end (`Breaks`), `offset` the step by the length it reads, `Turns` the pointer after each turn, and what stands at the
last one is lowered in 16 bits. What TCP means by the same bytes is given apart, by the set of places at which its options start, and `Announcement` reads the MSS from these: that the loop stops where TCP has
put the MSS is not built in. When `skb_linearize` fails the SYN is tunnelled as it came (second disjunct of `HookOut`), and without memory for the header the packet is dropped. So it is, for the peer,
when `pskb_expand_head` or `skb_linearize` has moved the head and the new header is filled through the old pointer (`old_iph`, lines 123 and 157-163) from memory that has been given back. When that memory still has its contents the header is right.
`raw` is history: the hosts whose bound is from a SYN that was not lowered. Assumed of TCP (`WellFormed`): lengths are right, no SYN is without options, none has an end-of-list (kind 0) or two MSS options, and the
MSS leaves room for the headers.

**`Search`** (`src/binary-search-prefetch`) is `binary_search` on any sorted array, an iteration per step, with the set of elements the last iteration prefetched.
**`Walk`** (`src/mem-read-lat`) is the shuffle and the walk; the address of `array[k]` is k, and a read outside the array leads to "wild".
**`TraceGen`** (`src/traffic-trace-gen`) is `gen_size` and `dist_avg_size` as operators on a distribution, in units of 1/Den, and the loop. All that `TraceGenAssumption` asks is that there are numbers in [0, 1): Den is not zero.
**`Submatches`** (`src/re2demo`, `src/pcredemo`) is the array of offsets, filled as `pcre_exec` or as `msc_regexec_ex` fills it, and the loop that prints it.
**`Cleanup`** is seven programs as lists of calls: what a call returns, what it needs, whether it may fail, and what is released before the program gives up; `fault` is a use or
release of something that is NULL or already released. `"none"` stands for a call that yields nothing to release.

**`Interpose`** (`src/run-interpose/mymalloc.c`, `src/rdma-monitor`). Every access to a static pointer is a step of a thread: test, `dlopen` and the assignment of the handle, `dlsym` and the assignment of the function,
call. `provided` says which functions the libraries have. `dlsym` on a NULL handle searches from the start and finds the wrapper itself, which is `reached` = "self".

**`Netlink`** (`src/netlink-latency`). A user's `sendmsg` runs the module's `input` handler before it returns. Loading is two steps, as the kernel
may call the handler between the creation of the socket and its assignment to `nl_sk`.

**`Programs`** runs one of `Search`, `Walk`, `Cleanup`, `Submatches`, `TraceGen`, `Interpose`, `Netlink`, `IpIp`, `HttpServer` and `TrafficGen`. They share nothing; the composition lets one
TLC run check them. Each is instantiated with variables of its own, which stay `Null` while another one runs.

The `MC` modules only give values to constants: `MCFlowTable` (packets, tuples),
`MCPollServer` and `MCSelectServer` (bytes each client sends), `MCForkServer` (the same and the texts of the echo client), `MCNs2` (shapes and groups), `MCRegexMain` (all programs up to a length, and those of
`main.cpp`), `MCThompson` (the programs of `main.cpp`), `MCPrograms` (option lists of SYNs, compressed sizes).

## Runs

Every passing run has for each of its properties a mutant in `PROJECT.json`: a plausible
bug in one definition that TLC finds through that property.

| Run | Shows | Instance |
|---|---|---|
| `FlowTable_all` | `SearchIsAtomic`, `ImplementsFlowSet`, `NumFlowsAccounted`, `HeapAccounted`, `SingleOwner`, with any packet on any CPU; `LinkedWhereHashed`: both solutions of both CRCs are polynomial division, and an entry stands in the list that the remainder of its tuple numbers | 3 flows, 2 lists (`Bits` 1), 2 CPUs, 2 entries, Wrap 2, registration fails or not; data of up to 3 bytes over 5 values |
| `FlowTable_progress` | `HookReturns` | 2 flows in one list, 2 CPUs, 2 entries, bytes not counted (Wrap 1) |
| `FlowTable_duplicate` | violation of `DeletedFlowIsGone`: two SYNs of a flow on two CPUs insert twice | 1 flow, 2 CPUs |
| `PollServer_all` | `TableMatchesSockets`, `EchoIntact`, `EchoedEventually` | 3 clients, descriptors for 2, 3 bytes from the rude one and 1 from the others, reads of 2, kernel buffer of 1 |
| `SelectServer_all` | `SetsMatchSockets`, `EchoIntact`, `EchoedEventually` | the same, FdLimit = FdSetSize |
| `ForkServer_all` | `SocketsHeld`, `EchoIntact`, `LinesReturn`, `ClientsServed`: the forking server with `tcpcli` or any other client at the other end | 2 clients, one of them rude, 2 children, 3 and 2 bytes, reads of 3, kernel buffer of 2, accept and fork failing; four texts |
| `RegexMain_all` | `ThreadsAreConfigurations`, `VerdictsCorrect`, `Decides` | all programs of 3 instructions over two letters, all loop-free ones of 4, a?^n a^n for n to 3; all inputs of up to 3 letters; MAXTHREAD 3 |
| `Thompson_main` | violation of `AnswerIsMeaning` | a?^n a^n for n to 2 |
| `Ns2_all` | `IsFatTree`, `BusyAccounted`, `ImplementsWorkload`, `RoundsApart`, `ScriptEnds` | k from 0 to 6 with x from 0 to 2 by halves, 0.1, 1.05 and 1.2; 2 groups of 1 pair at first, 6 flows; 4 senders, 3 iterations |
| `Programs_all` | `SearchCorrect`, `WalkIsInside`, `ReleasedOnce`, `PrintedIsCaptured`, `SizesFollowFile`, `ReachesLibrary`, `AnsweredOnce`, `FitsMtu`, `SegmentsIntact`, `AnswerIsFile`, `Framed`, `MessageConserved`, `ProgramsEnd` | all sorted arrays of up to 6 elements over 3 values; arrays of up to 4 addresses and 7 reads, 3 of them unrolled; 4 groups and room for 3; files of up to 3 rows, probabilities in sixths, sizes to 4; 2 threads with 2 calls each; 2 users, 2 loads; a tunnel with 3 option lists in bytes to base 6, an MTU of 17 and headers of 2, hooks coming and going; a server with files of 0 to 7 bytes, chunks of 2, all cuts of the request; a traffic generator with 4 messages of 8 bytes, buffers of 3, sizes of 4 bytes, a stream that holds 5, faults anywhere |

The `TypeOK` of each module is checked too, as the first conjunct of its main invariant.

Why the bounds are enough, component by component:

- Flow tracker. Two flows in one list give lists with a head, an end and an element to unlink from either; a third
  flow in another list is what shows that lists do not mix. Each race in the code has two parties. One
  entry fewer than there are flows makes `kmalloc` fail for want of memory, besides at any time. Packets are SYN, plain, and FIN of
  each flow, one for another device and one that is not TCP, so that each return of the hook is taken. Wrap 2 makes the byte counter overflow at the second byte.
  All safety properties are proved for any number of everything.
- Echo servers. Three clients on two descriptors is the case where accept fails, and where a slot and a descriptor
  are used again in the same round. Reads shorter than what has come, and a kernel buffer shorter than what was read, make
  reads and writes partial. Clients connect again, so that no bound on connections is needed. One client is rude: it leaves without
  reading and causes resets. The texts of the echo client are a line shorter than a read, one that fills `recvline`, one
without a newline at its end, and none.
- Traffic generators. A message is neither a multiple of the buffer nor shorter than it, and the stream holds more than a
  buffer and less than a message. Six flows in two groups make a pool grow several times and connections be used again. With four senders one is first, one is last and two are between.
- Regular expressions. Three instructions hold an empty loop, a loop that reads, and nested Splits. Both invariants are proved for all programs and strings.
- Checks. They are linear in the data, so a few byte values with each bit set somewhere go a long way; `SolutionsAreRemainders` proves them for all data.
- Topologies. k up to 6 holds odd k, powers of two and a k that is not one, and the ratios are below and above one, give whole servers or not,
  and are rounded down without losing a server (1.2 for k = 2) or not (1.2 for k = 4). `BuildsFatTree` proves it for all k and x.
- Small programs. Seven reads with three unrolled give a quotient of two and each remainder; three values in six places give repeated targets and missing ones;
  three rows give a row that is neither the first nor the last; four groups and room for three give submatches that do not fit. Two threads are enough for each race
  of the wrappers, which is between one that has failed and one that has not. Their safety properties are proved for every size.
- HTTP. Bodies of a whole number of chunks and not, of none, and compressed bodies longer than plain ones are all there.
- Tunnel. One option list has the MSS first and one has none; in the third it stands behind options of three lengths, whose bytes look like an MSS option and like a No-Operation. Lowering borrows from the high byte in both.
  The MTU leaves room for the header with nothing to spare.

That a read never blocks is a conjunct of `TableMatchesSockets` and `SetsMatchSockets`, and worth an explanation: in the poll server a new slot has `revents` that `poll` did not write. The code
is right all the same. A free slot at or below `maxi` was passed to `poll` with fd -1, which clears its `revents`. One
above `maxi` comes behind all slots that were reported, and counting `nready` down ends the round before the loop reaches it. It ends every round: the loop never gets to `i > maxi`, so that the models have no action for it.

Conjuncts of `TableMatchesSockets` and `SetsMatchSockets` say that the branches for too many clients, which close the connection and then go on as if they had not
(`select-echo-server.c:130-140`, `poll-echo-server.c:130-140`), are never taken, because descriptors run out before slots do. For the poll
server this always holds, since the array has a slot for every descriptor. For the select server it holds while the process may have no more than FD_SETSIZE descriptors; with
`FdLimit` above `FdSetSize` the model goes to "wild", as the program writes behind an `fd_set`.

`RoundsApart` of the incast says nothing of rounds once the warm-up is late: a round may then begin with callbacks of the
warm-up counted. That no sender sends more than it was asked to, and that the script ends, hold in any case. `ProgramsEnd` claims success at both ends of the traffic generator for behaviours without a
fault, which the history variable `faulted` tells.

`SearchIsAtomic` does not say that the search is safe: it is not, and the model faults. It says which interleavings are to blame, for a reader who would repair the code: an unlink in the list of the search, and another `+=` on its entry,
and no others. Insertions at the head, deletions in other lists, and an allocation that takes the memory of an entry deleted before the search began do no harm. `HookReturns` excepts an overtaken search for the same reason.
`ImplementsFlowSet` includes the double insertion: `Claim` may be taken by several CPUs before the first `Insert`. What it excludes is an entry for a flow that had one when `insert_table` looked, an insertion or deletion that
does more or less than one entry, and one on behalf of another flow. That a stale hook stops the kernel after a failed registration is in the model (`mod` is "gone"), and no property denies it.

`IsFatTree` shows what the scripts require without saying so: k even, and what `topology_spt` cuts off k times x/2 so small that over all edge switches it is less than one server. Then the
servers are as many as `topology_servers` says: k = 2 with x = 1.2 gives two servers, one per ToR. Other arguments end in a Tcl error and never in another topology.

`FitsMtu` has an exception which is the code's: a host whose peer's SYN went by the reduction (its module was not loaded, or `skb_linearize` failed) sends segments as long as the MTU, and these are too long with one more header.
`raw` marks such a host, and that its bound is then what the peer announced is part of the property.

`ReachesLibrary` has an exception which is the code's: both verbs of `rdma-monitor` assign `ibv_handle`, so that a thread whose `dlopen` has failed may overwrite the handle of one whose
`dlopen` has not, which then calls `dlsym(NULL, ...)` and finds the wrapper it is in. `clobbered` marks it. `AnsweredOnce` says
exactly when the kernel module uses `nl_sk` before it is assigned, and which user waits for ever: the one whose answer found no memory, as nobody tells it.
`SizesFollowFile` says what `gen_size` makes of every random number: within the CDF of the file a size between those of its rows; above its last value 0 (`traffic-trace-gen.py:58`); below its first, where python's `dist[-1]` is the last row, no more than the first size.
The only division by zero is at the rate, for a file whose average is zero. `WalkIsInside` says that
an array smaller than one pointer is the only way to a read outside.

Deadlock is not checked as such, because the systems may stop: a program or a simulation ends, a server ends when accept fails, a failed load of the flow tracker leaves a hook that
faults, and a client that stays idle leaves a thread waiting. That nobody waits who should not is what the liveness properties say.

## Fairness

- `FlowTable`: each CPU runs its hook call (weak), and a CPU that waits for the spin lock gets it
  (strong, `TakeLock`): the spin locks of the kernel are queued.
- `PollServer`, `SelectServer`: the process runs, and a client reads what it is sent, or leaves and its reset arrives. The code has no timeout: a client that does neither blocks
  `writen`, and with it everybody. Their liveness properties hold under this assumption only.
- `EchoSession`: every process runs, and the handler; only polite clients are assumed to read, and those that are `tcpcli` to run.
- `Ns2`: the interpreter runs the script, and the simulator runs the events it has, and TCP delivers. In ns-2 this is
  what `$ns run` does.
- `RegexMain`: the one process runs.
- `Programs`: a program with one thread runs, and a thread or user that is in a call goes on. Nobody has to begin a call, and nobody has to load the kernel module.
  The thread of the HTTP server runs; its client does what it likes, and the tunnel is promised nothing. Both programs of the traffic generator run, and `connect`
  returns; a message under way needs no fairness of its own, as the stream delivers when it is read.

## Proofs

| Module | Theorem | Statement |
|---|---|---|
| `FlowTableProofs` | `TypeCorrect` | `Spec => []TypeOK` |
| `FlowTableProofs` | `EntriesOwnedOnce` | `Spec => []SingleOwner`: no double free, no entry in two places |
| `FlowTableProofs` | `NoEntryLeaks` | `Spec => []HeapAccounted`: what is allocated is linked or in the hands of one call |
| `FlowTableProofs` | `FlowsCounted` | `Spec => []NumFlowsAccounted`: `num_flows` lags by exactly the calls under way |
| `FlowTableProofs` | `SearchesAreAtomic` | `Spec => SearchIsAtomic` |
| `FlowTableProofs` | `TableImplementsFlowSet` | `Spec => ImplementsFlowSet` |
| `FlowTableProofs` | `EntriesBounded` | `Spec => []Abstract!Bounded`: a flow has at most one entry for each CPU, those about to be linked included |
| `FlowTableProofs` | `SolutionsAreRemainders` | for all data of any length, `simple` = `lookuptable` = `Remainder`, for both widths |
| `FlowTableProofs` | `LinksWhereHashed` | `Spec => []LinkedWhereHashed` |
| `PollServerProofs` | `TableHolds` | `Spec => []TableMatchesSockets`: table, sockets and the round of one `poll` agree, and `read` never blocks |
| `PollServerProofs` | `EchoesInOrder` | `Spec => []EchoIntact` |
| `SelectServerProofs` | `SetsHold` | `Spec => []SetsMatchSockets`, assuming `FdLimit <= FdSetSize` |
| `SelectServerProofs` | `SelectEchoesInOrder` | `Spec => []EchoIntact`, under the same assumption |
| `EchoSessionProofs` | `ServerHoldsSockets`, `ServerEchoes` | `Spec => []SocketsHeld` and `Spec => []EchoIntact`, of the forking server with any clients |
| `EchoSessionProofs` | `SessionHoldsSockets`, `SessionEchoes` | `SessionSpec => []SocketsHeld` and `SessionSpec => []EchoIntact`, with `tcpcli` among them |
| `EchoSessionProofs` | `SessionReturnsLines` | `SessionSpec => []LinesReturn`: `tcpcli` prints a line whole before it takes the next |
| `Ns2Proofs` | `BuildsFatTree` | `Spec => []IsFatTree`: for every k and rational ratio, proper parameters give a fat-tree, others an error |
| `Ns2Proofs` | `ScriptsAccountBusy` | `Spec => []BusyAccounted` |
| `Ns2Proofs` | `ScriptsImplementWorkload` | `Spec => ImplementsWorkload` |
| `Ns2Proofs` | `ScriptsKeepRoundsApart` | `Spec => []RoundsApart` |
| `ProgramsProofs` | `SearchesCorrectly`, `SearchHalves` | `Spec => []SearchCorrect`: the answer and the prefetches; and that an iteration halves the range |
| `ProgramsProofs` | `WalksInside` | `Spec => []WalkIsInside` |
| `ProgramsProofs` | `ReleasesOnce` | `Spec => []ReleasedOnce` |
| `ProgramsProofs` | `PrintsCaptured` | `Spec => []PrintedIsCaptured` |
| `ProgramsProofs` | `CallsReachLibrary` | `Spec => []ReachesLibrary` |
| `ProgramsProofs` | `AnswersOnce` | `Spec => []AnsweredOnce` |
| `ProgramsProofs` | `TunnelFits` | `Spec => []FitsMtu`: the MSS learnt is lower by one header, and no packet exceeds the MTU, unless the SYN went by the reduction |
| `ProgramsProofs` | `TunnelCarries` | `Spec => []SegmentsIntact` |
| `ProgramsProofs` | `AnswersWithFile` | `Spec => []AnswerIsFile` |
| `ProgramsProofs` | `StaysFramed` | `Spec => []Framed` |
| `ProgramsProofs` | `ConservesMessages` | `Spec => []MessageConserved` |
| `ProgramsProofs` | `SizesFollow` | `Spec => []SizesFollowFile`: sizes, and their mean against `dist_avg_size` |
| `RegexMainProofs` | `ThreadsTheorem` | `Spec => []ThreadsAreConfigurations` |
| `RegexMainProofs` | `VerdictsTheorem` | `Spec => []VerdictsCorrect` |

Each holds for every value of the constants that the named assumption of its modules admits; TLC
evaluates these in the runs. The invariants below were each checked by TLC on the instance of its run before they were proved.

### The flow tracker

The theorems hold for all finite sets of CPUs and entries and all sets of flows, lists and packets, and without any assumption on which CPU gets which packet. They rest on
`FlowTableAssumption`, which TLC evaluates in each run. For the first four the lock and the private window between `kmalloc` and linking, and between unlinking and `kfree`, are enough.

None of these is inductive. The invariant is `IInv`:

- `TypeOK`, and `HasPacket`: a call that runs has a packet, which its steps read;
- `Quiet`: before the hooks are registered and after they are gone no call runs, so that
  `InitTable` and `FreeTable` have the lists to themselves;
- `Ownership`: `LinkedOnce` (a list position has its own entry), `HeldApart` (an entry about to be linked or freed is in no list and in no other
  call's hands), `InMemory` (linked and held entries are allocated, and nothing else is, until the table is freed);
- `NumFlowsAccounted`, whose step needs `Ownership`: an unlink takes exactly one entry out of `AllLinked` only if it was there once.

The lemmas are about the two changes a list can see, a new head (`ConsProperties`) and the loss of one position (`DropAtProperties`), what these do to the set
of linked entries (`LinkKeepsOnce`, `UnlinkKeepsOnce`), and frames for the steps that touch no list. One lemma per conjunct shows that each
action keeps it (`TypeStep`, `QuietStep`, `OwnershipStep`, `CountStep`), and `IInvStep` puts them together.

For the searches `OInv` adds `SearchesOK`: a search that is not overtaken stands at a place i of its own list (`StandsAt`), with the successor it has saved, and from i on there is an entry of its flow exactly if there was
one when it started (`Ahead`). Insertions keep this, since they add at the head, behind the search (`SearchBehindHead`); a deletion in the list overtakes it; and nothing else changes the list or the flow of a linked entry
(`SearchFrame`). Between load and store the register holds what the entry does. One lemma each shows that insertions, deletions, other searches and the life cycle keep it. `AtomicAnswer` and `FaultOvertakes` then read the property off a step.

The refinement maps `entries` to the number of entries of a flow in its list and `claims` to the number of calls between the check and the link. It needs `AtHome` (below), for a call links the entry of its own flow into the list where the others look;
`InsertMaps`, `OthersMap` and `ModuleMaps` go through the actions, and `BoundedStep` is the argument about the abstract steps: a claim begins only while the flow has no entry, and there are no more claims than CPUs.

For the place of an entry `HInv` adds `AtHome` to `IInv`: a linked entry is in the list of its flow, and the entry that a call is about to link has the flow of the call's packet, by which
`InsertLink` picks the list. `HashedTableAssumption` says that this list is `index` of the flow's tuple, and `ListIsRemainder` that `index` is the top of a remainder.

That it is one is proved for all data. A word is a set of bits, so that the lemmas are about membership (`ShiftBits`, `LeftBits`, `RightBits`). A round of the bitwise loop is linear (`ShiftLinear`), hence eight of them are (`Shift8Linear`),
and the lower byte of a 16-bit register just moves up (`Shift8Low`); so a step by table is a step by bits (`TableIsSimple`). The division is followed byte by byte: `OneByteMore` says that dividing the data with one more
byte is dividing what was left, moved up by eight, with that byte added, and this is what `SimpleByte` does to the register. The registers, the quotient's steps and `simple` itself are functions defined by recursion on a number; that
they are what they say at each number is `StepsExist` (such a function exists), and what holds at every number comes from the least at which it fails (`UpTo`).

### The echo servers

`EchoNetProofs` holds what the three servers share. `NetInv` says that a connection that does not exist has left nothing behind, and that the backlog is the queued connections,
each once. A server enters as a function `h` from clients to the bytes it has read and not yet written. `Carried(h)` says of each client that `outq \o h[p] \o inq` is the bytes
it has sent and not got back, in order, unless its connection was reset (`InOrder`), and in any case not more of them (`Counted`). One lemma per step of a peer or system call shows what it does to
`Carried`: `Send` appends to the last part, `Read` moves bytes from `inq` to `h` and `Write` from `h` to `outq`, and `Receive` takes from the first. The lemmas on sequences
(`RunGrows`, `RunShrinks`, `AppendToLast`, `RestOfFirst`, `TakenAndRest`) are what these need. `Undisturbed` is why a server may rely on what `poll` or `select` has said: no step of a peer makes
a socket that is readable unreadable, nor empties the backlog. So each server proof is about its own loop.

`PollServer`: `TableInv` (the slots in use are the open sockets, one each, and none above `maxi`) and `RoundInv` are inductive together. The argument about stale `revents` is `Awaited(k, n)`: of the slots from k on
that the loop would take, n were reported by `poll`, are readable as yet, and come before all others. `accept` may mark a slot by chance, but behind these, for a free slot at or below `maxi` is not
marked while `accept` is to run. A slot taken counts down both the set and `nready`, so that the round ends before a slot that was not reported is reached.

`SelectServer`: `SetsInv` relates four things that the code keeps apart: the descriptors in use, `clients[]`, `allset` with `maxfd`, and the open sockets. Here `Awaited` is simpler, as `rset` holds no descriptor that
is not in `allset` when `accept` runs (`RoundInv`). That descriptors are fewer than slots needs the counting of `SetsHold`'s hypothesis, `FdLimit <= FdSetSize`; with a higher limit the theorem is false, and the model shows "wild".

`EchoSession`: `HeldInv` says who has a descriptor: the parent between `accept` and `close`, and the one live child of a connection. The clause for `parent = "fork"` (no child has the connection yet) is what makes it inductive.
The bytes a child holds are in its `buf`; the invariant says that there is an `h` with `Holds(h)` and `Carried(h)` instead of defining it from the children. `ClientInv(p)` is the argument about
`readline`: while a line is written or read, everything before it has come back and is printed, and what was taken from stdin is a line (`IsLine`), so that the bytes on their way back cannot hold a newline but at their end. `ByteIsItsNumber`
connects the two: the k-th byte in `outq` is byte `got + k` of the text. Only if the server has closed does the client go on without its echo.

The assumptions are `EchoNetAssumption` and the one of each server.

### The regular expression engines

The theorems hold for all programs and strings over any alphabet; `ProgramsAssumption` says that the targets of a program are among its instructions and that its last one is a `Match`, and
`MaxThreadAssumption` that MAXTHREAD is a positive number.

What a program means is given without an engine: `Meaning` is the least set of configurations that holds the first one and is closed under `Successors`, the union of what is reached in n steps.
`ReachedClosed` and `ReachedLeast` say so. They are about a recursive function on the natural numbers, where the library's induction cannot be used; `AllNumbers` (a set that holds 0 and each successor of a member
holds all of Nat, from the least number outside of it) takes its place.

- Thompson. `TInv`: the threads in a list are pairwise different, none is outside of `Meaning` (`ThreadsReached`); a thread that has run has its successors in the list of this character or the next (`ThreadsRun`);
  and all configurations at earlier characters have run (`PastIsDone`). When `clist` is at its end the threads in it are closed under what reads no character, and `ThreadsAreAll` concludes by `ReachedLeast` that they are all there are.
- Backtracking. `BInv`: running and waiting threads are in `Meaning`, and if none of them can reach a `Match`, the program does not accept (`NotForgotten`). A configuration is rejected (`Rejects`) if it lies in a set that is closed under `Successors` and holds no `Match`, which needs no induction, and `RejectsBySuccessors`
  is what a step needs of it. For a program without loops the waiting threads come from different Splits (`WaitsFrom`: an increasing function from places of `ready` to Splits), so that there are never more than those (`FullHasSplits`).
- `recursive` is a recursive function of its configurations; `RecursiveAccepts` shows by a descent on the program counter that it answers as the meaning does, where jumps go forward only.

### The ns-2 scripts

The proofs are about the composition, `Ns2`, in which the variables of `FatTree`, `FlowGen` and `Incast` are those of its scripts; `NInv` joins the invariants of the three, and a step of a script is a step of one of
them or leaves its variables alone (`StepsMap`).

`GInv` of the generator joins `Counts` (`nr_busy_pairs` is the number of pairs queued or busy), `Marks` (a busy pair waits for its signal and has bytes under way),
`Sized` (a group has at most one pair more for each flow), `FlowsConserved` (a flow is under way or finished), `FidsDiffer` and `Stages`. `AllBusy` is why `$pairs(-1)` is never used:
where no send of the group is queued, no idle pair means that the count is the length. The refinement needs `FlowsConserved` for the end: `flow_fin` never passes `flow_tot`, so that `>=`
in the script is the `=` of `Workload`.

`BInv` of the incast joins `Phases`, `SendsCounted` (a sender has sent as often as the rounds started say, but for what is queued) and `Barrier` (`fin_pairs` counts the senders that
have finished this round), each for a warm-up in time and a late one.

`TInv` of the topologies says which links the iterations so far have made (`LinksPlaced`), and that a loop is past an iteration only if the links of it have both ends (`LastFits`). At the end the first gives the neighbours of each
node in closed form, as blocks of numbers (`ServersBelow`, `SwitchesAbove`, `OneWay`), from which `EdgeSwitches` counts, and the second shows that parameters that are not proper do not get there: for odd k the last edge switch, and where what is cut off
at each ToR makes a server or more the last server, has no block to go to (`OddEnds`, `EvenEnds`). The rest is index arithmetic: each division is replaced by its quotient and remainder, and the products are bounded. The assumption is `Ns2Assumption`.

### The small programs

`PInv` says that the program that runs has its invariant; the others do not move. The assumption is `ProgramsAssumption`.

- Search: `NotLeftOut` (what the range leaves out does not hold the target) with `NextIsPrefetched`; sizes are natural numbers and elements integers.
- Walk: `Permutation` (no two elements hold one address) with `ReadsCounted` (the reads made at each place of the loops); the unrolling is not zero.
- Cleanup: the programs are data, and `Cleans` is a check of one of them, call by call: a call needs what is there, and its way out releases exactly what is there. A lemma each (`PcreCleans` to `CpuCacheCleans`) shows that
  every list in the code passes, and `CleanupInv` that a program that passes releases once and uses nothing that is gone, whichever calls fail.
- Submatches: `MatchInv` says what the printing loop is given, by the greatest submatch that took part (`MaxIsGreatest`).
- Interpose: `Binds` says what a pointer holds, and what a thread that has come past a check may rely on, while no handle has been overwritten. It is not inductive once one has (`clobbered`), which is the exception of `ReachesLibrary`.
- Netlink: `NetlinkInv` relates where a user is to its inbox and to what was lost.
- Tunnel: `IpIpInv` says of each packet under way (`PacketHolds`) that it is a SYN with the options of its sender, lowered once unless it is raw, or a segment as long as its sender's MSS allows, with one header more in the tunnel, so that
  a second delivery changes nothing; and that a host has learnt from the first SYN alone. It does not mention the hooks: every packet is right whichever hooks it has met. The walk is a recursive function of the turn (`TurnsAre`). `WalkFindsMss` is an
  induction by the least turn that fails: the pointer is where an option starts, no MSS option lies before it, and it has gone on by a byte each turn or is where the loop breaks; `OffsetOf` gives the next start. `LowersMss` adds what the two bytes make (`TwoBytes`).
  The proof showed what it takes: where a SYN has two MSS options the walk lowers the first only, and the peer may use the other.
- HTTP server: `Chunks(w, n)` says that the pieces sent are a header and chunks that reach to byte n without a gap; `ChunksGrow` adds one, and `ChunksDecode` is what a client makes of them once the empty chunk is there.
  That a 404 page never follows a 200 header is the clause for `"notfound"` in `HttpInv`: the handler runs with nothing sent, or for a client that is gone.

- Traffic generator: `TrafficInv` is four statements about the pair of programs, none inductive alone. `CallsInv`: what a call has moved and has left add up to what it was called for. `CountsInv`: the two loops are at most one message apart.
  `RequestInv`: the bytes of sizes that the server has not acted upon (`Asked`: read in part, or on the way) are those the client has written of the request it is at, or has finished. `AnswerInv`: the message bytes on the way
  are the difference of what both have moved, and the server is done with a message exactly when these fill the client's read. Framing lives in `RequestInv`; that a success is complete follows from `CountsInv` and `AnswerInv`.

- Trace generator: `TraceInv` says what the last size was made of and why the program stopped; the rest is about the operators, for every file whose rows are in order. A random number is on a row or between two (`RowOrLine`), and there the size is
  what int() leaves of the line (`OnTheLine`), so that it stays between the rows (`SizeBetweenRows`) and grows (`SizesGrow`). For the mean, `SumsExist` and `AnyFirst` show that the library's sum over a set is a sum, taken in any order, and
  `UptoNext` adds one summand. In a row of width b and height h the sizes at its first b numbers add up to at most the area of the row in `dist_avg_size` (`RowSumBelow`), and those at its last b numbers, with one more for each that int() may have cut, to more
  than the area (`RowSumAbove`); each is an induction over the numbers of the row with the denominator multiplied out. `MeanOfRows` adds the rows up, and `MeanBounds` shifts the second sum back by one number,
  which costs the difference of the last size and the first: the last term in `MeanIsAverage`.

### What is only model-checked

Out of the prover's reach is liveness: `HookReturns`, `EchoedEventually`, `ClientsServed`, `Decides`, `ScriptEnds` and `ProgramsEnd`.

Every safety invariant and safety action property of the runs that pass is proved, the select server's two assuming `FdLimit <= FdSetSize`.
What recursive functions compute is proved without the library's induction theorems, which take an operator as a parameter: the least number at which a statement fails (`WFMin`) takes their place, in
`UpTo`, `AllNumbers`, `HasLeast`, `MaxIsGreatest` and `NoneMissing`.

## Disagreements between code and text

- `FlowTable_duplicate`: `flow_table.h:34` says that `delete_table` deletes the entry of a flow; after the race of
  two insertions (`flow_table.c:102` to `110`) the flow still has one.
- `Thompson_main`: `main.cpp` runs a?^n a^n on a^n; `thompsonvm` returns 0 since its loop (`thompson.cpp:51`) ends
  before the threads behind the last character are looked at.

## What is not modelled

`PROJECT.json` lists each directory. Left out inside modelled components:

- everywhere: logging, argument parsing, clocks and the times measured;
- the flow tracker's inert hook, `hook_func_in`;
- in `ipip` checksums, offloads, and the selection of packets by port and device; options with an end-of-list, behind which the walk goes on (a length of 0 there would keep it where it is for ever): Linux pads with No-Operations;
- in `py-http-server` the accept loop. With gzip and without chunks the Content-Length is that of the plain body (`http-server.py:114`): a client cannot take such a body for the file,
  and `AnswerIsFile` says only that the whole compressed body follows. No text in the repository says otherwise, so that no run states it as a violation;
- in `echo-server` the `printf` in the signal handler, and `readn` of `unp.h`, which no program calls;
- in `run-interpose` that `dlsym` or `printf` may call `malloc` themselves, which depends on the C library;
- in `fattree.tcl` the rounding of doubles, which may cut a product one below the exact one;
- in `traffic-trace-gen` arrival times, floating point, and files whose rows are not sorted;
- in `simple-jit-x64` the bytes of the emitted code;
- in the ns-2 scripts rates, queues and parameters of TCP.

Whole directories without a model: `ptf-test` (scripts for an external framework, without state), `detect-jit` and `kernel-random-number` (one query each), the linking examples
(build arrangements around straight-line programs) and the demonstrations `alignment_test`, `linux-signal`, `map-vector`, `mmap-stdout`, `print-binary`, `progress`, `rpc` and `snooze`.

## Plan

Done, models: all components above. Done, proofs: every safety property of the runs that pass.

Next, proofs:

1. The echo servers as implementations of an abstract echo service: `Carried` is the refinement mapping.

Next, models: an abstract echo service that the three servers implement, and `ipip` with several connections.
