# A TLA+ verification of OCEAN (CXLMemSim)

OCEAN emulates a CXL 3.0 memory pool: a server holds the memory, QEMU guests and
other clients read, write and synchronise on it, and models of coherency, queues
and credits charge the latency of each access. Several servers can form a
cluster in which each node holds a part of the addresses. This directory holds
TLA+ models of the parts that keep state, TLC runs on small instances and TLAPS
proofs for every instance. Paths below are relative to the repository.

## Inventory

| Part | Code | State | Driven by | Here |
|---|---|---|---|---|
| Coherency engine | `src/coherency_engine.cpp` | MOESI directory, heads | server requests, messages of other nodes | `CoherencyEngine`, `CoherentMemory` |
| Memory server | `src/main_server.cc` | MESI line metadata, back-invalidation queues, label storage, request counter | one thread per TCP connection, four in ring mode | `MainServer` |
| Shared memory manager | `src/shared_memory_manager.cc` | data area, metadata cache | the servers | in `MainServer` and `DistributedServer`, without the system calls |
| Memory expander | `src/cxlendpoint.cpp` | request queue, credits, occupation, two caches | server threads, simulator | `CXLMemExpander` |
| PGAS slots | `src/main_server.cc`, `library/qemu/hw/mem/cxl_type3.c` | 64 request slots | four workers, QEMU processes | `PgasSlots`, `MemoryService` |
| Request ring | `src/shm_communication.cpp` | ring per client | client process, four workers | `ShmRing`, `RequestService` |
| Message manager | `src/distributed_server.cpp` | ring per pair of nodes, pending requests, node states | client threads, workers, heartbeats of all nodes | `MessageManager` |
| HDM decoder | `src/hdm_decoder.cpp` | table of ranges | distributed server | `HDMDecoder` |
| Distributed server, TCP transport | `src/distributed_server.cpp`, `src/tcp_communication.cpp`, `src/main_server.cc` | routing table, connections, segments, the socket of a server | guests, other nodes | `DistributedServer` |
| MH-SLD device, fabric link, remote expander, LogP | `src/cxlendpoint.cpp` | directory, link credits | nobody | not modelled |
| Controller, switch, policies | `src/cxlcontroller.cpp`, `src/policy.cpp` | placement, migration | simulator | not modelled |
| Reorder buffer, monitoring, RDMA, QEMU client library, stand-alone servers, MPI shim | various | | | not modelled |

How they interact: a server thread receives a request (TCP, ring or PGAS slot),
asks the expander for a latency, takes `memory_mutex`, changes the line's MESI
metadata and the shared memory, inserts the access into the expander, and
answers. The PGAS workers bypass the metadata and `memory_mutex`. In a cluster a
node looks the address up in its HDM decoder and serves it from its own segment
or sends it to the owner over TCP and waits. Label storage operations go to node
0 through the message manager's rings. The coherency engine is the directory a
node of a cluster asks for latency.

## Modules

Each component has a module, an `MC` module with its `.cfg` files, and, where
something is proved, a `Proofs` module. Actions carry the names of the functions
they model; `PROJECT.json` maps each definition to its lines. A
definition it lists as the "as" of a mutant is not part of a model: it is a small
mistake in another definition, and substituting it makes a property fail.

**CoherencyEngine and CoherentMemory.** An entry per line with the fields of `DirectoryEntry`, and
the heads with their bandwidth shares. Every handler holds `entry->lock` from
its first access to its return, so a handler is one action: `process_read`,
`process_write`, `process_atomic`, `handle_remote_invalidate`,
`handle_remote_downgrade`, `handle_remote_writeback`, `activate_head`,
`deactivate_head` (which nothing calls yet). `last` is what the latest handler added to the global
counters. `seen` is a history variable: the version at a node's latest access.
A share is kept as the k of 1/k. `CoherentMemory` is what a directory is for,
without states, owners or sharers: a version per line, who may read it and who
may write it. The refinement maps the nodes with an entry in the directory to
the readers, and the owner of a MODIFIED line to its writer.

**MainServer.** A request is three steps: `Enter` (counted in
`active_requests`), `Body` under `memory_mutex`, `Exit`. The body is `Read`,
`Write`, `AtomicFAA`, `AtomicCAS`, `Fence` or a label storage write, with error
returns: an address outside the area, a request that crosses its line, a failing
`msync`, each after the state changes the code has made by then. Both address
mappings are there: by offset from `base_addr`, and modulo the area when it is
0. Memory is words of a line, so a partial write and the back-invalidation entry
made of it differ from a line. `Restart` ends the process and attaches the next
one to the segment it left: `initialize_data_area` tests a magic number that
`initialize_header` has just written, so the data survives while metadata,
queues and label storage are new. `latest` and `ordered` are histories: what the
requests in lock order left, and which lines had their requests in timestamp
order.

**CXLMemExpander.** `insert` and `calculate_latency` run in threads that
interleave at the critical sections of `queue_mutex_` and at every unlocked
access of the occupation list and its caches. `insert` is `accept`, `push`,
`find_entry`, then `erase_entry` and `replace_entry` or `add_entry`;
`calculate_latency` is `complete_requests`, `check_credit`/`consume_credit` per
issued request, `clear_address_cache`, `update_address_cache`,
`is_address_local`. `Locked` says whether `insert` is under `memory_mutex`.
Credits are `size_t` and wrap at `CreditModulus`. `retyped` is a history
variable: `insert` has changed the type of a request between another thread's
`has_credits` and `consume_credit`. `delete_entry` and `free_stats` have no
caller and are left out.

**PgasSlots and MemoryService.** Clients: `request`, `fill`, `post`, `receive`,
`clear`, `time_out`. Workers: `poll`, `execute`, `clear_request`. The steps are
the stores that the other side can observe, `req_type` and `resp_status`.
`disturbed` is a history variable, the slots on which one of three things has
happened: a worker found a request that another had found before, a client filled
the slot over the request of another client, or a client gave up waiting for an
answer. `MemoryService` is what the slots are for, without slots or workers: a
call is made, performed in one step or refused, and returned. It promises this to
the `trusting` clients, and nothing to the others. The refinement maps a client's
call and the answer in its slot to a call of the service
(`INSTANCE MemoryService WITH`), and the clients of undisturbed slots to the
trusting ones.

**ShmRing and RequestService.** One client slot over successive clients: `connect`, `initialize`,
`disconnect`, `send_request`, `publish_request`, `wait_for_response`,
`time_out`; workers: `wait_for_request` (loads `tail`), `look`, `take_request`,
`send_response`, `store_response`. The semaphores only shorten a sleep.
`patient` and `raced` are history variables: no client has given a request up or
sent a second one before the response to the first; and a worker has copied a
request while another was taking one or after another had moved `tail`, or a
client has reinitialised the ring under a worker that is taking a request.
`RequestService` is the ring without a ring or workers: a request is asked,
served, and its response received or given up. The refinement takes a request
for served by the workers that have taken it off the ring, and the service for
orderly while the clients are patient and nothing has raced.

**MessageManager.** The rings between nodes, without locks, so the load of an
index, the copy of a message and the store of an index are steps of their own
and threads overlap on a ring: `enqueue_message` is `load_indices`,
`copy_message`, `store_head`; `dequeue_message` is `load_tail`, `take_message`,
`store_tail`. A call (`forward_lsa_to_coordinator`, `insert_pending`,
`wait_for`, `erase_pending`) waits for a worker of its node
(`process_message`: `find_pending`, `copy_response`, `complete_request`,
`handle_request`, `handle_other`) to find it by its number. `pending_mutex_` is
a variable; the mutex of a request is kept across steps only by a call that has
timed out, so it is that call's program counter. A node starts with
`open_segment`, `wipe_segment`, `initialize_queues`, `register_node`, and wipes
the segment even if others use it; a thread that divides by the capacity of a
wiped ring ends its process (`crash`). `executed` is a history.

**HDMDecoder.** The table as a sequence, the linear scan, the binary search and
`sort_ranges` as operators; `sort_ranges` is the set of tables that `std::sort`
may leave, which does not fix the order of equal bases. Nothing calls
`sort_ranges` yet; `SearchesAgree` is what it must keep when something does. `configure_interleave`
has no caller, so the interleaved decoder has no targets.

**DistributedServer.** A cluster in pure TCP mode, on top of `HDMDecoder`. Each
node boots (`Initialize`, `connect_tcp_node` per peer, `calibrate_node` per
sample), then its guests call: `local_call`, `remote_call` followed by
`send_request` and `receive_reply` or `receive_fails`, and `fence` followed by a
`send_message` per peer. A node's `TCPServer` has one `sock_fd_` and one
`connected_` for all its connections and a handler thread per connection
(`accept_connection`; `receive_message`, `message_arrives`, `reply_message` and
their failures), as the code has. `Crash` ends a node's process at any moment;
the kernel closes its sockets. A line of a segment holds the address of the last
write to it. `fenced` and `acked` are histories.

## Runs

| Run | Checks | Instance |
|---|---|---|
| `engine_safety` | directory consistency, no stale hit, dirty flag, charged revocations, kept access, fair shares, refinement of `CoherentMemory` | 1 line, 3 nodes, 3 heads, versions to 3 |
| `server_safety` | MESI consistency, balanced counter, current memory, registered revocations | 2 workers, 2 clients, 1 line of 2 words, base 0, restarts |
| `server_clock_skew` | *violated*: memory is current for timestamps in any order | 1 worker, 2 clients |
| `expander` | queue limit, credits | 2 threads without a common lock, 1 address, queue of 4 (two in flight), 2 credits of each type |
| `expander_credit_leak` | *violated*: a type without credits has a request in flight | 1 thread, 2 addresses, queue of 4, 2 credits |
| `pgas` | executed once if answered OK and never if answered with an error, refinement of `MemoryService`, every call returns (liveness) | 2 workers, 2 clients on one slot, 2 calls, timeouts, an address at which an atomic's operand does not fit, an operation no worker answers |
| `pgas_atomic_result` | *violated*: an atomic leaves the old value in `slot->value` | 1 worker, 1 client, 2 slots |
| `ring` | no worker takes a request twice, only taken requests have responses, occupancy, refinement of `RequestService`, every request answered (liveness) | 2 workers, ring of 2, 3 requests, two at a time, timeouts, reconnections |
| `messages` | live response buffers, answered means executed, every call returns or its node is deadlocked or down (liveness) | 2 nodes, 1 client, 1 + 2 workers, rings of 2, 2 calls |
| `messages_pairing` | *violated*: only a response completes a request | 2 nodes, 1 client, 2 workers, a call and a heartbeat |
| `cluster` | routing, searches agree, segments, pairing of replies, every call of an only client returns (liveness) | 3 nodes, two of them connected to node 0, 2 guests, 2 calls, 1 crash |
| `cluster_remote_write` | *violated*: an acknowledged remote write is stored | 2 nodes, 1 call, no crash |

**Why the bounds are enough.** One line suffices for the engine because its
lines share no state; three nodes give a local owner, a remote sharer and a
remote requester at once, and three versions let a line be written, shared and
written again with a copy left behind. The server's line has two words so that a
write can be partial or cross the line; two timestamps give every order of two
requests and their equality. The expander's queue can be full, and overrun by the
second thread, and its credits can run out; the proofs cover several addresses.
Two PGAS workers and two clients on one slot meet in every order on two requests:
both workers find one request, a client fills over another, an answer comes after
its client has gone. Several slots, `WRITE` and `ATOMIC_CAS` are not in that run
and are covered by the proofs. A request ring of two is full with one request and
goes round with the second; three requests are enough for a worker's late store
of `tail` to strand one. A message ring of two
is full with one message, so messages are dropped; two workers race for the
responses to two calls, and a second node wipes the segment in the middle of
them. In the cluster one peer has two clients, a peer may be down when a node
connects, and a node's two guests compete for its mutex while the peer crashes.
Words count modulo 2 or 3, which tells apart old, new and wrapped values. The
proofs below remove the bounds.

**Fairness.** Four passing runs are about liveness. `pgas` assumes that a client
inside a call keeps running; both its waits count retries, so a timeout is a
step it takes; nothing is assumed of the workers. `ring` assumes that the worker
loops run and that a client inside a call runs; nothing makes a client connect,
send or leave. `messages` assumes that threads of a running node take their
next step and that a deadline passes; nothing makes a client call, a node start
or a heartbeat be sent. `cluster` assumes that a node that is up keeps running
its accept loop, its handlers and the threads inside a call, and that a receive
from a closed socket fails; nothing makes a node start or crash or a guest call.
All of it is weak fairness: a mutex is granted to a thread only when it stays
free. `pgas_atomic_result` has the fairness of `pgas`. The other runs assume
none.

**Deadlock** is checked except in the runs of `MessageManager`, whose code does
deadlock, and of `DistributedServer`, which rests when its guests make no more
calls.

**The violated properties.** `server_clock_skew`: back-invalidation entries are
compared with the line's `last_access_time`, which is the stamp of the last
request, not of the data; a request with an earlier stamp that is served later
lowers it, and the next read writes an older write's bytes back.
`expander_credit_leak`: in-flight requests are kept by address, so a second one
replaces the first, whose credit is never released. `pgas_atomic_result`: the
server copies the old value of an atomic to `slot->data`
(`src/main_server.cc:1743`), while `slot->value`, which the client returns
(`cxl_type3.c:1800`), still holds the operand. `messages_pairing`: every
node numbers its messages from 1 and `process_message` looks only at the number,
so a heartbeat of node 0 completes a request of node 1.
`cluster_remote_write`: nothing registers a message handler with the `TCPServer`
of the transport, so a forwarded write is answered with status 0 and executed
nowhere.

## Where the passing properties stop

The instances of the passing runs, and the conditions in the properties, state
what the properties need. These changes make TLC report a counterexample:

- `MCMainServer.cfg` with `W = 1`, `NumCachelines = 2`, `BaseAddr = 1`,
  `Addr = {1}`: `OrderedMemoryIsCurrent`; `handle_atomic_request`
  (`src/main_server.cc:1173`) does not subtract the base.
- `CreditsWithinBudget` without `retyped`: `insert` changes the type of the last
  queued request without `queue_mutex_` (`src/cxlendpoint.cpp:210`) while another
  thread is issuing it; the credit taken is not the one that was tested, and its
  counter wraps below zero.
- `MCCXLMemExpanderLeak.cfg` with `HeldIsLocal` as its invariant: both caches
  share `cache_valid` (`include/cxlendpoint.h:462`), so refreshing the address
  cache keeps the range cache stale and held addresses are not charged.
- `AnsweredOnce` and `ImplementsService` without `disturbed`, or with one of its
  three cases left out. The code starts four workers and none claims a slot
  (`src/main_server.cc:1653`): two load one fetch-and-add before either clears it
  and execute it twice. Two clients with one slot both see it free and one
  fills it over the other's request. A client that gives up leaves its request
  and the answer to it behind (`cxl_type3.c:1785`), and the answer is taken for
  that of the next request, which nobody has executed.
- `RequestAnswered` without `raced` in `Orderly`. The code starts four workers
  (`src/main_server.cc:1451`). Suppose A and B both see request 1, B takes 1 and
  2, and A then stores `tail` = 1: the entry at `tail` holds no request, so
  request 3 is never taken, nor any after it (a trace with `RING_SIZE = 3`; with
  2, `tail` overtakes request 3). Without `patient`: with two requests
  outstanding, two workers store their responses in one entry, or the response
  stored at `head` is cleared when the second request is published
  (`src/shm_communication.cpp:371`), and its client waits in vain.
- `ImplementsRequests` with `Orderly` replaced by either half: two workers take
  one request; responses to two requests come in the wrong order
  (`src/shm_communication.cpp:302`); a late response is taken for that of the
  next request (`:411`). `TakenOncePerWorker` and `ReceivedWasTaken` are what
  holds regardless.
- `PendingIsOccupancy` without `raced`: two workers subtract one request twice,
  and a late store of `tail` moves it back.
- `CallReturnsOrDeadlocks` without `Deadlocked`: at its deadline a call takes
  `pending_mutex_` while it holds its own mutex, and `process_message` takes
  them in the other order (`src/distributed_server.cpp:301`, `:349`).
- `CallReturnsToSoleClient` and `SoleClientIsPaired` without the condition on
  `Accepted`: a second connection overwrites `sock_fd_`
  (`src/tcp_communication.cpp:162`), and replies go to the other node.
  `SoleClientIsPaired` without the one on `fenced`: nobody takes the reply to a
  fence (`src/distributed_server.cpp:1290`), and the next call does.
- `SegmentHoldsOwnLines` with node 0, and guests on it: its base address 0 turns
  the address check of the segment off, and a write to an address of no range
  lands in its lines.

Two more facts are no property of the code. An OWNED line that
`handle_remote_invalidate` takes from its local owner counts no writeback
(`src/coherency_engine.cpp:411`). An address can have several entries in an
expander's occupation list: two threads race between the lookup in the address
cache and the new entry (`src/cxlendpoint.cpp:199`, `:219`), and
`perform_migration` adds one without a lookup (`src/cxlcontroller.cpp:160`).

## Proofs

All theorems hold for every value of the constants that satisfies the named
assumptions of the modules (finite sets of threads and nodes, positive sizes).
Only `ServerMemory` has a hypothesis of its own, the default base address; the
conditions of the other properties are part of the properties.

- **CoherencyEngineProofs.** `EngineInv` is the type invariant with
  `DirectoryConsistent`, `HitIsFresh` and `DirtyUntilWriteback`. They are
  inductive only together: the hit path of `process_write` leaves the sharers
  alone, so freshness needs that a MODIFIED line has none. The action properties
  `RevocationsAreCharged` and `AccessIsKept` follow from it. `FairShares` is
  inductive beside the types. `EngineImplementsMemory`: `process_read` is the
  memory's `Read`, `process_write` and `process_atomic` are its `Write`,
  `handle_remote_invalidate` is `Lose`, `handle_remote_writeback` is `Lose` and
  `handle_remote_downgrade` is `Downgrade` unless they change nothing, and the
  heads do not show. `EngineCoherent`
  states the memory's `Coherent` of the engine.
- **MainServerProofs.** `ServerInv` (types and MESI consistency). For
  `OrderedMemoryIsCurrent`, with `BaseAddr = 0`: `NothingNewer`, that no entry of
  an ordered line is stamped later than its last access, so a read applies none.
  `ActiveBalanced` needs that no worker is both entered and leaving.
  `RevocationsAreRegistered` counts the entries that a write appends: one per
  thread it takes the line from. All hold across restarts, and cover aliasing
  addresses and other base addresses, which the run does not.
- **CXLMemExpanderProofs.** `ExpanderInv`, for any number of threads: the issue
  loop holds `queue_mutex_`, a thread inside `insert` has an address, the queue
  limit counts threads between test and push. `CreditInv` adds that a credit
  tested by the thread in the issue loop is still there when it is consumed,
  unless a request was retyped: the head of the queue changes its type only in
  `replace_entry`, and there only when it is also the last.
- **PgasSlotsProofs.** Any number of clients, workers and slots, shared or not.
  `Types` are the types; the `...Does` lemmas say field by field what each action
  changes. `HistoryInv`: a slot carries a request of one of its own clients that
  has begun, and nothing has happened to the requests to come. `CalmInv` says of
  each undisturbed slot that at most one client is between `fill` and `receive`
  (`OneHolder`), at most one worker between `poll` and `execute` (`OneExecutor`),
  that it executes what the waiting client asked for (`Loaded`, `Posted`,
  `Carried`), and that an answer in the slot is to the request of its holder and
  says how often it was executed (`AnswerHeld`). It needs `HistoryInv`: a request
  that begins must not have been executed. `AnsweredOnce` follows, and so
  does the refinement: `request` is the service's `Call`, `execute` its `Perform`
  or `Refuse`, `receive` and a timeout before the slot was free its `Return`,
  any other effect on a disturbed slot, and what disturbs one, its `Stray`; the
  other steps are stutters.
- **ShmRingProofs.** Any ring size, number of workers and requests at a time.
  `RingInv`: a ready entry holds a request nobody has taken, no two ready entries
  hold the same, and a worker that is about to take a request has not taken it
  before and looks at its only ready entry; `TakenOncePerWorker` follows.
  `TakenInv`: wherever a response is (in the
  ring, in a worker's hands, at the client), its request was taken;
  `ReceivedWasTaken` follows. `Occupancy`, until a race: at most one worker is
  about to take a request, it is the one at `tail`, and the ready entries are
  those from `tail` to `head`; `PendingIsOccupancy` follows. `PhaseInv`: while the
  ring is orderly, the ring, the client and the workers are together in one of
  five phases of a request (idle, sending, published, responding, answered).
  `RingImplementsRequests` rests on `RingInv`, `TakenInv` and `PhaseInv`:
  `send_request` is `Ask`, `take_request` is `Serve`, `wait_for_response` is
  `Receive` when it returns, giving up is `GiveUp`, what sets `raced` is `Race`,
  and the rest are stutters.
- **MessageManagerProofs.** `SafeInv` is `TypeInv` (a thread that is doing
  something has a peer), `LockInv` and `ResponseInv`. `LockInv`: a worker past
  `find_pending` holds the node's `pending_mutex_`, and the request it found is
  pending and its client still inside the call, so the buffer it writes to is
  alive. `ResponseInv`: wherever a response is (in a ring, in a worker's hands,
  in a buffer), its request was executed. The rings may lose, repeat and mix up
  messages, so no order of messages is used.
- **DistributedServerProofs.** `Tables`: every range in a decoder is the segment
  of its target, so the first range that holds an address is its owner's.
  `Lines`: a line of a segment holds its own address, because the segment's
  check admits only addresses for which the index computation is the offset.
  `Types`, which gives `TypeOK`: beyond the shapes, a thread that sends or waits
  has a target and a kind of request, and a handler that waits or answers has a
  socket. The `...Moves` lemmas say which thread, handler or stream a step
  replaces and by what; every later proof about the cluster uses those instead
  of the actions. `Held`, `Opened`, `Used` and `Served` are what the steps keep
  about the connections: a waiting thread holds `connections_mutex_`, a
  connection is opened and accepted once, only accepted ones are behind
  `sock_fd_` and the sockets of the handlers, and a server stays connected while
  its only client is up.
- **DistributedClusterProofs.** `SoleClientIsPaired` is `Pairs` counted: between a
  sole client and its server there is nothing, or one thread waits and its
  request is in one place, the request stream, the handler or the reply stream.
  `PairInv` adds the types and the four facts above, without which a request
  could be answered on another socket or a second thread could send. A step of
  another pair leaves `Paired` alone; a step of the pair moves the request on.
  `SearchesAgree`: the binary search is a recursive function, so it is first
  shown to exist (the right answer on every window of the table satisfies its
  equation) and to be unique (the smallest window on which two solutions differ
  has none); the probes leave out only ranges that do not hold the address,
  because the ranges of a table have one size. `SortsTable` shows that a table
  has an order for `sort_ranges` to leave it in, by the shortest table without
  one. The library's least element of a set of numbers stands in for the
  induction theorems, which the provers cannot instantiate.

Only model-checked: liveness (`RequestReturns`, `RequestAnswered`,
`CallReturnsOrDeadlocks`, `CallReturnsToSoleClient`), which is outside TLAPS
here. Every invariant, action property and refinement of a passing run is a
theorem.

## Left out of the models

Latencies, bandwidth and statistics are numbers nothing branches on, apart from
the pipeline latency that decides when a request completes, which is any value
up to a bound. Read-only requests (`GET_SHM_INFO`, `LSA_READ`) change no state.
Creating and mapping segments is system calls. A race that corrupts a C++
container is not modelled; the order of its accesses is. A TCP message is sent
and received whole. The nodes of a cluster have equal capacities, as
`connect_tcp_node` assumes (`src/distributed_server.cpp:1580`), and a crashed
node does not come back. The interleavings inside one node of a cluster are
those of `MainServer`: a local call is one step. In `MessageManager` the contents
of the label storage are left out; a call is its number.

## Not modelled

- **The HYBRID mode of a cluster** and label storage over a socket of its own:
  the first mixes the two transports that `MessageManager` and
  `DistributedServer` model one by one. Also `stop`, `deregister_node` and
  `join_cluster`: a node ends by a crash or not at all. `DistributedMHSLDManager`
  is under `#if 0`.
- **The interleaved HDM decoder**: nothing configures a target.
- **MHSLDDevice, FabricLink credits, RemoteCXLExpander**: nothing calls
  `enable_mhsld` or `acquire_credit`. The LogP and congestion formulas are
  floating-point arithmetic that nothing branches on.
- **CXLController, CXLSwitch, policies**: placement, migration and back
  invalidation follow heuristics over a sampled trace, on one thread of the
  simulator. Both change an expander's occupation without telling its caches
  (`src/cxlcontroller.cpp:160`, `:436`); `PROJECT.json` lists that as a hazard.
- **Reorder buffer**: a sequential trace-driven count of stalled cycles.
- **RDMA, monitoring** (perf, PEBS, LBR, uncore, bpf): device and kernel I/O.
- **QEMU client library**: its connection is one request and one response under
  a lock, as the clients of `MainServer` make it. No server fills its
  invalidation ring.
- **Stand-alone QEMU servers**: earlier variants of the memory server.
- **MPI shim of the GROMACS workload**: a program that runs on the emulated
  memory, not a part of it.
