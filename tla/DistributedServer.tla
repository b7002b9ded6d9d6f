-------------------------- MODULE DistributedServer --------------------------
(***************************************************************************)
(* A cluster of DistributedMemoryServer nodes on the TCP transport (no     *)
(* message manager).  A node initialises its segment and its TCPServer,    *)
(* connects to its peers, calibrates the LogP model with one request per   *)
(* sample, and then serves the calls of its guests: a call on an address   *)
(* of another node is sent to it and waited for with connections_mutex_    *)
(* held.                                                                   *)
(*                                                                         *)
(* The TCPServer of a node has ONE sock_fd_ and ONE connected_ flag for    *)
(* all its connections, and a handler thread per accepted connection: a    *)
(* handler reads from the socket it finds in sock_fd_ and answers on the   *)
(* socket it finds there when it answers.  No message handler is ever      *)
(* registered, so every request is answered with status 0 and executed     *)
(* nowhere.                                                                *)
(*                                                                         *)
(* Data: an address is a line number.  A line of a segment holds the       *)
(* address of the last write to it, so that a line written for another     *)
(* address shows.  A message is small enough to be sent and received       *)
(* whole.  A request is its operation; a reply is the node and operation   *)
(* of the request it answers.  A node may crash; it does not come back.    *)
(***************************************************************************)
EXTENDS HDMDecoder, FiniteSets

CONSTANTS
    NumNodes,         \* number of nodes
    capacity,         \* lines of a node's segment, header included
    num_cachelines,   \* lines of its data area
    Peers,            \* Peers[n]: the --tcp-peers of node n, in order
    Guest,            \* the client threads a node may have
    Guests,           \* Guests[n]: the ones node n has
    Op,               \* the operations guests use
    Addr,             \* the addresses guests use
    MaxCalls,         \* bound on the calls of all guests
    MaxCrashes        \* bound on crashes

Node == 0 .. NumNodes - 1

ASSUME ClusterAssumption ==
    /\ NumNodes \in Nat \ {0}
    /\ capacity \in Nat \ {0}
    /\ num_cachelines \in 1 .. capacity
    /\ Peers \in [Node -> Seq(Node)]
    /\ Op \subseteq {"read", "write", "atomic"}
    /\ Addr \subseteq 0 .. NumNodes * capacity - 1
    /\ Guest \cap {"main", "none"} = {}
    /\ Guests \in [Node -> SUBSET Guest]
    /\ MaxCalls \in Nat
    /\ MaxCrashes \in Nat

Thread == {"main"} \cup Guest
None == "none"
Kind == Op \cup {"calibrate", "fence"}

VARIABLES
    up,         \* up[n]: node n has not crashed
    boot,       \* boot[n]: how far main has come, and the peers left to do
    ranges,     \* ranges[n]: the table of node n's HDM decoder
    mem,        \* mem[n]: the data area of node n
    conn,       \* conn[n]: the peers in connections_ of node n
    mutex,      \* mutex[n]: the thread that holds connections_mutex_, or None
    thread,     \* thread[n][t]: what thread t of node n is doing
    backlog,    \* backlog[m]: connections node m has still to accept
    sock,       \* sock[m]: the peer behind TCPServer::sock_fd_, or NoSocket
    connected,  \* connected[m]: TCPServer::connected_
    handler,    \* handler[m][p]: the thread spawned for p's connection
    requests,   \* requests[p][m]: the stream from p to m
    replies,    \* replies[p][m]: the stream from m to p
    acked,      \* the addresses of forwarded writes that returned 0
    fenced,     \* fenced[n]: the peers that node n has sent a fence to
    calls,      \* number of calls so far
    crashes     \* number of crashes so far

vars == <<up, boot, ranges, mem, conn, mutex, thread, backlog, sock, connected,
          handler, requests, replies, acked, fenced, calls, crashes>>

client == <<boot, ranges, mem, conn, mutex, thread, acked, fenced, calls>>
server == <<sock, connected, handler, backlog>>

Unwritten == -1
NoSocket == -1
Base(n) == n * capacity
Owns(n, a) == Base(n) <= a /\ a < Base(n) + capacity

Idle == [pc |-> "idle", op |-> None, addr |-> 0, target |-> NoTarget, left |-> {}]
NoMessage == [from |-> NoTarget, op |-> None]
NoHandler == [pc |-> None, fd |-> NoSocket, msg |-> NoMessage]

Init ==
    /\ up = [n \in Node |-> TRUE]
    /\ boot = [n \in Node |-> [phase |-> "off", todo |-> <<>>, left |-> {}]]
    /\ ranges = [n \in Node |-> <<>>]
    /\ mem = [n \in Node |-> [i \in 0 .. num_cachelines - 1 |-> Unwritten]]
    /\ conn = [n \in Node |-> {}]
    /\ mutex = [n \in Node |-> None]
    /\ thread = [n \in Node |-> [t \in Thread |-> Idle]]
    /\ backlog = [n \in Node |-> <<>>]
    /\ sock = [n \in Node |-> NoSocket]
    /\ connected = [n \in Node |-> FALSE]
    /\ handler = [n \in Node |-> [p \in Node |-> NoHandler]]
    /\ requests = [p \in Node |-> [m \in Node |-> <<>>]]
    /\ replies = [p \in Node |-> [m \in Node |-> <<>>]]
    /\ acked = {}
    /\ fenced = [n \in Node |-> {}]
    /\ calls = 0
    /\ crashes = 0
-----------------------------------------------------------------------------
(* The start of a node: main(), initialize, connect_tcp_node, calibrate. *)

\* An error for testing: the peer's range starts one line late.
one_line_late(p) == [base |-> Base(p) + 1, size |-> capacity]

\* The range a node assumes of a peer: the same capacity.
peer_range(p) == [base |-> Base(p), size |-> capacity]

\* What main does next: connect to the peers in todo, then calibrate_all of
\* the connected ones.
Onward(todo, connections) ==
    IF todo # <<>> THEN [phase |-> "connect", todo |-> todo, left |-> {}]
    ELSE [phase |-> "calibrate", todo |-> <<>>, left |-> connections]

\* get_connected_nodes lists the nodes of a map, by number: the next of a list.
FirstOf(nodes) == {p \in nodes : \A q \in nodes : p <= q}

\* The segment gets its base address, the decoder the node's own range, and
\* the TCPServer listens.
Initialize(n) ==
    /\ up[n] /\ boot[n].phase = "off"
    /\ ranges' = [ranges EXCEPT ![n] = add_range(<<>>, Base(n), capacity, n)]
    /\ boot' = [boot EXCEPT ![n] = Onward(Peers[n], {})]
    /\ UNCHANGED <<up, mem, conn, mutex, thread, server, requests, replies,
                   acked, fenced, calls, crashes>>

\* Whether connect_to_node succeeds: a peer that does not listen yet, or no
\* longer, refuses; a second connection to one peer is not opened.
connect_to_node(n, p) == p \in conn[n] \/ (up[p] /\ boot[p].phase # "off")

\* connect_to_node, then the peer's range, which is added again for a peer
\* that is named twice.
connect_tcp_node(n) ==
    /\ up[n] /\ boot[n].phase = "connect"
    /\ LET p == Head(boot[n].todo)
       IN  IF connect_to_node(n, p)
           THEN /\ conn' = [conn EXCEPT ![n] = @ \cup {p}]
                /\ ranges' = [ranges EXCEPT ![n] =
                     add_range(@, peer_range(p).base, peer_range(p).size, p)]
                /\ backlog' = [backlog EXCEPT ![p] =
                     IF p \in conn[n] THEN @ ELSE Append(@, n)]
           ELSE UNCHANGED <<conn, ranges, backlog>>
    /\ boot' = [boot EXCEPT ![n] = Onward(Tail(@.todo), conn'[n])]
    /\ UNCHANGED <<up, mem, mutex, thread, sock, connected, handler, requests,
                   replies, acked, fenced, calls, crashes>>

\* calibrate_node: one sample.
calibrate_node(n) ==
    /\ up[n] /\ boot[n].phase = "calibrate"
    /\ thread[n]["main"].pc = "idle"
    /\ \E p \in FirstOf(boot[n].left) :
         /\ thread' = [thread EXCEPT ![n]["main"] =
              [pc |-> "send", op |-> "calibrate", addr |-> 0, target |-> p, left |-> {}]]
         /\ boot' = [boot EXCEPT ![n].left = @ \ {p}]
    /\ UNCHANGED <<up, ranges, mem, conn, mutex, server, requests, replies,
                   acked, fenced, calls, crashes>>

\* start has been reached: main is done and the node serves guests.
Started(n) ==
    /\ boot[n].phase = "calibrate" /\ boot[n].left = {}
    /\ thread[n]["main"].pc = "idle"
-----------------------------------------------------------------------------
(* The segment: SharedMemoryManager with the node's base address. *)

\* An error for testing: the upper end of the segment is not checked.
any_upper_line(n, a) == n = 0 \/ Base(n) <= a

\* Whether get_cacheline_data finds a line: node 0 has base address 0, which
\* turns the range check off.
is_valid_address(n, a) ==
    n = 0 \/ (Base(n) <= a /\ a < Base(n) + num_cachelines)

cacheline_to_index(n, a) == (a - Base(n)) % num_cachelines

\* A write or an atomic leaves its address in the line, a read nothing.
local_access(n, op, a) ==
    mem' = IF op # "read" /\ is_valid_address(n, a)
           THEN [mem EXCEPT ![n][cacheline_to_index(n, a)] = a]
           ELSE mem

is_local_address(n, a) == Owns(n, a)

\* Where a call on an address goes: reads and writes of an address that no
\* range holds are tried locally, atomics are not.
StaysLocal(n, op, a) ==
    \/ get_home_node(ranges[n], a) = n
    \/ op # "atomic" /\ (is_local_address(n, a) \/ get_home_node(ranges[n], a) = NoTarget)
-----------------------------------------------------------------------------
(* The calls of guests: handle_tcp_client, read, write, atomic_*, fence. *)

Serving(n, g) ==
    /\ up[n] /\ Started(n)
    /\ thread[n][g].pc = "idle"
    /\ calls < MaxCalls

\* A local call is answered at once; the interleavings inside a node are
\* those of MainServer.
local_call(n, g, op, a) ==
    /\ Serving(n, g)
    /\ StaysLocal(n, op, a)
    /\ local_access(n, op, a)
    /\ calls' = calls + 1
    /\ UNCHANGED <<up, boot, ranges, conn, mutex, thread, server, requests,
                   replies, acked, fenced, crashes>>

remote_call(n, g, op, a) ==
    /\ Serving(n, g)
    /\ ~StaysLocal(n, op, a)
    /\ thread' = [thread EXCEPT ![n][g] =
         [pc |-> "send", op |-> op, addr |-> a,
          target |-> get_home_node(ranges[n], a), left |-> {}]]
    /\ calls' = calls + 1
    /\ UNCHANGED <<up, boot, ranges, mem, conn, mutex, server, requests,
                   replies, acked, fenced, crashes>>

\* The connected nodes are listed once, before the first fence is sent.
fence(n, g) ==
    /\ Serving(n, g)
    /\ thread' = [thread EXCEPT ![n][g] =
         IF conn[n] = {} THEN Idle
         ELSE [Idle EXCEPT !.pc = "fence", !.op = "fence", !.left = conn[n]]]
    /\ calls' = calls + 1
    /\ UNCHANGED <<up, boot, ranges, mem, conn, mutex, server, requests,
                   replies, acked, fenced, crashes>>

\* The loop of fence goes on after p, or returns after the last node.
NextFence(call, p) ==
    IF call.left = {p} THEN Idle ELSE [call EXCEPT !.left = @ \ {p}]

\* send_message: one fence, no reply is awaited.  A send to a node that is
\* down fails and is ignored.
send_message(n, g) ==
    /\ up[n] /\ thread[n][g].pc = "fence"
    /\ mutex[n] = None
    /\ \E p \in FirstOf(thread[n][g].left) :
         /\ requests' = IF up[p]
                        THEN [requests EXCEPT ![n][p] = Append(@, "fence")]
                        ELSE requests
         /\ fenced' = [fenced EXCEPT ![n] = @ \cup {p}]
         /\ thread' = [thread EXCEPT ![n][g] = NextFence(@, p)]
    /\ UNCHANGED <<up, boot, ranges, mem, conn, mutex, server, replies, acked,
                   calls, crashes>>

\* An error for testing: the mutex is released while the reply is awaited.
HoldsNothing(t) == None

\* send_message_wait_response keeps connections_mutex_ until the reply.
HoldsMutex(t) == t

\* is_connected and send_request.  connections_ does not change once guests
\* are served, so taking the mutex for each of the two is taking it once.
\* Without a connection there is no other transport: the call fails, as does
\* a send to a node that is down.
send_request(n, t) ==
    /\ up[n] /\ thread[n][t].pc = "send"
    /\ mutex[n] = None
    /\ LET m == thread[n][t].target
       IN  IF m \in conn[n] /\ up[m]
           THEN /\ requests' = [requests EXCEPT ![n][m] = Append(@, thread[n][t].op)]
                /\ thread' = [thread EXCEPT ![n][t].pc = "wait"]
                /\ mutex' = [mutex EXCEPT ![n] = HoldsMutex(t)]
           ELSE /\ thread' = [thread EXCEPT ![n][t] = Idle]
                /\ UNCHANGED <<requests, mutex>>
    /\ UNCHANGED <<up, boot, ranges, mem, conn, server, replies, acked, fenced,
                   calls, crashes>>

\* forward_write_tcp returns 0 for a reply with status 0.
forward_write_tcp(call) ==
    acked' = IF call.op = "write" THEN acked \cup {call.addr} ELSE acked

\* send_request takes the next reply of the stream, which is always a
\* success, and the call returns 0.
receive_reply(n, t) ==
    /\ up[n] /\ thread[n][t].pc = "wait"
    /\ LET m == thread[n][t].target
       IN  /\ replies[n][m] # <<>>
           /\ replies' = [replies EXCEPT ![n][m] = Tail(@)]
    /\ forward_write_tcp(thread[n][t])
    /\ thread' = [thread EXCEPT ![n][t] = Idle]
    /\ mutex' = [mutex EXCEPT ![n] = None]
    /\ UNCHANGED <<up, boot, ranges, mem, conn, server, requests, fenced, calls,
                   crashes>>

\* An error for testing: the mutex stays locked when recv fails.
receive_fails_locked(n, t) ==
    /\ up[n] /\ thread[n][t].pc = "wait"
    /\ ~up[thread[n][t].target]
    /\ thread' = [thread EXCEPT ![n][t] = Idle]
    /\ UNCHANGED <<up, boot, ranges, mem, conn, mutex, server, requests,
                   replies, acked, fenced, calls, crashes>>

\* The peer is down: recv fails, sooner or later, and the call with it.
receive_fails(n, t) ==
    /\ up[n] /\ thread[n][t].pc = "wait"
    /\ ~up[thread[n][t].target]
    /\ thread' = [thread EXCEPT ![n][t] = Idle]
    /\ mutex' = [mutex EXCEPT ![n] = None]
    /\ UNCHANGED <<up, boot, ranges, mem, conn, server, requests, replies,
                   acked, fenced, calls, crashes>>
-----------------------------------------------------------------------------
(* The TCPServer of a node. *)

\* An error for testing: sock_fd_ is not assigned.
accept_unassigned(m) ==
    /\ up[m] /\ backlog[m] # <<>>
    /\ handler' = [handler EXCEPT ![m][Head(backlog[m])] = [NoHandler EXCEPT !.pc = "loop"]]
    /\ connected' = [connected EXCEPT ![m] = TRUE]
    /\ backlog' = [backlog EXCEPT ![m] = Tail(@)]
    /\ UNCHANGED <<up, client, sock, requests, replies, crashes>>

\* accept_connection and the detached handler thread of accept_loop.
accept_connection(m) ==
    /\ up[m] /\ backlog[m] # <<>>
    /\ LET p == Head(backlog[m])
       IN  /\ sock' = [sock EXCEPT ![m] = p]
           /\ handler' = [handler EXCEPT ![m][p] = [NoHandler EXCEPT !.pc = "loop"]]
    /\ connected' = [connected EXCEPT ![m] = TRUE]
    /\ backlog' = [backlog EXCEPT ![m] = Tail(@)]
    /\ UNCHANGED <<up, client, requests, replies, crashes>>

\* Leaving the loop of handle_client ends the service of every connection.
Leave(m, p) ==
    /\ handler' = [handler EXCEPT ![m][p] = [NoHandler EXCEPT !.pc = "exit"]]
    /\ connected' = [connected EXCEPT ![m] = FALSE]

\* receive_message reads sock_fd_ and then waits on that socket.
receive_message(m, p) ==
    /\ up[m] /\ handler[m][p].pc = "loop"
    /\ IF connected[m]
       THEN /\ handler' = [handler EXCEPT ![m][p].pc = "recv", ![m][p].fd = sock[m]]
            /\ UNCHANGED connected
       ELSE Leave(m, p)
    /\ UNCHANGED <<up, client, sock, backlog, requests, replies, crashes>>

\* A message arrives.  There is no message handler: nothing is executed.
message_arrives(m, p) ==
    /\ up[m] /\ handler[m][p].pc = "recv"
    /\ LET fd == handler[m][p].fd
       IN  /\ requests[fd][m] # <<>>
           /\ requests' = [requests EXCEPT ![fd][m] = Tail(@)]
           /\ handler' = [handler EXCEPT ![m][p].pc = "reply",
                            ![m][p].msg = [from |-> fd, op |-> Head(requests[fd][m])]]
    /\ UNCHANGED <<up, client, sock, connected, backlog, replies, crashes>>

\* The other end is closed: recv fails.
peer_closed(m, p) ==
    /\ up[m] /\ handler[m][p].pc = "recv"
    /\ ~up[handler[m][p].fd]
    /\ Leave(m, p)
    /\ UNCHANGED <<up, client, sock, backlog, requests, replies, crashes>>

\* send_message answers on the socket that sock_fd_ names now.
reply_message(m, p) ==
    /\ up[m] /\ handler[m][p].pc = "reply" /\ connected[m]
    /\ replies' = [replies EXCEPT ![sock[m]][m] = Append(@, handler[m][p].msg)]
    /\ handler' = [handler EXCEPT ![m][p] = [NoHandler EXCEPT !.pc = "loop"]]
    /\ UNCHANGED <<up, client, sock, connected, backlog, requests, crashes>>

\* send_message fails: the server is marked unconnected, or the peer is down.
reply_fails(m, p) ==
    /\ up[m] /\ handler[m][p].pc = "reply"
    /\ ~connected[m] \/ ~up[sock[m]]
    /\ Leave(m, p)
    /\ UNCHANGED <<up, client, sock, backlog, requests, replies, crashes>>

\* The process of a node ends; the kernel closes its sockets.
Crash(n) ==
    /\ up[n] /\ boot[n].phase # "off" /\ crashes < MaxCrashes
    /\ up' = [up EXCEPT ![n] = FALSE]
    /\ crashes' = crashes + 1
    /\ UNCHANGED <<client, server, requests, replies>>
-----------------------------------------------------------------------------
Boot(n) ==
    Initialize(n) \/ connect_tcp_node(n) \/ calibrate_node(n)

Issue(n, g) ==
    \/ \E op \in Op, a \in Addr : local_call(n, g, op, a) \/ remote_call(n, g, op, a)
    \/ fence(n, g)

Proceed(n, t) ==
    \/ send_message(n, t) \/ send_request(n, t) \/ receive_reply(n, t) \/ receive_fails(n, t)

handle_client(m, p) ==
    \/ receive_message(m, p) \/ message_arrives(m, p) \/ peer_closed(m, p)
    \/ reply_message(m, p) \/ reply_fails(m, p)

\* The threads of node n that make calls, main if it has peers to calibrate,
\* and the nodes that connect to it.
ThreadsOf(n) == Guests[n] \cup (IF Peers[n] = <<>> THEN {} ELSE {"main"})
Clients(n) == {p \in Node : \E i \in DOMAIN Peers[p] : Peers[p][i] = n}

Next ==
    \E n \in Node :
      \/ Boot(n)
      \/ \E g \in Guests[n] : Issue(n, g)
      \/ \E t \in ThreadsOf(n) : Proceed(n, t)
      \/ accept_connection(n)
      \/ \E p \in Clients(n) : handle_client(n, p)
      \/ Crash(n)

\* A node that is up keeps running its accept loop, its handler threads and
\* the threads inside a call.  Guests need not call, nor main go on to the
\* next peer.
Fairness ==
    \A n \in Node :
      /\ \A t \in ThreadsOf(n) : WF_vars(Proceed(n, t))
      /\ WF_vars(accept_connection(n))
      /\ \A p \in Clients(n) : WF_vars(handle_client(n, p))

Spec == Init /\ [][Next]_vars /\ Fairness
-----------------------------------------------------------------------------
Phase == {"off", "connect", "calibrate"}
ThreadState == [pc : {"idle", "send", "wait", "fence"},
                op : Kind \cup {None}, addr : Addr \cup {0},
                target : Node \cup {NoTarget}, left : SUBSET Node]
Reply == [from : Node, op : Kind]
HandlerState == [pc : {None, "loop", "recv", "reply", "exit"},
                 fd : Node \cup {NoSocket}, msg : Reply \cup {NoMessage}]
AddressRange == [base : Int, size : Nat, target : Node]

\* Every variable has its type.  Beyond the shapes: a handler that waits on
\* a socket or answers does so on one, and a thread that waits for a reply
\* waits for a node.
TypeOK ==
    /\ up \in [Node -> BOOLEAN]
    /\ boot \in [Node -> [phase : Phase, todo : Seq(Node), left : SUBSET Node]]
    /\ ranges \in [Node -> Seq(AddressRange)]
    /\ mem \in [Node -> [0 .. num_cachelines - 1 -> Addr \cup {Unwritten}]]
    /\ conn \in [Node -> SUBSET Node]
    /\ mutex \in [Node -> Thread \cup {None}]
    /\ thread \in [Node -> [Thread -> ThreadState]]
    /\ backlog \in [Node -> Seq(Node)]
    /\ sock \in [Node -> Node \cup {NoSocket}]
    /\ connected \in [Node -> BOOLEAN]
    /\ handler \in [Node -> [Node -> HandlerState]]
    /\ requests \in [Node -> [Node -> Seq(Kind)]]
    /\ replies \in [Node -> [Node -> Seq(Reply)]]
    /\ acked \subseteq Addr
    /\ fenced \in [Node -> SUBSET Node]
    /\ calls \in 0 .. MaxCalls
    /\ crashes \in 0 .. MaxCrashes
    /\ \A n \in Node, t \in Thread :
         thread[n][t].pc = "wait" => thread[n][t].target \in Node
    /\ \A m \in Node, p \in Node :
         /\ handler[m][p].pc # None => sock[m] \in Node
         /\ handler[m][p].pc = "recv" => handler[m][p].fd \in Node
         /\ handler[m][p].pc = "reply" => handler[m][p].msg \in Reply

\* No node believes an address to be at a node other than its owner: whatever
\* peers answered, and in whatever order, get_home_node names the owner or
\* nothing.  A wrong base in connect_tcp_node would send writes to a stranger.
HomeIsOwner ==
    \A n \in Node, a \in 0 .. NumNodes * capacity - 1 :
      LET home == get_home_node(ranges[n], a)
      IN  home # NoTarget => home \in Node /\ Owns(home, a)

\* Sorting changes no routing: whatever order sort_ranges leaves a table in,
\* the binary search that decode_range would use on it finds the node that
\* the linear scan of the unsorted table finds.
SearchesAgree ==
    \A n \in Node, a \in 0 .. NumNodes * capacity - 1 :
      \A sorted \in sort_ranges(ranges[n]) :
        decode_sorted(sorted, a) = decode_range(ranges[n], a)

\* The fallback of read and write, which tries an address of no range
\* locally, never puts it into a segment of a node other than 0: a line of
\* such a segment holds what was written for its own address.  Node 0 is
\* excepted because its base address 0 turns the check of the segment off.
SegmentHoldsOwnLines ==
    \A n \in Node \ {0}, i \in 0 .. num_cachelines - 1 :
      mem[n][i] \in {Unwritten, Base(n) + i}

Accepted(m) == {p \in Node : handler[m][p].pc # None}
Handled(m, p) == {q \in Node : handler[m][q].pc = "reply" /\ handler[m][q].msg.from = p}
Waiting(n, m) == {t \in Thread : thread[n][t].pc = "wait" /\ thread[n][t].target = m}
InFlight(n, m) == Len(requests[n][m]) + Cardinality(Handled(m, n)) + Len(replies[n][m])

\* While node n is the only node whose connection node m has accepted, and n
\* has sent m no fence, there is a request or a reply between them exactly
\* when one thread of n waits for m, only one, and the reply is to that
\* thread's request: holding connections_mutex_ over send_request is what
\* pairs replies, which carry no number, with requests.
SoleClientIsPaired ==
    \A n \in Node, m \in Node :
      (up[n] /\ up[m] /\ Accepted(m) \subseteq {n} /\ m \notin fenced[n]) =>
        /\ InFlight(n, m) = Cardinality(Waiting(n, m))
        /\ InFlight(n, m) <= 1
        /\ \A t \in Waiting(n, m), i \in DOMAIN replies[n][m] :
             replies[n][m][i] = [from |-> n, op |-> thread[n][t].op]

\* A call of node n returns, through crashes of its peers, unless a peer of n
\* has accepted a second connection: then sock_fd_ may name the other one,
\* the reply may go there or never be made, and the waiting thread keeps
\* connections_mutex_.
CallReturnsToSoleClient ==
    \A n \in Node : \A t \in ThreadsOf(n) :
      thread[n][t].pc # "idle" ~>
        \/ thread[n][t].pc = "idle"
        \/ ~up[n]
        \/ \E m \in conn[n] : ~(Accepted(m) \subseteq {n})

\* What the server offers on its TCP transport: a write that another node
\* owns and that returned 0 is in the owner's segment.
RemoteWriteIsStored ==
    \A a \in acked, n \in Node :
      (up[n] /\ Owns(n, a)) => \E i \in 0 .. num_cachelines - 1 : mem[n][i] = a
=============================================================================
