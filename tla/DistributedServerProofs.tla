----------------------- MODULE DistributedServerProofs -----------------------
(***************************************************************************)
(* Routing in a cluster of any size: the tables of the decoders name only  *)
(* owners, and the local fallback stays out of foreign segments.  The      *)
(* types of the cluster, with what every step does to threads, handlers    *)
(* and streams.  And what the connections keep: the mutex, the backlog and *)
(* the sockets behind the handlers.                                        *)
(***************************************************************************)
EXTENDS DistributedServer, TLAPS

\* A range of a decoder is the segment of its target.
SegmentRange(r) ==
    /\ r.target \in Node
    /\ r.base = Base(r.target)
    /\ r.size = capacity

Segments == {r \in AddressRange : SegmentRange(r)}

\* Every table is a sequence of such ranges, and a node that is connecting
\* has a next peer.
Tables ==
    /\ ranges \in [Node -> Seq(Segments)]
    /\ conn \in [Node -> SUBSET Node]
    /\ boot \in [Node -> [phase : Phase, todo : Seq(Node), left : SUBSET Node]]
    /\ \A n \in Node : boot[n].phase = "connect" => boot[n].todo # <<>>

\* The lines of every segment, and what those of a node other than 0 hold.
Lines ==
    /\ mem \in [Node -> [0 .. num_cachelines - 1 -> Int]]
    /\ SegmentHoldsOwnLines

\* What a remote call works on while it is under way: nothing of these.
untouched == <<ranges, mem, boot, conn>>

\* add_range with the range of a segment extends a table of segments: the
\* only two calls of it, in initialize and connect_tcp_node.
LEMMA AddsSegment ==
    ASSUME NEW rs \in Seq(Segments), NEW p \in Node
    PROVE  add_range(rs, Base(p), capacity, p) \in Seq(Segments)
<1>1. p * capacity \in Int
  BY ClusterAssumption DEF Node
<1>2. [base |-> Base(p), size |-> capacity, target |-> p] \in Segments
  BY <1>1, ClusterAssumption DEF Segments, SegmentRange, Base, AddressRange
<1> QED
  BY <1>2 DEF add_range

\* decode_range returns the target of a range that holds the address, so a
\* table of segments names the owner of the address or nothing.
LEMMA FindsOwner ==
    ASSUME NEW rs \in Seq(Segments), NEW a \in Int,
           get_home_node(rs, a) # NoTarget
    PROVE  get_home_node(rs, a) \in Node /\ Owns(get_home_node(rs, a), a)
<1> DEFINE stops == Stops(rs, a)
           first == CHOOSE i \in stops : TRUE
<1>1. stops # {} /\ get_home_node(rs, a) = rs[first].target
  BY DEF get_home_node, decode_range, decode_interleaved
<1>2. first \in stops
  BY <1>1
<1>3. rs[first] \in Segments /\ Holds(rs[first], a)
  BY <1>2 DEF Stops
<1> QED
  BY <1>1, <1>3 DEF Segments, SegmentRange, Holds, Owns

\* A line inside a segment is its own index: the remainder in
\* cacheline_to_index changes nothing there.
LEMMA IndexInside ==
    ASSUME NEW x \in 0 .. num_cachelines - 1
    PROVE  x % num_cachelines = x
<1>1. num_cachelines \in Nat \ {0}
  BY ClusterAssumption
<1> QED
  BY <1>1

\* The base address initialize gives a segment is a number.
LEMMA BaseType ==
    ASSUME NEW n \in Node
    PROVE  Base(n) \in Int
BY ClusterAssumption DEF Node, Base

\* A local access keeps every line of a node other than 0 to its own address:
\* is_valid_address lets only addresses of the data area through, and those
\* have their own lines.
LEMMA AccessKeepsLines ==
    ASSUME Lines, NEW n \in Node, NEW op, NEW a \in Addr, local_access(n, op, a)
    PROVE  Lines'
<1> DEFINE i == cacheline_to_index(n, a)
           Write == op # "read" /\ is_valid_address(n, a)
<1>1. a \in Int /\ num_cachelines \in Nat \ {0} /\ Base(n) \in Int
  BY ClusterAssumption, BaseType
<1>2. i \in 0 .. num_cachelines - 1
  BY <1>1 DEF cacheline_to_index
<1>3. CASE ~Write
  BY <1>3 DEF local_access, Lines, SegmentHoldsOwnLines
<1>4. CASE Write
  <2>1. mem' = [mem EXCEPT ![n][i] = a]
    BY <1>4 DEF local_access
  <2>2. n # 0 => a = Base(n) + i
    <3> SUFFICES ASSUME n # 0 PROVE a = Base(n) + i
      OBVIOUS
    <3>1. Base(n) <= a /\ a < Base(n) + num_cachelines
      BY <1>4 DEF is_valid_address
    <3>2. a - Base(n) \in 0 .. num_cachelines - 1
      BY <1>1, <3>1
    <3>3. i = a - Base(n)
      BY <3>2, IndexInside DEF cacheline_to_index
    <3> QED
      BY <1>1, <3>3
  <2> HIDE DEF i
  <2>3. mem' \in [Node -> [0 .. num_cachelines - 1 -> Int]]
    BY <1>1, <2>1, Zenon DEF Lines
  <2>4. ASSUME NEW m \in Node \ {0}, NEW k \in 0 .. num_cachelines - 1
        PROVE  mem'[m][k] \in {Unwritten, Base(m) + k}
    <3>1. CASE m = n /\ k = i
      BY <1>2, <2>1, <2>2, <3>1, Zenon DEF Lines
    <3>2. CASE ~(m = n /\ k = i)
      <4>1. mem'[m][k] = mem[m][k]
        BY <1>2, <2>1, <3>2 DEF Lines
      <4> QED
        BY <4>1 DEF Lines, SegmentHoldsOwnLines
    <3> QED
      BY <3>1, <3>2
  <2> QED
    BY <2>3, <2>4 DEF Lines, SegmentHoldsOwnLines, Base
<1> QED
  BY <1>3, <1>4

\* The only steps that change a table, a segment or the progress of main are
\* those of main itself and a local call.
LEMMA OtherSteps ==
    ASSUME [Next]_vars
    PROVE  \/ UNCHANGED untouched
           \/ \E n \in Node :
                \/ Boot(n)
                \/ \E g \in Guests[n], op \in Op, a \in Addr : local_call(n, g, op, a)
<1> SUFFICES ASSUME Next
             PROVE  \/ UNCHANGED untouched
                    \/ \E n \in Node :
                         \/ Boot(n)
                         \/ \E g \in Guests[n], op \in Op, a \in Addr :
                              local_call(n, g, op, a)
  BY DEF vars, untouched
<1>1. PICK n \in Node :
        \/ Boot(n)
        \/ \E g \in Guests[n] : Issue(n, g)
        \/ \E t \in ThreadsOf(n) : Proceed(n, t)
        \/ accept_connection(n)
        \/ \E p \in Clients(n) : handle_client(n, p)
        \/ Crash(n)
  BY DEF Next
<1>3. ASSUME NEW g \in Guests[n], Issue(n, g)
      PROVE  UNCHANGED untouched \/ \E op \in Op, a \in Addr : local_call(n, g, op, a)
  BY <1>3, Zenon DEF Issue, remote_call, fence, untouched
<1>4. ASSUME NEW t \in ThreadsOf(n), Proceed(n, t)
      PROVE  UNCHANGED untouched
  BY <1>4, Zenon DEF Proceed, send_message, send_request, receive_reply, receive_fails, untouched
<1>5. CASE accept_connection(n)
  BY <1>5, Zenon DEF accept_connection, client, untouched
<1>6. ASSUME NEW p \in Clients(n), handle_client(n, p)
      PROVE  UNCHANGED untouched
  BY <1>6, Zenon DEF handle_client, receive_message, message_arrives, peer_closed,
              reply_message, reply_fails, client, untouched
<1>7. CASE Crash(n)
  BY <1>7, Zenon DEF Crash, client, untouched
<1> QED
  BY <1>1, <1>3, <1>4, <1>5, <1>6, <1>7

\* What main goes on to: a next peer, or the calibration of the connected.
LEMMA OnwardType ==
    ASSUME NEW todo \in Seq(Node), NEW c \in SUBSET Node
    PROVE  /\ Onward(todo, c) \in [phase : Phase, todo : Seq(Node), left : SUBSET Node]
           /\ Onward(todo, c).phase = "connect" => Onward(todo, c).todo # <<>>
BY DEF Onward, Phase

\* The tables are empty before a node starts.
LEMMA TablesInit ==
    ASSUME Init
    PROVE  Tables
<1>1. /\ ranges = [n \in Node |-> <<>>] /\ conn = [n \in Node |-> {}]
      /\ boot = [n \in Node |-> [phase |-> "off", todo |-> <<>>, left |-> {}]]
  BY Zenon DEF Init
<1>2. <<>> \in Seq(Segments) /\ <<>> \in Seq(Node)
  OBVIOUS
<1>3. ranges \in [Node -> Seq(Segments)] /\ conn \in [Node -> SUBSET Node]
  BY <1>1, <1>2
<1>4. boot \in [Node -> [phase : Phase, todo : Seq(Node), left : SUBSET Node]]
  BY <1>1, <1>2 DEF Phase
<1>5. \A n \in Node : boot[n].phase # "connect"
  BY <1>1
<1> QED
  BY <1>3, <1>4, <1>5, Zenon DEF Tables

\* Only segments of nodes get into the tables.
LEMMA TablesStep == Tables /\ [Next]_vars => Tables'
<1> SUFFICES ASSUME Tables, [Next]_vars PROVE Tables'
  OBVIOUS
<1>1. CASE UNCHANGED untouched
  BY <1>1 DEF Tables, untouched
<1>2. ASSUME NEW n \in Node, Initialize(n) PROVE Tables'
  <2> DEFINE table == add_range(<<>>, Base(n), capacity, n)
             next == Onward(Peers[n], {})
  <2>1. table \in Seq(Segments)
    <3>1. <<>> \in Seq(Segments)
      OBVIOUS
    <3> QED
      BY <3>1, AddsSegment, Zenon
  <2>2. /\ next \in [phase : Phase, todo : Seq(Node), left : SUBSET Node]
        /\ next.phase = "connect" => next.todo # <<>>
    BY OnwardType, ClusterAssumption
  <2>3. /\ ranges' = [ranges EXCEPT ![n] = table] /\ boot' = [boot EXCEPT ![n] = next]
        /\ conn' = conn
    BY <1>2, Zenon DEF Initialize
  <2> HIDE DEF table, next
  <2> QED
    BY <2>1, <2>2, <2>3 DEF Tables
<1>3. ASSUME NEW n \in Node, connect_tcp_node(n) PROVE Tables'
  <2> DEFINE p == Head(boot[n].todo)
             table == add_range(ranges[n], Base(p), capacity, p)
             next == Onward(Tail(boot[n].todo), conn'[n])
  <2>1. boot[n].todo \in Seq(Node) /\ boot[n].todo # <<>>
    <3>1. boot[n].phase = "connect"
      BY <1>3, Zenon DEF connect_tcp_node
    <3> QED
      BY <3>1 DEF Tables
  <2>2. p \in Node /\ Tail(boot[n].todo) \in Seq(Node)
    BY <2>1
  <2>3. table \in Seq(Segments)
    BY <2>2, AddsSegment, Zenon DEF Tables
  <2>4. conn' = conn \/ conn' = [conn EXCEPT ![n] = @ \cup {p}]
    BY <1>3, Zenon DEF connect_tcp_node
  <2>5. conn' \in [Node -> SUBSET Node]
    <3> HIDE DEF p
    <3>1. conn[n] \cup {p} \in SUBSET Node
      BY <2>2 DEF Tables
    <3> QED
      BY <2>4, <3>1, Zenon DEF Tables
  <2>6. /\ next \in [phase : Phase, todo : Seq(Node), left : SUBSET Node]
        /\ next.phase = "connect" => next.todo # <<>>
    BY <2>2, <2>5, OnwardType, Zenon
  <2>7. boot' = [boot EXCEPT ![n] = next]
    BY <1>3, Zenon DEF connect_tcp_node
  <2>8. ranges' = ranges \/ ranges' = [ranges EXCEPT ![n] = table]
    <3>1. peer_range(p).base = Base(p) /\ peer_range(p).size = capacity
      BY DEF peer_range
    <3>2. \/ ranges' = ranges
          \/ ranges' = [ranges EXCEPT ![n] =
               add_range(ranges[n], peer_range(p).base, peer_range(p).size, p)]
      BY <1>3, Zenon DEF connect_tcp_node
    <3> QED
      BY <3>1, <3>2, Zenon
  <2> HIDE DEF table, next
  <2>9. ranges' \in [Node -> Seq(Segments)]
    BY <2>3, <2>8, Zenon DEF Tables
  <2>10. /\ boot' \in [Node -> [phase : Phase, todo : Seq(Node), left : SUBSET Node]]
         /\ \A k \in Node : boot'[k].phase = "connect" => boot'[k].todo # <<>>
    BY <2>6, <2>7 DEF Tables
  <2> QED
    BY <2>5, <2>9, <2>10 DEF Tables
<1>4. ASSUME NEW n \in Node, calibrate_node(n) PROVE Tables'
  <2>1. ranges' = ranges /\ conn' = conn
    BY <1>4, Zenon DEF calibrate_node
  <2>2. PICK p : boot' = [boot EXCEPT ![n].left = @ \ {p}]
    BY <1>4, Zenon DEF calibrate_node
  <2> DEFINE next == [boot[n] EXCEPT !.left = @ \ {p}]
  <2>3. /\ next \in [phase : Phase, todo : Seq(Node), left : SUBSET Node]
        /\ next.phase = boot[n].phase /\ next.todo = boot[n].todo
    <3>1. boot[n] \in [phase : Phase, todo : Seq(Node), left : SUBSET Node]
      BY DEF Tables
    <3>2. boot[n].left \ {p} \in SUBSET Node
      BY <3>1
    <3> QED
      BY <3>1, <3>2
  <2>4. boot' = [boot EXCEPT ![n] = next]
    BY <2>2
  <2> HIDE DEF next
  <2> QED
    BY <2>1, <2>3, <2>4 DEF Tables
<1>5. ASSUME NEW n \in Node, NEW g \in Guests[n], NEW op \in Op, NEW a \in Addr,
             local_call(n, g, op, a)
      PROVE  Tables'
  <2>1. ranges' = ranges /\ boot' = boot /\ conn' = conn
    BY <1>5, Zenon DEF local_call
  <2> QED
    BY <2>1 DEF Tables
<1> QED
  BY <1>1, <1>2, <1>3, <1>4, <1>5, OtherSteps DEF Boot

\* For any number of nodes, any capacity and any lists of peers, and through
\* crashes and refused connections, get_home_node of every node names the
\* owner of the address or nothing.
THEOREM RoutesToOwner == Spec => []HomeIsOwner
<1>1. Init => Tables
  BY TablesInit
<1>2. Tables /\ [Next]_vars => Tables'
  BY TablesStep
<1>3. Tables => HomeIsOwner
  <2> SUFFICES ASSUME Tables, NEW n \in Node, NEW a \in 0 .. NumNodes * capacity - 1,
                      get_home_node(ranges[n], a) # NoTarget
               PROVE  /\ get_home_node(ranges[n], a) \in Node
                      /\ Owns(get_home_node(ranges[n], a), a)
    BY DEF HomeIsOwner
  <2>1. ranges[n] \in Seq(Segments) /\ a \in Int
    BY DEF Tables
  <2> QED
    BY <2>1, FindsOwner
<1> QED
  BY <1>1, <1>2, <1>3, PTL DEF Spec

\* For any constants, no line of a segment of a node other than 0 ever holds
\* what was written for another address, although read and write try every
\* address that no range holds locally.
THEOREM SegmentsStayOwn == Spec => []SegmentHoldsOwnLines
<1>1. Init => Lines
  BY DEF Init, Lines, SegmentHoldsOwnLines, Unwritten
<1>2. Lines /\ [Next]_vars => Lines'
  <2> SUFFICES ASSUME Lines, [Next]_vars PROVE Lines'
    OBVIOUS
  <2>1. CASE mem' = mem
    BY <2>1 DEF Lines, SegmentHoldsOwnLines
  <2>2. ASSUME NEW n \in Node, Boot(n) PROVE mem' = mem
    BY <2>2, Zenon DEF Boot, Initialize, connect_tcp_node, calibrate_node
  <2>3. ASSUME NEW n \in Node, NEW g \in Guests[n], NEW op \in Op, NEW a \in Addr,
               local_call(n, g, op, a)
        PROVE  Lines'
    BY <2>3, AccessKeepsLines DEF local_call
  <2> QED
    BY <2>1, <2>2, <2>3, OtherSteps DEF untouched
<1>3. Lines => SegmentHoldsOwnLines
  BY DEF Lines
<1> QED
  BY <1>1, <1>2, <1>3, PTL DEF Spec
-----------------------------------------------------------------------------
(* Types. *)

\* The states of a thread.  A thread that waits waits for a node, and a call
\* with an operation of a guest has a guest's address.
CallState ==
    {s \in ThreadState : /\ s.pc = "wait" => s.target \in Node
                         /\ s.pc # "idle" => s.op \in Kind
                         /\ s.op \in Op => s.addr \in Addr}

\* The states of a handler thread: it waits on a socket, and has a message to
\* answer.
ServiceState ==
    {s \in HandlerState : /\ s.pc = "recv" => s.fd \in Node
                          /\ s.pc = "reply" => s.msg \in Reply}

ThreadTypes == thread \in [Node -> [Thread -> CallState]]

HandlerTypes ==
    /\ handler \in [Node -> [Node -> ServiceState]]
    /\ sock \in [Node -> Node \cup {NoSocket}]
    /\ \A m, p \in Node : handler[m][p].pc # None => sock[m] \in Node

StreamTypes ==
    /\ requests \in [Node -> [Node -> Seq(Kind)]]
    /\ replies \in [Node -> [Node -> Seq(Reply)]]

NodeTypes ==
    /\ up \in [Node -> BOOLEAN]
    /\ backlog \in [Node -> Seq(Node)]
    /\ connected \in [Node -> BOOLEAN]
    /\ crashes \in 0 .. MaxCrashes

CallerTypes ==
    /\ mem \in [Node -> [0 .. num_cachelines - 1 -> Addr \cup {Unwritten}]]
    /\ mutex \in [Node -> Thread \cup {None}]
    /\ acked \subseteq Addr
    /\ fenced \in [Node -> SUBSET Node]
    /\ calls \in 0 .. MaxCalls

\* The type invariant, strengthened to an inductive one.
Types ==
    Tables /\ ThreadTypes /\ HandlerTypes /\ StreamTypes /\ NodeTypes /\ CallerTypes
-----------------------------------------------------------------------------
(* The steps of the cluster, by what they do to threads and handlers. *)

\* An assignment to one entry of a table of tables.
LEMMA Put ==
    ASSUME NEW S, NEW T, NEW V, NEW f \in [S -> [T -> V]],
           NEW a \in S, NEW b \in T, NEW v \in V
    PROVE  /\ [f EXCEPT ![a][b] = v] \in [S -> [T -> V]]
           /\ [f EXCEPT ![a][b] = v][a][b] = v
           /\ \A c \in S, d \in T :
                c # a \/ d # b => [f EXCEPT ![a][b] = v][c][d] = f[c][d]
OBVIOUS

\* The new state of one thread, one handler, one stream.
ThreadTo(n, t, s) == thread' = [thread EXCEPT ![n][t] = s]
HandlerTo(m, p, s) == handler' = [handler EXCEPT ![m][p] = s]
RequestsTo(p, m, q) == requests' = [requests EXCEPT ![p][m] = q]
RepliesTo(p, m, q) == replies' = [replies EXCEPT ![p][m] = q]

\* One thread moves: the others stay as they are.
LEMMA ThreadPut ==
    ASSUME Types, NEW k \in Node, NEW t \in Thread, NEW s \in CallState,
           ThreadTo(k, t, s)
    PROVE  /\ thread' \in [Node -> [Thread -> CallState]] /\ thread'[k][t] = s
           /\ \A c \in Node, u \in Thread :
                c # k \/ u # t => thread'[c][u] = thread[c][u]
BY Put DEF Types, ThreadTypes, ThreadTo

\* One handler moves.
LEMMA HandlerPut ==
    ASSUME Types, NEW k \in Node, NEW p \in Node, NEW s \in ServiceState,
           HandlerTo(k, p, s)
    PROVE  /\ handler' \in [Node -> [Node -> ServiceState]] /\ handler'[k][p] = s
           /\ \A c, q \in Node : c # k \/ q # p => handler'[c][q] = handler[c][q]
BY Put DEF Types, HandlerTypes, HandlerTo

\* A request enters or leaves one stream.
LEMMA RequestPut ==
    ASSUME Types, NEW k \in Node, NEW p \in Node, NEW q \in Seq(Kind),
           RequestsTo(k, p, q)
    PROVE  /\ requests' \in [Node -> [Node -> Seq(Kind)]] /\ requests'[k][p] = q
           /\ \A c, d \in Node : c # k \/ d # p => requests'[c][d] = requests[c][d]
BY Put DEF Types, StreamTypes, RequestsTo

\* A reply enters or leaves one stream.
LEMMA ReplyPut ==
    ASSUME Types, NEW k \in Node, NEW p \in Node, NEW q \in Seq(Reply),
           RepliesTo(k, p, q)
    PROVE  /\ replies' \in [Node -> [Node -> Seq(Reply)]] /\ replies'[k][p] = q
           /\ \A c, d \in Node : c # k \/ d # p => replies'[c][d] = replies[c][d]
BY Put DEF Types, StreamTypes, RepliesTo

\* The threads that make calls are threads, and none of them is None.
LEMMA Threads ==
    ASSUME NEW n \in Node
    PROVE  /\ ThreadsOf(n) \subseteq Thread /\ Guests[n] \subseteq Thread
           /\ "main" \in Thread /\ None \notin Thread
<1>1. Guests[n] \subseteq Guest /\ Guest \cap {"main", "none"} = {}
  BY ClusterAssumption
<1> QED
  BY <1>1 DEF ThreadsOf, Thread, None

\* The operations of guests are not those of main and of a fence.
LEMMA Kinds ==
    /\ "calibrate" \notin Op /\ "fence" \notin Op /\ None \notin Op
    /\ Op \subseteq Kind /\ "calibrate" \in Kind /\ "fence" \in Kind
<1>1. Op \subseteq {"read", "write", "atomic"}
  BY ClusterAssumption
<1> QED
  BY <1>1 DEF Kind, None

\* A thread outside a call.
LEMMA IdleType == Idle \in CallState /\ Idle.pc = "idle"
BY Kinds DEF Idle, ThreadState, CallState

\* A call names a node or nothing: get_home_node of a table of segments.
LEMMA HomeType ==
    ASSUME Tables, NEW n \in Node, NEW a \in Addr
    PROVE  get_home_node(ranges[n], a) \in Node \cup {NoTarget}
<1>1. a \in Int /\ ranges[n] \in Seq(Segments)
  BY ClusterAssumption DEF Tables
<1> QED
  BY <1>1, FindsOwner

\* A fence on its way stays a fence on its way, or is over.
LEMMA NextFenceType ==
    ASSUME NEW s \in CallState, s.pc = "fence", NEW p
    PROVE  NextFence(s, p) \in CallState /\ NextFence(s, p).pc # "wait"
<1>1. CASE s.left = {p}
  BY <1>1, IdleType DEF NextFence
<1>2. CASE s.left # {p}
  <2> DEFINE next == [s EXCEPT !.left = @ \ {p}]
  <2>1. NextFence(s, p) = next
    BY <1>2 DEF NextFence
  <2>2. next \in ThreadState /\ next.pc = s.pc /\ next.op = s.op /\ next.addr = s.addr
    BY Zenon DEF ThreadState, CallState
  <2> QED
    BY <2>1, <2>2, Zenon DEF CallState
<1> QED
  BY <1>1, <1>2

\* send_request with a connection to a node that is up, and without.
Asks(n, t) ==
    /\ send_request(n, t)
    /\ thread[n][t].target \in conn[n] /\ up[thread[n][t].target]

CannotAsk(n, t) ==
    /\ send_request(n, t)
    /\ ~(thread[n][t].target \in conn[n] /\ up[thread[n][t].target])

\* The steps of a thread in which it neither starts nor stops waiting.
Quiet(n, t) ==
    \/ t = "main" /\ calibrate_node(n)
    \/ \E op \in Op, a \in Addr : remote_call(n, t, op, a)
    \/ fence(n, t) \/ send_message(n, t) \/ CannotAsk(n, t)

\* The steps there are.
LEMMA Steps ==
    ASSUME Next
    PROVE  \E n \in Node :
             \/ Initialize(n) \/ connect_tcp_node(n)
             \/ \E g \in Guests[n], op \in Op, a \in Addr : local_call(n, g, op, a)
             \/ \E t \in Thread : Quiet(n, t)
             \/ \E t \in Thread : Asks(n, t)
             \/ \E t \in Thread : receive_reply(n, t)
             \/ \E t \in Thread : receive_fails(n, t)
             \/ accept_connection(n)
             \/ \E p \in Node : handle_client(n, p)
             \/ Crash(n)
<1>1. \A n \in Node : /\ Clients(n) \subseteq Node /\ "main" \in Thread
                      /\ ThreadsOf(n) \subseteq Thread /\ Guests[n] \subseteq Thread
  BY Threads DEF Clients
<1>2. ASSUME NEW n, NEW t, send_request(n, t) PROVE Asks(n, t) \/ CannotAsk(n, t)
  BY <1>2, Zenon DEF Asks, CannotAsk
<1>3. PICK n \in Node :
        \/ Boot(n)
        \/ \E g \in Guests[n] : Issue(n, g)
        \/ \E t \in ThreadsOf(n) : Proceed(n, t)
        \/ accept_connection(n)
        \/ \E p \in Clients(n) : handle_client(n, p)
        \/ Crash(n)
  BY DEF Next
<1>4. ASSUME NEW g \in Guests[n], Issue(n, g)
      PROVE  \/ \E op \in Op, a \in Addr : local_call(n, g, op, a)
             \/ Quiet(n, g)
  BY <1>4, Zenon DEF Issue, Quiet
<1>5. ASSUME NEW t \in ThreadsOf(n), Proceed(n, t)
      PROVE  Quiet(n, t) \/ Asks(n, t) \/ receive_reply(n, t) \/ receive_fails(n, t)
  BY <1>2, <1>5, Zenon DEF Proceed, Quiet
<1>6. CASE Boot(n)
  BY <1>1, <1>6, Zenon DEF Boot, Quiet
<1> QED
  BY <1>1, <1>3, <1>4, <1>5, <1>6, Zenon

\* A quiet step moves the thread from a state other than waiting to another.
LEMMA QuietMoves ==
    ASSUME Types, NEW n \in Node, NEW t \in Thread, Quiet(n, t)
    PROVE  /\ thread[n][t].pc # "wait"
           /\ \E s \in CallState :
                s.pc # "wait" /\ ThreadTo(n, t, s)
<1> USE DEF Types
<1>1. CASE t = "main" /\ calibrate_node(n)
  <2>1. PICK p \in boot[n].left : ThreadTo(n, "main",
           [pc |-> "send", op |-> "calibrate", addr |-> 0, target |-> p, left |-> {}])
    BY <1>1, Zenon DEF calibrate_node, FirstOf, ThreadTo
  <2>2. p \in Node
    BY <2>1 DEF Tables
  <2> DEFINE s == [pc |-> "send", op |-> "calibrate", addr |-> 0, target |-> p, left |-> {}]
  <2>3. s \in CallState /\ s.pc # "wait"
    BY <2>2, Kinds DEF ThreadState, CallState
  <2>4. thread[n][t].pc = "idle"
    BY <1>1 DEF calibrate_node
  <2> QED
    BY <1>1, <2>1, <2>3, <2>4, Zenon
<1>2. ASSUME NEW op \in Op, NEW a \in Addr, remote_call(n, t, op, a)
      PROVE  /\ thread[n][t].pc # "wait"
             /\ \E s \in CallState :
                  s.pc # "wait" /\ ThreadTo(n, t, s)
  <2> DEFINE s == [pc |-> "send", op |-> op, addr |-> a,
                   target |-> get_home_node(ranges[n], a), left |-> {}]
  <2>1. ThreadTo(n, t, s) /\ thread[n][t].pc = "idle"
    BY <1>2, Zenon DEF remote_call, Serving, ThreadTo
  <2>2. s \in CallState /\ s.pc # "wait"
    BY HomeType, Kinds DEF ThreadState, CallState
  <2> HIDE DEF s
  <2> QED
    BY <2>1, <2>2, Zenon
<1>3. CASE fence(n, t)
  <2> DEFINE s == IF conn[n] = {} THEN Idle
                  ELSE [Idle EXCEPT !.pc = "fence", !.op = "fence", !.left = conn[n]]
  <2>1. ThreadTo(n, t, s) /\ thread[n][t].pc = "idle"
    BY <1>3, Zenon DEF fence, Serving, ThreadTo
  <2>2. s \in CallState /\ s.pc # "wait"
    <3>1. conn[n] \in SUBSET Node
      BY DEF Tables
    <3> QED
      BY <3>1, IdleType, Kinds, Zenon DEF ThreadState, CallState, Idle
  <2> HIDE DEF s
  <2> QED
    BY <2>1, <2>2, Zenon
<1>4. CASE send_message(n, t)
  <2>1. PICK p : ThreadTo(n, t, NextFence(thread[n][t], p))
    BY <1>4, Zenon DEF send_message, ThreadTo
  <2>2. thread[n][t] \in CallState /\ thread[n][t].pc = "fence"
    BY <1>4 DEF send_message, ThreadTypes
  <2> QED
    BY <2>1, <2>2, NextFenceType, Zenon
<1>5. CASE CannotAsk(n, t)
  <2>1. ThreadTo(n, t, Idle) /\ thread[n][t].pc = "send"
    BY <1>5, Zenon DEF CannotAsk, send_request, ThreadTo
  <2> QED
    BY <2>1, IdleType, Zenon
<1> QED
  BY <1>1, <1>2, <1>3, <1>4, <1>5, Zenon DEF Quiet

\* A thread that sends a request goes on to wait for a node, keeps its
\* operation and takes the mutex, which was free.
LEMMA AskMoves ==
    ASSUME Types, NEW n \in Node, NEW t \in Thread, Asks(n, t)
    PROVE  /\ mutex[n] = None /\ mutex' = [mutex EXCEPT ![n] = t]
           /\ thread[n][t].pc = "send" /\ replies' = replies
           /\ \E m \in Node, op \in Kind, s \in CallState, q \in Seq(Kind) :
                /\ m = thread[n][t].target /\ op = thread[n][t].op
                /\ s.pc = "wait" /\ s.target = m /\ s.op = op /\ ThreadTo(n, t, s)
                /\ q = Append(requests[n][m], op) /\ RequestsTo(n, m, q)
<1> USE DEF Types
<1> DEFINE old == thread[n][t]
           s == [old EXCEPT !.pc = "wait"]
           q == Append(requests[n][old.target], old.op)
<1>1. /\ mutex[n] = None /\ mutex' = [mutex EXCEPT ![n] = t] /\ old.pc = "send"
      /\ thread' = [thread EXCEPT ![n][t].pc = "wait"] /\ old.target \in conn[n]
      /\ RequestsTo(n, old.target, q) /\ replies' = replies
  BY Zenon DEF Asks, send_request, HoldsMutex, RequestsTo
<1>2. old \in CallState /\ old.target \in Node
  BY <1>1 DEF Tables, ThreadTypes
<1>3. old.op \in Kind /\ ThreadTo(n, t, s)
  BY <1>1, <1>2, Zenon DEF CallState, ThreadTo
<1>4. s \in CallState /\ s.pc = "wait" /\ s.target = old.target /\ s.op = old.op
  BY SMTT(60), <1>2, <1>3 DEF CallState, ThreadState
<1>5. q \in Seq(Kind)
  <2>1. requests[n][old.target] \in Seq(Kind)
    BY <1>2 DEF StreamTypes
  <2> QED
    BY SMTT(60), <1>3, <2>1
<1> HIDE DEF s
<1> QED
  BY <1>1, <1>2, <1>3, <1>4, <1>5, Zenon

\* A thread that stops waiting is idle and has released the mutex.
LEMMA ReturnMoves ==
    ASSUME Types, NEW n \in Node, NEW t \in Thread,
           receive_reply(n, t) \/ receive_fails(n, t)
    PROVE  /\ thread[n][t].pc = "wait" /\ thread[n][t].target \in Node
           /\ ThreadTo(n, t, Idle)
           /\ mutex' = [mutex EXCEPT ![n] = None]
<1>1. /\ thread[n][t].pc = "wait" /\ ThreadTo(n, t, Idle)
      /\ mutex' = [mutex EXCEPT ![n] = None]
  BY Zenon DEF receive_reply, receive_fails, ThreadTo
<1> QED
  BY <1>1 DEF Types, ThreadTypes, CallState

\* receive_reply takes the first reply of the stream.
LEMMA TakeMoves ==
    ASSUME Types, NEW n \in Node, NEW t \in Thread, receive_reply(n, t)
    PROVE  /\ requests' = requests
           /\ \E m \in Node, q \in Seq(Reply) :
                /\ m = thread[n][t].target /\ replies[n][m] # <<>>
                /\ q = Tail(replies[n][m]) /\ RepliesTo(n, m, q)
<1> DEFINE m == thread[n][t].target
           q == Tail(replies[n][m])
<1>1. replies[n][m] # <<>> /\ RepliesTo(n, m, q) /\ requests' = requests
  BY Zenon DEF receive_reply, RepliesTo
<1>2. m \in Node
  BY SMTT(60), ReturnMoves
<1>3. q \in Seq(Reply)
  <2>1. replies[n][m] \in Seq(Reply)
    BY <1>2 DEF Types, StreamTypes
  <2> QED
    BY <1>1, <2>1
<1> QED
  BY <1>1, <1>2, <1>3, Zenon

\* send_message sends a fence to a peer, unless the peer is down.
LEMMA FenceMoves ==
    ASSUME Types, NEW n \in Node, NEW t \in Thread, send_message(n, t)
    PROVE  /\ replies' = replies
           /\ \E m \in Node, q \in Seq(Kind) :
                /\ fenced' = [fenced EXCEPT ![n] = fenced[n] \cup {m}]
                /\ requests' = requests \/ RequestsTo(n, m, q)
<1>1. PICK m \in thread[n][t].left :
        /\ fenced' = [fenced EXCEPT ![n] = fenced[n] \cup {m}]
        /\ requests' = requests \/ RequestsTo(n, m, Append(requests[n][m], "fence"))
  BY Zenon DEF send_message, FirstOf, RequestsTo
<1>2. m \in Node
  BY <1>1 DEF Types, ThreadTypes, ThreadState, CallState
<1>3. Append(requests[n][m], "fence") \in Seq(Kind)
  <2>1. requests[n][m] \in Seq(Kind) /\ "fence" \in Kind
    BY <1>2, Kinds DEF Types, StreamTypes
  <2> QED
    BY <2>1
<1>4. replies' = replies
  BY Zenon DEF send_message
<1> QED
  BY <1>1, <1>2, <1>3, <1>4, Zenon

\* connect_tcp_node opens a connection to the next peer unless there is one,
\* or does nothing.
LEMMA ConnectMoves ==
    ASSUME Types, NEW n \in Node, connect_tcp_node(n)
    PROVE  \E p \in Node :
             \/ conn' = conn /\ backlog' = backlog
             \/ /\ p \notin conn[n]
                /\ conn' = [conn EXCEPT ![n] = conn[n] \cup {p}]
                /\ backlog' = [backlog EXCEPT ![p] = Append(backlog[p], n)]
<1> DEFINE p == Head(boot[n].todo)
<1>1. boot[n].todo \in Seq(Node) /\ boot[n].todo # <<>>
  <2>1. boot[n].phase = "connect"
    BY Zenon DEF connect_tcp_node
  <2> QED
    BY <2>1 DEF Types, Tables
<1>2. p \in Node
  BY <1>1
<1>3. \/ conn' = conn /\ backlog' = backlog
      \/ /\ conn' = [conn EXCEPT ![n] = conn[n] \cup {p}]
         /\ backlog' = [backlog EXCEPT ![p] =
              IF p \in conn[n] THEN backlog[p] ELSE Append(backlog[p], n)]
  BY Zenon DEF connect_tcp_node
<1> HIDE DEF p
<1>4. CASE p \in conn[n]
  <2>1. conn[n] \cup {p} = conn[n]
    BY <1>4
  <2>2. /\ [conn EXCEPT ![n] = conn[n]] = conn
        /\ [backlog EXCEPT ![p] = backlog[p]] = backlog
    BY DEF Types, Tables, NodeTypes
  <2> QED
    BY <1>2, <1>3, <1>4, <2>1, <2>2, Zenon
<1>5. CASE p \notin conn[n]
  BY <1>2, <1>3, <1>5
<1> QED
  BY <1>4, <1>5

\* A handler that goes back to its loop or leaves it.
LEMMA NoHandlerType ==
    ASSUME NEW pc \in {"loop", "exit"}
    PROVE  /\ [NoHandler EXCEPT !.pc = pc] \in ServiceState
           /\ [NoHandler EXCEPT !.pc = pc].pc = pc
BY DEF NoHandler, NoMessage, HandlerState, ServiceState

\* accept_connection: the handler of the first connection in the queue starts.
LEMMA AcceptMoves ==
    ASSUME Types, NEW m \in Node, accept_connection(m)
    PROVE  /\ backlog[m] \in Seq(Node) /\ backlog[m] # <<>>
           /\ backlog' = [backlog EXCEPT ![m] = Tail(backlog[m])]
           /\ connected' = [connected EXCEPT ![m] = TRUE]
           /\ \E p \in Node, s \in ServiceState :
                /\ p = Head(backlog[m]) /\ s.pc = "loop"
                /\ sock' = [sock EXCEPT ![m] = p]
                /\ HandlerTo(m, p, s)
<1> DEFINE s == [NoHandler EXCEPT !.pc = "loop"]
<1>1. backlog[m] \in Seq(Node) /\ backlog[m] # <<>>
  BY DEF accept_connection, Types, NodeTypes
<1>2. Head(backlog[m]) \in Node
  BY <1>1
<1>3. /\ backlog' = [backlog EXCEPT ![m] = Tail(backlog[m])]
      /\ connected' = [connected EXCEPT ![m] = TRUE]
      /\ sock' = [sock EXCEPT ![m] = Head(backlog[m])]
      /\ HandlerTo(m, Head(backlog[m]), s)
  BY Zenon DEF accept_connection, HandlerTo
<1>4. s \in ServiceState /\ s.pc = "loop"
  BY NoHandlerType
<1> HIDE DEF s
<1> QED
  BY <1>1, <1>2, <1>3, <1>4, Zenon

\* A message of a client arrives at a handler.
LEMMA ArrivalMoves ==
    ASSUME Types, NEW m \in Node, NEW p \in Node, message_arrives(m, p)
    PROVE  /\ handler[m][p].pc = "recv" /\ replies' = replies
           /\ \E fd \in Node, s \in ServiceState, q \in Seq(Kind) :
                /\ fd = handler[m][p].fd /\ requests[fd][m] # <<>>
                /\ s.pc = "reply" /\ s.msg = [from |-> fd, op |-> Head(requests[fd][m])]
                /\ HandlerTo(m, p, s)
                /\ q = Tail(requests[fd][m]) /\ RequestsTo(fd, m, q)
<1> DEFINE fd == handler[m][p].fd
           msg == [from |-> fd, op |-> Head(requests[fd][m])]
           s == [handler[m][p] EXCEPT !.pc = "reply", !.msg = msg]
           q == Tail(requests[fd][m])
<1>1. /\ handler[m][p].pc = "recv" /\ replies' = replies /\ requests[fd][m] # <<>>
      /\ RequestsTo(fd, m, q)
      /\ handler' = [handler EXCEPT ![m][p].pc = "reply", ![m][p].msg = msg]
  BY Zenon DEF message_arrives, RequestsTo
<1>2. handler[m][p] \in ServiceState
  BY Zenon DEF Types, HandlerTypes
<1>3. fd \in Node
  BY <1>1, <1>2, Zenon DEF ServiceState
<1>4. msg \in Reply /\ q \in Seq(Kind)
  <2>1. requests[fd][m] \in Seq(Kind)
    BY <1>3, Zenon DEF Types, StreamTypes
  <2>2. requests[fd][m] # <<>>
    BY ZenonT(60), <1>1
  <2>3. Head(requests[fd][m]) \in Kind /\ q \in Seq(Kind)
    BY <2>1, <2>2
  <2> QED
    BY <1>3, <2>3, Zenon DEF Reply
<1> HIDE DEF msg
<1>5. HandlerTo(m, p, s)
  BY <1>1, Zenon DEF Types, HandlerTypes, HandlerTo
<1>6. s \in ServiceState /\ s.pc = "reply" /\ s.msg = msg
  BY <1>2, <1>4, Zenon DEF ServiceState, HandlerState
<1> HIDE DEF s, fd
<1> QED
  BY <1>1, <1>3, <1>4, <1>5, <1>6, Zenon DEF msg, fd

\* A handler answers, on the socket behind sock_fd_.
LEMMA ReplyMoves ==
    ASSUME Types, NEW m \in Node, NEW p \in Node, reply_message(m, p)
    PROVE  /\ handler[m][p].pc = "reply" /\ requests' = requests
           /\ \E fd \in Node, msg \in Reply, s \in ServiceState, q \in Seq(Reply) :
                /\ fd = sock[m] /\ msg = handler[m][p].msg
                /\ s.pc = "loop" /\ HandlerTo(m, p, s)
                /\ q = Append(replies[fd][m], msg) /\ RepliesTo(fd, m, q)
<1> DEFINE fd == sock[m]
           msg == handler[m][p].msg
           s == [NoHandler EXCEPT !.pc = "loop"]
           q == Append(replies[fd][m], msg)
<1>1. /\ handler[m][p].pc = "reply" /\ requests' = requests
      /\ HandlerTo(m, p, s) /\ RepliesTo(fd, m, q)
  BY Zenon DEF reply_message, HandlerTo, RepliesTo
<1>2. handler[m][p] \in ServiceState
  BY DEF Types, HandlerTypes
<1>3. msg \in Reply
  BY <1>1, <1>2 DEF ServiceState
<1>4. fd \in Node
  <2>1. handler[m][p].pc # None
    BY <1>1 DEF None
  <2> QED
    BY <2>1, Zenon DEF Types, HandlerTypes
<1>5. s \in ServiceState /\ s.pc = "loop"
  BY NoHandlerType
<1>6. q \in Seq(Reply)
  <2>1. replies[fd][m] \in Seq(Reply)
    BY <1>4 DEF Types, StreamTypes
  <2> QED
    BY <1>3, <2>1
<1> HIDE DEF s, msg, fd
<1> QED
  BY <1>1, <1>3, <1>4, <1>5, <1>6, Zenon DEF msg, fd

\* What the handler of a connection does: it was accepted, stays so, waits
\* only on the socket behind sock_fd_, and answers what came from there.
LEMMA HandlerMoves ==
    ASSUME Types, NEW m \in Node, NEW p \in Node, handle_client(m, p)
    PROVE  /\ handler[m][p].pc # None /\ sock' = sock
           /\ \E s \in ServiceState :
                /\ HandlerTo(m, p, s)
                /\ s.pc # None
                /\ s.pc = "recv" => s.fd = sock[m]
                /\ s.pc = "reply" => message_arrives(m, p) /\ s.msg.from = handler[m][p].fd
<1> DEFINE Move(s) ==
             /\ HandlerTo(m, p, s)
             /\ s.pc # None
             /\ s.pc = "recv" => s.fd = sock[m]
             /\ s.pc = "reply" => message_arrives(m, p) /\ s.msg.from = handler[m][p].fd
<1>1. handler[m][p].pc # None /\ sock' = sock
  BY Zenon DEF handle_client, receive_message, message_arrives, peer_closed, reply_message,
         reply_fails, None
<1>2. handler[m][p] \in ServiceState
  BY DEF Types, HandlerTypes
<1>3. CASE Leave(m, p) \/ reply_message(m, p)
  <2>1. PICK pc \in {"loop", "exit"} :
          HandlerTo(m, p, [NoHandler EXCEPT !.pc = pc])
    BY <1>3, Zenon DEF Leave, reply_message, HandlerTo
  <2> DEFINE s == [NoHandler EXCEPT !.pc = pc]
  <2>2. s \in ServiceState /\ s.pc = pc
    BY NoHandlerType
  <2> HIDE DEF s
  <2>3. HandlerTo(m, p, s)
    BY <2>1 DEF s
  <2>4. Move(s)
    BY <2>2, <2>3 DEF None
  <2> QED
    BY <1>1, <2>2, <2>4, Zenon
<1>4. CASE receive_message(m, p) /\ ~Leave(m, p)
  <2> DEFINE s == [handler[m][p] EXCEPT !.pc = "recv", !.fd = sock[m]]
  <2>1. HandlerTo(m, p, s)
    <3>1. handler' = [handler EXCEPT ![m][p].pc = "recv", ![m][p].fd = sock[m]]
      BY <1>4, Zenon DEF receive_message
    <3> QED
      BY <3>1, Zenon DEF Types, HandlerTypes, HandlerTo
  <2>2. sock[m] \in Node
    BY <1>1, Zenon DEF Types, HandlerTypes
  <2>3. s \in ServiceState /\ s.pc = "recv" /\ s.fd = sock[m]
    BY <1>2, <2>2, Zenon DEF HandlerState, ServiceState
  <2> HIDE DEF s
  <2>4. Move(s)
    BY <2>1, <2>3 DEF None
  <2> QED
    BY <1>1, <2>3, <2>4, Zenon
<1>5. CASE message_arrives(m, p)
  <2>1. PICK fd \in Node, s \in ServiceState :
          /\ fd = handler[m][p].fd
          /\ s.pc = "reply" /\ s.msg = [from |-> fd, op |-> Head(requests[fd][m])]
          /\ HandlerTo(m, p, s)
    BY ZenonT(60), <1>5, ArrivalMoves
  <2>2. Move(s)
    BY <1>5, <2>1 DEF None
  <2> QED
    BY <1>1, <2>2, Zenon
<1> QED
  BY <1>3, <1>4, <1>5, Zenon DEF handle_client, peer_closed, reply_fails
-----------------------------------------------------------------------------
(* Types. *)

\* What the steps of the threads that make calls leave alone.
LEMMA CallerKeeps ==
    ASSUME NEW n, NEW t,
           \/ \E op \in Op, a \in Addr : local_call(n, t, op, a)
           \/ Quiet(n, t) \/ Asks(n, t) \/ receive_reply(n, t) \/ receive_fails(n, t)
    PROVE  UNCHANGED <<up, server, crashes>>
BY Zenon DEF Quiet, Asks, CannotAsk, local_call, calibrate_node, remote_call, fence,
   send_message, send_request, receive_reply, receive_fails

\* What main leaves alone before calibrate_all.
LEMMA StartKeeps ==
    ASSUME NEW n, Initialize(n) \/ connect_tcp_node(n)
    PROVE  UNCHANGED <<up, mem, mutex, thread, sock, connected, handler, requests, replies,
                       acked, fenced, calls, crashes>>
BY Zenon DEF Initialize, connect_tcp_node, server

\* What a TCPServer and a crash leave alone.
LEMMA ServerKeeps ==
    ASSUME NEW m, NEW p, accept_connection(m) \/ handle_client(m, p) \/ Crash(m)
    PROVE  UNCHANGED client
BY Zenon DEF accept_connection, handle_client, receive_message, message_arrives, peer_closed,
   reply_message, reply_fails, Crash

\* Every thread stays in a state of a call.
LEMMA ThreadStep == Types /\ [Next]_vars => ThreadTypes'
<1> SUFFICES ASSUME Types, [Next]_vars PROVE ThreadTypes'
  OBVIOUS
<1>1. ASSUME NEW n \in Node, NEW t \in Thread, NEW s \in CallState,
             ThreadTo(n, t, s)
      PROVE  ThreadTypes'
  BY <1>1, ThreadPut DEF ThreadTypes
<1>2. CASE thread' = thread
  BY <1>2 DEF Types, ThreadTypes
<1>3. ASSUME NEW n \in Node, NEW t \in Thread,
             Quiet(n, t) \/ Asks(n, t) \/ receive_reply(n, t) \/ receive_fails(n, t)
      PROVE  ThreadTypes'
  <2>1. PICK s \in CallState : ThreadTo(n, t, s)
    BY ZenonT(60), <1>3, QuietMoves, AskMoves, ReturnMoves, IdleType
  <2> QED
    BY <1>1, <2>1, Zenon
<1>4. ASSUME NEW n, NEW g, NEW op, NEW a, local_call(n, g, op, a) PROVE thread' = thread
  BY <1>4, Zenon DEF local_call
<1>5. CASE UNCHANGED vars
  BY <1>2, <1>5, Zenon DEF vars
<1>6. CASE Next
  BY <1>2, <1>3, <1>4, <1>6, Steps, StartKeeps, ServerKeeps, Zenon DEF client
<1> QED
  BY <1>5, <1>6

\* The handlers only ever use sockets of nodes.
LEMMA HandlerStep == Types /\ [Next]_vars => HandlerTypes'
<1> SUFFICES ASSUME Types, [Next]_vars PROVE HandlerTypes'
  OBVIOUS
<1>1. CASE handler' = handler /\ sock' = sock
  BY <1>1 DEF Types, HandlerTypes
<1>2. ASSUME NEW m \in Node, NEW p \in Node, NEW s \in ServiceState,
             HandlerTo(m, p, s),
             sock' \in [Node -> Node \cup {NoSocket}], sock'[m] \in Node,
             \A k \in Node \ {m} : sock'[k] = sock[k]
      PROVE  HandlerTypes'
  <2>1. /\ handler' \in [Node -> [Node -> ServiceState]]
        /\ \A k, q \in Node : k # m \/ q # p => handler'[k][q] = handler[k][q]
    BY <1>2, HandlerPut
  <2>2. ASSUME NEW k \in Node, NEW q \in Node, handler'[k][q].pc # None
        PROVE  sock'[k] \in Node
    <3>1. CASE k = m
      BY <1>2, <3>1
    <3>2. CASE k # m
      <4>1. handler[k][q].pc # None /\ sock'[k] = sock[k]
        BY <1>2, <2>1, <2>2, <3>2
      <4> QED
        BY <4>1 DEF Types, HandlerTypes
    <3> QED
      BY <3>1, <3>2
  <2> QED
    BY <1>2, <2>1, <2>2 DEF HandlerTypes
<1>3. ASSUME NEW m \in Node, accept_connection(m) PROVE HandlerTypes'
  <2>1. PICK p \in Node, s \in ServiceState :
          sock' = [sock EXCEPT ![m] = p] /\ HandlerTo(m, p, s)
    BY <1>3, AcceptMoves
  <2>2. /\ sock' \in [Node -> Node \cup {NoSocket}] /\ sock'[m] \in Node
        /\ \A k \in Node \ {m} : sock'[k] = sock[k]
    BY <2>1 DEF Types, HandlerTypes
  <2> QED
    BY <1>2, <2>1, <2>2, Zenon
<1>4. ASSUME NEW m \in Node, NEW p \in Node, handle_client(m, p) PROVE HandlerTypes'
  <2>1. PICK s \in ServiceState : HandlerTo(m, p, s)
    BY <1>4, HandlerMoves, Zenon
  <2>2. sock' = sock /\ sock[m] \in Node
    <3>1. handler[m][p].pc # None /\ sock' = sock
      BY <1>4, HandlerMoves
    <3> QED
      BY <3>1, Zenon DEF Types, HandlerTypes
  <2>3. sock' \in [Node -> Node \cup {NoSocket}]
    BY <2>2 DEF Types, HandlerTypes
  <2> QED
    BY <1>2, <2>1, <2>2, <2>3, Zenon
<1>5. ASSUME NEW n, Crash(n) PROVE handler' = handler /\ sock' = sock
  BY <1>5, Zenon DEF Crash, server
<1>6. CASE UNCHANGED vars
  BY <1>1, <1>6 DEF vars
<1>7. CASE Next
  BY <1>1, <1>3, <1>4, <1>5, <1>7, Steps, StartKeeps, CallerKeeps, Zenon DEF server
<1> QED
  BY <1>6, <1>7

\* The streams carry requests one way and replies the other.
LEMMA StreamStep == Types /\ [Next]_vars => StreamTypes'
<1> SUFFICES ASSUME Types, [Next]_vars PROVE StreamTypes'
  OBVIOUS
<1>1. CASE requests' = requests /\ replies' = replies
  BY <1>1 DEF Types, StreamTypes
<1>2. ASSUME NEW p \in Node, NEW m \in Node, NEW q \in Seq(Kind),
             RequestsTo(p, m, q), replies' = replies
      PROVE  StreamTypes'
  BY <1>2, RequestPut, Zenon DEF Types, StreamTypes
<1>3. ASSUME NEW p \in Node, NEW m \in Node, NEW q \in Seq(Reply),
             RepliesTo(p, m, q), requests' = requests
      PROVE  StreamTypes'
  BY <1>3, ReplyPut DEF Types, StreamTypes
<1>4. ASSUME NEW n \in Node, NEW t \in Thread, send_message(n, t)
      PROVE  StreamTypes'
  BY <1>1, <1>2, <1>4, FenceMoves, Zenon
<1>5. ASSUME NEW n \in Node, NEW t \in Thread, Quiet(n, t), ~send_message(n, t)
      PROVE  requests' = requests /\ replies' = replies
  BY <1>5, Zenon DEF Quiet, CannotAsk, send_request, calibrate_node, remote_call, fence
<1>6. ASSUME NEW n \in Node, NEW t \in Thread, Asks(n, t)
      PROVE  StreamTypes'
  BY <1>2, <1>6, AskMoves, Zenon
<1>7. ASSUME NEW n \in Node, NEW t \in Thread, receive_reply(n, t)
      PROVE  StreamTypes'
  BY <1>3, <1>7, TakeMoves, Zenon
<1>8. ASSUME NEW m \in Node, NEW p \in Node, handle_client(m, p)
      PROVE  StreamTypes'
  <2>1. CASE message_arrives(m, p)
    <3>1. PICK fd \in Node, q \in Seq(Kind) : RequestsTo(fd, m, q)
      BY <2>1, ArrivalMoves, Zenon
    <3>2. replies' = replies
      BY <2>1, ArrivalMoves, Zenon
    <3> QED
      BY <1>2, <3>1, <3>2, Zenon
  <2>2. CASE reply_message(m, p)
    <3>1. PICK fd \in Node, q \in Seq(Reply) : RepliesTo(fd, m, q)
      BY <2>2, ReplyMoves, Zenon
    <3>2. requests' = requests
      BY <2>2, ReplyMoves, Zenon
    <3> QED
      BY <1>3, <3>1, <3>2, Zenon
  <2>3. CASE requests' = requests /\ replies' = replies
    BY <1>1, <2>3
  <2> QED
    BY <1>8, <2>1, <2>2, <2>3, Zenon
       DEF handle_client, receive_message, peer_closed, reply_fails
<1>9. ASSUME NEW n, NEW t,
              \/ \E op \in Op, a \in Addr : local_call(n, t, op, a)
              \/ receive_fails(n, t) \/ accept_connection(n) \/ Crash(n)
       PROVE  requests' = requests /\ replies' = replies
  BY <1>9, Zenon DEF local_call, receive_fails, accept_connection, Crash
<1>10. CASE UNCHANGED vars
  BY <1>1, <1>10 DEF vars
<1>11. CASE Next
  BY <1>1, <1>4, <1>5, <1>6, <1>7, <1>8, <1>9, <1>11, Steps, StartKeeps, Zenon
<1> QED
  BY <1>10, <1>11

\* Nodes crash within the bound, and connections are queued and accepted.
LEMMA NodeStep == Types /\ [Next]_vars => NodeTypes'
<1> SUFFICES ASSUME Types, [Next]_vars PROVE NodeTypes'
  OBVIOUS
<1>1. CASE UNCHANGED <<up, backlog, connected, crashes>>
  BY <1>1 DEF Types, NodeTypes
<1>2. ASSUME NEW n \in Node, connect_tcp_node(n) PROVE NodeTypes'
  <2>1. PICK p \in Node :
          \/ backlog' = backlog
          \/ backlog' = [backlog EXCEPT ![p] = Append(backlog[p], n)]
    BY <1>2, ConnectMoves
  <2>2. Append(backlog[p], n) \in Seq(Node)
    BY DEF Types, NodeTypes
  <2>3. backlog' \in [Node -> Seq(Node)]
    BY <2>1, <2>2, Zenon DEF Types, NodeTypes
  <2> QED
    BY <1>2, <2>3, StartKeeps DEF Types, NodeTypes
<1>3. ASSUME NEW m \in Node, accept_connection(m) PROVE NodeTypes'
  <2>1. /\ backlog[m] \in Seq(Node) /\ backlog[m] # <<>>
        /\ backlog' = [backlog EXCEPT ![m] = Tail(backlog[m])]
        /\ connected' = [connected EXCEPT ![m] = TRUE]
    BY <1>3, AcceptMoves
  <2>2. Tail(backlog[m]) \in Seq(Node)
    BY <2>1
  <2>3. UNCHANGED <<up, crashes>>
    BY <1>3, Zenon DEF accept_connection
  <2> QED
    BY <2>1, <2>2, <2>3 DEF Types, NodeTypes
<1>4. ASSUME NEW m \in Node, NEW p \in Node, handle_client(m, p) PROVE NodeTypes'
  <2>1. /\ UNCHANGED <<up, crashes, backlog>>
        /\ connected' = connected \/ connected' = [connected EXCEPT ![m] = FALSE]
    BY <1>4, Zenon DEF handle_client, receive_message, message_arrives, peer_closed,
       reply_message, reply_fails, Leave
  <2> QED
    BY <2>1, Zenon DEF Types, NodeTypes
<1>5. ASSUME NEW n \in Node, Crash(n) PROVE NodeTypes'
  <2>1. /\ UNCHANGED <<backlog, connected>> /\ up' = [up EXCEPT ![n] = FALSE]
        /\ crashes' = crashes + 1 /\ crashes < MaxCrashes
    BY <1>5, Zenon DEF Crash, server
  <2>2. MaxCrashes \in Nat
    BY ClusterAssumption
  <2> QED
    BY <2>1, <2>2 DEF Types, NodeTypes
<1>6. ASSUME NEW n, Initialize(n) PROVE backlog' = backlog
  BY <1>6, Zenon DEF Initialize, server
<1>7. CASE UNCHANGED vars
  BY <1>1, <1>7 DEF vars
<1>8. CASE Next
  BY <1>1, <1>2, <1>3, <1>4, <1>5, <1>6, <1>8, Steps, StartKeeps, CallerKeeps, Zenon
     DEF server
<1> QED
  BY <1>7, <1>8

\* Calls are counted within the bound, and acknowledged at their addresses.
LEMMA CallerStep == Types /\ [Next]_vars => CallerTypes'
<1> SUFFICES ASSUME Types, [Next]_vars PROVE CallerTypes'
  OBVIOUS
<1>1. CASE UNCHANGED <<mem, mutex, acked, fenced, calls>>
  BY <1>1 DEF Types, CallerTypes
<1>2. ASSUME calls < MaxCalls PROVE calls + 1 \in 0 .. MaxCalls
  <2>1. MaxCalls \in Nat
    BY ClusterAssumption
  <2> QED
    BY <1>2, <2>1 DEF Types, CallerTypes
<1>3. ASSUME NEW n \in Node, NEW g, NEW op \in Op, NEW a \in Addr,
             local_call(n, g, op, a)
      PROVE  CallerTypes'
  <2> DEFINE i == cacheline_to_index(n, a)
  <2>1. i \in 0 .. num_cachelines - 1
    <3>1. a \in Int /\ num_cachelines \in Nat \ {0} /\ Base(n) \in Int
      BY ClusterAssumption, BaseType
    <3> QED
      BY <3>1 DEF cacheline_to_index
  <2>2. mem' = mem \/ mem' = [mem EXCEPT ![n][i] = a]
    BY <1>3, Zenon DEF local_call, local_access
  <2> HIDE DEF i
  <2>3. mem' \in [Node -> [0 .. num_cachelines - 1 -> Addr \cup {Unwritten}]]
    <3>1. /\ a \in Addr \cup {Unwritten}
          /\ mem \in [Node -> [0 .. num_cachelines - 1 -> Addr \cup {Unwritten}]]
      BY DEF Types, CallerTypes
    <3>2. CASE mem' = [mem EXCEPT ![n][i] = a]
      BY <2>1, <3>1, <3>2
    <3> QED
      BY <2>2, <3>1, <3>2
  <2>4. UNCHANGED <<mutex, acked, fenced>> /\ calls' = calls + 1 /\ calls < MaxCalls
    BY <1>3, Zenon DEF local_call, Serving
  <2> QED
    BY <1>2, <2>3, <2>4 DEF Types, CallerTypes
<1>4. ASSUME NEW n \in Node, NEW t \in Thread, Quiet(n, t), ~send_message(n, t)
      PROVE  CallerTypes'
  <2>1. /\ UNCHANGED <<mem, mutex, acked, fenced>>
        /\ calls' = calls \/ (calls' = calls + 1 /\ calls < MaxCalls)
    BY <1>4, Zenon DEF Quiet, CannotAsk, send_request, calibrate_node, remote_call, fence,
       Serving
  <2> QED
    BY <1>2, <2>1 DEF Types, CallerTypes
<1>5. ASSUME NEW n \in Node, NEW t \in Thread, send_message(n, t)
      PROVE  CallerTypes'
  <2>1. /\ UNCHANGED <<mem, mutex, acked, calls>>
        /\ \E p \in thread[n][t].left : fenced' = [fenced EXCEPT ![n] = @ \cup {p}]
    BY <1>5, Zenon DEF send_message, FirstOf
  <2>2. thread[n][t].left \in SUBSET Node
    BY DEF Types, ThreadTypes, ThreadState, CallState
  <2>3. PICK p \in Node : fenced' = [fenced EXCEPT ![n] = @ \cup {p}]
    BY <2>1, <2>2, Zenon
  <2>4. fenced[n] \cup {p} \in SUBSET Node
    BY Zenon DEF Types, CallerTypes
  <2> QED
    BY <2>1, <2>3, <2>4, Zenon DEF Types, CallerTypes
<1>6. ASSUME NEW n \in Node, NEW t \in Thread, Asks(n, t)
      PROVE  CallerTypes'
  <2>1. UNCHANGED <<mem, acked, fenced, calls>>
    BY <1>6, Zenon DEF Asks, send_request
  <2>2. mutex' = [mutex EXCEPT ![n] = t]
    BY <1>6, AskMoves, Zenon
  <2> QED
    BY <2>1, <2>2 DEF Types, CallerTypes
<1>7. ASSUME NEW n \in Node, NEW t \in Thread, receive_reply(n, t) \/ receive_fails(n, t)
      PROVE  CallerTypes'
  <2> DEFINE call == thread[n][t]
  <2>1. /\ UNCHANGED <<mem, fenced, calls>>
        /\ acked' = acked \/ (call.op = "write" /\ acked' = acked \cup {call.addr})
    BY <1>7, Zenon DEF receive_reply, receive_fails, forward_write_tcp
  <2>2. call.pc = "wait" /\ mutex' = [mutex EXCEPT ![n] = None]
    BY <1>7, ReturnMoves, Zenon
  <2>3. call.op = "write" => call.addr \in Addr
    <3>1. call \in CallState
      BY DEF Types, ThreadTypes
    <3> QED
      BY <2>2, <3>1, Zenon DEF CallState, Kind
  <2> HIDE DEF call
  <2> QED
    BY <2>1, <2>2, <2>3, Zenon DEF Types, CallerTypes
<1>8. CASE UNCHANGED vars
  BY <1>1, <1>8 DEF vars
<1>9. CASE Next
  BY <1>1, <1>3, <1>4, <1>5, <1>6, <1>7, <1>9, Steps, StartKeeps, ServerKeeps, Zenon DEF
     client
<1> QED
  BY <1>8, <1>9

\* The types hold before the first node starts.
LEMMA TypesInit == Init => Types
<1> SUFFICES ASSUME Init PROVE Types
  OBVIOUS
<1>1. Tables
  BY TablesInit
<1>2. ThreadTypes
  BY IdleType, Zenon DEF Init, ThreadTypes
<1>3. HandlerTypes
  BY Zenon DEF Init, HandlerTypes, NoHandler, NoMessage, HandlerState, ServiceState, None
<1>4. StreamTypes
  BY SMTT(60) DEF Init, StreamTypes
<1>5. NodeTypes /\ CallerTypes
  BY ClusterAssumption DEF Init, NodeTypes, CallerTypes
<1> QED
  BY <1>1, <1>2, <1>3, <1>4, <1>5 DEF Types

\* Every step keeps the types.
LEMMA TypesStep == Types /\ [Next]_vars => Types'
<1>1. Types /\ [Next]_vars => Tables'
  BY TablesStep DEF Types
<1> QED
  BY <1>1, ThreadStep, HandlerStep, StreamStep, NodeStep, CallerStep DEF Types

\* For any cluster, any peers, guests and addresses, and through crashes and
\* refused connections, every variable keeps its type: a handler that waits
\* or answers does so on a socket, and a thread waits for a node.
THEOREM ClusterTypes == Spec => []TypeOK
<1>1. Types => TypeOK
  <2> SUFFICES ASSUME Types PROVE TypeOK
    OBVIOUS
  <2>1. ranges \in [Node -> Seq(AddressRange)]
    <3>1. Segments \subseteq AddressRange
      BY DEF Segments
    <3>2. Seq(Segments) \subseteq Seq(AddressRange)
      BY <3>1
    <3>3. ranges \in [Node -> Seq(Segments)]
      BY DEF Types, Tables
    <3> QED
      BY <3>2, <3>3
  <2>2. /\ thread \in [Node -> [Thread -> ThreadState]]
        /\ \A n \in Node, t \in Thread :
             thread[n][t].pc = "wait" => thread[n][t].target \in Node
    BY DEF Types, ThreadTypes, CallState
  <2>3. /\ handler \in [Node -> [Node -> HandlerState]]
        /\ \A m \in Node, p \in Node :
             /\ handler[m][p].pc = "recv" => handler[m][p].fd \in Node
             /\ handler[m][p].pc = "reply" => handler[m][p].msg \in Reply
    BY DEF Types, HandlerTypes, ServiceState
  <2> QED
    BY <2>1, <2>2, <2>3, Zenon DEF Types, Tables, HandlerTypes, StreamTypes, NodeTypes,
       CallerTypes, TypeOK
<1> QED
  BY <1>1, TypesInit, TypesStep, PTL DEF Spec

-----------------------------------------------------------------------------
(* The connections: what the threads and the handlers keep about them. *)

\* A thread that waits for a reply holds connections_mutex_ of its node.
Held ==
    \A n \in Node, t \in Thread : thread[n][t].pc = "wait" => mutex[n] = t

\* A connection is opened once and accepted once.
Opened ==
    \A m \in Node :
      /\ \A i, j \in DOMAIN backlog[m] : backlog[m][i] = backlog[m][j] => i = j
      /\ \A i \in DOMAIN backlog[m] :
           handler[m][backlog[m][i]].pc = None /\ m \in conn[backlog[m][i]]
      /\ \A p \in Node : handler[m][p].pc # None => m \in conn[p]

\* Only accepted connections are behind sock_fd_ and the sockets that handlers
\* use.
Used ==
    \A m \in Node :
      /\ sock[m] # NoSocket => sock[m] \in Accepted(m)
      /\ \A p \in Node :
           /\ handler[m][p].pc = "recv" => handler[m][p].fd \in Accepted(m)
           /\ handler[m][p].pc = "reply" => handler[m][p].msg.from \in Accepted(m)

\* A TCPServer stays connected as long as its only client is up.
Served ==
    \A n, m \in Node : (up[n] /\ up[m] /\ Accepted(m) = {n}) => connected[m]

\* The premise of SoleClientIsPaired.
SoleClient(n, m) ==
    up[n] /\ up[m] /\ Accepted(m) \subseteq {n} /\ m \notin fenced[n]

\* An accepted connection stays accepted: its handler may leave, but never is
\* as if it had not been started.
LEMMA AcceptedLasts ==
    ASSUME Types, [Next]_vars
    PROVE  \A m, p \in Node : handler[m][p].pc # None => handler'[m][p].pc # None
<1>1. CASE handler' = handler
  BY <1>1
<1>2. ASSUME NEW m \in Node, NEW p \in Node, NEW s \in ServiceState, s.pc # None,
             HandlerTo(m, p, s)
      PROVE  \A k, q \in Node : handler[k][q].pc # None => handler'[k][q].pc # None
  <2>1. /\ handler'[m][p] = s
        /\ \A k, q \in Node : k # m \/ q # p => handler'[k][q] = handler[k][q]
    BY ZenonT(60), <1>2, HandlerPut
  <2> QED
    BY <1>2, <2>1
<1>3. ASSUME NEW m \in Node, accept_connection(m)
      PROVE  \A k, q \in Node : handler[k][q].pc # None => handler'[k][q].pc # None
  <2>1. PICK p \in Node, s \in ServiceState :
          s.pc # None /\ HandlerTo(m, p, s)
    BY <1>3, AcceptMoves DEF None
  <2> QED
    BY <1>2, <2>1, Zenon
<1>4. ASSUME NEW m \in Node, NEW p \in Node, handle_client(m, p)
      PROVE  \A k, q \in Node : handler[k][q].pc # None => handler'[k][q].pc # None
  <2>1. PICK s \in ServiceState :
          s.pc # None /\ HandlerTo(m, p, s)
    BY <1>4, HandlerMoves, Zenon
  <2> QED
    BY <1>2, <2>1
<1>5. ASSUME NEW n, Crash(n) PROVE handler' = handler
  BY <1>5, Zenon DEF Crash, server
<1>6. CASE UNCHANGED vars
  BY <1>1, <1>6, Zenon DEF vars
<1>7. CASE Next
  BY <1>1, <1>3, <1>4, <1>5, <1>7, Steps, StartKeeps, CallerKeeps, Zenon DEF server
<1> QED
  BY <1>6, <1>7

\* A node that is down stays down.
LEMMA DownLasts ==
    ASSUME Types, [Next]_vars
    PROVE  \A n \in Node : up'[n] => up[n]
<1>1. CASE up' = up
  BY <1>1
<1>2. ASSUME NEW m \in Node, Crash(m) PROVE \A n \in Node : up'[n] => up[n]
  <2>1. up' = [up EXCEPT ![m] = FALSE]
    BY <1>2, Zenon DEF Crash
  <2> QED
    BY <2>1 DEF Types, NodeTypes
<1>3. ASSUME NEW m, NEW p, accept_connection(m) \/ handle_client(m, p) PROVE up' = up
  BY <1>3, Zenon DEF accept_connection, handle_client, receive_message, message_arrives,
     peer_closed, reply_message, reply_fails
<1>4. CASE UNCHANGED vars
  BY <1>1, <1>4 DEF vars
<1>5. CASE Next
  BY <1>1, <1>2, <1>3, <1>5, Steps, StartKeeps, CallerKeeps, Zenon
<1> QED
  BY <1>4, <1>5

\* A node that was sent a fence stays one.
LEMMA FencedLasts ==
    ASSUME Types, [Next]_vars
    PROVE  \A n \in Node : fenced[n] \subseteq fenced'[n]
<1>1. CASE fenced' = fenced
  BY <1>1
<1>2. ASSUME NEW k \in Node, NEW t, send_message(k, t)
      PROVE  \A n \in Node : fenced[n] \subseteq fenced'[n]
  <2>1. PICK p : fenced' = [fenced EXCEPT ![k] = fenced[k] \cup {p}]
    BY <1>2, Zenon DEF send_message
  <2> QED
    BY <2>1 DEF Types, CallerTypes
<1>3. ASSUME NEW n, NEW t, 
             \/ Quiet(n, t) /\ ~send_message(n, t)
             \/ \E op \in Op, a \in Addr : local_call(n, t, op, a)
             \/ Asks(n, t) \/ receive_reply(n, t) \/ receive_fails(n, t)
      PROVE  fenced' = fenced
  BY <1>3, Zenon DEF Quiet, Asks, CannotAsk, send_request, calibrate_node, remote_call, fence,
     local_call, receive_reply, receive_fails
<1>4. CASE UNCHANGED vars
  BY <1>1, <1>4, Zenon DEF vars
<1>5. CASE Next
  BY <1>1, <1>2, <1>3, <1>5, Steps, StartKeeps, ServerKeeps, Zenon DEF client
<1> QED
  BY <1>4, <1>5

\* A node that is the only client of a peer was so before.
LEMMA SoleClientWas ==
    ASSUME Types, [Next]_vars, NEW n \in Node, NEW m \in Node, SoleClient(n, m)'
    PROVE  SoleClient(n, m)
<1>1. Accepted(m) \subseteq Accepted(m)'
  BY AcceptedLasts, Zenon DEF Accepted
<1> QED
  BY <1>1, DownLasts, FencedLasts, Zenon DEF SoleClient

\* The mutex is taken before a thread waits and released when it does no more.
LEMMA HeldStep ==
    ASSUME Types, Held, [Next]_vars
    PROVE  Held'
<1>1. CASE thread' = thread /\ mutex' = mutex
  BY <1>1, Zenon DEF Held
<1>2. ASSUME NEW n \in Node, NEW t \in Thread, NEW s \in CallState,
             ThreadTo(n, t, s),
             s.pc = "wait" => mutex'[n] = t,
             \A k \in Node : k # n => mutex'[k] = mutex[k],
             \A u \in Thread : u # t /\ mutex[n] = u => mutex'[n] = u
      PROVE  Held'
  <2> SUFFICES ASSUME NEW k \in Node, NEW u \in Thread, thread'[k][u].pc = "wait"
               PROVE  mutex'[k] = u
    BY Zenon DEF Held
  <2>1. /\ thread'[n][t] = s
        /\ \A c \in Node, d \in Thread : c # n \/ d # t => thread'[c][d] = thread[c][d]
    BY <1>2, ThreadPut
  <2>2. CASE k = n /\ u = t
    BY <1>2, <2>1, <2>2, Zenon
  <2>3. CASE k # n \/ u # t
    <3>1. mutex[k] = u
      BY <2>1, <2>3 DEF Held
    <3> QED
      BY ZenonT(60), <1>2, <2>3, <3>1
  <2> QED
    BY <2>2, <2>3
<1>3. ASSUME NEW n \in Node, NEW t \in Thread, Quiet(n, t) PROVE Held'
  <2>1. PICK s \in CallState : s.pc # "wait" /\ ThreadTo(n, t, s)
    BY <1>3, QuietMoves, Zenon
  <2>2. mutex' = mutex
    BY <1>3, Zenon DEF Quiet, CannotAsk, send_request, calibrate_node, remote_call, fence,
       send_message
  <2> QED
    BY <1>2, <2>1, <2>2, Zenon
<1>4. ASSUME NEW n \in Node, NEW t \in Thread, Asks(n, t) PROVE Held'
  <2>1. PICK s \in CallState : ThreadTo(n, t, s)
    BY <1>4, AskMoves, Zenon
  <2>2. mutex[n] = None /\ mutex' = [mutex EXCEPT ![n] = t] /\ None \notin Thread
    BY ZenonT(60), <1>4, AskMoves, Threads
  <2>3. mutex'[n] = t /\ \A k \in Node : k # n => mutex'[k] = mutex[k]
    BY <2>2 DEF Types, CallerTypes
  <2> QED
    BY ZenonT(60), <1>2, <2>1, <2>2, <2>3
<1>5. ASSUME NEW n \in Node, NEW t \in Thread, receive_reply(n, t) \/ receive_fails(n, t)
      PROVE  Held'
  <2>1. /\ thread[n][t].pc = "wait" /\ ThreadTo(n, t, Idle)
        /\ mutex' = [mutex EXCEPT ![n] = None]
    BY <1>5, ReturnMoves, Zenon
  <2>2. mutex[n] = t
    BY <2>1, Zenon DEF Held
  <2>3. \A k \in Node : k # n => mutex'[k] = mutex[k]
    BY <2>1, Zenon DEF Types, CallerTypes
  <2> QED
    BY <1>2, <2>1, <2>2, <2>3, IdleType, Zenon
<1>6. ASSUME NEW n, NEW g, NEW op, NEW a, local_call(n, g, op, a)
      PROVE  thread' = thread /\ mutex' = mutex
  BY <1>6, Zenon DEF local_call
<1>7. CASE UNCHANGED vars
  BY <1>1, <1>7, Zenon DEF vars
<1>8. CASE Next
  BY <1>1, <1>3, <1>4, <1>5, <1>6, <1>8, Steps, StartKeeps, ServerKeeps, Zenon DEF client
<1> QED
  BY <1>7, <1>8

\* A connection is opened by connect_tcp_node only when there is none, and
\* leaves the queue when its handler starts.
LEMMA OpenedStep ==
    ASSUME Types, Opened, [Next]_vars
    PROVE  Opened'
<1>1. CASE backlog' = backlog /\ handler' = handler /\ conn' = conn
  BY <1>1, Zenon DEF Opened
<1>2. ASSUME NEW n \in Node, connect_tcp_node(n), handler' = handler PROVE Opened'
  <2>1. PICK p \in Node :
          \/ conn' = conn /\ backlog' = backlog
          \/ /\ p \notin conn[n]
             /\ conn' = [conn EXCEPT ![n] = conn[n] \cup {p}]
             /\ backlog' = [backlog EXCEPT ![p] = Append(backlog[p], n)]
    BY <1>2, ConnectMoves
  <2>2. CASE /\ p \notin conn[n]
             /\ conn' = [conn EXCEPT ![n] = conn[n] \cup {p}]
             /\ backlog' = [backlog EXCEPT ![p] = Append(backlog[p], n)]
    <3>1. /\ \A k \in Node : conn[k] \subseteq conn'[k]
          /\ p \in conn'[n]
          /\ \A m \in Node : m # p => backlog'[m] = backlog[m]
          /\ backlog'[p] = Append(backlog[p], n)
          /\ backlog[p] \in Seq(Node)
      BY <2>2, Zenon DEF Types, NodeTypes, Tables
    <3>2. \A i \in DOMAIN backlog[p] : backlog[p][i] # n
      BY <2>2, Zenon DEF Opened
    <3>3. handler[p][n].pc = None
      BY <2>2, Zenon DEF Opened
    <3> SUFFICES ASSUME NEW m \in Node
                 PROVE  /\ \A i, j \in DOMAIN backlog'[m] :
                             backlog'[m][i] = backlog'[m][j] => i = j
                        /\ \A i \in DOMAIN backlog'[m] :
                             /\ handler[m][backlog'[m][i]].pc = None
                             /\ m \in conn'[backlog'[m][i]]
                        /\ \A q \in Node : handler[m][q].pc # None => m \in conn'[q]
      BY <1>2, Zenon DEF Opened
    <3>4. \A q \in Node : handler[m][q].pc # None => m \in conn'[q]
      BY <3>1, Zenon DEF Opened
    <3>5. \A i \in DOMAIN backlog[m] : backlog[m][i] \in Node
      BY DEF Types, NodeTypes
    <3>6. CASE m # p
      BY ZenonT(60), <3>1, <3>4, <3>5, <3>6 DEF Opened
    <3>7. CASE m = p
      <4>1. /\ DOMAIN backlog'[p] = 1 .. Len(backlog[p]) + 1
            /\ DOMAIN backlog[p] = 1 .. Len(backlog[p])
            /\ \A i \in DOMAIN backlog[p] : backlog'[p][i] = backlog[p][i]
            /\ backlog'[p][Len(backlog[p]) + 1] = n
            /\ Len(backlog[p]) \in Nat
        BY <3>1
      <4>2. \A i \in DOMAIN backlog'[p] :
              (i \in DOMAIN backlog[p] /\ backlog'[p][i] = backlog[p][i])
              \/ (i = Len(backlog[p]) + 1 /\ backlog'[p][i] = n)
        BY <4>1
      <4>3. \A i, j \in DOMAIN backlog'[p] : backlog'[p][i] = backlog'[p][j] => i = j
        BY ZenonT(60), <3>2, <4>2 DEF Opened
      <4>4. \A i \in DOMAIN backlog'[p] : /\ handler[p][backlog'[p][i]].pc = None
                                          /\ p \in conn'[backlog'[p][i]]
        BY ZenonT(60), <3>1, <3>3, <3>5, <3>7, <4>2 DEF Opened
      <4> QED
        BY <3>4, <3>7, <4>3, <4>4, Zenon
    <3> QED
      BY <3>6, <3>7, Zenon
  <2> QED
    BY <1>1, <1>2, <2>1, <2>2
<1>3. ASSUME NEW m \in Node, accept_connection(m), conn' = conn PROVE Opened'
  <2>1. PICK p \in Node, s \in ServiceState :
          /\ p = Head(backlog[m]) /\ s.pc = "loop"
          /\ HandlerTo(m, p, s)
    BY <1>3, AcceptMoves
  <2>2. /\ backlog[m] \in Seq(Node) /\ backlog[m] # <<>>
        /\ backlog' = [backlog EXCEPT ![m] = Tail(backlog[m])]
    BY <1>3, AcceptMoves, Zenon
  <2>3. /\ handler'[m][p] = s
        /\ \A k, q \in Node : k # m \/ q # p => handler'[k][q] = handler[k][q]
    BY <2>1, HandlerPut
  <2>4. /\ backlog'[m] = Tail(backlog[m])
        /\ \A k \in Node : k # m => backlog'[k] = backlog[k]
    BY <2>2 DEF Types, NodeTypes
  <2>5. /\ p = backlog[m][1] /\ 1 \in DOMAIN backlog[m]
        /\ \A i \in DOMAIN backlog'[m] : /\ i \in Nat /\ i + 1 \in DOMAIN backlog[m]
                                         /\ i + 1 # 1
                                         /\ backlog'[m][i] = backlog[m][i + 1]
    <3> DEFINE q == backlog[m]
    <3>1. q \in Seq(Node) /\ q # <<>> /\ p = Head(q) /\ backlog'[m] = Tail(q)
      BY <2>1, <2>2, <2>4
    <3> HIDE DEF q
    <3>2. /\ p = q[1] /\ 1 \in DOMAIN q /\ DOMAIN q = 1 .. Len(q) /\ Len(q) \in Nat
          /\ DOMAIN Tail(q) = 1 .. Len(q) - 1
          /\ \A i \in 1 .. Len(q) - 1 : Tail(q)[i] = q[i + 1]
      BY <3>1
    <3>3. \A i \in 1 .. Len(q) - 1 : i \in Nat /\ i + 1 \in 1 .. Len(q) /\ i + 1 # 1
      BY <3>2
    <3> QED
      BY <3>1, <3>2, <3>3, Zenon DEF q
  <2>6. \A k \in Node : \A i \in DOMAIN backlog[k] : backlog[k][i] \in Node
    BY DEF Types, NodeTypes
  <2>7. m \in conn[p]
    BY <2>5, Zenon DEF Opened
  <2>8. \A i \in DOMAIN backlog'[m] : backlog'[m][i] # p
    BY <2>5 DEF Opened
  <2>9. \A i, j \in DOMAIN backlog'[m] : backlog'[m][i] = backlog'[m][j] => i = j
    <3> SUFFICES ASSUME NEW i \in DOMAIN backlog'[m], NEW j \in DOMAIN backlog'[m],
                        backlog'[m][i] = backlog'[m][j]
                 PROVE  i = j
      OBVIOUS
    <3>1. i + 1 = j + 1
      BY <2>5, SMTT(30) DEF Opened
    <3> QED
      BY <2>5, <3>1
  <2>10. \A i \in DOMAIN backlog'[m] : /\ handler'[m][backlog'[m][i]].pc = None
                                       /\ m \in conn[backlog'[m][i]]
    BY <2>3, <2>5, <2>6, <2>8, SMTT(30) DEF Opened
  <2>11. ASSUME NEW k \in Node
         PROVE  \A q \in Node : handler'[k][q].pc # None => k \in conn[q]
    BY ZenonT(60), <2>3, <2>7 DEF Opened
  <2>12. ASSUME NEW k \in Node, k # m
         PROVE  /\ \A i, j \in DOMAIN backlog'[k] : backlog'[k][i] = backlog'[k][j] => i = j
                /\ \A i \in DOMAIN backlog'[k] : /\ handler'[k][backlog'[k][i]].pc = None
                                                 /\ k \in conn[backlog'[k][i]]
    BY <2>3, <2>4, <2>6, <2>12, SMTT(30) DEF Opened
  <2> QED
    BY ZenonT(60), <1>3, <2>9, <2>10, <2>11, <2>12 DEF Opened
<1>4. ASSUME NEW m \in Node, NEW p \in Node, handle_client(m, p),
             conn' = conn, backlog' = backlog
      PROVE  Opened'
  <2>1. PICK s \in ServiceState : s.pc # None /\ HandlerTo(m, p, s)
    BY <1>4, HandlerMoves, Zenon
  <2>2. /\ handler'[m][p] = s
        /\ \A k, q \in Node : k # m \/ q # p => handler'[k][q] = handler[k][q]
    BY <2>1, HandlerPut
  <2>3. handler[m][p].pc # None
    BY <1>4, HandlerMoves, Zenon
  <2>4. \A k, q \in Node : handler'[k][q].pc # None <=> handler[k][q].pc # None
    BY ZenonT(60), <2>1, <2>2, <2>3
  <2>5. \A k \in Node : \A i \in DOMAIN backlog[k] : backlog[k][i] \in Node
    BY DEF Types, NodeTypes
  <2> QED
    BY ZenonT(60), <1>4, <2>4, <2>5 DEF Opened
<1>5. ASSUME NEW n, Initialize(n) PROVE conn' = conn /\ backlog' = backlog /\ handler' = handler
  BY <1>5, Zenon DEF Initialize, server
<1>6. ASSUME NEW n, NEW t,
             \/ \E op \in Op, a \in Addr : local_call(n, t, op, a)
             \/ Quiet(n, t) \/ Asks(n, t) \/ receive_reply(n, t) \/ receive_fails(n, t)
      PROVE  conn' = conn /\ backlog' = backlog /\ handler' = handler
  BY <1>6, Zenon DEF Quiet, Asks, CannotAsk, local_call, calibrate_node, remote_call, fence,
     send_message, send_request, receive_reply, receive_fails, server
<1>7. ASSUME NEW n, Crash(n) PROVE conn' = conn /\ backlog' = backlog /\ handler' = handler
  BY <1>7, Zenon DEF Crash, server, client
<1>8. ASSUME NEW m, NEW p, handle_client(m, p) PROVE backlog' = backlog
  BY <1>8, Zenon DEF handle_client, receive_message, message_arrives, peer_closed,
     reply_message, reply_fails
<1>9. CASE UNCHANGED vars
  BY <1>1, <1>9, Zenon DEF vars
<1>10. CASE Next
  BY ZenonT(60), <1>1, <1>2, <1>3, <1>4, <1>5, <1>6, <1>7, <1>8, <1>10, Steps, StartKeeps,
     ServerKeeps DEF client
<1> QED
  BY <1>9, <1>10

\* sock_fd_ is assigned on accept, and a handler copies it or what came from it.
LEMMA UsedStep ==
    ASSUME Types, Used, [Next]_vars
    PROVE  Used'
<1>1. CASE handler' = handler /\ sock' = sock
  BY ZenonT(60), <1>1 DEF Used, Accepted
<1>2. ASSUME NEW m \in Node, NEW p \in Node, NEW s \in ServiceState, s.pc # None,
             HandlerTo(m, p, s),
             \A k \in Node : k # m => sock'[k] = sock[k],
             sock'[m] # NoSocket => sock'[m] \in Accepted(m) \cup {p},
             s.pc = "recv" => s.fd \in Accepted(m),
             s.pc = "reply" => s.msg.from \in Accepted(m)
      PROVE  Used'
  <2>1. /\ handler'[m][p] = s
        /\ \A k, q \in Node : k # m \/ q # p => handler'[k][q] = handler[k][q]
    BY SMTT(60), <1>2, HandlerPut
  <2>2. /\ \A k \in Node : Accepted(k) \subseteq Accepted(k)'
        /\ p \in Accepted(m)'
    BY <1>2, <2>1 DEF Accepted
  <2> SUFFICES ASSUME NEW k \in Node
               PROVE  /\ sock'[k] # NoSocket => sock'[k] \in Accepted(k)'
                      /\ \A q \in Node :
                           /\ handler'[k][q].pc = "recv" => handler'[k][q].fd \in Accepted(k)'
                           /\ handler'[k][q].pc = "reply" =>
                                handler'[k][q].msg.from \in Accepted(k)'
    BY Zenon DEF Used
  <2>3. sock'[k] # NoSocket => sock'[k] \in Accepted(k)'
    BY <1>2, <2>2, Zenon DEF Used
  <2>4. ASSUME NEW q \in Node
        PROVE  /\ handler'[k][q].pc = "recv" => handler'[k][q].fd \in Accepted(k)'
               /\ handler'[k][q].pc = "reply" => handler'[k][q].msg.from \in Accepted(k)'
    <3>1. CASE k = m /\ q = p
      BY <1>2, <2>1, <2>2, <3>1, Zenon
    <3>2. CASE k # m \/ q # p
      <4>1. handler'[k][q] = handler[k][q]
        BY <2>1, <3>2, Zenon
      <4> QED
        BY <2>2, <4>1, Zenon DEF Used
    <3> QED
      BY <3>1, <3>2, Zenon
  <2> QED
    BY <2>3, <2>4, Zenon
<1>3. ASSUME NEW m \in Node, accept_connection(m) PROVE Used'
  <2>1. PICK p \in Node, s \in ServiceState :
          /\ s.pc = "loop" /\ sock' = [sock EXCEPT ![m] = p]
          /\ HandlerTo(m, p, s)
    BY <1>3, AcceptMoves, Zenon
  <2>2. sock'[m] = p /\ \A k \in Node : k # m => sock'[k] = sock[k]
    BY <2>1 DEF Types, HandlerTypes
  <2> QED
    BY <1>2, <2>1, <2>2, Zenon DEF None
<1>4. ASSUME NEW m \in Node, NEW p \in Node, handle_client(m, p) PROVE Used'
  <2>1. PICK s \in ServiceState :
          /\ HandlerTo(m, p, s)
          /\ s.pc # None
          /\ s.pc = "recv" => s.fd = sock[m]
          /\ s.pc = "reply" => message_arrives(m, p) /\ s.msg.from = handler[m][p].fd
    BY ZenonT(60), <1>4, HandlerMoves
  <2>2. handler[m][p].pc # None /\ sock' = sock
    BY ZenonT(60), <1>4, HandlerMoves
  <2>3. sock[m] \in Accepted(m)
    <3>1. sock[m] \in Node
      BY <2>2, Zenon DEF Types, HandlerTypes
    <3> QED
      BY <3>1 DEF Used, NoSocket, Node
  <2>4. ASSUME s.pc = "reply" PROVE s.msg.from \in Accepted(m)
    <3>1. handler[m][p].pc = "recv" /\ s.msg.from = handler[m][p].fd
      BY <2>1, <2>4, ArrivalMoves, Zenon
    <3> QED
      BY <3>1, Zenon DEF Used
  <2> QED
    BY <1>2, <2>1, <2>2, <2>3, <2>4, Zenon
<1>5. ASSUME NEW n, Crash(n) PROVE handler' = handler /\ sock' = sock
  BY <1>5, Zenon DEF Crash, server
<1>6. CASE UNCHANGED vars
  BY <1>1, <1>6 DEF vars
<1>7. CASE Next
  BY <1>1, <1>3, <1>4, <1>5, <1>7, Steps, StartKeeps, CallerKeeps, Zenon DEF server
<1> QED
  BY <1>6, <1>7

\* The handler of a sole client that is up does not leave its loop: sock_fd_
\* and the socket it waits on are that client's.
LEMMA SoleHandler ==
    ASSUME Types, Used, Served, NEW n \in Node, NEW m \in Node, NEW p \in Node,
           up[n], up[m], Accepted(m) \subseteq {n}, handle_client(m, p)
    PROVE  /\ p = n /\ sock[m] = n /\ connected' = connected
           /\ handler[m][n].pc = "recv" => handler[m][n].fd = n
           /\ handler[m][n].pc = "reply" => handler[m][n].msg.from = n
           /\ \/ receive_message(m, n) /\ ~Leave(m, n)
              \/ message_arrives(m, n) \/ reply_message(m, n)
<1>1. handler[m][p].pc # None
  BY ZenonT(60), HandlerMoves
<1>2. p = n /\ Accepted(m) = {n}
  BY <1>1, Zenon DEF Accepted
<1>3. connected[m]
  BY <1>2, Zenon DEF Served
<1>4. sock[m] = n
  <2>1. sock[m] \in Node
    BY <1>1, Zenon DEF Types, HandlerTypes
  <2> QED
    BY <1>2, <2>1 DEF Used, NoSocket, Node
<1>5. /\ handler[m][n].pc = "recv" => handler[m][n].fd = n
      /\ handler[m][n].pc = "reply" => handler[m][n].msg.from = n
  BY <1>2, Zenon DEF Used
<1>6. ~peer_closed(m, n)
  BY <1>5, Zenon DEF peer_closed
<1>7. ~reply_fails(m, n)
  BY <1>3, <1>4, Zenon DEF reply_fails
<1>8. ASSUME receive_message(m, n) PROVE ~Leave(m, n) /\ connected' = connected
  <2>1. connected' = connected
    BY <1>3, <1>8, Zenon DEF receive_message
  <2>2. ASSUME Leave(m, n) PROVE connected'[m] = FALSE
    BY <2>2 DEF Leave, Types, NodeTypes
  <2> QED
    BY <1>3, <2>1, <2>2, Zenon
<1>9. ASSUME message_arrives(m, n) \/ reply_message(m, n) PROVE connected' = connected
  BY <1>9, Zenon DEF message_arrives, reply_message
<1> QED
  BY <1>2, <1>4, <1>5, <1>6, <1>7, <1>8, <1>9, Zenon DEF handle_client

\* Nothing but the end of the sole client makes a handler clear connected_.
LEMMA ServedStep ==
    ASSUME Types, Used, Served, [Next]_vars
    PROVE  Served'
<1> SUFFICES ASSUME NEW n \in Node, NEW m \in Node, up'[n], up'[m], Accepted(m)' = {n}
             PROVE  connected'[m]
  BY Zenon DEF Served
<1>1. up[n] /\ up[m]
  BY DownLasts, Zenon
<1>2. Accepted(m) \subseteq {n}
  BY AcceptedLasts, Zenon DEF Accepted
<1>3. ASSUME \A p \in Node : handler'[m][p].pc # None => handler[m][p].pc # None,
             connected'[m] = connected[m]
      PROVE  connected'[m]
  <2>1. Accepted(m) = {n}
    BY <1>2, <1>3, Zenon DEF Accepted
  <2> QED
    BY <1>1, <1>3, <2>1, Zenon DEF Served
<1>4. CASE handler' = handler /\ connected' = connected
  BY <1>3, <1>4, Zenon
<1>5. ASSUME NEW k \in Node, accept_connection(k) PROVE connected'[m]
  <2>1. PICK p \in Node, s \in ServiceState : HandlerTo(k, p, s)
    BY <1>5, AcceptMoves, Zenon
  <2>2. connected' = [connected EXCEPT ![k] = TRUE]
    BY <1>5, AcceptMoves, Zenon
  <2>3. CASE k = m
    BY <2>2, <2>3 DEF Types, NodeTypes
  <2>4. CASE k # m
    <3>1. \A q \in Node : handler'[m][q] = handler[m][q]
      BY <2>1, <2>4, HandlerPut
    <3>2. connected'[m] = connected[m]
      BY <2>2, <2>4, Zenon DEF Types, NodeTypes
    <3> QED
      BY <1>3, <3>1, <3>2, Zenon
  <2> QED
    BY <2>3, <2>4, Zenon
<1>6. ASSUME NEW k \in Node, NEW p \in Node, handle_client(k, p) PROVE connected'[m]
  <2>1. PICK s \in ServiceState : HandlerTo(k, p, s)
    BY ZenonT(60), <1>6, HandlerMoves
  <2>2. handler[k][p].pc # None
    BY SMTT(60), <1>6, HandlerMoves
  <2>3. \A c, q \in Node : c # k \/ q # p => handler'[c][q] = handler[c][q]
    BY <2>1, HandlerPut
  <2>4. \A q \in Node : handler'[m][q].pc # None => handler[m][q].pc # None
    BY ZenonT(60), <2>2, <2>3
  <2>5. connected'[m] = connected[m]
    <3>1. CASE k = m
      BY <1>1, <1>2, <1>6, <3>1, SoleHandler, Zenon
    <3>2. CASE k # m
      <4>1. connected' = connected \/ connected' = [connected EXCEPT ![k] = FALSE]
        BY <1>6, Zenon DEF handle_client, receive_message, message_arrives, peer_closed,
           reply_message, reply_fails, Leave
      <4> QED
        BY <3>2, <4>1 DEF Types, NodeTypes
    <3> QED
      BY <3>1, <3>2, Zenon
  <2> QED
    BY <1>3, <2>4, <2>5, Zenon
<1>7. ASSUME NEW k, Crash(k) PROVE handler' = handler /\ connected' = connected
  BY <1>7, Zenon DEF Crash, server
<1>8. CASE UNCHANGED vars
  BY <1>4, <1>8, Zenon DEF vars
<1>9. CASE Next
  BY <1>4, <1>5, <1>6, <1>7, <1>9, Steps, StartKeeps, CallerKeeps, Zenon DEF server
<1> QED
  BY <1>8, <1>9, Zenon
=============================================================================
