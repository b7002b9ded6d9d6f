--------------------------- MODULE MessageManager ---------------------------
(***************************************************************************)
(* The messages between the nodes of a distributed server                  *)
(* (DistributedMessageManager, src/distributed_server.cpp): one ring in    *)
(* shared memory for each ordered pair of nodes, worker threads that poll  *)
(* the rings of the other nodes, calls that wait for the response with     *)
(* their number, heartbeats, and the start of the nodes.  The calls are    *)
(* the ones the shared-memory transport carries: the operations on the     *)
(* label storage area (LSA) that a node forwards to node 0, its owner.     *)
(* A message is its type and its number: the contents of the LSA, and the  *)
(* status that tells a read beyond its end, are left out.                  *)
(*                                                                         *)
(* No lock protects a ring.  The loads of its indices, the copy of a       *)
(* message and the store of an index are steps, so two clients, two        *)
(* workers, or a worker and the heartbeat thread may overlap on a ring;    *)
(* the two loads of enqueue_message are one step, and so is each copy.     *)
(* pending_mutex_ is a variable because process_message keeps it while it  *)
(* waits for the mutex of a request; that mutex is kept across steps only  *)
(* by a call that has timed out, so it is that call's pc.                  *)
(*                                                                         *)
(* A deadline passes at any moment of a wait.  A division by the capacity  *)
(* of a ring that another node is just wiping ends the process.            *)
(***************************************************************************)
EXTENDS Integers, FiniteSetsExt

CONSTANTS Node,          \* node ids; 0 is the coordinator
          Client,        \* threads that serve the clients of the other nodes
          Worker,        \* message processing threads: 2 per node in the code
          home,          \* the node of each client and worker thread
          None,          \* no thread
          Capacity,      \* DIST_MSG_QUEUE_SIZE: 4096 in the code
          MaxId          \* bound: message numbers each node uses

DIST_MAX_NODES == 16

ASSUME MessageAssumption ==
  /\ Node \subseteq 0..(DIST_MAX_NODES - 1) /\ 0 \in Node
  /\ Client \cap Worker = {} /\ (Client \cup Worker) \cap Node = {}
  /\ None \notin Client \cup Worker \cup Node
  /\ home \in [Client \cup Worker -> Node]
  /\ \A c \in Client : home[c] # 0
  /\ Capacity \in Nat \ {0, 1}
  /\ MaxId \in [Node -> Nat]

VARIABLES up,            \* how far each node's process has come
          active,        \* nodes whose status in shared memory is READY
          capacity,      \* capacity field of the rings: 0 while a node wipes
          queue,         \* the ring from node to node
          next_msg_id,   \* next_msg_id_ of each node
          pending_mutex, \* worker that holds pending_mutex_ of each node
          pending,       \* clients with an entry in pending_requests_
          completed,     \* completed flag of each client's request
          resp,          \* response buffer of each client
          thread,        \* where each thread is
          executed       \* history: the requests the coordinator has executed

shm == <<active, capacity, queue>>

calls == <<pending_mutex, pending, completed, resp>>

vars == <<up, shm, next_msg_id, calls, thread, executed>>

Thread == Client \cup Worker \cup Node

Home(t) == IF t \in Node THEN t ELSE home[t]

Slot == 0..(Capacity - 1)

Message == [type : {"none", "request", "response", "heartbeat"}, id : Nat]

Zero == [type |-> "none", id |-> 0]

EmptyQueue == [head |-> 0, tail |-> 0, messages |-> [i \in Slot |-> Zero]]

(* The thread of a client, a worker or, for a node, its heartbeats: peers  *)
(* are the nodes it still has to send to, or the node it receives from.    *)
Resting == [pc |-> "rest", peers |-> {}, msg |-> Zero, head |-> 0, tail |-> 0]

(* One type invariant of the message manager: the shape of its state.      *)
TypeOK ==
  /\ up \in [Node -> {"down", "opened", "wiped", "initialized", "running", "crashed"}]
  /\ active \in SUBSET Node
  /\ capacity \in {0, Capacity}
  /\ queue \in [Node \X Node -> [head : Slot, tail : Slot, messages : [Slot -> Message]]]
  /\ next_msg_id \in [Node -> Nat \ {0}]
  /\ pending_mutex \in [Node -> Worker \cup {None}]
  /\ pending \in SUBSET Client
  /\ completed \in [Client -> BOOLEAN]
  /\ resp \in [Client -> Message]
  /\ thread \in [Thread ->
       [pc : {"rest", "insert", "unsent", "wait", "timed_out", "cleanup",
              "find", "deliver", "complete", "handle",
              "tail", "take", "taken", "put", "copy", "copied"},
        peers : SUBSET Node, msg : Message, head : Slot, tail : Slot]]
  /\ executed \in SUBSET (Node \X Nat)

Init ==
  /\ up = [n \in Node |-> "down"]
  /\ active = {} /\ capacity = 0
  /\ queue = [p \in Node \X Node |-> EmptyQueue]
  /\ next_msg_id = [n \in Node |-> 1]
  /\ pending_mutex = [n \in Node |-> None]
  /\ pending = {}
  /\ completed = [c \in Client |-> FALSE]
  /\ resp = [c \in Client |-> Zero]
  /\ thread = [t \in Thread |-> Resting]
  /\ executed = {}

At(t, pc) == up[Home(t)] = "running" /\ thread[t].pc = pc

Goto(t, pc) == thread' = [thread EXCEPT ![t].pc = pc]

Rest(t) == thread' = [thread EXCEPT ![t] = Resting]

(* A worker that is done with a message looks for the next of the same node. *)
Polling(w) == [Resting EXCEPT !.peers = thread[w].peers]

ContinuePolling(w) == thread' = [thread EXCEPT ![w] = Polling(w)]

-----------------------------------------------------------------------------
(* Start of a node.  initialize opens the segment, which node 0 creates,   *)
(* clears the whole of it, whether this node created it or joins the       *)
(* others, and sets up the rings.                                          *)
open_segment(n) ==
  /\ up[n] = "down" /\ (n # 0 => up[0] # "down")
  /\ up' = [up EXCEPT ![n] = "opened"]
  /\ UNCHANGED <<shm, next_msg_id, calls, thread, executed>>

wipe_segment(n) ==
  /\ up[n] = "opened"
  /\ up' = [up EXCEPT ![n] = "wiped"]
  /\ active' = {} /\ capacity' = 0
  /\ queue' = [p \in Node \X Node |-> EmptyQueue]
  /\ UNCHANGED <<next_msg_id, calls, thread, executed>>

initialize_queues(n) ==
  /\ up[n] = "wiped"
  /\ up' = [up EXCEPT ![n] = "initialized"]
  /\ capacity' = Capacity
  /\ queue' = [p \in Node \X Node |-> [queue[p] EXCEPT !.head = 0, !.tail = 0]]
  /\ UNCHANGED <<active, next_msg_id, calls, thread, executed>>

(* register_node, and start, which lets the threads run.                   *)
register_node(n) ==
  /\ up[n] = "initialized"
  /\ up' = [up EXCEPT ![n] = "running"]
  /\ active' = active \cup {n}
  /\ UNCHANGED <<capacity, queue, next_msg_id, calls, thread, executed>>

crash(n) ==
  /\ up' = [up EXCEPT ![n] = "crashed"]
  /\ UNCHANGED <<shm, next_msg_id, calls, thread, executed>>

-----------------------------------------------------------------------------
(* enqueue_message, by any thread, to the first of its peers: the indices  *)
(* are loaded, the message is copied, head is stored.                      *)
RingOut(t) == <<Home(t), Min(thread[t].peers)>>

not_wrapped(i) == i + 1

Successor(i) == (i + 1) % Capacity

(* Sent or dropped: the next peer, or what the thread does afterwards.  A  *)
(* worker goes on with the node it answered.                               *)
next_peer(t, sent) ==
  LET left == thread[t].peers \ {Min(thread[t].peers)}
  IN IF t \in Worker THEN ContinuePolling(t)
     ELSE IF t \in Client
     THEN thread' = [thread EXCEPT ![t] = [@ EXCEPT !.pc = IF sent THEN "wait" ELSE "unsent",
                                                    !.head = 0]]
     ELSE IF left = {} THEN Rest(t)
     ELSE thread' = [thread EXCEPT ![t] = [@ EXCEPT !.pc = "put", !.peers = left,
                                                    !.head = 0]]

load_indices(t) ==
  /\ At(t, "put")
  /\ LET q == queue[RingOut(t)]
     IN IF capacity = 0 THEN crash(Home(t))
        ELSE /\ IF Successor(q.head) = q.tail THEN next_peer(t, FALSE)
                ELSE thread' = [thread EXCEPT ![t] = [@ EXCEPT !.pc = "copy",
                                                               !.head = q.head]]
             /\ UNCHANGED <<up, shm, next_msg_id, calls, executed>>

copy_message(t) ==
  /\ At(t, "copy")
  /\ queue' = [queue EXCEPT ![RingOut(t)].messages[thread[t].head] = thread[t].msg]
  /\ Goto(t, "copied")
  /\ UNCHANGED <<up, active, capacity, next_msg_id, calls, executed>>

store_head(t) ==
  /\ At(t, "copied")
  /\ queue' = [queue EXCEPT ![RingOut(t)].head = Successor(thread[t].head)]
  /\ next_peer(t, TRUE)
  /\ UNCHANGED <<up, active, capacity, next_msg_id, calls, executed>>

enqueue_message(t) == load_indices(t) \/ copy_message(t) \/ store_head(t)

-----------------------------------------------------------------------------
(* A call: an LSA operation of a client, sent to node 0 by                 *)
(* send_message_wait_response.                                             *)
forward_lsa_to_coordinator(c) ==
  LET n == home[c]
  IN /\ At(c, "rest") /\ next_msg_id[n] <= MaxId[n]
     /\ next_msg_id' = [next_msg_id EXCEPT ![n] = @ + 1]
     /\ thread' = [thread EXCEPT ![c] = [@ EXCEPT !.pc = "insert", !.peers = {0},
          !.msg = [type |-> "request", id |-> next_msg_id[n]]]]
     /\ UNCHANGED <<up, shm, calls, executed>>

Unlocked(c) == pending_mutex[home[c]] = None

insert_pending(c) ==
  /\ At(c, "insert") /\ Unlocked(c)
  /\ pending' = pending \cup {c}
  /\ Goto(c, "put")
  /\ UNCHANGED <<up, shm, next_msg_id, pending_mutex, completed, resp, executed>>

(* The wait ends because the request is completed, or at its deadline; the *)
(* call keeps the request's mutex at the deadline.                         *)
wait_for(c) ==
  /\ At(c, "wait")
  /\ Goto(c, IF completed[c] THEN "cleanup" ELSE "timed_out")
  /\ UNCHANGED <<up, shm, next_msg_id, calls, executed>>

(* The three ways out erase the entry under pending_mutex_; the request    *)
(* and the response buffer end with the call.                              *)
erase_pending(c) ==
  /\ At(c, "unsent") \/ At(c, "timed_out") \/ At(c, "cleanup")
  /\ Unlocked(c)
  /\ pending' = pending \ {c}
  /\ completed' = [completed EXCEPT ![c] = FALSE]
  /\ resp' = [resp EXCEPT ![c] = Zero]
  /\ Rest(c)
  /\ UNCHANGED <<up, shm, next_msg_id, pending_mutex, executed>>

-----------------------------------------------------------------------------
(* A worker: poll_messages turns to the ring of an active node and takes   *)
(* what it holds, one message after the other, without looking again       *)
(* whether the node is active.                                             *)
RingIn(w) == <<Min(thread[w].peers), home[w]>>

poll_messages(w, src) ==
  /\ At(w, "rest")
  /\ src \in IF thread[w].peers = {} THEN active \ {home[w]} ELSE thread[w].peers
  /\ thread' = [thread EXCEPT ![w] = [@ EXCEPT !.pc = "tail", !.peers = {src},
                                               !.head = queue[<<src, home[w]>>].head]]
  /\ UNCHANGED <<up, shm, next_msg_id, calls, executed>>

load_tail(w) ==
  /\ At(w, "tail")
  /\ LET tail == queue[RingIn(w)].tail
     IN IF thread[w].head = tail THEN Rest(w)
        ELSE thread' = [thread EXCEPT ![w] = [@ EXCEPT !.pc = "take", !.head = 0,
                                                       !.tail = tail]]
  /\ UNCHANGED <<up, shm, next_msg_id, calls, executed>>

take_message(w) ==
  /\ At(w, "take")
  /\ thread' = [thread EXCEPT ![w] = [@ EXCEPT !.pc = "taken",
       !.msg = queue[RingIn(w)].messages[thread[w].tail]]]
  /\ UNCHANGED <<up, shm, next_msg_id, calls, executed>>

store_tail(w) ==
  /\ At(w, "taken")
  /\ IF capacity = 0 THEN crash(home[w])
     ELSE /\ queue' = [queue EXCEPT ![RingIn(w)].tail = Successor(thread[w].tail)]
          /\ thread' = [thread EXCEPT ![w] = [@ EXCEPT !.pc = "find", !.tail = 0]]
          /\ UNCHANGED <<up, active, capacity, next_msg_id, calls, executed>>

dequeue_message(w) == load_tail(w) \/ take_message(w) \/ store_tail(w)

-----------------------------------------------------------------------------
(* process_message: a message whose number is pending completes that       *)
(* request, whatever its type.  pending_mutex_ is kept until then.         *)
FoundAny(w) == {c \in pending : home[c] = home[w]}

Found(w) == {c \in pending : home[c] = home[w] /\ thread[c].msg.id = thread[w].msg.id}

find_and_unlock(w) ==
  /\ At(w, "find") /\ pending_mutex[home[w]] = None
  /\ Goto(w, IF Found(w) = {} THEN "handle" ELSE "deliver")
  /\ UNCHANGED <<up, shm, next_msg_id, calls, executed>>

find_pending(w) ==
  /\ At(w, "find") /\ pending_mutex[home[w]] = None
  /\ \/ /\ Found(w) = {}
        /\ Goto(w, "handle") /\ UNCHANGED pending_mutex
     \/ /\ Found(w) # {}
        /\ Goto(w, "deliver") /\ pending_mutex' = [pending_mutex EXCEPT ![home[w]] = w]
  /\ UNCHANGED <<up, shm, next_msg_id, pending, completed, resp, executed>>

copy_response(w) ==
  /\ At(w, "deliver")
  /\ resp' = [c \in Client |-> IF c \in Found(w) THEN thread[w].msg ELSE resp[c]]
  /\ Goto(w, "complete")
  /\ UNCHANGED <<up, shm, next_msg_id, pending_mutex, pending, completed, executed>>

complete_and_keep(w) ==
  /\ At(w, "complete") /\ \A c \in Found(w) : thread[c].pc # "timed_out"
  /\ completed' = [c \in Client |-> c \in Found(w) \/ completed[c]]
  /\ ContinuePolling(w)
  /\ UNCHANGED <<up, shm, next_msg_id, pending_mutex, pending, resp, executed>>

complete_request(w) ==
  /\ At(w, "complete") /\ \A c \in Found(w) : thread[c].pc # "timed_out"
  /\ completed' = [c \in Client |-> c \in Found(w) \/ completed[c]]
  /\ pending_mutex' = [pending_mutex EXCEPT ![home[w]] = None]
  /\ ContinuePolling(w)
  /\ UNCHANGED <<up, shm, next_msg_id, pending, resp, executed>>

(* The LSA handlers execute a request and answer it; a heartbeat is noted; *)
(* anything else, a late response for one, has no handler.                 *)
handle_request(w) ==
  LET m == thread[w].msg
      src == Min(thread[w].peers)
  IN /\ At(w, "handle") /\ m.type = "request"
     /\ executed' = executed \cup {<<src, m.id>>}
     /\ thread' = [thread EXCEPT ![w] = [@ EXCEPT !.pc = "put",
          !.msg = [type |-> "response", id |-> m.id]]]
     /\ UNCHANGED <<up, shm, next_msg_id, calls>>

handle_other(w) ==
  /\ At(w, "handle") /\ thread[w].msg.type # "request"
  /\ ContinuePolling(w)
  /\ UNCHANGED <<up, shm, next_msg_id, calls, executed>>

process_message(w) ==
  \/ find_pending(w) \/ copy_response(w) \/ complete_request(w)
  \/ handle_request(w) \/ handle_other(w)

-----------------------------------------------------------------------------
(* The heartbeat thread of a node: a number, and the other active nodes.   *)
send_heartbeat(n) ==
  /\ At(n, "rest") /\ next_msg_id[n] <= MaxId[n]
  /\ next_msg_id' = [next_msg_id EXCEPT ![n] = @ + 1]
  /\ IF active \ {n} = {} THEN UNCHANGED thread
     ELSE thread' = [thread EXCEPT ![n] = [@ EXCEPT !.pc = "put",
            !.peers = active \ {n},
            !.msg = [type |-> "heartbeat", id |-> next_msg_id[n]]]]
  /\ UNCHANGED <<up, shm, calls, executed>>

client_step(c) == insert_pending(c) \/ wait_for(c) \/ erase_pending(c)

worker_step(w) == dequeue_message(w) \/ process_message(w)

Next ==
  \/ \E n \in Node : open_segment(n) \/ wipe_segment(n) \/ initialize_queues(n)
                    \/ register_node(n) \/ send_heartbeat(n)
  \/ \E c \in Client : forward_lsa_to_coordinator(c) \/ client_step(c)
  \/ \E w \in Worker : \/ \E src \in Node : poll_messages(w, src)
                       \/ worker_step(w)
  \/ \E t \in Thread : enqueue_message(t)

Spec == Init /\ [][Next]_vars

(* A thread that can go on does: the waits of a call end at a deadline,    *)
(* and a mutex that is free is granted.                                    *)
FairSpec ==
  /\ Spec
  /\ \A t \in Thread : WF_vars(enqueue_message(t))
  /\ \A c \in Client : WF_vars(client_step(c))
  /\ \A w \in Worker : WF_vars(worker_step(w))

-----------------------------------------------------------------------------
(* process_message writes into a buffer on the stack of the caller.  While *)
(* it does, the caller has not returned: the entry it was found by is in   *)
(* pending_requests_, for the same number, until the worker has set        *)
(* completed.  Only pending_mutex_, held from the search to the end,       *)
(* ensures it: a call that times out must wait for it.                     *)
ResponseBufferIsLive ==
  \A w \in Worker : thread[w].pc \in {"deliver", "complete"} => Found(w) # {}

(* A call that was completed by a response was executed by the coordinator *)
(* before, even though racing workers repeat, lose or mix up messages.     *)
AnsweredMeansExecuted ==
  \A c \in pending : completed[c] /\ resp[c].type = "response"
     => <<home[c], thread[c].msg.id>> \in executed

(* A worker that completes a request while the call holds that request's   *)
(* mutex at its deadline: each waits for the mutex of the other.           *)
Deadlocked(n) ==
  \E w \in Worker : /\ home[w] = n /\ thread[w].pc = "complete"
                    /\ \E c \in Found(w) : thread[c].pc = "timed_out"

(* A forwarded LSA operation returns, unless its node deadlocks over the   *)
(* two mutexes or its process ends: lost messages, full rings and wiped    *)
(* rings cost at most the deadline.                                        *)
CallReturnsOrDeadlocks ==
  \A c \in Client : thread[c].pc # "rest" ~>
    thread[c].pc = "rest" \/ Deadlocked(home[c]) \/ up[home[c]] = "crashed"

(* Only the response to a request completes it.  The code breaks this: the *)
(* nodes number their messages independently, and a heartbeat with the     *)
(* number of a pending request completes it.                               *)
OnlyResponsesComplete ==
  \A c \in pending : completed[c] => resp[c].type = "response"
=============================================================================
