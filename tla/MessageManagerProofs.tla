------------------------ MODULE MessageManagerProofs ------------------------
(***************************************************************************)
(* What the message manager keeps for every number of nodes, threads and   *)
(* ring slots, however the threads race on the rings and whoever wipes     *)
(* them: its types, that a response is written only into the buffer of a   *)
(* call that has not returned, and that a call completed by a response was *)
(* executed by the coordinator.                                            *)
(*                                                                         *)
(* The second needs that a worker that has found a request holds           *)
(* pending_mutex_ until it has completed it; the third that every copy of  *)
(* a response, in a ring, in a thread or in a buffer, is for an executed   *)
(* request of the node it is meant for.                                    *)
(***************************************************************************)
EXTENDS MessageManager, TLAPS

Pc == {"rest", "insert", "unsent", "wait", "timed_out", "cleanup",
       "find", "deliver", "complete", "handle",
       "tail", "take", "taken", "put", "copy", "copied"}

AnyControl == [pc : Pc, peers : SUBSET Node, msg : Message, head : Slot, tail : Slot]

Ring == [head : Slot, tail : Slot, messages : [Slot -> Message]]

(* A thread inside an operation has a peer. *)
Control == {r \in AnyControl : r.pc # "rest" => r.peers # {}}

TypeInv == TypeOK /\ thread \in [Thread -> Control]

(* A set of nodes that is not empty has a smallest one: the next peer.     *)
LEMMA MinMember ==
  ASSUME NEW S \in SUBSET (0..(DIST_MAX_NODES - 1)), S # {}
  PROVE  Min(S) \in S
<1> DEFINE HasLeast == \E n \in S : \A m \in S : n <= m
           Below(k) == (\E n \in S : n < k) => HasLeast
<1>1. \A n \in S : n \in Int /\ 0 <= n /\ n < 16
  BY DEF DIST_MAX_NODES
<1>2. \A k \in Int : Below(k) => Below(k + 1)
  <2> SUFFICES ASSUME NEW k \in Int, Below(k), NEW n \in S, n < k + 1 PROVE HasLeast
    OBVIOUS
  <2>1. CASE \E m \in S : m < k
    BY <2>1
  <2>2. CASE ~\E m \in S : m < k
    <3>1. \A m \in S : n <= m
      BY <1>1, <2>2
    <3> QED
      BY <3>1
  <2> QED
    BY <2>1, <2>2
<1>3. Below(0)
  BY <1>1
<1> HIDE DEF Below
<1>4. Below(16)
  <2>1. Below(4)
    BY <1>2, <1>3
  <2>2. Below(8)
    BY <1>2, <2>1
  <2>3. Below(12)
    BY <1>2, <2>2
  <2> QED
    BY <1>2, <2>3
<1> QED
  BY ZenonT(60), <1>1, <1>4 DEF Below, Min

(* The slot arithmetic stays inside a ring. *)
LEMMA SuccessorInRing ==
  \A i \in Slot : Successor(i) \in Slot
BY MessageAssumption DEF Successor, Slot

\* What wipe_segment leaves, and a thread at rest, have their types.
LEMMA ZeroTypes ==
  Zero \in Message /\ Resting \in Control /\ 0 \in Slot /\ EmptyQueue \in Ring
<1>1. Zero \in Message
  BY DEF Zero, Message
<1>2. 0 \in Slot
  BY MessageAssumption DEF Slot
<1>3. Resting \in Control
  BY <1>1, <1>2 DEF Resting, Control, AnyControl, Pc
<1>4. EmptyQueue \in Ring
  BY <1>1, <1>2 DEF EmptyQueue, Ring
<1> QED
  BY <1>1, <1>2, <1>3, <1>4

(* Updates of the control state of a thread. *)
LEMMA AnyControlUpdate ==
  ASSUME NEW r \in AnyControl, NEW p \in Pc, NEW S \in SUBSET Node, NEW m \in Message,
         NEW h \in Slot, NEW l \in Slot
  PROVE  /\ [r EXCEPT !.pc = p] \in AnyControl
         /\ [r EXCEPT !.pc = p, !.head = h] \in AnyControl
         /\ [r EXCEPT !.pc = p, !.peers = S, !.head = h] \in AnyControl
         /\ [r EXCEPT !.pc = p, !.head = h, !.tail = l] \in AnyControl
         /\ [r EXCEPT !.pc = p, !.tail = l] \in AnyControl
         /\ [r EXCEPT !.pc = p, !.msg = m] \in AnyControl
         /\ [r EXCEPT !.pc = p, !.peers = S, !.msg = m] \in AnyControl
         /\ [r EXCEPT !.peers = S] \in AnyControl
BY ZenonT(60) DEF AnyControl

(* A step within an operation keeps the peers, or chooses new ones.        *)
LEMMA ControlUpdate ==
  ASSUME NEW r \in Control, NEW p \in Pc, NEW S \in SUBSET Node, S # {}, NEW m \in Message,
         NEW h \in Slot, NEW l \in Slot
  PROVE  /\ [r EXCEPT !.pc = p, !.peers = S, !.head = h] \in Control
         /\ [r EXCEPT !.pc = p, !.peers = S, !.msg = m] \in Control
         /\ r.pc # "rest" => /\ [r EXCEPT !.pc = p] \in Control
                             /\ [r EXCEPT !.pc = p, !.head = h] \in Control
                             /\ [r EXCEPT !.pc = p, !.head = h, !.tail = l] \in Control
                             /\ [r EXCEPT !.pc = p, !.tail = l] \in Control
                             /\ [r EXCEPT !.pc = p, !.msg = m] \in Control
<1>1. r \in AnyControl
  BY DEF Control
<1>2. r.pc # "rest" => r.peers # {}
  BY DEF Control
<1>3. /\ [r EXCEPT !.pc = p, !.peers = S, !.head = h].peers = S
      /\ [r EXCEPT !.pc = p, !.peers = S, !.msg = m].peers = S
      /\ [r EXCEPT !.pc = p].peers = r.peers
      /\ [r EXCEPT !.pc = p, !.head = h].peers = r.peers
      /\ [r EXCEPT !.pc = p, !.head = h, !.tail = l].peers = r.peers
      /\ [r EXCEPT !.pc = p, !.tail = l].peers = r.peers
      /\ [r EXCEPT !.pc = p, !.msg = m].peers = r.peers
  BY <1>1 DEF AnyControl
<1> QED
  BY ZenonT(60), <1>1, <1>2, <1>3, AnyControlUpdate DEF Control

\* A step that replaces the state of one thread keeps the type of all.
LEMMA ThreadUpdate ==
  ASSUME thread \in [Thread -> Control], NEW t \in Thread, NEW r \in Control,
         thread' = [thread EXCEPT ![t] = r]
  PROVE  thread' \in [Thread -> Control]
OBVIOUS

(* A worker between two messages keeps its peer. *)
LEMMA PollingType ==
  ASSUME TypeInv, NEW w \in Worker
  PROVE  Polling(w) \in Control
<1>1. thread[w].peers \in SUBSET Node
  BY DEF TypeInv, Control, AnyControl, Thread
<1>2. Resting \in AnyControl /\ Resting.pc = "rest"
  BY ZeroTypes DEF Control, Resting
<1>3. Polling(w) \in AnyControl
  BY <1>1, <1>2, Zenon DEF Polling, AnyControl
<1>4. Polling(w).pc = "rest"
  BY DEF Polling, Resting
<1> QED
  BY <1>3, <1>4 DEF Control

(* The node of a thread, and the rings it sends to and receives from.      *)
LEMMA HomeType ==
  ASSUME NEW t \in Thread
  PROVE  Home(t) \in Node /\ (t \in Client \cup Worker => home[t] \in Node /\ Home(t) = home[t])
BY MessageAssumption DEF Home, Thread

(* The rings of a thread inside an operation. *)
LEMMA RingType ==
  ASSUME TypeInv, NEW t \in Thread, thread[t].pc # "rest"
  PROVE  /\ Min(thread[t].peers) \in thread[t].peers /\ Min(thread[t].peers) \in Node
         /\ RingOut(t) \in Node \X Node
         /\ t \in Client \cup Worker => <<Min(thread[t].peers), home[t]>> \in Node \X Node
<1>1. thread[t].peers \in SUBSET Node /\ thread[t].peers # {}
  BY DEF TypeInv, Control, AnyControl
<1>2. thread[t].peers \in SUBSET (0..(DIST_MAX_NODES - 1))
  BY ZenonT(60), <1>1, MessageAssumption
<1>3. Min(thread[t].peers) \in thread[t].peers
  BY <1>1, <1>2, MinMember
<1> QED
  BY <1>1, <1>3, HomeType DEF RingOut

(* Where a thread is after a message was sent or dropped.                  *)
LEMMA NextPeerType ==
  ASSUME TypeInv, NEW t \in Thread, thread[t].pc # "rest", NEW sent \in BOOLEAN, next_peer(t, sent)
  PROVE  thread' \in [Thread -> Control]
<1> DEFINE left == thread[t].peers \ {Min(thread[t].peers)}
           p == IF sent THEN "wait" ELSE "unsent"
<1>0. thread \in [Thread -> Control] /\ thread[t] \in Control /\ left \in SUBSET Node
  BY DEF TypeInv, Control, AnyControl
<1>1. p \in Pc /\ "put" \in Pc /\ 0 \in Slot
  BY ZeroTypes DEF Pc
<1>2. CASE t \in Worker
  BY <1>0, <1>2, PollingType DEF next_peer, ContinuePolling
<1>3. CASE t \notin Worker /\ t \in Client
  <2> DEFINE r == [thread[t] EXCEPT !.pc = p, !.head = 0]
  <2>1. thread' = [thread EXCEPT ![t] = r]
    BY <1>3 DEF next_peer
  <2>2. {0} \in SUBSET Node /\ {0} # {}
    BY MessageAssumption
  <2>3. r \in Control
    BY ZenonT(60), <1>0, <1>1, <2>2, ControlUpdate, ZeroTypes
  <2> QED
    BY <1>0, <2>1, <2>3
<1>4. CASE t \notin Worker /\ t \notin Client /\ left = {}
  BY <1>0, <1>4, ZeroTypes DEF next_peer, Rest
<1>5. CASE t \notin Worker /\ t \notin Client /\ left # {}
  <2> DEFINE r == [thread[t] EXCEPT !.pc = "put", !.peers = left, !.head = 0]
  <2>1. thread' = [thread EXCEPT ![t] = r]
    BY SMTT(60), <1>5 DEF next_peer
  <2>2. r \in Control
    BY ZenonT(60), <1>0, <1>1, <1>5, ControlUpdate, ZeroTypes
  <2> QED
    BY <1>0, <2>1, <2>2
<1> QED
  BY <1>2, <1>3, <1>4, <1>5

(* What the type invariant says of everything but the threads.             *)
StateTypes ==
  /\ up \in [Node -> {"down", "opened", "wiped", "initialized", "running", "crashed"}]
  /\ active \in SUBSET Node /\ capacity \in {0, Capacity}
  /\ queue \in [Node \X Node -> Ring]
  /\ next_msg_id \in [Node -> Nat \ {0}]
  /\ pending_mutex \in [Node -> Worker \cup {None}]
  /\ pending \in SUBSET Client
  /\ completed \in [Client -> BOOLEAN] /\ resp \in [Client -> Message]
  /\ executed \in SUBSET (Node \X Nat)

\* The parts of the type invariant the steps on rings and threads use.
LEMMA TypeParts ==
  TypeInv <=> StateTypes /\ thread \in [Thread -> Control]
<1>1. Control \subseteq AnyControl
  BY DEF Control
<1>2. ASSUME thread \in [Thread -> Control] PROVE thread \in [Thread -> AnyControl]
  BY <1>1, <1>2
<1> QED
  BY <1>2, Zenon DEF TypeInv, TypeOK, StateTypes, AnyControl, Pc, Ring

\* The same parts in the next state.
LEMMA TypePartsNext ==
  StateTypes' /\ thread' \in [Thread -> Control] => TypeInv'
<1>1. Control \subseteq AnyControl
  BY DEF Control
<1>2. ASSUME thread' \in [Thread -> Control] PROVE thread' \in [Thread -> AnyControl]
  BY <1>1, <1>2
<1> QED
  BY <1>2, Zenon DEF TypeInv, TypeOK, StateTypes, AnyControl, Pc, Ring

(* Updates of a ring. *)
LEMMA RingUpdate ==
  ASSUME queue \in [Node \X Node -> Ring], NEW p \in Node \X Node, NEW i \in Slot
  PROVE  /\ [queue EXCEPT ![p].head = i] \in [Node \X Node -> Ring]
         /\ [queue EXCEPT ![p].tail = i] \in [Node \X Node -> Ring]
<1>1. queue[p] \in Ring
  OBVIOUS
<1>2. [queue[p] EXCEPT !.head = i] \in Ring /\ [queue[p] EXCEPT !.tail = i] \in Ring
  BY <1>1, Zenon DEF Ring
<1> QED
  BY <1>2

\* copy_message changes one slot of one ring.
LEMMA RingCopy ==
  ASSUME queue \in [Node \X Node -> Ring], NEW p \in Node \X Node, NEW i, NEW m \in Message
  PROVE  [queue EXCEPT ![p].messages[i] = m] \in [Node \X Node -> Ring]
<1>1. queue[p] \in Ring
  OBVIOUS
<1> DEFINE ms == [queue[p].messages EXCEPT ![i] = m]
           q == [queue[p] EXCEPT !.messages = ms]
<1>2. ms \in [Slot -> Message]
  BY ZenonT(60), <1>1 DEF Ring
<1> HIDE DEF ms
<1>3. q \in Ring
  BY <1>1, <1>2, Zenon DEF Ring
<1>4. [queue EXCEPT ![p].messages[i] = m] = [queue EXCEPT ![p] = q]
  BY DEF ms
<1> HIDE DEF q
<1> QED
  BY <1>3, <1>4

(* The nodes start with the types of the invariant. *)
LEMMA StartTypes ==
  Init => TypeInv
<1> SUFFICES ASSUME Init PROVE StateTypes /\ thread \in [Thread -> Control]
  BY TypeParts
<1>1. thread \in [Thread -> Control] /\ queue \in [Node \X Node -> Ring] /\ resp \in [Client -> Message]
  BY ZeroTypes DEF Init
<1> QED
  BY <1>1 DEF Init, StateTypes

(* Every step keeps the types, and a peer for every thread in operation.   *)
LEMMA TypeStep ==
  TypeInv /\ [Next]_vars => TypeInv'
<1> SUFFICES ASSUME TypeInv, [Next]_vars PROVE StateTypes' /\ thread' \in [Thread -> Control]
  BY TypePartsNext
<1>0. StateTypes /\ thread \in [Thread -> Control] /\ \A t \in Thread : thread[t] \in Control
  BY TypeParts
<1>c. /\ \A p \in Pc : \A t \in Thread : thread[t].pc # "rest" => [thread[t] EXCEPT !.pc = p] \in Control
      /\ {0} \in SUBSET Node /\ {0} # {} /\ Client \subseteq Thread /\ Worker \subseteq Thread /\ Node \subseteq Thread
  <2>1. {0} \in SUBSET Node /\ {0} # {}
    BY MessageAssumption
  <2> QED
    BY ZenonT(60), <1>0, <2>1, ControlUpdate, ZeroTypes DEF Thread
<1>g. ASSUME NEW t \in Thread, NEW p \in Pc, thread[t].pc # "rest", Goto(t, p)
      PROVE  thread' \in [Thread -> Control]
  <2> DEFINE r == [thread[t] EXCEPT !.pc = p]
  <2>1. r \in Control
    BY <1>c, <1>g
  <2>2. thread' = [thread EXCEPT ![t] = r]
    BY <1>g DEF Goto
  <2> HIDE DEF r
  <2> QED
    BY <1>0, <2>1, <2>2
<1>1. ASSUME NEW n \in Node, open_segment(n) PROVE StateTypes' /\ thread' \in [Thread -> Control]
  BY <1>0, <1>1 DEF open_segment, StateTypes, shm, calls
<1>2. ASSUME NEW n \in Node, wipe_segment(n) PROVE StateTypes' /\ thread' \in [Thread -> Control]
  <2>1. queue' \in [Node \X Node -> Ring]
    BY <1>2, ZeroTypes DEF wipe_segment
  <2> QED
    BY <1>0, <1>2, <2>1 DEF wipe_segment, StateTypes, calls
<1>3. ASSUME NEW n \in Node, initialize_queues(n) PROVE StateTypes' /\ thread' \in [Thread -> Control]
  <2>1. ASSUME NEW p \in Node \X Node PROVE [queue[p] EXCEPT !.head = 0, !.tail = 0] \in Ring
    <3>1. queue[p] \in Ring
      BY <1>0 DEF StateTypes
    <3> QED
      BY <3>1, ZeroTypes, Zenon DEF Ring
  <2>2. queue' \in [Node \X Node -> Ring]
    BY <1>3, <2>1, Zenon DEF initialize_queues
  <2> QED
    BY <1>0, <1>3, <2>2, Zenon DEF initialize_queues, StateTypes, calls
<1>4. ASSUME NEW n \in Node, register_node(n) PROVE StateTypes' /\ thread' \in [Thread -> Control]
  BY <1>0, <1>4 DEF register_node, StateTypes, calls
<1>5. ASSUME NEW n \in Node, send_heartbeat(n) PROVE StateTypes' /\ thread' \in [Thread -> Control]
  <2> DEFINE m == [type |-> "heartbeat", id |-> next_msg_id[n]]
             r == [thread[n] EXCEPT !.pc = "put", !.peers = active \ {n}, !.msg = m]
  <2>1. m \in Message /\ "put" \in Pc /\ 0 \in Slot
    BY SMTT(60), <1>0, ZeroTypes DEF Message, StateTypes, Pc
  <2>2. active \ {n} # {} => r \in Control
    BY ZenonT(60), <1>0, <1>c, <2>1, ControlUpdate DEF StateTypes
  <2>3. thread' = IF active \ {n} = {} THEN thread ELSE [thread EXCEPT ![n] = r]
    BY <1>5 DEF send_heartbeat
  <2> HIDE DEF r
  <2>4. thread' \in [Thread -> Control]
    BY <1>0, <1>c, <2>2, <2>3
  <2>5. next_msg_id' \in [Node -> Nat \ {0}]
    <3>1. next_msg_id' = [next_msg_id EXCEPT ![n] = next_msg_id[n] + 1] /\ next_msg_id \in [Node -> Nat \ {0}]
      BY <1>0, <1>5, Zenon DEF send_heartbeat, StateTypes
    <3> QED
      BY <3>1
  <2> QED
    BY <1>0, <1>5, <2>4, <2>5 DEF send_heartbeat, StateTypes, shm, calls
<1>6. ASSUME NEW c \in Client, forward_lsa_to_coordinator(c) PROVE StateTypes' /\ thread' \in [Thread -> Control]
  <2> DEFINE n == home[c]
             m == [type |-> "request", id |-> next_msg_id[n]]
             r == [thread[c] EXCEPT !.pc = "insert", !.peers = {0}, !.msg = m]
  <2>0. n \in Node
    BY MessageAssumption
  <2>1. m \in Message /\ "insert" \in Pc /\ 0 \in Slot
    BY SMTT(60), <1>0, <2>0, ZeroTypes DEF Message, StateTypes, Pc
  <2>2. r \in Control
    BY ZenonT(60), <1>0, <1>c, <2>1, ControlUpdate
  <2>3. thread' = [thread EXCEPT ![c] = r]
    BY <1>6 DEF forward_lsa_to_coordinator
  <2>5. next_msg_id' \in [Node -> Nat \ {0}]
    <3>1. next_msg_id' = [next_msg_id EXCEPT ![n] = next_msg_id[n] + 1] /\ next_msg_id \in [Node -> Nat \ {0}]
      BY <1>0, <1>6, Zenon DEF forward_lsa_to_coordinator, StateTypes
    <3> HIDE DEF n
    <3> QED
      BY <2>0, <3>1
  <2> HIDE DEF r
  <2>4. thread' \in [Thread -> Control]
    BY <1>0, <1>c, <2>2, <2>3
  <2> QED
    BY <1>0, <1>6, <2>4, <2>5 DEF forward_lsa_to_coordinator, StateTypes, shm, calls
<1>7. ASSUME NEW c \in Client, insert_pending(c) PROVE StateTypes' /\ thread' \in [Thread -> Control]
  <2>1. thread' \in [Thread -> Control]
    BY <1>7, <1>c, <1>g DEF insert_pending, At, Pc
  <2> QED
    BY <1>0, <1>7, <2>1 DEF insert_pending, StateTypes, shm
<1>8. ASSUME NEW c \in Client, wait_for(c) PROVE StateTypes' /\ thread' \in [Thread -> Control]
  <2> DEFINE p == IF completed[c] THEN "cleanup" ELSE "timed_out"
  <2>0. p \in Pc
    BY DEF Pc
  <2>1. Goto(c, p) /\ thread[c].pc # "rest"
    BY <1>8 DEF wait_for, At
  <2> HIDE DEF p
  <2>2. thread' \in [Thread -> Control]
    BY SMTT(60), <1>c, <1>g, <2>0, <2>1
  <2> QED
    BY <1>0, <1>8, <2>2 DEF wait_for, StateTypes, shm, calls
<1>9. ASSUME NEW c \in Client, erase_pending(c) PROVE StateTypes' /\ thread' \in [Thread -> Control]
  <2>1. thread' \in [Thread -> Control] /\ resp' \in [Client -> Message] /\ completed' \in [Client -> BOOLEAN]
    BY <1>0, <1>c, <1>9, ZeroTypes DEF erase_pending, Rest, StateTypes
  <2> QED
    BY <1>0, <1>9, <2>1 DEF erase_pending, StateTypes, shm
<1>10. ASSUME NEW w \in Worker, NEW src \in Node, poll_messages(w, src) PROVE StateTypes' /\ thread' \in [Thread -> Control]
  <2> DEFINE h == queue[<<src, home[w]>>].head
             r == [thread[w] EXCEPT !.pc = "tail", !.peers = {src}, !.head = h]
  <2>0. h \in Slot /\ "tail" \in Pc /\ {src} \in SUBSET Node /\ {src} # {}
    BY SMTT(60), <1>0, MessageAssumption DEF StateTypes, Ring, Pc
  <2>1. r \in Control
    BY ZenonT(60), <1>0, <1>c, <2>0, ControlUpdate, ZeroTypes
  <2>2. thread' = [thread EXCEPT ![w] = r]
    BY <1>10 DEF poll_messages
  <2> HIDE DEF r
  <2>3. thread' \in [Thread -> Control]
    BY <1>0, <1>c, <2>1, <2>2
  <2> QED
    BY <1>0, <1>10, <2>3 DEF poll_messages, StateTypes, shm, calls
<1>11. ASSUME NEW w \in Worker, load_tail(w) PROVE StateTypes' /\ thread' \in [Thread -> Control]
  <2> DEFINE l == queue[RingIn(w)].tail
             r == [thread[w] EXCEPT !.pc = "take", !.head = 0, !.tail = l]
  <2>0. l \in Slot /\ "take" \in Pc /\ thread[w].pc # "rest"
    BY ZenonT(60), <1>0, <1>c, <1>11, RingType DEF StateTypes, Ring, Pc, load_tail, At, RingIn
  <2>1. r \in Control
    BY ZenonT(60), <1>0, <1>c, <2>0, ControlUpdate, ZeroTypes
  <2>2. thread' = [thread EXCEPT ![w] = r] \/ thread' = [thread EXCEPT ![w] = Resting]
    BY <1>11 DEF load_tail, Rest
  <2> HIDE DEF r
  <2>3. thread' \in [Thread -> Control]
    BY <1>0, <1>c, <2>1, <2>2, ZeroTypes
  <2> QED
    BY <1>0, <1>11, <2>3 DEF load_tail, StateTypes, shm, calls
<1>12. ASSUME NEW w \in Worker, take_message(w) PROVE StateTypes' /\ thread' \in [Thread -> Control]
  <2> DEFINE m == queue[RingIn(w)].messages[thread[w].tail]
             r == [thread[w] EXCEPT !.pc = "taken", !.msg = m]
  <2>0. thread[w].pc # "rest" /\ thread[w].tail \in Slot /\ "taken" \in Pc
    BY <1>0, <1>c, <1>12 DEF take_message, At, Control, AnyControl, Pc
  <2>1. queue[RingIn(w)] \in Ring
    BY ZenonT(60), <1>0, <1>c, <2>0, RingType DEF StateTypes, RingIn
  <2>2. m \in Message
    BY <2>0, <2>1 DEF Ring
  <2>3. r \in Control
    BY ZenonT(60), <1>0, <1>c, <2>0, <2>2, ControlUpdate, ZeroTypes
  <2>4. thread' = [thread EXCEPT ![w] = r]
    BY <1>12 DEF take_message
  <2> HIDE DEF r
  <2>5. thread' \in [Thread -> Control]
    BY <1>0, <1>c, <2>3, <2>4
  <2> QED
    BY SMTT(60), <1>0, <1>12, <2>5 DEF take_message, StateTypes, shm, calls
<1>13. ASSUME NEW w \in Worker, store_tail(w) PROVE StateTypes' /\ thread' \in [Thread -> Control]
  <2>1. CASE capacity = 0
    BY <1>0, <1>13, <2>1 DEF store_tail, crash, StateTypes, shm, calls
  <2>2. CASE capacity # 0
    <3> DEFINE r == [thread[w] EXCEPT !.pc = "find", !.tail = 0]
               l == Successor(thread[w].tail)
    <3>0. thread[w].pc # "rest" /\ l \in Slot /\ "find" \in Pc
      BY SMTT(60), <1>0, <1>c, <1>13, SuccessorInRing DEF store_tail, At, Control, AnyControl, Pc
    <3>1. r \in Control
      BY ZenonT(60), <1>0, <1>c, <3>0, ControlUpdate, ZeroTypes
    <3>2. thread' = [thread EXCEPT ![w] = r] /\ queue' = [queue EXCEPT ![RingIn(w)].tail = l]
      BY <1>13, <2>2 DEF store_tail
    <3> HIDE DEF r, l
    <3>3. thread' \in [Thread -> Control]
      BY <1>0, <1>c, <3>1, <3>2
    <3>4. queue' \in [Node \X Node -> Ring]
      <4>1. queue \in [Node \X Node -> Ring] /\ RingIn(w) \in Node \X Node
        BY ZenonT(60), <1>0, <1>c, <3>0, RingType DEF StateTypes, RingIn
      <4> QED
        BY ZenonT(60), <3>0, <3>2, <4>1, RingUpdate
    <3> QED
      BY SMTT(60), <1>0, <1>13, <2>2, <3>3, <3>4 DEF store_tail, StateTypes, calls
  <2> QED
    BY <2>1, <2>2
<1>14. ASSUME NEW w \in Worker, find_pending(w) PROVE StateTypes' /\ thread' \in [Thread -> Control]
  <2>1. thread' \in [Thread -> Control]
    <3>1. CASE Goto(w, "handle")
      BY <1>14, <1>c, <1>g, <3>1, Zenon DEF find_pending, At, Pc
    <3>2. CASE Goto(w, "deliver")
      BY <1>14, <1>c, <1>g, <3>2, Zenon DEF find_pending, At, Pc
    <3> QED
      BY SMTT(60), <1>14, <3>1, <3>2 DEF find_pending
  <2>2. pending_mutex' \in [Node -> Worker \cup {None}]
    BY SMTT(60), <1>0, <1>14 DEF find_pending, StateTypes
  <2> QED
    BY <1>0, <1>14, <2>1, <2>2 DEF find_pending, StateTypes, shm
<1>15. ASSUME NEW w \in Worker, copy_response(w) PROVE StateTypes' /\ thread' \in [Thread -> Control]
  <2>1. thread' \in [Thread -> Control]
    BY <1>15, <1>c, <1>g DEF copy_response, At, Pc
  <2>2. thread[w].msg \in Message
    BY <1>0, <1>c DEF Control, AnyControl
  <2>3. resp' \in [Client -> Message]
    BY SMTT(60), <1>0, <1>15, <2>2 DEF copy_response, StateTypes
  <2> QED
    BY SMTT(60), <1>0, <1>15, <2>1, <2>3 DEF copy_response, StateTypes, shm
<1>16. ASSUME NEW w \in Worker, complete_request(w) PROVE StateTypes' /\ thread' \in [Thread -> Control]
  <2>1. thread' \in [Thread -> Control]
    BY SMTT(60), <1>0, <1>c, <1>16, PollingType DEF complete_request, ContinuePolling
  <2>2. completed' \in [Client -> BOOLEAN] /\ pending_mutex' \in [Node -> Worker \cup {None}]
    BY ZenonT(60), <1>0, <1>16 DEF complete_request, StateTypes
  <2> QED
    BY <1>0, <1>16, <2>1, <2>2 DEF complete_request, StateTypes, shm
<1>17. ASSUME NEW w \in Worker, handle_request(w) PROVE StateTypes' /\ thread' \in [Thread -> Control]
  <2> DEFINE m == [type |-> "response", id |-> thread[w].msg.id]
             r == [thread[w] EXCEPT !.pc = "put", !.msg = m]
  <2>0. thread[w].pc # "rest" /\ thread[w].msg.id \in Nat /\ "put" \in Pc
    BY <1>0, <1>c, <1>17 DEF handle_request, At, Control, AnyControl, Pc, Message
  <2>1. m \in Message /\ Min(thread[w].peers) \in Node
    BY ZenonT(60), <1>c, <2>0, RingType DEF Message
  <2>2. r \in Control
    BY ZenonT(60), <1>0, <1>c, <2>0, <2>1, ControlUpdate, ZeroTypes
  <2>3. thread' = [thread EXCEPT ![w] = r] /\ executed' = executed \cup {<<Min(thread[w].peers), thread[w].msg.id>>}
    BY <1>17 DEF handle_request
  <2> HIDE DEF r
  <2>4. thread' \in [Thread -> Control] /\ executed' \in SUBSET (Node \X Nat)
    BY <1>0, <1>c, <2>0, <2>1, <2>2, <2>3 DEF StateTypes
  <2> QED
    BY SMTT(60), <1>0, <1>17, <2>4 DEF handle_request, StateTypes, shm, calls
<1>18. ASSUME NEW w \in Worker, handle_other(w) PROVE StateTypes' /\ thread' \in [Thread -> Control]
  <2>1. thread' \in [Thread -> Control]
    BY <1>0, <1>c, <1>18, PollingType DEF handle_other, ContinuePolling
  <2> QED
    BY <1>0, <1>18, <2>1 DEF handle_other, StateTypes, shm, calls
<1>19. ASSUME NEW t \in Thread, load_indices(t) PROVE StateTypes' /\ thread' \in [Thread -> Control]
  <2> DEFINE q == queue[RingOut(t)]
             r == [thread[t] EXCEPT !.pc = "copy", !.head = q.head]
  <2>0. thread[t].pc # "rest" /\ "copy" \in Pc
    BY <1>19 DEF load_indices, At, Pc
  <2>1. q.head \in Slot
    BY ZenonT(60), <1>0, <2>0, RingType DEF StateTypes, Ring
  <2>2. r \in Control
    BY ZenonT(60), <1>0, <1>c, <2>0, <2>1, ControlUpdate, ZeroTypes
  <2>3. CASE capacity = 0
    BY SMTT(60), <1>0, <1>19, <2>3 DEF load_indices, crash, StateTypes, shm, calls
  <2>4. CASE capacity # 0 /\ next_peer(t, FALSE)
    <3>1. thread' \in [Thread -> Control]
      BY ZenonT(60), <2>0, <2>4, NextPeerType
    <3> QED
      BY SMTT(60), <1>0, <1>19, <2>4, <3>1 DEF load_indices, StateTypes, shm, calls
  <2>5. CASE capacity # 0 /\ thread' = [thread EXCEPT ![t] = r]
    <3> HIDE DEF r
    <3>1. thread' \in [Thread -> Control]
      BY <1>0, <2>2, <2>5
    <3> QED
      BY <1>0, <1>19, <2>5, <3>1 DEF load_indices, StateTypes, shm, calls
  <2> QED
    BY ZenonT(60), <1>19, <2>3, <2>4, <2>5 DEF load_indices
<1>20. ASSUME NEW t \in Thread, copy_message(t) PROVE StateTypes' /\ thread' \in [Thread -> Control]
  <2>1. thread' \in [Thread -> Control]
    BY <1>20, <1>g DEF copy_message, At, Pc
  <2>2. thread[t].msg \in Message
    BY <1>0 DEF Control, AnyControl
  <2>3. queue' \in [Node \X Node -> Ring]
    <3>1. queue \in [Node \X Node -> Ring] /\ RingOut(t) \in Node \X Node
      BY ZenonT(60), <1>0, <1>20, RingType DEF StateTypes, copy_message, At
    <3>2. queue' = [queue EXCEPT ![RingOut(t)].messages[thread[t].head] = thread[t].msg]
      BY <1>20 DEF copy_message
    <3> QED
      BY ZenonT(60), <2>2, <3>1, <3>2, RingCopy
  <2> QED
    BY <1>0, <1>20, <2>1, <2>3 DEF copy_message, StateTypes, calls
<1>21. ASSUME NEW t \in Thread, store_head(t) PROVE StateTypes' /\ thread' \in [Thread -> Control]
  <2>1. thread' \in [Thread -> Control]
    BY ZenonT(60), <1>21, NextPeerType DEF store_head, At
  <2>2. Successor(thread[t].head) \in Slot
    BY <1>0, SuccessorInRing DEF Control, AnyControl
  <2>3. queue' \in [Node \X Node -> Ring]
    <3>1. queue \in [Node \X Node -> Ring] /\ RingOut(t) \in Node \X Node
      BY ZenonT(60), <1>0, <1>21, RingType DEF StateTypes, store_head, At
    <3>2. queue' = [queue EXCEPT ![RingOut(t)].head = Successor(thread[t].head)]
      BY <1>21 DEF store_head
    <3> QED
      BY ZenonT(60), <2>2, <3>1, <3>2, RingUpdate
  <2> QED
    BY <1>0, <1>21, <2>1, <2>3 DEF store_head, StateTypes, calls
<1>22. CASE UNCHANGED vars
  BY SMTT(60), <1>0, <1>22 DEF vars, shm, calls, StateTypes
<1> QED
  <2>1. (StateTypes' /\ thread' \in [Thread -> Control]) \/ UNCHANGED vars
    BY Zenon, <1>1, <1>2, <1>3, <1>4, <1>5, <1>6, <1>7, <1>8, <1>9, <1>10, <1>11, <1>12, <1>13,
       <1>14, <1>15, <1>16, <1>17, <1>18, <1>19, <1>20, <1>21
       DEF Next, client_step, worker_step, dequeue_message, process_message, enqueue_message
  <2> QED
    BY <1>22, <2>1

-----------------------------------------------------------------------------
(* The effect of next_peer on the threads. *)
LEMMA NextPeerEffect ==
  ASSUME TypeInv, NEW t \in Thread, thread[t].pc # "rest", NEW sent \in BOOLEAN, next_peer(t, sent)
  PROVE  /\ \A u \in Thread \ {t} : thread'[u] = thread[u]
         /\ t \in Worker => thread'[t].pc = "rest"
         /\ t \in Client => thread'[t].msg = thread[t].msg /\ thread'[t].pc \in {"wait", "unsent"}
         /\ t \in Node => thread'[t].msg \in {thread[t].msg, Zero}
<1>0. thread \in [Thread -> AnyControl]
  BY TypeParts DEF Control
<1>r. Client \cap Worker = {} /\ Node \cap Worker = {} /\ Node \cap Client = {}
  BY MessageAssumption
<1>1. CASE t \in Worker
  <2>1. thread' = [thread EXCEPT ![t] = Polling(t)] /\ Polling(t).pc = "rest"
    BY <1>1 DEF next_peer, ContinuePolling, Polling, Resting
  <2> QED
    BY <1>0, <1>1, <1>r, <2>1
<1>2. CASE t \in Client
  <2> DEFINE p == IF sent THEN "wait" ELSE "unsent"
  <2>1. thread' = [thread EXCEPT ![t] = [thread[t] EXCEPT !.pc = p, !.head = 0]] /\ p \in {"wait", "unsent"}
    BY <1>2, <1>r DEF next_peer
  <2> HIDE DEF p
  <2>2. thread'[t] = [thread[t] EXCEPT !.pc = p, !.head = 0] /\ thread[t] \in AnyControl
    BY <1>0, <2>1
  <2>3. thread'[t].msg = thread[t].msg /\ thread'[t].pc = p
    BY <2>2 DEF AnyControl
  <2> QED
    BY <1>0, <1>2, <1>r, <2>1, <2>3
<1>3. CASE t \notin Worker /\ t \notin Client
  <2> DEFINE left == thread[t].peers \ {Min(thread[t].peers)}
  <2>1. \/ thread' = [thread EXCEPT ![t] = Resting]
        \/ thread' = [thread EXCEPT ![t] = [thread[t] EXCEPT !.pc = "put", !.peers = left, !.head = 0]]
    BY <1>3 DEF next_peer, Rest
  <2> HIDE DEF left
  <2>2. CASE thread' = [thread EXCEPT ![t] = Resting]
    BY <1>0, <1>3, <2>2 DEF Resting
  <2>3. CASE thread' = [thread EXCEPT ![t] = [thread[t] EXCEPT !.pc = "put", !.peers = left, !.head = 0]]
    <3>1. thread'[t] = [thread[t] EXCEPT !.pc = "put", !.peers = left, !.head = 0] /\ thread[t] \in AnyControl
      BY <1>0, <2>3
    <3>2. thread'[t].msg = thread[t].msg
      BY <3>1 DEF AnyControl
    <3> QED
      BY <1>0, <1>3, <2>3, <3>2
  <2> QED
    BY <2>1, <2>2, <2>3
<1> QED
  BY <1>1, <1>2, <1>3

-----------------------------------------------------------------------------
(* The mutex.  An entry of pending_requests_ is of a call that has not     *)
(* returned, and a worker between its search and the completion holds      *)
(* pending_mutex_ and has an entry to complete.                            *)
InCall == {"put", "copy", "copied", "unsent", "wait", "timed_out", "cleanup"}

LockInv ==
  /\ \A c \in pending : thread[c].pc \in InCall
  /\ \A w \in Worker : thread[w].pc \in {"deliver", "complete"} =>
       pending_mutex[home[w]] = w /\ Found(w) # {}

(* A step of a thread that touches neither the entries nor the mutex, and  *)
(* no number of a pending call.                                            *)
LEMMA LockKept ==
  ASSUME TypeInv, LockInv, UNCHANGED <<pending, pending_mutex>>, NEW t \in Thread,
         \A u \in Thread \ {t} : thread'[u] = thread[u],
         t \in pending => thread'[t].msg.id = thread[t].msg.id /\ thread'[t].pc \in InCall,
         t \in Worker => \/ thread'[t].pc \notin {"deliver", "complete"}
                         \/ thread[t].pc \in {"deliver", "complete"} /\ thread'[t].msg.id = thread[t].msg.id
  PROVE  LockInv'
<1>0. pending \subseteq Client /\ Client \subseteq Thread /\ Worker \subseteq Thread /\ Client \cap Worker = {}
  BY MessageAssumption, Zenon DEF TypeInv, TypeOK, Thread
<1>1. ASSUME NEW c \in pending PROVE thread'[c].pc \in InCall /\ thread'[c].msg.id = thread[c].msg.id
  BY <1>0, <1>1 DEF LockInv
<1>2. ASSUME NEW w \in Worker, thread'[w].pc \in {"deliver", "complete"}
      PROVE  pending_mutex[home[w]] = w /\ Found(w)' # {}
  <2>1. thread[w].pc \in {"deliver", "complete"} /\ thread'[w].msg.id = thread[w].msg.id
    BY SMTT(60), <1>0, <1>2
  <2>2. PICK c \in pending : home[c] = home[w] /\ thread[c].msg.id = thread[w].msg.id
    BY <2>1 DEF LockInv, Found
  <2>3. c \in Found(w)'
    BY <1>1, <2>1, <2>2 DEF Found
  <2> QED
    BY <2>1, <2>3, Zenon DEF LockInv
<1> QED
  BY SMTT(60), <1>1, <1>2 DEF LockInv

-----------------------------------------------------------------------------
(* The responses.  Wherever a response is, its request was executed: in a  *)
(* ring, with a worker that received it, with one that sends it, and in    *)
(* the buffer of a call, where it also has the number of the call.         *)
Executed(n, m) == m.type = "response" => <<n, m.id>> \in executed

Received == {"taken", "find", "deliver", "complete", "handle"}

Sending == {"put", "copy", "copied"}

RingsExecuted ==
  \A p \in Node \X Node : \A i \in Slot : Executed(p[2], queue[p].messages[i])

WorkerExecuted(w) ==
  /\ thread[w].pc \in Received => Executed(home[w], thread[w].msg)
  /\ thread[w].pc \in Sending => Executed(Min(thread[w].peers), thread[w].msg)

OthersSend == \A t \in Client \cup Node : thread[t].msg.type # "response"

BuffersExecuted ==
  \A c \in Client : resp[c].type = "response" =>
    c \in pending /\ resp[c].id = thread[c].msg.id /\ <<home[c], resp[c].id>> \in executed

ResponseInv ==
  RingsExecuted /\ (\A w \in Worker : WorkerExecuted(w)) /\ OthersSend /\ BuffersExecuted

(* A step of a thread that leaves the buffers alone. *)
LEMMA ResponseKept ==
  ASSUME TypeInv, ResponseInv, UNCHANGED <<pending, resp>>, executed \subseteq executed', NEW t \in Thread,
         \A u \in Thread \ {t} : thread'[u] = thread[u],
         t \in pending => thread'[t].msg.id = thread[t].msg.id,
         t \in Client \cup Node => thread'[t].msg.type # "response",
         t \in Worker => WorkerExecuted(t)',
         RingsExecuted'
  PROVE  ResponseInv'
<1>0. pending \subseteq Client /\ Client \subseteq Thread /\ Worker \subseteq Thread /\ Node \subseteq Thread
  BY SMTT(60) DEF TypeInv, TypeOK, Thread
<1>1. ASSUME NEW w \in Worker PROVE WorkerExecuted(w)'
  <2>1. CASE w = t
    BY SMTT(60), <2>1
  <2>2. CASE w # t
    <3>1. thread'[w] = thread[w] /\ WorkerExecuted(w)
      BY <1>0, <2>2 DEF ResponseInv
    <3> QED
      BY <3>1, Zenon DEF WorkerExecuted, Executed
  <2> QED
    BY <2>1, <2>2, Zenon
<1>2. OthersSend'
  BY SMTT(60), <1>0 DEF ResponseInv, OthersSend
<1>3. BuffersExecuted'
  <2>1. \A c \in pending : thread'[c].msg.id = thread[c].msg.id
    BY <1>0
  <2> QED
    BY <1>0, <2>1 DEF ResponseInv, BuffersExecuted
<1> QED
  BY SMTT(60), <1>1, <1>2, <1>3 DEF ResponseInv

(* The rings keep what they hold, and the history grows. *)
LEMMA RingsKept ==
  ASSUME ResponseInv, executed \subseteq executed',
         \A p \in Node \X Node : \A i \in Slot : queue'[p].messages[i] = queue[p].messages[i]
  PROVE  RingsExecuted'
BY DEF ResponseInv, RingsExecuted, Executed

\* store_head and store_tail move an index and leave the messages alone.
LEMMA IndexKeepsMessages ==
  ASSUME queue \in [Node \X Node -> Ring], NEW r \in Node \X Node, NEW k,
         queue' = [queue EXCEPT ![r].head = k] \/ queue' = [queue EXCEPT ![r].tail = k]
  PROVE  \A p \in Node \X Node : \A i \in Slot : queue'[p].messages[i] = queue[p].messages[i]
<1>1. ASSUME NEW p \in Node \X Node PROVE queue'[p].messages = queue[p].messages
  BY SMTT(60) DEF Ring
<1> QED
  BY <1>1

(* The node of a worker's ring, for the step that copies into it. *)
LEMMA CopiedExecuted ==
  ASSUME TypeInv, ResponseInv, NEW t \in Thread, thread[t].pc \in Sending,
         queue' = [queue EXCEPT ![RingOut(t)].messages[thread[t].head] = thread[t].msg],
         UNCHANGED executed
  PROVE  RingsExecuted'
<1> DEFINE r == RingOut(t)
           h == thread[t].head
           m == thread[t].msg
<1>1. r \in Node \X Node /\ r[2] = Min(thread[t].peers)
  BY ZenonT(60), RingType DEF Sending, RingOut
<1>2. Executed(r[2], m)
  BY ZenonT(60), <1>1 DEF ResponseInv, WorkerExecuted, OthersSend, Thread, Executed
<1>3. queue \in [Node \X Node -> Ring] /\ queue' = [queue EXCEPT ![r].messages[h] = m]
  BY TypeParts DEF StateTypes
<1> HIDE DEF r, h, m
<1>4. ASSUME NEW p \in Node \X Node, NEW i \in Slot
      PROVE  \/ queue'[p].messages[i] = queue[p].messages[i]
             \/ p = r /\ queue'[p].messages[i] = m
  <2>1. CASE p # r
    BY ZenonT(60), <1>3, <2>1
  <2>2. CASE p = r
    <3>1. queue[r] \in Ring /\ queue'[r] = [queue[r] EXCEPT !.messages[h] = m]
      BY SMTT(60), <1>1, <1>3
    <3>2. queue'[r].messages = [queue[r].messages EXCEPT ![h] = m] /\ queue[r].messages \in [Slot -> Message]
      BY <3>1 DEF Ring
    <3> QED
      BY ZenonT(60), <2>2, <3>2
  <2> QED
    BY <2>1, <2>2, Zenon
<1> QED
  BY SMTT(60), <1>2, <1>4 DEF ResponseInv, RingsExecuted, Executed

(* Every step keeps both invariants. *)
LEMMA SafetyStep ==
  ASSUME TypeInv, LockInv, ResponseInv, [Next]_vars
  PROVE  LockInv' /\ ResponseInv'
<1>0. /\ thread \in [Thread -> AnyControl] /\ StateTypes
      /\ Client \subseteq Thread /\ Worker \subseteq Thread /\ Node \subseteq Thread
      /\ pending \subseteq Client
      /\ Client \cap Worker = {} /\ Node \cap Worker = {} /\ Node \cap Client = {}
  BY TypeParts, MessageAssumption DEF Control, Thread, StateTypes
<1>q. queue \in [Node \X Node -> Ring]
  BY SMTT(60), <1>0 DEF StateTypes
<1>k. ASSUME UNCHANGED <<pending, pending_mutex, resp>>, executed \subseteq executed', NEW t \in Thread,
             \A u \in Thread \ {t} : thread'[u] = thread[u],
             t \in pending => thread'[t].msg.id = thread[t].msg.id /\ thread'[t].pc \in InCall,
             t \in Client \cup Node => thread'[t].msg.type # "response",
             t \in Worker => \/ thread'[t].pc \notin {"deliver", "complete"}
                             \/ thread[t].pc \in {"deliver", "complete"} /\ thread'[t].msg.id = thread[t].msg.id,
             t \in Worker => WorkerExecuted(t)',
             RingsExecuted'
      PROVE  LockInv' /\ ResponseInv'
  BY <1>k, LockKept, ResponseKept, Zenon
<1>u. ASSUME UNCHANGED <<thread, pending, pending_mutex, resp, executed>>, RingsExecuted'
      PROVE  LockInv' /\ ResponseInv'
  <2>1. LockInv'
    BY SMTT(60), <1>u DEF LockInv, Found
  <2>2. (\A w \in Worker : WorkerExecuted(w)') /\ OthersSend' /\ BuffersExecuted'
    BY <1>u, Zenon DEF ResponseInv, WorkerExecuted, Executed, OthersSend, BuffersExecuted
  <2> QED
    BY SMTT(60), <1>u, <2>1, <2>2 DEF ResponseInv
<1>r. ASSUME UNCHANGED queue, executed \subseteq executed' PROVE RingsExecuted'
  BY <1>r, RingsKept
<1>g. ASSUME NEW t \in Thread, NEW p, Goto(t, p)
      PROVE  /\ \A u \in Thread \ {t} : thread'[u] = thread[u]
             /\ thread'[t].pc = p /\ thread'[t].msg = thread[t].msg /\ thread'[t].peers = thread[t].peers
  <2>1. thread[t] \in AnyControl /\ thread' = [thread EXCEPT ![t] = [thread[t] EXCEPT !.pc = p]]
    BY <1>0, <1>g DEF Goto
  <2>2. thread'[t] = [thread[t] EXCEPT !.pc = p] /\ \A u \in Thread \ {t} : thread'[u] = thread[u]
    BY <1>0, <2>1
  <2> QED
    BY <2>1, <2>2 DEF AnyControl
<1>1. ASSUME NEW n \in Node, open_segment(n) \/ register_node(n) PROVE LockInv' /\ ResponseInv'
  <2>1. UNCHANGED <<thread, pending, pending_mutex, resp, executed, queue>>
    BY <1>1 DEF open_segment, register_node, shm, calls
  <2> QED
    BY <1>u, <1>r, <2>1
<1>2. ASSUME NEW n \in Node, wipe_segment(n) PROVE LockInv' /\ ResponseInv'
  <2>1. UNCHANGED <<thread, pending, pending_mutex, resp, executed>> /\ queue' = [p \in Node \X Node |-> EmptyQueue]
    BY <1>2 DEF wipe_segment, calls
  <2>2. \A p \in Node \X Node : \A i \in Slot : queue'[p].messages[i].type = "none"
    BY <2>1 DEF EmptyQueue, Zero
  <2>3. RingsExecuted'
    BY SMTT(60), <2>2 DEF RingsExecuted, Executed
  <2> QED
    BY <1>u, <2>1, <2>3
<1>3. ASSUME NEW n \in Node, initialize_queues(n) PROVE LockInv' /\ ResponseInv'
  <2>1. UNCHANGED <<thread, pending, pending_mutex, resp, executed>>
        /\ queue' = [p \in Node \X Node |-> [queue[p] EXCEPT !.head = 0, !.tail = 0]]
    BY ZenonT(60), <1>3 DEF initialize_queues, calls
  <2>2. ASSUME NEW p \in Node \X Node PROVE queue'[p].messages = queue[p].messages
    <3>1. queue[p] \in Ring /\ queue'[p] = [queue[p] EXCEPT !.head = 0, !.tail = 0]
      BY ZenonT(60), <1>q, <2>1
    <3> QED
      BY SMTT(60), <3>1 DEF Ring
  <2>3. RingsExecuted'
    BY <2>1, <2>2, RingsKept, Zenon
  <2> QED
    BY ZenonT(60), <1>u, <2>1, <2>3
<1>4. ASSUME NEW n \in Node, send_heartbeat(n) PROVE LockInv' /\ ResponseInv'
  <2>1. UNCHANGED <<pending, pending_mutex, resp, executed, queue>>
    BY <1>4 DEF send_heartbeat, calls, shm
  <2>2. RingsExecuted'
    BY <1>r, <2>1
  <2>3. CASE thread' = thread
    BY <1>u, <2>1, <2>2, <2>3
  <2> DEFINE m == [type |-> "heartbeat", id |-> next_msg_id[n]]
             r == [thread[n] EXCEPT !.pc = "put", !.peers = active \ {n}, !.msg = m]
  <2>4. CASE thread' = [thread EXCEPT ![n] = r]
    <3>1. thread'[n] = r /\ thread[n] \in AnyControl /\ \A u \in Thread \ {n} : thread'[u] = thread[u]
      BY ZenonT(60), <1>0, <2>4
    <3>2. thread'[n].msg = m
      BY <3>1 DEF AnyControl
    <3>3. thread'[n].msg.type # "response"
      BY <3>2
    <3>4. n \notin pending /\ n \notin Worker
      BY <1>0
    <3> QED
      BY ZenonT(60), <1>0, <1>k, <2>1, <2>2, <3>1, <3>3, <3>4
  <2> QED
    BY <1>4, <2>3, <2>4 DEF send_heartbeat
<1>5. ASSUME NEW c \in Client, forward_lsa_to_coordinator(c) PROVE LockInv' /\ ResponseInv'
  <2> DEFINE m == [type |-> "request", id |-> next_msg_id[home[c]]]
             r == [thread[c] EXCEPT !.pc = "insert", !.peers = {0}, !.msg = m]
  <2>1. UNCHANGED <<pending, pending_mutex, resp, executed, queue>> /\ thread' = [thread EXCEPT ![c] = r]
    BY <1>5 DEF forward_lsa_to_coordinator, calls, shm
  <2>2. c \notin pending /\ c \notin Worker
    BY <1>0, <1>5 DEF LockInv, InCall, forward_lsa_to_coordinator, At
  <2>3. thread'[c] = r /\ thread[c] \in AnyControl /\ \A u \in Thread \ {c} : thread'[u] = thread[u]
    BY ZenonT(60), <1>0, <2>1
  <2>4. thread'[c].msg = m
    BY <2>3 DEF AnyControl
  <2>5. thread'[c].msg.type # "response"
    BY <2>4
  <2>6. RingsExecuted'
    BY <1>r, <2>1
  <2> QED
    BY SMTT(60), <1>0, <1>k, <2>1, <2>2, <2>3, <2>5, <2>6
<1>6. ASSUME NEW c \in Client, wait_for(c) PROVE LockInv' /\ ResponseInv'
  <2> DEFINE p == IF completed[c] THEN "cleanup" ELSE "timed_out"
  <2>1. UNCHANGED <<pending, pending_mutex, resp, executed, queue>> /\ Goto(c, p)
    BY <1>6 DEF wait_for, calls, shm
  <2>2. p \in InCall
    BY DEF InCall
  <2> HIDE DEF p
  <2>3. /\ \A u \in Thread \ {c} : thread'[u] = thread[u]
        /\ thread'[c].pc = p /\ thread'[c].msg = thread[c].msg
    BY <1>0, <1>g, <2>1
  <2>4. thread'[c].msg.type # "response"
    BY <2>3, Zenon DEF ResponseInv, OthersSend
  <2>5. RingsExecuted' /\ c \notin Worker
    BY SMTT(60), <1>0, <1>r, <2>1
  <2> QED
    BY <1>0, <1>k, <2>1, <2>2, <2>3, <2>4, <2>5, Zenon
<1>7. ASSUME NEW w \in Worker, NEW src \in Node, poll_messages(w, src) PROVE LockInv' /\ ResponseInv'
  <2> DEFINE r == [thread[w] EXCEPT !.pc = "tail", !.peers = {src}, !.head = queue[<<src, home[w]>>].head]
  <2>1. UNCHANGED <<pending, pending_mutex, resp, executed, queue>> /\ thread' = [thread EXCEPT ![w] = r]
    BY <1>7 DEF poll_messages, calls, shm
  <2>2. thread'[w] = r /\ thread[w] \in AnyControl /\ \A u \in Thread \ {w} : thread'[u] = thread[u]
    BY ZenonT(60), <1>0, <2>1
  <2>3. thread'[w].pc = "tail"
    BY <2>2 DEF AnyControl
  <2>4. RingsExecuted' /\ w \notin pending /\ w \notin Client \cup Node
    BY <1>0, <1>r, <2>1
  <2>5. WorkerExecuted(w)'
    BY <2>3 DEF WorkerExecuted, Received, Sending
  <2> QED
    BY SMTT(60), <1>0, <1>k, <2>1, <2>2, <2>3, <2>4, <2>5
<1>8. ASSUME NEW w \in Worker, load_tail(w) PROVE LockInv' /\ ResponseInv'
  <2> DEFINE r == [thread[w] EXCEPT !.pc = "take", !.head = 0, !.tail = queue[RingIn(w)].tail]
  <2>1. UNCHANGED <<pending, pending_mutex, resp, executed, queue>>
        /\ (thread' = [thread EXCEPT ![w] = r] \/ thread' = [thread EXCEPT ![w] = Resting])
    BY <1>8 DEF load_tail, Rest, calls, shm
  <2>2. (thread'[w] = r \/ thread'[w] = Resting)
        /\ thread[w] \in AnyControl /\ \A u \in Thread \ {w} : thread'[u] = thread[u]
    BY <1>0, <2>1
  <2>3. thread'[w].pc \in {"take", "rest"}
    <3>1. r.pc = "take"
      BY <2>2 DEF AnyControl
    <3>2. Resting.pc = "rest"
      BY DEF Resting
    <3> HIDE DEF r
    <3> QED
      BY <2>2, <3>1, <3>2
  <2>4. RingsExecuted' /\ w \notin pending /\ w \notin Client \cup Node
    BY <1>0, <1>r, <2>1
  <2>5. WorkerExecuted(w)'
    BY <2>3 DEF WorkerExecuted, Received, Sending
  <2> QED
    BY <1>0, <1>k, <2>1, <2>2, <2>3, <2>4, <2>5
<1>9. ASSUME NEW w \in Worker, take_message(w) PROVE LockInv' /\ ResponseInv'
  <2> DEFINE p == RingIn(w)
             m == queue[p].messages[thread[w].tail]
             r == [thread[w] EXCEPT !.pc = "taken", !.msg = m]
  <2>1. UNCHANGED <<pending, pending_mutex, resp, executed, queue>> /\ thread' = [thread EXCEPT ![w] = r]
    BY <1>9 DEF take_message, calls, shm
  <2>2. thread'[w] = r /\ thread[w] \in AnyControl /\ \A u \in Thread \ {w} : thread'[u] = thread[u]
    BY ZenonT(60), <1>0, <2>1
  <2>3. thread'[w].pc = "taken" /\ thread'[w].msg = m
    BY <2>2 DEF AnyControl
  <2>4. p \in Node \X Node /\ p[2] = home[w] /\ thread[w].tail \in Slot
    BY <1>0, <1>9, RingType DEF RingIn, take_message, At, AnyControl
  <2>5. Executed(home[w], m)
    BY <2>4, Zenon DEF ResponseInv, RingsExecuted
  <2> HIDE DEF m, p
  <2>6. WorkerExecuted(w)'
    BY <2>1, <2>3, <2>5 DEF WorkerExecuted, Received, Sending, Executed
  <2>7. RingsExecuted' /\ w \notin pending /\ w \notin Client \cup Node
    BY <1>0, <1>r, <2>1
  <2> QED
    BY SMTT(60), <1>0, <1>k, <2>1, <2>2, <2>3, <2>6, <2>7
<1>10. ASSUME NEW w \in Worker, store_tail(w) PROVE LockInv' /\ ResponseInv'
  <2>1. UNCHANGED <<pending, pending_mutex, resp, executed>>
    BY <1>10 DEF store_tail, crash, calls, shm
  <2>2. CASE UNCHANGED <<thread, queue>>
    BY SMTT(60), <1>r, <1>u, <2>1, <2>2
  <2> DEFINE r == [thread[w] EXCEPT !.pc = "find", !.tail = 0]
             l == Successor(thread[w].tail)
  <2>3. CASE thread' = [thread EXCEPT ![w] = r] /\ queue' = [queue EXCEPT ![RingIn(w)].tail = l]
    <3>1. thread'[w] = r /\ thread[w] \in AnyControl /\ \A u \in Thread \ {w} : thread'[u] = thread[u]
      BY ZenonT(60), <1>0, <2>3
    <3>2. thread'[w].pc = "find" /\ thread'[w].msg = thread[w].msg
      BY <3>1 DEF AnyControl
    <3>3. thread[w].pc = "taken" /\ RingIn(w) \in Node \X Node
      BY <1>0, <1>10, RingType DEF store_tail, At, RingIn
    <3>4. WorkerExecuted(w)'
      BY ZenonT(60), <2>1, <3>2, <3>3 DEF ResponseInv, WorkerExecuted, Received, Sending, Executed
    <3> HIDE DEF r, l
    <3>5. RingsExecuted'
      BY <1>q, <2>1, <2>3, <3>3, IndexKeepsMessages, RingsKept
    <3>6. w \notin pending /\ w \notin Client \cup Node
      BY <1>0
    <3> QED
      BY <1>0, <1>k, <2>1, <3>1, <3>2, <3>4, <3>5, <3>6, Zenon
  <2> QED
    BY <1>10, <2>2, <2>3 DEF store_tail, crash, shm
<1>11. ASSUME NEW w \in Worker, handle_request(w) PROVE LockInv' /\ ResponseInv'
  <2> DEFINE m == [type |-> "response", id |-> thread[w].msg.id]
             r == [thread[w] EXCEPT !.pc = "put", !.msg = m]
  <2>1. UNCHANGED <<pending, pending_mutex, resp, queue>> /\ thread' = [thread EXCEPT ![w] = r]
        /\ executed' = executed \cup {<<Min(thread[w].peers), thread[w].msg.id>>}
    BY <1>11 DEF handle_request, calls, shm
  <2>2. thread'[w] = r /\ thread[w] \in AnyControl /\ \A u \in Thread \ {w} : thread'[u] = thread[u]
    BY ZenonT(60), <1>0, <2>1
  <2>3. thread'[w].pc = "put" /\ thread'[w].msg = m /\ thread'[w].peers = thread[w].peers
    BY <2>2 DEF AnyControl
  <2>4. WorkerExecuted(w)'
    BY <2>1, <2>3 DEF WorkerExecuted, Received, Sending, Executed
  <2>5. RingsExecuted' /\ w \notin pending /\ w \notin Client \cup Node
    BY <1>0, <1>r, <2>1
  <2> QED
    BY <1>0, <1>k, <2>1, <2>2, <2>3, <2>4, <2>5
<1>p. ASSUME NEW w \in Worker, ContinuePolling(w)
      PROVE  /\ \A u \in Thread \ {w} : thread'[u] = thread[u]
             /\ thread'[w].pc = "rest" /\ WorkerExecuted(w)'
  <2>1. Polling(w).pc = "rest" /\ thread' = [thread EXCEPT ![w] = Polling(w)]
    BY <1>p DEF ContinuePolling, Polling, Resting
  <2>2. thread'[w].pc = "rest" /\ \A u \in Thread \ {w} : thread'[u] = thread[u]
    BY <1>0, <2>1
  <2> QED
    BY <2>2 DEF WorkerExecuted, Received, Sending
<1>12. ASSUME NEW w \in Worker, handle_other(w) PROVE LockInv' /\ ResponseInv'
  <2>1. UNCHANGED <<pending, pending_mutex, resp, executed, queue>> /\ ContinuePolling(w)
    BY <1>12 DEF handle_other, calls, shm
  <2>2. RingsExecuted' /\ w \notin pending /\ w \notin Client \cup Node
    BY SMTT(60), <1>0, <1>r, <2>1
  <2> QED
    BY <1>0, <1>k, <1>p, <2>1, <2>2, Zenon
<1>n. ASSUME NEW t \in Thread, NEW sent \in BOOLEAN, next_peer(t, sent), thread[t].pc \in Sending,
             UNCHANGED <<pending, pending_mutex, resp, executed>>, RingsExecuted'
      PROVE  LockInv' /\ ResponseInv'
  <2>1. /\ \A u \in Thread \ {t} : thread'[u] = thread[u]
        /\ t \in Worker => thread'[t].pc = "rest"
        /\ t \in Client => thread'[t].msg = thread[t].msg /\ thread'[t].pc \in {"wait", "unsent"}
        /\ t \in Node => thread'[t].msg \in {thread[t].msg, Zero}
    BY <1>n, NextPeerEffect DEF Sending
  <2>2. t \in pending => thread'[t].msg.id = thread[t].msg.id /\ thread'[t].pc \in InCall
    BY SMTT(60), <1>0, <2>1 DEF InCall
  <2>3. t \in Client \cup Node => thread'[t].msg.type # "response"
    BY <2>1 DEF ResponseInv, OthersSend, Zero
  <2>4. t \in Worker => WorkerExecuted(t)'
    BY <2>1, Zenon DEF WorkerExecuted, Received, Sending
  <2> QED
    BY <1>k, <1>n, <2>1, <2>2, <2>3, <2>4, Zenon
<1>13. ASSUME NEW t \in Thread, load_indices(t) PROVE LockInv' /\ ResponseInv'
  <2>1. UNCHANGED <<pending, pending_mutex, resp, executed, queue>> /\ thread[t].pc = "put"
    BY ZenonT(60), <1>13 DEF load_indices, crash, calls, shm, At
  <2>2. RingsExecuted'
    BY <1>r, <2>1, Zenon
  <2> DEFINE h == queue[RingOut(t)].head
             r == [thread[t] EXCEPT !.pc = "copy", !.head = h]
  <2>3. \/ UNCHANGED thread
        \/ next_peer(t, FALSE)
        \/ thread' = [thread EXCEPT ![t] = r]
    BY <1>13, Zenon DEF load_indices, crash
  <2>4. CASE thread' = [thread EXCEPT ![t] = r]
    <3> HIDE DEF h
    <3>1. thread'[t] = r /\ thread[t] \in AnyControl /\ \A u \in Thread \ {t} : thread'[u] = thread[u]
      BY <1>0, <2>4
    <3>2. thread'[t].pc = "copy" /\ thread'[t].msg = thread[t].msg /\ thread'[t].peers = thread[t].peers
      BY <3>1 DEF AnyControl
    <3>3. t \in Worker => WorkerExecuted(t)'
      BY ZenonT(60), <2>1, <3>2 DEF ResponseInv, WorkerExecuted, Received, Sending, Executed
    <3>4. t \in Client \cup Node => thread'[t].msg.type # "response"
      BY <3>2 DEF ResponseInv, OthersSend
    <3> HIDE DEF r
    <3> QED
      BY <1>k, <2>1, <2>2, <3>1, <3>2, <3>3, <3>4, Zenon DEF InCall
  <2> HIDE DEF r
  <2> QED
    BY ZenonT(60), <1>u, <1>n, <2>1, <2>2, <2>3, <2>4 DEF Sending
<1>14. ASSUME NEW t \in Thread, copy_message(t) PROVE LockInv' /\ ResponseInv'
  <2>1. UNCHANGED <<pending, pending_mutex, resp, executed>> /\ thread[t].pc = "copy" /\ Goto(t, "copied")
    BY <1>14 DEF copy_message, calls, At
  <2>2. RingsExecuted'
    BY ZenonT(60), <1>14, <2>1, CopiedExecuted DEF copy_message, Sending
  <2>3. /\ \A u \in Thread \ {t} : thread'[u] = thread[u]
        /\ thread'[t].pc = "copied" /\ thread'[t].msg = thread[t].msg /\ thread'[t].peers = thread[t].peers
    BY <1>g, <2>1
  <2>4. t \in Worker => WorkerExecuted(t)'
    BY ZenonT(60), <2>1, <2>3 DEF ResponseInv, WorkerExecuted, Received, Sending, Executed
  <2>5. t \in Client \cup Node => thread'[t].msg.type # "response"
    BY <2>3 DEF ResponseInv, OthersSend
  <2> QED
    BY <1>k, <2>1, <2>2, <2>3, <2>4, <2>5, Zenon DEF InCall
<1>15. ASSUME NEW t \in Thread, store_head(t) PROVE LockInv' /\ ResponseInv'
  <2>1. UNCHANGED <<pending, pending_mutex, resp, executed>> /\ thread[t].pc = "copied" /\ next_peer(t, TRUE)
    BY ZenonT(60), <1>15 DEF store_head, calls, At
  <2> DEFINE l == Successor(thread[t].head)
  <2>2. queue' = [queue EXCEPT ![RingOut(t)].head = l] /\ RingOut(t) \in Node \X Node
    BY ZenonT(60), <1>15, <2>1, RingType DEF store_head
  <2> HIDE DEF l
  <2>3. RingsExecuted'
    BY <1>q, <2>1, <2>2, IndexKeepsMessages, RingsKept
  <2> QED
    BY ZenonT(60), <1>n, <2>1, <2>3 DEF Sending
<1>16. ASSUME NEW c \in Client, insert_pending(c) PROVE LockInv' /\ ResponseInv'
  <2>1. UNCHANGED <<pending_mutex, resp, executed, queue>> /\ pending' = pending \cup {c} /\ Goto(c, "put")
    BY SMTT(60), <1>16 DEF insert_pending, shm
  <2>2. /\ \A u \in Thread \ {c} : thread'[u] = thread[u]
        /\ thread'[c].pc = "put" /\ thread'[c].msg = thread[c].msg
    BY SMTT(60), <1>0, <1>g, <2>1
  <2>3. \A d \in pending : thread'[d].pc \in InCall /\ thread'[d].msg = thread[d].msg
    BY <1>0, <2>2, Zenon DEF LockInv, InCall
  <2>4. ASSUME NEW w \in Worker, thread'[w].pc \in {"deliver", "complete"}
        PROVE  pending_mutex[home[w]] = w /\ Found(w)' # {}
    <3>1. thread'[w] = thread[w]
      BY SMTT(60), <1>0, <2>2
    <3>2. PICK d \in pending : home[d] = home[w] /\ thread[d].msg.id = thread[w].msg.id
      BY SMTT(60), <2>4, <3>1 DEF LockInv, Found
    <3>3. d \in Found(w)'
      BY SMTT(60), <2>1, <2>3, <3>1, <3>2 DEF Found
    <3> QED
      BY SMTT(60), <2>4, <3>1, <3>3 DEF LockInv
  <2>5. LockInv'
    BY <2>1, <2>2, <2>3, <2>4, Zenon DEF LockInv, InCall
  <2>6. \A w \in Worker : WorkerExecuted(w)'
    <3>1. \A w \in Worker : thread'[w] = thread[w]
      BY SMTT(60), <1>0, <2>2
    <3> QED
      BY <2>1, <3>1, Zenon DEF ResponseInv, WorkerExecuted, Executed
  <2>7. OthersSend'
    BY SMTT(60), <1>0, <2>2 DEF ResponseInv, OthersSend
  <2>8. BuffersExecuted'
    BY ZenonT(60), <1>0, <2>1, <2>2 DEF ResponseInv, BuffersExecuted
  <2>9. RingsExecuted'
    BY SMTT(60), <1>r, <2>1
  <2> QED
    BY <2>5, <2>6, <2>7, <2>8, <2>9 DEF ResponseInv
<1>17. ASSUME NEW c \in Client, erase_pending(c) PROVE LockInv' /\ ResponseInv'
  <2>1. /\ UNCHANGED <<pending_mutex, executed, queue>> /\ pending' = pending \ {c}
        /\ thread' = [thread EXCEPT ![c] = Resting] /\ resp' = [resp EXCEPT ![c] = Zero]
        /\ pending_mutex[home[c]] = None
    BY SMTT(60), <1>17 DEF erase_pending, Rest, Unlocked, shm
  <2>2. /\ \A u \in Thread \ {c} : thread'[u] = thread[u]
        /\ thread'[c] = Resting
    BY SMTT(60), <1>0, <2>1
  <2>3. \A d \in pending \ {c} : thread'[d] = thread[d] /\ thread'[d].pc \in InCall
    BY <1>0, <2>2, Zenon DEF LockInv
  <2>4. ASSUME NEW w \in Worker, thread'[w].pc \in {"deliver", "complete"}
        PROVE  pending_mutex[home[w]] = w /\ Found(w)' # {}
    <3>1. thread'[w] = thread[w]
      BY SMTT(60), <1>0, <2>2
    <3>2. PICK d \in pending : home[d] = home[w] /\ thread[d].msg.id = thread[w].msg.id
      BY SMTT(60), <2>4, <3>1 DEF LockInv, Found
    <3>3. pending_mutex[home[w]] = w
      BY <2>4, <3>1 DEF LockInv
    <3>4. w # None
      BY SMTT(60), MessageAssumption
    <3>5. d # c
      BY SMTT(60), <2>1, <3>2, <3>3, <3>4
    <3>6. d \in Found(w)'
      BY <2>1, <2>3, <3>1, <3>2, <3>5, Zenon DEF Found
    <3> QED
      BY <3>3, <3>6, Zenon
  <2>5. LockInv'
    BY ZenonT(60), <2>1, <2>3, <2>4 DEF LockInv
  <2>6. \A w \in Worker : WorkerExecuted(w)'
    <3>1. \A w \in Worker : thread'[w] = thread[w]
      BY SMTT(60), <1>0, <2>2
    <3> QED
      BY <2>1, <3>1 DEF ResponseInv, WorkerExecuted, Executed
  <2>7. OthersSend'
    BY SMTT(60), <1>0, <2>2 DEF ResponseInv, OthersSend, Resting, Zero
  <2>8. BuffersExecuted'
    <3>1. resp \in [Client -> Message]
      BY SMTT(60), <1>0 DEF StateTypes
    <3>2. resp'[c].type # "response" /\ \A d \in Client \ {c} : resp'[d] = resp[d] /\ thread'[d] = thread[d]
      BY <1>0, <2>1, <2>2, <3>1, Zenon DEF Zero
    <3> QED
      BY SMTT(60), <2>1, <3>2 DEF ResponseInv, BuffersExecuted
  <2>9. RingsExecuted'
    BY <1>r, <2>1, Zenon
  <2> QED
    BY <2>5, <2>6, <2>7, <2>8, <2>9 DEF ResponseInv
<1>18. ASSUME NEW w \in Worker, find_pending(w) PROVE LockInv' /\ ResponseInv'
  <2>1. /\ UNCHANGED <<pending, resp, executed, queue>> /\ pending_mutex[home[w]] = None /\ thread[w].pc = "find"
        /\ \/ Found(w) = {} /\ Goto(w, "handle") /\ UNCHANGED pending_mutex
           \/ Found(w) # {} /\ Goto(w, "deliver") /\ pending_mutex' = [pending_mutex EXCEPT ![home[w]] = w]
    BY <1>18, Zenon DEF find_pending, shm, At
  <2>2. RingsExecuted' /\ w \notin pending /\ w \notin Client \cup Node
    BY SMTT(60), <1>0, <1>r, <2>1
  <2>3. ASSUME NEW p \in {"handle", "deliver"}, Goto(w, p) PROVE ResponseInv'
    <3>1. /\ \A u \in Thread \ {w} : thread'[u] = thread[u]
          /\ thread'[w].pc = p /\ thread'[w].msg = thread[w].msg
      BY <1>0, <1>g, <2>3, Zenon
    <3>2. WorkerExecuted(w)'
      BY ZenonT(60), <2>1, <3>1 DEF ResponseInv, WorkerExecuted, Received, Sending, Executed
    <3> QED
      BY <1>0, <2>1, <2>2, <3>1, <3>2, ResponseKept, Zenon
  <2>4. CASE Found(w) = {} /\ Goto(w, "handle") /\ UNCHANGED pending_mutex
    <3>1. /\ \A u \in Thread \ {w} : thread'[u] = thread[u]
          /\ thread'[w].pc = "handle"
      BY <1>0, <1>g, <2>4, Zenon
    <3>2. LockInv'
      BY <1>0, <2>1, <2>2, <2>4, <3>1, LockKept, Zenon
    <3> QED
      BY SMTT(60), <2>3, <2>4, <3>2
  <2>5. CASE Found(w) # {} /\ Goto(w, "deliver") /\ pending_mutex' = [pending_mutex EXCEPT ![home[w]] = w]
    <3>1. /\ \A u \in Thread \ {w} : thread'[u] = thread[u]
          /\ thread'[w].pc = "deliver" /\ thread'[w].msg = thread[w].msg
      BY <1>0, <1>g, <2>5, Zenon
    <3>2. \A c \in pending : thread'[c] = thread[c]
      BY SMTT(60), <1>0, <3>1
    <3>3. Found(w)' = Found(w)
      BY <2>1, <3>1, <3>2, Zenon DEF Found
    <3>4. pending_mutex'[home[w]] = w /\ \A n \in Node : n # home[w] => pending_mutex'[n] = pending_mutex[n]
      BY SMTT(60), <1>0, <2>5, MessageAssumption DEF StateTypes
    <3>5. ASSUME NEW v \in Worker, v # w, thread'[v].pc \in {"deliver", "complete"}
          PROVE  pending_mutex'[home[v]] = v /\ Found(v)' # {}
      <4>1. thread'[v] = thread[v]
        BY <1>0, <3>1, <3>5, Zenon
      <4>2. pending_mutex[home[v]] = v /\ Found(v) # {}
        BY SMTT(60), <3>5, <4>1 DEF LockInv
      <4>3. home[v] # home[w] /\ home[v] \in Node
        BY <2>1, <4>2, MessageAssumption, Zenon
      <4>4. Found(v)' = Found(v)
        BY <2>1, <3>2, <4>1, Zenon DEF Found
      <4> QED
        BY SMTT(60), <3>4, <4>2, <4>3, <4>4
    <3>6. LockInv'
      BY <2>1, <2>5, <3>2, <3>3, <3>4, <3>5, Zenon DEF LockInv
    <3> QED
      BY SMTT(60), <2>3, <2>5, <3>6
  <2> QED
    BY SMTT(60), <2>1, <2>4, <2>5
<1>19. ASSUME NEW w \in Worker, copy_response(w) PROVE LockInv' /\ ResponseInv'
  <2>1. /\ UNCHANGED <<pending, pending_mutex, executed, queue>> /\ thread[w].pc = "deliver"
        /\ resp' = [c \in Client |-> IF c \in Found(w) THEN thread[w].msg ELSE resp[c]] /\ Goto(w, "complete")
    BY SMTT(60), <1>19 DEF copy_response, shm, At
  <2>2. /\ \A u \in Thread \ {w} : thread'[u] = thread[u]
        /\ thread'[w].pc = "complete" /\ thread'[w].msg = thread[w].msg
    BY <1>0, <1>g, <2>1, Zenon
  <2>3. LockInv'
    BY <1>0, <2>1, <2>2, LockKept, Zenon
  <2>4. WorkerExecuted(w)' /\ Executed(home[w], thread[w].msg)
    BY <2>1, <2>2, Zenon DEF ResponseInv, WorkerExecuted, Received, Sending, Executed
  <2>5. \A v \in Worker : WorkerExecuted(v)'
    <3>1. \A v \in Worker \ {w} : thread'[v] = thread[v]
      BY <1>0, <2>2, Zenon
    <3> QED
      BY <2>1, <2>4, <3>1, Zenon DEF ResponseInv, WorkerExecuted, Executed
  <2>6. OthersSend'
    BY <1>0, <2>2, Zenon DEF ResponseInv, OthersSend
  <2>7. BuffersExecuted'
    <3> SUFFICES ASSUME NEW c \in Client, resp'[c].type = "response"
                 PROVE  c \in pending /\ resp'[c].id = thread[c].msg.id /\ <<home[c], resp'[c].id>> \in executed
      BY ZenonT(60), <1>0, <2>1, <2>2 DEF BuffersExecuted
    <3>1. CASE c \in Found(w)
      <4>1. resp'[c] = thread[w].msg /\ c \in pending /\ home[c] = home[w] /\ thread[c].msg.id = thread[w].msg.id
        BY <2>1, <3>1, Zenon DEF Found
      <4> QED
        BY <2>4, <4>1, Zenon DEF Executed
    <3>2. CASE c \notin Found(w)
      BY ZenonT(60), <2>1, <3>2 DEF ResponseInv, BuffersExecuted
    <3> QED
      BY <3>1, <3>2, Zenon
  <2>8. RingsExecuted'
    BY <1>r, <2>1
  <2> QED
    BY SMTT(60), <2>3, <2>5, <2>6, <2>7, <2>8 DEF ResponseInv
<1>20. ASSUME NEW w \in Worker, complete_request(w) PROVE LockInv' /\ ResponseInv'
  <2>1. /\ UNCHANGED <<pending, resp, executed, queue>> /\ thread[w].pc = "complete" /\ ContinuePolling(w)
        /\ pending_mutex' = [pending_mutex EXCEPT ![home[w]] = None]
    BY <1>20, Zenon DEF complete_request, shm, At
  <2>2. RingsExecuted' /\ w \notin pending /\ w \notin Client \cup Node
    BY SMTT(60), <1>0, <1>r, <2>1
  <2>3. /\ \A u \in Thread \ {w} : thread'[u] = thread[u]
        /\ thread'[w].pc = "rest" /\ WorkerExecuted(w)'
    BY <1>p, <2>1, Zenon
  <2>4. ResponseInv'
    BY <1>0, <2>1, <2>2, <2>3, ResponseKept, Zenon
  <2>5. \A c \in pending : thread'[c] = thread[c]
    BY <1>0, <2>3, Zenon
  <2>6. ASSUME NEW v \in Worker, thread'[v].pc \in {"deliver", "complete"}
        PROVE  pending_mutex'[home[v]] = v /\ Found(v)' # {}
    <3>1. v # w /\ thread'[v] = thread[v]
      BY <1>0, <2>3, <2>6, Zenon
    <3>2. pending_mutex[home[v]] = v /\ Found(v) # {} /\ pending_mutex[home[w]] = w
      BY <2>1, <2>6, <3>1, Zenon DEF LockInv
    <3>3. home[v] # home[w] /\ home[v] \in Node
      BY <3>1, <3>2, MessageAssumption, Zenon
    <3>4. pending_mutex'[home[v]] = pending_mutex[home[v]]
      BY <1>0, <2>1, <3>3, Zenon DEF StateTypes
    <3>5. Found(v)' = Found(v)
      BY <2>1, <2>5, <3>1, Zenon DEF Found
    <3> QED
      BY <3>2, <3>4, <3>5, Zenon
  <2>7. LockInv'
    BY <2>1, <2>5, <2>6, Zenon DEF LockInv
  <2> QED
    BY SMTT(60), <2>4, <2>7
<1>21. CASE UNCHANGED vars
  <2>1. UNCHANGED <<thread, pending, pending_mutex, resp, executed, queue>>
    BY <1>21 DEF vars, shm, calls
  <2> QED
    BY SMTT(60), <1>r, <1>u, <2>1
<1> QED
  BY ZenonT(60), <1>1, <1>2, <1>3, <1>4, <1>5, <1>6, <1>7, <1>8, <1>9, <1>10, <1>11,
     <1>12, <1>13, <1>14, <1>15, <1>16, <1>17, <1>18, <1>19, <1>20, <1>21 DEF Next,
     client_step, worker_step, dequeue_message, process_message, enqueue_message

-----------------------------------------------------------------------------
SafeInv == TypeInv /\ LockInv /\ ResponseInv

(* The three invariants hold together in every reachable state. *)
LEMMA AlwaysSafe ==
  Spec => []SafeInv
<1>1. Init => SafeInv
  <2> SUFFICES ASSUME Init PROVE LockInv /\ ResponseInv
    BY SMTT(60), StartTypes DEF SafeInv
  <2>1. LockInv
    BY Zenon DEF Init, LockInv, Resting, Thread
  <2>2. RingsExecuted
    BY Zenon DEF Init, RingsExecuted, Executed, EmptyQueue, Zero
  <2>3. OthersSend /\ BuffersExecuted /\ \A w \in Worker : WorkerExecuted(w)
    BY Zenon DEF Init, OthersSend, BuffersExecuted, WorkerExecuted, Received, Sending,
       Resting, Zero, Thread
  <2> QED
    BY <2>1, <2>2, <2>3 DEF ResponseInv
<1>2. SafeInv /\ [Next]_vars => SafeInv'
  BY TypeStep, SafetyStep DEF SafeInv
<1> QED
  BY <1>1, <1>2, PTL DEF Spec

(* Whatever wipes, crashes and races do to the rings, every index stays in *)
(* its ring and every message and thread state is one the code has.        *)
THEOREM MessageTypes ==
  Spec => []TypeOK
<1>1. SafeInv => TypeOK
  BY DEF SafeInv, TypeInv
<1> QED
  BY <1>1, AlwaysSafe, PTL

(* process_message writes only into the buffer of a call that has not      *)
(* returned, for every number of nodes, calls and workers: pending_mutex_  *)
(* is held from the search of the entry to its completion.                 *)
THEOREM BufferLives ==
  Spec => []ResponseBufferIsLive
<1>1. SafeInv => ResponseBufferIsLive
  BY SMTT(60) DEF SafeInv, LockInv, ResponseBufferIsLive
<1> QED
  BY <1>1, AlwaysSafe, PTL

(* A call completed by a response was executed by the coordinator, however *)
(* often racing workers take, lose or repeat the messages of a ring.       *)
THEOREM AnswersAreExecuted ==
  Spec => []AnsweredMeansExecuted
<1>1. SafeInv => AnsweredMeansExecuted
  <2> SUFFICES ASSUME SafeInv, NEW c \in pending, completed[c], resp[c].type = "response"
               PROVE  <<home[c], thread[c].msg.id>> \in executed
    BY DEF AnsweredMeansExecuted
  <2>1. c \in Client
    BY DEF SafeInv, TypeInv, TypeOK
  <2> QED
    BY ZenonT(60), <2>1 DEF SafeInv, ResponseInv, BuffersExecuted
<1> QED
  BY <1>1, AlwaysSafe, PTL
=============================================================================
