----------------------- MODULE DistributedClusterProofs -----------------------
(***************************************************************************)
(* Two more results about a cluster of any size.  The pairing of requests  *)
(* with replies that connections_mutex_ gives a node that is the only      *)
(* client of its peer.  And the two searches of the decoder: sorting a     *)
(* node's table changes no routing.                                        *)
(***************************************************************************)
EXTENDS DistributedServerProofs

\* The request of thread t of node n to node m is in one place.
OnItsWay(n, m, t) ==
    LET op == thread[n][t].op
        msg == [from |-> n, op |-> op]
    IN  \/ requests[n][m] = <<op>> /\ Handled(m, n) = {} /\ replies[n][m] = <<>>
        \/ /\ requests[n][m] = <<>> /\ replies[n][m] = <<>>
           /\ Handled(m, n) = {n} /\ handler[m][n].msg = msg
        \/ requests[n][m] = <<>> /\ Handled(m, n) = {} /\ replies[n][m] = <<msg>>

\* No thread of node n waits for node m and nothing is between them, or one
\* thread waits.
Paired(n, m) ==
    \/ /\ Waiting(n, m) = {} /\ Handled(m, n) = {}
       /\ requests[n][m] = <<>> /\ replies[n][m] = <<>>
    \/ \E t \in Thread : Waiting(n, m) = {t} /\ OnItsWay(n, m, t)

Pairs == \A n, m \in Node : SoleClient(n, m) => Paired(n, m)

-----------------------------------------------------------------------------
(* What leaves a pair alone: the threads of n that wait for m, the handlers of *)
(* m with a request of n, and the two streams.                                 *)

ThreadsStay(n, m) ==
    /\ Waiting(n, m)' = Waiting(n, m)
    /\ \A t \in Waiting(n, m) : thread'[n][t].op = thread[n][t].op

HandlersStay(n, m) ==
    /\ Handled(m, n)' = Handled(m, n)
    /\ \A q \in Handled(m, n) : handler'[m][q].msg = handler[m][q].msg

StreamsStay(n, m) ==
    requests'[n][m] = requests[n][m] /\ replies'[n][m] = replies[n][m]

\* A pair that nothing touches stays paired.
LEMMA PairStays ==
    ASSUME NEW n \in Node, NEW m \in Node, Paired(n, m),
           ThreadsStay(n, m), HandlersStay(n, m), StreamsStay(n, m)
    PROVE  Paired(n, m)'
<1>1. CASE /\ Waiting(n, m) = {} /\ Handled(m, n) = {}
           /\ requests[n][m] = <<>> /\ replies[n][m] = <<>>
  <2>1. /\ Waiting(n, m)' = {} /\ Handled(m, n)' = {}
        /\ requests'[n][m] = <<>> /\ replies'[n][m] = <<>>
    BY <1>1 DEF ThreadsStay, HandlersStay, StreamsStay
  <2> QED
    BY <2>1, Zenon DEF Paired
<1>2. ASSUME NEW t \in Thread, Waiting(n, m) = {t}, OnItsWay(n, m, t)
      PROVE  Paired(n, m)'
  <2>1. Waiting(n, m)' = {t} /\ thread'[n][t].op = thread[n][t].op
    BY <1>2 DEF ThreadsStay
  <2>2. /\ Handled(m, n)' = Handled(m, n)
        /\ Handled(m, n) = {n} => handler'[m][n].msg = handler[m][n].msg
    BY DEF HandlersStay
  <2>3. OnItsWay(n, m, t)'
    BY <1>2, <2>1, <2>2, Zenon DEF OnItsWay, StreamsStay
  <2> QED
    BY <2>1, <2>3, Zenon DEF Paired
<1> QED
  BY <1>1, <1>2, Zenon DEF Paired

\* A thread that neither waited for m nor goes on to.
LEMMA ThreadElsewhere ==
    ASSUME Types, NEW n \in Node, NEW m \in Node, NEW k \in Node, NEW t \in Thread,
           NEW s \in CallState, ThreadTo(k, t, s),
           \/ k # n
           \/ /\ ~(thread[n][t].pc = "wait" /\ thread[n][t].target = m)
              /\ ~(s.pc = "wait" /\ s.target = m)
    PROVE  ThreadsStay(n, m)
<1>1. /\ thread'[k][t] = s
      /\ \A c \in Node, u \in Thread : c # k \/ u # t => thread'[c][u] = thread[c][u]
  BY ThreadPut
<1>2. ASSUME NEW u \in Thread
      PROVE  /\ u \in Waiting(n, m) => thread'[n][u] = thread[n][u]
             /\ thread'[n][u].pc = "wait" /\ thread'[n][u].target = m
                <=> thread[n][u].pc = "wait" /\ thread[n][u].target = m
  BY <1>1 DEF Waiting
<1> QED
  BY <1>2 DEF ThreadsStay, Waiting

\* A handler that neither had a request of n nor gets one.
LEMMA HandlerElsewhere ==
    ASSUME Types, NEW n \in Node, NEW m \in Node, NEW k \in Node, NEW p \in Node,
           NEW s \in ServiceState, HandlerTo(k, p, s),
           \/ k # m
           \/ handler[m][p].pc # "reply" /\ s.pc # "reply"
    PROVE  HandlersStay(n, m)
<1>1. /\ handler'[k][p] = s
      /\ \A c, q \in Node : c # k \/ q # p => handler'[c][q] = handler[c][q]
  BY HandlerPut, SMTT(30)
<1>2. ASSUME NEW q \in Node
      PROVE  /\ q \in Handled(m, n) => handler'[m][q] = handler[m][q]
             /\ handler'[m][q].pc = "reply" /\ handler'[m][q].msg.from = n
                <=> handler[m][q].pc = "reply" /\ handler[m][q].msg.from = n
  BY <1>1 DEF Handled
<1> QED
  BY <1>2, Zenon DEF HandlersStay, Handled
-----------------------------------------------------------------------------
(* The steps of a pair. *)

\* send_request on an idle pair: the request is in the stream.
LEMMA AskPairs ==
    ASSUME Types, Held, NEW n \in Node, NEW m \in Node, NEW k \in Node, NEW t \in Thread,
           Paired(n, m), Asks(k, t)
    PROVE  Paired(n, m)'
<1>1. PICK p \in Node, op \in Kind, s \in CallState, q \in Seq(Kind) :
        /\ p = thread[k][t].target /\ op = thread[k][t].op
        /\ s.pc = "wait" /\ s.target = p /\ s.op = op /\ ThreadTo(k, t, s)
        /\ q = Append(requests[k][p], op) /\ RequestsTo(k, p, q)
  BY AskMoves, Zenon
<1>2. mutex[k] = None /\ thread[k][t].pc = "send"
  BY ZenonT(60), AskMoves
<1>3. replies' = replies /\ handler' = handler
  BY AskMoves, CallerKeeps, Zenon DEF server
<1>4. /\ thread'[k][t] = s
      /\ \A c \in Node, u \in Thread : c # k \/ u # t => thread'[c][u] = thread[c][u]
  <2>1. ThreadTo(k, t, s)
    BY <1>1, Zenon
  <2> QED
    BY <2>1, ThreadPut
<1>5. RequestsTo(k, p, q)
  BY <1>1, Zenon
<1>6. /\ requests'[k][p] = q
      /\ \A c, d \in Node : c # k \/ d # p => requests'[c][d] = requests[c][d]
  BY <1>5, RequestPut
<1>7. HandlersStay(n, m)
  BY <1>3, Zenon DEF HandlersStay, Handled
<1>8. CASE k # n \/ p # m
  <2>1. ThreadsStay(n, m)
    BY ZenonT(60), <1>1, <1>2, <1>8, ThreadElsewhere
  <2>2. StreamsStay(n, m)
    BY <1>3, <1>6, <1>8 DEF StreamsStay
  <2> QED
    BY <1>7, <2>1, <2>2, PairStays
<1>9. CASE k = n /\ p = m
  <2>1. \A u \in Thread : thread[n][u].pc # "wait"
    BY SMTT(60), <1>2, <1>9, Threads DEF Held
  <2>2. Waiting(n, m) = {}
    BY <2>1 DEF Waiting
  <2>3. Handled(m, n) = {} /\ requests[n][m] = <<>> /\ replies[n][m] = <<>>
    BY <2>2 DEF Paired
  <2>4. Waiting(n, m)' = {t} /\ thread'[n][t].op = op
    BY ZenonT(60), <1>1, <1>4, <1>9, <2>1 DEF Waiting
  <2>5. requests'[n][m] = <<op>> /\ replies'[n][m] = <<>> /\ Handled(m, n)' = {}
    <3>1. q = Append(<<>>, op)
      BY <1>1, <1>9, <2>3, Zenon
    <3>2. q = <<op>>
      BY <3>1, SMTT(30)
    <3> QED
      BY <1>3, <1>6, <1>7, <1>9, <2>3, <3>2, Zenon DEF HandlersStay
  <2>6. OnItsWay(n, m, t)'
    BY <2>4, <2>5 DEF OnItsWay
  <2> QED
    BY <2>4, <2>6 DEF Paired
<1> QED
  BY <1>8, <1>9

\* receive_reply takes the one reply, and the pair is idle.
LEMMA ReplyPairs ==
    ASSUME Types, NEW n \in Node, NEW m \in Node, NEW k \in Node, NEW t \in Thread,
           Paired(n, m), receive_reply(k, t)
    PROVE  Paired(n, m)'
<1>1. PICK p \in Node, q \in Seq(Reply) :
        /\ p = thread[k][t].target /\ replies[k][p] # <<>>
        /\ q = Tail(replies[k][p]) /\ RepliesTo(k, p, q)
  BY TakeMoves, Zenon
<1>2. thread[k][t].pc = "wait" /\ ThreadTo(k, t, Idle)
  BY ReturnMoves, Zenon
<1>3. requests' = requests /\ handler' = handler
  BY TakeMoves, CallerKeeps, Zenon DEF server
<1>4. RepliesTo(k, p, q)
  BY <1>1, Zenon
<1>5. /\ replies'[k][p] = q
      /\ \A c, d \in Node : c # k \/ d # p => replies'[c][d] = replies[c][d]
  BY <1>4, ReplyPut, SMTT(30)
<1>6. HandlersStay(n, m)
  BY <1>3 DEF HandlersStay, Handled
<1>7. CASE k # n \/ p # m
  <2>1. ThreadsStay(n, m)
    <3>1. Idle \in CallState /\ ~(Idle.pc = "wait" /\ Idle.target = m)
      BY IdleType DEF Idle
    <3>2. k # n \/ ~(thread[n][t].pc = "wait" /\ thread[n][t].target = m)
      BY <1>1, <1>7, Zenon
    <3> QED
      BY ZenonT(60), <1>2, <3>1, <3>2, ThreadElsewhere
  <2>2. StreamsStay(n, m)
    BY <1>3, <1>5, <1>7 DEF StreamsStay
  <2> QED
    BY <1>6, <2>1, <2>2, PairStays
<1>8. CASE k = n /\ p = m
  <2>1. t \in Waiting(n, m)
    BY <1>1, <1>2, <1>8, Zenon DEF Waiting
  <2>2. PICK u \in Thread : Waiting(n, m) = {u} /\ OnItsWay(n, m, u)
    BY <2>1, Zenon DEF Paired
  <2>3. /\ requests[n][m] = <<>> /\ Handled(m, n) = {}
        /\ \E msg : replies[n][m] = <<msg>>
    BY <1>1, <1>8, <2>2, Zenon DEF OnItsWay
  <2>4. requests'[n][m] = <<>> /\ Handled(m, n)' = {} /\ replies'[n][m] = <<>>
    <3>1. PICK msg : replies[n][m] = <<msg>>
      BY <2>3, Zenon
    <3>2. q = Tail(<<msg>>)
      BY <1>1, <1>8, <3>1, Zenon
    <3>3. q = <<>>
      BY <3>2
    <3> QED
      BY <1>3, <1>5, <1>6, <1>8, <2>3, <3>3, Zenon DEF HandlersStay
  <2>5. Waiting(n, m)' = {}
    <3>1. /\ thread'[k][t] = Idle
          /\ \A c \in Node, v \in Thread : c # k \/ v # t => thread'[c][v] = thread[c][v]
      BY <1>2, IdleType, ThreadPut
    <3>2. \A v \in Thread : v # t => v \notin Waiting(n, m)
      BY SMTT(60), <2>1, <2>2
    <3> QED
      BY SMTT(60), <1>8, <3>1, <3>2, IdleType DEF Waiting
  <2> QED
    BY <2>4, <2>5, Zenon DEF Paired
<1> QED
  BY <1>7, <1>8

\* The handler of the sole client takes the request and answers it on the
\* socket it came from.
LEMMA HandlerPairs ==
    ASSUME Types, Used, Served, NEW n \in Node, NEW m \in Node, NEW p \in Node,
           SoleClient(n, m), Paired(n, m), handle_client(m, p)
    PROVE  Paired(n, m)'
<1>1. /\ p = n /\ sock[m] = n
      /\ handler[m][n].pc = "recv" => handler[m][n].fd = n
      /\ handler[m][n].pc = "reply" => handler[m][n].msg.from = n
      /\ \/ receive_message(m, n) /\ ~Leave(m, n)
         \/ message_arrives(m, n) \/ reply_message(m, n)
  BY ZenonT(60), SoleHandler DEF SoleClient
<1>2. ThreadsStay(n, m)
  <2>1. thread' = thread
    BY ServerKeeps DEF client
  <2> QED
    BY <2>1 DEF ThreadsStay, Waiting
<1>3. CASE receive_message(m, n) /\ ~Leave(m, n)
  <2>1. PICK s \in ServiceState :
          /\ HandlerTo(m, n, s)
          /\ s.pc = "reply" => message_arrives(m, n)
    BY SMTT(60), <1>1, HandlerMoves
  <2>2. handler[m][n].pc = "loop"
    BY <1>3 DEF receive_message
  <2>3. s.pc # "reply"
    BY <2>1, <2>2 DEF message_arrives
  <2>4. HandlersStay(n, m)
    BY <2>1, <2>2, <2>3, HandlerElsewhere, Zenon
  <2>5. requests' = requests /\ replies' = replies
    BY <1>3, Zenon DEF receive_message
  <2> QED
    BY SMTT(60), <1>2, <2>4, <2>5, PairStays DEF StreamsStay
<1>4. CASE message_arrives(m, n)
  <2>1. PICK fd \in Node, s \in ServiceState, q \in Seq(Kind) :
          /\ fd = handler[m][n].fd /\ requests[fd][m] # <<>>
          /\ s.pc = "reply" /\ s.msg = [from |-> fd, op |-> Head(requests[fd][m])]
          /\ HandlerTo(m, n, s)
          /\ q = Tail(requests[fd][m]) /\ RequestsTo(fd, m, q)
    BY ZenonT(60), <1>4, ArrivalMoves
  <2>2. handler[m][n].pc = "recv" /\ replies' = replies
    BY <1>4, ArrivalMoves
  <2>3. fd = n
    BY <1>1, <2>1, <2>2, Zenon
  <2>4. PICK t \in Thread : Waiting(n, m) = {t} /\ OnItsWay(n, m, t)
    BY <2>1, <2>3, Zenon DEF Paired
  <2>5. /\ requests[n][m] = <<thread[n][t].op>> /\ replies[n][m] = <<>>
        /\ Handled(m, n) = {}
    BY ZenonT(60), <2>1, <2>3, <2>4 DEF OnItsWay
  <2>6. /\ handler'[m][n] = s
        /\ \A c \in Node : c # n => handler'[m][c] = handler[m][c]
    <3>1. HandlerTo(m, n, s)
      BY <2>1, Zenon
    <3> QED
      BY <3>1, HandlerPut
  <2>7. s.msg = [from |-> n, op |-> thread[n][t].op] /\ s.msg.from = n
    BY <2>1, <2>3, <2>5, SMTT(30)
  <2>8. Handled(m, n)' = {n}
    <3>1. \A c \in Node : ~(handler[m][c].pc = "reply" /\ handler[m][c].msg.from = n)
      BY <2>5 DEF Handled
    <3>2. handler'[m][n].pc = "reply" /\ handler'[m][n].msg.from = n
      BY <2>1, <2>6, <2>7, Zenon
    <3> QED
      BY SMTT(60), <2>6, <3>1, <3>2 DEF Handled
  <2>9. requests'[n][m] = <<>>
    <3>1. q = Tail(<<thread[n][t].op>>) /\ RequestsTo(n, m, q)
      BY <2>1, <2>3, <2>5, Zenon
    <3>2. q = <<>>
      BY <3>1
    <3> QED
      BY <3>1, <3>2, RequestPut, Zenon
  <2>10. Waiting(n, m)' = {t} /\ thread'[n][t].op = thread[n][t].op
    BY <1>2, <2>4 DEF ThreadsStay
  <2>11. OnItsWay(n, m, t)'
    BY ZenonT(60), <2>2, <2>5, <2>6, <2>7, <2>8, <2>9, <2>10 DEF OnItsWay
  <2> QED
    BY <2>10, <2>11, Zenon DEF Paired
<1>5. CASE reply_message(m, n)
  <2>1. PICK fd \in Node, msg \in Reply, s \in ServiceState, q \in Seq(Reply) :
          /\ fd = sock[m] /\ msg = handler[m][n].msg
          /\ s.pc = "loop" /\ HandlerTo(m, n, s)
          /\ q = Append(replies[fd][m], msg) /\ RepliesTo(fd, m, q)
    BY SMTT(60), <1>5, ReplyMoves
  <2>2. handler[m][n].pc = "reply" /\ requests' = requests
    BY <1>5, ReplyMoves
  <2>3. fd = n /\ n \in Handled(m, n)
    BY <1>1, <2>1, <2>2, Zenon DEF Handled
  <2>4. PICK t \in Thread : Waiting(n, m) = {t} /\ OnItsWay(n, m, t)
    BY <2>3, Zenon DEF Paired
  <2>5. /\ requests[n][m] = <<>> /\ replies[n][m] = <<>>
        /\ Handled(m, n) = {n} /\ msg = [from |-> n, op |-> thread[n][t].op]
    BY <2>1, <2>3, <2>4, Zenon DEF OnItsWay
  <2>6. /\ handler'[m][n] = s
        /\ \A c \in Node : c # n => handler'[m][c] = handler[m][c]
    <3>1. HandlerTo(m, n, s)
      BY <2>1, Zenon
    <3> QED
      BY <3>1, HandlerPut
  <2>7. Handled(m, n)' = {}
    <3>1. \A c \in Node : c # n => ~(handler[m][c].pc = "reply" /\ handler[m][c].msg.from = n)
      BY <2>5, SMTT(30) DEF Handled
    <3> QED
      BY <2>1, <2>6, <3>1, Zenon DEF Handled
  <2>8. replies'[n][m] = <<msg>>
    <3>1. q = Append(<<>>, msg) /\ RepliesTo(n, m, q)
      BY <2>1, <2>3, <2>5, Zenon
    <3>2. q = <<msg>>
      BY SMTT(60), <3>1
    <3> QED
      BY <3>1, <3>2, ReplyPut, Zenon
  <2>9. Waiting(n, m)' = {t} /\ thread'[n][t].op = thread[n][t].op
    BY <1>2, <2>4 DEF ThreadsStay
  <2>10. OnItsWay(n, m, t)'
    BY <2>2, <2>5, <2>7, <2>8, <2>9, Zenon DEF OnItsWay
  <2> QED
    BY <2>9, <2>10, Zenon DEF Paired
<1> QED
  BY <1>1, <1>3, <1>4, <1>5

\* send_message: a fence to m ends the pair's premise, one to another peer
\* leaves the pair alone.
LEMMA FenceElsewhere ==
    ASSUME Types, NEW n \in Node, NEW m \in Node, NEW k \in Node, NEW t \in Thread,
           m \notin fenced'[n], send_message(k, t)
    PROVE  StreamsStay(n, m)
<1>1. PICK p \in Node, q \in Seq(Kind) :
        /\ fenced' = [fenced EXCEPT ![k] = fenced[k] \cup {p}]
        /\ requests' = requests \/ RequestsTo(k, p, q)
  BY FenceMoves, Zenon
<1>2. replies' = replies
  BY FenceMoves, Zenon
<1>3. k # n \/ p # m
  BY <1>1 DEF Types, CallerTypes
<1>4. requests'[n][m] = requests[n][m]
  BY <1>1, <1>3, RequestPut
<1> QED
  BY <1>2, <1>4 DEF StreamsStay

\* A sole client stays paired with its server.
LEMMA PairsStep ==
    ASSUME Types, Held, Opened, Used, Served, Pairs, [Next]_vars
    PROVE  Pairs'
<1> SUFFICES ASSUME NEW n \in Node, NEW m \in Node, SoleClient(n, m)'
             PROVE  Paired(n, m)'
  BY DEF Pairs
<1>1. SoleClient(n, m) /\ Paired(n, m)
  BY SoleClientWas DEF Pairs
<1>2. thread' = thread => ThreadsStay(n, m)
  BY DEF ThreadsStay, Waiting
<1>3. handler' = handler => HandlersStay(n, m)
  BY DEF HandlersStay, Handled
<1>4. requests' = requests /\ replies' = replies => StreamsStay(n, m)
  BY DEF StreamsStay
<1>5. CASE UNCHANGED <<thread, handler, requests, replies>>
  BY SMTT(60), <1>1, <1>2, <1>3, <1>4, <1>5, PairStays
<1>6. ASSUME NEW k \in Node, NEW t \in Thread, Quiet(k, t) PROVE Paired(n, m)'
  <2>1. PICK s \in CallState : s.pc # "wait" /\ ThreadTo(k, t, s)
    BY <1>6, QuietMoves
  <2>2. thread[k][t].pc # "wait"
    BY <1>6, QuietMoves
  <2>3. ThreadsStay(n, m)
    <3>1. k = n => thread[n][t].pc # "wait"
      BY <2>2
    <3> QED
      BY ZenonT(60), <2>1, <3>1, ThreadElsewhere
  <2>4. HandlersStay(n, m)
    BY <1>3, <1>6, CallerKeeps DEF server
  <2>5. StreamsStay(n, m)
    <3>1. CASE send_message(k, t)
      <4>1. m \notin fenced'[n]
        BY DEF SoleClient
      <4> QED
        BY <3>1, <4>1, FenceElsewhere
    <3>2. CASE ~send_message(k, t)
      <4>1. requests' = requests /\ replies' = replies
        BY <1>6, <3>2, Zenon DEF Quiet, CannotAsk, send_request, calibrate_node, remote_call,
           fence
      <4> QED
        BY <1>4, <4>1
    <3> QED
      BY <3>1, <3>2
  <2> QED
    BY SMTT(60), <1>1, <2>3, <2>4, <2>5, PairStays
<1>7. ASSUME NEW k \in Node, NEW t \in Thread, receive_fails(k, t) PROVE Paired(n, m)'
  <2>1. ThreadTo(k, t, Idle)
    BY <1>7, ReturnMoves, Zenon
  <2>2. ~up[thread[k][t].target] /\ requests' = requests /\ replies' = replies
    BY <1>7, Zenon DEF receive_fails
  <2>3. thread[k][t].target # m
    BY <1>1, <2>2 DEF SoleClient
  <2>4. ThreadsStay(n, m)
    BY ZenonT(60), <2>1, <2>3, IdleType, ThreadElsewhere
  <2>5. handler' = handler
    BY <1>7, CallerKeeps DEF server
  <2> QED
    BY SMTT(60), <1>1, <1>3, <1>4, <2>2, <2>4, <2>5, PairStays
<1>8. ASSUME NEW k \in Node, accept_connection(k) PROVE Paired(n, m)'
  <2>1. PICK p \in Node, s \in ServiceState :
          /\ p = Head(backlog[k]) /\ s.pc = "loop"
          /\ HandlerTo(k, p, s)
    BY <1>8, AcceptMoves
  <2>2. handler[k][p].pc = None
    <3>1. p = backlog[k][1] /\ 1 \in DOMAIN backlog[k]
      BY <1>8, <2>1, AcceptMoves
    <3> QED
      BY <3>1, Zenon DEF Opened
  <2>3. HandlersStay(n, m)
    BY <2>1, <2>2, HandlerElsewhere, Zenon DEF None
  <2>4. requests' = requests /\ replies' = replies
    BY <1>8, Zenon DEF accept_connection
  <2>5. thread' = thread
    BY <1>8, ServerKeeps DEF client
  <2> QED
    BY SMTT(60), <1>1, <1>2, <1>4, <2>3, <2>4, <2>5, PairStays
<1>9. ASSUME NEW k \in Node, NEW p \in Node, handle_client(k, p) PROVE Paired(n, m)'
  <2>1. CASE k = m
    BY <1>1, <1>9, <2>1, HandlerPairs
  <2>2. CASE k # m
    <3>1. PICK s \in ServiceState : HandlerTo(k, p, s)
      BY <1>9, HandlerMoves, Zenon
    <3>2. HandlersStay(n, m)
      BY <2>2, <3>1, HandlerElsewhere, Zenon
    <3>3. requests'[n][m] = requests[n][m] /\ replies'[n][m] = replies[n][m]
      <4>1. CASE message_arrives(k, p)
        <5>1. PICK fd \in Node, q \in Seq(Kind) : RequestsTo(fd, k, q)
          BY <4>1, ArrivalMoves, Zenon
        <5>2. replies' = replies
          BY <4>1, ArrivalMoves, Zenon
        <5> QED
          BY <2>2, <5>1, <5>2, RequestPut, SMTT(30)
      <4>2. CASE reply_message(k, p)
        <5>1. PICK fd \in Node, q \in Seq(Reply) : RepliesTo(fd, k, q)
          BY <4>2, ReplyMoves, Zenon
        <5>2. requests' = requests
          BY <4>2, ReplyMoves, Zenon
        <5> QED
          BY <2>2, <5>1, <5>2, ReplyPut
      <4>3. CASE requests' = requests /\ replies' = replies
        BY <4>3
      <4> QED
        BY ZenonT(60), <1>9, <4>1, <4>2, <4>3 DEF handle_client, receive_message,
           peer_closed, reply_fails
    <3>4. thread' = thread
      BY <1>9, ServerKeeps DEF client
    <3> QED
      BY <1>1, <1>2, <3>2, <3>3, <3>4, PairStays, Zenon DEF StreamsStay
  <2> QED
    BY <2>1, <2>2
<1>10. ASSUME NEW k, NEW t, NEW op, NEW a, local_call(k, t, op, a)
       PROVE  UNCHANGED <<thread, handler, requests, replies>>
  BY <1>10, Zenon DEF local_call, server
<1>11. ASSUME NEW k, Crash(k) PROVE UNCHANGED <<thread, handler, requests, replies>>
  BY <1>11, Zenon DEF Crash, server, client
<1>12. CASE UNCHANGED vars
  BY <1>5, <1>12 DEF vars
<1>13. CASE Next
  BY ZenonT(60), <1>1, <1>5, <1>6, <1>7, <1>8, <1>9, <1>10, <1>11, <1>13, Steps,
     StartKeeps, AskPairs, ReplyPairs
<1> QED
  BY <1>12, <1>13

\* The inductive invariant of the pairing.
PairInv == Types /\ Held /\ Opened /\ Used /\ Served /\ Pairs

\* At the start nothing is between any two nodes.
LEMMA PairInit == Init => PairInv
<1> SUFFICES ASSUME Init PROVE PairInv
  OBVIOUS
<1>1. Types
  BY TypesInit
<1>2. /\ \A n \in Node, t \in Thread : thread[n][t].pc # "wait"
      /\ \A m, p \in Node : handler[m][p].pc = None
      /\ \A m \in Node : backlog[m] = <<>> /\ sock[m] = NoSocket
      /\ \A n, m \in Node : requests[n][m] = <<>> /\ replies[n][m] = <<>>
  BY Zenon DEF Init, Idle, NoHandler
<1>3. Held /\ Opened /\ Used
  BY <1>2, SMTT(30) DEF Held, Opened, Used, None
<1>4. \A m \in Node : Accepted(m) = {}
  BY <1>2 DEF Accepted
<1>5. Served
  BY <1>4, Zenon DEF Served
<1>6. \A n, m \in Node : Waiting(n, m) = {} /\ Handled(m, n) = {}
  BY <1>2, Zenon DEF Waiting, Handled, None
<1>7. Pairs
  BY <1>2, <1>6, Zenon DEF Pairs, Paired
<1> QED
  BY <1>1, <1>3, <1>5, <1>7 DEF PairInv

\* The cardinality of the empty set, from its definition: the recursive
\* function that defines it exists, and is 0 there.
LEMMA EmptyCounts == Cardinality({}) = 0
<1> DEFINE F(f, T) == IF T = {} THEN 0 ELSE 1 + f[T \ {CHOOSE y : y \in T}]
           CS == CHOOSE f : f = [T \in SUBSET {} |-> F(f, T)]
           g == [T \in SUBSET {} |-> 0]
<1>1. Cardinality({}) = CS[{}]
  BY DEF Cardinality
<1>2. \A T \in SUBSET {} : F(g, T) = 0
  OBVIOUS
<1>3. g = [T \in SUBSET {} |-> F(g, T)]
  BY <1>2
<1> HIDE DEF g
<1>4. CS = [T \in SUBSET {} |-> F(CS, T)]
  BY ZenonT(60), <1>3
<1> HIDE DEF CS
<1> QED
  BY <1>1, <1>4

\* The cardinality of a singleton, likewise.
LEMMA SingletonCounts ==
    ASSUME NEW x
    PROVE  Cardinality({x}) = 1
<1> DEFINE F(f, T) == IF T = {} THEN 0 ELSE 1 + f[T \ {CHOOSE y : y \in T}]
           CS == CHOOSE f : f = [T \in SUBSET {x} |-> F(f, T)]
           g == [T \in SUBSET {x} |-> IF T = {} THEN 0 ELSE 1]
<1>1. Cardinality({x}) = CS[{x}]
  BY DEF Cardinality
<1>2. {x} \ {CHOOSE y : y \in {x}} = {}
  OBVIOUS
<1>3. \A T \in SUBSET {x} : T = {} \/ T = {x}
  OBVIOUS
<1>4. F(g, {}) = 0 /\ F(g, {x}) = 1
  BY <1>2, SMTT(30)
<1>5. \A T \in SUBSET {x} : F(g, T) = IF T = {} THEN 0 ELSE 1
  BY <1>3, <1>4
<1>6. g = [T \in SUBSET {x} |-> F(g, T)]
  BY <1>5
<1> HIDE DEF g
<1>7. CS = [T \in SUBSET {x} |-> F(CS, T)]
  BY <1>6, Zenon
<1> HIDE DEF CS
<1>8. CS[{}] = 0
  BY <1>7
<1>9. CS[{x}] = 1 + CS[{x} \ {CHOOSE y : y \in {x}}]
  BY <1>7
<1> QED
  BY <1>1, <1>2, <1>8, <1>9

\* The reply that a sole client reads is to the request of the thread that
\* reads it.
LEMMA PairsAreCounted ==
    ASSUME PairInv
    PROVE  SoleClientIsPaired
<1> SUFFICES ASSUME NEW n \in Node, NEW m \in Node, SoleClient(n, m)
             PROVE  /\ InFlight(n, m) = Cardinality(Waiting(n, m))
                    /\ InFlight(n, m) <= 1
                    /\ \A t \in Waiting(n, m), i \in DOMAIN replies[n][m] :
                         replies[n][m][i] = [from |-> n, op |-> thread[n][t].op]
  BY Zenon DEF SoleClientIsPaired, SoleClient
<1>1. Cardinality({}) = 0 /\ \A x : Cardinality({x}) = 1
  BY EmptyCounts, SingletonCounts, Zenon
<1>2. Paired(n, m)
  BY ZenonT(60) DEF PairInv, Pairs
<1>3. CASE /\ Waiting(n, m) = {} /\ Handled(m, n) = {}
           /\ requests[n][m] = <<>> /\ replies[n][m] = <<>>
  <2>1. Len(<<>>) = 0
    OBVIOUS
  <2>2. InFlight(n, m) = 0
    BY <1>1, <1>3, <2>1, SMTT(30) DEF InFlight
  <2>3. DOMAIN replies[n][m] = {}
    BY <1>3, SMTT(30)
  <2> QED
    BY <1>1, <1>3, <2>2, <2>3, SMTT(30)
<1>4. ASSUME NEW t \in Thread, Waiting(n, m) = {t}, OnItsWay(n, m, t)
      PROVE  /\ InFlight(n, m) = 1
             /\ \A i \in DOMAIN replies[n][m] :
                  replies[n][m][i] = [from |-> n, op |-> thread[n][t].op]
  <2> DEFINE op == thread[n][t].op
             msg == [from |-> n, op |-> op]
  <2>1. Len(<<>>) = 0 /\ Len(<<op>>) = 1 /\ Len(<<msg>>) = 1
    OBVIOUS
  <2>2. DOMAIN <<>> = {} /\ \A i \in DOMAIN <<msg>> : <<msg>>[i] = msg
    OBVIOUS
  <2>3. \/ requests[n][m] = <<op>> /\ Handled(m, n) = {} /\ replies[n][m] = <<>>
        \/ requests[n][m] = <<>> /\ Handled(m, n) = {n} /\ replies[n][m] = <<>>
        \/ requests[n][m] = <<>> /\ Handled(m, n) = {} /\ replies[n][m] = <<msg>>
    BY <1>4, Zenon DEF OnItsWay
  <2> HIDE DEF op, msg
  <2>4. InFlight(n, m) = 1
    <3> DEFINE a == Len(requests[n][m])
               b == Cardinality(Handled(m, n))
               c == Len(replies[n][m])
    <3>1. (a = 1 /\ b = 0 /\ c = 0) \/ (a = 0 /\ b = 1 /\ c = 0) \/ (a = 0 /\ b = 0 /\ c = 1)
      BY <1>1, <2>1, <2>3, Zenon
    <3>2. InFlight(n, m) = a + b + c
      BY Zenon DEF InFlight
    <3> HIDE DEF a, b, c
    <3> QED
      BY <3>1, <3>2
  <2>5. \A i \in DOMAIN replies[n][m] : replies[n][m][i] = msg
    BY ZenonT(60), <2>2, <2>3
  <2> QED
    BY <2>4, <2>5, Zenon DEF msg, op
<1>5. ASSUME NEW t \in Thread, Waiting(n, m) = {t}, OnItsWay(n, m, t)
      PROVE  /\ InFlight(n, m) = Cardinality(Waiting(n, m))
             /\ InFlight(n, m) <= 1
             /\ \A u \in Waiting(n, m), i \in DOMAIN replies[n][m] :
                  replies[n][m][i] = [from |-> n, op |-> thread[n][u].op]
  <2>1. Cardinality(Waiting(n, m)) = 1
    BY <1>1, <1>5, Zenon
  <2>2. \A u \in Waiting(n, m) : u = t
    BY <1>5, SMTT(30)
  <2> QED
    BY <1>4, <1>5, <2>1, <2>2, SMTT(30)
<1> QED
  BY <1>2, <1>3, <1>5, Zenon DEF Paired

\* SoleClientIsPaired holds for every number of nodes, guests, peers and
\* addresses: a node that is the only client of a peer, and sent it no fence,
\* never takes the reply to another thread's request for its own.
THEOREM SoleClientsPaired == Spec => []SoleClientIsPaired
<1>1. Init => PairInv
  BY PairInit
<1>2. PairInv /\ [Next]_vars => PairInv'
  BY SMTT(60), TypesStep, HeldStep, OpenedStep, UsedStep, ServedStep, PairsStep DEF PairInv
<1>3. PairInv => SoleClientIsPaired
  BY PairsAreCounted
<1> QED
  BY <1>1, <1>2, <1>3, PTL DEF Spec

-----------------------------------------------------------------------------
(* The searches of the decoder.  The binary search is a recursive function, *)
(* which is shown to exist, to be the only one of its kind, by its smallest *)
(* window on which another would differ, and so to be the answer expected   *)
(* on every window.                                                         *)
WF == INSTANCE WellFoundedInduction

\* A set of numbers that is not empty has a least element.
LEMMA Least ==
    ASSUME NEW T \in SUBSET Nat, T # {}
    PROVE  \E x \in T : \A y \in T : x <= y
<1> DEFINE R == WF!OpToRel(<, Nat)
<1>1. WF!IsWellFoundedOn(R, Nat)
  BY WF!NatLessThanWellFounded, Zenon
<1> HIDE DEF R
<1>2. PICK x \in T : \A y \in T : ~ (<<y, x>> \in R)
  BY <1>1, WF!WFMin, Zenon
<1>3. \A y \in T : ~(y < x)
  BY <1>2, Zenon DEF R, WF!OpToRel
<1> QED
  BY <1>3

\* What the binary search needs of a table: bases and ends ascend, and all
\* ranges that hold the address have one target.
Searchable(t, a) ==
    /\ \A i, j \in DOMAIN t : i < j =>
         /\ t[i].base <= t[j].base
         /\ t[i].base + t[i].size <= t[j].base + t[j].size
    /\ \A i, j \in DOMAIN t : Holds(t[i], a) /\ Holds(t[j], a) => t[i].target = t[j].target

\* What it searches, between lo and hi inclusive.
Windows(t) == (1 .. Len(t) + 1) \X (0 .. Len(t))
\* mid
Middle(w) == w[1] + (w[2] - w[1]) \div 2

\* One step of it.
Probe(t, a, f, w) ==
    IF w[1] > w[2] THEN NoTarget
    ELSE IF a < t[Middle(w)].base THEN f[<<w[1], Middle(w) - 1>>]
    ELSE IF ~Holds(t[Middle(w)], a) THEN f[<<Middle(w) + 1, w[2]>>]
    ELSE t[Middle(w)].target

\* A function that probes every window.
Solves(t, a, f) == \A w \in Windows(t) : f[w] = Probe(t, a, f, w)

\* The ranges of a window that hold the address.
Holders(t, a, w) == {i \in w[1] .. w[2] : Holds(t[i], a)}

\* What it should find there.
Answer(t, a, w) ==
    IF Holders(t, a, w) = {} THEN NoTarget
    ELSE t[CHOOSE i \in Holders(t, a, w) : TRUE].target

\* The recursive function of decode_sorted.
Search(t, a) == CHOOSE f : f = [w \in Windows(t) |-> Probe(t, a, f, w)]

\* decode_sorted is the search of the whole table.
LEMMA Searches ==
    ASSUME NEW t, NEW a
    PROVE  decode_sorted(t, a) = Search(t, a)[<<1, Len(t)>>]
BY DEF decode_sorted, Search, Windows, Probe, Middle

\* The probe is inside the window, and both halves are windows.
LEMMA Halves ==
    ASSUME NEW t \in Seq(AddressRange), NEW w \in Windows(t), w[1] <= w[2]
    PROVE  /\ w[1] \in Int /\ w[2] \in Int /\ Middle(w) \in DOMAIN t
           /\ w[1] <= Middle(w) /\ Middle(w) <= w[2] /\ w[1] .. w[2] \subseteq DOMAIN t
           /\ <<w[1], Middle(w) - 1>> \in Windows(t)
           /\ <<Middle(w) + 1, w[2]>> \in Windows(t)
<1>1. w[1] \in 1 .. Len(t) + 1 /\ w[2] \in 0 .. Len(t) /\ Len(t) \in Nat
  BY DEF Windows
<1> DEFINE lo == w[1]
           hi == w[2]
<1>2. ASSUME NEW x \in Int, NEW y \in Int, x <= y
      PROVE  x <= x + (y - x) \div 2 /\ x + (y - x) \div 2 <= y /\ (y - x) \div 2 \in Int
  BY SMTT(60), <1>2
<1>3. Middle(w) \in Int /\ lo <= Middle(w) /\ Middle(w) <= hi
  BY SMTT(60), <1>1, <1>2 DEF Middle
<1> HIDE DEF lo, hi
<1>4. Middle(w) \in 1 .. Len(t) /\ Middle(w) - 1 \in 0 .. Len(t) /\ Middle(w) + 1 \in 1 .. Len(t) + 1
  BY SMTT(60), <1>1, <1>3 DEF lo, hi
<1>5. DOMAIN t = 1 .. Len(t)
  OBVIOUS
<1>6. w[1] .. w[2] \subseteq DOMAIN t
  BY <1>1, <1>5
<1> QED
  BY SMTT(60), <1>1, <1>3, <1>4, <1>5, <1>6 DEF lo, hi, Windows

\* Any range of the window that holds the address gives the answer.
LEMMA AnyHolder ==
    ASSUME NEW t, NEW a, Searchable(t, a), NEW w, w[1] .. w[2] \subseteq DOMAIN t,
           NEW i \in Holders(t, a, w)
    PROVE  Answer(t, a, w) = t[i].target
<1> DEFINE k == CHOOSE j \in Holders(t, a, w) : TRUE
<1>1. k \in Holders(t, a, w) /\ Answer(t, a, w) = t[k].target
  BY DEF Answer
<1> HIDE DEF k
<1> QED
  BY <1>1, Zenon DEF Holders, Searchable

\* The answer does not change when ranges are left out that do not hold the
\* address.
LEMMA SameAnswer ==
    ASSUME NEW t, NEW a, NEW v, NEW w, Holders(t, a, v) = Holders(t, a, w)
    PROVE  Answer(t, a, v) = Answer(t, a, w)
BY DEF Answer

\* The half that a probe leaves out holds the address nowhere.
LEMMA ProbeIsRight ==
    ASSUME NEW t \in Seq(AddressRange), NEW a \in Int, Searchable(t, a), NEW w \in Windows(t)
    PROVE  Answer(t, a, w) = Probe(t, a, [v \in Windows(t) |-> Answer(t, a, v)], w)
<1> DEFINE m == Middle(w)
           g == [v \in Windows(t) |-> Answer(t, a, v)]
<1>1. CASE w[1] > w[2]
  <2>1. w[1] \in Int /\ w[2] \in Int
    BY DEF Windows
  <2>2. Holders(t, a, w) = {}
    BY <1>1, <2>1 DEF Holders
  <2> QED
    BY SMTT(60), <1>1, <2>2 DEF Answer, Probe
<1>2. CASE w[1] <= w[2]
  <2> DEFINE left == <<w[1], m - 1>>
             right == <<m + 1, w[2]>>
  <2>1. /\ w[1] \in Int /\ w[2] \in Int /\ m \in DOMAIN t /\ m \in Int
        /\ w[1] <= m /\ m <= w[2] /\ w[1] .. w[2] \subseteq DOMAIN t
        /\ left \in Windows(t) /\ right \in Windows(t)
    BY SMTT(60), <1>2, Halves
  <2>2. g[left] = Answer(t, a, left) /\ g[right] = Answer(t, a, right)
    BY <2>1
  <2>3. /\ left[1] = w[1] /\ left[2] = m - 1 /\ right[1] = m + 1 /\ right[2] = w[2]
    OBVIOUS
  <2> HIDE DEF m, g, left, right
  <2>4. \A i \in DOMAIN t : i \in Int /\ t[i].base \in Int /\ t[i].size \in Int
    <3>1. \A i \in DOMAIN t : i \in Int /\ t[i] \in AddressRange
      OBVIOUS
    <3> QED
      BY <3>1 DEF AddressRange
  <2>5. Probe(t, a, g, w) = IF a < t[m].base THEN g[left]
                            ELSE IF ~Holds(t[m], a) THEN g[right] ELSE t[m].target
    BY SMTT(60), <1>2, <2>1 DEF Probe, m, left, right
  <2>6. CASE a < t[m].base
    <3>1. \A i \in w[1] .. w[2] : i >= m => ~Holds(t[i], a)
      <4> SUFFICES ASSUME NEW i \in w[1] .. w[2], i >= m PROVE a < t[i].base
        BY SMTT(60), <2>1, <2>4 DEF Holds
      <4>1. i \in DOMAIN t
        BY SMTT(60), <2>1
      <4>2. t[m].base <= t[i].base
        BY SMTT(60), <2>1, <2>4, <4>1 DEF Searchable
      <4> QED
        BY SMTT(60), <2>1, <2>4, <2>6, <4>1, <4>2
    <3>2. Holders(t, a, left) = Holders(t, a, w)
      BY SMTT(60), <2>1, <2>3, <3>1 DEF Holders
    <3> QED
      BY ZenonT(60), <2>2, <2>5, <2>6, <3>2, SameAnswer DEF g
  <2>7. CASE ~(a < t[m].base) /\ ~Holds(t[m], a)
    <3>1. t[m].base + t[m].size <= a
      BY SMTT(60), <2>1, <2>4, <2>7 DEF Holds
    <3>2. \A i \in w[1] .. w[2] : i <= m => ~Holds(t[i], a)
      <4> SUFFICES ASSUME NEW i \in w[1] .. w[2], i <= m PROVE t[i].base + t[i].size <= a
        BY SMTT(60), <2>1, <2>4 DEF Holds
      <4>1. i \in DOMAIN t
        BY SMTT(60), <2>1
      <4>2. t[i].base + t[i].size <= t[m].base + t[m].size
        BY SMTT(60), <2>1, <2>4, <4>1 DEF Searchable
      <4> QED
        BY SMTT(60), <2>1, <2>4, <3>1, <4>1, <4>2
    <3>3. Holders(t, a, right) = Holders(t, a, w)
      BY SMTT(60), <2>1, <2>3, <3>2 DEF Holders
    <3> QED
      BY ZenonT(60), <2>2, <2>5, <2>7, <3>3, SameAnswer DEF g
  <2>8. CASE Holds(t[m], a)
    <3>1. m \in Holders(t, a, w)
      BY SMTT(60), <2>1, <2>8 DEF Holders
    <3>2. ~(a < t[m].base)
      BY SMTT(60), <2>1, <2>4, <2>8 DEF Holds
    <3> QED
      BY ZenonT(60), <2>1, <2>5, <2>8, <3>1, <3>2, AnyHolder DEF g
  <2> QED
    BY ZenonT(60), <2>6, <2>7, <2>8
<1> QED
  <2>1. w[1] \in Int /\ w[2] \in Int
    BY DEF Windows
  <2> QED
    BY SMTT(60), <1>1, <1>2, <2>1

\* The search has one solution: two functions that both probe their windows
\* agree, by the least window on which they would not.
LEMMA OneSearch ==
    ASSUME NEW t \in Seq(AddressRange), NEW a, NEW f, Solves(t, a, f), NEW g, Solves(t, a, g)
    PROVE  \A w \in Windows(t) : f[w] = g[w]
<1> USE DEF Solves
<1> DEFINE Wrong == {w \in Windows(t) : f[w] # g[w]}
           T == {w[2] - w[1] : w \in Wrong}
<1>1. \A w \in Windows(t) : w[1] \in Int /\ w[2] \in Int
  BY DEF Windows
<1>2. \A w \in Wrong : w[1] <= w[2]
  <2> SUFFICES ASSUME NEW w \in Windows(t), w[1] > w[2] PROVE f[w] = g[w]
    BY <1>1
  <2>1. Probe(t, a, f, w) = NoTarget /\ Probe(t, a, g, w) = NoTarget
    BY Zenon DEF Probe
  <2> QED
    BY ZenonT(60), <2>1
<1>3. T \in SUBSET Nat
  BY <1>1, <1>2
<1>4. ASSUME Wrong # {} PROVE FALSE
  <2>1. T # {}
    BY <1>4, Zenon
  <2> HIDE DEF T
  <2>2. PICK x \in T : \A y \in T : x <= y
    BY SMTT(60), <1>3, <2>1, Least
  <2> USE DEF T
  <2>3. PICK w \in Wrong : x = w[2] - w[1]
    BY ZenonT(60)
  <2> DEFINE m == Middle(w)
             left == <<w[1], m - 1>>
             right == <<m + 1, w[2]>>
  <2>4. /\ w[1] \in Int /\ w[2] \in Int /\ m \in Int /\ w[1] <= m /\ m <= w[2]
        /\ left \in Windows(t) /\ right \in Windows(t)
    BY SMTT(60), <1>1, <1>2, Halves
  <2>5. \A v \in Windows(t) : v[2] - v[1] < x => f[v] = g[v]
    <3> SUFFICES ASSUME NEW v \in Wrong, v[2] - v[1] < x PROVE FALSE
      BY ZenonT(60)
    <3>1. v[2] - v[1] \in T /\ v[2] - v[1] \in Int /\ x \in Int
      BY SMTT(60), <1>1, <2>3
    <3> HIDE DEF T
    <3> QED
      BY SMTT(60), <2>2, <3>1
  <2>6. left[2] - left[1] < x /\ right[2] - right[1] < x
    <3>1. left[1] = w[1] /\ left[2] = m - 1 /\ right[1] = m + 1 /\ right[2] = w[2]
      BY Zenon
    <3> HIDE DEF m, left, right
    <3> QED
      BY SMTT(60), <2>3, <2>4, <3>1
  <2>7. f[left] = g[left] /\ f[right] = g[right]
    BY ZenonT(60), <2>4, <2>5, <2>6
  <2>8. Probe(t, a, f, w) = Probe(t, a, g, w)
    BY <2>7, Zenon DEF Probe
  <2> QED
    BY <2>3, <2>8, Zenon
<1> QED
  BY SMTT(60), <1>4

\* The binary search over a searchable table finds what holds the address.
LEMMA BinarySearch ==
    ASSUME NEW t \in Seq(AddressRange), NEW a \in Int, Searchable(t, a)
    PROVE  decode_sorted(t, a) = Answer(t, a, <<1, Len(t)>>)
<1> DEFINE g == [w \in Windows(t) |-> Answer(t, a, w)]
           f == Search(t, a)
<1>1. \A w \in Windows(t) : g[w] = Probe(t, a, g, w)
  BY ProbeIsRight, Zenon
<1>2. g = [w \in Windows(t) |-> Probe(t, a, g, w)]
  BY <1>1, Zenon
<1> HIDE DEF g
<1>3. f = [w \in Windows(t) |-> Probe(t, a, f, w)]
  BY <1>2, Zenon DEF Search
<1> HIDE DEF f
<1>4. Solves(t, a, f) /\ Solves(t, a, g)
  BY SMTT(60), <1>1, <1>3 DEF Solves
<1>5. \A w \in Windows(t) : f[w] = g[w]
  BY SMTT(60), <1>4, OneSearch
<1>6. <<1, Len(t)>> \in Windows(t)
  BY DEF Windows
<1>7. g[<<1, Len(t)>>] = Answer(t, a, <<1, Len(t)>>)
  BY <1>6, Zenon DEF g
<1> QED
  BY ZenonT(60), <1>5, <1>6, <1>7, Searches DEF f

\* The linear scan finds a range that holds the address, if one does.
LEMMA LinearScan ==
    ASSUME NEW t \in Seq(AddressRange), NEW a
    PROVE  \/ /\ \A i \in DOMAIN t : ~Holds(t[i], a)
              /\ decode_range(t, a) = NoTarget
           \/ \E i \in DOMAIN t : Holds(t[i], a) /\ decode_range(t, a) = t[i].target
<1>1. CASE \A i \in DOMAIN t : ~Holds(t[i], a)
  BY <1>1, Zenon DEF Stops, decode_range
<1>2. CASE \E i \in DOMAIN t : Holds(t[i], a)
  <2> DEFINE T == {i \in DOMAIN t : Holds(t[i], a)}
             k == CHOOSE i \in Stops(t, a) : TRUE
  <2>1. T \in SUBSET Nat /\ T # {}
    BY <1>2
  <2>2. PICK x \in T : \A y \in T : x <= y
    BY <2>1, Least, Zenon
  <2>3. x \in Stops(t, a)
    <3>1. \A j \in 1 .. x - 1 : j \in DOMAIN t /\ j < x
      OBVIOUS
    <3>2. \A j \in 1 .. x - 1 : j \notin T
      BY SMTT(60), <2>1, <2>2, <3>1
    <3> QED
      BY SMTT(60), <3>1, <3>2 DEF Stops
  <2>4. k \in Stops(t, a)
    BY <2>3, Zenon
  <2>5. decode_range(t, a) = t[k].target
    BY <2>3 DEF decode_range
  <2> HIDE DEF k
  <2> QED
    BY <2>4, <2>5, Zenon DEF Stops
<1> QED
  BY <1>1, <1>2, Zenon

\* The orders into which a sort can bring a table of n bases.
Ascending(n, b) ==
    {p \in [1 .. n -> 1 .. n] :
       /\ \A j \in 1 .. n : \E i \in 1 .. n : p[i] = j
       /\ \A i, j \in 1 .. n : i < j => b[p[i]] <= b[p[j]]}

\* One more: its least base goes first, and the others follow in an order of
\* theirs.
LEMMA SortsOneMore ==
    ASSUME NEW n \in Nat \ {0}, NEW b \in [1 .. n -> Nat],
           \A c \in [1 .. n - 1 -> Nat] : Ascending(n - 1, c) # {}
    PROVE  Ascending(n, b) # {}
<1> DEFINE T == {b[i] : i \in 1 .. n}
<1>1. T \in SUBSET Nat /\ b[1] \in T
  OBVIOUS
<1>2. PICK x \in T : \A y \in T : x <= y
  BY <1>1, Least, Zenon
<1>3. PICK k \in 1 .. n : b[k] = x
  BY Zenon
<1>4. \A i \in 1 .. n : b[i] \in Nat /\ b[k] <= b[i]
  BY ZenonT(60), <1>2, <1>3
<1> DEFINE Swap(j) == IF j = k THEN 1 ELSE j
           c == [i \in 1 .. n - 1 |-> b[Swap(i + 1)]]
<1>5. \A i \in 1 .. n - 1 : i + 1 \in 2 .. n /\ Swap(i + 1) \in 1 .. n
  OBVIOUS
<1>6. c \in [1 .. n - 1 -> Nat]
  BY <1>5, Zenon
<1>7. PICK q \in [1 .. n - 1 -> 1 .. n - 1] :
        /\ \A j \in 1 .. n - 1 : \E i \in 1 .. n - 1 : q[i] = j
        /\ \A i, j \in 1 .. n - 1 : i < j => c[q[i]] <= c[q[j]]
  BY <1>6, Zenon DEF Ascending
<1> DEFINE p == [i \in 1 .. n |-> IF i = 1 THEN k ELSE Swap(q[i - 1] + 1)]
<1> HIDE DEF T, Swap, c
<1>8. \A i \in 2 .. n : i - 1 \in 1 .. n - 1 /\ q[i - 1] \in 1 .. n - 1
  <2>1. \A i \in 2 .. n : i - 1 \in 1 .. n - 1
    OBVIOUS
  <2> QED
    BY ZenonT(60), <1>7, <2>1
<1>9. \A i \in 2 .. n : Swap(q[i - 1] + 1) \in 1 .. n /\ b[Swap(q[i - 1] + 1)] = c[q[i - 1]]
  BY <1>5, <1>8, Zenon DEF c
<1>10. p \in [1 .. n -> 1 .. n]
  <2> SUFFICES ASSUME NEW i \in 1 .. n
               PROVE  (IF i = 1 THEN k ELSE Swap(q[i - 1] + 1)) \in 1 .. n
    BY Zenon
  <2>1. i # 1 => i \in 2 .. n
    OBVIOUS
  <2> QED
    BY <1>9, <2>1, Zenon
<1>11. p[1] = k /\ \A i \in 2 .. n : p[i] = Swap(q[i - 1] + 1)
  <2>1. 1 \in 1 .. n /\ \A i \in 2 .. n : i \in 1 .. n /\ i # 1
    OBVIOUS
  <2> QED
    BY <2>1, Zenon
<1>12. ASSUME NEW j \in 1 .. n PROVE \E i \in 1 .. n : p[i] = j
  <2> HIDE DEF p
  <2>1. CASE j = k
    BY SMTT(60), <1>11, <2>1
  <2>2. CASE j # k
    <3> DEFINE h == IF j = 1 THEN k ELSE j
    <3>1. h \in 2 .. n /\ Swap(h) = j
      BY SMTT(60), <2>2 DEF Swap
    <3> HIDE DEF h
    <3>2. PICK i \in 1 .. n - 1 : q[i] = h - 1
      BY SMTT(60), <1>7, <3>1
    <3>3. i + 1 \in 2 .. n /\ (i + 1) - 1 = i
      OBVIOUS
    <3>4. p[i + 1] = Swap(h)
      <4>1. p[i + 1] = Swap(q[i] + 1)
        BY ZenonT(60), <1>11, <3>3
      <4>2. (h - 1) + 1 = h
        BY <3>1
      <4> QED
        BY ZenonT(60), <3>2, <4>1, <4>2
    <3> QED
      <4>1. i + 1 \in 1 .. n /\ p[i + 1] = j
        BY SMTT(60), <3>1, <3>3, <3>4
      <4> QED
        BY <4>1, Zenon
  <2> QED
    BY ZenonT(60), <2>1, <2>2
<1>13. ASSUME NEW i \in 1 .. n, NEW j \in 1 .. n, i < j PROVE b[p[i]] <= b[p[j]]
  <2> HIDE DEF p
  <2>1. CASE i = 1
    BY ZenonT(60), <1>4, <1>10, <1>11, <2>1
  <2>2. CASE i # 1
    <3>1. i \in 2 .. n /\ j \in 2 .. n /\ i - 1 < j - 1
      BY SMTT(60), <1>13, <2>2
    <3>2. c[q[i - 1]] <= c[q[j - 1]]
      BY ZenonT(60), <1>7, <1>8, <3>1
    <3> QED
      BY ZenonT(60), <1>9, <1>11, <3>1, <3>2
  <2> QED
    BY <2>1, <2>2, Zenon
<1> HIDE DEF p
<1> QED
  BY ZenonT(60), <1>10, <1>12, <1>13 DEF Ascending

\* Every table can be sorted.
LEMMA Sorts ==
    ASSUME NEW n \in Nat, NEW b \in [1 .. n -> Nat]
    PROVE  Ascending(n, b) # {}
<1> DEFINE Wrong == {m \in Nat : \E c \in [1 .. m -> Nat] : Ascending(m, c) = {}}
<1>1. ASSUME Wrong # {} PROVE FALSE
  <2>1. PICK m \in Wrong : \A k \in Wrong : m <= k
    BY <1>1, Least, Zenon
  <2>2. PICK c \in [1 .. m -> Nat] : Ascending(m, c) = {}
    OBVIOUS
  <2>3. CASE m = 0
    <3>1. [i \in 1 .. 0 |-> i] \in Ascending(0, c)
      BY DEF Ascending
    <3> QED
      BY <2>2, <2>3, <3>1
  <2>4. CASE m # 0
    <3>1. m \in Nat \ {0} /\ m - 1 \in Nat /\ ~(m <= m - 1)
      BY <2>4
    <3>2. m - 1 \notin Wrong
      BY <2>1, <3>1, Zenon
    <3>3. \A d \in [1 .. m - 1 -> Nat] : Ascending(m - 1, d) # {}
      BY <3>1, <3>2, Zenon
    <3> QED
      BY ZenonT(60), <2>2, <3>1, <3>3, SortsOneMore
  <2> QED
    BY <2>3, <2>4
<1> QED
  BY <1>1

\* Sorting a table of ranges of one size does not change what is found.
LEMMA SortedFindsSame ==
    ASSUME NEW t \in Seq(AddressRange), NEW a \in Int, NEW size,
           \A i \in DOMAIN t : t[i].size = size,
           \A i, j \in DOMAIN t : Holds(t[i], a) /\ Holds(t[j], a) => t[i].target = t[j].target,
           NEW s \in sort_ranges(t)
    PROVE  decode_sorted(s, a) = decode_range(t, a)
<1> DEFINE D == DOMAIN t
<1>1. PICK p \in [D -> D] :
        /\ \A j \in D : \E i \in D : p[i] = j
        /\ \A i, j \in D : i < j => t[p[i]].base <= t[p[j]].base
        /\ s = [i \in D |-> t[p[i]]]
  BY Zenon DEF sort_ranges
<1>2. D = 1 .. Len(t) /\ Len(t) \in Nat /\ \A i \in D : t[i] \in AddressRange /\ p[i] \in D
  OBVIOUS
<1>3. s \in Seq(AddressRange) /\ Len(s) = Len(t) /\ DOMAIN s = D
  BY <1>1, <1>2
<1>4. \A i \in D : s[i] = t[p[i]]
  BY <1>1, Zenon
<1> HIDE DEF D
<1>5. Searchable(s, a)
  <2>1. ASSUME NEW i \in D, NEW j \in D, i < j
        PROVE  s[i].base <= s[j].base /\ s[i].base + s[i].size <= s[j].base + s[j].size
    <3>1. t[p[i]].base <= t[p[j]].base
      BY <1>1, <2>1, Zenon
    <3>2. t[p[i]].size = size /\ t[p[j]].size = size
      BY <1>2, Zenon DEF D
    <3>3. t[p[i]].base \in Int /\ t[p[j]].base \in Int /\ size \in Int
      <4>1. t[p[i]] \in AddressRange /\ t[p[j]] \in AddressRange
        BY ZenonT(60), <1>2
      <4>2. t[p[i]].base \in Int /\ t[p[j]].base \in Int /\ t[p[i]].size \in Int
        BY SMTT(60), <4>1 DEF AddressRange
      <4> QED
        BY <3>2, <4>2, Zenon
    <3>4. t[p[i]].base + size <= t[p[j]].base + size
      BY SMTT(60), <3>1, <3>3
    <3>5. s[i] = t[p[i]] /\ s[j] = t[p[j]]
      BY ZenonT(60), <1>4
    <3> QED
      BY ZenonT(60), <3>1, <3>2, <3>4, <3>5
  <2>2. ASSUME NEW i \in D, NEW j \in D, Holds(s[i], a), Holds(s[j], a)
        PROVE  s[i].target = s[j].target
    BY SMTT(60), <1>2, <1>4, <2>2 DEF D
  <2> QED
    BY ZenonT(60), <1>3, <2>1, <2>2 DEF Searchable
<1> DEFINE all == <<1, Len(s)>>
<1>6. decode_sorted(s, a) = Answer(s, a, all)
  BY <1>3, <1>5, BinarySearch, Zenon
<1>7. all[1] .. all[2] = D
  BY ZenonT(60), <1>2, <1>3
<1> HIDE DEF all
<1>8. CASE /\ \A i \in D : ~Holds(t[i], a)
           /\ decode_range(t, a) = NoTarget
  <2>1. Holders(s, a, all) = {}
    BY ZenonT(60), <1>2, <1>4, <1>7, <1>8 DEF Holders
  <2> QED
    BY ZenonT(60), <1>6, <1>8, <2>1 DEF Answer
<1>9. ASSUME NEW i \in D, Holds(t[i], a), decode_range(t, a) = t[i].target
      PROVE  decode_sorted(s, a) = decode_range(t, a)
  <2>1. PICK j \in D : p[j] = i
    BY <1>1, Zenon
  <2>2. s[j] = t[i]
    BY <1>4, <2>1, Zenon
  <2>3. j \in Holders(s, a, all)
    BY <1>7, <1>9, <2>2, Zenon DEF Holders
  <2>4. all[1] .. all[2] \subseteq DOMAIN s
    BY ZenonT(60), <1>3, <1>7
  <2>5. Answer(s, a, all) = s[j].target
    BY SMTT(60), <1>5, <2>3, <2>4, AnyHolder
  <2> QED
    BY ZenonT(60), <1>6, <1>9, <2>2, <2>5
<1> QED
  BY <1>8, <1>9, LinearScan, Zenon DEF D

\* sort_ranges has an order to leave the table in.
LEMMA SortsTable ==
    ASSUME NEW t \in Seq(AddressRange), \A i \in DOMAIN t : t[i].base \in Nat
    PROVE  sort_ranges(t) # {}
<1> DEFINE b == [i \in 1 .. Len(t) |-> t[i].base]
<1>1. Len(t) \in Nat /\ DOMAIN t = 1 .. Len(t)
  OBVIOUS
<1>2. b \in [1 .. Len(t) -> Nat]
  BY <1>1, Zenon
<1>3. PICK p : p \in Ascending(Len(t), b)
  BY <1>1, <1>2, Sorts, Zenon
<1>4. /\ p \in [DOMAIN t -> DOMAIN t]
      /\ \A j \in DOMAIN t : \E i \in DOMAIN t : p[i] = j
      /\ \A i, j \in DOMAIN t : i < j => t[p[i]].base <= t[p[j]].base
  BY <1>1, <1>3, Zenon DEF Ascending
<1>5. [i \in DOMAIN t |-> t[p[i]]] \in sort_ranges(t)
  BY <1>4, Zenon DEF sort_ranges
<1> QED
  BY <1>5, Zenon

\* The segments of the nodes do not overlap.
LEMMA OneOwner ==
    ASSUME NEW a \in Int, NEW n \in Node, NEW m \in Node, Owns(n, a), Owns(m, a)
    PROVE  n = m
<1>1. capacity \in Nat \ {0} /\ n \in Int /\ m \in Int
  BY SMTT(60), ClusterAssumption DEF Node
<1>2. ASSUME NEW x \in Int, NEW y \in Int, x < y
      PROVE  x * capacity + capacity <= y * capacity
  <2>1. y * capacity = x * capacity + capacity + (y - x - 1) * capacity
    BY <1>1
  <2>2. (y - x - 1) * capacity >= 0
    BY SMTT(60), <1>1, <1>2
  <2>3. x * capacity \in Int /\ y * capacity \in Int /\ (y - x - 1) * capacity \in Int
    BY <1>1
  <2> QED
    BY SMTT(60), <1>1, <2>1, <2>2, <2>3
<1>3. n * capacity \in Int /\ m * capacity \in Int
  BY <1>1
<1> QED
  BY SMTT(60), <1>1, <1>2, <1>3 DEF Owns, Base

\* The tables of the nodes: the ranges of two nodes hold no address in common,
\* so a sorted table names the same node.
LEMMA SearchesAgreeOn ==
    ASSUME Tables
    PROVE  SearchesAgree
<1> SUFFICES ASSUME NEW n \in Node, NEW a \in 0 .. NumNodes * capacity - 1,
                    NEW s \in sort_ranges(ranges[n])
             PROVE  decode_sorted(s, a) = decode_range(ranges[n], a)
  BY Zenon DEF SearchesAgree
<1> DEFINE t == ranges[n]
<1>1. a \in Int
  BY SMTT(60), ClusterAssumption
<1>2. t \in Seq(Segments)
  BY Zenon DEF Tables
<1>3. t \in Seq(AddressRange)
  <2>1. Segments \subseteq AddressRange
    BY Zenon DEF Segments
  <2> QED
    BY SMTT(60), <1>2, <2>1
<1> HIDE DEF t
<1>4. \A i \in DOMAIN t : t[i] \in Segments
  BY <1>2
<1>5. \A i \in DOMAIN t : t[i].size = capacity
  BY <1>4, Zenon DEF Segments, SegmentRange
<1>6. ASSUME NEW i \in DOMAIN t, NEW j \in DOMAIN t, Holds(t[i], a), Holds(t[j], a)
      PROVE  t[i].target = t[j].target
  <2>1. /\ t[i].target \in Node /\ Owns(t[i].target, a)
        /\ t[j].target \in Node /\ Owns(t[j].target, a)
    BY ZenonT(60), <1>4, <1>6 DEF Segments, SegmentRange, Holds, Owns
  <2> QED
    BY ZenonT(60), <1>1, <2>1, OneOwner
<1> QED
  BY ZenonT(60), <1>1, <1>3, <1>5, <1>6, SortedFindsSame DEF t

\* SearchesAgree holds for every number of nodes, capacity and peers, and
\* whatever order std::sort leaves equal bases in: the binary search of
\* decode_range finds the home that the linear scan finds.
THEOREM SortingKeepsRoutes == Spec => []SearchesAgree
<1>1. Init => Tables
  BY TablesInit
<1> QED
  BY <1>1, TablesStep, SearchesAgreeOn, PTL DEF Spec
=============================================================================
