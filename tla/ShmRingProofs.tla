--------------------------- MODULE ShmRingProofs ---------------------------
(***************************************************************************)
(* The ring for every ring size and every number of workers, and whatever  *)
(* the clients do: pipelining, timeouts, and reconnections that            *)
(* reinitialise the ring under a worker's hands.                           *)
(*                                                                         *)
(* TakenOncePerWorker is not inductive by itself: a request must also be   *)
(* in at most one ready entry, the one a worker has copied must be ready   *)
(* nowhere else, and what is ready must not have been taken.               *)
(*                                                                         *)
(* Until two workers meet, the ready entries are those between tail and    *)
(* head.  While the clients are also patient, one exchange at a time goes  *)
(* through five phases, and the ring implements RequestService.            *)
(***************************************************************************)
EXTENDS ShmRing, TLAPS

ReadyUntaken ==
  \A i \in Index : entries[i].request_ready =>
    entries[i].request \in 1..sent /\ taken[entries[i].request] = {}

ReadyOnce ==
  \A i, j \in Index : entries[i].request_ready /\ entries[j].request_ready
    /\ entries[i].request = entries[j].request => i = j

CopiedUntaken ==
  \A w \in Worker : worker[w].pc = "take" =>
    /\ worker[w].request \in 1..sent /\ w \notin taken[worker[w].request]
    /\ \A j \in Index : entries[j].request_ready /\ entries[j].request = worker[w].request
                          => j = worker[w].at

UnsentUntaken == \A r \in 1..MaxRequests : r > sent => taken[r] = {}

RingInv == TypeOK /\ ReadyUntaken /\ ReadyOnce /\ CopiedUntaken /\ UnsentUntaken

(* The ring index arithmetic stays inside the ring. *)
LEMMA WrappedInRing ==
  \A i \in Index : wrapped(i) \in Index
BY RingAssumption DEF wrapped, Index

(* The history variables are Booleans: patience is never regained, a race  *)
(* never forgotten.                                                        *)
LEMMA HabitsStep ==
  ASSUME TypeOK, [Next]_vars
  PROVE  /\ patient' \in BOOLEAN /\ raced' \in BOOLEAN
         /\ patient' => patient
         /\ raced => raced'
<1> DEFINE Goal == /\ patient' \in BOOLEAN /\ raced' \in BOOLEAN
                   /\ patient' => patient
                   /\ raced => raced'
<1>0. patient \in BOOLEAN /\ raced \in BOOLEAN
  BY Zenon DEF TypeOK
<1>1. CASE initialize
  <2>1. patient' = patient /\ (raced' <=> raced \/ \E w \in Worker : worker[w].pc = "take")
        /\ raced' \in BOOLEAN
    BY <1>1, Zenon DEF initialize
  <2> QED
    BY <1>0, <2>1, Zenon
<1>4. CASE disconnect \/ send_request \/ time_out
  <2>1. /\ raced' = raced
        /\ patient' = FALSE \/ patient' = (patient /\ outstanding = <<>>)
    BY <1>4, Zenon DEF disconnect, send_request, time_out
  <2> QED
    BY <1>0, <2>1, Zenon
<1>2. ASSUME NEW w \in Worker, look(w) PROVE Goal
  BY <1>0, <1>2, Zenon DEF look
<1>3. CASE UNCHANGED habits
  BY <1>0, <1>3, Zenon DEF habits
<1> QED
  BY <1>1, <1>2, <1>3, <1>4, Zenon DEF Next, vars, habits, connect, publish_request,
     wait_for_response, wait_for_request, take_request, send_response, store_response

(* The type invariant is preserved by every step: no index leaves the ring *)
(* and no request number the sent ones.                                    *)
LEMMA TypeStep ==
  TypeOK /\ [Next]_vars => TypeOK'
<1> SUFFICES ASSUME TypeOK, [Next]_vars PROVE TypeOK'
  OBVIOUS
<1> DEFINE Control == [pc : {"poll", "look", "take", "respond", "store"}, at : Index, request : Number]
<1>a. 0 \in Index /\ 0 \in Number /\ Polling \in Control
  BY RingAssumption DEF Index, Number, Polling
<1>b. /\ connected \in BOOLEAN /\ head \in Index /\ tail \in Index /\ pending_count \in Int
      /\ entries \in [Index -> Entry] /\ outstanding \in Seq(Number) /\ sent \in Number
      /\ client \in {"off", "claimed", "ready", "sending"}
      /\ worker \in [Worker -> Control] /\ taken \in [1..MaxRequests -> SUBSET Worker]
      /\ got \in [sent : Number, received : Number]
  BY DEF TypeOK
<1> HIDE DEF Control
<1> DEFINE Goal ==
             /\ connected' \in BOOLEAN /\ head' \in Index /\ tail' \in Index /\ pending_count' \in Int
             /\ entries' \in [Index -> Entry] /\ outstanding' \in Seq(Number) /\ sent' \in Number
             /\ client' \in {"off", "claimed", "ready", "sending"}
             /\ worker' \in [Worker -> Control] /\ taken' \in [1..MaxRequests -> SUBSET Worker]
             /\ got' \in [sent : Number, received : Number]
<1> SUFFICES Goal
  BY HabitsStep, Zenon DEF TypeOK, Control
<1>1. CASE connect
  BY ZenonT(60), <1>1, <1>b DEF connect, ring
<1>2. CASE initialize
  <2>1. entries' \in [Index -> Entry]
    BY ZenonT(60), <1>2, <1>b DEF initialize, Entry
  <2>2. head' \in Index /\ tail' \in Index
    BY ZenonT(60), <1>2, <1>a DEF initialize
  <2>3. pending_count' \in Int
    <3>1. pending_count' = 0
      BY <1>2, Zenon DEF initialize
    <3> QED
      BY <3>1
  <2> QED
    BY ZenonT(60), <1>2, <1>b, <2>1, <2>2, <2>3 DEF initialize
<1>3. CASE disconnect
  <2>1. outstanding' \in Seq(Number)
    BY <1>3 DEF disconnect
  <2> QED
    BY ZenonT(60), <1>3, <1>b, <2>1 DEF disconnect, ring
<1>4. CASE send_request
  <2>1. sent + 1 \in Number
    BY SMTT(60), <1>4, <1>b, RingAssumption DEF send_request, Number
  <2> DEFINE e == [entries[head] EXCEPT !.request = sent + 1, !.request_ready = TRUE]
  <2>2. e \in Entry
    <3>1. entries[head] \in Entry
      BY <1>b, Zenon
    <3> QED
      BY ZenonT(60), <2>1, <3>1 DEF Entry
  <2>4. entries' = [entries EXCEPT ![head] = e]
    BY <1>4 DEF send_request
  <2> HIDE DEF e
  <2>3. entries' \in [Index -> Entry]
    BY <1>b, <2>2, <2>4
  <2> QED
    BY <1>4, <1>b, <2>1, <2>3 DEF send_request
<1>5. CASE publish_request
  <2>1. entries' \in [Index -> Entry]
    BY ZenonT(60), <1>5, <1>b DEF publish_request, Entry
  <2> QED
    BY <1>5, <1>b, <2>1, WrappedInRing DEF publish_request
<1>6. ASSUME NEW i \in Index, wait_for_response(i) PROVE Goal
  <2>1. Head(outstanding) \in Number /\ Tail(outstanding) \in Seq(Number)
    BY <1>6, <1>b DEF wait_for_response
  <2>2. entries' \in [Index -> Entry] /\ entries[i].response \in Number
    BY ZenonT(60), <1>6, <1>b DEF wait_for_response, Entry
  <2> QED
    BY <1>6, <1>b, <2>1, <2>2 DEF wait_for_response
<1>7. CASE time_out
  <2>1. outstanding' \in Seq(Number)
    BY <1>7, <1>b DEF time_out
  <2> QED
    BY ZenonT(60), <1>7, <1>b, <2>1 DEF time_out, ring
<1>8. ASSUME NEW w \in Worker, wait_for_request(w) PROVE Goal
  <2>1. worker' \in [Worker -> Control]
    BY <1>8, <1>a, <1>b DEF wait_for_request, Control
  <2> QED
    BY <1>8, <1>b, <2>1 DEF wait_for_request, ring
<1>9. ASSUME NEW w \in Worker, take_request(w) PROVE Goal
  <2> DEFINE c == [worker[w] EXCEPT !.pc = "respond", !.at = 0]
  <2>0. c \in Control /\ worker' = [worker EXCEPT ![w] = c]
    BY ZenonT(60), <1>9, <1>a, <1>b DEF take_request, Control
  <2> HIDE DEF c
  <2>1. worker' \in [Worker -> Control] /\ worker[w].at \in Index
    BY <1>b, <2>0 DEF Control
  <2>2. entries' \in [Index -> Entry]
    BY ZenonT(60), <1>9, <1>b, <2>1 DEF take_request, Consumed, Entry
  <2>3. tail' \in Index
    BY <1>9, <2>1, WrappedInRing DEF take_request, Consumed
  <2>4. taken' \in [1..MaxRequests -> SUBSET Worker]
    <3> DEFINE q == worker[w].request
    <3>1. taken' = [taken EXCEPT ![q] = taken[q] \cup {w}] /\ taken \in [1..MaxRequests -> SUBSET Worker]
      BY <1>9, <1>b, Zenon DEF take_request
    <3> HIDE DEF q
    <3>2. CASE q \in 1..MaxRequests
      BY <3>1, <3>2
    <3>3. CASE q \notin 1..MaxRequests
      BY ZenonT(60), <3>1, <3>3
    <3> QED
      BY <3>2, <3>3
  <2>5. pending_count' \in Int
    BY <1>9, <1>b DEF take_request
  <2> QED
    BY <1>9, <1>b, <2>1, <2>2, <2>3, <2>4, <2>5 DEF take_request
<1>10. ASSUME NEW w \in Worker, send_response(w) PROVE Goal
  <2>1. worker' \in [Worker -> Control]
    <3>1. CASE \E i \in Index : worker' = [worker EXCEPT ![w] = [@ EXCEPT !.pc = "store", !.at = i]]
      <4>1. PICK i \in Index : worker' = [worker EXCEPT ![w] = [worker[w] EXCEPT !.pc = "store", !.at = i]]
        BY <3>1, Zenon
      <4> DEFINE c == [worker[w] EXCEPT !.pc = "store", !.at = i]
      <4>2. c \in Control
        BY ZenonT(60), <1>b DEF Control
      <4>3. worker' = [worker EXCEPT ![w] = c]
        BY <4>1
      <4> HIDE DEF c
      <4> QED
        BY <1>b, <4>2, <4>3
    <3>2. CASE worker' = [worker EXCEPT ![w] = Polling]
      BY <3>2, <1>a, <1>b
    <3> QED
      BY ZenonT(60), <1>10, <3>1, <3>2 DEF send_response
  <2> QED
    BY ZenonT(60), <1>10, <1>b, <2>1 DEF send_response, ring
<1>11. ASSUME NEW w \in Worker, store_response(w) PROVE Goal
  <2>1. worker' \in [Worker -> Control] /\ worker[w].at \in Index /\ worker[w].request \in Number
    BY <1>11, <1>a, <1>b DEF store_response, Control
  <2> DEFINE f == entries[worker[w].at]
             r == worker[w].request
             e == [f EXCEPT !.response = r, !.response_ready = TRUE]
  <2>3. e \in Entry
    <3>1. f \in Entry /\ r \in Number
      BY <1>b, <2>1, Zenon
    <3> HIDE DEF f, r
    <3> QED
      BY ZenonT(60), <3>1 DEF Entry
  <2>4. entries' = [entries EXCEPT ![worker[w].at] = e]
    BY <1>11 DEF store_response, Stored
  <2> HIDE DEF e
  <2>2. entries' \in [Index -> Entry]
    BY <1>b, <2>1, <2>3, <2>4
  <2> QED
    BY <1>11, <1>b, <2>1, <2>2 DEF store_response
<1>12. CASE UNCHANGED vars
  BY <1>12, <1>b DEF vars
<1>13. ASSUME NEW w \in Worker, look(w) PROVE Goal
  <2> DEFINE i == worker[w].at
  <2>1. i \in Index
    BY <1>b DEF Control
  <2>2. \/ worker' = [worker EXCEPT ![w] = [pc |-> "take", at |-> i, request |-> entries[i].request]]
        \/ worker' = [worker EXCEPT ![w] = Polling]
    BY <1>13, Zenon DEF look
  <2> HIDE DEF i
  <2>3. [pc |-> "take", at |-> i, request |-> entries[i].request] \in Control
    BY <1>b, <2>1 DEF Control, Entry
  <2>4. worker' \in [Worker -> Control]
    BY SMTT(60), <1>a, <1>b, <2>2, <2>3
  <2> QED
    BY <1>13, <1>b, <2>4 DEF look, ring
<1> QED
  BY <1>1, <1>2, <1>3, <1>4, <1>5, <1>6, <1>7, <1>8, <1>9, <1>10, <1>11, <1>12, <1>13,
     Zenon DEF Next

(* Each step of a worker or of the client keeps every request in at most   *)
(* one ready entry, and untaken until a worker that copied it takes it.    *)
LEMMA RingStep ==
  ASSUME RingInv, [Next]_vars
  PROVE  RingInv'
<1>0. TypeOK' /\ TypeOK
  BY TypeStep DEF RingInv
<1> USE RingAssumption DEF RingInv, ReadyUntaken, ReadyOnce, CopiedUntaken, UnsentUntaken
<1>1. CASE connect
  BY SMTT(60), <1>0, <1>1 DEF connect, ring
<1>2. CASE initialize
  <2>0. /\ entries \in [Index -> Entry]
        /\ entries' = [i \in Index |-> [entries[i] EXCEPT !.request_ready = FALSE,
                                                          !.response_ready = FALSE]]
    BY <1>0, <1>2, Zenon DEF initialize, TypeOK
  <2>1. ASSUME NEW i \in Index PROVE ~entries'[i].request_ready
    <3>1. entries[i] \in Entry /\ entries'[i] = [entries[i] EXCEPT !.request_ready = FALSE,
                                                                   !.response_ready = FALSE]
      BY ZenonT(60), <2>0
    <3> QED
      BY SMTT(60), <3>1 DEF Entry
  <2> QED
    BY ZenonT(60), <1>0, <1>2, <2>1 DEF initialize
<1>3. CASE disconnect
  BY ZenonT(60), <1>0, <1>3 DEF disconnect, ring
<1>4. CASE send_request
  <2>1. sent \in Nat /\ sent' = sent + 1 /\ sent + 1 \in 1..MaxRequests /\ head \in Index
    BY <1>4, <1>0 DEF send_request, TypeOK, Number
  <2>2. /\ entries'[head].request_ready /\ entries'[head].request = sent + 1
        /\ \A i \in Index \ {head} : entries'[i] = entries[i]
    BY <1>4, <1>0, <2>1 DEF send_request, TypeOK, Entry
  <2>3. UNCHANGED <<worker, taken>>
    BY <1>4 DEF send_request
  <2>4. ReadyUntaken'
    BY <2>1, <2>2, <2>3
  <2>5. ReadyOnce'
    BY <2>1, <2>2, <2>3
  <2>6. CopiedUntaken'
    BY <2>1, <2>2, <2>3
  <2>7. UnsentUntaken'
    BY <2>1, <2>3
  <2> QED
    BY <1>0, <2>4, <2>5, <2>6, <2>7, Zenon
<1>5. CASE publish_request
  <2>1. \A i \in Index : /\ entries'[i].request_ready = entries[i].request_ready
                         /\ entries'[i].request = entries[i].request
    BY <1>5, <1>0 DEF publish_request, TypeOK, Entry
  <2> QED
    BY <1>0, <1>5, <2>1 DEF publish_request
<1>6. ASSUME NEW k \in Index, wait_for_response(k) PROVE RingInv'
  <2>1. \A i \in Index : /\ entries'[i].request_ready = entries[i].request_ready
                         /\ entries'[i].request = entries[i].request
    BY <1>6, <1>0 DEF wait_for_response, TypeOK, Entry
  <2>2. UNCHANGED <<sent, worker, taken>>
    BY <1>6, Zenon DEF wait_for_response
  <2> QED
    BY <1>0, <2>1, <2>2
<1>7. CASE time_out
  BY <1>0, <1>7, Zenon DEF time_out, ring
<1>8. ASSUME NEW v \in Worker, wait_for_request(v) PROVE RingInv'
  <2>1. /\ UNCHANGED <<entries, sent, taken>> /\ worker'[v].pc # "take"
        /\ \A w \in Worker \ {v} : worker'[w] = worker[w]
    BY ZenonT(60), <1>8, <1>0 DEF wait_for_request, ring, TypeOK
  <2> QED
    BY <1>0, <2>1
<1>13. ASSUME NEW v \in Worker, look(v) PROVE RingInv'
  <2> DEFINE a == worker[v].at
  <2>1. UNCHANGED <<entries, sent, taken>> /\ \A w \in Worker \ {v} : worker'[w] = worker[w]
    BY ZenonT(60), <1>13, <1>0 DEF look, ring, TypeOK
  <2>2. \/ worker'[v].pc # "take"
        \/ /\ worker'[v].request = entries[a].request /\ worker'[v].at = a
           /\ a \in Index /\ entries[a].request_ready
    BY <1>13, <1>0 DEF look, TypeOK, Polling
  <2> HIDE DEF a
  <2> QED
    BY <1>0, <2>1, <2>2
<1>9. ASSUME NEW v \in Worker, take_request(v) PROVE RingInv'
  <2> DEFINE r == worker[v].request
             a == worker[v].at
  <2>1. /\ a \in Index /\ r \in 1..sent /\ r \in 1..MaxRequests
        /\ \A j \in Index : entries[j].request_ready /\ entries[j].request = r => j = a
    BY SMTT(60), <1>9, <1>0 DEF take_request, TypeOK, Number
  <2>2. /\ ~entries'[a].request_ready
        /\ \A i \in Index \ {a} : entries'[i] = entries[i]
    BY <1>9, <1>0, <2>1 DEF take_request, Consumed, TypeOK, Entry
  <2>3. taken'[r] = taken[r] \cup {v} /\ \A q \in 1..MaxRequests : q # r => taken'[q] = taken[q]
    BY ZenonT(60), <1>9, <1>0, <2>1 DEF take_request, TypeOK
  <2>4. sent' = sent /\ sent \in 0..MaxRequests
    BY <1>9, <1>0 DEF take_request, TypeOK, Number
  <2>9. worker'[v].pc # "take" /\ \A w \in Worker \ {v} : worker'[w] = worker[w]
    <3> DEFINE c == [worker[v] EXCEPT !.pc = "respond", !.at = 0]
    <3>1. worker' = [worker EXCEPT ![v] = c]
      BY <1>9, Zenon DEF take_request
    <3>2. c.pc = "respond" /\ DOMAIN worker = Worker
      BY <1>0 DEF TypeOK
    <3> HIDE DEF c
    <3> QED
      BY <3>1, <3>2
  <2> HIDE DEF r, a
  <2>5. ReadyUntaken'
    BY <2>1, <2>2, <2>3, <2>4
  <2>6. ReadyOnce'
    BY <2>2
  <2>7. CopiedUntaken'
    <3> SUFFICES ASSUME NEW w \in Worker, worker'[w].pc = "take"
                 PROVE  /\ worker'[w].request \in 1..sent /\ w \notin taken'[worker'[w].request]
                        /\ \A j \in Index : entries'[j].request_ready
                                              /\ entries'[j].request = worker'[w].request
                                              => j = worker'[w].at
      BY <2>4
    <3>1. w # v /\ worker'[w] = worker[w]
      BY <2>9
    <3>2. worker[w].request \in 1..MaxRequests
      BY <2>4, <3>1
    <3> QED
      BY <2>2, <2>3, <3>1, <3>2
  <2>8. UnsentUntaken'
    BY <2>1, <2>3, <2>4
  <2> QED
    BY <1>0, <2>5, <2>6, <2>7, <2>8, Zenon
<1>10. ASSUME NEW v \in Worker, send_response(v) PROVE RingInv'
  <2>1. UNCHANGED <<entries, sent, taken>> /\ \A w \in Worker \ {v} : worker'[w] = worker[w]
    BY ZenonT(60), <1>10, <1>0 DEF send_response, ring, TypeOK
  <2>2. worker \in [Worker -> [pc : {"poll", "look", "take", "respond", "store"},
                              at : Index, request : Number]]
    BY SMTT(60), <1>0 DEF TypeOK
  <2>3. \/ \E i \in Index : worker' = [worker EXCEPT ![v] = [@ EXCEPT !.pc = "store", !.at = i]]
        \/ worker' = [worker EXCEPT ![v] = Polling]
    BY ZenonT(60), <1>10 DEF send_response
  <2>4. worker'[v].pc # "take"
    <3>1. CASE worker' = [worker EXCEPT ![v] = Polling]
      BY <2>2, <3>1 DEF Polling
    <3>2. ASSUME NEW i \in Index,
                 worker' = [worker EXCEPT ![v] = [@ EXCEPT !.pc = "store", !.at = i]]
          PROVE  worker'[v].pc # "take"
      <4>1. worker'[v] = [worker[v] EXCEPT !.pc = "store", !.at = i]
        BY <2>2, <3>2
      <4>2. worker'[v].pc = "store"
        BY <2>2, <4>1
      <4> QED
        BY <4>2
    <3> QED
      BY ZenonT(60), <2>3, <3>1, <3>2
  <2> QED
    BY SMTT(60), <1>0, <2>1, <2>4
<1>11. ASSUME NEW v \in Worker, store_response(v) PROVE RingInv'
  <2>1. /\ UNCHANGED <<sent, taken>> /\ worker'[v].pc # "take"
        /\ \A w \in Worker \ {v} : worker'[w] = worker[w]
    BY ZenonT(60), <1>11, <1>0 DEF store_response, TypeOK, Polling
  <2>2. \A i \in Index : /\ entries'[i].request_ready = entries[i].request_ready
                         /\ entries'[i].request = entries[i].request
    BY <1>11, <1>0 DEF store_response, Stored, TypeOK, Entry
  <2> QED
    BY <1>0, <2>1, <2>2
<1>12. CASE UNCHANGED vars
  BY <1>0, <1>12, Zenon DEF vars
<1> QED
  BY <1>1, <1>2, <1>3, <1>4, <1>5, <1>6, <1>7, <1>8, <1>9, <1>10, <1>11, <1>12, <1>13,
     Zenon DEF Next

(* The ring starts empty, with nothing taken. *)
LEMMA RingStart ==
  Init => RingInv
<1> SUFFICES ASSUME Init PROVE RingInv
  OBVIOUS
<1>1. 0 \in Index /\ 0 \in Number
  BY RingAssumption DEF Index, Number
<1>2. entries \in [Index -> Entry] /\ \A i \in Index : ~entries[i].request_ready
  BY <1>1 DEF Init, Entry, FreshEntry
<1>3. outstanding \in Seq(Number) /\ pending_count \in Int
  BY DEF Init
<1>4. taken \in [1..MaxRequests -> SUBSET Worker] /\ \A q \in 1..MaxRequests : taken[q] = {}
  BY DEF Init
<1>5. /\ worker \in [Worker -> [pc : {"poll", "look", "take", "respond", "store"},
                                at : Index, request : Number]]
      /\ \A w \in Worker : worker[w].pc # "take"
  BY <1>1 DEF Init, Polling
<1>6. TypeOK
  BY ZenonT(60), <1>1, <1>2, <1>3, <1>4, <1>5 DEF Init, TypeOK
<1> QED
  BY <1>2, <1>4, <1>5, <1>6 DEF RingInv, ReadyUntaken, ReadyOnce, CopiedUntaken,
     UnsentUntaken

(* Whatever the workers and the client do, every index stays in the ring   *)
(* and every entry holds a request that was sent.                          *)
THEOREM RingTypes ==
  Spec => []TypeOK
<1>1. Init => TypeOK
  BY RingStart DEF RingInv
<1>2. TypeOK /\ [Next]_vars => TypeOK'
  BY TypeStep
<1> QED
  BY <1>1, <1>2, PTL DEF Spec

(* However many workers read the ring, none of them takes a request twice. *)
THEOREM RingTakesOncePerWorker ==
  Spec => []TakenOncePerWorker
<1>1. Init => RingInv
  BY RingStart
<1>2. RingInv /\ [Next]_vars => RingInv'
  BY RingStep
<1>3. RingInv => TakenOncePerWorker
  BY Zenon DEF RingInv, CopiedUntaken, TakenOncePerWorker
<1> QED
  BY <1>1, <1>2, <1>3, PTL DEF Spec

-----------------------------------------------------------------------------
(* Responses come from taken requests, for any number of workers.  A       *)
(* request is followed through its places: a ready entry, a worker's copy, *)
(* a worker that answers, a ready response.                                *)
Request(r) == r \in 1..MaxRequests

Taken(r) == r \in 1..MaxRequests /\ taken[r] # {}

ReadyIsRequest == \A i \in Index : entries[i].request_ready => Request(entries[i].request)

ResponseIsTaken == \A i \in Index : entries[i].response_ready => Taken(entries[i].response)

WorkerIsSound ==
  \A w \in Worker : /\ worker[w].pc = "take" => Request(worker[w].request)
                    /\ worker[w].pc \in {"respond", "store"} => Taken(worker[w].request)

ReceivedIsTaken == got.sent > 0 => Taken(got.received)

TakenInv == /\ TypeOK /\ ReadyIsRequest /\ ResponseIsTaken /\ WorkerIsSound
            /\ ReceivedIsTaken

(* A request that was taken stays taken. *)
LEMMA TakenStays ==
  ASSUME TypeOK, [Next]_vars, NEW r, Taken(r)
  PROVE  Taken(r)'
<1>1. taken \in [1..MaxRequests -> SUBSET Worker]
  BY Zenon DEF TypeOK
<1>2. CASE taken' = taken
  BY <1>2, Zenon DEF Taken
<1>3. ASSUME NEW w \in Worker, take_request(w) PROVE Taken(r)'
  <2>1. taken' = [taken EXCEPT ![worker[w].request] = taken[worker[w].request] \cup {w}]
    BY <1>3, Zenon DEF take_request
  <2> QED
    BY <1>1, <2>1 DEF Taken
<1> QED
  BY <1>2, <1>3, Zenon
     DEF Next, vars, connect, initialize, disconnect, send_request, publish_request,
         wait_for_response, time_out, wait_for_request, look, send_response, store_response

(* A step that changes no entry, worker or response keeps the invariant.   *)
LEMMA TakenQuiet ==
  ASSUME TakenInv, [Next]_vars
  PROVE  /\ (\A i \in Index : /\ entries'[i].request_ready =>
                                   entries[i].request_ready /\ entries'[i].request = entries[i].request
                              /\ entries'[i].response_ready =>
                                   entries[i].response_ready /\ entries'[i].response = entries[i].response)
            => ReadyIsRequest' /\ ResponseIsTaken'
         /\ entries' = entries => ReadyIsRequest' /\ ResponseIsTaken'
         /\ worker' = worker => WorkerIsSound'
         /\ got' = got => ReceivedIsTaken'
<1>1. \A r : Taken(r) => Taken(r)'
  BY TakenStays DEF TakenInv
<1>2. \A r : Request(r)' <=> Request(r)
  BY Zenon DEF Request
<1>3. ReadyIsRequest /\ ResponseIsTaken /\ WorkerIsSound /\ ReceivedIsTaken
  BY Zenon DEF TakenInv
<1>5. ASSUME \A i \in Index :
               /\ entries'[i].request_ready =>
                    entries[i].request_ready /\ entries'[i].request = entries[i].request
               /\ entries'[i].response_ready =>
                    entries[i].response_ready /\ entries'[i].response = entries[i].response
      PROVE  ReadyIsRequest' /\ ResponseIsTaken'
  <2>1. ReadyIsRequest'
    BY <1>3, <1>5 DEF ReadyIsRequest, Request
  <2>2. ResponseIsTaken'
    BY <1>1, <1>3, <1>5, Zenon DEF ResponseIsTaken
  <2> QED
    BY <2>1, <2>2
<1>6. ASSUME worker' = worker PROVE WorkerIsSound'
  BY <1>1, <1>2, <1>3, <1>6, Zenon DEF WorkerIsSound
<1>7. ASSUME got' = got PROVE ReceivedIsTaken'
  BY <1>1, <1>3, <1>7, Zenon DEF ReceivedIsTaken
<1>8. ASSUME entries' = entries PROVE ReadyIsRequest' /\ ResponseIsTaken'
  BY <1>5, <1>8
<1> QED
  BY <1>5, <1>6, <1>7, <1>8, Zenon

(* A worker that moves to a sound state leaves all workers sound.          *)
LEMMA TakenWorker ==
  ASSUME TakenInv, [Next]_vars, NEW v \in Worker, NEW c, worker' = [worker EXCEPT ![v] = c],
         c.pc = "take" => Request(c.request),
         c.pc \in {"respond", "store"} => c.request \in 1..MaxRequests /\ taken'[c.request] # {}
  PROVE  WorkerIsSound'
<1>1. \A r : Taken(r) => Taken(r)'
  BY TakenStays DEF TakenInv
<1>2. worker'[v] = c /\ \A w \in Worker \ {v} : worker'[w] = worker[w]
  BY DEF TakenInv, TypeOK
<1>3. WorkerIsSound
  BY Zenon DEF TakenInv
<1>4. ASSUME NEW w \in Worker
      PROVE  (/\ worker[w].pc = "take" => Request(worker[w].request)
              /\ worker[w].pc \in {"respond", "store"} => Taken(worker[w].request))'
  <2>1. CASE w = v
    BY <1>2, <2>1 DEF Taken, Request
  <2>2. CASE w # v
    <3>1. worker'[w] = worker[w]
      BY <1>2, <2>2
    <3>2. /\ worker[w].pc = "take" => Request(worker[w].request)
          /\ worker[w].pc \in {"respond", "store"} => Taken(worker[w].request)
      BY <1>3, Zenon DEF WorkerIsSound
    <3>3. Taken(worker[w].request) => worker[w].request \in 1..MaxRequests /\ taken'[worker[w].request] # {}
      BY <1>1 DEF Taken
    <3> QED
      BY <3>1, <3>2, <3>3 DEF Taken, Request
  <2> QED
    BY <2>1, <2>2
<1> QED
  BY <1>4, Zenon DEF WorkerIsSound, Request

(* Every step follows the requests from place to place.                    *)
LEMMA TakenStep ==
  ASSUME TakenInv, [Next]_vars
  PROVE  TakenInv'
<1>0. TypeOK' /\ TypeOK
  BY TypeStep DEF TakenInv
<1>t. /\ entries \in [Index -> Entry] /\ head \in Index /\ sent \in 0..MaxRequests
      /\ worker \in [Worker -> [pc : {"poll", "look", "take", "respond", "store"},
                                at : Index, request : Number]]
      /\ taken \in [1..MaxRequests -> SUBSET Worker]
  BY SMTT(60), <1>0 DEF TypeOK, Number
<1>i. ReadyIsRequest /\ ResponseIsTaken /\ WorkerIsSound
  BY Zenon DEF TakenInv
<1> SUFFICES ReadyIsRequest' /\ ResponseIsTaken' /\ WorkerIsSound' /\ ReceivedIsTaken'
  BY <1>0, Zenon DEF TakenInv
<1> DEFINE Goal == ReadyIsRequest' /\ ResponseIsTaken' /\ WorkerIsSound' /\ ReceivedIsTaken'
           Kept == \A i \in Index :
             /\ entries'[i].request_ready =>
                  entries[i].request_ready /\ entries'[i].request = entries[i].request
             /\ entries'[i].response_ready =>
                  entries[i].response_ready /\ entries'[i].response = entries[i].response
<1>k. /\ Kept => ReadyIsRequest' /\ ResponseIsTaken'
      /\ entries' = entries => ReadyIsRequest' /\ ResponseIsTaken'
      /\ worker' = worker => WorkerIsSound'
      /\ got' = got => ReceivedIsTaken'
  BY TakenQuiet, Zenon
<1>1. CASE connect \/ disconnect \/ time_out \/ UNCHANGED vars
  BY <1>1, <1>k, Zenon DEF connect, disconnect, time_out, vars, ring
<1>2. CASE initialize
  <2>1. /\ entries' = [i \in Index |-> [entries[i] EXCEPT !.request_ready = FALSE,
                                                          !.response_ready = FALSE]]
        /\ UNCHANGED <<worker, got>>
    BY <1>2, Zenon DEF initialize
  <2>2. Kept
    <3> SUFFICES ASSUME NEW i \in Index
                 PROVE  ~entries'[i].request_ready /\ ~entries'[i].response_ready
      OBVIOUS
    <3>1. entries[i] \in Entry /\ entries'[i] = [entries[i] EXCEPT !.request_ready = FALSE,
                                                                   !.response_ready = FALSE]
      BY <1>t, <2>1, Zenon
    <3> QED
      BY <3>1 DEF Entry
  <2> QED
    BY <1>k, <2>1, <2>2, Zenon
<1>3. CASE send_request
  <2>1. /\ entries' = [entries EXCEPT ![head] =
                         [entries[head] EXCEPT !.request = sent + 1, !.request_ready = TRUE]]
        /\ sent < MaxRequests /\ UNCHANGED <<worker, got, taken>>
    BY <1>3, Zenon DEF send_request
  <2>2. /\ entries'[head].request = sent + 1
        /\ entries'[head].response_ready = entries[head].response_ready
        /\ entries'[head].response = entries[head].response
        /\ \A i \in Index \ {head} : entries'[i] = entries[i]
    BY <1>t, <2>1 DEF Entry
  <2>3. sent + 1 \in 1..MaxRequests
    BY <1>t, <2>1, RingAssumption
  <2>4. ReadyIsRequest'
    BY <1>i, <2>2, <2>3 DEF ReadyIsRequest, Request
  <2>5. ResponseIsTaken'
    BY <1>i, <2>1, <2>2 DEF ResponseIsTaken, Taken
  <2> QED
    BY <1>k, <2>1, <2>4, <2>5, Zenon
<1>4. CASE publish_request
  <2>1. entries' = [entries EXCEPT ![head].response_ready = FALSE] /\ UNCHANGED <<worker, got>>
    BY <1>4, Zenon DEF publish_request
  <2>2. Kept
    BY <1>t, <2>1 DEF Entry
  <2> QED
    BY <1>k, <2>1, <2>2, Zenon
<1>5. ASSUME NEW k \in Index, wait_for_response(k) PROVE Goal
  <2>1. /\ entries' = [entries EXCEPT ![k].response_ready = FALSE] /\ UNCHANGED <<worker, taken>>
        /\ got'.received = entries[k].response /\ entries[k].response_ready
    BY <1>5 DEF wait_for_response, FirstResponse
  <2>2. Kept
    BY <1>t, <2>1 DEF Entry
  <2>3. ReceivedIsTaken'
    BY <1>i, <2>1 DEF ResponseIsTaken, ReceivedIsTaken, Taken
  <2> QED
    BY <1>k, <2>1, <2>2, <2>3, Zenon
<1>6. ASSUME NEW v \in Worker, wait_for_request(v) PROVE Goal
  <2> DEFINE c == [pc |-> "look", at |-> tail, request |-> 0]
  <2>1. worker' = [worker EXCEPT ![v] = c] /\ UNCHANGED <<entries, got>>
    BY <1>6, Zenon DEF wait_for_request, ring
  <2>2. c.pc = "look"
    OBVIOUS
  <2> HIDE DEF c
  <2>3. WorkerIsSound'
    BY <2>1, <2>2, TakenWorker, Zenon
  <2> QED
    BY <1>k, <2>1, <2>3, Zenon
<1>7. ASSUME NEW v \in Worker, look(v) PROVE Goal
  <2> DEFINE a == worker[v].at
             c == [pc |-> "take", at |-> a, request |-> entries[a].request]
  <2>1. /\ \/ worker' = [worker EXCEPT ![v] = c] /\ entries[a].request_ready
           \/ worker' = [worker EXCEPT ![v] = Polling]
        /\ UNCHANGED <<entries, got>>
    BY <1>7, Zenon DEF look, ring
  <2>2. c.pc = "take" /\ c.request = entries[a].request /\ Polling.pc = "poll" /\ a \in Index
    BY <1>t DEF Polling
  <2>3. entries[a].request_ready => Request(c.request)
    BY <1>i, <2>2 DEF ReadyIsRequest
  <2> HIDE DEF c, a
  <2>4. WorkerIsSound'
    BY <2>1, <2>2, <2>3, TakenWorker
  <2> QED
    BY <1>k, <2>1, <2>4, Zenon
<1>8. ASSUME NEW v \in Worker, take_request(v) PROVE Goal
  <2> DEFINE a == worker[v].at
             r == worker[v].request
             c == [worker[v] EXCEPT !.pc = "respond", !.at = 0]
  <2>1. /\ worker' = [worker EXCEPT ![v] = c] /\ got' = got /\ a \in Index
        /\ entries' = [entries EXCEPT ![a].request_ready = FALSE]
        /\ taken' = [taken EXCEPT ![r] = taken[r] \cup {v}]
        /\ Request(r)
    BY <1>8, <1>t, <1>i DEF take_request, Consumed, WorkerIsSound
  <2>2. c.pc = "respond" /\ c.request = r
    BY <1>t
  <2> HIDE DEF a, r, c
  <2>3. Kept
    BY <1>t, <2>1 DEF Entry
  <2>4. r \in 1..MaxRequests /\ taken'[r] # {}
    BY <1>t, <2>1 DEF Request
  <2>5. WorkerIsSound'
    BY <2>1, <2>2, <2>4, TakenWorker, Zenon
  <2> QED
    BY <1>k, <2>1, <2>3, <2>5, Zenon
<1>9. ASSUME NEW v \in Worker, send_response(v) PROVE Goal
  <2>1. /\ \/ \E i \in Index : worker' = [worker EXCEPT ![v] = [worker[v] EXCEPT !.pc = "store", !.at = i]]
           \/ worker' = [worker EXCEPT ![v] = Polling]
        /\ worker[v].pc = "respond" /\ UNCHANGED <<entries, got, taken>>
    BY <1>9, Zenon DEF send_response, ring
  <2>2. CASE worker' = [worker EXCEPT ![v] = Polling]
    <3>1. Polling.pc = "poll"
      BY DEF Polling
    <3>2. WorkerIsSound'
      BY <2>2, <3>1, TakenWorker, Zenon
    <3> QED
      BY <1>k, <2>1, <3>2, Zenon
  <2>3. ASSUME NEW i \in Index,
               worker' = [worker EXCEPT ![v] = [worker[v] EXCEPT !.pc = "store", !.at = i]]
        PROVE  Goal
    <3> DEFINE c == [worker[v] EXCEPT !.pc = "store", !.at = i]
    <3>1. c.pc = "store" /\ c.request = worker[v].request /\ worker' = [worker EXCEPT ![v] = c]
      BY <1>t, <2>3
    <3> HIDE DEF c
    <3>2. c.request \in 1..MaxRequests /\ taken'[c.request] # {}
      BY <1>i, <2>1, <3>1, Zenon DEF WorkerIsSound, Taken
    <3>3. WorkerIsSound'
      BY <3>1, <3>2, TakenWorker, Zenon
    <3> QED
      BY <1>k, <2>1, <3>3, Zenon
  <2> QED
    BY <2>1, <2>2, <2>3, Zenon
<1>10. ASSUME NEW v \in Worker, store_response(v) PROVE Goal
  <2> DEFINE a == worker[v].at
             r == worker[v].request
  <2>1. /\ worker' = [worker EXCEPT ![v] = Polling] /\ UNCHANGED <<taken, got>>
        /\ entries' = [entries EXCEPT ![a] = [entries[a] EXCEPT !.response = r, !.response_ready = TRUE]]
        /\ worker[v].pc = "store"
    BY <1>10, Zenon DEF store_response, Stored
  <2>2. a \in Index /\ Taken(r)
    BY <1>t, <1>i, <2>1 DEF WorkerIsSound
  <2>3. Polling.pc = "poll"
    BY DEF Polling
  <2>4. WorkerIsSound'
    BY <2>1, <2>3, TakenWorker, Zenon
  <2> HIDE DEF a, r
  <2>5. /\ entries'[a].response = r
        /\ entries'[a].request_ready = entries[a].request_ready
        /\ entries'[a].request = entries[a].request
        /\ \A i \in Index \ {a} : entries'[i] = entries[i]
    BY <1>t, <2>1, <2>2 DEF Entry
  <2>6. ReadyIsRequest'
    BY <1>i, <2>5 DEF ReadyIsRequest, Request
  <2>7. ResponseIsTaken'
    BY <1>i, <2>1, <2>2, <2>5 DEF ResponseIsTaken, Taken
  <2> QED
    BY <1>k, <2>1, <2>4, <2>6, <2>7, Zenon
<1> HIDE DEF Kept
<1> QED
  BY <1>1, <1>2, <1>3, <1>4, <1>5, <1>6, <1>7, <1>8, <1>9, <1>10, Zenon DEF Next

(* Nothing is taken, answered or received at the start.                    *)
LEMMA TakenStart ==
  Init => TakenInv
<1> SUFFICES ASSUME Init PROVE TakenInv
  OBVIOUS
<1>1. TypeOK
  BY RingStart DEF RingInv
<1> QED
  BY <1>1 DEF Init, TakenInv, ReadyIsRequest, ResponseIsTaken, WorkerIsSound, ReceivedIsTaken,
     FreshEntry, Polling

(* With any number of workers, a response that a client receives is the    *)
(* response to a request that a worker took from the ring.                 *)
THEOREM RingResponsesTaken ==
  Spec => []ReceivedWasTaken
<1>1. Init => TakenInv
  BY TakenStart
<1>2. TakenInv /\ [Next]_vars => TakenInv'
  BY TakenStep
<1>3. TakenInv => ReceivedWasTaken
  BY RingAssumption DEF TakenInv, ReceivedIsTaken, ReceivedWasTaken, Taken
<1> QED
  BY <1>1, <1>2, <1>3, PTL DEF Spec

-----------------------------------------------------------------------------
(* Occupancy.  Until two workers meet, the ready entries are those from    *)
(* tail to head, plus the one a client is sending, and one worker at most  *)
(* has copied a request, the one at tail.                                  *)
Gap(i, t) == (i + RING_SIZE - t) % RING_SIZE

ReadyWindow ==
  \A i \in Index : entries[i].request_ready <=>
    Gap(i, tail) < pending_count \/ (client = "sending" /\ i = head)

Taking(w) == worker[w].pc = "take"

OneTaker ==
  /\ \A w \in Worker : Taking(w) => worker[w].at = tail /\ head # tail
  /\ \A v, w \in Worker : Taking(v) /\ Taking(w) => v = w

Occupancy ==
  /\ pending_count = Gap(head, tail) /\ ReadyWindow /\ OneTaker
  /\ client = "sending" => wrapped(head) # tail

OccupancyInv == TypeOK /\ (~raced => Occupancy)

(* What the remainders of the ring arithmetic are. *)
LEMMA RingArithmetic ==
  ASSUME NEW i \in Index, NEW k \in Index
  PROVE  /\ wrapped(i) = IF i + 1 = RING_SIZE THEN 0 ELSE i + 1
         /\ Gap(i, k) = IF i >= k THEN i - k ELSE i + RING_SIZE - k
<1>1. i \in Int /\ k \in Int /\ RING_SIZE \in Int /\ 0 <= i /\ i < RING_SIZE
      /\ 0 <= k /\ k < RING_SIZE /\ RING_SIZE > 1
  BY RingAssumption DEF Index
<1>2. \A x \in Int : 0 <= x /\ x < RING_SIZE => x % RING_SIZE = x
  BY <1>1
<1>3. \A x \in Int : RING_SIZE <= x /\ x < 2 * RING_SIZE => x % RING_SIZE = x - RING_SIZE
  BY <1>1
<1> QED
  BY SMTT(60), <1>1, <1>2, <1>3 DEF wrapped, Gap

(* Advancing an index by one moves the gaps by one, except at the wrap.    *)
LEMMA GapArithmetic ==
  ASSUME NEW i \in Index, NEW h \in Index, NEW t \in Index
  PROVE  /\ Gap(i, t) \in 0..(RING_SIZE - 1) /\ Gap(t, t) = 0
         /\ Gap(i, t) = Gap(h, t) => i = h
         /\ wrapped(h) # t => Gap(wrapped(h), t) = Gap(h, t) + 1
         /\ i # t => Gap(i, t) > 0 /\ Gap(i, wrapped(t)) = Gap(i, t) - 1
         /\ Gap(t, wrapped(t)) = RING_SIZE - 1
         /\ wrapped(h) = wrapped(t) => h = t
<1> DEFINE u == wrapped(t)
           k == wrapped(h)
<1>1. u \in Index /\ k \in Index
  BY WrappedInRing
<1>2. /\ u = IF t + 1 = RING_SIZE THEN 0 ELSE t + 1
      /\ k = IF h + 1 = RING_SIZE THEN 0 ELSE h + 1
  BY RingArithmetic
<1>3. /\ Gap(i, t) = IF i >= t THEN i - t ELSE i + RING_SIZE - t
      /\ Gap(h, t) = IF h >= t THEN h - t ELSE h + RING_SIZE - t
      /\ Gap(t, t) = IF t >= t THEN t - t ELSE t + RING_SIZE - t
  BY RingArithmetic, Zenon
<1> HIDE DEF u, k
<1>4. /\ Gap(k, t) = IF k >= t THEN k - t ELSE k + RING_SIZE - t
      /\ Gap(i, u) = IF i >= u THEN i - u ELSE i + RING_SIZE - u
      /\ Gap(t, u) = IF t >= u THEN t - u ELSE t + RING_SIZE - u
  BY <1>1, RingArithmetic, Zenon
<1>5. /\ RING_SIZE \in Int /\ RING_SIZE > 1
      /\ i \in 0..(RING_SIZE - 1) /\ h \in 0..(RING_SIZE - 1) /\ t \in 0..(RING_SIZE - 1)
  BY RingAssumption DEF Index
<1>6. Gap(i, t) \in 0..(RING_SIZE - 1) /\ Gap(t, t) = 0 /\ (Gap(i, t) = Gap(h, t) => i = h)
  BY <1>3, <1>5
<1>7. k # t => Gap(k, t) = Gap(h, t) + 1
  BY <1>2, <1>3, <1>4, <1>5
<1>8. i # t => Gap(i, t) > 0 /\ Gap(i, u) = Gap(i, t) - 1
  BY <1>2, <1>3, <1>4, <1>5
<1>9. Gap(t, u) = RING_SIZE - 1 /\ (k = u => h = t)
  BY <1>2, <1>4, <1>5
<1> QED
  BY <1>6, <1>7, <1>8, <1>9, Zenon DEF u, k

(* One worker moves. *)
LEMMA WorkerPut ==
  ASSUME TypeOK, NEW v \in Worker, NEW c, worker' = [worker EXCEPT ![v] = c]
  PROVE  worker'[v] = c /\ \A w \in Worker \ {v} : worker'[w] = worker[w]
BY DEF TypeOK

(* What a record that leaves or enters "take" is.                          *)
LEMMA ControlFields ==
  ASSUME NEW c \in [pc : {"poll", "look", "take", "respond", "store"}, at : Index, request : Number],
         NEW i, NEW r
  PROVE  /\ [c EXCEPT !.pc = "respond", !.at = 0].pc = "respond"
         /\ [c EXCEPT !.pc = "respond", !.at = 0].request = c.request
         /\ [c EXCEPT !.pc = "store", !.at = i].pc = "store"
         /\ [c EXCEPT !.pc = "store", !.at = i].request = c.request
         /\ Polling.pc = "poll"
BY DEF Polling

(* The steps that touch neither the indices, the count nor a request.      *)
Calm ==
  /\ UNCHANGED <<head, tail, pending_count>>
  /\ \A i \in Index : entries'[i].request_ready = entries[i].request_ready
  /\ client' = "sending" <=> client = "sending"
  /\ \A w \in Worker : Taking(w)' => Taking(w) /\ worker'[w] = worker[w]

(* Connecting, leaving, waiting, giving up and responding are calm steps.  *)
LEMMA CalmSteps ==
  ASSUME TypeOK,
         \/ connect \/ disconnect \/ time_out \/ UNCHANGED vars
         \/ \E i \in Index : wait_for_response(i)
         \/ \E w \in Worker : \/ wait_for_request(w) \/ send_response(w) \/ store_response(w)
  PROVE  Calm
<1>0. entries \in [Index -> Entry] /\ worker \in [Worker ->
        [pc : {"poll", "look", "take", "respond", "store"}, at : Index, request : Number]]
  BY Zenon DEF TypeOK
<1>1. CASE connect \/ disconnect \/ time_out \/ UNCHANGED vars
  <2>1. UNCHANGED <<head, tail, pending_count, entries, worker>>
        /\ (client' = "sending" <=> client = "sending")
    BY <1>1 DEF connect, disconnect, time_out, vars, ring
  <2> QED
    BY <2>1, Zenon DEF Calm, Taking
<1>2. ASSUME NEW i \in Index, wait_for_response(i) PROVE Calm
  <2>1. entries' = [entries EXCEPT ![i].response_ready = FALSE]
        /\ UNCHANGED <<head, tail, pending_count, client, worker>>
    BY <1>2, Zenon DEF wait_for_response
  <2>2. \A j \in Index : entries'[j].request_ready = entries[j].request_ready
    BY <1>0, <2>1 DEF Entry
  <2> QED
    BY <2>1, <2>2, Zenon DEF Calm, Taking
<1>a. ASSUME NEW v \in Worker, NEW c, worker' = [worker EXCEPT ![v] = c], c.pc # "take"
      PROVE  \A w \in Worker : Taking(w)' => Taking(w) /\ worker'[w] = worker[w]
  BY <1>a, WorkerPut DEF Taking
<1>3. ASSUME NEW v \in Worker, wait_for_request(v) \/ send_response(v) PROVE Calm
  <2>1. UNCHANGED <<head, tail, pending_count, entries, client>>
    BY <1>3, Zenon DEF wait_for_request, send_response, ring
  <2> DEFINE Kept == \A w \in Worker : Taking(w)' => Taking(w) /\ worker'[w] = worker[w]
  <2>2. CASE wait_for_request(v)
    <3> DEFINE c == [pc |-> "look", at |-> tail, request |-> 0]
    <3>1. worker' = [worker EXCEPT ![v] = c] /\ c.pc # "take"
      BY <2>2 DEF wait_for_request
    <3> HIDE DEF c
    <3>2. Kept
      BY <1>a, <3>1, Zenon
    <3> QED
      BY <2>1, <3>2, Zenon DEF Calm
  <2>3. CASE worker' = [worker EXCEPT ![v] = Polling]
    <3>1. Polling.pc # "take"
      BY DEF Polling
    <3>2. Kept
      BY <1>a, <2>3, <3>1, Zenon
    <3> QED
      BY <2>1, <3>2, Zenon DEF Calm
  <2>4. ASSUME NEW i \in Index,
               worker' = [worker EXCEPT ![v] = [worker[v] EXCEPT !.pc = "store", !.at = i]]
        PROVE  Calm
    <3> DEFINE c == [worker[v] EXCEPT !.pc = "store", !.at = i]
    <3>1. c.pc = "store" /\ worker' = [worker EXCEPT ![v] = c]
      BY <1>0, <2>4, ControlFields
    <3> HIDE DEF c
    <3>2. Kept
      BY <1>a, <3>1
    <3> QED
      BY <2>1, <3>2, Zenon DEF Calm
  <2> QED
    BY <1>3, <2>2, <2>3, <2>4, Zenon DEF send_response
<1>4. ASSUME NEW v \in Worker, store_response(v) PROVE Calm
  <2> DEFINE a == worker[v].at
  <2>1. /\ UNCHANGED <<head, tail, pending_count, client>> /\ worker' = [worker EXCEPT ![v] = Polling]
        /\ entries' = [entries EXCEPT ![a] =
             [entries[a] EXCEPT !.response = worker[v].request, !.response_ready = TRUE]]
    BY <1>4, Zenon DEF store_response, Stored
  <2>2. a \in Index /\ Polling.pc # "take"
    BY <1>0 DEF Polling
  <2> HIDE DEF a
  <2>3. \A j \in Index : entries'[j].request_ready = entries[j].request_ready
    BY <1>0, <2>1, <2>2 DEF Entry
  <2>4. \A w \in Worker : Taking(w)' => Taking(w) /\ worker'[w] = worker[w]
    BY <1>a, <2>1, <2>2, Zenon
  <2> QED
    BY <2>1, <2>3, <2>4, Zenon DEF Calm
<1> QED
  BY <1>1, <1>2, <1>3, <1>4, Zenon

(* A calm step keeps the occupancy of the ring.                            *)
LEMMA CalmOccupancy ==
  ASSUME Occupancy, Calm
  PROVE  Occupancy'
<1>1. UNCHANGED <<head, tail, pending_count>> /\ (client' = "sending" <=> client = "sending")
  BY Zenon DEF Calm
<1>2. ReadyWindow'
  BY <1>1 DEF Occupancy, ReadyWindow, Calm
<1>3. OneTaker'
  BY <1>1, Zenon DEF Occupancy, OneTaker, Calm, Taking
<1>4. (pending_count = Gap(head, tail))' /\ (client = "sending" => wrapped(head) # tail)'
  BY <1>1, Zenon DEF Occupancy, Gap, wrapped
<1> QED
  BY <1>2, <1>3, <1>4, Zenon DEF Occupancy

(* Every step keeps the window, until a worker meets another.              *)
LEMMA OccupancyStep ==
  ASSUME OccupancyInv, [Next]_vars, ~raced'
  PROVE  Occupancy'
<1>0. TypeOK /\ TypeOK' /\ Occupancy
  BY TypeStep, HabitsStep, Zenon DEF OccupancyInv
<1>t. /\ head \in Index /\ tail \in Index /\ entries \in [Index -> Entry]
      /\ RING_SIZE \in Int /\ RING_SIZE > 1
      /\ worker \in [Worker -> [pc : {"poll", "look", "take", "respond", "store"},
                                at : Index, request : Number]]
  BY <1>0, RingAssumption DEF TypeOK
<1>o. /\ pending_count = Gap(head, tail) /\ ReadyWindow /\ OneTaker
      /\ client = "sending" => wrapped(head) # tail
  BY <1>0, Zenon DEF Occupancy
<1>1. CASE \/ connect \/ disconnect \/ time_out \/ UNCHANGED vars
           \/ \E i \in Index : wait_for_response(i)
           \/ \E w \in Worker : \/ wait_for_request(w) \/ send_response(w) \/ store_response(w)
  BY <1>0, <1>1, CalmSteps, CalmOccupancy, Zenon
<1>2. CASE initialize
  <2>1. /\ head' = 0 /\ tail' = 0 /\ pending_count' = 0 /\ client' = "ready" /\ worker' = worker
        /\ entries' = [i \in Index |-> [entries[i] EXCEPT !.request_ready = FALSE,
                                                          !.response_ready = FALSE]]
        /\ \A w \in Worker : worker[w].pc # "take"
    BY <1>2, Zenon DEF initialize
  <2>2. ASSUME NEW i \in Index PROVE ~entries'[i].request_ready
    <3>1. entries[i] \in Entry /\ entries'[i] = [entries[i] EXCEPT !.request_ready = FALSE,
                                                                   !.response_ready = FALSE]
      BY <1>t, <2>1, Zenon
    <3> QED
      BY <3>1 DEF Entry
  <2>3. 0 \in Index /\ \A i \in Index : Gap(i, 0) \in Nat /\ Gap(0, 0) = 0
    BY <1>t, GapArithmetic DEF Index
  <2>4. ReadyWindow'
    <3>1. \A i \in Index : ~(Gap(i, 0) < 0)
      BY <2>3
    <3>2. tail' = 0 /\ pending_count' = 0 /\ client' # "sending"
      BY <2>1
    <3> QED
      BY <2>2, <3>1, <3>2, Zenon DEF ReadyWindow, Gap
  <2>5. OneTaker'
    BY <2>1, Zenon DEF OneTaker, Taking
  <2>6. (pending_count = Gap(head, tail))'
    BY <2>1, <2>3, Zenon DEF Gap
  <2> QED
    BY <2>1, <2>4, <2>5, <2>6 DEF Occupancy
<1>3. CASE send_request
  <2>1. /\ wrapped(head) # tail /\ client = "ready" /\ client' = "sending"
        /\ UNCHANGED <<head, tail, pending_count, worker>>
        /\ entries' = [entries EXCEPT ![head] =
             [entries[head] EXCEPT !.request = sent + 1, !.request_ready = TRUE]]
    BY <1>3, Zenon DEF send_request, IsFull
  <2>2. entries'[head].request_ready /\ \A i \in Index \ {head} : entries'[i] = entries[i]
    BY <1>t, <2>1 DEF Entry
  <2>3. ReadyWindow'
    BY <1>o, <1>t, <2>1, <2>2 DEF ReadyWindow, Gap
  <2>4. OneTaker'
    BY <1>o, <2>1, Zenon DEF OneTaker, Taking
  <2>5. (pending_count = Gap(head, tail))' /\ (wrapped(head) # tail)'
    BY <1>o, <2>1, Zenon DEF Gap, wrapped
  <2> QED
    BY <2>3, <2>4, <2>5, Zenon DEF Occupancy
<1>4. CASE publish_request
  <2>1. /\ client = "sending" /\ client' = "ready" /\ head' = wrapped(head)
        /\ pending_count' = pending_count + 1 /\ UNCHANGED <<tail, worker>>
        /\ entries' = [entries EXCEPT ![head].response_ready = FALSE]
    BY <1>4, Zenon DEF publish_request
  <2>2. \A i \in Index : entries'[i].request_ready = entries[i].request_ready
    BY <1>t, <2>1 DEF Entry
  <2>3. wrapped(head) # tail
    BY <1>o, <2>1
  <2>4. /\ Gap(wrapped(head), tail) = Gap(head, tail) + 1 /\ Gap(head, tail) \in Int
        /\ \A i \in Index : Gap(i, tail) \in Int /\ (Gap(i, tail) = Gap(head, tail) => i = head)
    BY <1>t, <2>3, GapArithmetic
  <2>5. ReadyWindow'
    <3>1. ASSUME NEW i \in Index
          PROVE  entries'[i].request_ready <=> Gap(i, tail) < pending_count + 1
      BY <1>o, <2>1, <2>2, <2>4 DEF ReadyWindow
    <3>2. tail' = tail /\ pending_count' = pending_count + 1 /\ client' # "sending"
      BY <2>1
    <3> QED
      BY <3>1, <3>2, Zenon DEF ReadyWindow, Gap
  <2>6. OneTaker'
    BY <1>o, <2>1, <2>3, Zenon DEF OneTaker, Taking
  <2>7. (pending_count = Gap(head, tail))'
    <3>1. head' = wrapped(head) /\ tail' = tail /\ pending_count' = Gap(wrapped(head), tail)
      BY <1>o, <2>1, <2>4
    <3> QED
      BY <3>1, Zenon DEF Gap
  <2> QED
    BY <2>1, <2>5, <2>6, <2>7 DEF Occupancy
<1>5. ASSUME NEW v \in Worker, look(v) PROVE Occupancy'
  <2> DEFINE a == worker[v].at
             c == [pc |-> "take", at |-> a, request |-> entries[a].request]
  <2>1. /\ UNCHANGED <<head, tail, pending_count, entries, client>>
        /\ \/ worker' = [worker EXCEPT ![v] = Polling]
           \/ /\ worker' = [worker EXCEPT ![v] = c] /\ a # head
              /\ ~Meets(v)
    BY <1>5, Zenon DEF look, ring
  <2>2. ReadyWindow' /\ (pending_count = Gap(head, tail))' /\ (client = "sending" => wrapped(head) # tail)'
    BY <1>o, <2>1, Zenon DEF ReadyWindow, Gap, wrapped
  <2>3. CASE worker' = [worker EXCEPT ![v] = Polling]
    <3>1. Polling.pc # "take"
      BY DEF Polling
    <3>2. \A w \in Worker : Taking(w)' => Taking(w) /\ worker'[w] = worker[w]
      BY <1>0, <2>3, <3>1, WorkerPut DEF Taking
    <3>3. OneTaker'
      BY <1>o, <2>1, <3>2, Zenon DEF OneTaker, Taking
    <3> QED
      BY <2>2, <3>3, Zenon DEF Occupancy
  <2>4. CASE worker' = [worker EXCEPT ![v] = c] /\ a # head /\ ~Meets(v)
    <3>1. a = tail /\ \A w \in Worker : ~Taking(w)
      BY <2>4, Zenon DEF Meets, Taking
    <3>2. c.at = a
      OBVIOUS
    <3> HIDE DEF c, a
    <3>3. worker'[v].at = a /\ \A w \in Worker : Taking(w)' => w = v
      BY <1>0, <2>4, <3>1, <3>2, WorkerPut DEF Taking
    <3>4. OneTaker'
      BY <2>1, <2>4, <3>1, <3>3, Zenon DEF OneTaker
    <3> QED
      BY <2>2, <3>4, Zenon DEF Occupancy
  <2> QED
    BY <2>1, <2>3, <2>4
<1>6. ASSUME NEW v \in Worker, take_request(v) PROVE Occupancy'
  <2> DEFINE c == [worker[v] EXCEPT !.pc = "respond", !.at = 0]
  <2>1. /\ Taking(v) /\ worker[v].at = tail /\ head # tail
        /\ \A w \in Worker : Taking(w) => w = v
    BY <1>o, <1>6, Zenon DEF take_request, OneTaker, Taking
  <2>2. /\ entries' = [entries EXCEPT ![tail].request_ready = FALSE] /\ tail' = wrapped(tail)
        /\ pending_count' = pending_count - 1 /\ UNCHANGED <<head, client>>
        /\ worker' = [worker EXCEPT ![v] = c]
    BY <1>6, <2>1, Zenon DEF take_request, Consumed
  <2>3. c.pc = "respond"
    BY <1>t, ControlFields
  <2> HIDE DEF c
  <2>4. \A w \in Worker : ~Taking(w)'
    BY <1>0, <2>1, <2>2, <2>3, WorkerPut DEF Taking
  <2>5. ~entries'[tail].request_ready /\ \A i \in Index \ {tail} : entries'[i] = entries[i]
    BY <1>t, <2>2 DEF Entry
  <2>6. /\ Gap(head, wrapped(tail)) = Gap(head, tail) - 1 /\ Gap(head, tail) \in 1..(RING_SIZE - 1)
        /\ Gap(tail, wrapped(tail)) = RING_SIZE - 1
        /\ \A i \in Index \ {tail} : Gap(i, wrapped(tail)) = Gap(i, tail) - 1 /\ Gap(i, tail) \in Int
        /\ wrapped(head) # wrapped(tail)
    BY <1>t, <2>1, GapArithmetic
  <2>7. ASSUME NEW i \in Index
        PROVE  entries'[i].request_ready <=>
                 Gap(i, wrapped(tail)) < pending_count - 1 \/ (client = "sending" /\ i = head)
    <3>1. CASE i = tail
      BY <1>o, <1>t, <2>1, <2>5, <2>6, <3>1
    <3>2. CASE i # tail
      BY <1>o, <1>t, <2>5, <2>6, <3>2 DEF ReadyWindow
    <3> QED
      BY <3>1, <3>2
  <2>8. ReadyWindow'
    BY <2>2, <2>7, Zenon DEF ReadyWindow, Gap
  <2>9. OneTaker'
    BY <2>4, Zenon DEF OneTaker
  <2>10. (pending_count = Gap(head, tail))'
    <3>1. head' = head /\ tail' = wrapped(tail) /\ pending_count' = Gap(head, wrapped(tail))
      BY <1>o, <2>2, <2>6
    <3> QED
      BY <3>1, Zenon DEF Gap
  <2>11. (wrapped(head) # tail)'
    BY <2>2, <2>6, Zenon DEF wrapped
  <2> QED
    BY <2>8, <2>9, <2>10, <2>11, Zenon DEF Occupancy
<1> QED
  BY <1>1, <1>2, <1>3, <1>4, <1>5, <1>6, Zenon DEF Next

(* With any number of workers and any client, pending_count is the number  *)
(* of requests between tail and head, until two workers meet at a request. *)
THEOREM RingCounts ==
  Spec => []PendingIsOccupancy
<1>1. Init => OccupancyInv
  <2> SUFFICES ASSUME Init PROVE OccupancyInv
    OBVIOUS
  <2>1. TypeOK
    BY RingStart DEF RingInv
  <2>2. /\ head = 0 /\ tail = 0 /\ pending_count = 0 /\ client = "off"
        /\ \A i \in Index : ~entries[i].request_ready
        /\ \A w \in Worker : worker[w].pc # "take"
    BY DEF Init, FreshEntry, Polling
  <2>3. 0 \in Index /\ \A i \in Index : Gap(i, 0) \in Nat /\ Gap(0, 0) = 0
    BY RingAssumption, GapArithmetic DEF Index
  <2>4. ReadyWindow /\ OneTaker
    BY <2>2, <2>3 DEF ReadyWindow, OneTaker, Taking
  <2> QED
    BY <2>1, <2>2, <2>3, <2>4 DEF OccupancyInv, Occupancy
<1>2. OccupancyInv /\ [Next]_vars => OccupancyInv'
  BY OccupancyStep, TypeStep, Zenon DEF OccupancyInv
<1>3. OccupancyInv => PendingIsOccupancy
  BY Zenon DEF OccupancyInv, Occupancy, ReadyWindow, Gap, PendingIsOccupancy
<1> QED
  BY <1>1, <1>2, <1>3, PTL DEF Spec

-----------------------------------------------------------------------------
(* Phases.  While the ring is orderly, the exchange is in one of five      *)
(* phases, which fix every ready flag, the two indices and what the        *)
(* workers do: at most one is past the test of request_ready.              *)
NoRequest == \A i \in Index : ~entries[i].request_ready

NoResponse == \A i \in Index : ~entries[i].response_ready

OneRequest(k) ==
  /\ entries[k].request = sent
  /\ \A i \in Index : entries[i].request_ready <=> i = k

Drained == head = tail /\ NoRequest

Searches(w) == worker[w].pc \in {"poll", "look"}

Searching == \A w \in Worker : Searches(w)

Copied(w) == worker[w].pc = "take" /\ worker[w].at = tail /\ worker[w].request = sent

Responds(w) == worker[w].pc \in {"respond", "store"} /\ worker[w].request = sent

OneCopied ==
  /\ \A w \in Worker : Searches(w) \/ Copied(w)
  /\ \A v, w \in Worker : Copied(v) /\ Copied(w) => v = w

OneResponds == \E w \in Worker : Responds(w) /\ \A v \in Worker \ {w} : Searches(v)

IdlePhase ==
  outstanding = <<>> /\ client # "sending" /\ Drained /\ NoResponse /\ Searching

SendingPhase ==
  /\ outstanding = <<sent>> /\ client = "sending"
  /\ head = tail /\ OneRequest(head) /\ NoResponse /\ Searching

PublishedPhase ==
  /\ outstanding = <<sent>> /\ client = "ready"
  /\ head = wrapped(tail) /\ OneRequest(tail) /\ NoResponse /\ OneCopied

RespondingPhase ==
  outstanding = <<sent>> /\ client = "ready" /\ Drained /\ NoResponse /\ OneResponds

OneResponse ==
  /\ \A i \in Index : entries[i].response_ready => entries[i].response = sent
  /\ \A i, j \in Index : entries[i].response_ready /\ entries[j].response_ready => i = j

AnsweredPhase ==
  outstanding = <<sent>> /\ client = "ready" /\ Drained /\ OneResponse /\ Searching

Phase == IdlePhase \/ SendingPhase \/ PublishedPhase \/ RespondingPhase \/ AnsweredPhase

PhaseInv == TypeOK /\ (Orderly => Phase)

(* A worker that only searches, before and after, changes no phase.        *)
LEMMA SearchingMoves ==
  ASSUME TypeOK, Phase, NEW v \in Worker, Searches(v), NEW c, worker' = [worker EXCEPT ![v] = c],
         c.pc \in {"poll", "look"},
         UNCHANGED <<head, tail, entries, client, outstanding, sent>>
  PROVE  Phase'
<1>1. worker'[v] = c /\ \A w \in Worker \ {v} : worker'[w] = worker[w]
  BY WorkerPut, Zenon
<1>2. Searches(v)' /\ ~Copied(v)' /\ ~Copied(v) /\ ~Responds(v)
  BY <1>1 DEF Searches, Copied, Responds
<1>3. \A w \in Worker \ {v} : /\ Searches(w)' <=> Searches(w)
                              /\ Copied(w)' <=> Copied(w)
                              /\ Responds(w)' <=> Responds(w)
  BY <1>1, Zenon DEF Searches, Copied, Responds
<1>4. /\ Searching => Searching'
      /\ OneCopied => OneCopied'
  BY <1>2, <1>3, Zenon DEF Searching, OneCopied
<1>5. ASSUME OneResponds PROVE OneResponds'
  <2>1. PICK w \in Worker : Responds(w) /\ \A u \in Worker \ {w} : Searches(u)
    BY <1>5, Zenon DEF OneResponds
  <2>2. w # v
    BY <1>2, <2>1
  <2>3. Responds(w)' /\ \A u \in Worker \ {w} : Searches(u)'
    BY <1>2, <1>3, <2>1, <2>2
  <2> QED
    BY <2>3, Zenon DEF OneResponds
<1>6. /\ Drained' <=> Drained
      /\ NoResponse' <=> NoResponse
      /\ OneResponse' <=> OneResponse
      /\ \A k : OneRequest(k)' <=> OneRequest(k)
  BY Zenon DEF Drained, NoRequest, NoResponse, OneResponse, OneRequest
<1>7. IdlePhase => IdlePhase'
  BY <1>4, <1>6, Zenon DEF IdlePhase
<1>8. SendingPhase => SendingPhase'
  BY <1>4, Zenon DEF SendingPhase, OneRequest, NoResponse
<1>9. PublishedPhase => PublishedPhase'
  BY <1>4, Zenon DEF PublishedPhase, OneRequest, NoResponse, wrapped
<1>10. RespondingPhase => RespondingPhase'
  BY <1>5, <1>6, Zenon DEF RespondingPhase
<1>11. AnsweredPhase => AnsweredPhase'
  BY <1>4, <1>6, Zenon DEF AnsweredPhase
<1> QED
  BY <1>7, <1>8, <1>9, <1>10, <1>11, Zenon DEF Phase

(* The steps of the client lead from a phase to itself or to the next one. *)
LEMMA ClientPhase ==
  ASSUME TypeOK, Phase, patient',
         \/ connect \/ initialize \/ disconnect \/ send_request \/ publish_request \/ time_out
         \/ UNCHANGED vars
         \/ \E i \in Index : wait_for_response(i)
  PROVE  Phase'
<1>t. head \in Index /\ tail \in Index /\ entries \in [Index -> Entry]
      /\ outstanding \in Seq(Number) /\ sent \in Number
  BY DEF TypeOK
<1>a. ASSUME client # "ready", client # "sending" PROVE IdlePhase
  BY <1>a, Zenon DEF Phase, SendingPhase, PublishedPhase, RespondingPhase, AnsweredPhase
<1>b. ASSUME outstanding = <<>> PROVE IdlePhase
  BY <1>b DEF Phase, SendingPhase, PublishedPhase, RespondingPhase, AnsweredPhase
<1>1. CASE connect \/ disconnect
  <2>1. UNCHANGED <<head, tail, entries, worker>> /\ client' # "sending" /\ outstanding' = <<>> /\ IdlePhase
    <3>1. CASE connect
      <4>1. client = "off" /\ client' = "claimed" /\ UNCHANGED <<head, tail, entries, worker, outstanding>>
        BY <3>1, Zenon DEF connect, ring
      <4>2. IdlePhase
        BY <1>a, <4>1
      <4> QED
        BY <4>1, <4>2 DEF IdlePhase
    <3>2. CASE disconnect
      <4>1. /\ client' = "off" /\ UNCHANGED <<head, tail, entries, worker>>
            /\ outstanding' = <<>> /\ outstanding = <<>>
        BY <3>2, Zenon DEF disconnect, ring
      <4> QED
        BY <1>b, <4>1
    <3> QED
      BY <1>1, <3>1, <3>2
  <2> QED
    BY <2>1, Zenon DEF Phase, IdlePhase, Drained, NoRequest, NoResponse, Searching, Searches
<1>2. CASE initialize
  <2>1. /\ head' = 0 /\ tail' = 0 /\ client = "claimed" /\ client' = "ready"
        /\ UNCHANGED <<outstanding, worker>>
        /\ entries' = [i \in Index |-> [entries[i] EXCEPT !.request_ready = FALSE,
                                                          !.response_ready = FALSE]]
    BY <1>2, Zenon DEF initialize
  <2>2. IdlePhase
    BY <1>a, <2>1
  <2>3. ASSUME NEW i \in Index PROVE ~entries'[i].request_ready /\ ~entries'[i].response_ready
    <3>1. entries[i] \in Entry /\ entries'[i] = [entries[i] EXCEPT !.request_ready = FALSE,
                                                                   !.response_ready = FALSE]
      BY <1>t, <2>1, Zenon
    <3> QED
      BY <3>1 DEF Entry
  <2>4. NoRequest' /\ NoResponse' /\ client' # "sending"
    BY <2>1, <2>3 DEF NoRequest, NoResponse
  <2> QED
    BY <2>1, <2>2, <2>4, Zenon DEF Phase, IdlePhase, Drained, Searching, Searches
<1>3. CASE send_request
  <2>1. /\ outstanding = <<>> /\ outstanding' = Append(outstanding, sent + 1) /\ sent' = sent + 1
        /\ client' = "sending" /\ UNCHANGED <<head, tail, worker>>
        /\ entries' = [entries EXCEPT ![head] =
             [entries[head] EXCEPT !.request = sent + 1, !.request_ready = TRUE]]
    BY <1>3, Zenon DEF send_request
  <2>2. IdlePhase /\ outstanding' = <<sent'>>
    BY <1>b, <2>1
  <2>3. /\ entries'[head].request_ready /\ entries'[head].request = sent + 1
        /\ entries'[head].response_ready = entries[head].response_ready
        /\ \A i \in Index \ {head} : entries'[i] = entries[i]
    BY <1>t, <2>1 DEF Entry
  <2>4. OneRequest(head)' /\ NoResponse'
    BY <1>t, <2>1, <2>2, <2>3 DEF IdlePhase, Drained, NoRequest, NoResponse, OneRequest
  <2>5. Searching' /\ head' = tail'
    BY <2>1, <2>2, Zenon DEF IdlePhase, Drained, Searching, Searches
  <2> QED
    BY <2>1, <2>2, <2>4, <2>5, Zenon DEF Phase, SendingPhase
<1>4. CASE publish_request
  <2>1. /\ client = "sending" /\ client' = "ready" /\ head' = wrapped(head)
        /\ UNCHANGED <<tail, outstanding, sent, worker>>
        /\ entries' = [entries EXCEPT ![head].response_ready = FALSE]
    BY <1>4, Zenon DEF publish_request
  <2>2. SendingPhase
    BY <2>1 DEF Phase, IdlePhase, PublishedPhase, RespondingPhase, AnsweredPhase
  <2>3. \A i \in Index : /\ entries'[i].request_ready = entries[i].request_ready
                         /\ entries'[i].request = entries[i].request
                         /\ entries'[i].response_ready => entries[i].response_ready
    BY <1>t, <2>1 DEF Entry
  <2>4. OneRequest(tail)' /\ NoResponse'
    BY <1>t, <2>1, <2>2, <2>3 DEF SendingPhase, NoResponse, OneRequest
  <2>5. OneCopied'
    BY <2>1, <2>2 DEF SendingPhase, Searching, Searches, OneCopied, Copied
  <2>6. head' = wrapped(tail)' /\ outstanding' = <<sent'>>
    BY <2>1, <2>2, Zenon DEF SendingPhase, wrapped
  <2> QED
    BY <2>1, <2>4, <2>5, <2>6, Zenon DEF Phase, PublishedPhase
<1>5. ASSUME NEW k \in Index, wait_for_response(k) PROVE Phase'
  <2>1. /\ client = "ready" /\ outstanding # <<>> /\ entries[k].response_ready
        /\ entries' = [entries EXCEPT ![k].response_ready = FALSE]
        /\ outstanding' = Tail(outstanding) /\ UNCHANGED <<head, tail, client, worker>>
    BY <1>5, Zenon DEF wait_for_response, FirstResponse
  <2>2. AnsweredPhase
    BY <2>1 DEF Phase, IdlePhase, SendingPhase, PublishedPhase, RespondingPhase, NoResponse
  <2>3. outstanding' = <<>>
    <3>1. outstanding = <<sent>>
      BY <2>2, Zenon DEF AnsweredPhase
    <3> QED
      BY <2>1, <3>1
  <2>4. \A i \in Index : /\ entries'[i].request_ready = entries[i].request_ready
                         /\ entries'[i].response_ready => entries[i].response_ready /\ i # k
    BY <1>t, <2>1 DEF Entry
  <2>5. NoRequest' /\ NoResponse'
    BY <2>1, <2>2, <2>4 DEF AnsweredPhase, OneResponse, Drained, NoRequest, NoResponse
  <2> QED
    BY <2>1, <2>2, <2>3, <2>5 DEF Phase, AnsweredPhase, IdlePhase, Drained, Searching, Searches
<1>6. CASE time_out
  BY <1>6 DEF time_out
<1>7. CASE UNCHANGED vars
  <2>1. UNCHANGED <<head, tail, entries, client, outstanding, sent, worker>>
    BY <1>7, Zenon DEF vars
  <2> QED
    BY <2>1, Zenon DEF Phase, IdlePhase, SendingPhase, PublishedPhase, RespondingPhase,
       AnsweredPhase, Drained, NoRequest, NoResponse, OneRequest, OneResponse, OneCopied,
       OneResponds, Searching, Searches, Copied, Responds, wrapped
<1> QED
  BY <1>1, <1>2, <1>3, <1>4, <1>5, <1>6, <1>7, Zenon

(* Who is past the test of request_ready tells the phase.                  *)
LEMMA WorkerTells ==
  ASSUME Phase, NEW v \in Worker
  PROVE  /\ worker[v].pc = "take" => PublishedPhase /\ Copied(v)
         /\ worker[v].pc \in {"respond", "store"} =>
              RespondingPhase /\ Responds(v) /\ \A w \in Worker \ {v} : Searches(w)
<1>1. ASSUME worker[v].pc = "take" PROVE PublishedPhase /\ Copied(v)
  BY <1>1 DEF Phase, IdlePhase, SendingPhase, PublishedPhase, RespondingPhase, AnsweredPhase,
     Searching, Searches, OneCopied, OneResponds, Responds
<1>2. ASSUME worker[v].pc \in {"respond", "store"}
      PROVE  RespondingPhase /\ Responds(v) /\ \A w \in Worker \ {v} : Searches(w)
  <2>1. ~Searches(v) /\ ~Copied(v)
    BY <1>2 DEF Searches, Copied
  <2>2. RespondingPhase
    BY <2>1, Zenon DEF Phase, IdlePhase, SendingPhase, PublishedPhase, AnsweredPhase,
       Searching, OneCopied
  <2>3. PICK w \in Worker : Responds(w) /\ \A u \in Worker \ {w} : Searches(u)
    BY <2>2, Zenon DEF RespondingPhase, OneResponds
  <2>4. w = v
    BY <2>1, <2>3
  <2> QED
    BY <2>2, <2>3, <2>4
<1> QED
  BY <1>1, <1>2

(* So do the steps of the workers, until one meets another.                *)
LEMMA WorkerPhase ==
  ASSUME TypeOK, Phase, NEW v \in Worker,
         \/ wait_for_request(v) \/ (look(v) /\ ~raced') \/ take_request(v)
         \/ send_response(v) \/ store_response(v)
  PROVE  Phase'
<1>t. head \in Index /\ tail \in Index /\ entries \in [Index -> Entry]
      /\ worker \in [Worker -> [pc : {"poll", "look", "take", "respond", "store"},
                                at : Index, request : Number]]
  BY DEF TypeOK
<1>p. Polling.pc \in {"poll", "look"}
  BY DEF Polling
<1>1. CASE wait_for_request(v)
  <2> DEFINE c == [pc |-> "look", at |-> tail, request |-> 0]
  <2>1. worker[v].pc = "poll" /\ worker' = [worker EXCEPT ![v] = c]
        /\ UNCHANGED <<head, tail, entries, client, outstanding, sent>>
    BY <1>1, Zenon DEF wait_for_request, ring
  <2>2. c.pc \in {"poll", "look"} /\ Searches(v)
    BY <2>1 DEF Searches
  <2> HIDE DEF c
  <2> QED
    BY <2>1, <2>2, SearchingMoves, Zenon
<1>2. CASE look(v) /\ ~raced'
  <2> DEFINE a == worker[v].at
             c == [pc |-> "take", at |-> a, request |-> entries[a].request]
  <2>1. /\ worker[v].pc = "look" /\ UNCHANGED <<head, tail, entries, client, outstanding, sent>>
        /\ \/ worker' = [worker EXCEPT ![v] = Polling]
           \/ /\ worker' = [worker EXCEPT ![v] = c] /\ a # head
              /\ entries[a].request_ready /\ ~Meets(v)
    BY <1>2, Zenon DEF look, ring
  <2>2. Searches(v) /\ a \in Index
    BY <1>t, <2>1 DEF Searches
  <2>3. CASE worker' = [worker EXCEPT ![v] = Polling]
    BY <1>p, <2>1, <2>2, <2>3, SearchingMoves, Zenon
  <2>4. CASE /\ worker' = [worker EXCEPT ![v] = c] /\ a # head
             /\ entries[a].request_ready /\ ~Meets(v)
    <3>1. PublishedPhase
      BY <2>2, <2>4, Zenon DEF Phase, IdlePhase, SendingPhase, RespondingPhase,
         AnsweredPhase, Drained, NoRequest, OneRequest
    <3>2. a = tail /\ \A w \in Worker : worker[w].pc # "take"
      BY <2>4, Zenon DEF Meets
    <3>3. c.pc = "take" /\ c.at = a /\ c.request = entries[a].request
      OBVIOUS
    <3> HIDE DEF c, a
    <3>4. worker'[v] = c /\ \A w \in Worker \ {v} : worker'[w] = worker[w]
      BY <2>4, WorkerPut, Zenon
    <3>5. entries[a].request = sent
      BY <3>1, <3>2, Zenon DEF PublishedPhase, OneRequest
    <3>6. Copied(v)' /\ \A w \in Worker \ {v} : Searches(w)' /\ ~Copied(w)'
      <4>1. Copied(v)'
        BY <2>1, <3>2, <3>3, <3>4, <3>5, Zenon DEF Copied
      <4>2. ASSUME NEW w \in Worker \ {v} PROVE Searches(w)' /\ ~Copied(w)'
        BY <3>1, <3>2, <3>4, <4>2, Zenon DEF PublishedPhase, OneCopied, Searches, Copied
      <4> QED
        BY <4>1, <4>2
    <3>7. OneCopied'
      BY <3>6, Zenon DEF OneCopied
    <3> QED
      BY <2>1, <3>1, <3>7, Zenon DEF Phase, PublishedPhase, NoResponse, OneRequest, wrapped
  <2> QED
    BY <2>1, <2>3, <2>4
<1>3. CASE take_request(v)
  <2> DEFINE c == [worker[v] EXCEPT !.pc = "respond", !.at = 0]
  <2>1. worker[v].pc = "take" /\ PublishedPhase /\ Copied(v)
    BY <1>3, WorkerTells, Zenon DEF take_request
  <2>2. worker[v].at = tail /\ worker[v].request = sent
    BY <2>1, Zenon DEF Copied
  <2>3. /\ entries' = [entries EXCEPT ![tail].request_ready = FALSE] /\ tail' = wrapped(tail)
        /\ worker' = [worker EXCEPT ![v] = c]
        /\ UNCHANGED <<head, client, outstanding, sent>>
    BY <1>3, <2>2, Zenon DEF take_request, Consumed
  <2>4. c.pc = "respond" /\ c.request = worker[v].request
    BY <1>t, ControlFields
  <2> HIDE DEF c
  <2>5. worker'[v] = c /\ \A w \in Worker \ {v} : worker'[w] = worker[w]
    BY <2>3, WorkerPut, Zenon
  <2>6. \A i \in Index : /\ entries'[i].response_ready = entries[i].response_ready
                         /\ entries'[i].request_ready => entries[i].request_ready /\ i # tail
    BY <1>t, <2>3 DEF Entry
  <2>7. NoRequest' /\ NoResponse'
    BY <2>1, <2>6, Zenon DEF PublishedPhase, OneRequest, NoRequest, NoResponse
  <2>8. Responds(v)'
    BY <2>2, <2>3, <2>4, <2>5 DEF Responds
  <2>9. \A w \in Worker \ {v} : Searches(w)'
    BY <2>1, <2>5, Zenon DEF PublishedPhase, OneCopied, Searches
  <2>10. OneResponds'
    BY <2>8, <2>9, Zenon DEF OneResponds
  <2>11. head' = tail' /\ outstanding' = <<sent'>> /\ client' = "ready"
    BY <2>1, <2>3, Zenon DEF PublishedPhase
  <2> QED
    BY <2>7, <2>10, <2>11, Zenon DEF Phase, RespondingPhase, Drained
<1>4. CASE send_response(v)
  <2>1. /\ worker[v].pc = "respond" /\ UNCHANGED <<head, tail, entries, client, outstanding, sent>>
        /\ \/ \E i \in Index : worker' = [worker EXCEPT ![v] = [worker[v] EXCEPT !.pc = "store", !.at = i]]
           \/ \A i \in Index : ~IsVacant(i)
    BY <1>4, Zenon DEF send_response, ring
  <2>2. RespondingPhase /\ Responds(v) /\ \A w \in Worker \ {v} : Searches(w)
    BY <2>1, WorkerTells
  <2>3. IsVacant(head)
    BY <1>t, <2>2, Zenon DEF RespondingPhase, Drained, NoRequest, NoResponse, IsVacant
  <2>4. PICK i \in Index : worker' = [worker EXCEPT ![v] = [worker[v] EXCEPT !.pc = "store", !.at = i]]
    BY <1>t, <2>1, <2>3, Zenon
  <2> DEFINE c == [worker[v] EXCEPT !.pc = "store", !.at = i]
  <2>5. c.pc = "store" /\ c.request = worker[v].request /\ worker' = [worker EXCEPT ![v] = c]
    BY <1>t, <2>4, ControlFields
  <2> HIDE DEF c
  <2>6. worker'[v] = c /\ \A w \in Worker \ {v} : worker'[w] = worker[w]
    BY <2>5, WorkerPut, Zenon
  <2>7. Responds(v)'
    BY <2>1, <2>2, <2>5, <2>6 DEF Responds
  <2>8. \A w \in Worker \ {v} : Searches(w)'
    BY <2>2, <2>6, Zenon DEF Searches
  <2>9. OneResponds'
    BY <2>7, <2>8, Zenon DEF OneResponds
  <2> QED
    BY <2>1, <2>2, <2>9, Zenon DEF Phase, RespondingPhase, Drained, NoRequest, NoResponse
<1>5. CASE store_response(v)
  <2> DEFINE a == worker[v].at
  <2>1. worker[v].pc = "store" /\ UNCHANGED <<head, tail, client, outstanding, sent>>
    BY <1>5, Zenon DEF store_response
  <2>2. RespondingPhase /\ Responds(v) /\ \A w \in Worker \ {v} : Searches(w)
    BY <2>1, WorkerTells
  <2>3. a \in Index /\ worker' = [worker EXCEPT ![v] = Polling]
        /\ entries' = [entries EXCEPT ![a] = [entries[a] EXCEPT !.response = sent, !.response_ready = TRUE]]
    BY <1>5, <1>t, <2>2 DEF store_response, Stored, Responds
  <2> HIDE DEF a
  <2>4. /\ entries'[a].response = sent /\ entries'[a].response_ready
        /\ entries'[a].request_ready = entries[a].request_ready
        /\ \A i \in Index \ {a} : entries'[i] = entries[i]
    BY <1>t, <2>3 DEF Entry
  <2>5. NoRequest'
    BY <2>2, <2>4 DEF RespondingPhase, Drained, NoRequest
  <2>6. OneResponse'
    BY <2>1, <2>2, <2>4 DEF RespondingPhase, NoResponse, OneResponse
  <2>7. worker'[v] = Polling /\ \A w \in Worker \ {v} : worker'[w] = worker[w]
    BY <2>3, WorkerPut, Zenon
  <2>8. Searching'
    <3>1. ASSUME NEW w \in Worker PROVE Searches(w)'
      BY <1>p, <2>2, <2>7, Zenon DEF Searches
    <3> QED
      BY <3>1, Zenon DEF Searching
  <2> QED
    BY <2>1, <2>2, <2>5, <2>6, <2>8, Zenon DEF Phase, RespondingPhase, AnsweredPhase, Drained
<1> QED
  BY <1>1, <1>2, <1>3, <1>4, <1>5, Zenon

(* The phases are kept as long as the ring is orderly.                     *)
LEMMA PhaseStep ==
  ASSUME PhaseInv, [Next]_vars
  PROVE  PhaseInv'
<1>1. TypeOK /\ TypeOK' /\ (Orderly' => Orderly)
  BY TypeStep, HabitsStep, Zenon DEF PhaseInv, Orderly
<1> SUFFICES ASSUME Orderly' PROVE Phase'
  BY <1>1, Zenon DEF PhaseInv
<1>2. Phase /\ patient' /\ ~raced'
  BY <1>1, Zenon DEF PhaseInv, Orderly
<1>3. CASE \/ connect \/ initialize \/ disconnect \/ send_request \/ publish_request \/ time_out
           \/ UNCHANGED vars
           \/ \E i \in Index : wait_for_response(i)
  BY <1>1, <1>2, <1>3, ClientPhase, Zenon
<1>4. ASSUME NEW v \in Worker,
             \/ wait_for_request(v) \/ look(v) \/ take_request(v)
             \/ send_response(v) \/ store_response(v)
      PROVE  Phase'
  BY <1>1, <1>2, <1>4, WorkerPhase, Zenon
<1> QED
  BY <1>3, <1>4, Zenon DEF Next

(* The ring starts in the phase without a request. *)
LEMMA PhaseStart ==
  Init => PhaseInv
<1> SUFFICES ASSUME Init PROVE PhaseInv
  OBVIOUS
<1>1. TypeOK
  BY RingStart DEF RingInv
<1>2. IdlePhase
  BY DEF Init, IdlePhase, Drained, NoRequest, NoResponse, Searching, Searches, FreshEntry, Polling
<1> QED
  BY <1>1, <1>2 DEF PhaseInv, Phase

-----------------------------------------------------------------------------
(* Refinement of RequestService, for any number of workers and any client. *)
ServiceInv == RingInv /\ TakenInv /\ PhaseInv

(* Most steps are no steps of the service, or a race.                      *)
Silent == UNCHANGED <<outstanding, sent, taken, patient, got>>

(* Connecting, publishing, looking and responding do not show.             *)
LEMMA SilentSteps ==
  ASSUME \/ connect \/ initialize \/ publish_request \/ UNCHANGED vars
         \/ \E w \in Worker : \/ wait_for_request(w) \/ look(w)
                              \/ send_response(w) \/ store_response(w)
  PROVE  Silent
<1>1. CASE connect \/ initialize \/ publish_request
  BY <1>1, Zenon DEF connect, initialize, publish_request, Silent, habits
<1>2. CASE UNCHANGED vars
  BY <1>2, Zenon DEF vars, Silent
<1>3. ASSUME NEW w \in Worker, wait_for_request(w) \/ look(w) PROVE Silent
  BY <1>3, Zenon DEF wait_for_request, look, Silent, habits
<1>4. ASSUME NEW w \in Worker, send_response(w) \/ store_response(w) PROVE Silent
  BY <1>4, Zenon DEF send_response, store_response, Silent, habits
<1> QED
  BY <1>1, <1>2, <1>3, <1>4, Zenon

(* A step that does not show is a stutter of the service, or its Race.     *)
LEMMA SilentOrRace ==
  ASSUME TypeOK, [Next]_vars, Silent
  PROVE  Service!Next \/ UNCHANGED Service!vars
<1>1. raced \in BOOLEAN /\ raced' \in BOOLEAN /\ (raced => raced')
  BY HabitsStep, Zenon DEF TypeOK
<1>2. CASE raced'
  <2>1. Orderly' = FALSE
    BY <1>2 DEF Orderly
  <2>2. Service!Race
    BY <2>1, Zenon DEF Service!Race, Silent
  <2> QED
    BY <2>2, Zenon DEF Service!Next
<1>3. CASE ~raced'
  <2>1. raced' = raced
    BY <1>1, <1>3
  <2> QED
    BY <2>1, Zenon DEF Silent, Service!vars, Orderly
<1> QED
  BY <1>2, <1>3

(* What take_request takes: a request that was sent, and, while the ring   *)
(* is orderly, the one waited for, which nobody has taken yet.             *)
LEMMA TakenRequest ==
  ASSUME ServiceInv, NEW w \in Worker, take_request(w)
  PROVE  /\ worker[w].request \in 1..MaxRequests /\ worker[w].request <= sent
         /\ Orderly => /\ outstanding = <<worker[w].request>>
                       /\ taken[worker[w].request] = {}
<1> DEFINE r == worker[w].request
<1>1. worker[w].pc = "take" /\ r \in 1..sent
  BY DEF ServiceInv, RingInv, CopiedUntaken, take_request
<1>2. sent \in 0..MaxRequests /\ tail \in Index
  BY DEF ServiceInv, RingInv, TypeOK, Number
<1>3. ASSUME Orderly PROVE outstanding = <<r>> /\ taken[r] = {}
  <2>1. PublishedPhase /\ Copied(w)
    BY <1>1, <1>3, WorkerTells, Zenon DEF ServiceInv, PhaseInv
  <2>2. outstanding = <<sent>> /\ r = sent /\ OneRequest(tail)
    BY <2>1, Zenon DEF PublishedPhase, Copied
  <2>3. entries[tail].request_ready /\ entries[tail].request = r
    BY <1>2, <2>2, Zenon DEF OneRequest
  <2> HIDE DEF r
  <2>4. taken[r] = {}
    BY <1>2, <2>3, Zenon DEF ServiceInv, RingInv, ReadyUntaken
  <2> QED
    BY <2>2, <2>4
<1> HIDE DEF r
<1>4. r \in 1..MaxRequests /\ r <= sent
  BY <1>1, <1>2, RingAssumption
<1> QED
  BY <1>3, <1>4, Zenon DEF r

(* What wait_for_response receives: the response to a request that was     *)
(* taken, and, while the ring is orderly, to the one waited for.           *)
LEMMA ReceivedResponse ==
  ASSUME ServiceInv, NEW i \in Index, wait_for_response(i)
  PROVE  /\ entries[i].response \in 1..MaxRequests /\ taken[entries[i].response] # {}
         /\ Orderly => entries[i].response = Head(outstanding)
<1>1. client = "ready" /\ outstanding # <<>> /\ entries[i].response_ready
  BY Zenon DEF wait_for_response, FirstResponse
<1>2. entries[i].response \in 1..MaxRequests /\ taken[entries[i].response] # {}
  BY <1>1, Zenon DEF ServiceInv, TakenInv, ResponseIsTaken, Taken
<1>3. ASSUME Orderly PROVE entries[i].response = Head(outstanding)
  <2>1. Phase
    BY <1>3, Zenon DEF ServiceInv, PhaseInv
  <2>2. AnsweredPhase
    BY <1>1, <2>1, Zenon DEF Phase, IdlePhase, SendingPhase, PublishedPhase, RespondingPhase,
       NoResponse
  <2>3. outstanding = <<sent>> /\ entries[i].response = sent
    BY <1>1, <2>2, Zenon DEF AnsweredPhase, OneResponse
  <2> QED
    BY <2>3
<1> QED
  BY <1>2, <1>3

(* With any number of workers and whatever the clients do, the ring        *)
(* implements the service: while it is orderly a request is served once    *)
(* and then answered with its own response; once a request was given up or *)
(* overtaken, or two workers met, a response is still one to a request     *)
(* that was served.                                                        *)
THEOREM RingImplementsRequests ==
  Spec => ImplementsRequests
<1>1. Init => ServiceInv /\ Service!Init
  <2> SUFFICES ASSUME Init PROVE ServiceInv /\ Service!Init
    OBVIOUS
  <2>1. RingInv /\ TakenInv /\ PhaseInv
    BY RingStart, TakenStart, PhaseStart
  <2>2. /\ outstanding = <<>> /\ sent = 0 /\ got = [sent |-> 0, received |-> 0]
        /\ taken = [r \in 1..MaxRequests |-> {}] /\ patient = TRUE /\ raced = FALSE
    BY Zenon DEF Init
  <2>3. Orderly = TRUE
    BY <2>2 DEF Orderly
  <2> QED
    BY <2>1, <2>2, <2>3, Zenon DEF ServiceInv, Service!Init
<1>2. ServiceInv /\ [Next]_vars => ServiceInv'
  BY RingStep, TakenStep, PhaseStep, Zenon DEF ServiceInv
<1>3. ServiceInv /\ [Next]_vars => [Service!Next]_(Service!vars)
  <2> SUFFICES ASSUME ServiceInv, [Next]_vars
               PROVE  Service!Next \/ UNCHANGED Service!vars
    OBVIOUS
  <2>0. TypeOK /\ patient \in BOOLEAN /\ raced \in BOOLEAN /\ outstanding \in Seq(Number)
    BY Zenon DEF ServiceInv, RingInv, TypeOK
  <2>1. CASE \/ connect \/ initialize \/ publish_request \/ UNCHANGED vars
             \/ \E w \in Worker : \/ wait_for_request(w) \/ look(w)
                                  \/ send_response(w) \/ store_response(w)
    BY <2>0, <2>1, SilentSteps, SilentOrRace, Zenon
  <2>2. CASE send_request
    <3>1. /\ sent' = sent + 1 /\ outstanding' = Append(outstanding, sent + 1)
          /\ patient' = (patient /\ outstanding = <<>>) /\ UNCHANGED <<taken, got, raced>>
      BY <2>2, Zenon DEF send_request
    <3>2. Orderly' = (Orderly /\ outstanding = <<>>)
      BY <2>0, <3>1 DEF Orderly
    <3>3. Service!Ask
      BY <3>1, <3>2, Zenon DEF Service!Ask
    <3> QED
      BY <3>3, Zenon DEF Service!Next
  <2>3. CASE disconnect
    <3>1. CASE outstanding = <<>>
      <4>1. Silent
        BY <2>0, <2>3, <3>1, Zenon DEF disconnect, Silent
      <4> QED
        BY <2>0, <4>1, SilentOrRace
    <3>2. CASE outstanding # <<>>
      <4>1. outstanding' = <<>> /\ patient' = FALSE /\ UNCHANGED <<sent, taken, got>>
        BY <2>0, <2>3, <3>2, Zenon DEF disconnect
      <4>2. Orderly' = FALSE
        BY <4>1 DEF Orderly
      <4>3. Service!GiveUp
        BY <3>2, <4>1, <4>2, Zenon DEF Service!GiveUp
      <4> QED
        BY <4>3, Zenon DEF Service!Next
    <3> QED
      BY <3>1, <3>2
  <2>4. CASE time_out
    <3>1. /\ outstanding # <<>> /\ outstanding' = Tail(outstanding) /\ patient' = FALSE
          /\ UNCHANGED <<sent, taken, got>>
      BY <2>4, Zenon DEF time_out
    <3>2. Orderly' = FALSE
      BY <3>1 DEF Orderly
    <3>3. Service!GiveUp
      BY <3>1, <3>2, Zenon DEF Service!GiveUp
    <3> QED
      BY <3>3, Zenon DEF Service!Next
  <2>5. ASSUME NEW i \in Index, wait_for_response(i) PROVE Service!Next
    <3> DEFINE r == entries[i].response
    <3>1. /\ outstanding # <<>> /\ got' = [sent |-> Head(outstanding), received |-> r]
          /\ outstanding' = Tail(outstanding) /\ UNCHANGED <<sent, taken, patient, raced>>
      BY <2>5, Zenon DEF wait_for_response, habits
    <3>2. r \in 1..MaxRequests /\ taken[r] # {} /\ (Orderly => r = Head(outstanding))
      BY <2>5, ReceivedResponse, Zenon
    <3> HIDE DEF r
    <3>3. Orderly' = Orderly
      BY <3>1, Zenon DEF Orderly
    <3>4. Service!Receive(r)
      BY <3>1, <3>2, <3>3, Zenon DEF Service!Receive
    <3> QED
      BY <3>2, <3>4, Zenon DEF Service!Next
  <2>6. ASSUME NEW w \in Worker, take_request(w) PROVE Service!Next
    <3> DEFINE r == worker[w].request
    <3>1. /\ r \in 1..MaxRequests /\ r <= sent
          /\ Orderly => outstanding = <<r>> /\ taken[r] = {}
      BY <2>6, TakenRequest, Zenon
    <3>2. taken' = [taken EXCEPT ![r] = @ \cup {w}] /\ UNCHANGED <<outstanding, sent, patient, raced, got>>
      BY <2>6, Zenon DEF take_request, habits
    <3> HIDE DEF r
    <3>3. Orderly' = Orderly
      BY <3>2, Zenon DEF Orderly
    <3>4. Service!Serve(w, r)
      BY <3>1, <3>2, <3>3, Zenon DEF Service!Serve
    <3> QED
      BY <3>1, <3>4, Zenon DEF Service!Next
  <2> QED
    BY <2>1, <2>2, <2>3, <2>4, <2>5, <2>6, Zenon DEF Next
<1> QED
  BY <1>1, <1>2, <1>3, PTL DEF Spec, ImplementsRequests, Service!Spec
=============================================================================
