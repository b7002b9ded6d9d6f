------------------------------ MODULE ShmRing ------------------------------
(***************************************************************************)
(* The shared-memory ring of one client slot (src/shm_communication.cpp),  *)
(* used by the client process that holds the slot and by the server's SHM  *)
(* workers (handle_shm_requests of src/main_server.cc).                    *)
(*                                                                         *)
(* Requests go through the ring in order.  Responses carry no identity:    *)
(* send_response puts one in the first entry from head that is neither a   *)
(* request nor a response, and wait_for_response takes the first response  *)
(* it finds from entry 0.  Several workers read tail, the request and      *)
(* request_ready, and only then write them back, without a lock.           *)
(*                                                                         *)
(* A request is its number; its response is the same number.  The request  *)
(* and response semaphores only end a sleep early and are left out.        *)
(***************************************************************************)
EXTENDS Integers, Sequences, FiniteSets

CONSTANTS Worker,          \* four in the code
          RING_SIZE,       \* 1024 in the code
          MaxRequests,     \* bound: requests sent
          MaxOutstanding   \* requests a client sends before it waits

ASSUME RingAssumption ==
  /\ RING_SIZE \in Nat \ {0, 1} /\ MaxRequests \in Nat \ {0}
  /\ MaxOutstanding \in Nat \ {0}

VARIABLES connected,      \* clients[i].connected
          head, tail,     \* of the ring
          pending_count,
          entries,        \* the request/response pairs
          client,         \* control state of the client process
          outstanding,    \* requests it sent and has no response for
          sent,           \* number of requests sent so far
          worker,         \* control state of each worker
          taken,          \* history: the workers that took each request
          got,            \* history: the last response and the request it was for
          patient,        \* history: each request was waited for, and alone
          raced           \* history: the ring was used under a worker's hands

vars == <<connected, head, tail, pending_count, entries, client, outstanding,
          sent, worker, taken, got, patient, raced>>

ring == <<head, tail, pending_count, entries>>

habits == <<patient, raced>>

Index == 0..(RING_SIZE - 1)

Number == 0..MaxRequests

Entry == [request_ready : BOOLEAN, response_ready : BOOLEAN,
          request : Number, response : Number]

FreshEntry == [request_ready |-> FALSE, response_ready |-> FALSE,
               request |-> 0, response |-> 0]

Polling == [pc |-> "poll", at |-> 0, request |-> 0]

(* One type invariant of the ring and its users. *)
TypeOK ==
  /\ connected \in BOOLEAN
  /\ head \in Index /\ tail \in Index /\ pending_count \in Int
  /\ entries \in [Index -> Entry]
  /\ client \in {"off", "claimed", "ready", "sending"}
  /\ outstanding \in Seq(Number) /\ sent \in Number
  /\ worker \in [Worker -> [pc : {"poll", "look", "take", "respond", "store"},
                            at : Index, request : Number]]
  /\ taken \in [1..MaxRequests -> SUBSET Worker]
  /\ got \in [sent : Number, received : Number]
  /\ patient \in BOOLEAN /\ raced \in BOOLEAN

Init ==
  /\ connected = FALSE
  /\ head = 0 /\ tail = 0 /\ pending_count = 0
  /\ entries = [i \in Index |-> FreshEntry]
  /\ client = "off" /\ outstanding = <<>> /\ sent = 0
  /\ worker = [w \in Worker |-> Polling]
  /\ taken = [r \in 1..MaxRequests |-> {}]
  /\ got = [sent |-> 0, received |-> 0]
  /\ patient = TRUE /\ raced = FALSE

not_wrapped(i) == i + 1

wrapped(i) == (i + 1) % RING_SIZE

-----------------------------------------------------------------------------
(* The client.  connect claims the slot, which opens the ring to the       *)
(* workers, and then initialises the ring.                                 *)
connect ==
  /\ client = "off" /\ ~connected
  /\ connected' = TRUE /\ client' = "claimed"
  /\ UNCHANGED <<ring, outstanding, sent, worker, taken, got, habits>>

initialize ==
  /\ client = "claimed"
  /\ head' = 0 /\ tail' = 0 /\ pending_count' = 0
  /\ entries' = [i \in Index |-> [entries[i] EXCEPT !.request_ready = FALSE,
                                                    !.response_ready = FALSE]]
  /\ client' = "ready"
  /\ raced' = (raced \/ \E w \in Worker : worker[w].pc = "take")
  /\ UNCHANGED <<connected, outstanding, sent, worker, taken, got, patient>>

(* Bound: once all requests are sent, their client stays.                  *)
disconnect ==
  /\ client = "ready" /\ sent < MaxRequests
  /\ connected' = FALSE /\ client' = "off" /\ outstanding' = <<>>
  /\ patient' = (patient /\ outstanding = <<>>)
  /\ UNCHANGED <<ring, sent, worker, taken, got, raced>>

(* send_request: the entry first, then response_ready, head and the count. *)
FullByCount == pending_count = RING_SIZE

IsFull == wrapped(head) = tail

send_request ==
  /\ client = "ready" /\ ~IsFull
  /\ sent < MaxRequests /\ Len(outstanding) < MaxOutstanding
  /\ sent' = sent + 1
  /\ entries' = [entries EXCEPT ![head] =
       [@ EXCEPT !.request = sent + 1, !.request_ready = TRUE]]
  /\ outstanding' = Append(outstanding, sent + 1)
  /\ client' = "sending"
  /\ patient' = (patient /\ outstanding = <<>>)
  /\ UNCHANGED <<connected, head, tail, pending_count, worker, taken, got, raced>>

publish_request ==
  /\ client = "sending"
  /\ entries' = [entries EXCEPT ![head].response_ready = FALSE]
  /\ head' = wrapped(head)
  /\ pending_count' = pending_count + 1
  /\ client' = "ready"
  /\ UNCHANGED <<connected, tail, outstanding, sent, worker, taken, got, habits>>

(* A response is recognised by its entry not being a request.              *)
FirstNoRequest(i) ==
  ~entries[i].request_ready /\ \A j \in Index : j < i => entries[j].request_ready

(* wait_for_response: the first response from entry 0.                     *)
FirstResponse(i) ==
  entries[i].response_ready /\ \A j \in Index : j < i => ~entries[j].response_ready

wait_for_response(i) ==
  /\ client = "ready" /\ outstanding # <<>> /\ FirstResponse(i)
  /\ entries' = [entries EXCEPT ![i].response_ready = FALSE]
  /\ got' = [sent |-> Head(outstanding), received |-> entries[i].response]
  /\ outstanding' = Tail(outstanding)
  /\ UNCHANGED <<connected, head, tail, pending_count, client, sent, worker, taken, habits>>

(* wait_for_response returns false after its timeout; the request stays.   *)
time_out ==
  /\ client = "ready" /\ outstanding # <<>>
  /\ outstanding' = Tail(outstanding) /\ patient' = FALSE
  /\ UNCHANGED <<connected, ring, client, sent, worker, taken, got, raced>>

-----------------------------------------------------------------------------
(* A worker.  wait_for_request loads tail of a connected client, then      *)
(* looks at head and at the entry, which another client may own by then;   *)
(* if it holds a request, copies it, clears request_ready and advances     *)
(* tail from the value it loaded.                                          *)
wait_for_request(w) ==
  /\ worker[w].pc = "poll" /\ connected
  /\ worker' = [worker EXCEPT ![w] = [pc |-> "look", at |-> tail, request |-> 0]]
  /\ UNCHANGED <<connected, ring, client, outstanding, sent, taken, got, habits>>

(* Two workers meet: w copies a request while another has copied one and   *)
(* not taken it yet, or after another has moved tail.                      *)
Meets(w) == worker[w].at # tail \/ \E v \in Worker : worker[v].pc = "take"

look(w) ==
  LET i == worker[w].at
  IN /\ worker[w].pc = "look"
     /\ \/ /\ i # head /\ entries[i].request_ready
           /\ worker' = [worker EXCEPT ![w] =
                [pc |-> "take", at |-> i, request |-> entries[i].request]]
           /\ raced' = (raced \/ Meets(w))
        \/ /\ i = head \/ ~entries[i].request_ready
           /\ worker' = [worker EXCEPT ![w] = Polling]
           /\ UNCHANGED raced
     /\ UNCHANGED <<connected, ring, client, outstanding, sent, taken, got, patient>>

ConsumedNothing(i) == UNCHANGED <<entries, tail>>

Consumed(i) == /\ entries' = [entries EXCEPT ![i].request_ready = FALSE]
               /\ tail' = wrapped(i)

take_request(w) ==
  /\ worker[w].pc = "take"
  /\ Consumed(worker[w].at)
  /\ pending_count' = pending_count - 1
  /\ taken' = [taken EXCEPT ![worker[w].request] = @ \cup {w}]
  /\ worker' = [worker EXCEPT ![w] = [@ EXCEPT !.pc = "respond", !.at = 0]]
  /\ UNCHANGED <<connected, head, client, outstanding, sent, got, habits>>

(* send_response, after handle_request: the first entry from head that     *)
(* holds neither a request nor a response; none means a lost response.     *)
Distance(i) == (i + RING_SIZE - head) % RING_SIZE

IsVacant(i) == ~entries[i].request_ready /\ ~entries[i].response_ready

FirstVacant(i) ==
  IsVacant(i) /\ \A j \in Index : Distance(j) < Distance(i) => ~IsVacant(j)

send_response(w) ==
  /\ worker[w].pc = "respond"
  /\ \/ \E i \in Index :
          /\ FirstVacant(i)
          /\ worker' = [worker EXCEPT ![w] = [@ EXCEPT !.pc = "store", !.at = i]]
     \/ /\ \A i \in Index : ~IsVacant(i)
        /\ worker' = [worker EXCEPT ![w] = Polling]
  /\ UNCHANGED <<connected, ring, client, outstanding, sent, taken, got, habits>>

StoredWithoutResponse(i, r) == [entries EXCEPT ![i].response_ready = TRUE]

StoredUnready(i, r) == [entries EXCEPT ![i].response = r]

Stored(i, r) == [entries EXCEPT ![i] = [@ EXCEPT !.response = r, !.response_ready = TRUE]]

store_response(w) ==
  /\ worker[w].pc = "store"
  /\ entries' = Stored(worker[w].at, worker[w].request)
  /\ worker' = [worker EXCEPT ![w] = Polling]
  /\ UNCHANGED <<connected, head, tail, pending_count, client, outstanding, sent, taken, got, habits>>

Next ==
  \/ connect \/ initialize \/ disconnect
  \/ send_request \/ publish_request
  \/ \E i \in Index : wait_for_response(i)
  \/ time_out
  \/ \E w \in Worker :
       \/ wait_for_request(w) \/ look(w) \/ take_request(w)
       \/ send_response(w) \/ store_response(w)

Spec == Init /\ [][Next]_vars

(* The workers poll for ever, and a client inside a call runs; nothing     *)
(* makes a client connect, send or leave.                                  *)
Fairness ==
  /\ WF_vars(initialize) /\ WF_vars(publish_request)
  /\ WF_vars(\E i \in Index : wait_for_response(i))
  /\ \A w \in Worker :
       WF_vars(\/ wait_for_request(w) \/ look(w) \/ take_request(w)
               \/ send_response(w) \/ store_response(w))

FairSpec == Spec /\ Fairness

-----------------------------------------------------------------------------
(* No worker takes a request twice, whatever the client and the other      *)
(* workers do: clearing request_ready ends a request even when a late      *)
(* store moves tail back to it or a new client reinitialises the ring.  So *)
(* a request is executed at most once by each of the four workers.         *)
TakenOncePerWorker ==
  \A w \in Worker : worker[w].pc = "take" => w \notin taken[worker[w].request]

(* A response that a client receives is the response to a request that a  *)
(* worker took, perhaps another one: no response is made up, or left over  *)
(* from the entry's earlier use.  Holds for any number of workers, requests *)
(* outstanding, timeouts and reconnections.                                *)
ReceivedWasTaken == got.sent > 0 => got.received > 0 /\ taken[got.received] # {}

(* Between calls the requests of the ring are those between tail and head, *)
(* and pending_count is their number, through wraps, a full ring, timeouts *)
(* and reconnections, until two workers meet at a request or a client      *)
(* reinitialises the ring under a worker that is about to take one.        *)
PendingIsOccupancy ==
  ~raced /\ client # "sending"
    => /\ pending_count = (head + RING_SIZE - tail) % RING_SIZE
       /\ \A i \in Index : entries[i].request_ready <=>
            (i + RING_SIZE - tail) % RING_SIZE < pending_count

(* The ring as the service its client sees: a request is served by the     *)
(* workers that take it.  The service is orderly as long as no request was *)
(* given up, none was sent while another was waited for, and no two        *)
(* workers met at one.                                                     *)
Orderly == patient /\ ~raced

Service == INSTANCE RequestService
             WITH Server <- Worker, calls <- outstanding, served <- taken, orderly <- Orderly

(* The ring implements RequestService, with any number of workers: while   *)
(* it is orderly a request is served once and then answered with its own   *)
(* response; once it is not, a response is still one to a served request.  *)
ImplementsRequests == Service!Spec

(* While the ring is orderly, every request a client waits for is answered. *)
(* With four workers this does end when two meet: a late store of tail     *)
(* leaves it at an entry without a request, and nothing is taken any more. *)
RequestAnswered == outstanding # <<>> ~> outstanding = <<>> \/ ~Orderly
=============================================================================
