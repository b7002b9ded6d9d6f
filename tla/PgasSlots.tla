----------------------------- MODULE PgasSlots -----------------------------
(***************************************************************************)
(* PGAS mode: request slots in shared memory, filled by the QEMU clients   *)
(* (cxl_memsim_shm_request of library/qemu/hw/mem/cxl_type3.c) and polled  *)
(* by the server's workers (poll_pgas_shm_requests of src/main_server.cc). *)
(*                                                                         *)
(* A client owns the slot getpid() % num_slots, so two clients may share   *)
(* one.  A worker does not claim a slot: it loads req_type, executes,      *)
(* stores resp_status and only then clears req_type, three steps between   *)
(* which a client or another worker may act.                               *)
(***************************************************************************)
EXTENDS Integers, Sequences, FiniteSets

CONSTANTS Client,
          Worker,       \* four in the code
          num_slots,    \* CXL_SHM_MAX_SLOTS: 64 in the code
          SlotOf,       \* getpid() % num_slots of each client
          Addr,         \* addresses the clients use
          num_cachelines,
          LINE,         \* bytes of a cacheline: 64 in the code
          WORD,         \* bytes of an atomic's operand: 8 in the code
          Op,           \* request types the clients send
          Modulus,      \* width of a memory word
          MaxRequests,  \* bound: requests of one client
          MaxCalls      \* bound: requests of all clients together

Slot == 0..(num_slots - 1)

Request == Client \X (1..MaxRequests)

RequestType == {"NONE", "READ", "WRITE", "ATOMIC_FAA", "ATOMIC_CAS", "FENCE"}

ASSUME SlotAssumption ==
  /\ num_slots \in Nat \ {0} /\ SlotOf \in [Client -> Slot]
  /\ Addr \subseteq Nat /\ 0 \in Addr /\ num_cachelines \in Nat
  /\ LINE \in Nat \ {0} /\ WORD \in Nat \ {0}
  /\ Op \subseteq RequestType \cup {"LSA"}
  /\ Modulus \in Nat \ {0} /\ MaxRequests \in Nat \ {0} /\ MaxCalls \in Nat

Word == 0..(Modulus - 1)

VARIABLES slots,     \* the shared slots
          mem,       \* the word of entry->data at each address
          client,    \* the request each client is in
          worker,    \* the position of each worker in its scan
          executed,  \* history: times each request was executed
          answer,    \* history: what each client got back
          loaded,    \* history: the requests that a worker has found
          disturbed  \* history: the slots on which two processes got in
                     \* each other's way, or a request was given up

vars == <<slots, mem, client, worker, executed, answer, loaded, disturbed>>

history == <<executed, answer, loaded, disturbed>>

SlotType == [req_type : RequestType, resp_status : {"NONE", "OK", "ERROR"},
             addr : Addr, value : Word, data : Word,
             by : Request \cup {<<>>},     \* history: whose fields these are
             op : RequestType]             \* and what it asked for

FreshSlot == [req_type |-> "NONE", resp_status |-> "NONE",
              addr |-> 0, value |-> 0, data |-> 0, by |-> <<>>, op |-> "NONE"]

NoAnswer == [status |-> "none", value |-> 0]

(* One type invariant of the slots, the clients and the workers. *)
TypeOK ==
  /\ slots \in [Slot -> SlotType]
  /\ mem \in [Addr -> Word]
  /\ client \in [Client -> [pc : {"idle", "busy", "fill", "wait", "clear"},
                            op : Op \cup {"NONE"}, addr : Addr, n : 0..MaxRequests]]
  /\ worker \in [Worker -> [pc : {"poll", "execute", "clear"}, at : Slot,
                            req : RequestType, addr : Addr]]
  /\ executed \in [Request -> Nat]
  /\ answer \in [Request -> [status : {"none", "ok", "error", "timeout"}, value : Word]]
  /\ loaded \subseteq Request /\ disturbed \subseteq Slot

Init ==
  /\ slots = [s \in Slot |-> FreshSlot]
  /\ mem = [a \in Addr |-> 0]
  /\ client = [c \in Client |-> [pc |-> "idle", op |-> "NONE", addr |-> 0, n |-> 0]]
  /\ worker = [w \in Worker |-> [pc |-> "poll", at |-> 0, req |-> "NONE", addr |-> 0]]
  /\ executed = [r \in Request |-> 0]
  /\ answer = [r \in Request |-> NoAnswer]
  /\ loaded = {} /\ disturbed = {}

-----------------------------------------------------------------------------
(* The client: cxl_memsim_shm_request.                                     *)
Current(c) == <<c, client[c].n>>

Made == {r \in Request : r[2] <= client[r[1]].n}

request(c, op, a) ==
  /\ client[c].pc = "idle" /\ client[c].n < MaxRequests
  /\ Cardinality(Made) < MaxCalls
  /\ client' = [client EXCEPT ![c] = [pc |-> "busy", op |-> op, addr |-> a, n |-> @.n + 1]]
  /\ UNCHANGED <<slots, mem, worker, history>>

(* Operations without a slot request type are posted as NONE. *)
shm_req_type(op) == IF op \in RequestType THEN op ELSE "NONE"

(* The slot is free: fill it.  The payload is the word 1.  req_type is     *)
(* NONE while another client of the slot fills it, too, and once a worker  *)
(* has cleared the request whose answer another client has yet to take.    *)
InUse(s, c) ==
  \E d \in Client \ {c} : SlotOf[d] = s /\ client[d].pc \in {"fill", "wait"}

Disturbed(s, yes) == IF yes THEN disturbed \cup {s} ELSE disturbed

fill(c) ==
  LET s == SlotOf[c]
  IN /\ client[c].pc = "busy" /\ slots[s].req_type = "NONE"
     /\ slots' = [slots EXCEPT ![s].addr = client[c].addr, ![s].value = 1 % Modulus,
          ![s].data = IF client[c].op = "WRITE" THEN 1 % Modulus ELSE @,
          ![s].by = Current(c), ![s].op = shm_req_type(client[c].op)]
     /\ client' = [client EXCEPT ![c].pc = "fill"]
     /\ disturbed' = Disturbed(s, InUse(s, c))
     /\ UNCHANGED <<mem, worker, executed, answer, loaded>>

post(c) ==
  /\ client[c].pc = "fill"
  /\ slots' = [slots EXCEPT ![SlotOf[c]].req_type = shm_req_type(client[c].op)]
  /\ client' = [client EXCEPT ![c].pc = "wait"]
  /\ UNCHANGED <<mem, worker, history>>

(* A retry counter runs out, while waiting for the slot or for the answer; *)
(* the slot is left as it is.                                              *)
waits_for_slot_only == {"busy"}

bounded_waits == {"busy", "wait"}

time_out(c) ==
  /\ client[c].pc \in bounded_waits
  /\ client' = [client EXCEPT ![c].pc = "idle"]
  /\ answer' = [answer EXCEPT ![Current(c)].status = "timeout"]
  /\ disturbed' = Disturbed(SlotOf[c], client[c].pc = "wait")
  /\ UNCHANGED <<slots, mem, worker, executed, loaded>>

(* Reads data, and value for the atomics, then clears resp_status. *)
Result(op, slot) ==
  IF op = "READ" THEN slot.data
  ELSE IF op \in {"ATOMIC_FAA", "ATOMIC_CAS"} THEN slot.value ELSE 0

left_for_next_request(status) == status

for_next_request(status) == "NONE"

receive(c) ==
  LET s == SlotOf[c]
  IN /\ client[c].pc = "wait" /\ slots[s].resp_status # "NONE"
     /\ answer' = [answer EXCEPT ![Current(c)] =
          [status |-> IF slots[s].resp_status = "OK" THEN "ok" ELSE "error",
           value |-> Result(client[c].op, slots[s])]]
     /\ slots' = [slots EXCEPT ![s].resp_status = for_next_request(@)]
     /\ client' = [client EXCEPT ![c].pc = "clear"]
     /\ UNCHANGED <<mem, worker, executed, loaded, disturbed>>

clear(c) ==
  /\ client[c].pc = "clear"
  /\ slots' = [slots EXCEPT ![SlotOf[c]].req_type = "NONE"]
  /\ client' = [client EXCEPT ![c].pc = "idle"]
  /\ UNCHANGED <<mem, worker, history>>

-----------------------------------------------------------------------------
(* A worker: one pass of the loop of poll_pgas_shm_requests per slot.      *)
NextSlot(w) == [pc |-> "poll", at |-> (worker[w].at + 1) % num_slots,
                req |-> "NONE", addr |-> 0]

poll(w) ==
  LET s == worker[w].at
      slot == slots[s]
  IN /\ worker[w].pc = "poll"
     /\ \/ /\ slot.req_type = "NONE"
           /\ worker' = [worker EXCEPT ![w] = NextSlot(w)]
           /\ UNCHANGED <<loaded, disturbed>>
        \/ /\ slot.req_type # "NONE"
           /\ worker' = [worker EXCEPT ![w] =
                [@ EXCEPT !.pc = "execute", !.req = slot.req_type, !.addr = slot.addr]]
           /\ loaded' = loaded \cup {slot.by}
           /\ disturbed' = Disturbed(s, slot.by \in loaded)
     /\ UNCHANGED <<slots, mem, client, executed, answer>>

(* The word after the operation.  value is 1 and expected is 0. *)
Unbounded(req, word, slot) ==
  CASE req = "WRITE"      -> slot.data
    [] req = "ATOMIC_FAA" -> word + slot.value
    [] OTHER              -> word

After(req, word, slot) ==
  CASE req = "WRITE"      -> slot.data
    [] req = "ATOMIC_FAA" -> (word + slot.value) % Modulus
    [] req = "ATOMIC_CAS" -> IF word = 0 THEN slot.value ELSE word
    [] OTHER              -> word

(* Reads and the old value of the atomics go to slot->data. *)
Data(req, word, slot) ==
  IF req \in {"READ", "ATOMIC_FAA", "ATOMIC_CAS"} THEN word ELSE slot.data

(* A request whose line is beyond the memory is answered with an error, and *)
(* so is an atomic whose operand reaches beyond it.                        *)
LineOnly(req, a, slot) == a \div LINE < num_cachelines

InMemory(req, a, slot) ==
  /\ a \div LINE < num_cachelines
  /\ req \in {"ATOMIC_FAA", "ATOMIC_CAS"} => slot.addr + WORD <= num_cachelines * LINE

execute(w) ==
  LET s == worker[w].at
      a == worker[w].addr
      req == worker[w].req
      by == slots[s].by
  IN /\ worker[w].pc = "execute"
     /\ IF InMemory(req, a, slots[s])
        THEN /\ mem' = [mem EXCEPT ![a] = After(req, @, slots[s])]
             /\ slots' = [slots EXCEPT ![s].data = Data(req, mem[a], slots[s]),
                                       ![s].resp_status = "OK"]
             /\ executed' = [executed EXCEPT ![by] = IF slots[s].op = req THEN @ + 1 ELSE @]
        ELSE /\ slots' = [slots EXCEPT ![s].resp_status = "ERROR"]
             /\ UNCHANGED <<mem, executed>>
     /\ worker' = [worker EXCEPT ![w].pc = "clear"]
     /\ UNCHANGED <<client, answer, loaded, disturbed>>

clear_request(w) ==
  /\ worker[w].pc = "clear"
  /\ slots' = [slots EXCEPT ![worker[w].at].req_type = "NONE"]
  /\ worker' = [worker EXCEPT ![w] = NextSlot(w)]
  /\ UNCHANGED <<mem, client, history>>

Next ==
  \/ \E c \in Client :
       \/ \E op \in Op, a \in Addr : request(c, op, a)
       \/ fill(c) \/ post(c) \/ receive(c) \/ clear(c) \/ time_out(c)
  \/ \E w \in Worker : poll(w) \/ execute(w) \/ clear_request(w)

Spec == Init /\ [][Next]_vars

(* A client in a request runs, and its waits are bounded by the retry      *)
(* counters: 1000 polls for the slot, 10000 for the answer.  Nothing is    *)
(* assumed of the workers.                                                 *)
ClientRuns ==
  \A c \in Client : WF_vars(fill(c) \/ post(c) \/ receive(c) \/ clear(c) \/ time_out(c))

FairSpec == Spec /\ ClientRuns

-----------------------------------------------------------------------------
(* A request answered OK was executed exactly once, and one answered with  *)
(* an error not at all, on every slot that is not disturbed: no worker     *)
(* found a request on it that another had found before and not cleared, no *)
(* client filled it over another's request, and none gave up waiting for   *)
(* an answer.  What happens on the other slots does not matter.            *)
AnsweredOnce ==
  \A r \in Request :
    SlotOf[r[1]] \notin disturbed =>
      /\ answer[r].status = "ok" => executed[r] = 1
      /\ answer[r].status = "error" => executed[r] = 0

(* Every request returns to its caller, whatever the workers and the other *)
(* clients of the slot do: a lost request, a slot that stays busy and an   *)
(* operation no worker answers end in a timeout.                           *)
RequestReturns ==
  \A c \in Client : client[c].pc # "idle" ~> client[c].pc = "idle"

(* An atomic that a worker has executed leaves the word it found in        *)
(* slot->value, from which its client copies the result.  The code writes  *)
(* that word to slot->data.                                                *)
AtomicLeavesOldValue ==
  [][\A w \in Worker :
       LET s == worker[w].at
       IN execute(w) /\ slots'[s].resp_status = "OK"
            /\ worker[w].req \in {"ATOMIC_FAA", "ATOMIC_CAS"}
          => slots'[s].value = mem[worker[w].addr]]_vars

(* The refinement mapping.  A client is in a call from its request to the  *)
(* moment it copies the answer out of the slot; the request is performed   *)
(* when a worker stores resp_status.                                       *)
CallOf(c) ==
  LET slot == slots[SlotOf[c]]
      answered == client[c].pc = "wait" /\ slot.resp_status # "NONE"
  IN IF client[c].pc \in {"idle", "clear"}
     THEN [pc |-> "idle", op |-> "NONE", addr |-> 0, status |-> "NONE", value |-> 0]
     ELSE [pc |-> IF answered THEN "done" ELSE "called",
           op |-> client[c].op, addr |-> client[c].addr,
           status |-> IF answered THEN slot.resp_status ELSE "NONE",
           value |-> IF answered THEN Result(client[c].op, slot) ELSE 0]

call == [c \in Client |-> CallOf(c)]

trusting == {c \in Client : SlotOf[c] \notin disturbed}

Service == INSTANCE MemoryService WITH mem <- mem, call <- call, trusting <- trusting

(* The slot protocol implements the memory service, with any number of     *)
(* workers: however the stores to req_type, the fields and resp_status     *)
(* interleave, every request on a slot that is not disturbed takes effect  *)
(* at one instant, on the address and with the operation its client asked  *)
(* for, before its answer is taken, or never.                              *)
ImplementsService == Service!Spec
=============================================================================
