-------------------------- MODULE PgasSlotsProofs --------------------------
(***************************************************************************)
(* Proofs about PgasSlots, for any number of workers and any sharing of    *)
(* the slots: its types, exactly-once execution on every slot that is not  *)
(* disturbed, and the refinement of MemoryService.                         *)
(***************************************************************************)
EXTENDS PgasSlots, TLAPS

(* A remainder is a word: the arithmetic of the payload and of ATOMIC_FAA. *)
LEMMA ModWord == \A x \in Nat : x % Modulus \in Word
BY SlotAssumption, SMTT(30) DEF Word

(* The slot after the scan's current one is a slot. *)
LEMMA NextSlotType ==
  ASSUME NEW s \in Slot PROVE (s + 1) % num_slots \in Slot
BY SlotAssumption, SMTT(30) DEF Slot

ClientType == [pc : {"idle", "busy", "fill", "wait", "clear"},
               op : Op \cup {"NONE"}, addr : Addr, n : 0..MaxRequests]

WorkerType == [pc : {"poll", "execute", "clear"}, at : Slot,
               req : RequestType, addr : Addr]

AnswerType == [status : {"none", "ok", "error", "timeout"}, value : Word]

(* A client in a request has numbered it. *)
Numbered == \A c \in Client : client[c].pc # "idle" => client[c].n >= 1

(* A slot that is posted to, or held by a client, has been filled. *)
Known ==
  /\ \A s \in Slot : slots[s].req_type # "NONE" => slots[s].by \in Request
  /\ \A c \in Client : client[c].pc \in {"fill", "wait"} => slots[SlotOf[c]].by \in Request

Types == TypeOK /\ Numbered /\ Known

(* A filled slot stays filled, and only filled slots are posted to. *)
LEMMA KnownKept ==
  ASSUME Known, SlotOf \in [Client -> Slot],
         \A s \in Slot :
           \/ slots'[s].by \in Request
           \/ /\ slots'[s].by = slots[s].by
              /\ slots'[s].req_type \in {slots[s].req_type, "NONE"},
         \A c \in Client : client'[c].pc \in {"fill", "wait"} =>
           client[c].pc \in {"fill", "wait"} \/ slots'[SlotOf[c]].by \in Request
  PROVE Known'
BY ZenonT(60) DEF Known

(* The same for a step that changes one slot and one client. *)
LEMMA KnownPut ==
  ASSUME Known, SlotOf \in [Client -> Slot], NEW c \in Client, NEW f, NEW g,
         slots \in [Slot -> SlotType], client \in [Client -> ClientType],
         slots' = [slots EXCEPT ![SlotOf[c]] = f], client' = [client EXCEPT ![c] = g],
         \/ f.by \in Request
         \/ /\ f.by = slots[SlotOf[c]].by
            /\ f.req_type \in {slots[SlotOf[c]].req_type, "NONE"}
            /\ g.pc \in {"fill", "wait"} => client[c].pc \in {"fill", "wait"}
  PROVE Known'
<1>1. \A t \in Slot : slots'[t] = IF t = SlotOf[c] THEN f ELSE slots[t]
  BY SMT
<1>2. \A d \in Client : client'[d] = IF d = c THEN g ELSE client[d]
  BY SMT
<1> QED BY ZenonT(60), <1>1, <1>2, KnownKept

(* The initial state is well typed. *)
LEMMA StartTypes == Init => Types
<1> SUFFICES ASSUME Init PROVE Types
  OBVIOUS
<1>1. 0 \in Word /\ 0 \in Slot /\ 0 \in Addr /\ 0 \in 0..MaxRequests
  BY SlotAssumption DEF Word, Slot
<1>2. FreshSlot \in SlotType
  BY <1>1 DEF FreshSlot, SlotType, RequestType
<1>3. NoAnswer \in AnswerType
  BY <1>1 DEF NoAnswer, AnswerType
<1>4. TypeOK
  BY <1>1, <1>2, <1>3 DEF Init, TypeOK, AnswerType, RequestType
<1>5. Numbered
  BY DEF Init, Numbered
<1>6. Known
  BY Zenon DEF Init, Known, FreshSlot
<1> QED BY <1>4, <1>5, <1>6 DEF Types

(* The operation posted for a request is a request type. *)
LEMMA PostedType == \A op : shm_req_type(op) \in RequestType
BY DEF shm_req_type, RequestType

(* What an operation leaves in the word and in the slot are words. *)
LEMMA WordTypes ==
  ASSUME NEW req \in RequestType, NEW word \in Word, NEW slot \in SlotType
  PROVE After(req, word, slot) \in Word /\ Data(req, word, slot) \in Word
<1>1. slot.data \in Word /\ slot.value \in Word
  BY DEF SlotType
<1>2. word + slot.value \in Nat
  BY <1>1, SlotAssumption DEF Word
<1>3. (word + slot.value) % Modulus \in Word
  BY <1>2, ModWord
<1> QED BY <1>1, <1>3 DEF After, Data

(* Every step of a client keeps the types. *)
LEMMA ClientTypeStep ==
  ASSUME Types, NEW c \in Client,
         \/ \E op \in Op, a \in Addr : request(c, op, a)
         \/ fill(c) \/ post(c) \/ receive(c) \/ clear(c) \/ time_out(c)
  PROVE Types'
<1> DEFINE s == SlotOf[c]
<1>0. /\ slots \in [Slot -> SlotType] /\ client \in [Client -> ClientType]
      /\ answer \in [Request -> AnswerType] /\ mem \in [Addr -> Word]
      /\ worker \in [Worker -> WorkerType] /\ executed \in [Request -> Nat]
      /\ loaded \subseteq Request /\ disturbed \subseteq Slot /\ Numbered /\ Known
      /\ SlotOf \in [Client -> Slot]
  BY SlotAssumption DEF Types, TypeOK, ClientType, WorkerType, AnswerType
<1>1. s \in Slot /\ slots[s] \in SlotType /\ client[c] \in ClientType
  BY <1>0, SlotAssumption
<1> HIDE DEF s
<1> DEFINE Kept == /\ slots' \in [Slot -> SlotType] /\ client' \in [Client -> ClientType]
               /\ answer' \in [Request -> AnswerType] /\ mem' = mem
               /\ worker' = worker /\ executed' = executed /\ loaded' = loaded
               /\ disturbed' \subseteq Slot /\ Numbered' /\ Known'
<1>2. SUFFICES Kept
  BY <1>0 DEF Types, TypeOK, ClientType, WorkerType, AnswerType
<1>3. ASSUME NEW op \in Op, NEW a \in Addr, request(c, op, a) PROVE Kept
  <2> DEFINE next == [pc |-> "busy", op |-> op, addr |-> a, n |-> client[c].n + 1]
  <2>1. client[c].n \in 0..MaxRequests /\ client[c].n < MaxRequests
    BY <1>1, <1>3 DEF ClientType, request
  <2>2. next \in ClientType /\ next.n >= 1
    BY <2>1, SlotAssumption DEF ClientType
  <2>3. client' = [client EXCEPT ![c] = next]
    BY <1>3 DEF request
  <2> HIDE DEF next
  <2>4. client' \in [Client -> ClientType] /\ Numbered'
    BY SMTT(60), <1>0, <2>2, <2>3 DEF Numbered
  <2>5. \A d \in Client : client'[d].pc \in {"fill", "wait"} => client[d].pc \in {"fill", "wait"}
    <3>1. \A d \in Client : client'[d] = IF d = c THEN next ELSE client[d]
      BY <1>0, <2>3
    <3>2. next.pc = "busy"
      BY DEF next
    <3> QED BY <3>1, <3>2, Zenon
  <2>6. Known'
    BY <1>0, <1>3, <2>5, KnownKept, Zenon DEF request
  <2> QED BY <1>0, <1>3, <2>4, <2>6, Zenon DEF request, history
<1>4. CASE fill(c)
  <2> DEFINE next == [slots[s] EXCEPT !.addr = client[c].addr, !.value = 1 % Modulus,
                       !.data = IF client[c].op = "WRITE" THEN 1 % Modulus ELSE @,
                       !.by = Current(c), !.op = shm_req_type(client[c].op)]
  <2>1. Current(c) \in Request /\ 1 % Modulus \in Word
    <3>1. client[c].n \in 1..MaxRequests
      <4>1. client[c].pc = "busy"
        BY <1>4, Zenon DEF fill
      <4> QED BY SMTT(60), <1>0, <1>1, <4>1, SlotAssumption DEF Numbered, ClientType
    <3> QED BY SMTT(60), <3>1, ModWord DEF Current, Request
  <2>2. next \in SlotType
    BY ZenonT(60), <1>1, <2>1, PostedType DEF SlotType, ClientType
  <2>3. slots' = [slots EXCEPT ![s] = next]
    BY ZenonT(60), <1>0, <1>1, <1>4 DEF fill, s, SlotType
  <2>4. client' = [client EXCEPT ![c].pc = "fill"]
    BY <1>4, Zenon DEF fill
  <2> HIDE DEF next
  <2>5. slots' \in [Slot -> SlotType]
    BY <1>0, <1>1, <2>2, <2>3
  <2>6. client' \in [Client -> ClientType]
    BY <1>0, <1>1, <2>4, Zenon DEF ClientType
  <2>7. Numbered'
    BY <1>0, <1>4, <2>4, Zenon DEF Numbered, ClientType, fill
  <2>8. client' = [client EXCEPT ![c] = [client[c] EXCEPT !.pc = "fill"]]
    BY <1>0, <1>4, ZenonT(60) DEF fill
  <2>9. next.by \in Request
    BY <1>1, <2>1 DEF next, SlotType
  <2>10. Known'
    BY <1>0, <2>3, <2>8, <2>9, KnownPut, Zenon DEF s
  <2>11. disturbed' \subseteq Slot
    BY <1>0, <1>1, <1>4, Zenon DEF fill, Disturbed, s
  <2> QED BY <1>0, <1>4, <2>5, <2>6, <2>7, <2>10, <2>11, Zenon DEF fill
<1>5. CASE post(c)
  <2>1. slots' = [slots EXCEPT ![s] = [slots[s] EXCEPT !.req_type = shm_req_type(client[c].op)]]
    BY <1>0, <1>1, <1>5 DEF post, s
  <2>2. client' = [client EXCEPT ![c].pc = "wait"]
    BY <1>5 DEF post
  <2>3. [slots[s] EXCEPT !.req_type = shm_req_type(client[c].op)] \in SlotType
    BY <1>1, PostedType DEF SlotType
  <2>4. slots' \in [Slot -> SlotType]
    BY <1>0, <1>1, <2>1, <2>3
  <2>5. client' \in [Client -> ClientType]
    BY ZenonT(60), <1>0, <1>1, <2>2 DEF ClientType
  <2>6. Numbered'
    BY <1>0, <1>5, <2>2 DEF Numbered, ClientType, post
  <2>7. client' = [client EXCEPT ![c] = [client[c] EXCEPT !.pc = "wait"]]
    BY <1>0, <1>5, ZenonT(60) DEF post
  <2>8. slots[s].by \in Request
    BY <1>0, <1>5, Zenon DEF Known, post, s
  <2>9. [slots[s] EXCEPT !.req_type = shm_req_type(client[c].op)].by \in Request
    BY <1>1, <2>8 DEF SlotType
  <2>10. Known'
    BY <1>0, <2>1, <2>7, <2>9, KnownPut, Zenon DEF s
  <2> QED BY <1>0, <1>5, <2>4, <2>5, <2>6, <2>10, Zenon DEF post, history
<1>6. CASE receive(c)
  <2>1. slots' = [slots EXCEPT ![s] = [slots[s] EXCEPT !.resp_status = "NONE"]]
    BY <1>0, <1>1, <1>6 DEF receive, s, for_next_request
  <2>2. client' = [client EXCEPT ![c].pc = "clear"]
    BY <1>6 DEF receive
  <2>3. [slots[s] EXCEPT !.resp_status = "NONE"] \in SlotType
    BY <1>1 DEF SlotType
  <2>4. slots' \in [Slot -> SlotType]
    BY <1>0, <1>1, <2>1, <2>3
  <2>5. client' \in [Client -> ClientType]
    BY ZenonT(60), <1>0, <1>1, <2>2 DEF ClientType
  <2>6. Numbered'
    BY <1>0, <1>6, <2>2 DEF Numbered, ClientType, receive
  <2>7. [status |-> IF slots[s].resp_status = "OK" THEN "ok" ELSE "error",
         value |-> Result(client[c].op, slots[s])] \in AnswerType
    <3>1. slots[s].data \in Word /\ slots[s].value \in Word /\ 0 \in Word
      BY <1>1, SlotAssumption DEF SlotType, Word
    <3> QED BY <3>1 DEF Result, AnswerType
  <2>8. answer' \in [Request -> AnswerType]
    BY ZenonT(60), <1>0, <1>6, <2>7 DEF receive, s
  <2>9. client' = [client EXCEPT ![c] = [client[c] EXCEPT !.pc = "clear"]]
    BY <1>0, <1>6, ZenonT(60) DEF receive
  <2>10. /\ [slots[s] EXCEPT !.resp_status = "NONE"].by = slots[s].by
         /\ [slots[s] EXCEPT !.resp_status = "NONE"].req_type \in {slots[s].req_type, "NONE"}
         /\ [client[c] EXCEPT !.pc = "clear"].pc = "clear" /\ client[c].pc = "wait"
    BY <1>1, <1>6 DEF receive, SlotType, ClientType
  <2>11. Known'
    BY <1>0, <2>1, <2>9, <2>10, KnownPut, ZenonT(60) DEF s
  <2> QED BY <1>0, <1>6, <2>4, <2>5, <2>6, <2>8, <2>11, Zenon DEF receive
<1>7. CASE clear(c)
  <2>1. slots' = [slots EXCEPT ![s] = [slots[s] EXCEPT !.req_type = "NONE"]]
    BY <1>0, <1>1, <1>7 DEF clear, s
  <2>2. client' = [client EXCEPT ![c].pc = "idle"]
    BY <1>7 DEF clear
  <2>3. [slots[s] EXCEPT !.req_type = "NONE"] \in SlotType
    BY <1>1 DEF SlotType, RequestType
  <2>4. slots' \in [Slot -> SlotType]
    BY <1>0, <1>1, <2>1, <2>3
  <2>5. client' \in [Client -> ClientType]
    BY ZenonT(60), <1>0, <1>1, <2>2 DEF ClientType
  <2>6. Numbered'
    BY <1>0, <1>7, <2>2 DEF Numbered, ClientType, clear
  <2>9. client' = [client EXCEPT ![c] = [client[c] EXCEPT !.pc = "idle"]]
    BY <1>0, <1>7, ZenonT(60) DEF clear
  <2>10. /\ [slots[s] EXCEPT !.req_type = "NONE"].by = slots[s].by
         /\ [slots[s] EXCEPT !.req_type = "NONE"].req_type \in {slots[s].req_type, "NONE"}
         /\ [client[c] EXCEPT !.pc = "idle"].pc = "idle" /\ client[c].pc = "clear"
    BY <1>1, <1>7 DEF clear, SlotType, ClientType
  <2>11. Known'
    BY <1>0, <2>1, <2>9, <2>10, KnownPut, ZenonT(60) DEF s
  <2> QED BY <1>0, <1>7, <2>4, <2>5, <2>6, <2>11, Zenon DEF clear, history
<1>8. CASE time_out(c)
  <2>1. client' = [client EXCEPT ![c].pc = "idle"]
    BY <1>8 DEF time_out
  <2>2. client' \in [Client -> ClientType]
    BY <1>0, <1>1, <2>1, Zenon DEF ClientType
  <2>3. Numbered'
    BY <1>0, <1>8, <2>1 DEF Numbered, ClientType, time_out
  <2>4. answer' \in [Request -> AnswerType]
    BY ZenonT(60), <1>0, <1>8 DEF time_out, AnswerType
  <2>5. \A d \in Client : client'[d].pc \in {"fill", "wait"} => client[d].pc \in {"fill", "wait"}
    BY <1>0, <2>1 DEF ClientType
  <2>6. slots' = slots
    BY <1>8, Zenon DEF time_out
  <2>7. Known'
    BY <1>0, <2>5, <2>6, KnownKept, Zenon
  <2>8. disturbed' \subseteq Slot
    BY <1>0, <1>1, <1>8, Zenon DEF time_out, Disturbed, s
  <2> QED BY <1>0, <1>8, <2>2, <2>3, <2>4, <2>7, <2>8, Zenon DEF time_out
<1> QED BY <1>3, <1>4, <1>5, <1>6, <1>7, <1>8

(* Every step of a worker keeps the types. *)
LEMMA WorkerTypeStep ==
  ASSUME Types, NEW w \in Worker, poll(w) \/ execute(w) \/ clear_request(w)
  PROVE Types'
<1> DEFINE s == worker[w].at
<1>0. /\ slots \in [Slot -> SlotType] /\ client \in [Client -> ClientType]
      /\ answer \in [Request -> AnswerType] /\ mem \in [Addr -> Word]
      /\ worker \in [Worker -> WorkerType] /\ executed \in [Request -> Nat]
      /\ loaded \subseteq Request /\ disturbed \subseteq Slot /\ Numbered /\ Known
      /\ SlotOf \in [Client -> Slot]
  BY SlotAssumption DEF Types, TypeOK, ClientType, WorkerType, AnswerType
<1>1. /\ worker[w] \in WorkerType /\ s \in Slot /\ slots[s] \in SlotType
      /\ worker[w].addr \in Addr /\ worker[w].req \in RequestType
  BY <1>0 DEF WorkerType
<1>2. NextSlot(w) \in WorkerType
  BY <1>1, NextSlotType, SlotAssumption DEF NextSlot, WorkerType, RequestType
<1> HIDE DEF s
<1> DEFINE Kept == /\ slots' \in [Slot -> SlotType] /\ client' = client
                   /\ answer' = answer /\ mem' \in [Addr -> Word]
                   /\ worker' \in [Worker -> WorkerType]
                   /\ executed' \in [Request -> Nat] /\ Known'
                   /\ loaded' \subseteq Request /\ disturbed' \subseteq Slot
<1>3. SUFFICES Kept
  BY <1>0 DEF Types, TypeOK, ClientType, WorkerType, AnswerType, Numbered
<1>4. CASE poll(w)
  <2>1. [worker[w] EXCEPT !.pc = "execute", !.req = slots[s].req_type,
                          !.addr = slots[s].addr] \in WorkerType
    BY ZenonT(60), <1>1 DEF WorkerType, SlotType
  <2>2. worker' = [worker EXCEPT ![w] =
          IF slots[s].req_type = "NONE" THEN NextSlot(w)
          ELSE [worker[w] EXCEPT !.pc = "execute", !.req = slots[s].req_type,
                                 !.addr = slots[s].addr]]
    BY <1>4, Zenon DEF poll, s
  <2>3. worker' \in [Worker -> WorkerType]
    BY <1>0, <1>2, <2>1, <2>2
  <2>4. slots' = slots /\ client' = client
    BY <1>4, Zenon DEF poll
  <2>5. Known'
    BY <1>0, <2>4, Zenon DEF Known
  <2>6. loaded' \subseteq Request /\ disturbed' \subseteq Slot
    BY <1>0, <1>1, <1>4, ZenonT(60) DEF poll, Known, Disturbed, s
  <2> QED BY <1>0, <1>4, <2>3, <2>5, <2>6, Zenon DEF poll
<1> DEFINE Kin == \A t \in Slot : /\ slots'[t].by = slots[t].by
                                  /\ slots'[t].req_type \in {slots[t].req_type, "NONE"}
<1>7. ASSUME Kin, client' = client PROVE Known'
  BY <1>0, <1>7, KnownKept, ZenonT(60)
<1>5. CASE execute(w)
  <2>1. [worker[w] EXCEPT !.pc = "clear"] \in WorkerType
    BY <1>1 DEF WorkerType
  <2>2. worker' = [worker EXCEPT ![w] = [worker[w] EXCEPT !.pc = "clear"]]
    BY ZenonT(60), <1>5, <1>0 DEF execute
  <2>3. worker' \in [Worker -> WorkerType]
    BY SMTT(60), <1>0, <2>1, <2>2
  <2>4. CASE InMemory(worker[w].req, worker[w].addr, slots[s])
    <3> DEFINE a == worker[w].addr
               d == Data(worker[w].req, mem[a], slots[s])
    <3>1. mem[a] \in Word /\ a \in Addr
      BY <1>0, <1>1
    <3>2. After(worker[w].req, mem[a], slots[s]) \in Word /\ d \in Word
      BY SMTT(60), <1>1, <3>1, WordTypes
    <3>3. slots' = [slots EXCEPT ![s] = [slots[s] EXCEPT !.data = d, !.resp_status = "OK"]]
      BY ZenonT(60), <1>0, <1>1, <1>5, <2>4 DEF execute, s
    <3>4. mem' = [mem EXCEPT ![a] = After(worker[w].req, mem[a], slots[s])]
      BY ZenonT(60), <1>5, <2>4 DEF execute, s
    <3> HIDE DEF d
    <3>5. [slots[s] EXCEPT !.data = d, !.resp_status = "OK"] \in SlotType
      BY ZenonT(60), <1>1, <3>2 DEF SlotType
    <3>6. slots' \in [Slot -> SlotType]
      BY <1>0, <1>1, <3>3, <3>5
    <3>7. mem' \in [Addr -> Word]
      BY <1>0, <3>1, <3>2, <3>4
    <3>8. executed' \in [Request -> Nat]
      <4> DEFINE b == slots[s].by
                 x == IF slots[s].op = worker[w].req THEN executed[b] + 1 ELSE executed[b]
      <4>1. executed' = [executed EXCEPT ![b] = x]
        BY <1>5, <2>4, Zenon DEF execute, s
      <4>2. b \in Request => x \in Nat
        BY <1>0
      <4> HIDE DEF b, x
      <4> QED BY ZenonT(60), <1>0, <4>1, <4>2
    <3>9. Kin
      <4>1. \A t \in Slot : slots'[t] = IF t = s
              THEN [slots[s] EXCEPT !.data = d, !.resp_status = "OK"] ELSE slots[t]
        BY <1>0, <3>3
      <4>2. /\ [slots[s] EXCEPT !.data = d, !.resp_status = "OK"].by = slots[s].by
            /\ [slots[s] EXCEPT !.data = d, !.resp_status = "OK"].req_type = slots[s].req_type
        BY <1>1 DEF SlotType
      <4> QED BY <4>1, <4>2, Zenon
    <3>10. Known'
      BY <1>5, <1>7, <3>9, Zenon DEF execute
    <3> QED BY ZenonT(60), <1>0, <1>5, <2>3, <3>6, <3>7, <3>8, <3>10 DEF execute
  <2>5. CASE ~InMemory(worker[w].req, worker[w].addr, slots[s])
    <3>1. slots' = [slots EXCEPT ![s] = [slots[s] EXCEPT !.resp_status = "ERROR"]]
      BY <1>0, <1>1, <1>5, <2>5, Zenon DEF execute, s
    <3>2. [slots[s] EXCEPT !.resp_status = "ERROR"] \in SlotType
      BY <1>1 DEF SlotType
    <3>3. slots' \in [Slot -> SlotType]
      BY <1>0, <1>1, <3>1, <3>2
    <3>4. Kin
      <4>1. \A t \in Slot : slots'[t] = IF t = s
              THEN [slots[s] EXCEPT !.resp_status = "ERROR"] ELSE slots[t]
        BY <1>0, <3>1
      <4>2. /\ [slots[s] EXCEPT !.resp_status = "ERROR"].by = slots[s].by
            /\ [slots[s] EXCEPT !.resp_status = "ERROR"].req_type = slots[s].req_type
        BY <1>1 DEF SlotType
      <4> QED BY <4>1, <4>2, Zenon
    <3>5. Known'
      BY <1>5, <1>7, <3>4, Zenon DEF execute
    <3> QED BY ZenonT(60), <1>0, <1>5, <2>3, <2>5, <3>3, <3>5 DEF execute, s
  <2> QED BY <2>4, <2>5
<1>6. CASE clear_request(w)
  <2>1. slots' = [slots EXCEPT ![s] = [slots[s] EXCEPT !.req_type = "NONE"]]
    BY <1>0, <1>1, <1>6 DEF clear_request, s
  <2>2. [slots[s] EXCEPT !.req_type = "NONE"] \in SlotType
    BY <1>1 DEF SlotType, RequestType
  <2>3. slots' \in [Slot -> SlotType]
    BY <1>0, <1>1, <2>1, <2>2
  <2>4. worker' = [worker EXCEPT ![w] = NextSlot(w)]
    BY <1>6 DEF clear_request
  <2>5. worker' \in [Worker -> WorkerType]
    BY <1>0, <1>2, <2>4
  <2>6. Kin
    <3>1. \A t \in Slot : slots'[t] = IF t = s
            THEN [slots[s] EXCEPT !.req_type = "NONE"] ELSE slots[t]
      BY <1>0, <2>1
    <3>2. /\ [slots[s] EXCEPT !.req_type = "NONE"].by = slots[s].by
          /\ [slots[s] EXCEPT !.req_type = "NONE"].req_type = "NONE"
      BY <1>1 DEF SlotType
    <3> QED BY <3>1, <3>2, Zenon
  <2>7. Known'
    BY <1>6, <1>7, <2>6, Zenon DEF clear_request, history
  <2> QED BY <1>0, <1>6, <2>3, <2>5, <2>7, Zenon DEF clear_request, history
<1> QED BY <1>4, <1>5, <1>6

(* Every step, and every stuttering step, keeps the types. *)
LEMMA TypeStep == Types /\ [Next]_vars => Types'
<1> SUFFICES ASSUME Types, [Next]_vars PROVE Types'
  OBVIOUS
<1>1. CASE Next
  BY <1>1, ClientTypeStep, WorkerTypeStep DEF Next
<1>2. CASE UNCHANGED vars
  BY <1>2 DEF vars, Types, TypeOK, Numbered, Known
<1> QED BY <1>1, <1>2

(* Slots, clients and workers stay well typed, for any number of workers,  *)
(* any sharing of the slots and with timeouts: a slot never holds a word   *)
(* wider than the memory's or the fields of no request.                    *)
THEOREM SlotTypes == Spec => []TypeOK
<1>1. Init => Types
  BY StartTypes
<1>2. Types /\ [Next]_vars => Types'
  BY TypeStep
<1>3. Types => TypeOK
  BY SMTT(60) DEF Types
<1> QED BY <1>1, <1>2, <1>3, PTL DEF Spec

-----------------------------------------------------------------------------
(* What each step does, field by field.                                    *)
Elsewhere(c) ==
  /\ \A t \in Slot \ {SlotOf[c]} : slots'[t] = slots[t]
  /\ \A d \in Client \ {c} : client'[d] = client[d]

(* A client keeps its request while it moves through it. *)
SameRequest(c) ==
  client'[c].op = client[c].op /\ client'[c].addr = client[c].addr /\ client'[c].n = client[c].n

(* The slot is left as it is but for req_type. *)
SameFields(s) ==
  /\ slots'[s].resp_status = slots[s].resp_status /\ slots'[s].addr = slots[s].addr
  /\ slots'[s].value = slots[s].value /\ slots'[s].data = slots[s].data
  /\ slots'[s].by = slots[s].by /\ slots'[s].op = slots[s].op

(* A step of client c that stores f to its slot and moves to g. *)
LEMMA ClientPut ==
  ASSUME Types, NEW c \in Client, NEW f, NEW g,
         slots' = [slots EXCEPT ![SlotOf[c]] = f], client' = [client EXCEPT ![c] = g]
  PROVE Elsewhere(c) /\ slots'[SlotOf[c]] = f /\ client'[c] = g
<1>1. /\ slots \in [Slot -> SlotType] /\ client \in [Client -> ClientType]
      /\ SlotOf[c] \in Slot
  BY SlotAssumption, Zenon DEF Types, TypeOK, ClientType
<1>2. slots'[SlotOf[c]] = f /\ \A t \in Slot \ {SlotOf[c]} : slots'[t] = slots[t]
  BY <1>1
<1>3. client'[c] = g /\ \A d \in Client \ {c} : client'[d] = client[d]
  BY <1>1
<1> QED BY <1>2, <1>3, Zenon DEF Elsewhere

(* A new request touches no slot. *)
LEMMA RequestDoes ==
  ASSUME Types, NEW c \in Client, NEW op \in Op, NEW a \in Addr, request(c, op, a)
  PROVE /\ client[c].pc = "idle" /\ client'[c].pc = "busy"
        /\ client'[c].n = client[c].n + 1 /\ client'[c].op = op /\ client'[c].addr = a
        /\ Elsewhere(c) /\ slots' = slots
        /\ mem' = mem /\ worker' = worker /\ executed' = executed /\ answer' = answer
        /\ loaded' = loaded /\ disturbed' = disturbed
<1> DEFINE g == [pc |-> "busy", op |-> op, addr |-> a, n |-> client[c].n + 1]
<1>1. client \in [Client -> ClientType]
  BY Zenon DEF Types, TypeOK, ClientType
<1>2. /\ client[c].pc = "idle" /\ client' = [client EXCEPT ![c] = g] /\ slots' = slots
      /\ mem' = mem /\ worker' = worker /\ executed' = executed /\ answer' = answer
      /\ loaded' = loaded /\ disturbed' = disturbed
  BY Zenon DEF request, history
<1>3. g.pc = "busy" /\ g.op = op /\ g.addr = a /\ g.n = client[c].n + 1
  OBVIOUS
<1> HIDE DEF g
<1>4. client'[c] = g /\ \A d \in Client \ {c} : client'[d] = client[d]
  BY <1>1, <1>2
<1> QED BY <1>2, <1>3, <1>4, Zenon DEF Elsewhere

(* Filling a free slot. *)
LEMMA FillDoes ==
  ASSUME Types, NEW c \in Client, NEW s, s = SlotOf[c], fill(c)
  PROVE /\ client[c].pc = "busy" /\ client'[c].pc = "fill" /\ SameRequest(c)
        /\ slots[s].req_type = "NONE" /\ slots'[s].req_type = "NONE"
        /\ slots'[s].resp_status = slots[s].resp_status
        /\ slots'[s].addr = client[c].addr /\ slots'[s].value = 1 % Modulus
        /\ client[c].op = "WRITE" => slots'[s].data = 1 % Modulus
        /\ slots'[s].by = Current(c) /\ slots'[s].op = shm_req_type(client[c].op)
        /\ Elsewhere(c) /\ disturbed' = Disturbed(s, InUse(s, c))
        /\ mem' = mem /\ worker' = worker /\ executed' = executed /\ answer' = answer
        /\ loaded' = loaded
<1> DEFINE f == [slots[s] EXCEPT !.addr = client[c].addr, !.value = 1 % Modulus,
                   !.data = IF client[c].op = "WRITE" THEN 1 % Modulus ELSE @,
                   !.by = Current(c), !.op = shm_req_type(client[c].op)]
           g == [client[c] EXCEPT !.pc = "fill"]
<1>1. /\ slots \in [Slot -> SlotType] /\ client \in [Client -> ClientType]
      /\ s \in Slot /\ slots[s] \in SlotType /\ client[c] \in ClientType
  BY SlotAssumption, Zenon DEF Types, TypeOK, ClientType
<1>2. /\ client[c].pc = "busy" /\ slots[s].req_type = "NONE"
      /\ client' = [client EXCEPT ![c] = g] /\ slots' = [slots EXCEPT ![s] = f]
      /\ disturbed' = Disturbed(s, InUse(s, c))
      /\ mem' = mem /\ worker' = worker /\ executed' = executed /\ answer' = answer
      /\ loaded' = loaded
  BY ZenonT(60), <1>1 DEF fill
<1>3. g.pc = "fill" /\ g.op = client[c].op /\ g.addr = client[c].addr /\ g.n = client[c].n
  BY <1>1 DEF ClientType
<1>4. /\ f.req_type = slots[s].req_type /\ f.resp_status = slots[s].resp_status
      /\ f.addr = client[c].addr /\ f.value = 1 % Modulus
      /\ client[c].op = "WRITE" => f.data = 1 % Modulus
      /\ f.by = Current(c) /\ f.op = shm_req_type(client[c].op)
  BY <1>1 DEF SlotType
<1> HIDE DEF f, g
<1>5. Elsewhere(c) /\ slots'[s] = f /\ client'[c] = g
  BY <1>2, ClientPut, ZenonT(60)
<1> QED BY <1>2, <1>3, <1>4, <1>5, Zenon DEF SameRequest

(* Posting the request that was filled in. *)
LEMMA PostDoes ==
  ASSUME Types, NEW c \in Client, NEW s, s = SlotOf[c], post(c)
  PROVE /\ client[c].pc = "fill" /\ client'[c].pc = "wait" /\ SameRequest(c)
        /\ slots'[s].req_type = shm_req_type(client[c].op) /\ SameFields(s)
        /\ Elsewhere(c) /\ disturbed' = disturbed
        /\ mem' = mem /\ worker' = worker /\ executed' = executed /\ answer' = answer
        /\ loaded' = loaded
<1> DEFINE f == [slots[s] EXCEPT !.req_type = shm_req_type(client[c].op)]
           g == [client[c] EXCEPT !.pc = "wait"]
<1>1. /\ slots \in [Slot -> SlotType] /\ client \in [Client -> ClientType]
      /\ s \in Slot /\ slots[s] \in SlotType /\ client[c] \in ClientType
  BY SlotAssumption, Zenon DEF Types, TypeOK, ClientType
<1>2. /\ client[c].pc = "fill"
      /\ client' = [client EXCEPT ![c] = g] /\ slots' = [slots EXCEPT ![s] = f]
      /\ disturbed' = disturbed
      /\ mem' = mem /\ worker' = worker /\ executed' = executed /\ answer' = answer
      /\ loaded' = loaded
  BY ZenonT(60), <1>1 DEF post, history
<1>3. g.pc = "wait" /\ g.op = client[c].op /\ g.addr = client[c].addr /\ g.n = client[c].n
  BY <1>1 DEF ClientType
<1>4. /\ f.req_type = shm_req_type(client[c].op) /\ f.resp_status = slots[s].resp_status
      /\ f.addr = slots[s].addr /\ f.value = slots[s].value /\ f.data = slots[s].data
      /\ f.by = slots[s].by /\ f.op = slots[s].op
  BY <1>1 DEF SlotType
<1> HIDE DEF f, g
<1>5. Elsewhere(c) /\ slots'[s] = f /\ client'[c] = g
  BY <1>2, ClientPut, Zenon
<1> QED BY <1>2, <1>3, <1>4, <1>5, Zenon DEF SameRequest, SameFields

(* The status that the client makes of resp_status. *)
Verdict(s) == IF slots[s].resp_status = "OK" THEN "ok" ELSE "error"

(* Taking the answer. *)
LEMMA ReceiveDoes ==
  ASSUME Types, NEW c \in Client, NEW s, s = SlotOf[c], receive(c)
  PROVE /\ client[c].pc = "wait" /\ client'[c].pc = "clear" /\ SameRequest(c)
        /\ slots[s].resp_status # "NONE" /\ slots'[s].resp_status = "NONE"
        /\ slots'[s].req_type = slots[s].req_type
        /\ slots'[s].addr = slots[s].addr /\ slots'[s].value = slots[s].value
        /\ slots'[s].data = slots[s].data
        /\ slots'[s].by = slots[s].by /\ slots'[s].op = slots[s].op
        /\ Current(c) \in Request /\ \A r \in Request \ {Current(c)} : answer'[r] = answer[r]
        /\ answer'[Current(c)].status = Verdict(s)
        /\ Elsewhere(c) /\ disturbed' = disturbed
        /\ mem' = mem /\ worker' = worker /\ executed' = executed /\ loaded' = loaded
<1> DEFINE f == [slots[s] EXCEPT !.resp_status = "NONE"]
           g == [client[c] EXCEPT !.pc = "clear"]
           h == [status |-> Verdict(s),
                 value |-> Result(client[c].op, slots[s])]
<1>1. /\ slots \in [Slot -> SlotType] /\ client \in [Client -> ClientType]
      /\ s \in Slot /\ slots[s] \in SlotType /\ client[c] \in ClientType
      /\ answer \in [Request -> AnswerType] /\ Numbered
  BY SlotAssumption, Zenon DEF Types, TypeOK, ClientType, AnswerType
<1>2. /\ client[c].pc = "wait" /\ slots[s].resp_status # "NONE"
      /\ client' = [client EXCEPT ![c] = g] /\ slots' = [slots EXCEPT ![s] = f]
      /\ answer' = [answer EXCEPT ![Current(c)] = h] /\ disturbed' = disturbed
      /\ mem' = mem /\ worker' = worker /\ executed' = executed /\ loaded' = loaded
  BY ZenonT(60), <1>1 DEF receive, for_next_request, Verdict
<1>3. g.pc = "clear" /\ g.op = client[c].op /\ g.addr = client[c].addr /\ g.n = client[c].n
  BY <1>1 DEF ClientType
<1>4. /\ f.req_type = slots[s].req_type /\ f.resp_status = "NONE"
      /\ f.addr = slots[s].addr /\ f.value = slots[s].value /\ f.data = slots[s].data
      /\ f.by = slots[s].by /\ f.op = slots[s].op
  BY <1>1 DEF SlotType
<1>5. h.status = Verdict(s)
  OBVIOUS
<1> HIDE DEF f, g, h
<1>6. Elsewhere(c) /\ slots'[s] = f /\ client'[c] = g
  BY <1>2, ClientPut, Zenon
<1>7. Current(c) \in Request
  <2>1. client[c].n \in 1..MaxRequests
    BY <1>1, <1>2 DEF Numbered, ClientType
  <2> QED BY <2>1 DEF Current, Request
<1>8. answer'[Current(c)] = h /\ \A r \in Request \ {Current(c)} : answer'[r] = answer[r]
  BY <1>1, <1>2, <1>7
<1> QED BY <1>2, <1>3, <1>4, <1>5, <1>6, <1>7, <1>8, Zenon DEF SameRequest

(* Clearing req_type after the answer. *)
LEMMA ClearDoes ==
  ASSUME Types, NEW c \in Client, NEW s, s = SlotOf[c], clear(c)
  PROVE /\ client[c].pc = "clear" /\ client'[c].pc = "idle" /\ SameRequest(c)
        /\ slots'[s].req_type = "NONE" /\ SameFields(s)
        /\ Elsewhere(c) /\ disturbed' = disturbed
        /\ mem' = mem /\ worker' = worker /\ executed' = executed /\ answer' = answer
        /\ loaded' = loaded
<1> DEFINE f == [slots[s] EXCEPT !.req_type = "NONE"]
           g == [client[c] EXCEPT !.pc = "idle"]
<1>1. /\ slots \in [Slot -> SlotType] /\ client \in [Client -> ClientType]
      /\ s \in Slot /\ slots[s] \in SlotType /\ client[c] \in ClientType
  BY SlotAssumption, Zenon DEF Types, TypeOK, ClientType
<1>2. /\ client[c].pc = "clear"
      /\ client' = [client EXCEPT ![c] = g] /\ slots' = [slots EXCEPT ![s] = f]
      /\ disturbed' = disturbed
      /\ mem' = mem /\ worker' = worker /\ executed' = executed /\ answer' = answer
      /\ loaded' = loaded
  BY ZenonT(60), <1>1 DEF clear, history
<1>3. g.pc = "idle" /\ g.op = client[c].op /\ g.addr = client[c].addr /\ g.n = client[c].n
  BY <1>1 DEF ClientType
<1>4. /\ f.req_type = "NONE" /\ f.resp_status = slots[s].resp_status
      /\ f.addr = slots[s].addr /\ f.value = slots[s].value /\ f.data = slots[s].data
      /\ f.by = slots[s].by /\ f.op = slots[s].op
  BY <1>1 DEF SlotType
<1> HIDE DEF f, g
<1>5. Elsewhere(c) /\ slots'[s] = f /\ client'[c] = g
  BY <1>2, ClientPut, Zenon
<1> QED BY <1>2, <1>3, <1>4, <1>5, Zenon DEF SameRequest, SameFields

(* Giving up, which touches no slot. *)
LEMMA TimeOutDoes ==
  ASSUME Types, NEW c \in Client, time_out(c)
  PROVE /\ client[c].pc \in {"busy", "wait"} /\ client'[c].pc = "idle" /\ SameRequest(c)
        /\ Current(c) \in Request /\ \A r \in Request \ {Current(c)} : answer'[r] = answer[r]
        /\ answer'[Current(c)].status = "timeout"
        /\ Elsewhere(c) /\ slots' = slots
        /\ disturbed' = Disturbed(SlotOf[c], client[c].pc = "wait")
        /\ mem' = mem /\ worker' = worker /\ executed' = executed /\ loaded' = loaded
<1> DEFINE g == [client[c] EXCEPT !.pc = "idle"]
           h == [answer[Current(c)] EXCEPT !.status = "timeout"]
<1>1. /\ client \in [Client -> ClientType] /\ client[c] \in ClientType
      /\ answer \in [Request -> AnswerType] /\ Numbered
  BY Zenon DEF Types, TypeOK, ClientType, AnswerType
<1>2. /\ client[c].pc \in {"busy", "wait"}
      /\ client' = [client EXCEPT ![c] = g] /\ slots' = slots
      /\ disturbed' = Disturbed(SlotOf[c], client[c].pc = "wait")
      /\ mem' = mem /\ worker' = worker /\ executed' = executed /\ loaded' = loaded
  BY ZenonT(60), <1>1 DEF time_out, bounded_waits
<1>3. g.pc = "idle" /\ g.op = client[c].op /\ g.addr = client[c].addr /\ g.n = client[c].n
  BY <1>1 DEF ClientType
<1>4. Current(c) \in Request
  <2>1. client[c].n \in 1..MaxRequests
    BY <1>1, <1>2 DEF Numbered, ClientType
  <2> QED BY <2>1 DEF Current, Request
<1>5. answer' = [answer EXCEPT ![Current(c)] = h]
  BY ZenonT(60), <1>1, <1>4 DEF time_out
<1>6. h.status = "timeout"
  BY <1>1, <1>4 DEF AnswerType
<1> HIDE DEF g, h
<1>7. client'[c] = g /\ \A d \in Client \ {c} : client'[d] = client[d]
  BY <1>1, <1>2
<1>8. answer'[Current(c)] = h /\ \A r \in Request \ {Current(c)} : answer'[r] = answer[r]
  BY <1>1, <1>4, <1>5
<1> QED BY <1>2, <1>3, <1>4, <1>6, <1>7, <1>8, Zenon DEF SameRequest, Elsewhere

(* Worker v moves, and the others do not. *)
OthersWait(v) == \A w \in Worker \ {v} : worker'[w] = worker[w]

(* A step of worker v to the position g. *)
LEMMA WorkerPut ==
  ASSUME Types, NEW v \in Worker, NEW g, worker' = [worker EXCEPT ![v] = g]
  PROVE OthersWait(v) /\ worker'[v] = g
<1>1. worker \in [Worker -> WorkerType]
  BY Zenon DEF Types, TypeOK, WorkerType
<1>2. worker'[v] = g /\ \A w \in Worker \ {v} : worker'[w] = worker[w]
  BY <1>1
<1> QED BY <1>2, Zenon DEF OthersWait

(* A worker passes over a slot, or loads what is posted there. *)
LEMMA PollDoes ==
  ASSUME Types, NEW v \in Worker, NEW s, s = worker[v].at, poll(v)
  PROVE /\ s \in Slot /\ worker[v].pc = "poll" /\ OthersWait(v)
        /\ \/ /\ worker'[v].pc = "poll"
              /\ loaded' = loaded /\ disturbed' = disturbed
           \/ /\ slots[s].req_type # "NONE"
              /\ worker'[v].pc = "execute" /\ worker'[v].at = s
              /\ worker'[v].req = slots[s].req_type /\ worker'[v].addr = slots[s].addr
              /\ loaded' = loaded \cup {slots[s].by}
              /\ disturbed' = Disturbed(s, slots[s].by \in loaded)
        /\ slots' = slots /\ mem' = mem /\ client' = client
        /\ executed' = executed /\ answer' = answer
<1> DEFINE g == [worker[v] EXCEPT !.pc = "execute", !.req = slots[s].req_type,
                                  !.addr = slots[s].addr]
<1>1. worker[v] \in WorkerType
  BY Zenon DEF Types, TypeOK, WorkerType
<1>2. s \in Slot
  BY <1>1 DEF WorkerType
<1>3. /\ worker[v].pc = "poll" /\ slots' = slots /\ mem' = mem /\ client' = client
      /\ executed' = executed /\ answer' = answer
  BY Zenon DEF poll
<1>4. NextSlot(v).pc = "poll"
  BY DEF NextSlot
<1>5. g.pc = "execute" /\ g.at = s /\ g.req = slots[s].req_type /\ g.addr = slots[s].addr
  BY <1>1 DEF WorkerType
<1>6. \/ worker' = [worker EXCEPT ![v] = NextSlot(v)] /\ loaded' = loaded /\ disturbed' = disturbed
      \/ /\ slots[s].req_type # "NONE" /\ worker' = [worker EXCEPT ![v] = g]
         /\ loaded' = loaded \cup {slots[s].by}
         /\ disturbed' = Disturbed(s, slots[s].by \in loaded)
  BY ZenonT(60) DEF poll
<1> HIDE DEF g
<1>7. CASE worker' = [worker EXCEPT ![v] = NextSlot(v)] /\ loaded' = loaded /\ disturbed' = disturbed
  <2>1. OthersWait(v) /\ worker'[v] = NextSlot(v)
    BY <1>7, WorkerPut, Zenon
  <2> QED BY <1>2, <1>3, <1>4, <1>7, <2>1, Zenon
<1>8. CASE /\ slots[s].req_type # "NONE" /\ worker' = [worker EXCEPT ![v] = g]
           /\ loaded' = loaded \cup {slots[s].by}
           /\ disturbed' = Disturbed(s, slots[s].by \in loaded)
  <2>1. OthersWait(v) /\ worker'[v] = g
    BY <1>8, WorkerPut, Zenon
  <2> QED BY <1>2, <1>3, <1>5, <1>8, <2>1, Zenon
<1> QED BY <1>6, <1>7, <1>8, Zenon

(* Clearing req_type after the execution. *)
LEMMA ClearRequestDoes ==
  ASSUME Types, NEW v \in Worker, NEW s, s = worker[v].at, clear_request(v)
  PROVE /\ s \in Slot /\ worker'[v].pc = "poll" /\ OthersWait(v)
        /\ slots'[s].req_type = "NONE" /\ SameFields(s)
        /\ \A t \in Slot \ {s} : slots'[t] = slots[t]
        /\ mem' = mem /\ client' = client /\ executed' = executed /\ answer' = answer
        /\ loaded' = loaded /\ disturbed' = disturbed
<1> DEFINE f == [slots[s] EXCEPT !.req_type = "NONE"]
<1>1. worker[v] \in WorkerType /\ slots \in [Slot -> SlotType]
  BY Zenon DEF Types, TypeOK, WorkerType
<1>2. s \in Slot /\ slots[s] \in SlotType
  BY <1>1 DEF WorkerType
<1>3. /\ worker' = [worker EXCEPT ![v] = NextSlot(v)] /\ slots' = [slots EXCEPT ![s] = f]
      /\ mem' = mem /\ client' = client /\ executed' = executed /\ answer' = answer
      /\ loaded' = loaded /\ disturbed' = disturbed
  BY ZenonT(60), <1>1, <1>2 DEF clear_request, history
<1>4. /\ f.req_type = "NONE" /\ f.resp_status = slots[s].resp_status
      /\ f.addr = slots[s].addr /\ f.value = slots[s].value /\ f.data = slots[s].data
      /\ f.by = slots[s].by /\ f.op = slots[s].op
  BY <1>2 DEF SlotType
<1>5. NextSlot(v).pc = "poll"
  BY DEF NextSlot
<1> HIDE DEF f
<1>6. slots'[s] = f /\ \A t \in Slot \ {s} : slots'[t] = slots[t]
  BY <1>1, <1>2, <1>3
<1>7. OthersWait(v) /\ worker'[v] = NextSlot(v)
  BY <1>3, WorkerPut, Zenon
<1> QED BY <1>2, <1>3, <1>4, <1>5, <1>6, <1>7, Zenon DEF SameFields

(* What worker v stores for the request it has loaded from slot s. *)
Performed(v, s) ==
  LET a == worker[v].addr
      req == worker[v].req
  IN /\ InMemory(req, a, slots[s]) /\ slots'[s].resp_status = "OK"
     /\ slots'[s].data = Data(req, mem[a], slots[s])
     /\ mem' = [mem EXCEPT ![a] = After(req, mem[a], slots[s])]
     /\ executed' = [executed EXCEPT ![slots[s].by] = IF slots[s].op = req THEN @ + 1 ELSE @]

Refused(v, s) ==
  /\ ~InMemory(worker[v].req, worker[v].addr, slots[s]) /\ slots'[s].resp_status = "ERROR"
  /\ mem' = mem /\ executed' = executed

(* Executing what was loaded, and storing resp_status. *)
LEMMA ExecuteDoes ==
  ASSUME Types, NEW v \in Worker, NEW s, s = worker[v].at, execute(v)
  PROVE /\ s \in Slot /\ worker[v].addr \in Addr /\ worker[v].pc = "execute"
        /\ worker'[v].pc = "clear" /\ OthersWait(v)
        /\ slots'[s].req_type = slots[s].req_type /\ slots'[s].addr = slots[s].addr
        /\ slots'[s].value = slots[s].value
        /\ slots'[s].by = slots[s].by /\ slots'[s].op = slots[s].op
        /\ \A t \in Slot \ {s} : slots'[t] = slots[t]
        /\ \/ Performed(v, s) \/ Refused(v, s)
        /\ client' = client /\ answer' = answer
        /\ loaded' = loaded /\ disturbed' = disturbed
<1> DEFINE a == worker[v].addr
           req == worker[v].req
           d == Data(req, mem[a], slots[s])
           f == [slots[s] EXCEPT !.data = d, !.resp_status = "OK"]
           e == [slots[s] EXCEPT !.resp_status = "ERROR"]
           g == [worker[v] EXCEPT !.pc = "clear"]
<1>1. worker[v] \in WorkerType /\ slots \in [Slot -> SlotType] /\ worker \in [Worker -> WorkerType]
  BY Zenon DEF Types, TypeOK, WorkerType
<1>2. s \in Slot /\ slots[s] \in SlotType /\ a \in Addr /\ g.pc = "clear"
  BY <1>1 DEF WorkerType
<1>3. /\ worker[v].pc = "execute" /\ worker' = [worker EXCEPT ![v] = g]
      /\ client' = client /\ answer' = answer /\ loaded' = loaded /\ disturbed' = disturbed
  BY ZenonT(60), <1>1 DEF execute
<1>4. InMemory(req, a, slots[s]) =>
        /\ slots' = [slots EXCEPT ![s] = f]
        /\ mem' = [mem EXCEPT ![a] = After(req, mem[a], slots[s])]
        /\ executed' = [executed EXCEPT ![slots[s].by] =
                               IF slots[s].op = req THEN @ + 1 ELSE @]
  BY ZenonT(60), <1>1, <1>2 DEF execute
<1>5. ~InMemory(req, a, slots[s]) =>
        slots' = [slots EXCEPT ![s] = e] /\ mem' = mem /\ executed' = executed
  BY ZenonT(60), <1>1, <1>2 DEF execute
<1> HIDE DEF d
<1>6. /\ f.req_type = slots[s].req_type /\ f.resp_status = "OK" /\ f.data = d
      /\ f.addr = slots[s].addr /\ f.value = slots[s].value
      /\ f.by = slots[s].by /\ f.op = slots[s].op
  BY <1>2 DEF SlotType
<1>7. /\ e.req_type = slots[s].req_type /\ e.resp_status = "ERROR"
      /\ e.addr = slots[s].addr /\ e.value = slots[s].value
      /\ e.by = slots[s].by /\ e.op = slots[s].op
  BY <1>2 DEF SlotType
<1> HIDE DEF f, e, g
<1>8. OthersWait(v) /\ worker'[v] = g
  BY <1>3, WorkerPut, Zenon
<1>9. CASE InMemory(req, a, slots[s])
  <2>1. slots'[s] = f /\ \A t \in Slot \ {s} : slots'[t] = slots[t]
    BY <1>1, <1>2, <1>4, <1>9
  <2>2. Performed(v, s)
    BY <1>4, <1>6, <1>9, <2>1, Zenon DEF Performed, d
  <2> QED BY <1>2, <1>3, <1>6, <1>8, <2>1, <2>2, ZenonT(60)
<1>10. CASE ~InMemory(req, a, slots[s])
  <2>1. slots'[s] = e /\ \A t \in Slot \ {s} : slots'[t] = slots[t]
    BY <1>1, <1>2, <1>5, <1>10
  <2>2. Refused(v, s)
    BY <1>5, <1>7, <1>10, <2>1, Zenon DEF Refused
  <2> QED BY <1>2, <1>3, <1>7, <1>8, <2>1, <2>2, ZenonT(60)
<1> QED BY <1>9, <1>10, Zenon

-----------------------------------------------------------------------------
(* Requests begin when their client fills the slot, or gives up before, and *)
(* return when it takes the answer or gives up.                            *)
Begun(r) ==
  \/ r[2] < client[r[1]].n
  \/ r[2] = client[r[1]].n /\ client[r[1]].pc # "busy"

Returned(r) ==
  \/ r[2] < client[r[1]].n
  \/ r[2] = client[r[1]].n /\ client[r[1]].pc \in {"clear", "idle"}

(* A slot is filled by its own clients, with requests that have begun. *)
Owned ==
  \A s \in Slot : slots[s].by \in Request =>
    SlotOf[slots[s].by[1]] = s /\ Begun(slots[s].by)

(* Nothing has happened to the requests to come. *)
Fresh ==
  \A r \in Request :
    /\ ~Begun(r) => executed[r] = 0
    /\ ~Returned(r) => answer[r].status = "none"

(* Only the slots of clients are disturbed. *)
Placed == \A s \in disturbed : \E c \in Client : SlotOf[c] = s

HistoryInv == Owned /\ Fresh /\ Placed

(* What has begun and what has returned stays so. *)
Onward ==
  \A r \in Request : (Begun(r) => Begun(r)') /\ (Returned(r) => Returned(r)')

(* A client that takes a new number does so from idle, and one that keeps  *)
(* its number never goes back.                                             *)
LEMMA ClientOnward ==
  ASSUME Types, NEW c \in Client,
         \A d \in Client \ {c} : client'[d] = client[d],
         \/ client'[c].n = client[c].n + 1
         \/ /\ client'[c].n = client[c].n /\ client'[c].pc # "busy"
            /\ client[c].pc \in {"clear", "idle"} => client'[c].pc \in {"clear", "idle"}
  PROVE Onward
<1>0. \A d \in Client : client[d].n \in Nat
  <2>1. client \in [Client -> ClientType] /\ MaxRequests \in Nat
    BY SlotAssumption, Zenon DEF Types, TypeOK, ClientType
  <2> QED BY <2>1 DEF ClientType
<1> SUFFICES ASSUME NEW r \in Request
             PROVE (Begun(r) => Begun(r)') /\ (Returned(r) => Returned(r)')
  BY Zenon DEF Onward
<1>1. r[1] \in Client /\ r[2] \in Nat
  BY SlotAssumption DEF Request
<1>2. CASE r[1] # c
  BY <1>1, <1>2, Zenon DEF Begun, Returned
<1>3. CASE r[1] = c /\ client'[c].n = client[c].n + 1
  <2>1. Begun(r) \/ Returned(r) => r[2] < client[c].n \/ r[2] = client[c].n
    BY <1>3, Zenon DEF Begun, Returned
  <2>2. r[2] < client[c].n \/ r[2] = client[c].n => r[2] < client'[c].n
    BY <1>0, <1>1, <1>3
  <2> QED BY <1>3, <2>1, <2>2, Zenon DEF Begun, Returned
<1>4. CASE /\ r[1] = c /\ client'[c].n = client[c].n /\ client'[c].pc # "busy"
           /\ client[c].pc \in {"clear", "idle"} => client'[c].pc \in {"clear", "idle"}
  BY <1>4, Zenon DEF Begun, Returned
<1> QED BY <1>2, <1>3, <1>4, Zenon

(* The current request of a client, by its position. *)
LEMMA CurrentHas ==
  ASSUME NEW c \in Client
  PROVE /\ Current(c)[1] = c
        /\ client[c].pc # "busy" => Begun(Current(c))
        /\ client[c].pc \in {"clear", "idle"} => Returned(Current(c))
<1>1. Current(c)[1] = c /\ Current(c)[2] = client[c].n
  BY DEF Current
<1> QED BY <1>1, Zenon DEF Begun, Returned

(* The history is kept by a step that touches only what has begun. *)
LEMMA HistoryKept ==
  ASSUME HistoryInv, Onward,
         \A s \in Slot :
           \/ slots'[s].by = slots[s].by
           \/ SlotOf[slots'[s].by[1]] = s /\ Begun(slots[s].by)',
         \A r \in Request : executed'[r] = executed[r] \/ Begun(r),
         \A r \in Request : answer'[r] = answer[r] \/ Returned(r)',
         \A s \in disturbed' : s \in disturbed \/ \E c \in Client : SlotOf[c] = s
  PROVE HistoryInv'
<1>1. Owned'
  <2> SUFFICES ASSUME NEW s \in Slot, slots'[s].by \in Request
               PROVE SlotOf[slots'[s].by[1]] = s /\ Begun(slots[s].by)'
    BY Zenon DEF Owned
  <2>1. CASE slots'[s].by = slots[s].by
    <3>1. slots[s].by \in Request /\ SlotOf[slots[s].by[1]] = s /\ Begun(slots[s].by)
      BY <2>1, Zenon DEF HistoryInv, Owned
    <3>2. PICK r \in Request : r = slots[s].by
      BY <3>1, Zenon
    <3>3. Begun(r)'
      BY <3>1, <3>2, Zenon DEF Onward
    <3> QED BY <2>1, <3>1, <3>2, <3>3, Zenon DEF Begun
  <2> QED BY <2>1, Zenon
<1>2. Fresh'
  BY ZenonT(60) DEF HistoryInv, Fresh, Onward
<1>3. Placed'
  BY Zenon DEF HistoryInv, Placed
<1> QED BY <1>1, <1>2, <1>3, Zenon DEF HistoryInv

(* No client moves. *)
LEMMA StillOnward == ASSUME client' = client PROVE Onward
BY Zenon DEF Onward, Begun, Returned

(* Every step keeps the history invariant. *)
LEMMA HistoryStep == Types /\ HistoryInv /\ [Next]_vars => HistoryInv' /\ Onward
<1> SUFFICES ASSUME Types, HistoryInv, [Next]_vars PROVE HistoryInv' /\ Onward
  BY Zenon
<1>0. SlotOf \in [Client -> Slot]
  BY SlotAssumption
<1>1. ASSUME NEW c \in Client, NEW op \in Op, NEW a \in Addr, request(c, op, a)
      PROVE HistoryInv' /\ Onward
  <2>1. Onward
    BY <1>1, RequestDoes, ClientOnward, Zenon DEF Elsewhere
  <2> QED BY <1>1, <2>1, RequestDoes, HistoryKept, Zenon
<1>2. ASSUME NEW c \in Client, fill(c) PROVE HistoryInv' /\ Onward
  <2> DEFINE s == SlotOf[c]
  <2>1. /\ client[c].pc = "busy" /\ client'[c].pc = "fill" /\ client'[c].n = client[c].n
        /\ slots'[s].by = Current(c) /\ Elsewhere(c)
        /\ disturbed' = Disturbed(s, InUse(s, c))
        /\ executed' = executed /\ answer' = answer
    BY <1>2, FillDoes, Zenon DEF SameRequest
  <2> HIDE DEF s
  <2>2. Onward
    BY <2>1, ClientOnward, Zenon DEF Elsewhere
  <2>3. Current(c)' = Current(c)
    BY <2>1, Zenon DEF Current
  <2>4. Current(c)[1] = c /\ Begun(Current(c))'
    <3>1. Current(c)'[1] = c /\ Current(c)'[2] = client'[c].n
      BY DEF Current
    <3>2. Begun(Current(c))'
      BY <2>1, <3>1, Zenon DEF Begun
    <3> QED BY <2>3, <3>1, <3>2, Zenon
  <2>5. Begun(slots[s].by)'
    BY <2>1, <2>3, <2>4, Zenon DEF Begun
  <2>6. \A t \in Slot : \/ slots'[t].by = slots[t].by
                        \/ SlotOf[slots'[t].by[1]] = t /\ Begun(slots[t].by)'
    <3> TAKE t \in Slot
    <3>1. CASE t = s
      <4>1. SlotOf[slots'[s].by[1]] = s
        BY <2>1, <2>4, Zenon DEF s
      <4> QED BY <2>5, <3>1, <4>1, Zenon
    <3>2. CASE t # s
      BY <2>1, <3>2, Zenon DEF Elsewhere, s
    <3> QED BY <3>1, <3>2, Zenon
  <2>7. \A t \in disturbed' : t \in disturbed \/ \E d \in Client : SlotOf[d] = t
    BY <2>1, Zenon DEF Disturbed, s
  <2> QED BY <2>1, <2>2, <2>6, <2>7, HistoryKept, Zenon
<1>3. ASSUME NEW c \in Client, post(c) PROVE HistoryInv' /\ Onward
  <2>1. /\ client[c].pc = "fill" /\ client'[c].pc = "wait" /\ client'[c].n = client[c].n
        /\ slots'[SlotOf[c]].by = slots[SlotOf[c]].by /\ Elsewhere(c)
        /\ disturbed' = disturbed /\ executed' = executed /\ answer' = answer
    BY <1>3, PostDoes, Zenon DEF SameRequest, SameFields
  <2>2. Onward
    BY <2>1, ClientOnward, Zenon DEF Elsewhere
  <2>3. \A t \in Slot : slots'[t].by = slots[t].by
    BY <2>1, Zenon DEF Elsewhere
  <2> QED BY <2>1, <2>2, <2>3, HistoryKept, Zenon
<1>4. ASSUME NEW c \in Client, clear(c) PROVE HistoryInv' /\ Onward
  <2>1. /\ client[c].pc = "clear" /\ client'[c].pc = "idle" /\ client'[c].n = client[c].n
        /\ slots'[SlotOf[c]].by = slots[SlotOf[c]].by /\ Elsewhere(c)
        /\ disturbed' = disturbed /\ executed' = executed /\ answer' = answer
    BY <1>4, ClearDoes, ZenonT(60) DEF SameRequest, SameFields
  <2>2. Onward
    BY <2>1, ClientOnward, Zenon DEF Elsewhere
  <2>3. \A t \in Slot : slots'[t].by = slots[t].by
    BY <2>1, Zenon DEF Elsewhere
  <2> QED BY <2>1, <2>2, <2>3, HistoryKept, Zenon
<1>5. ASSUME NEW c \in Client, receive(c) PROVE HistoryInv' /\ Onward
  <2>1. /\ client[c].pc = "wait" /\ client'[c].pc = "clear" /\ client'[c].n = client[c].n
        /\ slots'[SlotOf[c]].by = slots[SlotOf[c]].by /\ Elsewhere(c)
        /\ \A r \in Request \ {Current(c)} : answer'[r] = answer[r]
        /\ disturbed' = disturbed /\ executed' = executed
    BY <1>5, ReceiveDoes, ZenonT(60) DEF SameRequest
  <2>2. Onward
    BY <2>1, ClientOnward, Zenon DEF Elsewhere
  <2>3. \A t \in Slot : slots'[t].by = slots[t].by
    BY <2>1, Zenon DEF Elsewhere
  <2>4. Current(c)[1] = c /\ Current(c)[2] = client[c].n
    BY DEF Current
  <2>5. \A r \in Request : answer'[r] = answer[r] \/ Returned(r)'
    BY <2>1, <2>4, Zenon DEF Returned
  <2> QED BY <2>1, <2>2, <2>3, <2>5, HistoryKept, Zenon
<1>6. ASSUME NEW c \in Client, time_out(c) PROVE HistoryInv' /\ Onward
  <2>1. /\ client[c].pc \in {"busy", "wait"} /\ client'[c].pc = "idle"
        /\ client'[c].n = client[c].n /\ slots' = slots /\ Elsewhere(c)
        /\ \A r \in Request \ {Current(c)} : answer'[r] = answer[r]
        /\ disturbed' = Disturbed(SlotOf[c], client[c].pc = "wait") /\ executed' = executed
    BY <1>6, TimeOutDoes, Zenon DEF SameRequest
  <2>2. Onward
    BY <2>1, ClientOnward, Zenon DEF Elsewhere
  <2>3. Current(c)[1] = c /\ Current(c)[2] = client[c].n
    BY DEF Current
  <2>4. \A r \in Request : answer'[r] = answer[r] \/ Returned(r)'
    BY <2>1, <2>3, Zenon DEF Returned
  <2>5. \A t \in disturbed' : t \in disturbed \/ \E d \in Client : SlotOf[d] = t
    BY <2>1, Zenon DEF Disturbed
  <2> QED BY <2>1, <2>2, <2>4, <2>5, HistoryKept, Zenon
<1>7. ASSUME NEW w \in Worker, poll(w) PROVE HistoryInv' /\ Onward
  <2> DEFINE s == worker[w].at
  <2>1. /\ s \in Slot /\ slots' = slots /\ client' = client
        /\ executed' = executed /\ answer' = answer
        /\ \/ disturbed' = disturbed
           \/ /\ slots[s].req_type # "NONE"
              /\ disturbed' = Disturbed(s, slots[s].by \in loaded)
    BY <1>7, PollDoes, Zenon
  <2> HIDE DEF s
  <2>2. slots[s].req_type # "NONE" => slots[s].by \in Request
    BY <2>1, Zenon DEF Types, Known
  <2>3. \A r \in Request : r[1] \in Client
    BY DEF Request
  <2>4. \A t \in disturbed' : t \in disturbed \/ \E d \in Client : SlotOf[d] = t
    BY <2>1, <2>2, <2>3, Zenon DEF Disturbed, HistoryInv, Owned
  <2>5. Onward
    BY <2>1, StillOnward, Zenon
  <2> QED BY <2>1, <2>4, <2>5, HistoryKept, Zenon
<1>8. ASSUME NEW w \in Worker, execute(w) PROVE HistoryInv' /\ Onward
  <2> DEFINE s == worker[w].at
             x == IF slots[s].op = worker[w].req THEN executed[slots[s].by] + 1
                  ELSE executed[slots[s].by]
  <2>1. /\ s \in Slot /\ client' = client /\ slots'[s].by = slots[s].by
        /\ \A t \in Slot \ {s} : slots'[t] = slots[t]
        /\ answer' = answer /\ disturbed' = disturbed
        /\ Performed(w, s) \/ Refused(w, s)
    BY <1>8, ExecuteDoes, ZenonT(60)
  <2>7. executed' = executed \/ executed' = [executed EXCEPT ![slots[s].by] = x]
    BY <2>1, Zenon DEF Performed, Refused
  <2> HIDE DEF s, x
  <2>2. executed \in [Request -> Nat]
    BY Zenon DEF Types, TypeOK
  <2>3. \A r \in Request : executed'[r] = executed[r] \/ r = slots[s].by
    BY <2>2, <2>7
  <2>4. \A r \in Request : executed'[r] = executed[r] \/ Begun(r)
    BY <2>1, <2>3, Zenon DEF HistoryInv, Owned
  <2>5. Onward
    BY <2>1, StillOnward, Zenon
  <2>6. \A t \in Slot : slots'[t].by = slots[t].by
    BY <2>1, Zenon
  <2> QED BY <2>1, <2>4, <2>5, <2>6, HistoryKept, Zenon
<1>9. ASSUME NEW w \in Worker, clear_request(w) PROVE HistoryInv' /\ Onward
  <2> DEFINE s == worker[w].at
  <2>1. /\ client' = client /\ slots'[s].by = slots[s].by
        /\ \A t \in Slot \ {s} : slots'[t] = slots[t]
        /\ executed' = executed /\ answer' = answer /\ disturbed' = disturbed
    BY <1>9, ClearRequestDoes, Zenon DEF SameFields
  <2> HIDE DEF s
  <2>2. Onward
    BY <2>1, StillOnward, Zenon
  <2>3. \A t \in Slot : slots'[t].by = slots[t].by
    BY <2>1, Zenon
  <2> QED BY <2>1, <2>2, <2>3, HistoryKept, Zenon
<1>10. CASE UNCHANGED vars
  <2>1. Onward
    BY <1>10, StillOnward, Zenon DEF vars
  <2> QED BY <1>10, <2>1, HistoryKept, Zenon DEF vars
<1> QED BY <1>1, <1>2, <1>3, <1>4, <1>5, <1>6, <1>7, <1>8, <1>9, <1>10, Zenon DEF Next

-----------------------------------------------------------------------------
(* The slots that are not disturbed.                                       *)
Holds(c, s) == SlotOf[c] = s /\ client[c].pc \in {"fill", "wait"}

Waits(c, s) == SlotOf[c] = s /\ client[c].pc = "wait"

Executing(w, s) == worker[w].pc = "execute" /\ worker[w].at = s

(* The fields of the slot are the ones client c filled in. *)
Filled(c, s) ==
  /\ slots[s].by = Current(c) /\ slots[s].addr = client[c].addr
  /\ slots[s].op = shm_req_type(client[c].op) /\ slots[s].value = 1 % Modulus

(* The request in the slot has not been executed, and its payload is there. *)
Pending(c, s) ==
  /\ executed[slots[s].by] = 0
  /\ client[c].op = "WRITE" => slots[s].data = 1 % Modulus

(* A request that no worker has loaded yet awaits one, and one that a      *)
(* worker has in hand awaits its answer.                                   *)
Unanswered(s) == slots[s].resp_status = "NONE" /\ \E c \in Client : Waits(c, s)

(* A slot has one holder at most, whose request it carries and whose       *)
(* answer it gives, and one worker at most has the request in hand.        *)
OneHolder(s) == \A c, d \in Client : Holds(c, s) /\ Holds(d, s) => c = d

OneExecutor(s) == \A v, w \in Worker : Executing(v, s) /\ Executing(w, s) => v = w

Loaded(s) == \A w \in Worker : Executing(w, s) =>
  /\ Unanswered(s) /\ slots[s].by \in loaded
  /\ worker[w].req = slots[s].op /\ worker[w].addr = slots[s].addr

Posted(s) == slots[s].req_type # "NONE" /\ slots[s].by \notin loaded =>
  Unanswered(s) /\ slots[s].req_type = slots[s].op

Carried(s) == \A c \in Client : Holds(c, s) =>
  Filled(c, s) /\ (slots[s].resp_status = "NONE" => Pending(c, s))

AnswerHeld(s) == slots[s].resp_status # "NONE" =>
  /\ \E c \in Client : Waits(c, s)
  /\ slots[s].by \in loaded
  /\ executed[slots[s].by] = IF slots[s].resp_status = "OK" THEN 1 ELSE 0

CalmSlot(s) ==
  OneHolder(s) /\ OneExecutor(s) /\ Loaded(s) /\ Posted(s) /\ Carried(s) /\ AnswerHeld(s)

CalmInv == \A s \in Slot : s \notin disturbed => CalmSlot(s)

(* A slot stays calm when its fields stay, but for a cleared req_type, its *)
(* holders stay, no worker loads from it and its request is not executed.  *)
LEMMA CalmKept ==
  ASSUME Types, NEW s \in Slot, CalmSlot(s), SameFields(s),
         slots'[s].req_type \in {slots[s].req_type, "NONE"},
         \A c \in Client : SlotOf[c] = s =>
           client'[c] = client[c] \/ (~Holds(c, s) /\ ~Holds(c, s)'),
         \A w \in Worker : Executing(w, s)' => worker'[w] = worker[w],
         loaded \subseteq loaded',
         slots[s].by \in Request => executed'[slots[s].by] = executed[slots[s].by]
  PROVE CalmSlot(s)'
<1>1. \A c \in Client : (Holds(c, s)' => Holds(c, s)) /\ (Waits(c, s) <=> Waits(c, s)')
  BY ZenonT(60) DEF Holds, Waits
<1>2. \A w \in Worker : Executing(w, s)' => Executing(w, s)
  BY Zenon DEF Executing
<1>3. \A c \in Client : Holds(c, s)' => client'[c] = client[c]
  BY Zenon DEF Holds
<1>4. Unanswered(s) => Unanswered(s)'
  BY <1>1, Zenon DEF Unanswered, SameFields
<1>5. OneHolder(s)' /\ OneExecutor(s)'
  BY <1>1, <1>2, Zenon DEF CalmSlot, OneHolder, OneExecutor
<1>6. Loaded(s)'
  BY <1>2, <1>4, Zenon DEF CalmSlot, Loaded, SameFields
<1>7. Posted(s)'
  BY <1>4, Zenon DEF CalmSlot, Posted, SameFields
<1>8. Carried(s)'
  <2> SUFFICES ASSUME NEW c \in Client, Holds(c, s)'
               PROVE Filled(c, s)' /\ (slots'[s].resp_status = "NONE" => Pending(c, s)')
    BY Zenon DEF Carried
  <2>1. Filled(c, s) /\ (slots[s].resp_status = "NONE" => Pending(c, s))
    BY <1>1, Zenon DEF CalmSlot, Carried
  <2>2. Filled(c, s)'
    BY <1>3, <2>1, Zenon DEF Filled, SameFields, Current
  <2>3. slots[s].by \in Request
    BY <1>1, Zenon DEF Types, Known, Holds
  <2>4. Pending(c, s) => Pending(c, s)'
    BY <1>3, <2>3, Zenon DEF Pending, SameFields
  <2> QED BY <2>1, <2>2, <2>4, Zenon DEF SameFields
<1>9. AnswerHeld(s)'
  <2>1. loaded \subseteq Request
    BY Zenon DEF Types, TypeOK
  <2> QED BY <1>1, <2>1, Zenon DEF CalmSlot, AnswerHeld, SameFields
<1> QED BY <1>5, <1>6, <1>7, <1>8, <1>9, Zenon DEF CalmSlot

(* Filling a slot that no other client holds. *)
LEMMA FillCalm ==
  ASSUME Types, HistoryInv, NEW c \in Client, NEW s \in Slot, s = SlotOf[c], fill(c),
         CalmSlot(s), s \notin disturbed'
  PROVE CalmSlot(s)'
<1>1. /\ client[c].pc = "busy" /\ client'[c].pc = "fill" /\ SameRequest(c)
      /\ slots[s].req_type = "NONE" /\ slots'[s].req_type = "NONE"
      /\ slots'[s].resp_status = slots[s].resp_status
      /\ slots'[s].addr = client[c].addr /\ slots'[s].value = 1 % Modulus
      /\ client[c].op = "WRITE" => slots'[s].data = 1 % Modulus
      /\ slots'[s].by = Current(c) /\ slots'[s].op = shm_req_type(client[c].op)
      /\ Elsewhere(c) /\ disturbed' = Disturbed(s, InUse(s, c))
      /\ worker' = worker /\ executed' = executed /\ loaded' = loaded
  BY FillDoes, ZenonT(60)
<1>2. ~InUse(s, c)
  BY <1>1, Zenon DEF Disturbed
<1>3. \A d \in Client : ~Holds(d, s)
  BY <1>1, <1>2, Zenon DEF InUse, Holds
<1>4. \A d \in Client : (Holds(d, s)' => d = c) /\ ~Waits(d, s)
  BY <1>1, <1>3, Zenon DEF Elsewhere, Holds, Waits
<1>5. slots[s].resp_status = "NONE" /\ \A w \in Worker : ~Executing(w, s)
  BY <1>4, Zenon DEF CalmSlot, AnswerHeld, Loaded, Unanswered
<1>6. \A w \in Worker : ~Executing(w, s)'
  BY <1>1, <1>5, Zenon DEF Executing
<1>7. executed[Current(c)] = 0
  <2>1. Current(c) \in Request /\ Current(c)[1] = c /\ Current(c)[2] = client[c].n
    <3>1. client[c] \in ClientType /\ client[c].n >= 1
      BY <1>1, Zenon DEF Types, TypeOK, ClientType, Numbered
    <3>2. client[c].n \in 1..MaxRequests
      BY <3>1 DEF ClientType
    <3> QED BY <3>2 DEF Current, Request
  <2>2. client[c].n \in Nat
    BY SlotAssumption, <2>1 DEF Request
  <2>3. ~(client[c].n < client[c].n)
    BY <2>2
  <2>4. ~Begun(Current(c))
    BY <1>1, <2>1, <2>3, Zenon DEF Begun
  <2> QED BY <2>1, <2>4, Zenon DEF HistoryInv, Fresh
<1>8. Current(c)' = Current(c)
  BY <1>1, Zenon DEF Current, SameRequest
<1>9. Filled(c, s)' /\ Pending(c, s)'
  BY <1>1, <1>7, <1>8, Zenon DEF Filled, Pending, SameRequest
<1>10. OneHolder(s)' /\ OneExecutor(s)' /\ Loaded(s)' /\ Posted(s)'
  BY <1>1, <1>4, <1>6, Zenon DEF OneHolder, OneExecutor, Loaded, Posted
<1>11. Carried(s)' /\ AnswerHeld(s)'
  BY <1>1, <1>4, <1>5, <1>9, Zenon DEF Carried, AnswerHeld
<1> QED BY <1>10, <1>11, Zenon DEF CalmSlot

(* Posting the request that the slot carries. *)
LEMMA PostCalm ==
  ASSUME Types, NEW c \in Client, NEW s \in Slot, s = SlotOf[c], post(c), CalmSlot(s)
  PROVE CalmSlot(s)' /\ slots[s].resp_status = "NONE"
<1>1. /\ client[c].pc = "fill" /\ client'[c].pc = "wait" /\ SameRequest(c)
      /\ slots'[s].req_type = shm_req_type(client[c].op) /\ SameFields(s)
      /\ Elsewhere(c) /\ worker' = worker /\ executed' = executed /\ loaded' = loaded
  BY PostDoes, ZenonT(60)
<1>2. \A d \in Client : (Holds(d, s)' => d = c) /\ ~Waits(d, s)
  BY <1>1, ZenonT(60) DEF CalmSlot, OneHolder, Holds, Waits, Elsewhere
<1>3. Holds(c, s) /\ Waits(c, s)'
  BY <1>1, Zenon DEF Holds, Waits
<1>4. slots[s].resp_status = "NONE" /\ \A w \in Worker : ~Executing(w, s)
  BY <1>2, Zenon DEF CalmSlot, AnswerHeld, Loaded, Unanswered
<1>5. \A w \in Worker : ~Executing(w, s)'
  BY <1>1, <1>4, Zenon DEF Executing
<1>6. Filled(c, s) /\ Pending(c, s)
  BY <1>3, <1>4, Zenon DEF CalmSlot, Carried
<1>7. Filled(c, s)' /\ Pending(c, s)'
  <2>1. Current(c)' = Current(c)
    BY <1>1, Zenon DEF Current, SameRequest
  <2> QED BY <1>1, <1>6, <2>1, Zenon DEF Filled, Pending, SameRequest, SameFields
<1>8. Unanswered(s)'
  BY <1>1, <1>3, <1>4, Zenon DEF Unanswered, SameFields
<1>9. OneHolder(s)' /\ OneExecutor(s)' /\ Loaded(s)'
  BY <1>2, <1>5, Zenon DEF OneHolder, OneExecutor, Loaded
<1>10. Posted(s)'
  BY <1>1, <1>6, <1>8, Zenon DEF Posted, Filled, SameFields
<1>11. Carried(s)' /\ AnswerHeld(s)'
  BY <1>1, <1>2, <1>4, <1>7, Zenon DEF Carried, AnswerHeld, SameFields
<1> QED BY <1>4, <1>9, <1>10, <1>11, Zenon DEF CalmSlot

(* Taking the answer leaves the slot to the next client. *)
LEMMA ReceiveCalm ==
  ASSUME Types, NEW c \in Client, NEW s \in Slot, s = SlotOf[c], receive(c), CalmSlot(s)
  PROVE /\ CalmSlot(s)' /\ \A d \in Client : Holds(d, s) => d = c
        /\ executed[Current(c)] = IF slots[s].resp_status = "OK" THEN 1 ELSE 0
<1>1. /\ client[c].pc = "wait" /\ client'[c].pc = "clear" /\ SameRequest(c)
      /\ slots[s].resp_status # "NONE" /\ slots'[s].resp_status = "NONE"
      /\ slots'[s].req_type = slots[s].req_type /\ slots'[s].by = slots[s].by
      /\ Elsewhere(c) /\ worker' = worker /\ loaded' = loaded
  BY ReceiveDoes, ZenonT(60)
<1>2. Holds(c, s)
  BY <1>1, Zenon DEF Holds
<1>3. \A d \in Client : Holds(d, s) => d = c
  BY <1>2, Zenon DEF CalmSlot, OneHolder
<1>4. \A d \in Client : ~Holds(d, s)'
  BY <1>1, <1>3, Zenon DEF Holds, Elsewhere
<1>5. \A w \in Worker : ~Executing(w, s)'
  BY <1>1, Zenon DEF CalmSlot, Loaded, Unanswered, Executing
<1>6. slots[s].by \in loaded /\ slots[s].by = Current(c)
  BY <1>1, <1>2, Zenon DEF CalmSlot, AnswerHeld, Carried, Filled
<1>7. executed[Current(c)] = IF slots[s].resp_status = "OK" THEN 1 ELSE 0
  BY <1>1, <1>6, Zenon DEF CalmSlot, AnswerHeld
<1>8. CalmSlot(s)'
  BY <1>1, <1>4, <1>5, <1>6, ZenonT(60)
     DEF CalmSlot, OneHolder, OneExecutor, Loaded, Posted, Carried, AnswerHeld
<1> QED BY <1>3, <1>7, <1>8, Zenon

(* A worker that finds a request before any other has found it is the only *)
(* one that has it in hand.                                                *)
LEMMA FindCalm ==
  ASSUME NEW v \in Worker, NEW s \in Slot, CalmSlot(s), OthersWait(v),
         slots' = slots, client' = client, executed' = executed,
         slots[s].req_type # "NONE", slots[s].by \notin loaded,
         worker'[v].pc = "execute", worker'[v].at = s,
         worker'[v].req = slots[s].req_type, worker'[v].addr = slots[s].addr,
         loaded' = loaded \cup {slots[s].by}
  PROVE CalmSlot(s)'
<1>1. Unanswered(s) /\ slots[s].req_type = slots[s].op
  BY Zenon DEF CalmSlot, Posted
<1>2. Unanswered(s)'
  BY <1>1, Zenon DEF Unanswered, Waits
<1>3. \A w \in Worker : Executing(w, s)' => w = v
  BY Zenon DEF CalmSlot, Loaded, Executing, OthersWait
<1>4. OneHolder(s)' /\ Carried(s)' /\ Posted(s)'
  <2>1. OneHolder(s)'
    BY Zenon DEF CalmSlot, OneHolder, Holds
  <2>2. Carried(s)'
    BY ZenonT(60) DEF CalmSlot, Carried, Holds, Filled, Pending, Current
  <2>3. Posted(s)'
    BY Zenon DEF Posted
  <2> QED BY <2>1, <2>2, <2>3
<1>5. OneExecutor(s)' /\ Loaded(s)'
  BY <1>1, <1>2, <1>3, Zenon DEF OneExecutor, Loaded
<1>6. AnswerHeld(s)'
  BY <1>1, Zenon DEF AnswerHeld, Unanswered
<1> QED BY <1>4, <1>5, <1>6, Zenon DEF CalmSlot

(* Worker v is about to execute the request of client c in slot s: c waits *)
(* for it, and it is what c asked for.                                     *)
HasInHand(v, s, c) ==
  /\ SlotOf[c] = s /\ client[c].pc = "wait" /\ slots[s].resp_status = "NONE"
  /\ slots[s].by = Current(c) /\ slots[s].by \in Request /\ slots[s].by \in loaded
  /\ executed[slots[s].by] = 0 /\ slots[s].value = 1 % Modulus
  /\ worker[v].addr = client[c].addr /\ slots[s].addr = client[c].addr
  /\ worker[v].req = slots[s].op /\ slots[s].op = shm_req_type(client[c].op)
  /\ client[c].op = "WRITE" => slots[s].data = 1 % Modulus
  /\ \A d \in Client : Holds(d, s) => d = c
  /\ \A w \in Worker : Executing(w, s) => w = v

(* In a calm slot, that is what a worker is about to execute. *)
LEMMA InHand ==
  ASSUME Types, NEW v \in Worker, NEW s \in Slot, s = worker[v].at,
         worker[v].pc = "execute", CalmSlot(s)
  PROVE \E c \in Client : HasInHand(v, s, c)
<1>1. Executing(v, s)
  BY Zenon DEF Executing
<1>2. PICK c \in Client : Waits(c, s)
  BY <1>1, Zenon DEF CalmSlot, Loaded, Unanswered
<1>3. /\ slots[s].resp_status = "NONE" /\ slots[s].by \in loaded
      /\ worker[v].req = slots[s].op /\ worker[v].addr = slots[s].addr
  BY <1>1, Zenon DEF CalmSlot, Loaded, Unanswered
<1>4. Holds(c, s) /\ SlotOf[c] = s /\ client[c].pc = "wait"
  BY <1>2, Zenon DEF Waits, Holds
<1>5. Filled(c, s) /\ Pending(c, s)
  BY <1>3, <1>4, Zenon DEF CalmSlot, Carried
<1>6. slots[s].by \in Request
  BY <1>3, Zenon DEF Types, TypeOK
<1>7. /\ \A d \in Client : Holds(d, s) => d = c
      /\ \A w \in Worker : Executing(w, s) => w = v
  BY <1>1, <1>4, Zenon DEF CalmSlot, OneHolder, OneExecutor
<1> QED BY <1>3, <1>4, <1>5, <1>6, <1>7, Zenon DEF Filled, Pending, HasInHand

(* Executing the request in hand answers it. *)
LEMMA ExecuteCalm ==
  ASSUME Types, NEW v \in Worker, NEW s \in Slot, s = worker[v].at, execute(v), CalmSlot(s)
  PROVE CalmSlot(s)'
<1>1. /\ worker[v].pc = "execute" /\ worker'[v].pc = "clear" /\ OthersWait(v)
      /\ slots'[s].req_type = slots[s].req_type /\ slots'[s].addr = slots[s].addr
      /\ slots'[s].value = slots[s].value
      /\ slots'[s].by = slots[s].by /\ slots'[s].op = slots[s].op
      /\ Performed(v, s) \/ Refused(v, s)
      /\ client' = client /\ loaded' = loaded
  BY ExecuteDoes, ZenonT(60)
<1>0. PICK c \in Client : HasInHand(v, s, c)
  BY <1>1, InHand, Zenon
<1>2. /\ SlotOf[c] = s /\ client[c].pc = "wait"
      /\ slots[s].by = Current(c) /\ slots[s].by \in Request /\ slots[s].by \in loaded
      /\ executed[slots[s].by] = 0 /\ worker[v].req = slots[s].op
      /\ \A d \in Client : Holds(d, s) => d = c
      /\ \A w \in Worker : Executing(w, s) => w = v
  BY <1>0, Zenon DEF HasInHand
<1>3. slots'[s].resp_status # "NONE"
  BY <1>1, Zenon DEF Performed, Refused
<1>4. executed'[slots[s].by] = IF slots'[s].resp_status = "OK" THEN 1 ELSE 0
  <2>1. CASE Refused(v, s)
    BY <1>2, <2>1, Zenon DEF Refused
  <2>2. CASE Performed(v, s)
    <3> DEFINE r == slots[s].by
    <3>1. executed' = [executed EXCEPT ![r] = executed[r] + 1]
      BY <1>2, <2>2, Zenon DEF Performed
    <3>2. executed \in [Request -> Nat] /\ r \in Request /\ executed[r] = 0
      BY <1>2, Zenon DEF Types, TypeOK
    <3> HIDE DEF r
    <3>3. executed'[r] = 1
      BY <3>1, <3>2
    <3> QED BY <2>2, <3>3, Zenon DEF Performed, r
  <2> QED BY <1>1, <2>1, <2>2, Zenon
<1>5. \A w \in Worker : ~Executing(w, s)'
  BY <1>1, <1>2, Zenon DEF Executing, OthersWait
<1>6. \A d \in Client : Holds(d, s)' <=> Holds(d, s)
  BY <1>1, Zenon DEF Holds
<1>7. Waits(c, s)'
  BY <1>1, <1>2, Zenon DEF Waits
<1>8. OneHolder(s)' /\ OneExecutor(s)' /\ Loaded(s)'
  BY <1>5, <1>6, Zenon DEF CalmSlot, OneHolder, OneExecutor, Loaded
<1>9. Posted(s)' /\ AnswerHeld(s)'
  BY <1>1, <1>2, <1>4, <1>7, Zenon DEF Posted, AnswerHeld
<1>10. Carried(s)'
  BY <1>1, <1>3, <1>6, ZenonT(60) DEF CalmSlot, Carried, Filled, Current
<1> QED BY <1>8, <1>9, <1>10, Zenon DEF CalmSlot

(* A slot that the step does not touch stays calm. *)
LEMMA CalmAway ==
  ASSUME Types, NEW s \in Slot, CalmSlot(s), slots'[s] = slots[s],
         \A c \in Client : SlotOf[c] = s =>
           client'[c] = client[c] \/ (~Holds(c, s) /\ ~Holds(c, s)'),
         \A w \in Worker : Executing(w, s)' => worker'[w] = worker[w],
         loaded \subseteq loaded',
         slots[s].by \in Request => executed'[slots[s].by] = executed[slots[s].by]
  PROVE CalmSlot(s)'
<1>1. SameFields(s) /\ slots'[s].req_type \in {slots[s].req_type, "NONE"}
  BY Zenon DEF SameFields
<1> QED BY <1>1, CalmKept, Zenon

(* What a step of a client does to a slot that is not disturbed. *)
LEMMA ClientCalm ==
  ASSUME Types, HistoryInv, NEW c \in Client,
         \/ \E op \in Op, a \in Addr : request(c, op, a)
         \/ fill(c) \/ post(c) \/ receive(c) \/ clear(c) \/ time_out(c),
         NEW s \in Slot, s \notin disturbed', s \notin disturbed => CalmSlot(s)
  PROVE s \notin disturbed /\ CalmSlot(s)'
<1>1. ASSUME NEW op \in Op, NEW a \in Addr, request(c, op, a)
      PROVE s \notin disturbed /\ CalmSlot(s)'
  <2>1. /\ client[c].pc = "idle" /\ client'[c].pc = "busy" /\ Elsewhere(c)
        /\ slots' = slots /\ worker' = worker /\ executed' = executed
        /\ loaded' = loaded /\ disturbed' = disturbed
    BY <1>1, RequestDoes, Zenon
  <2>2. \A d \in Client : client'[d] = client[d] \/ (~Holds(d, s) /\ ~Holds(d, s)')
    BY <2>1, Zenon DEF Holds, Elsewhere
  <2> QED BY <2>1, <2>2, CalmAway, Zenon
<1>2. ASSUME \A d \in Client \ {c} : client'[d] = client[d], SlotOf[c] # s,
             slots'[s] = slots[s], worker' = worker, executed' = executed,
             loaded' = loaded, s \notin disturbed
      PROVE CalmSlot(s)'
  <2>1. \A d \in Client : SlotOf[d] = s => client'[d] = client[d]
    BY <1>2, Zenon
  <2> QED BY <1>2, <2>1, CalmAway, Zenon
<1>3. CASE fill(c)
  <2>1. /\ Elsewhere(c) /\ worker' = worker /\ executed' = executed /\ loaded' = loaded
        /\ disturbed' = Disturbed(SlotOf[c], InUse(SlotOf[c], c))
    BY <1>3, FillDoes, Zenon
  <2>2. s \notin disturbed
    BY <2>1, Zenon DEF Disturbed
  <2>3. CASE s = SlotOf[c]
    BY <1>3, <2>2, <2>3, FillCalm, Zenon
  <2>4. CASE s # SlotOf[c]
    BY <1>2, <2>1, <2>2, <2>4, Zenon DEF Elsewhere
  <2> QED BY <2>2, <2>3, <2>4, Zenon
<1>4. CASE post(c)
  <2>1. /\ Elsewhere(c) /\ worker' = worker /\ executed' = executed /\ loaded' = loaded
        /\ disturbed' = disturbed
    BY <1>4, PostDoes, Zenon
  <2>2. CASE s = SlotOf[c]
    BY <1>4, <2>1, <2>2, PostCalm, Zenon
  <2>3. CASE s # SlotOf[c]
    BY <1>2, <2>1, <2>3, Zenon DEF Elsewhere
  <2> QED BY <2>1, <2>2, <2>3, Zenon
<1>5. CASE receive(c)
  <2>1. /\ Elsewhere(c) /\ worker' = worker /\ executed' = executed /\ loaded' = loaded
        /\ disturbed' = disturbed
    BY <1>5, ReceiveDoes, Zenon
  <2>2. CASE s = SlotOf[c]
    BY <1>5, <2>1, <2>2, ReceiveCalm, Zenon
  <2>3. CASE s # SlotOf[c]
    BY <1>2, <2>1, <2>3, Zenon DEF Elsewhere
  <2> QED BY <2>1, <2>2, <2>3, Zenon
<1>6. CASE clear(c)
  <2>1. /\ client[c].pc = "clear" /\ client'[c].pc = "idle" /\ Elsewhere(c)
        /\ slots'[SlotOf[c]].req_type = "NONE" /\ SameFields(SlotOf[c])
        /\ worker' = worker /\ executed' = executed /\ loaded' = loaded
        /\ disturbed' = disturbed
    BY <1>6, ClearDoes, Zenon
  <2>2. \A d \in Client : client'[d] = client[d] \/ (~Holds(d, s) /\ ~Holds(d, s)')
    BY <2>1, Zenon DEF Holds, Elsewhere
  <2>3. CASE s = SlotOf[c]
    BY <2>1, <2>2, <2>3, CalmKept, Zenon
  <2>4. CASE s # SlotOf[c]
    BY <1>2, <2>1, <2>4, Zenon DEF Elsewhere
  <2> QED BY <2>1, <2>3, <2>4, Zenon
<1>7. CASE time_out(c)
  <2>1. /\ client[c].pc \in {"busy", "wait"} /\ client'[c].pc = "idle" /\ Elsewhere(c)
        /\ slots' = slots /\ worker' = worker /\ executed' = executed /\ loaded' = loaded
        /\ disturbed' = Disturbed(SlotOf[c], client[c].pc = "wait")
    BY <1>7, TimeOutDoes, Zenon
  <2>2. s \notin disturbed
    BY <2>1, Zenon DEF Disturbed
  <2>3. CASE s = SlotOf[c]
    <3>1. client[c].pc = "busy"
      BY <2>1, <2>3, Zenon DEF Disturbed
    <3>2. \A d \in Client : client'[d] = client[d] \/ (~Holds(d, s) /\ ~Holds(d, s)')
      BY <2>1, <3>1, Zenon DEF Holds, Elsewhere
    <3> QED BY <2>1, <2>2, <3>2, CalmAway, Zenon
  <2>4. CASE s # SlotOf[c]
    BY <1>2, <2>1, <2>2, <2>4, Zenon DEF Elsewhere
  <2> QED BY <2>2, <2>3, <2>4, Zenon
<1> QED BY <1>1, <1>3, <1>4, <1>5, <1>6, <1>7, Zenon

(* What a step of a worker does to a slot that is not disturbed. *)
LEMMA WorkerCalm ==
  ASSUME Types, HistoryInv, NEW v \in Worker, poll(v) \/ execute(v) \/ clear_request(v),
         NEW s \in Slot, s \notin disturbed', s \notin disturbed => CalmSlot(s)
  PROVE s \notin disturbed /\ CalmSlot(s)'
<1> DEFINE t == worker[v].at
<1>1. CASE poll(v)
  <2>1. /\ t \in Slot /\ OthersWait(v) /\ slots' = slots /\ client' = client
        /\ executed' = executed
        /\ \/ worker'[v].pc = "poll" /\ loaded' = loaded /\ disturbed' = disturbed
           \/ /\ slots[t].req_type # "NONE"
              /\ worker'[v].pc = "execute" /\ worker'[v].at = t
              /\ worker'[v].req = slots[t].req_type /\ worker'[v].addr = slots[t].addr
              /\ loaded' = loaded \cup {slots[t].by}
              /\ disturbed' = Disturbed(t, slots[t].by \in loaded)
    BY <1>1, PollDoes, ZenonT(60)
  <2> HIDE DEF t
  <2>2. s \notin disturbed /\ CalmSlot(s) /\ loaded \subseteq loaded'
    BY <2>1, Zenon DEF Disturbed
  <2>3. CASE \A w \in Worker : Executing(w, s)' => worker'[w] = worker[w]
    BY <2>1, <2>2, <2>3, CalmAway, Zenon
  <2>4. CASE ~ \A w \in Worker : Executing(w, s)' => worker'[w] = worker[w]
    <3>1. Executing(v, s)'
      BY <2>1, <2>4, Zenon DEF OthersWait
    <3>2. worker'[v].pc = "execute" /\ worker'[v].at = s
      BY <3>1, Zenon DEF Executing
    <3>3. worker'[v].pc # "poll"
      BY <3>2
    <3>4. s = t
      BY <2>1, <3>2, <3>3, Zenon
    <3>5. slots[s].by \notin loaded
      BY <2>1, <3>3, <3>4, Zenon DEF Disturbed
    <3> QED BY <2>1, <2>2, <3>3, <3>4, <3>5, FindCalm, ZenonT(60)
  <2> QED BY <2>2, <2>3, <2>4, Zenon
<1>2. CASE execute(v)
  <2>1. /\ t \in Slot /\ worker'[v].pc = "clear" /\ OthersWait(v) /\ client' = client
        /\ \A u \in Slot \ {t} : slots'[u] = slots[u]
        /\ Performed(v, t) \/ Refused(v, t)
        /\ loaded' = loaded /\ disturbed' = disturbed
    BY <1>2, ExecuteDoes, ZenonT(60)
  <2>2. CASE s = t
    BY <1>2, <2>1, <2>2, ExecuteCalm, Zenon
  <2>3. CASE s # t
    <3> DEFINE x == IF slots[t].op = worker[v].req THEN executed[slots[t].by] + 1
                    ELSE executed[slots[t].by]
    <3>1. executed' = executed \/ executed' = [executed EXCEPT ![slots[t].by] = x]
      BY <2>1, Zenon DEF Performed, Refused
    <3> HIDE DEF x, t
    <3>2. executed \in [Request -> Nat]
      BY Zenon DEF Types, TypeOK
    <3>3. \A r \in Request : executed'[r] = executed[r] \/ r = slots[t].by
      BY <3>1, <3>2
    <3>4. slots[s].by \in Request => slots[s].by # slots[t].by
      BY <2>1, <2>3, Zenon DEF HistoryInv, Owned
    <3>5. \A w \in Worker : Executing(w, s)' => worker'[w] = worker[w]
      BY <2>1, Zenon DEF Executing, OthersWait
    <3> QED BY <2>1, <2>3, <3>3, <3>4, <3>5, CalmAway, Zenon
  <2> QED BY <2>1, <2>2, <2>3, Zenon
<1>3. CASE clear_request(v)
  <2>1. /\ worker'[v].pc = "poll" /\ OthersWait(v) /\ client' = client
        /\ slots'[t].req_type = "NONE" /\ SameFields(t)
        /\ \A u \in Slot \ {t} : slots'[u] = slots[u]
        /\ executed' = executed /\ loaded' = loaded /\ disturbed' = disturbed
    BY <1>3, ClearRequestDoes, ZenonT(60)
  <2> HIDE DEF t
  <2>2. \A w \in Worker : Executing(w, s)' => worker'[w] = worker[w]
    BY <2>1, Zenon DEF Executing, OthersWait
  <2>3. CASE s = t
    BY <2>1, <2>2, <2>3, CalmKept, Zenon
  <2>4. CASE s # t
    BY <2>1, <2>2, <2>4, CalmAway, Zenon
  <2> QED BY <2>1, <2>3, <2>4, Zenon
<1> QED BY <1>1, <1>2, <1>3, Zenon

(* Every step keeps the slots calm that it does not disturb. *)
LEMMA CalmStep ==
  Types /\ HistoryInv /\ CalmInv /\ [Next]_vars => CalmInv' /\ disturbed \subseteq disturbed'
<1> SUFFICES ASSUME Types, HistoryInv, CalmInv, [Next]_vars
             PROVE CalmInv' /\ disturbed \subseteq disturbed'
  BY Zenon
<1>0. disturbed \subseteq Slot
  BY Zenon DEF Types, TypeOK
<1>1. ASSUME NEW s \in Slot, s \notin disturbed' PROVE s \notin disturbed /\ CalmSlot(s)'
  <2>1. s \notin disturbed => CalmSlot(s)
    BY Zenon DEF CalmInv
  <2>2. ASSUME NEW c \in Client,
               \/ \E op \in Op, a \in Addr : request(c, op, a)
               \/ fill(c) \/ post(c) \/ receive(c) \/ clear(c) \/ time_out(c)
        PROVE s \notin disturbed /\ CalmSlot(s)'
    BY <1>1, <2>1, <2>2, ClientCalm, Zenon
  <2>3. ASSUME NEW w \in Worker, poll(w) \/ execute(w) \/ clear_request(w)
        PROVE s \notin disturbed /\ CalmSlot(s)'
    BY <1>1, <2>1, <2>3, WorkerCalm, Zenon
  <2>4. CASE UNCHANGED vars
    <3>1. /\ slots' = slots /\ client' = client /\ worker' = worker
          /\ executed' = executed /\ loaded' = loaded /\ disturbed' = disturbed
      BY <2>4, Zenon DEF vars
    <3> QED BY <1>1, <2>1, <3>1, CalmAway, Zenon
  <2> QED BY <2>2, <2>3, <2>4, Zenon DEF Next
<1> QED BY <1>0, <1>1, Zenon DEF CalmInv

(* An answered request on a slot that is not disturbed is not executed     *)
(* again, and was executed as its answer says.                             *)
LEMMA AnsweredStep ==
  ASSUME Types, HistoryInv, CalmInv, AnsweredOnce, [Next]_vars
  PROVE AnsweredOnce'
<1>0. disturbed \subseteq disturbed'
  BY CalmStep, Zenon
<1> SUFFICES ASSUME NEW r \in Request, SlotOf[r[1]] \notin disturbed'
             PROVE /\ answer'[r].status = "ok" => executed'[r] = 1
                   /\ answer'[r].status = "error" => executed'[r] = 0
  BY Zenon DEF AnsweredOnce
<1>1. SlotOf[r[1]] \notin disturbed
  BY <1>0, Zenon
<1>2. /\ answer[r].status = "ok" => executed[r] = 1
      /\ answer[r].status = "error" => executed[r] = 0
  BY <1>1, Zenon DEF AnsweredOnce
<1>3. CASE answer'[r] = answer[r] /\ executed'[r] = executed[r]
  BY <1>2, <1>3, Zenon
<1>4. ASSUME NEW c \in Client, receive(c)
      PROVE /\ answer'[r].status = "ok" => executed'[r] = 1
            /\ answer'[r].status = "error" => executed'[r] = 0
  <2>0. PICK s : s = SlotOf[c]
    OBVIOUS
  <2>1. /\ \A q \in Request \ {Current(c)} : answer'[q] = answer[q]
        /\ answer'[Current(c)].status = Verdict(s)
        /\ executed' = executed
    BY <1>4, <2>0, ReceiveDoes, ZenonT(60)
  <2>2. s \in Slot /\ Current(c)[1] = c
    BY <2>0, SlotAssumption DEF Current
  <2>3. CASE r = Current(c)
    <3>1. CalmSlot(s)
      BY <1>1, <2>0, <2>2, <2>3, Zenon DEF CalmInv
    <3>2. executed[Current(c)] = IF slots[s].resp_status = "OK" THEN 1 ELSE 0
      BY <1>4, <2>0, <2>2, <3>1, ReceiveCalm, Zenon
    <3> QED BY <2>1, <2>3, <3>2 DEF Verdict
  <2> QED BY <1>3, <2>1, <2>3, Zenon
<1>5. ASSUME NEW c \in Client, time_out(c)
      PROVE /\ answer'[r].status = "ok" => executed'[r] = 1
            /\ answer'[r].status = "error" => executed'[r] = 0
  <2>1. /\ \A q \in Request \ {Current(c)} : answer'[q] = answer[q]
        /\ answer'[Current(c)].status = "timeout" /\ executed' = executed
    BY <1>5, TimeOutDoes, Zenon
  <2> QED BY <1>3, <2>1, Zenon
<1>6. ASSUME NEW w \in Worker, execute(w)
      PROVE /\ answer'[r].status = "ok" => executed'[r] = 1
            /\ answer'[r].status = "error" => executed'[r] = 0
  <2> DEFINE s == worker[w].at
             x == IF slots[s].op = worker[w].req THEN executed[slots[s].by] + 1
                  ELSE executed[slots[s].by]
  <2>1. /\ s \in Slot /\ worker[w].pc = "execute" /\ answer' = answer
        /\ Performed(w, s) \/ Refused(w, s)
    BY <1>6, ExecuteDoes, ZenonT(60)
  <2>2. executed' = executed \/ executed' = [executed EXCEPT ![slots[s].by] = x]
    BY <2>1, Zenon DEF Performed, Refused
  <2>3. executed \in [Request -> Nat]
    BY Zenon DEF Types, TypeOK
  <2>4. CASE r # slots[s].by
    <3> HIDE DEF s, x
    <3>1. executed'[r] = executed[r]
      BY <2>2, <2>3, <2>4
    <3> QED BY <1>3, <2>1, <3>1, Zenon
  <2>5. CASE r = slots[s].by
    <3>1. SlotOf[r[1]] = s
      BY <2>1, <2>5, Zenon DEF HistoryInv, Owned
    <3>2. CalmSlot(s)
      BY <1>1, <2>1, <3>1, Zenon DEF CalmInv
    <3>0. PICK c \in Client : HasInHand(w, s, c)
      BY <2>1, <3>2, InHand, Zenon
    <3>3. client[c].pc = "wait" /\ slots[s].by = Current(c)
      BY <3>0, Zenon DEF HasInHand
    <3>4. r[1] = c /\ r[2] = client[c].n
      BY <2>5, <3>3 DEF Current
    <3>5. client[c].n \in Nat
      BY <3>4, SlotAssumption DEF Request
    <3>6. ~(client[c].n < client[c].n)
      BY <3>5
    <3>7. ~Returned(r)
      BY <3>3, <3>4, <3>6, Zenon DEF Returned
    <3>8. answer[r].status = "none"
      BY <3>7, Zenon DEF HistoryInv, Fresh
    <3> QED BY <2>1, <3>8
  <2> QED BY <2>4, <2>5, Zenon
<1>7. ASSUME NEW c \in Client,
             \/ \E op \in Op, a \in Addr : request(c, op, a)
             \/ fill(c) \/ post(c) \/ clear(c)
      PROVE answer' = answer /\ executed' = executed
  BY <1>7, Zenon DEF request, fill, post, clear, history
<1>8. ASSUME NEW w \in Worker, poll(w) \/ clear_request(w)
      PROVE answer' = answer /\ executed' = executed
  BY <1>8, Zenon DEF poll, clear_request, history
<1>9. CASE UNCHANGED vars
  BY <1>3, <1>9, Zenon DEF vars
<1> QED BY <1>3, <1>4, <1>5, <1>6, <1>7, <1>8, <1>9, ZenonT(60) DEF Next

Inductive == Types /\ HistoryInv /\ CalmInv /\ AnsweredOnce

(* Nothing is posted, loaded or disturbed at the start. *)
LEMMA StartCalm == Init => Inductive
<1> SUFFICES ASSUME Init PROVE Inductive
  BY Zenon
<1>1. \A s \in Slot : slots[s] = FreshSlot
  BY Zenon DEF Init
<1>2. FreshSlot.req_type = "NONE" /\ FreshSlot.resp_status = "NONE" /\ FreshSlot.by = <<>>
  BY DEF FreshSlot
<1>3. <<>> \notin Request
  BY SMT DEF Request
<1>4. \A c \in Client : client[c].pc = "idle"
  BY DEF Init
<1>5. \A w \in Worker : worker[w].pc = "poll"
  BY DEF Init
<1>6. \A r \in Request : executed[r] = 0 /\ answer[r].status = "none"
  BY DEF Init, NoAnswer
<1>7. HistoryInv
  BY <1>1, <1>2, <1>3, <1>6, Zenon DEF HistoryInv, Owned, Fresh, Placed, Init
<1>8. \A s \in Slot : /\ \A c \in Client : ~Holds(c, s) /\ ~Waits(c, s)
                     /\ \A w \in Worker : ~Executing(w, s)
  <2>1. \A c \in Client : client[c].pc # "wait" /\ client[c].pc # "fill"
    BY <1>4
  <2>2. \A w \in Worker : worker[w].pc # "execute"
    BY <1>5
  <2> QED BY <2>1, <2>2, Zenon DEF Holds, Waits, Executing
<1>9. CalmInv
  BY <1>1, <1>2, <1>8, ZenonT(60)
     DEF CalmInv, CalmSlot, OneHolder, OneExecutor, Loaded, Posted, Carried, AnswerHeld
<1>10. AnsweredOnce
  BY <1>6 DEF AnsweredOnce
<1> QED BY <1>7, <1>9, <1>10, StartTypes, Zenon DEF Inductive

(* The invariant is inductive. *)
LEMMA InductiveStep == Inductive /\ [Next]_vars => Inductive'
<1> SUFFICES ASSUME Inductive, [Next]_vars PROVE Inductive'
  BY Zenon
<1>1. Types' /\ HistoryInv' /\ CalmInv'
  BY TypeStep, HistoryStep, CalmStep, Zenon DEF Inductive
<1>2. AnsweredOnce'
  BY AnsweredStep, Zenon DEF Inductive
<1> QED BY <1>1, <1>2, Zenon DEF Inductive

(* Exactly-once execution, for any number of workers and any sharing of    *)
(* the slots: on a slot where no request was found twice, none was         *)
(* overwritten and none was given up after it was posted, a request that   *)
(* is answered OK was executed once, by one worker, and one answered with  *)
(* an error not at all.                                                    *)
THEOREM SlotsExactlyOnce == Spec => []AnsweredOnce
<1>1. Init => Inductive
  BY StartCalm
<1>2. Inductive /\ [Next]_vars => Inductive'
  BY InductiveStep
<1>3. Inductive => AnsweredOnce
  BY Zenon DEF Inductive
<1> QED BY <1>1, <1>2, <1>3, PTL DEF Spec

-----------------------------------------------------------------------------
(* The refinement of MemoryService.                                        *)
Hidden == mem' = mem /\ call' = call /\ trusting' = trusting

(* A client that does not move keeps its call, unless it waits and the     *)
(* fields of the answer change.                                            *)
LEMMA SameCall ==
  ASSUME NEW d \in Client, client'[d] = client[d],
         client[d].pc = "wait" =>
           /\ slots'[SlotOf[d]].resp_status = slots[SlotOf[d]].resp_status
           /\ slots'[SlotOf[d]].data = slots[SlotOf[d]].data
           /\ slots'[SlotOf[d]].value = slots[SlotOf[d]].value
  PROVE CallOf(d)' = CallOf(d)
<1>1. CASE client[d].pc = "wait"
  BY <1>1, ZenonT(60) DEF CallOf, Result
<1>2. CASE client[d].pc # "wait"
  BY <1>2, ZenonT(60) DEF CallOf
<1> QED BY <1>1, <1>2, Zenon

(* The calls, when the call of one client changes. *)
LEMMA CallUpdate ==
  ASSUME NEW c \in Client, \A d \in Client \ {c} : CallOf(d)' = CallOf(d)
  PROVE call' = [call EXCEPT ![c] = CallOf(c)']
BY Zenon DEF call

(* The calls, when none changes. *)
LEMMA CallsKept == ASSUME \A d \in Client : CallOf(d)' = CallOf(d) PROVE call' = call
BY Zenon DEF call

(* Trust is lost with the slot only. *)
LEMMA TrustKept == ASSUME disturbed' = disturbed PROVE trusting' = trusting
BY Zenon DEF trusting

(* A step on a disturbed slot is a step of the clients without trust.      *)
LEMMA StrayStep ==
  ASSUME HistoryInv', disturbed \subseteq disturbed', NEW s \in disturbed',
         \A d \in Client : SlotOf[d] # s => CallOf(d)' = CallOf(d),
         \/ mem' = mem
         \/ \E a \in Addr, v \in Word : mem' = [mem EXCEPT ![a] = v]
  PROVE Service!Next
<1>1. PICK c \in Client : SlotOf[c] = s
  BY Zenon DEF HistoryInv, Placed
<1>2. c \notin trusting' /\ trusting' \subseteq trusting /\ trusting' # Client
  BY <1>1, ZenonT(60) DEF trusting
<1>3. \A d \in trusting' : call'[d] = call[d]
  <2> TAKE d \in trusting'
  <2>1. d \in Client /\ SlotOf[d] # s
    BY Zenon DEF trusting
  <2> QED BY <2>1, Zenon DEF call
<1>4. Word = Service!Word
  BY DEF Word, Service!Word
<1>5. Service!Stray
  BY <1>2, <1>3, <1>4, Zenon DEF Service!Stray
<1> QED BY <1>5, Zenon DEF Service!Next

(* The calls of the clients of the other slots do not change in a step of  *)
(* a client.                                                               *)
LEMMA CallsElsewhere ==
  ASSUME NEW c \in Client, Elsewhere(c)
  PROVE \A d \in Client : SlotOf[d] # SlotOf[c] => CallOf(d)' = CallOf(d)
<1> SUFFICES ASSUME NEW d \in Client, SlotOf[d] # SlotOf[c] PROVE CallOf(d)' = CallOf(d)
  BY Zenon
<1>1. SlotOf[d] \in Slot /\ d # c
  BY SlotAssumption
<1>2. client'[d] = client[d] /\ slots'[SlotOf[d]] = slots[SlotOf[d]]
  BY <1>1, Zenon DEF Elsewhere
<1> QED BY <1>2, SameCall, Zenon

(* A new request is a call. *)
LEMMA RequestCalls ==
  ASSUME Types, NEW c \in Client, NEW op \in Op, NEW a \in Addr, request(c, op, a)
  PROVE Service!Next
<1>1. /\ client[c].pc = "idle" /\ client'[c].pc = "busy"
      /\ client'[c].op = op /\ client'[c].addr = a
      /\ Elsewhere(c) /\ slots' = slots /\ mem' = mem /\ disturbed' = disturbed
  BY RequestDoes, ZenonT(60)
<1>2. \A d \in Client \ {c} : CallOf(d)' = CallOf(d)
  BY <1>1, SameCall, Zenon DEF Elsewhere
<1>3. CallOf(c)' = [pc |-> "called", op |-> op, addr |-> a, status |-> "NONE", value |-> 0]
  BY <1>1, Zenon DEF CallOf
<1>4. call' = [call EXCEPT ![c] = [pc |-> "called", op |-> op, addr |-> a,
                                   status |-> "NONE", value |-> 0]]
  BY <1>2, <1>3, CallUpdate, Zenon
<1>5. call[c] = [pc |-> "idle", op |-> "NONE", addr |-> 0, status |-> "NONE", value |-> 0]
  BY <1>1, Zenon DEF call, CallOf
<1>6. call[c].pc = "idle"
  BY <1>5
<1>7. Service!Call(c, op, a)
  BY <1>1, <1>4, <1>6, TrustKept, Zenon DEF Service!Call
<1> QED BY <1>7, Zenon DEF Service!Next

(* Filling is invisible, or disturbs the slot. *)
LEMMA FillIsHidden ==
  ASSUME Inductive, HistoryInv', disturbed \subseteq disturbed', NEW c \in Client, fill(c)
  PROVE Hidden \/ Service!Next
<1>0. PICK s \in Slot : s = SlotOf[c]
  BY SlotAssumption, Zenon
<1>1. /\ client[c].pc = "busy" /\ client'[c].pc = "fill" /\ SameRequest(c)
      /\ Elsewhere(c) /\ disturbed' = Disturbed(s, InUse(s, c)) /\ mem' = mem
  BY <1>0, FillDoes, Zenon DEF Inductive
<1>2. CASE s \in disturbed'
  BY <1>0, <1>1, <1>2, CallsElsewhere, StrayStep, Zenon
<1>3. CASE s \notin disturbed'
  <2>1. ~InUse(s, c) /\ disturbed' = disturbed
    BY <1>1, <1>3, Zenon DEF Disturbed
  <2>2. \A d \in Client \ {c} : CallOf(d)' = CallOf(d)
    <3> TAKE d \in Client \ {c}
    <3>1. CASE SlotOf[d] = s
      <4>1. client[d].pc # "wait"
        BY <2>1, <3>1, Zenon DEF InUse
      <4> QED BY <1>1, <4>1, SameCall, Zenon DEF Elsewhere
    <3>2. CASE SlotOf[d] # s
      BY <1>0, <1>1, <3>2, CallsElsewhere, Zenon
    <3> QED BY <3>1, <3>2, Zenon
  <2>3. CallOf(c)' = CallOf(c)
    BY <1>1, ZenonT(60) DEF CallOf, SameRequest
  <2>4. \A d \in Client : CallOf(d)' = CallOf(d)
    BY <2>2, <2>3, Zenon
  <2> QED BY <1>1, <2>1, <2>4, CallsKept, TrustKept, Zenon DEF Hidden
<1> QED BY <1>2, <1>3, Zenon

(* Posting is invisible, since no answer is in the slot. *)
LEMMA PostIsHidden ==
  ASSUME Inductive, HistoryInv', disturbed \subseteq disturbed', NEW c \in Client, post(c)
  PROVE Hidden \/ Service!Next
<1>0. PICK s \in Slot : s = SlotOf[c]
  BY SlotAssumption, Zenon
<1>1. /\ client[c].pc = "fill" /\ client'[c].pc = "wait" /\ SameRequest(c) /\ SameFields(s)
      /\ Elsewhere(c) /\ disturbed' = disturbed /\ mem' = mem
  BY <1>0, PostDoes, Zenon DEF Inductive
<1>2. CASE s \in disturbed'
  BY <1>0, <1>1, <1>2, CallsElsewhere, StrayStep, Zenon
<1>3. CASE s \notin disturbed'
  <2>1. slots[s].resp_status = "NONE"
    BY <1>0, <1>1, <1>3, PostCalm, Zenon DEF Inductive, CalmInv
  <2>2. \A d \in Client \ {c} : CallOf(d)' = CallOf(d)
    <3> TAKE d \in Client \ {c}
    <3>1. CASE SlotOf[d] = s
      BY <1>1, <3>1, SameCall, Zenon DEF Elsewhere, SameFields
    <3>2. CASE SlotOf[d] # s
      BY <1>0, <1>1, <3>2, CallsElsewhere, Zenon
    <3> QED BY <3>1, <3>2, Zenon
  <2>3. CallOf(c)' = CallOf(c)
    BY <1>0, <1>1, <2>1, ZenonT(60) DEF CallOf, SameRequest, SameFields
  <2>4. \A d \in Client : CallOf(d)' = CallOf(d)
    BY <2>2, <2>3, Zenon
  <2> QED BY <1>1, <2>4, CallsKept, TrustKept, Zenon DEF Hidden
<1> QED BY <1>2, <1>3, Zenon

(* Clearing req_type is invisible. *)
LEMMA ClearIsHidden == ASSUME Types, NEW c \in Client, clear(c) PROVE Hidden
<1>0. PICK s \in Slot : s = SlotOf[c]
  BY SlotAssumption, Zenon
<1>1. /\ client[c].pc = "clear" /\ client'[c].pc = "idle" /\ SameFields(s)
      /\ Elsewhere(c) /\ disturbed' = disturbed /\ mem' = mem
  BY <1>0, ClearDoes, Zenon
<1>2. \A d \in Client \ {c} : CallOf(d)' = CallOf(d)
  <2> TAKE d \in Client \ {c}
  <2>1. CASE SlotOf[d] = s
    BY <1>1, <2>1, SameCall, Zenon DEF Elsewhere, SameFields
  <2>2. CASE SlotOf[d] # s
    BY <1>0, <1>1, <2>2, CallsElsewhere, Zenon
  <2> QED BY <2>1, <2>2, Zenon
<1>3. CallOf(c)' = CallOf(c)
  BY <1>1, Zenon DEF CallOf
<1>4. \A d \in Client : CallOf(d)' = CallOf(d)
  BY <1>2, <1>3, Zenon
<1> QED BY <1>1, <1>4, CallsKept, TrustKept, Zenon DEF Hidden

(* A client leaves its call. *)
LEMMA Returns ==
  ASSUME NEW c \in Client, client[c].pc \in {"busy", "wait"},
         client'[c].pc \in {"idle", "clear"}, mem' = mem, disturbed' = disturbed,
         \A d \in Client \ {c} : CallOf(d)' = CallOf(d)
  PROVE Service!Next
<1>1. CallOf(c)' = Service!NoCall
  BY Zenon DEF CallOf, Service!NoCall
<1>2. call' = [call EXCEPT ![c] = Service!NoCall]
  BY <1>1, CallUpdate, ZenonT(60)
<1>3. call[c].pc \in {"called", "done"}
  <2> DEFINE slot == slots[SlotOf[c]]
  <2>1. CASE client[c].pc = "wait" /\ slot.resp_status # "NONE"
    <3>1. call[c] = [pc |-> "done", op |-> client[c].op, addr |-> client[c].addr,
                     status |-> slot.resp_status, value |-> Result(client[c].op, slot)]
      BY <2>1, Zenon DEF call, CallOf
    <3> QED BY <3>1
  <2>2. CASE ~(client[c].pc = "wait" /\ slot.resp_status # "NONE")
    <3>1. call[c] = [pc |-> "called", op |-> client[c].op, addr |-> client[c].addr,
                     status |-> "NONE", value |-> 0]
      BY <2>2, Zenon DEF call, CallOf
    <3> QED BY <3>1
  <2> QED BY <2>1, <2>2, Zenon
<1>4. Service!Return(c)
  BY <1>2, <1>3, TrustKept, Zenon DEF Service!Return
<1> QED BY <1>4, Zenon DEF Service!Next

(* Taking the answer is the return of the call. *)
LEMMA ReceiveReturns ==
  ASSUME Inductive, HistoryInv', disturbed \subseteq disturbed', NEW c \in Client, receive(c)
  PROVE Service!Next
<1>0. PICK s \in Slot : s = SlotOf[c]
  BY SlotAssumption, Zenon
<1>1. /\ client[c].pc = "wait" /\ client'[c].pc = "clear"
      /\ Elsewhere(c) /\ disturbed' = disturbed /\ mem' = mem
  BY <1>0, ReceiveDoes, Zenon DEF Inductive
<1>2. CASE s \in disturbed'
  BY <1>0, <1>1, <1>2, CallsElsewhere, StrayStep, Zenon
<1>3. CASE s \notin disturbed'
  <2>1. \A d \in Client : Holds(d, s) => d = c
    BY <1>0, <1>1, <1>3, ReceiveCalm, Zenon DEF Inductive, CalmInv
  <2>2. \A d \in Client \ {c} : CallOf(d)' = CallOf(d)
    <3> TAKE d \in Client \ {c}
    <3>1. CASE SlotOf[d] = s
      <4>1. client[d].pc # "wait"
        BY <2>1, <3>1, Zenon DEF Holds
      <4> QED BY <1>1, <4>1, SameCall, Zenon DEF Elsewhere
    <3>2. CASE SlotOf[d] # s
      BY <1>0, <1>1, <3>2, CallsElsewhere, Zenon
    <3> QED BY <3>1, <3>2, Zenon
  <2> QED BY <1>1, <2>2, Returns, Zenon
<1> QED BY <1>2, <1>3, Zenon

(* So is giving up before the slot was free; giving up later disturbs it.  *)
LEMMA TimeOutReturns ==
  ASSUME Inductive, HistoryInv', disturbed \subseteq disturbed', NEW c \in Client, time_out(c)
  PROVE Service!Next
<1>1. /\ client[c].pc \in {"busy", "wait"} /\ client'[c].pc = "idle"
      /\ Elsewhere(c) /\ slots' = slots /\ mem' = mem
      /\ disturbed' = Disturbed(SlotOf[c], client[c].pc = "wait")
  BY TimeOutDoes, Zenon DEF Inductive
<1>2. CASE client[c].pc = "wait"
  <2>1. SlotOf[c] \in disturbed'
    BY <1>1, <1>2, Zenon DEF Disturbed
  <2> QED BY <1>1, <2>1, CallsElsewhere, StrayStep, Zenon
<1>3. CASE client[c].pc # "wait"
  <2>1. disturbed' = disturbed
    BY <1>1, <1>3, Zenon DEF Disturbed
  <2>2. \A d \in Client \ {c} : CallOf(d)' = CallOf(d)
    BY <1>1, SameCall, Zenon DEF Elsewhere
  <2> QED BY <1>1, <2>1, <2>2, Returns, Zenon
<1> QED BY <1>2, <1>3, Zenon

(* The scan and the late clear of req_type are invisible; a request found  *)
(* twice disturbs the slot.                                                *)
LEMMA ScanIsHidden ==
  ASSUME Inductive, HistoryInv', disturbed \subseteq disturbed',
         NEW w \in Worker, poll(w) \/ clear_request(w)
  PROVE Hidden \/ Service!Next
<1>0. PICK s \in Slot : s = worker[w].at
  BY Zenon, PollDoes, ClearRequestDoes DEF Inductive
<1>1. CASE poll(w)
  <2>1. /\ slots' = slots /\ mem' = mem /\ client' = client
        /\ disturbed' = disturbed \/ disturbed' = Disturbed(s, slots[s].by \in loaded)
    BY <1>0, <1>1, PollDoes, Zenon DEF Inductive
  <2>2. \A d \in Client : CallOf(d)' = CallOf(d)
    BY <2>1, SameCall, Zenon
  <2>3. CASE disturbed' = disturbed
    BY <2>1, <2>2, <2>3, CallsKept, TrustKept, Zenon DEF Hidden
  <2>4. CASE disturbed' # disturbed
    <3>1. s \in disturbed'
      BY <2>1, <2>4, Zenon DEF Disturbed
    <3> QED BY <2>1, <2>2, <3>1, StrayStep, Zenon
  <2> QED BY <2>3, <2>4, Zenon
<1>2. CASE clear_request(w)
  <2>1. /\ SameFields(s) /\ \A t \in Slot \ {s} : slots'[t] = slots[t]
        /\ mem' = mem /\ client' = client /\ disturbed' = disturbed
    BY <1>0, <1>2, ClearRequestDoes, Zenon DEF Inductive
  <2>2. \A d \in Client : SlotOf[d] \in Slot
    BY SlotAssumption
  <2>3. \A d \in Client : CallOf(d)' = CallOf(d)
    <3> TAKE d \in Client
    <3>1. CASE SlotOf[d] = s
      BY <2>1, <3>1, SameCall, Zenon DEF SameFields
    <3>2. CASE SlotOf[d] # s
      BY <2>1, <2>2, <3>2, SameCall, Zenon
    <3> QED BY <3>1, <3>2, Zenon
  <2> QED BY <2>1, <2>3, CallsKept, TrustKept, Zenon DEF Hidden
<1> QED BY <1>1, <1>2, Zenon

(* What a worker does for a request is what the service does for it.       *)
LEMMA SameEffect ==
  ASSUME NEW op, NEW req, req = shm_req_type(op), NEW slot,
         slot.value = 1 % Modulus, op = "WRITE" => slot.data = 1 % Modulus
  PROVE /\ \A word : After(req, word, slot) = Service!Effect(op, word)
        /\ InMemory(req, slot.addr, slot) <=> Service!InMemory(op, slot.addr)
<1>1. \/ op \in RequestType /\ req = op
      \/ op \notin RequestType /\ req = "NONE"
  BY Zenon DEF shm_req_type
<1>2. op \notin RequestType => op \notin {"WRITE", "READ", "ATOMIC_FAA", "ATOMIC_CAS"}
  BY DEF RequestType
<1>3. \A o \in {"WRITE", "READ", "ATOMIC_FAA", "ATOMIC_CAS"} : req = o <=> op = o
  BY <1>1, <1>2
<1>4. \A word : After(req, word, slot) = Service!Effect(op, word)
  BY <1>3, ZenonT(60) DEF After, Service!Effect, Service!Payload
<1>5. InMemory(req, slot.addr, slot) <=> Service!InMemory(op, slot.addr)
  BY <1>3, ZenonT(60) DEF InMemory, Service!InMemory
<1> QED BY <1>4, <1>5, Zenon

(* A read leaves the word it found in the slot. *)
LEMMA ReadData ==
  ASSUME NEW slot PROVE \A word : Data(shm_req_type("READ"), word, slot) = word
BY DEF Data, shm_req_type, RequestType

(* The result that the client will take is the reply of the service. *)
LEMMA SameReply ==
  ASSUME NEW op, NEW word, NEW slot, slot.value = 1 % Modulus,
         op = "READ" => slot.data = word
  PROVE Result(op, slot) = Service!Reply(op, word)
<1>1. CASE op = "READ"
  BY <1>1, ZenonT(60) DEF Result, Service!Reply
<1>2. CASE op \in {"ATOMIC_FAA", "ATOMIC_CAS"}
  BY <1>2, ZenonT(60) DEF Result, Service!Reply, Service!Payload
<1>3. CASE op # "READ" /\ op \notin {"ATOMIC_FAA", "ATOMIC_CAS"}
  BY <1>3, ZenonT(60) DEF Result, Service!Reply
<1> QED BY <1>1, <1>2, <1>3, Zenon

(* Storing resp_status is the instant at which the request is performed,   *)
(* or refused; on a disturbed slot it may be any request.                  *)
LEMMA ExecutePerforms ==
  ASSUME Inductive, Types', HistoryInv', disturbed \subseteq disturbed',
         NEW w \in Worker, execute(w)
  PROVE Service!Next
<1>0. PICK s \in Slot : s = worker[w].at
  BY Zenon, ExecuteDoes DEF Inductive
<1> DEFINE a == worker[w].addr
           req == worker[w].req
<1>1. /\ a \in Addr /\ worker[w].pc = "execute"
      /\ slots'[s].value = slots[s].value
      /\ \A t \in Slot \ {s} : slots'[t] = slots[t]
      /\ Performed(w, s) \/ Refused(w, s)
      /\ client' = client /\ disturbed' = disturbed
  BY <1>0, ExecuteDoes, ZenonT(60) DEF Inductive
<1>2. \A d \in Client : SlotOf[d] # s => CallOf(d)' = CallOf(d)
  <2>1. \A d \in Client : SlotOf[d] \in Slot
    BY SlotAssumption
  <2> QED BY <1>1, <2>1, SameCall, Zenon
<1>3. /\ mem \in [Addr -> Word] /\ slots[s] \in SlotType /\ slots'[s] \in SlotType
      /\ req \in RequestType
  <2>1. /\ mem \in [Addr -> Word] /\ slots[s] \in SlotType /\ slots'[s] \in SlotType
        /\ worker[w] \in WorkerType
    BY Zenon DEF Inductive, Types, TypeOK, WorkerType
  <2>2. \A x \in WorkerType : x.req \in RequestType
    BY DEF WorkerType
  <2> QED BY <2>1, <2>2, Zenon
<1>4. CASE s \in disturbed'
  <2>1. mem' = mem \/ \E b \in Addr, v \in Word : mem' = [mem EXCEPT ![b] = v]
    <3>1. mem[a] \in Word
      BY <1>1, <1>3
    <3>2. After(req, mem[a], slots[s]) \in Word
      BY <1>3, <3>1, WordTypes, Zenon
    <3> QED BY <1>1, <3>2, ZenonT(60) DEF Performed, Refused
  <2> QED BY <1>2, <1>4, <2>1, StrayStep, Zenon
<1>5. CASE s \notin disturbed'
  <2>1. CalmSlot(s)
    BY <1>1, <1>5, Zenon DEF Inductive, CalmInv
  <2>0. PICK c \in Client : HasInHand(w, s, c)
    BY <1>0, <1>1, <2>1, InHand, Zenon DEF Inductive
  <2> DEFINE op == client[c].op
             v == Result(op, slots'[s])
  <2>2. /\ SlotOf[c] = s /\ client[c].pc = "wait" /\ slots[s].resp_status = "NONE"
        /\ slots[s].value = 1 % Modulus
        /\ a = client[c].addr /\ slots[s].addr = a /\ req = shm_req_type(op)
        /\ op = "WRITE" => slots[s].data = 1 % Modulus
        /\ \A d \in Client : Holds(d, s) => d = c
    BY <2>0, Zenon DEF HasInHand
  <2>3. /\ After(req, mem[a], slots[s]) = Service!Effect(op, mem[a])
        /\ op = "READ" => Data(req, mem[a], slots[s]) = mem[a]
        /\ InMemory(req, a, slots[s]) <=> Service!InMemory(op, a)
    <3> HIDE DEF a, req, op
    <3>0. PICK slot : slot = slots[s]
      OBVIOUS
    <3>1. /\ slot.value = 1 % Modulus /\ req = shm_req_type(op)
          /\ op = "WRITE" => slot.data = 1 % Modulus
      BY <2>2, <3>0, Zenon
    <3>3. \A word : After(req, word, slot) = Service!Effect(op, word)
      BY <3>1, SameEffect, ZenonT(60)
    <3>4. op = "READ" => Data(req, mem[a], slot) = mem[a]
      BY <3>1, ReadData, Zenon
    <3>2. InMemory(req, slots[s].addr, slots[s]) <=> Service!InMemory(op, slots[s].addr)
      BY <2>2, SameEffect, Zenon
    <3> QED BY <2>2, <3>0, <3>2, <3>3, <3>4, Zenon
  <2>4. call[c] = [pc |-> "called", op |-> op, addr |-> a, status |-> "NONE", value |-> 0]
    BY <2>2, Zenon DEF call, CallOf
  <2>5. call[c].pc = "called" /\ call[c].op = op /\ call[c].addr = a
    BY <2>4
  <2>6. \A d \in Client \ {c} : CallOf(d)' = CallOf(d)
    <3> TAKE d \in Client \ {c}
    <3>1. CASE SlotOf[d] = s
      <4>1. client[d].pc # "wait"
        BY <2>2, <3>1, Zenon DEF Holds
      <4> QED BY <1>1, <4>1, SameCall, Zenon
    <3>2. CASE SlotOf[d] # s
      BY <1>2, <3>2, Zenon
    <3> QED BY <3>1, <3>2, Zenon
  <2>7. call' = [call EXCEPT ![c] = CallOf(c)']
    BY <2>6, CallUpdate, Zenon
  <2>8. slots'[s].resp_status # "NONE" =>
          CallOf(c)' = Service!Answered(c, slots'[s].resp_status, v)
    <3>1. slots'[s].resp_status # "NONE" =>
            CallOf(c)' = [pc |-> "done", op |-> op, addr |-> a,
                          status |-> slots'[s].resp_status, value |-> v]
      BY <1>1, <2>2, Zenon DEF CallOf
    <3> HIDE DEF v, op, a
    <3> QED BY <2>5, <3>1, Zenon DEF Service!Answered
  <2>9. trusting' = trusting
    BY <1>1, TrustKept, Zenon
  <2>10. CASE Performed(w, s)
    <3>1. /\ InMemory(req, a, slots[s]) /\ slots'[s].resp_status = "OK"
          /\ slots'[s].data = Data(req, mem[a], slots[s])
          /\ mem' = [mem EXCEPT ![a] = After(req, mem[a], slots[s])]
      BY <2>10, Zenon DEF Performed
    <3>2. v = Service!Reply(op, mem[a])
      <4>1. slots'[s].value = 1 % Modulus /\ (op = "READ" => slots'[s].data = mem[a])
        BY <1>1, <2>2, <2>3, <3>1, Zenon
      <4> QED BY <4>1, SameReply, Zenon
    <3> HIDE DEF v, op, a, req
    <3>3. call' = [call EXCEPT ![c] = Service!Answered(c, "OK", Service!Reply(op, mem[a]))]
      BY <2>7, <2>8, <3>1, <3>2, Zenon
    <3>4. mem' = [mem EXCEPT ![a] = Service!Effect(op, mem[a])]
      BY <2>3, <3>1, Zenon
    <3>5. Service!Perform(c)
      BY <2>3, <2>5, <2>9, <3>1, <3>3, <3>4, ZenonT(60) DEF Service!Perform
    <3> QED BY <3>5, Zenon DEF Service!Next
  <2>11. CASE Refused(w, s)
    <3>1. ~InMemory(req, a, slots[s]) /\ slots'[s].resp_status = "ERROR" /\ mem' = mem
      BY <2>11, Zenon DEF Refused
    <3>2. v \in Service!Word
      <4>1. slots'[s].data \in Word /\ slots'[s].value \in Word
        BY <1>3 DEF SlotType
      <4>2. 0 \in Word
        BY SlotAssumption DEF Word
      <4> QED BY <4>1, <4>2, Zenon DEF Result, Word, Service!Word
    <3> HIDE DEF v, op, a, req
    <3>3. call' = [call EXCEPT ![c] = Service!Answered(c, "ERROR", v)]
      BY <2>7, <2>8, <3>1, Zenon
    <3>4. Service!Refuse(c)
      BY <2>3, <2>5, <2>9, <3>1, <3>2, <3>3, ZenonT(60) DEF Service!Refuse
    <3> QED BY <3>4, Zenon DEF Service!Next
  <2> QED BY <1>1, <2>10, <2>11, Zenon
<1> QED BY <1>4, <1>5, Zenon

(* The slots implement the memory service, for any number of clients,      *)
(* workers, slots and requests and any sharing of the slots: a request on  *)
(* a slot that is not disturbed is performed at one instant, the one at    *)
(* which a worker stores resp_status, with the operation and the address   *)
(* its client posted, before its answer is taken, or never.                *)
THEOREM SlotsImplementService == Spec => ImplementsService
<1>1. Init => Service!Init
  <2> SUFFICES ASSUME Init PROVE Service!Init
    BY Zenon
  <2>1. \A c \in Client : CallOf(c) = Service!NoCall
    BY Zenon DEF Init, CallOf, Service!NoCall
  <2>2. call = [c \in Client |-> Service!NoCall]
    BY <2>1, Zenon DEF call
  <2>3. mem = [a \in Addr |-> 0] /\ trusting = Client
    BY Zenon DEF Init, trusting
  <2> QED BY <2>2, <2>3, Zenon DEF Service!Init
<1>2. Init => Inductive
  BY StartCalm
<1>3. Inductive /\ [Next]_vars => Inductive'
  BY InductiveStep
<1>4. Inductive /\ Inductive' /\ [Next]_vars => [Service!Next]_(Service!vars)
  <2> SUFFICES ASSUME Inductive, Inductive', [Next]_vars PROVE Hidden \/ Service!Next
    BY Zenon DEF Hidden, Service!vars
  <2>0. Types /\ Types' /\ HistoryInv' /\ disturbed \subseteq disturbed'
    BY CalmStep, Zenon DEF Inductive
  <2>1. ASSUME NEW c \in Client, NEW op \in Op, NEW a \in Addr, request(c, op, a)
        PROVE Service!Next
    BY <2>0, <2>1, RequestCalls, Zenon
  <2>2. ASSUME NEW c \in Client, fill(c) \/ post(c) PROVE Hidden \/ Service!Next
    BY <2>0, <2>2, FillIsHidden, PostIsHidden, Zenon
  <2>3. ASSUME NEW c \in Client, clear(c) PROVE Hidden
    BY <2>0, <2>3, ClearIsHidden, Zenon
  <2>4. ASSUME NEW c \in Client, receive(c) \/ time_out(c) PROVE Service!Next
    BY <2>0, <2>4, ReceiveReturns, TimeOutReturns, Zenon
  <2>5. ASSUME NEW w \in Worker, poll(w) \/ clear_request(w) PROVE Hidden \/ Service!Next
    BY <2>0, <2>5, ScanIsHidden, Zenon
  <2>6. ASSUME NEW w \in Worker, execute(w) PROVE Service!Next
    BY <2>0, <2>6, ExecutePerforms, Zenon
  <2>7. ASSUME UNCHANGED vars PROVE Hidden
    <3>1. mem' = mem /\ disturbed' = disturbed /\ client' = client /\ slots' = slots
      BY <2>7, Zenon DEF vars
    <3>2. \A d \in Client : CallOf(d)' = CallOf(d)
      BY <3>1, SameCall, Zenon
    <3> QED BY <3>1, <3>2, CallsKept, TrustKept, Zenon DEF Hidden
  <2> QED BY <2>1, <2>2, <2>3, <2>4, <2>5, <2>6, <2>7, Zenon DEF Next
<1> QED BY <1>1, <1>2, <1>3, <1>4, PTL DEF Spec, ImplementsService, Service!Spec
=============================================================================
