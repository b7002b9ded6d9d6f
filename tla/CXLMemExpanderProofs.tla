------------------------ MODULE CXLMemExpanderProofs ------------------------
(***************************************************************************)
(* For every number of threads and every queue size: the queue overruns    *)
(* its limit by at most one request per thread that is between the test    *)
(* and the push, and no credit is created until insert changes the type of *)
(* a request that is being issued.                                         *)
(***************************************************************************)
EXTENDS CXLMemExpander, FiniteSetTheorems, TLAPS

Point == {"idle", "process", "issue", "consume", "accept", "push", "entry", "erase",
          "replace", "add", "cache", "rebuild", "lookup"}

(* The steps of insert after process_queued_requests. *)
Inserting == {"accept", "push", "entry", "erase", "replace", "add"}

Call == [pc : Point, op : {"none", "insert", "latency"}, addr : Addr \cup {0}, time : Time]

(* Who is in the loop of process_queued_requests holds queue_mutex_, and   *)
(* found a request at the front.                                           *)
LoopHoldsLock ==
  \A w \in Worker : /\ call[w].pc \in {"issue", "consume"} => queue_mutex = w
                    /\ call[w].pc = "consume" => request_queue # <<>>

(* The later steps of insert have an address; memory_mutex serialises it.  *)
InsertHasAddress ==
  /\ \A w \in Worker : call[w].pc \in Inserting =>
       call[w].op = "insert" /\ call[w].addr \in Addr
  /\ \A w \in Worker : call[w].op = "none" => call[w].pc = "idle"
  /\ Locked => \A v, w \in Worker : call[v].op = "insert" /\ call[w].op = "insert" => v = w

Pushing == {w \in Worker : call[w].pc = "push"}

ExpanderInv ==
  TypeOK /\ LoopHoldsLock /\ InsertHasAddress /\ QueueWithinLimit

(* release_credit never takes a counter out of its range. *)
LEMMA ReleaseRange ==
  \A c \in 0..(CreditModulus - 1), n \in Nat :
    release_credit(c, n) \in 0..(CreditModulus - 1)
BY ExpanderAssumption DEF release_credit

(* Any set of addresses, or of threads, has a size. *)
LEMMA Sizes ==
  /\ \A S \in SUBSET Addr : IsFiniteSet(S) /\ Cardinality(S) \in Nat
  /\ \A S \in SUBSET Worker : IsFiniteSet(S) /\ Cardinality(S) \in Nat
                              /\ Cardinality(S) <= Cardinality(Worker)
BY ExpanderAssumption, FS_Subset, FS_CardinalityType, Zenon

(* The queue part of the type invariant is preserved by the issue loop and *)
(* by the steps of insert.                                                 *)
LEMMA QueueType ==
  ASSUME TypeOK, LoopHoldsLock, InsertHasAddress, [Next]_vars
  PROVE  /\ request_queue' \in Seq(CXLRequest)
         /\ in_flight' \in [Addr -> Issued \cup {None}]
         /\ credits' \in [BOOLEAN -> 0..(CreditModulus - 1)]
<1> DEFINE Goal == /\ request_queue' \in Seq(CXLRequest)
                   /\ in_flight' \in [Addr -> Issued \cup {None}]
                   /\ credits' \in [BOOLEAN -> 0..(CreditModulus - 1)]
<1>0. /\ request_queue \in Seq(CXLRequest)
      /\ in_flight \in [Addr -> Issued \cup {None}]
      /\ credits \in [BOOLEAN -> 0..(CreditModulus - 1)]
      /\ call \in [Worker -> Call]
  BY DEF TypeOK, Call, Point
<1>1. ASSUME UNCHANGED queue PROVE Goal
  BY <1>0, <1>1 DEF queue
<1>2. ASSUME NEW w \in Worker, complete_requests(w) PROVE Goal
  <2> DEFINE done == Completed(call[w].time)
             n(r) == Cardinality(done \cap InFlight(r))
  <2>1. \A r \in BOOLEAN : n(r) \in Nat
    <3>1. \A r \in BOOLEAN : done \cap InFlight(r) \in SUBSET Addr
      BY DEF Completed
    <3> QED
      BY <3>1, Sizes
  <2>2. credits' = [r \in BOOLEAN |-> release_credit(credits[r], n(r))]
    BY <1>2 DEF complete_requests
  <2>3. in_flight' = [a \in Addr |-> IF a \in done THEN None ELSE in_flight[a]]
    BY <1>2 DEF complete_requests
  <2>4. request_queue' = request_queue
    BY <1>2 DEF complete_requests
  <2> HIDE DEF done, n
  <2>5. credits' \in [BOOLEAN -> 0..(CreditModulus - 1)]
    BY <1>0, <2>1, <2>2, ReleaseRange
  <2>6. in_flight' \in [Addr -> Issued \cup {None}]
    BY <1>0, <2>3
  <2> QED
    BY <1>0, <2>4, <2>5, <2>6
<1>3. ASSUME NEW w \in Worker, NEW latency \in PipelineLatency, consume_credit(w, latency) PROVE Goal
  <2> DEFINE req == Head(request_queue)
             t == call[w].time
  <2>1. req \in CXLRequest /\ request_queue' \in Seq(CXLRequest)
    BY <1>0, <1>3 DEF consume_credit, LoopHoldsLock
  <2>2. t \in 0..MaxTime
    BY <1>0 DEF Call, Time
  <2>3. [is_read |-> req.is_read, complete_time |-> t + latency] \in Issued
    <3>1. t + latency \in 1..(MaxTime + MaxLatency)
      BY <2>2, ExpanderAssumption DEF PipelineLatency
    <3> QED
      BY <2>1, <3>1 DEF Issued, CXLRequest
  <2>4. in_flight' = [in_flight EXCEPT ![req.address] =
                        [is_read |-> req.is_read, complete_time |-> t + latency]]
    BY <1>3 DEF consume_credit
  <2>5. credits' = [credits EXCEPT ![req.is_read] =
                      (credits[req.is_read] + CreditModulus - 1) % CreditModulus]
    BY <1>3, Zenon DEF consume_credit, decremented
  <2> HIDE DEF req, t
  <2>6. credits' \in [BOOLEAN -> 0..(CreditModulus - 1)]
    <3>1. req.is_read \in BOOLEAN
      BY <2>1 DEF CXLRequest
    <3>2. \A c \in 0..(CreditModulus - 1) :
            (c + CreditModulus - 1) % CreditModulus \in 0..(CreditModulus - 1)
      BY ExpanderAssumption
    <3> QED
      BY <1>0, <2>5, <3>1, <3>2
  <2>7. in_flight' \in [Addr -> Issued \cup {None}]
    BY ZenonT(60), <1>0, <2>3, <2>4
  <2> QED
    BY <2>1, <2>6, <2>7
<1>4. ASSUME NEW w \in Worker, push(w) PROVE Goal
  <2>1. [address |-> call[w].addr, is_read |-> FALSE] \in CXLRequest
    BY <1>4 DEF push, InsertHasAddress, Inserting, CXLRequest
  <2> QED
    BY <1>0, <1>4, <2>1 DEF push
<1>5. ASSUME NEW w \in Worker, replace_entry(w) PROVE Goal
  <2> DEFINE n == Len(request_queue)
  <2>1. UNCHANGED <<in_flight, credits>>
    BY <1>5 DEF replace_entry
  <2>2. CASE request_queue' = request_queue
    BY <1>0, <2>1, <2>2
  <2>3. CASE n # 0 /\ request_queue' = [request_queue EXCEPT ![n].is_read = TRUE]
    <3>1. n \in 1..Len(request_queue) /\ request_queue[n] \in CXLRequest
      BY <1>0, <2>3
    <3>2. [request_queue[n] EXCEPT !.is_read = TRUE] \in CXLRequest
      BY ZenonT(60), <3>1 DEF CXLRequest
    <3> HIDE DEF n
    <3>3. request_queue' = [request_queue EXCEPT ![n] = [request_queue[n] EXCEPT !.is_read = TRUE]]
      BY <2>3, Zenon
    <3>4. request_queue' \in Seq(CXLRequest)
      BY <1>0, <3>1, <3>2, <3>3
    <3> QED
      BY <1>0, <2>1, <3>4
  <2> QED
    BY <1>5, <2>2, <2>3, Zenon DEF replace_entry, LastIsRead
<1> QED
  BY ZenonT(60), <1>1, <1>2, <1>3, <1>4, <1>5 DEF Next, vars, queue, insert,
     calculate_latency, check_credit, processed, accept, find_entry, erase_entry,
     add_entry, clear_address_cache, update_address_cache, is_address_local

(* The occupation part of the type invariant: an entry is erased only if   *)
(* there is one.                                                           *)
LEMMA CacheType ==
  ASSUME TypeOK, InsertHasAddress, [Next]_vars
  PROVE  /\ occupation' \in [Addr -> Nat]
         /\ address_cache' \in SUBSET Addr /\ address_ranges' \in SUBSET Addr
         /\ cache_valid' \in BOOLEAN
<1> DEFINE Goal == /\ occupation' \in [Addr -> Nat]
                   /\ address_cache' \in SUBSET Addr /\ address_ranges' \in SUBSET Addr
                   /\ cache_valid' \in BOOLEAN
<1>0. /\ occupation \in [Addr -> Nat] /\ address_cache \in SUBSET Addr
      /\ address_ranges \in SUBSET Addr /\ cache_valid \in BOOLEAN
      /\ Occupied \in SUBSET Addr
  BY DEF TypeOK, Occupied
<1>a. ASSUME NEW w \in Worker, call[w].pc \in Inserting PROVE call[w].addr \in Addr
  BY <1>a DEF InsertHasAddress
<1>1. ASSUME UNCHANGED caches PROVE Goal
  BY <1>0, <1>1 DEF caches
<1>2. ASSUME NEW w \in Worker, erase_entry(w) PROVE Goal
  <2> DEFINE a == call[w].addr
  <2>1. a \in Addr
    BY <1>a, <1>2 DEF erase_entry, Inserting
  <2>2. UNCHANGED <<address_cache, address_ranges, cache_valid>>
    BY <1>2 DEF erase_entry
  <2>3. \/ occupation[a] > 0 /\ occupation' = [occupation EXCEPT ![a] = @ - 1]
        \/ occupation' = occupation
    BY <1>2, Zenon DEF erase_entry
  <2> HIDE DEF a
  <2> QED
    BY <1>0, <2>1, <2>2, <2>3
<1>3. ASSUME NEW w \in Worker, replace_entry(w) \/ add_entry(w) PROVE Goal
  <2> DEFINE a == call[w].addr
  <2>1. a \in Addr
    BY SMTT(60), <1>a, <1>3 DEF replace_entry, add_entry, Inserting
  <2>2. UNCHANGED <<address_ranges, cache_valid>>
    BY <1>3 DEF replace_entry, add_entry
  <2>3. occupation' = [occupation EXCEPT ![a] = @ + 1]
    BY <1>3, Zenon DEF replace_entry, add_entry
  <2>4. address_cache' = address_cache \/ address_cache' = address_cache \cup {a}
    BY <1>3, Zenon DEF replace_entry, add_entry
  <2> HIDE DEF a
  <2> QED
    BY <1>0, <2>1, <2>2, <2>3, <2>4
<1>4. ASSUME NEW w \in Worker, clear_address_cache(w) \/ update_address_cache(w) PROVE Goal
  <2>1. UNCHANGED <<occupation, address_ranges>>
        /\ (cache_valid' = cache_valid \/ cache_valid' = TRUE)
        /\ address_cache' \in {address_cache, {}, address_cache \cup Occupied}
    BY <1>4 DEF clear_address_cache, update_address_cache
  <2> QED
    BY ZenonT(60), <1>0, <2>1
<1>5. ASSUME NEW w \in Worker, is_address_local(w) PROVE Goal
  <2>1. UNCHANGED <<occupation, address_cache>> /\ cache_valid' = TRUE
        /\ (address_ranges' = address_ranges \/ address_ranges' = Occupied)
    BY <1>5 DEF is_address_local, update_range_cache
  <2> QED
    BY <1>0, <2>1
<1> SUFFICES Goal
  OBVIOUS
<1>8. ASSUME NEW w \in Worker,
             \/ \E a \in Addr \cup {0}, t \in Time : insert(w, a, t)
             \/ \E a \in Addr, t \in Time : calculate_latency(w, a, t)
             \/ complete_requests(w) \/ check_credit(w)
             \/ \E latency \in PipelineLatency : consume_credit(w, latency)
             \/ processed(w) \/ accept(w) \/ push(w) \/ find_entry(w)
      PROVE  UNCHANGED caches
  BY <1>8, Zenon DEF insert, calculate_latency, complete_requests, check_credit,
     consume_credit, processed, accept, push, find_entry
<1>9. CASE UNCHANGED vars
  BY <1>1, <1>9 DEF vars, caches
<1> HIDE DEF Goal
<1> QED
  BY <1>1, <1>2, <1>3, <1>4, <1>5, <1>8, <1>9, Zenon DEF Next

(* What a step does to the control state: one thread moves, to a program   *)
(* point with the properties the later steps rely on.                      *)
LEMMA CallStep ==
  ASSUME TypeOK, LoopHoldsLock, InsertHasAddress, [Next]_vars
  PROVE  /\ call' \in [Worker -> Call] /\ queue_mutex' \in Worker \cup {None}
         /\ InsertHasAddress'
<1> DEFINE Goal == /\ call' \in [Worker -> Call] /\ queue_mutex' \in Worker \cup {None}
                   /\ InsertHasAddress'
<1>0. call \in [Worker -> Call] /\ queue_mutex \in Worker \cup {None}
  BY DEF TypeOK, Call, Point
<1>1. ASSUME UNCHANGED call, queue_mutex' \in Worker \cup {None} PROVE Goal
  BY <1>0, <1>1 DEF InsertHasAddress
<1>2. ASSUME NEW w \in Worker, NEW c \in Call, call' = [call EXCEPT ![w] = c],
             queue_mutex' \in Worker \cup {None},
             c.pc \in Inserting => c.op = "insert" /\ c.addr \in Addr,
             c.op = "none" => c.pc = "idle",
             c.op = "insert" /\ Locked => \A v \in Worker \ {w} : call[v].op # "insert"
      PROVE  Goal
  <2>1. call'[w] = c /\ \A v \in Worker \ {w} : call'[v] = call[v]
    BY <1>0, <1>2
  <2>2. call' \in [Worker -> Call]
    BY <1>0, <1>2
  <2> QED
    BY <1>2, <2>1, <2>2 DEF InsertHasAddress
<1>3. ASSUME NEW w \in Worker,
             NEW pc \in Point,
             Goto(w, pc), queue_mutex' \in Worker \cup {None},
             call[w].pc # "idle",
             pc \in Inserting => call[w].op = "insert" /\ call[w].addr \in Addr
      PROVE  Goal
  <2> DEFINE c == [call[w] EXCEPT !.pc = pc]
  <2>1. c \in Call /\ c.pc = pc /\ c.op = call[w].op /\ c.addr = call[w].addr
    BY <1>0 DEF Call
  <2>2. call' = [call EXCEPT ![w] = c]
    BY <1>3, Zenon DEF Goto
  <2>4. c.op # "none"
    BY <1>3, <2>1 DEF InsertHasAddress
  <2>3. c.op = "insert" /\ Locked => \A v \in Worker \ {w} : call[v].op # "insert"
    BY <2>1 DEF InsertHasAddress
  <2> HIDE DEF c
  <2> QED
    BY ZenonT(60), <1>2, <1>3, <2>1, <2>2, <2>3, <2>4
<1>4. ASSUME NEW w \in Worker, Return(w), queue_mutex' \in Worker \cup {None} PROVE Goal
  <2>1. Idle \in Call /\ Idle.pc \notin Inserting /\ Idle.pc = "idle" /\ Idle.op = "none"
    BY ExpanderAssumption DEF Idle, Call, Time, Point, Inserting
  <2>2. call' = [call EXCEPT ![w] = Idle]
    BY <1>4 DEF Return
  <2> HIDE DEF Idle
  <2> QED
    BY ZenonT(60), <1>2, <1>4, <2>1, <2>2
<1>5. ASSUME NEW w \in Worker, NEW a \in Addr \cup {0}, NEW t \in Time, insert(w, a, t) PROVE Goal
  <2> DEFINE c == [pc |-> "process", op |-> "insert", addr |-> a, time |-> t]
  <2>1. c \in Call /\ c.pc = "process" /\ c.pc \notin Inserting /\ c.op = "insert"
    BY DEF Call, Point, Inserting
  <2>2. call' = [call EXCEPT ![w] = c] /\ queue_mutex' = queue_mutex
        /\ (Locked => \A v \in Worker : call[v].op # "insert")
    BY <1>5 DEF insert
  <2> HIDE DEF c
  <2> QED
    BY ZenonT(60), <1>0, <1>2, <2>1, <2>2
<1>6. ASSUME NEW w \in Worker, NEW a \in Addr, NEW t \in Time, calculate_latency(w, a, t) PROVE Goal
  <2> DEFINE c == [pc |-> "process", op |-> "latency", addr |-> a, time |-> t]
  <2>1. c \in Call /\ c.pc = "process" /\ c.pc \notin Inserting /\ c.op = "latency"
    BY DEF Call, Point, Inserting
  <2>2. call' = [call EXCEPT ![w] = c] /\ queue_mutex' = queue_mutex
    BY <1>6 DEF calculate_latency
  <2> HIDE DEF c
  <2> QED
    BY ZenonT(60), <1>0, <1>2, <2>1, <2>2
<1>7. ASSUME NEW w \in Worker, complete_requests(w) PROVE Goal
  <2>1. call[w].pc = "process" /\ Goto(w, "issue") /\ queue_mutex' = w
    BY <1>7, Zenon DEF complete_requests
  <2> QED
    BY <1>3, <2>1, Zenon DEF Point, Inserting
<1>8. ASSUME NEW w \in Worker, check_credit(w) PROVE Goal
  <2>1. call[w].pc = "issue" /\ Goto(w, "consume") /\ queue_mutex' = queue_mutex
    BY <1>8, Zenon DEF check_credit
  <2> QED
    BY <1>0, <1>3, <2>1 DEF Point, Inserting
<1>9. ASSUME NEW w \in Worker, NEW latency \in PipelineLatency, consume_credit(w, latency) PROVE Goal
  <2>1. call[w].pc = "consume" /\ Goto(w, "issue") /\ queue_mutex' = queue_mutex
    BY <1>9, Zenon DEF consume_credit
  <2> QED
    BY <1>0, <1>3, <2>1 DEF Point, Inserting
<1>10. ASSUME NEW w \in Worker, processed(w) PROVE Goal
  <2>1. queue_mutex' = None
    BY <1>10, Zenon DEF processed
  <2>2. \/ Goto(w, "cache") \/ Return(w)
        \/ Goto(w, "accept") /\ call[w].op # "latency" /\ call[w].addr # 0
    BY <1>10, Zenon DEF processed
  <2>3. call[w].pc = "issue"
    BY <1>10, Zenon DEF processed
  <2>4. call[w].op # "latency" /\ call[w].addr # 0 => call[w].op = "insert" /\ call[w].addr \in Addr
    BY <1>0, <2>3 DEF Call, InsertHasAddress
  <2> QED
    BY <1>3, <1>4, <2>1, <2>2, <2>3, <2>4 DEF Point, Inserting
<1>11. ASSUME NEW w \in Worker, accept(w) PROVE Goal
  <2>1. queue_mutex' = queue_mutex /\ call[w].pc = "accept" /\ (Goto(w, "push") \/ Return(w))
    BY <1>11, Zenon DEF accept
  <2>2. call[w].op = "insert" /\ call[w].addr \in Addr
    BY <2>1 DEF InsertHasAddress, Inserting
  <2> QED
    BY <1>0, <1>3, <1>4, <2>1, <2>2 DEF Point, Inserting
<1>12. ASSUME NEW w \in Worker, push(w) PROVE Goal
  <2>1. queue_mutex' = queue_mutex /\ call[w].pc = "push" /\ Goto(w, "entry")
    BY <1>12, Zenon DEF push
  <2>2. call[w].op = "insert" /\ call[w].addr \in Addr
    BY <2>1 DEF InsertHasAddress, Inserting
  <2> QED
    BY <1>0, <1>3, <2>1, <2>2, Zenon DEF Point, Inserting
<1>13. ASSUME NEW w \in Worker, find_entry(w) \/ erase_entry(w) PROVE Goal
  <2>1. /\ queue_mutex' = queue_mutex /\ call[w].pc \in {"entry", "erase"}
        /\ (Goto(w, "erase") \/ Goto(w, "replace") \/ Goto(w, "add"))
    BY <1>13, Zenon DEF find_entry, erase_entry
  <2>2. call[w].op = "insert" /\ call[w].addr \in Addr
    BY <2>1 DEF InsertHasAddress, Inserting
  <2> QED
    BY <1>0, <1>3, <2>1, <2>2 DEF Point, Inserting
<1>16. ASSUME NEW w \in Worker, replace_entry(w) \/ add_entry(w) PROVE Goal
  <2>1. queue_mutex' = queue_mutex /\ Return(w)
    BY <1>16, Zenon DEF replace_entry, add_entry
  <2> QED
    BY <1>0, <1>4, <2>1
<1>17. ASSUME NEW w \in Worker, clear_address_cache(w) \/ update_address_cache(w) PROVE Goal
  <2>1. /\ queue_mutex' = queue_mutex /\ call[w].pc \in {"cache", "rebuild"}
        /\ (Goto(w, "lookup") \/ Goto(w, "rebuild"))
    BY <1>17, Zenon DEF clear_address_cache, update_address_cache
  <2> QED
    BY <1>0, <1>3, <2>1 DEF Point, Inserting
<1>14. ASSUME NEW w \in Worker, is_address_local(w) PROVE Goal
  <2>1. queue_mutex' = queue_mutex /\ Return(w)
    BY <1>14, Zenon DEF is_address_local
  <2> QED
    BY <1>0, <1>4, <2>1
<1>15. ASSUME UNCHANGED <<call, queue_mutex>> PROVE Goal
  BY <1>0, <1>1, <1>15
<1> SUFFICES Goal
  OBVIOUS
<1> HIDE DEF Goal
<1> QED
  BY ZenonT(60), <1>5, <1>6, <1>7, <1>8, <1>9, <1>10, <1>11, <1>12, <1>13, <1>14, <1>15,
     <1>16, <1>17 DEF Next, vars

(* Only the holder of queue_mutex_ is in the loop, and the front request   *)
(* it tested stays in the queue until it is issued.                        *)
LEMMA LoopStep ==
  ASSUME TypeOK, LoopHoldsLock, InsertHasAddress, [Next]_vars
  PROVE  LoopHoldsLock'
<1>0. /\ request_queue \in Seq(CXLRequest) /\ call \in [Worker -> Call]
      /\ queue_mutex \in Worker \cup {None} /\ None \notin Worker
  BY ExpanderAssumption DEF TypeOK, Call, Point
<1> DEFINE Loop == {"issue", "consume"}
           Stays(w) == \A v \in Worker \ {w} : call'[v] = call[v]
<1>a. ASSUME NEW w \in Worker, NEW pc, Goto(w, pc) PROVE Stays(w) /\ call'[w].pc = pc
  <2>1. \A v \in Worker : call[v] \in Call
    BY <1>0
  <2> QED
    BY <1>0, <1>a, <2>1 DEF Goto, Call
<1>b. ASSUME NEW w \in Worker, Return(w) PROVE Stays(w) /\ call'[w].pc = "idle"
  BY <1>0, <1>b DEF Return, Idle
<1>1. ASSUME NEW w \in Worker, Stays(w), call'[w].pc \notin Loop, UNCHANGED queue_mutex,
             request_queue = <<>> \/ request_queue' # <<>>
      PROVE  LoopHoldsLock'
  BY <1>1 DEF LoopHoldsLock
<1>2. ASSUME NEW w \in Worker, NEW a \in Addr \cup {0}, NEW t \in Time, insert(w, a, t)
      PROVE  LoopHoldsLock'
  <2>1. Stays(w) /\ call'[w].pc = "process" /\ UNCHANGED <<queue_mutex, request_queue>>
    BY <1>0, <1>2 DEF insert, queue
  <2> QED
    BY <1>1, <2>1
<1>3. ASSUME NEW w \in Worker, NEW a \in Addr, NEW t \in Time, calculate_latency(w, a, t)
      PROVE  LoopHoldsLock'
  <2>1. Stays(w) /\ call'[w].pc = "process" /\ UNCHANGED <<queue_mutex, request_queue>>
    BY <1>0, <1>3 DEF calculate_latency, queue
  <2> QED
    BY <1>1, <2>1
<1>4. ASSUME NEW w \in Worker, complete_requests(w) PROVE LoopHoldsLock'
  <2>1. queue_mutex = None /\ queue_mutex' = w /\ Goto(w, "issue") /\ UNCHANGED request_queue
    BY <1>4, Zenon DEF complete_requests
  <2>2. \A v \in Worker : call[v].pc \notin Loop
    BY <1>0, <2>1 DEF LoopHoldsLock
  <2> QED
    BY <1>a, <2>1, <2>2 DEF LoopHoldsLock
<1>5. ASSUME NEW w \in Worker, check_credit(w) PROVE LoopHoldsLock'
  <2>1. /\ call[w].pc = "issue" /\ request_queue # <<>> /\ Goto(w, "consume")
        /\ UNCHANGED <<queue_mutex, request_queue>>
    BY <1>5, Zenon DEF check_credit, CanIssue, queue
  <2> QED
    BY <1>a, <2>1 DEF LoopHoldsLock
<1>6. ASSUME NEW w \in Worker, NEW latency \in PipelineLatency, consume_credit(w, latency)
      PROVE  LoopHoldsLock'
  <2>1. call[w].pc = "consume" /\ Goto(w, "issue") /\ UNCHANGED queue_mutex
    BY <1>6, Zenon DEF consume_credit
  <2>2. \A v \in Worker \ {w} : call[v].pc \notin Loop
    BY <2>1 DEF LoopHoldsLock
  <2> QED
    BY <1>a, <2>1, <2>2 DEF LoopHoldsLock
<1>7. ASSUME NEW w \in Worker, processed(w) PROVE LoopHoldsLock'
  <2>1. call[w].pc = "issue" /\ (Goto(w, "cache") \/ Return(w) \/ Goto(w, "accept"))
    BY <1>7, Zenon DEF processed
  <2>2. \A v \in Worker \ {w} : call[v].pc \notin Loop
    BY <2>1 DEF LoopHoldsLock
  <2>3. Stays(w) /\ call'[w].pc \notin Loop
    BY <1>a, <1>b, <2>1
  <2> QED
    BY <2>2, <2>3 DEF LoopHoldsLock
<1>8. ASSUME NEW w \in Worker, accept(w) PROVE LoopHoldsLock'
  <2>1. (Goto(w, "push") \/ Return(w)) /\ UNCHANGED <<queue_mutex, request_queue>>
    BY <1>8, Zenon DEF accept, queue
  <2> QED
    BY <1>a, <1>b, <1>1, <2>1
<1>9. ASSUME NEW w \in Worker, push(w) PROVE LoopHoldsLock'
  <2>1. Goto(w, "entry") /\ UNCHANGED queue_mutex
    BY <1>9, Zenon DEF push
  <2>2. request_queue' # <<>>
    BY <1>0, <1>9 DEF push
  <2> QED
    BY <1>a, <1>1, <2>1, <2>2
<1>10. ASSUME NEW w \in Worker, replace_entry(w) PROVE LoopHoldsLock'
  <2>1. Return(w) /\ UNCHANGED queue_mutex
    BY <1>10, Zenon DEF replace_entry
  <2>2. \/ request_queue' = request_queue
        \/ request_queue' = [request_queue EXCEPT ![Len(request_queue)].is_read = TRUE]
    BY <1>10, Zenon DEF replace_entry, LastIsRead
  <2>3. DOMAIN request_queue' = DOMAIN request_queue
    BY <2>2
  <2>4. request_queue = <<>> \/ request_queue' # <<>>
    BY <1>0, <2>3
  <2> QED
    BY <1>b, <1>1, <2>1, <2>4
<1>13. ASSUME NEW w \in Worker,
              \/ find_entry(w) \/ erase_entry(w) \/ add_entry(w)
              \/ clear_address_cache(w) \/ update_address_cache(w)
       PROVE  LoopHoldsLock'
  <2>1. /\ UNCHANGED <<queue_mutex, request_queue>>
        /\ \/ Goto(w, "erase") \/ Goto(w, "replace") \/ Goto(w, "add")
           \/ Goto(w, "rebuild") \/ Goto(w, "lookup") \/ Return(w)
    BY <1>13, Zenon DEF find_entry, erase_entry, add_entry, clear_address_cache,
       update_address_cache, queue
  <2> QED
    BY <1>a, <1>b, <1>1, <2>1
<1>11. ASSUME NEW w \in Worker, is_address_local(w) PROVE LoopHoldsLock'
  <2>1. Return(w) /\ UNCHANGED <<queue_mutex, request_queue>>
    BY <1>11, Zenon DEF is_address_local, queue
  <2> QED
    BY <1>b, <1>1, <2>1
<1>12. ASSUME UNCHANGED <<call, queue_mutex, request_queue>> PROVE LoopHoldsLock'
  BY <1>12 DEF LoopHoldsLock
<1> QED
  BY <1>2, <1>3, <1>4, <1>5, <1>6, <1>7, <1>8, <1>9, <1>10, <1>11, <1>12, <1>13, Zenon DEF
     Next, vars, queue

Slack == IF Locked THEN 0 ELSE Cardinality(Worker) - 1

(* The queue and the threads about to push stay within the limit: accept   *)
(* adds one pusher to a queue with room, push turns it into a request.     *)
LEMMA LimitStep ==
  ASSUME TypeOK, LoopHoldsLock, InsertHasAddress, QueueWithinLimit, [Next]_vars
  PROVE  QueueWithinLimit'
<1> DEFINE n == Len(request_queue)
           k == Cardinality(Pushing)
<1>0. /\ request_queue \in Seq(CXLRequest) /\ call \in [Worker -> Call]
      /\ n \in Nat /\ k \in Nat /\ IsFiniteSet(Pushing) /\ Pushing \subseteq Worker
      /\ MAX_QUEUE_SIZE \in Nat /\ Cardinality(Worker) \in Nat
  BY Sizes, ExpanderAssumption DEF TypeOK, Call, Point, Pushing
<1>1. n + k <= MAX_QUEUE_SIZE + Slack
  BY DEF QueueWithinLimit, Pushing, Slack
<1>2. QueueWithinLimit' <=> Len(request_queue') + Cardinality(Pushing') <= MAX_QUEUE_SIZE + Slack
  BY DEF QueueWithinLimit, Pushing, Slack
<1>a. ASSUME NEW w \in Worker, NEW pc, Goto(w, pc)
      PROVE  call'[w].pc = pc /\ \A v \in Worker \ {w} : call'[v] = call[v]
  <2>1. \A v \in Worker : call[v] \in Call
    BY <1>0
  <2> QED
    BY <1>0, <1>a, <2>1 DEF Goto, Call
<1>b. ASSUME NEW w \in Worker, Return(w)
      PROVE  call'[w].pc = "idle" /\ \A v \in Worker \ {w} : call'[v] = call[v]
  BY <1>0, <1>b DEF Return, Idle
<1>3. ASSUME Pushing' = Pushing, Len(request_queue') = n PROVE QueueWithinLimit'
  BY <1>1, <1>2, <1>3
<1>4. ASSUME NEW w \in Worker, call[w].pc # "push", call'[w].pc # "push",
             \A v \in Worker \ {w} : call'[v] = call[v]
      PROVE  Pushing' = Pushing
  BY <1>4 DEF Pushing
<1>5. ASSUME NEW w \in Worker, accept(w) PROVE QueueWithinLimit'
  <2>1. call[w].pc = "accept" /\ request_queue' = request_queue
    BY <1>5, Zenon DEF accept, queue
  <2>2. CASE Return(w)
    BY <1>b, <1>3, <1>4, <2>1, <2>2
  <2>3. CASE Goto(w, "push") /\ n < MAX_QUEUE_SIZE
    <3>1. Pushing' = Pushing \cup {w} /\ w \notin Pushing
      BY <1>a, <2>1, <2>3 DEF Pushing
    <3>2. Cardinality(Pushing') = k + 1 /\ Cardinality(Pushing') <= Cardinality(Worker)
      <4>1. Pushing' \in SUBSET Worker
        BY DEF Pushing
      <4>2. Cardinality(Pushing') = k + 1
        BY <1>0, <3>1, FS_AddElement, Zenon
      <4> QED
        BY <4>1, <4>2, Sizes
    <3>3. CASE Locked
      <4>1. \A v \in Worker : call[v].pc # "push"
        BY <2>1, <3>3 DEF InsertHasAddress, Inserting
      <4>2. Pushing = {}
        BY <4>1 DEF Pushing
      <4>3. k = 0
        BY <4>2, FS_EmptySet
      <4> QED
        BY <1>0, <1>2, <2>1, <2>3, <3>2, <3>3, <4>3 DEF Slack
    <3>4. CASE ~Locked
      BY <1>0, <1>2, <2>1, <2>3, <3>2, <3>4 DEF Slack
    <3> QED
      BY <3>3, <3>4
  <2> QED
    BY <1>5, <2>2, <2>3, Zenon DEF accept, can_accept_request
<1>6. ASSUME NEW w \in Worker, push(w) PROVE QueueWithinLimit'
  <2>1. call[w].pc = "push" /\ Goto(w, "entry")
    BY <1>6, Zenon DEF push
  <2>2. Len(request_queue') = n + 1
    BY <1>0, <1>6 DEF push
  <2>3. Pushing' = Pushing \ {w} /\ w \in Pushing
    BY <1>a, <2>1 DEF Pushing
  <2>4. Cardinality(Pushing') = k - 1
    BY ZenonT(60), <1>0, <2>3, FS_RemoveElement
  <2> QED
    BY <1>0, <1>1, <1>2, <2>2, <2>4
<1>7. ASSUME NEW w \in Worker, NEW latency \in PipelineLatency, consume_credit(w, latency)
      PROVE  QueueWithinLimit'
  <2>1. call[w].pc = "consume" /\ Goto(w, "issue") /\ request_queue' = Tail(request_queue)
    BY <1>7, Zenon DEF consume_credit
  <2>2. Len(request_queue') = n - 1
    BY <1>0, <2>1 DEF LoopHoldsLock
  <2>3. Pushing' = Pushing
    BY <1>a, <1>4, <2>1
  <2> QED
    BY SMTT(60), <1>0, <1>1, <1>2, <2>2, <2>3 DEF Slack
<1>8. ASSUME NEW w \in Worker, replace_entry(w) PROVE QueueWithinLimit'
  <2>1. call[w].pc = "replace" /\ Return(w)
    BY <1>8, Zenon DEF replace_entry
  <2>2. \/ request_queue' = request_queue
        \/ request_queue' = [request_queue EXCEPT ![Len(request_queue)].is_read = TRUE]
    BY <1>8, Zenon DEF replace_entry, LastIsRead
  <2>3. Len(request_queue') = n
    BY <1>0, <2>2
  <2> QED
    BY <1>b, <1>3, <1>4, <2>1, <2>3, Zenon
<1>9. ASSUME NEW w \in Worker, request_queue' = request_queue, call[w].pc # "push",
             call'[w].pc # "push", \A v \in Worker \ {w} : call'[v] = call[v]
      PROVE  QueueWithinLimit'
  BY <1>3, <1>4, <1>9, Zenon
<1>10. ASSUME NEW w \in Worker,
              \/ \E a \in Addr \cup {0}, t \in Time : insert(w, a, t)
              \/ \E a \in Addr, t \in Time : calculate_latency(w, a, t)
       PROVE  QueueWithinLimit'
  <2>1. /\ request_queue' = request_queue /\ call[w].pc = "idle" /\ call'[w].pc = "process"
        /\ \A v \in Worker \ {w} : call'[v] = call[v]
    BY SMTT(60), <1>0, <1>10 DEF insert, calculate_latency, queue
  <2> QED
    BY <1>9, <2>1, Zenon
<1>11. ASSUME NEW w \in Worker, complete_requests(w) \/ check_credit(w) \/ processed(w)
       PROVE  QueueWithinLimit'
  <2>1. /\ request_queue' = request_queue /\ call[w].pc \in {"process", "issue"}
        /\ \/ Goto(w, "issue") \/ Goto(w, "consume") \/ Goto(w, "cache")
           \/ Goto(w, "accept") \/ Return(w)
    BY <1>11, Zenon DEF complete_requests, check_credit, processed, queue
  <2> QED
    BY <1>a, <1>b, <1>9, <2>1
<1>12. ASSUME NEW w \in Worker, is_address_local(w) PROVE QueueWithinLimit'
  <2>1. call[w].pc = "lookup" /\ Return(w) /\ request_queue' = request_queue
    BY <1>12, Zenon DEF is_address_local, queue
  <2> QED
    BY <1>b, <1>9, <2>1
<1>14. ASSUME NEW w \in Worker,
              \/ find_entry(w) \/ erase_entry(w) \/ add_entry(w)
              \/ clear_address_cache(w) \/ update_address_cache(w)
       PROVE  QueueWithinLimit'
  <2>1. /\ request_queue' = request_queue
        /\ call[w].pc \in {"entry", "erase", "add", "cache", "rebuild"}
        /\ \/ Goto(w, "erase") \/ Goto(w, "replace") \/ Goto(w, "add")
           \/ Goto(w, "rebuild") \/ Goto(w, "lookup") \/ Return(w)
    BY <1>14, Zenon DEF find_entry, erase_entry, add_entry, clear_address_cache,
       update_address_cache, queue
  <2> QED
    BY <1>a, <1>b, <1>9, <2>1
<1>13. ASSUME UNCHANGED <<call, request_queue>> PROVE QueueWithinLimit'
  BY <1>13 DEF QueueWithinLimit
<1> QED
  BY ZenonT(60), <1>5, <1>6, <1>7, <1>8, <1>10, <1>11, <1>12, <1>13, <1>14 DEF Next, vars,
     queue

(* The history variable is a Boolean that is never cleared. *)
LEMMA RetypedStep ==
  ASSUME retyped \in BOOLEAN, [Next]_vars
  PROVE  retyped' \in BOOLEAN /\ (retyped => retyped')
<1>1. ASSUME NEW w \in Worker, replace_entry(w) PROVE retyped' \in BOOLEAN /\ (retyped => retyped')
  BY <1>1, Zenon DEF replace_entry
<1>2. UNCHANGED retyped \/ \E w \in Worker : replace_entry(w)
  BY ZenonT(60) DEF Next, vars, insert, calculate_latency, complete_requests, check_credit,
     consume_credit, processed, accept, push, find_entry, erase_entry, add_entry,
     clear_address_cache, update_address_cache, is_address_local
<1> QED
  BY <1>1, <1>2

(* ExpanderInv is an invariant: the type invariant and the limit of the    *)
(* queue hold for any number of threads calling insert and                 *)
(* calculate_latency concurrently.                                         *)
THEOREM ExpanderInvariance == Spec => []ExpanderInv
<1>1. Init => ExpanderInv
  <2> SUFFICES ASSUME Init PROVE ExpanderInv
    OBVIOUS
  <2>1. TypeOK
    <3>1. 0 \in Time /\ Idle \in Call
      BY ExpanderAssumption DEF Time, Call, Idle, Point
    <3>2. credits \in [BOOLEAN -> 0..(CreditModulus - 1)]
      BY ExpanderAssumption DEF Init
    <3>3. call \in [Worker -> Call]
      BY <3>1 DEF Init
    <3>4. request_queue \in Seq(CXLRequest) /\ queue_mutex \in Worker \cup {None}
      BY DEF Init
    <3>5. in_flight \in [Addr -> Issued \cup {None}] /\ occupation \in [Addr -> Nat]
      BY DEF Init
    <3>6. /\ address_cache \in SUBSET Addr /\ address_ranges \in SUBSET Addr /\ cache_valid \in BOOLEAN
          /\ retyped \in BOOLEAN
      BY ZenonT(60) DEF Init
    <3> QED
      BY <3>2, <3>3, <3>4, <3>5, <3>6 DEF TypeOK, Call, Point
  <2>2. \A w \in Worker : call[w].pc = "idle" /\ call[w].op = "none"
    BY DEF Init, Idle
  <2>3. LoopHoldsLock /\ InsertHasAddress
    BY <2>2 DEF LoopHoldsLock, InsertHasAddress, Inserting
  <2>5. QueueWithinLimit
    <3>1. Cardinality(Worker) \in Nat /\ MAX_QUEUE_SIZE \in Nat \ {0}
      BY Sizes, ExpanderAssumption
    <3>2. {w \in Worker : call[w].pc = "push"} = {}
      BY <2>2
    <3>3. Cardinality({w \in Worker : call[w].pc = "push"}) = 0
      BY <3>2, FS_EmptySet
    <3>4. Len(request_queue) = 0
      BY DEF Init
    <3>5. 0 <= MAX_QUEUE_SIZE + (IF Locked THEN 0 ELSE Cardinality(Worker) - 1)
      BY <3>1
    <3> QED
      BY <3>3, <3>4, <3>5 DEF QueueWithinLimit
  <2> QED
    BY <2>1, <2>3, <2>5 DEF ExpanderInv
<1>2. ExpanderInv /\ [Next]_vars => ExpanderInv'
  <2> SUFFICES ASSUME ExpanderInv, [Next]_vars PROVE ExpanderInv'
    OBVIOUS
  <2>1. TypeOK /\ LoopHoldsLock /\ InsertHasAddress /\ QueueWithinLimit
    BY DEF ExpanderInv
  <2>2. TypeOK'
    BY <2>1, QueueType, CacheType, CallStep, RetypedStep, Zenon DEF TypeOK, Call, Point
  <2> QED
    BY <2>1, <2>2, CallStep, LoopStep, LimitStep DEF ExpanderInv
<1> QED
  BY <1>1, <1>2, PTL DEF Spec

(* Queue, credits, caches and threads keep their types for any number of   *)
(* threads: a credit counter that wraps stays within its width.            *)
THEOREM ExpanderTypes == Spec => []TypeOK
<1>1. ExpanderInv => TypeOK
  BY DEF ExpanderInv
<1> QED
  BY <1>1, ExpanderInvariance, PTL

(* The request queue overruns MAX_QUEUE_SIZE by at most one request per    *)
(* other thread, and not at all when insert runs under memory_mutex.       *)
THEOREM ExpanderQueueLimit == Spec => []QueueWithinLimit
<1>1. ExpanderInv => QueueWithinLimit
  BY DEF ExpanderInv
<1> QED
  BY <1>1, ExpanderInvariance, PTL

-----------------------------------------------------------------------------
(* Between has_credits and consume_credit the thread holds queue_mutex_,   *)
(* so only the unlocked change of type can make the credit that is taken   *)
(* another one than the credit that was seen.                              *)
CreditSeen ==
  \A w \in Worker : call[w].pc = "consume" => credits[Head(request_queue).is_read] > 0

Budget ==
  \A r \in BOOLEAN : credits[r] + Cardinality(InFlight(r)) <= INITIAL_CREDITS

CreditInv == ~retyped => CreditSeen /\ Budget

(* Completion: what a type releases is at most what it had in flight. *)
LEMMA CreditsReleased ==
  ASSUME TypeOK, Budget, NEW w \in Worker, complete_requests(w)
  PROVE  Budget'
<1> SUFFICES ASSUME NEW r \in BOOLEAN
             PROVE  credits'[r] + Cardinality(InFlight(r)') <= INITIAL_CREDITS
  BY DEF Budget
<1> DEFINE done == Completed(call[w].time)
           D == done \cap InFlight(r)
           n == Cardinality(D)
           m == Cardinality(InFlight(r))
           c == credits[r]
<1>1. D \in SUBSET Addr /\ InFlight(r) \in SUBSET Addr
  BY DEF InFlight
<1>2. credits'[r] = release_credit(c, n)
  BY Zenon DEF complete_requests
<1>3. in_flight' = [a \in Addr |-> IF a \in done THEN None ELSE in_flight[a]]
  BY Zenon DEF complete_requests
<1>4. InFlight(r)' = InFlight(r) \ D
  <2>1. \A a \in Addr : in_flight'[a] = IF a \in done THEN None ELSE in_flight[a]
    BY <1>3
  <2> HIDE DEF done
  <2> QED
    BY <2>1 DEF InFlight
<1>5. n \in Nat /\ m \in Nat /\ IsFiniteSet(InFlight(r)) /\ IsFiniteSet(D)
  BY <1>1, Sizes
<1>6. Cardinality(InFlight(r)') = m - n
  <2>1. InFlight(r) \cap D = D
    BY <1>1
  <2> HIDE DEF D
  <2>2. Cardinality(InFlight(r) \ D) = Cardinality(InFlight(r)) - Cardinality(InFlight(r) \cap D)
    BY <1>5, FS_Difference, Zenon
  <2> QED
    BY <1>4, <2>1, <2>2
<1>7. c \in 0..(CreditModulus - 1) /\ c + m <= INITIAL_CREDITS
  BY Zenon DEF TypeOK, Budget
<1>8. n <= m
  <2>1. D \subseteq InFlight(r)
    OBVIOUS
  <2> HIDE DEF D
  <2> QED
    BY <1>5, <2>1, FS_Subset
<1> HIDE DEF n, m, c
<1>9. release_credit(c, n) <= c + n /\ release_credit(c, n) \in Int
  BY <1>5, <1>7, ExpanderAssumption DEF release_credit
<1> QED
  BY <1>2, <1>5, <1>6, <1>7, <1>8, <1>9, ExpanderAssumption

(* Issue: the credit that was seen is taken, and at most one request of    *)
(* its type is added; an overwritten request only lowers the count.        *)
LEMMA CreditsConsumed ==
  ASSUME TypeOK, LoopHoldsLock, CreditSeen, Budget,
         NEW w \in Worker, NEW latency \in PipelineLatency, consume_credit(w, latency)
  PROVE  Budget'
<1> DEFINE req == Head(request_queue)
           q == req.is_read
           a == req.address
<1>1. q \in BOOLEAN /\ a \in Addr
  <2>1. request_queue # <<>> /\ request_queue \in Seq(CXLRequest)
    BY Zenon DEF consume_credit, LoopHoldsLock, TypeOK
  <2>2. req \in CXLRequest
    BY <2>1
  <2> QED
    BY <2>2 DEF CXLRequest
<1>2. credits[q] > 0 /\ \A r \in BOOLEAN : credits[r] \in 0..(CreditModulus - 1)
  BY Zenon DEF consume_credit, CreditSeen, TypeOK
<1>3. credits' = [credits EXCEPT ![q] = (credits[q] + CreditModulus - 1) % CreditModulus]
  BY Zenon DEF consume_credit, decremented
<1>4. in_flight' = [in_flight EXCEPT ![a] =
                      [is_read |-> q, complete_time |-> call[w].time + latency]]
  BY Zenon DEF consume_credit
<1>5. in_flight \in [Addr -> Issued \cup {None}] /\ credits \in [BOOLEAN -> 0..(CreditModulus - 1)]
  BY DEF TypeOK
<1> HIDE DEF req, q, a
<1>6. credits'[q] = credits[q] - 1
  <2>1. \A c \in 0..(CreditModulus - 1) : c > 0 => (c + CreditModulus - 1) % CreditModulus = c - 1
    BY ExpanderAssumption
  <2> QED
    BY <1>1, <1>2, <1>3, <1>5, <2>1
<1>7. \A r \in BOOLEAN : r # q => credits'[r] = credits[r]
  BY <1>1, <1>3, <1>5
<1>8. \A r \in BOOLEAN : InFlight(r)' \subseteq (IF r = q THEN InFlight(r) \cup {a} ELSE InFlight(r))
  <2>1. /\ \A b \in Addr \ {a} : in_flight'[b] = in_flight[b]
        /\ in_flight'[a].is_read = q
    BY <1>1, <1>4, <1>5, Zenon
  <2> QED
    BY <1>1, <2>1, Zenon DEF InFlight
<1> SUFFICES ASSUME NEW r \in BOOLEAN
             PROVE  credits'[r] + Cardinality(InFlight(r)') <= INITIAL_CREDITS
  BY DEF Budget
<1>9. /\ InFlight(r) \in SUBSET Addr /\ InFlight(r)' \in SUBSET Addr
      /\ InFlight(r) \cup {a} \in SUBSET Addr
  BY <1>1, Zenon DEF InFlight
<1>10. /\ IsFiniteSet(InFlight(r)) /\ Cardinality(InFlight(r)) \in Nat
       /\ Cardinality(InFlight(r)') \in Nat
       /\ IsFiniteSet(InFlight(r) \cup {a}) /\ Cardinality(InFlight(r) \cup {a}) \in Nat
  BY <1>9, Sizes
<1>11. credits[r] + Cardinality(InFlight(r)) <= INITIAL_CREDITS
  BY DEF Budget
<1>12. Cardinality(InFlight(r) \cup {a}) <= Cardinality(InFlight(r)) + 1
  BY <1>10, FS_AddElement
<1>13. CASE r = q
  <2>1. InFlight(r)' \subseteq InFlight(r) \cup {a}
    BY <1>8, <1>13
  <2>2. Cardinality(InFlight(r)') <= Cardinality(InFlight(r) \cup {a})
    BY SMTT(60), <1>10, <2>1, FS_Subset
  <2> QED
    BY <1>2, <1>6, <1>10, <1>11, <1>12, <1>13, <2>2, ExpanderAssumption
<1>14. CASE r # q
  <2>1. InFlight(r)' \subseteq InFlight(r)
    BY <1>8, <1>14
  <2>2. Cardinality(InFlight(r)') <= Cardinality(InFlight(r))
    BY <1>10, <2>1, FS_Subset
  <2> QED
    BY <1>2, <1>7, <1>10, <1>11, <1>14, <2>2, ExpanderAssumption
<1> QED
  BY <1>13, <1>14

(* insert's change of type leaves the front request alone, unless the      *)
(* front request is the last one.                                          *)
LEMMA FrontKept ==
  ASSUME TypeOK, TypeOK', LoopHoldsLock, NEW w \in Worker, replace_entry(w), ~retyped',
         NEW v \in Worker, call[v].pc = "consume"
  PROVE  Head(request_queue') = Head(request_queue)
<1> DEFINE n == Len(request_queue)
<1>1. request_queue \in Seq(CXLRequest) /\ request_queue # <<>>
  BY DEF TypeOK, LoopHoldsLock
<1>2. request_queue' = LastIsRead /\ (LastIsRead = request_queue \/ n # 1)
  BY Zenon DEF replace_entry
<1>3. CASE LastIsRead = request_queue
  BY <1>2, <1>3
<1>4. CASE n # 1
  <2>1. n \in Nat /\ n # 0 /\ 1 \in 1..n /\ DOMAIN request_queue = 1..n
    BY <1>1
  <2>2. request_queue' = [request_queue EXCEPT ![n].is_read = TRUE]
    BY <1>2, <2>1, Zenon DEF LastIsRead
  <2>3. request_queue'[1] = request_queue[1]
    BY <1>4, <2>1, <2>2
  <2>4. request_queue' \in Seq(CXLRequest) /\ DOMAIN request_queue' = DOMAIN request_queue
    BY <2>2 DEF TypeOK
  <2>5. request_queue' # <<>>
    BY <2>1, <2>4
  <2>6. Head(request_queue') = request_queue'[1] /\ Head(request_queue) = request_queue[1]
    BY <1>1, <2>4, <2>5
  <2> QED
    BY <2>3, <2>6, Zenon
<1> QED
  BY <1>2, <1>3, <1>4

(* Every step of any thread keeps the credits within the budget. *)
LEMMA CreditStep ==
  ASSUME ExpanderInv, TypeOK', CreditInv, [Next]_vars
  PROVE  CreditInv'
<1> SUFFICES ASSUME ~retyped' PROVE CreditSeen' /\ Budget'
  BY DEF CreditInv
<1> DEFINE Goal == CreditSeen' /\ Budget'
           Stays(w) == \A v \in Worker \ {w} : call'[v] = call[v]
<1>0. TypeOK /\ LoopHoldsLock /\ CreditSeen /\ Budget /\ call \in [Worker -> Call]
  BY RetypedStep, Zenon DEF ExpanderInv, CreditInv, TypeOK, Call, Point
<1>a. ASSUME NEW w \in Worker, NEW pc, Goto(w, pc) PROVE Stays(w) /\ call'[w].pc = pc
  <2>1. call[w] \in Call
    BY <1>0
  <2> QED
    BY <1>0, <1>a, <2>1 DEF Goto, Call
<1>b. ASSUME NEW w \in Worker, Return(w) PROVE Stays(w) /\ call'[w].pc = "idle"
  BY <1>0, <1>b DEF Return, Idle
<1>1. ASSUME NEW w \in Worker, Stays(w), call'[w].pc # "consume",
             \A v \in Worker \ {w} : call[v].pc # "consume"
      PROVE  CreditSeen'
  BY <1>1 DEF CreditSeen
<1>2. ASSUME UNCHANGED <<in_flight, credits>> PROVE Budget'
  BY <1>0, <1>2 DEF Budget, InFlight
<1>c. ASSUME queue_mutex = None PROVE \A v \in Worker : call[v].pc # "consume"
  BY <1>0, <1>c, ExpanderAssumption DEF LoopHoldsLock
<1>d. ASSUME NEW w \in Worker, queue_mutex = w PROVE \A v \in Worker \ {w} : call[v].pc # "consume"
  BY <1>0, <1>d DEF LoopHoldsLock
<1>3. ASSUME NEW w \in Worker, NEW latency \in PipelineLatency, consume_credit(w, latency)
      PROVE  Goal
  <2>1. Goto(w, "issue") /\ queue_mutex = w
    BY <1>0, <1>3, Zenon DEF consume_credit, LoopHoldsLock
  <2>2. Budget'
    BY <1>0, <1>3, CreditsConsumed
  <2> QED
    BY <1>a, <1>d, <1>1, <2>1, <2>2
<1>4. ASSUME NEW w \in Worker, complete_requests(w) PROVE Goal
  <2>1. Goto(w, "issue") /\ queue_mutex = None
    BY <1>4, Zenon DEF complete_requests
  <2>2. Budget'
    BY <1>0, <1>4, CreditsReleased
  <2> QED
    BY <1>a, <1>c, <1>1, <2>1, <2>2
<1>5. ASSUME NEW w \in Worker, check_credit(w) PROVE Goal
  <2>1. /\ UNCHANGED <<request_queue, in_flight, credits>>
        /\ credits[Head(request_queue).is_read] > 0
    BY <1>5, Zenon DEF check_credit, CanIssue, has_credits, queue
  <2>2. CreditSeen'
    BY <2>1 DEF CreditSeen
  <2> QED
    BY <1>2, <2>1, <2>2
<1>6. ASSUME NEW w \in Worker, Stays(w), call'[w].pc # "consume",
             UNCHANGED <<request_queue, in_flight, credits>>
      PROVE  Goal
  <2>1. CreditSeen'
    BY <1>0, <1>6 DEF CreditSeen
  <2> QED
    BY <1>2, <1>6, <2>1
<1>7. ASSUME NEW w \in Worker,
             \/ \E a \in Addr \cup {0}, t \in Time : insert(w, a, t)
             \/ \E a \in Addr, t \in Time : calculate_latency(w, a, t)
      PROVE  Goal
  <2>1. UNCHANGED <<request_queue, in_flight, credits>> /\ Stays(w) /\ call'[w].pc = "process"
    BY <1>0, <1>7 DEF insert, calculate_latency, queue
  <2> QED
    BY <1>6, <2>1
<1>8. ASSUME NEW w \in Worker,
             \/ processed(w) \/ accept(w) \/ find_entry(w) \/ erase_entry(w)
             \/ add_entry(w) \/ clear_address_cache(w)
             \/ update_address_cache(w) \/ is_address_local(w)
      PROVE  Goal
  <2>1. /\ UNCHANGED <<request_queue, in_flight, credits>>
        /\ \/ Goto(w, "cache") \/ Goto(w, "accept") \/ Goto(w, "push")
           \/ Goto(w, "erase") \/ Goto(w, "replace") \/ Goto(w, "add")
           \/ Goto(w, "rebuild") \/ Goto(w, "lookup") \/ Return(w)
    BY <1>8, Zenon DEF processed, accept, find_entry, erase_entry,
       add_entry, clear_address_cache, update_address_cache, is_address_local, queue
  <2>2. Stays(w) /\ call'[w].pc # "consume"
    BY <1>a, <1>b, <2>1
  <2> QED
    BY <1>6, <2>1, <2>2, Zenon
<1>9. ASSUME NEW w \in Worker, push(w) PROVE Goal
  <2>1. Goto(w, "entry") /\ queue_mutex = None /\ UNCHANGED <<in_flight, credits>>
    BY <1>9, Zenon DEF push
  <2> QED
    BY <1>a, <1>c, <1>1, <1>2, <2>1
<1>10. ASSUME NEW w \in Worker, replace_entry(w) PROVE Goal
  <2>1. Return(w) /\ UNCHANGED <<in_flight, credits>>
    BY <1>10, Zenon DEF replace_entry
  <2>2. \A v \in Worker : call[v].pc = "consume" => Head(request_queue') = Head(request_queue)
    BY <1>0, <1>10, FrontKept, Zenon
  <2>3. CreditSeen'
    BY <1>0, <1>b, <2>1, <2>2 DEF CreditSeen
  <2> QED
    BY <1>2, <2>1, <2>3
<1>11. ASSUME UNCHANGED <<call, request_queue, in_flight, credits>> PROVE Goal
  BY <1>0, <1>2, <1>11 DEF CreditSeen
<1> HIDE DEF Goal
<1>12. Goal
  BY <1>3, <1>4, <1>5, <1>7, <1>8, <1>9, <1>10, <1>11, Zenon DEF Next, vars
<1> QED
  BY <1>12 DEF Goal

(* No number of threads ever creates a credit: available and in-flight     *)
(* ones stay within INITIAL_CREDITS until insert changes the type of a     *)
(* request between has_credits and consume_credit.                         *)
THEOREM ExpanderCredits == Spec => []CreditsWithinBudget
<1>1. Init => CreditInv
  <2> SUFFICES ASSUME Init PROVE CreditSeen /\ Budget
    BY DEF CreditInv
  <2>1. \A w \in Worker : call[w].pc = "idle"
    BY Zenon DEF Init, Idle
  <2>2. \A r \in BOOLEAN : credits[r] = INITIAL_CREDITS /\ InFlight(r) = {}
    BY DEF Init, InFlight
  <2>3. \A r \in BOOLEAN : Cardinality(InFlight(r)) = 0
    BY <2>2, FS_EmptySet
  <2> QED
    BY <2>1, <2>2, <2>3, ExpanderAssumption DEF CreditSeen, Budget
<1>2. ExpanderInv /\ ExpanderInv' /\ CreditInv /\ [Next]_vars => CreditInv'
  BY CreditStep DEF ExpanderInv
<1>3. CreditInv => CreditsWithinBudget
  BY DEF CreditInv, Budget, CreditsWithinBudget
<1> QED
  BY <1>1, <1>2, <1>3, ExpanderInvariance, PTL DEF Spec
=============================================================================
