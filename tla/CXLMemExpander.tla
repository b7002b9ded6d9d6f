--------------------------- MODULE CXLMemExpander ---------------------------
(***************************************************************************)
(* The memory expander of src/cxlendpoint.cpp: the request queue with its  *)
(* credits, and the occupation list with the two caches built from it.     *)
(*                                                                         *)
(* The server threads call insert and calculate_latency concurrently:      *)
(* insert runs under memory_mutex in the TCP and ring modes (Locked) and   *)
(* under no lock in PGAS mode, and calculate_latency is called before      *)
(* memory_mutex is taken.  queue_mutex_ is the only lock of the expander;  *)
(* each step below is one critical section of it, or one access outside.   *)
(* The issue loop is two steps per request, because insert changes the     *)
(* type of a queued request without the lock.  The occupation list and its *)
(* caches have no lock at all: each test and each update of them is a step *)
(* of its own.  A race that corrupts the vector itself is not modelled.    *)
(*                                                                         *)
(* A timestamp is any value of 0..MaxTime in any order: the server passes  *)
(* the client's timestamp to insert and the address of the request where   *)
(* calculate_latency expects a time.                                       *)
(***************************************************************************)
EXTENDS Integers, Sequences, FiniteSets

CONSTANTS Worker,          \* server threads
          None,            \* no thread, no request
          Addr,            \* physical addresses; 0 only updates a counter
          MAX_QUEUE_SIZE,  \* 64 in the code
          INITIAL_CREDITS, \* 2 in the code
          CreditModulus,   \* 2^64: credits are size_t
          MaxTime,         \* bound: timestamps
          MaxLatency,      \* bound: result of calculate_pipeline_latency
          MaxEntries,      \* bound: entries of an address insert starts with
          Locked           \* insert runs under the server's memory_mutex

ASSUME ExpanderAssumption ==
  /\ IsFiniteSet(Worker) /\ None \notin Worker
  /\ IsFiniteSet(Addr) /\ Addr \subseteq Nat \ {0}
  /\ MAX_QUEUE_SIZE \in Nat \ {0, 1}
  /\ INITIAL_CREDITS \in Nat \ {0}
  /\ CreditModulus \in Nat /\ CreditModulus > INITIAL_CREDITS
  /\ MaxTime \in Nat /\ MaxLatency \in Nat \ {0}
  /\ MaxEntries \in Nat
  /\ Locked \in BOOLEAN

VARIABLES request_queue,  \* request_queue_: requests not issued yet
          in_flight,      \* in_flight_requests_: at most one per address
          credits,        \* read_credits_ (TRUE) and write_credits_ (FALSE)
          queue_mutex,    \* holder of queue_mutex_
          occupation,     \* number of occupation entries of each address
          address_cache,  \* addresses believed to be in occupation
          address_ranges, \* addresses covered by the range cache
          cache_valid,    \* one flag for both caches
          call,           \* the call each thread is in
          retyped         \* history: a request changed its type while it
                          \* was being issued

vars == <<request_queue, in_flight, credits, queue_mutex, occupation,
          address_cache, address_ranges, cache_valid, call, retyped>>

queue == <<request_queue, in_flight, credits>>

caches == <<occupation, address_cache, address_ranges, cache_valid>>

Time == 0..MaxTime

CXLRequest == [address : Addr, is_read : BOOLEAN]

Issued == [is_read : BOOLEAN, complete_time : 1..(MaxTime + MaxLatency)]

Idle == [pc |-> "idle", op |-> "none", addr |-> 0, time |-> 0]

(* One type invariant of the expander: the shape of its state. *)
TypeOK ==
  /\ request_queue \in Seq(CXLRequest)
  /\ in_flight \in [Addr -> Issued \cup {None}]
  /\ credits \in [BOOLEAN -> 0..(CreditModulus - 1)]
  /\ queue_mutex \in Worker \cup {None}
  /\ occupation \in [Addr -> Nat]
  /\ address_cache \in SUBSET Addr /\ address_ranges \in SUBSET Addr
  /\ cache_valid \in BOOLEAN
  /\ call \in [Worker -> [pc : {"idle", "process", "issue", "consume", "accept",
                                "push", "entry", "erase", "replace", "add",
                                "cache", "rebuild", "lookup"},
                          op : {"none", "insert", "latency"},
                          addr : Addr \cup {0}, time : Time]]
  /\ retyped \in BOOLEAN

Init ==
  /\ request_queue = <<>> /\ in_flight = [a \in Addr |-> None]
  /\ credits = [r \in BOOLEAN |-> INITIAL_CREDITS]
  /\ queue_mutex = None
  /\ occupation = [a \in Addr |-> 0]
  /\ address_cache = {} /\ address_ranges = {} /\ cache_valid = FALSE
  /\ call = [w \in Worker |-> Idle]
  /\ retyped = FALSE

InFlight(r) == {a \in Addr : in_flight[a] # None /\ in_flight[a].is_read = r}

Occupied == {a \in Addr : occupation[a] > 0}

Goto(w, pc) == call' = [call EXCEPT ![w].pc = pc]

Return(w) == call' = [call EXCEPT ![w] = Idle]

-----------------------------------------------------------------------------
(* The calls.  insert for another expander's index returns at once.        *)
insert(w, a, t) ==
  /\ call[w].pc = "idle"
  /\ Locked => \A v \in Worker : call[v].op # "insert"
  /\ a # 0 => occupation[a] <= MaxEntries
  /\ call' = [call EXCEPT ![w] = [pc |-> "process", op |-> "insert", addr |-> a, time |-> t]]
  /\ UNCHANGED <<queue, queue_mutex, caches, retyped>>

calculate_latency(w, a, t) ==
  /\ call[w].pc = "idle"
  /\ call' = [call EXCEPT ![w] = [pc |-> "process", op |-> "latency", addr |-> a, time |-> t]]
  /\ UNCHANGED <<queue, queue_mutex, caches, retyped>>

-----------------------------------------------------------------------------
(* process_queued_requests, first loop: every request whose complete_time  *)
(* has come is erased and its credit released, up to INITIAL_CREDITS.      *)
Completed(t) == {a \in Addr : in_flight[a] # None /\ in_flight[a].complete_time <= t}

release_credit(c, n) ==
  IF c + n <= INITIAL_CREDITS \/ n = 0 THEN c + n
  ELSE IF c < INITIAL_CREDITS THEN INITIAL_CREDITS ELSE c

complete_requests(w) ==
  LET done == Completed(call[w].time)
  IN /\ call[w].pc = "process" /\ queue_mutex = None
     /\ queue_mutex' = w
     /\ credits' = [r \in BOOLEAN |->
          release_credit(credits[r], Cardinality(done \cap InFlight(r)))]
     /\ in_flight' = [a \in Addr |-> IF a \in done THEN None ELSE in_flight[a]]
     /\ Goto(w, "issue")
     /\ UNCHANGED <<request_queue, caches, retyped>>

has_credits_at_zero(r) == credits[r] >= 0

(* Second loop: has_credits, then consume_credit and the move to in-flight.*)
(* The type of the request is read again after the test.                   *)
has_credits(r) == credits[r] > 0

CanIssue ==
  /\ request_queue # <<>>
  /\ Cardinality(InFlight(TRUE)) + Cardinality(InFlight(FALSE)) < MAX_QUEUE_SIZE \div 2
  /\ has_credits(Head(request_queue).is_read)

(* fetch_sub on a size_t: zero wraps. *)
below_zero(c) == c - 1

decremented(c) == (c + CreditModulus - 1) % CreditModulus

PipelineLatency == 1..MaxLatency

check_credit(w) ==
  /\ call[w].pc = "issue" /\ CanIssue
  /\ Goto(w, "consume")
  /\ UNCHANGED <<queue, queue_mutex, caches, retyped>>

consume_credit(w, latency) ==
  LET req == Head(request_queue)
  IN /\ call[w].pc = "consume"
     /\ credits' = [credits EXCEPT ![req.is_read] = decremented(@)]
     /\ in_flight' = [in_flight EXCEPT ![req.address] =
          [is_read |-> req.is_read, complete_time |-> call[w].time + latency]]
     /\ request_queue' = Tail(request_queue)
     /\ Goto(w, "issue")
     /\ UNCHANGED <<queue_mutex, caches, retyped>>

processed(w) ==
  /\ call[w].pc = "issue" /\ ~CanIssue
  /\ queue_mutex' = None
  /\ IF call[w].op = "latency" THEN Goto(w, "cache")
     ELSE IF call[w].addr = 0 THEN Return(w)
     ELSE Goto(w, "accept")
  /\ UNCHANGED <<queue, caches, retyped>>

-----------------------------------------------------------------------------
(* The rest of insert.  can_accept_request takes and drops the lock, the   *)
(* push takes it again.                                                    *)
can_accept_request_when_full == Len(request_queue) <= MAX_QUEUE_SIZE

can_accept_request == Len(request_queue) < MAX_QUEUE_SIZE

accept(w) ==
  /\ call[w].pc = "accept" /\ queue_mutex = None
  /\ IF can_accept_request THEN Goto(w, "push") ELSE Return(w)
  /\ UNCHANGED <<queue, queue_mutex, caches, retyped>>

push(w) ==
  /\ call[w].pc = "push" /\ queue_mutex = None
  /\ request_queue' = Append(request_queue, [address |-> call[w].addr, is_read |-> FALSE])
  /\ Goto(w, "entry")
  /\ UNCHANGED <<in_flight, credits, queue_mutex, caches, retyped>>

(* The occupation list.  An address found in the cache and then in the     *)
(* list has its entry replaced, and turns the last queued request into a   *)
(* read, whichever it is by now, without the lock; on an empty queue the   *)
(* code writes outside the deque, which leaves the state of the model      *)
(* alone.  Any other address gets an entry.                                *)
find_entry(w) ==
  /\ call[w].pc = "entry"
  /\ Goto(w, IF call[w].addr \in address_cache THEN "erase" ELSE "add")
  /\ UNCHANGED <<queue, queue_mutex, caches, retyped>>

erase_entry(w) ==
  LET a == call[w].addr
  IN /\ call[w].pc = "erase"
     /\ \/ /\ occupation[a] > 0
           /\ occupation' = [occupation EXCEPT ![a] = @ - 1]
           /\ Goto(w, "replace")
        \/ /\ occupation[a] = 0
           /\ Goto(w, "add")
           /\ UNCHANGED occupation
     /\ UNCHANGED <<queue, queue_mutex, address_cache, address_ranges, cache_valid, retyped>>

LastIsRead ==
  LET n == Len(request_queue)
  IN IF n = 0 THEN request_queue ELSE [request_queue EXCEPT ![n].is_read = TRUE]

replace_entry(w) ==
  /\ call[w].pc = "replace"
  /\ occupation' = [occupation EXCEPT ![call[w].addr] = @ + 1]
  /\ request_queue' = LastIsRead
  /\ retyped' = (retyped \/ /\ LastIsRead # request_queue /\ Len(request_queue) = 1
                            /\ \E v \in Worker : call[v].pc = "consume")
  /\ Return(w)
  /\ UNCHANGED <<in_flight, credits, queue_mutex, address_cache, address_ranges,
                 cache_valid>>

add_entry(w) ==
  /\ call[w].pc = "add"
  /\ occupation' = [occupation EXCEPT ![call[w].addr] = @ + 1]
  /\ address_cache' = address_cache \cup {call[w].addr}
  /\ Return(w)
  /\ UNCHANGED <<queue, queue_mutex, address_ranges, cache_valid, retyped>>

-----------------------------------------------------------------------------
(* The rest of calculate_latency: update_address_cache clears and refills  *)
(* the address cache unless cache_valid is set, and leaves it set; then    *)
(* is_address_local, for the one access of the call, calls                 *)
(* update_range_cache only if cache_valid is clear.                        *)
clear_address_cache(w) ==
  /\ call[w].pc = "cache"
  /\ address_cache' = IF cache_valid THEN address_cache ELSE {}
  /\ Goto(w, IF cache_valid THEN "lookup" ELSE "rebuild")
  /\ UNCHANGED <<queue, queue_mutex, occupation, address_ranges, cache_valid, retyped>>

update_address_cache(w) ==
  /\ call[w].pc = "rebuild"
  /\ address_cache' = address_cache \cup Occupied
  /\ cache_valid' = TRUE
  /\ Goto(w, "lookup")
  /\ UNCHANGED <<queue, queue_mutex, occupation, address_ranges, retyped>>

update_range_cache == IF cache_valid THEN address_ranges ELSE Occupied

is_address_local(w) ==
  /\ call[w].pc = "lookup"
  /\ address_ranges' = update_range_cache
  /\ cache_valid' = TRUE
  /\ Return(w)
  /\ UNCHANGED <<queue, queue_mutex, occupation, address_cache, retyped>>

Next ==
  \/ \E w \in Worker :
       \/ \E a \in Addr \cup {0}, t \in Time : insert(w, a, t)
       \/ \E a \in Addr, t \in Time : calculate_latency(w, a, t)
       \/ complete_requests(w)
       \/ check_credit(w)
       \/ \E latency \in PipelineLatency : consume_credit(w, latency)
       \/ processed(w)
       \/ accept(w)
       \/ push(w)
       \/ find_entry(w) \/ erase_entry(w) \/ replace_entry(w) \/ add_entry(w)
       \/ clear_address_cache(w) \/ update_address_cache(w)
       \/ is_address_local(w)

Spec == Init /\ [][Next]_vars

-----------------------------------------------------------------------------
(* Credits are never created: what is available and what is in flight      *)
(* together stay within INITIAL_CREDITS, for reads and for writes, over    *)
(* any history of inserts, issues and completions by any number of         *)
(* threads, until insert's unlocked change of type hits a request between  *)
(* has_credits and consume_credit.  That takes a credit has_credits did    *)
(* not see, and the counter wraps.                                         *)
CreditsWithinBudget ==
  ~retyped =>
    \A r \in BOOLEAN : credits[r] + Cardinality(InFlight(r)) <= INITIAL_CREDITS

(* A queued request can always be issued some day: a type without credits  *)
(* has a request in flight whose completion will release one.  An issue    *)
(* that overwrites the in-flight request of the same address loses the     *)
(* credit of the overwritten one, so the code breaks this.                 *)
CreditIsAvailable ==
  \A r \in BOOLEAN : credits[r] > 0 \/ InFlight(r) # {}

(* The queue limit: can_accept_request and push_back are two critical      *)
(* sections, so threads that are between them may overrun the limit, but   *)
(* by at most one request each, and never when insert is serialised by     *)
(* memory_mutex.                                                           *)
QueueWithinLimit ==
  Len(request_queue) + Cardinality({w \in Worker : call[w].pc = "push"})
    <= MAX_QUEUE_SIZE + (IF Locked THEN 0 ELSE Cardinality(Worker) - 1)

(* calculate_latency charges an access exactly when the address is held by *)
(* this expander.  The code breaks this: update_address_cache has set      *)
(* cache_valid when is_address_local tests it, so the ranges are stale.    *)
HeldIsLocal ==
  \A w \in Worker : call[w].pc = "lookup" =>
    (call[w].addr \in update_range_cache <=> call[w].addr \in Occupied)
=============================================================================
