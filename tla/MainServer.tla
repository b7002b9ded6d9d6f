----------------------------- MODULE MainServer -----------------------------
(***************************************************************************)
(* The memory server of src/src/main_server.cc: the requests that          *)
(* handle_request and handle_atomic_request serve for the worker threads   *)
(* (one per TCP connection, or the four of run_shm_mode), the MESI         *)
(* metadata of each cache line, the back-invalidation queues and the       *)
(* shared memory behind SharedMemoryManager.  A handler counts itself in   *)
(* active_requests, runs its body under memory_mutex, and counts itself    *)
(* out: three steps.                                                       *)
(*                                                                         *)
(* Addresses count 8-byte words.  Left out: latencies, statistics, and     *)
(* has_dirty_update, dirty_update_time and version, which nothing reads.   *)
(* A closed connection changes no state: its thread id, never reused,      *)
(* simply issues nothing more.                                             *)
(***************************************************************************)
EXTENDS Integers, Sequences, FiniteSets, FiniteSetsExt

CONSTANTS
  Worker,          \* server threads
  Thread,          \* thread_id (TCP) or client_id (SHM) of the requester
  NoOwner,         \* owner == -1
  W,               \* words of a cache line (SHM_CACHELINE_SIZE)
  NumCachelines,   \* header->num_cachelines
  BaseAddr,        \* header->base_addr; 0 maps every address, by modulo
  Addr,            \* the addresses requests carry
  MaxTime,         \* bound on the timestamps clients put in their requests
  Modulus,         \* 2^64: words wrap
  LsaSize,         \* the initial lsa_size_
  MaxLsa,          \* bound on the growth of the label storage area
  MaxQueue         \* bound on each back-invalidation queue

Word == 0..Modulus-1
Size == 1..W
Cell == 0..(W * NumCachelines)-1
Line(a) == a \div W            \* req.addr & ~63
Lines == {Line(a) : a \in Addr}

ASSUME WidthAssumption == W \in Nat \ {0} /\ Modulus \in Nat \ {0}
ASSUME AreaAssumption == NumCachelines \in Nat \ {0}
ASSUME BaseAssumption == BaseAddr \in Nat /\ BaseAddr % W = 0
ASSUME AddrAssumption == Addr \subseteq Nat
ASSUME OwnerAssumption == NoOwner \notin Thread
ASSUME BoundAssumption == MaxTime \in Nat /\ MaxQueue \in Nat /\ MaxLsa \in Nat
                          /\ LsaSize \in 0..MaxLsa
ASSUME FiniteAssumption == IsFiniteSet(Worker) /\ IsFiniteSet(Thread)

VARIABLES
  entered,          \* workers counted in, waiting for memory_mutex
  leaving,          \* workers out of the critical section, not yet counted out
  active_requests,  \* congestion_info.active_requests
  meta,             \* metadata_cache: the CachelineMetadata of each line
  queue,            \* back_invalidation_queue of each line
  mem,              \* the data area
  lsa,              \* lsa_data_
  last,             \* the latest successful write and the invalidations it counted
  latest,           \* history: what the requests, in lock order, left in memory
  ordered           \* history: the lines whose requests came in timestamp order

vars == <<entered, leaving, active_requests, meta, queue, mem, lsa, last, latest,
          ordered>>

State == {"INVALID", "SHARED", "EXCLUSIVE", "MODIFIED"}
CachelineMetadata == [state : State, owner : Thread \cup {NoOwner},
                      sharers : SUBSET Thread, last_access_time : 0..MaxTime]
NoWrite == [inv |-> 0]
BackInvalidationEntry == [timestamp : 0..MaxTime, dirty_data : Seq(Word)]

TypeOK ==
  /\ entered \subseteq Worker /\ leaving \subseteq Worker
  /\ active_requests \in Int
  /\ meta \in [Lines -> CachelineMetadata]
  /\ queue \in [Lines -> Seq(BackInvalidationEntry)]
  /\ mem \in [Cell -> Word] /\ latest \in [Cell -> Word]
  /\ lsa \in Seq(Word)
  /\ last \in [line : Lines, inv : Nat] \cup {NoWrite}
  /\ ordered \subseteq Lines

FreshMetadata == [state |-> "INVALID", owner |-> NoOwner, sharers |-> {},
                  last_access_time |-> 0]

Init ==
  /\ entered = {} /\ leaving = {} /\ active_requests = 0
  /\ meta = [l \in Lines |-> FreshMetadata]
  /\ queue = [l \in Lines |-> <<>>]
  /\ mem = [c \in Cell |-> 0] /\ latest = mem
  /\ lsa = [i \in 1..LsaSize |-> 0]
  /\ last = NoWrite
  /\ ordered = Lines

-----------------------------------------------------------------------------
(* SharedMemoryManager *)

\* is_valid_address
is_valid_address(a) ==
  BaseAddr = 0 \/ (a >= BaseAddr /\ a < BaseAddr + W * NumCachelines)

\* addr_to_cacheline, cacheline_to_index and the offset: the word of the data area
Index(a) == IF BaseAddr = 0 THEN a % (W * NumCachelines) ELSE a - BaseAddr

\* outside modulo mapping an access may not cross its line
InOneLine(a, n) == BaseAddr = 0 \/ (a % W) + n <= W

\* the cells of n words from a, and the memory with those words set
Stored(m, a, data) ==
  [c \in Cell |->
     LET hits == {k \in 1..Len(data) : Index(a + k - 1) = c}
     IN IF hits = {} THEN m[c] ELSE data[Max(hits)]]

\* write_cacheline: the bytes are copied before msync may fail
write_cacheline(m, a, data) == IF InOneLine(a, Len(data)) THEN Stored(m, a, data) ELSE m

-----------------------------------------------------------------------------
(* Coherency of one line *)

Holders(i) == i.sharers \cup ({i.owner} \ {NoOwner})

\* variant: the previous owner keeps its ownership
read_coherency_keeping_owner(i, t) == [i EXCEPT !.state = "SHARED", !.sharers = @ \cup {t}]

\* variant: the owner is added to the sharers even when there is none
read_coherency_adding_owner(i, t) ==
  [i EXCEPT !.state = "SHARED", !.sharers = @ \cup {i.owner, t}, !.owner = NoOwner]

handle_read_coherency(i, t) ==
  IF i.state \in {"INVALID", "SHARED"}
  THEN [i EXCEPT !.state = "SHARED", !.sharers = @ \cup {t}]
  ELSE [i EXCEPT !.state = "SHARED", !.sharers = @ \cup {i.owner, t}, !.owner = NoOwner]

handle_write_coherency(i, t) ==
  [i EXCEPT !.state = "MODIFIED", !.owner = t,
            !.sharers = IF i.state = "SHARED" THEN {} ELSE @]

\* invalidate_sharers, called in SHARED and for another thread's E or M line
invalidate_sharers(i, t) ==
  IF i.state = "SHARED" \/ (i.state \in {"EXCLUSIVE", "MODIFIED"} /\ i.owner # t)
  THEN Cardinality(i.sharers \ {t}) + Cardinality({i.owner} \ {NoOwner, t})
  ELSE 0

\* variant: the writer is told of its own write
threads_to_invalidate_all(i, t) ==
  CASE i.state = "SHARED" -> i.sharers
    [] i.state \in {"EXCLUSIVE", "MODIFIED"} -> {i.owner} \ {t}
    [] i.state = "INVALID" -> {}

\* threads_to_invalidate of the write path, without the writer itself
threads_to_invalidate(i, t) ==
  (CASE i.state = "SHARED" -> i.sharers
     [] i.state \in {"EXCLUSIVE", "MODIFIED"} -> {i.owner}
     [] i.state = "INVALID" -> {}) \ {t}

-----------------------------------------------------------------------------
(* Back invalidation *)

\* variant: an entry as old as the latest access is applied
NewerOrEqual(q, i) == {k \in 1..Len(q) : q[k].timestamp >= i.last_access_time}

\* the entries of a queue whose data is newer than the line's latest access
Newer(q, i) == {k \in 1..Len(q) : q[k].timestamp > i.last_access_time}

\* check_and_apply_back_invalidations: in queue order, every newer entry is
\* written to the start of the line, so the last to cover a word decides it
back_invalidated(m, l, q, i) ==
  [c \in Cell |->
     LET hits == {k \in Newer(q, i) :
                    \E j \in 1..Len(q[k].dirty_data) : Index(l * W + j - 1) = c}
     IN IF hits = {} THEN m[c]
        ELSE LET d == q[Max(hits)].dirty_data
             IN d[CHOOSE j \in 1..Len(d) : Index(l * W + j - 1) = c]]

\* register_back_invalidation, once for each invalidated thread
registered(q, n, ts, data) ==
  q \o [k \in 1..n |-> [timestamp |-> ts, dirty_data |-> data]]

-----------------------------------------------------------------------------
(* handle_request and handle_atomic_request *)

\* handle_request returns before counting itself when the address is invalid
Enter(w) ==
  /\ w \notin entered \cup leaving
  /\ entered' = entered \cup {w}
  /\ active_requests' = active_requests + 1
  /\ UNCHANGED <<leaving, meta, queue, mem, lsa, last, latest, ordered>>

\* variant: the error return forgets to count the request out
LeaveBodyUncounted(w, ok) ==
  /\ entered' = entered \ {w}
  /\ leaving' = IF ok THEN leaving \cup {w} ELSE leaving
  /\ UNCHANGED active_requests

\* an error return counts the request out; otherwise that comes after the unlock
LeaveBody(w, ok) ==
  /\ entered' = entered \ {w}
  /\ leaving' = IF ok THEN leaving \cup {w} ELSE leaving
  /\ active_requests' = IF ok THEN active_requests ELSE active_requests - 1

Exit(w) ==
  /\ w \in leaving
  /\ leaving' = leaving \ {w}
  /\ active_requests' = active_requests - 1
  /\ UNCHANGED <<entered, meta, queue, mem, lsa, last, latest, ordered>>

\* the history: does the timestamp follow the line's latest access?
Observe(l, ts) ==
  ordered' = IF ts >= meta[l].last_access_time THEN ordered ELSE ordered \ {l}

Read(w, t, a, n, ts) ==
  LET l == Line(a)
      ok == InOneLine(a, n)
      i == handle_read_coherency(meta[l], t)
  IN /\ w \in entered /\ is_valid_address(a)
     /\ mem' = back_invalidated(mem, l, queue[l], meta[l])
     /\ queue' = [queue EXCEPT ![l] = <<>>]
     /\ meta' = [meta EXCEPT ![l] = IF ok THEN [i EXCEPT !.last_access_time = ts] ELSE i]
     /\ last' = NoWrite
     /\ LeaveBody(w, ok) /\ Observe(l, ts)
     /\ UNCHANGED <<lsa, latest>>

\* synced: whether msync of the whole mapping succeeds
Write(w, t, a, data, ts, synced) ==
  LET l == Line(a)
      ok == InOneLine(a, Len(data)) /\ synced
      i == handle_write_coherency(meta[l], t)
      n == Cardinality(threads_to_invalidate(meta[l], t))
  IN /\ w \in entered /\ is_valid_address(a)
     /\ Len(queue[l]) + n <= MaxQueue
     /\ mem' = write_cacheline(mem, a, data)
     /\ latest' = write_cacheline(latest, a, data)
     /\ queue' = [queue EXCEPT ![l] = IF ok THEN registered(@, n, ts, data) ELSE @]
     /\ meta' = [meta EXCEPT ![l] = IF ok THEN [i EXCEPT !.last_access_time = ts] ELSE i]
     /\ last' = IF ok THEN [line |-> l, inv |-> invalidate_sharers(meta[l], t)]
                ELSE NoWrite
     /\ LeaveBody(w, ok) /\ Observe(l, ts)
     /\ UNCHANGED lsa

\* metadata after an atomic that stored: no thread is told of its lost copy
AtomicOwned(i, t, ts) ==
  [state |-> "MODIFIED", owner |-> t, sharers |-> {}, last_access_time |-> ts]

\* ptr is data_area + req.addr, without the base or the modulo of Index; an
\* address outside the data area has no defined effect and is not modelled
Atomic(w, t, a, ts, success, new, newLatest) ==
  LET l == Line(a)
  IN /\ w \in entered /\ a \in Cell
     /\ mem' = [mem EXCEPT ![a] = new]
     /\ latest' = [latest EXCEPT ![Index(a)] = newLatest]
     /\ meta' = [meta EXCEPT ![l] = IF success THEN AtomicOwned(@, t, ts)
                                    ELSE [@ EXCEPT !.last_access_time = ts]]
     /\ last' = NoWrite
     /\ LeaveBody(w, TRUE) /\ Observe(l, ts)
     /\ UNCHANGED <<queue, lsa>>

AtomicFAA(w, t, a, value, ts) ==
  Atomic(w, t, a, ts, TRUE, (mem[a] + value) % Modulus,
         (latest[Index(a)] + value) % Modulus)

Swapped(old, expected, value) == IF old = expected THEN value ELSE old

AtomicCAS(w, t, a, expected, value, ts) ==
  Atomic(w, t, a, ts, mem[a] = expected, Swapped(mem[a], expected, value),
         Swapped(latest[Index(a)], expected, value))

Fence(w) ==
  /\ w \in entered
  /\ last' = NoWrite
  /\ LeaveBody(w, TRUE)
  /\ UNCHANGED <<meta, queue, mem, lsa, latest, ordered>>

\* OP_LSA_WRITE, under lsa_mutex_ and never counted: grows the area with zeros
LsaWrite(w, offset, value) ==
  /\ w \notin entered \cup leaving
  /\ offset < MaxLsa
  /\ lsa' = [i \in 1..Max({Len(lsa), offset + 1}) |->
               IF i = offset + 1 THEN value ELSE IF i <= Len(lsa) THEN lsa[i] ELSE 0]
  /\ UNCHANGED <<entered, leaving, active_requests, meta, queue, mem, last, latest, ordered>>

\* The process ends at any point and is started again.  initialize_header finds
\* its magic number in the segment or backing file and initialize_data_area keeps
\* the data; the metadata, the queues and the label storage area were in the
\* process, and the requests under way are gone with their connections.  A crash
\* inside a write leaves the words copied so far: a shorter write, then this.
Restart ==
  /\ entered' = {} /\ leaving' = {} /\ active_requests' = 0
  /\ meta' = [l \in Lines |-> FreshMetadata]
  /\ queue' = [l \in Lines |-> <<>>]
  /\ lsa' = [i \in 1..LsaSize |-> 0]
  /\ last' = NoWrite
  /\ UNCHANGED <<mem, latest, ordered>>

\* the payloads clients send: one value repeated over n words
Payload == UNION {{[k \in 1..n |-> v] : v \in Word} : n \in Size}

Body(w) ==
  \E t \in Thread, a \in Addr, ts \in 0..MaxTime :
    \/ \E n \in Size : Read(w, t, a, n, ts)
    \/ \E data \in Payload, synced \in BOOLEAN : Write(w, t, a, data, ts, synced)
    \/ \E v \in Word : AtomicFAA(w, t, a, v, ts)
    \/ \E e, v \in Word : AtomicCAS(w, t, a, e, v, ts)

Serve(w) ==
  \/ Enter(w)
  \/ Body(w)
  \/ Fence(w)
  \/ Exit(w)
  \/ \E o \in 0..MaxLsa, v \in Word : LsaWrite(w, o, v)

Next == Restart \/ \E w \in Worker : Serve(w)

Spec == Init /\ [][Next]_vars

-----------------------------------------------------------------------------
(* Properties *)

Consistent(i) ==
  CASE i.state = "INVALID"  -> i.owner = NoOwner /\ i.sharers = {}
    [] i.state = "SHARED"   -> i.owner = NoOwner /\ i.sharers # {}
    [] i.state = "MODIFIED" -> i.owner \in Thread /\ i.sharers = {}
    [] OTHER -> FALSE

\* After every request, failed ones included, a line has one modified owner and
\* no sharers, or sharers and no owner, or nobody.  The MODIFIED branch of
\* handle_write_coherency and the atomics rely on it: the first never clears
\* sharers.
MesiConsistent == \A l \in Lines : Consistent(meta[l])

\* congestion_info.active_requests is the number of requests under way, whatever
\* error return they took: the congestion factor comes back to 1.0 at rest.
ActiveBalanced == active_requests = Cardinality(entered \cup leaving)

\* As long as the requests for each line reach memory_mutex in the order of their
\* timestamps, memory holds what the latest write, FAA or CAS left in each word:
\* no back-invalidation entry, a copy of an older write, is ever written over it,
\* and a restart loses none of it.
OrderedMemoryIsCurrent == ordered = Lines => mem = latest

\* The same for requests in any timestamp order: "Apply the dirty data if it's
\* newer than our current data" (check_and_apply_back_invalidations).
MemoryIsCurrent == mem = latest

\* A successful write registers one back invalidation, and charges one
\* invalidation, for each other thread that held the line before it, and for
\* nobody else.
WriteRegisters ==
  last' # NoWrite =>
    LET l == last'.line
        revoked == Holders(meta[l]) \ Holders(meta'[l])
    IN \/ UNCHANGED <<meta, queue, last>>
       \/ /\ Len(queue'[l]) = Len(queue[l]) + Cardinality(revoked)
          /\ last'.inv = Cardinality(revoked)
RevocationsAreRegistered == [][WriteRegisters]_vars
=============================================================================
