-------------------------- MODULE MainServerProofs --------------------------
(***************************************************************************)
(* Proofs about MainServer for every value of its constants: the MESI      *)
(* metadata of every line stays consistent, active_requests is the number  *)
(* of requests under way, and, with the default base address, memory is    *)
(* current as long as each line's requests arrive in timestamp order.      *)
(***************************************************************************)
EXTENDS MainServer, TLAPS, FiniteSetTheorems, WellFoundedInduction

\* No entry of the queue of a line whose requests came in order is newer than
\* the line's latest access: the inductive core of OrderedMemoryIsCurrent.
NothingNewer ==
  \A l \in ordered : \A k \in 1..Len(queue[l]) :
    queue[l][k].timestamp <= meta[l].last_access_time

ServerInv == TypeOK /\ MesiConsistent
CountInv == TypeOK /\ ActiveBalanced /\ entered \cap leaving = {}

-----------------------------------------------------------------------------
(* Operators *)

\* A nonempty set of indices of a sequence has a maximum, which Max returns.
LEMMA MaxIn ==
  ASSUME NEW n \in Nat, NEW S \in SUBSET (1..n), S # {}
  PROVE  Max(S) \in S
<1> DEFINE R == {p \in Nat \X Nat : p[1] < p[2]}
           T == {n - k : k \in S}
<1>1. T \subseteq Nat /\ T # {}
  <2>1. PICK k \in S : TRUE
    BY ZenonT(60)
  <2>2. n - k \in T
    OBVIOUS
  <2>3. \A j \in S : n - j \in Nat
    OBVIOUS
  <2> QED
    BY <2>2, <2>3
<1>2. PICK x \in T : \A y \in T : ~ (<<y, x>> \in R)
  <2> IsWellFoundedOn(R, Nat)
    BY NatLessThanWellFounded DEF OpToRel
  <2> HIDE DEF R, T
  <2> QED
    BY ZenonT(60), <1>1, WFMin
<1>3. PICK k \in S : x = n - k
  OBVIOUS
<1>4. \A j \in S : k >= j
  <2> TAKE j \in S
  <2>1. n - j \in T /\ n - j \in Nat /\ x \in Nat
    BY ZenonT(60), <1>1
  <2>2. ~ (n - j < x)
    BY ZenonT(60), <1>2, <2>1
  <2> QED
    BY <1>3, <2>2
<1> QED
  BY ZenonT(60), <1>4 DEF Max

\* Storing words in memory keeps every cell a word (write_cacheline).
LEMMA StoredType ==
  ASSUME NEW m \in [Cell -> Word], NEW a \in Nat, NEW data \in Seq(Word)
  PROVE  write_cacheline(m, a, data) \in [Cell -> Word]
<1> DEFINE hits(c) == {k \in 1..Len(data) : Index(a + k - 1) = c}
<1>1. ASSUME NEW c \in Cell, hits(c) # {}
      PROVE  data[Max(hits(c))] \in Word
  <2>1. hits(c) \in SUBSET (1..Len(data)) /\ Len(data) \in Nat
    OBVIOUS
  <2>2. Max(hits(c)) \in 1..Len(data)
    <3> HIDE DEF hits
    <3> QED
      BY ZenonT(60), <1>1, <2>1, MaxIn
  <2> QED
    BY <2>2
<1>2. Stored(m, a, data) \in [Cell -> Word]
  BY <1>1 DEF Stored
<1> QED
  BY <1>2 DEF write_cacheline

\* Applying a queue of back invalidations keeps every cell a word.
LEMMA BackInvalidatedType ==
  ASSUME NEW m \in [Cell -> Word], NEW l \in Lines,
         NEW q \in Seq(BackInvalidationEntry), NEW i
  PROVE  back_invalidated(m, l, q, i) \in [Cell -> Word]
<1> DEFINE covers(k, c) == \E j \in 1..Len(q[k].dirty_data) : Index(l * W + j - 1) = c
           hits(c) == {k \in Newer(q, i) : covers(k, c)}
           d(c) == q[Max(hits(c))].dirty_data
<1>1. ASSUME NEW c \in Cell, hits(c) # {}
      PROVE  d(c)[CHOOSE j \in 1..Len(d(c)) : Index(l * W + j - 1) = c] \in Word
  <2>1. hits(c) \in SUBSET (1..Len(q)) /\ Len(q) \in Nat
    <3> HIDE DEF covers
    <3> QED
      BY DEF Newer
  <2>2. Max(hits(c)) \in hits(c)
    <3> HIDE DEF hits
    <3> QED
      BY ZenonT(60), <1>1, <2>1, MaxIn
  <2>3. d(c) \in Seq(Word)
    <3>1. Max(hits(c)) \in 1..Len(q)
      BY <2>1, <2>2
    <3> HIDE DEF hits
    <3>2. q[Max(hits(c))] \in BackInvalidationEntry
      BY <3>1
    <3> QED
      BY <3>2 DEF BackInvalidationEntry
  <2>4. \E j \in 1..Len(d(c)) : Index(l * W + j - 1) = c
    BY SMTT(60), <2>2
  <2> HIDE DEF d
  <2> QED
    BY <2>3, <2>4
<1> QED
  BY ZenonT(60), <1>1 DEF back_invalidated

\* A queue with no newer entry leaves memory alone.
LEMMA NothingApplied ==
  ASSUME NEW m \in [Cell -> Word], NEW l, NEW q, NEW i, Newer(q, i) = {}
  PROVE  back_invalidated(m, l, q, i) = m
BY DEF back_invalidated

\* Registering n back invalidations appends n entries that carry ts.
LEMMA RegisteredSeq ==
  ASSUME NEW q \in Seq(BackInvalidationEntry), NEW n \in Nat, NEW ts \in 0..MaxTime,
         NEW data \in Seq(Word)
  PROVE  /\ registered(q, n, ts, data) \in Seq(BackInvalidationEntry)
         /\ \A k \in 1..Len(registered(q, n, ts, data)) :
              \/ k \in 1..Len(q) /\ registered(q, n, ts, data)[k] = q[k]
              \/ registered(q, n, ts, data)[k].timestamp = ts
<1> DEFINE e == [timestamp |-> ts, dirty_data |-> data]
           s == [k \in 1..n |-> e]
<1>1. e \in BackInvalidationEntry /\ e.timestamp = ts
  BY DEF BackInvalidationEntry
<1> HIDE DEF e
<1>2. s \in Seq(BackInvalidationEntry) /\ Len(s) = n /\ \A k \in 1..n : s[k] = e
  BY <1>1
<1> HIDE DEF s
<1>3. q \o s \in Seq(BackInvalidationEntry) /\ Len(q \o s) = Len(q) + n
  BY <1>2, SMTT(60)
<1>4. \A k \in 1..Len(q) : (q \o s)[k] = q[k]
  BY <1>2, SMTT(30)
<1>5. \A k \in (Len(q) + 1)..(Len(q) + n) : (q \o s)[k] = e
  BY <1>2, SMTT(30)
<1> QED
  BY <1>1, <1>3, <1>4, <1>5 DEF registered, e, s

\* With the default base address an atomic inside the data area touches the cell
\* a read of the same address returns.
LEMMA IndexInArea ==
  ASSUME NEW a \in Cell, BaseAddr = 0
  PROVE  Index(a) = a
<1> DEFINE M == W * NumCachelines
<1>1. M \in Nat /\ a \in 0..M-1
  BY WidthAssumption, AreaAssumption DEF Cell
<1> HIDE DEF M
<1>2. a % M = a
  BY <1>1
<1> QED
  BY <1>2 DEF Index, M

\* The metadata of one line: each handler keeps it well typed and consistent.
LEMMA LineStep ==
  ASSUME NEW i \in CachelineMetadata, NEW t \in Thread, NEW ts \in 0..MaxTime,
         Consistent(i)
  PROVE  /\ handle_read_coherency(i, t) \in CachelineMetadata
         /\ Consistent(handle_read_coherency(i, t))
         /\ handle_write_coherency(i, t) \in CachelineMetadata
         /\ Consistent(handle_write_coherency(i, t))
         /\ AtomicOwned(i, t, ts) \in CachelineMetadata
         /\ Consistent(AtomicOwned(i, t, ts))
<1>1. handle_read_coherency(i, t) \in CachelineMetadata
      /\ Consistent(handle_read_coherency(i, t))
  BY ZenonT(60) DEF CachelineMetadata, State, Consistent, handle_read_coherency
<1>2. handle_write_coherency(i, t) \in CachelineMetadata
      /\ Consistent(handle_write_coherency(i, t))
  BY ZenonT(60), OwnerAssumption DEF CachelineMetadata, State, Consistent, handle_write_coherency
<1>3. AtomicOwned(i, t, ts) \in CachelineMetadata /\ Consistent(AtomicOwned(i, t, ts))
  BY DEF CachelineMetadata, State, Consistent, AtomicOwned
<1> QED
  BY <1>1, <1>2, <1>3

\* Recording the access time changes nothing else.
LEMMA TimedStep ==
  ASSUME NEW i \in CachelineMetadata, NEW ts \in 0..MaxTime, Consistent(i)
  PROVE  /\ [i EXCEPT !.last_access_time = ts] \in CachelineMetadata
         /\ Consistent([i EXCEPT !.last_access_time = ts])
         /\ [i EXCEPT !.last_access_time = ts].last_access_time = ts
BY DEF CachelineMetadata, Consistent

\* The threads a write must tell are finitely many, and so are those it charges.
LEMMA InvalidatedNat ==
  ASSUME NEW i \in CachelineMetadata, NEW t \in Thread, Consistent(i)
  PROVE  /\ Cardinality(threads_to_invalidate(i, t)) \in Nat
         /\ invalidate_sharers(i, t) \in Nat
<1>1. threads_to_invalidate(i, t) \subseteq Thread
  BY DEF CachelineMetadata, State, Consistent, threads_to_invalidate
<1>2. i.sharers \ {t} \subseteq Thread /\ {i.owner} \ {NoOwner, t} \subseteq Thread
  BY DEF CachelineMetadata
<1>3. Cardinality(threads_to_invalidate(i, t)) \in Nat
  BY <1>1, FiniteAssumption, FS_Subset, FS_CardinalityType
<1>4. Cardinality(i.sharers \ {t}) \in Nat
  BY <1>2, FiniteAssumption, FS_Subset, FS_CardinalityType
<1>5. Cardinality({i.owner} \ {NoOwner, t}) \in Nat
  BY <1>2, FiniteAssumption, FS_Subset, FS_CardinalityType
<1> QED
  BY <1>3, <1>4, <1>5 DEF invalidate_sharers

-----------------------------------------------------------------------------
(* Types and MESI consistency *)

\* A change of one line's metadata to a consistent one keeps the directory's.
LEMMA MetaStep ==
  ASSUME ServerInv, NEW l \in Lines, NEW i \in CachelineMetadata, Consistent(i),
         meta' = [meta EXCEPT ![l] = i]
  PROVE  meta' \in [Lines -> CachelineMetadata] /\ MesiConsistent'
BY DEF ServerInv, TypeOK, MesiConsistent

\* Counting a request in or out keeps the worker sets and the counter typed.
LEMMA BodyType ==
  ASSUME TypeOK, NEW w \in Worker, NEW ok \in BOOLEAN, LeaveBody(w, ok)
  PROVE  entered' \subseteq Worker /\ leaving' \subseteq Worker /\ active_requests' \in Int
BY DEF TypeOK, LeaveBody

\* Read, with the back invalidations it applies, keeps the types.
LEMMA ReadTypes ==
  ASSUME ServerInv, NEW w \in Worker, NEW t \in Thread, NEW a \in Addr, NEW n \in Size,
         NEW ts \in 0..MaxTime, Read(w, t, a, n, ts)
  PROVE  ServerInv'
<1> DEFINE l == Line(a)
           ok == InOneLine(a, n)
           i == handle_read_coherency(meta[l], t)
           j == IF ok THEN [i EXCEPT !.last_access_time = ts] ELSE i
<1>1. l \in Lines /\ ok \in BOOLEAN
  BY DEF Lines, InOneLine
<1> HIDE DEF l, ok
<1>2. meta[l] \in CachelineMetadata /\ Consistent(meta[l])
  BY <1>1 DEF ServerInv, TypeOK, MesiConsistent
<1>3. i \in CachelineMetadata /\ Consistent(i)
  BY <1>2, LineStep
<1> HIDE DEF i
<1>4. j \in CachelineMetadata /\ Consistent(j)
  BY <1>3, TimedStep
<1> HIDE DEF j
<1>5. meta' = [meta EXCEPT ![l] = j]
  BY DEF Read, l, ok, i, j
<1>6. mem' \in [Cell -> Word]
  BY SMTT(60), <1>1, BackInvalidatedType DEF Read, ServerInv, TypeOK, l
<1>7. queue' \in [Lines -> Seq(BackInvalidationEntry)]
  BY <1>1 DEF Read, ServerInv, TypeOK, l
<1>8. LeaveBody(w, ok) /\ last' = NoWrite /\ UNCHANGED <<lsa, latest>>
      /\ ordered' \subseteq ordered
  BY DEF Read, ok, Observe
<1>9. entered' \subseteq Worker /\ leaving' \subseteq Worker /\ active_requests' \in Int
  BY SMTT(60), <1>1, <1>8, BodyType DEF ServerInv
<1> QED
  BY <1>1, <1>4, <1>5, <1>6, <1>7, <1>8, <1>9, MetaStep, Zenon DEF ServerInv, TypeOK

\* Write, with the entries it registers and its failures, keeps the types.
LEMMA WriteTypes ==
  ASSUME ServerInv, NEW w \in Worker, NEW t \in Thread, NEW a \in Addr,
         NEW data \in Seq(Word), NEW ts \in 0..MaxTime, NEW synced \in BOOLEAN,
         Write(w, t, a, data, ts, synced)
  PROVE  ServerInv'
<1> DEFINE l == Line(a)
           ok == InOneLine(a, Len(data)) /\ synced
           i == handle_write_coherency(meta[l], t)
           j == IF ok THEN [i EXCEPT !.last_access_time = ts] ELSE i
           n == Cardinality(threads_to_invalidate(meta[l], t))
           v == invalidate_sharers(meta[l], t)
           q == IF ok THEN registered(queue[l], n, ts, data) ELSE queue[l]
<1>1. l \in Lines /\ ok \in BOOLEAN /\ a \in Nat
  BY AddrAssumption DEF Lines, InOneLine
<1> HIDE DEF l, ok
<1>2. meta[l] \in CachelineMetadata /\ Consistent(meta[l])
  BY <1>1 DEF ServerInv, TypeOK, MesiConsistent
<1>3. i \in CachelineMetadata /\ Consistent(i)
  BY <1>2, LineStep
<1>4. n \in Nat /\ v \in Nat
  BY <1>2, InvalidatedNat
<1> HIDE DEF i, n, v
<1>5. j \in CachelineMetadata /\ Consistent(j)
  BY SMTT(60), <1>3, TimedStep
<1> HIDE DEF j
<1>6. meta' = [meta EXCEPT ![l] = j]
  BY DEF Write, l, ok, i, j
<1>7. mem' \in [Cell -> Word] /\ latest' \in [Cell -> Word]
  BY ZenonT(60), <1>1, StoredType DEF Write, ServerInv, TypeOK
<1>8. q \in Seq(BackInvalidationEntry)
  BY ZenonT(60), <1>1, <1>4, RegisteredSeq DEF ServerInv, TypeOK
<1> HIDE DEF q
<1>9. queue' = [queue EXCEPT ![l] = q]
  BY DEF Write, l, ok, n, q
<1>10. /\ LeaveBody(w, ok) /\ UNCHANGED lsa /\ ordered' \subseteq ordered
       /\ last' = IF ok THEN [line |-> l, inv |-> v] ELSE NoWrite
  BY DEF Write, ok, l, v, Observe
<1>11. last' \in [line : Lines, inv : Nat] \cup {NoWrite}
  BY <1>1, <1>4, <1>10
<1>12. entered' \subseteq Worker /\ leaving' \subseteq Worker /\ active_requests' \in Int
  BY <1>1, <1>10, BodyType DEF ServerInv
<1>13. queue' \in [Lines -> Seq(BackInvalidationEntry)]
  BY ZenonT(60), <1>8, <1>9 DEF ServerInv, TypeOK
<1>14. meta' \in [Lines -> CachelineMetadata] /\ MesiConsistent'
  BY ZenonT(60), <1>1, <1>5, <1>6, MetaStep
<1> QED
  BY <1>7, <1>10, <1>11, <1>12, <1>13, <1>14 DEF ServerInv, TypeOK

\* An atomic, whatever word it stores, keeps the types and the consistency.
LEMMA AtomicTypes ==
  ASSUME ServerInv, NEW w \in Worker, NEW t \in Thread, NEW a \in Addr,
         NEW ts \in 0..MaxTime, NEW success \in BOOLEAN, NEW new \in Word, NEW newLatest,
         Index(a) \in Cell => newLatest \in Word,
         Atomic(w, t, a, ts, success, new, newLatest)
  PROVE  ServerInv'
<1> DEFINE l == Line(a)
           i == IF success THEN AtomicOwned(meta[l], t, ts)
                ELSE [meta[l] EXCEPT !.last_access_time = ts]
<1>1. l \in Lines
  BY DEF Lines
<1> HIDE DEF l
<1>2. meta[l] \in CachelineMetadata /\ Consistent(meta[l])
  BY <1>1 DEF ServerInv, TypeOK, MesiConsistent
<1>3. i \in CachelineMetadata /\ Consistent(i)
  BY <1>2, LineStep, TimedStep
<1> HIDE DEF i
<1>4. meta' = [meta EXCEPT ![l] = i]
  BY DEF Atomic, l, i
<1>5. meta' \in [Lines -> CachelineMetadata] /\ MesiConsistent'
  BY ZenonT(60), <1>1, <1>3, <1>4, MetaStep
<1>6. mem' \in [Cell -> Word] /\ latest' \in [Cell -> Word]
  BY ZenonT(60) DEF Atomic, ServerInv, TypeOK
<1>7. LeaveBody(w, TRUE) /\ last' = NoWrite /\ UNCHANGED <<queue, lsa>>
      /\ ordered' \subseteq ordered
  BY ZenonT(60) DEF Atomic, Observe
<1>8. entered' \subseteq Worker /\ leaving' \subseteq Worker /\ active_requests' \in Int
  BY ZenonT(60), <1>7, BodyType DEF ServerInv
<1> QED
  BY SMTT(60), <1>5, <1>6, <1>7, <1>8 DEF ServerInv, TypeOK

\* The fetch-and-add of handle_atomic_request keeps the types.
LEMMA FAATypes ==
  ASSUME ServerInv, NEW w \in Worker, NEW t \in Thread, NEW a \in Addr, NEW v \in Word,
         NEW ts \in 0..MaxTime, AtomicFAA(w, t, a, v, ts)
  PROVE  ServerInv'
<1> DEFINE new == (mem[a] + v) % Modulus
           old == latest[Index(a)]
<1>1. \A x \in Word : (x + v) % Modulus \in Word
  BY WidthAssumption DEF Word
<1>2. a \in Cell
  BY DEF AtomicFAA, Atomic
<1>3. new \in Word
  BY <1>1, <1>2 DEF ServerInv, TypeOK
<1>4. Index(a) \in Cell => old \in Word
  BY DEF ServerInv, TypeOK
<1>5. Index(a) \in Cell => (old + v) % Modulus \in Word
  BY <1>1, <1>4
<1>6. Atomic(w, t, a, ts, TRUE, new, (old + v) % Modulus)
  BY ZenonT(60) DEF AtomicFAA
<1> HIDE DEF new, old
<1> QED
  BY ZenonT(60), <1>3, <1>5, <1>6, AtomicTypes

\* The compare-and-swap of handle_atomic_request keeps the types.
LEMMA CASTypes ==
  ASSUME ServerInv, NEW w \in Worker, NEW t \in Thread, NEW a \in Addr, NEW e \in Word,
         NEW v \in Word, NEW ts \in 0..MaxTime, AtomicCAS(w, t, a, e, v, ts)
  PROVE  ServerInv'
<1> DEFINE new == Swapped(mem[a], e, v)
           newLatest == Swapped(latest[Index(a)], e, v)
<1>1. a \in Cell
  BY DEF AtomicCAS, Atomic
<1>2. new \in Word
  BY <1>1 DEF ServerInv, TypeOK, Swapped
<1>3. Index(a) \in Cell => newLatest \in Word
  BY DEF ServerInv, TypeOK, Swapped
<1>4. Atomic(w, t, a, ts, mem[a] = e, new, newLatest)
  BY DEF AtomicCAS
<1> HIDE DEF new, newLatest
<1> QED
  BY ZenonT(60), <1>2, <1>3, <1>4, AtomicTypes

\* A label storage write, growing the area or not, keeps the types.
LEMMA LsaTypes ==
  ASSUME ServerInv, NEW w \in Worker, NEW o \in 0..MaxLsa, NEW v \in Word, LsaWrite(w, o, v)
  PROVE  ServerInv'
<1> DEFINE m == Max({Len(lsa), o + 1})
           word(k) == IF k = o + 1 THEN v ELSE IF k <= Len(lsa) THEN lsa[k] ELSE 0
<1>1. lsa \in Seq(Word) /\ Len(lsa) \in Nat /\ o + 1 \in Nat /\ 0 \in Word
  BY BoundAssumption, WidthAssumption DEF ServerInv, TypeOK, Word
<1>2. m \in Nat
  BY <1>1 DEF Max
<1>3. \A k \in 1..m : word(k) \in Word
  <2> HIDE DEF m
  <2> QED
    BY SMTT(60), <1>1, <1>2
<1>4. lsa' = [k \in 1..m |-> word(k)]
  BY DEF LsaWrite
<1> HIDE DEF m, word
<1>5. lsa' \in Seq(Word)
  BY <1>2, <1>3, <1>4
<1> QED
  BY <1>5 DEF ServerInv, TypeOK, MesiConsistent, LsaWrite

\* The payloads of the model are sequences of words.
LEMMA PayloadSeq == Payload \subseteq Seq(Word)
<1>1. ASSUME NEW n \in Size, NEW v \in Word
      PROVE  [k \in 1..n |-> v] \in Seq(Word)
  BY WidthAssumption DEF Size
<1> SUFFICES ASSUME NEW d \in Payload PROVE d \in Seq(Word)
  OBVIOUS
<1>2. PICK n \in Size : d \in {[k \in 1..n |-> v] : v \in Word}
  BY DEF Payload
<1>3. PICK v \in Word : d = [k \in 1..n |-> v]
  BY <1>2
<1> QED
  BY ZenonT(60), <1>1, <1>3

\* Type correctness and MESI consistency are inductive together: a write counts
\* the threads it invalidates, which needs the owner of a MODIFIED line.
THEOREM ServerInvariance == Spec => []ServerInv
<1>1. Init => ServerInv
  <2> SUFFICES ASSUME Init PROVE ServerInv
    OBVIOUS
  <2>1. 0 \in Word /\ 0 \in 0..MaxTime
    BY WidthAssumption, BoundAssumption DEF Word
  <2>2. meta \in [Lines -> CachelineMetadata] /\ MesiConsistent
    BY <2>1 DEF Init, FreshMetadata, CachelineMetadata, State, MesiConsistent, Consistent
  <2>3. lsa \in Seq(Word)
    BY <2>1, BoundAssumption DEF Init
  <2>4. mem \in [Cell -> Word] /\ latest \in [Cell -> Word]
    BY <2>1 DEF Init
  <2>5. queue \in [Lines -> Seq(BackInvalidationEntry)]
    <3>1. <<>> \in Seq(BackInvalidationEntry)
      OBVIOUS
    <3> QED
      BY <3>1 DEF Init
  <2>6. /\ entered \subseteq Worker /\ leaving \subseteq Worker /\ active_requests \in Int
        /\ last \in [line : Lines, inv : Nat] \cup {NoWrite} /\ ordered \subseteq Lines
    BY DEF Init
  <2> QED
    BY <2>2, <2>3, <2>4, <2>5, <2>6 DEF ServerInv, TypeOK
<1>2. ServerInv /\ [Next]_vars => ServerInv'
  <2> SUFFICES ASSUME ServerInv, [Next]_vars PROVE ServerInv'
    OBVIOUS
  <2>1. CASE UNCHANGED vars
    BY <2>1 DEF vars, ServerInv, TypeOK, MesiConsistent
  <2>2. ASSUME NEW w \in Worker, Enter(w) PROVE ServerInv'
    BY <2>2 DEF Enter, ServerInv, TypeOK, MesiConsistent
  <2>3. ASSUME NEW w \in Worker, Body(w) PROVE ServerInv'
    BY SMTT(60), <2>3, PayloadSeq, ReadTypes, WriteTypes, FAATypes, CASTypes DEF Body
  <2>4. ASSUME NEW w \in Worker, Fence(w) PROVE ServerInv'
    <3>1. entered' \subseteq Worker /\ leaving' \subseteq Worker /\ active_requests' \in Int
      BY ZenonT(60), <2>4, BodyType DEF Fence, ServerInv
    <3> QED
      BY <2>4, <3>1 DEF Fence, ServerInv, TypeOK, MesiConsistent
  <2>5. ASSUME NEW w \in Worker, Exit(w) PROVE ServerInv'
    BY <2>5 DEF Exit, ServerInv, TypeOK, MesiConsistent
  <2>6. ASSUME NEW w \in Worker, NEW o \in 0..MaxLsa, NEW v \in Word, LsaWrite(w, o, v)
        PROVE  ServerInv'
    BY <2>6, LsaTypes
  <2>7. CASE Restart
    <3>1. 0 \in Word /\ 0 \in 0..MaxTime
      BY WidthAssumption, BoundAssumption DEF Word
    <3>2. meta' \in [Lines -> CachelineMetadata] /\ MesiConsistent'
      BY <2>7, <3>1 DEF Restart, FreshMetadata, CachelineMetadata, State, MesiConsistent,
         Consistent
    <3>3. lsa' \in Seq(Word)
      BY <2>7, <3>1, BoundAssumption DEF Restart
    <3>4. <<>> \in Seq(BackInvalidationEntry)
      OBVIOUS
    <3>5. queue' \in [Lines -> Seq(BackInvalidationEntry)]
      BY <2>7, <3>4 DEF Restart
    <3> QED
      BY SMTT(60), <2>7, <3>2, <3>3, <3>5 DEF Restart, ServerInv, TypeOK
  <2> QED
    BY SMTT(60), <2>1, <2>2, <2>3, <2>4, <2>5, <2>6, <2>7 DEF Next, Serve
<1> QED
  BY <1>1, <1>2, PTL DEF Spec

\* Every piece of the server's state keeps its type, a restart included: the words
\* of a queued back invalidation are words, and a line's owner is a thread or none.
THEOREM ServerTypes == Spec => []TypeOK
BY ServerInvariance, PTL DEF ServerInv

\* Whatever requests fail and whoever issues them, every line has one modified
\* owner, or sharers, or nobody (handle_read_coherency, handle_write_coherency,
\* handle_atomic_request).
THEOREM ServerMesi == Spec => []MesiConsistent
BY ServerInvariance, PTL DEF ServerInv

-----------------------------------------------------------------------------
(* Memory is current while requests are in order *)

\* A request for line l that stamps it with ts no older than its latest access,
\* or leaves the stamp, keeps the other lines as they are.
LEMMA OrderStep ==
  ASSUME ServerInv, ServerInv', NothingNewer, NEW l \in Lines, NEW ts \in 0..MaxTime,
         Observe(l, ts),
         \A x \in Lines \ {l} : queue'[x] = queue[x] /\ meta'[x] = meta[x],
         \A k \in 1..Len(queue'[l]) :
            \/ queue'[l][k].timestamp <= meta'[l].last_access_time
            \/ /\ k \in 1..Len(queue[l]) /\ queue'[l][k] = queue[l][k]
               /\ meta'[l].last_access_time \in {meta[l].last_access_time, ts}
  PROVE  NothingNewer'
<1> SUFFICES ASSUME NEW x \in ordered', NEW k \in 1..Len(queue'[x])
             PROVE  queue'[x][k].timestamp <= meta'[x].last_access_time
  BY Zenon DEF NothingNewer
<1>1. x \in ordered /\ x \in Lines /\ (x = l => ts >= meta[l].last_access_time)
  BY Zenon DEF Observe, ServerInv, TypeOK
<1>2. CASE x # l
  BY <1>1, <1>2, Zenon DEF NothingNewer
<1>3. CASE x = l
  <2>1. CASE queue'[l][k].timestamp <= meta'[l].last_access_time
    BY SMTT(60), <1>3, <2>1
  <2>2. CASE /\ k \in 1..Len(queue[l]) /\ queue'[l][k] = queue[l][k]
             /\ meta'[l].last_access_time \in {meta[l].last_access_time, ts}
    <3>1. queue[l][k].timestamp <= meta[l].last_access_time
      BY <1>1, <1>3, <2>2, Zenon DEF NothingNewer
    <3>2. meta[l].last_access_time \in Int
      BY BoundAssumption DEF ServerInv, TypeOK, CachelineMetadata
    <3>3. queue[l][k].timestamp \in Int
      <4>1. queue[l][k] \in BackInvalidationEntry
        BY <2>2 DEF ServerInv, TypeOK
      <4> QED
        BY SMTT(60), <4>1, BoundAssumption DEF BackInvalidationEntry
    <3> QED
      BY SMTT(60), <1>1, <1>3, <2>2, <3>1, <3>2, <3>3, BoundAssumption
  <2> QED
    BY ZenonT(60), <1>3, <2>1, <2>2
<1> QED
  BY <1>2, <1>3

\* A read of an ordered line applies no entry: memory stays current.
LEMMA ReadOrder ==
  ASSUME ServerInv, ServerInv', NothingNewer, OrderedMemoryIsCurrent,
         NEW w \in Worker, NEW t \in Thread, NEW a \in Addr, NEW n \in Size,
         NEW ts \in 0..MaxTime, Read(w, t, a, n, ts)
  PROVE  NothingNewer' /\ OrderedMemoryIsCurrent'
<1> DEFINE l == Line(a)
<1>1. l \in Lines
  BY DEF Lines
<1>2. queue' = [queue EXCEPT ![l] = <<>>] /\ Observe(l, ts) /\ latest' = latest
      /\ mem' = back_invalidated(mem, l, queue[l], meta[l])
      /\ \A x \in Lines \ {l} : meta'[x] = meta[x]
  BY SMTT(60) DEF Read, ServerInv, TypeOK
<1> HIDE DEF l
<1>3. NothingNewer'
  <2>1. queue'[l] = <<>> /\ \A x \in Lines \ {l} : queue'[x] = queue[x]
    BY <1>1, <1>2, Zenon DEF ServerInv, TypeOK
  <2>2. \A k \in 1..Len(queue'[l]) : FALSE
    BY SMTT(60), <2>1
  <2> QED
    BY <1>1, <1>2, <2>1, <2>2, OrderStep, Zenon
<1>4. ASSUME ordered' = Lines PROVE mem' = latest'
  <2>1. ordered = Lines
    BY <1>2, <1>4, Zenon DEF Observe, ServerInv, TypeOK
  <2>2. \A k \in 1..Len(queue[l]) : ~(queue[l][k].timestamp > meta[l].last_access_time)
    <3> SUFFICES ASSUME NEW k \in 1..Len(queue[l])
                 PROVE  ~(queue[l][k].timestamp > meta[l].last_access_time)
      OBVIOUS
    <3>1. queue[l][k].timestamp <= meta[l].last_access_time
      BY <1>1, <2>1 DEF NothingNewer
    <3>2. queue[l][k] \in BackInvalidationEntry /\ meta[l] \in CachelineMetadata
      BY SMTT(60), <1>1 DEF ServerInv, TypeOK
    <3>3. queue[l][k].timestamp \in Int /\ meta[l].last_access_time \in Int
      BY SMTT(60), <3>2, BoundAssumption DEF BackInvalidationEntry, CachelineMetadata
    <3> QED
      BY SMTT(60), <3>1, <3>3
  <2>3. Newer(queue[l], meta[l]) = {}
    BY SMTT(60), <2>2 DEF Newer
  <2>4. back_invalidated(mem, l, queue[l], meta[l]) = mem
    <3>1. mem \in [Cell -> Word]
      BY DEF ServerInv, TypeOK
    <3> QED
      BY ONLY <2>3, <3>1, NothingApplied
  <2>5. mem' = mem
    BY ONLY <1>2, <2>4
  <2> QED
    BY <1>2, <2>1, <2>5, Zenon DEF OrderedMemoryIsCurrent
<1> QED
  BY <1>3, <1>4 DEF OrderedMemoryIsCurrent

\* A write, done or failed, leaves memory as the latest write on its cells.
LEMMA WriteOrder ==
  ASSUME ServerInv, ServerInv', NothingNewer, OrderedMemoryIsCurrent,
         NEW w \in Worker, NEW t \in Thread, NEW a \in Addr, NEW data \in Seq(Word),
         NEW ts \in 0..MaxTime, NEW synced \in BOOLEAN, Write(w, t, a, data, ts, synced)
  PROVE  NothingNewer' /\ OrderedMemoryIsCurrent'
<1> DEFINE l == Line(a)
           ok == InOneLine(a, Len(data)) /\ synced
           i == handle_write_coherency(meta[l], t)
           n == Cardinality(threads_to_invalidate(meta[l], t))
           q == registered(queue[l], n, ts, data)
<1>1. l \in Lines
  BY DEF Lines
<1>2. meta[l] \in CachelineMetadata /\ Consistent(meta[l])
      /\ queue[l] \in Seq(BackInvalidationEntry)
  BY SMTT(60), <1>1 DEF ServerInv, TypeOK, MesiConsistent
<1>3. i \in CachelineMetadata /\ Consistent(i) /\ n \in Nat
      /\ i.last_access_time = meta[l].last_access_time
  <2>1. i \in CachelineMetadata /\ Consistent(i)
    BY <1>2, LineStep, Zenon
  <2>2. n \in Nat
    BY <1>2, InvalidatedNat, Zenon
  <2>3. i.last_access_time = meta[l].last_access_time
    BY SMTT(60), <1>2 DEF handle_write_coherency, CachelineMetadata
  <2> QED
    BY <2>1, <2>2, <2>3, Zenon
<1>4. Observe(l, ts) /\ \A x \in Lines \ {l} : queue'[x] = queue[x] /\ meta'[x] = meta[x]
  BY DEF Write, ServerInv, TypeOK
<1>5. queue'[l] = IF ok THEN q ELSE queue[l]
  BY <1>1, Zenon DEF Write, ServerInv, TypeOK
<1>6. meta'[l] = IF ok THEN [i EXCEPT !.last_access_time = ts] ELSE i
  BY <1>1, Zenon DEF Write, ServerInv, TypeOK
<1>7. \A k \in 1..Len(q) : \/ k \in 1..Len(queue[l]) /\ q[k] = queue[l][k]
                           \/ q[k].timestamp = ts
  <2> HIDE DEF l, n
  <2>1. n \in Nat /\ queue[l] \in Seq(BackInvalidationEntry)
    BY <1>2, <1>3, Zenon
  <2> QED
    BY <2>1, RegisteredSeq, Zenon
<1> HIDE DEF l, ok, i, n, q
<1>8. meta'[l].last_access_time = IF ok THEN ts ELSE meta[l].last_access_time
  <2>1. [i EXCEPT !.last_access_time = ts].last_access_time = ts
    BY SMTT(60), <1>3, TimedStep
  <2> QED
    BY <1>3, <1>6, <2>1
<1>9. ASSUME NEW k \in 1..Len(queue'[l])
      PROVE  \/ queue'[l][k].timestamp <= meta'[l].last_access_time
             \/ /\ k \in 1..Len(queue[l]) /\ queue'[l][k] = queue[l][k]
                /\ meta'[l].last_access_time \in {meta[l].last_access_time, ts}
  <2>1. CASE ~ok
    BY <1>5, <1>8, <2>1, Zenon
  <2>2. CASE ok
    <3>1. meta'[l].last_access_time = ts /\ ts <= ts
      BY SMTT(60), <1>8, <2>2, BoundAssumption
    <3> QED
      BY SMTT(60), <1>5, <1>7, <2>2, <3>1
  <2> QED
    BY <2>1, <2>2, Zenon
<1>10. NothingNewer'
  BY <1>1, <1>4, <1>9, OrderStep, Zenon
<1>11. ASSUME ordered' = Lines PROVE mem' = latest'
  <2>1. ordered = Lines
    BY ZenonT(60), <1>4, <1>11 DEF Observe, ServerInv, TypeOK
  <2> QED
    BY <2>1 DEF Write, OrderedMemoryIsCurrent
<1> QED
  BY <1>10, <1>11 DEF OrderedMemoryIsCurrent

\* An atomic reads and stores the same cell in memory and in the history when
\* the base address is the default one.
LEMMA AtomicOrder ==
  ASSUME ServerInv, ServerInv', NothingNewer, OrderedMemoryIsCurrent, BaseAddr = 0,
         NEW w \in Worker, NEW t \in Thread, NEW a \in Addr, NEW ts \in 0..MaxTime,
         NEW success \in BOOLEAN, NEW new, NEW newLatest,
         ordered = Lines => new = newLatest,
         Atomic(w, t, a, ts, success, new, newLatest)
  PROVE  NothingNewer' /\ OrderedMemoryIsCurrent'
<1> DEFINE l == Line(a)
<1>1. l \in Lines
  BY SMTT(60) DEF Lines
<1>2. meta[l] \in CachelineMetadata
  BY <1>1 DEF ServerInv, TypeOK
<1>3. /\ queue' = queue /\ Observe(l, ts)
      /\ \A x \in Lines \ {l} : meta'[x] = meta[x]
      /\ meta'[l] = IF success THEN AtomicOwned(meta[l], t, ts)
                    ELSE [meta[l] EXCEPT !.last_access_time = ts]
  BY <1>1 DEF Atomic, ServerInv, TypeOK
<1>4. meta'[l].last_access_time = ts
  BY <1>2, <1>3 DEF AtomicOwned, CachelineMetadata
<1> HIDE DEF l
<1>5. NothingNewer'
  BY <1>1, <1>3, <1>4, OrderStep, Zenon
<1>6. ASSUME ordered' = Lines PROVE mem' = latest'
  <2>1. ordered = Lines
    BY ZenonT(60), <1>3, <1>6 DEF Observe, ServerInv, TypeOK
  <2>2. Index(a) = a
    BY IndexInArea DEF Atomic
  <2> QED
    BY <2>1, <2>2 DEF Atomic, OrderedMemoryIsCurrent
<1> QED
  BY <1>5, <1>6 DEF OrderedMemoryIsCurrent

\* NothingNewer is inductive beside ServerInv, and makes every read leave memory
\* as it is while the requests are in order.
THEOREM MemoryInvariance ==
  ASSUME BaseAddr = 0
  PROVE  Spec => [](NothingNewer /\ OrderedMemoryIsCurrent)
<1> DEFINE Inv == NothingNewer /\ OrderedMemoryIsCurrent
<1>1. Init => Inv
  <2> SUFFICES ASSUME Init PROVE Inv
    OBVIOUS
  <2>1. \A l \in Lines : queue[l] = <<>>
    BY DEF Init
  <2>2. \A l \in Lines : \A k \in 1..Len(queue[l]) : FALSE
    BY <2>1
  <2>3. ordered = Lines /\ latest = mem
    BY DEF Init
  <2> QED
    BY SMTT(60), <2>2, <2>3 DEF NothingNewer, OrderedMemoryIsCurrent
<1>2. ServerInv /\ ServerInv' /\ Inv /\ [Next]_vars => Inv'
  <2> SUFFICES ASSUME ServerInv, ServerInv', NothingNewer, OrderedMemoryIsCurrent, [Next]_vars
               PROVE  NothingNewer' /\ OrderedMemoryIsCurrent'
    OBVIOUS
  <2>1. ASSUME UNCHANGED <<queue, meta, mem, latest, ordered>>
        PROVE  NothingNewer' /\ OrderedMemoryIsCurrent'
    BY <2>1 DEF NothingNewer, OrderedMemoryIsCurrent
  <2>2. CASE UNCHANGED vars
    BY <2>1, <2>2 DEF vars
  <2>3. ASSUME NEW w \in Worker, Enter(w) \/ Exit(w) \/ Fence(w)
        PROVE  NothingNewer' /\ OrderedMemoryIsCurrent'
    BY ZenonT(60), <2>1, <2>3 DEF Enter, Exit, Fence
  <2>4. ASSUME NEW w \in Worker, NEW o \in 0..MaxLsa, NEW v \in Word, LsaWrite(w, o, v)
        PROVE  NothingNewer' /\ OrderedMemoryIsCurrent'
    BY <2>1, <2>4 DEF LsaWrite
  <2>5. ASSUME NEW w \in Worker, NEW t \in Thread, NEW a \in Addr, NEW ts \in 0..MaxTime,
               NEW v \in Word, AtomicFAA(w, t, a, v, ts)
        PROVE  NothingNewer' /\ OrderedMemoryIsCurrent'
    <3>1. a \in Cell
      BY <2>5 DEF AtomicFAA, Atomic
    <3>2. ordered = Lines => (mem[a] + v) % Modulus = (latest[Index(a)] + v) % Modulus
      BY <3>1, IndexInArea DEF OrderedMemoryIsCurrent
    <3> QED
      BY ZenonT(60), <2>5, <3>2, AtomicOrder DEF AtomicFAA
  <2>6. ASSUME NEW w \in Worker, NEW t \in Thread, NEW a \in Addr, NEW ts \in 0..MaxTime,
               NEW e \in Word, NEW v \in Word, AtomicCAS(w, t, a, e, v, ts)
        PROVE  NothingNewer' /\ OrderedMemoryIsCurrent'
    <3>1. a \in Cell
      BY <2>6 DEF AtomicCAS, Atomic
    <3>2. ordered = Lines => Swapped(mem[a], e, v) = Swapped(latest[Index(a)], e, v)
      BY SMTT(60), <3>1, IndexInArea DEF OrderedMemoryIsCurrent
    <3> QED
      BY ZenonT(60), <2>6, <3>2, AtomicOrder DEF AtomicCAS
  <2>7. ASSUME NEW w \in Worker, Body(w)
        PROVE  NothingNewer' /\ OrderedMemoryIsCurrent'
    BY ZenonT(60), <2>5, <2>6, <2>7, PayloadSeq, ReadOrder, WriteOrder DEF Body
  <2>8. CASE Restart
    <3>1. \A l \in Lines : queue'[l] = <<>>
      BY <2>8 DEF Restart
    <3>2. \A l \in Lines : \A k \in 1..Len(queue'[l]) : FALSE
      BY <3>1
    <3>3. mem' = mem /\ latest' = latest /\ ordered' = ordered
      BY <2>8 DEF Restart
    <3>4. NothingNewer'
      <4>1. ordered' \subseteq Lines
        BY DEF ServerInv, TypeOK
      <4> QED
        BY <3>2, <4>1, ZenonT(60) DEF NothingNewer
    <3>5. OrderedMemoryIsCurrent'
      BY <3>3 DEF OrderedMemoryIsCurrent
    <3> QED
      BY <3>4, <3>5
  <2> QED
    BY SMTT(60), <2>2, <2>3, <2>4, <2>7, <2>8 DEF Next, Serve
<1> QED
  BY <1>1, <1>2, ServerInvariance, PTL DEF Spec

\* With the default base address, while each line's requests reach memory_mutex
\* in timestamp order, every word of memory is what the latest write or atomic
\* left there: check_and_apply_back_invalidations never writes an older copy, and a
\* crash and restart keeps the data.
THEOREM ServerMemory ==
  ASSUME BaseAddr = 0
  PROVE  Spec => []OrderedMemoryIsCurrent
BY MemoryInvariance, PTL

-----------------------------------------------------------------------------
(* The congestion counter *)

\* Taking one worker out of a finite set of workers counts one less.
LEMMA OneLess ==
  ASSUME NEW S \in SUBSET Worker, NEW w \in S
  PROVE  Cardinality(S \ {w}) = Cardinality(S) - 1
BY FiniteAssumption, FS_Subset, FS_RemoveElement

\* However a body ends, the counter follows the workers under way.
LEMMA BodyCount ==
  ASSUME CountInv, NEW w \in entered, NEW ok \in BOOLEAN, LeaveBody(w, ok)
  PROVE  ActiveBalanced' /\ entered' \cap leaving' = {}
<1> entered \subseteq Worker /\ leaving \subseteq Worker /\ entered \cap leaving = {}
  BY DEF CountInv, TypeOK
<1>1. CASE ok
  <2>1. entered' \cup leaving' = entered \cup leaving
    BY <1>1 DEF LeaveBody
  <2> QED
    BY <1>1, <2>1 DEF LeaveBody, CountInv, ActiveBalanced
<1>2. CASE ~ok
  <2>1. entered' \cup leaving' = (entered \cup leaving) \ {w}
    BY <1>2 DEF LeaveBody
  <2>2. Cardinality((entered \cup leaving) \ {w}) = Cardinality(entered \cup leaving) - 1
    BY OneLess
  <2> QED
    BY <1>2, <2>1, <2>2, Zenon DEF LeaveBody, CountInv, ActiveBalanced
<1> QED
  BY <1>1, <1>2

\* congestion_info.active_requests counts exactly the requests under way: no
\* error return of handle_request leaks or double-frees a count.
THEOREM ServerCount == Spec => []ActiveBalanced
<1> DEFINE Inv == ActiveBalanced /\ entered \cap leaving = {}
<1>1. Init => Inv
  BY FS_EmptySet DEF Init, ActiveBalanced
<1>2. ServerInv /\ Inv /\ [Next]_vars => Inv'
  <2> SUFFICES ASSUME ServerInv, Inv, [Next]_vars PROVE Inv'
    OBVIOUS
  <2> CountInv
    BY DEF CountInv, ServerInv
  <2>1. ASSUME UNCHANGED <<entered, leaving, active_requests>> PROVE Inv'
    BY <2>1 DEF ActiveBalanced
  <2>2. ASSUME NEW w \in Worker, Enter(w) PROVE Inv'
    <3>1. entered' \cup leaving' = (entered \cup leaving) \cup {w}
      BY <2>2 DEF Enter
    <3>2. IsFiniteSet(entered \cup leaving)
      BY FiniteAssumption, FS_Subset, Zenon DEF CountInv, TypeOK
    <3>3. Cardinality((entered \cup leaving) \cup {w}) = Cardinality(entered \cup leaving) + 1
      BY ZenonT(60), <2>2, <3>2, FS_AddElement DEF Enter
    <3> QED
      BY <2>2, <3>1, <3>3 DEF Enter, ActiveBalanced
  <2>3. ASSUME NEW w \in Worker, Exit(w) PROVE Inv'
    <3>1. entered' \cup leaving' = (entered \cup leaving) \ {w}
      BY <2>3 DEF Exit
    <3>2. Cardinality((entered \cup leaving) \ {w}) = Cardinality(entered \cup leaving) - 1
      BY ZenonT(60), <2>3, OneLess DEF Exit, CountInv, TypeOK
    <3> QED
      BY <2>3, <3>1, <3>2 DEF Exit, ActiveBalanced
  <2>4. ASSUME NEW w \in Worker, Body(w) \/ Fence(w) PROVE Inv'
    <3>1. ASSUME NEW t, NEW a, NEW n, NEW ts, Read(w, t, a, n, ts) PROVE Inv'
      BY ZenonT(60), <3>1, BodyCount DEF Read, InOneLine
    <3>2. ASSUME NEW t, NEW a, NEW d, NEW ts, NEW synced, Write(w, t, a, d, ts, synced)
          PROVE  Inv'
      BY ZenonT(60), <3>2, BodyCount DEF Write
    <3>3. ASSUME NEW t, NEW a, NEW ts, NEW s, NEW x, NEW y, Atomic(w, t, a, ts, s, x, y)
          PROVE  Inv'
      BY ZenonT(60), <3>3, BodyCount DEF Atomic
    <3>4. CASE Fence(w)
      BY ZenonT(60), <3>4, BodyCount DEF Fence
    <3> QED
      BY ZenonT(60), <2>4, <3>1, <3>2, <3>3, <3>4 DEF Body, AtomicFAA, AtomicCAS
  <2>5. ASSUME NEW w \in Worker, NEW o \in 0..MaxLsa, NEW v \in Word, LsaWrite(w, o, v)
        PROVE  Inv'
    BY <2>1, <2>5 DEF LsaWrite
  <2>6. CASE UNCHANGED vars
    BY <2>1, <2>6 DEF vars
  <2>7. CASE Restart
    <3>1. entered' \cup leaving' = {}
      BY <2>7 DEF Restart
    <3> QED
      BY <2>7, <3>1, FS_EmptySet DEF Restart, ActiveBalanced
  <2> QED
    BY SMTT(60), <2>2, <2>3, <2>4, <2>5, <2>6, <2>7 DEF Next, Serve
<1> QED
  BY <1>1, <1>2, ServerInvariance, PTL DEF Spec

-----------------------------------------------------------------------------
(* Revocations *)

\* Registering n back invalidations makes the queue n longer.
LEMMA RegisteredLength ==
  ASSUME NEW q \in Seq(BackInvalidationEntry), NEW n \in Nat, NEW ts \in 0..MaxTime,
         NEW data \in Seq(Word)
  PROVE  Len(registered(q, n, ts, data)) = Len(q) + n
<1> DEFINE e == [timestamp |-> ts, dirty_data |-> data]
           s == [k \in 1..n |-> e]
<1>1. e \in BackInvalidationEntry
  BY DEF BackInvalidationEntry
<1> HIDE DEF e
<1>2. s \in Seq(BackInvalidationEntry) /\ Len(s) = n
  BY <1>1
<1> HIDE DEF s
<1>3. Len(q \o s) = Len(q) + n
  BY <1>2, SMTT(60)
<1> QED
  BY <1>3 DEF registered, e, s

\* A write takes the line from exactly the threads it tells, and charges one
\* invalidation for each of them.
LEMMA RevokedByWrite ==
  ASSUME NEW i \in CachelineMetadata, NEW t \in Thread, Consistent(i), NEW j,
         j.owner = t, j.sharers = handle_write_coherency(i, t).sharers
  PROVE  /\ threads_to_invalidate(i, t) = Holders(i) \ Holders(j)
         /\ invalidate_sharers(i, t) = Cardinality(Holders(i) \ Holders(j))
<1>0. t # NoOwner /\ i.state \in State /\ i.sharers \subseteq Thread
  BY OwnerAssumption DEF CachelineMetadata
<1>1. handle_write_coherency(i, t).sharers = {}
  BY SMTT(60) DEF handle_write_coherency, Consistent, CachelineMetadata, State
<1>2. Holders(j) = {t}
  BY SMTT(60), <1>0, <1>1 DEF Holders
<1>3. CASE i.state = "INVALID"
  <2>1. i.owner = NoOwner /\ i.sharers = {}
    BY SMTT(60), <1>3 DEF Consistent
  <2>2. Holders(i) = {}
    BY <2>1, Zenon DEF Holders
  <2>4. threads_to_invalidate(i, t) = {}
    BY <1>3 DEF threads_to_invalidate
  <2>3. invalidate_sharers(i, t) = 0
    BY SMTT(60), <1>3 DEF invalidate_sharers
  <2> QED
    BY <2>2, <2>3, <2>4, FS_EmptySet, Zenon
<1>4. CASE i.state = "SHARED"
  <2>1. i.owner = NoOwner
    BY SMTT(60), <1>4 DEF Consistent
  <2>2. Holders(i) \ Holders(j) = i.sharers \ {t}
    BY <1>2, <2>1, Zenon DEF Holders
  <2>3. threads_to_invalidate(i, t) = i.sharers \ {t}
    BY <1>4 DEF threads_to_invalidate
  <2>4. {i.owner} \ {NoOwner, t} = {}
    BY <2>1, Zenon
  <2>5. Cardinality(i.sharers \ {t}) \in Nat
    BY ZenonT(60), <1>0, FiniteAssumption, FS_Subset, FS_CardinalityType
  <2>6. invalidate_sharers(i, t) = Cardinality(i.sharers \ {t})
    <3> DEFINE c == Cardinality(i.sharers \ {t})
               d == Cardinality({i.owner} \ {NoOwner, t})
    <3>1. invalidate_sharers(i, t) = c + d
      BY <1>4, Zenon DEF invalidate_sharers
    <3>2. d = 0
      BY <2>4, FS_EmptySet, Zenon
    <3>3. c \in Nat
      BY <2>5, Zenon
    <3> HIDE DEF c, d
    <3>4. invalidate_sharers(i, t) = c
      BY SMTT(60), <3>1, <3>2, <3>3
    <3> QED
      BY <3>4 DEF c
  <2> QED
    BY <2>2, <2>3, <2>6, Zenon
<1>5. CASE i.state = "MODIFIED"
  <2>1. i.owner \in Thread /\ i.sharers = {} /\ i.owner # NoOwner
    BY SMTT(60), <1>5, OwnerAssumption DEF Consistent
  <2>2. Holders(i) \ Holders(j) = {i.owner} \ {t}
    BY <1>2, <2>1, Zenon DEF Holders
  <2>3. threads_to_invalidate(i, t) = {i.owner} \ {t}
    BY SMTT(60), <1>5 DEF threads_to_invalidate
  <2>4. CASE i.owner = t
    <3>1. {i.owner} \ {t} = {} /\ invalidate_sharers(i, t) = 0
      BY <1>5, <2>4, Zenon DEF invalidate_sharers
    <3> QED
      BY <2>2, <2>3, <3>1, FS_EmptySet, Zenon
  <2>5. CASE i.owner # t
    <3>1. i.sharers \ {t} = {} /\ {i.owner} \ {NoOwner, t} = {i.owner} \ {t}
      BY <2>1, <2>5, Zenon
    <3>2. invalidate_sharers(i, t) = Cardinality({}) + Cardinality({i.owner} \ {t})
      BY ZenonT(60), <1>5, <2>5, <3>1 DEF invalidate_sharers
    <3>3. Cardinality({}) = 0 /\ Cardinality({i.owner} \ {t}) \in Nat
      BY SMTT(60), <2>1, FS_EmptySet, FiniteAssumption, FS_Subset, FS_CardinalityType
    <3> DEFINE c == Cardinality({i.owner} \ {t})
               d == Cardinality({})
    <3>4. invalidate_sharers(i, t) = d + c /\ d = 0 /\ c \in Nat
      BY <3>2, <3>3, Zenon
    <3> HIDE DEF c, d
    <3>5. invalidate_sharers(i, t) = c
      BY <3>4
    <3> QED
      BY <2>2, <2>3, <3>5, Zenon DEF c
  <2> QED
    BY <2>4, <2>5, Zenon
<1> QED
  BY SMTT(60), <1>0, <1>3, <1>4, <1>5 DEF State, Consistent

\* Every successful write registers one back invalidation, and charges one, for
\* each other thread that held the line, and for nobody else: for any number of
\* threads and lines, whatever errors and restarts came before.
THEOREM ServerRegisters == Spec => RevocationsAreRegistered
<1>1. ServerInv /\ [Next]_vars => [WriteRegisters]_vars
  <2> SUFFICES ASSUME ServerInv, Next PROVE WriteRegisters
    BY SMTT(60)
  <2>1. ASSUME last' = NoWrite PROVE WriteRegisters
    BY SMTT(60), <2>1 DEF WriteRegisters
  <2>2. ASSUME UNCHANGED <<meta, queue, last>> PROVE WriteRegisters
    BY <2>2, Zenon DEF WriteRegisters
  <2>3. CASE Restart
    BY <2>1, <2>3 DEF Restart
  <2>4. ASSUME NEW w \in Worker, NEW t \in Thread, NEW a \in Addr, NEW ts \in 0..MaxTime,
               NEW data \in Payload, NEW synced \in BOOLEAN, Write(w, t, a, data, ts, synced)
        PROVE  WriteRegisters
    <3> DEFINE l == Line(a)
               ok == InOneLine(a, Len(data)) /\ synced
               i == handle_write_coherency(meta[l], t)
               j == [i EXCEPT !.last_access_time = ts]
               n == Cardinality(threads_to_invalidate(meta[l], t))
    <3>1. CASE ~ok
      BY <2>1, <2>4, <3>1 DEF Write
    <3>2. CASE ok
      <4>1. l \in Lines /\ meta[l] \in CachelineMetadata /\ Consistent(meta[l])
            /\ queue[l] \in Seq(BackInvalidationEntry) /\ data \in Seq(Word)
        BY PayloadSeq, Zenon DEF Lines, ServerInv, TypeOK, MesiConsistent
      <4>2. /\ last' = [line |-> l, inv |-> invalidate_sharers(meta[l], t)]
            /\ meta' = [meta EXCEPT ![l] = j]
            /\ queue' = [queue EXCEPT ![l] = registered(queue[l], n, ts, data)]
        BY <2>4, <3>2, Zenon DEF Write
      <4>3. i \in CachelineMetadata
        BY <4>1, LineStep, Zenon
      <4>4. j.owner = t /\ j.sharers = i.sharers
        <5>1. i.owner = t
          BY SMTT(60), <4>1 DEF handle_write_coherency, CachelineMetadata
        <5> HIDE DEF i
        <5> QED
          BY <4>3, <5>1 DEF CachelineMetadata
      <4>5. n \in Nat
        BY <4>1, InvalidatedNat, Zenon
      <4> HIDE DEF j, n, l, ok
      <4>6. meta'[l] = j /\ queue'[l] = registered(queue[l], n, ts, data)
        BY <4>1, <4>2, Zenon DEF ServerInv, TypeOK
      <4>7. Len(queue'[l]) = Len(queue[l]) + n
        BY SMTT(60), <4>1, <4>5, <4>6, RegisteredLength
      <4>8. /\ threads_to_invalidate(meta[l], t) = Holders(meta[l]) \ Holders(j)
            /\ invalidate_sharers(meta[l], t) = Cardinality(Holders(meta[l]) \ Holders(j))
        BY <4>1, <4>4, RevokedByWrite, Zenon
      <4>9. last'.line = l /\ last'.inv = invalidate_sharers(meta[l], t)
        BY <4>2, Zenon
      <4>10. Holders(meta[l]) \ Holders(meta'[l]) = Holders(meta[l]) \ Holders(j)
        BY <4>6, Zenon
      <4> QED
        BY <4>7, <4>8, <4>9, <4>10, Zenon DEF WriteRegisters, n
    <3> QED
      BY <3>1, <3>2
  <2>5. ASSUME NEW w \in Worker, Body(w) PROVE WriteRegisters
    <3>1. ASSUME NEW t, NEW a, NEW n, NEW ts, Read(w, t, a, n, ts) PROVE last' = NoWrite
      BY <3>1 DEF Read
    <3>2. ASSUME NEW t, NEW a, NEW ts, NEW s, NEW x, NEW y, Atomic(w, t, a, ts, s, x, y)
          PROVE  last' = NoWrite
      BY <3>2 DEF Atomic
    <3> QED
      BY <2>1, <2>4, <2>5, <3>1, <3>2, ZenonT(60) DEF Body, AtomicFAA, AtomicCAS
  <2>6. ASSUME NEW w \in Worker, Enter(w) \/ Fence(w) \/ Exit(w) PROVE WriteRegisters
    BY <2>1, <2>2, <2>6, Zenon DEF Enter, Fence, Exit
  <2>7. ASSUME NEW w \in Worker, NEW o \in 0..MaxLsa, NEW v \in Word, LsaWrite(w, o, v)
        PROVE  WriteRegisters
    BY <2>2, <2>7 DEF LsaWrite
  <2> QED
    BY <2>3, <2>5, <2>6, <2>7, Zenon DEF Next, Serve
<1> QED
  BY <1>1, ServerInvariance, PTL DEF Spec, RevocationsAreRegistered
=============================================================================
