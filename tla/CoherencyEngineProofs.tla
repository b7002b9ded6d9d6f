----------------------- MODULE CoherencyEngineProofs ------------------------
(***************************************************************************)
(* Proofs that the MOESI directory is consistent, that its hits are fresh, *)
(* that it implements CoherentMemory, and that its heads share the         *)
(* bandwidth, for every number of lines, nodes and heads.  The lemmas say  *)
(* what each handler does to one entry; the theorems lift them to the      *)
(* directory.                                                              *)
(***************************************************************************)
EXTENDS CoherencyEngine, FiniteSetTheorems, TLAPS

\* what is known of one entry
EntryInv(e) ==
  /\ e \in DirectoryEntry
  /\ Consistent(e)
  /\ e.state \in {"MODIFIED", "OWNED"} => e.has_dirty_data

\* process_read keeps an entry sound, and adds the reader to those that hit.
LEMMA ReadEntry ==
  ASSUME NEW e, EntryInv(e), NEW n \in Node
  PROVE  /\ EntryInv(AfterRead(e, n))
         /\ AfterRead(e, n).version = e.version
         /\ \A m \in Node : ReadHit(AfterRead(e, n), m) <=> ReadHit(e, m) \/ m = n
<1>1. CASE ReadHit(e, n)
  BY <1>1 DEF AfterRead
<1>2. CASE ~ReadHit(e, n)
  <2> DEFINE f == AfterReadMiss(e, n)
  <2>1. AfterRead(e, n) = f
    BY <1>2 DEF AfterRead
  <2>2. e.state \in {"INVALID", "SHARED", "MODIFIED", "OWNED"}
    BY DEF EntryInv, Consistent, DirectoryEntry, State
  <2>3. CASE e.state = "INVALID"
    <3>1. f = [e EXCEPT !.state = "SHARED", !.owner_node = n,
                        !.sharer_nodes = e.sharer_nodes \cup {n}]
      BY ZenonT(60), <2>3 DEF AfterReadMiss, EntryInv, DirectoryEntry
    <3> HIDE DEF f
    <3>2. f \in DirectoryEntry /\ f.version = e.version
      BY ZenonT(60), <3>1 DEF EntryInv, DirectoryEntry, State
    <3>3. f.state = "SHARED" /\ f.owner_node = n /\ f.sharer_nodes = e.sharer_nodes \cup {n}
      BY <3>1 DEF EntryInv, DirectoryEntry
    <3>4. EntryInv(f)
      BY <3>2, <3>3 DEF EntryInv, Consistent
    <3>5. \A m \in Node : ReadHit(f, m) <=> ReadHit(e, m) \/ m = n
      BY <2>3, <3>3 DEF ReadHit, OwnerHit
    <3>6. QED
      BY <2>1, <3>2, <3>4, <3>5
  <2>4. CASE e.state = "MODIFIED"
    <3>1. f = [e EXCEPT !.state = "OWNED", !.sharer_nodes = e.sharer_nodes \cup {n}]
      BY ZenonT(60), <2>4 DEF AfterReadMiss, EntryInv, DirectoryEntry
    <3>2. e.owner_node # n
      BY <1>2, <2>4 DEF ReadHit, OwnerHit
    <3> HIDE DEF f
    <3>3. f \in DirectoryEntry /\ f.version = e.version
      BY ZenonT(60), <3>1 DEF EntryInv, DirectoryEntry, State
    <3>4. /\ f.state = "OWNED" /\ f.owner_node = e.owner_node
          /\ f.sharer_nodes = e.sharer_nodes \cup {n}
          /\ f.has_dirty_data = e.has_dirty_data
      BY <3>1 DEF EntryInv, DirectoryEntry
    <3>5. EntryInv(f)
      BY <2>4, <3>2, <3>3, <3>4 DEF EntryInv, Consistent
    <3>6. \A m \in Node : ReadHit(f, m) <=> ReadHit(e, m) \/ m = n
      BY <2>4, <3>4 DEF ReadHit, OwnerHit
    <3>7. QED
      BY <2>1, <3>3, <3>5, <3>6
  <2>5. CASE e.state \in {"SHARED", "OWNED"}
    <3>1. f = [e EXCEPT !.sharer_nodes = e.sharer_nodes \cup {n}]
      BY <2>5 DEF AfterReadMiss, EntryInv, DirectoryEntry
    <3>2. e.state = "OWNED" => e.owner_node # n
      BY <1>2 DEF ReadHit, OwnerHit
    <3>3. QED
      BY <2>1, <2>5, <3>1, <3>2
         DEF EntryInv, DirectoryEntry, Consistent, State, ReadHit, OwnerHit
  <2>6. QED
    BY <2>2, <2>3, <2>4, <2>5
<1>3. QED
  BY <1>1, <1>2

\* process_write leaves the writer as the only node that hits.
LEMMA WriteEntry ==
  ASSUME NEW e, EntryInv(e), NEW n \in Node, e.version < MaxVersion
  PROVE  /\ EntryInv(AfterWrite(e, n))
         /\ AfterWrite(e, n).version = e.version + 1
         /\ AfterWrite(e, n).owner_node = n
         /\ \A m \in Node : ReadHit(AfterWrite(e, n), m) <=> m = n
<1>1. AfterWrite(e, n) = [e EXCEPT !.sharer_nodes = {}, !.state = "MODIFIED",
                                   !.owner_node = n, !.version = e.version + 1,
                                   !.has_dirty_data = TRUE]
  <2>1. CASE WriteHit(e, n)
    <3>1. e.sharer_nodes = {}
      BY <2>1 DEF WriteHit, EntryInv, Consistent
    <3>2. QED
      BY ZenonT(60), <2>1, <3>1 DEF AfterWrite, EntryInv, DirectoryEntry
  <2>2. CASE ~WriteHit(e, n)
    BY <2>2 DEF AfterWrite, invalidate_sharers, EntryInv, DirectoryEntry
  <2>3. QED
    BY <2>1, <2>2
<1>2. e.version + 1 \in 0..MaxVersion
  BY VersionAssumption DEF EntryInv, DirectoryEntry
<1>3. QED
  BY ZenonT(60), <1>1, <1>2 DEF EntryInv, DirectoryEntry, Consistent, State, ReadHit, OwnerHit

\* The messages of other nodes keep an entry sound and admit no new holder.
LEMMA RemoteEntry ==
  ASSUME NEW e, EntryInv(e), NEW from \in Node,
         NEW f \in {AfterInvalidate(e), AfterDowngrade(e), AfterWriteback(e, from)}
  PROVE  /\ EntryInv(f)
         /\ f.version = e.version
         /\ \A m \in Node : ReadHit(f, m) => ReadHit(e, m)
<1>1. CASE f = AfterInvalidate(e)
  <2>1. CASE e.owner_node # LocalNode
    <3>1. f = [e EXCEPT !.sharer_nodes = e.sharer_nodes \ {LocalNode}]
      BY <1>1, <2>1 DEF AfterInvalidate
    <3>2. QED
      BY <2>1, <3>1 DEF EntryInv, DirectoryEntry, Consistent, State, ReadHit, OwnerHit
  <2>2. CASE e.owner_node = LocalNode
    <3>1. PICK d \in BOOLEAN :
            f = [e EXCEPT !.sharer_nodes = e.sharer_nodes \ {LocalNode},
                          !.owner_node = NoNode, !.state = "INVALID",
                          !.has_dirty_data = d]
      BY <1>1, <2>2, Zenon DEF AfterInvalidate, EntryInv, DirectoryEntry
    <3>2. QED
      BY ZenonT(60), <3>1, NoNodeAssumption
         DEF EntryInv, DirectoryEntry, Consistent, State, ReadHit, OwnerHit
  <2>3. QED
    BY <2>1, <2>2
<1>2. CASE f = AfterDowngrade(e)
  <2>1. e.state # "EXCLUSIVE"
    BY DEF EntryInv, Consistent
  <2>2. CASE e.owner_node = LocalNode /\ e.state = "MODIFIED"
    BY <1>2, <2>2
       DEF AfterDowngrade, EntryInv, DirectoryEntry, Consistent, State, ReadHit, OwnerHit
  <2>3. CASE ~(e.owner_node = LocalNode /\ e.state = "MODIFIED")
    BY <1>2, <2>1, <2>3 DEF AfterDowngrade
  <2>4. QED
    BY <2>2, <2>3
<1>3. CASE f = AfterWriteback(e, from)
  BY ZenonT(60), <1>3, NoNodeAssumption
     DEF AfterWriteback, EntryInv, DirectoryEntry, Consistent, State, ReadHit, OwnerHit
<1>4. QED
  BY <1>1, <1>2, <1>3

-----------------------------------------------------------------------------
(* The directory *)

\* The inductive invariant.  HitIsFresh alone is not inductive: a write hit
\* leaves sharer_nodes alone, and that it is empty is DirectoryConsistent.
EngineInv ==
  TypeOK /\ DirectoryConsistent /\ HitIsFresh /\ DirtyUntilWriteback

\* The number of sharers a write invalidates is a natural number.
LEMMA InvalidatedNat ==
  ASSUME NEW e \in DirectoryEntry, NEW n \in Node
  PROVE  Invalidated(e, n) \in Nat
<1>1. IsFiniteSet(e.sharer_nodes \ {n})
  BY NodeAssumption, FS_Subset DEF DirectoryEntry
<1>2. QED
  BY <1>1, FS_CardinalityType DEF Invalidated

\* A handler that leaves line l with a sound entry f, and whose holders have
\* seen f's version, keeps the invariant on all lines.
LEMMA LineStep ==
  ASSUME EngineInv, NEW l \in Line, NEW f, EntryInv(f),
         directory' = [directory EXCEPT ![l] = f],
         seen' \in [Line -> [Node -> 0..MaxVersion]],
         \A k \in Line \ {l} : seen'[k] = seen[k],
         \A m \in Node : ReadHit(f, m) => seen'[l][m] = f.version,
         created' \subseteq Line,
         last' \in [msgs : Nat, inv : Nat, down : Nat, wb : Nat,
                    source : Node \cup {NoNode}],
         UNCHANGED headVars
  PROVE  EngineInv'
<1>1. directory'[l] = f /\ \A k \in Line \ {l} : directory'[k] = directory[k]
  BY DEF EngineInv, TypeOK
<1>2. TypeOK'
  BY ZenonT(60) DEF EngineInv, TypeOK, EntryInv, headVars
<1>3. DirectoryConsistent'
  BY <1>1 DEF EngineInv, DirectoryConsistent, EntryInv
<1>4. DirtyUntilWriteback'
  BY <1>1 DEF EngineInv, DirtyUntilWriteback, EntryInv
<1>5. HitIsFresh'
  <2> SUFFICES ASSUME NEW k \in Line, NEW m \in Node, ReadHit(directory'[k], m)
               PROVE  seen'[k][m] = directory'[k].version
    BY DEF HitIsFresh, Holders
  <2>1. CASE k = l
    BY <1>1, <2>1
  <2>2. CASE k # l
    BY <1>1, <2>2 DEF EngineInv, HitIsFresh, Holders
  <2>3. QED
    BY <2>1, <2>2
<1>6. QED
  BY <1>2, <1>3, <1>4, <1>5 DEF EngineInv

\* Every line of a sound directory has a sound entry.
LEMMA EntryOfLine ==
  ASSUME EngineInv, NEW l \in Line
  PROVE  /\ EntryInv(directory[l])
         /\ \A m \in Node : ReadHit(directory[l], m) => seen[l][m] = directory[l].version
BY DEF EngineInv, TypeOK, EntryInv, DirectoryConsistent, DirtyUntilWriteback,
       HitIsFresh, Holders

\* process_read keeps the invariant.
LEMMA ReadStep ==
  ASSUME EngineInv, NEW n \in Node, NEW l \in Line, process_read(n, l)
  PROVE  EngineInv'
<1> DEFINE e == directory[l]
           f == AfterRead(e, n)
<1>1. /\ EntryInv(e)
      /\ \A m \in Node : ReadHit(e, m) => seen[l][m] = e.version
  BY EntryOfLine
<1>2. /\ EntryInv(f) /\ f.version = e.version
      /\ \A m \in Node : ReadHit(f, m) <=> ReadHit(e, m) \/ m = n
  BY <1>1, ReadEntry
<1>3. directory' = [directory EXCEPT ![l] = f]
  BY DEF process_read
<1>4. e.version \in 0..MaxVersion
  BY <1>1 DEF EntryInv, DirectoryEntry
<1>5. /\ seen' \in [Line -> [Node -> 0..MaxVersion]]
      /\ \A k \in Line \ {l} : seen'[k] = seen[k]
      /\ \A m \in Node : seen'[l][m] = IF m = n THEN e.version ELSE seen[l][m]
  BY <1>4 DEF process_read, EngineInv, TypeOK
<1>6. \A m \in Node : ReadHit(f, m) => seen'[l][m] = f.version
  BY <1>1, <1>2, <1>5
<1>7. last' \in [msgs : Nat, inv : Nat, down : Nat, wb : Nat, source : Node \cup {NoNode}]
  <2>1. last' = ReadCharge(e, n)
    BY DEF process_read
  <2>2. e.state \in {"INVALID", "SHARED", "MODIFIED", "OWNED"} /\ e.owner_node \in Node \cup {NoNode}
    BY <1>1 DEF EntryInv, Consistent, DirectoryEntry, State
  <2> HIDE DEF e
  <2>3. QED
    BY <2>1, <2>2, LocalNodeAssumption DEF ReadCharge, Charge, OwnerMessage
<1>8. created' \subseteq Line /\ UNCHANGED headVars
  BY DEF process_read, EngineInv, TypeOK
<1> HIDE DEF e, f
<1>9. QED
  BY ZenonT(60), <1>2, <1>3, <1>5, <1>6, <1>7, <1>8, LineStep

\* process_write keeps the invariant.
LEMMA WriteStep ==
  ASSUME EngineInv, NEW n \in Node, NEW l \in Line, process_write(n, l)
  PROVE  EngineInv'
<1> DEFINE e == directory[l]
           f == AfterWrite(e, n)
<1>1. EntryInv(e) /\ e.version < MaxVersion
  BY EntryOfLine DEF process_write
<1>2. /\ EntryInv(f) /\ f.version = e.version + 1
      /\ \A m \in Node : ReadHit(f, m) <=> m = n
  BY <1>1, WriteEntry
<1>3. directory' = [directory EXCEPT ![l] = f]
  BY DEF process_write
<1>4. e.version + 1 \in 0..MaxVersion
  BY <1>1, VersionAssumption DEF EntryInv, DirectoryEntry
<1>5. /\ seen' \in [Line -> [Node -> 0..MaxVersion]]
      /\ \A k \in Line \ {l} : seen'[k] = seen[k]
      /\ seen'[l][n] = e.version + 1
  BY <1>4 DEF process_write, EngineInv, TypeOK
<1>6. \A m \in Node : ReadHit(f, m) => seen'[l][m] = f.version
  BY <1>2, <1>5
<1>7. last' \in [msgs : Nat, inv : Nat, down : Nat, wb : Nat, source : Node \cup {NoNode}]
  <2>1. last' = WriteCharge(e, n)
    BY DEF process_write
  <2>2. e.state \in {"INVALID", "SHARED", "MODIFIED", "OWNED"} /\ e.owner_node \in Node \cup {NoNode}
    BY <1>1 DEF EntryInv, Consistent, DirectoryEntry, State
  <2>3. Invalidated(e, n) \in Nat
    BY <1>1, InvalidatedNat DEF EntryInv
  <2> HIDE DEF e
  <2>4. QED
    BY <2>1, <2>2, <2>3, LocalNodeAssumption DEF WriteCharge, Charge, WriteHit
<1>8. created' \subseteq Line /\ UNCHANGED headVars
  BY DEF process_write, EngineInv, TypeOK
<1> HIDE DEF e, f
<1>9. QED
  BY ZenonT(60), <1>2, <1>3, <1>5, <1>6, <1>7, <1>8, LineStep

\* The messages of other nodes keep the invariant.
LEMMA RemoteStep ==
  ASSUME EngineInv, NEW l \in Line, NEW n \in Node,
         \/ handle_remote_invalidate(l)
         \/ handle_remote_downgrade(l)
         \/ handle_remote_writeback(l, n)
  PROVE  EngineInv'
<1> DEFINE e == directory[l]
<1>1. /\ EntryInv(e)
      /\ \A m \in Node : ReadHit(e, m) => seen[l][m] = e.version
  BY EntryOfLine
<1>2. PICK f \in {AfterInvalidate(e), AfterDowngrade(e), AfterWriteback(e, n)} :
        directory' = [directory EXCEPT ![l] = f]
  BY DEF handle_remote_invalidate, handle_remote_downgrade, handle_remote_writeback
<1>3. /\ EntryInv(f) /\ f.version = e.version
      /\ \A m \in Node : ReadHit(f, m) => ReadHit(e, m)
  BY <1>1, RemoteEntry
<1>4. UNCHANGED <<created, seen, active, share>>
  BY DEF handle_remote_invalidate, handle_remote_downgrade, handle_remote_writeback
<1>5. last' \in [msgs : Nat, inv : Nat, down : Nat, wb : Nat, source : Node \cup {NoNode}]
  BY DEF handle_remote_invalidate, handle_remote_downgrade, handle_remote_writeback, Charge
<1>6. seen' \in [Line -> [Node -> 0..MaxVersion]] /\ created' \subseteq Line
  BY <1>4 DEF EngineInv, TypeOK
<1>7. \A m \in Node : ReadHit(f, m) => seen'[l][m] = f.version
  BY <1>1, <1>3, <1>4
<1> HIDE DEF e
<1>8. QED
  BY ZenonT(60), <1>2, <1>3, <1>4, <1>5, <1>6, <1>7, LineStep DEF headVars

\* Heads do not touch the directory.
LEMMA HeadStep ==
  ASSUME EngineInv, NEW h \in Head, activate_head(h) \/ deactivate_head(h)
  PROVE  EngineInv'
<1>1. UNCHANGED engineVars
  BY DEF activate_head, deactivate_head
<1>2. active' \subseteq Head /\ share' \in [Head -> Nat]
  <2>1. active' \subseteq Head
    BY DEF activate_head, deactivate_head, EngineInv, TypeOK
  <2>2. Cardinality(active') \in Nat
    BY <2>1, HeadAssumption, FS_Subset, FS_CardinalityType
  <2>3. QED
    BY <2>1, <2>2 DEF activate_head, deactivate_head, EngineInv, TypeOK
<1>3. QED
  BY <1>1, <1>2 DEF engineVars, EngineInv, TypeOK, DirectoryConsistent, HitIsFresh,
                    Holders, DirtyUntilWriteback

\* EngineInv is an invariant of the engine.
THEOREM EngineInvariance == Spec => []EngineInv
<1>1. Init => EngineInv
  <2> SUFFICES ASSUME Init PROVE EngineInv
    OBVIOUS
  <2>1. NewEntry \in DirectoryEntry /\ Consistent(NewEntry)
    BY VersionAssumption DEF NewEntry, DirectoryEntry, State, Consistent
  <2>2. TypeOK
    BY <2>1, VersionAssumption, LocalNodeAssumption DEF Init, TypeOK, Charge
  <2>3. QED
    BY <2>1, <2>2, NoNodeAssumption
       DEF Init, EngineInv, DirectoryConsistent, HitIsFresh, Holders, ReadHit, OwnerHit,
           NewEntry, DirtyUntilWriteback
<1>2. EngineInv /\ [Next]_vars => EngineInv'
  <2> SUFFICES ASSUME EngineInv, [Next]_vars PROVE EngineInv'
    OBVIOUS
  <2>1. ASSUME NEW n \in Node, NEW l \in Line, process_read(n, l) PROVE EngineInv'
    BY <2>1, ReadStep
  <2>2. ASSUME NEW n \in Node, NEW l \in Line, process_write(n, l) PROVE EngineInv'
    BY <2>2, WriteStep
  <2>3. ASSUME NEW n \in Node, NEW l \in Line, process_atomic(n, l) PROVE EngineInv'
    BY <2>3, WriteStep DEF process_atomic
  <2>4. ASSUME NEW l \in Line, handle_remote_invalidate(l) PROVE EngineInv'
    BY <2>4, RemoteStep, LocalNodeAssumption
  <2>5. ASSUME NEW l \in Line, handle_remote_downgrade(l) PROVE EngineInv'
    BY <2>5, RemoteStep, LocalNodeAssumption
  <2>6. ASSUME NEW l \in Line, NEW n \in Node, handle_remote_writeback(l, n) PROVE EngineInv'
    BY <2>6, RemoteStep
  <2>7. ASSUME NEW h \in Head, activate_head(h) \/ deactivate_head(h) PROVE EngineInv'
    BY <2>7, HeadStep
  <2>8. CASE UNCHANGED vars
    BY <2>8 DEF vars, EngineInv, TypeOK, DirectoryConsistent, HitIsFresh, Holders,
                DirtyUntilWriteback
  <2>9. QED
    BY <2>1, <2>2, <2>3, <2>4, <2>5, <2>6, <2>7, <2>8 DEF Next
<1>3. QED
  BY <1>1, <1>2, PTL DEF Spec

\* The types of the engine's state.
THEOREM EngineTypes == Spec => []TypeOK
BY EngineInvariance, PTL DEF EngineInv

\* The directory is consistent: one writer or several readers, never both.
THEOREM EngineConsistent == Spec => []DirectoryConsistent
BY EngineInvariance, PTL DEF EngineInv

\* No read hit is stale, for any number of nodes, lines and writes.
THEOREM EngineFresh == Spec => []HitIsFresh
BY EngineInvariance, PTL DEF EngineInv

\* The dirty flag of a MODIFIED or OWNED line is kept until the owner's writeback.
THEOREM EngineDirty == Spec => []DirtyUntilWriteback
BY EngineInvariance, PTL DEF EngineInv

-----------------------------------------------------------------------------
(* Action properties *)

\* A step of a handler changes one line only, and only a write its version.
LEMMA OneLine ==
  ASSUME EngineInv, NEW k \in Line, NEW l \in Line, NEW f,
         directory' = [directory EXCEPT ![l] = f], k # l
  PROVE  directory'[k] = directory[k]
BY DEF EngineInv, TypeOK

\* The nodes a line is taken from by a write are those it is charged for.
LEMMA WriteChargesHolders ==
  ASSUME NEW e, EntryInv(e), NEW n \in Node, e.state # "INVALID"
  PROVE  WriteCharge(e, n).inv + WriteCharge(e, n).wb
           = Cardinality({m \in Node : ReadHit(e, m)} \ {n})
<1> DEFINE H == {m \in Node : ReadHit(e, m)}
           S == e.sharer_nodes \ {n}
           c == WriteCharge(e, n).inv + WriteCharge(e, n).wb
<1> SUFFICES c = Cardinality(H \ {n})
  OBVIOUS
<1>1. e.state \in {"SHARED", "MODIFIED", "OWNED"} /\ e.sharer_nodes \subseteq Node
  BY DEF EntryInv, Consistent, DirectoryEntry, State
<1>2. IsFiniteSet(S) /\ Cardinality(S) \in Nat
  BY <1>1, NodeAssumption, FS_Subset, FS_CardinalityType
<1>3. CASE e.state = "SHARED"
  <2>1. H \ {n} = S
    BY <1>1, <1>3 DEF ReadHit, OwnerHit
  <2>2. c = Cardinality(S) + 0
    BY <1>3 DEF WriteCharge, Charge, WriteHit, Invalidated
  <2> HIDE DEF c, H, S
  <2>3. QED
    BY <1>2, <2>1, <2>2
<1>4. CASE e.state \in {"MODIFIED", "OWNED"} /\ e.owner_node = n
  <2>1. H \ {n} = S
    BY <1>1, <1>4 DEF ReadHit, OwnerHit
  <2>2. e.state = "MODIFIED" => S = {}
    BY DEF EntryInv, Consistent
  <2>3. c = IF e.state = "MODIFIED" THEN 0 ELSE Cardinality(S) + 0
    BY <1>4 DEF WriteCharge, Charge, WriteHit, Invalidated
  <2> HIDE DEF c, H, S
  <2>4. QED
    BY SMTT(60), <1>2, <1>4, <2>1, <2>2, <2>3, FS_EmptySet
<1>5. CASE e.state \in {"MODIFIED", "OWNED"} /\ e.owner_node # n
  <2>1. e.owner_node \in Node /\ e.owner_node \notin S
    BY <1>5 DEF EntryInv, Consistent
  <2>2. H \ {n} = S \cup {e.owner_node}
    BY <1>1, <1>5, <2>1 DEF ReadHit, OwnerHit
  <2>3. Cardinality(H \ {n}) = Cardinality(S) + 1
    BY ZenonT(60), <1>2, <2>1, <2>2, FS_AddElement
  <2>4. e.state = "MODIFIED" => Cardinality(S) = 0
    BY FS_EmptySet DEF EntryInv, Consistent
  <2>5. c = IF e.state = "MODIFIED" THEN 0 + 1 ELSE Cardinality(S) + 1
    BY <1>5 DEF WriteCharge, Charge, WriteHit, Invalidated
  <2> HIDE DEF c, H, S
  <2>6. QED
    BY <2>3, <2>4, <2>5
<1>6. QED
  BY SMTT(60), <1>1, <1>3, <1>4, <1>5

\* Every write charges exactly the holders it takes the line from.
THEOREM EngineCharges == Spec => RevocationsAreCharged
<1>1. EngineInv /\ [Next]_vars => [RevocationsCharged]_vars
  <2> SUFFICES ASSUME EngineInv, Next, NEW k \in Line,
                      directory[k].state # "INVALID",
                      directory'[k].version # directory[k].version
               PROVE  last'.inv + last'.wb
                        = Cardinality(Holders(k) \ {directory'[k].owner_node})
    BY DEF RevocationsCharged
  <2>1. EntryInv(directory[k]) /\ directory \in [Line -> DirectoryEntry]
    BY EntryOfLine DEF EngineInv, TypeOK
  <2>2. ASSUME NEW n \in Node, NEW l \in Line, process_write(n, l)
        PROVE  last'.inv + last'.wb
                 = Cardinality(Holders(k) \ {directory'[k].owner_node})
    <3>1. k = l
      BY <2>2, OneLine DEF process_write
    <3>2. directory'[k] = AfterWrite(directory[k], n) /\ directory[k].version < MaxVersion
      BY <2>1, <2>2, <3>1 DEF process_write
    <3>3. directory'[k].owner_node = n
      BY <2>1, <3>2, WriteEntry
    <3>4. last' = WriteCharge(directory[k], n)
      BY <2>2, <3>1 DEF process_write
    <3>5. QED
      BY <2>1, <3>3, <3>4, WriteChargesHolders DEF Holders
  <2>3. ASSUME NEW n \in Node, NEW l \in Line, process_read(n, l) PROVE FALSE
    <3>1. k = l
      BY <2>3, OneLine DEF process_read
    <3>2. directory'[k] = AfterRead(directory[k], n)
      BY <2>1, <2>3, <3>1 DEF process_read
    <3>3. QED
      BY <2>1, <3>2, ReadEntry
  <2>4. ASSUME NEW l \in Line, NEW n \in Node,
               \/ handle_remote_invalidate(l)
               \/ handle_remote_downgrade(l)
               \/ handle_remote_writeback(l, n)
        PROVE  FALSE
    <3>1. PICK f \in {AfterInvalidate(directory[l]), AfterDowngrade(directory[l]),
                      AfterWriteback(directory[l], n)} :
            directory' = [directory EXCEPT ![l] = f]
      BY <2>4 DEF handle_remote_invalidate, handle_remote_downgrade, handle_remote_writeback
    <3>2. k = l
      BY <3>1, OneLine
    <3>3. directory'[k] = f
      BY <2>1, <3>1, <3>2
    <3>4. QED
      BY <2>1, <3>1, <3>2, <3>3, RemoteEntry
  <2>5. ASSUME NEW h \in Head, activate_head(h) \/ deactivate_head(h) PROVE FALSE
    BY SMTT(60), <2>5 DEF activate_head, deactivate_head, engineVars
  <2>6. QED
    BY SMTT(60), <2>2, <2>3, <2>4, <2>5, LocalNodeAssumption DEF Next, process_atomic
<1>2. QED
  BY <1>1, EngineInvariance, PTL DEF Spec, RevocationsAreCharged

\* Reads and downgrades take the line from nobody: access is lost only to a
\* write, or to a message that invalidates or writes back the line.
THEOREM EngineAccess == Spec => AccessIsKept
<1>1. EngineInv /\ [Next]_vars => [AccessKept]_vars
  <2> SUFFICES ASSUME EngineInv, Next, NEW k \in Line,
                      directory'[k].version # directory[k].version + 1,
                      ~(last'.inv + last'.wb > 0 /\ last'.source = NoNode)
               PROVE  \A m \in Node : ReadHit(directory[k], m) => ReadHit(directory'[k], m)
    BY SMTT(60) DEF AccessKept, Holders
  <2> DEFINE Kept == \A m \in Node : ReadHit(directory[k], m) => ReadHit(directory'[k], m)
  <2>1. EntryInv(directory[k]) /\ directory \in [Line -> DirectoryEntry]
    BY EntryOfLine DEF EngineInv, TypeOK
  <2>2. ASSUME NEW n \in Node, NEW l \in Line, process_read(n, l) PROVE Kept
    <3>1. CASE k = l
      <4>1. directory'[k] = AfterRead(directory[k], n)
        BY <2>1, <2>2, <3>1 DEF process_read
      <4>2. QED
        BY <2>1, <4>1, ReadEntry
    <3>2. CASE k # l
      BY SMTT(60), <2>2, <3>2, OneLine DEF process_read
    <3>3. QED
      BY SMTT(60), <3>1, <3>2
  <2>3. ASSUME NEW n \in Node, NEW l \in Line, process_write(n, l) PROVE Kept
    <3>1. CASE k = l
      <4>1. directory'[k] = AfterWrite(directory[k], n) /\ directory[k].version < MaxVersion
        BY <2>1, <2>3, <3>1 DEF process_write
      <4>2. QED
        BY <2>1, <4>1, WriteEntry
    <3>2. CASE k # l
      BY <2>3, <3>2, OneLine DEF process_write
    <3>3. QED
      BY <3>1, <3>2
  <2>4. ASSUME NEW l \in Line, handle_remote_invalidate(l) PROVE Kept
    BY <2>4 DEF handle_remote_invalidate, Charge
  <2>5. ASSUME NEW l \in Line, handle_remote_downgrade(l) PROVE Kept
    <3>1. CASE k = l
      <4>1. directory'[k] = AfterDowngrade(directory[k])
        BY SMTT(60), <2>1, <2>5, <3>1 DEF handle_remote_downgrade
      <4>2. QED
        BY <2>1, <4>1 DEF AfterDowngrade, EntryInv, Consistent, DirectoryEntry,
                          ReadHit, OwnerHit
    <3>2. CASE k # l
      BY <2>5, <3>2, OneLine DEF handle_remote_downgrade
    <3>3. QED
      BY <3>1, <3>2
  <2>6. ASSUME NEW l \in Line, NEW n \in Node, handle_remote_writeback(l, n) PROVE Kept
    BY <2>6 DEF handle_remote_writeback, Charge
  <2>7. ASSUME NEW h \in Head, activate_head(h) \/ deactivate_head(h) PROVE Kept
    BY <2>7 DEF activate_head, deactivate_head, engineVars
  <2>8. QED
    BY ZenonT(60), <2>2, <2>3, <2>4, <2>5, <2>6, <2>7 DEF Next, process_atomic
<1>2. QED
  BY <1>1, EngineInvariance, PTL DEF Spec, AccessIsKept

-----------------------------------------------------------------------------
(* Refinement: each handler is one step of CoherentMemory *)

\* What a handler that replaces the entry of line l does to the memory.
LEMMA MemoryStep ==
  ASSUME EngineInv, NEW l \in Line, NEW f, directory' = [directory EXCEPT ![l] = f]
  PROVE  /\ Version' = [Version EXCEPT ![l] = f.version]
         /\ Readers' = [Readers EXCEPT ![l] = {m \in Node : ReadHit(f, m)}]
         /\ Writers' = [Writers EXCEPT ![l] = Writer(f)]
<1>1. \A k \in Line : directory'[k] = IF k = l THEN f ELSE directory[k]
  BY DEF EngineInv, TypeOK
<1>2. Version' = [Version EXCEPT ![l] = f.version]
  <2>1. \A k \in Line : directory'[k].version = IF k = l THEN f.version
                                                ELSE directory[k].version
    BY <1>1
  <2>2. QED
    BY <2>1, Zenon DEF Version
<1>3. Readers' = [Readers EXCEPT ![l] = {m \in Node : ReadHit(f, m)}]
  <2>1. \A k \in Line : Holders(k)' = IF k = l THEN {m \in Node : ReadHit(f, m)}
                                      ELSE Holders(k)
    BY <1>1 DEF Holders
  <2>2. QED
    BY <2>1, Zenon DEF Readers
<1>4. Writers' = [Writers EXCEPT ![l] = Writer(f)]
  <2>1. \A k \in Line : Writer(directory'[k]) = IF k = l THEN Writer(f)
                                                ELSE Writer(directory[k])
    BY <1>1
  <2>2. QED
    BY <2>1, Zenon DEF Writers
<1>5. QED
  BY <1>2, <1>3, <1>4

\* The memory at a line is what the line's entry says.
LEMMA MemoryAt ==
  ASSUME NEW l \in Line
  PROVE  /\ Version[l] = directory[l].version
         /\ Readers[l] = {m \in Node : ReadHit(directory[l], m)}
         /\ Writers[l] = Writer(directory[l])
BY DEF Version, Readers, Writers, Holders

\* A read leaves the writer alone if it is the reader, and ends its permission
\* to write otherwise.
LEMMA ReadWriter ==
  ASSUME NEW e, EntryInv(e), NEW n \in Node
  PROVE  Writer(AfterRead(e, n)) = IF Writer(e) = n THEN n ELSE NoNode
<1>1. e.state = "MODIFIED" => e.sharer_nodes = {}
  BY DEF EntryInv, Consistent
<1>2. CASE ReadHit(e, n)
  BY <1>1, <1>2, NoNodeAssumption DEF AfterRead, ReadHit, OwnerHit, Writer
<1>3. CASE ~ReadHit(e, n)
  <2>1. Writer(e) # n
    BY <1>3, NoNodeAssumption DEF ReadHit, OwnerHit, Writer
  <2>2. e.state \in {"INVALID", "SHARED", "MODIFIED", "OWNED"} /\ e \in DirectoryEntry
    BY DEF EntryInv, Consistent, DirectoryEntry, State
  <2>3. AfterReadMiss(e, n).state # "MODIFIED"
    BY <2>2 DEF AfterReadMiss, DirectoryEntry
  <2>4. QED
    BY <1>3, <2>1, <2>3 DEF AfterRead, Writer
<1>4. QED
  BY <1>2, <1>3

\* process_read is Read.
LEMMA ReadRefines ==
  ASSUME EngineInv, NEW n \in Node, NEW l \in Line, process_read(n, l)
  PROVE  Memory!Read(n, l)
<1> DEFINE e == directory[l]
           f == AfterRead(e, n)
<1>1. EntryInv(e)
  BY EntryOfLine
<1>2. /\ f.version = e.version
      /\ {m \in Node : ReadHit(f, m)} = {m \in Node : ReadHit(e, m)} \cup {n}
      /\ Writer(f) = IF Writer(e) = n THEN n ELSE NoNode
  BY <1>1, ReadEntry, ReadWriter
<1>3. directory' = [directory EXCEPT ![l] = f]
  BY DEF process_read
<1>4. seen' = [seen EXCEPT ![l][n] = Version[l]]
  BY MemoryAt, Zenon DEF process_read
<1> HIDE DEF e, f
<1>5. /\ Version' = [Version EXCEPT ![l] = f.version]
      /\ Readers' = [Readers EXCEPT ![l] = {m \in Node : ReadHit(f, m)}]
      /\ Writers' = [Writers EXCEPT ![l] = Writer(f)]
  BY <1>3, MemoryStep, Zenon
<1>6. Version[l] = e.version /\ Readers[l] = {m \in Node : ReadHit(e, m)}
      /\ Writers[l] = Writer(e)
  BY MemoryAt DEF e
<1>7. Version' = Version
  BY <1>2, <1>5, <1>6, Zenon DEF Version
<1>8. QED
  BY <1>2, <1>4, <1>5, <1>6, <1>7, Zenon DEF Memory!Read

\* process_write is Write.
LEMMA WriteRefines ==
  ASSUME EngineInv, NEW n \in Node, NEW l \in Line, process_write(n, l)
  PROVE  Memory!Write(n, l)
<1> DEFINE e == directory[l]
           f == AfterWrite(e, n)
<1>1. EntryInv(e) /\ e.version < MaxVersion
  BY EntryOfLine DEF process_write
<1>2. /\ f.version = e.version + 1 /\ f.owner_node = n
      /\ {m \in Node : ReadHit(f, m)} = {n}
  BY <1>1, WriteEntry
<1>3. f.state = "MODIFIED"
  BY <1>1 DEF AfterWrite, invalidate_sharers, EntryInv, DirectoryEntry
<1>4. directory' = [directory EXCEPT ![l] = f]
  BY DEF process_write
<1>5. seen' = [seen EXCEPT ![l][n] = Version[l] + 1]
  BY MemoryAt, Zenon DEF process_write
<1>6. Version[l] = e.version
  BY MemoryAt
<1> HIDE DEF e, f
<1>7. /\ Version' = [Version EXCEPT ![l] = f.version]
      /\ Readers' = [Readers EXCEPT ![l] = {m \in Node : ReadHit(f, m)}]
      /\ Writers' = [Writers EXCEPT ![l] = Writer(f)]
  BY <1>4, MemoryStep, Zenon
<1>8. Writer(f) = n
  BY <1>2, <1>3 DEF Writer
<1>9. QED
  BY <1>2, <1>5, <1>6, <1>7, <1>8, Zenon DEF Memory!Write

\* A handler that leaves the entry as it is leaves the memory as it is.
LEMMA SameDirectory ==
  ASSUME EngineInv, NEW l \in Line, seen' = seen,
         directory' = [directory EXCEPT ![l] = directory[l]]
  PROVE  UNCHANGED Memory!vars
<1>1. directory' = directory
  BY DEF EngineInv, TypeOK
<1>2. QED
  BY <1>1 DEF Memory!vars, Version, Readers, Writers, Holders

\* A handler that leaves the line with an entry without node n, its version and
\* its other holders the same, is Lose.
LEMMA LoseRefines ==
  ASSUME EngineInv, NEW l \in Line, NEW n \in Node, NEW f,
         directory' = [directory EXCEPT ![l] = f], seen' = seen,
         f.version = directory[l].version,
         \A m \in Node : ReadHit(f, m) <=> ReadHit(directory[l], m) /\ m # n,
         Writer(f) = Memory!Unless(Writer(directory[l]), n)
  PROVE  Memory!Lose(n, l)
<1>1. /\ Version' = [Version EXCEPT ![l] = f.version]
      /\ Readers' = [Readers EXCEPT ![l] = {m \in Node : ReadHit(f, m)}]
      /\ Writers' = [Writers EXCEPT ![l] = Writer(f)]
  BY MemoryStep, Zenon
<1>2. /\ Version[l] = directory[l].version
      /\ Readers[l] = {m \in Node : ReadHit(directory[l], m)}
      /\ Writers[l] = Writer(directory[l])
  BY MemoryAt
<1>3. Version' = Version
  BY <1>1, <1>2 DEF Version
<1>4. {m \in Node : ReadHit(f, m)} = Readers[l] \ {n}
  BY <1>2
<1>5. QED
  BY <1>1, <1>2, <1>3, <1>4, Zenon DEF Memory!Lose

\* handle_remote_invalidate takes the line from the local node.
LEMMA InvalidateRefines ==
  ASSUME EngineInv, NEW l \in Line, handle_remote_invalidate(l)
  PROVE  Memory!Lose(LocalNode, l)
<1> DEFINE e == directory[l]
           f == AfterInvalidate(e)
<1>1. e \in DirectoryEntry
  BY EntryOfLine DEF EntryInv
<1>2. directory' = [directory EXCEPT ![l] = f] /\ seen' = seen
  BY DEF handle_remote_invalidate
<1>3. /\ f.version = e.version
      /\ f.sharer_nodes = e.sharer_nodes \ {LocalNode}
      /\ e.owner_node # LocalNode => f.state = e.state /\ f.owner_node = e.owner_node
      /\ e.owner_node = LocalNode => f.state = "INVALID"
  <2> HIDE DEF e
  <2>1. CASE e.owner_node # LocalNode
    BY <1>1, <2>1 DEF AfterInvalidate, DirectoryEntry
  <2>2. CASE e.owner_node = LocalNode
    BY <1>1, <2>2 DEF AfterInvalidate, DirectoryEntry
  <2>3. QED
    BY <2>1, <2>2
<1> HIDE DEF f
<1>4. \A m \in Node : ReadHit(f, m) <=> ReadHit(e, m) /\ m # LocalNode
  BY <1>3 DEF ReadHit, OwnerHit
<1>5. Writer(f) = Memory!Unless(Writer(e), LocalNode)
  BY <1>3, LocalNodeAssumption, NoNodeAssumption DEF Writer, Memory!Unless
<1>6. QED
  BY <1>2, <1>3, <1>4, <1>5, LoseRefines, LocalNodeAssumption, Zenon

\* handle_remote_writeback takes the line from its owner, if that is who sent it.
LEMMA WritebackRefines ==
  ASSUME EngineInv, NEW l \in Line, NEW n \in Node, handle_remote_writeback(l, n)
  PROVE  Memory!Lose(n, l) \/ UNCHANGED Memory!vars
<1> DEFINE e == directory[l]
           f == AfterWriteback(e, n)
<1>1. EntryInv(e) /\ e \in DirectoryEntry
  BY EntryOfLine DEF EntryInv
<1>2. directory' = [directory EXCEPT ![l] = f] /\ seen' = seen
  BY DEF handle_remote_writeback
<1>3. CASE e.owner_node # n
  BY <1>2, <1>3, SameDirectory, Zenon DEF AfterWriteback
<1>4. CASE e.owner_node = n
  <2>1. /\ f.version = e.version /\ f.state = "INVALID"
        /\ f.sharer_nodes = e.sharer_nodes \ {n}
    <3> HIDE DEF e
    <3>1. QED
      BY <1>1, <1>4 DEF AfterWriteback, DirectoryEntry
  <2> HIDE DEF f
  <2>2. \A m \in Node : ReadHit(f, m) <=> ReadHit(e, m) /\ m # n
    BY <1>4, <2>1 DEF ReadHit, OwnerHit
  <2>3. Writer(f) = Memory!Unless(Writer(e), n)
    BY <1>4, <2>1 DEF Writer, Memory!Unless
  <2>4. QED
    BY <1>2, <2>1, <2>2, <2>3, LoseRefines, Zenon
<1>5. QED
  BY <1>3, <1>4

\* handle_remote_downgrade ends the local node's permission to write, if it has it.
LEMMA DowngradeRefines ==
  ASSUME EngineInv, NEW l \in Line, handle_remote_downgrade(l)
  PROVE  Memory!Downgrade(l) \/ UNCHANGED Memory!vars
<1> DEFINE e == directory[l]
           f == AfterDowngrade(e)
<1>1. EntryInv(e) /\ e \in DirectoryEntry
  BY EntryOfLine DEF EntryInv
<1>2. directory' = [directory EXCEPT ![l] = f] /\ seen' = seen
  BY DEF handle_remote_downgrade
<1>3. CASE e.owner_node = LocalNode /\ e.state = "MODIFIED"
  <2>1. f = [e EXCEPT !.state = "OWNED"]
    BY <1>3 DEF AfterDowngrade
  <2> HIDE DEF e, f
  <2>2. /\ f.version = e.version /\ f.state = "OWNED"
        /\ f.owner_node = e.owner_node /\ f.sharer_nodes = e.sharer_nodes
    BY <1>1, <2>1 DEF DirectoryEntry
  <2>3. {m \in Node : ReadHit(f, m)} = {m \in Node : ReadHit(e, m)} /\ Writer(f) = NoNode
    BY <1>3, <2>2 DEF ReadHit, OwnerHit, Writer
  <2>4. /\ Version' = [Version EXCEPT ![l] = f.version]
        /\ Readers' = [Readers EXCEPT ![l] = {m \in Node : ReadHit(f, m)}]
        /\ Writers' = [Writers EXCEPT ![l] = Writer(f)]
    BY <1>2, MemoryStep, Zenon
  <2>5. Version[l] = e.version /\ Readers[l] = {m \in Node : ReadHit(e, m)}
    BY MemoryAt DEF e
  <2>6. Version' = Version /\ Readers' = Readers
    BY ZenonT(60), <2>2, <2>3, <2>4, <2>5 DEF Version, Readers
  <2>7. QED
    BY <1>2, <2>3, <2>4, <2>6 DEF Memory!Downgrade
<1>4. CASE ~(e.owner_node = LocalNode /\ e.state = "MODIFIED")
  <2>1. f = e
    BY <1>1, <1>4 DEF AfterDowngrade, EntryInv, Consistent
  <2>2. QED
    BY <1>2, <2>1, SameDirectory, Zenon
<1>5. QED
  BY <1>3, <1>4

\* The engine implements CoherentMemory.
THEOREM EngineImplementsMemory == Spec => ImplementsMemory
<1>1. Init => Memory!Init
  <2> SUFFICES ASSUME Init PROVE Memory!Init
    OBVIOUS
  <2>1. \A l \in Line : directory[l] = NewEntry
    BY SMTT(60) DEF Init
  <2>2. NewEntry.version = 0 /\ Writer(NewEntry) = NoNode /\ \A n \in Node : ~ReadHit(NewEntry, n)
    BY DEF NewEntry, Writer, ReadHit, OwnerHit
  <2>3. Version = [l \in Line |-> 0] /\ Writers = [l \in Line |-> NoNode]
    BY SMTT(60), <2>1, <2>2 DEF Version, Writers
  <2>4. Readers = [l \in Line |-> {}]
    BY SMTT(60), <2>1, <2>2 DEF Readers, Holders
  <2>5. QED
    BY <2>3, <2>4 DEF Init, Memory!Init
<1>2. EngineInv /\ [Next]_vars => [Memory!Next]_(Memory!vars)
  <2> SUFFICES ASSUME EngineInv, [Next]_vars
               PROVE  Memory!Next \/ UNCHANGED Memory!vars
    OBVIOUS
  <2>1. ASSUME NEW n \in Node, NEW l \in Line, process_read(n, l) PROVE Memory!Next
    BY <2>1, ReadRefines DEF Memory!Next
  <2>2. ASSUME NEW n \in Node, NEW l \in Line, process_write(n, l) PROVE Memory!Next
    BY <2>2, WriteRefines DEF Memory!Next
  <2>3. ASSUME NEW n \in Node, NEW l \in Line, process_atomic(n, l) PROVE Memory!Next
    BY <2>2, <2>3 DEF process_atomic
  <2>4. ASSUME NEW l \in Line, handle_remote_invalidate(l) PROVE Memory!Next
    BY <2>4, InvalidateRefines, LocalNodeAssumption DEF Memory!Next
  <2>5. ASSUME NEW l \in Line, handle_remote_downgrade(l)
        PROVE  Memory!Next \/ UNCHANGED Memory!vars
    BY <2>5, DowngradeRefines DEF Memory!Next
  <2>6. ASSUME NEW l \in Line, NEW n \in Node, handle_remote_writeback(l, n)
        PROVE  Memory!Next \/ UNCHANGED Memory!vars
    BY SMTT(60), <2>6, WritebackRefines DEF Memory!Next
  <2>7. CASE \/ \E h \in Head : activate_head(h) \/ deactivate_head(h)
             \/ UNCHANGED vars
    BY <2>7 DEF activate_head, deactivate_head, engineVars, vars, Memory!vars,
                Version, Readers, Writers, Holders
  <2>8. QED
    BY SMTT(60), <2>1, <2>2, <2>3, <2>4, <2>5, <2>6, <2>7 DEF Next
<1>3. QED
  BY <1>1, <1>2, EngineInvariance, PTL DEF Spec, ImplementsMemory, Memory!Spec

\* The memory the engine implements is coherent: a node that may read has the
\* latest version, and a node that may write is alone.
THEOREM EngineCoherent == Spec => []Memory!Coherent
<1>1. EngineInv => Memory!Coherent
  <2> SUFFICES ASSUME EngineInv, NEW l \in Line
               PROVE  /\ \A n \in Readers[l] : seen[l][n] = Version[l]
                      /\ Writers[l] # NoNode => Readers[l] = {Writers[l]}
    BY DEF Memory!Coherent
  <2> DEFINE e == directory[l]
  <2>1. EntryInv(e) /\ \A m \in Node : ReadHit(e, m) => seen[l][m] = e.version
    BY EntryOfLine
  <2>2. /\ Version[l] = e.version /\ Readers[l] = {m \in Node : ReadHit(e, m)}
        /\ Writers[l] = Writer(e)
    BY MemoryAt
  <2>3. e.state = "MODIFIED" => e.owner_node \in Node /\ e.sharer_nodes = {}
    BY <2>1 DEF EntryInv, Consistent
  <2> HIDE DEF e
  <2>4. Writer(e) # NoNode => {m \in Node : ReadHit(e, m)} = {Writer(e)}
    BY <2>3 DEF Writer, ReadHit, OwnerHit
  <2>5. QED
    BY SMTT(60), <2>1, <2>2, <2>4
<1>2. QED
  BY <1>1, EngineInvariance, PTL

-----------------------------------------------------------------------------
(* Heads *)

\* A set of heads has a cardinality, and removing a head does not raise it.
LEMMA HeadCount ==
  ASSUME NEW S \in SUBSET Head, NEW h
  PROVE  /\ Cardinality(S) \in Nat
         /\ Cardinality(S \ {h}) \in Nat
         /\ Cardinality(S \ {h}) <= Cardinality(S)
<1>1. IsFiniteSet(S)
  BY HeadAssumption, FS_Subset
<1>2. QED
  BY <1>1, FS_Subset, FS_CardinalityType

\* The active heads have equal shares that never exceed the whole bandwidth.
THEOREM EngineFairShares == Spec => []FairShares
<1>1. Init => FairShares
  BY SMTT(60) DEF Init, FairShares
<1>2. TypeOK /\ FairShares /\ [Next]_vars => FairShares'
  <2> SUFFICES ASSUME TypeOK, FairShares, [Next]_vars PROVE FairShares'
    OBVIOUS
  <2>1. ASSUME NEW h \in Head, activate_head(h) PROVE FairShares'
    <3>1. active' \subseteq Head
      BY <2>1 DEF activate_head, TypeOK
    <3>2. \A g \in active' : share'[g] = Cardinality(active')
      BY <2>1, <3>1 DEF activate_head
    <3>3. Cardinality(active') \in Nat
      BY ZenonT(60), <3>1, HeadCount
    <3>4. QED
      BY <3>2, <3>3 DEF FairShares
  <2>2. ASSUME NEW h \in Head, deactivate_head(h) PROVE FairShares'
    <3>1. active' = active \ {h} /\ \A g \in active' : share'[g] = share[g]
      BY <2>2 DEF deactivate_head, TypeOK
    <3>2. /\ Cardinality(active) \in Nat /\ Cardinality(active') \in Nat
          /\ Cardinality(active') <= Cardinality(active)
      BY ZenonT(60), <3>1, HeadCount DEF TypeOK
    <3>3. \A g \in active' : g \in active /\ share[g] \in Nat
      BY <3>1 DEF TypeOK
    <3>4. QED
      BY <3>1, <3>2, <3>3 DEF FairShares
  <2>3. CASE UNCHANGED headVars
    BY <2>3 DEF headVars, FairShares
  <2>4. QED
    BY SMTT(60), <2>1, <2>2, <2>3 DEF Next, vars, headVars, process_read, process_write,
       process_atomic, handle_remote_invalidate, handle_remote_downgrade,
       handle_remote_writeback
<1>3. QED
  BY <1>1, <1>2, EngineTypes, PTL DEF Spec
=============================================================================
