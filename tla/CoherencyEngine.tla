--------------------------- MODULE CoherencyEngine ---------------------------
(***************************************************************************)
(* The unified MOESI directory of src/src/coherency_engine.cpp: one entry  *)
(* per cache line, and the handlers that read, write, invalidate,          *)
(* downgrade and write back a line.  Every handler holds entry->lock from  *)
(* its first access to the entry to its return, so a handler is one step.  *)
(*                                                                         *)
(* Left out: latencies, owner_head and last_access_time (written, never    *)
(* read).  The five global counters are represented by `last', what the    *)
(* latest handler added to them, together with the data_source_node of its *)
(* response.                                                               *)
(***************************************************************************)
EXTENDS Integers, FiniteSets

CONSTANTS
  Line,         \* cache-line addresses (addr & ~(CACHELINE_SIZE - 1))
  Node,         \* requesting nodes
  LocalNode,    \* local_node_id_
  NoNode,       \* UINT32_MAX, "no owner"
  Head,         \* host ports, the indices of heads_
  MaxVersion    \* bound on entry->version

ASSUME LocalNodeAssumption == LocalNode \in Node
ASSUME NoNodeAssumption == NoNode \notin Node
ASSUME VersionAssumption == MaxVersion \in Nat
ASSUME NodeAssumption == IsFiniteSet(Node)
ASSUME HeadAssumption == IsFiniteSet(Head)

VARIABLES
  created,      \* the lines directory_ has an entry for
  directory,    \* the DirectoryEntry of each line (its initial value if absent)
  seen,         \* history: version of the line at the node's latest access
  last,         \* counters and data source charged by the latest handler
  active,       \* the heads with heads_[h].active
  share         \* k when heads_[h].bandwidth_share = 1.0 / k, 0 when it is 0.0

engineVars == <<created, directory, seen, last>>
headVars == <<active, share>>
vars == <<created, directory, seen, last, active, share>>

State == {"INVALID", "SHARED", "EXCLUSIVE", "MODIFIED", "OWNED"}

DirectoryEntry == [state : State, owner_node : Node \cup {NoNode},
                   sharer_nodes : SUBSET Node, version : 0..MaxVersion,
                   has_dirty_data : BOOLEAN]

NewEntry == [state |-> "INVALID", owner_node |-> NoNode, sharer_nodes |-> {},
             version |-> 0, has_dirty_data |-> FALSE]

\* what a handler adds to total_coherency_messages_, total_invalidations_,
\* total_downgrades_ and total_writebacks_, and its data_source_node
Charge(msgs, inv, down, wb, source) ==
  [msgs |-> msgs, inv |-> inv, down |-> down, wb |-> wb, source |-> source]

TypeOK ==
  /\ created \subseteq Line
  /\ directory \in [Line -> DirectoryEntry]
  /\ seen \in [Line -> [Node -> 0..MaxVersion]]
  /\ last \in [msgs : Nat, inv : Nat, down : Nat, wb : Nat,
               source : Node \cup {NoNode}]
  /\ active \subseteq Head
  /\ share \in [Head -> Nat]

Init ==
  /\ created = {}
  /\ directory = [l \in Line |-> NewEntry]
  /\ seen = [l \in Line |-> [n \in Node |-> 0]]
  /\ last = Charge(0, 0, 0, 0, LocalNode)
  /\ active = {}
  /\ share = [h \in Head |-> 0]

-----------------------------------------------------------------------------
(* Reads *)

\* the first test of process_read: the requester owns a readable copy
OwnerHit(e, n) ==
  e.owner_node = n /\ e.state \in {"EXCLUSIVE", "MODIFIED", "OWNED"}

\* process_read answers without a transition
ReadHit(e, n) == OwnerHit(e, n) \/ n \in e.sharer_nodes

\* downgrade_owner, called in state EXCLUSIVE only: the owner becomes a sharer
downgrade_owner(e, n) ==
  IF e.owner_node \in {NoNode, n} THEN e
  ELSE [e EXCEPT !.sharer_nodes = @ \cup {e.owner_node},
                 !.state = "SHARED", !.owner_node = NoNode]

\* variant: the reader replaces the sharers instead of joining them
AfterReadMissReplacing(e, n) ==
  LET s == IF e.state = "MODIFIED" THEN "OWNED"
           ELSE IF e.state = "INVALID" THEN "SHARED" ELSE e.state
  IN [e EXCEPT !.sharer_nodes = {n}, !.state = s,
               !.owner_node = IF s = "SHARED" THEN n ELSE @]

\* the switch of process_read; each branch ends by inserting the sharer
AfterReadMiss(e, n) ==
  LET f == CASE e.state = "INVALID"   -> [e EXCEPT !.state = "SHARED", !.owner_node = n]
             [] e.state = "EXCLUSIVE" -> [downgrade_owner(e, n) EXCEPT !.state = "SHARED"]
             [] e.state = "MODIFIED"  -> [e EXCEPT !.state = "OWNED"]
             [] e.state \in {"SHARED", "OWNED"} -> e
  IN [f EXCEPT !.sharer_nodes = @ \cup {n}]

AfterRead(e, n) == IF ReadHit(e, n) THEN e ELSE AfterReadMiss(e, n)

\* downgrade_owner and fetch_from_owner return early when there is no owner
OwnerMessage(e) == IF e.owner_node = NoNode THEN 0 ELSE 1

\* the owner is read for the response after downgrade_owner has cleared it
ReadCharge(e, n) ==
  IF ReadHit(e, n) THEN Charge(0, 0, 0, 0, LocalNode)
  ELSE CASE e.state \in {"INVALID", "SHARED"} -> Charge(0, 0, 0, 0, LocalNode)
         [] e.state = "EXCLUSIVE" -> Charge(OwnerMessage(e), 0, OwnerMessage(e), 0,
                                            downgrade_owner(e, n).owner_node)
         [] e.state = "MODIFIED"  -> Charge(OwnerMessage(e), 0, 0, 0, e.owner_node)
         [] e.state = "OWNED"     -> Charge(1, 0, 0, 0, e.owner_node)

process_read(n, l) ==
  /\ created' = created \cup {l}
  /\ directory' = [directory EXCEPT ![l] = AfterRead(@, n)]
  /\ seen' = [seen EXCEPT ![l][n] = directory[l].version]
  /\ last' = ReadCharge(directory[l], n)
  /\ UNCHANGED headVars

-----------------------------------------------------------------------------
(* Writes *)

\* variant: an OWNED line is written like a MODIFIED one
WriteHitOwned(e, n) ==
  e.owner_node = n /\ e.state \in {"EXCLUSIVE", "MODIFIED", "OWNED"}

\* process_write finds the requester owning the line exclusively
WriteHit(e, n) == e.owner_node = n /\ e.state \in {"EXCLUSIVE", "MODIFIED"}

\* invalidate_sharers empties the set, the excepted node included
invalidate_sharers(e) == [e EXCEPT !.sharer_nodes = {}]

\* variant: the writer is charged for its own copy
InvalidatedAll(e, n) == Cardinality(e.sharer_nodes)

\* only the sharers other than the requester are sent an invalidation
Invalidated(e, n) == Cardinality(e.sharer_nodes \ {n})

\* variant: the version is advanced on entry and again on return
AfterWriteTwice(e, n) ==
  [e EXCEPT !.sharer_nodes = {}, !.state = "MODIFIED", !.owner_node = n,
            !.version = e.version + 2, !.has_dirty_data = TRUE]

AfterWrite(e, n) ==
  LET f == IF WriteHit(e, n) THEN e ELSE invalidate_sharers(e)
  IN [f EXCEPT !.state = "MODIFIED", !.owner_node = n,
               !.version = e.version + 1, !.has_dirty_data = TRUE]

WriteCharge(e, n) ==
  LET k == Invalidated(e, n) IN
  CASE WriteHit(e, n) \/ e.state = "INVALID"
         -> Charge(0, 0, 0, 0, LocalNode)
    [] e.state = "SHARED" \/ (e.state = "OWNED" /\ e.owner_node = n)
         -> Charge(k, k, 0, 0, LocalNode)
    [] e.state = "EXCLUSIVE" /\ e.owner_node # n
         -> Charge(1, 1, 0, 0, LocalNode)
    [] e.state = "MODIFIED" /\ e.owner_node # n
         -> Charge(1, 0, 0, 1, e.owner_node)
    [] e.state = "OWNED" /\ e.owner_node # n
         -> Charge(k, k, 0, 1, e.owner_node)

process_write(n, l) ==
  /\ directory[l].version < MaxVersion
  /\ created' = created \cup {l}
  /\ directory' = [directory EXCEPT ![l] = AfterWrite(@, n)]
  /\ seen' = [seen EXCEPT ![l][n] = directory[l].version + 1]
  /\ last' = WriteCharge(directory[l], n)
  /\ UNCHANGED headVars

\* process_write and a latency term
process_atomic(n, l) == process_write(n, l)

-----------------------------------------------------------------------------
(* Messages from other nodes: nothing happens to a line without an entry *)

\* variant: the owner is cleared but the state is not
AfterInvalidateOwnerOnly(e) ==
  [e EXCEPT !.sharer_nodes = @ \ {LocalNode},
            !.owner_node = IF @ = LocalNode THEN NoNode ELSE @]

AfterInvalidate(e) ==
  LET f == [e EXCEPT !.sharer_nodes = @ \ {LocalNode}] IN
  IF e.owner_node # LocalNode THEN f
  ELSE [f EXCEPT !.owner_node = NoNode, !.state = "INVALID",
                 !.has_dirty_data = @ \/ e.state = "MODIFIED"]

handle_remote_invalidate(l) ==
  /\ l \in created
  /\ directory' = [directory EXCEPT ![l] = AfterInvalidate(@)]
  /\ last' = LET e == directory[l] IN
       Charge(0, 1, 0,
              IF e.owner_node = LocalNode /\ e.state = "MODIFIED" THEN 1 ELSE 0,
              NoNode)
  /\ UNCHANGED <<created, seen, active, share>>

AfterDowngrade(e) ==
  IF e.owner_node = LocalNode /\ e.state = "MODIFIED"
  THEN [e EXCEPT !.state = "OWNED"]
  ELSE IF e.owner_node = LocalNode /\ e.state = "EXCLUSIVE"
  THEN [e EXCEPT !.state = "SHARED", !.sharer_nodes = @ \cup {LocalNode}]
  ELSE e

handle_remote_downgrade(l) ==
  /\ l \in created
  /\ directory' = [directory EXCEPT ![l] = AfterDowngrade(@)]
  /\ last' = Charge(0, 0, 1, 0, NoNode)
  /\ UNCHANGED <<created, seen, active, share>>

\* variant: a writeback from any node cleans the line
AfterWritebackAnyNode(e, from) ==
  IF e.owner_node # from THEN [e EXCEPT !.has_dirty_data = FALSE]
  ELSE [e EXCEPT !.has_dirty_data = FALSE, !.owner_node = NoNode,
                 !.state = "INVALID", !.sharer_nodes = @ \ {from}]

\* variant: a writeback takes the line from the sharers too
AfterWritebackAlone(e, from) ==
  IF e.owner_node # from THEN e
  ELSE [e EXCEPT !.has_dirty_data = FALSE, !.owner_node = NoNode,
                 !.state = "INVALID", !.sharer_nodes = {}]

AfterWriteback(e, from) ==
  IF e.owner_node # from THEN e
  ELSE [e EXCEPT !.has_dirty_data = FALSE, !.owner_node = NoNode,
                 !.state = "INVALID", !.sharer_nodes = @ \ {from}]

handle_remote_writeback(l, from) ==
  /\ l \in created
  /\ directory' = [directory EXCEPT ![l] = AfterWriteback(@, from)]
  /\ last' = Charge(0, 0, 0, 1, NoNode)
  /\ UNCHANGED <<created, seen, active, share>>

-----------------------------------------------------------------------------
(* Heads *)

\* variant: only the new head is given its share
activate_head_alone(h) ==
  /\ active' = active \cup {h}
  /\ share' = [share EXCEPT ![h] = Cardinality(active')]
  /\ UNCHANGED engineVars

activate_head(h) ==
  /\ active' = active \cup {h}
  /\ share' = [g \in Head |-> IF g \in active' THEN Cardinality(active') ELSE share[g]]
  /\ UNCHANGED engineVars

\* the shares of the remaining heads are not rebalanced
deactivate_head(h) ==
  /\ active' = active \ {h}
  /\ share' = [share EXCEPT ![h] = 0]
  /\ UNCHANGED engineVars

Next ==
  \/ \E n \in Node, l \in Line : process_read(n, l)
  \/ \E n \in Node, l \in Line : process_write(n, l)
  \/ \E n \in Node, l \in Line : process_atomic(n, l)
  \/ \E l \in Line : handle_remote_invalidate(l)
  \/ \E l \in Line : handle_remote_downgrade(l)
  \/ \E l \in Line, n \in Node : handle_remote_writeback(l, n)
  \/ \E h \in Head : activate_head(h)
  \/ \E h \in Head : deactivate_head(h)

Spec == Init /\ [][Next]_vars

-----------------------------------------------------------------------------
(* Properties *)

\* the nodes that the directory lets read the line without a transition
Holders(l) == {n \in Node : ReadHit(directory[l], n)}

\* The MOESI meaning of an entry.  A MODIFIED line has an owner and no sharer
\* (so one node may write it, and nobody else read it); an OWNED line has an
\* owner that is not also listed as a sharer; a SHARED line's first reader is
\* still a sharer; an INVALID line has no owner; EXCLUSIVE is never entered.
\* The owner is cleared and the sharers are emptied in different handlers, so
\* any sequence of them has to keep the two in step.
Consistent(e) ==
  /\ e.state = "MODIFIED" => e.owner_node \in Node /\ e.sharer_nodes = {}
  /\ e.state = "OWNED" => e.owner_node \in Node \ e.sharer_nodes
  /\ e.state = "SHARED" => e.owner_node \in e.sharer_nodes
  /\ e.state = "INVALID" => e.owner_node = NoNode
  /\ e.state # "EXCLUSIVE"

\* Every directory entry keeps that meaning, whatever the order of handlers.
DirectoryConsistent == \A l \in Line : Consistent(directory[l])

\* A read hit is never stale: a node that process_read would answer from its
\* own copy last accessed the line after the latest write to it.  The local
\* hit paths of process_write leave sharer_nodes alone, and leave it to the
\* other handlers that nobody is in it.
HitIsFresh ==
  \A l \in Line : \A n \in Holders(l) : seen[l][n] = directory[l].version

\* Data of a line in MODIFIED or OWNED has not reached memory: the flag that
\* says so is kept until the owner writes the line back.
DirtyUntilWriteback ==
  \A l \in Line :
    directory[l].state \in {"MODIFIED", "OWNED"} => directory[l].has_dirty_data

\* A write takes the line from every other holder and every one of them is
\* charged: as an invalidation if it was a sharer, as a writeback if it was
\* the owner of dirty data.  Lines that a remote invalidation or writeback
\* left INVALID are excluded: their remaining sharers are dropped uncharged.
RevocationsCharged ==
  \A l \in Line :
    directory[l].state # "INVALID" /\ directory'[l].version # directory[l].version
      => last'.inv + last'.wb
           = Cardinality(Holders(l) \ {directory'[l].owner_node})

RevocationsAreCharged == [][RevocationsCharged]_vars

\* Without a write to the line and without a message that invalidates or
\* writes it back, nobody loses access to a line.
AccessKept ==
  \A l \in Line :
    \/ Holders(l) \subseteq Holders(l)'
    \/ directory'[l].version = directory[l].version + 1
    \/ last'.inv + last'.wb > 0 /\ last'.source = NoNode

AccessIsKept == [][AccessKept]_vars

\* The directory as the memory its nodes see: the holders of a line may read
\* it, the owner of a MODIFIED line may write it.
Version == [l \in Line |-> directory[l].version]
Readers == [l \in Line |-> Holders(l)]
Writer(e) == IF e.state = "MODIFIED" THEN e.owner_node ELSE NoNode
Writers == [l \in Line |-> Writer(directory[l])]

Memory == INSTANCE CoherentMemory WITH
  version <- Version, copy <- seen, readers <- Readers, writer <- Writers

\* The engine implements CoherentMemory: whatever the MOESI states, each
\* handler is one step of a memory with one writer or several readers.  A read
\* takes the line from nobody, a write from everybody else, a message of
\* another node from at most one node, and no step admits a node that was not
\* given the latest version.
ImplementsMemory == Memory!Spec

\* Bandwidth is shared fairly and never oversubscribed: the active heads all
\* have the same share 1/k, and there are at most k of them.  deactivate_head
\* does not rebalance, so k may exceed their number.
FairShares ==
  \A g, h \in active : share[g] = share[h] /\ share[h] >= Cardinality(active)

=============================================================================
