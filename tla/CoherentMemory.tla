--------------------------- MODULE CoherentMemory ---------------------------
(***************************************************************************)
(* What the coherency engine promises its nodes: a line has one writer or  *)
(* any number of readers, a write takes the line from everybody else at    *)
(* once, anything else takes it from one node at most, and who is let read *)
(* has been given the latest version.  No MOESI states, owners or sharers. *)
(* CoherencyEngine is shown to implement this specification.               *)
(***************************************************************************)
EXTENDS Integers

CONSTANTS Line, Node, NoNode

VARIABLES version,  \* number of writes to each line
          copy,     \* the version of a line each node was last given
          readers,  \* the nodes that may read the line as it is
          writer    \* the node that may write it as it is, or NoNode

vars == <<version, copy, readers, writer>>

Init ==
  /\ version = [l \in Line |-> 0]
  /\ copy = [l \in Line |-> [n \in Node |-> 0]]
  /\ readers = [l \in Line |-> {}]
  /\ writer = [l \in Line |-> NoNode]

Unless(n, m) == IF n = m THEN NoNode ELSE n

(* The reader is given the latest version and takes nobody's, except that  *)
(* another node's permission to write ends.                                *)
Read(n, l) ==
  /\ copy' = [copy EXCEPT ![l][n] = version[l]]
  /\ readers' = [readers EXCEPT ![l] = @ \cup {n}]
  /\ writer' = [writer EXCEPT ![l] = IF @ = n THEN n ELSE NoNode]
  /\ UNCHANGED version

Write(n, l) ==
  /\ version' = [version EXCEPT ![l] = @ + 1]
  /\ copy' = [copy EXCEPT ![l][n] = version[l] + 1]
  /\ readers' = [readers EXCEPT ![l] = {n}]
  /\ writer' = [writer EXCEPT ![l] = n]

(* One node loses the line. *)
Lose(n, l) ==
  /\ readers' = [readers EXCEPT ![l] = @ \ {n}]
  /\ writer' = [writer EXCEPT ![l] = Unless(@, n)]
  /\ UNCHANGED <<version, copy>>

(* The writer keeps the line, to read. *)
Downgrade(l) ==
  /\ writer' = [writer EXCEPT ![l] = NoNode]
  /\ UNCHANGED <<version, copy, readers>>

Next ==
  \E l \in Line :
    \/ \E n \in Node : Read(n, l) \/ Write(n, l) \/ Lose(n, l)
    \/ Downgrade(l)

Spec == Init /\ [][Next]_vars

(* A reader's copy is the latest, and a writer is the only reader.         *)
Coherent ==
  \A l \in Line :
    /\ \A n \in readers[l] : copy[l][n] = version[l]
    /\ writer[l] # NoNode => readers[l] = {writer[l]}
=============================================================================
