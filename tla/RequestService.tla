--------------------------- MODULE RequestService ---------------------------
(***************************************************************************)
(* What the ring of a client slot promises.  As long as it is used in an   *)
(* orderly way, a request is asked for when none is waited for, one server *)
(* serves it, once, and its response is received after that.  Once a       *)
(* request is given up, or asked for while another is waited for, or two   *)
(* servers race, a response may be that of another request, which other    *)
(* servers may have served as well; it is still one to a served request.   *)
(* No ring, no indices.  ShmRing is shown to implement this specification. *)
(***************************************************************************)
EXTENDS Integers, Sequences

CONSTANTS MaxRequests, Server

VARIABLES calls,    \* the requests that are waited for, in order
          sent,     \* the number of requests made so far
          served,   \* the servers that have served each request
          orderly,  \* nobody gave up, asked too early or raced
          got       \* the last response, and the request it was received for

vars == <<calls, sent, served, orderly, got>>

Init ==
  /\ calls = <<>> /\ sent = 0 /\ orderly = TRUE
  /\ served = [r \in 1..MaxRequests |-> {}]
  /\ got = [sent |-> 0, received |-> 0]

Ask ==
  /\ sent' = sent + 1
  /\ calls' = Append(calls, sent + 1)
  /\ orderly' = (orderly /\ calls = <<>>)
  /\ UNCHANGED <<served, got>>

Serve(s, r) ==
  /\ r <= sent
  /\ orderly => calls = <<r>> /\ served[r] = {}
  /\ served' = [served EXCEPT ![r] = @ \cup {s}]
  /\ UNCHANGED <<calls, sent, orderly, got>>

Receive(r) ==
  /\ calls # <<>> /\ served[r] # {}
  /\ orderly => r = Head(calls)
  /\ got' = [sent |-> Head(calls), received |-> r]
  /\ calls' = Tail(calls)
  /\ UNCHANGED <<sent, served, orderly>>

(* One request is given up, or all are.                                    *)
GiveUp ==
  /\ calls # <<>>
  /\ calls' \in {Tail(calls), <<>>}
  /\ orderly' = FALSE
  /\ UNCHANGED <<sent, served, got>>

(* Two servers race for a request.                                         *)
Race ==
  /\ orderly' = FALSE
  /\ UNCHANGED <<calls, sent, served, got>>

Next ==
  \/ Ask \/ GiveUp \/ Race
  \/ \E r \in 1..MaxRequests : Receive(r) \/ \E s \in Server : Serve(s, r)

Spec == Init /\ [][Next]_vars
=============================================================================
