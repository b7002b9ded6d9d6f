--------------------------- MODULE MemoryService ---------------------------
(***************************************************************************)
(* What the PGAS slots promise the QEMU clients: a memory on which each    *)
(* client has at most one request, performed at one instant between the    *)
(* call and the return, by which time it is answered.  The promise is made *)
(* to the clients that have reason to trust the service; the others may    *)
(* see anything, and their requests may be performed at any time, any      *)
(* number of times.  No slots, no polls, no workers.  PgasSlots is shown   *)
(* to implement this specification.                                        *)
(***************************************************************************)
EXTENDS Integers

CONSTANTS Client, Addr, Op, Modulus, num_cachelines, LINE, WORD

Word == 0..(Modulus - 1)

VARIABLES mem,   \* the words
          call,  \* the request of each client, and its result once performed
          trusting  \* the clients to which the promise is made

vars == <<mem, call, trusting>>

NoCall == [pc |-> "idle", op |-> "NONE", addr |-> 0, status |-> "NONE", value |-> 0]

Init ==
  /\ mem = [a \in Addr |-> 0]
  /\ call = [c \in Client |-> NoCall]
  /\ trusting = Client

Call(c, op, a) ==
  /\ call[c].pc = "idle"
  /\ call' = [call EXCEPT ![c] = [pc |-> "called", op |-> op, addr |-> a,
                                  status |-> "NONE", value |-> 0]]
  /\ UNCHANGED <<mem, trusting>>

(* The payload of a request is the word 1, and a compare-and-swap expects  *)
(* the word 0.                                                             *)
Payload == 1 % Modulus

Effect(op, word) ==
  CASE op = "WRITE"      -> Payload
    [] op = "ATOMIC_FAA" -> (word + Payload) % Modulus
    [] op = "ATOMIC_CAS" -> IF word = 0 THEN Payload ELSE word
    [] OTHER             -> word

Answered(c, status, v) == [pc |-> "done", op |-> call[c].op, addr |-> call[c].addr,
                           status |-> status, value |-> v]

(* A read returns the word.  An atomic returns its own operand, not the    *)
(* word it found: that is what the code does.                              *)
Reply(op, word) ==
  CASE op = "READ" -> word
    [] op \in {"ATOMIC_FAA", "ATOMIC_CAS"} -> Payload
    [] OTHER -> 0

(* The line is in the memory and, for an atomic, the whole operand is.     *)
InMemory(op, a) ==
  /\ a \div LINE < num_cachelines
  /\ op \in {"ATOMIC_FAA", "ATOMIC_CAS"} => a + WORD <= num_cachelines * LINE

(* The word is read and written in one step.                               *)
Perform(c) ==
  LET a == call[c].addr
      op == call[c].op
  IN /\ call[c].pc = "called" /\ InMemory(op, a)
     /\ mem' = [mem EXCEPT ![a] = Effect(op, @)]
     /\ call' = [call EXCEPT ![c] = Answered(c, "OK", Reply(op, mem[a]))]
     /\ UNCHANGED trusting

(* A request beyond the memory has no effect and is answered as an error.  *)
Refuse(c) ==
  /\ call[c].pc = "called" /\ ~InMemory(call[c].op, call[c].addr)
  /\ \E v \in Word :
       call' = [call EXCEPT ![c] = Answered(c, "ERROR", v)]
  /\ UNCHANGED <<mem, trusting>>

(* The client takes the answer, or gives up a request that has no effect   *)
(* and never will.                                                         *)
Return(c) ==
  /\ call[c].pc \in {"called", "done"}
  /\ call' = [call EXCEPT ![c] = NoCall]
  /\ UNCHANGED <<mem, trusting>>

(* Clients lose their trust, and anything happens to the calls of those    *)
(* that have.  With one of them, any word may change; the calls of the     *)
(* trusting clients do not.                                                *)
Stray ==
  /\ trusting' \subseteq trusting /\ trusting' # Client
  /\ \A c \in trusting' : call'[c] = call[c]
  /\ \/ UNCHANGED mem
     \/ \E a \in Addr, v \in Word : mem' = [mem EXCEPT ![a] = v]

Next ==
  \/ \E c \in Client :
       \/ \E op \in Op, a \in Addr : Call(c, op, a)
       \/ Perform(c) \/ Refuse(c) \/ Return(c)
  \/ Stray

Spec == Init /\ [][Next]_vars
=============================================================================
