-------------------------- MODULE CancellableFifo ---------------------------
(***************************************************************************)
(* What the blocking queues of thread_pool2 promise: a first-in first-out  *)
(* queue that can be cancelled, after which taking from it when it is      *)
(* empty fails: refused holds the consumers that were told so.             *)
(***************************************************************************)
EXTENDS Sequences

CONSTANTS Consumers, Values

VARIABLES q, cancelled, taken, refused

vars == <<q, cancelled, taken, refused>>

Init ==
    /\ q = <<>> /\ cancelled = FALSE /\ refused = {}
    /\ taken = [c \in Consumers |-> <<>>]

Put(v) == q' = Append(q, v) /\ UNCHANGED <<cancelled, taken, refused>>

Take(c) ==
    /\ q # <<>>
    /\ taken' = [taken EXCEPT ![c] = Append(taken[c], Head(q))]
    /\ q' = Tail(q)
    /\ UNCHANGED <<cancelled, refused>>

Refuse(c) ==
    /\ q = <<>> /\ cancelled
    /\ refused' = refused \cup {c}
    /\ UNCHANGED <<q, cancelled, taken>>

Cancel == cancelled' = TRUE /\ UNCHANGED <<q, taken, refused>>

Next ==
    \/ \E v \in Values : Put(v)
    \/ \E c \in Consumers : Take(c) \/ Refuse(c)
    \/ Cancel

Spec == Init /\ [][Next]_vars
=============================================================================
