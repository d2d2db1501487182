--------------------------- MODULE BoundedBuffer ---------------------------
(***************************************************************************)
(* What a bounded buffer of cokes promises, whatever protects it: a        *)
(* producer adds one coke when there is room, a consumer takes one when    *)
(* there is one, and nothing else changes the number of cokes.  The three  *)
(* correct programs BoundedBuffer-{mutex,semaphore,monitor}.c implement it. *)
(***************************************************************************)
EXTENDS Integers

CONSTANTS Producers,  \* the producer threads
          Consumers,  \* the consumer threads
          Capacity    \* BUF_CAPACITY

VARIABLES size,   \* cokes in the buffer
          count   \* count[t]: cokes thread t has put in or taken out

vars == <<size, count>>

Counted(t) == count' = [count EXCEPT ![t] = @ + 1]

Init == /\ size = 0
        /\ count = [t \in Producers \cup Consumers |-> 0]

Produce(p) == /\ size < Capacity
              /\ size' = size + 1
              /\ Counted(p)

Consume(c) == /\ size > 0
              /\ size' = size - 1
              /\ Counted(c)

Next == \/ \E p \in Producers : Produce(p)
        \/ \E c \in Consumers : Consume(c)

Spec == Init /\ [][Next]_vars
=============================================================================
