------------------------------ MODULE WorkOnce ------------------------------
(***************************************************************************)
(* What the four job programs of chapter4 promise, however the jobs get to *)
(* the threads: in a round each job is taken by one worker and by no       *)
(* other, and the sum that is told at the end counts each job once.        *)
(***************************************************************************)
EXTENDS Integers, FiniteSets

CONSTANTS Workers,  \* the threads, main among them
          Jobs      \* the job numbers

VARIABLES worth,  \* what each job adds to the sum
          has,    \* has[w]: the jobs worker w has taken in this round
          total   \* the sum told at the end of the round, -1 before

vars == <<worth, has, total>>

Idle == [w \in Workers |-> {}]

Taken == UNION {has[w] : w \in Workers}

Init == /\ worth \in [Jobs -> Nat]
        /\ has = Idle
        /\ total = -1

Take(w, j) == /\ total = -1
              /\ j \notin Taken
              /\ has' = [has EXCEPT ![w] = @ \cup {j}]
              /\ UNCHANGED <<worth, total>>

\* What the jobs add up to, counted one by one.
Units == UNION {{j} \X (1..worth[j]) : j \in Jobs}

Tell == /\ total = -1
        /\ Taken = Jobs
        /\ total' = Cardinality(Units)
        /\ UNCHANGED <<worth, has>>

NewRound == /\ total # -1
            /\ has' = Idle
            /\ total' = -1
            /\ UNCHANGED worth

Next == \/ \E w \in Workers, j \in Jobs : Take(w, j)
        \/ Tell
        \/ NewRound

Spec == Init /\ [][Next]_vars
=============================================================================
