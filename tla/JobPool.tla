------------------------------ MODULE JobPool ------------------------------
(***************************************************************************)
(* What a pool of workers promises: the jobs 0, 1, ..., NumJobs - 1 are    *)
(* submitted in this order, each is taken once, in the same order, and     *)
(* done once, and the pool closes after the last one is done.              *)
(***************************************************************************)
EXTENDS Integers

CONSTANT NumJobs

VARIABLES submitted,  \* jobs 0 .. submitted - 1 are in the pool or past it
          running,    \* the jobs that workers have taken and not done yet
          done,       \* the jobs that are done
          closed      \* the pool has closed

vars == <<submitted, running, done, closed>>

Init == /\ submitted = 0
        /\ running = {}
        /\ done = {}
        /\ closed = FALSE

Submit == /\ submitted < NumJobs
          /\ submitted' = submitted + 1
          /\ UNCHANGED <<running, done, closed>>

\* The oldest job that nobody has taken.
Take(j) == /\ j < submitted
           /\ j \notin running \cup done
           /\ \A i \in 0..(j - 1) : i \in running \cup done
           /\ running' = running \cup {j}
           /\ UNCHANGED <<submitted, done, closed>>

Finish(j) == /\ j \in running
             /\ running' = running \ {j}
             /\ done' = done \cup {j}
             /\ UNCHANGED <<submitted, closed>>

Close == /\ submitted = NumJobs
         /\ done = 0..(NumJobs - 1)
         /\ closed' = TRUE
         /\ UNCHANGED <<submitted, running, done>>

Next == \/ Submit
        \/ \E j \in 0..(NumJobs - 1) : Take(j) \/ Finish(j)
        \/ Close

Spec == Init /\ [][Next]_vars
=============================================================================
