-------------------------- MODULE QuickSortBroken --------------------------
(***************************************************************************)
(* chapter4/ConcurrentQuickSort-Recursive-broken.c: the recursive program  *)
(* without a minimal length and without a limit of its own.  Each part,    *)
(* the empty ones too, gets a thread, until pthread_create fails: then the *)
(* parent sorts that part itself.  Threads are taken off a count that they *)
(* were never added to: concurrentThreadNum falls below 0.                 *)
(***************************************************************************)
EXTENDS QuickSortThreads

SpawnAny(t) ==
  LET child == PartOf(t, part[t]) IN
  /\ At(t, "create")
  /\ pc' = [pc EXCEPT ![child] = "enter", ![t] = IF part[t] = 1 THEN "create" ELSE "join"]
  /\ part' = [part EXCEPT ![t] = 3 - @]
  /\ re' = [re EXCEPT ![t] = @ \cup {part[t]}]
  /\ UNCHANGED <<input, array, failed, mutex, countVars, index, sortVars>>

\* Mutant: a part whose thread could not be created is skipped.
SpawnSkipped(t) ==
  /\ NextPart(t, "create", "create", "join")
  /\ UNCHANGED <<input, array, failed, mutex, countVars, index, re, sortVars>>

\* "Cannot create thread, sort sequentially"
SpawnRefused(t) ==
  /\ Move(t, "create", "seq")
  /\ local' = [local EXCEPT ![t] = <<PartOf(t, part[t])>>]
  /\ UNCHANGED <<input, array, failed, mutex, countVars, part, index, re, job, cur>>

\* The mutex is only taken to decrement the count, after a join.
LockJoined(t) == pc[t] = "joined" /\ Lock(t)

BrokenStep(t) ==
  \/ Enter(t) \/ PartRound(t) \/ PartEnd(t) \/ Sequential(t)
  \/ SpawnAny(t) \/ SpawnRefused(t)
  \/ Join(t) \/ NoJoin(t) \/ LockJoined(t) \/ Discount(t)

BrokenNext == \/ \E t \in Live : BrokenStep(t)
              \/ Ended /\ UNCHANGED vars
=============================================================================
