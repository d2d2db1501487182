---------------------------- MODULE BufferMutex ----------------------------
(***************************************************************************)
(* chapter4/BoundedBuffer-mutex.c: a mutex and busy waiting.  A thread      *)
(* locks, looks at bufSize, unlocks and tries again when it is blocked,    *)
(* and otherwise keeps the lock across its update.                         *)
(***************************************************************************)
EXTENDS BufferMain

vars == baseVars

Labels == {"loop", "load", "store", "stored"}

Init == InitMain

TryLock(t) == iter[t] < Quota(t) /\ Lock(t, "loop", "load")

\* Mutant: the busy wait goes round without the unlock.
RetryLocked(t) ==
  /\ At(t, "load")
  /\ Blocked(t)
  /\ Goto(t, "loop")
  /\ UNCHANGED <<mainVars, iter, reg, bufSize, mutex>>

\* Full, or empty: unlock, and once more round while(1).
Retry(t) ==
  /\ At(t, "load")
  /\ Blocked(t)
  /\ mutex' = Nobody
  /\ Goto(t, "loop")
  /\ UNCHANGED <<mainVars, iter, reg, bufSize>>

\* break, with the mutex held.
Update(t) == (~Blocked(t) /\ Load(t, "load")) \/ Store(t)

Unlock(t) ==
  /\ At(t, "stored")
  /\ mutex' = Nobody
  /\ EndIteration(t)
  /\ UNCHANGED <<mainVars, reg, bufSize>>

Step(t) == TryLock(t) \/ Retry(t) \/ Update(t) \/ Unlock(t)

Producer(p) == Step(p)
Consumer(c) == Step(c)

Next == \/ Main
        \/ \E p \in Producers : Producer(p)
        \/ \E c \in Consumers : Consumer(c)
        \/ Gone /\ UNCHANGED vars

-----------------------------------------------------------------------------
TypeOK == /\ MainTypeOK
          /\ pc \in [Threads -> Labels]
          /\ bufSize \in 0..Capacity

Holding(t) == pc[t] \in {"load", "store", "stored"}

\* What a thread saw at its check still holds at its store.
CheckStillHolds == \A t \in Threads : /\ Holding(t) <=> mutex = t
                                      /\ pc[t] = "store" => /\ reg[t] = bufSize
                                                            /\ ~Blocked(t)

\* bufSize stays within its bounds because the check and the update are one
\* critical section: what the check saw still holds at the store, however the
\* threads interleave.  (The invariant is inductive.)
IInv == TypeOK /\ CheckStillHolds
=============================================================================
