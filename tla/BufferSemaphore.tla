-------------------------- MODULE BufferSemaphore --------------------------
(***************************************************************************)
(* chapter4/BoundedBuffer-semaphore.c: two counting semaphores keep the    *)
(* buffer in bounds, the mutex protects the counter.  A thread waits on its *)
(* semaphore, locks, updates bufSize, unlocks, and posts the other side's  *)
(* semaphore after the unlock.                                             *)
(***************************************************************************)
EXTENDS BufferMain

VARIABLES fullSlots, emptySlots   \* the values of the two semaphores

vars == <<baseVars, fullSlots, emptySlots>>

Labels == {"loop", "lock", "load", "store", "stored", "post"}

Init == /\ InitMain
        /\ fullSlots = 0
        /\ emptySlots = Capacity

\* sem_wait: blocks at 0.
SemWait(t) ==
  /\ At(t, "loop")
  /\ iter[t] < Quota(t)
  /\ IF t \in Producers
       THEN emptySlots > 0 /\ emptySlots' = emptySlots - 1 /\ UNCHANGED fullSlots
       ELSE fullSlots > 0 /\ fullSlots' = fullSlots - 1 /\ UNCHANGED emptySlots
  /\ Goto(t, "lock")
  /\ UNCHANGED <<mainVars, iter, reg, bufSize, mutex>>

Update(t) == /\ Lock(t, "lock", "load") \/ Load(t, "load") \/ Store(t)
             /\ UNCHANGED <<fullSlots, emptySlots>>

Unlock(t) ==
  /\ At(t, "stored")
  /\ mutex' = Nobody
  /\ Goto(t, "post")
  /\ UNCHANGED <<mainVars, iter, reg, bufSize, fullSlots, emptySlots>>

\* Mutant: a thread posts the semaphore it waited on.
SemPostOwn(t) ==
  /\ At(t, "post")
  /\ IF t \in Producers
       THEN emptySlots' = emptySlots + 1 /\ UNCHANGED fullSlots
       ELSE fullSlots' = fullSlots + 1 /\ UNCHANGED emptySlots
  /\ EndIteration(t)
  /\ UNCHANGED <<mainVars, reg, bufSize, mutex>>

\* sem_post, after the mutex is free again.
SemPost(t) ==
  /\ At(t, "post")
  /\ IF t \in Producers
       THEN fullSlots' = fullSlots + 1 /\ UNCHANGED emptySlots
       ELSE emptySlots' = emptySlots + 1 /\ UNCHANGED fullSlots
  /\ EndIteration(t)
  /\ UNCHANGED <<mainVars, reg, bufSize, mutex>>

Step(t) == SemWait(t) \/ Update(t) \/ Unlock(t) \/ SemPost(t)

Producer(p) == Step(p)
Consumer(c) == Step(c)

MainStep == Main /\ UNCHANGED <<fullSlots, emptySlots>>

Next == \/ MainStep
        \/ \E p \in Producers : Producer(p)
        \/ \E c \in Consumers : Consumer(c)
        \/ Gone /\ UNCHANGED vars

-----------------------------------------------------------------------------
TypeOK == /\ MainTypeOK
          /\ pc \in [Threads -> Labels]
          /\ fullSlots \in Nat
          /\ emptySlots \in Nat

Holding(t) == pc[t] \in {"load", "store", "stored"}

In(S, labels) == Cardinality({t \in S : pc[t] \in labels})

\* Threads past their sem_wait that have not updated bufSize yet.
Claiming(S) == In(S, {"lock", "load", "store"})

\* Threads that have updated bufSize and have not posted yet.
Announcing(S) == In(S, {"stored", "post"})

\* Every coke in the buffer, and every free place, is either announced by its
\* semaphore, or claimed by a thread that has not updated bufSize yet, or about
\* to be announced.  A post that came twice or never, or a sem_wait on the wrong
\* semaphore breaks the equations long before the buffer leaves its bounds.
SlotAccounting ==
  /\ bufSize = fullSlots + Claiming(Consumers) + Announcing(Producers)
  /\ Capacity - bufSize = emptySlots + Claiming(Producers) + Announcing(Consumers)

\* The counter is read and written under the mutex only: between its load and
\* its store a thread's register agrees with bufSize, so no update is lost.
NoLostUpdate == \A t \in Threads : /\ Holding(t) <=> mutex = t
                                   /\ pc[t] = "store" => reg[t] = bufSize

InBounds == bufSize \in 0..Capacity

\* The invariant that is inductive.
IInv == TypeOK /\ NoLostUpdate /\ SlotAccounting
=============================================================================
