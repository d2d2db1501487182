--------------------------- MODULE BufferMonitor ---------------------------
(***************************************************************************)
(* chapter4/BoundedBuffer-monitor.c: a mutex and two condition variables.   *)
(* A blocked thread waits on cndFull (producers) or cndEmpty (consumers),  *)
(* which releases the mutex; after its update a thread broadcasts to the   *)
(* other side, then unlocks.  A woken thread must get the mutex again and  *)
(* rechecks the condition (while).  POSIX lets pthread_cond_wait return    *)
(* without a broadcast; MaxSpurious bounds how often that happens.         *)
(***************************************************************************)
EXTENDS BufferMain

CONSTANT MaxSpurious   \* bound on the spurious wakeups of a run

ASSUME MonitorAssumption == MaxSpurious \in Nat

VARIABLE spurious   \* the spurious wakeups so far

vars == <<baseVars, spurious>>

Labels == {"loop", "load", "waiting", "woken", "store", "stored", "unlock"}

Init == InitMain /\ spurious = 0

Enter(t) == /\ iter[t] < Quota(t)
            /\ Lock(t, "loop", "load")
            /\ UNCHANGED spurious

\* pthread_cond_wait releases the mutex and starts to wait in one step.
CondWait(t) ==
  /\ At(t, "load")
  /\ Blocked(t)
  /\ mutex' = Nobody
  /\ Goto(t, "waiting")
  /\ UNCHANGED <<mainVars, iter, reg, bufSize, spurious>>

SpuriousWakeup(t) ==
  /\ At(t, "waiting")
  /\ spurious < MaxSpurious
  /\ spurious' = spurious + 1
  /\ Goto(t, "woken")
  /\ UNCHANGED <<mainVars, iter, reg, bufSize, mutex>>

\* pthread_cond_wait returns with the mutex, and the while tests again.
Return(t) == Lock(t, "woken", "load") /\ UNCHANGED spurious

Update(t) == /\ (~Blocked(t) /\ Load(t, "load")) \/ Store(t)
             /\ UNCHANGED spurious

OtherSide(t) == IF t \in Producers THEN Consumers ELSE Producers

\* Mutant: cndFull and cndEmpty are swapped in the broadcast.
BroadcastOwnSide(t) ==
  /\ At(t, "stored")
  /\ pc' = [u \in Threads |->
              IF u = t THEN "unlock"
              ELSE IF u \notin OtherSide(t) /\ pc[u] = "waiting" THEN "woken"
              ELSE pc[u]]
  /\ UNCHANGED <<mainVars, iter, reg, bufSize, mutex, spurious>>

\* Wakes every thread that waits on the other side's condition.
Broadcast(t) ==
  /\ At(t, "stored")
  /\ pc' = [u \in Threads |->
              IF u = t THEN "unlock"
              ELSE IF u \in OtherSide(t) /\ pc[u] = "waiting" THEN "woken"
              ELSE pc[u]]
  /\ UNCHANGED <<mainVars, iter, reg, bufSize, mutex, spurious>>

Unlock(t) ==
  /\ At(t, "unlock")
  /\ mutex' = Nobody
  /\ EndIteration(t)
  /\ UNCHANGED <<mainVars, reg, bufSize, spurious>>

Step(t) == \/ Enter(t) \/ CondWait(t) \/ SpuriousWakeup(t) \/ Return(t)
           \/ Update(t) \/ Broadcast(t) \/ Unlock(t)

Producer(p) == Step(p)
Consumer(c) == Step(c)

MainStep == Main /\ UNCHANGED spurious

Next == \/ MainStep
        \/ \E p \in Producers : Producer(p)
        \/ \E c \in Consumers : Consumer(c)
        \/ Gone /\ UNCHANGED vars

Spec == Init /\ [][Next]_vars

\* The scheduler runs some runnable thread as long as there is one.
FairSpec == Spec /\ WF_vars(Next)

-----------------------------------------------------------------------------
TypeOK == /\ MainTypeOK
          /\ pc \in [Threads -> Labels]
          /\ bufSize \in 0..Capacity
          /\ spurious \in 0..MaxSpurious

Holding(t) == pc[t] \in {"load", "store", "stored", "unlock"}

CheckStillHolds == \A t \in Threads : /\ Holding(t) <=> mutex = t
                                      /\ pc[t] = "store" => /\ reg[t] = bufSize
                                                            /\ ~Blocked(t)

\* A thread waits only while it is blocked, or while a thread of the other side
\* has changed bufSize and is about to broadcast: no wakeup is lost between the
\* test of the condition and the wait.
NoLostWakeup ==
  \A t \in Threads : pc[t] = "waiting" =>
    \/ Blocked(t)
    \/ \E u \in OtherSide(t) : pc[u] = "stored"

\* The invariant that is inductive.
IInv == TypeOK /\ CheckStillHolds /\ NoLostWakeup

\* The program implements the bounded buffer.
Buffer == INSTANCE BoundedBuffer WITH size <- bufSize,
                                      count <- Count({"stored", "unlock"})
ImplementsBuffer == Buffer!Spec

\* No wakeup is lost for ever: the program ends, or the division of TEST_COKE_NUM
\* leaves one side with more iterations than the other can match.
EndsOrStarves == <>(Gone \/ SupplyMismatch)
=============================================================================
