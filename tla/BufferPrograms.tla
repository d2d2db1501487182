-------------------------- MODULE BufferPrograms --------------------------
(***************************************************************************)
(* BoundedBuffer-mutex.c and BoundedBuffer-semaphore.c side by side, and    *)
(* what both of them promise.  The semaphores belong to the second program  *)
(* and stay 0 in the first.                                                *)
(***************************************************************************)
EXTENDS BufferSemaphore

VARIABLE program   \* which of the two runs

Mutex == INSTANCE BufferMutex

allVars == <<vars, program>>

MutexStep(step) ==
  program = "mutex" /\ step /\ UNCHANGED <<fullSlots, emptySlots, program>>
SemaphoreStep(step) == program = "semaphore" /\ step /\ UNCHANGED program

EitherInit ==
  \/ program = "mutex" /\ Mutex!Init /\ fullSlots = 0 /\ emptySlots = 0
  \/ program = "semaphore" /\ Init

EitherNext == MutexStep(Mutex!Next) \/ SemaphoreStep(Next)

EitherSpec == EitherInit /\ [][EitherNext]_allVars

\* In the semaphore program every step is progress.  In the other one threads
\* spin: each is scheduled, and the mutex does not starve one of them for ever
\* in favour of another that spins on it.
EitherFairSpec ==
  /\ EitherSpec
  /\ WF_allVars(SemaphoreStep(Next))
  /\ WF_allVars(MutexStep(Mutex!Main))
  /\ \A t \in Threads : /\ WF_allVars(MutexStep(Mutex!Step(t)))
                        /\ SF_allVars(MutexStep(Mutex!TryLock(t)))

-----------------------------------------------------------------------------
\* BoundedBuffer-mutex.c keeps its check and its update in one critical section:
\* bufSize stays within its bounds, and what the check saw still holds at the
\* store, however the threads interleave.
ChecksHold == program = "mutex" => Mutex!IInv

\* BoundedBuffer-semaphore.c, which never tests bufSize, accounts for every coke
\* and every free place with its semaphores and the threads in between.
SlotsAddUp == program = "semaphore" => SlotAccounting

\* Either program implements the bounded buffer: each store is one put or one
\* take that the buffer allowed at that moment, everything else is invisible.
\* (The busy-waiting program has no place "post".)
Buffer == INSTANCE BoundedBuffer WITH size <- bufSize,
                                      count <- Count({"stored", "post"})
ImplementsBuffer == Buffer!Spec

\* With quotas that match, main gets past its joins (or fails to start).
Termination == <>Gone
=============================================================================
