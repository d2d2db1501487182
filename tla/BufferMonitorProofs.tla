------------------------ MODULE BufferMonitorProofs ------------------------
(***************************************************************************)
(* Theorems about BufferMonitor.tla for any number of threads, any         *)
(* capacity, any number of cokes and any number of spurious wakeups.       *)
(***************************************************************************)
EXTENDS BufferMonitor, TLAPS

USE BufferAssumption, MonitorAssumption DEF Threads

\* main never touches what belongs to the threads.
LEMMA MainSteps ==
  ASSUME MainTypeOK, Main \/ UNCHANGED baseVars
  PROVE  MainTypeOK' /\ UNCHANGED <<pc, iter, reg, bufSize, mutex>>
<1> USE DEF MainTypeOK
<1>1. CASE CreateThread
  BY <1>1 DEF CreateThread
<1>2. CASE CreateFails
  BY <1>2 DEF CreateFails
<1>3. CASE JoinAndExit
  BY <1>3 DEF JoinAndExit
<1>4. CASE UNCHANGED baseVars
  BY <1>4 DEF baseVars, mainVars
<1> QED
  BY <1>1, <1>2, <1>3, <1>4 DEF Main

\* A thread that passes its store adds one to its own count.
LEMMA CountGrows ==
  ASSUME NEW CONSTANT past, NEW CONSTANT l \in past,
         NEW CONSTANT t \in Threads, NEW CONSTANT Labs,
         iter \in [Threads -> Nat], pc \in [Threads -> Labs], pc[t] \notin past,
         Goto(t, l), UNCHANGED iter
  PROVE  Count(past)' = [Count(past) EXCEPT ![t] = @ + 1]
<1> DEFINE count == Count(past)
<1>1. \A u \in Threads : pc'[u] = IF u = t THEN l ELSE pc[u]
  BY DEF Goto
<1>2. \A u \in Threads : count'[u] = IF u = t THEN count[u] + 1 ELSE count[u]
  BY <1>1 DEF Count
<1>3. /\ count = [u \in Threads |-> count[u]]
      /\ count' = [u \in Threads |-> count'[u]]
  BY DEF Count
<1> HIDE DEF count
<1>4. count' = [count EXCEPT ![t] = @ + 1]
  BY <1>2, <1>3
<1> QED
  BY <1>4 DEF count

LEMMA InitInvariant == Init => IInv
BY DEF Init, InitMain, IInv, TypeOK, MainTypeOK, Labels, CheckStillHolds,
       Holding, NoLostWakeup

LEMMA MainInvariant ==
  ASSUME IInv, MainStep \/ UNCHANGED vars
  PROVE  IInv'
<1>1. MainTypeOK' /\ UNCHANGED <<pc, iter, reg, bufSize, mutex>>
  BY MainSteps DEF MainStep, vars, IInv, TypeOK
<1>2. UNCHANGED spurious
  BY DEF MainStep, vars
<1> QED
  BY <1>1, <1>2 DEF IInv, TypeOK, CheckStillHolds, Holding, NoLostWakeup,
                    Blocked, OtherSide

\* A step moves the thread that takes it and no other, except that a broadcast
\* wakes the waiting threads of the other side.
LEMMA StepInvariant ==
  ASSUME IInv, NEW t \in Threads, Step(t)
  PROVE  IInv'
<1> USE DEF IInv, At, mainVars
<1>1. CASE Enter(t)
  <2> USE <1>1 DEF Enter, Lock
  <2>1. TypeOK'
    BY DEF CheckStillHolds, Blocked, TypeOK, MainTypeOK, Labels, Goto
  <2>2. CheckStillHolds'
    BY DEF CheckStillHolds, Holding, Blocked, TypeOK, MainTypeOK, Goto
  <2>3. NoLostWakeup'
    BY DEF NoLostWakeup, CheckStillHolds, Holding, Blocked, OtherSide, TypeOK, MainTypeOK, Goto
  <2> QED
    BY <2>1, <2>2, <2>3
<1>2. CASE CondWait(t)
  <2> USE <1>2 DEF CondWait
  <2>1. TypeOK'
    BY DEF CheckStillHolds, Blocked, TypeOK, MainTypeOK, Labels, Goto
  <2>2. CheckStillHolds'
    BY DEF CheckStillHolds, Holding, Blocked, TypeOK, MainTypeOK, Goto
  <2>3. NoLostWakeup'
    BY DEF NoLostWakeup, CheckStillHolds, Holding, Blocked, OtherSide, TypeOK, MainTypeOK, Goto
  <2> QED
    BY <2>1, <2>2, <2>3
<1>3. CASE SpuriousWakeup(t)
  <2> USE <1>3 DEF SpuriousWakeup
  <2>1. TypeOK'
    BY DEF CheckStillHolds, Blocked, TypeOK, MainTypeOK, Labels, Goto
  <2>2. CheckStillHolds'
    BY DEF CheckStillHolds, Holding, Blocked, TypeOK, MainTypeOK, Goto
  <2>3. NoLostWakeup'
    BY DEF NoLostWakeup, CheckStillHolds, Holding, Blocked, OtherSide, TypeOK, MainTypeOK, Goto
  <2> QED
    BY <2>1, <2>2, <2>3
<1>4. CASE Return(t)
  <2> USE <1>4 DEF Return, Lock
  <2>1. TypeOK'
    BY DEF CheckStillHolds, Blocked, TypeOK, MainTypeOK, Labels, Goto
  <2>2. CheckStillHolds'
    BY DEF CheckStillHolds, Holding, Blocked, TypeOK, MainTypeOK, Goto
  <2>3. NoLostWakeup'
    BY DEF NoLostWakeup, CheckStillHolds, Holding, Blocked, OtherSide, TypeOK, MainTypeOK, Goto
  <2> QED
    BY <2>1, <2>2, <2>3
<1>5. CASE ~Blocked(t) /\ Load(t, "load") /\ UNCHANGED spurious
  <2> USE <1>5 DEF Load
  <2>1. TypeOK'
    BY DEF CheckStillHolds, Blocked, TypeOK, MainTypeOK, Labels, Goto
  <2>2. CheckStillHolds'
    BY DEF CheckStillHolds, Holding, Blocked, TypeOK, MainTypeOK, Goto
  <2>3. NoLostWakeup'
    BY DEF NoLostWakeup, CheckStillHolds, Holding, Blocked, OtherSide, TypeOK, MainTypeOK, Goto
  <2> QED
    BY <2>1, <2>2, <2>3
<1>6. CASE Store(t) /\ UNCHANGED spurious
  <2> USE <1>6 DEF Store, Delta
  <2>1. TypeOK'
    BY DEF CheckStillHolds, Blocked, TypeOK, MainTypeOK, Labels, Goto
  <2>2. CheckStillHolds'
    BY DEF CheckStillHolds, Holding, Blocked, TypeOK, MainTypeOK, Goto
  <2>3. NoLostWakeup'
    BY DEF NoLostWakeup, CheckStillHolds, Holding, Blocked, OtherSide, TypeOK, MainTypeOK, Goto
  <2> QED
    BY <2>1, <2>2, <2>3
<1>7. CASE Broadcast(t)
  <2> USE <1>7 DEF Broadcast
  <2>1. TypeOK'
    BY DEF CheckStillHolds, Blocked, TypeOK, MainTypeOK, Labels
  <2>2. CheckStillHolds'
    BY DEF CheckStillHolds, Holding, Blocked, TypeOK, MainTypeOK
  <2>3. NoLostWakeup'
    BY DEF NoLostWakeup, CheckStillHolds, Holding, Blocked, OtherSide, TypeOK, MainTypeOK
  <2> QED
    BY <2>1, <2>2, <2>3
<1>8. CASE Unlock(t)
  <2> USE <1>8 DEF Unlock, EndIteration
  <2>1. TypeOK'
    BY DEF CheckStillHolds, Blocked, TypeOK, MainTypeOK, Labels, Goto
  <2>2. CheckStillHolds'
    BY DEF CheckStillHolds, Holding, Blocked, TypeOK, MainTypeOK, Goto
  <2>3. NoLostWakeup'
    BY DEF NoLostWakeup, CheckStillHolds, Holding, Blocked, OtherSide, TypeOK, MainTypeOK, Goto
  <2> QED
    BY <2>1, <2>2, <2>3
<1> QED
  BY <1>1, <1>2, <1>3, <1>4, <1>5, <1>6, <1>7, <1>8 DEF Step, Update

\* No lost wakeup, and the check a thread made still holds when it stores, in
\* every state of every execution of BoundedBuffer-monitor.c.
THEOREM Invariant == Spec => []IInv
<1>1. IInv /\ [Next]_vars => IInv'
  BY MainInvariant, StepInvariant DEF Next, Producer, Consumer
<1> QED
  BY <1>1, InitInvariant, PTL DEF Spec

THEOREM NoWakeupIsLost == Spec => []NoLostWakeup
BY Invariant, PTL DEF IInv

-----------------------------------------------------------------------------
\* A step of a thread is a put, a take, or invisible to the bounded buffer.
LEMMA StepRefines ==
  ASSUME IInv, IInv', NEW t \in Threads, Step(t)
  PROVE  [Buffer!Next]_<<bufSize, Count({"stored", "unlock"})>>
<1> DEFINE count == Count({"stored", "unlock"})
<1> USE DEF IInv, TypeOK, MainTypeOK
<1>1. CASE Store(t)
  <2>1. bufSize' = bufSize + Delta(t)
    BY <1>1 DEF Store, At, CheckStillHolds
  <2>2. count' = [count EXCEPT ![t] = @ + 1]
    <3>1. UNCHANGED iter /\ Goto(t, "stored") /\ pc[t] = "store"
      BY <1>1 DEF Store, At
    <3> QED
      BY <3>1, CountGrows
  <2>3. CASE t \in Producers
    <3>1. Buffer!Produce(t)
      BY <2>1, <2>2, <2>3 DEF Delta, Buffer!Produce, Buffer!Counted
    <3> QED
      BY <2>3, <3>1 DEF Buffer!Next
  <2>4. CASE t \in Consumers
    <3>1. Buffer!Consume(t)
      BY <2>1, <2>2, <2>4 DEF Delta, Buffer!Consume, Buffer!Counted
    <3> QED
      BY <2>4, <3>1 DEF Buffer!Next
  <2> QED
    BY <2>3, <2>4
<1>2. CASE \/ Enter(t) \/ CondWait(t) \/ SpuriousWakeup(t) \/ Return(t)
           \/ Load(t, "load") \/ Broadcast(t) \/ Unlock(t)
  <2>1. bufSize' = bufSize
    BY <1>2 DEF Enter, CondWait, SpuriousWakeup, Return, Lock, Load, Broadcast, Unlock
  <2>2. count' = count
    BY <1>2 DEF Enter, CondWait, SpuriousWakeup, Return, Lock, Load, Broadcast,
                Unlock, EndIteration, At, Goto, Count, Labels
  <2> QED
    BY <2>1, <2>2
<1> QED
  BY <1>1, <1>2 DEF Step, Update

\* BoundedBuffer-monitor.c implements the abstract bounded buffer.
THEOREM Refinement == Spec => ImplementsBuffer
<1>1. Init => Buffer!Init
  BY DEF Init, InitMain, Buffer!Init, Count
<1>2. IInv /\ IInv' /\ [Next]_vars => [Buffer!Next]_<<bufSize, Count({"stored", "unlock"})>>
  <2> SUFFICES ASSUME IInv, IInv', [Next]_vars
               PROVE  [Buffer!Next]_<<bufSize, Count({"stored", "unlock"})>>
    OBVIOUS
  <2>1. CASE MainStep \/ UNCHANGED vars
    BY <2>1 DEF MainStep, Main, CreateThread, CreateFails, JoinAndExit, vars, baseVars, Count
  <2>2. ASSUME NEW t \in Threads, Step(t)
        PROVE  [Buffer!Next]_<<bufSize, Count({"stored", "unlock"})>>
    BY <2>2, StepRefines
  <2> QED
    BY <2>1, <2>2 DEF Next, Producer, Consumer
<1> QED
  BY <1>1, <1>2, Invariant, PTL DEF Spec, ImplementsBuffer, Buffer!Spec, Buffer!vars
=============================================================================
