--------------------------- MODULE DeadlockProofs ---------------------------
(***************************************************************************)
(* Theorems about Deadlock.tla for any number of threads, of resources,    *)
(* of resources needed by each thread, and of iterations.                  *)
(***************************************************************************)
EXTENDS Deadlock, WellFoundedInduction, TLAPS

USE DeadlockAssumption

LEMMA InitInvariant == Init => IInv
BY DEF Init, IInv, TypeOK, OrdersDrawn, MutexesHeld, Holds, Locked, Resources, Identity

\* The first Needed places of r are places of r.
LEMMA Places == \A n \in 0..(Needed - 1) : n \in Resources
BY DEF Resources

\* The loop of the Fisher-Yates algorithm keeps r a permutation.
LEMMA ShuffleInvariant ==
  ASSUME IInv, Shuffle
  PROVE  IInv'
<1> PICK n \in 0..i : r' = [r EXCEPT ![i] = r[n], ![n] = r[i]]
  BY DEF Shuffle
<1>1. i \in Resources /\ n \in Resources /\ i - 1 \in -1..(NumResources - 1)
  BY DEF IInv, TypeOK, Shuffle, Resources
<1>2. r \in [Resources -> Resources]
  BY DEF IInv, TypeOK
<1>3. /\ r' \in [Resources -> Resources]
      /\ \A m \in Resources : r'[m] = IF m = n THEN r[i] ELSE IF m = i THEN r[n] ELSE r[m]
  BY <1>1, <1>2
<1>4. TypeOK'
  BY <1>1, <1>3 DEF IInv, TypeOK, Shuffle, argVars, workVars
<1>5. OrdersDrawn'
  <2>1. \A k, m \in Resources : k # m => r'[k] # r'[m]
    BY <1>1, <1>3 DEF IInv, OrdersDrawn
  <2> QED
    BY <2>1 DEF IInv, OrdersDrawn, Shuffle, argVars, workVars
<1>6. MutexesHeld'
  BY DEF IInv, MutexesHeld, Holds, Locked, Shuffle, argVars, workVars
<1> QED
  BY <1>4, <1>5, <1>6 DEF IInv

\* An order drawn by SetOrder is a sequence of distinct resources.
LEMMA DrawnOrder ==
  ASSUME IInv, NEW order \in [1..Needed -> Picked], SetOrder(order)
  PROVE  /\ order \in [1..Needed -> Resources]
         /\ \A k, l \in 1..Needed : k < l =>
              order[k] # order[l] /\ (ifSortAccess => order[k] < order[l])
<1>1. r \in [Resources -> Resources]
  BY DEF IInv, TypeOK
<1>2. Picked \subseteq Resources
  BY <1>1, Places DEF Picked
<1>3. \A k \in 1..Needed : order[k] \in Resources
  BY <1>2
<1>4. CASE ifSortAccess
  <2>1. \A k \in 1..Needed : order[k] \in Int
    BY <1>3 DEF Resources
  <2>2. \A k, l \in 1..Needed : k < l => order[k] < order[l]
    BY <1>4 DEF SetOrder
  <2> QED
    BY <1>2, <2>1, <2>2
<1>5. CASE ~ifSortAccess
  <2>1. \A k \in 1..Needed : k - 1 \in Resources /\ order[k] = r[k - 1]
    BY <1>5 DEF SetOrder, Resources
  <2>2. \A k, l \in Resources : k # l => r[k] # r[l]
    BY DEF IInv, OrdersDrawn
  <2>3. \A k, l \in 1..Needed : k < l => k - 1 # l - 1
    OBVIOUS
  <2>4. \A k, l \in 1..Needed : k < l => order[k] # order[l]
    BY <2>1, <2>2, <2>3
  <2> QED
    BY <1>2, <1>5, <2>4
<1> QED
  BY <1>4, <1>5

LEMMA SetArgsInvariant ==
  ASSUME IInv, SetArgs
  PROVE  IInv'
<1> PICK t \in Threads \ ready, order \in [1..Needed -> Picked] :
      /\ ready' = ready \cup {t}
      /\ SetOrder(order)
      /\ resourceAccessOrder' = [resourceAccessOrder EXCEPT ![t] = order]
  BY DEF SetArgs
<1>1. r' \in [Resources -> Resources] /\ i' \in -1..(NumResources - 1)
  BY DEF SetArgs, Identity
<1>2. resourceAccessOrder' \in [Threads -> [1..Needed -> Resources]]
  BY DrawnOrder DEF IInv, TypeOK
<1>3. TypeOK'
  BY <1>1, <1>2 DEF IInv, TypeOK, SetArgs, argVars, workVars
<1>4. OrdersDrawn'
  <2>1. \A m, n \in Resources : m # n => r'[m] # r'[n]
    BY DEF SetArgs, Identity
  <2>2. \A u \in ready' : \A k, l \in 1..Needed : k < l =>
          /\ resourceAccessOrder'[u][k] # resourceAccessOrder'[u][l]
          /\ ifSortAccess => resourceAccessOrder'[u][k] < resourceAccessOrder'[u][l]
    <3>1. resourceAccessOrder'[t] = order
      BY DEF IInv, TypeOK
    <3>2. \A u \in ready : resourceAccessOrder'[u] = resourceAccessOrder[u]
      BY DEF IInv, TypeOK
    <3> QED
      BY <3>1, <3>2, DrawnOrder DEF IInv, OrdersDrawn
  <2>3. mainPc' # "shuffle" => ready' = Threads
    BY DEF SetArgs
  <2>4. started' = {} /\ ifSortAccess' = ifSortAccess
    BY DEF SetArgs, IInv, OrdersDrawn, argVars
  <2> QED
    BY <2>1, <2>2, <2>3, <2>4 DEF OrdersDrawn
<1>5. MutexesHeld'
  <2> SUFFICES ASSUME NEW u \in Threads
               PROVE  Holds(u)'
    BY DEF MutexesHeld
  <2>1. started = {} /\ pc[u] = "get" /\ j[u] = 0
    BY DEF SetArgs, IInv, TypeOK, OrdersDrawn, MutexesHeld, Holds
  <2> QED
    BY <2>1 DEF IInv, MutexesHeld, Holds, Locked, SetArgs, argVars, workVars
<1> QED
  BY <1>3, <1>4, <1>5 DEF IInv

LEMMA MainInvariant ==
  ASSUME IInv, main
  PROVE  IInv'
<1>1. CASE Shuffle
  BY <1>1, ShuffleInvariant
<1>2. CASE SetArgs
  BY <1>2, SetArgsInvariant
<1>3. CASE CreateThread
  BY <1>3 DEF CreateThread, IInv, TypeOK, OrdersDrawn, MutexesHeld, Holds, Locked,
              argVars, pickVars, workVars
<1>4. CASE CreateFails
  BY <1>4 DEF CreateFails, IInv, TypeOK, OrdersDrawn, MutexesHeld, Holds, Locked,
              argVars, pickVars, workVars
<1>5. CASE JoinAndExit
  BY <1>5 DEF JoinAndExit, IInv, TypeOK, OrdersDrawn, MutexesHeld, Holds, Locked,
              argVars, pickVars, workVars
<1> QED
  BY <1>1, <1>2, <1>3, <1>4, <1>5 DEF main

-----------------------------------------------------------------------------
\* A running thread has its order: distinct resources, ascending if sorted.
LEMMA OrderOf ==
  ASSUME IInv, NEW t \in started, ~Ended
  PROVE  /\ t \in Threads
         /\ resourceAccessOrder[t] \in [1..Needed -> Resources]
         /\ \A k, l \in 1..Needed : k < l =>
              /\ resourceAccessOrder[t][k] # resourceAccessOrder[t][l]
              /\ ifSortAccess => resourceAccessOrder[t][k] < resourceAccessOrder[t][l]
<1>1. t \in Threads /\ resourceAccessOrder[t] \in [1..Needed -> Resources]
  BY DEF IInv, TypeOK
<1>2. mainPc \in {"create", "join"}
  BY DEF IInv, TypeOK, OrdersDrawn, Ended
<1>3. t \in ready
  BY <1>1, <1>2 DEF IInv, OrdersDrawn
<1> QED
  BY <1>1, <1>3 DEF IInv, OrdersDrawn

\* Nothing that main set up changes in a step of a thread.
LEMMA OrdersKept ==
  ASSUME IInv, UNCHANGED <<argVars, mainPc, pickVars, started>>
  PROVE  OrdersDrawn'
BY DEF IInv, OrdersDrawn, argVars, pickVars

LEMMA WorkInvariant ==
  ASSUME IInv, NEW t \in Threads, workThread(t)
  PROVE  IInv'
<1> DEFINE order == resourceAccessOrder[t]
<1>0. /\ order \in [1..Needed -> Resources]
      /\ \A k, l \in 1..Needed : k < l => order[k] # order[l]
  BY OrderOf DEF workThread, LockResource, LockBig, ProcessResource, UnlockResource, UnlockBig, Move
<1>h. Holds(t) /\ \A u \in Threads : Holds(u)
  BY DEF IInv, MutexesHeld
<1>1. CASE LockResource(t)
  <2>1. Wanted(t) \in Resources /\ j[t] + 1 \in 1..Needed
    BY <1>0, <1>1, <1>h DEF Wanted, LockResource, Move, Holds, IInv, TypeOK
  <2>2. TypeOK'
    BY <1>1, <2>1 DEF LockResource, Move, argVars, pickVars, IInv, TypeOK
  <2>3. ASSUME NEW u \in Threads, u # t PROVE Holds(u)'
    BY <1>1, <1>h, <2>1, <2>3 DEF LockResource, Move, argVars, pickVars, IInv, TypeOK, Holds, Locked
  <2>4. Holds(t)'
    BY <1>0, <1>1, <1>h, <2>1 DEF LockResource, Move, Wanted, argVars, pickVars, IInv, TypeOK, Holds, Locked
  <2> QED
    BY <1>1, <2>2, <2>3, <2>4, OrdersKept DEF LockResource, IInv, MutexesHeld
<1>2. CASE LockBig(t)
  <2>2. TypeOK'
    BY <1>2 DEF LockBig, Move, argVars, pickVars, IInv, TypeOK
  <2>3. ASSUME NEW u \in Threads PROVE Holds(u)'
    BY <1>2, <1>h DEF LockBig, Move, argVars, pickVars, IInv, TypeOK, Holds, Locked
  <2> QED
    BY <1>2, <2>2, <2>3, OrdersKept DEF LockBig, IInv, MutexesHeld
<1>3. CASE ProcessResource(t)
  <2>1. j[t] \in 0..(Needed - 1)
    BY <1>3, <1>h DEF ProcessResource, Move, Holds, IInv, TypeOK
  <2>2. TypeOK'
    BY <1>3, <2>1 DEF ProcessResource, Move, argVars, pickVars, IInv, TypeOK
  <2>3. ASSUME NEW u \in Threads PROVE Holds(u)'
    <3>1. ~ifUseBigLock => Locked(u)' = Locked(u)
      BY <1>3, <2>1 DEF ProcessResource, Move, Locked, IInv, TypeOK
    <3>2. UNCHANGED <<ifUseBigLock, started, iter, owner, bigOwner, resourceAccessOrder>>
      BY <1>3 DEF ProcessResource, argVars, pickVars
    <3>3. \A n \in Resources : (owner[n] = u <=> /\ ~ifUseBigLock
                       /\ \E k \in 1..Locked(u) : resourceAccessOrder[u][k] = n)'
      BY <1>h, <3>1, <3>2 DEF Holds
    <3>4. CASE u = t
      <4>1. j'[t] = j[t] + 1 /\ (pc'[t] = "release" \/ j'[t] < Needed)
        BY <1>3, <2>1 DEF ProcessResource, Move, IInv, TypeOK
      <4>2. pc[t] = "process" /\ (pc'[t] = "get" => ~ifUseBigLock)
        BY <1>3, <2>1 DEF ProcessResource, Move, IInv, TypeOK
      <4>3. pc'[t] # "get" <=> pc'[t] \in {"release", "process"}
        BY <1>3 DEF ProcessResource, Move, IInv, TypeOK
      <4> QED
        BY <1>h, <2>1, <3>2, <3>3, <3>4, <4>1, <4>2, <4>3 DEF Holds
    <3>5. CASE u # t
      BY <1>3, <1>h, <3>2, <3>3, <3>5 DEF ProcessResource, Move, IInv, TypeOK, Holds
    <3> QED
      BY <3>4, <3>5
  <2> QED
    BY <1>3, <2>2, <2>3, OrdersKept DEF ProcessResource, IInv, MutexesHeld
<1>4. CASE UnlockResource(t)
  <2>1. j[t] \in 1..Needed /\ order[j[t]] \in Resources
    BY <1>0, <1>4, <1>h DEF UnlockResource, Move, Holds, IInv, TypeOK
  <2>2. TypeOK'
    BY <1>4, <1>h, <2>1 DEF UnlockResource, Move, EndIteration, argVars, pickVars, IInv, TypeOK, Holds
  <2>3. ASSUME NEW u \in Threads, u # t PROVE Holds(u)'
    <3>1. j[t] \in 1..Locked(t) /\ ~ifUseBigLock
      BY <1>4, <2>1 DEF UnlockResource, Move, Locked
    <3>2. owner[order[j[t]]] = t
      BY <1>h, <2>1, <3>1 DEF Holds
    <3>3. \A n \in Resources : owner'[n] = u <=> owner[n] = u
      BY <1>4, <2>1, <2>3, <3>2 DEF UnlockResource, IInv, TypeOK
    <3>4. /\ pc'[u] = pc[u] /\ j'[u] = j[u] /\ iter'[u] = iter[u]
          /\ UNCHANGED <<ifUseBigLock, started, bigOwner, resourceAccessOrder>>
      BY <1>4, <2>3 DEF UnlockResource, Move, EndIteration, argVars, pickVars, IInv, TypeOK
    <3> QED
      BY <1>h, <3>3, <3>4 DEF Holds, Locked
  <2>4. Holds(t)'
    BY <1>0, <1>4, <1>h, <2>1 DEF UnlockResource, Move, EndIteration, argVars, pickVars, IInv, TypeOK, Holds, Locked
  <2> QED
    BY <1>4, <2>2, <2>3, <2>4, OrdersKept DEF UnlockResource, IInv, MutexesHeld
<1>5. CASE UnlockBig(t)
  <2>2. TypeOK'
    BY <1>5, <1>h DEF UnlockBig, Move, EndIteration, argVars, pickVars, IInv, TypeOK, Holds
  <2>3. ASSUME NEW u \in Threads PROVE Holds(u)'
    BY <1>5, <1>h DEF UnlockBig, Move, EndIteration, argVars, pickVars, IInv, TypeOK, Holds, Locked
  <2> QED
    BY <1>5, <2>2, <2>3, OrdersKept DEF UnlockBig, IInv, MutexesHeld
<1> QED
  BY <1>1, <1>2, <1>3, <1>4, <1>5 DEF workThread

\* In every reachable state a thread holds exactly the first resources of its
\* order, as many as it has processed, and the one it processes.
THEOREM Invariant == Spec => []IInv
<1>1. IInv /\ [Next]_vars => IInv'
  <2> SUFFICES ASSUME IInv, [Next]_vars
               PROVE  IInv'
    OBVIOUS
  <2>1. CASE main
    BY <2>1, MainInvariant
  <2>2. CASE \E t \in Threads : workThread(t)
    BY <2>2, WorkInvariant
  <2>3. CASE UNCHANGED vars
    BY <2>3 DEF vars, argVars, pickVars, workVars, IInv, TypeOK, OrdersDrawn,
                MutexesHeld, Holds, Locked
  <2> QED
    BY <2>1, <2>2, <2>3 DEF Next
<1> QED
  BY InitInvariant, <1>1, PTL DEF Spec

-----------------------------------------------------------------------------
\* Two threads never process one resource at a time, in any of the three modes.
THEOREM Exclusion == Spec => []OneProcesses
<1>1. IInv => OneProcesses
  <2> SUFFICES ASSUME IInv, NEW n \in Resources, NEW t \in Threads, NEW u \in Threads,
                      Processing(t, n), Processing(u, n)
               PROVE  t = u
    BY DEF OneProcesses
  <2>1. Holds(t) /\ Holds(u)
    BY DEF IInv, MutexesHeld
  <2>2. CASE ifUseBigLock
    BY <2>1, <2>2 DEF Processing, Holds
  <2>3. CASE ~ifUseBigLock
    <3>1. ASSUME NEW v \in Threads, Holds(v), Processing(v, n)
          PROVE  owner[n] = v
      <4>1. j[v] + 1 \in 1..Locked(v) /\ resourceAccessOrder[v][j[v] + 1] = n
        BY <3>1 DEF Processing, Wanted, Locked, IInv, TypeOK
      <4> QED
        BY <2>3, <3>1, <4>1 DEF Holds
    <3> QED
      BY <2>1, <3>1
  <2> QED
    BY <2>2, <2>3
<1> QED
  BY <1>1, Invariant, PTL

\* A set of resources has a greatest one.
LEMMA Greatest ==
  ASSUME NEW W, W \subseteq Resources, W # {}
  PROVE  \E m \in W : \A n \in W : n <= m
<1> DEFINE below(n) == NumResources - 1 - n
           T == {below(n) : n \in W}
<1>1. \A n \in W : n \in Int /\ below(n) \in Nat
  BY DEF Resources
<1>2. T \subseteq Nat /\ T # {}
  BY <1>1
<1>3. PICK x \in T : \A y \in T : ~(<<y, x>> \in OpToRel(<, Nat))
  BY <1>2, WFMin, NatLessThanWellFounded
<1>4. \A y \in T : ~(y < x)
  BY <1>2, <1>3 DEF OpToRel
<1>5. PICK m \in W : x = below(m)
  OBVIOUS
<1>6. \A n \in W : ~(below(n) < below(m))
  BY <1>4, <1>5
<1> QED
  BY <1>1, <1>6

\* In ascending order a thread that waits for a waiting one wants less than it.
LEMMA WaitsUpward ==
  ASSUME IInv, ifSortAccess, NEW t \in Threads, NEW u \in Threads, NEW v \in Threads,
         WaitsFor(t, u), WaitsFor(u, v)
  PROVE  Wanted(t) \in Resources /\ Wanted(t) < Wanted(u)
<1>1. Holds(t) /\ Holds(u)
  BY DEF IInv, MutexesHeld
<1>2. Wanted(t) \in Resources
  BY <1>1 DEF Wanted, WaitsFor, Holds, IInv, TypeOK
<1>3. PICK k \in 1..j[u] : resourceAccessOrder[u][k] = Wanted(t)
  BY <1>1, <1>2 DEF WaitsFor, Holds, Locked, IInv, TypeOK
<1>4. j[u] + 1 \in 1..Needed /\ k \in 1..Needed /\ k < j[u] + 1
  BY <1>1 DEF WaitsFor, Holds, IInv, TypeOK
<1>5. u \in ready
  <2>1. u \in started
    BY <1>1, <1>3 DEF Holds, IInv, TypeOK
  <2> QED
    BY <2>1 DEF IInv, OrdersDrawn, TypeOK
<1> QED
  BY <1>2, <1>3, <1>4, <1>5 DEF Wanted, IInv, OrdersDrawn

\* With ascending orders, or with the big lock, threads never wait in a circle:
\* the one that wants most would wait for a thread that wants more.
THEOREM NoCircle == Spec => []NoCircularWait
<1>1. IInv => NoCircularWait
  <2> SUFFICES ASSUME IInv, ifSortAccess, NEW D \in SUBSET Threads, CircularWait(D)
               PROVE  FALSE
    BY DEF NoCircularWait, CircularWait, WaitsFor
  <2>1. \A t \in D : \E u \in D : WaitsFor(t, u)
    BY DEF CircularWait
  <2> DEFINE W == {Wanted(t) : t \in D}
  <2>2. W \subseteq Resources /\ W # {}
    BY <2>1, WaitsUpward DEF CircularWait
  <2>3. PICK t \in D : \A u \in D : Wanted(u) <= Wanted(t)
    <3>1. PICK m \in W : \A n \in W : n <= m
      BY <2>2, Greatest
    <3>2. PICK t \in D : m = Wanted(t)
      OBVIOUS
    <3> QED
      BY <3>1, <3>2
  <2>4. PICK u \in D : WaitsFor(t, u)
    BY <2>1
  <2>5. Wanted(t) < Wanted(u) /\ Wanted(u) <= Wanted(t)
    BY <2>1, <2>3, <2>4, WaitsUpward
  <2>6. Wanted(t) \in Int /\ Wanted(u) \in Int
    BY <2>2 DEF Resources
  <2> QED
    BY <2>5, <2>6
<1> QED
  BY <1>1, Invariant, PTL

-----------------------------------------------------------------------------
\* t waits for the mutex of a resource, or for bigMutex.
Waiting(t) ==
  \/ \E u \in Threads : WaitsFor(t, u)
  \/ ifUseBigLock /\ pc[t] = "get" /\ iter[t] < Iterations /\ bigOwner # Nobody

NoOneRuns == \A t \in Threads : Finished(t) \/ Waiting(t)

AllFinished == \A t \in Threads : Finished(t)

\* Who waits is not finished, and waits for one that is not finished either.
LEMMA WaitedForNotFinished ==
  ASSUME IInv, NEW t \in Threads, NEW u \in Threads, WaitsFor(t, u)
  PROVE  iter[t] < Iterations /\ iter[u] < Iterations /\ ~Finished(u)
<1>1. Holds(t) /\ Holds(u)
  BY DEF IInv, MutexesHeld
<1>2. Wanted(t) \in Resources
  BY <1>1 DEF Wanted, WaitsFor, Holds, IInv, TypeOK
<1>3. PICK k \in 1..Locked(u) : resourceAccessOrder[u][k] = Wanted(t)
  BY <1>1, <1>2 DEF WaitsFor, Holds
<1>4. pc[u] # "get" \/ j[u] > 0
  BY <1>3 DEF Locked, IInv, TypeOK
<1>5. iter[u] < Iterations /\ iter[u] # Iterations
  BY <1>1, <1>4 DEF Holds, IInv, TypeOK
<1> QED
  BY <1>5 DEF WaitsFor, Finished

\* When every thread has finished or waits, then all have finished, or some wait in a
\* circle, with neither ifSortAccess nor ifUseBigLock: a circle is the only deadlock that
\* Deadlock.c shows, and either switch prevents it, for any number of threads and resources.
THEOREM OnlyCirclesStop ==
  Spec => [](NoOneRuns => \/ AllFinished
                          \/ /\ ~ifSortAccess /\ ~ifUseBigLock
                             /\ \E D \in SUBSET Threads : CircularWait(D))
<1>1. IInv /\ NoCircularWait /\ NoOneRuns =>
        \/ AllFinished
        \/ ~ifSortAccess /\ ~ifUseBigLock /\ \E D \in SUBSET Threads : CircularWait(D)
  <2> SUFFICES ASSUME IInv, NoCircularWait, NoOneRuns, NEW t \in Threads, ~Finished(t)
               PROVE  /\ ~ifSortAccess /\ ~ifUseBigLock
                      /\ \E D \in SUBSET Threads : CircularWait(D)
    BY DEF AllFinished
  <2>1. ~ifUseBigLock
    <3> SUFFICES ASSUME ifUseBigLock
                 PROVE  FALSE
      OBVIOUS
    <3>1. bigOwner \in Threads
      BY DEF NoOneRuns, Waiting, WaitsFor, IInv, TypeOK
    <3>2. pc[bigOwner] # "get" /\ iter[bigOwner] < Iterations
      BY <3>1 DEF IInv, MutexesHeld, Holds
    <3>3. iter[bigOwner] # Iterations
      BY <3>1, <3>2 DEF IInv, TypeOK
    <3> QED
      BY <3>1, <3>2, <3>3 DEF NoOneRuns, Waiting, WaitsFor, Finished
  <2> DEFINE D == {u \in Threads : ~Finished(u)}
  <2>2. ASSUME NEW u \in D
        PROVE  \E v \in D : WaitsFor(u, v)
    <3>1. PICK v \in Threads : WaitsFor(u, v)
      BY <2>1 DEF NoOneRuns, Waiting
    <3> QED
      BY <3>1, WaitedForNotFinished
  <2>3. CircularWait(D)
    BY <2>2 DEF CircularWait
  <2> QED
    BY <2>1, <2>3 DEF NoCircularWait
<1> QED
  BY <1>1, Invariant, NoCircle, PTL
=============================================================================
