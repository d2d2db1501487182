------------------------------ MODULE Deadlock ------------------------------
(***************************************************************************)
(* chapter4/Deadlock.c: every thread needs some resources, all at once.    *)
(* main draws them at random for each thread; the thread locks them in the *)
(* order drawn, or in ascending order (ifSortAccess), or takes one big     *)
(* lock instead (ifUseBigLock), processes each, and unlocks in reverse.    *)
(***************************************************************************)
EXTENDS Integers, FiniteSets

CONSTANTS Threads,      \* numOfWorkerThread threads
          NumResources, \* totalResourceNum
          Needed,       \* resourceNeededPerThread
          Iterations,   \* ITERATION_PER_THREAD
          Nobody        \* the owner of a free mutex

ASSUME DeadlockAssumption ==
  /\ IsFiniteSet(Threads) /\ Threads # {}
  /\ Nobody \notin Threads
  /\ NumResources \in Nat
  /\ Needed \in 1..NumResources   \* more are read from beyond the array r
  /\ Iterations \in Nat

Resources == 0..(NumResources - 1)

VARIABLES
  ifUseBigLock, ifSortAccess,   \* the two switches of the command line
  mainPc,   \* where main is
  r, i,     \* the array and the loop variable of pickKDifferentIntLessThanN
  resourceAccessOrder,   \* per thread, 1..Needed to its resources
  ready,    \* the threads whose arguments are set
  started,  \* the threads created
  pc,       \* where each thread is
  iter,     \* the iterations it has completed
  j,        \* the resources it has processed and not unlocked in this one
  owner,    \* the owner of each resource's mutex
  bigOwner  \* the owner of bigMutex

argVars == <<ifUseBigLock, ifSortAccess>>
pickVars == <<r, i, resourceAccessOrder, ready>>
workVars == <<pc, iter, j, owner, bigOwner>>
vars == <<argVars, mainPc, pickVars, started, workVars>>

Identity == [n \in Resources |-> n]

Init ==
  /\ ifUseBigLock \in BOOLEAN /\ ifSortAccess \in BOOLEAN
  /\ mainPc = "shuffle"
  /\ r = Identity /\ i = NumResources - 1
  /\ resourceAccessOrder = [t \in Threads |-> [k \in 1..Needed |-> 0]]
  /\ ready = {} /\ started = {}
  /\ pc = [t \in Threads |-> "get"]
  /\ iter = [t \in Threads |-> 0]
  /\ j = [t \in Threads |-> 0]
  /\ owner = [n \in Resources |-> Nobody]
  /\ bigOwner = Nobody

-----------------------------------------------------------------------------
(* main *)

\* One step of the Fisher-Yates shuffle: r[i] changes places with a random one.
Shuffle ==
  /\ mainPc = "shuffle"
  /\ i >= 0
  /\ \E n \in 0..i : r' = [r EXCEPT ![i] = r[n], ![n] = r[i]]
  /\ i' = i - 1
  /\ UNCHANGED <<argVars, mainPc, resourceAccessOrder, ready, started, workVars>>

Picked == {r[n] : n \in 0..(Needed - 1)}

\* Mutant: the order drawn is used even with ifSortAccess.
SetOrderUnsorted(order) == \A k \in 1..Needed : order[k] = r[k - 1]

\* resourceAccessOrder: the first Needed elements of r, by qsort in ascending
\* order with ifSortAccess.
SetOrder(order) ==
  IF ifSortAccess THEN /\ {order[k] : k \in 1..Needed} = Picked
                       /\ \A k, l \in 1..Needed : k < l => order[k] < order[l]
                  ELSE \A k \in 1..Needed : order[k] = r[k - 1]

\* The arguments of the next thread are set, and the shuffle begins anew.
SetArgs ==
  /\ mainPc = "shuffle"
  /\ i < 0
  /\ \E t \in Threads \ ready :
       /\ ready' = ready \cup {t}
       /\ \E order \in [1..Needed -> Picked] :
            /\ SetOrder(order)
            /\ resourceAccessOrder' = [resourceAccessOrder EXCEPT ![t] = order]
  /\ r' = Identity /\ i' = NumResources - 1
  /\ mainPc' = IF ready' = Threads THEN "create" ELSE "shuffle"
  /\ UNCHANGED <<argVars, started, workVars>>

CreateThread ==
  /\ mainPc = "create"
  /\ \E t \in Threads \ started : started' = started \cup {t}
  /\ mainPc' = IF started' = Threads THEN "join" ELSE "create"
  /\ UNCHANGED <<argVars, pickVars, workVars>>

CreateFails ==
  /\ mainPc = "create"
  /\ mainPc' = "failed"
  /\ UNCHANGED <<argVars, pickVars, started, workVars>>

Finished(t) == t \in started /\ iter[t] = Iterations

\* Every join returns; the mutexes are destroyed.
JoinAndExit ==
  /\ mainPc = "join"
  /\ \A t \in Threads : Finished(t)
  /\ mainPc' = "done"
  /\ UNCHANGED <<argVars, pickVars, started, workVars>>

main == Shuffle \/ SetArgs \/ CreateThread \/ CreateFails \/ JoinAndExit

Ended == mainPc \in {"done", "failed"}

-----------------------------------------------------------------------------
(* workThread *)

Move(t, from, to) ==
  ~Ended /\ t \in started /\ pc[t] = from /\ pc' = [pc EXCEPT ![t] = to]

\* The resource that t locks or processes next.
Wanted(t) == resourceAccessOrder[t][j[t] + 1]

EndIteration(t) == iter' = [iter EXCEPT ![t] = @ + 1]

LockResource(t) ==
  /\ ~ifUseBigLock
  /\ iter[t] < Iterations
  /\ Move(t, "get", "process")
  /\ owner[Wanted(t)] = Nobody
  /\ owner' = [owner EXCEPT ![Wanted(t)] = t]
  /\ UNCHANGED <<argVars, mainPc, pickVars, started, iter, j, bigOwner>>

\* Mutant: bigMutex does not exclude.
LockBigNot(t) ==
  /\ ifUseBigLock
  /\ iter[t] < Iterations
  /\ Move(t, "get", "process")
  /\ bigOwner' = t
  /\ UNCHANGED <<argVars, mainPc, pickVars, started, iter, j, owner>>

LockBig(t) ==
  /\ ifUseBigLock
  /\ iter[t] < Iterations
  /\ Move(t, "get", "process")
  /\ bigOwner = Nobody
  /\ bigOwner' = t
  /\ UNCHANGED <<argVars, mainPc, pickVars, started, iter, j, owner>>

\* processResource, and on to the next resource or to the unlocks.
ProcessResource(t) ==
  /\ Move(t, "process", IF j[t] + 1 = Needed THEN "release"
                        ELSE IF ifUseBigLock THEN "process" ELSE "get")
  /\ j' = [j EXCEPT ![t] = @ + 1]
  /\ UNCHANGED <<argVars, mainPc, pickVars, started, iter, owner, bigOwner>>

\* Mutant: the loop of the unlocks ends at j>0.
UnlockAllButFirst(t) ==
  /\ ~ifUseBigLock
  /\ Move(t, "release", IF j[t] = 1 THEN "get" ELSE "release")
  /\ owner' = IF j[t] = 1 THEN owner
              ELSE [owner EXCEPT ![resourceAccessOrder[t][j[t]]] = Nobody]
  /\ j' = [j EXCEPT ![t] = @ - 1]
  /\ IF j[t] = 1 THEN EndIteration(t) ELSE UNCHANGED iter
  /\ UNCHANGED <<argVars, mainPc, pickVars, started, bigOwner>>

\* One step of the loop of the unlocks, from the last resource to the first.
UnlockResource(t) ==
  /\ ~ifUseBigLock
  /\ Move(t, "release", IF j[t] = 1 THEN "get" ELSE "release")
  /\ owner' = [owner EXCEPT ![resourceAccessOrder[t][j[t]]] = Nobody]
  /\ j' = [j EXCEPT ![t] = @ - 1]
  /\ IF j[t] = 1 THEN EndIteration(t) ELSE UNCHANGED iter
  /\ UNCHANGED <<argVars, mainPc, pickVars, started, bigOwner>>

UnlockBig(t) ==
  /\ ifUseBigLock
  /\ Move(t, "release", "get")
  /\ bigOwner' = Nobody
  /\ j' = [j EXCEPT ![t] = 0]
  /\ EndIteration(t)
  /\ UNCHANGED <<argVars, mainPc, pickVars, started, owner>>

workThread(t) == \/ LockResource(t) \/ LockBig(t) \/ ProcessResource(t)
                 \/ UnlockResource(t) \/ UnlockBig(t)

Next == \/ main
        \/ \E t \in Threads : workThread(t)
        \/ Ended /\ UNCHANGED vars

Spec == Init /\ [][Next]_vars

\* The scheduler runs some runnable thread as long as there is one.
FairSpec == Spec /\ WF_vars(Next)

-----------------------------------------------------------------------------
TypeOK ==
  /\ ifUseBigLock \in BOOLEAN /\ ifSortAccess \in BOOLEAN
  /\ mainPc \in {"shuffle", "create", "join", "done", "failed"}
  /\ r \in [Resources -> Resources] /\ i \in -1..(NumResources - 1)
  /\ resourceAccessOrder \in [Threads -> [1..Needed -> Resources]]
  /\ ready \subseteq Threads /\ started \subseteq Threads
  /\ pc \in [Threads -> {"get", "process", "release"}]
  /\ iter \in [Threads -> 0..Iterations]
  /\ j \in [Threads -> 0..Needed]
  /\ owner \in [Resources -> Threads \cup {Nobody}]
  /\ bigOwner \in Threads \cup {Nobody}

\* The resources whose mutex t holds are the first ones of its order.
Locked(t) == j[t] + IF pc[t] = "process" THEN 1 ELSE 0

\* The orders are drawn without repetition, and are ascending with ifSortAccess.
OrdersDrawn ==
  /\ \A m, n \in Resources : m # n => r[m] # r[n]
  /\ \A t \in ready : \A k, l \in 1..Needed : k < l =>
       LET order == resourceAccessOrder[t]
       IN  order[k] # order[l] /\ (ifSortAccess => order[k] < order[l])
  /\ mainPc # "shuffle" => ready = Threads
  /\ mainPc = "shuffle" => started = {}

\* Where t is says which mutexes it holds.
Holds(t) ==
  /\ pc[t] = "get" => j[t] < Needed /\ (ifUseBigLock => j[t] = 0)
  /\ pc[t] = "process" => j[t] < Needed
  /\ pc[t] = "release" => j[t] > 0
  /\ pc[t] # "get" \/ j[t] > 0 => t \in started /\ iter[t] < Iterations
  /\ bigOwner = t <=> ifUseBigLock /\ pc[t] # "get"
  /\ \A n \in Resources :
       owner[n] = t <=> /\ ~ifUseBigLock
                        /\ \E k \in 1..Locked(t) : resourceAccessOrder[t][k] = n

MutexesHeld == \A t \in Threads : Holds(t)

\* The invariant that is inductive.
IInv == TypeOK /\ OrdersDrawn /\ MutexesHeld

\* No resource is processed by two threads at a time, in any of the modes.
Processing(t, n) == pc[t] = "process" /\ Wanted(t) = n

OneProcesses ==
  \A n \in Resources, t, u \in Threads : Processing(t, n) /\ Processing(u, n) => t = u

\* t waits for a mutex that u holds.
WaitsFor(t, u) ==
  /\ pc[t] = "get" /\ iter[t] < Iterations
  /\ ~ifUseBigLock /\ owner[Wanted(t)] = u

CircularWait(D) == D # {} /\ \A t \in D : \E u \in D : WaitsFor(t, u)

\* In ascending order, or with the big lock, threads never wait in a circle.
NoCircularWait ==
  ifSortAccess \/ ifUseBigLock => \A D \in SUBSET Threads : ~CircularWait(D)

\* If the program stops before its end, then because threads wait in a circle,
\* and neither ifSortAccess nor ifUseBigLock is set.
StuckOnlyInCircle ==
  mainPc = "join" /\ ~ENABLED Next =>
    ~ifSortAccess /\ ~ifUseBigLock /\ \E D \in SUBSET Threads : CircularWait(D)

\* With either of the two switches the program ends.
OrderedRunsEnd == (ifSortAccess \/ ifUseBigLock) ~> Ended
=============================================================================
