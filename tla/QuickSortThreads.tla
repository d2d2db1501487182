-------------------------- MODULE QuickSortThreads --------------------------
(***************************************************************************)
(* chapter4/ConcurrentQuickSort-Recursive.c: a thread partitions its       *)
(* segment and gives each part to a new thread, or sorts it itself when    *)
(* the part is short or MaxThreads threads are counted.  Then it joins the *)
(* threads it made, in order, and takes them off the count.                *)
(*                                                                         *)
(* A thread is known by the segment it was created for; the first one,     *)
(* Root, is run by main.  One parallel sort of doSortTest is modelled.     *)
(***************************************************************************)
EXTENDS PartSort, SequencesExt

CONSTANTS ArrayLen,    \* sortArrayLen
          MinLen,      \* MIN_ARRAY_LEN_FOR_CREATE_A_THREAD_TO_SORT
          MaxThreads,  \* MAX_CONCURRENT_THREAD_NUM
          Values,      \* the values rand()%sortArrayLen takes
          Nobody       \* the owner of the free mutex

Indices == 0..(ArrayLen - 1)
TreeThreads == {t \in (0..ArrayLen) \X (-1..(ArrayLen - 1)) : t[1] <= t[2] + 1}
Root == <<0, ArrayLen - 1>>

VARIABLES
  input, array,
  failed,     \* pthread_create has failed and exit(1) ended the program
  mutex,      \* the owner of threadNumMutex
  concurrentThreadNum, maxConcurrentThreadNumEverAppeared, totalThreadCreated,
  pc,         \* where each thread is; "out" is one not created
  part,       \* the part it is creating a thread for, or joining: 1 or 2
  index,      \* where its pivot is
  re,         \* the parts it has created a thread for: re1, re2
  job, cur,   \* the segment it is partitioning, and left and right in PartSort
  local       \* the calls of QuickSortSequential still to be made

countVars == <<concurrentThreadNum, maxConcurrentThreadNumEverAppeared, totalThreadCreated>>
sortVars == <<job, cur, local>>
vars == <<input, array, failed, mutex, countVars, pc, part, index, re, sortVars>>

Init ==
  /\ input \in [Indices -> Values]
  /\ array = input
  /\ failed = FALSE
  /\ mutex = Nobody
  /\ concurrentThreadNum = 0
  /\ maxConcurrentThreadNumEverAppeared = 0
  /\ totalThreadCreated = 0
  /\ pc = [t \in TreeThreads |-> IF t = Root THEN "enter" ELSE "out"]
  /\ part = [t \in TreeThreads |-> 1]
  /\ index = [t \in TreeThreads |-> 0]
  /\ re = [t \in TreeThreads |-> {}]
  /\ job = [t \in TreeThreads |-> t]
  /\ cur = [t \in TreeThreads |-> t]
  /\ local = [t \in TreeThreads |-> <<>>]

Ended == failed \/ pc[Root] = "ended"

At(t, label) == ~Ended /\ pc[t] = label

Move(t, from, to) == At(t, from) /\ pc' = [pc EXCEPT ![t] = to]

\* The segment of part k of t, and thereby the thread it is given to.
PartOf(t, k) == IF k = 1 THEN <<t[1], index[t] - 1>> ELSE <<index[t] + 1, t[2]>>

\* After part 1 comes part 2, and after part 2 the next phase.
NextPart(t, from, again, next) ==
  /\ Move(t, from, IF part[t] = 1 THEN again ELSE next)
  /\ part' = [part EXCEPT ![t] = 3 - @]

-----------------------------------------------------------------------------
(* PartSort *)

Enter(t) ==
  /\ Move(t, "enter", IF t[1] >= t[2] THEN "ended" ELSE "part")
  /\ UNCHANGED <<input, array, failed, mutex, countVars, part, index, re, sortVars>>

PartRound(t) ==
  LET left == cur[t][1]  right == cur[t][2]  key == job[t][2] IN
  /\ At(t, "part") \/ At(t, "seqPart")
  /\ left < right
  /\ \E l, r \in left..right :
       /\ StopsUp(array, left, right, key, l)
       /\ StopsDown(array, l, right, key, r)
       /\ array' = swap(array, l, r)
       /\ cur' = [cur EXCEPT ![t] = <<l, r>>]
  /\ UNCHANGED <<input, failed, mutex, countVars, pc, part, index, re, job, local>>

\* The pivot goes to its place.
PartEnd(t) ==
  /\ cur[t][1] >= cur[t][2]
  /\ Move(t, "part", "create")
  /\ array' = swap(array, cur[t][1], job[t][2])
  /\ index' = [index EXCEPT ![t] = cur[t][1]]
  /\ UNCHANGED <<input, failed, mutex, countVars, part, re, sortVars>>

\* QuickSortSequential: the left part, with all its parts, before the right one.
SeqPartEnd(t) ==
  /\ cur[t][1] >= cur[t][2]
  /\ Move(t, "seqPart", "seq")
  /\ array' = swap(array, cur[t][1], job[t][2])
  /\ local' = [local EXCEPT ![t] = @ \o Reverse(Parts(job[t], cur[t][1]))]
  /\ UNCHANGED <<input, failed, mutex, countVars, part, index, re, job, cur>>

SeqNext(t) ==
  /\ local[t] # <<>>
  /\ LET top == Last(local[t]) IN
       /\ Move(t, "seq", IF top[1] >= top[2] THEN "seq" ELSE "seqPart")
       /\ job' = [job EXCEPT ![t] = top]
       /\ cur' = [cur EXCEPT ![t] = top]
  /\ local' = [local EXCEPT ![t] = Front(@)]
  /\ UNCHANGED <<input, array, failed, mutex, countVars, part, index, re>>

\* The calls are done: createAThreadToQuickSort returns 0.
SeqEnd(t) ==
  /\ local[t] = <<>>
  /\ NextPart(t, "seq", "create", "join")
  /\ UNCHANGED <<input, array, failed, mutex, countVars, index, re, sortVars>>

Sequential(t) == SeqPartEnd(t) \/ SeqNext(t) \/ SeqEnd(t)

-----------------------------------------------------------------------------
(* The count of threads *)

Lock(t) ==
  /\ Move(t, "create", "count") \/ Move(t, "joined", "discount")
  /\ mutex = Nobody
  /\ mutex' = t
  /\ UNCHANGED <<input, array, failed, countVars, part, index, re, sortVars>>

MayCreate(t) ==
  LET seg == PartOf(t, part[t])
  IN  concurrentThreadNum < MaxThreads /\ seg[2] - seg[1] >= MinLen

CountThread(t) ==
  /\ MayCreate(t)
  /\ Move(t, "count", "spawn")
  /\ mutex' = Nobody
  /\ totalThreadCreated' = totalThreadCreated + 1
  /\ concurrentThreadNum' = concurrentThreadNum + 1
  /\ maxConcurrentThreadNumEverAppeared' =
       IF concurrentThreadNum' > maxConcurrentThreadNumEverAppeared
       THEN concurrentThreadNum' ELSE maxConcurrentThreadNumEverAppeared
  /\ UNCHANGED <<input, array, failed, part, index, re, sortVars>>

SortMyself(t) ==
  /\ ~MayCreate(t)
  /\ Move(t, "count", "seq")
  /\ mutex' = Nobody
  /\ local' = [local EXCEPT ![t] = <<PartOf(t, part[t])>>]
  /\ UNCHANGED <<input, array, failed, countVars, part, index, re, job, cur>>

\* pthread_create, after the unlock; createAThreadToQuickSort returns 1.
Spawn(t) ==
  LET child == PartOf(t, part[t]) IN
  /\ At(t, "spawn")
  /\ pc' = [pc EXCEPT ![child] = "enter", ![t] = IF part[t] = 1 THEN "create" ELSE "join"]
  /\ part' = [part EXCEPT ![t] = 3 - @]
  /\ re' = [re EXCEPT ![t] = @ \cup {part[t]}]
  /\ UNCHANGED <<input, array, failed, mutex, countVars, index, sortVars>>

SpawnFails(t) ==
  /\ At(t, "spawn")
  /\ failed' = TRUE
  /\ UNCHANGED <<input, array, mutex, countVars, pc, part, index, re, sortVars>>

createAThreadToQuickSort(t) ==
  CountThread(t) \/ SortMyself(t) \/ Spawn(t) \/ SpawnFails(t)

\* Mutant: the thread is taken off the count without a join.
JoinNot(t) ==
  /\ part[t] \in re[t]
  /\ Move(t, "join", "joined")
  /\ UNCHANGED <<input, array, failed, mutex, countVars, part, index, re, sortVars>>

\* pthread_join of the thread of this part, if there is one.
Join(t) ==
  /\ part[t] \in re[t]
  /\ pc[PartOf(t, part[t])] = "ended"
  /\ Move(t, "join", "joined")
  /\ UNCHANGED <<input, array, failed, mutex, countVars, part, index, re, sortVars>>

NoJoin(t) ==
  /\ part[t] \notin re[t]
  /\ NextPart(t, "join", "join", "ended")
  /\ UNCHANGED <<input, array, failed, mutex, countVars, index, re, sortVars>>

Discount(t) ==
  /\ NextPart(t, "discount", "join", "ended")
  /\ mutex' = Nobody
  /\ concurrentThreadNum' = concurrentThreadNum - 1
  /\ UNCHANGED <<input, array, failed, maxConcurrentThreadNumEverAppeared,
                 totalThreadCreated, index, re, sortVars>>

QuickSortParallel(t) ==
  \/ Enter(t) \/ PartRound(t) \/ PartEnd(t) \/ Sequential(t)
  \/ Lock(t) \/ createAThreadToQuickSort(t)
  \/ Join(t) \/ NoJoin(t) \/ Discount(t)

\* The threads that have been created and have not ended.
Live == {t \in TreeThreads : pc[t] \notin {"out", "ended"}}

Next == \/ \E t \in Live : QuickSortParallel(t)
        \/ Ended /\ UNCHANGED vars

-----------------------------------------------------------------------------
In(labels) == {t \in Live : pc[t] \in labels}

\* The parts of t that no thread sorts yet, t itself included.
NotHandedOut(t) ==
  IF pc[t] \in {"create", "count", "spawn"} THEN {PartOf(t, k) : k \in part[t]..2}
  ELSE IF pc[t] \in {"seq", "seqPart"} /\ part[t] = 1 THEN {PartOf(t, 2)} ELSE {}

Unsorted ==
  In({"enter"}) \cup {job[t] : t \in In({"part", "seqPart"})}
  \cup UNION {ToSet(local[t]) \cup NotHandedOut(t) : t \in Live}

\* Any two segments not sorted yet are the same or have no element in common,
\* and no two threads partition the same: the array needs no lock.
SegmentsDisjoint ==
  /\ \A a, b \in Unsorted : a # b => \A i \in Indices : ~(Inside(i, a) /\ Inside(i, b))
  /\ \A t, u \in In({"part", "seqPart"}) : t # u => job[t] # job[u]

\* Every thread that exists but Root is in the count, and the count is limited:
\* "strictly limit the concurrent thread num", although only parents keep it.
\* When main's call returns the count is 0, ready for the next sort.
CountCoversThreads ==
  /\ Cardinality(Live \ {Root}) <= concurrentThreadNum
  /\ concurrentThreadNum <= MaxThreads
  /\ pc[Root] = "ended" =>
       /\ concurrentThreadNum = 0
       /\ totalThreadCreated = Cardinality({t \in TreeThreads \ {Root} : pc[t] = "ended"})

\* When main's call returns no other thread is left that could still write to
\* the array; it is sorted and holds what it held before.
SortedAtReturn ==
  pc[Root] = "ended" =>
    /\ \A t \in TreeThreads : pc[t] \in {"out", "ended"}
    /\ SortedFrom(input, array)
=============================================================================
