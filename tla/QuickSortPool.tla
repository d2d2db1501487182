--------------------------- MODULE QuickSortPool ---------------------------
(***************************************************************************)
(* chapter4/ConcurrentQuickSort-Iteration.cpp: long-lived threads take     *)
(* segments from a shared stack.  A long segment is partitioned and its    *)
(* parts are pushed back; a short one is sorted by the thread alone, with  *)
(* a stack of its own.  main polls: when the stack is empty and no thread  *)
(* is busy it tells the threads to exit and joins them.                    *)
(***************************************************************************)
EXTENDS PartSort

CONSTANTS Threads,   \* the CONCURRENT_THREAD_NUM threads
          ArrayLen,  \* sortArrayLen
          MinLen,    \* MIN_ARRAY_LEN_FOR_CREATE_A_THREAD_TO_SORT
          Values,    \* the values rand()%sortArrayLen takes
          RunTimes,  \* runTimes
          Main,      \* the main thread
          Nobody     \* the owner of the free mutex

ASSUME SortAssumption ==
  /\ IsFiniteSet(Threads) /\ Threads # {}
  /\ Main \notin Threads
  /\ Nobody \notin Threads \cup {Main}
  /\ ArrayLen \in Nat \ {0}      \* PartSort of no element leaves the array
  /\ MinLen \in Nat \ {0}
  /\ Values \subseteq 0..(ArrayLen - 1)
  /\ 0 \in Values
  /\ RunTimes \in Nat

VARIABLES
  mainPc,    \* where main is, or how the program ended
  runs,      \* n: the sorts done
  input,     \* the array as main filled it
  array,     \* array
  stack,     \* sortJobStackGlobal
  permits,   \* the value of sortJobStackEmptySlots
  mutex,     \* the owner of sortJobStackMutex
  busy,      \* the threads with ifThreadBusy
  ifAllThreadExit,
  pc,        \* where each thread is; "out" is one not created in this run
  job,       \* the segment that each thread works on
  cur,       \* left and right in its PartSort; both are index at the end
  local      \* sortJobStack of its QuickSortSequential

mainVars == <<mainPc, runs, input>>
stackVars == <<stack, permits, busy, ifAllThreadExit>>
jobVars == <<job, cur, local>>
vars == <<mainVars, array, stackVars, mutex, pc, jobVars>>

Indices == 0..(ArrayLen - 1)

Init ==
  /\ mainPc = "start" /\ runs = 0
  /\ array = [i \in Indices |-> 0]
  /\ input = array
  /\ stack = <<>>
  /\ permits = 0
  /\ mutex = Nobody
  /\ busy = {}
  /\ ifAllThreadExit = FALSE
  /\ pc = [t \in Threads |-> "out"]
  /\ job = [t \in Threads |-> <<0, 0>>]
  /\ cur = [t \in Threads |-> <<0, 0>>]
  /\ local = [t \in Threads |-> <<>>]

Ended == mainPc \in {"exited", "failed", "crashed"}

Move(t, from, to) == ~Ended /\ pc[t] = from /\ pc' = [pc EXCEPT ![t] = to]

-----------------------------------------------------------------------------
(* The threads: QuickSortParallel *)

SemWait(t) ==
  /\ Move(t, "wait", "lockTake")
  /\ permits > 0
  /\ permits' = permits - 1
  /\ UNCHANGED <<mainVars, array, stack, busy, ifAllThreadExit, mutex, jobVars>>

Lock(t) ==
  /\ \/ Move(t, "lockTake", "take")
     \/ Move(t, "lockPush", "push")
     \/ Move(t, "lockIdle", "idle")
  /\ mutex = Nobody
  /\ mutex' = t
  /\ UNCHANGED <<mainVars, array, stackVars, jobVars>>

\* The break out of the loop, to the end of the function.
ExitThread(t) ==
  /\ ifAllThreadExit
  /\ Move(t, "take", "done")
  /\ mutex' = Nobody
  /\ UNCHANGED <<mainVars, array, stackVars, jobVars>>

\* The function has a result and no return: in C++ leaving it is undefined, and
\* g++ -O2 (the makefile's flags) puts no return instruction after the unlock.
\* The thread runs on into whatever code comes next, and the program crashes.
FlowOffTheEnd(t) ==
  /\ ifAllThreadExit
  /\ ~Ended /\ pc[t] = "take"
  /\ mutex' = Nobody
  /\ mainPc' = "crashed"
  /\ UNCHANGED <<runs, input, array, stackVars, pc, jobVars>>

\* Pop the top of the stack; its length decides how it is sorted.
Take(t) ==
  LET top == stack[Len(stack)] IN
  /\ ~ifAllThreadExit
  /\ stack # <<>>
  /\ stack' = SubSeq(stack, 1, Len(stack) - 1)
  /\ job' = [job EXCEPT ![t] = top]
  /\ busy' = busy \cup {t}
  /\ IF top[2] - top[1] >= MinLen
       THEN Move(t, "take", "part") /\ UNCHANGED local
       ELSE Move(t, "take", "seq") /\ local' = [local EXCEPT ![t] = <<top>>]
  /\ cur' = [cur EXCEPT ![t] = top]
  /\ mutex' = Nobody
  /\ UNCHANGED <<mainVars, array, permits, ifAllThreadExit>>

Partitioning(t) == ~Ended /\ pc[t] \in {"part", "seqPart"}

\* A round of PartSort's outer loop; key is the segment's last place.
PartRound(t) ==
  LET left == cur[t][1]  right == cur[t][2]  key == job[t][2] IN
  /\ Partitioning(t)
  /\ left < right
  /\ \E l, r \in left..right :
       /\ StopsUp(array, left, right, key, l)
       /\ StopsDown(array, l, right, key, r)
       /\ array' = swap(array, l, r)
       /\ cur' = [cur EXCEPT ![t] = <<l, r>>]
  /\ UNCHANGED <<mainVars, stackVars, mutex, pc, job, local>>

\* Mutant: PartSort's last swap is missing.
PartEndNoSwap(t) ==
  LET index == cur[t][1] IN
  /\ cur[t][1] >= cur[t][2]
  /\ \/ Move(t, "part", "lockPush") /\ UNCHANGED local
     \/ /\ Move(t, "seqPart", "seq")
        /\ local' = [local EXCEPT ![t] = @ \o Parts(job[t], index)]
  /\ UNCHANGED <<mainVars, array, stackVars, mutex, job, cur>>

\* PartSort's last swap.  In QuickSortSequential the thread then pushes the
\* parts on its own stack.
PartEnd(t) ==
  LET index == cur[t][1] IN
  /\ cur[t][1] >= cur[t][2]
  /\ array' = swap(array, index, job[t][2])
  /\ \/ Move(t, "part", "lockPush") /\ UNCHANGED local
     \/ /\ Move(t, "seqPart", "seq")
        /\ local' = [local EXCEPT ![t] = @ \o Parts(job[t], index)]
  /\ UNCHANGED <<mainVars, stackVars, mutex, job, cur>>

\* Mutant: sem_post is missing when the right part is pushed.
PushOnePermit(t) ==
  LET parts == Parts(job[t], cur[t][1]) IN
  /\ Move(t, "push", "wait")
  /\ stack' = stack \o parts
  /\ permits' = permits + (IF parts = <<>> THEN 0 ELSE 1)
  /\ busy' = busy \ {t}
  /\ mutex' = Nobody
  /\ UNCHANGED <<mainVars, array, ifAllThreadExit, jobVars>>

\* Push the parts, with a permit for each, and be idle, under one lock.
Push(t) ==
  LET parts == Parts(job[t], cur[t][1]) IN
  /\ Move(t, "push", "wait")
  /\ stack' = stack \o parts
  /\ permits' = permits + Len(parts)
  /\ busy' = busy \ {t}
  /\ mutex' = Nobody
  /\ UNCHANGED <<mainVars, array, ifAllThreadExit, jobVars>>

\* QuickSortSequential: the next segment of the thread's own stack, or the end.
NextLocal(t) ==
  LET top == local[t][Len(local[t])] IN
  /\ local[t] # <<>>
  /\ Move(t, "seq", "seqPart")
  /\ local' = [local EXCEPT ![t] = SubSeq(@, 1, Len(@) - 1)]
  /\ job' = [job EXCEPT ![t] = top]
  /\ cur' = [cur EXCEPT ![t] = top]
  /\ UNCHANGED <<mainVars, array, stackVars, mutex>>

EndLocal(t) ==
  /\ local[t] = <<>>
  /\ Move(t, "seq", "lockIdle")
  /\ UNCHANGED <<mainVars, array, stackVars, mutex, jobVars>>

Idle(t) ==
  /\ Move(t, "idle", "wait")
  /\ busy' = busy \ {t}
  /\ mutex' = Nobody
  /\ UNCHANGED <<mainVars, array, stack, permits, ifAllThreadExit, jobVars>>

QuickSortParallel(t) ==
  \/ SemWait(t) \/ Lock(t) \/ Take(t) \/ ExitThread(t) \/ FlowOffTheEnd(t)
  \/ PartRound(t) \/ PartEnd(t) \/ Push(t)
  \/ NextLocal(t) \/ EndLocal(t) \/ Idle(t)

-----------------------------------------------------------------------------
(* main: doSortTest with ifSequential 0 *)

\* A new random array, initParallelSort, and no thread yet.
StartRun ==
  /\ mainPc = "start"
  /\ runs < RunTimes
  /\ mainPc' = "create"
  /\ input' \in [Indices -> Values]
  /\ array' = input'
  /\ stack' = Append(stack, <<0, ArrayLen - 1>>)
  /\ permits' = 1
  /\ mutex' = Nobody
  /\ busy' = {}
  /\ ifAllThreadExit' = FALSE
  /\ pc' = [t \in Threads |-> "out"]
  /\ job' = [t \in Threads |-> <<0, 0>>]
  /\ cur' = job'
  /\ local' = [t \in Threads |-> <<>>]
  /\ UNCHANGED runs

CreateThread ==
  /\ mainPc = "create"
  /\ \E t \in Threads : /\ Move(t, "out", "wait")
                        /\ mainPc' = IF \A u \in Threads \ {t} : pc[u] # "out"
                                     THEN "poll" ELSE "create"
  /\ UNCHANGED <<runs, input, array, stackVars, mutex, jobVars>>

CreateFails ==
  /\ mainPc = "create"
  /\ mainPc' = "failed"
  /\ UNCHANGED <<runs, input, array, stackVars, mutex, pc, jobVars>>

PollLock ==
  /\ mainPc = "poll"
  /\ mutex = Nobody
  /\ mutex' = Main
  /\ mainPc' = "check"
  /\ UNCHANGED <<runs, input, array, stackVars, pc, jobVars>>

\* Mutant: the exit does not wake the waiting threads.
NotifyWithoutPosts ==
  /\ mainPc = "check"
  /\ mutex' = Nobody
  /\ IF stack = <<>> /\ busy = {}
       THEN mainPc' = "join" /\ ifAllThreadExit' = TRUE
       ELSE mainPc' = "poll" /\ UNCHANGED ifAllThreadExit
  /\ UNCHANGED <<runs, input, array, stack, permits, busy, pc, jobVars>>

\* waitSortDoneAndNotifyAllThreadsToExit, every 10 ms.
Notify ==
  /\ mainPc = "check"
  /\ mutex' = Nobody
  /\ IF stack = <<>> /\ busy = {}
       THEN /\ mainPc' = "join"
            /\ ifAllThreadExit' = TRUE
            /\ permits' = permits + Cardinality(Threads)
       ELSE mainPc' = "poll" /\ UNCHANGED <<ifAllThreadExit, permits>>
  /\ UNCHANGED <<runs, input, array, stack, busy, pc, jobVars>>

Join ==
  /\ mainPc = "join"
  /\ \A t \in Threads : pc[t] = "done"
  /\ mainPc' = "start"
  /\ runs' = runs + 1
  /\ UNCHANGED <<input, array, stackVars, mutex, pc, jobVars>>

Return ==
  /\ mainPc = "start"
  /\ runs = RunTimes
  /\ mainPc' = "exited"
  /\ UNCHANGED <<runs, input, array, stackVars, mutex, pc, jobVars>>

doSortTest == StartRun \/ CreateThread \/ CreateFails \/ PollLock \/ Notify \/ Join \/ Return

Next == \/ doSortTest
        \/ \E t \in Threads : QuickSortParallel(t)
        \/ Ended /\ UNCHANGED vars

Spec == Init /\ [][Next]_vars

\* Every thread is scheduled.  main sleeps 10 ms between two polls and so does
\* not keep a thread from the mutex.
FairSpec == /\ Spec
            /\ WF_vars(doSortTest)
            /\ \A t \in Threads : WF_vars(QuickSortParallel(t)) /\ SF_vars(Lock(t))

-----------------------------------------------------------------------------
Pushing(t) == pc[t] \in {"lockPush", "push"}

Numbered(from, s) == {<<from, k, s[k]>> : k \in DOMAIN s}

\* The segments that are not sorted yet, each with where it is: on the stack,
\* on the stack of a thread, being partitioned, or about to be pushed.
Unsorted ==
  Numbered(Main, stack) \cup
  (UNION {Numbered(t, local[t]) : t \in Threads}) \cup
  {<<t, 0, job[t]>> : t \in {u \in Threads : pc[u] \in {"part", "seqPart"}}} \cup
  (UNION {Numbered(t, Parts(job[t], cur[t][1])) : t \in {u \in Threads : Pushing(u)}})

\* No two threads ever work on the same element: the array needs no lock.
SegmentsDisjoint ==
  \A a, b \in Unsorted : a # b => \A i \in Indices : ~(Inside(i, a[3]) /\ Inside(i, b[3]))

\* Two elements are in order unless they are in the same unsorted segment.
SortedButSegments ==
  mainPc # "start" =>
    \A i, k \in Indices : i < k =>
      \/ array[i] <= array[k]
      \/ \E a \in Unsorted : Inside(i, a[3]) /\ Inside(k, a[3])

\* Each segment on the stack has a permit, in the semaphore or taken by a thread
\* on its way to the pop: top() is never called on an empty stack.
PermitsMatch ==
  ~ifAllThreadExit =>
    Len(stack) = permits + Cardinality({t \in Threads : pc[t] \in {"lockTake", "take"}})

\* When main tells the threads to exit the array is sorted, and it still holds
\* what main put into it.
SortedAtExit == ifAllThreadExit => SortedFrom(input, array)

\* "They will exit since they check ifAllThreadExit whenever wakeup": told to
\* exit, every thread comes to its end.
ThreadsExit == ifAllThreadExit ~> \A t \in Threads : pc[t] = "done"
=============================================================================
