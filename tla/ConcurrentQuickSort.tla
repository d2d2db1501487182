------------------------ MODULE ConcurrentQuickSort ------------------------
(***************************************************************************)
(* The three ConcurrentQuickSort programs of chapter4 side by side: with a *)
(* stack of jobs (Iteration), with a tree of threads and a limit on their  *)
(* number (Recursive), and without the limit (Recursive-broken).           *)
(***************************************************************************)
EXTENDS QuickSortPool

CONSTANTS MaxThreads,  \* MAX_CONCURRENT_THREAD_NUM of Recursive
          TreeMinLen,  \* MIN_ARRAY_LEN_FOR_CREATE_A_THREAD_TO_SORT of Recursive
          TreeValues   \* the values in the array of the recursive programs

ASSUME TreeAssumption == /\ TreeMinLen \in Nat \ {0}
                         /\ MaxThreads \in Nat
                         /\ TreeValues \subseteq 0..(ArrayLen - 1) /\ 0 \in TreeValues

VARIABLES program,  \* which of the three runs
          treeInput, treeArray, failed, threadNumMutex,
          concurrentThreadNum, maxConcurrentThreadNumEverAppeared, totalThreadCreated,
          treePc, part, index, re, treeJob, treeCur, treeLocal

treeVars == <<treeInput, treeArray, failed, threadNumMutex,
              concurrentThreadNum, maxConcurrentThreadNumEverAppeared, totalThreadCreated,
              treePc, part, index, re, treeJob, treeCur, treeLocal>>

Tree == INSTANCE QuickSortBroken WITH
          MinLen <- TreeMinLen, Values <- TreeValues,
          input <- treeInput, array <- treeArray, mutex <- threadNumMutex,
          pc <- treePc, job <- treeJob, cur <- treeCur, local <- treeLocal

allVars == <<vars, treeVars, program>>

PoolStep(step) == program = "Iteration" /\ step /\ UNCHANGED <<treeVars, program>>
TreeStep(step) == program # "Iteration" /\ step /\ UNCHANGED <<vars, program>>

\* The program that does not run has one array to sort.
EitherInit == /\ program \in {"Iteration", "Recursive", "Recursive-broken"}
              /\ Init /\ Tree!Init
              /\ program = "Iteration" => treeInput = [i \in Indices |-> 0]

TreeNext == IF program = "Recursive" THEN Tree!Next ELSE Tree!BrokenNext

EitherNext == PoolStep(Next) \/ TreeStep(TreeNext)

\* Every thread of Iteration is scheduled; its main sleeps 10 ms between two
\* polls and so does not keep a thread from the mutex.  Of the recursive
\* programs some runnable thread runs as long as there is one.
EitherSpec ==
  /\ EitherInit /\ [][EitherNext]_allVars
  /\ WF_allVars(PoolStep(doSortTest)) /\ WF_allVars(TreeStep(TreeNext))
  /\ \A t \in Threads : /\ WF_allVars(PoolStep(QuickSortParallel(t)))
                        /\ SF_allVars(PoolStep(Lock(t)))

-----------------------------------------------------------------------------
\* No two threads ever work on the same element of the array, which has no lock.
NoElementShared ==
  IF program = "Iteration" THEN SegmentsDisjoint ELSE Tree!SegmentsDisjoint

\* The program that has the limit keeps it strictly, and its count is right.
StrictLimit == program = "Recursive" => Tree!CountCoversThreads

\* When main has the array back it is sorted, and no thread can still write to it.
SortedAtEnd ==
  IF program = "Iteration" THEN SortedAtExit ELSE Tree!SortedAtReturn

\* The program ends: main's polling stops and no join waits for ever.
Termination == <>(Ended \/ Tree!Ended)
=============================================================================
