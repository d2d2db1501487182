--------------------------- MODULE WgetThreadPool ---------------------------
(***************************************************************************)
(* chapter4/ConcurrentWget-ThreadPool.c: main reads URLs from the standard *)
(* input and puts them into a ring of Capacity slots, guarded by a mutex   *)
(* and two semaphores; long-lived workers take them out, number them, run  *)
(* wget into <number>.html and count the jobs done; main polls the counter *)
(* and exits when it equals the number of URLs it put in.                  *)
(*                                                                         *)
(* The URLs are told apart by their place in the input: 1, 2, ..., NumUrls. *)
(***************************************************************************)
EXTENDS Integers, FiniteSets

CONSTANTS Workers,   \* the threads main creates
          NumUrls,   \* the number of URLs on the standard input
          Capacity,  \* MAX_CONCURRENT_INPUT_NUM
          Main,      \* the main thread
          Nobody     \* the owner of a free mutex

ASSUME PoolAssumption ==
  /\ IsFiniteSet(Workers) /\ Workers # {}
  /\ Main \notin Workers
  /\ Nobody \notin Workers \cup {Main}
  /\ NumUrls \in Nat
  /\ Capacity \in Nat \ {0}

VARIABLES
  pc,           \* where each thread is; "out" is a worker not yet created
  jobs,         \* inJobQueue.jobs: the ring; 0 is a slot never written
  head, tail, inCount, outCount,   \* inJobQueue's other fields
  fullSlots, emptySlots,           \* its semaphores
  queueMutex,   \* its mutex
  read,         \* url: the last URL scanf has read
  job, jobID,   \* what each worker is working on
  files,        \* files[k]: the URLs wget has written into file k
  reg,          \* a worker's register inside totalNumOfJobsDone++
  totalDone,    \* totalNumOfJobsDone
  jobNumMutex   \* the mutex of totalNumOfJobsDone

queueVars == <<jobs, head, tail, inCount, outCount, queueMutex>>
semVars == <<fullSlots, emptySlots>>
workerVars == <<job, jobID, files, reg>>
countVars == <<totalDone, jobNumMutex>>
vars == <<pc, read, queueVars, semVars, workerVars, countVars>>

Threads == Workers \cup {Main}

Init ==
  /\ pc = [t \in Threads |-> IF t = Main THEN "create" ELSE "out"]
  /\ jobs = [i \in 0..(Capacity - 1) |-> 0]
  /\ head = 0 /\ tail = 0
  /\ inCount = 0 /\ outCount = 0
  /\ fullSlots = 0
  /\ emptySlots = Capacity
  /\ queueMutex = Nobody
  /\ read = 0
  /\ job = [w \in Workers |-> 0]
  /\ jobID = [w \in Workers |-> 0]
  /\ files = [k \in 0..(NumUrls - 1) |-> {}]
  /\ reg = [w \in Workers |-> 0]
  /\ totalDone = 0
  /\ jobNumMutex = Nobody

Gone == pc[Main] \in {"exited", "failed"}

At(t, label) == ~Gone /\ pc[t] = label

Move(t, from, to) == At(t, from) /\ pc' = [pc EXCEPT ![t] = to]

-----------------------------------------------------------------------------
(* The queue's mutex and semaphores, used by main and by the workers *)

\* Mutant: the queue is not locked.
LockQueueNot(t) ==
  /\ Move(t, "lock", "copy")
  /\ queueMutex' = t
  /\ UNCHANGED <<read, jobs, head, tail, inCount, outCount, semVars, workerVars, countVars>>

LockQueue(t) ==
  /\ Move(t, "lock", "copy")
  /\ queueMutex = Nobody
  /\ queueMutex' = t
  /\ UNCHANGED <<read, jobs, head, tail, inCount, outCount, semVars, workerVars, countVars>>

UnlockQueue(t) ==
  /\ Move(t, "unlock", "post")
  /\ queueMutex' = Nobody
  /\ UNCHANGED <<read, jobs, head, tail, inCount, outCount, semVars, workerVars, countVars>>

-----------------------------------------------------------------------------
(* main *)

\* All the workers are created before the first URL is read.
CreateWorker ==
  /\ At(Main, "create")
  /\ \E w \in Workers :
       /\ pc[w] = "out"
       /\ pc' = [pc EXCEPT ![w] = "wait",
                           ![Main] = IF \A v \in Workers \ {w} : pc[v] # "out"
                                     THEN "read" ELSE "create"]
  /\ UNCHANGED <<read, queueVars, semVars, workerVars, countVars>>

\* pthread_create fails: exit(1).
CreateFails == /\ Move(Main, "create", "failed")
               /\ UNCHANGED <<read, queueVars, semVars, workerVars, countVars>>

\* scanf: one more URL, or EOF.
ReadUrl ==
  /\ IF read < NumUrls THEN Move(Main, "read", "wait") /\ read' = read + 1
                       ELSE Move(Main, "read", "poll") /\ UNCHANGED read
  /\ UNCHANGED <<queueVars, semVars, workerVars, countVars>>

\* Mutant: main does not wait for a free slot.
WaitEmptySlotNot ==
  /\ Move(Main, "wait", "lock")
  /\ UNCHANGED <<read, semVars, queueVars, workerVars, countVars>>

WaitEmptySlot ==
  /\ Move(Main, "wait", "lock")
  /\ emptySlots > 0
  /\ emptySlots' = emptySlots - 1
  /\ UNCHANGED <<read, fullSlots, queueVars, workerVars, countVars>>

CopyIn ==
  /\ Move(Main, "copy", "advance")
  /\ jobs' = [jobs EXCEPT ![tail] = read]
  /\ UNCHANGED <<read, head, tail, inCount, outCount, queueMutex, semVars, workerVars, countVars>>

AdvanceTail ==
  /\ Move(Main, "advance", "unlock")
  /\ tail' = (tail + 1) % Capacity
  /\ inCount' = inCount + 1
  /\ UNCHANGED <<read, jobs, head, outCount, queueMutex, semVars, workerVars, countVars>>

PostFullSlot ==
  /\ Move(Main, "post", "read")
  /\ fullSlots' = fullSlots + 1
  /\ UNCHANGED <<read, emptySlots, queueVars, workerVars, countVars>>

enqueueAJob == \/ WaitEmptySlot \/ LockQueue(Main) \/ CopyIn \/ AdvanceTail
               \/ UnlockQueue(Main) \/ PostFullSlot

\* Every 10 ms: lock, compare with inCount, unlock.
PollLock ==
  /\ Move(Main, "poll", "check")
  /\ jobNumMutex = Nobody
  /\ jobNumMutex' = Main
  /\ UNCHANGED <<read, totalDone, queueVars, semVars, workerVars>>

\* Mutant: main waits until the last job is taken, not until it is done.
CheckTaken ==
  /\ Move(Main, "check", IF outCount = inCount THEN "exited" ELSE "poll")
  /\ jobNumMutex' = Nobody
  /\ UNCHANGED <<read, totalDone, queueVars, semVars, workerVars>>

\* When they are equal main prints the totals and exit(0) ends the workers.
Check ==
  /\ Move(Main, "check", IF totalDone = inCount THEN "exited" ELSE "poll")
  /\ jobNumMutex' = Nobody
  /\ UNCHANGED <<read, totalDone, queueVars, semVars, workerVars>>

waitForAllJobsDone == PollLock \/ Check

MainStep == CreateWorker \/ CreateFails \/ ReadUrl \/ enqueueAJob \/ waitForAllJobsDone

-----------------------------------------------------------------------------
(* The workers *)

WaitFullSlot(w) ==
  /\ Move(w, "wait", "lock")
  /\ fullSlots > 0
  /\ fullSlots' = fullSlots - 1
  /\ UNCHANGED <<read, emptySlots, queueVars, workerVars, countVars>>

CopyOut(w) ==
  /\ Move(w, "copy", "advance")
  /\ job' = [job EXCEPT ![w] = jobs[head]]
  /\ UNCHANGED <<read, queueVars, semVars, jobID, files, reg, countVars>>

AdvanceHead(w) ==
  /\ Move(w, "advance", "unlock")
  /\ head' = (head + 1) % Capacity
  /\ jobID' = [jobID EXCEPT ![w] = outCount]
  /\ outCount' = outCount + 1
  /\ UNCHANGED <<read, jobs, tail, inCount, queueMutex, semVars, job, files, reg, countVars>>

PostEmptySlot(w) ==
  /\ Move(w, "post", "wget")
  /\ emptySlots' = emptySlots + 1
  /\ UNCHANGED <<read, fullSlots, queueVars, workerVars, countVars>>

dequeueAJob(w) == \/ WaitFullSlot(w) \/ LockQueue(w) \/ CopyOut(w)
                  \/ AdvanceHead(w) \/ UnlockQueue(w) \/ PostEmptySlot(w)

\* system("wget ..."): the page and the log of the URL, successful or not.
Wget(w) ==
  /\ Move(w, "wget", "lockNum")
  /\ files' = [files EXCEPT ![jobID[w]] = @ \cup {job[w]}]
  /\ UNCHANGED <<read, queueVars, semVars, job, jobID, reg, countVars>>

\* Mutant: totalNumOfJobsDone++ without the mutex.
LockNumNot(w) == /\ Move(w, "lockNum", "load")
                 /\ jobNumMutex' = w
                 /\ UNCHANGED <<read, totalDone, queueVars, semVars, workerVars>>

LockNum(w) == /\ Move(w, "lockNum", "load")
              /\ jobNumMutex = Nobody
              /\ jobNumMutex' = w
              /\ UNCHANGED <<read, totalDone, queueVars, semVars, workerVars>>

LoadNum(w) == /\ Move(w, "load", "store")
              /\ reg' = [reg EXCEPT ![w] = totalDone]
              /\ UNCHANGED <<read, queueVars, semVars, job, jobID, files, countVars>>

StoreNum(w) == /\ Move(w, "store", "unlockNum")
               /\ totalDone' = reg[w] + 1
               /\ UNCHANGED <<read, queueVars, semVars, workerVars, jobNumMutex>>

UnlockNum(w) == /\ Move(w, "unlockNum", "wait")
                /\ jobNumMutex' = Nobody
                /\ UNCHANGED <<read, totalDone, queueVars, semVars, workerVars>>

processJobsLongLiveThread(w) ==
  \/ dequeueAJob(w) \/ Wget(w)
  \/ LockNum(w) \/ LoadNum(w) \/ StoreNum(w) \/ UnlockNum(w)

Next == \/ MainStep
        \/ \E w \in Workers : processJobsLongLiveThread(w)
        \/ Gone /\ UNCHANGED vars

-----------------------------------------------------------------------------
In(labels) == {t \in Threads : pc[t] \in labels}
Claimed == {"lock", "copy", "advance"}     \* past sem_wait, not yet counted
Announced == {"unlock", "post"}            \* counted, not yet posted
Owned == {"wget", "lockNum", "load", "store"}

\* What is in the ring is what has been put in and not taken out, and the two
\* semaphores together with the threads between them and the ring account for
\* every slot: main never overwrites a URL that no worker has taken.
RingAccounting ==
  /\ inCount - outCount = fullSlots + Cardinality(In(Claimed) \ {Main})
                                    + Cardinality(In(Announced) \cap {Main})
  /\ Capacity - (inCount - outCount) =
       emptySlots + Cardinality(In(Claimed) \cap {Main})
                  + Cardinality(In(Announced) \ {Main})
  /\ \A i \in outCount..(inCount - 1) : jobs[i % Capacity] = i + 1

\* The number a worker got with its URL is the URL's place in the input, so the
\* page of the k-th URL is in file k, however the workers overtake each other.
NumberIsPlace ==
  /\ \A w \in Workers : pc[w] \in Owned \cup Announced => job[w] = jobID[w] + 1
  /\ \A k \in 0..(NumUrls - 1) : files[k] \subseteq {k + 1}

\* The jobs of the pool: submitted when inCount counts them, taken when outCount
\* does, done when totalNumOfJobsDone does.
Running == {jobID[w] : w \in In(Owned \cup Announced) \ {Main}}
Done == 0..(outCount - 1) \ Running
=============================================================================
