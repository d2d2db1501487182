---------------------------- MODULE WgetOnDemand ----------------------------
(***************************************************************************)
(* chapter4/ConcurrentWget-OnDemand.c: main creates a thread for every URL *)
(* of its input.  The thread counts itself in, runs wget into <jobID>.html *)
(* and counts itself out; main polls totalNumOfJobsDone and exits when it  *)
(* equals the number of URLs.  One mutex guards all the counters.          *)
(*                                                                         *)
(* A thread is known by its jobID, a URL by its place in the input.        *)
(***************************************************************************)
EXTENDS Integers, FiniteSets

CONSTANTS NumUrls,  \* the number of URLs on the standard input
          Main,     \* the main thread
          Nobody    \* the owner of the free mutex

Jobs == 0..(NumUrls - 1)

VARIABLES
  mainPc,
  nextJobID,      \* the URLs read that have a number
  threadPc,       \* where each thread is; "out" is one not created
  counterMutex,
  totalThreadsCreated, concurrentThreadsNow, maxConcurrentThreads, totalNumOfJobsDone,
  seen,           \* the counters as a thread has loaded them
  fetched         \* the pages written

counters == <<totalThreadsCreated, concurrentThreadsNow, maxConcurrentThreads, totalNumOfJobsDone>>
vars == <<mainPc, nextJobID, threadPc, counterMutex, counters, seen, fetched>>

Init ==
  /\ mainPc = "read"
  /\ nextJobID = 0
  /\ threadPc = [j \in Jobs |-> "out"]
  /\ counterMutex = Nobody
  /\ totalThreadsCreated = 0 /\ concurrentThreadsNow = 0
  /\ maxConcurrentThreads = 0 /\ totalNumOfJobsDone = 0
  /\ seen = [j \in Jobs |-> <<0, 0, 0, 0>>]
  /\ fetched = {}

Ended == mainPc \in {"exited", "failed"}

Move(j, from, to) == ~Ended /\ threadPc[j] = from /\ threadPc' = [threadPc EXCEPT ![j] = to]

-----------------------------------------------------------------------------
(* processJobsOnDemandThread *)

\* Mutant: the counters are not locked.
LockNot(j) ==
  /\ Move(j, "begin", "load") \/ Move(j, "finish", "load2")
  /\ counterMutex' = j
  /\ UNCHANGED <<mainPc, nextJobID, counters, seen, fetched>>

Lock(j) ==
  /\ Move(j, "begin", "load") \/ Move(j, "finish", "load2")
  /\ counterMutex = Nobody
  /\ counterMutex' = j
  /\ UNCHANGED <<mainPc, nextJobID, counters, seen, fetched>>

Load(j) ==
  /\ Move(j, "load", "countIn") \/ Move(j, "load2", "countOut")
  /\ seen' = [seen EXCEPT ![j] = counters]
  /\ UNCHANGED <<mainPc, nextJobID, counterMutex, counters, fetched>>

\* The thread counts itself, and the unlock; seen is not used again.
CountIn(j) ==
  LET created == seen[j][1] + 1  now == seen[j][2] + 1  max == seen[j][3] IN
  /\ Move(j, "countIn", "wget")
  /\ totalThreadsCreated' = created
  /\ concurrentThreadsNow' = now
  /\ maxConcurrentThreads' = IF now > max THEN now ELSE max
  /\ seen' = [seen EXCEPT ![j] = <<0, 0, 0, 0>>]
  /\ counterMutex' = Nobody
  /\ UNCHANGED <<mainPc, nextJobID, totalNumOfJobsDone, fetched>>

Wget(j) ==
  /\ Move(j, "wget", "finish")
  /\ fetched' = fetched \cup {j}
  /\ UNCHANGED <<mainPc, nextJobID, counterMutex, counters, seen>>

CountOut(j) ==
  /\ Move(j, "countOut", "ended")
  /\ totalNumOfJobsDone' = seen[j][4] + 1
  /\ concurrentThreadsNow' = seen[j][2] - 1
  /\ seen' = [seen EXCEPT ![j] = <<0, 0, 0, 0>>]
  /\ counterMutex' = Nobody
  /\ UNCHANGED <<mainPc, nextJobID, totalThreadsCreated, maxConcurrentThreads, fetched>>

processJobsOnDemandThread(j) == Lock(j) \/ Load(j) \/ CountIn(j) \/ Wget(j) \/ CountOut(j)

-----------------------------------------------------------------------------
(* main *)

\* scanf: one more URL, or EOF.
ReadUrl ==
  /\ mainPc = "read"
  /\ IF nextJobID < NumUrls THEN mainPc' = "create" /\ nextJobID' = nextJobID + 1
                            ELSE mainPc' = "poll" /\ UNCHANGED nextJobID
  /\ UNCHANGED <<threadPc, counterMutex, counters, seen, fetched>>

CreateThread ==
  /\ mainPc = "create"
  /\ Move(nextJobID - 1, "out", "begin")
  /\ mainPc' = "read"
  /\ UNCHANGED <<nextJobID, counterMutex, counters, seen, fetched>>

CreateFails ==
  /\ mainPc = "create"
  /\ mainPc' = "failed"
  /\ UNCHANGED <<nextJobID, threadPc, counterMutex, counters, seen, fetched>>

PollLock ==
  /\ mainPc = "poll"
  /\ counterMutex = Nobody
  /\ counterMutex' = Main
  /\ mainPc' = "check"
  /\ UNCHANGED <<nextJobID, threadPc, counters, seen, fetched>>

\* When all are done main prints the counters and exit(0) ends the process.
Check ==
  /\ mainPc = "check"
  /\ mainPc' = IF totalNumOfJobsDone = nextJobID THEN "exited" ELSE "poll"
  /\ counterMutex' = Nobody
  /\ UNCHANGED <<nextJobID, threadPc, counters, seen, fetched>>

main == ReadUrl \/ CreateThread \/ CreateFails \/ PollLock \/ Check

Next == \/ main
        \/ \E j \in Jobs : processJobsOnDemandThread(j)
        \/ Ended /\ UNCHANGED vars

-----------------------------------------------------------------------------
In(labels) == {j \in Jobs : threadPc[j] \in labels}
CountedIn == In({"wget", "finish", "load2", "countOut"})

\* The counters that the threads keep say what the threads have done: no count
\* is lost, main cannot see a job as done that is not, and the maximum is no less
\* than the threads at work and no more than those created.
CountsAgree ==
  /\ totalThreadsCreated = Cardinality(CountedIn \cup In({"ended"}))
  /\ concurrentThreadsNow = Cardinality(CountedIn)
  /\ totalNumOfJobsDone = Cardinality(In({"ended"}))
  /\ maxConcurrentThreads \in concurrentThreadsNow..totalThreadsCreated

\* The jobs of the pool: submitted when the URL is read, taken by the thread
\* created for it, done when the thread counts itself out.
Running == Jobs \ In({"out", "ended"})
Done == In({"ended"})
=============================================================================
