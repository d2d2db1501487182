--------------------------- MODULE ConcurrentWget ---------------------------
(***************************************************************************)
(* The two ConcurrentWget programs of chapter4 side by side, and what both *)
(* of them promise: a pool that fetches every URL of the input once.       *)
(***************************************************************************)
EXTENDS WgetThreadPool

VARIABLES program,  \* which of the two runs
          mainPc, nextJobID, threadPc, counterMutex, totalThreadsCreated,
          concurrentThreadsNow, maxConcurrentThreads, totalNumOfJobsDone, seen, fetched

onDemandVars ==
  <<mainPc, nextJobID, threadPc, counterMutex, totalThreadsCreated,
    concurrentThreadsNow, maxConcurrentThreads, totalNumOfJobsDone, seen, fetched>>

D == INSTANCE WgetOnDemand

ASSUME OnDemandAssumption == {Main, Nobody} \cap D!Jobs = {}

allVars == <<vars, onDemandVars, program>>

PooledStep(step) == program = "ThreadPool" /\ step /\ UNCHANGED <<onDemandVars, program>>
OnDemandStep(step) == program = "OnDemand" /\ step /\ UNCHANGED <<vars, program>>

EitherInit == Init /\ D!Init /\ program \in {"ThreadPool", "OnDemand"}

EitherNext == PooledStep(Next) \/ OnDemandStep(D!Next)

\* Every thread is scheduled and every wget ends.  main polls for ever, but
\* sleeps 10 ms between two polls, so it does not keep a thread from a mutex.
FairSpec ==
  /\ EitherInit /\ [][EitherNext]_allVars
  /\ WF_allVars(PooledStep(MainStep)) /\ WF_allVars(OnDemandStep(D!main))
  /\ \A w \in Workers : /\ WF_allVars(PooledStep(processJobsLongLiveThread(w)))
                        /\ SF_allVars(PooledStep(LockNum(w)))
  /\ \A j \in D!Jobs : /\ WF_allVars(OnDemandStep(D!processJobsOnDemandThread(j)))
                       /\ SF_allVars(OnDemandStep(D!Lock(j)))

-----------------------------------------------------------------------------
\* The counters that the threads of OnDemand keep say what the threads have
\* done: no count is lost, main cannot see a job as done that is not, and the
\* maximum told at the end lies between the threads at work and those created.
CountsAgree == D!CountsAgree

\* Either program implements the pool, and main exits when the pool may close.
Pooled == program = "ThreadPool"
Pool == INSTANCE JobPool WITH
          NumJobs <- NumUrls,
          submitted <- IF Pooled THEN inCount ELSE nextJobID,
          running <- IF Pooled THEN Running ELSE D!Running,
          done <- IF Pooled THEN Done ELSE D!Done,
          closed <- "exited" \in {pc[Main], mainPc}
ImplementsPool == Pool!Spec

\* main ends: no URL is stuck in the queue and no count is lost.
Termination == <>(Gone \/ D!Ended)
=============================================================================
