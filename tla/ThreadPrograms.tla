--------------------------- MODULE ThreadPrograms ---------------------------
(***************************************************************************)
(* The small programs of chapter4 and of miscellaneous side by side: the   *)
(* job programs (JobThreads), the threads that add to one variable         *)
(* (SharedCounter), the two sides of a futex (FutexSwitch) and the child   *)
(* behind three pipes (PipeProgram).                                       *)
(***************************************************************************)
EXTENDS JobThreads

CONSTANTS MaxDepositors, Rounds, Iterations, WorkLimit, PipeLines

VARIABLES runs,  \* which of the four modules runs
          teller, depositors, accountBalance, accountBalanceLock, at, loaded, done, after,
          bench, wsPages, iterations, place, round, futex,
          pipeSize, parent, child, reader, open, in, out, written, fgetsBuffer, shown

counterVars ==
  <<teller, depositors, accountBalance, accountBalanceLock, at, loaded, done, after>>
futexVars == <<bench, wsPages, iterations, place, round, futex>>
pipeVars == <<pipeSize, parent, child, reader, open, in, out, written, fgetsBuffer, shown>>

C == INSTANCE SharedCounter
F == INSTANCE FutexSwitch
P == INSTANCE PipeProgram

ASSUME SmallAssumption ==
  /\ MaxDepositors \in Nat \ {0, 1} /\ Rounds \in Nat \ {0}
  /\ Iterations \in Nat \ {0} /\ WorkLimit \in Nat \ {0}
  /\ PipeLines \in Nat \ {0}
  /\ Nobody \notin C!Depositors

allVars == <<runs, vars, counterVars, futexVars, pipeVars>>

JobStep(step) ==
  runs = "jobs" /\ step /\ UNCHANGED <<runs, counterVars, futexVars, pipeVars>>
CounterStep(step) ==
  runs = "counter" /\ step /\ UNCHANGED <<runs, vars, futexVars, pipeVars>>
FutexStep(step) ==
  runs = "futex" /\ step /\ UNCHANGED <<runs, vars, counterVars, pipeVars>>
PipeStep(step) ==
  runs = "pipe" /\ step /\ UNCHANGED <<runs, vars, counterVars, futexVars, pipeSize>>

\* A module that does not run has one initial state.
AnyInit ==
  /\ runs \in {"jobs", "counter", "futex", "pipe"}
  /\ Init /\ C!Init /\ F!Init /\ P!Init
  /\ runs # "jobs" => program = "Homo" /\ numOfWorkerThread = 1
  /\ runs # "counter" => teller = "ATM" /\ depositors = 1
  /\ runs # "futex" => bench = "timectxsw"
  /\ runs # "pipe" => pipeSize = 1

AnyNext == JobStep(Next) \/ CounterStep(C!Next) \/ FutexStep(F!Next) \/ PipeStep(P!Next)

\* The scheduler runs some runnable thread as long as there is one, and of the
\* processes every one: those that wait for a futex yield when they retry.
FairSpecOfAll ==
  /\ AnyInit /\ [][AnyNext]_allVars
  /\ WF_allVars(JobStep(Program)) /\ WF_allVars(CounterStep(C!Program))
  /\ WF_allVars(FutexStep(F!CountIterations \/ F!Create \/ F!CreateFails))
  /\ \A s \in F!Sides : WF_allVars(FutexStep(F!Side(s)))
  /\ WF_allVars(PipeStep(P!popenRWE \/ P!main)) /\ WF_allVars(PipeStep(P!ReadOutput))
  /\ WF_allVars(PipeStep(P!ChildCloses \/ P!testProgram))

-----------------------------------------------------------------------------
\* What a deposit can lose, with a lock and without: C!Deposits.
Deposits == C!Deposits

\* Two sides of a futex never write at once: F!TakesTurns.
TakesTurns == F!TakesTurns

\* What goes through the pipes comes back, and all their ends are closed:
\* P!PipesDrained.
PipesDrained == P!PipesDrained

\* Every program ends, the child of the pipes too, unless the disk stays full or
\* a futex program counts or wakes for ever.
Termination ==
  \/ <>[](runs = "jobs" /\ disk = "full") \/ <>[](runs = "futex" /\ F!PlaysForEver)
  \/ <>(CASE runs = "jobs" -> Ended
          [] runs = "counter" -> C!Ended
          [] runs = "futex" -> F!Ended
          [] OTHER -> P!Ended /\ child \notin {"close", "exec", "fgets", "fprintf"})
=============================================================================
