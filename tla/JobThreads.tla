----------------------------- MODULE JobThreads -----------------------------
(***************************************************************************)
(* The four job programs of chapter4 side by side.  PreAssignJob.c gives   *)
(* each thread a range of the jobs, DynamicAssignJob.c and HomoThreads.c   *)
(* let the threads take the next job from a counter, HeteroThreads.c has   *)
(* the threads also queue what they have summed up for a thread that       *)
(* prints it.  In the first two the jobs are files, and main does all of   *)
(* them itself before the threads do.                                      *)
(***************************************************************************)
EXTENDS GenerateJobs, Sequences

CONSTANTS MaxThreads,           \* the largest argv[1] that is tried
          Main, Printer, Nobody

ASSUME JobAssumption == /\ NumJobs \in Nat \ {0} /\ MaxThreads \in Nat \ {0}
                        /\ ChunkSize \in Nat \ {0} /\ ChunkNum \in Nat \ {0}
                        /\ HeavyWeight \in Nat \ {0}

ASSUME NamesAssumption == /\ Main # Printer /\ Main # Nobody /\ Printer # Nobody
                          /\ {Main, Printer, Nobody} \cap (0..(MaxThreads - 1)) = {}

Programs == {"PreAssign", "Dynamic", "Homo", "Hetero"}
WithFiles == {"PreAssign", "Dynamic"}
Threads == 0..(MaxThreads - 1)
Workers == Threads \cup {Main}

VARIABLES
  program,            \* which of the four runs
  numOfWorkerThread,
  main, i,            \* where main is, and the index of its loop
  failed,             \* why exit(1) has ended the program
  pc,                 \* where each thread is, Main: main in its own calcSum
  thPara,             \* the range of jobs of a thread: para->first and para->last
  currentJobID, whichJobIHaveDone, sum, result,
  nextJobToBeDone, jobQueueMutex,
  subJob,             \* the queue of sub-jobs: its slots, subJobNum, nextSubJobToBeDone,
                      \* subJobQueueMutex and fullSlots
  printed,            \* what the printing thread has written
  workerSum

jobVars == <<nextJobToBeDone, jobQueueMutex>>
subVars == <<subJob, printed>>
mainVars == <<program, numOfWorkerThread, main, i, thPara, workerSum>>
ownVars == <<currentJobID, whichJobIHaveDone, sum, result>>
fixed == <<program, numOfWorkerThread, failed, stored>>
outside == <<fileVars, stored, failed, mainVars>>
vars == <<outside, pc, jobVars, subVars, ownVars>>

\* What each job adds to the sum: the bytes are all 1.
Bytes(p) == [j \in Jobs |-> IF p \in WithFiles THEN ChunkSize * ChunksOf(j) ELSE ChunkSize]

Init ==
  /\ GenerateInit
  /\ program \in Programs
  /\ stored = IF program \in WithFiles THEN [j \in Jobs |-> 0] ELSE Bytes(program)
  /\ \E argv \in 1..MaxThreads : numOfWorkerThread = Min({argv, NumJobs})
  /\ main = IF program \in WithFiles THEN "generate" ELSE "reset"
  /\ i = 0 /\ failed = "no" /\ workerSum = 0
  /\ pc = [t \in Workers \cup {Printer} |-> "out"]
  /\ thPara = [t \in Workers |-> <<0, NumJobs>>]
  /\ currentJobID = [t \in Workers \cup {Printer} |-> 0]
  /\ whichJobIHaveDone = [t \in Workers |-> {}]
  /\ sum = [t \in Workers |-> 0] /\ result = [t \in Workers |-> 0]
  /\ nextJobToBeDone = 0 /\ jobQueueMutex = Nobody
  /\ subJob = [slot |-> [k \in Jobs |-> 0], num |-> 0, next |-> 0,
               mutex |-> Nobody, fullSlots |-> 0]
  /\ printed = <<>>

Ended == failed # "no" \/ main = "exit"

At(t, label) == ~Ended /\ pc[t] = label
Move(t, from, to) == At(t, from) /\ pc' = [pc EXCEPT ![t] = to]
MainAt(label) == ~Ended /\ main = label

Exit(why) == failed' = why /\ UNCHANGED <<fileVars, stored, mainVars, pc, jobVars, subVars, ownVars>>

-----------------------------------------------------------------------------
(* The jobs of a thread: by its range, or by the counter *)

EnterRange(t) ==
  /\ Move(t, "enter", "range")
  /\ currentJobID' = [currentJobID EXCEPT ![t] = thPara[t][1]]
  /\ UNCHANGED <<outside, jobVars, subVars, whichJobIHaveDone, sum, result>>

NextInRange(t) ==
  /\ currentJobID[t] < thPara[t][2]
  /\ Move(t, "range", "process")
  /\ whichJobIHaveDone' = [whichJobIHaveDone EXCEPT ![t] = @ \cup {currentJobID[t]}]
  /\ UNCHANGED <<outside, jobVars, subVars, currentJobID, sum, result>>

RangeDone(t) ==
  /\ currentJobID[t] >= thPara[t][2]
  /\ Move(t, "range", "end")
  /\ UNCHANGED <<outside, jobVars, subVars, ownVars>>

\* Mutant: the counter is used without its mutex.
LockNot(t) ==
  /\ Move(t, "recv", "check")
  /\ UNCHANGED <<outside, jobVars, subVars, ownVars>>

LockJobs(t) ==
  /\ jobQueueMutex = Nobody
  /\ Move(t, "recv", "check")
  /\ jobQueueMutex' = t
  /\ UNCHANGED <<outside, nextJobToBeDone, subVars, ownVars>>

NoJobLeft(t) ==
  /\ nextJobToBeDone >= NumJobs
  /\ Move(t, "check", "end")
  /\ jobQueueMutex' = Nobody
  /\ UNCHANGED <<outside, nextJobToBeDone, subVars, ownVars>>

ReadCounter(t) ==
  /\ nextJobToBeDone < NumJobs
  /\ Move(t, "check", "take")
  /\ currentJobID' = [currentJobID EXCEPT ![t] = nextJobToBeDone]
  /\ UNCHANGED <<outside, jobVars, subVars, whichJobIHaveDone, sum, result>>

\* nextJobToBeDone++ and the unlock; the caller notes the job as its own.
TakeJob(t) ==
  /\ Move(t, "take", "process")
  /\ nextJobToBeDone' = nextJobToBeDone + 1
  /\ jobQueueMutex' = Nobody
  /\ whichJobIHaveDone' = [whichJobIHaveDone EXCEPT ![t] = @ \cup {currentJobID[t]}]
  /\ UNCHANGED <<outside, subVars, currentJobID, sum, result>>

recvAJob(t) == LockJobs(t) \/ NoJobLeft(t) \/ ReadCounter(t) \/ TakeJob(t)

\* The bytes of the job are added; the thread goes on to the next job of its
\* range, to the counter, or to the queue of sub-jobs.
processAJob(t) ==
  /\ Move(t, "process", CASE program = "PreAssign" -> "range"
                          [] program = "Hetero" -> "input"
                          [] OTHER -> "recv")
  /\ sum' = [sum EXCEPT ![t] = @ + stored[currentJobID[t]]]
  /\ currentJobID' = IF program = "PreAssign" THEN [currentJobID EXCEPT ![t] = @ + 1]
                     ELSE currentJobID
  /\ UNCHANGED <<outside, jobVars, subVars, whichJobIHaveDone, result>>

OpenFails(t) == At(t, "process") /\ program \in WithFiles /\ Exit("fopen")

TellResult(t) ==
  /\ Move(t, "end", "ended")
  /\ result' = [result EXCEPT ![t] = sum[t]]
  /\ UNCHANGED <<outside, jobVars, subVars, currentJobID, whichJobIHaveDone, sum>>

-----------------------------------------------------------------------------
(* HeteroThreads: the queue of sub-jobs *)

LockSubJobs(t, from, to) ==
  /\ subJob.mutex = Nobody
  /\ Move(t, from, to)
  /\ subJob' = [subJob EXCEPT !.mutex = t]
  /\ UNCHANGED <<outside, jobVars, printed, ownVars>>

PutSubJob(t) ==
  /\ subJob.num < NumJobs
  /\ Move(t, "put", "count")
  /\ subJob' = [subJob EXCEPT !.slot[subJob.num] = sum[t]]
  /\ UNCHANGED <<outside, jobVars, printed, ownVars>>

SubJobsFull(t) == At(t, "put") /\ subJob.num >= NumJobs /\ Exit("full")

CountSubJob(t) ==
  /\ Move(t, "count", "post")
  /\ subJob' = [subJob EXCEPT !.num = @ + 1, !.mutex = Nobody]
  /\ UNCHANGED <<outside, jobVars, printed, ownVars>>

PostSubJob(t) ==
  /\ Move(t, "post", "recv")
  /\ subJob' = [subJob EXCEPT !.fullSlots = @ + 1]
  /\ UNCHANGED <<outside, jobVars, printed, ownVars>>

\* Mutant: the sub-job is announced before it is put into the queue.
inputPostingFirst(t) ==
  \/ /\ Move(t, "input", "lock")
     /\ subJob' = [subJob EXCEPT !.fullSlots = @ + 1]
     /\ UNCHANGED <<outside, jobVars, printed, ownVars>>
  \/ LockSubJobs(t, "lock", "put") \/ PutSubJob(t) \/ SubJobsFull(t)
  \/ /\ Move(t, "count", "recv")
     /\ subJob' = [subJob EXCEPT !.num = @ + 1, !.mutex = Nobody]
     /\ UNCHANGED <<outside, jobVars, printed, ownVars>>

inputASubJob(t) ==
  LockSubJobs(t, "input", "put") \/ PutSubJob(t) \/ SubJobsFull(t)
    \/ CountSubJob(t) \/ PostSubJob(t)

WaitSubJob ==
  /\ subJob.fullSlots > 0
  /\ Move(Printer, "enter", "lock")
  /\ subJob' = [subJob EXCEPT !.fullSlots = @ - 1]
  /\ UNCHANGED <<outside, jobVars, printed, ownVars>>

TakeSubJob ==
  /\ Move(Printer, "take", "print")
  /\ currentJobID' = [currentJobID EXCEPT ![Printer] = subJob.next]
  /\ subJob' = [subJob EXCEPT !.next = @ + 1, !.mutex = Nobody]
  /\ UNCHANGED <<outside, jobVars, printed, whichJobIHaveDone, sum, result>>

recvASubJob == WaitSubJob \/ LockSubJobs(Printer, "lock", "take") \/ TakeSubJob

\* The slot is read without the mutex; the thread ends after the last sub-job.
processASubJob ==
  /\ Move(Printer, "print",
          IF currentJobID[Printer] = NumJobs - 1 THEN "ended" ELSE "enter")
  /\ printed' = Append(printed, subJob.slot[currentJobID[Printer]])
  /\ UNCHANGED <<outside, jobVars, subJob, ownVars>>

-----------------------------------------------------------------------------
(* main *)

Generate ==
  /\ MainAt("generate")
  /\ generateJobs
  /\ UNCHANGED <<failed, pc, jobVars, subVars, mainVars, ownVars>>

GenerateFails ==
  MainAt("generate") /\ Generating /\ chunk = 0 /\ writeSize = 0 /\ Exit("fopen")

\* The files are there and their size is told, and not used any more.
DoAllJobs ==
  /\ MainAt("generate") /\ ~Generating
  /\ main' = "own"
  /\ pc' = [pc EXCEPT ![Main] = IF program = "PreAssign" THEN "enter" ELSE "recv"]
  /\ totalBytes' = 0 /\ fills' = 0
  /\ UNCHANGED <<fixed, job, chunk, writeSize, disk, jobVars, subVars, i, thPara,
                 workerSum, ownVars>>

AllJobsDone ==
  /\ MainAt("own") /\ pc[Main] = "ended"
  /\ main' = "reset"
  /\ UNCHANGED <<fixed, fileVars, pc, jobVars, subVars, i, thPara, workerSum, ownVars>>

\* nextJobToBeDone=0; what main has done itself is forgotten.
Reset ==
  /\ MainAt("reset")
  /\ main' = "create"
  /\ nextJobToBeDone' = 0
  /\ whichJobIHaveDone' = [whichJobIHaveDone EXCEPT ![Main] = {}]
  /\ UNCHANGED <<fixed, fileVars, pc, jobQueueMutex, subVars, i, thPara, workerSum,
                 currentJobID, sum, result>>

\* Mutant: the last thread gets no more jobs than the others.
RangeOfEqual(t) == LET size == NumJobs \div numOfWorkerThread
                   IN  <<size * t, size * (t + 1)>>

\* The last thread gets what the division leaves over.
RangeOf(t) == LET size == NumJobs \div numOfWorkerThread
              IN  <<size * t, IF t # numOfWorkerThread - 1 THEN size * (t + 1) ELSE NumJobs>>

CreateThread ==
  /\ MainAt("create") /\ i < numOfWorkerThread
  /\ pc' = [pc EXCEPT ![i] = IF program = "PreAssign" THEN "enter" ELSE "recv"]
  /\ thPara' = [thPara EXCEPT ![i] = IF program = "PreAssign" THEN RangeOf(i) ELSE @]
  /\ i' = i + 1
  /\ UNCHANGED <<fixed, fileVars, jobVars, subVars, main, workerSum, ownVars>>

AllCreated ==
  /\ MainAt("create") /\ i = numOfWorkerThread
  /\ main' = "join" /\ i' = 0
  /\ pc' = [pc EXCEPT ![Printer] = IF program = "Hetero" THEN "enter" ELSE "ended"]
  /\ UNCHANGED <<fixed, fileVars, jobVars, subVars, thPara, workerSum, ownVars>>

CreateFails ==
  /\ MainAt("create")
  /\ i < numOfWorkerThread \/ program = "Hetero"
  /\ Exit("pthread_create")

Join ==
  /\ MainAt("join") /\ i < numOfWorkerThread
  /\ pc[i] = "ended"
  /\ i' = i + 1
  /\ UNCHANGED <<fixed, fileVars, pc, jobVars, subVars, main, thPara, workerSum, ownVars>>

AllJoined ==
  /\ MainAt("join") /\ i = numOfWorkerThread
  /\ pc[Printer] = "ended"
  /\ main' = "add" /\ i' = 0
  /\ UNCHANGED <<fixed, fileVars, pc, jobVars, subVars, thPara, workerSum, ownVars>>

\* One round of the last loop.
AddUp ==
  /\ MainAt("add") /\ i < numOfWorkerThread
  /\ workerSum' = workerSum + result[i]
  /\ i' = i + 1
  /\ UNCHANGED <<fixed, fileVars, pc, jobVars, subVars, main, thPara, ownVars>>

ExitMain ==
  /\ MainAt("add") /\ i = numOfWorkerThread
  /\ main' = "exit"
  /\ UNCHANGED <<fixed, fileVars, pc, jobVars, subVars, i, thPara, workerSum, ownVars>>
-----------------------------------------------------------------------------
(* The four programs *)

Calls(t) == processAJob(t) \/ TellResult(t)

PreAssignThread(t) == EnterRange(t) \/ NextInRange(t) \/ RangeDone(t) \/ OpenFails(t) \/ Calls(t)

DynamicThread(t) == recvAJob(t) \/ OpenFails(t) \/ Calls(t)

HomoThread(t) == recvAJob(t) \/ Calls(t)

HeteroThread(t) == recvAJob(t) \/ inputASubJob(t) \/ Calls(t)

fprintSum == recvASubJob \/ processASubJob

Generation == Generate \/ GenerateFails \/ DoAllJobs \/ AllJobsDone

Creation == Reset \/ CreateThread \/ AllCreated \/ CreateFails \/ Join
              \/ AllJoined \/ AddUp \/ ExitMain

PreAssignJob ==
  program = "PreAssign" /\ (Generation \/ Creation \/ \E t \in Workers : PreAssignThread(t))

DynamicAssignJob ==
  program = "Dynamic" /\ (Generation \/ Creation \/ \E t \in Workers : DynamicThread(t))

HomoThreads ==
  program = "Homo" /\ (Creation \/ \E t \in Threads : HomoThread(t))

HeteroThreads ==
  program = "Hetero" /\ (Creation \/ fprintSum \/ \E t \in Threads : HeteroThread(t))

Program == PreAssignJob \/ DynamicAssignJob \/ HomoThreads \/ HeteroThreads

Environment == MakeRoom /\ UNCHANGED <<failed, mainVars, pc, jobVars, subVars, ownVars>>

Next == \/ Program
        \/ Environment
        \/ Ended /\ UNCHANGED vars

Spec == Init /\ [][Next]_vars

-----------------------------------------------------------------------------
\* In a round no job is done by two threads: the ranges do not overlap, the
\* counter is read and increased under one lock.
JobsDisjoint ==
  \A t, u \in Workers : t # u => whichJobIHaveDone[t] \cap whichJobIHaveDone[u] = {}

\* Every sub-job is printed once, in the order of the queue, after it was
\* written to its slot, although the slot is read without the mutex; the queue
\* has room for all of them.  A thread with k jobs has k sums printed.
SubJobsPrinted ==
  /\ failed # "full"
  /\ \A k \in DOMAIN printed : printed[k] = subJob.slot[k - 1] /\ printed[k] > 0
  /\ main = "exit" /\ program = "Hetero" =>
       /\ Len(printed) = NumJobs
       /\ \A k \in 1..NumJobs :
            Cardinality({n \in 1..NumJobs : printed[n] = k * ChunkSize})
              = Cardinality({t \in Workers : Cardinality(whichJobIHaveDone[t]) >= k})

\* Each round does each job once and tells their sum: main's own round, then
\* the threads'.
Work == INSTANCE WorkOnce WITH
          worth <- Bytes(program),
          has <- whichJobIHaveDone,
          total <- IF main \in {"own", "reset"} /\ pc[Main] = "ended" THEN result[Main]
                   ELSE IF main = "exit" THEN workerSum ELSE -1

ImplementsWork == Work!Spec
=============================================================================
