------------------------ MODULE ThreadProgramsProofs ------------------------
(***************************************************************************)
(* Theorems about ThreadPrograms.tla for any number of jobs and threads,   *)
(* of depositors and rounds, of iterations and pages, and of lines.  Of    *)
(* the four modules only one runs; the invariant of each holds also of its *)
(* initial state, where it stays when another one runs.                    *)
(***************************************************************************)
EXTENDS ThreadPrograms, FiniteSetTheorems, TLAPS

-----------------------------------------------------------------------------
(* The child behind three pipes *)

PipeTypeOK ==
  /\ parent \in {"in", "out", "err", "fork", "popenFailed", "close", "create", "write", "join",
                 "pclose", "waitpid", "exit", "failed"}
  /\ child \in {"none", "close", "exec", "fgets", "fprintf", "ended", "notFound", "killed"}
  /\ reader \in {"none", "read", "ended"}
  /\ in \in Seq(Nat) /\ out \in Seq(Nat) /\ fgetsBuffer \in Seq(Nat) /\ shown \in Seq(Nat)
  /\ written \in Nat

\* The ends that main and the child have open tell where they are.
EndsHeld ==
  /\ open = [main |-> open.main, child |-> open.child]
  /\ parent \in {"in", "popenFailed", "waitpid", "exit", "failed"} => open.main = {}
  /\ parent = "out" => open.main = P!Ends("in")
  /\ parent = "err" => open.main = P!Ends("in") \cup P!Ends("out")
  /\ parent \in {"fork", "close"} => open.main = P!AllEnds
  /\ parent \in {"create", "write"} => open.main = P!ParentEnds
  /\ parent \in {"join", "pclose"} => open.main = {<<"out", 0>>, <<"err", 0>>}
  /\ child \in {"none", "ended", "notFound", "killed"} => open.child = {}
  /\ child = "close" => open.child = P!AllEnds
  /\ child \in {"exec", "fgets", "fprintf"} => open.child = P!AllEnds \ P!ParentEnds

\* The reader ends after the child, and main goes on after the reader: so the
\* child is killed only when main is gone.
EndInOrder ==
  /\ parent \in {"in", "out", "err", "fork", "popenFailed"} => child = "none"
  /\ parent \in {"close", "create", "write", "join", "pclose", "waitpid", "exit"} =>
       child # "none"
  /\ parent \in {"in", "out", "err", "fork", "popenFailed", "close", "create"} =>
       reader = "none" /\ written = 0
  /\ parent = "write" => reader # "none" /\ written < PipeLines
  /\ parent \in {"join", "pclose", "waitpid", "exit"} => reader # "none" /\ written = PipeLines
  /\ parent \in {"pclose", "waitpid", "exit"} => reader = "ended"
  /\ reader = "ended" => child \in {"ended", "notFound", "killed"} /\ out = <<>>
  /\ child = "killed" => parent = "failed"
  /\ child = "ended" => /\ in = <<>> /\ fgetsBuffer = <<>>
                        /\ parent \in {"join", "pclose", "waitpid", "exit", "failed"}
  /\ child \in {"none", "close", "exec", "notFound"} =>
       fgetsBuffer = <<>> /\ out = <<>> /\ shown = <<>>
  /\ child = "fprintf" => fgetsBuffer # <<>>

\* The lines on their way are numbered through, from the first one shown to the
\* last one written.
NumberedFrom(k, lines) == \A n \in 1..Len(lines) : lines[n] = k + n - 1
LinesInOrder ==
  /\ NumberedFrom(0, shown)
  /\ NumberedFrom(Len(shown), out)
  /\ NumberedFrom(Len(shown) + Len(out), fgetsBuffer)
  /\ NumberedFrom(Len(shown) + Len(out) + Len(fgetsBuffer), in)
  /\ written = Len(shown) + Len(out) + Len(fgetsBuffer) + Len(in)

PipeInv == PipeTypeOK /\ EndsHeld /\ EndInOrder /\ LinesInOrder

\* While one of main and the child has an end it is held.
LEMMA WhoHolds ==
  ASSUME EndsHeld
  PROVE  /\ parent \in {"close", "create", "write"} => P!Held(<<"in", 1>>)
         /\ parent \in {"close", "create", "write", "join", "pclose"} => P!Held(<<"out", 0>>)
         /\ child \in {"close", "exec", "fgets", "fprintf"} => P!Held(<<"out", 1>>)
<1>1. /\ parent \in {"close", "create", "write"} => <<"in", 1>> \in open.main
      /\ parent \in {"close", "create", "write", "join", "pclose"} => <<"out", 0>> \in open.main
      /\ child \in {"close", "exec", "fgets", "fprintf"} => <<"out", 1>> \in open.child
  BY DEF EndsHeld, P!AllEnds, P!Ends, P!ParentEnds
<1>2. open.main = open["main"] /\ open.child = open["child"]
  OBVIOUS
<1> QED
  BY <1>1, <1>2 DEF P!Held

LEMMA NumberedOn ==
  ASSUME NEW k \in Nat, NEW lines \in Seq(Nat), NumberedFrom(k, lines)
  PROVE  /\ \A n \in Nat : n = k + Len(lines) => NumberedFrom(k, Append(lines, n))
         /\ \A more \in Seq(Nat) : NumberedFrom(k + Len(lines), more)
                                   => NumberedFrom(k, lines \o more)
         /\ lines # <<>> => /\ Head(lines) = k /\ Tail(lines) \in Seq(Nat)
                            /\ NumberedFrom(k + 1, Tail(lines))
                            /\ Len(Tail(lines)) = Len(lines) - 1
<1>1. ASSUME NEW n \in Nat, n = k + Len(lines)
      PROVE  NumberedFrom(k, Append(lines, n))
  BY <1>1 DEF NumberedFrom
<1>2. ASSUME NEW more \in Seq(Nat), NumberedFrom(k + Len(lines), more)
      PROVE  NumberedFrom(k, lines \o more)
  <2> SUFFICES ASSUME NEW n \in 1..(Len(lines) + Len(more))
               PROVE  (lines \o more)[n] = k + n - 1
    BY DEF NumberedFrom
  <2>1. CASE n <= Len(lines)
    BY <2>1 DEF NumberedFrom
  <2>2. CASE n > Len(lines)
    <3>1. n - Len(lines) \in 1..Len(more) /\ (lines \o more)[n] = more[n - Len(lines)]
      BY <2>2
    <3> QED
      BY <1>2, <3>1 DEF NumberedFrom
  <2> QED
    BY <2>1, <2>2
<1>3. ASSUME lines # <<>>
      PROVE  /\ Head(lines) = k /\ Tail(lines) \in Seq(Nat)
             /\ NumberedFrom(k + 1, Tail(lines))
             /\ Len(Tail(lines)) = Len(lines) - 1
  BY <1>3 DEF NumberedFrom
<1> QED
  BY <1>1, <1>2, <1>3

LEMMA SameLines ==
  ASSUME PipeInv, UNCHANGED P!Lines
  PROVE  LinesInOrder' /\ UNCHANGED <<in, out, written, fgetsBuffer, shown>>
BY DEF PipeInv, LinesInOrder, NumberedFrom, P!Lines

LEMMA PipeInitInvariant == P!Init => PipeInv
<1> SUFFICES ASSUME P!Init
             PROVE  PipeInv
  OBVIOUS
<1>1. PipeTypeOK /\ EndsHeld /\ EndInOrder
  BY SmallAssumption DEF P!Init, PipeTypeOK, EndsHeld, EndInOrder
<1>2. LinesInOrder
  BY DEF P!Init, LinesInOrder, NumberedFrom
<1> QED
  BY <1>1, <1>2 DEF PipeInv

\* popenRWE: main makes the pipes, and the child gets a copy of all six ends.
LEMMA popenRWEInvariant ==
  ASSUME PipeInv, P!popenRWE
  PROVE  PipeInv'
<1>1. UNCHANGED P!Lines
  BY DEF P!popenRWE, P!Pipe, P!CallFails, P!Fork, P!ParentCloses
<1>2. /\ LinesInOrder'
      /\ UNCHANGED <<in, out, written, fgetsBuffer, shown>>
  BY <1>1, SameLines
<1>3. UNCHANGED reader
  BY DEF P!popenRWE, P!Pipe, P!CallFails, P!Fork, P!ParentCloses
<1>4. PipeTypeOK' /\ EndInOrder'
  BY <1>2, <1>3, SmallAssumption
  DEF P!popenRWE, P!Pipe, P!CallFails, P!Fork, P!ParentCloses, PipeInv, PipeTypeOK, EndInOrder
<1>5. EndsHeld'
  <2> USE DEF PipeInv, EndsHeld, PipeTypeOK
  <2>1. ASSUME NEW from, NEW to, P!Pipe(from, to),
               <<from, to>> \in {<<"in", "out">>, <<"out", "err">>, <<"err", "fork">>}
        PROVE  EndsHeld'
    BY <2>1 DEF P!Pipe, P!AllEnds
  <2>2. CASE P!CallFails
    BY <2>2 DEF P!CallFails, P!Error_err
  <2>3. CASE P!Fork
    BY <2>3 DEF P!Fork
  <2>4. CASE P!ParentCloses
    BY <2>4 DEF P!ParentCloses
  <2> QED
    BY <2>1, <2>2, <2>3, <2>4 DEF P!popenRWE
<1> QED
  BY <1>2, <1>4, <1>5 DEF PipeInv

\* The child: its last line is echoed before it finds the end of its input.
LEMMA ChildInvariant ==
  ASSUME PipeInv, P!ChildCloses \/ P!testProgram
  PROVE  PipeInv'
<1> USE DEF PipeInv, PipeTypeOK
<1>1. UNCHANGED <<parent, reader, written, shown>> /\ open'.main = open.main
  BY DEF P!ChildCloses, P!testProgram, P!Exec, P!ExecFails, P!Fgets, P!FgetsEnd, P!Fprintf,
         P!FprintfKilled, P!ChildEnds, P!Lines, EndsHeld
<1>2. CASE P!ChildCloses \/ P!Exec \/ P!ExecFails
  <2>1. LinesInOrder' /\ UNCHANGED <<in, out, fgetsBuffer>>
    BY <1>2, SameLines DEF P!ChildCloses, P!Exec, P!ExecFails, P!ChildEnds
  <2>2. EndsHeld'
    BY <1>2 DEF P!ChildCloses, P!Exec, P!ExecFails, P!ChildEnds, P!ChildKeeps, EndsHeld
  <2>3. PipeTypeOK' /\ EndInOrder'
    BY <1>1, <1>2, <2>1 DEF P!ChildCloses, P!Exec, P!ExecFails, P!ChildEnds, EndInOrder
  <2> QED
    BY <2>1, <2>2, <2>3
<1>3. CASE P!Fgets
  <2>1. EndsHeld'
    BY <1>3 DEF P!Fgets, EndsHeld
  <2>2. PipeTypeOK' /\ EndInOrder'
    BY <1>3 DEF P!Fgets, EndInOrder
  <2>3. LinesInOrder'
    <3>1. CASE fgetsBuffer # <<>>
      BY <1>3, <3>1 DEF P!Fgets, LinesInOrder, NumberedFrom
    <3>2. CASE fgetsBuffer = <<>>
      <4>1. /\ fgetsBuffer' = in /\ in' = <<>> /\ UNCHANGED <<out, written, shown>>
            /\ Len(fgetsBuffer) = 0 /\ Len(in') = 0 /\ Len(in) \in Nat
            /\ Len(shown) \in Nat /\ Len(out) \in Nat
        BY <1>3, <3>2 DEF P!Fgets
      <4> QED
        BY <4>1 DEF LinesInOrder, NumberedFrom
    <3> QED
      BY <3>1, <3>2
  <2> QED
    BY <2>1, <2>2, <2>3
<1>4. CASE P!FgetsEnd \/ P!FprintfKilled
  <2>1. LinesInOrder' /\ UNCHANGED <<in, out, fgetsBuffer>>
    BY <1>4, SameLines DEF P!FgetsEnd, P!FprintfKilled, P!ChildEnds
  <2>2. EndsHeld'
    BY <1>4 DEF P!FgetsEnd, P!FprintfKilled, P!ChildEnds, EndsHeld
  <2>3. PipeTypeOK' /\ EndInOrder'
    BY <1>1, <1>4, <2>1, WhoHolds DEF P!FgetsEnd, P!FprintfKilled, P!ChildEnds, EndInOrder
  <2> QED
    BY <2>1, <2>2, <2>3
<1>5. CASE P!Fprintf
  <2>1. EndsHeld'
    BY <1>5 DEF P!Fprintf, EndsHeld
  <2>2. fgetsBuffer # <<>>
    BY <1>5 DEF P!Fprintf, EndInOrder
  <2>3. /\ Len(shown) \in Nat /\ Len(out) \in Nat
        /\ Head(fgetsBuffer) = Len(shown) + Len(out)
        /\ NumberedFrom(Len(shown) + Len(out) + 1, Tail(fgetsBuffer))
        /\ Tail(fgetsBuffer) \in Seq(Nat) /\ Len(Tail(fgetsBuffer)) = Len(fgetsBuffer) - 1
    BY <2>2, NumberedOn DEF LinesInOrder
  <2>4. /\ NumberedFrom(Len(shown), out')
        /\ out' \in Seq(Nat) /\ Len(out') = Len(out) + 1
    BY <1>5, <2>3, NumberedOn DEF P!Fprintf, LinesInOrder
  <2>5. PipeTypeOK' /\ EndInOrder'
    BY <1>5, <2>3, <2>4 DEF P!Fprintf, EndInOrder
  <2>6. LinesInOrder'
    <3>1. /\ Len(shown) + Len(out') = Len(shown) + Len(out) + 1
          /\ Len(shown) + Len(out') + Len(fgetsBuffer') = Len(shown) + Len(out) + Len(fgetsBuffer)
      BY <1>5, <2>3, <2>4 DEF P!Fprintf
    <3> QED
      BY <1>5, <2>3, <2>4, <3>1 DEF P!Fprintf, LinesInOrder, NumberedFrom
  <2> QED
    BY <2>1, <2>5, <2>6
<1> QED
  BY <1>2, <1>3, <1>4, <1>5 DEF P!testProgram

LEMMA ReadOutputInvariant ==
  ASSUME PipeInv, P!ReadOutput
  PROVE  PipeInv'
<1> USE DEF PipeInv, PipeTypeOK
<1>1. CASE P!Read
  <2>1. EndsHeld'
    BY <1>1 DEF P!Read, EndsHeld
  <2>2. PipeTypeOK' /\ EndInOrder'
    BY <1>1 DEF P!Read, EndInOrder
  <2>3. /\ NumberedFrom(0, shown') /\ Len(shown') = Len(shown) + Len(out)
        /\ out' = <<>> /\ UNCHANGED <<fgetsBuffer, in, written>>
    BY <1>1, NumberedOn DEF P!Read, LinesInOrder
  <2>4. LinesInOrder'
    BY <2>3 DEF LinesInOrder, NumberedFrom
  <2> QED
    BY <2>1, <2>2, <2>4
<1>2. CASE P!ReadEnd
  <2>1. LinesInOrder' /\ UNCHANGED <<in, out, written, fgetsBuffer, shown>>
    BY <1>2, SameLines DEF P!ReadEnd
  <2>2. EndsHeld'
    BY <1>2 DEF P!ReadEnd, EndsHeld
  <2>3. parent \notin {"failed", "exit"} /\ child \notin {"close", "exec", "fgets", "fprintf"}
    BY <1>2, WhoHolds DEF P!ReadOutput, P!Ended, P!ReadEnd
  <2>4. PipeTypeOK' /\ EndInOrder'
    BY <1>2, <2>1, <2>3 DEF P!ReadEnd, EndInOrder
  <2> QED
    BY <2>1, <2>2, <2>4
<1> QED
  BY <1>1, <1>2 DEF P!ReadOutput

LEMMA mainInvariant ==
  ASSUME PipeInv, P!main
  PROVE  PipeInv'
<1> USE DEF PipeInv, PipeTypeOK
<1>1. CASE P!Write
  <2>1. /\ in' = Append(in, written) /\ written' = written + 1
        /\ UNCHANGED <<child, reader, out, fgetsBuffer, shown>>
        /\ parent = "write" /\ in' \in Seq(Nat) /\ Len(in') = Len(in) + 1
    BY <1>1 DEF P!Write
  <2>2. \/ written' < PipeLines /\ UNCHANGED <<parent, open>>
        \/ /\ ~(written' < PipeLines) /\ parent' = "join"
           /\ open' = [open EXCEPT !.main = @ \ {<<"in", 1>>}]
    BY <1>1 DEF P!Write
  <2>3. EndsHeld'
    BY <2>1, <2>2 DEF EndsHeld, P!ParentEnds
  <2>4. PipeTypeOK'
    BY <2>1, <2>2
  <2>5. EndInOrder'
    <3>1. PipeLines \in Nat /\ written < PipeLines
      BY <2>1, SmallAssumption DEF EndInOrder
    <3> QED
      BY <2>1, <2>2, <3>1 DEF EndInOrder
  <2>6. LinesInOrder'
    <3>1. NumberedFrom(Len(shown) + Len(out) + Len(fgetsBuffer), in')
      BY <2>1, NumberedOn DEF LinesInOrder
    <3>2. written' = Len(shown) + Len(out) + Len(fgetsBuffer) + Len(in')
      BY <2>1 DEF LinesInOrder
    <3>3. /\ NumberedFrom(0, shown)' /\ NumberedFrom(Len(shown), out)'
          /\ NumberedFrom(Len(shown) + Len(out), fgetsBuffer)'
      BY <2>1 DEF LinesInOrder, NumberedFrom
    <3>4. NumberedFrom(Len(shown) + Len(out) + Len(fgetsBuffer), in)'
      BY <2>1, <3>1 DEF NumberedFrom
    <3> QED
      BY <2>1, <3>2, <3>3, <3>4 DEF LinesInOrder
  <2> QED
    BY <2>3, <2>4, <2>5, <2>6
<1>2. CASE ~P!Write
  <2>1. UNCHANGED P!Lines /\ UNCHANGED child
    BY <1>2 DEF P!main, P!PopenFailed, P!CreateReader, P!CreateFails, P!WriteKilled, P!Join,
                P!pcloseRWE, P!ParentFails
  <2>2. LinesInOrder' /\ UNCHANGED <<in, out, written, fgetsBuffer, shown>>
    BY <2>1, SameLines
  <2>3. EndsHeld'
    BY <1>2 DEF P!main, P!PopenFailed, P!CreateReader, P!CreateFails, P!WriteKilled, P!Join,
                P!pcloseRWE, P!ParentFails, P!ParentEnds, EndsHeld
  <2>4. PipeTypeOK'
    BY <1>2, <2>2
    DEF P!main, P!PopenFailed, P!CreateReader, P!CreateFails, P!WriteKilled, P!Join, P!pcloseRWE,
        P!ParentFails
  <2>5. EndInOrder'
    <3>1. CASE P!CreateReader
      <4>1. 0 < PipeLines
        BY SmallAssumption
      <4> QED
        BY <2>2, <3>1, <4>1 DEF P!CreateReader, EndInOrder
    <3>2. CASE P!PopenFailed \/ P!CreateFails \/ P!WriteKilled
      BY <2>2, <3>2 DEF P!PopenFailed, P!CreateFails, P!WriteKilled, P!ParentFails, EndInOrder
    <3>3. CASE P!Join \/ P!pcloseRWE
      BY <2>2, <3>3 DEF P!Join, P!pcloseRWE, EndInOrder
    <3> QED
      BY <1>2, <3>1, <3>2, <3>3 DEF P!main
  <2> QED
    BY <2>2, <2>3, <2>4, <2>5
<1> QED
  BY <1>1, <1>2

LEMMA PipeNextInvariant ==
  ASSUME PipeInv, [P!Next]_P!vars
  PROVE  PipeInv'
<1>1. CASE P!Program
  BY <1>1, popenRWEInvariant, ChildInvariant, ReadOutputInvariant, mainInvariant DEF P!Program
<1>2. CASE UNCHANGED P!vars
  BY <1>2 DEF P!vars, P!Lines, PipeInv, PipeTypeOK, EndsHeld, EndInOrder, LinesInOrder,
              NumberedFrom
<1> QED
  BY <1>1, <1>2 DEF P!Next

LEMMA PipeInvariantImplies == PipeInv => P!PipesDrained
<1> SUFFICES ASSUME PipeInv
             PROVE  P!PipesDrained
  OBVIOUS
<1>1. \A n \in DOMAIN shown : shown[n] = n - 1
  <2>1. shown \in Seq(Nat) /\ \A n \in 1..Len(shown) : shown[n] = 0 + n - 1
    BY DEF PipeInv, PipeTypeOK, LinesInOrder, NumberedFrom
  <2> QED
    BY <2>1
<1>2. parent = "exit" => Len(shown) = IF child = "ended" THEN PipeLines ELSE 0
  BY DEF PipeInv, PipeTypeOK, EndInOrder, LinesInOrder
<1>3. parent \in {"exit", "popenFailed"} => open.main = {}
  BY DEF PipeInv, EndsHeld
<1> QED
  BY <1>1, <1>2, <1>3 DEF P!PipesDrained

-----------------------------------------------------------------------------
(* The job programs *)

USE JobAssumption, NamesAssumption

JobLabels == {"out", "enter", "range", "recv", "check", "take", "process", "input", "put",
              "count", "post", "lock", "print", "end", "ended"}

JobsTypeOK ==
  /\ numOfWorkerThread \in 1..MaxThreads
  /\ main \in {"generate", "own", "reset", "create", "join", "add", "exit"}
  /\ i \in Nat
  /\ pc \in [Workers \cup {Printer} -> JobLabels]
  /\ thPara \in [Workers -> Int \X Int]
  /\ currentJobID = [t \in Workers \cup {Printer} |-> currentJobID[t]]
  /\ \A t \in Workers : currentJobID[t] \in Int
  /\ whichJobIHaveDone \in [Workers -> SUBSET Int]
  /\ nextJobToBeDone \in Int

\* main works only in its own round, the threads only after it; who has not
\* begun has no job, and main gives up its own.
InRounds ==
  /\ main \in {"generate", "own", "reset"} => \A t \in Threads : pc[t] = "out"
  /\ main # "own" => pc[Main] \in {"out", "ended"}
  /\ main = "create" => \A t \in Threads : t >= i => pc[t] = "out"
  /\ main \in {"create", "join", "add", "exit"} => whichJobIHaveDone[Main] = {}
  /\ \A t \in Threads : pc[t] = "out" => whichJobIHaveDone[t] = {}

\* PreAssignJob: a thread stays in its range.
JobsInRange == \A t \in Workers : \A j \in whichJobIHaveDone[t] :
                 thPara[t][1] <= j /\ j < thPara[t][2]
NextAboveFirst == \A t \in Workers : pc[t] \in {"range", "process"} =>
                    thPara[t][1] <= currentJobID[t]
RangesGiven == \A t \in Threads : pc[t] # "out" =>
                 t < numOfWorkerThread /\ thPara[t] = RangeOf(t)

InRange == program = "PreAssign" => JobsInRange /\ NextAboveFirst /\ RangesGiven

\* The other programs: the counter is above every job that was taken, and who
\* is about to take one holds the mutex.
BelowCounter ==
  program # "PreAssign" =>
    /\ \A t \in Workers : \A j \in whichJobIHaveDone[t] : j < nextJobToBeDone
    /\ \A t \in Workers : pc[t] \in {"check", "take"} => jobQueueMutex = t
    /\ \A t \in Workers : pc[t] = "take" => currentJobID[t] = nextJobToBeDone
    /\ JobsDisjoint

JobsInv == JobsTypeOK /\ InRounds /\ InRange /\ BelowCounter

-----------------------------------------------------------------------------
\* What the invariant says stays true when nothing that it speaks of changes.
LEMMA NothingChanges ==
  ASSUME JobsInv, UNCHANGED <<program, numOfWorkerThread, main, i, pc, thPara, currentJobID,
                           whichJobIHaveDone, nextJobToBeDone, jobQueueMutex>>
  PROVE  JobsInv'
BY DEF JobsInv, JobsTypeOK, InRounds, InRange, JobsInRange, NextAboveFirst, RangesGiven, BelowCounter,
   JobsDisjoint, RangeOf

\* A thread moves on to a place that the invariant says nothing of.
LEMMA MoveOn ==
  ASSUME JobsInv, NEW t \in Workers \cup {Printer}, NEW to \in JobLabels,
         to \notin {"out", "range", "check", "take", "process"},
         pc[t] \notin {"out", "ended"} \/ t = Printer, pc' = [pc EXCEPT ![t] = to],
         UNCHANGED <<program, numOfWorkerThread, main, i, thPara,
                     whichJobIHaveDone, nextJobToBeDone>>,
         currentJobID' = [u \in Workers \cup {Printer} |-> currentJobID'[u]],
         \A u \in Workers : currentJobID'[u] = currentJobID[u],
         jobQueueMutex' # jobQueueMutex => pc[t] = "check" /\ t \in Workers
  PROVE  JobsInv'
<1> USE DEF Workers, Threads
<1>1. JobsTypeOK'
  BY DEF JobsInv, JobsTypeOK
<1>2. InRounds'
  BY DEF JobsInv, JobsTypeOK, InRounds
<1>3. InRange'
  BY DEF JobsInv, JobsTypeOK, InRange, JobsInRange, NextAboveFirst, RangesGiven, RangeOf
<1>4. BelowCounter'
  BY DEF JobsInv, JobsTypeOK, BelowCounter, JobsDisjoint
<1> QED
  BY <1>1, <1>2, <1>3, <1>4 DEF JobsInv

-----------------------------------------------------------------------------
(* The ranges *)

\* The range of a thread ends before those of later threads begin.
LEMMA RangesApart ==
  ASSUME JobsTypeOK, NEW t \in Threads, NEW u \in Threads, t < u, u < numOfWorkerThread
  PROVE  RangeOf(t)[2] <= RangeOf(u)[1]
<1> DEFINE size == NumJobs \div numOfWorkerThread
<1>1. numOfWorkerThread \in Nat \ {0} /\ t \in Nat /\ u \in Nat
  BY DEF JobsTypeOK, Threads
<1>2. size \in Nat
  BY <1>1
<1>3. PICK k \in Nat : u = t + 1 + k
  <2>1. u - (t + 1) \in Nat /\ u = t + 1 + (u - (t + 1))
    BY <1>1
  <2> QED
    BY <2>1
<1> HIDE DEF size
<1>4. size * (t + 1) <= size * u
  <2>1. size * u = size * (t + 1) + size * k
    BY <1>1, <1>2, <1>3
  <2>2. size * k \in Nat /\ size * (t + 1) \in Nat
    BY <1>1, <1>2, <1>3
  <2> QED
    BY <2>1, <2>2
<1>5. t # numOfWorkerThread - 1
  BY <1>1
<1> QED
  BY <1>4, <1>5 DEF RangeOf, size

\* Threads that stay in their ranges have no job in common.
LEMMA RangesDisjoint ==
  ASSUME JobsInv, program = "PreAssign"
  PROVE  JobsDisjoint
<1> SUFFICES ASSUME NEW t \in Workers, NEW u \in Workers, t # u,
                    NEW j \in whichJobIHaveDone[t], j \in whichJobIHaveDone[u]
             PROVE  FALSE
  BY DEF JobsDisjoint
<1>1. j \in Int
  BY DEF JobsInv, JobsTypeOK
<1>2. \A w \in Threads : whichJobIHaveDone[w] # {} => main \in {"create", "join", "add", "exit"}
  BY DEF JobsInv, JobsTypeOK, InRounds
<1>3. t \in Threads /\ u \in Threads
  BY <1>2 DEF JobsInv, InRounds, Workers
<1>4. \A w \in {t, u} : w < numOfWorkerThread /\ thPara[w] = RangeOf(w)
                          /\ thPara[w][1] <= j /\ j < thPara[w][2]
  BY <1>3 DEF JobsInv, InRounds, InRange, JobsInRange, RangesGiven, Workers
<1>5. \A w \in {t, u} : thPara[w][1] \in Int /\ thPara[w][2] \in Int
  BY DEF JobsInv, JobsTypeOK
<1>6. ~(RangeOf(t)[2] <= RangeOf(u)[1]) /\ ~(RangeOf(u)[2] <= RangeOf(t)[1])
  BY <1>1, <1>4, <1>5
<1>7. t < u \/ u < t
  BY <1>3 DEF Threads
<1> QED
  BY <1>3, <1>4, <1>6, <1>7, RangesApart DEF JobsInv

\* The ranges are the same after a step that does not change their number.
LEMMA SameRanges ==
  ASSUME UNCHANGED numOfWorkerThread
  PROVE  \A t \in Threads : RangeOf(t)' = RangeOf(t)
BY DEF RangeOf

LEMMA EnterRangeInvariant ==
  ASSUME JobsInv, program = "PreAssign", NEW t \in Workers, EnterRange(t)
  PROVE  JobsInv'
<1> USE DEF EnterRange, Move, At, outside, mainVars, jobVars, subVars, Workers, Threads, JobLabels
<1>1. JobsTypeOK'
  BY DEF JobsInv, JobsTypeOK
<1>2. InRounds'
  BY DEF JobsInv, JobsTypeOK, InRounds
<1>3. JobsInRange'
  BY DEF JobsInv, InRange, JobsInRange
<1>4. NextAboveFirst'
  <2> SUFFICES ASSUME NEW u \in Workers, pc'[u] \in {"range", "process"}
               PROVE  thPara[u][1] <= currentJobID'[u]
    BY DEF NextAboveFirst
  <2>1. CASE u = t
    <3>1. thPara[t][1] \in Int /\ currentJobID'[t] = thPara[t][1]
      BY DEF JobsInv, JobsTypeOK
    <3> QED
      BY <2>1, <3>1
  <2>2. CASE u # t
    <3>1. currentJobID'[u] = currentJobID[u] /\ pc'[u] = pc[u]
      BY <2>2 DEF JobsInv, JobsTypeOK
    <3> QED
      BY <3>1 DEF JobsInv, InRange, NextAboveFirst
  <2> QED
    BY <2>1, <2>2
<1>5. RangesGiven'
  <2>1. \A u \in Threads : pc'[u] # "out" => pc[u] # "out"
    BY DEF JobsInv, JobsTypeOK
  <2> QED
    BY <2>1, SameRanges DEF JobsInv, InRange, RangesGiven
<1> QED
  BY <1>1, <1>2, <1>3, <1>4, <1>5 DEF JobsInv, InRange, BelowCounter

LEMMA NextInRangeInvariant ==
  ASSUME JobsInv, program = "PreAssign", NEW t \in Workers, NextInRange(t)
  PROVE  JobsInv'
<1> USE DEF NextInRange, Move, At, outside, mainVars, jobVars, subVars, Workers, Threads, JobLabels
<1>1. JobsTypeOK'
  <2>1. currentJobID[t] \in Int
    BY DEF JobsInv, JobsTypeOK
  <2>2. whichJobIHaveDone' \in [Workers -> SUBSET Int]
    BY <2>1 DEF JobsInv, JobsTypeOK
  <2> QED
    BY <2>2 DEF JobsInv, JobsTypeOK
<1>2. InRounds'
  BY DEF JobsInv, JobsTypeOK, InRounds
<1>3. JobsInRange'
  BY DEF JobsInv, JobsTypeOK, InRange, JobsInRange, NextAboveFirst
<1>4. NextAboveFirst'
  BY DEF JobsInv, JobsTypeOK, InRange, NextAboveFirst
<1>5. RangesGiven'
  <2>1. \A u \in Threads : pc'[u] # "out" => pc[u] # "out"
    BY DEF JobsInv, JobsTypeOK
  <2> QED
    BY <2>1, SameRanges DEF JobsInv, InRange, RangesGiven
<1> QED
  BY <1>1, <1>2, <1>3, <1>4, <1>5 DEF JobsInv, InRange, BelowCounter

\* The job is done and the thread goes on to the next of its range.
LEMMA ProcessInRangeInvariant ==
  ASSUME JobsInv, program = "PreAssign", NEW t \in Workers, processAJob(t)
  PROVE  JobsInv'
<1> USE DEF Move, At, outside, mainVars, jobVars, subVars, Workers, Threads, JobLabels
<1>1. /\ pc[t] = "process" /\ pc' = [pc EXCEPT ![t] = "range"]
      /\ currentJobID' = [currentJobID EXCEPT ![t] = @ + 1]
      /\ UNCHANGED <<program, numOfWorkerThread, main, i, thPara, whichJobIHaveDone,
                     nextJobToBeDone, jobQueueMutex>>
  BY DEF processAJob
<1>2. JobsTypeOK'
  <2>1. pc' \in [Workers \cup {Printer} -> JobLabels]
    BY <1>1 DEF JobsInv, JobsTypeOK
  <2>2. /\ currentJobID' = [u \in Workers \cup {Printer} |-> currentJobID'[u]]
        /\ \A u \in Workers : currentJobID'[u] \in Int
    <3>1. \A u \in Workers : currentJobID[u] \in Int
      BY DEF JobsInv, JobsTypeOK
    <3>2. currentJobID = [u \in Workers \cup {Printer} |-> currentJobID[u]]
      BY DEF JobsInv, JobsTypeOK
    <3>3. currentJobID' = [u \in Workers \cup {Printer} |->
                             IF u = t THEN currentJobID[u] + 1 ELSE currentJobID[u]]
      BY <1>1, <3>2, Zenon
    <3> HIDE DEF Workers
    <3>4. \A u \in Workers : currentJobID'[u] \in Int
      BY <3>1, <3>3
    <3>5. currentJobID' = [u \in Workers \cup {Printer} |-> currentJobID'[u]]
      BY <3>3, Zenon
    <3> QED
      BY <3>4, <3>5
  <2> QED
    BY <1>1, <2>1, <2>2 DEF JobsInv, JobsTypeOK
<1>3. InRounds'
  BY <1>1 DEF JobsInv, JobsTypeOK, InRounds
<1>4. JobsInRange'
  BY <1>1 DEF JobsInv, InRange, JobsInRange
<1>5. NextAboveFirst'
  <2> SUFFICES ASSUME NEW u \in Workers, pc'[u] \in {"range", "process"}
               PROVE  thPara[u][1] <= currentJobID'[u]
    BY <1>1 DEF NextAboveFirst
  <2>1. thPara[u][1] \in Int /\ currentJobID[u] \in Int
    BY DEF JobsInv, JobsTypeOK
  <2>2. thPara[u][1] <= currentJobID[u] /\ currentJobID'[u] \in {currentJobID[u], currentJobID[u] + 1}
    BY <1>1 DEF JobsInv, JobsTypeOK, InRange, NextAboveFirst
  <2> QED
    BY <2>1, <2>2
<1>6. RangesGiven'
  <2>1. \A u \in Threads : pc'[u] # "out" => pc[u] # "out"
    BY <1>1 DEF JobsInv, JobsTypeOK
  <2> QED
    BY <1>1, <2>1, SameRanges DEF JobsInv, InRange, RangesGiven
<1> QED
  BY <1>1, <1>2, <1>3, <1>4, <1>5, <1>6 DEF JobsInv, InRange, BelowCounter

-----------------------------------------------------------------------------
(* The counter *)

LEMMA LockJobsInvariant ==
  ASSUME JobsInv, program # "PreAssign", NEW t \in Workers, LockJobs(t)
  PROVE  JobsInv'
<1> USE DEF LockJobs, Move, At, outside, mainVars, subVars, ownVars, Workers, Threads, JobLabels
<1>1. JobsTypeOK'
  BY DEF JobsInv, JobsTypeOK
<1>2. InRounds'
  BY DEF JobsInv, JobsTypeOK, InRounds
<1>3. BelowCounter'
  BY DEF JobsInv, JobsTypeOK, BelowCounter, JobsDisjoint
<1> QED
  BY <1>1, <1>2, <1>3 DEF JobsInv, InRange

LEMMA ReadCounterInvariant ==
  ASSUME JobsInv, program # "PreAssign", NEW t \in Workers, ReadCounter(t)
  PROVE  JobsInv'
<1> USE DEF ReadCounter, Move, At, outside, mainVars, jobVars, subVars, Workers, Threads, JobLabels
<1>1. JobsTypeOK'
  BY DEF JobsInv, JobsTypeOK
<1>2. InRounds'
  BY DEF JobsInv, JobsTypeOK, InRounds
<1>3. BelowCounter'
  BY DEF JobsInv, JobsTypeOK, BelowCounter, JobsDisjoint
<1> QED
  BY <1>1, <1>2, <1>3 DEF JobsInv, InRange

\* The job taken is the counter, which no thread has got before.
LEMMA TakeJobInvariant ==
  ASSUME JobsInv, program # "PreAssign", NEW t \in Workers, TakeJob(t)
  PROVE  JobsInv'
<1> USE DEF TakeJob, Move, At, outside, mainVars, subVars, Workers, Threads, JobLabels
<1>1. /\ currentJobID[t] = nextJobToBeDone /\ nextJobToBeDone \in Int
      /\ \A u \in Workers : u # t => pc[u] \notin {"check", "take"}
  BY DEF JobsInv, JobsTypeOK, BelowCounter
<1>2. JobsTypeOK'
  <2>1. whichJobIHaveDone' \in [Workers -> SUBSET Int]
    BY <1>1 DEF JobsInv, JobsTypeOK
  <2>2. pc' \in [Workers \cup {Printer} -> JobLabels]
    BY DEF JobsInv, JobsTypeOK
  <2>3. /\ UNCHANGED <<numOfWorkerThread, main, i, thPara, currentJobID>>
        /\ nextJobToBeDone' \in Int
    BY <1>1
  <2> HIDE DEF TakeJob, Workers, Threads, JobLabels
  <2> QED
    BY <2>1, <2>2, <2>3 DEF JobsInv, JobsTypeOK
<1>3. InRounds'
  BY DEF JobsInv, JobsTypeOK, InRounds
<1>4. \A u \in Workers : whichJobIHaveDone'[u] =
        IF u = t THEN whichJobIHaveDone[t] \cup {nextJobToBeDone} ELSE whichJobIHaveDone[u]
  BY <1>1 DEF JobsInv, JobsTypeOK
<1>5. \A u \in Workers : \A j \in whichJobIHaveDone[u] : j \in Int /\ j < nextJobToBeDone
  BY DEF JobsInv, JobsTypeOK, BelowCounter
<1>6. \A u \in Workers : \A j \in whichJobIHaveDone'[u] : j < nextJobToBeDone'
  BY <1>1, <1>4, <1>5
<1>7. \A u \in Workers : nextJobToBeDone \notin whichJobIHaveDone[u]
  BY <1>1, <1>5
<1>8. JobsDisjoint'
  <2>1. \A u, w \in Workers : u # w => whichJobIHaveDone[u] \cap whichJobIHaveDone[w] = {}
    BY DEF JobsInv, BelowCounter, JobsDisjoint
  <2> HIDE DEF TakeJob, Workers
  <2>2. \A u, w \in Workers : u # w => whichJobIHaveDone'[u] \cap whichJobIHaveDone'[w] = {}
    BY <1>4, <1>7, <2>1
  <2>3. Workers' = Workers
    BY DEF Workers
  <2> QED
    BY <2>2, <2>3 DEF JobsDisjoint
<1>9. \A u \in Workers : pc'[u] \notin {"check", "take"}
  BY <1>1 DEF JobsInv, JobsTypeOK
<1> QED
  BY <1>2, <1>3, <1>6, <1>8, <1>9 DEF JobsInv, InRange, BelowCounter

-----------------------------------------------------------------------------
(* main *)

LEMMA DoAllJobsInvariant ==
  ASSUME JobsInv, DoAllJobs
  PROVE  JobsInv'
<1> USE DEF DoAllJobs, MainAt, fixed, jobVars, subVars, ownVars, Workers, Threads, JobLabels
<1>1. JobsTypeOK'
  BY DEF JobsInv, JobsTypeOK
<1>2. InRounds'
  BY DEF JobsInv, JobsTypeOK, InRounds
<1>3. InRange'
  BY DEF JobsInv, JobsTypeOK, InRange, JobsInRange, NextAboveFirst, RangesGiven, RangeOf
<1>4. BelowCounter'
  BY DEF JobsInv, JobsTypeOK, BelowCounter, JobsDisjoint
<1> QED
  BY <1>1, <1>2, <1>3, <1>4 DEF JobsInv

LEMMA ResetInvariant ==
  ASSUME JobsInv, Reset
  PROVE  JobsInv'
<1> USE DEF Reset, MainAt, fixed, jobVars, subVars, ownVars, JobLabels
<1>1. JobsTypeOK'
  <2>1. whichJobIHaveDone' \in [Workers -> SUBSET Int] /\ Workers' = Workers
    BY DEF JobsInv, JobsTypeOK, Workers, Threads
  <2> QED
    BY <2>1 DEF JobsInv, JobsTypeOK
<1> USE DEF Workers, Threads
<1>2. \A u \in Workers : whichJobIHaveDone'[u] = {} /\ pc[u] \in {"out", "ended"}
  BY DEF JobsInv, JobsTypeOK, InRounds
<1>3. InRounds'
  BY <1>2 DEF JobsInv, JobsTypeOK, InRounds
<1>4. InRange'
  BY <1>2 DEF JobsInv, JobsTypeOK, InRange, JobsInRange, NextAboveFirst, RangesGiven, RangeOf
<1>5. BelowCounter'
  BY <1>2 DEF BelowCounter, JobsDisjoint
<1> QED
  BY <1>1, <1>3, <1>4, <1>5 DEF JobsInv

\* The new thread has done nothing, and its range is the one of its number.
LEMMA CreateThreadInvariant ==
  ASSUME JobsInv, CreateThread
  PROVE  JobsInv'
<1> USE DEF CreateThread, MainAt, fixed, jobVars, subVars, ownVars, JobLabels
<1>1. i \in Threads /\ i \in Workers /\ i # Main /\ i # Printer
  BY DEF JobsInv, JobsTypeOK, Workers, Threads
<1>2. pc[i] = "out" /\ whichJobIHaveDone[i] = {}
  BY <1>1 DEF JobsInv, JobsTypeOK, InRounds, Threads
<1>3. RangeOf(i) \in Int \X Int
  <2>1. i \in Nat /\ numOfWorkerThread \in Nat \ {0}
    BY DEF JobsInv, JobsTypeOK
  <2>2. NumJobs \div numOfWorkerThread \in Nat
    BY <2>1
  <2>3. (NumJobs \div numOfWorkerThread) * i \in Int
        /\ (NumJobs \div numOfWorkerThread) * (i + 1) \in Int
    BY <2>1, <2>2
  <2> QED
    BY <2>3 DEF RangeOf
<1>4. JobsTypeOK'
  <2>1. thPara' \in [Workers -> Int \X Int]
    BY <1>1, <1>3 DEF JobsInv, JobsTypeOK
  <2>2. pc' \in [Workers \cup {Printer} -> JobLabels]
    BY <1>1 DEF JobsInv, JobsTypeOK
  <2> QED
    BY <2>1, <2>2 DEF JobsInv, JobsTypeOK
<1>5. /\ pc'[i] \in {"enter", "recv"}
      /\ \A u \in Workers : u # i => pc'[u] = pc[u] /\ thPara'[u] = thPara[u]
  BY <1>1 DEF JobsInv, JobsTypeOK
<1>6. InRounds'
  BY <1>1, <1>2, <1>5 DEF JobsInv, JobsTypeOK, InRounds, Workers, Threads
<1>7. InRange'
  <2> SUFFICES ASSUME program = "PreAssign"
               PROVE  JobsInRange' /\ NextAboveFirst' /\ RangesGiven'
    BY DEF InRange
  <2>1. JobsInRange'
    BY <1>2, <1>5 DEF JobsInv, InRange, JobsInRange
  <2>2. NextAboveFirst'
    BY <1>5 DEF JobsInv, InRange, NextAboveFirst
  <2>3. thPara'[i] = RangeOf(i)
    BY <1>1 DEF JobsInv, JobsTypeOK
  <2>4. RangesGiven'
    BY <1>1, <1>5, <2>3, SameRanges DEF JobsInv, InRange, RangesGiven, Workers
  <2> QED
    BY <2>1, <2>2, <2>4
<1>8. BelowCounter'
  BY <1>5 DEF JobsInv, BelowCounter, JobsDisjoint
<1> QED
  BY <1>4, <1>6, <1>7, <1>8 DEF JobsInv

\* main goes on; of the threads only the printing one may begin.
LEMMA MainMovesOn ==
  ASSUME JobsInv, \/ AllJobsDone \/ AllCreated \/ Join
                  \/ AllJoined \/ AddUp \/ ExitMain
  PROVE  JobsInv'
<1> USE DEF AllJobsDone, AllCreated, Join, AllJoined, AddUp, ExitMain, MainAt, fixed, jobVars, subVars,
        ownVars, Workers, Threads, JobLabels
<1>1. JobsTypeOK'
  <2>1. pc' \in [Workers \cup {Printer} -> JobLabels]
    BY DEF JobsInv, JobsTypeOK
  <2>2. i' \in Nat /\ main' \in {"generate", "own", "reset", "create", "join", "add", "exit"}
    BY DEF JobsInv, JobsTypeOK
  <2>3. UNCHANGED <<numOfWorkerThread, thPara, currentJobID, whichJobIHaveDone, nextJobToBeDone>>
    OBVIOUS
  <2> HIDE DEF AllJobsDone, AllCreated, Join, AllJoined, AddUp, ExitMain
  <2> QED
    BY <2>1, <2>2, <2>3 DEF JobsInv, JobsTypeOK
<1>2. UNCHANGED <<program, numOfWorkerThread, thPara, currentJobID, whichJobIHaveDone,
                  nextJobToBeDone, jobQueueMutex>>
  OBVIOUS
<1>3. \A u \in Workers : pc'[u] = pc[u]
  BY DEF JobsInv, JobsTypeOK
<1>4. InRounds'
  BY <1>2, <1>3 DEF JobsInv, JobsTypeOK, InRounds
<1> HIDE DEF AllJobsDone, AllCreated, Join, AllJoined, AddUp, ExitMain
<1>5. InRange'
  BY <1>2, <1>3, SameRanges DEF JobsInv, InRange, JobsInRange, NextAboveFirst, RangesGiven
<1>6. BelowCounter'
  BY <1>2, <1>3 DEF JobsInv, BelowCounter, JobsDisjoint
<1> QED
  BY <1>1, <1>4, <1>5, <1>6 DEF JobsInv

-----------------------------------------------------------------------------
LEMMA JobsInitInvariant == Init => JobsInv
<1> SUFFICES ASSUME Init
             PROVE  JobsInv
  OBVIOUS
<1>1. PICK argv \in 1..MaxThreads : numOfWorkerThread = Min({argv, NumJobs})
  BY DEF Init
<1>2. numOfWorkerThread \in 1..MaxThreads
  <2>1. CASE argv <= NumJobs
    <3>1. \A x \in {argv, NumJobs} : (\A y \in {argv, NumJobs} : x <= y) => x = argv
      BY <2>1
    <3>2. \A y \in {argv, NumJobs} : argv <= y
      BY <2>1
    <3>3. numOfWorkerThread = argv
      BY <1>1, <3>1, <3>2 DEF Min
    <3> QED
      BY <3>3
  <2>2. CASE argv > NumJobs
    <3>1. \A x \in {argv, NumJobs} : (\A y \in {argv, NumJobs} : x <= y) => x = NumJobs
      BY <2>2
    <3>2. \A y \in {argv, NumJobs} : NumJobs <= y
      BY <2>2
    <3>3. numOfWorkerThread = NumJobs
      BY <1>1, <3>1, <3>2 DEF Min
    <3> QED
      BY <2>2, <3>3
  <2> QED
    BY <2>1, <2>2
<1>3. main \in {"generate", "reset"}
  BY DEF Init
<1>4. JobsTypeOK
  BY <1>2, <1>3 DEF Init, JobsTypeOK, Workers, Threads, JobLabels
<1>5. InRounds
  BY <1>3 DEF Init, InRounds, Workers, Threads
<1>6. InRange
  BY DEF Init, InRange, JobsInRange, NextAboveFirst, RangesGiven, Workers, Threads
<1>7. BelowCounter
  BY DEF Init, BelowCounter, JobsDisjoint, Workers, Threads
<1> QED
  BY <1>4, <1>5, <1>6, <1>7 DEF JobsInv

\* A step after which the variables that the invariant names are as before.
LEMMA ElsewhereInvariant ==
  ASSUME JobsInv, \/ Generate \/ GenerateFails \/ CreateFails \/ Environment \/ UNCHANGED vars
               \/ \E t \in Workers : OpenFails(t) \/ SubJobsFull(t)
  PROVE  JobsInv'
<1>1. UNCHANGED <<program, numOfWorkerThread, main, i, pc, thPara, currentJobID,
                  whichJobIHaveDone, nextJobToBeDone, jobQueueMutex>>
  BY DEF Generate, GenerateFails, CreateFails, OpenFails, SubJobsFull, Exit, Environment, vars,
         outside, mainVars, jobVars, ownVars
<1> QED
  BY <1>1, NothingChanges

\* HeteroThreads: a thread queues its sum, the printing thread takes it.
LEMMA QueueOfSubJobsInvariant ==
  ASSUME JobsInv, (\E t \in Workers : inputASubJob(t) /\ ~SubJobsFull(t)) \/ fprintSum
  PROVE  JobsInv'
<1> DEFINE Still == UNCHANGED <<program, numOfWorkerThread, main, i, thPara,
                               whichJobIHaveDone, nextJobToBeDone, jobQueueMutex>>
<1>1. ASSUME NEW t \in Workers, inputASubJob(t), ~SubJobsFull(t)
      PROVE  JobsInv'
  <2>1. PICK to \in {"put", "count", "post", "recv"} : pc' = [pc EXCEPT ![t] = to]
    BY <1>1, Zenon DEF inputASubJob, LockSubJobs, PutSubJob, CountSubJob, PostSubJob, Move
  <2>2. pc[t] \in {"input", "put", "count", "post"} /\ Still /\ currentJobID' = currentJobID
    BY <1>1 DEF inputASubJob, LockSubJobs, PutSubJob, CountSubJob, PostSubJob, Move, At,
                outside, mainVars, jobVars, ownVars
  <2> QED
    BY <2>1, <2>2, MoveOn DEF JobsInv, JobsTypeOK, JobLabels
<1>2. ASSUME fprintSum
      PROVE  JobsInv'
  <2>1. PICK to \in {"enter", "lock", "take", "print", "ended"} :
          pc' = [pc EXCEPT ![Printer] = to]
    BY <1>2 DEF fprintSum, recvASubJob, WaitSubJob, LockSubJobs, TakeSubJob, processASubJob, Move
  <2>2. Still
    BY <1>2 DEF fprintSum, recvASubJob, WaitSubJob, LockSubJobs, TakeSubJob, processASubJob,
                outside, mainVars, jobVars, ownVars
  <2>3. \/ currentJobID' = currentJobID
        \/ currentJobID' = [currentJobID EXCEPT ![Printer] = subJob.next]
    BY <1>2 DEF fprintSum, recvASubJob, WaitSubJob, LockSubJobs, TakeSubJob, processASubJob,
                ownVars
  <2>4. /\ currentJobID' = [u \in Workers \cup {Printer} |-> currentJobID'[u]]
        /\ \A u \in Workers : currentJobID'[u] = currentJobID[u] /\ pc'[u] = pc[u]
    BY <2>1, <2>3 DEF JobsInv, JobsTypeOK, Workers, Threads
  <2>5. JobsTypeOK'
    <3>1. pc' \in [Workers \cup {Printer} -> JobLabels]
      BY <2>1 DEF JobsInv, JobsTypeOK, JobLabels
    <3> QED
      BY <2>2, <2>4, <3>1 DEF JobsInv, JobsTypeOK
  <2>6. InRounds'
    BY <2>2, <2>4 DEF JobsInv, InRounds, Workers
  <2>7. InRange'
    BY <2>2, <2>4, SameRanges DEF JobsInv, InRange, JobsInRange, NextAboveFirst, RangesGiven, Workers
  <2>8. BelowCounter'
    BY <2>2, <2>4 DEF JobsInv, BelowCounter, JobsDisjoint
  <2> QED
    BY <2>5, <2>6, <2>7, <2>8 DEF JobsInv
<1> QED
  BY <1>1, <1>2

\* The other steps of a thread go to places where it holds no job by right.
LEMMA ThreadMovesOn ==
  ASSUME JobsInv, NEW t \in Workers,
         \/ RangeDone(t) \/ TellResult(t)
         \/ program # "PreAssign" /\ processAJob(t)
         \/ program # "PreAssign" /\ NoJobLeft(t)
  PROVE  JobsInv'
<1>1. PICK to \in {"end", "ended", "input", "recv"} : pc' = [pc EXCEPT ![t] = to]
  BY DEF RangeDone, TellResult, processAJob, NoJobLeft, Move
<1>2. /\ pc[t] \in {"range", "end", "process", "check"}
      /\ UNCHANGED <<program, numOfWorkerThread, main, i, thPara, whichJobIHaveDone,
                     nextJobToBeDone, currentJobID>>
      /\ jobQueueMutex' # jobQueueMutex => pc[t] = "check"
  BY DEF RangeDone, TellResult, processAJob, NoJobLeft, Move, At, outside, mainVars, jobVars, ownVars
<1> QED
  BY <1>1, <1>2, MoveOn DEF JobsInv, JobsTypeOK, JobLabels

-----------------------------------------------------------------------------
LEMMA JobsNextInvariant ==
  ASSUME JobsInv, [Next]_vars
  PROVE  JobsInv'
<1>1. CASE Generation
  BY <1>1, ElsewhereInvariant, DoAllJobsInvariant, MainMovesOn DEF Generation
<1>2. CASE Creation
  BY <1>2, ElsewhereInvariant, ResetInvariant, CreateThreadInvariant, MainMovesOn DEF Creation
<1>3. ASSUME program = "PreAssign", NEW t \in Workers, PreAssignThread(t)
      PROVE  JobsInv'
  BY <1>3, EnterRangeInvariant, NextInRangeInvariant, ProcessInRangeInvariant, ThreadMovesOn,
     ElsewhereInvariant DEF PreAssignThread, Calls
<1>4. ASSUME program # "PreAssign", NEW t \in Workers, recvAJob(t) \/ Calls(t) \/ OpenFails(t)
      PROVE  JobsInv'
  BY <1>4, LockJobsInvariant, ReadCounterInvariant, TakeJobInvariant, ThreadMovesOn,
     ElsewhereInvariant DEF recvAJob, Calls
<1>5. ASSUME NEW t \in Workers, inputASubJob(t)
      PROVE  JobsInv'
  BY <1>5, QueueOfSubJobsInvariant, ElsewhereInvariant
<1>6. CASE PreAssignJob
  BY <1>1, <1>2, <1>3, <1>6 DEF PreAssignJob
<1>7. CASE DynamicAssignJob
  BY <1>1, <1>2, <1>4, <1>7 DEF DynamicAssignJob, DynamicThread
<1>8. CASE HomoThreads
  BY <1>2, <1>4, <1>8 DEF HomoThreads, HomoThread, Workers
<1>9. CASE HeteroThreads
  BY <1>2, <1>4, <1>5, <1>9, QueueOfSubJobsInvariant DEF HeteroThreads, HeteroThread, Workers
<1> QED
  BY <1>6, <1>7, <1>8, <1>9, ElsewhereInvariant DEF Next, Program

-----------------------------------------------------------------------------
(* Sums *)

\* The sum of f[j] over S, as the cardinality of a set.
UnitsOf(f, S) == UNION {{j} \X (1..f[j]) : j \in S}
SumOver(f, S) == Cardinality(UnitsOf(f, S))

LEMMA JobsFinite ==
  ASSUME NEW S \in SUBSET Jobs
  PROVE  IsFiniteSet(S)
<1>1. IsFiniteSet(Jobs)
  BY FS_Interval DEF Jobs
<1> QED
  BY <1>1, FS_Subset

LEMMA OneTerm ==
  ASSUME NEW j, NEW k \in Nat
  PROVE  IsFiniteSet({j} \X (1..k)) /\ Cardinality({j} \X (1..k)) = k
<1>1. IsFiniteSet({j}) /\ Cardinality({j}) = 1
  BY FS_Singleton
<1>2. IsFiniteSet(1..k) /\ Cardinality(1..k) = k
  BY FS_Interval
<1>3. /\ IsFiniteSet({j} \X (1..k))
      /\ Cardinality({j} \X (1..k)) = Cardinality({j}) * Cardinality(1..k)
  BY <1>1, <1>2, FS_Product
<1> QED
  BY <1>1, <1>2, <1>3

LEMMA SumType ==
  ASSUME NEW S \in SUBSET Jobs, NEW f \in [Jobs -> Nat]
  PROVE  IsFiniteSet(UnitsOf(f, S)) /\ SumOver(f, S) \in Nat
<1> DEFINE g == [j \in S |-> {j} \X (1..f[j])]
           U == {g[j] : j \in S}
<1>1. IsFiniteSet(S)
  BY JobsFinite
<1>2. U = {{j} \X (1..f[j]) : j \in S}
  OBVIOUS
<1>3. IsFiniteSet(U)
  <2>1. g \in Surjection(S, U)
    BY DEF Surjection
  <2> HIDE DEF g, U
  <2> QED
    BY <1>1, <2>1, FS_Surjection
<1>4. ASSUME NEW T \in U
      PROVE  IsFiniteSet(T)
  <2>1. PICK j \in S : T = {j} \X (1..f[j])
    BY <1>2
  <2>2. f[j] \in Nat
    BY <2>1
  <2> QED
    BY <2>1, <2>2, OneTerm
<1> HIDE DEF U
<1>5. IsFiniteSet(UNION U)
  BY <1>3, <1>4, FS_UNION
<1>6. UnitsOf(f, S) = UNION U
  BY <1>2 DEF UnitsOf
<1> QED
  BY <1>5, <1>6, FS_CardinalityType DEF SumOver

LEMMA SumSame ==
  ASSUME NEW S, NEW f, NEW g, \A j \in S : f[j] = g[j]
  PROVE  SumOver(f, S) = SumOver(g, S)
<1>1. UnitsOf(f, S) = UnitsOf(g, S)
  BY DEF UnitsOf
<1> QED
  BY <1>1 DEF SumOver

LEMMA SumDisjoint ==
  ASSUME NEW S \in SUBSET Jobs, NEW T \in SUBSET Jobs, NEW f \in [Jobs -> Nat], S \cap T = {}
  PROVE  SumOver(f, S \cup T) = SumOver(f, S) + SumOver(f, T)
<1> DEFINE U == UnitsOf(f, S)
           V == UnitsOf(f, T)
<1>1. IsFiniteSet(U) /\ IsFiniteSet(V)
  BY SumType
<1>2. U \cap V = {}
  BY DEF UnitsOf
<1>3. UnitsOf(f, S \cup T) = U \cup V
  BY DEF UnitsOf
<1>4. Cardinality(U \cap V) = 0
  BY <1>2, FS_EmptySet
<1>5. Cardinality(U) \in Nat /\ Cardinality(V) \in Nat
  BY <1>1, FS_CardinalityType
<1> HIDE DEF U, V
<1>6. Cardinality(U \cup V) = Cardinality(U) + Cardinality(V) - Cardinality(U \cap V)
  BY <1>1, FS_Union
<1>7. Cardinality(U \cup V) = Cardinality(U) + Cardinality(V)
  BY <1>4, <1>5, <1>6
<1> QED
  BY <1>3, <1>7 DEF SumOver, U, V

LEMMA SumOfOne ==
  ASSUME NEW j \in Jobs, NEW f \in [Jobs -> Nat]
  PROVE  SumOver(f, {j}) = f[j]
<1>1. UnitsOf(f, {j}) = {j} \X (1..f[j])
  BY DEF UnitsOf
<1> QED
  BY <1>1, OneTerm DEF SumOver

LEMMA SumWith ==
  ASSUME NEW S \in SUBSET Jobs, NEW f \in [Jobs -> Nat], NEW j \in Jobs, j \notin S
  PROVE  SumOver(f, S \cup {j}) = SumOver(f, S) + f[j]
<1>1. SumOver(f, S \cup {j}) = SumOver(f, S) + SumOver(f, {j})
  <2>1. {j} \in SUBSET Jobs /\ S \cap {j} = {}
    OBVIOUS
  <2> QED
    BY <2>1, SumDisjoint
<1> QED
  BY <1>1, SumOfOne

\* One term of a sum grows.
LEMMA SumGrows ==
  ASSUME NEW f \in [Jobs -> Nat], NEW g \in [Jobs -> Nat], NEW k \in Jobs,
         \A j \in Jobs \ {k} : g[j] = f[j]
  PROVE  SumOver(g, Jobs) = SumOver(f, Jobs) + g[k] - f[k]
<1> DEFINE S == Jobs \ {k}
<1>1. S \in SUBSET Jobs /\ k \notin S /\ S \cup {k} = Jobs
  OBVIOUS
<1>2. SumOver(g, S) = SumOver(f, S)
  BY SumSame
<1>3. SumOver(f, S) \in Nat
  BY <1>1, SumType
<1> HIDE DEF S
<1>4. SumOver(g, Jobs) = SumOver(g, S) + g[k]
  BY <1>1, SumWith
<1>5. SumOver(f, Jobs) = SumOver(f, S) + f[k]
  BY <1>1, SumWith
<1> QED
  BY <1>2, <1>3, <1>4, <1>5

LEMMA SumOfEqual ==
  ASSUME NEW S \in SUBSET Jobs, NEW f \in [Jobs -> Nat], NEW k \in Nat,
         \A j \in S : f[j] = k
  PROVE  SumOver(f, S) = Cardinality(S) * k
<1>1. IsFiniteSet(S) /\ IsFiniteSet(1..k) /\ Cardinality(1..k) = k
  BY JobsFinite, FS_Interval
<1>2. Cardinality(S \X (1..k)) = Cardinality(S) * k
  BY <1>1, FS_Product
<1>3. UnitsOf(f, S) = S \X (1..k)
  BY DEF UnitsOf
<1> QED
  BY <1>2, <1>3 DEF SumOver

LEMMA SumOfNone == \A f : SumOver(f, {}) = 0
<1>1. \A f : UnitsOf(f, {}) = {}
  BY DEF UnitsOf
<1> QED
  BY <1>1, FS_EmptySet DEF SumOver

-----------------------------------------------------------------------------
(* The files, the jobs, the sums and the queue of sub-jobs: what holds of them *)

\* t takes part in the round that is going on: main's own, or the threads'.
TakesPart(t) == t \in Threads \/ main \in {"generate", "own", "reset"}

\* main has told the threads to begin when they are created, and goes on when they
\* have ended.
Places ==
  /\ numOfWorkerThread <= NumJobs
  /\ main = "generate" => program \in WithFiles /\ pc[Main] = "out"
  /\ main = "own" => pc[Main] # "out"
  /\ main = "reset" => pc[Main] = "ended" \/ (program \notin WithFiles /\ pc[Main] = "out")
  /\ main \in {"generate", "own", "reset"} => i = 0
  /\ main \in {"create", "join", "add", "exit"} => i <= numOfWorkerThread
  /\ main = "create" => \A t \in Threads : t < i <=> pc[t] # "out"
  /\ main \in {"join", "add", "exit"} =>
       \A t \in Threads : t < numOfWorkerThread <=> pc[t] # "out"
  /\ main = "join" => \A t \in Threads : t < i => pc[t] = "ended"
  /\ main \in {"add", "exit"} => \A t \in Threads : pc[t] \in {"out", "ended"}
  /\ main = "exit" => i = numOfWorkerThread

\* The files before main begins with the jobs: those up to job are written, job up to
\* chunk and writeSize.
Writing ==
  /\ job \in 0..NumJobs /\ chunk \in Nat /\ writeSize \in 0..(ChunkSize - 1)
  /\ totalBytes \in Nat /\ fills \in Nat
  /\ Generating => chunk < ChunksOf(job) /\ stored[job] = ChunkSize * chunk + writeSize
  /\ ~Generating => chunk = 0 /\ writeSize = 0
  /\ \A j \in Jobs : /\ j < job => stored[j] = ChunkSize * ChunksOf(j)
                     /\ j > job => stored[j] = 0
  /\ disk = "full" => fills > 0
  /\ totalBytes >= SumOver(stored, Jobs)
  /\ fills = 0 => writeSize = 0 /\ totalBytes = SumOver(stored, Jobs)

\* Afterwards each job has the bytes it should have.
Files ==
  /\ stored \in [Jobs -> Nat]
  /\ main = "generate" => Writing
  /\ main # "generate" => stored = Bytes(program) /\ totalBytes = 0

\* PreAssignJob: the jobs a thread has done are those of its range up to where it is.
DoneInRange ==
  /\ thPara[Main] = <<0, NumJobs>>
  /\ \A t \in Workers : TakesPart(t) =>
    LET first == thPara[t][1]
        last == thPara[t][2]
    IN  /\ pc[t] \in {"out", "enter"} => whichJobIHaveDone[t] = {}
        /\ pc[t] = "range" => /\ whichJobIHaveDone[t] = first..(currentJobID[t] - 1)
                              /\ currentJobID[t] <= last
        /\ pc[t] = "process" => /\ whichJobIHaveDone[t] = first..currentJobID[t]
                                /\ currentJobID[t] < last
        /\ pc[t] \in {"end", "ended"} => whichJobIHaveDone[t] = first..(last - 1)

\* The other programs: all jobs below the counter are taken.
DoneBelowCounter ==
  /\ nextJobToBeDone \in 0..NumJobs
  /\ \A t \in Workers : pc[t] = "take" => nextJobToBeDone < NumJobs
  /\ \A t \in Workers : TakesPart(t) /\ pc[t] \in {"end", "ended"} => nextJobToBeDone = NumJobs
  /\ \A j \in Jobs :
       j < nextJobToBeDone <=> \E t \in Workers : j \in whichJobIHaveDone[t]

Done ==
  /\ \A t \in Workers : whichJobIHaveDone[t] \subseteq Jobs
  /\ \A t \in Workers : pc[t] = "out" => whichJobIHaveDone[t] = {}
  /\ \A t \in Workers : pc[t] = "process" => currentJobID[t] \in whichJobIHaveDone[t]
  /\ program = "PreAssign" => DoneInRange
  /\ program # "PreAssign" => DoneBelowCounter

\* The jobs of a thread without the one it is at.
Processed(t) == {j \in whichJobIHaveDone[t] : pc[t] = "process" => j # currentJobID[t]}

\* The jobs of the threads whose results have been added up.
JobsAdded == {j \in Jobs : \E t \in Threads : t < i /\ j \in whichJobIHaveDone[t]}

Sums ==
  /\ sum \in [Workers -> Nat] /\ result \in [Workers -> Nat] /\ workerSum \in Nat
  /\ \A t \in Workers : TakesPart(t) =>
       /\ sum[t] = SumOver(Bytes(program), Processed(t))
       /\ pc[t] = "ended" => result[t] = sum[t]
  /\ main \notin {"add", "exit"} => workerSum = 0
  /\ main \in {"add", "exit"} =>
       workerSum = SumOver(Bytes(program), JobsAdded)

\* HeteroThreads: the queue of sub-jobs.
QueueTypeOK ==
  /\ subJob \in [slot : [Jobs -> Nat], num : Nat, next : Nat,
                 mutex : Threads \cup {Printer, Nobody}, fullSlots : Nat]
  /\ printed \in Seq(Nat)

AtPlaces(labels) == {t \in Threads : pc[t] \in labels}
InHand == Cardinality(AtPlaces({"process", "input", "put", "count"}))
Announcing == Cardinality(AtPlaces({"post"}))

\* Every job taken is with a thread or in the queue; every sub-job in the queue is about
\* to be announced, announced by the semaphore, with the printing thread, or printed.
QueueCounts ==
  /\ nextJobToBeDone = subJob.num + InHand
  /\ subJob.num = subJob.next + subJob.fullSlots + Announcing
                  + (IF pc[Printer] \in {"lock", "take"} THEN 1 ELSE 0)
  /\ subJob.next = Len(printed) + (IF pc[Printer] = "print" THEN 1 ELSE 0)

QueuePlaces ==
  /\ main = "reset" => nextJobToBeDone = 0
  /\ main \in {"reset", "create"} => pc[Printer] = "out"
  /\ main \in {"add", "exit"} => pc[Printer] = "ended"
  /\ \A t \in Threads : pc[t] \in {"put", "count"} => subJob.mutex = t
  /\ pc[Printer] = "take" => subJob.mutex = Printer
  /\ pc[Printer] = "print" => currentJobID[Printer] = subJob.next - 1
  /\ pc[Printer] = "ended" <=> Len(printed) = NumJobs
  /\ pc[Printer] = "out" => Len(printed) = 0

\* The number of jobs whose sum thread t has put into a slot.
PutBy(t) == Cardinality(whichJobIHaveDone[t])
              - (IF pc[t] \in {"process", "input", "put"} THEN 1 ELSE 0)

\* The slots that are written, counted from 1.
SlotsWritten == {n \in 1..NumJobs : \/ n <= subJob.num
                                    \/ /\ n = subJob.num + 1
                                       /\ \E t \in Threads : pc[t] = "count"}

\* The k-th sum of a thread is k chunks: there are as many of them as threads that
\* have put k sums or more.
SlotsWith(k) == {n \in SlotsWritten : subJob.slot[n - 1] = k * ChunkSize}
ThreadsWith(k) == {t \in Threads : PutBy(t) >= k}

SlotsHold ==
  /\ \A t \in Threads : pc[t] \in {"input", "put"} => whichJobIHaveDone[t] # {}
  /\ \A n \in SlotsWritten : subJob.slot[n - 1] > 0
  /\ \A n \in 1..Len(printed) : printed[n] = subJob.slot[n - 1]
  /\ \A k \in 1..NumJobs : Cardinality(SlotsWith(k)) = Cardinality(ThreadsWith(k))

Queue ==
  /\ failed # "full"
  /\ program # "Hetero" => printed = <<>>
  /\ program = "Hetero" => QueueTypeOK /\ QueueCounts /\ QueuePlaces /\ SlotsHold

-----------------------------------------------------------------------------
(* The files *)

LEMMA ChunksType == \A j \in Jobs : ChunksOf(j) \in Nat \ {0}
BY DEF ChunksOf

LEMMA BytesType == \A p : Bytes(p) \in [Jobs -> Nat \ {0}]
<1>1. \A j \in Jobs : ChunkSize * ChunksOf(j) \in Nat \ {0}
  BY ChunksType
<1> QED
  BY <1>1 DEF Bytes

LEMMA WriteAllInvariant ==
  ASSUME stored \in [Jobs -> Nat], Writing, WriteAll
  PROVE  stored' \in [Jobs -> Nat] /\ Writing'
<1>1. /\ job \in Jobs /\ chunk \in Nat /\ writeSize \in 0..(ChunkSize - 1)
      /\ totalBytes \in Nat /\ fills \in Nat /\ disk' = disk /\ fills' = fills /\ disk = "free"
      /\ chunk < ChunksOf(job) /\ stored[job] = ChunkSize * chunk + writeSize
      /\ ChunksOf(job) \in Nat \ {0}
  BY ChunksType DEF WriteAll, Writing, Generating, Jobs
<1>2. /\ stored' = [stored EXCEPT ![job] = stored[job] + ChunkSize - writeSize]
      /\ totalBytes' = totalBytes + ChunkSize /\ writeSize' = 0
      /\ \/ chunk + 1 < ChunksOf(job) /\ chunk' = chunk + 1 /\ job' = job
         \/ ~(chunk + 1 < ChunksOf(job)) /\ chunk' = 0 /\ job' = job + 1
  BY DEF WriteAll, ChunkDone, NextChunk
<1>3. ChunkSize * (chunk + 1) = ChunkSize * chunk + ChunkSize /\ ChunkSize * (chunk + 1) \in Nat
  BY <1>1
<1>4. stored[job] + ChunkSize - writeSize = ChunkSize * (chunk + 1)
  BY <1>1, <1>3
<1>5. /\ stored' \in [Jobs -> Nat] /\ stored'[job] = ChunkSize * (chunk + 1)
      /\ \A j \in Jobs \ {job} : stored'[j] = stored[j]
  BY <1>1, <1>2, <1>3, <1>4
<1>6. SumOver(stored', Jobs) = SumOver(stored, Jobs) + stored'[job] - stored[job]
  BY <1>1, <1>5, SumGrows
<1>7. SumOver(stored, Jobs) \in Nat
  BY SumType
<1>8. SumOver(stored', Jobs) = SumOver(stored, Jobs) + ChunkSize - writeSize
  BY <1>1, <1>3, <1>5, <1>6, <1>7
<1>9. /\ totalBytes >= SumOver(stored, Jobs)
      /\ fills = 0 => writeSize = 0 /\ totalBytes = SumOver(stored, Jobs)
  BY DEF Writing
<1>10. /\ totalBytes' >= SumOver(stored', Jobs)
       /\ fills' = 0 => writeSize' = 0 /\ totalBytes' = SumOver(stored', Jobs)
  BY <1>1, <1>2, <1>7, <1>8, <1>9
<1>11. \A j \in Jobs : /\ j < job => stored[j] = ChunkSize * ChunksOf(j)
                       /\ j > job => stored[j] = 0
  BY DEF Writing
<1>12. CASE chunk + 1 < ChunksOf(job)
  <2>1. /\ Generating' /\ job' \in 0..NumJobs /\ chunk' \in Nat /\ chunk' < ChunksOf(job')
        /\ stored'[job'] = ChunkSize * chunk' + 0
    <3>1. job' = job /\ chunk' = chunk + 1 /\ job < NumJobs /\ job \in 0..NumJobs
      BY <1>1, <1>2, <1>12 DEF Jobs
    <3>2. stored'[job'] = ChunkSize * chunk' + 0
      BY <1>3, <1>5, <3>1
    <3> QED
      BY <1>1, <1>12, <3>1, <3>2 DEF Generating
  <2>2. \A j \in Jobs : /\ j < job' => stored'[j] = ChunkSize * ChunksOf(j)
                        /\ j > job' => stored'[j] = 0
    BY <1>1, <1>2, <1>5, <1>11, <1>12 DEF Jobs
  <2>3. Writing'
    BY <1>1, <1>2, <1>10, <2>1, <2>2 DEF Writing, ChunksOf
  <2> QED
    BY <1>5, <2>3
<1>13. CASE ~(chunk + 1 < ChunksOf(job))
  <2>1. chunk + 1 = ChunksOf(job) /\ job' = job + 1 /\ chunk' = 0
    BY <1>1, <1>2, <1>13
  <2>2. ASSUME NEW j \in Jobs
        PROVE  /\ j < job' => stored'[j] = ChunkSize * ChunksOf(j)
               /\ j > job' => stored'[j] = 0
    <3>1. CASE j = job
      BY <1>1, <1>5, <2>1, <3>1 DEF Jobs
    <3>2. CASE j # job
      BY <1>1, <1>5, <1>11, <2>1, <3>2 DEF Jobs
    <3> QED
      BY <3>1, <3>2
  <2>3. Generating' => chunk' < ChunksOf(job') /\ stored'[job'] = ChunkSize * chunk' + 0
    <3> SUFFICES ASSUME job' < NumJobs
                 PROVE  chunk' < ChunksOf(job') /\ stored'[job'] = ChunkSize * chunk' + 0
      BY DEF Generating
    <3>1. job' \in Jobs /\ job' # job /\ job' > job
      BY <1>1, <2>1 DEF Jobs
    <3>2. stored'[job'] = 0
      BY <1>5, <1>11, <3>1
    <3>3. ChunksOf(job') \in Nat \ {0}
      BY <3>1, ChunksType
    <3> QED
      BY <2>1, <3>2, <3>3
  <2>4. Writing'
    BY <1>1, <1>2, <1>10, <2>1, <2>2, <2>3 DEF Writing, Jobs, ChunksOf
  <2> QED
    BY <1>5, <2>4
<1> QED
  BY <1>12, <1>13

LEMMA WriteSomeInvariant ==
  ASSUME stored \in [Jobs -> Nat], Writing, WriteSome
  PROVE  stored' \in [Jobs -> Nat] /\ Writing'
<1>1. PICK n \in 0..(ChunkSize - writeSize - 1) :
        /\ stored' = [stored EXCEPT ![job] = stored[job] + n]
        /\ writeSize' = writeSize + n /\ totalBytes' = totalBytes + writeSize'
        /\ fills' = fills + 1
        /\ UNCHANGED <<job, chunk>>
  BY DEF WriteSome
<1>2. /\ job \in Jobs /\ chunk \in Nat /\ writeSize \in 0..(ChunkSize - 1)
      /\ totalBytes \in Nat /\ fills \in Nat
      /\ chunk < ChunksOf(job) /\ stored[job] = ChunkSize * chunk + writeSize
  BY DEF WriteSome, Writing, Generating, Jobs
<1>3. /\ stored' \in [Jobs -> Nat] /\ stored'[job] = stored[job] + n
      /\ \A j \in Jobs \ {job} : stored'[j] = stored[j]
  BY <1>1, <1>2
<1>4. /\ writeSize' \in 0..(ChunkSize - 1) /\ fills' \in Nat \ {0} /\ totalBytes' \in Nat
      /\ totalBytes' = totalBytes + writeSize + n
  BY <1>1, <1>2
<1>5. SumOver(stored', Jobs) = SumOver(stored, Jobs) + stored'[job] - stored[job]
  BY <1>2, <1>3, SumGrows
<1>6. SumOver(stored, Jobs) \in Nat /\ totalBytes >= SumOver(stored, Jobs)
  BY SumType DEF Writing
<1>7. totalBytes' >= SumOver(stored', Jobs)
  BY <1>2, <1>3, <1>4, <1>5, <1>6
<1>8. \A j \in Jobs : /\ j < job => stored'[j] = ChunkSize * ChunksOf(j)
                      /\ j > job => stored'[j] = 0
  BY <1>2, <1>3 DEF Writing, Jobs
<1>9. stored'[job] = ChunkSize * chunk + writeSize' /\ ChunkSize * chunk \in Nat
  BY <1>1, <1>2, <1>3
<1>10. job \in 0..NumJobs /\ Generating /\ Generating'
  BY <1>1, <1>2 DEF Generating, Jobs
<1>11. Writing'
  BY <1>1, <1>2, <1>4, <1>7, <1>8, <1>9, <1>10 DEF Writing, ChunksOf
<1> QED
  BY <1>3, <1>11

LEMMA FilesNextInvariant ==
  ASSUME JobsInv, Places, Files, [Next]_vars
  PROVE  Files'
<1>1. CASE Generate
  <2>1. main = "generate" /\ main' = main /\ generateJobs
    BY <1>1 DEF Generate, MainAt, mainVars
  <2>2. CASE WriteNothing
    <3>1. /\ stored' = stored /\ UNCHANGED <<job, chunk, writeSize, disk, fills>>
          /\ totalBytes' = totalBytes + writeSize /\ disk = "full"
      BY <2>2 DEF WriteNothing
    <3>2. /\ totalBytes \in Nat /\ writeSize \in 0..(ChunkSize - 1) /\ fills \in Nat \ {0}
          /\ totalBytes >= SumOver(stored, Jobs)
      BY <2>1, <3>1 DEF Files, Writing
    <3>3. SumOver(stored, Jobs) \in Nat
      BY SumType DEF Files
    <3>4. totalBytes' \in Nat /\ totalBytes' >= SumOver(stored, Jobs)
      BY <3>1, <3>2, <3>3
    <3> QED
      BY <2>1, <3>1, <3>2, <3>4 DEF Files, Writing, Generating, ChunksOf
  <2> QED
    BY <2>1, <2>2, WriteAllInvariant, WriteSomeInvariant DEF generateJobs, Files
<1>2. CASE DoAllJobs
  <2>1. /\ main = "generate" /\ main' = "own" /\ ~Generating /\ UNCHANGED <<stored, program>>
        /\ totalBytes' = 0
    BY <1>2 DEF DoAllJobs, MainAt, fixed
  <2>2. \A j \in Jobs : stored[j] = ChunkSize * ChunksOf(j)
    BY <2>1 DEF Files, Writing, Generating, Jobs
  <2>3. program \in WithFiles
    BY <2>1 DEF Places
  <2>4. stored = Bytes(program)
    BY <2>2, <2>3 DEF Files, Bytes
  <2>5. Bytes(program)' = Bytes(program)
    BY <2>1 DEF Bytes, ChunksOf
  <2> QED
    BY <2>1, <2>4, <2>5 DEF Files
<1>3. CASE Environment
  <2>1. /\ UNCHANGED <<main, program, stored, job, chunk, writeSize, totalBytes, fills>>
        /\ disk' = "free"
    BY <1>3 DEF Environment, MakeRoom, mainVars
  <2> QED
    BY <2>1 DEF Files, Writing, Generating, ChunksOf, Bytes
<1>4. ASSUME UNCHANGED <<fileVars, stored, program>>, main' = main \/ (main # "generate" /\ main' # "generate")
      PROVE  Files'
  BY <1>4 DEF Files, Writing, Generating, ChunksOf, Bytes, fileVars
<1>5. CASE AllJobsDone \/ GenerateFails \/ Creation
  BY <1>4, <1>5 DEF AllJobsDone, GenerateFails, Creation, Reset, CreateThread, AllCreated,
     CreateFails,
    Join, AllJoined, AddUp, ExitMain, MainAt, Exit, fixed, mainVars
<1>6. ASSUME NEW t \in Workers, PreAssignThread(t) \/ recvAJob(t) \/ inputASubJob(t) \/ Calls(t) \/ OpenFails(t)
      PROVE  Files'
  BY <1>4, <1>6 DEF PreAssignThread, recvAJob, inputASubJob, Calls, EnterRange, NextInRange,
    RangeDone, LockJobs, NoJobLeft, ReadCounter, TakeJob, processAJob, OpenFails, TellResult,
    LockSubJobs, PutSubJob, SubJobsFull, CountSubJob, PostSubJob, Exit, outside, mainVars
<1>7. CASE fprintSum
  BY <1>4, <1>7 DEF fprintSum, recvASubJob, processASubJob, WaitSubJob, TakeSubJob, LockSubJobs,
    outside, mainVars
<1>8. CASE UNCHANGED vars
  BY <1>4, <1>8 DEF vars, outside, mainVars
<1> QED
  BY <1>1, <1>2, <1>3, <1>5, <1>6, <1>7, <1>8
  DEF Next, Program, PreAssignJob, DynamicAssignJob, HomoThreads, HeteroThreads, Generation,
      DynamicThread, HomoThread, HeteroThread, Workers

LEMMA FilesInitInvariant == Init => Files
<1> SUFFICES ASSUME Init
             PROVE  Files
  OBVIOUS
<1>1. CASE program \in WithFiles
  <2>1. /\ stored = [j \in Jobs |-> 0] /\ main = "generate" /\ job = 0 /\ chunk = 0
        /\ writeSize = 0 /\ totalBytes = 0 /\ disk = "free" /\ fills = 0
    BY <1>1 DEF Init, GenerateInit
  <2>2. SumOver(stored, Jobs) = 0
    <3>1. stored \in [Jobs -> Nat] /\ \A j \in Jobs : stored[j] = 0
      BY <2>1
    <3>2. SumOver(stored, Jobs) = Cardinality(Jobs) * 0
      BY <3>1, SumOfEqual
    <3>3. Cardinality(Jobs) \in Nat
      BY JobsFinite, FS_CardinalityType
    <3> QED
      BY <3>2, <3>3
  <2>3. 0 \in Jobs /\ ChunksOf(0) \in Nat \ {0}
    BY ChunksType DEF Jobs
  <2> QED
    BY <2>1, <2>2, <2>3 DEF Files, Writing, Jobs, Generating
<1>2. CASE program \notin WithFiles
  BY <1>2, BytesType DEF Init, GenerateInit, Files
<1> QED
  BY <1>1, <1>2

LEMMA FilesImplies == Files => FilesComplete
<1> SUFFICES ASSUME Files, ~Generating, totalBytes > 0
             PROVE  /\ \A j \in Jobs : stored[j] = ChunkSize * ChunksOf(j)
                    /\ totalBytes >= Cardinality(BytesStored)
                    /\ fills = 0 => totalBytes = Cardinality(BytesStored)
  BY DEF FilesComplete
<1>1. Writing
  BY DEF Files
<1>2. \A j \in Jobs : j < job
  BY <1>1 DEF Writing, Generating, Jobs
<1>3. Cardinality(BytesStored) = SumOver(stored, Jobs)
  BY DEF BytesStored, SumOver, UnitsOf
<1> QED
  BY <1>1, <1>2, <1>3 DEF Writing

-----------------------------------------------------------------------------
(* Who moves *)

\* What a thread does, by the program that runs.
ThreadStep(t) ==
  \/ program = "PreAssign" /\ (EnterRange(t) \/ NextInRange(t) \/ RangeDone(t))
  \/ program # "PreAssign" /\ recvAJob(t)
  \/ program = "Hetero" /\ inputASubJob(t)
  \/ Calls(t)
  \/ OpenFails(t)

LEMMA StepCases ==
  ASSUME [Next]_vars
  PROVE  \/ Generation /\ program \in WithFiles
         \/ Creation \/ Environment \/ UNCHANGED vars
         \/ program = "Hetero" /\ fprintSum
         \/ \E t \in Workers : ThreadStep(t) /\ (t \in Threads \/ program \in WithFiles)
<1> USE DEF ThreadStep, Workers
<1>1. CASE PreAssignJob
  BY <1>1 DEF PreAssignJob, PreAssignThread, WithFiles
<1>2. CASE DynamicAssignJob
  BY <1>2 DEF DynamicAssignJob, DynamicThread, WithFiles
<1>3. CASE HomoThreads
  BY <1>3 DEF HomoThreads, HomoThread
<1>4. CASE HeteroThreads
  BY <1>4 DEF HeteroThreads, HeteroThread
<1> QED
  BY <1>1, <1>2, <1>3, <1>4 DEF Next, Program

\* A thread that has begun and not ended moves, or the program exits.
LEMMA ThreadMoves ==
  ASSUME NEW t \in Workers, ThreadStep(t)
  PROVE  /\ UNCHANGED <<fileVars, stored, mainVars>>
         /\ pc[t] \notin {"out", "ended"}
         /\ \/ UNCHANGED <<pc, jobVars, subVars, ownVars>>
            \/ \E to \in JobLabels \ {"out"} : pc' = [pc EXCEPT ![t] = to]
<1> USE DEF Move, At, outside
<1>1. CASE program = "PreAssign" /\ (EnterRange(t) \/ NextInRange(t) \/ RangeDone(t))
  BY <1>1 DEF EnterRange, NextInRange, RangeDone, JobLabels
<1>2. CASE recvAJob(t)
  BY <1>2 DEF recvAJob, LockJobs, NoJobLeft, ReadCounter, TakeJob, JobLabels
<1>3. CASE inputASubJob(t)
  <2>1. CASE SubJobsFull(t)
    BY <2>1 DEF SubJobsFull, Exit, subVars
  <2>2. CASE ~SubJobsFull(t)
    BY <1>3, <2>2 DEF inputASubJob, LockSubJobs, PutSubJob, CountSubJob, PostSubJob, JobLabels
  <2> QED
    BY <2>1, <2>2
<1>4. CASE Calls(t)
  BY <1>4 DEF Calls, processAJob, TellResult, JobLabels
<1>5. CASE OpenFails(t)
  BY <1>5 DEF OpenFails, Exit
<1> QED
  BY <1>1, <1>2, <1>3, <1>4, <1>5 DEF ThreadStep

LEMMA PrinterMoves ==
  ASSUME fprintSum
  PROVE  /\ UNCHANGED <<fileVars, stored, failed, mainVars, jobVars, sum, result, whichJobIHaveDone>>
         /\ pc[Printer] \notin {"out", "ended"}
         /\ \E to \in JobLabels \ {"out"} : pc' = [pc EXCEPT ![Printer] = to]
BY DEF fprintSum, recvASubJob, processASubJob, WaitSubJob, TakeSubJob, LockSubJobs, Move, At,
       outside, ownVars, JobLabels

-----------------------------------------------------------------------------
(* The places of main and the threads *)

LEMMA PlacesInitInvariant == Init => Places
<1> SUFFICES ASSUME Init
             PROVE  Places
  OBVIOUS
<1>1. PICK argv \in 1..MaxThreads : numOfWorkerThread = Min({argv, NumJobs})
  BY DEF Init
<1>2. numOfWorkerThread <= NumJobs
  <2>1. \E x \in {argv, NumJobs} : \A y \in {argv, NumJobs} : x <= y
    BY <1>1
  <2> QED
    BY <1>1, <2>1 DEF Min
<1> QED
  BY <1>2 DEF Init, Places, WithFiles, Workers

LEMMA PlacesThread ==
  ASSUME JobsInv, Places, NEW t \in Workers \cup {Printer},
         UNCHANGED mainVars, pc[t] \notin {"out", "ended"},
         pc' = pc \/ \E to \in JobLabels \ {"out"} : pc' = [pc EXCEPT ![t] = to]
  PROVE  Places'
<1>1. \A u \in Workers : /\ pc'[u] = "out" <=> pc[u] = "out"
                         /\ pc[u] = "ended" => pc'[u] = "ended"
                         /\ pc'[u] = pc[u] \/ u = t
  BY DEF JobsInv, JobsTypeOK
<1>2. main \in {"add", "exit"} => \A u \in Threads : pc'[u] \in {"out", "ended"}
  BY <1>1 DEF JobsInv, Places, Workers
<1>3. UNCHANGED <<program, numOfWorkerThread, main, i>>
  BY DEF mainVars
<1>4. Main \in Workers
  BY DEF Workers
<1>5. \A u \in Threads : u \in Workers
  BY DEF Workers
<1> QED
  BY <1>1, <1>2, <1>3, <1>4, <1>5 DEF Places

LEMMA ThreadNames ==
  /\ Main \in Workers /\ Printer \notin Workers /\ Main \notin Threads /\ Main # Printer
  /\ \A u \in Threads : u \in Workers /\ u # Printer /\ u # Main /\ u \in Nat
<1>1. \A u \in Threads : u \in Nat
  BY DEF Threads
<1>2. \A u \in Threads : u # Printer /\ u # Main
  BY DEF Threads
<1> QED
  BY <1>1, <1>2 DEF Workers

LEMMA PlacesMain ==
  ASSUME JobsInv, Places, (Generation /\ program \in WithFiles) \/ Creation
  PROVE  Places'
<1> USE DEF MainAt, fixed
<1>1. Main \in Workers /\ Main \notin Threads /\ Main # Printer
      /\ \A u \in Threads : u \in Workers /\ u # Printer /\ u \in Nat
  BY ThreadNames
<1>2. pc \in [Workers \cup {Printer} -> JobLabels] /\ i \in Nat /\ numOfWorkerThread \in Nat \ {0}
  BY DEF JobsInv, JobsTypeOK
<1>3. CASE Generate \/ GenerateFails \/ CreateFails
  BY <1>3 DEF Generate, GenerateFails, CreateFails, Exit, mainVars, Places
<1>4. CASE DoAllJobs
  BY <1>1, <1>2, <1>4 DEF DoAllJobs, Places
<1>5. CASE AllJobsDone
  BY <1>1, <1>5 DEF AllJobsDone, Places
<1>6. CASE Reset
  <2>1. \A t \in Threads : pc[t] = "out"
    BY <1>6 DEF Reset, JobsInv, InRounds
  <2> QED
    BY <1>1, <1>2, <1>6, <2>1 DEF Reset, Places
<1>7. CASE CreateThread
  <2>1. i \in Threads
    BY <1>2, <1>7 DEF CreateThread, JobsInv, JobsTypeOK, Threads
  <2>2. main = "create" /\ main' = main /\ i' = i + 1 /\ i' <= numOfWorkerThread
        /\ UNCHANGED <<program, numOfWorkerThread>>
    BY <1>2, <1>7 DEF CreateThread
  <2>3. pc'[i] # "out" /\ \A u \in Threads : u # i => pc'[u] = pc[u]
    BY <1>1, <1>2, <1>7, <2>1 DEF CreateThread
  <2>4. \A t \in Threads : t < i' <=> pc'[t] # "out"
    BY <1>1, <1>2, <2>1, <2>2, <2>3 DEF Places
  <2> QED
    BY <2>2, <2>4 DEF Places
<1>8. CASE AllCreated
  <2>1. \A u \in Threads : pc'[u] = pc[u]
    BY <1>1, <1>2, <1>8 DEF AllCreated
  <2> QED
    BY <1>1, <1>2, <1>8, <2>1 DEF AllCreated, Places
<1>9. CASE Join
  <2>1. main' = main /\ main = "join" /\ pc' = pc /\ i < numOfWorkerThread /\ pc[i] = "ended" /\ i' = i + 1
        /\ UNCHANGED <<program, numOfWorkerThread>>
    BY <1>9 DEF Join
  <2>2. \A t \in Threads : t < i' => pc[t] = "ended"
    BY <1>1, <1>2, <2>1 DEF Places
  <2> QED
    BY <1>2, <2>1, <2>2 DEF Places
<1>10. CASE AllJoined
  <2>1. \A t \in Threads : pc[t] \in {"out", "ended"}
    BY <1>10 DEF AllJoined, Places
  <2> QED
    BY <1>2, <1>10, <2>1 DEF AllJoined, Places
<1>11. CASE AddUp \/ ExitMain
  BY <1>2, <1>11 DEF AddUp, ExitMain, Places
<1> QED
  BY <1>3, <1>4, <1>5, <1>6, <1>7, <1>8, <1>9, <1>10, <1>11 DEF Generation, Creation

LEMMA PlacesNextInvariant ==
  ASSUME JobsInv, Places, [Next]_vars
  PROVE  Places'
<1>1. CASE (Generation /\ program \in WithFiles) \/ Creation
  BY <1>1, PlacesMain
<1>2. CASE Environment \/ UNCHANGED vars
  BY <1>2 DEF Environment, vars, outside, mainVars, Places
<1>3. ASSUME NEW t \in Workers, ThreadStep(t)
      PROVE  Places'
  BY <1>3, ThreadMoves, PlacesThread
<1>4. CASE fprintSum
  BY <1>4, PrinterMoves, PlacesThread
<1> QED
  BY <1>1, <1>2, <1>3, <1>4, StepCases

-----------------------------------------------------------------------------
(* The jobs that are done *)

\* The ranges of the threads lie within the jobs.
LEMMA RangeWithin ==
  ASSUME JobsInv, Places, NEW t \in Threads, t < numOfWorkerThread
  PROVE  /\ RangeOf(t) \in Int \X Int
         /\ 0 <= RangeOf(t)[1] /\ RangeOf(t)[1] <= RangeOf(t)[2] /\ RangeOf(t)[2] <= NumJobs
<1> DEFINE size == NumJobs \div numOfWorkerThread
           n == numOfWorkerThread
<1>1. n \in Nat \ {0} /\ t \in Nat
  BY DEF JobsInv, JobsTypeOK, Threads
<1>2. size \in Nat /\ n * size <= NumJobs
  BY <1>1
<1>3. n - (t + 1) \in Nat
  BY <1>1
<1> HIDE DEF size
<1>4. /\ size * t \in Nat /\ size * (t + 1) \in Nat /\ size * (n - (t + 1)) \in Nat
      /\ size * (t + 1) = size * t + size
      /\ n * size = size * (t + 1) + size * (n - (t + 1))
  BY <1>1, <1>2, <1>3
<1>5. 0 <= size * t /\ size * t <= size * (t + 1) /\ size * (t + 1) <= NumJobs
  BY <1>2, <1>4
<1>6. RangeOf(t) = <<size * t, IF t # n - 1 THEN size * (t + 1) ELSE NumJobs>>
  BY DEF RangeOf, size
<1> QED
  BY <1>4, <1>5, <1>6

LEMMA DoneInitInvariant == Init => Done
<1> SUFFICES ASSUME Init
             PROVE  Done
  OBVIOUS
<1>1. /\ \A t \in Workers : whichJobIHaveDone[t] = {} /\ pc[t] = "out"
      /\ thPara[Main] = <<0, NumJobs>> /\ nextJobToBeDone = 0
  BY ThreadNames DEF Init
<1>2. DoneInRange
  BY <1>1 DEF DoneInRange
<1>3. DoneBelowCounter
  BY <1>1 DEF DoneBelowCounter, Jobs
<1> QED
  BY <1>1, <1>2, <1>3 DEF Done

\* Nothing is taken, and no one moves to where that matters.
LEMMA DoneElsewhere ==
  ASSUME JobsInv, Done,
         UNCHANGED <<program, whichJobIHaveDone, nextJobToBeDone, thPara>>,
         \A u \in Workers : currentJobID'[u] = currentJobID[u],
         TakesPart(Main)' => TakesPart(Main),
         \A u \in Workers : \/ pc'[u] = pc[u]
                            \/ pc[u] = "end" /\ pc'[u] = "ended"
                            \/ pc'[u] \notin {"out", "enter", "range", "process", "take", "end",
                                              "ended"}
  PROVE  Done'
<1>1. \A u \in Workers : TakesPart(u)' => TakesPart(u)
  BY DEF TakesPart, Workers
<1>2. /\ \A u \in Workers : whichJobIHaveDone'[u] \subseteq Jobs
      /\ \A u \in Workers : pc'[u] = "out" => whichJobIHaveDone'[u] = {}
      /\ \A u \in Workers : pc'[u] = "process" => currentJobID'[u] \in whichJobIHaveDone'[u]
  BY DEF Done
<1>3. program = "PreAssign" => DoneInRange'
  <2> SUFFICES ASSUME program = "PreAssign"
               PROVE  DoneInRange'
    OBVIOUS
  <2>1. DoneInRange
    BY DEF Done
  <2> QED
    BY <1>1, <2>1 DEF DoneInRange
<1>4. program # "PreAssign" => DoneBelowCounter'
  <2> SUFFICES ASSUME program # "PreAssign"
               PROVE  DoneBelowCounter'
    OBVIOUS
  <2>1. DoneBelowCounter
    BY DEF Done
  <2>2. \A u \in Workers : TakesPart(u)' /\ pc'[u] \in {"end", "ended"} =>
          TakesPart(u) /\ pc[u] \in {"end", "ended"}
    BY <1>1
  <2> QED
    BY <2>1, <2>2 DEF DoneBelowCounter, Workers, Threads
<1>5. Workers' = Workers /\ Jobs' = Jobs
  BY DEF Workers, Threads, Jobs
<1> QED
  BY <1>2, <1>3, <1>4, <1>5 DEF Done

LEMMA InRangeDone ==
  ASSUME JobsInv, Places, Done, program = "PreAssign", NEW t \in Workers,
         EnterRange(t) \/ NextInRange(t) \/ RangeDone(t) \/ processAJob(t)
  PROVE  Done'
<1> DEFINE first == thPara[t][1]
           last == thPara[t][2]
<1>1. /\ UNCHANGED <<program, numOfWorkerThread, main, i, thPara>>
      /\ pc[t] \in {"enter", "range", "process"}
      /\ pc'[t] \in {"range", "process", "end"}
      /\ \A u \in Workers : u # t => pc'[u] = pc[u]
  BY DEF EnterRange, NextInRange, RangeDone, processAJob, Move, At, outside, mainVars, JobsInv,
     JobsTypeOK
<1>2. /\ first \in Int /\ last \in Int /\ 0 <= first /\ first <= last /\ last <= NumJobs
      /\ TakesPart(t)
  <2>1. CASE t = Main
    BY <1>1, <2>1 DEF Done, DoneInRange, JobsInv, InRounds, TakesPart
  <2>2. CASE t \in Threads
    <3>1. t < numOfWorkerThread /\ thPara[t] = RangeOf(t)
      BY <1>1, <2>2 DEF JobsInv, InRange, RangesGiven
    <3> QED
      BY <2>2, <3>1, RangeWithin DEF TakesPart
  <2> QED
    BY <2>1, <2>2 DEF Workers
<1>3. currentJobID[t] \in Int /\ (pc[t] \in {"range", "process"} => first <= currentJobID[t])
  BY DEF JobsInv, JobsTypeOK, InRange, NextAboveFirst
<1>4. /\ pc[t] = "enter" => whichJobIHaveDone[t] = {}
      /\ pc[t] = "range" => /\ whichJobIHaveDone[t] = first..(currentJobID[t] - 1)
                            /\ currentJobID[t] <= last
      /\ pc[t] = "process" => /\ whichJobIHaveDone[t] = first..currentJobID[t]
                              /\ currentJobID[t] < last
  BY <1>2 DEF Done, DoneInRange
<1> HIDE DEF first, last
<1>5. /\ \A u \in Workers : u # t => /\ whichJobIHaveDone'[u] = whichJobIHaveDone[u]
                                     /\ currentJobID'[u] = currentJobID[u]
      /\ pc'[t] = "range" => /\ whichJobIHaveDone'[t] = first..(currentJobID'[t] - 1)
                             /\ currentJobID'[t] <= last
      /\ pc'[t] = "process" => /\ whichJobIHaveDone'[t] = first..currentJobID'[t]
                               /\ currentJobID'[t] < last
                               /\ currentJobID'[t] >= first
      /\ pc'[t] = "end" => whichJobIHaveDone'[t] = first..(last - 1)
      /\ currentJobID'[t] \in Int
  <2>1. CASE EnterRange(t)
    <3>1. /\ pc[t] = "enter" /\ pc' = [pc EXCEPT ![t] = "range"]
          /\ whichJobIHaveDone' = whichJobIHaveDone
          /\ currentJobID' = [currentJobID EXCEPT ![t] = first]
      BY <2>1 DEF EnterRange, Move, At, first
    <3>2. /\ pc'[t] = "range" /\ currentJobID'[t] = first
          /\ \A u \in Workers : u # t => currentJobID'[u] = currentJobID[u]
      BY <3>1 DEF JobsInv, JobsTypeOK
    <3>3. first..(first - 1) = {}
      BY <1>2
    <3> QED
      BY <1>2, <1>4, <3>1, <3>2, <3>3
  <2>2. CASE NextInRange(t)
    <3>1. /\ pc[t] = "range" /\ pc' = [pc EXCEPT ![t] = "process"] /\ currentJobID[t] < last
          /\ whichJobIHaveDone' =
               [whichJobIHaveDone EXCEPT ![t] = whichJobIHaveDone[t] \cup {currentJobID[t]}]
          /\ currentJobID' = currentJobID
      BY <2>2 DEF NextInRange, Move, At, last
    <3>2. /\ pc'[t] = "process"
          /\ whichJobIHaveDone'[t] = whichJobIHaveDone[t] \cup {currentJobID[t]}
          /\ \A u \in Workers : u # t => whichJobIHaveDone'[u] = whichJobIHaveDone[u]
      BY <3>1 DEF JobsInv, JobsTypeOK
    <3>3. first..currentJobID[t] = (first..(currentJobID[t] - 1)) \cup {currentJobID[t]}
      BY <1>2, <1>3, <3>1
    <3> QED
      BY <1>2, <1>3, <1>4, <3>1, <3>2, <3>3
  <2>3. CASE RangeDone(t)
    <3>1. /\ pc[t] = "range" /\ pc' = [pc EXCEPT ![t] = "end"] /\ currentJobID[t] >= last
          /\ UNCHANGED <<whichJobIHaveDone, currentJobID>>
      BY <2>3 DEF RangeDone, Move, At, last, ownVars
    <3>2. pc'[t] = "end"
      BY <3>1 DEF JobsInv, JobsTypeOK
    <3>3. currentJobID[t] = last
      BY <1>2, <1>3, <1>4, <3>1
    <3> QED
      BY <1>2, <1>3, <1>4, <3>1, <3>2, <3>3
  <2>4. CASE processAJob(t)
    <3>1. /\ pc[t] = "process" /\ pc' = [pc EXCEPT ![t] = "range"]
          /\ whichJobIHaveDone' = whichJobIHaveDone
          /\ currentJobID' = [currentJobID EXCEPT ![t] = currentJobID[t] + 1]
      BY <2>4 DEF processAJob, Move, At
    <3>2. /\ pc'[t] = "range" /\ currentJobID'[t] = currentJobID[t] + 1
          /\ \A u \in Workers : u # t => currentJobID'[u] = currentJobID[u]
      BY <3>1 DEF JobsInv, JobsTypeOK
    <3>3. currentJobID[t] + 1 - 1 = currentJobID[t] /\ currentJobID[t] + 1 <= last
      BY <1>2, <1>3, <1>4, <3>1
    <3> QED
      BY <1>2, <1>3, <1>4, <3>1, <3>2, <3>3
  <2> QED
    BY <2>1, <2>2, <2>3, <2>4
<1>6. DoneInRange'
  <2>1. thPara'[Main] = <<0, NumJobs>>
    BY <1>1 DEF Done, DoneInRange
  <2>2. ASSUME NEW u \in Workers, TakesPart(u)'
        PROVE  /\ pc'[u] \in {"out", "enter"} => whichJobIHaveDone'[u] = {}
               /\ pc'[u] = "range" => /\ whichJobIHaveDone'[u] = thPara[u][1]..(currentJobID'[u] - 1)
                                      /\ currentJobID'[u] <= thPara[u][2]
               /\ pc'[u] = "process" => /\ whichJobIHaveDone'[u] = thPara[u][1]..currentJobID'[u]
                                        /\ currentJobID'[u] < thPara[u][2]
               /\ pc'[u] \in {"end", "ended"} =>
                    whichJobIHaveDone'[u] = thPara[u][1]..(thPara[u][2] - 1)
    <3>1. CASE u = t
      BY <1>1, <1>5, <3>1 DEF first, last
    <3>2. CASE u # t
      BY <1>1, <1>5, <2>2, <3>2 DEF Done, DoneInRange, TakesPart
    <3> QED
      BY <3>1, <3>2
  <2> QED
    BY <1>1, <2>1, <2>2 DEF DoneInRange, Workers, Threads
<1>7. ASSUME NEW u \in Workers
      PROVE  /\ whichJobIHaveDone'[u] \subseteq Jobs
             /\ pc'[u] = "out" => whichJobIHaveDone'[u] = {}
             /\ pc'[u] = "process" => currentJobID'[u] \in whichJobIHaveDone'[u]
  <2>1. CASE u # t
    BY <1>1, <1>5, <2>1 DEF Done
  <2>2. CASE u = t
    BY <1>1, <1>2, <1>5, <2>2 DEF Jobs
  <2> QED
    BY <2>1, <2>2
<1> QED
  BY <1>1, <1>6, <1>7 DEF Done, Workers, Threads, Jobs

LEMMA CounterDone ==
  ASSUME JobsInv, Done, program # "PreAssign", NEW t \in Workers, recvAJob(t)
  PROVE  Done'
<1> USE DEF Move, At
<1>1. /\ UNCHANGED <<program, main, i, thPara>>
      /\ \A u \in Workers : u # t => pc'[u] = pc[u]
      /\ TakesPart(Main)' = TakesPart(Main)
  BY DEF recvAJob, LockJobs, NoJobLeft, ReadCounter, TakeJob, outside, mainVars, JobsInv,
     JobsTypeOK,
         TakesPart, Threads
<1>2. DoneBelowCounter
  BY DEF Done
<1>3. CASE LockJobs(t)
  <2>1. /\ UNCHANGED <<whichJobIHaveDone, nextJobToBeDone, currentJobID>> /\ pc'[t] = "check"
    BY <1>3 DEF LockJobs, ownVars, JobsInv, JobsTypeOK
  <2> QED
    BY <1>1, <2>1, DoneElsewhere
<1>4. CASE NoJobLeft(t) \/ ReadCounter(t)
  <2>1. /\ UNCHANGED <<whichJobIHaveDone, nextJobToBeDone>>
        /\ pc[t] = "check"
        /\ \/ pc'[t] = "end" /\ nextJobToBeDone >= NumJobs
           \/ pc'[t] = "take" /\ nextJobToBeDone < NumJobs
        /\ \A u \in Workers : u # t => currentJobID'[u] = currentJobID[u]
    BY <1>4 DEF NoJobLeft, ReadCounter, ownVars, jobVars, JobsInv, JobsTypeOK
  <2>2. \A u \in Workers : TakesPart(u)' = TakesPart(u)
    BY <1>1 DEF TakesPart, Threads
  <2>3. nextJobToBeDone \in 0..NumJobs
    BY <1>2 DEF DoneBelowCounter
  <2>4. \A u \in Workers : /\ pc'[u] = "take" => nextJobToBeDone < NumJobs
                           /\ TakesPart(u)' /\ pc'[u] \in {"end", "ended"} => nextJobToBeDone = NumJobs
    <3> TAKE u \in Workers
    <3>1. CASE u = t
      BY <2>1, <2>3, <3>1
    <3>2. CASE u # t
      BY <1>1, <1>2, <2>2, <3>2 DEF DoneBelowCounter
    <3> QED
      BY <3>1, <3>2
  <2>5. DoneBelowCounter'
    BY <1>2, <2>1, <2>3, <2>4 DEF DoneBelowCounter, Workers, Threads
  <2>6. \A u \in Workers : /\ pc'[u] = "out" => whichJobIHaveDone'[u] = {}
                           /\ pc'[u] = "process" => currentJobID'[u] \in whichJobIHaveDone'[u]
    BY <1>1, <2>1 DEF Done
  <2> QED
    BY <1>1, <2>1, <2>5, <2>6 DEF Done, Workers, Threads, Jobs
<1>5. CASE TakeJob(t)
  <2>1. /\ pc[t] = "take" /\ pc' = [pc EXCEPT ![t] = "process"]
        /\ nextJobToBeDone' = nextJobToBeDone + 1
        /\ whichJobIHaveDone' =
             [whichJobIHaveDone EXCEPT ![t] = whichJobIHaveDone[t] \cup {currentJobID[t]}]
        /\ currentJobID' = currentJobID
    BY <1>5 DEF TakeJob
  <2>2. /\ currentJobID[t] = nextJobToBeDone /\ nextJobToBeDone \in 0..(NumJobs - 1)
        /\ \A u \in Workers : u # t => pc[u] \notin {"check", "take"}
    BY <1>2, <2>1 DEF JobsInv, JobsTypeOK, BelowCounter, DoneBelowCounter
  <2>3. /\ pc'[t] = "process"
        /\ whichJobIHaveDone'[t] = whichJobIHaveDone[t] \cup {nextJobToBeDone}
        /\ \A u \in Workers : u # t => whichJobIHaveDone'[u] = whichJobIHaveDone[u]
    BY <2>1, <2>2 DEF JobsInv, JobsTypeOK
  <2>4. nextJobToBeDone' \in 0..NumJobs
    BY <2>1, <2>2
  <2>5. \A u \in Workers : TakesPart(u)' /\ pc'[u] \in {"end", "ended"} => FALSE
    <3> TAKE u \in Workers
    <3>1. TakesPart(u)' = TakesPart(u)
      BY <1>1 DEF TakesPart, Threads
    <3>2. nextJobToBeDone # NumJobs
      BY <2>2
    <3>3. CASE u = t
      BY <2>3, <3>3
    <3>4. CASE u # t
      BY <1>1, <1>2, <3>1, <3>2, <3>4 DEF DoneBelowCounter
    <3> QED
      BY <3>3, <3>4
  <2>6. \A j \in Jobs : j < nextJobToBeDone' <=> \E u \in Workers : j \in whichJobIHaveDone'[u]
    <3> TAKE j \in Jobs
    <3>1. j < nextJobToBeDone' <=> j < nextJobToBeDone \/ j = nextJobToBeDone
      BY <2>1, <2>2 DEF Jobs
    <3>2. (\E u \in Workers : j \in whichJobIHaveDone'[u])
            <=> (\E u \in Workers : j \in whichJobIHaveDone[u]) \/ j = nextJobToBeDone
      BY <2>3
    <3>3. j < nextJobToBeDone <=> \E u \in Workers : j \in whichJobIHaveDone[u]
      BY <1>2 DEF DoneBelowCounter
    <3> QED
      BY <3>1, <3>2, <3>3
  <2>7. \A u \in Workers : pc'[u] # "take"
    BY <1>1, <2>2, <2>3
  <2>8. DoneBelowCounter'
    BY <2>4, <2>5, <2>6, <2>7 DEF DoneBelowCounter, Workers, Threads
  <2>9. \A u \in Workers : /\ whichJobIHaveDone'[u] \subseteq Jobs
                           /\ pc'[u] = "out" => whichJobIHaveDone'[u] = {}
                           /\ pc'[u] = "process" => currentJobID'[u] \in whichJobIHaveDone'[u]
    <3> TAKE u \in Workers
    <3>1. CASE u = t
      BY <2>1, <2>2, <2>3, <3>1 DEF Done, Jobs
    <3>2. CASE u # t
      BY <1>1, <2>1, <2>3, <3>2 DEF Done
    <3> QED
      BY <3>1, <3>2
  <2> QED
    BY <1>1, <2>8, <2>9 DEF Done, Workers, Threads, Jobs
<1> QED
  BY <1>3, <1>4, <1>5 DEF recvAJob

LEMMA ResetDone ==
  ASSUME JobsInv, Done, Reset
  PROVE  Done'
<1>1. /\ main = "reset" /\ main' = "create" /\ nextJobToBeDone' = 0
      /\ whichJobIHaveDone' = [whichJobIHaveDone EXCEPT ![Main] = {}]
      /\ UNCHANGED <<program, pc, thPara, currentJobID>>
  BY DEF Reset, MainAt, fixed
<1>2. \A u \in Workers : /\ whichJobIHaveDone'[u] = {} /\ pc[u] \in {"out", "ended"}
                         /\ TakesPart(u)' => pc[u] = "out"
  BY <1>1 DEF JobsInv, JobsTypeOK, InRounds, TakesPart, Workers, Threads
<1>3. \A j \in Jobs : j < nextJobToBeDone' <=> \E u \in Workers : j \in whichJobIHaveDone'[u]
  BY <1>1, <1>2 DEF Jobs
<1>4. program # "PreAssign" => DoneBelowCounter'
  BY <1>1, <1>2, <1>3 DEF DoneBelowCounter, Workers, Threads
<1>5. program = "PreAssign" => DoneInRange'
  <2>1. program = "PreAssign" => thPara[Main] = <<0, NumJobs>>
    BY DEF Done, DoneInRange
  <2> QED
    BY <1>1, <1>2, <2>1 DEF DoneInRange, Workers, Threads
<1> QED
  BY <1>1, <1>2, <1>4, <1>5 DEF Done, Workers, Threads, Jobs

\* Main or a thread begins.
LEMMA BeginDone ==
  ASSUME JobsInv, Done, NEW t \in Workers, pc[t] = "out",
         pc' = [pc EXCEPT ![t] = IF program = "PreAssign" THEN "enter" ELSE "recv"],
         UNCHANGED <<program, whichJobIHaveDone, nextJobToBeDone, currentJobID>>,
         TakesPart(Main)' => TakesPart(Main),
         \A u \in Workers : u # t => thPara'[u] = thPara[u],
         t = Main => thPara'[t] = thPara[t]
  PROVE  Done'
<1>1. /\ \A u \in Workers : u # t => pc'[u] = pc[u]
      /\ pc'[t] \in {"enter", "recv"}
  BY DEF JobsInv, JobsTypeOK
<1>2. whichJobIHaveDone[t] = {}
  BY DEF Done
<1>3. \A u \in Workers : TakesPart(u)' => TakesPart(u)
  BY DEF TakesPart, Workers
<1>4. program = "PreAssign" => DoneInRange'
  <2> SUFFICES ASSUME program = "PreAssign"
               PROVE  DoneInRange'
    OBVIOUS
  <2>1. DoneInRange /\ pc'[t] = "enter"
    BY DEF Done, JobsInv, JobsTypeOK
  <2>2. thPara'[Main] = <<0, NumJobs>>
    BY <2>1, ThreadNames DEF DoneInRange
  <2> QED
    BY <1>1, <1>2, <1>3, <2>1, <2>2 DEF DoneInRange
<1>5. program # "PreAssign" => DoneBelowCounter'
  <2> SUFFICES ASSUME program # "PreAssign"
               PROVE  DoneBelowCounter'
    OBVIOUS
  <2>1. DoneBelowCounter
    BY DEF Done
  <2>2. \A u \in Workers : /\ pc'[u] = "take" => pc[u] = "take"
                           /\ pc'[u] \in {"end", "ended"} => pc[u] = pc'[u]
    BY <1>1
  <2> QED
    BY <1>3, <2>1, <2>2 DEF DoneBelowCounter, Workers, Threads
<1>6. \A u \in Workers : /\ whichJobIHaveDone'[u] \subseteq Jobs
                         /\ pc'[u] = "out" => whichJobIHaveDone'[u] = {}
                         /\ pc'[u] = "process" => currentJobID'[u] \in whichJobIHaveDone'[u]
  BY <1>1 DEF Done
<1> QED
  BY <1>4, <1>5, <1>6 DEF Done, Workers, Threads, Jobs

LEMMA DoneNextInvariant ==
  ASSUME JobsInv, Places, Done, [Next]_vars
  PROVE  Done'
<1> USE DEF MainAt, fixed
<1>1. CASE GenerateFails \/ CreateFails \/ Generate \/ Environment \/ UNCHANGED vars
  <2>1. UNCHANGED <<program, main, whichJobIHaveDone, nextJobToBeDone, thPara, currentJobID, pc>>
    BY <1>1 DEF GenerateFails, CreateFails, Generate, Environment, vars, outside, Exit, mainVars,
                jobVars, ownVars
  <2> QED
    BY <2>1, DoneElsewhere DEF TakesPart, Threads
<1>2. CASE AllJobsDone \/ AllCreated \/ Join \/ AllJoined \/ AddUp \/ ExitMain
  <2>1. /\ UNCHANGED <<program, whichJobIHaveDone, nextJobToBeDone, thPara, currentJobID>>
        /\ main' = main \/ (main = "own" /\ main' = "reset") \/ main' \in {"join", "add", "exit"}
        /\ pc' = pc \/ \E to \in JobLabels : pc' = [pc EXCEPT ![Printer] = to]
    BY <1>2 DEF AllJobsDone, AllCreated, Join, AllJoined, AddUp, ExitMain, jobVars, ownVars,
       JobLabels
  <2>2. \A u \in Workers : pc'[u] = pc[u]
    BY <2>1, ThreadNames DEF JobsInv, JobsTypeOK
  <2> QED
    BY <2>1, <2>2, DoneElsewhere, ThreadNames DEF TakesPart
<1>3. CASE Reset
  BY <1>3, ResetDone
<1>4. CASE DoAllJobs
  <2>1. /\ pc[Main] = "out" /\ main = "generate" /\ main' = "own"
        /\ pc' = [pc EXCEPT ![Main] = IF program = "PreAssign" THEN "enter" ELSE "recv"]
        /\ UNCHANGED <<program, whichJobIHaveDone, nextJobToBeDone, currentJobID, thPara>>
    BY <1>4 DEF DoAllJobs, Places, jobVars, ownVars
  <2> QED
    BY <2>1, BeginDone, ThreadNames DEF TakesPart
<1>5. CASE CreateThread
  <2>1. i \in Threads /\ main = "create" /\ main' = main
    BY <1>5 DEF CreateThread, JobsInv, JobsTypeOK, Threads
  <2>2. pc[i] = "out"
    BY <2>1 DEF Places, Threads
  <2>3. /\ pc' = [pc EXCEPT ![i] = IF program = "PreAssign" THEN "enter" ELSE "recv"]
        /\ UNCHANGED <<program, whichJobIHaveDone, nextJobToBeDone, currentJobID>>
    BY <1>5 DEF CreateThread, jobVars, ownVars
  <2>4. \A u \in Workers : u # i => thPara'[u] = thPara[u]
    BY <1>5 DEF CreateThread, JobsInv, JobsTypeOK
  <2>5. i \in Workers /\ i # Main
    BY <2>1, ThreadNames
  <2>6. TakesPart(Main)' => TakesPart(Main)
    BY <2>1, ThreadNames DEF TakesPart
  <2> QED
    BY <2>2, <2>3, <2>4, <2>5, <2>6, BeginDone
<1>6. CASE fprintSum
  <2>1. UNCHANGED <<program, main, whichJobIHaveDone, nextJobToBeDone, thPara>>
    BY <1>6, PrinterMoves DEF mainVars, jobVars
  <2>2. \A u \in Workers : pc'[u] = pc[u]
    BY <1>6, PrinterMoves, ThreadNames DEF JobsInv, JobsTypeOK
  <2>3. \A u \in Workers : currentJobID'[u] = currentJobID[u]
    BY <1>6, ThreadNames DEF fprintSum, recvASubJob, processASubJob, WaitSubJob, LockSubJobs,
       TakeSubJob,
       ownVars, JobsInv, JobsTypeOK
  <2> QED
    BY <2>1, <2>2, <2>3, DoneElsewhere DEF TakesPart, Threads
<1>7. ASSUME NEW t \in Workers,
             \/ program # "PreAssign" /\ processAJob(t)
             \/ TellResult(t) \/ OpenFails(t) \/ inputASubJob(t)
      PROVE  Done'
  <2>1. UNCHANGED <<program, main, whichJobIHaveDone, nextJobToBeDone, thPara, currentJobID>>
    BY <1>7 DEF processAJob, TellResult, OpenFails, inputASubJob, LockSubJobs, PutSubJob,
       SubJobsFull,
       CountSubJob, PostSubJob, Exit, outside, mainVars, jobVars, ownVars
  <2>2. \/ pc' = pc
        \/ pc[t] = "end" /\ pc' = [pc EXCEPT ![t] = "ended"]
        \/ \E to \in {"recv", "input", "put", "count", "post"} : pc' = [pc EXCEPT ![t] = to]
    BY <1>7 DEF processAJob, TellResult, OpenFails, inputASubJob, LockSubJobs, PutSubJob,
       SubJobsFull,
       CountSubJob, PostSubJob, Exit, Move, At
  <2>3. \A u \in Workers : \/ pc'[u] = pc[u]
                           \/ pc[u] = "end" /\ pc'[u] = "ended"
                           \/ pc'[u] \in {"recv", "input", "put", "count", "post"}
    <3>1. \A to : pc' = [pc EXCEPT ![t] = to] =>
                   \A u \in Workers : pc'[u] = IF u = t THEN to ELSE pc[u]
      BY DEF JobsInv, JobsTypeOK
    <3>2. CASE pc' = pc
      BY <3>2
    <3>3. CASE pc[t] = "end" /\ pc' = [pc EXCEPT ![t] = "ended"]
      BY <3>1, <3>3
    <3>4. CASE \E to \in {"recv", "input", "put", "count", "post"} : pc' = [pc EXCEPT ![t] = to]
      BY <3>1, <3>4
    <3> QED
      BY <2>2, <3>2, <3>3, <3>4
  <2> QED
    BY <2>1, <2>3, DoneElsewhere DEF TakesPart, Threads
<1>8. ASSUME NEW t \in Workers, ThreadStep(t)
      PROVE  Done'
  BY <1>7, <1>8, InRangeDone, CounterDone DEF ThreadStep, Calls
<1> QED
  BY <1>1, <1>2, <1>3, <1>4, <1>5, <1>6, <1>8, StepCases DEF Generation, Creation

-----------------------------------------------------------------------------
(* The sums of the threads *)

\* A thread that moves takes part in the round, and main waits for it.
LEMMA MovingTakesPart ==
  ASSUME JobsInv, Places, NEW t \in Workers, pc[t] \notin {"out", "ended"}
  PROVE  TakesPart(t) /\ main \notin {"generate", "reset", "add", "exit"}
<1>1. CASE t = Main
  BY <1>1 DEF JobsInv, InRounds, TakesPart
<1>2. CASE t \in Threads
  BY <1>2 DEF JobsInv, InRounds, TakesPart, Places
<1> QED
  BY <1>1, <1>2 DEF Workers

LEMMA SameBytes ==
  ASSUME UNCHANGED program
  PROVE  Bytes(program)' = Bytes(program)
BY DEF Bytes, ChunksOf

LEMMA SameProcessed ==
  ASSUME NEW t \in Workers, whichJobIHaveDone'[t] = whichJobIHaveDone[t],
         \/ pc[t] # "process" /\ pc'[t] # "process"
         \/ pc'[t] = pc[t] /\ currentJobID'[t] = currentJobID[t]
  PROVE  Processed(t)' = Processed(t)
BY DEF Processed

LEMMA SumsInitInvariant == Init => Sums
<1> SUFFICES ASSUME Init
             PROVE  Sums
  OBVIOUS
<1>1. \A t \in Workers : /\ whichJobIHaveDone[t] = {} /\ pc[t] = "out"
                         /\ sum[t] = 0 /\ result[t] = 0
  BY DEF Init
<1>2. \A t \in Workers : Processed(t) = {}
  BY <1>1 DEF Processed
<1>3. /\ sum \in [Workers -> Nat] /\ result \in [Workers -> Nat] /\ workerSum = 0
      /\ main \notin {"add", "exit"}
  BY DEF Init
<1> QED
  BY <1>1, <1>2, <1>3, SumOfNone DEF Sums

\* main and the printing thread move.
LEMMA SumsElsewhere ==
  ASSUME JobsInv, Sums, UNCHANGED <<program, sum, result, workerSum>>,
         \A u \in Workers : TakesPart(u)' =>
           /\ TakesPart(u)
           /\ whichJobIHaveDone'[u] = whichJobIHaveDone[u]
           /\ \/ pc'[u] = pc[u] /\ currentJobID'[u] = currentJobID[u]
              \/ pc[u] # "process" /\ pc'[u] \notin {"process", "ended"},
         \/ main \notin {"add", "exit"} /\ main' \notin {"add", "exit"}
         \/ /\ main \in {"add", "exit"} /\ main' \in {"add", "exit"} /\ i' = i
            /\ whichJobIHaveDone' = whichJobIHaveDone
  PROVE  Sums'
<1>1. Bytes(program)' = Bytes(program) /\ Workers' = Workers
  BY SameBytes DEF Workers, Threads
<1>2. ASSUME NEW u \in Workers, TakesPart(u)'
      PROVE  /\ sum'[u] = SumOver(Bytes(program), Processed(u))'
             /\ pc'[u] = "ended" => result'[u] = sum'[u]
  <2>1. Processed(u)' = Processed(u)
    BY <1>2, SameProcessed
  <2>2. SumOver(Bytes(program), Processed(u))' = SumOver(Bytes(program), Processed(u))
    BY <1>1, <2>1 DEF SumOver, UnitsOf
  <2> QED
    BY <1>2, <2>2 DEF Sums
<1>3. /\ main' \notin {"add", "exit"} => workerSum' = 0
      /\ main' \in {"add", "exit"} => workerSum' = SumOver(Bytes(program), JobsAdded)'
  <2>1. CASE main \notin {"add", "exit"}
    BY <2>1 DEF Sums
  <2>2. CASE main \in {"add", "exit"}
    <3>1. JobsAdded' = JobsAdded
      BY <2>2 DEF JobsAdded, Threads, Jobs
    <3>2. SumOver(Bytes(program), JobsAdded)' = SumOver(Bytes(program), JobsAdded)
      BY <1>1, <3>1 DEF SumOver, UnitsOf
    <3> QED
      BY <2>2, <3>2 DEF Sums
  <2> QED
    BY <2>1, <2>2
<1>4. \A u \in Workers : TakesPart(u)' =>
        /\ sum'[u] = SumOver(Bytes(program), Processed(u))'
        /\ pc'[u] = "ended" => result'[u] = sum'[u]
  BY <1>2
<1> QED
  BY <1>1, <1>3, <1>4 DEF Sums

\* A thread moves.
LEMMA SumsThread ==
  ASSUME JobsInv, Places, Sums, NEW t \in Workers, pc[t] \notin {"out", "ended"},
         UNCHANGED mainVars,
         sum' \in [Workers -> Nat], result' \in [Workers -> Nat],
         \A u \in Workers : u # t =>
           /\ pc'[u] = pc[u] /\ currentJobID'[u] = currentJobID[u]
           /\ whichJobIHaveDone'[u] = whichJobIHaveDone[u]
           /\ sum'[u] = sum[u] /\ result'[u] = result[u],
         sum'[t] = SumOver(Bytes(program), Processed(t)'),
         pc'[t] = "ended" => result'[t] = sum'[t]
  PROVE  Sums'
<1>1. UNCHANGED <<program, main, i, workerSum>>
  BY DEF mainVars
<1>2. Bytes(program)' = Bytes(program) /\ Workers' = Workers
  BY <1>1, SameBytes DEF Workers, Threads
<1>3. main \notin {"add", "exit"}
  BY MovingTakesPart
<1>4. ASSUME NEW u \in Workers, TakesPart(u)'
      PROVE  /\ sum'[u] = SumOver(Bytes(program), Processed(u))'
             /\ pc'[u] = "ended" => result'[u] = sum'[u]
  <2>1. SumOver(Bytes(program), Processed(u))' = SumOver(Bytes(program), Processed(u)')
    BY <1>2 DEF SumOver, UnitsOf
  <2>2. CASE u = t
    BY <2>1, <2>2
  <2>3. CASE u # t
    <3>1. Processed(u)' = Processed(u) /\ TakesPart(u)
      BY <1>1, <1>4, <2>3, SameProcessed DEF TakesPart, Threads
    <3> QED
      BY <2>1, <2>3, <3>1 DEF Sums
  <2> QED
    BY <2>2, <2>3
<1>5. \A u \in Workers : TakesPart(u)' =>
        /\ sum'[u] = SumOver(Bytes(program), Processed(u))'
        /\ pc'[u] = "ended" => result'[u] = sum'[u]
  BY <1>4
<1> QED
  BY <1>1, <1>2, <1>3, <1>5 DEF Sums

\* The thread has a new job, or moves between places where it has none in hand.
LEMMA SumsMoves ==
  ASSUME JobsInv, Places, Done, Sums, NEW t \in Workers, ThreadStep(t), ~processAJob(t),
         ~TellResult(t)
  PROVE  Sums'
<1>1. /\ UNCHANGED <<mainVars, sum, result>> /\ pc[t] \notin {"out", "ended"}
      /\ \A u \in Workers : u # t =>
           /\ pc'[u] = pc[u] /\ currentJobID'[u] = currentJobID[u]
           /\ whichJobIHaveDone'[u] = whichJobIHaveDone[u]
  <2>1. UNCHANGED mainVars /\ pc[t] \notin {"out", "ended"}
    BY ThreadMoves
  <2>2. \A u \in Workers : u # t => pc'[u] = pc[u]
    BY ThreadMoves DEF JobsInv, JobsTypeOK
  <2>3. UNCHANGED <<sum, result>> /\ \A u \in Workers : u # t =>
           /\ currentJobID'[u] = currentJobID[u]
           /\ whichJobIHaveDone'[u] = whichJobIHaveDone[u]
    BY DEF ThreadStep, EnterRange, NextInRange, RangeDone, recvAJob, LockJobs, NoJobLeft,
       ReadCounter,
       TakeJob, inputASubJob, LockSubJobs, PutSubJob, SubJobsFull, CountSubJob, PostSubJob, Calls,
       OpenFails, Exit, ownVars, JobsInv, JobsTypeOK
  <2> QED
    BY <2>1, <2>2, <2>3
<1>2. Processed(t)' = Processed(t) /\ pc'[t] # "ended"
  <2>1. CASE NextInRange(t) \/ TakeJob(t)
    <3>1. /\ pc[t] \in {"range", "take"} /\ pc' = [pc EXCEPT ![t] = "process"]
          /\ whichJobIHaveDone' =
               [whichJobIHaveDone EXCEPT ![t] = whichJobIHaveDone[t] \cup {currentJobID[t]}]
          /\ currentJobID' = currentJobID
      BY <2>1 DEF NextInRange, TakeJob, Move, At
    <3>2. currentJobID[t] \notin whichJobIHaveDone[t]
      <4>1. CASE program = "PreAssign"
        <5>1. pc[t] = "range"
          BY <2>1, <3>1, <4>1 DEF ThreadStep, NextInRange, TakeJob, recvAJob, Calls, Move, At,
            EnterRange, RangeDone, OpenFails, inputASubJob, processAJob, TellResult
        <5>2. TakesPart(t)
          BY <1>1, MovingTakesPart
        <5>3. whichJobIHaveDone[t] = thPara[t][1]..(currentJobID[t] - 1)
          BY <4>1, <5>1, <5>2 DEF Done, DoneInRange
        <5>4. thPara[t][1] \in Int /\ currentJobID[t] \in Int
          BY DEF JobsInv, JobsTypeOK
        <5> QED
          BY <5>3, <5>4
      <4>2. CASE program # "PreAssign"
        <5>1. pc[t] = "take"
          BY <2>1, <3>1, <4>2 DEF ThreadStep, NextInRange, TakeJob, recvAJob, Calls, Move, At,
            LockJobs, NoJobLeft, ReadCounter, inputASubJob, LockSubJobs, PutSubJob, SubJobsFull,
            CountSubJob, PostSubJob, OpenFails, processAJob, TellResult
        <5>2. currentJobID[t] = nextJobToBeDone /\ nextJobToBeDone \in Int
              /\ \A j \in whichJobIHaveDone[t] : j < nextJobToBeDone
          BY <4>2, <5>1 DEF JobsInv, JobsTypeOK, BelowCounter
        <5> QED
          BY <5>2
      <4> QED
        BY <4>1, <4>2
    <3>3. /\ pc'[t] = "process"
          /\ whichJobIHaveDone'[t] = whichJobIHaveDone[t] \cup {currentJobID[t]}
      BY <3>1 DEF JobsInv, JobsTypeOK
    <3> QED
      BY <3>1, <3>2, <3>3 DEF Processed
  <2>2. CASE OpenFails(t) \/ SubJobsFull(t)
    <3>1. UNCHANGED <<pc, currentJobID, whichJobIHaveDone>>
      BY <2>2 DEF OpenFails, SubJobsFull, Exit, ownVars
    <3> QED
      BY <1>1, <3>1 DEF Processed
  <2>3. CASE ~(NextInRange(t) \/ TakeJob(t) \/ OpenFails(t) \/ SubJobsFull(t))
    <3>1. /\ pc[t] \in {"enter", "range", "recv", "check", "input", "put", "count", "post"}
          /\ \E to \in {"range", "end", "check", "take", "put", "count", "post", "recv"} :
               pc' = [pc EXCEPT ![t] = to]
          /\ whichJobIHaveDone' = whichJobIHaveDone
      BY <2>3 DEF ThreadStep, EnterRange, RangeDone, recvAJob, LockJobs, NoJobLeft, ReadCounter,
         inputASubJob, LockSubJobs, PutSubJob, CountSubJob, PostSubJob, Calls, Move, At, ownVars
    <3>2. pc'[t] \in {"range", "end", "check", "take", "put", "count", "post", "recv"}
      BY <3>1 DEF JobsInv, JobsTypeOK
    <3> QED
      BY <3>1, <3>2 DEF Processed
  <2> QED
    BY <2>1, <2>2, <2>3
<1>3. sum'[t] = SumOver(Bytes(program), Processed(t)')
  <2>1. TakesPart(t)
    BY <1>1, MovingTakesPart
  <2> QED
    BY <1>1, <1>2, <2>1 DEF Sums
<1>4. sum' \in [Workers -> Nat] /\ result' \in [Workers -> Nat]
  BY <1>1 DEF Sums
<1>5. UNCHANGED mainVars
  BY <1>1
<1> QED
  BY <1>1, <1>2, <1>3, <1>4, <1>5, SumsThread

\* The bytes of a job are what it adds to the sum.
LEMMA SumsProcess ==
  ASSUME JobsInv, Places, Files, Done, Sums, NEW t \in Workers, processAJob(t)
  PROVE  Sums'
<1>1. /\ pc[t] = "process" /\ UNCHANGED <<mainVars, result, whichJobIHaveDone>>
      /\ \E to \in {"range", "input", "recv"} : pc' = [pc EXCEPT ![t] = to]
      /\ sum' = [sum EXCEPT ![t] = sum[t] + stored[currentJobID[t]]]
      /\ \/ currentJobID' = currentJobID
         \/ currentJobID' = [currentJobID EXCEPT ![t] = currentJobID[t] + 1]
  BY DEF processAJob, Move, At, outside
<1>2. /\ pc'[t] \in {"range", "input", "recv"}
      /\ \A u \in Workers : u # t => pc'[u] = pc[u] /\ currentJobID'[u] = currentJobID[u]
  BY <1>1 DEF JobsInv, JobsTypeOK
<1>3. TakesPart(t) /\ main # "generate"
  BY <1>1, MovingTakesPart
<1> DEFINE j == currentJobID[t]
           f == Bytes(program)
           S == whichJobIHaveDone[t]
<1>4. j \in S /\ S \subseteq Jobs /\ stored[j] = f[j]
  BY <1>1, <1>3 DEF Done, Files
<1>5. f \in [Jobs -> Nat]
  BY BytesType
<1>6. Processed(t) = S \ {j} /\ Processed(t)' = S
  BY <1>1, <1>2 DEF Processed
<1>7. sum[t] = SumOver(f, S \ {j})
  BY <1>3, <1>6 DEF Sums
<1> HIDE DEF j, f, S
<1>8. SumOver(f, S) = SumOver(f, S \ {j}) + f[j]
  <2>1. (S \ {j}) \cup {j} = S /\ S \ {j} \subseteq Jobs /\ j \in Jobs /\ j \notin S \ {j}
    BY <1>4
  <2>2. SumOver(f, (S \ {j}) \cup {j}) = SumOver(f, S \ {j}) + f[j]
    BY <1>5, <2>1, SumWith
  <2> QED
    BY <2>1, <2>2
<1>9. sum' \in [Workers -> Nat] /\ result' \in [Workers -> Nat]
      /\ sum'[t] = SumOver(f, S) /\ \A u \in Workers : u # t => sum'[u] = sum[u]
  <2>1. stored[j] \in Nat
    BY <1>4, <1>5
  <2> QED
    BY <1>1, <1>4, <1>7, <1>8, <2>1 DEF Sums, j
<1>10. sum'[t] = SumOver(Bytes(program), Processed(t)')
  BY <1>6, <1>9 DEF f, S
<1>11. UNCHANGED mainVars
  BY <1>1
<1> QED
  BY <1>1, <1>2, <1>9, <1>10, <1>11, SumsThread

LEMMA SumsTell ==
  ASSUME JobsInv, Places, Sums, NEW t \in Workers, TellResult(t)
  PROVE  Sums'
<1>1. /\ pc[t] = "end" /\ pc' = [pc EXCEPT ![t] = "ended"]
      /\ UNCHANGED <<mainVars, whichJobIHaveDone, currentJobID, sum>>
      /\ result' = [result EXCEPT ![t] = sum[t]]
  BY DEF TellResult, Move, At, outside
<1>2. /\ pc'[t] = "ended" /\ result'[t] = sum[t]
      /\ result' \in [Workers -> Nat] /\ sum' \in [Workers -> Nat]
      /\ \A u \in Workers : u # t => pc'[u] = pc[u] /\ result'[u] = result[u]
  BY <1>1 DEF JobsInv, JobsTypeOK, Sums
<1>3. Processed(t)' = Processed(t)
  BY <1>1, <1>2 DEF Processed
<1>4. TakesPart(t)
  BY <1>1, MovingTakesPart
<1>5. sum'[t] = SumOver(Bytes(program), Processed(t)')
  BY <1>1, <1>3, <1>4 DEF Sums
<1>6. UNCHANGED mainVars
  BY <1>1
<1> QED
  BY <1>1, <1>2, <1>5, <1>6, SumsThread

\* Once the threads have ended, what main adds up is what their jobs add to the sum.
LEMMA SumsAdd ==
  ASSUME JobsInv, JobsDisjoint, Places, Done, Sums, AddUp
  PROVE  Sums'
<1>1. /\ main = "add" /\ main' = main /\ i < numOfWorkerThread /\ i' = i + 1
      /\ workerSum' = workerSum + result[i]
      /\ UNCHANGED <<program, pc, whichJobIHaveDone, currentJobID, sum, result>>
  BY DEF AddUp, MainAt, fixed, ownVars
<1>2. i \in Threads /\ i \in Nat
  BY <1>1 DEF JobsInv, JobsTypeOK, Threads
<1>3. pc[i] = "ended" /\ TakesPart(i) /\ i \in Workers
  BY <1>1, <1>2 DEF Places, TakesPart, Workers
<1> DEFINE f == Bytes(program)
           S == whichJobIHaveDone[i]
<1>4. result[i] = SumOver(f, S)
  <2>1. Processed(i) = S
    BY <1>3 DEF Processed
  <2> QED
    BY <1>3, <2>1 DEF Sums
<1>5. JobsAdded' = JobsAdded \cup S
  <2>1. \A t \in Threads : t < i' <=> t < i \/ t = i
    BY <1>1, <1>2 DEF Threads
  <2>2. S \subseteq Jobs
    BY <1>3 DEF Done
  <2>3. JobsAdded' = {j \in Jobs : \E t \in Threads : t < i' /\ j \in whichJobIHaveDone[t]}
    BY <1>1 DEF JobsAdded, Jobs, Threads
  <2> QED
    BY <1>2, <2>1, <2>2, <2>3 DEF JobsAdded
<1>6. JobsAdded \cap S = {}
  <2>1. \A t \in Threads : t < i => t \in Workers /\ t # i
    BY <1>2 DEF Workers, Threads
  <2> QED
    BY <1>3, <2>1 DEF JobsAdded, JobsDisjoint
<1>7. JobsAdded \subseteq Jobs /\ S \subseteq Jobs /\ f \in [Jobs -> Nat]
  BY <1>3, BytesType DEF JobsAdded, Done
<1> HIDE DEF f, S
<1>8. SumOver(f, JobsAdded \cup S) = SumOver(f, JobsAdded) + SumOver(f, S)
  BY <1>6, <1>7, SumDisjoint
<1>9. SumOver(Bytes(program), JobsAdded)' = SumOver(f, JobsAdded \cup S)
  <2>1. Bytes(program)' = f
    BY <1>1, SameBytes DEF f
  <2> QED
    BY <1>5, <2>1 DEF SumOver, UnitsOf
<1>10. workerSum = SumOver(f, JobsAdded)
  BY <1>1 DEF Sums, f
<1>11. workerSum' = SumOver(Bytes(program), JobsAdded)' /\ workerSum' \in Nat
  <2>1. SumOver(f, JobsAdded) \in Nat /\ SumOver(f, S) \in Nat
    BY <1>7, SumType
  <2> QED
    BY <1>1, <1>4, <1>8, <1>9, <1>10, <2>1
<1>12. ASSUME NEW u \in Workers, TakesPart(u)'
       PROVE  /\ sum'[u] = SumOver(Bytes(program), Processed(u))'
              /\ pc'[u] = "ended" => result'[u] = sum'[u]
  <2>1. Processed(u)' = Processed(u) /\ Bytes(program)' = Bytes(program) /\ TakesPart(u)
    BY <1>1, <1>12, SameBytes DEF Processed, TakesPart, Threads
  <2>2. SumOver(Bytes(program), Processed(u))' = SumOver(Bytes(program), Processed(u))
    BY <2>1 DEF SumOver, UnitsOf
  <2> QED
    BY <1>1, <2>1, <2>2 DEF Sums
<1>13. \A u \in Workers : TakesPart(u)' =>
        /\ sum'[u] = SumOver(Bytes(program), Processed(u))'
        /\ pc'[u] = "ended" => result'[u] = sum'[u]
  BY <1>12
<1>14. Workers' = Workers /\ sum' \in [Workers -> Nat] /\ result' \in [Workers -> Nat]
  BY <1>1 DEF Workers, Threads, Sums
<1> QED
  BY <1>1, <1>11, <1>13, <1>14 DEF Sums

LEMMA SumsBegin ==
  ASSUME JobsInv, Places, Sums, AllJoined
  PROVE  Sums'
<1>1. /\ main = "join" /\ main' = "add" /\ i' = 0
      /\ UNCHANGED <<program, pc, whichJobIHaveDone, currentJobID, sum, result, workerSum>>
  BY DEF AllJoined, MainAt, fixed, ownVars
<1>2. JobsAdded' = {}
  <2>1. \A t \in Threads : ~(t < 0)
    BY DEF Threads
  <2> QED
    BY <1>1, <2>1 DEF JobsAdded, Threads
<1>3. workerSum' = 0 /\ SumOver(Bytes(program), JobsAdded)' = 0
  <2>1. SumOver(Bytes(program)', {}) = 0
    BY SumOfNone
  <2>2. SumOver(Bytes(program), JobsAdded)' = SumOver(Bytes(program)', {})
    BY <1>2 DEF SumOver, UnitsOf
  <2> QED
    BY <1>1, <2>1, <2>2 DEF Sums
<1>4. ASSUME NEW u \in Workers, TakesPart(u)'
      PROVE  /\ sum'[u] = SumOver(Bytes(program), Processed(u))'
             /\ pc'[u] = "ended" => result'[u] = sum'[u]
  <2>1. Processed(u)' = Processed(u) /\ Bytes(program)' = Bytes(program) /\ TakesPart(u)
    BY <1>1, <1>4, SameBytes DEF Processed, TakesPart, Threads
  <2>2. SumOver(Bytes(program), Processed(u))' = SumOver(Bytes(program), Processed(u))
    BY <2>1 DEF SumOver, UnitsOf
  <2> QED
    BY <1>1, <2>1, <2>2 DEF Sums
<1>5. \A u \in Workers : TakesPart(u)' =>
        /\ sum'[u] = SumOver(Bytes(program), Processed(u))'
        /\ pc'[u] = "ended" => result'[u] = sum'[u]
  BY <1>4
<1>6. Workers' = Workers /\ sum' \in [Workers -> Nat] /\ result' \in [Workers -> Nat]
  BY <1>1 DEF Workers, Threads, Sums
<1> QED
  BY <1>1, <1>3, <1>5, <1>6 DEF Sums

LEMMA SumsNextInvariant ==
  ASSUME JobsInv, JobsDisjoint, Places, Files, Done, Sums, [Next]_vars
  PROVE  Sums'
<1> USE DEF MainAt, fixed
<1>1. CASE GenerateFails \/ CreateFails \/ Generate \/ Environment \/ UNCHANGED vars \/ Join
           \/ ExitMain
  <2>1. /\ UNCHANGED <<program, whichJobIHaveDone, currentJobID, pc, sum, result, workerSum>>
        /\ \/ UNCHANGED <<main, i>>
           \/ main = "join" /\ main' = main
           \/ main = "add" /\ main' = "exit" /\ i' = i
    BY <1>1 DEF GenerateFails, CreateFails, Generate, Environment, vars, outside, Exit, mainVars,
                ownVars, Join, ExitMain
  <2>2. \A u \in Workers : TakesPart(u)' => TakesPart(u)
    BY <2>1 DEF TakesPart, Threads
  <2> QED
    BY <2>1, <2>2, SumsElsewhere
<1>2. CASE AllJobsDone \/ AllCreated \/ DoAllJobs \/ CreateThread \/ Reset
  <2>1. /\ UNCHANGED <<program, currentJobID, sum, result, workerSum>>
        /\ main \notin {"add", "exit"} /\ main' \notin {"add", "exit"}
        /\ main' \in {"own", "reset"} => main \in {"generate", "own"}
        /\ main' # "generate"
    BY <1>2 DEF AllJobsDone, AllCreated, DoAllJobs, CreateThread, Reset, ownVars
  <2>2. \A u \in Workers : TakesPart(u)' => TakesPart(u)
    BY <2>1 DEF TakesPart, Threads
  <2>3. ASSUME NEW u \in Workers, TakesPart(u)'
        PROVE  whichJobIHaveDone'[u] = whichJobIHaveDone[u]
    <3>1. CASE Reset
      <4>1. u # Main
        BY <1>2, <2>3, <3>1, ThreadNames DEF Reset, TakesPart
      <4> QED
        BY <3>1, <4>1 DEF Reset, JobsInv, JobsTypeOK
    <3> QED
      BY <1>2, <3>1 DEF AllJobsDone, AllCreated, DoAllJobs, CreateThread, ownVars
  <2>4. ASSUME NEW u \in Workers
        PROVE  \/ pc'[u] = pc[u] /\ currentJobID'[u] = currentJobID[u]
               \/ pc[u] # "process" /\ pc'[u] \notin {"process", "ended"}
    <3>1. CASE AllJobsDone \/ Reset
      BY <2>1, <3>1 DEF AllJobsDone, Reset
    <3>2. CASE AllCreated
      BY <2>1, <3>2, ThreadNames DEF AllCreated, JobsInv, JobsTypeOK
    <3>3. CASE DoAllJobs
      BY <2>1, <3>3 DEF DoAllJobs, Places, JobsInv, JobsTypeOK
    <3>4. CASE CreateThread
      <4>1. i \in Threads /\ pc[i] = "out"
        BY <3>4 DEF CreateThread, JobsInv, JobsTypeOK, Threads, Places
      <4> QED
        BY <2>1, <3>4, <4>1 DEF CreateThread, JobsInv, JobsTypeOK
    <3> QED
      BY <1>2, <3>1, <3>2, <3>3, <3>4
  <2> QED
    BY <2>1, <2>2, <2>3, <2>4, SumsElsewhere
<1>3. CASE fprintSum
  <2>1. UNCHANGED <<program, main, i, whichJobIHaveDone, sum, result, workerSum>>
    BY <1>3, PrinterMoves DEF mainVars, jobVars
  <2>2. \A u \in Workers : pc'[u] = pc[u]
    BY <1>3, PrinterMoves, ThreadNames DEF JobsInv, JobsTypeOK
  <2>3. \A u \in Workers : currentJobID'[u] = currentJobID[u]
    BY <1>3, ThreadNames DEF fprintSum, recvASubJob, processASubJob, WaitSubJob, LockSubJobs,
       TakeSubJob,
       ownVars, JobsInv, JobsTypeOK
  <2>4. \A u \in Workers : TakesPart(u)' => TakesPart(u)
    BY <2>1 DEF TakesPart, Threads
  <2>5. \/ main \notin {"add", "exit"} /\ main' \notin {"add", "exit"}
        \/ /\ main \in {"add", "exit"} /\ main' \in {"add", "exit"} /\ i' = i
           /\ whichJobIHaveDone' = whichJobIHaveDone
    BY <2>1
  <2>6. UNCHANGED <<program, sum, result, workerSum>>
    BY <2>1
  <2>7. \A u \in Workers : whichJobIHaveDone'[u] = whichJobIHaveDone[u]
    BY <2>1
  <2> QED
    BY <2>2, <2>3, <2>4, <2>5, <2>6, <2>7, SumsElsewhere
<1>4. ASSUME NEW t \in Workers, ThreadStep(t)
      PROVE  Sums'
  BY <1>4, SumsMoves, SumsProcess, SumsTell
<1> QED
  BY <1>1, <1>2, <1>3, <1>4, StepCases, SumsAdd, SumsBegin DEF Generation, Creation

-----------------------------------------------------------------------------
(* Counting threads and slots *)

LEMMA ThreadsCount ==
  ASSUME NEW S \in SUBSET Threads
  PROVE  /\ IsFiniteSet(S) /\ Cardinality(S) \in Nat
         /\ \A t \in Threads : /\ t \notin S => Cardinality(S \cup {t}) = Cardinality(S) + 1
                               /\ t \in S => Cardinality(S \ {t}) = Cardinality(S) - 1
                               /\ t \in S => Cardinality(S) >= 1
<1>1. IsFiniteSet(Threads)
  BY FS_Interval DEF Threads
<1>2. IsFiniteSet(S)
  BY <1>1, FS_Subset
<1>3. Cardinality(S) \in Nat
  BY <1>2, FS_CardinalityType
<1>4. ASSUME NEW t \in Threads, t \notin S
      PROVE  Cardinality(S \cup {t}) = Cardinality(S) + 1
  BY <1>2, <1>4, FS_AddElement
<1>5. ASSUME NEW t \in Threads, t \in S
      PROVE  Cardinality(S \ {t}) = Cardinality(S) - 1 /\ Cardinality(S) >= 1
  <2>1. Cardinality(S \ {t}) = Cardinality(S) - 1
    BY <1>2, <1>5, FS_RemoveElement
  <2>2. Cardinality(S) # 0
    BY <1>2, <1>5, FS_EmptySet
  <2> QED
    BY <1>3, <2>1, <2>2
<1> QED
  BY <1>2, <1>3, <1>4, <1>5

LEMMA JobsCount ==
  ASSUME NEW S \in SUBSET Jobs
  PROVE  /\ IsFiniteSet(S) /\ Cardinality(S) \in 0..NumJobs
         /\ S # {} => Cardinality(S) >= 1
         /\ \A j \in Jobs : /\ j \notin S => Cardinality(S \cup {j}) = Cardinality(S) + 1
                            /\ j \in S => Cardinality(S \ {j}) = Cardinality(S) - 1
<1>1. IsFiniteSet(Jobs) /\ Cardinality(Jobs) = NumJobs
  <2>1. NumJobs - 1 \in Int /\ 0 \in Int
    OBVIOUS
  <2>2. IsFiniteSet(0..(NumJobs - 1)) /\ Cardinality(0..(NumJobs - 1)) = NumJobs
    BY <2>1, FS_Interval
  <2> QED
    BY <2>2 DEF Jobs
<1>2. IsFiniteSet(S)
  BY <1>1, FS_Subset
<1>3. Cardinality(S) \in Nat
  BY <1>2, FS_CardinalityType
<1>4. Cardinality(S) <= NumJobs
  BY <1>1, FS_Subset
<1>5. S # {} => Cardinality(S) # 0
  BY <1>2, FS_EmptySet
<1>6. ASSUME NEW j \in Jobs, j \notin S
      PROVE  Cardinality(S \cup {j}) = Cardinality(S) + 1
  BY <1>2, <1>6, FS_AddElement
<1>7. ASSUME NEW j \in Jobs, j \in S
      PROVE  Cardinality(S \ {j}) = Cardinality(S) - 1
  BY <1>2, <1>7, FS_RemoveElement
<1> QED
  BY <1>2, <1>3, <1>4, <1>5, <1>6, <1>7

\* One thread moves to another place.
LEMMA PlacesCount ==
  ASSUME JobsInv, NEW t \in Threads, NEW from \in JobLabels, NEW to \in JobLabels,
         pc[t] = from, pc' = [pc EXCEPT ![t] = to]
  PROVE  \A labels : /\ (from \in labels <=> to \in labels) =>
                          Cardinality(AtPlaces(labels)') = Cardinality(AtPlaces(labels))
                     /\ from \notin labels /\ to \in labels =>
                          Cardinality(AtPlaces(labels)') = Cardinality(AtPlaces(labels)) + 1
                     /\ from \in labels /\ to \notin labels =>
                          Cardinality(AtPlaces(labels)') = Cardinality(AtPlaces(labels)) - 1
<1> TAKE labels
<1> DEFINE S == AtPlaces(labels)
<1>1. pc'[t] = to /\ \A u \in Threads : u # t => pc'[u] = pc[u]
  BY ThreadNames DEF JobsInv, JobsTypeOK
<1>2. S \in SUBSET Threads /\ (t \in S <=> from \in labels)
  BY DEF AtPlaces
<1>3. S' = {u \in Threads : pc'[u] \in labels}
  BY DEF AtPlaces, Threads
<1>4. /\ (from \in labels <=> to \in labels) => S' = S
      /\ from \notin labels /\ to \in labels => S' = S \cup {t}
      /\ from \in labels /\ to \notin labels => S' = S \ {t}
  BY <1>1, <1>3 DEF AtPlaces
<1> HIDE DEF S
<1>5. /\ t \notin S => Cardinality(S \cup {t}) = Cardinality(S) + 1
      /\ t \in S => Cardinality(S \ {t}) = Cardinality(S) - 1
  BY <1>2, ThreadsCount
<1>6. /\ (from \in labels <=> to \in labels) => Cardinality(S') = Cardinality(S)
      /\ from \notin labels /\ to \in labels => Cardinality(S') = Cardinality(S) + 1
      /\ from \in labels /\ to \notin labels => Cardinality(S') = Cardinality(S) - 1
  BY <1>2, <1>4, <1>5
<1> QED
  BY <1>6 DEF S

LEMMA CountsType ==
  ASSUME JobsInv
  PROVE  InHand \in Nat /\ Announcing \in Nat
         /\ \A t \in Threads : pc[t] \in {"process", "input", "put", "count"} => InHand >= 1
<1>1. \A labels : AtPlaces(labels) \in SUBSET Threads
  BY DEF AtPlaces
<1>2. \A labels : Cardinality(AtPlaces(labels)) \in Nat
  BY <1>1, ThreadsCount
<1>3. ASSUME NEW t \in Threads, pc[t] \in {"process", "input", "put", "count"}
      PROVE  InHand >= 1
  <2>1. t \in AtPlaces({"process", "input", "put", "count"})
    BY <1>3 DEF AtPlaces
  <2> QED
    BY <1>1, <2>1, ThreadsCount DEF InHand
<1> QED
  BY <1>2, <1>3 DEF InHand, Announcing

\* The threads stay where they are.
LEMMA SameHands ==
  ASSUME \A u \in Threads : pc'[u] = pc[u] /\ whichJobIHaveDone'[u] = whichJobIHaveDone[u]
  PROVE  /\ InHand' = InHand /\ Announcing' = Announcing
         /\ \A u \in Threads : PutBy(u)' = PutBy(u)
         /\ (\E u \in Threads : pc'[u] = "count") <=> (\E u \in Threads : pc[u] = "count")
<1>1. /\ AtPlaces({"process", "input", "put", "count"})' = AtPlaces({"process", "input", "put", "count"})
      /\ AtPlaces({"post"})' = AtPlaces({"post"})
  BY DEF AtPlaces, Threads
<1>2. \A u \in Threads : PutBy(u)' = PutBy(u)
  BY DEF PutBy
<1> QED
  BY <1>1, <1>2 DEF InHand, Announcing

\* The slots are as before, and so is what the threads have put into them.
LEMMA SlotsSame ==
  ASSUME SlotsHold, SlotsWritten' = SlotsWritten, subJob'.slot = subJob.slot,
         printed' = printed, \A t \in Threads : PutBy(t)' = PutBy(t),
         \A t \in Threads : pc'[t] \in {"input", "put"} => whichJobIHaveDone'[t] # {}
  PROVE  SlotsHold'
<1>1. \A k : SlotsWith(k)' = SlotsWith(k)
  BY DEF SlotsWith
<1>2. \A k : ThreadsWith(k)' = ThreadsWith(k)
  BY DEF ThreadsWith, Threads
<1>3. Threads' = Threads
  BY DEF Threads
<1> QED
  BY <1>1, <1>2, <1>3 DEF SlotsHold

LEMMA QueueInitInvariant == Init => Queue
<1> SUFFICES ASSUME Init
             PROVE  Queue
  OBVIOUS
<1>1. /\ failed = "no" /\ printed = <<>>
      /\ subJob = [slot |-> [k \in Jobs |-> 0], num |-> 0, next |-> 0,
                   mutex |-> Nobody, fullSlots |-> 0]
      /\ nextJobToBeDone = 0 /\ main \in {"generate", "reset"}
      /\ pc[Printer] = "out"
  BY DEF Init
<1>2. \A t \in Threads : pc[t] = "out" /\ whichJobIHaveDone[t] = {}
  BY DEF Init, Workers
<1>3. QueueTypeOK
  BY <1>1 DEF QueueTypeOK
<1>4. \A labels : "out" \notin labels => AtPlaces(labels) = {}
  BY <1>2 DEF AtPlaces
<1>5. InHand = 0 /\ Announcing = 0
  <2>1. AtPlaces({"process", "input", "put", "count"}) = {} /\ AtPlaces({"post"}) = {}
    BY <1>4
  <2> QED
    BY <2>1, FS_EmptySet DEF InHand, Announcing
<1>6. QueueCounts
  BY <1>1, <1>5 DEF QueueCounts
<1>7. QueuePlaces
  BY <1>1, <1>2 DEF QueuePlaces
<1>8. SlotsHold
  <2>1. SlotsWritten = {}
    BY <1>1, <1>2 DEF SlotsWritten
  <2>2. \A t \in Threads : PutBy(t) = 0
    <3>1. Cardinality({}) = 0
      BY FS_EmptySet
    <3>2. \A t \in Threads : PutBy(t) = Cardinality({}) - 0
      BY <1>2 DEF PutBy
    <3> QED
      BY <3>1, <3>2
  <2>3. \A k \in 1..NumJobs : SlotsWith(k) = {} /\ ThreadsWith(k) = {}
    BY <2>1, <2>2 DEF SlotsWith, ThreadsWith
  <2>4. Len(printed) = 0
    BY <1>1
  <2>5. \A k \in 1..NumJobs : Cardinality(SlotsWith(k)) = Cardinality(ThreadsWith(k))
    BY <2>3
  <2> QED
    BY <1>2, <2>1, <2>4, <2>5 DEF SlotsHold
<1> QED
  BY <1>1, <1>3, <1>6, <1>7, <1>8 DEF Queue

LEMMA JobsBelow ==
  ASSUME Done, program = "Hetero"
  PROVE  nextJobToBeDone \in 0..NumJobs
BY DEF Done, DoneBelowCounter

-----------------------------------------------------------------------------
(* The printing thread *)

LEMMA PrinterQueue ==
  ASSUME JobsInv, Done, Queue, program = "Hetero", fprintSum
  PROVE  Queue'
<1>1. QueueTypeOK /\ QueueCounts /\ QueuePlaces /\ SlotsHold /\ failed # "full"
  BY DEF Queue
<1>2. /\ UNCHANGED <<program, failed, main, nextJobToBeDone, whichJobIHaveDone>>
  BY PrinterMoves DEF mainVars, jobVars
<1>3. \A u \in Threads : pc'[u] = pc[u] /\ whichJobIHaveDone'[u] = whichJobIHaveDone[u]
  BY <1>2, PrinterMoves, ThreadNames DEF JobsInv, JobsTypeOK
<1>4. /\ InHand' = InHand /\ Announcing' = Announcing
      /\ \A u \in Threads : PutBy(u)' = PutBy(u)
      /\ (\E u \in Threads : pc'[u] = "count") <=> (\E u \in Threads : pc[u] = "count")
  BY <1>3, SameHands
<1>5. InHand \in Nat /\ Announcing \in Nat /\ nextJobToBeDone \in 0..NumJobs
  BY CountsType, JobsBelow
<1>6. \A u \in Threads : pc'[u] \in {"input", "put"} => whichJobIHaveDone'[u] # {}
  BY <1>1, <1>3 DEF SlotsHold
<1>7. main \notin {"reset", "create", "add", "exit"} \/ main = "join"
  BY <1>1, PrinterMoves DEF QueuePlaces
<1>8. CASE WaitSubJob
  <2>1. /\ pc[Printer] = "enter" /\ pc' = [pc EXCEPT ![Printer] = "lock"]
        /\ subJob.fullSlots > 0 /\ subJob' = [subJob EXCEPT !.fullSlots = subJob.fullSlots - 1]
        /\ printed' = printed /\ currentJobID' = currentJobID
    BY <1>8 DEF WaitSubJob, Move, At, ownVars
  <2>2. /\ pc'[Printer] = "lock" /\ subJob'.fullSlots = subJob.fullSlots - 1
        /\ subJob'.num = subJob.num /\ subJob'.next = subJob.next /\ subJob'.mutex = subJob.mutex
        /\ subJob'.slot = subJob.slot /\ QueueTypeOK'
    <3>1. pc'[Printer] = "lock"
      BY <2>1 DEF JobsInv, JobsTypeOK
    <3>2. subJob.fullSlots - 1 \in Nat
      BY <1>1, <2>1 DEF QueueTypeOK
    <3>3. /\ subJob' \in [slot : [Jobs -> Nat], num : Nat, next : Nat,
                          mutex : Threads \cup {Printer, Nobody}, fullSlots : Nat]
          /\ subJob'.num = subJob.num /\ subJob'.slot = subJob.slot
          /\ subJob'.fullSlots = subJob.fullSlots - 1 /\ subJob'.next = subJob.next
          /\ subJob'.mutex = subJob.mutex
      BY <1>1, <2>1, <3>2 DEF QueueTypeOK
    <3> QED
      BY <1>1, <2>1, <3>1, <3>3 DEF QueueTypeOK, Threads, Jobs
  <2>3. QueueCounts'
    BY <1>1, <1>2, <1>4, <1>5, <2>1, <2>2 DEF QueueCounts, QueueTypeOK
  <2>4. QueuePlaces'
    BY <1>1, <1>2, <1>3, <1>7, <2>1, <2>2 DEF QueuePlaces, Threads
  <2>5. SlotsWritten' = SlotsWritten
    BY <1>4, <2>2 DEF SlotsWritten, Threads
  <2>6. SlotsHold'
    BY <1>1, <1>4, <1>6, <2>1, <2>2, <2>5, SlotsSame
  <2> QED
    BY <1>1, <1>2, <2>2, <2>3, <2>4, <2>6 DEF Queue
<1>9. CASE LockSubJobs(Printer, "lock", "take")
  <2>1. /\ pc[Printer] = "lock" /\ pc' = [pc EXCEPT ![Printer] = "take"]
        /\ subJob.mutex = Nobody /\ subJob' = [subJob EXCEPT !.mutex = Printer]
        /\ printed' = printed /\ currentJobID' = currentJobID
    BY <1>9 DEF LockSubJobs, Move, At, ownVars
  <2>2. /\ pc'[Printer] = "take" /\ subJob'.fullSlots = subJob.fullSlots
        /\ subJob'.num = subJob.num /\ subJob'.next = subJob.next /\ subJob'.mutex = Printer
        /\ subJob'.slot = subJob.slot /\ QueueTypeOK'
    <3>1. pc'[Printer] = "take"
      BY <2>1 DEF JobsInv, JobsTypeOK
    <3>2. subJob.num \in Nat
      BY <1>1, <2>1 DEF QueueTypeOK
    <3>3. /\ subJob' \in [slot : [Jobs -> Nat], num : Nat, next : Nat,
                          mutex : Threads \cup {Printer, Nobody}, fullSlots : Nat]
          /\ subJob'.num = subJob.num /\ subJob'.slot = subJob.slot
          /\ subJob'.fullSlots = subJob.fullSlots /\ subJob'.next = subJob.next
          /\ subJob'.mutex = Printer
      BY <1>1, <2>1, <3>2 DEF QueueTypeOK
    <3> QED
      BY <1>1, <2>1, <3>1, <3>3 DEF QueueTypeOK, Threads, Jobs
  <2>3. QueueCounts'
    BY <1>1, <1>2, <1>4, <1>5, <2>1, <2>2 DEF QueueCounts, QueueTypeOK
  <2>4. QueuePlaces'
    <3>1. \A u \in Threads : pc[u] \notin {"put", "count"}
      BY <1>1, <2>1, ThreadNames DEF QueuePlaces, Threads
    <3> QED
      BY <1>1, <1>2, <1>3, <1>7, <2>1, <2>2, <3>1 DEF QueuePlaces, Threads
  <2>5. SlotsWritten' = SlotsWritten
    BY <1>4, <2>2 DEF SlotsWritten, Threads
  <2>6. SlotsHold'
    BY <1>1, <1>4, <1>6, <2>1, <2>2, <2>5, SlotsSame
  <2> QED
    BY <1>1, <1>2, <2>2, <2>3, <2>4, <2>6 DEF Queue
<1>10. CASE TakeSubJob
  <2>1. /\ pc[Printer] = "take" /\ pc' = [pc EXCEPT ![Printer] = "print"]
        /\ subJob' = [subJob EXCEPT !.next = subJob.next + 1, !.mutex = Nobody]
        /\ printed' = printed /\ currentJobID' = [currentJobID EXCEPT ![Printer] = subJob.next]
    BY <1>10 DEF TakeSubJob, Move, At
  <2>2. /\ pc'[Printer] = "print" /\ subJob'.fullSlots = subJob.fullSlots
        /\ subJob'.num = subJob.num /\ subJob'.next = subJob.next + 1 /\ subJob'.mutex = Nobody
        /\ subJob'.slot = subJob.slot /\ QueueTypeOK'
    <3>1. pc'[Printer] = "print"
      BY <2>1 DEF JobsInv, JobsTypeOK
    <3>2. subJob.next + 1 \in Nat
      BY <1>1, <2>1 DEF QueueTypeOK
    <3>3. /\ subJob' \in [slot : [Jobs -> Nat], num : Nat, next : Nat,
                          mutex : Threads \cup {Printer, Nobody}, fullSlots : Nat]
          /\ subJob'.num = subJob.num /\ subJob'.slot = subJob.slot
          /\ subJob'.fullSlots = subJob.fullSlots /\ subJob'.next = subJob.next + 1
          /\ subJob'.mutex = Nobody
      BY <1>1, <2>1, <3>2 DEF QueueTypeOK
    <3> QED
      BY <1>1, <2>1, <3>1, <3>3 DEF QueueTypeOK, Threads, Jobs
  <2>3. QueueCounts'
    <3>1. /\ nextJobToBeDone = subJob.num + InHand
          /\ subJob.num = subJob.next + subJob.fullSlots + Announcing + 1
          /\ subJob.next = Len(printed) + 0
      BY <1>1, <2>1 DEF QueueCounts
    <3>2. /\ subJob.num \in Nat /\ subJob.next \in Nat /\ subJob.fullSlots \in Nat
          /\ Len(printed) \in Nat
      BY <1>1 DEF QueueTypeOK
    <3>3. /\ nextJobToBeDone' = subJob'.num + InHand'
          /\ subJob'.num = subJob'.next + subJob'.fullSlots + Announcing' + 0
          /\ subJob'.next = Len(printed') + 1
      <4>1. nextJobToBeDone' = subJob'.num + InHand'
        BY <1>2, <1>4, <2>2, <3>1
      <4>2. subJob'.num = subJob'.next + subJob'.fullSlots + Announcing' + 0
        <5>1. \A a, b, c \in Nat : a + b + c + 1 = (a + 1) + b + c + 0
          OBVIOUS
        <5>2. subJob.next + subJob.fullSlots + Announcing + 1
                = (subJob.next + 1) + subJob.fullSlots + Announcing + 0
          BY ONLY <1>5, <3>2, <5>1
        <5> QED
          BY ONLY <1>4, <2>2, <3>1, <5>2
      <4>3. subJob'.next = Len(printed') + 1
        BY <2>1, <2>2, <3>1, <3>2
      <4> QED
        BY <4>1, <4>2, <4>3
    <3> QED
      BY <2>2, <3>3 DEF QueueCounts
  <2>4. QueuePlaces'
    <3>1. \A u \in Threads : pc[u] \notin {"put", "count"}
      BY <1>1, <2>1, ThreadNames DEF QueuePlaces
    <3>2. currentJobID'[Printer] = subJob.next
      BY <2>1 DEF JobsInv, JobsTypeOK
    <3>3. currentJobID'[Printer] = subJob'.next - 1
      BY <1>1, <2>2, <3>2 DEF QueueTypeOK
    <3> QED
      BY <1>1, <1>2, <1>3, <1>7, <2>1, <2>2, <3>1, <3>3 DEF QueuePlaces, Threads
  <2>5. SlotsWritten' = SlotsWritten
    BY <1>4, <2>2 DEF SlotsWritten, Threads
  <2>6. SlotsHold'
    BY <1>1, <1>4, <1>6, <2>1, <2>2, <2>5, SlotsSame
  <2> QED
    BY <1>1, <1>2, <2>2, <2>3, <2>4, <2>6 DEF Queue
<1>11. CASE processASubJob
  <2>1. /\ pc[Printer] = "print"
        /\ pc' = [pc EXCEPT ![Printer] =
                    IF currentJobID[Printer] = NumJobs - 1 THEN "ended" ELSE "enter"]
        /\ printed' = Append(printed, subJob.slot[currentJobID[Printer]])
        /\ subJob' = subJob /\ currentJobID' = currentJobID
    BY <1>11 DEF processASubJob, Move, At, ownVars
  <2>2. currentJobID[Printer] = Len(printed) /\ subJob.next = Len(printed) + 1
    BY <1>1, <2>1 DEF QueuePlaces, QueueCounts, QueueTypeOK
  <2>3. Len(printed) \in Jobs
    BY <1>1, <1>5, <2>1, <2>2 DEF QueueCounts, QueueTypeOK, Jobs
  <2>4. /\ printed' \in Seq(Nat) /\ Len(printed') = Len(printed) + 1
        /\ printed'[Len(printed) + 1] = subJob.slot[Len(printed)]
        /\ \A n \in 1..Len(printed) : printed'[n] = printed[n]
    BY <1>1, <2>1, <2>2, <2>3 DEF QueueTypeOK
  <2>5. /\ pc'[Printer] \in {"ended", "enter"}
        /\ pc'[Printer] = "ended" <=> Len(printed') = NumJobs
    BY <1>1, <2>1, <2>2, <2>4 DEF JobsInv, JobsTypeOK, QueueTypeOK
  <2>6. QueueTypeOK'
    BY <1>1, <2>1, <2>4 DEF QueueTypeOK, Threads, Jobs
  <2>7. QueueCounts'
    BY <1>1, <1>2, <1>4, <1>5, <2>1, <2>2, <2>4, <2>5 DEF QueueCounts, QueueTypeOK
  <2>8. QueuePlaces'
    BY <1>1, <1>2, <1>3, <1>7, <2>1, <2>5 DEF QueuePlaces, Threads
  <2>9. SlotsWritten' = SlotsWritten
    BY <1>4, <2>1 DEF SlotsWritten, Threads
  <2>10. \A n \in 1..Len(printed') : printed'[n] = subJob.slot[n - 1]
    <3> TAKE n \in 1..Len(printed')
    <3>1. Len(printed) \in Nat
      BY <1>1 DEF QueueTypeOK
    <3>2. CASE n = Len(printed) + 1
      BY <2>4, <3>1, <3>2
    <3>3. CASE n # Len(printed) + 1
      BY <1>1, <2>4, <3>1, <3>3 DEF SlotsHold
    <3> QED
      BY <3>2, <3>3
  <2>11. SlotsHold'
    <3>1. \A k : SlotsWith(k)' = SlotsWith(k)
      BY <2>1, <2>9 DEF SlotsWith
    <3>2. \A k : ThreadsWith(k)' = ThreadsWith(k)
      BY <1>4 DEF ThreadsWith, Threads
    <3>3. Threads' = Threads
      BY DEF Threads
    <3> QED
      BY <1>1, <1>6, <2>1, <2>9, <2>10, <3>1, <3>2, <3>3 DEF SlotsHold
  <2> QED
    BY <1>1, <1>2, <2>6, <2>7, <2>8, <2>11 DEF Queue
<1> QED
  BY <1>8, <1>9, <1>10, <1>11 DEF fprintSum, recvASubJob

-----------------------------------------------------------------------------
(* The threads of HeteroThreads *)

\* A thread moves: nothing else changes but what it takes, holds and puts.
LEMMA ThreadQueue ==
  ASSUME JobsInv, Queue, program = "Hetero", NEW t \in Threads,
         NEW from \in JobLabels, NEW to \in JobLabels,
         pc[t] = from, pc' = [pc EXCEPT ![t] = to],
         UNCHANGED <<program, failed, main, printed>>, currentJobID'[Printer] = currentJobID[Printer],
         main = "reset" => nextJobToBeDone' = 0,
         QueueTypeOK',
         nextJobToBeDone' = subJob'.num + InHand',
         subJob'.num - subJob'.fullSlots - Announcing' = subJob.num - subJob.fullSlots - Announcing,
         subJob'.next = subJob.next,
         to \in {"put", "count"} => subJob'.mutex = t,
         subJob'.mutex = subJob.mutex \/ subJob.mutex \in {t, Nobody},
         SlotsHold'
  PROVE  Queue'
<1>1. QueueTypeOK /\ QueueCounts /\ QueuePlaces /\ failed # "full"
  BY DEF Queue
<1>2. /\ pc'[t] = to /\ pc'[Printer] = pc[Printer]
      /\ \A u \in Threads : u # t => pc'[u] = pc[u]
  BY ThreadNames DEF JobsInv, JobsTypeOK
<1>3. InHand \in Nat /\ Announcing \in Nat /\ Announcing' \in Nat
  <2>1. AtPlaces({"post"})' \in SUBSET Threads
    BY DEF AtPlaces, Threads
  <2> QED
    BY <2>1, CountsType, ThreadsCount DEF Announcing
<1>4. QueueCounts'
  <2>1. /\ subJob.num \in Nat /\ subJob.fullSlots \in Nat /\ subJob.next \in Nat
        /\ subJob'.num \in Nat /\ subJob'.fullSlots \in Nat
    BY <1>1 DEF QueueTypeOK
  <2> DEFINE has == IF pc[Printer] \in {"lock", "take"} THEN 1 ELSE 0
  <2>2. subJob.num = subJob.next + subJob.fullSlots + Announcing + has
    BY <1>1 DEF QueueCounts
  <2>3. has \in Nat
    OBVIOUS
  <2> HIDE DEF has
  <2>4. subJob'.num = subJob.next + subJob'.fullSlots + Announcing' + has
    BY <1>3, <2>1, <2>2, <2>3
  <2>5. subJob'.num = subJob'.next + subJob'.fullSlots + Announcing'
                       + (IF pc'[Printer] \in {"lock", "take"} THEN 1 ELSE 0)
    BY <1>2, <2>4 DEF has
  <2>6. subJob'.next = Len(printed') + (IF pc'[Printer] = "print" THEN 1 ELSE 0)
    BY <1>1, <1>2 DEF QueueCounts
  <2> QED
    BY <2>5, <2>6 DEF QueueCounts
<1>5. QueuePlaces'
  <2>1. \A u \in Threads : pc'[u] \in {"put", "count"} => subJob'.mutex = u
    <3> TAKE u \in Threads
    <3>1. CASE u = t
      BY <1>2, <3>1
    <3>2. CASE u # t
      BY <1>1, <1>2, <3>2, ThreadNames DEF QueuePlaces, Threads
    <3> QED
      BY <3>1, <3>2
  <2>2. pc'[Printer] = "take" => subJob'.mutex = Printer
    BY <1>1, <1>2, ThreadNames DEF QueuePlaces
  <2>3. main' = "reset" => nextJobToBeDone' = 0
    OBVIOUS
  <2> QED
    BY <1>1, <1>2, <2>1, <2>2, <2>3 DEF QueuePlaces, Threads
<1> QED
  BY <1>1, <1>4, <1>5 DEF Queue

LEMMA PutByType ==
  ASSUME Done, NEW t \in Threads
  PROVE  /\ Cardinality(whichJobIHaveDone[t]) \in 0..NumJobs
         /\ pc[t] \in {"process", "input", "put"} => PutBy(t) = Cardinality(whichJobIHaveDone[t]) - 1
         /\ pc[t] \notin {"process", "input", "put"} => PutBy(t) = Cardinality(whichJobIHaveDone[t])
<1>1. whichJobIHaveDone[t] \subseteq Jobs
  BY ThreadNames DEF Done
<1>2. Cardinality(whichJobIHaveDone[t]) \in 0..NumJobs
  BY <1>1, JobsCount
<1> QED
  BY <1>2 DEF PutBy

\* A thread that does not put anything: the slots are as before.
LEMMA SlotsElsewhere ==
  ASSUME JobsInv, Done, SlotsHold, NEW t \in Threads, NEW from \in JobLabels, NEW to \in JobLabels,
         pc[t] = from, pc' = [pc EXCEPT ![t] = to],
         whichJobIHaveDone' = whichJobIHaveDone, printed' = printed,
         subJob'.num = subJob.num, subJob'.slot = subJob.slot,
         from \in {"process", "input", "put"} <=> to \in {"process", "input", "put"},
         from # "count", to # "count",
         to \in {"input", "put"} => whichJobIHaveDone[t] # {}
  PROVE  SlotsHold'
<1>1. pc'[t] = to /\ \A u \in Threads : u # t => pc'[u] = pc[u]
  BY ThreadNames DEF JobsInv, JobsTypeOK
<1>2. SlotsWritten' = SlotsWritten
  <2>1. (\E u \in Threads : pc'[u] = "count") <=> (\E u \in Threads : pc[u] = "count")
    BY <1>1
  <2> QED
    BY <2>1 DEF SlotsWritten, Threads
<1>3. ASSUME NEW u \in Threads
      PROVE  PutBy(u)' = PutBy(u)
  <2>1. CASE u = t
    BY <1>1, <2>1 DEF PutBy
  <2>2. CASE u # t
    BY <1>1, <2>2 DEF PutBy
  <2> QED
    BY <2>1, <2>2
<1>4. \A u \in Threads : pc'[u] \in {"input", "put"} => whichJobIHaveDone'[u] # {}
  <2> TAKE u \in Threads
  <2>1. CASE u = t
    BY <1>1, <2>1
  <2>2. CASE u # t
    BY <1>1, <2>2 DEF SlotsHold
  <2> QED
    BY <2>1, <2>2
<1> QED
  BY <1>2, <1>3, <1>4, SlotsSame

\* Steps that do not touch the queue.
LEMMA StillQueue ==
  ASSUME JobsInv, Places, Done, Queue, program = "Hetero", NEW t \in Threads,
         LockJobs(t) \/ NoJobLeft(t) \/ ReadCounter(t) \/ processAJob(t) \/ TellResult(t)
  PROVE  Queue'
<1>0. QueueTypeOK /\ QueueCounts /\ QueuePlaces /\ SlotsHold
  BY DEF Queue
<1>1. /\ UNCHANGED <<program, failed, main, printed, subJob, whichJobIHaveDone, nextJobToBeDone>>
      /\ currentJobID'[Printer] = currentJobID[Printer]
  BY ThreadNames DEF LockJobs, NoJobLeft, ReadCounter, processAJob, TellResult, Move, At, outside,
     mainVars, subVars, jobVars, ownVars, JobsInv, JobsTypeOK
<1>2. PICK to \in {"check", "take", "end", "input", "ended"} : pc' = [pc EXCEPT ![t] = to]
  BY DEF LockJobs, NoJobLeft, ReadCounter, processAJob, TellResult, Move, At
<1>3. /\ pc[t] \in {"recv", "check", "process", "end"}
      /\ pc[t] = "process" => to = "input"
      /\ to = "input" => pc[t] = "process"
  <2>1. pc'[t] = to
    BY <1>2, ThreadNames DEF JobsInv, JobsTypeOK
  <2> QED
    BY <2>1, ThreadNames DEF LockJobs, NoJobLeft, ReadCounter, processAJob, TellResult, Move,
       At, JobsInv, JobsTypeOK
<1>4. pc[t] \in JobLabels /\ to \in JobLabels
  BY <1>3 DEF JobLabels
<1>5. InHand' = InHand /\ Announcing' = Announcing
  <2>1. /\ pc[t] \in {"process", "input", "put", "count"} <=> to \in {"process", "input", "put", "count"}
        /\ pc[t] \in {"post"} <=> to \in {"post"}
    BY <1>3
  <2>2. \A labels : (pc[t] \in labels <=> to \in labels) =>
          Cardinality(AtPlaces(labels)') = Cardinality(AtPlaces(labels))
    BY <1>2, <1>4, PlacesCount
  <2> QED
    BY <2>1, <2>2 DEF InHand, Announcing
<1>6. to \in {"input", "put"} => whichJobIHaveDone[t] # {}
  BY <1>3, ThreadNames DEF Done
<1>7. SlotsHold'
  BY <1>0, <1>1, <1>2, <1>3, <1>4, <1>6, SlotsElsewhere
<1>8. QueueTypeOK'
  BY <1>0, <1>1 DEF QueueTypeOK, Threads, Jobs
<1>9. /\ main = "reset" => nextJobToBeDone' = 0
      /\ nextJobToBeDone' = subJob'.num + InHand'
      /\ subJob'.num - subJob'.fullSlots - Announcing' = subJob.num - subJob.fullSlots - Announcing
      /\ to \notin {"put", "count"}
  BY <1>0, <1>1, <1>3, <1>5 DEF QueueCounts, QueuePlaces
<1>10. UNCHANGED <<program, failed, main, printed>> /\ subJob'.next = subJob.next
       /\ subJob'.mutex = subJob.mutex
  BY <1>1
<1> QED
  BY <1>1, <1>2, <1>4, <1>7, <1>8, <1>9, <1>10, ThreadQueue

\* The thread that takes a job has one more in hand.
LEMMA TakeQueue ==
  ASSUME JobsInv, Places, Done, Queue, program = "Hetero", NEW t \in Threads, TakeJob(t)
  PROVE  Queue'
<1>0. QueueTypeOK /\ QueueCounts /\ QueuePlaces /\ SlotsHold
  BY DEF Queue
<1>1. /\ UNCHANGED <<program, failed, main, printed, subJob, currentJobID>>
      /\ pc[t] = "take" /\ pc' = [pc EXCEPT ![t] = "process"]
      /\ nextJobToBeDone' = nextJobToBeDone + 1
      /\ whichJobIHaveDone' =
           [whichJobIHaveDone EXCEPT ![t] = whichJobIHaveDone[t] \cup {currentJobID[t]}]
  BY DEF TakeJob, Move, At, outside, mainVars, subVars
<1>2. "take" \in JobLabels /\ "process" \in JobLabels
  BY DEF JobLabels
<1>3. InHand' = InHand + 1 /\ Announcing' = Announcing
  <2>1. \A labels : /\ ("take" \in labels <=> "process" \in labels) =>
                         Cardinality(AtPlaces(labels)') = Cardinality(AtPlaces(labels))
                    /\ "take" \notin labels /\ "process" \in labels =>
                         Cardinality(AtPlaces(labels)') = Cardinality(AtPlaces(labels)) + 1
    BY <1>1, <1>2, PlacesCount
  <2>2. /\ "take" \notin {"process", "input", "put", "count"}
        /\ "process" \in {"process", "input", "put", "count"}
        /\ "take" \in {"post"} <=> "process" \in {"post"}
    OBVIOUS
  <2> QED
    BY <2>1, <2>2 DEF InHand, Announcing
<1>4. pc'[t] = "process" /\ \A u \in Threads : u # t => pc'[u] = pc[u]
  BY <1>1, ThreadNames DEF JobsInv, JobsTypeOK
<1>5. /\ whichJobIHaveDone'[t] = whichJobIHaveDone[t] \cup {currentJobID[t]}
      /\ \A u \in Threads : u # t => whichJobIHaveDone'[u] = whichJobIHaveDone[u]
  BY <1>1, ThreadNames DEF JobsInv, JobsTypeOK
<1>6. /\ currentJobID[t] \in Jobs /\ currentJobID[t] \notin whichJobIHaveDone[t]
      /\ whichJobIHaveDone[t] \subseteq Jobs
  <2>1. t \in Workers
    BY ThreadNames
  <2>2. currentJobID[t] = nextJobToBeDone /\ \A j \in whichJobIHaveDone[t] : j \in Int /\ j < nextJobToBeDone
    BY <1>1, <2>1 DEF JobsInv, JobsTypeOK, BelowCounter
  <2>3. nextJobToBeDone \in Jobs
    BY <1>1, <2>1 DEF Done, DoneBelowCounter, Jobs
  <2>4. nextJobToBeDone \notin whichJobIHaveDone[t]
    BY <2>2, <2>3 DEF Jobs
  <2> QED
    BY <2>1, <2>2, <2>3, <2>4 DEF Done
<1>7. Cardinality(whichJobIHaveDone'[t]) = Cardinality(whichJobIHaveDone[t]) + 1
  BY <1>5, <1>6, JobsCount
<1>8. ASSUME NEW u \in Threads
      PROVE  PutBy(u)' = PutBy(u)
  <2>1. CASE u = t
    <3>1. PutBy(t) = Cardinality(whichJobIHaveDone[t]) /\ Cardinality(whichJobIHaveDone[t]) \in 0..NumJobs
      BY <1>1, PutByType
    <3>2. PutBy(t)' = Cardinality(whichJobIHaveDone'[t]) - 1
      BY <1>4 DEF PutBy
    <3> QED
      BY <1>7, <2>1, <3>1, <3>2
  <2>2. CASE u # t
    BY <1>4, <1>5, <2>2 DEF PutBy
  <2> QED
    BY <2>1, <2>2
<1>9. SlotsHold'
  <2>1. SlotsWritten' = SlotsWritten
    <3>1. (\E u \in Threads : pc'[u] = "count") <=> (\E u \in Threads : pc[u] = "count")
      BY <1>1, <1>4
    <3> QED
      BY <1>1, <3>1 DEF SlotsWritten, Threads
  <2>2. \A u \in Threads : pc'[u] \in {"input", "put"} => whichJobIHaveDone'[u] # {}
    BY <1>0, <1>4, <1>5 DEF SlotsHold
  <2> QED
    BY <1>0, <1>1, <1>8, <2>1, <2>2, SlotsSame
<1>10. QueueTypeOK'
  BY <1>0, <1>1 DEF QueueTypeOK, Threads, Jobs
<1>11. nextJobToBeDone' = subJob'.num + InHand'
  <2>1. subJob.num \in Nat /\ InHand \in Nat /\ nextJobToBeDone = subJob.num + InHand
    BY <1>0, CountsType DEF QueueTypeOK, QueueCounts
  <2> QED
    BY <1>1, <1>3, <2>1
<1>12. /\ subJob'.num - subJob'.fullSlots - Announcing' = subJob.num - subJob.fullSlots - Announcing
       /\ subJob'.next = subJob.next /\ subJob'.mutex = subJob.mutex
       /\ UNCHANGED <<program, failed, main, printed>>
       /\ currentJobID'[Printer] = currentJobID[Printer]
  BY <1>1, <1>3
<1>13. main # "reset"
  BY <1>1, MovingTakesPart, ThreadNames
<1> QED
  BY <1>1, <1>2, <1>9, <1>10, <1>11, <1>12, <1>13, ThreadQueue

LEMMA LockQueue ==
  ASSUME JobsInv, Places, Done, Queue, program = "Hetero", NEW t \in Threads,
         LockSubJobs(t, "input", "put")
  PROVE  Queue'
<1>0. QueueTypeOK /\ QueueCounts /\ QueuePlaces /\ SlotsHold
  BY DEF Queue
<1>1. /\ UNCHANGED <<program, failed, main, printed, currentJobID, nextJobToBeDone, whichJobIHaveDone>>
      /\ pc[t] = "input" /\ pc' = [pc EXCEPT ![t] = "put"]
      /\ subJob.mutex = Nobody /\ subJob' = [subJob EXCEPT !.mutex = t]
  BY DEF LockSubJobs, Move, At, outside, mainVars, jobVars, ownVars
<1>2. "input" \in JobLabels /\ "put" \in JobLabels
  BY DEF JobLabels
<1>3. InHand' = InHand /\ Announcing' = Announcing
  <2>1. \A labels : ("input" \in labels <=> "put" \in labels) =>
                         Cardinality(AtPlaces(labels)') = Cardinality(AtPlaces(labels))
    BY <1>1, <1>2, PlacesCount
  <2>2. /\ "input" \in {"process", "input", "put", "count"} <=> "put" \in {"process", "input", "put", "count"}
        /\ "input" \in {"post"} <=> "put" \in {"post"}
    OBVIOUS
  <2> QED
    BY <2>1, <2>2 DEF InHand, Announcing
<1>4. /\ subJob' \in [slot : [Jobs -> Nat], num : Nat, next : Nat,
                      mutex : Threads \cup {Printer, Nobody}, fullSlots : Nat]
      /\ subJob'.num = subJob.num /\ subJob'.slot = subJob.slot /\ subJob'.next = subJob.next
      /\ subJob'.fullSlots = subJob.fullSlots /\ subJob'.mutex = t
  BY <1>0, <1>1 DEF QueueTypeOK
<1>5. QueueTypeOK'
  BY <1>0, <1>1, <1>4 DEF QueueTypeOK, Threads, Jobs
<1>6. whichJobIHaveDone[t] # {}
  BY <1>0, <1>1 DEF SlotsHold
<1>7. SlotsHold'
  BY <1>0, <1>1, <1>2, <1>4, <1>6, SlotsElsewhere
<1>8. /\ main = "reset" => nextJobToBeDone' = 0
      /\ nextJobToBeDone' = subJob'.num + InHand'
      /\ subJob'.num - subJob'.fullSlots - Announcing' = subJob.num - subJob.fullSlots - Announcing
      /\ UNCHANGED <<program, failed, main, printed>>
      /\ currentJobID'[Printer] = currentJobID[Printer]
  BY <1>0, <1>1, <1>3, <1>4 DEF QueueCounts, QueuePlaces
<1> QED
  BY <1>1, <1>2, <1>4, <1>5, <1>7, <1>8, ThreadQueue

LEMMA CountQueue ==
  ASSUME JobsInv, Places, Done, Queue, program = "Hetero", NEW t \in Threads, CountSubJob(t)
  PROVE  Queue'
<1>0. QueueTypeOK /\ QueueCounts /\ QueuePlaces /\ SlotsHold
  BY DEF Queue
<1>1. /\ UNCHANGED <<program, failed, main, printed, currentJobID, nextJobToBeDone, whichJobIHaveDone>>
      /\ pc[t] = "count" /\ pc' = [pc EXCEPT ![t] = "post"]
      /\ subJob' = [subJob EXCEPT !.num = subJob.num + 1, !.mutex = Nobody]
  BY DEF CountSubJob, Move, At, outside, mainVars, jobVars, ownVars
<1>2. "count" \in JobLabels /\ "post" \in JobLabels
  BY DEF JobLabels
<1>3. InHand' = InHand - 1 /\ Announcing' = Announcing + 1
  <2>1. \A labels : /\ "count" \notin labels /\ "post" \in labels =>
                         Cardinality(AtPlaces(labels)') = Cardinality(AtPlaces(labels)) + 1
                    /\ "count" \in labels /\ "post" \notin labels =>
                         Cardinality(AtPlaces(labels)') = Cardinality(AtPlaces(labels)) - 1
    BY <1>1, <1>2, PlacesCount
  <2>2. /\ "count" \in {"process", "input", "put", "count"}
        /\ "post" \notin {"process", "input", "put", "count"}
        /\ "count" \notin {"post"} /\ "post" \in {"post"}
    OBVIOUS
  <2> QED
    BY <2>1, <2>2 DEF InHand, Announcing
<1>4. /\ subJob' \in [slot : [Jobs -> Nat], num : Nat, next : Nat,
                      mutex : Threads \cup {Printer, Nobody}, fullSlots : Nat]
      /\ subJob'.num = subJob.num + 1 /\ subJob'.slot = subJob.slot /\ subJob'.next = subJob.next
      /\ subJob'.fullSlots = subJob.fullSlots
  <2>1. subJob.num + 1 \in Nat
    BY <1>0 DEF QueueTypeOK
  <2> QED
    BY <1>0, <1>1, <2>1 DEF QueueTypeOK
<1>5. QueueTypeOK'
  BY <1>0, <1>1, <1>4 DEF QueueTypeOK, Threads, Jobs
<1>6. /\ pc'[t] = "post" /\ subJob.mutex = t
      /\ \A u \in Threads : u # t => pc'[u] = pc[u] /\ pc[u] \notin {"put", "count"}
  BY <1>0, <1>1, ThreadNames DEF JobsInv, JobsTypeOK, QueuePlaces
<1>7. SlotsWritten' = SlotsWritten
  <2>1. \A u \in Threads : pc'[u] # "count"
    BY <1>6
  <2>2. subJob.num \in Nat
    BY <1>0 DEF QueueTypeOK
  <2>3. \A n \in 1..NumJobs : n <= subJob.num + 1 <=> n <= subJob.num \/ n = subJob.num + 1
    BY <2>2
  <2>4. SlotsWritten' = {n \in 1..NumJobs : n <= subJob.num + 1}
    BY <1>4, <2>1 DEF SlotsWritten, Threads
  <2>5. SlotsWritten = {n \in 1..NumJobs : n <= subJob.num \/ n = subJob.num + 1}
    BY <1>1 DEF SlotsWritten
  <2> QED
    BY <2>3, <2>4, <2>5
<1>8. ASSUME NEW u \in Threads
      PROVE  PutBy(u)' = PutBy(u)
  <2>1. CASE u = t
    BY <1>1, <1>6, <2>1 DEF PutBy
  <2>2. CASE u # t
    BY <1>1, <1>6, <2>2 DEF PutBy
  <2> QED
    BY <2>1, <2>2
<1>9. SlotsHold'
  <2>1. \A u \in Threads : pc'[u] \in {"input", "put"} => whichJobIHaveDone'[u] # {}
    BY <1>0, <1>1, <1>6 DEF SlotsHold
  <2> QED
    BY <1>0, <1>1, <1>4, <1>7, <1>8, <2>1, SlotsSame
<1>10. /\ nextJobToBeDone' = subJob'.num + InHand'
       /\ subJob'.num - subJob'.fullSlots - Announcing' = subJob.num - subJob.fullSlots - Announcing
  <2>1. subJob.num \in Nat /\ subJob.fullSlots \in Nat /\ InHand \in Nat /\ Announcing \in Nat
    BY <1>0, CountsType DEF QueueTypeOK
  <2>2. nextJobToBeDone' = subJob.num + InHand
    BY <1>0, <1>1 DEF QueueCounts
  <2> QED
    BY <1>3, <1>4, <2>1, <2>2
<1>11. /\ main = "reset" => nextJobToBeDone' = 0
       /\ UNCHANGED <<program, failed, main, printed>>
       /\ currentJobID'[Printer] = currentJobID[Printer]
  BY <1>0, <1>1 DEF QueuePlaces
<1> QED
  BY <1>1, <1>2, <1>4, <1>5, <1>6, <1>9, <1>10, <1>11, ThreadQueue

LEMMA PostQueue ==
  ASSUME JobsInv, Places, Done, Queue, program = "Hetero", NEW t \in Threads, PostSubJob(t)
  PROVE  Queue'
<1>0. QueueTypeOK /\ QueueCounts /\ QueuePlaces /\ SlotsHold
  BY DEF Queue
<1>1. /\ UNCHANGED <<program, failed, main, printed, currentJobID, nextJobToBeDone, whichJobIHaveDone>>
      /\ pc[t] = "post" /\ pc' = [pc EXCEPT ![t] = "recv"]
      /\ subJob' = [subJob EXCEPT !.fullSlots = subJob.fullSlots + 1]
  BY DEF PostSubJob, Move, At, outside, mainVars, jobVars, ownVars
<1>2. "post" \in JobLabels /\ "recv" \in JobLabels
  BY DEF JobLabels
<1>3. InHand' = InHand /\ Announcing' = Announcing - 1
  <2>1. \A labels : /\ ("post" \in labels <=> "recv" \in labels) =>
                         Cardinality(AtPlaces(labels)') = Cardinality(AtPlaces(labels))
                    /\ "post" \in labels /\ "recv" \notin labels =>
                         Cardinality(AtPlaces(labels)') = Cardinality(AtPlaces(labels)) - 1
    BY <1>1, <1>2, PlacesCount
  <2>2. /\ "post" \in {"process", "input", "put", "count"} <=> "recv" \in {"process", "input", "put", "count"}
        /\ "recv" \notin {"post"} /\ "post" \in {"post"}
    OBVIOUS
  <2> QED
    BY <2>1, <2>2 DEF InHand, Announcing
<1>4. /\ subJob' \in [slot : [Jobs -> Nat], num : Nat, next : Nat,
                      mutex : Threads \cup {Printer, Nobody}, fullSlots : Nat]
      /\ subJob'.num = subJob.num /\ subJob'.slot = subJob.slot /\ subJob'.next = subJob.next
      /\ subJob'.fullSlots = subJob.fullSlots + 1 /\ subJob'.mutex = subJob.mutex
  <2>1. subJob.fullSlots + 1 \in Nat
    BY <1>0 DEF QueueTypeOK
  <2> QED
    BY <1>0, <1>1, <2>1 DEF QueueTypeOK
<1>5. QueueTypeOK'
  BY <1>0, <1>1, <1>4 DEF QueueTypeOK, Threads, Jobs
<1>6. SlotsHold'
  BY <1>0, <1>1, <1>2, <1>4, SlotsElsewhere
<1>7. /\ nextJobToBeDone' = subJob'.num + InHand'
      /\ subJob'.num - subJob'.fullSlots - Announcing' = subJob.num - subJob.fullSlots - Announcing
  <2>1. subJob.num \in Nat /\ subJob.fullSlots \in Nat /\ InHand \in Nat /\ Announcing \in Nat
    BY <1>0, CountsType DEF QueueTypeOK
  <2>2. nextJobToBeDone' = subJob.num + InHand
    BY <1>0, <1>1 DEF QueueCounts
  <2> QED
    BY <1>3, <1>4, <2>1, <2>2
<1>8. /\ main = "reset" => nextJobToBeDone' = 0
      /\ UNCHANGED <<program, failed, main, printed>>
      /\ currentJobID'[Printer] = currentJobID[Printer]
  BY <1>0, <1>1 DEF QueuePlaces
<1> QED
  BY <1>1, <1>2, <1>4, <1>5, <1>6, <1>7, <1>8, ThreadQueue

\* The queue has room for every job that was taken.
LEMMA RoomInQueue ==
  ASSUME JobsInv, Done, Queue, program = "Hetero", NEW t \in Threads, pc[t] = "put"
  PROVE  subJob.num \in Jobs
<1>1. nextJobToBeDone = subJob.num + InHand /\ subJob.num \in Nat
  BY DEF Queue, QueueCounts, QueueTypeOK
<1>2. InHand \in Nat /\ InHand >= 1 /\ nextJobToBeDone \in 0..NumJobs
  BY CountsType, JobsBelow
<1> QED
  BY <1>1, <1>2 DEF Jobs

\* The slot that is written is free, and the sum in it is the next one of the thread.
LEMMA PutQueue ==
  ASSUME JobsInv, Places, Done, Sums, Queue, program = "Hetero", NEW t \in Threads, PutSubJob(t)
  PROVE  Queue'
<1>0. QueueTypeOK /\ QueueCounts /\ QueuePlaces /\ SlotsHold
  BY DEF Queue
<1> DEFINE num == subJob.num
           m == Cardinality(whichJobIHaveDone[t])
<1>1. /\ UNCHANGED <<program, failed, main, printed, currentJobID, nextJobToBeDone, whichJobIHaveDone>>
      /\ pc[t] = "put" /\ pc' = [pc EXCEPT ![t] = "count"]
      /\ subJob' = [subJob EXCEPT !.slot[num] = sum[t]]
  BY DEF PutSubJob, Move, At, outside, mainVars, jobVars, ownVars
<1>2. "put" \in JobLabels /\ "count" \in JobLabels
  BY DEF JobLabels
<1>3. InHand' = InHand /\ Announcing' = Announcing
  <2>1. \A labels : ("put" \in labels <=> "count" \in labels) =>
                         Cardinality(AtPlaces(labels)') = Cardinality(AtPlaces(labels))
    BY <1>1, <1>2, PlacesCount
  <2>2. /\ "put" \in {"process", "input", "put", "count"} <=> "count" \in {"process", "input", "put", "count"}
        /\ "put" \in {"post"} <=> "count" \in {"post"}
    OBVIOUS
  <2> QED
    BY <2>1, <2>2 DEF InHand, Announcing
<1>4. /\ pc'[t] = "count" /\ subJob.mutex = t
      /\ \A u \in Threads : u # t => pc'[u] = pc[u] /\ pc[u] \notin {"put", "count"}
  BY <1>0, <1>1, ThreadNames DEF JobsInv, JobsTypeOK, QueuePlaces
<1>5. num \in Jobs /\ num \in Nat
  BY <1>0, <1>1, RoomInQueue DEF QueueTypeOK
<1>6. m \in 1..NumJobs /\ whichJobIHaveDone[t] \subseteq Jobs
  <2>1. whichJobIHaveDone[t] \subseteq Jobs /\ whichJobIHaveDone[t] # {}
    BY <1>0, <1>1, ThreadNames DEF Done, SlotsHold
  <2>2. m \in 0..NumJobs /\ m >= 1
    BY <2>1, JobsCount
  <2> QED
    BY <2>1, <2>2
<1>7. sum[t] = m * ChunkSize
  <2>1. Processed(t) = whichJobIHaveDone[t]
    BY <1>1 DEF Processed
  <2>2. \A j \in whichJobIHaveDone[t] : Bytes(program)[j] = ChunkSize
    BY <1>6 DEF Bytes, WithFiles
  <2>3. Bytes(program) \in [Jobs -> Nat]
    BY BytesType
  <2>4. SumOver(Bytes(program), whichJobIHaveDone[t]) = m * ChunkSize
    BY <1>6, <2>2, <2>3, SumOfEqual
  <2> QED
    BY <2>1, <2>4, ThreadNames DEF Sums, TakesPart
<1> HIDE DEF m
<1>8. sum[t] \in Nat /\ sum[t] > 0
  <2>1. m * ChunkSize \in Nat /\ m * ChunkSize > 0
    BY <1>6
  <2> QED
    BY <1>7, <2>1
<1>9. /\ subJob' \in [slot : [Jobs -> Nat], num : Nat, next : Nat,
                      mutex : Threads \cup {Printer, Nobody}, fullSlots : Nat]
      /\ subJob'.num = subJob.num /\ subJob'.next = subJob.next
      /\ subJob'.fullSlots = subJob.fullSlots /\ subJob'.mutex = subJob.mutex
      /\ subJob'.slot = [subJob.slot EXCEPT ![num] = sum[t]]
  BY <1>0, <1>1, <1>5, <1>8 DEF QueueTypeOK
<1>10. QueueTypeOK'
  BY <1>0, <1>1, <1>9 DEF QueueTypeOK, Threads, Jobs
<1>11. /\ subJob'.slot[num] = m * ChunkSize
       /\ \A j \in Jobs : j # num => subJob'.slot[j] = subJob.slot[j]
  BY <1>0, <1>5, <1>7, <1>9 DEF QueueTypeOK
<1>12. SlotsWritten' = SlotsWritten \cup {num + 1} /\ num + 1 \notin SlotsWritten
       /\ SlotsWritten \subseteq 1..NumJobs /\ num + 1 \in 1..NumJobs
       /\ \A n \in SlotsWritten : n - 1 \in Jobs /\ n - 1 # num
  <2>1. SlotsWritten = {n \in 1..NumJobs : n <= num}
    BY <1>1, <1>4 DEF SlotsWritten
  <2>2. SlotsWritten' = {n \in 1..NumJobs : n <= num \/ n = num + 1}
    BY <1>4, <1>9 DEF SlotsWritten, Threads
  <2>3. num + 1 \in 1..NumJobs
    BY <1>5 DEF Jobs
  <2> HIDE DEF num
  <2>4. \A n \in SlotsWritten : n - 1 \in Jobs /\ n - 1 # num
    BY <1>5, <2>1 DEF Jobs
  <2> QED
    BY <1>5, <2>1, <2>2, <2>3, <2>4
<1>13. /\ PutBy(t) = m - 1 /\ PutBy(t)' = m
       /\ \A u \in Threads : u # t => PutBy(u)' = PutBy(u)
  <2>1. PutBy(t) = m - 1
    BY <1>1, PutByType DEF m
  <2>2. PutBy(t)' = m
    <3>1. PutBy(t)' = Cardinality(whichJobIHaveDone'[t]) - 0
      BY <1>4 DEF PutBy
    <3>2. Cardinality(whichJobIHaveDone'[t]) = m
      BY <1>1 DEF m
    <3> QED
      BY <1>6, <3>1, <3>2
  <2>3. \A u \in Threads : u # t => PutBy(u)' = PutBy(u)
    BY <1>1, <1>4 DEF PutBy
  <2> QED
    BY <2>1, <2>2, <2>3
<1>14. ASSUME NEW k \in 1..NumJobs
       PROVE  Cardinality(SlotsWith(k)') = Cardinality(ThreadsWith(k)')
  <2>1. SlotsWith(k)' = {n \in SlotsWritten \cup {num + 1} : subJob'.slot[n - 1] = k * ChunkSize}
    BY <1>12 DEF SlotsWith
  <2>2. \A n \in SlotsWritten : subJob'.slot[n - 1] = subJob.slot[n - 1]
    BY <1>11, <1>12
  <2>3. subJob'.slot[(num + 1) - 1] = m * ChunkSize
    BY <1>5, <1>11
  <2>4. m * ChunkSize = k * ChunkSize <=> k = m
    <3>1. \A a, b \in Nat : a < b => a * ChunkSize < b * ChunkSize
      <4> TAKE a, b \in Nat
      <4> HAVE a < b
      <4>1. /\ b * ChunkSize = a * ChunkSize + (b - a) * ChunkSize
            /\ a * ChunkSize \in Nat /\ (b - a) * ChunkSize \in Nat
        OBVIOUS
      <4>2. (b - a) * ChunkSize > 0
        OBVIOUS
      <4> QED
        BY <4>1, <4>2
    <3>2. m \in Nat /\ k \in Nat /\ m * ChunkSize \in Nat /\ k * ChunkSize \in Nat
      BY <1>6
    <3> QED
      BY <3>1, <3>2
  <2>5. ASSUME NEW n
        PROVE  n \in SlotsWith(k)' <=> n \in SlotsWith(k) \/ (n = num + 1 /\ k = m)
    <3>1. n \in SlotsWith(k)' <=> (n \in SlotsWritten \/ n = num + 1) /\ subJob'.slot[n - 1] = k * ChunkSize
      BY <2>1
    <3>2. CASE n = num + 1
      <4>1. subJob'.slot[n - 1] = m * ChunkSize
        BY <2>3, <3>2
      <4>2. n \notin SlotsWith(k)
        BY <1>12, <3>2 DEF SlotsWith
      <4> QED
        BY <2>4, <3>1, <3>2, <4>1, <4>2
    <3>3. CASE n # num + 1
      <4>1. n \in SlotsWith(k) <=> n \in SlotsWritten /\ subJob.slot[n - 1] = k * ChunkSize
        BY DEF SlotsWith
      <4> QED
        BY <2>2, <3>1, <3>3, <4>1
    <3> QED
      BY <3>2, <3>3
  <2>6. ThreadsWith(k)' = IF k = m THEN ThreadsWith(k) \cup {t} ELSE ThreadsWith(k)
    <3>1. ThreadsWith(k)' = {u \in Threads : PutBy(u)' >= k}
      BY DEF ThreadsWith, Threads
    <3>2. PutBy(t)' >= k <=> PutBy(t) >= k \/ k = m
      BY <1>6, <1>13
    <3> QED
      BY <1>13, <3>1, <3>2 DEF ThreadsWith
  <2>7. Cardinality(SlotsWith(k)) = Cardinality(ThreadsWith(k))
    BY <1>0 DEF SlotsHold
  <2>8. CASE k # m
    <3>1. SlotsWith(k)' = SlotsWith(k)
      <4>1. \A n : n \in SlotsWith(k)' <=> n \in SlotsWith(k)
        BY <2>5, <2>8
      <4> QED
        BY <4>1, Zenon DEF SlotsWith
    <3> QED
      BY <2>6, <2>7, <2>8, <3>1
  <2>9. CASE k = m
    <3>1. t \notin ThreadsWith(k) /\ ThreadsWith(k) \subseteq Threads
      BY <1>6, <1>13, <2>9 DEF ThreadsWith
    <3>2. Cardinality(ThreadsWith(k) \cup {t}) = Cardinality(ThreadsWith(k)) + 1
      BY <3>1, ThreadsCount
    <3>3. num + 1 \notin SlotsWith(k) /\ SlotsWith(k) \subseteq 1..NumJobs
      BY <1>12 DEF SlotsWith
    <3>4. IsFiniteSet(1..NumJobs)
      BY FS_Interval
    <3>5. IsFiniteSet(SlotsWith(k))
      BY <3>3, <3>4, FS_Subset
    <3>6. Cardinality(SlotsWith(k) \cup {num + 1}) = Cardinality(SlotsWith(k)) + 1
      BY <3>3, <3>5, FS_AddElement
    <3>7. SlotsWith(k)' = SlotsWith(k) \cup {num + 1}
      <4>1. \A n : n \in SlotsWith(k)' <=> n \in SlotsWith(k) \cup {num + 1}
        BY <2>5, <2>9
      <4> QED
        BY <4>1, Zenon DEF SlotsWith
    <3> QED
      BY <2>6, <2>7, <2>9, <3>2, <3>6, <3>7
  <2> QED
    BY <2>8, <2>9
<1>15. SlotsHold'
  <2>1. \A u \in Threads : pc'[u] \in {"input", "put"} => whichJobIHaveDone'[u] # {}
    BY <1>0, <1>1, <1>4 DEF SlotsHold
  <2>2. \A n \in SlotsWritten' : subJob'.slot[n - 1] > 0
    <3> TAKE n \in SlotsWritten'
    <3>1. CASE n = num + 1
      BY <1>5, <1>7, <1>8, <1>11, <3>1
    <3>2. CASE n # num + 1
      BY <1>0, <1>11, <1>12, <3>2 DEF SlotsHold
    <3> QED
      BY <3>1, <3>2
  <2>3. \A n \in 1..Len(printed) : printed[n] = subJob'.slot[n - 1]
    <3> TAKE n \in 1..Len(printed)
    <3>1. n - 1 \in Jobs /\ n - 1 # num
      <4>1. /\ subJob.next \in Nat /\ subJob.fullSlots \in Nat /\ Len(printed) \in Nat
            /\ Announcing \in Nat
        BY <1>0, CountsType DEF QueueTypeOK
      <4>2. Len(printed) <= subJob.next /\ subJob.next <= num
        BY <1>0, <1>5, <4>1 DEF QueueCounts
      <4> QED
        BY <1>5, <4>1, <4>2 DEF Jobs
    <3> QED
      BY <1>0, <1>11, <3>1 DEF SlotsHold
  <2>4. Threads' = Threads /\ printed' = printed
    BY <1>1 DEF Threads
  <2>5. \A k \in 1..NumJobs : Cardinality(SlotsWith(k))' = Cardinality(ThreadsWith(k))'
    BY <1>14
  <2> QED
    BY <2>1, <2>2, <2>3, <2>4, <2>5 DEF SlotsHold
<1>16. /\ main = "reset" => nextJobToBeDone' = 0
       /\ nextJobToBeDone' = subJob'.num + InHand'
       /\ subJob'.num - subJob'.fullSlots - Announcing' = subJob.num - subJob.fullSlots - Announcing
       /\ UNCHANGED <<program, failed, main, printed>>
       /\ currentJobID'[Printer] = currentJobID[Printer]
  BY <1>0, <1>1, <1>3, <1>9 DEF QueueCounts, QueuePlaces
<1> QED
  BY <1>1, <1>2, <1>4, <1>9, <1>10, <1>15, <1>16, ThreadQueue

-----------------------------------------------------------------------------
\* main moves on.
LEMMA MainQueue ==
  ASSUME JobsInv, Places, Done, Queue, program = "Hetero", Creation
  PROVE  Queue'
<1> USE DEF MainAt, fixed
<1>0. QueueTypeOK /\ QueueCounts /\ QueuePlaces /\ SlotsHold /\ failed # "full"
  BY DEF Queue
<1>1. /\ UNCHANGED <<program, subJob, printed, currentJobID, nextJobToBeDone>>
      /\ failed' # "full"
  <2>1. CASE Reset
    BY <1>0, <2>1 DEF Reset, subVars, QueuePlaces
  <2>2. CASE CreateFails
    BY <2>2 DEF CreateFails, Exit, mainVars, jobVars, subVars, ownVars
  <2> QED
    BY <1>0, <2>1, <2>2 DEF Creation, CreateThread, AllCreated, Join, AllJoined, AddUp, ExitMain,
       subVars, jobVars, ownVars
<1>2. \A u \in Threads : whichJobIHaveDone'[u] = whichJobIHaveDone[u]
  <2>1. CASE Reset
    BY <2>1, ThreadNames DEF Reset, JobsInv, JobsTypeOK
  <2>2. CASE ~Reset
    BY <2>2 DEF Creation, CreateThread, AllCreated, CreateFails, Exit, Join, AllJoined, AddUp,
       ExitMain, ownVars
  <2> QED
    BY <2>1, <2>2
<1>3. \A u \in Threads : pc'[u] = pc[u] \/ (pc[u] = "out" /\ pc'[u] = "recv")
  <2>1. CASE CreateThread
    <3>1. i \in Threads /\ pc[i] = "out"
      BY <2>1 DEF CreateThread, JobsInv, JobsTypeOK, Threads, Places
    <3> QED
      BY <2>1, <3>1, ThreadNames DEF CreateThread, JobsInv, JobsTypeOK
  <2>2. CASE AllCreated
    BY <2>2, ThreadNames DEF AllCreated, JobsInv, JobsTypeOK
  <2>3. CASE ~CreateThread /\ ~AllCreated
    BY <2>3 DEF Creation, Reset, CreateFails, Exit, Join, AllJoined, AddUp, ExitMain
  <2> QED
    BY <2>1, <2>2, <2>3
<1>4. /\ InHand' = InHand /\ Announcing' = Announcing
      /\ \A u \in Threads : PutBy(u)' = PutBy(u)
      /\ SlotsWritten' = SlotsWritten
  <2>1. \A labels : "out" \notin labels /\ "recv" \notin labels =>
          AtPlaces(labels)' = AtPlaces(labels)
    BY <1>3 DEF AtPlaces, Threads
  <2>2. /\ AtPlaces({"process", "input", "put", "count"})' = AtPlaces({"process", "input", "put", "count"})
        /\ AtPlaces({"post"})' = AtPlaces({"post"})
    BY <2>1
  <2>3. ASSUME NEW u \in Threads
        PROVE  PutBy(u)' = PutBy(u)
    <3>1. pc'[u] \in {"process", "input", "put"} <=> pc[u] \in {"process", "input", "put"}
      BY <1>3
    <3> QED
      BY <1>2, <3>1 DEF PutBy
  <2>4. (\E u \in Threads : pc'[u] = "count") <=> (\E u \in Threads : pc[u] = "count")
    BY <1>3
  <2>5. SlotsWritten' = SlotsWritten
    BY <1>1, <2>4 DEF SlotsWritten, Threads
  <2> QED
    BY <2>2, <2>3, <2>5 DEF InHand, Announcing
<1>5. SlotsHold'
  <2>1. \A u \in Threads : pc'[u] \in {"input", "put"} => whichJobIHaveDone'[u] # {}
    BY <1>0, <1>2, <1>3 DEF SlotsHold
  <2> QED
    BY <1>0, <1>1, <1>4, <2>1, SlotsSame
<1>6. QueueTypeOK'
  BY <1>0, <1>1 DEF QueueTypeOK, Threads, Jobs
<1>7. /\ pc'[Printer] = pc[Printer] \/ (pc[Printer] = "out" /\ pc'[Printer] = "enter")
      /\ main' \in {"reset", "create"} => pc'[Printer] = "out"
      /\ main' \in {"add", "exit"} => pc'[Printer] = "ended"
      /\ main' = "reset" => main = "reset"
  <2>1. CASE CreateThread
    <3>1. i \in Threads /\ i # Printer
      BY <2>1, ThreadNames DEF CreateThread, JobsInv, JobsTypeOK, Threads
    <3> QED
      BY <1>0, <2>1, <3>1 DEF CreateThread, JobsInv, JobsTypeOK, QueuePlaces
  <2>2. CASE AllCreated
    BY <1>0, <2>2 DEF AllCreated, JobsInv, JobsTypeOK, QueuePlaces
  <2>3. CASE Reset \/ CreateFails
    BY <1>0, <2>3 DEF Reset, CreateFails, Exit, mainVars, QueuePlaces
  <2>4. CASE Join \/ AllJoined \/ AddUp \/ ExitMain
    BY <1>0, <2>4 DEF Join, AllJoined, AddUp, ExitMain, QueuePlaces
  <2> QED
    BY <2>1, <2>2, <2>3, <2>4 DEF Creation
<1>8. QueueCounts'
  BY <1>0, <1>1, <1>4, <1>7 DEF QueueCounts
<1>9. QueuePlaces'
  <2>1. Len(printed) = NumJobs => Len(printed) # 0
    OBVIOUS
  <2> QED
    BY <1>0, <1>1, <1>3, <1>7, <2>1 DEF QueuePlaces, Threads
<1> QED
  BY <1>1, <1>5, <1>6, <1>8, <1>9 DEF Queue

LEMMA QueueSame ==
  ASSUME Queue, UNCHANGED <<program, main, printed, subJob, pc, whichJobIHaveDone, currentJobID,
                            nextJobToBeDone>>,
         failed' # "full"
  PROVE  Queue'
<1>1. QueueTypeOK' = QueueTypeOK
  BY DEF QueueTypeOK, Threads, Jobs
<1>2. \A u \in Threads : pc'[u] = pc[u] /\ whichJobIHaveDone'[u] = whichJobIHaveDone[u]
  OBVIOUS
<1>3. /\ InHand' = InHand /\ Announcing' = Announcing
      /\ \A u \in Threads : PutBy(u)' = PutBy(u)
  BY <1>2, SameHands
<1>4. QueueCounts' = QueueCounts
  BY <1>3 DEF QueueCounts
<1>5. QueuePlaces' = QueuePlaces
  BY DEF QueuePlaces, Threads
<1>6. SlotsWritten' = SlotsWritten
  BY DEF SlotsWritten, Threads
<1>7. SlotsHold => SlotsHold'
  <2> HAVE SlotsHold
  <2>1. \A t \in Threads : pc'[t] \in {"input", "put"} => whichJobIHaveDone'[t] # {}
    BY DEF SlotsHold
  <2> QED
    BY <1>3, <1>6, <2>1, SlotsSame
<1> QED
  BY <1>1, <1>4, <1>5, <1>7 DEF Queue

LEMMA QueueNextInvariant ==
  ASSUME JobsInv, Places, Done, Sums, Queue, [Next]_vars
  PROVE  Queue'
<1> USE DEF MainAt, fixed
<1>1. failed # "full"
  BY DEF Queue
<1>2. CASE program # "Hetero"
  <2>1. UNCHANGED <<program, subVars>> /\ failed' # "full"
    <3>1. CASE Generation
      BY <1>1, <3>1 DEF Generation, Generate, GenerateFails, DoAllJobs, AllJobsDone, Exit,
         mainVars, subVars
    <3>2. CASE Creation
      BY <1>1, <3>2 DEF Creation, Reset, CreateThread, AllCreated, CreateFails, Join, AllJoined,
         AddUp,
        ExitMain, Exit, mainVars, subVars
    <3>3. CASE Environment \/ UNCHANGED vars
      BY <1>1, <3>3 DEF Environment, vars, outside, mainVars, subVars
    <3>4. ASSUME NEW t \in Workers, ThreadStep(t)
          PROVE  UNCHANGED <<program, subVars>> /\ failed' # "full"
      BY <1>1, <1>2, <3>4 DEF ThreadStep, EnterRange, NextInRange, RangeDone, recvAJob,
         LockJobs, NoJobLeft,
        ReadCounter, TakeJob, Calls, processAJob, TellResult, OpenFails, Exit, outside,
        mainVars, subVars
    <3> QED
      BY <1>2, <3>1, <3>2, <3>3, <3>4, StepCases
  <2> QED
    BY <1>2, <2>1 DEF Queue, subVars
<1>3. CASE program = "Hetero"
  <2>1. CASE Environment \/ UNCHANGED vars
    <3>1. UNCHANGED <<program, main, printed, subJob, pc, whichJobIHaveDone, currentJobID,
                      nextJobToBeDone, failed>>
      BY <2>1 DEF Environment, vars, outside, mainVars, subVars, jobVars, ownVars
    <3> QED
      BY <1>1, <3>1, QueueSame
  <2>2. ASSUME NEW t \in Threads, ThreadStep(t)
        PROVE  Queue'
    <3>1. CASE recvAJob(t) \/ Calls(t)
      BY <1>3, <3>1, StillQueue, TakeQueue DEF recvAJob, Calls
    <3>2. CASE inputASubJob(t)
      <4>1. ~SubJobsFull(t)
        <5>1. pc[t] = "put" => subJob.num \in Jobs
          BY <1>3, RoomInQueue
        <5> QED
          BY <5>1 DEF SubJobsFull, At, Jobs
      <4> QED
        BY <1>3, <3>2, <4>1, LockQueue, PutQueue, CountQueue, PostQueue DEF inputASubJob
    <3> QED
      BY <1>3, <2>2, <3>1, <3>2 DEF ThreadStep, OpenFails, WithFiles
  <2>3. program \notin WithFiles
    BY <1>3 DEF WithFiles
  <2> QED
    BY <1>3, <2>1, <2>2, <2>3, StepCases, MainQueue, PrinterQueue
<1> QED
  BY <1>2, <1>3

LEMMA QueueImplies ==
  ASSUME JobsInv, Places, Done, Queue
  PROVE  SubJobsPrinted
<1>1. failed # "full"
  BY DEF Queue
<1>2. CASE program # "Hetero"
  BY <1>1, <1>2 DEF Queue, SubJobsPrinted
<1>3. CASE program = "Hetero"
  <2>0. QueueTypeOK /\ QueueCounts /\ QueuePlaces /\ SlotsHold
    BY <1>3 DEF Queue
  <2>1. /\ subJob.num \in Nat /\ subJob.next \in Nat /\ subJob.fullSlots \in Nat
        /\ Len(printed) \in Nat /\ Announcing \in Nat /\ InHand \in Nat
        /\ nextJobToBeDone \in 0..NumJobs
    BY <1>3, <2>0, CountsType, JobsBelow DEF QueueTypeOK
  <2>2. Len(printed) <= subJob.num /\ subJob.num <= NumJobs
    <3> DEFINE held == IF pc[Printer] \in {"lock", "take"} THEN 1 ELSE 0
               read == IF pc[Printer] = "print" THEN 1 ELSE 0
    <3>1. /\ nextJobToBeDone = subJob.num + InHand
          /\ subJob.num = subJob.next + subJob.fullSlots + Announcing + held
          /\ subJob.next = Len(printed) + read
      BY <2>0 DEF QueueCounts
    <3>2. held \in Nat /\ read \in Nat
      OBVIOUS
    <3> HIDE DEF held, read
    <3>3. \A a, b, c, d, e, f, h, r, n \in Nat :
            n = a + b /\ a = c + d + e + h /\ c = f + r /\ n <= NumJobs => f <= a /\ a <= NumJobs
      OBVIOUS
    <3>4. nextJobToBeDone \in Nat /\ nextJobToBeDone <= NumJobs
      BY <2>1
    <3> QED
      BY <2>1, <3>1, <3>2, <3>3, <3>4
  <2>3. \A k \in 1..Len(printed) : k \in SlotsWritten
    BY <2>1, <2>2 DEF SlotsWritten
  <2>4. \A k \in DOMAIN printed : printed[k] = subJob.slot[k - 1] /\ printed[k] > 0
    <3>1. DOMAIN printed = 1..Len(printed)
      BY <2>0 DEF QueueTypeOK
    <3> QED
      BY <2>0, <2>3, <3>1 DEF SlotsHold
  <2>5. ASSUME main = "exit"
        PROVE  /\ Len(printed) = NumJobs
               /\ \A k \in 1..NumJobs :
                    Cardinality({n \in 1..NumJobs : printed[n] = k * ChunkSize})
                      = Cardinality({t \in Workers : Cardinality(whichJobIHaveDone[t]) >= k})
    <3>1. Len(printed) = NumJobs
      BY <2>0, <2>5 DEF QueuePlaces
    <3>2. SlotsWritten = 1..NumJobs
      BY <2>3, <3>1 DEF SlotsWritten
    <3>3. whichJobIHaveDone[Main] = {}
      BY <2>5 DEF JobsInv, InRounds
    <3>4. \A t \in Threads : PutBy(t) = Cardinality(whichJobIHaveDone[t])
      <4>1. \A t \in Threads : pc[t] \notin {"process", "input", "put"}
        BY <2>5 DEF Places
      <4> QED
        BY <4>1, PutByType
    <3>5. ASSUME NEW k \in 1..NumJobs
          PROVE  Cardinality({n \in 1..NumJobs : printed[n] = k * ChunkSize})
                   = Cardinality({t \in Workers : Cardinality(whichJobIHaveDone[t]) >= k})
      <4>1. {n \in 1..NumJobs : printed[n] = k * ChunkSize} = SlotsWith(k)
        BY <2>0, <3>1, <3>2 DEF SlotsWith, SlotsHold
      <4>2. ~(Cardinality(whichJobIHaveDone[Main]) >= k)
        <5>1. Cardinality(whichJobIHaveDone[Main]) = 0
          BY <3>3, FS_EmptySet
        <5>2. ~(0 >= k)
          OBVIOUS
        <5> QED
          BY <5>1, <5>2
      <4>3. {t \in Workers : Cardinality(whichJobIHaveDone[t]) >= k} = ThreadsWith(k)
        BY <3>4, <4>2 DEF ThreadsWith, Workers
      <4>4. Cardinality(SlotsWith(k)) = Cardinality(ThreadsWith(k))
        BY <2>0 DEF SlotsHold
      <4> QED
        BY <4>1, <4>3, <4>4
    <3> QED
      BY <3>1, <3>5
  <2> QED
    BY <1>1, <2>4, <2>5 DEF SubJobsPrinted
<1> QED
  BY <1>2, <1>3

-----------------------------------------------------------------------------
(* Each job once *)

\* The sum that is told, as in Work.
Told == IF main \in {"own", "reset"} /\ pc[Main] = "ended" THEN result[Main]
        ELSE IF main = "exit" THEN workerSum ELSE -1

\* Every job is in the range of a thread that is created.
LEMMA RangesCover ==
  ASSUME JobsInv, Places, NEW j \in Jobs
  PROVE  \E t \in Threads : /\ t < numOfWorkerThread
                            /\ RangeOf(t)[1] <= j /\ j < RangeOf(t)[2]
<1> DEFINE n == numOfWorkerThread
           size == NumJobs \div n
           q == j \div size
<1>1. n \in Nat \ {0} /\ n <= NumJobs /\ j \in Nat /\ j < NumJobs
      /\ \A t \in Nat : t < n => t \in Threads
  BY DEF JobsInv, JobsTypeOK, Places, Jobs, Threads
<1>2. size \in Nat \ {0}
  BY <1>1
<1>3. \A t : RangeOf(t) = <<size * t, IF t # n - 1 THEN size * (t + 1) ELSE NumJobs>>
  BY DEF RangeOf
<1> HIDE DEF n, size
<1>4. q \in Nat /\ size * q <= j /\ j < size * (q + 1)
  BY <1>1, <1>2
<1> HIDE DEF q
<1>5. CASE q < n
  <2>1. RangeOf(q)[1] = size * q /\ RangeOf(q)[2] = IF q # n - 1 THEN size * (q + 1) ELSE NumJobs
    BY <1>3
  <2>2. q \in Threads /\ RangeOf(q)[1] <= j /\ j < RangeOf(q)[2]
    BY <1>1, <1>4, <1>5, <2>1
  <2> QED
    BY <1>5, <2>2 DEF n
<1>6. CASE q >= n
  <2>1. n - 1 \in Nat /\ n - 1 < n /\ q - (n - 1) \in Nat
    BY <1>1, <1>4, <1>6
  <2>2. RangeOf(n - 1)[1] = size * (n - 1) /\ RangeOf(n - 1)[2] = NumJobs
    BY <1>3
  <2>3. size * (n - 1) <= size * q
    <3>1. /\ size * q = size * (n - 1) + size * (q - (n - 1))
          /\ size * (n - 1) \in Nat /\ size * (q - (n - 1)) \in Nat
      BY <1>1, <1>2, <1>4, <2>1
    <3> QED
      BY <3>1
  <2>4. size * (n - 1) \in Nat /\ size * q \in Nat
    BY <1>2, <1>4, <2>1
  <2>5. n - 1 \in Threads /\ RangeOf(n - 1)[1] <= j /\ j < RangeOf(n - 1)[2]
    BY <1>1, <1>4, <2>1, <2>2, <2>3, <2>4
  <2> QED
    BY <2>1, <2>5 DEF n
<1> QED
  BY <1>1, <1>4, <1>5, <1>6

LEMMA WorkInit == Init => Work!Init
<1> SUFFICES ASSUME Init
             PROVE  Work!Init
  OBVIOUS
<1>1. Bytes(program) \in [Jobs -> Nat]
  BY BytesType
<1>2. whichJobIHaveDone = [w \in Workers |-> {}]
  BY DEF Init
<1>3. Told = -1
  <2>1. pc[Main] = "out" /\ main # "exit"
    BY ThreadNames DEF Init
  <2> QED
    BY <2>1 DEF Told
<1> QED
  BY <1>1, <1>2, <1>3 DEF Work!Init, Work!Idle, Told

LEMMA WorkStutters ==
  ASSUME UNCHANGED <<program, whichJobIHaveDone>>, Told' = Told
  PROVE  UNCHANGED Work!vars
BY SameBytes DEF Work!vars, Told

\* Before a sum is told, a thread takes a job that no one has.
LEMMA WorkTakes ==
  ASSUME UNCHANGED program, Told = -1, Told' = -1, NEW t \in Workers, NEW j \in Jobs,
         \A u \in Workers : j \notin whichJobIHaveDone[u],
         whichJobIHaveDone' = [whichJobIHaveDone EXCEPT ![t] = @ \cup {j}]
  PROVE  Work!Next
<1>1. j \notin UNION {whichJobIHaveDone[u] : u \in Workers}
  OBVIOUS
<1>2. Work!Take(t, j)
  BY <1>1, SameBytes DEF Work!Take, Work!Taken, Told
<1> QED
  BY <1>2 DEF Work!Next

\* The sum of all jobs is told when all are taken.
LEMMA WorkTells ==
  ASSUME UNCHANGED <<program, whichJobIHaveDone>>, Told = -1,
         \A u \in Workers : whichJobIHaveDone[u] \subseteq Jobs,
         \A j \in Jobs : \E u \in Workers : j \in whichJobIHaveDone[u],
         Told' = SumOver(Bytes(program), Jobs)
  PROVE  Work!Next
<1>1. UNION {whichJobIHaveDone[u] : u \in Workers} = Jobs
  OBVIOUS
<1>2. Told' = Cardinality(Work!Units)
  BY DEF SumOver, UnitsOf, Work!Units
<1>3. Work!Taken = Jobs
  BY <1>1 DEF Work!Taken
<1>4. Bytes(program)' = Bytes(program)
  BY SameBytes
<1>0. \A S : Work!Cardinality(S) = Cardinality(S)
  BY Zenon DEF Work!Cardinality, Cardinality
<1>5. Work!Tell <=> /\ Told = -1 /\ Work!Taken = Jobs /\ Told' = Cardinality(Work!Units)
                     /\ UNCHANGED <<Bytes(program), whichJobIHaveDone>>
  BY <1>0, Zenon DEF Work!Tell, Told
<1>6. Work!Tell
  BY <1>2, <1>3, <1>4, <1>5
<1> QED
  BY <1>6 DEF Work!Next

\* As long as someone is at work nothing is told.
LEMMA NotToldYet ==
  ASSUME JobsInv, Places, NEW t \in Workers, pc[t] \notin {"out", "ended"}, UNCHANGED mainVars,
         NEW to, pc' = [pc EXCEPT ![t] = to]
  PROVE  /\ Told = -1
         /\ to # "ended" \/ t # Main => Told' = -1
         /\ t = Main => main = "own"
<1>1. main \notin {"generate", "reset", "exit"} /\ UNCHANGED main
  BY MovingTakesPart DEF mainVars
<1>2. main = "own" => t = Main
  BY DEF JobsInv, InRounds, Workers
<1>3. t = Main => main = "own"
  BY DEF JobsInv, InRounds
<1>4. pc'[t] = to
  BY DEF JobsInv, JobsTypeOK
<1> QED
  BY <1>1, <1>2, <1>3, <1>4 DEF Told

LEMMA WorkInRange ==
  ASSUME JobsInv, Places, Done, Done', JobsDisjoint', program = "PreAssign", NEW t \in Workers,
         NextInRange(t)
  PROVE  Work!Next
<1>1. /\ pc[t] = "range" /\ pc' = [pc EXCEPT ![t] = "process"] /\ UNCHANGED mainVars
      /\ whichJobIHaveDone' = [whichJobIHaveDone EXCEPT ![t] = @ \cup {currentJobID[t]}]
      /\ UNCHANGED program
  BY DEF NextInRange, Move, At, outside, mainVars
<1>2. Told = -1 /\ Told' = -1
  <2>1. pc[t] \notin {"out", "ended"} /\ "process" # "ended"
    BY <1>1
  <2> QED
    BY <1>1, <2>1, NotToldYet
<1>3. /\ whichJobIHaveDone'[t] = whichJobIHaveDone[t] \cup {currentJobID[t]}
      /\ \A u \in Workers : u # t => whichJobIHaveDone'[u] = whichJobIHaveDone[u]
  BY <1>1 DEF JobsInv, JobsTypeOK
<1>4. currentJobID[t] \in Jobs
  <2>1. whichJobIHaveDone'[t] \subseteq Jobs
    BY DEF Done, Workers, Threads, Jobs
  <2> QED
    BY <1>3, <2>1
<1>5. currentJobID[t] \notin whichJobIHaveDone[t]
  <2>1. TakesPart(t)
    BY <1>1, MovingTakesPart
  <2>2. whichJobIHaveDone[t] = thPara[t][1]..(currentJobID[t] - 1)
    BY <1>1, <2>1 DEF Done, DoneInRange
  <2>3. currentJobID[t] \in Int /\ thPara[t][1] \in Int
    BY DEF JobsInv, JobsTypeOK
  <2> QED
    BY <2>2, <2>3
<1>6. \A u \in Workers : u # t => currentJobID[t] \notin whichJobIHaveDone[u]
  <2> TAKE u \in Workers
  <2> HAVE u # t
  <2>1. whichJobIHaveDone'[t] \cap whichJobIHaveDone'[u] = {}
    BY DEF JobsDisjoint, Workers, Threads
  <2> QED
    BY <1>3, <2>1
<1> QED
  BY <1>1, <1>2, <1>4, <1>5, <1>6, WorkTakes

LEMMA WorkByCounter ==
  ASSUME JobsInv, Places, Done, program # "PreAssign", NEW t \in Workers, TakeJob(t)
  PROVE  Work!Next
<1>1. /\ pc[t] = "take" /\ pc' = [pc EXCEPT ![t] = "process"] /\ UNCHANGED mainVars
      /\ whichJobIHaveDone' = [whichJobIHaveDone EXCEPT ![t] = @ \cup {currentJobID[t]}]
      /\ UNCHANGED program
  BY DEF TakeJob, Move, At, outside, mainVars
<1>2. Told = -1 /\ Told' = -1
  <2>1. pc[t] \notin {"out", "ended"} /\ "process" # "ended"
    BY <1>1
  <2> QED
    BY <1>1, <2>1, NotToldYet
<1>3. currentJobID[t] = nextJobToBeDone /\ nextJobToBeDone \in Jobs
  BY <1>1 DEF JobsInv, BelowCounter, Done, DoneBelowCounter, Jobs
<1>4. \A u \in Workers : nextJobToBeDone \notin whichJobIHaveDone[u]
  BY <1>3 DEF JobsInv, JobsTypeOK, BelowCounter, Jobs
<1> QED
  BY <1>1, <1>2, <1>3, <1>4, WorkTakes

LEMMA WorkToldByMain ==
  ASSUME JobsInv, Places, Done, Sums, TellResult(Main)
  PROVE  Work!Next
<1>1. /\ pc[Main] = "end" /\ pc' = [pc EXCEPT ![Main] = "ended"] /\ UNCHANGED mainVars
      /\ UNCHANGED <<program, main, whichJobIHaveDone>>
      /\ result' = [result EXCEPT ![Main] = sum[Main]]
  BY DEF TellResult, Move, At, outside, mainVars
<1>2. Told = -1 /\ main = "own"
  BY <1>1, ThreadNames, NotToldYet
<1>3. \A u \in Threads : whichJobIHaveDone[u] = {}
  BY <1>2 DEF JobsInv, InRounds
<1>4. Told' = sum[Main]
  <2>1. pc'[Main] = "ended" /\ result'[Main] = sum[Main]
    BY <1>1, ThreadNames DEF JobsInv, JobsTypeOK, Sums
  <2> QED
    BY <1>1, <1>2, <2>1 DEF Told
<1>5. whichJobIHaveDone[Main] = Jobs
  <2>1. CASE program = "PreAssign"
    <3>1. thPara[Main] = <<0, NumJobs>>
      BY <2>1 DEF Done, DoneInRange
    <3>2. whichJobIHaveDone[Main] = thPara[Main][1]..(thPara[Main][2] - 1)
      BY <1>1, <1>2, <2>1, ThreadNames DEF Done, DoneInRange, TakesPart
    <3> QED
      BY <3>1, <3>2 DEF Jobs
  <2>2. CASE program # "PreAssign"
    <3>1. DoneBelowCounter
      BY <2>2 DEF Done
    <3>2. nextJobToBeDone = NumJobs
      BY <1>1, <1>2, <3>1, ThreadNames DEF DoneBelowCounter, TakesPart
    <3>3. \A j \in Jobs : j < NumJobs
      BY DEF Jobs
    <3>4. \A j \in Jobs : \E u \in Workers : j \in whichJobIHaveDone[u]
      BY <3>1, <3>2, <3>3 DEF DoneBelowCounter
    <3>5. \A j \in Jobs : j \in whichJobIHaveDone[Main]
      BY <1>3, <3>4 DEF Workers
    <3> QED
      BY <3>5, ThreadNames DEF Done
  <2> QED
    BY <2>1, <2>2
<1>6. sum[Main] = SumOver(Bytes(program), Jobs)
  <2>1. Processed(Main) = Jobs
    BY <1>1, <1>5 DEF Processed
  <2> QED
    BY <1>2, <2>1, ThreadNames DEF Sums, TakesPart
<1> QED
  <2>1. \A u \in Workers : whichJobIHaveDone[u] \subseteq Jobs
    BY DEF Done
  <2>2. \A j \in Jobs : \E u \in Workers : j \in whichJobIHaveDone[u]
    BY <1>5, ThreadNames
  <2> QED
    BY <1>1, <1>2, <1>4, <1>6, <2>1, <2>2, WorkTells

LEMMA WorkToldAtExit ==
  ASSUME JobsInv, Places, Done, Sums, ExitMain
  PROVE  Work!Next
<1>1. /\ main = "add" /\ main' = "exit" /\ i = numOfWorkerThread
      /\ UNCHANGED <<program, whichJobIHaveDone, workerSum>>
  BY DEF ExitMain, MainAt, fixed, ownVars
<1>2. Told = -1 /\ Told' = workerSum
  BY <1>1 DEF Told
<1>3. \A u \in Threads : u < numOfWorkerThread => pc[u] = "ended" /\ TakesPart(u)
  BY <1>1 DEF Places, TakesPart
<1>4. \A u \in Workers : \A j \in whichJobIHaveDone[u] : u \in Threads /\ u < numOfWorkerThread
  <2>1. whichJobIHaveDone[Main] = {}
    BY <1>1 DEF JobsInv, InRounds
  <2>2. \A u \in Threads : u < numOfWorkerThread \/ pc[u] = "out"
    BY <1>1 DEF Places
  <2>3. \A u \in Workers : pc[u] = "out" => whichJobIHaveDone[u] = {}
    BY DEF Done
  <2> QED
    BY <2>1, <2>2, <2>3 DEF Workers
<1>5. \A j \in Jobs : \E u \in Workers : j \in whichJobIHaveDone[u]
  <2>1. CASE program = "PreAssign"
    <3> TAKE j \in Jobs
    <3>1. PICK u \in Threads : /\ u < numOfWorkerThread
                               /\ RangeOf(u)[1] <= j /\ j < RangeOf(u)[2]
      BY RangesCover
    <3>2. u \in Workers /\ pc[u] = "ended" /\ TakesPart(u)
      BY <1>3, <3>1 DEF Workers
    <3>3. thPara[u] = RangeOf(u)
      BY <2>1, <3>1, <3>2 DEF JobsInv, InRange, RangesGiven
    <3>4. whichJobIHaveDone[u] = thPara[u][1]..(thPara[u][2] - 1)
      BY <2>1, <3>2 DEF Done, DoneInRange
    <3>5. thPara[u][1] \in Int /\ thPara[u][2] \in Int /\ j \in Int
      BY <3>2 DEF JobsInv, JobsTypeOK, Jobs
    <3>6. j \in thPara[u][1]..(thPara[u][2] - 1)
      BY <3>1, <3>3, <3>5
    <3> QED
      BY <3>2, <3>4, <3>6
  <2>2. CASE program # "PreAssign"
    <3>1. DoneBelowCounter
      BY <2>2 DEF Done
    <3>2. 0 \in Threads /\ 0 < numOfWorkerThread /\ 0 \in Workers
      BY DEF JobsInv, JobsTypeOK, Threads, Workers
    <3>3. nextJobToBeDone = NumJobs
      BY <1>3, <3>1, <3>2 DEF DoneBelowCounter
    <3>4. \A j \in Jobs : j < NumJobs
      BY DEF Jobs
    <3> QED
      BY <3>1, <3>3, <3>4 DEF DoneBelowCounter
  <2> QED
    BY <2>1, <2>2
<1>6. JobsAdded = Jobs
  BY <1>1, <1>4, <1>5 DEF JobsAdded
<1>7. workerSum = SumOver(Bytes(program), Jobs)
  BY <1>1, <1>6 DEF Sums
<1>8. \A u \in Workers : whichJobIHaveDone[u] \subseteq Jobs
  BY DEF Done
<1> QED
  BY <1>1, <1>2, <1>5, <1>7, <1>8, WorkTells

\* The next round, or the only one, begins.
LEMMA WorkReset ==
  ASSUME JobsInv, Places, Done, Sums, Reset
  PROVE  Work!Next \/ UNCHANGED Work!vars
<1>1. /\ main = "reset" /\ main' = "create" /\ UNCHANGED <<program, pc>>
      /\ whichJobIHaveDone' = [whichJobIHaveDone EXCEPT ![Main] = {}]
  BY DEF Reset, MainAt, fixed
<1>2. Told' = -1
  BY <1>1 DEF Told
<1>3. \A u \in Threads : whichJobIHaveDone[u] = {}
  BY <1>1 DEF JobsInv, InRounds
<1>4. whichJobIHaveDone \in [Workers -> SUBSET Int]
  BY DEF JobsInv, JobsTypeOK
<1>5. whichJobIHaveDone' = [w \in Workers |-> {}]
  BY <1>1, <1>3, <1>4 DEF Workers
<1>6. CASE pc[Main] = "ended"
  <2>1. Told = result[Main]
    BY <1>1, <1>6 DEF Told
  <2>2. Told # -1
    <3>1. result[Main] \in Nat
      BY ThreadNames DEF Sums
    <3> QED
      BY <2>1, <3>1
  <2>3. Work!NewRound
    BY <1>1, <1>2, <1>5, <2>2, SameBytes DEF Work!NewRound, Work!Idle, Told
  <2> QED
    BY <2>3 DEF Work!Next
<1>7. CASE pc[Main] # "ended"
  <2>1. Told = -1 /\ pc[Main] = "out"
    BY <1>1, <1>7 DEF Told, Places
  <2>2. whichJobIHaveDone[Main] = {}
    BY <2>1, ThreadNames DEF Done
  <2>3. whichJobIHaveDone' = whichJobIHaveDone
    BY <1>1, <1>4, <2>2
  <2> QED
    BY <1>1, <1>2, <2>1, <2>3, WorkStutters
<1> QED
  BY <1>6, <1>7

\* A thread does something else.
LEMMA WorkElsewhere ==
  ASSUME JobsInv, Places, NEW t \in Workers, ThreadStep(t), ~NextInRange(t), ~TakeJob(t),
         t = Main => ~TellResult(t)
  PROVE  UNCHANGED Work!vars
<1>1. /\ UNCHANGED <<mainVars, whichJobIHaveDone>> /\ pc[t] \notin {"out", "ended"}
      /\ \/ UNCHANGED <<pc, result>>
         \/ /\ \E to \in JobLabels : pc' = [pc EXCEPT ![t] = to] /\ (to # "ended" \/ t # Main)
  <2>1. CASE Calls(t)
    BY <2>1 DEF Calls, processAJob, TellResult, Move, At, outside, JobLabels
  <2>2. CASE OpenFails(t)
    BY <2>2 DEF OpenFails, Exit, At, ownVars
  <2>3. CASE inputASubJob(t)
    BY <2>3 DEF inputASubJob, LockSubJobs, PutSubJob, SubJobsFull, CountSubJob, PostSubJob,
       Exit, Move,
       At, outside, ownVars, JobLabels
  <2>4. CASE recvAJob(t)
    BY <2>4 DEF recvAJob, LockJobs, NoJobLeft, ReadCounter, Move, At, outside, ownVars, JobLabels
  <2>5. CASE EnterRange(t) \/ RangeDone(t)
    BY <2>5 DEF EnterRange, RangeDone, Move, At, outside, ownVars, JobLabels
  <2> QED
    BY <2>1, <2>2, <2>3, <2>4, <2>5 DEF ThreadStep
<1>2. CASE UNCHANGED <<pc, result>>
  BY <1>1, <1>2, WorkStutters DEF Told, mainVars
<1>3. CASE ~UNCHANGED <<pc, result>>
  <2>1. PICK to \in JobLabels : pc' = [pc EXCEPT ![t] = to] /\ (to # "ended" \/ t # Main)
    BY <1>1, <1>3
  <2>2. Told = -1 /\ Told' = -1
    BY <1>1, <2>1, NotToldYet
  <2> QED
    BY <1>1, <2>2, WorkStutters DEF mainVars
<1> QED
  BY <1>2, <1>3

\* main does something else.
LEMMA WorkOfMain ==
  ASSUME JobsInv, Places, Generation \/ Creation, ~Reset, ~ExitMain
  PROVE  UNCHANGED Work!vars
<1> USE DEF MainAt, fixed
<1>1. UNCHANGED <<program, whichJobIHaveDone, result>>
  BY DEF Generation, Creation, Generate, GenerateFails, DoAllJobs, AllJobsDone, CreateThread,
     AllCreated,
     CreateFails, Join, AllJoined, AddUp, Exit, mainVars, ownVars
<1>2. Told' = Told
  <2>1. CASE AllJobsDone
    BY <1>1, <2>1 DEF AllJobsDone, Told
  <2>2. CASE DoAllJobs
    <3>1. pc'[Main] \in {"enter", "recv"}
      BY <2>2, ThreadNames DEF DoAllJobs, JobsInv, JobsTypeOK
    <3> QED
      BY <2>2, <3>1 DEF DoAllJobs, Told
  <2>3. CASE Generate \/ GenerateFails \/ CreateFails
    BY <1>1, <2>3 DEF Generate, GenerateFails, CreateFails, Exit, mainVars, Told
  <2>4. CASE CreateThread \/ AllCreated \/ Join \/ AllJoined \/ AddUp
    BY <2>4 DEF CreateThread, AllCreated, Join, AllJoined, AddUp, Told
  <2> QED
    BY <2>1, <2>2, <2>3, <2>4 DEF Generation, Creation
<1> QED
  BY <1>1, <1>2, WorkStutters

LEMMA WorkNext ==
  ASSUME JobsInv, Places, Done, Done', Sums, JobsInv', JobsDisjoint', [Next]_vars
  PROVE  [Work!Next]_(Work!vars)
<1>1. CASE Generation \/ Creation
  BY <1>1, WorkReset, WorkToldAtExit, WorkOfMain
<1>2. CASE Environment \/ UNCHANGED vars
  <2>1. UNCHANGED <<program, main, pc, result, workerSum, whichJobIHaveDone>>
    BY <1>2 DEF Environment, vars, outside, mainVars, ownVars
  <2> QED
    BY <2>1, WorkStutters DEF Told
<1>3. CASE fprintSum
  <2>1. pc'[Main] = pc[Main]
    BY <1>3, PrinterMoves, ThreadNames DEF JobsInv, JobsTypeOK
  <2> QED
    BY <1>3, <2>1, PrinterMoves, WorkStutters DEF Told, mainVars
<1>4. ASSUME NEW t \in Workers, ThreadStep(t)
      PROVE  [Work!Next]_(Work!vars)
  <2>1. CASE NextInRange(t) /\ program = "PreAssign"
    BY <2>1, WorkInRange
  <2>2. CASE TakeJob(t) /\ program # "PreAssign"
    BY <2>2, WorkByCounter
  <2>3. CASE t = Main /\ TellResult(t)
    BY <2>3, WorkToldByMain
  <2>4. ~NextInRange(t) \/ program = "PreAssign"
    BY <1>4 DEF ThreadStep, NextInRange, Calls, processAJob, TellResult, OpenFails, recvAJob,
       LockJobs,
       NoJobLeft, ReadCounter, TakeJob, inputASubJob, LockSubJobs, PutSubJob, SubJobsFull,
       CountSubJob,
       PostSubJob, Move, At
  <2>5. ~TakeJob(t) \/ program # "PreAssign"
    BY <1>4 DEF ThreadStep, EnterRange, NextInRange, RangeDone, Calls, processAJob, TellResult,
       OpenFails,
       TakeJob, Move, At
  <2> QED
    BY <1>4, <2>1, <2>2, <2>3, <2>4, <2>5, WorkElsewhere
<1> QED
  BY <1>1, <1>2, <1>3, <1>4, StepCases

-----------------------------------------------------------------------------
(* The futex programs *)

FutexLabels == {"out", "count", "create", "start", "set", "memset", "wake", "sent", "wait",
                "asleep", "woken", "return", "ended", "failed"}

FutexTypeOK == /\ place \in [F!Sides -> FutexLabels]
               /\ round \in [F!Sides -> Int]

\* By how many iterations the child is ahead of main.
Ahead == round[F!Child] + (IF place[F!Child] = "sent" THEN 1 ELSE 0) - round[F!Parent]

ChildRests == place[F!Child] \in {"out", "start", "wait", "asleep", "sent", "return", "ended"}

\* The child has been woken and has not woken main yet.
ChildsTurn == place[F!Parent] \in {"sent", "wait", "asleep"}

\* Whose turn it is can be told from where main is.
Turns ==
  /\ ChildsTurn => place[F!Child] \in {"woken", "set", "memset", "wake"}
  /\ ~ChildsTurn => ChildRests
  /\ Ahead = IF place[F!Parent] = "woken" THEN 1 ELSE 0
  /\ place[F!Parent] \in {"count", "create"} => place[F!Child] = "out"

\* main leaves its loop after its last iteration.
AllPlayed == place[F!Parent] \in {"return", "ended"} => round[F!Parent] = iterations

FutexInv == FutexTypeOK /\ Turns /\ AllPlayed

LEMMA FutexInitInvariant == F!Init => FutexInv
BY DEF F!Init, FutexInv, FutexTypeOK, Turns, AllPlayed, Ahead, ChildRests, ChildsTurn,
       FutexLabels, F!Sides, F!Parent, F!Child

\* What an inductive invariant says of the places is what is to be shown.
LEMMA FutexInvariantImplies == FutexInv => F!TakesTurns
<1> SUFFICES ASSUME FutexInv
             PROVE  F!TakesTurns
  OBVIOUS
<1> DEFINE sent == IF place[F!Child] = "sent" THEN 1 ELSE 0
<1>1. place[F!Parent] \notin {"set", "memset", "wake", "woken"}
        \/ place[F!Child] \notin {"set", "memset", "wake", "woken"}
  BY DEF FutexInv, Turns, ChildsTurn, ChildRests
<1>2. round[F!Child] + sent - round[F!Parent] \in {0, 1}
  BY DEF FutexInv, Turns, Ahead
<1>3. ASSUME place[F!Parent] = "ended"
      PROVE  round[F!Child] + sent = iterations
  <2>1. round[F!Child] \in Int /\ round[F!Parent] \in Int /\ sent \in Int
    BY DEF FutexInv, FutexTypeOK, F!Sides
  <2>2. round[F!Child] + sent - round[F!Parent] = 0
    BY <1>3 DEF FutexInv, Turns, Ahead
  <2>3. round[F!Parent] = iterations
    BY <1>3 DEF FutexInv, AllPlayed
  <2>4. round[F!Child] + sent = round[F!Parent]
    BY <2>1, <2>2
  <2> QED
    BY <2>3, <2>4
<1> QED
  BY <1>1, <1>2, <1>3 DEF F!TakesTurns, F!Sides

\* The steps before the loops, taken by main.
LEMMA FutexSetupInvariant ==
  ASSUME FutexInv, F!CountIterations \/ F!Create \/ F!CreateFails
  PROVE  FutexInv'
<1>1. CASE F!CountIterations
  BY <1>1 DEF F!CountIterations, F!At, F!Go, FutexInv, FutexTypeOK, Turns, AllPlayed, Ahead, ChildRests,
              ChildsTurn, FutexLabels, F!Sides, F!Parent, F!Child
<1>2. CASE F!Create
  BY <1>2 DEF F!Create, F!At, F!Setup, FutexInv, FutexTypeOK, Turns, AllPlayed, Ahead, ChildRests,
              ChildsTurn, FutexLabels, F!Sides, F!Parent, F!Child
<1>3. CASE F!CreateFails
  BY <1>3 DEF F!CreateFails, F!At, F!Go, F!Setup, FutexInv, FutexTypeOK, Turns, AllPlayed, Ahead, ChildRests,
              ChildsTurn, FutexLabels, F!Sides, F!Parent, F!Child
<1> QED
  BY <1>1, <1>2, <1>3

\* The steps that hand over nothing.
LEMMA FutexOwnInvariant ==
  ASSUME FutexInv, NEW s \in F!Sides, F!Start(s) \/ F!Set(s) \/ F!Memset(s) \/ F!Wait(s) \/ F!Return(s)
  PROVE  FutexInv'
<1> USE DEF F!At, F!Go, F!Setup, FutexInv, FutexTypeOK, Turns, AllPlayed, Ahead, ChildRests,
            ChildsTurn, FutexLabels, F!Sides, F!Parent, F!Child
<1>1. CASE F!Start(s)
  BY <1>1 DEF F!Start
<1>2. CASE F!Set(s)
  BY <1>2 DEF F!Set
<1>3. CASE F!Memset(s)
  BY <1>3 DEF F!Memset
<1>4. CASE F!Wait(s)
  BY <1>4 DEF F!Wait
<1>5. CASE F!Return(s)
  BY <1>5 DEF F!Return
<1> QED
  BY <1>1, <1>2, <1>3, <1>4, <1>5

\* The hand-over: a side wakes the other, which was asleep, and each counts.
LEMMA FutexHandOverInvariant ==
  ASSUME FutexInv, NEW s \in F!Sides, F!Wake(s) \/ F!Sent(s) \/ F!Woken(s)
  PROVE  FutexInv'
<1> USE DEF F!At, F!Go, F!Setup, FutexInv, FutexTypeOK, Turns, AllPlayed, Ahead, ChildRests,
            ChildsTurn, FutexLabels, F!Sides, F!Parent, F!Child
<1>1. CASE F!Wake(s)
  BY <1>1 DEF F!Wake, F!Other
<1>2. CASE F!Sent(s)
  BY <1>2 DEF F!Sent, F!Loop
<1>3. CASE F!Woken(s)
  BY <1>3 DEF F!Woken, F!Loop
<1> QED
  BY <1>1, <1>2, <1>3

LEMMA FutexNextInvariant ==
  ASSUME FutexInv, [F!Next]_F!vars
  PROVE  FutexInv'
<1>1. CASE F!CountIterations \/ F!Create \/ F!CreateFails
  BY <1>1, FutexSetupInvariant
<1>2. CASE \E s \in F!Sides : F!Side(s)
  BY <1>2, FutexOwnInvariant, FutexHandOverInvariant DEF F!Side
<1>3. CASE UNCHANGED F!vars
  BY <1>3 DEF F!vars, FutexInv, FutexTypeOK, Turns, AllPlayed, Ahead, ChildRests, ChildsTurn
<1> QED
  BY <1>1, <1>2, <1>3 DEF F!Next, F!Program

-----------------------------------------------------------------------------
(* The programs whose threads add to one variable *)

TellerTypeOK ==
  /\ teller \in C!Tellers
  /\ depositors \in C!Depositors
  /\ teller \in {"loop", "one-addition"} => depositors = 2
  /\ accountBalance \in Nat
  /\ at \in [C!Depositors -> {"out", "loop", "add", "ended"}]
  /\ loaded \in [C!Depositors -> Nat]
  /\ done \in [C!Depositors -> 0..Rounds]
  /\ after \in {"create", "join", "failed", "exit"}

\* A thread adds while it has rounds to do, with the mutex if there is one.
TellerPlaces ==
  /\ \A t \in C!Depositors : /\ at[t] = "out" => done[t] = 0
                             /\ at[t] = "add" => done[t] < Rounds
                             /\ at[t] = "ended" => done[t] = Rounds
                             /\ t > depositors => at[t] = "out"
                             /\ teller = "one-addition" => done[t] \in {0, Rounds}
                             /\ at[t] = "add" /\ teller = "ATM-mutex" => accountBalanceLock = t
  /\ after = "exit" => \A t \in 1..depositors : at[t] = "ended"

\* The additions that thread t has made, of the number it is to make, and those
\* that all of them have made.
Additions == IF teller = "one-addition" THEN 1 ELSE Rounds
AdditionsOf(t) == IF teller = "one-addition" /\ done[t] # 0 THEN 1 ELSE done[t]
Added == {p \in C!Depositors \X (1..Additions) : p[2] <= AdditionsOf(p[1])}

\* With the mutex, or alone, no addition is lost.
NoneLost ==
  teller = "ATM-mutex" \/ depositors = 1 =>
    /\ accountBalance = Cardinality(Added)
    /\ \A t \in C!Depositors : at[t] = "add" => loaded[t] = accountBalance

\* What is in the account, or in a register, is some of the additions made.
SomeOfAdded(n) == \E k \in 0..Cardinality(Added) : n = k * C!Step
NothingInvented ==
  /\ SomeOfAdded(accountBalance)
  /\ \A t \in C!Depositors : at[t] = "add" => SomeOfAdded(loaded[t])

\* Who adds for a second time has loaded something; so the last store of all
\* leaves two deposits, unless it is the only one of its thread.
NotAllLost ==
  /\ (\E t \in C!Depositors : done[t] > 0) => accountBalance >= 1
  /\ \A t \in C!Depositors : at[t] = "add" /\ done[t] > 0 => loaded[t] >= 1
  /\ \/ accountBalance >= 2
     \/ \A t \in C!Depositors : done[t] = 0
     \/ \E t \in C!Depositors : done[t] = 1

TellerInv == TellerTypeOK /\ TellerPlaces /\ NoneLost /\ NothingInvented /\ NotAllLost

LEMMA TellerConstants ==
  Rounds \in Nat \ {0} /\ MaxDepositors \in Nat \ {0, 1} /\ Nobody \notin C!Depositors
BY SmallAssumption

USE TellerConstants

LEMMA AddedIsFinite ==
  ASSUME TellerTypeOK
  PROVE  IsFiniteSet(Added) /\ Cardinality(Added) \in Nat
<1>1. IsFiniteSet(C!Depositors \X (1..Additions))
  <2>1. IsFiniteSet(C!Depositors) /\ IsFiniteSet(1..Additions)
    BY FS_Interval DEF C!Depositors, Additions
  <2> QED
    BY <2>1, FS_Product
<1>2. Added \subseteq C!Depositors \X (1..Additions)
  BY DEF Added
<1> QED
  BY <1>1, <1>2, FS_Subset, FS_CardinalityType

\* A store makes one addition more.
LEMMA StoreAdds ==
  ASSUME TellerTypeOK, TellerPlaces, NEW CONSTANT t \in C!Depositors, C!Store(t)
  PROVE  Cardinality(Added') = Cardinality(Added) + 1
<1> DEFINE k == AdditionsOf(t) + 1
<1>1. /\ at[t] = "add" /\ done' = [done EXCEPT ![t] = done[t] + C!Step]
      /\ UNCHANGED teller /\ done[t] \in 0..Rounds /\ done[t] < Rounds
      /\ teller = "one-addition" => done[t] = 0
  BY DEF C!Store, C!Move, TellerTypeOK, TellerPlaces
<1>2. k \in 1..Additions /\ AdditionsOf(t) = k - 1
  BY <1>1 DEF AdditionsOf, Additions
<1>3. AdditionsOf(t)' = k
  BY <1>1 DEF AdditionsOf, TellerTypeOK, C!Step
<1>4. \A u \in C!Depositors : u # t => AdditionsOf(u)' = AdditionsOf(u)
  BY <1>1 DEF AdditionsOf, TellerTypeOK
<1>5. UNCHANGED Additions
  BY <1>1 DEF Additions
<1> HIDE DEF k
<1>6. \A n \in 1..Additions : n <= k <=> n <= k - 1 \/ n = k
  BY <1>2 DEF Additions
<1>7. Added' = Added \cup {<<t, k>>}
  <2>1. \A p \in C!Depositors \X (1..Additions) :
          p[2] <= AdditionsOf(p[1])' <=> p[2] <= AdditionsOf(p[1]) \/ p = <<t, k>>
    <3> SUFFICES ASSUME NEW u \in C!Depositors, NEW n \in 1..Additions
                 PROVE  n <= AdditionsOf(u)' <=> n <= AdditionsOf(u) \/ <<u, n>> = <<t, k>>
      OBVIOUS
    <3>1. CASE u = t
      BY <1>2, <1>3, <1>6, <3>1
    <3>2. CASE u # t
      BY <1>4, <3>2
    <3> QED
      BY <3>1, <3>2
  <2>2. Added' = {p \in C!Depositors \X (1..Additions) : p[2] <= AdditionsOf(p[1])'}
    BY <1>5 DEF Added
  <2>3. <<t, k>> \in C!Depositors \X (1..Additions)
    BY <1>2
  <2> QED
    BY <2>1, <2>2, <2>3 DEF Added
<1>8. <<t, k>> \notin Added
  BY <1>2 DEF Added, Additions
<1> QED
  BY <1>7, <1>8, AddedIsFinite, FS_AddElement

LEMMA TellerInitInvariant == C!Init => TellerInv
<1> SUFFICES ASSUME C!Init
             PROVE  TellerInv
  OBVIOUS
<1>1. TellerTypeOK /\ TellerPlaces /\ NotAllLost
  BY DEF C!Init, C!Tellers, C!Depositors, TellerTypeOK, TellerPlaces, NotAllLost
<1>2. Added = {}
  BY DEF C!Init, Added, AdditionsOf, C!Depositors, Additions
<1>3. Cardinality(Added) = 0
  BY <1>2, FS_EmptySet
<1>4. NoneLost /\ NothingInvented
  BY <1>3 DEF C!Init, NoneLost, NothingInvented, SomeOfAdded, C!Step
<1> QED
  BY <1>1, <1>4 DEF TellerInv

\* main, and a thread that ends: neither the account nor a register changes.
LEMMA TellerElsewhereInvariant ==
  ASSUME TellerInv,
         \/ C!Create \/ C!CreateFails \/ C!Join \/ UNCHANGED C!vars
         \/ \E t \in C!Depositors : C!Return(t)
  PROVE  TellerInv'
<1>1. UNCHANGED <<teller, depositors, accountBalance, accountBalanceLock, loaded, done>>
  BY DEF C!Create, C!CreateFails, C!Join, C!Return, C!vars
<1>2. /\ \A t \in C!Depositors :
           \/ at'[t] = at[t]
           \/ at[t] = "out" /\ at'[t] = "loop" /\ t <= depositors
           \/ at[t] = "loop" /\ at'[t] = "ended" /\ done[t] = Rounds
      /\ at' \in [C!Depositors -> {"out", "loop", "add", "ended"}]
      /\ after' \in {"create", "join", "failed", "exit"}
      /\ after' = "exit" => (\A t \in 1..depositors : at[t] = "ended") /\ at' = at
  <2> USE DEF TellerInv, TellerTypeOK, TellerPlaces
  <2>1. CASE C!Create
    <3>1. PICK t \in 1..depositors :
            /\ at[t] = "out" /\ at' = [at EXCEPT ![t] = "loop"]
            /\ after' \in {"join", "create"}
      BY <2>1 DEF C!Create, C!Move
    <3>2. t \in C!Depositors /\ t <= depositors
      BY <3>1 DEF C!Depositors
    <3> QED
      BY <3>1, <3>2
  <2>2. CASE C!CreateFails
    BY <2>2 DEF C!CreateFails
  <2>3. CASE C!Join
    BY <2>3 DEF C!Join
  <2>4. CASE UNCHANGED C!vars
    BY <2>4 DEF C!vars
  <2>5. ASSUME NEW t \in C!Depositors, C!Return(t)
        PROVE  /\ \A u \in C!Depositors :
                    \/ at'[u] = at[u]
                    \/ at[u] = "loop" /\ at'[u] = "ended" /\ done[u] = Rounds
               /\ at' \in [C!Depositors -> {"out", "loop", "add", "ended"}]
               /\ after' = after /\ after # "exit"
    <3>1. at[t] = "loop" /\ at' = [at EXCEPT ![t] = "ended"] /\ done[t] = Rounds
      BY <2>5 DEF C!Return, C!Move
    <3>2. after' = after /\ after # "exit"
      BY <2>5 DEF C!Return, C!Move, C!Ended
    <3> QED
      BY <3>1, <3>2
  <2> QED
    BY <2>1, <2>2, <2>3, <2>4, <2>5
<1>3. TellerTypeOK'
  BY <1>1, <1>2 DEF TellerInv, TellerTypeOK
<1>4. TellerPlaces'
  <2>1. ASSUME NEW t \in C!Depositors
        PROVE  /\ at'[t] = "out" => done'[t] = 0
               /\ at'[t] = "add" => done'[t] < Rounds
               /\ at'[t] = "ended" => done'[t] = Rounds
               /\ t > depositors => at'[t] = "out"
               /\ teller = "one-addition" => done'[t] \in {0, Rounds}
               /\ at'[t] = "add" /\ teller = "ATM-mutex" => accountBalanceLock = t
    <3>1. CASE at'[t] = at[t]
      BY <1>1, <3>1 DEF TellerInv, TellerPlaces
    <3>2. CASE at'[t] # at[t]
      <4>1. ~(t > depositors) \/ at[t] = "loop"
        BY <1>2, <3>2 DEF TellerInv, TellerTypeOK, C!Depositors
      <4> QED
        BY <1>1, <1>2, <3>2, <4>1 DEF TellerInv, TellerPlaces
    <3> QED
      BY <3>1, <3>2
  <2> QED
    BY <1>1, <1>2, <2>1 DEF TellerPlaces
<1>5. Added' = Added /\ C!Step' = C!Step
  BY <1>1 DEF Added, Additions, AdditionsOf, C!Step
<1>6. \A t \in C!Depositors : at'[t] = "add" => at[t] = "add"
  BY <1>2
<1>7. NoneLost' /\ NothingInvented' /\ NotAllLost'
  BY <1>1, <1>5, <1>6 DEF TellerInv, NoneLost, NothingInvented, NotAllLost, SomeOfAdded
<1> QED
  BY <1>3, <1>4, <1>7 DEF TellerInv

LEMMA TellerLoadInvariant ==
  ASSUME TellerInv, NEW CONSTANT t \in C!Depositors, C!Load(t)
  PROVE  TellerInv'
<1>1. /\ at[t] = "loop" /\ at' = [at EXCEPT ![t] = "add"] /\ done[t] < Rounds
      /\ loaded' = [loaded EXCEPT ![t] = accountBalance]
      /\ teller = "ATM-mutex" => accountBalanceLock = Nobody /\ accountBalanceLock' = t
      /\ UNCHANGED <<teller, depositors, accountBalance, done, after>>
      /\ ~C!Ended
  BY DEF C!Load, C!Move, C!LockFree
<1>2. TellerTypeOK'
  BY <1>1 DEF TellerInv, TellerTypeOK
<1>3. TellerPlaces'
  BY <1>1 DEF TellerInv, TellerTypeOK, TellerPlaces, C!Ended
<1>4. Added' = Added /\ C!Step' = C!Step
  BY <1>1 DEF Added, Additions, AdditionsOf, C!Step
<1>5. loaded'[t] = accountBalance
      /\ \A u \in C!Depositors : u # t => at'[u] = at[u] /\ loaded'[u] = loaded[u]
  BY <1>1 DEF TellerInv, TellerTypeOK
<1>6. NoneLost'
  BY <1>1, <1>4, <1>5 DEF TellerInv, NoneLost
<1>7. NothingInvented'
  BY <1>1, <1>4, <1>5 DEF TellerInv, NothingInvented, SomeOfAdded
<1>8. NotAllLost'
  BY <1>1, <1>5 DEF TellerInv, NotAllLost
<1> QED
  BY <1>2, <1>3, <1>6, <1>7, <1>8 DEF TellerInv

LEMMA TellerStoreInvariant ==
  ASSUME TellerInv, NEW CONSTANT t \in C!Depositors, C!Store(t)
  PROVE  TellerInv'
<1>1. /\ at[t] = "add" /\ at' = [at EXCEPT ![t] = "loop"]
      /\ accountBalance' = loaded[t] + C!Step
      /\ done' = [done EXCEPT ![t] = done[t] + C!Step]
      /\ loaded' = [loaded EXCEPT ![t] = 0]
      /\ UNCHANGED <<teller, depositors, after>>
      /\ ~C!Ended
  BY DEF C!Store, C!Move
<1>2. /\ C!Step \in {1, Rounds} /\ C!Step' = C!Step
      /\ teller # "one-addition" => C!Step = 1
      /\ teller = "one-addition" => C!Step = Rounds
  BY <1>1 DEF C!Step
<1>3. /\ done[t] \in 0..Rounds /\ done[t] < Rounds /\ loaded[t] \in Nat
      /\ teller = "one-addition" => done[t] = 0
  BY <1>1 DEF TellerInv, TellerTypeOK, TellerPlaces
<1>4. /\ done'[t] = done[t] + C!Step /\ done'[t] \in 1..Rounds
      /\ teller = "one-addition" => done'[t] = Rounds
  BY <1>1, <1>2, <1>3 DEF TellerInv, TellerTypeOK
<1>5. /\ at'[t] = "loop"
      /\ \A u \in C!Depositors : u # t => /\ at'[u] = at[u] /\ done'[u] = done[u]
                                          /\ loaded'[u] = loaded[u]
  BY <1>1 DEF TellerInv, TellerTypeOK
<1>6. TellerTypeOK'
  <2>1. done' \in [C!Depositors -> 0..Rounds]
    BY <1>1, <1>4, <1>5 DEF TellerInv, TellerTypeOK
  <2>2. accountBalance' \in Nat
    BY <1>1, <1>2, <1>3
  <2> QED
    BY <1>1, <2>1, <2>2 DEF TellerInv, TellerTypeOK
<1>7. TellerPlaces'
  <2>1. \A u \in C!Depositors : u # t /\ teller = "ATM-mutex" => at[u] # "add"
    BY <1>1 DEF TellerInv, TellerPlaces
  <2>2. after' # "exit"
    BY <1>1 DEF C!Ended
  <2> QED
    BY <1>1, <1>4, <1>5, <2>1, <2>2 DEF TellerInv, TellerPlaces
<1>8. Cardinality(Added) \in Nat /\ Cardinality(Added)' = Cardinality(Added) + 1
  BY StoreAdds, AddedIsFinite DEF TellerInv
<1>9. NoneLost'
  <2> SUFFICES ASSUME teller = "ATM-mutex" \/ depositors = 1
               PROVE  /\ accountBalance' = Cardinality(Added)'
                      /\ \A u \in C!Depositors : at'[u] # "add"
    BY <1>1 DEF NoneLost
  <2>1. teller # "one-addition"
    BY DEF TellerInv, TellerTypeOK
  <2>2. loaded[t] = Cardinality(Added)
    BY <1>1 DEF TellerInv, NoneLost
  <2>3. \A u \in C!Depositors : u # t => at[u] # "add"
    <3>1. CASE teller = "ATM-mutex"
      BY <1>1, <3>1 DEF TellerInv, TellerPlaces
    <3>2. CASE depositors = 1
      BY <1>1, <3>2 DEF TellerInv, TellerPlaces, C!Depositors
    <3> QED
      BY <3>1, <3>2
  <2> QED
    BY <1>1, <1>2, <1>5, <1>8, <2>1, <2>2, <2>3
<1>10. NothingInvented'
  <2>1. \A k \in 0..Cardinality(Added) :
          k \in 0..Cardinality(Added)' /\ k + 1 \in 0..Cardinality(Added)'
    BY <1>8
  <2>2. \A k \in Nat : k * C!Step + C!Step = (k + 1) * C!Step
    BY <1>2
  <2>3. PICK k \in 0..Cardinality(Added) : loaded[t] = k * C!Step
    BY <1>1 DEF TellerInv, NothingInvented, SomeOfAdded
  <2>4. SomeOfAdded(accountBalance)'
    <3>1. k \in Nat
      BY <1>8, <2>3
    <3>2. accountBalance' = (k + 1) * C!Step
      BY <1>1, <2>2, <2>3, <3>1
    <3> QED
      BY <1>2, <2>1, <2>3, <3>2 DEF SomeOfAdded
  <2>5. ASSUME NEW u \in C!Depositors, at'[u] = "add"
        PROVE  SomeOfAdded(loaded[u])'
    <3>1. at[u] = "add" /\ loaded'[u] = loaded[u]
      BY <1>5, <2>5
    <3>2. PICK m \in 0..Cardinality(Added) : loaded[u] = m * C!Step
      BY <3>1 DEF TellerInv, NothingInvented, SomeOfAdded
    <3> QED
      BY <1>2, <2>1, <3>1, <3>2 DEF SomeOfAdded
  <2> QED
    BY <2>4, <2>5 DEF NothingInvented
<1>11. NotAllLost'
  <2>1. accountBalance' >= 1
    BY <1>1, <1>2, <1>3
  <2>2. \A u \in C!Depositors : at'[u] = "add" /\ done'[u] > 0 => loaded'[u] >= 1
    BY <1>5 DEF TellerInv, NotAllLost
  <2>3. accountBalance' >= 2 \/ done'[t] = 1
    <3>1. CASE done[t] > 0
      <4>1. loaded[t] >= 1
        BY <1>1, <3>1 DEF TellerInv, NotAllLost
      <4> QED
        BY <1>1, <1>2, <1>3, <4>1
    <3>2. CASE done[t] = 0
      BY <1>1, <1>2, <1>3, <1>4, <3>2
    <3> QED
      BY <1>3, <3>1, <3>2
  <2> QED
    BY <2>1, <2>2, <2>3 DEF NotAllLost
<1> QED
  BY <1>6, <1>7, <1>9, <1>10, <1>11 DEF TellerInv

LEMMA TellerNextInvariant ==
  ASSUME TellerInv, [C!Next]_C!vars
  PROVE  TellerInv'
BY TellerElsewhereInvariant, TellerLoadInvariant, TellerStoreInvariant
   DEF C!Next, C!Program, C!threadDeposit

\* When main has joined the threads, every addition has been made.
LEMMA AllAdded ==
  ASSUME TellerInv, after = "exit"
  PROVE  Cardinality(Added) = depositors * Additions
<1>1. \A t \in C!Depositors : AdditionsOf(t) = IF t <= depositors THEN Additions ELSE 0
  BY DEF TellerInv, TellerTypeOK, TellerPlaces, AdditionsOf, Additions, C!Depositors
<1>2. Added = (1..depositors) \X (1..Additions)
  <2>1. \A t \in C!Depositors, n \in 1..Additions : n <= AdditionsOf(t) <=> t \in 1..depositors
    BY <1>1 DEF TellerInv, TellerTypeOK, C!Depositors, Additions
  <2>2. 1..depositors \subseteq C!Depositors
    BY DEF TellerInv, TellerTypeOK, C!Depositors
  <2> QED
    BY <2>1, <2>2 DEF Added
<1>3. depositors \in Nat \ {0} /\ Additions \in Nat \ {0}
  BY DEF TellerInv, TellerTypeOK, C!Depositors, Additions
<1>4. \A n \in Nat \ {0} : IsFiniteSet(1..n) /\ Cardinality(1..n) = n
  BY FS_Interval
<1>5. /\ IsFiniteSet(1..depositors) /\ Cardinality(1..depositors) = depositors
      /\ IsFiniteSet(1..Additions) /\ Cardinality(1..Additions) = Additions
  BY <1>3, <1>4
<1>6. Cardinality((1..depositors) \X (1..Additions)) = depositors * Additions
  BY ONLY <1>5, FS_Product, Zenon
<1> QED
  BY <1>2, <1>6

LEMMA TellerInvariantImplies == TellerInv => C!Deposits
<1> SUFFICES ASSUME TellerInv, after = "exit"
             PROVE  /\ teller = "ATM-mutex" \/ depositors = 1 =>
                         accountBalance = depositors * Rounds
                    /\ accountBalance \in C!Min({2, Rounds})..(depositors * Rounds)
                    /\ \E k \in 1..(depositors * Rounds) : accountBalance = k * C!Step
  BY DEF C!Deposits
<1>1. /\ depositors \in Nat \ {0} /\ accountBalance \in Nat /\ Rounds \in Nat \ {0}
      /\ 1 \in C!Depositors /\ at[1] = "ended"
  BY DEF TellerInv, TellerTypeOK, TellerPlaces, C!Depositors
<1>2. Cardinality(Added) = depositors * Additions
  BY AllAdded
<1>3. Additions \in Nat \ {0} /\ C!Step \in Nat \ {0}
  BY DEF Additions, C!Step
<1>4. ASSUME teller = "ATM-mutex" \/ depositors = 1
      PROVE  accountBalance = depositors * Rounds
  BY <1>2, <1>4 DEF TellerInv, TellerTypeOK, NoneLost, Additions
<1>5. PICK k \in 0..(depositors * Additions) : accountBalance = k * C!Step
  BY <1>2 DEF TellerInv, NothingInvented, SomeOfAdded
<1>6. accountBalance <= depositors * Rounds
  <2>1. CASE teller = "one-addition"
    <3>1. depositors = 2 /\ Additions = 1 /\ C!Step = Rounds
      BY <2>1 DEF TellerInv, TellerTypeOK, Additions, C!Step
    <3>2. k \in {0, 1, 2}
      BY <1>5, <3>1
    <3> QED
      BY <1>1, <1>5, <3>1, <3>2
  <2>2. CASE teller # "one-addition"
    BY <1>1, <1>5, <2>2 DEF Additions, C!Step
  <2> QED
    BY <2>1, <2>2
<1>7. accountBalance >= 1 /\ (accountBalance >= 2 \/ Rounds = 1)
  <2>1. done[1] = Rounds
    BY <1>1 DEF TellerInv, TellerPlaces
  <2>2. \A t \in C!Depositors : done[t] \in {0, Rounds}
    BY DEF TellerInv, TellerTypeOK, TellerPlaces, C!Depositors
  <2> QED
    BY <1>1, <2>1, <2>2 DEF TellerInv, NotAllLost
<1>8. C!Min({2, Rounds}) <= accountBalance
  <2>1. CASE Rounds = 1
    <3>1. \A x \in {2, Rounds} : (\A y \in {2, Rounds} : x <= y) <=> x = 1
      BY <2>1
    <3>2. C!Min({2, Rounds}) = 1
      BY <2>1, <3>1 DEF C!Min
    <3> QED
      BY <1>7, <3>2
  <2>2. CASE Rounds # 1
    <3>1. \A x \in {2, Rounds} : (\A y \in {2, Rounds} : x <= y) <=> x = 2
      BY <1>1, <2>2
    <3>2. C!Min({2, Rounds}) = 2
      BY <3>1 DEF C!Min
    <3> QED
      BY <1>7, <2>2, <3>2
  <2> QED
    BY <2>1, <2>2
<1>9. C!Min({2, Rounds}) \in Int
  <2>1. \E x \in {2, Rounds} : \A y \in {2, Rounds} : x <= y
    BY <1>1
  <2> QED
    BY <1>1, <2>1 DEF C!Min
<1>10. k \in 1..(depositors * Rounds)
  <2>1. k # 0
    BY <1>3, <1>5, <1>7
  <2>2. k \in Nat /\ k <= accountBalance
    <3>1. k \in Nat /\ C!Step >= 1
      BY <1>1, <1>3, <1>5
    <3>2. k * C!Step >= k
      <4>1. CASE C!Step = 1
        BY <3>1, <4>1
      <4>2. C!Step \in {1, Rounds}
        BY DEF C!Step
      <4>3. k * (C!Step - 1) \in Nat /\ k * C!Step = k * (C!Step - 1) + k
        BY <1>3, <3>1
      <4> QED
        BY <3>1, <4>3
    <3> QED
      BY <1>5, <3>1, <3>2
  <2>3. depositors * Rounds \in Nat
    BY <1>1
  <2> QED
    BY <1>1, <1>6, <2>1, <2>2, <2>3
<1>11. depositors * Rounds \in Nat
  BY <1>1
<1> QED
  BY <1>1, <1>4, <1>5, <1>6, <1>8, <1>9, <1>10, <1>11

-----------------------------------------------------------------------------
(* The programs side by side *)

WorkInv == Places /\ Files /\ Done /\ Sums /\ Queue

IInv == JobsInv /\ WorkInv /\ FutexInv /\ TellerInv /\ PipeInv

LEMMA OnlyOne == JobsInv => JobsDisjoint
  BY RangesDisjoint DEF JobsInv, BelowCounter

LEMMA OneRuns ==
  [AnyNext]_allVars => [Next]_vars /\ [C!Next]_C!vars /\ [F!Next]_F!vars /\ [P!Next]_P!vars
<1> SUFFICES ASSUME [AnyNext]_allVars
             PROVE  [Next]_vars /\ [C!Next]_C!vars /\ [F!Next]_F!vars /\ [P!Next]_P!vars
  OBVIOUS
<1>1. /\ UNCHANGED counterVars => UNCHANGED C!vars
      /\ UNCHANGED futexVars => UNCHANGED F!vars
      /\ UNCHANGED pipeVars => UNCHANGED P!vars
  BY DEF counterVars, C!vars, futexVars, F!vars, pipeVars, P!vars, P!Lines
<1> QED
  BY <1>1 DEF AnyNext, JobStep, CounterStep, FutexStep, PipeStep, allVars

\* The invariants of all four modules hold throughout.
THEOREM Invariant == FairSpecOfAll => []IInv
<1>1. AnyInit => IInv
  BY JobsInitInvariant, PlacesInitInvariant, FilesInitInvariant, DoneInitInvariant,
     SumsInitInvariant, QueueInitInvariant, FutexInitInvariant, TellerInitInvariant, PipeInitInvariant
  DEF AnyInit, IInv, WorkInv
<1>2. IInv /\ [AnyNext]_allVars => IInv'
  <2>1. JobsInv /\ WorkInv /\ [Next]_vars => WorkInv'
    BY OnlyOne, PlacesNextInvariant, FilesNextInvariant, DoneNextInvariant, SumsNextInvariant,
       QueueNextInvariant DEF WorkInv
  <2> QED
    BY <2>1, OneRuns, JobsNextInvariant, FutexNextInvariant, TellerNextInvariant,
       PipeNextInvariant DEF IInv
<1> QED
  BY <1>1, <1>2, PTL DEF FairSpecOfAll

\* In a round no job is done by two threads, whatever the number of jobs and
\* threads: PreAssignJob.c's ranges, and the counter of the other programs,
\* which is read and increased under jobQueueMutex.
THEOREM JobsDoneByOne == FairSpecOfAll => []JobsDisjoint
<1>1. IInv => JobsDisjoint
  BY OnlyOne DEF IInv
<1> QED
  BY <1>1, Invariant, PTL

\* Whatever write returns and however often the disk fills up, every file has all its
\* bytes before it is used, and totalBytes is not too small: generateJobs.
THEOREM FilesAreComplete == FairSpecOfAll => []FilesComplete
<1>1. IInv => FilesComplete
  BY FilesImplies DEF IInv, WorkInv
<1> QED
  BY <1>1, Invariant, PTL

\* HeteroThreads.c never fills its queue, prints no slot before it is written, and in the
\* end has printed the sums that its threads have had, for any number of jobs and threads.
THEOREM SubJobsArePrinted == FairSpecOfAll => []SubJobsPrinted
<1>1. IInv => SubJobsPrinted
  BY QueueImplies DEF IInv, WorkInv
<1> QED
  BY <1>1, Invariant, PTL

\* Each of the four programs does each job once in a round, and what it tells at the
\* end is the sum of all jobs: main's own round, and the threads' round after it.
THEOREM WorkIsDoneOnce == FairSpecOfAll => ImplementsWork
<1>1. AnyInit => Work!Init
  BY WorkInit DEF AnyInit
<1>2. JobsInv' => JobsDisjoint'
  BY OnlyOne, PTL
<1>3. IInv /\ IInv' /\ [AnyNext]_allVars => [Work!Next]_(Work!vars)
  BY <1>2, OneRuns, WorkNext DEF IInv, WorkInv
<1> QED
  BY <1>1, <1>3, Invariant, PTL DEF FairSpecOfAll, ImplementsWork, Work!Spec

\* The two sides of timectxsw.c, timectxswws.c and timetctxsw.c take turns,
\* however often they play and however often a wait or a wake is tried again:
\* at no time do both write, and main ends only when both have played to the end.
THEOREM SidesTakeTurns == FairSpecOfAll => []TakesTurns
<1>1. IInv => TakesTurns
  BY FutexInvariantImplies DEF IInv, TakesTurns
<1> QED
  BY <1>1, Invariant, PTL

\* However the additions of the threads overtake each other, the balance is at
\* least two deposits and never too large, and with the mutex it is all of them:
\* ATMProblemShow.c, ATMProblemShow-mutex.c and Problems-CompilerOptimization.c,
\* for any number of threads and rounds.
THEOREM DepositsAreKept == FairSpecOfAll => []Deposits
<1>1. IInv => Deposits
  BY TellerInvariantImplies DEF IInv, Deposits
<1> QED
  BY <1>1, Invariant, PTL

\* Every line that main writes to the child comes back once and in order, through
\* pipes of any size, and main and popenRWE's error paths leave no end open:
\* multipipe-popen.c.  The child is not killed while it still has lines to echo.
THEOREM LinesComeBack == FairSpecOfAll => []PipesDrained
<1>1. IInv => PipesDrained
  BY PipeInvariantImplies DEF IInv, PipesDrained
<1> QED
  BY <1>1, Invariant, PTL
=============================================================================
