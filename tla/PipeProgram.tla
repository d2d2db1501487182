---------------------------- MODULE PipeProgram ----------------------------
(***************************************************************************)
(* multipipe-popen.c: a child whose stdin, stdout and stderr are pipes.    *)
(* main writes lines to testProgram.c, a thread reads what it echoes, and  *)
(* main closes its end to let the child end.                               *)
(*                                                                         *)
(* External: a line is written and echoed whole (it is far shorter than    *)
(* PIPE_BUF), a read takes what is there and tells the end when nobody     *)
(* can write any more, and a write to a pipe nobody reads kills.           *)
(***************************************************************************)
EXTENDS Integers, Sequences

CONSTANT PipeLines  \* the lines that main writes until it has written 1000 bytes

VARIABLES pipeSize,               \* the lines that a pipe holds, all or fewer; it never changes
          parent, child, reader,  \* where main, the child and ReadOutput are
          open,                   \* the ends that main and the child have open
          in, out,                \* the lines in the two pipes
          written, fgetsBuffer, shown

vars == <<pipeSize, parent, child, reader, open, in, out, written, fgetsBuffer, shown>>

\* An end is the pipe and 0 for reading, 1 for writing.
Ends(p) == {<<p, 0>>, <<p, 1>>}
AllEnds == Ends("in") \cup Ends("out") \cup Ends("err")
ParentEnds == {<<"in", 1>>, <<"out", 0>>, <<"err", 0>>}

Init ==
  /\ pipeSize \in 1..PipeLines
  /\ parent = "in" /\ child = "none" /\ reader = "none"
  /\ open = [main |-> {}, child |-> {}]
  /\ in = <<>> /\ out = <<>>
  /\ written = 0 /\ fgetsBuffer = <<>> /\ shown = <<>>

Ended == parent \in {"failed", "exit"}

Held(end) == \E p \in {"main", "child"} : end \in open[p]

Lines == <<in, out, written, fgetsBuffer, shown>>

-----------------------------------------------------------------------------
(* popenRWE *)

Pipe(from, to) ==
  /\ parent = from
  /\ parent' = to
  /\ open' = [open EXCEPT !.main = @ \cup Ends(from)]
  /\ UNCHANGED <<child, reader, Lines>>

\* Mutant: error_err, reached when the third pipe fails, closes one end less.
Error_errEndLost == open.main \ {<<"out", 1>>}

\* From error_fork, error_err and error_out the labels fall through.
Error_err == IF parent = "fork" THEN AllEnds
             ELSE IF parent = "err" THEN Ends("in") \cup Ends("out")
             ELSE IF parent = "out" THEN Ends("in") ELSE {}

CallFails ==
  /\ parent \in {"in", "out", "err", "fork"}
  /\ parent' = "popenFailed"
  /\ open' = [open EXCEPT !.main = @ \ Error_err]
  /\ UNCHANGED <<child, reader, Lines>>

\* The child has a copy of every end.
Fork ==
  /\ parent = "fork"
  /\ parent' = "close" /\ child' = "close"
  /\ open' = [open EXCEPT !.child = open.main]
  /\ UNCHANGED <<reader, Lines>>

ParentCloses ==
  /\ parent = "close"
  /\ parent' = "create"
  /\ open' = [open EXCEPT !.main = ParentEnds]
  /\ UNCHANGED <<child, reader, Lines>>

popenRWE ==
  \/ Pipe("in", "out") \/ Pipe("out", "err") \/ Pipe("err", "fork")
  \/ CallFails \/ Fork \/ ParentCloses

-----------------------------------------------------------------------------
(* The child: what is left of popenRWE, the shell and testProgram *)

\* Mutant: the child keeps the end that main writes to.
ChildKeepsIn == open.child \ {<<"out", 0>>, <<"err", 0>>}

ChildKeeps == open.child \ ParentEnds

ChildCloses ==
  /\ child = "close"
  /\ child' = "exec"
  /\ open' = [open EXCEPT !.child = ChildKeeps]
  /\ UNCHANGED <<parent, reader, Lines>>

\* The child ends, by itself or because nobody reads what it writes, and all
\* its ends are closed.
ChildEnds(how) ==
  /\ child' = how
  /\ open' = [open EXCEPT !.child = {}]
  /\ UNCHANGED <<parent, reader, Lines>>

Exec == child = "exec" /\ child' = "fgets" /\ UNCHANGED <<parent, reader, open, Lines>>

\* There is no shell or no testProgram.
ExecFails == child = "exec" /\ ChildEnds("notFound")

\* A line of the buffer, which is filled with what the pipe holds.
Fgets ==
  /\ child = "fgets" /\ (fgetsBuffer # <<>> \/ in # <<>>)
  /\ child' = "fprintf"
  /\ IF fgetsBuffer # <<>> THEN UNCHANGED <<in, fgetsBuffer>>
     ELSE fgetsBuffer' = in /\ in' = <<>>
  /\ UNCHANGED <<parent, reader, open, out, written, shown>>

FgetsEnd ==
  /\ child = "fgets" /\ fgetsBuffer = <<>> /\ in = <<>> /\ ~Held(<<"in", 1>>)
  /\ ChildEnds("ended")

\* fprintf and fflush.
Fprintf ==
  /\ child = "fprintf" /\ Len(out) < pipeSize /\ Held(<<"out", 0>>)
  /\ child' = "fgets"
  /\ out' = Append(out, Head(fgetsBuffer))
  /\ fgetsBuffer' = Tail(fgetsBuffer)
  /\ UNCHANGED <<parent, reader, open, in, written, shown>>

FprintfKilled == child = "fprintf" /\ ~Held(<<"out", 0>>) /\ ChildEnds("killed")

testProgram == Exec \/ ExecFails \/ Fgets \/ FgetsEnd \/ Fprintf \/ FprintfKilled

-----------------------------------------------------------------------------
\* The process ends with its thread: by exit(1), or killed by SIGPIPE.
ParentFails ==
  /\ parent' = "failed"
  /\ open' = [open EXCEPT !.main = {}]
  /\ UNCHANGED <<child, reader, Lines>>

PopenFailed == parent = "popenFailed" /\ ParentFails

CreateReader ==
  /\ parent = "create"
  /\ parent' = "write" /\ reader' = "read"
  /\ UNCHANGED <<child, open, Lines>>

CreateFails == parent = "create" /\ ParentFails

\* The loop ends by closing the end that main writes to.
Write ==
  /\ parent = "write" /\ Len(in) < pipeSize /\ Held(<<"in", 0>>)
  /\ in' = Append(in, written)
  /\ written' = written + 1
  /\ IF written' < PipeLines THEN UNCHANGED <<parent, open>>
     ELSE parent' = "join" /\ open' = [open EXCEPT !.main = @ \ {<<"in", 1>>}]
  /\ UNCHANGED <<child, reader, out, fgetsBuffer, shown>>

WriteKilled == parent = "write" /\ ~Held(<<"in", 0>>) /\ ParentFails

Join ==
  /\ parent = "join" /\ reader = "ended"
  /\ parent' = "pclose"
  /\ UNCHANGED <<child, reader, open, Lines>>

\* The ends are closed, in[1] for a second time, and the child waited for.
pcloseRWE ==
  \/ /\ parent = "pclose"
     /\ parent' = "waitpid"
     /\ open' = [open EXCEPT !.main = @ \ ParentEnds]
     /\ UNCHANGED <<child, reader, Lines>>
  \/ /\ parent = "waitpid" /\ child \in {"ended", "notFound", "killed"}
     /\ parent' = "exit"
     /\ UNCHANGED <<child, reader, open, Lines>>

main == PopenFailed \/ CreateReader \/ CreateFails \/ Write \/ WriteKilled \/ Join \/ pcloseRWE

Read ==
  /\ reader = "read" /\ out # <<>>
  /\ shown' = shown \o out /\ out' = <<>>
  /\ UNCHANGED <<parent, child, reader, open, in, written, fgetsBuffer>>

ReadEnd ==
  /\ reader = "read" /\ out = <<>> /\ ~Held(<<"out", 1>>)
  /\ reader' = "ended"
  /\ UNCHANGED <<parent, child, open, Lines>>

ReadOutput == ~Ended /\ (Read \/ ReadEnd)

Program == popenRWE \/ ChildCloses \/ testProgram \/ main \/ ReadOutput

Next == (Program \/ (Ended /\ UNCHANGED vars)) /\ UNCHANGED pipeSize

-----------------------------------------------------------------------------
\* Every line comes back once and in order, however the pipes fill up, when the
\* child could be run; otherwise nothing does, and main cannot tell.  No end of
\* a pipe is left open: not after pcloseRWE, and not when popenRWE fails.
PipesDrained ==
  /\ \A n \in DOMAIN shown : shown[n] = n - 1
  /\ parent = "exit" => Len(shown) = IF child = "ended" THEN PipeLines ELSE 0
  /\ parent \in {"exit", "popenFailed"} => open.main = {}
=============================================================================
