---------------------------- MODULE FutexSwitch ----------------------------
(***************************************************************************)
(* The context-switch measurements that play ping-pong with a futex, side  *)
(* by side: timectxsw.c between two processes, timectxswws.c the same with *)
(* a working set that both write, timetctxsw.c between two threads.  Each  *)
(* side sets the word, wakes the other, and waits to be woken.             *)
(*                                                                         *)
(* External: FUTEX_WAIT sleeps only if the word has the value it is given, *)
(* FUTEX_WAKE says whether there was a sleeper.  No signal interrupts them *)
(* and nothing else wakes the sleepers.                                    *)
(***************************************************************************)
EXTENDS Integers

CONSTANTS Iterations,  \* how often main plays, where it is fixed
          WorkLimit    \* the pages that timectxswws wants to have written: 4 GB

Parent == "parent"
Child == "child"
Sides == {Parent, Child}

VARIABLES bench,       \* "timectxsw", "timectxswws" or "timetctxsw"
          wsPages,     \* ws_pages, argv[1] of timectxswws
          iterations,
          place,       \* where each side is; "out" is a child not created
          round,       \* the loop counter of each side
          futex        \* "zero", "A" or "B"

vars == <<bench, wsPages, iterations, place, round, futex>>

Benches == {"timectxsw", "timectxswws", "timetctxsw"}

Init ==
  /\ bench \in Benches
  /\ wsPages \in IF bench = "timectxswws" THEN {0, 1, 2} ELSE {0}
  /\ iterations = IF bench = "timectxswws" THEN 1 ELSE Iterations
  /\ place = [s \in Sides |-> IF s = Child THEN "out"
                              ELSE IF bench = "timectxswws" THEN "count" ELSE "create"]
  /\ round = [s \in Sides |-> 0]
  /\ futex = "zero"

Ended == place[Parent] \in {"ended", "failed"}

\* When main has returned the other thread is gone; a process plays on.
At(s, label) ==
  place[s] = label /\ ~(Ended /\ bench = "timetctxsw")
Go(s, from, to) == At(s, from) /\ place' = [place EXCEPT ![s] = to]

\* What each side sets, and what it goes to sleep on.
Mine(s) == IF s = Parent THEN "A" ELSE "B"
Other(s) == IF s = Parent THEN Child ELSE Parent

Setup == <<bench, wsPages, iterations>>

-----------------------------------------------------------------------------
\* get_iterations: as many as it takes to write 4 GB.  Without a page the loop
\* does not end.
CountIterations ==
  /\ At(Parent, "count")
  /\ IF iterations * wsPages < WorkLimit
     THEN iterations' = (IF wsPages = 0 THEN iterations ELSE iterations + 1) /\ UNCHANGED place
     ELSE Go(Parent, "count", "create") /\ UNCHANGED iterations
  /\ UNCHANGED <<bench, wsPages, round, futex>>

\* Both processes set the word before they play; of two threads only main does.
Create ==
  /\ At(Parent, "create")
  /\ place' = [s \in Sides |-> IF s = Child /\ bench = "timetctxsw" THEN "wait" ELSE "start"]
  /\ UNCHANGED <<Setup, round, futex>>

\* Nobody looks whether fork failed: main plays alone.
CreateFails ==
  /\ Go(Parent, "create", IF bench = "timetctxsw" THEN "failed" ELSE "start")
  /\ UNCHANGED <<Setup, round, futex>>

Start(s) ==
  /\ Go(s, "start", IF s = Parent THEN "set" ELSE "wait")
  /\ futex' = "A"
  /\ UNCHANGED <<Setup, round>>

-----------------------------------------------------------------------------
\* The word is set, and then the working set written.
Set(s) ==
  /\ Go(s, "set", IF wsPages > 0 THEN "memset" ELSE "wake")
  /\ futex' = Mine(s)
  /\ UNCHANGED <<Setup, round>>

Memset(s) == Go(s, "memset", "wake") /\ UNCHANGED <<Setup, round, futex>>

\* Mutant: FUTEX_WAKE is not tried again when it finds nobody asleep.
WakeOnce(s) ==
  /\ At(s, "wake")
  /\ place' = [place EXCEPT ![s] = "sent",
                            ![Other(s)] = IF @ = "asleep" THEN "woken" ELSE @]
  /\ UNCHANGED <<Setup, round, futex>>

\* FUTEX_WAKE is tried until it has woken the other side.
Wake(s) ==
  /\ At(s, "wake")
  /\ place' = IF place[Other(s)] = "asleep"
              THEN [place EXCEPT ![s] = "sent", ![Other(s)] = "woken"] ELSE place
  /\ UNCHANGED <<Setup, round, futex>>

\* Mutant: FUTEX_WAIT is not tried again when the word has another value.
WaitOnce(s) ==
  /\ Go(s, "wait", IF futex = Mine(Other(s)) THEN "asleep" ELSE "woken")
  /\ UNCHANGED <<Setup, round, futex>>

\* FUTEX_WAIT is tried until the word has the value to sleep on: the child
\* waits for main's "A" to be followed by a wake, main for the child's "B".
Wait(s) ==
  /\ At(s, "wait")
  /\ place' = IF futex = Mine(Other(s)) THEN [place EXCEPT ![s] = "asleep"] ELSE place
  /\ UNCHANGED <<Setup, round, futex>>

\* The end of an iteration: of main's when it was woken, of the child's when it
\* has woken main.
Loop(s, again) ==
  /\ round' = [round EXCEPT ![s] = @ + 1]
  /\ place' = [place EXCEPT ![s] = IF round'[s] = iterations THEN "return" ELSE again]

Sent(s) ==
  /\ At(s, "sent")
  /\ IF s = Child THEN Loop(s, "wait") ELSE Go(s, "sent", "wait") /\ UNCHANGED round
  /\ UNCHANGED <<Setup, futex>>

Woken(s) ==
  /\ At(s, "woken")
  /\ IF s = Parent THEN Loop(s, "set") ELSE Go(s, "woken", "set") /\ UNCHANGED round
  /\ UNCHANGED <<Setup, futex>>

\* The parent waits for the child process; for a thread there is nothing to
\* wait for.
Return(s) ==
  /\ s = Parent => place[Child] = "ended" \/ bench = "timetctxsw"
  /\ Go(s, "return", "ended")
  /\ UNCHANGED <<Setup, round, futex>>

Side(s) == \/ Start(s) \/ Set(s) \/ Memset(s) \/ Wake(s) \/ Wait(s)
           \/ Sent(s) \/ Woken(s) \/ Return(s)

Program == CountIterations \/ Create \/ CreateFails \/ \E s \in Sides : Side(s)

Next == Program \/ (Ended /\ UNCHANGED vars)

Spec == Init /\ [][Next]_vars

-----------------------------------------------------------------------------
\* The sides take turns: at no time do both write the word or the working set,
\* and main is at most one iteration behind, counting the child's when it has
\* woken main.  main ends only when both have played all of them.
TakesTurns ==
  LET sent == IF place[Child] = "sent" THEN 1 ELSE 0
  IN  /\ \E s \in Sides : place[s] \notin {"set", "memset", "wake", "woken"}
      /\ round[Child] + sent - round[Parent] \in {0, 1}
      /\ place[Parent] = "ended" => round[Child] + sent = iterations

\* main counts for ever without a page, and wakes for ever without a child.
PlaysForEver == \/ bench = "timectxswws" /\ wsPages = 0
                \/ place[Child] = "out" /\ place[Parent] = "wake"
=============================================================================
