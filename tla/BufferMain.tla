---------------------------- MODULE BufferMain ----------------------------
(***************************************************************************)
(* What the four programs chapter4/BoundedBuffer-*.c share: the globals,   *)
(* the main thread, which creates the producers, then the consumers, joins *)
(* them all, prints the buffer size and exits, and the two machine steps   *)
(* of bufSize++ and bufSize--: a load into a register and a store.  How a  *)
(* thread gets to these steps is what the programs differ in.              *)
(***************************************************************************)
EXTENDS Integers, FiniteSets

CONSTANTS Producers,  \* th1: the producer threads
          Consumers,  \* th2: the consumer threads
          Capacity,   \* BUF_CAPACITY
          CokeNum,    \* TEST_COKE_NUM
          Nobody      \* the owner of a free mutex

ASSUME BufferAssumption ==
  /\ IsFiniteSet(Producers) /\ Producers # {}
  /\ IsFiniteSet(Consumers) /\ Consumers # {}
  /\ Producers \cap Consumers = {}
  /\ Nobody \notin Producers \cup Consumers
  /\ Capacity \in Nat \ {0}
  /\ CokeNum \in Nat

VARIABLES mainPc,   \* where main is: creating threads, joining them, or out
          started,  \* the threads pthread_create has started
          printed,  \* the coke_num of the last "Before run"/"After run" line
          pc,       \* where each thread is in its loop
          iter,     \* i: the iterations each thread has completed
          reg,      \* the register of a thread between its load and its store
          bufSize,  \* the shared counter
          mutex     \* the thread that holds the mutex, or Nobody

mainVars == <<mainPc, started, printed>>
baseVars == <<mainVars, pc, iter, reg, bufSize, mutex>>

Threads == Producers \cup Consumers

\* TEST_COKE_NUM/producerNum and TEST_COKE_NUM/consumerNum are C integer
\* divisions: what is left over is produced, or consumed, by nobody.
Quota(t) == IF t \in Producers THEN CokeNum \div Cardinality(Producers)
                               ELSE CokeNum \div Cardinality(Consumers)

\* Mutant: bufSize>BUF_CAPACITY for bufSize==BUF_CAPACITY.
BlockedOneLate(t) == IF t \in Producers THEN bufSize > Capacity ELSE bufSize = 0

\* The condition under which a thread may not go on: full, or empty.
Blocked(t) == IF t \in Producers THEN bufSize = Capacity ELSE bufSize = 0

Delta(t) == IF t \in Producers THEN 1 ELSE -1

InitMain == /\ mainPc = "create"
            /\ started = {}
            /\ printed = 0
            /\ pc = [t \in Threads |-> "loop"]
            /\ iter = [t \in Threads |-> 0]
            /\ reg = [t \in Threads |-> 0]
            /\ bufSize = 0
            /\ mutex = Nobody

\* A thread runs from its creation until the process ends.
At(t, label) == /\ mainPc \in {"create", "join"}
                /\ t \in started
                /\ pc[t] = label

Goto(t, label) == pc' = [pc EXCEPT ![t] = label]

Finished(t) == t \in started /\ pc[t] = "loop" /\ iter[t] = Quota(t)

-----------------------------------------------------------------------------
(* The main thread *)

\* Producers first.  Which of them comes first does not matter.
CreateThread ==
  /\ mainPc = "create"
  /\ \E t \in IF Producers \subseteq started THEN Consumers \ started
                                             ELSE Producers \ started :
       started' = started \cup {t}
  /\ mainPc' = IF started' = Threads THEN "join" ELSE "create"
  /\ UNCHANGED <<printed, pc, iter, reg, bufSize, mutex>>

\* pthread_create fails: exit(1) ends the process with every started thread.
CreateFails ==
  /\ mainPc = "create"
  /\ mainPc' = "failed"
  /\ UNCHANGED <<started, printed, pc, iter, reg, bufSize, mutex>>

\* Mutant: the second join loop is missing.
JoinProducersAndExit ==
  /\ mainPc = "join"
  /\ \A t \in Producers : Finished(t)
  /\ mainPc' = "exited"
  /\ printed' = bufSize
  /\ UNCHANGED <<started, pc, iter, reg, bufSize, mutex>>

\* Every join returns, "After run" is printed, everything is destroyed.
JoinAndExit ==
  /\ mainPc = "join"
  /\ \A t \in Threads : Finished(t)
  /\ mainPc' = "exited"
  /\ printed' = bufSize
  /\ UNCHANGED <<started, pc, iter, reg, bufSize, mutex>>

Main == CreateThread \/ CreateFails \/ JoinAndExit

Gone == mainPc \in {"exited", "failed"}

-----------------------------------------------------------------------------
(* Steps of a thread that all the programs have *)

\* Mutant: the mutex does not exclude.
LockUnguarded(t, from, to) ==
  /\ At(t, from)
  /\ mutex' = t
  /\ Goto(t, to)
  /\ UNCHANGED <<mainVars, iter, reg, bufSize>>

Lock(t, from, to) ==
  /\ At(t, from)
  /\ mutex = Nobody
  /\ mutex' = t
  /\ Goto(t, to)
  /\ UNCHANGED <<mainVars, iter, reg, bufSize>>

\* bufSize++ or bufSize--, first half.
Load(t, from) ==
  /\ At(t, from)
  /\ reg' = [reg EXCEPT ![t] = bufSize]
  /\ Goto(t, "store")
  /\ UNCHANGED <<mainVars, iter, bufSize, mutex>>

\* Second half; the register is not used again and goes back to 0.
Store(t) ==
  /\ At(t, "store")
  /\ bufSize' = reg[t] + Delta(t)
  /\ reg' = [reg EXCEPT ![t] = 0]
  /\ Goto(t, "stored")
  /\ UNCHANGED <<mainVars, iter, mutex>>

\* The end of an iteration: i++ of the for loop.
EndIteration(t) == iter' = [iter EXCEPT ![t] = @ + 1] /\ Goto(t, "loop")

-----------------------------------------------------------------------------
\* What the threads have put in and taken out, the iteration in progress
\* included once its store is done.
Count(past) == [t \in Threads |-> iter[t] + IF pc[t] \in past THEN 1 ELSE 0]

MainTypeOK == /\ mainPc \in {"create", "join", "exited", "failed"}
              /\ started \subseteq Threads
              /\ printed \in Int
              /\ iter \in [Threads -> Nat]
              /\ reg \in [Threads -> Int]
              /\ bufSize \in Int
              /\ mutex \in Threads \cup {Nobody}

\* The program that ends normally prints a count that accounts for every coke:
\* what all the producers made less what all the consumers took.
AfterRunBalance ==
  mainPc = "exited" =>
    printed = Cardinality(Producers) * (CokeNum \div Cardinality(Producers))
              - Cardinality(Consumers) * (CokeNum \div Cardinality(Consumers))

\* The only way for the threads to be stuck for good: the integer divisions of
\* TEST_COKE_NUM gave one side more iterations than the other can match.
SupplyMismatch == \/ /\ \A p \in Producers : Finished(p)
                     /\ bufSize = 0
                  \/ /\ \A c \in Consumers : Finished(c)
                     /\ bufSize = Capacity
=============================================================================
