--------------------------- MODULE SharedCounter ---------------------------
(***************************************************************************)
(* The programs of chapter4 whose threads all add to one variable, side by *)
(* side: ATMProblemShow.c, the same with a mutex (ATMProblemShow-mutex.c), *)
(* and Problems-CompilerOptimization.c, whose loop the compiler may turn   *)
(* into one addition (the listings -O1.s and -O2.s do).                    *)
(*                                                                         *)
(* An addition is a load and a store.  Where there is no mutex it races,   *)
(* and another thread's may come in between.  amount is 1.                 *)
(***************************************************************************)
EXTENDS Integers, FiniteSetsExt

CONSTANTS MaxDepositors,  \* the largest numOfWorkerThread that is tried
          Rounds,         \* TEST_ITERATIONS or n
          Nobody          \* the owner of the free accountBalanceLock

VARIABLES teller,         \* "ATM", "ATM-mutex", "loop" or "one-addition"
          depositors,     \* numOfWorkerThread
          accountBalance, accountBalanceLock,
          at,             \* where each thread is; "out" is one not created
          loaded,         \* what each thread has loaded
          done,           \* the rounds that each thread has done
          after           \* where main is: "create", "join", "failed" or "exit"

vars == <<teller, depositors, accountBalance, accountBalanceLock, at, loaded, done, after>>

Tellers == {"ATM", "ATM-mutex", "loop", "one-addition"}
Depositors == 1..MaxDepositors

\* How much an addition adds, and what it makes of the thread's rounds.
Step == IF teller = "one-addition" THEN Rounds ELSE 1

Init ==
  /\ teller \in Tellers
  /\ depositors \in IF teller \in {"loop", "one-addition"} THEN {2} ELSE Depositors
  /\ accountBalance = 0 /\ accountBalanceLock = Nobody
  /\ at = [t \in Depositors |-> "out"]
  /\ loaded = [t \in Depositors |-> 0]
  /\ done = [t \in Depositors |-> 0]
  /\ after = "create"

Ended == after \in {"failed", "exit"}

Move(t, from, to) == ~Ended /\ at[t] = from /\ at' = [at EXCEPT ![t] = to]

-----------------------------------------------------------------------------
\* Mutant: nobody waits for the lock.
LockFreeAlways == TRUE

\* Only ATMProblemShow-mutex.c has a lock to wait for.
LockFree == teller = "ATM-mutex" => accountBalanceLock = Nobody

Load(t) ==
  /\ done[t] < Rounds /\ LockFree
  /\ Move(t, "loop", "add")
  /\ accountBalanceLock' = IF teller = "ATM-mutex" THEN t ELSE Nobody
  /\ loaded' = [loaded EXCEPT ![t] = accountBalance]
  /\ UNCHANGED <<teller, depositors, accountBalance, done, after>>

\* The store, and the unlock.
Store(t) ==
  /\ Move(t, "add", "loop")
  /\ accountBalance' = loaded[t] + Step
  /\ done' = [done EXCEPT ![t] = @ + Step]
  /\ loaded' = [loaded EXCEPT ![t] = 0]  \* not used again
  /\ accountBalanceLock' = Nobody
  /\ UNCHANGED <<teller, depositors, after>>

Return(t) ==
  /\ done[t] = Rounds
  /\ Move(t, "loop", "ended")
  /\ UNCHANGED <<teller, depositors, accountBalance, accountBalanceLock, loaded, done, after>>

\* threadDeposit and do_sum.
threadDeposit(t) == Load(t) \/ Store(t) \/ Return(t)

\* The threads are created in order.
Create ==
  \E t \in 1..depositors :
    /\ after = "create"
    /\ Move(t, "out", "loop")
    /\ \A u \in 1..(t - 1) : at[u] # "out"
    /\ after' = IF t = depositors THEN "join" ELSE "create"
    /\ UNCHANGED <<teller, depositors, accountBalance, accountBalanceLock, loaded, done>>

CreateFails ==
  /\ after = "create"
  /\ after' = "failed"
  /\ UNCHANGED <<teller, depositors, accountBalance, accountBalanceLock, at, loaded, done>>

Join ==
  /\ after = "join"
  /\ \A t \in 1..depositors : at[t] = "ended"
  /\ after' = "exit"
  /\ UNCHANGED <<teller, depositors, accountBalance, accountBalanceLock, at, loaded, done>>

Program == Create \/ CreateFails \/ Join \/ \E t \in Depositors : threadDeposit(t)

Next == Program \/ (Ended /\ UNCHANGED vars)

-----------------------------------------------------------------------------
\* "After deposit": with the mutex nothing is lost.  Without it the balance is
\* never too large, and what is lost is never all: two deposits are left at
\* least when each thread makes two, and whole additions in any case.
Deposits ==
  after = "exit" =>
    /\ teller = "ATM-mutex" \/ depositors = 1 => accountBalance = depositors * Rounds
    /\ accountBalance \in Min({2, Rounds})..(depositors * Rounds)
    /\ \E k \in 1..(depositors * Rounds) : accountBalance = k * Step
=============================================================================
