------------------------ MODULE ConcurrentWgetProofs ------------------------
(***************************************************************************)
(* Theorems about ConcurrentWget.tla for any number of URLs, of workers    *)
(* and of slots of the ring.                                               *)
(***************************************************************************)
EXTENDS ConcurrentWget, FiniteSetTheorems, TLAPS

USE PoolAssumption, OnDemandAssumption

-----------------------------------------------------------------------------
(* The invariant of the thread pool *)

Labels == {"create", "out", "read", "wait", "lock", "copy", "advance", "unlock", "post",
           "poll", "check", "exited", "failed", "wget", "lockNum", "load", "store",
           "unlockNum"}

Slots == 0..(Capacity - 1)

TypeOK ==
  /\ pc \in [Threads -> Labels]
  /\ jobs \in [Slots -> Int]
  /\ inCount \in Nat /\ outCount \in Nat
  /\ fullSlots \in Nat /\ emptySlots \in Nat
  /\ read \in 0..NumUrls
  /\ job \in [Workers -> Int] /\ jobID \in [Workers -> Int] /\ reg \in [Workers -> Int]
  /\ files \in [0..(NumUrls - 1) -> SUBSET Int]
  /\ totalDone \in Int

\* Who is inside a critical section owns its mutex.
Mutexes ==
  /\ \A t \in Threads : pc[t] \in {"copy", "advance", "unlock"} => queueMutex = t
  /\ \A w \in Workers : pc[w] \in {"load", "store", "unlockNum"} => jobNumMutex = w
  /\ pc[Main] = "check" => jobNumMutex = Main

\* head and tail are the counters modulo the capacity; main has read one URL more
\* than it has counted in while it puts one in, and all of them when it polls.
Counters ==
  /\ head = outCount % Capacity /\ tail = inCount % Capacity
  /\ read = IF pc[Main] \in {"wait", "lock", "copy", "advance"} THEN inCount + 1 ELSE inCount
  /\ pc[Main] \in {"poll", "check", "exited"} => read = NumUrls
  /\ pc[Main] \notin {"out", "wget", "lockNum", "load", "store", "unlockNum"}

\* The number of workers at some labels.
Number(L) == Cardinality(In(L) \ {Main})

\* 1 while main is at one of the labels.
MainIn(L) == IF pc[Main] \in L THEN 1 ELSE 0

\* Every slot is in the ring, in a semaphore, or with a thread on its way.
SlotsAccounted ==
  /\ inCount - outCount = fullSlots + Number(Claimed) + MainIn(Announced)
  /\ Capacity - (inCount - outCount) = emptySlots + MainIn(Claimed) + Number(Announced)

\* The ring holds the URLs put in and not taken out; who is about to move tail
\* or head has copied the URL of that place.
RingHolds ==
  /\ \A i \in outCount..(inCount - 1) : jobs[i % Capacity] = i + 1
  /\ pc[Main] = "advance" => jobs[tail] = inCount + 1
  /\ \A w \in Workers : pc[w] = "advance" => job[w] = outCount + 1

\* The jobs taken and not done have numbers of their own, below outCount, and the
\* counter of jobs done says how many of those taken are done.
Numbers ==
  /\ \A w \in Workers : pc[w] \in Owned \cup Announced => jobID[w] \in 0..(outCount - 1)
  /\ \A w, x \in Workers : {pc[w], pc[x]} \subseteq Owned \cup Announced /\ w # x =>
       jobID[w] # jobID[x]
  /\ totalDone + Number(Owned \cup Announced) = outCount
  /\ \A w \in Workers : pc[w] = "store" => reg[w] = totalDone

IInv == TypeOK /\ Mutexes /\ Counters /\ SlotsAccounted /\ RingHolds /\ Numbers /\ NumberIsPlace

-----------------------------------------------------------------------------
(* The invariant of the threads on demand *)

DLabels == {"out", "begin", "load", "countIn", "wget", "finish", "load2", "countOut", "ended"}

DTypeOK ==
  /\ mainPc \in {"read", "create", "poll", "check", "exited", "failed"}
  /\ nextJobID \in 0..NumUrls
  /\ threadPc \in [D!Jobs -> DLabels]
  /\ totalThreadsCreated \in Int /\ concurrentThreadsNow \in Int
  /\ maxConcurrentThreads \in Int /\ totalNumOfJobsDone \in Int
  /\ seen \in [D!Jobs -> Int \X Int \X Int \X Int]

\* Who has loaded the counters owns the mutex, and they are as it has seen them.
SeenStillTrue ==
  /\ \A j \in D!Jobs : threadPc[j] \in {"load", "countIn", "load2", "countOut"} =>
       counterMutex = j
  /\ mainPc = "check" => counterMutex = Main
  /\ \A j \in D!Jobs : threadPc[j] \in {"countIn", "countOut"} => seen[j] = D!counters

\* Threads are created in the order of their numbers.
InOrder ==
  /\ \A j \in D!Jobs :
       threadPc[j] = "out" <=> j >= nextJobID \/ (mainPc \in {"create", "failed"} /\ j = nextJobID - 1)
  /\ mainPc = "create" => nextJobID > 0
  /\ mainPc \in {"poll", "check", "exited"} => nextJobID = NumUrls

\* The labels of a thread that has counted itself in and not out.
Counting == {"wget", "finish", "load2", "countOut"}

\* CountsAgree, with the labels of its sets.
Agree ==
  /\ totalThreadsCreated = Cardinality(D!In(Counting \cup {"ended"}))
  /\ concurrentThreadsNow = Cardinality(D!In(Counting))
  /\ totalNumOfJobsDone = Cardinality(D!In({"ended"}))
  /\ concurrentThreadsNow <= maxConcurrentThreads /\ maxConcurrentThreads <= totalThreadsCreated

DInv == DTypeOK /\ SeenStillTrue /\ InOrder /\ Agree

-----------------------------------------------------------------------------
(* Lemmas on the operators *)

LEMMA DivisionTheorem ==
  ASSUME NEW n \in Nat, NEW c \in Nat \ {0}
  PROVE  /\ n % c \in 0..(c - 1)
         /\ n \div c \in Int
         /\ n = c * (n \div c) + (n % c)
OBVIOUS

LEMMA RemainderUnique ==
  ASSUME NEW c \in Nat \ {0}, NEW p \in Int, NEW q \in Int,
         NEW r \in 0..(c - 1), NEW s \in 0..(c - 1), c * p + r = c * q + s
  PROVE  r = s /\ p = q
<1>1. CASE p < q
  <2>1. c * q >= c * (p + 1) /\ c * (p + 1) = c * p + c
    BY <1>1
  <2> QED
    BY <2>1
<1>2. CASE q < p
  <2>1. c * p >= c * (q + 1) /\ c * (q + 1) = c * q + c
    BY <1>2
  <2> QED
    BY <2>1
<1> QED
  BY <1>1, <1>2

\* Places less than a lap apart have different slots.
LEMMA SlotsDiffer ==
  ASSUME NEW c \in Nat \ {0}, NEW m \in Nat, NEW n \in Nat, m < n, n - m < c
  PROVE  m % c # n % c
<1> SUFFICES ASSUME m % c = n % c
             PROVE  FALSE
  OBVIOUS
<1> DEFINE p == m \div c
           q == n \div c
<1>1. p \in Int /\ q \in Int /\ n - m = c * q - c * p
  BY DivisionTheorem
<1> HIDE DEF p, q
<1>2. CASE q <= p
  <2>1. c * q <= c * p
    BY <1>1, <1>2
  <2> QED
    BY <1>1, <2>1
<1>3. CASE q > p
  <2>1. c * q >= c * (p + 1) /\ c * (p + 1) = c * p + c
    BY <1>1, <1>3
  <2> QED
    BY <1>1, <2>1
<1> QED
  BY <1>1, <1>2, <1>3

\* The slot after a slot, as the program computes it.
LEMMA NextSlot ==
  ASSUME NEW c \in Nat \ {0}, NEW n \in Nat
  PROVE  (n + 1) % c = ((n % c) + 1) % c
<1> DEFINE q == n \div c
           r == n % c
           p == (n + 1) \div c
           s == (n + 1) % c
<1>1. /\ q \in Int /\ r \in 0..(c - 1) /\ n = c * q + r
      /\ p \in Int /\ s \in 0..(c - 1) /\ n + 1 = c * p + s
  BY DivisionTheorem
<1> HIDE DEF q, r, p, s
<1>2. CASE r + 1 < c
  <2>1. (r + 1) % c = r + 1
    BY <1>1, <1>2
  <2>2. s = r + 1
    BY <1>1, <1>2, RemainderUnique
  <2> QED
    BY <2>1, <2>2 DEF r, s
<1>3. CASE r + 1 = c
  <2>1. (r + 1) % c = 0
    BY <1>1, <1>3
  <2>2. c * p + s = c * (q + 1) + 0
    BY <1>1, <1>3
  <2>3. s = 0
    BY <1>1, <2>2, RemainderUnique
  <2> QED
    BY <2>1, <2>3 DEF r, s
<1> QED
  BY <1>1, <1>2, <1>3

\* By how much the number of workers at the labels L changes when t moves.
Change(t, from, to, L) == IF t = Main THEN 0
                          ELSE IF from \notin L /\ to \in L THEN 1
                          ELSE IF from \in L /\ to \notin L THEN -1
                          ELSE 0

LEMMA NumberMoves ==
  ASSUME TypeOK, NEW CONSTANT t \in Threads, NEW CONSTANT from, NEW CONSTANT to \in Labels,
         Move(t, from, to), NEW CONSTANT L
  PROVE  /\ Number(L) \in Nat
         /\ Number(L)' = Number(L) + Change(t, from, to, L)
         /\ MainIn(L)' = IF t = Main THEN (IF to \in L THEN 1 ELSE 0) ELSE MainIn(L)
<1> DEFINE S == In(L) \ {Main}
           S2 == {w \in Workers : pc'[w] \in L}
<1>1. S = {w \in Workers : pc[w] \in L} /\ S' = S2
  BY DEF In, Threads
<1>2. IsFiniteSet(S) /\ Cardinality(S) \in Nat
  BY <1>1, FS_Subset, FS_CardinalityType
<1>3. pc[t] = from /\ pc' = [pc EXCEPT ![t] = to]
  BY DEF Move, At
<1>4. S2 = IF t # Main /\ to \in L THEN S \cup {t} ELSE IF t # Main THEN S \ {t} ELSE S
  BY <1>1, <1>3 DEF TypeOK, Threads
<1>5. t \in S <=> t # Main /\ from \in L
  BY <1>1, <1>3 DEF Threads
<1>6. Number(L) = Cardinality(S) /\ Number(L)' = Cardinality(S2)
  BY <1>1 DEF Number
<1>7. MainIn(L)' = IF t = Main THEN (IF to \in L THEN 1 ELSE 0) ELSE MainIn(L)
  BY <1>3 DEF MainIn, TypeOK, Threads
<1> HIDE DEF S, S2
<1>8. /\ Cardinality(S \cup {t}) = IF t \in S THEN Cardinality(S) ELSE Cardinality(S) + 1
      /\ Cardinality(S \ {t}) = IF t \in S THEN Cardinality(S) - 1 ELSE Cardinality(S)
  BY <1>2, FS_AddElement, FS_RemoveElement
<1>9. Number(L)' = Number(L) + Change(t, from, to, L)
  BY <1>2, <1>4, <1>5, <1>6, <1>8 DEF Change
<1> QED
  BY <1>2, <1>6, <1>7, <1>9

\* The same for the numbers that the invariant speaks of.
Counted(t, from, to) ==
  /\ Number(Claimed) \in Nat /\ Number(Announced) \in Nat /\ Number(Owned \cup Announced) \in Nat
  /\ Number(Claimed)' = Number(Claimed) + Change(t, from, to, Claimed)
  /\ Number(Announced)' = Number(Announced) + Change(t, from, to, Announced)
  /\ Number(Owned \cup Announced)' =
       Number(Owned \cup Announced) + Change(t, from, to, Owned \cup Announced)
  /\ MainIn(Claimed)' = IF t = Main THEN (IF to \in Claimed THEN 1 ELSE 0) ELSE MainIn(Claimed)
  /\ MainIn(Announced)' = IF t = Main THEN (IF to \in Announced THEN 1 ELSE 0) ELSE MainIn(Announced)

LEMMA CountsMove ==
  ASSUME TypeOK, NEW CONSTANT t \in Threads, NEW CONSTANT from, NEW CONSTANT to \in Labels,
         Move(t, from, to)
  PROVE  pc[t] = from /\ pc' = [pc EXCEPT ![t] = to] /\ Counted(t, from, to)
<1>1. ASSUME NEW CONSTANT L
      PROVE  /\ Number(L) \in Nat
             /\ Number(L)' = Number(L) + Change(t, from, to, L)
             /\ MainIn(L)' = IF t = Main THEN (IF to \in L THEN 1 ELSE 0) ELSE MainIn(L)
  BY NumberMoves
<1> QED
  BY <1>1, Zenon DEF Counted, Move, At

\* A move within the labels that are counted, or outside them.
LEMMA SameAccounts ==
  ASSUME IInv, NEW CONSTANT t \in Threads, NEW CONSTANT from, NEW CONSTANT to \in Labels,
         Move(t, from, to), from \in Claimed <=> to \in Claimed,
         from \in Announced <=> to \in Announced,
         t # Main => (from \in Owned \cup Announced <=> to \in Owned \cup Announced),
         UNCHANGED <<inCount, outCount, fullSlots, emptySlots>>
  PROVE  SlotsAccounted' /\ UNCHANGED Number(Owned \cup Announced)
<1>1. Counted(t, from, to) /\ pc[t] = from
  BY CountsMove DEF IInv
<1>2. /\ Change(t, from, to, Claimed) = 0 /\ Change(t, from, to, Announced) = 0
      /\ Change(t, from, to, Owned \cup Announced) = 0
  BY DEF Change
<1>3. UNCHANGED <<Number(Claimed), Number(Announced), Number(Owned \cup Announced)>>
  BY <1>1, <1>2 DEF Counted
<1>4. UNCHANGED <<MainIn(Claimed), MainIn(Announced)>>
  BY <1>1 DEF Counted, MainIn
<1> QED
  BY <1>3, <1>4 DEF IInv, SlotsAccounted

-----------------------------------------------------------------------------
(* The queue *)

\* The steps that take and give back the queue's mutex.
LEMMA QueueMutexInvariant ==
  ASSUME IInv, NEW t \in Threads, LockQueue(t) \/ UnlockQueue(t)
  PROVE  IInv'
<1>1. PICK from \in {"lock", "unlock"}, to \in {"copy", "post"} :
        /\ Move(t, from, to) /\ pc[t] = from /\ pc' = [pc EXCEPT ![t] = to]
        /\ from = "lock" <=> to = "copy"
        /\ from = "lock" => queueMutex = Nobody /\ queueMutex' = t
        /\ from = "unlock" => queueMutex' = Nobody
  BY DEF LockQueue, UnlockQueue, Move, At
<1>2. UNCHANGED <<read, jobs, head, tail, inCount, outCount, semVars, workerVars, countVars>>
  BY DEF LockQueue, UnlockQueue
<1> USE <1>1, <1>2 DEF semVars, workerVars, countVars
<1>3. SlotsAccounted' /\ UNCHANGED Number(Owned \cup Announced)
  BY SameAccounts DEF Labels, Claimed, Announced, Owned
<1>4. TypeOK'
  BY DEF IInv, TypeOK, Labels
<1>5. Mutexes'
  BY DEF IInv, TypeOK, Mutexes, Threads
<1>6. Counters'
  BY DEF IInv, TypeOK, Counters, Threads
<1>7. RingHolds' /\ Numbers' /\ NumberIsPlace'
  BY <1>3 DEF IInv, TypeOK, RingHolds, Numbers, NumberIsPlace, Threads, Owned, Announced
<1> QED
  BY <1>3, <1>4, <1>5, <1>6, <1>7 DEF IInv

\* The steps of main, and of the counter's mutex, that the ring knows nothing of.
LEMMA MainElsewhereInvariant ==
  ASSUME IInv, CreateFails \/ ReadUrl \/ PollLock \/ Check
  PROVE  IInv'
<1>1. PICK from \in {"create", "read", "poll", "check"},
           to \in {"failed", "wait", "poll", "check", "exited"} :
        /\ Move(Main, from, to) /\ pc[Main] = from /\ pc' = [pc EXCEPT ![Main] = to]
        /\ to = "wait" => from = "read" /\ read' = read + 1 /\ read < NumUrls
        /\ to # "wait" => read' = read
        /\ to \in {"poll", "exited"} =>
             from = "check" \/ (from = "read" /\ to = "poll" /\ read >= NumUrls)
        /\ to = "check" => from = "poll" /\ jobNumMutex = Nobody /\ jobNumMutex' = Main
        /\ from \notin {"poll", "check"} => UNCHANGED jobNumMutex
        /\ from = "check" => jobNumMutex' = Nobody
        /\ from = "create" <=> to = "failed"
  <2> USE DEF Move, At, countVars
  <2>1. CASE CreateFails
    BY <2>1 DEF CreateFails
  <2>2. CASE ReadUrl
    <3>1. CASE read < NumUrls
      BY <2>2, <3>1 DEF ReadUrl
    <3>2. CASE ~(read < NumUrls)
      <4>1. read >= NumUrls
        BY <3>2 DEF IInv, TypeOK
      <4> QED
        BY <2>2, <3>2, <4>1 DEF ReadUrl
    <3> QED
      BY <3>1, <3>2
  <2>3. CASE PollLock
    BY <2>3 DEF PollLock
  <2>4. CASE Check
    BY <2>4 DEF Check
  <2> QED
    BY <2>1, <2>2, <2>3, <2>4
<1>2. UNCHANGED <<queueVars, semVars, workerVars, totalDone>>
  BY DEF CreateFails, ReadUrl, PollLock, Check, countVars
<1> USE <1>1, <1>2 DEF queueVars, semVars, workerVars
<1>3. SlotsAccounted' /\ UNCHANGED Number(Owned \cup Announced)
  BY SameAccounts DEF Labels, Claimed, Announced, Owned, Threads
<1>4. TypeOK'
  BY DEF IInv, TypeOK, Labels, Threads
<1>5. Mutexes'
  BY DEF IInv, TypeOK, Mutexes, Threads
<1>6. Counters'
  BY DEF IInv, TypeOK, Counters, Threads
<1>7. RingHolds' /\ Numbers' /\ NumberIsPlace'
  BY <1>3 DEF IInv, TypeOK, RingHolds, Numbers, NumberIsPlace, Threads, Owned, Announced
<1> QED
  BY <1>3, <1>4, <1>5, <1>6, <1>7 DEF IInv

LEMMA CreateWorkerInvariant ==
  ASSUME IInv, CreateWorker
  PROVE  IInv'
<1>1. PICK w \in Workers, to \in {"create", "read"} :
        /\ pc[w] = "out" /\ pc[Main] = "create"
        /\ pc' = [pc EXCEPT ![w] = "wait", ![Main] = to]
  BY DEF CreateWorker, At
<1>2. UNCHANGED <<read, queueVars, semVars, workerVars, countVars>>
  BY DEF CreateWorker
<1> USE <1>1, <1>2 DEF queueVars, semVars, workerVars, countVars
<1>3. TypeOK'
  BY DEF IInv, TypeOK, Labels, Threads
<1>4. /\ In(Claimed)' = In(Claimed) /\ In(Announced)' = In(Announced)
      /\ In(Owned \cup Announced)' = In(Owned \cup Announced)
  BY DEF IInv, TypeOK, In, Claimed, Announced, Owned, Threads
<1>5. UNCHANGED <<MainIn(Claimed), MainIn(Announced)>>
  BY DEF IInv, TypeOK, MainIn, Claimed, Announced, Threads
<1>6. SlotsAccounted'
  BY <1>4, <1>5 DEF IInv, SlotsAccounted, Number
<1>7. Mutexes' /\ Counters'
  BY DEF IInv, TypeOK, Mutexes, Counters, Threads
<1>8. UNCHANGED Number(Owned \cup Announced)
  BY <1>4 DEF Number
<1>9. RingHolds' /\ Numbers' /\ NumberIsPlace'
  BY <1>8 DEF IInv, TypeOK, RingHolds, Numbers, NumberIsPlace, Threads, Owned, Announced
<1> QED
  BY <1>3, <1>6, <1>7, <1>9 DEF IInv

-----------------------------------------------------------------------------
(* main puts a URL in *)

LEMMA WaitEmptySlotInvariant ==
  ASSUME IInv, WaitEmptySlot
  PROVE  IInv'
<1>1. Main \in Threads /\ Counted(Main, "wait", "lock") /\ pc[Main] = "wait"
      /\ pc' = [pc EXCEPT ![Main] = "lock"]
  BY CountsMove DEF WaitEmptySlot, IInv, Labels, Threads
<1> USE <1>1 DEF WaitEmptySlot, queueVars, workerVars, countVars
<1>2. SlotsAccounted'
  <2>1. /\ MainIn(Claimed) = 0 /\ MainIn(Claimed)' = 1 /\ MainIn(Announced) = 0
        /\ MainIn(Announced)' = 0
    BY DEF Counted, MainIn, Claimed, Announced
  <2>2. /\ Number(Claimed) \in Nat /\ Number(Announced) \in Nat
        /\ UNCHANGED <<Number(Claimed), Number(Announced)>>
    BY DEF Counted, Change
  <2> QED
    BY <2>1, <2>2 DEF IInv, TypeOK, SlotsAccounted
<1>3. UNCHANGED Number(Owned \cup Announced)
  BY DEF Counted, Change
<1>4. TypeOK'
  BY DEF IInv, TypeOK, Labels
<1>5. Mutexes' /\ Counters'
  BY DEF IInv, TypeOK, Mutexes, Counters, Threads
<1>6. RingHolds' /\ Numbers' /\ NumberIsPlace'
  BY <1>3 DEF IInv, TypeOK, RingHolds, Numbers, NumberIsPlace, Threads, Owned, Announced
<1> QED
  BY <1>2, <1>4, <1>5, <1>6 DEF IInv

\* The slot at tail holds no URL that has not been taken.
LEMMA CopyInInvariant ==
  ASSUME IInv, CopyIn
  PROVE  IInv'
<1>1. /\ Main \in Threads /\ Move(Main, "copy", "advance") /\ pc[Main] = "copy"
      /\ pc' = [pc EXCEPT ![Main] = "advance"] /\ Counted(Main, "copy", "advance")
  BY CountsMove DEF CopyIn, IInv, Labels, Threads
<1> USE <1>1 DEF CopyIn, semVars, workerVars, countVars
<1>2. SlotsAccounted' /\ UNCHANGED Number(Owned \cup Announced)
  BY SameAccounts DEF Labels, Claimed, Announced, Owned
<1>3. tail \in Slots /\ tail = inCount % Capacity /\ read = inCount + 1
  BY DivisionTheorem DEF IInv, TypeOK, Counters, Slots
<1>4. TypeOK'
  BY <1>3 DEF IInv, TypeOK, Labels
<1>5. Mutexes' /\ Counters'
  BY DEF IInv, TypeOK, Mutexes, Counters, Threads
<1>6. inCount - outCount < Capacity
  <2>1. MainIn(Claimed) = 1 /\ Number(Announced) \in Nat
    BY DEF MainIn, Claimed, Counted
  <2> QED
    BY <2>1 DEF IInv, TypeOK, SlotsAccounted
<1>7. \A n \in outCount..(inCount - 1) : jobs'[n % Capacity] = n + 1
  <2> SUFFICES ASSUME NEW n \in outCount..(inCount - 1)
               PROVE  jobs'[n % Capacity] = n + 1
    OBVIOUS
  <2>1. n \in Nat /\ n < inCount /\ inCount - n < Capacity /\ inCount \in Nat
    BY <1>6 DEF IInv, TypeOK
  <2>2. n % Capacity # inCount % Capacity /\ n % Capacity \in Slots
    BY <2>1, SlotsDiffer, DivisionTheorem DEF Slots
  <2>3. jobs'[n % Capacity] = jobs[n % Capacity]
    BY <1>3, <2>2 DEF IInv, TypeOK
  <2> QED
    BY <2>3 DEF IInv, RingHolds
<1>8. RingHolds'
  <2>1. jobs'[tail] = inCount + 1
    BY <1>3 DEF IInv, TypeOK
  <2> QED
    BY <1>7, <2>1 DEF IInv, TypeOK, RingHolds, Threads
<1>9. Numbers' /\ NumberIsPlace'
  BY <1>2 DEF IInv, TypeOK, Numbers, NumberIsPlace, Threads, Owned, Announced
<1> QED
  BY <1>2, <1>4, <1>5, <1>8, <1>9 DEF IInv

LEMMA AdvanceTailInvariant ==
  ASSUME IInv, AdvanceTail
  PROVE  IInv'
<1>1. /\ Main \in Threads /\ pc[Main] = "advance"
      /\ pc' = [pc EXCEPT ![Main] = "unlock"] /\ Counted(Main, "advance", "unlock")
  BY CountsMove DEF AdvanceTail, IInv, Labels, Threads
<1> USE <1>1 DEF AdvanceTail, semVars, workerVars, countVars
<1>2. SlotsAccounted'
  <2>1. /\ MainIn(Claimed) = 1 /\ MainIn(Claimed)' = 0 /\ MainIn(Announced) = 0
        /\ MainIn(Announced)' = 1
    BY DEF Counted, MainIn, Claimed, Announced
  <2>2. /\ Number(Claimed) \in Nat /\ Number(Announced) \in Nat
        /\ UNCHANGED <<Number(Claimed), Number(Announced)>>
    BY DEF Counted, Change
  <2> QED
    BY <2>1, <2>2 DEF IInv, TypeOK, SlotsAccounted
<1>3. UNCHANGED Number(Owned \cup Announced)
  BY DEF Counted, Change
<1>4. TypeOK'
  BY DEF IInv, TypeOK, Labels
<1>5. Mutexes'
  BY DEF IInv, TypeOK, Mutexes, Threads
<1>6. tail' = inCount' % Capacity
  BY NextSlot DEF IInv, TypeOK, Counters
<1>7. Counters'
  BY <1>6 DEF IInv, TypeOK, Counters
<1>8. RingHolds'
  <2>1. jobs[inCount % Capacity] = inCount + 1
    BY DEF IInv, Counters, RingHolds
  <2>2. \A n \in outCount..(inCount' - 1) : n \in outCount..(inCount - 1) \/ n = inCount
    BY DEF IInv, TypeOK
  <2>3. \A n \in outCount..(inCount' - 1) : jobs[n % Capacity] = n + 1
    BY <2>1, <2>2 DEF IInv, RingHolds
  <2> QED
    BY <2>3 DEF IInv, TypeOK, RingHolds, Threads
<1>9. Numbers' /\ NumberIsPlace'
  BY <1>3 DEF IInv, TypeOK, Numbers, NumberIsPlace, Threads, Owned, Announced
<1> QED
  BY <1>2, <1>4, <1>5, <1>7, <1>8, <1>9 DEF IInv

LEMMA PostFullSlotInvariant ==
  ASSUME IInv, PostFullSlot
  PROVE  IInv'
<1>1. /\ Main \in Threads /\ pc[Main] = "post"
      /\ pc' = [pc EXCEPT ![Main] = "read"] /\ Counted(Main, "post", "read")
  BY CountsMove DEF PostFullSlot, IInv, Labels, Threads
<1> USE <1>1 DEF PostFullSlot, queueVars, workerVars, countVars
<1>2. SlotsAccounted'
  <2>1. /\ MainIn(Claimed) = 0 /\ MainIn(Claimed)' = 0 /\ MainIn(Announced) = 1
        /\ MainIn(Announced)' = 0
    BY DEF Counted, MainIn, Claimed, Announced
  <2>2. /\ Number(Claimed) \in Nat /\ Number(Announced) \in Nat
        /\ UNCHANGED <<Number(Claimed), Number(Announced)>>
    BY DEF Counted, Change
  <2> QED
    BY <2>1, <2>2 DEF IInv, TypeOK, SlotsAccounted
<1>3. UNCHANGED Number(Owned \cup Announced)
  BY DEF Counted, Change
<1>4. TypeOK'
  BY DEF IInv, TypeOK, Labels
<1>5. Mutexes' /\ Counters'
  BY DEF IInv, TypeOK, Mutexes, Counters, Threads
<1>6. RingHolds' /\ Numbers' /\ NumberIsPlace'
  BY <1>3 DEF IInv, TypeOK, RingHolds, Numbers, NumberIsPlace, Threads, Owned, Announced
<1> QED
  BY <1>2, <1>4, <1>5, <1>6 DEF IInv

-----------------------------------------------------------------------------
(* A worker takes a URL out *)

LEMMA WaitFullSlotInvariant ==
  ASSUME IInv, NEW w \in Workers, WaitFullSlot(w)
  PROVE  IInv'
<1>1. /\ w \in Threads /\ w # Main /\ pc[w] = "wait"
      /\ pc' = [pc EXCEPT ![w] = "lock"] /\ Counted(w, "wait", "lock")
  BY CountsMove DEF WaitFullSlot, IInv, Labels, Threads
<1> USE <1>1 DEF WaitFullSlot, queueVars, workerVars, countVars
<1>2. SlotsAccounted'
  <2>1. /\ Number(Claimed) \in Nat /\ Number(Announced) \in Nat
        /\ Number(Claimed)' = Number(Claimed) + 1 /\ UNCHANGED Number(Announced)
    BY DEF Counted, Change, Claimed, Announced
  <2>2. UNCHANGED <<MainIn(Claimed), MainIn(Announced)>>
    BY DEF Counted
  <2>3. MainIn(Announced) \in {0, 1}
    BY DEF MainIn
  <2> QED
    BY <2>1, <2>2, <2>3 DEF IInv, TypeOK, SlotsAccounted
<1>3. UNCHANGED Number(Owned \cup Announced)
  BY DEF Counted, Change, Owned, Announced
<1>4. TypeOK'
  BY DEF IInv, TypeOK, Labels
<1>5. Mutexes' /\ Counters'
  BY DEF IInv, TypeOK, Mutexes, Counters, Threads
<1>6. RingHolds' /\ Numbers' /\ NumberIsPlace'
  BY <1>3 DEF IInv, TypeOK, RingHolds, Numbers, NumberIsPlace, Threads, Owned, Announced
<1> QED
  BY <1>2, <1>4, <1>5, <1>6 DEF IInv

\* There is a URL at head: the worker has a permit for it.
LEMMA CopyOutInvariant ==
  ASSUME IInv, NEW w \in Workers, CopyOut(w)
  PROVE  IInv'
<1>1. /\ w \in Threads /\ w # Main /\ pc[w] = "copy" /\ Move(w, "copy", "advance")
      /\ pc' = [pc EXCEPT ![w] = "advance"]
  BY CountsMove DEF CopyOut, IInv, Labels, Threads
<1> USE <1>1 DEF CopyOut, queueVars, semVars, countVars
<1>2. SlotsAccounted' /\ UNCHANGED Number(Owned \cup Announced)
  BY SameAccounts DEF Labels, Claimed, Announced, Owned
<1>3. head \in Slots /\ head = outCount % Capacity
  BY DivisionTheorem DEF IInv, TypeOK, Counters, Slots
<1>4. TypeOK'
  BY <1>3 DEF IInv, TypeOK, Labels
<1>5. Mutexes' /\ Counters'
  BY DEF IInv, TypeOK, Mutexes, Counters, Threads
<1>6. outCount < inCount
  <2>1. Number(Claimed) \in Nat /\ Number(Claimed) # 0
    <3>1. w \in In(Claimed) \ {Main} /\ IsFiniteSet(In(Claimed) \ {Main})
      BY FS_Subset DEF In, Claimed, Threads
    <3> QED
      BY <3>1, FS_CardinalityType, FS_EmptySet DEF Number
  <2>2. MainIn(Announced) \in {0, 1}
    BY DEF MainIn
  <2> QED
    BY <2>1, <2>2 DEF IInv, TypeOK, SlotsAccounted
<1>7. RingHolds'
  <2>1. job'[w] = outCount + 1
    <3>1. job'[w] = jobs[outCount % Capacity]
      BY <1>3 DEF IInv, TypeOK
    <3>2. outCount \in outCount..(inCount - 1)
      BY <1>6 DEF IInv, TypeOK
    <3> QED
      BY <3>1, <3>2 DEF IInv, RingHolds
  <2> QED
    BY <2>1 DEF IInv, TypeOK, RingHolds, Threads
<1>8. Numbers' /\ NumberIsPlace'
  BY <1>2 DEF IInv, TypeOK, Numbers, NumberIsPlace, Threads, Owned, Announced
<1> QED
  BY <1>2, <1>4, <1>5, <1>7, <1>8 DEF IInv

\* The worker gets the number outCount, which nobody has.
LEMMA AdvanceHeadInvariant ==
  ASSUME IInv, NEW w \in Workers, AdvanceHead(w)
  PROVE  IInv'
<1>1. /\ w \in Threads /\ w # Main /\ pc[w] = "advance"
      /\ pc' = [pc EXCEPT ![w] = "unlock"] /\ Counted(w, "advance", "unlock")
  BY CountsMove DEF AdvanceHead, IInv, Labels, Threads
<1> USE <1>1 DEF AdvanceHead, semVars, countVars
<1>2. SlotsAccounted'
  <2>1. /\ Number(Claimed) \in Nat /\ Number(Announced) \in Nat
        /\ Number(Claimed)' = Number(Claimed) - 1 /\ Number(Announced)' = Number(Announced) + 1
    BY DEF Counted, Change, Claimed, Announced
  <2>2. UNCHANGED <<MainIn(Claimed), MainIn(Announced)>>
    BY DEF Counted
  <2>3. MainIn(Announced) \in {0, 1} /\ MainIn(Claimed) \in {0, 1}
    BY DEF MainIn
  <2>4. SlotsAccounted /\ {inCount, outCount, fullSlots, emptySlots} \subseteq Nat
    BY DEF IInv, TypeOK
  <2> QED
    BY <2>1, <2>2, <2>3, <2>4 DEF SlotsAccounted
<1>3. /\ Number(Owned \cup Announced) \in Nat
      /\ Number(Owned \cup Announced)' = Number(Owned \cup Announced) + 1
  BY DEF Counted, Change, Owned, Announced
<1>4. TypeOK'
  BY DEF IInv, TypeOK, Labels
<1>5. Mutexes'
  BY DEF IInv, TypeOK, Mutexes, Threads
<1>6. head' = outCount' % Capacity
  BY NextSlot DEF IInv, TypeOK, Counters
<1>7. Counters'
  BY <1>6 DEF IInv, TypeOK, Counters, Threads
<1>8. \A u \in Threads : u # w => pc[u] \notin {"copy", "advance", "unlock"}
  BY DEF IInv, Mutexes
<1>9. RingHolds'
  <2>1. \A n \in outCount'..(inCount' - 1) : n \in outCount..(inCount - 1)
    BY DEF IInv, TypeOK
  <2>2. \A u \in Threads : pc'[u] # "advance"
    BY <1>8 DEF IInv, TypeOK
  <2>3. UNCHANGED <<jobs, tail, inCount>>
    OBVIOUS
  <2> QED
    BY <2>1, <2>2, <2>3 DEF IInv, RingHolds, Threads
<1>10. job[w] = outCount + 1 /\ jobID' = [jobID EXCEPT ![w] = outCount]
  BY DEF IInv, RingHolds
<1>11. Numbers'
  <2>1. \A x \in Workers : pc'[x] \in Owned \cup Announced =>
          x = w \/ (x # w /\ pc[x] \in Owned \cup Announced /\ jobID'[x] = jobID[x])
    BY <1>10 DEF IInv, TypeOK
  <2>2. jobID'[w] = outCount
    BY <1>10 DEF IInv, TypeOK
  <2>3. \A x \in Workers : pc[x] \in Owned \cup Announced => jobID[x] \in 0..(outCount - 1)
    BY DEF IInv, Numbers
  <2>4. \A x \in Workers : pc'[x] \in Owned \cup Announced => jobID'[x] \in 0..(outCount' - 1)
    BY <2>1, <2>2, <2>3 DEF IInv, TypeOK
  <2>5. \A x, y \in Workers : {pc'[x], pc'[y]} \subseteq Owned \cup Announced /\ x # y =>
          jobID'[x] # jobID'[y]
    BY <2>1, <2>2, <2>3 DEF IInv, TypeOK, Numbers
  <2>6. totalDone' + Number(Owned \cup Announced)' = outCount'
    BY <1>3 DEF IInv, TypeOK, Numbers
  <2>7. \A x \in Workers : pc'[x] = "store" => reg'[x] = totalDone'
    BY DEF IInv, TypeOK, Numbers
  <2> QED
    BY <2>4, <2>5, <2>6, <2>7 DEF Numbers
<1>12. NumberIsPlace'
  BY <1>10 DEF IInv, TypeOK, NumberIsPlace
<1> QED
  BY <1>2, <1>4, <1>5, <1>7, <1>9, <1>11, <1>12 DEF IInv

LEMMA PostEmptySlotInvariant ==
  ASSUME IInv, NEW w \in Workers, PostEmptySlot(w)
  PROVE  IInv'
<1>1. /\ w \in Threads /\ w # Main /\ pc[w] = "post"
      /\ pc' = [pc EXCEPT ![w] = "wget"] /\ Counted(w, "post", "wget")
  BY CountsMove DEF PostEmptySlot, IInv, Labels, Threads
<1> USE <1>1 DEF PostEmptySlot, queueVars, workerVars, countVars
<1>2. SlotsAccounted'
  <2>1. /\ Number(Claimed) \in Nat /\ Number(Announced) \in Nat
        /\ UNCHANGED Number(Claimed) /\ Number(Announced)' = Number(Announced) - 1
    BY DEF Counted, Change, Claimed, Announced
  <2>2. UNCHANGED <<MainIn(Claimed), MainIn(Announced)>>
    BY DEF Counted
  <2>3. MainIn(Announced) \in {0, 1} /\ MainIn(Claimed) \in {0, 1}
    BY DEF MainIn
  <2>4. SlotsAccounted /\ {inCount, outCount, fullSlots, emptySlots} \subseteq Nat
    BY DEF IInv, TypeOK
  <2> QED
    BY <2>1, <2>2, <2>3, <2>4 DEF SlotsAccounted
<1>3. UNCHANGED Number(Owned \cup Announced)
  BY DEF Counted, Change, Owned, Announced
<1>4. TypeOK'
  BY DEF IInv, TypeOK, Labels
<1>5. Mutexes' /\ Counters'
  BY DEF IInv, TypeOK, Mutexes, Counters, Threads
<1>6. RingHolds' /\ Numbers' /\ NumberIsPlace'
  BY <1>3 DEF IInv, TypeOK, RingHolds, Numbers, NumberIsPlace, Threads, Owned, Announced
<1> QED
  BY <1>2, <1>4, <1>5, <1>6 DEF IInv

-----------------------------------------------------------------------------
(* A worker fetches the page and counts the job as done *)

LEMMA WgetInvariant ==
  ASSUME IInv, NEW w \in Workers, Wget(w)
  PROVE  IInv'
<1>1. /\ w \in Threads /\ w # Main /\ pc[w] = "wget" /\ Move(w, "wget", "lockNum")
      /\ pc' = [pc EXCEPT ![w] = "lockNum"]
  BY DEF Wget, Move, At, Threads
<1> USE <1>1 DEF Wget, queueVars, semVars, countVars
<1>2. SlotsAccounted' /\ UNCHANGED Number(Owned \cup Announced)
  BY SameAccounts DEF Labels, Claimed, Announced, Owned
<1>3. job[w] = jobID[w] + 1 /\ jobID[w] \in Int /\ job[w] \in Int
  BY DEF IInv, TypeOK, NumberIsPlace, Owned
<1>4. TypeOK'
  <2>1. pc' \in [Threads -> Labels]
    BY DEF IInv, TypeOK, Labels
  <2>2. files' \in [0..(NumUrls - 1) -> SUBSET Int]
    BY <1>3 DEF IInv, TypeOK
  <2> QED
    BY <2>1, <2>2 DEF IInv, TypeOK
<1>5. Mutexes' /\ Counters'
  BY DEF IInv, TypeOK, Mutexes, Counters, Threads
<1>6. RingHolds' /\ Numbers'
  BY <1>2 DEF IInv, TypeOK, RingHolds, Numbers, Threads, Owned, Announced
<1>7. NumberIsPlace'
  <2>1. \A k \in 0..(NumUrls - 1) :
          files'[k] = IF k = jobID[w] THEN files[k] \cup {k + 1} ELSE files[k]
    BY <1>3 DEF IInv, TypeOK
  <2>2. \A k \in 0..(NumUrls - 1) : files'[k] \subseteq {k + 1}
    <3>1. \A k \in 0..(NumUrls - 1) : files[k] \subseteq {k + 1}
      BY DEF IInv, NumberIsPlace
    <3> QED
      BY <2>1, <3>1, Zenon
  <2> QED
    BY <2>2 DEF IInv, TypeOK, NumberIsPlace, Owned, Announced
<1> QED
  BY <1>2, <1>4, <1>5, <1>6, <1>7 DEF IInv

LEMMA NumMutexInvariant ==
  ASSUME IInv, NEW w \in Workers, LockNum(w) \/ LoadNum(w) \/ UnlockNum(w)
  PROVE  IInv'
<1>1. PICK from \in {"lockNum", "load", "unlockNum"}, to \in {"load", "store", "wait"} :
        /\ w \in Threads /\ w # Main /\ Move(w, from, to)
        /\ pc[w] = from /\ pc' = [pc EXCEPT ![w] = to]
        /\ from = "lockNum" <=> to = "load"
        /\ from = "load" <=> to = "store"
        /\ from = "lockNum" => jobNumMutex = Nobody /\ jobNumMutex' = w
        /\ from = "load" => UNCHANGED jobNumMutex /\ reg' = [reg EXCEPT ![w] = totalDone]
        /\ from # "load" => UNCHANGED reg
        /\ from = "unlockNum" => jobNumMutex' = Nobody
  BY DEF LockNum, LoadNum, UnlockNum, Move, At, Threads, workerVars, countVars
<1>2. UNCHANGED <<read, queueVars, semVars, job, jobID, files, totalDone>>
  BY DEF LockNum, LoadNum, UnlockNum, workerVars, countVars
<1> USE <1>1, <1>2 DEF queueVars, semVars
<1>3. SlotsAccounted' /\ UNCHANGED Number(Owned \cup Announced)
  BY SameAccounts DEF Labels, Claimed, Announced, Owned
<1>4. TypeOK'
  BY DEF IInv, TypeOK, Labels
<1>5. Mutexes'
  BY DEF IInv, TypeOK, Mutexes, Threads
<1>6. Counters'
  BY DEF IInv, TypeOK, Counters, Threads
<1>7. RingHolds' /\ NumberIsPlace'
  BY DEF IInv, TypeOK, RingHolds, NumberIsPlace, Threads, Owned, Announced
<1>8. Numbers'
  BY <1>3 DEF IInv, TypeOK, Numbers, Threads, Owned, Announced
<1> QED
  BY <1>3, <1>4, <1>5, <1>6, <1>7, <1>8 DEF IInv

LEMMA StoreNumInvariant ==
  ASSUME IInv, NEW w \in Workers, StoreNum(w)
  PROVE  IInv'
<1>1. /\ w \in Threads /\ w # Main /\ pc[w] = "store"
      /\ pc' = [pc EXCEPT ![w] = "unlockNum"] /\ Counted(w, "store", "unlockNum")
  BY CountsMove DEF StoreNum, IInv, Labels, Threads
<1> USE <1>1 DEF StoreNum, queueVars, semVars, workerVars
<1>2. SlotsAccounted'
  <2>1. UNCHANGED <<Number(Claimed), Number(Announced), MainIn(Claimed), MainIn(Announced)>>
    BY DEF Counted, Change, Claimed, Announced
  <2> QED
    BY <2>1 DEF IInv, SlotsAccounted
<1>3. /\ Number(Owned \cup Announced) \in Nat
      /\ Number(Owned \cup Announced)' = Number(Owned \cup Announced) - 1
  BY DEF Counted, Change, Owned, Announced
<1>4. TypeOK'
  BY DEF IInv, TypeOK, Labels
<1>5. Mutexes' /\ Counters'
  BY DEF IInv, TypeOK, Mutexes, Counters, Threads
<1>6. RingHolds' /\ NumberIsPlace'
  BY DEF IInv, TypeOK, RingHolds, NumberIsPlace, Threads, Owned, Announced
<1>7. Numbers'
  <2>1. totalDone' = totalDone + 1 /\ \A x \in Workers : x # w => pc[x] # "store"
    BY DEF IInv, Mutexes, Numbers
  <2>2. totalDone' + Number(Owned \cup Announced)' = outCount'
    BY <1>3, <2>1 DEF IInv, TypeOK, Numbers
  <2> QED
    BY <2>1, <2>2 DEF IInv, TypeOK, Numbers, Owned, Announced
<1> QED
  BY <1>2, <1>4, <1>5, <1>6, <1>7 DEF IInv

-----------------------------------------------------------------------------
LEMMA InitInvariant == Init => IInv
<1> SUFFICES ASSUME Init
             PROVE  IInv
  OBVIOUS
<1> USE DEF Init, Threads
<1>1. TypeOK
  BY DEF TypeOK, Labels, Slots
<1>2. Mutexes /\ NumberIsPlace
  BY DEF Mutexes, NumberIsPlace, Owned, Announced
<1>3. Counters
  BY DivisionTheorem DEF Counters
<1>4. \A L \in {Claimed, Announced, Owned \cup Announced} : Number(L) = 0 /\ MainIn(L) = 0
  <2>1. \A L \in {Claimed, Announced, Owned \cup Announced} : In(L) \ {Main} = {}
    BY DEF In, Claimed, Announced, Owned
  <2>2. \A L \in {Claimed, Announced} : "create" \notin L
    BY DEF Claimed, Announced
  <2>3. "create" \notin Owned \cup Announced
    BY DEF Owned, Announced
  <2> QED
    BY <2>1, <2>2, <2>3, FS_EmptySet DEF Number, MainIn
<1>5. SlotsAccounted
  BY <1>4 DEF SlotsAccounted
<1>6. RingHolds
  BY DEF RingHolds
<1>7. Numbers
  BY <1>4 DEF Numbers, Owned, Announced
<1> QED
  BY <1>1, <1>2, <1>3, <1>5, <1>6, <1>7 DEF IInv

LEMMA PoolInvariant ==
  ASSUME IInv, Next \/ UNCHANGED vars
  PROVE  IInv'
<1>1. CASE MainStep
  BY <1>1, CreateWorkerInvariant, MainElsewhereInvariant, WaitEmptySlotInvariant,
     QueueMutexInvariant, CopyInInvariant, AdvanceTailInvariant, PostFullSlotInvariant
     DEF MainStep, enqueueAJob, waitForAllJobsDone, Threads
<1>2. ASSUME NEW w \in Workers, processJobsLongLiveThread(w)
      PROVE  IInv'
  BY <1>2, WaitFullSlotInvariant, QueueMutexInvariant, CopyOutInvariant, AdvanceHeadInvariant,
     PostEmptySlotInvariant, WgetInvariant, NumMutexInvariant, StoreNumInvariant
     DEF processJobsLongLiveThread, dequeueAJob, Threads
<1>3. CASE UNCHANGED vars
  <2> USE <1>3 DEF vars, queueVars, semVars, workerVars, countVars
  <2>1. In(Claimed)' = In(Claimed) /\ In(Announced)' = In(Announced)
        /\ In(Owned \cup Announced)' = In(Owned \cup Announced)
    BY DEF In
  <2>2. SlotsAccounted'
    BY <2>1 DEF IInv, SlotsAccounted, Number, MainIn
  <2>3. Numbers'
    BY <2>1 DEF IInv, Numbers, Number
  <2>4. TypeOK' /\ Mutexes' /\ Counters' /\ RingHolds' /\ NumberIsPlace'
    BY DEF IInv, TypeOK, Mutexes, Counters, RingHolds, NumberIsPlace
  <2> QED
    BY <2>2, <2>3, <2>4 DEF IInv
<1> QED
  BY <1>1, <1>2, <1>3 DEF Next

LEMMA SlotsGiveRing == IInv => RingAccounting
<1> SUFFICES ASSUME IInv
             PROVE  RingAccounting
  OBVIOUS
<1>1. \A L : /\ MainIn(L) = Cardinality(In(L) \cap {Main})
             /\ Number(L) = Cardinality(In(L) \ {Main})
  <2> SUFFICES ASSUME NEW L
               PROVE  MainIn(L) = Cardinality(In(L) \cap {Main})
    BY DEF Number
  <2>1. In(L) \cap {Main} = IF pc[Main] \in L THEN {Main} ELSE {}
    BY DEF In, Threads
  <2> QED
    BY <2>1, FS_EmptySet, FS_Singleton DEF MainIn
<1>2. /\ MainIn(Claimed) = Cardinality(In(Claimed) \cap {Main})
      /\ MainIn(Announced) = Cardinality(In(Announced) \cap {Main})
      /\ Number(Claimed) = Cardinality(In(Claimed) \ {Main})
      /\ Number(Announced) = Cardinality(In(Announced) \ {Main})
  BY <1>1
<1> QED
  BY <1>2 DEF IInv, SlotsAccounted, RingHolds, RingAccounting

-----------------------------------------------------------------------------
(* The threads on demand *)

\* What the move of thread j does to the threads at the labels L.
LEMMA ThreadsMove ==
  ASSUME DTypeOK, NEW CONSTANT j \in D!Jobs, NEW CONSTANT from, NEW CONSTANT to \in DLabels,
         D!Move(j, from, to), NEW CONSTANT L
  PROVE  /\ Cardinality(D!In(L)) \in Nat
         /\ D!In(L)' = IF to \in L THEN D!In(L) \cup {j} ELSE D!In(L) \ {j}
         /\ from \in L => j \in D!In(L) /\ Cardinality(D!In(L) \ {j}) = Cardinality(D!In(L)) - 1
         /\ from \notin L =>
              j \notin D!In(L) /\ Cardinality(D!In(L) \cup {j}) = Cardinality(D!In(L)) + 1
<1>1. D!In(L) = {i \in D!Jobs : threadPc[i] \in L} /\ IsFiniteSet(D!Jobs)
  BY FS_Interval DEF D!In, D!Jobs
<1>2. IsFiniteSet(D!In(L)) /\ Cardinality(D!In(L)) \in Nat
  BY <1>1, FS_Subset, FS_CardinalityType
<1>3. threadPc[j] = from /\ threadPc' = [threadPc EXCEPT ![j] = to]
  BY DEF D!Move
<1>4. D!In(L)' = IF to \in L THEN D!In(L) \cup {j} ELSE D!In(L) \ {j}
  BY <1>3 DEF DTypeOK, D!In
<1>5. j \in D!In(L) <=> from \in L
  BY <1>3 DEF D!In
<1>6. /\ Cardinality(D!In(L) \cup {j}) =
           IF j \in D!In(L) THEN Cardinality(D!In(L)) ELSE Cardinality(D!In(L)) + 1
      /\ Cardinality(D!In(L) \ {j}) =
           IF j \in D!In(L) THEN Cardinality(D!In(L)) - 1 ELSE Cardinality(D!In(L))
  BY <1>2, FS_AddElement, FS_RemoveElement
<1> QED
  BY <1>2, <1>4, <1>5, <1>6

LEMMA OneCardinality == \A S : D!Cardinality(S) = Cardinality(S)
BY DEF D!Cardinality, Cardinality, D!IsFiniteSet, IsFiniteSet

LEMMA AgreeIsCountsAgree ==
  ASSUME DTypeOK, Agree
  PROVE  CountsAgree
<1>1. /\ D!CountedIn \cup D!In({"ended"}) = D!In(Counting \cup {"ended"})
      /\ D!CountedIn = D!In(Counting)
  BY DEF D!CountedIn, D!In, Counting
<1>2. maxConcurrentThreads \in concurrentThreadsNow..totalThreadsCreated
  BY DEF DTypeOK, Agree
<1> QED
  BY <1>1, <1>2, OneCardinality DEF CountsAgree, D!CountsAgree, Agree

\* A step of a thread between the labels that are not counted differently.
LEMMA LockOrLoadInvariant ==
  ASSUME DInv, NEW j \in D!Jobs, D!Lock(j) \/ D!Load(j) \/ D!Wget(j)
  PROVE  DInv'
<1>1. PICK from \in {"begin", "finish", "load", "load2", "wget"},
           to \in {"load", "load2", "countIn", "countOut", "finish"} :
        /\ D!Move(j, from, to) /\ threadPc[j] = from
        /\ threadPc' = [threadPc EXCEPT ![j] = to]
        /\ from \in Counting <=> to \in Counting
        /\ from \in {"begin", "finish"} <=> to \in {"load", "load2"}
        /\ from \in {"load", "load2"} <=> to \in {"countIn", "countOut"}
        /\ from \in {"begin", "finish"} => counterMutex = Nobody /\ counterMutex' = j /\ UNCHANGED seen
        /\ from \in {"load", "load2"} => /\ seen' = [seen EXCEPT ![j] = D!counters]
                                         /\ UNCHANGED counterMutex
        /\ from = "wget" => UNCHANGED <<counterMutex, seen>>
  BY DEF D!Lock, D!Load, D!Wget, D!Move, Counting
<1>2. UNCHANGED <<mainPc, nextJobID, totalThreadsCreated, concurrentThreadsNow,
                  maxConcurrentThreads, totalNumOfJobsDone>>
  BY DEF D!Lock, D!Load, D!Wget, D!counters
<1> USE <1>1, <1>2
<1>3. DTypeOK'
  BY DEF DInv, DTypeOK, DLabels, D!counters
<1>4. SeenStillTrue'
  BY DEF DInv, DTypeOK, SeenStillTrue, D!counters
<1>5. InOrder'
  BY DEF DInv, DTypeOK, InOrder
<1>6. Agree'
  <2>1. \A L \in {Counting \cup {"ended"}, Counting, {"ended"}} : D!In(L)' = D!In(L)
    BY DEF DInv, DTypeOK, D!In, Counting
  <2> QED
    BY <2>1 DEF DInv, Agree
<1> QED
  BY <1>3, <1>4, <1>5, <1>6 DEF DInv

LEMMA CountInInvariant ==
  ASSUME DInv, NEW j \in D!Jobs, D!CountIn(j)
  PROVE  DInv'
<1>1. /\ D!Move(j, "countIn", "wget") /\ threadPc[j] = "countIn"
      /\ threadPc' = [threadPc EXCEPT ![j] = "wget"]
      /\ totalThreadsCreated' = seen[j][1] + 1 /\ concurrentThreadsNow' = seen[j][2] + 1
      /\ maxConcurrentThreads' \in {seen[j][2] + 1, seen[j][3]}
      /\ seen' = [seen EXCEPT ![j] = <<0, 0, 0, 0>>] /\ counterMutex' = Nobody
      /\ UNCHANGED <<mainPc, nextJobID, totalNumOfJobsDone>>
  BY DEF D!CountIn, D!Move
<1> USE <1>1
<1>2. seen[j] = D!counters /\ counterMutex = j
  BY DEF DInv, SeenStillTrue
<1>3. /\ totalThreadsCreated' = totalThreadsCreated + 1
      /\ concurrentThreadsNow' = concurrentThreadsNow + 1 /\ maxConcurrentThreads' \in Int
  BY <1>2 DEF DInv, DTypeOK, D!counters
<1>8. concurrentThreadsNow' <= maxConcurrentThreads' /\ maxConcurrentThreads' <= totalThreadsCreated'
  <2>1. /\ seen[j][2] = concurrentThreadsNow /\ seen[j][3] = maxConcurrentThreads
        /\ {concurrentThreadsNow, maxConcurrentThreads, totalThreadsCreated} \subseteq Int
        /\ concurrentThreadsNow <= maxConcurrentThreads /\ maxConcurrentThreads <= totalThreadsCreated
    BY <1>2 DEF DInv, DTypeOK, Agree, D!counters
  <2>2. CASE concurrentThreadsNow + 1 > maxConcurrentThreads
    <3>1. maxConcurrentThreads' = concurrentThreadsNow + 1
      BY <2>1, <2>2 DEF D!CountIn
    <3> QED
      BY <1>3, <2>1, <3>1
  <2>3. CASE ~(concurrentThreadsNow + 1 > maxConcurrentThreads)
    <3>1. maxConcurrentThreads' = maxConcurrentThreads
      BY <2>1, <2>3 DEF D!CountIn
    <3> QED
      BY <1>3, <2>1, <2>3, <3>1
  <2> QED
    BY <2>2, <2>3
<1>4. DTypeOK'
  BY <1>3 DEF DInv, DTypeOK, DLabels
<1>5. SeenStillTrue'
  BY <1>2 DEF DInv, DTypeOK, SeenStillTrue
<1>6. InOrder'
  BY DEF DInv, DTypeOK, InOrder
<1>7. Agree'
  <2>1. ASSUME NEW CONSTANT L, "countIn" \notin L, "wget" \in L
        PROVE  Cardinality(D!In(L)') = Cardinality(D!In(L)) + 1
    <3>1. "wget" \in DLabels /\ DTypeOK /\ D!Move(j, "countIn", "wget")
      BY DEF DInv, DLabels
    <3>2. /\ D!In(L)' = D!In(L) \cup {j}
          /\ Cardinality(D!In(L) \cup {j}) = Cardinality(D!In(L)) + 1
      BY ONLY <2>1, <3>1, ThreadsMove
    <3> QED
      BY ONLY <3>2
  <2>2. D!In({"ended"})' = D!In({"ended"})
    BY DEF DInv, DTypeOK, D!In
  <2>3. /\ Cardinality(D!In(Counting)') = Cardinality(D!In(Counting)) + 1
        /\ Cardinality(D!In(Counting \cup {"ended"})') = Cardinality(D!In(Counting \cup {"ended"})) + 1
    BY <2>1 DEF Counting
  <2> QED
    BY <1>3, <1>8, <2>2, <2>3 DEF DInv, Agree
<1> QED
  BY <1>4, <1>5, <1>6, <1>7 DEF DInv

LEMMA CountOutInvariant ==
  ASSUME DInv, NEW j \in D!Jobs, D!CountOut(j)
  PROVE  DInv'
<1>1. /\ D!Move(j, "countOut", "ended") /\ threadPc[j] = "countOut"
      /\ threadPc' = [threadPc EXCEPT ![j] = "ended"]
      /\ totalNumOfJobsDone' = seen[j][4] + 1 /\ concurrentThreadsNow' = seen[j][2] - 1
      /\ seen' = [seen EXCEPT ![j] = <<0, 0, 0, 0>>] /\ counterMutex' = Nobody
      /\ UNCHANGED <<mainPc, nextJobID, totalThreadsCreated, maxConcurrentThreads>>
  BY DEF D!CountOut, D!Move
<1> USE <1>1
<1>2. seen[j] = D!counters /\ counterMutex = j
  BY DEF DInv, SeenStillTrue
<1>3. /\ totalNumOfJobsDone' = totalNumOfJobsDone + 1
      /\ concurrentThreadsNow' = concurrentThreadsNow - 1
  BY <1>2 DEF DInv, DTypeOK, D!counters
<1>4. DTypeOK'
  BY <1>3 DEF DInv, DTypeOK, DLabels
<1>5. SeenStillTrue'
  BY <1>2 DEF DInv, DTypeOK, SeenStillTrue
<1>6. InOrder'
  BY DEF DInv, DTypeOK, InOrder
<1>7. Agree'
  <2>0. "ended" \in DLabels /\ DTypeOK /\ D!Move(j, "countOut", "ended")
    BY DEF DInv, DLabels
  <2>1. ASSUME NEW CONSTANT L, "countOut" \in L, "ended" \notin L
        PROVE  Cardinality(D!In(L)') = Cardinality(D!In(L)) - 1
    <3>1. D!In(L)' = IF "ended" \in L THEN D!In(L) \cup {j} ELSE D!In(L) \ {j}
      BY ONLY <2>0, ThreadsMove, Zenon
    <3>2. Cardinality(D!In(L) \ {j}) = Cardinality(D!In(L)) - 1
      BY ONLY <2>0, <2>1, ThreadsMove, Zenon
    <3> QED
      BY ONLY <2>1, <3>1, <3>2
  <2>4. /\ D!In({"ended"})' = D!In({"ended"}) \cup {j}
        /\ Cardinality(D!In({"ended"}) \cup {j}) = Cardinality(D!In({"ended"})) + 1
    <3>1. "countOut" \notin {"ended"} /\ "ended" \in {"ended"}
      OBVIOUS
    <3> QED
      BY ONLY <2>0, <3>1, ThreadsMove
  <2>2. D!In(Counting \cup {"ended"})' = D!In(Counting \cup {"ended"})
    BY DEF DInv, DTypeOK, D!In, Counting
  <2>3. /\ Cardinality(D!In(Counting)') = Cardinality(D!In(Counting)) - 1
        /\ Cardinality(D!In({"ended"})') = Cardinality(D!In({"ended"})) + 1
    BY <2>1, <2>4 DEF Counting
  <2>5. concurrentThreadsNow' <= maxConcurrentThreads' /\ maxConcurrentThreads' <= totalThreadsCreated'
    BY <1>3 DEF DInv, DTypeOK, Agree
  <2> QED
    BY <1>3, <2>2, <2>3, <2>5 DEF DInv, Agree
<1> QED
  BY <1>4, <1>5, <1>6, <1>7 DEF DInv

\* The new thread is the last one that has a number.
LEMMA CreateThreadInvariant ==
  ASSUME DInv, D!CreateThread
  PROVE  DInv'
<1>1. /\ mainPc = "create" /\ mainPc' = "read" /\ threadPc[nextJobID - 1] = "out"
      /\ threadPc' = [threadPc EXCEPT ![nextJobID - 1] = "begin"]
      /\ UNCHANGED <<nextJobID, counterMutex, totalThreadsCreated, concurrentThreadsNow,
                     maxConcurrentThreads, totalNumOfJobsDone, seen>>
  BY DEF D!CreateThread, D!Move, D!counters
<1> USE <1>1
<1>2. nextJobID - 1 \in D!Jobs
  BY DEF DInv, DTypeOK, InOrder, D!Jobs
<1>3. DTypeOK'
  BY <1>2 DEF DInv, DTypeOK, DLabels
<1>4. SeenStillTrue'
  BY <1>2 DEF DInv, DTypeOK, SeenStillTrue, D!counters
<1>5. InOrder'
  BY <1>2 DEF DInv, DTypeOK, InOrder, D!Jobs
<1>6. Agree'
  <2>1. \A L \in {Counting \cup {"ended"}, Counting, {"ended"}} : D!In(L)' = D!In(L)
    BY <1>2 DEF DInv, DTypeOK, D!In, Counting
  <2> QED
    BY <2>1 DEF DInv, Agree
<1> QED
  BY <1>3, <1>4, <1>5, <1>6 DEF DInv

LEMMA DMainElsewhereInvariant ==
  ASSUME DInv, D!ReadUrl \/ D!CreateFails \/ D!PollLock \/ D!Check \/ UNCHANGED onDemandVars
  PROVE  DInv'
<1>1. UNCHANGED <<threadPc, totalThreadsCreated, concurrentThreadsNow, maxConcurrentThreads,
                  totalNumOfJobsDone, seen>>
  BY DEF D!ReadUrl, D!CreateFails, D!PollLock, D!Check, D!counters, onDemandVars
<1>2. DTypeOK' /\ SeenStillTrue' /\ InOrder'
  <2> USE <1>1 DEF DInv, DTypeOK, SeenStillTrue, InOrder, D!counters
  <2>1. CASE D!ReadUrl
    <3>1. CASE nextJobID < NumUrls
      <4>1. mainPc = "read" /\ mainPc' = "create" /\ nextJobID' = nextJobID + 1 /\ UNCHANGED counterMutex
        BY <2>1, <3>1 DEF D!ReadUrl
      <4> QED
        BY <3>1, <4>1 DEF D!Jobs
    <3>2. CASE ~(nextJobID < NumUrls)
      <4>1. mainPc = "read" /\ mainPc' = "poll" /\ nextJobID' = NumUrls /\ UNCHANGED <<nextJobID, counterMutex>>
        BY <2>1, <3>2 DEF D!ReadUrl
      <4> QED
        BY <4>1 DEF D!Jobs
    <3> QED
      BY <3>1, <3>2
  <2>2. CASE D!CreateFails
    BY <2>2 DEF D!CreateFails
  <2>3. CASE D!PollLock
    BY <2>3 DEF D!PollLock
  <2>4. CASE D!Check
    BY <2>4 DEF D!Check
  <2>5. CASE UNCHANGED onDemandVars
    BY <2>5 DEF onDemandVars
  <2> QED
    BY <2>1, <2>2, <2>3, <2>4, <2>5
<1>3. Agree'
  BY <1>1 DEF DInv, Agree, D!In
<1> QED
  BY <1>2, <1>3 DEF DInv

LEMMA DInitInvariant == D!Init => DInv
<1> SUFFICES ASSUME D!Init
             PROVE  DInv
  OBVIOUS
<1>1. DTypeOK /\ SeenStillTrue /\ InOrder
  BY DEF D!Init, DTypeOK, SeenStillTrue, InOrder, DLabels, D!Jobs
<1>2. \A L \in {Counting \cup {"ended"}, Counting, {"ended"}} : D!In(L) = {}
  BY DEF D!Init, D!In, Counting
<1>3. Agree
  BY <1>2, FS_EmptySet DEF D!Init, Agree
<1> QED
  BY <1>1, <1>3 DEF DInv

LEMMA OnDemandInvariant ==
  ASSUME DInv, D!Next \/ UNCHANGED onDemandVars
  PROVE  DInv'
<1>1. CASE D!main
  BY <1>1, DMainElsewhereInvariant, CreateThreadInvariant DEF D!main
<1>2. ASSUME NEW j \in D!Jobs, D!processJobsOnDemandThread(j)
      PROVE  DInv'
  BY <1>2, LockOrLoadInvariant, CountInInvariant, CountOutInvariant DEF D!processJobsOnDemandThread
<1>3. CASE UNCHANGED D!vars
  BY <1>3, DMainElsewhereInvariant DEF D!vars, D!counters, onDemandVars
<1> QED
  BY <1>1, <1>2, <1>3, DMainElsewhereInvariant DEF D!Next

-----------------------------------------------------------------------------
\* The invariants of both programs hold throughout: the one that does not run
\* stays in its initial state.
THEOREM Invariant == FairSpec => [](IInv /\ DInv)
<1>1. EitherInit => IInv /\ DInv
  BY InitInvariant, DInitInvariant DEF EitherInit
<1>2. IInv /\ DInv /\ [EitherNext]_allVars => IInv' /\ DInv'
  <2>1. [EitherNext]_allVars => (Next \/ UNCHANGED vars) /\ (D!Next \/ UNCHANGED onDemandVars)
    BY DEF EitherNext, PooledStep, OnDemandStep, allVars
  <2> QED
    BY <2>1, PoolInvariant, OnDemandInvariant
<1> QED
  BY <1>1, <1>2, PTL DEF FairSpec

\* ConcurrentWget-ThreadPool.c: the ring and its two semaphores account for
\* every slot, and no URL is overwritten before a worker has taken it.
THEOREM RingIsAccountedFor == FairSpec => []RingAccounting
BY Invariant, SlotsGiveRing, PTL

\* ConcurrentWget-ThreadPool.c: the page of the k-th URL goes to the k-th file.
THEOREM PlacesAreNumbers == FairSpec => []NumberIsPlace
<1>1. IInv => NumberIsPlace
  BY DEF IInv
<1> QED
  BY <1>1, Invariant, PTL

\* ConcurrentWget-OnDemand.c: three of the counters say how many threads have been
\* created, are at work and have ended; the fourth, the maximum, lies between the
\* threads at work and those created.
THEOREM CountersAgree == FairSpec => []CountsAgree
<1>1. DInv => CountsAgree
  BY AgreeIsCountsAgree DEF DInv
<1> QED
  BY <1>1, Invariant, PTL

-----------------------------------------------------------------------------
(* The thread pool implements the job pool *)

Busy == Owned \cup Announced
BusyWorkers == {w \in Workers : pc[w] \in Busy}

\* A step that the job pool does not see.
Quiet == /\ UNCHANGED <<inCount, outCount, jobID>>
         /\ BusyWorkers' = BusyWorkers
         /\ pc'[Main] = "exited" <=> pc[Main] = "exited"

LEMMA QuietSteps ==
  ASSUME TypeOK, Next
  PROVE  \/ Quiet
         \/ AdvanceTail
         \/ Check /\ totalDone = inCount
         \/ \E w \in Workers : AdvanceHead(w) \/ StoreNum(w)
<1>0. ASSUME NEW CONSTANT to, pc' = [pc EXCEPT ![Main] = to]
      PROVE  BusyWorkers' = BusyWorkers /\ pc'[Main] = to
  BY <1>0, Main \notin Workers DEF TypeOK, BusyWorkers, Threads
<1> USE DEF queueVars, semVars, workerVars, countVars
<1>1. CASE CreateWorker
  <2>1. PICK v \in Workers, to \in {"create", "read"} :
          /\ pc[v] = "out" /\ pc[Main] = "create"
          /\ pc' = [pc EXCEPT ![v] = "wait", ![Main] = to]
    BY <1>1 DEF CreateWorker, At
  <2>2. UNCHANGED <<inCount, outCount, jobID>>
    BY <1>1 DEF CreateWorker
  <2>3. pc'[Main] = to /\ \A w \in Workers : pc'[w] = IF w = v THEN "wait" ELSE pc[w]
    BY <2>1 DEF TypeOK, Threads
  <2>4. \A w \in Workers : pc'[w] \in Busy <=> pc[w] \in Busy
    <3>1. {"wait", "out"} \cap Busy = {}
      BY DEF Busy, Owned, Announced
    <3>2. ASSUME NEW w \in Workers
          PROVE  pc'[w] = pc[w] \/ {pc'[w], pc[w]} \subseteq {"wait", "out"}
      BY <2>1, <2>3
    <3> QED
      BY <3>1, <3>2
  <2>5. BusyWorkers' = BusyWorkers
    BY <2>4 DEF BusyWorkers, Busy, Owned, Announced
  <2> QED
    BY <2>1, <2>2, <2>3, <2>5 DEF Quiet
<1>2. CASE \/ CreateFails \/ ReadUrl \/ PollLock \/ Check
           \/ WaitEmptySlot \/ LockQueue(Main) \/ CopyIn \/ UnlockQueue(Main) \/ PostFullSlot
  <2>1. UNCHANGED <<inCount, outCount, jobID>>
    BY <1>2 DEF CreateFails, ReadUrl, PollLock, Check, WaitEmptySlot, LockQueue, CopyIn,
                UnlockQueue, PostFullSlot
  <2>2. CASE Check /\ totalDone # inCount
    <3>1. pc[Main] = "check" /\ pc' = [pc EXCEPT ![Main] = "poll"]
      BY <2>2 DEF Check, Move, At
    <3> QED
      BY <1>0, <2>1, <3>1 DEF Quiet
  <2>3. CASE ~Check
    <3>1. PICK from \in {"create", "read", "poll", "wait", "lock", "copy", "unlock", "post"},
               to \in {"failed", "wait", "poll", "check", "lock", "copy", "advance", "post", "read"} :
            pc[Main] = from /\ pc' = [pc EXCEPT ![Main] = to]
      BY <1>2, <2>3 DEF CreateFails, ReadUrl, PollLock, WaitEmptySlot, LockQueue, CopyIn,
                        UnlockQueue, PostFullSlot, Move, At
    <3> QED
      BY <1>0, <2>1, <3>1 DEF Quiet
  <2> QED
    BY <2>2, <2>3
<1>3. ASSUME NEW w \in Workers,
             \/ WaitFullSlot(w) \/ LockQueue(w) \/ CopyOut(w) \/ UnlockQueue(w) \/ PostEmptySlot(w)
             \/ Wget(w) \/ LockNum(w) \/ LoadNum(w) \/ UnlockNum(w)
      PROVE  Quiet
  <2>1. PICK from \in Labels, to \in Labels :
          /\ pc[w] = from /\ pc' = [pc EXCEPT ![w] = to]
          /\ from \in Busy <=> to \in Busy
    BY <1>3 DEF WaitFullSlot, LockQueue, CopyOut, UnlockQueue, PostEmptySlot, Wget, LockNum,
                LoadNum, UnlockNum, Move, At, Labels, Busy, Owned, Announced
  <2>2. UNCHANGED <<inCount, outCount, jobID>>
    BY <1>3 DEF WaitFullSlot, LockQueue, CopyOut, UnlockQueue, PostEmptySlot, Wget, LockNum,
                LoadNum, UnlockNum
  <2>3. BusyWorkers' = BusyWorkers /\ pc'[Main] = pc[Main]
    BY <2>1, Main \notin Workers DEF TypeOK, BusyWorkers, Threads
  <2> QED
    BY <2>2, <2>3 DEF Quiet
<1>4. CASE UNCHANGED vars
  BY <1>4 DEF vars, Quiet, BusyWorkers
<1> QED
  BY <1>1, <1>2, <1>3, <1>4
     DEF Next, MainStep, enqueueAJob, waitForAllJobsDone, processJobsLongLiveThread, dequeueAJob

LEMMA RunningOfBusy == Running = {jobID[w] : w \in BusyWorkers}
BY DEF Running, In, Threads, BusyWorkers, Busy

\* Jobs are taken after they are put in, and a job taken and not done has a number
\* below the number of those taken.
LEMMA TakenInOrder ==
  ASSUME IInv
  PROVE  /\ outCount \in Nat /\ inCount \in Nat /\ outCount <= inCount /\ inCount <= NumUrls
         /\ Running \subseteq 0..(outCount - 1)
         /\ \A w \in BusyWorkers : jobID[w] \in Int
<1>1. Number(Claimed) \in Nat
  <2>1. In(Claimed) \ {Main} \subseteq Workers
    BY DEF In, Threads
  <2> QED
    BY <2>1, FS_Subset, FS_CardinalityType DEF Number
<1>2. MainIn(Announced) \in Nat
  BY DEF MainIn
<1>3. inCount - outCount = fullSlots + Number(Claimed) + MainIn(Announced)
  BY DEF IInv, SlotsAccounted
<1>4. outCount <= inCount
  BY <1>1, <1>2, <1>3 DEF IInv, TypeOK
<1>5. inCount <= NumUrls
  BY DEF IInv, TypeOK, Counters
<1>6. Running \subseteq 0..(outCount - 1)
  BY RunningOfBusy DEF IInv, Numbers, BusyWorkers, Busy
<1> QED
  BY <1>4, <1>5, <1>6 DEF IInv, TypeOK, BusyWorkers

\* main exits when no worker has a job and every URL was taken.
LEMMA AllDoneAtExit ==
  ASSUME IInv, totalDone = inCount, pc[Main] = "check"
  PROVE  inCount = NumUrls /\ outCount = NumUrls /\ Running = {}
<1>1. inCount = NumUrls
  BY DEF IInv, Counters
<1>2. IsFiniteSet(In(Busy) \ {Main}) /\ Number(Busy) \in Nat
  <2>1. In(Busy) \ {Main} \subseteq Workers
    BY DEF In, Threads
  <2> QED
    BY <2>1, FS_Subset, FS_CardinalityType DEF Number
<1>3. inCount + Number(Busy) = outCount /\ outCount <= inCount
  BY TakenInOrder DEF IInv, Numbers, Busy
<1>4. Number(Busy) = 0 /\ outCount = inCount
  BY <1>2, <1>3, TakenInOrder
<1>5. In(Busy) \ {Main} = {}
  BY <1>2, <1>4, FS_EmptySet DEF Number
<1> QED
  BY <1>1, <1>4, <1>5 DEF Running, Busy

LEMMA PoolImplements ==
  ASSUME IInv, Pooled, PooledStep(Next)
  PROVE  [Pool!Next]_Pool!vars
<1>1. /\ Next /\ Pooled' /\ UNCHANGED mainPc
      /\ Running = {jobID[w] : w \in BusyWorkers} /\ Running' = {jobID'[w] : w \in BusyWorkers'}
      /\ Done = 0..(outCount - 1) \ Running /\ Done' = 0..(outCount' - 1) \ Running'
      /\ outCount \in Nat /\ inCount \in Nat /\ outCount <= inCount /\ inCount <= NumUrls
      /\ Running \subseteq 0..(outCount - 1)
      /\ Pooled
  <2>1. Running' = {jobID'[w] : w \in BusyWorkers'}
    BY DEF Running, In, Threads, BusyWorkers, Busy, Owned, Announced
  <2>2. Running \subseteq 0..(outCount - 1)
    BY TakenInOrder
  <2> QED
    BY <2>1, <2>2, RunningOfBusy, TakenInOrder DEF PooledStep, onDemandVars, Pooled, Done
<1>2. CASE Quiet
  <2>1. UNCHANGED <<inCount, Running, Done>>
    BY <1>1, <1>2 DEF Quiet
  <2>2. ("exited" \in {pc[Main], mainPc})' = ("exited" \in {pc[Main], mainPc})
    BY <1>1, <1>2 DEF Quiet
  <2> QED
    BY <1>1, <2>1, <2>2 DEF Pool!vars
<1>3. CASE AdvanceTail
  <2>1. /\ pc[Main] = "advance" /\ pc' = [pc EXCEPT ![Main] = "unlock"]
        /\ inCount' = inCount + 1 /\ UNCHANGED <<outCount, jobID>>
    BY <1>3 DEF AdvanceTail, Move, At, workerVars
  <2>2. inCount < NumUrls
    BY <2>1 DEF IInv, TypeOK, Counters
  <2>3. BusyWorkers' = BusyWorkers
    BY <2>1 DEF IInv, TypeOK, BusyWorkers, Threads
  <2>4. UNCHANGED <<Running, Done>>
    BY <1>1, <2>1, <2>3
  <2>5. ("exited" \in {pc[Main], mainPc})' = ("exited" \in {pc[Main], mainPc})
    BY <1>1, <2>1 DEF IInv, TypeOK, Threads
  <2>6. Pool!Submit
    BY <1>1, <2>1, <2>2, <2>4, <2>5 DEF Pool!Submit
  <2> QED
    BY <2>6 DEF Pool!Next
<1>4. ASSUME NEW w \in Workers, AdvanceHead(w)
      PROVE  Pool!Next
  <2>1. /\ pc[w] = "advance" /\ pc' = [pc EXCEPT ![w] = "unlock"] /\ w # Main
        /\ outCount' = outCount + 1 /\ jobID' = [jobID EXCEPT ![w] = outCount]
        /\ UNCHANGED inCount
    BY <1>4 DEF AdvanceHead, Move, At
  <2>2. outCount < inCount
    <3>1. In(Claimed) \ {Main} \subseteq Workers /\ w \in In(Claimed) \ {Main}
      BY <2>1 DEF In, Threads, Claimed
    <3>2. Number(Claimed) \in Nat /\ Number(Claimed) # 0
      BY <3>1, FS_Subset, FS_CardinalityType, FS_EmptySet DEF Number
    <3>3. MainIn(Announced) \in Nat
      BY DEF MainIn
    <3>4. inCount - outCount = fullSlots + Number(Claimed) + MainIn(Announced) /\ fullSlots \in Nat
      BY DEF IInv, TypeOK, SlotsAccounted
    <3> QED
      BY <1>1, <3>2, <3>3, <3>4
  <2>3. BusyWorkers' = BusyWorkers \cup {w} /\ w \notin BusyWorkers
    BY <2>1 DEF IInv, TypeOK, BusyWorkers, Busy, Owned, Announced, Threads
  <2>4. \A x \in BusyWorkers : x \in Workers
    BY DEF BusyWorkers
  <2>5. Running' = Running \cup {outCount}
    BY <1>1, <2>1, <2>3, <2>4 DEF IInv, TypeOK
  <2>6. Done' = Done
    BY <1>1, <2>1, <2>5
  <2>7. ("exited" \in {pc[Main], mainPc})' = ("exited" \in {pc[Main], mainPc})
    BY <1>1, <2>1 DEF IInv, TypeOK, Threads
  <2>8. /\ outCount \in 0..(NumUrls - 1) /\ outCount \notin Running \cup Done
        /\ \A i \in 0..(outCount - 1) : i \in Running \cup Done
    BY <1>1, <2>2
  <2>9. Pool!Take(outCount)
    BY <1>1, <2>1, <2>2, <2>5, <2>6, <2>7, <2>8 DEF Pool!Take
  <2> QED
    BY <2>8, <2>9 DEF Pool!Next
<1>5. ASSUME NEW w \in Workers, StoreNum(w)
      PROVE  Pool!Next
  <2>1. /\ pc[w] = "store" /\ pc' = [pc EXCEPT ![w] = "unlockNum"] /\ w # Main
        /\ UNCHANGED <<inCount, outCount, jobID>>
    BY <1>5 DEF StoreNum, Move, At, queueVars, workerVars
  <2>2. BusyWorkers' = BusyWorkers \ {w} /\ w \in BusyWorkers
    BY <2>1 DEF IInv, TypeOK, BusyWorkers, Busy, Owned, Announced, Threads
  <2>3. \A x, y \in BusyWorkers : x # y => jobID[x] # jobID[y]
    BY DEF IInv, Numbers, BusyWorkers, Busy
  <2>4. Running' = Running \ {jobID[w]} /\ jobID[w] \in Running
    BY <1>1, <2>1, <2>2, <2>3
  <2>5. Done' = Done \cup {jobID[w]} /\ jobID[w] \in 0..(NumUrls - 1)
    <3>1. jobID[w] \in 0..(outCount - 1)
      BY <1>1, <2>4
    <3>2. Done' = Done \cup {jobID[w]}
      BY <1>1, <2>1, <2>4, <3>1
    <3> QED
      BY <1>1, <3>1, <3>2
  <2>6. ("exited" \in {pc[Main], mainPc})' = ("exited" \in {pc[Main], mainPc})
    BY <1>1, <2>1 DEF IInv, TypeOK, Threads
  <2>7. Pool!Finish(jobID[w])
    BY <1>1, <2>1, <2>4, <2>5, <2>6 DEF Pool!Finish
  <2> QED
    BY <2>5, <2>7 DEF Pool!Next
<1>6. CASE Check /\ totalDone = inCount
  <2>1. /\ pc[Main] = "check" /\ pc' = [pc EXCEPT ![Main] = "exited"]
        /\ UNCHANGED <<inCount, outCount, jobID>>
    BY <1>6 DEF Check, Move, At, queueVars, workerVars
  <2>2. inCount = NumUrls /\ outCount = NumUrls /\ Running = {}
    BY <1>6, <2>1, AllDoneAtExit
  <2>3. BusyWorkers' = BusyWorkers
    BY <2>1 DEF IInv, TypeOK, BusyWorkers, Threads
  <2>4. UNCHANGED <<Running, Done>>
    BY <1>1, <2>1, <2>3
  <2>5. ("exited" \in {pc[Main], mainPc})' = TRUE
    BY <2>1 DEF IInv, TypeOK, Threads
  <2>6. Done = 0..(NumUrls - 1)
    BY <1>1, <2>2
  <2>7. Pool!Close
    BY <1>1, <2>1, <2>2, <2>4, <2>5, <2>6 DEF Pool!Close
  <2> QED
    BY <2>7 DEF Pool!Next
<1>7. TypeOK
  BY DEF IInv
<1> QED
  BY <1>1, <1>2, <1>3, <1>4, <1>5, <1>6, <1>7, QuietSteps

-----------------------------------------------------------------------------
(* So do the threads on demand *)

\* main exits when every thread has ended.
LEMMA AllEndedAtExit ==
  ASSUME DInv, totalNumOfJobsDone = nextJobID, mainPc = "check"
  PROVE  nextJobID = NumUrls /\ D!In({"ended"}) = 0..(NumUrls - 1)
<1>1. nextJobID = NumUrls
  BY DEF DInv, InOrder
<1>2. Cardinality(D!In({"ended"})) = NumUrls
  BY <1>1 DEF DInv, Agree
<1>3. IsFiniteSet(0..(NumUrls - 1)) /\ Cardinality(0..(NumUrls - 1)) = NumUrls
  BY FS_Interval
<1>4. D!In({"ended"}) \subseteq 0..(NumUrls - 1)
  BY DEF D!In, D!Jobs
<1> QED
  BY <1>1, <1>2, <1>3, <1>4, FS_Subset

LEMMA OnDemandImplements ==
  ASSUME DInv, ~Pooled, OnDemandStep(D!Next)
  PROVE  [Pool!Next]_Pool!vars
<1>1. /\ ~Pooled' /\ UNCHANGED pc /\ D!Next
      /\ D!Jobs = 0..(NumUrls - 1) /\ threadPc \in [D!Jobs -> DLabels] /\ nextJobID \in 0..NumUrls
  BY DEF OnDemandStep, vars, Pooled, D!Jobs, DInv, DTypeOK
<1> USE DEF Pool!vars
<1>2. ASSUME UNCHANGED threadPc
      PROVE  UNCHANGED <<D!Running, D!Done>>
  BY <1>2 DEF D!Running, D!Done, D!In
<1>3. CASE D!ReadUrl
  <2>1. UNCHANGED <<D!Running, D!Done>> /\ mainPc = "read" /\ mainPc' \in {"create", "poll"}
    BY <1>2, <1>3 DEF D!ReadUrl
  <2>2. ("exited" \in {pc[Main], mainPc})' = ("exited" \in {pc[Main], mainPc})
    BY <1>1, <2>1
  <2>3. \/ nextJobID < NumUrls /\ nextJobID' = nextJobID + 1
        \/ UNCHANGED nextJobID
    BY <1>3 DEF D!ReadUrl
  <2>4. Pool!Submit \/ UNCHANGED Pool!vars
    BY <1>1, <2>1, <2>2, <2>3 DEF Pool!Submit
  <2> QED
    BY <2>4 DEF Pool!Next
<1>4. CASE D!CreateThread
  <2> DEFINE j == nextJobID - 1
  <2>1. /\ mainPc = "create" /\ mainPc' = "read" /\ threadPc[j] = "out"
        /\ threadPc' = [threadPc EXCEPT ![j] = "begin"] /\ UNCHANGED nextJobID
    BY <1>4 DEF D!CreateThread, D!Move
  <2>2. j \in 0..(NumUrls - 1)
    BY <1>1, <2>1 DEF DInv, InOrder
  <2>3. \A i \in D!Jobs : threadPc[i] = "out" <=> i >= j
    BY <1>1, <2>1, <2>2 DEF DInv, InOrder
  <2> HIDE DEF j
  <2>4. /\ j \notin D!Running \cup D!Done /\ D!Running' = D!Running \cup {j} /\ D!Done' = D!Done
        /\ \A i \in 0..(j - 1) : i \in D!Running \cup D!Done
    BY <1>1, <2>1, <2>2, <2>3 DEF D!Running, D!Done, D!In
  <2>5. ("exited" \in {pc[Main], mainPc})' = ("exited" \in {pc[Main], mainPc})
    BY <1>1, <2>1
  <2>6. j < nextJobID
    BY <1>1 DEF j
  <2>7. Pool!Take(j)
    BY <1>1, <2>1, <2>4, <2>5, <2>6 DEF Pool!Take
  <2> QED
    BY <2>2, <2>7 DEF Pool!Next
<1>5. CASE D!CreateFails \/ D!PollLock
  <2>1. UNCHANGED <<nextJobID, D!Running, D!Done>>
    BY <1>2, <1>5 DEF D!CreateFails, D!PollLock
  <2>2. ("exited" \in {pc[Main], mainPc})' = ("exited" \in {pc[Main], mainPc})
    BY <1>1, <1>5 DEF D!CreateFails, D!PollLock
  <2> QED
    BY <1>1, <2>1, <2>2
<1>6. CASE D!Check
  <2>1. UNCHANGED <<nextJobID, D!Running, D!Done>> /\ mainPc = "check"
    BY <1>2, <1>6 DEF D!Check
  <2>2. CASE totalNumOfJobsDone = nextJobID
    <3>1. nextJobID = NumUrls /\ D!Done = 0..(NumUrls - 1)
      BY <2>1, <2>2, AllEndedAtExit DEF D!Done
    <3>2. ("exited" \in {pc[Main], mainPc})' = TRUE
      BY <1>6, <2>2 DEF D!Check
    <3>3. Pool!Close
      BY <1>1, <2>1, <3>1, <3>2 DEF Pool!Close
    <3> QED
      BY <3>3 DEF Pool!Next
  <2>3. CASE totalNumOfJobsDone # nextJobID
    <3>1. ("exited" \in {pc[Main], mainPc})' = ("exited" \in {pc[Main], mainPc})
      BY <1>1, <1>6, <2>3 DEF D!Check
    <3> QED
      BY <1>1, <2>1, <3>1
  <2> QED
    BY <2>2, <2>3
<1>7. ASSUME NEW j \in D!Jobs, D!processJobsOnDemandThread(j)
      PROVE  [Pool!Next]_Pool!vars
  <2>1. UNCHANGED <<nextJobID, mainPc>>
    BY <1>7 DEF D!processJobsOnDemandThread, D!Lock, D!Load, D!CountIn, D!Wget, D!CountOut
  <2>2. ("exited" \in {pc[Main], mainPc})' = ("exited" \in {pc[Main], mainPc})
    BY <1>1, <2>1
  <2>3. CASE D!CountOut(j)
    <3>1. threadPc[j] = "countOut" /\ threadPc' = [threadPc EXCEPT ![j] = "ended"]
      BY <2>3 DEF D!CountOut, D!Move
    <3>2. j \in D!Running /\ D!Running' = D!Running \ {j} /\ D!Done' = D!Done \cup {j}
      BY <1>1, <3>1 DEF D!Running, D!Done, D!In
    <3>3. Pool!Finish(j)
      BY <1>1, <2>1, <2>2, <3>2 DEF Pool!Finish
    <3> QED
      BY <1>1, <3>3 DEF Pool!Next
  <2>4. CASE D!Lock(j) \/ D!Load(j) \/ D!CountIn(j) \/ D!Wget(j)
    <3>1. PICK from \in DLabels \ {"out", "ended"}, to \in DLabels \ {"out", "ended"} :
            threadPc[j] = from /\ threadPc' = [threadPc EXCEPT ![j] = to]
      BY <2>4 DEF D!Lock, D!Load, D!CountIn, D!Wget, D!Move, DLabels
    <3>2. UNCHANGED <<D!Running, D!Done>>
      BY <1>1, <3>1 DEF D!Running, D!Done, D!In
    <3> QED
      BY <1>1, <2>1, <2>2, <3>2
  <2> QED
    BY <1>7, <2>3, <2>4 DEF D!processJobsOnDemandThread
<1>8. CASE UNCHANGED D!vars
  <2>1. UNCHANGED <<nextJobID, mainPc, D!Running, D!Done>>
    BY <1>2, <1>8 DEF D!vars
  <2> QED
    BY <1>1, <2>1
<1> QED
  BY <1>1, <1>3, <1>4, <1>5, <1>6, <1>7, <1>8 DEF D!Next, D!main

\* Either ConcurrentWget program implements the pool: the URLs are taken once
\* and in the order of the input, each is done once, and main exits only after
\* the last one is done, whatever the workers, the ring and the URLs.
THEOREM PoolRefinement == FairSpec => ImplementsPool
<1>1. EitherInit => Pool!Init
  <2> SUFFICES ASSUME EitherInit
               PROVE  Pool!Init
    OBVIOUS
  <2>1. Running = {} /\ Done = {} /\ inCount = 0 /\ pc[Main] = "create"
    <3>1. pc[Main] = "create" /\ inCount = 0 /\ outCount = 0 /\ \A w \in Workers : pc[w] = "out"
      BY DEF EitherInit, Init, Threads
    <3>2. BusyWorkers = {}
      BY <3>1 DEF BusyWorkers, Busy, Owned, Announced
    <3>3. Running = {}
      BY <3>2, RunningOfBusy
    <3> QED
      BY <3>1, <3>3 DEF Done
  <2>2. D!Running = {} /\ D!Done = {} /\ nextJobID = 0 /\ mainPc = "read"
    BY DEF EitherInit, D!Init, D!Running, D!Done, D!In
  <2> QED
    BY <2>1, <2>2 DEF Pool!Init
<1>2. IInv /\ DInv /\ [EitherNext]_allVars => [Pool!Next]_Pool!vars
  <2> SUFFICES ASSUME IInv, DInv, [EitherNext]_allVars
               PROVE  [Pool!Next]_Pool!vars
    OBVIOUS
  <2>1. CASE PooledStep(Next)
    BY <2>1, PoolImplements DEF PooledStep, Pooled
  <2>2. CASE OnDemandStep(D!Next)
    <3>1. ~Pooled
      BY <2>2 DEF OnDemandStep, Pooled
    <3> QED
      BY <2>2, <3>1, OnDemandImplements
  <2>3. CASE UNCHANGED allVars
    BY <2>3 DEF allVars, vars, onDemandVars, queueVars, workerVars, Pool!vars, Pooled, Running, Done,
                In, D!Running, D!Done, D!In
  <2> QED
    BY <2>1, <2>2, <2>3 DEF EitherNext
<1> QED
  BY <1>1, <1>2, Invariant, PTL DEF FairSpec, ImplementsPool, Pool!Spec
=============================================================================
