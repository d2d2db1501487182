---------------------------- MODULE BufferProofs ----------------------------
(***************************************************************************)
(* Theorems about BufferPrograms.tla, that is about BufferSemaphore.tla and, *)
(* as the instance Mutex with the same constants and variables, about       *)
(* BufferMutex.tla, for any number of threads, any capacity and any number  *)
(* of cokes.                                                               *)
(***************************************************************************)
EXTENDS BufferPrograms, FiniteSetTheorems, TLAPS

USE BufferAssumption DEF Threads

\* main never touches what belongs to the threads.
LEMMA MainSteps ==
  ASSUME MainTypeOK, Main \/ UNCHANGED baseVars
  PROVE  MainTypeOK' /\ UNCHANGED <<pc, iter, reg, bufSize, mutex>>
<1> USE DEF MainTypeOK
<1>1. CASE CreateThread
  BY <1>1 DEF CreateThread
<1>2. CASE CreateFails
  BY <1>2 DEF CreateFails
<1>3. CASE JoinAndExit
  BY <1>3 DEF JoinAndExit
<1>4. CASE UNCHANGED baseVars
  BY <1>4 DEF baseVars, mainVars
<1> QED
  BY <1>1, <1>2, <1>3, <1>4 DEF Main

\* A thread that passes its store adds one to its own count.
LEMMA CountGrows ==
  ASSUME NEW CONSTANT past, NEW CONSTANT l \in past,
         NEW CONSTANT t \in Threads, NEW CONSTANT Labs,
         iter \in [Threads -> Nat], pc \in [Threads -> Labs], pc[t] \notin past,
         Goto(t, l), UNCHANGED iter
  PROVE  Count(past)' = [Count(past) EXCEPT ![t] = @ + 1]
<1> DEFINE count == Count(past)
<1>1. \A u \in Threads : pc'[u] = IF u = t THEN l ELSE pc[u]
  BY DEF Goto
<1>2. \A u \in Threads : count'[u] = IF u = t THEN count[u] + 1 ELSE count[u]
  BY <1>1 DEF Count
<1>3. /\ count = [u \in Threads |-> count[u]]
      /\ count' = [u \in Threads |-> count'[u]]
  BY DEF Count
<1> HIDE DEF count
<1>4. count' = [count EXCEPT ![t] = @ + 1]
  BY <1>2, <1>3
<1> QED
  BY <1>4 DEF count

\* A step that moves one thread to a label changes the number of threads of a
\* side that are at some labels by at most one, and in the evident direction.
LEMMA InMoves ==
  ASSUME NEW CONSTANT S \in {Producers, Consumers}, NEW CONSTANT L,
         NEW CONSTANT t \in Threads, NEW CONSTANT l,
         pc \in [Threads -> Labels], Goto(t, l)
  PROVE  /\ In(S, L) \in Nat
         /\ In(S, L)' = In(S, L) + (IF t \in S /\ pc[t] \notin L /\ l \in L THEN 1
                                    ELSE IF t \in S /\ pc[t] \in L /\ l \notin L THEN -1
                                    ELSE 0)
<1> DEFINE T == {u \in S : pc[u] \in L}
           U == {u \in S : pc'[u] \in L}
<1>1. IsFiniteSet(S) /\ S \subseteq Threads
  OBVIOUS
<1>2. IsFiniteSet(T) /\ Cardinality(T) \in Nat
  BY <1>1, FS_Subset, FS_CardinalityType
<1>3. \A u \in Threads : pc'[u] = IF u = t THEN l ELSE pc[u]
  BY DEF Goto
<1>4. t \in T <=> t \in S /\ pc[t] \in L
  OBVIOUS
<1>5. U = IF t \in S /\ l \in L THEN T \cup {t}
          ELSE IF t \in S THEN T \ {t} ELSE T
  BY <1>1, <1>3
<1>6. In(S, L) = Cardinality(T) /\ In(S, L)' = Cardinality(U)
  BY DEF In
<1> HIDE DEF T, U
<1>7. /\ Cardinality(T \cup {t}) = IF t \in T THEN Cardinality(T) ELSE Cardinality(T) + 1
      /\ Cardinality(T \ {t}) = IF t \in T THEN Cardinality(T) - 1 ELSE Cardinality(T)
  BY <1>2, FS_AddElement, FS_RemoveElement
<1> QED
  BY <1>2, <1>4, <1>5, <1>6, <1>7

\* The same for the two counts of the invariant.
LEMMA CountsMove ==
  ASSUME NEW CONSTANT S \in {Producers, Consumers},
         NEW CONSTANT t \in Threads, NEW CONSTANT l \in Labels,
         pc \in [Threads -> Labels], Goto(t, l)
  PROVE  LET C == {"lock", "load", "store"}
             A == {"stored", "post"}
             D(L) == IF t \in S /\ pc[t] \notin L /\ l \in L THEN 1
                     ELSE IF t \in S /\ pc[t] \in L /\ l \notin L THEN -1
                     ELSE 0
         IN  /\ Claiming(S) \in Nat /\ Claiming(S)' = Claiming(S) + D(C)
             /\ Announcing(S) \in Nat /\ Announcing(S)' = Announcing(S) + D(A)
BY InMoves DEF Claiming, Announcing

-----------------------------------------------------------------------------
LEMMA InitInvariant == Init => IInv
<1> SUFFICES ASSUME Init PROVE IInv
  OBVIOUS
<1> USE DEF Init, InitMain
<1>1. TypeOK
  BY DEF TypeOK, MainTypeOK, Labels
<1>2. NoLostUpdate
  BY DEF NoLostUpdate, Holding
<1>3. \A S \in {Producers, Consumers} : Claiming(S) = 0 /\ Announcing(S) = 0
  <2>1. \A S \in {Producers, Consumers} :
          /\ {t \in S : pc[t] \in {"lock", "load", "store"}} = {}
          /\ {t \in S : pc[t] \in {"stored", "post"}} = {}
    OBVIOUS
  <2> QED
    BY <2>1, FS_EmptySet DEF Claiming, Announcing, In
<1>4. SlotAccounting
  BY <1>3 DEF SlotAccounting
<1> QED
  BY <1>1, <1>2, <1>4 DEF IInv

\* Main, and a stuttering step, touch nothing the invariant counts.
LEMMA MainInvariant ==
  ASSUME IInv, MainStep \/ UNCHANGED vars
  PROVE  IInv'
<1>1. MainTypeOK' /\ UNCHANGED <<pc, iter, reg, bufSize, mutex>>
  BY MainSteps DEF MainStep, vars, IInv, TypeOK
<1>2. UNCHANGED <<fullSlots, emptySlots>>
  BY DEF MainStep, vars
<1> QED
  BY <1>1, <1>2 DEF IInv, TypeOK, NoLostUpdate, Holding, SlotAccounting,
                    Claiming, Announcing, In

\* One step of one thread.
LEMMA StepInvariant ==
  ASSUME IInv, NEW t \in Threads, Step(t)
  PROVE  IInv'
<1> USE DEF IInv
<1>0. \A l \in {"loop", "lock", "load", "store", "stored", "post"} : l \in Labels
  BY DEF Labels
<1>1. CASE SemWait(t)
  <2> USE <1>1 DEF SemWait, At, mainVars
  <2>1. TypeOK'
    BY DEF TypeOK, MainTypeOK, Labels, Goto
  <2>2. NoLostUpdate'
    BY DEF NoLostUpdate, Holding, TypeOK, MainTypeOK, Goto
  <2>3. \A S \in {Producers, Consumers} :
          /\ Claiming(S) \in Nat /\ Claiming(S)' = Claiming(S) + IF t \in S THEN 1 ELSE 0
          /\ Announcing(S) \in Nat /\ Announcing(S)' = Announcing(S)
    BY CountsMove, <1>0 DEF TypeOK
  <2>4. SlotAccounting'
    BY <2>3 DEF SlotAccounting, TypeOK, MainTypeOK, NoLostUpdate
  <2> QED
    BY <2>1, <2>2, <2>4
<1>2. CASE Lock(t, "lock", "load") /\ UNCHANGED <<fullSlots, emptySlots>>
  <2> USE <1>2 DEF Lock, At, mainVars
  <2>1. TypeOK'
    BY DEF TypeOK, MainTypeOK, Labels, Goto
  <2>2. NoLostUpdate'
    BY DEF NoLostUpdate, Holding, TypeOK, MainTypeOK, Goto
  <2>3. \A S \in {Producers, Consumers} :
          /\ Claiming(S) \in Nat /\ Claiming(S)' = Claiming(S)
          /\ Announcing(S) \in Nat /\ Announcing(S)' = Announcing(S)
    BY CountsMove, <1>0 DEF TypeOK
  <2>4. SlotAccounting'
    BY <2>3 DEF SlotAccounting, TypeOK, MainTypeOK, NoLostUpdate
  <2> QED
    BY <2>1, <2>2, <2>4
<1>3. CASE Load(t, "load") /\ UNCHANGED <<fullSlots, emptySlots>>
  <2> USE <1>3 DEF Load, At, mainVars
  <2>1. TypeOK'
    BY DEF TypeOK, MainTypeOK, Labels, Goto
  <2>2. NoLostUpdate'
    BY DEF NoLostUpdate, Holding, TypeOK, MainTypeOK, Goto
  <2>3. \A S \in {Producers, Consumers} :
          /\ Claiming(S) \in Nat /\ Claiming(S)' = Claiming(S)
          /\ Announcing(S) \in Nat /\ Announcing(S)' = Announcing(S)
    BY CountsMove, <1>0 DEF TypeOK
  <2>4. SlotAccounting'
    BY <2>3 DEF SlotAccounting, TypeOK, MainTypeOK, NoLostUpdate
  <2> QED
    BY <2>1, <2>2, <2>4
<1>4. CASE Store(t) /\ UNCHANGED <<fullSlots, emptySlots>>
  <2> USE <1>4 DEF Store, Delta, At, mainVars
  <2>1. TypeOK'
    BY DEF TypeOK, MainTypeOK, Labels, Goto
  <2>2. NoLostUpdate'
    BY DEF NoLostUpdate, Holding, TypeOK, MainTypeOK, Goto
  <2>3. \A S \in {Producers, Consumers} :
          /\ Claiming(S) \in Nat /\ Claiming(S)' = Claiming(S) - IF t \in S THEN 1 ELSE 0
          /\ Announcing(S) \in Nat /\ Announcing(S)' = Announcing(S) + IF t \in S THEN 1 ELSE 0
    BY CountsMove, <1>0 DEF TypeOK
  <2>4. SlotAccounting'
    BY <2>3 DEF SlotAccounting, TypeOK, MainTypeOK, NoLostUpdate
  <2> QED
    BY <2>1, <2>2, <2>4
<1>5. CASE Unlock(t)
  <2> USE <1>5 DEF Unlock, At, mainVars
  <2>1. TypeOK'
    BY DEF TypeOK, MainTypeOK, Labels, Goto
  <2>2. NoLostUpdate'
    BY DEF NoLostUpdate, Holding, TypeOK, MainTypeOK, Goto
  <2>3. \A S \in {Producers, Consumers} :
          /\ Claiming(S) \in Nat /\ Claiming(S)' = Claiming(S)
          /\ Announcing(S) \in Nat /\ Announcing(S)' = Announcing(S)
    BY CountsMove, <1>0 DEF TypeOK
  <2>4. SlotAccounting'
    BY <2>3 DEF SlotAccounting, TypeOK, MainTypeOK, NoLostUpdate
  <2> QED
    BY <2>1, <2>2, <2>4
<1>6. CASE SemPost(t)
  <2> USE <1>6 DEF SemPost, EndIteration, At, mainVars
  <2>1. TypeOK'
    BY DEF TypeOK, MainTypeOK, Labels, Goto
  <2>2. NoLostUpdate'
    BY DEF NoLostUpdate, Holding, TypeOK, MainTypeOK, Goto
  <2>3. \A S \in {Producers, Consumers} :
          /\ Claiming(S) \in Nat /\ Claiming(S)' = Claiming(S)
          /\ Announcing(S) \in Nat /\ Announcing(S)' = Announcing(S) - IF t \in S THEN 1 ELSE 0
    BY CountsMove, <1>0 DEF TypeOK
  <2>4. SlotAccounting'
    BY <2>3 DEF SlotAccounting, TypeOK, MainTypeOK, NoLostUpdate
  <2> QED
    BY <2>1, <2>2, <2>4
<1> QED
  BY <1>1, <1>2, <1>3, <1>4, <1>5, <1>6 DEF Step, Update

-----------------------------------------------------------------------------
LEMMA BoundsFromInvariant == IInv => InBounds
<1>1. \A S \in {Producers, Consumers} : Claiming(S) \in Nat /\ Announcing(S) \in Nat
  <2>1. \A S \in {Producers, Consumers} : \A L : IsFiniteSet({u \in S : pc[u] \in L})
    BY FS_Subset
  <2> QED
    BY <2>1, FS_CardinalityType DEF Claiming, Announcing, In
<1> QED
  BY <1>1 DEF IInv, TypeOK, MainTypeOK, SlotAccounting, InBounds

LEMMA BoundsNext == IInv' => InBounds'
BY BoundsFromInvariant, PTL

\* A step of a thread is a put, a take, or invisible to the bounded buffer.
LEMMA StepRefines ==
  ASSUME IInv, IInv', NEW t \in Threads, Step(t)
  PROVE  [Buffer!Next]_<<bufSize, Count({"stored", "post"})>>
<1> DEFINE count == Count({"stored", "post"})
<1> USE DEF IInv, TypeOK, MainTypeOK
<1>1. CASE Store(t)
  <2>1. InBounds /\ InBounds'
    BY BoundsFromInvariant, BoundsNext
  <2>2. bufSize' = bufSize + Delta(t)
    BY <1>1 DEF Store, At, NoLostUpdate
  <2>3. count' = [count EXCEPT ![t] = @ + 1]
    <3>1. UNCHANGED iter /\ Goto(t, "stored") /\ pc[t] = "store"
      BY <1>1 DEF Store, At
    <3> QED
      BY <3>1, CountGrows
  <2>4. CASE t \in Producers
    <3>1. Buffer!Produce(t)
      BY <2>1, <2>2, <2>3, <2>4 DEF Delta, InBounds, Buffer!Produce, Buffer!Counted
    <3> QED
      BY <2>4, <3>1 DEF Buffer!Next
  <2>5. CASE t \in Consumers
    <3>1. Buffer!Consume(t)
      BY <2>1, <2>2, <2>3, <2>5 DEF Delta, InBounds, Buffer!Consume, Buffer!Counted
    <3> QED
      BY <2>5, <3>1 DEF Buffer!Next
  <2> QED
    BY <2>4, <2>5
<1>2. CASE SemWait(t) \/ Lock(t, "lock", "load") \/ Load(t, "load") \/ Unlock(t) \/ SemPost(t)
  <2>1. bufSize' = bufSize
    BY <1>2 DEF SemWait, Lock, Load, Unlock, SemPost
  <2>2. count' = count
    BY <1>2 DEF SemWait, Lock, Load, Unlock, SemPost, EndIteration, At, Goto, Count, Labels
  <2> QED
    BY <2>1, <2>2
<1> QED
  BY <1>1, <1>2 DEF Step, Update

LEMMA SemaphoreRefines ==
  ASSUME IInv, IInv', [Next]_vars
  PROVE  [Buffer!Next]_<<bufSize, Count({"stored", "post"})>>
<1>1. CASE MainStep \/ UNCHANGED vars
  BY <1>1 DEF MainStep, Main, CreateThread, CreateFails, JoinAndExit, vars, baseVars, Count
<1>2. ASSUME NEW t \in Threads, Step(t)
      PROVE  [Buffer!Next]_<<bufSize, Count({"stored", "post"})>>
  BY <1>2, StepRefines
<1> QED
  BY <1>1, <1>2 DEF Next, Producer, Consumer

-----------------------------------------------------------------------------
(* What has been made and taken *)

\* An element for each coke that a thread of S has made, or taken.
Done(S) == {x \in S \X Nat : x[2] \in 1..Count({"stored", "post"})[x[1]]}

QuotasKept == \A t \in Threads : /\ iter[t] <= Quota(t)
                                 /\ pc[t] # "loop" => iter[t] < Quota(t)

Balanced == bufSize = Cardinality(Done(Producers)) - Cardinality(Done(Consumers))

AtExit == mainPc = "exited" => printed = bufSize /\ \A t \in Threads : Finished(t)

Bookkeeping == QuotasKept /\ Balanced /\ AtExit

Share(S) == CokeNum \div Cardinality(S)

LEMMA QuotaType ==
  ASSUME NEW S \in {Producers, Consumers}
  PROVE  Share(S) \in Nat /\ Cardinality(S) \in Nat /\ \A t \in S : Quota(t) = Share(S)
<1>1. IsFiniteSet(S) /\ S # {}
  OBVIOUS
<1>2. Cardinality(S) \in Nat /\ Cardinality(S) # 0
  BY <1>1, FS_CardinalityType, FS_EmptySet
<1> DEFINE k == Cardinality(S)
<1>3. CokeNum \div k \in Nat
  <2>1. k \in Nat /\ k > 0 /\ CokeNum \in Nat
    BY <1>2
  <2> HIDE DEF k
  <2> QED
    BY <2>1
<1>4. \A t \in S : Quota(t) = Share(S)
  BY DEF Quota, Share
<1> QED
  BY <1>2, <1>3, <1>4 DEF Share

\* Nobody makes or takes more than its share.
LEMMA DoneFinite ==
  ASSUME MainTypeOK, QuotasKept, NEW S \in {Producers, Consumers}
  PROVE  /\ Done(S) \subseteq S \X (1..Share(S))
         /\ IsFiniteSet(Done(S)) /\ Cardinality(Done(S)) \in Nat
<1> DEFINE count == Count({"stored", "post"})
<1>1. \A t \in S : Quota(t) = Share(S) /\ Share(S) \in Nat
  BY QuotaType
<1>2. \A t \in S : count[t] \in Nat /\ count[t] <= Share(S)
  BY <1>1 DEF Count, QuotasKept, MainTypeOK
<1>3. Done(S) \subseteq S \X (1..Share(S))
  <2> HIDE DEF count
  <2>1. \A x \in Done(S) : x \in S \X Nat /\ x[2] \in 1..count[x[1]]
    BY DEF Done, count
  <2>2. \A x \in Done(S) : x[1] \in S /\ x[2] \in 1..Share(S) /\ x = <<x[1], x[2]>>
    BY <1>1, <1>2, <2>1
  <2> QED
    BY <2>2
<1>4. IsFiniteSet(S \X (1..Share(S)))
  <2>1. Share(S) \in Nat
    BY QuotaType
  <2>2. IsFiniteSet(S) /\ IsFiniteSet(1..Share(S))
    BY <2>1, FS_Interval
  <2> QED
    BY <2>2, FS_Product
<1> QED
  BY <1>3, <1>4, FS_Subset, FS_CardinalityType

LEMMA MainKeepsBooks ==
  ASSUME Bookkeeping, Main \/ UNCHANGED baseVars
  PROVE  Bookkeeping'
<1>1. UNCHANGED <<pc, iter, bufSize>>
  BY DEF Main, CreateThread, CreateFails, JoinAndExit, baseVars
<1>2. QuotasKept'
  BY <1>1 DEF Bookkeeping, QuotasKept, Quota
<1>3. Balanced'
  BY <1>1 DEF Bookkeeping, Balanced, Done, Count
<1>4. AtExit'
  BY DEF Bookkeeping, AtExit, Finished, Quota, Main, CreateThread, CreateFails, JoinAndExit,
         baseVars, mainVars
<1> QED
  BY <1>2, <1>3, <1>4 DEF Bookkeeping

LEMMA StoreBalances ==
  ASSUME MainTypeOK, pc \in [Threads -> Labels], QuotasKept, Balanced, NEW t \in Threads,
         pc[t] = "store", Goto(t, "stored"), UNCHANGED iter, bufSize' = bufSize + Delta(t)
  PROVE  Balanced'
<1> DEFINE count == Count({"stored", "post"})
<1>1. bufSize' = bufSize + Delta(t) /\ bufSize \in Int
  BY DEF MainTypeOK
<1>2. count' = [count EXCEPT ![t] = @ + 1]
  BY CountGrows DEF MainTypeOK
<1>3. \A u \in Threads : count[u] \in Nat
  BY DEF Count, MainTypeOK
<1>4. count'[t] = count[t] + 1 /\ \A u \in Threads \ {t} : count'[u] = count[u]
  BY <1>2 DEF Count
<1> HIDE DEF count
<1>5. ASSUME NEW S \in {Producers, Consumers}
      PROVE  /\ t \in S => Cardinality(Done(S)') = Cardinality(Done(S)) + 1
             /\ t \notin S => Done(S)' = Done(S)
             /\ Cardinality(Done(S)) \in Nat
  <2>1. /\ Done(S) = {x \in S \X Nat : x[2] \in 1..count[x[1]]}
        /\ Done(S)' = {x \in S \X Nat : x[2] \in 1..count'[x[1]]}
    BY DEF Done, count
  <2>2. IsFiniteSet(Done(S)) /\ Cardinality(Done(S)) \in Nat
    BY DoneFinite
  <2>3. ASSUME t \notin S
        PROVE  Done(S)' = Done(S)
    <3>1. \A u \in S : count'[u] = count[u]
      BY <1>4, <2>3
    <3> QED
      BY <2>1, <3>1
  <2>4. ASSUME t \in S
        PROVE  Cardinality(Done(S)') = Cardinality(Done(S)) + 1
    <3> DEFINE new == <<t, count[t] + 1>>
    <3>1. new \notin Done(S)
      BY <1>3, <2>1
    <3>2. Done(S)' = Done(S) \cup {new}
      <4>1. ASSUME NEW u \in S, NEW n \in Nat
            PROVE  n \in 1..count'[u] <=> n \in 1..count[u] \/ <<u, n>> = new
        <5>1. CASE u = t
          BY <1>3, <1>4, <4>1, <5>1
        <5>2. CASE u # t
          BY <1>4, <4>1, <5>2
        <5> QED
          BY <5>1, <5>2
      <4>2. new \in S \X Nat
        BY <1>3, <2>4
      <4>3. \A x \in S \X Nat : x \in Done(S)' <=> x \in Done(S) \cup {new}
        <5>1. ASSUME NEW x \in S \X Nat
              PROVE  x \in Done(S)' <=> x \in Done(S) \cup {new}
          <6>1. x[1] \in S /\ x[2] \in Nat /\ x = <<x[1], x[2]>>
            BY <5>1
          <6>2. x[2] \in 1..count'[x[1]] <=> x[2] \in 1..count[x[1]] \/ x = new
            BY <4>1, <6>1
          <6> QED
            BY <2>1, <6>2
        <5> QED
          BY <5>1
      <4>4. Done(S) \subseteq S \X Nat /\ Done(S)' \subseteq S \X Nat
        BY <2>1
      <4> HIDE DEF new
      <4> QED
        BY <4>2, <4>3, <4>4
    <3> HIDE DEF new
    <3> QED
      BY <2>2, <3>1, <3>2, FS_AddElement
  <2> QED
    BY <2>2, <2>3, <2>4
<1>6. bufSize = Cardinality(Done(Producers)) - Cardinality(Done(Consumers))
  BY DEF Balanced
<1>7. CASE t \in Producers
  <2>1. t \notin Consumers /\ Delta(t) = 1
    BY <1>7 DEF Delta
  <2> QED
    BY <1>1, <1>5, <1>6, <1>7, <2>1 DEF Balanced
<1>8. CASE t \in Consumers
  <2>1. t \notin Producers /\ Delta(t) = -1
    BY <1>8 DEF Delta
  <2> QED
    BY <1>1, <1>5, <1>6, <1>8, <2>1 DEF Balanced
<1> QED
  BY <1>7, <1>8

\* A thread goes on to its next iteration, and to one only that is its share.
LEMMA NextIteration ==
  ASSUME MainTypeOK, pc \in [Threads -> Labels], QuotasKept, NEW t \in Threads,
         pc[t] # "loop", EndIteration(t)
  PROVE  QuotasKept'
<1>1. /\ iter'[t] = iter[t] + 1 /\ pc'[t] = "loop"
      /\ \A u \in Threads \ {t} : pc'[u] = pc[u] /\ iter'[u] = iter[u]
  BY DEF EndIteration, Goto, MainTypeOK
<1>2. Quota(t) \in Nat /\ iter[t] \in Nat /\ iter[t] < Quota(t)
  BY QuotaType DEF QuotasKept, MainTypeOK
<1>3. iter'[t] <= Quota(t)
  BY <1>1, <1>2
<1> QED
  BY <1>1, <1>3 DEF QuotasKept, Quota

LEMMA StepKeepsBooks ==
  ASSUME IInv, Bookkeeping, NEW t \in Threads, Step(t)
  PROVE  Bookkeeping'
<1> DEFINE count == Count({"stored", "post"})
<1>0. /\ MainTypeOK /\ pc \in [Threads -> Labels] /\ NoLostUpdate
      /\ QuotasKept /\ Balanced /\ AtExit
  BY DEF IInv, TypeOK, Bookkeeping
<1>1. AtExit'
  <2>1. mainPc # "exited" /\ mainPc' = mainPc
    BY DEF Step, SemWait, Update, Lock, Load, Store, Unlock, SemPost, At, mainVars
  <2> QED
    BY <2>1 DEF AtExit
<1>2. QuotasKept'
  <2>1. CASE SemWait(t)
    BY <1>0, <2>1 DEF SemWait, At, Goto, QuotasKept, Quota
  <2>2. CASE Update(t) \/ Unlock(t)
    <3>1. iter' = iter /\ pc[t] # "loop" /\ \A u \in Threads \ {t} : pc'[u] = pc[u]
      BY <1>0, <2>2 DEF Update, Lock, Load, Store, Unlock, At, Goto
    <3> QED
      BY <1>0, <3>1 DEF QuotasKept, Quota
  <2>3. CASE SemPost(t)
    BY <1>0, <2>3, NextIteration DEF SemPost, At
  <2> QED
    BY <2>1, <2>2, <2>3 DEF Step
<1>3. Balanced'
  <2>1. CASE Store(t)
    <3>1. bufSize' = bufSize + Delta(t) /\ UNCHANGED iter /\ Goto(t, "stored") /\ pc[t] = "store"
      BY <1>0, <2>1 DEF Store, At, NoLostUpdate
    <3> QED
      BY <1>0, <3>1, StoreBalances
  <2>2. CASE SemWait(t) \/ Lock(t, "lock", "load") \/ Load(t, "load") \/ Unlock(t) \/ SemPost(t)
    <3>1. bufSize' = bufSize
      BY <2>2 DEF SemWait, Lock, Load, Unlock, SemPost
    <3>2. count' = count
      BY <1>0, <2>2 DEF SemWait, Lock, Load, Unlock, SemPost, EndIteration, At, Goto, Count, Labels,
                        MainTypeOK
    <3>3. Done(Producers)' = Done(Producers) /\ Done(Consumers)' = Done(Consumers)
      BY <3>2 DEF Done
    <3> QED
      BY <1>0, <3>1, <3>3 DEF Balanced
  <2> QED
    BY <2>1, <2>2 DEF Step, Update
<1> QED
  BY <1>1, <1>2, <1>3 DEF Bookkeeping

LEMMA BooksStart == InitMain => Bookkeeping
<1> SUFFICES ASSUME InitMain PROVE Bookkeeping
  OBVIOUS
<1>1. QuotasKept
  <2>1. \A t \in Threads : Quota(t) \in Nat
    BY QuotaType
  <2> QED
    BY <2>1 DEF InitMain, QuotasKept
<1>2. \A S \in {Producers, Consumers} : Done(S) = {}
  <2>1. \A t \in Threads : Count({"stored", "post"})[t] = 0
    BY DEF InitMain, Count
  <2> QED
    BY <2>1 DEF Done
<1>3. Balanced /\ AtExit
  BY <1>2, FS_EmptySet DEF InitMain, Balanced, AtExit
<1> QED
  BY <1>1, <1>3 DEF Bookkeeping

LEMMA BooksBalance == Bookkeeping => AfterRunBalance
<1> SUFFICES ASSUME Bookkeeping, mainPc = "exited"
             PROVE  printed = Cardinality(Producers) * Share(Producers)
                              - Cardinality(Consumers) * Share(Consumers)
  BY DEF AfterRunBalance, Share
<1>1. printed = Cardinality(Done(Producers)) - Cardinality(Done(Consumers))
  BY DEF Bookkeeping, AtExit, Balanced
<1>2. ASSUME NEW S \in {Producers, Consumers}
      PROVE  Cardinality(Done(S)) = Cardinality(S) * Share(S)
  <2>1. Share(S) \in Nat /\ \A t \in S : Quota(t) = Share(S)
    BY QuotaType
  <2>2. \A t \in S : Count({"stored", "post"})[t] = Share(S)
    <3>1. \A t \in S : t \in Threads /\ pc[t] = "loop" /\ iter[t] = Share(S)
      BY <2>1 DEF Bookkeeping, AtExit, Finished
    <3> QED
      BY <2>1, <3>1 DEF Count
  <2>3. Done(S) = S \X (1..Share(S))
    BY <2>1, <2>2 DEF Done
  <2>4. IsFiniteSet(S) /\ IsFiniteSet(1..Share(S)) /\ Cardinality(1..Share(S)) = Share(S)
    BY <2>1, FS_Interval
  <2> QED
    BY <2>3, <2>4, FS_Product
<1> QED
  BY <1>1, <1>2

-----------------------------------------------------------------------------
(* BufferMutex *)

USE DEF Mutex!Threads

\* What is an instance of BufferMain is what BufferMain says.
LEMMA MutexQuota == \A t : Mutex!Quota(t) = Quota(t)
<1>1. \A S : Mutex!Cardinality(S) = Cardinality(S)
  BY DEF Mutex!Cardinality, Cardinality
<1> QED
  BY <1>1 DEF Mutex!Quota, Quota

LEMMA MutexMainIsMain ==
  ASSUME Mutex!Main \/ UNCHANGED Mutex!vars
  PROVE  Main \/ UNCHANGED baseVars
<1>1. \A t : Mutex!Finished(t) = Finished(t)
  BY MutexQuota DEF Mutex!Finished, Finished
<1> QED
  BY <1>1 DEF Mutex!Main, Mutex!CreateThread, Mutex!CreateFails, Mutex!JoinAndExit,
              Mutex!vars, Mutex!baseVars, Mutex!mainVars,
              Main, CreateThread, CreateFails, JoinAndExit, baseVars, mainVars

LEMMA MutexTypes == Mutex!IInv => MainTypeOK /\ pc \in [Threads -> Labels]
BY DEF Mutex!IInv, Mutex!TypeOK, Mutex!MainTypeOK, MainTypeOK, Mutex!Labels, Labels

LEMMA MutexInit == Mutex!Init => Mutex!IInv /\ InitMain
BY DEF Mutex!Init, Mutex!InitMain, InitMain, Mutex!IInv, Mutex!TypeOK, Mutex!MainTypeOK,
       Mutex!Labels, Mutex!CheckStillHolds, Mutex!Holding

LEMMA MutexMain ==
  ASSUME Mutex!IInv, Mutex!Main \/ UNCHANGED Mutex!vars
  PROVE  Mutex!IInv'
<1>1. MainTypeOK' /\ UNCHANGED <<pc, iter, reg, bufSize, mutex>>
  BY MainSteps, MutexMainIsMain, MutexTypes
<1> QED
  BY <1>1 DEF Mutex!IInv, Mutex!TypeOK, Mutex!MainTypeOK, MainTypeOK, Mutex!CheckStillHolds,
              Mutex!Holding, Mutex!Blocked

\* Only the owner of the mutex touches bufSize: a step moves one thread, and what
\* the others have seen stays true.
LEMMA MutexStepInvariant ==
  ASSUME Mutex!IInv, NEW t \in Threads, Mutex!Step(t)
  PROVE  Mutex!IInv'
<1> USE DEF Mutex!IInv, Mutex!TypeOK, Mutex!MainTypeOK, Mutex!CheckStillHolds, Mutex!At,
            Mutex!Goto, Mutex!mainVars
<1>1. CASE Mutex!TryLock(t)
  BY <1>1 DEF Mutex!TryLock, Mutex!Lock, Mutex!Labels, Mutex!Holding, Mutex!Blocked
<1>2. CASE Mutex!Retry(t)
  BY <1>2 DEF Mutex!Retry, Mutex!Labels, Mutex!Holding, Mutex!Blocked
<1>3. CASE ~Mutex!Blocked(t) /\ Mutex!Load(t, "load")
  BY <1>3 DEF Mutex!Load, Mutex!Labels, Mutex!Holding, Mutex!Blocked
<1>4. CASE Mutex!Store(t)
  <2>1. Mutex!TypeOK'
    BY <1>4 DEF Mutex!Store, Mutex!Delta, Mutex!Labels, Mutex!Blocked
  <2>2. Mutex!CheckStillHolds'
    BY <1>4 DEF Mutex!Store, Mutex!Holding
  <2> QED
    BY <2>1, <2>2
<1>5. CASE Mutex!Unlock(t)
  BY <1>5 DEF Mutex!Unlock, Mutex!EndIteration, Mutex!Labels, Mutex!Holding, Mutex!Blocked
<1> QED
  BY <1>1, <1>2, <1>3, <1>4, <1>5 DEF Mutex!Step, Mutex!Update

-----------------------------------------------------------------------------
\* A step of a thread is a put, a take, or invisible to the bounded buffer.
LEMMA MutexStepRefines ==
  ASSUME Mutex!IInv, NEW t \in Threads, Mutex!Step(t)
  PROVE  [Buffer!Next]_<<bufSize, Count({"stored", "post"})>>
<1> DEFINE count == Count({"stored", "post"})
<1> USE DEF Mutex!IInv, Mutex!TypeOK, Mutex!MainTypeOK
<1>1. CASE Mutex!Store(t)
  <2>1. bufSize' = bufSize + Mutex!Delta(t) /\ ~Mutex!Blocked(t)
    BY <1>1 DEF Mutex!Store, Mutex!At, Mutex!CheckStillHolds
  <2>2. count' = [count EXCEPT ![t] = @ + 1]
    <3>1. UNCHANGED iter /\ Goto(t, "stored") /\ pc[t] = "store"
      BY <1>1 DEF Mutex!Store, Mutex!At, Mutex!Goto, Goto
    <3>2. iter \in [Threads -> Nat] /\ pc \in [Threads -> Labels]
      BY MutexTypes
    <3> QED
      BY <3>1, <3>2, CountGrows
  <2>3. CASE t \in Producers
    <3>1. Buffer!Produce(t)
      BY <2>1, <2>2, <2>3 DEF Mutex!Delta, Mutex!Blocked, Buffer!Produce, Buffer!Counted
    <3> QED
      BY <2>3, <3>1 DEF Buffer!Next
  <2>4. CASE t \in Consumers
    <3>1. Buffer!Consume(t)
      BY <2>1, <2>2, <2>4 DEF Mutex!Delta, Mutex!Blocked, Buffer!Consume, Buffer!Counted
    <3> QED
      BY <2>4, <3>1 DEF Buffer!Next
  <2> QED
    BY <2>3, <2>4
<1>2. CASE Mutex!TryLock(t) \/ Mutex!Retry(t) \/ Mutex!Load(t, "load") \/ Mutex!Unlock(t)
  <2>1. bufSize' = bufSize
    BY <1>2 DEF Mutex!TryLock, Mutex!Retry, Mutex!Lock, Mutex!Load, Mutex!Unlock
  <2>2. count' = count
    BY <1>2 DEF Mutex!TryLock, Mutex!Retry, Mutex!Lock, Mutex!Load, Mutex!Unlock,
                Mutex!EndIteration, Mutex!At, Mutex!Goto, Count, Mutex!Labels
  <2> QED
    BY <2>1, <2>2
<1> QED
  BY <1>1, <1>2 DEF Mutex!Step, Mutex!Update

LEMMA MutexRefines ==
  ASSUME Mutex!IInv, [Mutex!Next]_(Mutex!vars)
  PROVE  [Buffer!Next]_<<bufSize, Count({"stored", "post"})>>
<1>1. CASE Mutex!Main \/ UNCHANGED Mutex!vars
  BY <1>1 DEF Mutex!Main, Mutex!CreateThread, Mutex!CreateFails, Mutex!JoinAndExit, Mutex!vars,
              Mutex!baseVars, Count
<1>2. ASSUME NEW t \in Threads, Mutex!Step(t)
      PROVE  [Buffer!Next]_<<bufSize, Count({"stored", "post"})>>
  BY <1>2, MutexStepRefines
<1> QED
  BY <1>1, <1>2 DEF Mutex!Next, Mutex!Producer, Mutex!Consumer

LEMMA MutexStepKeepsBooks ==
  ASSUME Mutex!IInv, Bookkeeping, NEW t \in Threads, Mutex!Step(t)
  PROVE  Bookkeeping'
<1> DEFINE count == Count({"stored", "post"})
<1>0. /\ MainTypeOK /\ pc \in [Threads -> Labels] /\ pc \in [Threads -> Mutex!Labels]
      /\ QuotasKept /\ Balanced /\ AtExit
  BY MutexTypes DEF Bookkeeping, Mutex!IInv, Mutex!TypeOK
<1> USE DEF Mutex!At, Mutex!Goto, Mutex!mainVars
<1>1. AtExit'
  <2>1. mainPc # "exited" /\ mainPc' = mainPc
    BY DEF Mutex!Step, Mutex!TryLock, Mutex!Retry, Mutex!Update, Mutex!Lock, Mutex!Load,
           Mutex!Store, Mutex!Unlock
  <2> QED
    BY <2>1 DEF AtExit
<1>2. QuotasKept'
  <2>1. CASE Mutex!TryLock(t)
    <3>1. iter[t] < Quota(t)
      BY <2>1, MutexQuota DEF Mutex!TryLock
    <3> QED
      BY <1>0, <2>1, <3>1 DEF Mutex!TryLock, Mutex!Lock, QuotasKept, Quota
  <2>2. CASE Mutex!Retry(t) \/ Mutex!Update(t)
    <3>1. iter' = iter /\ pc[t] # "loop" /\ \A u \in Threads \ {t} : pc'[u] = pc[u]
      BY <1>0, <2>2 DEF Mutex!Retry, Mutex!Update, Mutex!Load, Mutex!Store
    <3> QED
      BY <1>0, <3>1 DEF QuotasKept, Quota
  <2>3. CASE Mutex!Unlock(t)
    <3>1. pc[t] # "loop" /\ EndIteration(t)
      BY <2>3 DEF Mutex!Unlock, Mutex!EndIteration, EndIteration, Goto
    <3> QED
      BY <1>0, <3>1, NextIteration
  <2> QED
    BY <2>1, <2>2, <2>3 DEF Mutex!Step
<1>3. Balanced'
  <2>1. CASE Mutex!Store(t)
    <3>1. bufSize' = bufSize + Delta(t) /\ UNCHANGED iter /\ Goto(t, "stored") /\ pc[t] = "store"
      BY <2>1 DEF Mutex!Store, Mutex!IInv, Mutex!CheckStillHolds, Mutex!Delta, Delta, Goto
    <3> QED
      BY <1>0, <3>1, StoreBalances
  <2>2. CASE Mutex!TryLock(t) \/ Mutex!Retry(t) \/ Mutex!Load(t, "load") \/ Mutex!Unlock(t)
    <3>1. bufSize' = bufSize
      BY <2>2 DEF Mutex!TryLock, Mutex!Retry, Mutex!Lock, Mutex!Load, Mutex!Unlock
    <3>2. count' = count
      BY <1>0, <2>2 DEF Mutex!TryLock, Mutex!Retry, Mutex!Lock, Mutex!Load, Mutex!Unlock,
                        Mutex!EndIteration, Count, Mutex!Labels, MainTypeOK
    <3>3. Done(Producers)' = Done(Producers) /\ Done(Consumers)' = Done(Consumers)
      BY <3>2 DEF Done
    <3> QED
      BY <1>0, <3>1, <3>3 DEF Balanced
  <2> QED
    BY <2>1, <2>2 DEF Mutex!Step, Mutex!Update
<1> QED
  BY <1>1, <1>2, <1>3 DEF Bookkeeping

-----------------------------------------------------------------------------
(* Both programs *)

EitherInv == /\ Bookkeeping
             /\ \/ program = "mutex" /\ Mutex!IInv
                \/ program = "semaphore" /\ IInv

LEMMA EitherInvStarts == EitherInit => EitherInv
BY InitInvariant, MutexInit, BooksStart DEF EitherInit, Init, EitherInv

LEMMA EitherInvStays ==
  ASSUME EitherInv, [EitherNext]_allVars
  PROVE  EitherInv'
<1>1. CASE program = "mutex"
  <2>1. Mutex!IInv /\ program' = "mutex" /\ [Mutex!Next]_(Mutex!vars)
    BY <1>1 DEF EitherInv, EitherNext, MutexStep, SemaphoreStep, allVars, vars, baseVars, mainVars,
                Mutex!vars, Mutex!baseVars, Mutex!mainVars
  <2>2. CASE Mutex!Main \/ UNCHANGED Mutex!vars
    BY <2>1, <2>2, MutexMain, MutexMainIsMain, MainKeepsBooks DEF EitherInv
  <2>3. ASSUME NEW t \in Threads, Mutex!Step(t)
        PROVE  EitherInv'
    BY <2>1, <2>3, MutexStepInvariant, MutexStepKeepsBooks DEF EitherInv
  <2> QED
    BY <2>1, <2>2, <2>3 DEF Mutex!Next, Mutex!Producer, Mutex!Consumer
<1>2. CASE program = "semaphore"
  <2>1. IInv /\ program' = "semaphore" /\ [Next]_vars
    BY <1>2 DEF EitherInv, EitherNext, MutexStep, SemaphoreStep, allVars
  <2>2. CASE MainStep \/ UNCHANGED vars
    BY <2>1, <2>2, MainInvariant, MainKeepsBooks DEF EitherInv, MainStep, vars
  <2>3. ASSUME NEW t \in Threads, Step(t)
        PROVE  EitherInv'
    BY <2>1, <2>3, StepInvariant, StepKeepsBooks DEF EitherInv
  <2> QED
    BY <2>1, <2>2, <2>3 DEF Next, Producer, Consumer
<1> QED
  BY <1>1, <1>2 DEF EitherInv

\* Each program keeps its own inductive invariant in every state of every execution,
\* and in both the cokes in the buffer are those made less those taken.
THEOREM Invariant == EitherSpec => []EitherInv
BY EitherInvStarts, EitherInvStays, PTL DEF EitherSpec

\* BoundedBuffer-mutex.c: what a thread has checked still holds when it stores.
THEOREM ChecksStillHold == EitherSpec => []ChecksHold
<1>1. EitherInv => ChecksHold
  BY DEF EitherInv, ChecksHold
<1> QED
  BY <1>1, Invariant, PTL

\* BoundedBuffer-semaphore.c: the two equations between bufSize, the semaphores and
\* the threads in between.
THEOREM Slots == EitherSpec => []SlotsAddUp
<1>1. EitherInv => SlotsAddUp
  BY DEF EitherInv, SlotsAddUp, IInv
<1> QED
  BY <1>1, Invariant, PTL

\* bufSize never leaves 0..BUF_CAPACITY, whatever the number of threads: where the
\* program never tests it, the semaphores alone keep the bounds.
THEOREM Bounds == EitherSpec => []InBounds
<1>1. EitherInv => InBounds
  BY BoundsFromInvariant DEF EitherInv, InBounds, Mutex!IInv, Mutex!TypeOK
<1> QED
  BY <1>1, Invariant, PTL

\* The "After run" line accounts for every coke that was made and every one taken.
THEOREM Balance == EitherSpec => []AfterRunBalance
<1>1. EitherInv => AfterRunBalance
  BY BooksBalance DEF EitherInv
<1> QED
  BY <1>1, Invariant, PTL

\* Both programs implement the abstract bounded buffer.
THEOREM Refinement == EitherSpec => ImplementsBuffer
<1>1. EitherInit => Buffer!Init
  <2>1. EitherInit => InitMain
    BY MutexInit DEF EitherInit, Init
  <2> QED
    BY <2>1 DEF InitMain, Buffer!Init, Count
<1>2. EitherInv /\ EitherInv' /\ [EitherNext]_allVars
        => [Buffer!Next]_<<bufSize, Count({"stored", "post"})>>
  <2> SUFFICES ASSUME EitherInv, EitherInv', [EitherNext]_allVars
               PROVE  [Buffer!Next]_<<bufSize, Count({"stored", "post"})>>
    OBVIOUS
  <2>1. CASE program = "mutex"
    <3>1. Mutex!IInv /\ [Mutex!Next]_(Mutex!vars)
      BY <2>1 DEF EitherInv, EitherNext, MutexStep, SemaphoreStep, allVars, vars, baseVars,
                  mainVars, Mutex!vars, Mutex!baseVars, Mutex!mainVars
    <3> QED
      BY <3>1, MutexRefines
  <2>2. CASE program = "semaphore"
    <3>1. IInv /\ IInv' /\ [Next]_vars
      BY <2>2 DEF EitherInv, EitherNext, MutexStep, SemaphoreStep, allVars
    <3> QED
      BY <3>1, SemaphoreRefines
  <2> QED
    BY <2>1, <2>2 DEF EitherInv
<1> QED
  BY <1>1, <1>2, Invariant, PTL DEF EitherSpec, ImplementsBuffer, Buffer!Spec, Buffer!vars
=============================================================================
