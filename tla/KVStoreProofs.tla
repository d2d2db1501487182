--------------------------- MODULE KVStoreProofs ---------------------------
(***************************************************************************)
(* Theorems about KVStore.tla for any clients, strings and lines typed.    *)
(***************************************************************************)
EXTENDS KVStore, TLAPS

USE KVAssumption

Labels == {"input", "call", "access", "write", "unlock", "encode", "reply", "closed", "dead"}

TypeOK ==
  /\ pc \in [Clients -> Labels]
  /\ inOP \in [Clients -> Operations \cup Strings]
  /\ inKey \in [Clients -> Strings]
  /\ inValue \in [Clients -> Strings]
  /\ data \in [Strings -> Strings \cup {Absent}]
  /\ value \in [Clients -> Strings \cup {Absent}]

\* Only a get that has been answered and whose client has not printed the answer
\* has a value, unless the client died.
ValueOfGet ==
  \A c \in Clients :
    value[c] # Absent => inOP[c] = "get" /\ pc[c] \in {"unlock", "encode", "reply", "dead"}

\* Who is inside a handler has kv.mu.
HandlersExclude ==
  \A c \in Clients : pc[c] \in {"access", "write", "unlock"} => mu = c

IInv == TypeOK /\ ValueOfGet /\ HandlersExclude

-----------------------------------------------------------------------------
LEMMA InitInvariant == Init => IInv
BY DEF Init, Nothing, IInv, TypeOK, ValueOfGet, HandlersExclude, Labels

LEMMA WordType ==
  ASSUME NEW line \in Lines, NEW old
  PROVE  /\ old \in Strings => Word(line, 2, old) \in Strings /\ Word(line, 3, old) \in Strings
         /\ old \in Operations \cup Strings => Word(line, 1, old) \in Operations \cup Strings
<1>1. /\ line \in Seq(Operations \cup Strings) /\ Len(line) \in Nat
      /\ Len(line) > 0 => line[1] \in Operations \cup Strings
      /\ \A i \in 2..3 : Len(line) >= i => line[i] \in Strings
  OBVIOUS
<1>2. Len(line) >= 1 => Len(line) > 0
  BY <1>1
<1> QED
  BY <1>1, <1>2 DEF Word

LEMMA ClientInvariant ==
  ASSUME IInv, NEW c \in Clients, client(c)
  PROVE  IInv'
<1>1. CASE ReadLine(c)
  <2>1. PICK line \in Lines :
          /\ inOP' = [inOP EXCEPT ![c] = Word(line, 1, inOP[c])]
          /\ inKey' = [inKey EXCEPT ![c] = Word(line, 2, inKey[c])]
          /\ inValue' = [inValue EXCEPT ![c] = Word(line, 3, inValue[c])]
    BY <1>1 DEF ReadLine, IInv, TypeOK
  <2>2. PICK to \in {"call", "input"} : pc[c] = "input" /\ pc' = [pc EXCEPT ![c] = to]
    BY <1>1 DEF ReadLine, Move
  <2>3. UNCHANGED <<data, mu, value>>
    BY <1>1 DEF ReadLine, replyVars
  <2>4. TypeOK'
    BY <2>1, <2>2, <2>3, WordType DEF IInv, TypeOK, Labels
  <2>5. ValueOfGet' /\ HandlersExclude'
    BY <2>1, <2>2, <2>3 DEF IInv, TypeOK, ValueOfGet, HandlersExclude
  <2> QED
    BY <2>4, <2>5 DEF IInv
<1>2. CASE Reply(c)
  BY <1>2 DEF Reply, Move, inputVars, IInv, TypeOK, ValueOfGet, HandlersExclude, Labels
<1>3. CASE CallFails(c)
  BY <1>3 DEF CallFails, inputVars, replyVars, IInv, TypeOK, ValueOfGet, HandlersExclude, Labels
<1> QED
  BY <1>1, <1>2, <1>3 DEF client

LEMMA HandlerInvariant ==
  ASSUME IInv, NEW c \in Clients, Handler(c)
  PROVE  IInv'
<1> USE DEF Serve, Move, inputVars, replyVars, IInv, TypeOK, ValueOfGet, HandlersExclude, Labels
<1>1. CASE Lock(c)
  BY <1>1 DEF Lock
<1>2. CASE Get(c)
  BY <1>2 DEF Get
<1>3. CASE BeginWrite(c)
  BY <1>3 DEF BeginWrite
<1>4. CASE Put(c)
  BY <1>4 DEF Put
<1>5. CASE Delete(c)
  BY <1>5 DEF Delete
<1>6. CASE Show(c) \/ Exit(c)
  BY <1>6 DEF Show, Exit
<1>7. CASE Unlock(c)
  BY <1>7 DEF Unlock
<1>8. CASE ServeConn(c)
  BY <1>8 DEF ServeConn, EncodeKey, Crash, SendReply
<1> QED
  BY <1>1, <1>2, <1>3, <1>4, <1>5, <1>6, <1>7, <1>8 DEF Handler

\* chapter7/kv.go: the handlers exclude one another, and a value goes back only
\* to the get that asked for it.
THEOREM Invariant == Spec => []IInv
<1>1. IInv /\ [Next]_vars => IInv'
  <2> SUFFICES ASSUME IInv, [Next]_vars
               PROVE  IInv'
    OBVIOUS
  <2>1. CASE UNCHANGED vars
    BY <2>1 DEF vars, inputVars, replyVars, IInv, TypeOK, ValueOfGet, HandlersExclude
  <2> QED
    BY <2>1, ClientInvariant, HandlerInvariant DEF Next
<1> QED
  BY <1>1, InitInvariant, PTL DEF Spec

\* chapter7/kv.go: kv.mu keeps every read and write of the map by a handler from
\* happening during another handler's write.
THEOREM MapIsLocked == Spec => []NoMapRace
<1>1. IInv => NoMapRace
  BY DEF IInv, HandlersExclude, NoMapRace, Writers
<1> QED
  BY <1>1, Invariant, PTL

-----------------------------------------------------------------------------
(* The refinement of the atomic store *)

\* What the refinement mapping gives for call, applied and result.
Call(c) == IF Pending(c) THEN [op |-> inOP[c], key |-> inKey[c], value |-> inValue[c]] ELSE Absent
AllCalls == [c \in Clients |-> Call(c)]
Served(c) == Pending(c) /\ pc[c] \in {"unlock", "encode", "reply"}
AllServed == {c \in Clients : Served(c)}

LEMMA Mapping == /\ Store!vars = <<data, AllCalls, AllServed, value>>
                 /\ Store!vars' = <<data', AllCalls', AllServed', value'>>
BY DEF Store!vars, AllCalls, Call, AllServed, Served

LEMMA CallType ==
  ASSUME TypeOK, NEW c \in Clients
  PROVE  /\ Pending(c) => Call(c) \in Calls /\ Call(c) # Absent
         /\ Pending(c) => Call(c).op = inOP[c] /\ Call(c).key = inKey[c] /\ Call(c).value = inValue[c]
         /\ ~Pending(c) => Call(c) = Absent
BY DEF TypeOK, Pending, Call, Calls

\* A step of client c changes nobody else's call.
LEMMA OthersWait ==
  ASSUME TypeOK, NEW CONSTANT c \in Clients,
         pc' = [pc EXCEPT ![c] = pc'[c]],
         inOP' = [inOP EXCEPT ![c] = inOP'[c]],
         inKey' = [inKey EXCEPT ![c] = inKey'[c]],
         inValue' = [inValue EXCEPT ![c] = inValue'[c]]
  PROVE  /\ AllCalls' = [AllCalls EXCEPT ![c] = Call(c)']
         /\ AllServed' = IF Served(c)' THEN AllServed \cup {c} ELSE AllServed \ {c}
<1>1. \A d \in Clients : d # c => Call(d)' = Call(d) /\ (Served(d)' <=> Served(d))
  BY DEF TypeOK, Call, Served, Pending
<1>2. AllCalls' = [AllCalls EXCEPT ![c] = Call(c)']
  BY <1>1 DEF AllCalls
<1>3. AllServed' = IF Served(c)' THEN AllServed \cup {c} ELSE AllServed \ {c}
  BY <1>1 DEF AllServed
<1> QED
  BY <1>2, <1>3

\* Of the steps of a goroutine only those that use the map are seen.
LEMMA QuietHandler ==
  ASSUME IInv, NEW CONSTANT c \in Clients, Handler(c), ~Get(c), ~Put(c), ~Delete(c)
  PROVE  UNCHANGED Store!vars
<1>1. UNCHANGED <<inOP, inKey, inValue, data, value>>
  BY DEF Handler, Lock, BeginWrite, Show, Exit, Unlock, ServeConn, EncodeKey, Crash, SendReply,
         inputVars, replyVars
<1>2. /\ pc' = [pc EXCEPT ![c] = pc'[c]]
      /\ Pending(c)' <=> Pending(c)
      /\ Served(c)' <=> Served(c)
  <2> USE <1>1 DEF Serve, Move, IInv, TypeOK, Pending, Served
  <2>1. CASE Lock(c) \/ BeginWrite(c) \/ Unlock(c)
    BY <2>1 DEF Lock, BeginWrite, Unlock
  <2>2. CASE Show(c) \/ Exit(c)
    BY <2>2 DEF Show, Exit
  <2>3. CASE ServeConn(c)
    BY <2>3 DEF ServeConn, EncodeKey, Crash, SendReply
  <2> QED
    BY <2>1, <2>2, <2>3 DEF Handler
<1>3. Call(c)' = Call(c)
  BY <1>1, <1>2 DEF Call
<1>4. /\ AllCalls' = [AllCalls EXCEPT ![c] = Call(c)']
      /\ AllServed' = IF Served(c)' THEN AllServed \cup {c} ELSE AllServed \ {c}
  BY <1>1, <1>2, OthersWait DEF IInv, TypeOK
<1>5. AllCalls' = AllCalls /\ AllServed' = AllServed
  BY <1>2, <1>3, <1>4 DEF AllCalls, AllServed
<1> QED
  BY <1>1, <1>5, Mapping

\* The handlers of get, put and delete apply the operation.
LEMMA MapAccess ==
  ASSUME IInv, NEW CONSTANT c \in Clients, Get(c) \/ Put(c) \/ Delete(c)
  PROVE  Store!Apply(c)
<1>1. /\ UNCHANGED <<inOP, inKey, inValue>> /\ pc[c] \in {"access", "write"}
      /\ pc' = [pc EXCEPT ![c] = "unlock"] /\ inOP[c] \in {"get", "put", "delete"}
  BY DEF Get, Put, Delete, Serve, Move, inputVars
<1>2. Pending(c) /\ ~Served(c) /\ Pending(c)' /\ Served(c)'
  BY <1>1 DEF IInv, TypeOK, Pending, Served
<1>3. Call(c)' = Call(c)
  BY <1>1, <1>2 DEF Call
<1>4. AllCalls' = AllCalls /\ AllServed' = AllServed \cup {c}
  <2>1. /\ AllCalls' = [AllCalls EXCEPT ![c] = Call(c)']
        /\ AllServed' = IF Served(c)' THEN AllServed \cup {c} ELSE AllServed \ {c}
    BY <1>1, OthersWait DEF IInv, TypeOK
  <2> QED
    BY <1>2, <1>3, <2>1 DEF AllCalls
<1>5. /\ AllCalls[c] # Absent /\ c \notin AllServed
      /\ AllCalls[c].op = inOP[c] /\ AllCalls[c].key = inKey[c] /\ AllCalls[c].value = inValue[c]
  BY <1>2, CallType DEF AllCalls, AllServed, IInv
<1>6. /\ data' = Store!After(AllCalls[c])
      /\ value' = IF AllCalls[c].op = "get" THEN [value EXCEPT ![c] = data[AllCalls[c].key]] ELSE value
  <2>1. CASE Get(c)
    BY <1>5, <2>1 DEF Get, Store!After
  <2>2. CASE Put(c)
    BY <1>5, <2>2 DEF Put, Store!After, replyVars
  <2>3. CASE Delete(c)
    BY <1>5, <2>3 DEF Delete, Store!After, replyVars
  <2> QED
    BY <2>1, <2>2, <2>3
<1> QED
  BY <1>4, <1>5, <1>6 DEF Store!Apply, AllCalls, Call, AllServed, Served

LEMMA ReadLineInvokes ==
  ASSUME IInv, IInv', NEW CONSTANT c \in Clients, ReadLine(c)
  PROVE  Store!Invoke(c) \/ UNCHANGED Store!vars
<1>1. /\ UNCHANGED <<data, value>> /\ pc[c] = "input" /\ pc'[c] \in {"input", "call"}
      /\ pc' = [pc EXCEPT ![c] = pc'[c]]
      /\ inOP' = [inOP EXCEPT ![c] = inOP'[c]]
      /\ inKey' = [inKey EXCEPT ![c] = inKey'[c]]
      /\ inValue' = [inValue EXCEPT ![c] = inValue'[c]]
  BY DEF ReadLine, Move, replyVars, IInv, TypeOK
<1>2. ~Pending(c) /\ ~Served(c) /\ ~Served(c)'
  BY <1>1 DEF Pending, Served
<1>3. AllCalls' = [AllCalls EXCEPT ![c] = Call(c)'] /\ AllServed' = AllServed
  <2>1. /\ AllCalls' = [AllCalls EXCEPT ![c] = Call(c)']
        /\ AllServed' = IF Served(c)' THEN AllServed \cup {c} ELSE AllServed \ {c}
    BY <1>1, OthersWait DEF IInv
  <2> QED
    BY <1>2, <2>1 DEF AllServed
<1>4. AllCalls[c] = Absent
  BY <1>2, CallType DEF AllCalls, IInv
<1>5. CASE Pending(c)'
  <2>1. Call(c)' \in Calls
    BY <1>5 DEF IInv, TypeOK, Pending, Call, Calls
  <2>2. Call(c)' \in Store!Ops
    BY <2>1 DEF Calls, Store!Ops
  <2>3. \E o \in Store!Ops : AllCalls' = [AllCalls EXCEPT ![c] = o]
    BY <1>3, <2>2
  <2>4. Store!Invoke(c)
    BY <1>1, <1>3, <1>4, <2>3 DEF Store!Invoke, AllCalls, Call, AllServed, Served
  <2> QED
    BY <2>4
<1>6. CASE ~Pending(c)'
  <2>1. Call(c)' = Absent
    BY <1>6 DEF Call
  <2>2. AllCalls' = AllCalls
    BY <1>3, <1>4, <2>1 DEF AllCalls
  <2> QED
    BY <1>1, <1>3, <2>2, Mapping
<1> QED
  BY <1>5, <1>6

LEMMA ReplyReturns ==
  ASSUME IInv, NEW CONSTANT c \in Clients, Reply(c)
  PROVE  Store!Return(c) \/ UNCHANGED Store!vars
<1>1. /\ UNCHANGED <<inOP, inKey, inValue, data>> /\ pc[c] = "reply" /\ pc'[c] \in {"input", "closed"}
      /\ pc' = [pc EXCEPT ![c] = pc'[c]] /\ value' = [value EXCEPT ![c] = Absent]
  BY DEF Reply, Move, inputVars, IInv, TypeOK
<1>2. ~Pending(c)' /\ ~Served(c)' /\ (Served(c) <=> Pending(c))
  BY <1>1 DEF Pending, Served
<1>3. AllCalls' = [AllCalls EXCEPT ![c] = Absent] /\ AllServed' = AllServed \ {c}
  <2>1. /\ AllCalls' = [AllCalls EXCEPT ![c] = Call(c)']
        /\ AllServed' = IF Served(c)' THEN AllServed \cup {c} ELSE AllServed \ {c}
    BY <1>1, OthersWait DEF IInv, TypeOK
  <2> QED
    BY <1>2, <2>1 DEF Call
<1>4. CASE Pending(c)
  <2>1. c \in AllServed
    BY <1>2, <1>4 DEF AllServed
  <2>2. Store!Return(c)
    BY <1>1, <1>3, <2>1 DEF Store!Return, AllCalls, Call, AllServed, Served
  <2> QED
    BY <2>2
<1>5. CASE ~Pending(c)
  <2>1. value[c] = Absent
    BY <1>1, <1>5 DEF IInv, ValueOfGet, Pending
  <2>2. value' = value
    BY <1>1, <2>1 DEF IInv, TypeOK
  <2>3. AllCalls' = AllCalls /\ AllServed' = AllServed
    BY <1>2, <1>3, <1>5 DEF AllCalls, Call, AllServed
  <2> QED
    BY <1>1, <2>2, <2>3, Mapping
<1> QED
  BY <1>4, <1>5

LEMMA CallFailsGivesUp ==
  ASSUME IInv, NEW CONSTANT c \in Clients, CallFails(c)
  PROVE  Store!GiveUp(c) \/ UNCHANGED Store!vars
<1>1. /\ UNCHANGED <<inOP, inKey, inValue, data, value>>
      /\ pc' = [pc EXCEPT ![c] = "dead"]
  BY DEF CallFails, inputVars, replyVars
<1>2. ~Pending(c)' /\ ~Served(c)'
  BY <1>1 DEF IInv, TypeOK, Pending, Served
<1>3. AllCalls' = [AllCalls EXCEPT ![c] = Absent] /\ AllServed' = AllServed \ {c}
  <2>1. /\ AllCalls' = [AllCalls EXCEPT ![c] = Call(c)']
        /\ AllServed' = IF Served(c)' THEN AllServed \cup {c} ELSE AllServed \ {c}
    BY <1>1, OthersWait DEF IInv, TypeOK
  <2> QED
    BY <1>2, <2>1 DEF Call
<1>4. CASE Pending(c)
  <2>1. AllCalls[c] # Absent
    BY <1>4, CallType DEF AllCalls, IInv
  <2>2. Store!GiveUp(c)
    BY <1>1, <1>3, <2>1 DEF Store!GiveUp, AllCalls, Call, AllServed, Served
  <2> QED
    BY <2>2
<1>5. CASE ~Pending(c)
  <2>1. AllCalls' = AllCalls /\ AllServed' = AllServed
    BY <1>3, <1>5 DEF AllCalls, Call, AllServed, Served
  <2> QED
    BY <1>1, <2>1, Mapping
<1> QED
  BY <1>4, <1>5

\* chapter7/kv.go is linearizable: whatever the clients, the keys, the values and
\* the lines typed, each get, put and delete happens at one moment between its
\* line and its reply, on the words Scanln left; the Shows and the crash that
\* they can bring change nothing of it.
THEOREM StoreIsLinearizable == Spec => Linearizable
<1>1. Init => Store!Init
  <2> SUFFICES ASSUME Init
               PROVE  Store!Init
    OBVIOUS
  <2>1. \A c \in Clients : ~Pending(c)
    BY DEF Init, Pending
  <2> QED
    BY <2>1 DEF Init, Nothing, Store!Init
<1>2. IInv /\ IInv' /\ [Next]_vars => [Store!Next]_Store!vars
  <2> SUFFICES ASSUME IInv, IInv', [Next]_vars
               PROVE  [Store!Next]_Store!vars
    OBVIOUS
  <2>1. ASSUME NEW c \in Clients, client(c) \/ Handler(c)
        PROVE  \/ UNCHANGED Store!vars
               \/ Store!Invoke(c) \/ Store!Apply(c) \/ Store!Return(c) \/ Store!GiveUp(c)
    BY <2>1, QuietHandler, MapAccess, ReadLineInvokes, ReplyReturns, CallFailsGivesUp DEF client
  <2>2. CASE UNCHANGED vars
    BY <2>2, Mapping DEF vars, inputVars, replyVars, AllCalls, Call, AllServed, Served, Pending
  <2> QED
    BY <2>1, <2>2 DEF Next, Store!Next
<1> QED
  BY <1>1, <1>2, Invariant, PTL DEF Spec, Linearizable, Store!Spec
=============================================================================
