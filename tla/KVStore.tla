------------------------------ MODULE KVStore ------------------------------
(***************************************************************************)
(* chapter7/kv.go: a key-value server over net/rpc and its interactive     *)
(* clients.  A client reads a line, makes one call and waits for its reply. *)
(* The server runs each call in a goroutine of its own: the handler holds  *)
(* kv.mu from its first statement to its return, and net/rpc encodes the   *)
(* reply after that, without kv.mu.  Show's reply is the map itself, so it *)
(* is encoded, key by key, while other calls may change it; the Go runtime *)
(* ends the whole server if it notices.                                    *)
(*                                                                         *)
(* Strings are told apart only by equality; Empty is "".                   *)
(***************************************************************************)
EXTENDS Integers, Sequences

CONSTANTS Clients,   \* the client processes
          Strings,   \* the strings that occur as keys and values
          Empty,     \* "", which inOP, inKey and inValue start with
          Lines,     \* the lines, split into words, that a user may type
          Absent,    \* "not in the map", "no call"
          Nobody     \* the owner of the free kv.mu

Operations == {"get", "put", "delete", "show", "exit"}

\* The calls that read or write the map.
Calls == [op : {"get", "put", "delete"}, key : Strings, value : Strings]

ASSUME KVAssumption ==
  /\ Empty \in Strings
  /\ Absent \notin Strings \cup Calls
  /\ Nobody \notin Clients
  /\ \A line \in Lines : /\ line \in Seq(Operations \cup Strings)
                         /\ Len(line) <= 3
                         /\ \A i \in 2..3 : Len(line) >= i => line[i] \in Strings

VARIABLES
  pc,        \* where each client's loop, or the goroutine of its call, is
  inOP, inKey, inValue,   \* the client's variables
  data,      \* kv.data: the value of each key, or Absent
  mu,        \* the client whose goroutine holds kv.mu, or Nobody
  value,     \* the reply's Value, and whether there was one (Err)
  unencoded, \* the keys a Show reply still has to encode
  shown,     \* the map that a Show reply has encoded so far
  exitReply, \* the clients that got "true" from KV.Exit
  server     \* "up", or "crashed" by a concurrent map access

inputVars == <<inOP, inKey, inValue>>
replyVars == <<value, unencoded, shown>>
vars == <<pc, inputVars, data, mu, replyVars, exitReply, server>>

Nothing == [k \in Strings |-> Absent]

Init ==
  /\ pc = [c \in Clients |-> "input"]
  /\ inOP = [c \in Clients |-> Empty]
  /\ inKey = [c \in Clients |-> Empty]
  /\ inValue = [c \in Clients |-> Empty]
  /\ data = Nothing
  /\ mu = Nobody
  /\ value = [c \in Clients |-> Absent]
  /\ unencoded = [c \in Clients |-> {}]
  /\ shown = [c \in Clients |-> Nothing]
  /\ exitReply = {}
  /\ server = "up"

\* A client runs by itself; a goroutine runs as long as the server does.
Move(c, from, to) == pc[c] = from /\ pc' = [pc EXCEPT ![c] = to]

Serve(c, from, to) == server = "up" /\ Move(c, from, to)

-----------------------------------------------------------------------------
(* The client *)

Word(line, i, old) == IF Len(line) >= i THEN line[i] ELSE old

\* Scanln stores the words it finds; the others keep what the line before left
\* there, and so they all do for an empty line and at the end of the input.
\* An unknown operation, a word of Strings, "" at first, only prints a message.
ReadLine(c) ==
  /\ \E line \in Lines :
       LET op == Word(line, 1, inOP[c])
       IN  /\ inOP' = [inOP EXCEPT ![c] = op]
           /\ inKey' = [inKey EXCEPT ![c] = Word(line, 2, @)]
           /\ inValue' = [inValue EXCEPT ![c] = Word(line, 3, @)]
           /\ Move(c, "input", IF op \in Operations THEN "call" ELSE "input")
  /\ UNCHANGED <<data, mu, replyVars, exitReply, server>>

\* The call returns and its result is printed; after exit the client closes its connection and ends.
Reply(c) ==
  /\ Move(c, "reply", IF inOP[c] = "exit" THEN "closed" ELSE "input")
  /\ exitReply' = IF inOP[c] = "exit" THEN exitReply \cup {c} ELSE exitReply
  /\ value' = [value EXCEPT ![c] = Absent]
  /\ shown' = [shown EXCEPT ![c] = Nothing]
  /\ UNCHANGED <<inputVars, data, mu, unencoded, server>>

\* The server is gone: log.Fatal.
CallFails(c) ==
  /\ server = "crashed"
  /\ pc[c] \notin {"input", "closed", "dead"}
  /\ pc' = [pc EXCEPT ![c] = "dead"]
  /\ UNCHANGED <<inputVars, data, mu, replyVars, exitReply, server>>

client(c) == ReadLine(c) \/ Reply(c) \/ CallFails(c)

-----------------------------------------------------------------------------
(* The goroutine that serves the call of client c *)

\* Mutant: Lock is missing in the handler of Get.
LockNotInGet(c) ==
  /\ Serve(c, "call", "access")
  /\ inOP[c] = "get" \/ mu = Nobody
  /\ mu' = IF inOP[c] = "get" THEN mu ELSE c
  /\ UNCHANGED <<inputVars, data, replyVars, exitReply, server>>

\* Every handler begins with kv.mu.Lock().
Lock(c) == /\ Serve(c, "call", "access")
           /\ mu = Nobody
           /\ mu' = c
           /\ UNCHANGED <<inputVars, data, replyVars, exitReply, server>>

Get(c) ==
  /\ inOP[c] = "get"
  /\ Serve(c, "access", "unlock")
  /\ value' = [value EXCEPT ![c] = data[inKey[c]]]
  /\ UNCHANGED <<inputVars, data, mu, unencoded, shown, exitReply, server>>

\* A write of the map takes time: it begins here and ends in Put or Delete.
BeginWrite(c) ==
  /\ inOP[c] \in {"put", "delete"}
  /\ Serve(c, "access", "write")
  /\ UNCHANGED <<inputVars, data, mu, replyVars, exitReply, server>>

Put(c) ==
  /\ inOP[c] = "put"
  /\ Serve(c, "write", "unlock")
  /\ data' = [data EXCEPT ![inKey[c]] = inValue[c]]
  /\ UNCHANGED <<inputVars, mu, replyVars, exitReply, server>>

\* Mutant: delete stores "" instead of removing the key.
DeleteByEmpty(c) ==
  /\ inOP[c] = "delete"
  /\ Serve(c, "write", "unlock")
  /\ data' = [data EXCEPT ![inKey[c]] = Empty]
  /\ UNCHANGED <<inputVars, mu, replyVars, exitReply, server>>

Delete(c) ==
  /\ inOP[c] = "delete"
  /\ Serve(c, "write", "unlock")
  /\ data' = [data EXCEPT ![inKey[c]] = Absent]
  /\ UNCHANGED <<inputVars, mu, replyVars, exitReply, server>>

\* reply.Data = kv.data copies a reference; the keys are read when encoding.
Show(c) ==
  /\ inOP[c] = "show"
  /\ Serve(c, "access", "unlock")
  /\ unencoded' = [unencoded EXCEPT ![c] = Strings]
  /\ UNCHANGED <<inputVars, data, mu, value, shown, exitReply, server>>

\* Exit answers "true" and leaves the server running.
Exit(c) ==
  /\ inOP[c] = "exit"
  /\ Serve(c, "access", "unlock")
  /\ UNCHANGED <<inputVars, data, mu, replyVars, exitReply, server>>

\* Mutant: Unlock is missing in the handler of Get.
UnlockNotAfterGet(c) ==
  /\ Serve(c, "unlock", "encode")
  /\ mu' = IF inOP[c] = "get" THEN mu ELSE Nobody
  /\ UNCHANGED <<inputVars, data, replyVars, exitReply, server>>

\* defer kv.mu.Unlock() runs when the handler returns.
Unlock(c) == /\ Serve(c, "unlock", "encode")
             /\ mu' = Nobody
             /\ UNCHANGED <<inputVars, data, replyVars, exitReply, server>>

\* The clients whose goroutine is in the middle of a write of the map.
Writers == {c \in Clients : pc[c] = "write"}

\* net/rpc encodes the map of a Show reply, one key at a time; the runtime may
\* notice a write that is going on, and then it ends the process.
EncodeKey(c) ==
  /\ server = "up"
  /\ pc[c] = "encode"
  /\ \E k \in unencoded[c] :
       /\ unencoded' = [unencoded EXCEPT ![c] = @ \ {k}]
       /\ shown' = [shown EXCEPT ![c][k] = data[k]]
  /\ UNCHANGED <<pc, inputVars, data, mu, value, exitReply, server>>

Crash(c) ==
  /\ server = "up"
  /\ pc[c] = "encode"
  /\ unencoded[c] # {}
  /\ Writers # {}
  /\ server' = "crashed"
  /\ UNCHANGED <<pc, inputVars, data, mu, replyVars, exitReply>>

SendReply(c) == /\ unencoded[c] = {}
                /\ Serve(c, "encode", "reply")
                /\ UNCHANGED <<inputVars, data, mu, replyVars, exitReply, server>>

ServeConn(c) == EncodeKey(c) \/ Crash(c) \/ SendReply(c)

Handler(c) == \/ Lock(c) \/ Get(c) \/ BeginWrite(c) \/ Put(c) \/ Delete(c)
              \/ Show(c) \/ Exit(c) \/ Unlock(c) \/ ServeConn(c)

Ended == \A c \in Clients : pc[c] \in {"closed", "dead"}

Next == \/ \E c \in Clients : client(c) \/ Handler(c)
        \/ Ended /\ UNCHANGED vars

Spec == Init /\ [][Next]_vars

\* Goroutines are scheduled, and sync.Mutex hands itself over to a goroutine
\* that has waited for it for more than a millisecond.  Users type when they like.
FairSpec == Spec /\ \A c \in Clients : /\ WF_vars(Handler(c)) /\ SF_vars(Lock(c))
                                       /\ WF_vars(Reply(c)) /\ WF_vars(CallFails(c))

-----------------------------------------------------------------------------
\* The store is linearizable for get, put and delete, while Shows go on and the
\* server possibly crashes: each happens at one moment between the line typed
\* and the reply, with the words that Scanln left in inKey and inValue then.
Pending(c) == /\ inOP[c] \in {"get", "put", "delete"}
              /\ pc[c] \in {"call", "access", "write", "unlock", "encode", "reply"}

Store == INSTANCE AtomicKV WITH
           store <- data,
           call <- [c \in Clients |->
                      IF Pending(c)
                        THEN [op |-> inOP[c], key |-> inKey[c], value |-> inValue[c]]
                        ELSE Absent],
           applied <- {c \in Clients : /\ Pending(c)
                                       /\ pc[c] \in {"unlock", "encode", "reply"}},
           result <- value
Linearizable == Store!Spec

\* No handler reads or writes the map while another one writes it: the Go runtime
\* would end the server.  The encoding of a Show, which holds no lock, does.
NoMapRace ==
  \A c \in Writers : \A d \in Clients \ {c} :
    pc[d] # "write" /\ ~(pc[d] = "access" /\ inOP[d] = "get")

\* A call that a client makes comes back, or the client dies with the server: no
\* handler keeps kv.mu.
CallsReturn ==
  \A c \in Clients : pc[c] = "call" ~> pc[c] \in {"input", "closed", "dead"}

\* What the client's "Server does not exit successfully!" says of the reply
\* "true": the server has ended, and serves nobody any more.
ExitEndsServer == [][exitReply # {} => \A c \in Clients : ~Lock(c)]_vars
=============================================================================
