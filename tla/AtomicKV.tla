------------------------------ MODULE AtomicKV ------------------------------
(***************************************************************************)
(* What a key-value store promises its clients (linearizability): between  *)
(* the invocation of a get, put or delete and its return there is a moment *)
(* at which the whole operation happens on a map nobody else touches.      *)
(***************************************************************************)
CONSTANTS Clients, Strings, Absent

VARIABLES store,   \* store[k]: the value of key k, or Absent
          call,    \* call[c]: the operation c has invoked, or Absent
          applied, \* the clients whose operation has happened
          result   \* result[c]: what the get that c has not returned from yet found

vars == <<store, call, applied, result>>

Ops == [op : {"get", "put", "delete"}, key : Strings, value : Strings]

Init == /\ store = [k \in Strings |-> Absent]
        /\ call = [c \in Clients |-> Absent]
        /\ applied = {}
        /\ result = [c \in Clients |-> Absent]

Invoke(c) == /\ call[c] = Absent
             /\ \E o \in Ops : call' = [call EXCEPT ![c] = o]
             /\ UNCHANGED <<store, applied, result>>

After(o) == CASE o.op = "get" -> store
              [] o.op = "put" -> [store EXCEPT ![o.key] = o.value]
              [] o.op = "delete" -> [store EXCEPT ![o.key] = Absent]

Apply(c) == /\ call[c] # Absent
            /\ c \notin applied
            /\ applied' = applied \cup {c}
            /\ store' = After(call[c])
            /\ result' = IF call[c].op = "get"
                           THEN [result EXCEPT ![c] = store[call[c].key]]
                           ELSE result
            /\ UNCHANGED call

Return(c) == /\ c \in applied
             /\ applied' = applied \ {c}
             /\ call' = [call EXCEPT ![c] = Absent]
             /\ result' = [result EXCEPT ![c] = Absent]
             /\ UNCHANGED store

\* A client that gives up returns nothing; its operation may have happened.
GiveUp(c) == /\ call[c] # Absent
             /\ applied' = applied \ {c}
             /\ call' = [call EXCEPT ![c] = Absent]
             /\ UNCHANGED <<store, result>>

Next == \E c \in Clients : Invoke(c) \/ Apply(c) \/ Return(c) \/ GiveUp(c)

Spec == Init /\ [][Next]_vars
=============================================================================
