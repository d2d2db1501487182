---------------------------- MODULE BufferMesa ----------------------------
(***************************************************************************)
(* chapter4/BoundedBuffer-monitor-mesatest.c: the monitor program with if   *)
(* for while.  A woken thread goes on to its update without testing the    *)
(* condition again, as if the monitor had Hoare's semantics and not Mesa's. *)
(***************************************************************************)
EXTENDS BufferMonitor

\* pthread_cond_wait returns with the mutex, past the if.
MesaReturn(t) == Lock(t, "woken", "resume") /\ UNCHANGED spurious

Resume(t) == Load(t, "resume") /\ UNCHANGED spurious

MesaStep(t) == \/ Enter(t) \/ CondWait(t) \/ SpuriousWakeup(t) \/ MesaReturn(t)
               \/ Resume(t) \/ Update(t) \/ Broadcast(t) \/ Unlock(t)

MesaNext == \/ MainStep
            \/ \E t \in Threads : MesaStep(t)
            \/ Gone /\ UNCHANGED vars

MesaSpec == Init /\ [][MesaNext]_vars

-----------------------------------------------------------------------------
\* Lines 33-34 and 56-57: what a producer reports as OVERFLOW! and a consumer as
\* UNDERFLOW! does not happen.
NoOverOrUnderflow ==
  \A t \in Threads : pc[t] = "stored" =>
    IF t \in Producers THEN bufSize <= Capacity ELSE bufSize >= 0
=============================================================================
