----------------------------- MODULE TCPStream -----------------------------
(***************************************************************************)
(* sendAllChunk and recvAllChunk, which the programs TCP-*.c of chapter7   *)
(* share, on one connection: a chunk goes out and comes in by pieces, and  *)
(* several threads of a process may use the socket at once.                *)
(*                                                                         *)
(* External: the connection, which keeps the order of the bytes, holds at  *)
(* most Capacity of them per direction, and may be reset.                  *)
(***************************************************************************)
EXTENDS Integers, FiniteSetsExt, SequencesExt

CONSTANTS MaxThreads,  \* the largest number of threads of the server
          Capacity     \* bytes that are sent and not received yet

Client == -1
Server == 0
Sides == {Client, Server}
Agents == Client..MaxThreads  \* the server's threads are 1, 2, ...

Side(a) == IF a = Client THEN Client ELSE Server
Peer(a) == IF a = Client THEN Server ELSE Client

VARIABLES wire,   \* wire[s]: the bytes on their way to side s
          ended,  \* ended[s]: "no", "ok" or "failed", how the process has ended
          reset,  \* the connection is gone
          out,    \* out[a]: what sendAllChunk has still to send
          want,   \* want[a]: what recvAllChunk has still to receive
          got     \* got[a]: what it has received of the chunk

linkVars == <<wire, ended, reset>>
chunkVars == <<out, want, got>>

StreamInit == /\ wire = [s \in Sides |-> <<>>]
              /\ ended = [s \in Sides |-> "no"]
              /\ reset = FALSE
              /\ out = [a \in Agents |-> <<>>]
              /\ want = [a \in Agents |-> 0]
              /\ got = [a \in Agents |-> <<>>]

Running(a) == ended[Side(a)] = "no"

\* The chunk sent or received last is complete.
Idle(a) == Running(a) /\ out[a] = <<>> /\ want[a] = 0

SendAll(a, bytes) == out' = [out EXCEPT ![a] = bytes] /\ UNCHANGED <<want, got>>

RecvAll(a, n) == /\ want' = [want EXCEPT ![a] = n]
                 /\ got' = [got EXCEPT ![a] = <<>>]
                 /\ UNCHANGED out

\* send takes n bytes; if the other side is gone the connection is reset.
SendSome(a) ==
  \E n \in 1..Len(out[a]) :
    /\ Running(a) /\ ~reset
    /\ Len(wire[Peer(a)]) + n <= Capacity
    /\ out' = [out EXCEPT ![a] = SubSeq(@, n + 1, Len(@))]
    /\ IF ended[Peer(a)] = "no"
       THEN wire' = [wire EXCEPT ![Peer(a)] = @ \o SubSeq(out[a], 1, n)] /\ UNCHANGED reset
       ELSE reset' = TRUE /\ UNCHANGED wire
    /\ UNCHANGED <<ended, want, got>>

\* recv returns n bytes; again says whether it is called for what is left.
RecvSome(a, again) ==
  \E n \in 1..Min({want[a], Len(wire[Side(a)])}) :
    /\ Running(a)
    /\ got' = [got EXCEPT ![a] = @ \o SubSeq(wire[Side(a)], 1, n)]
    /\ wire' = [wire EXCEPT ![Side(a)] = SubSeq(@, n + 1, Len(@))]
    /\ want' = [want EXCEPT ![a] = IF again THEN @ - n ELSE 0]
    /\ UNCHANGED <<ended, reset, out>>

\* send fails, or recv returns 0 at the end of the stream, or fails.
SendFails(a) == Running(a) /\ out[a] # <<>> /\ reset

RecvFails(a) == /\ Running(a) /\ want[a] > 0
                /\ reset \/ (wire[Side(a)] = <<>> /\ ended[Peer(a)] # "no")

\* The process ends.  What it has not received resets the connection.
End(s, how) == /\ ended' = [ended EXCEPT ![s] = how]
               /\ reset' = (reset \/ wire[s] # <<>>)
               /\ wire' = [wire EXCEPT ![s] = <<>>]

\* External: the network breaks while both sides run.
Break == /\ ~reset /\ \A s \in Sides : ended[s] = "no"
         /\ reset' = TRUE
         /\ UNCHANGED <<wire, ended, chunkVars>>
=============================================================================
