--------------------------- MODULE SocketPrograms ---------------------------
(***************************************************************************)
(* The TCP programs of chapter7 side by side: the four pairs of            *)
(* TCPPrograms and the three servers of EchoServers with their clients.    *)
(***************************************************************************)
EXTENDS TCPPrograms

CONSTANTS Clients, LineLen, NumLines, MaxEvent, Listener

VARIABLES client, lines, received, up, down, here, there, gone, server, serve, reqbuf,
          edge, armed, event, forgotten

echoVars == <<client, lines, received, up, down, here, there, gone, server, serve, reqbuf,
              edge, armed, event, forgotten>>

E == INSTANCE EchoServers

ASSUME EchoAssumption == {LineLen, NumLines, MaxEvent} \subseteq Nat \ {0}

allVars == <<program, vars, echoVars>>

TCPStep(step) == program \in Programs /\ step /\ UNCHANGED <<program, echoVars>>
EchoStep(step) == program \in E!Programs /\ step /\ UNCHANGED <<program, vars>>

SocketInit == program \in Programs \cup E!Programs /\ Init /\ E!Init

SocketNext == TCPStep(Next) \/ EchoStep(E!Next)

\* Each process runs on as long as it can.  A user types the next line or ends
\* the input, and a connection that can be accepted is accepted in the end.
FairSpec ==
  /\ SocketInit /\ [][SocketNext]_allVars
  /\ WF_allVars(TCPStep(Program))
  /\ WF_allVars(EchoStep(E!EchoServer)) /\ WF_allVars(EchoStep(E!ClientStep))
  /\ SF_allVars(EchoStep(\E c \in Clients : E!EpollAccept(c)))

-----------------------------------------------------------------------------
\* However the bytes are cut, nobody gets them out of order or another's: a
\* thread alone at its socket (AloneInOrder), an echo client (E!OwnEcho).
BytesInOrder == AloneInOrder /\ E!OwnEcho

\* A server closes every connection that it has accepted: E!DescriptorsClosed.
DescriptorsClosed == E!DescriptorsClosed

\* Every client returns, and both processes of a TCP pair end once they are
\* connected, however the bytes are cut and whatever fails.
Termination ==
  <>(IF program \in Programs THEN AllEnded ELSE \A c \in Clients : E!Returned(c))
=============================================================================
