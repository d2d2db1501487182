---------------------------- MODULE EchoServers ----------------------------
(***************************************************************************)
(* The servers of chapter7 that send back what they get, side by side:     *)
(* echo-server.c serves one echo-client after the other, line by line;     *)
(* HighConcurrent-normal-server.c has a thread per connection and          *)
(* HighConcurrent-epoll-server.c one loop over the events of epoll; both   *)
(* answer one request per connection of HighConcurrent-client.c.           *)
(*                                                                         *)
(* External: connections, which keep the order of the bytes, and epoll.    *)
(***************************************************************************)
EXTENDS Integers, FiniteSets, SequencesExt

CONSTANTS Clients,   \* a connection each
          LineLen,   \* bytes of a line or of "Hello\n"
          NumLines,  \* bound: lines typed into an echo-client
          MaxEvent,  \* MAX_EVENT
          Listener   \* listenfd

Programs == {"echo", "normal", "epoll"}

VARIABLES
  program,   \* which of the servers runs: it never changes
  client,    \* where each client is
  lines,     \* lines[c]: how many it has written
  received,  \* received[c]: the bytes it has read
  up, down,  \* the bytes on their way to the server and back
  here,      \* here[c]: the client's end of the connection: "none", "open" or "closed"
  there,     \* there[c]: the server's end: also "queued", to be accepted
  gone,     \* the connections that are gone
  server,    \* where the server's main is
  serve,     \* serve[c]: where the serving of c is
  reqbuf,    \* reqbuf[c]: what the server has read from c
  edge,      \* the connections that epoll has an event for
  armed,     \* the connections that epoll watches
  event,     \* the events that epoll_wait has returned and are still to be handled
  forgotten  \* connections accepted and left alone since getnameinfo failed

clientVars == <<client, lines, received>>
linkVars == <<up, down, here, there, gone>>
pollVars == <<edge, armed, event, forgotten>>
serverVars == <<server, serve, reqbuf, pollVars>>
vars == <<clientVars, linkVars, serverVars>>

Init ==
  /\ client = [c \in Clients |-> "connect"]
  /\ lines = [c \in Clients |-> 0]
  /\ received = [c \in Clients |-> <<>>]
  /\ up = [c \in Clients |-> <<>>] /\ down = [c \in Clients |-> <<>>]
  /\ here = [c \in Clients |-> "none"] /\ there = [c \in Clients |-> "none"]
  /\ gone = {}
  /\ server = "setup"
  /\ serve = [c \in Clients |-> "out"]
  /\ reqbuf = [c \in Clients |-> <<>>]
  /\ edge = {} /\ armed = {} /\ event = <<>> /\ forgotten = {}

\* The bytes that c writes: a line at a time.
Line(c, n) == [k \in 1..LineLen |-> <<c, (n - 1) * LineLen + k>>]

Quota == IF program = "echo" THEN NumLines ELSE 1

-----------------------------------------------------------------------------
(* The clients *)

Connect(c) ==
  /\ client[c] = "connect" /\ server \notin {"setup", "dead"}
  /\ client' = [client EXCEPT ![c] = "prompt"]
  /\ here' = [here EXCEPT ![c] = "open"]
  /\ there' = [there EXCEPT ![c] = "queued"]
  /\ UNCHANGED <<lines, received, up, down, gone, serverVars>>

\* Something has happened to connection c that its server can see.
Notice(c) == edge' = IF c \in armed THEN edge \cup {c} ELSE edge

\* The client's end of c is closed: what it has not read resets the connection.
Leave(c) == /\ client' = [client EXCEPT ![c] = "done"]
            /\ here' = [here EXCEPT ![c] = "closed"]
            /\ gone' = IF down[c] # <<>> THEN gone \cup {c} ELSE gone
            /\ down' = [down EXCEPT ![c] = <<>>]
            /\ Notice(c)
            /\ UNCHANGED <<lines, up, there, server, serve, reqbuf, armed, event, forgotten>>

\* The process of client c ends: it is one process for all threads of HighConcurrent-client.
ProcessEnds(c) ==
  LET leaving == IF program = "echo" THEN {c} ELSE Clients IN
  /\ client' = [d \in Clients |-> IF d \in leaving THEN "done" ELSE client[d]]
  /\ here' = [d \in Clients |-> IF d \in leaving /\ here[d] = "open" THEN "closed" ELSE here[d]]
  /\ gone' = gone \cup {d \in leaving : down[d] # <<>>}
  /\ down' = [d \in Clients |-> IF d \in leaving THEN <<>> ELSE down[d]]
  /\ edge' = edge \cup (armed \cap leaving)
  /\ UNCHANGED <<lines, received, up, there, server, serve, reqbuf, armed, event, forgotten>>

\* connect fails, or pthread_create for a connection that is there.
GiveUp ==
  \E c \in Clients :
    /\ \/ client[c] = "connect"
       \/ program # "echo" /\ client[c] = "prompt" /\ lines[c] = 0
    /\ ProcessEnds(c)

\* Nobody handles SIGPIPE, which a write to a connection that was reset may raise.
ClientKilled ==
  \E c \in Clients :
    /\ client[c] = "prompt" /\ lines[c] < Quota /\ c \in gone
    /\ ProcessEnds(c)

\* A write after the other end was closed succeeds, and resets the connection;
\* one after the reset fails, if it does not kill.
WriteLine(c) ==
  /\ client[c] = "prompt" /\ lines[c] < Quota
  /\ client' = [client EXCEPT ![c] = "read"]
  /\ lines' = [lines EXCEPT ![c] = @ + 1]
  /\ IF there[c] \in {"queued", "open"} /\ c \notin gone
     THEN /\ up' = [up EXCEPT ![c] = @ \o Line(c, lines'[c])]
          /\ Notice(c) /\ UNCHANGED gone
     ELSE gone' = gone \cup {c} /\ UNCHANGED <<up, edge>>
  /\ UNCHANGED <<received, down, here, there, server, serve, reqbuf, armed, event, forgotten>>

\* One read per line, whatever it returns; the other programs then close.
ReadReply(c) ==
  \E n \in 1..Len(down[c]) :
    /\ client[c] = "read"
    /\ client' = [client EXCEPT ![c] = IF program = "echo" THEN "prompt" ELSE "close"]
    /\ received' = [received EXCEPT ![c] = @ \o SubSeq(down[c], 1, n)]
    /\ down' = [down EXCEPT ![c] = SubSeq(@, n + 1, Len(@))]
    /\ UNCHANGED <<lines, up, here, there, gone, serverVars>>

\* The end of the input, the end of the stream, or an error.
ClientLeaves(c) ==
  /\ \/ client[c] = "prompt" /\ (lines[c] = Quota \/ c \in gone)
     \/ client[c] = "close"
     \/ client[c] = "read" /\ (c \in gone \/ (down[c] = <<>> /\ there[c] = "closed"))
  /\ Leave(c)
  /\ UNCHANGED received

EchoClient(c) == Connect(c) \/ WriteLine(c) \/ ReadReply(c) \/ ClientLeaves(c)

-----------------------------------------------------------------------------
(* What the servers have in common *)

Listen == /\ server = "setup"
          /\ server' = IF program = "epoll" THEN "wait" ELSE "accept"
          /\ UNCHANGED <<clientVars, linkVars, serve, reqbuf, pollVars>>

\* The process ends, and closes its connections: those it has not accepted or not
\* read to the end are reset.
ServerEnds ==
  /\ server' = "dead"
  /\ gone' = gone \cup {c \in Clients : there[c] = "queued" \/ (there[c] = "open" /\ up[c] # <<>>)}
  /\ there' = [c \in Clients |-> IF there[c] = "none" THEN "none" ELSE "closed"]
  /\ serve' = [c \in Clients |-> "ended"]
  /\ UNCHANGED <<clientVars, up, down, here, reqbuf, pollVars>>

\* bind, listen, accept or pthread_create fails.
ServerFails == server \in {"setup", "accept", "create"} /\ ServerEnds

Accept(c, next) == /\ there[c] = "queued"
                   /\ there' = [there EXCEPT ![c] = "open"]
                   /\ server' = next
                   /\ UNCHANGED <<clientVars, up, down, here, gone>>

\* Mutant: the buffer is shared by all the threads.
ReadIntoShared(c, buf) == reqbuf' = [d \in Clients |-> buf]

ReadInto(c, buf) == reqbuf' = [reqbuf EXCEPT ![c] = buf]

ServerRead(c) ==
  \E n \in 1..Len(up[c]) :
    /\ serve[c] = "read"
    /\ serve' = [serve EXCEPT ![c] = "write"]
    /\ ReadInto(c, SubSeq(up[c], 1, n))
    /\ up' = [up EXCEPT ![c] = SubSeq(@, n + 1, Len(@))]
    /\ UNCHANGED <<clientVars, down, here, there, gone, server, pollVars>>

\* The end of the stream, or an error.
ReadFails(c) ==
  /\ serve[c] = "read"
  /\ c \in gone \/ (up[c] = <<>> /\ here[c] = "closed")
  /\ serve' = [serve EXCEPT ![c] = "close"]
  /\ UNCHANGED <<clientVars, linkVars, server, reqbuf, pollVars>>

\* The echo; echo-server goes on with the next request.  A write succeeds, too,
\* when the client's end is closed, and resets the connection; after a reset it fails.
ServerWrite(c) ==
  /\ serve[c] = "write"
  /\ IF here[c] = "open" /\ c \notin gone
     THEN down' = [down EXCEPT ![c] = @ \o reqbuf[c]] /\ UNCHANGED gone
     ELSE gone' = gone \cup {c} /\ UNCHANGED down
  /\ serve' = [serve EXCEPT ![c] = IF program = "echo" /\ c \notin gone THEN "read" ELSE "close"]
  /\ UNCHANGED <<clientVars, up, here, there, server, reqbuf, pollVars>>

\* SIGPIPE, which nobody handles here either: a write after a reset may end the server.
ServerKilled == (\E c \in Clients : serve[c] = "write" /\ c \in gone) /\ ServerEnds

\* Mutant: the thread that has served a connection does not close it.
CloseNot(c) ==
  /\ serve[c] = "close"
  /\ serve' = [serve EXCEPT ![c] = "ended"]
  /\ UNCHANGED <<clientVars, linkVars, server, reqbuf, pollVars>>

\* close: what has not been read resets the connection.
ServerClose(c) ==
  /\ serve[c] = "close"
  /\ serve' = [serve EXCEPT ![c] = "ended"]
  /\ there' = [there EXCEPT ![c] = "closed"]
  /\ gone' = IF up[c] # <<>> THEN gone \cup {c} ELSE gone
  /\ up' = [up EXCEPT ![c] = <<>>]
  /\ armed' = armed \ {c} /\ edge' = edge \ {c}
  /\ UNCHANGED <<clientVars, down, here, server, reqbuf, event, forgotten>>

Service(c) == ServerRead(c) \/ ReadFails(c) \/ ServerWrite(c) \/ ServerClose(c)

-----------------------------------------------------------------------------
(* echo-server.c and HighConcurrent-normal-server.c *)

\* main serves the connection itself.
EchoMain == \E c \in Clients :
  \/ /\ server = "accept" /\ Accept(c, "serve")
     /\ serve' = [serve EXCEPT ![c] = "read"]
     /\ UNCHANGED <<reqbuf, pollVars>>
  \/ /\ server = "serve" /\ serve[c] = "ended" /\ \A d \in Clients : serve[d] \in {"out", "ended"}
     /\ server' = "accept"
     /\ UNCHANGED <<clientVars, linkVars, serve, reqbuf, pollVars>>

NormalMain == \E c \in Clients :
  \/ /\ server = "accept" /\ Accept(c, "create")
     /\ serve' = [serve EXCEPT ![c] = "thread"]
     /\ UNCHANGED <<reqbuf, pollVars>>
  \/ /\ server = "create" /\ serve[c] = "thread"
     /\ server' = "accept"
     /\ serve' = [serve EXCEPT ![c] = "read"]
     /\ UNCHANGED <<clientVars, linkVars, reqbuf, pollVars>>

-----------------------------------------------------------------------------
(* HighConcurrent-epoll-server.c *)

\* Level-triggered: as long as there is a connection to accept.
ListenerReady == \E c \in Clients : there[c] = "queued"

Ready == edge \cup (IF ListenerReady THEN {Listener} ELSE {})

EpollWait ==
  /\ server = "wait"
  /\ \E S \in SUBSET Ready :
       /\ S # {} /\ Cardinality(S) <= MaxEvent
       /\ event' \in SetToSeqs(S)
       /\ edge' = edge \ S
  /\ server' = "events"
  /\ UNCHANGED <<clientVars, linkVars, serve, reqbuf, armed, forgotten>>

\* Mutant: one event is handled of those that epoll_wait has returned.
FirstEventOnly == event' = <<>> /\ server' = "wait"

\* The loop over the events: on to the next one, or back to epoll_wait.
NextEvent == /\ event' = Tail(event)
             /\ server' = IF Len(event) = 1 THEN "wait" ELSE "events"

\* accept fails: continue.
AcceptFails == /\ server = "events" /\ Head(event) = Listener
               /\ NextEvent
               /\ UNCHANGED <<clientVars, linkVars, serve, reqbuf, edge, armed, forgotten>>

EpollAccept(c) ==
  /\ server = "events" /\ Head(event) = Listener
  /\ Accept(c, "add")
  /\ serve' = [serve EXCEPT ![c] = "add"]
  /\ UNCHANGED <<reqbuf, pollVars>>

\* getnameinfo fails: the connection is neither watched nor closed.
NoName(c) == /\ server = "add" /\ serve[c] = "add"
             /\ serve' = [serve EXCEPT ![c] = "ended"]
             /\ forgotten' = forgotten \cup {c}
             /\ NextEvent
             /\ UNCHANGED <<clientVars, linkVars, reqbuf, edge, armed>>

\* EPOLL_CTL_ADD makes an event of what is there already.
ReadyAtAdd(c) == up[c] # <<>> \/ here[c] = "closed" \/ c \in gone

EpollAdd(c) == /\ server = "add" /\ serve[c] = "add"
               /\ serve' = [serve EXCEPT ![c] = "watched"]
               /\ armed' = armed \cup {c}
               /\ edge' = IF ReadyAtAdd(c) THEN edge \cup {c} ELSE edge
               /\ NextEvent
               /\ UNCHANGED <<clientVars, linkVars, reqbuf, forgotten>>

\* epoll_ctl fails: main returns.
AddFails == server = "add" /\ ServerEnds

\* The event of a connection: an error, or something to read.
EpollEvent(c) ==
  /\ server = "events" /\ Head(event) = c
  /\ server' = "serve"
  /\ serve' = [serve EXCEPT ![c] = IF c \in gone THEN "close" ELSE "read"]
  /\ UNCHANGED <<clientVars, linkVars, reqbuf, pollVars>>

EpollServed(c) ==
  /\ server = "serve" /\ Head(event) = c /\ serve[c] = "ended"
  /\ NextEvent
  /\ UNCHANGED <<clientVars, linkVars, serve, reqbuf, edge, armed, forgotten>>

EpollMain ==
  \/ EpollWait \/ AcceptFails \/ AddFails
  \/ \E c \in Clients : \/ EpollAccept(c) \/ NoName(c) \/ EpollAdd(c)
                        \/ EpollEvent(c) \/ EpollServed(c)

-----------------------------------------------------------------------------
EchoServer ==
  \/ Listen \/ ServerFails \/ ServerKilled
  \/ \E c \in Clients : Service(c)
  \/ program = "echo" /\ EchoMain
  \/ program = "normal" /\ NormalMain
  \/ program = "epoll" /\ EpollMain

ClientStep == GiveUp \/ ClientKilled \/ \E c \in Clients : EchoClient(c)

\* Nothing is promised to a client that the server has forgotten.
Returned(c) == client[c] = "done" \/ c \in forgotten

AtRest == /\ \A c \in Clients : Returned(c)
          /\ server \in {"dead", "accept", "wait"}

Next == \/ ClientStep
        \/ EchoServer
        \/ AtRest /\ UNCHANGED vars

-----------------------------------------------------------------------------
\* What a client has read is what it has written, from the start and in order,
\* and nothing of what another client has written.
OwnEcho ==
  \A c \in Clients :
    /\ Len(received[c]) <= lines[c] * LineLen
    /\ received[c] = [k \in DOMAIN received[c] |-> <<c, k>>]

\* Every connection that is accepted is closed in the end, except those whose
\* name was not found.
DescriptorsClosed == <>[](\A c \in Clients : there[c] = "open" => c \in forgotten)
=============================================================================
