---------------------------- MODULE TCPPrograms ----------------------------
(***************************************************************************)
(* The four pairs of TCP programs of chapter7 side by side: TCP-client and *)
(* TCP-server, and those that end in -reliable, -thread-recv and           *)
(* -thread-send.                                                           *)
(***************************************************************************)
EXTENDS TCPStream

CONSTANTS RequestNum,  \* requestNum or sentTimes, argv[3]
          Size,        \* bytes of a RequestInfo, and of most messages
          ShortCount,  \* the number of messages whose number has 7 digits
          HdrSize,     \* bytes of a DataInfo or an int
          BufSize,     \* BUFSIZ
          AllocStep    \* REQUEST_BUFFER_ALLOC_STEP

ASSUME TCPAssumption ==
  /\ {RequestNum, Size, ShortCount, HdrSize, BufSize, AllocStep, MaxThreads, Capacity}
       \subseteq Nat \ {0}

Programs == {"TCP", "reliable", "recv", "send"}

VARIABLES program,    \* which of the pairs runs: it never changes
          threadNum,  \* argv[2] of the servers with threads
          at,         \* where each agent is
          num,        \* the counter of an agent's loop, or its bytes
          dInfo,      \* dInfo[a]: the requests it has received
          bufLen,     \* bufLen[a]: how many requests its buffer has room for
          total       \* total[s]: what side s has printed at the end, -1 before

ownVars == <<at, num, dInfo, bufLen>>
vars == <<linkVars, chunkVars, ownVars, total, threadNum>>

Threads == 1..threadNum
WithThreads == {"recv", "send"}

Init ==
  /\ StreamInit
  /\ threadNum \in IF program \in WithThreads THEN 1..MaxThreads ELSE {1}
  /\ at = [a \in Agents |-> IF a \in Sides THEN "setup" ELSE "out"]
  /\ num = [a \in Agents |-> 0]
  /\ dInfo = [a \in Agents |-> <<>>]
  /\ bufLen = [a \in Agents |-> IF a = Client THEN RequestNum ELSE AllocStep]
  /\ total = [s \in Sides |-> -1]

Block(a, value, n) == [k \in 1..n |-> <<a, value>>]
Header(a, value) == Block(a, value, HdrSize)

\* "*%07d*" gets longer when the number has more than 7 digits.
LengthOf(k) == IF program \in {"TCP", "reliable"} /\ k >= ShortCount THEN Size + 1 ELSE Size
Message(a, k) == Block(a, k, LengthOf(k))

\* The bytes of the first n messages of the pairs without threads.
LengthOfAll(n) == n * Size + (IF n > ShortCount THEN n - ShortCount ELSE 0)

\* All that the client sends but its header.
DataLen == LengthOfAll(RequestNum)

At(a, label) == Idle(a) /\ at[a] = label
Move(a, from, to) == At(a, from) /\ at' = [at EXCEPT ![a] = to]

Finish(s, what) == End(s, "ok") /\ total' = [total EXCEPT ![s] = what]
                   /\ UNCHANGED <<chunkVars, ownVars>>

Fail(s) == End(s, "failed") /\ UNCHANGED <<chunkVars, ownVars, total>>

-----------------------------------------------------------------------------
(* The connection is set up *)

Listen == /\ Move(Server, "setup", "listening")
          /\ UNCHANGED <<linkVars, chunkVars, num, dInfo, bufLen, total>>

Connect == /\ At(Client, "setup") /\ At(Server, "listening")
           /\ at' = [at EXCEPT ![Client] = "start", ![Server] = "start"]
           /\ UNCHANGED <<linkVars, chunkVars, num, dInfo, bufLen, total>>

\* socket, bind or accept fails; connect does when the server does not listen yet.
SetUpFails(s) == (At(s, "setup") \/ At(s, "listening")) /\ Fail(s)

SetUp == Listen \/ Connect \/ \E s \in Sides : SetUpFails(s)

-----------------------------------------------------------------------------
(* What the programs have in common *)

\* One message or request per round, until there are n.
SendNext(a, n) ==
  /\ At(a, "send") /\ num[a] < n
  /\ SendAll(a, Message(a, num[a]))
  /\ num' = [num EXCEPT ![a] = @ + 1]
  /\ UNCHANGED <<linkVars, at, dInfo, bufLen, total>>

\* recvAllChunk into dInfo[totalRequestNum].
RecvRequest(a) ==
  /\ At(a, "recv")
  /\ at' = [at EXCEPT ![a] = "received"]
  /\ RecvAll(a, Size)
  /\ UNCHANGED <<linkVars, num, dInfo, bufLen, total>>

Received(a) == /\ Move(a, "received", "recv")
               /\ dInfo' = [dInfo EXCEPT ![a] = Append(@, got[a])]
               /\ UNCHANGED <<linkVars, chunkVars, num, total>>

SendFailed(a) == SendFails(a) /\ Fail(Side(a))
RecvFailed(a) == RecvFails(a) /\ Fail(Side(a))

\* The loop of a receiver ends: nothing more comes; what it has of a request is lost.
NoMore(a, to) == /\ RecvFails(a)
                 /\ want' = [want EXCEPT ![a] = 0]
                 /\ at' = [at EXCEPT ![a] = to]
                 /\ UNCHANGED <<linkVars, out, got, num, dInfo, bufLen, total>>

\* Mutant: recv is called once for a chunk.
RecvOnce(a) == RecvSome(a, FALSE) /\ UNCHANGED <<ownVars, total>>

SendPart(a) == SendSome(a) /\ UNCHANGED <<ownVars, total>>
RecvPart(a) == RecvSome(a, TRUE) /\ UNCHANGED <<ownVars, total>>

-----------------------------------------------------------------------------
(* TCP-client.c and TCP-server.c *)

ClientStart == Move(Client, "start", "send") /\ UNCHANGED <<linkVars, chunkVars, num, dInfo, bufLen, total>>

TCPClient ==
  \/ ClientStart \/ SendNext(Client, RequestNum) \/ SendPart(Client) \/ SendFailed(Client)
  \/ At(Client, "send") /\ num[Client] = RequestNum /\ Finish(Client, DataLen)

\* Each recv is one round, however much it returns.
TCPServer ==
  \/ /\ At(Server, "start")
     /\ RecvAll(Server, BufSize)
     /\ num' = [num EXCEPT ![Server] = @ + Len(got[Server])]
     /\ UNCHANGED <<linkVars, at, dInfo, bufLen, total>>
  \/ RecvSome(Server, FALSE) /\ UNCHANGED <<ownVars, total>>
  \/ NoMore(Server, "end")
  \/ At(Server, "end") /\ Finish(Server, num[Server])

-----------------------------------------------------------------------------
(* TCP-client-reliable.c and TCP-server-reliable.c *)

\* dInfo.len=sentTimes*9
SendHeader == /\ Move(Client, "start", "send")
              /\ SendAll(Client, Header(Client, RequestNum * Size))
              /\ UNCHANGED <<linkVars, num, dInfo, bufLen, total>>

AwaitAck == /\ Move(Client, "send", "ack") /\ num[Client] = RequestNum
            /\ RecvAll(Client, HdrSize)
            /\ UNCHANGED <<linkVars, num, dInfo, bufLen, total>>

ReliableClient ==
  \/ SendHeader \/ SendNext(Client, RequestNum) \/ AwaitAck
  \/ SendPart(Client) \/ RecvPart(Client) \/ SendFailed(Client) \/ RecvFailed(Client)
  \/ At(Client, "ack") /\ Finish(Client, got[Client][1][2])

RecvHeader == /\ Move(Server, "start", "header")
              /\ RecvAll(Server, HdrSize)
              /\ UNCHANGED <<linkVars, num, dInfo, bufLen, total>>

HeaderRead(to) == /\ Move(Server, "header", to)
                  /\ dInfo' = [dInfo EXCEPT ![Server] = <<got[Server]>>]
                  /\ UNCHANGED <<linkVars, chunkVars, num, bufLen, total>>

\* What the header says: dInfo.len or sentRequestNum.
Announced == dInfo[Server][1][1][2]

\* Mutant: the acknowledgment is sent before the last chunk of data.
AlmostAllReceived == num[Server] + BufSize >= Announced

AllReceived == num[Server] >= Announced

RecvData == /\ At(Server, "data") /\ ~AllReceived
            /\ LET chunkSize == Min({BufSize, Announced - num[Server]})
               IN  /\ RecvAll(Server, chunkSize)
                   /\ num' = [num EXCEPT ![Server] = @ + chunkSize]
            /\ UNCHANGED <<linkVars, at, dInfo, bufLen, total>>

SendAck == /\ Move(Server, "data", "end") /\ AllReceived
           /\ SendAll(Server, Header(Server, Announced))
           /\ UNCHANGED <<linkVars, num, dInfo, bufLen, total>>

ReliableServer ==
  \/ RecvHeader \/ HeaderRead("data") \/ RecvData \/ SendAck
  \/ SendPart(Server) \/ RecvPart(Server) \/ SendFailed(Server) \/ RecvFailed(Server)
  \/ At(Server, "end") /\ Finish(Server, num[Server])

-----------------------------------------------------------------------------
(* TCP-client-thread-recv.c and TCP-server-thread-recv.c *)

RecvClient ==
  \/ ClientStart \/ SendNext(Client, RequestNum) \/ SendPart(Client) \/ SendFailed(Client)
  \/ At(Client, "send") /\ num[Client] = RequestNum /\ Finish(Client, RequestNum)

\* The threads are created in order; num[Server] counts them.
Create(from, label) ==
  /\ At(Server, from) /\ num[Server] < threadNum
  /\ num' = [num EXCEPT ![Server] = @ + 1]
  /\ at' = [at EXCEPT ![num'[Server]] = label]
  /\ UNCHANGED <<linkVars, chunkVars, dInfo, bufLen, total>>

CreateFails(from) == At(Server, from) /\ num[Server] < threadNum /\ Fail(Server)

Join(from) == At(Server, from) /\ num[Server] = threadNum /\ \A t \in Threads : at[t] = "end"

\* Mutant: a request that has only begun is counted, too.
NoMoreCounted(t) == /\ RecvFails(t)
                    /\ want' = [want EXCEPT ![t] = 0]
                    /\ at' = [at EXCEPT ![t] = "end"]
                    /\ dInfo' = [dInfo EXCEPT ![t] = Append(@, got[t])]
                    /\ UNCHANGED <<linkVars, out, got, num, bufLen, total>>

NoMoreRequests(t) == NoMore(t, "end")

\* The buffer is full: it gets AllocStep more.
Grow(t) == bufLen' = [bufLen EXCEPT ![t] = IF Len(dInfo'[t]) = @ THEN @ + AllocStep ELSE @]

ReallocFails(t) == At(t, "received") /\ Len(dInfo[t]) + 1 = bufLen[t] /\ Fail(Server)

RecvThread(t) ==
  \/ RecvRequest(t) \/ RecvPart(t) \/ ReallocFails(t) \/ NoMoreRequests(t)
  \/ Received(t) /\ Grow(t)
  \/ At(t, "recv") /\ dInfo[t] = <<>> /\ Fail(Server)  \* fopen fails

\* The requests that the threads have received, for main to add up.
Requests == UNION {{t} \X DOMAIN dInfo[t] : t \in Threads}

RecvServer ==
  \/ Create("start", "recv") \/ CreateFails("start") \/ \E t \in Threads : RecvThread(t)
  \/ Join("start") /\ Finish(Server, Cardinality(Requests))

-----------------------------------------------------------------------------
(* TCP-client-thread-send.c and TCP-server-thread-send.c *)

AskRequests == /\ Move(Client, "start", "recv")
               /\ SendAll(Client, Header(Client, RequestNum))
               /\ UNCHANGED <<linkVars, num, dInfo, bufLen, total>>

SendClient ==
  \/ AskRequests \/ SendPart(Client) \/ SendFailed(Client)
  \/ RecvRequest(Client) \/ RecvPart(Client) \/ NoMore(Client, "end")
  \/ Received(Client) /\ UNCHANGED bufLen
  \/ At(Client, "recv") /\ dInfo[Client] = <<>> /\ Fail(Client)  \* fopen fails
  \/ At(Client, "end") /\ Finish(Client, Len(dInfo[Client]))

\* Mutant: the division is rounded up.
ShareUp == (Announced + threadNum - 1) \div threadNum

\* sentRequestNum/threadNum
Share == Announced \div threadNum

SendThread(t) ==
  \/ SendNext(t, Share) \/ SendPart(t) \/ SendFailed(t)
  \/ /\ Move(t, "send", "end")
     /\ num[t] = Share
     /\ UNCHANGED <<linkVars, chunkVars, num, dInfo, bufLen, total>>

SendServer ==
  \/ RecvHeader \/ HeaderRead("create") \/ RecvPart(Server) \/ RecvFailed(Server)
  \/ Create("create", "send") \/ CreateFails("create") \/ \E t \in Threads : SendThread(t)
  \/ Join("create") /\ Finish(Server, Share * threadNum)

-----------------------------------------------------------------------------
Program ==
  /\ \/ SetUp
     \/ program = "TCP" /\ (TCPClient \/ TCPServer)
     \/ program = "reliable" /\ (ReliableClient \/ ReliableServer)
     \/ program = "recv" /\ (RecvClient \/ RecvServer)
     \/ program = "send" /\ (SendClient \/ SendServer)
  /\ UNCHANGED threadNum

\* A server whose client could not connect waits for another one.
AllEnded == /\ ended[Client] # "no"
            /\ ended[Server] # "no" \/ at[Server] = "listening"

Next == \/ Program
        \/ Break /\ UNCHANGED <<ownVars, total, threadNum>>
        \/ AllEnded /\ UNCHANGED vars

-----------------------------------------------------------------------------
\* "The receiver has successfully received data": when the client says so the
\* server has received all that it sent, whatever has become of the connection.
SuccessMeansReceived ==
  program = "reliable" /\ ended[Client] = "ok" =>
    num[Server] = DataLen /\ total[Client] = DataLen

\* The other pairs print the same total at both ends when the connection has
\* lasted; but the threads that share a socket for receiving lose less than one
\* request each, those that share it for sending none.
TotalsMatch ==
  /\ SuccessMeansReceived
  /\ (~reset /\ \A s \in Sides : ended[s] = "ok") =>
       CASE program \in {"TCP", "send"} -> total[Client] = total[Server]
         [] program = "recv" -> total[Server] \in (RequestNum - threadNum + 1)..RequestNum
         [] OTHER -> TRUE

\* Nothing is received beyond the end of a buffer: it grows in time, or the
\* other side sends no more than the buffer has room for.
BufferFits ==
  \A a \in Agents : program \in WithThreads /\ at[a] = "received" /\ got[a] # <<>> =>
                       Len(dInfo[a]) < bufLen[a]

\* A thread that has the socket for itself gets the requests whole and in order.
AloneInOrder ==
  \A a \in Agents :
    threadNum = 1 /\ program \in WithThreads /\ a # Server =>
      \A k \in DOMAIN dInfo[a] : \A b \in DOMAIN dInfo[a][k] : dInfo[a][k][b][2] = k - 1
=============================================================================
