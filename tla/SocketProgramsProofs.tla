------------------------ MODULE SocketProgramsProofs ------------------------
(***************************************************************************)
(* Theorems about SocketPrograms.tla for any number of threads, requests   *)
(* and clients and any sizes of messages, buffers and lines.               *)
(*                                                                         *)
(* The four pairs of TCPPrograms: PairInv says of each pair where every    *)
(* byte is that was sent.  The echo servers: EchoInv says it of each       *)
(* connection, in the order of the bytes.                                  *)
(***************************************************************************)
EXTENDS SocketPrograms, FiniteSetTheorems, SequenceTheorems, TLAPS

\* Len: the proofs that count bytes keep it folded.
Length(s) == Len(s)

Bytes == Agents \X Int

Labels == {"setup", "listening", "start", "send", "ack", "header", "data", "create", "recv",
           "received", "end", "out"}

STypeOK ==
  /\ wire \in [Sides -> Seq(Bytes)] /\ out \in [Agents -> Seq(Bytes)]
  /\ got \in [Agents -> Seq(Bytes)] /\ want \in [Agents -> Nat]
  /\ ended \in [Sides -> {"no", "ok", "failed"}] /\ reset \in BOOLEAN
  /\ threadNum \in 1..MaxThreads
  /\ at \in [Agents -> Labels]
  /\ num \in [Agents -> Nat] /\ bufLen \in [Agents -> Nat]
  /\ dInfo \in [Agents -> Seq(Seq(Bytes))]
  /\ total \in [Sides -> Int]

\* All bytes of s have the value v.
All(s, v) == \A i \in 1..Length(s) : s[i][2] = v

\* a is receiving a chunk of n bytes, or has received it, while it is at the label.
Receiving(a, label, n) ==
  IF at[a] = label THEN Length(got[a]) + want[a] = n ELSE want[a] = 0

\* Agents that do not take part, or not yet.
Unborn(a) == /\ at[a] = "out" /\ num[a] = 0 /\ want[a] = 0
             /\ out[a] = <<>> /\ got[a] = <<>> /\ dInfo[a] = <<>>

-----------------------------------------------------------------------------
\* What the client has sent so far, wherever it is now.
TCPArrived == num[Server] + Length(got[Server]) + Length(wire[Server]) + Length(out[Client])

TCPInv ==
  /\ at[Client] \in {"setup", "start", "send"} /\ want[Client] = 0
  /\ at[Client] # "send" => num[Client] = 0 /\ out[Client] = <<>>
  /\ num[Client] <= RequestNum
  /\ at[Server] \in {"setup", "listening", "start", "end"} /\ out[Server] = <<>>
  /\ want[Server] > 0 => at[Server] = "start" /\ got[Server] = <<>>
  /\ at[Server] = "end" => got[Server] = <<>>
  /\ ~reset => TCPArrived = LengthOfAll(num[Client])
  /\ at[Server] = "end" /\ ~reset => wire[Server] = <<>> /\ ended[Client] # "no"
  /\ ended[Client] = "ok" =>
       total[Client] = DataLen /\ num[Client] = RequestNum /\ out[Client] = <<>>
  /\ ended[Server] = "ok" => total[Server] = num[Server] /\ at[Server] = "end"

Long == RequestNum * Size

\* Where the two are, and what they are in the middle of.
ClientPlace ==
  /\ at[Client] \in {"setup", "start", "send", "ack"}
  /\ at[Client] \in {"setup", "start"} => out[Client] = <<>> /\ wire[Server] = <<>>
  /\ at[Client] # "ack" => got[Client] = <<>>
  /\ Receiving(Client, "ack", HdrSize)

ServerPlace ==
  /\ at[Server] \in {"setup", "listening", "start", "header", "data", "end"}
  /\ at[Server] \in {"setup", "listening", "start"} => got[Server] = <<>> /\ want[Server] = 0
  /\ at[Server] = "header" => Length(got[Server]) + want[Server] = HdrSize
  /\ at[Server] = "end" => want[Server] = 0

BeforeData == at[Server] \in {"setup", "listening", "start", "header"}

\* The header is the first that the server gets.
HeaderFirst ==
  BeforeData =>
    /\ num[Server] = 0 /\ All(got[Server], Long)
    /\ ended[Server] = "no" =>
         /\ \A i \in 1..Length(wire[Server]) :
              Length(got[Server]) + i <= HdrSize => wire[Server][i][2] = Long
         /\ \A i \in 1..Length(out[Client]) :
              Length(got[Server]) + Length(wire[Server]) + i <= HdrSize => out[Client][i][2] = Long
         /\ at[Client] \in {"send", "ack"} =>
              Length(got[Server]) + Length(wire[Server]) + Length(out[Client]) >= HdrSize

DataCounted ==
  /\ at[Server] \in {"data", "end"} =>
       dInfo[Server] # <<>> /\ dInfo[Server][1] # <<>> /\ Announced = Long
  /\ at[Server] = "data" => num[Server] <= Long
  /\ at[Server] = "end" => num[Server] = Long

\* The acknowledgment comes after the last byte of data.
AckLast ==
  /\ All(wire[Client], Long) /\ All(out[Server], Long) /\ All(got[Client], Long)
  /\ wire[Client] # <<>> \/ out[Server] # <<>> \/ got[Client] # <<>> => at[Server] = "end"
  /\ ended[Client] = "ok" => at[Server] = "end" /\ total[Client] = Long

ReliableInv == ClientPlace /\ ServerPlace /\ HeaderFirst /\ DataCounted /\ AckLast

-----------------------------------------------------------------------------
(* recv and send *)

Writers == IF program = "recv" THEN {Client} ELSE Threads
Readers == IF program = "recv" THEN Threads ELSE {Client}
To == IF program = "recv" THEN Server ELSE Client

\* The sum of n[a] over S, as the cardinality of a set.
UpTo(S, n) == UNION {{a} \X (1..n[a]) : a \in S}
SumOver(S, n) == Cardinality(UpTo(S, n))

\* What a has of a request that is not complete.
Partly(a) == IF at[a] \in {"received", "end"} THEN Length(got[a]) ELSE 0

OutLens == [a \in Agents |-> Length(out[a])]
InfoLens == [a \in Agents |-> Length(dInfo[a])]
PartLens == [a \in Agents |-> Partly(a)]

Sent == SumOver(Writers, num)
Unsent == SumOver(Writers, OutLens)
Got == SumOver(Readers, InfoLens)
Partial == SumOver(Readers, PartLens)

\* Every byte sent is in a request received, in part of one, on the wire, or still to
\* go; when the connection is lost, some are gone.
Arrived == Got * Size + Partial + Length(wire[To]) + Unsent

Conserved == /\ Arrived <= Sent * Size
             /\ ~reset => Arrived = Sent * Size

ReadersInv ==
  \A a \in Readers :
    /\ at[a] \in {"out", "setup", "start", "recv", "received", "end"}
    /\ Receiving(a, "received", Size)
    /\ at[a] = "end" => Length(got[a]) < Size
    /\ at[a] = "end" /\ ~reset => wire[To] = <<>> /\ ended[Peer(a)] # "no"

WritersInv ==
  \A a \in Writers :
    /\ at[a] \in {"out", "setup", "start", "send", "end"} /\ want[a] = 0
    /\ at[a] \notin {"send", "end"} => num[a] = 0
    /\ at[a] # "send" => out[a] = <<>>

ThreadsInv ==
  /\ \A t \in 1..MaxThreads : at[t] = "out" => Unborn(t)
  /\ \A t \in 1..MaxThreads : at[t] = "out" <=> t > num[Server]
  /\ num[Server] <= threadNum
  /\ \A a \in Agents \ (Readers \cup {Server}) : dInfo[a] = <<>>

RecvInv ==
  /\ at[Client] # "end" /\ num[Client] <= RequestNum
  /\ at[Server] \in {"setup", "listening", "start"} /\ out[Server] = <<>> /\ want[Server] = 0
  /\ \A t \in Threads : out[t] = <<>> /\ at[t] \in {"out", "recv", "received", "end"}
  /\ \A t \in Threads : Length(dInfo[t]) < bufLen[t]
  /\ ended[Client] = "ok" => num[Client] = RequestNum /\ out[Client] = <<>>
  /\ ended[Server] = "ok" => /\ \A t \in Threads : at[t] = "end"
                             /\ total[Server] = Got

Part == RequestNum \div threadNum

SendInv ==
  /\ at[Client] # "out" /\ bufLen[Client] = RequestNum
  /\ at[Server] \in {"setup", "listening", "start", "header", "create"}
  /\ Receiving(Server, "header", HdrSize) /\ out[Server] = <<>>
  /\ All(out[Client], RequestNum) /\ All(wire[Server], RequestNum)
  /\ All(got[Server], RequestNum)
  /\ at[Server] \in {"header", "create"} \/ got[Server] = <<>>
  /\ at[Server] = "create" =>
       dInfo[Server] # <<>> /\ dInfo[Server][1] # <<>> /\ Announced = RequestNum
  /\ at[Server] # "create" => num[Server] = 0
  /\ \A t \in Threads : /\ num[t] <= Part /\ at[t] \in {"out", "send", "end"}
                        /\ at[t] = "end" => num[t] = Part
  /\ ended[Client] = "ok" => at[Client] = "end" /\ total[Client] = Length(dInfo[Client])
  /\ ended[Server] = "ok" => /\ \A t \in Threads : at[t] = "end"
                             /\ total[Server] = Part * threadNum

Reader == IF program = "recv" THEN 1 ELSE Client
Writer == IF program = "recv" THEN Client ELSE 1

\* The byte at place p of the stream is of message v.
Fits(v, p) == v * Size <= p /\ p < (v + 1) * Size

\* Where in the stream the next byte for the reader is.
Place == Length(dInfo[Reader]) * Size + Partly(Reader)

AloneInv ==
  /\ \A k \in 1..Length(dInfo[Reader]) : All(dInfo[Reader][k], k - 1)
  /\ at[Reader] = "received" => All(got[Reader], Length(dInfo[Reader]))
  /\ ended[To] = "no" =>
       /\ \A i \in 1..Length(wire[To]) : Fits(wire[To][i][2], Place + i - 1)
       /\ \A i \in 1..Length(out[Writer]) : Fits(out[Writer][i][2], Place + Length(wire[To]) + i - 1)
       /\ Place + Length(wire[To]) + Length(out[Writer]) = num[Writer] * Size

DataInv == /\ Conserved /\ ReadersInv /\ WritersInv /\ ThreadsInv
           /\ (threadNum = 1 => AloneInv)

PairInv == /\ STypeOK
           /\ program = "TCP" => TCPInv
           /\ program = "reliable" => ReliableInv
           /\ program = "recv" => DataInv /\ RecvInv
           /\ program = "send" => DataInv /\ SendInv

-----------------------------------------------------------------------------
(* The echo servers *)

EBytes == Clients \X Nat

EchoTypeOK ==
  /\ client \in [Clients -> {"connect", "prompt", "read", "close", "done"}]
  /\ lines \in [Clients -> Nat] /\ received \in [Clients -> Seq(EBytes)]
  /\ up \in [Clients -> Seq(EBytes)] /\ down \in [Clients -> Seq(EBytes)]
  /\ here \in [Clients -> {"none", "open", "closed"}]
  /\ there \in [Clients -> {"none", "queued", "open", "closed"}]
  /\ gone \in SUBSET Clients
  /\ serve \in [Clients -> {"out", "read", "write", "close", "thread", "add", "watched", "ended"}]
  /\ reqbuf \in [Clients -> Seq(EBytes)]

\* s has the bytes of c that follow the first k.
From(c, k, s) == \A i \in 1..Length(s) : s[i] = <<c, k + i>>

Serving(c) == serve[c] \in {"read", "write", "close"}

\* The loop over the events of epoll serves one connection at a time.
InTurn == program = "epoll" => \A c \in Clients : Serving(c) => server = "serve" /\ Head(event) = c

ConnectionOK(c) ==
  /\ client[c] = "connect" => here[c] = "none"
  /\ client[c] \in {"prompt", "read", "close"} => here[c] = "open"
  /\ here[c] = "open" => there[c] # "none"
  /\ here[c] = "none" =>
       /\ lines[c] = 0 /\ received[c] = <<>> /\ up[c] = <<>> /\ down[c] = <<>>
       /\ serve[c] # "write" /\ there[c] # "queued"
  /\ there[c] = "closed" /\ c \notin gone => up[c] = <<>> /\ serve[c] # "write"
  /\ program # "epoll" /\ (here[c] = "none" \/ there[c] = "queued") => serve[c] \in {"out", "ended"}

\* How much the client has or will have got, without what is still on its way up.
Back(c) == Length(received[c]) + Length(down[c])

Waiting(c) == IF serve[c] = "write" THEN Length(reqbuf[c]) ELSE 0

\* What c has written is read, on its way back, in the server's buffer, or on its
\* way to the server, in this order; when the connection is gone, some is gone.
Chain(c) ==
  /\ From(c, 0, received[c]) /\ From(c, Length(received[c]), down[c])
  /\ Back(c) <= lines[c] * LineLen
  /\ here[c] = "open" /\ c \notin gone /\ there[c] # "closed" =>
       /\ serve[c] = "write" => From(c, Back(c), reqbuf[c])
       /\ From(c, Back(c) + Waiting(c), up[c])
       /\ Back(c) + Waiting(c) + Length(up[c]) = lines[c] * LineLen

EchoInv == EchoTypeOK /\ InTurn /\ \A c \in Clients : ConnectionOK(c) /\ Chain(c)

-----------------------------------------------------------------------------
(* Numbers and sequences *)

\* Min of the community modules, of two numbers.
LEMMA LeastOfTwo ==
  ASSUME NEW x \in Int, NEW y \in Int
  PROVE  Min({x, y}) = IF x <= y THEN x ELSE y
BY DEF Min

LEMMA LengthType ==
  ASSUME NEW B, NEW s \in Seq(B)
  PROVE  Length(s) \in Nat /\ Length(s) = Len(s) /\ (s = <<>> <=> Length(s) = 0)
BY EmptySeq, LenProperties DEF Length

LEMMA LengthOfMember ==
  ASSUME NEW S, NEW B, NEW f \in [S -> Seq(B)], NEW x \in S
  PROVE  Length(f[x]) \in Nat /\ Length(f[x]) = Len(f[x]) /\ (f[x] = <<>> <=> Length(f[x]) = 0)
<1>1. f[x] \in Seq(B)
  OBVIOUS
<1> QED
  BY <1>1, LengthType

LEMMA LengthOfNone == Length(<<>>) = 0
BY DEF Length

\* s loses its first n elements and becomes r; they go to the end of w, which becomes x.
Pours(s, n, r, w, x) ==
  /\ Length(r) = Length(s) - n /\ Length(x) = Length(w) + n
  /\ \A i \in 1..Length(r) : r[i] = s[i + n]
  /\ \A i \in 1..Length(w) : x[i] = w[i]
  /\ \A i \in 1..n : x[Length(w) + i] = s[i]

LEMMA Pouring ==
  ASSUME NEW B, NEW s \in Seq(B), NEW w \in Seq(B), NEW n \in 1..Len(s)
  PROVE  LET r == SubSeq(s, n + 1, Len(s))
             x == w \o SubSeq(s, 1, n)
         IN  r \in Seq(B) /\ x \in Seq(B) /\ Pours(s, n, r, w, x)
<1> DEFINE r == SubSeq(s, n + 1, Len(s))
           f == SubSeq(s, 1, n)
           x == w \o f
<1>1. r \in Seq(B) /\ Len(r) = Len(s) - n /\ \A i \in 1..Len(r) : r[i] = s[i + n]
  OBVIOUS
<1>2. f \in Seq(B) /\ Len(f) = n /\ \A i \in 1..n : f[i] = s[i]
  OBVIOUS
<1> HIDE DEF f
<1>3. /\ x \in Seq(B) /\ Len(x) = Len(w) + n
      /\ \A i \in 1..Len(w) : x[i] = w[i]
      /\ \A i \in 1..n : x[Len(w) + i] = f[i]
  BY <1>2
<1> QED
  BY <1>1, <1>2, <1>3 DEF Pours, f, Length

LEMMA PouringKeeps ==
  ASSUME NEW B, NEW s \in Seq(B), NEW r \in Seq(B), NEW w \in Seq(B), NEW x \in Seq(B),
         NEW n \in Int, Pours(s, n, r, w, x)
  PROVE  Length(r) + Length(x) = Length(s) + Length(w)
<1>1. Length(r) = Length(s) - n /\ Length(x) = Length(w) + n
  BY DEF Pours
<1>2. Length(s) \in Nat /\ Length(w) \in Nat /\ Length(r) \in Nat /\ Length(x) \in Nat
  BY LengthType
<1> QED
  BY <1>1, <1>2

LEMMA BlockIsUniform ==
  ASSUME NEW a \in Agents, NEW v \in Int, NEW n \in Nat
  PROVE  /\ Block(a, v, n) \in Seq(Bytes) /\ Length(Block(a, v, n)) = n
         /\ All(Block(a, v, n), v) /\ DOMAIN Block(a, v, n) = 1..n
BY DEF Block, All, Bytes, Length

\* What a send takes goes to the end of the wire, or the connection is reset.
SendEffect(a) ==
  /\ Running(a) /\ ~reset /\ UNCHANGED <<ended, want, got>>
  /\ wire' \in [Sides -> Seq(Bytes)] /\ out' \in [Agents -> Seq(Bytes)]
  /\ reset' \in BOOLEAN
  /\ \A b \in Agents \ {a} : out'[b] = out[b]
  /\ \A s \in Sides \ {Peer(a)} : wire'[s] = wire[s]
  /\ Length(wire[Peer(a)]) \in Nat /\ Length(out[a]) \in Nat \ {0}
  /\ Length(wire'[Peer(a)]) \in Nat /\ Length(out'[a]) \in Nat
  /\ reset' \/ Length(out'[a]) + Length(wire'[Peer(a)]) = Length(out[a]) + Length(wire[Peer(a)])
  /\ \E n \in 1..Length(out[a]) :
       /\ Length(out'[a]) = Length(out[a]) - n
       /\ \A i \in 1..Length(out'[a]) : out'[a][i] = out[a][i + n]
       /\ ended[Peer(a)] = "no" =>
            ~reset' /\ Pours(out[a], n, out'[a], wire[Peer(a)], wire'[Peer(a)])
       /\ ended[Peer(a)] # "no" => reset' /\ UNCHANGED wire

LEMMA Sends ==
  ASSUME STypeOK, NEW a \in Agents, SendSome(a)
  PROVE  SendEffect(a)
<1> USE DEF SendEffect
<1>0. wire \in [Sides -> Seq(Bytes)] /\ out \in [Agents -> Seq(Bytes)] /\ reset \in BOOLEAN
  BY DEF STypeOK
<1>1. Peer(a) \in Sides
  BY DEF Peer, Sides
<1>2. PICK n \in 1..Length(out[a]) :
         /\ Running(a) /\ ~reset
         /\ out' = [out EXCEPT ![a] = SubSeq(@, n + 1, Len(@))]
         /\ IF ended[Peer(a)] = "no"
            THEN wire' = [wire EXCEPT ![Peer(a)] = @ \o SubSeq(out[a], 1, n)] /\ UNCHANGED reset
            ELSE reset' = TRUE /\ UNCHANGED wire
         /\ UNCHANGED <<ended, want, got>>
  BY <1>0, LengthOfMember DEF SendSome
<1> DEFINE r == SubSeq(out[a], n + 1, Len(out[a]))
           x == wire[Peer(a)] \o SubSeq(out[a], 1, n)
<1>3. r \in Seq(Bytes) /\ x \in Seq(Bytes) /\ Pours(out[a], n, r, wire[Peer(a)], x)
  BY <1>0, <1>1, <1>2, LengthOfMember, Pouring
<1>4. Length(r) = Length(out[a]) - n /\ \A i \in 1..Length(r) : r[i] = out[a][i + n]
  BY <1>3, LengthType DEF Pours
<1>5. out' = [out EXCEPT ![a] = r]
  BY <1>2
<1>6. ended[Peer(a)] = "no" => wire' = [wire EXCEPT ![Peer(a)] = x]
  BY <1>2, <1>0, <1>1
<1> HIDE DEF r, x
<1>7. out' \in [Agents -> Seq(Bytes)] /\ out'[a] = r /\ \A b \in Agents \ {a} : out'[b] = out[b]
  BY <1>0, <1>3, <1>5
<1>a. Length(wire[Peer(a)]) \in Nat /\ Length(out[a]) \in Nat \ {0} /\ Length(r) \in Nat
  BY <1>0, <1>1, <1>2, <1>3, LengthOfMember, LengthType
<1>8. CASE ended[Peer(a)] = "no"
  <2>1. /\ wire' \in [Sides -> Seq(Bytes)] /\ wire'[Peer(a)] = x
        /\ \A s \in Sides \ {Peer(a)} : wire'[s] = wire[s]
    BY <1>0, <1>1, <1>3, <1>6, <1>8
  <2>2. ~reset' /\ reset' \in BOOLEAN
    BY <1>0, <1>2, <1>8
  <2>3. Length(r) + Length(x) = Length(out[a]) + Length(wire[Peer(a)])
    BY <1>0, <1>1, <1>3, PouringKeeps
  <2>4. Length(x) \in Nat
    BY <1>3, LengthType
  <2> QED
    BY <1>2, <1>3, <1>4, <1>7, <1>8, <1>a, <2>1, <2>2, <2>3, <2>4
<1>9. CASE ended[Peer(a)] # "no"
  <2>1. reset' /\ reset' \in BOOLEAN /\ UNCHANGED wire
    BY <1>2, <1>9
  <2> QED
    BY <1>0, <1>2, <1>3, <1>4, <1>7, <1>9, <1>a, <2>1
<1> QED
  BY <1>8, <1>9

\* What a recv returns comes from the head of the wire.
RecvEffect(a, again) ==
  /\ Running(a) /\ UNCHANGED <<ended, reset, out>>
  /\ wire' \in [Sides -> Seq(Bytes)] /\ got' \in [Agents -> Seq(Bytes)]
  /\ want' \in [Agents -> Nat]
  /\ \A b \in Agents \ {a} : got'[b] = got[b] /\ want'[b] = want[b]
  /\ \A s \in Sides \ {Side(a)} : wire'[s] = wire[s]
  /\ Length(wire[Side(a)]) \in Nat /\ Length(got[a]) \in Nat
  /\ Length(wire'[Side(a)]) \in Nat /\ Length(got'[a]) \in Nat
  /\ Length(wire'[Side(a)]) + Length(got'[a]) = Length(wire[Side(a)]) + Length(got[a])
  /\ \E n \in 1..want[a] :
       /\ Pours(wire[Side(a)], n, wire'[Side(a)], got[a], got'[a])
       /\ want'[a] = IF again THEN want[a] - n ELSE 0

LEMMA Receives ==
  ASSUME STypeOK, NEW a \in Agents, NEW again \in BOOLEAN, RecvSome(a, again)
  PROVE  RecvEffect(a, again)
<1> USE DEF RecvEffect
<1>0. /\ wire \in [Sides -> Seq(Bytes)] /\ got \in [Agents -> Seq(Bytes)]
      /\ want \in [Agents -> Nat]
  BY DEF STypeOK
<1>1. Side(a) \in Sides
  BY DEF Side, Sides
<1> DEFINE w == wire[Side(a)]
<1>2. PICK n \in 1..Min({want[a], Len(w)}) :
         /\ Running(a) /\ UNCHANGED <<ended, reset, out>>
         /\ got' = [got EXCEPT ![a] = @ \o SubSeq(w, 1, n)]
         /\ wire' = [wire EXCEPT ![Side(a)] = SubSeq(@, n + 1, Len(@))]
         /\ want' = [want EXCEPT ![a] = IF again THEN @ - n ELSE 0]
  BY DEF RecvSome
<1>3. want[a] \in Nat /\ got[a] \in Seq(Bytes) /\ w \in Seq(Bytes)
  BY <1>0, <1>1
<1>4. n \in 1..want[a] /\ n \in 1..Len(w)
  <2>1. Len(w) \in Nat
    BY <1>3
  <2>2. Min({want[a], Len(w)}) = IF want[a] <= Len(w) THEN want[a] ELSE Len(w)
    BY <1>3, <2>1, LeastOfTwo
  <2> HIDE DEF w
  <2> QED
    BY <1>2, <1>3, <2>1, <2>2
<1> DEFINE r == SubSeq(w, n + 1, Len(w))
           x == got[a] \o SubSeq(w, 1, n)
<1>5. r \in Seq(Bytes) /\ x \in Seq(Bytes) /\ Pours(w, n, r, got[a], x)
  BY <1>3, <1>4, Pouring
<1>6. got' = [got EXCEPT ![a] = x] /\ wire' = [wire EXCEPT ![Side(a)] = r]
  BY <1>2
<1> HIDE DEF r, x
<1>7. /\ got' \in [Agents -> Seq(Bytes)] /\ got'[a] = x
      /\ \A b \in Agents \ {a} : got'[b] = got[b]
  BY <1>0, <1>5, <1>6
<1>8. /\ wire' \in [Sides -> Seq(Bytes)] /\ wire'[Side(a)] = r
      /\ \A s \in Sides \ {Side(a)} : wire'[s] = wire[s]
  BY <1>0, <1>1, <1>5, <1>6
<1> DEFINE rest == IF again THEN want[a] - n ELSE 0
<1>a. rest \in Nat
  BY <1>3, <1>4
<1>b. want' = [want EXCEPT ![a] = rest]
  BY <1>2
<1> HIDE DEF rest
<1>9. /\ want' \in [Agents -> Nat] /\ want'[a] = rest
      /\ \A b \in Agents \ {a} : want'[b] = want[b]
  BY <1>0, <1>a, <1>b
<1> USE DEF rest
<1>c. Length(w) \in Nat /\ Length(got[a]) \in Nat /\ Length(r) \in Nat /\ Length(x) \in Nat
  BY <1>3, <1>5, LengthType
<1>d. Length(r) + Length(x) = Length(w) + Length(got[a])
  BY <1>3, <1>4, <1>5, PouringKeeps
<1> QED
  BY <1>2, <1>4, <1>5, <1>7, <1>8, <1>9, <1>c, <1>d

-----------------------------------------------------------------------------
(* The steps of TCPStream *)

LEMMA Parameters ==
  /\ RequestNum \in Nat \ {0} /\ Size \in Nat \ {0} /\ ShortCount \in Nat \ {0}
  /\ HdrSize \in Nat \ {0} /\ BufSize \in Nat \ {0} /\ AllocStep \in Nat \ {0}
  /\ MaxThreads \in Nat \ {0}
BY TCPAssumption

LEMMA TheAgents ==
  /\ Client \in Agents /\ Server \in Agents /\ Client # Server
  /\ Client \in Sides /\ Server \in Sides /\ Sides = {Client, Server}
  /\ Side(Client) = Client /\ Side(Server) = Server
  /\ Peer(Client) = Server /\ Peer(Server) = Client
  /\ \A t \in 1..MaxThreads : /\ t \in Agents /\ t # Client /\ t # Server
                              /\ Side(t) = Server /\ Peer(t) = Client
<1>1. MaxThreads \in Nat \ {0}
  BY Parameters
<1>2. /\ Client \in Agents /\ Server \in Agents /\ Client # Server
      /\ \A t \in 1..MaxThreads : t \in Agents /\ t # Client /\ t # Server
  BY <1>1 DEF Agents, Client, Server
<1>3. Client \in Sides /\ Server \in Sides /\ Sides = {Client, Server}
  BY DEF Sides
<1> QED
  BY <1>2, <1>3 DEF Side, Peer

LEMMA Lengths ==
  ASSUME STypeOK
  PROVE  /\ \A a \in Agents :
              /\ num[a] \in Nat /\ want[a] \in Nat
              /\ Length(out[a]) \in Nat /\ (out[a] = <<>> <=> Length(out[a]) = 0)
              /\ Length(got[a]) \in Nat /\ (got[a] = <<>> <=> Length(got[a]) = 0)
              /\ Length(got[a]) = Len(got[a])
         /\ \A s \in Sides : Length(wire[s]) \in Nat /\ (wire[s] = <<>> <=> Length(wire[s]) = 0)
<1>1. /\ wire \in [Sides -> Seq(Bytes)] /\ out \in [Agents -> Seq(Bytes)]
      /\ got \in [Agents -> Seq(Bytes)] /\ want \in [Agents -> Nat] /\ num \in [Agents -> Nat]
  BY DEF STypeOK
<1>2. \A a \in Agents : num[a] \in Nat /\ want[a] \in Nat
  BY <1>1
<1>3. \A a \in Agents : /\ Length(out[a]) \in Nat /\ (out[a] = <<>> <=> Length(out[a]) = 0)
                        /\ Length(got[a]) \in Nat /\ (got[a] = <<>> <=> Length(got[a]) = 0)
                        /\ Length(got[a]) = Len(got[a])
  BY <1>1, LengthOfMember
<1>4. \A s \in Sides : Length(wire[s]) \in Nat /\ (wire[s] = <<>> <=> Length(wire[s]) = 0)
  BY <1>1, LengthOfMember
<1> QED
  BY <1>2, <1>3, <1>4

LEMMA OneMoreMessage ==
  ASSUME NEW n \in Nat, program \in {"TCP", "reliable"}
  PROVE  /\ LengthOfAll(n) \in Nat /\ LengthOf(n) \in Nat
         /\ LengthOfAll(n + 1) = LengthOfAll(n) + LengthOf(n)
<1>1. (n + 1) * Size = n * Size + Size /\ n * Size \in Nat
  BY Parameters
<1>2. CASE n >= ShortCount
  BY <1>1, <1>2, Parameters DEF LengthOfAll, LengthOf
<1>3. CASE n < ShortCount
  BY <1>1, <1>3, Parameters DEF LengthOfAll, LengthOf
<1> QED
  BY <1>2, <1>3, Parameters

\* What End does to the connection.
LEMMA Ends ==
  ASSUME STypeOK, NEW s \in Sides, NEW how \in {"ok", "failed"}, End(s, how)
  PROVE  /\ ended' \in [Sides -> {"no", "ok", "failed"}] /\ reset' \in BOOLEAN
         /\ wire' \in [Sides -> Seq(Bytes)] /\ wire'[s] = <<>> /\ ended'[s] = how
         /\ \A r \in Sides \ {s} : wire'[r] = wire[r] /\ ended'[r] = ended[r]
         /\ ~reset' => ~reset /\ wire[s] = <<>>
<1>1. /\ ended \in [Sides -> {"no", "ok", "failed"}] /\ wire \in [Sides -> Seq(Bytes)]
      /\ reset \in BOOLEAN
  BY DEF STypeOK
<1>2. /\ ended' = [ended EXCEPT ![s] = how]
      /\ reset' = (reset \/ wire[s] # <<>>)
      /\ wire' = [wire EXCEPT ![s] = <<>>]
  BY DEF End
<1>3. /\ ended' \in [Sides -> {"no", "ok", "failed"}] /\ ended'[s] = how
      /\ \A r \in Sides \ {s} : ended'[r] = ended[r]
  BY <1>1, <1>2
<1>4. <<>> \in Seq(Bytes)
  OBVIOUS
<1>5. /\ wire' \in [Sides -> Seq(Bytes)] /\ wire'[s] = <<>>
      /\ \A r \in Sides \ {s} : wire'[r] = wire[r]
  BY <1>1, <1>2, <1>4
<1>6. reset' \in BOOLEAN
  BY <1>2
<1>7. ~reset' => ~reset /\ wire[s] = <<>>
  BY <1>2
<1> QED
  BY <1>3, <1>5, <1>6, <1>7

\* The same for the other variables: what a step changes, place by place.
LEMMA Moves ==
  ASSUME STypeOK, NEW a \in Agents, NEW from, NEW to \in Labels, Move(a, from, to)
  PROVE  /\ at[a] = from /\ Running(a) /\ out[a] = <<>> /\ want[a] = 0
         /\ at' \in [Agents -> Labels] /\ at'[a] = to
         /\ \A b \in Agents \ {a} : at'[b] = at[b]
BY DEF Move, At, Idle, STypeOK

LEMMA Offers ==
  ASSUME STypeOK, NEW a \in Agents, NEW m \in Seq(Bytes), SendAll(a, m)
  PROVE  /\ UNCHANGED <<want, got>> /\ out' \in [Agents -> Seq(Bytes)] /\ out'[a] = m
         /\ \A b \in Agents \ {a} : out'[b] = out[b]
BY DEF SendAll, STypeOK

LEMMA Awaits ==
  ASSUME STypeOK, NEW a \in Agents, NEW n \in Nat, RecvAll(a, n)
  PROVE  /\ UNCHANGED out
         /\ want' \in [Agents -> Nat] /\ want'[a] = n /\ \A b \in Agents \ {a} : want'[b] = want[b]
         /\ got' \in [Agents -> Seq(Bytes)] /\ got'[a] = <<>>
         /\ \A b \in Agents \ {a} : got'[b] = got[b]
<1>1. /\ want \in [Agents -> Nat] /\ got \in [Agents -> Seq(Bytes)]
      /\ want' = [want EXCEPT ![a] = n] /\ got' = [got EXCEPT ![a] = <<>>] /\ UNCHANGED out
  BY DEF RecvAll, STypeOK
<1>2. <<>> \in Seq(Bytes)
  OBVIOUS
<1> QED
  BY <1>1, <1>2

LEMMA Counts ==
  ASSUME STypeOK, NEW a \in Agents, NEW n \in Nat, num' = [num EXCEPT ![a] = n]
  PROVE  /\ num' \in [Agents -> Nat] /\ num'[a] = n
         /\ \A b \in Agents \ {a} : num'[b] = num[b]
BY DEF STypeOK

LEMMA Finishes ==
  ASSUME STypeOK, NEW s \in Sides, NEW what \in Int, Finish(s, what)
  PROVE  /\ UNCHANGED <<out, want, got, at, num, dInfo, bufLen>>
         /\ total' \in [Sides -> Int] /\ total'[s] = what
         /\ \A r \in Sides \ {s} : total'[r] = total[r]
         /\ ended' \in [Sides -> {"no", "ok", "failed"}] /\ reset' \in BOOLEAN
         /\ wire' \in [Sides -> Seq(Bytes)] /\ wire'[s] = <<>> /\ ended'[s] = "ok"
         /\ \A r \in Sides \ {s} : wire'[r] = wire[r] /\ ended'[r] = ended[r]
         /\ ~reset' => ~reset /\ wire[s] = <<>>
<1>1. total \in [Sides -> Int]
  BY DEF STypeOK
<1>2. /\ End(s, "ok") /\ total' = [total EXCEPT ![s] = what]
      /\ UNCHANGED <<out, want, got, at, num, dInfo, bufLen>>
  BY DEF Finish, chunkVars, ownVars
<1>3. total' \in [Sides -> Int] /\ total'[s] = what /\ \A r \in Sides \ {s} : total'[r] = total[r]
  BY <1>1, <1>2
<1> QED
  BY <1>2, <1>3, Ends

LEMMA Failures ==
  ASSUME STypeOK, NEW s \in Sides, Fail(s)
  PROVE  /\ UNCHANGED <<out, want, got, at, num, dInfo, bufLen, total>>
         /\ ended' \in [Sides -> {"no", "ok", "failed"}] /\ reset' \in BOOLEAN
         /\ wire' \in [Sides -> Seq(Bytes)] /\ wire'[s] = <<>> /\ ended'[s] = "failed"
         /\ \A r \in Sides \ {s} : wire'[r] = wire[r] /\ ended'[r] = ended[r]
         /\ ~reset' => ~reset /\ wire[s] = <<>>
BY Ends DEF Fail, chunkVars, ownVars

LEMMA PouredAll ==
  ASSUME NEW s, NEW r, NEW w, NEW x, NEW v, NEW n \in 1..Length(s),
         Length(s) \in Nat, Length(w) \in Nat, Pours(s, n, r, w, x), All(w, v),
         \A i \in 1..n : s[i][2] = v
  PROVE  All(x, v)
<1> DEFINE lw == Length(w)
<1>1. /\ Length(x) = lw + n /\ lw \in Nat
      /\ \A i \in 1..lw : x[i] = w[i] /\ w[i][2] = v
      /\ \A i \in 1..n : x[lw + i] = s[i]
  BY DEF Pours, All
<1> HIDE DEF lw
<1>2. ASSUME NEW i \in 1..Length(x)
      PROVE  x[i][2] = v
  <2>1. i \in 1..(lw + n)
    BY <1>1
  <2>2. CASE i <= lw
    BY <1>1, <2>1, <2>2
  <2>3. CASE i > lw
    <3>1. i - lw \in 1..n /\ lw + (i - lw) = i
      BY <1>1, <2>1, <2>3
    <3> QED
      BY <1>1, <3>1
  <2> QED
    BY <1>1, <2>1, <2>2, <2>3
<1> QED
  BY <1>2 DEF All

-----------------------------------------------------------------------------
(* Sums *)

LEMMA AgentsFinite ==
  ASSUME NEW S \in SUBSET Agents
  PROVE  IsFiniteSet(S)
<1>1. IsFiniteSet(Agents)
  BY Parameters, FS_Interval DEF Agents, Client
<1> QED
  BY <1>1, FS_Subset

LEMMA OneTerm ==
  ASSUME NEW a, NEW k \in Nat
  PROVE  IsFiniteSet({a} \X (1..k)) /\ Cardinality({a} \X (1..k)) = k
<1>1. IsFiniteSet({a}) /\ Cardinality({a}) = 1
  BY FS_Singleton
<1>2. IsFiniteSet(1..k) /\ Cardinality(1..k) = k
  BY FS_Interval
<1>3. /\ IsFiniteSet({a} \X (1..k))
      /\ Cardinality({a} \X (1..k)) = Cardinality({a}) * Cardinality(1..k)
  BY <1>1, <1>2, FS_Product
<1> QED
  BY <1>1, <1>2, <1>3

LEMMA SumType ==
  ASSUME NEW S \in SUBSET Agents, NEW n \in [Agents -> Nat]
  PROVE  IsFiniteSet(UpTo(S, n)) /\ SumOver(S, n) \in Nat
<1> DEFINE f == [a \in S |-> {a} \X (1..n[a])]
           U == {f[a] : a \in S}
<1>1. IsFiniteSet(S)
  BY AgentsFinite
<1>2. U = {{a} \X (1..n[a]) : a \in S}
  OBVIOUS
<1>3. IsFiniteSet(U)
  <2>1. f \in Surjection(S, U)
    BY DEF Surjection
  <2> HIDE DEF f, U
  <2> QED
    BY <1>1, <2>1, FS_Surjection
<1>4. ASSUME NEW T \in U
      PROVE  IsFiniteSet(T)
  <2>1. PICK a \in S : T = {a} \X (1..n[a])
    BY <1>2
  <2>2. n[a] \in Nat
    BY <2>1
  <2> QED
    BY <2>1, <2>2, OneTerm
<1> HIDE DEF U
<1>5. IsFiniteSet(UNION U)
  BY <1>3, <1>4, FS_UNION
<1>6. UpTo(S, n) = UNION U
  BY <1>2 DEF UpTo
<1> QED
  BY <1>5, <1>6, FS_CardinalityType DEF SumOver

LEMMA SumSame ==
  ASSUME NEW S \in SUBSET Agents, NEW n, NEW m, \A a \in S : n[a] = m[a]
  PROVE  SumOver(S, n) = SumOver(S, m)
<1>1. UpTo(S, n) = UpTo(S, m)
  BY DEF UpTo
<1> QED
  BY <1>1 DEF SumOver

LEMMA SumWithout ==
  ASSUME NEW S \in SUBSET Agents, NEW n \in [Agents -> Nat], NEW t \in S
  PROVE  SumOver(S, n) = SumOver(S \ {t}, n) + n[t]
<1> DEFINE T == UpTo(S \ {t}, n)
           V == {t} \X (1..n[t])
<1>1. IsFiniteSet(T)
  BY SumType
<1>2. IsFiniteSet(V) /\ Cardinality(V) = n[t]
  BY OneTerm
<1>3. T \cap V = {}
  BY DEF UpTo
<1>4. UpTo(S, n) = T \cup V
  BY DEF UpTo
<1>5. Cardinality(T \cap V) = 0
  BY <1>3, FS_EmptySet
<1>6. Cardinality(T) \in Nat
  BY <1>1, FS_CardinalityType
<1>7. Cardinality(T \cup V) = Cardinality(T) + Cardinality(V) - Cardinality(T \cap V)
  <2> HIDE DEF T, V
  <2> QED
    BY <1>1, <1>2, FS_Union
<1> HIDE DEF T, V
<1>8. Cardinality(UpTo(S, n)) = Cardinality(T) + n[t]
  BY <1>2, <1>4, <1>5, <1>6, <1>7
<1> QED
  BY <1>8 DEF SumOver, T

\* One term of a sum changes.
LEMMA SumChanges ==
  ASSUME NEW S \in SUBSET Agents, NEW n \in [Agents -> Nat], NEW m \in [Agents -> Nat],
         NEW t \in S, \A a \in S \ {t} : m[a] = n[a]
  PROVE  SumOver(S, m) = SumOver(S, n) + m[t] - n[t]
<1>1. SumOver(S \ {t}, m) = SumOver(S \ {t}, n)
  BY SumSame
<1>2. SumOver(S \ {t}, n) \in Nat
  BY SumType
<1>3. SumOver(S, m) = SumOver(S \ {t}, m) + m[t]
  BY SumWithout
<1>4. SumOver(S, n) = SumOver(S \ {t}, n) + n[t]
  BY SumWithout
<1> QED
  BY <1>1, <1>2, <1>3, <1>4

LEMMA SumOfOne ==
  ASSUME NEW t \in Agents, NEW n \in [Agents -> Nat]
  PROVE  SumOver({t}, n) = n[t]
<1>1. UpTo({t}, n) = {t} \X (1..n[t])
  BY DEF UpTo
<1> QED
  BY <1>1, OneTerm DEF SumOver

LEMMA SumAtMost ==
  ASSUME NEW S \in SUBSET Agents, NEW n \in [Agents -> Nat], NEW k \in Nat,
         \A a \in S : n[a] <= k
  PROVE  SumOver(S, n) <= Cardinality(S) * k
<1>1. IsFiniteSet(S) /\ IsFiniteSet(1..k) /\ Cardinality(1..k) = k
  BY AgentsFinite, FS_Interval
<1>2. IsFiniteSet(S \X (1..k)) /\ Cardinality(S \X (1..k)) = Cardinality(S) * k
  BY <1>1, FS_Product
<1>3. UpTo(S, n) \subseteq S \X (1..k)
  BY DEF UpTo
<1> QED
  BY <1>2, <1>3, FS_Subset DEF SumOver

LEMMA SumOfEqual ==
  ASSUME NEW S \in SUBSET Agents, NEW n \in [Agents -> Nat], NEW k \in Nat,
         \A a \in S : n[a] = k
  PROVE  SumOver(S, n) = Cardinality(S) * k
<1>1. IsFiniteSet(S) /\ IsFiniteSet(1..k) /\ Cardinality(1..k) = k
  BY AgentsFinite, FS_Interval
<1>2. Cardinality(S \X (1..k)) = Cardinality(S) * k
  BY <1>1, FS_Product
<1>3. UpTo(S, n) = S \X (1..k)
  BY DEF UpTo
<1> QED
  BY <1>2, <1>3 DEF SumOver

LEMMA ThreadCount ==
  ASSUME STypeOK
  PROVE  /\ Threads \in SUBSET Agents /\ Threads \subseteq 1..MaxThreads
         /\ IsFiniteSet(Threads) /\ Cardinality(Threads) = threadNum
         /\ threadNum \in Nat \ {0}
<1>1. threadNum \in 1..MaxThreads /\ MaxThreads \in Nat
  BY Parameters DEF STypeOK
<1>2. IsFiniteSet(1..threadNum) /\ Cardinality(1..threadNum) = threadNum
  BY <1>1, FS_Interval
<1>3. Threads \subseteq 1..MaxThreads
  BY <1>1 DEF Threads
<1> QED
  BY <1>1, <1>2, <1>3, TheAgents DEF Threads

-----------------------------------------------------------------------------
(* Where the bytes of recv and send are: Conserved *)

LEMMA SharedAgents ==
  ASSUME STypeOK, program \in WithThreads
  PROVE  /\ Readers \in SUBSET Agents /\ Writers \in SUBSET Agents /\ To \in Sides
         /\ \A a \in Readers : /\ Side(a) = To /\ Peer(a) \in Sides /\ Peer(a) # To
                               /\ a \notin Writers /\ a # Server
         /\ \A a \in Writers : /\ Peer(a) = To /\ Side(a) \in Sides /\ Side(a) # To
                               /\ a \notin Readers /\ a # Server
         /\ \A s \in Sides, a \in Readers : s # To => s = Peer(a)
         /\ 1..MaxThreads \subseteq Agents /\ Threads \subseteq 1..MaxThreads
         /\ Threads = Readers \/ Threads = Writers
<1>1. CASE program = "recv"
  BY <1>1, TheAgents, ThreadCount DEF Readers, Writers, To
<1>2. CASE program = "send"
  BY <1>2, TheAgents, ThreadCount DEF Readers, Writers, To
<1> QED
  BY <1>1, <1>2 DEF WithThreads

LEMMA AloneAgents ==
  ASSUME STypeOK, program \in WithThreads, threadNum = 1
  PROVE  /\ Readers = {Reader} /\ Writers = {Writer}
         /\ Reader \in Agents /\ Writer \in Agents
<1>1. Threads = {1} /\ 1 \in Agents
  BY ThreadCount DEF Threads
<1> QED
  BY <1>1, TheAgents DEF WithThreads, Readers, Writers, Reader, Writer

LEMMA LensType ==
  ASSUME NEW B, NEW f \in [Agents -> Seq(B)]
  PROVE  [a \in Agents |-> Length(f[a])] \in [Agents -> Nat]
BY LengthOfMember

LEMMA TermTypes ==
  ASSUME STypeOK
  PROVE  /\ num \in [Agents -> Nat] /\ OutLens \in [Agents -> Nat]
         /\ InfoLens \in [Agents -> Nat] /\ PartLens \in [Agents -> Nat]
         /\ \A s \in Sides : Length(wire[s]) \in Nat
<1>1. /\ out \in [Agents -> Seq(Bytes)] /\ got \in [Agents -> Seq(Bytes)]
      /\ dInfo \in [Agents -> Seq(Seq(Bytes))] /\ num \in [Agents -> Nat]
  BY DEF STypeOK
<1>2. OutLens \in [Agents -> Nat] /\ InfoLens \in [Agents -> Nat]
  BY <1>1, LensType DEF OutLens, InfoLens
<1>3. \A a \in Agents : Length(got[a]) \in Nat
  BY <1>1, LengthOfMember
<1>4. PartLens \in [Agents -> Nat]
  BY <1>3 DEF PartLens, Partly
<1>5. \A s \in Sides : Length(wire[s]) \in Nat
  BY Lengths
<1> QED
  BY <1>1, <1>2, <1>4, <1>5

LEMMA TermTypesNext ==
  ASSUME STypeOK'
  PROVE  /\ num' \in [Agents -> Nat] /\ OutLens' \in [Agents -> Nat]
         /\ InfoLens' \in [Agents -> Nat] /\ PartLens' \in [Agents -> Nat]
         /\ \A s \in Sides : Length(wire'[s]) \in Nat
<1>1. /\ out' \in [Agents -> Seq(Bytes)] /\ got' \in [Agents -> Seq(Bytes)]
      /\ dInfo' \in [Agents -> Seq(Seq(Bytes))] /\ num' \in [Agents -> Nat]
      /\ wire' \in [Sides -> Seq(Bytes)]
  BY DEF STypeOK
<1>2. OutLens' \in [Agents -> Nat] /\ InfoLens' \in [Agents -> Nat]
  BY <1>1, LensType DEF OutLens, InfoLens
<1>3. \A a \in Agents : Length(got'[a]) \in Nat
  BY <1>1, LengthOfMember
<1>4. PartLens' \in [Agents -> Nat]
  BY <1>3 DEF PartLens, Partly
<1>5. \A s \in Sides : Length(wire'[s]) \in Nat
  BY <1>1, LengthOfMember
<1> QED
  BY <1>1, <1>2, <1>4, <1>5

LEMMA SumTypes ==
  ASSUME STypeOK, program \in WithThreads
  PROVE  /\ Sent \in Nat /\ Unsent \in Nat /\ Got \in Nat /\ Partial \in Nat
         /\ Length(wire[To]) \in Nat
BY TermTypes, SharedAgents, SumType DEF Sent, Unsent, Got, Partial

Same == UNCHANGED <<program, threadNum>>

LEMMA SidesStay ==
  ASSUME Same
  PROVE  Readers' = Readers /\ Writers' = Writers /\ To' = To /\ Reader' = Reader /\ Writer' = Writer /\ Threads' = Threads
BY DEF Same, Readers, Writers, To, Reader, Writer, Threads

\* The sums of a step that sends and receives nothing.
LEMMA QuietConserves ==
  ASSUME STypeOK, STypeOK', program \in WithThreads, Same, Conserved,
         \A a \in Writers : num'[a] = num[a] /\ out'[a] = out[a],
         \A a \in Readers : dInfo'[a] = dInfo[a] /\ Partly(a)' = Partly(a),
         Length(wire'[To]) <= Length(wire[To]),
         ~reset' => ~reset /\ wire'[To] = wire[To]
  PROVE  Conserved' /\ Got' = Got
<1>1. Sent' = Sent
  <2>1. \A a \in Writers : num'[a] = num[a]
    OBVIOUS
  <2> QED
    BY <2>1, SidesStay, SharedAgents, SumSame DEF Sent
<1>2. Unsent' = Unsent
  <2>1. \A a \in Writers : OutLens'[a] = OutLens[a]
    BY SharedAgents DEF OutLens
  <2> QED
    BY <2>1, SidesStay, SharedAgents, SumSame DEF Unsent
<1>3. Got' = Got
  <2>1. \A a \in Readers : InfoLens'[a] = InfoLens[a]
    BY SharedAgents DEF InfoLens
  <2> QED
    BY <2>1, SidesStay, SharedAgents, SumSame DEF Got
<1>4. Partial' = Partial
  <2>1. \A a \in Readers : PartLens'[a] = PartLens[a]
    BY SharedAgents DEF PartLens
  <2> QED
    BY <2>1, SidesStay, SharedAgents, SumSame DEF Partial
<1>5. Length(wire'[To]) \in Nat
  BY TermTypesNext, SharedAgents
<1>6. Got * Size \in Nat
  BY SumTypes, Parameters
<1>7. Arrived' <= Arrived /\ (~reset' => Arrived' = Arrived)
  BY <1>2, <1>3, <1>4, <1>5, <1>6, SumTypes, SidesStay DEF Arrived
<1>8. Arrived \in Int /\ Arrived' \in Int /\ Sent * Size \in Int
  BY <1>2, <1>3, <1>4, <1>5, <1>6, SumTypes, SidesStay, Parameters DEF Arrived
<1> QED
  BY <1>1, <1>3, <1>7, <1>8 DEF Conserved

LEMMA SendNextConserves ==
  ASSUME STypeOK, STypeOK', program \in WithThreads, Same, Conserved,
         NEW a \in Writers, num'[a] = num[a] + 1, out[a] = <<>>, Length(out'[a]) = Size,
         \A b \in Writers \ {a} : num'[b] = num[b] /\ out'[b] = out[b],
         UNCHANGED <<wire, reset, at, got, dInfo>>
  PROVE  Conserved' /\ Got' = Got
<1>0. /\ Writers \in SUBSET Agents /\ num \in [Agents -> Nat] /\ num' \in [Agents -> Nat]
      /\ OutLens \in [Agents -> Nat] /\ OutLens' \in [Agents -> Nat]
  BY TermTypes, TermTypesNext, SharedAgents
<1>1. Sent' = Sent + 1
  <2>1. \A b \in Writers \ {a} : num'[b] = num[b]
    OBVIOUS
  <2>2. SumOver(Writers, num') = SumOver(Writers, num) + num'[a] - num[a]
    BY <1>0, <2>1, SumChanges
  <2>3. num[a] \in Nat /\ Sent \in Nat
    BY TermTypes, SumTypes, SharedAgents
  <2> QED
    BY <2>2, <2>3, SidesStay DEF Sent
<1>2. Unsent' = Unsent + Size
  <2>1. \A b \in Writers \ {a} : OutLens'[b] = OutLens[b]
    BY SharedAgents DEF OutLens
  <2>2. SumOver(Writers, OutLens') = SumOver(Writers, OutLens) + OutLens'[a] - OutLens[a]
    BY <1>0, <2>1, SumChanges
  <2>3. OutLens[a] = 0 /\ OutLens'[a] = Size /\ Unsent \in Nat
    BY LengthOfNone, SumTypes, SharedAgents DEF OutLens
  <2> QED
    BY <2>2, <2>3, SidesStay, Parameters DEF Unsent
<1>3. Got' = Got /\ Partial' = Partial
  BY SidesStay DEF Got, Partial, InfoLens, PartLens, Partly
<1>4. Got * Size \in Nat /\ Sent * Size \in Nat /\ (Sent + 1) * Size = Sent * Size + Size
  BY SumTypes, Parameters
<1>5. Arrived' = Arrived + Size /\ Arrived \in Int
  BY <1>2, <1>3, <1>4, SumTypes, SidesStay, Parameters DEF Arrived
<1> QED
  BY <1>1, <1>3, <1>4, <1>5, Parameters DEF Conserved

LEMMA SendPartConserves ==
  ASSUME STypeOK, STypeOK', program \in WithThreads, Same, Conserved,
         NEW a \in Writers, SendEffect(a), UNCHANGED <<num, at, dInfo>>
  PROVE  Conserved' /\ Got' = Got
<1>1. UNCHANGED <<num, at, got, dInfo>> /\ ~reset /\ Peer(a) = To
  BY SharedAgents DEF SendEffect
<1>2. Sent' = Sent /\ Got' = Got /\ Partial' = Partial
  BY <1>1, SidesStay DEF Sent, Got, Partial, InfoLens, PartLens, Partly
<1>3. Unsent' = Unsent + Length(out'[a]) - Length(out[a])
  <2>1. \A b \in Writers \ {a} : OutLens'[b] = OutLens[b]
    BY SharedAgents DEF OutLens, SendEffect
  <2>2. SumOver(Writers, OutLens') = SumOver(Writers, OutLens) + OutLens'[a] - OutLens[a]
    BY <2>1, TermTypes, TermTypesNext, SharedAgents, SumChanges
  <2>3. OutLens[a] = Length(out[a]) /\ OutLens'[a] = Length(out'[a])
    BY SharedAgents DEF OutLens
  <2> QED
    BY <2>2, <2>3, SidesStay DEF Unsent
<1>4. /\ Length(out[a]) \in Nat /\ Length(out'[a]) \in Nat /\ Length(out'[a]) <= Length(out[a])
      /\ Length(wire[To]) \in Nat /\ Length(wire'[To]) \in Nat
      /\ reset' => Length(wire'[To]) + Length(out'[a]) <= Length(wire[To]) + Length(out[a])
      /\ ~reset' => Length(wire'[To]) + Length(out'[a]) = Length(wire[To]) + Length(out[a])
  <2>1. PICK n \in 1..Length(out[a]) :
          /\ Length(out'[a]) = Length(out[a]) - n
          /\ ended[Peer(a)] = "no" => ~reset'
          /\ ended[Peer(a)] # "no" => reset' /\ UNCHANGED wire
    BY DEF SendEffect
  <2>2. /\ Length(wire[To]) \in Nat /\ Length(out[a]) \in Nat
        /\ Length(wire'[To]) \in Nat /\ Length(out'[a]) \in Nat
        /\ reset' \/ Length(out'[a]) + Length(wire'[To]) = Length(out[a]) + Length(wire[To])
    BY <1>1 DEF SendEffect
  <2> QED
    BY <2>1, <2>2
<1>5. Got * Size \in Nat /\ Sent * Size \in Nat
  BY SumTypes, Parameters
<1>6. Arrived' <= Arrived /\ (~reset' => Arrived' = Arrived) /\ Arrived \in Int /\ Arrived' \in Int
  BY <1>2, <1>3, <1>4, <1>5, SumTypes, SidesStay DEF Arrived
<1> QED
  BY <1>1, <1>2, <1>5, <1>6 DEF Conserved

LEMMA RecvPartConserves ==
  ASSUME STypeOK, STypeOK', program \in WithThreads, Same, Conserved,
         NEW a \in Readers, RecvEffect(a, TRUE), at[a] = "received", UNCHANGED <<num, at, dInfo>>
  PROVE  Conserved' /\ Got' = Got
<1>1. UNCHANGED <<num, at, out, dInfo, reset>> /\ Side(a) = To
  BY SharedAgents DEF RecvEffect
<1>2. Sent' = Sent /\ Got' = Got /\ Unsent' = Unsent
  BY <1>1, SidesStay DEF Sent, Got, Unsent, InfoLens, OutLens
<1>3. Partial' = Partial + Length(got'[a]) - Length(got[a])
  <2>1. \A b \in Readers \ {a} : PartLens'[b] = PartLens[b]
    BY <1>1, SharedAgents DEF PartLens, Partly, RecvEffect
  <2>2. SumOver(Readers, PartLens') = SumOver(Readers, PartLens) + PartLens'[a] - PartLens[a]
    BY <2>1, TermTypes, TermTypesNext, SharedAgents, SumChanges
  <2>3. PartLens[a] = Length(got[a]) /\ PartLens'[a] = Length(got'[a])
    BY <1>1, SharedAgents DEF PartLens, Partly
  <2> QED
    BY <2>2, <2>3, SidesStay DEF Partial
<1>4. /\ Length(wire[To]) \in Nat /\ Length(got[a]) \in Nat
      /\ Length(wire'[To]) \in Nat /\ Length(got'[a]) \in Nat
      /\ Length(wire'[To]) + Length(got'[a]) = Length(wire[To]) + Length(got[a])
  BY <1>1 DEF RecvEffect
<1>5. Got * Size \in Nat /\ Sent * Size \in Nat
  BY SumTypes, Parameters
<1>6. Arrived' = Arrived
  BY <1>2, <1>3, <1>4, <1>5, SumTypes, SidesStay DEF Arrived
<1> QED
  BY <1>1, <1>2, <1>6, SidesStay DEF Conserved

LEMMA ReceivedConserves ==
  ASSUME STypeOK, STypeOK', program \in WithThreads, Same, Conserved,
         NEW a \in Readers, at[a] = "received", at'[a] = "recv", Length(got[a]) = Size,
         Length(dInfo'[a]) = Length(dInfo[a]) + 1,
         \A b \in Readers \ {a} : dInfo'[b] = dInfo[b] /\ at'[b] = at[b],
         UNCHANGED <<num, out, got, wire, reset>>
  PROVE  Conserved' /\ Got' = Got + 1
<1>1. Sent' = Sent /\ Unsent' = Unsent
  BY SidesStay DEF Sent, Unsent, OutLens
<1>2. Got' = Got + 1
  <2>1. \A b \in Readers \ {a} : InfoLens'[b] = InfoLens[b]
    BY SharedAgents DEF InfoLens
  <2>2. SumOver(Readers, InfoLens') = SumOver(Readers, InfoLens) + InfoLens'[a] - InfoLens[a]
    BY <2>1, TermTypes, TermTypesNext, SharedAgents, SumChanges
  <2>3. InfoLens[a] \in Nat /\ InfoLens'[a] = InfoLens[a] + 1 /\ Got \in Nat
    BY TermTypes, SumTypes, SharedAgents DEF InfoLens
  <2> QED
    BY <2>2, <2>3, SidesStay DEF Got
<1>3. Partial' = Partial - Size
  <2>1. \A b \in Readers \ {a} : PartLens'[b] = PartLens[b]
    BY SharedAgents DEF PartLens, Partly
  <2>2. SumOver(Readers, PartLens') = SumOver(Readers, PartLens) + PartLens'[a] - PartLens[a]
    BY <2>1, TermTypes, TermTypesNext, SharedAgents, SumChanges
  <2>3. PartLens[a] = Size /\ PartLens'[a] = 0 /\ Partial \in Nat
    BY SumTypes, SharedAgents DEF PartLens, Partly
  <2> QED
    BY <2>2, <2>3, SidesStay, Parameters DEF Partial
<1>4. Got * Size \in Nat /\ Sent * Size \in Nat /\ (Got + 1) * Size = Got * Size + Size
  BY SumTypes, Parameters
<1>5. Arrived' = Arrived
  BY <1>1, <1>2, <1>3, <1>4, SumTypes, SidesStay, Parameters DEF Arrived
<1> QED
  BY <1>1, <1>2, <1>5, SidesStay DEF Conserved

-----------------------------------------------------------------------------
(* DataInv, step by step *)

\* An end of a process or of the connection.
LEMMA StopKeepsData ==
  ASSUME STypeOK, STypeOK', program \in WithThreads, Same, DataInv,
         UNCHANGED <<out, want, got, at, num, dInfo>>,
         \A s \in Sides : ended[s] # "no" => ended'[s] # "no",
         wire'[To] = wire[To] \/ (wire'[To] = <<>> /\ ended'[To] # "no"),
         ~reset' => ~reset /\ wire'[To] = wire[To]
  PROVE  DataInv' /\ Got' = Got
<1> USE DEF DataInv
<1>1. Conserved' /\ Got' = Got
  <2>1. Length(wire'[To]) <= Length(wire[To])
    BY LengthOfNone, SharedAgents, TermTypes
  <2> QED
    BY <2>1, QuietConserves DEF Partly
<1>2. ReadersInv'
  BY SidesStay, SharedAgents DEF ReadersInv, Receiving
<1>3. WritersInv'
  BY SidesStay DEF WritersInv
<1>4. ThreadsInv'
  BY SidesStay DEF ThreadsInv, Unborn, Same
<1>5. threadNum = 1 => AloneInv'
  BY SidesStay, SharedAgents DEF AloneInv, Place, Partly, All, Fits
<1> QED
  BY <1>1, <1>2, <1>3, <1>4, <1>5 DEF Same

\* A step that only moves main or the client on, or is about the header.
LEMMA QuietKeepsData ==
  ASSUME STypeOK, STypeOK', program \in WithThreads, Same, DataInv,
         \A a \in Agents \ Sides : /\ num'[a] = num[a] /\ out'[a] = out[a] /\ want'[a] = want[a]
                                   /\ got'[a] = got[a] /\ dInfo'[a] = dInfo[a] /\ at'[a] = at[a],
         num'[Server] = num[Server], num'[Client] = num[Client], dInfo'[Client] = dInfo[Client],
         want'[Client] = want[Client], got'[Client] = got[Client],
         at'[Client] = at[Client] \/ /\ at[Client] \in {"setup", "start"}
                                     /\ at'[Client] \in {"start", "recv", "send"}
                                     /\ program = "recv" => at'[Client] # "recv"
                                     /\ program = "send" => at'[Client] # "send",
         program = "recv" => out'[Client] = out[Client],
         UNCHANGED ended, wire'[To] = wire[To], reset => reset'
  PROVE  DataInv' /\ Got' = Got
<1> USE DEF DataInv
<1>0. Client \in Readers \/ Client \in Writers
  BY DEF WithThreads, Readers, Writers
<1>1. \A a \in Writers : num'[a] = num[a] /\ out'[a] = out[a] /\ want'[a] = want[a]
  BY SharedAgents, TheAgents DEF WithThreads, Writers
<1>2. \A a \in Readers : dInfo'[a] = dInfo[a] /\ got'[a] = got[a] /\ want'[a] = want[a]
  BY SharedAgents, TheAgents DEF WithThreads, Readers
<1>3. \A a \in Readers : at'[a] = at[a] \/ (at[a] \in {"setup", "start"} /\ at'[a] \in {"start", "recv"})
  BY SharedAgents, TheAgents DEF WithThreads, Readers
<1>4. \A a \in Writers : at'[a] = at[a] \/ (at[a] \in {"setup", "start"} /\ at'[a] \in {"start", "send"})
  BY SharedAgents, TheAgents DEF WithThreads, Writers
<1>5. Conserved' /\ Got' = Got
  <2>1. \A a \in Readers : Partly(a)' = Partly(a)
    BY <1>2, <1>3 DEF Partly
  <2>2. Length(wire'[To]) <= Length(wire[To]) /\ (~reset' => ~reset /\ wire'[To] = wire[To])
    BY SharedAgents, TermTypes
  <2> QED
    BY <1>1, <1>2, <2>1, <2>2, QuietConserves
<1>6. ReadersInv'
  BY <1>2, <1>3, SidesStay, SharedAgents DEF ReadersInv, Receiving
<1>7. WritersInv'
  BY <1>1, <1>4, SidesStay DEF WritersInv
<1>8. ThreadsInv'
  <2>1. \A t \in 1..MaxThreads : /\ num'[t] = num[t] /\ out'[t] = out[t] /\ want'[t] = want[t]
                                 /\ got'[t] = got[t] /\ dInfo'[t] = dInfo[t] /\ at'[t] = at[t]
    BY TheAgents
  <2>2. \A a \in Agents \ (Readers \cup {Server}) : dInfo'[a] = dInfo[a]
    BY TheAgents
  <2> QED
    BY <2>1, <2>2, SidesStay DEF ThreadsInv, Unborn, Same
<1>9. threadNum = 1 => AloneInv'
  BY <1>1, <1>2, <1>3, SidesStay, AloneAgents DEF AloneInv, Place, Partly, All, Fits
<1> QED
  BY <1>5, <1>6, <1>7, <1>8, <1>9 DEF Same

LEMMA CreateKeepsData ==
  ASSUME STypeOK, STypeOK', program \in WithThreads, Same, DataInv,
         num[Server] < threadNum, num' = [num EXCEPT ![Server] = @ + 1],
         at' = [at EXCEPT ![num'[Server]] = IF program = "recv" THEN "recv" ELSE "send"],
         UNCHANGED <<linkVars, chunkVars, dInfo>>
  PROVE  DataInv' /\ Got' = Got
<1> USE DEF DataInv
<1> DEFINE t == num[Server] + 1
<1>1. /\ t \in Threads /\ t \in 1..MaxThreads /\ t \in Agents /\ at[t] = "out"
      /\ num'[Server] = t /\ \A a \in Agents \ {Server} : num'[a] = num[a]
      /\ num[Server] \in Nat /\ t \in Nat
  <2>1. num[Server] \in Nat /\ num \in [Agents -> Nat]
    BY TermTypes, TheAgents
  <2>2. t \in Threads /\ t \in 1..MaxThreads
    BY <2>1, ThreadCount DEF Threads
  <2>3. at[t] = "out"
    BY <2>1, <2>2, ThreadCount DEF ThreadsInv
  <2>4. num'[Server] = t /\ \A a \in Agents \ {Server} : num'[a] = num[a]
    BY <2>1, TheAgents
  <2> QED
    BY <2>1, <2>2, <2>3, <2>4, TheAgents
<1> HIDE DEF t
<1> DEFINE l == IF program = "recv" THEN "recv" ELSE "send"
<1>2. at'[t] = l /\ \A a \in Agents \ {t} : at'[a] = at[a]
  <2>1. at' = [at EXCEPT ![t] = l] /\ at \in [Agents -> Labels]
    BY <1>1 DEF STypeOK
  <2> HIDE DEF l
  <2> QED
    BY <1>1, <2>1
<1>3. Unborn(t)
  BY <1>1 DEF ThreadsInv
<1>4. UNCHANGED <<wire, ended, reset, out, want, got, dInfo>>
  BY DEF linkVars, chunkVars
<1>5. Conserved' /\ Got' = Got
  <2>1. \A a \in Writers : num'[a] = num[a] /\ out'[a] = out[a]
    BY <1>1, <1>4, SharedAgents
  <2>2. \A a \in Readers : dInfo'[a] = dInfo[a] /\ Partly(a)' = Partly(a)
    BY <1>1, <1>2, <1>3, <1>4, SharedAgents DEF Partly, Unborn
  <2>3. Length(wire'[To]) <= Length(wire[To]) /\ (~reset' => ~reset /\ wire'[To] = wire[To])
    BY <1>4, SharedAgents, TermTypes
  <2> QED
    BY <2>1, <2>2, <2>3, QuietConserves
<1>6. ReadersInv'
  <2>1. ASSUME NEW a \in Readers
        PROVE  /\ at'[a] \in {"out", "setup", "start", "recv", "received", "end"}
               /\ IF at'[a] = "received" THEN Length(got[a]) + want[a] = Size ELSE want[a] = 0
               /\ at'[a] = "end" => Length(got[a]) < Size
               /\ at'[a] = "end" /\ ~reset => wire[To] = <<>> /\ ended[Peer(a)] # "no"
    <3>1. CASE a = t
      <4>1. program = "recv"
        BY <1>1, <3>1, TheAgents DEF WithThreads, Readers
      <4> QED
        BY <1>2, <1>3, <3>1, <4>1 DEF Unborn
    <3>2. CASE a # t
      BY <1>2, <3>2, SharedAgents DEF ReadersInv, Receiving
    <3> QED
      BY <3>1, <3>2
  <2> QED
    BY <1>4, <2>1, SidesStay DEF ReadersInv, Receiving
<1>7. WritersInv'
  BY <1>1, <1>2, <1>3, <1>4, SidesStay, SharedAgents, ThreadCount, TheAgents
     DEF WritersInv, Unborn, WithThreads, Writers
<1>8. ThreadsInv'
  <2>1. \A u \in 1..MaxThreads : at'[u] = "out" => Unborn(u)'
    BY <1>1, <1>2, <1>4, TheAgents DEF ThreadsInv, Unborn
  <2>2. \A u \in 1..MaxThreads : at'[u] = "out" <=> u > t
    BY <1>1, <1>2, TheAgents DEF ThreadsInv, t
  <2>3. t <= threadNum
    BY <1>1, ThreadCount DEF t
  <2> QED
    BY <1>1, <1>4, <2>1, <2>2, <2>3, SidesStay DEF ThreadsInv, Same
<1>9. threadNum = 1 => AloneInv'
  <2> SUFFICES ASSUME threadNum = 1
               PROVE  AloneInv'
    OBVIOUS
  <2>1. /\ at'[Reader] # "received" \/ at'[Reader] = at[Reader]
        /\ num'[Writer] = num[Writer]
    BY <1>1, <1>2, AloneAgents, SharedAgents DEF WithThreads
  <2>2. Place' = Place
    BY <1>1, <1>2, <1>3, <1>4, SidesStay, AloneAgents DEF Place, Partly, Unborn
  <2> QED
    BY <2>1, <2>2, <1>4, SidesStay DEF AloneInv, All, Fits
<1> QED
  BY <1>5, <1>6, <1>7, <1>8, <1>9 DEF Same

LEMMA FitsOne ==
  ASSUME NEW v \in Int, NEW w \in Int, NEW p \in Int, Fits(v, p), Fits(w, p)
  PROVE  v = w
<1>1. ASSUME NEW x \in Int, NEW y \in Int, Fits(x, p), Fits(y, p), x < y
      PROVE  FALSE
  <2>1. (x + 1) * Size <= y * Size
    <3>1. PICK d \in Nat : y = (x + 1) + d
      <4>1. y - (x + 1) \in Nat /\ y = (x + 1) + (y - (x + 1))
        BY <1>1
      <4> QED
        BY <4>1
    <3>2. y * Size = (x + 1) * Size + d * Size
      BY <3>1, Parameters
    <3>3. d * Size \in Nat /\ (x + 1) * Size \in Int
      BY <3>1, Parameters
    <3> QED
      BY <3>2, <3>3
  <2>2. (x + 1) * Size \in Int /\ y * Size \in Int
    BY Parameters
  <2> QED
    BY <1>1, <2>1, <2>2 DEF Fits
<1> QED
  BY <1>1

LEMMA AloneTypes ==
  ASSUME STypeOK, program \in WithThreads, threadNum = 1
  PROVE  /\ Length(dInfo[Reader]) \in Nat /\ Length(dInfo[Reader]) * Size \in Nat
         /\ Length(got[Reader]) \in Nat /\ Partly(Reader) \in Nat /\ Place \in Nat
         /\ Length(wire[To]) \in Nat /\ Length(out[Writer]) \in Nat
         /\ num[Writer] \in Nat /\ num[Writer] * Size \in Nat
<1>1. Reader \in Agents /\ Writer \in Agents /\ To \in Sides
  BY AloneAgents, SharedAgents
<1>2. /\ InfoLens[Reader] = Length(dInfo[Reader]) /\ OutLens[Writer] = Length(out[Writer])
      /\ PartLens[Reader] = Partly(Reader)
  BY <1>1 DEF InfoLens, OutLens, PartLens
<1>3. /\ Length(dInfo[Reader]) \in Nat /\ Partly(Reader) \in Nat /\ num[Writer] \in Nat
      /\ Length(wire[To]) \in Nat /\ Length(out[Writer]) \in Nat
  BY <1>1, <1>2, TermTypes
<1>4. Length(got[Reader]) \in Nat
  BY <1>1, Lengths
<1>5. Length(dInfo[Reader]) * Size \in Nat /\ num[Writer] * Size \in Nat
  BY <1>3, Parameters
<1> QED
  BY <1>3, <1>4, <1>5 DEF Place

LEMMA SendNextKeepsData ==
  ASSUME STypeOK, STypeOK', program \in WithThreads, Same, DataInv,
         NEW a \in Writers, at[a] = "send", num'[a] = num[a] + 1, out[a] = <<>>,
         Length(out'[a]) = Size, All(out'[a], num[a]),
         \A b \in Agents \ {a} : num'[b] = num[b] /\ out'[b] = out[b],
         UNCHANGED <<wire, reset, ended, at, got, want, dInfo>>
  PROVE  DataInv' /\ Got' = Got
<1> USE DEF DataInv
<1>1. Conserved' /\ Got' = Got
  <2>1. \A b \in Writers \ {a} : num'[b] = num[b] /\ out'[b] = out[b]
    BY SharedAgents
  <2> QED
    BY <2>1, SendNextConserves
<1>2. ReadersInv'
  BY SidesStay DEF ReadersInv, Receiving
<1>3. WritersInv'
  BY SidesStay, SharedAgents DEF WritersInv
<1>4. ThreadsInv'
  <2>1. num'[Server] = num[Server]
    BY SharedAgents, TheAgents
  <2>2. \A t \in 1..MaxThreads : at[t] = "out" => num'[t] = num[t] /\ out'[t] = out[t]
    BY SharedAgents
  <2> QED
    BY <2>1, <2>2, SidesStay DEF ThreadsInv, Unborn, Same
<1>5. ASSUME threadNum = 1
      PROVE  AloneInv'
  <2>1. a = Writer /\ Place' = Place
    BY <1>5, AloneAgents, SidesStay DEF Place, Partly
  <2>2. Length(out[Writer]) = 0
    BY <2>1, LengthOfNone
  <2>3. ASSUME ended[To] = "no", NEW i \in 1..Length(out'[Writer])
        PROVE  Fits(out'[Writer][i][2], Place + Length(wire[To]) + i - 1)
    <3>1. Place + Length(wire[To]) = num[a] * Size
      BY <1>5, <2>1, <2>2, <2>3, AloneTypes DEF AloneInv
    <3>2. i \in 1..Size /\ out'[a][i][2] = num[a] /\ i \in Nat
      BY <2>1, <2>3, Parameters DEF All
    <3>3. num[a] * Size \in Nat /\ (num[a] + 1) * Size = num[a] * Size + Size
      BY <1>5, <2>1, AloneTypes, Parameters
    <3> QED
      BY <2>1, <3>1, <3>2, <3>3, Parameters DEF Fits
  <2>4. ended[To] = "no" => Place + Length(wire[To]) + Length(out'[Writer]) = num'[Writer] * Size
    <3>1. (num[a] + 1) * Size = num[a] * Size + Size
      BY <1>5, <2>1, AloneTypes, Parameters
    <3>2. ended[To] = "no" => Place + Length(wire[To]) + Length(out[Writer]) = num[Writer] * Size
      BY <1>5 DEF AloneInv
    <3> QED
      BY <1>5, <2>1, <2>2, <3>1, <3>2, AloneTypes, Parameters
  <2> QED
    BY <1>5, <2>1, <2>3, <2>4, SidesStay DEF AloneInv, All, Fits
<1> QED
  BY <1>1, <1>2, <1>3, <1>4, <1>5 DEF Same

LEMMA SendPartKeepsData ==
  ASSUME STypeOK, STypeOK', program \in WithThreads, Same, DataInv,
         NEW a \in Writers, SendEffect(a), UNCHANGED <<num, at, dInfo>>
  PROVE  DataInv' /\ Got' = Got
<1> USE DEF DataInv
<1>0. /\ Running(a) /\ ~reset /\ UNCHANGED <<ended, want, got>> /\ Peer(a) = To
      /\ \A b \in Agents \ {a} : out'[b] = out[b]
      /\ ended[Side(a)] = "no" /\ Side(a) # To
  BY SharedAgents DEF SendEffect, Running
<1>1. Conserved' /\ Got' = Got
  BY SendPartConserves
<1>2. ReadersInv'
  <2>1. \A b \in Readers : ended[Peer(b)] = "no"
    BY <1>0, SharedAgents
  <2> QED
    BY <1>0, <2>1, SidesStay DEF ReadersInv, Receiving
<1>3. at[a] = "send"
  BY LengthOfNone DEF WritersInv, SendEffect
<1>4. WritersInv'
  BY <1>0, <1>3, SidesStay, SharedAgents DEF WritersInv
<1>5. ThreadsInv'
  <2>1. \A t \in 1..MaxThreads : at[t] = "out" => out'[t] = out[t]
    BY <1>0, <1>3, SharedAgents
  <2> QED
    BY <1>0, <2>1, SidesStay DEF ThreadsInv, Unborn, Same
<1>6. ASSUME threadNum = 1
      PROVE  AloneInv'
  <2>1. a = Writer /\ Place' = Place
    BY <1>0, <1>6, AloneAgents, SidesStay DEF Place, Partly
  <2>2. ASSUME ended[To] = "no"
        PROVE  /\ \A i \in 1..Length(wire'[To]) : Fits(wire'[To][i][2], Place + i - 1)
               /\ \A i \in 1..Length(out'[Writer]) : Fits(out'[Writer][i][2], Place + Length(wire'[To]) + i - 1)
               /\ Place + Length(wire'[To]) + Length(out'[Writer]) = num[Writer] * Size
    <3>1. PICK n \in 1..Length(out[a]) :
            /\ Length(out'[a]) = Length(out[a]) - n
            /\ \A i \in 1..Length(out'[a]) : out'[a][i] = out[a][i + n]
            /\ Pours(out[a], n, out'[a], wire[To], wire'[To])
      BY <1>0, <2>2 DEF SendEffect
    <3>2. /\ \A i \in 1..Length(wire[To]) : Fits(wire[To][i][2], Place + i - 1)
          /\ \A i \in 1..Length(out[a]) : Fits(out[a][i][2], Place + Length(wire[To]) + i - 1)
          /\ Place + Length(wire[To]) + Length(out[a]) = num[a] * Size
      BY <1>6, <2>1, <2>2 DEF AloneInv
    <3>3. /\ Place \in Nat /\ Length(wire[To]) \in Nat /\ Length(out[a]) \in Nat
          /\ num[a] * Size \in Nat
      BY <1>6, <2>1, AloneTypes
    <3>4. /\ Length(wire'[To]) = Length(wire[To]) + n
          /\ \A i \in 1..Length(wire[To]) : wire'[To][i] = wire[To][i]
          /\ \A i \in 1..n : wire'[To][Length(wire[To]) + i] = out[a][i]
      BY <3>1 DEF Pours
    <3>5. ASSUME NEW i \in 1..Length(wire'[To])
          PROVE  Fits(wire'[To][i][2], Place + i - 1)
      <4>1. CASE i <= Length(wire[To])
        BY <3>2, <3>3, <3>4, <4>1
      <4>2. CASE i > Length(wire[To])
        <5>1. /\ i - Length(wire[To]) \in 1..n
              /\ Length(wire[To]) + (i - Length(wire[To])) = i
              /\ Place + Length(wire[To]) + (i - Length(wire[To])) - 1 = Place + i - 1
              /\ n \in Nat /\ i - Length(wire[To]) \in 1..Length(out[a])
          BY <3>1, <3>3, <3>4, <3>5, <4>2
        <5> QED
          BY <3>2, <3>4, <5>1
      <4> QED
        BY <3>1, <3>3, <3>4, <3>5, <4>1, <4>2
    <3>6. ASSUME NEW i \in 1..Length(out'[a])
          PROVE  Fits(out'[a][i][2], Place + Length(wire'[To]) + i - 1)
      <4>1. /\ i + n \in 1..Length(out[a]) /\ n \in Nat
            /\ Place + Length(wire[To]) + (i + n) - 1 = Place + Length(wire'[To]) + i - 1
        BY <3>1, <3>3, <3>4, <3>6
      <4> QED
        BY <3>1, <3>2, <4>1
    <3>7. Place + Length(wire'[To]) + Length(out'[a]) = num[a] * Size
      BY <3>1, <3>2, <3>3, <3>4
    <3> QED
      BY <2>1, <3>5, <3>6, <3>7
  <2> QED
    BY <1>0, <1>6, <2>1, <2>2, SidesStay DEF AloneInv, All, Fits
<1> QED
  BY <1>1, <1>2, <1>4, <1>5, <1>6 DEF Same

LEMMA RecvRequestKeepsData ==
  ASSUME STypeOK, STypeOK', program \in WithThreads, Same, DataInv,
         NEW a \in Readers, at[a] = "recv", at'[a] = "received", want'[a] = Size, got'[a] = <<>>,
         \A b \in Agents \ {a} : want'[b] = want[b] /\ at'[b] = at[b] /\ got'[b] = got[b],
         UNCHANGED <<wire, reset, ended, out, num, dInfo>>
  PROVE  DataInv' /\ Got' = Got
<1> USE DEF DataInv
<1>0. \A b \in Readers : b \in Agents /\ (b = a \/ b \in Agents \ {a})
  BY SharedAgents
<1>1. Conserved' /\ Got' = Got
  <2>1. \A b \in Readers : Partly(b)' = Partly(b)
    BY <1>0, LengthOfNone DEF Partly
  <2>2. Length(wire'[To]) <= Length(wire[To])
    BY SharedAgents, TermTypes
  <2> QED
    BY <2>1, <2>2, QuietConserves
<1>2. ReadersInv'
  <2>1. Length(got'[a]) + want'[a] = Size
    BY LengthOfNone, Parameters
  <2> QED
    BY <1>0, <2>1, SidesStay DEF ReadersInv, Receiving
<1>3. WritersInv'
  BY SidesStay, SharedAgents DEF WritersInv
<1>4. ThreadsInv'
  <2>1. \A t \in 1..MaxThreads : /\ (at'[t] = "out" <=> at[t] = "out")
                                 /\ at[t] = "out" => t # a /\ t \in Agents
    BY SharedAgents
  <2> QED
    BY <2>1, SidesStay DEF ThreadsInv, Unborn, Same
<1>5. ASSUME threadNum = 1
      PROVE  AloneInv'
  <2>1. a = Reader /\ Partly(Reader)' = Partly(Reader)
    BY <1>5, AloneAgents, SidesStay, LengthOfNone DEF Partly
  <2>2. Place' = Place
    BY <2>1, SidesStay DEF Place
  <2>3. All(got'[Reader], Length(dInfo[Reader]))
    BY <2>1, LengthOfNone DEF All
  <2> QED
    BY <1>5, <2>1, <2>2, <2>3, SidesStay DEF AloneInv, All, Fits
<1> QED
  BY <1>1, <1>2, <1>3, <1>4, <1>5 DEF Same

LEMMA RecvPartKeepsData ==
  ASSUME STypeOK, STypeOK', program \in WithThreads, Same, DataInv,
         NEW a \in Readers, RecvEffect(a, TRUE), UNCHANGED <<num, at, dInfo>>
  PROVE  DataInv' /\ Got' = Got /\ at[a] = "received"
<1> USE DEF DataInv
<1>0. /\ Running(a) /\ UNCHANGED <<ended, reset, out>> /\ Side(a) = To
      /\ \A b \in Agents \ {a} : got'[b] = got[b] /\ want'[b] = want[b]
      /\ \A b \in Readers : b \in Agents
  BY SharedAgents DEF RecvEffect
<1>1. PICK n \in 1..want[a] : /\ Pours(wire[To], n, wire'[To], got[a], got'[a])
                              /\ want'[a] = want[a] - n
  BY <1>0 DEF RecvEffect
<1>2. /\ want[a] \in Nat /\ n \in Nat \ {0} /\ Length(got[a]) \in Nat /\ Length(got'[a]) \in Nat
      /\ Length(wire[To]) \in Nat /\ Length(wire'[To]) \in Nat
      /\ Length(wire'[To]) = Length(wire[To]) - n /\ Length(got'[a]) = Length(got[a]) + n
  <2>1. want[a] \in Nat /\ n \in Nat \ {0}
    BY <1>0, <1>1, Lengths
  <2> QED
    BY <1>0, <1>1, <2>1 DEF Pours, RecvEffect
<1>3. at[a] = "received" /\ Length(got[a]) + want[a] = Size
  BY <1>2 DEF ReadersInv, Receiving
<1>4. Conserved' /\ Got' = Got
  BY <1>3, RecvPartConserves
<1>5. ReadersInv'
  <2>1. Length(got'[a]) + want'[a] = Size
    BY <1>1, <1>2, <1>3, Parameters
  <2>2. wire[To] # <<>>
    BY <1>2, LengthOfNone
  <2> QED
    BY <1>0, <1>3, <2>1, <2>2, SidesStay DEF ReadersInv, Receiving
<1>6. WritersInv'
  BY <1>0, SidesStay, SharedAgents DEF WritersInv
<1>7. ThreadsInv'
  <2>1. \A t \in 1..MaxThreads : at[t] = "out" => t # a /\ t \in Agents
    BY <1>3, SharedAgents
  <2> QED
    BY <1>0, <2>1, SidesStay DEF ThreadsInv, Unborn, Same
<1>8. ASSUME threadNum = 1
      PROVE  AloneInv'
  <2>1. a = Reader /\ ended[To] = "no"
    BY <1>0, <1>8, AloneAgents DEF Running
  <2> DEFINE k == Length(dInfo[Reader])
             p == Length(got[a])
             lw == Length(wire[To])
             lx == Length(wire'[To])
  <2>2. /\ k \in Nat /\ k * Size \in Nat /\ Place \in Nat /\ p \in Nat /\ lw \in Nat /\ lx \in Nat
        /\ Length(out[Writer]) \in Nat /\ num[Writer] * Size \in Nat
        /\ lx = lw - n /\ n \in Nat \ {0} /\ Length(got'[a]) = p + n
        /\ n <= want[a] /\ want[a] \in Nat /\ p + want[a] = Size
    BY <1>1, <1>2, <1>3, <1>8, AloneTypes
  <2>3. Place = k * Size + p /\ Place' = Place + n
    <3>1. Partly(Reader) = p /\ Partly(Reader)' = p + n /\ Length(dInfo'[Reader]) = k
      BY <1>3, <2>1, <2>2, SidesStay DEF Partly
    <3>2. Place = k * Size + p /\ Place' = k * Size + (p + n)
      BY <3>1, SidesStay DEF Place
    <3> HIDE DEF k, p
    <3> QED
      BY <2>2, <3>2
  <2>4. /\ \A i \in 1..lw : Fits(wire[To][i][2], Place + i - 1)
        /\ \A i \in 1..Length(out[Writer]) : Fits(out[Writer][i][2], Place + lw + i - 1)
        /\ Place + lw + Length(out[Writer]) = num[Writer] * Size
        /\ All(got[a], k)
    BY <1>3, <1>8, <2>1 DEF AloneInv
  <2>5. /\ \A i \in 1..lx : wire'[To][i] = wire[To][i + n]
        /\ \A i \in 1..p : got'[a][i] = got[a][i]
        /\ \A i \in 1..n : got'[a][p + i] = wire[To][i]
    BY <1>1 DEF Pours
  <2>6. ASSUME NEW i \in 1..n
        PROVE  wire[To][i][2] = k
    <3>1. i \in 1..lw
      BY <2>2, <2>6
    <3>2. wire[To][i][2] \in Int
      <4>1. wire[To] \in Seq(Bytes) /\ Length(wire[To]) = Len(wire[To])
        BY SharedAgents, LengthType DEF STypeOK
      <4>2. wire[To][i] \in Bytes
        BY <3>1, <4>1
      <4> QED
        BY <4>2 DEF Bytes
    <3>3. Fits(wire[To][i][2], Place + i - 1)
      BY <2>4, <3>1
    <3>4. Fits(k, Place + i - 1)
      <4>1. (k + 1) * Size = k * Size + Size
        BY <2>2, Parameters
      <4>2. k * Size <= Place + i - 1 /\ Place + i - 1 < k * Size + Size
        <5> HIDE DEF k, p
        <5> QED
          BY <2>2, <2>3, <2>6, Parameters
      <4> QED
        BY <4>1, <4>2 DEF Fits
    <3>5. Place + i - 1 \in Int /\ k \in Int
      <4> HIDE DEF k
      <4> QED
        BY <2>2, <2>6
    <3> HIDE DEF k
    <3> QED
      BY <3>2, <3>3, <3>4, <3>5, FitsOne
  <2>7. All(got'[a], k)
    <3> HIDE DEF k, p
    <3>1. ASSUME NEW i \in 1..(p + n)
          PROVE  got'[a][i][2] = k
      <4>1. CASE i <= p
        BY <2>2, <2>4, <2>5, <3>1, <4>1 DEF All, p
      <4>2. CASE i > p
        <5>1. i - p \in 1..n /\ p + (i - p) = i
          BY <2>2, <3>1, <4>2
        <5> QED
          BY <2>5, <2>6, <5>1
      <4> QED
        BY <2>2, <3>1, <4>1, <4>2
    <3> QED
      BY <2>2, <3>1 DEF All
  <2>8. ASSUME NEW i \in 1..lx
        PROVE  Fits(wire'[To][i][2], Place' + i - 1)
    <3> HIDE DEF k, p, lw, lx
    <3>1. i + n \in 1..lw /\ Place + (i + n) - 1 = Place' + i - 1
      BY <2>2, <2>3, <2>8
    <3> QED
      BY <2>4, <2>5, <3>1
  <2>9. ASSUME NEW i \in 1..Length(out[Writer])
        PROVE  Fits(out[Writer][i][2], Place' + lx + i - 1)
    <3> HIDE DEF k, p, lw, lx
    <3>1. Place + lw + i - 1 = Place' + lx + i - 1
      BY <2>2, <2>3, <2>9
    <3> QED
      BY <2>4, <3>1
  <2>10. Place' + lx + Length(out[Writer]) = num[Writer] * Size
    <3> HIDE DEF k, p, lw, lx
    <3> QED
      BY <2>2, <2>3, <2>4
  <2> QED
    BY <1>0, <1>8, <2>1, <2>7, <2>8, <2>9, <2>10, SidesStay DEF AloneInv, All, Fits
<1> QED
  BY <1>3, <1>4, <1>5, <1>6, <1>7, <1>8 DEF Same

LEMMA ReceivedKeepsData ==
  ASSUME STypeOK, STypeOK', program \in WithThreads, Same, DataInv,
         NEW a \in Readers, at[a] = "received", at'[a] = "recv", want[a] = 0,
         Length(dInfo'[a]) = Length(dInfo[a]) + 1, dInfo'[a][Length(dInfo[a]) + 1] = got[a],
         \A k \in 1..Length(dInfo[a]) : dInfo'[a][k] = dInfo[a][k],
         \A b \in Agents \ {a} : dInfo'[b] = dInfo[b] /\ at'[b] = at[b],
         UNCHANGED <<num, out, got, want, wire, reset, ended>>
  PROVE  DataInv' /\ Got' = Got + 1
<1> USE DEF DataInv
<1>0. a \in Agents /\ \A b \in Readers : b \in Agents /\ (b = a \/ b \in Agents \ {a})
  BY SharedAgents
<1>1. Length(got[a]) = Size
  <2>1. Length(got[a]) \in Nat
    BY <1>0, Lengths
  <2> QED
    BY <2>1 DEF ReadersInv, Receiving
<1>2. Conserved' /\ Got' = Got + 1
  BY <1>0, <1>1, ReceivedConserves
<1>3. ReadersInv'
  BY <1>0, SidesStay DEF ReadersInv, Receiving
<1>4. WritersInv'
  BY SidesStay, SharedAgents DEF WritersInv
<1>5. ThreadsInv'
  <2>1. \A t \in 1..MaxThreads : /\ (at'[t] = "out" <=> at[t] = "out")
                                 /\ at[t] = "out" => t # a /\ t \in Agents
    BY SharedAgents
  <2>2. \A b \in Agents \ (Readers \cup {Server}) : dInfo'[b] = dInfo[b]
    OBVIOUS
  <2> QED
    BY <2>1, <2>2, SidesStay DEF ThreadsInv, Unborn, Same
<1>6. ASSUME threadNum = 1
      PROVE  AloneInv'
  <2>1. a = Reader
    BY <1>6, AloneAgents
  <2> DEFINE n == Length(dInfo[a])
  <2>2. n \in Nat /\ n * Size \in Nat
    BY <1>6, <2>1, AloneTypes
  <2>3. Place' = Place
    <3>1. Partly(a) = Size /\ Partly(a)' = 0
      BY <1>1 DEF Partly
    <3>2. Place = n * Size + Size /\ Place' = (n + 1) * Size + 0
      BY <2>1, <3>1, SidesStay DEF Place
    <3>3. (n + 1) * Size = n * Size + Size /\ n * Size \in Nat
      <4> HIDE DEF n
      <4> QED
        BY <2>2, Parameters
    <3> HIDE DEF n
    <3> QED
      BY <3>2, <3>3, Parameters
  <2>4. ASSUME NEW k \in 1..(n + 1)
        PROVE  All(dInfo'[a][k], k - 1)
    <3>1. CASE k = n + 1
      <4>1. k - 1 = n
        <5> HIDE DEF n
        <5> QED
          BY <2>2, <3>1
      <4>2. dInfo'[a][k] = got[a]
        BY <3>1
      <4>3. All(got[a], n)
        BY <1>6, <2>1 DEF AloneInv
      <4> QED
        BY <4>1, <4>2, <4>3
    <3>2. CASE k # n + 1
      <4>1. k \in 1..n
        <5> HIDE DEF n
        <5> QED
          BY <2>2, <2>4, <3>2
      <4> QED
        BY <1>6, <2>1, <4>1 DEF AloneInv
    <3> QED
      BY <3>1, <3>2
  <2>5. \A k \in 1..Length(dInfo'[a]) : All(dInfo'[a][k], k - 1)
    BY <2>4
  <2>6. \A k \in 1..Length(dInfo'[Reader]) : All(dInfo'[Reader][k], k - 1)
    BY <2>1, <2>5
  <2> QED
    BY <1>6, <2>1, <2>3, <2>6, SidesStay DEF AloneInv, All, Fits
<1> QED
  BY <1>2, <1>3, <1>4, <1>5, <1>6 DEF Same

LEMMA NoMoreKeepsData ==
  ASSUME STypeOK, STypeOK', program \in WithThreads, Same, DataInv,
         NEW a \in Readers, RecvFails(a), want'[a] = 0, at'[a] = "end",
         \A b \in Agents \ {a} : want'[b] = want[b] /\ at'[b] = at[b],
         UNCHANGED <<num, out, got, wire, reset, ended, dInfo>>
  PROVE  DataInv' /\ Got' = Got
<1> USE DEF DataInv
<1>0. a \in Agents /\ \A b \in Readers : b \in Agents /\ (b = a \/ b \in Agents \ {a})
  BY SharedAgents
<1>1. /\ want[a] > 0 /\ Side(a) = To
      /\ reset \/ (wire[To] = <<>> /\ ended[Peer(a)] # "no")
  BY SharedAgents DEF RecvFails
<1>2. at[a] = "received" /\ Length(got[a]) < Size
  <2>1. want[a] \in Nat /\ Length(got[a]) \in Nat
    BY <1>0, Lengths
  <2>2. at[a] = "received" /\ Length(got[a]) + want[a] = Size
    BY <1>1, <2>1 DEF ReadersInv, Receiving
  <2> QED
    BY <1>1, <2>1, <2>2, Parameters
<1>3. Conserved' /\ Got' = Got
  <2>1. \A b \in Readers : Partly(b)' = Partly(b)
    BY <1>0, <1>2 DEF Partly
  <2>2. Length(wire'[To]) <= Length(wire[To])
    BY SharedAgents, TermTypes
  <2> QED
    BY <2>1, <2>2, QuietConserves
<1>4. ReadersInv'
  BY <1>0, <1>1, <1>2, SidesStay DEF ReadersInv, Receiving
<1>5. WritersInv'
  BY SidesStay, SharedAgents DEF WritersInv
<1>6. ThreadsInv'
  <2>1. \A t \in 1..MaxThreads : /\ (at'[t] = "out" <=> at[t] = "out")
                                 /\ at[t] = "out" => t # a /\ t \in Agents
    BY <1>2, SharedAgents
  <2> QED
    BY <2>1, SidesStay DEF ThreadsInv, Unborn, Same
<1>7. ASSUME threadNum = 1
      PROVE  AloneInv'
  <2>1. a = Reader /\ Place' = Place /\ at'[Reader] = "end"
    BY <1>2, <1>7, AloneAgents, SidesStay DEF Place, Partly
  <2> QED
    BY <1>7, <2>1, SidesStay DEF AloneInv, All, Fits
<1> QED
  BY <1>3, <1>4, <1>5, <1>6, <1>7 DEF Same

\* A thread has sent its share.
LEMMA WriterEndsKeepsData ==
  ASSUME STypeOK, STypeOK', program \in WithThreads, Same, DataInv,
         NEW a \in Writers, at[a] = "send", at'[a] = "end", out[a] = <<>>,
         \A b \in Agents \ {a} : at'[b] = at[b],
         UNCHANGED <<num, out, got, want, wire, reset, ended, dInfo>>
  PROVE  DataInv' /\ Got' = Got
<1> USE DEF DataInv
<1>0. a \in Agents /\ \A b \in Readers : b \in Agents \ {a}
  BY SharedAgents
<1>1. \A b \in Writers : b \in Agents /\ (b = a \/ b \in Agents \ {a})
  BY SharedAgents
<1>3. Conserved' /\ Got' = Got
  <2>1. \A b \in Readers : Partly(b)' = Partly(b)
    BY <1>0 DEF Partly
  <2>2. Length(wire'[To]) <= Length(wire[To])
    BY SharedAgents, TermTypes
  <2> QED
    BY <2>1, <2>2, QuietConserves
<1>4. ReadersInv'
  BY <1>0, SidesStay DEF ReadersInv, Receiving
<1>5. WritersInv'
  BY <1>1, SidesStay, SharedAgents DEF WritersInv
<1>6. ThreadsInv'
  <2>1. \A t \in 1..MaxThreads : /\ (at'[t] = "out" <=> at[t] = "out")
                                 /\ at[t] = "out" => t # a /\ t \in Agents
    BY SharedAgents
  <2> QED
    BY <2>1, SidesStay DEF ThreadsInv, Unborn, Same
<1>7. ASSUME threadNum = 1
      PROVE  AloneInv'
  <2>1. Reader \in Readers
    BY <1>7, AloneAgents
  <2>2. Place' = Place /\ at'[Reader] = at[Reader]
    BY <1>0, <2>1, SidesStay DEF Place, Partly
  <2> QED
    BY <1>7, <2>2, SidesStay DEF AloneInv, All, Fits
<1> QED
  BY <1>3, <1>4, <1>5, <1>6, <1>7 DEF Same

-----------------------------------------------------------------------------
(* The steps that recv and send share *)

LEMMA SendNextStep ==
  ASSUME STypeOK, program \in WithThreads, Same, DataInv, NEW a \in Writers, NEW n \in Nat,
         SendNext(a, n)
  PROVE  /\ STypeOK' /\ DataInv' /\ Got' = Got
         /\ at[a] = "send" /\ num[a] \in Nat /\ num[a] < n /\ num'[a] = num[a] + 1
         /\ \A b \in Agents \ {a} : num'[b] = num[b] /\ out'[b] = out[b]
         /\ UNCHANGED <<wire, reset, ended, at, got, want, dInfo, bufLen, total>>
         /\ ended[Side(a)] = "no"
<1> DEFINE v == num[a]
           m == Message(a, v)
<1>0. a \in Agents
  BY SharedAgents
<1>1. /\ at[a] = "send" /\ out[a] = <<>> /\ ended[Side(a)] = "no" /\ v < n /\ v \in Nat
      /\ SendAll(a, m) /\ num' = [num EXCEPT ![a] = v + 1]
      /\ UNCHANGED <<wire, ended, reset, at, dInfo, bufLen, total>>
  BY <1>0 DEF SendNext, STypeOK, At, Idle, Running, linkVars
<1>2. m \in Seq(Bytes) /\ Length(m) = Size /\ All(m, v)
  <2>1. LengthOf(v) = Size
    BY DEF LengthOf, WithThreads
  <2> QED
    BY <1>0, <1>1, <2>1, BlockIsUniform, Parameters DEF Message
<1> HIDE DEF m
<1>3. /\ UNCHANGED <<want, got>> /\ out' \in [Agents -> Seq(Bytes)] /\ out'[a] = m
      /\ \A b \in Agents \ {a} : out'[b] = out[b]
  BY <1>0, <1>1, <1>2, Offers
<1>4. /\ num' \in [Agents -> Nat] /\ num'[a] = v + 1
      /\ \A b \in Agents \ {a} : num'[b] = num[b]
  <2>1. num \in [Agents -> Nat] /\ v + 1 \in Nat
    BY <1>1 DEF STypeOK
  <2> HIDE DEF v
  <2> QED
    BY <1>0, <1>1, <2>1
<1>5. STypeOK'
  BY <1>1, <1>3, <1>4 DEF STypeOK, Same
<1>6. DataInv' /\ Got' = Got
  BY <1>1, <1>2, <1>3, <1>4, <1>5, SendNextKeepsData
<1> QED
  BY <1>1, <1>3, <1>4, <1>5, <1>6

LEMMA SendPartStep ==
  ASSUME STypeOK, program \in WithThreads, Same, DataInv, NEW a \in Writers, SendPart(a)
  PROVE  /\ STypeOK' /\ DataInv' /\ Got' = Got
         /\ out[a] # <<>> /\ \A b \in Agents \ {a} : out'[b] = out[b]
         /\ UNCHANGED <<ended, at, got, want, num, dInfo, bufLen, total>>
         /\ \A s \in Sides \ {To} : wire'[s] = wire[s]
         /\ ended[Side(a)] = "no"
<1>1. SendEffect(a) /\ UNCHANGED <<at, num, dInfo, bufLen, total>>
  BY Sends, SharedAgents DEF SendPart, ownVars
<1>2. STypeOK'
  BY <1>1 DEF STypeOK, SendEffect, Same
<1>3. out[a] # <<>>
  BY <1>1, LengthOfNone DEF SendEffect
<1> QED
  BY <1>1, <1>2, <1>3, SendPartKeepsData, SharedAgents DEF SendEffect, Running

LEMMA RecvRequestStep ==
  ASSUME STypeOK, program \in WithThreads, Same, DataInv, NEW a \in Readers, RecvRequest(a)
  PROVE  /\ STypeOK' /\ DataInv' /\ Got' = Got
         /\ at[a] = "recv" /\ at'[a] = "received"
         /\ \A b \in Agents \ {a} : want'[b] = want[b] /\ at'[b] = at[b] /\ got'[b] = got[b]
         /\ UNCHANGED <<wire, reset, ended, out, num, dInfo, bufLen, total>>
         /\ ended[To] = "no"
<1>0. a \in Agents /\ Side(a) = To
  BY SharedAgents
<1>1. /\ at[a] = "recv" /\ ended[To] = "no" /\ at' = [at EXCEPT ![a] = "received"] /\ RecvAll(a, Size)
      /\ UNCHANGED <<wire, reset, ended, num, dInfo, bufLen, total>>
  BY <1>0 DEF RecvRequest, At, Idle, Running, linkVars
<1>2. /\ at' \in [Agents -> Labels] /\ at'[a] = "received"
      /\ \A b \in Agents \ {a} : at'[b] = at[b]
  BY <1>0, <1>1 DEF STypeOK, Labels
<1>3. /\ UNCHANGED out
      /\ want' \in [Agents -> Nat] /\ want'[a] = Size /\ \A b \in Agents \ {a} : want'[b] = want[b]
      /\ got' \in [Agents -> Seq(Bytes)] /\ got'[a] = <<>>
      /\ \A b \in Agents \ {a} : got'[b] = got[b]
  BY <1>0, <1>1, Awaits, Parameters
<1>4. STypeOK'
  BY <1>1, <1>2, <1>3 DEF STypeOK, Same
<1>5. DataInv' /\ Got' = Got
  BY <1>1, <1>2, <1>3, <1>4, RecvRequestKeepsData
<1> QED
  BY <1>1, <1>2, <1>3, <1>4, <1>5

LEMMA RecvPartStep ==
  ASSUME STypeOK, program \in WithThreads, Same, DataInv, NEW a \in Readers, RecvPart(a)
  PROVE  /\ STypeOK' /\ DataInv' /\ Got' = Got
         /\ \A b \in Agents \ {a} : want'[b] = want[b] /\ got'[b] = got[b]
         /\ UNCHANGED <<reset, ended, out, at, num, dInfo, bufLen, total>>
         /\ \A s \in Sides \ {To} : wire'[s] = wire[s]
         /\ ended[To] = "no"
<1>1. RecvEffect(a, TRUE) /\ UNCHANGED <<at, num, dInfo, bufLen, total>>
  BY Receives, SharedAgents DEF RecvPart, ownVars
<1>2. STypeOK'
  BY <1>1 DEF STypeOK, RecvEffect, Same
<1>3. DataInv' /\ Got' = Got
  BY <1>1, <1>2, RecvPartKeepsData
<1> QED
  BY <1>1, <1>2, <1>3, SharedAgents DEF RecvEffect, Running

LEMMA ReceivedStep ==
  ASSUME STypeOK, program \in WithThreads, Same, DataInv, NEW a \in Readers, Received(a),
         bufLen' \in [Agents -> Nat]
  PROVE  /\ STypeOK' /\ DataInv' /\ Got' = Got + 1
         /\ at[a] = "received" /\ at'[a] = "recv"
         /\ Length(got[a]) = Size /\ Length(dInfo[a]) \in Nat
         /\ Length(dInfo'[a]) = Length(dInfo[a]) + 1 /\ Len(dInfo'[a]) = Length(dInfo[a]) + 1
         /\ \A b \in Agents \ {a} : dInfo'[b] = dInfo[b] /\ at'[b] = at[b]
         /\ UNCHANGED <<num, out, got, want, wire, reset, ended, total>>
         /\ ended[To] = "no"
<1>0. a \in Agents /\ Side(a) = To
  BY SharedAgents
<1>1. /\ Move(a, "received", "recv") /\ dInfo' = [dInfo EXCEPT ![a] = Append(@, got[a])]
      /\ UNCHANGED <<num, out, got, want, wire, reset, ended, total>>
  BY DEF Received, linkVars, chunkVars
<1>2. /\ at[a] = "received" /\ want[a] = 0 /\ ended[To] = "no"
      /\ at' \in [Agents -> Labels] /\ at'[a] = "recv"
      /\ \A b \in Agents \ {a} : at'[b] = at[b]
  BY <1>0, <1>1, Moves DEF Labels, Running
<1> DEFINE s == Append(dInfo[a], got[a])
<1>3. dInfo[a] \in Seq(Seq(Bytes)) /\ got[a] \in Seq(Bytes) /\ dInfo \in [Agents -> Seq(Seq(Bytes))]
  BY <1>0 DEF STypeOK
<1>4. /\ s \in Seq(Seq(Bytes)) /\ Len(s) = Len(dInfo[a]) + 1
      /\ s[Len(dInfo[a]) + 1] = got[a] /\ \A k \in 1..Len(dInfo[a]) : s[k] = dInfo[a][k]
  BY <1>3
<1>5. dInfo' = [dInfo EXCEPT ![a] = s]
  BY <1>1
<1> HIDE DEF s
<1>6. /\ dInfo' \in [Agents -> Seq(Seq(Bytes))] /\ dInfo'[a] = s
      /\ \A b \in Agents \ {a} : dInfo'[b] = dInfo[b]
  BY <1>0, <1>3, <1>4, <1>5
<1>7. Length(dInfo[a]) = Len(dInfo[a]) /\ Length(dInfo[a]) \in Nat /\ Length(s) = Len(s)
  BY <1>3, <1>4, LengthType
<1>8. STypeOK'
  BY <1>1, <1>2, <1>6 DEF STypeOK, Same
<1>9. /\ Length(dInfo'[a]) = Length(dInfo[a]) + 1 /\ Len(dInfo'[a]) = Length(dInfo[a]) + 1
      /\ dInfo'[a][Length(dInfo[a]) + 1] = got[a]
      /\ \A k \in 1..Length(dInfo[a]) : dInfo'[a][k] = dInfo[a][k]
  BY <1>4, <1>6, <1>7
<1>10. DataInv' /\ Got' = Got + 1
  BY <1>1, <1>2, <1>6, <1>8, <1>9, ReceivedKeepsData
<1>11. Length(got[a]) = Size
  <2>1. Length(got[a]) \in Nat
    BY <1>0, Lengths
  <2> QED
    BY <1>2, <2>1 DEF DataInv, ReadersInv, Receiving
<1> QED
  BY <1>1, <1>2, <1>6, <1>7, <1>8, <1>9, <1>10, <1>11

LEMMA NoMoreStep ==
  ASSUME STypeOK, program \in WithThreads, Same, DataInv, NEW a \in Readers, NoMore(a, "end")
  PROVE  /\ STypeOK' /\ DataInv' /\ Got' = Got
         /\ at[a] = "received" /\ at'[a] = "end"
         /\ \A b \in Agents \ {a} : want'[b] = want[b] /\ at'[b] = at[b]
         /\ UNCHANGED <<num, out, got, wire, reset, ended, dInfo, bufLen, total>>
         /\ ended[To] = "no"
<1>0. a \in Agents /\ Side(a) = To
  BY SharedAgents
<1>1. /\ RecvFails(a) /\ ended[To] = "no" /\ want[a] > 0
      /\ want' = [want EXCEPT ![a] = 0] /\ at' = [at EXCEPT ![a] = "end"]
      /\ UNCHANGED <<num, out, got, wire, reset, ended, dInfo, bufLen, total>>
  BY <1>0 DEF NoMore, RecvFails, Running, linkVars
<1>2. /\ at' \in [Agents -> Labels] /\ at'[a] = "end"
      /\ \A b \in Agents \ {a} : at'[b] = at[b]
  BY <1>0, <1>1 DEF STypeOK, Labels
<1>3. /\ want' \in [Agents -> Nat] /\ want'[a] = 0
      /\ \A b \in Agents \ {a} : want'[b] = want[b]
  BY <1>0, <1>1 DEF STypeOK
<1>4. STypeOK'
  BY <1>1, <1>2, <1>3 DEF STypeOK, Same
<1>5. DataInv' /\ Got' = Got
  BY <1>1, <1>2, <1>3, <1>4, NoMoreKeepsData
<1>6. at[a] = "received"
  BY <1>1 DEF DataInv, ReadersInv, Receiving
<1> QED
  BY <1>1, <1>2, <1>3, <1>4, <1>5, <1>6

LEMMA FailStep ==
  ASSUME STypeOK, program \in WithThreads, Same, DataInv, NEW s \in Sides, Fail(s)
  PROVE  /\ STypeOK' /\ DataInv' /\ Got' = Got
         /\ UNCHANGED <<out, want, got, at, num, dInfo, bufLen, total>>
         /\ ended'[s] = "failed" /\ \A r \in Sides \ {s} : wire'[r] = wire[r] /\ ended'[r] = ended[r]
         /\ wire'[s] = <<>>
<1>1. STypeOK'
  BY Failures DEF STypeOK, Same
<1>2. DataInv' /\ Got' = Got
  BY <1>1, Failures, StopKeepsData, SharedAgents
<1> QED
  BY <1>1, <1>2, Failures

LEMMA FinishStep ==
  ASSUME STypeOK, program \in WithThreads, Same, DataInv, NEW s \in Sides, NEW what \in Int,
         Finish(s, what)
  PROVE  /\ STypeOK' /\ DataInv' /\ Got' = Got
         /\ UNCHANGED <<out, want, got, at, num, dInfo, bufLen>>
         /\ ended'[s] = "ok" /\ \A r \in Sides \ {s} : wire'[r] = wire[r] /\ ended'[r] = ended[r]
         /\ wire'[s] = <<>>
         /\ total'[s] = what /\ \A r \in Sides \ {s} : total'[r] = total[r]
<1>1. STypeOK'
  BY Finishes DEF STypeOK, Same
<1>2. DataInv' /\ Got' = Got
  BY <1>1, Finishes, StopKeepsData, SharedAgents
<1> QED
  BY <1>1, <1>2, Finishes

LEMMA BreakStep ==
  ASSUME STypeOK, program \in WithThreads, Same, DataInv, Break, UNCHANGED <<ownVars, total>>
  PROVE  /\ STypeOK' /\ DataInv' /\ Got' = Got
         /\ UNCHANGED <<wire, ended, out, want, got, at, num, dInfo, bufLen, total>>
<1>1. /\ UNCHANGED <<wire, ended, out, want, got, at, num, dInfo, bufLen, total>>
      /\ reset' = TRUE
  BY DEF Break, chunkVars, ownVars
<1>2. STypeOK'
  BY <1>1 DEF STypeOK, Same
<1>3. DataInv' /\ Got' = Got
  BY <1>1, <1>2, StopKeepsData
<1> QED
  BY <1>1, <1>2, <1>3

LEMMA CreateStep ==
  ASSUME STypeOK, program \in WithThreads, Same, DataInv, NEW from,
         Create(from, IF program = "recv" THEN "recv" ELSE "send")
  PROVE  /\ STypeOK' /\ DataInv' /\ Got' = Got
         /\ UNCHANGED <<wire, ended, reset, out, want, got, dInfo, bufLen, total>>
         /\ \E t \in Threads :
              /\ at[t] = "out" /\ at'[t] = (IF program = "recv" THEN "recv" ELSE "send")
              /\ \A b \in Agents \ {t} : at'[b] = at[b]
         /\ \A b \in Agents \ {Server} : num'[b] = num[b]
         /\ at[Server] = from /\ ended[Server] = "no"
<1> DEFINE l == IF program = "recv" THEN "recv" ELSE "send"
           t == num[Server] + 1
<1>1. /\ at[Server] = from /\ ended[Server] = "no" /\ num[Server] < threadNum
      /\ num' = [num EXCEPT ![Server] = @ + 1]
      /\ at' = [at EXCEPT ![num'[Server]] = l]
      /\ UNCHANGED <<linkVars, chunkVars, dInfo, bufLen, total>>
  BY TheAgents DEF Create, At, Idle, Running
<1>2. l \in Labels /\ num[Server] \in Nat
  BY TermTypes, TheAgents DEF Labels
<1>3. t \in Threads /\ t \in Agents /\ at[t] = "out" /\ t \in Nat
  <2>1. t \in Threads /\ t \in 1..MaxThreads /\ t > num[Server] /\ t \in Nat
    BY <1>1, <1>2, ThreadCount DEF Threads
  <2> HIDE DEF t
  <2> QED
    BY <2>1, TheAgents DEF DataInv, ThreadsInv
<1>4. num' = [num EXCEPT ![Server] = t] /\ num'[Server] = t
  BY <1>1, TheAgents DEF STypeOK
<1>5. at' = [at EXCEPT ![t] = l]
  BY <1>1, <1>4
<1> HIDE DEF t, l
<1>6. num' \in [Agents -> Nat] /\ \A b \in Agents \ {Server} : num'[b] = num[b]
  BY <1>3, <1>4, Counts, TheAgents
<1>7. /\ at' \in [Agents -> Labels] /\ at'[t] = l
      /\ \A b \in Agents \ {t} : at'[b] = at[b]
  BY <1>2, <1>3, <1>5 DEF STypeOK
<1>8. STypeOK'
  BY <1>1, <1>6, <1>7 DEF STypeOK, Same, linkVars, chunkVars
<1>9. DataInv' /\ Got' = Got
  BY <1>1, <1>8, CreateKeepsData DEF l
<1> QED
  BY <1>1, <1>3, <1>6, <1>7, <1>8, <1>9 DEF l, linkVars, chunkVars

-----------------------------------------------------------------------------
(* recv *)

LEMMA SharedConnects ==
  ASSUME STypeOK, program \in WithThreads, Same, DataInv, Listen \/ Connect
  PROVE  /\ STypeOK' /\ DataInv' /\ Got' = Got
         /\ UNCHANGED <<wire, ended, reset, out, want, got, num, dInfo, bufLen, total>>
         /\ at[Server] \in {"setup", "listening"} /\ at'[Server] \in {"listening", "start"}
         /\ at'[Client] = at[Client] \/ (at[Client] = "setup" /\ at'[Client] = "start")
         /\ \A t \in 1..MaxThreads : at'[t] = at[t]
<1>1. /\ UNCHANGED <<wire, ended, reset, out, want, got, num, dInfo, bufLen, total>>
      /\ at' \in [Agents -> Labels]
      /\ at[Server] \in {"setup", "listening"} /\ at'[Server] \in {"listening", "start"}
      /\ at'[Client] = at[Client] \/ (at[Client] = "setup" /\ at'[Client] = "start")
      /\ \A t \in 1..MaxThreads : at'[t] = at[t]
  <2>1. CASE Listen
    <3>1. /\ at[Server] = "setup" /\ at' \in [Agents -> Labels] /\ at'[Server] = "listening"
          /\ \A b \in Agents \ {Server} : at'[b] = at[b]
      BY <2>1, Moves, TheAgents DEF Listen, Labels
    <3> QED
      BY <2>1, <3>1, TheAgents DEF Listen, linkVars, chunkVars
  <2>2. CASE Connect
    <3>1. /\ at' = [at EXCEPT ![Client] = "start", ![Server] = "start"]
          /\ at[Client] = "setup" /\ at[Server] = "listening"
          /\ UNCHANGED <<wire, ended, reset, out, want, got, num, dInfo, bufLen, total>>
      BY <2>2 DEF Connect, At, linkVars, chunkVars
    <3> QED
      BY <3>1, TheAgents DEF STypeOK, Labels
  <2> QED
    BY <2>1, <2>2
<1>2. STypeOK'
  BY <1>1 DEF STypeOK, Same
<1>3. \A a \in Agents \ Sides : at'[a] = at[a]
  <2>1. \A a \in Agents \ Sides : a \in 1..MaxThreads
    BY Parameters DEF Agents, Sides, Client, Server
  <2> QED
    BY <1>1, <2>1
<1>4. DataInv' /\ Got' = Got
  BY <1>1, <1>2, <1>3, QuietKeepsData
<1> QED
  BY <1>1, <1>2, <1>4

LEMMA CountRequests ==
  ASSUME STypeOK, program = "recv"
  PROVE  Cardinality(Requests) = Got
<1>1. \A t \in Threads : DOMAIN dInfo[t] = 1..InfoLens[t]
  <2>1. ASSUME NEW t \in Threads
        PROVE  DOMAIN dInfo[t] = 1..InfoLens[t]
    <3>1. t \in Agents /\ dInfo[t] \in Seq(Seq(Bytes))
      BY ThreadCount DEF STypeOK
    <3>2. InfoLens[t] = Len(dInfo[t])
      BY <3>1, LengthType DEF InfoLens
    <3> QED
      BY <3>1, <3>2
  <2> QED
    BY <2>1
<1>2. Readers = Threads
  BY DEF Readers
<1>3. Requests = UpTo(Readers, InfoLens)
  BY <1>1, <1>2 DEF Requests, UpTo
<1> QED
  BY <1>3 DEF Got, SumOver

LEMMA RecvFails1 ==
  ASSUME STypeOK, program = "recv", Same, DataInv, RecvInv, NEW s \in Sides, Fail(s)
  PROVE  STypeOK' /\ DataInv' /\ RecvInv'
<1>1. program \in WithThreads
  BY DEF WithThreads
<1>2. RecvInv'
  BY <1>1, FailStep, SidesStay, TheAgents DEF RecvInv
<1> QED
  BY <1>1, <1>2, FailStep

LEMMA RecvClientSteps ==
  ASSUME STypeOK, program = "recv", Same, DataInv, RecvInv, RecvClient
  PROVE  STypeOK' /\ DataInv' /\ RecvInv'
<1>0. /\ program \in WithThreads /\ Client \in Writers /\ Client \in Agents /\ To = Server
      /\ Server \in Agents \ {Client} /\ \A t \in Threads : t \in Agents \ {Client}
      /\ RequestNum \in Nat
  BY ThreadCount, TheAgents, Parameters DEF WithThreads, Writers, To
<1>1. CASE ClientStart
  <2>1. /\ at[Client] = "start" /\ at' \in [Agents -> Labels] /\ at'[Client] = "send"
        /\ \A b \in Agents \ {Client} : at'[b] = at[b]
    BY <1>1, Moves, TheAgents DEF ClientStart, Labels
  <2>2. UNCHANGED <<wire, ended, reset, out, want, got, num, dInfo, bufLen, total>>
    BY <1>1 DEF ClientStart, linkVars, chunkVars
  <2>3. STypeOK'
    BY <2>1, <2>2 DEF STypeOK, Same
  <2>4. DataInv' /\ Got' = Got
    BY <1>0, <2>1, <2>2, <2>3, QuietKeepsData, TheAgents
  <2>5. RecvInv'
    BY <1>0, <2>1, <2>2, <2>4, SidesStay DEF RecvInv
  <2> QED
    BY <2>3, <2>4, <2>5
<1>2. CASE SendNext(Client, RequestNum)
  <2>1. /\ STypeOK' /\ DataInv' /\ Got' = Got
        /\ num[Client] \in Nat /\ num[Client] < RequestNum /\ num'[Client] = num[Client] + 1
        /\ \A b \in Agents \ {Client} : out'[b] = out[b]
        /\ UNCHANGED <<ended, at, want, dInfo, bufLen, total>>
        /\ ended[Client] = "no"
    BY <1>0, <1>2, SendNextStep, TheAgents
  <2>2. RecvInv'
    BY <1>0, <2>1, SidesStay DEF RecvInv
  <2> QED
    BY <2>1, <2>2
<1>3. CASE SendPart(Client)
  <2>1. /\ STypeOK' /\ DataInv' /\ Got' = Got
        /\ \A b \in Agents \ {Client} : out'[b] = out[b]
        /\ UNCHANGED <<ended, at, num, want, dInfo, bufLen, total>>
        /\ ended[Client] = "no"
    BY <1>0, <1>3, SendPartStep, TheAgents
  <2>2. RecvInv'
    BY <1>0, <2>1, SidesStay DEF RecvInv
  <2> QED
    BY <2>1, <2>2
<1>4. CASE SendFailed(Client)
  BY <1>4, RecvFails1, TheAgents DEF SendFailed
<1>5. CASE At(Client, "send") /\ num[Client] = RequestNum /\ Finish(Client, RequestNum)
  <2>1. RequestNum \in Int /\ out[Client] = <<>>
    BY <1>0, <1>5 DEF At, Idle
  <2>2. /\ STypeOK' /\ DataInv' /\ Got' = Got
        /\ UNCHANGED <<out, want, got, at, num, dInfo, bufLen>>
        /\ ended'[Server] = ended[Server] /\ total'[Server] = total[Server]
    BY <1>0, <1>5, <2>1, FinishStep, TheAgents
  <2>3. RecvInv'
    BY <1>0, <1>5, <2>1, <2>2, SidesStay DEF RecvInv
  <2> QED
    BY <2>2, <2>3
<1> QED
  BY <1>1, <1>2, <1>3, <1>4, <1>5 DEF RecvClient

LEMMA RecvThreadSteps ==
  ASSUME STypeOK, program = "recv", Same, DataInv, RecvInv, NEW t \in Threads, RecvThread(t)
  PROVE  STypeOK' /\ DataInv' /\ RecvInv'
<1>0. /\ program \in WithThreads /\ t \in Readers /\ t \in Agents /\ To = Server
      /\ Server \in Agents \ {t} /\ Client \in Agents \ {t} /\ \A u \in Threads : u \in Agents
  BY ThreadCount, TheAgents DEF WithThreads, Readers, To
<1>1. CASE RecvRequest(t)
  <2>1. /\ STypeOK' /\ DataInv' /\ Got' = Got /\ at[t] = "recv" /\ at'[t] = "received"
        /\ \A b \in Agents \ {t} : want'[b] = want[b] /\ at'[b] = at[b]
        /\ UNCHANGED <<ended, out, num, dInfo, bufLen, total>>
        /\ ended[Server] = "no"
    BY <1>0, <1>1, RecvRequestStep
  <2>2. RecvInv'
    BY <1>0, <2>1, SidesStay DEF RecvInv
  <2> QED
    BY <2>1, <2>2
<1>2. CASE RecvPart(t)
  <2>1. /\ STypeOK' /\ DataInv' /\ Got' = Got
        /\ \A b \in Agents \ {t} : want'[b] = want[b]
        /\ UNCHANGED <<ended, out, at, num, dInfo, bufLen, total>>
        /\ ended[Server] = "no"
    BY <1>0, <1>2, RecvPartStep
  <2>2. RecvInv'
    BY <1>0, <2>1, SidesStay DEF RecvInv
  <2> QED
    BY <2>1, <2>2
<1>3. CASE NoMoreRequests(t)
  <2>1. /\ STypeOK' /\ DataInv' /\ Got' = Got /\ at'[t] = "end"
        /\ \A b \in Agents \ {t} : want'[b] = want[b] /\ at'[b] = at[b]
        /\ UNCHANGED <<ended, out, num, dInfo, bufLen, total>>
        /\ ended[Server] = "no"
    BY <1>0, <1>3, NoMoreStep DEF NoMoreRequests
  <2>2. RecvInv'
    BY <1>0, <2>1, SidesStay DEF RecvInv
  <2> QED
    BY <2>1, <2>2
<1>4. CASE Received(t) /\ Grow(t)
  <2>1. /\ bufLen' \in [Agents -> Nat]
        /\ bufLen'[t] = (IF Len(dInfo'[t]) = bufLen[t] THEN bufLen[t] + AllocStep ELSE bufLen[t])
        /\ \A u \in Agents \ {t} : bufLen'[u] = bufLen[u]
        /\ bufLen[t] \in Nat
    BY <1>0, <1>4, Parameters DEF Grow, STypeOK
  <2>2. /\ STypeOK' /\ DataInv' /\ at[t] = "received" /\ at'[t] = "recv"
        /\ Length(dInfo[t]) \in Nat
        /\ Length(dInfo'[t]) = Length(dInfo[t]) + 1 /\ Len(dInfo'[t]) = Length(dInfo[t]) + 1
        /\ \A b \in Agents \ {t} : dInfo'[b] = dInfo[b] /\ at'[b] = at[b]
        /\ UNCHANGED <<num, out, want, ended, total>>
        /\ ended[Server] = "no"
    BY <1>0, <1>4, <2>1, ReceivedStep
  <2>3. Length(dInfo'[t]) < bufLen'[t]
    <3>1. Length(dInfo[t]) < bufLen[t]
      BY DEF RecvInv
    <3> QED
      BY <2>1, <2>2, <3>1, Parameters
  <2>4. RecvInv'
    BY <1>0, <2>1, <2>2, <2>3, SidesStay DEF RecvInv
  <2> QED
    BY <2>2, <2>4
<1>5. CASE Fail(Server)
  BY <1>5, RecvFails1, TheAgents
<1> QED
  BY <1>1, <1>2, <1>3, <1>4, <1>5 DEF RecvThread, ReallocFails

LEMMA RecvServerSteps ==
  ASSUME STypeOK, program = "recv", Same, DataInv, RecvInv, RecvServer
  PROVE  STypeOK' /\ DataInv' /\ RecvInv'
<1>0. program \in WithThreads /\ \A u \in Threads : u \in Agents \ {Server, Client}
  BY ThreadCount, TheAgents DEF WithThreads
<1>1. CASE Create("start", "recv")
  <2>1. /\ STypeOK' /\ DataInv' /\ Got' = Got
        /\ UNCHANGED <<ended, out, want, dInfo, bufLen, total>>
        /\ \A b \in Agents \ {Server} : num'[b] = num[b]
        /\ ended[Server] = "no"
    BY <1>0, <1>1, CreateStep
  <2>2. PICK t \in Threads : at'[t] = "recv" /\ \A b \in Agents \ {t} : at'[b] = at[b]
    BY <1>0, <1>1, CreateStep
  <2>3. RecvInv'
    BY <1>0, <2>1, <2>2, SidesStay, TheAgents DEF RecvInv
  <2> QED
    BY <2>1, <2>3
<1>2. CASE CreateFails("start")
  BY <1>2, RecvFails1, TheAgents DEF CreateFails
<1>3. CASE \E t \in Threads : RecvThread(t)
  BY <1>3, RecvThreadSteps
<1>4. CASE Join("start") /\ Finish(Server, Cardinality(Requests))
  <2>1. Cardinality(Requests) = Got /\ Got \in Int
    BY <1>0, CountRequests, SumTypes
  <2>2. /\ STypeOK' /\ DataInv' /\ Got' = Got
        /\ UNCHANGED <<out, want, got, at, num, dInfo, bufLen>>
        /\ ended'[Client] = ended[Client] /\ total'[Server] = Got
    BY <1>0, <1>4, <2>1, FinishStep, TheAgents
  <2>3. RecvInv'
    BY <1>0, <1>4, <2>2, SidesStay DEF RecvInv, Join
  <2> QED
    BY <2>2, <2>3
<1> QED
  BY <1>1, <1>2, <1>3, <1>4 DEF RecvServer

LEMMA RecvPreserved ==
  ASSUME STypeOK, program = "recv", Same, DataInv, RecvInv,
         Program \/ (Break /\ UNCHANGED <<ownVars, total>>)
  PROVE  STypeOK' /\ DataInv' /\ RecvInv'
<1>0. program \in WithThreads /\ \A u \in Threads : u \in 1..MaxThreads
  BY ThreadCount DEF WithThreads
<1>1. CASE Break /\ UNCHANGED <<ownVars, total>>
  <2>1. RecvInv'
    BY <1>0, <1>1, BreakStep, SidesStay DEF RecvInv
  <2> QED
    BY <1>0, <1>1, <2>1, BreakStep
<1>2. CASE Listen \/ Connect
  <2>1. RecvInv'
    BY <1>0, <1>2, SharedConnects, SidesStay DEF RecvInv
  <2> QED
    BY <1>0, <1>2, <2>1, SharedConnects
<1>3. CASE \E s \in Sides : SetUpFails(s)
  BY <1>3, RecvFails1 DEF SetUpFails
<1> QED
  BY <1>1, <1>2, <1>3, RecvClientSteps, RecvServerSteps DEF Program, SetUp

-----------------------------------------------------------------------------
(* send *)

\* The thread that sends divides the number that the client has announced.
LEMMA ShareIsPart ==
  ASSUME STypeOK, program = "send", DataInv, SendInv, NEW t \in Threads, at[t] # "out"
  PROVE  at[Server] = "create" /\ Share = Part
<1>1. t \in 1..MaxThreads /\ num[Server] \in Nat /\ t \in Nat /\ t > 0
  BY ThreadCount, Lengths, TheAgents, Parameters
<1>2. ~(t > num[Server])
  BY <1>1 DEF DataInv, ThreadsInv
<1>3. at[Server] = "create"
  BY <1>1, <1>2 DEF SendInv
<1> QED
  BY <1>3 DEF SendInv, Share, Part

LEMMA PartType ==
  ASSUME STypeOK
  PROVE  Part \in Nat /\ threadNum \in Nat \ {0} /\ Part * threadNum <= RequestNum
BY ThreadCount, Parameters DEF Part

LEMMA SendFails1 ==
  ASSUME STypeOK, program = "send", Same, DataInv, SendInv, NEW s \in Sides, Fail(s)
  PROVE  STypeOK' /\ DataInv' /\ SendInv'
<1>1. program \in WithThreads /\ Threads' = Threads
  BY SidesStay DEF WithThreads
<1>2. /\ STypeOK' /\ DataInv'
      /\ UNCHANGED <<out, want, got, at, num, dInfo, bufLen, total>>
      /\ ended'[s] = "failed" /\ \A r \in Sides \ {s} : ended'[r] = ended[r]
      /\ wire'[Server] = wire[Server] \/ wire'[Server] = <<>>
  BY <1>1, FailStep, TheAgents
<1>3. All(wire'[Server], RequestNum)
  BY <1>2, LengthOfNone DEF SendInv, All
<1>4. SendInv'
  BY <1>1, <1>2, <1>3, TheAgents DEF SendInv, Receiving, Announced, Part, All, Same
<1> QED
  BY <1>2, <1>4

LEMMA SendClientSteps ==
  ASSUME STypeOK, program = "send", Same, DataInv, SendInv, SendClient
  PROVE  STypeOK' /\ DataInv' /\ SendInv'
<1>0. /\ program \in WithThreads /\ Client \in Readers /\ Client \in Agents /\ To = Client
      /\ Server \in Agents \ {Client} /\ \A t \in Threads : t \in Agents \ {Client}
      /\ RequestNum \in Nat /\ Threads' = Threads /\ Server \in Sides \ {Client}
      /\ Side(Client) = Client /\ Peer(Client) = Server
  BY ThreadCount, TheAgents, Parameters, SidesStay DEF WithThreads, Readers, To
<1>1. CASE AskRequests
  <2> DEFINE m == Header(Client, RequestNum)
  <2>1. /\ Move(Client, "start", "recv") /\ SendAll(Client, m)
        /\ UNCHANGED <<wire, ended, reset, num, dInfo, bufLen, total>>
    BY <1>1 DEF AskRequests, linkVars
  <2>2. m \in Seq(Bytes) /\ All(m, RequestNum)
    BY BlockIsUniform, Parameters, TheAgents DEF Header
  <2> HIDE DEF m
  <2>3. /\ UNCHANGED <<want, got>> /\ out' \in [Agents -> Seq(Bytes)] /\ out'[Client] = m
        /\ \A b \in Agents \ {Client} : out'[b] = out[b]
    BY <2>1, <2>2, Offers, TheAgents
  <2>4. /\ at[Client] = "start" /\ at' \in [Agents -> Labels] /\ at'[Client] = "recv"
        /\ \A b \in Agents \ {Client} : at'[b] = at[b]
    BY <2>1, Moves, TheAgents DEF Labels
  <2>5. STypeOK'
    BY <2>1, <2>3, <2>4 DEF STypeOK, Same
  <2>6. DataInv'
    BY <1>0, <2>1, <2>3, <2>4, <2>5, QuietKeepsData, TheAgents
  <2>7. SendInv'
    <3>1. All(out'[Client], RequestNum)
      BY <2>2, <2>3
    <3>2. ended[Client] # "ok"
      <4>1. ended[Client] = "no"
        BY <1>0, <2>1, Moves DEF Running, Labels
      <4> QED
        BY <4>1
    <3>3. out'[Server] = out[Server] /\ at'[Server] = at[Server] /\ \A t \in Threads : at'[t] = at[t]
      BY <1>0, <2>3, <2>4
    <3> QED
      BY <1>0, <2>1, <2>3, <2>4, <3>1, <3>2, <3>3 DEF SendInv, Receiving, Announced, Part, All, Same
  <2> QED
    BY <2>5, <2>6, <2>7
<1>2. CASE SendPart(Client)
  <2>1. SendEffect(Client) /\ UNCHANGED <<at, num, dInfo, bufLen, total>>
    BY <1>0, <1>2, Sends DEF SendPart, ownVars
  <2>2. STypeOK'
    BY <2>1 DEF STypeOK, SendEffect, Same
  <2>3. /\ UNCHANGED <<ended, want, got>> /\ ~reset /\ wire'[Client] = wire[Client]
        /\ \A b \in Agents \ {Client} : out'[b] = out[b]
        /\ ended[Client] = "no"
    BY <1>0, <2>1, TheAgents DEF SendEffect, Running
  <2>4. DataInv'
    BY <1>0, <2>1, <2>2, <2>3, QuietKeepsData, TheAgents
  <2>5. All(out'[Client], RequestNum) /\ All(wire'[Server], RequestNum)
    <3>1. All(out[Client], RequestNum) /\ All(wire[Server], RequestNum)
      BY DEF SendInv
    <3>2. PICK n \in 1..Length(out[Client]) :
            /\ Length(out'[Client]) = Length(out[Client]) - n
            /\ \A i \in 1..Length(out'[Client]) : out'[Client][i] = out[Client][i + n]
            /\ wire'[Server] = wire[Server] \/ Pours(out[Client], n, out'[Client], wire[Server], wire'[Server])
      BY <1>0, <2>1 DEF SendEffect
    <3>3. /\ Length(wire[Server]) \in Nat /\ Length(out[Client]) \in Nat
      BY Lengths, TheAgents
    <3>4. All(out'[Client], RequestNum)
      BY <3>1, <3>2, <3>3 DEF All
    <3>5. \A i \in 1..n : out[Client][i][2] = RequestNum
      BY <3>1, <3>2, <3>3 DEF All
    <3>6. CASE wire'[Server] = wire[Server]
      BY <3>1, <3>4, <3>6
    <3>7. CASE Pours(out[Client], n, out'[Client], wire[Server], wire'[Server])
      BY <3>1, <3>3, <3>4, <3>5, <3>7, PouredAll
    <3> QED
      BY <3>2, <3>6, <3>7
  <2>6. SendInv'
    BY <1>0, <2>1, <2>3, <2>5 DEF SendInv, Receiving, Announced, Part, All, Same
  <2> QED
    BY <2>2, <2>4, <2>6
<1>3. CASE RecvRequest(Client)
  <2>1. /\ STypeOK' /\ DataInv' /\ at[Client] = "recv" /\ at'[Client] = "received"
        /\ \A b \in Agents \ {Client} : want'[b] = want[b] /\ at'[b] = at[b] /\ got'[b] = got[b]
        /\ UNCHANGED <<wire, ended, out, num, dInfo, bufLen, total>>
        /\ ended[Client] = "no"
    BY <1>0, <1>3, RecvRequestStep
  <2>2. SendInv'
    BY <1>0, <2>1 DEF SendInv, Receiving, Announced, Part, All, Same
  <2> QED
    BY <2>1, <2>2
<1>4. CASE RecvPart(Client)
  <2>1. /\ STypeOK' /\ DataInv'
        /\ \A b \in Agents \ {Client} : want'[b] = want[b] /\ got'[b] = got[b]
        /\ UNCHANGED <<ended, out, at, num, dInfo, bufLen, total>>
        /\ wire'[Server] = wire[Server] /\ ended[Client] = "no"
    BY <1>0, <1>4, RecvPartStep
  <2>2. SendInv'
    BY <1>0, <2>1 DEF SendInv, Receiving, Announced, Part, All, Same
  <2> QED
    BY <2>1, <2>2
<1>5. CASE NoMore(Client, "end")
  <2>1. /\ STypeOK' /\ DataInv' /\ at'[Client] = "end"
        /\ \A b \in Agents \ {Client} : want'[b] = want[b] /\ at'[b] = at[b]
        /\ UNCHANGED <<ended, out, got, wire, num, dInfo, bufLen, total>>
        /\ ended[Client] = "no"
    BY <1>0, <1>5, NoMoreStep
  <2>2. SendInv'
    BY <1>0, <2>1 DEF SendInv, Receiving, Announced, Part, All, Same
  <2> QED
    BY <2>1, <2>2
<1>6. CASE Received(Client) /\ UNCHANGED bufLen
  <2>1. bufLen' \in [Agents -> Nat]
    BY <1>6 DEF STypeOK
  <2>2. /\ STypeOK' /\ DataInv' /\ at'[Client] = "recv"
        /\ \A b \in Agents \ {Client} : dInfo'[b] = dInfo[b] /\ at'[b] = at[b]
        /\ UNCHANGED <<ended, out, got, want, wire, num, total>>
        /\ ended[Client] = "no"
    BY <1>0, <1>6, <2>1, ReceivedStep
  <2>3. SendInv'
    BY <1>0, <1>6, <2>2 DEF SendInv, Receiving, Announced, Part, All, Same
  <2> QED
    BY <2>2, <2>3
<1>7. CASE Fail(Client)
  BY <1>7, SendFails1, TheAgents
<1>8. CASE At(Client, "end") /\ Finish(Client, Len(dInfo[Client]))
  <2>1. at[Client] = "end" /\ Len(dInfo[Client]) = Length(dInfo[Client]) /\ Len(dInfo[Client]) \in Int
    <3>1. dInfo[Client] \in Seq(Seq(Bytes))
      BY <1>0 DEF STypeOK
    <3> QED
      BY <1>8, <3>1, LengthType DEF At
  <2>2. /\ STypeOK' /\ DataInv'
        /\ UNCHANGED <<out, want, got, at, num, dInfo, bufLen>>
        /\ ended'[Server] = ended[Server] /\ total'[Server] = total[Server]
        /\ total'[Client] = Length(dInfo[Client])
        /\ wire'[Server] = wire[Server]
    BY <1>0, <1>8, <2>1, FinishStep, TheAgents
  <2>3. SendInv'
    BY <1>0, <2>1, <2>2 DEF SendInv, Receiving, Announced, Part, All, Same
  <2> QED
    BY <2>2, <2>3
<1> QED
  BY <1>0, <1>1, <1>2, <1>3, <1>4, <1>5, <1>6, <1>7, <1>8 DEF SendClient, SendFailed

LEMMA SendThreadSteps ==
  ASSUME STypeOK, program = "send", Same, DataInv, SendInv, NEW t \in Threads, SendThread(t)
  PROVE  STypeOK' /\ DataInv' /\ SendInv'
<1>0. /\ program \in WithThreads /\ t \in Writers /\ t \in Agents /\ To = Client /\ Side(t) = Server
      /\ Server \in Agents \ {t} /\ Client \in Agents \ {t} /\ \A u \in Threads : u \in Agents
      /\ Threads' = Threads /\ Server \in Sides \ {Client}
  BY ThreadCount, TheAgents, SidesStay DEF WithThreads, Writers, To
<1>1. CASE SendNext(t, Share)
  <2>1. Share = Part /\ Part \in Nat
    <3>1. at[t] # "out"
      BY <1>1 DEF SendNext, At
    <3> QED
      BY <3>1, ShareIsPart, PartType
  <2>2. /\ STypeOK' /\ DataInv' /\ at[t] = "send"
        /\ num[t] \in Nat /\ num[t] < Part /\ num'[t] = num[t] + 1
        /\ \A b \in Agents \ {t} : num'[b] = num[b] /\ out'[b] = out[b]
        /\ UNCHANGED <<wire, ended, at, got, want, dInfo, bufLen, total>>
        /\ ended[Server] = "no"
    BY <1>0, <1>1, <2>1, SendNextStep
  <2>3. SendInv'
    BY <1>0, <2>1, <2>2 DEF SendInv, Receiving, Announced, Part, All, Same
  <2> QED
    BY <2>2, <2>3
<1>2. CASE SendPart(t)
  <2>1. /\ STypeOK' /\ DataInv'
        /\ \A b \in Agents \ {t} : out'[b] = out[b]
        /\ UNCHANGED <<ended, at, num, want, got, dInfo, bufLen, total>>
        /\ wire'[Server] = wire[Server] /\ ended[Server] = "no"
    BY <1>0, <1>2, SendPartStep
  <2>2. SendInv'
    BY <1>0, <2>1 DEF SendInv, Receiving, Announced, Part, All, Same
  <2> QED
    BY <2>1, <2>2
<1>3. CASE SendFailed(t)
  BY <1>0, <1>3, SendFails1, TheAgents DEF SendFailed
<1>4. CASE /\ Move(t, "send", "end")
           /\ num[t] = Share
           /\ UNCHANGED <<linkVars, chunkVars, num, dInfo, bufLen, total>>
  <2>1. /\ at[t] = "send" /\ at' \in [Agents -> Labels] /\ at'[t] = "end" /\ out[t] = <<>>
        /\ \A b \in Agents \ {t} : at'[b] = at[b]
        /\ ended[Server] = "no"
    BY <1>0, <1>4, Moves DEF Labels, Running
  <2>2. UNCHANGED <<num, out, got, want, wire, reset, ended, dInfo, bufLen, total>>
    BY <1>4 DEF linkVars, chunkVars
  <2>3. STypeOK'
    BY <2>1, <2>2 DEF STypeOK, Same
  <2>4. DataInv'
    BY <1>0, <2>1, <2>2, <2>3, WriterEndsKeepsData
  <2>5. num[t] = Part
    BY <1>4, <2>1, ShareIsPart
  <2>6. SendInv'
    BY <1>0, <2>1, <2>2, <2>5 DEF SendInv, Receiving, Announced, Part, All, Same
  <2> QED
    BY <2>3, <2>4, <2>6
<1> QED
  BY <1>1, <1>2, <1>3, <1>4 DEF SendThread

LEMMA SendServerSteps ==
  ASSUME STypeOK, program = "send", Same, DataInv, SendInv, SendServer
  PROVE  STypeOK' /\ DataInv' /\ SendInv'
<1>0. /\ program \in WithThreads /\ To = Client /\ Side(Server) = Server
      /\ Server \in Agents /\ Client \in Agents \ {Server}
      /\ \A u \in Threads : u \in Agents \ {Server, Client}
      /\ Threads' = Threads /\ Server \in Sides \ {Client} /\ Client \in Sides \ {Server}
  BY ThreadCount, TheAgents, SidesStay DEF WithThreads, To
<1>1. CASE RecvHeader
  <2>1. /\ Move(Server, "start", "header") /\ RecvAll(Server, HdrSize)
        /\ UNCHANGED <<wire, ended, reset, num, dInfo, bufLen, total>>
    BY <1>1 DEF RecvHeader, linkVars
  <2>2. /\ UNCHANGED out
        /\ want' \in [Agents -> Nat] /\ want'[Server] = HdrSize
        /\ \A b \in Agents \ {Server} : want'[b] = want[b]
        /\ got' \in [Agents -> Seq(Bytes)] /\ got'[Server] = <<>>
        /\ \A b \in Agents \ {Server} : got'[b] = got[b]
    BY <1>0, <2>1, Awaits, Parameters
  <2>3. /\ at[Server] = "start" /\ at' \in [Agents -> Labels] /\ at'[Server] = "header"
        /\ \A b \in Agents \ {Server} : at'[b] = at[b]
    BY <1>0, <2>1, Moves DEF Labels
  <2>4. STypeOK'
    BY <2>1, <2>2, <2>3 DEF STypeOK, Same
  <2>5. DataInv'
    BY <1>0, <2>1, <2>2, <2>3, <2>4, QuietKeepsData, TheAgents
  <2>6. SendInv'
    <3>1. Length(got'[Server]) = 0 /\ All(got'[Server], RequestNum)
      BY <2>2, LengthOfNone DEF All
    <3>2. ended[Server] = "no"
      BY <1>0, <2>1, Moves DEF Running, Labels
    <3>3. Length(got'[Server]) + want'[Server] = HdrSize
      BY <2>2, <3>1, Parameters
    <3> QED
      BY <1>0, <2>1, <2>2, <2>3, <3>1, <3>2, <3>3 DEF SendInv, Receiving, Announced, Part, All, Same
  <2> QED
    BY <2>4, <2>5, <2>6
<1>2. CASE HeaderRead("create")
  <2>1. /\ Move(Server, "header", "create")
        /\ dInfo' = [dInfo EXCEPT ![Server] = <<got[Server]>>]
        /\ UNCHANGED <<wire, ended, reset, out, want, got, num, bufLen, total>>
    BY <1>2 DEF HeaderRead, linkVars, chunkVars
  <2>2. /\ at[Server] = "header" /\ at' \in [Agents -> Labels] /\ at'[Server] = "create"
        /\ \A b \in Agents \ {Server} : at'[b] = at[b]
        /\ want[Server] = 0
    BY <1>0, <2>1, Moves DEF Labels
  <2>3. /\ dInfo' \in [Agents -> Seq(Seq(Bytes))] /\ dInfo'[Server] = <<got[Server]>>
        /\ \A b \in Agents \ {Server} : dInfo'[b] = dInfo[b]
    BY <1>0, <2>1 DEF STypeOK
  <2>4. STypeOK'
    BY <2>1, <2>2, <2>3 DEF STypeOK, Same
  <2>5. DataInv'
    BY <1>0, <2>1, <2>2, <2>3, <2>4, QuietKeepsData, TheAgents
  <2>6. got[Server] # <<>> /\ got[Server][1][2] = RequestNum
    <3>1. Length(got[Server]) = HdrSize
      <4>1. Length(got[Server]) \in Nat
        BY <1>0, Lengths
      <4> QED
        BY <2>2, <4>1 DEF SendInv, Receiving
    <3> QED
      BY <3>1, LengthOfNone, Parameters DEF SendInv, All
  <2>7. SendInv'
    BY <1>0, <2>1, <2>2, <2>3, <2>6 DEF SendInv, Receiving, Announced, Part, All, Same
  <2> QED
    BY <2>4, <2>5, <2>7
<1>3. CASE RecvPart(Server)
  <2>1. RecvEffect(Server, TRUE) /\ UNCHANGED <<at, num, dInfo, bufLen, total>>
    BY <1>0, <1>3, Receives DEF RecvPart, ownVars
  <2>2. STypeOK'
    BY <2>1 DEF STypeOK, RecvEffect, Same
  <2>3. /\ UNCHANGED <<ended, reset, out>> /\ wire'[Client] = wire[Client]
        /\ \A b \in Agents \ {Server} : got'[b] = got[b] /\ want'[b] = want[b]
    BY <1>0, <2>1 DEF RecvEffect
  <2>4. DataInv'
    BY <1>0, <2>1, <2>2, <2>3, QuietKeepsData, TheAgents
  <2>5. PICK n \in 1..want[Server] :
          /\ Pours(wire[Server], n, wire'[Server], got[Server], got'[Server])
          /\ want'[Server] = want[Server] - n
    BY <1>0, <2>1 DEF RecvEffect
  <2>6. /\ want[Server] \in Nat /\ n \in Nat \ {0} /\ Length(wire[Server]) \in Nat
        /\ Length(wire'[Server]) \in Nat /\ Length(got[Server]) \in Nat
        /\ Length(wire'[Server]) = Length(wire[Server]) - n
        /\ Length(got'[Server]) = Length(got[Server]) + n
        /\ n \in 1..Length(wire[Server])
        /\ \A i \in 1..Length(wire'[Server]) : wire'[Server][i] = wire[Server][i + n]
    <3>1. want[Server] \in Nat /\ n \in Nat \ {0}
      BY <1>0, <2>5, Lengths
    <3>2. /\ Length(wire[Server]) \in Nat /\ Length(got[Server]) \in Nat
          /\ Length(wire'[Server]) \in Nat
      BY <1>0, <2>1 DEF RecvEffect
    <3> QED
      BY <2>5, <3>1, <3>2 DEF Pours
  <2>7. at[Server] = "header" /\ Length(got'[Server]) + want'[Server] = HdrSize
    <3>1. at[Server] = "header" /\ Length(got[Server]) + want[Server] = HdrSize
      BY <2>6 DEF SendInv, Receiving
    <3> QED
      BY <2>5, <2>6, <3>1
  <2>8. All(got'[Server], RequestNum) /\ All(wire'[Server], RequestNum)
    <3>1. All(wire[Server], RequestNum) /\ All(got[Server], RequestNum)
      BY DEF SendInv
    <3>2. \A i \in 1..n : wire[Server][i][2] = RequestNum
      BY <2>6, <3>1 DEF All
    <3>3. All(wire'[Server], RequestNum)
      BY <2>6, <3>1 DEF All
    <3>4. All(got'[Server], RequestNum)
      BY <2>5, <2>6, <3>1, <3>2, PouredAll
    <3> QED
      BY <3>3, <3>4
  <2>9. SendInv'
    BY <1>0, <2>1, <2>3, <2>7, <2>8 DEF SendInv, Receiving, Announced, Part, All, Same
  <2> QED
    BY <2>2, <2>4, <2>9
<1>4. CASE RecvFailed(Server) \/ CreateFails("create")
  BY <1>0, <1>4, SendFails1, TheAgents DEF RecvFailed, CreateFails
<1>5. CASE Create("create", "send")
  <2>1. /\ STypeOK' /\ DataInv'
        /\ UNCHANGED <<wire, ended, out, want, got, dInfo, bufLen, total>>
        /\ \A b \in Agents \ {Server} : num'[b] = num[b]
        /\ ended[Server] = "no" /\ at[Server] = "create"
    BY <1>0, <1>5, CreateStep
  <2>2. PICK t \in Threads : at'[t] = "send" /\ \A b \in Agents \ {t} : at'[b] = at[b]
    BY <1>0, <1>5, CreateStep
  <2>3. SendInv'
    BY <1>0, <2>1, <2>2 DEF SendInv, Receiving, Announced, Part, All, Same
  <2> QED
    BY <2>1, <2>3
<1>6. CASE \E t \in Threads : SendThread(t)
  BY <1>6, SendThreadSteps
<1>7. CASE Join("create") /\ Finish(Server, Share * threadNum)
  <2>1. /\ Share = Part /\ Part * threadNum \in Int /\ at[Server] = "create"
        /\ \A t \in Threads : at[t] = "end"
    BY <1>7, PartType DEF Join, At, SendInv, Share, Part
  <2>2. /\ STypeOK' /\ DataInv'
        /\ UNCHANGED <<out, want, got, at, num, dInfo, bufLen>>
        /\ ended'[Client] = ended[Client] /\ total'[Client] = total[Client]
        /\ total'[Server] = Part * threadNum /\ wire'[Server] = <<>>
    BY <1>0, <1>7, <2>1, FinishStep
  <2>3. SendInv'
    <3>1. All(wire'[Server], RequestNum)
      BY <2>2, LengthOfNone DEF All
    <3> QED
      BY <1>0, <2>1, <2>2, <3>1 DEF SendInv, Receiving, Announced, Part, All, Same
  <2> QED
    BY <2>2, <2>3
<1> QED
  BY <1>1, <1>2, <1>3, <1>4, <1>5, <1>6, <1>7 DEF SendServer

LEMMA SendPreserved ==
  ASSUME STypeOK, program = "send", Same, DataInv, SendInv,
         Program \/ (Break /\ UNCHANGED <<ownVars, total>>)
  PROVE  STypeOK' /\ DataInv' /\ SendInv'
<1>0. program \in WithThreads /\ (\A u \in Threads : u \in 1..MaxThreads) /\ Threads' = Threads
  BY ThreadCount, SidesStay DEF WithThreads
<1>1. CASE Break /\ UNCHANGED <<ownVars, total>>
  <2>1. SendInv'
    BY <1>0, <1>1, BreakStep DEF SendInv, Receiving, Announced, Part, All, Same
  <2> QED
    BY <1>0, <1>1, <2>1, BreakStep
<1>2. CASE Listen \/ Connect
  <2>1. SendInv'
    BY <1>0, <1>2, SharedConnects DEF SendInv, Receiving, Announced, Part, All, Same
  <2> QED
    BY <1>0, <1>2, <2>1, SharedConnects
<1>3. CASE \E s \in Sides : SetUpFails(s)
  BY <1>3, SendFails1 DEF SetUpFails
<1> QED
  BY <1>1, <1>2, <1>3, SendClientSteps, SendServerSteps DEF Program, SetUp

-----------------------------------------------------------------------------
(* TCP *)

LEMMA TCPConnects ==
  ASSUME STypeOK, TCPInv, program = "TCP", UNCHANGED <<program, threadNum>>, SetUp
  PROVE  STypeOK' /\ TCPInv'
<1>1. CASE Listen
  <2>1. STypeOK'
    BY <1>1, TheAgents DEF Listen, Move, STypeOK, linkVars, chunkVars, Labels
  <2>2. TCPInv'
    BY <1>1, TheAgents DEF Listen, Move, At, Idle, STypeOK, TCPInv, linkVars, chunkVars, TCPArrived, LengthOfAll, DataLen
  <2> QED
    BY <2>1, <2>2
<1>2. CASE Connect
  <2>1. STypeOK'
    BY <1>2, TheAgents DEF Connect, STypeOK, linkVars, chunkVars, Labels
  <2>2. TCPInv'
    BY <1>2, TheAgents DEF Connect, At, Idle, STypeOK, TCPInv, linkVars, chunkVars, TCPArrived, LengthOfAll, DataLen
  <2> QED
    BY <2>1, <2>2
<1>3. ASSUME NEW s \in Sides, SetUpFails(s)
      PROVE  STypeOK' /\ TCPInv'
  <2>1. End(s, "failed") /\ UNCHANGED <<chunkVars, ownVars, total>>
    BY <1>3 DEF SetUpFails, Fail
  <2>2. STypeOK'
    BY <2>1, Ends DEF STypeOK, chunkVars, ownVars
  <2>3. TCPInv'
    BY <2>1, <1>3, Ends, TheAgents DEF SetUpFails, At, Idle, Running, STypeOK, TCPInv, chunkVars, ownVars, TCPArrived, LengthOfAll, DataLen
  <2> QED
    BY <2>2, <2>3
<1> QED
  BY <1>1, <1>2, <1>3 DEF SetUp

LEMMA TCPClientSteps ==
  ASSUME STypeOK, TCPInv, program = "TCP", UNCHANGED <<program, threadNum>>, TCPClient
  PROVE  STypeOK' /\ TCPInv'
<1>1. CASE ClientStart
  <2>1. Move(Client, "start", "send") /\ UNCHANGED <<linkVars, chunkVars, num, dInfo, bufLen, total>>
    BY <1>1 DEF ClientStart
  <2>2. STypeOK'
    BY <2>1, Moves, TheAgents DEF STypeOK, linkVars, chunkVars, Labels
  <2>3. TCPInv'
    BY <2>1, Moves, TheAgents DEF TCPInv, TCPArrived, linkVars, chunkVars, Labels
  <2> QED
    BY <2>2, <2>3
<1>2. CASE SendNext(Client, RequestNum)
  <2> DEFINE n == num[Client]
             m == Message(Client, n)
  <2>1. /\ at[Client] = "send" /\ out[Client] = <<>> /\ ended[Client] = "no"
        /\ n < RequestNum /\ n \in Nat /\ SendAll(Client, m)
        /\ num' = [num EXCEPT ![Client] = n + 1]
        /\ UNCHANGED <<linkVars, at, dInfo, bufLen, total>>
    BY <1>2, TheAgents DEF SendNext, STypeOK, At, Idle, Running
  <2>2. n \in Nat /\ LengthOf(n) \in Nat /\ LengthOfAll(n + 1) = LengthOfAll(n) + LengthOf(n)
    BY <2>1, OneMoreMessage
  <2>3. m \in Seq(Bytes) /\ Length(m) = LengthOf(n)
    BY <2>1, <2>2, BlockIsUniform, TheAgents DEF Message
  <2> HIDE DEF m
  <2>4. /\ UNCHANGED <<want, got>> /\ out' \in [Agents -> Seq(Bytes)] /\ out'[Client] = m
        /\ \A b \in Agents \ {Client} : out'[b] = out[b]
    BY <2>1, <2>3, Offers, TheAgents
  <2>5. /\ num' \in [Agents -> Nat] /\ num'[Client] = n + 1
        /\ \A b \in Agents \ {Client} : num'[b] = num[b]
    <3>1. num \in [Agents -> Nat] /\ n + 1 \in Nat
      BY <2>1 DEF STypeOK
    <3> HIDE DEF n
    <3> QED
      BY <2>1, <3>1, TheAgents
  <2> HIDE DEF n
  <2>6. STypeOK'
    BY <2>1, <2>4, <2>5 DEF STypeOK, linkVars
  <2>7. TCPArrived' = TCPArrived + LengthOf(n)
    BY <2>1, <2>2, <2>3, <2>4, <2>5, LengthOfNone, Lengths, TheAgents DEF TCPArrived, linkVars
  <2>8. TCPInv'
    BY <2>1, <2>2, <2>4, <2>5, <2>7, TheAgents, Parameters DEF TCPInv, linkVars, n
  <2> QED
    BY <2>6, <2>8
<1>3. CASE SendPart(Client)
  <2>1. SendEffect(Client) /\ UNCHANGED <<ownVars, total>>
    BY <1>3, Sends, TheAgents DEF SendPart
  <2>2. STypeOK'
    BY <2>1 DEF STypeOK, ownVars, SendEffect
  <2>3. out[Client] # <<>> /\ out'[Server] = out[Server] /\ wire'[Client] = wire[Client]
    BY <2>1, LengthOfNone, TheAgents DEF SendEffect
  <2>4. ~reset' => TCPArrived' = TCPArrived
    <3>1. UNCHANGED <<num, got>>
      BY <2>1 DEF SendEffect, ownVars
    <3>2. reset' \/ Length(out'[Client]) + Length(wire'[Server]) = Length(out[Client]) + Length(wire[Server])
      BY <2>1, TheAgents DEF SendEffect
    <3>3. /\ Length(out[Client]) \in Nat /\ Length(wire[Server]) \in Nat
          /\ Length(out'[Client]) \in Nat /\ Length(wire'[Server]) \in Nat
      BY <2>1, TheAgents DEF SendEffect
    <3>4. num[Server] \in Nat /\ Length(got[Server]) \in Nat
      BY Lengths, TheAgents
    <3> QED
      BY <3>1, <3>2, <3>3, <3>4 DEF TCPArrived
  <2>5. Running(Client) /\ ~reset /\ UNCHANGED <<ended, want, got>>
    BY <2>1, TheAgents DEF SendEffect
  <2>6. ended[Server] # "no" => UNCHANGED wire /\ reset'
    BY <2>1, TheAgents DEF SendEffect
  <2>7. TCPInv'
    BY <2>1, <2>3, <2>4, <2>5, <2>6, TheAgents DEF Running, TCPInv, ownVars
  <2> QED
    BY <2>2, <2>7
<1>4. CASE SendFailed(Client)
  <2>1. reset /\ Fail(Client)
    BY <1>4, TheAgents DEF SendFailed, SendFails
  <2>2. STypeOK'
    BY <2>1, Failures, TheAgents DEF STypeOK
  <2>3. TCPInv'
    BY <2>1, Failures, TheAgents DEF TCPInv, TCPArrived
  <2> QED
    BY <2>2, <2>3
<1>5. CASE At(Client, "send") /\ num[Client] = RequestNum /\ Finish(Client, DataLen)
  <2>1. DataLen \in Int
    BY Parameters DEF DataLen, LengthOfAll
  <2>2. STypeOK'
    BY <1>5, <2>1, Finishes, TheAgents DEF STypeOK
  <2>3. TCPInv'
    BY <1>5, <2>1, Finishes, TheAgents DEF At, Idle, TCPInv, TCPArrived
  <2> QED
    BY <2>2, <2>3
<1> QED
  BY <1>1, <1>2, <1>3, <1>4, <1>5 DEF TCPClient

LEMMA TCPServerSteps ==
  ASSUME STypeOK, TCPInv, program = "TCP", UNCHANGED <<program, threadNum>>, TCPServer
  PROVE  STypeOK' /\ TCPInv'
<1>1. CASE /\ At(Server, "start")
           /\ RecvAll(Server, BufSize)
           /\ num' = [num EXCEPT ![Server] = @ + Len(got[Server])]
           /\ UNCHANGED <<linkVars, at, dInfo, bufLen, total>>
  <2> DEFINE n == num[Server] + Length(got[Server])
  <2>1. n \in Nat /\ Length(got[Server]) \in Nat /\ num' = [num EXCEPT ![Server] = n]
    <3>1. Len(got[Server]) = Length(got[Server]) /\ num[Server] \in Nat /\ Length(got[Server]) \in Nat
      BY Lengths, TheAgents
    <3> QED
      BY <1>1, <3>1
  <2> HIDE DEF n
  <2>2. /\ num' \in [Agents -> Nat] /\ num'[Server] = n
        /\ \A b \in Agents \ {Server} : num'[b] = num[b]
    BY <2>1, Counts, TheAgents
  <2>3. STypeOK'
    BY <1>1, <2>2, Awaits, TheAgents, Parameters DEF STypeOK, linkVars
  <2>4. TCPArrived' = TCPArrived
    <3>1. Length(got'[Server]) = 0 /\ UNCHANGED <<wire, out>> /\ num'[Server] = n
      BY <1>1, <2>2, Awaits, LengthOfNone, TheAgents, Parameters DEF linkVars
    <3>2. /\ num[Server] \in Nat /\ Length(got[Server]) \in Nat
          /\ Length(out[Client]) \in Nat /\ Length(wire[Server]) \in Nat
      BY Lengths, TheAgents
    <3> QED
      BY <3>1, <3>2 DEF TCPArrived, n
  <2>5. TCPInv'
    BY <1>1, <2>2, <2>4, Awaits, TheAgents, Parameters DEF At, Idle, TCPInv, linkVars
  <2> QED
    BY <2>3, <2>5
<1>2. CASE RecvSome(Server, FALSE) /\ UNCHANGED <<ownVars, total>>
  <2>0. RecvEffect(Server, FALSE) /\ UNCHANGED <<ownVars, total>>
    BY <1>2, Receives, TheAgents
  <2>1. STypeOK'
    BY <2>0, TheAgents DEF STypeOK, RecvEffect, ownVars
  <2>2. UNCHANGED <<ended, reset, out>> /\ want[Server] > 0 /\ want'[Server] = 0 /\ want'[Client] = want[Client]
    BY <2>0, Lengths, TheAgents DEF RecvEffect
  <2>3. TCPArrived' = TCPArrived
    <3>1. UNCHANGED <<num, out>>
      BY <2>0 DEF RecvEffect, ownVars
    <3>2. Length(wire'[Server]) + Length(got'[Server]) = Length(wire[Server]) + Length(got[Server])
      BY <2>0, TheAgents DEF RecvEffect
    <3>3. /\ Length(wire[Server]) \in Nat /\ Length(got[Server]) \in Nat
          /\ Length(wire'[Server]) \in Nat /\ Length(got'[Server]) \in Nat
      BY <2>0, TheAgents DEF RecvEffect
    <3>4. num[Server] \in Nat /\ Length(out[Client]) \in Nat
      BY Lengths, TheAgents
    <3> QED
      BY <3>1, <3>2, <3>3, <3>4 DEF TCPArrived
  <2>4. ended[Server] = "no"
    BY <2>0, TheAgents DEF RecvEffect, Running
  <2>5. TCPInv'
    BY <2>0, <2>2, <2>3, <2>4, TheAgents DEF STypeOK, TCPInv, ownVars
  <2> QED
    BY <2>1, <2>5
<1>3. CASE NoMore(Server, "end")
  <2>1. want' \in [Agents -> Nat] /\ want'[Server] = 0 /\ \A b \in Agents \ {Server} : want'[b] = want[b]
    BY <1>3, TheAgents DEF NoMore, STypeOK
  <2>2. at' \in [Agents -> Labels] /\ at'[Server] = "end" /\ \A b \in Agents \ {Server} : at'[b] = at[b]
    BY <1>3, TheAgents DEF NoMore, STypeOK, Labels
  <2>3. /\ want[Server] > 0 /\ (reset \/ (wire[Server] = <<>> /\ ended[Client] # "no"))
        /\ ended[Server] = "no"
        /\ UNCHANGED <<linkVars, out, got, num, dInfo, bufLen, total>>
    BY <1>3, TheAgents DEF NoMore, RecvFails, Running
  <2>4. STypeOK'
    BY <2>1, <2>2, <2>3 DEF STypeOK, linkVars
  <2>5. TCPInv'
    <3>1. /\ UNCHANGED <<wire, ended, reset, out, got, num, dInfo, bufLen, total>>
          /\ ended[Client] \in {"no", "ok", "failed"} /\ want[Server] \in Nat
      BY <2>3, TheAgents DEF STypeOK, linkVars
    <3> QED
      BY <2>1, <2>2, <2>3, <3>1, TheAgents DEF TCPInv, TCPArrived
  <2> QED
    BY <2>4, <2>5
<1>4. CASE At(Server, "end") /\ Finish(Server, num[Server])
  <2>1. num[Server] \in Int
    BY TheAgents DEF STypeOK
  <2>2. STypeOK'
    BY <1>4, <2>1, Finishes, TheAgents DEF STypeOK
  <2>3. TCPInv'
    BY <1>4, <2>1, Finishes, TheAgents DEF At, Idle, TCPInv, TCPArrived
  <2> QED
    BY <2>2, <2>3
<1> QED
  BY <1>1, <1>2, <1>3, <1>4 DEF TCPServer

LEMMA TCPPreserved ==
  ASSUME STypeOK, TCPInv, program = "TCP", UNCHANGED <<program, threadNum>>,
         Program \/ (Break /\ UNCHANGED <<ownVars, total>>)
  PROVE  STypeOK' /\ TCPInv'
<1>1. CASE Break /\ UNCHANGED <<ownVars, total>>
  BY <1>1 DEF Break, STypeOK, TCPInv, TCPArrived, chunkVars, ownVars
<1> QED
  BY <1>1, TCPConnects, TCPClientSteps, TCPServerSteps DEF Program

-----------------------------------------------------------------------------
(* reliable *)

LEMMA LongType == Long \in Nat /\ Long > 0
BY Parameters DEF Long

LEMMA ReliableFails ==
  ASSUME STypeOK, ReliableInv, UNCHANGED <<program, threadNum>>, NEW s \in Sides, Fail(s)
  PROVE  STypeOK' /\ ReliableInv'
<1>1. STypeOK'
  BY Failures DEF STypeOK
<1>2. ReliableInv'
  BY Failures, TheAgents, LengthOfNone
     DEF ReliableInv, ClientPlace, ServerPlace, HeaderFirst, BeforeData, DataCounted, AckLast, All,
         Receiving, Announced, Long
<1> QED
  BY <1>1, <1>2

LEMMA ReliableConnects ==
  ASSUME STypeOK, ReliableInv, program = "reliable", UNCHANGED <<program, threadNum>>, SetUp
  PROVE  STypeOK' /\ ReliableInv'
<1> USE DEF ReliableInv
<1>1. CASE Listen
  <2>1. Move(Server, "setup", "listening") /\ UNCHANGED <<linkVars, chunkVars, num, dInfo, bufLen, total>>
    BY <1>1 DEF Listen
  <2>2. /\ at[Server] = "setup" /\ at'[Server] = "listening" /\ at'[Client] = at[Client]
        /\ at' \in [Agents -> Labels]
    BY <2>1, Moves, TheAgents DEF Labels
  <2>3. STypeOK'
    BY <2>1, <2>2 DEF STypeOK, linkVars, chunkVars
  <2>4. ReliableInv'
    BY <2>1, <2>2, LongType DEF ClientPlace, ServerPlace, HeaderFirst, BeforeData, DataCounted, AckLast, All,
                      Receiving, Announced, linkVars, chunkVars, Long
  <2> QED
    BY <2>3, <2>4
<1>2. CASE Connect
  <2>1. /\ at[Server] = "listening" /\ at'[Server] = "start"
        /\ at[Client] = "setup" /\ at'[Client] = "start"
        /\ at' \in [Agents -> Labels]
        /\ UNCHANGED <<linkVars, chunkVars, num, dInfo, bufLen, total>>
    BY <1>2, TheAgents DEF Connect, At, Labels, STypeOK
  <2>2. STypeOK'
    BY <2>1 DEF STypeOK, linkVars, chunkVars
  <2>3. ReliableInv'
    BY <2>1, LongType DEF ClientPlace, ServerPlace, HeaderFirst, BeforeData, DataCounted, AckLast, All,
                Receiving, Announced, linkVars, chunkVars, Long
  <2> QED
    BY <2>2, <2>3
<1>3. ASSUME NEW s \in Sides, Fail(s)
      PROVE  STypeOK' /\ ReliableInv'
  BY <1>3, ReliableFails
<1> QED
  BY <1>1, <1>2, <1>3 DEF SetUp, SetUpFails

LEMMA ReliableSends ==
  ASSUME STypeOK, ReliableInv, UNCHANGED <<program, threadNum>>, NEW s \in Sides,
         SendSome(s), UNCHANGED <<ownVars, total>>
  PROVE  STypeOK' /\ ReliableInv'
<1>1. SendEffect(s)
  BY Sends, TheAgents
<1>2. STypeOK'
  BY <1>1 DEF STypeOK, ownVars, SendEffect
<1>3. UNCHANGED <<at, num, dInfo, bufLen, total, ended, want, got>>
  BY <1>1 DEF SendEffect, ownVars
<1>4. CASE s = Client
  <2>1. /\ out[Client] # <<>> /\ ended[Client] = "no" /\ Length(out'[Client]) \in Nat
        /\ out'[Server] = out[Server] /\ wire'[Client] = wire[Client]
    BY <1>1, <1>4, LengthOfNone, TheAgents DEF SendEffect, Running
  <2>2. ClientPlace' /\ ServerPlace' /\ DataCounted' /\ AckLast'
    BY <1>3, <2>1 DEF ReliableInv, ClientPlace, ServerPlace, DataCounted, AckLast, All, Receiving, Announced, Long
  <2>3. HeaderFirst'
    <3> SUFFICES ASSUME BeforeData, ended[Server] = "no"
                 PROVE  /\ \A i \in 1..Length(wire'[Server]) :
                             Length(got[Server]) + i <= HdrSize => wire'[Server][i][2] = Long
                        /\ \A i \in 1..Length(out'[Client]) :
                             Length(got[Server]) + Length(wire'[Server]) + i <= HdrSize => out'[Client][i][2] = Long
                        /\ at[Client] \in {"send", "ack"} =>
                             Length(got[Server]) + Length(wire'[Server]) + Length(out'[Client]) >= HdrSize
      BY <1>3 DEF ReliableInv, HeaderFirst, BeforeData, All, Long
    <3> DEFINE g == Length(got[Server])
               w == wire[Server]
               o == out[Client]
               x == wire'[Server]
               r == out'[Client]
               lw == Length(w)
               lo == Length(o)
               lx == Length(x)
               lr == Length(r)
    <3>1. /\ g \in Nat /\ lw \in Nat /\ lo \in Nat /\ lx \in Nat /\ lr \in Nat
      BY <1>1, <1>4, Lengths, TheAgents DEF SendEffect
    <3>2. PICK n \in 1..lo : Pours(o, n, r, w, x)
      BY <1>1, <1>4, TheAgents DEF SendEffect
    <3>3. /\ lr = lo - n /\ lx = lw + n
          /\ \A i \in 1..lr : r[i] = o[i + n]
          /\ \A i \in 1..lw : x[i] = w[i]
          /\ \A i \in 1..n : x[lw + i] = o[i]
      BY <3>2 DEF Pours
    <3>4. /\ \A i \in 1..lw : g + i <= HdrSize => w[i][2] = Long
          /\ \A i \in 1..lo : g + lw + i <= HdrSize => o[i][2] = Long
          /\ at[Client] \in {"send", "ack"} => g + lw + lo >= HdrSize
      BY DEF ReliableInv, HeaderFirst
    <3> HIDE DEF g, w, o, x, r, lw, lo, lx, lr
    <3>5. ASSUME NEW i \in 1..lx, g + i <= HdrSize
          PROVE  x[i][2] = Long
      <4>1. CASE i <= lw
        BY <3>1, <3>3, <3>4, <3>5, <4>1
      <4>2. CASE i > lw
        <5> DEFINE j == i - lw
        <5>1. j \in 1..n /\ i = lw + j /\ j \in 1..lo /\ g + lw + j <= HdrSize
          BY <3>1, <3>2, <3>3, <3>5, <4>2, Parameters
        <5> QED
          BY <3>3, <3>4, <5>1
      <4> QED
        BY <3>1, <4>1, <4>2
    <3>6. ASSUME NEW i \in 1..lr, g + lx + i <= HdrSize
          PROVE  r[i][2] = Long
      <4>1. i + n \in 1..lo /\ g + lw + (i + n) <= HdrSize
        BY <3>1, <3>2, <3>3, <3>6, Parameters
      <4> QED
        BY <3>3, <3>4, <4>1
    <3>7. at[Client] \in {"send", "ack"} => g + lx + lr >= HdrSize
      BY <3>1, <3>2, <3>3, <3>4, Parameters
    <3> QED
      BY <3>5, <3>6, <3>7 DEF g, w, o, x, r, lw, lo, lx, lr
  <2> QED
    BY <1>2, <2>2, <2>3 DEF ReliableInv
<1>5. CASE s = Server
  <2>1. /\ out[Server] # <<>> /\ out'[Client] = out[Client] /\ wire'[Server] = wire[Server]
    BY <1>1, <1>5, LengthOfNone, TheAgents DEF SendEffect
  <2>2. at[Server] = "end"
    BY <2>1 DEF ReliableInv, AckLast
  <2>3. All(wire'[Client], Long) /\ All(out'[Server], Long)
    <3>1. All(wire[Client], Long) /\ All(out[Server], Long)
      BY DEF ReliableInv, AckLast
    <3>2. PICK n \in 1..Length(out[Server]) :
            /\ Length(out'[Server]) = Length(out[Server]) - n
            /\ \A i \in 1..Length(out'[Server]) : out'[Server][i] = out[Server][i + n]
            /\ wire'[Client] = wire[Client] \/ Pours(out[Server], n, out'[Server], wire[Client], wire'[Client])
      BY <1>1, <1>5, TheAgents DEF SendEffect
    <3>3. /\ Length(wire[Client]) \in Nat /\ Length(out[Server]) \in Nat
      BY Lengths, TheAgents
    <3>4. All(out'[Server], Long)
      BY <3>1, <3>2, <3>3 DEF All
    <3>5. All(wire'[Client], Long)
      <4>1. \A i \in 1..n : out[Server][i][2] = Long
        BY <3>1, <3>2, <3>3 DEF All
      <4>2. CASE wire'[Client] = wire[Client]
        BY <3>1, <4>2
      <4>3. CASE Pours(out[Server], n, out'[Server], wire[Client], wire'[Client])
        BY <3>1, <3>2, <3>3, <4>1, <4>3, PouredAll
      <4> QED
        BY <3>2, <4>2, <4>3
    <3> QED
      BY <3>4, <3>5
  <2>4. ReliableInv'
    BY <1>3, <2>1, <2>2, <2>3 DEF ReliableInv, ClientPlace, ServerPlace, HeaderFirst, BeforeData,
       DataCounted, AckLast, Receiving, Announced, Long, All
  <2> QED
    BY <1>2, <2>4
<1> QED
  BY <1>4, <1>5, TheAgents

LEMMA ReliableReceives ==
  ASSUME STypeOK, ReliableInv, UNCHANGED <<program, threadNum>>, NEW s \in Sides,
         RecvSome(s, TRUE), UNCHANGED <<ownVars, total>>
  PROVE  STypeOK' /\ ReliableInv'
<1>1. RecvEffect(s, TRUE)
  BY Receives, TheAgents
<1>2. STypeOK'
  BY <1>1 DEF STypeOK, ownVars, RecvEffect
<1>3. UNCHANGED <<at, num, dInfo, bufLen, total, ended, reset, out>>
  BY <1>1 DEF RecvEffect, ownVars
<1> DEFINE g == got[s]
           w == wire[s]
           h == got'[s]
           r == wire'[s]
           lg == Length(g)
           lw == Length(w)
           lh == Length(h)
           lr == Length(r)
<1>4. /\ lg \in Nat /\ lw \in Nat /\ lh \in Nat /\ lr \in Nat /\ want[s] \in Nat
  BY <1>1, Lengths, TheAgents DEF RecvEffect
<1>5. PICK n \in 1..want[s] : Pours(w, n, r, g, h) /\ want'[s] = want[s] - n
  BY <1>1, TheAgents DEF RecvEffect
<1>6. /\ lr = lw - n /\ lh = lg + n
      /\ \A i \in 1..lr : r[i] = w[i + n]
      /\ \A i \in 1..lg : h[i] = g[i]
      /\ \A i \in 1..n : h[lg + i] = w[i]
  BY <1>5 DEF Pours
<1>7. want[s] > 0 /\ lh + want'[s] = lg + want[s] /\ n \in 1..lw
  BY <1>4, <1>5, <1>6
<1>8. \A a \in Agents \ {s} : got'[a] = got[a] /\ want'[a] = want[a]
  BY <1>1, TheAgents DEF RecvEffect
<1>9. \A t \in Sides \ {s} : wire'[t] = wire[t]
  BY <1>1, TheAgents DEF RecvEffect
<1>10. CASE s = Client
  <2>1. at[Client] = "ack" /\ wire[Client] # <<>>
    BY <1>4, <1>7, <1>10, LengthOfNone DEF ReliableInv, ClientPlace, Receiving
  <2>2. at[Server] = "end"
    BY <2>1 DEF ReliableInv, AckLast
  <2>3. All(w, Long) /\ All(g, Long)
    BY <1>10 DEF ReliableInv, AckLast
  <2>4. All(h, Long)
    <3>1. \A i \in 1..n : w[i][2] = Long
      BY <1>7, <1>4, <2>3 DEF All
    <3> HIDE DEF h, r, w, g
    <3> QED
      BY <1>4, <1>5, <1>7, <2>3, <3>1, PouredAll
  <2>5. All(r, Long)
    BY <1>4, <1>5, <1>6, <1>7, <2>3 DEF All
  <2>6. ReliableInv'
    BY <1>3, <1>4, <1>7, <1>8, <1>9, <1>10, <2>1, <2>2, <2>4, <2>5, TheAgents
       DEF ReliableInv, ClientPlace, ServerPlace, HeaderFirst, BeforeData,
       DataCounted, AckLast, Receiving, Announced, Long, All
  <2> QED
    BY <1>2, <2>6
<1>11. CASE s = Server
  <2>1. /\ got'[Client] = got[Client] /\ want'[Client] = want[Client] /\ wire'[Client] = wire[Client]
    BY <1>8, <1>9, <1>11, TheAgents
  <2>2. /\ want[Server] > 0 /\ Length(got'[Server]) + want'[Server] = Length(got[Server]) + want[Server]
        /\ n \in 1..Length(wire[Server]) /\ ended[Server] = "no"
    BY <1>1, <1>7, <1>11, TheAgents DEF RecvEffect, Running
  <2>3. at[Client] \in {"send", "ack"}
    BY <2>2, LengthOfNone DEF ReliableInv, ClientPlace
  <2>4. ClientPlace' /\ ServerPlace' /\ DataCounted' /\ AckLast'
    BY <1>3, <2>1, <2>2, <2>3 DEF ReliableInv, ClientPlace, ServerPlace, DataCounted, AckLast, All,
                            Receiving, Announced, Long
  <2>5. HeaderFirst'
    <3> SUFFICES ASSUME BeforeData
                 PROVE  /\ All(h, Long)
                        /\ \A i \in 1..lr : lh + i <= HdrSize => r[i][2] = Long
                        /\ \A i \in 1..Length(out[Client]) :
                             lh + lr + i <= HdrSize => out[Client][i][2] = Long
                        /\ at[Client] \in {"send", "ack"} => lh + lr + Length(out[Client]) >= HdrSize
      BY <1>3, <1>11 DEF ReliableInv, HeaderFirst, BeforeData, Long
    <3> DEFINE lo == Length(out[Client])
    <3>1. lo \in Nat
      BY Lengths, TheAgents
    <3>2. lg + want[s] = HdrSize
      BY <1>11, <2>2 DEF ReliableInv, ServerPlace, BeforeData
    <3>3. /\ All(g, Long)
          /\ \A i \in 1..lw : lg + i <= HdrSize => w[i][2] = Long
          /\ \A i \in 1..lo : lg + lw + i <= HdrSize => out[Client][i][2] = Long
          /\ at[Client] \in {"send", "ack"} => lg + lw + lo >= HdrSize
      BY <1>11, <2>2 DEF ReliableInv, HeaderFirst
    <3>4. \A i \in 1..n : w[i][2] = Long
      BY <1>4, <1>5, <1>7, <3>2, <3>3, Parameters
    <3>5. All(h, Long)
      <4> HIDE DEF h, r, w, g
      <4> QED
        BY <1>4, <1>5, <1>7, <3>3, <3>4, PouredAll
    <3> HIDE DEF g, w, h, r, lg, lw, lh, lr, lo
    <3>6. lh + lr = lg + lw
      BY <1>4, <1>6, <1>7
    <3>7. ASSUME NEW i \in 1..lr, lh + i <= HdrSize
          PROVE  r[i][2] = Long
      <4>1. i + n \in 1..lw /\ lg + (i + n) <= HdrSize
        BY <1>4, <1>6, <1>7, <3>7, Parameters
      <4> QED
        BY <1>6, <3>3, <4>1
    <3>8. /\ \A i \in 1..lo : lh + lr + i <= HdrSize => out[Client][i][2] = Long
          /\ at[Client] \in {"send", "ack"} => lh + lr + lo >= HdrSize
      BY <3>3, <3>6
    <3> USE DEF lo
    <3> QED
      BY <3>5, <3>7, <3>8
  <2> QED
    BY <1>2, <2>4, <2>5 DEF ReliableInv
<1> QED
  BY <1>10, <1>11, TheAgents

LEMMA ReliableFinishes ==
  ASSUME STypeOK, ReliableInv, UNCHANGED <<program, threadNum>>, NEW s \in Sides,
         NEW what \in Int, Finish(s, what),
         (s = Client) => (at[Server] = "end" /\ what = Long)
  PROVE  STypeOK' /\ ReliableInv'
<1>1. STypeOK'
  BY Finishes DEF STypeOK
<1>2. ReliableInv'
  BY Finishes, TheAgents, LengthOfNone
     DEF ReliableInv, ClientPlace, ServerPlace, HeaderFirst, BeforeData, DataCounted, AckLast, All,
         Receiving, Announced, Long
<1> QED
  BY <1>1, <1>2

LEMMA ReliableClientSteps ==
  ASSUME STypeOK, ReliableInv, program = "reliable", UNCHANGED <<program, threadNum>>, ReliableClient
  PROVE  STypeOK' /\ ReliableInv'
<1>1. CASE SendHeader
  <2> DEFINE m == Header(Client, RequestNum * Size)
  <2>1. /\ Move(Client, "start", "send") /\ SendAll(Client, m)
        /\ UNCHANGED <<linkVars, num, dInfo, bufLen, total>>
    BY <1>1 DEF SendHeader
  <2>2. m \in Seq(Bytes) /\ Length(m) = HdrSize /\ All(m, Long)
    BY BlockIsUniform, LongType, Parameters, TheAgents DEF Header, Long
  <2> HIDE DEF m
  <2>3. /\ UNCHANGED <<want, got>> /\ out' \in [Agents -> Seq(Bytes)] /\ out'[Client] = m
        /\ out'[Server] = out[Server]
    BY <2>1, <2>2, Offers, TheAgents
  <2>4. /\ at[Client] = "start" /\ at'[Client] = "send" /\ at'[Server] = at[Server]
        /\ at' \in [Agents -> Labels]
    BY <2>1, Moves, TheAgents DEF Labels
  <2>5. STypeOK'
    BY <2>1, <2>3, <2>4 DEF STypeOK, linkVars
  <2>6. ClientPlace' /\ ServerPlace' /\ DataCounted' /\ AckLast'
    BY <2>1, <2>3, <2>4 DEF ReliableInv, ClientPlace, ServerPlace, DataCounted, AckLast, All,
                            Receiving, Announced, Long, linkVars
  <2>7. Length(got[Server]) \in Nat /\ wire[Server] = <<>> /\ Length(wire[Server]) = 0
    BY <2>4, Lengths, LengthOfNone, TheAgents DEF ReliableInv, ClientPlace
  <2>8. HeaderFirst'
    BY <2>1, <2>2, <2>3, <2>4, <2>7, Parameters DEF ReliableInv, HeaderFirst, BeforeData, All, Long, linkVars
  <2> QED
    BY <2>5, <2>6, <2>8 DEF ReliableInv
<1>2. CASE SendNext(Client, RequestNum)
  <2> DEFINE n == num[Client]
             m == Message(Client, n)
  <2>1. /\ at[Client] = "send" /\ out[Client] = <<>> /\ n < RequestNum /\ n \in Nat /\ SendAll(Client, m)
        /\ num' = [num EXCEPT ![Client] = n + 1]
        /\ UNCHANGED <<linkVars, at, dInfo, bufLen, total>>
    BY <1>2, TheAgents DEF SendNext, STypeOK, At, Idle
  <2>2. LengthOf(n) \in Nat
    BY <2>1, OneMoreMessage
  <2>3. m \in Seq(Bytes) /\ Length(m) \in Nat
    BY <2>1, <2>2, BlockIsUniform, TheAgents DEF Message
  <2> HIDE DEF m
  <2>4. /\ UNCHANGED <<want, got>> /\ out' \in [Agents -> Seq(Bytes)] /\ out'[Client] = m
        /\ out'[Server] = out[Server]
    BY <2>1, <2>3, Offers, TheAgents
  <2>5. num' \in [Agents -> Nat] /\ num'[Server] = num[Server]
    <3>1. num \in [Agents -> Nat] /\ n + 1 \in Nat
      BY <2>1 DEF STypeOK
    <3> HIDE DEF n
    <3> QED
      BY <2>1, <3>1, TheAgents
  <2>6. STypeOK'
    BY <2>1, <2>4, <2>5 DEF STypeOK, linkVars
  <2>7. ClientPlace' /\ ServerPlace' /\ DataCounted' /\ AckLast'
    BY <2>1, <2>4, <2>5 DEF ReliableInv, ClientPlace, ServerPlace, DataCounted, AckLast, All,
                            Receiving, Announced, Long, linkVars
  <2>8. HeaderFirst'
    <3>1. Length(got[Server]) \in Nat /\ Length(wire[Server]) \in Nat /\ Length(out[Client]) = 0
      BY <2>1, Lengths, LengthOfNone, TheAgents
    <3>2. /\ BeforeData' <=> BeforeData
          /\ UNCHANGED <<wire, got, ended, at>> /\ num'[Server] = num[Server]
      BY <2>1, <2>4, <2>5 DEF BeforeData, linkVars
    <3>3. BeforeData /\ ended[Server] = "no" => Length(got[Server]) + Length(wire[Server]) >= HdrSize
      BY <2>1, <3>1, Parameters DEF ReliableInv, HeaderFirst
    <3>4. \A i \in 1..Length(m) : i > 0
      BY <2>3
    <3>5. BeforeData /\ ended[Server] = "no" =>
            /\ \A i \in 1..Length(m) : ~(Length(got[Server]) + Length(wire[Server]) + i <= HdrSize)
            /\ Length(got[Server]) + Length(wire[Server]) + Length(m) >= HdrSize
      BY <2>3, <3>1, <3>3, Parameters
    <3> QED
      BY <2>4, <3>2, <3>5 DEF ReliableInv, HeaderFirst, All, Long
  <2> QED
    BY <2>6, <2>7, <2>8 DEF ReliableInv
<1>3. CASE AwaitAck
  <2>1. /\ Move(Client, "send", "ack") /\ RecvAll(Client, HdrSize)
        /\ UNCHANGED <<linkVars, num, dInfo, bufLen, total>>
    BY <1>3 DEF AwaitAck
  <2>2. /\ UNCHANGED out
        /\ want' \in [Agents -> Nat] /\ want'[Client] = HdrSize /\ want'[Server] = want[Server]
        /\ got' \in [Agents -> Seq(Bytes)] /\ got'[Client] = <<>> /\ got'[Server] = got[Server]
    BY <2>1, Awaits, Parameters, TheAgents
  <2>3. /\ at[Client] = "send" /\ at'[Client] = "ack" /\ at'[Server] = at[Server]
        /\ at' \in [Agents -> Labels]
    BY <2>1, Moves, TheAgents DEF Labels
  <2>4. STypeOK'
    BY <2>1, <2>2, <2>3 DEF STypeOK, linkVars
  <2>5. ReliableInv'
    BY <2>1, <2>2, <2>3, LengthOfNone, Parameters
       DEF ReliableInv, ClientPlace, ServerPlace, HeaderFirst, BeforeData, DataCounted, AckLast, All,
           Receiving, Announced, Long, linkVars
  <2> QED
    BY <2>4, <2>5
<1>4. CASE SendPart(Client) \/ RecvPart(Client) \/ SendFailed(Client) \/ RecvFailed(Client)
  BY <1>4, ReliableSends, ReliableReceives, ReliableFails, TheAgents
     DEF SendPart, RecvPart, SendFailed, RecvFailed
<1>5. CASE At(Client, "ack") /\ Finish(Client, got[Client][1][2])
  <2>1. at[Client] = "ack" /\ want[Client] = 0
    BY <1>5 DEF At, Idle
  <2>2. Length(got[Client]) = HdrSize
    BY <2>1, Lengths, TheAgents DEF ReliableInv, ClientPlace, Receiving
  <2>3. got[Client] # <<>> /\ got[Client][1][2] = Long
    BY <2>2, LengthOfNone, Parameters DEF ReliableInv, AckLast, All
  <2>4. at[Server] = "end"
    BY <2>3 DEF ReliableInv, AckLast
  <2> QED
    BY <1>5, <2>3, <2>4, ReliableFinishes, LongType, TheAgents
<1> QED
  BY <1>1, <1>2, <1>3, <1>4, <1>5 DEF ReliableClient

LEMMA ReliableServerSteps ==
  ASSUME STypeOK, ReliableInv, program = "reliable", UNCHANGED <<program, threadNum>>, ReliableServer
  PROVE  STypeOK' /\ ReliableInv'
<1>1. CASE RecvHeader
  <2>1. /\ Move(Server, "start", "header") /\ RecvAll(Server, HdrSize)
        /\ UNCHANGED <<linkVars, num, dInfo, bufLen, total>>
    BY <1>1 DEF RecvHeader
  <2>2. /\ UNCHANGED out
        /\ want' \in [Agents -> Nat] /\ want'[Server] = HdrSize /\ want'[Client] = want[Client]
        /\ got' \in [Agents -> Seq(Bytes)] /\ got'[Server] = <<>> /\ got'[Client] = got[Client]
    BY <2>1, Awaits, Parameters, TheAgents
  <2>3. /\ at[Server] = "start" /\ at'[Server] = "header" /\ at'[Client] = at[Client]
        /\ at' \in [Agents -> Labels]
    BY <2>1, Moves, TheAgents DEF Labels
  <2>4. STypeOK'
    BY <2>1, <2>2, <2>3 DEF STypeOK, linkVars
  <2>5. ReliableInv'
    BY <2>1, <2>2, <2>3, LengthOfNone, Parameters
       DEF ReliableInv, ClientPlace, ServerPlace, HeaderFirst, BeforeData, DataCounted, AckLast, All,
           Receiving, Announced, Long, linkVars
  <2> QED
    BY <2>4, <2>5
<1>2. CASE HeaderRead("data")
  <2>1. /\ Move(Server, "header", "data")
        /\ dInfo' = [dInfo EXCEPT ![Server] = <<got[Server]>>]
        /\ UNCHANGED <<linkVars, chunkVars, num, bufLen, total>>
    BY <1>2 DEF HeaderRead
  <2>2. /\ at[Server] = "header" /\ at'[Server] = "data" /\ at'[Client] = at[Client]
        /\ at' \in [Agents -> Labels] /\ want[Server] = 0
    BY <2>1, Moves, TheAgents DEF Labels
  <2>3. Length(got[Server]) = HdrSize
    BY <2>2, Lengths, TheAgents DEF ReliableInv, ServerPlace
  <2>4. got[Server] # <<>> /\ got[Server][1][2] = Long /\ num[Server] = 0
    BY <2>2, <2>3, LengthOfNone, Parameters DEF ReliableInv, HeaderFirst, BeforeData, All
  <2>5. dInfo' \in [Agents -> Seq(Seq(Bytes))] /\ dInfo'[Server] = <<got[Server]>>
    BY <2>1, TheAgents DEF STypeOK
  <2>6. STypeOK'
    BY <2>1, <2>2, <2>5 DEF STypeOK, linkVars, chunkVars
  <2>7. DataCounted'
    BY <2>1, <2>2, <2>4, <2>5, LongType DEF DataCounted, Announced, Long, linkVars, chunkVars
  <2>8. ClientPlace' /\ ServerPlace' /\ HeaderFirst' /\ AckLast'
    BY <2>1, <2>2, LongType DEF ReliableInv, ClientPlace, ServerPlace, HeaderFirst, BeforeData, AckLast, All,
           Receiving, Long, linkVars, chunkVars
  <2> QED
    BY <2>6, <2>7, <2>8 DEF ReliableInv
<1>3. CASE RecvData
  <2> DEFINE chunkSize == Min({BufSize, Announced - num[Server]})
  <2>1. /\ at[Server] = "data" /\ num[Server] < Announced
        /\ RecvAll(Server, chunkSize) /\ num' = [num EXCEPT ![Server] = @ + chunkSize]
        /\ UNCHANGED <<linkVars, at, dInfo, bufLen, total>>
    <3>1. num[Server] \in Nat /\ Announced \in Nat /\ at[Server] = "data"
      BY <1>3, Lengths, LongType, TheAgents DEF RecvData, At, ReliableInv, DataCounted
    <3> QED
      BY <1>3, <3>1 DEF RecvData, AllReceived
  <2>2. Announced = Long /\ num[Server] \in Nat
    BY <2>1, Lengths, TheAgents DEF ReliableInv, DataCounted
  <2>3. chunkSize \in Nat /\ num[Server] + chunkSize <= Long
    BY <2>1, <2>2, LeastOfTwo, LongType, Parameters
  <2> HIDE DEF chunkSize
  <2>4. /\ UNCHANGED out
        /\ want' \in [Agents -> Nat] /\ want'[Client] = want[Client]
        /\ got' \in [Agents -> Seq(Bytes)] /\ got'[Client] = got[Client]
    BY <2>1, <2>3, Awaits, TheAgents
  <2>5. num' \in [Agents -> Nat] /\ num'[Server] <= Long
    <3> DEFINE n == num[Server] + chunkSize
    <3>1. n \in Nat /\ n <= Long /\ num' = [num EXCEPT ![Server] = n]
      BY <2>1, <2>2, <2>3
    <3> HIDE DEF n
    <3> QED
      BY <3>1, Counts, TheAgents
  <2>6. STypeOK'
    BY <2>1, <2>4, <2>5 DEF STypeOK, linkVars
  <2>7. ReliableInv'
    BY <2>1, <2>4, <2>5 DEF ReliableInv, ClientPlace, ServerPlace, HeaderFirst, BeforeData, DataCounted,
       AckLast, All, Receiving, Announced, Long, linkVars
  <2> QED
    BY <2>6, <2>7
<1>4. CASE SendAck
  <2> DEFINE m == Header(Server, Announced)
  <2>1. /\ Move(Server, "data", "end") /\ num[Server] >= Announced /\ SendAll(Server, m)
        /\ UNCHANGED <<linkVars, num, dInfo, bufLen, total>>
    BY <1>4 DEF SendAck, AllReceived
  <2>2. /\ at[Server] = "data" /\ at'[Server] = "end" /\ at'[Client] = at[Client]
        /\ at' \in [Agents -> Labels] /\ want[Server] = 0
    BY <2>1, Moves, TheAgents DEF Labels
  <2>3. Announced = Long /\ num[Server] = Long
    BY <2>1, <2>2, LongType, Lengths, TheAgents DEF ReliableInv, DataCounted
  <2>4. m \in Seq(Bytes) /\ Length(m) = HdrSize /\ All(m, Long)
    BY <2>3, BlockIsUniform, LongType, Parameters, TheAgents DEF Header
  <2> HIDE DEF m
  <2>5. /\ UNCHANGED <<want, got>> /\ out' \in [Agents -> Seq(Bytes)] /\ out'[Server] = m
        /\ out'[Client] = out[Client]
    BY <2>1, <2>4, Offers, TheAgents
  <2>6. STypeOK'
    BY <2>1, <2>2, <2>5 DEF STypeOK, linkVars
  <2>7. ReliableInv'
    BY <2>1, <2>2, <2>3, <2>4, <2>5 DEF ReliableInv, ClientPlace, ServerPlace, HeaderFirst, BeforeData,
       DataCounted, AckLast, All, Receiving, Announced, Long, linkVars
  <2> QED
    BY <2>6, <2>7
<1>5. CASE SendPart(Server) \/ RecvPart(Server) \/ SendFailed(Server) \/ RecvFailed(Server)
  BY <1>5, ReliableSends, ReliableReceives, ReliableFails, TheAgents
     DEF SendPart, RecvPart, SendFailed, RecvFailed
<1>6. CASE At(Server, "end") /\ Finish(Server, num[Server])
  BY <1>6, ReliableFinishes, Lengths, TheAgents
<1> QED
  BY <1>1, <1>2, <1>3, <1>4, <1>5, <1>6 DEF ReliableServer

LEMMA ReliablePreserved ==
  ASSUME STypeOK, ReliableInv, program = "reliable", UNCHANGED <<program, threadNum>>,
         Program \/ (Break /\ UNCHANGED <<ownVars, total>>)
  PROVE  STypeOK' /\ ReliableInv'
<1>1. CASE Break /\ UNCHANGED <<ownVars, total>>
  BY <1>1 DEF Break, STypeOK, ReliableInv, ClientPlace, ServerPlace, HeaderFirst, BeforeData,
       DataCounted, AckLast, All, Receiving, Announced, Long, chunkVars, ownVars
<1> QED
  BY <1>1, ReliableConnects, ReliableClientSteps, ReliableServerSteps DEF Program

-----------------------------------------------------------------------------
(* The invariant of the four pairs *)

LEMMA InitTypes ==
  ASSUME SocketInit
  PROVE  STypeOK
<1>1. 1 \in 1..MaxThreads /\ RequestNum \in Nat /\ AllocStep \in Nat
  BY Parameters
<1>2. threadNum \in 1..MaxThreads
  BY <1>1 DEF SocketInit, Init
<1>3. <<>> \in Seq(Bytes) /\ <<>> \in Seq(Seq(Bytes))
  OBVIOUS
<1>4. /\ wire \in [Sides -> Seq(Bytes)] /\ out \in [Agents -> Seq(Bytes)]
      /\ got \in [Agents -> Seq(Bytes)] /\ want \in [Agents -> Nat]
      /\ ended \in [Sides -> {"no", "ok", "failed"}] /\ reset \in BOOLEAN
  BY <1>3 DEF SocketInit, Init, StreamInit
<1>5. /\ at \in [Agents -> Labels] /\ num \in [Agents -> Nat]
      /\ dInfo \in [Agents -> Seq(Seq(Bytes))] /\ total \in [Sides -> Int]
  BY <1>3 DEF SocketInit, Init, Labels
<1>6. bufLen \in [Agents -> Nat]
  BY <1>1 DEF SocketInit, Init
<1> QED
  BY <1>2, <1>4, <1>5, <1>6 DEF STypeOK

LEMMA InitData ==
  ASSUME SocketInit, program \in WithThreads
  PROVE  DataInv /\ Got = 0
<1>1. STypeOK
  BY InitTypes
<1>2. /\ \A a \in Agents : /\ num[a] = 0 /\ out[a] = <<>> /\ want[a] = 0 /\ got[a] = <<>>
                           /\ dInfo[a] = <<>> /\ at[a] \in {"setup", "out"}
      /\ \A s \in Sides : wire[s] = <<>> /\ ended[s] = "no"
      /\ ~reset
      /\ \A t \in 1..MaxThreads : at[t] = "out"
  BY TheAgents DEF SocketInit, Init, StreamInit
<1>3. Sent = 0 /\ Unsent = 0 /\ Got = 0 /\ Partial = 0
  <2>1. \A a \in Agents : num[a] = 0 /\ OutLens[a] = 0 /\ InfoLens[a] = 0 /\ PartLens[a] = 0
    BY <1>2, LengthOfNone DEF OutLens, InfoLens, PartLens, Partly
  <2>2. /\ Readers \in SUBSET Agents /\ Writers \in SUBSET Agents
        /\ num \in [Agents -> Nat] /\ OutLens \in [Agents -> Nat]
        /\ InfoLens \in [Agents -> Nat] /\ PartLens \in [Agents -> Nat]
    BY <1>1, SharedAgents, TermTypes
  <2>3. ASSUME NEW S \in SUBSET Agents, NEW n \in [Agents -> Nat], \A a \in Agents : n[a] = 0
        PROVE  SumOver(S, n) = 0
    <3>1. \A a \in S : n[a] = 0
      BY <2>3
    <3>2. SumOver(S, n) = Cardinality(S) * 0
      BY <3>1, SumOfEqual
    <3>3. Cardinality(S) \in Nat
      BY AgentsFinite, FS_CardinalityType
    <3> QED
      BY <3>2, <3>3
  <2> QED
    BY <2>1, <2>2, <2>3 DEF Sent, Unsent, Got, Partial
<1>4. Length(wire[To]) = 0 /\ 0 * Size = 0
  BY <1>1, <1>2, SharedAgents, LengthOfNone, Parameters
<1>5. Conserved
  BY <1>3, <1>4 DEF Conserved, Arrived
<1>6. ReadersInv /\ WritersInv
  BY <1>1, <1>2, SharedAgents DEF ReadersInv, WritersInv, Receiving
<1>7. ThreadsInv
  <2>1. num[Server] = 0 /\ \A t \in 1..MaxThreads : t > 0 /\ t \in Agents
    BY <1>2, TheAgents, Parameters
  <2>2. 0 <= threadNum
    BY <1>1, ThreadCount
  <2> QED
    BY <1>2, <2>1, <2>2 DEF ThreadsInv, Unborn
<1>8. ASSUME threadNum = 1
      PROVE  AloneInv
  <2>1. /\ Reader \in Agents /\ Writer \in Agents /\ To \in Sides
    BY <1>1, <1>8, AloneAgents, SharedAgents
  <2>2. /\ Length(dInfo[Reader]) = 0 /\ Length(out[Writer]) = 0 /\ Length(wire[To]) = 0
        /\ num[Writer] = 0 /\ Partly(Reader) = 0 /\ at[Reader] # "received"
    BY <1>2, <2>1, LengthOfNone DEF Partly
  <2>3. Place = 0
    BY <2>2, Parameters DEF Place
  <2> QED
    BY <2>2, <2>3, Parameters DEF AloneInv
<1> QED
  BY <1>3, <1>5, <1>6, <1>7, <1>8 DEF DataInv

LEMMA InitPair ==
  ASSUME SocketInit
  PROVE  PairInv
<1>1. STypeOK
  BY InitTypes
<1>2. /\ \A a \in Agents : /\ num[a] = 0 /\ out[a] = <<>> /\ want[a] = 0 /\ got[a] = <<>>
                           /\ dInfo[a] = <<>> /\ at[a] \in {"setup", "out"}
      /\ \A s \in Sides : wire[s] = <<>> /\ ended[s] = "no" /\ at[s] = "setup"
      /\ ~reset
      /\ \A t \in 1..MaxThreads : at[t] = "out" /\ bufLen[t] = AllocStep
      /\ bufLen[Client] = RequestNum
  BY TheAgents DEF SocketInit, Init, StreamInit
<1>3. TCPInv
  <2>1. LengthOfAll(0) = 0
    BY Parameters DEF LengthOfAll
  <2>2. TCPArrived = 0
    BY <1>2, TheAgents, LengthOfNone DEF TCPArrived
  <2> QED
    BY <1>2, <2>1, <2>2, TheAgents, Parameters DEF TCPInv
<1>4. ReliableInv
  BY <1>2, TheAgents, LengthOfNone
     DEF ReliableInv, ClientPlace, ServerPlace, HeaderFirst, BeforeData, DataCounted, AckLast, All, Receiving
<1>5. ASSUME program \in WithThreads
      PROVE  DataInv /\ Got = 0
  BY <1>5, InitData
<1>6. RecvInv
  <2>1. \A t \in Threads : t \in 1..MaxThreads /\ t \in Agents
    BY <1>1, ThreadCount
  <2> QED
    BY <1>2, <2>1, LengthOfNone, TheAgents, Parameters DEF RecvInv
<1>7. SendInv
  <2>1. \A t \in Threads : t \in 1..MaxThreads /\ t \in Agents
    BY <1>1, ThreadCount
  <2>2. Part \in Nat
    BY <1>1, PartType
  <2> QED
    BY <1>2, <2>1, <2>2, LengthOfNone, TheAgents, Parameters DEF SendInv, Receiving, All
<1> QED
  BY <1>1, <1>3, <1>4, <1>5, <1>6, <1>7 DEF PairInv, WithThreads

LEMMA PairUnchanged ==
  ASSUME PairInv, UNCHANGED <<program, vars>>
  PROVE  PairInv'
<1>1. /\ UNCHANGED <<program, threadNum, wire, ended, reset, out, want, got, at, num, dInfo, bufLen, total>>
      /\ Same
  BY DEF vars, linkVars, chunkVars, ownVars, Same
<1>2. STypeOK'
  BY <1>1 DEF PairInv, STypeOK
<1>3. TCPInv => TCPInv'
  BY <1>1 DEF TCPInv, TCPArrived
<1>4. ReliableInv => ReliableInv'
  BY <1>1 DEF ReliableInv, ClientPlace, ServerPlace, HeaderFirst, BeforeData, DataCounted, AckLast, All,
              Receiving, Announced
<1>5. ASSUME program \in WithThreads, DataInv
      PROVE  DataInv' /\ Got' = Got
  <2>1. STypeOK
    BY DEF PairInv
  <2>2. wire'[To] = wire[To] /\ (~reset' => ~reset)
    BY <1>1
  <2> QED
    BY <1>1, <1>2, <1>5, <2>1, <2>2, StopKeepsData
<1>6. ASSUME program \in WithThreads, RecvInv, Got' = Got
      PROVE  RecvInv'
  BY <1>1, <1>6, SidesStay DEF RecvInv
<1>7. SendInv => SendInv'
  BY <1>1, SidesStay DEF SendInv, Receiving, All, Announced, Part
<1> QED
  BY <1>1, <1>2, <1>3, <1>4, <1>5, <1>6, <1>7 DEF PairInv, WithThreads

LEMMA PairPreserved ==
  ASSUME PairInv, [SocketNext]_allVars
  PROVE  PairInv'
<1>1. CASE TCPStep(Next)
  <2>1. CASE AllEnded /\ UNCHANGED vars
    BY <1>1, <2>1, PairUnchanged DEF TCPStep
  <2>2. CASE Program \/ (Break /\ UNCHANGED <<ownVars, total, threadNum>>)
    <3>1. /\ program \in Programs /\ UNCHANGED <<program, threadNum>> /\ Same /\ STypeOK
          /\ Program \/ (Break /\ UNCHANGED <<ownVars, total>>)
      BY <1>1, <2>2 DEF TCPStep, Program, Same, PairInv
    <3>2. CASE program = "TCP"
      BY <3>1, <3>2, TCPPreserved DEF PairInv
    <3>3. CASE program = "reliable"
      BY <3>1, <3>3, ReliablePreserved DEF PairInv
    <3>4. CASE program = "recv"
      BY <3>1, <3>4, RecvPreserved DEF PairInv
    <3>5. CASE program = "send"
      BY <3>1, <3>5, SendPreserved DEF PairInv
    <3> QED
      BY <3>1, <3>2, <3>3, <3>4, <3>5 DEF Programs
  <2> QED
    BY <1>1, <2>1, <2>2 DEF TCPStep, Next
<1>2. CASE EchoStep(E!Next) \/ UNCHANGED allVars
  BY <1>2, PairUnchanged DEF EchoStep, allVars
<1> QED
  BY <1>1, <1>2 DEF SocketNext

LEMMA PairImpliesBufferFits ==
  ASSUME PairInv
  PROVE  BufferFits
<1>0. STypeOK
  BY DEF PairInv
<1> SUFFICES ASSUME NEW a \in Agents, program \in WithThreads, at[a] = "received", got[a] # <<>>
             PROVE  Len(dInfo[a]) < bufLen[a]
  BY DEF BufferFits
<1>1. DataInv
  BY DEF PairInv, WithThreads
<1>2. a = Client \/ a = Server \/ a \in 1..MaxThreads
  BY Parameters DEF Agents, Client, Server
<1>3. Len(dInfo[a]) = Length(dInfo[a]) /\ Length(dInfo[a]) \in Nat
  BY <1>0, LengthOfMember DEF STypeOK
<1>4. a \in 1..MaxThreads => a \in Threads
  <2>1. ASSUME a \in 1..MaxThreads
        PROVE  a \in Threads
    <3>1. a \in Nat /\ a > 0 /\ num[Server] \in Nat /\ threadNum \in Nat
      BY <1>0, <2>1, Lengths, ThreadCount, TheAgents, Parameters
    <3>2. a <= num[Server] /\ num[Server] <= threadNum
      BY <1>1, <2>1, <3>1 DEF DataInv, ThreadsInv
    <3> QED
      BY <3>1, <3>2 DEF Threads
  <2> QED
    BY <2>1
<1>5. CASE program = "recv"
  <2>1. RecvInv
    BY <1>5 DEF PairInv
  <2>2. a # Server
    BY <2>1 DEF RecvInv
  <2>3. a # Client
    BY <1>1, <1>5 DEF DataInv, WritersInv, Writers
  <2> QED
    BY <1>2, <1>3, <1>4, <2>1, <2>2, <2>3 DEF RecvInv
<1>6. CASE program = "send"
  <2>1. SendInv
    BY <1>6 DEF PairInv
  <2>2. a = Client
    <3>1. a # Server
      BY <2>1 DEF SendInv
    <3>2. a \notin Threads
      BY <2>1 DEF SendInv
    <3> QED
      BY <1>2, <1>4, <3>1, <3>2
  <2>3. Readers = {Client} /\ To = Client /\ Writers = Threads
    BY <1>6 DEF Readers, To, Writers
  <2>4. Got = Length(dInfo[Client]) /\ Partial = Length(got[Client])
    <3>1. Got = InfoLens[Client] /\ Partial = PartLens[Client]
      BY <1>0, <2>3, TheAgents, TermTypes, SumOfOne DEF Got, Partial
    <3> QED
      BY <2>2, <3>1, TheAgents DEF InfoLens, PartLens, Partly
  <2>5. Length(got[Client]) > 0
    <3>1. Length(got[Client]) \in Nat /\ Length(got[Client]) # 0
      BY <1>0, <2>2, Lengths, TheAgents
    <3> QED
      BY <3>1
  <2>6. Sent <= RequestNum
    <3>1. Sent <= Cardinality(Threads) * Part
      BY <1>0, <2>1, <2>3, ThreadCount, PartType, TermTypes, SumAtMost DEF Sent, SendInv
    <3>2. Cardinality(Threads) = threadNum
      BY <1>0, ThreadCount
    <3>3. Part * threadNum <= RequestNum /\ threadNum * Part = Part * threadNum
      BY <1>0, PartType
    <3> QED
      BY <1>0, <1>6, <3>1, <3>2, <3>3, PartType, SumTypes, Parameters DEF WithThreads
  <2>7. Got < RequestNum
    <3>1. /\ Got \in Nat /\ Sent \in Nat /\ Unsent \in Nat /\ Partial \in Nat
          /\ Length(wire[To]) \in Nat
      BY <1>0, SumTypes
    <3>2. Got * Size + Partial + Length(wire[To]) + Unsent <= Sent * Size
      BY <1>1 DEF DataInv, Conserved, Arrived
    <3>3. Got * Size \in Nat /\ Sent * Size \in Nat
      BY <3>1, Parameters
    <3>4. Got * Size < Sent * Size
      BY <2>4, <2>5, <3>1, <3>2, <3>3
    <3>5. ASSUME Got >= Sent
          PROVE  FALSE
      <4>1. Got - Sent \in Nat /\ (Got - Sent) * Size \in Nat
        BY <3>1, <3>5, Parameters
      <4>2. Got * Size = Sent * Size + (Got - Sent) * Size
        BY <3>1, Parameters
      <4> QED
        BY <3>3, <3>4, <4>1, <4>2
    <3> QED
      BY <2>6, <3>1, <3>5, Parameters
  <2> QED
    BY <1>3, <2>1, <2>2, <2>4, <2>7 DEF SendInv
<1> QED
  BY <1>5, <1>6 DEF WithThreads

LEMMA PairImpliesTotalsMatch ==
  ASSUME PairInv, program = "reliable" => RequestNum <= ShortCount
  PROVE  TotalsMatch
<1>0. STypeOK
  BY DEF PairInv
<1>1. ASSUME program = "reliable", ended[Client] = "ok"
      PROVE  num[Server] = DataLen /\ total[Client] = DataLen
  <2>1. num[Server] = Long /\ total[Client] = Long
    BY <1>1 DEF PairInv, ReliableInv, AckLast, DataCounted
  <2>2. DataLen = Long
    BY <1>1, Parameters DEF DataLen, LengthOfAll, Long
  <2> QED
    BY <2>1, <2>2
<1>2. ASSUME ~reset, \A s \in Sides : ended[s] = "ok", program = "TCP"
      PROVE  total[Client] = total[Server]
  <2>1. ended[Client] = "ok" /\ ended[Server] = "ok" /\ TCPInv
    BY <1>2, TheAgents DEF PairInv
  <2>2. /\ total[Client] = DataLen /\ num[Client] = RequestNum /\ out[Client] = <<>>
        /\ total[Server] = num[Server] /\ got[Server] = <<>> /\ wire[Server] = <<>>
        /\ TCPArrived = LengthOfAll(num[Client])
    BY <1>2, <2>1 DEF TCPInv
  <2>3. TCPArrived = num[Server]
    BY <1>0, <2>2, LengthOfNone, Lengths, TheAgents DEF TCPArrived
  <2> QED
    BY <2>2, <2>3 DEF DataLen
<1>3. ASSUME ~reset, \A s \in Sides : ended[s] = "ok", program \in WithThreads
      PROVE  /\ Got * Size + Partial = Sent * Size
             /\ \A a \in Readers : at[a] = "end" => PartLens[a] <= Size - 1
             /\ Got \in Nat /\ Sent \in Nat /\ Partial \in Nat
             /\ Got * Size \in Nat /\ Sent * Size \in Nat
  <2>1. DataInv
    BY <1>3 DEF PairInv, WithThreads
  <2>2. /\ Got \in Nat /\ Sent \in Nat /\ Unsent \in Nat /\ Partial \in Nat
        /\ Length(wire[To]) \in Nat
    BY <1>0, <1>3, SumTypes
  <2>3. Got * Size \in Nat /\ Sent * Size \in Nat
    BY <2>2, Parameters
  <2>4. wire[To] = <<>> /\ \A a \in Writers : out[a] = <<>>
    <3>1. ended[Client] = "ok" /\ ended[Server] = "ok"
      BY <1>3, TheAgents
    <3>2. CASE program = "recv"
      <4>1. 1 \in Threads
        BY <1>0, ThreadCount DEF Threads
      <4> QED
        BY <1>3, <2>1, <3>1, <3>2, <4>1 DEF PairInv, RecvInv, DataInv, ReadersInv, Readers, Writers
    <3>3. CASE program = "send"
      BY <1>3, <2>1, <3>1, <3>3 DEF PairInv, SendInv, DataInv, ReadersInv, WritersInv, Readers, Writers
    <3> QED
      BY <1>3, <3>2, <3>3 DEF WithThreads
  <2>5. Length(wire[To]) = 0
    BY <2>4, LengthOfNone
  <2>6. Unsent = 0
    <3>1. \A a \in Writers : OutLens[a] = 0
      BY <1>0, <1>3, <2>4, SharedAgents, LengthOfNone DEF OutLens
    <3>2. Unsent = Cardinality(Writers) * 0
      BY <1>0, <1>3, <3>1, SharedAgents, TermTypes, SumOfEqual DEF Unsent
    <3>3. Cardinality(Writers) \in Nat
      BY <1>0, <1>3, SharedAgents, AgentsFinite, FS_CardinalityType
    <3> QED
      BY <3>2, <3>3
  <2>7. Got * Size + Partial = Sent * Size
    <3>1. Got * Size + Partial + Length(wire[To]) + Unsent = Sent * Size
      BY <1>3, <2>1 DEF DataInv, Conserved, Arrived
    <3> QED
      BY <2>2, <2>3, <2>5, <2>6, <3>1
  <2>8. ASSUME NEW a \in Readers, at[a] = "end"
        PROVE  PartLens[a] <= Size - 1
    <3>1. a \in Agents
      BY <1>0, <1>3, SharedAgents
    <3>2. PartLens[a] = Length(got[a]) /\ Length(got[a]) < Size
      BY <2>1, <2>8, <3>1 DEF PartLens, Partly, DataInv, ReadersInv
    <3>3. Length(got[a]) \in Nat
      BY <1>0, <3>1, Lengths
    <3> QED
      BY <3>2, <3>3, Parameters
  <2> QED
    BY <2>2, <2>3, <2>7, <2>8
<1>4. ASSUME ~reset, \A s \in Sides : ended[s] = "ok", program = "send"
      PROVE  total[Client] = total[Server]
  <2>1. ended[Client] = "ok" /\ ended[Server] = "ok" /\ SendInv /\ program \in WithThreads
    BY <1>4, TheAgents DEF PairInv, WithThreads
  <2>2. /\ total[Client] = Length(dInfo[Client]) /\ total[Server] = Part * threadNum
        /\ at[Client] = "end" /\ \A t \in Threads : at[t] = "end" /\ num[t] = Part
    BY <2>1 DEF SendInv
  <2>3. /\ Readers \in SUBSET Agents /\ Writers = Threads /\ Readers = {Client}
    BY <1>0, <1>4, <2>1, SharedAgents DEF Readers, Writers
  <2>4. Sent = threadNum * Part
    BY <1>0, <2>2, <2>3, ThreadCount, PartType, TermTypes, SumOfEqual DEF Sent
  <2>5. Got = Length(dInfo[Client]) /\ Partial = PartLens[Client]
    <3>1. Got = InfoLens[Client] /\ Partial = PartLens[Client]
      BY <1>0, <2>3, TheAgents, TermTypes, SumOfOne DEF Got, Partial
    <3> QED
      BY <3>1, TheAgents DEF InfoLens
  <2>6. /\ Got * Size + Partial = Sent * Size /\ Partial <= Size - 1
        /\ Got \in Nat /\ Sent \in Nat /\ Partial \in Nat
        /\ Got * Size \in Nat /\ Sent * Size \in Nat
    BY <1>3, <1>4, <2>1, <2>2, <2>3, <2>5
  <2>7. Got = Sent
    <3>1. (Got + 1) * Size = Got * Size + Size /\ (Sent + 1) * Size = Sent * Size + Size
      BY <2>6, Parameters
    <3>2. Fits(Got, Sent * Size) /\ Fits(Sent, Sent * Size)
      BY <2>6, <3>1, Parameters DEF Fits
    <3> QED
      BY <2>6, <3>2, FitsOne
  <2> QED
    BY <1>0, <2>2, <2>4, <2>5, <2>7, PartType
<1>5. ASSUME ~reset, \A s \in Sides : ended[s] = "ok", program = "recv"
      PROVE  total[Server] \in (RequestNum - threadNum + 1)..RequestNum
  <2>1. ended[Client] = "ok" /\ ended[Server] = "ok" /\ RecvInv /\ program \in WithThreads
    BY <1>5, TheAgents DEF PairInv, WithThreads
  <2>2. total[Server] = Got /\ num[Client] = RequestNum /\ \A t \in Threads : at[t] = "end"
    BY <2>1 DEF RecvInv
  <2>3. Readers = Threads /\ Writers = {Client}
    BY <1>5 DEF Readers, Writers
  <2>4. Sent = RequestNum
    BY <1>0, <2>2, <2>3, TheAgents, TermTypes, SumOfOne DEF Sent
  <2>5. /\ Got * Size + Partial = Sent * Size
        /\ \A t \in Threads : PartLens[t] <= Size - 1
        /\ Got \in Nat /\ Sent \in Nat /\ Partial \in Nat
        /\ Got * Size \in Nat /\ Sent * Size \in Nat
    BY <1>3, <1>5, <2>1, <2>2, <2>3
  <2>6. Size - 1 \in Nat /\ threadNum \in Nat \ {0}
    BY <1>0, ThreadCount, Parameters
  <2>7. Partial <= threadNum * (Size - 1)
    <3>1. Partial <= Cardinality(Threads) * (Size - 1)
      BY <1>0, <2>3, <2>5, <2>6, ThreadCount, TermTypes, SumAtMost DEF Partial
    <3> QED
      BY <1>0, <3>1, ThreadCount
  <2>8. threadNum * (Size - 1) = threadNum * Size - threadNum /\ threadNum * Size \in Nat
    BY <2>6, Parameters
  <2>9. Got <= Sent
    <3>1. ASSUME Got > Sent
          PROVE  FALSE
      <4>1. Got * Size = Sent * Size + (Got - Sent) * Size
        BY <2>5, Parameters
      <4>2. (Got - Sent) * Size > 0
        BY <2>5, <3>1, Parameters
      <4> QED
        BY <2>5, <4>1, <4>2, Parameters
    <3> QED
      BY <2>5, <3>1
  <2>10. Sent - Got < threadNum
    <3>1. ASSUME Sent - Got >= threadNum
          PROVE  FALSE
      <4> DEFINE k == Sent - Got - threadNum
      <4>1. k \in Nat /\ Sent = Got + threadNum + k
        BY <2>5, <2>6, <3>1
      <4>2. k * Size \in Nat
        BY <4>1, Parameters
      <4> HIDE DEF k
      <4>3. Sent * Size = Got * Size + threadNum * Size + k * Size
        BY <2>5, <2>6, <4>1, Parameters
      <4> QED
        BY <2>5, <2>6, <2>7, <2>8, <4>2, <4>3
    <3> QED
      BY <2>5, <2>6, <3>1
  <2> QED
    BY <2>2, <2>4, <2>5, <2>6, <2>9, <2>10, Parameters
<1> QED
  BY <1>1, <1>2, <1>4, <1>5 DEF TotalsMatch, SuccessMeansReceived

LEMMA PairImpliesAlone ==
  ASSUME PairInv
  PROVE  AloneInOrder
<1>0. STypeOK
  BY DEF PairInv
<1> SUFFICES ASSUME NEW a \in Agents, threadNum = 1, program \in WithThreads, a # Server,
                    NEW k \in DOMAIN dInfo[a], NEW b \in DOMAIN dInfo[a][k]
             PROVE  dInfo[a][k][b][2] = k - 1
  BY DEF AloneInOrder
<1>1. DataInv /\ AloneInv
  BY DEF PairInv, DataInv, WithThreads
<1>2. /\ dInfo[a] \in Seq(Seq(Bytes)) /\ Length(dInfo[a]) = Len(dInfo[a])
      /\ k \in 1..Length(dInfo[a]) /\ dInfo[a][k] \in Seq(Bytes)
  <2>1. dInfo[a] \in Seq(Seq(Bytes)) /\ Length(dInfo[a]) = Len(dInfo[a])
    BY <1>0, LengthOfMember DEF STypeOK
  <2> QED
    BY <2>1
<1>3. b \in 1..Length(dInfo[a][k])
  BY <1>2, LengthType
<1>4. a = Reader
  <2>1. dInfo[a] # <<>>
    BY <1>2
  <2>2. a \in Readers
    BY <1>1, <2>1 DEF DataInv, ThreadsInv
  <2> QED
    BY <1>0, <2>2, AloneAgents
<1> QED
  BY <1>1, <1>2, <1>3, <1>4 DEF AloneInv, All

-----------------------------------------------------------------------------
(* The echo servers *)

LEMMA EchoParameters == LineLen \in Nat \ {0} /\ NumLines \in Nat \ {0}
BY EchoAssumption

LEMMA EchoTypes ==
  ASSUME EchoTypeOK, NEW c \in Clients
  PROVE  /\ lines[c] \in Nat /\ lines[c] * LineLen \in Nat
         /\ received[c] \in Seq(EBytes) /\ up[c] \in Seq(EBytes) /\ down[c] \in Seq(EBytes)
         /\ reqbuf[c] \in Seq(EBytes)
         /\ Length(received[c]) \in Nat /\ Length(up[c]) \in Nat /\ Length(down[c]) \in Nat
         /\ Length(reqbuf[c]) \in Nat /\ Waiting(c) \in Nat /\ Back(c) \in Nat
<1>1. /\ lines[c] \in Nat
      /\ received[c] \in Seq(EBytes) /\ up[c] \in Seq(EBytes) /\ down[c] \in Seq(EBytes)
      /\ reqbuf[c] \in Seq(EBytes)
  BY DEF EchoTypeOK
<1>2. /\ Length(received[c]) \in Nat /\ Length(up[c]) \in Nat /\ Length(down[c]) \in Nat
      /\ Length(reqbuf[c]) \in Nat
  BY <1>1, LengthType
<1>3. Waiting(c) \in Nat /\ Back(c) \in Nat
  BY <1>2 DEF Waiting, Back
<1>4. lines[c] * LineLen \in Nat
  BY <1>1, EchoParameters
<1> QED
  BY <1>1, <1>2, <1>3, <1>4

LEMMA FromNone == \A c, k : From(c, k, <<>>)
BY LengthOfNone DEF From

LEMMA FromPours ==
  ASSUME NEW c, NEW k \in Nat, NEW s, NEW r, NEW w, NEW x, NEW n \in 1..Length(s),
         Length(s) \in Nat, Length(w) \in Nat, Pours(s, n, r, w, x),
         From(c, k, w), From(c, k + Length(w), s)
  PROVE  From(c, k, x) /\ From(c, k + Length(x), r)
<1> DEFINE lw == Length(w)
           ls == Length(s)
           lx == Length(x)
           lr == Length(r)
<1>1. /\ lr = ls - n /\ lx = lw + n /\ lw \in Nat /\ ls \in Nat /\ n \in 1..ls /\ n \in Nat
      /\ \A i \in 1..lr : r[i] = s[i + n]
      /\ \A i \in 1..lw : x[i] = w[i] /\ w[i] = <<c, k + i>>
      /\ \A i \in 1..n : x[lw + i] = s[i]
      /\ \A i \in 1..ls : s[i] = <<c, k + lw + i>>
  BY DEF Pours, From
<1> HIDE DEF lw, ls, lx, lr
<1>2. ASSUME NEW i \in 1..lx
      PROVE  x[i] = <<c, k + i>>
  <2>1. CASE i <= lw
    BY <1>1, <1>2, <2>1
  <2>2. CASE i > lw
    <3> DEFINE j == i - lw
    <3>1. j \in 1..n /\ lw + j = i /\ k + lw + j = k + i /\ j \in 1..ls
      BY <1>1, <1>2, <2>2
    <3> HIDE DEF j
    <3>2. x[i] = s[j] /\ s[j] = <<c, k + lw + j>>
      BY <1>1, <3>1
    <3> QED
      BY <3>1, <3>2
  <2> QED
    BY <1>1, <1>2, <2>1, <2>2
<1>3. ASSUME NEW i \in 1..lr
      PROVE  r[i] = <<c, k + lx + i>>
  <2>1. i + n \in 1..ls /\ k + lw + (i + n) = k + lx + i
    BY <1>1, <1>3
  <2>2. r[i] = s[i + n] /\ s[i + n] = <<c, k + lw + (i + n)>>
    BY <1>1, <1>3, <2>1
  <2> QED
    BY <2>1, <2>2
<1> QED
  BY <1>2, <1>3 DEF From, lw, ls, lx, lr

\* The first n of s, and the others.
LEMMA Cutting ==
  ASSUME NEW B, NEW s \in Seq(B), NEW n \in 1..Len(s)
  PROVE  LET f == SubSeq(s, 1, n)
             r == SubSeq(s, n + 1, Len(s))
         IN  /\ f \in Seq(B) /\ r \in Seq(B) /\ Length(f) = n /\ Length(r) = Length(s) - n
             /\ n \in Nat /\ n <= Length(s)
             /\ \A c : \A k \in Nat : From(c, k, s) => From(c, k, f) /\ From(c, k + n, r)
<1> DEFINE f == SubSeq(s, 1, n)
           r == SubSeq(s, n + 1, Len(s))
<1>1. r \in Seq(B) /\ Len(r) = Len(s) - n /\ \A i \in 1..Len(r) : r[i] = s[i + n]
  OBVIOUS
<1>2. f \in Seq(B) /\ Len(f) = n /\ \A i \in 1..n : f[i] = s[i]
  OBVIOUS
<1> HIDE DEF f, r
<1>3. n \in Nat /\ n <= Len(s) /\ Len(s) \in Nat /\ n > 0
  OBVIOUS
<1>4. ASSUME NEW c, NEW k \in Nat, From(c, k, s)
      PROVE  From(c, k, f) /\ From(c, k + n, r)
  <2>1. \A i \in 1..Len(s) : s[i] = <<c, k + i>>
    BY <1>4 DEF From, Length
  <2>2. ASSUME NEW i \in 1..n
        PROVE  f[i] = <<c, k + i>>
    <3>1. i \in 1..Len(s)
      BY <1>3, <2>2
    <3> QED
      BY <1>2, <2>1, <3>1
  <2>3. ASSUME NEW i \in 1..Len(r)
        PROVE  r[i] = <<c, k + n + i>>
    <3>1. i + n \in 1..Len(s) /\ k + (i + n) = k + n + i
      BY <1>1, <1>3, <2>3
    <3> QED
      BY <1>1, <2>1, <3>1
  <2> QED
    BY <1>2, <2>2, <2>3 DEF From, Length
<1> QED
  BY <1>1, <1>2, <1>3, <1>4 DEF f, r, Length

LEMMA Joining ==
  ASSUME NEW B, NEW s \in Seq(B), NEW t \in Seq(B)
  PROVE  /\ s \o t \in Seq(B) /\ Length(s \o t) = Length(s) + Length(t)
         /\ \A c : \A k \in Nat : From(c, k, s) /\ From(c, k + Length(s), t) => From(c, k, s \o t)
<1> DEFINE x == s \o t
<1>1. /\ x \in Seq(B) /\ Len(x) = Len(s) + Len(t) /\ Len(s) \in Nat /\ Len(t) \in Nat
      /\ \A i \in 1..Len(s) : x[i] = s[i]
      /\ \A i \in 1..Len(t) : x[Len(s) + i] = t[i]
  OBVIOUS
<1> HIDE DEF x
<1>2. ASSUME NEW c, NEW k \in Nat, From(c, k, s), From(c, k + Length(s), t)
      PROVE  From(c, k, x)
  <2>1. /\ \A i \in 1..Len(s) : s[i] = <<c, k + i>>
        /\ \A i \in 1..Len(t) : t[i] = <<c, k + Len(s) + i>>
    BY <1>2 DEF From, Length
  <2>2. ASSUME NEW i \in 1..Len(x)
        PROVE  x[i] = <<c, k + i>>
    <3>1. CASE i <= Len(s)
      BY <1>1, <2>1, <2>2, <3>1
    <3>2. CASE i > Len(s)
      <4> DEFINE j == i - Len(s)
      <4>1. j \in 1..Len(t) /\ Len(s) + j = i /\ k + Len(s) + j = k + i
        BY <1>1, <2>2, <3>2
      <4> HIDE DEF j
      <4>2. x[i] = t[j] /\ t[j] = <<c, k + Len(s) + j>>
        BY <1>1, <2>1, <4>1
      <4> QED
        BY <4>1, <4>2
    <3> QED
      BY <1>1, <2>2, <3>1, <3>2
  <2> QED
    BY <2>2 DEF From, Length
<1> QED
  BY <1>1, <1>2 DEF x, Length

LEMMA LineIsNext ==
  ASSUME NEW c \in Clients, NEW n \in Nat
  PROVE  /\ E!Line(c, n + 1) \in Seq(EBytes) /\ Length(E!Line(c, n + 1)) = LineLen
         /\ From(c, n * LineLen, E!Line(c, n + 1))
<1>1. n * LineLen \in Nat /\ LineLen \in Nat /\ (n + 1) - 1 = n
  BY EchoParameters
<1> DEFINE l == [k \in 1..LineLen |-> <<c, n * LineLen + k>>]
<1>2. E!Line(c, n + 1) = l
  BY <1>1 DEF E!Line
<1>3. \A k \in 1..LineLen : n * LineLen + k \in Nat
  <2> DEFINE m == n * LineLen
  <2>1. m \in Nat
    BY <1>1
  <2> HIDE DEF m
  <2>2. \A k \in 1..LineLen : m + k \in Nat
    BY <1>1, <2>1
  <2> QED
    BY <2>2 DEF m
<1>4. l \in Seq(EBytes) /\ Len(l) = LineLen
  BY <1>1, <1>3 DEF EBytes
<1> QED
  BY <1>2, <1>4 DEF From, Length

\* Nothing happens to connection d.
Stays(d) ==
  /\ client'[d] = client[d] /\ lines'[d] = lines[d] /\ received'[d] = received[d]
  /\ up'[d] = up[d] /\ down'[d] = down[d] /\ here'[d] = here[d] /\ there'[d] = there[d]
  /\ (d \in gone' <=> d \in gone) /\ serve'[d] = serve[d] /\ reqbuf'[d] = reqbuf[d]

LEMMA StaysOK ==
  ASSUME NEW d, Stays(d), program' = program, ConnectionOK(d), Chain(d)
  PROVE  ConnectionOK(d)' /\ Chain(d)'
<1>1. ConnectionOK(d)'
  BY DEF Stays, ConnectionOK
<1>2. Back(d)' = Back(d) /\ Waiting(d)' = Waiting(d)
  BY DEF Stays, Back, Waiting
<1>3. Chain(d)'
  BY <1>2 DEF Stays, Chain, From
<1> QED
  BY <1>1, <1>3

\* A step of connection c alone.
LEMMA OneConnection ==
  ASSUME EchoInv, program' = program, NEW c \in Clients, \A d \in Clients \ {c} : Stays(d),
         EchoTypeOK', InTurn', ConnectionOK(c)', Chain(c)'
  PROVE  EchoInv'
<1>1. ASSUME NEW d \in Clients
      PROVE  ConnectionOK(d)' /\ Chain(d)'
  <2>1. CASE d = c
    BY <2>1
  <2>2. CASE d # c
    BY <2>2, StaysOK DEF EchoInv
  <2> QED
    BY <2>1, <2>2
<1> QED
  BY <1>1 DEF EchoInv

LEMMA EchoConnects ==
  ASSUME EchoInv, program' = program, NEW c \in Clients, E!Connect(c)
  PROVE  EchoInv'
<1> USE DEF EchoInv
<1>1. /\ client[c] = "connect"
      /\ client' = [client EXCEPT ![c] = "prompt"]
      /\ here' = [here EXCEPT ![c] = "open"]
      /\ there' = [there EXCEPT ![c] = "queued"]
      /\ UNCHANGED <<lines, received, up, down, gone, server, serve, reqbuf, event>>
  BY DEF E!Connect, E!serverVars, E!pollVars
<1>2. EchoTypeOK'
  BY <1>1 DEF EchoTypeOK
<1>3. /\ client'[c] = "prompt" /\ here'[c] = "open" /\ there'[c] = "queued"
      /\ \A d \in Clients \ {c} : client'[d] = client[d] /\ here'[d] = here[d] /\ there'[d] = there[d]
  BY <1>1 DEF EchoTypeOK
<1>4. InTurn'
  BY <1>1 DEF InTurn, Serving
<1>5. \A d \in Clients \ {c} : Stays(d)
  BY <1>1, <1>3 DEF Stays
<1>6. /\ here[c] = "none" /\ lines[c] = 0 /\ received[c] = <<>> /\ up[c] = <<>> /\ down[c] = <<>>
      /\ serve[c] # "write" /\ (program # "epoll" => serve[c] \in {"out", "ended"})
  BY <1>1 DEF ConnectionOK
<1>7. ConnectionOK(c)'
  BY <1>1, <1>3, <1>6 DEF ConnectionOK
<1>8. Chain(c)'
  <2>1. Back(c)' = 0 /\ Waiting(c)' = 0
    BY <1>1, <1>6, LengthOfNone DEF Back, Waiting
  <2>2. lines'[c] * LineLen = 0
    BY <1>1, <1>6, EchoParameters
  <2> QED
    BY <1>1, <1>6, <2>1, <2>2, FromNone, LengthOfNone DEF Chain
<1> QED
  BY <1>2, <1>4, <1>5, <1>7, <1>8, OneConnection

LEMMA EchoWritesLine ==
  ASSUME EchoInv, program' = program, NEW c \in Clients, E!WriteLine(c)
  PROVE  EchoInv'
<1> USE DEF EchoInv
<1> DEFINE n == lines[c]
           l == E!Line(c, n + 1)
<1>0. EchoTypeOK /\ n \in Nat /\ n + 1 \in Nat
  BY EchoTypes
<1>1. /\ client[c] = "prompt"
      /\ client' = [client EXCEPT ![c] = "read"]
      /\ lines' = [lines EXCEPT ![c] = n + 1]
      /\ IF there[c] \in {"queued", "open"} /\ c \notin gone
         THEN up' = [up EXCEPT ![c] = @ \o E!Line(c, lines'[c])] /\ UNCHANGED gone
         ELSE gone' = gone \cup {c} /\ UNCHANGED up
      /\ UNCHANGED <<received, down, here, there, server, serve, reqbuf, event>>
  BY DEF E!WriteLine
<1> HIDE DEF n
<1>2. /\ client' \in [Clients -> {"connect", "prompt", "read", "close", "done"}]
      /\ client'[c] = "read" /\ \A d \in Clients \ {c} : client'[d] = client[d]
  BY <1>1 DEF EchoTypeOK
<1>3. /\ lines' \in [Clients -> Nat] /\ lines'[c] = n + 1
      /\ \A d \in Clients \ {c} : lines'[d] = lines[d]
  BY <1>0, <1>1 DEF EchoTypeOK
<1>4. /\ received[c] \in Seq(EBytes) /\ up[c] \in Seq(EBytes)
      /\ Back(c) \in Nat /\ Waiting(c) \in Nat /\ Length(up[c]) \in Nat /\ n * LineLen \in Nat
  BY EchoTypes DEF n
<1>5. l \in Seq(EBytes) /\ Length(l) = LineLen /\ From(c, n * LineLen, l)
  BY <1>0, LineIsNext
<1> HIDE DEF l
<1>6. here[c] = "open"
  BY <1>1 DEF ConnectionOK
<1>7. Back(c)' = Back(c) /\ Waiting(c)' = Waiting(c)
  BY <1>1 DEF Back, Waiting
<1>8. (n + 1) * LineLen = n * LineLen + LineLen /\ LineLen \in Nat
  BY <1>0, EchoParameters
<1>9. InTurn'
  BY <1>1 DEF InTurn, Serving
<1>10. CASE there[c] \in {"queued", "open"} /\ c \notin gone
  <2>1. up' = [up EXCEPT ![c] = up[c] \o l] /\ UNCHANGED gone
    BY <1>1, <1>3, <1>10 DEF l
  <2> DEFINE x == up[c] \o l
  <2>2. /\ x \in Seq(EBytes) /\ Length(x) = Length(up[c]) + LineLen
        /\ \A k \in Nat : From(c, k, up[c]) /\ From(c, k + Length(up[c]), l) => From(c, k, x)
    BY <1>4, <1>5, Joining
  <2> HIDE DEF x
  <2>3. /\ up' \in [Clients -> Seq(EBytes)] /\ up'[c] = x
        /\ \A d \in Clients \ {c} : up'[d] = up[d]
    BY <2>1, <2>2 DEF EchoTypeOK, x
  <2>4. EchoTypeOK'
    BY <1>1, <1>2, <1>3, <2>1, <2>3 DEF EchoTypeOK
  <2>5. \A d \in Clients \ {c} : Stays(d)
    BY <1>1, <1>2, <1>3, <2>1, <2>3 DEF Stays
  <2>6. ConnectionOK(c)'
    BY <1>1, <1>2, <1>3, <1>6, <1>10, <2>1 DEF ConnectionOK
  <2>7. Chain(c)'
    <3>1. /\ From(c, Back(c) + Waiting(c), up[c])
          /\ Back(c) + Waiting(c) + Length(up[c]) = n * LineLen
          /\ serve[c] = "write" => From(c, Back(c), reqbuf[c])
          /\ From(c, 0, received[c]) /\ From(c, Length(received[c]), down[c])
          /\ Back(c) <= n * LineLen
      BY <1>6, <1>10 DEF Chain, n
    <3>2. From(c, Back(c) + Waiting(c), x)
      <4>1. Back(c) + Waiting(c) \in Nat
        BY <1>4
      <4> QED
        BY <1>5, <2>2, <3>1, <4>1
    <3>3. Back(c) + Waiting(c) + Length(x) = lines'[c] * LineLen /\ Back(c) <= lines'[c] * LineLen
      BY <1>3, <1>4, <1>8, <2>2, <3>1
    <3> QED
      BY <1>1, <1>7, <2>3, <3>1, <3>2, <3>3 DEF Chain, From
  <2> QED
    BY <1>9, <2>4, <2>5, <2>6, <2>7, OneConnection
<1>11. CASE ~(there[c] \in {"queued", "open"} /\ c \notin gone)
  <2>1. gone' = gone \cup {c} /\ UNCHANGED up
    BY <1>1, <1>11
  <2>2. EchoTypeOK'
    BY <1>1, <1>2, <1>3, <2>1 DEF EchoTypeOK
  <2>3. \A d \in Clients \ {c} : Stays(d)
    BY <1>1, <1>2, <1>3, <2>1 DEF Stays
  <2>4. ConnectionOK(c)'
    BY <1>1, <1>2, <1>3, <1>6, <2>1 DEF ConnectionOK
  <2>5. Chain(c)'
    <3>1. /\ From(c, 0, received[c]) /\ From(c, Length(received[c]), down[c])
          /\ Back(c) <= n * LineLen
      BY DEF Chain, n
    <3>2. Back(c) <= lines'[c] * LineLen
      BY <1>3, <1>4, <1>8, <3>1
    <3> QED
      BY <1>1, <1>7, <2>1, <3>1, <3>2 DEF Chain, From
  <2> QED
    BY <1>9, <2>2, <2>3, <2>4, <2>5, OneConnection
<1> QED
  BY <1>10, <1>11

LEMMA EchoReads ==
  ASSUME EchoInv, program' = program, NEW c \in Clients, E!ReadReply(c)
  PROVE  EchoInv'
<1> USE DEF EchoInv
<1> DEFINE to == IF program = "echo" THEN "prompt" ELSE "close"
<1>1. PICK n \in 1..Len(down[c]) :
        /\ client[c] = "read"
        /\ client' = [client EXCEPT ![c] = to]
        /\ received' = [received EXCEPT ![c] = @ \o SubSeq(down[c], 1, n)]
        /\ down' = [down EXCEPT ![c] = SubSeq(@, n + 1, Len(@))]
        /\ UNCHANGED <<lines, up, here, there, gone, server, serve, reqbuf, event>>
  BY DEF E!ReadReply, E!serverVars, E!pollVars
<1>2. to \in {"prompt", "close"}
  OBVIOUS
<1> HIDE DEF to
<1> DEFINE s == down[c]
           w == received[c]
           r == SubSeq(s, n + 1, Len(s))
           x == w \o SubSeq(s, 1, n)
<1>3. EchoTypeOK /\ s \in Seq(EBytes) /\ w \in Seq(EBytes) /\ Length(s) = Len(s)
  BY EchoTypes, LengthType
<1>4. r \in Seq(EBytes) /\ x \in Seq(EBytes) /\ Pours(s, n, r, w, x)
  BY <1>1, <1>3, Pouring
<1>5. down' = [down EXCEPT ![c] = r] /\ received' = [received EXCEPT ![c] = x]
  BY <1>1
<1> HIDE DEF r, x
<1>6. /\ client' \in [Clients -> {"connect", "prompt", "read", "close", "done"}]
      /\ client'[c] = to /\ \A d \in Clients \ {c} : client'[d] = client[d]
  BY <1>1, <1>2 DEF EchoTypeOK
<1>7. /\ down' \in [Clients -> Seq(EBytes)] /\ down'[c] = r
      /\ \A d \in Clients \ {c} : down'[d] = down[d]
  BY <1>3, <1>4, <1>5 DEF EchoTypeOK
<1>8. /\ received' \in [Clients -> Seq(EBytes)] /\ received'[c] = x
      /\ \A d \in Clients \ {c} : received'[d] = received[d]
  BY <1>3, <1>4, <1>5 DEF EchoTypeOK
<1>9. EchoTypeOK'
  BY <1>1, <1>6, <1>7, <1>8 DEF EchoTypeOK
<1>10. InTurn'
  BY <1>1 DEF InTurn, Serving
<1>11. \A d \in Clients \ {c} : Stays(d)
  BY <1>1, <1>6, <1>7, <1>8 DEF Stays
<1>12. here[c] = "open" /\ ConnectionOK(c)'
  BY <1>1, <1>2, <1>6 DEF ConnectionOK
<1>13. Length(s) \in Nat /\ Length(w) \in Nat
  BY <1>3, LengthType
<1>14. From(c, 0, x) /\ From(c, Length(x), r)
  <2>1. From(c, 0, w) /\ From(c, 0 + Length(w), s)
    BY <1>13 DEF Chain
  <2>2. From(c, 0, x) /\ From(c, 0 + Length(x), r)
    <3>1. n \in 1..Length(s)
      BY <1>3
    <3> HIDE DEF s, w
    <3> QED
      BY <1>4, <1>13, <2>1, <3>1, FromPours
  <2>3. Length(x) \in Nat
    BY <1>4, LengthType
  <2> QED
    BY <2>2, <2>3
<1>15. Back(c)' = Back(c)
  <2>1. Length(x) + Length(r) = Length(w) + Length(s)
    <3>1. n \in Int
      BY <1>3
    <3>2. Length(r) + Length(x) = Length(s) + Length(w)
      <4> HIDE DEF s, w
      <4> QED
        BY <1>3, <1>4, <3>1, PouringKeeps
    <3>3. Length(x) \in Nat /\ Length(r) \in Nat
      BY <1>4, LengthType
    <3> QED
      BY <1>13, <3>2, <3>3
  <2> QED
    BY <1>7, <1>8, <2>1 DEF Back
<1>16. Chain(c)'
  BY <1>1, <1>7, <1>8, <1>12, <1>14, <1>15 DEF Chain, Waiting
<1> QED
  BY <1>9, <1>10, <1>11, <1>12, <1>16, OneConnection

\* The client's end of c is closed, and what it has not read is gone.
LEMMA LeavingOK ==
  ASSUME EchoInv, program' = program, EchoTypeOK', NEW c \in Clients,
         client'[c] = "done", here[c] # "none" => here'[c] = "closed",
         here[c] = "none" => here'[c] = "none",
         down'[c] = <<>>, c \in gone => c \in gone',
         lines'[c] = lines[c], received'[c] = received[c], up'[c] = up[c],
         there'[c] = there[c], serve'[c] = serve[c], reqbuf'[c] = reqbuf[c]
  PROVE  ConnectionOK(c)' /\ Chain(c)'
<1>1. EchoTypeOK /\ ConnectionOK(c) /\ Chain(c)
  BY DEF EchoInv
<1>2. ConnectionOK(c)'
  BY <1>1 DEF ConnectionOK
<1>3. Back(c)' <= Back(c) /\ Back(c)' \in Nat /\ Back(c) \in Nat
  <2>1. Length(received[c]) \in Nat /\ Length(down[c]) \in Nat
    BY <1>1, EchoTypes
  <2> QED
    BY <2>1, LengthOfNone DEF Back
<1>4. here'[c] # "open"
  OBVIOUS
<1>5. Chain(c)'
  <2>1. Back(c) <= lines[c] * LineLen /\ lines[c] * LineLen \in Nat
    BY <1>1, EchoTypes DEF Chain
  <2>2. Back(c)' <= lines'[c] * LineLen
    BY <1>3, <2>1
  <2>3. From(c, 0, received'[c]) /\ From(c, Length(received'[c]), down'[c])
    BY <1>1, FromNone DEF Chain
  <2> QED
    BY <1>4, <2>2, <2>3 DEF Chain
<1> QED
  BY <1>2, <1>5

LEMMA EchoLeaves ==
  ASSUME EchoInv, program' = program, NEW c \in Clients, E!ClientLeaves(c)
  PROVE  EchoInv'
<1>0. EchoTypeOK /\ InTurn
  BY DEF EchoInv
<1>1. /\ client[c] \in {"prompt", "close", "read"}
      /\ client' = [client EXCEPT ![c] = "done"]
      /\ here' = [here EXCEPT ![c] = "closed"]
      /\ gone' = (IF down[c] # <<>> THEN gone \cup {c} ELSE gone)
      /\ down' = [down EXCEPT ![c] = <<>>]
      /\ UNCHANGED <<received, lines, up, there, server, serve, reqbuf, event>>
  BY DEF E!ClientLeaves, E!Leave
<1>2. <<>> \in Seq(EBytes)
  OBVIOUS
<1>3. /\ client'[c] = "done" /\ here'[c] = "closed" /\ down'[c] = <<>>
      /\ \A d \in Clients \ {c} : client'[d] = client[d] /\ here'[d] = here[d] /\ down'[d] = down[d]
  BY <1>0, <1>1 DEF EchoTypeOK
<1>4. gone' \in SUBSET Clients /\ (c \in gone => c \in gone') /\ \A d \in Clients \ {c} : d \in gone' <=> d \in gone
  BY <1>0, <1>1 DEF EchoTypeOK
<1>5. EchoTypeOK'
  BY <1>0, <1>1, <1>2, <1>4 DEF EchoTypeOK
<1>6. InTurn'
  BY <1>0, <1>1 DEF InTurn, Serving
<1>7. \A d \in Clients \ {c} : Stays(d)
  BY <1>1, <1>3, <1>4 DEF Stays
<1>8. here[c] = "open"
  BY <1>1 DEF EchoInv, ConnectionOK
<1>9. ConnectionOK(c)' /\ Chain(c)'
  BY <1>1, <1>3, <1>4, <1>5, <1>8, LeavingOK
<1> QED
  BY <1>5, <1>6, <1>7, <1>9, OneConnection

LEMMA EchoGivesUp ==
  ASSUME EchoInv, program' = program, E!GiveUp \/ E!ClientKilled
  PROVE  EchoInv'
<1>0. EchoTypeOK /\ InTurn
  BY DEF EchoInv
<1>1. PICK e \in Clients :
        LET leaving == IF program = "echo" THEN {e} ELSE Clients IN
        /\ client' = [d \in Clients |-> IF d \in leaving THEN "done" ELSE client[d]]
        /\ here' = [d \in Clients |-> IF d \in leaving /\ here[d] = "open" THEN "closed" ELSE here[d]]
        /\ gone' = gone \cup {d \in leaving : down[d] # <<>>}
        /\ down' = [d \in Clients |-> IF d \in leaving THEN <<>> ELSE down[d]]
        /\ UNCHANGED <<lines, received, up, there, server, serve, reqbuf, event>>
  BY DEF E!GiveUp, E!ClientKilled, E!ProcessEnds
<1> DEFINE leaving == IF program = "echo" THEN {e} ELSE Clients
<1>2. leaving \in SUBSET Clients
  OBVIOUS
<1>3. /\ client' = [d \in Clients |-> IF d \in leaving THEN "done" ELSE client[d]]
      /\ here' = [d \in Clients |-> IF d \in leaving /\ here[d] = "open" THEN "closed" ELSE here[d]]
      /\ gone' = gone \cup {d \in leaving : down[d] # <<>>}
      /\ down' = [d \in Clients |-> IF d \in leaving THEN <<>> ELSE down[d]]
  BY <1>1
<1> HIDE DEF leaving
<1>4. <<>> \in Seq(EBytes)
  OBVIOUS
<1>5. EchoTypeOK'
  <2>1. client' \in [Clients -> {"connect", "prompt", "read", "close", "done"}]
    BY <1>0, <1>3 DEF EchoTypeOK
  <2>2. here' \in [Clients -> {"none", "open", "closed"}]
    BY <1>0, <1>3 DEF EchoTypeOK
  <2>3. down' \in [Clients -> Seq(EBytes)]
    BY <1>0, <1>3, <1>4 DEF EchoTypeOK
  <2>4. gone' \in SUBSET Clients
    BY <1>0, <1>2, <1>3 DEF EchoTypeOK
  <2> QED
    BY <1>0, <1>1, <2>1, <2>2, <2>3, <2>4 DEF EchoTypeOK
<1>6. InTurn'
  BY <1>0, <1>1 DEF InTurn, Serving
<1>7. ASSUME NEW d \in Clients
      PROVE  ConnectionOK(d)' /\ Chain(d)'
  <2>1. CASE d \in leaving
    <3>1. here[d] \in {"none", "open", "closed"}
      BY <1>0 DEF EchoTypeOK
    <3>2. /\ client'[d] = "done" /\ down'[d] = <<>> /\ (d \in gone => d \in gone')
          /\ here'[d] = IF here[d] = "open" THEN "closed" ELSE here[d]
      BY <1>3, <1>7, <2>1
    <3> QED
      BY <1>1, <1>5, <1>7, <3>1, <3>2, LeavingOK
  <2>2. CASE d \notin leaving
    <3>1. Stays(d)
      BY <1>1, <1>3, <1>7, <2>2 DEF Stays
    <3> QED
      BY <1>7, <3>1, StaysOK DEF EchoInv
  <2> QED
    BY <2>1, <2>2
<1> QED
  BY <1>5, <1>6, <1>7 DEF EchoInv

\* A step of the server that leaves the connections and what they are about alone.
LEMMA TurnOnly ==
  ASSUME EchoInv, program' = program, InTurn',
         UNCHANGED <<client, lines, received, up, down, here, there, gone, serve, reqbuf>>
  PROVE  EchoInv'
<1>1. EchoTypeOK'
  BY DEF EchoInv, EchoTypeOK
<1>2. \A d \in Clients : ConnectionOK(d)' /\ Chain(d)'
  <2>1. \A d \in Clients : Stays(d)
    BY DEF Stays
  <2> QED
    BY <2>1, StaysOK DEF EchoInv
<1> QED
  BY <1>1, <1>2 DEF EchoInv

\* What has come back stays in order whatever happens to the connection.
LEMMA BrokenChain ==
  ASSUME NEW c, Chain(c), UNCHANGED <<received, down, lines>>,
         here'[c] # "open" \/ c \in gone' \/ there'[c] = "closed"
  PROVE  Chain(c)'
<1>1. Back(c)' = Back(c)
  BY DEF Back
<1>2. /\ From(c, 0, received'[c]) /\ From(c, Length(received'[c]), down'[c])
      /\ Back(c)' <= lines'[c] * LineLen
  BY <1>1 DEF Chain
<1> QED
  BY <1>2 DEF Chain

LEMMA ServerEndsOK ==
  ASSUME EchoInv, program' = program, E!ServerEnds
  PROVE  EchoInv'
<1>0. EchoTypeOK /\ InTurn
  BY DEF EchoInv
<1>1. /\ gone' = gone \cup {c \in Clients : there[c] = "queued" \/ (there[c] = "open" /\ up[c] # <<>>)}
      /\ there' = [c \in Clients |-> IF there[c] = "none" THEN "none" ELSE "closed"]
      /\ serve' = [c \in Clients |-> "ended"]
      /\ UNCHANGED <<client, lines, received, up, down, here, reqbuf>>
  BY DEF E!ServerEnds, E!clientVars
<1>2. EchoTypeOK'
  BY <1>0, <1>1 DEF EchoTypeOK
<1>3. InTurn'
  BY <1>1 DEF InTurn, Serving
<1>4. ASSUME NEW c \in Clients
      PROVE  ConnectionOK(c)' /\ Chain(c)'
  <2>1. /\ ConnectionOK(c) /\ Chain(c)
        /\ there[c] \in {"none", "queued", "open", "closed"}
    BY <1>0 DEF EchoInv, EchoTypeOK
  <2>2. /\ serve'[c] = "ended"
        /\ there[c] = "none" => there'[c] = "none"
        /\ there[c] # "none" => there'[c] = "closed"
        /\ c \in gone => c \in gone'
        /\ there[c] = "queued" \/ (there[c] = "open" /\ up[c] # <<>>) => c \in gone'
    BY <1>1
  <2>3. ConnectionOK(c)'
    BY <1>1, <2>1, <2>2 DEF ConnectionOK
  <2>4. here'[c] # "open" \/ c \in gone' \/ there'[c] = "closed"
    BY <1>1, <2>1, <2>2 DEF ConnectionOK
  <2>5. Chain(c)'
    BY <1>1, <2>1, <2>4, BrokenChain
  <2> QED
    BY <2>3, <2>5
<1> QED
  BY <1>2, <1>3, <1>4 DEF EchoInv

States == {"out", "read", "write", "close", "thread", "add", "watched", "ended"}

\* The turn passes from nobody to nobody, or stays with c.
LEMMA TurnStays ==
  ASSUME EchoTypeOK, InTurn, program' = program, NEW c \in Clients, NEW x, Serving(c),
         serve' = [serve EXCEPT ![c] = x], UNCHANGED <<server, event>>
  PROVE  InTurn'
<1>1. \A d \in Clients \ {c} : serve'[d] = serve[d]
  BY DEF EchoTypeOK
<1> QED
  BY <1>1 DEF InTurn, Serving

LEMMA NobodysTurn ==
  ASSUME EchoTypeOK, InTurn, program' = program, NEW c \in Clients, NEW x,
         program = "epoll" => server # "serve" /\ x \notin {"read", "write", "close"},
         serve' = [serve EXCEPT ![c] = x]
  PROVE  InTurn'
<1>1. serve'[c] = x /\ \A d \in Clients \ {c} : serve'[d] = serve[d]
  BY DEF EchoTypeOK
<1> QED
  BY <1>1 DEF InTurn, Serving

\* Only where the serving of c is changes.
LEMMA ServeOnly ==
  ASSUME EchoInv, program' = program, NEW c \in Clients, NEW x \in States, InTurn',
         serve' = [serve EXCEPT ![c] = x], serve[c] # "write", x # "write",
         program # "epoll" => serve[c] \notin {"out", "ended"},
         UNCHANGED <<client, lines, received, up, down, here, there, gone, reqbuf>>
  PROVE  EchoInv'
<1>0. EchoTypeOK /\ ConnectionOK(c) /\ Chain(c)
  BY DEF EchoInv
<1>1. serve'[c] = x /\ \A d \in Clients \ {c} : serve'[d] = serve[d]
  BY <1>0 DEF EchoTypeOK
<1>2. EchoTypeOK'
  BY <1>0 DEF EchoTypeOK, States
<1>3. \A d \in Clients \ {c} : Stays(d)
  BY <1>1 DEF Stays
<1>4. ConnectionOK(c)'
  BY <1>0, <1>1 DEF ConnectionOK
<1>5. Chain(c)'
  <2>1. Back(c)' = Back(c) /\ Waiting(c)' = Waiting(c)
    BY <1>1 DEF Back, Waiting
  <2>2. /\ From(c, 0, received'[c]) /\ From(c, Length(received'[c]), down'[c])
        /\ Back(c)' <= lines'[c] * LineLen
    BY <1>0, <2>1 DEF Chain
  <2>3. here'[c] = "open" /\ c \notin gone' /\ there'[c] # "closed" =>
          /\ From(c, Back(c)' + Waiting(c)', up'[c])
          /\ Back(c)' + Waiting(c)' + Length(up'[c]) = lines'[c] * LineLen
    BY <1>0, <2>1 DEF Chain
  <2> QED
    BY <1>1, <2>2, <2>3 DEF Chain
<1> QED
  BY <1>2, <1>3, <1>4, <1>5, OneConnection

LEMMA EchoAccepts ==
  ASSUME EchoInv, program' = program, NEW c \in Clients, NEW next, NEW x \in States, InTurn',
         E!Accept(c, next), serve' = [serve EXCEPT ![c] = x], serve[c] # "write", x # "write",
         reqbuf' = reqbuf
  PROVE  EchoInv'
<1>0. EchoTypeOK /\ ConnectionOK(c) /\ Chain(c)
  BY DEF EchoInv
<1>1. serve'[c] = x /\ \A d \in Clients \ {c} : serve'[d] = serve[d]
  BY <1>0 DEF EchoTypeOK
<1>2. /\ there[c] = "queued" /\ there' = [there EXCEPT ![c] = "open"]
      /\ UNCHANGED <<client, lines, received, up, down, here, gone>>
  BY DEF E!Accept, E!clientVars
<1>3. there'[c] = "open" /\ \A d \in Clients \ {c} : there'[d] = there[d]
  BY <1>0, <1>2 DEF EchoTypeOK
<1>4. EchoTypeOK'
  BY <1>0, <1>2 DEF EchoTypeOK, States
<1>5. \A d \in Clients \ {c} : Stays(d)
  BY <1>1, <1>2, <1>3 DEF Stays
<1>6. ConnectionOK(c)'
  BY <1>0, <1>1, <1>2, <1>3 DEF ConnectionOK
<1>7. Chain(c)'
  <2>1. Back(c)' = Back(c) /\ Waiting(c)' = Waiting(c)
    BY <1>1, <1>2 DEF Back, Waiting
  <2>2. /\ From(c, 0, received'[c]) /\ From(c, Length(received'[c]), down'[c])
        /\ Back(c)' <= lines'[c] * LineLen
    BY <1>0, <1>2, <2>1 DEF Chain
  <2>3. here'[c] = "open" /\ c \notin gone' /\ there'[c] # "closed" =>
          /\ From(c, Back(c)' + Waiting(c)', up'[c])
          /\ Back(c)' + Waiting(c)' + Length(up'[c]) = lines'[c] * LineLen
    BY <1>0, <1>2, <2>1 DEF Chain
  <2> QED
    BY <1>1, <2>2, <2>3 DEF Chain
<1> QED
  BY <1>4, <1>5, <1>6, <1>7, OneConnection

LEMMA EchoReadsRequest ==
  ASSUME EchoInv, program' = program, NEW c \in Clients, E!ServerRead(c)
  PROVE  EchoInv'
<1>0. EchoTypeOK /\ InTurn /\ ConnectionOK(c) /\ Chain(c)
  BY DEF EchoInv
<1> DEFINE s == up[c]
<1>1. PICK n \in 1..Len(s) :
        /\ serve[c] = "read"
        /\ serve' = [serve EXCEPT ![c] = "write"]
        /\ reqbuf' = [reqbuf EXCEPT ![c] = SubSeq(s, 1, n)]
        /\ up' = [up EXCEPT ![c] = SubSeq(s, n + 1, Len(s))]
        /\ UNCHANGED <<client, lines, received, down, here, there, gone, server, event>>
  BY DEF E!ServerRead, E!ReadInto, E!clientVars, E!pollVars
<1> DEFINE f == SubSeq(s, 1, n)
           r == SubSeq(s, n + 1, Len(s))
<1>2. s \in Seq(EBytes)
  BY <1>0, EchoTypes
<1>3. /\ f \in Seq(EBytes) /\ r \in Seq(EBytes) /\ Length(f) = n /\ Length(r) = Length(s) - n
      /\ n \in Nat /\ n <= Length(s)
      /\ \A k \in Nat : From(c, k, s) => From(c, k, f) /\ From(c, k + n, r)
  <2> HIDE DEF s
  <2> QED
    BY <1>1, <1>2, Cutting
<1>4. s # <<>>
  <2>1. Len(<<>>) = 0
    OBVIOUS
  <2> QED
    BY <1>1, <2>1
<1>5. reqbuf' = [reqbuf EXCEPT ![c] = f] /\ up' = [up EXCEPT ![c] = r]
  BY <1>1
<1> HIDE DEF f, r
<1>6. /\ reqbuf' \in [Clients -> Seq(EBytes)] /\ reqbuf'[c] = f
      /\ \A d \in Clients \ {c} : reqbuf'[d] = reqbuf[d]
  BY <1>0, <1>3, <1>5 DEF EchoTypeOK
<1>7. /\ up' \in [Clients -> Seq(EBytes)] /\ up'[c] = r
      /\ \A d \in Clients \ {c} : up'[d] = up[d]
  BY <1>0, <1>3, <1>5 DEF EchoTypeOK
<1>8. serve'[c] = "write" /\ \A d \in Clients \ {c} : serve'[d] = serve[d]
  BY <1>0, <1>1 DEF EchoTypeOK
<1>9. EchoTypeOK'
  BY <1>0, <1>1, <1>6, <1>7 DEF EchoTypeOK
<1>10. InTurn'
  <2>1. Serving(c)
    BY <1>1 DEF Serving
  <2>2. UNCHANGED <<server, event>>
    BY <1>1
  <2> QED
    BY <1>0, <1>1, <2>1, <2>2, TurnStays
<1>11. \A d \in Clients \ {c} : Stays(d)
  BY <1>1, <1>6, <1>7, <1>8 DEF Stays
<1>12. here[c] # "none" /\ ~(there[c] = "closed" /\ c \notin gone)
  BY <1>0, <1>4 DEF ConnectionOK
<1>13. ConnectionOK(c)'
  BY <1>0, <1>1, <1>12 DEF ConnectionOK
<1>14. Chain(c)'
  <2>1. Back(c)' = Back(c) /\ Waiting(c)' = n /\ Waiting(c) = 0 /\ Back(c) \in Nat
    <3>1. Back(c)' = Back(c)
      BY <1>1 DEF Back
    <3>2. Waiting(c)' = n /\ Waiting(c) = 0
      BY <1>1, <1>3, <1>6, <1>8 DEF Waiting
    <3> QED
      BY <1>0, <3>1, <3>2, EchoTypes
  <2>2. /\ From(c, 0, received'[c]) /\ From(c, Length(received'[c]), down'[c])
        /\ Back(c)' <= lines'[c] * LineLen
    BY <1>0, <1>1, <2>1 DEF Chain
  <2>3. ASSUME here'[c] = "open", c \notin gone', there'[c] # "closed"
        PROVE  /\ From(c, Back(c)', reqbuf'[c])
               /\ From(c, Back(c)' + Waiting(c)', up'[c])
               /\ Back(c)' + Waiting(c)' + Length(up'[c]) = lines'[c] * LineLen
    <3>1. From(c, Back(c) + 0, s) /\ Back(c) + 0 + Length(s) = lines[c] * LineLen
      BY <1>0, <1>1, <2>1, <2>3 DEF Chain
    <3>2. From(c, Back(c), s) /\ Back(c) + Length(s) = lines[c] * LineLen /\ Length(s) \in Nat
      BY <1>0, <2>1, <3>1, EchoTypes
    <3>3. From(c, Back(c), f) /\ From(c, Back(c) + n, r)
      BY <1>3, <2>1, <3>2
    <3>4. Back(c) + n + Length(r) = lines[c] * LineLen
      <4> HIDE DEF s
      <4> QED
        BY <1>3, <2>1, <3>2
    <3> QED
      BY <1>1, <1>6, <1>7, <2>1, <3>3, <3>4
  <2> QED
    BY <2>2, <2>3 DEF Chain
<1> QED
  BY <1>9, <1>10, <1>11, <1>13, <1>14, OneConnection

LEMMA EchoSendsBack ==
  ASSUME EchoInv, program' = program, NEW c \in Clients, E!ServerWrite(c)
  PROVE  EchoInv'
<1>0. EchoTypeOK /\ InTurn /\ ConnectionOK(c) /\ Chain(c)
  BY DEF EchoInv
<1> DEFINE to == IF program = "echo" /\ c \notin gone THEN "read" ELSE "close"
<1>1. /\ serve[c] = "write" /\ serve' = [serve EXCEPT ![c] = to]
      /\ UNCHANGED <<client, lines, received, up, here, there, server, reqbuf, event>>
  BY DEF E!ServerWrite, E!clientVars, E!pollVars
<1>2. to \in {"read", "close"}
  OBVIOUS
<1> HIDE DEF to
<1>3. serve'[c] = to /\ \A d \in Clients \ {c} : serve'[d] = serve[d]
  BY <1>0, <1>1 DEF EchoTypeOK
<1>4. serve' \in [Clients -> {"out", "read", "write", "close", "thread", "add", "watched", "ended"}]
  BY <1>0, <1>1, <1>2 DEF EchoTypeOK
<1>5. InTurn'
  <2>1. Serving(c)
    BY <1>1 DEF Serving
  <2>2. UNCHANGED <<server, event>>
    BY <1>1
  <2> QED
    BY <1>0, <1>1, <2>1, <2>2, TurnStays
<1>6. CASE here[c] = "open" /\ c \notin gone
  <2>1. down' = [down EXCEPT ![c] = down[c] \o reqbuf[c]] /\ gone' = gone
    BY <1>6 DEF E!ServerWrite
  <2>2. down[c] \in Seq(EBytes) /\ reqbuf[c] \in Seq(EBytes)
    BY <1>0, EchoTypes
  <2> DEFINE x == down[c] \o reqbuf[c]
  <2>3. /\ x \in Seq(EBytes) /\ Length(x) = Length(down[c]) + Length(reqbuf[c])
        /\ \A k \in Nat : From(c, k, down[c]) /\ From(c, k + Length(down[c]), reqbuf[c]) => From(c, k, x)
    BY <2>2, Joining
  <2> HIDE DEF x
  <2>4. /\ down' \in [Clients -> Seq(EBytes)] /\ down'[c] = x
        /\ \A d \in Clients \ {c} : down'[d] = down[d]
    BY <1>0, <2>1, <2>3 DEF EchoTypeOK, x
  <2>5. EchoTypeOK'
    BY <1>0, <1>1, <1>4, <2>1, <2>4 DEF EchoTypeOK
  <2>6. \A d \in Clients \ {c} : Stays(d)
    BY <1>1, <1>3, <2>1, <2>4 DEF Stays
  <2>7. there[c] # "closed" /\ ConnectionOK(c)'
    BY <1>0, <1>1, <1>2, <1>3, <1>6, <2>1 DEF ConnectionOK
  <2>8. /\ From(c, Back(c), reqbuf[c]) /\ From(c, Back(c) + Waiting(c), up[c])
        /\ Back(c) + Waiting(c) + Length(up[c]) = lines[c] * LineLen
        /\ From(c, 0, received[c]) /\ From(c, Length(received[c]), down[c])
    BY <1>0, <1>1, <1>6, <2>7 DEF Chain
  <2>9. /\ Length(received[c]) \in Nat /\ Length(down[c]) \in Nat /\ Length(reqbuf[c]) \in Nat
        /\ Length(up[c]) \in Nat /\ lines[c] * LineLen \in Nat
        /\ Back(c) = Length(received[c]) + Length(down[c]) /\ Waiting(c) = Length(reqbuf[c])
    BY <1>0, <1>1, EchoTypes DEF Back, Waiting
  <2>10. Back(c)' = Back(c) + Waiting(c) /\ Waiting(c)' = 0
    <3>1. Back(c)' = Length(received[c]) + Length(x)
      BY <1>1, <2>4 DEF Back
    <3>2. Waiting(c)' = 0
      BY <1>2, <1>3 DEF Waiting
    <3> QED
      BY <2>3, <2>9, <3>1, <3>2
  <2>11. From(c, Length(received[c]), x)
    BY <2>3, <2>8, <2>9
  <2>12. /\ Back(c)' <= lines[c] * LineLen /\ Back(c)' + Waiting(c)' = Back(c) + Waiting(c)
         /\ Back(c)' + Waiting(c)' + Length(up[c]) = lines[c] * LineLen
    <3>1. Back(c) \in Nat /\ Waiting(c) \in Nat
      BY <1>0, EchoTypes
    <3> QED
      BY <2>8, <2>9, <2>10, <3>1
  <2>13. Chain(c)'
    <3>1. /\ From(c, 0, received'[c]) /\ From(c, Length(received'[c]), down'[c])
          /\ Back(c)' <= lines'[c] * LineLen
      BY <1>1, <2>4, <2>8, <2>11, <2>12
    <3>2. /\ serve'[c] # "write" /\ From(c, Back(c)' + Waiting(c)', up'[c])
          /\ Back(c)' + Waiting(c)' + Length(up'[c]) = lines'[c] * LineLen
      BY <1>1, <1>2, <1>3, <2>8, <2>12
    <3> QED
      BY <3>1, <3>2 DEF Chain
  <2> QED
    BY <1>5, <2>5, <2>6, <2>7, <2>13, OneConnection
<1>7. CASE ~(here[c] = "open" /\ c \notin gone)
  <2>1. gone' = gone \cup {c} /\ down' = down
    BY <1>7 DEF E!ServerWrite
  <2>2. EchoTypeOK'
    BY <1>0, <1>1, <1>4, <2>1 DEF EchoTypeOK
  <2>3. \A d \in Clients \ {c} : Stays(d)
    BY <1>1, <1>3, <2>1 DEF Stays
  <2>4. ConnectionOK(c)'
    BY <1>0, <1>1, <1>2, <1>3, <2>1 DEF ConnectionOK
  <2>5. Chain(c)'
    BY <1>0, <1>1, <2>1, BrokenChain
  <2> QED
    BY <1>5, <2>2, <2>3, <2>4, <2>5, OneConnection
<1> QED
  BY <1>6, <1>7

LEMMA EchoCloses ==
  ASSUME EchoInv, program' = program, NEW c \in Clients, E!ServerClose(c)
  PROVE  EchoInv'
<1>0. EchoTypeOK /\ InTurn /\ ConnectionOK(c) /\ Chain(c)
  BY DEF EchoInv
<1>1. /\ serve[c] = "close" /\ serve' = [serve EXCEPT ![c] = "ended"]
      /\ there' = [there EXCEPT ![c] = "closed"]
      /\ gone' = (IF up[c] # <<>> THEN gone \cup {c} ELSE gone)
      /\ up' = [up EXCEPT ![c] = <<>>]
      /\ UNCHANGED <<client, lines, received, down, here, server, reqbuf, event>>
  BY DEF E!ServerClose, E!clientVars
<1>2. <<>> \in Seq(EBytes)
  OBVIOUS
<1>3. /\ serve'[c] = "ended" /\ there'[c] = "closed" /\ up'[c] = <<>>
      /\ \A d \in Clients \ {c} : serve'[d] = serve[d] /\ there'[d] = there[d] /\ up'[d] = up[d]
  BY <1>0, <1>1 DEF EchoTypeOK
<1>4. gone' \in SUBSET Clients /\ \A d \in Clients \ {c} : d \in gone' <=> d \in gone
  BY <1>0, <1>1 DEF EchoTypeOK
<1>5. EchoTypeOK'
  <2>1. up' \in [Clients -> Seq(EBytes)]
    BY <1>0, <1>1, <1>2 DEF EchoTypeOK
  <2> QED
    BY <1>0, <1>1, <1>4, <2>1 DEF EchoTypeOK
<1>6. InTurn'
  <2>1. Serving(c)
    BY <1>1 DEF Serving
  <2>2. UNCHANGED <<server, event>>
    BY <1>1
  <2> QED
    BY <1>0, <1>1, <2>1, <2>2, TurnStays
<1>7. \A d \in Clients \ {c} : Stays(d)
  BY <1>1, <1>3, <1>4 DEF Stays
<1>8. ConnectionOK(c)'
  BY <1>0, <1>1, <1>3 DEF ConnectionOK
<1>9. Chain(c)'
  BY <1>0, <1>1, <1>3, BrokenChain
<1> QED
  BY <1>5, <1>6, <1>7, <1>8, <1>9, OneConnection

LEMMA EchoService ==
  ASSUME EchoInv, program' = program, NEW c \in Clients, E!Service(c)
  PROVE  EchoInv'
<1>1. CASE E!ServerRead(c)
  BY <1>1, EchoReadsRequest
<1>2. CASE E!ReadFails(c)
  <2>0. EchoTypeOK /\ InTurn
    BY DEF EchoInv
  <2>1. /\ serve[c] = "read" /\ serve' = [serve EXCEPT ![c] = "close"]
        /\ UNCHANGED <<client, lines, received, up, down, here, there, gone, server, reqbuf, event>>
    BY <1>2 DEF E!ReadFails, E!clientVars, E!linkVars, E!pollVars
  <2>2. Serving(c)
    BY <2>1 DEF Serving
  <2>3. InTurn'
    <3>1. UNCHANGED <<server, event>>
      BY <2>1
    <3> QED
      BY <2>0, <2>1, <2>2, <3>1, TurnStays
  <2>4. "close" \in States
    BY DEF States
  <2> QED
    BY <2>1, <2>3, <2>4, ServeOnly
<1>3. CASE E!ServerWrite(c)
  BY <1>3, EchoSendsBack
<1>4. CASE E!ServerClose(c)
  BY <1>4, EchoCloses
<1> QED
  BY <1>1, <1>2, <1>3, <1>4 DEF E!Service

\* The main of echo-server and that of the server with a thread per connection.
LEMMA EchoMains ==
  ASSUME EchoInv, program' = program, program # "epoll", E!EchoMain \/ E!NormalMain
  PROVE  EchoInv'
<1>0. EchoTypeOK /\ InTurn'
  BY DEF EchoInv, InTurn
<1>1. "read" \in States /\ "thread" \in States
  BY DEF States
<1>2. ASSUME NEW c \in Clients, NEW next, NEW x \in {"read", "thread"}, E!Accept(c, next),
             serve' = [serve EXCEPT ![c] = x], reqbuf' = reqbuf
      PROVE  EchoInv'
  <2>1. there[c] = "queued" /\ x \in States /\ x # "write"
    BY <1>1, <1>2 DEF E!Accept
  <2>2. serve[c] # "write"
    BY <2>1 DEF EchoInv, ConnectionOK
  <2> QED
    BY <1>0, <1>2, <2>1, <2>2, EchoAccepts
<1>3. CASE E!EchoMain
  <2>1. PICK c \in Clients :
          \/ /\ E!Accept(c, "serve") /\ serve' = [serve EXCEPT ![c] = "read"]
             /\ UNCHANGED reqbuf
          \/ UNCHANGED <<client, lines, received, up, down, here, there, gone, serve, reqbuf>>
    BY <1>3 DEF E!EchoMain, E!clientVars, E!linkVars
  <2> QED
    BY <1>0, <1>2, <2>1, TurnOnly
<1>4. CASE E!NormalMain
  <2>1. PICK c \in Clients :
          \/ /\ E!Accept(c, "create") /\ serve' = [serve EXCEPT ![c] = "thread"]
             /\ UNCHANGED reqbuf
          \/ /\ serve[c] = "thread" /\ serve' = [serve EXCEPT ![c] = "read"]
             /\ UNCHANGED <<client, lines, received, up, down, here, there, gone, reqbuf>>
    BY <1>4 DEF E!NormalMain, E!clientVars, E!linkVars
  <2>2. CASE /\ E!Accept(c, "create") /\ serve' = [serve EXCEPT ![c] = "thread"]
             /\ UNCHANGED reqbuf
    BY <1>2, <2>2
  <2>3. CASE /\ serve[c] = "thread" /\ serve' = [serve EXCEPT ![c] = "read"]
             /\ UNCHANGED <<client, lines, received, up, down, here, there, gone, reqbuf>>
    BY <1>0, <1>1, <2>3, ServeOnly
  <2> QED
    BY <2>1, <2>2, <2>3
<1> QED
  BY <1>3, <1>4

\* The loop over the events of epoll.
LEMMA EchoEpoll ==
  ASSUME EchoInv, program' = program, program = "epoll", E!EpollMain
  PROVE  EchoInv'
<1>0. EchoTypeOK /\ InTurn /\ (InTurn <=> \A c \in Clients : Serving(c) => server = "serve" /\ Head(event) = c)
  BY DEF EchoInv, InTurn
<1>1. "add" \in States /\ "ended" \in States /\ "watched" \in States /\ "close" \in States /\ "read" \in States
  BY DEF States
<1>2. ASSUME server # "serve", NEW c \in Clients
      PROVE  serve[c] # "write"
  BY <1>0, <1>2 DEF Serving
<1>3. ASSUME server # "serve", serve' = serve
      PROVE  InTurn'
  BY <1>0, <1>3 DEF Serving, InTurn
<1>4. ASSUME server # "serve", NEW c \in Clients, NEW x \in {"add", "ended", "watched"},
             serve' = [serve EXCEPT ![c] = x],
             UNCHANGED <<client, lines, received, up, down, here, there, gone, reqbuf>>
      PROVE  EchoInv'
  <2>1. InTurn'
    BY <1>0, <1>4, NobodysTurn
  <2>2. serve[c] # "write"
    BY <1>2, <1>4
  <2>3. x # "write" /\ x \in States
    BY <1>1, <1>4
  <2> QED
    BY <1>4, <2>1, <2>2, <2>3, ServeOnly
<1>5. CASE E!EpollWait \/ E!AcceptFails
  <2>1. /\ server # "serve"
        /\ UNCHANGED <<client, lines, received, up, down, here, there, gone, serve, reqbuf>>
    BY <1>5 DEF E!EpollWait, E!AcceptFails, E!clientVars, E!linkVars
  <2> QED
    BY <1>3, <2>1, TurnOnly
<1>6. CASE E!AddFails
  BY <1>6, ServerEndsOK DEF E!AddFails
<1>7. ASSUME NEW c \in Clients, E!EpollAccept(c)
      PROVE  EchoInv'
  <2>1. /\ server = "events" /\ E!Accept(c, "add") /\ serve' = [serve EXCEPT ![c] = "add"]
        /\ reqbuf' = reqbuf
    BY <1>7 DEF E!EpollAccept
  <2>2. InTurn'
    BY <1>0, <1>7, <2>1, NobodysTurn
  <2> QED
    BY <1>1, <1>2, <1>7, <2>1, <2>2, EchoAccepts
<1>8. ASSUME NEW c \in Clients, E!NoName(c) \/ E!EpollAdd(c)
      PROVE  EchoInv'
  <2>1. /\ server # "serve"
        /\ serve' = [serve EXCEPT ![c] = "ended"] \/ serve' = [serve EXCEPT ![c] = "watched"]
        /\ UNCHANGED <<client, lines, received, up, down, here, there, gone, reqbuf>>
    BY <1>8 DEF E!NoName, E!EpollAdd, E!clientVars, E!linkVars
  <2> QED
    BY <1>4, <1>8, <2>1
<1>9. ASSUME NEW c \in Clients, E!EpollEvent(c)
      PROVE  EchoInv'
  <2> DEFINE x == IF c \in gone THEN "close" ELSE "read"
  <2>1. /\ server = "events" /\ Head(event) = c /\ server' = "serve"
        /\ serve' = [serve EXCEPT ![c] = x]
        /\ UNCHANGED <<client, lines, received, up, down, here, there, gone, reqbuf, event>>
    BY <1>9 DEF E!EpollEvent, E!clientVars, E!linkVars, E!pollVars
  <2>2. x \in {"close", "read"} /\ x \in States /\ x # "write"
    BY <1>1
  <2> HIDE DEF x
  <2>3. \A d \in Clients \ {c} : serve'[d] = serve[d] /\ ~Serving(d)
    BY <1>0, <2>1
  <2>4. InTurn'
    BY <2>1, <2>3 DEF InTurn, Serving
  <2>5. serve[c] # "write"
    BY <1>2, <1>9, <2>1
  <2>6. UNCHANGED <<client, lines, received, up, down, here, there, gone, reqbuf>>
    BY <2>1
  <2> QED
    BY <1>9, <2>1, <2>2, <2>4, <2>5, <2>6, ServeOnly
<1>10. ASSUME NEW c \in Clients, E!EpollServed(c)
       PROVE  EchoInv'
  <2>1. /\ server = "serve" /\ Head(event) = c /\ serve[c] = "ended"
        /\ UNCHANGED <<client, lines, received, up, down, here, there, gone, serve, reqbuf>>
    BY <1>10 DEF E!EpollServed, E!clientVars, E!linkVars
  <2>2. \A d \in Clients : ~Serving(d)
    BY <1>0, <2>1 DEF Serving
  <2>3. InTurn'
    BY <2>1, <2>2 DEF InTurn, Serving
  <2> QED
    BY <2>1, <2>3, TurnOnly
<1> QED
  BY <1>5, <1>6, <1>7, <1>8, <1>9, <1>10 DEF E!EpollMain

LEMMA EchoPreserved ==
  ASSUME EchoInv, [SocketNext]_allVars
  PROVE  EchoInv'
<1>1. ASSUME program' = program,
             UNCHANGED <<client, lines, received, up, down, here, there, gone, server, serve, reqbuf, event>>
      PROVE  EchoInv'
  <2>1. InTurn'
    BY <1>1 DEF EchoInv, InTurn, Serving
  <2> QED
    BY <1>1, <2>1, TurnOnly
<1>2. CASE TCPStep(Next)
  BY <1>1, <1>2 DEF TCPStep, echoVars
<1>3. CASE UNCHANGED allVars
  BY <1>1, <1>3 DEF allVars, echoVars
<1>4. CASE EchoStep(E!Next)
  <2>1. program' = program /\ E!Next
    BY <1>4 DEF EchoStep
  <2>2. CASE E!ClientStep
    <3>1. CASE E!GiveUp \/ E!ClientKilled
      BY <2>1, <3>1, EchoGivesUp
    <3>2. ASSUME NEW c \in Clients, E!EchoClient(c)
          PROVE  EchoInv'
      BY <2>1, <3>2, EchoConnects, EchoWritesLine, EchoReads, EchoLeaves DEF E!EchoClient
    <3> QED
      BY <2>2, <3>1, <3>2 DEF E!ClientStep
  <2>3. CASE E!EchoServer
    <3>1. CASE E!Listen
      <4>1. /\ server = "setup" /\ server' # "serve"
            /\ UNCHANGED <<client, lines, received, up, down, here, there, gone, serve, reqbuf>>
        BY <3>1 DEF E!Listen, E!clientVars, E!linkVars
      <4>2. InTurn'
        BY <2>1, <4>1 DEF EchoInv, InTurn, Serving
      <4> QED
        BY <2>1, <4>1, <4>2, TurnOnly
    <3>2. CASE E!ServerFails \/ E!ServerKilled
      BY <2>1, <3>2, ServerEndsOK DEF E!ServerFails, E!ServerKilled
    <3>3. ASSUME NEW c \in Clients, E!Service(c)
          PROVE  EchoInv'
      BY <2>1, <3>3, EchoService
    <3>4. CASE program = "echo" /\ E!EchoMain
      BY <2>1, <3>4, EchoMains
    <3>5. CASE program = "normal" /\ E!NormalMain
      BY <2>1, <3>5, EchoMains
    <3>6. CASE program = "epoll" /\ E!EpollMain
      BY <2>1, <3>6, EchoEpoll
    <3> QED
      BY <2>3, <3>1, <3>2, <3>3, <3>4, <3>5, <3>6 DEF E!EchoServer
  <2>4. CASE UNCHANGED E!vars
    BY <1>1, <2>1, <2>4 DEF E!vars, E!clientVars, E!linkVars, E!serverVars, E!pollVars
  <2> QED
    BY <2>1, <2>2, <2>3, <2>4 DEF E!Next
<1> QED
  BY <1>2, <1>3, <1>4 DEF SocketNext

LEMMA EchoStarts ==
  ASSUME SocketInit
  PROVE  EchoInv
<1>1. /\ client = [c \in Clients |-> "connect"] /\ lines = [c \in Clients |-> 0]
      /\ received = [c \in Clients |-> <<>>]
      /\ up = [c \in Clients |-> <<>>] /\ down = [c \in Clients |-> <<>>]
      /\ here = [c \in Clients |-> "none"] /\ there = [c \in Clients |-> "none"]
      /\ gone = {} /\ serve = [c \in Clients |-> "out"] /\ reqbuf = [c \in Clients |-> <<>>]
  BY DEF SocketInit, E!Init
<1>2. <<>> \in Seq(EBytes)
  OBVIOUS
<1>3. EchoTypeOK
  <2>1. lines \in [Clients -> Nat]
    BY <1>1
  <2>2. /\ received \in [Clients -> Seq(EBytes)] /\ up \in [Clients -> Seq(EBytes)]
        /\ down \in [Clients -> Seq(EBytes)] /\ reqbuf \in [Clients -> Seq(EBytes)]
    BY <1>1, <1>2
  <2> QED
    BY <1>1, <2>1, <2>2 DEF EchoTypeOK
<1>4. ASSUME NEW c \in Clients
      PROVE  ConnectionOK(c) /\ Chain(c)
  <2>1. /\ client[c] = "connect" /\ lines[c] = 0 /\ received[c] = <<>> /\ up[c] = <<>>
        /\ down[c] = <<>> /\ here[c] = "none" /\ there[c] = "none" /\ serve[c] = "out"
    BY <1>1, <1>4
  <2>2. ConnectionOK(c)
    BY <2>1 DEF ConnectionOK
  <2>3. Back(c) = 0 /\ lines[c] * LineLen = 0
    BY <2>1, LengthOfNone, EchoParameters DEF Back
  <2> QED
    BY <2>1, <2>2, <2>3, FromNone DEF Chain
<1>5. InTurn
  BY <1>1 DEF InTurn, Serving
<1> QED
  BY <1>3, <1>4, <1>5 DEF EchoInv

LEMMA EchoInvImpliesOwn == EchoInv => E!OwnEcho
<1> SUFFICES ASSUME EchoInv, NEW c \in Clients
             PROVE  /\ Len(received[c]) <= lines[c] * LineLen
                    /\ received[c] = [k \in DOMAIN received[c] |-> <<c, k>>]
  BY DEF E!OwnEcho
<1>1. EchoTypeOK /\ Chain(c)
  BY DEF EchoInv
<1>2. /\ received[c] \in Seq(EBytes) /\ lines[c] * LineLen \in Nat
      /\ Length(received[c]) \in Nat /\ Length(down[c]) \in Nat /\ Length(received[c]) = Len(received[c])
  BY <1>1, EchoTypes, LengthType
<1>3. From(c, 0, received[c]) /\ Length(received[c]) + Length(down[c]) <= lines[c] * LineLen
  BY <1>1 DEF Chain, Back
<1> DEFINE s == received[c]
           m == lines[c] * LineLen
           ls == Length(s)
<1>4. ls <= m
  <2> DEFINE ld == Length(down[c])
  <2>1. ls + ld <= m /\ ls \in Nat /\ ld \in Nat /\ m \in Nat
    BY <1>2, <1>3
  <2> HIDE DEF ls, ld, m
  <2> QED
    BY <2>1
<1>5. \A k \in 1..Len(s) : s[k] = <<c, k>>
  BY <1>2, <1>3 DEF From
<1>6. s \in Seq(EBytes)
  BY <1>2
<1> HIDE DEF s
<1>7. s = [k \in DOMAIN s |-> <<c, k>>]
  <2>1. DOMAIN s = 1..Len(s) /\ s = [k \in DOMAIN s |-> s[k]]
    BY <1>6
  <2>2. \A k \in DOMAIN s : s[k] = <<c, k>>
    BY <1>5, <2>1
  <2>3. [k \in DOMAIN s |-> s[k]] = [k \in DOMAIN s |-> <<c, k>>]
    BY <2>2
  <2> QED
    BY <2>1, <2>3
<1> QED
  BY <1>2, <1>4, <1>7 DEF s

-----------------------------------------------------------------------------
(* The theorems *)

\* No recv and no realloc writes past the memory that was allocated for it.
THEOREM BuffersSuffice == FairSpec => []BufferFits
<1>1. SocketInit => PairInv
  BY InitPair
<1>2. PairInv /\ [SocketNext]_allVars => PairInv'
  BY PairPreserved
<1>3. PairInv => BufferFits
  BY PairImpliesBufferFits
<1> QED
  BY <1>1, <1>2, <1>3, PTL DEF FairSpec

\* However the bytes are cut, nobody gets them out of order or another's.
THEOREM BytesArriveInOrder == FairSpec => []BytesInOrder
<1>1. SocketInit => PairInv /\ EchoInv
  BY InitPair, EchoStarts
<1>2. PairInv /\ EchoInv /\ [SocketNext]_allVars => PairInv' /\ EchoInv'
  BY PairPreserved, EchoPreserved
<1>3. PairInv /\ EchoInv => BytesInOrder
  BY PairImpliesAlone, EchoInvImpliesOwn DEF BytesInOrder
<1> QED
  BY <1>1, <1>2, <1>3, PTL DEF FairSpec

\* When both have ended well, the totals of both sides are the same.
THEOREM TotalsAgree ==
  FairSpec => []((program = "reliable" => RequestNum <= ShortCount) => TotalsMatch)
<1>1. SocketInit => PairInv
  BY InitPair
<1>2. PairInv /\ [SocketNext]_allVars => PairInv'
  BY PairPreserved
<1>3. PairInv => ((program = "reliable" => RequestNum <= ShortCount) => TotalsMatch)
  BY PairImpliesTotalsMatch
<1> QED
  BY <1>1, <1>2, <1>3, PTL DEF FairSpec
=============================================================================
