---------------------- MODULE ConcurrentQuickSortProofs ----------------------
(***************************************************************************)
(* Theorems about ConcurrentQuickSort.tla for any array, any values, any   *)
(* lengths at which a segment is shared, any number of threads and any     *)
(* limit on it.                                                            *)
(*                                                                         *)
(* IInv is the invariant of the pool, TInv that of the recursive programs. *)
(* Both say the same of the array: the segments that are not sorted yet,   *)
(* each with who has it, have no element in common, elements that are not  *)
(* in the same one of them are in order, and the array holds what it held. *)
(* A step replaces a segment by one in another place, by its two parts, or *)
(* by nothing when it has at most one element.  TInv also says that the    *)
(* threads are a tree, that who is joined has ended with all below it, and *)
(* which threads the count is made of.                                     *)
(***************************************************************************)
EXTENDS ConcurrentQuickSort, FiniteSetTheorems, TLAPS

-----------------------------------------------------------------------------
(* The invariant of the pool *)

Labels == {"out", "wait", "lockTake", "take", "part", "lockPush", "push", "seq", "seqPart",
           "lockIdle", "idle", "done"}

Segments == {s \in Indices \X Indices : s[1] <= s[2]}

TypeOK ==
  /\ mainPc \in {"start", "create", "poll", "check", "join", "exited", "failed", "crashed"}
  /\ array \in [Indices -> Int] /\ input \in [Indices -> Int]
  /\ stack \in Seq(Segments)
  /\ permits \in Nat
  /\ busy \subseteq Threads
  /\ ifAllThreadExit \in BOOLEAN
  /\ pc \in [Threads -> Labels]
  /\ job \in [Threads -> Segments] /\ cur \in [Threads -> Segments]
  /\ local \in [Threads -> Seq(Segments)]

\* Who has something to sort is busy; main sees that nobody is before it tells the
\* threads to exit, and starts the next run with an empty stack.
Rests ==
  /\ \A t \in Threads : pc[t] \notin {"out", "wait", "lockTake", "take", "done"} => t \in busy
  /\ \A t \in Threads : pc[t] \notin {"seq", "seqPart"} => local[t] = <<>>
  /\ ifAllThreadExit => stack = <<>> /\ busy = {}
  /\ mainPc \in {"create", "poll", "check"} => ~ifAllThreadExit
  /\ mainPc = "join" => ifAllThreadExit
  /\ mainPc = "start" => stack = <<>> /\ busy = {}

\* What the rounds of PartSort have done in segment seg, c being <<left, right>>: left
\* of c[1] nothing is greater than the pivot, from c[2] on nothing is less.
Done(f, seg, c) ==
  /\ seg[1] <= c[1] /\ c[2] <= seg[2]
  /\ \A i \in seg[1]..(c[1] - 1) : f[i] <= f[seg[2]]
  /\ \A i \in c[2]..seg[2] : f[i] >= f[seg[2]]

PartDone(t) == Done(array, job[t], cur[t])

Rounds ==
  /\ \A t \in Threads : pc[t] \in {"part", "seqPart"} => PartDone(t)
  /\ \A t \in Threads : Pushing(t) => Inside(cur[t][1], job[t])

\* Two elements are in order unless they are in the same one of the segments U.
OrderedBut(f, U) ==
  \A i, k \in Indices : i < k =>
    f[i] <= f[k] \/ \E a \in U : Inside(i, a[3]) /\ Inside(k, a[3])

\* The array holds what it held.
Holding(f, v) == Cardinality({k \in Indices : f[k] = v})
SameElements == \A v \in Int : Holding(array, v) = Holding(input, v)

IInv == /\ TypeOK /\ Rests /\ Rounds /\ PermitsMatch /\ SegmentsDisjoint
        /\ OrderedBut(array, Unsorted) /\ SameElements

-----------------------------------------------------------------------------
(* Segments and where they are *)

Apart(s, z) == \A i \in Indices : ~(Inside(i, s) /\ Inside(i, z))
Within(s, z) == \A i \in Indices : Inside(i, s) => Inside(i, z)
AllApart(U) == \A a, b \in U : a # b => Apart(a[3], b[3])

\* What thread t has to sort: on its own stack, in work, or to be pushed.
Own(t) == Numbered(t, local[t])
          \cup (IF pc[t] \in {"part", "seqPart"} THEN {<<t, 0, job[t]>>} ELSE {})
          \cup (IF Pushing(t) THEN Numbered(t, Parts(job[t], cur[t][1])) ELSE {})

\* There is an array, and its indices are natural numbers.
LEMMA IndicesAre == ArrayLen \in Nat \ {0} /\ Indices \subseteq Nat /\ 0 \in Indices
BY SortAssumption DEF Indices

\* Segments are replaced by others that are within them and apart.
LEMMA ReplaceApart ==
  ASSUME NEW U, NEW A \in SUBSET U, NEW N, AllApart(U), AllApart(N),
         \A n \in N : \E a \in A : Within(n[3], a[3])
  PROVE  AllApart((U \ A) \cup N)
<1> SUFFICES ASSUME NEW b \in (U \ A) \cup N, NEW c \in (U \ A) \cup N, b # c
             PROVE  Apart(b[3], c[3])
  BY DEF AllApart
<1>1. CASE b \in N /\ c \in N
  BY <1>1 DEF AllApart
<1>2. CASE b \in U \ A /\ c \in U \ A
  BY <1>2 DEF AllApart
<1>3. ASSUME NEW n \in N, NEW u \in U \ A
      PROVE  Apart(n[3], u[3])
  <2>1. PICK a \in A : Within(n[3], a[3])
    OBVIOUS
  <2>2. Apart(a[3], u[3])
    BY <1>3 DEF AllApart
  <2> QED
    BY <2>1, <2>2 DEF Within, Apart
<1>4. Apart(b[3], c[3]) <=> Apart(c[3], b[3])
  BY DEF Apart
<1> QED
  BY <1>1, <1>2, <1>3, <1>4

\* A segment may move: what counts is which elements it has.
LEMMA ReplaceOrdered ==
  ASSUME NEW f, NEW U, NEW A, NEW N, OrderedBut(f, U),
         \A a \in A : \E n \in N : n[3] = a[3]
  PROVE  OrderedBut(f, (U \ A) \cup N)
BY DEF OrderedBut

\* The unsorted segments are on the stack or with a thread.
LEMMA UnsortedIs ==
  /\ Unsorted = Numbered(Main, stack) \cup UNION {Own(t) : t \in Threads}
  /\ Unsorted' = Numbered(Main, stack') \cup UNION {Own(t)' : t \in Threads}
<1> DEFINE L == UNION {Numbered(t, local[t]) : t \in Threads}
           W == {<<t, 0, job[t]>> : t \in {u \in Threads : pc[u] \in {"part", "seqPart"}}}
           P == UNION {Numbered(t, Parts(job[t], cur[t][1])) : t \in {u \in Threads : Pushing(u)}}
           O == UNION {Own(t) : t \in Threads}
<1>1. O = L \cup W \cup P
  <2>1. L \subseteq O /\ W \subseteq O /\ P \subseteq O
    BY DEF Own
  <2>2. ASSUME NEW t \in Threads
        PROVE  Own(t) \subseteq L \cup W \cup P
    <3>1. Numbered(t, local[t]) \subseteq L
      OBVIOUS
    <3>2. pc[t] \in {"part", "seqPart"} => {<<t, 0, job[t]>>} \subseteq W
      OBVIOUS
    <3>3. Pushing(t) => Numbered(t, Parts(job[t], cur[t][1])) \subseteq P
      OBVIOUS
    <3> HIDE DEF L, W, P
    <3> QED
      BY <3>1, <3>2, <3>3 DEF Own
  <2> QED
    BY <2>1, <2>2
<1>2. Unsorted = Numbered(Main, stack) \cup L \cup W \cup P
  BY DEF Unsorted
<1> DEFINE L2 == UNION {Numbered(t, local'[t]) : t \in Threads}
           W2 == {<<t, 0, job'[t]>> : t \in {u \in Threads : pc'[u] \in {"part", "seqPart"}}}
           P2 == UNION {Numbered(t, Parts(job'[t], cur'[t][1])) : t \in {u \in Threads : Pushing(u)'}}
           O2 == UNION {Own(t)' : t \in Threads}
<1>3. O2 = L2 \cup W2 \cup P2
  <2>1. L2 \subseteq O2 /\ W2 \subseteq O2 /\ P2 \subseteq O2
    BY DEF Own, Numbered
  <2>2. ASSUME NEW CONSTANT t \in Threads
        PROVE  Own(t)' \subseteq L2 \cup W2 \cup P2
    <3>1. Numbered(t, local'[t]) \subseteq L2
      OBVIOUS
    <3>2. pc'[t] \in {"part", "seqPart"} => {<<t, 0, job'[t]>>} \subseteq W2
      OBVIOUS
    <3>3. Pushing(t)' => Numbered(t, Parts(job'[t], cur'[t][1])) \subseteq P2
      OBVIOUS
    <3> HIDE DEF L2, W2, P2
    <3> QED
      BY <3>1, <3>2, <3>3 DEF Own, Numbered
  <2> QED
    BY <2>1, <2>2
<1>4. Unsorted' = Numbered(Main, stack') \cup L2 \cup W2 \cup P2
  BY DEF Unsorted, Numbered, Pushing
<1> QED
  BY <1>1, <1>2, <1>3, <1>4

\* In a step of thread t only what is on the stack or with t changes.
LEMMA ThreadMoves ==
  ASSUME NEW CONSTANT t \in Threads,
         \A u \in Threads : u # t =>
           pc'[u] = pc[u] /\ job'[u] = job[u] /\ cur'[u] = cur[u] /\ local'[u] = local[u],
         NEW A, NEW N, A \subseteq Numbered(Main, stack) \cup Own(t),
         Numbered(Main, stack') \cup Own(t)' = ((Numbered(Main, stack) \cup Own(t)) \ A) \cup N
  PROVE  Unsorted' = (Unsorted \ A) \cup N /\ A \subseteq Unsorted
<1>1. \A u \in Threads : u # t => Own(u)' = Own(u)
  BY DEF Own, Pushing, Numbered
<1>2. \A u \in Threads : \A a \in Own(u) : a[1] = u
  BY DEF Own, Numbered
<1>3. \A a \in Numbered(Main, stack) : a[1] = Main
  BY DEF Numbered
<1>4. \A u \in Threads : u # t => Own(u) \cap A = {}
  BY <1>2, <1>3, SortAssumption
<1> DEFINE M == Numbered(Main, stack)
           M2 == Numbered(Main, stack')
           R == UNION {Own(u) : u \in Threads \ {t}}
<1>5. UNION {Own(u) : u \in Threads} = R \cup Own(t)
  OBVIOUS
<1>6. UNION {Own(u)' : u \in Threads} = R \cup Own(t)'
  BY <1>1
<1>7. R \cap A = {}
  BY <1>4
<1>8. Unsorted = M \cup R \cup Own(t) /\ Unsorted' = M2 \cup R \cup Own(t)'
  BY <1>5, <1>6, UnsortedIs
<1> HIDE DEF M, M2, R
<1>9. M2 \cup Own(t)' = ((M \cup Own(t)) \ A) \cup N /\ A \subseteq M \cup Own(t)
  BY DEF M, M2
<1> QED
  BY ONLY <1>7, <1>8, <1>9

\* Segments by their place on a stack: none and one, some pushed, one popped.
LEMMA NumberedFew ==
  /\ \A from : Numbered(from, <<>>) = {}
  /\ \A from, e : Numbered(from, <<e>>) = {<<from, 1, e>>}
BY DEF Numbered

\* The segments p that are pushed on a stack of n.
Pushed(from, n, p) == {<<from, n + k, p[k]>> : k \in 1..Len(p)}

\* Segments that are pushed come after those that are there.
LEMMA NumberedPush ==
  ASSUME NEW from, NEW S, NEW s \in Seq(S), NEW p \in Seq(S)
  PROVE  Numbered(from, s \o p) = Numbered(from, s) \cup Pushed(from, Len(s), p)
<1> DEFINE q == s \o p
<1>1. /\ DOMAIN s = 1..Len(s) /\ DOMAIN q = 1..(Len(s) + Len(p))
      /\ Len(s) \in Nat /\ Len(p) \in Nat
      /\ \A k \in 1..Len(s) : q[k] = s[k]
      /\ \A k \in 1..Len(p) : q[Len(s) + k] = p[k]
  OBVIOUS
<1> HIDE DEF q
<1>2. \A k \in 1..(Len(s) + Len(p)) : k \in 1..Len(s) \/ \E m \in 1..Len(p) : k = Len(s) + m
  <2> SUFFICES ASSUME NEW k \in 1..(Len(s) + Len(p)), k \notin 1..Len(s)
               PROVE  \E m \in 1..Len(p) : k = Len(s) + m
    OBVIOUS
  <2>1. k - Len(s) \in 1..Len(p) /\ k = Len(s) + (k - Len(s))
    BY <1>1
  <2> QED
    BY <2>1
<1>3. \A m \in 1..Len(p) : Len(s) + m \in 1..(Len(s) + Len(p))
  BY <1>1
<1>4. 1..Len(s) \subseteq 1..(Len(s) + Len(p))
  BY <1>1
<1>5. Numbered(from, q) = Numbered(from, s) \cup Pushed(from, Len(s), p)
  <2>1. Numbered(from, q) \subseteq Numbered(from, s) \cup Pushed(from, Len(s), p)
    BY <1>1, <1>2 DEF Numbered, Pushed
  <2>2. Numbered(from, s) \subseteq Numbered(from, q)
    BY <1>1, <1>4 DEF Numbered
  <2>3. Pushed(from, Len(s), p) \subseteq Numbered(from, q)
    BY <1>1, <1>3 DEF Numbered, Pushed
  <2> QED
    BY <2>1, <2>2, <2>3
<1> QED
  BY <1>5 DEF q

\* The segment that is popped is the last one.
LEMMA NumberedPop ==
  ASSUME NEW from, NEW S, NEW s \in Seq(S), s # <<>>
  PROVE  /\ s[Len(s)] \in S
         /\ SubSeq(s, 1, Len(s) - 1) \in Seq(S)
         /\ Len(SubSeq(s, 1, Len(s) - 1)) = Len(s) - 1
         /\ <<from, Len(s), s[Len(s)]>> \in Numbered(from, s)
         /\ Numbered(from, SubSeq(s, 1, Len(s) - 1))
              = Numbered(from, s) \ {<<from, Len(s), s[Len(s)]>>}
<1> DEFINE q == SubSeq(s, 1, Len(s) - 1)
<1>1. /\ DOMAIN s = 1..Len(s) /\ Len(s) \in Nat \ {0}
      /\ DOMAIN q = 1..(Len(s) - 1)
      /\ \A k \in 1..(Len(s) - 1) : q[k] = s[k]
      /\ q \in Seq(S) /\ s[Len(s)] \in S
  OBVIOUS
<1> HIDE DEF q
<1>2. Len(s) \in DOMAIN s /\ \A k \in DOMAIN s : k \in DOMAIN q <=> k # Len(s)
  BY <1>1
<1>3. DOMAIN q \subseteq DOMAIN s
  BY <1>1
<1>4. <<from, Len(s), s[Len(s)]>> \in Numbered(from, s)
  BY <1>2 DEF Numbered
<1>5. Numbered(from, q) = Numbered(from, s) \ {<<from, Len(s), s[Len(s)]>>}
  BY <1>1, <1>2, <1>3 DEF Numbered
<1> QED
  BY <1>1, <1>4, <1>5 DEF q

\* A segment has its ends in the array, in order.
LEMMA SegmentsAre ==
  \A s \in Segments : /\ s[1] \in Indices /\ s[2] \in Indices /\ s[1] <= s[2]
                      /\ s[1] \in Int /\ s[2] \in Int
<1>1. \A i \in Indices : i \in Int
  BY IndicesAre
<1> QED
  BY <1>1 DEF Segments

\* The parts of a segment: inside it, apart, and all of it but the pivot and parts of
\* one element.
LEMMA PartsAre ==
  ASSUME NEW seg \in Segments, NEW place \in Int, Inside(place, seg), NEW from
  PROVE  LET p == Parts(seg, place)
         IN  /\ p \in Seq(Segments)
             /\ \A k \in 1..Len(p) : Within(p[k], seg)
             /\ \A k, m \in 1..Len(p) : k # m => Apart(p[k], p[m])
             /\ \A i, m \in Int : i < m /\ Inside(i, seg) /\ Inside(m, seg) =>
                  \/ i <= place /\ place <= m
                  \/ \E k \in 1..Len(p) : Inside(i, p[k]) /\ Inside(m, p[k])
<1> DEFINE p == Parts(seg, place)
           left == <<seg[1], place - 1>>
           right == <<place + 1, seg[2]>>
<1>1. /\ seg = <<seg[1], seg[2]>> /\ seg[1] \in Indices /\ seg[2] \in Indices /\ seg[1] <= seg[2]
      /\ place >= seg[1] /\ place <= seg[2]
  BY DEF Segments, Inside, Indices
<1>2. Indices \subseteq Int /\ Indices = 0..(ArrayLen - 1) /\ ArrayLen \in Int
  BY SortAssumption DEF Indices
<1>3. place - 1 > seg[1] => left \in Segments
  BY <1>1, <1>2 DEF Segments
<1>4. place + 1 < seg[2] => right \in Segments
  BY <1>1, <1>2 DEF Segments
<1>5. /\ left[1] = seg[1] /\ left[2] = place - 1
      /\ right[1] = place + 1 /\ right[2] = seg[2]
  OBVIOUS
<1>6. Within(left, seg) /\ Within(right, seg) /\ Apart(left, right) /\ Apart(right, left)
  BY <1>1, <1>2, <1>5 DEF Within, Apart, Inside
<1>7. \A i, m \in Int : i < m /\ Inside(i, seg) /\ Inside(m, seg) =>
        \/ i <= place /\ place <= m
        \/ place - 1 > seg[1] /\ Inside(i, left) /\ Inside(m, left)
        \/ place + 1 < seg[2] /\ Inside(i, right) /\ Inside(m, right)
  BY <1>1, <1>2, <1>5 DEF Inside
<1> HIDE DEF left, right
<1>8. \/ /\ place - 1 > seg[1] /\ place + 1 < seg[2]
         /\ p \in Seq(Segments) /\ Len(p) = 2 /\ p[1] = left /\ p[2] = right
      \/ place - 1 > seg[1] /\ ~(place + 1 < seg[2]) /\ p = <<left>>
      \/ ~(place - 1 > seg[1]) /\ place + 1 < seg[2] /\ p = <<right>>
      \/ ~(place - 1 > seg[1]) /\ ~(place + 1 < seg[2]) /\ p = <<>>
  <2>1. CASE place - 1 > seg[1] /\ place + 1 < seg[2]
    <3>1. p = <<left>> \o <<right>>
      BY <2>1 DEF Parts, left, right
    <3>2. left \in Segments /\ right \in Segments
      BY <2>1, <1>3, <1>4
    <3>3. <<left>> \in Seq(Segments) /\ <<right>> \in Seq(Segments)
      BY <3>2
    <3> HIDE DEF left, right, p
    <3>4. Len(<<left>>) = 1 /\ Len(<<right>>) = 1 /\ <<left>>[1] = left /\ <<right>>[1] = right
      OBVIOUS
    <3>5. p \in Seq(Segments) /\ Len(p) = 2
      BY <3>1, <3>3, <3>4
    <3>6. p[1] = left /\ p[2] = right
      BY <3>1, <3>3, <3>4
    <3> QED
      BY <2>1, <3>5, <3>6
  <2>2. CASE place - 1 > seg[1] /\ ~(place + 1 < seg[2])
    BY <2>2 DEF Parts, left, right
  <2>3. CASE ~(place - 1 > seg[1]) /\ place + 1 < seg[2]
    BY <2>3 DEF Parts, left, right
  <2>4. CASE ~(place - 1 > seg[1]) /\ ~(place + 1 < seg[2])
    BY <2>4 DEF Parts, left, right
  <2> QED
    BY <2>1, <2>2, <2>3, <2>4
<1> HIDE DEF p
<1> SUFFICES /\ p \in Seq(Segments)
             /\ \A k \in 1..Len(p) : Within(p[k], seg)
             /\ \A k, m \in 1..Len(p) : k # m => Apart(p[k], p[m])
             /\ \A i, m \in Int : i < m /\ Inside(i, seg) /\ Inside(m, seg) =>
                  \/ i <= place /\ place <= m
                  \/ \E k \in 1..Len(p) : Inside(i, p[k]) /\ Inside(m, p[k])
  BY DEF p
<1>a. CASE /\ place - 1 > seg[1] /\ place + 1 < seg[2]
           /\ p \in Seq(Segments) /\ Len(p) = 2 /\ p[1] = left /\ p[2] = right
  <2>1. p \in Seq(Segments) /\ Len(p) = 2 /\ p[1] = left /\ p[2] = right
    BY <1>a
  <2>2. 1..Len(p) = {1, 2}
    BY <2>1
  <2> QED
    BY <2>1, <2>2, <1>6, <1>7
<1>b. CASE place - 1 > seg[1] /\ ~(place + 1 < seg[2]) /\ p = <<left>>
  <2>1. p \in Seq(Segments) /\ Len(p) = 1 /\ p[1] = left
    BY <1>b, <1>3
  <2>2. 1..Len(p) = {1}
    BY <2>1
  <2> QED
    BY <2>1, <2>2, <1>6, <1>7, <1>b
<1>c. CASE ~(place - 1 > seg[1]) /\ place + 1 < seg[2] /\ p = <<right>>
  <2>1. p \in Seq(Segments) /\ Len(p) = 1 /\ p[1] = right
    BY <1>c, <1>4
  <2>2. 1..Len(p) = {1}
    BY <2>1
  <2> QED
    BY <2>1, <2>2, <1>6, <1>7, <1>c
<1>d. CASE ~(place - 1 > seg[1]) /\ ~(place + 1 < seg[2]) /\ p = <<>>
  <2>1. p \in Seq(Segments) /\ Len(p) = 0 /\ 1..Len(p) = {}
    BY <1>d
  <2> QED
    BY <2>1, <1>7, <1>d
<1> QED
  BY <1>8, <1>a, <1>b, <1>c, <1>d

-----------------------------------------------------------------------------
(* What a swap does *)

\* A swap exchanges two elements and leaves the others.
LEMMA SwapIs ==
  ASSUME NEW f \in [Indices -> Int], NEW x \in Indices, NEW y \in Indices
  PROVE  /\ swap(f, x, y) \in [Indices -> Int]
         /\ swap(f, x, y)[x] = f[y] /\ swap(f, x, y)[y] = f[x]
         /\ \A i \in Indices : i # x /\ i # y => swap(f, x, y)[i] = f[i]
BY DEF swap

\* A swap loses and adds nothing.
LEMMA SwapHolds ==
  ASSUME NEW f \in [Indices -> Int], NEW x \in Indices, NEW y \in Indices, NEW v \in Int
  PROVE  Holding(swap(f, x, y), v) = Holding(f, v)
<1> DEFINE g == swap(f, x, y)
           S == {k \in Indices : f[k] = v}
           T == {k \in Indices : g[k] = v}
           h == [k \in S |-> IF k = x THEN y ELSE IF k = y THEN x ELSE k]
<1>1. /\ g[x] = f[y] /\ g[y] = f[x]
      /\ \A i \in Indices : i # x /\ i # y => g[i] = f[i]
  BY SwapIs
<1> HIDE DEF g
<1>2. h \in [S -> T]
  BY <1>1
<1>3. \A a, b \in S : h[a] = h[b] => a = b
  OBVIOUS
<1>4. \A c \in T : \E a \in S : h[a] = c
  <2> SUFFICES ASSUME NEW c \in T
               PROVE  \E a \in S : h[a] = c
    OBVIOUS
  <2>1. CASE c = x
    <3>1. y \in S /\ h[y] = c
      BY <2>1, <1>1
    <3> QED
      BY <3>1
  <2>2. CASE c = y
    <3>1. x \in S /\ h[x] = c
      BY <2>2, <1>1
    <3> QED
      BY <3>1
  <2>3. CASE c # x /\ c # y
    <3>1. c \in S /\ h[c] = c
      BY <2>3, <1>1
    <3> QED
      BY <3>1
  <2> QED
    BY <2>1, <2>2, <2>3
<1>5. IsFiniteSet(S)
  <2>1. IsFiniteSet(Indices)
    BY FS_Interval, SortAssumption DEF Indices
  <2> QED
    BY <2>1, FS_Subset
<1>6. ExistsBijection(S, T)
  <2>1. h \in Bijection(S, T)
    BY <1>2, <1>3, <1>4 DEF Bijection, Injection, Surjection, IsInjective
  <2> QED
    BY <2>1 DEF ExistsBijection
<1>7. Cardinality(S) = Cardinality(T)
  BY <1>5, <1>6, FS_Bijection
<1> QED
  BY <1>7 DEF Holding, g

\* A swap inside an unsorted segment leaves the order between segments.
LEMMA SwapOrdered ==
  ASSUME NEW f \in [Indices -> Int], NEW U, NEW a \in U,
         AllApart(U), OrderedBut(f, U), a[3] \in Segments,
         NEW x \in Indices, NEW y \in Indices, Inside(x, a[3]), Inside(y, a[3])
  PROVE  OrderedBut(swap(f, x, y), U)
<1> DEFINE g == swap(f, x, y)
           seg == a[3]
<1>1. /\ g[x] = f[y] /\ g[y] = f[x]
      /\ \A i \in Indices : i # x /\ i # y => g[i] = f[i]
  BY SwapIs
<1>2. \A i \in Indices : i \in Int
  BY IndicesAre
<1>3. seg[1] \in Int /\ seg[2] \in Int
  BY <1>2 DEF Segments
<1> HIDE DEF g, seg
<1> SUFFICES ASSUME NEW i \in Indices, NEW k \in Indices, i < k,
                    ~ \E b \in U : Inside(i, b[3]) /\ Inside(k, b[3])
             PROVE  g[i] <= g[k]
  BY DEF OrderedBut, g
<1>4. ~(Inside(i, seg) /\ Inside(k, seg))
  BY DEF seg
<1>5. \A m, n \in Indices : m < n /\ (Inside(m, seg) \/ Inside(n, seg))
                            /\ ~(Inside(m, seg) /\ Inside(n, seg)) => f[m] <= f[n]
  <2> SUFFICES ASSUME NEW m \in Indices, NEW n \in Indices, m < n,
                      Inside(m, seg) \/ Inside(n, seg), ~(Inside(m, seg) /\ Inside(n, seg)),
                      NEW b \in U, Inside(m, b[3]), Inside(n, b[3])
               PROVE  FALSE
    BY DEF OrderedBut
  <2>1. b = a
    BY DEF AllApart, Apart, seg
  <2> QED
    BY <2>1 DEF seg
<1>6. \A m \in Indices : \E n \in Indices : g[m] = f[n]
           /\ (Inside(m, seg) => Inside(n, seg)) /\ (~Inside(m, seg) => n = m)
  BY <1>1 DEF seg
<1>7. PICK m \in Indices : /\ g[i] = f[m]
                           /\ Inside(i, seg) => Inside(m, seg)
                           /\ ~Inside(i, seg) => m = i
  BY <1>6
<1>8. PICK n \in Indices : /\ g[k] = f[n]
                           /\ Inside(k, seg) => Inside(n, seg)
                           /\ ~Inside(k, seg) => n = k
  BY <1>6
<1>9. CASE ~Inside(i, seg) /\ ~Inside(k, seg)
  BY <1>9, <1>7, <1>8 DEF OrderedBut
<1>10. CASE Inside(i, seg) /\ ~Inside(k, seg)
  <2>1. m < k
    BY <1>10, <1>7, <1>2, <1>3 DEF Inside
  <2> QED
    BY <1>10, <1>5, <1>7, <1>8, <2>1
<1>11. CASE ~Inside(i, seg) /\ Inside(k, seg)
  <2>1. i < n
    BY <1>11, <1>8, <1>2, <1>3 DEF Inside
  <2> QED
    BY <1>11, <1>5, <1>7, <1>8, <2>1
<1> QED
  BY <1>4, <1>9, <1>10, <1>11

\* An unsorted segment is replaced by others, between which it is in order.
LEMMA SplitOrdered ==
  ASSUME NEW f, NEW U, NEW a \in U, NEW N, OrderedBut(f, U),
         \A i, k \in Indices : i < k /\ Inside(i, a[3]) /\ Inside(k, a[3]) =>
           f[i] <= f[k] \/ \E n \in N : Inside(i, n[3]) /\ Inside(k, n[3])
  PROVE  OrderedBut(f, (U \ {a}) \cup N)
BY DEF OrderedBut

-----------------------------------------------------------------------------
(* What PartSort does *)

\* A round brings left and right nearer, with the pivot between.
LEMMA RoundIs ==
  ASSUME NEW f \in [Indices -> Int], NEW seg \in Segments, NEW c \in Segments,
         Done(f, seg, c), NEW l \in (c[1])..(c[2]), NEW r \in (c[1])..(c[2]),
         StopsUp(f, c[1], c[2], seg[2], l), StopsDown(f, l, c[2], seg[2], r)
  PROVE  /\ l \in Indices /\ Inside(l, seg) /\ r \in Indices /\ Inside(r, seg)
         /\ <<l, r>> \in Segments
         /\ Done(swap(f, l, r), seg, <<l, r>>)
<1> DEFINE lo == seg[1]
           hi == seg[2]
           left == c[1]
           right == c[2]
           g == swap(f, l, r)
<1>1. \A i \in lo..hi : i \in Indices /\ Inside(i, seg)
  <2>1. lo \in Indices /\ hi \in Indices
    BY SegmentsAre
  <2> QED
    BY <2>1, SortAssumption DEF Indices, Inside
<1>2. /\ lo \in Int /\ hi \in Int /\ left \in Int /\ right \in Int
      /\ lo <= left /\ right <= hi /\ lo <= hi
  BY SegmentsAre DEF Done
<1>3. l \in Int /\ r \in Int /\ left <= l /\ l <= r /\ r <= right
  BY <1>2 DEF StopsDown
<1>4. l \in lo..hi /\ r \in lo..hi /\ hi \in lo..hi
  BY <1>2, <1>3
<1>5. /\ l \in Indices /\ Inside(l, seg) /\ r \in Indices /\ Inside(r, seg)
      /\ hi \in Indices
  BY <1>1, <1>4
<1>6. <<l, r>> \in Segments
  BY <1>3, <1>5 DEF Segments
<1>7. /\ g[l] = f[r] /\ g[r] = f[l]
      /\ \A i \in Indices : i # l /\ i # r => g[i] = f[i]
  BY <1>5, SwapIs
<1>8. \A i \in lo..hi : f[i] \in Int
  BY <1>1
<1>9. /\ \A i \in lo..(left - 1) : f[i] <= f[hi]
      /\ \A i \in right..hi : f[i] >= f[hi]
      /\ \A i \in left..(l - 1) : f[i] <= f[hi]
      /\ l = right \/ f[l] > f[hi]
      /\ \A i \in (r + 1)..right : f[i] >= f[hi]
      /\ r = l \/ f[r] < f[hi]
  BY DEF Done, StopsUp, StopsDown
<1> HIDE DEF lo, hi, left, right, g
<1>10. g[hi] = f[hi]
  <2>1. CASE r = hi
    <3>1. r = l
      BY <1>4, <1>8, <1>9, <2>1
    <3> QED
      BY <1>7, <2>1, <3>1
  <2>2. CASE r # hi
    BY <1>2, <1>3, <1>5, <1>7, <2>2
  <2> QED
    BY <2>1, <2>2
<1>11. ASSUME NEW i \in lo..(l - 1)
       PROVE  g[i] <= g[hi]
  <2>1. i \in lo..hi /\ i # l /\ i # r /\ i \in Int
    BY <1>2, <1>3
  <2>2. g[i] = f[i]
    BY <1>1, <1>7, <2>1
  <2>3. i \in lo..(left - 1) \/ i \in left..(l - 1)
    BY <1>2, <1>3
  <2> QED
    BY <1>9, <1>10, <2>2, <2>3
<1>12. ASSUME NEW i \in r..hi
       PROVE  g[i] >= g[hi]
  <2>1. i \in lo..hi /\ i \in Int
    BY <1>2, <1>3
  <2>2. CASE i # r
    <3>1. i # l /\ (i \in (r + 1)..right \/ i \in right..hi)
      BY <1>2, <1>3, <2>2
    <3>2. g[i] = f[i]
      BY <1>1, <1>7, <2>1, <2>2, <3>1
    <3> QED
      BY <1>9, <1>10, <3>1, <3>2
  <2>3. CASE i = r
    <3>1. g[i] = f[l]
      BY <1>7, <2>3
    <3>2. l = right => f[l] >= f[hi]
      BY <1>2, <1>9
    <3>3. f[l] >= f[hi]
      BY <1>4, <1>8, <1>9, <3>2
    <3> QED
      BY <1>10, <3>1, <3>3
  <2> QED
    BY <2>2, <2>3
<1>13. lo <= l /\ r <= hi
  BY <1>2, <1>3
<1>14. Done(g, seg, <<l, r>>)
  BY <1>11, <1>12, <1>13 DEF Done, lo, hi
<1> QED
  BY <1>5, <1>6, <1>14 DEF g

\* The last swap puts the pivot between what is less and what is greater.
LEMMA EndIs ==
  ASSUME NEW f \in [Indices -> Int], NEW seg \in Segments, NEW c \in Segments,
         Done(f, seg, c), c[1] >= c[2]
  PROVE  /\ c[1] \in Indices /\ Inside(c[1], seg) /\ seg[2] \in Indices /\ Inside(seg[2], seg)
         /\ \A i, k \in Indices : /\ i <= c[1] /\ c[1] <= k
                                   /\ Inside(i, seg) /\ Inside(k, seg)
              => swap(f, c[1], seg[2])[i] <= swap(f, c[1], seg[2])[k]
<1> DEFINE lo == seg[1]
           hi == seg[2]
           place == c[1]
           g == swap(f, place, hi)
<1>1. \A i \in lo..hi : i \in Indices /\ Inside(i, seg)
  <2>1. lo \in Indices /\ hi \in Indices
    BY SegmentsAre
  <2> QED
    BY <2>1, SortAssumption DEF Indices, Inside
<1>2. /\ lo \in Int /\ hi \in Int /\ place \in Int /\ place = c[2]
      /\ lo <= place /\ place <= hi
  BY SegmentsAre DEF Done
<1>3. place \in lo..hi /\ hi \in lo..hi
  BY <1>2
<1>4. /\ place \in Indices /\ Inside(place, seg)
      /\ hi \in Indices /\ Inside(hi, seg)
  BY <1>1, <1>3
<1>5. /\ \A i \in lo..(place - 1) : f[i] <= f[hi]
      /\ \A i \in place..hi : f[i] >= f[hi]
  BY <1>2 DEF Done
<1>6. \A i \in Indices : Inside(i, seg) => i \in lo..hi /\ i \in Int
  BY <1>2 DEF Inside
<1> HIDE DEF lo, hi, place
<1>7. /\ g[place] = f[hi] /\ g[hi] = f[place] /\ g \in [Indices -> Int]
      /\ \A i \in Indices : i # place /\ i # hi => g[i] = f[i]
  BY <1>4, SwapIs
<1> HIDE DEF g
<1>8. \A i \in lo..hi : f[i] \in Int /\ g[i] \in Int
  BY <1>1, <1>7
<1>9. ASSUME NEW i \in lo..(place - 1)
      PROVE  g[i] <= g[place]
  <2>1. i \in lo..hi /\ i # place /\ i # hi
    BY <1>2
  <2>2. g[i] = f[i]
    BY <1>1, <1>7, <2>1
  <2> QED
    BY <1>5, <1>7, <2>2
<1>10. ASSUME NEW i \in place..hi
       PROVE  g[place] <= g[i]
  <2>1. i \in lo..hi
    BY <1>2
  <2>2. g[i] = f[i] \/ i = hi \/ i = place
    BY <1>1, <1>7, <2>1
  <2>3. f[i] >= f[hi] /\ f[place] >= f[hi]
    BY <1>2, <1>5
  <2>4. f[i] \in Int /\ f[hi] \in Int /\ f[place] \in Int /\ g[i] \in Int /\ g[place] \in Int
    BY <1>3, <1>8, <2>1
  <2>5. CASE g[i] = f[i]
    BY <1>7, <2>3, <2>4, <2>5
  <2>6. CASE i = hi
    BY <1>7, <2>3, <2>4, <2>6
  <2>7. CASE i = place
    BY <2>4, <2>7
  <2> QED
    BY <2>2, <2>5, <2>6, <2>7
<1>11. ASSUME NEW i \in Indices, NEW k \in Indices, i <= place, place <= k,
              Inside(i, seg), Inside(k, seg)
       PROVE  g[i] <= g[k]
  <2>1. i \in lo..hi /\ k \in lo..hi
    BY <1>6, <1>11
  <2>2. g[i] \in Int /\ g[k] \in Int /\ g[place] \in Int
    BY <1>3, <1>8, <2>1
  <2>3. g[i] <= g[place]
    <3>1. i \in lo..(place - 1) \/ i = place
      BY <1>2, <1>11, <2>1
    <3> QED
      BY <1>9, <2>2, <3>1
  <2>4. g[place] <= g[k]
    <3>1. k \in place..hi
      BY <1>2, <1>11, <2>1
    <3> QED
      BY <1>10, <3>1
  <2> QED
    BY <2>2, <2>3, <2>4
<1> QED
  BY <1>4, <1>11 DEF g, place, hi

\* A swap elsewhere leaves what is done in a segment.
LEMMA DoneElsewhere ==
  ASSUME NEW f \in [Indices -> Int], NEW seg, NEW z \in Segments, NEW c \in Segments,
         Done(f, z, c), Apart(z, seg),
         NEW x \in Indices, NEW y \in Indices, Inside(x, seg), Inside(y, seg)
  PROVE  Done(swap(f, x, y), z, c)
<1> DEFINE g == swap(f, x, y)
<1>1. \A i \in (z[1])..(z[2]) : i \in Indices /\ Inside(i, z)
  <2>1. z[1] \in Indices /\ z[2] \in Indices
    BY SegmentsAre
  <2> QED
    BY <2>1, SortAssumption DEF Indices, Inside
<1>2. \A i \in (z[1])..(z[2]) : g[i] = f[i]
  <2>1. \A i \in Indices : i # x /\ i # y => g[i] = f[i]
    BY SwapIs
  <2> QED
    BY <1>1, <2>1 DEF Apart
<1>3. /\ z[1] \in Int /\ z[2] \in Int /\ z[1] <= z[2]
      /\ c[1] \in Int /\ c[2] \in Int /\ c[1] <= c[2]
      /\ z[1] <= c[1] /\ c[2] <= z[2]
  BY SegmentsAre DEF Done
<1>4. /\ z[2] \in (z[1])..(z[2])
      /\ (z[1])..(c[1] - 1) \subseteq (z[1])..(z[2])
      /\ (c[2])..(z[2]) \subseteq (z[1])..(z[2])
  BY <1>3
<1> HIDE DEF g
<1>5. Done(g, z, c)
  BY <1>2, <1>4 DEF Done
<1> QED
  BY <1>5 DEF g

\* A thread that begins with a segment has done nothing yet.
LEMMA NothingDone ==
  ASSUME NEW f \in [Indices -> Int], NEW s \in Segments
  PROVE  Done(f, s, s)
<1>1. s[1] \in Int /\ s[2] \in Int /\ s[2] \in Indices
  BY SegmentsAre
<1>2. f[s[2]] \in Int
  BY <1>1
<1>3. (s[1])..(s[1] - 1) = {} /\ (s[2])..(s[2]) = {s[2]}
  BY <1>1
<1> QED
  BY <1>1, <1>2, <1>3 DEF Done

-----------------------------------------------------------------------------
(* Steps that sort nothing *)

\* The invariant's parts over the set of unsorted segments.
LEMMA DisjointIs ==
  /\ SegmentsDisjoint <=> AllApart(Unsorted)
  /\ SegmentsDisjoint' <=> AllApart(Unsorted')
BY DEF SegmentsDisjoint, AllApart, Apart

\* The order after a step, over the segments after it.
LEMMA OrderedIs ==
  OrderedBut(array, Unsorted)' <=> OrderedBut(array', Unsorted')
BY DEF OrderedBut

\* No segment moves.
Still == /\ UNCHANGED <<stack, array, input, jobVars>>
         /\ \A u \in Threads : \/ pc'[u] = pc[u]
                               \/ /\ pc[u] \notin {"part", "seqPart"}
                                  /\ pc'[u] \notin {"part", "seqPart"}
                                  /\ pc[u] \in {"lockPush", "push"} <=> pc'[u] \in {"lockPush", "push"}

Sorting == Rounds /\ SegmentsDisjoint /\ OrderedBut(array, Unsorted) /\ SameElements

\* Such a step leaves what is sorted as it is.
LEMMA Quiet ==
  ASSUME Sorting, Still
  PROVE  Sorting'
<1>1. \A u \in Threads : /\ (pc'[u] \in {"part", "seqPart"}) <=> (pc[u] \in {"part", "seqPart"})
                         /\ Pushing(u)' <=> Pushing(u)
                         /\ job'[u] = job[u] /\ cur'[u] = cur[u] /\ local'[u] = local[u]
  BY DEF Still, Pushing, jobVars
<1>2. stack' = stack /\ array' = array /\ input' = input
  BY DEF Still
<1>3. \A u \in Threads : Own(u)' = Own(u)
  BY <1>1 DEF Own, Numbered
<1>4. Unsorted' = Unsorted
  BY <1>2, <1>3, UnsortedIs
<1>5. SegmentsDisjoint'
  BY <1>4, DisjointIs DEF Sorting
<1>6. OrderedBut(array, Unsorted)'
  BY <1>4, <1>2, OrderedIs DEF Sorting
<1>7. SameElements'
  BY <1>2 DEF SameElements, Holding, Sorting
<1>8. Rounds'
  <2>1. \A u \in Threads : PartDone(u)' <=> PartDone(u)
    BY <1>1, <1>2 DEF PartDone
  <2> QED
    BY <1>1, <2>1 DEF Rounds, Sorting
<1> QED
  BY <1>5, <1>6, <1>7, <1>8 DEF Sorting

\* The threads that have taken a permit and not yet a segment.
Waking == {t \in Threads : pc[t] \in {"lockTake", "take"}}

\* Thread t may become one of them, or cease to be one.
LEMMA WakingMoves ==
  ASSUME TypeOK, NEW CONSTANT t \in Threads, NEW to, pc' = [pc EXCEPT ![t] = to]
  PROVE  /\ Cardinality(Waking) \in Nat
         /\ (pc[t] \in {"lockTake", "take"} <=> to \in {"lockTake", "take"}) => Waking' = Waking
         /\ pc[t] \notin {"lockTake", "take"} /\ to \in {"lockTake", "take"} =>
              Cardinality(Waking') = Cardinality(Waking) + 1
         /\ pc[t] \in {"lockTake", "take"} /\ to \notin {"lockTake", "take"} =>
              Cardinality(Waking') = Cardinality(Waking) - 1
<1>1. IsFiniteSet(Waking)
  BY SortAssumption, FS_Subset DEF Waking
<1>2. \A u \in Threads : pc'[u] = IF u = t THEN to ELSE pc[u]
  BY DEF TypeOK
<1>3. Cardinality(Waking) \in Nat
  BY <1>1, FS_CardinalityType
<1>4. (pc[t] \in {"lockTake", "take"} <=> to \in {"lockTake", "take"}) => Waking' = Waking
  BY <1>2 DEF Waking
<1>5. ASSUME pc[t] \notin {"lockTake", "take"}, to \in {"lockTake", "take"}
      PROVE  Cardinality(Waking') = Cardinality(Waking) + 1
  <2>1. Waking' = Waking \cup {t} /\ t \notin Waking
    BY <1>2, <1>5 DEF Waking
  <2> QED
    BY <1>1, <2>1, FS_AddElement
<1>6. ASSUME pc[t] \in {"lockTake", "take"}, to \notin {"lockTake", "take"}
      PROVE  Cardinality(Waking') = Cardinality(Waking) - 1
  <2>1. Waking' = Waking \ {t} /\ t \in Waking
    BY <1>2, <1>6 DEF Waking
  <2> QED
    BY <1>1, <2>1, FS_RemoveElement
<1> QED
  BY <1>3, <1>4, <1>5, <1>6

\* PermitsMatch by these threads.
LEMMA PermitsAre ==
  /\ PermitsMatch <=> (~ifAllThreadExit => Len(stack) = permits + Cardinality(Waking))
  /\ PermitsMatch' <=> (~ifAllThreadExit' => Len(stack') = permits' + Cardinality(Waking'))
BY DEF PermitsMatch, Waking

\* The invariant holds before the first run.
LEMMA Initially == Init => IInv
<1> SUFFICES ASSUME Init
             PROVE  IInv
  OBVIOUS
<1>1. TypeOK
  <2>1. <<0, 0>> \in Segments
    BY IndicesAre DEF Segments
  <2>2. <<>> \in Seq(Segments)
    OBVIOUS
  <2> QED
    <3>1. array \in [Indices -> Int] /\ input \in [Indices -> Int]
      BY DEF Init
    <3>2. job \in [Threads -> Segments] /\ cur \in [Threads -> Segments]
      BY <2>1 DEF Init
    <3>3. local \in [Threads -> Seq(Segments)] /\ stack \in Seq(Segments)
      BY <2>2 DEF Init
    <3>4. pc \in [Threads -> Labels]
      BY DEF Init, Labels
    <3> QED
      BY <3>1, <3>2, <3>3, <3>4 DEF TypeOK, Init
<1>2. Rests
  BY DEF Init, Rests
<1>3. Rounds
  BY DEF Init, Rounds, Pushing
<1>4. PermitsMatch
  <2>1. Waking = {}
    BY DEF Init, Waking
  <2> QED
    BY <2>1, PermitsAre, FS_EmptySet DEF Init
<1>5. Unsorted = {}
  <2>1. \A t \in Threads : Own(t) = {}
    BY DEF Init, Own, Numbered, Pushing
  <2>2. Numbered(Main, stack) = {}
    BY DEF Init, Numbered
  <2> QED
    BY <2>1, <2>2, UnsortedIs
<1>6. SegmentsDisjoint
  BY <1>5 DEF SegmentsDisjoint
<1>7. OrderedBut(array, Unsorted)
  BY DEF OrderedBut, Init
<1>8. SameElements
  BY DEF SameElements, Init
<1> QED
  BY <1>1, <1>2, <1>3, <1>4, <1>6, <1>7, <1>8 DEF IInv

\* A thread waits, locks, ends or is done: no segment moves.
LEMMA QuietThread ==
  ASSUME IInv, NEW CONSTANT t \in Threads,
         \/ SemWait(t) \/ Lock(t) \/ ExitThread(t) \/ FlowOffTheEnd(t)
         \/ EndLocal(t) \/ Idle(t)
  PROVE  IInv'
<1> USE DEF Move, mainVars, stackVars, jobVars
<1>0. TypeOK /\ Rests /\ PermitsMatch /\ Sorting
  BY DEF IInv, Sorting
<1>1. PICK to \in Labels : /\ pc' = [pc EXCEPT ![t] = to]
                           /\ \/ to = pc[t] /\ FlowOffTheEnd(t)
                              \/ pc[t] = "wait" /\ to = "lockTake" /\ SemWait(t)
                              \/ pc[t] = "lockTake" /\ to = "take" /\ Lock(t)
                              \/ pc[t] = "lockPush" /\ to = "push" /\ Lock(t)
                              \/ pc[t] = "lockIdle" /\ to = "idle" /\ Lock(t)
                              \/ pc[t] = "take" /\ to = "done" /\ ExitThread(t)
                              \/ pc[t] = "seq" /\ to = "lockIdle" /\ EndLocal(t)
                              \/ pc[t] = "idle" /\ to = "wait" /\ Idle(t)
  <2>1. CASE FlowOffTheEnd(t)
    BY <1>0, <2>1 DEF FlowOffTheEnd, TypeOK
  <2> QED
    BY <2>1 DEF SemWait, Lock, ExitThread, EndLocal, Idle, Labels
<1>2. \A u \in Threads : pc'[u] = IF u = t THEN to ELSE pc[u]
  BY <1>0, <1>1 DEF TypeOK
<1>3. UNCHANGED <<stack, array, input, jobVars, ifAllThreadExit>>
  BY DEF SemWait, Lock, ExitThread, FlowOffTheEnd, EndLocal, Idle
<1>4. Sorting'
  <2>1. Still
    BY <1>1, <1>2, <1>3 DEF Still
  <2> QED
    BY <1>0, <2>1, Quiet
<1>5. mainPc' = mainPc \/ mainPc' = "crashed"
  BY DEF SemWait, Lock, ExitThread, FlowOffTheEnd, EndLocal, Idle
<1>6. \/ permits' = permits
      \/ SemWait(t) /\ permits > 0 /\ permits' = permits - 1
  BY DEF SemWait, Lock, ExitThread, FlowOffTheEnd, EndLocal, Idle
<1>7. \/ busy' = busy
      \/ busy' = busy \ {t} /\ pc[t] = "idle" /\ to = "wait"
  BY <1>1 DEF SemWait, Lock, ExitThread, FlowOffTheEnd, EndLocal, Idle
<1>8. TypeOK'
  <2>1. permits' \in Nat
    BY <1>0, <1>6 DEF TypeOK
  <2>2. pc' \in [Threads -> Labels]
    BY <1>0, <1>1 DEF TypeOK
  <2> QED
    BY <1>0, <1>3, <1>5, <1>7, <2>1, <2>2 DEF TypeOK
<1>9. Rests'
  <2>1. pc[t] = "seq" /\ to = "lockIdle" => local[t] = <<>>
    BY <1>1 DEF EndLocal
  <2>2. \A u \in Threads : pc'[u] \notin {"out", "wait", "lockTake", "take", "done"} => u \in busy'
    BY <1>0, <1>1, <1>2, <1>7 DEF Rests, Labels
  <2>3. \A u \in Threads : pc'[u] \notin {"seq", "seqPart"} => local'[u] = <<>>
    BY <1>0, <1>1, <1>2, <1>3, <2>1 DEF Rests
  <2> QED
    BY <1>0, <1>3, <1>5, <1>7, <2>2, <2>3 DEF Rests
<1>10. PermitsMatch'
  <2> SUFFICES ASSUME ~ifAllThreadExit
               PROVE  Len(stack') = permits' + Cardinality(Waking')
    BY <1>3, PermitsAre
  <2>1. Len(stack) = permits + Cardinality(Waking) /\ stack' = stack
    BY <1>0, <1>3, PermitsAre
  <2>2. ~ExitThread(t) /\ ~FlowOffTheEnd(t)
    BY DEF ExitThread, FlowOffTheEnd
  <2>3. permits \in Nat /\ Cardinality(Waking) \in Nat
    BY <1>0, <1>1, WakingMoves DEF TypeOK
  <2>4. CASE pc[t] = "wait" /\ to = "lockTake" /\ SemWait(t)
    <3>1. Cardinality(Waking') = Cardinality(Waking) + 1
      BY <1>0, <1>1, <2>4, WakingMoves
    <3>2. permits' = permits - 1
      BY <2>4 DEF SemWait
    <3> QED
      BY <2>1, <2>3, <3>1, <3>2
  <2>5. CASE ~SemWait(t)
    <3>1. pc[t] \in {"lockTake", "take"} <=> to \in {"lockTake", "take"}
      BY <1>1, <2>2, <2>5
    <3>2. Waking' = Waking
      BY <1>0, <1>1, <3>1, WakingMoves
    <3>3. permits' = permits
      BY <1>6, <2>5
    <3> QED
      BY <2>1, <3>2, <3>3
  <2>6. CASE SemWait(t) /\ ~(pc[t] = "wait" /\ to = "lockTake")
    <3>1. pc[t] = "wait"
      BY <2>6 DEF SemWait
    <3> QED
      BY <1>1, <2>2, <2>6, <3>1
  <2> QED
    BY <2>4, <2>5, <2>6
<1> QED
  BY <1>4, <1>8, <1>9, <1>10 DEF IInv, Sorting

\* The whole array is the first segment.
LEMMA StartRunKeeps ==
  ASSUME IInv, StartRun
  PROVE  IInv'
<1> DEFINE all == <<0, ArrayLen - 1>>
<1>1. all \in Segments /\ \A i \in Indices : Inside(i, all)
  BY SortAssumption DEF Segments, Indices, Inside
<1>2. stack = <<>>
  BY DEF IInv, Rests, StartRun
<1>3. stack' = <<all>>
  <2>1. stack' = Append(stack, all)
    BY DEF StartRun
  <2> QED
    BY <1>2, <2>1
<1> HIDE DEF all
<1>4. stack' \in Seq(Segments) /\ Len(stack') = 1 /\ stack'[1] = all
  BY <1>1, <1>3
<1>5. array' = input' /\ array' \in [Indices -> Int]
  <2>1. Values \subseteq Int
    BY SortAssumption
  <2>2. input' \in [Indices -> Values] /\ array' = input'
    BY DEF StartRun
  <2> QED
    BY <2>1, <2>2
<1>6. \A t \in Threads : /\ pc'[t] = "out" /\ job'[t] = <<0, 0>> /\ cur'[t] = <<0, 0>>
                         /\ local'[t] = <<>>
  BY DEF StartRun
<1>7. TypeOK'
  <2>1. <<0, 0>> \in Segments
    BY IndicesAre DEF Segments
  <2>2. job' \in [Threads -> Segments] /\ cur' \in [Threads -> Segments]
    BY <2>1 DEF StartRun
  <2>3. pc' \in [Threads -> Labels]
    BY DEF StartRun, Labels
  <2>4. local' \in [Threads -> Seq(Segments)]
    BY DEF StartRun
  <2>5. mainPc' = "create" /\ permits' = 1 /\ busy' = {} /\ ifAllThreadExit' = FALSE
    BY DEF StartRun
  <2>6. permits' \in Nat
    BY <2>5
  <2> QED
    BY <1>4, <1>5, <2>2, <2>3, <2>4, <2>5, <2>6 DEF TypeOK
<1>8. Rests'
  BY <1>6 DEF Rests, StartRun
<1>9. Rounds'
  BY <1>6 DEF Rounds, Pushing
<1>10. PermitsMatch'
  <2>1. Waking' = {}
    BY <1>6 DEF Waking
  <2>2. permits' = 1
    BY DEF StartRun
  <2> QED
    BY <1>4, <2>1, <2>2, PermitsAre, FS_EmptySet
<1>11. Unsorted' = {<<Main, 1, all>>}
  <2>1. \A t \in Threads : Own(t)' = {}
    BY <1>6 DEF Own, Numbered, Pushing
  <2>2. Numbered(Main, stack') = {<<Main, 1, all>>}
    BY <1>3, NumberedFew
  <2> QED
    BY <2>1, <2>2, UnsortedIs
<1>12. SegmentsDisjoint'
  BY <1>11, DisjointIs DEF AllApart
<1>13. OrderedBut(array, Unsorted)'
  BY <1>1, <1>11, OrderedIs DEF OrderedBut
<1>14. SameElements'
  BY <1>5 DEF SameElements, Holding
<1> QED
  BY <1>7, <1>8, <1>9, <1>10, <1>12, <1>13, <1>14 DEF IInv

\* main creates, polls, tells the threads to exit and joins them: no segment moves.
LEMMA QuietMain ==
  ASSUME IInv, CreateThread \/ CreateFails \/ PollLock \/ Notify \/ Join \/ Return
  PROVE  IInv'
<1> USE DEF Move, mainVars, stackVars, jobVars
<1>0. TypeOK /\ Rests /\ PermitsMatch /\ Sorting
  BY DEF IInv, Sorting
<1>1. UNCHANGED <<stack, array, input, jobVars, busy>>
  BY DEF CreateThread, CreateFails, PollLock, Notify, Join, Return
<1>2. \A u \in Threads : pc'[u] = pc[u] \/ (pc[u] = "out" /\ pc'[u] = "wait")
  <2>1. CASE CreateThread
    BY <2>1, <1>0 DEF CreateThread, TypeOK
  <2>2. CASE ~CreateThread
    BY <2>2 DEF CreateFails, PollLock, Notify, Join, Return
  <2> QED
    BY <2>1, <2>2
<1>3. pc' \in [Threads -> Labels]
  <2>1. CASE CreateThread
    BY <2>1, <1>0 DEF CreateThread, TypeOK, Labels
  <2>2. CASE ~CreateThread
    BY <2>2, <1>0 DEF CreateFails, PollLock, Notify, Join, Return, TypeOK
  <2> QED
    BY <2>1, <2>2
<1>4. Sorting'
  <2>1. Still
    BY <1>1, <1>2 DEF Still
  <2> QED
    BY <1>0, <2>1, Quiet
<1>5. Waking' = Waking
  BY <1>2 DEF Waking
<1>6. CASE Notify /\ stack = <<>> /\ busy = {}
  <2>1. mainPc' = "join" /\ ifAllThreadExit' = TRUE /\ permits' = permits + Cardinality(Threads)
    BY <1>6 DEF Notify
  <2>2. Cardinality(Threads) \in Nat
    BY SortAssumption, FS_CardinalityType
  <2>3. permits' \in Nat
    BY <1>0, <2>1, <2>2 DEF TypeOK
  <2>4. TypeOK'
    BY <1>0, <1>1, <1>3, <2>1, <2>3 DEF TypeOK
  <2>5. Rests'
    BY <1>0, <1>1, <1>2, <1>6, <2>1 DEF Rests
  <2>6. PermitsMatch'
    BY <2>1, PermitsAre
  <2> QED
    BY <1>4, <2>4, <2>5, <2>6 DEF IInv, Sorting
<1>7. CASE ~(Notify /\ stack = <<>> /\ busy = {})
  <2>1. UNCHANGED <<permits, ifAllThreadExit>>
    BY <1>7 DEF CreateThread, CreateFails, PollLock, Notify, Join, Return
  <2>2. \/ mainPc = "create" /\ mainPc' \in {"create", "poll", "failed"}
        \/ mainPc = "poll" /\ mainPc' = "check"
        \/ mainPc = "check" /\ mainPc' = "poll"
        \/ mainPc = "join" /\ mainPc' = "start"
        \/ mainPc = "start" /\ mainPc' = "exited"
    BY <1>7 DEF CreateThread, CreateFails, PollLock, Notify, Join, Return
  <2>3. TypeOK'
    BY <1>0, <1>1, <1>3, <2>1, <2>2 DEF TypeOK
  <2>4. Rests'
    BY <1>0, <1>1, <1>2, <2>1, <2>2 DEF Rests
  <2>5. PermitsMatch'
    BY <1>0, <1>1, <1>5, <2>1, PermitsAre
  <2> QED
    BY <1>4, <2>3, <2>4, <2>5 DEF IInv, Sorting
<1> QED
  BY <1>6, <1>7

-----------------------------------------------------------------------------
(* Steps that move segments *)

\* A step that leaves the array and replaces segments A by N.
LEMMA Moved ==
  ASSUME SegmentsDisjoint, OrderedBut(array, Unsorted), SameElements,
         array' = array, input' = input, NEW A \in SUBSET Unsorted, NEW N,
         Unsorted' = (Unsorted \ A) \cup N, AllApart(N),
         \A n \in N : \E a \in A : n[3] = a[3],
         \A a \in A : \E n \in N : n[3] = a[3]
  PROVE  SegmentsDisjoint' /\ OrderedBut(array, Unsorted)' /\ SameElements'
<1>1. AllApart(Unsorted')
  <2>1. \A n \in N : \E a \in A : Within(n[3], a[3])
    BY DEF Within
  <2> QED
    BY <2>1, ReplaceApart, DisjointIs
<1>2. OrderedBut(array', Unsorted')
  BY ReplaceOrdered
<1>3. SameElements'
  BY DEF SameElements, Holding
<1> QED
  BY <1>1, <1>2, <1>3, DisjointIs, OrderedIs

\* The rounds of a thread that does not move stay as they are.
LEMMA RoundsStay ==
  ASSUME NEW CONSTANT t \in Threads, Rounds, array' = array,
         \A u \in Threads : u # t =>
           pc'[u] = pc[u] /\ job'[u] = job[u] /\ cur'[u] = cur[u],
         pc'[t] \in {"part", "seqPart"} => PartDone(t)',
         Pushing(t)' => Inside(cur'[t][1], job'[t])
  PROVE  Rounds'
<1>1. \A u \in Threads : u # t => (PartDone(u)' <=> PartDone(u)) /\ (Pushing(u)' <=> Pushing(u))
  BY DEF PartDone, Pushing
<1> QED
  BY <1>1 DEF Rounds

\* A thread takes the segment on top of the stack.
LEMMA TakeKeeps ==
  ASSUME IInv, NEW CONSTANT t \in Threads, Take(t)
  PROVE  IInv'
<1> USE DEF Move, mainVars, stackVars, jobVars
<1> DEFINE top == stack[Len(stack)]
           rest == SubSeq(stack, 1, Len(stack) - 1)
           to == IF top[2] - top[1] >= MinLen THEN "part" ELSE "seq"
           a == <<Main, Len(stack), top>>
           n == IF to = "part" THEN <<t, 0, top>> ELSE <<t, 1, top>>
<1>0. TypeOK /\ Rests /\ Rounds /\ PermitsMatch /\ SegmentsDisjoint
      /\ OrderedBut(array, Unsorted) /\ SameElements
  BY DEF IInv
<1>1. /\ stack # <<>> /\ ~ifAllThreadExit /\ pc[t] = "take"
      /\ stack' = rest /\ job' = [job EXCEPT ![t] = top] /\ cur' = [cur EXCEPT ![t] = top]
      /\ busy' = busy \cup {t} /\ pc' = [pc EXCEPT ![t] = to]
      /\ local' = IF to = "part" THEN local ELSE [local EXCEPT ![t] = <<top>>]
      /\ UNCHANGED <<mainPc, array, input, permits, ifAllThreadExit>>
  BY DEF Take
<1>2. /\ top \in Segments /\ rest \in Seq(Segments) /\ Len(rest) = Len(stack) - 1
      /\ a \in Numbered(Main, stack) /\ Numbered(Main, rest) = Numbered(Main, stack) \ {a}
  <2>1. stack \in Seq(Segments)
    BY <1>0 DEF TypeOK
  <2> QED
    BY <1>1, <2>1, NumberedPop
<1>3. to \in {"part", "seq"} /\ to \in Labels
  BY DEF Labels
<1>4. n[1] = t /\ n[3] = top /\ a[1] = Main /\ a[3] = top
  OBVIOUS
<1>5. local[t] = <<>>
  BY <1>0, <1>1 DEF Rests
<1>6. TypeOK'
  <2>1. job' \in [Threads -> Segments] /\ cur' \in [Threads -> Segments]
    BY <1>0, <1>1, <1>2 DEF TypeOK
  <2>2. pc' \in [Threads -> Labels]
    BY <1>0, <1>1, <1>3 DEF TypeOK
  <2>3. local' \in [Threads -> Seq(Segments)]
    <3>1. <<top>> \in Seq(Segments)
      BY <1>2
    <3> QED
      BY <1>0, <1>1, <3>1 DEF TypeOK
  <2> QED
    BY <1>0, <1>1, <1>2, <2>1, <2>2, <2>3 DEF TypeOK
<1>7. \A u \in Threads : u # t => pc'[u] = pc[u] /\ job'[u] = job[u] /\ cur'[u] = cur[u]
                                  /\ local'[u] = local[u]
  BY <1>0, <1>1 DEF TypeOK
<1>8. /\ pc'[t] = to /\ job'[t] = top /\ cur'[t] = top
      /\ local'[t] = IF to = "part" THEN <<>> ELSE <<top>>
  BY <1>0, <1>1, <1>5 DEF TypeOK
<1>9. Rests'
  <2>1. \A u \in Threads : pc'[u] \notin {"out", "wait", "lockTake", "take", "done"} => u \in busy'
    BY <1>0, <1>1, <1>7 DEF Rests
  <2>2. \A u \in Threads : pc'[u] \notin {"seq", "seqPart"} => local'[u] = <<>>
    BY <1>0, <1>3, <1>7, <1>8 DEF Rests
  <2>3. mainPc # "start"
    BY <1>0, <1>1 DEF Rests
  <2> QED
    BY <1>0, <1>1, <2>1, <2>2, <2>3 DEF Rests
<1>10. PermitsMatch'
  <2>1. Len(stack) = permits + Cardinality(Waking)
    BY <1>0, <1>1, PermitsAre
  <2>2. Cardinality(Waking') = Cardinality(Waking) - 1 /\ Cardinality(Waking) \in Nat
    BY <1>0, <1>1, <1>3, WakingMoves
  <2>3. permits \in Nat /\ permits' = permits /\ Len(stack') = Len(stack) - 1
    BY <1>0, <1>1, <1>2 DEF TypeOK
  <2> QED
    BY <2>1, <2>2, <2>3, PermitsAre
<1>11. Own(t) = {}
  BY <1>1, <1>5, NumberedFew DEF Own, Pushing
<1>12. Own(t)' = {n}
  <2>1. Own(t)' = Numbered(t, local'[t])
                  \cup (IF to = "part" THEN {<<t, 0, top>>} ELSE {})
    BY <1>3, <1>8 DEF Own, Pushing, Numbered
  <2> QED
    BY <1>3, <1>8, <2>1, NumberedFew
<1> HIDE DEF n, a, top, rest, to
<1>13. Unsorted' = (Unsorted \ {a}) \cup {n} /\ {a} \subseteq Unsorted
  <2>1. Numbered(Main, stack') \cup Own(t)'
          = ((Numbered(Main, stack) \cup Own(t)) \ {a}) \cup {n}
    BY <1>1, <1>2, <1>11, <1>12
  <2>2. {a} \subseteq Numbered(Main, stack) \cup Own(t)
    BY <1>2
  <2> QED
    BY <1>7, <2>1, <2>2, ThreadMoves
<1>14. SegmentsDisjoint' /\ OrderedBut(array, Unsorted)' /\ SameElements'
  <2>1. AllApart({n})
    BY DEF AllApart
  <2> QED
    BY <1>0, <1>1, <1>4, <1>13, <2>1, Moved
<1>15. Rounds'
  <2>1. PartDone(t)'
    <3>1. Done(array', top, top)
      BY <1>2, <1>6, NothingDone DEF TypeOK
    <3> QED
      BY <1>8, <3>1 DEF PartDone, Done
  <2>2. ~Pushing(t)'
    BY <1>3, <1>8 DEF Pushing
  <2> QED
    BY <1>0, <1>1, <1>7, <2>1, <2>2, RoundsStay
<1> QED
  BY <1>6, <1>9, <1>10, <1>14, <1>15 DEF IInv

\* A thread takes the segment on top of its own stack.
LEMMA NextLocalKeeps ==
  ASSUME IInv, NEW CONSTANT t \in Threads, NextLocal(t)
  PROVE  IInv'
<1> USE DEF Move, mainVars, stackVars, jobVars
<1> DEFINE mine == local[t]
           top == mine[Len(mine)]
           rest == SubSeq(mine, 1, Len(mine) - 1)
           a == <<t, Len(mine), top>>
           n == <<t, 0, top>>
<1>0. TypeOK /\ Rests /\ Rounds /\ PermitsMatch /\ SegmentsDisjoint
      /\ OrderedBut(array, Unsorted) /\ SameElements
  BY DEF IInv
<1>1. /\ mine # <<>> /\ pc[t] = "seq" /\ pc' = [pc EXCEPT ![t] = "seqPart"]
      /\ job' = [job EXCEPT ![t] = top] /\ cur' = [cur EXCEPT ![t] = top]
      /\ local' = [local EXCEPT ![t] = rest]
      /\ UNCHANGED <<mainPc, array, input, stack, permits, busy, ifAllThreadExit>>
  BY <1>0 DEF NextLocal, TypeOK
<1>2. /\ top \in Segments /\ rest \in Seq(Segments)
      /\ a \in Numbered(t, mine) /\ Numbered(t, rest) = Numbered(t, mine) \ {a}
  <2>1. mine \in Seq(Segments)
    BY <1>0 DEF TypeOK
  <2> QED
    BY <1>1, <2>1, NumberedPop
<1>3. n[3] = top /\ a[3] = top /\ mine \in Seq(Segments) /\ Len(mine) \in Nat \ {0}
  BY <1>0, <1>1 DEF TypeOK
<1>4. n \notin Numbered(t, mine)
  BY <1>3 DEF Numbered
<1>6. TypeOK'
  <2>1. job' \in [Threads -> Segments] /\ cur' \in [Threads -> Segments]
    BY <1>0, <1>1, <1>2 DEF TypeOK
  <2>2. pc' \in [Threads -> Labels]
    BY <1>0, <1>1 DEF TypeOK, Labels
  <2>3. local' \in [Threads -> Seq(Segments)]
    BY <1>0, <1>1, <1>2 DEF TypeOK
  <2> QED
    BY <1>0, <1>1, <2>1, <2>2, <2>3 DEF TypeOK
<1>7. \A u \in Threads : u # t => pc'[u] = pc[u] /\ job'[u] = job[u] /\ cur'[u] = cur[u]
                                  /\ local'[u] = local[u]
  BY <1>0, <1>1 DEF TypeOK
<1>8. pc'[t] = "seqPart" /\ job'[t] = top /\ cur'[t] = top /\ local'[t] = rest
  BY <1>0, <1>1 DEF TypeOK
<1>9. Rests'
  <2>1. \A u \in Threads : pc'[u] \notin {"out", "wait", "lockTake", "take", "done"} => u \in busy'
    BY <1>0, <1>1, <1>7 DEF Rests
  <2>2. \A u \in Threads : pc'[u] \notin {"seq", "seqPart"} => local'[u] = <<>>
    BY <1>0, <1>7, <1>8 DEF Rests
  <2> QED
    BY <1>0, <1>1, <2>1, <2>2 DEF Rests
<1>10. PermitsMatch'
  <2>1. Waking' = Waking
    BY <1>1, <1>7, <1>8 DEF Waking
  <2> QED
    BY <1>0, <1>1, <2>1, PermitsAre
<1>11. Own(t) = Numbered(t, mine)
  BY <1>1 DEF Own, Pushing
<1>12. Own(t)' = Numbered(t, rest) \cup {n}
  BY <1>8 DEF Own, Pushing, Numbered
<1> HIDE DEF n, a, top, rest, mine
<1>13. Unsorted' = (Unsorted \ {a}) \cup {n} /\ {a} \subseteq Unsorted
  <2>1. Numbered(Main, stack') \cup Own(t)'
          = ((Numbered(Main, stack) \cup Own(t)) \ {a}) \cup {n}
    <3>1. a[1] = t /\ \A x \in Numbered(Main, stack) : x[1] = Main
      BY DEF a, Numbered
    <3>2. a \notin Numbered(Main, stack)
      BY <3>1, SortAssumption
    <3> QED
      BY <1>1, <1>2, <1>11, <1>12, <3>2
  <2>2. {a} \subseteq Numbered(Main, stack) \cup Own(t)
    BY <1>2, <1>11
  <2> QED
    BY <1>7, <2>1, <2>2, ThreadMoves
<1>14. SegmentsDisjoint' /\ OrderedBut(array, Unsorted)' /\ SameElements'
  <2>1. AllApart({n})
    BY DEF AllApart
  <2>2. array' = array /\ input' = input
    BY <1>1
  <2>3. /\ \A x \in {n} : \E y \in {a} : x[3] = y[3]
        /\ \A y \in {a} : \E x \in {n} : x[3] = y[3]
    BY <1>3
  <2> QED
    BY ONLY <1>0, <1>13, <2>1, <2>2, <2>3, Moved
<1>15. Rounds'
  <2>1. PartDone(t)'
    <3>1. Done(array', top, top)
      BY <1>2, <1>6, NothingDone DEF TypeOK
    <3> QED
      BY <1>8, <3>1 DEF PartDone, Done
  <2>2. ~Pushing(t)'
    BY <1>8 DEF Pushing
  <2> QED
    BY <1>0, <1>1, <1>7, <2>1, <2>2, RoundsStay
<1> QED
  BY <1>6, <1>9, <1>10, <1>14, <1>15 DEF IInv

\* A thread pushes the parts.
LEMMA PushKeeps ==
  ASSUME IInv, NEW CONSTANT t \in Threads, Push(t)
  PROVE  IInv'
<1> USE DEF Move, mainVars, stackVars, jobVars
<1> DEFINE parts == Parts(job[t], cur[t][1])
           A == Numbered(t, parts)
           N == {<<Main, Len(stack) + k, parts[k]>> : k \in 1..Len(parts)}
<1>0. TypeOK /\ Rests /\ Rounds /\ PermitsMatch /\ SegmentsDisjoint
      /\ OrderedBut(array, Unsorted) /\ SameElements
  BY DEF IInv
<1>1. /\ pc[t] = "push" /\ pc' = [pc EXCEPT ![t] = "wait"]
      /\ stack' = stack \o parts /\ permits' = permits + Len(parts)
      /\ busy' = busy \ {t}
      /\ UNCHANGED <<mainPc, array, input, job, cur, local, ifAllThreadExit>>
  BY DEF Push
<1>2. /\ parts \in Seq(Segments)
      /\ \A k, m \in 1..Len(parts) : k # m => Apart(parts[k], parts[m])
  <2>1. job[t] \in Segments /\ cur[t][1] \in Int
    BY <1>0, SegmentsAre DEF TypeOK
  <2>2. Inside(cur[t][1], job[t])
    BY <1>0, <1>1 DEF Rounds, Pushing
  <2> QED
    BY <2>1, <2>2, PartsAre
<1>3. Len(parts) \in Nat /\ DOMAIN parts = 1..Len(parts) /\ Len(stack) \in Nat
      /\ stack \in Seq(Segments) /\ permits \in Nat
  BY <1>0, <1>2 DEF TypeOK
<1>4. local[t] = <<>>
  BY <1>0, <1>1 DEF Rests
<1>5. Own(t) = A
  BY <1>1, <1>4, NumberedFew DEF Own, Pushing
<1> HIDE DEF parts
<1>6. stack' \in Seq(Segments) /\ Len(stack') = Len(stack) + Len(parts)
  BY <1>1, <1>2, <1>3
<1>7. \A u \in Threads : u # t => pc'[u] = pc[u] /\ job'[u] = job[u] /\ cur'[u] = cur[u]
                                  /\ local'[u] = local[u]
  BY <1>0, <1>1 DEF TypeOK
<1>8. pc'[t] = "wait" /\ local'[t] = <<>>
  BY <1>0, <1>1, <1>4 DEF TypeOK
<1>9. TypeOK'
  <2>1. pc' \in [Threads -> Labels]
    BY <1>0, <1>1 DEF TypeOK, Labels
  <2>2. permits' \in Nat
    BY <1>1, <1>3
  <2> QED
    BY <1>0, <1>1, <1>6, <2>1, <2>2 DEF TypeOK
<1>10. t \in busy /\ ~ifAllThreadExit /\ mainPc # "start"
  BY <1>0, <1>1 DEF Rests
<1>11. Rests'
  <2>1. \A u \in Threads : pc'[u] \notin {"out", "wait", "lockTake", "take", "done"} => u \in busy'
    BY <1>0, <1>1, <1>7, <1>8 DEF Rests
  <2>2. \A u \in Threads : pc'[u] \notin {"seq", "seqPart"} => local'[u] = <<>>
    BY <1>0, <1>7, <1>8 DEF Rests
  <2> QED
    BY <1>0, <1>1, <1>10, <2>1, <2>2 DEF Rests
<1>12. PermitsMatch'
  <2>1. Waking' = Waking
    BY <1>1, <1>7, <1>8 DEF Waking
  <2>4. Cardinality(Waking) \in Nat
    BY <1>0, <1>1, WakingMoves
  <2>2. Len(stack) = permits + Cardinality(Waking)
    BY <1>0, <1>10, PermitsAre
  <2>3. Len(stack') = permits' + Cardinality(Waking')
    BY <1>1, <1>3, <1>6, <2>1, <2>2, <2>4
  <2> QED
    BY <2>3, PermitsAre
<1>13. Own(t)' = {}
  BY <1>8, NumberedFew DEF Own, Pushing, Numbered
<1>14. Numbered(Main, stack') = Numbered(Main, stack) \cup N
  <2>1. N = Pushed(Main, Len(stack), parts)
    BY DEF Pushed
  <2> HIDE DEF N, parts
  <2>2. Numbered(Main, stack \o parts)
          = Numbered(Main, stack) \cup Pushed(Main, Len(stack), parts)
    BY <1>2, <1>3, NumberedPush
  <2> QED
    BY <1>1, <2>1, <2>2
<1>15. Numbered(Main, stack) \cap A = {}
  BY SortAssumption DEF Numbered
<1>16. /\ \A n \in N : \E a \in A : n[3] = a[3]
       /\ \A a \in A : \E n \in N : n[3] = a[3]
  <2>1. ASSUME NEW n \in N
        PROVE  \E a \in A : n[3] = a[3]
    <3>1. PICK k \in 1..Len(parts) : n = <<Main, Len(stack) + k, parts[k]>>
      OBVIOUS
    <3>2. <<t, k, parts[k]>> \in A
      BY <1>3 DEF Numbered
    <3> HIDE DEF A
    <3>3. <<t, k, parts[k]>>[3] = n[3]
      BY <3>1
    <3> QED
      BY <3>2, <3>3
  <2>2. ASSUME NEW a \in A
        PROVE  \E n \in N : n[3] = a[3]
    <3>1. PICK k \in 1..Len(parts) : a = <<t, k, parts[k]>>
      BY <1>3 DEF Numbered
    <3>2. <<Main, Len(stack) + k, parts[k]>> \in N
      OBVIOUS
    <3> HIDE DEF N
    <3>3. <<Main, Len(stack) + k, parts[k]>>[3] = a[3]
      BY <3>1
    <3> QED
      BY <3>2, <3>3
  <2> HIDE DEF A, N
  <2> QED
    BY <2>1, <2>2
<1>17. AllApart(N)
  BY <1>2 DEF AllApart
<1> HIDE DEF A, N
<1>18. Unsorted' = (Unsorted \ A) \cup N /\ A \subseteq Unsorted
  <2>1. Numbered(Main, stack') \cup Own(t)'
          = ((Numbered(Main, stack) \cup Own(t)) \ A) \cup N
    BY <1>5, <1>13, <1>14, <1>15
  <2>2. A \subseteq Numbered(Main, stack) \cup Own(t)
    BY <1>5
  <2> QED
    BY <1>7, <2>1, <2>2, ThreadMoves
<1>19. SegmentsDisjoint' /\ OrderedBut(array, Unsorted)' /\ SameElements'
  BY <1>0, <1>1, <1>16, <1>17, <1>18, Moved
<1>20. Rounds'
  BY <1>0, <1>1, <1>7, <1>8, RoundsStay DEF Pushing
<1> QED
  BY <1>9, <1>11, <1>12, <1>19, <1>20 DEF IInv

-----------------------------------------------------------------------------
(* PartSort *)

\* What a thread that partitions may rely on.
LEMMA InWork ==
  ASSUME IInv, NEW CONSTANT t \in Threads, pc[t] \in {"part", "seqPart"}
  PROVE  /\ job[t] \in Segments /\ cur[t] \in Segments /\ PartDone(t)
         /\ <<t, 0, job[t]>> \in Unsorted /\ <<t, 0, job[t]>>[3] = job[t]
         /\ \A u \in Threads : u # t /\ pc[u] \in {"part", "seqPart"} => Apart(job[u], job[t])
<1>1. job[t] \in Segments /\ cur[t] \in Segments /\ PartDone(t)
  BY DEF IInv, TypeOK, Rounds
<1>2. \A u \in Threads : pc[u] \in {"part", "seqPart"} => <<u, 0, job[u]>> \in Unsorted
  BY UnsortedIs DEF Own
<1>3. \A u \in Threads : u # t /\ pc[u] \in {"part", "seqPart"} => Apart(job[u], job[t])
  <2> SUFFICES ASSUME NEW u \in Threads, u # t, pc[u] \in {"part", "seqPart"}
               PROVE  Apart(job[u], job[t])
    OBVIOUS
  <2>1. <<u, 0, job[u]>> # <<t, 0, job[t]>>
    OBVIOUS
  <2>2. AllApart(Unsorted)
    BY DisjointIs DEF IInv
  <2>3. Apart(<<u, 0, job[u]>>[3], <<t, 0, job[t]>>[3])
    BY <1>2, <2>1, <2>2 DEF AllApart
  <2> QED
    BY <2>3
<1> QED
  BY <1>1, <1>2, <1>3

\* A swap inside the segment of one thread leaves the others' work as it is.
LEMMA OthersDone ==
  ASSUME IInv, NEW CONSTANT t \in Threads, pc[t] \in {"part", "seqPart"},
         NEW x \in Indices, NEW y \in Indices, Inside(x, job[t]), Inside(y, job[t]),
         array' = swap(array, x, y),
         NEW CONSTANT u \in Threads, u # t, job'[u] = job[u], cur'[u] = cur[u],
         pc[u] \in {"part", "seqPart"}
  PROVE  PartDone(u)'
<1>1. job[u] \in Segments /\ cur[u] \in Segments /\ PartDone(u) /\ Apart(job[u], job[t])
  BY InWork
<1>2. array \in [Indices -> Int]
  BY DEF IInv, TypeOK
<1>3. Done(swap(array, x, y), job[u], cur[u])
  BY <1>1, <1>2, DoneElsewhere DEF PartDone
<1> QED
  BY <1>3 DEF PartDone, Done

\* A round of PartSort.
LEMMA PartRoundKeeps ==
  ASSUME IInv, NEW CONSTANT t \in Threads, PartRound(t)
  PROVE  IInv'
<1> USE DEF mainVars, stackVars, jobVars
<1>0. TypeOK /\ Rests /\ Rounds /\ PermitsMatch /\ SegmentsDisjoint
      /\ OrderedBut(array, Unsorted) /\ SameElements
  BY DEF IInv
<1>1. PICK l, r \in (cur[t][1])..(cur[t][2]) :
        /\ StopsUp(array, cur[t][1], cur[t][2], job[t][2], l)
        /\ StopsDown(array, l, cur[t][2], job[t][2], r)
        /\ array' = swap(array, l, r)
        /\ cur' = [cur EXCEPT ![t] = <<l, r>>]
  BY DEF PartRound
<1>2. /\ pc[t] \in {"part", "seqPart"}
      /\ UNCHANGED <<mainPc, input, stack, permits, busy, ifAllThreadExit, pc, job, local>>
  BY DEF PartRound, Partitioning
<1>3. /\ job[t] \in Segments /\ cur[t] \in Segments /\ Done(array, job[t], cur[t])
      /\ <<t, 0, job[t]>> \in Unsorted /\ <<t, 0, job[t]>>[3] = job[t]
  BY <1>2, InWork DEF PartDone
<1>4. array \in [Indices -> Int]
  BY <1>0 DEF TypeOK
<1>5. /\ l \in Indices /\ Inside(l, job[t]) /\ r \in Indices /\ Inside(r, job[t])
      /\ <<l, r>> \in Segments
      /\ Done(swap(array, l, r), job[t], <<l, r>>)
  BY <1>1, <1>3, <1>4, RoundIs
<1>6. array' \in [Indices -> Int]
  BY <1>1, <1>4, <1>5, SwapIs
<1>7. TypeOK'
  <2>1. cur' \in [Threads -> Segments]
    BY <1>0, <1>1, <1>5 DEF TypeOK
  <2> QED
    BY <1>0, <1>2, <1>6, <2>1 DEF TypeOK
<1>8. /\ \A u \in Threads : u # t => cur'[u] = cur[u]
      /\ cur'[t] = <<l, r>>
  BY <1>0, <1>1 DEF TypeOK
<1>9. Rounds'
  <2>1. \A u \in Threads : u # t /\ pc[u] \in {"part", "seqPart"} => PartDone(u)'
    BY <1>1, <1>2, <1>5, <1>8, OthersDone
  <2>2. PartDone(t)'
    BY <1>1, <1>2, <1>5, <1>8 DEF PartDone, Done
  <2>3. \A u \in Threads : Pushing(u)' => u # t /\ Pushing(u)
    BY <1>2 DEF Pushing
  <2> QED
    BY <1>0, <1>2, <1>8, <2>1, <2>2, <2>3 DEF Rounds
<1>10. \A u \in Threads : Own(u)' = Own(u)
  BY <1>2, <1>8 DEF Own, Pushing, Numbered
<1>11. Unsorted' = Unsorted
  BY <1>2, <1>10, UnsortedIs
<1>12. SegmentsDisjoint'
  BY <1>0, <1>11, DisjointIs
<1>13. OrderedBut(array, Unsorted)'
  <2>1. AllApart(Unsorted)
    BY <1>0, DisjointIs
  <2>2. OrderedBut(array', Unsorted)
    BY <1>0, <1>1, <1>3, <1>4, <1>5, <2>1, SwapOrdered
  <2> QED
    BY <1>11, <2>2, OrderedIs
<1>14. SameElements'
  <2>1. \A v \in Int : Holding(array', v) = Holding(array, v)
    BY <1>1, <1>4, <1>5, SwapHolds
  <2> QED
    BY <1>0, <1>2, <2>1 DEF SameElements, Holding
<1>15. Rests'
  BY <1>0, <1>2 DEF Rests
<1>16. PermitsMatch'
  BY <1>0, <1>2 DEF PermitsMatch
<1> QED
  BY <1>7, <1>9, <1>12, <1>13, <1>14, <1>15, <1>16 DEF IInv

\* The pivot gets to its place: the segment is in order except in its parts.
LEMMA PartEndKeeps ==
  ASSUME IInv, NEW CONSTANT t \in Threads, PartEnd(t)
  PROVE  IInv'
<1> USE DEF Move, mainVars, stackVars, jobVars
<1> DEFINE lo == job[t][1]
           hi == job[t][2]
           place == cur[t][1]
           parts == Parts(job[t], place)
           mine == local[t]
           a == <<t, 0, job[t]>>
           from == IF pc[t] = "part" THEN 0 ELSE Len(mine)
           N == {<<t, from + k, parts[k]>> : k \in 1..Len(parts)}
<1>0. TypeOK /\ Rests /\ Rounds /\ PermitsMatch /\ SegmentsDisjoint
      /\ OrderedBut(array, Unsorted) /\ SameElements
  BY DEF IInv
<1>1. /\ cur[t][1] >= cur[t][2] /\ array' = swap(array, place, hi)
      /\ \/ pc[t] = "part" /\ pc' = [pc EXCEPT ![t] = "lockPush"] /\ local' = local
         \/ /\ pc[t] = "seqPart" /\ pc' = [pc EXCEPT ![t] = "seq"]
            /\ local' = [local EXCEPT ![t] = mine \o parts]
      /\ UNCHANGED <<mainPc, input, stack, permits, busy, ifAllThreadExit, job, cur>>
  BY <1>0 DEF PartEnd, TypeOK
<1>2. pc[t] \in {"part", "seqPart"}
  BY <1>1
<1>3. /\ job[t] \in Segments /\ cur[t] \in Segments /\ Done(array, job[t], cur[t])
      /\ a \in Unsorted /\ a[3] = job[t]
  BY <1>2, InWork DEF PartDone
<1>4. array \in [Indices -> Int]
  BY <1>0 DEF TypeOK
<1>5. /\ place \in Indices /\ Inside(place, job[t])
      /\ hi \in Indices /\ Inside(hi, job[t])
      /\ \A i, k \in Indices : /\ i <= place /\ place <= k
                                /\ Inside(i, job[t]) /\ Inside(k, job[t])
           => swap(array, place, hi)[i] <= swap(array, place, hi)[k]
  BY <1>1, <1>3, <1>4, EndIs
<1>6. array' \in [Indices -> Int] /\ place \in Int
  BY <1>1, <1>4, <1>5, SwapIs, IndicesAre
<1>7. /\ parts \in Seq(Segments)
      /\ \A k \in 1..Len(parts) : Within(parts[k], job[t])
      /\ \A k, m \in 1..Len(parts) : k # m => Apart(parts[k], parts[m])
      /\ \A i, m \in Int : i < m /\ Inside(i, job[t]) /\ Inside(m, job[t]) =>
           \/ i <= place /\ place <= m
           \/ \E k \in 1..Len(parts) : Inside(i, parts[k]) /\ Inside(m, parts[k])
  BY <1>3, <1>5, <1>6, PartsAre
<1>8. mine \in Seq(Segments) /\ Len(mine) \in Nat /\ Len(parts) \in Nat
      /\ DOMAIN parts = 1..Len(parts)
  BY <1>0, <1>7 DEF TypeOK
<1>9. \A u \in Threads : u # t => pc'[u] = pc[u] /\ job'[u] = job[u] /\ cur'[u] = cur[u]
                                   /\ local'[u] = local[u]
  BY <1>0, <1>1 DEF TypeOK
<1>10. /\ job'[t] = job[t] /\ cur'[t] = cur[t]
       /\ \/ pc[t] = "part" /\ pc'[t] = "lockPush" /\ local'[t] = mine
          \/ pc[t] = "seqPart" /\ pc'[t] = "seq" /\ local'[t] = mine \o parts
  BY <1>0, <1>1 DEF TypeOK
<1>11. mine \o parts \in Seq(Segments)
  BY <1>7, <1>8
<1>12. TypeOK'
  <2>1. pc' \in [Threads -> Labels]
    BY <1>0, <1>1 DEF TypeOK, Labels
  <2>2. local' \in [Threads -> Seq(Segments)]
    BY <1>0, <1>1, <1>11 DEF TypeOK
  <2> QED
    BY <1>0, <1>1, <1>6, <2>1, <2>2 DEF TypeOK
<1>13. Rests'
  <2>1. \A u \in Threads : pc'[u] \notin {"out", "wait", "lockTake", "take", "done"} => u \in busy'
    BY <1>0, <1>1, <1>2, <1>9 DEF Rests
  <2>2. \A u \in Threads : pc'[u] \notin {"seq", "seqPart"} => local'[u] = <<>>
    BY <1>0, <1>9, <1>10 DEF Rests
  <2> QED
    BY <1>0, <1>1, <2>1, <2>2 DEF Rests
<1>14. PermitsMatch'
  <2>1. Waking' = Waking
    BY <1>9, <1>10 DEF Waking
  <2> QED
    BY <1>0, <1>1, <2>1, PermitsAre
<1>15. Rounds'
  <2>1. \A u \in Threads : u # t /\ pc[u] \in {"part", "seqPart"} => PartDone(u)'
    BY <1>1, <1>2, <1>5, <1>9, OthersDone
  <2>2. pc'[t] \notin {"part", "seqPart"}
    BY <1>10
  <2>3. Inside(cur'[t][1], job'[t])
    BY <1>5, <1>10
  <2>4. \A u \in Threads : u # t => (Pushing(u)' <=> Pushing(u))
    BY <1>9 DEF Pushing
  <2> HIDE DEF lo, hi, place, parts, mine, a, from, N
  <2>5. \A u \in Threads : pc'[u] \in {"part", "seqPart"} => PartDone(u)'
    BY <1>9, <2>1, <2>2
  <2>6. \A u \in Threads : Pushing(u)' => Inside(cur'[u][1], job'[u])
    BY <1>0, <1>9, <2>3, <2>4 DEF Rounds
  <2> QED
    BY <2>5, <2>6 DEF Rounds
<1>16. SameElements'
  <2>1. \A v \in Int : Holding(array', v) = Holding(array, v)
    BY <1>1, <1>4, <1>5, SwapHolds
  <2> QED
    BY <1>0, <1>1, <2>1 DEF SameElements, Holding
<1>17. /\ Own(t) = Numbered(t, mine) \cup {a}
       /\ Own(t)' = Numbered(t, mine) \cup N
       /\ a \notin Numbered(t, mine)
  <2>1. Own(t) = Numbered(t, mine) \cup {a}
    BY <1>2 DEF Own, Pushing
  <2>2. a \notin Numbered(t, mine)
    BY <1>8 DEF Numbered
  <2>3. CASE pc[t] = "part"
    <3>1. mine = <<>> /\ from = 0
      BY <1>0, <2>3 DEF Rests
    <3>2. N = Numbered(t, parts)
      BY <1>8, <3>1 DEF Numbered
    <3>3. pc'[t] = "lockPush" /\ local'[t] = mine
      BY <1>10, <2>3
    <3>4. Own(t)' = Numbered(t, mine) \cup Numbered(t, parts)
      BY <1>10, <3>3 DEF Own, Pushing, Numbered
    <3> QED
      BY <2>1, <2>2, <3>2, <3>4
  <2>4. CASE pc[t] = "seqPart"
    <3>1. from = Len(mine) /\ pc'[t] = "seq" /\ local'[t] = mine \o parts
      BY <1>10, <2>4
    <3>2. Numbered(t, mine \o parts) = Numbered(t, mine) \cup N
      <4>1. N = Pushed(t, Len(mine), parts)
        BY <3>1 DEF Pushed
      <4> HIDE DEF mine, parts, N
      <4>2. Numbered(t, mine \o parts) = Numbered(t, mine) \cup Pushed(t, Len(mine), parts)
        BY <1>7, <1>8, NumberedPush
      <4> QED
        BY <4>1, <4>2
    <3>3. Own(t)' = Numbered(t, mine \o parts)
      BY <3>1 DEF Own, Pushing, Numbered
    <3> QED
      BY <2>1, <2>2, <3>2, <3>3
  <2> QED
    BY <1>2, <2>1, <2>2, <2>3, <2>4
<1>18. /\ \A n \in N : Within(n[3], job[t])
       /\ AllApart(N)
       /\ \A k \in 1..Len(parts) : \E n \in N : n[3] = parts[k]
  <2> HIDE DEF lo, hi, place, parts, mine, a, from
  <2>1. \A n \in N : \E k \in 1..Len(parts) : n = <<t, from + k, parts[k]>>
    OBVIOUS
  <2>2. \A k \in 1..Len(parts) : <<t, from + k, parts[k]>> \in N
                                 /\ <<t, from + k, parts[k]>>[3] = parts[k]
    OBVIOUS
  <2>3. \A n, m \in N : n # m => Apart(n[3], m[3])
    <3> SUFFICES ASSUME NEW n \in N, NEW m \in N, n # m
                 PROVE  Apart(n[3], m[3])
      OBVIOUS
    <3>1. PICK k \in 1..Len(parts) : n = <<t, from + k, parts[k]>>
      BY <2>1
    <3>2. PICK j \in 1..Len(parts) : m = <<t, from + j, parts[j]>>
      BY <2>1
    <3>3. k # j
      BY <3>1, <3>2
    <3> QED
      BY <1>7, <3>1, <3>2, <3>3
  <2> HIDE DEF N
  <2> QED
    BY <1>7, <2>1, <2>2, <2>3 DEF AllApart
<1> HIDE DEF a, N, parts, mine, from
<1>19. Unsorted' = (Unsorted \ {a}) \cup N /\ {a} \subseteq Unsorted
  <2>1. a \notin Numbered(Main, stack)
    BY SortAssumption DEF Numbered, a
  <2>2. Numbered(Main, stack') \cup Own(t)'
          = ((Numbered(Main, stack) \cup Own(t)) \ {a}) \cup N
    BY <1>1, <1>17, <2>1
  <2>3. {a} \subseteq Numbered(Main, stack) \cup Own(t)
    BY <1>17
  <2> QED
    BY <1>9, <2>2, <2>3, ThreadMoves
<1>20. SegmentsDisjoint'
  <2>1. \A n \in N : \E b \in {a} : Within(n[3], b[3])
    BY <1>3, <1>18
  <2>2. AllApart(Unsorted)
    BY <1>0, DisjointIs
  <2>3. AllApart((Unsorted \ {a}) \cup N)
    BY <1>18, <1>19, <2>1, <2>2, ReplaceApart
  <2> QED
    BY <1>19, <2>3, DisjointIs
<1>21. OrderedBut(array, Unsorted)'
  <2>1. AllApart(Unsorted)
    BY <1>0, DisjointIs
  <2>2. OrderedBut(array', Unsorted)
    BY <1>0, <1>1, <1>3, <1>4, <1>5, <2>1, SwapOrdered
  <2>3. ASSUME NEW i \in Indices, NEW k \in Indices, i < k,
               Inside(i, job[t]), Inside(k, job[t])
        PROVE  array'[i] <= array'[k]
               \/ \E n \in N : Inside(i, n[3]) /\ Inside(k, n[3])
    <3>1. i \in Int /\ k \in Int
      BY IndicesAre
    <3>2. CASE i <= place /\ place <= k
      BY <1>1, <1>5, <2>3, <3>2
    <3>3. CASE ~(i <= place /\ place <= k)
      BY <1>7, <1>18, <2>3, <3>1, <3>3
    <3> QED
      BY <3>2, <3>3
  <2>4. OrderedBut(array', (Unsorted \ {a}) \cup N)
    BY <1>3, <2>2, <2>3, SplitOrdered
  <2> QED
    BY <1>19, <2>4, OrderedIs
<1> QED
  BY <1>12, <1>13, <1>14, <1>15, <1>16, <1>20, <1>21 DEF IInv

-----------------------------------------------------------------------------
(* The theorems *)

\* Every step of the pool keeps its invariant.
LEMMA NextKeeps == IInv /\ [Next]_vars => IInv'
<1> SUFFICES ASSUME IInv, [Next]_vars
             PROVE  IInv'
  OBVIOUS
<1>1. CASE UNCHANGED vars
  <2>1. UNCHANGED <<mainPc, runs, input, array, stack, permits, busy, ifAllThreadExit, mutex, pc,
                    job, cur, local>>
    BY <1>1 DEF vars, mainVars, stackVars, jobVars
  <2>2. Sorting'
    <3>1. Still
      BY <2>1 DEF Still, jobVars
    <3> QED
      BY <3>1, Quiet DEF IInv, Sorting
  <2>3. TypeOK'
    BY <2>1 DEF IInv, TypeOK
  <2>4. Rests'
    BY <2>1 DEF IInv, Rests
  <2>5. PermitsMatch'
    BY <2>1 DEF IInv, PermitsMatch
  <2> QED
    BY <2>2, <2>3, <2>4, <2>5 DEF IInv, Sorting
<1>2. CASE doSortTest
  BY <1>2, StartRunKeeps, QuietMain DEF doSortTest
<1>3. ASSUME NEW CONSTANT t \in Threads, QuickSortParallel(t)
      PROVE  IInv'
  BY <1>3, QuietThread, TakeKeeps, PartRoundKeeps, PartEndKeeps, PushKeeps, NextLocalKeeps
     DEF QuickSortParallel
<1> QED
  BY <1>1, <1>2, <1>3 DEF Next

\* The pool's invariant, whatever the array, its values, the lengths and the number of
\* threads and of runs.
THEOREM Invariant == EitherSpec => []IInv
<1>1. EitherInit => IInv
  BY Initially DEF EitherInit
<1>2. IInv /\ [EitherNext]_allVars => IInv'
  BY NextKeeps DEF EitherNext, PoolStep, TreeStep, allVars
<1> QED
  BY <1>1, <1>2, PTL DEF EitherSpec

\* The stack of segments has a permit for each segment, in sortJobStackEmptySlots or
\* with a thread on its way to the pop: no thread pops an empty stack.
THEOREM StackHasPermits == EitherSpec => []PermitsMatch
<1>1. IInv => PermitsMatch
  BY DEF IInv
<1> QED
  BY <1>1, Invariant, PTL

\* Only elements of one segment that waits or is being partitioned can be out of order.
THEOREM OnlySegmentsUnsorted == EitherSpec => []SortedButSegments
<1>1. IInv => SortedButSegments
  BY DEF IInv, OrderedBut, SortedButSegments
<1> QED
  BY <1>1, Invariant, PTL

\* No two segments of the pool share an element, whoever has them, and when main sees
\* an empty stack and no busy thread the array is sorted and holds what it held.
THEOREM PoolSorts == EitherSpec => [](SegmentsDisjoint /\ SortedAtExit)
<1>1. IInv => SegmentsDisjoint
  BY DEF IInv
<1>2. IInv => SortedAtExit
  <2> SUFFICES ASSUME IInv, ifAllThreadExit
               PROVE  SortedFrom(input, array)
    BY DEF SortedAtExit
  <2>1. \A t \in Threads : pc[t] \in {"out", "wait", "lockTake", "take", "done"}
    BY DEF IInv, Rests
  <2>2. stack = <<>> /\ \A t \in Threads : local[t] = <<>>
    BY <2>1 DEF IInv, Rests
  <2>3. Unsorted = {}
    <3>1. \A t \in Threads : Own(t) = {}
      BY <2>1, <2>2, NumberedFew DEF Own, Pushing
    <3> QED
      BY <2>2, <3>1, UnsortedIs, NumberedFew
  <2>4. DOMAIN array = Indices /\ DOMAIN input = Indices /\ array \in [Indices -> Int]
    BY DEF IInv, TypeOK
  <2>5. \A i, k \in Indices : i < k => array[i] <= array[k]
    BY <2>3 DEF IInv, OrderedBut
  <2>6. \A i \in Indices : Holding(array, array[i]) = Holding(input, array[i])
    BY <2>4 DEF IInv, SameElements
  <2> QED
    BY <2>4, <2>5, <2>6 DEF SortedFrom, Holding
<1> QED
  BY <1>1, <1>2, Invariant, PTL

-----------------------------------------------------------------------------
(* The invariant of the recursive programs *)

T == Tree!TreeThreads
PartOf(t, k) == Tree!PartOf(t, k)
Root == Tree!Root

TLabels == {"out", "enter", "part", "create", "count", "spawn", "seq", "seqPart",
            "join", "joined", "discount", "ended"}

TTypeOK ==
  /\ treeArray \in [Indices -> Int] /\ treeInput \in [Indices -> Int]
  /\ concurrentThreadNum \in Int /\ totalThreadCreated \in Int
  /\ treePc \in [T -> TLabels]
  /\ part \in [T -> {1, 2}] /\ index \in [T -> Int] /\ re \in [T -> SUBSET {1, 2}]
  /\ treeJob \in [T -> T] /\ treeCur \in [T -> T]
  /\ treeLocal \in [T -> Seq(T)]

Created == {t \in T : treePc[t] # "out"}

\* The pivot has its place, between the parts.
Parted(t) == t[1] <= index[t] /\ index[t] <= t[2]

\* How far a thread is with its parts.
Progress(t) ==
  /\ treePc[t] \in {"out", "enter", "part"} =>
       part[t] = 1 /\ re[t] = {} /\ treeJob[t] = t
  /\ treePc[t] \in {"out", "enter"} => treeCur[t] = t
  /\ treePc[t] \in {"part", "seqPart"} =>
       treeJob[t] \in Segments /\ treeCur[t] \in Segments
       /\ Done(treeArray, treeJob[t], treeCur[t])
  /\ treePc[t] \notin {"out", "enter", "part", "ended"} => Parted(t)
  /\ re[t] # {} => Parted(t)
  /\ treePc[t] \in {"create", "count", "spawn", "seq", "seqPart"} => \A k \in re[t] : k < part[t]
  /\ treePc[t] \in {"joined", "discount"} => part[t] \in re[t]
  /\ treePc[t] \notin {"seq", "seqPart"} => treeLocal[t] = <<>>

\* One segment in another, and two with a pivot between them.
Sub(u, t) == t[1] <= u[1] /\ u[2] <= t[2]
Far(t, u) == t[2] + 1 < u[1] \/ u[2] + 1 < t[1]

\* u is in a part of t that has a thread.
Below(u, t) == \E k \in re[t] : Sub(u, PartOf(t, k))

\* The threads that exist are a tree, and each part that is given to a thread has it.
Shape ==
  /\ Root \in Created
  /\ \A t, u \in Created : t # u => Far(t, u) \/ Below(t, u) \/ Below(u, t)
  /\ \A t \in T : \A k \in re[t] : PartOf(t, k) \in Created
  /\ \A u \in Created \ {Root} : \E t \in Created : \E k \in re[t] : u = PartOf(t, k)

\* The parts that t has been through with pthread_join, and of these the ones
\* that are off the count.
Joined(t) == IF treePc[t] = "ended" THEN {1, 2}
             ELSE IF treePc[t] \in {"joined", "discount"} THEN 1..part[t]
             ELSE IF treePc[t] = "join" THEN 1..(part[t] - 1) ELSE {}

Discounted(t) == IF treePc[t] = "ended" THEN {1, 2}
                 ELSE IF treePc[t] \in {"join", "joined", "discount"} THEN 1..(part[t] - 1)
                 ELSE {}

\* A thread that is joined has ended, and with it all threads below it.
Joins ==
  /\ \A t \in T : \A k \in re[t] \cap Joined(t) : treePc[PartOf(t, k)] = "ended"
  /\ \A t, u \in Created : treePc[t] = "ended" /\ Sub(u, t) => treePc[u] = "ended"

\* The segments not sorted yet, each with the thread and the place that has it.
Place(t) == CASE treePc[t] = "enter" -> {<<t, 0, t>>}
              [] treePc[t] \in {"part", "seqPart"} -> {<<t, 0, treeJob[t]>>}
              [] OTHER -> {}

Rest(t) == IF treePc[t] \in {"create", "count", "spawn"}
           THEN {<<t, -k, PartOf(t, k)>> : k \in part[t]..2}
           ELSE IF treePc[t] \in {"seq", "seqPart"} /\ part[t] = 1 THEN {<<t, -2, PartOf(t, 2)>>}
           ELSE {}

TOwn(t) == Numbered(t, treeLocal[t]) \cup Place(t) \cup Rest(t)
TUnsorted == UNION {TOwn(t) : t \in T}

TSameElements == \A v \in Int : Holding(treeArray, v) = Holding(treeInput, v)

\* The parts of t whose threads are counted, those still to be made included.
CountedOf(t) == {k \in {1, 2} : \/ k \in re[t] \ Discounted(t)
                                \/ treePc[t] = "spawn" /\ k = part[t]}

Counted == {c \in T \X {1, 2} : c[2] \in CountedOf(c[1])}
Spawning == {t \in T : treePc[t] = "spawn"}

Counts == program = "Recursive" =>
  /\ concurrentThreadNum = Cardinality(Counted)
  /\ concurrentThreadNum <= MaxThreads
  /\ totalThreadCreated = Cardinality(Created \ {Root}) + Cardinality(Spawning)

TInv == /\ TTypeOK /\ (\A t \in T : Progress(t)) /\ Shape /\ Joins
        /\ AllApart(TUnsorted) /\ OrderedBut(treeArray, TUnsorted) /\ TSameElements /\ Counts

-----------------------------------------------------------------------------
(* Threads and their segments *)

\* A thread is a pair of places: a segment, or the empty one at a border.
LEMMA ThreadsAre ==
  /\ \A t \in T : /\ t = <<t[1], t[2]>> /\ t[1] \in Int /\ t[2] \in Int
                  /\ 0 <= t[1] /\ t[1] <= t[2] + 1 /\ t[2] <= ArrayLen - 1
  /\ \A a, b \in Int : 0 <= a /\ a <= b + 1 /\ b <= ArrayLen - 1 => <<a, b>> \in T
  /\ Root \in T /\ Root = <<0, ArrayLen - 1>> /\ ArrayLen \in Int /\ ArrayLen >= 1
  /\ Segments \subseteq T /\ \A t \in T : t[1] <= t[2] => t \in Segments
<1>1. ArrayLen \in Int /\ ArrayLen >= 1
  BY SortAssumption
<1>2. \A t \in T : /\ t = <<t[1], t[2]>> /\ t[1] \in Int /\ t[2] \in Int
                  /\ 0 <= t[1] /\ t[1] <= t[2] + 1 /\ t[2] <= ArrayLen - 1
  BY <1>1 DEF T, Tree!TreeThreads
<1>3. ASSUME NEW a \in Int, NEW b \in Int, 0 <= a, a <= b + 1, b <= ArrayLen - 1
      PROVE  <<a, b>> \in T
  <2>1. a \in 0..ArrayLen /\ b \in (-1)..(ArrayLen - 1)
    BY <1>1, <1>3
  <2> QED
    BY <1>3, <2>1 DEF T, Tree!TreeThreads
<1>4. Root = <<0, ArrayLen - 1>>
  BY DEF Root, Tree!Root
<1>5. Root \in T
  BY <1>1, <1>3, <1>4
<1>6. ASSUME NEW s \in Segments
      PROVE  s \in T
  <2>1. s = <<s[1], s[2]>> /\ s[1] \in 0..(ArrayLen - 1) /\ s[2] \in 0..(ArrayLen - 1) /\ s[1] <= s[2]
    BY DEF Segments, Indices
  <2> QED
    BY <1>1, <1>3, <2>1
<1>7. ASSUME NEW t \in T, t[1] <= t[2]
      PROVE  t \in Segments
  BY <1>1, <1>2, <1>7 DEF Segments, Indices
<1> QED
  BY <1>1, <1>2, <1>3, <1>4, <1>5, <1>6, <1>7

\* The two parts, now and after a step.
LEMMA PartOfIs ==
  /\ \A t : PartOf(t, 1) = <<t[1], index[t] - 1>> /\ PartOf(t, 2) = <<index[t] + 1, t[2]>>
  /\ \A t : PartOf(t, 1)' = <<t[1], index'[t] - 1>> /\ PartOf(t, 2)' = <<index'[t] + 1, t[2]>>
BY DEF PartOf, Tree!PartOf

\* Far is symmetric and goes down to parts; Sub is an order.
LEMMA FarAndSub ==
  /\ \A s, t : Far(s, t) <=> Far(t, s)
  /\ \A t, u \in T : ~(Sub(u, t) /\ Far(t, u)) /\ Sub(t, t)
  /\ \A c, s, u \in T : Sub(c, s) /\ Far(s, u) => Far(c, u)
  /\ \A c, s, u \in T : Sub(c, s) /\ Sub(s, u) => Sub(c, u)
  /\ \A t, u \in T : Sub(t, u) /\ Sub(u, t) => t = u
<1>1. \A s, t : Far(s, t) <=> Far(t, s)
  BY DEF Far
<1>2. \A t, u \in T : ~(Sub(u, t) /\ Far(t, u)) /\ Sub(t, t)
  BY ThreadsAre DEF Far, Sub
<1>3. \A c, s, u \in T : Sub(c, s) /\ Far(s, u) => Far(c, u)
  BY ThreadsAre DEF Far, Sub
<1>4. \A c, s, u \in T : Sub(c, s) /\ Sub(s, u) => Sub(c, u)
  BY ThreadsAre DEF Sub
<1>5. \A t, u \in T : Sub(t, u) /\ Sub(u, t) => t = u
  <2> SUFFICES ASSUME NEW t \in T, NEW u \in T, Sub(t, u), Sub(u, t)
               PROVE  t = u
    OBVIOUS
  <2>1. t[1] = u[1] /\ t[2] = u[2]
    BY ThreadsAre DEF Sub
  <2> QED
    BY <2>1, ThreadsAre
<1> QED
  BY <1>1, <1>2, <1>3, <1>4, <1>5

\* The parts of a segment: smaller than it, and with the pivot between.
LEMMA PartsOf ==
  ASSUME NEW t \in T, TTypeOK, Parted(t)
  PROVE  /\ \A k \in {1, 2} : /\ PartOf(t, k) \in T /\ Sub(PartOf(t, k), t)
                              /\ ~Sub(t, PartOf(t, k))
         /\ \A k, m \in {1, 2} : k # m => Far(PartOf(t, k), PartOf(t, m))
<1>1. index[t] \in Int /\ t[1] <= index[t] /\ index[t] <= t[2]
  BY DEF TTypeOK, Parted
<1>2. t[1] \in Int /\ t[2] \in Int /\ 0 <= t[1] /\ t[2] <= ArrayLen - 1 /\ ArrayLen \in Int
  BY ThreadsAre
<1> DEFINE p1 == <<t[1], index[t] - 1>>
           p2 == <<index[t] + 1, t[2]>>
<1>3. p1 \in T /\ p2 \in T
  BY <1>1, <1>2, ThreadsAre
<1>4. /\ Sub(p1, t) /\ Sub(p2, t) /\ ~Sub(t, p1) /\ ~Sub(t, p2) /\ Far(p1, p2) /\ Far(p2, p1)
  BY <1>1, <1>2 DEF Sub, Far
<1>5. PartOf(t, 1) = p1 /\ PartOf(t, 2) = p2
  BY PartOfIs
<1> HIDE DEF p1, p2
<1> QED
  BY <1>3, <1>4, <1>5

\* A thread of a part is below: it is none of the threads around.
LEMMA BelowIs ==
  ASSUME TTypeOK, NEW t \in T, NEW u \in T, Below(u, t), re[t] # {} => Parted(t)
  PROVE  Sub(u, t) /\ ~Sub(t, u) /\ u # t
<1>1. PICK k \in re[t] : Sub(u, PartOf(t, k))
  BY DEF Below
<1>2. k \in {1, 2} /\ Parted(t)
  BY <1>1 DEF TTypeOK
<1>3. PartOf(t, k) \in T /\ Sub(PartOf(t, k), t) /\ ~Sub(t, PartOf(t, k))
  BY <1>2, PartsOf
<1> QED
  BY <1>1, <1>3, FarAndSub

-----------------------------------------------------------------------------
(* The tree of threads *)

\* Nothing of thread u changes.
Same(u) == /\ treePc'[u] = treePc[u] /\ part'[u] = part[u] /\ index'[u] = index[u]
           /\ re'[u] = re[u] /\ treeJob'[u] = treeJob[u] /\ treeCur'[u] = treeCur[u]
           /\ treeLocal'[u] = treeLocal[u]

\* Thread t takes a step that creates no thread.
Steps(t) == /\ \A u \in T : u # t => Same(u)
            /\ treePc[t] \notin {"out", "ended"} /\ treePc'[t] # "out"
            /\ re'[t] = re[t]
            /\ re[t] # {} => index'[t] = index[t]

\* Such a step keeps the tree, if what t then counts as joined has ended.
LEMMA TreeStays ==
  ASSUME TTypeOK, \A u \in T : Progress(u), Shape, Joins, NEW CONSTANT t \in T, Steps(t),
         \A k \in re[t] : k \in Joined(t)' => treePc[PartOf(t, k)] = "ended"
  PROVE  Shape' /\ Joins' /\ Created' = Created
<1>1. \A u \in T : /\ u # t => Same(u)
                   /\ re'[u] = re[u] /\ (re[u] # {} => index'[u] = index[u])
                   /\ treePc'[u] = "out" <=> treePc[u] = "out"
  BY DEF Steps, Same
<1>2. \A u \in T : \A k \in re[u] : PartOf(u, k)' = PartOf(u, k)
  <2> SUFFICES ASSUME NEW u \in T, NEW k \in re[u]
               PROVE  PartOf(u, k)' = PartOf(u, k)
    OBVIOUS
  <2>1. k \in {1, 2} /\ index'[u] = index[u]
    BY <1>1 DEF TTypeOK
  <2> QED
    BY <2>1, PartOfIs
<1>3. Created' = Created
  BY <1>1 DEF Created
<1>4. \A u, z \in T : Below(u, z)' <=> Below(u, z)
  BY <1>1, <1>2 DEF Below, Sub
<1>5. Shape'
  <2>1. Root' = Root /\ Root \in Created'
    BY <1>3 DEF Shape, Root, Tree!Root
  <2>2. \A x, u \in Created' : x # u => Far(x, u)' \/ Below(x, u)' \/ Below(u, x)'
    BY <1>3, <1>4 DEF Shape, Far, Created
  <2>3. \A x \in T : \A k \in re'[x] : PartOf(x, k)' \in Created'
    BY <1>1, <1>2, <1>3 DEF Shape
  <2>4. \A u \in Created' \ {Root} : \E x \in Created' : \E k \in re'[x] : u = PartOf(x, k)'
    <3> SUFFICES ASSUME NEW u \in Created \ {Root}
                 PROVE  \E x \in Created : \E k \in re'[x] : u = PartOf(x, k)'
      BY <1>3
    <3>1. PICK x \in Created : \E k \in re[x] : u = PartOf(x, k)
      BY DEF Shape
    <3>2. x \in T
      BY DEF Created
    <3> QED
      BY <1>1, <1>2, <3>1, <3>2
  <2> QED
    BY <2>1, <2>2, <2>3, <2>4 DEF Shape
<1>6. Joins'
  <2>1. ASSUME NEW u \in T, NEW k \in re'[u] \cap Joined(u)'
        PROVE  treePc'[PartOf(u, k)'] = "ended"
    <3>1. k \in re[u] /\ PartOf(u, k)' = PartOf(u, k) /\ PartOf(u, k) \in Created
      BY <1>1, <1>2 DEF Shape
    <3>2. treePc[PartOf(u, k)] = "ended"
      <4>1. CASE u = t
        BY <2>1, <3>1, <4>1
      <4>2. CASE u # t
        <5>1. Joined(u)' = Joined(u)
          BY <1>1, <4>2 DEF Same, Joined
        <5> QED
          BY <2>1, <3>1, <5>1 DEF Joins
      <4> QED
        BY <4>1, <4>2
    <3>3. PartOf(u, k) # t
      BY <3>2 DEF Steps
    <3> QED
      BY <1>1, <3>1, <3>2, <3>3 DEF Same, Created
  <2>2. ASSUME NEW x \in Created, NEW u \in Created, treePc'[x] = "ended", Sub(u, x)
        PROVE  treePc'[u] = "ended"
    <3> x \in T /\ u \in T
      BY DEF Created
    <3>1. CASE x # t
      <4>1. treePc[x] = "ended"
        BY <1>1, <2>2, <3>1 DEF Same
      <4>2. treePc[u] = "ended"
        BY <2>2, <4>1 DEF Joins
      <4>3. u # t
        BY <4>2 DEF Steps
      <4> QED
        BY <1>1, <4>2, <4>3 DEF Same
    <3>2. CASE x = t /\ u # t
      <4>1. Far(t, u) \/ Below(t, u) \/ Below(u, t)
        BY <3>2 DEF Shape
      <4>2. ~Far(t, u)
        BY <2>2, <3>2, FarAndSub
      <4>3. ~Below(t, u)
        <5>1. re[u] # {} => Parted(u)
          BY DEF Progress
        <5> QED
          BY <2>2, <3>2, <5>1, BelowIs
      <4>4. PICK k \in re[t] : Sub(u, PartOf(t, k))
        BY <4>1, <4>2, <4>3 DEF Below
      <4>5. k \in {1, 2} /\ k \in Joined(t)'
        BY <2>2, <3>2, <4>4 DEF TTypeOK, Joined
      <4>6. treePc[PartOf(t, k)] = "ended" /\ PartOf(t, k) \in Created
        BY <4>4, <4>5 DEF Shape
      <4>7. treePc[u] = "ended"
        BY <4>4, <4>6 DEF Joins
      <4> QED
        BY <1>1, <3>2, <4>7 DEF Same
    <3>3. CASE x = t /\ u = t
      BY <2>2, <3>3
    <3> QED
      BY <3>1, <3>2, <3>3
  <2>3. \A x, u \in Created' : treePc'[x] = "ended" /\ Sub(u, x)' => treePc'[u] = "ended"
    BY <1>3, <2>2 DEF Sub
  <2> QED
    BY <2>1, <2>3 DEF Joins
<1> QED
  BY <1>3, <1>5, <1>6

\* Thread t creates the thread of its next part: it is new, and has its place in the tree.
LEMMA TreeGrows ==
  ASSUME TTypeOK, \A u \in T : Progress(u), Shape, Joins, NEW CONSTANT t \in T,
         NEW CONSTANT k \in {1, 2}, NEW CONSTANT c,
         c = PartOf(t, k), k \notin re[t], Parted(t), treePc[t] \notin {"out", "ended"},
         \A u \in T \ {t, c} : Same(u),
         index' = index, re' = [re EXCEPT ![t] = @ \cup {k}],
         treePc'[t] \in {"create", "join"}, treePc'[c] = "enter", part'[t] \in {1, 2},
         treePc'[t] = "join" => part'[t] = 1
  PROVE  /\ c \in T /\ c \notin Created /\ c # t /\ Created' = Created \cup {c}
         /\ Shape' /\ Joins'
<1>1. /\ c \in T /\ Sub(c, t) /\ ~Sub(t, c) /\ c # t
      /\ \A m \in {1, 2} \ {k} : PartOf(t, m) \in T /\ Far(c, PartOf(t, m)) /\ Far(PartOf(t, m), c)
  BY PartsOf, FarAndSub
<1>2. t \in Created /\ t \in T
  BY DEF Created
<1>3. \A u \in T : re[u] # {} => Parted(u)
  BY DEF Progress
<1>4. \A u \in T : re[u] \subseteq {1, 2}
  BY DEF TTypeOK
<1>5. c \notin Created
  <2> SUFFICES ASSUME c \in Created
               PROVE  FALSE
    OBVIOUS
  <2>1. Far(t, c) \/ Below(t, c) \/ Below(c, t)
    BY <1>1, <1>2 DEF Shape
  <2>2. ~Far(t, c)
    BY <1>1, FarAndSub
  <2>3. ~Below(t, c)
    BY <1>1, <1>3, BelowIs
  <2>4. PICK m \in re[t] : Sub(c, PartOf(t, m))
    BY <2>1, <2>2, <2>3 DEF Below
  <2>5. m \in {1, 2} \ {k}
    BY <1>4, <2>4
  <2> QED
    BY <1>1, <2>4, <2>5, FarAndSub
<1>6. re[c] = {} /\ treePc[c] = "out"
  BY <1>1, <1>5 DEF Created, Progress
<1>7. re' = [u \in T |-> IF u = t THEN re[t] \cup {k} ELSE re[u]]
  BY DEF TTypeOK
<1>8. Created' = Created \cup {c}
  BY <1>1, <1>2 DEF Created, Same
<1>9. \A u, m : PartOf(u, m)' = PartOf(u, m)
  BY DEF PartOf, Tree!PartOf
<1>10. \A u, z \in T : Below(u, z) => Below(u, z)'
  BY <1>7, <1>9 DEF Below, Sub
<1>11. ASSUME NEW u \in Created
       PROVE  Far(c, u) \/ Below(c, u)' \/ Below(u, c)'
  <2> u \in T
    BY DEF Created
  <2>1. CASE u = t
    <3>1. Sub(c, PartOf(t, k)') /\ k \in re'[t]
      BY <1>1, <1>7, <1>9, FarAndSub
    <3> QED
      BY <2>1, <3>1 DEF Below, Sub
  <2>2. CASE u # t /\ Far(t, u)
    BY <1>1, <2>2, FarAndSub
  <2>3. CASE u # t /\ Below(u, t)
    <3>1. PICK m \in re[t] : Sub(u, PartOf(t, m))
      BY <2>3 DEF Below
    <3>2. m \in {1, 2} \ {k}
      BY <1>4, <3>1
    <3> QED
      BY <1>1, <3>1, <3>2, FarAndSub
  <2>4. CASE u # t /\ Below(t, u)
    <3>1. PICK m \in re[u] : Sub(t, PartOf(u, m))
      BY <2>4 DEF Below
    <3>2. PartOf(u, m) \in T
      BY <1>3, <1>4, <3>1, PartsOf
    <3>3. Sub(c, PartOf(u, m))
      BY <1>1, <3>1, <3>2, FarAndSub
    <3>4. Below(c, u)
      BY <3>1, <3>3 DEF Below
    <3> QED
      BY <1>1, <1>10, <3>4
  <2> QED
    BY <1>2, <2>1, <2>2, <2>3, <2>4 DEF Shape
<1>12. Shape'
  <2>1. Root' = Root /\ Root \in Created'
    BY <1>8 DEF Shape, Root, Tree!Root
  <2>2. \A x, u \in Created' : x # u => Far(x, u)' \/ Below(x, u)' \/ Below(u, x)'
    <3> SUFFICES ASSUME NEW x \in Created \cup {c}, NEW u \in Created \cup {c}, x # u
                 PROVE  Far(x, u) \/ Below(x, u)' \/ Below(u, x)'
      BY <1>8 DEF Far
    <3>1. CASE x \in Created /\ u \in Created
      <4>1. Far(x, u) \/ Below(x, u) \/ Below(u, x)
        BY <3>1 DEF Shape
      <4>2. x \in T /\ u \in T
        BY <3>1 DEF Created
      <4> QED
        BY <1>10, <4>1, <4>2
    <3>2. CASE x = c /\ u \in Created
      BY <1>11, <3>2
    <3>3. CASE u = c /\ x \in Created
      BY <1>11, <3>3, FarAndSub
    <3> QED
      BY <3>1, <3>2, <3>3
  <2>3. \A x \in T : \A m \in re'[x] : PartOf(x, m)' \in Created'
    BY <1>7, <1>8, <1>9 DEF Shape
  <2>4. \A u \in Created' \ {Root} : \E x \in Created' : \E m \in re'[x] : u = PartOf(x, m)'
    <3> SUFFICES ASSUME NEW u \in (Created \cup {c}) \ {Root}
                 PROVE  \E x \in Created \cup {c} : \E m \in re'[x] : u = PartOf(x, m)
      BY <1>8, <1>9
    <3>1. CASE u = c
      BY <1>2, <1>7, <3>1
    <3>2. CASE u # c
      <4>1. PICK x \in Created : \E m \in re[x] : u = PartOf(x, m)
        BY <3>2 DEF Shape
      <4>2. x \in T
        BY DEF Created
      <4> QED
        BY <1>7, <4>1, <4>2
    <3> QED
      BY <3>1, <3>2
  <2> QED
    BY <2>1, <2>2, <2>3, <2>4 DEF Shape
<1>13. Joins'
  <2>1. ASSUME NEW u \in T, NEW m \in re'[u] \cap Joined(u)'
        PROVE  treePc'[PartOf(u, m)'] = "ended"
    <3>1. u # t
      BY <2>1 DEF Joined
    <3>2. u # c
      BY <1>6, <1>7, <2>1, <3>1
    <3>3. Joined(u)' = Joined(u) /\ m \in re[u]
      BY <1>7, <2>1, <3>1, <3>2 DEF Same, Joined
    <3>4. treePc[PartOf(u, m)] = "ended" /\ PartOf(u, m) \in Created
      BY <2>1, <3>3 DEF Joins, Shape
    <3>5. PartOf(u, m) \notin {t, c} /\ PartOf(u, m) \in T
      BY <1>5, <3>4 DEF Created
    <3> QED
      BY <1>9, <3>4, <3>5 DEF Same
  <2>2. ASSUME NEW x \in Created \cup {c}, NEW u \in Created \cup {c}, treePc'[x] = "ended",
               Sub(u, x)
        PROVE  treePc'[u] = "ended"
    <3>1. x \in Created /\ x \in T /\ x \notin {t, c} /\ treePc[x] = "ended"
      BY <2>2 DEF Created, Same
    <3>2. CASE u \in Created
      <4>1. treePc[u] = "ended" /\ u \in T
        BY <2>2, <3>1, <3>2 DEF Joins, Created
      <4>2. u \notin {t, c}
        BY <1>5, <3>2, <4>1
      <4> QED
        BY <4>1, <4>2 DEF Same
    <3>3. CASE u = c
      <4>1. Far(t, x) \/ Below(t, x) \/ Below(x, t)
        BY <1>2, <3>1 DEF Shape
      <4>2. ~Far(t, x)
        BY <1>1, <2>2, <3>1, <3>3, FarAndSub
      <4>3. ~Below(t, x)
        <5> SUFFICES ASSUME Below(t, x)
                     PROVE  FALSE
          OBVIOUS
        <5>1. Sub(t, x)
          BY <1>3, <3>1, BelowIs
        <5> QED
          BY <1>2, <3>1, <5>1 DEF Joins
      <4>4. PICK m \in re[t] : Sub(x, PartOf(t, m))
        BY <4>1, <4>2, <4>3 DEF Below
      <4>5. m \in {1, 2} \ {k}
        BY <1>4, <4>4
      <4>6. Far(x, c)
        BY <1>1, <3>1, <4>4, <4>5, FarAndSub
      <4> QED
        BY <1>1, <2>2, <3>1, <3>3, <4>6, FarAndSub
    <3> QED
      BY <3>2, <3>3
  <2>3. \A x, u \in Created' : treePc'[x] = "ended" /\ Sub(u, x)' => treePc'[u] = "ended"
    BY <1>8, <2>2 DEF Sub
  <2> QED
    BY <2>1, <2>3 DEF Joins
<1> QED
  BY <1>1, <1>5, <1>8, <1>12, <1>13

-----------------------------------------------------------------------------
(* The segments that are not sorted *)

TSorting == AllApart(TUnsorted) /\ OrderedBut(treeArray, TUnsorted) /\ TSameElements

\* The order and the contents after a step.
LEMMA TSortingIs ==
  /\ TSorting' <=> AllApart(TUnsorted') /\ OrderedBut(treeArray', TUnsorted') /\ TSameElements'
  /\ TSameElements' <=> \A v \in Int : Holding(treeArray', v) = Holding(treeInput', v)
BY DEF TSorting, AllApart, OrderedBut, TSameElements, Holding

\* What thread u has begins with u.
LEMMA OwnIs ==
  /\ \A u : \A a \in TOwn(u) : a[1] = u
  /\ \A u \in T : Same(u) => TOwn(u)' = TOwn(u)
<1>1. ASSUME NEW u, NEW a \in TOwn(u)
      PROVE  a[1] = u
  <2>1. \A b \in Numbered(u, treeLocal[u]) : b[1] = u
    BY DEF Numbered
  <2>2. \A b \in Place(u) : b[1] = u
    BY DEF Place
  <2>3. \A b \in Rest(u) : b[1] = u
    BY DEF Rest
  <2> QED
    BY <2>1, <2>2, <2>3 DEF TOwn
<1>2. ASSUME NEW u \in T, Same(u)
      PROVE  TOwn(u)' = TOwn(u)
  <2>1. Numbered(u, treeLocal[u])' = Numbered(u, treeLocal[u])
    BY <1>2 DEF Numbered, Same
  <2>2. Place(u)' = Place(u)
    BY <1>2 DEF Place, Same
  <2>3. \A k : PartOf(u, k)' = PartOf(u, k)
    BY <1>2 DEF PartOf, Tree!PartOf, Same
  <2>4. Rest(u)' = Rest(u)
    <3>1. {<<u, -k, PartOf(u, k)>> : k \in part[u]..2}'
            = {<<u, -k, PartOf(u, k)>> : k \in part[u]..2}
      BY <1>2, <2>3 DEF Same
    <3>2. treePc'[u] = treePc[u] /\ part'[u] = part[u]
      BY <1>2 DEF Same
    <3> QED
      BY <2>3, <3>1, <3>2 DEF Rest
  <2> QED
    BY <2>1, <2>2, <2>4 DEF TOwn
<1> QED
  BY <1>1, <1>2

\* All threads keep what they have.
LEMMA TNoneMoves ==
  ASSUME \A u \in T : TOwn(u)' = TOwn(u)
  PROVE  TUnsorted' = TUnsorted
BY DEF TUnsorted, T, Tree!TreeThreads

\* In a step of thread t only what t has changes.
LEMMA TThreadMoves ==
  ASSUME NEW CONSTANT t \in T, \A u \in T : u # t => TOwn(u)' = TOwn(u),
         NEW A, NEW N, A \subseteq TOwn(t), TOwn(t)' = (TOwn(t) \ A) \cup N
  PROVE  TUnsorted' = (TUnsorted \ A) \cup N /\ A \subseteq TUnsorted
<1> DEFINE R == UNION {TOwn(u) : u \in T \ {t}}
<1>1. TUnsorted = R \cup TOwn(t)
  BY DEF TUnsorted
<1>2. TUnsorted' = R \cup TOwn(t)'
  <2>1. TUnsorted' = UNION {TOwn(u)' : u \in T}
    BY DEF TUnsorted, T, Tree!TreeThreads
  <2>2. UNION {TOwn(u)' : u \in T} = R \cup TOwn(t)'
    OBVIOUS
  <2> QED
    BY <2>1, <2>2
<1>3. R \cap A = {}
  BY OwnIs
<1> HIDE DEF R
<1> QED
  BY <1>1, <1>2, <1>3

\* Segments that stay: the array may change inside one of them.
LEMMA TStays ==
  ASSUME TSorting, TUnsorted' = TUnsorted, treeArray' = treeArray, treeInput' = treeInput
  PROVE  TSorting'
<1>1. AllApart(TUnsorted') /\ OrderedBut(treeArray', TUnsorted')
  BY DEF TSorting
<1>2. TSameElements'
  BY DEF TSorting, TSameElements, Holding
<1> QED
  BY <1>1, <1>2, TSortingIs

\* Segment a is replaced by segments N inside it, between which the array is in order.
LEMMA TReplaced ==
  ASSUME AllApart(TUnsorted), NEW a \in TUnsorted, NEW N,
         TUnsorted' = (TUnsorted \ {a}) \cup N, AllApart(N),
         \A n \in N : Within(n[3], a[3]),
         OrderedBut(treeArray', TUnsorted), TSameElements',
         \A i, k \in Indices : i < k /\ Inside(i, a[3]) /\ Inside(k, a[3]) =>
           treeArray'[i] <= treeArray'[k] \/ \E n \in N : Inside(i, n[3]) /\ Inside(k, n[3])
  PROVE  TSorting'
<1>1. AllApart(TUnsorted')
  <2>1. \A n \in N : \E b \in {a} : Within(n[3], b[3])
    OBVIOUS
  <2> QED
    BY <2>1, ReplaceApart
<1>2. OrderedBut(treeArray', TUnsorted')
  BY SplitOrdered
<1> QED
  BY <1>1, <1>2, TSortingIs

\* Segment a gets another owner or place, or is left out: it has one element or none.
LEMMA THandedOn ==
  ASSUME TSorting, NEW a \in TUnsorted, NEW N, \A n \in N : n[3] = a[3],
         TUnsorted' = (TUnsorted \ {a}) \cup N, \A n, m \in N : n = m,
         N # {} \/ (a[3] \in T /\ a[3][1] >= a[3][2]),
         treeArray' = treeArray, treeInput' = treeInput
  PROVE  TSorting'
<1>1. AllApart(N) /\ \A n \in N : Within(n[3], a[3])
  BY DEF AllApart, Within
<1>2. TSameElements'
  BY DEF TSorting, TSameElements, Holding
<1>3. ASSUME NEW i \in Indices, NEW k \in Indices, i < k, Inside(i, a[3]), Inside(k, a[3])
      PROVE  \E n \in N : Inside(i, n[3]) /\ Inside(k, n[3])
  <2>1. CASE N # {}
    BY <1>3, <2>1
  <2>2. CASE a[3] \in T /\ a[3][1] >= a[3][2]
    <3>1. i \in Int /\ k \in Int
      BY IndicesAre
    <3>2. a[3][1] \in Int /\ a[3][2] \in Int
      BY <2>2, ThreadsAre
    <3> QED
      BY <1>3, <2>2, <3>1, <3>2 DEF Inside
  <2> QED
    BY <2>1, <2>2
<1> QED
  BY <1>1, <1>2, <1>3, TReplaced DEF TSorting

\* The two cases.  Segment a is left out:
LEMMA TDropped ==
  ASSUME TSorting, NEW a \in TUnsorted, a[3] \in T, a[3][1] >= a[3][2],
         TUnsorted' = TUnsorted \ {a}, treeArray' = treeArray, treeInput' = treeInput
  PROVE  TSorting'
<1> DEFINE N == {b \in {a} : FALSE}
<1>1. /\ \A n \in N : n[3] = a[3]
      /\ \A n, m \in N : n = m
      /\ TUnsorted' = (TUnsorted \ {a}) \cup N
  OBVIOUS
<1> HIDE DEF N
<1> QED
  BY <1>1, THandedOn

\* or it becomes n.
LEMMA TGiven ==
  ASSUME TSorting, NEW a \in TUnsorted, NEW n, n[3] = a[3],
         TUnsorted' = (TUnsorted \ {a}) \cup {n}, treeArray' = treeArray, treeInput' = treeInput
  PROVE  TSorting'
<1> DEFINE N == {n}
<1>1. /\ \A m \in N : m[3] = a[3]
      /\ \A m, k \in N : m = k
      /\ TUnsorted' = (TUnsorted \ {a}) \cup N /\ N # {}
  OBVIOUS
<1> HIDE DEF N
<1> QED
  BY <1>1, THandedOn

\* A thread that partitions: its segment and where it is.
LEMMA TInWork ==
  ASSUME TInv, NEW CONSTANT t \in T, treePc[t] \in {"part", "seqPart"}
  PROVE  /\ treeJob[t] \in Segments /\ treeCur[t] \in Segments
         /\ Done(treeArray, treeJob[t], treeCur[t])
         /\ <<t, 0, treeJob[t]>> \in TUnsorted /\ <<t, 0, treeJob[t]>>[3] = treeJob[t]
         /\ \A u \in T : u # t /\ treePc[u] \in {"part", "seqPart"} => Apart(treeJob[u], treeJob[t])
<1>1. \A u \in T : treePc[u] \in {"part", "seqPart"} => <<u, 0, treeJob[u]>> \in TUnsorted
  BY DEF TUnsorted, TOwn, Place
<1>2. treeJob[t] \in Segments /\ treeCur[t] \in Segments
      /\ Done(treeArray, treeJob[t], treeCur[t])
  BY DEF TInv, Progress
<1>3. ASSUME NEW u \in T, u # t, treePc[u] \in {"part", "seqPart"}
      PROVE  Apart(treeJob[u], treeJob[t])
  <2>1. <<u, 0, treeJob[u]>> # <<t, 0, treeJob[t]>>
    BY <1>3
  <2>2. Apart(<<u, 0, treeJob[u]>>[3], <<t, 0, treeJob[t]>>[3])
    BY <1>1, <1>3, <2>1 DEF AllApart, TInv
  <2> QED
    BY <2>2
<1> QED
  BY <1>1, <1>2, <1>3

\* What a step of another thread leaves, a swap in the segment of t included.
LEMMA OthersStay ==
  ASSUME TInv, NEW CONSTANT t \in T, NEW CONSTANT u \in T, u # t, Same(u),
         \/ treeArray' = treeArray
         \/ /\ treePc[t] \in {"part", "seqPart"}
            /\ \E x, y \in Indices : /\ Inside(x, treeJob[t]) /\ Inside(y, treeJob[t])
                                     /\ treeArray' = swap(treeArray, x, y)
  PROVE  Progress(u)'
<1>1. Progress(u)
  BY DEF TInv
<1>2. treePc[u] \in {"part", "seqPart"} => Done(treeArray', treeJob[u], treeCur[u])
  <2> SUFFICES ASSUME treePc[u] \in {"part", "seqPart"}
               PROVE  Done(treeArray', treeJob[u], treeCur[u])
    OBVIOUS
  <2>1. CASE treeArray' = treeArray
    BY <1>1, <2>1 DEF Progress
  <2>2. CASE /\ treePc[t] \in {"part", "seqPart"}
             /\ \E x, y \in Indices : /\ Inside(x, treeJob[t]) /\ Inside(y, treeJob[t])
                                      /\ treeArray' = swap(treeArray, x, y)
    <3>1. PICK x, y \in Indices : /\ Inside(x, treeJob[t]) /\ Inside(y, treeJob[t])
                                  /\ treeArray' = swap(treeArray, x, y)
      BY <2>2
    <3>2. /\ treeJob[u] \in Segments /\ treeCur[u] \in Segments
          /\ Done(treeArray, treeJob[u], treeCur[u])
      BY <1>1 DEF Progress
    <3>3. Apart(treeJob[u], treeJob[t])
      BY <2>2, TInWork
    <3>4. treeArray \in [Indices -> Int]
      BY DEF TInv, TTypeOK
    <3> QED
      BY <3>1, <3>2, <3>3, <3>4, DoneElsewhere
  <2> QED
    BY <2>1, <2>2
<1>3. treePc[u] \in {"part", "seqPart"} => Done(treeArray, treeJob[u], treeCur[u])'
  BY <1>2 DEF Done, Same
<1>4. Parted(u)' <=> Parted(u)
  BY DEF Parted, Same
<1> QED
  BY <1>1, <1>3, <1>4 DEF Progress, Same

-----------------------------------------------------------------------------
(* The count of threads *)

\* All that is counted is finite.
LEMMA CountsAreFinite ==
  /\ IsFiniteSet(T) /\ IsFiniteSet(Counted) /\ IsFiniteSet(Created) /\ IsFiniteSet(Spawning)
  /\ IsFiniteSet(Created \ {Root})
  /\ Cardinality(Counted) \in Nat /\ Cardinality(Spawning) \in Nat
  /\ Cardinality(Created \ {Root}) \in Nat
<1>1. IsFiniteSet(T)
  <2>1. IsFiniteSet(0..ArrayLen) /\ IsFiniteSet((-1)..(ArrayLen - 1))
    BY ThreadsAre, FS_Interval
  <2>2. IsFiniteSet((0..ArrayLen) \X ((-1)..(ArrayLen - 1)))
    BY <2>1, FS_Product
  <2>3. T \subseteq (0..ArrayLen) \X ((-1)..(ArrayLen - 1))
    BY DEF T, Tree!TreeThreads
  <2> QED
    BY <2>2, <2>3, FS_Subset
<1>2. IsFiniteSet({1, 2})
  <2>1. {1, 2} = ({} \cup {1}) \cup {2}
    OBVIOUS
  <2>2. IsFiniteSet({} \cup {1})
    BY FS_EmptySet, FS_AddElement
  <2> QED
    BY <2>1, <2>2, FS_AddElement
<1>3. IsFiniteSet(T \X {1, 2})
  BY <1>1, <1>2, FS_Product
<1>4. IsFiniteSet(Counted)
  BY <1>3, FS_Subset DEF Counted
<1>5. IsFiniteSet(Created) /\ IsFiniteSet(Spawning)
  BY <1>1, FS_Subset DEF Created, Spawning
<1>6. IsFiniteSet(Created \ {Root})
  BY <1>5, FS_Subset
<1> QED
  BY <1>1, <1>4, <1>5, <1>6, FS_CardinalityType

\* A thread may count one more of its parts, or one less.
LEMMA CountedMoves ==
  ASSUME NEW CONSTANT t \in T, \A u \in T : u # t => CountedOf(u)' = CountedOf(u),
         NEW CONSTANT k \in {1, 2}
  PROVE  /\ CountedOf(t)' = CountedOf(t) => Counted' = Counted
         /\ k \notin CountedOf(t) /\ CountedOf(t)' = CountedOf(t) \cup {k} =>
              Cardinality(Counted') = Cardinality(Counted) + 1
         /\ k \in CountedOf(t) /\ CountedOf(t)' = CountedOf(t) \ {k} =>
              Cardinality(Counted') = Cardinality(Counted) - 1
<1>1. Counted' = {c \in T \X {1, 2} : c[2] \in CountedOf(c[1])'}
  BY DEF Counted, T, Tree!TreeThreads
<1>2. \A c \in T \X {1, 2} : c[1] \in T /\ c[2] \in {1, 2} /\ c = <<c[1], c[2]>>
  OBVIOUS
<1>3. <<t, k>> \in T \X {1, 2} /\ <<t, k>>[1] = t /\ <<t, k>>[2] = k
  OBVIOUS
<1>4. ASSUME CountedOf(t)' = CountedOf(t)
      PROVE  Counted' = Counted
  BY <1>1, <1>2, <1>4 DEF Counted
<1>5. ASSUME k \notin CountedOf(t), CountedOf(t)' = CountedOf(t) \cup {k}
      PROVE  Cardinality(Counted') = Cardinality(Counted) + 1
  <2>1. Counted' = Counted \cup {<<t, k>>}
    <3>1. \A c \in T \X {1, 2} : c \in Counted' <=> c \in Counted \/ c = <<t, k>>
      BY <1>1, <1>2, <1>3, <1>5 DEF Counted
    <3>2. Counted \subseteq T \X {1, 2} /\ Counted' \subseteq T \X {1, 2}
      BY <1>1 DEF Counted
    <3> QED
      BY <1>3, <3>1, <3>2
  <2>2. <<t, k>> \notin Counted
    BY <1>5, <1>3 DEF Counted
  <2> QED
    BY <2>1, <2>2, CountsAreFinite, FS_AddElement
<1>6. ASSUME k \in CountedOf(t), CountedOf(t)' = CountedOf(t) \ {k}
      PROVE  Cardinality(Counted') = Cardinality(Counted) - 1
  <2>1. Counted' = Counted \ {<<t, k>>}
    <3>1. \A c \in T \X {1, 2} : c \in Counted' <=> c \in Counted /\ c # <<t, k>>
      BY <1>1, <1>2, <1>3, <1>6 DEF Counted
    <3>2. Counted \subseteq T \X {1, 2} /\ Counted' \subseteq T \X {1, 2}
      BY <1>1 DEF Counted
    <3> QED
      BY <1>3, <3>1, <3>2
  <2>2. <<t, k>> \in Counted
    BY <1>6, <1>3 DEF Counted
  <2> QED
    BY <2>1, <2>2, CountsAreFinite, FS_RemoveElement
<1> QED
  BY <1>4, <1>5, <1>6

\* Who does not move keeps its counted parts.
LEMMA SameCounted ==
  \A u \in T : Same(u) => CountedOf(u)' = CountedOf(u)
BY DEF Same, CountedOf, Discounted

\* A step that counts nobody in or out.
LEMMA CountsStay ==
  ASSUME Counts, NEW CONSTANT t \in T, \A u \in T : u # t => Same(u),
         UNCHANGED <<program, concurrentThreadNum, totalThreadCreated>>,
         Created' = Created, CountedOf(t)' = CountedOf(t),
         treePc'[t] = "spawn" <=> treePc[t] = "spawn"
  PROVE  Counts'
<1>1. Counted' = Counted
  <2>1. \A u \in T : u # t => CountedOf(u)' = CountedOf(u)
    BY SameCounted
  <2>2. 1 \in {1, 2}
    OBVIOUS
  <2> QED
    BY <2>1, <2>2, CountedMoves
<1>2. Spawning' = Spawning
  BY DEF Spawning, Same, T, Tree!TreeThreads
<1>3. Root' = Root
  BY DEF Root, Tree!Root
<1> QED
  BY <1>1, <1>2, <1>3 DEF Counts

-----------------------------------------------------------------------------
(* The steps of the recursive programs *)

\* The invariant after a step of t that creates no thread.
LEMMA StepKeeps ==
  ASSUME TInv, NEW CONSTANT t \in T, Steps(t), TTypeOK', Progress(t)', TSorting', Counts',
         \A k \in re[t] : k \in Joined(t)' => treePc[PartOf(t, k)] = "ended",
         \/ treeArray' = treeArray
         \/ /\ treePc[t] \in {"part", "seqPart"}
            /\ \E x, y \in Indices : /\ Inside(x, treeJob[t]) /\ Inside(y, treeJob[t])
                                     /\ treeArray' = swap(treeArray, x, y)
  PROVE  TInv'
<1>1. Shape' /\ Joins'
  BY TreeStays DEF TInv
<1>2. \A u \in T : Progress(u)'
  BY OthersStay DEF Steps
<1> QED
  BY <1>1, <1>2 DEF TInv, TSorting, T, Tree!TreeThreads

\* The parts of the invariant.
LEMMA TSortingNow == TInv => TSorting /\ TTypeOK /\ Shape /\ Joins /\ Counts
                             /\ \A u \in T : Progress(u)
BY DEF TInv, TSorting

\* A step of t that moves no segment and counts nobody.
LEMMA TQuiet ==
  ASSUME TInv, NEW CONSTANT t \in T, Steps(t), TTypeOK', Progress(t)',
         UNCHANGED <<treeArray, treeInput, program, concurrentThreadNum, totalThreadCreated>>,
         TOwn(t)' = TOwn(t), CountedOf(t)' = CountedOf(t),
         treePc'[t] = "spawn" <=> treePc[t] = "spawn",
         \A k \in re[t] : k \in Joined(t)' => treePc[PartOf(t, k)] = "ended"
  PROVE  TInv'
<1>1. \A u \in T : u # t => Same(u)
  BY DEF Steps
<1>2. TSorting'
  <2>1. \A u \in T : TOwn(u)' = TOwn(u)
    BY <1>1, OwnIs
  <2> QED
    BY <2>1, TNoneMoves, TSortingNow, TStays
<1>3. Created' = Created
  BY TreeStays, TSortingNow
<1>4. Counts'
  BY <1>1, <1>3, CountsStay, TSortingNow
<1> QED
  BY <1>2, <1>4, StepKeeps

\* A step of t that changes only its label, perhaps with the part it is at, and the counts.
LEMMA Moves ==
  ASSUME TTypeOK, NEW CONSTANT t \in T, NEW to \in TLabels \ {"out"},
         treePc[t] \notin {"out", "ended"}, treePc' = [treePc EXCEPT ![t] = to],
         part' = part \/ part' = [part EXCEPT ![t] = 3 - @],
         UNCHANGED <<treeArray, treeInput, index, re, treeJob, treeCur, treeLocal>>,
         concurrentThreadNum' \in Int, totalThreadCreated' \in Int
  PROVE  /\ Steps(t) /\ TTypeOK' /\ treePc'[t] = to /\ part[t] \in {1, 2}
         /\ part' = part \/ part'[t] = 3 - part[t]
         /\ \A k : PartOf(t, k)' = PartOf(t, k)
<1>1. /\ \A u \in T : u # t => treePc'[u] = treePc[u] /\ part'[u] = part[u]
      /\ treePc'[t] = to /\ part[t] \in {1, 2}
      /\ part' = part \/ part'[t] = 3 - part[t]
  BY DEF TTypeOK
<1>2. Steps(t)
  BY <1>1 DEF Steps, Same
<1>3. TTypeOK'
  <2>1. treePc' \in [T -> TLabels]
    BY DEF TTypeOK
  <2>2. part' \in [T -> {1, 2}]
    <3>1. CASE part' = [part EXCEPT ![t] = 3 - @]
      <4>1. 3 - part[t] \in {1, 2}
        BY <1>1
      <4> QED
        BY <3>1, <4>1 DEF TTypeOK
    <3>2. CASE part' = part
      BY <3>2 DEF TTypeOK
    <3> QED
      BY <3>1, <3>2
  <2> QED
    BY <2>1, <2>2 DEF TTypeOK, T, Tree!TreeThreads
<1>4. \A k : PartOf(t, k)' = PartOf(t, k)
  BY DEF PartOf, Tree!PartOf
<1> QED
  BY <1>1, <1>2, <1>3, <1>4

\* What a thread has, by where it is.
LEMMA OwnBy ==
  \A t : /\ treePc[t] = "enter" => TOwn(t) = Numbered(t, treeLocal[t]) \cup {<<t, 0, t>>}
         /\ treePc[t] \in {"part", "seqPart"} =>
              TOwn(t) = Numbered(t, treeLocal[t]) \cup {<<t, 0, treeJob[t]>>} \cup Rest(t)
         /\ treePc[t] \notin {"enter", "part", "seqPart"} =>
              TOwn(t) = Numbered(t, treeLocal[t]) \cup Rest(t)
BY DEF TOwn, Place, Rest

\* The same after a step.
LEMMA OwnByThen ==
  \A t : /\ treePc'[t] = "enter" => TOwn(t)' = Numbered(t, treeLocal'[t]) \cup {<<t, 0, t>>}
         /\ treePc'[t] \in {"part", "seqPart"} =>
              TOwn(t)' = Numbered(t, treeLocal'[t]) \cup {<<t, 0, treeJob'[t]>>} \cup Rest(t)'
         /\ treePc'[t] \notin {"enter", "part", "seqPart"} =>
              TOwn(t)' = Numbered(t, treeLocal'[t]) \cup Rest(t)'
BY DEF TOwn, Place, Rest, Numbered

\* The parts still to be given away, one by one.
LEMMA RestIs ==
  \A t : /\ treePc[t] \in {"create", "count", "spawn"} /\ part[t] = 1 =>
              Rest(t) = {<<t, -1, PartOf(t, 1)>>, <<t, -2, PartOf(t, 2)>>}
         /\ treePc[t] \in {"create", "count", "spawn"} /\ part[t] = 2 =>
              Rest(t) = {<<t, -2, PartOf(t, 2)>>}
         /\ treePc[t] \in {"seq", "seqPart"} =>
              Rest(t) = IF part[t] = 1 THEN {<<t, -2, PartOf(t, 2)>>} ELSE {}
         /\ treePc[t] \notin {"create", "count", "spawn", "seq", "seqPart"} => Rest(t) = {}
<1>1. 1..2 = {1, 2} /\ 2..2 = {2}
  OBVIOUS
<1> QED
  BY <1>1 DEF Rest

\* The same after a step.
LEMMA RestIsThen ==
  \A t : /\ treePc'[t] \in {"create", "count", "spawn"} /\ part'[t] = 1 =>
              Rest(t)' = {<<t, -1, PartOf(t, 1)'>>, <<t, -2, PartOf(t, 2)'>>}
         /\ treePc'[t] \in {"create", "count", "spawn"} /\ part'[t] = 2 =>
              Rest(t)' = {<<t, -2, PartOf(t, 2)'>>}
         /\ treePc'[t] \in {"seq", "seqPart"} =>
              Rest(t)' = IF part'[t] = 1 THEN {<<t, -2, PartOf(t, 2)'>>} ELSE {}
         /\ treePc'[t] \notin {"create", "count", "spawn", "seq", "seqPart"} => Rest(t)' = {}
<1>1. 1..2 = {1, 2} /\ 2..2 = {2}
  OBVIOUS
<1> QED
  BY <1>1 DEF Rest, PartOf, Tree!PartOf

-----------------------------------------------------------------------------
(* Steps of the recursive programs that sort nothing *)

\* A step that changes nothing of what the invariant is about.
LEMMA TStutter ==
  ASSUME TInv, UNCHANGED <<treeArray, treeInput, concurrentThreadNum, totalThreadCreated, program,
                           treePc, part, index, re, treeJob, treeCur, treeLocal>>
  PROVE  TInv'
<1>1. \A u \in T : Same(u)
  BY DEF Same
<1>2. \A u : \A k : PartOf(u, k)' = PartOf(u, k)
  BY DEF PartOf, Tree!PartOf
<1>3. T' = T /\ Root' = Root /\ Created' = Created /\ Spawning' = Spawning
  BY DEF T, Tree!TreeThreads, Root, Tree!Root, Created, Spawning
<1>4. TUnsorted' = TUnsorted
  BY <1>1, OwnIs, TNoneMoves
<1>5. TSorting'
  BY <1>4, TStays, TSortingNow
<1>6. TTypeOK'
  BY <1>3 DEF TInv, TTypeOK
<1>7. \A u \in T : Progress(u)'
  <2>1. \A u \in T : (Progress(u)' <=> Progress(u))
    BY DEF Progress, Parted, Done
  <2> QED
    BY <2>1 DEF TInv
<1>8. \A u : Joined(u)' = Joined(u) /\ Discounted(u)' = Discounted(u)
  BY DEF Joined, Discounted
<1>9. Shape' /\ Joins'
  <2>1. Shape'
    <3>1. \A u, z : (Below(u, z)' <=> Below(u, z)) /\ (Far(u, z)' <=> Far(u, z))
      BY <1>2 DEF Below, Sub, Far
    <3> QED
      BY <1>2, <1>3, <3>1 DEF TInv, Shape
  <2>2. Joins'
    BY <1>2, <1>3, <1>8 DEF TInv, Joins, Sub
  <2> QED
    BY <2>1, <2>2
<1>10. Counts'
  <2>1. Counted' = Counted
    BY <1>3, <1>8 DEF Counted, CountedOf
  <2> QED
    BY <1>3, <2>1 DEF TInv, Counts
<1> QED
  BY <1>3, <1>5, <1>6, <1>7, <1>9, <1>10 DEF TInv, TSorting

\* A thread that has nothing to sort ends; one that has a segment begins with it.
LEMMA EnterKeeps ==
  ASSUME TInv, NEW CONSTANT t \in T, Tree!Enter(t), UNCHANGED program
  PROVE  TInv'
<1> DEFINE to == IF t[1] >= t[2] THEN "ended" ELSE "part"
<1>0. TSorting /\ TTypeOK /\ Shape /\ Joins /\ Counts /\ Progress(t)
  BY TSortingNow
<1>1. /\ treePc[t] = "enter" /\ treePc' = [treePc EXCEPT ![t] = to] /\ part' = part
      /\ UNCHANGED <<treeArray, treeInput, index, re, treeJob, treeCur, treeLocal,
                     concurrentThreadNum, totalThreadCreated>>
  BY DEF Tree!Enter, Tree!Move, Tree!At, Tree!countVars, Tree!sortVars
<1>2. to \in TLabels \ {"out"} /\ to \in {"ended", "part"}
  BY DEF TLabels
<1>3. concurrentThreadNum' \in Int /\ totalThreadCreated' \in Int
  BY <1>0, <1>1 DEF TTypeOK
<1> HIDE DEF to
<1>4. Steps(t) /\ TTypeOK' /\ treePc'[t] = to
  BY <1>0, <1>1, <1>2, <1>3, Moves
<1>5. re[t] = {} /\ treeJob[t] = t /\ treeCur[t] = t /\ treeLocal[t] = <<>> /\ part[t] = 1
  BY <1>0, <1>1 DEF Progress
<1>6. Progress(t)'
  <2>1. to = "part" => t \in Segments /\ Done(treeArray, t, t)
    <3>1. to = "part" => ~(t[1] >= t[2])
      BY DEF to
    <3>2. to = "part" => t \in Segments
      BY <3>1, ThreadsAre
    <3>3. treeArray \in [Indices -> Int]
      BY <1>0 DEF TTypeOK
    <3> QED
      BY <3>2, <3>3, NothingDone
  <2>2. to = "part" => Done(treeArray, treeJob[t], treeCur[t])'
    BY <1>1, <1>5, <2>1 DEF Done
  <2> QED
    BY <1>1, <1>2, <1>4, <1>5, <2>1, <2>2 DEF Progress
<1>7. CountedOf(t)' = CountedOf(t)
  BY <1>1, <1>2, <1>4, <1>5 DEF CountedOf
<1>8. CASE to = "part"
  <2>1. TOwn(t)' = TOwn(t)
    <3>1. TOwn(t) = {<<t, 0, t>>}
      BY <1>1, <1>5, OwnBy, RestIs, NumberedFew
    <3>2. TOwn(t)' = {<<t, 0, t>>}
      BY <1>1, <1>4, <1>5, <1>8, OwnByThen, RestIsThen, NumberedFew
    <3> QED
      BY <3>1, <3>2
  <2> QED
    BY <1>1, <1>4, <1>5, <1>6, <1>7, <1>8, <2>1, TQuiet
<1>9. CASE to = "ended"
  <2> DEFINE a == <<t, 0, t>>
  <2>1. TOwn(t) = {a} /\ TOwn(t)' = {}
    BY <1>1, <1>4, <1>5, <1>9, OwnBy, OwnByThen, RestIs, RestIsThen, NumberedFew
  <2>2. a[3] = t /\ t[1] >= t[2]
    BY <1>9 DEF to
  <2> HIDE DEF a
  <2>3. TUnsorted' = (TUnsorted \ {a}) \cup {} /\ {a} \subseteq TUnsorted
    <3>1. \A u \in T : u # t => TOwn(u)' = TOwn(u)
      BY <1>4, OwnIs DEF Steps
    <3>2. {a} \subseteq TOwn(t) /\ TOwn(t)' = (TOwn(t) \ {a}) \cup {}
      BY <2>1
    <3> QED
      BY <3>1, <3>2, TThreadMoves
  <2>4. TSorting'
    <3>1. a \in TUnsorted /\ a[3] \in T /\ a[3][1] >= a[3][2]
      BY <2>2, <2>3
    <3>2. TUnsorted' = TUnsorted \ {a}
      BY <2>3
    <3> QED
      BY <1>0, <1>1, <3>1, <3>2, TDropped
  <2>5. Created' = Created
    BY <1>0, <1>4, <1>5, TreeStays, TSortingNow
  <2>6. Counts'
    BY <1>0, <1>1, <1>4, <1>7, <1>9, <2>5, CountsStay DEF Steps
  <2> QED
    BY <1>1, <1>4, <1>5, <1>6, <2>4, <2>6, StepKeeps
<1> QED
  BY <1>2, <1>8, <1>9

\* The calls are done: the next part.
LEMMA SeqEndKeeps ==
  ASSUME TInv, NEW CONSTANT t \in T, Tree!SeqEnd(t), UNCHANGED program
  PROVE  TInv'
<1> DEFINE to == IF part[t] = 1 THEN "create" ELSE "join"
<1>0. TTypeOK /\ Progress(t)
  BY TSortingNow
<1>1. /\ treePc[t] = "seq" /\ treePc' = [treePc EXCEPT ![t] = to]
      /\ part' = [part EXCEPT ![t] = 3 - @] /\ treeLocal[t] = <<>>
      /\ UNCHANGED <<treeArray, treeInput, index, re, treeJob, treeCur, treeLocal,
                     concurrentThreadNum, totalThreadCreated>>
  BY DEF Tree!SeqEnd, Tree!NextPart, Tree!Move, Tree!At, Tree!countVars, Tree!sortVars
<1>2. to \in TLabels \ {"out"} /\ to \in {"create", "join"}
  BY DEF TLabels
<1>3. concurrentThreadNum' \in Int /\ totalThreadCreated' \in Int
  BY <1>0, <1>1 DEF TTypeOK
<1> HIDE DEF to
<1>4. /\ Steps(t) /\ TTypeOK' /\ treePc'[t] = to /\ part[t] \in {1, 2}
      /\ \A k : PartOf(t, k)' = PartOf(t, k)
  BY <1>0, <1>1, <1>2, <1>3, Moves
<1>5. part'[t] = 3 - part[t]
  BY <1>0, <1>1 DEF TTypeOK
<1>6. (part[t] = 1 => part'[t] = 2 /\ to = "create") /\ (part[t] = 2 => part'[t] = 1 /\ to = "join")
  BY <1>4, <1>5 DEF to
<1>7. re[t] \subseteq {1, 2}
  BY <1>0 DEF TTypeOK
<1>8. Progress(t)'
  <2>1. to = "create" => \A k \in re[t] : k < part'[t]
    BY <1>0, <1>1, <1>4, <1>6, <1>7 DEF Progress
  <2>2. Parted(t)' /\ re'[t] = re[t] /\ treeLocal'[t] = <<>>
    BY <1>0, <1>1 DEF Progress, Parted
  <2> QED
    BY <1>2, <1>4, <2>1, <2>2 DEF Progress
<1>9. CountedOf(t)' = CountedOf(t)
  <2>1. Discounted(t)' = {} /\ Discounted(t) = {}
    BY <1>1, <1>2, <1>4, <1>6 DEF Discounted
  <2> QED
    BY <1>1, <1>2, <1>4, <2>1 DEF CountedOf
<1>10. Joined(t)' = {}
  BY <1>2, <1>4, <1>6 DEF Joined
<1>11. TOwn(t)' = TOwn(t)
  <2>1. TOwn(t) = Numbered(t, treeLocal[t]) \cup Rest(t)
    BY <1>1, OwnBy
  <2>2. TOwn(t)' = Numbered(t, treeLocal'[t]) \cup Rest(t)'
    BY <1>2, <1>4, OwnByThen
  <2>3. Rest(t) = IF part[t] = 1 THEN {<<t, -2, PartOf(t, 2)>>} ELSE {}
    BY <1>1, RestIs
  <2>4. CASE part[t] = 1
    <3>1. Rest(t)' = {<<t, -2, PartOf(t, 2)'>>}
      BY <1>4, <1>6, <2>4, RestIsThen
    <3> QED
      BY <1>1, <1>4, <2>1, <2>2, <2>3, <2>4, <3>1
  <2>5. CASE part[t] = 2
    <3>1. Rest(t)' = {}
      BY <1>4, <1>6, <2>5, RestIsThen
    <3> QED
      BY <1>1, <2>1, <2>2, <2>3, <2>5, <3>1
  <2> QED
    BY <1>4, <2>4, <2>5
<1> QED
  BY <1>1, <1>2, <1>4, <1>8, <1>9, <1>10, <1>11, TQuiet

\* The mutex is taken, to count a thread in or out.
LEMMA LockKeeps ==
  ASSUME TInv, NEW CONSTANT t \in T, Tree!Lock(t), UNCHANGED program
  PROVE  TInv'
<1>0. TTypeOK /\ Progress(t) /\ Joins
  BY TSortingNow
<1>1. PICK to \in TLabels \ {"out"} :
        /\ \/ treePc[t] = "create" /\ to = "count"
           \/ treePc[t] = "joined" /\ to = "discount"
        /\ treePc' = [treePc EXCEPT ![t] = to] /\ part' = part
        /\ UNCHANGED <<treeArray, treeInput, index, re, treeJob, treeCur, treeLocal,
                       concurrentThreadNum, totalThreadCreated>>
  BY DEF Tree!Lock, Tree!Move, Tree!At, Tree!countVars, Tree!sortVars, TLabels
<1>3. concurrentThreadNum' \in Int /\ totalThreadCreated' \in Int
  BY <1>0, <1>1 DEF TTypeOK
<1>4. /\ Steps(t) /\ TTypeOK' /\ treePc'[t] = to /\ part[t] \in {1, 2}
      /\ \A k : PartOf(t, k)' = PartOf(t, k)
  BY <1>0, <1>1, <1>3, Moves
<1>5. Progress(t)'
  <2>1. Parted(t)' /\ re'[t] = re[t] /\ treeLocal'[t] = <<>>
    BY <1>0, <1>1 DEF Progress, Parted
  <2> QED
    BY <1>0, <1>1, <1>4, <2>1 DEF Progress
<1>6. CountedOf(t)' = CountedOf(t)
  BY <1>1, <1>4 DEF CountedOf, Discounted
<1>7. Joined(t)' = Joined(t)
  BY <1>1, <1>4 DEF Joined
<1>8. TOwn(t)' = TOwn(t)
  <2>1. Numbered(t, treeLocal'[t]) = Numbered(t, treeLocal[t])
    BY <1>1
  <2>2. Rest(t)' = Rest(t)
    <3>1. CASE to = "count"
      BY <1>1, <1>4, <3>1 DEF Rest
    <3>2. CASE to = "discount"
      BY <1>1, <1>4, <3>2, RestIs, RestIsThen
    <3> QED
      BY <1>1, <3>1, <3>2
  <2> QED
    BY <1>1, <1>4, <2>1, <2>2, OwnBy, OwnByThen
<1>9. \A k \in re[t] : k \in Joined(t)' => treePc[PartOf(t, k)] = "ended"
  BY <1>0, <1>7 DEF Joins
<1> QED
  BY <1>1, <1>4, <1>5, <1>6, <1>8, <1>9, TQuiet

\* pthread_join returns: the thread of this part has ended.
LEMMA JoinKeeps ==
  ASSUME TInv, NEW CONSTANT t \in T, Tree!Join(t), UNCHANGED program
  PROVE  TInv'
<1>0. TTypeOK /\ Progress(t) /\ Joins
  BY TSortingNow
<1>1. /\ treePc[t] = "join" /\ part[t] \in re[t] /\ treePc[PartOf(t, part[t])] = "ended"
      /\ treePc' = [treePc EXCEPT ![t] = "joined"] /\ part' = part
      /\ UNCHANGED <<treeArray, treeInput, index, re, treeJob, treeCur, treeLocal,
                     concurrentThreadNum, totalThreadCreated>>
  BY DEF Tree!Join, Tree!Move, Tree!At, Tree!countVars, Tree!sortVars, PartOf
<1>2. "joined" \in TLabels \ {"out"}
  BY DEF TLabels
<1>3. concurrentThreadNum' \in Int /\ totalThreadCreated' \in Int
  BY <1>0, <1>1 DEF TTypeOK
<1>4. /\ Steps(t) /\ TTypeOK' /\ treePc'[t] = "joined" /\ part[t] \in {1, 2}
      /\ \A k : PartOf(t, k)' = PartOf(t, k)
  BY <1>0, <1>1, <1>2, <1>3, Moves
<1>5. Progress(t)'
  <2>1. Parted(t)' /\ re'[t] = re[t] /\ treeLocal'[t] = <<>>
    BY <1>0, <1>1 DEF Progress, Parted
  <2> QED
    BY <1>1, <1>4, <2>1 DEF Progress
<1>6. CountedOf(t)' = CountedOf(t)
  BY <1>1, <1>4 DEF CountedOf, Discounted
<1>7. \A k \in re[t] : k \in Joined(t)' => treePc[PartOf(t, k)] = "ended"
  <2>1. Joined(t)' = 1..part[t] /\ Joined(t) = 1..(part[t] - 1)
    BY <1>1, <1>4 DEF Joined
  <2>2. \A k \in 1..part[t] : k = part[t] \/ k \in 1..(part[t] - 1)
    BY <1>4
  <2> QED
    BY <1>0, <1>1, <2>1, <2>2 DEF Joins
<1>8. TOwn(t)' = TOwn(t)
  <2>1. Rest(t) = {} /\ Rest(t)' = {}
    BY <1>1, <1>4, RestIs, RestIsThen
  <2>2. TOwn(t) = Numbered(t, treeLocal[t]) \cup Rest(t)
    BY <1>1, OwnBy
  <2>3. TOwn(t)' = Numbered(t, treeLocal'[t]) \cup Rest(t)'
    BY <1>4, OwnByThen
  <2> QED
    BY <1>1, <2>1, <2>2, <2>3
<1> QED
  BY <1>1, <1>4, <1>5, <1>6, <1>7, <1>8, TQuiet

\* What is left of the parts of t after the step to the next part.
LEMMA NextPartIs ==
  ASSUME TTypeOK, Joins, NEW CONSTANT t \in T, treePc[t] \in {"join", "discount"},
         treePc'[t] = IF part[t] = 1 THEN "join" ELSE "ended",
         part[t] = 1 => part'[t] = 2, re' = re,
         part[t] \in re[t] => treePc[PartOf(t, part[t])] = "ended"
  PROVE  /\ \A k \in re[t] : k \in Joined(t)' => treePc[PartOf(t, k)] = "ended"
         /\ CountedOf(t)' = CountedOf(t) \ {part[t]}
<1>1. part[t] \in {1, 2} /\ re[t] \subseteq {1, 2}
  BY DEF TTypeOK
<1>2. /\ 1..2 = {1, 2} /\ 1..1 = {1} /\ 1..0 = {}
  OBVIOUS
<1>3. CASE part[t] = 1
  <2>1. Joined(t)' = {1} /\ Discounted(t)' = {1} /\ Discounted(t) = {}
    BY <1>2, <1>3 DEF Joined, Discounted
  <2> QED
    BY <1>1, <1>3, <2>1 DEF CountedOf
<1>4. CASE part[t] = 2
  <2>1. Joined(t)' = {1, 2} /\ Discounted(t)' = {1, 2} /\ Discounted(t) = {1} /\ 1 \in Joined(t)
    BY <1>2, <1>4 DEF Joined, Discounted
  <2>2. 1 \in re[t] => treePc[PartOf(t, 1)] = "ended"
    BY <2>1 DEF Joins
  <2> QED
    BY <1>1, <1>4, <2>1, <2>2 DEF CountedOf
<1> QED
  BY <1>1, <1>3, <1>4

\* There is no thread to join for this part.
LEMMA NoJoinKeeps ==
  ASSUME TInv, NEW CONSTANT t \in T, Tree!NoJoin(t), UNCHANGED program
  PROVE  TInv'
<1> DEFINE to == IF part[t] = 1 THEN "join" ELSE "ended"
<1>0. TTypeOK /\ Progress(t) /\ Joins
  BY TSortingNow
<1>1. /\ treePc[t] = "join" /\ part[t] \notin re[t]
      /\ treePc' = [treePc EXCEPT ![t] = to] /\ part' = [part EXCEPT ![t] = 3 - @]
      /\ UNCHANGED <<treeArray, treeInput, index, re, treeJob, treeCur, treeLocal,
                     concurrentThreadNum, totalThreadCreated>>
  BY DEF Tree!NoJoin, Tree!NextPart, Tree!Move, Tree!At, Tree!countVars, Tree!sortVars
<1>2. to \in TLabels \ {"out"} /\ to \in {"join", "ended"}
  BY DEF TLabels
<1>3. concurrentThreadNum' \in Int /\ totalThreadCreated' \in Int
  BY <1>0, <1>1 DEF TTypeOK
<1>4. /\ Steps(t) /\ TTypeOK' /\ treePc'[t] = to /\ part[t] \in {1, 2}
  <2> HIDE DEF to
  <2> QED
    BY <1>0, <1>1, <1>2, <1>3, Moves
<1>5. part'[t] = 3 - part[t]
  BY <1>0, <1>1 DEF TTypeOK
<1>6. /\ \A k \in re[t] : k \in Joined(t)' => treePc[PartOf(t, k)] = "ended"
      /\ CountedOf(t)' = CountedOf(t) \ {part[t]}
  <2>1. part[t] = 1 => part'[t] = 2
    BY <1>5
  <2> QED
    BY <1>0, <1>1, <1>4, <2>1, NextPartIs
<1>7. CountedOf(t)' = CountedOf(t)
  <2>1. part[t] \notin CountedOf(t)
    BY <1>1 DEF CountedOf
  <2> QED
    BY <1>6, <2>1
<1> HIDE DEF to
<1>8. Progress(t)'
  <2>1. Parted(t)' /\ re'[t] = re[t] /\ treeLocal'[t] = <<>>
    BY <1>0, <1>1 DEF Progress, Parted
  <2> QED
    BY <1>2, <1>4, <2>1 DEF Progress
<1>9. TOwn(t)' = TOwn(t)
  <2>1. Rest(t) = {} /\ Rest(t)' = {}
    BY <1>1, <1>2, <1>4, RestIs, RestIsThen
  <2>2. TOwn(t) = Numbered(t, treeLocal[t]) \cup Rest(t)
    BY <1>1, OwnBy
  <2>3. TOwn(t)' = Numbered(t, treeLocal'[t]) \cup Rest(t)'
    BY <1>2, <1>4, OwnByThen
  <2> QED
    BY <1>1, <2>1, <2>2, <2>3
<1> QED
  BY <1>1, <1>2, <1>4, <1>6, <1>7, <1>8, <1>9, TQuiet

\* The threads that are counted but not created yet.
LEMMA SpawningMoves ==
  ASSUME NEW CONSTANT t \in T, \A u \in T : u # t => (treePc'[u] = "spawn" <=> treePc[u] = "spawn")
  PROVE  /\ treePc[t] # "spawn" /\ treePc'[t] = "spawn" =>
              Cardinality(Spawning') = Cardinality(Spawning) + 1
         /\ treePc[t] = "spawn" /\ treePc'[t] # "spawn" =>
              Cardinality(Spawning') = Cardinality(Spawning) - 1
         /\ (treePc[t] = "spawn" <=> treePc'[t] = "spawn") => Spawning' = Spawning
<1>1. Spawning' = {u \in T : treePc'[u] = "spawn"}
  BY DEF Spawning, T, Tree!TreeThreads
<1>2. ASSUME treePc[t] # "spawn", treePc'[t] = "spawn"
      PROVE  Cardinality(Spawning') = Cardinality(Spawning) + 1
  <2>1. Spawning' = Spawning \cup {t} /\ t \notin Spawning
    BY <1>1, <1>2 DEF Spawning
  <2> QED
    BY <2>1, CountsAreFinite, FS_AddElement
<1>3. ASSUME treePc[t] = "spawn", treePc'[t] # "spawn"
      PROVE  Cardinality(Spawning') = Cardinality(Spawning) - 1
  <2>1. Spawning' = Spawning \ {t} /\ t \in Spawning
    BY <1>1, <1>3 DEF Spawning
  <2> QED
    BY <2>1, CountsAreFinite, FS_RemoveElement
<1>4. (treePc[t] = "spawn" <=> treePc'[t] = "spawn") => Spawning' = Spawning
  BY <1>1 DEF Spawning
<1> QED
  BY <1>2, <1>3, <1>4

\* A thread is counted before it is created.
LEMMA CountThreadKeeps ==
  ASSUME TInv, NEW CONSTANT t \in T, Tree!CountThread(t), UNCHANGED program
  PROVE  TInv'
<1>0. TSorting /\ TTypeOK /\ Progress(t) /\ Joins /\ Counts /\ Shape
  BY TSortingNow
<1>1. /\ treePc[t] = "count" /\ concurrentThreadNum < MaxThreads
      /\ treePc' = [treePc EXCEPT ![t] = "spawn"] /\ part' = part
      /\ concurrentThreadNum' = concurrentThreadNum + 1
      /\ totalThreadCreated' = totalThreadCreated + 1
      /\ UNCHANGED <<treeArray, treeInput, index, re, treeJob, treeCur, treeLocal>>
  BY DEF Tree!CountThread, Tree!MayCreate, Tree!Move, Tree!At, Tree!sortVars
<1>2. "spawn" \in TLabels \ {"out"}
  BY DEF TLabels
<1>3. /\ concurrentThreadNum \in Int /\ totalThreadCreated \in Int
      /\ concurrentThreadNum' \in Int /\ totalThreadCreated' \in Int
  BY <1>0, <1>1 DEF TTypeOK
<1>4. /\ Steps(t) /\ TTypeOK' /\ treePc'[t] = "spawn" /\ part[t] \in {1, 2}
      /\ \A k : PartOf(t, k)' = PartOf(t, k)
  BY <1>0, <1>1, <1>2, <1>3, Moves
<1>5. \A u \in T : u # t => Same(u)
  BY <1>4 DEF Steps
<1>6. Progress(t)'
  <2>1. Parted(t)' /\ re'[t] = re[t] /\ treeLocal'[t] = <<>>
    BY <1>0, <1>1 DEF Progress, Parted
  <2> QED
    BY <1>0, <1>1, <1>4, <2>1 DEF Progress
<1>7. Joined(t)' = {}
  BY <1>4 DEF Joined
<1>8. TSorting'
  <2>1. TOwn(t)' = TOwn(t)
    <3>1. Rest(t)' = Rest(t)
      BY <1>1, <1>4 DEF Rest
    <3>2. TOwn(t) = Numbered(t, treeLocal[t]) \cup Rest(t)
      BY <1>1, OwnBy
    <3>3. TOwn(t)' = Numbered(t, treeLocal'[t]) \cup Rest(t)'
      BY <1>4, OwnByThen
    <3> QED
      BY <1>1, <3>1, <3>2, <3>3
  <2>2. \A u \in T : TOwn(u)' = TOwn(u)
    BY <1>5, <2>1, OwnIs
  <2> QED
    BY <1>0, <1>1, <2>2, TNoneMoves, TStays
<1>9. Created' = Created
  BY <1>0, <1>4, <1>7, TreeStays, TSortingNow
<1>10. Counts'
  <2> SUFFICES ASSUME program = "Recursive"
               PROVE  /\ concurrentThreadNum' = Cardinality(Counted')
                      /\ concurrentThreadNum' <= MaxThreads
                      /\ totalThreadCreated' = Cardinality(Created' \ {Root})
                                               + Cardinality(Spawning')
    BY DEF Counts, Root, Tree!Root
  <2>1. PICK k \in {1, 2} : k = part[t]
    BY <1>4
  <2>2. k \notin CountedOf(t) /\ CountedOf(t)' = CountedOf(t) \cup {k}
    <3>1. k \notin re[t]
      BY <1>0, <1>1, <1>4, <2>1 DEF Progress
    <3>2. Discounted(t) = {} /\ Discounted(t)' = {}
      BY <1>1, <1>4 DEF Discounted
    <3> QED
      BY <1>1, <1>4, <2>1, <3>1, <3>2 DEF CountedOf
  <2>3. Cardinality(Counted') = Cardinality(Counted) + 1
    <3>1. \A u \in T : u # t => CountedOf(u)' = CountedOf(u)
      BY <1>5, SameCounted
    <3> QED
      BY <2>2, <3>1, CountedMoves
  <2>4. Cardinality(Spawning') = Cardinality(Spawning) + 1
    BY <1>1, <1>4, <1>5, SpawningMoves DEF Same
  <2>5. Cardinality(Spawning) \in Nat /\ Cardinality(Created \ {Root}) \in Nat
    BY CountsAreFinite
  <2>6. /\ concurrentThreadNum = Cardinality(Counted)
        /\ totalThreadCreated = Cardinality(Created \ {Root}) + Cardinality(Spawning)
    BY <1>0 DEF Counts
  <2>7. concurrentThreadNum' <= MaxThreads
    BY <1>1, <1>3, TreeAssumption
  <2> QED
    BY <1>1, <1>9, <2>3, <2>4, <2>5, <2>6, <2>7
<1> QED
  BY <1>1, <1>4, <1>6, <1>7, <1>8, <1>10, StepKeeps

\* A thread that is joined is taken off the count.
LEMMA DiscountKeeps ==
  ASSUME TInv, NEW CONSTANT t \in T, Tree!Discount(t), UNCHANGED program
  PROVE  TInv'
<1> DEFINE to == IF part[t] = 1 THEN "join" ELSE "ended"
<1>0. TSorting /\ TTypeOK /\ Progress(t) /\ Joins /\ Counts /\ Shape
  BY TSortingNow
<1>1. /\ treePc[t] = "discount"
      /\ treePc' = [treePc EXCEPT ![t] = to] /\ part' = [part EXCEPT ![t] = 3 - @]
      /\ concurrentThreadNum' = concurrentThreadNum - 1
      /\ UNCHANGED <<treeArray, treeInput, index, re, treeJob, treeCur, treeLocal,
                     totalThreadCreated>>
  BY DEF Tree!Discount, Tree!NextPart, Tree!Move, Tree!At, Tree!sortVars
<1>2. to \in TLabels \ {"out"} /\ to \in {"join", "ended"}
  BY DEF TLabels
<1>3. /\ concurrentThreadNum \in Int
      /\ concurrentThreadNum' \in Int /\ totalThreadCreated' \in Int
  BY <1>0, <1>1 DEF TTypeOK
<1>4. /\ Steps(t) /\ TTypeOK' /\ treePc'[t] = to /\ part[t] \in {1, 2}
  <2> HIDE DEF to
  <2> QED
    BY <1>0, <1>1, <1>2, <1>3, Moves
<1>5. part'[t] = 3 - part[t]
  BY <1>0, <1>1 DEF TTypeOK
<1>6. part[t] \in re[t] /\ part[t] \in CountedOf(t)
  <2>1. part[t] \notin Discounted(t)
    BY <1>1, <1>4 DEF Discounted
  <2> QED
    BY <1>0, <1>1, <1>4, <2>1 DEF Progress, CountedOf
<1>7. /\ \A k \in re[t] : k \in Joined(t)' => treePc[PartOf(t, k)] = "ended"
      /\ CountedOf(t)' = CountedOf(t) \ {part[t]}
  <2>1. part[t] = 1 => part'[t] = 2
    BY <1>5
  <2>2. part[t] \in Joined(t)
    BY <1>1, <1>4 DEF Joined
  <2>3. treePc[PartOf(t, part[t])] = "ended"
    BY <1>0, <1>6, <2>2 DEF Joins
  <2> QED
    BY <1>0, <1>1, <1>4, <2>1, <2>3, NextPartIs
<1> HIDE DEF to
<1>8. \A u \in T : u # t => Same(u)
  BY <1>4 DEF Steps
<1>9. Progress(t)'
  <2>1. Parted(t)' /\ re'[t] = re[t] /\ treeLocal'[t] = <<>>
    BY <1>0, <1>1 DEF Progress, Parted
  <2> QED
    BY <1>2, <1>4, <2>1 DEF Progress
<1>10. TSorting'
  <2>1. TOwn(t)' = TOwn(t)
    <3>1. Rest(t) = {} /\ Rest(t)' = {}
      BY <1>1, <1>2, <1>4, RestIs, RestIsThen
    <3>2. TOwn(t) = Numbered(t, treeLocal[t]) \cup Rest(t)
      BY <1>1, OwnBy
    <3>3. TOwn(t)' = Numbered(t, treeLocal'[t]) \cup Rest(t)'
      BY <1>2, <1>4, OwnByThen
    <3> QED
      BY <1>1, <3>1, <3>2, <3>3
  <2>2. \A u \in T : TOwn(u)' = TOwn(u)
    BY <1>8, <2>1, OwnIs
  <2> QED
    BY <1>0, <1>1, <2>2, TNoneMoves, TStays
<1>11. Created' = Created
  BY <1>0, <1>4, <1>7, TreeStays, TSortingNow
<1>12. Counts'
  <2> SUFFICES ASSUME program = "Recursive"
               PROVE  /\ concurrentThreadNum' = Cardinality(Counted')
                      /\ concurrentThreadNum' <= MaxThreads
                      /\ totalThreadCreated' = Cardinality(Created' \ {Root})
                                               + Cardinality(Spawning')
    BY DEF Counts, Root, Tree!Root
  <2>1. PICK k \in {1, 2} : k = part[t]
    BY <1>4
  <2>2. Cardinality(Counted') = Cardinality(Counted) - 1
    <3>1. \A u \in T : u # t => CountedOf(u)' = CountedOf(u)
      BY <1>8, SameCounted
    <3>2. k \in CountedOf(t) /\ CountedOf(t)' = CountedOf(t) \ {k}
      BY <1>6, <1>7, <2>1
    <3> QED
      BY <3>1, <3>2, CountedMoves
  <2>3. Spawning' = Spawning
    BY <1>1, <1>2, <1>4, <1>8, SpawningMoves DEF Same
  <2>4. /\ concurrentThreadNum = Cardinality(Counted) /\ concurrentThreadNum <= MaxThreads
        /\ totalThreadCreated = Cardinality(Created \ {Root}) + Cardinality(Spawning)
    BY <1>0 DEF Counts
  <2>5. concurrentThreadNum' <= MaxThreads
    BY <1>1, <1>3, <2>4, TreeAssumption
  <2> QED
    BY <1>1, <1>11, <2>2, <2>3, <2>4, <2>5
<1> QED
  BY <1>1, <1>4, <1>7, <1>9, <1>10, <1>12, StepKeeps

-----------------------------------------------------------------------------
(* Steps of the recursive programs that hand a segment on *)

\* Thread t puts one of its segments in another place.
LEMMA TOneMoves ==
  ASSUME TSorting, NEW CONSTANT t \in T, \A u \in T : u # t => Same(u),
         NEW a \in TOwn(t), NEW n, n[3] = a[3],
         TOwn(t)' = (TOwn(t) \ {a}) \cup {n}, treeArray' = treeArray, treeInput' = treeInput
  PROVE  TSorting'
<1>1. TUnsorted' = (TUnsorted \ {a}) \cup {n} /\ {a} \subseteq TUnsorted
  <2>1. \A u \in T : u # t => TOwn(u)' = TOwn(u)
    BY OwnIs
  <2>2. {a} \subseteq TOwn(t)
    OBVIOUS
  <2> QED
    BY <2>1, <2>2, TThreadMoves
<1>2. a \in TUnsorted
  BY <1>1
<1> QED
  BY <1>1, <1>2, TGiven

\* The next call of QuickSortSequential; one with nothing to sort returns at once.
LEMMA SeqNextKeeps ==
  ASSUME TInv, NEW CONSTANT t \in T, Tree!SeqNext(t), UNCHANGED program
  PROVE  TInv'
<1> DEFINE mine == treeLocal[t]
           top == mine[Len(mine)]
           rest == SubSeq(mine, 1, Len(mine) - 1)
           to == IF top[1] >= top[2] THEN "seq" ELSE "seqPart"
           a == <<t, Len(mine), top>>
           n == <<t, 0, top>>
<1>0. TSorting /\ TTypeOK /\ Progress(t) /\ Shape /\ Joins /\ Counts
  BY TSortingNow
<1>1. /\ mine # <<>> /\ treePc[t] = "seq" /\ treePc' = [treePc EXCEPT ![t] = to]
      /\ treeJob' = [treeJob EXCEPT ![t] = top] /\ treeCur' = [treeCur EXCEPT ![t] = top]
      /\ treeLocal' = [treeLocal EXCEPT ![t] = rest]
      /\ UNCHANGED <<treeArray, treeInput, index, part, re, concurrentThreadNum,
                     totalThreadCreated>>
  BY <1>0 DEF Tree!SeqNext, Tree!Move, Tree!At, Tree!countVars, Tree!Last, Tree!Front, TTypeOK
<1>2. /\ top \in T /\ rest \in Seq(T)
      /\ a \in Numbered(t, mine) /\ Numbered(t, rest) = Numbered(t, mine) \ {a}
  <2>1. mine \in Seq(T)
    BY <1>0 DEF TTypeOK
  <2> QED
    BY <1>1, <2>1, NumberedPop
<1>3. to \in {"seq", "seqPart"} /\ to \in TLabels
  BY DEF TLabels
<1>4. TTypeOK'
  <2>1. treeJob' \in [T -> T] /\ treeCur' \in [T -> T] /\ treeLocal' \in [T -> Seq(T)]
    BY <1>0, <1>1, <1>2 DEF TTypeOK
  <2>2. treePc' \in [T -> TLabels]
    BY <1>0, <1>1, <1>3 DEF TTypeOK
  <2> QED
    BY <1>0, <1>1, <2>1, <2>2 DEF TTypeOK, T, Tree!TreeThreads
<1>5. /\ \A u \in T : u # t => Same(u)
      /\ treePc'[t] = to /\ treeJob'[t] = top /\ treeCur'[t] = top /\ treeLocal'[t] = rest
  BY <1>0, <1>1 DEF TTypeOK, Same
<1>6. top[1] >= top[2] \/ (to = "seqPart" /\ top \in Segments)
  BY <1>2, ThreadsAre
<1>7. to = "seqPart" => top \in Segments
  BY <1>2, ThreadsAre
<1>8. n[3] = top /\ a[3] = top
  OBVIOUS
<1>9. a \notin Rest(t) /\ n \notin Rest(t) /\ n \notin Numbered(t, mine)
  <2>1. mine \in Seq(T) /\ Len(mine) \in Nat \ {0}
    BY <1>0, <1>1 DEF TTypeOK
  <2>2. \A b \in Rest(t) : b[2] = -2
    BY <1>1, RestIs
  <2> QED
    BY <2>1, <2>2 DEF Numbered
<1> HIDE DEF to, top, rest, a, n, mine
<1>10. Steps(t)
  BY <1>1, <1>3, <1>5 DEF Steps
<1>11. Progress(t)'
  <2>1. to = "seqPart" => Done(treeArray, top, top)
    BY <1>0, <1>7, NothingDone DEF TTypeOK
  <2>2. to = "seqPart" => Done(treeArray, treeJob[t], treeCur[t])'
    BY <1>1, <1>5, <2>1 DEF Done
  <2>3. Parted(t)' /\ re'[t] = re[t]
    BY <1>0, <1>1 DEF Progress, Parted
  <2> QED
    BY <1>0, <1>1, <1>3, <1>5, <1>7, <2>2, <2>3 DEF Progress
<1>12. Joined(t)' = {}
  BY <1>3, <1>5 DEF Joined
<1>13. Counts'
  <2>1. CountedOf(t)' = CountedOf(t)
    BY <1>1, <1>3, <1>5 DEF CountedOf, Discounted
  <2>2. Created' = Created
    BY <1>0, <1>10, <1>12, TreeStays, TSortingNow
  <2> QED
    BY <1>0, <1>1, <1>3, <1>5, <2>1, <2>2, CountsStay
<1>14. TSorting'
  <2>1. Rest(t)' = Rest(t)
    BY <1>1, <1>3, <1>5 DEF Rest, PartOf, Tree!PartOf
  <2>2. TOwn(t) = Numbered(t, mine) \cup Rest(t)
    BY <1>1, OwnBy DEF mine
  <2>3. CASE to = "seq"
    <3>1. TOwn(t)' = Numbered(t, rest) \cup Rest(t)
      BY <1>5, <2>1, <2>3, OwnByThen
    <3>2. TOwn(t)' = TOwn(t) \ {a} /\ a \in TOwn(t)
      BY <1>2, <1>9, <2>2, <3>1
    <3>3. TUnsorted' = (TUnsorted \ {a}) \cup {} /\ {a} \subseteq TUnsorted
      <4>1. \A u \in T : u # t => TOwn(u)' = TOwn(u)
        BY <1>5, OwnIs
      <4>2. {a} \subseteq TOwn(t) /\ TOwn(t)' = (TOwn(t) \ {a}) \cup {}
        BY <3>2
      <4> QED
        BY <4>1, <4>2, TThreadMoves
    <3>4. a \in TUnsorted /\ TUnsorted' = TUnsorted \ {a} /\ a[3] \in T /\ a[3][1] >= a[3][2]
      <4>1. top[1] >= top[2]
        BY <1>6, <2>3
      <4> QED
        BY <1>2, <1>8, <3>3, <4>1
    <3> QED
      BY <1>0, <1>1, <3>4, TDropped
  <2>4. CASE to = "seqPart"
    <3>1. TOwn(t)' = Numbered(t, rest) \cup {n} \cup Rest(t)
      BY <1>5, <2>1, <2>4, OwnByThen DEF n
    <3>2. TOwn(t)' = (TOwn(t) \ {a}) \cup {n} /\ a \in TOwn(t)
      BY <1>2, <1>9, <2>2, <3>1
    <3> QED
      BY <1>0, <1>1, <1>5, <1>8, <3>2, TOneMoves
  <2> QED
    BY <1>3, <2>3, <2>4
<1> QED
  BY <1>1, <1>4, <1>10, <1>11, <1>12, <1>13, <1>14, StepKeeps

\* A thread that sorts its part itself, because there are too many threads, or because
\* the new one is refused.
LEMMA SortMyselfKeeps ==
  ASSUME TInv, NEW CONSTANT t \in T, Tree!SortMyself(t) \/ Tree!SpawnRefused(t),
         UNCHANGED program
  PROVE  TInv'
<1> DEFINE mine == PartOf(t, part[t])
           a == <<t, -part[t], mine>>
           n == <<t, 1, mine>>
<1>0. TSorting /\ TTypeOK /\ Progress(t) /\ Shape /\ Joins /\ Counts
  BY TSortingNow
<1>1. /\ treePc[t] \in {"create", "count"} /\ treePc' = [treePc EXCEPT ![t] = "seq"]
      /\ treeLocal' = [treeLocal EXCEPT ![t] = <<mine>>]
      /\ UNCHANGED <<treeArray, treeInput, index, part, re, treeJob, treeCur,
                     concurrentThreadNum, totalThreadCreated>>
  BY DEF Tree!SortMyself, Tree!SpawnRefused, Tree!Move, Tree!At, Tree!countVars, PartOf
<1>2. Parted(t) /\ treeLocal[t] = <<>> /\ \A k \in re[t] : k < part[t]
  BY <1>0, <1>1 DEF Progress
<1>3. part[t] \in {1, 2}
  BY <1>0 DEF TTypeOK
<1>4. mine \in T
  BY <1>0, <1>2, <1>3, PartsOf
<1> HIDE DEF mine
<1>5. TTypeOK'
  <2>1. <<mine>> \in Seq(T)
    BY <1>4
  <2>2. treeLocal' \in [T -> Seq(T)]
    BY <1>0, <1>1, <2>1 DEF TTypeOK
  <2>3. treePc' \in [T -> TLabels]
    BY <1>0, <1>1 DEF TTypeOK, TLabels
  <2> QED
    BY <1>0, <1>1, <2>2, <2>3 DEF TTypeOK, T, Tree!TreeThreads
<1>6. /\ \A u \in T : u # t => Same(u)
      /\ treePc'[t] = "seq" /\ treeLocal'[t] = <<mine>>
  BY <1>0, <1>1 DEF TTypeOK, Same
<1>7. Steps(t)
  BY <1>1, <1>6 DEF Steps
<1>8. Progress(t)'
  BY <1>1, <1>2, <1>6 DEF Progress, Parted
<1>9. Joined(t)' = {}
  BY <1>6 DEF Joined
<1>10. Counts'
  <2>1. CountedOf(t)' = CountedOf(t)
    BY <1>1, <1>6 DEF CountedOf, Discounted
  <2>2. Created' = Created
    BY <1>0, <1>7, <1>9, TreeStays, TSortingNow
  <2> QED
    BY <1>0, <1>1, <1>6, <2>1, <2>2, CountsStay
<1>11. TSorting'
  <2>1. TOwn(t) = Rest(t)
    <3>1. TOwn(t) = Numbered(t, treeLocal[t]) \cup Rest(t)
      BY <1>1, OwnBy
    <3>2. Numbered(t, treeLocal[t]) = {}
      BY <1>2, NumberedFew
    <3> QED
      BY <3>1, <3>2
  <2>2. TOwn(t)' = {n} \cup Rest(t)'
    <3>1. TOwn(t)' = Numbered(t, treeLocal'[t]) \cup Rest(t)'
      BY <1>6, OwnByThen
    <3>2. Numbered(t, treeLocal'[t]) = {n}
      BY <1>6, NumberedFew
    <3> QED
      BY <3>1, <3>2
  <2>3. PartOf(t, 2)' = PartOf(t, 2)
    BY <1>1 DEF PartOf, Tree!PartOf
  <2>4. CASE part[t] = 1
    <3>1. Rest(t)' = {<<t, -2, PartOf(t, 2)>>}
      BY <1>1, <1>6, <2>3, <2>4, RestIsThen
    <3>2. Rest(t) = {a, <<t, -2, PartOf(t, 2)>>}
      BY <1>1, <2>4, RestIs DEF mine
    <3>3. a # <<t, -2, PartOf(t, 2)>>
      BY <2>4
    <3>4. a \in TOwn(t) /\ TOwn(t)' = (TOwn(t) \ {a}) \cup {n}
      BY <2>1, <2>2, <3>1, <3>2, <3>3
    <3> QED
      BY <1>0, <1>1, <1>6, <3>4, TOneMoves
  <2>5. CASE part[t] = 2
    <3>1. Rest(t)' = {}
      BY <1>1, <1>6, <2>5, RestIsThen
    <3>2. Rest(t) = {a}
      BY <1>1, <2>5, RestIs DEF mine
    <3>4. a \in TOwn(t) /\ TOwn(t)' = (TOwn(t) \ {a}) \cup {n}
      BY <2>1, <2>2, <3>1, <3>2
    <3> QED
      BY <1>0, <1>1, <1>6, <3>4, TOneMoves
  <2> QED
    BY <1>3, <2>4, <2>5
<1> QED
  BY <1>1, <1>5, <1>7, <1>8, <1>9, <1>10, <1>11, StepKeeps

\* A segment goes from one thread to another.
LEMMA TTwoMove ==
  ASSUME NEW CONSTANT t \in T, NEW CONSTANT c \in T, t # c,
         \A u \in T \ {t, c} : TOwn(u)' = TOwn(u),
         NEW a \in TOwn(t), NEW n, TOwn(t)' = TOwn(t) \ {a}, TOwn(c) = {}, TOwn(c)' = {n}
  PROVE  TUnsorted' = (TUnsorted \ {a}) \cup {n} /\ a \in TUnsorted
<1> DEFINE R == UNION {TOwn(u) : u \in T \ {t, c}}
<1>1. TUnsorted = R \cup TOwn(t)
  BY DEF TUnsorted
<1>2. TUnsorted' = R \cup TOwn(t)' \cup {n}
  <2>1. TUnsorted' = UNION {TOwn(u)' : u \in T}
    BY DEF TUnsorted, T, Tree!TreeThreads
  <2>2. UNION {TOwn(u)' : u \in T} = R \cup TOwn(t)' \cup TOwn(c)'
    OBVIOUS
  <2> QED
    BY <2>1, <2>2
<1>3. a \notin R
  BY OwnIs
<1> HIDE DEF R
<1> QED
  BY <1>1, <1>2, <1>3

\* A part is given to a new thread.
LEMMA SpawnKeeps ==
  ASSUME TInv, NEW CONSTANT t \in T,
         Tree!Spawn(t) \/ (Tree!SpawnAny(t) /\ program # "Recursive"), UNCHANGED program
  PROVE  TInv'
<1> DEFINE to == IF part[t] = 1 THEN "create" ELSE "join"
<1>0. TSorting /\ TTypeOK /\ Progress(t) /\ Shape /\ Joins /\ Counts
  BY TSortingNow
<1>1. PICK k \in {1, 2} : k = part[t]
  BY <1>0 DEF TTypeOK
<1>2. PICK c : c = PartOf(t, k)
  OBVIOUS
<1>3. /\ treePc[t] \in {"create", "spawn"} /\ (treePc[t] = "create" => program # "Recursive")
      /\ treePc' = [treePc EXCEPT ![c] = "enter", ![t] = to]
      /\ part' = [part EXCEPT ![t] = 3 - @] /\ re' = [re EXCEPT ![t] = @ \cup {k}]
      /\ UNCHANGED <<treeArray, treeInput, index, treeJob, treeCur, treeLocal,
                     concurrentThreadNum, totalThreadCreated>>
  BY <1>1, <1>2 DEF Tree!Spawn, Tree!SpawnAny, Tree!At, Tree!countVars, Tree!sortVars, PartOf
<1>4. /\ Parted(t) /\ treeLocal[t] = <<>> /\ k \notin re[t] /\ \A m \in re[t] : m < k
      /\ re[t] \subseteq {1, 2}
  BY <1>0, <1>1, <1>3 DEF Progress, TTypeOK
<1>5. c \in T /\ c # t
  <2>1. PartOf(t, k) \in T /\ Sub(PartOf(t, k), t) /\ ~Sub(t, PartOf(t, k))
    BY <1>0, <1>4, PartsOf
  <2> QED
    BY <1>2, <2>1
<1>6. to \in {"create", "join"} /\ to \in TLabels /\ "enter" \in TLabels
      /\ (k = 1 => to = "create") /\ (k = 2 => to = "join")
  BY <1>1 DEF TLabels
<1>7. 3 - k \in {1, 2} /\ (k = 1 => 3 - k = 2) /\ (k = 2 => 3 - k = 1)
  OBVIOUS
<1> HIDE DEF to
<1>8. TTypeOK'
  <2>1. treePc' \in [T -> TLabels]
    BY <1>0, <1>3, <1>6 DEF TTypeOK
  <2>2. part' \in [T -> {1, 2}] /\ re' \in [T -> SUBSET {1, 2}]
    BY <1>0, <1>1, <1>3, <1>7 DEF TTypeOK
  <2> QED
    BY <1>0, <1>3, <2>1, <2>2 DEF TTypeOK, T, Tree!TreeThreads
<1>9. /\ \A u \in T \ {t, c} : Same(u)
      /\ treePc'[t] = to /\ treePc'[c] = "enter"
      /\ part'[t] = 3 - k /\ part'[c] = part[c]
      /\ re'[t] = re[t] \cup {k} /\ re'[c] = re[c]
      /\ \A u, m : PartOf(u, m)' = PartOf(u, m)
  BY <1>0, <1>1, <1>3, <1>5 DEF TTypeOK, Same, PartOf, Tree!PartOf
<1>10. c \notin Created /\ Created' = Created \cup {c} /\ Shape' /\ Joins'
  <2>1. treePc[t] \notin {"out", "ended"} /\ treePc'[t] \in {"create", "join"}
    BY <1>3, <1>6, <1>9
  <2>2. part'[t] \in {1, 2} /\ (treePc'[t] = "join" => part'[t] = 1)
    BY <1>6, <1>7, <1>9
  <2>3. index' = index /\ \A u \in T : Progress(u)
    BY <1>3, TSortingNow
  <2> QED
    BY <1>0, <1>2, <1>3, <1>4, <1>9, <2>1, <2>2, <2>3, TreeGrows
<1>11. /\ treePc[c] = "out" /\ part[c] = 1 /\ re[c] = {} /\ treeJob[c] = c /\ treeCur[c] = c
       /\ treeLocal[c] = <<>>
  <2>1. treePc[c] = "out"
    BY <1>5, <1>10 DEF Created
  <2>2. Progress(c)
    BY <1>5, TSortingNow
  <2> QED
    BY <2>1, <2>2 DEF Progress
<1>12. \A u \in T : Progress(u)'
  <2>1. Progress(c)'
    BY <1>3, <1>9, <1>11 DEF Progress
  <2>2. Progress(t)'
    <3>1. Parted(t)' /\ treeLocal'[t] = <<>>
      BY <1>3, <1>4 DEF Parted
    <3>2. to = "create" => \A m \in re'[t] : m < part'[t]
      BY <1>4, <1>6, <1>7, <1>9
    <3> QED
      BY <1>6, <1>9, <3>1, <3>2 DEF Progress
  <2>3. \A u \in T \ {t, c} : Progress(u)'
    BY <1>3, <1>9, OthersStay
  <2> QED
    BY <2>1, <2>2, <2>3
<1>13. TSorting'
  <2> DEFINE a == <<t, -k, c>>
             n == <<c, 0, c>>
  <2>1. TOwn(c) = {} /\ TOwn(c)' = {n}
    <3>1. Rest(c) = {} /\ Rest(c)' = {}
      BY <1>9, <1>11, RestIs, RestIsThen
    <3>2. TOwn(c) = Numbered(c, treeLocal[c]) \cup Rest(c)
      BY <1>11, OwnBy
    <3>3. TOwn(c)' = Numbered(c, treeLocal'[c]) \cup {n}
      <4>1. Place(c)' = {n}
        BY <1>9 DEF Place
      <4>2. TOwn(c)' = Numbered(c, treeLocal'[c]) \cup Place(c)' \cup Rest(c)'
        BY DEF TOwn, Numbered
      <4> QED
        BY <3>1, <4>1, <4>2
    <3>4. Numbered(c, treeLocal[c]) = {} /\ treeLocal' = treeLocal
      BY <1>3, <1>11, NumberedFew
    <3> QED
      BY <3>1, <3>2, <3>3, <3>4
  <2>2. a \in TOwn(t) /\ TOwn(t)' = TOwn(t) \ {a}
    <3>1. TOwn(t) = Rest(t)
      BY <1>3, <1>4, OwnBy, NumberedFew
    <3>2. TOwn(t)' = Rest(t)'
      <4>1. TOwn(t)' = Numbered(t, treeLocal'[t]) \cup Rest(t)'
        BY <1>6, <1>9, OwnByThen
      <4>2. Numbered(t, treeLocal'[t]) = {}
        BY <1>3, <1>4, NumberedFew
      <4> QED
        BY <4>1, <4>2
    <3>3. CASE k = 1
      <4>1. Rest(t) = {a, <<t, -2, PartOf(t, 2)>>}
        BY <1>1, <1>2, <1>3, <3>3, RestIs
      <4>2. Rest(t)' = {<<t, -2, PartOf(t, 2)>>}
        <5>1. PartOf(t, 2)' = PartOf(t, 2)
          BY <1>9
        <5> QED
          BY <1>6, <1>7, <1>9, <3>3, <5>1, RestIsThen
      <4>3. a # <<t, -2, PartOf(t, 2)>>
        BY <3>3
      <4> QED
        BY <3>1, <3>2, <4>1, <4>2, <4>3
    <3>4. CASE k = 2
      <4>1. Rest(t) = {a}
        BY <1>1, <1>2, <1>3, <3>4, RestIs
      <4>2. Rest(t)' = {}
        BY <1>6, <1>9, <3>4, RestIsThen
      <4> QED
        BY <3>1, <3>2, <4>1, <4>2
    <3> QED
      BY <3>3, <3>4
  <2>3. a[3] = c /\ n[3] = c
    OBVIOUS
  <2> HIDE DEF a, n
  <2>4. \A u \in T \ {t, c} : TOwn(u)' = TOwn(u)
    BY <1>9, OwnIs
  <2>5. TUnsorted' = (TUnsorted \ {a}) \cup {n} /\ a \in TUnsorted
    BY <1>5, <2>1, <2>2, <2>4, TTwoMove
  <2> QED
    BY <1>0, <1>3, <2>3, <2>5, TGiven
<1>14. Counts'
  <2> SUFFICES ASSUME program = "Recursive"
               PROVE  /\ concurrentThreadNum' = Cardinality(Counted')
                      /\ concurrentThreadNum' <= MaxThreads
                      /\ totalThreadCreated' = Cardinality(Created' \ {Root})
                                               + Cardinality(Spawning')
    BY DEF Counts, Root, Tree!Root
  <2>1. treePc[t] = "spawn"
    BY <1>3
  <2>2. \A u \in T : CountedOf(u)' = CountedOf(u)
    <3>1. CountedOf(c) = {} /\ CountedOf(c)' = {}
      BY <1>9, <1>11 DEF CountedOf
    <3>2. CountedOf(t)' = CountedOf(t)
      <4>1. Discounted(t) = {} /\ Discounted(t)' = {}
        BY <1>6, <1>7, <1>9, <2>1 DEF Discounted
      <4> QED
        BY <1>1, <1>6, <1>9, <2>1, <4>1 DEF CountedOf
    <3> QED
      BY <1>9, <3>1, <3>2, SameCounted
  <2>3. Counted' = Counted
    BY <2>2 DEF Counted, T, Tree!TreeThreads
  <2>4. Cardinality(Spawning') = Cardinality(Spawning) - 1
    <3>1. \A u \in T : u # t => (treePc'[u] = "spawn" <=> treePc[u] = "spawn")
      BY <1>9, <1>11 DEF Same
    <3>2. treePc'[t] # "spawn"
      BY <1>6, <1>9
    <3> QED
      BY <2>1, <3>1, <3>2, SpawningMoves
  <2>5. Cardinality(Created' \ {Root}) = Cardinality(Created \ {Root}) + 1
    <3>1. c # Root /\ c \notin Created \ {Root}
      BY <1>0, <1>10 DEF Shape
    <3>2. Created' \ {Root} = (Created \ {Root}) \cup {c}
      BY <1>10, <3>1
    <3> QED
      BY <3>1, <3>2, CountsAreFinite, FS_AddElement
  <2>6. Cardinality(Spawning) \in Nat /\ Cardinality(Created \ {Root}) \in Nat
    BY CountsAreFinite
  <2>7. /\ concurrentThreadNum = Cardinality(Counted) /\ concurrentThreadNum <= MaxThreads
        /\ totalThreadCreated = Cardinality(Created \ {Root}) + Cardinality(Spawning)
    BY <1>0 DEF Counts
  <2> QED
    BY <1>3, <2>3, <2>4, <2>5, <2>6, <2>7
<1> QED
  BY <1>8, <1>10, <1>12, <1>13, <1>14 DEF TInv, TSorting, T, Tree!TreeThreads

-----------------------------------------------------------------------------
(* Steps of the recursive programs that sort *)

\* The recursive programs' PartSort is the pool's.
LEMMA SamePartSort ==
  /\ \A f, x, y : Tree!swap(f, x, y) = swap(f, x, y)
  /\ \A f, left, right, key, l : Tree!StopsUp(f, left, right, key, l) <=> StopsUp(f, left, right, key, l)
  /\ \A f, l, right, key, r : Tree!StopsDown(f, l, right, key, r) <=> StopsDown(f, l, right, key, r)
  /\ \A seg, place : Tree!Parts(seg, place) = Parts(seg, place)
BY DEF Tree!swap, swap, Tree!StopsUp, StopsUp, Tree!StopsDown, StopsDown, Tree!Parts, Parts

\* A swap in the segment of t keeps what is in the array, and the order between segments.
LEMMA TSwapped ==
  ASSUME TInv, NEW CONSTANT t \in T, treePc[t] \in {"part", "seqPart"},
         NEW x \in Indices, NEW y \in Indices, Inside(x, treeJob[t]), Inside(y, treeJob[t]),
         treeArray' = swap(treeArray, x, y), treeInput' = treeInput
  PROVE  /\ treeArray' \in [Indices -> Int] /\ OrderedBut(treeArray', TUnsorted)
         /\ TSameElements'
<1>1. treeArray \in [Indices -> Int] /\ TSorting
  BY TSortingNow DEF TTypeOK
<1>2. treeArray' \in [Indices -> Int]
  BY <1>1, SwapIs
<1>3. OrderedBut(treeArray', TUnsorted)
  <2>1. /\ <<t, 0, treeJob[t]>> \in TUnsorted /\ <<t, 0, treeJob[t]>>[3] = treeJob[t]
        /\ treeJob[t] \in Segments
    BY TInWork
  <2> QED
    BY <1>1, <2>1, SwapOrdered DEF TSorting
<1>4. TSameElements'
  <2>1. \A v \in Int : Holding(treeArray', v) = Holding(treeArray, v)
    BY <1>1, SwapHolds
  <2>2. \A v \in Int : Holding(treeArray', v) = Holding(treeInput', v)
    BY <1>1, <2>1 DEF TSorting, TSameElements
  <2> QED
    BY <2>2, TSortingIs
<1> QED
  BY <1>2, <1>3, <1>4

\* A round of PartSort.
LEMMA TPartRoundKeeps ==
  ASSUME TInv, NEW CONSTANT t \in T, Tree!PartRound(t), UNCHANGED program
  PROVE  TInv'
<1>0. TSorting /\ TTypeOK /\ Progress(t) /\ Shape /\ Joins /\ Counts
  BY TSortingNow
<1>1. PICK l, r \in (treeCur[t][1])..(treeCur[t][2]) :
        /\ StopsUp(treeArray, treeCur[t][1], treeCur[t][2], treeJob[t][2], l)
        /\ StopsDown(treeArray, l, treeCur[t][2], treeJob[t][2], r)
        /\ treeArray' = swap(treeArray, l, r)
        /\ treeCur' = [treeCur EXCEPT ![t] = <<l, r>>]
  BY SamePartSort DEF Tree!PartRound
<1>2. /\ treePc[t] \in {"part", "seqPart"}
      /\ UNCHANGED <<treeInput, treePc, part, index, re, treeJob, treeLocal,
                     concurrentThreadNum, totalThreadCreated>>
  BY DEF Tree!PartRound, Tree!At, Tree!countVars
<1>3. treeJob[t] \in Segments /\ treeCur[t] \in Segments /\ Done(treeArray, treeJob[t], treeCur[t])
  BY <1>2, TInWork
<1>4. treeArray \in [Indices -> Int]
  BY <1>0 DEF TTypeOK
<1>5. /\ l \in Indices /\ Inside(l, treeJob[t]) /\ r \in Indices /\ Inside(r, treeJob[t])
      /\ <<l, r>> \in Segments
      /\ Done(swap(treeArray, l, r), treeJob[t], <<l, r>>)
  BY <1>1, <1>3, <1>4, RoundIs
<1>6. /\ treeArray' \in [Indices -> Int] /\ OrderedBut(treeArray', TUnsorted)
      /\ TSameElements'
  BY <1>1, <1>2, <1>5, TSwapped
<1>7. TTypeOK'
  <2>1. <<l, r>> \in T
    BY <1>5, ThreadsAre
  <2>2. treeCur' \in [T -> T]
    BY <1>0, <1>1, <2>1 DEF TTypeOK
  <2> QED
    BY <1>0, <1>2, <1>6, <2>2 DEF TTypeOK, T, Tree!TreeThreads
<1>8. (\A u \in T : u # t => Same(u)) /\ treeCur'[t] = <<l, r>>
  BY <1>0, <1>1, <1>2 DEF TTypeOK, Same
<1>9. Steps(t)
  BY <1>2, <1>8 DEF Steps
<1>10. Progress(t)'
  <2>1. Done(treeArray, treeJob[t], treeCur[t])'
    BY <1>1, <1>2, <1>5, <1>8 DEF Done
  <2> QED
    BY <1>0, <1>2, <1>5, <1>8, <2>1 DEF Progress, Parted
<1>11. Joined(t)' = {}
  BY <1>2 DEF Joined
<1>12. Counts'
  <2>1. CountedOf(t)' = CountedOf(t)
    BY <1>2 DEF CountedOf, Discounted
  <2>2. Created' = Created
    BY <1>2 DEF Created, T, Tree!TreeThreads
  <2> QED
    BY <1>0, <1>2, <1>8, <2>1, <2>2, CountsStay
<1>13. TSorting'
  <2>1. TOwn(t)' = TOwn(t)
    BY <1>2 DEF TOwn, Numbered, Place, Rest, PartOf, Tree!PartOf
  <2>2. \A u \in T : TOwn(u)' = TOwn(u)
    BY <1>8, <2>1, OwnIs
  <2>3. TUnsorted' = TUnsorted
    BY <2>2, TNoneMoves
  <2> QED
    BY <1>0, <1>6, <2>3, TSortingIs DEF TSorting
<1> QED
  BY <1>1, <1>2, <1>5, <1>7, <1>9, <1>10, <1>11, <1>12, <1>13, StepKeeps

\* The pivot gets to its place: its thread has the parts to give away.
LEMMA TPartEndKeeps ==
  ASSUME TInv, NEW CONSTANT t \in T, Tree!PartEnd(t), UNCHANGED program
  PROVE  TInv'
<1> DEFINE place == treeCur[t][1]
           a == <<t, 0, t>>
           p1 == <<t[1], place - 1>>
           p2 == <<place + 1, t[2]>>
           N == {<<t, -1, p1>>, <<t, -2, p2>>}
<1>0. TSorting /\ TTypeOK /\ Progress(t) /\ Shape /\ Joins /\ Counts
  BY TSortingNow
<1>1. /\ treeCur[t][1] >= treeCur[t][2] /\ treePc[t] = "part"
      /\ treePc' = [treePc EXCEPT ![t] = "create"]
      /\ treeArray' = swap(treeArray, place, treeJob[t][2])
      /\ index' = [index EXCEPT ![t] = place]
      /\ UNCHANGED <<treeInput, part, re, treeJob, treeCur, treeLocal,
                     concurrentThreadNum, totalThreadCreated>>
  BY SamePartSort DEF Tree!PartEnd, Tree!Move, Tree!At, Tree!countVars, Tree!sortVars
<1>2. part[t] = 1 /\ re[t] = {} /\ treeJob[t] = t /\ treeLocal[t] = <<>>
  BY <1>0, <1>1 DEF Progress
<1>3. /\ t \in Segments /\ treeCur[t] \in Segments /\ Done(treeArray, t, treeCur[t])
      /\ a \in TUnsorted /\ a[3] = t
  BY <1>1, <1>2, TInWork
<1>4. treeArray \in [Indices -> Int]
  BY <1>0 DEF TTypeOK
<1>5. /\ place \in Indices /\ Inside(place, t) /\ t[2] \in Indices /\ Inside(t[2], t)
      /\ \A i, k \in Indices : i <= place /\ place <= k /\ Inside(i, t) /\ Inside(k, t)
           => swap(treeArray, place, t[2])[i] <= swap(treeArray, place, t[2])[k]
  BY <1>1, <1>3, <1>4, EndIs
<1>6. /\ treeArray' \in [Indices -> Int] /\ OrderedBut(treeArray', TUnsorted)
      /\ TSameElements'
  BY <1>1, <1>2, <1>5, TSwapped
<1>7. /\ place \in Int /\ t[1] \in Int /\ t[2] \in Int /\ t[1] <= place /\ place <= t[2]
      /\ \A i \in Indices : i \in Int
  BY <1>5, ThreadsAre, IndicesAre DEF Inside
<1> HIDE DEF place
<1>8. TTypeOK'
  <2>1. index' \in [T -> Int] /\ treePc' \in [T -> TLabels]
    BY <1>0, <1>1, <1>7 DEF TTypeOK, TLabels
  <2> QED
    BY <1>0, <1>1, <1>6, <2>1 DEF TTypeOK, T, Tree!TreeThreads
<1>9. /\ \A u \in T : u # t => Same(u)
      /\ treePc'[t] = "create" /\ index'[t] = place
  BY <1>0, <1>1 DEF TTypeOK, Same
<1>10. Steps(t)
  BY <1>1, <1>2, <1>9 DEF Steps
<1>11. Progress(t)'
  <2>1. Parted(t)'
    BY <1>7, <1>9 DEF Parted
  <2> QED
    BY <1>1, <1>2, <1>9, <2>1 DEF Progress
<1>12. Joined(t)' = {}
  BY <1>9 DEF Joined
<1>13. Counts'
  <2>1. CountedOf(t)' = CountedOf(t)
    BY <1>1, <1>2, <1>9 DEF CountedOf
  <2>2. Created' = Created
    BY <1>0, <1>10, <1>12, TreeStays, TSortingNow
  <2> QED
    BY <1>0, <1>1, <1>9, <2>1, <2>2, CountsStay
<1>14. TOwn(t) = {a} /\ TOwn(t)' = N
  <2>1. TOwn(t) = Numbered(t, treeLocal[t]) \cup {<<t, 0, treeJob[t]>>} \cup Rest(t)
    BY <1>1, OwnBy
  <2>2. Rest(t) = {}
    BY <1>1, RestIs
  <2>3. TOwn(t)' = Numbered(t, treeLocal'[t]) \cup Rest(t)'
    BY <1>9, OwnByThen
  <2>4. Rest(t)' = {<<t, -1, PartOf(t, 1)'>>, <<t, -2, PartOf(t, 2)'>>}
    BY <1>1, <1>2, <1>9, RestIsThen
  <2>5. PartOf(t, 1)' = p1 /\ PartOf(t, 2)' = p2
    BY <1>9, PartOfIs
  <2>6. Numbered(t, treeLocal[t]) = {} /\ treeLocal' = treeLocal
    BY <1>1, <1>2, NumberedFew
  <2> QED
    BY <1>2, <2>1, <2>2, <2>3, <2>4, <2>5, <2>6
<1>15. /\ Within(p1, t) /\ Within(p2, t) /\ Apart(p1, p2) /\ Apart(p2, p1)
       /\ \A i, k \in Indices : i < k /\ Inside(i, t) /\ Inside(k, t) =>
            \/ i <= place /\ place <= k
            \/ Inside(i, p1) /\ Inside(k, p1)
            \/ Inside(i, p2) /\ Inside(k, p2)
  <2>1. p1[1] = t[1] /\ p1[2] = place - 1 /\ p2[1] = place + 1 /\ p2[2] = t[2]
    OBVIOUS
  <2> HIDE DEF p1, p2
  <2>2. \A i \in Int : /\ Inside(i, p1) <=> t[1] <= i /\ i <= place - 1
                       /\ Inside(i, p2) <=> place + 1 <= i /\ i <= t[2]
                       /\ Inside(i, t) <=> t[1] <= i /\ i <= t[2]
    BY <1>7, <2>1 DEF Inside
  <2> QED
    BY <1>7, <2>2 DEF Within, Apart
<1> HIDE DEF p1, p2
<1>16. /\ \A n \in N : Within(n[3], a[3])
       /\ AllApart(N)
       /\ \A i, k \in Indices : i < k /\ Inside(i, t) /\ Inside(k, t) =>
            \/ i <= place /\ place <= k
            \/ \E n \in N : Inside(i, n[3]) /\ Inside(k, n[3])
  <2>1. <<t, -1, p1>>[3] = p1 /\ <<t, -2, p2>>[3] = p2
    OBVIOUS
  <2> QED
    BY <1>15, <2>1 DEF AllApart
<1> HIDE DEF N, a
<1>17. TSorting'
  <2>1. TUnsorted' = (TUnsorted \ {a}) \cup N
    <3>1. \A u \in T : u # t => TOwn(u)' = TOwn(u)
      BY <1>9, OwnIs
    <3>2. {a} \subseteq TOwn(t) /\ TOwn(t)' = (TOwn(t) \ {a}) \cup N
      BY <1>14
    <3> QED
      BY <3>1, <3>2, TThreadMoves
  <2>2. \A i, k \in Indices : i < k /\ Inside(i, a[3]) /\ Inside(k, a[3]) =>
          treeArray'[i] <= treeArray'[k] \/ \E n \in N : Inside(i, n[3]) /\ Inside(k, n[3])
    BY <1>1, <1>2, <1>3, <1>5, <1>16
  <2> QED
    BY <1>0, <1>3, <1>6, <1>16, <2>1, <2>2, TReplaced DEF TSorting
<1>18. \E x, y \in Indices : /\ Inside(x, treeJob[t]) /\ Inside(y, treeJob[t])
                             /\ treeArray' = swap(treeArray, x, y)
  BY <1>1, <1>2, <1>5
<1> QED
  BY <1>1, <1>2, <1>8, <1>10, <1>11, <1>13, <1>17, <1>18, StepKeeps

\* The parts in the order of the calls.
LEMMA ReversedParts ==
  ASSUME NEW seg \in Segments, NEW place \in Int, Inside(place, seg), NEW p, NEW rev,
         p = Parts(seg, place), rev = Tree!Reverse(p)
  PROVE  /\ rev \in Seq(Segments)
         /\ \A k \in 1..Len(rev) : Within(rev[k], seg)
         /\ \A k, m \in 1..Len(rev) : k # m => Apart(rev[k], rev[m])
         /\ \A i, m \in Int : i < m /\ Inside(i, seg) /\ Inside(m, seg) =>
              \/ i <= place /\ place <= m
              \/ \E k \in 1..Len(rev) : Inside(i, rev[k]) /\ Inside(m, rev[k])
<1>1. /\ p \in Seq(Segments)
      /\ \A k \in 1..Len(p) : Within(p[k], seg)
      /\ \A k, m \in 1..Len(p) : k # m => Apart(p[k], p[m])
      /\ \A i, m \in Int : i < m /\ Inside(i, seg) /\ Inside(m, seg) =>
           \/ i <= place /\ place <= m
           \/ \E k \in 1..Len(p) : Inside(i, p[k]) /\ Inside(m, p[k])
  BY PartsAre
<1>2. rev = [k \in 1..Len(p) |-> p[(Len(p) - k) + 1]]
  BY DEF Tree!Reverse
<1>3. Len(p) \in Nat
  BY <1>1
<1>4. \A k \in 1..Len(p) : (Len(p) - k) + 1 \in 1..Len(p)
                           /\ Len(p) - ((Len(p) - k) + 1) + 1 = k
  BY <1>3
<1>5. \A k \in 1..Len(p) : p[k] \in Segments
  BY <1>1
<1>6. rev \in Seq(Segments) /\ Len(rev) = Len(p)
  BY <1>2, <1>3, <1>4, <1>5
<1>7. \A k \in 1..Len(p) : rev[k] = p[(Len(p) - k) + 1]
  BY <1>2
<1>8. \A k, m \in 1..Len(p) : k # m => (Len(p) - k) + 1 # (Len(p) - m) + 1
  BY <1>3
<1>9. \A k \in 1..Len(p) : \E m \in 1..Len(p) : rev[m] = p[k]
  <2> SUFFICES ASSUME NEW k \in 1..Len(p)
               PROVE  \E m \in 1..Len(p) : rev[m] = p[k]
    OBVIOUS
  <2>1. (Len(p) - k) + 1 \in 1..Len(p) /\ (Len(p) - ((Len(p) - k) + 1)) + 1 = k
    BY <1>4
  <2>2. rev[(Len(p) - k) + 1] = p[k]
    BY <1>7, <2>1
  <2> QED
    BY <2>1, <2>2
<1>10. \A k \in 1..Len(rev) : Within(rev[k], seg)
  BY <1>1, <1>4, <1>6, <1>7
<1>11. ASSUME NEW k \in 1..Len(rev), NEW m \in 1..Len(rev), k # m
       PROVE  Apart(rev[k], rev[m])
  <2> DEFINE i == (Len(p) - k) + 1
             j == (Len(p) - m) + 1
  <2>1. k \in 1..Len(p) /\ m \in 1..Len(p)
    BY <1>6
  <2>2. i \in 1..Len(p) /\ j \in 1..Len(p) /\ i # j
    BY <1>4, <1>8, <1>11, <2>1
  <2>3. rev[k] = p[i] /\ rev[m] = p[j]
    BY <1>7, <2>1
  <2> HIDE DEF i, j
  <2> QED
    BY <1>1, <2>2, <2>3
<1>12. ASSUME NEW i \in Int, NEW m \in Int, i < m, Inside(i, seg), Inside(m, seg)
       PROVE  \/ i <= place /\ place <= m
              \/ \E k \in 1..Len(rev) : Inside(i, rev[k]) /\ Inside(m, rev[k])
  BY <1>1, <1>6, <1>9, <1>12
<1> QED
  BY <1>6, <1>10, <1>11, <1>12

\* QuickSortSequential puts the parts on the thread's own stack.
LEMMA SeqPartEndKeeps ==
  ASSUME TInv, NEW CONSTANT t \in T, Tree!SeqPartEnd(t), UNCHANGED program
  PROVE  TInv'
<1> DEFINE seg == treeJob[t]
           place == treeCur[t][1]
           mine == treeLocal[t]
           rev == Tree!Reverse(Parts(seg, place))
           a == <<t, 0, seg>>
           N == {<<t, Len(mine) + k, rev[k]>> : k \in 1..Len(rev)}
<1>0. TSorting /\ TTypeOK /\ Progress(t) /\ Shape /\ Joins /\ Counts
  BY TSortingNow
<1>1. /\ treeCur[t][1] >= treeCur[t][2] /\ treePc[t] = "seqPart"
      /\ treePc' = [treePc EXCEPT ![t] = "seq"]
      /\ treeArray' = swap(treeArray, place, seg[2])
      /\ treeLocal' = [treeLocal EXCEPT ![t] = mine \o rev]
      /\ UNCHANGED <<treeInput, part, index, re, treeJob, treeCur,
                     concurrentThreadNum, totalThreadCreated>>
  BY <1>0, SamePartSort DEF Tree!SeqPartEnd, Tree!Move, Tree!At, Tree!countVars, TTypeOK
<1>3. /\ seg \in Segments /\ treeCur[t] \in Segments /\ Done(treeArray, seg, treeCur[t])
      /\ a \in TUnsorted /\ a[3] = seg
  BY <1>1, TInWork
<1>4. treeArray \in [Indices -> Int]
  BY <1>0 DEF TTypeOK
<1>5. /\ place \in Indices /\ Inside(place, seg) /\ seg[2] \in Indices /\ Inside(seg[2], seg)
      /\ \A i, k \in Indices : i <= place /\ place <= k /\ Inside(i, seg) /\ Inside(k, seg)
           => swap(treeArray, place, seg[2])[i] <= swap(treeArray, place, seg[2])[k]
  BY <1>1, <1>3, <1>4, EndIs
<1>6. /\ treeArray' \in [Indices -> Int] /\ OrderedBut(treeArray', TUnsorted)
      /\ TSameElements'
  BY <1>1, <1>5, TSwapped
<1>7. place \in Int /\ \A i \in Indices : i \in Int
  <2>1. \A i \in Indices : i \in Int
    BY IndicesAre
  <2> HIDE DEF place
  <2> QED
    BY <1>5, <2>1
<1>8. /\ rev \in Seq(Segments)
      /\ \A k \in 1..Len(rev) : Within(rev[k], seg)
      /\ \A k, m \in 1..Len(rev) : k # m => Apart(rev[k], rev[m])
      /\ \A i, m \in Int : i < m /\ Inside(i, seg) /\ Inside(m, seg) =>
           \/ i <= place /\ place <= m
           \/ \E k \in 1..Len(rev) : Inside(i, rev[k]) /\ Inside(m, rev[k])
  BY <1>3, <1>5, <1>7, ReversedParts
<1> HIDE DEF rev, place, mine
<1>9. mine \in Seq(T) /\ Len(mine) \in Nat /\ rev \in Seq(T) /\ Len(rev) \in Nat
  <2>1. mine \in Seq(T)
    BY <1>0 DEF TTypeOK, mine
  <2>2. \A k \in 1..Len(rev) : rev[k] \in T
    BY <1>8, ThreadsAre
  <2> QED
    BY <1>8, <2>1, <2>2
<1>10. mine \o rev \in Seq(T)
  BY <1>9
<1>11. TTypeOK'
  <2>1. treePc' \in [T -> TLabels] /\ treeLocal' \in [T -> Seq(T)]
    BY <1>0, <1>1, <1>10 DEF TTypeOK, TLabels
  <2> QED
    BY <1>0, <1>1, <1>6, <2>1 DEF TTypeOK, T, Tree!TreeThreads
<1>12. /\ \A u \in T : u # t => Same(u)
       /\ treePc'[t] = "seq" /\ treeLocal'[t] = mine \o rev
  BY <1>0, <1>1 DEF TTypeOK, Same
<1>13. Steps(t)
  BY <1>1, <1>12 DEF Steps
<1>14. Progress(t)'
  <2>1. Parted(t) /\ \A k \in re[t] : k < part[t]
    BY <1>0, <1>1 DEF Progress
  <2> QED
    BY <1>1, <1>12, <2>1 DEF Progress, Parted
<1>15. Joined(t)' = {}
  BY <1>12 DEF Joined
<1>16. Counts'
  <2>1. CountedOf(t)' = CountedOf(t)
    BY <1>1, <1>12 DEF CountedOf, Discounted
  <2>2. Created' = Created
    BY <1>0, <1>13, <1>15, TreeStays, TSortingNow
  <2> QED
    BY <1>0, <1>1, <1>12, <2>1, <2>2, CountsStay
<1>17. /\ TOwn(t) = Numbered(t, mine) \cup {a} \cup Rest(t)
       /\ TOwn(t)' = Numbered(t, mine) \cup N \cup Rest(t)
       /\ a \notin Numbered(t, mine) /\ a \notin Rest(t)
  <2>1. TOwn(t) = Numbered(t, mine) \cup {a} \cup Rest(t)
    BY <1>1, OwnBy DEF mine
  <2>2. TOwn(t)' = Numbered(t, mine \o rev) \cup Rest(t)'
    BY <1>12, OwnByThen
  <2>3. Rest(t)' = Rest(t)
    BY <1>1, <1>12 DEF Rest, PartOf, Tree!PartOf
  <2>4. Numbered(t, mine \o rev) = Numbered(t, mine) \cup N
    <3>1. N = Pushed(t, Len(mine), rev)
      BY DEF Pushed
    <3> HIDE DEF N
    <3>2. Numbered(t, mine \o rev) = Numbered(t, mine) \cup Pushed(t, Len(mine), rev)
      <4>1. mine \in Seq(T) /\ rev \in Seq(T)
        BY <1>9
      <4> QED
        BY <4>1, NumberedPush
    <3> QED
      BY <3>1, <3>2
  <2>5. a \notin Numbered(t, mine)
    BY <1>9 DEF Numbered
  <2>6. \A b \in Rest(t) : b[2] = -2
    BY <1>1, RestIs
  <2>7. a \notin Rest(t)
    BY <2>6
  <2> QED
    BY <2>1, <2>2, <2>3, <2>4, <2>5, <2>7
<1>18. /\ \A n \in N : Within(n[3], seg)
       /\ AllApart(N)
       /\ \A k \in 1..Len(rev) : \E n \in N : n[3] = rev[k]
  <2> HIDE DEF seg, a
  <2>1. \A n \in N : \E k \in 1..Len(rev) : n = <<t, Len(mine) + k, rev[k]>>
    OBVIOUS
  <2>2. \A k \in 1..Len(rev) : <<t, Len(mine) + k, rev[k]>> \in N
                               /\ <<t, Len(mine) + k, rev[k]>>[3] = rev[k]
    OBVIOUS
  <2>3. \A n, m \in N : n # m => Apart(n[3], m[3])
    <3> SUFFICES ASSUME NEW n \in N, NEW m \in N, n # m
                 PROVE  Apart(n[3], m[3])
      OBVIOUS
    <3>1. PICK k \in 1..Len(rev) : n = <<t, Len(mine) + k, rev[k]>>
      BY <2>1
    <3>2. PICK j \in 1..Len(rev) : m = <<t, Len(mine) + j, rev[j]>>
      BY <2>1
    <3>3. k # j
      BY <3>1, <3>2
    <3> QED
      BY <1>8, <3>1, <3>2, <3>3
  <2> HIDE DEF N
  <2> QED
    BY <1>8, <2>1, <2>2, <2>3 DEF AllApart
<1> HIDE DEF N, a, seg
<1>19. TSorting'
  <2>1. TUnsorted' = (TUnsorted \ {a}) \cup N
    <3>1. \A u \in T : u # t => TOwn(u)' = TOwn(u)
      BY <1>12, OwnIs
    <3>2. {a} \subseteq TOwn(t) /\ TOwn(t)' = (TOwn(t) \ {a}) \cup N
      BY <1>17
    <3> QED
      BY <3>1, <3>2, TThreadMoves
  <2>2. ASSUME NEW i \in Indices, NEW k \in Indices, i < k, Inside(i, seg), Inside(k, seg)
        PROVE  treeArray'[i] <= treeArray'[k] \/ \E n \in N : Inside(i, n[3]) /\ Inside(k, n[3])
    <3>1. i \in Int /\ k \in Int
      BY <1>7
    <3>2. CASE i <= place /\ place <= k
      BY <1>1, <1>5, <2>2, <3>2
    <3>3. CASE ~(i <= place /\ place <= k)
      <4>1. PICK m \in 1..Len(rev) : Inside(i, rev[m]) /\ Inside(k, rev[m])
        BY <1>8, <2>2, <3>1, <3>3
      <4> QED
        BY <1>18, <4>1
    <3> QED
      BY <3>2, <3>3
  <2>3. \A n \in N : Within(n[3], a[3])
    BY <1>3, <1>18
  <2> QED
    <3>1. \A i, k \in Indices : i < k /\ Inside(i, a[3]) /\ Inside(k, a[3]) =>
            treeArray'[i] <= treeArray'[k] \/ \E n \in N : Inside(i, n[3]) /\ Inside(k, n[3])
      BY <1>3, <2>2
    <3>2. AllApart(TUnsorted) /\ a \in TUnsorted
      BY <1>0, <1>3 DEF TSorting
    <3> QED
      BY <1>6, <1>18, <2>1, <2>3, <3>1, <3>2, TReplaced
<1>20. \E x, y \in Indices : /\ Inside(x, treeJob[t]) /\ Inside(y, treeJob[t])
                             /\ treeArray' = swap(treeArray, x, y)
  BY <1>1, <1>5 DEF seg
<1> QED
  BY <1>1, <1>11, <1>13, <1>14, <1>15, <1>16, <1>19, <1>20, StepKeeps

-----------------------------------------------------------------------------
(* The invariant of the recursive programs is kept *)

\* The invariant holds at the start: only Root exists, and has the whole array.
LEMMA TInitially == EitherInit => TInv
<1> SUFFICES ASSUME EitherInit
             PROVE  TInv
  OBVIOUS
<1>1. /\ treeInput \in [Indices -> TreeValues] /\ treeArray = treeInput
      /\ concurrentThreadNum = 0 /\ totalThreadCreated = 0
      /\ treePc = [t \in T |-> IF t = Root THEN "enter" ELSE "out"]
      /\ part = [t \in T |-> 1] /\ index = [t \in T |-> 0] /\ re = [t \in T |-> {}]
      /\ treeJob = [t \in T |-> t] /\ treeCur = [t \in T |-> t]
      /\ treeLocal = [t \in T |-> <<>>]
  BY DEF EitherInit, Tree!Init, T, Root, Tree!Indices, Indices
<1>2. Root \in T
  BY ThreadsAre
<1>3. treeArray \in [Indices -> Int] /\ treeInput \in [Indices -> Int]
  <2>1. TreeValues \subseteq Int
    BY TreeAssumption, SortAssumption
  <2> QED
    BY <1>1, <2>1
<1>4. \A t \in T : /\ treePc[t] = (IF t = Root THEN "enter" ELSE "out")
                   /\ part[t] = 1 /\ re[t] = {} /\ treeJob[t] = t /\ treeCur[t] = t
                   /\ treeLocal[t] = <<>>
  BY <1>1
<1>5. TTypeOK
  <2>1. treePc \in [T -> TLabels] /\ treeLocal \in [T -> Seq(T)]
    BY <1>1 DEF TLabels
  <2> QED
    BY <1>1, <1>3, <2>1 DEF TTypeOK
<1>6. \A t \in T : Progress(t)
  BY <1>4 DEF Progress
<1>7. Created = {Root}
  BY <1>2, <1>4 DEF Created
<1>8. Shape
  BY <1>4, <1>7 DEF Shape
<1>9. Joins
  BY <1>4, <1>7 DEF Joins
<1>10. TUnsorted = {<<Root, 0, Root>>}
  <2>1. ASSUME NEW t \in T
        PROVE  TOwn(t) = IF t = Root THEN {<<t, 0, t>>} ELSE {}
    <3>1. Numbered(t, treeLocal[t]) = {} /\ Rest(t) = {}
      BY <1>4, RestIs, NumberedFew
    <3>2. Place(t) = IF t = Root THEN {<<t, 0, t>>} ELSE {}
      BY <1>4 DEF Place
    <3> QED
      BY <3>1, <3>2 DEF TOwn
  <2> QED
    BY <1>2, <2>1 DEF TUnsorted
<1>11. AllApart(TUnsorted)
  BY <1>10 DEF AllApart
<1>12. OrderedBut(treeArray, TUnsorted)
  <2>1. Root[1] = 0 /\ Root[2] = ArrayLen - 1
    BY ThreadsAre
  <2>2. \A i \in Indices : Inside(i, Root)
    BY <2>1 DEF Inside, Indices
  <2>3. <<Root, 0, Root>>[3] = Root
    OBVIOUS
  <2> QED
    BY <1>10, <2>2, <2>3 DEF OrderedBut
<1>13. TSameElements
  BY <1>1 DEF TSameElements
<1>14. Counts
  <2>1. Counted = {}
    BY <1>4 DEF Counted, CountedOf
  <2>2. Spawning = {} /\ Created \ {Root} = {}
    BY <1>4, <1>7 DEF Spawning
  <2>3. Cardinality({}) = 0
    BY FS_EmptySet
  <2> QED
    BY <1>1, <2>1, <2>2, <2>3, TreeAssumption DEF Counts
<1> QED
  BY <1>5, <1>6, <1>8, <1>9, <1>11, <1>12, <1>13, <1>14 DEF TInv

\* Every step of the two programs, those of the pool included.
LEMMA TNextKeeps == TInv /\ [EitherNext]_allVars => TInv'
<1> SUFFICES ASSUME TInv, [EitherNext]_allVars
             PROVE  TInv'
  OBVIOUS
<1>1. CASE UNCHANGED <<treeVars, program>>
  <2>1. UNCHANGED <<treeArray, treeInput, concurrentThreadNum, totalThreadCreated, program,
                    treePc, part, index, re, treeJob, treeCur, treeLocal>>
    BY <1>1 DEF treeVars
  <2> QED
    BY <2>1, TStutter
<1>2. CASE TreeStep(TreeNext)
  <2>0. program' = program /\ program # "Iteration"
    BY <1>2 DEF TreeStep
  <2>1. ASSUME NEW CONSTANT t \in T,
               \/ Tree!Enter(t) \/ Tree!PartRound(t) \/ Tree!PartEnd(t) \/ Tree!Sequential(t)
               \/ Tree!Join(t) \/ Tree!NoJoin(t) \/ Tree!Discount(t) \/ Tree!Lock(t)
        PROVE  TInv'
    BY <2>0, <2>1, EnterKeeps, TPartRoundKeeps, TPartEndKeeps, SeqPartEndKeeps, SeqNextKeeps,
       SeqEndKeeps, JoinKeeps, NoJoinKeeps, DiscountKeeps, LockKeeps DEF Tree!Sequential
  <2>2. ASSUME NEW CONSTANT t \in T, Tree!createAThreadToQuickSort(t)
        PROVE  TInv'
    <3>1. CASE Tree!SpawnFails(t)
      BY <2>0, <3>1, TStutter DEF Tree!SpawnFails, Tree!countVars, Tree!sortVars
    <3> QED
      BY <2>0, <2>2, <3>1, CountThreadKeeps, SortMyselfKeeps, SpawnKeeps
         DEF Tree!createAThreadToQuickSort
  <2>3. ASSUME NEW CONSTANT t \in T, Tree!SpawnAny(t) \/ Tree!SpawnRefused(t),
               program # "Recursive"
        PROVE  TInv'
    BY <2>0, <2>3, SpawnKeeps, SortMyselfKeeps
  <2>4. CASE UNCHANGED Tree!vars
    BY <2>0, <2>4, TStutter DEF Tree!vars, Tree!countVars, Tree!sortVars
  <2>5. Tree!Live \subseteq T
    BY DEF Tree!Live, T
  <2>6. CASE program = "Recursive"
    <3>1. Tree!Next
      BY <1>2, <2>6 DEF TreeStep, TreeNext
    <3> QED
      BY <2>1, <2>2, <2>4, <2>5, <3>1 DEF Tree!Next, Tree!QuickSortParallel
  <2>7. CASE program # "Recursive"
    <3>1. Tree!BrokenNext
      BY <1>2, <2>7 DEF TreeStep, TreeNext
    <3> QED
      BY <2>1, <2>3, <2>4, <2>5, <2>7, <3>1 DEF Tree!BrokenNext, Tree!BrokenStep, Tree!LockJoined
  <2> QED
    BY <2>6, <2>7
<1> QED
  BY <1>1, <1>2 DEF EitherNext, PoolStep, allVars

\* The invariant of the recursive programs, with the limit and without it.
THEOREM TreeInvariant == EitherSpec => []TInv
<1> QED
  BY TInitially, TNextKeeps, PTL DEF EitherSpec

\* Cardinality as the module of the recursive programs has it.
LEMMA SameCardinality == \A S : Tree!Cardinality(S) = Cardinality(S)
BY DEF Tree!Cardinality, Cardinality, Tree!IsFiniteSet, IsFiniteSet

\* What is not sorted in the recursive programs, with the thread that has it.
LEMMA TUnsortedIs ==
  ASSUME NEW s \in Tree!Unsorted
  PROVE  \E a \in TUnsorted : a[3] = s
<1>1. PICK t \in T : \/ treePc[t] = "enter" /\ s = t
                     \/ treePc[t] \in {"part", "seqPart"} /\ s = treeJob[t]
                     \/ s \in Tree!ToSet(treeLocal[t])
                     \/ s \in Tree!NotHandedOut(t)
  BY DEF Tree!Unsorted, Tree!In, Tree!Live, T
<1>2. TOwn(t) \subseteq TUnsorted
  BY DEF TUnsorted
<1>3. CASE treePc[t] = "enter" /\ s = t
  <2>1. <<t, 0, t>> \in TOwn(t) /\ <<t, 0, t>>[3] = s
    BY <1>3 DEF TOwn, Place
  <2> QED
    BY <1>2, <2>1
<1>4. CASE treePc[t] \in {"part", "seqPart"} /\ s = treeJob[t]
  <2>1. <<t, 0, treeJob[t]>> \in TOwn(t) /\ <<t, 0, treeJob[t]>>[3] = s
    BY <1>4 DEF TOwn, Place
  <2> QED
    BY <1>2, <2>1
<1>5. CASE s \in Tree!ToSet(treeLocal[t])
  <2>1. PICK k \in DOMAIN treeLocal[t] : s = treeLocal[t][k]
    BY <1>5 DEF Tree!ToSet
  <2>2. <<t, k, treeLocal[t][k]>> \in TOwn(t) /\ <<t, k, treeLocal[t][k]>>[3] = s
    BY <2>1 DEF TOwn, Numbered
  <2> QED
    BY <1>2, <2>2
<1>6. CASE s \in Tree!NotHandedOut(t)
  <2>1. CASE treePc[t] \in {"create", "count", "spawn"}
    <3>1. PICK k \in part[t]..2 : s = PartOf(t, k)
      BY <1>6, <2>1 DEF Tree!NotHandedOut, PartOf
    <3>2. <<t, -k, PartOf(t, k)>> \in Rest(t) /\ <<t, -k, PartOf(t, k)>>[3] = s
      BY <2>1, <3>1 DEF Rest
    <3> QED
      BY <1>2, <3>2 DEF TOwn
  <2>2. CASE treePc[t] \in {"seq", "seqPart"} /\ part[t] = 1
    <3>1. s = PartOf(t, 2)
      BY <1>6, <2>2 DEF Tree!NotHandedOut, PartOf
    <3>2. <<t, -2, PartOf(t, 2)>> \in Rest(t) /\ <<t, -2, PartOf(t, 2)>>[3] = s
      BY <2>2, <3>1 DEF Rest
    <3> QED
      BY <1>2, <3>2 DEF TOwn
  <2> QED
    BY <1>6, <2>1, <2>2 DEF Tree!NotHandedOut
<1> QED
  BY <1>1, <1>3, <1>4, <1>5, <1>6

\* In all three programs the array needs no lock: two segments that are not sorted, with
\* the same thread or with two, on a stack or in work, have no element in common.
THEOREM NoLockNeeded == EitherSpec => []NoElementShared
<1>1. TInv => Tree!SegmentsDisjoint
  <2> SUFFICES ASSUME TInv
               PROVE  Tree!SegmentsDisjoint
    OBVIOUS
  <2>1. ASSUME NEW a \in Tree!Unsorted, NEW b \in Tree!Unsorted, a # b, NEW i \in Indices
        PROVE  ~(Inside(i, a) /\ Inside(i, b))
    <3>1. PICK x \in TUnsorted : x[3] = a
      BY TUnsortedIs
    <3>2. PICK y \in TUnsorted : y[3] = b
      BY TUnsortedIs
    <3>3. Apart(x[3], y[3])
      BY <2>1, <3>1, <3>2 DEF TInv, AllApart
    <3> QED
      BY <3>1, <3>2, <3>3 DEF Apart
  <2>2. ASSUME NEW t \in T, NEW u \in T, t # u, treePc[t] \in {"part", "seqPart"},
               treePc[u] \in {"part", "seqPart"}
        PROVE  treeJob[t] # treeJob[u]
    <3>1. Apart(treeJob[u], treeJob[t]) /\ treeJob[t] \in Segments
      BY <2>2, TInWork
    <3>2. treeJob[t][1] \in Indices /\ Inside(treeJob[t][1], treeJob[t])
      BY <3>1, SegmentsAre DEF Inside
    <3> QED
      BY <3>1, <3>2 DEF Apart
  <2> QED
    BY <2>1, <2>2 DEF Tree!SegmentsDisjoint, Tree!In, Tree!Live, T, Tree!Indices, Indices,
       Tree!Inside, Inside
<1>2. IInv => SegmentsDisjoint
  BY DEF IInv
<1>3. IInv /\ TInv => NoElementShared
  BY <1>1, <1>2 DEF NoElementShared
<1> QED
  BY <1>3, Invariant, TreeInvariant, PTL

\* When the first thread has ended all have.
LEMMA AllEnd ==
  ASSUME TInv, treePc[Root] = "ended", NEW t \in T
  PROVE  treePc[t] \in {"out", "ended"} /\ TOwn(t) = {} /\ CountedOf(t) = {}
<1>1. treePc[t] \in {"out", "ended"}
  <2>1. Sub(t, Root)
    BY ThreadsAre DEF Sub
  <2>2. Root \in Created
    BY DEF TInv, Shape
  <2> QED
    BY <2>1, <2>2 DEF TInv, Joins, Created
<1>2. treeLocal[t] = <<>> /\ (treePc[t] = "out" => re[t] = {}) /\ re[t] \subseteq {1, 2}
  BY <1>1 DEF TInv, Progress, TTypeOK
<1>3. TOwn(t) = {}
  <2>1. Numbered(t, treeLocal[t]) = {} /\ Rest(t) = {}
    BY <1>1, <1>2, NumberedFew, RestIs
  <2> QED
    BY <1>1, <2>1 DEF TOwn, Place
<1>4. CountedOf(t) = {}
  BY <1>1, <1>2 DEF CountedOf, Discounted
<1> QED
  BY <1>1, <1>3, <1>4

\* The program with the limit keeps it: every thread that exists but the first is in the
\* count, from before its creation until after its join, and the count is never above
\* MAX_CONCURRENT_THREAD_NUM; when main's call returns it is 0 again.
THEOREM LimitIsStrict == EitherSpec => []StrictLimit
<1>1. TInv => StrictLimit
  <2> SUFFICES ASSUME TInv, program = "Recursive"
               PROVE  Tree!CountCoversThreads
    BY DEF StrictLimit
  <2> DEFINE L == Tree!Live \ {Root}
  <2>1. /\ concurrentThreadNum = Cardinality(Counted) /\ concurrentThreadNum <= MaxThreads
        /\ totalThreadCreated = Cardinality(Created \ {Root}) + Cardinality(Spawning)
    BY DEF TInv, Counts
  <2>2. ASSUME NEW u \in L
        PROVE  \E c \in Counted : u = PartOf(c[1], c[2])
    <3>1. u \in Created \ {Root} /\ treePc[u] # "ended"
      BY DEF Tree!Live, Created, T
    <3>2. PICK t \in Created : \E k \in re[t] : u = PartOf(t, k)
      BY <3>1 DEF TInv, Shape
    <3>3. PICK k \in re[t] : u = PartOf(t, k)
      BY <3>2
    <3>4. t \in T /\ k \in {1, 2}
      BY <3>3 DEF Created, TInv, TTypeOK
    <3>5. k \notin Joined(t)
      BY <3>1, <3>3, <3>4 DEF TInv, Joins
    <3>6. k \in CountedOf(t)
      <4>1. k \notin Discounted(t)
        <5>1. part[t] \in {1, 2}
          BY <3>4 DEF TInv, TTypeOK
        <5> QED
          BY <3>4, <3>5, <5>1 DEF Joined, Discounted
      <4> QED
        BY <3>3, <3>4, <4>1 DEF CountedOf
    <3>7. <<t, k>> \in Counted /\ <<t, k>>[1] = t /\ <<t, k>>[2] = k
      BY <3>4, <3>6 DEF Counted
    <3> QED
      BY <3>3, <3>7
  <2>3. Cardinality(L) <= Cardinality(Counted)
    <3> DEFINE f == [u \in L |-> CHOOSE c \in Counted : u = PartOf(c[1], c[2])]
    <3>1. \A u \in L : f[u] \in Counted /\ u = PartOf(f[u][1], f[u][2])
      BY <2>2
    <3>2. f \in [L -> Counted]
      BY <3>1
    <3> HIDE DEF f, L
    <3>3. f \in Injection(L, Counted)
      BY <3>1, <3>2 DEF Injection, IsInjective
    <3>4. IsFiniteSet(Counted)
      BY CountsAreFinite
    <3> QED
      BY <3>3, <3>4, FS_Injection
  <2>4. ASSUME treePc[Root] = "ended"
        PROVE  /\ concurrentThreadNum = 0
               /\ totalThreadCreated = Cardinality({t \in T \ {Root} : treePc[t] = "ended"})
    <3>1. Counted = {} /\ Spawning = {}
      <4>1. \A t \in T : treePc[t] \in {"out", "ended"} /\ CountedOf(t) = {}
        BY <2>4, AllEnd
      <4> QED
        BY <4>1 DEF Counted, Spawning
    <3>2. Created \ {Root} = {t \in T \ {Root} : treePc[t] = "ended"}
      BY <2>4, AllEnd DEF Created
    <3>3. Cardinality(Created \ {Root}) \in Nat
      BY CountsAreFinite
    <3>4. Cardinality({}) = 0
      BY FS_EmptySet
    <3> QED
      BY <2>1, <3>1, <3>2, <3>3, <3>4
  <2> QED
    BY <2>1, <2>3, <2>4, SameCardinality DEF Tree!CountCoversThreads, T, Root
<1> QED
  BY <1>1, TreeInvariant, PTL

\* When main has the array back it is sorted and holds what it held, and no thread is
\* left that could write to it.
THEOREM SortedWhenMainReturns == EitherSpec => []SortedAtEnd
<1>1. TInv => Tree!SortedAtReturn
  <2> SUFFICES ASSUME TInv, treePc[Root] = "ended"
               PROVE  /\ \A t \in T : treePc[t] \in {"out", "ended"}
                      /\ SortedFrom(treeInput, treeArray)
    BY SameCardinality DEF Tree!SortedAtReturn, Tree!SortedFrom, SortedFrom, T, Root
  <2>1. \A t \in T : treePc[t] \in {"out", "ended"} /\ TOwn(t) = {}
    BY AllEnd
  <2>2. TUnsorted = {}
    BY <2>1 DEF TUnsorted
  <2>3. /\ DOMAIN treeArray = Indices /\ DOMAIN treeInput = Indices
        /\ treeArray \in [Indices -> Int]
    BY DEF TInv, TTypeOK
  <2>4. \A i, k \in Indices : i < k => treeArray[i] <= treeArray[k]
    BY <2>2 DEF TInv, OrderedBut
  <2>5. \A i \in Indices : Holding(treeArray, treeArray[i]) = Holding(treeInput, treeArray[i])
    BY <2>3 DEF TInv, TSameElements
  <2> QED
    BY <2>1, <2>3, <2>4, <2>5 DEF SortedFrom, Holding
<1>2. TInv /\ SortedAtExit => SortedAtEnd
  BY <1>1 DEF SortedAtEnd
<1> QED
  BY <1>2, PoolSorts, TreeInvariant, PTL
=============================================================================
