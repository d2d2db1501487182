# TLA+ models of the cloud-computing course programs

The repository holds the slides of a course and the programs shown in them,
under `src/CodeInSlides/`: small C, C++ and Go programs, one per question, most
of them about threads. Each program has one file, its own state and its own
`main`; programs never call one another. What connects them is the *problem*:
four programs solve the bounded buffer, two fetch URLs, three sort in parallel.
The models follow that structure: what several programs share is one module,
each program is a module on top of it, and where there is a common promise it is
an abstract specification that the programs are shown to implement.

In short: 36 programs are modelled step by step, the concurrent ones of chapters 4
and 7 and three of the miscellaneous ones; TLC checks 8 runs that pass and 4 that
exhibit a disagreement between a program and what is said of it; TLAPS proves, for
every value of the constants, all their safety properties but one: the invariants
of the buffer programs, `Deadlock.c`, the job programs, the TCP pairs, the servers,
the shared balance, the futexes and the pipes, that the three parallel quicksorts
sort, and that the buffer programs, both wget programs, the job programs and the
key-value store implement their abstract specifications.

## 1. Inventory

### 1.1 Modelled

| program | state | operations | interaction | what makes it correct |
|---|---|---|---|---|
| `BoundedBuffer-mutex.c` | `bufSize`, one mutex | producer and consumer loops that test, unlock and retry | busy waiting on the mutex | the test still holds when `bufSize` is stored; every thread ends |
| `BoundedBuffer-semaphore.c` | `bufSize`, mutex, two semaphores | wait, update under the mutex, post after the unlock | semaphores count places | slots are accounted for; no update is lost |
| `BoundedBuffer-monitor.c` | `bufSize`, mutex, two condition variables | `while` test, wait, update, broadcast | broadcast to the other side | no wakeup is lost, the test holds after each wakeup |
| `BoundedBuffer-monitor-mesatest.c` | the same | `if` instead of `while` | the same | meant to fail: it prints OVERFLOW! and UNDERFLOW! |
| `ConcurrentWget-ThreadPool.c` | ring of jobs, head, tail, two semaphores, mutex, a counter with its mutex | `enqueueAJob`, `dequeueAJob`, fetch, count, poll | main produces, workers consume, main polls and exits | no slot is reused too early, each page gets the number of its URL, exit only when all is fetched |
| `ConcurrentWget-OnDemand.c` | four counters, one mutex | a thread per URL counts itself in and out, main polls | shared counters | counts are exact, exit only when all is fetched |
| `Deadlock.c` | a mutex per resource, one big mutex, the order drawn for each thread | draw, lock one by one, process, unlock in reverse | threads wait for each other's resources | no circle of waits when ordered or with the big lock |
| `ConcurrentQuickSort-Iteration.cpp` | array, global stack of segments, semaphore, mutex, busy flags, exit flag | take a segment, partition, push parts, sort short ones, poll for the end | threads share array and stack, main detects the end | segments are disjoint; the array is sorted when the threads are told to exit |
| `ConcurrentQuickSort-Recursive.c` | array, count of threads, mutex | partition, create a thread per part or sort it, join, discount | a tree of threads | the count covers the threads; the array is sorted on return |
| `ConcurrentQuickSort-Recursive-broken.c` | the same | creates threads until the system refuses | the same | a refused thread loses no part |
| `kv.go` | the map, `kv.mu`, client variables, replies | get, put, delete, show, exit as RPCs | a goroutine per call; replies are encoded after the unlock | no two handlers race for the map; get, put and delete are linearizable; every call returns |

| `PreAssignJob.c`, `DynamicAssignJob.c`, `HomoThreads.c` | the files of the jobs, the next job with its mutex, each thread's sum | generate the files, main's own round, ranges or counter, join and add up | the disk stores less than it is asked to; threads share a counter | every file is complete, each job is done once per round, the sum told is theirs |
| `HeteroThreads.c` | the same, a queue of sub-jobs with mutex and semaphore | threads put what they have summed up, one thread prints it | the slot is read outside the mutex | every sub-job is printed once, after it was written |
| `ATMProblemShow.c`, `ATMProblemShow-mutex.c`, `Problems-CompilerOptimization.c` | the balance, a mutex in one of them | load, add, store | threads race | what may get lost, and that nothing is with the mutex |
| `TCP-*.c`, four pairs | a byte stream per direction, loops of pieces, counters, growing buffers | header, messages or requests, acknowledgment; several threads on one socket | the stream is cut anywhere, either side may fail | totals agree, nothing beyond a buffer, order kept, both sides end |
| `echo-client.c`, `echo-server.c` | a connection, a buffer | one read per line; read and echo until the end | a reply may come in two parts | what comes back is what was written |
| `HighConcurrent-*.c`: client, a thread per connection, epoll | descriptors, epoll's watched set and events | accept, add, wait, read once, echo, close | edge-triggered events in batches | every client returns, every descriptor is closed |
| `multipipe-popen.c`, `testProgram.c` | three pipes, copies of their ends in two processes | pipe, fork, close, exec; write, read, echo | full pipes, ends of streams, SIGPIPE | all lines come back, no end stays open, no mutual wait |
| `timectxsw.c`, `timectxswws.c`, `timetctxsw.c` | a futex word, a loop counter per side | set, wake, wait, each tried again | a wake without a sleeper is lost | the sides take turns and neither is left asleep |

Hard here: interleavings of machine steps (`bufSize++` is a load and a store),
wakeups lost or spurious, state tested before a wait and used after it,
termination detection by polling, integer divisions that leave threads waiting or
jobs over, failing `pthread_create`, `fork` or `fwrite`, a process that exits under
its threads, a C++ function without `return`, data that is read after its lock is
released, a byte stream that is cut anywhere, and events that come once only.

### 1.2 Not modelled

* `UDP-server.c`, `UDP-client.c`: numbered datagrams are sent, and printed as they
  arrive. No datagram depends on another and neither side reacts to a loss: the
  server cannot tell a lost datagram from one that was never sent, nor the end.
* `ProcessBasicAPI-*.c`: fork, exec and wait one after the other. When `execvp`
  fails (`ProcessBasicAPI-shell.c:77`) the child returns from `main` with a copy of
  stdio's buffers; they belong to the C library.
* `Problems-CPUOoO.c`: each thread writes one variable and reads the other. All
  four outcomes are allowed, so there is nothing to state.
* `ThreadBasicAPI-create.c`, `ThreadBasicAPI-calcShareData.c`: a print; two private
  sums and a join.
* `timectxsw2.c`, `timetctxsw2.c` (both sides only yield), `timesyscall.c`,
  `Measure-*.c`, `PrintToMonitor.c`, `MemLayout.c`: timing and printing.
* Makefiles, shell and Python scripts, slides. Of the generated assembly only
  `do_sum` of `Problems-CompilerOptimization-O2.s` is modelled.

## 2. Modules

```
BoundedBuffer   <- implemented by -   BufferPrograms = BufferMutex | BufferSemaphore
                <- implemented by -   BufferMonitor  ----  BufferMesa
BufferMain  ----  BufferMutex, BufferSemaphore, BufferMonitor
JobPool         <- implemented by -   ConcurrentWget = WgetThreadPool | WgetOnDemand
AtomicKV        <- implemented by -   KVStore
PartSort  ----  QuickSortPool  ------------------------  ConcurrentQuickSort
          ----  QuickSortThreads  ----  QuickSortBroken  ----/
Deadlock
TCPStream  ----  TCPPrograms  ----  SocketPrograms
                 EchoServers  ----/
WorkOnce        <- implemented by -   JobThreads  ----  ThreadPrograms
                     GenerateJobs  ----/                  / / /
                     SharedCounter, FutexSwitch, PipeProgram
```

`BufferPrograms`, `ConcurrentWget`, `ConcurrentQuickSort`, `SocketPrograms` and
`ThreadPrograms` put programs side by side: the initial state chooses one, which then
runs alone. What several programs of a kind promise is stated once, and one run covers
them all.

Proofs: `BufferProofs`, `BufferMonitorProofs`, `DeadlockProofs`,
`ConcurrentWgetProofs`, `ConcurrentQuickSortProofs`, `KVStoreProofs`,
`ThreadProgramsProofs`, `SocketProgramsProofs`. `MCKVStore` holds the definitions that
its runs' constants need.

Conventions. A thread's program counter is `pc[t]`; each label is a place where
another thread may run, and what lies between two labels touches only the
thread's own variables or is under a mutex. A mutex is a variable with its owner,
a semaphore a number. Names are those of the code. A definition under a comment
`Mutant:` is a plausible bug: it is used nowhere, it is there so that one can put
it in the place of its neighbour and see the property fail.

**The bounded buffer.** `BoundedBuffer` promises: a producer adds one coke when
there is room, a consumer takes one when there is one. `BufferMain` has what the
four programs share: globals, `main` (creates producers, then consumers, joins,
prints, destroys the mutex, exits; `pthread_create` may fail) and the two machine
steps `Load` and `Store` of `bufSize++`. `BufferMutex`: `TryLock`, then either
`Retry` (blocked: unlock, again) or `Update` and `Unlock`. `BufferSemaphore`:
`SemWait`, lock, update, unlock, and the post after the unlock. `BufferMonitor`:
`Enter`, `CondWait` (sleep and release in one step), `SpuriousWakeup`, `Return`
(needs the mutex), update, `Broadcast`, `Unlock`. `BufferMesa` only replaces the
step after a wakeup: it does not test again. Refinement mapping: `size` is
`bufSize`; `count[t]`, the operations of `t`, changes with the store.

**Fetching URLs.** `JobPool` promises: jobs are submitted in order, taken once
and in order, done once, and the pool closes last. `WgetThreadPool`: the ring's
slots are copied in and out in steps of their own (`CopyIn`, `AdvanceTail`,
`CopyOut`, `AdvanceHead`), with the semaphores around them; `LoadNum`/`StoreNum`
are `totalNumOfJobsDone++`; `Check` is main's comparison, whose success ends the
process. `WgetOnDemand`: `Lock`, `Load`, `CountIn`, `Wget`, `CountOut` per
thread. A fetch is one action (the file appears); the log is left out.

**Sorting.** `PartSort` has the partition: one round of its outer loop is one
step, its two scans are the predicates `StopsUp` and `StopsDown`. In
`QuickSortPool` threads take segments off the shared stack (`SemWait`, `Lock`,
`Take`), partition long ones and `Push` the parts, sort short ones with a stack
of their own (`NextLocal`, `PartEnd`, `EndLocal`), and main polls (`PollLock`,
`Notify`). In `QuickSortThreads` a thread is known by the segment it was created
for: `CountThread` and `Spawn`, or `SortMyself`, for each part, then `Join` and
`Discount`. `QuickSortBroken` keeps the partition and the joins, and creates
threads without asking the count, any of which may be refused.

**Deadlock.** `Shuffle` is a step of the Fisher-Yates loop, `SetArgs` takes the
first elements of the permutation, sorted or not. A thread's `LockResource`,
`ProcessResource`, `UnlockResource` are the rounds of its loops; with the big
lock `LockBig` and `UnlockBig` enclose them. The two switches are chosen in
`Init`, so a run covers all modes.

**Key-value store.** A client reads a line (`ReadLine`: `Scanln` stores the words
it finds, the other variables keep the previous line's), calls, and waits. The
handlers are `Lock`, their work (`Get`, `Put`, `Delete`, `Show`, `Exit`), and
`Unlock`, which runs before net/rpc encodes the reply: for Show the keys are read
one by one without `kv.mu` (`EncodeKey`), and the runtime may notice a write that
is going on and end the process (`Crash`). The library parts are external:
modelled from how `kv.go` uses them. Refinement mapping to `AtomicKV`: an
operation takes effect when its handler is done with the map.

**Jobs.** `GenerateJobs` is the loop around `fwrite`: it stores all that is left
of a chunk, a part of it (the disk is full), or nothing; `writeSize` and
`totalBytes` follow the code, which takes a short count for progress.
`JobThreads` has the four programs: a job comes from a thread's range
(`EnterRange`, `NextInRange`, `RangeDone`) or from the counter (`LockJobs`,
`ReadCounter`, `TakeJob`, `NoJobLeft`); in `HeteroThreads` it goes on to the queue
of sub-jobs (`LockSubJobs`, `PutSubJob`, `CountSubJob`, `PostSubJob`), which the
printing thread takes without looking at what was counted. `WorkOnce` promises:
in a round each job is taken by one worker, and the sum counts each once. Its
rounds are main's own and the threads'.

**One variable.** `SharedCounter`: an addition is a `Load` and a `Store`. In the
variant compiled with -O2 the whole loop is one addition, still not an atomic one.

**Sockets.** `TCPStream` is a connection, with `sendAllChunk` and `recvAllChunk`
by pieces: `SendSome` and `RecvSome` move any number of bytes that fits. A byte is
a pair of its sender and the number of the message; the end of a process closes its
side, and resets the connection when something was left unread. `TCPPrograms` has a
client and a server action per pair. In `EchoServers` the three servers share
`Service` (read once, write back, close); `EpollWait` returns any batch of up to
`MaxEvent` events in any order, `Ready` knows the listener as level-triggered and
connections as edge-triggered, `EpollAdd` makes an event of what is there already.
A thread or process that fails ends as its code says: `return`, `exit(1)` for all
threads, `continue`, or `break`. A write after the other end was closed still succeeds,
and has the connection reset; a write after the reset fails, or raises SIGPIPE, which
none of the programs handles and which ends the process with all its threads and
connections (`ClientKilled`, `ServerKilled`). What a process that ends has accepted
and read to the end it closes in order; the rest is reset.

**Pipes.** `PipeProgram` keeps which process holds which end of which pipe open;
the end of a stream and SIGPIPE follow from it. `Error_err` is what the error labels
close, by the place where `popenRWE` fails.

**Futex.** `FutexSwitch`: a side is somewhere in set, (write the working set), wake,
wait, asleep, woken. `Wake` and `Wait` are one round of their loops.

## 3. Runs

Each run is one configuration. Deadlock is checked except where noted; ended
programs stutter.

| run | instance | shows |
|---|---|---|
| `buffer` | busy waiting and semaphores: 2+3 threads, 2 places, 6 cokes | `ChecksHold`: the test made under the mutex still holds at the store; `SlotsAddUp`: `bufSize` and both semaphores add up with the threads between their steps; `AfterRunBalance`: the count printed at the end; refinement; ends |
| `monitor` | 3+2 threads, 1 place, 5 cokes (1 and 2 each), 1 spurious wakeup | `NoLostWakeup`, refinement, `EndsOrStarves`: with unequal divisions the program stops only because one side has run out; deadlock expected |
| `mesa` | 2+2 threads, 1 place, 4 cokes | the bounds that the program itself tests are left |
| `wget` | 4 URLs; 3 workers and a ring of 2 in the pool | `RingAccounting`, `NumberIsPlace`, `CountsAgree`, refinement of the pool (exit only when all is fetched), ends |
| `kv` | 2 clients, 3 strings, 7 kinds of lines, one of an unknown operation | `NoMapRace`: no handler touches the map while another one writes it; `Linearizable`, `CallsReturn` |
| `kv_exit` | the same | the server goes on after it confirmed its exit |
| `deadlock` | 3 threads, 2 of 3 resources, 2 iterations, all modes | `OneProcesses`, `NoCircularWait`, `StuckOnlyInCircle`, `OrderedRunsEnd`; deadlock expected in the mode with neither switch |
| `quicksort` | the pool: 2 threads, all arrays of 5 over 3 values, 2 runs; the trees: all arrays of 5 over 2 values, a limit of 2 threads, or none | `NoElementShared`, `SortedButSegments` (what is not in a segment still to be done is in its place), `PermitsMatch`, `StrictLimit` (the count covers the threads, the limit is reached and never exceeded), `SortedAtEnd`, ends |
| `sort_pool_exit` | arrays of 3, 1 run | the thread function runs off its end |
| `sockets` | pairs: up to 3 threads, 4 requests of 2 bytes, 4 bytes on the wire, a buffer of 3, one more request per `realloc`; servers: 3 clients, 2 lines of 2 bytes, 2 events at a time | `TotalsMatch` (an acknowledgment means that all was received; what threads on one socket may lose), `BufferFits`, `BytesInOrder`, `DescriptorsClosed`, everybody ends |
| `sockets_long` | as `sockets`, the message number may be longer than what is announced for it | the client is told of success before all is received |
| `threads` | up to 4 workers, 3 jobs of 1 or 2 chunks, a disk that fills once; up to 3 depositors of 3 rounds; 3 iterations, working sets of 0 to 2 pages; 5 lines through pipes of 1 to 5 | `FilesComplete`, `JobsDisjoint`, `SubJobsPrinted`, `Deposits`, `TakesTurns`, `PipesDrained`, refinement of `WorkOnce`, ends |

Why the bounds are enough. Two threads of a kind are needed to race, a third to be
overtaken or to be the wrong one to wake; a full and an empty buffer occur with
capacity 1 or 2 and more cokes than places. The ring of 2 is filled, emptied and
wrapped around twice by 4 URLs. Three threads and three resources give circles of
length 2 and 3. Arrays of 5 over 3 values have equal elements, sorted and reversed
inputs, both parts longer than `MinLen` and parts of length 0 and 1; a second run
starts from what the first one left in the globals. The constants of the code that are
scaled down are `MIN_ARRAY_LEN_FOR_CREATE_A_THREAD_TO_SORT`,
`MAX_CONCURRENT_THREAD_NUM`, `CONCURRENT_THREAD_NUM`, the queue's size,
`ITERATION_PER_THREAD` and `TEST_COKE_NUM`; `MaxSpurious` bounds spurious wakeups,
`RunTimes` the sorts. The arrays of the recursive programs have two values only, to
keep their many threads affordable: five elements are needed to reach the limit of 2
threads. In `sockets` a request, a header and the wire are small but of sizes that do
not divide one another, so a piece may begin and end anywhere, and four requests do
not divide by three threads: a remainder occurs. With 3 jobs and up to 4 workers there
are fewer workers than jobs, more, and remainders; `MaxFills` bounds how often the
disk fills up, `MaxBytes` the total on a disk that is full (there the code counts some
bytes again and again), `NumLines` what a user types. A pipe holds from 1 to
all of the lines that are written: with small ones both sides block; with large ones,
as real pipes of 64 KB are, main may write everything and come to its end although
the child could not be run. `ShortCount`, 10^7 in the code, is the number of
messages whose number has no more than 7 digits: `sockets` stays below it,
`sockets_long` does not. No run uses symmetry: nearly all check temporal properties.

### Disagreements found

* `BoundedBuffer-monitor-mesatest.c:27` and `:50`: with `if`, woken threads leave
  the bounds that lines 33 and 56 test (that is what the program demonstrates).
* `kv.go:229`: `Exit` answers "true" and the server goes on, while the client takes
  any other answer for "Server does not exit successfully!" (line 113).
* `ConcurrentQuickSort-Iteration.cpp:157`: the thread function has no `return`.
  In C++ that is undefined, and g++ at the makefile's `-O2` emits no return
  instruction behind the unlock of line 107; the thread runs on into other code,
  in practice to a crash after the sort is done. `ExitThread` and
  `FlowOffTheEnd` are the two outcomes. All other properties of that run hold
  with both.
* `TCP-client-reliable.c:117` announces `sentTimes*9` bytes ("Each time sent 9
  bytes"), but from message 10000000 on `*%07d*` is longer: the server acknowledges
  before it has received the last bytes, and the client prints that the receiver has
  successfully received the data. `TotalsAgree` proves that up to that number of
  messages it is true.

Seen while modelling, without a run of its own:
`ConcurrentQuickSort-Recursive-broken.c:147` creates threads with no limit and no
count, although the count is decremented after each join and comments (lines 18 and
137) speak of a limit; the count falls below 0 in every run. `PreAssignJob.c:66`
counts the first part of a chunk once more for each further `fwrite`: `FilesComplete`
says `>=` for that reason. `multipipe-popen.c:166` ignores the status, so that a
`testProgram` that cannot be run ends like one that prints nothing.
`HighConcurrent-epoll-server.c:120` leaves a connection open and unwatched when
`getnameinfo` fails: `DescriptorsClosed` and `Termination` leave those clients out
(`forgotten`).

## 4. Fairness

`WF_vars(Next)` where any progress is enough: in the semaphore and monitor
programs, in the recursive sorts, in `Deadlock`, `TCPPrograms`, `SharedCounter` and
`JobThreads` no thread spins, so every step is progress and it is enough that the
scheduler runs some runnable thread. In `EchoServers` and `PipeProgram` each side has
weak fairness: the server and the clients; main, its thread and the child.

Where a thread spins or polls, fairness is per thread: weak fairness of every thread's
steps, and strong fairness of the lock that the spinning thread competes for. That is
justified in the wget programs and `QuickSortPool` by main's `usleep(10000)` between
two polls, in which a waiting thread gets the mutex; in `BufferMutex`
(`EitherFairSpec` of `BufferPrograms`), where threads spin with nothing but unlock and
lock, it is an assumption on the scheduler, and termination needs it; in `kv.go` Go's
mutex hands itself to a goroutine that has waited for a millisecond. In `FutexSwitch`
the sides spin with a `sched_yield` in between, so each is run. `EpollAccept` has
strong fairness: were every `accept` to fail, the level-triggered listener would fire
for ever.

Users need not type: `ReadLine` has no fairness. A fetch that never ends is excluded
by the weak fairness of its thread. Nothing obliges anybody to make room on a full
disk: `Termination` of `threads` allows for a disk that stays full, as it does for
the two endless loops of the futex programs (`PlaysForEver`: no page to write, no
child to wake).

## 5. Proofs

All theorems hold for all constants that satisfy the named assumptions: finite
non-empty sets of threads, `Capacity >= 1`, `Needed \in 1..NumResources` (more
would be read from beyond an array), `HeavyWeight >= 1`, natural numbers for the rest.
But for these two no assumption restricts the programs: those on `Nobody`, `Main` and
`Absent` say that a model value is none of the things it stands beside.

**Mutex and semaphores** (`BufferProofs`). `Mutex!IInv`: who is between the test and
the unlock owns the mutex, and at the store its register is `bufSize` and the test
still holds; without the first half nothing keeps another thread from changing
`bufSize` in between. With semaphores no thread ever tests `bufSize`; that it stays in
`0..Capacity` follows from an equation: places free = value of the empty semaphore +
threads between their wait and their store + threads between their store and their
post, and likewise for full places. There `IInv` is types, `NoLostUpdate` (one thread
at a time is between its load and its store, and its register is `bufSize`) and
`SlotAccounting`. Counting threads by place needs lemmas on the cardinality of a set
that one thread enters or leaves. For the count printed at the end, `Bookkeeping`
takes a coke for a pair of its thread and its number, so that what was produced less
what was consumed is a difference of two cardinalities, which a store changes by one
(`Balanced`); `QuotasKept` and `AtExit` say that in the end every thread has done its
share. Theorems: `Invariant`, `ChecksStillHold`, `Slots`, `Bounds`, `Balance`,
`Refinement`.

**Monitor** (`BufferMonitorProofs`). `IInv` is types, `CheckStillHolds` and
`NoLostWakeup`: a waiting thread is blocked, or some thread of the other side is
between its update and its broadcast. Theorems: `Invariant`, `NoWakeupIsLost`,
`Refinement`.

**Deadlock** (`DeadlockProofs`). `IInv` is types, `OrdersDrawn` (what the shuffle
and the sort give: distinct resources, ascending with `ifSortAccess`) and
`MutexesHeld` (a thread owns exactly the first resources of its order, up to where
it is). `NoCircle`: if `t` waits for `u` and `u` waits too, then `u` owns what `t`
wants, so it is an earlier element of `u`'s ascending order than what `u` wants; in
a circle the thread that wants the greatest resource would wait for one that wants
a greater one. `OnlyCirclesStop`: whoever owns what another waits for is not finished,
so when all threads have finished or wait, those not finished wait in a circle, and then
`NoCircle` says that neither switch is set. `Exclusion`: who processes a resource owns its mutex, or the big
one. The invariants are not inductive without `MutexesHeld`, which ties the
program counters to the owners.

**Wget** (`ConcurrentWgetProofs`). `IInv` for the pool counts as for the semaphores
(`SlotsAccounted`: each slot is in the ring, in a semaphore, or with a thread between
its wait and its move, or between its move and its post), and needs what is in the
ring besides: `RingHolds`, the places from `outCount` to `inCount - 1` hold their own
URLs. That a copy into `tail` hurts none of them is arithmetic: places less than a lap
apart have different slots (`SlotsDiffer`), and less than a lap is what
`SlotsAccounted` gives. `Numbers` says that the jobs in work have different numbers
and that `totalNumOfJobsDone` counts the others; so main sees `NumUrls` only when
nobody works. `DInv` for the threads on demand: who has loaded the counters has the
mutex and has seen them as they are; three counters are numbers of threads, and the
maximum is between the threads at work and those created. Theorems: `Invariant`,
`RingIsAccountedFor`, `PlacesAreNumbers`, `CountersAgree`, and `PoolRefinement`: a job
is submitted when `tail` moves, taken when `head` does, and done when the sum that
counts it is stored.

**Sorting** (`ConcurrentQuickSortProofs`). Two invariants, `IInv` for the job stack and
`TInv` for the recursive programs, that say the same of the array: the segments not
sorted yet, each with who has it, do not overlap; two elements are in order unless
they are in the same one of these segments; the array is a rearrangement of what it
was. Each step keeps this because it replaces a segment by the same one elsewhere, by
its two parts around the pivot, or by nothing when it is too short to be out of order.
`Rounds` and `Progress` supply the partition: left of `left` nothing is greater than the
pivot, from `right` on nothing is less, which is how the end of a round, in which the
indices cross, puts the pivot between the parts.

* *The job stack.* `PermitsMatch` is inductive with `TypeOK`: a pop has the permit it
  waited for. `Rests` says that whoever has a segment is busy, so that main, who sees
  an empty stack and nobody busy under the lock, has seen everything: no segment is
  left, and `SortedButSegments` is then sortedness. Theorems: `Invariant`,
  `StackHasPermits`, `OnlySegmentsUnsorted`, `PoolSorts`.
* *The recursive programs.* `Shape` says that the threads are a tree: each but the root
  has the segment of a part of another, which created it, and of two threads one is
  below the other or there is a pivot between them. `Joins`: a thread that is joined
  has ended, and with a thread that has ended all threads below it. Without these a
  parent could end over a child that still sorts. `Counts` names the threads the count
  is made of, those created and not yet discounted and the one about to be created,
  and makes `concurrentThreadNum` their cardinality; `StrictLimit` follows as the live
  threads are among them. The program without a limit has the same steps but for the
  count, and falls under the same lemmas. Theorems: `TreeInvariant`, `LimitIsStrict`.

Together: `NoLockNeeded` and `SortedWhenMainReturns`.

**Key-value store** (`KVStoreProofs`). `IInv` says that who is inside a handler owns
`kv.mu` and that a value is held back only for a `get` between its read and its reply.
Theorems: `Invariant`; `MapIsLocked`; `StoreIsLinearizable`: the step that reads or writes the map,
under the mutex, is where the call takes effect, and replies encoded after the unlock
change only what `show` prints.

**Threads** (`ThreadProgramsProofs`). The four modules of `ThreadPrograms` each have an
invariant; as one of them runs, the invariants of the others stay those of an initial
state (`OneRuns`), and `Invariant` is their conjunction.

* *No job twice.* Two arguments for one property. In `PreAssignJob` every job of a
  thread is in its range (`InRange`), and the ranges of two threads do not overlap
  because `size * (t + 1) <= size * u` when `t < u`, the last range included. In the
  other programs every job taken is below the counter and who is about to take one owns
  the mutex (`BelowCounter`), so the job taken is new to everybody. `InRounds` ties both
  to `main`: it does its own round before there are threads, and forgets it when it
  creates them. Theorem: `JobsDoneByOne`.
* *Every job, and the sum.* `Places` says what main's place tells of the threads: who is
  created, who has ended. `Done` turns `InRange` and `BelowCounter` around: a thread that
  has ended has its whole range, or the counter is at `NumJobs` and every job below it is
  with somebody; and the ranges leave no job out (`RangesCover`, division with remainder).
  `SumOver` is a sum as the cardinality of a set of pairs of a job and a number, and
  `Sums` says that a thread's sum is that of its jobs but the one it is at, and main's the
  one of the threads added so far; what makes them add up is that no job is in two of them.
  `Files` supplies the bytes. Theorem: `WorkIsDoneOnce`, the refinement of `WorkOnce`: a
  job is taken when it is noted, a sum is told when main's own `calcSum` returns or main
  has added up, a round begins at the reset in between.
* *The files.* `Writing`: the files before `job` are written and those behind it empty,
  and `job` is written up to `chunk` and `writeSize`. Theorem: `FilesAreComplete`.
* *The queue of sub-jobs.* `QueueCounts` follows a sub-job through the queue: every job
  taken is with a thread or in a slot, every slot is about to be posted, in the semaphore,
  with the printing thread, or printed. So there is always a free slot, and the slot the
  printing thread reads without the mutex was written before. `SlotsHold` says what is
  in the slots, without saying who put it there: the k-th sum of a thread is k chunks, so
  there are as many such slots as threads that have put k sums. Theorem:
  `SubJobsArePrinted`.
* *Futexes.* `Turns` tells from `main`'s place alone whose turn it is, and that the
  child has played one more iteration just while `main` is woken and has not gone on;
  `AllPlayed` says that `main` leaves its loop only after the last iteration. It holds
  with lost wakes and with sleeps refused because the word has changed. Theorem:
  `SidesTakeTurns`.
* *The shared balance.* The additions made are pairs of a thread and a number, so that
  a sum becomes the cardinality of a set (`Added`), which a store extends by one pair.
  With the mutex the balance is that cardinality (`NoneLost`). Without it the balance
  and every register are a number of additions that were made (`NothingInvented`),
  which bounds them from above. From below (`NotAllLost`): whoever adds for the second
  time has loaded at least 1, so the last store of a thread with two rounds leaves at
  least 2. An earlier form of `Deposits` asked for two deposits to be left whenever two
  were made; the proof failed at `Rounds = 1`, where two threads that add once each may
  leave a single one, and the property now says so. Theorem: `DepositsAreKept`.
* *The pipes.* `LinesInOrder` numbers the lines through, from the first one shown over
  the pipe out, the child's buffer and the pipe in to the last one written.
  `EndsHeld` lists who holds which end at which place, and `EndInOrder` why nobody is
  cut off: the reader ends only when nobody holds the write end of the pipe out, hence
  after the child, and main closes its ends only after the reader; so SIGPIPE kills the
  child only when main is gone. Theorem: `LinesComeBack`.

**Sockets** (`SocketProgramsProofs`). Programs that run side by side have separate
invariants, `PairInv` for the TCP pairs and `EchoInv` for the servers.

* *The pairs.* Each invariant says where every byte is. `TCPInv`, `ReliableInv`: what
  arrived is what the client has begun to send, less what is in its buffer or on the wire
  (`DataCounted`); the header comes first and the acknowledgment last. `DataInv` for the
  threads on one socket: a byte sent is with a thread or on the wire (`Conserved`), all
  counted as cardinalities; `RecvInv` and `SendInv` add what main knows from the joins.
  `AloneInv`, for one thread only, is about order: bytes and places in the buffer
  correspond. With two threads there is no such thing, they may share a message.
* *The servers.* `Chain`: what a client has written is, in order, read by it again, on its
  way back, in the server's buffer, or on its way up. `ConnectionOK` ties the two ends of a
  connection together and `InTurn` the connection to the epoll loop, which works on one
  event at a time.

Theorems: `BuffersSuffice`, `BytesArriveInOrder`, `TotalsAgree`. The last one assumes
`program = "reliable" => RequestNum <= ShortCount`, as beyond it is false: that is what
`sockets_long` shows.

Only model-checked: everything under fairness and everything with `ENABLED`
(`Termination`, `EndsOrStarves`, `CallsReturn`, `OrderedRunsEnd`, `DescriptorsClosed`;
`StuckOnlyInCircle`, the one safety property without a proof, of which `OnlyCirclesStop`
is all but that a thread that neither waits nor has finished can take a step), which the
prover does not handle.

## 6. Left out on purpose

Printing, logging, timing, command-line parsing and memory allocation; the shell
commands' own failures; read errors of `fread` and buffers of stdio; bytes in pipes
(lines stand for them) and the C string that `printf` reads from a full read buffer;
`getaddrinfo`; accepting and dialling connections in `kv.go`; integer
overflow (the counters would need 2^31 operations); `sortArrayLen` 0 and
resources needed beyond `totalResourceNum`, where the programs read outside their
arrays before any thread runs; the destruction of mutexes after the last join.

A heavy weight of 0 or less (`atoi(argv[2])`), with which line 61 of `PreAssignJob.c`
writes no chunk and every file stays empty, is left out: the jobs then have no work.
The client of `TCP-client.c:60` sends each message with one `send` and does not look
for a short count; the model sends the rest as well, as a blocking `send` takes
everything unless the connection fails, and then `TotalsMatch` asks for nothing. In the
TCP pairs SIGPIPE is not apart from a failing `send`, as the process ends either way.
A failing `pthread_create` of `HighConcurrent-client.c:93` ends the process at any
moment before that connection's thread has written, also when `main` is further on.

## 7. Plan

1. (done) bounded buffer, wget programs, key-value store, deadlock, quicksorts;
   proofs for the mutex, semaphore and monitor programs and for `Deadlock`.
2. (done) job assignment, shared variables, the TCP pairs on a byte stream, echo and
   epoll servers, pipes, futexes. One run per kind of program.
3. (done) Proofs of the job programs, the futexes, the shared balance and the pipes;
   both wget programs implement the pool; the key-value store is linearizable.
4. (done) Proofs of the three quicksorts: segments, order, permits, tree and count.
5. (done) Proofs of the TCP pairs and the servers, of the count after a run of the
   buffer programs, of the files and the queue of sub-jobs; the job programs implement
   `WorkOnce`.

What could follow: liveness, once a prover for it is at hand; stdio's buffers, for the
shell of chapter 3 and for what two processes print.
