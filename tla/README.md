# A TLA+ model of gostalkd

gostalkd is a work queue in Go that speaks the beanstalkd protocol. Producers
`put` jobs into named tubes; workers `reserve`, run and `delete` them. One thread
runs everything: `Start` (net/serv.go) alternates `protTick`, which moves delayed
jobs and lifts pauses, with `sockNext`, which waits for one event, and with the
handler of that event. Signals run in goroutines of their own.

## Inventory

| part | state | operations | interacts with |
|---|---|---|---|
| job queue: net/prot.go, core/job.go, core/tube.go | `allJobs`, `nextJobId`; of each tube the ready and delay heaps, the buried list, the waiting list, the pause | the commands, `enqueueJob`, `processQueue`, `BuryJob`, the remove functions | called by the handlers of connections and by `protTick`; calls the binlog |
| connections: net/conn.go, net/serv.go | state, used and watched tubes, reserved jobs, `SoonestJob` cache, incoming and outgoing job, type bits | accept, read, dispatch, reply, wait, close, `connTimeout` | `reply` schedules through `EpollQAdd` and `connSched` |
| event loop: net/serv.go, net/prot.go | the heap of connections with a tick, the interest list, the period | `Start`, `protTick`, `EpollQApply` | calls everything |
| heap: structure/heap.go | array of items with their indexes | Push, Remove, Take | ready, delay and connection heaps |
| rotating set: structure/ms.go | list and cursor | Append, Remove, Take | tubes, watched tubes, waiting connections |
| binlog: core/wal.go, core/file.go | files, reservations, references from jobs | reserve, write, compact, collect, replay | called by put, delete, release, bury; read at start |
| socket backends: net/darwin.go, linux.go, windows.go | kqueue or epoll descriptor | `sockWant`, `sockNext` | called by the loop |
| signals, options, statistics texts, system information | drain flag, flags | | |

What is hard here: several tubes, workers and clocks meet in one loop whose steps
call each other (a close enqueues jobs, which hands them to other connections,
whose replies reschedule them); caches (`SoonestJob`, `HeapIndex`, `TickPos`),
counters and lists are kept in step by hand in a dozen handlers; bodies and
replies span several events; and the binlog can fail in the middle of a command.
The list `hazards` of PROJECT.json names each of these at its line with the
properties that would catch it going wrong.

What makes each part correct:

- *jobs*: a job is in exactly one place, held by at most one live connection, and
  never lost; the most urgent job goes first; delays and pauses end, and in time;
- *connections*: waiting lists agree with states; the cache of the soonest job is
  fresh; the job being written cannot be changed by others; a close gives back
  everything;
- *loop*: no ready job lies beside a waiting worker; inner loops end;
- *heap*: the root is the least item, items know where they are;
- *binlog*: after a crash every job that was acknowledged and not deleted is found.

## Modules

| module | part of the code |
|---|---|
| **JobQueue**, MCJobQueue | the commands, `processQueue`, `protTick`, connections as the queue sees them; without a binlog |
| **WorkQueue** | the abstract promise that JobQueue implements |
| **JobQueueProofs** | theorems about JobQueue: where jobs are, what a client can count on, the refinement of WorkQueue, the counters |
| **JobLists** | the linked lists of core/job.go in place of JobQueue's sets |
| **Heap**, **ReadyHeap** | structure/heap.go with the sift loops of container/heap; the ready heap with the `HeapIndex` that the code really passes |
| **ContainerProofs** | theorems about Heap and about JobLists, which share no state |
| **TubeSets**, **TubeSetsProofs** | structure/ms.go in its two uses, watched tubes and waiting connections, in place of JobQueue's sets, and theorems about them |
| **EventLoop**, **EventLoopProofs** | the interest list `epollQ`, `sockWant` and `sockNext`, and the handlers as far as they add interests; theorems about them |
| **ConnIO**, **ConnIOProofs**, MCConnIO | what happens below a handler: bytes, lines, bodies, skipping, replies; theorems about the framing |
| **Wal**, MCWal | the binlog, the commands that reach it, and recovery |
| **WalProofs**, **DurableProofs**, **BudgetProofs** | theorems about Wal: its books, what survives, and the budget |

JobQueue is the whole at one level; the others each take one structure that it
abstracts to a set, a step or nothing, and model that with its real steps.

### How JobQueue corresponds to the code

`pc` is where the loop is: `"poll"` in `sockNext`, `"tick"` in `protTick`,
`"queue"` in `processQueue`, `"close"` in `connClose`; `"astray"` and `"dead"` are the two
ends of the model (below). A handler is one step taken
at `"poll"`, named after its function; it includes the reply and what the reply
does to the `SoonestJob` cache through `EpollQAdd` and `connSched`. `processQueue`,
`enqueueReservedJobs` and the first two loops of `protTick` are one step per
iteration, since their order and end are what could be wrong. `processQueue` is called
at the end of `enqueueJob` and returns to `connClose` when one is under way, else
to `protTick`: whatever its callers do after it returns (counting, replying)
touches nothing that `processQueue` reads or writes, and is part of the calling
step.

State: job fields are functions on ids; heaps are sets whose root is given by the
order of the code (`JobPriLess`, `JobDelayLess`), which module Heap justifies;
lists of reserved jobs, waiting connections and watched tubes are sets;
`WaitingConns.Take` is any member. A connection slot is `"closed"` when no client
uses it. A reply is only the state it leads to (`"sendword"`, `"sendjob"`); which
message it carries is left out, and so is how many writes it takes. The id given to
`bury` and `touch` goes through `BuryId` and `TouchId`, since these handlers start
to read it at the wrong offset. A release delay counts ticks and a put delay
seconds, since one is read by `ReadInt` and used as nanoseconds.

Time is relative: `due[j]` is what is left until `DeadlineAt`, `unpauseIn[t]` until
`UnpauseAt`, `wake` until `sockNext` times out. Handlers take no time. Time passes
at `"poll"` and stops when the timeout is over, so the loop is never late; it may
still be arbitrarily busy with events.

**Commands on a queued job.** `delete` and `reserve-job` ask nothing of the job but its
state. The job is then taken out with `Heap.Remove(j.HeapIndex)`, and as nobody ever sets
`HeapIndex` that is the root of the heap, whatever job was named (`TakeOut`). Of a job
that is the root of its heap (`InItsPlace`) nothing is wrong. Of any other, the heap keeps
a job that is freed or held, and has lost one that nobody asked for: in the code a job is
then handed out twice or never (ReadyHeap shows the first), and a freed job is reserved.
JobQueue takes that step, as the code does, into `pc = "astray"`, and follows the server no
further, since almost nothing holds from there on. `JobsPlaced`, `ReservedOnce` and
`KeepsPromise` are stated for as long as no job is astray; the other properties are of the
states up to there. In WorkQueue the same step is `GoAstray`, which any queued job makes
possible, and after which nothing is promised. `reserve-job` of a buried job that is not
linked ends the process with a nil dereference: `ReserveJobDies`, `pc = "dead"`.

Restrictions, all of them assumptions on the environment and not on the code:

- no binlog (`Wal.Use` is false), so `enqueueJob` and `BuryJob` do not fail; module
  Wal has what they do when it is in use;
- reads and writes do not fail, `sockWant` does not fail, a command line fits its
  buffer; a body that is too long is refused in one step (ConnIO and EventLoop have
  these);
- the body of a job is stored whole, so that sending it always succeeds: of a body that was
  stored in part (Known departures) `connWantCommand` slices more bytes than there are, and
  sends what lies behind them or panics.

`connTimeout` has no action: the third loop of `protTick` tests `i > Len` with
`i` equal to `Len`, so it is never called. With it `PendingTimeout`, `TickAt` and
the heap of connections have no effect, and are left out.

### The other modules

**Wal.** `w` is `model.Wal` with its files: the list from head to tail, free and
reserved bytes of each, the jobs whose records it holds (`Refs` counts them, the
writer and the reader), `Alive`, `Resv`. `dir` is the directory with the records in
each file. A step ends where the directory changes: after a reservation, after the
head of a record, after its body, after `moveOne` has taken a job out of the head
file, after each record that recovery reads; between any two the process may die
(`Crash`), and while a file is made, which leaves one without its version (`CrashInOpen`, for
the first file that a reservation makes and for that of `WalInit`). A write fails (`WriteError`)
after all that precedes it in memory: the current file may have changed (`ToWrite`) and the job
may be in its list (`Entered`). Commands are those that reach the log, up to their `WalWrite`; `run` says
what is to be done when it returns, in success (`Finish`) or failure (`Failed`).
Sizes are small: a short record takes 2, a full one 3 or 6, a file 11 with a header
of 1. `room` is how many files the disk still gives in this call. `pc` is `"hung"` when a
reservation does not return (`v.stuck`, see Known departures).

Some fields count what the code does not: `spent`, the releases that logged a record nobody
reserved space for; `spare`, the delayed releases that reserved space and logged nothing;
`torn`, that a reservation was taken back from another file than it was taken of. `acked` is
what clients were told and may rely on: `"live"` (INSERTED) and `"buried"`, both with the log in
use, hold over restarts; `"unlogged"` (INSERTED) and `"deleted"` (DELETED) were answered after a
write had failed, when `WalWrite` returns true and writes nothing (wal.go:62-64), and hold until
the process ends, which then makes them `"exposed"` (`Unlogged`). Deletes with the log in use
are in `gone`. `"exposed"`, of which nothing is promised, are also the job that `moveOne` holds
in its hands when the process dies or the write fails (`InHand`), and the jobs whose records are
cut off when an overdrawn file is closed and truncated (`Lost`). A put whose own record cannot be
written is answered BURIED and is not in `acked` at all. Of a record that is cut the model leaves
nothing. In the code what remains of its bytes fails to parse and ends the reading of that file
at the same place; when the head of a full record is whole and its body is not, it also frees the
job if an earlier record made it known (file.go:219-223, 240-246). The job is in `Lost` either
way, so no property depends on it.

**ConnIO.** The stream is a sequence of positions, of which is known where messages
start and where a CRLF stands. A step is a call of `hConn` that reads 1 to all of the
bytes that are there and asked for, or writes a reply. `base`, `len` and `CmdRead` are
the place and length of `Cmd` and the count the code keeps, which differ after a long
line.

**EventLoop.** `epollQ`, `NextConn`, `Rw` are the list as it is linked; `sock` is
`model.Socket` and what the kernel has registered. EpollQApply takes one connection
per step. Jobs are only counted: which one a connection gets does not matter to the
list, but that a `put`, a `release` or a close wakes another connection does.

**TubeSets.** `Ms` with its cursor. A step is a command or the arrival of a ready job.
`settled` is a prophecy of the environment: from then on the clients do nothing but
reserve, so that "for ever" can be said of the rotation alone.

**JobLists.** `NextJob` and `PrevJob` are the links over jobs and heads; `JobListInsert`
and `JobListRemove` are translated assignment by assignment, and `BuryJob` passes the
arguments of the first in the other order, as the code does.

## Runs

| run | instance | states | checks |
|---|---|---|---|
| queue | 2 clients, 1 tube, 2 ids, 2 priorities, delays of 0 and 1 s (2 ticks), release delay 1 tick, ttr 1 s | 701,968 | JobsPlaced, ReservedOnce, NoOrphans, SoonestFresh, OutJobHeld, TimelyWake, StatsExact, KeepsPromise |
| queue_tubes | 2 clients, 2 tubes, 1 id, pauses | 1,180,648 | TypeOK, Housekeeping, WaitersAreWaiting, WorkConserving |
| queue_order | 1 client, 2 tubes, 2 ids, 2 priorities, pauses | 924,056 | MostUrgentFirst |
| queue_live | 1 client, 1 tube, 2 ids, delays and pauses, fairness | 102,414 | DelayEnds, LoopReturns |
| queue_ttr | 1 client, 1 id, fairness | 1,236 | TtrEnds, violated |
| heap | 7 items, all pushes and removals | 11,613 | HeapTypeOK, HeapOrdered, HoldsMembers, IndexRight |
| ready_heap | 3 jobs, 2 clients | 353 | NeverTwice, violated |
| lists | 4 jobs, 2 connections | 1,664 | ListInv (ListTypeOK, Ringed), OwnLists, ReservedListed |
| sets | 3 connections, 2 tubes, fairness | 38,736 | SetInv (SetTypeOK, WatchersCounted), WaitsWhereItWatches, EveryoneServed |
| loop | 2 connections, 2 jobs, reads of up to 2 commands, 1 connection whose interests the kernel may refuse, fairness | 101,819 | LoopInv (LoopTypeOK, Drained, ClosedOnce), Registered, ClosedIsGone, Applied, Heard |
| io | all 25 scripts of 2 messages of 5 kinds, 3 scripts of 3 messages, every cut, clients that leave, fairness | 46,077 | IOInv (IOTypeOK, Framed), InTurn, AllAnswered |
| wal | 3 ids, 2 sizes of jobs, commands up to a cost of 5 (put and delete 1, others 3), 2 faults, perhaps an old file, fairness | 597,477 | Durable, NoGhosts, WalInv (WalTypeOK, SpaceExact, ResvExact), AliveExact, Budget (Balanced, Solvent, Returns), NoInternalError, ComesBack |

Why the bounds are enough: two clients are what it takes for one to name, wait
for or inherit a job of the other; two jobs give every order of priorities and
deadlines and make a cache of the soonest wrong if it can be; two tubes make a
connection wait in a list other than the one that serves it; a second of two ticks
makes the safety margin, a delay and a release delay differ, and the default
period is longer than any of them so that each of them can be the one that wakes
the loop. Seven items fill a heap of three levels: the last item can have to rise
into another branch. In queue_order and queue_live one client does everything in
turn, which is enough for the order of jobs and for the loop; there is no symmetry
in the fair runs. `MaxJobs` caps the ids. The ids of `bury` and `touch` are `Nums`:
101 and 102 are read as 1 and 2 by bury and as 1 and 2 by touch, 11 as 1 by touch
alone.

Four jobs and two lists give every neighbourhood of a link: first, middle, last and
only. Three waiting connections are the fewest that a cursor can skip one of. In
*loop* two connections and two commands per read add one connection three times in a
batch while the other is in the list. In *io* the line buffer holds 12 bytes and the
bucket 3: a line of 14 overflows the first, a body of 7 takes three reads to skip, and
a short script fits one read whole.

In *wal* a file of 11 holds two records with what is reserved for their deletes only
when they are small: with three jobs the current file moves on twice, so that a delete
may lie in a file before which, and after which, others are collected. NoGhosts with a
collection in the wrong order is refuted by three puts and two deletes and by nothing
shorter; this, and two faults (a failed write or a refused file and then a crash, a
crash in the recovery from a crash), set the bounds. A crash while a file is made counts for
both faults (`OpenCost`): what it can break is the start that follows, which is thus checked
against every state of the log but with no other fault besides. `MaxFiles = 14` is more than any
behaviour within these bounds makes. Other commands cost 3, so that
there are fewer of them in one behaviour. The safety properties were also checked on
larger instances that take longer than a run should: three jobs with six commands of
put, delete, bury and release under one fault (3.2 million states), two jobs with four
commands of every sort under two faults (1 million), all of them in files of 9, where a reservation
spans three files.

Deadlock is not checked in wal (the commands are bounded), io (a connection ends),
lists (all jobs may be deleted).

*queue_ttr* and *ready_heap* show two disagreements between the code and
doc/protocol.zh-CN.md: a job whose time to run is over is never released by the
server, and a job that one worker took by `reserve-job` may be handed to another.

### Fairness

- `FairSpec` (queue_live, queue_ttr): weak fairness of the steps the server takes by
  itself (the loop never stops) and strong fairness of `Clock`: time passes however
  often events interrupt the wait. Nothing is assumed of the clients, of `SIGUSR1`, or
  of any single handler.
- `LoopFair`: weak fairness of the loop as a whole; strong fairness of accepting each
  connection and of its end of input, reply and hangup: kqueue reports every socket that
  has something to report in its turn, and the loop asks for one event at a time. A
  client that stays may send parts of a message, but not for ever.
- `SetFair`: once settled, each worker reserves again, and each tube in which workers keep
  waiting gets a job now and then (strong fairness, as the arrival is disabled whenever
  `Burst` workers are away).
- `IOFair`: weak fairness of the handler of the one connection and of a client that has
  more to send. Nothing makes the client leave.
- `WalFair`: weak fairness of recovery: a server that is down is started again. The faults
  are finite in number.

## Proofs

Each theorem holds for every value of the constants that satisfies the assumptions named
in the module: nil is no connection and no tube, the default tube is a tube, numbers are
naturals, sets of connections (in JobLists, of jobs too) are finite where something counts
them or walks along them, messages have the sizes that their kinds say. Every invariant
was first checked by TLC on the instance of the run.

### JobQueueProofs: where jobs are

- `Invariance`: `Spec => []IndInv`, where IndInv is TypeOK, Housekeeping,
  JobsPlaced, HeldOnce, NoOrphans, WaitersAreWaiting and WorkConserving;
- each of the seven as a theorem of its own, `ReservesOnce` with the condition that no job
  is astray.

`JobsPlaced` is `Placed` under that condition. As a state with a job astray has no further
step, every step starts from `Sound`, which has `Placed` without it (`StepFinds`); the
lemmas on steps assume Sound, and the one that takes a job out of a heap uses that the root
is the job named whenever the step does not lead astray (`RightOneTaken`).

Why the conjunction: Placed needs that an id handed out is unused and that a
body is read into one job by one connection (Housekeeping), and that a job given
back is in no heap (HeldOnce). HeldOnce needs that the jobs the queue hands
out are in the heaps their states name (Placed). NoOrphans at the end of
`connClose` needs HeldOnce: an empty list means that no job names the
connection. WaitersAreWaiting needs that only the closing connection closes.
WorkConserving, when `processQueue` returns, needs that a ready job is in a tube
that exists, since only those are looked at.

Layout: `Next` is split into the steps that move a job (`MoveJob`), the other
handlers (`Talker`) and the other steps of the loop (`LoopStep`); the second and
third leave every container alone (`TalkerFrame`, `LoopFrame`), so that the lemmas
on places look at the moves only. `EnqueuePlaces`, `EnqueueFrees`, `NoWaiter` and
`NoNewWork` say once what the shared pieces of handlers do.

### JobQueueProofs: what a client can count on

- `ServerKeepsPromise`: JobQueue implements WorkQueue. The mapping takes unions of the
  containers of all tubes; JobsPlaced makes them the sets of jobs in a state
  (`HeapsAreStates`), so that a step is mapped by what it does to one job (`OneJobMoves`),
  and every other step is a stutter (`OtherMaps`). A step that leads astray is GoAstray, as
  the job that was named is queued (`GoesAstray`).
- `SendsHeldJobs`: the job that is being written is held by its reader. It is inductive
  relative to Sound: HeldOnce keeps another connection from taking it.
- `CachesSoonest`: the cache of the soonest job is fresh. SoonestFresh exempts the
  connection that is being closed, whose cache is stale while its jobs are given back one
  by one; the invariant `SoonestInv` says of that connection that its cache is empty once it
  holds no job, which is what the next client of the slot needs. A touch or a reserve moves
  one deadline, of a job that no other connection holds (`OneDeadline`).
- `WakesInTime`: the timeout of `sockNext` is not later than the end of any delay or
  pause: every handler, which may set an earlier one, leads back to `protTick`, which
  computes the timeout anew (`HandlersLeavePoll`), and time passes for both alike.
- `UrgentGoesFirst`, an action property: `processQueue` takes the most urgent root of
  the tubes that it may take from. That a heap which is not empty has a root is the
  well-foundedness of the order on priorities and ids (`ReadyRootExists`).

### JobQueueProofs: the counters

`CountsExactly`: every counter of ready, urgent, reserved, buried and waiting jobs and of
connections, of a tube and of the server, is the cardinality of the set that it stands for.
Total-jobs is not among them: the documents and the code differ on what it counts (Known
departures), and the model has it as the code does. A handler changes one job and one connection at
most, so `JobsCount` and `ConnsCount` reduce each cardinality to what that one was and is;
then there is a lemma per handler that it adds just that. The invariant adds the types of
the counters and `ClosedBlank`: a slot that no client uses neither uses nor watches a tube,
so that it is not counted before a client comes.

### ContainerProofs: the sift loops of the heap

`HeapStaysInOrder`: `HeapInv`, for any set of items and any size. An item is the number of
its key, so keys are distinct, as they are in the server, where the id breaks ties.
HeapOrdered speaks of a heap at
rest; while a loop runs the order is broken at the moving item, and `Sorted` says that it is
broken there only and that the children of that item are in order with its parent, without
which one swap could break what the one before repaired. `Indexed` makes the index and the
array inverse to each other, and `Parted` keeps the removed item beyond the part in order.
From it: `HeapTyped`, `HeapIsOrdered`, `HeapHoldsMembers`, `HeapIndexRight`, and
`HeapTakesTheLeast`, that no member comes before the root (an item of least position that
does would have a parent that does as well).

### ContainerProofs: the linked lists

- `ListsAlwaysRinged`: the links stay inverse to each other. It needs the types and
  nothing else: `InsertLinked` and `RemoveLinked` say that either operation keeps two
  functions inverse, whatever nodes it is given, so that the swapped arguments of
  `BuryJob` do no harm here.
- `ListsAlwaysOwn`: no link crosses from one list into another. It is not inductive: a
  job that is taken out joins its neighbours, and that they have the same owner follows
  only when it had theirs, which is OwnLists read along both links; hence the invariant
  is the rings together with OwnLists, and `RemoveAgrees` and `InsertAgrees` carry "the
  owner of a node is the owner of its successor" through an operation after which the
  node moved, and only it, has another owner. For `BuryJob`, which inserts the head behind
  the job, it needs that the head alone is of its own list when it was empty.
- `ListsHoldReserved`: a walk along the list of a connection meets just the jobs that it
  holds. The invariant `WalkInv` says it without a walk: every set that contains the head
  and is closed under the link contains each held job (`AllReached`). The walk itself is
  looked at in one state only: it comes back to the head, since among more steps than nodes
  two are equal (`WalkReturns`), and what it meets until then is closed under the link.

### TubeSetsProofs: the rotating sets

`SetsStaySound`: `SetIInv`, which adds to SetInv and WaitsWhereItWatches that no connection
lists a tube twice (`WatchedOnce`), so that the first entry `Ms.Remove` finds is the only
one, and bounds on the cursors. From it `SetsAreSound`
(the counts of watchers are the cardinalities of the sets of watchers) and
`WaitsWhereWatched`.

### ConnIOProofs: the framing

`FramesInput` and `AnswersInTurn`, for any script of messages, any sizes of lines, bodies
and buffers, and any cut of the stream. Framed is far from inductive: that the next
line is dispatched from its first byte depends on where the buffer stands, and that on
everything that was read, skipped or stored. `Rest` says for each state of the connection
where the buffer stands: at the start of message m + 1 (WantCommand, SendWord), as far into
the body of message m as was counted (WantData), as far before its end as is still to be
skipped (Bitbucket), where m is the number of lines dispatched; and that r, the number of
replies, is m or m - 1. `LaidFacts` shows that the stream is laid out end to end,
`LineFound` that the first CRLF in a buffer that starts with a message is the end of its
line, `FillFacts` what `fillExtraData` cuts off, and there is one lemma for each thing a
command can start (`PutStarts`, `SkipStarts`, `OtherAnswered`). In WantEndLine the count has
fallen behind the buffer for good, so no line is ever found again: the proof confirms that
the connection is stuck there, and that nothing is read as a command.

### EventLoopProofs: the interest list

`ListDrained`, `WatchesAll` and `ClosedLeavesNothing`, for any number of connections. The
list may be a ring, so the proof does not follow it: `Covers` says that a connection is
reached by saying that every set which holds the head, and with a connection its
successor, holds it. The invariant (`LoopIInv`) is that the list covers every connection
whose interest is not registered yet (`ListSound`), that what is in it is open for the
server and carries the interest of its state, and that `Socket` and the kernel agree
(`SockSound`). `AddKeeps` needs that a connection which is added had no other one for its
successor; no handler violates this, since a batch begins with an empty list and then adds
the connection of the event several times and every other one once (`ServeFacts`), so
the only ring there is goes from a connection to itself or is closed by its last add. When
the list has no head, the empty set is such a set, and nothing is left to be done
(`NoHead`).

`RefusedStaysOpen` is a result about the code rather than a promise of it: EpollQApply calls
`connClose` for a connection whose interest the kernel refuses, and that never goes through.
`sockWant` notes the new filter before it asks the kernel, so the second call asks for the
deletion of a filter that is not there, and `connClose` returns on its error.

### WalProofs: the books of the binlog

`BooksCorrect`: WalInv, for any sizes of files and records, any number of jobs, files, faults
and commands, and any order of crashes. Its parts are theorems of their own: `TypesCorrect`,
`SpaceCorrect` (a file that can be written is filled exactly by what is written, reserved and
free) and `ReservationsCorrect` (`Wal.Resv` is a short record for each job in the log, and what
releases lend and borrow). They follow from `LogCorrect`, the inductive invariant:

- `FilesInv`: the list of files is in the order of their numbers and is what the directory
  holds; a job is in the list of one file at most, and there once; from the current file on the
  files are open and, after it, without jobs; recovery has opened what it has read and nothing
  else. SpaceExact is a part of it, as a file may only be opened for writing when it is empty,
  and only collected when it is closed.
- `LogInv`: which jobs are in the log, and what is reserved for them, at each point of a
  command, of a compaction and of the replay. ResvExact alone is not inductive: between the
  reservation and the record of a put the job is in no file and its bytes are reserved, in
  `moveOne` it is twice.

The operators are taken one at a time, each by what its callers need of it. `Grows` says what
the calls that look for space do to the files: those that they add are new and open, those that
they lose held no job and come before all that stay, and of each other file free and reserved
together are as before. The two loops of `balance` stay within it, each round by
`BalanceStep` and `RestStep` and all rounds by `LoopStays`, since the loops are functions on the
number of the round. `Collected` says what `walGc` drops, `Removed`, `Added` and `Wrote` what
`FileRmJob`, `FileAddJob` and `fileWrite` leave, `DirStep` what becomes of the directory
(`Unlinking`): that a file which is closed keeps its records follows from SpaceExact, as it is
truncated to what is not free of it. Then each action has an operator of its own for what it
does (`WriteFacts`, `BodyFacts`, `LogOffFacts`, `MoveFacts`, `RecoverFacts`, ...), and a lemma for
either invariant.

### DurableProofs: what survives

`NothingLost` (Durable) and `NothingRevived` (NoGhosts), for any sizes of files and records,
any number of jobs, files and faults and any order of crashes, from one assumption on the
constants: `TooBig = {}`, that no job is put whose body is within `max-job-size` and, with its
CRLF, is not. Recovery refuses such a job with the rest of its file, so without the assumption
Durable is false (Known departures).

Neither property is inductive: they speak of a server that serves, and what it will find after
the next crash lies in the directory. `Found` says what `fileRead` makes of a job in a directory
that it has read up to some record, without following it record by record. It takes the job from
its `Source`, the last full record after which there are only short ones of a job that lives,
and its state from the `Final` record, the last of all. The invariant DurInv has these parts:

- `KeptInv`: each job that has to be there (`Sure`) is found in a file, with its body, in state
  buried if that was the last word, and the file is not collected as long as the job is in its
  list (`Stays`: files go from the first on, and only when no job is in them);
- `GoneInv`: a job whose delete was answered has no `Source` at all;
- `KnownInv`, `CommandInv`, `InvalidInv`: what the server has in memory of these jobs, and of the
  job of the command that is under way;
- `CurrentInv`, `HalfInv`: records are added at the end of the directory, and the record whose
  body is not written yet is the last one;
- `FoundInv`: while recovery reads, the jobs that it knows are those with a `Source` in what it
  has read, each in the file of its source and in the state of its last record.

Between the record of a put and its answer the job is on disk and nobody relies on it; between
`moveOne` and the full record it is in no file. `Sure` covers the first (the record is written,
and `Finish` will promise it) and excludes the second, which is where the code can lose a job
(`InHand`).

What is answered with the log off is a matter of the memory alone: `UnloggedInv` says that such a
job is there with its body (`Still`), or out of the jobs (`Out`), as long as the process lives. It
is an invariant of its own next to DurInv, which speaks of jobs that clients rely on over
restarts.

What a step does to a directory is one of four things, and each has its lemmas: some files go
and new ones are empty, with a version or without (`Trim`: an unlinked file comes before all that stay, so what is found in
a file that stays is found as before, `TrimSame`); a record is added (`OneMore`: `FoundFull`,
`FoundShort` and `FoundGone` say what is found after a full one, a short one and that of a
delete); the last records of a closed file are cut off (`CutFile`, where `Lost` has the jobs); or
or
recovery reads one record further (`ReadStep`), which is `OneMore` again, on the same directory.
A short record makes no source (`ShortSource`), so that only the full record of a job which
lives can bring one back. Recovery ends when what it has read is the whole directory
(`AllRead`), so that FoundInv gives back KnownInv (`InitDur`).

### BudgetProofs: the budget of the binlog

`BudgetCorrect` is Budget, and `AnswersCorrect` is NoInternalError, again for any sizes, any
number of jobs, files, rooms and faults, and from one assumption: `Roomy`, that no job is larger
than a file. The run satisfies it (MCWal assumes it); the options do not guarantee it, and
without it a file is overdrawn by the first put (Known departures). The inductive invariant is
`FundsInv`:

- `BudgetInv`: while it is `InBudget` (no release has written what nobody reserved, nothing is
  `torn`), the log in use is `Ready` for what is `Due`, the part of the write under way that
  is not written yet. The current file holds it and, beyond it, a multiple of a short record;
  every file after it holds a multiple (`Evens`); none has less than nothing free or reserved,
  and together they add up to Wal.Resv (`Solid`). And `balance` has returned.
- `NeedInv`: what a command or a migration has reserved is the size of what it will write.
- `TornInv`, `AnswerInv`: a reservation is taken back from the wrong file only after a fault, and
  an error is answered only after one, or once the log went out of use after a release.

`Budget` alone is not inductive: it speaks of moments at which nothing is under way. A
reservation is made at the tail, and `balance` first goes on to later files until the current
one has `n` reserved, then `balanceRest` visits the files up to the tail and makes each a
multiple, with bytes from the tail or by giving it what is over. So each loop has an invariant
of its own, by the number of its round: `Looped` (the reservation is in file `T`, all other
files are even, `Lent`, and the round has passed one file more) and, for the visits, `Owed` (the
reservation is where it belongs, `Given`, and all files are even but the tail and one not
visited yet, which has as many bytes too many as the tail has too few). The first loop ends
because each of its rounds leaves a file behind and a current file that has what is reserved,
`T` at the latest, ends it (`LoopEnds`); a failure in it leaves the reservation at the tail
where it was, or the log `torn` (`BalanceEnds`). `ReserveBudget` puts them together, `Funding`
brings them to the commands, and there is a lemma for each action. The sum over the files is a
function with one value for each number of a file (`Adds`), of which `MoveValues` changes two,
and a remainder is what is left of a multiple (`Division`, `EvenSum`, `Remainder`), as the
provers cannot divide by a constant they do not know.

### Model-checked only

- The liveness properties, which are out of the prover's reach: DelayEnds, LoopReturns, TtrEnds,
  EveryoneServed, Applied, Heard, AllAnswered, ComesBack.
- Wal: AliveExact, which adds up the bytes of the records of each job over the directory, from
  its last full record on.
- NeverTwice and TtrEnds do not hold, and their runs show it.

## Known departures

What the models show of the code that its documents do not say, or say otherwise. Two
of them are runs; the others are in the modules as the code has them, outside what the
properties promise or behind a constant.

Binlog (Wal):

- `moveOne` removes a job from the head file before it writes it anew (wal.go:112), and
  does not look at the result: a crash or a failed write in between loses it, and the
  rest of the compaction goes on with the log off. `Durable` exempts these jobs by `"exposed"`.
  Once the last file is gone `w.Head` is nil and the next round dies (`moveNone`); that takes
  an overdrawn or `torn` log, beyond the bounds of the run.
- After one write that fails, or one `useNext` that finds no file, the log is off for good
  (wal.go:73-76) and `WalWrite` answers true for everything (wal.go:62-64): the server goes on
  answering INSERTED, BURIED and DELETED and logs none of it. A restart loses the jobs that were
  put since, forgets that they were buried, and brings back those that were deleted. `Durable` and
  `NoGhosts` hold the server to these answers until the process ends, and exempt them from then
  on (`Unlogged`).
- `release` without a delay writes a record nobody reserved, `release` with one reserves
  a record nobody writes. After the first a delete may fail for want of space, and a file may
  be overdrawn: `NoInternalError`, `Balanced` and `Solvent` hold only while `w.spent` is 0 (and,
  the last two, nothing is `torn`). `SpaceExact` and `ResvExact` hold all the same.
- An overdrawn file has more reserved than it has room for. A record that is written there
  past the size of the file is cut off again when the next failing write closes and truncates
  it: a job whose delete was answered DELETED comes back after a crash, a job that was moved is
  lost. `Durable` and `NoGhosts` exempt these jobs (`Lost`). Seen with files of 11, short
  records of 2, seven commands and two faults.
- When `balance` fails after it has made a new last file, the reservation is taken back from
  that file and not from the one it was taken of (wal.go:146-150): the comment of `balance`,
  "If there was a failure, w->tail is not updated", is not what happens. From then on
  `Balanced` and `Solvent` do not hold (`torn`). Seen with files of 9, short records of 3, four
  puts and one fault.
- `balance` does not look at the answer of `useNext` (wal.go:289-298): when the current file
  is the last one the loop would go on for ever (`"hung"`). By `Returns` it does so only when
  `w.spent` is not 0 or the log is `torn`.
- The size of a file (`-s`, 10 MB) and that of a job (`-z`, up to 1 GB) are never compared
  (options.go:41-60). A job larger than a file makes `reserve` overdraw the file it takes, and
  `Solvent` fails with the first put; seen with files of 6. The theorems about the budget assume
  `Roomy`.
- Recovery of a job of any tube but the default one dereferences nil, because `TubeFind` knows
  no other tube yet (file.go:197): `Foreign` is the set of kinds of jobs put to such a tube, and
  with one of them in the directory the server never comes back. `ComesBack` has that as its
  condition, `Readable`. The run has `Foreign = {}`, so that the condition is no restriction
  there; with `Foreign = {"long"}` all properties of the run hold too (270,369 states), and
  `ComesBack` without the condition fails.
- With `TooBig = {"plain"}` a job whose body is allowed and, with its CRLF, is not, is
  accepted and refused at recovery, with the rest of its file: `Durable` fails.
- The reader of version 5 fails at its first full record, and the file is then unlinked as
  one without jobs.
- A delayed release or a bury that finds no space has taken the job from its holder: it is
  in no container. A put, release or delay whose write fails leaves its job in a heap and
  in the buried list.
- `balance` says of its loop that it runs at most once; it runs twice when what the
  current file holds fits neither it nor the next.

Connections (ConnIO): a part of a body that comes in a later read is counted and not
stored (such a put is answered EXPECTED_CRLF, or INSERTED with a part of its body when that
part has a CRLF); a line that fills the buffer leaves the connection in WantEndLine for
ever; a client that leaves in the middle of a body leaves a job in state invalid in
`allJobs`; a write that fails closes nothing. `AllAnswered` exempts scripts with a long
line, and `Fitting` has the answers to a put that is not stored whole.

Loop (EventLoop): with `Backend = "epoll"` no event is ever seen, and `Heard` fails; a
connection whose first interest is refused stays counted; one whose interest is refused
later is never closed by EpollQApply, as `connClose` asks the kernel first
(`RefusedStaysOpen`). `reserve-with-timeout` is
never answered TIMED_OUT while its client stays, for the reason queue_ttr shows. When its
timeout is no number it is answered BAD_FORMAT and waits all the same (prot.go:347-351):
`Reserve` adds the connection for that answer and then for the wait, and as the wait is noted
last the answer is not written before a job comes.

Queue: `bury` and `touch` read their id at the offset of `release`, `kick` and `kick-job`
are always answered BAD_FORMAT, `release` takes its delay for nanoseconds (JobQueue);
delete or reserve-job of a queued job that is not the root of its heap takes the root out
instead (`TakeOut`, ReadyHeap); the second job buried in a tube is not linked (JobLists), so
that delete answers NOT_FOUND for it and reserve-job dereferences nil (`ReserveJobDies`);
`total-jobs` of a tube and of the server is TotalJobsCt, which `delete` lowers
(prot.go:439-441), while doc/protocol.zh-CN.md:455, 483 and 511 define it as the number of
all jobs created; with `Burst = 2` the cursor of
`Take`, which skips an item each time, may pass over the same worker for ever, and
`EveryoneServed` fails (TubeSets).

## Not modelled

`sockWant` of net/linux.go beyond what makes it unreachable, the stub for Windows, partial
writes of a reply, the texts of replies and statistics, the counters of operations
(`OpCt`) and the per-job counters, the readers of numbers and names character by character,
`connTimeout`, `PendingTimeout` and the heap of connections (never run), the interval of
`WalSync` and what a crash of the system would lose (the fault is a crash of the process),
start-up, options, privileges, logging, the lock file, and the garbage collector, on which
depends when a duplicated descriptor and the lock are closed.

## Plan

1. A proof of AliveExact of Wal.
2. A durable set of jobs as the abstract specification of Wal, with the refinement.
3. What JobQueue does after a job has gone astray: which of its properties are left.
4. Partial writes in ConnIO.
