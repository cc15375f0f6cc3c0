------------------------------ MODULE JobQueue ------------------------------
(***************************************************************************)
(* The job queue of gostalkd: the single-threaded event loop of            *)
(* net/serv.go (Start) with the command handlers of net/prot.go, the       *)
(* connections of net/conn.go and the jobs and tubes of core/job.go and    *)
(* core/tube.go, for a server that runs without a binlog.                  *)
(*                                                                         *)
(* Start alternates protTick, which moves the delayed jobs that are due    *)
(* and lifts the pauses that are over, with sockNext, which waits for one  *)
(* event, and with the handler of that event.  `pc' says where the loop    *)
(* is.  A handler is one step taken at "poll"; the three inner loops it or *)
(* protTick may run (processQueue, enqueueReservedJobs, the two loops of   *)
(* protTick) are one step per iteration, and nothing else runs meanwhile.  *)
(*                                                                         *)
(* Time is counted in ticks and kept relative: due[j] and unpauseIn[t] are *)
(* what is left of DeadlineAt and UnpauseAt.  Handlers take no time, and   *)
(* the loop is not late: time stops at the end of the sockNext timeout.    *)
(*                                                                         *)
(* delete and reserve-job of a queued job take out the root of its heap,   *)
(* whatever job it is (TakeOut).  When that is another job, `pc' becomes   *)
(* "astray": from then on a heap holds freed or reserved jobs, or lacks a  *)
(* ready one, and the model ends.  What the code does next is shown by     *)
(* module ReadyHeap.  It ends in "dead" too, when the process does.        *)
(***************************************************************************)
EXTENDS Integers, FiniteSets

CONSTANTS
  Conns, NoConn,      \* connection slots; nil
  Tubes, NoTube,      \* tube names; nil
  Default,            \* the tube "default" that core/tube.go creates
  MaxJobs,            \* bound: ids the clients may use up
  Pris,               \* priorities that clients send
  UrgentThreshold,    \* constant.UrgentThreshold
  Delays,             \* delays of put, in seconds
  RelDelays,          \* delays of release (taken as nanoseconds: one is a tick)
  Ttrs,               \* ttr of put, in seconds
  PauseDelays,        \* delays of pause-tube, in seconds
  Nums,               \* ids as written in bury and touch, at most three digits
  Second,             \* ticks in a second
  DefaultPeriod       \* constant.DefaultPeriod, in ticks

ASSUME ConnsAssumption == IsFiniteSet(Conns) /\ NoConn \notin Conns
ASSUME TubesAssumption == NoTube \notin Tubes /\ Default \in Tubes
ASSUME NumbersAssumption ==
  /\ MaxJobs \in Nat
  /\ Pris \subseteq Nat /\ UrgentThreshold \in Nat
  /\ Delays \subseteq Nat /\ RelDelays \subseteq Nat /\ Ttrs \subseteq Nat
  /\ PauseDelays \subseteq Nat
  /\ Nums \subseteq 0..999
  /\ Second \in Nat \ {0} /\ DefaultPeriod \in Nat \ {0}

Ids == 1..MaxJobs
NoJob == 0
Copy == -1            \* an OutJob that is a copy (peek, stats, list)

\* constant.SafetyMargin is one second.
SafetyMargin == Second

VARIABLES
  jstate,     \* j.R.State; "none": the id is not in allJobs
  pri,        \* j.R.Pri
  jtube,      \* j.Tube
  due,        \* time to DeadlineAt; of an incoming job, its R.Delay
  ttr,        \* j.R.TTR, in ticks
  reservoir,  \* j.Reservoir
  nextId      \* nextJobId

VARIABLES
  tubes,      \* the tubes that exist
  ready,      \* t.Ready, the jobs of the heap
  delay,      \* t.Delay, the jobs of the heap
  buried,     \* the jobs linked into t.Buried
  waiting,    \* t.WaitingConns
  paused,     \* the tubes with Pause > 0
  unpauseIn   \* time to t.UnpauseAt

VARIABLES
  cstate,     \* c.State; "closed": no connection in this slot
  use,        \* c.Use
  watch,      \* c.Watch
  resv,       \* the jobs linked into c.ReservedJobs
  soonest,    \* c.SoonestJob, a cache
  injob,      \* c.InJob
  outjob,     \* c.OutJob
  ctype       \* c.Type

VARIABLES
  pc,         \* where the event loop is; "astray", "dead": the model ends
  closing,    \* the connection whose connClose is under way
  wake,       \* what is left of the timeout given to sockNext
  drain,      \* utils.DrainMode
  gstat,      \* global counters of the statistics
  tstat       \* counters of each tube

jobVars  == <<jstate, pri, jtube, due, ttr, reservoir, nextId>>
tubeVars == <<tubes, ready, delay, buried, waiting, paused, unpauseIn>>
connVars == <<cstate, use, watch, resv, soonest, injob, outjob, ctype>>
loopVars == <<pc, closing, wake, drain>>
statVars == <<gstat, tstat>>
vars == <<jobVars, tubeVars, connVars, loopVars, statVars>>

-----------------------------------------------------------------------------
(***************************************************************************)
(* Order of the heaps and what the loop looks for in them.                 *)
(***************************************************************************)

\* JobPriLess: the smaller priority value first, then the older job.
JobPriLess(a, b) == \/ pri[a] < pri[b]
                    \/ pri[a] = pri[b] /\ a < b

\* JobDelayLess: the earlier deadline first, then the older job.
JobDelayLess(a, b) == \/ due[a] < due[b]
                      \/ due[a] = due[b] /\ a < b

ReadyRoot(t, j) == /\ j \in ready[t]
                   /\ \A k \in ready[t] \ {j} : JobPriLess(j, k)

DelayRoot(t, j) == /\ j \in delay[t]
                   /\ \A k \in delay[t] \ {j} : JobDelayLess(j, k)

\* SoonestDelayedJob: the root with the earliest deadline over all tubes.
SoonestDelayedJob(j) ==
  \E t \in tubes : /\ DelayRoot(t, j)
                   /\ \A u \in tubes, k \in Ids : DelayRoot(u, k) => due[j] <= due[k]

\* A paused tube whose time is not over is passed by.
Blocked(t) == t \in paused /\ unpauseIn[t] > 0

\* Mutants: a tube whose pause is over is not looked at; a heap of one job is empty.
Awaited_NotOnceLifted(t) == t \in tubes \ paused /\ waiting[t] # {} /\ ready[t] # {}
Awaited_OffByOne(t) ==
  t \in tubes /\ ~Blocked(t) /\ waiting[t] # {} /\ \E j, k \in ready[t] : j # k

Awaited(t) == t \in tubes /\ ~Blocked(t) /\ waiting[t] # {} /\ ready[t] # {}

\* Mutant: the roots of different tubes are not compared.
NextAwaitedJob_AnyTube(j) == \E t \in tubes : Awaited(t) /\ ReadyRoot(t, j)

\* NextAwaitedJob: the most urgent root among the tubes that somebody awaits.
NextAwaitedJob(j) ==
  \E t \in tubes : /\ Awaited(t) /\ ReadyRoot(t, j)
                   /\ \A u \in tubes, k \in Ids :
                        (Awaited(u) /\ ReadyRoot(u, k)) => k = j \/ JobPriLess(j, k)

\* Mutant: the first reserved job is taken for the soonest.
SoonestOf_First(S, R, D) ==
  IF S # NoJob THEN {S} ELSE IF R = {} THEN {NoJob} ELSE R

\* The job that connSoonestJob answers, given the cache S, the reserved jobs R
\* and the deadlines D; it is then cached.
SoonestOf(S, R, D) ==
  IF S # NoJob THEN {S}
  ELSE IF R = {} THEN {NoJob}
  ELSE {j \in R : \A k \in R : D[j] <= D[k]}

connDeadLineSoon(c) ==
  \E j \in SoonestOf(soonest[c], resv[c], due) : j # NoJob /\ due[j] <= SafetyMargin

connReady(c) == \E t \in watch[c] : ready[t] # {}

\* Mutants: a tube that is missing is not noticed, or not made.
TubeFind_Unchecked(t) == TRUE
TubeFindOrMake_NotMade(t) == UNCHANGED tubes

\* TubeFind and TubeFindOrMake: a tube is made when it is first named.
TubeFind(t) == t \in tubes
TubeFindOrMake(t) == tubes' = tubes \cup {t}

-----------------------------------------------------------------------------
(***************************************************************************)
(* Pieces of the handlers.                                                 *)
(***************************************************************************)
One(b) == IF b THEN 1 ELSE 0
Urgent(p) == One(p < UrgentThreshold)

\* A handler runs when sockNext returns an event of connection c ...
Event(c, st) == pc = "poll" /\ cstate[c] = st

\* ... and when it returns, Start calls protTick again.
Done == pc' = "tick" /\ UNCHANGED <<closing, wake, drain>>

\* EpollQAdd calls connSched, whose coonTickAt refills the SoonestJob cache.
connSched(c, S, R, D) ==
  \E s \in SoonestOf(S, R, D) : soonest' = [soonest EXCEPT ![c] = s]

\* reply: the next state of c and, through EpollQAdd, its schedule.  S, R and D
\* are the cache, the reserved jobs and the deadlines when it is called.
Reply(c, st, S, R, D) == /\ cstate' = [cstate EXCEPT ![c] = st]
                         /\ connSched(c, S, R, D)

\* A reply by a handler that leaves the reserved jobs of c alone.
Answer(c) == Reply(c, "sendword", soonest[c], resv[c], due)

\* enqueueJob: job j of tube t, with priority p, becomes ready or is delayed by
\* d ticks.  G and T are the counters as the caller has them.  It
\* ends with a call of processQueue.  (A job made ready is in no delay heap: protTick,
\* the one caller that finds it there, has just removed it.)
EnqueueJob(j, t, p, d, G, T) ==
  /\ reservoir' = [reservoir EXCEPT ![j] = NoConn]
  /\ jstate' = [jstate EXCEPT ![j] = IF d > 0 THEN "delayed" ELSE "ready"]
  /\ due' = [due EXCEPT ![j] = d]
  /\ delay' = IF d > 0 THEN [delay EXCEPT ![t] = @ \cup {j}]
                       ELSE [delay EXCEPT ![t] = @ \ {j}]
  /\ ready' = IF d > 0 THEN ready ELSE [ready EXCEPT ![t] = @ \cup {j}]
  /\ gstat' = [G EXCEPT !.ready = @ + One(d <= 0),
                        !.urgent = @ + IF d <= 0 THEN Urgent(p) ELSE 0]
  /\ tstat' = [T EXCEPT ![t].urgent = @ + IF d <= 0 THEN Urgent(p) ELSE 0]
  /\ pc' = "queue"

\* reserveJob and connReserveJob (two copies of the same code) followed by
\* replyJob: c holds j, whose deadline starts now, and is sent its body.
ReserveJob(c, j) ==
  LET D == [due EXCEPT ![j] = ttr[j]]
      s == soonest[c]
  IN /\ jstate' = [jstate EXCEPT ![j] = "reserved"]
     /\ due' = D
     /\ reservoir' = [reservoir EXCEPT ![j] = c]
     /\ resv' = [resv EXCEPT ![c] = @ \cup {j}]
     /\ soonest' = [soonest EXCEPT ![c] =
                      IF s = NoJob \/ D[j] < D[s] THEN j ELSE s]
     /\ outjob' = [outjob EXCEPT ![c] = j]
     /\ cstate' = [cstate EXCEPT ![c] = "sendjob"]

\* Mutant: c leaves the list of the tube it uses only.
RemoveWaitingCoon_Used(c) ==
  waiting' = [t \in Tubes |-> IF t = use[c] THEN waiting[t] \ {c} ELSE waiting[t]]

\* removeWaitingCoon: c leaves the waiting list of every tube it watches.
RemoveWaitingCoon(c) ==
  waiting' = [t \in Tubes |-> IF t \in watch[c] THEN waiting[t] \ {c} ELSE waiting[t]]

\* What removeWaitingCoon (n = -1) and enqueueWaitingConn (n = 1) add to the
\* counters of the watched tubes.
CountWaiting(T, c, n) ==
  [t \in Tubes |-> IF t \in watch[c] THEN [T[t] EXCEPT !.waiting = @ + n] ELSE T[t]]

\* BuryJob passes its arguments to JobListInsert the wrong way round: the tube's
\* list is inserted into the list of j, which does nothing unless it is empty.
BuryList(t, j) == IF buried[t] = {} THEN {j} ELSE buried[t]

\* Mutant: a job taken by its id is left in its heap.
TakeOut_KeepsHeaps(j) ==
  /\ UNCHANGED <<ready, delay>>
  /\ buried' = [buried EXCEPT ![jtube[j]] = @ \ {j}]

\* removeReadyJob, removeBuriedJob and removeDelayedJob.  No code ever calls the
\* setPos functions of the heaps, so every HeapIndex is 0 and
\* Heap.Remove(j.HeapIndex) removes the root of the heap, whatever job j is.
TakeOut(j) ==
  LET t == jtube[j] IN
  /\ ready'  = IF jstate[j] = "ready" THEN [ready EXCEPT ![t] = {k \in @ : ~ReadyRoot(t, k)}]
                                      ELSE ready
  /\ delay'  = IF jstate[j] = "delayed" THEN [delay EXCEPT ![t] = {k \in @ : ~DelayRoot(t, k)}]
                                        ELSE delay
  /\ buried' = [buried EXCEPT ![t] = @ \ {j}]

\* Their effect on the counters.
TakeOutG(j) ==
  [gstat EXCEPT !.ready  = @ - One(jstate[j] = "ready"),
                !.urgent = @ - IF jstate[j] = "ready" THEN Urgent(pri[j]) ELSE 0,
                !.buried = @ - One(jstate[j] = "buried")]

\* Mutant: the urgent jobs of the tube are not counted down.
TakeOutT_KeepsUrgent(j) ==
  [tstat EXCEPT ![jtube[j]].buried = @ - One(jstate[j] = "buried")]

TakeOutT(j) ==
  [tstat EXCEPT ![jtube[j]].urgent = @ - IF jstate[j] = "ready" THEN Urgent(pri[j]) ELSE 0,
                ![jtube[j]].buried = @ - One(jstate[j] = "buried")]

\* One of the remove functions answers j: its state says that it is queued, and a
\* buried job is linked (JobListRemove answers nil for one that is not).
Removable(j) == \/ jstate[j] \in {"ready", "delayed"}
                \/ jstate[j] = "buried" /\ j \in buried[jtube[j]]

\* The job that a remove function takes out of its container is j.
InItsPlace(j) ==
  /\ jstate[j] = "ready" => ReadyRoot(jtube[j], j)
  /\ jstate[j] = "delayed" => DelayRoot(jtube[j], j)

\* The end of a handler that may have taken out another job than j.
DoneWith(j) == /\ pc' = IF InItsPlace(j) THEN "tick" ELSE "astray"
               /\ UNCHANGED <<closing, wake, drain>>

\* Mutant: it is not asked who reserved the job.
isJobReservedByConn_Any(c, j) == j \in Ids /\ jstate[j] = "reserved"

\* isJobReservedByConn
isJobReservedByConn(c, j) == j \in Ids /\ jstate[j] = "reserved" /\ reservoir[j] = c

\* JobFree: the record of j is gone.
JobFree(j) ==
  /\ jstate' = [jstate EXCEPT ![j] = "none"]
  /\ pri' = [pri EXCEPT ![j] = 0]
  /\ jtube' = [jtube EXCEPT ![j] = NoTube]
  /\ due' = [due EXCEPT ![j] = 0]
  /\ ttr' = [ttr EXCEPT ![j] = 0]
  /\ reservoir' = [reservoir EXCEPT ![j] = NoConn]
  /\ UNCHANGED nextId

-----------------------------------------------------------------------------
(***************************************************************************)
(* Connections come and go.                                                *)
(***************************************************************************)
Init ==
  /\ jstate = [j \in Ids |-> "none"]
  /\ pri = [j \in Ids |-> 0]
  /\ jtube = [j \in Ids |-> NoTube]
  /\ due = [j \in Ids |-> 0]
  /\ ttr = [j \in Ids |-> 0]
  /\ reservoir = [j \in Ids |-> NoConn]
  /\ nextId = 1
  /\ tubes = {Default}
  /\ ready = [t \in Tubes |-> {}]
  /\ delay = [t \in Tubes |-> {}]
  /\ buried = [t \in Tubes |-> {}]
  /\ waiting = [t \in Tubes |-> {}]
  /\ paused = {}
  /\ unpauseIn = [t \in Tubes |-> 0]
  /\ cstate = [c \in Conns |-> "closed"]
  /\ use = [c \in Conns |-> NoTube]
  /\ watch = [c \in Conns |-> {}]
  /\ resv = [c \in Conns |-> {}]
  /\ soonest = [c \in Conns |-> NoJob]
  /\ injob = [c \in Conns |-> NoJob]
  /\ outjob = [c \in Conns |-> NoJob]
  /\ ctype = [c \in Conns |-> {}]
  /\ pc = "tick" /\ closing = NoConn /\ wake = 0
  /\ drain = FALSE
  /\ gstat = [ready |-> 0, urgent |-> 0, reserved |-> 0, buried |-> 0, waiting |-> 0,
              jobs |-> 0, conns |-> 0, producers |-> 0, workers |-> 0]
  /\ tstat = [t \in Tubes |-> [urgent |-> 0, reserved |-> 0, buried |-> 0, waiting |-> 0,
                               jobs |-> 0, using |-> 0, watching |-> 0]]

\* hAccept and NewConn.
hAccept(c) ==
  /\ Event(c, "closed")
  /\ cstate' = [cstate EXCEPT ![c] = "wantcommand"]
  /\ use' = [use EXCEPT ![c] = Default]
  /\ watch' = [watch EXCEPT ![c] = {Default}]
  /\ gstat' = [gstat EXCEPT !.conns = @ + 1]
  /\ tstat' = [tstat EXCEPT ![Default].using = @ + 1, ![Default].watching = @ + 1]
  /\ Done
  /\ UNCHANGED <<jobVars, tubeVars, resv, soonest, injob, outjob, ctype>>

\* Mutant: the job that was sent is not forgotten.
connWantCommand_KeepsOutJob(c) ==
  /\ Event(c, "sendword") \/ Event(c, "sendjob")
  /\ Reply(c, "wantcommand", soonest[c], resv[c], due)
  /\ Done
  /\ UNCHANGED <<jobVars, tubeVars, use, watch, resv, injob, outjob, ctype, statVars>>

\* The last byte of a reply is written: connWantCommand.
connWantCommand(c) ==
  /\ Event(c, "sendword") \/ Event(c, "sendjob")
  /\ outjob' = [outjob EXCEPT ![c] = NoJob]
  /\ Reply(c, "wantcommand", soonest[c], resv[c], due)
  /\ Done
  /\ UNCHANGED <<jobVars, tubeVars, use, watch, resv, injob, ctype, statVars>>

\* A client that waits for a job hangs up: it is answered TIMED_OUT.
HangUp(c) ==
  /\ Event(c, "wait")
  /\ RemoveWaitingCoon(c)
  /\ ctype' = [ctype EXCEPT ![c] = @ \ {"waiting"}]
  /\ gstat' = [gstat EXCEPT !.waiting = @ - 1]
  /\ tstat' = CountWaiting(tstat, c, -1)
  /\ Answer(c)
  /\ Done
  /\ UNCHANGED <<jobVars, tubes, ready, delay, buried, paused, unpauseIn,
                 use, watch, resv, injob, outjob>>

\* End of file while a command or a body is read, or quit: connClose.  What is
\* left of an incoming job stays in allJobs.
connClose(c) ==
  /\ Event(c, "wantcommand") \/ Event(c, "wantdata")
  /\ cstate' = [cstate EXCEPT ![c] = "close"]
  /\ injob' = [injob EXCEPT ![c] = NoJob]
  /\ outjob' = [outjob EXCEPT ![c] = NoJob]
  /\ ctype' = [ctype EXCEPT ![c] = {}]
  /\ gstat' = [gstat EXCEPT !.conns = @ - 1,
                            !.producers = @ - One("producer" \in ctype[c]),
                            !.workers = @ - One("worker" \in ctype[c])]
  /\ pc' = "close" /\ closing' = c
  /\ UNCHANGED <<jobVars, tubeVars, use, watch, resv, soonest, wake, drain, tstat>>

\* enqueueReservedJobs gives back one job of the closing connection.
enqueueReservedJobs ==
  /\ pc = "close"
  /\ \E j \in resv[closing] :
       /\ EnqueueJob(j, jtube[j], pri[j], 0,
                     [gstat EXCEPT !.reserved = @ - 1],
                     [tstat EXCEPT ![jtube[j]].reserved = @ - 1])
       /\ resv' = [resv EXCEPT ![closing] = @ \ {j}]
  /\ soonest' = [soonest EXCEPT ![closing] = NoJob]
  /\ UNCHANGED <<pri, jtube, ttr, nextId, tubes, buried, waiting, paused, unpauseIn,
                 cstate, use, watch, injob, outjob, ctype, closing, wake, drain>>

\* Mutant: the tube that is used is not left.
CountLeaving_KeepsUse(c) ==
  [t \in Tubes |-> [tstat[t] EXCEPT !.watching = @ - One(t \in watch[c])]]

\* Watch.Clear calls onIgnore for every watched tube.
CountLeaving(c) ==
  [t \in Tubes |-> [tstat[t] EXCEPT !.watching = @ - One(t \in watch[c]),
                                    !.using = @ - One(t = use[c])]]

\* Mutant: connClose does not wait until every job is given back.
CloseDone_Early ==
  /\ pc = "close"
  /\ tstat' = CountLeaving(closing)
  /\ cstate' = [cstate EXCEPT ![closing] = "closed"]
  /\ watch' = [watch EXCEPT ![closing] = {}]
  /\ use' = [use EXCEPT ![closing] = NoTube]
  /\ pc' = "tick" /\ closing' = NoConn
  /\ UNCHANGED <<jobVars, tubeVars, resv, soonest, injob, outjob, ctype, wake, drain, gstat>>

\* The rest of connClose.
CloseDone ==
  /\ pc = "close" /\ resv[closing] = {}
  /\ tstat' = CountLeaving(closing)
  /\ cstate' = [cstate EXCEPT ![closing] = "closed"]
  /\ watch' = [watch EXCEPT ![closing] = {}]
  /\ use' = [use EXCEPT ![closing] = NoTube]
  /\ pc' = "tick" /\ closing' = NoConn
  /\ UNCHANGED <<jobVars, tubeVars, resv, soonest, injob, outjob, ctype, wake, drain, gstat>>

-----------------------------------------------------------------------------
(***************************************************************************)
(* Commands that put jobs in.                                              *)
(***************************************************************************)

\* connSetProducer
SetProducer(c) == ctype' = [ctype EXCEPT ![c] = @ \cup {"producer"}]
SetProducerG(c, G) == [G EXCEPT !.producers = @ + One("producer" \notin ctype[c])]

\* MakeJobWithID: the next id, in allJobs, in state Invalid, in the tube used.
\* ReadDuration turns seconds into ticks; a ttr below one second becomes one.
MinTtr(n) == IF n < 1 THEN Second ELSE n * Second

MakeJobWithID(c, p, n) ==
  /\ nextId \in Ids
  /\ nextId' = nextId + 1
  /\ pri' = [pri EXCEPT ![nextId] = p]
  /\ jtube' = [jtube EXCEPT ![nextId] = use[c]]
  /\ ttr' = [ttr EXCEPT ![nextId] = MinTtr(n)]

\* enqueueInComingJob when the body ends in CRLF and the server does not drain:
\* the job is enqueued and counted, and the producer is told its id.
EnqueueInComingJob(c, j, t, p, d, G) ==
  /\ EnqueueJob(j, t, p, d, [G EXCEPT !.jobs = @ + 1],
                [tstat EXCEPT ![t].jobs = @ + 1])
  /\ Answer(c)

\* put whose body came with the command line.
dispatchOpPut(c, p, d, n) ==
  /\ Event(c, "wantcommand") /\ ~drain
  /\ MakeJobWithID(c, p, n)
  /\ SetProducer(c)
  /\ EnqueueInComingJob(c, nextId, use[c], p, d * Second, SetProducerG(c, gstat))
  /\ UNCHANGED <<tubes, buried, waiting, paused, unpauseIn, use, watch, resv, injob, outjob,
                 closing, wake, drain>>

\* put whose body is still to come, in whole or in part.
PutHeader(c, p, d, n) ==
  /\ Event(c, "wantcommand")
  /\ MakeJobWithID(c, p, n)
  /\ SetProducer(c)
  /\ gstat' = SetProducerG(c, gstat)
  /\ jstate' = [jstate EXCEPT ![nextId] = "invalid"]
  /\ due' = [due EXCEPT ![nextId] = d * Second]
  /\ injob' = [injob EXCEPT ![c] = nextId]
  /\ cstate' = [cstate EXCEPT ![c] = "wantdata"]
  /\ Done
  /\ UNCHANGED <<reservoir, tubeVars, use, watch, resv, soonest, outjob, tstat>>

\* put whose body came along but is refused: EXPECTED_CRLF, or DRAINING.
PutRefused(c) ==
  /\ Event(c, "wantcommand")
  /\ nextId \in Ids /\ nextId' = nextId + 1
  /\ SetProducer(c)
  /\ gstat' = SetProducerG(c, gstat)
  /\ Answer(c)
  /\ Done
  /\ UNCHANGED <<jstate, pri, jtube, due, ttr, reservoir, tubeVars, use, watch, resv,
                 injob, outjob, tstat>>

\* The last byte of a body arrives.  Whether the CRLF is found depends on what
\* came with the command line, since the later parts are not kept.
BodyComplete(c) ==
  /\ Event(c, "wantdata") /\ ~drain
  /\ EnqueueInComingJob(c, injob[c], jtube[injob[c]], pri[injob[c]], due[injob[c]], gstat)
  /\ injob' = [injob EXCEPT ![c] = NoJob]
  /\ UNCHANGED <<pri, jtube, ttr, nextId, tubes, buried, waiting, paused, unpauseIn, use, watch,
                 resv, outjob, ctype, closing, wake, drain>>

\* ... and the job is refused and freed.
BodyRefused(c) ==
  /\ Event(c, "wantdata")
  /\ JobFree(injob[c])
  /\ injob' = [injob EXCEPT ![c] = NoJob]
  /\ Answer(c)
  /\ Done
  /\ UNCHANGED <<tubeVars, use, watch, resv, outjob, ctype, statVars>>

-----------------------------------------------------------------------------
(***************************************************************************)
(* Commands that reserve jobs.                                             *)
(***************************************************************************)

\* connSetWorker
SetWorkerG(c, G) == [G EXCEPT !.workers = @ + One("worker" \notin ctype[c])]

\* reserve, or reserve-with-timeout: the timeout is kept for connTimeout, which
\* is never called.  c waits in every tube it watches.
dispatchOpReserve(c) ==
  /\ Event(c, "wantcommand")
  /\ ~(connDeadLineSoon(c) /\ ~connReady(c))
  /\ ctype' = [ctype EXCEPT ![c] = @ \cup {"worker", "waiting"}]
  /\ waiting' = [t \in Tubes |-> IF t \in watch[c] THEN waiting[t] \cup {c} ELSE waiting[t]]
  /\ gstat' = [SetWorkerG(c, gstat) EXCEPT !.waiting = @ + 1]
  /\ tstat' = CountWaiting(tstat, c, 1)
  /\ Reply(c, "wait", soonest[c], resv[c], due)
  /\ pc' = "queue"
  /\ UNCHANGED <<jobVars, tubes, ready, delay, buried, paused, unpauseIn, use, watch, resv,
                 injob, outjob, closing, wake, drain>>

\* The same, answered DEADLINE_SOON.
DeadlineSoon(c) ==
  /\ Event(c, "wantcommand")
  /\ connDeadLineSoon(c) /\ ~connReady(c)
  /\ ctype' = [ctype EXCEPT ![c] = @ \cup {"worker"}]
  /\ gstat' = SetWorkerG(c, gstat)
  /\ Answer(c)
  /\ Done
  /\ UNCHANGED <<jobVars, tubeVars, use, watch, resv, injob, outjob, tstat>>

\* reserve-job of a job that no connection holds.
dispatchOpReserveJob(c, j) ==
  /\ Event(c, "wantcommand")
  /\ Removable(j)
  /\ TakeOut(j)
  /\ ReserveJob(c, j)
  /\ ctype' = [ctype EXCEPT ![c] = @ \cup {"worker"}]
  /\ gstat' = [SetWorkerG(c, TakeOutG(j)) EXCEPT !.reserved = @ + 1]
  /\ tstat' = [TakeOutT(j) EXCEPT ![jtube[j]].reserved = @ + 1]
  /\ DoneWith(j)
  /\ UNCHANGED <<pri, jtube, ttr, nextId, tubes, waiting, paused, unpauseIn, use, watch, injob>>

\* reserve-job of a buried job that is not linked: removeBuriedJob answers nil, which
\* is not looked at, connReserveJob dereferences it, and nobody recovers.
ReserveJobDies(c, j) ==
  /\ Event(c, "wantcommand")
  /\ jstate[j] = "buried" /\ ~Removable(j)
  /\ pc' = "dead"
  /\ UNCHANGED <<jobVars, tubeVars, connVars, closing, wake, drain, statVars>>

-----------------------------------------------------------------------------
(***************************************************************************)
(* Commands on a job, by its id.                                           *)
(***************************************************************************)

\* delete of a job that c holds or that no connection holds.  (For a buried job that
\* is not linked it answers NOT_FOUND, which is Refused.)
dispatchOpDelete(c, j) ==
  LET held == isJobReservedByConn(c, j) IN
  /\ Event(c, "wantcommand")
  /\ held \/ Removable(j)
  /\ TakeOut(j)
  /\ resv' = [resv EXCEPT ![c] = @ \ {j}]
  /\ gstat' = [TakeOutG(j) EXCEPT !.reserved = @ - One(held), !.jobs = @ - 1]
  /\ tstat' = [TakeOutT(j) EXCEPT ![jtube[j]].reserved = @ - One(held),
                                  ![jtube[j]].jobs = @ - 1]
  /\ JobFree(j)
  /\ Reply(c, "sendword", IF held THEN NoJob ELSE soonest[c], resv[c] \ {j}, due)
  /\ DoneWith(j)
  /\ UNCHANGED <<tubes, waiting, paused, unpauseIn, use, watch, injob, outjob, ctype>>

\* release: with a new priority and a delay, read by ReadInt, of d nanoseconds.
dispatchOpRelease(c, j, p, d) ==
  /\ Event(c, "wantcommand")
  /\ isJobReservedByConn(c, j)
  /\ pri' = [pri EXCEPT ![j] = p]
  /\ EnqueueJob(j, jtube[j], p, d, [gstat EXCEPT !.reserved = @ - 1],
                [tstat EXCEPT ![jtube[j]].reserved = @ - 1])
  /\ resv' = [resv EXCEPT ![c] = @ \ {j}]
  /\ Reply(c, "sendword", NoJob, resv[c] \ {j}, due)
  /\ UNCHANGED <<jtube, ttr, nextId, tubes, buried, waiting, paused, unpauseIn, use, watch,
                 injob, outjob, ctype, closing, wake, drain>>

\* bury and touch start to read the id at the length of "release": two digits of
\* what the client wrote are lost to bury, one to touch.
BuryId(n) == IF n < 100 THEN NoJob ELSE n % 10
TouchId(n) == IF n < 10 THEN NoJob ELSE IF n < 100 THEN n % 10 ELSE n % 100

\* bury of the job that the client's n is taken for.
dispatchOpBury(c, n, p) ==
  LET j == BuryId(n)
      t == jtube[j] IN
  /\ Event(c, "wantcommand")
  /\ isJobReservedByConn(c, j)
  /\ pri' = [pri EXCEPT ![j] = p]
  /\ jstate' = [jstate EXCEPT ![j] = "buried"]
  /\ due' = [due EXCEPT ![j] = 0]
  /\ reservoir' = [reservoir EXCEPT ![j] = NoConn]
  /\ resv' = [resv EXCEPT ![c] = @ \ {j}]
  /\ buried' = [buried EXCEPT ![t] = BuryList(t, j)]
  /\ gstat' = [gstat EXCEPT !.reserved = @ - 1, !.buried = @ + 1]
  /\ tstat' = [tstat EXCEPT ![t].reserved = @ - 1, ![t].buried = @ + 1]
  /\ Reply(c, "sendword", NoJob, resv[c] \ {j}, due)
  /\ Done
  /\ UNCHANGED <<jtube, ttr, nextId, tubes, ready, delay, waiting, paused, unpauseIn, use, watch,
                 injob, outjob, ctype>>

\* touch: touchJob restarts the deadline and drops the cache, which the reply
\* refills.
dispatchOpTouch(c, n) ==
  LET j == TouchId(n)
      D == [due EXCEPT ![j] = ttr[j]] IN
  /\ Event(c, "wantcommand")
  /\ isJobReservedByConn(c, j)
  /\ due' = D
  /\ Reply(c, "sendword", NoJob, resv[c], D)
  /\ Done
  /\ UNCHANGED <<jstate, pri, jtube, ttr, reservoir, nextId, tubeVars, use, watch, resv, injob,
                 outjob, ctype, statVars>>

-----------------------------------------------------------------------------
(***************************************************************************)
(* Commands that leave the jobs alone.                                     *)
(***************************************************************************)
Quiet ==
  /\ Done
  /\ UNCHANGED <<jobVars, tubeVars, use, watch, resv, injob, ctype, statVars>>

\* An answer of one line.
SendWord(c) == Answer(c) /\ UNCHANGED outjob /\ Quiet

\* A copy (JobCopy, or the text of doStats and doListTubes) is sent as a job.
SendCopy(c) ==
  /\ Reply(c, "sendjob", soonest[c], resv[c], due)
  /\ outjob' = [outjob EXCEPT ![c] = Copy]
  /\ Quiet

\* A command that changes nothing: malformed, unknown, refused, or naming a job
\* or a tube that is not there.  kick and kick-job are always answered
\* BAD_FORMAT: one parses the blank before its number, the other starts to read
\* inside its own name.
Refused(c) == Event(c, "wantcommand") /\ SendWord(c)

dispatchOpPeekReady(c) ==
  Event(c, "wantcommand") /\ ready[use[c]] # {} /\ SendCopy(c)

dispatchOpPeekDelayed(c) ==
  Event(c, "wantcommand") /\ delay[use[c]] # {} /\ SendCopy(c)

dispatchOpPeekBuried(c) ==
  Event(c, "wantcommand") /\ buried[use[c]] # {} /\ SendCopy(c)

dispatchOpPeekJob(c, j) ==
  Event(c, "wantcommand") /\ jstate[j] # "none" /\ SendCopy(c)

\* stats, stats-tube, list-tubes and list-tubes-watched.
doStats(c) == Event(c, "wantcommand") /\ SendCopy(c)

CountUsing(c, t) ==
  [u \in Tubes |-> [tstat[u] EXCEPT !.using = @ + One(u = t) - One(u = use[c])]]

dispatchOpUse(c, t) ==
  /\ Event(c, "wantcommand")
  /\ TubeFindOrMake(t)
  /\ use' = [use EXCEPT ![c] = t]
  /\ tstat' = CountUsing(c, t)
  /\ Answer(c)
  /\ Done
  /\ UNCHANGED <<jobVars, ready, delay, buried, waiting, paused, unpauseIn, watch, resv, injob,
                 outjob, ctype, gstat>>

dispatchOpWatch(c, t) ==
  /\ Event(c, "wantcommand")
  /\ TubeFindOrMake(t)
  /\ watch' = [watch EXCEPT ![c] = @ \cup {t}]
  /\ tstat' = [tstat EXCEPT ![t].watching = @ + One(t \notin watch[c])]
  /\ Answer(c)
  /\ Done
  /\ UNCHANGED <<jobVars, ready, delay, buried, waiting, paused, unpauseIn, use, resv, injob,
                 outjob, ctype, gstat>>

\* The last watched tube cannot be ignored (NOT_IGNORED).
dispatchOpIgnore(c, t) ==
  /\ Event(c, "wantcommand")
  /\ t \in watch[c] /\ watch[c] # {t}
  /\ watch' = [watch EXCEPT ![c] = @ \ {t}]
  /\ tstat' = [tstat EXCEPT ![t].watching = @ - 1]
  /\ Answer(c)
  /\ Done
  /\ UNCHANGED <<jobVars, tubeVars, use, resv, injob, outjob, ctype, gstat>>

\* pause-tube: a pause of zero seconds is made one nanosecond.
dispatchOpPauseTube(c, t, n) ==
  /\ Event(c, "wantcommand")
  /\ TubeFind(t)
  /\ unpauseIn' = [unpauseIn EXCEPT ![t] = IF n = 0 THEN 1 ELSE n * Second]
  /\ paused' = paused \cup {t}
  /\ Answer(c)
  /\ Done
  /\ UNCHANGED <<jobVars, tubes, ready, delay, buried, waiting, use, watch, resv, injob, outjob,
                 ctype, statVars>>

-----------------------------------------------------------------------------
(***************************************************************************)
(* The event loop.                                                         *)
(***************************************************************************)

\* NextAwaitedJob lifts the pauses that are over, whatever it returns.
LiftPauses == paused' = {t \in paused : unpauseIn[t] > 0}

\* One iteration of processQueue: the most urgent awaited job goes to a
\* connection that waits in its tube (WaitingConns.Take rotates among them).
processQueue ==
  /\ pc = "queue"
  /\ LiftPauses
  /\ \E j \in Ids :
       /\ NextAwaitedJob(j)
       /\ ready' = [ready EXCEPT ![jtube[j]] = @ \ {j}]
       /\ \E c \in waiting[jtube[j]] :
            /\ RemoveWaitingCoon(c)
            /\ ctype' = [ctype EXCEPT ![c] = @ \ {"waiting"}]
            /\ ReserveJob(c, j)
            /\ gstat' = [gstat EXCEPT !.ready = @ - 1, !.urgent = @ - Urgent(pri[j]),
                                      !.reserved = @ + 1, !.waiting = @ - 1]
            /\ tstat' = [CountWaiting(tstat, c, -1)
                           EXCEPT ![jtube[j]].urgent = @ - Urgent(pri[j]),
                                  ![jtube[j]].reserved = @ + 1]
  /\ UNCHANGED <<pri, jtube, ttr, nextId, tubes, delay, buried, unpauseIn, use, watch, injob,
                 loopVars>>

\* No job is awaited: processQueue returns to enqueueReservedJobs, or to protTick,
\* which called it or is called next.
ProcessQueueReturns ==
  /\ pc = "queue"
  /\ ~\E t \in tubes : Awaited(t)
  /\ LiftPauses
  /\ pc' = IF closing # NoConn THEN "close" ELSE "tick"
  /\ UNCHANGED <<jobVars, tubes, ready, delay, buried, waiting, unpauseIn, connVars,
                 closing, wake, drain, statVars>>

\* Mutant: a job is due only when its deadline lies behind.
Due_Strictly(j) == SoonestDelayedJob(j) /\ due[j] < 0

\* First loop of protTick: a delayed job is due.
Due(j) == SoonestDelayedJob(j) /\ due[j] <= 0

TickDelayed ==
  /\ pc = "tick"
  /\ \E j \in Ids :
       /\ Due(j)
       /\ EnqueueJob(j, jtube[j], pri[j], 0, gstat, tstat)
  /\ UNCHANGED <<pri, jtube, ttr, nextId, tubes, buried, waiting, paused, unpauseIn, connVars,
                 closing, wake, drain>>

\* Mutant: it is not asked whether the tube is paused at all.
PauseOver_NeverPaused(t) == unpauseIn[t] <= 0

\* Second loop of protTick, once no job is due: the pause of a tube is over.
PauseOver(t) == t \in paused /\ unpauseIn[t] <= 0

TickPaused ==
  /\ pc = "tick"
  /\ ~\E j \in Ids : Due(j)
  /\ \E t \in tubes : PauseOver(t) /\ paused' = paused \ {t}
  /\ pc' = "queue"
  /\ UNCHANGED <<jobVars, tubes, ready, delay, buried, waiting, unpauseIn, connVars,
                 closing, wake, drain, statVars>>

\* Mutant: the delays are forgotten.
Periods_NoDelays ==
  {DefaultPeriod} \cup {unpauseIn[t] : t \in {u \in tubes : unpauseIn[u] > 0}}

\* What protTick answers is the least of these.
Periods == {DefaultPeriod} \cup {due[j] : j \in UNION {delay[t] : t \in tubes}}
                           \cup {unpauseIn[t] : t \in {u \in tubes : unpauseIn[u] > 0}}

\* The third loop of protTick never runs (its condition is i > i), so connTimeout
\* is never called: protTick returns and sockNext waits.
TickDone ==
  /\ pc = "tick"
  /\ ~\E j \in Ids : Due(j)
  /\ ~\E t \in tubes : PauseOver(t)
  /\ wake' \in {w \in Periods : \A x \in Periods : w <= x}
  /\ pc' = "poll"
  /\ UNCHANGED <<jobVars, tubeVars, connVars, closing, drain, statVars>>

\* A tick passes while sockNext waits.
Dec(x) == IF x > 0 THEN x - 1 ELSE 0

Clock ==
  /\ pc = "poll" /\ wake > 0
  /\ wake' = wake - 1
  /\ due' = [j \in Ids |-> IF jstate[j] \in {"delayed", "reserved"} THEN Dec(due[j]) ELSE due[j]]
  /\ unpauseIn' = [t \in Tubes |-> Dec(unpauseIn[t])]
  /\ UNCHANGED <<jstate, pri, jtube, ttr, reservoir, nextId,
                 tubes, ready, delay, buried, waiting, paused,
                 connVars, pc, closing, drain, statVars>>

\* sockNext times out.
Timeout ==
  /\ pc = "poll" /\ wake = 0
  /\ Done
  /\ UNCHANGED <<jobVars, tubeVars, connVars, statVars>>

\* A job went astray or the process died: the model ends here.
Ended == pc \in {"astray", "dead"}
End == Ended /\ UNCHANGED vars

\* SIGUSR1, in a goroutine of its own: enterDrainMode.
enterDrainMode ==
  /\ ~drain /\ drain' = TRUE
  /\ UNCHANGED <<jobVars, tubeVars, connVars, pc, closing, wake, statVars>>

\* Steps the server takes by itself.
Server == \/ enqueueReservedJobs \/ CloseDone
          \/ processQueue \/ ProcessQueueReturns
          \/ TickDelayed \/ TickPaused \/ TickDone
          \/ Timeout

\* Handlers of the events of a connection.
Client(c) ==
  \/ hAccept(c) \/ connWantCommand(c) \/ HangUp(c) \/ connClose(c)
  \/ \E p \in Pris, d \in Delays, n \in Ttrs :
       dispatchOpPut(c, p, d, n) \/ PutHeader(c, p, d, n)
  \/ PutRefused(c) \/ BodyComplete(c) \/ BodyRefused(c)
  \/ dispatchOpReserve(c) \/ DeadlineSoon(c)
  \/ \E j \in Ids : \/ dispatchOpReserveJob(c, j) \/ ReserveJobDies(c, j)
                    \/ dispatchOpDelete(c, j) \/ dispatchOpPeekJob(c, j)
  \/ \E j \in Ids, p \in Pris, d \in RelDelays : dispatchOpRelease(c, j, p, d)
  \/ \E n \in Nums, p \in Pris : dispatchOpBury(c, n, p)
  \/ \E n \in Nums : dispatchOpTouch(c, n)
  \/ Refused(c) \/ doStats(c)
  \/ dispatchOpPeekReady(c) \/ dispatchOpPeekDelayed(c) \/ dispatchOpPeekBuried(c)
  \/ \E t \in Tubes : dispatchOpUse(c, t) \/ dispatchOpWatch(c, t) \/ dispatchOpIgnore(c, t)
  \/ \E t \in Tubes, n \in PauseDelays : dispatchOpPauseTube(c, t, n)

Step == Server \/ Clock \/ enterDrainMode \/ \E c \in Conns : Client(c)

Next == (~Ended /\ Step) \/ End

Spec == Init /\ [][Next]_vars

\* The loop never stops by itself, and time passes however busy the clients keep
\* it; nothing is assumed of the clients.
FairSpec == Spec /\ WF_vars(Server) /\ SF_vars(Clock)

-----------------------------------------------------------------------------
(***************************************************************************)
(* Properties.                                                             *)
(***************************************************************************)
JobStates == {"none", "invalid", "ready", "reserved", "delayed", "buried"}
ConnStates == {"closed", "wantcommand", "wantdata", "sendword", "sendjob", "wait", "close"}
JobTypes ==
  /\ jstate \in [Ids -> JobStates]
  /\ pri \in [Ids -> Nat]
  /\ jtube \in [Ids -> Tubes \cup {NoTube}]
  /\ due \in [Ids -> Nat]
  /\ ttr \in [Ids -> Nat]
  /\ reservoir \in [Ids -> Conns \cup {NoConn}]
  /\ nextId \in 1..(MaxJobs + 1)

TubeTypes ==
  /\ tubes \subseteq Tubes
  /\ ready \in [Tubes -> SUBSET Ids]
  /\ delay \in [Tubes -> SUBSET Ids]
  /\ buried \in [Tubes -> SUBSET Ids]
  /\ waiting \in [Tubes -> SUBSET Conns]
  /\ paused \subseteq tubes
  /\ unpauseIn \in [Tubes -> Nat]

ConnTypes ==
  /\ cstate \in [Conns -> ConnStates]
  /\ use \in [Conns -> Tubes \cup {NoTube}]
  /\ watch \in [Conns -> SUBSET Tubes]
  /\ resv \in [Conns -> SUBSET Ids]
  /\ soonest \in [Conns -> Ids \cup {NoJob}]
  /\ injob \in [Conns -> Ids \cup {NoJob}]
  /\ outjob \in [Conns -> Ids \cup {NoJob, Copy}]
  /\ ctype \in [Conns -> SUBSET {"producer", "worker", "waiting"}]

LoopTypes ==
  /\ pc \in {"poll", "tick", "queue", "close", "astray", "dead"}
  /\ closing \in Conns \cup {NoConn}
  /\ wake \in Nat
  /\ drain \in BOOLEAN

\* Every variable holds a value of the kind its Go field can hold.  (The counters
\* are pinned by StatsExact, below.)
TypeOK == JobTypes /\ TubeTypes /\ ConnTypes /\ LoopTypes

\* How the pieces hang together, which the other properties rest on: ids are used
\* once, everything alive is in a tube that exists, an incoming job belongs to the
\* one connection that reads it, and only the closing connection is closing.
Housekeeping ==
  /\ Default \in tubes
  /\ \A j \in Ids : /\ j >= nextId => jstate[j] = "none"
                    /\ jstate[j] # "none" => jtube[j] \in tubes
  /\ \A c \in Conns :
       /\ watch[c] \subseteq tubes
       /\ cstate[c] # "closed" => use[c] \in tubes
       /\ IF cstate[c] = "wantdata" THEN injob[c] \in Ids /\ jstate[injob[c]] = "invalid"
                                    ELSE injob[c] = NoJob
       /\ \A b \in Conns : injob[b] = injob[c] /\ injob[c] # NoJob => b = c
       /\ cstate[c] = "close" <=> c = closing
  /\ pc \in {"poll", "tick"} => closing = NoConn
  /\ pc = "close" => closing # NoConn

Placed ==
  \A j \in Ids, t \in Tubes :
    /\ j \in ready[t] <=> jstate[j] = "ready" /\ jtube[j] = t
    /\ j \in delay[t] <=> jstate[j] = "delayed" /\ jtube[j] = t
    /\ j \in buried[t] => jstate[j] = "buried" /\ jtube[j] = t

HeldOnce ==
  \A j \in Ids, c \in Conns : j \in resv[c] <=> jstate[j] = "reserved" /\ reservoir[j] = c

\* As long as no job has gone astray (delete and reserve-job take the root out of a
\* heap, whatever job is named), a job is in the heap its state names, in the heap of
\* its own tube, and in no other container; a job that a tube links as buried is
\* buried, and its own.
JobsPlaced == pc # "astray" => Placed

\* As long as no job has gone astray, a connection holds the jobs whose Reservoir it
\* is, and no others: no two workers run the same job.  (A job that is astray in the
\* ready heap after reserve-job is handed to a second worker: module ReadyHeap.)
ReservedOnce == pc # "astray" => HeldOnce

\* A job is not left reserved by a connection that is gone: connClose gives back
\* all of them before it returns.
NoOrphans ==
  \A j \in Ids : jstate[j] = "reserved" =>
    reservoir[j] \in Conns /\ cstate[reservoir[j]] # "closed"

\* The waiting lists of the tubes agree with what the connections are doing: a
\* connection that got its job, hung up or closed is in none of them.
WaitersAreWaiting ==
  \A c \in Conns, t \in Tubes :
    /\ c \in waiting[t] <=> cstate[c] = "wait" /\ t \in watch[c]
    /\ cstate[c] = "wait" <=> "waiting" \in ctype[c]

\* Outside of processQueue no job lies ready in a tube that is not paused while a
\* worker waits for that tube, whichever step made the one or the other.
WorkConserving ==
  pc # "queue" => \A t \in Tubes \ paused : waiting[t] = {} \/ ready[t] = {}

\* The SoonestJob cache is never stale: it names a held job with the earliest
\* deadline, after any sequence of reserve, touch, release, bury and delete.
SoonestFresh ==
  \A c \in Conns : c # closing =>
    IF resv[c] = {} THEN soonest[c] = NoJob
    ELSE /\ soonest[c] \in resv[c]
         /\ \A j \in resv[c] : due[soonest[c]] <= due[j]

\* The job whose body is being written to a client is a copy, or is held by that
\* client: no other client can free or change it meanwhile.
OutJobHeld ==
  \A c \in Conns :
    /\ cstate[c] = "sendjob" => outjob[c] = Copy \/ outjob[c] \in resv[c]
    /\ cstate[c] # "sendjob" => outjob[c] = NoJob

\* The loop never sleeps past the end of a delay or of a pause.
TimelyWake ==
  pc = "poll" => /\ \A t \in Tubes : \A j \in delay[t] : wake <= due[j]
                 /\ \A t \in paused : wake <= unpauseIn[t]

InState(s) == {j \in Ids : jstate[j] = s}
UrgentReady == {j \in InState("ready") : pri[j] < UrgentThreshold}
OfTube(t, S) == {j \in S : jtube[j] = t}

\* The statistics count what is there: every counter of a present number that is
\* raised by one handler and lowered by another comes out even.  (total-jobs is
\* documented as the number of jobs ever created and is lowered by delete; no claim is
\* made of it.)
StatsExact ==
  /\ gstat.ready = Cardinality(InState("ready"))
  /\ gstat.urgent = Cardinality(UrgentReady)
  /\ gstat.reserved = Cardinality(InState("reserved"))
  /\ gstat.buried = Cardinality(InState("buried"))
  /\ gstat.waiting = Cardinality({c \in Conns : cstate[c] = "wait"})
  /\ gstat.conns = Cardinality({c \in Conns : cstate[c] \notin {"closed", "close"}})
  /\ gstat.producers = Cardinality({c \in Conns : "producer" \in ctype[c]})
  /\ gstat.workers = Cardinality({c \in Conns : "worker" \in ctype[c]})
  /\ \A t \in Tubes :
       /\ tstat[t].urgent = Cardinality(OfTube(t, UrgentReady))
       /\ tstat[t].reserved = Cardinality(OfTube(t, InState("reserved")))
       /\ tstat[t].buried = Cardinality(OfTube(t, InState("buried")))
       /\ tstat[t].waiting = Cardinality(waiting[t])
       /\ tstat[t].using = Cardinality({c \in Conns : use[c] = t})
       /\ tstat[t].watching = Cardinality({c \in Conns : t \in watch[c]})

\* A waiting worker is never handed a job while a more urgent one lies ready in a
\* tube it watches that is not paused.
MostUrgentFirst ==
  [][\A c \in Conns :
       cstate[c] = "wait" /\ cstate'[c] = "sendjob" =>
         \A t \in watch[c] : ~Blocked(t) =>
           \A k \in ready[t] : ~JobPriLess(k, outjob'[c])]_vars

\* What the server promises of its jobs, read off the containers that hold them.
Promise == INSTANCE WorkQueue WITH
  Jobs <- Ids, Workers <- Conns,
  fresh <- {j \in Ids : j >= nextId},
  arriving <- InState("invalid"),
  ready <- UNION {ready[t] : t \in Tubes},
  delayed <- UNION {delay[t] : t \in Tubes},
  buried <- InState("buried"),
  held <- resv,
  astray <- pc = "astray"

\* As long as no job has gone astray, every step of the server moves at most one job,
\* from the one place where it is to one other: no accepted job is lost, copied, or
\* taken from its holder.  A delete or a reserve-job of a job that is not the root of
\* its heap ends the promise (Promise!GoAstray).
KeepsPromise == Promise!Spec

\* A delayed job does not stay delayed: its delay ends, or a client takes it, unless
\* a job goes astray or the process dies of a reserve-job.
DelayEnds == \A j \in Ids : jstate[j] = "delayed" ~> jstate[j] # "delayed" \/ Ended

\* The loop always gets back to its events: processQueue, protTick and connClose
\* terminate, whatever the queues hold, as long as no job has gone astray.
LoopReturns == pc \in {"tick", "queue", "close"} ~> pc = "poll"

Overdue(j) == jstate[j] = "reserved" /\ due[j] = 0

\* The documented time to run: a reserved job whose time is over does not stay with
\* its worker, unless the worker touches it.
TtrEnds == \A j \in Ids : Overdue(j) ~> ~Overdue(j)
=============================================================================
