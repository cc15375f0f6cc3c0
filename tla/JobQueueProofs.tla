--------------------------- MODULE JobQueueProofs ---------------------------
(***************************************************************************)
(* Theorems about JobQueue, for every set of connections, tubes and ids    *)
(* and every choice of priorities, delays and times.                       *)
(*                                                                         *)
(* First, where jobs are.  The inductive invariant is IndInv: none of its  *)
(* parts is inductive alone, and all of them rest on Housekeeping (a       *)
(* handler finds its job in the heap of a tube that exists, and an id that *)
(* is handed out is not in use).  JobsPlaced says nothing of a state with  *)
(* a job astray, but no step leaves such a state: Sound, with Placed in    *)
(* place of JobsPlaced, is what the lemmas about single steps assume       *)
(* (StepFinds).                                                            *)
(*                                                                         *)
(* Then, what a client can count on: the server implements WorkQueue, the  *)
(* job that is sent is held by its reader, the cache of the soonest job is *)
(* fresh, the loop wakes in time, and a worker gets the most urgent job.   *)
(* OutJobHeld and TimelyWake are inductive relative to Sound;             *)
(* SoonestFresh is not, since it says nothing of the connection that       *)
(* closes, and is strengthened to SoonestInv.                              *)
(*                                                                         *)
(* Last, the statistics: StatInv, relative to Sound.                      *)
(***************************************************************************)
EXTENDS JobQueue, FiniteSetTheorems, WellFoundedInduction, TLAPS

IndInv == /\ TypeOK /\ Housekeeping /\ JobsPlaced /\ HeldOnce /\ NoOrphans
          /\ WaitersAreWaiting /\ WorkConserving

\* What a step finds: no job is astray yet, or there would be no step.
Sound == /\ TypeOK /\ Housekeeping /\ Placed /\ HeldOnce /\ NoOrphans
         /\ WaitersAreWaiting /\ WorkConserving

LEMMA StepFinds ==
  ASSUME IndInv, [Next]_vars
  PROVE  (Sound /\ Step) \/ UNCHANGED vars
  BY DEF IndInv, Sound, JobsPlaced, Next, End, Ended

-----------------------------------------------------------------------------
(***************************************************************************)
(* The steps that move a job from one container to another, and the frame  *)
(* that all other steps leave alone.                                       *)
(***************************************************************************)
placeVars == <<jstate, jtube, reservoir, ready, delay, buried, resv>>

Mover(c) ==
  \/ \E p \in Pris, d \in Delays, n \in Ttrs :
       dispatchOpPut(c, p, d, n) \/ PutHeader(c, p, d, n)
  \/ BodyComplete(c) \/ BodyRefused(c)
  \/ \E j \in Ids : dispatchOpReserveJob(c, j) \/ dispatchOpDelete(c, j)
  \/ \E j \in Ids, p \in Pris, d \in RelDelays : dispatchOpRelease(c, j, p, d)
  \/ \E n \in Nums, p \in Pris : dispatchOpBury(c, n, p)

MoveJob == \/ enqueueReservedJobs \/ processQueue \/ TickDelayed
           \/ \E c \in Conns : Mover(c)

\* Commands that answer at once and change nothing but the connection.
Reader(c) ==
  \/ Refused(c) \/ doStats(c) \/ \E j \in Ids : dispatchOpPeekJob(c, j)
  \/ dispatchOpPeekReady(c) \/ dispatchOpPeekDelayed(c) \/ dispatchOpPeekBuried(c)

\* The other handlers of a connection.
Talker(c) ==
  \/ hAccept(c) \/ connWantCommand(c) \/ HangUp(c) \/ connClose(c) \/ PutRefused(c)
  \/ dispatchOpReserve(c) \/ DeadlineSoon(c) \/ Reader(c)
  \/ \E n \in Nums : dispatchOpTouch(c, n)
  \/ \E t \in Tubes : dispatchOpUse(c, t) \/ dispatchOpWatch(c, t) \/ dispatchOpIgnore(c, t)
  \/ \E t \in Tubes, n \in PauseDelays : dispatchOpPauseTube(c, t, n)

LoopStep == \/ CloseDone \/ ProcessQueueReturns \/ TickPaused \/ TickDone \/ Timeout
            \/ Clock \/ enterDrainMode
            \/ \E c \in Conns, j \in Ids : ReserveJobDies(c, j)

\* Every step is one of the three kinds.
LEMMA StepKinds ==
  ASSUME Step
  PROVE  MoveJob \/ LoopStep \/ \E c \in Conns : Talker(c)
  BY DEF Step, Server, Client, MoveJob, Mover, LoopStep, Talker, Reader

\* A command that only reads is one answer.
LEMMA ReaderStep ==
  ASSUME NEW c \in Conns, Reader(c)
  PROVE  /\ Event(c, "wantcommand") /\ Quiet
         /\ SendWord(c) \/ SendCopy(c)
  BY DEF Reader, Refused, doStats, dispatchOpPeekJob, dispatchOpPeekReady,
         dispatchOpPeekDelayed, dispatchOpPeekBuried, SendWord, SendCopy

\* What is not a move leaves every job in its place.
LEMMA TalkerFrame ==
  ASSUME NEW c \in Conns, Talker(c)
  PROVE  UNCHANGED placeVars
<1> USE DEF placeVars, jobVars, tubeVars
<1>1. CASE hAccept(c) BY <1>1 DEF hAccept
<1>2. CASE connWantCommand(c) BY <1>2 DEF connWantCommand
<1>3. CASE HangUp(c) BY <1>3 DEF HangUp
<1>4. CASE connClose(c) BY <1>4 DEF connClose
<1>5. CASE PutRefused(c) BY <1>5 DEF PutRefused
<1>6. CASE dispatchOpReserve(c) BY <1>6 DEF dispatchOpReserve
<1>7. CASE DeadlineSoon(c) BY <1>7 DEF DeadlineSoon
<1>8. CASE Reader(c) BY <1>8, ReaderStep DEF Quiet
<1>9. ASSUME NEW n \in Nums, dispatchOpTouch(c, n) PROVE UNCHANGED placeVars
  BY <1>9 DEF dispatchOpTouch
<1>10. ASSUME NEW t \in Tubes,
              dispatchOpUse(c, t) \/ dispatchOpWatch(c, t) \/ dispatchOpIgnore(c, t)
       PROVE  UNCHANGED placeVars
  BY <1>10 DEF dispatchOpUse, dispatchOpWatch, dispatchOpIgnore
<1>11. ASSUME NEW t \in Tubes, NEW n \in PauseDelays, dispatchOpPauseTube(c, t, n)
       PROVE  UNCHANGED placeVars
  BY <1>11 DEF dispatchOpPauseTube
<1> QED BY <1>1, <1>2, <1>3, <1>4, <1>5, <1>6, <1>7, <1>8, <1>9, <1>10, <1>11 DEF Talker

LEMMA LoopFrame ==
  ASSUME LoopStep
  PROVE  UNCHANGED placeVars
<1> USE DEF placeVars, jobVars, tubeVars, connVars
<1>1. CASE CloseDone BY <1>1 DEF CloseDone
<1>2. CASE ProcessQueueReturns BY <1>2 DEF ProcessQueueReturns
<1>3. CASE TickPaused \/ TickDone \/ Timeout BY <1>3 DEF TickPaused, TickDone, Timeout
<1>4. CASE Clock \/ enterDrainMode BY <1>4 DEF Clock, enterDrainMode
<1>5. CASE \E c \in Conns, j \in Ids : ReserveJobDies(c, j) BY <1>5 DEF ReserveJobDies
<1> QED BY <1>1, <1>2, <1>3, <1>4, <1>5 DEF LoopStep

-----------------------------------------------------------------------------
(***************************************************************************)
(* Every job is in its place.                                              *)
(***************************************************************************)

\* enqueueJob puts a job that is in no heap of its own (or was delayed and is due)
\* where its new state says.
LEMMA EnqueuePlaces ==
  ASSUME TypeOK, Placed,
         NEW j \in Ids, NEW t \in Tubes, NEW p, NEW d \in Nat, NEW G, NEW T,
         EnqueueJob(j, t, p, d, G, T),
         jtube' = [jtube EXCEPT ![j] = t], UNCHANGED buried,
         \/ jstate[j] \in {"none", "invalid", "reserved"}
         \/ jstate[j] = "delayed" /\ jtube[j] = t /\ d = 0
  PROVE  Placed'
<1>1. CASE d > 0 BY <1>1 DEF EnqueueJob, TypeOK, JobTypes, TubeTypes, Placed
<1>2. CASE ~(d > 0) BY <1>2 DEF EnqueueJob, TypeOK, JobTypes, TubeTypes, Placed
<1> QED BY <1>1, <1>2

\* A job that is the root of its heap is the one that is taken out.
TakesOut(j) ==
  LET t == jtube[j] IN
  /\ ready'  = [ready  EXCEPT ![t] = @ \ {j}]
  /\ delay'  = [delay  EXCEPT ![t] = @ \ {j}]
  /\ buried' = [buried EXCEPT ![t] = @ \ {j}]

LEMMA RightOneTaken ==
  ASSUME TypeOK, Placed, NEW j \in Ids, InItsPlace(j), TakeOut(j), jtube[j] \in Tubes
  PROVE  TakesOut(j)
<1> DEFINE t == jtube[j]
<1>0. /\ pri \in [Ids -> Nat] /\ due \in [Ids -> Nat] /\ Ids \subseteq Nat
      /\ ready \in [Tubes -> SUBSET Ids] /\ delay \in [Tubes -> SUBSET Ids]
  BY NumbersAssumption DEF TypeOK, JobTypes, TubeTypes, Ids
<1>1. jstate[j] = "ready" => {k \in ready[t] : ~ReadyRoot(t, k)} = ready[t] \ {j}
  <2>1. ASSUME ReadyRoot(t, j), NEW k \in ready[t], k # j PROVE ~ReadyRoot(t, k)
    <3>1. JobPriLess(j, k) /\ k \in Ids /\ ~JobPriLess(k, j)
      BY <1>0, <2>1 DEF ReadyRoot, JobPriLess
    <3> QED BY <2>1, <3>1 DEF ReadyRoot
  <2> QED BY <2>1 DEF InItsPlace
<1>2. jstate[j] = "delayed" => {k \in delay[t] : ~DelayRoot(t, k)} = delay[t] \ {j}
  <2>1. ASSUME DelayRoot(t, j), NEW k \in delay[t], k # j PROVE ~DelayRoot(t, k)
    <3>1. JobDelayLess(j, k) /\ k \in Ids /\ ~JobDelayLess(k, j)
      BY <1>0, <2>1 DEF DelayRoot, JobDelayLess
    <3> QED BY <2>1, <3>1 DEF DelayRoot
  <2> QED BY <2>1 DEF InItsPlace
<1>3. jstate[j] # "ready" => j \notin ready[t]
  BY DEF Placed
<1>4. jstate[j] # "delayed" => j \notin delay[t]
  BY DEF Placed
<1>5. ready' = [ready EXCEPT ![t] = @ \ {j}]
  BY <1>0, <1>1, <1>3 DEF TakeOut
<1>6. delay' = [delay EXCEPT ![t] = @ \ {j}]
  BY <1>0, <1>2, <1>4 DEF TakeOut
<1> QED BY <1>5, <1>6 DEF TakeOut, TakesOut

\* One step per way a job can move.
LEMMA JobsPlacedStep ==
  ASSUME Sound, Step
  PROVE  JobsPlaced'
<1> SUFFICES ASSUME pc' # "astray" PROVE Placed'
  BY DEF JobsPlaced
<1> USE DEF Sound
<1>1. ASSUME UNCHANGED placeVars PROVE Placed'
  BY <1>1 DEF Placed, placeVars
<1>2. CASE enqueueReservedJobs
  <2>1. PICK j \in resv[closing] :
          EnqueueJob(j, jtube[j], pri[j], 0, [gstat EXCEPT !.reserved = @ - 1],
                     [tstat EXCEPT ![jtube[j]].reserved = @ - 1])
    BY <1>2 DEF enqueueReservedJobs
  <2>2. closing \in Conns
    BY <1>2 DEF enqueueReservedJobs, Housekeeping, TypeOK, LoopTypes
  <2>3. j \in Ids /\ jstate[j] = "reserved" /\ jtube[j] \in Tubes
    BY <2>2 DEF TypeOK, ConnTypes, JobTypes, TubeTypes, HeldOnce, Housekeeping
  <2>4. jtube' = [jtube EXCEPT ![j] = jtube[j]] /\ UNCHANGED buried
    BY <1>2 DEF enqueueReservedJobs, TypeOK, JobTypes
  <2> QED BY <2>1, <2>3, <2>4, EnqueuePlaces
<1>3. CASE TickDelayed
  <2>1. PICK j \in Ids : Due(j) /\ EnqueueJob(j, jtube[j], pri[j], 0, gstat, tstat)
    BY <1>3 DEF TickDelayed
  <2>2. jstate[j] = "delayed" /\ jtube[j] \in Tubes
    BY <2>1 DEF Due, SoonestDelayedJob, DelayRoot, TypeOK, TubeTypes, Placed
  <2>3. jtube' = [jtube EXCEPT ![j] = jtube[j]] /\ UNCHANGED buried
    BY <1>3 DEF TickDelayed, TypeOK, JobTypes
  <2> QED BY <2>1, <2>2, <2>3, EnqueuePlaces
<1>4. CASE processQueue
  <2>1. PICK j \in Ids :
          /\ NextAwaitedJob(j)
          /\ ready' = [ready EXCEPT ![jtube[j]] = @ \ {j}]
          /\ \E c \in waiting[jtube[j]] : jstate' = [jstate EXCEPT ![j] = "reserved"]
    BY <1>4 DEF processQueue, ReserveJob
  <2>2. jstate[j] = "ready" /\ jtube[j] \in Tubes
    BY <2>1 DEF NextAwaitedJob, ReadyRoot, TypeOK, TubeTypes, Placed
  <2>3. UNCHANGED <<jtube, delay, buried>>
    BY <1>4 DEF processQueue
  <2> QED BY <2>1, <2>2, <2>3 DEF TypeOK, JobTypes, TubeTypes, Placed
<1>5. ASSUME NEW c \in Conns, NEW p \in Pris, NEW d \in Delays, NEW n \in Ttrs,
             dispatchOpPut(c, p, d, n)
      PROVE  Placed'
  <2>1. EnqueueJob(nextId, use[c], p, d * Second,
                   [SetProducerG(c, gstat) EXCEPT !.jobs = @ + 1],
                   [tstat EXCEPT ![use[c]].jobs = @ + 1])
    BY <1>5 DEF dispatchOpPut, EnqueueInComingJob
  <2>2. nextId \in Ids /\ jtube' = [jtube EXCEPT ![nextId] = use[c]] /\ UNCHANGED buried
    BY <1>5 DEF dispatchOpPut, MakeJobWithID
  <2>3. jstate[nextId] = "none" /\ use[c] \in Tubes
    BY <1>5, <2>2 DEF dispatchOpPut, Event, Housekeeping, TypeOK, TubeTypes, Ids
  <2>4. d * Second \in Nat
    BY NumbersAssumption
  <2> QED BY <2>1, <2>2, <2>3, <2>4, EnqueuePlaces
<1>6. ASSUME NEW c \in Conns, NEW p \in Pris, NEW d \in Delays, NEW n \in Ttrs,
             PutHeader(c, p, d, n)
      PROVE  Placed'
  <2>1. /\ nextId \in Ids
        /\ jtube' = [jtube EXCEPT ![nextId] = use[c]]
        /\ jstate' = [jstate EXCEPT ![nextId] = "invalid"]
        /\ UNCHANGED <<ready, delay, buried>>
    BY <1>6 DEF PutHeader, MakeJobWithID, tubeVars
  <2>2. jstate[nextId] = "none"
    BY <2>1 DEF Housekeeping, Ids
  <2> QED BY <2>1, <2>2 DEF TypeOK, JobTypes, TubeTypes, Placed
<1>7. ASSUME NEW c \in Conns, BodyComplete(c) PROVE Placed'
  <2> DEFINE j == injob[c]
  <2>1. EnqueueJob(j, jtube[j], pri[j], due[j], [gstat EXCEPT !.jobs = @ + 1],
                   [tstat EXCEPT ![jtube[j]].jobs = @ + 1])
    BY <1>7 DEF BodyComplete, EnqueueInComingJob
  <2>2. j \in Ids /\ jstate[j] = "invalid" /\ jtube[j] \in Tubes
    BY <1>7 DEF BodyComplete, Event, Housekeeping, TypeOK, TubeTypes
  <2>3. jtube' = [jtube EXCEPT ![j] = jtube[j]] /\ UNCHANGED buried /\ due[j] \in Nat
    BY <1>7, <2>2 DEF BodyComplete, TypeOK, JobTypes
  <2> QED BY <2>1, <2>2, <2>3, EnqueuePlaces
<1>8. ASSUME NEW c \in Conns, BodyRefused(c) PROVE Placed'
  <2>1. injob[c] \in Ids /\ jstate[injob[c]] = "invalid"
    BY <1>8 DEF BodyRefused, Event, Housekeeping
  <2> QED BY <1>8, <2>1 DEF BodyRefused, JobFree, tubeVars, TypeOK, JobTypes, TubeTypes, Placed
<1>9. ASSUME NEW c \in Conns, NEW j \in Ids, dispatchOpReserveJob(c, j) PROVE Placed'
  <2>1. /\ Removable(j) /\ InItsPlace(j) /\ TakeOut(j) /\ UNCHANGED jtube
        /\ jstate' = [jstate EXCEPT ![j] = "reserved"]
    BY <1>9 DEF dispatchOpReserveJob, DoneWith, ReserveJob
  <2>2. jstate[j] \in {"ready", "delayed", "buried"} /\ jtube[j] \in Tubes
    BY <2>1 DEF Removable, Housekeeping, TypeOK, TubeTypes
  <2>3. TakesOut(j)
    BY <2>1, <2>2, RightOneTaken
  <2> QED BY <2>1, <2>2, <2>3 DEF TakesOut, TypeOK, JobTypes, TubeTypes, Placed
<1>10. ASSUME NEW c \in Conns, NEW j \in Ids, dispatchOpDelete(c, j) PROVE Placed'
  <2>1. /\ isJobReservedByConn(c, j) \/ Removable(j)
        /\ InItsPlace(j) /\ TakeOut(j)
        /\ jtube' = [jtube EXCEPT ![j] = NoTube]
        /\ jstate' = [jstate EXCEPT ![j] = "none"]
    BY <1>10 DEF dispatchOpDelete, DoneWith, JobFree
  <2>2. jstate[j] \in {"ready", "delayed", "buried", "reserved"} /\ jtube[j] \in Tubes
    BY <2>1 DEF isJobReservedByConn, Removable, Housekeeping, TypeOK, TubeTypes
  <2>3. TakesOut(j)
    BY <2>1, <2>2, RightOneTaken
  <2> QED BY <2>1, <2>2, <2>3 DEF TakesOut, TypeOK, JobTypes, TubeTypes, Placed
<1>11. ASSUME NEW c \in Conns, NEW j \in Ids, NEW p \in Pris, NEW d \in RelDelays,
              dispatchOpRelease(c, j, p, d)
       PROVE  Placed'
  <2>1. EnqueueJob(j, jtube[j], p, d, [gstat EXCEPT !.reserved = @ - 1],
                   [tstat EXCEPT ![jtube[j]].reserved = @ - 1])
    BY <1>11 DEF dispatchOpRelease
  <2>2. jstate[j] = "reserved" /\ jtube[j] \in Tubes
    BY <1>11 DEF dispatchOpRelease, isJobReservedByConn, Housekeeping, TypeOK, TubeTypes
  <2>3. jtube' = [jtube EXCEPT ![j] = jtube[j]] /\ UNCHANGED buried /\ d \in Nat
    BY <1>11, NumbersAssumption DEF dispatchOpRelease, TypeOK, JobTypes
  <2> QED BY <2>1, <2>2, <2>3, EnqueuePlaces
<1>12. ASSUME NEW c \in Conns, NEW n \in Nums, NEW p \in Pris, dispatchOpBury(c, n, p)
       PROVE  Placed'
  <2> DEFINE j == BuryId(n)
  <2>1. /\ isJobReservedByConn(c, j)
        /\ jstate' = [jstate EXCEPT ![j] = "buried"]
        /\ buried' = [buried EXCEPT ![jtube[j]] = BuryList(jtube[j], j)]
        /\ UNCHANGED <<jtube, ready, delay>>
    BY <1>12 DEF dispatchOpBury
  <2>2. j \in Ids /\ jstate[j] = "reserved"
    BY <2>1 DEF isJobReservedByConn
  <2> HIDE DEF j
  <2> QED BY <2>1, <2>2 DEF BuryList, TypeOK, JobTypes, TubeTypes, Placed
<1> QED
  BY <1>1, <1>2, <1>3, <1>4, <1>5, <1>6, <1>7, <1>8, <1>9, <1>10, <1>11, <1>12,
     StepKinds, TalkerFrame, LoopFrame DEF MoveJob, Mover

-----------------------------------------------------------------------------
(***************************************************************************)
(* A reserved job has one holder.                                          *)
(***************************************************************************)

\* enqueueJob leaves its job without a reservoir.
LEMMA EnqueueFrees ==
  ASSUME TypeOK, NEW j \in Ids, NEW t, NEW p, NEW d, NEW G, NEW T,
         EnqueueJob(j, t, p, d, G, T)
  PROVE  /\ reservoir' = [reservoir EXCEPT ![j] = NoConn]
         /\ jstate'[j] # "reserved" /\ \A k \in Ids \ {j} : jstate'[k] = jstate[k]
<1>1. CASE d > 0 BY <1>1 DEF EnqueueJob, TypeOK, JobTypes
<1>2. CASE ~(d > 0) BY <1>2 DEF EnqueueJob, TypeOK, JobTypes
<1> QED BY <1>1, <1>2

LEMMA ReservedOnceStep ==
  ASSUME Sound, Step
  PROVE  HeldOnce'
<1> USE ConnsAssumption DEF Sound
<1>0. /\ reservoir \in [Ids -> Conns \cup {NoConn}]
      /\ jstate \in [Ids -> JobStates]
      /\ resv \in [Conns -> SUBSET Ids]
  BY DEF TypeOK, JobTypes, ConnTypes
<1>1. ASSUME UNCHANGED placeVars PROVE HeldOnce'
  BY <1>1 DEF HeldOnce, placeVars
<1>2. CASE enqueueReservedJobs
  <2>1. PICK j \in resv[closing] :
          /\ EnqueueJob(j, jtube[j], pri[j], 0, [gstat EXCEPT !.reserved = @ - 1],
                        [tstat EXCEPT ![jtube[j]].reserved = @ - 1])
          /\ resv' = [resv EXCEPT ![closing] = @ \ {j}]
    BY <1>2 DEF enqueueReservedJobs
  <2>2. closing \in Conns
    BY <1>2 DEF enqueueReservedJobs, Housekeeping, TypeOK, LoopTypes
  <2>3. j \in Ids
    BY <1>0, <2>2
  <2> QED BY <1>0, <2>1, <2>2, <2>3, EnqueueFrees DEF HeldOnce
<1>3. CASE TickDelayed
  <2>1. PICK j \in Ids : Due(j) /\ EnqueueJob(j, jtube[j], pri[j], 0, gstat, tstat)
    BY <1>3 DEF TickDelayed
  <2>2. jstate[j] = "delayed"
    BY <2>1 DEF Due, SoonestDelayedJob, DelayRoot, TypeOK, TubeTypes, Placed
  <2>3. UNCHANGED resv
    BY <1>3 DEF TickDelayed, connVars
  <2> QED BY <1>0, <2>1, <2>2, <2>3, EnqueueFrees DEF HeldOnce
<1>4. CASE processQueue
  <2>1. PICK j \in Ids : /\ NextAwaitedJob(j)
                         /\ \E c \in waiting[jtube[j]] : ReserveJob(c, j)
    BY <1>4 DEF processQueue
  <2>2. jstate[j] = "ready" /\ jtube[j] \in Tubes
    BY <2>1 DEF NextAwaitedJob, ReadyRoot, TypeOK, TubeTypes, Placed
  <2>3. PICK c \in Conns : ReserveJob(c, j)
    BY <2>1, <2>2 DEF TypeOK, TubeTypes
  <2> QED BY <1>0, <2>2, <2>3 DEF ReserveJob, HeldOnce
<1>5. ASSUME NEW c \in Conns, NEW p \in Pris, NEW d \in Delays, NEW n \in Ttrs,
             dispatchOpPut(c, p, d, n)
      PROVE  HeldOnce'
  <2>1. EnqueueJob(nextId, use[c], p, d * Second,
                   [SetProducerG(c, gstat) EXCEPT !.jobs = @ + 1],
                   [tstat EXCEPT ![use[c]].jobs = @ + 1])
    BY <1>5 DEF dispatchOpPut, EnqueueInComingJob
  <2>2. nextId \in Ids /\ jstate[nextId] = "none" /\ UNCHANGED resv
    BY <1>5 DEF dispatchOpPut, MakeJobWithID, Housekeeping, Ids
  <2> QED BY <1>0, <2>1, <2>2, EnqueueFrees DEF HeldOnce
<1>6. ASSUME NEW c \in Conns, NEW p \in Pris, NEW d \in Delays, NEW n \in Ttrs,
             PutHeader(c, p, d, n)
      PROVE  HeldOnce'
  <2>1. /\ nextId \in Ids
        /\ jstate' = [jstate EXCEPT ![nextId] = "invalid"]
        /\ UNCHANGED <<resv, reservoir>>
    BY <1>6 DEF PutHeader, MakeJobWithID
  <2>2. jstate[nextId] = "none"
    BY <2>1 DEF Housekeeping, Ids
  <2> QED BY <1>0, <2>1, <2>2 DEF HeldOnce
<1>7. ASSUME NEW c \in Conns, BodyComplete(c) PROVE HeldOnce'
  <2> DEFINE j == injob[c]
  <2>1. EnqueueJob(j, jtube[j], pri[j], due[j], [gstat EXCEPT !.jobs = @ + 1],
                   [tstat EXCEPT ![jtube[j]].jobs = @ + 1])
    BY <1>7 DEF BodyComplete, EnqueueInComingJob
  <2>2. j \in Ids /\ jstate[j] = "invalid" /\ UNCHANGED resv
    BY <1>7 DEF BodyComplete, Event, Housekeeping
  <2> QED BY <1>0, <2>1, <2>2, EnqueueFrees DEF HeldOnce
<1>8. ASSUME NEW c \in Conns, BodyRefused(c) PROVE HeldOnce'
  <2>1. injob[c] \in Ids /\ jstate[injob[c]] = "invalid" /\ UNCHANGED resv
    BY <1>8 DEF BodyRefused, Event, Housekeeping
  <2> QED BY <1>0, <1>8, <2>1 DEF BodyRefused, JobFree, HeldOnce
<1>9. ASSUME NEW c \in Conns, NEW j \in Ids, dispatchOpReserveJob(c, j) PROVE HeldOnce'
  <2>1. Removable(j) /\ ReserveJob(c, j)
    BY <1>9 DEF dispatchOpReserveJob
  <2> QED BY <1>0, <2>1 DEF Removable, ReserveJob, HeldOnce
<1>10. ASSUME NEW c \in Conns, NEW j \in Ids, dispatchOpDelete(c, j) PROVE HeldOnce'
  <2>1. /\ isJobReservedByConn(c, j) \/ Removable(j)
        /\ resv' = [resv EXCEPT ![c] = @ \ {j}]
        /\ JobFree(j)
    BY <1>10 DEF dispatchOpDelete
  <2> QED BY <1>0, <2>1 DEF isJobReservedByConn, Removable, JobFree, HeldOnce
<1>11. ASSUME NEW c \in Conns, NEW j \in Ids, NEW p \in Pris, NEW d \in RelDelays,
              dispatchOpRelease(c, j, p, d)
       PROVE  HeldOnce'
  <2>1. /\ EnqueueJob(j, jtube[j], p, d, [gstat EXCEPT !.reserved = @ - 1],
                      [tstat EXCEPT ![jtube[j]].reserved = @ - 1])
        /\ jstate[j] = "reserved" /\ reservoir[j] = c
        /\ resv' = [resv EXCEPT ![c] = @ \ {j}]
    BY <1>11 DEF dispatchOpRelease, isJobReservedByConn
  <2> QED BY <1>0, <2>1, EnqueueFrees DEF HeldOnce
<1>12. ASSUME NEW c \in Conns, NEW n \in Nums, NEW p \in Pris, dispatchOpBury(c, n, p)
       PROVE  HeldOnce'
  <2> DEFINE j == BuryId(n)
  <2>1. /\ j \in Ids /\ jstate[j] = "reserved" /\ reservoir[j] = c
        /\ jstate' = [jstate EXCEPT ![j] = "buried"]
        /\ reservoir' = [reservoir EXCEPT ![j] = NoConn]
        /\ resv' = [resv EXCEPT ![c] = @ \ {j}]
    BY <1>12 DEF dispatchOpBury, isJobReservedByConn
  <2> HIDE DEF j
  <2> QED BY <1>0, <2>1 DEF HeldOnce
<1> QED
  BY <1>1, <1>2, <1>3, <1>4, <1>5, <1>6, <1>7, <1>8, <1>9, <1>10, <1>11, <1>12,
     StepKinds, TalkerFrame, LoopFrame DEF MoveJob, Mover

-----------------------------------------------------------------------------
(***************************************************************************)
(* Types.                                                                  *)
(***************************************************************************)
LEMMA ReplyTypes ==
  ASSUME ConnTypes, NEW c \in Conns, NEW st \in ConnStates, NEW S \in Ids \cup {NoJob},
         NEW R \in SUBSET Ids, NEW D, Reply(c, st, S, R, D)
  PROVE  cstate' \in [Conns -> ConnStates] /\ soonest' \in [Conns -> Ids \cup {NoJob}]
<1>1. SoonestOf(S, R, D) \subseteq Ids \cup {NoJob}
  BY DEF SoonestOf
<1> QED BY <1>1 DEF Reply, connSched, ConnTypes

LEMMA AnswerTypes ==
  ASSUME ConnTypes, NEW c \in Conns, Answer(c)
  PROVE  cstate' \in [Conns -> ConnStates] /\ soonest' \in [Conns -> Ids \cup {NoJob}]
<1>1. "sendword" \in ConnStates /\ soonest[c] \in Ids \cup {NoJob} /\ resv[c] \in SUBSET Ids
  BY DEF ConnTypes, ConnStates
<1> QED BY <1>1, ReplyTypes DEF Answer

LEMMA EnqueueTypes ==
  ASSUME TypeOK, NEW j \in Ids, NEW t, NEW p, NEW d \in Nat, NEW G, NEW T,
         EnqueueJob(j, t, p, d, G, T)
  PROVE  /\ jstate' \in [Ids -> JobStates] /\ due' \in [Ids -> Nat]
         /\ reservoir' \in [Ids -> Conns \cup {NoConn}]
         /\ ready' \in [Tubes -> SUBSET Ids] /\ delay' \in [Tubes -> SUBSET Ids]
         /\ pc' = "queue"
<1>1. CASE d > 0 BY <1>1 DEF EnqueueJob, TypeOK, JobTypes, TubeTypes, JobStates
<1>2. CASE ~(d > 0) BY <1>2 DEF EnqueueJob, TypeOK, JobTypes, TubeTypes, JobStates
<1> QED BY <1>1, <1>2

LEMMA ReserveTypes ==
  ASSUME TypeOK, NEW c \in Conns, NEW j \in Ids, ReserveJob(c, j)
  PROVE  /\ jstate' \in [Ids -> JobStates] /\ due' \in [Ids -> Nat]
         /\ reservoir' \in [Ids -> Conns \cup {NoConn}]
         /\ cstate' \in [Conns -> ConnStates] /\ resv' \in [Conns -> SUBSET Ids]
         /\ soonest' \in [Conns -> Ids \cup {NoJob}]
         /\ outjob' \in [Conns -> Ids \cup {NoJob, Copy}]
  BY DEF ReserveJob, TypeOK, JobTypes, ConnTypes, JobStates, ConnStates

LEMMA FreeTypes ==
  ASSUME TypeOK, NEW j \in Ids, JobFree(j)
  PROVE  JobTypes'
  BY DEF JobFree, TypeOK, JobTypes, JobStates

LEMMA TakeOutTypes ==
  ASSUME TypeOK, NEW j \in Ids, TakeOut(j)
  PROVE  /\ ready' \in [Tubes -> SUBSET Ids] /\ delay' \in [Tubes -> SUBSET Ids]
         /\ buried' \in [Tubes -> SUBSET Ids]
  BY DEF TakeOut, TypeOK, TubeTypes

LEMMA MakeTypes ==
  ASSUME TypeOK, NEW c \in Conns, NEW p \in Pris, NEW n \in Ttrs, MakeJobWithID(c, p, n)
  PROVE  /\ nextId \in Ids /\ nextId' \in 1..(MaxJobs + 1)
         /\ pri' \in [Ids -> Nat] /\ jtube' \in [Ids -> Tubes \cup {NoTube}]
         /\ ttr' \in [Ids -> Nat]
<1>1. MinTtr(n) \in Nat
  BY NumbersAssumption DEF MinTtr
<1>2. nextId \in Ids /\ nextId' \in 1..(MaxJobs + 1)
  BY NumbersAssumption DEF MakeJobWithID, Ids
<1> QED BY <1>1, <1>2, NumbersAssumption DEF MakeJobWithID, TypeOK, JobTypes, ConnTypes

\* The handlers that move no job.
LEMMA TalkerTypes ==
  ASSUME TypeOK, Housekeeping, NEW c \in Conns, Talker(c)
  PROVE  TypeOK'
<1> USE DEF TypeOK, jobVars, tubeVars, statVars
<1>0. /\ soonest[c] \in Ids \cup {NoJob} /\ resv[c] \in SUBSET Ids
      /\ {"sendword", "sendjob", "wait", "wantcommand"} \subseteq ConnStates
  BY DEF ConnTypes, ConnStates
<1>1. CASE hAccept(c)
  BY <1>1, TubesAssumption
  DEF hAccept, Done, ConnStates, JobTypes, TubeTypes, ConnTypes, LoopTypes
<1>2. CASE connWantCommand(c)
  BY <1>0, <1>2, ReplyTypes
  DEF connWantCommand, Done, JobTypes, TubeTypes, ConnTypes, LoopTypes
<1>3. CASE HangUp(c)
  BY <1>0, <1>3, AnswerTypes
  DEF HangUp, Done, RemoveWaitingCoon, JobTypes, TubeTypes, ConnTypes, LoopTypes
<1>4. CASE connClose(c)
  BY <1>4 DEF connClose, ConnStates, JobTypes, TubeTypes, ConnTypes, LoopTypes
<1>5. CASE PutRefused(c)
  <2>1. JobTypes'
    BY <1>5, NumbersAssumption DEF PutRefused, Ids, JobTypes
  <2>2. ctype' \in [Conns -> SUBSET {"producer", "worker", "waiting"}]
    BY <1>5 DEF PutRefused, SetProducer, ConnTypes
  <2> QED BY <1>0, <1>5, <2>1, <2>2, AnswerTypes
          DEF PutRefused, Done, TubeTypes, ConnTypes, LoopTypes
<1>6. CASE dispatchOpReserve(c)
  BY <1>0, <1>6, ReplyTypes
  DEF dispatchOpReserve, JobTypes, TubeTypes, ConnTypes, LoopTypes
<1>7. CASE DeadlineSoon(c)
  BY <1>0, <1>7, AnswerTypes
  DEF DeadlineSoon, Done, JobTypes, TubeTypes, ConnTypes, LoopTypes
<1>8. CASE Reader(c)
  <2>1. Quiet /\ (SendWord(c) \/ SendCopy(c))
    BY <1>8, ReaderStep
  <2>2. CASE SendWord(c)
    BY <1>0, <2>1, <2>2, AnswerTypes
    DEF SendWord, Quiet, Done, JobTypes, TubeTypes, ConnTypes, LoopTypes
  <2>3. CASE SendCopy(c)
    BY <1>0, <2>1, <2>3, ReplyTypes
    DEF SendCopy, Quiet, Done, JobTypes, TubeTypes, ConnTypes, LoopTypes
  <2> QED BY <2>1, <2>2, <2>3
<1>9. ASSUME NEW n \in Nums, dispatchOpTouch(c, n) PROVE TypeOK'
  <2>1. TouchId(n) \in Ids /\ due' = [due EXCEPT ![TouchId(n)] = ttr[TouchId(n)]]
    BY <1>9 DEF dispatchOpTouch, isJobReservedByConn
  <2>2. Reply(c, "sendword", NoJob, resv[c], due')
    BY <1>9 DEF dispatchOpTouch
  <2>3. cstate' \in [Conns -> ConnStates] /\ soonest' \in [Conns -> Ids \cup {NoJob}]
    BY <1>0, <2>2, ReplyTypes
  <2> QED BY <1>9, <2>1, <2>3 DEF dispatchOpTouch, Done, JobTypes, TubeTypes, ConnTypes, LoopTypes
<1>10. ASSUME NEW t \in Tubes,
              dispatchOpUse(c, t) \/ dispatchOpWatch(c, t) \/ dispatchOpIgnore(c, t)
       PROVE  TypeOK'
  <2>1. CASE dispatchOpUse(c, t)
    BY <1>0, <2>1, AnswerTypes
    DEF dispatchOpUse, TubeFindOrMake, Done, JobTypes, TubeTypes, ConnTypes, LoopTypes
  <2>2. CASE dispatchOpWatch(c, t)
    BY <1>0, <2>2, AnswerTypes
    DEF dispatchOpWatch, TubeFindOrMake, One, Done, JobTypes, TubeTypes, ConnTypes, LoopTypes
  <2>3. CASE dispatchOpIgnore(c, t)
    BY <1>0, <2>3, AnswerTypes
    DEF dispatchOpIgnore, Done, JobTypes, TubeTypes, ConnTypes, LoopTypes
  <2> QED BY <1>10, <2>1, <2>2, <2>3
<1>11. ASSUME NEW t \in Tubes, NEW n \in PauseDelays, dispatchOpPauseTube(c, t, n)
       PROVE  TypeOK'
  <2>1. (IF n = 0 THEN 1 ELSE n * Second) \in Nat
    BY NumbersAssumption
  <2> QED BY <1>0, <1>11, <2>1, AnswerTypes
          DEF dispatchOpPauseTube, TubeFind, Done, JobTypes, TubeTypes, ConnTypes, LoopTypes
<1> QED BY <1>1, <1>2, <1>3, <1>4, <1>5, <1>6, <1>7, <1>8, <1>9, <1>10, <1>11 DEF Talker

\* The steps of the loop that move no job.
LEMMA LoopStepTypes ==
  ASSUME TypeOK, Housekeeping, LoopStep
  PROVE  TypeOK'
<1> USE DEF TypeOK, jobVars, tubeVars, connVars, statVars
<1>1. CASE CloseDone
  <2>1. closing \in Conns
    BY <1>1 DEF CloseDone, Housekeeping, LoopTypes
  <2> QED BY <1>1, <2>1 DEF CloseDone, ConnStates, JobTypes, TubeTypes, ConnTypes, LoopTypes
<1>2. CASE ProcessQueueReturns
  BY <1>2 DEF ProcessQueueReturns, LiftPauses, JobTypes, TubeTypes, ConnTypes, LoopTypes
<1>3. CASE TickPaused
  BY <1>3 DEF TickPaused, JobTypes, TubeTypes, ConnTypes, LoopTypes
<1>4. CASE TickDone
  <2>1. Periods \subseteq Nat
    BY NumbersAssumption DEF Periods, JobTypes, TubeTypes
  <2>2. wake' \in Nat
    BY <1>4, <2>1 DEF TickDone
  <2> QED BY <1>4, <2>2 DEF TickDone, JobTypes, TubeTypes, ConnTypes, LoopTypes
<1>5. CASE Timeout
  BY <1>5 DEF Timeout, Done, JobTypes, TubeTypes, ConnTypes, LoopTypes
<1>6. CASE Clock
  <2>1. due' \in [Ids -> Nat] /\ unpauseIn' \in [Tubes -> Nat] /\ wake' \in Nat
    BY <1>6 DEF Clock, Dec, JobTypes, TubeTypes, LoopTypes
  <2> QED BY <1>6, <2>1 DEF Clock, JobTypes, TubeTypes, ConnTypes, LoopTypes
<1>7. CASE enterDrainMode
  BY <1>7 DEF enterDrainMode, JobTypes, TubeTypes, ConnTypes, LoopTypes
<1>8. CASE \E c \in Conns, j \in Ids : ReserveJobDies(c, j)
  BY <1>8 DEF ReserveJobDies, JobTypes, TubeTypes, ConnTypes, LoopTypes
<1> QED BY <1>1, <1>2, <1>3, <1>4, <1>5, <1>6, <1>7, <1>8 DEF LoopStep

\* The steps that move a job.
LEMMA MoveTypes ==
  ASSUME Sound, MoveJob
  PROVE  TypeOK'
<1> USE DEF Sound
<1>0. {"sendword", "wantdata"} \subseteq ConnStates /\ NoJob \in Ids \cup {NoJob}
  BY DEF ConnStates
<1>1. CASE enqueueReservedJobs
  <2>1. closing \in Conns
    BY <1>1 DEF enqueueReservedJobs, Housekeeping, TypeOK, LoopTypes
  <2>2. PICK j \in resv[closing] :
          /\ EnqueueJob(j, jtube[j], pri[j], 0, [gstat EXCEPT !.reserved = @ - 1],
                        [tstat EXCEPT ![jtube[j]].reserved = @ - 1])
          /\ resv' = [resv EXCEPT ![closing] = @ \ {j}]
    BY <1>1 DEF enqueueReservedJobs
  <2>3. j \in Ids
    BY <2>1 DEF TypeOK, ConnTypes
  <2> QED BY <1>1, <2>1, <2>2, <2>3, EnqueueTypes
          DEF enqueueReservedJobs, TypeOK, JobTypes, TubeTypes, ConnTypes, LoopTypes
<1>2. CASE TickDelayed
  <2>1. PICK j \in Ids : EnqueueJob(j, jtube[j], pri[j], 0, gstat, tstat)
    BY <1>2 DEF TickDelayed
  <2> QED BY <1>2, <2>1, EnqueueTypes
          DEF TickDelayed, connVars, TypeOK, JobTypes, TubeTypes, ConnTypes, LoopTypes
<1>3. CASE processQueue
  <2>1. PICK j \in Ids :
          /\ NextAwaitedJob(j)
          /\ ready' = [ready EXCEPT ![jtube[j]] = @ \ {j}]
          /\ \E c \in waiting[jtube[j]] :
               /\ RemoveWaitingCoon(c)
               /\ ctype' = [ctype EXCEPT ![c] = @ \ {"waiting"}]
               /\ ReserveJob(c, j)
    BY <1>3 DEF processQueue
  <2>2. jtube[j] \in Tubes
    BY <2>1 DEF NextAwaitedJob, ReadyRoot, TypeOK, TubeTypes, Placed
  <2>3. PICK c \in Conns :
          /\ RemoveWaitingCoon(c)
          /\ ctype' = [ctype EXCEPT ![c] = @ \ {"waiting"}]
          /\ ReserveJob(c, j)
    BY <2>1, <2>2 DEF TypeOK, TubeTypes
  <2>4. waiting' \in [Tubes -> SUBSET Conns]
    BY <2>3 DEF RemoveWaitingCoon, TypeOK, TubeTypes
  <2>5. paused' \subseteq paused
    BY <1>3 DEF processQueue, LiftPauses
  <2> QED BY <1>3, <2>1, <2>2, <2>3, <2>4, <2>5, ReserveTypes
          DEF processQueue, loopVars, TypeOK, JobTypes, TubeTypes, ConnTypes, LoopTypes
<1>4. ASSUME NEW c \in Conns, NEW p \in Pris, NEW d \in Delays, NEW n \in Ttrs,
             dispatchOpPut(c, p, d, n)
      PROVE  TypeOK'
  <2>1. /\ MakeJobWithID(c, p, n) /\ SetProducer(c) /\ Answer(c)
        /\ EnqueueJob(nextId, use[c], p, d * Second,
                      [SetProducerG(c, gstat) EXCEPT !.jobs = @ + 1],
                      [tstat EXCEPT ![use[c]].jobs = @ + 1])
        /\ UNCHANGED <<tubes, buried, waiting, paused, unpauseIn, use, watch, resv, injob,
                       outjob, closing, wake, drain>>
    BY <1>4 DEF dispatchOpPut, EnqueueInComingJob
  <2>2. d * Second \in Nat
    BY NumbersAssumption
  <2>3. ctype' \in [Conns -> SUBSET {"producer", "worker", "waiting"}]
    BY <2>1 DEF SetProducer, TypeOK, ConnTypes
  <2> QED BY <2>1, <2>2, <2>3, MakeTypes, AnswerTypes, EnqueueTypes
          DEF TypeOK, JobTypes, TubeTypes, ConnTypes, LoopTypes
<1>5. ASSUME NEW c \in Conns, NEW p \in Pris, NEW d \in Delays, NEW n \in Ttrs,
             PutHeader(c, p, d, n)
      PROVE  TypeOK'
  <2>1. MakeJobWithID(c, p, n) /\ SetProducer(c) /\ Done
    BY <1>5 DEF PutHeader
  <2>2. d * Second \in Nat
    BY NumbersAssumption
  <2>3. ctype' \in [Conns -> SUBSET {"producer", "worker", "waiting"}]
    BY <2>1 DEF SetProducer, TypeOK, ConnTypes
  <2>4. JobTypes'
    BY <1>5, <2>1, <2>2, MakeTypes DEF PutHeader, TypeOK, JobTypes, JobStates
  <2>5. ConnTypes'
    BY <1>0, <1>5, <2>1, <2>3, MakeTypes DEF PutHeader, TypeOK, ConnTypes
  <2> QED BY <1>5, <2>1, <2>4, <2>5 DEF PutHeader, Done, tubeVars, TypeOK, TubeTypes, LoopTypes
<1>6. ASSUME NEW c \in Conns, BodyComplete(c) PROVE TypeOK'
  <2> DEFINE j == injob[c]
  <2>1. /\ EnqueueJob(j, jtube[j], pri[j], due[j], [gstat EXCEPT !.jobs = @ + 1],
                      [tstat EXCEPT ![jtube[j]].jobs = @ + 1])
        /\ Answer(c)
        /\ injob' = [injob EXCEPT ![c] = NoJob]
        /\ UNCHANGED <<pri, jtube, ttr, nextId, tubes, buried, waiting, paused, unpauseIn, use,
                       watch, resv, outjob, ctype, closing, wake, drain>>
    BY <1>6 DEF BodyComplete, EnqueueInComingJob
  <2>2. j \in Ids /\ due[j] \in Nat
    BY <1>6 DEF BodyComplete, Event, Housekeeping, TypeOK, JobTypes
  <2> HIDE DEF j
  <2> QED BY <2>1, <2>2, AnswerTypes, EnqueueTypes
          DEF TypeOK, JobTypes, TubeTypes, ConnTypes, LoopTypes
<1>7. ASSUME NEW c \in Conns, BodyRefused(c) PROVE TypeOK'
  <2>1. injob[c] \in Ids
    BY <1>7 DEF BodyRefused, Event, Housekeeping
  <2> QED BY <1>7, <2>1, FreeTypes, AnswerTypes
          DEF BodyRefused, Done, tubeVars, TypeOK, TubeTypes, ConnTypes, LoopTypes
<1>8. ASSUME NEW c \in Conns, NEW j \in Ids, dispatchOpReserveJob(c, j) PROVE TypeOK'
  <2>1. /\ TakeOut(j) /\ ReserveJob(c, j) /\ DoneWith(j)
        /\ ctype' = [ctype EXCEPT ![c] = @ \cup {"worker"}]
        /\ UNCHANGED <<pri, jtube, ttr, nextId, tubes, waiting, paused, unpauseIn, use, watch,
                       injob>>
    BY <1>8 DEF dispatchOpReserveJob
  <2> QED BY <2>1, TakeOutTypes, ReserveTypes
          DEF DoneWith, TypeOK, JobTypes, TubeTypes, ConnTypes, LoopTypes
<1>9. ASSUME NEW c \in Conns, NEW j \in Ids, dispatchOpDelete(c, j) PROVE TypeOK'
  <2> DEFINE S == IF isJobReservedByConn(c, j) THEN NoJob ELSE soonest[c]
  <2>1. /\ TakeOut(j) /\ JobFree(j) /\ DoneWith(j)
        /\ resv' = [resv EXCEPT ![c] = @ \ {j}]
        /\ Reply(c, "sendword", S, resv[c] \ {j}, due)
        /\ UNCHANGED <<tubes, waiting, paused, unpauseIn, use, watch, injob, outjob, ctype>>
    BY <1>9 DEF dispatchOpDelete
  <2>2. S \in Ids \cup {NoJob} /\ resv[c] \ {j} \in SUBSET Ids
    BY DEF TypeOK, ConnTypes
  <2> HIDE DEF S
  <2> QED BY <1>0, <2>1, <2>2, TakeOutTypes, FreeTypes, ReplyTypes
          DEF DoneWith, TypeOK, TubeTypes, ConnTypes, LoopTypes
<1>10. ASSUME NEW c \in Conns, NEW j \in Ids, NEW p \in Pris, NEW d \in RelDelays,
              dispatchOpRelease(c, j, p, d)
       PROVE  TypeOK'
  <2>1. /\ EnqueueJob(j, jtube[j], p, d, [gstat EXCEPT !.reserved = @ - 1],
                      [tstat EXCEPT ![jtube[j]].reserved = @ - 1])
        /\ pri' = [pri EXCEPT ![j] = p]
        /\ resv' = [resv EXCEPT ![c] = @ \ {j}]
        /\ Reply(c, "sendword", NoJob, resv[c] \ {j}, due)
        /\ UNCHANGED <<jtube, ttr, nextId, tubes, buried, waiting, paused, unpauseIn, use, watch,
                       injob, outjob, ctype, closing, wake, drain>>
    BY <1>10 DEF dispatchOpRelease
  <2>2. p \in Nat /\ d \in Nat /\ resv[c] \ {j} \in SUBSET Ids
    BY NumbersAssumption DEF TypeOK, ConnTypes
  <2> QED BY <1>0, <2>1, <2>2, EnqueueTypes, ReplyTypes
          DEF TypeOK, JobTypes, TubeTypes, ConnTypes, LoopTypes
<1>11. ASSUME NEW c \in Conns, NEW n \in Nums, NEW p \in Pris, dispatchOpBury(c, n, p)
       PROVE  TypeOK'
  <2> DEFINE j == BuryId(n)
  <2>1. /\ j \in Ids
        /\ pri' = [pri EXCEPT ![j] = p]
        /\ jstate' = [jstate EXCEPT ![j] = "buried"]
        /\ due' = [due EXCEPT ![j] = 0]
        /\ reservoir' = [reservoir EXCEPT ![j] = NoConn]
        /\ resv' = [resv EXCEPT ![c] = @ \ {j}]
        /\ buried' = [buried EXCEPT ![jtube[j]] = BuryList(jtube[j], j)]
        /\ Reply(c, "sendword", NoJob, resv[c] \ {j}, due) /\ Done
        /\ UNCHANGED <<jtube, ttr, nextId, tubes, ready, delay, waiting, paused, unpauseIn, use,
                       watch, injob, outjob, ctype>>
    BY <1>11 DEF dispatchOpBury, isJobReservedByConn
  <2> HIDE DEF j
  <2>2. p \in Nat /\ resv[c] \ {j} \in SUBSET Ids
    BY NumbersAssumption DEF TypeOK, ConnTypes
  <2>3. JobTypes'
    BY <2>1, <2>2 DEF TypeOK, JobTypes, JobStates
  <2>4. TubeTypes'
    BY <2>1 DEF BuryList, TypeOK, TubeTypes
  <2>5. ConnTypes'
    BY <1>0, <2>1, <2>2, ReplyTypes DEF TypeOK, ConnTypes
  <2> QED BY <2>1, <2>3, <2>4, <2>5 DEF Done, TypeOK, LoopTypes
<1> QED
  BY <1>1, <1>2, <1>3, <1>4, <1>5, <1>6, <1>7, <1>8, <1>9, <1>10, <1>11 DEF MoveJob, Mover

-----------------------------------------------------------------------------
(***************************************************************************)
(* Housekeeping.                                                           *)
(***************************************************************************)

\* What a reply does to the connections' states.
LEMMA ReplyState ==
  ASSUME NEW c, NEW st, NEW S, NEW R, NEW D, Reply(c, st, S, R, D)
  PROVE  cstate' = [cstate EXCEPT ![c] = st]
  BY DEF Reply

LEMMA TalkerHousekeeping ==
  ASSUME TypeOK, Housekeeping, NEW c \in Conns, Talker(c)
  PROVE  Housekeeping'
<1> USE ConnsAssumption DEF Event, Housekeeping, jobVars, tubeVars, statVars
<1>0. cstate \in [Conns -> ConnStates] /\ pc \in {"poll", "tick", "queue", "close", "astray", "dead"}
  BY DEF TypeOK, ConnTypes, LoopTypes
<1>1. CASE hAccept(c)
  <2>1. Default \in tubes'
    BY <1>1 DEF hAccept
  <2> QED BY <1>0, <1>1, <2>1 DEF hAccept, Done, TypeOK, ConnTypes
<1>2. CASE connWantCommand(c)
  BY <1>0, <1>2, ReplyState DEF connWantCommand, Done
<1>3. CASE HangUp(c)
  BY <1>0, <1>3, ReplyState DEF HangUp, Answer, Done
<1>4. CASE connClose(c)
  BY <1>0, <1>4 DEF connClose, TypeOK, ConnTypes
<1>5. CASE PutRefused(c)
  BY <1>0, <1>5, ReplyState DEF PutRefused, Answer, Done, TypeOK, JobTypes, Ids
<1>6. CASE dispatchOpReserve(c)
  BY <1>0, <1>6, ReplyState DEF dispatchOpReserve
<1>7. CASE DeadlineSoon(c)
  BY <1>0, <1>7, ReplyState DEF DeadlineSoon, Answer, Done
<1>8. CASE Reader(c)
  <2>1. Event(c, "wantcommand") /\ Quiet /\ (SendWord(c) \/ SendCopy(c))
    BY <1>8, ReaderStep
  <2>2. PICK st \in {"sendword", "sendjob"} : cstate' = [cstate EXCEPT ![c] = st]
    BY <2>1, ReplyState DEF SendWord, SendCopy, Answer
  <2> QED BY <1>0, <2>1, <2>2 DEF Quiet, Done
<1>9. ASSUME NEW n \in Nums, dispatchOpTouch(c, n) PROVE Housekeeping'
  <2>1. cstate' = [cstate EXCEPT ![c] = "sendword"]
    BY <1>9 DEF dispatchOpTouch, Reply
  <2> QED BY <1>0, <1>9, <2>1 DEF dispatchOpTouch, Done
<1>10. ASSUME NEW t \in Tubes, dispatchOpUse(c, t) PROVE Housekeeping'
  BY <1>0, <1>10, ReplyState DEF dispatchOpUse, TubeFindOrMake, Answer, Done, TypeOK, ConnTypes
<1>11. ASSUME NEW t \in Tubes, dispatchOpWatch(c, t) PROVE Housekeeping'
  BY <1>0, <1>11, ReplyState
  DEF dispatchOpWatch, TubeFindOrMake, One, Answer, Done, TypeOK, ConnTypes
<1>12. ASSUME NEW t \in Tubes, dispatchOpIgnore(c, t) PROVE Housekeeping'
  BY <1>0, <1>12, ReplyState DEF dispatchOpIgnore, Answer, Done, TypeOK, ConnTypes
<1>13. ASSUME NEW t \in Tubes, NEW n \in PauseDelays, dispatchOpPauseTube(c, t, n)
       PROVE  Housekeeping'
  BY <1>0, <1>13, ReplyState DEF dispatchOpPauseTube, Answer, Done
<1> QED
  BY <1>1, <1>2, <1>3, <1>4, <1>5, <1>6, <1>7, <1>8, <1>9, <1>10, <1>11, <1>12, <1>13 DEF Talker

LEMMA LoopHousekeeping ==
  ASSUME TypeOK, Housekeeping, LoopStep
  PROVE  Housekeeping'
<1> USE ConnsAssumption DEF Housekeeping, jobVars, tubeVars, connVars, statVars
<1>0. cstate \in [Conns -> ConnStates] /\ pc \in {"poll", "tick", "queue", "close", "astray", "dead"}
  BY DEF TypeOK, ConnTypes, LoopTypes
<1>1. CASE CloseDone
  <2>1. closing \in Conns
    BY <1>1 DEF CloseDone, TypeOK, LoopTypes
  <2> QED BY <1>0, <1>1, <2>1 DEF CloseDone, TypeOK, ConnTypes
<1>2. CASE ProcessQueueReturns BY <1>2 DEF ProcessQueueReturns
<1>3. CASE TickPaused \/ TickDone BY <1>3 DEF TickPaused, TickDone
<1>4. CASE Timeout BY <1>4 DEF Timeout, Done
<1>5. CASE Clock \/ enterDrainMode BY <1>5 DEF Clock, enterDrainMode
<1>6. CASE \E c \in Conns, j \in Ids : ReserveJobDies(c, j) BY <1>6 DEF ReserveJobDies
<1> QED BY <1>1, <1>2, <1>3, <1>4, <1>5, <1>6 DEF LoopStep

LEMMA MoveHousekeeping ==
  ASSUME Sound, MoveJob
  PROVE  Housekeeping'
<1> USE ConnsAssumption DEF Sound
<1>0. /\ cstate \in [Conns -> ConnStates] /\ pc \in {"poll", "tick", "queue", "close", "astray", "dead"}
      /\ jstate \in [Ids -> JobStates] /\ jtube \in [Ids -> Tubes \cup {NoTube}]
      /\ injob \in [Conns -> Ids \cup {NoJob}] /\ nextId \in 1..(MaxJobs + 1)
      /\ resv \in [Conns -> SUBSET Ids]
  BY DEF TypeOK, JobTypes, ConnTypes, LoopTypes
<1>1. CASE enqueueReservedJobs
  <2>1. closing \in Conns
    BY <1>1 DEF enqueueReservedJobs, Housekeeping, TypeOK, LoopTypes
  <2>2. PICK j \in resv[closing] :
          EnqueueJob(j, jtube[j], pri[j], 0, [gstat EXCEPT !.reserved = @ - 1],
                     [tstat EXCEPT ![jtube[j]].reserved = @ - 1])
    BY <1>1 DEF enqueueReservedJobs
  <2>3. j \in Ids /\ jstate[j] = "reserved"
    BY <1>0, <2>1 DEF HeldOnce
  <2>4. jstate' = [jstate EXCEPT ![j] = "ready"] /\ pc' = "queue"
    BY <2>2 DEF EnqueueJob
  <2> QED BY <1>0, <1>1, <2>1, <2>3, <2>4 DEF enqueueReservedJobs, Housekeeping
<1>2. CASE TickDelayed
  <2>1. PICK j \in Ids : Due(j) /\ EnqueueJob(j, jtube[j], pri[j], 0, gstat, tstat)
    BY <1>2 DEF TickDelayed
  <2>2. jstate[j] = "delayed"
    BY <2>1 DEF Due, SoonestDelayedJob, DelayRoot, TypeOK, TubeTypes, Placed
  <2>3. jstate' = [jstate EXCEPT ![j] = "ready"] /\ pc' = "queue"
    BY <2>1 DEF EnqueueJob
  <2> QED BY <1>0, <1>2, <2>2, <2>3 DEF TickDelayed, connVars, Housekeeping
<1>3. CASE processQueue
  <2>1. PICK j \in Ids :
          /\ NextAwaitedJob(j)
          /\ \E c \in waiting[jtube[j]] : ReserveJob(c, j)
    BY <1>3 DEF processQueue
  <2>2. jstate[j] = "ready" /\ jtube[j] \in Tubes
    BY <2>1 DEF NextAwaitedJob, ReadyRoot, TypeOK, TubeTypes, Placed
  <2>3. PICK c \in Conns : c \in waiting[jtube[j]] /\ ReserveJob(c, j)
    BY <2>1, <2>2 DEF TypeOK, TubeTypes
  <2>4. cstate[c] = "wait"
    BY <2>2, <2>3 DEF WaitersAreWaiting
  <2>5. /\ jstate' = [jstate EXCEPT ![j] = "reserved"]
        /\ cstate' = [cstate EXCEPT ![c] = "sendjob"]
    BY <2>3 DEF ReserveJob
  <2> QED BY <1>0, <1>3, <2>2, <2>4, <2>5 DEF processQueue, loopVars, Housekeeping
<1>4. ASSUME NEW c \in Conns, NEW p \in Pris, NEW d \in Delays, NEW n \in Ttrs,
             dispatchOpPut(c, p, d, n)
      PROVE  Housekeeping'
  <2>1. /\ cstate[c] = "wantcommand" /\ pc = "poll"
        /\ nextId \in Ids /\ nextId' = nextId + 1
        /\ jtube' = [jtube EXCEPT ![nextId] = use[c]]
        /\ cstate' = [cstate EXCEPT ![c] = "sendword"]
        /\ EnqueueJob(nextId, use[c], p, d * Second,
                      [SetProducerG(c, gstat) EXCEPT !.jobs = @ + 1],
                      [tstat EXCEPT ![use[c]].jobs = @ + 1])
        /\ UNCHANGED <<tubes, use, watch, injob, closing>>
    BY <1>4, ReplyState DEF dispatchOpPut, Event, MakeJobWithID, EnqueueInComingJob, Answer
  <2>2. use[c] \in tubes /\ jstate[nextId] = "none"
    BY <2>1 DEF Housekeeping, Ids
  <2>3. pc' = "queue" /\ jstate'[nextId] # "none"
        /\ \A k \in Ids \ {nextId} : jstate'[k] = jstate[k]
    <3>1. CASE d * Second > 0 BY <1>0, <2>1, <3>1 DEF EnqueueJob
    <3>2. CASE ~(d * Second > 0) BY <1>0, <2>1, <3>2 DEF EnqueueJob
    <3> QED BY <3>1, <3>2
  <2> QED BY <1>0, <2>1, <2>2, <2>3 DEF Housekeeping, Ids
<1>5. ASSUME NEW c \in Conns, NEW p \in Pris, NEW d \in Delays, NEW n \in Ttrs,
             PutHeader(c, p, d, n)
      PROVE  Housekeeping'
  <2>1. /\ cstate[c] = "wantcommand" /\ pc = "poll" /\ pc' = "tick"
        /\ nextId \in Ids /\ nextId' = nextId + 1
        /\ jtube' = [jtube EXCEPT ![nextId] = use[c]]
        /\ jstate' = [jstate EXCEPT ![nextId] = "invalid"]
        /\ cstate' = [cstate EXCEPT ![c] = "wantdata"]
        /\ injob' = [injob EXCEPT ![c] = nextId]
        /\ UNCHANGED <<tubes, use, watch, closing>>
    BY <1>5 DEF PutHeader, Event, MakeJobWithID, Done, tubeVars
  <2>2. use[c] \in tubes /\ jstate[nextId] = "none"
    BY <2>1 DEF Housekeeping, Ids
  <2>3. \A b \in Conns : injob[b] # nextId
    BY <1>0, <2>1, <2>2 DEF Housekeeping, Ids, NoJob
  <2> QED BY <1>0, <2>1, <2>2, <2>3 DEF Housekeeping, Ids
<1>6. ASSUME NEW c \in Conns, BodyComplete(c) PROVE Housekeeping'
  <2> DEFINE j == injob[c]
  <2>1. /\ cstate[c] = "wantdata" /\ pc = "poll"
        /\ EnqueueJob(j, jtube[j], pri[j], due[j], [gstat EXCEPT !.jobs = @ + 1],
                      [tstat EXCEPT ![jtube[j]].jobs = @ + 1])
        /\ cstate' = [cstate EXCEPT ![c] = "sendword"]
        /\ injob' = [injob EXCEPT ![c] = NoJob]
        /\ UNCHANGED <<jtube, nextId, tubes, use, watch, closing>>
    BY <1>6, ReplyState DEF BodyComplete, Event, EnqueueInComingJob, Answer
  <2>2. j \in Ids /\ jstate[j] = "invalid"
    BY <2>1 DEF Housekeeping
  <2>3. pc' = "queue" /\ jstate'[j] # "none" /\ \A k \in Ids \ {j} : jstate'[k] = jstate[k]
    <3>1. CASE due[j] > 0 BY <1>0, <2>1, <2>2, <3>1 DEF EnqueueJob
    <3>2. CASE ~(due[j] > 0) BY <1>0, <2>1, <2>2, <3>2 DEF EnqueueJob
    <3> QED BY <3>1, <3>2
  <2>4. \A b \in Conns \ {c} : injob[b] # j
    BY <2>2 DEF Housekeeping, Ids, NoJob
  <2> HIDE DEF j
  <2> QED BY <1>0, <2>1, <2>2, <2>3, <2>4 DEF Housekeeping
<1>7. ASSUME NEW c \in Conns, BodyRefused(c) PROVE Housekeeping'
  <2> DEFINE j == injob[c]
  <2>1. /\ cstate[c] = "wantdata" /\ pc = "poll" /\ pc' = "tick"
        /\ jstate' = [jstate EXCEPT ![j] = "none"] /\ jtube' = [jtube EXCEPT ![j] = NoTube]
        /\ cstate' = [cstate EXCEPT ![c] = "sendword"]
        /\ injob' = [injob EXCEPT ![c] = NoJob]
        /\ UNCHANGED <<nextId, tubes, use, watch, closing>>
    BY <1>7, ReplyState DEF BodyRefused, Event, JobFree, Answer, Done, tubeVars
  <2>2. j \in Ids
    BY <2>1 DEF Housekeeping
  <2>3. \A b \in Conns \ {c} : injob[b] # j
    BY <2>2 DEF Housekeeping, Ids, NoJob
  <2> HIDE DEF j
  <2> QED BY <1>0, <2>1, <2>2, <2>3 DEF Housekeeping
<1>8. ASSUME NEW c \in Conns, NEW j \in Ids, dispatchOpReserveJob(c, j) PROVE Housekeeping'
  <2>1. /\ cstate[c] = "wantcommand" /\ pc = "poll" /\ pc' \in {"tick", "astray"}
        /\ Removable(j)
        /\ jstate' = [jstate EXCEPT ![j] = "reserved"]
        /\ cstate' = [cstate EXCEPT ![c] = "sendjob"]
        /\ UNCHANGED <<jtube, nextId, tubes, use, watch, injob, closing>>
    BY <1>8 DEF dispatchOpReserveJob, Event, ReserveJob, DoneWith
  <2> QED BY <1>0, <2>1 DEF Removable, Housekeeping
<1>9. ASSUME NEW c \in Conns, NEW j \in Ids, dispatchOpDelete(c, j) PROVE Housekeeping'
  <2>1. /\ cstate[c] = "wantcommand" /\ pc = "poll" /\ pc' \in {"tick", "astray"}
        /\ isJobReservedByConn(c, j) \/ Removable(j)
        /\ jstate' = [jstate EXCEPT ![j] = "none"] /\ jtube' = [jtube EXCEPT ![j] = NoTube]
        /\ cstate' = [cstate EXCEPT ![c] = "sendword"]
        /\ UNCHANGED <<nextId, tubes, use, watch, injob, closing>>
    BY <1>9 DEF dispatchOpDelete, Event, Reply, JobFree, DoneWith
  <2>2. jstate[j] # "invalid"
    BY <2>1 DEF isJobReservedByConn, Removable
  <2> QED BY <1>0, <2>1, <2>2 DEF Housekeeping
<1>10. ASSUME NEW c \in Conns, NEW j \in Ids, NEW p \in Pris, NEW d \in RelDelays,
              dispatchOpRelease(c, j, p, d)
       PROVE  Housekeeping'
  <2>1. /\ cstate[c] = "wantcommand" /\ pc = "poll" /\ jstate[j] = "reserved"
        /\ EnqueueJob(j, jtube[j], p, d, [gstat EXCEPT !.reserved = @ - 1],
                      [tstat EXCEPT ![jtube[j]].reserved = @ - 1])
        /\ cstate' = [cstate EXCEPT ![c] = "sendword"]
        /\ UNCHANGED <<jtube, nextId, tubes, use, watch, injob, closing>>
    BY <1>10, ReplyState DEF dispatchOpRelease, Event, isJobReservedByConn
  <2>2. pc' = "queue" /\ jstate'[j] # "none" /\ \A k \in Ids \ {j} : jstate'[k] = jstate[k]
    <3>1. CASE d > 0 BY <1>0, <2>1, <3>1 DEF EnqueueJob
    <3>2. CASE ~(d > 0) BY <1>0, <2>1, <3>2 DEF EnqueueJob
    <3> QED BY <3>1, <3>2
  <2> QED BY <1>0, <2>1, <2>2 DEF Housekeeping
<1>11. ASSUME NEW c \in Conns, NEW n \in Nums, NEW p \in Pris, dispatchOpBury(c, n, p)
       PROVE  Housekeeping'
  <2> DEFINE j == BuryId(n)
  <2>1. /\ cstate[c] = "wantcommand" /\ pc = "poll" /\ pc' = "tick"
        /\ j \in Ids /\ jstate[j] = "reserved"
        /\ jstate' = [jstate EXCEPT ![j] = "buried"]
        /\ cstate' = [cstate EXCEPT ![c] = "sendword"]
        /\ UNCHANGED <<jtube, nextId, tubes, use, watch, injob, closing>>
    BY <1>11 DEF dispatchOpBury, isJobReservedByConn, Event, Reply, Done
  <2> HIDE DEF j
  <2> QED BY <1>0, <2>1 DEF Housekeeping
<1> QED
  BY <1>1, <1>2, <1>3, <1>4, <1>5, <1>6, <1>7, <1>8, <1>9, <1>10, <1>11 DEF MoveJob, Mover

-----------------------------------------------------------------------------
(***************************************************************************)
(* No job is left behind by a connection.                                  *)
(***************************************************************************)

\* A handler leaves its connection open.
LEMMA TalkerState ==
  ASSUME NEW c \in Conns, Talker(c)
  PROVE  \E st \in ConnStates \ {"closed"} : cstate' = [cstate EXCEPT ![c] = st]
<1> USE DEF ConnStates
<1>1. CASE hAccept(c) BY <1>1 DEF hAccept
<1>2. CASE connWantCommand(c) BY <1>2, ReplyState DEF connWantCommand
<1>3. CASE HangUp(c) BY <1>3, ReplyState DEF HangUp, Answer
<1>4. CASE connClose(c) BY <1>4 DEF connClose
<1>5. CASE PutRefused(c) BY <1>5, ReplyState DEF PutRefused, Answer
<1>6. CASE dispatchOpReserve(c) BY <1>6, ReplyState DEF dispatchOpReserve
<1>7. CASE DeadlineSoon(c) BY <1>7, ReplyState DEF DeadlineSoon, Answer
<1>8. CASE Reader(c) BY <1>8, ReaderStep, ReplyState DEF SendWord, SendCopy, Answer
<1>9. ASSUME NEW n \in Nums, dispatchOpTouch(c, n)
      PROVE  cstate' = [cstate EXCEPT ![c] = "sendword"]
  BY <1>9 DEF dispatchOpTouch, Reply
<1>10. ASSUME NEW t \in Tubes,
              dispatchOpUse(c, t) \/ dispatchOpWatch(c, t) \/ dispatchOpIgnore(c, t)
       PROVE  cstate' = [cstate EXCEPT ![c] = "sendword"]
  BY <1>10 DEF dispatchOpUse, dispatchOpWatch, dispatchOpIgnore, Answer, Reply
<1>11. ASSUME NEW t \in Tubes, NEW n \in PauseDelays, dispatchOpPauseTube(c, t, n)
       PROVE  cstate' = [cstate EXCEPT ![c] = "sendword"]
  BY <1>11 DEF dispatchOpPauseTube, Answer, Reply
<1> QED BY <1>1, <1>2, <1>3, <1>4, <1>5, <1>6, <1>7, <1>8, <1>9, <1>10, <1>11 DEF Talker

\* Nothing new is reserved and no connection goes: nothing is orphaned.
LEMMA NoneOrphaned ==
  ASSUME NoOrphans,
         \A k \in Ids : jstate'[k] = "reserved" =>
                          jstate[k] = "reserved" /\ reservoir'[k] = reservoir[k],
         \A c \in Conns : cstate[c] # "closed" => cstate'[c] # "closed"
  PROVE  NoOrphans'
  BY DEF NoOrphans

\* A connection that takes a job is open.
LEMMA NewHolder ==
  ASSUME Sound, NEW c \in Conns, NEW j \in Ids, ReserveJob(c, j)
  PROVE  NoOrphans'
<1>1. /\ jstate' = [jstate EXCEPT ![j] = "reserved"]
      /\ reservoir' = [reservoir EXCEPT ![j] = c]
      /\ cstate' = [cstate EXCEPT ![c] = "sendjob"]
  BY DEF ReserveJob
<1> QED BY <1>1 DEF Sound, TypeOK, JobTypes, ConnTypes, NoOrphans

LEMMA NoOrphansStep ==
  ASSUME Sound, Step
  PROVE  NoOrphans'
<1> USE DEF Sound
<1>0. /\ cstate \in [Conns -> ConnStates] /\ resv \in [Conns -> SUBSET Ids]
      /\ jstate \in [Ids -> JobStates] /\ reservoir \in [Ids -> Conns \cup {NoConn}]
  BY DEF TypeOK, JobTypes, ConnTypes
<1>1. ASSUME NEW c \in Conns, Talker(c) PROVE NoOrphans'
  BY <1>0, <1>1, TalkerFrame, TalkerState, NoneOrphaned DEF placeVars
<1>2. CASE CloseDone
  <2>1. /\ closing \in Conns /\ resv[closing] = {}
        /\ cstate' = [cstate EXCEPT ![closing] = "closed"]
        /\ UNCHANGED <<jstate, reservoir>>
    BY <1>2 DEF CloseDone, Housekeeping, TypeOK, LoopTypes, jobVars
  <2>2. \A j \in Ids : jstate[j] = "reserved" => reservoir[j] # closing
    BY <2>1 DEF HeldOnce
  <2> QED BY <1>0, <2>1, <2>2 DEF NoOrphans
<1>3. CASE LoopStep /\ ~CloseDone
  <2>1. UNCHANGED cstate
    BY <1>3 DEF LoopStep, ProcessQueueReturns, TickPaused, TickDone, Timeout, Clock,
                enterDrainMode, ReserveJobDies, connVars
  <2> QED BY <1>3, <2>1, LoopFrame, NoneOrphaned DEF placeVars
<1>4. CASE enqueueReservedJobs
  <2>1. closing \in Conns /\ UNCHANGED cstate
    BY <1>4 DEF enqueueReservedJobs, Housekeeping, TypeOK, LoopTypes
  <2>2. PICK j \in resv[closing] :
          EnqueueJob(j, jtube[j], pri[j], 0, [gstat EXCEPT !.reserved = @ - 1],
                     [tstat EXCEPT ![jtube[j]].reserved = @ - 1])
    BY <1>4 DEF enqueueReservedJobs
  <2>3. j \in Ids
    BY <1>0, <2>1
  <2> QED BY <1>0, <2>1, <2>2, <2>3, EnqueueFrees, NoneOrphaned
<1>5. CASE TickDelayed
  <2>1. PICK j \in Ids : EnqueueJob(j, jtube[j], pri[j], 0, gstat, tstat)
    BY <1>5 DEF TickDelayed
  <2>2. UNCHANGED cstate
    BY <1>5 DEF TickDelayed, connVars
  <2> QED BY <1>0, <2>1, <2>2, EnqueueFrees, NoneOrphaned
<1>6. CASE processQueue
  <2>1. PICK j \in Ids : /\ NextAwaitedJob(j)
                         /\ \E c \in waiting[jtube[j]] : ReserveJob(c, j)
    BY <1>6 DEF processQueue
  <2>2. jtube[j] \in Tubes
    BY <2>1 DEF NextAwaitedJob, ReadyRoot, TypeOK, TubeTypes, Placed
  <2> QED BY <2>1, <2>2, NewHolder DEF TypeOK, TubeTypes
<1>7. ASSUME NEW c \in Conns, Mover(c), \A j \in Ids : ~dispatchOpReserveJob(c, j)
      PROVE  NoOrphans'
  <2>1. ASSUME NEW j \in Ids, NEW t, NEW p, NEW d, NEW G, NEW T, EnqueueJob(j, t, p, d, G, T),
               cstate' = [cstate EXCEPT ![c] = "sendword"]
        PROVE  NoOrphans'
    BY <1>0, <2>1, EnqueueFrees, NoneOrphaned
  <2>2. ASSUME NEW p \in Pris, NEW d \in Delays, NEW n \in Ttrs, dispatchOpPut(c, p, d, n)
        PROVE  NoOrphans'
    BY <2>1, <2>2, ReplyState DEF dispatchOpPut, MakeJobWithID, EnqueueInComingJob, Answer
  <2>3. ASSUME NEW p \in Pris, NEW d \in Delays, NEW n \in Ttrs, PutHeader(c, p, d, n)
        PROVE  NoOrphans'
    BY <1>0, <2>3, NoneOrphaned DEF PutHeader, MakeJobWithID
  <2>4. CASE BodyComplete(c)
    <3>1. injob[c] \in Ids
      BY <2>4 DEF BodyComplete, Event, Housekeeping
    <3> QED BY <2>1, <2>4, <3>1, ReplyState DEF BodyComplete, EnqueueInComingJob, Answer
  <2>5. CASE BodyRefused(c)
    BY <1>0, <2>5, ReplyState, NoneOrphaned DEF BodyRefused, JobFree, Answer
  <2>6. ASSUME NEW j \in Ids, dispatchOpDelete(c, j) PROVE NoOrphans'
    <3>1. /\ jstate' = [jstate EXCEPT ![j] = "none"]
          /\ reservoir' = [reservoir EXCEPT ![j] = NoConn]
          /\ cstate' = [cstate EXCEPT ![c] = "sendword"]
      BY <2>6 DEF dispatchOpDelete, JobFree, Reply
    <3> QED BY <1>0, <3>1, NoneOrphaned
  <2>7. ASSUME NEW j \in Ids, NEW p \in Pris, NEW d \in RelDelays, dispatchOpRelease(c, j, p, d)
        PROVE  NoOrphans'
    BY <2>1, <2>7, ReplyState DEF dispatchOpRelease
  <2>8. ASSUME NEW n \in Nums, NEW p \in Pris, dispatchOpBury(c, n, p) PROVE NoOrphans'
    <3> DEFINE j == BuryId(n)
    <3>1. /\ jstate' = [jstate EXCEPT ![j] = "buried"]
          /\ reservoir' = [reservoir EXCEPT ![j] = NoConn]
          /\ cstate' = [cstate EXCEPT ![c] = "sendword"]
      BY <2>8 DEF dispatchOpBury, Reply
    <3> HIDE DEF j
    <3> QED BY <1>0, <3>1, NoneOrphaned
  <2> QED BY <1>7, <2>2, <2>3, <2>4, <2>5, <2>6, <2>7, <2>8 DEF Mover
<1>8. ASSUME NEW c \in Conns, NEW j \in Ids, dispatchOpReserveJob(c, j) PROVE NoOrphans'
  BY <1>8, NewHolder DEF dispatchOpReserveJob
<1> QED BY <1>1, <1>2, <1>3, <1>4, <1>5, <1>6, <1>7, <1>8, StepKinds DEF MoveJob

-----------------------------------------------------------------------------
(***************************************************************************)
(* The waiting lists.                                                      *)
(***************************************************************************)

\* A handler of a connection that does not wait and is not made to wait leaves the
\* lists right, whatever it does to its own watch set.
LEMMA NoWaiter ==
  ASSUME WaitersAreWaiting, NEW c \in Conns,
         cstate[c] # "wait", cstate'[c] # "wait", "waiting" \notin ctype'[c],
         \A b \in Conns \ {c} : cstate'[b] = cstate[b] /\ watch'[b] = watch[b]
                                /\ ctype'[b] = ctype[b],
         UNCHANGED waiting
  PROVE  WaitersAreWaiting'
  BY DEF WaitersAreWaiting

\* reserve: c enters the list of every tube it watches.
LEMMA WaiterEnters ==
  ASSUME Sound, NEW c \in Conns, dispatchOpReserve(c)
  PROVE  WaitersAreWaiting'
<1>1. /\ cstate[c] = "wantcommand"
      /\ cstate' = [cstate EXCEPT ![c] = "wait"]
      /\ ctype' = [ctype EXCEPT ![c] = @ \cup {"worker", "waiting"}]
      /\ waiting' = [t \in Tubes |-> IF t \in watch[c] THEN waiting[t] \cup {c} ELSE waiting[t]]
      /\ UNCHANGED watch
  BY DEF dispatchOpReserve, Event, Reply
<1> QED BY <1>1 DEF Sound, TypeOK, ConnTypes, TubeTypes, WaitersAreWaiting

\* removeWaitingCoon: c leaves all of them.
LEMMA WaiterLeaves ==
  ASSUME Sound, NEW c \in Conns, NEW st \in ConnStates \ {"wait"},
         RemoveWaitingCoon(c), cstate' = [cstate EXCEPT ![c] = st],
         ctype' = [ctype EXCEPT ![c] = @ \ {"waiting"}], UNCHANGED watch
  PROVE  WaitersAreWaiting'
  BY DEF RemoveWaitingCoon, Sound, TypeOK, ConnTypes, TubeTypes, WaitersAreWaiting

LEMMA TalkerWaiters ==
  ASSUME Sound, NEW c \in Conns, Talker(c)
  PROVE  WaitersAreWaiting'
<1> USE DEF Sound, Event, jobVars, tubeVars, statVars
<1>0. /\ cstate \in [Conns -> ConnStates]
      /\ watch \in [Conns -> SUBSET Tubes]
      /\ ctype \in [Conns -> SUBSET {"producer", "worker", "waiting"}]
      /\ "waiting" \in ctype[c] => cstate[c] = "wait"
  BY TubesAssumption DEF TypeOK, ConnTypes, WaitersAreWaiting
<1>1. CASE hAccept(c)
  BY <1>0, <1>1, NoWaiter DEF hAccept
<1>2. CASE connWantCommand(c)
  BY <1>0, <1>2, ReplyState, NoWaiter DEF connWantCommand
<1>3. CASE HangUp(c)
  BY <1>0, <1>3, ReplyState, WaiterLeaves DEF HangUp, Answer, ConnStates
<1>4. CASE connClose(c)
  BY <1>0, <1>4, NoWaiter DEF connClose
<1>5. CASE PutRefused(c)
  BY <1>0, <1>5, ReplyState, NoWaiter DEF PutRefused, SetProducer, Answer
<1>6. CASE dispatchOpReserve(c)
  BY <1>6, WaiterEnters
<1>7. CASE DeadlineSoon(c)
  BY <1>0, <1>7, ReplyState, NoWaiter DEF DeadlineSoon, Answer
<1>8. CASE Reader(c)
  <2>1. Event(c, "wantcommand") /\ Quiet /\ (SendWord(c) \/ SendCopy(c))
    BY <1>8, ReaderStep
  <2>2. PICK st \in {"sendword", "sendjob"} : cstate' = [cstate EXCEPT ![c] = st]
    BY <2>1, ReplyState DEF SendWord, SendCopy, Answer
  <2> QED BY <1>0, <2>1, <2>2, NoWaiter DEF Quiet
<1>9. ASSUME NEW n \in Nums, dispatchOpTouch(c, n) PROVE WaitersAreWaiting'
  <2>1. cstate' = [cstate EXCEPT ![c] = "sendword"]
    BY <1>9 DEF dispatchOpTouch, Reply
  <2> QED BY <1>0, <1>9, <2>1, NoWaiter DEF dispatchOpTouch
<1>10. ASSUME NEW t \in Tubes, dispatchOpUse(c, t) PROVE WaitersAreWaiting'
  BY <1>0, <1>10, ReplyState, NoWaiter DEF dispatchOpUse, Answer
<1>11. ASSUME NEW t \in Tubes, dispatchOpWatch(c, t) PROVE WaitersAreWaiting'
  BY <1>0, <1>11, ReplyState, NoWaiter DEF dispatchOpWatch, One, Answer
<1>12. ASSUME NEW t \in Tubes, dispatchOpIgnore(c, t) PROVE WaitersAreWaiting'
  BY <1>0, <1>12, ReplyState, NoWaiter DEF dispatchOpIgnore, Answer
<1>13. ASSUME NEW t \in Tubes, NEW n \in PauseDelays, dispatchOpPauseTube(c, t, n)
       PROVE  WaitersAreWaiting'
  BY <1>0, <1>13, ReplyState, NoWaiter DEF dispatchOpPauseTube, Answer
<1> QED
  BY <1>1, <1>2, <1>3, <1>4, <1>5, <1>6, <1>7, <1>8, <1>9, <1>10, <1>11, <1>12, <1>13 DEF Talker

LEMMA LoopWaiters ==
  ASSUME Sound, LoopStep
  PROVE  WaitersAreWaiting'
<1> USE DEF Sound, jobVars, tubeVars, connVars
<1>1. ASSUME UNCHANGED <<cstate, watch, ctype, waiting>> PROVE WaitersAreWaiting'
  BY <1>1 DEF WaitersAreWaiting
<1>2. CASE CloseDone
  <2>1. closing \in Conns /\ cstate[closing] = "close"
    BY <1>2 DEF CloseDone, Housekeeping, TypeOK, LoopTypes
  <2>2. /\ cstate' = [cstate EXCEPT ![closing] = "closed"]
        /\ watch' = [watch EXCEPT ![closing] = {}]
        /\ UNCHANGED <<ctype, waiting>>
    BY <1>2 DEF CloseDone
  <2> QED BY <2>1, <2>2, NoWaiter DEF TypeOK, ConnTypes, WaitersAreWaiting
<1>3. CASE ProcessQueueReturns \/ TickPaused \/ TickDone
  BY <1>1, <1>3 DEF ProcessQueueReturns, TickPaused, TickDone
<1>4. CASE Timeout \/ Clock \/ enterDrainMode
  BY <1>1, <1>4 DEF Timeout, Clock, enterDrainMode
<1>5. CASE \E c \in Conns, j \in Ids : ReserveJobDies(c, j)
  BY <1>1, <1>5 DEF ReserveJobDies
<1> QED BY <1>2, <1>3, <1>4, <1>5 DEF LoopStep

LEMMA MoveWaiters ==
  ASSUME Sound, MoveJob
  PROVE  WaitersAreWaiting'
<1> USE DEF Sound, Event, connVars, tubeVars
<1>0. /\ cstate \in [Conns -> ConnStates]
      /\ ctype \in [Conns -> SUBSET {"producer", "worker", "waiting"}]
      /\ \A c \in Conns : "waiting" \in ctype[c] => cstate[c] = "wait"
  BY TubesAssumption DEF TypeOK, ConnTypes, WaitersAreWaiting
<1>1. ASSUME UNCHANGED <<cstate, watch, ctype, waiting>> PROVE WaitersAreWaiting'
  BY <1>1 DEF WaitersAreWaiting
<1>2. CASE enqueueReservedJobs BY <1>1, <1>2 DEF enqueueReservedJobs
<1>3. CASE TickDelayed BY <1>1, <1>3 DEF TickDelayed
<1>4. CASE processQueue
  <2>1. PICK j \in Ids :
          /\ NextAwaitedJob(j)
          /\ \E c \in waiting[jtube[j]] :
               /\ RemoveWaitingCoon(c)
               /\ ctype' = [ctype EXCEPT ![c] = @ \ {"waiting"}]
               /\ ReserveJob(c, j)
    BY <1>4 DEF processQueue
  <2>2. jtube[j] \in Tubes
    BY <2>1 DEF NextAwaitedJob, ReadyRoot, TypeOK, TubeTypes, Placed
  <2>3. PICK c \in Conns :
          /\ RemoveWaitingCoon(c)
          /\ ctype' = [ctype EXCEPT ![c] = @ \ {"waiting"}]
          /\ ReserveJob(c, j)
    BY <2>1, <2>2 DEF TypeOK, TubeTypes
  <2>4. cstate' = [cstate EXCEPT ![c] = "sendjob"] /\ UNCHANGED watch
    BY <1>4, <2>3 DEF ReserveJob, processQueue
  <2> QED BY <2>3, <2>4, WaiterLeaves DEF ConnStates
<1>5. ASSUME NEW c \in Conns, NEW p \in Pris, NEW d \in Delays, NEW n \in Ttrs,
             dispatchOpPut(c, p, d, n)
      PROVE  WaitersAreWaiting'
  BY <1>0, <1>5, ReplyState, NoWaiter DEF dispatchOpPut, EnqueueInComingJob, SetProducer, Answer
<1>6. ASSUME NEW c \in Conns, NEW p \in Pris, NEW d \in Delays, NEW n \in Ttrs,
             PutHeader(c, p, d, n)
      PROVE  WaitersAreWaiting'
  BY <1>0, <1>6, NoWaiter DEF PutHeader, SetProducer
<1>7. ASSUME NEW c \in Conns, BodyComplete(c) PROVE WaitersAreWaiting'
  BY <1>0, <1>7, ReplyState, NoWaiter DEF BodyComplete, EnqueueInComingJob, Answer
<1>8. ASSUME NEW c \in Conns, BodyRefused(c) PROVE WaitersAreWaiting'
  BY <1>0, <1>8, ReplyState, NoWaiter DEF BodyRefused, Answer
<1>9. ASSUME NEW c \in Conns, NEW j \in Ids, dispatchOpReserveJob(c, j)
      PROVE  WaitersAreWaiting'
  <2>1. /\ cstate[c] = "wantcommand" /\ cstate' = [cstate EXCEPT ![c] = "sendjob"]
        /\ ctype' = [ctype EXCEPT ![c] = @ \cup {"worker"}]
        /\ UNCHANGED <<watch, waiting>>
    BY <1>9 DEF dispatchOpReserveJob, ReserveJob
  <2> QED BY <1>0, <2>1, NoWaiter
<1>10. ASSUME NEW c \in Conns, NEW j \in Ids, dispatchOpDelete(c, j)
       PROVE  WaitersAreWaiting'
  <2>1. /\ cstate[c] = "wantcommand" /\ cstate' = [cstate EXCEPT ![c] = "sendword"]
        /\ UNCHANGED <<watch, waiting, ctype>>
    BY <1>10 DEF dispatchOpDelete, Reply
  <2> QED BY <1>0, <2>1, NoWaiter
<1>11. ASSUME NEW c \in Conns, NEW j \in Ids, NEW p \in Pris, NEW d \in RelDelays,
              dispatchOpRelease(c, j, p, d)
       PROVE  WaitersAreWaiting'
  <2>1. /\ cstate[c] = "wantcommand" /\ cstate' = [cstate EXCEPT ![c] = "sendword"]
        /\ UNCHANGED <<watch, waiting, ctype>>
    BY <1>11 DEF dispatchOpRelease, Reply
  <2> QED BY <1>0, <2>1, NoWaiter
<1>12. ASSUME NEW c \in Conns, NEW n \in Nums, NEW p \in Pris, dispatchOpBury(c, n, p)
       PROVE  WaitersAreWaiting'
  <2>1. /\ cstate[c] = "wantcommand" /\ cstate' = [cstate EXCEPT ![c] = "sendword"]
        /\ UNCHANGED <<watch, waiting, ctype>>
    BY <1>12 DEF dispatchOpBury, Reply
  <2> QED BY <1>0, <2>1, NoWaiter
<1> QED
  BY <1>2, <1>3, <1>4, <1>5, <1>6, <1>7, <1>8, <1>9, <1>10, <1>11, <1>12 DEF MoveJob, Mover

-----------------------------------------------------------------------------
(***************************************************************************)
(* No job lies ready beside a worker that waits for it.                    *)
(***************************************************************************)

\* A step outside of processQueue that adds neither a ready job nor a waiter, and
\* lifts no pause, keeps the queue empty of work to hand out.
LEMMA NoNewWork ==
  ASSUME WorkConserving, pc # "queue", paused \subseteq paused',
         \A t \in Tubes : ready'[t] \subseteq ready[t] /\ waiting'[t] \subseteq waiting[t]
  PROVE  WorkConserving'
  BY DEF WorkConserving

\* When processQueue returns there is nothing left to hand out, in the tubes whose
\* pause it lifted on the way too.
LEMMA QueueEmptied ==
  ASSUME Sound, ProcessQueueReturns
  PROVE  WorkConserving'
<1> USE DEF Sound
<1>1. /\ ~\E t \in tubes : Awaited(t)
      /\ paused' = {t \in paused : unpauseIn[t] > 0}
      /\ UNCHANGED <<ready, waiting>>
  BY DEF ProcessQueueReturns, LiftPauses
<1>2. \A t \in Tubes : ready[t] # {} => t \in tubes
  BY DEF TypeOK, TubeTypes, Placed, Housekeeping
<1>3. ASSUME NEW t \in Tubes, t \notin paused' PROVE waiting[t] = {} \/ ready[t] = {}
  BY <1>1, <1>2, <1>3 DEF Awaited, Blocked
<1> QED BY <1>1, <1>3 DEF WorkConserving

LEMMA TalkerWork ==
  ASSUME Sound, NEW c \in Conns, Talker(c)
  PROVE  WorkConserving'
<1> USE DEF Sound, Event, jobVars, tubeVars
<1>1. CASE hAccept(c) BY <1>1, NoNewWork DEF hAccept
<1>2. CASE connWantCommand(c) BY <1>2, NoNewWork DEF connWantCommand
<1>3. CASE HangUp(c) BY <1>3, NoNewWork DEF HangUp, RemoveWaitingCoon
<1>4. CASE connClose(c) BY <1>4, NoNewWork DEF connClose
<1>5. CASE PutRefused(c) BY <1>5, NoNewWork DEF PutRefused
<1>6. CASE dispatchOpReserve(c) BY <1>6 DEF dispatchOpReserve, WorkConserving
<1>7. CASE DeadlineSoon(c) BY <1>7, NoNewWork DEF DeadlineSoon
<1>8. CASE Reader(c) BY <1>8, ReaderStep, NoNewWork DEF Quiet
<1>9. ASSUME NEW n \in Nums, dispatchOpTouch(c, n) PROVE WorkConserving'
  <2>1. pc # "queue" /\ UNCHANGED <<paused, ready, waiting>>
    BY <1>9 DEF dispatchOpTouch
  <2> QED BY <2>1, NoNewWork
<1>10. ASSUME NEW t \in Tubes,
              dispatchOpUse(c, t) \/ dispatchOpWatch(c, t) \/ dispatchOpIgnore(c, t)
       PROVE  WorkConserving'
  <2>1. pc # "queue" /\ UNCHANGED <<paused, ready, waiting>>
    BY <1>10 DEF dispatchOpUse, dispatchOpWatch, dispatchOpIgnore
  <2> QED BY <2>1, NoNewWork
<1>11. ASSUME NEW t \in Tubes, NEW n \in PauseDelays, dispatchOpPauseTube(c, t, n)
       PROVE  WorkConserving'
  BY <1>11, NoNewWork DEF dispatchOpPauseTube
<1> QED BY <1>1, <1>2, <1>3, <1>4, <1>5, <1>6, <1>7, <1>8, <1>9, <1>10, <1>11 DEF Talker

LEMMA LoopWork ==
  ASSUME Sound, LoopStep
  PROVE  WorkConserving'
<1> USE DEF Sound, jobVars, tubeVars
<1>1. CASE CloseDone BY <1>1, NoNewWork DEF CloseDone
<1>2. CASE ProcessQueueReturns BY <1>2, QueueEmptied
<1>3. CASE TickPaused BY <1>3 DEF TickPaused, WorkConserving
<1>4. CASE TickDone \/ Timeout \/ Clock BY <1>4, NoNewWork DEF TickDone, Timeout, Clock
<1>5. CASE enterDrainMode BY <1>5 DEF enterDrainMode, WorkConserving
<1>6. CASE \E c \in Conns, j \in Ids : ReserveJobDies(c, j)
  BY <1>6 DEF ReserveJobDies, Event, WorkConserving
<1> QED BY <1>1, <1>2, <1>3, <1>4, <1>5, <1>6 DEF LoopStep

LEMMA MoveWork ==
  ASSUME Sound, MoveJob
  PROVE  WorkConserving'
<1> USE DEF Sound, Event, tubeVars
<1>1. ASSUME pc' = "queue" PROVE WorkConserving'
  BY <1>1 DEF WorkConserving
<1>2. CASE enqueueReservedJobs BY <1>1, <1>2 DEF enqueueReservedJobs, EnqueueJob
<1>3. CASE TickDelayed BY <1>1, <1>3 DEF TickDelayed, EnqueueJob
<1>4. CASE processQueue BY <1>1, <1>4 DEF processQueue, loopVars
<1>5. ASSUME NEW c \in Conns, NEW p \in Pris, NEW d \in Delays, NEW n \in Ttrs,
             dispatchOpPut(c, p, d, n)
      PROVE  WorkConserving'
  BY <1>1, <1>5 DEF dispatchOpPut, EnqueueInComingJob, EnqueueJob
<1>6. ASSUME NEW c \in Conns, NEW p \in Pris, NEW d \in Delays, NEW n \in Ttrs,
             PutHeader(c, p, d, n)
      PROVE  WorkConserving'
  BY <1>6, NoNewWork DEF PutHeader
<1>7. ASSUME NEW c \in Conns, BodyComplete(c) PROVE WorkConserving'
  BY <1>1, <1>7 DEF BodyComplete, EnqueueInComingJob, EnqueueJob
<1>8. ASSUME NEW c \in Conns, BodyRefused(c) PROVE WorkConserving'
  BY <1>8, NoNewWork DEF BodyRefused
<1>9. ASSUME NEW c \in Conns, NEW j \in Ids, dispatchOpReserveJob(c, j) \/ dispatchOpDelete(c, j)
      PROVE  WorkConserving'
  <2>1. pc # "queue" /\ TakeOut(j) /\ UNCHANGED <<paused, waiting>>
    BY <1>9 DEF dispatchOpReserveJob, dispatchOpDelete
  <2>2. \A t \in Tubes : ready'[t] \subseteq ready[t]
    BY <2>1 DEF TakeOut, TypeOK, TubeTypes
  <2> QED BY <2>1, <2>2, NoNewWork
<1>10. ASSUME NEW c \in Conns, NEW j \in Ids, NEW p \in Pris, NEW d \in RelDelays,
              dispatchOpRelease(c, j, p, d)
       PROVE  WorkConserving'
  BY <1>1, <1>10 DEF dispatchOpRelease, EnqueueJob
<1>11. ASSUME NEW c \in Conns, NEW n \in Nums, NEW p \in Pris, dispatchOpBury(c, n, p)
       PROVE  WorkConserving'
  <2>1. pc # "queue" /\ UNCHANGED <<paused, ready, waiting>>
    BY <1>11 DEF dispatchOpBury
  <2> QED BY <2>1, NoNewWork
<1> QED
  BY <1>2, <1>3, <1>4, <1>5, <1>6, <1>7, <1>8, <1>9, <1>10, <1>11 DEF MoveJob, Mover

-----------------------------------------------------------------------------
(***************************************************************************)
(* The inductive invariant, and what follows from it.                      *)
(***************************************************************************)

\* A server that just started satisfies it.
LEMMA InitInv == Init => IndInv
<1> SUFFICES ASSUME Init PROVE IndInv
  OBVIOUS
<1> USE ConnsAssumption, TubesAssumption, NumbersAssumption DEF Init
<1>1. JobTypes BY DEF JobTypes, JobStates
<1>2. TubeTypes BY DEF TubeTypes
<1>3. ConnTypes BY DEF ConnTypes, ConnStates
<1>4. LoopTypes BY DEF LoopTypes
<1>5. Housekeeping BY DEF Housekeeping
<1>6. JobsPlaced /\ HeldOnce /\ NoOrphans BY DEF JobsPlaced, Placed, HeldOnce, NoOrphans
<1>7. WaitersAreWaiting /\ WorkConserving BY DEF WaitersAreWaiting, WorkConserving
<1> QED BY <1>1, <1>2, <1>3, <1>4, <1>5, <1>6, <1>7 DEF IndInv, TypeOK

\* Every handler and every step of the loop preserves it.
LEMMA StepInv == IndInv /\ [Next]_vars => IndInv'
<1> SUFFICES ASSUME IndInv, [Next]_vars PROVE IndInv'
  OBVIOUS
<1>1. CASE Sound /\ Step
  <2>1. TypeOK'
    BY <1>1, StepKinds, MoveTypes, LoopStepTypes, TalkerTypes DEF Sound
  <2>2. Housekeeping'
    BY <1>1, StepKinds, MoveHousekeeping, LoopHousekeeping, TalkerHousekeeping DEF Sound
  <2>3. JobsPlaced' /\ HeldOnce' /\ NoOrphans'
    BY <1>1, JobsPlacedStep, ReservedOnceStep, NoOrphansStep
  <2>4. WaitersAreWaiting'
    BY <1>1, StepKinds, MoveWaiters, LoopWaiters, TalkerWaiters
  <2>5. WorkConserving'
    BY <1>1, StepKinds, MoveWork, LoopWork, TalkerWork
  <2> QED BY <2>1, <2>2, <2>3, <2>4, <2>5 DEF IndInv
<1>2. CASE UNCHANGED vars
  <2> USE <1>2 DEF vars, jobVars, tubeVars, connVars, loopVars, IndInv
  <2>1. TypeOK' BY DEF TypeOK, JobTypes, TubeTypes, ConnTypes, LoopTypes
  <2>2. Housekeeping' BY DEF Housekeeping
  <2>3. JobsPlaced' /\ HeldOnce' /\ NoOrphans' BY DEF JobsPlaced, Placed, HeldOnce, NoOrphans
  <2>4. WaitersAreWaiting' /\ WorkConserving' BY DEF WaitersAreWaiting, WorkConserving
  <2> QED BY <2>1, <2>2, <2>3, <2>4
<1> QED BY <1>1, <1>2, StepFinds

\* The invariant the theorems below are read off, after any sequence of commands,
\* hang-ups, closes and timeouts.
THEOREM Invariance == Spec => []IndInv
  BY InitInv, StepInv, PTL DEF Spec

\* Every field of every job, tube and connection keeps its type.
THEOREM TypeCorrect == Spec => []TypeOK
<1>1. IndInv => TypeOK BY DEF IndInv
<1> QED BY <1>1, Invariance, PTL

\* Ids, tubes and incoming jobs stay consistent: MakeJobWithID never hands out an id
\* in use, and two connections never read a body into the same job.
THEOREM KeepsHouse == Spec => []Housekeeping
<1>1. IndInv => Housekeeping BY DEF IndInv
<1> QED BY <1>1, Invariance, PTL

\* enqueueJob, BuryJob and the remove functions keep every job in the one container
\* its state names, until a delete or a reserve-job takes the root out of a heap in
\* place of the job it names.
THEOREM PlacesJobs == Spec => []JobsPlaced
<1>1. IndInv => JobsPlaced BY DEF IndInv
<1> QED BY <1>1, Invariance, PTL

\* No job is left reserved by a connection that is gone: enqueueReservedJobs, called
\* by connClose, gives back all of them.
THEOREM LeavesNoOrphans == Spec => []NoOrphans
<1>1. IndInv => NoOrphans BY DEF IndInv
<1> QED BY <1>1, Invariance, PTL

\* No job is reserved by two connections, as long as no job has gone astray.
THEOREM ReservesOnce == Spec => []ReservedOnce
<1>1. IndInv => ReservedOnce BY DEF IndInv, ReservedOnce
<1> QED BY <1>1, Invariance, PTL

\* enqueueWaitingConn and removeWaitingCoon keep the lists of the tubes in step with
\* the connections.
THEOREM ListsWaiters == Spec => []WaitersAreWaiting
<1>1. IndInv => WaitersAreWaiting BY DEF IndInv
<1> QED BY <1>1, Invariance, PTL

\* Whoever makes a job ready, starts to wait or lifts a pause calls processQueue, and
\* processQueue returns only when nothing can be handed out.
THEOREM ConservesWork == Spec => []WorkConserving
<1>1. IndInv => WorkConserving BY DEF IndInv
<1> QED BY <1>1, Invariance, PTL

-----------------------------------------------------------------------------
(***************************************************************************)
(* The server implements WorkQueue.  Promise maps the containers of the    *)
(* tubes to their unions; when every job is in its place these are the     *)
(* sets of the jobs in the one state or the other, so that a step is       *)
(* mapped by what it does to the state of one job.                         *)
(***************************************************************************)
Fresh == {j \in Ids : j >= nextId}
AllReady == UNION {ready[t] : t \in Tubes}
AllDelayed == UNION {delay[t] : t \in Tubes}

\* The jobs in the heaps of one kind are the jobs in the state of that name.
LEMMA UnionOfHeaps ==
  ASSUME NEW heap \in [Tubes -> SUBSET Ids], NEW state, NEW tube, NEW s,
         \A j \in Ids : state[j] = s => tube[j] \in Tubes,
         \A j \in Ids, t \in Tubes : j \in heap[t] <=> state[j] = s /\ tube[j] = t
  PROVE  UNION {heap[t] : t \in Tubes} = {j \in Ids : state[j] = s}
  OBVIOUS

LEMMA HeapsAreStates ==
  ASSUME Sound
  PROVE  AllReady = InState("ready") /\ AllDelayed = InState("delayed")
<1>1. /\ ready \in [Tubes -> SUBSET Ids] /\ delay \in [Tubes -> SUBSET Ids]
      /\ \A j \in Ids : jstate[j] # "none" => jtube[j] \in Tubes
  BY DEF Sound, TypeOK, TubeTypes, Housekeeping
<1>2. AllReady = InState("ready")
  BY <1>1, UnionOfHeaps DEF Sound, Placed, AllReady, InState
<1>3. AllDelayed = InState("delayed")
  BY <1>1, UnionOfHeaps DEF Sound, Placed, AllDelayed, InState
<1> QED BY <1>2, <1>3

LEMMA HeapsAreStatesNext ==
  ASSUME Sound'
  PROVE  AllReady' = InState("ready")' /\ AllDelayed' = InState("delayed")'
<1>1. /\ ready' \in [Tubes -> SUBSET Ids] /\ delay' \in [Tubes -> SUBSET Ids]
      /\ \A j \in Ids : jstate'[j] # "none" => jtube'[j] \in Tubes
  BY DEF Sound, TypeOK, TubeTypes, Housekeeping
<1>2. AllReady' = InState("ready")'
  BY <1>1, UnionOfHeaps DEF Sound, Placed, AllReady, InState
<1>3. AllDelayed' = InState("delayed")'
  BY <1>1, UnionOfHeaps DEF Sound, Placed, AllDelayed, InState
<1> QED BY <1>2, <1>3

\* What one job's change of state does to every place.
Become(j, s) ==
  /\ InState("invalid")' = IF s = "invalid" THEN InState("invalid") \cup {j}
                                            ELSE InState("invalid") \ {j}
  /\ AllReady' = IF s = "ready" THEN AllReady \cup {j} ELSE AllReady \ {j}
  /\ AllDelayed' = IF s = "delayed" THEN AllDelayed \cup {j} ELSE AllDelayed \ {j}
  /\ InState("buried")' = IF s = "buried" THEN InState("buried") \cup {j}
                                          ELSE InState("buried") \ {j}

LEMMA OneJobMoves ==
  ASSUME Sound, Sound', NEW j \in Ids, NEW s, jstate' = [jstate EXCEPT ![j] = s]
  PROVE  Become(j, s)
<1>1. \A x : InState(x)' = IF s = x THEN InState(x) \cup {j} ELSE InState(x) \ {j}
  BY DEF Sound, TypeOK, JobTypes, InState
<1> QED BY <1>1, HeapsAreStates, HeapsAreStatesNext DEF Become

\* Where a job is before the step, by its state.
LEMMA WhereItIs ==
  ASSUME Sound, NEW j \in Ids
  PROVE  /\ jstate[j] = "ready" <=> j \in AllReady
         /\ jstate[j] = "delayed" <=> j \in AllDelayed
         /\ jstate[j] = "buried" <=> j \in InState("buried")
         /\ jstate[j] = "invalid" <=> j \in InState("invalid")
  BY HeapsAreStates DEF InState

\* A job enqueued without a delay is ready.
LEMMA EnqueueNow ==
  ASSUME NEW j, NEW t, NEW p, NEW G, NEW T, EnqueueJob(j, t, p, 0, G, T)
  PROVE  jstate' = [jstate EXCEPT ![j] = "ready"]
<1>1. ~(0 > 0)
  OBVIOUS
<1> QED BY <1>1 DEF EnqueueJob

\* The moves of WorkQueue, each by the states it leads from and to.
LEMMA MapSubmit ==
  ASSUME Sound, Sound', nextId \in Ids, nextId' = nextId + 1, UNCHANGED resv,
         \/ \E s \in {"invalid", "ready", "delayed"} : jstate' = [jstate EXCEPT ![nextId] = s]
         \/ UNCHANGED <<jstate, ready, delay>>
  PROVE  \E j \in Ids : Promise!Submit(j)
<1>0. PICK j \in Ids : j = nextId
  OBVIOUS
<1>1. j \in Fresh /\ Fresh' = Fresh \ {j}
  <2>1. MaxJobs \in Nat /\ nextId \in Int /\ Ids \subseteq Int
    BY NumbersAssumption DEF Ids
  <2>2. j \in Fresh /\ \A i \in Ids : i \in Fresh' <=> i \in Fresh /\ i # j
    BY <1>0, <2>1 DEF Fresh
  <2>3. Fresh \subseteq Ids /\ Fresh' \subseteq Ids
    BY DEF Fresh
  <2> QED BY <2>2, <2>3
<1>2. jstate[j] = "none"
  BY <1>0, NumbersAssumption DEF Sound, Housekeeping, Ids
<1>3. CASE UNCHANGED <<jstate, ready, delay>>
  BY <1>1, <1>3 DEF Promise!Submit, Fresh, InState
<1>4. ASSUME NEW s \in {"invalid", "ready", "delayed"}, jstate' = [jstate EXCEPT ![j] = s]
      PROVE  Promise!Submit(j)
  <2>1. Become(j, s)
    BY <1>0, <1>4, OneJobMoves
  <2>2. j \notin InState("invalid") \cup AllReady \cup AllDelayed \cup InState("buried")
    BY <1>2, WhereItIs
  <2>3. /\ InState("buried")' = InState("buried")
        /\ s = "invalid" => /\ InState("invalid")' = InState("invalid") \cup {j}
                            /\ AllReady' = AllReady /\ AllDelayed' = AllDelayed
        /\ s = "ready" => /\ InState("invalid")' = InState("invalid")
                          /\ AllReady' = AllReady \cup {j} /\ AllDelayed' = AllDelayed
        /\ s = "delayed" => /\ InState("invalid")' = InState("invalid")
                            /\ AllReady' = AllReady /\ AllDelayed' = AllDelayed \cup {j}
    BY <2>1, <2>2 DEF Become
  <2> QED BY <1>1, <2>3 DEF Promise!Submit, Fresh, AllReady, AllDelayed
<1> QED BY <1>0, <1>3, <1>4

LEMMA MapArrive ==
  ASSUME Sound, Sound', NEW j \in Ids, jstate[j] = "invalid", UNCHANGED <<nextId, resv>>,
         NEW s \in {"none", "ready", "delayed"}, jstate' = [jstate EXCEPT ![j] = s]
  PROVE  Promise!Arrive(j)
<1>1. Become(j, s)
  BY OneJobMoves
<1>2. j \in InState("invalid") /\ j \notin AllReady \cup AllDelayed \cup InState("buried")
  BY WhereItIs
<1>3. Fresh' = Fresh
  BY DEF Fresh
<1>4. /\ InState("buried")' = InState("buried")
      /\ InState("invalid")' = InState("invalid") \ {j}
      /\ s = "none" => AllReady' = AllReady /\ AllDelayed' = AllDelayed
      /\ s = "ready" => AllReady' = AllReady \cup {j} /\ AllDelayed' = AllDelayed
      /\ s = "delayed" => AllReady' = AllReady /\ AllDelayed' = AllDelayed \cup {j}
  BY <1>1, <1>2 DEF Become
<1> QED BY <1>2, <1>3, <1>4 DEF Promise!Arrive, Fresh, AllReady, AllDelayed

LEMMA MapReserve ==
  ASSUME Sound, Sound', NEW j \in Ids, NEW c \in Conns,
         jstate[j] \in {"ready", "delayed", "buried"}, UNCHANGED nextId,
         jstate' = [jstate EXCEPT ![j] = "reserved"], resv' = [resv EXCEPT ![c] = @ \cup {j}]
  PROVE  Promise!Reserve(c, j)
<1>1. Become(j, "reserved")
  BY OneJobMoves
<1>2. j \in AllReady \cup AllDelayed \cup InState("buried") /\ j \notin InState("invalid")
  BY WhereItIs
<1> QED BY <1>1, <1>2 DEF Promise!Reserve, Promise!Leave, Become, AllReady, AllDelayed

LEMMA MapDelete ==
  ASSUME Sound, Sound', NEW j \in Ids, jstate[j] \in {"ready", "delayed", "buried"},
         UNCHANGED <<nextId, resv>>, jstate' = [jstate EXCEPT ![j] = "none"]
  PROVE  Promise!Delete(j)
<1>1. Become(j, "none")
  BY OneJobMoves
<1>2. j \in AllReady \cup AllDelayed \cup InState("buried") /\ j \notin InState("invalid")
  BY WhereItIs
<1> QED BY <1>1, <1>2 DEF Promise!Delete, Promise!Leave, Become, AllReady, AllDelayed

LEMMA MapReturn ==
  ASSUME Sound, Sound', NEW j \in Ids, NEW c \in Conns, jstate[j] = "reserved",
         j \in resv[c], UNCHANGED nextId, resv' = [resv EXCEPT ![c] = @ \ {j}],
         NEW s \in {"none", "ready", "delayed", "buried"}, jstate' = [jstate EXCEPT ![j] = s]
  PROVE  Promise!Return(c, j)
<1>1. Become(j, s)
  BY OneJobMoves
<1>2. j \notin AllReady \cup AllDelayed \cup InState("buried") \cup InState("invalid")
  BY WhereItIs
<1>3. Fresh' = Fresh
  BY DEF Fresh
<1>4. /\ InState("invalid")' = InState("invalid")
      /\ AllReady' = IF s = "ready" THEN AllReady \cup {j} ELSE AllReady
      /\ AllDelayed' = IF s = "delayed" THEN AllDelayed \cup {j} ELSE AllDelayed
      /\ InState("buried")' = IF s = "buried" THEN InState("buried") \cup {j}
                                              ELSE InState("buried")
  BY <1>1, <1>2 DEF Become
<1> QED BY <1>2, <1>3, <1>4 DEF Promise!Return, Fresh, AllReady, AllDelayed

LEMMA MapMature ==
  ASSUME Sound, Sound', NEW j \in Ids, jstate[j] = "delayed", UNCHANGED <<nextId, resv>>,
         jstate' = [jstate EXCEPT ![j] = "ready"]
  PROVE  Promise!Mature(j)
<1>1. Become(j, "ready")
  BY OneJobMoves
<1>2. j \in AllDelayed /\ j \notin InState("buried") \cup InState("invalid")
  BY WhereItIs
<1>3. Fresh' = Fresh
  BY DEF Fresh
<1>4. /\ InState("invalid")' = InState("invalid") /\ InState("buried")' = InState("buried")
      /\ AllDelayed' = AllDelayed \ {j} /\ AllReady' = AllReady \cup {j}
  BY <1>1, <1>2 DEF Become
<1> QED BY <1>2, <1>3, <1>4 DEF Promise!Mature, Fresh, AllReady, AllDelayed

\* Every step of the server is a step of WorkQueue, or none.
LEMMA MoverMaps ==
  ASSUME Sound, Sound', NEW c \in Conns, Mover(c)
  PROVE  Promise!Move
<1> USE DEF Promise!Move
<1>1. ASSUME NEW p \in Pris, NEW d \in Delays, NEW n \in Ttrs,
             dispatchOpPut(c, p, d, n) \/ PutHeader(c, p, d, n)
      PROVE  Promise!Move
  <2>1. nextId \in Ids /\ nextId' = nextId + 1 /\ UNCHANGED resv
    BY <1>1 DEF dispatchOpPut, PutHeader, MakeJobWithID
  <2>2. \E s \in {"invalid", "ready", "delayed"} : jstate' = [jstate EXCEPT ![nextId] = s]
    BY <1>1 DEF dispatchOpPut, PutHeader, EnqueueInComingJob, EnqueueJob
  <2> QED BY <2>1, <2>2, MapSubmit
<1>2. CASE BodyComplete(c) \/ BodyRefused(c)
  <2>1. injob[c] \in Ids /\ jstate[injob[c]] = "invalid" /\ UNCHANGED <<nextId, resv>>
    BY <1>2 DEF BodyComplete, BodyRefused, Event, JobFree, Sound, Housekeeping
  <2>2. \E s \in {"none", "ready", "delayed"} : jstate' = [jstate EXCEPT ![injob[c]] = s]
    BY <1>2 DEF BodyComplete, BodyRefused, JobFree, EnqueueInComingJob, EnqueueJob
  <2> QED BY <2>1, <2>2, MapArrive
<1>3. ASSUME NEW j \in Ids, dispatchOpReserveJob(c, j) PROVE Promise!Move
  <2>1. /\ jstate[j] \in {"ready", "delayed", "buried"} /\ UNCHANGED nextId
        /\ jstate' = [jstate EXCEPT ![j] = "reserved"]
        /\ resv' = [resv EXCEPT ![c] = @ \cup {j}]
    BY <1>3 DEF dispatchOpReserveJob, Removable, ReserveJob
  <2> QED BY <2>1, MapReserve
<1>4. ASSUME NEW j \in Ids, dispatchOpDelete(c, j) PROVE Promise!Move
  <2>1. /\ isJobReservedByConn(c, j) \/ Removable(j)
        /\ jstate' = [jstate EXCEPT ![j] = "none"] /\ UNCHANGED nextId
        /\ resv' = [resv EXCEPT ![c] = @ \ {j}]
    BY <1>4 DEF dispatchOpDelete, JobFree
  <2>2. CASE isJobReservedByConn(c, j)
    <3>1. jstate[j] = "reserved" /\ j \in resv[c]
      BY <2>2 DEF isJobReservedByConn, Sound, HeldOnce
    <3> QED BY <2>1, <3>1, MapReturn
  <2>3. CASE Removable(j)
    <3>1. jstate[j] \in {"ready", "delayed", "buried"}
      BY <2>3 DEF Removable
    <3>2. j \notin resv[c] /\ resv \in [Conns -> SUBSET Ids]
      BY <3>1 DEF Sound, HeldOnce, TypeOK, ConnTypes
    <3>3. UNCHANGED resv
      BY <2>1, <3>2
    <3> QED BY <2>1, <3>1, <3>3, MapDelete
  <2> QED BY <2>1, <2>2, <2>3
<1>5. ASSUME NEW j \in Ids, NEW p \in Pris, NEW d \in RelDelays, dispatchOpRelease(c, j, p, d)
      PROVE  Promise!Move
  <2>1. /\ jstate[j] = "reserved" /\ j \in resv[c] /\ UNCHANGED nextId
        /\ resv' = [resv EXCEPT ![c] = @ \ {j}]
        /\ \E s \in {"none", "ready", "delayed", "buried"} : jstate' = [jstate EXCEPT ![j] = s]
    BY <1>5 DEF dispatchOpRelease, isJobReservedByConn, EnqueueJob, Sound, HeldOnce
  <2> QED BY <2>1, MapReturn
<1>6. ASSUME NEW n \in Nums, NEW p \in Pris, dispatchOpBury(c, n, p) PROVE Promise!Move
  <2> DEFINE j == BuryId(n)
  <2>1. /\ j \in Ids /\ jstate[j] = "reserved" /\ reservoir[j] = c /\ UNCHANGED nextId
        /\ resv' = [resv EXCEPT ![c] = @ \ {j}]
        /\ jstate' = [jstate EXCEPT ![j] = "buried"]
    BY <1>6 DEF dispatchOpBury, isJobReservedByConn
  <2> HIDE DEF j
  <2>2. j \in resv[c]
    BY <2>1 DEF Sound, HeldOnce
  <2> QED BY <2>1, <2>2, MapReturn
<1> QED BY <1>1, <1>2, <1>3, <1>4, <1>5, <1>6 DEF Mover

LEMMA MoveMaps ==
  ASSUME Sound, Sound', MoveJob
  PROVE  Promise!Move
<1> USE DEF Promise!Move
<1>1. CASE enqueueReservedJobs
  <2>1. closing \in Conns
    BY <1>1 DEF enqueueReservedJobs, Sound, Housekeeping, TypeOK, LoopTypes
  <2>2. PICK j \in resv[closing] :
          /\ EnqueueJob(j, jtube[j], pri[j], 0, [gstat EXCEPT !.reserved = @ - 1],
                        [tstat EXCEPT ![jtube[j]].reserved = @ - 1])
          /\ resv' = [resv EXCEPT ![closing] = @ \ {j}]
    BY <1>1 DEF enqueueReservedJobs
  <2>3. j \in Ids /\ jstate[j] = "reserved"
    BY <2>1 DEF Sound, HeldOnce, TypeOK, ConnTypes
  <2>4. jstate' = [jstate EXCEPT ![j] = "ready"] /\ UNCHANGED nextId
    BY <1>1, <2>2, EnqueueNow DEF enqueueReservedJobs
  <2> QED BY <2>1, <2>2, <2>3, <2>4, MapReturn
<1>2. CASE processQueue
  <2>1. PICK j \in Ids : /\ NextAwaitedJob(j)
                         /\ \E c \in waiting[jtube[j]] : ReserveJob(c, j)
    BY <1>2 DEF processQueue
  <2>2. jstate[j] = "ready" /\ jtube[j] \in Tubes
    BY <2>1 DEF NextAwaitedJob, ReadyRoot, Sound, TypeOK, TubeTypes, Placed
  <2>3. PICK c \in Conns : ReserveJob(c, j)
    BY <2>1, <2>2 DEF Sound, TypeOK, TubeTypes
  <2>4. UNCHANGED nextId
    BY <1>2 DEF processQueue
  <2> QED BY <2>2, <2>3, <2>4, MapReserve DEF ReserveJob
<1>3. CASE TickDelayed
  <2>1. PICK j \in Ids : Due(j) /\ EnqueueJob(j, jtube[j], pri[j], 0, gstat, tstat)
    BY <1>3 DEF TickDelayed
  <2>2. jstate[j] = "delayed"
    BY <2>1 DEF Due, SoonestDelayedJob, DelayRoot, Sound, TypeOK, TubeTypes, Placed
  <2>3. jstate' = [jstate EXCEPT ![j] = "ready"] /\ UNCHANGED <<nextId, resv>>
    BY <1>3, <2>1, EnqueueNow DEF TickDelayed, connVars
  <2> QED BY <2>2, <2>3, MapMature
<1> QED BY <1>1, <1>2, <1>3, MoverMaps DEF MoveJob

\* A step that moves no job is a refused put, or no step of WorkQueue.
LEMMA OtherMaps ==
  ASSUME Sound, Sound', LoopStep \/ \E c \in Conns : Talker(c), pc # "astray", pc' # "astray"
  PROVE  Promise!Move \/ UNCHANGED Promise!vars
<1>1. UNCHANGED placeVars
  BY TalkerFrame, LoopFrame
<1>2. CASE UNCHANGED nextId
  BY <1>1, <1>2 DEF Promise!vars, placeVars, InState
<1>3. CASE \E c \in Conns : PutRefused(c)
  <2>1. nextId \in Ids /\ nextId' = nextId + 1
    BY <1>3 DEF PutRefused
  <2> QED BY <1>1, <2>1, MapSubmit DEF Promise!Move, placeVars
<1>4. UNCHANGED nextId \/ \E c \in Conns : PutRefused(c)
  <2> USE DEF jobVars
  <2>1. CASE LoopStep
    BY <2>1 DEF LoopStep, CloseDone, ProcessQueueReturns, TickPaused, TickDone, Timeout, Clock,
                enterDrainMode, ReserveJobDies
  <2>2. ASSUME NEW c \in Conns, Talker(c) PROVE UNCHANGED nextId \/ PutRefused(c)
    <3>1. CASE hAccept(c) \/ connWantCommand(c) \/ HangUp(c) \/ connClose(c)
      BY <3>1 DEF hAccept, connWantCommand, HangUp, connClose
    <3>2. CASE dispatchOpReserve(c) \/ DeadlineSoon(c)
      BY <3>2 DEF dispatchOpReserve, DeadlineSoon
    <3>3. CASE Reader(c)
      BY <3>3, ReaderStep DEF Quiet
    <3>4. CASE \E n \in Nums : dispatchOpTouch(c, n)
      BY <3>4 DEF dispatchOpTouch
    <3>5. CASE \E t \in Tubes : \/ dispatchOpUse(c, t) \/ dispatchOpWatch(c, t)
                                \/ dispatchOpIgnore(c, t)
      BY <3>5 DEF dispatchOpUse, dispatchOpWatch, dispatchOpIgnore
    <3>6. CASE \E t \in Tubes, n \in PauseDelays : dispatchOpPauseTube(c, t, n)
      BY <3>6 DEF dispatchOpPauseTube
    <3> QED BY <2>2, <3>1, <3>2, <3>3, <3>4, <3>5, <3>6 DEF Talker
  <2> QED BY <2>1, <2>2
<1> QED BY <1>2, <1>3, <1>4

\* Only a delete or a reserve-job that misses its job sends one astray, and the job
\* that it named is queued.
LEMMA GoesAstray ==
  ASSUME Sound, Step, pc # "astray", pc' = "astray"
  PROVE  Promise!GoAstray
<1>1. CASE enqueueReservedJobs \/ TickDelayed \/ processQueue
  BY <1>1 DEF enqueueReservedJobs, TickDelayed, processQueue, loopVars, EnqueueJob, Sound,
              TypeOK
<1>2. CASE LoopStep
  BY <1>2 DEF LoopStep, CloseDone, ProcessQueueReturns, TickPaused, TickDone, Timeout, Clock,
              enterDrainMode, ReserveJobDies, Done
<1>3. ASSUME NEW c \in Conns, Talker(c) PROVE FALSE
  BY <1>3, ReaderStep
  DEF Talker, hAccept, connWantCommand, HangUp, connClose, PutRefused, dispatchOpReserve,
      DeadlineSoon, dispatchOpTouch, dispatchOpUse, dispatchOpWatch, dispatchOpIgnore,
      dispatchOpPauseTube, Done, Quiet
<1>4. ASSUME NEW c \in Conns, NEW j \in Ids, dispatchOpReserveJob(c, j) \/ dispatchOpDelete(c, j)
      PROVE  Promise!GoAstray
  <2>1. jstate[j] \in {"ready", "delayed"}
    BY <1>4 DEF dispatchOpReserveJob, dispatchOpDelete, DoneWith, InItsPlace
  <2>2. j \in AllReady \/ j \in AllDelayed
    BY <2>1, HeapsAreStates DEF InState
  <2> QED BY <2>2 DEF Promise!GoAstray, AllReady, AllDelayed
<1>5. ASSUME NEW c \in Conns, Mover(c),
             \A j \in Ids : ~dispatchOpReserveJob(c, j) /\ ~dispatchOpDelete(c, j)
      PROVE  FALSE
  <2>1. CASE \/ \E p \in Pris, d \in Delays, n \in Ttrs : dispatchOpPut(c, p, d, n)
             \/ BodyComplete(c)
             \/ \E j \in Ids, p \in Pris, d \in RelDelays : dispatchOpRelease(c, j, p, d)
    BY <2>1, EnqueueNow DEF dispatchOpPut, BodyComplete, EnqueueInComingJob, dispatchOpRelease,
                            EnqueueJob
  <2>2. CASE \/ \E p \in Pris, d \in Delays, n \in Ttrs : PutHeader(c, p, d, n)
             \/ BodyRefused(c)
             \/ \E n \in Nums, p \in Pris : dispatchOpBury(c, n, p)
    BY <2>2 DEF PutHeader, BodyRefused, dispatchOpBury, Done
  <2> QED BY <1>5, <2>1, <2>2 DEF Mover
<1> QED BY <1>1, <1>2, <1>3, <1>4, <1>5, StepKinds DEF MoveJob

\* KeepsPromise, for every instance: the server implements WorkQueue.  Until a job goes
\* astray no step loses an accepted job, copies it, or takes it from the worker that
\* holds it.
THEOREM ServerKeepsPromise == Spec => KeepsPromise
<1>1. Init => Promise!Init
  BY DEF Init, Promise!Init, InState, Ids
<1>2. IndInv /\ IndInv' /\ [Next]_vars => [Promise!Next]_(Promise!vars)
  <2>1. ASSUME IndInv', Sound, Step, pc # "astray" PROVE [Promise!Next]_(Promise!vars)
    <3>1. CASE pc' = "astray"
      BY <2>1, <3>1, GoesAstray DEF Promise!Next
    <3>2. CASE pc' # "astray"
      <4>1. Sound'
        BY <2>1, <3>2 DEF IndInv, Sound, JobsPlaced
      <4>2. Promise!Move \/ UNCHANGED Promise!vars
        BY <2>1, <3>2, <4>1, StepKinds, MoveMaps, OtherMaps
      <4> QED BY <2>1, <3>2, <4>2 DEF Promise!Next
    <3> QED BY <3>1, <3>2
  <2>2. ASSUME UNCHANGED vars PROVE UNCHANGED Promise!vars
    BY <2>2 DEF vars, jobVars, tubeVars, connVars, loopVars, Promise!vars, InState
  <2>3. ASSUME Next, ~(UNCHANGED vars) PROVE Step /\ pc # "astray"
    BY <2>3 DEF Next, End, Ended
  <2> QED BY <2>1, <2>2, <2>3, StepFinds
<1> QED BY <1>1, <1>2, Invariance, PTL DEF Spec, KeepsPromise, Promise!Spec
-----------------------------------------------------------------------------
(***************************************************************************)
(* The job that is being sent belongs to its reader.                       *)
(***************************************************************************)

\* A handler that answers ends in one state, and touches no other connection.
LEMMA OutJobAnswered ==
  ASSUME TypeOK, OutJobHeld, NEW c \in Conns, NEW st \in ConnStates, NEW R \in SUBSET Ids,
         st # "sendjob", cstate[c] # "sendjob" \/ outjob'[c] = NoJob,
         cstate' = [cstate EXCEPT ![c] = st],
         outjob' = outjob \/ outjob' = [outjob EXCEPT ![c] = NoJob],
         resv' = [resv EXCEPT ![c] = R]
  PROVE  OutJobHeld'
  BY DEF OutJobHeld, TypeOK, ConnTypes

LEMMA OutJobReserved ==
  ASSUME TypeOK, OutJobHeld, NEW c \in Conns, NEW j \in Ids, ReserveJob(c, j)
  PROVE  OutJobHeld'
  BY DEF OutJobHeld, ReserveJob, TypeOK, ConnTypes

LEMMA TalkerOutJob ==
  ASSUME TypeOK, OutJobHeld, NEW c \in Conns, Talker(c)
  PROVE  OutJobHeld'
<1>0. /\ {"wantcommand", "sendword", "sendjob", "wait", "close"} \subseteq ConnStates
      /\ resv' = resv /\ resv[c] \in SUBSET Ids /\ resv' = [resv EXCEPT ![c] = resv[c]]
  BY TalkerFrame DEF placeVars, ConnStates, TypeOK, ConnTypes
<1>1. CASE hAccept(c)
  BY <1>0, <1>1, OutJobAnswered DEF Event, hAccept
<1>2. CASE connWantCommand(c)
  <2>1. outjob'[c] = NoJob
    BY <1>2 DEF connWantCommand, TypeOK, ConnTypes
  <2> QED BY <1>0, <1>2, <2>1, OutJobAnswered DEF Reply, connWantCommand
<1>3. CASE HangUp(c)
  BY <1>0, <1>3, OutJobAnswered DEF Event, Reply, HangUp, Answer
<1>4. CASE connClose(c)
  BY <1>0, <1>4, OutJobAnswered DEF Event, connClose
<1>5. CASE PutRefused(c)
  BY <1>0, <1>5, OutJobAnswered DEF Event, Reply, PutRefused, Answer
<1>6. CASE dispatchOpReserve(c)
  BY <1>0, <1>6, OutJobAnswered DEF Event, Reply, dispatchOpReserve
<1>7. CASE DeadlineSoon(c)
  BY <1>0, <1>7, OutJobAnswered DEF Event, Reply, DeadlineSoon, Answer
<1>8. CASE Reader(c)
  <2>1. Event(c, "wantcommand") /\ (SendWord(c) \/ SendCopy(c))
    BY <1>8, ReaderStep
  <2>2. CASE SendWord(c)
    BY <1>0, <2>1, <2>2, OutJobAnswered DEF Event, Reply, SendWord, Answer
  <2>3. CASE SendCopy(c)
    BY <1>0, <2>3 DEF Reply, SendCopy, OutJobHeld, TypeOK, ConnTypes
  <2> QED BY <2>1, <2>2, <2>3
<1>9. CASE \E n \in Nums : dispatchOpTouch(c, n)
  BY <1>0, <1>9, OutJobAnswered DEF Event, Reply, dispatchOpTouch
<1>10. CASE \E t \in Tubes : \/ dispatchOpUse(c, t) \/ dispatchOpWatch(c, t)
                             \/ dispatchOpIgnore(c, t)
  BY <1>0, <1>10, OutJobAnswered
  DEF Event, Reply, dispatchOpUse, dispatchOpWatch, dispatchOpIgnore, Answer
<1>11. CASE \E t \in Tubes, n \in PauseDelays : dispatchOpPauseTube(c, t, n)
  BY <1>0, <1>11, OutJobAnswered DEF Event, Reply, dispatchOpPauseTube, Answer
<1> QED BY <1>1, <1>2, <1>3, <1>4, <1>5, <1>6, <1>7, <1>8, <1>9, <1>10, <1>11 DEF Talker

LEMMA LoopOutJob ==
  ASSUME TypeOK, Housekeeping, OutJobHeld, LoopStep
  PROVE  OutJobHeld'
<1> USE DEF connVars
<1>1. CASE CloseDone
  <2>1. closing \in Conns /\ cstate[closing] = "close"
    BY <1>1 DEF CloseDone, Housekeeping, TypeOK, LoopTypes
  <2> QED BY <1>1, <2>1 DEF CloseDone, OutJobHeld, TypeOK, ConnTypes
<1>2. CASE ProcessQueueReturns \/ TickPaused \/ TickDone \/ Timeout
  BY <1>2 DEF ProcessQueueReturns, TickPaused, TickDone, Timeout, OutJobHeld
<1>3. CASE Clock \/ enterDrainMode
  BY <1>3 DEF Clock, enterDrainMode, OutJobHeld
<1>4. CASE \E c \in Conns, j \in Ids : ReserveJobDies(c, j)
  BY <1>4 DEF ReserveJobDies, OutJobHeld
<1> QED BY <1>1, <1>2, <1>3, <1>4 DEF LoopStep

LEMMA MoverOutJob ==
  ASSUME Sound, OutJobHeld, NEW c \in Conns, Mover(c)
  PROVE  OutJobHeld'
<1>0. /\ {"sendword", "wantdata"} \subseteq ConnStates
      /\ TypeOK /\ resv[c] \in SUBSET Ids /\ resv = [resv EXCEPT ![c] = resv[c]]
      /\ \A j : resv[c] \ {j} \in SUBSET Ids
  BY DEF ConnStates, Sound, TypeOK, ConnTypes
<1>1. CASE \E p \in Pris, d \in Delays, n \in Ttrs : dispatchOpPut(c, p, d, n)
  BY <1>0, <1>1, OutJobAnswered
  DEF Event, Reply, dispatchOpPut, EnqueueInComingJob, Answer
<1>2. CASE \E p \in Pris, d \in Delays, n \in Ttrs : PutHeader(c, p, d, n)
  <2>1. /\ cstate[c] = "wantcommand" /\ cstate' = [cstate EXCEPT ![c] = "wantdata"]
        /\ UNCHANGED <<outjob, resv>>
    BY <1>2 DEF Event, PutHeader
  <2> QED BY <1>0, <2>1, OutJobAnswered
<1>3. CASE BodyComplete(c)
  BY <1>0, <1>3, OutJobAnswered
  DEF Event, Reply, BodyComplete, EnqueueInComingJob, Answer
<1>4. CASE BodyRefused(c)
  BY <1>0, <1>4, OutJobAnswered DEF Event, Reply, BodyRefused, Answer
<1>5. CASE \E j \in Ids : dispatchOpReserveJob(c, j)
  BY <1>0, <1>5, OutJobReserved DEF dispatchOpReserveJob
<1>6. ASSUME NEW j \in Ids, \/ dispatchOpDelete(c, j)
                           \/ \E p \in Pris, d \in RelDelays : dispatchOpRelease(c, j, p, d)
      PROVE  OutJobHeld'
  <2>1. /\ cstate[c] = "wantcommand" /\ outjob' = outjob
        /\ cstate' = [cstate EXCEPT ![c] = "sendword"]
        /\ resv' = [resv EXCEPT ![c] = resv[c] \ {j}]
    BY <1>6 DEF dispatchOpDelete, dispatchOpRelease, Event, Reply
  <2> QED BY <1>0, <2>1, OutJobAnswered
<1>7. ASSUME NEW n \in Nums, NEW p \in Pris, dispatchOpBury(c, n, p) PROVE OutJobHeld'
  <2>1. /\ cstate[c] = "wantcommand" /\ outjob' = outjob
        /\ cstate' = [cstate EXCEPT ![c] = "sendword"]
        /\ resv' = [resv EXCEPT ![c] = resv[c] \ {BuryId(n)}]
    BY <1>7 DEF dispatchOpBury, Event, Reply
  <2> QED BY <1>0, <2>1, OutJobAnswered
<1> QED BY <1>1, <1>2, <1>3, <1>4, <1>5, <1>6, <1>7 DEF Mover

LEMMA OutJobHeldStep ==
  ASSUME Sound, OutJobHeld, Step
  PROVE  OutJobHeld'
<1>0. TypeOK /\ Housekeeping
  BY DEF Sound
<1>1. CASE enqueueReservedJobs
  <2>1. closing \in Conns /\ cstate[closing] = "close"
    BY <1>1 DEF enqueueReservedJobs, Sound, Housekeeping, TypeOK, LoopTypes
  <2>2. \E j : resv' = [resv EXCEPT ![closing] = @ \ {j}]
    BY <1>1 DEF enqueueReservedJobs
  <2>3. UNCHANGED <<cstate, outjob>>
    BY <1>1 DEF enqueueReservedJobs
  <2> QED BY <1>0, <2>1, <2>2, <2>3 DEF OutJobHeld, TypeOK, ConnTypes
<1>2. CASE processQueue
  <2>1. PICK j \in Ids : /\ NextAwaitedJob(j)
                         /\ \E c \in waiting[jtube[j]] : ReserveJob(c, j)
    BY <1>2 DEF processQueue
  <2>2. jtube[j] \in Tubes
    BY <2>1 DEF NextAwaitedJob, ReadyRoot, Sound, TypeOK, TubeTypes, Placed
  <2>3. PICK c \in Conns : ReserveJob(c, j)
    BY <2>1, <2>2 DEF Sound, TypeOK, TubeTypes
  <2> QED BY <1>0, <2>3, OutJobReserved
<1>3. CASE TickDelayed
  BY <1>3 DEF TickDelayed, connVars, OutJobHeld
<1> QED BY <1>0, <1>1, <1>2, <1>3, StepKinds, MoverOutJob, TalkerOutJob, LoopOutJob DEF MoveJob

-----------------------------------------------------------------------------
(***************************************************************************)
(* The cache of the soonest job.                                           *)
(***************************************************************************)

\* s is the job with the earliest of the deadlines D among the reserved jobs R.
IsSoonest(s, R, D) ==
  IF R = {} THEN s = NoJob ELSE s \in R /\ \A j \in R : D[s] <= D[j]

\* SoonestFresh says nothing of the connection that closes; what is needed of it is
\* that its cache is empty once its jobs are given back.
SoonestInv ==
  \A c \in Conns : /\ c # closing => IsSoonest(soonest[c], resv[c], due)
                   /\ resv[c] = {} => soonest[c] = NoJob

\* connSoonestJob answers the soonest job if the cache names it or is empty.
LEMMA SoonestOfIsSoonest ==
  ASSUME NEW R \in SUBSET Ids, NEW D \in [Ids -> Nat], NEW S,
         S = NoJob \/ IsSoonest(S, R, D), NEW s \in SoonestOf(S, R, D)
  PROVE  IsSoonest(s, R, D)
  BY DEF SoonestOf, IsSoonest, NoJob, Ids

\* Deadlines of other jobs do not matter.
LEMMA SoonestElsewhere ==
  ASSUME NEW R \in SUBSET Ids, NEW D, NEW E, \A j \in R : D[j] = E[j],
         NEW s, IsSoonest(s, R, D)
  PROVE  IsSoonest(s, R, E)
  BY DEF IsSoonest

\* A handler of c whose reply refreshes the cache: D are the deadlines it reads.
LEMMA HandlerKeepsSoonest ==
  ASSUME TypeOK, Housekeeping, SoonestInv, NEW c \in Conns, pc = "poll",
         NEW D \in [Ids -> Nat], NEW R \in SUBSET Ids, NEW S, connSched(c, S, R, D),
         S = NoJob \/ (S = soonest[c] /\ R = resv[c] /\ D = due),
         resv' = [resv EXCEPT ![c] = R],
         \A k \in R : due'[k] = D[k],
         \A b \in Conns \ {c} : \A k \in resv[b] : due'[k] = due[k]
  PROVE  SoonestInv'
<1>1. closing \notin Conns
  BY ConnsAssumption DEF Housekeeping
<1>2. resv'[c] = R /\ soonest'[c] \in SoonestOf(S, R, D)
  BY DEF TypeOK, ConnTypes, connSched
<1>3. IsSoonest(soonest'[c], resv'[c], due')
  <2>1. S = NoJob \/ IsSoonest(S, R, D)
    BY <1>1 DEF SoonestInv
  <2>2. IsSoonest(soonest'[c], R, D)
    BY <1>2, <2>1, SoonestOfIsSoonest
  <2> QED BY <1>2, <2>2, SoonestElsewhere
<1>4. ASSUME NEW b \in Conns \ {c} PROVE IsSoonest(soonest'[b], resv'[b], due')
  <2>1. resv[b] \in SUBSET Ids /\ resv'[b] = resv[b] /\ soonest'[b] = soonest[b]
    BY DEF TypeOK, ConnTypes, connSched
  <2>2. IsSoonest(soonest[b], resv[b], due)
    BY <1>1 DEF SoonestInv
  <2> QED BY <2>1, <2>2, SoonestElsewhere
<1> QED BY <1>3, <1>4 DEF SoonestInv, IsSoonest

\* A step that leaves the caches, the reserved jobs and their deadlines alone.
LEMMA NothingNewSoonest ==
  ASSUME TypeOK, SoonestInv, UNCHANGED <<soonest, resv>>,
         \A c \in Conns : \A k \in resv[c] : due'[k] = due[k],
         \A c \in Conns : c # closing' => c # closing \/ resv[c] = {}
  PROVE  SoonestInv'
<1>1. ASSUME NEW c \in Conns, c # closing' PROVE IsSoonest(soonest'[c], resv'[c], due')
  <2>1. IsSoonest(soonest[c], resv[c], due) /\ resv[c] \in SUBSET Ids
    BY <1>1 DEF SoonestInv, IsSoonest, TypeOK, ConnTypes
  <2> QED BY <2>1, SoonestElsewhere
<1> QED BY <1>1 DEF SoonestInv

\* Only the deadline of one job changes, and no other connection holds it.
LEMMA OneDeadline ==
  ASSUME TypeOK, HeldOnce, NEW c, NEW j \in Ids, NEW x,
         due' = [due EXCEPT ![j] = x], jstate[j] # "reserved" \/ reservoir[j] = c
  PROVE  /\ \A b \in Conns \ {c} : \A k \in resv[b] : due'[k] = due[k]
         /\ \A k \in Ids \ {j} : due'[k] = due[k]
         /\ jstate[j] # "reserved" => \A b \in Conns : \A k \in resv[b] : due'[k] = due[k]
  BY DEF TypeOK, JobTypes, ConnTypes, HeldOnce

LEMMA ReserveKeepsSoonest ==
  ASSUME Sound, SoonestInv, NEW c \in Conns, c # closing, closing' = closing,
         NEW j \in Ids, jstate[j] # "reserved", ReserveJob(c, j)
  PROVE  SoonestInv'
<1> USE DEF Sound
<1>1. /\ due \in [Ids -> Nat] /\ ttr \in [Ids -> Nat] /\ resv \in [Conns -> SUBSET Ids]
      /\ soonest \in [Conns -> Ids \cup {NoJob}] /\ due' = [due EXCEPT ![j] = ttr[j]]
  BY DEF TypeOK, JobTypes, ConnTypes, ReserveJob
<1>2. \A b \in Conns : j \notin resv[b]
  BY DEF HeldOnce
<1>3. ASSUME NEW b \in Conns \ {c}, b # closing
      PROVE  IsSoonest(soonest'[b], resv'[b], due')
  <2>1. IsSoonest(soonest[b], resv[b], due) /\ soonest'[b] = soonest[b] /\ resv'[b] = resv[b]
    BY <1>1, <1>3 DEF SoonestInv, ReserveJob
  <2> QED BY <1>1, <1>2, <2>1 DEF IsSoonest
<1>4. IsSoonest(soonest'[c], resv'[c], due')
  <2>1. IsSoonest(soonest[c], resv[c], due)
    BY DEF SoonestInv
  <2>2. /\ resv'[c] = resv[c] \cup {j}
        /\ soonest'[c] = IF soonest[c] = NoJob \/ due'[j] < due'[soonest[c]] THEN j
                         ELSE soonest[c]
        /\ due'[j] \in Nat /\ \A k \in resv[c] : due'[k] = due[k] /\ due[k] \in Nat
    BY <1>1, <1>2 DEF ReserveJob
  <2>3. NoJob \notin Ids
    BY DEF NoJob, Ids
  <2> QED BY <1>1, <2>1, <2>2, <2>3 DEF IsSoonest
<1>5. \A b \in Conns : resv'[b] = {} => soonest'[b] = NoJob
  BY <1>1 DEF SoonestInv, ReserveJob
<1> QED BY <1>3, <1>4, <1>5 DEF SoonestInv
\* A handler that only answers.
LEMMA AnswerKeepsSoonest ==
  ASSUME TypeOK, Housekeeping, SoonestInv, NEW c \in Conns, pc = "poll",
         UNCHANGED resv, connSched(c, soonest[c], resv[c], due),
         \A b \in Conns : \A k \in resv[b] : due'[k] = due[k]
  PROVE  SoonestInv'
<1>1. due \in [Ids -> Nat] /\ resv[c] \in SUBSET Ids /\ resv' = [resv EXCEPT ![c] = resv[c]]
  BY DEF TypeOK, JobTypes, ConnTypes
<1> QED BY <1>1, HandlerKeepsSoonest

LEMMA TalkerSoonest ==
  ASSUME Sound, SoonestInv, NEW c \in Conns, Talker(c)
  PROVE  SoonestInv'
<1> USE DEF Sound, Event, jobVars
<1>0. UNCHANGED resv
  BY TalkerFrame DEF placeVars
<1>1. CASE hAccept(c)
  BY <1>0, <1>1, NothingNewSoonest DEF hAccept, Done
<1>2. CASE connWantCommand(c)
  BY <1>0, <1>2, AnswerKeepsSoonest DEF connWantCommand, Reply
<1>3. CASE HangUp(c)
  BY <1>0, <1>3, AnswerKeepsSoonest DEF HangUp, Answer, Reply
<1>4. CASE connClose(c)
  <2>1. closing \notin Conns
    BY <1>4, ConnsAssumption DEF connClose, Housekeeping
  <2> QED BY <1>0, <1>4, <2>1, NothingNewSoonest DEF connClose
<1>5. CASE PutRefused(c)
  BY <1>0, <1>5, AnswerKeepsSoonest DEF PutRefused, Answer, Reply
<1>6. CASE dispatchOpReserve(c)
  BY <1>0, <1>6, AnswerKeepsSoonest DEF dispatchOpReserve, Reply
<1>7. CASE DeadlineSoon(c)
  BY <1>0, <1>7, AnswerKeepsSoonest DEF DeadlineSoon, Answer, Reply
<1>8. CASE Reader(c)
  BY <1>0, <1>8, ReaderStep, AnswerKeepsSoonest DEF SendWord, SendCopy, Quiet, Answer, Reply
<1>9. ASSUME NEW n \in Nums, dispatchOpTouch(c, n) PROVE SoonestInv'
  <2> DEFINE j == TouchId(n)
             D == [due EXCEPT ![j] = ttr[j]]
  <2>1. /\ pc = "poll" /\ j \in Ids /\ reservoir[j] = c /\ due' = D
        /\ connSched(c, NoJob, resv[c], D)
    BY <1>9 DEF dispatchOpTouch, isJobReservedByConn, Reply
  <2>2. /\ D \in [Ids -> Nat] /\ resv[c] \in SUBSET Ids
        /\ resv' = [resv EXCEPT ![c] = resv[c]] /\ \A k \in resv[c] : due'[k] = D[k]
    BY <1>0, <2>1 DEF TypeOK, JobTypes, ConnTypes
  <2>3. \A b \in Conns \ {c} : \A k \in resv[b] : due'[k] = due[k]
    BY <2>1, OneDeadline
  <2> HIDE DEF j, D
  <2> QED BY <2>1, <2>2, <2>3, HandlerKeepsSoonest
<1>10. ASSUME NEW t \in Tubes,
              dispatchOpUse(c, t) \/ dispatchOpWatch(c, t) \/ dispatchOpIgnore(c, t)
       PROVE  SoonestInv'
  BY <1>0, <1>10, AnswerKeepsSoonest
  DEF dispatchOpUse, dispatchOpWatch, dispatchOpIgnore, Answer, Reply
<1>11. ASSUME NEW t \in Tubes, NEW n \in PauseDelays, dispatchOpPauseTube(c, t, n)
       PROVE  SoonestInv'
  BY <1>0, <1>11, AnswerKeepsSoonest DEF dispatchOpPauseTube, Answer, Reply
<1> QED BY <1>1, <1>2, <1>3, <1>4, <1>5, <1>6, <1>7, <1>8, <1>9, <1>10, <1>11 DEF Talker

LEMMA LoopSoonest ==
  ASSUME Sound, SoonestInv, LoopStep
  PROVE  SoonestInv'
<1> USE DEF Sound, jobVars, connVars
<1>1. CASE CloseDone
  BY <1>1, NothingNewSoonest DEF CloseDone
<1>2. CASE \/ ProcessQueueReturns \/ TickPaused \/ TickDone \/ Timeout \/ enterDrainMode
           \/ \E c \in Conns, j \in Ids : ReserveJobDies(c, j)
  BY <1>2, NothingNewSoonest
  DEF ProcessQueueReturns, TickPaused, TickDone, Timeout, Done, enterDrainMode, ReserveJobDies
<1>3. CASE Clock
  <2>1. /\ UNCHANGED <<soonest, resv, closing>> /\ due \in [Ids -> Nat]
        /\ resv \in [Conns -> SUBSET Ids]
    BY <1>3 DEF Clock, TypeOK, JobTypes, ConnTypes
  <2>2. ASSUME NEW c \in Conns, NEW k \in resv[c]
        PROVE  k \in Ids /\ due[k] \in Nat /\ due'[k] = Dec(due[k])
    <3>1. k \in Ids /\ jstate[k] = "reserved"
      BY <2>1, <2>2 DEF HeldOnce
    <3> QED BY <1>3, <2>1, <3>1 DEF Clock
  <2>3. \A x, y \in Nat : x <= y => Dec(x) <= Dec(y)
    BY DEF Dec
  <2>4. ASSUME NEW c \in Conns, c # closing PROVE IsSoonest(soonest[c], resv[c], due')
    <3>1. IsSoonest(soonest[c], resv[c], due)
      BY <2>4 DEF SoonestInv
    <3> QED BY <2>2, <2>3, <3>1 DEF IsSoonest
  <2> QED BY <2>1, <2>4 DEF SoonestInv
<1> QED BY <1>1, <1>2, <1>3 DEF LoopStep

LEMMA MoverSoonest ==
  ASSUME Sound, SoonestInv, NEW c \in Conns, Mover(c)
  PROVE  SoonestInv'
<1> USE DEF Sound
<1>0. /\ due \in [Ids -> Nat] /\ resv \in [Conns -> SUBSET Ids]
      /\ pc = "poll" /\ closing \notin Conns
  BY ZenonT(40), ConnsAssumption DEF Mover, dispatchOpPut, PutHeader, BodyComplete, BodyRefused,
     dispatchOpReserveJob, dispatchOpDelete, dispatchOpRelease, dispatchOpBury, Event,
     Housekeeping, TypeOK, JobTypes, ConnTypes
<1>1. ASSUME NEW p \in Pris, NEW d \in Delays, NEW n \in Ttrs,
             dispatchOpPut(c, p, d, n) \/ PutHeader(c, p, d, n)
      PROVE  SoonestInv'
  <2>1. /\ nextId \in Ids /\ UNCHANGED resv
        /\ due' = [due EXCEPT ![nextId] = d * Second]
    BY <1>1 DEF dispatchOpPut, PutHeader, MakeJobWithID, EnqueueInComingJob, EnqueueJob
  <2>2. jstate[nextId] # "reserved"
    BY <2>1, NumbersAssumption DEF Housekeeping, Ids
  <2>3. \A b \in Conns : \A k \in resv[b] : due'[k] = due[k]
    BY <2>1, <2>2, OneDeadline
  <2>4. CASE dispatchOpPut(c, p, d, n)
    <3>1. connSched(c, soonest[c], resv[c], due)
      BY <2>4 DEF dispatchOpPut, EnqueueInComingJob, Answer, Reply
    <3> QED BY <1>0, <2>1, <2>3, <3>1, AnswerKeepsSoonest
  <2>5. CASE PutHeader(c, p, d, n)
    <3>1. UNCHANGED <<soonest, closing>>
      BY <2>5 DEF PutHeader, Done
    <3> QED BY <2>1, <2>3, <3>1, NothingNewSoonest
  <2> QED BY <1>1, <2>4, <2>5
<1>2. CASE BodyComplete(c) \/ BodyRefused(c)
  <2>1. injob[c] \in Ids /\ jstate[injob[c]] = "invalid" /\ UNCHANGED resv
    BY <1>2 DEF BodyComplete, BodyRefused, Event, Housekeeping
  <2>2. \E x : due' = [due EXCEPT ![injob[c]] = x]
    BY <1>2 DEF BodyComplete, BodyRefused, EnqueueInComingJob, EnqueueJob, JobFree
  <2>3. \A b \in Conns : \A k \in resv[b] : due'[k] = due[k]
    BY <2>1, <2>2, OneDeadline
  <2>4. connSched(c, soonest[c], resv[c], due)
    BY <1>2 DEF BodyComplete, BodyRefused, EnqueueInComingJob, Answer, Reply
  <2> QED BY <1>0, <2>1, <2>3, <2>4, AnswerKeepsSoonest
<1>3. ASSUME NEW j \in Ids, dispatchOpReserveJob(c, j) PROVE SoonestInv'
  <2>1. jstate[j] # "reserved" /\ ReserveJob(c, j) /\ closing' = closing
    BY <1>3 DEF dispatchOpReserveJob, Removable, DoneWith
  <2> QED BY <1>0, <2>1, ReserveKeepsSoonest
<1>4. ASSUME NEW j \in Ids, dispatchOpDelete(c, j) PROVE SoonestInv'
  <2> DEFINE held == isJobReservedByConn(c, j)
             S == IF held THEN NoJob ELSE soonest[c]
  <2>1. /\ held \/ Removable(j)
        /\ resv' = [resv EXCEPT ![c] = @ \ {j}] /\ due' = [due EXCEPT ![j] = 0]
        /\ connSched(c, S, resv[c] \ {j}, due)
    BY <1>4 DEF dispatchOpDelete, JobFree, Reply
  <2>2. held => reservoir[j] = c
    BY DEF isJobReservedByConn
  <2>3. ~held => jstate[j] # "reserved" /\ j \notin resv[c]
    BY <2>1 DEF Removable, HeldOnce
  <2>4. /\ \A b \in Conns \ {c} : \A k \in resv[b] : due'[k] = due[k]
        /\ \A k \in Ids \ {j} : due'[k] = due[k]
    BY <2>1, <2>2, <2>3, OneDeadline
  <2>5. ~held => resv[c] \ {j} = resv[c]
    BY <2>3
  <2>6. S = NoJob \/ (S = soonest[c] /\ resv[c] \ {j} = resv[c])
    BY <2>5
  <2>7. resv[c] \ {j} \in SUBSET Ids /\ \A k \in resv[c] \ {j} : due'[k] = due[k]
    BY <1>0, <2>4
  <2> HIDE DEF S, held
  <2> QED BY <1>0, <2>1, <2>4, <2>6, <2>7, HandlerKeepsSoonest
<1>5. ASSUME NEW j \in Ids, reservoir[j] = c, NEW x, due' = [due EXCEPT ![j] = x],
             resv' = [resv EXCEPT ![c] = @ \ {j}], connSched(c, NoJob, resv[c] \ {j}, due)
      PROVE  SoonestInv'
  <2>1. /\ \A b \in Conns \ {c} : \A k \in resv[b] : due'[k] = due[k]
        /\ \A k \in Ids \ {j} : due'[k] = due[k]
    BY <1>5, OneDeadline
  <2>2. resv[c] \ {j} \in SUBSET Ids /\ \A k \in resv[c] \ {j} : due'[k] = due[k]
    BY <1>0, <2>1
  <2> QED BY <1>0, <1>5, <2>1, <2>2, HandlerKeepsSoonest
<1>6. ASSUME NEW j \in Ids, NEW p \in Pris, NEW d \in RelDelays, dispatchOpRelease(c, j, p, d)
      PROVE  SoonestInv'
  BY <1>5, <1>6 DEF dispatchOpRelease, isJobReservedByConn, EnqueueJob, Reply
<1>7. ASSUME NEW n \in Nums, NEW p \in Pris, dispatchOpBury(c, n, p) PROVE SoonestInv'
  BY <1>5, <1>7 DEF dispatchOpBury, isJobReservedByConn, Reply
<1> QED BY <1>1, <1>2, <1>3, <1>4, <1>6, <1>7 DEF Mover

LEMMA SoonestStep ==
  ASSUME Sound, SoonestInv, Step
  PROVE  SoonestInv'
<1> USE DEF Sound
<1>1. CASE enqueueReservedJobs
  <2>1. closing \in Conns
    BY <1>1 DEF enqueueReservedJobs, Housekeeping, TypeOK, LoopTypes
  <2>2. PICK j \in resv[closing] :
          /\ due' = [due EXCEPT ![j] = 0]
          /\ resv' = [resv EXCEPT ![closing] = @ \ {j}]
    BY <1>1 DEF enqueueReservedJobs, EnqueueJob
  <2>3. j \in Ids /\ reservoir[j] = closing
    BY <2>1, <2>2 DEF HeldOnce, TypeOK, ConnTypes
  <2>4. \A b \in Conns \ {closing} : \A k \in resv[b] : due'[k] = due[k]
    BY <2>1, <2>2, <2>3, OneDeadline
  <2>5. soonest' = [soonest EXCEPT ![closing] = NoJob] /\ closing' = closing
    BY <1>1 DEF enqueueReservedJobs
  <2>6. ASSUME NEW b \in Conns \ {closing}
        PROVE  /\ IsSoonest(soonest'[b], resv'[b], due')
               /\ resv'[b] = {} => soonest'[b] = NoJob
    <3>1. soonest'[b] = soonest[b] /\ resv'[b] = resv[b] /\ resv[b] \in SUBSET Ids
      BY <2>2, <2>5 DEF TypeOK, ConnTypes
    <3>2. IsSoonest(soonest[b], resv[b], due)
      BY DEF SoonestInv
    <3> QED BY <2>4, <3>1, <3>2, SoonestElsewhere DEF SoonestInv
  <2>7. soonest'[closing] = NoJob
    BY <2>1, <2>5 DEF TypeOK, ConnTypes
  <2> QED BY <2>5, <2>6, <2>7 DEF SoonestInv
<1>2. CASE processQueue
  <2>1. PICK j \in Ids : /\ NextAwaitedJob(j)
                         /\ \E c \in waiting[jtube[j]] : ReserveJob(c, j)
    BY <1>2 DEF processQueue
  <2>2. jstate[j] = "ready" /\ jtube[j] \in Tubes
    BY <2>1 DEF NextAwaitedJob, ReadyRoot, TypeOK, TubeTypes, Placed
  <2>3. PICK c \in waiting[jtube[j]] : ReserveJob(c, j)
    BY <2>1
  <2>4. c \in Conns /\ c # closing
    BY <2>2, <2>3 DEF TypeOK, TubeTypes, WaitersAreWaiting, Housekeeping
  <2>5. closing' = closing
    BY <1>2 DEF processQueue, loopVars
  <2> QED BY <2>2, <2>3, <2>4, <2>5, ReserveKeepsSoonest
<1>3. CASE TickDelayed
  <2>1. PICK j \in Ids : Due(j) /\ due' = [due EXCEPT ![j] = 0]
    BY <1>3 DEF TickDelayed, EnqueueJob
  <2>2. jstate[j] = "delayed"
    BY <2>1 DEF Due, SoonestDelayedJob, DelayRoot, TypeOK, TubeTypes, Placed
  <2>3. \A b \in Conns : \A k \in resv[b] : due'[k] = due[k]
    BY <2>1, <2>2, OneDeadline
  <2>4. UNCHANGED <<soonest, resv, closing>>
    BY <1>3 DEF TickDelayed, connVars
  <2> QED BY <2>3, <2>4, NothingNewSoonest
<1> QED BY <1>1, <1>2, <1>3, StepKinds, MoverSoonest, TalkerSoonest, LoopSoonest DEF MoveJob

-----------------------------------------------------------------------------
(***************************************************************************)
(* The loop is awake in time.                                              *)
(***************************************************************************)

LEMMA EnqueueQueues ==
  ASSUME NEW j, NEW t, NEW p, NEW d, NEW G, NEW T, EnqueueJob(j, t, p, d, G, T)
  PROVE  pc' = "queue"
  BY DEF EnqueueJob

\* Every handler hands the loop back to protTick, processQueue or connClose.
LEMMA HandlersLeavePoll ==
  ASSUME NEW c \in Conns, Mover(c) \/ Talker(c)
  PROVE  pc' # "poll"
<1> USE DEF Done, Quiet
<1>1. CASE Mover(c)
  <2>1. CASE \/ \E p \in Pris, d \in Delays, n \in Ttrs : dispatchOpPut(c, p, d, n)
             \/ BodyComplete(c)
             \/ \E j \in Ids, p \in Pris, d \in RelDelays : dispatchOpRelease(c, j, p, d)
    BY <2>1, EnqueueQueues DEF dispatchOpPut, BodyComplete, EnqueueInComingJob, dispatchOpRelease
  <2>2. CASE \/ \E p \in Pris, d \in Delays, n \in Ttrs : PutHeader(c, p, d, n)
             \/ BodyRefused(c)
             \/ \E j \in Ids : dispatchOpReserveJob(c, j) \/ dispatchOpDelete(c, j)
             \/ \E n \in Nums, p \in Pris : dispatchOpBury(c, n, p)
    BY <2>2 DEF PutHeader, BodyRefused, dispatchOpReserveJob, dispatchOpDelete, dispatchOpBury,
                DoneWith
  <2> QED BY <1>1, <2>1, <2>2 DEF Mover
<1>2. CASE Talker(c)
  BY <1>2, ReaderStep
  DEF Talker, hAccept, connWantCommand, HangUp, connClose, PutRefused, dispatchOpReserve,
      DeadlineSoon, dispatchOpTouch, dispatchOpUse, dispatchOpWatch, dispatchOpIgnore,
      dispatchOpPauseTube
<1> QED BY <1>1, <1>2

LEMMA TimelyWakeStep ==
  ASSUME Sound, TimelyWake, Step
  PROVE  TimelyWake'
<1> USE DEF Sound
<1>0. /\ due \in [Ids -> Nat] /\ unpauseIn \in [Tubes -> Nat] /\ wake \in Nat
      /\ delay \in [Tubes -> SUBSET Ids] /\ tubes \subseteq Tubes /\ paused \subseteq tubes
  BY DEF TypeOK, JobTypes, TubeTypes, LoopTypes
<1>1. CASE pc' # "poll"
  BY <1>1 DEF TimelyWake
<1>2. CASE TickDone
  <2>1. wake' \in Nat /\ \A x \in Periods : wake' <= x
    <3>1. Periods \subseteq Nat
      BY <1>0, NumbersAssumption DEF Periods
    <3> QED BY <1>2, <3>1 DEF TickDone
  <2>2. ASSUME NEW t \in Tubes, NEW j \in delay[t] PROVE due[j] \in Periods
    <3>1. t \in tubes
      BY <1>0, <2>2 DEF Placed, Housekeeping
    <3> QED BY <3>1 DEF Periods
  <2>3. ASSUME NEW t \in paused PROVE unpauseIn[t] \in Periods
    <3>1. t \in tubes /\ unpauseIn[t] > 0
      BY <1>0, <1>2 DEF TickDone, PauseOver
    <3> QED BY <3>1 DEF Periods
  <2>4. UNCHANGED <<due, delay, paused, unpauseIn>>
    BY <1>2 DEF TickDone, jobVars, tubeVars
  <2> QED BY <2>1, <2>2, <2>3, <2>4 DEF TimelyWake
<1>3. CASE Clock
  <2>1. /\ pc = "poll" /\ wake > 0 /\ wake' = wake - 1 /\ UNCHANGED <<delay, paused>>
        /\ unpauseIn' = [t \in Tubes |-> Dec(unpauseIn[t])]
    BY <1>3 DEF Clock
  <2>2. \A x \in Nat : wake <= x => wake' <= Dec(x)
    BY <1>0, <2>1 DEF Dec
  <2>3. ASSUME NEW t \in Tubes, NEW j \in delay[t] PROVE wake' <= due'[j]
    <3>1. j \in Ids /\ jstate[j] = "delayed" /\ wake <= due[j]
      BY <1>0, <2>1 DEF Placed, TimelyWake
    <3>2. due'[j] = Dec(due[j])
      BY <1>3, <3>1 DEF Clock
    <3> QED BY <1>0, <2>2, <3>1, <3>2
  <2>4. ASSUME NEW t \in paused PROVE wake' <= unpauseIn'[t]
    BY <1>0, <2>1, <2>2 DEF TimelyWake
  <2> QED BY <2>1, <2>3, <2>4 DEF TimelyWake
<1>4. CASE enterDrainMode
  BY <1>4 DEF enterDrainMode, jobVars, tubeVars, TimelyWake
<1>5. CASE LoopStep /\ ~TickDone /\ ~Clock /\ ~enterDrainMode
  BY <1>1, <1>5 DEF LoopStep, CloseDone, ProcessQueueReturns, TickPaused, Timeout, Done,
                    ReserveJobDies
<1>6. CASE enqueueReservedJobs \/ TickDelayed \/ processQueue
  BY <1>1, <1>6 DEF enqueueReservedJobs, TickDelayed, processQueue, loopVars, EnqueueJob
<1> QED BY <1>1, <1>2, <1>3, <1>4, <1>5, <1>6, StepKinds, HandlersLeavePoll DEF MoveJob

-----------------------------------------------------------------------------
(***************************************************************************)
(* The most urgent job goes first.                                         *)
(***************************************************************************)

\* A set of naturals that is not empty has a least element.
LEMMA LeastNat ==
  ASSUME NEW S \in SUBSET Nat, S # {}
  PROVE  \E n \in S : \A m \in S : n <= m
<1>1. PICK n \in S : \A m \in S : <<m, n>> \notin OpToRel(<, Nat)
  BY NatLessThanWellFounded, WFMin
<1>2. \A m \in S : ~(m < n)
  BY <1>1 DEF OpToRel
<1>3. \A m \in S : n \in Nat /\ m \in Nat
  OBVIOUS
<1> QED BY <1>2, <1>3

\* A heap that is not empty has a root.
LEMMA ReadyRootExists ==
  ASSUME TypeOK, NEW t \in Tubes, ready[t] # {}
  PROVE  \E r \in Ids : ReadyRoot(t, r)
<1>1. ready[t] \in SUBSET Ids /\ Ids \subseteq Nat /\ pri \in [Ids -> Nat]
  BY NumbersAssumption DEF TypeOK, TubeTypes, JobTypes, Ids
<1> DEFINE P == {pri[j] : j \in ready[t]}
<1>2. P \in SUBSET Nat /\ P # {}
  BY <1>1
<1>3. PICK p \in P : \A q \in P : p <= q
  BY <1>2, LeastNat
<1> DEFINE S == {j \in ready[t] : pri[j] = p}
<1>4. S \in SUBSET Nat /\ S # {}
  BY <1>1
<1>5. PICK r \in S : \A k \in S : r <= k
  BY <1>4, LeastNat
<1>6. r \in ready[t] /\ pri[r] = p
  OBVIOUS
<1>7. ASSUME NEW k \in ready[t] \ {r} PROVE JobPriLess(r, k)
  <2>1. p <= pri[k] /\ pri[k] \in Nat /\ p \in Nat /\ k \in Nat /\ r \in Nat
    BY <1>1, <1>2, <1>3, <1>6
  <2>2. pri[k] = p => r <= k
    BY <1>5
  <2> QED BY <1>6, <2>1, <2>2 DEF JobPriLess
<1> QED BY <1>1, <1>6, <1>7 DEF ReadyRoot

LEMMA MostUrgentStep ==
  ASSUME Sound, Step, NEW c \in Conns, cstate[c] = "wait", cstate'[c] = "sendjob",
         NEW t \in watch[c], ~Blocked(t), NEW k \in ready[t]
  PROVE  ~JobPriLess(k, outjob'[c])
<1> USE DEF Sound
<1>0. /\ cstate \in [Conns -> ConnStates] /\ outjob \in [Conns -> Ids \cup {NoJob, Copy}]
      /\ waiting \in [Tubes -> SUBSET Conns] /\ ready \in [Tubes -> SUBSET Ids]
      /\ t \in tubes /\ t \in Tubes /\ k \in Ids
  BY DEF TypeOK, ConnTypes, TubeTypes, Housekeeping
<1>1. CASE processQueue
  <2>1. PICK j \in Ids : /\ NextAwaitedJob(j)
                         /\ \E b \in waiting[jtube[j]] : ReserveJob(b, j)
    BY <1>1 DEF processQueue
  <2>2. jtube[j] \in Tubes
    BY <2>1 DEF NextAwaitedJob, ReadyRoot, TypeOK, TubeTypes, Placed
  <2>3. outjob'[c] = j
    BY <1>0, <2>1, <2>2 DEF ReserveJob
  <2>4. Awaited(t)
    BY <1>0 DEF Awaited, WaitersAreWaiting
  <2>5. PICK r \in Ids : ReadyRoot(t, r)
    BY <1>0, ReadyRootExists
  <2>6. /\ r = j \/ JobPriLess(j, r)
        /\ r = k \/ JobPriLess(r, k)
    BY <1>0, <2>1, <2>4, <2>5 DEF NextAwaitedJob, ReadyRoot
  <2>7. /\ pri[r] \in Nat /\ pri[j] \in Nat /\ pri[k] \in Nat
        /\ r \in Nat /\ j \in Nat /\ k \in Nat
    BY SMTT(20), <1>0, NumbersAssumption DEF TypeOK, JobTypes, Ids
  <2> QED BY <2>3, <2>6, <2>7 DEF JobPriLess
<1>2. CASE enqueueReservedJobs \/ TickDelayed
  BY <1>2 DEF enqueueReservedJobs, TickDelayed, connVars
<1>3. CASE LoopStep
  BY <1>0, <1>3
  DEF LoopStep, CloseDone, ProcessQueueReturns, TickPaused, TickDone, Timeout, Clock,
      enterDrainMode, ReserveJobDies, connVars
<1>4. ASSUME NEW b \in Conns, Mover(b) PROVE cstate'[c] = cstate[c] \/ cstate[c] # "wait"
  BY <1>0, <1>4
  DEF Mover, dispatchOpPut, PutHeader, BodyComplete, BodyRefused, EnqueueInComingJob,
      dispatchOpReserveJob, dispatchOpDelete, dispatchOpRelease, dispatchOpBury, Event, Answer,
      Reply, ReserveJob
<1>5. ASSUME NEW b \in Conns, Talker(b)
      PROVE  cstate'[c] = cstate[c] \/ cstate[c] # "wait" \/ cstate'[c] = "sendword"
  <2>1. CASE Reader(b)
    BY <1>0, <2>1, ReaderStep DEF Event, SendWord, SendCopy, Answer, Reply
  <2>2. CASE HangUp(b)
    BY <1>0, <2>2 DEF HangUp, Answer, Reply
  <2>3. CASE ~Reader(b) /\ ~HangUp(b)
    BY <1>0, <1>5, <2>3
    DEF Talker, hAccept, connWantCommand, connClose, PutRefused, dispatchOpReserve, DeadlineSoon,
        dispatchOpTouch, dispatchOpUse, dispatchOpWatch, dispatchOpIgnore, dispatchOpPauseTube,
        Event, Answer, Reply
  <2> QED BY <2>1, <2>2, <2>3
<1> QED BY <1>1, <1>2, <1>3, <1>4, <1>5, StepKinds DEF MoveJob

-----------------------------------------------------------------------------
(***************************************************************************)
(* Theorems.                                                               *)
(***************************************************************************)

\* OutJobHeld, for every instance: the body that is being written to a client is a
\* copy or that of a job which this client holds.
THEOREM SendsHeldJobs == Spec => []OutJobHeld
<1>1. Init => OutJobHeld
  BY DEF Init, OutJobHeld
<1>2. IndInv /\ OutJobHeld /\ [Next]_vars => OutJobHeld'
  <2>1. ASSUME UNCHANGED vars, OutJobHeld PROVE OutJobHeld'
    BY <2>1 DEF vars, connVars, OutJobHeld
  <2> QED BY <2>1, StepFinds, OutJobHeldStep
<1> QED BY <1>1, <1>2, Invariance, PTL DEF Spec

\* SoonestFresh, for every instance: the SoonestJob cache of connSoonestJob names a
\* held job with the earliest deadline.
THEOREM CachesSoonest == Spec => []SoonestFresh
<1>1. Init => SoonestInv
  BY DEF Init, SoonestInv, IsSoonest
<1>2. IndInv /\ SoonestInv /\ [Next]_vars => SoonestInv'
  <2>1. ASSUME UNCHANGED vars, SoonestInv PROVE SoonestInv'
    BY <2>1 DEF vars, jobVars, connVars, loopVars, SoonestInv, IsSoonest
  <2> QED BY <2>1, StepFinds, SoonestStep
<1>3. SoonestInv => SoonestFresh
  BY DEF SoonestInv, IsSoonest, SoonestFresh
<1> QED BY <1>1, <1>2, <1>3, Invariance, PTL DEF Spec

\* TimelyWake, for every instance: sockNext is given no more time than the first
\* delay or pause has left.
THEOREM WakesInTime == Spec => []TimelyWake
<1>1. Init => TimelyWake
  BY DEF Init, TimelyWake
<1>2. IndInv /\ TimelyWake /\ [Next]_vars => TimelyWake'
  <2>1. ASSUME UNCHANGED vars, TimelyWake PROVE TimelyWake'
    BY <2>1 DEF vars, jobVars, tubeVars, loopVars, TimelyWake
  <2> QED BY <2>1, StepFinds, TimelyWakeStep
<1> QED BY <1>1, <1>2, Invariance, PTL DEF Spec

\* MostUrgentFirst, for every instance: processQueue hands a worker the most urgent
\* job among the tubes it watches.
THEOREM UrgentGoesFirst == Spec => MostUrgentFirst
<1> DEFINE Best ==
      \A c \in Conns :
        cstate[c] = "wait" /\ cstate'[c] = "sendjob" =>
          \A t \in watch[c] : ~Blocked(t) =>
            \A k \in ready[t] : ~JobPriLess(k, outjob'[c])
<1>1. IndInv /\ [Next]_vars => [Best]_vars
  BY StepFinds, MostUrgentStep
<1> QED BY <1>1, Invariance, PTL DEF Spec, MostUrgentFirst

-----------------------------------------------------------------------------
(***************************************************************************)
(* The statistics are exact.                                               *)
(*                                                                         *)
(* A handler changes at most one job and at most one connection.  So each  *)
(* counter moves by what that one job, or that one connection, was and is  *)
(* (JobsCount, ConnsCount); the rest is to show of every handler that it   *)
(* adds and subtracts just that.  Sound says what a handler finds: a job  *)
(* that is delayed, ready or held, in a tube that exists, and a connection *)
(* that waits or not.                                                      *)
(***************************************************************************)

GStat == [ready : Int, urgent : Int, reserved : Int, buried : Int, waiting : Int,
          jobs : Int, conns : Int, producers : Int, workers : Int]
TStat == [urgent : Int, reserved : Int, buried : Int, waiting : Int,
          jobs : Int, using : Int, watching : Int]

StatTypes == gstat \in GStat /\ tstat \in [Tubes -> TStat]

Live == {j \in Ids : jstate[j] \in {"ready", "reserved", "delayed", "buried"}}

\* The counters of jobs, and those of connections.  (StatsExact says nothing of
\* total-jobs, which the code keeps at the number of jobs there are.)
JobsCounted ==
  /\ gstat.ready = Cardinality(InState("ready"))
  /\ gstat.urgent = Cardinality(UrgentReady)
  /\ gstat.reserved = Cardinality(InState("reserved"))
  /\ gstat.buried = Cardinality(InState("buried"))
  /\ gstat.jobs = Cardinality(Live)
  /\ \A t \in Tubes :
       /\ tstat[t].urgent = Cardinality(OfTube(t, UrgentReady))
       /\ tstat[t].reserved = Cardinality(OfTube(t, InState("reserved")))
       /\ tstat[t].buried = Cardinality(OfTube(t, InState("buried")))
       /\ tstat[t].jobs = Cardinality(OfTube(t, Live))

Waits == {c \in Conns : cstate[c] = "wait"}
Opens == {c \in Conns : cstate[c] \notin {"closed", "close"}}
Are(k) == {c \in Conns : k \in ctype[c]}
Using(t) == {c \in Conns : use[c] = t}
Watching(t) == {c \in Conns : t \in watch[c]}

ConnsCounted ==
  /\ gstat.waiting = Cardinality(Waits)
  /\ gstat.conns = Cardinality(Opens)
  /\ gstat.producers = Cardinality(Are("producer"))
  /\ gstat.workers = Cardinality(Are("worker"))
  /\ \A t \in Tubes :
       /\ tstat[t].waiting = Cardinality(waiting[t])
       /\ tstat[t].using = Cardinality(Using(t))
       /\ tstat[t].watching = Cardinality(Watching(t))

LEMMA TwoHalves == JobsCounted /\ ConnsCounted => StatsExact
  BY DEF StatsExact, JobsCounted, ConnsCounted, Waits, Opens, Are, Using, Watching

\* What the counters H of a record have moved on from G: those of the jobs (ready, urgent,
\* reserved, buried, all) and those of the connections.
GJobs(G, H, r, u, v, b, n) ==
  /\ H.ready = G.ready + r /\ H.urgent = G.urgent + u /\ H.reserved = G.reserved + v
  /\ H.buried = G.buried + b /\ H.jobs = G.jobs + n

GConns(G, H, w, o, p, k) ==
  /\ H.waiting = G.waiting + w /\ H.conns = G.conns + o
  /\ H.producers = G.producers + p /\ H.workers = G.workers + k

TJobs(S, T, u, v, b, n) ==
  /\ T.urgent = S.urgent + u /\ T.reserved = S.reserved + v
  /\ T.buried = S.buried + b /\ T.jobs = S.jobs + n

TConns(S, T, w, u, n) ==
  T.waiting = S.waiting + w /\ T.using = S.using + u /\ T.watching = S.watching + n

\* A record of the global counters has these fields.
Shape(H) ==
  H = [ready |-> H.ready, urgent |-> H.urgent, reserved |-> H.reserved, buried |-> H.buried,
       waiting |-> H.waiting, jobs |-> H.jobs, conns |-> H.conns,
       producers |-> H.producers, workers |-> H.workers]

LEMMA ShapeType ==
  ASSUME NEW G \in GStat, NEW H, Shape(H),
         NEW r \in Int, NEW u \in Int, NEW v \in Int, NEW b \in Int, NEW n \in Int,
         NEW w \in Int, NEW o \in Int, NEW p \in Int, NEW k \in Int,
         GJobs(G, H, r, u, v, b, n), GConns(G, H, w, o, p, k)
  PROVE  H \in GStat
<1>1. /\ H.ready \in Int /\ H.urgent \in Int /\ H.reserved \in Int /\ H.buried \in Int
      /\ H.waiting \in Int /\ H.jobs \in Int /\ H.conns \in Int /\ H.producers \in Int
      /\ H.workers \in Int
  BY DEF GStat, GJobs, GConns
<1> QED BY <1>1 DEF GStat, Shape

\* Two moves add up.
LEMMA GAdds ==
  ASSUME NEW G \in GStat, NEW H \in GStat, NEW I,
         NEW r \in Int, NEW u \in Int, NEW v \in Int, NEW b \in Int, NEW n \in Int,
         NEW w \in Int, NEW o \in Int, NEW p \in Int, NEW k \in Int,
         NEW r2 \in Int, NEW u2 \in Int, NEW v2 \in Int, NEW b2 \in Int, NEW n2 \in Int,
         NEW w2 \in Int, NEW o2 \in Int, NEW p2 \in Int, NEW k2 \in Int,
         GJobs(G, H, r, u, v, b, n), GConns(G, H, w, o, p, k),
         GJobs(H, I, r2, u2, v2, b2, n2), GConns(H, I, w2, o2, p2, k2)
  PROVE  /\ GJobs(G, I, r + r2, u + u2, v + v2, b + b2, n + n2)
         /\ GConns(G, I, w + w2, o + o2, p + p2, k + k2)
  BY DEF GStat, GJobs, GConns

-----------------------------------------------------------------------------
(***************************************************************************)
(* Counting.                                                               *)
(***************************************************************************)

\* A set that differs in one element has one element more, or less, or as many.
LEMMA CountOne ==
  ASSUME NEW S, IsFiniteSet(S), NEW T, NEW x, \A y : y # x => (y \in S <=> y \in T)
  PROVE  Cardinality(T) = Cardinality(S) + (One(x \in T) - One(x \in S))
<1>1. IsFiniteSet(S \ {x}) /\ Cardinality(S \ {x}) \in Nat /\ Cardinality(S) \in Nat
  BY FS_RemoveElement, FS_CardinalityType
<1>2. Cardinality(S \ {x}) = IF x \in S THEN Cardinality(S) - 1 ELSE Cardinality(S)
  BY FS_RemoveElement
<1>3. CASE x \in T
  <2>1. T = (S \ {x}) \cup {x}
    BY <1>3
  <2>2. Cardinality((S \ {x}) \cup {x}) = Cardinality(S \ {x}) + 1
    BY <1>1, FS_AddElement
  <2> QED BY <1>1, <1>2, <1>3, <2>1, <2>2 DEF One
<1>4. CASE x \notin T
  <2>1. T = S \ {x}
    BY <1>4
  <2> QED BY <1>1, <1>2, <1>4, <2>1 DEF One
<1> QED BY <1>3, <1>4

Rdy(j) == jstate[j] = "ready"
Urg(j) == jstate[j] = "ready" /\ pri[j] < UrgentThreshold
Res(j) == jstate[j] = "reserved"
Bur(j) == jstate[j] = "buried"
Liv(j) == jstate[j] \in {"ready", "reserved", "delayed", "buried"}

\* Only job j changes, which is in tube t before and after as far as it is counted, and the
\* counters move by what it was and is.
LEMMA JobsCount ==
  ASSUME JobsCounted, StatTypes, NEW j \in Ids, NEW t \in Tubes,
         \A k \in Ids \ {j} : jstate'[k] = jstate[k] /\ pri'[k] = pri[k] /\ jtube'[k] = jtube[k],
         Liv(j) => jtube[j] = t, Liv(j)' => jtube'[j] = t,
         NEW r \in Int, NEW u \in Int, NEW v \in Int, NEW b \in Int, NEW n \in Int,
         r = One(Rdy(j)') - One(Rdy(j)), u = One(Urg(j)') - One(Urg(j)),
         v = One(Res(j)') - One(Res(j)), b = One(Bur(j)') - One(Bur(j)),
         n = One(Liv(j)') - One(Liv(j)),
         GJobs(gstat, gstat', r, u, v, b, n),
         TJobs(tstat[t], tstat'[t], u, v, b, n),
         \A s \in Tubes \ {t} : TJobs(tstat[s], tstat'[s], 0, 0, 0, 0)
  PROVE  JobsCounted'
<1>1. IsFiniteSet(Ids)
  BY NumbersAssumption, FS_Interval DEF Ids
<1>2. /\ IsFiniteSet(InState("ready")) /\ IsFiniteSet(UrgentReady) /\ IsFiniteSet(Live)
      /\ IsFiniteSet(InState("reserved")) /\ IsFiniteSet(InState("buried"))
      /\ \A s : /\ IsFiniteSet(OfTube(s, UrgentReady)) /\ IsFiniteSet(OfTube(s, Live))
                /\ IsFiniteSet(OfTube(s, InState("reserved")))
                /\ IsFiniteSet(OfTube(s, InState("buried")))
  <2>1. /\ InState("ready") \in SUBSET Ids /\ UrgentReady \in SUBSET Ids /\ Live \in SUBSET Ids
        /\ InState("reserved") \in SUBSET Ids /\ InState("buried") \in SUBSET Ids
        /\ \A s : /\ OfTube(s, UrgentReady) \in SUBSET Ids /\ OfTube(s, Live) \in SUBSET Ids
                  /\ OfTube(s, InState("reserved")) \in SUBSET Ids
                  /\ OfTube(s, InState("buried")) \in SUBSET Ids
    BY DEF InState, UrgentReady, Live, OfTube
  <2> QED BY <1>1, <2>1, FS_Subset
<1>3. /\ Cardinality(InState("ready")') = Cardinality(InState("ready")) + r
      /\ Cardinality(UrgentReady') = Cardinality(UrgentReady) + u
      /\ Cardinality(InState("reserved")') = Cardinality(InState("reserved")) + v
      /\ Cardinality(InState("buried")') = Cardinality(InState("buried")) + b
      /\ Cardinality(Live') = Cardinality(Live) + n
  <2>1. \A k \in Ids : /\ k \in InState("ready") <=> Rdy(k)
                       /\ k \in UrgentReady <=> Urg(k)
                       /\ k \in InState("reserved") <=> Res(k)
                       /\ k \in InState("buried") <=> Bur(k)
                       /\ k \in Live <=> Liv(k)
    BY DEF InState, UrgentReady, Live, Rdy, Urg, Res, Bur, Liv
  <2>2. \A k \in Ids : /\ k \in InState("ready")' <=> Rdy(k)'
                       /\ k \in UrgentReady' <=> Urg(k)'
                       /\ k \in InState("reserved")' <=> Res(k)'
                       /\ k \in InState("buried")' <=> Bur(k)'
                       /\ k \in Live' <=> Liv(k)'
    BY DEF InState, UrgentReady, Live, Rdy, Urg, Res, Bur, Liv
  <2>3. /\ \A k : k # j => (k \in InState("ready") <=> k \in InState("ready")')
        /\ \A k : k # j => (k \in UrgentReady <=> k \in UrgentReady')
        /\ \A k : k # j => (k \in InState("reserved") <=> k \in InState("reserved")')
        /\ \A k : k # j => (k \in InState("buried") <=> k \in InState("buried")')
        /\ \A k : k # j => (k \in Live <=> k \in Live')
    BY DEF InState, UrgentReady, Live
  <2>4. Cardinality(InState("ready")') =
          Cardinality(InState("ready")) + (One(j \in InState("ready")') - One(j \in InState("ready")))
    BY <1>2, <2>3, CountOne
  <2>5. Cardinality(UrgentReady') =
          Cardinality(UrgentReady) + (One(j \in UrgentReady') - One(j \in UrgentReady))
    BY <1>2, <2>3, CountOne
  <2>6. Cardinality(InState("reserved")') = Cardinality(InState("reserved"))
          + (One(j \in InState("reserved")') - One(j \in InState("reserved")))
    BY <1>2, <2>3, CountOne
  <2>7. Cardinality(InState("buried")') = Cardinality(InState("buried"))
          + (One(j \in InState("buried")') - One(j \in InState("buried")))
    BY <1>2, <2>3, CountOne
  <2>8. Cardinality(Live') = Cardinality(Live) + (One(j \in Live') - One(j \in Live))
    BY <1>2, <2>3, CountOne
  <2> QED BY <2>1, <2>2, <2>4, <2>5, <2>6, <2>7, <2>8 DEF One
<1>4. ASSUME NEW s \in Tubes
      PROVE  /\ Cardinality(OfTube(s, UrgentReady)') =
                  Cardinality(OfTube(s, UrgentReady)) + (IF s = t THEN u ELSE 0)
             /\ Cardinality(OfTube(s, InState("reserved"))') =
                  Cardinality(OfTube(s, InState("reserved"))) + (IF s = t THEN v ELSE 0)
             /\ Cardinality(OfTube(s, InState("buried"))') =
                  Cardinality(OfTube(s, InState("buried"))) + (IF s = t THEN b ELSE 0)
             /\ Cardinality(OfTube(s, Live)') =
                  Cardinality(OfTube(s, Live)) + (IF s = t THEN n ELSE 0)
  <2>1. /\ j \in OfTube(s, UrgentReady) <=> s = t /\ Urg(j)
        /\ j \in OfTube(s, InState("reserved")) <=> s = t /\ Res(j)
        /\ j \in OfTube(s, InState("buried")) <=> s = t /\ Bur(j)
        /\ j \in OfTube(s, Live) <=> s = t /\ Liv(j)
    BY DEF InState, UrgentReady, Live, OfTube, Urg, Res, Bur, Liv
  <2>2. /\ j \in OfTube(s, UrgentReady)' <=> s = t /\ Urg(j)'
        /\ j \in OfTube(s, InState("reserved"))' <=> s = t /\ Res(j)'
        /\ j \in OfTube(s, InState("buried"))' <=> s = t /\ Bur(j)'
        /\ j \in OfTube(s, Live)' <=> s = t /\ Liv(j)'
    BY DEF InState, UrgentReady, Live, OfTube, Urg, Res, Bur, Liv
  <2>3. /\ \A k : k # j => (k \in OfTube(s, UrgentReady) <=> k \in OfTube(s, UrgentReady)')
        /\ \A k : k # j => (k \in OfTube(s, InState("reserved"))
                              <=> k \in OfTube(s, InState("reserved"))')
        /\ \A k : k # j => (k \in OfTube(s, InState("buried"))
                              <=> k \in OfTube(s, InState("buried"))')
        /\ \A k : k # j => (k \in OfTube(s, Live) <=> k \in OfTube(s, Live)')
    BY DEF InState, UrgentReady, Live, OfTube
  <2>4. Cardinality(OfTube(s, UrgentReady)') = Cardinality(OfTube(s, UrgentReady))
          + (One(j \in OfTube(s, UrgentReady)') - One(j \in OfTube(s, UrgentReady)))
    BY <1>2, <2>3, CountOne
  <2>5. Cardinality(OfTube(s, InState("reserved"))') = Cardinality(OfTube(s, InState("reserved")))
          + (One(j \in OfTube(s, InState("reserved"))') - One(j \in OfTube(s, InState("reserved"))))
    BY <1>2, <2>3, CountOne
  <2>6. Cardinality(OfTube(s, InState("buried"))') = Cardinality(OfTube(s, InState("buried")))
          + (One(j \in OfTube(s, InState("buried"))') - One(j \in OfTube(s, InState("buried"))))
    BY <1>2, <2>3, CountOne
  <2>7. Cardinality(OfTube(s, Live)') = Cardinality(OfTube(s, Live))
          + (One(j \in OfTube(s, Live)') - One(j \in OfTube(s, Live)))
    BY <1>2, <2>3, CountOne
  <2>8. CASE s = t
    BY <2>1, <2>2, <2>4, <2>5, <2>6, <2>7, <2>8 DEF One
  <2>9. CASE s # t
    BY <2>1, <2>2, <2>4, <2>5, <2>6, <2>7, <2>9 DEF One
  <2> QED BY <2>8, <2>9
<1>5. /\ gstat'.ready = Cardinality(InState("ready")') /\ gstat'.urgent = Cardinality(UrgentReady')
      /\ gstat'.reserved = Cardinality(InState("reserved")')
      /\ gstat'.buried = Cardinality(InState("buried")') /\ gstat'.jobs = Cardinality(Live')
  BY <1>3 DEF JobsCounted, GJobs
<1>6. ASSUME NEW s \in Tubes
      PROVE  /\ tstat'[s].urgent = Cardinality(OfTube(s, UrgentReady)')
             /\ tstat'[s].reserved = Cardinality(OfTube(s, InState("reserved"))')
             /\ tstat'[s].buried = Cardinality(OfTube(s, InState("buried"))')
             /\ tstat'[s].jobs = Cardinality(OfTube(s, Live)')
  <2>1. /\ tstat[s].urgent = Cardinality(OfTube(s, UrgentReady))
        /\ tstat[s].reserved = Cardinality(OfTube(s, InState("reserved")))
        /\ tstat[s].buried = Cardinality(OfTube(s, InState("buried")))
        /\ tstat[s].jobs = Cardinality(OfTube(s, Live))
    BY DEF JobsCounted
  <2>2. CASE s = t
    BY <1>4, <2>1, <2>2 DEF TJobs
  <2>3. CASE s # t
    BY <1>4, <2>1, <2>3 DEF TJobs
  <2> QED BY <2>2, <2>3
<1> QED BY <1>5, <1>6 DEF JobsCounted

\* Only connection c changes, and the counters move by what it was and is.
LEMMA ConnsCount ==
  ASSUME ConnsCounted, Sound, waiting' \in [Tubes -> SUBSET Conns], StatTypes, NEW c \in Conns,
         \A b \in Conns \ {c} : /\ cstate'[b] = cstate[b] /\ ctype'[b] = ctype[b]
                                /\ use'[b] = use[b] /\ watch'[b] = watch[b]
                                /\ \A t \in Tubes : b \in waiting[t] <=> b \in waiting'[t],
         GConns(gstat, gstat',
                One(cstate'[c] = "wait") - One(cstate[c] = "wait"),
                One(cstate'[c] \notin {"closed", "close"}) - One(cstate[c] \notin {"closed", "close"}),
                One("producer" \in ctype'[c]) - One("producer" \in ctype[c]),
                One("worker" \in ctype'[c]) - One("worker" \in ctype[c])),
         \A t \in Tubes :
           TConns(tstat[t], tstat'[t],
                  One(c \in waiting'[t]) - One(c \in waiting[t]),
                  One(use'[c] = t) - One(use[c] = t),
                  One(t \in watch'[c]) - One(t \in watch[c]))
  PROVE  ConnsCounted'
<1>1. IsFiniteSet(Conns)
  BY ConnsAssumption
<1>2. /\ IsFiniteSet(Waits) /\ IsFiniteSet(Opens) /\ \A k : IsFiniteSet(Are(k))
      /\ \A t : IsFiniteSet(Using(t)) /\ IsFiniteSet(Watching(t))
      /\ \A t \in Tubes : IsFiniteSet(waiting[t])
  <2>1. /\ Waits \in SUBSET Conns /\ Opens \in SUBSET Conns /\ \A k : Are(k) \in SUBSET Conns
        /\ \A t : Using(t) \in SUBSET Conns /\ Watching(t) \in SUBSET Conns
        /\ \A t \in Tubes : waiting[t] \in SUBSET Conns
    BY DEF Waits, Opens, Are, Using, Watching, Sound, TypeOK, TubeTypes
  <2> QED BY <1>1, <2>1, FS_Subset
<1>3. /\ \A b : b # c => (b \in Waits <=> b \in Waits')
      /\ \A b : b # c => (b \in Opens <=> b \in Opens')
      /\ \A b : b # c => (b \in Are("producer") <=> b \in Are("producer")')
      /\ \A b : b # c => (b \in Are("worker") <=> b \in Are("worker")')
  BY DEF Waits, Opens, Are
<1>4. /\ Cardinality(Waits') = Cardinality(Waits) + (One(c \in Waits') - One(c \in Waits))
      /\ Cardinality(Opens') = Cardinality(Opens) + (One(c \in Opens') - One(c \in Opens))
      /\ Cardinality(Are("producer")') = Cardinality(Are("producer"))
           + (One(c \in Are("producer")') - One(c \in Are("producer")))
      /\ Cardinality(Are("worker")') = Cardinality(Are("worker"))
           + (One(c \in Are("worker")') - One(c \in Are("worker")))
  <2>1. Cardinality(Waits') = Cardinality(Waits) + (One(c \in Waits') - One(c \in Waits))
    BY <1>2, <1>3, CountOne
  <2>2. Cardinality(Opens') = Cardinality(Opens) + (One(c \in Opens') - One(c \in Opens))
    BY <1>2, <1>3, CountOne
  <2>3. Cardinality(Are("producer")') = Cardinality(Are("producer"))
          + (One(c \in Are("producer")') - One(c \in Are("producer")))
    BY <1>2, <1>3, CountOne
  <2>4. Cardinality(Are("worker")') = Cardinality(Are("worker"))
          + (One(c \in Are("worker")') - One(c \in Are("worker")))
    BY <1>2, <1>3, CountOne
  <2> QED BY <2>1, <2>2, <2>3, <2>4
<1>5. /\ (c \in Waits <=> cstate[c] = "wait") /\ (c \in Waits' <=> cstate'[c] = "wait")
      /\ (c \in Opens <=> cstate[c] \notin {"closed", "close"})
      /\ (c \in Opens' <=> cstate'[c] \notin {"closed", "close"})
      /\ (c \in Are("producer") <=> "producer" \in ctype[c])
      /\ (c \in Are("producer")' <=> "producer" \in ctype'[c])
      /\ (c \in Are("worker") <=> "worker" \in ctype[c])
      /\ (c \in Are("worker")' <=> "worker" \in ctype'[c])
  BY DEF Waits, Opens, Are
<1>6. /\ gstat'.waiting = Cardinality(Waits') /\ gstat'.conns = Cardinality(Opens')
      /\ gstat'.producers = Cardinality(Are("producer")')
      /\ gstat'.workers = Cardinality(Are("worker")')
  BY <1>4, <1>5 DEF ConnsCounted, GConns, One
<1>7. ASSUME NEW t \in Tubes
      PROVE  /\ tstat'[t].waiting = Cardinality(waiting'[t])
             /\ tstat'[t].using = Cardinality(Using(t)')
             /\ tstat'[t].watching = Cardinality(Watching(t)')
  <2>1. /\ \A b : b # c => (b \in waiting[t] <=> b \in waiting'[t])
        /\ \A b : b # c => (b \in Using(t) <=> b \in Using(t)')
        /\ \A b : b # c => (b \in Watching(t) <=> b \in Watching(t)')
    BY DEF Sound, TypeOK, TubeTypes, Using, Watching
  <2>2. Cardinality(waiting'[t]) =
          Cardinality(waiting[t]) + (One(c \in waiting'[t]) - One(c \in waiting[t]))
    BY <1>2, <2>1, CountOne
  <2>3. Cardinality(Using(t)') = Cardinality(Using(t)) + (One(c \in Using(t)') - One(c \in Using(t)))
    BY <1>2, <2>1, CountOne
  <2>4. Cardinality(Watching(t)') =
          Cardinality(Watching(t)) + (One(c \in Watching(t)') - One(c \in Watching(t)))
    BY <1>2, <2>1, CountOne
  <2>5. /\ (c \in Using(t) <=> use[c] = t) /\ (c \in Using(t)' <=> use'[c] = t)
        /\ (c \in Watching(t) <=> t \in watch[c]) /\ (c \in Watching(t)' <=> t \in watch'[c])
    BY DEF Using, Watching
  <2> QED BY <2>2, <2>3, <2>4, <2>5 DEF ConnsCounted, TConns, One
<1> QED BY <1>6, <1>7 DEF ConnsCounted

\* A counter that a handler leaves alone has moved by nothing.
LEMMA StatsAlone ==
  ASSUME StatTypes
  PROVE  /\ GJobs(gstat, gstat, 0, 0, 0, 0, 0) /\ GConns(gstat, gstat, 0, 0, 0, 0)
         /\ \A t \in Tubes : /\ TJobs(tstat[t], tstat[t], 0, 0, 0, 0)
                             /\ TConns(tstat[t], tstat[t], 0, 0, 0)
<1>1. GJobs(gstat, gstat, 0, 0, 0, 0, 0) /\ GConns(gstat, gstat, 0, 0, 0, 0)
  BY DEF StatTypes, GStat, GJobs, GConns
<1>2. ASSUME NEW t \in Tubes
      PROVE  TJobs(tstat[t], tstat[t], 0, 0, 0, 0) /\ TConns(tstat[t], tstat[t], 0, 0, 0)
  <2>1. tstat[t] \in TStat
    BY DEF StatTypes
  <2> QED BY <2>1 DEF TStat, TJobs, TConns
<1> QED BY <1>1, <1>2

\* No job changes, nor does a counter of jobs.
LEMMA JobsStill ==
  ASSUME JobsCounted, StatTypes, UNCHANGED <<jstate, pri, jtube>>,
         GJobs(gstat, gstat', 0, 0, 0, 0, 0),
         \A t \in Tubes : TJobs(tstat[t], tstat'[t], 0, 0, 0, 0)
  PROVE  JobsCounted'
<1>1. /\ InState("ready")' = InState("ready") /\ UrgentReady' = UrgentReady /\ Live' = Live
      /\ InState("reserved")' = InState("reserved") /\ InState("buried")' = InState("buried")
      /\ \A t : /\ OfTube(t, UrgentReady)' = OfTube(t, UrgentReady)
                /\ OfTube(t, InState("reserved"))' = OfTube(t, InState("reserved"))
                /\ OfTube(t, InState("buried"))' = OfTube(t, InState("buried"))
                /\ OfTube(t, Live)' = OfTube(t, Live)
  BY DEF InState, UrgentReady, Live, OfTube
<1>2. /\ gstat'.ready = gstat.ready /\ gstat'.urgent = gstat.urgent
      /\ gstat'.reserved = gstat.reserved /\ gstat'.buried = gstat.buried
      /\ gstat'.jobs = gstat.jobs
  BY DEF GJobs, StatTypes, GStat
<1>3. ASSUME NEW t \in Tubes
      PROVE  /\ tstat'[t].urgent = tstat[t].urgent /\ tstat'[t].reserved = tstat[t].reserved
             /\ tstat'[t].buried = tstat[t].buried /\ tstat'[t].jobs = tstat[t].jobs
  <2>1. tstat[t] \in TStat
    BY DEF StatTypes
  <2> QED BY <2>1 DEF TJobs, TStat
<1> QED BY <1>1, <1>2, <1>3 DEF JobsCounted

\* Nothing that is counted of connection c changes.
SameConn(c) ==
  /\ cstate'[c] = "wait" <=> cstate[c] = "wait"
  /\ cstate'[c] \in {"closed", "close"} <=> cstate[c] \in {"closed", "close"}
  /\ \A k \in {"producer", "worker"} : k \in ctype'[c] <=> k \in ctype[c]
  /\ use'[c] = use[c] /\ watch'[c] = watch[c]

LEMMA ConnsStill ==
  ASSUME ConnsCounted, StatTypes, \A c \in Conns : SameConn(c), waiting' = waiting,
         GConns(gstat, gstat', 0, 0, 0, 0),
         \A t \in Tubes : TConns(tstat[t], tstat'[t], 0, 0, 0)
  PROVE  ConnsCounted'
<1>1. /\ Waits' = Waits /\ Opens' = Opens
      /\ Are("producer")' = Are("producer") /\ Are("worker")' = Are("worker")
      /\ \A t : Using(t)' = Using(t) /\ Watching(t)' = Watching(t)
  BY DEF SameConn, Waits, Opens, Are, Using, Watching
<1>2. /\ gstat'.waiting = gstat.waiting /\ gstat'.conns = gstat.conns
      /\ gstat'.producers = gstat.producers /\ gstat'.workers = gstat.workers
  BY DEF GConns, StatTypes, GStat
<1>3. ASSUME NEW t \in Tubes
      PROVE  /\ tstat'[t].waiting = tstat[t].waiting /\ tstat'[t].using = tstat[t].using
             /\ tstat'[t].watching = tstat[t].watching
  <2>1. tstat[t] \in TStat
    BY DEF StatTypes
  <2> QED BY <2>1 DEF TConns, TStat
<1> QED BY <1>1, <1>2, <1>3 DEF ConnsCounted

-----------------------------------------------------------------------------
(***************************************************************************)
(* enqueueJob.                                                             *)
(***************************************************************************)
LEMMA EnqueueCounts ==
  ASSUME NEW j, NEW t \in Tubes, NEW p \in Nat, NEW d \in Nat,
         NEW G \in GStat, NEW T \in [Tubes -> TStat], EnqueueJob(j, t, p, d, G, T)
  PROVE  /\ Shape(gstat') /\ GConns(G, gstat', 0, 0, 0, 0)
         /\ GJobs(G, gstat', One(d = 0), IF d = 0 THEN Urgent(p) ELSE 0, 0, 0, 0)
         /\ tstat' \in [Tubes -> TStat]
         /\ TJobs(T[t], tstat'[t], IF d = 0 THEN Urgent(p) ELSE 0, 0, 0, 0)
         /\ \A s \in Tubes : TConns(T[s], tstat'[s], 0, 0, 0)
         /\ \A s \in Tubes \ {t} : tstat'[s] = T[s]
<1> DEFINE r == One(d <= 0)
           u == IF d <= 0 THEN Urgent(p) ELSE 0
<1>1. r \in Int /\ u \in Int /\ r = One(d = 0) /\ u = (IF d = 0 THEN Urgent(p) ELSE 0)
  BY DEF One, Urgent
<1>2. /\ gstat' = [G EXCEPT !.ready = @ + r, !.urgent = @ + u]
      /\ tstat' = [T EXCEPT ![t].urgent = @ + u]
  BY DEF EnqueueJob
<1> HIDE DEF r, u
<1>3. GJobs(G, gstat', r, u, 0, 0, 0)
  BY <1>1, <1>2 DEF GStat, GJobs
<1>4. GConns(G, gstat', 0, 0, 0, 0)
  BY <1>1, <1>2 DEF GStat, GConns
<1>5. Shape(gstat')
  BY <1>1, <1>2 DEF GStat, Shape
<1>6. tstat' \in [Tubes -> TStat]
  BY <1>1, <1>2 DEF TStat
<1>7. TJobs(T[t], tstat'[t], u, 0, 0, 0)
  BY <1>1, <1>2 DEF TStat, TJobs
<1>8. \A s \in Tubes : TConns(T[s], tstat'[s], 0, 0, 0)
  BY <1>1, <1>2 DEF TStat, TConns
<1>9. \A s \in Tubes \ {t} : tstat'[s] = T[s]
  BY <1>1, <1>2
<1> QED BY <1>1, <1>3, <1>4, <1>5, <1>6, <1>7, <1>8, <1>9

\* A job that was not ready nor buried is enqueued, by a caller whose counters G and T
\* say already that it is no longer reserved, or that there is a new job.
LEMMA EnqueueCounted ==
  ASSUME Sound, JobsCounted, StatTypes,
         NEW j \in Ids, NEW t \in Tubes, NEW p \in Nat, NEW d \in Nat,
         NEW G \in GStat, NEW T \in [Tubes -> TStat], EnqueueJob(j, t, p, d, G, T),
         pri'[j] = p, jtube'[j] = t,
         \A i \in Ids \ {j} : pri'[i] = pri[i] /\ jtube'[i] = jtube[i],
         jstate[j] \notin {"ready", "buried"}, Liv(j) => jtube[j] = t,
         NEW k \in Int,
         GJobs(gstat, G, 0, 0, 0 - One(Res(j)), 0, One(~Liv(j))), GConns(gstat, G, 0, 0, k, 0),
         TJobs(tstat[t], T[t], 0, 0 - One(Res(j)), 0, One(~Liv(j))),
         \A s \in Tubes : TConns(tstat[s], T[s], 0, 0, 0),
         \A s \in Tubes \ {t} : T[s] = tstat[s]
  PROVE  /\ JobsCounted' /\ StatTypes' /\ GConns(gstat, gstat', 0, 0, k, 0)
         /\ \A s \in Tubes : TConns(tstat[s], tstat'[s], 0, 0, 0)
<1> DEFINE r == One(d = 0)
           u == IF d = 0 THEN Urgent(p) ELSE 0
           v == 0 - One(Res(j))
           n == One(~Liv(j))
<1>1. r \in Int /\ u \in Int /\ v \in Int /\ n \in Int /\ 0 \in Int
  BY DEF One, Urgent
<1>2. /\ jstate'[j] = IF d = 0 THEN "ready" ELSE "delayed"
      /\ \A i \in Ids \ {j} : jstate'[i] = jstate[i]
  BY DEF EnqueueJob, Sound, TypeOK, JobTypes
<1>3. /\ r = One(Rdy(j)') - One(Rdy(j)) /\ u = One(Urg(j)') - One(Urg(j))
      /\ 0 = One(Bur(j)') - One(Bur(j))
  BY <1>2 DEF One, Urgent, Rdy, Urg, Bur
<1>4. v = One(Res(j)') - One(Res(j)) /\ n = One(Liv(j)') - One(Liv(j))
  BY <1>2 DEF One, Res, Liv
<1>5. /\ Shape(gstat') /\ GConns(G, gstat', 0, 0, 0, 0) /\ GJobs(G, gstat', r, u, 0, 0, 0)
      /\ tstat' \in [Tubes -> TStat] /\ TJobs(T[t], tstat'[t], u, 0, 0, 0)
      /\ \A s \in Tubes : TConns(T[s], tstat'[s], 0, 0, 0)
      /\ \A s \in Tubes \ {t} : tstat'[s] = T[s]
  BY EnqueueCounts
<1> HIDE DEF r, u, v, n
<1>6. GJobs(gstat, G, 0, 0, v, 0, n) /\ TJobs(tstat[t], T[t], 0, v, 0, n)
  BY DEF v, n
<1>7. gstat \in GStat /\ tstat \in [Tubes -> TStat]
  BY DEF StatTypes
<1>8. gstat' \in GStat
  BY <1>1, <1>5, ShapeType
<1>9. GJobs(gstat, gstat', r, u, v, 0, n) /\ GConns(gstat, gstat', 0, 0, k, 0)
  <2>1. GJobs(gstat, gstat', 0 + r, 0 + u, v + 0, 0 + 0, n + 0)
        /\ GConns(gstat, gstat', 0 + 0, 0 + 0, k + 0, 0 + 0)
    BY <1>1, <1>5, <1>6, <1>7, <1>8, GAdds
  <2>2. 0 + r = r /\ 0 + u = u /\ v + 0 = v /\ 0 + 0 = 0 /\ n + 0 = n /\ k + 0 = k
    BY <1>1
  <2> QED BY <2>1, <2>2
<1>10. TJobs(tstat[t], tstat'[t], u, v, 0, n)
  BY <1>1, <1>5, <1>6, <1>7 DEF TJobs, TStat
<1>11. ASSUME NEW s \in Tubes PROVE TConns(tstat[s], tstat'[s], 0, 0, 0)
  <2>1. /\ TConns(tstat[s], T[s], 0, 0, 0) /\ TConns(T[s], tstat'[s], 0, 0, 0)
        /\ tstat[s] \in TStat
    BY <1>5, <1>7
  <2> QED BY <2>1 DEF TConns, TStat
<1>12. \A s \in Tubes \ {t} : TJobs(tstat[s], tstat'[s], 0, 0, 0, 0)
  BY <1>5, StatsAlone
<1>13. JobsCounted'
  BY <1>1, <1>2, <1>3, <1>4, <1>9, <1>10, <1>12, JobsCount
<1> QED BY <1>5, <1>8, <1>9, <1>11, <1>13 DEF StatTypes

-----------------------------------------------------------------------------
(***************************************************************************)
(* The handlers that move no job.                                          *)
(***************************************************************************)

\* Nothing uses or watches a tube in a slot without a connection.
ClosedBlank == \A c \in Conns : cstate[c] = "closed" => use[c] = NoTube /\ watch[c] = {}

StatInv == StatTypes /\ JobsCounted /\ ConnsCounted /\ ClosedBlank

Counted == StatTypes /\ JobsCounted /\ ConnsCounted

\* Nothing that is counted changes.
LEMMA NothingCounted ==
  ASSUME Counted, UNCHANGED <<jstate, pri, jtube, waiting, gstat, tstat>>,
         \A c \in Conns : SameConn(c)
  PROVE  Counted'
<1>1. StatTypes'
  BY DEF Counted, StatTypes
<1>2. JobsCounted'
  BY StatsAlone, JobsStill DEF Counted
<1>3. ConnsCounted'
  BY StatsAlone, ConnsStill DEF Counted
<1> QED BY <1>1, <1>2, <1>3 DEF Counted

\* One connection changes, no job does, and the counters of the connections move along.
LEMMA OneConn ==
  ASSUME Counted, Sound, waiting' \in [Tubes -> SUBSET Conns],
         UNCHANGED <<jstate, pri, jtube>>, NEW c \in Conns,
         \A b \in Conns \ {c} : /\ cstate'[b] = cstate[b] /\ ctype'[b] = ctype[b]
                                /\ use'[b] = use[b] /\ watch'[b] = watch[b]
                                /\ \A t \in Tubes : b \in waiting[t] <=> b \in waiting'[t],
         NEW w \in Int, NEW o \in Int, NEW p \in Int, NEW k \in Int,
         w = One(cstate'[c] = "wait") - One(cstate[c] = "wait"),
         o = One(cstate'[c] \notin {"closed", "close"}) - One(cstate[c] \notin {"closed", "close"}),
         p = One("producer" \in ctype'[c]) - One("producer" \in ctype[c]),
         k = One("worker" \in ctype'[c]) - One("worker" \in ctype[c]),
         Shape(gstat'), GJobs(gstat, gstat', 0, 0, 0, 0, 0), GConns(gstat, gstat', w, o, p, k),
         tstat' \in [Tubes -> TStat],
         \A t \in Tubes :
           /\ TJobs(tstat[t], tstat'[t], 0, 0, 0, 0)
           /\ TConns(tstat[t], tstat'[t], One(c \in waiting'[t]) - One(c \in waiting[t]),
                     One(use'[c] = t) - One(use[c] = t), One(t \in watch'[c]) - One(t \in watch[c]))
  PROVE  Counted'
<1>1. gstat' \in GStat
  <2>1. gstat \in GStat /\ 0 \in Int
    BY DEF Counted, StatTypes
  <2> QED BY <2>1, ShapeType
<1>2. JobsCounted'
  BY JobsStill DEF Counted
<1>3. ConnsCounted'
  BY ConnsCount DEF Counted
<1> QED BY <1>1, <1>2, <1>3 DEF Counted, StatTypes

\* A handler that answers and changes what is counted of no connection.
LEMMA AnswerCounted ==
  ASSUME Counted, Sound, NEW c \in Conns, NEW st,
         cstate[c] \notin {"wait", "closed", "close"}, st \notin {"wait", "closed", "close"},
         cstate' = [cstate EXCEPT ![c] = st],
         UNCHANGED <<jstate, pri, jtube, waiting, gstat, tstat, ctype, use, watch>>
  PROVE  Counted'
<1>1. \A b \in Conns : SameConn(b)
  BY DEF SameConn, Sound, TypeOK, ConnTypes
<1> QED BY <1>1, NothingCounted

\* A handler that changes the state and the type of one connection.
LEMMA KindCounted ==
  ASSUME Counted, Sound, UNCHANGED <<jstate, pri, jtube, waiting, use, watch, tstat>>,
         NEW c \in Conns, NEW st, NEW K,
         cstate' = [cstate EXCEPT ![c] = st], ctype' = [ctype EXCEPT ![c] = K],
         cstate[c] \notin {"wait", "closed", "close"}, st # "wait",
         NEW o \in Int, NEW p \in Int, NEW k \in Int,
         o = One(st \notin {"closed", "close"}) - 1,
         p = One("producer" \in K) - One("producer" \in ctype[c]),
         k = One("worker" \in K) - One("worker" \in ctype[c]),
         Shape(gstat'), GJobs(gstat, gstat', 0, 0, 0, 0, 0), GConns(gstat, gstat', 0, o, p, k)
  PROVE  Counted'
<1>1. /\ cstate \in [Conns -> ConnStates] /\ waiting' \in [Tubes -> SUBSET Conns]
      /\ ctype \in [Conns -> SUBSET {"producer", "worker", "waiting"}]
  BY DEF Sound, TypeOK, ConnTypes, TubeTypes
<1>2. /\ cstate'[c] = st /\ ctype'[c] = K
      /\ \A b \in Conns \ {c} : cstate'[b] = cstate[b] /\ ctype'[b] = ctype[b]
  BY <1>1
<1>3. /\ 0 = One(cstate'[c] = "wait") - One(cstate[c] = "wait")
      /\ o = One(cstate'[c] \notin {"closed", "close"}) - One(cstate[c] \notin {"closed", "close"})
      /\ p = One("producer" \in ctype'[c]) - One("producer" \in ctype[c])
      /\ k = One("worker" \in ctype'[c]) - One("worker" \in ctype[c])
  BY <1>2 DEF One
<1>4. tstat' \in [Tubes -> TStat]
  BY DEF Counted, StatTypes
<1>5. ASSUME NEW t \in Tubes
      PROVE  /\ TJobs(tstat[t], tstat'[t], 0, 0, 0, 0)
             /\ TConns(tstat[t], tstat'[t], One(c \in waiting'[t]) - One(c \in waiting[t]),
                       One(use'[c] = t) - One(use[c] = t), One(t \in watch'[c]) - One(t \in watch[c]))
  <2>1. /\ One(c \in waiting'[t]) - One(c \in waiting[t]) = 0
        /\ One(use'[c] = t) - One(use[c] = t) = 0
        /\ One(t \in watch'[c]) - One(t \in watch[c]) = 0
    BY DEF One
  <2>2. TJobs(tstat[t], tstat'[t], 0, 0, 0, 0) /\ TConns(tstat[t], tstat'[t], 0, 0, 0)
    BY StatsAlone DEF Counted
  <2> QED BY <2>1, <2>2
<1>6. 0 \in Int
  OBVIOUS
<1> QED BY <1>1, <1>2, <1>3, <1>4, <1>5, <1>6, OneConn

\* A handler that changes the state of one connection, its tubes and the lists it waits in.
LEMMA TubesCounted ==
  ASSUME Counted, Sound, waiting' \in [Tubes -> SUBSET Conns],
         UNCHANGED <<jstate, pri, jtube>>, NEW c \in Conns, NEW w \in Int, NEW k \in Int,
         \A b \in Conns \ {c} : /\ cstate'[b] = cstate[b] /\ ctype'[b] = ctype[b]
                                /\ use'[b] = use[b] /\ watch'[b] = watch[b]
                                /\ \A t \in Tubes : b \in waiting[t] <=> b \in waiting'[t],
         w = One(cstate'[c] = "wait") - One(cstate[c] = "wait"),
         cstate'[c] \in {"closed", "close"} <=> cstate[c] \in {"closed", "close"},
         "producer" \in ctype'[c] <=> "producer" \in ctype[c],
         k = One("worker" \in ctype'[c]) - One("worker" \in ctype[c]),
         Shape(gstat'), GJobs(gstat, gstat', 0, 0, 0, 0, 0), GConns(gstat, gstat', w, 0, 0, k),
         tstat' \in [Tubes -> TStat],
         \A t \in Tubes :
           /\ TJobs(tstat[t], tstat'[t], 0, 0, 0, 0)
           /\ TConns(tstat[t], tstat'[t], One(c \in waiting'[t]) - One(c \in waiting[t]),
                     One(use'[c] = t) - One(use[c] = t), One(t \in watch'[c]) - One(t \in watch[c]))
  PROVE  Counted'
<1>1. /\ 0 = One(cstate'[c] \notin {"closed", "close"}) - One(cstate[c] \notin {"closed", "close"})
      /\ 0 = One("producer" \in ctype'[c]) - One("producer" \in ctype[c])
      /\ 0 \in Int
  BY DEF One
<1> QED BY <1>1, OneConn

\* Entering and leaving the waiting lists of the watched tubes.
LEMMA WaitersCounted ==
  ASSUME Counted, NEW c \in Conns, NEW n \in Int
  PROVE  /\ CountWaiting(tstat, c, n) \in [Tubes -> TStat]
         /\ \A t \in Tubes :
              /\ TJobs(tstat[t], CountWaiting(tstat, c, n)[t], 0, 0, 0, 0)
              /\ TConns(tstat[t], CountWaiting(tstat, c, n)[t], IF t \in watch[c] THEN n ELSE 0, 0, 0)
<1>1. tstat \in [Tubes -> TStat]
  BY DEF Counted, StatTypes
<1>2. CountWaiting(tstat, c, n) \in [Tubes -> TStat]
  BY <1>1 DEF CountWaiting, TStat
<1>3. ASSUME NEW t \in Tubes
      PROVE  /\ TJobs(tstat[t], CountWaiting(tstat, c, n)[t], 0, 0, 0, 0)
             /\ TConns(tstat[t], CountWaiting(tstat, c, n)[t], IF t \in watch[c] THEN n ELSE 0, 0, 0)
  BY <1>1 DEF CountWaiting, TJobs, TConns, TStat
<1> QED BY <1>2, <1>3

\* One connection watches one more tube, or one less.
LEMMA WatchCounted ==
  ASSUME Counted, Sound, waiting' \in [Tubes -> SUBSET Conns],
         NEW c \in Conns, NEW t \in Tubes, NEW W \in SUBSET Tubes, NEW n \in Int,
         cstate[c] = "wantcommand", cstate' = [cstate EXCEPT ![c] = "sendword"],
         watch' = [watch EXCEPT ![c] = W], tstat' = [tstat EXCEPT ![t].watching = @ + n],
         \A s \in Tubes \ {t} : s \in W <=> s \in watch[c],
         n = One(t \in W) - One(t \in watch[c]),
         UNCHANGED <<jstate, pri, jtube, waiting, use, ctype, gstat>>
  PROVE  Counted'
<1>0. /\ gstat \in GStat /\ tstat \in [Tubes -> TStat]
      /\ cstate \in [Conns -> ConnStates] /\ watch \in [Conns -> SUBSET Tubes]
      /\ 0 \in Int
  BY DEF Counted, StatTypes, Sound, TypeOK, ConnTypes
<1>2. Shape(gstat') BY <1>0 DEF GStat, Shape
<1>3. GJobs(gstat, gstat', 0, 0, 0, 0, 0) /\ GConns(gstat, gstat', 0, 0, 0, 0)
  BY StatsAlone DEF Counted
<1>4. tstat' \in [Tubes -> TStat] BY <1>0 DEF TStat
<1>5. ASSUME NEW s \in Tubes
      PROVE  /\ TJobs(tstat[s], tstat'[s], 0, 0, 0, 0)
             /\ TConns(tstat[s], tstat'[s], One(c \in waiting'[s]) - One(c \in waiting[s]),
                       One(use'[c] = s) - One(use[c] = s), One(s \in watch'[c]) - One(s \in watch[c]))
  <2>1. TJobs(tstat[s], tstat'[s], 0, 0, 0, 0)
    BY <1>0 DEF TJobs, TStat
  <2>2. TConns(tstat[s], tstat'[s], 0, 0, IF s = t THEN n ELSE 0)
    BY <1>0 DEF TConns, TStat
  <2>3. /\ One(c \in waiting'[s]) - One(c \in waiting[s]) = 0
        /\ One(use'[c] = s) - One(use[c] = s) = 0
    BY <1>0 DEF One
  <2>4. One(s \in watch'[c]) - One(s \in watch[c]) = IF s = t THEN n ELSE 0
    BY <1>0 DEF One
  <2> QED BY <2>1, <2>2, <2>3, <2>4
<1>6. /\ 0 = One(cstate'[c] = "wait") - One(cstate[c] = "wait")
      /\ 0 = One("worker" \in ctype'[c]) - One("worker" \in ctype[c])
      /\ "producer" \in ctype'[c] <=> "producer" \in ctype[c]
      /\ cstate'[c] \in {"closed", "close"} <=> cstate[c] \in {"closed", "close"}
  BY <1>0 DEF One
<1>7. \A b \in Conns \ {c} : /\ cstate'[b] = cstate[b] /\ ctype'[b] = ctype[b]
                             /\ use'[b] = use[b] /\ watch'[b] = watch[b]
                             /\ \A s \in Tubes : b \in waiting[s] <=> b \in waiting'[s]
  BY <1>0
<1> QED BY <1>0, <1>2, <1>3, <1>4, <1>5, <1>6, <1>7, TubesCounted

LEMMA TalkerCounted ==
  ASSUME Counted, Sound, waiting' \in [Tubes -> SUBSET Conns], ClosedBlank,
         NEW c \in Conns, Talker(c)
  PROVE  Counted'
<1> USE DEF jobVars, tubeVars, statVars, Event
<1>0. /\ gstat \in GStat /\ tstat \in [Tubes -> TStat]
      /\ cstate \in [Conns -> ConnStates] /\ watch \in [Conns -> SUBSET Tubes]
      /\ use \in [Conns -> Tubes \cup {NoTube}] /\ waiting \in [Tubes -> SUBSET Conns]
      /\ ctype \in [Conns -> SUBSET {"producer", "worker", "waiting"}]
      /\ \A t \in Tubes : c \in waiting[t] <=> cstate[c] = "wait" /\ t \in watch[c]
      /\ \A b : One(b) \in Int
      /\ 0 \in Int /\ 1 \in Int /\ 0 - 1 \in Int
  BY DEF Counted, StatTypes, Sound, TypeOK, ConnTypes, TubeTypes, WaitersAreWaiting, One
<1>1. CASE hAccept(c)
  <2>1. /\ cstate[c] = "closed" /\ cstate' = [cstate EXCEPT ![c] = "wantcommand"]
        /\ use' = [use EXCEPT ![c] = Default] /\ watch' = [watch EXCEPT ![c] = {Default}]
        /\ gstat' = [gstat EXCEPT !.conns = @ + 1]
        /\ tstat' = [tstat EXCEPT ![Default].using = @ + 1, ![Default].watching = @ + 1]
        /\ UNCHANGED <<jstate, pri, jtube, waiting, ctype>>
    BY <1>1 DEF hAccept
  <2>2. use[c] = NoTube /\ watch[c] = {} /\ use'[c] = Default /\ watch'[c] = {Default}
    BY <1>0, <2>1 DEF ClosedBlank
  <2>3. Shape(gstat') BY <1>0, <2>1 DEF GStat, Shape
  <2>4. GJobs(gstat, gstat', 0, 0, 0, 0, 0) BY <1>0, <2>1 DEF GStat, GJobs
  <2>5. GConns(gstat, gstat', 0, 1, 0, 0) BY <1>0, <2>1 DEF GStat, GConns
  <2>6. tstat' \in [Tubes -> TStat] BY <1>0, <2>1, TubesAssumption DEF TStat
  <2>7. ASSUME NEW t \in Tubes
        PROVE  /\ TJobs(tstat[t], tstat'[t], 0, 0, 0, 0)
               /\ TConns(tstat[t], tstat'[t], One(c \in waiting'[t]) - One(c \in waiting[t]),
                         One(use'[c] = t) - One(use[c] = t), One(t \in watch'[c]) - One(t \in watch[c]))
    <3>1. TJobs(tstat[t], tstat'[t], 0, 0, 0, 0)
      BY <1>0, <2>1 DEF TJobs, TStat
    <3>2. TConns(tstat[t], tstat'[t], 0, One(t = Default), One(t = Default))
      BY <1>0, <2>1 DEF TConns, TStat, One
    <3>3. /\ One(c \in waiting'[t]) - One(c \in waiting[t]) = 0
          /\ One(use'[c] = t) - One(use[c] = t) = One(t = Default)
          /\ One(t \in watch'[c]) - One(t \in watch[c]) = One(t = Default)
      BY <1>0, <2>1, <2>2, TubesAssumption DEF One
    <3> QED BY <3>1, <3>2, <3>3
  <2>8. /\ 0 = One(cstate'[c] = "wait") - One(cstate[c] = "wait")
        /\ 1 = One(cstate'[c] \notin {"closed", "close"}) - One(cstate[c] \notin {"closed", "close"})
        /\ 0 = One("producer" \in ctype'[c]) - One("producer" \in ctype[c])
        /\ 0 = One("worker" \in ctype'[c]) - One("worker" \in ctype[c])
    BY <1>0, <2>1 DEF One
  <2>9. \A b \in Conns \ {c} : /\ cstate'[b] = cstate[b] /\ ctype'[b] = ctype[b]
                               /\ use'[b] = use[b] /\ watch'[b] = watch[b]
                               /\ \A t \in Tubes : b \in waiting[t] <=> b \in waiting'[t]
    BY <1>0, <2>1
  <2> QED BY <1>0, <2>1, <2>3, <2>4, <2>5, <2>6, <2>7, <2>8, <2>9, OneConn
<1>2. CASE connWantCommand(c)
  BY <1>2, ReplyState, AnswerCounted DEF connWantCommand
<1>3. CASE HangUp(c)
  <2>1. /\ cstate[c] = "wait" /\ cstate' = [cstate EXCEPT ![c] = "sendword"]
        /\ waiting' = [t \in Tubes |-> IF t \in watch[c] THEN waiting[t] \ {c} ELSE waiting[t]]
        /\ ctype' = [ctype EXCEPT ![c] = @ \ {"waiting"}]
        /\ gstat' = [gstat EXCEPT !.waiting = @ - 1] /\ tstat' = CountWaiting(tstat, c, 0 - 1)
        /\ UNCHANGED <<jstate, pri, jtube, use, watch>>
    BY <1>3, ReplyState DEF HangUp, RemoveWaitingCoon, Answer
  <2>2. Shape(gstat') BY <1>0, <2>1 DEF GStat, Shape
  <2>3. GJobs(gstat, gstat', 0, 0, 0, 0, 0) BY <1>0, <2>1 DEF GStat, GJobs
  <2>4. GConns(gstat, gstat', 0 - 1, 0, 0, 0) BY <1>0, <2>1 DEF GStat, GConns
  <2>5. tstat' \in [Tubes -> TStat] BY <1>0, <2>1, WaitersCounted
  <2>6. ASSUME NEW t \in Tubes
        PROVE  /\ TJobs(tstat[t], tstat'[t], 0, 0, 0, 0)
               /\ TConns(tstat[t], tstat'[t], One(c \in waiting'[t]) - One(c \in waiting[t]),
                         One(use'[c] = t) - One(use[c] = t), One(t \in watch'[c]) - One(t \in watch[c]))
    <3>1. /\ TJobs(tstat[t], tstat'[t], 0, 0, 0, 0)
          /\ TConns(tstat[t], tstat'[t], IF t \in watch[c] THEN 0 - 1 ELSE 0, 0, 0)
      BY <1>0, <2>1, WaitersCounted
    <3>2. /\ One(c \in waiting'[t]) - One(c \in waiting[t]) = IF t \in watch[c] THEN 0 - 1 ELSE 0
          /\ One(use'[c] = t) - One(use[c] = t) = 0
          /\ One(t \in watch'[c]) - One(t \in watch[c]) = 0
      BY <1>0, <2>1 DEF One
    <3> QED BY <3>1, <3>2
  <2>7. /\ 0 - 1 = One(cstate'[c] = "wait") - One(cstate[c] = "wait")
        /\ 0 = One("worker" \in ctype'[c]) - One("worker" \in ctype[c])
        /\ "producer" \in ctype'[c] <=> "producer" \in ctype[c]
        /\ cstate'[c] \in {"closed", "close"} <=> cstate[c] \in {"closed", "close"}
    BY <1>0, <2>1 DEF One
  <2>8. \A b \in Conns \ {c} : /\ cstate'[b] = cstate[b] /\ ctype'[b] = ctype[b]
                               /\ use'[b] = use[b] /\ watch'[b] = watch[b]
                               /\ \A t \in Tubes : b \in waiting[t] <=> b \in waiting'[t]
    BY <1>0, <2>1
  <2> QED BY SMTT(20), <1>0, <2>1, <2>2, <2>3, <2>4, <2>5, <2>6, <2>7, <2>8, TubesCounted
<1>4. CASE connClose(c)
  <2> DEFINE p == 0 - One("producer" \in ctype[c])
             k == 0 - One("worker" \in ctype[c])
  <2>1. /\ cstate[c] \in {"wantcommand", "wantdata"} /\ cstate' = [cstate EXCEPT ![c] = "close"]
        /\ ctype' = [ctype EXCEPT ![c] = {}]
        /\ gstat' = [gstat EXCEPT !.conns = @ - 1,
                                  !.producers = @ - One("producer" \in ctype[c]),
                                  !.workers = @ - One("worker" \in ctype[c])]
        /\ UNCHANGED <<jstate, pri, jtube, waiting, use, watch, tstat>>
    BY <1>4 DEF connClose
  <2>2. Shape(gstat') BY <1>0, <2>1 DEF GStat, Shape
  <2>3. GJobs(gstat, gstat', 0, 0, 0, 0, 0) BY <1>0, <2>1 DEF GStat, GJobs
  <2>4. GConns(gstat, gstat', 0, 0 - 1, p, k) BY <1>0, <2>1 DEF GStat, GConns
  <2>5. /\ p \in Int /\ k \in Int /\ 0 - 1 = One("close" \notin {"closed", "close"}) - 1
        /\ p = One("producer" \in {}) - One("producer" \in ctype[c])
        /\ k = One("worker" \in {}) - One("worker" \in ctype[c])
    BY DEF One
  <2> HIDE DEF p, k
  <2> QED BY <1>0, <2>1, <2>2, <2>3, <2>4, <2>5, KindCounted
<1>5. CASE PutRefused(c)
  <2> DEFINE p == One("producer" \notin ctype[c])
             K == ctype[c] \cup {"producer"}
  <2>1. /\ cstate[c] = "wantcommand" /\ cstate' = [cstate EXCEPT ![c] = "sendword"]
        /\ ctype' = [ctype EXCEPT ![c] = K]
        /\ gstat' = [gstat EXCEPT !.producers = @ + One("producer" \notin ctype[c])]
        /\ UNCHANGED <<jstate, pri, jtube, waiting, use, watch, tstat>>
    BY <1>5, ReplyState DEF PutRefused, SetProducer, SetProducerG, Answer
  <2>2. Shape(gstat') BY <1>0, <2>1 DEF GStat, Shape
  <2>3. GJobs(gstat, gstat', 0, 0, 0, 0, 0) BY <1>0, <2>1 DEF GStat, GJobs
  <2>4. GConns(gstat, gstat', 0, 0, p, 0) BY <1>0, <2>1 DEF GStat, GConns
  <2>5. /\ p \in Int /\ 0 = One("sendword" \notin {"closed", "close"}) - 1
        /\ p = One("producer" \in K) - One("producer" \in ctype[c])
        /\ 0 = One("worker" \in K) - One("worker" \in ctype[c])
    BY DEF One
  <2> HIDE DEF p, K
  <2> QED BY <1>0, <2>1, <2>2, <2>3, <2>4, <2>5, KindCounted
<1>6. CASE dispatchOpReserve(c)
  <2> DEFINE k == One("worker" \notin ctype[c])
  <2>1. /\ cstate[c] = "wantcommand" /\ cstate' = [cstate EXCEPT ![c] = "wait"]
        /\ waiting' = [t \in Tubes |-> IF t \in watch[c] THEN waiting[t] \cup {c} ELSE waiting[t]]
        /\ ctype' = [ctype EXCEPT ![c] = @ \cup {"worker", "waiting"}]
        /\ gstat' = [gstat EXCEPT !.workers = @ + k, !.waiting = @ + 1]
        /\ tstat' = CountWaiting(tstat, c, 1)
        /\ UNCHANGED <<jstate, pri, jtube, use, watch>>
    <3>1. gstat' = [SetWorkerG(c, gstat) EXCEPT !.waiting = @ + 1]
      BY <1>6 DEF dispatchOpReserve
    <3>2. gstat' = [gstat EXCEPT !.workers = @ + k, !.waiting = @ + 1]
      BY <1>0, <3>1 DEF SetWorkerG, GStat
    <3> QED BY <1>6, <3>2, ReplyState DEF dispatchOpReserve
  <2>2. k \in Int BY DEF One
  <2> HIDE DEF k
  <2>3. Shape(gstat') BY <1>0, <2>1, <2>2 DEF GStat, Shape
  <2>4. GJobs(gstat, gstat', 0, 0, 0, 0, 0) BY <1>0, <2>1, <2>2 DEF GStat, GJobs
  <2>5. GConns(gstat, gstat', 1, 0, 0, k) BY <1>0, <2>1, <2>2 DEF GStat, GConns
  <2>6. tstat' \in [Tubes -> TStat] BY <1>0, <2>1, WaitersCounted
  <2>7. ASSUME NEW t \in Tubes
        PROVE  /\ TJobs(tstat[t], tstat'[t], 0, 0, 0, 0)
               /\ TConns(tstat[t], tstat'[t], One(c \in waiting'[t]) - One(c \in waiting[t]),
                         One(use'[c] = t) - One(use[c] = t), One(t \in watch'[c]) - One(t \in watch[c]))
    <3>1. /\ TJobs(tstat[t], tstat'[t], 0, 0, 0, 0)
          /\ TConns(tstat[t], tstat'[t], IF t \in watch[c] THEN 1 ELSE 0, 0, 0)
      BY <1>0, <2>1, WaitersCounted
    <3>2. /\ One(c \in waiting'[t]) - One(c \in waiting[t]) = IF t \in watch[c] THEN 1 ELSE 0
          /\ One(use'[c] = t) - One(use[c] = t) = 0
          /\ One(t \in watch'[c]) - One(t \in watch[c]) = 0
      BY <1>0, <2>1 DEF One
    <3> QED BY <3>1, <3>2
  <2>8. /\ 1 = One(cstate'[c] = "wait") - One(cstate[c] = "wait")
        /\ k = One("worker" \in ctype'[c]) - One("worker" \in ctype[c])
        /\ "producer" \in ctype'[c] <=> "producer" \in ctype[c]
        /\ cstate'[c] \in {"closed", "close"} <=> cstate[c] \in {"closed", "close"}
    BY <1>0, <2>1 DEF One, k
  <2>9. \A b \in Conns \ {c} : /\ cstate'[b] = cstate[b] /\ ctype'[b] = ctype[b]
                               /\ use'[b] = use[b] /\ watch'[b] = watch[b]
                               /\ \A t \in Tubes : b \in waiting[t] <=> b \in waiting'[t]
    BY <1>0, <2>1
  <2> QED BY <1>0, <2>1, <2>2, <2>3, <2>4, <2>5, <2>6, <2>7, <2>8, <2>9, TubesCounted
<1>7. CASE DeadlineSoon(c)
  <2> DEFINE k == One("worker" \notin ctype[c])
             K == ctype[c] \cup {"worker"}
  <2>1. /\ cstate[c] = "wantcommand" /\ cstate' = [cstate EXCEPT ![c] = "sendword"]
        /\ ctype' = [ctype EXCEPT ![c] = K]
        /\ gstat' = [gstat EXCEPT !.workers = @ + One("worker" \notin ctype[c])]
        /\ UNCHANGED <<jstate, pri, jtube, waiting, use, watch, tstat>>
    BY <1>7, ReplyState DEF DeadlineSoon, SetWorkerG, Answer
  <2>2. Shape(gstat') BY <1>0, <2>1 DEF GStat, Shape
  <2>3. GJobs(gstat, gstat', 0, 0, 0, 0, 0) BY <1>0, <2>1 DEF GStat, GJobs
  <2>4. GConns(gstat, gstat', 0, 0, 0, k) BY <1>0, <2>1 DEF GStat, GConns
  <2>5. /\ k \in Int /\ 0 = One("sendword" \notin {"closed", "close"}) - 1
        /\ k = One("worker" \in K) - One("worker" \in ctype[c])
        /\ 0 = One("producer" \in K) - One("producer" \in ctype[c])
    BY DEF One
  <2> HIDE DEF k, K
  <2> QED BY <1>0, <2>1, <2>2, <2>3, <2>4, <2>5, KindCounted
<1>8. CASE Reader(c)
  <2>1. Event(c, "wantcommand") /\ Quiet /\ (SendWord(c) \/ SendCopy(c))
    BY <1>8, ReaderStep
  <2>2. PICK st \in {"sendword", "sendjob"} : cstate' = [cstate EXCEPT ![c] = st]
    BY <2>1, ReplyState DEF SendWord, SendCopy, Answer
  <2> QED BY <2>1, <2>2, AnswerCounted DEF Quiet
<1>9. ASSUME NEW n \in Nums, dispatchOpTouch(c, n) PROVE Counted'
  <2>1. cstate' = [cstate EXCEPT ![c] = "sendword"]
    BY <1>9 DEF dispatchOpTouch, Reply
  <2> QED BY <1>9, <2>1, AnswerCounted DEF dispatchOpTouch
<1>10. ASSUME NEW t \in Tubes, NEW n \in PauseDelays, dispatchOpPauseTube(c, t, n)
       PROVE  Counted'
  BY <1>10, ReplyState, AnswerCounted DEF dispatchOpPauseTube, Answer
<1>11. ASSUME NEW t \in Tubes, dispatchOpUse(c, t) PROVE Counted'
  <2>1. /\ cstate[c] = "wantcommand" /\ cstate' = [cstate EXCEPT ![c] = "sendword"]
        /\ use' = [use EXCEPT ![c] = t] /\ tstat' = CountUsing(c, t)
        /\ UNCHANGED <<jstate, pri, jtube, waiting, watch, ctype, gstat>>
    BY <1>11, ReplyState DEF dispatchOpUse, Answer
  <2>2. Shape(gstat') BY <1>0, <2>1 DEF GStat, Shape
  <2>3. GJobs(gstat, gstat', 0, 0, 0, 0, 0) /\ GConns(gstat, gstat', 0, 0, 0, 0)
    BY <2>1, StatsAlone DEF Counted
  <2>4. tstat' \in [Tubes -> TStat] BY <1>0, <2>1 DEF CountUsing, TStat
  <2>5. ASSUME NEW s \in Tubes
        PROVE  /\ TJobs(tstat[s], tstat'[s], 0, 0, 0, 0)
               /\ TConns(tstat[s], tstat'[s], One(c \in waiting'[s]) - One(c \in waiting[s]),
                         One(use'[c] = s) - One(use[c] = s), One(s \in watch'[c]) - One(s \in watch[c]))
    <3>1. TJobs(tstat[s], tstat'[s], 0, 0, 0, 0)
      BY <1>0, <2>1 DEF CountUsing, TJobs, TStat
    <3>2. TConns(tstat[s], tstat'[s], 0, One(s = t) - One(s = use[c]), 0)
      BY <1>0, <2>1 DEF CountUsing, TConns, TStat
    <3>3. /\ One(c \in waiting'[s]) - One(c \in waiting[s]) = 0
          /\ One(use'[c] = s) - One(use[c] = s) = One(s = t) - One(s = use[c])
          /\ One(s \in watch'[c]) - One(s \in watch[c]) = 0
      BY <1>0, <2>1 DEF One
    <3> QED BY <3>1, <3>2, <3>3
  <2>6. /\ 0 = One(cstate'[c] = "wait") - One(cstate[c] = "wait")
        /\ 0 = One("worker" \in ctype'[c]) - One("worker" \in ctype[c])
        /\ "producer" \in ctype'[c] <=> "producer" \in ctype[c]
        /\ cstate'[c] \in {"closed", "close"} <=> cstate[c] \in {"closed", "close"}
    BY <1>0, <2>1 DEF One
  <2>7. \A b \in Conns \ {c} : /\ cstate'[b] = cstate[b] /\ ctype'[b] = ctype[b]
                               /\ use'[b] = use[b] /\ watch'[b] = watch[b]
                               /\ \A s \in Tubes : b \in waiting[s] <=> b \in waiting'[s]
    BY <1>0, <2>1
  <2> QED BY <1>0, <2>1, <2>2, <2>3, <2>4, <2>5, <2>6, <2>7, TubesCounted
<1>12. ASSUME NEW t \in Tubes, dispatchOpWatch(c, t) PROVE Counted'
  <2>1. One(t \notin watch[c]) = One(t \in watch[c] \cup {t}) - One(t \in watch[c])
    BY DEF One
  <2>2. watch[c] \cup {t} \in SUBSET Tubes /\ watch' = [watch EXCEPT ![c] = watch[c] \cup {t}]
    BY <1>0, <1>12 DEF dispatchOpWatch
  <2>3. /\ cstate[c] = "wantcommand" /\ cstate' = [cstate EXCEPT ![c] = "sendword"]
        /\ tstat' = [tstat EXCEPT ![t].watching = @ + One(t \notin watch[c])]
        /\ UNCHANGED <<jstate, pri, jtube, waiting, use, ctype, gstat>>
    BY <1>12, ReplyState DEF dispatchOpWatch, Answer
  <2>4. One(t \notin watch[c]) \in Int /\ \A s \in Tubes \ {t} : s \in watch[c] \cup {t} <=> s \in watch[c]
    BY DEF One
  <2> QED BY <2>1, <2>2, <2>3, <2>4, WatchCounted
<1>13. ASSUME NEW t \in Tubes, dispatchOpIgnore(c, t) PROVE Counted'
  <2> DEFINE n == 0 - 1
             W == watch[c] \ {t}
  <2>1. n = One(t \in W) - One(t \in watch[c]) /\ n \in Int
    BY <1>13 DEF One, dispatchOpIgnore
  <2>2. W \in SUBSET Tubes /\ watch' = [watch EXCEPT ![c] = W]
    BY <1>0, <1>13 DEF dispatchOpIgnore
  <2>3. /\ cstate[c] = "wantcommand" /\ cstate' = [cstate EXCEPT ![c] = "sendword"]
        /\ UNCHANGED <<jstate, pri, jtube, waiting, use, ctype, gstat>>
    BY <1>13, ReplyState DEF dispatchOpIgnore, Answer
  <2>4. tstat[t].watching - 1 = tstat[t].watching + n
    BY <1>0 DEF TStat
  <2>5. \A s \in Tubes \ {t} : s \in W <=> s \in watch[c]
    OBVIOUS
  <2> HIDE DEF n, W
  <2>6. tstat' = [tstat EXCEPT ![t].watching = @ + n]
    BY <1>13, <2>4 DEF dispatchOpIgnore
  <2> QED BY <2>1, <2>2, <2>3, <2>5, <2>6, WatchCounted
<1> QED
  BY <1>1, <1>2, <1>3, <1>4, <1>5, <1>6, <1>7, <1>8, <1>9, <1>10, <1>11, <1>12, <1>13 DEF Talker

\* The counters of one tube when a connection closes.
LEMMA LeavingCounted ==
  ASSUME NEW S \in TStat, NEW T, NEW n \in Int, NEW u \in Int,
         T = [S EXCEPT !.watching = @ - n, !.using = @ - u]
  PROVE  T \in TStat /\ TJobs(S, T, 0, 0, 0, 0) /\ TConns(S, T, 0, 0 - u, 0 - n)
<1>1. T \in TStat
  <2>1. T = [urgent |-> S.urgent, reserved |-> S.reserved, buried |-> S.buried,
             waiting |-> S.waiting, jobs |-> S.jobs, using |-> S.using - u,
             watching |-> S.watching - n]
    BY DEF TStat
  <2>2. /\ S.urgent \in Int /\ S.reserved \in Int /\ S.buried \in Int /\ S.waiting \in Int
        /\ S.jobs \in Int /\ S.using - u \in Int /\ S.watching - n \in Int
    BY DEF TStat
  <2> QED BY <2>1, <2>2 DEF TStat
<1>2. TJobs(S, T, 0, 0, 0, 0)
  BY DEF TJobs, TStat
<1>3. TConns(S, T, 0, 0 - u, 0 - n)
  BY DEF TConns, TStat
<1> QED BY <1>1, <1>2, <1>3

LEMMA LoopCounted ==
  ASSUME Counted, Sound, waiting' \in [Tubes -> SUBSET Conns], LoopStep
  PROVE  Counted'
<1> USE DEF jobVars, tubeVars, connVars, statVars
<1>1. ASSUME UNCHANGED <<jstate, pri, jtube, waiting, gstat, tstat, cstate, ctype, use, watch>>
      PROVE  Counted'
  BY <1>1, NothingCounted DEF SameConn
<1>2. CASE CloseDone
  <2> DEFINE c == closing
  <2>0. /\ gstat \in GStat /\ tstat \in [Tubes -> TStat]
        /\ cstate \in [Conns -> ConnStates] /\ watch \in [Conns -> SUBSET Tubes]
        /\ use \in [Conns -> Tubes \cup {NoTube}]
        /\ \A b : One(b) \in Int
    BY DEF Counted, StatTypes, Sound, TypeOK, ConnTypes, One
  <2>1. /\ c \in Conns /\ cstate[c] = "close" /\ cstate' = [cstate EXCEPT ![c] = "closed"]
        /\ use' = [use EXCEPT ![c] = NoTube] /\ watch' = [watch EXCEPT ![c] = {}]
        /\ tstat' = CountLeaving(c)
        /\ UNCHANGED <<jstate, pri, jtube, waiting, ctype, gstat>>
    BY <1>2 DEF CloseDone, Sound, Housekeeping, TypeOK, LoopTypes
  <2> HIDE DEF c
  <2>2. Shape(gstat') BY <2>0, <2>1 DEF GStat, Shape
  <2>3. GJobs(gstat, gstat', 0, 0, 0, 0, 0) /\ GConns(gstat, gstat', 0, 0, 0, 0)
    BY <2>1, StatsAlone DEF Counted
  <2>4. /\ tstat' \in [Tubes -> TStat]
        /\ \A s \in Tubes :
             /\ TJobs(tstat[s], tstat'[s], 0, 0, 0, 0)
             /\ TConns(tstat[s], tstat'[s], 0, 0 - One(s = use[c]), 0 - One(s \in watch[c]))
    <3>1. ASSUME NEW s \in Tubes
          PROVE  /\ tstat'[s] \in TStat /\ TJobs(tstat[s], tstat'[s], 0, 0, 0, 0)
                 /\ TConns(tstat[s], tstat'[s], 0, 0 - One(s = use[c]), 0 - One(s \in watch[c]))
      <4>1. tstat'[s] = [tstat[s] EXCEPT !.watching = @ - One(s \in watch[c]),
                                         !.using = @ - One(s = use[c])]
        BY <2>1 DEF CountLeaving
      <4> QED BY ZenonT(40), <2>0, <4>1, LeavingCounted
    <3>2. tstat' = [s \in Tubes |-> tstat'[s]]
      BY <2>1 DEF CountLeaving
    <3> QED BY <3>1, <3>2
  <2>5. ASSUME NEW s \in Tubes
        PROVE  /\ TJobs(tstat[s], tstat'[s], 0, 0, 0, 0)
               /\ TConns(tstat[s], tstat'[s], One(c \in waiting'[s]) - One(c \in waiting[s]),
                         One(use'[c] = s) - One(use[c] = s), One(s \in watch'[c]) - One(s \in watch[c]))
    <3>1. /\ One(c \in waiting'[s]) - One(c \in waiting[s]) = 0
          /\ One(use'[c] = s) - One(use[c] = s) = 0 - One(s = use[c])
          /\ One(s \in watch'[c]) - One(s \in watch[c]) = 0 - One(s \in watch[c])
      BY <2>0, <2>1, TubesAssumption DEF One
    <3> QED BY <2>4, <3>1
  <2>6. /\ 0 = One(cstate'[c] = "wait") - One(cstate[c] = "wait")
        /\ 0 = One("worker" \in ctype'[c]) - One("worker" \in ctype[c])
        /\ "producer" \in ctype'[c] <=> "producer" \in ctype[c]
        /\ cstate'[c] \in {"closed", "close"} <=> cstate[c] \in {"closed", "close"}
        /\ 0 \in Int
    BY <2>0, <2>1 DEF One
  <2>7. \A b \in Conns \ {c} : /\ cstate'[b] = cstate[b] /\ ctype'[b] = ctype[b]
                               /\ use'[b] = use[b] /\ watch'[b] = watch[b]
                               /\ \A s \in Tubes : b \in waiting[s] <=> b \in waiting'[s]
    BY <2>0, <2>1
  <2> QED BY <2>1, <2>2, <2>3, <2>4, <2>5, <2>6, <2>7, TubesCounted
<1>3. CASE ProcessQueueReturns \/ TickPaused \/ TickDone
  BY <1>1, <1>3 DEF ProcessQueueReturns, TickPaused, TickDone
<1>4. CASE Timeout \/ Clock \/ enterDrainMode
  BY <1>1, <1>4 DEF Timeout, Clock, enterDrainMode
<1>5. CASE \E c \in Conns, j \in Ids : ReserveJobDies(c, j)
  BY <1>1, <1>5 DEF ReserveJobDies
<1> QED BY <1>2, <1>3, <1>4, <1>5 DEF LoopStep

-----------------------------------------------------------------------------
(***************************************************************************)
(* The handlers that move a job.                                           *)
(***************************************************************************)

\* A handler that moves a job and answers.
LEMMA AnswerConns ==
  ASSUME Counted, Sound, NEW c \in Conns, NEW st,
         cstate[c] \notin {"wait", "closed", "close"}, st \notin {"wait", "closed", "close"},
         cstate' = [cstate EXCEPT ![c] = st], UNCHANGED <<waiting, ctype, use, watch>>,
         GConns(gstat, gstat', 0, 0, 0, 0), \A t \in Tubes : TConns(tstat[t], tstat'[t], 0, 0, 0)
  PROVE  ConnsCounted'
<1>1. \A b \in Conns : SameConn(b)
  BY DEF SameConn, Sound, TypeOK, ConnTypes
<1> QED BY <1>1, ConnsStill DEF Counted

\* A handler that moves a job and makes its connection a producer or a worker.
LEMMA KindConns ==
  ASSUME Counted, Sound, NEW c \in Conns, NEW st, NEW K, NEW p \in Int, NEW k \in Int,
         cstate[c] \notin {"wait", "closed", "close"}, st \notin {"wait", "closed", "close"},
         cstate' = [cstate EXCEPT ![c] = st], ctype' = [ctype EXCEPT ![c] = K],
         UNCHANGED <<waiting, use, watch>>,
         p = One("producer" \in K) - One("producer" \in ctype[c]),
         k = One("worker" \in K) - One("worker" \in ctype[c]),
         GConns(gstat, gstat', 0, 0, p, k), \A t \in Tubes : TConns(tstat[t], tstat'[t], 0, 0, 0)
  PROVE  ConnsCounted'
<1>1. /\ cstate \in [Conns -> ConnStates] /\ waiting' \in [Tubes -> SUBSET Conns]
      /\ ctype \in [Conns -> SUBSET {"producer", "worker", "waiting"}]
  BY DEF Sound, TypeOK, ConnTypes, TubeTypes
<1>2. /\ cstate'[c] = st /\ ctype'[c] = K
      /\ \A b \in Conns \ {c} : cstate'[b] = cstate[b] /\ ctype'[b] = ctype[b]
  BY <1>1
<1>3. /\ 0 = One(cstate'[c] = "wait") - One(cstate[c] = "wait")
      /\ 0 = One(cstate'[c] \notin {"closed", "close"}) - One(cstate[c] \notin {"closed", "close"})
      /\ p = One("producer" \in ctype'[c]) - One("producer" \in ctype[c])
      /\ k = One("worker" \in ctype'[c]) - One("worker" \in ctype[c])
  BY <1>2 DEF One
<1>4. ASSUME NEW t \in Tubes
      PROVE  TConns(tstat[t], tstat'[t], One(c \in waiting'[t]) - One(c \in waiting[t]),
                    One(use'[c] = t) - One(use[c] = t), One(t \in watch'[c]) - One(t \in watch[c]))
  <2>1. /\ One(c \in waiting'[t]) - One(c \in waiting[t]) = 0
        /\ One(use'[c] = t) - One(use[c] = t) = 0
        /\ One(t \in watch'[c]) - One(t \in watch[c]) = 0
    BY DEF One
  <2> QED BY <2>1
<1> QED BY <1>1, <1>2, <1>3, <1>4, ConnsCount DEF Counted

\* A job that a connection held is given back: the counters of reserved jobs go down.
LEMMA GivenBack ==
  ASSUME Counted, NEW t \in Tubes
  PROVE  /\ [gstat EXCEPT !.reserved = @ - 1] \in GStat
         /\ [tstat EXCEPT ![t].reserved = @ - 1] \in [Tubes -> TStat]
         /\ GJobs(gstat, [gstat EXCEPT !.reserved = @ - 1], 0, 0, 0 - 1, 0, 0)
         /\ GConns(gstat, [gstat EXCEPT !.reserved = @ - 1], 0, 0, 0, 0)
         /\ TJobs(tstat[t], [tstat EXCEPT ![t].reserved = @ - 1][t], 0, 0 - 1, 0, 0)
         /\ \A s \in Tubes : TConns(tstat[s], [tstat EXCEPT ![t].reserved = @ - 1][s], 0, 0, 0)
         /\ \A s \in Tubes \ {t} : [tstat EXCEPT ![t].reserved = @ - 1][s] = tstat[s]
<1> DEFINE G == [gstat EXCEPT !.reserved = @ - 1]
           T == [tstat EXCEPT ![t].reserved = @ - 1]
<1>0. gstat \in GStat /\ tstat \in [Tubes -> TStat]
  BY DEF Counted, StatTypes
<1>1. Shape(G) BY <1>0 DEF GStat, Shape
<1>2. GJobs(gstat, G, 0, 0, 0 - 1, 0, 0) BY <1>0 DEF GStat, GJobs
<1>3. GConns(gstat, G, 0, 0, 0, 0) BY <1>0 DEF GStat, GConns
<1>4. G \in GStat
  <2> HIDE DEF G
  <2>1. 0 \in Int /\ 0 - 1 \in Int
    OBVIOUS
  <2> QED BY <1>0, <1>1, <1>2, <1>3, <2>1, ShapeType
<1>5. T \in [Tubes -> TStat] BY <1>0 DEF TStat
<1>6. TJobs(tstat[t], T[t], 0, 0 - 1, 0, 0) BY <1>0 DEF TStat, TJobs
<1>7. \A s \in Tubes : TConns(tstat[s], T[s], 0, 0, 0) BY <1>0 DEF TStat, TConns
<1>8. \A s \in Tubes \ {t} : T[s] = tstat[s] BY <1>0
<1> QED BY <1>2, <1>3, <1>4, <1>5, <1>6, <1>7, <1>8

LEMMA ReturnCounted ==
  ASSUME Counted, Sound, NEW j \in Ids, NEW p \in Nat, NEW d \in Nat, jstate[j] = "reserved",
         EnqueueJob(j, jtube[j], p, d, [gstat EXCEPT !.reserved = @ - 1],
                    [tstat EXCEPT ![jtube[j]].reserved = @ - 1]),
         pri' = [pri EXCEPT ![j] = p], UNCHANGED jtube
  PROVE  /\ JobsCounted' /\ StatTypes' /\ GConns(gstat, gstat', 0, 0, 0, 0)
         /\ \A s \in Tubes : TConns(tstat[s], tstat'[s], 0, 0, 0)
<1> DEFINE G == [gstat EXCEPT !.reserved = @ - 1]
           T == [tstat EXCEPT ![jtube[j]].reserved = @ - 1]
           t == jtube[j]
<1>1. t \in Tubes
  BY DEF Sound, Housekeeping, TypeOK, TubeTypes
<1>2. /\ pri'[j] = p /\ jtube'[j] = t
      /\ \A i \in Ids \ {j} : pri'[i] = pri[i] /\ jtube'[i] = jtube[i]
  BY DEF Sound, TypeOK, JobTypes
<1>3. 0 - One(Res(j)) = 0 - 1 /\ One(~Liv(j)) = 0
  BY DEF One, Res, Liv
<1>4. /\ G \in GStat /\ T \in [Tubes -> TStat]
      /\ GJobs(gstat, G, 0, 0, 0 - One(Res(j)), 0, One(~Liv(j))) /\ GConns(gstat, G, 0, 0, 0, 0)
      /\ TJobs(tstat[t], T[t], 0, 0 - One(Res(j)), 0, One(~Liv(j)))
      /\ \A s \in Tubes : TConns(tstat[s], T[s], 0, 0, 0)
      /\ \A s \in Tubes \ {t} : T[s] = tstat[s]
  BY <1>1, <1>3, GivenBack
<1>5. EnqueueJob(j, t, p, d, G, T) /\ (Liv(j) => jtube[j] = t) /\ 0 \in Int
  OBVIOUS
<1> HIDE DEF G, T, t
<1> QED BY <1>1, <1>2, <1>4, <1>5, EnqueueCounted DEF Counted

\* connClose gives back a job.
LEMMA enqueueReservedJobsCounted ==
  ASSUME Counted, Sound, enqueueReservedJobs
  PROVE  Counted'
<1>1. PICK j \in resv[closing] :
        EnqueueJob(j, jtube[j], pri[j], 0, [gstat EXCEPT !.reserved = @ - 1],
                   [tstat EXCEPT ![jtube[j]].reserved = @ - 1])
  BY DEF enqueueReservedJobs
<1>2. closing \in Conns
  BY DEF enqueueReservedJobs, Sound, Housekeeping, TypeOK, LoopTypes
<1>3. j \in Ids /\ jstate[j] = "reserved" /\ pri[j] \in Nat /\ 0 \in Nat
  BY <1>2 DEF Sound, TypeOK, ConnTypes, JobTypes, HeldOnce
<1>4. pri' = [pri EXCEPT ![j] = pri[j]] /\ UNCHANGED <<jtube, waiting>>
      /\ \A c \in Conns : SameConn(c)
  BY DEF enqueueReservedJobs, Sound, TypeOK, JobTypes, SameConn
<1>5. /\ JobsCounted' /\ StatTypes' /\ GConns(gstat, gstat', 0, 0, 0, 0)
      /\ \A s \in Tubes : TConns(tstat[s], tstat'[s], 0, 0, 0)
  BY <1>1, <1>3, <1>4, ReturnCounted
<1> QED BY <1>4, <1>5, ConnsStill DEF Counted

\* protTick: a delayed job is due.
LEMMA TickDelayedCounted ==
  ASSUME Counted, Sound, TickDelayed
  PROVE  Counted'
<1>1. PICK j \in Ids : Due(j) /\ EnqueueJob(j, jtube[j], pri[j], 0, gstat, tstat)
  BY DEF TickDelayed
<1>2. jstate[j] = "delayed" /\ jtube[j] \in Tubes /\ pri[j] \in Nat
  BY <1>1 DEF Due, SoonestDelayedJob, DelayRoot, Sound, TypeOK, JobTypes, TubeTypes, Placed
<1>3. UNCHANGED <<pri, jtube, waiting>> /\ \A c \in Conns : SameConn(c)
  BY DEF TickDelayed, connVars, SameConn
<1>4. /\ 0 - One(Res(j)) = 0 /\ One(~Liv(j)) = 0 /\ 0 \in Int /\ 0 \in Nat
      /\ gstat \in GStat /\ tstat \in [Tubes -> TStat]
  BY <1>2 DEF One, Res, Liv, Counted, StatTypes
<1>5. /\ GJobs(gstat, gstat, 0, 0, 0 - One(Res(j)), 0, One(~Liv(j))) /\ GConns(gstat, gstat, 0, 0, 0, 0)
      /\ TJobs(tstat[jtube[j]], tstat[jtube[j]], 0, 0 - One(Res(j)), 0, One(~Liv(j)))
      /\ \A s \in Tubes : TConns(tstat[s], tstat[s], 0, 0, 0)
  BY <1>2, <1>4, StatsAlone DEF Counted
<1>6. /\ JobsCounted' /\ StatTypes' /\ GConns(gstat, gstat', 0, 0, 0, 0)
      /\ \A s \in Tubes : TConns(tstat[s], tstat'[s], 0, 0, 0)
  BY <1>1, <1>2, <1>3, <1>4, <1>5, EnqueueCounted DEF Counted
<1> QED BY <1>3, <1>6, ConnsStill DEF Counted

\* release.
LEMMA dispatchOpReleaseCounted ==
  ASSUME Counted, Sound, NEW c \in Conns, NEW j \in Ids, NEW p \in Pris, NEW d \in RelDelays,
         dispatchOpRelease(c, j, p, d)
  PROVE  Counted'
<1>1. /\ jstate[j] = "reserved" /\ pri' = [pri EXCEPT ![j] = p]
      /\ EnqueueJob(j, jtube[j], p, d, [gstat EXCEPT !.reserved = @ - 1],
                    [tstat EXCEPT ![jtube[j]].reserved = @ - 1])
      /\ UNCHANGED <<jtube, waiting, ctype, use, watch>>
      /\ cstate[c] = "wantcommand" /\ cstate' = [cstate EXCEPT ![c] = "sendword"]
  BY ReplyState DEF dispatchOpRelease, isJobReservedByConn, Event
<1>2. p \in Nat /\ d \in Nat
  BY NumbersAssumption
<1>3. /\ JobsCounted' /\ StatTypes' /\ GConns(gstat, gstat', 0, 0, 0, 0)
      /\ \A s \in Tubes : TConns(tstat[s], tstat'[s], 0, 0, 0)
  BY <1>1, <1>2, ReturnCounted
<1> QED BY <1>1, <1>3, AnswerConns DEF Counted

\* A job whose body is complete is one more job.
LEMMA IncomingCounted ==
  ASSUME Counted, Sound, NEW j \in Ids, NEW t \in Tubes, NEW p \in Nat, NEW d \in Nat,
         jstate[j] \in {"none", "invalid"}, NEW k \in Int, NEW G,
         Shape(G), GJobs(gstat, G, 0, 0, 0, 0, 1), GConns(gstat, G, 0, 0, k, 0),
         EnqueueJob(j, t, p, d, G, [tstat EXCEPT ![t].jobs = @ + 1]),
         pri'[j] = p, jtube'[j] = t,
         \A i \in Ids \ {j} : pri'[i] = pri[i] /\ jtube'[i] = jtube[i]
  PROVE  /\ JobsCounted' /\ StatTypes' /\ GConns(gstat, gstat', 0, 0, k, 0)
         /\ \A s \in Tubes : TConns(tstat[s], tstat'[s], 0, 0, 0)
<1> DEFINE T == [tstat EXCEPT ![t].jobs = @ + 1]
           v == 0 - One(Res(j))
           n == One(~Liv(j))
<1>0. gstat \in GStat /\ tstat \in [Tubes -> TStat]
  BY DEF Counted, StatTypes
<1>1. G \in GStat
  <2>1. 0 \in Int /\ 1 \in Int
    OBVIOUS
  <2> QED BY <1>0, <2>1, ShapeType
<1>2. T \in [Tubes -> TStat] BY <1>0 DEF TStat
<1>3. TJobs(tstat[t], T[t], 0, 0, 0, 1) BY <1>0 DEF TStat, TJobs
<1>4. \A s \in Tubes : TConns(tstat[s], T[s], 0, 0, 0) BY <1>0 DEF TStat, TConns
<1>5. \A s \in Tubes \ {t} : T[s] = tstat[s] BY <1>0
<1>6. v = 0 /\ n = 1 /\ ~Liv(j) /\ jstate[j] \notin {"ready", "buried"}
  <2>1. ~Res(j) /\ ~Liv(j) /\ jstate[j] \notin {"ready", "buried"}
    BY DEF Res, Liv
  <2>2. One(Res(j)) = 0 /\ One(~Liv(j)) = 1
    BY <2>1 DEF One
  <2> QED BY <2>1, <2>2
<1>7. EnqueueJob(j, t, p, d, G, T)
  OBVIOUS
<1> HIDE DEF T, v, n
<1>8. GJobs(gstat, G, 0, 0, v, 0, n) /\ TJobs(tstat[t], T[t], 0, v, 0, n)
  BY <1>3, <1>6
<1>9. Liv(j) => jtube[j] = t
  BY <1>6
<1> QED BY <1>1, <1>2, <1>4, <1>5, <1>6, <1>7, <1>8, <1>9, EnqueueCounted
       DEF Counted, v, n

\* put, with its body.
LEMMA dispatchOpPutCounted ==
  ASSUME Counted, Sound, NEW c \in Conns, NEW p \in Pris, NEW d \in Delays, NEW n \in Ttrs,
         dispatchOpPut(c, p, d, n)
  PROVE  Counted'
<1> DEFINE k == One("producer" \notin ctype[c])
           G == [gstat EXCEPT !.producers = @ + k, !.jobs = @ + 1]
           K == ctype[c] \cup {"producer"}
<1>0. gstat \in GStat
  BY DEF Counted, StatTypes
<1>1. /\ nextId \in Ids /\ pri' = [pri EXCEPT ![nextId] = p]
      /\ jtube' = [jtube EXCEPT ![nextId] = use[c]]
      /\ cstate[c] = "wantcommand" /\ cstate' = [cstate EXCEPT ![c] = "sendword"]
      /\ ctype' = [ctype EXCEPT ![c] = K]
      /\ UNCHANGED <<waiting, use, watch>>
  BY ReplyState DEF dispatchOpPut, MakeJobWithID, Event, SetProducer, EnqueueInComingJob, Answer
<1>2. EnqueueJob(nextId, use[c], p, d * Second, G, [tstat EXCEPT ![use[c]].jobs = @ + 1])
  <2>1. EnqueueJob(nextId, use[c], p, d * Second, [SetProducerG(c, gstat) EXCEPT !.jobs = @ + 1],
                   [tstat EXCEPT ![use[c]].jobs = @ + 1])
    BY DEF dispatchOpPut, EnqueueInComingJob
  <2>2. [SetProducerG(c, gstat) EXCEPT !.jobs = @ + 1] = G
    BY <1>0 DEF SetProducerG, GStat
  <2> HIDE DEF G
  <2> QED BY <2>1, <2>2
<1>3. jstate[nextId] = "none" /\ use[c] \in Tubes
  BY <1>1 DEF Sound, Housekeeping, TypeOK, TubeTypes, Ids
<1>4. p \in Nat /\ d * Second \in Nat
  BY NumbersAssumption
<1>5. /\ pri'[nextId] = p /\ jtube'[nextId] = use[c]
      /\ \A i \in Ids \ {nextId} : pri'[i] = pri[i] /\ jtube'[i] = jtube[i]
  BY <1>1 DEF Sound, TypeOK, JobTypes
<1>6. /\ k \in Int /\ 0 \in Int /\ k = One("producer" \in K) - One("producer" \in ctype[c])
      /\ 0 = One("worker" \in K) - One("worker" \in ctype[c])
  BY DEF One
<1> HIDE DEF k, K
<1>7. Shape(G) /\ GJobs(gstat, G, 0, 0, 0, 0, 1) /\ GConns(gstat, G, 0, 0, k, 0)
  <2>1. G = [gstat EXCEPT !.producers = @ + k, !.jobs = @ + 1]
    OBVIOUS
  <2> HIDE DEF G
  <2>2. Shape(G) BY <1>0, <1>6, <2>1 DEF GStat, Shape
  <2>3. GJobs(gstat, G, 0, 0, 0, 0, 1) BY <1>0, <1>6, <2>1 DEF GStat, GJobs
  <2>4. GConns(gstat, G, 0, 0, k, 0) BY <1>0, <1>6, <2>1 DEF GStat, GConns
  <2> QED BY <2>2, <2>3, <2>4
<1> HIDE DEF G
<1>8. /\ JobsCounted' /\ StatTypes' /\ GConns(gstat, gstat', 0, 0, k, 0)
      /\ \A s \in Tubes : TConns(tstat[s], tstat'[s], 0, 0, 0)
  <2> HIDE DEF Counted
  <2> QED BY <1>1, <1>2, <1>3, <1>4, <1>5, <1>6, <1>7, IncomingCounted
<1> QED BY <1>1, <1>6, <1>8, KindConns DEF Counted

\* The rest of the body.
LEMMA BodyCompleteCounted ==
  ASSUME Counted, Sound, NEW c \in Conns, BodyComplete(c)
  PROVE  Counted'
<1> DEFINE j == injob[c]
           G == [gstat EXCEPT !.jobs = @ + 1]
<1>0. gstat \in GStat
  BY DEF Counted, StatTypes
<1>1. /\ cstate[c] = "wantdata" /\ cstate' = [cstate EXCEPT ![c] = "sendword"]
      /\ UNCHANGED <<pri, jtube, waiting, ctype, use, watch>>
  BY ReplyState DEF BodyComplete, Event, EnqueueInComingJob, Answer
<1>2. EnqueueJob(j, jtube[j], pri[j], due[j], G, [tstat EXCEPT ![jtube[j]].jobs = @ + 1])
  BY DEF BodyComplete, EnqueueInComingJob
<1>3. /\ j \in Ids /\ jstate[j] = "invalid" /\ jtube[j] \in Tubes
      /\ pri[j] \in Nat /\ due[j] \in Nat
  BY <1>1 DEF Sound, Housekeeping, TypeOK, JobTypes, TubeTypes
<1>4. Shape(G) /\ GJobs(gstat, G, 0, 0, 0, 0, 1) /\ GConns(gstat, G, 0, 0, 0, 0)
  <2>1. Shape(G) BY <1>0 DEF GStat, Shape
  <2>2. GJobs(gstat, G, 0, 0, 0, 0, 1) BY <1>0 DEF GStat, GJobs
  <2>3. GConns(gstat, G, 0, 0, 0, 0) BY <1>0 DEF GStat, GConns
  <2> QED BY <2>1, <2>2, <2>3
<1> HIDE DEF j, G
<1>5. /\ JobsCounted' /\ StatTypes' /\ GConns(gstat, gstat', 0, 0, 0, 0)
      /\ \A s \in Tubes : TConns(tstat[s], tstat'[s], 0, 0, 0)
  BY SMTT(20), <1>1, <1>2, <1>3, <1>4, IncomingCounted
<1> QED BY <1>1, <1>5, AnswerConns DEF Counted

\* A job that is not counted before or after.
LEMMA UncountedJob ==
  ASSUME Counted, NEW j \in Ids, ~Liv(j), ~Liv(j)',
         \A k \in Ids \ {j} : jstate'[k] = jstate[k] /\ pri'[k] = pri[k] /\ jtube'[k] = jtube[k],
         GJobs(gstat, gstat', 0, 0, 0, 0, 0), UNCHANGED tstat
  PROVE  JobsCounted'
<1>1. Default \in Tubes /\ 0 \in Int
  BY TubesAssumption
<1>2. /\ 0 = One(Rdy(j)') - One(Rdy(j)) /\ 0 = One(Urg(j)') - One(Urg(j))
      /\ 0 = One(Res(j)') - One(Res(j)) /\ 0 = One(Bur(j)') - One(Bur(j))
      /\ 0 = One(Liv(j)') - One(Liv(j))
  BY DEF One, Rdy, Urg, Res, Bur, Liv
<1>3. \A t \in Tubes : TJobs(tstat[t], tstat'[t], 0, 0, 0, 0)
  BY StatsAlone DEF Counted
<1> QED BY <1>1, <1>2, <1>3, JobsCount DEF Counted

\* put whose body is to come.
LEMMA PutHeaderCounted ==
  ASSUME Counted, Sound, NEW c \in Conns, NEW p \in Pris, NEW d \in Delays, NEW n \in Ttrs,
         PutHeader(c, p, d, n)
  PROVE  Counted'
<1> DEFINE k == One("producer" \notin ctype[c])
           K == ctype[c] \cup {"producer"}
<1>0. gstat \in GStat
  BY DEF Counted, StatTypes
<1>1. /\ nextId \in Ids /\ pri' = [pri EXCEPT ![nextId] = p]
      /\ jtube' = [jtube EXCEPT ![nextId] = use[c]]
      /\ jstate' = [jstate EXCEPT ![nextId] = "invalid"]
      /\ cstate[c] = "wantcommand" /\ cstate' = [cstate EXCEPT ![c] = "wantdata"]
      /\ ctype' = [ctype EXCEPT ![c] = K] /\ gstat' = [gstat EXCEPT !.producers = @ + k]
      /\ UNCHANGED <<waiting, use, watch, tstat>>
  BY DEF PutHeader, MakeJobWithID, Event, SetProducer, SetProducerG, tubeVars
<1>2. jstate[nextId] = "none"
  BY <1>1 DEF Sound, Housekeeping, Ids
<1>3. /\ ~Liv(nextId) /\ jstate'[nextId] = "invalid"
      /\ \A i \in Ids \ {nextId} : jstate'[i] = jstate[i] /\ pri'[i] = pri[i] /\ jtube'[i] = jtube[i]
  BY <1>1, <1>2 DEF Sound, TypeOK, JobTypes, Liv
<1>4. /\ k \in Int /\ 0 \in Int /\ k = One("producer" \in K) - One("producer" \in ctype[c])
      /\ 0 = One("worker" \in K) - One("worker" \in ctype[c])
  BY DEF One
<1> HIDE DEF k, K
<1>5. Shape(gstat') BY <1>0, <1>1, <1>4 DEF GStat, Shape
<1>6. GJobs(gstat, gstat', 0, 0, 0, 0, 0) BY <1>0, <1>1, <1>4 DEF GStat, GJobs
<1>7. GConns(gstat, gstat', 0, 0, k, 0) BY <1>0, <1>1, <1>4 DEF GStat, GConns
<1>8. gstat' \in GStat BY <1>0, <1>4, <1>5, <1>6, <1>7, ShapeType
<1>9. \A t \in Tubes : TConns(tstat[t], tstat'[t], 0, 0, 0)
  BY <1>1, StatsAlone DEF Counted
<1>10. JobsCounted'
  <2> DEFINE j == nextId
  <2>1. /\ j \in Ids /\ ~Liv(j)
        /\ jstate'[j] \notin {"ready", "reserved", "delayed", "buried"}
        /\ \A i \in Ids \ {j} : jstate'[i] = jstate[i] /\ pri'[i] = pri[i] /\ jtube'[i] = jtube[i]
    BY <1>1, <1>3
  <2>2. PICK i \in Ids : /\ i = j /\ ~Liv(i) /\ jstate'[i] \notin {"ready", "reserved", "delayed", "buried"}
                         /\ \A m \in Ids \ {i} : /\ jstate'[m] = jstate[m] /\ pri'[m] = pri[m]
                                                 /\ jtube'[m] = jtube[m]
    BY <2>1
  <2>3. ~Liv(i)'
    BY <2>2 DEF Liv
  <2> QED BY <1>1, <1>6, <2>2, <2>3, UncountedJob
<1>11. ConnsCounted'
  BY <1>1, <1>4, <1>7, <1>9, KindConns
<1> QED BY <1>1, <1>8, <1>10, <1>11 DEF Counted, StatTypes

\* A body that is refused: its job is freed.
LEMMA BodyRefusedCounted ==
  ASSUME Counted, Sound, NEW c \in Conns, BodyRefused(c)
  PROVE  Counted'
<1>1. PICK j \in Ids : j = injob[c] /\ jstate[j] = "invalid"
  BY DEF BodyRefused, Event, Sound, Housekeeping
<1>2. /\ jstate' = [jstate EXCEPT ![j] = "none"] /\ pri' = [pri EXCEPT ![j] = 0]
      /\ jtube' = [jtube EXCEPT ![j] = NoTube]
      /\ cstate[c] = "wantdata" /\ cstate' = [cstate EXCEPT ![c] = "sendword"]
      /\ UNCHANGED <<waiting, ctype, use, watch, gstat, tstat>>
  BY <1>1, ReplyState DEF BodyRefused, JobFree, Event, Answer, tubeVars, statVars
<1>3. /\ ~Liv(j) /\ jstate'[j] = "none"
      /\ \A k \in Ids \ {j} : jstate'[k] = jstate[k] /\ pri'[k] = pri[k] /\ jtube'[k] = jtube[k]
  BY <1>1, <1>2 DEF Sound, TypeOK, JobTypes, Liv
<1>4. ~Liv(j)'
  BY <1>3 DEF Liv
<1>5. JobsCounted'
  BY <1>2, <1>3, <1>4, StatsAlone, UncountedJob DEF Counted
<1>6. ConnsCounted'
  BY <1>2, StatsAlone, AnswerConns DEF Counted
<1> QED BY <1>2, <1>5, <1>6 DEF Counted, StatTypes

\* bury.
LEMMA dispatchOpBuryCounted ==
  ASSUME Counted, Sound, NEW c \in Conns, NEW n \in Nums, NEW p \in Pris, dispatchOpBury(c, n, p)
  PROVE  Counted'
<1>0. gstat \in GStat /\ tstat \in [Tubes -> TStat] /\ 0 \in Int /\ 1 \in Int /\ 0 - 1 \in Int
  BY DEF Counted, StatTypes
<1>1. PICK j \in Ids : /\ jstate[j] = "reserved" /\ pri' = [pri EXCEPT ![j] = p]
                       /\ jstate' = [jstate EXCEPT ![j] = "buried"]
                       /\ gstat' = [gstat EXCEPT !.reserved = @ - 1, !.buried = @ + 1]
                       /\ tstat' = [tstat EXCEPT ![jtube[j]].reserved = @ - 1,
                                                 ![jtube[j]].buried = @ + 1]
  BY DEF dispatchOpBury, isJobReservedByConn
<1>2. /\ UNCHANGED <<jtube, waiting, ctype, use, watch>>
      /\ cstate[c] = "wantcommand" /\ cstate' = [cstate EXCEPT ![c] = "sendword"]
  BY ReplyState DEF dispatchOpBury, Event
<1>3. PICK t \in Tubes : t = jtube[j]
  BY <1>1 DEF Sound, Housekeeping, TypeOK, TubeTypes
<1>4. /\ jstate'[j] = "buried"
      /\ \A i \in Ids \ {j} : jstate'[i] = jstate[i] /\ pri'[i] = pri[i] /\ jtube'[i] = jtube[i]
  BY <1>1, <1>2 DEF Sound, TypeOK, JobTypes
<1>5. /\ 0 = One(Rdy(j)') - One(Rdy(j)) /\ 0 = One(Urg(j)') - One(Urg(j))
      /\ 0 - 1 = One(Res(j)') - One(Res(j)) /\ 1 = One(Bur(j)') - One(Bur(j))
      /\ 0 = One(Liv(j)') - One(Liv(j))
  BY <1>1, <1>4 DEF One, Rdy, Urg, Res, Bur, Liv
<1>6. Shape(gstat') BY <1>0, <1>1 DEF GStat, Shape
<1>7. GJobs(gstat, gstat', 0, 0, 0 - 1, 1, 0) BY <1>0, <1>1 DEF GStat, GJobs
<1>8. GConns(gstat, gstat', 0, 0, 0, 0) BY <1>0, <1>1 DEF GStat, GConns
<1>9. gstat' \in GStat BY <1>0, <1>6, <1>7, <1>8, ShapeType
<1>10. tstat' \in [Tubes -> TStat] BY <1>0, <1>1, <1>3 DEF TStat
<1>11. TJobs(tstat[t], tstat'[t], 0, 0 - 1, 1, 0) BY <1>0, <1>1, <1>3 DEF TStat, TJobs
<1>12. \A s \in Tubes : TConns(tstat[s], tstat'[s], 0, 0, 0)
  BY <1>0, <1>1, <1>3 DEF TStat, TConns
<1>13. \A s \in Tubes \ {t} : TJobs(tstat[s], tstat'[s], 0, 0, 0, 0)
  BY <1>0, <1>1, <1>3 DEF TStat, TJobs
<1>14. (Liv(j) => jtube[j] = t) /\ (Liv(j)' => jtube'[j] = t)
  BY <1>2, <1>3
<1>15. JobsCounted'
  BY <1>0, <1>4, <1>5, <1>7, <1>11, <1>13, <1>14, JobsCount DEF Counted
<1>16. ConnsCounted'
  BY <1>2, <1>8, <1>12, AnswerConns
<1> QED BY <1>9, <1>10, <1>15, <1>16 DEF Counted, StatTypes

\* delete.
LEMMA dispatchOpDeleteCounted ==
  ASSUME Counted, Sound, NEW c \in Conns, NEW j \in Ids, dispatchOpDelete(c, j)
  PROVE  Counted'
<1> DEFINE r == One(jstate[j] = "ready")
           u == IF jstate[j] = "ready" THEN Urgent(pri[j]) ELSE 0
           b == One(jstate[j] = "buried")
           v == One(isJobReservedByConn(c, j))
<1>0. /\ gstat \in GStat /\ tstat \in [Tubes -> TStat] /\ 0 \in Int /\ 0 - 1 \in Int
      /\ r \in Int /\ u \in Int /\ b \in Int /\ v \in Int
      /\ 0 - r \in Int /\ 0 - u \in Int /\ 0 - b \in Int /\ 0 - v \in Int
  BY DEF Counted, StatTypes, One, Urgent
<1>1. /\ isJobReservedByConn(c, j) \/ Removable(j)
      /\ jstate' = [jstate EXCEPT ![j] = "none"] /\ pri' = [pri EXCEPT ![j] = 0]
      /\ jtube' = [jtube EXCEPT ![j] = NoTube]
      /\ cstate[c] = "wantcommand" /\ cstate' = [cstate EXCEPT ![c] = "sendword"]
      /\ UNCHANGED <<waiting, ctype, use, watch>>
  BY ReplyState DEF dispatchOpDelete, JobFree, Event
<1>2. /\ gstat' = [[gstat EXCEPT !.ready = @ - r, !.urgent = @ - u, !.buried = @ - b]
                     EXCEPT !.reserved = @ - v, !.jobs = @ - 1]
      /\ tstat' = [[tstat EXCEPT ![jtube[j]].urgent = @ - u, ![jtube[j]].buried = @ - b]
                     EXCEPT ![jtube[j]].reserved = @ - v, ![jtube[j]].jobs = @ - 1]
  BY DEF dispatchOpDelete, TakeOutG, TakeOutT
<1>3. Liv(j)
  BY <1>1 DEF isJobReservedByConn, Removable, Sound, Placed, Liv, TypeOK, JobTypes, TubeTypes,
              Housekeeping
<1>4. PICK t \in Tubes : t = jtube[j]
  BY <1>3 DEF Liv, Sound, Housekeeping, TypeOK, TubeTypes
<1>5. v = One(Res(j))
  <2>1. isJobReservedByConn(c, j) <=> Res(j)
    BY <1>1 DEF isJobReservedByConn, Removable, Res
  <2> QED BY <2>1 DEF One
<1>6. /\ jstate'[j] = "none"
      /\ \A i \in Ids \ {j} : jstate'[i] = jstate[i] /\ pri'[i] = pri[i] /\ jtube'[i] = jtube[i]
  BY <1>1 DEF Sound, TypeOK, JobTypes
<1>7. /\ 0 - r = One(Rdy(j)') - One(Rdy(j)) /\ 0 - u = One(Urg(j)') - One(Urg(j))
      /\ 0 - b = One(Bur(j)') - One(Bur(j))
  BY <1>6 DEF One, Urgent, Rdy, Urg, Bur
<1>8. 0 - v = One(Res(j)') - One(Res(j)) /\ 0 - 1 = One(Liv(j)') - One(Liv(j))
  <2>1. ~Res(j)' /\ ~Liv(j)'
    BY <1>6 DEF Res, Liv
  <2>2. One(Res(j)') = 0 /\ One(Liv(j)') = 0 /\ One(Liv(j)) = 1
    BY <1>3, <2>1 DEF One
  <2>3. One(Res(j)) = v /\ v \in Int
    BY <1>0, <1>5
  <2> HIDE DEF v
  <2> QED BY <2>2, <2>3
<1>9. (Liv(j) => jtube[j] = t) /\ (Liv(j)' => jtube'[j] = t)
  BY <1>4, <1>6 DEF Liv
<1> HIDE DEF r, u, b, v
<1>10. Shape(gstat') BY <1>0, <1>2 DEF GStat, Shape
<1>11. GJobs(gstat, gstat', 0 - r, 0 - u, 0 - v, 0 - b, 0 - 1) BY <1>0, <1>2 DEF GStat, GJobs
<1>12. GConns(gstat, gstat', 0, 0, 0, 0) BY <1>0, <1>2 DEF GStat, GConns
<1>13. gstat' \in GStat BY <1>0, <1>10, <1>11, <1>12, ShapeType
<1>14. tstat' \in [Tubes -> TStat] BY <1>0, <1>2, <1>4 DEF TStat
<1>15. TJobs(tstat[t], tstat'[t], 0 - u, 0 - v, 0 - b, 0 - 1)
  BY <1>0, <1>2, <1>4 DEF TStat, TJobs
<1>16. \A s \in Tubes : TConns(tstat[s], tstat'[s], 0, 0, 0)
  BY <1>0, <1>2, <1>4 DEF TStat, TConns
<1>17. \A s \in Tubes \ {t} : TJobs(tstat[s], tstat'[s], 0, 0, 0, 0)
  BY <1>0, <1>2, <1>4 DEF TStat, TJobs
<1>18. JobsCounted'
  <2> DEFINE R == 0 - r
             U == 0 - u
             V == 0 - v
             B == 0 - b
             N == 0 - 1
  <2>1. /\ R \in Int /\ U \in Int /\ V \in Int /\ B \in Int /\ N \in Int
        /\ R = One(Rdy(j)') - One(Rdy(j)) /\ U = One(Urg(j)') - One(Urg(j))
        /\ V = One(Res(j)') - One(Res(j)) /\ B = One(Bur(j)') - One(Bur(j))
        /\ N = One(Liv(j)') - One(Liv(j))
        /\ GJobs(gstat, gstat', R, U, V, B, N) /\ TJobs(tstat[t], tstat'[t], U, V, B, N)
    BY <1>0, <1>7, <1>8, <1>11, <1>15
  <2> HIDE DEF R, U, V, B, N
  <2> QED BY <1>6, <1>9, <1>17, <2>1, JobsCount DEF Counted
<1>19. ConnsCounted'
  BY <1>1, <1>12, <1>16, AnswerConns
<1> QED BY <1>13, <1>14, <1>18, <1>19 DEF Counted, StatTypes

\* reserve-job.
LEMMA dispatchOpReserveJobCounted ==
  ASSUME Counted, Sound, NEW c \in Conns, NEW j \in Ids, dispatchOpReserveJob(c, j)
  PROVE  Counted'
<1> DEFINE r == One(jstate[j] = "ready")
           u == IF jstate[j] = "ready" THEN Urgent(pri[j]) ELSE 0
           b == One(jstate[j] = "buried")
           k == One("worker" \notin ctype[c])
           K == ctype[c] \cup {"worker"}
<1>0. /\ gstat \in GStat /\ tstat \in [Tubes -> TStat] /\ 0 \in Int /\ 1 \in Int
      /\ r \in Int /\ u \in Int /\ b \in Int /\ k \in Int
      /\ 0 - r \in Int /\ 0 - u \in Int /\ 0 - b \in Int
  BY DEF Counted, StatTypes, One, Urgent
<1>1. /\ Removable(j) /\ jstate' = [jstate EXCEPT ![j] = "reserved"]
      /\ cstate[c] = "wantcommand" /\ cstate' = [cstate EXCEPT ![c] = "sendjob"]
      /\ ctype' = [ctype EXCEPT ![c] = K]
      /\ UNCHANGED <<pri, jtube, waiting, use, watch>>
  BY DEF dispatchOpReserveJob, ReserveJob, Event
<1>2. /\ gstat' = [[[gstat EXCEPT !.ready = @ - r, !.urgent = @ - u, !.buried = @ - b]
                     EXCEPT !.workers = @ + k] EXCEPT !.reserved = @ + 1]
      /\ tstat' = [[tstat EXCEPT ![jtube[j]].urgent = @ - u, ![jtube[j]].buried = @ - b]
                     EXCEPT ![jtube[j]].reserved = @ + 1]
  BY DEF dispatchOpReserveJob, TakeOutG, TakeOutT, SetWorkerG
<1>3. Liv(j) /\ ~Res(j)
  BY <1>1 DEF Removable, Liv, Res
<1>4. PICK t \in Tubes : t = jtube[j]
  BY <1>3 DEF Liv, Sound, Housekeeping, TypeOK, TubeTypes
<1>5. /\ jstate'[j] = "reserved"
      /\ \A i \in Ids \ {j} : jstate'[i] = jstate[i] /\ pri'[i] = pri[i] /\ jtube'[i] = jtube[i]
  BY <1>1 DEF Sound, TypeOK, JobTypes
<1>6. /\ 0 - r = One(Rdy(j)') - One(Rdy(j)) /\ 0 - u = One(Urg(j)') - One(Urg(j))
      /\ 0 - b = One(Bur(j)') - One(Bur(j))
  BY <1>5 DEF One, Urgent, Rdy, Urg, Bur
<1>7. 1 = One(Res(j)') - One(Res(j)) /\ 0 = One(Liv(j)') - One(Liv(j))
  <2>1. Res(j)' /\ Liv(j)'
    BY <1>5 DEF Res, Liv
  <2> QED BY <1>3, <2>1 DEF One
<1>8. (Liv(j) => jtube[j] = t) /\ (Liv(j)' => jtube'[j] = t)
  BY <1>1, <1>4
<1>9. /\ 0 = One("producer" \in K) - One("producer" \in ctype[c])
      /\ k = One("worker" \in K) - One("worker" \in ctype[c])
  BY DEF One
<1> HIDE DEF r, u, b, k, K
<1>10. Shape(gstat') BY <1>0, <1>2 DEF GStat, Shape
<1>11. GJobs(gstat, gstat', 0 - r, 0 - u, 1, 0 - b, 0) BY <1>0, <1>2 DEF GStat, GJobs
<1>12. GConns(gstat, gstat', 0, 0, 0, k) BY <1>0, <1>2 DEF GStat, GConns
<1>13. gstat' \in GStat BY <1>0, <1>10, <1>11, <1>12, ShapeType
<1>14. tstat' \in [Tubes -> TStat] BY <1>0, <1>2, <1>4 DEF TStat
<1>15. TJobs(tstat[t], tstat'[t], 0 - u, 1, 0 - b, 0)
  BY <1>0, <1>2, <1>4 DEF TStat, TJobs
<1>16. \A s \in Tubes : TConns(tstat[s], tstat'[s], 0, 0, 0)
  BY <1>0, <1>2, <1>4 DEF TStat, TConns
<1>17. \A s \in Tubes \ {t} : TJobs(tstat[s], tstat'[s], 0, 0, 0, 0)
  BY <1>0, <1>2, <1>4 DEF TStat, TJobs
<1>18. JobsCounted'
  <2> DEFINE R == 0 - r
             U == 0 - u
             B == 0 - b
  <2>1. /\ R \in Int /\ U \in Int /\ B \in Int
        /\ R = One(Rdy(j)') - One(Rdy(j)) /\ U = One(Urg(j)') - One(Urg(j))
        /\ B = One(Bur(j)') - One(Bur(j))
        /\ GJobs(gstat, gstat', R, U, 1, B, 0) /\ TJobs(tstat[t], tstat'[t], U, 1, B, 0)
    BY <1>0, <1>6, <1>11, <1>15
  <2> HIDE DEF R, U, B
  <2> QED BY <1>0, <1>5, <1>7, <1>8, <1>17, <2>1, JobsCount DEF Counted
<1>19. ConnsCounted'
  BY <1>0, <1>1, <1>9, <1>12, <1>16, KindConns
<1> QED BY <1>13, <1>14, <1>18, <1>19 DEF Counted, StatTypes

\* processQueue hands a job to a connection that waits.
LEMMA processQueueCounted ==
  ASSUME Counted, Sound, waiting' \in [Tubes -> SUBSET Conns], processQueue
  PROVE  Counted'
<1> DEFINE Hand(j, c) ==
             /\ RemoveWaitingCoon(c)
             /\ ctype' = [ctype EXCEPT ![c] = @ \ {"waiting"}]
             /\ ReserveJob(c, j)
             /\ gstat' = [gstat EXCEPT !.ready = @ - 1, !.urgent = @ - Urgent(pri[j]),
                                       !.reserved = @ + 1, !.waiting = @ - 1]
             /\ tstat' = [CountWaiting(tstat, c, -1)
                            EXCEPT ![jtube[j]].urgent = @ - Urgent(pri[j]),
                                   ![jtube[j]].reserved = @ + 1]
<1>j. PICK j \in Ids : NextAwaitedJob(j) /\ \E c \in waiting[jtube[j]] : Hand(j, c)
  BY DEF processQueue
<1>1. PICK c \in waiting[jtube[j]] : Hand(j, c)
  BY <1>j
<1>2. jstate[j] = "ready" /\ jtube[j] \in Tubes
  BY <1>j DEF NextAwaitedJob, ReadyRoot, Sound, TypeOK, TubeTypes, Placed
<1>3. PICK t \in Tubes : t = jtube[j]
  BY <1>2
<1>4. c \in Conns /\ cstate[c] = "wait" /\ \A s \in Tubes : c \in waiting[s] <=> s \in watch[c]
  BY <1>1, <1>2 DEF Sound, TypeOK, TubeTypes, WaitersAreWaiting
<1> DEFINE u == Urgent(pri[j])
           T == CountWaiting(tstat, c, 0 - 1)
<1>0. /\ gstat \in GStat /\ tstat \in [Tubes -> TStat] /\ 0 \in Int /\ 1 \in Int /\ 0 - 1 \in Int
      /\ u \in Int /\ 0 - u \in Int
  BY DEF Counted, StatTypes, One, Urgent
<1>5. /\ jstate' = [jstate EXCEPT ![j] = "reserved"] /\ cstate' = [cstate EXCEPT ![c] = "sendjob"]
      /\ UNCHANGED <<pri, jtube, use, watch>>
      /\ waiting' = [s \in Tubes |-> IF s \in watch[c] THEN waiting[s] \ {c} ELSE waiting[s]]
      /\ ctype' = [ctype EXCEPT ![c] = @ \ {"waiting"}]
  BY <1>1 DEF ReserveJob, RemoveWaitingCoon, processQueue
<1>6. /\ gstat' = [gstat EXCEPT !.ready = @ - 1, !.urgent = @ - u, !.reserved = @ + 1,
                                !.waiting = @ - 1]
      /\ tstat' = [T EXCEPT ![t].urgent = @ - u, ![t].reserved = @ + 1]
  BY <1>1, <1>3
<1>7. /\ jstate'[j] = "reserved"
      /\ \A i \in Ids \ {j} : jstate'[i] = jstate[i] /\ pri'[i] = pri[i] /\ jtube'[i] = jtube[i]
  BY <1>5 DEF Sound, TypeOK, JobTypes
<1>8. /\ 0 - 1 = One(Rdy(j)') - One(Rdy(j)) /\ 0 - u = One(Urg(j)') - One(Urg(j))
      /\ 0 = One(Bur(j)') - One(Bur(j))
  BY <1>2, <1>7 DEF One, Urgent, Rdy, Urg, Bur
<1>9. 1 = One(Res(j)') - One(Res(j)) /\ 0 = One(Liv(j)') - One(Liv(j))
  <2>1. Res(j)' /\ Liv(j)' /\ ~Res(j) /\ Liv(j)
    BY <1>2, <1>7 DEF Res, Liv
  <2> QED BY <2>1 DEF One
<1>10. (Liv(j) => jtube[j] = t) /\ (Liv(j)' => jtube'[j] = t)
  BY <1>3, <1>5
<1>11. /\ T \in [Tubes -> TStat]
       /\ \A s \in Tubes : /\ TJobs(tstat[s], T[s], 0, 0, 0, 0)
                           /\ TConns(tstat[s], T[s], IF s \in watch[c] THEN 0 - 1 ELSE 0, 0, 0)
  BY <1>0, <1>4, WaitersCounted
<1> HIDE DEF u, T
<1>12. Shape(gstat') BY <1>0, <1>6 DEF GStat, Shape
<1>13. GJobs(gstat, gstat', 0 - 1, 0 - u, 1, 0, 0) BY <1>0, <1>6 DEF GStat, GJobs
<1>14. GConns(gstat, gstat', 0 - 1, 0, 0, 0) BY <1>0, <1>6 DEF GStat, GConns
<1>15. gstat' \in GStat BY <1>0, <1>12, <1>13, <1>14, ShapeType
<1>16. tstat' \in [Tubes -> TStat] BY <1>0, <1>6, <1>11 DEF TStat
<1>17. TJobs(tstat[t], tstat'[t], 0 - u, 1, 0, 0)
  <2>1. TJobs(T[t], tstat'[t], 0 - u, 1, 0, 0)
    BY <1>0, <1>6, <1>11 DEF TStat, TJobs
  <2>2. TJobs(tstat[t], T[t], 0, 0, 0, 0) /\ tstat[t] \in TStat
    BY <1>0, <1>11
  <2> QED BY <1>0, <2>1, <2>2 DEF TStat, TJobs
<1>18. \A s \in Tubes \ {t} : TJobs(tstat[s], tstat'[s], 0, 0, 0, 0)
  BY <1>6, <1>11
<1>19. ASSUME NEW s \in Tubes
       PROVE  TConns(tstat[s], tstat'[s], IF s \in watch[c] THEN 0 - 1 ELSE 0, 0, 0)
  <2>1. TConns(T[s], tstat'[s], 0, 0, 0)
    BY <1>0, <1>6, <1>11 DEF TStat, TConns
  <2>2. /\ TConns(tstat[s], T[s], IF s \in watch[c] THEN 0 - 1 ELSE 0, 0, 0)
        /\ tstat[s] \in TStat
    BY <1>0, <1>11
  <2> QED BY <2>1, <2>2 DEF TStat, TConns
<1>20. JobsCounted'
  <2> DEFINE R == 0 - 1
             U == 0 - u
  <2>1. /\ R \in Int /\ U \in Int
        /\ R = One(Rdy(j)') - One(Rdy(j)) /\ U = One(Urg(j)') - One(Urg(j))
        /\ GJobs(gstat, gstat', R, U, 1, 0, 0) /\ TJobs(tstat[t], tstat'[t], U, 1, 0, 0)
    BY <1>0, <1>8, <1>13, <1>17
  <2> HIDE DEF R, U
  <2> QED BY <1>0, <1>7, <1>8, <1>9, <1>10, <1>18, <2>1, JobsCount DEF Counted
<1>21. ConnsCounted'
  <2>0. /\ cstate \in [Conns -> ConnStates] /\ watch \in [Conns -> SUBSET Tubes]
        /\ ctype \in [Conns -> SUBSET {"producer", "worker", "waiting"}]
    BY DEF Sound, TypeOK, ConnTypes
  <2>1. ASSUME NEW s \in Tubes
        PROVE  TConns(tstat[s], tstat'[s], One(c \in waiting'[s]) - One(c \in waiting[s]),
                      One(use'[c] = s) - One(use[c] = s), One(s \in watch'[c]) - One(s \in watch[c]))
    <3>1. /\ One(c \in waiting'[s]) - One(c \in waiting[s]) = IF s \in watch[c] THEN 0 - 1 ELSE 0
          /\ One(use'[c] = s) - One(use[c] = s) = 0
          /\ One(s \in watch'[c]) - One(s \in watch[c]) = 0
      BY <1>4, <1>5 DEF One
    <3> QED BY <1>19, <3>1
  <2>2. /\ 0 - 1 = One(cstate'[c] = "wait") - One(cstate[c] = "wait")
        /\ 0 = One(cstate'[c] \notin {"closed", "close"}) - One(cstate[c] \notin {"closed", "close"})
        /\ 0 = One("producer" \in ctype'[c]) - One("producer" \in ctype[c])
        /\ 0 = One("worker" \in ctype'[c]) - One("worker" \in ctype[c])
    BY <1>4, <1>5, <2>0 DEF One
  <2>3. GConns(gstat, gstat',
               One(cstate'[c] = "wait") - One(cstate[c] = "wait"),
               One(cstate'[c] \notin {"closed", "close"}) - One(cstate[c] \notin {"closed", "close"}),
               One("producer" \in ctype'[c]) - One("producer" \in ctype[c]),
               One("worker" \in ctype'[c]) - One("worker" \in ctype[c]))
    BY <1>14, <2>2
  <2>4. \A b \in Conns \ {c} : /\ cstate'[b] = cstate[b] /\ ctype'[b] = ctype[b]
                               /\ use'[b] = use[b] /\ watch'[b] = watch[b]
                               /\ \A s \in Tubes : b \in waiting[s] <=> b \in waiting'[s]
    BY <1>4, <1>5, <2>0
  <2> QED BY <1>4, <2>1, <2>3, <2>4, ConnsCount DEF Counted
<1> QED BY <1>15, <1>16, <1>20, <1>21 DEF Counted, StatTypes

LEMMA MoveCounted ==
  ASSUME Counted, Sound, waiting' \in [Tubes -> SUBSET Conns], MoveJob
  PROVE  Counted'
<1>1. CASE enqueueReservedJobs BY <1>1, enqueueReservedJobsCounted
<1>2. CASE processQueue BY <1>2, processQueueCounted
<1>3. CASE TickDelayed BY <1>3, TickDelayedCounted
<1>4. ASSUME NEW c \in Conns, Mover(c) PROVE Counted'
  <2>1. ASSUME NEW p \in Pris, NEW d \in Delays, NEW n \in Ttrs,
               dispatchOpPut(c, p, d, n) \/ PutHeader(c, p, d, n)
        PROVE  Counted'
    BY <2>1, dispatchOpPutCounted, PutHeaderCounted
  <2>2. CASE BodyComplete(c) \/ BodyRefused(c)
    BY <2>2, BodyCompleteCounted, BodyRefusedCounted
  <2>3. ASSUME NEW j \in Ids, dispatchOpReserveJob(c, j) \/ dispatchOpDelete(c, j) PROVE Counted'
    BY <2>3, dispatchOpReserveJobCounted, dispatchOpDeleteCounted
  <2>4. ASSUME NEW j \in Ids, NEW p \in Pris, NEW d \in RelDelays, dispatchOpRelease(c, j, p, d)
        PROVE  Counted'
    BY <2>4, dispatchOpReleaseCounted
  <2>5. ASSUME NEW n \in Nums, NEW p \in Pris, dispatchOpBury(c, n, p) PROVE Counted'
    BY <2>5, dispatchOpBuryCounted
  <2> QED BY <1>4, <2>1, <2>2, <2>3, <2>4, <2>5 DEF Mover
<1> QED BY <1>1, <1>2, <1>3, <1>4 DEF MoveJob

-----------------------------------------------------------------------------
(***************************************************************************)
(* The slots without a connection, and the theorem.                        *)
(***************************************************************************)

\* A handler of a connection that is open leaves the other slots alone.
LEMMA BlankElsewhere ==
  ASSUME Sound, ClosedBlank, NEW c \in Conns, cstate'[c] # "closed",
         \A b \in Conns \ {c} : /\ cstate'[b] = cstate[b] /\ use'[b] = use[b]
                                /\ watch'[b] = watch[b]
  PROVE  ClosedBlank'
  BY DEF ClosedBlank

LEMMA TalkerBlank ==
  ASSUME Sound, ClosedBlank, NEW c \in Conns, Talker(c)
  PROVE  ClosedBlank'
<1>0. /\ cstate \in [Conns -> ConnStates] /\ use \in [Conns -> Tubes \cup {NoTube}]
      /\ watch \in [Conns -> SUBSET Tubes]
  BY DEF Sound, TypeOK, ConnTypes
<1>1. cstate'[c] # "closed" /\ \A b \in Conns \ {c} : cstate'[b] = cstate[b]
  BY <1>0, TalkerState
<1>2. \A b \in Conns \ {c} : use'[b] = use[b] /\ watch'[b] = watch[b]
  <2>1. CASE hAccept(c) BY <1>0, <2>1 DEF hAccept
  <2>2. CASE connWantCommand(c) BY <2>2 DEF connWantCommand
  <2>3. CASE HangUp(c) \/ connClose(c) \/ PutRefused(c)
    BY <2>3 DEF HangUp, connClose, PutRefused
  <2>4. CASE dispatchOpReserve(c) \/ DeadlineSoon(c)
    BY <2>4 DEF dispatchOpReserve, DeadlineSoon
  <2>5. CASE Reader(c) BY <2>5, ReaderStep DEF Quiet
  <2>6. ASSUME NEW n \in Nums, dispatchOpTouch(c, n)
        PROVE  UNCHANGED <<use, watch>>
    BY <2>6 DEF dispatchOpTouch
  <2>7. ASSUME NEW t \in Tubes,
               dispatchOpUse(c, t) \/ dispatchOpWatch(c, t) \/ dispatchOpIgnore(c, t)
        PROVE  \A b \in Conns \ {c} : use'[b] = use[b] /\ watch'[b] = watch[b]
    BY <1>0, <2>7 DEF dispatchOpUse, dispatchOpWatch, dispatchOpIgnore
  <2>8. ASSUME NEW t \in Tubes, NEW n \in PauseDelays, dispatchOpPauseTube(c, t, n)
        PROVE  UNCHANGED <<use, watch>>
    BY <2>8 DEF dispatchOpPauseTube
  <2> QED BY <2>1, <2>2, <2>3, <2>4, <2>5, <2>6, <2>7, <2>8 DEF Talker
<1> QED BY <1>1, <1>2, BlankElsewhere

LEMMA LoopBlank ==
  ASSUME Sound, ClosedBlank, LoopStep
  PROVE  ClosedBlank'
<1>1. ASSUME UNCHANGED connVars PROVE ClosedBlank'
  BY <1>1 DEF ClosedBlank, connVars
<1>2. CASE CloseDone
  BY <1>2 DEF CloseDone, ClosedBlank, Sound, TypeOK, ConnTypes, Housekeeping, LoopTypes
<1>3. CASE ProcessQueueReturns \/ TickPaused \/ TickDone
  BY <1>1, <1>3 DEF ProcessQueueReturns, TickPaused, TickDone
<1>4. CASE Timeout \/ Clock \/ enterDrainMode
  BY <1>1, <1>4 DEF Timeout, Clock, enterDrainMode
<1>5. CASE \E c \in Conns, j \in Ids : ReserveJobDies(c, j)
  BY <1>1, <1>5 DEF ReserveJobDies
<1> QED BY <1>2, <1>3, <1>4, <1>5 DEF LoopStep

LEMMA MoveBlank ==
  ASSUME Sound, ClosedBlank, MoveJob
  PROVE  ClosedBlank'
<1>0. cstate \in [Conns -> ConnStates]
  BY DEF Sound, TypeOK, ConnTypes
<1>1. UNCHANGED <<use, watch>>
  <2>1. CASE enqueueReservedJobs BY <2>1 DEF enqueueReservedJobs
  <2>2. CASE processQueue \/ TickDelayed BY <2>2 DEF processQueue, TickDelayed, connVars
  <2>3. ASSUME NEW c \in Conns, NEW p \in Pris, NEW d \in Delays, NEW n \in Ttrs,
               dispatchOpPut(c, p, d, n) \/ PutHeader(c, p, d, n)
        PROVE  UNCHANGED <<use, watch>>
    BY <2>3 DEF dispatchOpPut, PutHeader
  <2>4. ASSUME NEW c \in Conns, BodyComplete(c) \/ BodyRefused(c) PROVE UNCHANGED <<use, watch>>
    BY <2>4 DEF BodyComplete, BodyRefused
  <2>5. ASSUME NEW c \in Conns, NEW j \in Ids, dispatchOpReserveJob(c, j) \/ dispatchOpDelete(c, j)
        PROVE  UNCHANGED <<use, watch>>
    BY <2>5 DEF dispatchOpReserveJob, dispatchOpDelete
  <2>6. ASSUME NEW c \in Conns, NEW j \in Ids, NEW p \in Pris, NEW d \in RelDelays,
               dispatchOpRelease(c, j, p, d)
        PROVE  UNCHANGED <<use, watch>>
    BY <2>6 DEF dispatchOpRelease
  <2>7. ASSUME NEW c \in Conns, NEW n \in Nums, NEW p \in Pris, dispatchOpBury(c, n, p)
        PROVE  UNCHANGED <<use, watch>>
    BY <2>7 DEF dispatchOpBury
  <2> QED BY <2>1, <2>2, <2>3, <2>4, <2>5, <2>6, <2>7 DEF MoveJob, Mover
<1>2. CASE enqueueReservedJobs \/ TickDelayed
  BY <1>1, <1>2 DEF enqueueReservedJobs, TickDelayed, connVars, ClosedBlank
<1>3. CASE processQueue
  <2>1. PICK c : cstate' = [cstate EXCEPT ![c] = "sendjob"]
    BY <1>3 DEF processQueue, ReserveJob
  <2> QED BY <1>0, <1>1, <2>1 DEF ClosedBlank
<1>4. ASSUME NEW c \in Conns, Mover(c) PROVE ClosedBlank'
  <2>1. PICK st : st # "closed" /\ cstate' = [cstate EXCEPT ![c] = st]
    <3>1. ASSUME NEW p \in Pris, NEW d \in Delays, NEW n \in Ttrs, dispatchOpPut(c, p, d, n)
          PROVE  cstate' = [cstate EXCEPT ![c] = "sendword"]
      BY <3>1, ReplyState DEF dispatchOpPut, EnqueueInComingJob, Answer
    <3>2. ASSUME NEW p \in Pris, NEW d \in Delays, NEW n \in Ttrs, PutHeader(c, p, d, n)
          PROVE  cstate' = [cstate EXCEPT ![c] = "wantdata"]
      BY <3>2 DEF PutHeader
    <3>3. ASSUME BodyComplete(c) \/ BodyRefused(c)
          PROVE  cstate' = [cstate EXCEPT ![c] = "sendword"]
      BY <3>3, ReplyState DEF BodyComplete, BodyRefused, EnqueueInComingJob, Answer
    <3>4. ASSUME NEW j \in Ids, dispatchOpReserveJob(c, j)
          PROVE  cstate' = [cstate EXCEPT ![c] = "sendjob"]
      BY <3>4 DEF dispatchOpReserveJob, ReserveJob
    <3>5. ASSUME NEW j \in Ids, dispatchOpDelete(c, j)
          PROVE  cstate' = [cstate EXCEPT ![c] = "sendword"]
      BY <3>5, ReplyState DEF dispatchOpDelete
    <3>6. ASSUME NEW j \in Ids, NEW p \in Pris, NEW d \in RelDelays, dispatchOpRelease(c, j, p, d)
          PROVE  cstate' = [cstate EXCEPT ![c] = "sendword"]
      BY <3>6, ReplyState DEF dispatchOpRelease
    <3>7. ASSUME NEW n \in Nums, NEW p \in Pris, dispatchOpBury(c, n, p)
          PROVE  cstate' = [cstate EXCEPT ![c] = "sendword"]
      BY <3>7, ReplyState DEF dispatchOpBury
    <3> QED BY <1>4, <3>1, <3>2, <3>3, <3>4, <3>5, <3>6, <3>7 DEF Mover
  <2> QED BY <1>0, <1>1, <2>1 DEF ClosedBlank
<1> QED BY <1>2, <1>3, <1>4 DEF MoveJob

LEMMA StatInit == Init => StatInv
<1> SUFFICES ASSUME Init PROVE StatInv
  OBVIOUS
<1>1. StatTypes
  BY DEF Init, StatTypes, GStat, TStat
<1>2. /\ InState("ready") = {} /\ UrgentReady = {} /\ InState("reserved") = {}
      /\ InState("buried") = {} /\ Live = {}
      /\ \A t : /\ OfTube(t, UrgentReady) = {} /\ OfTube(t, InState("reserved")) = {}
                /\ OfTube(t, InState("buried")) = {} /\ OfTube(t, Live) = {}
  BY DEF Init, InState, UrgentReady, Live, OfTube
<1>3. JobsCounted
  BY <1>2, FS_EmptySet DEF Init, JobsCounted
<1>4. /\ Waits = {} /\ Opens = {} /\ Are("producer") = {} /\ Are("worker") = {}
      /\ \A t \in Tubes : Using(t) = {} /\ Watching(t) = {}
  BY TubesAssumption DEF Init, Waits, Opens, Are, Using, Watching
<1>5. ConnsCounted
  BY <1>4, FS_EmptySet DEF Init, ConnsCounted
<1>6. ClosedBlank
  BY DEF Init, ClosedBlank
<1> QED BY <1>1, <1>3, <1>5, <1>6 DEF StatInv

LEMMA StatStep == IndInv /\ StatInv /\ [Next]_vars => StatInv'
<1> SUFFICES ASSUME IndInv, StatInv, [Next]_vars PROVE StatInv'
  OBVIOUS
<1>1. Counted /\ ClosedBlank
  BY DEF StatInv, Counted
<1>2. CASE Sound /\ Step
  <2>1. waiting' \in [Tubes -> SUBSET Conns]
    BY StepInv DEF IndInv, TypeOK, TubeTypes
  <2>2. Counted'
    BY <1>1, <1>2, <2>1, StepKinds, MoveCounted, LoopCounted, TalkerCounted
  <2>3. ClosedBlank'
    BY <1>1, <1>2, StepKinds, MoveBlank, LoopBlank, TalkerBlank
  <2> QED BY <2>2, <2>3 DEF StatInv, Counted
<1>3. CASE UNCHANGED vars
  <2> USE <1>3 DEF vars, jobVars, tubeVars, connVars, statVars
  <2>1. Counted'
    BY <1>1, NothingCounted DEF SameConn
  <2>2. ClosedBlank'
    BY <1>1 DEF ClosedBlank
  <2> QED BY <2>1, <2>2 DEF StatInv, Counted
<1> QED BY <1>2, <1>3, StepFinds

\* The statistics are exact: whatever the commands, hang-ups and closes, each counter that
\* StatsExact names is the number of jobs or connections it is about.
THEOREM CountsExactly == Spec => []StatsExact
<1>1. Init => StatInv
  BY StatInit
<1>2. IndInv /\ StatInv /\ [Next]_vars => StatInv'
  BY StatStep
<1>3. StatInv => StatsExact
  BY TwoHalves DEF StatInv
<1> QED BY <1>1, <1>2, <1>3, Invariance, PTL DEF Spec
=============================================================================
