-------------------------------- MODULE Wal --------------------------------
(***************************************************************************)
(* The binlog: core/wal.go and core/file.go, the places where commands     *)
(* reserve space in it and write to it, and the recovery that main runs    *)
(* before it serves (SrvAcquireWal, protReplay).                           *)
(*                                                                         *)
(* The server is single-threaded, so what lies between two steps matters   *)
(* only to a crash.  A step ends where the contents of the directory       *)
(* change: after a reservation (it may create files), after the head and   *)
(* after the body of a record, after moveOne took a job out of the head    *)
(* file (it may unlink it), after each record that recovery reads.  A      *)
(* write is on disk when the step ends: the process may die, the system    *)
(* stays up.                                                               *)
(*                                                                         *)
(* Sizes are in small units: Short is z of the code, 8 bytes and a JobRec; *)
(* a full record is Short plus the tube name and the body, Extra[kind].    *)
(***************************************************************************)
EXTENDS Integers, FiniteSets, SequencesExt, FiniteSetsExt

CONSTANTS
  MaxJobs,        \* bound: ids the clients may use up
  Kinds,          \* kinds of jobs that clients put
  Extra,          \* bytes of tube name and body, by kind
  TooBig,         \* kinds whose R.BodySize (the body and CRLF) is over MaxJobSize
  Foreign,        \* kinds in a tube other than "default"
  Ops,            \* the commands that clients send
  Cost,           \* bound: how much of MaxCmds each command uses up
  Short,          \* size of a short record
  FileSize,       \* Wal.FileSize
  MaxFiles,       \* bound: numbers of binlog files, more than the commands use up
  MaxRoom,        \* bound: files that one reservation finds room for on the disk
  MaxCmds,        \* bound: commands that reach the log, each with its Cost
  MaxFaults,      \* bound: crashes, refusals of FAlloc and failed writes, together
  OpenCost,       \* bound: how much of MaxFaults a crash in fileWOpen uses up
  Legacy          \* versions of the binlog that may be there at first (for the last commands)

ASSUME SizesAssumption ==
  /\ Short \in Nat \ {0} /\ Extra \in [Kinds -> Nat] /\ FileSize \in Nat
  /\ TooBig \subseteq Kinds /\ Foreign \subseteq Kinds /\ Cost \in [Ops -> Nat \ {0}]
  /\ OpenCost \in Nat \ {0}
  /\ {MaxJobs, MaxFiles, MaxRoom, MaxCmds, MaxFaults} \subseteq Nat
  /\ MaxFiles >= 1 /\ MaxJobs >= 1 /\ Legacy \subseteq Nat /\ "short" \notin Kinds

VARIABLES
  w,        \* model.Wal, its files and the WalUsed of the jobs
  dir,      \* the directory: file number -> [ver, recs]
  jobs,     \* allJobs: id -> [st, kind, good, where]
  nextId,   \* nextJobId
  pc,       \* what the server is doing
  run,      \* the command or the migration that is under way
  rd,       \* recovery: [last: last file opened, pos: next record, list: of protReplay]
  answer,   \* the last answer a client got: "ok" (INSERTED, DELETED, ...) or an error
  acked,    \* what clients were told of jobs: "live" or "buried" for good, "unlogged" or
            \* "deleted" with the log off, "exposed" once nobody can rely on it any more
  gone,     \* jobs whose delete was logged and answered DELETED
  faults,   \* crashes, refusals of FAlloc and failed writes so far
  cmds      \* the Cost of the commands so far

walVars == <<w, dir, jobs, nextId, pc, run, rd, answer, acked, gone, faults, cmds>>

Ids    == 1..MaxJobs
Files  == 1..MaxFiles
Header == 1                       \* binary.Size(constant.WalVer)
WalVer == 7
WalVer5 == 5
NoRun  == [op |-> "none", job |-> 0, need |-> 0, left |-> 0, moving |-> 0]

\* A record: kind is "short" in a short one; body tells whether the body was written too.
Rec(j, st, kind, body) == [id |-> j, st |-> st, kind |-> kind, body |-> body]
IsFull(r)   == r.kind # "short"
RecSize(r)  == Short + (IF IsFull(r) THEN Extra[r.kind] ELSE 0)
Written(r)  == IF r.body THEN RecSize(r) ELSE Short
Bytes(recs) ==
  LET sum[i \in 0..Len(recs)] == IF i = 0 THEN 0 ELSE sum[i - 1] + Written(recs[i])
  IN  sum[Len(recs)]

-----------------------------------------------------------------------------
(* The files that the process knows.  v.ok is the result of the last call, *)
(* v.stuck tells that it does not return.                                  *)

EmptyWal(next) ==
  [files |-> <<>>,                     \* Head .. Tail
   cur |-> 0, next |-> next, use |-> TRUE, ok |-> TRUE, stuck |-> FALSE,
   open |-> {},                        \* files with IsWOpen
   reading |-> 0,                      \* the file that FileRead holds a reference to
   free |-> [f \in Files |-> 0], resv |-> [f \in Files |-> 0],
   total |-> 0,                        \* Wal.Resv
   alive |-> 0,
   list |-> [f \in Files |-> <<>>],    \* JobList
   used |-> [j \in Ids |-> 0],         \* WalUsed
   room |-> 0,                         \* files that FAlloc will still allow
   spent |-> 0, spare |-> 0,           \* releases that were logged, that only reserved
   torn |-> FALSE]                     \* a reservation was taken back from the wrong file

TailFile(v)  == v.files[Len(v.files)]
HeadFile(v)  == v.files[1]
PosOf(v, f)  == CHOOSE i \in DOMAIN v.files : v.files[i] = f
HasNext(v)   == v.cur # TailFile(v)
NextFile(v)  == v.files[PosOf(v, v.cur) + 1]
Holds(v, f, j) == \E i \in DOMAIN v.list[f] : v.list[f][i] = j
FileOf(v, j) == IF \E f \in Files : Holds(v, f, j)
                THEN CHOOSE f \in Files : Holds(v, f, j) ELSE 0

\* File.Refs: a reference for each job of the file, one for the writer, one for FileRead.
Refs(v, f) == Len(v.list[f]) + (IF f \in v.open THEN 1 ELSE 0)
                             + (IF f = v.reading THEN 1 ELSE 0)

\* Mutant: every file without references goes, wherever it stands.
walGc_Any(v) ==
  [v EXCEPT !.files = SelectSeq(@, LAMBDA f : Refs(v, f) > 0)]

\* walGc: files go from the head on, up to the first that is referenced.
walGc(v) ==
  LET kept == {i \in DOMAIN v.files : Refs(v, v.files[i]) > 0}
  IN  [v EXCEPT !.files = IF kept = {} THEN <<>> ELSE SubSeq(@, Min(kept), Len(@))]

\* fileDecRef, once the reference is gone from v.
fileDecRef(v, f) == IF Refs(v, f) < 1 THEN walGc(v) ELSE v

FileAddJob(v, f, j) == [v EXCEPT !.list[f] = Append(@, j)]
DropJob(l, j) == RemoveAt(l, CHOOSE i \in DOMAIN l : l[i] = j)

\* Mutant: the bytes of the job stay in Alive.
FileRmJob_KeepsAlive(v, j) ==
  LET f == FileOf(v, j)
  IN  IF f = 0 THEN v
      ELSE fileDecRef([v EXCEPT !.list[f] = DropJob(@, j), !.used[j] = 0], f)

FileRmJob(v, j) ==
  LET f == FileOf(v, j)
  IN  IF f = 0 THEN v
      ELSE fileDecRef([v EXCEPT !.list[f] = DropJob(@, j),
                                !.alive = @ - v.used[j], !.used[j] = 0], f)

fileAdd(v, f) == [v EXCEPT !.files = Append(@, f)]

\* makeNextFile, fileInit, fileWOpen
makeNextFile(v) ==
  IF v.room = 0 THEN [v EXCEPT !.ok = FALSE]
  ELSE fileAdd([v EXCEPT !.ok = TRUE, !.room = @ - 1, !.next = @ + 1,
                         !.open = @ \cup {v.next},
                         !.free[v.next] = FileSize - Header,
                         !.resv[v.next] = 0], v.next)

fileWClose(v, f) ==
  IF f \in v.open THEN fileDecRef([v EXCEPT !.open = @ \ {f}], f) ELSE v

useNext(v) ==
  IF HasNext(v) THEN fileWClose([v EXCEPT !.cur = NextFile(v), !.ok = TRUE], v.cur)
  ELSE [v EXCEPT !.ok = FALSE]

needFree(v, n) ==
  IF v.free[TailFile(v)] >= n THEN [v EXCEPT !.ok = TRUE] ELSE makeNextFile(v)

\* Mutant: the space is not given back to the file it comes from.
moveResv_NoFree(v, to, from, n) ==
  LET u == [v EXCEPT !.resv[from] = @ - n]
  IN  [u EXCEPT !.resv[to] = @ + n, !.free[to] = @ - n]

moveResv(v, to, from, n) ==
  LET u == [v EXCEPT !.resv[from] = @ - n, !.free[from] = @ + n]
  IN  [u EXCEPT !.resv[to] = @ + n, !.free[to] = @ - n]

-----------------------------------------------------------------------------
(* Reservations. *)

\* n % Short as Go has it: the remainder of a negative number is not positive.
Rest(n) == IF n >= 0 THEN n % Short ELSE 0 - ((0 - n) % Short)

\* As many rounds and visits as there are files, those included that they may add.
Turns(v) == Len(v.files) + v.room + 1

\* One round of balance's loop.  What useNext answers is not looked at: when there is no
\* next file the loop goes on for ever.
goOn(v) == IF HasNext(v) THEN useNext(v) ELSE [v EXCEPT !.ok = FALSE, !.stuck = TRUE]
balanceStep(v) ==
  LET m == v.resv[v.cur]
      a == needFree(v, m)
  IN  IF a.ok THEN goOn(moveResv(a, TailFile(a), a.cur, m)) ELSE a

\* The body of balanceRest for the file at position i of the list.
restStep(v, i, n) ==
  LET b == v.files[i]
      r == Rest(v.resv[b] - n)
      c == Short - r
      a == needFree(v, r)
  IN  IF r = 0 THEN v
      ELSE IF v.resv[TailFile(v)] >= c /\ v.free[b] >= c
           THEN moveResv(v, b, TailFile(v), c)
           ELSE IF a.ok THEN moveResv(a, TailFile(a), b, r) ELSE a

\* Mutant: the rest of the current file is left where it is.
balanceRest_Skip(v, n) == v

balanceRest(v, n) ==
  LET first == PosOf(v, v.cur)
      Visit(u, i) == IF u.ok /\ i <= Len(u.files)
                     THEN restStep(u, i, IF i = first THEN n ELSE 0) ELSE u
      rest[k \in 0..Turns(v)] == IF k = 0 THEN v ELSE Visit(rest[k - 1], first + k - 1)
  IN  rest[Turns(v)]

\* balance's loop.
balanceLoop(v, n) ==
  LET Round(u) == IF u.ok /\ u.resv[u.cur] < n THEN balanceStep(u) ELSE u
      loop[k \in 0..Turns(v)] == IF k = 0 THEN v ELSE Round(loop[k - 1])
  IN  loop[Turns(v)]

\* After a failure of the loop no file is visited.
balance(v, n) == balanceRest(balanceLoop(v, n), n)

Take(v, f, n) ==
  [v EXCEPT !.free[f] = @ - n, !.resv[f] = @ + n, !.total = @ + n]

\* Mutant: a reservation that fails is not taken back.
reserve_NoRollback(v, n) ==
  IF ~v.use THEN [v EXCEPT !.ok = TRUE]
  ELSE IF v.free[v.cur] >= n THEN [Take(v, v.cur, n) EXCEPT !.ok = TRUE]
  ELSE LET a == needFree(v, n)
       IN  IF a.ok THEN balance(Take(a, TailFile(a), n), n) ELSE a

\* The space taken from file f is taken back from the file that is the last one by then, be it
\* another one.
takeBack(v, f, n) ==
  IF v.ok \/ v.stuck THEN v
  ELSE [Take(v, TailFile(v), 0 - n) EXCEPT !.torn = @ \/ TailFile(v) # f]

reserveLast(v, n) ==
  IF v.ok THEN takeBack(balance(Take(v, TailFile(v), n), n), TailFile(v), n) ELSE v

reserve(v, n) ==
  IF ~v.use THEN [v EXCEPT !.ok = TRUE]
  ELSE IF v.free[v.cur] >= n THEN [Take(v, v.cur, n) EXCEPT !.ok = TRUE]
  ELSE reserveLast(needFree(v, n), n)

WalResvUpdate == Short
walResvMigrate(kind) == Short + Extra[kind]

\* Mutant: a put reserves nothing for the delete to come.
WalResvPut_NoDelete(kind) == Short + Extra[kind]

WalResvPut(kind) == Short + Extra[kind] + Short

\* What a file can hold beside its version.
Cap == FileSize - Header

\* No job is larger than a file: of the options -z and -s, which nobody compares, the first is
\* the smaller one.
Roomy == FileSize >= Header /\ \A kind \in Kinds : WalResvPut(kind) <= Cap

\* How many rounds walCompact makes.
ratio(v) ==
  LET d == v.alive + v.total
  IN  IF d <= 0 THEN 0 ELSE (Len(v.files) * FileSize - d) \div d
MoveRounds(v) == IF v.use /\ ratio(v) >= 2 THEN ratio(v) - 1 ELSE 0

-----------------------------------------------------------------------------
(* The directory after the process went from w to v: new files appear,     *)
(* files that left the list are unlinked, files that were closed are       *)
(* truncated to what was written or reserved.                              *)

\* Truncate(size): the records that it leaves whole; it may cut the version, and a size below
\* zero is an error.
Kept(recs, size) ==
  LET fits == {i \in 0..Len(recs) : Header + Bytes(SubSeq(recs, 1, i)) <= size}
  IN  SubSeq(recs, 1, Max(fits \cup {0}))
Truncated(file, size) ==
  IF size < 0 THEN file
  ELSE [ver |-> IF size < Header THEN 0 ELSE file.ver, recs |-> Kept(file.recs, size)]

DirOf(v) ==
  LET was == ToSet(w.files)
      now == ToSet(v.files)
      Cut(f) == f \in w.open \ v.open /\ v.free[f] > 0
  IN  [f \in (DOMAIN dir \ (was \ now)) \cup now |->
         IF f \notin DOMAIN dir THEN [ver |-> WalVer, recs |-> <<>>]
         ELSE IF Cut(f) THEN Truncated(dir[f], FileSize - v.free[f])
         ELSE dir[f]]

\* Jobs that lose a record by that: more is reserved of a file than it has, after a release
\* has written what nobody reserved, and what is cut off are records.
Lost(v) ==
  LET d == DirOf(v)
  IN  UNION {{dir[f].recs[p].id : p \in DOMAIN dir[f].recs \ DOMAIN d[f].recs} :
               f \in DOMAIN dir \cap DOMAIN d}

AddRec(d, f, r) == [d EXCEPT ![f].recs = Append(@, r)]
SetBody(d, f) == [d EXCEPT ![f].recs[Len(d[f].recs)].body = TRUE]

\* Files that are left for the next reservation: all that FAlloc will give, or fewer.
Rooms == {room \in IF faults < MaxFaults THEN 0..MaxRoom ELSE {MaxRoom} :
            w.next + room <= MaxFiles + 1}
Charge(v) == /\ v.ok \/ v.stuck \/ faults < MaxFaults
             /\ faults' = IF v.ok \/ v.stuck THEN faults ELSE faults + 1

-----------------------------------------------------------------------------
(* Commands.  A job is found in the containers that `where' names.         *)

\* What is kept of v between steps; nobody looks at Free and Resv of a closed file.
Settled(v) ==
  [v EXCEPT !.ok = TRUE, !.stuck = FALSE, !.room = 0,
            !.free = [f \in Files |-> IF f \in v.open THEN v.free[f] ELSE 0],
            !.resv = [f \in Files |-> IF f \in v.open THEN v.resv[f] ELSE 0]]

SetWal(v) == w' = Settled(v) /\ dir' = DirOf(v)

\* A reservation that does not return.
Hangs == pc' = "hung" /\ UNCHANGED <<jobs, run, answer>>

Place(j, st, where) == [jobs EXCEPT ![j].st = st, ![j].where = where]
Without(j) == [k \in DOMAIN jobs \ {j} |-> jobs[k]]
Forget(j)  == [k \in DOMAIN acked \ {j} |-> acked[k]]
Promise(j, what) == [k \in DOMAIN acked \cup {j} |-> IF k = j THEN what ELSE acked[k]]

\* A client may rely on what it was told of job j, over restarts.
Relied(j) == j \in DOMAIN acked /\ acked[j] \in {"live", "buried"}

\* Jobs of which clients were told something while nothing was written any more.
Unlogged == {j \in DOMAIN acked : acked[j] \in {"unlogged", "deleted"}}

\* Nobody can rely any more on what was said of the jobs in S.
Expose(S) ==
  /\ acked' = [j \in DOMAIN acked \cup S |-> IF j \in S THEN "exposed" ELSE acked[j]]
  /\ gone' = gone \ S

Working(op, j, need) ==
  /\ pc' = "write"
  /\ run' = [op |-> op, job |-> j, need |-> need, left |-> 0, moving |-> 0]
Answer(msg) == pc' = "idle" /\ run' = NoRun /\ answer' = msg

\* A command reaches its handler.
Command(op) ==
  /\ pc = "idle" /\ op \in Ops
  /\ cmds + Cost[op] <= MaxCmds /\ cmds' = cmds + Cost[op]

Started == UNCHANGED <<rd, answer, faults>>

\* enqueueInComingJob, up to WalWrite: the job is made and space reserved, then it is pushed.
Put(kind, delayed, room) ==
  /\ Command(IF delayed THEN "put-delay" ELSE "put") /\ nextId \in Ids
  /\ LET j  == nextId
         st == IF delayed THEN "delayed" ELSE "ready"
         v  == reserve([w EXCEPT !.room = room], WalResvPut(kind))
         N(s, c) == [k \in DOMAIN jobs \cup {j} |->
                       IF k = j THEN [st |-> s, kind |-> kind, good |-> TRUE, where |-> c]
                       ELSE jobs[k]]
     IN  /\ SetWal(v) /\ Charge(v)
         /\ nextId' = nextId + 1
         /\ gone' = gone \ {j} /\ acked' = Forget(j)
         /\ IF v.stuck THEN Hangs
            ELSE IF v.ok
            THEN /\ jobs' = N(st, {st}) /\ Working("put", j, WalResvPut(kind))
                 /\ answer' = answer
            ELSE jobs' = N("invalid", {}) /\ Answer("OUT_OF_MEMORY")
  /\ UNCHANGED rd

\* reserve takes a job out of the ready heap; nothing is written.
Reserve(j) ==
  /\ pc = "idle" /\ "ready" \in jobs[j].where
  /\ jobs' = Place(j, "reserved", (jobs[j].where \ {"ready"}) \cup {"reserved"})
  /\ UNCHANGED <<w, dir, nextId, pc, run, rd, answer, acked, gone, faults, cmds>>

\* A ttr that runs out, a holder that leaves, a delay that is over: enqueueJob without update.
Requeue(j) ==
  /\ pc = "idle" /\ jobs[j].where \cap {"reserved", "delayed"} # {}
  /\ jobs' = Place(j, "ready", {"ready"})
  /\ UNCHANGED <<w, dir, nextId, pc, run, rd, answer, acked, gone, faults, cmds>>

\* dispatchOpDelete, up to WalWrite: no space is reserved, put did that.
Delete(j) ==
  /\ Command("delete") /\ jobs[j].st \in jobs[j].where
  /\ jobs' = Place(j, "invalid", jobs[j].where \ {jobs[j].st})
  /\ acked' = Forget(j)
  /\ Working("delete", j, 0)
  /\ Started /\ UNCHANGED <<w, dir, nextId, gone>>

\* dispatchOpBury: the job leaves its holder before space is reserved.
Bury(j, room) ==
  /\ Command("bury") /\ jobs[j].where = {"reserved"}
  /\ LET v == reserve([w EXCEPT !.room = room], WalResvUpdate)
     IN  /\ SetWal(v) /\ Charge(v)
         /\ IF v.stuck THEN Hangs
            ELSE IF v.ok
            THEN /\ jobs' = Place(j, "buried", {"buried"})
                 /\ Working("bury", j, WalResvUpdate) /\ answer' = answer
            ELSE /\ jobs' = Place(j, "reserved", {}) /\ Answer("INTERNAL_ERROR")
  /\ UNCHANGED <<nextId, rd, acked, gone>>

\* dispatchOpRelease without delay: enqueueJob writes, and no space was reserved.
Release(j) ==
  /\ Command("release") /\ jobs[j].where = {"reserved"}
  /\ jobs' = Place(j, "ready", {"ready"})
  /\ Working("release", j, 0)
  /\ Started /\ UNCHANGED <<w, dir, nextId, acked, gone>>

\* dispatchOpRelease with a delay: space is reserved and nothing is written.
ReleaseDelayed(j, room) ==
  /\ Command("release-delay") /\ jobs[j].where = {"reserved"}
  /\ LET v == reserve([w EXCEPT !.room = room], WalResvUpdate)
     IN  /\ SetWal(IF v.ok THEN [v EXCEPT !.spare = @ + 1] ELSE v) /\ Charge(v)
         /\ IF v.stuck THEN Hangs
            ELSE IF v.ok THEN jobs' = Place(j, "delayed", {"delayed"}) /\ Answer("ok")
            ELSE jobs' = Place(j, "reserved", {}) /\ Answer("OUT_OF_MEMORY")
  /\ UNCHANGED <<nextId, rd, acked, gone>>

NoRead == [last |-> 0, pos |-> 0, list |-> <<>>]

\* The process is gone, and all it held in memory.
Died ==
  /\ pc' = "down" /\ w' = EmptyWal(1) /\ jobs' = <<>> /\ nextId' = 1
  /\ run' = NoRun /\ rd' = NoRead

-----------------------------------------------------------------------------
(* WalWrite, for the command or, in moveOne, for the job that moves.       *)

Subject == IF run.moving # 0 THEN run.moving ELSE run.job

\* The command ends, and the client is told so, whether or not it was written.
Finish ==
  LET exposed == run.job \in DOMAIN acked /\ ~Relied(run.job)
  IN  /\ jobs' = IF run.op = "delete" THEN Without(run.job) ELSE jobs
      /\ acked' = CASE exposed -> acked
                   [] ~exposed /\ run.op = "put" ->
                        Promise(run.job, IF w.use THEN "live" ELSE "unlogged")
                   [] ~exposed /\ run.op = "bury" /\ w.use /\ Relied(run.job) ->
                        Promise(run.job, "buried")
                   [] ~exposed /\ run.op = "delete" /\ ~w.use -> Promise(run.job, "deleted")
                   [] OTHER -> acked
      /\ gone' = IF w.use /\ ~exposed /\ run.op = "delete" THEN gone \cup {run.job} ELSE gone
      /\ Answer("ok")

\* Mutant: nobody looks at the result of WalWrite.
Failed_Ignored(S) == Finish

\* WalWrite returned false: BuryJob without update, or an error.
Failed(S) ==
  LET j == run.job
  IN  /\ jobs' = CASE run.op = "delete" -> Without(j)
                   [] run.op = "bury" -> jobs
                   [] OTHER -> Place(j, "buried", jobs[j].where \cup {"buried"})
      /\ Answer(IF run.op \in {"delete", "bury"} THEN "INTERNAL_ERROR" ELSE "BURIED")
      /\ Expose(S)

\* The job that moveOne has taken out of its file and not written yet is in no file: should
\* the process die, or the write fail and the process die later, it is lost.
InHand == {run.moving} \ {0}

\* WalWrite turns to the next file when nothing is reserved of the current one, and enters a
\* job that is in no file in the list of the file before it writes.
ToWrite == IF w.resv[w.cur] > 0 THEN w ELSE useNext(w)
Entered(v) == IF FileOf(v, Subject) = 0 THEN FileAddJob(v, v.cur, Subject) ELSE v

\* WalWrite's failure: the current file is closed and the log is out of use.  moveOne does
\* not look at the result.
LogOff(u) ==
  LET v == fileWClose(u, u.cur)
  IN  /\ SetWal([v EXCEPT !.use = FALSE])
      /\ IF run.moving = 0 THEN Failed(Lost(v))
         ELSE /\ pc' = "compact" /\ run' = [run EXCEPT !.moving = 0]
              /\ Expose(Lost(v) \cup InHand)
              /\ UNCHANGED <<jobs, answer>>

fileWrite(v, j, n) ==
  [v EXCEPT !.total = @ - n, !.resv[v.cur] = @ - n, !.used[j] = @ + n, !.alive = @ + n]

\* WalMain after a write: walCompact starts with the ratio there is now.
Compacting(v) ==
  /\ pc' = "compact"
  /\ run' = IF run.moving = 0 THEN [run EXCEPT !.left = MoveRounds(v)]
                              ELSE [run EXCEPT !.moving = 0]
  /\ UNCHANGED <<jobs, answer>>

\* WalWrite without a log.  moveOne takes jobs out of the files even so.
WriteNothing ==
  /\ pc = "write" /\ ~w.use
  /\ Compacting(w) /\ Expose(InHand)
  /\ UNCHANGED <<w, dir, nextId, rd, faults, cmds>>

\* WalWrite: a short record, or the head of a full one.
WalWrite ==
  /\ pc = "write" /\ w.use
  /\ LET j == Subject
         v == ToWrite
         full == FileOf(v, j) = 0
         a == fileWrite(Entered(v), j, Short)
         b == IF ~full /\ jobs[j].st = "invalid" THEN FileRmJob(a, j) ELSE a
         r == Rec(j, jobs[j].st, IF full THEN jobs[j].kind ELSE "short", ~full)
         release == run.op = "release" /\ run.moving = 0
     IN  IF v.ok
         THEN /\ w' = Settled(IF release THEN [b EXCEPT !.spent = @ + 1] ELSE b)
              /\ dir' = [f \in DOMAIN DirOf(b) |-> AddRec(DirOf(v), v.cur, r)[f]]
              /\ IF full THEN pc' = "body" /\ UNCHANGED <<jobs, run, answer>>
                         ELSE Compacting(b)
              /\ Expose(Lost(v))
         ELSE LogOff(w)
  /\ UNCHANGED <<nextId, rd, faults, cmds>>

\* The rest of fileWrJobFull.
WriteBody ==
  /\ pc = "body"
  /\ LET v == fileWrite(w, Subject, Extra[jobs[Subject].kind])
     IN  w' = Settled(v) /\ dir' = SetBody(dir, w.cur) /\ Compacting(v)
  /\ UNCHANGED <<nextId, rd, acked, gone, faults, cmds>>

\* A write to the file fails: the first one of a record, or that of a body.
WriteError ==
  /\ pc \in {"write", "body"} /\ w.use /\ faults < MaxFaults
  /\ LET v == IF pc = "write" THEN Entered(ToWrite) ELSE w
     IN  v.ok /\ LogOff(v)
  /\ faults' = faults + 1
  /\ UNCHANGED <<nextId, rd, cmds>>

\* moveOne, up to WalWrite, while there is a head file.
moveHead(room) ==
  /\ LET near == w.cur \in ToSet(w.files) /\ PosOf(w, w.cur) <= 2
         stay == near \/ w.list[HeadFile(w)] = <<>>
         j == w.list[HeadFile(w)][1]
         v == reserve([w EXCEPT !.room = room], walResvMigrate(jobs[j].kind))
     IN  IF stay
         THEN run' = [run EXCEPT !.left = 0] /\ UNCHANGED <<w, dir, pc, faults>>
         ELSE /\ SetWal(IF v.ok THEN FileRmJob(v, j) ELSE v) /\ Charge(v)
              /\ IF v.stuck THEN Hangs
                 ELSE /\ run' = [run EXCEPT !.left = @ - 1, !.moving = IF v.ok THEN j ELSE 0,
                                            !.need = walResvMigrate(jobs[j].kind)]
                      /\ pc' = IF v.ok THEN "write" ELSE pc
  /\ UNCHANGED <<jobs, nextId, rd, answer, acked, gone, cmds>>

\* w.Head is nil once the log is out of use and its last file is gone.
moveNone == Died /\ Expose(Unlogged) /\ UNCHANGED <<dir, answer, faults, cmds>>

\* A round of walCompact, which goes on after a write has failed.
moveOne(room) ==
  /\ pc = "compact" /\ run.left > 0
  /\ IF w.files = <<>> THEN moveNone ELSE moveHead(room)

WalMainDone ==
  /\ pc = "compact" /\ run.left = 0
  /\ Finish
  /\ UNCHANGED <<w, dir, nextId, rd, faults, cmds>>

-----------------------------------------------------------------------------
(* Crash and recovery. *)

\* What the server may ask space for in this step, but for the file that WalInit makes.
Asked ==
  CASE pc = "idle" /\ cmds < MaxCmds ->
         {WalResvPut(kind) : kind \in {k \in Kinds : nextId \in Ids}} \cup
         {WalResvUpdate : j \in {k \in DOMAIN jobs : jobs[k].where = {"reserved"}}}
    [] pc = "compact" /\ run.left > 0 -> {walResvMigrate(kind) : kind \in Kinds}
    [] pc = "replay" /\ rd.list # <<>> -> {WalResvUpdate}
    [] OTHER -> {}

\* A reservation or WalInit is about to make a file.
MakesFile ==
  /\ w.next \in Files
  /\ \/ pc = "read" /\ w.reading = 0 /\ \A f \in DOMAIN dir : f <= rd.last
     \/ \E n \in Asked : reserve([w EXCEPT !.room = 1], n).next > w.next

\* The process dies.
Crash ==
  /\ pc # "down" /\ faults < MaxFaults
  /\ Died /\ faults' = faults + 1 /\ Expose(InHand \cup Unlogged)
  /\ UNCHANGED <<dir, answer, cmds>>

\* It dies in fileWOpen: the new file is there, without its version.
CrashInOpen ==
  /\ pc # "down" /\ faults + OpenCost <= MaxFaults /\ MakesFile
  /\ dir' = [f \in DOMAIN dir \cup {w.next} |->
               IF f = w.next THEN [ver |-> 0, recs |-> <<>>] ELSE dir[f]]
  /\ Died /\ faults' = faults + OpenCost /\ Expose(InHand \cup Unlogged)
  /\ UNCHANGED <<answer, cmds>>

\* walScanDir
Start ==
  /\ pc = "down"
  /\ pc' = "read" /\ w' = EmptyWal(Max(DOMAIN dir \cup {0}) + 1)
  /\ UNCHANGED <<dir, jobs, nextId, run, rd, answer, acked, gone, faults, cmds>>

\* Mutant: a file that cannot be used is opened again.
OpenFile_Again ==
  /\ pc = "read" /\ w.reading = 0
  /\ \E f \in DOMAIN dir :
       /\ f > rd.last
       /\ w' = [w EXCEPT !.reading = f]
       /\ rd' = [rd EXCEPT !.pos = 1]
  /\ UNCHANGED <<dir, jobs, nextId, pc, run, answer, acked, gone, faults, cmds>>

\* walRead opens the next file; a version that is not known is left in the list.
OpenFile ==
  /\ pc = "read" /\ w.reading = 0
  /\ \E f \in DOMAIN dir :
       /\ f > rd.last /\ \A g \in DOMAIN dir : g > rd.last => f <= g
       /\ w' = [fileAdd(w, f) EXCEPT !.reading =
                  IF dir[f].ver \in {WalVer, WalVer5} THEN f ELSE 0]
       /\ rd' = [rd EXCEPT !.last = f, !.pos = 1]
  /\ UNCHANGED <<dir, jobs, nextId, pc, run, answer, acked, gone, faults, cmds>>

Replaying(file) == dir[file].recs[rd.pos]

RecoveredState(st) == IF st = "reserved" THEN "ready" ELSE st

\* j.R = jr, JobListInsert, and the place of the job in the file.
Recover(r) ==
  LET j  == r.id
      f  == w.reading
      v  == IF IsFull(r) THEN FileAddJob(FileRmJob(w, j), f, j) ELSE w
  IN  /\ SetWal([v EXCEPT !.used[j] = @ + RecSize(r), !.alive = @ + RecSize(r)])
      /\ jobs' = [k \in DOMAIN jobs \cup {j} |->
                    IF k # j THEN jobs[k]
                    ELSE [st |-> RecoveredState(r.st), where |-> {},
                          kind |-> IF IsFull(r) THEN r.kind ELSE jobs[j].kind,
                          good |-> IF IsFull(r) THEN r.body ELSE jobs[j].good]]
      /\ nextId' = IF j \notin DOMAIN jobs /\ j >= nextId THEN j + 1 ELSE nextId
      /\ rd' = [rd EXCEPT !.pos = @ + 1,
                          !.list = IF j \in ToSet(@) THEN @ ELSE Append(@, j)]
      /\ pc' = pc /\ run' = run

Discard(j) ==
  /\ SetWal(FileRmJob(w, j))
  /\ jobs' = Without(j)
  /\ rd' = [rd EXCEPT !.pos = @ + 1, !.list = DropJob(@, j)]
  /\ UNCHANGED <<nextId, pc, run>>

SkipTo(p) == rd' = [rd EXCEPT !.pos = p] /\ UNCHANGED <<w, dir, jobs, nextId, pc, run>>

\* Mutant: a short record of a job that is not known is taken for an error.
ReadRec_Stops ==
  /\ pc = "read" /\ w.reading # 0 /\ dir[w.reading].ver = WalVer
  /\ rd.pos <= Len(dir[w.reading].recs)
  /\ LET r == Replaying(w.reading)
         known == r.id \in DOMAIN jobs
     IN  CASE ~known /\ ~IsFull(r) -> SkipTo(Len(dir[w.reading].recs) + 1)
           [] r.st = "invalid" -> IF known THEN Discard(r.id) ELSE SkipTo(rd.pos + 1)
           [] OTHER -> Recover(r)
  /\ UNCHANGED <<answer, acked, gone, faults, cmds>>

\* ReadRec.  An error ends the file.  A tube that is not there is a nil dereference.
ReadRec ==
  /\ pc = "read" /\ w.reading # 0 /\ dir[w.reading].ver = WalVer
  /\ rd.pos <= Len(dir[w.reading].recs)
  /\ LET r == Replaying(w.reading)
         known == r.id \in DOMAIN jobs
     IN  CASE ~known /\ ~IsFull(r) -> SkipTo(rd.pos + 1)
           [] r.st = "invalid" -> IF known THEN Discard(r.id) ELSE SkipTo(rd.pos + 1)
           [] ~known /\ r.kind \in TooBig -> SkipTo(Len(dir[w.reading].recs) + 1)
           [] ~known /\ r.kind \in Foreign -> Died /\ dir' = dir
           [] OTHER -> Recover(r)
  /\ UNCHANGED <<answer, acked, gone, faults, cmds>>

\* ReadRec5 cannot read a name into a string: the first full record is an error.
ReadRec5 ==
  /\ pc = "read" /\ w.reading # 0 /\ dir[w.reading].ver = WalVer5
  /\ rd.pos <= Len(dir[w.reading].recs)
  /\ SkipTo(Len(dir[w.reading].recs) + 1)
  /\ UNCHANGED <<answer, acked, gone, faults, cmds>>

\* The end of FileRead.
FileReadDone ==
  /\ pc = "read" /\ w.reading # 0
  /\ rd.pos > Len(dir[w.reading].recs)
  /\ SetWal(fileDecRef([w EXCEPT !.reading = 0], w.reading))
  /\ UNCHANGED <<jobs, nextId, pc, run, rd, answer, acked, gone, faults, cmds>>

\* The end of WalInit; it panics when there is no room for a file.
WalInit(room) ==
  /\ pc = "read" /\ w.reading = 0 /\ \A f \in DOMAIN dir : f <= rd.last
  /\ LET v == makeNextFile([w EXCEPT !.room = room])
     IN  IF v.ok THEN /\ SetWal([v EXCEPT !.cur = TailFile(v)]) /\ pc' = "replay"
                      /\ UNCHANGED <<jobs, nextId, run, rd, faults>>
                 ELSE Died /\ dir' = dir /\ Charge(v)
  /\ UNCHANGED <<answer, acked, gone, cmds>>

\* protReplay, a job at a time: it reserves space for the delete of each, or panics.  A
\* delay that is over by now makes the job ready.
protReplay(room) ==
  /\ pc = "replay" /\ rd.list # <<>>
  /\ LET j == Head(rd.list)
         v == reserve([w EXCEPT !.room = room], WalResvUpdate)
     IN  IF v.stuck THEN SetWal(v) /\ Charge(v) /\ Hangs /\ UNCHANGED <<nextId, rd>>
         ELSE IF v.ok
         THEN /\ SetWal(v)
              /\ Charge(v)
              /\ \E st \in IF jobs[j].st = "delayed" THEN {"delayed", "ready"} ELSE {jobs[j].st} :
                   jobs' = Place(j, st, {st})
              /\ rd' = [rd EXCEPT !.list = Tail(@)]
              /\ UNCHANGED <<nextId, pc, run>>
         ELSE Died /\ dir' = DirOf(v) /\ Charge(v)
  /\ UNCHANGED <<answer, acked, gone, cmds>>

Serve ==
  /\ pc = "replay" /\ rd.list = <<>>
  /\ pc' = "idle" /\ rd' = NoRead
  /\ UNCHANGED <<w, dir, jobs, nextId, run, answer, acked, gone, faults, cmds>>

-----------------------------------------------------------------------------
WalStart ==
  /\ w = EmptyWal(1) /\ jobs = <<>> /\ nextId = 1 /\ pc = "down"
  /\ run = NoRun /\ rd = NoRead /\ answer = "ok" /\ gone = {} /\ faults = 0
  /\ acked = <<>>
  /\ \/ dir = <<>> /\ cmds = 0
     \/ \E ver \in Legacy, kind \in Kinds :
          /\ dir = [f \in {1} |-> [ver |-> ver, recs |-> <<Rec(1, "ready", kind, TRUE)>>]]
          /\ cmds = Max({0, MaxCmds - 2})

Commands ==
  \/ \E kind \in Kinds, delayed \in BOOLEAN, room \in Rooms : Put(kind, delayed, room)
  \/ \E j \in DOMAIN jobs :
       \/ Reserve(j) \/ Requeue(j) \/ Delete(j) \/ Release(j)
       \/ \E room \in Rooms : Bury(j, room) \/ ReleaseDelayed(j, room)

Work == WriteNothing \/ WalWrite \/ WriteBody \/ WalMainDone
        \/ \E room \in Rooms : moveOne(room)

Recovery == Start \/ OpenFile \/ ReadRec \/ ReadRec5 \/ FileReadDone
            \/ Serve \/ \E room \in Rooms : WalInit(room) \/ protReplay(room)

WalNext == Commands \/ Work \/ WriteError \/ Recovery \/ Crash \/ CrashInOpen

WalSpec == WalStart /\ [][WalNext]_walVars

\* A server that is down is started, and goes on with its recovery.
WalFair == WalSpec /\ WF_walVars(Recovery)

-----------------------------------------------------------------------------
(* Properties. *)

\* Types of the variables.
WalTypeOK ==
  /\ w.next \in 1..MaxFiles + 1 /\ ToSet(w.files) \subseteq Files
  /\ pc \notin {"down", "read"} /\ w.use => w.cur \in w.open
  /\ DOMAIN dir \subseteq Files /\ DOMAIN jobs \subseteq Ids
  /\ nextId \in 1..MaxJobs + 1
  /\ pc \in {"down", "read", "replay", "idle", "write", "body", "compact", "hung"}
  /\ DOMAIN acked \subseteq Ids /\ gone \subseteq Ids /\ faults \in 0..MaxFaults /\ cmds \in 0..MaxCmds

\* When the server serves, each job that a client was told is INSERTED, and did not delete
\* since, is there with its body, and is buried if BURIED was the last word on it.  What was
\* answered with the log in use holds over rotation, compaction, a full disk, crashes and
\* restarts, but for the job that moveOne has in its hands when the process dies or the write
\* fails (InHand), and for jobs whose records are cut off an overdrawn file (Lost).  After a
\* failed write the server goes on without the log and answers as before: what it says then of a
\* job, that it is there and no more, holds until the process ends (Unlogged).  A put that is
\* answered BURIED, because its own record could not be written, promises nothing.
Durable ==
  pc = "idle" =>
    \A j \in DOMAIN acked :
      Relied(j) \/ acked[j] = "unlogged" =>
        /\ j \in DOMAIN jobs /\ jobs[j].good /\ jobs[j].st # "invalid"
        /\ acked[j] = "buried" => jobs[j].st = "buried"

\* A job whose delete was answered DELETED with the log in use does not come back with any
\* restart, whatever older records of it the directory still holds, unless the record of the
\* delete is cut off an overdrawn file (Lost).  One that was deleted with the log off does not
\* come back until the process ends (Unlogged); the next start may find it.
NoGhosts ==
  pc = "idle" =>
    \A j \in DOMAIN jobs : j \notin gone /\ (j \in DOMAIN acked => acked[j] # "deleted")

Serving == pc \notin {"down", "read"} /\ w.use
FutureFiles == {f \in w.open : f > w.cur}

\* No release has written what nobody reserved, and every reservation that failed was taken
\* back from where it was.
InBudget == w.spent = 0 /\ ~w.torn

\* The comment on balance in wal.go: with a reservation of n made, the current file has
\* at least n reserved and n modulo z, each file after it 0 modulo z; until a release writes
\* what nobody reserved, or a reservation is taken back from the wrong file.
Balanced ==
  w.use /\ InBudget =>
    /\ pc = "write" /\ run.need > 0 =>
         /\ w.resv[w.cur] >= run.need
         /\ (w.resv[w.cur] - run.need) % Short = 0
    /\ pc \in {"write", "idle"} => \A f \in FutureFiles : w.resv[f] % Short = 0

\* The space of a file that can be written is what was written, what is reserved and
\* what is free: through rotation, collection, compaction, recovery and reservations that fail
\* half way.  By it a file that is closed with nothing reserved is truncated to its records.
SpaceExact ==
  Serving => \A f \in w.open :
    Header + Bytes(dir[f].recs) + w.resv[f] + w.free[f] = FileSize

\* What is reserved of all files that are open.
ResvSum(v) ==
  LET sum[f \in 0..MaxFiles] ==
        IF f = 0 THEN 0 ELSE sum[f - 1] + (IF f \in v.open THEN v.resv[f] ELSE 0)
  IN  sum[MaxFiles]

\* No file is overdrawn, and Wal.Resv is the sum of what is reserved of each; under the same
\* condition as Balanced.
Solvent ==
  Serving /\ InBudget =>
    /\ \A f \in w.open : w.free[f] >= 0 /\ w.resv[f] >= 0
    /\ w.total = ResvSum(w)

\* The loop in balance, which does not look at the answer of useNext, ends.
Returns == w.use /\ InBudget => pc # "hung"

\* What is reserved is there for the writes that come: in units of a short record but for the
\* write under way, of files that are not overdrawn and add up to Wal.Resv, and found in a loop
\* that ends.
Budget == Balanced /\ Solvent /\ Returns

\* The bytes of the records of j from its last full record on.
LiveBytes(j) ==
  LET f0 == FileOf(w, j)
      Mine(f) == {p \in DOMAIN dir[f].recs : dir[f].recs[p].id = j}
      p0 == Max({p \in Mine(f0) : IsFull(dir[f0].recs[p])})
      Now(f) == IF f = f0 THEN {p \in Mine(f) : p >= p0} ELSE Mine(f)
  IN  MapThenSumSet(LAMBDA f : MapThenSumSet(LAMBDA p : RecSize(dir[f].recs[p]), Now(f)),
                    {f \in DOMAIN dir : f >= f0})

Logged == {j \in DOMAIN jobs : FileOf(w, j) # 0}

\* Wal.Alive, which decides how much is compacted, is what the directory holds of the
\* jobs that are alive: through updates, migrations, deletes and the count that
\* recovery makes anew.
AliveExact ==
  pc = "idle" /\ w.use => w.alive = MapThenSumSet(LiveBytes, Logged)

\* When the server is at rest there is a short record reserved for the delete of each job in
\* the log, and nothing else but what releases lend and borrow: one with a delay reserves
\* what nobody writes, one without writes what nobody reserved.  A reservation that fails
\* half way, over however many files, is taken back whole.
ResvExact ==
  pc = "idle" /\ w.use => w.total = Short * (Cardinality(Logged) + w.spare - w.spent)

\* The books of the log are right: what is written, reserved and free fills each file, and what
\* is reserved is what the deletes to come need, through rotation, compaction, refusals, failed
\* writes, crashes and recovery.
WalInv == WalTypeOK /\ SpaceExact /\ ResvExact

\* Without a fault of the system, and as long as no release without delay has used up the
\* space of a delete, no command fails: what is reserved is where the write looks for it.
NoInternalError == faults = 0 /\ w.spent = 0 => answer = "ok"

\* The directory has no job of a tube other than default: recovery dereferences nil at one.
Readable == \A f \in DOMAIN dir : \A i \in DOMAIN dir[f].recs : dir[f].recs[i].kind \notin Foreign

\* Unless the directory holds a job of a tube other than default, the server comes back after a
\* crash, one in recovery included.  With such a job it does not (file.go:197).
ComesBack == (pc = "down" /\ Readable) ~> pc = "idle"
=============================================================================
