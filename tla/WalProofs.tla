------------------------------ MODULE WalProofs ------------------------------
(***************************************************************************)
(* The books of the binlog, for any sizes of files and records, any number *)
(* of jobs, files and faults.                                              *)
(*                                                                         *)
(* FilesInv says what the files are: the list is in the order of the       *)
(* numbers and is what the directory holds, a job is in one file at most   *)
(* and there once, the files from the current one on are open, empty after *)
(* it, and their space is exact.  LogInv says which jobs are in the log    *)
(* and what is reserved for them at each point of a command, of a          *)
(* compaction and of recovery.                                             *)
(*                                                                         *)
(* The operators of Wal are taken one by one, each by what the next needs: *)
(* Grows for the calls that look for space (two loops among them, handled  *)
(* by LoopStays), Collected for walGc, DirStep for what becomes of the     *)
(* directory.  Then there is one operator XxxFacts for each action that    *)
(* changes the directory, which says what the step does, and one lemma for *)
(* each action and invariant.                                              *)
(***************************************************************************)
EXTENDS Wal, SequenceTheorems, FiniteSetTheorems, WellFoundedInduction, TLAPS

\* The type of model.Wal with its files.
WalRec ==
  [files : Seq(Files), cur : 0..MaxFiles, next : 1..(MaxFiles + 1), use : BOOLEAN,
   ok : BOOLEAN, stuck : BOOLEAN, open : SUBSET Files, reading : 0..MaxFiles,
   free : [Files -> Int], resv : [Files -> Int], total : Int, alive : Int,
   list : [Files -> Seq(Ids)], used : [Ids -> Int], room : Nat, spent : Nat, spare : Nat,
   torn : BOOLEAN]

Listed(v, f) == \E i \in DOMAIN v.files : v.files[i] = f

\* The files of the list are in the order of their numbers, and only they have jobs.
Chain(v) ==
  /\ v \in WalRec
  /\ \A i, k \in DOMAIN v.files : i < k => v.files[i] < v.files[k]
  /\ \A i \in DOMAIN v.files : v.files[i] < v.next
  /\ \A f \in Files : v.list[f] # <<>> => Listed(v, f)
  /\ v.next + v.room <= MaxFiles + 1

\* Files from the current one on are open, and the ones behind it have no jobs yet.
Writing(v) ==
  /\ Chain(v) /\ v.reading = 0 /\ v.cur \in Files /\ Listed(v, v.cur)
  /\ \A f \in Files : f \in v.open <=> Listed(v, f) /\ f >= v.cur
  /\ \A f \in Files : f > v.cur => v.list[f] = <<>>

\* What the calls that only look for space do to the files.
Grows(v, u) ==
  /\ u.list = v.list /\ u.used = v.used /\ u.alive = v.alive /\ u.use = v.use
  /\ u.spent = v.spent /\ u.spare = v.spare
  /\ u.next >= v.next /\ u.next + u.room = v.next + v.room /\ u.cur >= v.cur
  /\ \A f \in Files : Listed(u, f) => Listed(v, f) \/ f >= v.next
  /\ \A f \in Files : Listed(v, f) /\ ~Listed(u, f) => v.list[f] = <<>>
  /\ \A f, g \in Files : Listed(v, f) /\ ~Listed(u, f) /\ Listed(u, g) => f < g
  /\ \A f \in Files : f \in u.open /\ f \in v.open =>
       u.free[f] + u.resv[f] = v.free[f] + v.resv[f]
  /\ \A f \in Files : f \in u.open /\ f \notin v.open =>
       f >= v.next /\ u.free[f] + u.resv[f] = FileSize - Header
  /\ \A f \in Files : f \notin u.open /\ f \in v.open => u.free[f] = v.free[f] + v.resv[f]
  /\ \A f \in Files : f \notin v.open /\ f < v.next => u.free[f] = v.free[f]

-----------------------------------------------------------------------------
(* The invariant. *)

States == {"ready", "reserved", "delayed", "buried", "invalid"}
Recs   == [id : Ids, st : States, kind : Kinds \cup {"short"}, body : BOOLEAN]
DirRec == [ver : Nat, recs : Seq(Recs)]
JobRec == [st : States, kind : Kinds, good : BOOLEAN, where : SUBSET States]
RunRec == [op : {"none", "put", "delete", "bury", "release"}, job : 0..MaxJobs,
           need : Int, left : Nat, moving : 0..MaxJobs]
CursorRec == [last : 0..MaxFiles, pos : Nat, list : Seq(Ids)]

InList(v, j) == \E f \in Files : Holds(v, f, j)
Running == pc \notin {"down", "read"}

\* A job is in the list of one file at most, and there once.
Once(v) ==
  \A f, g \in Files : \A i \in DOMAIN v.list[f], k \in DOMAIN v.list[g] :
    v.list[f][i] = v.list[g][k] => f = g /\ i = k

\* What holds of the files x and the directory d all the time.
Disk(x, d) ==
  /\ Chain(x) /\ Once(x) /\ x.ok /\ ~x.stuck /\ x.room = 0
  /\ DOMAIN d \subseteq Files /\ d \in [DOMAIN d -> DirRec]

\* The space of the files that are open: SpaceExact.
Exact(x, d) ==
  \A f \in x.open : Header + Bytes(d[f].recs) + x.resv[f] + x.free[f] = FileSize

\* The list of files is the directory, and the log can be written while it is in use.
Log(x, d) ==
  /\ x.reading = 0 /\ \A f \in Files : Listed(x, f) <=> f \in DOMAIN d
  /\ \A f \in x.open : Listed(x, f)
  /\ x.use => Writing(x) /\ Exact(x, d)

JobTypes ==
  /\ DOMAIN jobs \subseteq Ids /\ jobs \in [DOMAIN jobs -> JobRec]
  /\ nextId \in 1..(MaxJobs + 1) /\ \A j \in DOMAIN jobs : j < nextId
  /\ \A j \in Ids : InList(w, j) => j < nextId
  /\ pc \in {"down", "read", "replay", "idle", "write", "body", "compact", "hung"}
  /\ run \in RunRec
  /\ rd \in CursorRec

\* What clients were told.
Told == {"live", "buried", "unlogged", "deleted", "exposed"}

ClientTypes ==
  /\ DOMAIN acked \subseteq Ids /\ acked \in [DOMAIN acked -> Told]
  /\ gone \subseteq Ids /\ faults \in 0..MaxFaults /\ cmds \in 0..MaxCmds

\* A server that is down knows nothing.
DownInv ==
  pc = "down" => /\ w = EmptyWal(1) /\ jobs = <<>> /\ nextId = 1 /\ run = NoRun /\ rd = NoRead

\* Recovery has the files in the list that it has opened, and the jobs in the order it met them.
ReadInv ==
  pc = "read" =>
    /\ w.use /\ w.open = {} /\ w.cur = 0 /\ w.reading \in {0, rd.last} /\ run = NoRun
    /\ \A f \in Files : Listed(w, f) => f \in DOMAIN dir
    /\ \A f \in Files : f \in DOMAIN dir /\ f <= rd.last => Listed(w, f)
    /\ \A f \in Files : Listed(w, f) => f <= rd.last
    /\ \A f \in DOMAIN dir : f < w.next
    /\ w.reading # 0 => w.reading \in DOMAIN dir /\ rd.pos >= 1
    /\ \A j \in Ids : j \in DOMAIN jobs <=> \E i \in DOMAIN rd.list : rd.list[i] = j
    /\ \A i, k \in DOMAIN rd.list : rd.list[i] = rd.list[k] => i = k

\* What the server works on.
RunInv ==
  Running =>
    /\ pc = "replay" => w.use
    /\ pc \in {"replay", "idle"} => run = NoRun
    /\ pc \in {"write", "body", "compact"} => run.job \in DOMAIN jobs /\ run.op # "none"
    /\ pc \in {"write", "body"} => Subject \in DOMAIN jobs
    /\ pc = "compact" => run.moving = 0
    /\ pc = "body" => w.use

\* Jobs of the files are jobs of the server.
JobsInv ==
  w.use \/ run.left > 0 => \A j \in Ids : InList(w, j) => j \in DOMAIN jobs

\* A record whose body is not written yet is the last one of the current file.
BodyInv ==
  pc = "body" =>
    LET recs == dir[w.cur].recs
    IN  /\ recs # <<>> /\ IsFull(recs[Len(recs)]) /\ ~recs[Len(recs)].body
        /\ recs[Len(recs)].id = Subject /\ recs[Len(recs)].kind = jobs[Subject].kind

FilesInv ==
  /\ Disk(w, dir) /\ JobTypes /\ ClientTypes
  /\ DownInv /\ ReadInv /\ (Running => Log(w, dir)) /\ RunInv /\ JobsInv /\ BodyInv

-----------------------------------------------------------------------------
\* A set of numbers that is not empty has a least one.
LEMMA LeastNumber ==
  ASSUME NEW S \in SUBSET Nat, S # {}
  PROVE  \E n \in S : \A m \in S : n <= m
<1>1. PICK n \in S : \A m \in S : <<m, n>> \notin OpToRel(<, Nat)
  BY NatLessThanWellFounded, WFMin
<1>2. \A m \in S : ~(m < n)
  BY <1>1 DEF OpToRel
<1>3. \A m \in S : n \in Nat /\ m \in Nat
  OBVIOUS
<1> QED BY <1>2, <1>3

\* The constants and the numbers of files are naturals.
LEMMA Numbers ==
  /\ MaxFiles \in Nat /\ MaxFiles >= 1 /\ MaxJobs \in Nat /\ MaxFaults \in Nat
  /\ MaxCmds \in Nat /\ MaxRoom \in Nat /\ Short \in Nat /\ Short > 0 /\ FileSize \in Nat
  /\ Header = 1 /\ \A f \in Files : f \in Nat /\ f >= 1 /\ f <= MaxFiles
BY SizesAssumption DEF Files, Header

\* The types of the fields of the log.
LEMMA WalFields ==
  ASSUME NEW v \in WalRec
  PROVE  /\ v.files \in Seq(Files) /\ v.cur \in Nat /\ v.next \in Nat /\ v.next >= 1
         /\ v.use \in BOOLEAN /\ v.ok \in BOOLEAN /\ v.stuck \in BOOLEAN
         /\ v.open \subseteq Files /\ v.reading \in Nat
         /\ v.free \in [Files -> Int] /\ v.resv \in [Files -> Int]
         /\ v.total \in Int /\ v.alive \in Int
         /\ v.list \in [Files -> Seq(Ids)] /\ v.used \in [Ids -> Int]
         /\ v.room \in Nat /\ v.spent \in Nat /\ v.spare \in Nat /\ v.torn \in BOOLEAN
<1>1. /\ v.files \in Seq(Files) /\ v.cur \in 0..MaxFiles /\ v.next \in 1..(MaxFiles + 1)
      /\ v.use \in BOOLEAN /\ v.ok \in BOOLEAN /\ v.stuck \in BOOLEAN
      /\ v.open \in SUBSET Files /\ v.reading \in 0..MaxFiles
      /\ v.free \in [Files -> Int] /\ v.resv \in [Files -> Int]
  BY DEF WalRec
<1>2. /\ v.total \in Int /\ v.alive \in Int
      /\ v.list \in [Files -> Seq(Ids)] /\ v.used \in [Ids -> Int]
      /\ v.room \in Nat /\ v.spent \in Nat /\ v.spare \in Nat /\ v.torn \in BOOLEAN
  BY DEF WalRec
<1>3. v.cur \in Nat /\ v.next \in Nat /\ v.next >= 1 /\ v.reading \in Nat
  BY <1>1, Numbers
<1>4. v.open \subseteq Files
  BY <1>1
<1> QED BY <1>1, <1>2, <1>3, <1>4

\* The types of what is kept for each file.
LEMMA FileFields ==
  ASSUME NEW v \in WalRec, NEW f \in Files
  PROVE  /\ v.free[f] \in Int /\ v.resv[f] \in Int /\ v.list[f] \in Seq(Ids)
         /\ f \in Nat /\ f >= 1 /\ f <= MaxFiles
<1>1. v.free \in [Files -> Int] /\ v.resv \in [Files -> Int] /\ v.list \in [Files -> Seq(Ids)]
  BY WalFields
<1> QED BY <1>1, Numbers

\* Two calls that look for space are as one.
LEMMA GrowsTransitive ==
  ASSUME NEW v, NEW u, NEW x, Writing(v), Writing(u), Writing(x), Grows(v, u), Grows(u, x)
  PROVE  Grows(v, x)
<1>1. /\ x.list = v.list /\ x.used = v.used /\ x.alive = v.alive /\ x.use = v.use
      /\ x.spent = v.spent /\ x.spare = v.spare
  BY DEF Grows
<1>0. v \in WalRec /\ u \in WalRec /\ x \in WalRec
  BY DEF Writing, Chain
<1>2. v.next \in Nat /\ u.next \in Nat /\ x.next \in Nat /\ Files \subseteq Nat
      /\ v.cur \in Nat /\ u.cur \in Nat /\ x.cur \in Nat
      /\ v.room \in Nat /\ u.room \in Nat /\ x.room \in Nat
  BY <1>0, Numbers, WalFields
<1>3. x.next >= v.next /\ x.next + x.room = v.next + v.room /\ x.cur >= v.cur
  <2>1. /\ u.next >= v.next /\ u.next + u.room = v.next + v.room /\ u.cur >= v.cur
        /\ x.next >= u.next /\ x.next + x.room = u.next + u.room /\ x.cur >= u.cur
    BY DEF Grows
  <2> QED BY <1>2, <2>1
<1>4. ASSUME NEW f \in Files
      PROVE  /\ v.free[f] \in Int /\ u.free[f] \in Int /\ x.free[f] \in Int
             /\ v.resv[f] \in Int /\ u.resv[f] \in Int /\ x.resv[f] \in Int
             /\ f \in Nat /\ FileSize - Header \in Int
  <2>1. v.free[f] \in Int /\ v.resv[f] \in Int /\ f \in Nat
    BY <1>0, FileFields
  <2>2. u.free[f] \in Int /\ u.resv[f] \in Int
    BY <1>0, FileFields
  <2>3. x.free[f] \in Int /\ x.resv[f] \in Int
    BY <1>0, FileFields
  <2>4. FileSize - Header \in Int
    BY Numbers
  <2> QED BY <2>1, <2>2, <2>3, <2>4
<1>5. \A f \in Files : Listed(x, f) => Listed(v, f) \/ f >= v.next
  BY <1>2, <1>4 DEF Grows
<1>6. \A f \in Files : Listed(v, f) /\ ~Listed(x, f) => v.list[f] = <<>>
  BY DEF Grows
<1>7. ASSUME NEW v1, Writing(v1), NEW f \in Files, Listed(v1, f) PROVE f < v1.next
  BY <1>7, Numbers, WalFields DEF Writing, Chain, Listed
<1>8. \A f, g \in Files : Listed(v, f) /\ ~Listed(x, f) /\ Listed(x, g) => f < g
  BY <1>2, <1>4, <1>7 DEF Grows
<1>9. ASSUME NEW f \in Files
      PROVE  /\ f \in v.open => Listed(v, f) /\ f < v.next
             /\ f \in u.open => Listed(u, f) /\ f < u.next
             /\ f \in x.open => Listed(x, f) /\ f < x.next
             /\ f < v.next => f < u.next
             /\ f >= u.next => f >= v.next
  <2>1. /\ f \in v.open => Listed(v, f)
        /\ f \in u.open => Listed(u, f)
        /\ f \in x.open => Listed(x, f)
    BY DEF Writing
  <2>2. u.next >= v.next
    BY DEF Grows
  <2> QED BY <1>2, <1>4, <1>7, <2>1, <2>2
<1>10. \A f \in Files : f \in x.open /\ f \in v.open => f \in u.open
  BY <1>2, <1>4, <1>9 DEF Grows
<1>11. \A f \in Files : f \in x.open /\ f \in v.open =>
         x.free[f] + x.resv[f] = v.free[f] + v.resv[f]
  BY <1>10, <1>4 DEF Grows
<1>12. ASSUME NEW f \in Files, f \in x.open, f \notin v.open
       PROVE  f >= v.next /\ x.free[f] + x.resv[f] = FileSize - Header
  <2>1. CASE f \in u.open
    BY <2>1, <1>12, <1>4 DEF Grows
  <2>2. CASE f \notin u.open
    <3>1. f >= u.next /\ x.free[f] + x.resv[f] = FileSize - Header
      BY <2>2, <1>12 DEF Grows
    <3> QED BY <3>1, <1>9
  <2> QED BY <2>1, <2>2
<1>13. ASSUME NEW f \in Files, f \notin x.open, f \in v.open
       PROVE  x.free[f] = v.free[f] + v.resv[f]
  <2>1. CASE f \in u.open
    BY <2>1, <1>13, <1>4 DEF Grows
  <2>2. CASE f \notin u.open
    <3>1. u.free[f] = v.free[f] + v.resv[f]
      BY <1>13, <2>2 DEF Grows
    <3>2. x.free[f] = u.free[f]
      BY <1>9, <1>13, <2>2 DEF Grows
    <3> QED BY <3>1, <3>2
  <2> QED BY <2>1, <2>2
<1>14. ASSUME NEW f \in Files, f \notin v.open, f < v.next PROVE x.free[f] = v.free[f]
  <2>1. f \notin u.open
    BY <1>2, <1>4, <1>14 DEF Grows
  <2>2. u.free[f] = v.free[f]
    BY <1>14 DEF Grows
  <2>3. x.free[f] = u.free[f]
    BY <1>9, <1>14, <2>1 DEF Grows
  <2> QED BY <2>2, <2>3
<1> QED BY <1>1, <1>3, <1>5, <1>6, <1>8, <1>11, <1>12, <1>13, <1>14 DEF Grows
-----------------------------------------------------------------------------
(* The calls that look for space. *)

\* The file after the current one is the next in the list.
LEMMA NextFields ==
  ASSUME NEW v \in WalRec, v.room # 0, v.next \in Files, NEW u, u = makeNextFile(v)
  PROVE  /\ u \in WalRec
         /\ u.files = Append(v.files, v.next) /\ u.next = v.next + 1 /\ u.room = v.room - 1
         /\ u.ok /\ u.stuck = v.stuck /\ u.cur = v.cur /\ u.reading = v.reading
         /\ u.open = v.open \cup {v.next}
         /\ u.free = [v.free EXCEPT ![v.next] = FileSize - Header]
         /\ u.resv = [v.resv EXCEPT ![v.next] = 0]
         /\ u.list = v.list /\ u.used = v.used /\ u.alive = v.alive /\ u.use = v.use
         /\ u.total = v.total /\ u.spent = v.spent /\ u.spare = v.spare /\ u.torn = v.torn
<1>1. u = [v EXCEPT !.ok = TRUE, !.room = @ - 1, !.next = @ + 1,
                    !.open = @ \cup {v.next},
                    !.free = [v.free EXCEPT ![v.next] = FileSize - Header],
                    !.resv = [v.resv EXCEPT ![v.next] = 0],
                    !.files = Append(@, v.next)]
  BY DEF makeNextFile, fileAdd, WalRec
<1>2. /\ u.files = Append(v.files, v.next) /\ u.next = v.next + 1 /\ u.room = v.room - 1
      /\ u.ok /\ u.stuck = v.stuck /\ u.cur = v.cur /\ u.reading = v.reading
      /\ u.open = v.open \cup {v.next}
      /\ u.free = [v.free EXCEPT ![v.next] = FileSize - Header]
      /\ u.resv = [v.resv EXCEPT ![v.next] = 0]
  BY <1>1 DEF WalRec
<1>3. /\ u.list = v.list /\ u.used = v.used /\ u.alive = v.alive /\ u.use = v.use
      /\ u.total = v.total /\ u.spent = v.spent /\ u.spare = v.spare /\ u.torn = v.torn
  BY <1>1 DEF WalRec
<1>4. u \in WalRec
  <2>1. /\ Append(v.files, v.next) \in Seq(Files) /\ v.next + 1 \in 1..(MaxFiles + 1)
        /\ v.room - 1 \in Nat /\ v.open \cup {v.next} \in SUBSET Files
        /\ [v.free EXCEPT ![v.next] = FileSize - Header] \in [Files -> Int]
        /\ [v.resv EXCEPT ![v.next] = 0] \in [Files -> Int]
    BY Numbers, WalFields
  <2> QED BY <1>1, <2>1 DEF WalRec
<1> QED BY <1>2, <1>3, <1>4
\* Moving to the next file keeps the list in order.
LEMMA ChainNext ==
  ASSUME NEW v, Chain(v), v.room # 0, NEW u, u = makeNextFile(v)
  PROVE  /\ v.next \in Files /\ Chain(u)
         /\ \A f \in Files : Listed(u, f) <=> Listed(v, f) \/ f = v.next
<1>1. v \in WalRec /\ v.next + v.room <= MaxFiles + 1
  BY DEF Chain
<1>2. v.next \in Nat /\ v.room \in Nat /\ v.next >= 1 /\ v.files \in Seq(Files)
      /\ v.list \in [Files -> Seq(Ids)]
  BY <1>1, WalFields
<1>3. v.next \in Files
  BY <1>1, <1>2, Numbers DEF Files
<1>4. /\ u \in WalRec /\ u.files = Append(v.files, v.next) /\ u.next = v.next + 1
      /\ u.room = v.room - 1 /\ u.list = v.list
  BY <1>1, <1>3, NextFields
<1> DEFINE n == Len(v.files)
<1>5. /\ n \in Nat /\ DOMAIN v.files = 1..n /\ DOMAIN u.files = 1..(n + 1)
      /\ u.files[n + 1] = v.next /\ \A i \in 1..n : u.files[i] = v.files[i] /\ v.files[i] \in Files
  BY <1>2, <1>4
<1> HIDE DEF n
<1>6. \A f \in Files : Listed(u, f) <=> Listed(v, f) \/ f = v.next
  <2>1. n + 1 \in 1..(n + 1) /\ \A i \in 1..(n + 1) : i \in 1..n \/ i = n + 1
    BY <1>5
  <2>2. \A i \in 1..n : i \in 1..(n + 1)
    BY <1>5
  <2> QED BY <1>5, <2>1, <2>2 DEF Listed
<1>7. \A i \in 1..n : v.files[i] < v.next /\ v.files[i] \in Nat
  BY <1>5, Numbers DEF Chain
<1>8. \A i, k \in 1..(n + 1) : i < k => u.files[i] < u.files[k]
  <2> SUFFICES ASSUME NEW i \in 1..(n + 1), NEW k \in 1..(n + 1), i < k
               PROVE  u.files[i] < u.files[k]
    OBVIOUS
  <2>1. i \in 1..n
    BY <1>5
  <2>2. CASE k = n + 1
    BY <1>5, <1>7, <2>1, <2>2
  <2>3. CASE k \in 1..n
    BY <1>5, <2>1, <2>3 DEF Chain
  <2> QED BY <1>5, <2>2, <2>3
<1>9. \A i \in 1..(n + 1) : u.files[i] < u.next
  BY <1>2, <1>4, <1>5, <1>7
<1>10. \A f \in Files : u.list[f] # <<>> => Listed(u, f)
  BY <1>4, <1>6 DEF Chain
<1>11. u.next + u.room <= MaxFiles + 1
  BY <1>1, <1>2, <1>4, Numbers
<1> QED BY <1>3, <1>4, <1>5, <1>6, <1>8, <1>9, <1>10, <1>11 DEF Chain

\* The frame of a call that changes only what the disk still gives.
LEMMA NoRoom ==
  ASSUME NEW v \in WalRec, v.room = 0, NEW u, u = makeNextFile(v)
  PROVE  u = [v EXCEPT !.ok = FALSE]
BY DEF makeNextFile

Resources(v, u) ==
  /\ u.files = v.files /\ u.cur = v.cur /\ u.next = v.next /\ u.use = v.use
  /\ u.open = v.open /\ u.reading = v.reading /\ u.total = v.total /\ u.alive = v.alive
  /\ u.list = v.list /\ u.used = v.used /\ u.room = v.room
  /\ u.spent = v.spent /\ u.spare = v.spare /\ u.torn = v.torn

\* Only reservations and answers differ, and of each file as much is free or reserved.
LEMMA ResourcesGrow ==
  ASSUME NEW v, NEW u \in WalRec, Writing(v), Resources(v, u),
         \A f \in Files : u.free[f] + u.resv[f] = v.free[f] + v.resv[f],
         \A f \in Files : f \notin v.open => u.free[f] = v.free[f]
  PROVE  Writing(u) /\ Grows(v, u)
<1>1. v \in WalRec
  BY DEF Writing, Chain
<1>2. \A f \in Files : Listed(u, f) <=> Listed(v, f)
  BY DEF Listed, Resources
<1>3. u.cur \in Nat /\ u.next \in Nat
  BY <1>1, WalFields DEF Resources
<1>4. Chain(u)
  BY <1>2 DEF Chain, Writing, Resources
<1>5. Writing(u)
  BY <1>2, <1>4 DEF Writing, Resources
<1>6. Grows(v, u)
  BY <1>2, <1>3 DEF Grows, Resources
<1> QED BY <1>5, <1>6

\* makeNextFile adds an empty file at the end of the list.
LEMMA MakeNext ==
  ASSUME NEW v, Writing(v), NEW u, u = makeNextFile(v)
  PROVE  /\ Writing(u) /\ Grows(v, u) /\ u.total = v.total /\ u.cur = v.cur
         /\ u.stuck = v.stuck /\ u.torn = v.torn
         /\ Len(u.files) + u.room = Len(v.files) + v.room
         /\ \A i \in DOMAIN v.files : i \in DOMAIN u.files /\ u.files[i] = v.files[i]
         /\ u.resv[v.cur] = v.resv[v.cur]
<1>1. Chain(v) /\ v \in WalRec
  BY DEF Writing, Chain
<1>2. CASE v.room = 0
  <2>1. u = [v EXCEPT !.ok = FALSE]
    BY <1>1, <1>2, NoRoom
  <2>2. u \in WalRec /\ Resources(v, u) /\ u.free = v.free /\ u.resv = v.resv /\ u.stuck = v.stuck
    BY <1>1, <2>1 DEF WalRec, Resources
  <2>3. Writing(u) /\ Grows(v, u)
    BY <2>2, ResourcesGrow
  <2> QED BY <2>2, <2>3 DEF Resources
<1>3. CASE v.room # 0
  <2>1. /\ v.next \in Files /\ Chain(u)
        /\ \A f \in Files : Listed(u, f) <=> Listed(v, f) \/ f = v.next
    BY <1>1, <1>3, ChainNext
  <2>2. /\ u.files = Append(v.files, v.next) /\ u.next = v.next + 1 /\ u.room = v.room - 1
        /\ u.stuck = v.stuck /\ u.cur = v.cur /\ u.reading = v.reading
        /\ u.open = v.open \cup {v.next}
        /\ u.free = [v.free EXCEPT ![v.next] = FileSize - Header]
        /\ u.resv = [v.resv EXCEPT ![v.next] = 0]
        /\ u.list = v.list /\ u.used = v.used /\ u.alive = v.alive /\ u.use = v.use
        /\ u.total = v.total /\ u.spent = v.spent /\ u.spare = v.spare /\ u.torn = v.torn
    <3>1. v \in WalRec /\ v.next \in Files
      BY <1>1, <2>1
    <3>2. u = makeNextFile(v)
      OBVIOUS
    <3> QED BY <1>3, <3>1, <3>2, NextFields, SMTT(30)
  <2>3. /\ v.files \in Seq(Files) /\ v.next \in Nat /\ v.room \in Nat /\ v.cur \in Nat
        /\ v.free \in [Files -> Int] /\ v.resv \in [Files -> Int]
    BY <1>1, WalFields
  <2>4. \A f \in Files : Listed(v, f) => f < v.next /\ f # v.next
    <3>1. \A f \in Files : Listed(v, f) => f < v.next
      BY DEF Writing, Chain, Listed
    <3> QED BY <2>3, <3>1, Numbers
  <2>5. v.cur < v.next
    BY <2>4 DEF Writing
  <2>6. v.list[v.next] = <<>>
    BY <2>1, <2>4 DEF Writing, Chain
  <2>7. \A f \in Files : f \in u.open <=> Listed(u, f) /\ f >= u.cur
    BY <2>1, <2>2, <2>3, <2>5 DEF Writing
  <2>8. Writing(u)
    BY <2>1, <2>2, <2>7 DEF Writing
  <2>9. \A f \in Files : f # v.next => u.free[f] = v.free[f] /\ u.resv[f] = v.resv[f]
    BY <2>2, <2>3
  <2>10. u.free[v.next] = FileSize - Header /\ u.resv[v.next] = 0
    BY <2>1, <2>2, <2>3
  <2>11. \A f \in Files : f \in v.open => f # v.next
    BY <2>4 DEF Writing
  <2>12. Grows(v, u)
    <3>1. /\ u.next >= v.next /\ u.next + u.room = v.next + v.room /\ u.cur >= v.cur
      <4>1. u.next = v.next + 1 /\ u.room = v.room - 1 /\ u.cur = v.cur
        BY <2>2
      <4>2. v.next \in Nat /\ v.room \in Nat /\ v.cur \in Nat
        BY <2>3
      <4> HIDE <2>3
      <4> QED BY <4>1, <4>2
    <3>2. /\ \A f \in Files : Listed(u, f) => Listed(v, f) \/ f >= v.next
          /\ \A f \in Files : ~(Listed(v, f) /\ ~Listed(u, f))
      BY <2>1, <2>3
    <3>3. \A f \in Files : f \in u.open /\ f \in v.open =>
            u.free[f] + u.resv[f] = v.free[f] + v.resv[f]
      BY <2>9, <2>11
    <3>4. FileSize - Header + 0 = FileSize - Header
      BY Numbers
    <3>5. \A f \in Files : f \in u.open /\ f \notin v.open =>
            f >= v.next /\ u.free[f] + u.resv[f] = FileSize - Header
      BY <2>2, <2>3, <2>10, <3>4
    <3>6. \A f \in Files : f \in v.open => f \in u.open
      BY <2>2
    <3>7. \A f \in Files : f \notin v.open /\ f < v.next => u.free[f] = v.free[f]
      BY <2>3, <2>9
    <3> QED BY <2>2, <3>1, <3>2, <3>3, <3>5, <3>6, <3>7 DEF Grows
  <2>14. u.resv[v.cur] = v.resv[v.cur]
    BY <2>3, <2>5, <2>9 DEF Writing
  <2>13. /\ Len(u.files) + u.room = Len(v.files) + v.room
         /\ \A i \in DOMAIN v.files : i \in DOMAIN u.files /\ u.files[i] = v.files[i]
    <3>1. u.files = Append(v.files, v.next) /\ u.room = v.room - 1
      BY <2>2
    <3> QED BY <2>1, <2>3, <3>1
  <2> QED BY <2>2, <2>8, <2>12, <2>13, <2>14
<1> QED BY <1>2, <1>3
\* The file at the tail can be written.
LEMMA TailIsOpen ==
  ASSUME NEW v, Writing(v)
  PROVE  /\ Len(v.files) \in Nat \ {0} /\ TailFile(v) \in Files /\ TailFile(v) \in v.open
         /\ v.cur \in v.open /\ v.cur <= TailFile(v)
         /\ PosOf(v, v.cur) \in DOMAIN v.files /\ v.files[PosOf(v, v.cur)] = v.cur
<1>1. v \in WalRec /\ v.files \in Seq(Files)
  BY WalFields DEF Writing, Chain
<1>2. PICK i \in DOMAIN v.files : v.files[i] = v.cur
  BY DEF Writing, Listed
<1> DEFINE n == Len(v.files)
<1>3. n \in Nat /\ DOMAIN v.files = 1..n /\ n \in 1..n /\ TailFile(v) = v.files[n]
      /\ v.files[n] \in Files
  BY <1>1, <1>2 DEF TailFile
<1>4. Listed(v, TailFile(v))
  BY <1>3 DEF Listed
<1>5. v.cur \in Nat /\ v.files[n] \in Nat
  BY <1>3, Numbers DEF Writing
<1>6. v.cur <= v.files[n]
  <2>1. CASE i = n
    BY <1>2, <1>5, <2>1
  <2>2. CASE i # n
    <3>1. i < n
      BY <1>2, <1>3, <2>2
    <3>2. v.files[i] < v.files[n]
      BY <1>2, <1>3, <3>1 DEF Writing, Chain
    <3> QED BY <1>2, <1>5, <3>2
  <2> QED BY <2>1, <2>2
<1>7. PosOf(v, v.cur) \in DOMAIN v.files /\ v.files[PosOf(v, v.cur)] = v.cur
  BY <1>2 DEF PosOf
<1>8. TailFile(v) \in v.open /\ v.cur \in v.open
  BY <1>3, <1>4, <1>5, <1>6 DEF Writing
<1> QED BY <1>3, <1>6, <1>7, <1>8

\* A call may do nothing.
LEMMA GrowsReflexive ==
  ASSUME NEW v, Writing(v)
  PROVE  Grows(v, v)
<1>1. v \in WalRec
  BY DEF Writing, Chain
<1>2. /\ v.next >= v.next /\ v.cur >= v.cur
  BY <1>1, WalFields
<1> QED BY <1>2 DEF Grows

\* needFree finds the space or adds a file.
LEMMA NeedFree ==
  ASSUME NEW v, Writing(v), NEW n \in Int, NEW u, u = needFree(v, n)
  PROVE  /\ Writing(u) /\ Grows(v, u) /\ u.total = v.total /\ u.cur = v.cur
         /\ u.stuck = v.stuck /\ u.torn = v.torn
         /\ Len(u.files) + u.room = Len(v.files) + v.room
         /\ \A i \in DOMAIN v.files : i \in DOMAIN u.files /\ u.files[i] = v.files[i]
         /\ u.resv[v.cur] = v.resv[v.cur]
<1>1. CASE v.free[TailFile(v)] >= n
  <2>1. u = [v EXCEPT !.ok = TRUE]
    BY <1>1 DEF needFree
  <2>2. v \in WalRec
    BY DEF Writing, Chain
  <2>3. u \in WalRec /\ Resources(v, u) /\ u.free = v.free /\ u.resv = v.resv /\ u.stuck = v.stuck
    BY <2>1, <2>2 DEF WalRec, Resources
  <2>4. Writing(u) /\ Grows(v, u)
    BY <2>3, ResourcesGrow
  <2> QED BY <2>3, <2>4 DEF Resources
<1>2. CASE ~(v.free[TailFile(v)] >= n)
  <2>1. u = makeNextFile(v)
    BY <1>2 DEF needFree
  <2> QED BY <2>1, MakeNext
<1> QED BY <1>1, <1>2

\* moveResv leaves the sum of what is free and reserved of each file as it was.
LEMMA MoveResv ==
  ASSUME NEW v, Writing(v), NEW to \in v.open, NEW from \in v.open, NEW n \in Int,
         NEW u, u = moveResv(v, to, from, n)
  PROVE  /\ Writing(u) /\ Grows(v, u) /\ Resources(v, u) /\ u.ok = v.ok /\ u.stuck = v.stuck
         /\ to # from => u.resv[from] = v.resv[from] - n
<1>1. v \in WalRec /\ to \in Files /\ from \in Files
  BY WalFields DEF Writing, Chain
<1>2. v.free \in [Files -> Int] /\ v.resv \in [Files -> Int]
  BY <1>1, WalFields
<1> DEFINE r1 == [v.resv EXCEPT ![from] = @ - n]
           f1 == [v.free EXCEPT ![from] = @ + n]
           r2 == [r1 EXCEPT ![to] = @ + n]
           f2 == [f1 EXCEPT ![to] = @ - n]
<1>3. u = [v EXCEPT !.resv = r2, !.free = f2]
  BY <1>1 DEF moveResv, WalRec
<1>4. r1 \in [Files -> Int] /\ f1 \in [Files -> Int] /\ r2 \in [Files -> Int] /\ f2 \in [Files -> Int]
  BY <1>1, <1>2
<1>5. \A f \in Files : f2[f] + r2[f] = v.free[f] + v.resv[f]
  BY <1>1, <1>2
<1>6. \A f \in Files : f # to /\ f # from => f2[f] = v.free[f]
  BY <1>1, <1>2
<1>7. to # from => r2[from] = v.resv[from] - n
  BY <1>1, <1>2
<1> HIDE DEF r1, f1, r2, f2
<1>8. u \in WalRec /\ Resources(v, u) /\ u.free = f2 /\ u.resv = r2 /\ u.ok = v.ok /\ u.stuck = v.stuck
  BY <1>1, <1>3, <1>4 DEF WalRec, Resources
<1>9. \A f \in Files : u.free[f] + u.resv[f] = v.free[f] + v.resv[f]
  BY <1>5, <1>8
<1>10. \A f \in Files : f \notin v.open => u.free[f] = v.free[f]
  BY <1>6, <1>8
<1>11. Writing(u) /\ Grows(v, u)
  BY <1>8, <1>9, <1>10, ResourcesGrow
<1> QED BY <1>7, <1>8, <1>11

\* What Take changes.
LEMMA TakeFields ==
  ASSUME NEW v, Writing(v), NEW f0 \in v.open, NEW n \in Int, NEW u, u = Take(v, f0, n)
  PROVE  /\ Writing(u) /\ Grows(v, u) /\ u.total = v.total + n /\ u.files = v.files
         /\ u.cur = v.cur /\ u.room = v.room
         /\ u.ok = v.ok /\ u.stuck = v.stuck /\ u.torn = v.torn
<1>1. v \in WalRec /\ f0 \in Files
  BY WalFields DEF Writing, Chain
<1>2. v.free \in [Files -> Int] /\ v.resv \in [Files -> Int] /\ v.total \in Int
  BY <1>1, WalFields
<1> DEFINE r == [v.resv EXCEPT ![f0] = @ + n]
           f == [v.free EXCEPT ![f0] = @ - n]
           x == [v EXCEPT !.resv = r, !.free = f]
           t == v.total + n
<1>3. u = [x EXCEPT !.total = t]
  BY <1>1 DEF Take, WalRec
<1>4. r \in [Files -> Int] /\ f \in [Files -> Int]
  BY <1>1, <1>2
<1>5. \A g \in Files : f[g] + r[g] = v.free[g] + v.resv[g]
  BY <1>1, <1>2
<1>6. \A g \in Files : g # f0 => f[g] = v.free[g]
  BY <1>1, <1>2
<1> HIDE DEF f, r
<1>7. x \in WalRec /\ Resources(v, x) /\ x.free = f /\ x.resv = r /\ x.ok = v.ok /\ x.stuck = v.stuck
  BY <1>1, <1>4 DEF WalRec, Resources
<1>8. Writing(x) /\ Grows(v, x)
  BY <1>5, <1>6, <1>7, ResourcesGrow
<1>a. t \in Int
  BY <1>2
<1> HIDE DEF x, t
<1>9. u \in WalRec /\ u.total = t
  BY <1>a, <1>3, <1>7 DEF WalRec
<1>10. /\ u.files = x.files /\ u.cur = x.cur /\ u.next = x.next /\ u.use = x.use
       /\ u.open = x.open /\ u.reading = x.reading /\ u.alive = x.alive
       /\ u.list = x.list /\ u.used = x.used /\ u.room = x.room
       /\ u.spent = x.spent /\ u.spare = x.spare /\ u.torn = x.torn
       /\ u.free = x.free /\ u.resv = x.resv /\ u.ok = x.ok /\ u.stuck = x.stuck
  BY <1>3, <1>7 DEF WalRec
<1>11. Writing(u)
  BY <1>8, <1>9, <1>10 DEF Writing, Chain, Listed
<1>12. Grows(v, u)
  BY <1>8, <1>10 DEF Grows, Listed
<1> QED BY <1>7, <1>9, <1>10, <1>11, <1>12 DEF Resources, t
-----------------------------------------------------------------------------
(* Files that go. *)

Unused(v, f) == v.list[f] = <<>> /\ f \notin v.open /\ f # v.reading

\* The first files of the list are gone, and nobody referred to them.
Collected(v, u) ==
  \E m \in 1..(Len(v.files) + 1) :
    /\ u = [v EXCEPT !.files = SubSeq(v.files, m, Len(v.files))]
    /\ \A i \in 1..(m - 1) : Unused(v, v.files[i])

\* Nothing may be collected.
LEMMA NoneCollected ==
  ASSUME NEW v \in WalRec
  PROVE  Collected(v, v)
<1> DEFINE n == Len(v.files)
<1>1. v.files \in Seq(Files) /\ n \in Nat
  BY WalFields
<1>2. SubSeq(v.files, 1, n) = v.files
  BY <1>1
<1>3. v = [v EXCEPT !.files = SubSeq(v.files, 1, n)]
  BY <1>1, <1>2 DEF WalRec
<1>4. 1 \in 1..(n + 1) /\ \A i \in 1..(1 - 1) : FALSE
  BY <1>1
<1> QED BY <1>3, <1>4 DEF Collected

\* walGc takes the first files of the list, as long as nobody refers to them.
LEMMA WalGc ==
  ASSUME NEW v \in WalRec
  PROVE  Collected(v, walGc(v))
<1> DEFINE n == Len(v.files)
           kept == {i \in DOMAIN v.files : Refs(v, v.files[i]) > 0}
<1>1. v.files \in Seq(Files) /\ n \in Nat /\ DOMAIN v.files = 1..n
  BY WalFields
<1>2. ASSUME NEW i \in 1..n, i \notin kept PROVE Unused(v, v.files[i])
  <2> DEFINE f == v.files[i]
  <2>1. f \in Files
    BY <1>1
  <2>2. ~(Refs(v, f) > 0)
    BY <1>1, <1>2
  <2> HIDE DEF f
  <2>3. v.list[f] \in Seq(Ids) /\ Len(v.list[f]) \in Nat
    BY <2>1, FileFields
  <2>4. f \notin v.open /\ f # v.reading /\ Len(v.list[f]) = 0
    <3> DEFINE a == Len(v.list[f])
               b == IF f \in v.open THEN 1 ELSE 0
               c == IF f = v.reading THEN 1 ELSE 0
    <3>1. Refs(v, f) = (a + b) + c
      BY DEF Refs
    <3>2. a \in Nat /\ b \in {0, 1} /\ c \in {0, 1}
      BY <2>3
    <3>3. (b = 0 => f \notin v.open) /\ (c = 0 => f # v.reading)
      OBVIOUS
    <3> HIDE DEF a, b, c
    <3>4. a = 0 /\ b = 0 /\ c = 0
      BY <2>2, <3>1, <3>2
    <3> QED BY <3>3, <3>4 DEF a
  <2>5. v.list[f] = <<>>
    BY <2>3, <2>4
  <2> QED BY <2>4, <2>5 DEF f, Unused
<1>3. CASE kept = {}
  <2>1. SubSeq(v.files, n + 1, n) = <<>>
    BY <1>1
  <2>2. walGc(v) = [v EXCEPT !.files = SubSeq(v.files, n + 1, n)]
    BY <1>3, <2>1 DEF walGc
  <2>3. n + 1 \in 1..(n + 1) /\ \A i \in 1..((n + 1) - 1) : i \in 1..n
    BY <1>1
  <2> QED BY <1>2, <1>3, <2>2, <2>3 DEF Collected
<1>4. CASE kept # {}
  <2>1. kept \in SUBSET Nat
    BY <1>1
  <2>2. PICK m \in kept : \A i \in kept : m <= i
    <3> HIDE DEF kept
    <3> QED BY <1>4, <2>1, LeastNumber
  <2>3. Min(kept) \in kept /\ \A i \in kept : Min(kept) <= i
    <3> HIDE DEF kept
    <3> QED BY <2>2 DEF Min
  <2>4. Min(kept) \in 1..n
    BY <1>1, <2>3
  <2>5. walGc(v) = [v EXCEPT !.files = SubSeq(v.files, Min(kept), n)]
    BY <1>4 DEF walGc
  <2> DEFINE m0 == Min(kept)
  <2>6. \A i \in 1..(m0 - 1) : i \in 1..n /\ i \notin kept
    <3>1. m0 \in 1..n /\ \A i \in kept : m0 <= i
      BY <2>3, <2>4
    <3> HIDE DEF m0, kept
    <3> QED BY <1>1, <3>1
  <2>7. m0 \in 1..(n + 1)
    BY <1>1, <2>4
  <2> QED BY <1>2, <2>5, <2>6, <2>7 DEF Collected
<1> QED BY <1>3, <1>4

\* fileDecRef collects files or does nothing.
LEMMA DecRef ==
  ASSUME NEW v \in WalRec, NEW f
  PROVE  Collected(v, fileDecRef(v, f))
BY WalGc, NoneCollected DEF fileDecRef

\* What is collected changes the list of files only.
LEMMA CollectedFields ==
  ASSUME NEW v \in WalRec, NEW u, Collected(v, u)
  PROVE  /\ u \in WalRec
         /\ u.cur = v.cur /\ u.next = v.next /\ u.use = v.use /\ u.ok = v.ok /\ u.stuck = v.stuck
         /\ u.open = v.open /\ u.reading = v.reading /\ u.total = v.total /\ u.alive = v.alive
         /\ u.free = v.free /\ u.resv = v.resv
         /\ u.list = v.list /\ u.used = v.used /\ u.room = v.room
         /\ u.spent = v.spent /\ u.spare = v.spare /\ u.torn = v.torn
         /\ Len(u.files) <= Len(v.files)
         /\ \A f \in Files : Listed(v, f) => Listed(u, f) \/ Unused(v, f)
         /\ \A f \in Files : Listed(u, f) => Listed(v, f)
         /\ \E m \in 1..(Len(v.files) + 1) :
              /\ Len(u.files) = (Len(v.files) - m) + 1
              /\ \A i \in DOMAIN u.files : /\ (m + i) - 1 \in DOMAIN v.files
                                           /\ u.files[i] = v.files[(m + i) - 1]
<1> DEFINE n == Len(v.files)
<1>1. PICK m \in 1..(n + 1) : /\ u = [v EXCEPT !.files = SubSeq(v.files, m, n)]
                             /\ \A i \in 1..(m - 1) : Unused(v, v.files[i])
  BY DEF Collected
<1>2. v.files \in Seq(Files) /\ n \in Nat /\ DOMAIN v.files = 1..n
  BY WalFields
<1> DEFINE s == SubSeq(v.files, m, n)
<1>3. /\ s \in Seq(Files) /\ Len(s) = (n - m) + 1
      /\ \A i \in 1..((n - m) + 1) : s[i] = v.files[(m + i) - 1]
  BY <1>1, <1>2
<1> HIDE DEF n, s
<1>4. u = [v EXCEPT !.files = s]
  BY <1>1 DEF s, n
<1>5. u \in WalRec /\ u.files = s
  BY <1>3, <1>4 DEF WalRec
<1>6. /\ u.cur = v.cur /\ u.next = v.next /\ u.use = v.use /\ u.ok = v.ok /\ u.stuck = v.stuck
      /\ u.open = v.open /\ u.reading = v.reading /\ u.total = v.total /\ u.alive = v.alive
      /\ u.free = v.free /\ u.resv = v.resv
      /\ u.list = v.list /\ u.used = v.used /\ u.room = v.room
      /\ u.spent = v.spent /\ u.spare = v.spare /\ u.torn = v.torn
  BY <1>4 DEF WalRec
<1>7. DOMAIN s = 1..((n - m) + 1)
  BY <1>3
<1>8. ASSUME NEW f \in Files, Listed(v, f) PROVE Listed(u, f) \/ Unused(v, f)
  <2>1. PICK i \in 1..n : v.files[i] = f
    BY <1>2, <1>8 DEF Listed
  <2>2. CASE i < m
    <3>1. i \in 1..(m - 1)
      BY <1>1, <1>2, <2>2
    <3> QED BY <1>1, <2>1, <3>1
  <2>3. CASE ~(i < m)
    <3> DEFINE k == (i - m) + 1
    <3>1. k \in 1..((n - m) + 1) /\ (m + k) - 1 = i
      BY <1>1, <1>2, <2>3
    <3> HIDE DEF k
    <3>2. s[k] = f
      BY <1>3, <2>1, <3>1
    <3> QED BY <1>5, <1>7, <3>1, <3>2 DEF Listed
  <2> QED BY <2>2, <2>3
<1>9. ASSUME NEW f \in Files, Listed(u, f) PROVE Listed(v, f)
  <2>1. PICK k \in 1..((n - m) + 1) : s[k] = f
    BY <1>5, <1>7, <1>9 DEF Listed
  <2>2. (m + k) - 1 \in 1..n /\ v.files[(m + k) - 1] = f
    BY <1>1, <1>2, <1>3, <2>1
  <2> QED BY <1>2, <2>2 DEF Listed
<1>10. Len(u.files) <= n
  BY <1>1, <1>2, <1>3, <1>5
<1>11. /\ Len(u.files) = (n - m) + 1
       /\ \A i \in DOMAIN u.files : (m + i) - 1 \in DOMAIN v.files /\ u.files[i] = v.files[(m + i) - 1]
  BY <1>1, <1>2, <1>3, <1>5, <1>7
<1> QED BY <1>1, <1>5, <1>6, <1>8, <1>9, <1>10, <1>11 DEF n

\* The list is in order when files were collected.
LEMMA CollectedChain ==
  ASSUME NEW v, Chain(v), NEW u, Collected(v, u)
  PROVE  /\ Chain(u)
         /\ \A f, g \in Files : Listed(v, f) /\ ~Listed(u, f) /\ Listed(u, g) => f < g
<1>1. v \in WalRec
  BY DEF Chain
<1>2. /\ u \in WalRec /\ u.next = v.next /\ u.list = v.list /\ u.room = v.room
      /\ \A f \in Files : Listed(v, f) => Listed(u, f) \/ Unused(v, f)
      /\ \A f \in Files : Listed(u, f) => Listed(v, f)
  BY <1>1, CollectedFields
<1>3. PICK m \in 1..(Len(v.files) + 1) :
              /\ Len(u.files) = (Len(v.files) - m) + 1
              /\ \A i \in DOMAIN u.files : /\ (m + i) - 1 \in DOMAIN v.files
                                           /\ u.files[i] = v.files[(m + i) - 1]
  BY <1>1, CollectedFields
<1> DEFINE n == Len(v.files)
<1>4. /\ v.files \in Seq(Files) /\ u.files \in Seq(Files)
      /\ n \in Nat /\ DOMAIN v.files = 1..n /\ DOMAIN u.files = 1..((n - m) + 1)
  BY <1>1, <1>2, <1>3, WalFields
<1> HIDE DEF n
<1>5. ASSUME NEW i \in DOMAIN u.files, NEW k \in DOMAIN u.files, i < k
      PROVE  u.files[i] < u.files[k]
  <2>1. (m + i) - 1 < (m + k) - 1
    BY <1>3, <1>4, <1>5
  <2> QED BY <1>3, <1>5, <2>1 DEF Chain
<1>6. \A i \in DOMAIN u.files : u.files[i] < u.next
  BY <1>2, <1>3 DEF Chain
<1>7. \A f \in Files : u.list[f] # <<>> => Listed(u, f)
  BY <1>2 DEF Chain, Unused
<1>8. Chain(u)
  BY <1>2, <1>5, <1>6, <1>7 DEF Chain
<1>9. ASSUME NEW f \in Files, NEW g \in Files, Listed(v, f), ~Listed(u, f), Listed(u, g)
      PROVE  f < g
  <2>1. PICK i \in DOMAIN v.files : v.files[i] = f
    BY <1>9 DEF Listed
  <2>2. PICK k \in DOMAIN u.files : u.files[k] = g
    BY <1>9 DEF Listed
  <2>3. (m + k) - 1 \in DOMAIN v.files /\ v.files[(m + k) - 1] = g
    BY <1>3, <2>2
  <2>4. i < m
    <3> SUFFICES ASSUME ~(i < m) PROVE FALSE
      OBVIOUS
    <3> DEFINE p == (i - m) + 1
    <3>1. p \in DOMAIN u.files /\ (m + p) - 1 = i
      BY <1>3, <1>4, <2>1
    <3> HIDE DEF p
    <3>2. u.files[p] = f
      BY <1>3, <2>1, <3>1
    <3> QED BY <1>9, <3>1, <3>2 DEF Listed
  <2>5. i < (m + k) - 1
    BY <1>3, <1>4, <2>1, <2>2, <2>4
  <2> QED BY <2>1, <2>3, <2>5 DEF Chain
<1> QED BY <1>8, <1>9
\* The writer's reference to a file goes.
LEMMA CloseFile ==
  ASSUME NEW v, Chain(v), NEW f \in v.open, NEW u, u = fileWClose(v, f)
  PROVE  /\ Chain(u)
         /\ u.cur = v.cur /\ u.next = v.next /\ u.use = v.use /\ u.ok = v.ok /\ u.stuck = v.stuck
         /\ u.open = v.open \ {f} /\ u.reading = v.reading /\ u.total = v.total /\ u.alive = v.alive
         /\ u.free = v.free /\ u.resv = v.resv
         /\ u.list = v.list /\ u.used = v.used /\ u.room = v.room
         /\ u.spent = v.spent /\ u.spare = v.spare /\ u.torn = v.torn
         /\ Len(u.files) <= Len(v.files)
         /\ \A g \in Files : Listed(v, g) =>
              Listed(u, g) \/ (v.list[g] = <<>> /\ g \notin u.open /\ g # v.reading)
         /\ \A g \in Files : Listed(u, g) => Listed(v, g)
         /\ \A g, h \in Files : Listed(v, g) /\ ~Listed(u, g) /\ Listed(u, h) => g < h
<1> DEFINE x == [v EXCEPT !.open = @ \ {f}]
<1>1. v \in WalRec /\ v.open \in SUBSET Files
  BY WalFields DEF Chain
<1>2. /\ x \in WalRec /\ x.cur = v.cur /\ x.next = v.next /\ x.use = v.use /\ x.ok = v.ok
      /\ x.stuck = v.stuck /\ x.files = v.files
      /\ x.open = v.open \ {f} /\ x.reading = v.reading /\ x.total = v.total /\ x.alive = v.alive
      /\ x.free = v.free /\ x.resv = v.resv
      /\ x.list = v.list /\ x.used = v.used /\ x.room = v.room
      /\ x.spent = v.spent /\ x.spare = v.spare /\ x.torn = v.torn
  BY <1>1 DEF WalRec
<1>3. u = fileDecRef(x, f)
  BY DEF fileWClose
<1> HIDE DEF x
<1>4. Collected(x, u)
  BY <1>2, <1>3, DecRef
<1>5. Chain(x)
  BY <1>2 DEF Chain, Listed
<1>6. \A g \in Files : Listed(x, g) <=> Listed(v, g)
  BY <1>2 DEF Listed
<1>7. /\ Chain(u)
      /\ \A g, h \in Files : Listed(x, g) /\ ~Listed(u, g) /\ Listed(u, h) => g < h
  BY <1>4, <1>5, CollectedChain
<1>8. /\ u.cur = x.cur /\ u.next = x.next /\ u.use = x.use /\ u.ok = x.ok /\ u.stuck = x.stuck
      /\ u.open = x.open /\ u.reading = x.reading /\ u.total = x.total /\ u.alive = x.alive
      /\ u.free = x.free /\ u.resv = x.resv
      /\ u.list = x.list /\ u.used = x.used /\ u.room = x.room
      /\ u.spent = x.spent /\ u.spare = x.spare /\ u.torn = x.torn
      /\ Len(u.files) <= Len(x.files)
      /\ \A g \in Files : Listed(x, g) => Listed(u, g) \/ Unused(x, g)
      /\ \A g \in Files : Listed(u, g) => Listed(x, g)
  BY <1>2, <1>4, CollectedFields
<1>9. \A g \in Files : Listed(v, g) =>
        Listed(u, g) \/ (v.list[g] = <<>> /\ g \notin u.open /\ g # v.reading)
  <2> SUFFICES ASSUME NEW g \in Files, Listed(v, g), ~Listed(u, g)
               PROVE  v.list[g] = <<>> /\ g \notin u.open /\ g # v.reading
    OBVIOUS
  <2>1. Unused(x, g)
    BY <1>6, <1>8
  <2>2. x.list = v.list /\ x.reading = v.reading /\ u.open = x.open
    BY <1>2, <1>8
  <2> QED BY <2>1, <2>2 DEF Unused
<1>10. /\ \A g \in Files : Listed(u, g) => Listed(v, g)
       /\ \A g, h \in Files : Listed(v, g) /\ ~Listed(u, g) /\ Listed(u, h) => g < h
  BY <1>6, <1>7, <1>8
<1> HIDE <1>4, <1>5, <1>6
<1>11. /\ u.cur = v.cur /\ u.next = v.next /\ u.use = v.use /\ u.ok = v.ok /\ u.stuck = v.stuck
       /\ u.open = v.open \ {f} /\ u.reading = v.reading /\ u.total = v.total /\ u.alive = v.alive
       /\ u.free = v.free /\ u.resv = v.resv
       /\ u.list = v.list /\ u.used = v.used /\ u.room = v.room
       /\ u.spent = v.spent /\ u.spare = v.spare /\ u.torn = v.torn
       /\ Len(u.files) <= Len(v.files)
  BY <1>2, <1>8
<1> QED BY <1>7, <1>9, <1>10, <1>11

\* The next file is the first one after the current one.
LEMMA NextIs ==
  ASSUME NEW v, Writing(v), HasNext(v)
  PROVE  /\ NextFile(v) \in Files /\ Listed(v, NextFile(v)) /\ NextFile(v) > v.cur
         /\ \A f \in Files : Listed(v, f) /\ f > v.cur => f >= NextFile(v)
<1> DEFINE n == Len(v.files)
           p == PosOf(v, v.cur)
<1>1. v.files \in Seq(Files) /\ n \in Nat /\ DOMAIN v.files = 1..n
  BY WalFields DEF Writing, Chain
<1>2. p \in 1..n /\ v.files[p] = v.cur
  BY <1>1, TailIsOpen
<1>3. p # n
  BY <1>2 DEF HasNext, TailFile
<1> HIDE DEF n, p
<1>4. p + 1 \in 1..n /\ p < p + 1
  BY <1>1, <1>2, <1>3
<1>5. NextFile(v) = v.files[p + 1] /\ v.files[p + 1] \in Files
  BY <1>1, <1>4 DEF NextFile, p
<1>6. v.files[p] < v.files[p + 1] /\ v.cur \in Nat /\ v.files[p + 1] \in Nat
  BY <1>1, <1>2, <1>4, <1>5, Numbers DEF Writing, Chain
<1>7. ASSUME NEW f \in Files, Listed(v, f), f > v.cur PROVE f >= v.files[p + 1]
  <2>1. PICK i \in 1..n : v.files[i] = f
    BY <1>1, <1>7 DEF Listed
  <2>2. f \in Nat
    BY Numbers
  <2>3. ~(i < p)
    <3>1. i < p => v.files[i] < v.files[p]
      BY <1>1, <1>2, <2>1 DEF Writing, Chain
    <3> QED BY <1>2, <1>6, <1>7, <2>1, <2>2, <3>1
  <2>4. i # p
    BY <1>2, <1>6, <1>7, <2>1, <2>2
  <2>5. i = p + 1 \/ p + 1 < i
    BY <1>1, <1>2, <2>1, <2>3, <2>4
  <2>6. p + 1 < i => v.files[p + 1] < v.files[i]
    BY <1>1, <1>4, <2>1 DEF Writing, Chain
  <2> QED BY <1>6, <2>1, <2>2, <2>5, <2>6
<1> QED BY <1>1, <1>2, <1>4, <1>5, <1>6, <1>7 DEF Listed

\* useNext closes the current file and moves on.
LEMMA UseNext ==
  ASSUME NEW v, Writing(v), HasNext(v), NEW u, u = useNext(v)
  PROVE  /\ Writing(u) /\ u.ok /\ u.stuck = v.stuck /\ u.torn = v.torn
         /\ u.total = v.total /\ u.free = v.free /\ u.resv = v.resv
         /\ u.cur = NextFile(v) /\ u.open = v.open \ {v.cur}
         /\ Len(u.files) + u.room <= Len(v.files) + v.room
         /\ u.next = v.next /\ u.room = v.room
         /\ u.list = v.list /\ u.used = v.used /\ u.alive = v.alive /\ u.use = v.use
         /\ u.spent = v.spent /\ u.spare = v.spare
         /\ \A f \in Files : Listed(u, f) => Listed(v, f)
         /\ \A f \in Files : Listed(v, f) => Listed(u, f) \/ (v.list[f] = <<>> /\ f \notin u.open)
         /\ \A f, g \in Files : Listed(v, f) /\ ~Listed(u, f) /\ Listed(u, g) => f < g
<1> DEFINE nx == NextFile(v)
           x == [v EXCEPT !.cur = nx, !.ok = TRUE]
<1>1. v \in WalRec /\ Chain(v)
  BY DEF Writing, Chain
<1>2. /\ nx \in Files /\ Listed(v, nx) /\ nx > v.cur
      /\ \A f \in Files : Listed(v, f) /\ f > v.cur => f >= nx
  BY NextIs
<1>3. nx \in 0..MaxFiles /\ nx \in Nat
  BY <1>2, Numbers
<1>4. u = fileWClose(x, v.cur)
  BY DEF useNext
<1> HIDE DEF nx
<1>5. /\ x \in WalRec /\ x.cur = nx /\ x.next = v.next /\ x.use = v.use /\ x.ok
      /\ x.stuck = v.stuck /\ x.files = v.files
      /\ x.open = v.open /\ x.reading = v.reading /\ x.total = v.total /\ x.alive = v.alive
      /\ x.free = v.free /\ x.resv = v.resv
      /\ x.list = v.list /\ x.used = v.used /\ x.room = v.room
      /\ x.spent = v.spent /\ x.spare = v.spare /\ x.torn = v.torn
  BY <1>1, <1>3 DEF WalRec
<1> HIDE DEF x
<1>6. Chain(x) /\ \A f \in Files : Listed(x, f) <=> Listed(v, f)
  BY <1>1, <1>5 DEF Chain, Listed
<1>7. v.cur \in x.open /\ v.cur \in Nat
  BY <1>1, <1>5, TailIsOpen, WalFields
<1> DEFINE c == v.cur
<1> HIDE DEF c
<1>8. c = v.cur /\ c \in x.open /\ u = fileWClose(x, c)
  BY <1>4, <1>7 DEF c
<1>9. /\ Chain(u)
      /\ u.cur = x.cur /\ u.next = x.next /\ u.use = x.use /\ u.ok = x.ok /\ u.stuck = x.stuck
      /\ u.open = x.open \ {c} /\ u.reading = x.reading /\ u.total = x.total /\ u.alive = x.alive
      /\ u.free = x.free /\ u.resv = x.resv
      /\ u.list = x.list /\ u.used = x.used /\ u.room = x.room
      /\ u.spent = x.spent /\ u.spare = x.spare /\ u.torn = x.torn
      /\ Len(u.files) <= Len(x.files)
      /\ \A g \in Files : Listed(x, g) =>
           Listed(u, g) \/ (x.list[g] = <<>> /\ g \notin u.open /\ g # x.reading)
      /\ \A g \in Files : Listed(u, g) => Listed(x, g)
      /\ \A g, h \in Files : Listed(x, g) /\ ~Listed(u, g) /\ Listed(u, h) => g < h
  BY <1>6, <1>8, CloseFile
<1>10. /\ u.ok /\ u.stuck = v.stuck /\ u.torn = v.torn
       /\ u.total = v.total /\ u.free = v.free /\ u.resv = v.resv
       /\ u.cur = nx /\ u.open = v.open \ {v.cur}
       /\ u.next = v.next /\ u.room = v.room
       /\ u.list = v.list /\ u.used = v.used /\ u.alive = v.alive /\ u.use = v.use
       /\ u.spent = v.spent /\ u.spare = v.spare /\ u.reading = v.reading
       /\ Len(u.files) <= Len(v.files)
  BY <1>5, <1>8, <1>9
<1>11. /\ \A f \in Files : Listed(u, f) => Listed(v, f)
       /\ \A f \in Files : Listed(v, f) => Listed(u, f) \/ (v.list[f] = <<>> /\ f \notin u.open)
       /\ \A f, g \in Files : Listed(v, f) /\ ~Listed(u, f) /\ Listed(u, g) => f < g
  BY <1>5, <1>6, <1>9
<1>12. \A f \in Files : f \in Nat
  BY Numbers
<1>13. \A f \in Files : f \in u.open <=> Listed(v, f) /\ f >= nx
  <2>1. \A f \in Files : f \in u.open <=> f \in v.open /\ f # v.cur
    BY <1>10
  <2>2. \A f \in Files : f \in v.open <=> Listed(v, f) /\ f >= v.cur
    BY DEF Writing
  <2> SUFFICES ASSUME NEW f \in Files PROVE f \in u.open <=> Listed(v, f) /\ f >= nx
    OBVIOUS
  <2>3. f \in Nat /\ v.cur \in Nat /\ nx \in Nat
    BY <1>3, <1>7, <1>12
  <2>4. Listed(v, f) /\ f > v.cur => f >= nx
    BY <1>2
  <2>5. nx > v.cur
    BY <1>2
  <2>6. f \in u.open <=> Listed(v, f) /\ f >= v.cur /\ f # v.cur
    BY <2>1, <2>2
  <2> QED BY <2>3, <2>4, <2>5, <2>6
<1>14. \A f \in Files : f \in u.open <=> Listed(u, f) /\ f >= u.cur
  BY <1>10, <1>11, <1>13
<1>15. Listed(u, nx)
  BY <1>2, <1>3, <1>11, <1>13
<1>16. \A f \in Files : f > u.cur => u.list[f] = <<>>
  BY <1>2, <1>3, <1>7, <1>10, <1>12 DEF Writing
<1>17. Writing(u)
  BY <1>2, <1>9, <1>10, <1>14, <1>15, <1>16 DEF Writing
<1>18. Len(u.files) + u.room <= Len(v.files) + v.room
  <2>1. u.files \in Seq(Files) /\ v.files \in Seq(Files) /\ v.room \in Nat
    BY <1>1, <1>9, WalFields DEF Chain
  <2>2. Len(u.files) \in Nat /\ Len(v.files) \in Nat
    BY <2>1
  <2>3. u.room = v.room /\ Len(u.files) <= Len(v.files)
    BY <1>10
  <2> QED BY <2>1, <2>2, <2>3
<1> QED BY <1>10, <1>11, <1>17, <1>18 DEF nx
-----------------------------------------------------------------------------
(* Loops. *)

\* f is what F[1], ..., F[n] make of x0, one after the other.
Iterates(X, x0, n, F, f) ==
  f \in [0..n -> X] /\ f[0] = x0 /\ \A k \in 1..n : f[k] = F[k][f[k - 1]]

\* Functions of one set can be iterated.
LEMMA IteratesExist ==
  ASSUME NEW X, NEW x0 \in X, NEW n \in Nat, NEW F \in [1..n -> [X -> X]]
  PROVE  \E f : Iterates(X, x0, n, F, f)
<1> DEFINE Good(i) == \E f \in [0..i -> X] : f[0] = x0 /\ \A k \in 1..i : f[k] = F[k][f[k - 1]]
           Bad == {i \in 0..n : ~Good(i)}
<1>1. Good(0)
  <2>1. [k \in 0..0 |-> x0] \in [0..0 -> X] /\ [k \in 0..0 |-> x0][0] = x0
    OBVIOUS
  <2>2. \A k \in 1..0 : FALSE
    OBVIOUS
  <2> QED BY <2>1, <2>2
<1>2. ASSUME NEW i \in 0..(n - 1), Good(i) PROVE Good(i + 1)
  <2>1. PICK f \in [0..i -> X] : f[0] = x0 /\ \A k \in 1..i : f[k] = F[k][f[k - 1]]
    BY <1>2
  <2> DEFINE g == [k \in 0..(i + 1) |-> IF k = i + 1 THEN F[i + 1][f[i]] ELSE f[k]]
  <2>2. \A k \in 0..i : g[k] = f[k] /\ f[k] \in X
    OBVIOUS
  <2>3. g[i + 1] = F[i + 1][f[i]] /\ F[i + 1][f[i]] \in X
    <3>1. i + 1 \in 1..n /\ i \in 0..i /\ i + 1 \in 0..(i + 1)
      OBVIOUS
    <3> QED BY <3>1
  <2>4. g \in [0..(i + 1) -> X]
    BY <2>2, <2>3
  <2> HIDE DEF g
  <2>5. ASSUME NEW k \in 1..(i + 1) PROVE g[k] = F[k][g[k - 1]]
    <3>1. CASE k = i + 1
      <4>1. k - 1 = i /\ i \in 0..i
        BY <3>1
      <4> QED BY <3>1, <4>1, <2>2, <2>3
    <3>2. CASE k # i + 1
      <4>1. k \in 1..i /\ k - 1 \in 0..i /\ k \in 0..i
        BY <3>2
      <4> QED BY <4>1, <2>1, <2>2
    <3> QED BY <3>1, <3>2
  <2>6. g[0] = x0
    <3>1. 0 \in 0..i
      OBVIOUS
    <3> QED BY <2>1, <2>2, <3>1
  <2> QED BY <2>4, <2>5, <2>6
<1> HIDE DEF Good
<1>3. Bad = {}
  <2> SUFFICES ASSUME Bad # {} PROVE FALSE
    OBVIOUS
  <2>1. PICK i \in Bad : \A k \in Bad : <<k, i>> \notin OpToRel(<, Nat)
    <3>1. Bad \subseteq Nat
      OBVIOUS
    <3> HIDE DEF Bad
    <3> QED BY <3>1, NatLessThanWellFounded, WFMin
  <2>2. i # 0 /\ i \in 0..n
    BY <1>1, <2>1
  <2>3. i - 1 \in 0..n /\ i - 1 \in 0..(n - 1) /\ (i - 1) + 1 = i /\ i - 1 < i /\ i - 1 \in Nat
        /\ i \in Nat
    BY <2>2
  <2>4. i - 1 \notin Bad
    BY <2>1, <2>3 DEF OpToRel
  <2>5. Good(i - 1)
    BY <2>3, <2>4
  <2> QED BY <1>2, <2>1, <2>3, <2>5
<1>4. Good(n)
  BY <1>3
<1> QED BY <1>4 DEF Good, Iterates

\* What every step of a loop keeps holds at its end.
LEMMA LoopStays ==
  ASSUME NEW X, NEW n \in Nat, NEW list, list[0] \in X,
         \A k \in 1..n : list[k - 1] \in X => list[k] \in X
  PROVE  list[n] \in X
<1> DEFINE Bad == {k \in 0..n : list[k] \notin X}
<1>1. Bad = {}
  <2> SUFFICES ASSUME Bad # {} PROVE FALSE
    OBVIOUS
  <2>1. PICK i \in Bad : \A k \in Bad : <<k, i>> \notin OpToRel(<, Nat)
    <3>1. Bad \subseteq Nat
      OBVIOUS
    <3> HIDE DEF Bad
    <3> QED BY <3>1, NatLessThanWellFounded, WFMin
  <2>2. i \in 0..n /\ list[i] \notin X
    BY <2>1
  <2>3. i # 0
    BY <2>2
  <2>4. i - 1 \in 0..n /\ i \in 1..n /\ i - 1 < i /\ i - 1 \in Nat /\ i \in Nat
    BY <2>2, <2>3
  <2>5. i - 1 \notin Bad
    BY <2>1, <2>4 DEF OpToRel
  <2>6. list[i - 1] \in X
    BY <2>4, <2>5
  <2> QED BY <2>2, <2>4, <2>6
<1>2. n \in 0..n
  OBVIOUS
<1>3. n \notin Bad
  BY <1>1
<1> QED BY <1>2, <1>3

\* A call that does not return is not answered TRUE.
Honest(u) == u.stuck => ~u.ok

\* What may become of v while space is sought: the reservations in sum are the same.
Around(v) == {u \in WalRec : Writing(u) /\ Honest(u) /\ Grows(v, u) /\ u.total = v.total}

\* A step may be added to those of a loop.
LEMMA AroundStep ==
  ASSUME NEW v, Writing(v), NEW u \in Around(v), NEW x, Writing(x), Honest(x), Grows(u, x),
         x.total = u.total
  PROVE  x \in Around(v)
<1>1. x \in WalRec /\ Writing(u) /\ Grows(v, u) /\ u.total = v.total
  BY DEF Around, Writing, Chain
<1>2. Grows(v, x)
  BY <1>1, GrowsTransitive
<1> QED BY <1>1, <1>2 DEF Around

\* A round of balance's loop moves reserved space to the tail, and goes on to the next file.
LEMMA BalanceStep ==
  ASSUME NEW v, Writing(v), ~v.stuck
  PROVE  balanceStep(v) \in Around(v)
<1> DEFINE m == v.resv[v.cur]
           a == needFree(v, m)
           b == moveResv(a, TailFile(a), a.cur, m)
           c == useNext(b)
           d == [b EXCEPT !.ok = FALSE, !.stuck = TRUE]
<1>0. v \in Around(v)
  BY GrowsReflexive DEF Around, Writing, Chain, Honest
<1>1. m \in Int
  BY FileFields DEF Writing, Chain
<1>2. balanceStep(v) = IF a.ok THEN (IF HasNext(b) THEN c ELSE d) ELSE a
  BY DEF balanceStep, goOn
<1> HIDE DEF m
<1>3. Writing(a) /\ Grows(v, a) /\ a.total = v.total /\ a.cur = v.cur /\ ~a.stuck
  BY <1>1, NeedFree
<1>4. a \in Around(v)
  BY <1>0, <1>3, AroundStep DEF Honest
<1> HIDE DEF a
<1>5. TailFile(a) \in a.open /\ a.cur \in a.open
  BY <1>3, TailIsOpen
<1>6. Writing(b) /\ Grows(a, b) /\ Resources(a, b) /\ ~b.stuck
  BY <1>1, <1>3, <1>5, MoveResv
<1>7. b \in Around(v)
  BY <1>4, <1>6, AroundStep DEF Resources, Honest
<1>8. HasNext(b) => b.resv[b.cur] = 0
  <2> SUFFICES ASSUME HasNext(b) PROVE b.resv[b.cur] = 0
    OBVIOUS
  <2>1. b.cur = a.cur /\ TailFile(b) = TailFile(a)
    BY <1>6 DEF Resources, TailFile
  <2>2. TailFile(a) # a.cur
    BY <2>1 DEF HasNext
  <2>3. b.resv[a.cur] = a.resv[a.cur] - m
    BY <1>1, <1>3, <1>5, <2>2, MoveResv
  <2>4. a.resv[a.cur] = m
    BY <1>1, NeedFree DEF a, m
  <2> QED BY <1>1, <2>1, <2>3, <2>4
<1> HIDE DEF b
<1>9. CASE HasNext(b)
  <2> DEFINE k == b.cur
  <2>1. /\ Writing(c) /\ c.total = b.total /\ c.free = b.free /\ c.resv = b.resv
        /\ c.cur = NextFile(b) /\ c.open = b.open \ {k} /\ ~c.stuck
        /\ c.next = b.next /\ c.room = b.room
        /\ c.list = b.list /\ c.used = b.used /\ c.alive = b.alive /\ c.use = b.use
        /\ c.spent = b.spent /\ c.spare = b.spare
        /\ \A f \in Files : Listed(c, f) => Listed(b, f)
        /\ \A f \in Files : Listed(b, f) => Listed(c, f) \/ (b.list[f] = <<>> /\ f \notin c.open)
        /\ \A f, g \in Files : Listed(b, f) /\ ~Listed(c, f) /\ Listed(c, g) => f < g
    BY <1>6, <1>9, UseNext
  <2>2. NextFile(b) > k /\ NextFile(b) \in Nat /\ k \in Nat
    BY <1>6, <1>9, NextIs, Numbers DEF Writing
  <2>3. b.resv[k] = 0 /\ b \in WalRec
    BY <1>6, <1>8, <1>9 DEF Writing, Chain
  <2>4. \A f \in Files : b.free[f] \in Int /\ b.resv[f] \in Int
    BY <2>3, FileFields
  <2>5. b.next \in Nat /\ b.room \in Nat
    BY <2>3, WalFields
  <2> HIDE DEF c, k
  <2>6. c.next >= b.next /\ c.next + c.room = b.next + b.room /\ c.cur >= b.cur
    <3>1. c.next = b.next /\ c.room = b.room /\ c.cur = NextFile(b) /\ b.cur = k
      BY <2>1 DEF k
    <3> QED BY <2>2, <2>5, <3>1
  <2>7. \A f \in Files : f \notin c.open /\ f \in b.open => c.free[f] = b.free[f] + b.resv[f]
    BY <2>1, <2>3, <2>4
  <2>8. Grows(b, c)
    BY <2>1, <2>6, <2>7 DEF Grows
  <2>9. c \in Around(v)
    BY <1>7, <2>1, <2>8, AroundStep DEF Honest
  <2> QED BY <1>2, <1>4, <1>9, <2>9
<1>10. CASE ~HasNext(b)
  <2>1. d \in WalRec /\ Resources(b, d) /\ d.free = b.free /\ d.resv = b.resv /\ ~d.ok
    BY <1>6 DEF Writing, Chain, WalRec, Resources
  <2> HIDE DEF d
  <2>2. Writing(d) /\ Grows(b, d) /\ d.total = b.total
    BY <1>6, <2>1, ResourcesGrow DEF Resources
  <2>3. d \in Around(v)
    BY <1>7, <2>1, <2>2, AroundStep DEF Honest
  <2> QED BY <1>2, <1>4, <1>10, <2>3
<1> QED BY <1>9, <1>10
\* So does the loop.
LEMMA BalanceLoop ==
  ASSUME NEW v, Writing(v), Honest(v), NEW m \in Int
  PROVE  balanceLoop(v, m) \in Around(v)
<1> DEFINE X == Around(v)
           n == Turns(v)
           Round(u) == IF u.ok /\ u.resv[u.cur] < m THEN balanceStep(u) ELSE u
           loop[k \in 0..n] == IF k = 0 THEN v ELSE Round(loop[k - 1])
           F == [k \in 1..n |-> [u \in X |-> Round(u)]]
<1>1. v \in X
  BY GrowsReflexive DEF Around, Writing, Chain
<1>2. n \in Nat
  BY WalFields, TailIsOpen DEF Turns, Writing, Chain
<1>3. balanceLoop(v, m) = loop[n]
  BY DEF balanceLoop
<1> HIDE DEF n
<1>4. ASSUME NEW u \in X PROVE Round(u) \in X
  <2>1. CASE u.ok
    <3>1. Writing(u) /\ ~u.stuck
      BY <2>1 DEF Around, Honest
    <3>2. balanceStep(u) \in Around(u)
      BY <3>1, BalanceStep
    <3>3. balanceStep(u) \in X
      BY <3>2, AroundStep DEF Around
    <3> QED BY <3>3
  <2>2. CASE ~u.ok
    BY <2>2
  <2> QED BY <2>1, <2>2
<1> HIDE DEF X, Round
<1>5. F \in [1..n -> [X -> X]]
  BY <1>4
<1>6. \A k \in 1..n : \A u \in X : F[k][u] = Round(u)
  OBVIOUS
<1> HIDE DEF F
<1>7. PICK f \in [0..n -> X] : f[0] = v /\ \A k \in 1..n : f[k] = F[k][f[k - 1]]
  <2> HIDE DEF loop
  <2>1. PICK f : Iterates(X, v, n, F, f)
    BY <1>1, <1>2, <1>5, IteratesExist
  <2> QED BY <2>1 DEF Iterates
<1>8. f = [k \in 0..n |-> IF k = 0 THEN v ELSE Round(f[k - 1])]
  <2>1. ASSUME NEW k \in 0..n PROVE f[k] = IF k = 0 THEN v ELSE Round(f[k - 1])
    <3>1. k # 0 => k \in 1..n /\ k - 1 \in 0..n
      BY <1>2
    <3> QED BY <1>6, <1>7, <3>1
  <2> QED BY <2>1
<1>9. loop = [k \in 0..n |-> IF k = 0 THEN v ELSE Round(loop[k - 1])]
  BY <1>8
<1> HIDE DEF loop
<1>10. loop[0] = v /\ \A k \in 1..n : loop[k] = Round(loop[k - 1])
  BY <1>2, <1>9
<1>11. loop[n] \in X
  BY <1>1, <1>2, <1>4, <1>10, LoopStays
<1> QED BY <1>3, <1>11 DEF X

\* What the body of balanceRest keeps: the current file stays at its place.
Rests(v) == {u \in Around(v) : /\ u.cur = v.cur /\ PosOf(v, v.cur) \in DOMAIN u.files
                              /\ u.files[PosOf(v, v.cur)] = v.cur}

\* Go's remainder of a number is a number.
LEMMA RestInt ==
  ASSUME NEW n \in Int
  PROVE  Rest(n) \in Int
<1>1. CASE n >= 0
  BY <1>1, Numbers DEF Rest
<1>2. CASE ~(n >= 0)
  <2>1. 0 - n \in Nat
    BY <1>2
  <2>2. (0 - n) % Short \in Nat
    BY <2>1, Numbers
  <2> QED BY <1>2, <2>2 DEF Rest
<1> QED BY <1>1, <1>2

\* A visit of balanceRest only moves space that is reserved.
LEMMA RestStep ==
  ASSUME NEW v, Writing(v), NEW u \in Rests(v), u.ok, NEW i \in DOMAIN u.files,
         i >= PosOf(v, v.cur), NEW n \in Int
  PROVE  restStep(u, i, n) \in Rests(v)
<1> DEFINE p == PosOf(v, v.cur)
           b == u.files[i]
           r == Rest(u.resv[b] - n)
           c == Short - r
           a == needFree(u, r)
           x == moveResv(u, b, TailFile(u), c)
           y == moveResv(a, TailFile(a), b, r)
<1>1. u \in Around(v) /\ Writing(u) /\ u \in WalRec /\ ~u.stuck
  BY DEF Rests, Around, Honest
<1>2. restStep(u, i, n) \in {u, x, y, a}
  BY DEF restStep
<1>3. u.files \in Seq(Files) /\ b \in Files
  BY <1>1, WalFields
<1>4. u.resv[b] - n \in Int
  BY <1>1, <1>3, FileFields
<1>5. r \in Int
  BY <1>4, RestInt
<1>6. c \in Int
  BY <1>5, Numbers
<1>7. p \in DOMAIN u.files /\ u.files[p] = u.cur /\ p \in Nat /\ u.cur = v.cur
  <2>1. p \in DOMAIN u.files /\ u.files[p] = u.cur /\ u.cur = v.cur
    BY DEF Rests
  <2> QED BY <1>3, <2>1
<1>8. b \in u.open
  <2>1. Listed(u, b)
    BY DEF Listed
  <2>2. p <= i /\ i \in Nat
    BY <1>3
  <2>3. b >= u.cur
    <3>1. CASE i = p
      BY <1>3, <1>7, <3>1, Numbers
    <3>2. CASE i # p
      <4>1. p < i
        BY <1>7, <2>2, <3>2
      <4>2. u.files[p] < u.files[i]
        BY <1>1, <1>7, <4>1 DEF Writing, Chain
      <4>3. b \in Nat /\ u.cur \in Nat
        BY <1>1, <1>3, Numbers DEF Writing
      <4> QED BY <1>7, <4>2, <4>3
    <3> QED BY <3>1, <3>2
  <2> QED BY <1>1, <1>3, <2>1, <2>3 DEF Writing
<1> HIDE DEF p, b, r, c
<1>9. TailFile(u) \in u.open
  BY <1>1, TailIsOpen
<1>10. x \in Rests(v)
  <2>1. Writing(x) /\ Grows(u, x) /\ Resources(u, x) /\ ~x.stuck
    BY <1>1, <1>6, <1>8, <1>9, MoveResv
  <2> HIDE DEF x
  <2>2. x \in Around(v)
    BY <1>1, <2>1, AroundStep DEF Resources, Honest
  <2> QED BY <1>7, <2>1, <2>2 DEF Rests, Resources, p
<1>11. /\ Writing(a) /\ Grows(u, a) /\ a.total = u.total /\ a.cur = u.cur /\ ~a.stuck
       /\ \A k \in DOMAIN u.files : k \in DOMAIN a.files /\ a.files[k] = u.files[k]
  BY <1>1, <1>5, NeedFree
<1>12. b \in a.open
  <2>1. Listed(a, b)
    BY <1>11 DEF Listed, b
  <2>2. b >= a.cur
    BY <1>1, <1>3, <1>8, <1>11 DEF Writing
  <2> QED BY <1>3, <1>11, <2>1, <2>2 DEF Writing
<1> HIDE DEF a
<1>13. a \in Rests(v)
  <2>1. a \in Around(v)
    BY <1>1, <1>11, AroundStep DEF Honest
  <2> QED BY <1>7, <1>11, <2>1 DEF Rests, p
<1>14. y \in Rests(v)
  <2>0. TailFile(a) \in a.open
    BY <1>11, TailIsOpen
  <2>1. Writing(y) /\ Grows(a, y) /\ Resources(a, y) /\ ~y.stuck
    BY <1>5, <1>11, <1>12, <2>0, MoveResv
  <2> HIDE DEF y
  <2>2. y \in Around(v)
    BY <1>13, <2>1, AroundStep DEF Resources, Rests, Honest
  <2> QED BY <1>7, <1>11, <1>13, <2>1, <2>2 DEF Rests, Resources, p
<1> QED BY <1>2, <1>10, <1>13, <1>14
\* So do all the visits.
LEMMA BalanceRest ==
  ASSUME NEW v, Writing(v), Honest(v), NEW m \in Int
  PROVE  balanceRest(v, m) \in Around(v)
<1> DEFINE X == Rests(v)
           n == Turns(v)
           first == PosOf(v, v.cur)
           Visit(u, i) == IF u.ok /\ i <= Len(u.files)
                          THEN restStep(u, i, IF i = first THEN m ELSE 0) ELSE u
           rest[k \in 0..n] == IF k = 0 THEN v ELSE Visit(rest[k - 1], first + k - 1)
           F == [k \in 1..n |-> [u \in X |-> Visit(u, first + k - 1)]]
<1>1. v \in X /\ first \in DOMAIN v.files
  BY GrowsReflexive, TailIsOpen DEF Around, Rests, Writing, Chain
<1>2. n \in Nat /\ first \in Nat /\ first >= 1
  <2>1. v.files \in Seq(Files) /\ v.room \in Nat
    BY WalFields DEF Writing, Chain
  <2> QED BY <1>1, <2>1 DEF Turns
<1>3. balanceRest(v, m) = rest[n]
  BY DEF balanceRest
<1>4. ASSUME NEW u \in X, NEW k \in 1..n PROVE Visit(u, first + k - 1) \in X
  <2> DEFINE i == first + k - 1
             c == IF i = first THEN m ELSE 0
  <2>1. i \in Nat /\ i >= first /\ i >= 1 /\ c \in Int
    BY <1>2
  <2> HIDE DEF first, i, c
  <2>2. CASE u.ok /\ i <= Len(u.files)
    <3>1. u.files \in Seq(Files)
      BY WalFields DEF Rests, Around
    <3>2. i \in DOMAIN u.files
      BY <2>1, <2>2, <3>1
    <3>3. restStep(u, i, c) \in X
      BY <2>1, <2>2, <3>2, RestStep DEF first
    <3> QED BY <2>2, <3>3 DEF i, c
  <2>3. CASE ~(u.ok /\ i <= Len(u.files))
    BY <2>3 DEF i
  <2> QED BY <2>2, <2>3
<1> HIDE DEF X, Visit, n, first
<1>5. F \in [1..n -> [X -> X]]
  BY <1>4
<1>6. \A k \in 1..n : \A u \in X : F[k][u] = Visit(u, first + k - 1)
  OBVIOUS
<1> HIDE DEF F
<1>7. PICK f \in [0..n -> X] : f[0] = v /\ \A k \in 1..n : f[k] = F[k][f[k - 1]]
  <2> HIDE DEF rest
  <2>1. PICK f : Iterates(X, v, n, F, f)
    BY <1>1, <1>2, <1>5, IteratesExist
  <2> QED BY <2>1 DEF Iterates
<1>8. f = [k \in 0..n |-> IF k = 0 THEN v ELSE Visit(f[k - 1], first + k - 1)]
  <2>1. ASSUME NEW k \in 0..n PROVE f[k] = IF k = 0 THEN v ELSE Visit(f[k - 1], first + k - 1)
    <3>1. k # 0 => k \in 1..n /\ k - 1 \in 0..n
      BY <1>2
    <3> QED BY <1>6, <1>7, <3>1
  <2> QED BY <2>1
<1>9. rest = [k \in 0..n |-> IF k = 0 THEN v ELSE Visit(rest[k - 1], first + k - 1)]
  BY <1>8
<1> HIDE DEF rest
<1>10. rest[0] = v /\ \A k \in 1..n : rest[k] = Visit(rest[k - 1], first + k - 1)
  BY <1>2, <1>9
<1>11. rest[0] \in X /\ \A k \in 1..n : rest[k - 1] \in X => rest[k] \in X
  BY <1>1, <1>4, <1>10
<1>12. rest[n] \in X
  BY <1>2, <1>11, LoopStays
<1> QED BY <1>3, <1>12 DEF X, Rests

\* balance as a whole.
LEMMA Balance ==
  ASSUME NEW v, Writing(v), Honest(v), NEW m \in Int
  PROVE  balance(v, m) \in Around(v)
<1> DEFINE u == balanceLoop(v, m)
<1>1. u \in Around(v) /\ Writing(u) /\ Honest(u)
  BY BalanceLoop DEF Around
<1>2. balance(v, m) = balanceRest(u, m)
  BY DEF balance
<1> HIDE DEF u
<1>3. balanceRest(u, m) \in Around(u)
  BY <1>1, BalanceRest
<1> QED BY <1>1, <1>2, <1>3, AroundStep DEF Around

\* A reservation leaves the files in order, and adds what it answers to the sum.
Reserved(v, n, u) ==
  /\ Grows(v, u) /\ Honest(u)
  /\ v.use => Writing(u)
  /\ ~v.use => /\ u \in WalRec /\ Resources(v, u) /\ u.free = v.free /\ u.resv = v.resv
               /\ u.ok /\ ~u.stuck
  /\ u.total = IF v.use /\ (u.ok \/ u.stuck) THEN v.total + n ELSE v.total

\* A reservation at the tail is made or taken back.
LEMMA ReserveLast ==
  ASSUME NEW v, Writing(v), v.use, v.ok, ~v.stuck, NEW n \in Int
  PROVE  Reserved(v, n, reserveLast(v, n))
<1> DEFINE t == TailFile(v)
           x == Take(v, t, n)
           b == balance(x, n)
           m == 0 - n
           y == Take(b, TailFile(b), m)
           z == [y EXCEPT !.torn = @ \/ TailFile(b) # t]
<1>1. t \in v.open
  BY TailIsOpen
<1>2. Writing(x) /\ Grows(v, x) /\ x.total = v.total + n /\ ~x.stuck
  BY <1>1, TakeFields
<1>3. m \in Int /\ v.total \in Int
  BY WalFields DEF Writing, Chain
<1>4. reserveLast(v, n) = IF b.ok \/ b.stuck THEN b ELSE z
  BY DEF reserveLast, takeBack
<1> HIDE DEF t, x, m
<1>5. Writing(b) /\ Grows(x, b) /\ b.total = x.total /\ Honest(b)
  BY <1>2, Balance DEF Around, Honest
<1> HIDE DEF b
<1>6. Writing(y) /\ Grows(b, y) /\ y.total = b.total + m /\ y.ok = b.ok /\ y.stuck = b.stuck
  <2> DEFINE g == TailFile(b)
  <2>1. g \in b.open /\ y = Take(b, g, m)
    BY <1>5, TailIsOpen
  <2> HIDE DEF g, y
  <2> QED BY <1>3, <1>5, <2>1, TakeFields
<1> HIDE DEF y
<1> DEFINE q == y.torn \/ TailFile(b) # t
<1>7. z = [y EXCEPT !.torn = q] /\ y \in WalRec /\ q \in BOOLEAN
  BY <1>6 DEF Writing, Chain, WalRec
<1> HIDE DEF q, z
<1>8. /\ z \in WalRec /\ z.files = y.files /\ z.cur = y.cur /\ z.next = y.next /\ z.use = y.use
      /\ z.open = y.open /\ z.reading = y.reading /\ z.alive = y.alive /\ z.total = y.total
      /\ z.list = y.list /\ z.used = y.used /\ z.room = y.room
      /\ z.spent = y.spent /\ z.spare = y.spare
      /\ z.free = y.free /\ z.resv = y.resv /\ z.ok = y.ok /\ z.stuck = y.stuck
  BY <1>7 DEF WalRec
<1>9. Writing(z)
  BY <1>6, <1>8 DEF Writing, Chain, Listed
<1>10. Grows(b, z)
  BY <1>6, <1>8 DEF Grows, Listed
<1>11. Grows(v, b) /\ Grows(v, z)
  BY <1>2, <1>5, <1>9, <1>10, GrowsTransitive
<1>12. b.total = v.total + n
  BY <1>2, <1>5
<1>13. z.total = v.total
  BY <1>3, <1>6, <1>8, <1>12 DEF m
<1> QED BY <1>4, <1>5, <1>6, <1>8, <1>9, <1>11, <1>12, <1>13 DEF Reserved, Honest

\* v with an answer.
LEMMA Answered ==
  ASSUME NEW v \in WalRec, NEW u, u = [v EXCEPT !.ok = TRUE]
  PROVE  u \in WalRec /\ u.total = v.total /\ u.ok /\ u.free = v.free /\ u.resv = v.resv
         /\ u.stuck = v.stuck /\ Resources(v, u)
BY DEF WalRec, Resources

\* reserve, if the log is in use, and if it is not.
LEMMA Reserve1 ==
  ASSUME NEW v \in WalRec, v.use => Writing(v), v.ok, ~v.stuck, NEW n \in Int
  PROVE  Reserved(v, n, reserve(v, n))
<1> DEFINE u == reserve(v, n)
           a == needFree(v, n)
<1>1. CASE ~v.use
  <2>1. u = [v EXCEPT !.ok = TRUE]
    BY <1>1 DEF reserve
  <2>2. /\ u \in WalRec /\ u.total = v.total /\ u.free = v.free /\ Resources(v, u)
        /\ u.resv = v.resv /\ u.ok /\ ~u.stuck
    BY <2>1, Answered
  <2> HIDE DEF u
  <2>3. v.next >= v.next /\ v.cur >= v.cur
    BY WalFields
  <2>4. \A f \in Files : Listed(u, f) <=> Listed(v, f)
    BY <2>2 DEF Listed, Resources
  <2>5. Grows(v, u)
    BY <2>2, <2>3, <2>4 DEF Grows, Resources
  <2> QED BY <1>1, <2>2, <2>5 DEF Reserved, Honest, u
<1>2. CASE v.use /\ v.free[v.cur] >= n
  <2> DEFINE x == Take(v, v.cur, n)
  <2>1. u = [x EXCEPT !.ok = TRUE]
    BY <1>2 DEF reserve
  <2>2. Writing(x) /\ Grows(v, x) /\ x.total = v.total + n /\ ~x.stuck
    BY <1>2, TailIsOpen, TakeFields
  <2> HIDE DEF x
  <2>3. x \in WalRec
    BY <2>2 DEF Writing, Chain
  <2>4. /\ u \in WalRec /\ u.total = x.total /\ u.ok /\ u.free = x.free /\ u.resv = x.resv
        /\ Resources(x, u) /\ u.stuck = x.stuck
    BY <2>1, <2>3, Answered
  <2> HIDE DEF u
  <2>5. Writing(u) /\ Grows(x, u)
    BY <2>2, <2>4, ResourcesGrow
  <2>6. Grows(v, u)
    BY <1>2, <2>2, <2>5, GrowsTransitive
  <2> QED BY <1>2, <2>2, <2>4, <2>5, <2>6 DEF Reserved, Honest, u
<1>3. CASE v.use /\ ~(v.free[v.cur] >= n)
  <2>1. u = reserveLast(a, n)
    BY <1>3 DEF reserve
  <2>2. Writing(a) /\ Grows(v, a) /\ a.total = v.total /\ a.stuck = v.stuck
    BY <1>3, NeedFree
  <2> HIDE DEF u, a
  <2>3. a.use
    BY <1>3, <2>2 DEF Grows
  <2>4. CASE a.ok
    <3>1. Reserved(a, n, u)
      BY <2>1, <2>2, <2>3, <2>4, ReserveLast
    <3>2. Grows(v, u)
      BY <1>3, <2>2, <2>3, <3>1, GrowsTransitive DEF Reserved
    <3> QED BY <1>3, <2>2, <2>3, <3>1, <3>2 DEF Reserved, u
  <2>5. CASE ~a.ok
    <3>1. u = a
      BY <2>1, <2>5 DEF reserveLast
    <3> QED BY <1>3, <2>2, <2>5, <3>1 DEF Reserved, Honest, u
  <2> QED BY <2>4, <2>5
<1> QED BY <1>1, <1>2, <1>3

-----------------------------------------------------------------------------
(* The bytes of a sequence of records. *)

\* f[k] are the bytes of the first k records.
Sums(recs, f) ==
  /\ f \in [0..Len(recs) -> Nat] /\ f[0] = 0
  /\ \A k \in 1..Len(recs) : f[k] = f[k - 1] + Written(recs[k])

\* Sizes are naturals.
LEMMA WrittenNat ==
  ASSUME NEW r \in Recs
  PROVE  Written(r) \in Nat /\ r.id \in Ids /\ r.st \in States /\ r.body \in BOOLEAN
         /\ RecSize(r) \in Nat /\ r.kind \in Kinds \cup {"short"}
<1>1. r.kind \in Kinds \cup {"short"} /\ r.body \in BOOLEAN /\ r.id \in Ids /\ r.st \in States
  BY DEF Recs
<1>2. Extra \in [Kinds -> Nat]
  BY SizesAssumption
<1>3. IsFull(r) => Extra[r.kind] \in Nat
  BY <1>1, <1>2 DEF IsFull
<1>4. (IF IsFull(r) THEN Extra[r.kind] ELSE 0) \in Nat
  BY <1>3
<1>5. RecSize(r) \in Nat
  BY <1>4, Numbers DEF RecSize
<1> QED BY <1>1, <1>5, Numbers DEF Written

\* Bytes is the sum of what was written of each record.
LEMMA BytesIs ==
  ASSUME NEW recs \in Seq(Recs)
  PROVE  \E f : Sums(recs, f) /\ Bytes(recs) = f[Len(recs)]
<1> DEFINE n == Len(recs)
           sum[i \in 0..n] == IF i = 0 THEN 0 ELSE sum[i - 1] + Written(recs[i])
           F == [k \in 1..n |-> [u \in Nat |-> u + Written(recs[k])]]
<1>1. n \in Nat /\ \A k \in 1..n : recs[k] \in Recs
  OBVIOUS
<1>2. Bytes(recs) = sum[n]
  BY DEF Bytes
<1>0. Len(recs) = n
  OBVIOUS
<1> HIDE DEF n
<1>3. \A k \in 1..n : Written(recs[k]) \in Nat
  BY <1>1, WrittenNat
<1>4. F \in [1..n -> [Nat -> Nat]] /\ \A k \in 1..n : \A u \in Nat : F[k][u] = u + Written(recs[k])
  BY <1>3
<1> HIDE DEF F
<1>5. PICK f \in [0..n -> Nat] : f[0] = 0 /\ \A k \in 1..n : f[k] = F[k][f[k - 1]]
  <2> HIDE DEF sum
  <2>0. 0 \in Nat
    OBVIOUS
  <2>1. PICK f : Iterates(Nat, 0, n, F, f)
    BY <2>0, <1>1, <1>4, IteratesExist
  <2> QED BY <2>1 DEF Iterates
<1>6. f = [k \in 0..n |-> IF k = 0 THEN 0 ELSE f[k - 1] + Written(recs[k])]
  <2>1. ASSUME NEW k \in 0..n PROVE f[k] = IF k = 0 THEN 0 ELSE f[k - 1] + Written(recs[k])
    <3>1. k # 0 => k \in 1..n /\ k - 1 \in 0..n
      BY <1>1
    <3> QED BY <1>4, <1>5, <3>1
  <2> QED BY <2>1
<1>7. sum = [k \in 0..n |-> IF k = 0 THEN 0 ELSE sum[k - 1] + Written(recs[k])]
  BY <1>6
<1> HIDE DEF sum
<1>8. Sums(recs, sum)
  <2>1. sum[0] = 0 /\ \A k \in 1..n : sum[k] = sum[k - 1] + Written(recs[k])
    BY <1>1, <1>7
  <2>2. \A k \in 1..n : sum[k - 1] \in Nat => sum[k] \in Nat
    BY <1>3, <2>1
  <2>3. ASSUME NEW m \in 0..n PROVE sum[m] \in Nat
    <3>1. \A k \in 1..m : sum[k - 1] \in Nat => sum[k] \in Nat
      BY <1>1, <2>2
    <3>2. m \in Nat /\ sum[0] \in Nat
      BY <1>1, <2>1
    <3> QED BY <3>1, <3>2, LoopStays
  <2>4. sum \in [0..n -> Nat]
    BY <2>3, <1>7
  <2> QED BY <1>0, <2>1, <2>4 DEF Sums
<1> QED BY <1>0, <1>2, <1>8

\* Sums of sequences that agree on their first records agree.
LEMMA SumsAgree ==
  ASSUME NEW r1 \in Seq(Recs), NEW r2 \in Seq(Recs), NEW f, NEW g, Sums(r1, f), Sums(r2, g),
         NEW n \in Nat, n <= Len(r1), n <= Len(r2),
         \A k \in 1..n : Written(r1[k]) = Written(r2[k])
  PROVE  f[n] = g[n]
<1> DEFINE X == {0}
           d == [k \in 0..n |-> f[k] - g[k]]
<1>1. Len(r1) \in Nat /\ Len(r2) \in Nat
  OBVIOUS
<1>2. \A k \in 0..n : f[k] \in Nat /\ g[k] \in Nat
  <2>1. \A k \in 0..n : k \in 0..Len(r1) /\ k \in 0..Len(r2)
    BY <1>1
  <2>2. f \in [0..Len(r1) -> Nat] /\ g \in [0..Len(r2) -> Nat]
    BY DEF Sums
  <2> QED BY <2>1, <2>2
<1>3. \A k \in 1..n : Written(r1[k]) \in Nat /\ Written(r2[k]) \in Nat
  <2>1. \A k \in 1..n : r1[k] \in Recs /\ r2[k] \in Recs
    BY <1>1
  <2> QED BY <2>1, WrittenNat
<1>4. d[0] \in X
  BY DEF Sums
<1>5. ASSUME NEW k \in 1..n, d[k - 1] \in X PROVE d[k] \in X
  <2>1. k \in 0..n /\ k - 1 \in 0..n
    OBVIOUS
  <2>2. f[k] = f[k - 1] + Written(r1[k])
    <3>1. k \in 1..Len(r1)
      BY <1>1
    <3> QED BY <3>1 DEF Sums
  <2>3. g[k] = g[k - 1] + Written(r2[k])
    <3>1. k \in 1..Len(r2)
      BY <1>1
    <3> QED BY <3>1 DEF Sums
  <2>4. d[k] = f[k] - g[k] /\ d[k - 1] = f[k - 1] - g[k - 1]
    BY <2>1
  <2>5. f[k - 1] \in Nat /\ g[k - 1] \in Nat /\ Written(r1[k]) \in Nat /\ Written(r1[k]) = Written(r2[k])
    BY <1>2, <1>3, <2>1
  <2>6. f[k - 1] = g[k - 1]
    BY <1>5, <2>4, <2>5
  <2>7. f[k] = g[k] /\ f[k] \in Nat
    BY <1>2, <2>1, <2>2, <2>3, <2>5, <2>6
  <2> QED BY <2>4, <2>7
<1>6. d[n] \in X
  <2> HIDE DEF d, X
  <2> QED BY <1>4, <1>5, LoopStays
<1>7. d[n] = f[n] - g[n] /\ f[n] \in Nat /\ g[n] \in Nat
  BY <1>2
<1> QED BY <1>6, <1>7

\* The bytes of no record, of one more, and of a part of the records.
LEMMA BytesFacts ==
  ASSUME NEW recs \in Seq(Recs)
  PROVE  Bytes(recs) \in Nat /\ (recs = <<>> => Bytes(recs) = 0)
<1>1. PICK f : Sums(recs, f) /\ Bytes(recs) = f[Len(recs)]
  BY BytesIs
<1>2. Len(recs) \in Nat /\ Len(recs) \in 0..Len(recs) /\ (recs = <<>> => Len(recs) = 0)
  OBVIOUS
<1> QED BY <1>1, <1>2 DEF Sums

\* A record more, and a record of which the rest was written.
LEMMA BytesAppend ==
  ASSUME NEW recs \in Seq(Recs), NEW r \in Recs
  PROVE  /\ Append(recs, r) \in Seq(Recs)
         /\ Bytes(Append(recs, r)) = Bytes(recs) + Written(r)
<1> DEFINE more == Append(recs, r)
           n == Len(recs)
<1>1. more \in Seq(Recs) /\ Len(more) = n + 1 /\ n \in Nat /\ more[n + 1] = r
  OBVIOUS
<1>2. \A k \in 1..n : more[k] = recs[k]
  OBVIOUS
<1> HIDE DEF more
<1>3. PICK f : Sums(recs, f) /\ Bytes(recs) = f[n]
  BY BytesIs
<1>4. PICK g : Sums(more, g) /\ Bytes(more) = g[Len(more)]
  BY <1>1, BytesIs
<1>5. n <= Len(recs) /\ n <= Len(more)
  BY <1>1
<1>6. g[n] = f[n]
  <2>1. \A k \in 1..n : Written(recs[k]) = Written(more[k])
    BY <1>2
  <2> QED BY <1>1, <1>3, <1>4, <1>5, <2>1, SumsAgree
<1>7. g[n + 1] = g[(n + 1) - 1] + Written(more[n + 1])
  <2>1. n + 1 \in 1..Len(more)
    BY <1>1
  <2> QED BY <1>4, <2>1 DEF Sums
<1>8. (n + 1) - 1 = n
  BY <1>1
<1> QED BY <1>1, <1>3, <1>4, <1>6, <1>7, <1>8 DEF more

\* The body of the last record adds its size.
LEMMA BytesBody ==
  ASSUME NEW recs \in Seq(Recs), recs # <<>>, IsFull(recs[Len(recs)]), ~recs[Len(recs)].body,
         NEW more \in Seq(Recs), Len(more) = Len(recs),
         \A k \in 1..(Len(recs) - 1) : more[k] = recs[k],
         more[Len(recs)].kind = recs[Len(recs)].kind, more[Len(recs)].body
  PROVE  Bytes(more) = Bytes(recs) + Extra[recs[Len(recs)].kind]
<1> DEFINE n == Len(recs)
           last == recs[n]
<1>1. n \in Nat /\ n >= 1 /\ last \in Recs
  OBVIOUS
<1>0. Len(recs) = n /\ last = recs[n] /\ IsFull(last) /\ ~last.body
  OBVIOUS
<1>4. more \in Seq(Recs) /\ Len(more) = n /\ more[n].kind = last.kind /\ more[n].body
  OBVIOUS
<1>5. \A k \in 1..(n - 1) : more[k] = recs[k]
  OBVIOUS
<1> HIDE DEF n, last
<1>6. PICK f : Sums(recs, f) /\ Bytes(recs) = f[n]
  BY <1>0, BytesIs
<1>7. PICK g : Sums(more, g) /\ Bytes(more) = g[n]
  BY <1>4, BytesIs
<1> DEFINE m == n - 1
<1>8. m \in Nat /\ m <= Len(recs) /\ m <= Len(more) /\ n \in 1..Len(recs) /\ n \in 1..Len(more)
      /\ m \in 0..Len(recs)
  BY <1>0, <1>1, <1>4
<1>9. f[n] = f[m] + Written(recs[n]) /\ g[n] = g[m] + Written(more[n]) /\ f[m] \in Nat
  BY <1>6, <1>7, <1>8 DEF Sums
<1>10. \A k \in 1..m : Written(recs[k]) = Written(more[k])
  BY <1>5
<1> HIDE DEF m
<1>11. f[m] = g[m]
  <2>1. Sums(recs, f) /\ Sums(more, g) /\ m \in Nat /\ m <= Len(recs) /\ m <= Len(more)
    BY <1>6, <1>7, <1>8
  <2>2. more \in Seq(Recs)
    BY <1>4
  <2> QED BY <1>10, <2>1, <2>2, SumsAgree
<1>12. Written(recs[n]) = Short /\ Written(more[n]) = Short + Extra[last.kind]
  BY <1>0, <1>4 DEF Written, RecSize, IsFull
<1>13. Extra[last.kind] \in Nat
  BY <1>0, <1>1, SizesAssumption DEF IsFull, Recs
<1> QED BY <1>0, <1>4, <1>6, <1>7, <1>9, <1>11, <1>12, <1>13, Numbers

-----------------------------------------------------------------------------
(* Truncation. *)

\* The greatest of numbers that are not over n.
LEMMA MaxIs ==
  ASSUME NEW n \in Nat, NEW S \in SUBSET (0..n), S # {}
  PROVE  Max(S) \in S /\ \A i \in S : Max(S) >= i
<1> DEFINE T == {k \in Nat : \E i \in S : k = n - i}
<1>1. T \in SUBSET Nat /\ T # {}
  <2>1. PICK i \in S : TRUE
    OBVIOUS
  <2>2. n - i \in Nat
    BY <2>1
  <2>3. n - i \in T
    BY <2>2
  <2> QED BY <2>3
<1>2. PICK k \in T : \A l \in T : k <= l
  <2> HIDE DEF T
  <2> QED BY <1>1, LeastNumber
<1>3. PICK m \in S : k = n - m
  BY <1>2
<1>4. \A i \in S : n - i \in T /\ i \in 0..n
  OBVIOUS
<1>5. \A i \in S : k <= n - i
  BY <1>2, <1>4
<1>6. \E x \in S : \A i \in S : x >= i
  BY <1>3, <1>4, <1>5
<1> QED BY <1>6 DEF Max

\* What Truncate leaves is a prefix that fits.
LEMMA KeptIs ==
  ASSUME NEW recs \in Seq(Recs), NEW size \in Int
  PROVE  \E m \in 0..Len(recs) :
           /\ Kept(recs, size) = SubSeq(recs, 1, m)
           /\ Header + Bytes(recs) <= size => m = Len(recs)
<1> DEFINE fits == {i \in 0..Len(recs) : Header + Bytes(SubSeq(recs, 1, i)) <= size}
           S == fits \cup {0}
<1>1. S \subseteq 0..Len(recs) /\ S # {} /\ Len(recs) \in Nat
  OBVIOUS
<1>2. Header + Bytes(recs) <= size => Len(recs) \in S
  <2>1. SubSeq(recs, 1, Len(recs)) = recs
    OBVIOUS
  <2>2. Len(recs) \in 0..Len(recs)
    BY <1>1
  <2> QED BY <2>1, <2>2
<1> HIDE DEF S
<1>4. Max(S) \in S /\ \A i \in S : Max(S) >= i
  BY <1>1, MaxIs
<1>5. Kept(recs, size) = SubSeq(recs, 1, Max(S))
  BY DEF Kept, S
<1> DEFINE m == Max(S)
<1> HIDE DEF m
<1>6. m \in S /\ (\A i \in S : m >= i) /\ Kept(recs, size) = SubSeq(recs, 1, m)
  BY <1>4, <1>5 DEF m
<1>7. m \in 0..Len(recs)
  BY <1>1, <1>6
<1>8. Header + Bytes(recs) <= size => m = Len(recs)
  BY <1>1, <1>2, <1>6, <1>7
<1> QED BY <1>6, <1>7, <1>8

\* A file that is truncated is a file with the first of its records; with all of them when
\* the size is not less than what they take.
LEMMA Cutting ==
  ASSUME NEW file \in DirRec, NEW size \in Int
  PROVE  /\ Truncated(file, size) \in DirRec
         /\ \E m \in 0..Len(file.recs) : Truncated(file, size).recs = SubSeq(file.recs, 1, m)
         /\ Header + Bytes(file.recs) <= size => Truncated(file, size) = file
<1>1. file.recs \in Seq(Recs) /\ file.ver \in Nat
      /\ file = [ver |-> file.ver, recs |-> file.recs] /\ Len(file.recs) \in Nat
  BY DEF DirRec
<1>2. CASE size < 0
  <2>1. Truncated(file, size) = file
    BY <1>2 DEF Truncated
  <2>2. file.recs = SubSeq(file.recs, 1, Len(file.recs)) /\ Len(file.recs) \in 0..Len(file.recs)
    BY <1>1
  <2> QED BY <2>1, <2>2
<1>3. CASE ~(size < 0)
  <2> DEFINE ver == IF size < Header THEN 0 ELSE file.ver
             recs == Kept(file.recs, size)
  <2>1. Truncated(file, size) = [ver |-> ver, recs |-> recs]
    BY <1>3 DEF Truncated
  <2>2. ver \in Nat
    BY <1>1
  <2>3. PICK m \in 0..Len(file.recs) : recs = SubSeq(file.recs, 1, m)
                       /\ (Header + Bytes(file.recs) <= size => m = Len(file.recs))
    BY <1>1, KeptIs
  <2>4. Header + Bytes(file.recs) <= size => ver = file.ver
    <3>1. Bytes(file.recs) \in Nat
      BY <1>1, BytesFacts
    <3> QED BY <3>1, Numbers
  <2> HIDE DEF ver, recs
  <2>5. recs \in Seq(Recs)
    BY <1>1, <2>3
  <2>6. Header + Bytes(file.recs) <= size => recs = file.recs
    BY <1>1, <2>3
  <2>7. Truncated(file, size) \in DirRec /\ Truncated(file, size).recs = recs
    BY <2>1, <2>2, <2>5 DEF DirRec
  <2> QED BY <1>1, <2>1, <2>3, <2>4, <2>6, <2>7
<1> QED BY <1>2, <1>3

-----------------------------------------------------------------------------
(* The directory. *)

Prefix(s, t) == \E m \in 0..Len(t) : s = SubSeq(t, 1, m)

\* d is the directory after the process went from w to v.
DirStep(v, d) ==
  /\ DOMAIN d \subseteq Files /\ d \in [DOMAIN d -> DirRec]
  /\ \A f \in Files : f \in DOMAIN d <=>
       (f \in DOMAIN dir /\ (Listed(w, f) => Listed(v, f))) \/ Listed(v, f)
  /\ \A f \in DOMAIN d : f \notin DOMAIN dir => d[f].ver = WalVer /\ d[f].recs = <<>>
  /\ \A f \in DOMAIN d : f \in DOMAIN dir => Prefix(d[f].recs, dir[f].recs)
  /\ \A f \in DOMAIN d :
       /\ f \in DOMAIN dir
       /\ f \in v.open \/ f \notin w.open \/ Header + Bytes(dir[f].recs) <= FileSize - v.free[f]
       => d[f] = dir[f]

DirTypes == DOMAIN dir \subseteq Files /\ dir \in [DOMAIN dir -> DirRec]

\* A sequence is a prefix of itself.
LEMMA WholePrefix ==
  ASSUME NEW s \in Seq(Recs)
  PROVE  Prefix(s, s)
<1>1. Len(s) \in 0..Len(s) /\ s = SubSeq(s, 1, Len(s))
  OBVIOUS
<1> QED BY <1>1 DEF Prefix

\* DirOf creates what is new in the list, unlinks what left it, and cuts what was closed.
LEMMA Unlinking ==
  ASSUME w \in WalRec, DirTypes, NEW v \in WalRec, NEW d, d = DirOf(v)
  PROVE  DirStep(v, d)
<1> DEFINE was == ToSet(w.files)
           now == ToSet(v.files)
           Cut(f) == f \in w.open \ v.open /\ v.free[f] > 0
           new == [ver |-> WalVer, recs |-> <<>>]
           E(f) == IF f \notin DOMAIN dir THEN new
                   ELSE IF Cut(f) THEN Truncated(dir[f], FileSize - v.free[f]) ELSE dir[f]
           D == (DOMAIN dir \ (was \ now)) \cup now
<1>1. d = [f \in D |-> E(f)]
  BY DEF DirOf
<1>2. was \subseteq Files /\ now \subseteq Files
  <2>1. w.files \in Seq(Files) /\ v.files \in Seq(Files)
    BY WalFields
  <2> QED BY <2>1 DEF ToSet
<1>3. \A f : (f \in was <=> Listed(w, f)) /\ (f \in now <=> Listed(v, f))
  BY DEF ToSet, Listed
<1>4. ASSUME NEW f \in DOMAIN dir
      PROVE  /\ dir[f] \in DirRec /\ v.free[f] \in Int /\ FileSize - v.free[f] \in Int
             /\ dir[f].recs \in Seq(Recs)
  <2>1. f \in Files /\ dir[f] \in DirRec
    BY DEF DirTypes
  <2>2. v.free[f] \in Int
    BY <2>1, FileFields
  <2> QED BY <2>1, <2>2, Numbers DEF DirRec
<1>5. new \in DirRec /\ new.ver = WalVer /\ new.recs = <<>>
  BY DEF DirRec, WalVer
<1>6. ASSUME NEW f \in DOMAIN dir
      PROVE  /\ E(f) \in DirRec /\ Prefix(E(f).recs, dir[f].recs)
             /\ (f \in v.open \/ f \notin w.open
                   \/ Header + Bytes(dir[f].recs) <= FileSize - v.free[f] => E(f) = dir[f])
  <2>1. CASE Cut(f)
    <3>1. E(f) = Truncated(dir[f], FileSize - v.free[f])
      BY <2>1
    <3>2. /\ E(f) \in DirRec /\ \E m \in 0..Len(dir[f].recs) : E(f).recs = SubSeq(dir[f].recs, 1, m)
          /\ Header + Bytes(dir[f].recs) <= FileSize - v.free[f] => E(f) = dir[f]
      <4> DEFINE size == FileSize - v.free[f]
                 file == dir[f]
      <4>1. size \in Int /\ file \in DirRec /\ E(f) = Truncated(file, size)
        BY <1>4, <3>1
      <4> HIDE DEF E, size, file
      <4>2. /\ Truncated(file, size) \in DirRec
            /\ \E m \in 0..Len(file.recs) : Truncated(file, size).recs = SubSeq(file.recs, 1, m)
            /\ Header + Bytes(file.recs) <= size => Truncated(file, size) = file
        BY <4>1, Cutting
      <4> QED BY <4>1, <4>2 DEF size, file
    <3>3. ~(f \in v.open \/ f \notin w.open)
      BY <2>1
    <3> HIDE DEF E
    <3> QED BY <3>2, <3>3 DEF Prefix
  <2>2. CASE ~Cut(f)
    <3>1. E(f) = dir[f]
      BY <2>2
    <3> HIDE DEF E
    <3> QED BY <1>4, <3>1, WholePrefix
  <2> QED BY <2>1, <2>2
<1>7. \A f \in D : f \notin DOMAIN dir => E(f) = new
  OBVIOUS
<1> HIDE DEF E, new
<1>8. DOMAIN d = D /\ \A f \in D : d[f] = E(f)
  BY <1>1
<1>9. D \subseteq Files
  BY <1>2 DEF DirTypes
<1>10. \A f \in Files : f \in D <=>
         (f \in DOMAIN dir /\ (Listed(w, f) => Listed(v, f))) \/ Listed(v, f)
  BY <1>3
<1> HIDE DEF D
<1>11. d \in [DOMAIN d -> DirRec]
  <2>1. \A f \in D : E(f) \in DirRec
    BY <1>5, <1>6, <1>7
  <2> QED BY <1>1, <1>8, <2>1
<1> QED BY <1>5, <1>6, <1>7, <1>8, <1>9, <1>10, <1>11 DEF DirStep

\* What is kept of v.
LEMMA SettledFields ==
  ASSUME NEW v \in WalRec, NEW u, u = Settled(v)
  PROVE  /\ u \in WalRec
         /\ u.files = v.files /\ u.cur = v.cur /\ u.next = v.next /\ u.use = v.use
         /\ u.open = v.open /\ u.reading = v.reading /\ u.total = v.total /\ u.alive = v.alive
         /\ u.list = v.list /\ u.used = v.used
         /\ u.spent = v.spent /\ u.spare = v.spare /\ u.torn = v.torn
         /\ u.ok /\ ~u.stuck /\ u.room = 0
         /\ \A f \in v.open : u.free[f] = v.free[f] /\ u.resv[f] = v.resv[f]
<1> DEFINE free == [f \in Files |-> IF f \in v.open THEN v.free[f] ELSE 0]
           resv == [f \in Files |-> IF f \in v.open THEN v.resv[f] ELSE 0]
<1>1. v.open \subseteq Files
  BY WalFields
<1>2. \A f \in v.open : free[f] = v.free[f] /\ resv[f] = v.resv[f]
  BY <1>1
<1>3. free \in [Files -> Int] /\ resv \in [Files -> Int]
  BY FileFields
<1>4. u = [v EXCEPT !.ok = TRUE, !.stuck = FALSE, !.room = 0, !.free = free, !.resv = resv]
  BY DEF Settled
<1> HIDE DEF free, resv
<1>5. /\ u.files = v.files /\ u.cur = v.cur /\ u.next = v.next /\ u.use = v.use
      /\ u.open = v.open /\ u.reading = v.reading /\ u.total = v.total /\ u.alive = v.alive
      /\ u.list = v.list /\ u.used = v.used
  BY <1>4 DEF WalRec
<1>6. /\ u.spent = v.spent /\ u.spare = v.spare /\ u.torn = v.torn
      /\ u.ok /\ ~u.stuck /\ u.room = 0 /\ u.free = free /\ u.resv = resv
  BY <1>4 DEF WalRec
<1>7. u \in WalRec
  <2> DEFINE x == [v EXCEPT !.ok = TRUE, !.stuck = FALSE, !.room = 0]
  <2>1. x \in WalRec
    BY DEF WalRec
  <2>2. u = [x EXCEPT !.free = free, !.resv = resv]
    BY <1>4 DEF WalRec
  <2> HIDE DEF x
  <2> QED BY <1>3, <2>1, <2>2 DEF WalRec
<1> QED BY <1>2, <1>5, <1>6, <1>7

\* What is forgotten of closed files does not disturb the list.
LEMMA SettledChain ==
  ASSUME NEW v, Chain(v), NEW u, u = Settled(v)
  PROVE  /\ Chain(u) /\ (Writing(v) => Writing(u)) /\ (Once(v) => Once(u))
         /\ \A f \in Files : Listed(u, f) <=> Listed(v, f)
<1>1. /\ u \in WalRec
      /\ u.files = v.files /\ u.cur = v.cur /\ u.next = v.next
      /\ u.open = v.open /\ u.reading = v.reading /\ u.list = v.list /\ u.room = 0
  BY SettledFields DEF Chain
<1>2. v.next \in Nat /\ v.room \in Nat /\ v.next + v.room <= MaxFiles + 1
  BY WalFields DEF Chain
<1>3. \A f \in Files : Listed(u, f) <=> Listed(v, f)
  BY <1>1 DEF Listed
<1>4. u.next + u.room <= MaxFiles + 1
  BY <1>1, <1>2, Numbers
<1>5. Chain(u)
  BY <1>1, <1>3, <1>4 DEF Chain
<1>6. Writing(v) => Writing(u)
  BY <1>1, <1>3, <1>5 DEF Writing
<1>7. Once(v) => Once(u)
  BY <1>1 DEF Once
<1> QED BY <1>3, <1>5, <1>6, <1>7

-----------------------------------------------------------------------------
(* Jobs of a file. *)

Distinct(l) == \A i, k \in DOMAIN l : l[i] = l[k] => i = k
Has(l, j) == \E i \in DOMAIN l : l[i] = j

\* A job leaves a list.
LEMMA Dropping ==
  ASSUME NEW S, NEW l \in Seq(S), NEW j, Has(l, j), Distinct(l), NEW m, m = DropJob(l, j)
  PROVE  /\ m \in Seq(S) /\ Distinct(m) /\ Len(m) = Len(l) - 1
         /\ \A k : Has(m, k) <=> Has(l, k) /\ k # j
<1> DEFINE i == CHOOSE x \in DOMAIN l : l[x] = j
           n == Len(l)
<1>1. i \in DOMAIN l /\ l[i] = j
  BY DEF Has
<1>2. m = SubSeq(l, 1, i - 1) \o SubSeq(l, i + 1, Len(l))
  BY DEF DropJob, RemoveAt
<1>0. n \in Nat /\ DOMAIN l = 1..n /\ Len(l) = n
  OBVIOUS
<1> HIDE DEF i, n
<1>3. i \in 1..n
  BY <1>0, <1>1
<1>4. /\ SubSeq(l, 1, i - 1) \in Seq(S) /\ Len(SubSeq(l, 1, i - 1)) = i - 1
      /\ SubSeq(l, i + 1, n) \in Seq(S) /\ Len(SubSeq(l, i + 1, n)) = n - i
      /\ \A k \in 1..(i - 1) : SubSeq(l, 1, i - 1)[k] = l[k]
      /\ \A k \in 1..(n - i) : SubSeq(l, i + 1, n)[k] = l[k + i]
  BY <1>0, <1>3
<1>5. /\ m \in Seq(S) /\ Len(m) = n - 1
      /\ \A k \in 1..(n - 1) : m[k] = IF k < i THEN l[k] ELSE l[k + 1]
  <2> DEFINE a == SubSeq(l, 1, i - 1)
             b == SubSeq(l, i + 1, n)
  <2>1. m = a \o b /\ a \in Seq(S) /\ b \in Seq(S) /\ Len(a) = i - 1 /\ Len(b) = n - i
    BY <1>0, <1>2, <1>4
  <2>2. \A k \in 1..(i - 1) : a[k] = l[k]
    BY <1>4
  <2>3. \A k \in 1..(n - i) : b[k] = l[k + i]
    BY <1>4
  <2> HIDE DEF a, b
  <2>4. m \in Seq(S) /\ Len(m) = n - 1
    BY <2>1, <1>0, <1>3
  <2>5. ASSUME NEW k \in 1..(n - 1) PROVE m[k] = IF k < i THEN l[k] ELSE l[k + 1]
    <3>1. CASE k < i
      <4>1. k \in 1..(i - 1)
        BY <3>1, <1>0, <1>3
      <4>2. m[k] = a[k]
        BY <4>1, <2>1, <1>0, <1>3
      <4> QED BY <3>1, <4>1, <4>2, <2>2
    <3>2. CASE ~(k < i)
      <4>1. k - Len(a) \in 1..(n - i) /\ k > Len(a) /\ (k - Len(a)) + i = k + 1
        BY <3>2, <2>1, <1>0, <1>3
      <4>2. m[k] = b[k - Len(a)]
        BY <4>1, <2>1, <1>0, <1>3
      <4>3. b[k - Len(a)] = l[(k - Len(a)) + i]
        BY <4>1, <2>3
      <4> QED BY <3>2, <4>1, <4>2, <4>3
    <3> QED BY <3>1, <3>2
  <2> QED BY <2>4, <2>5
<1>6. DOMAIN m = 1..(n - 1)
  BY <1>5, <1>0
<1>7. ASSUME NEW k \in DOMAIN m
      PROVE  \E p \in DOMAIN l : p # i /\ m[k] = l[p] /\ p = IF k < i THEN k ELSE k + 1
  <2>1. CASE k < i
    <3>1. k \in DOMAIN l /\ k # i /\ m[k] = l[k]
      BY <2>1, <1>0, <1>3, <1>5, <1>6
    <3> QED BY <2>1, <3>1
  <2>2. CASE ~(k < i)
    <3>1. k + 1 \in DOMAIN l /\ k + 1 # i /\ m[k] = l[k + 1]
      BY <2>2, <1>0, <1>3, <1>5, <1>6
    <3> QED BY <2>2, <3>1
  <2> QED BY <2>1, <2>2
<1>8. ASSUME NEW p \in DOMAIN l, p # i PROVE \E k \in DOMAIN m : m[k] = l[p]
  <2>1. CASE p < i
    <3>1. p \in DOMAIN m /\ m[p] = l[p]
      BY <2>1, <1>0, <1>3, <1>5, <1>6
    <3> QED BY <3>1
  <2>2. CASE ~(p < i)
    <3>1. p - 1 \in DOMAIN m /\ ~(p - 1 < i) /\ (p - 1) + 1 = p /\ p - 1 \in 1..(n - 1)
      BY <2>2, <1>8, <1>0, <1>3, <1>5, <1>6
    <3>2. m[p - 1] = l[p]
      BY <3>1, <1>5
    <3> QED BY <3>1, <3>2
  <2> QED BY <2>1, <2>2
<1>9. \A k : Has(m, k) <=> Has(l, k) /\ k # j
  <2> SUFFICES ASSUME NEW k PROVE Has(m, k) <=> Has(l, k) /\ k # j
    OBVIOUS
  <2>1. Has(m, k) => Has(l, k) /\ k # j
    BY <1>1, <1>7 DEF Has, Distinct
  <2>2. Has(l, k) /\ k # j => Has(m, k)
    BY <1>1, <1>8 DEF Has
  <2> QED BY <2>1, <2>2
<1>10. ASSUME NEW k1 \in DOMAIN m, NEW k2 \in DOMAIN m, m[k1] = m[k2] PROVE k1 = k2
  <2>1. PICK p1 \in DOMAIN l : m[k1] = l[p1] /\ p1 = IF k1 < i THEN k1 ELSE k1 + 1
    BY <1>7
  <2>2. PICK p2 \in DOMAIN l : m[k2] = l[p2] /\ p2 = IF k2 < i THEN k2 ELSE k2 + 1
    BY <1>7
  <2>3. p1 = p2
    BY <1>10, <2>1, <2>2 DEF Distinct
  <2> QED BY <1>0, <1>3, <1>6, <2>1, <2>2, <2>3
<1> QED BY <1>0, <1>5, <1>9, <1>10 DEF Distinct

\* FileOf finds the one file that holds the job.
LEMMA FileOfIs ==
  ASSUME NEW v \in WalRec, NEW j
  PROVE  /\ FileOf(v, j) # 0 <=> InList(v, j)
         /\ InList(v, j) => FileOf(v, j) \in Files /\ Holds(v, FileOf(v, j), j)
         /\ Once(v) => \A f \in Files : Holds(v, f, j) => f = FileOf(v, j)
<1>1. \A f \in Files : f # 0
  BY Numbers
<1>2. InList(v, j) => FileOf(v, j) \in Files /\ Holds(v, FileOf(v, j), j)
  BY DEF FileOf, InList
<1>3. ~InList(v, j) => FileOf(v, j) = 0
  BY DEF FileOf, InList
<1>4. ASSUME Once(v), NEW f \in Files, Holds(v, f, j) PROVE f = FileOf(v, j)
  <2>1. Holds(v, FileOf(v, j), j) /\ FileOf(v, j) \in Files
    BY <1>2, <1>4 DEF InList
  <2> HIDE DEF FileOf
  <2> QED BY <1>4, <2>1 DEF Once, Holds
<1> QED BY <1>1, <1>2, <1>3, <1>4

\* The same but for the lists, what is counted of the jobs, and files that were collected.
Frame(v, u) ==
  /\ u.cur = v.cur /\ u.next = v.next /\ u.use = v.use /\ u.ok = v.ok /\ u.stuck = v.stuck
  /\ u.open = v.open /\ u.reading = v.reading /\ u.total = v.total
  /\ u.free = v.free /\ u.resv = v.resv /\ u.room = v.room
  /\ u.spent = v.spent /\ u.spare = v.spare /\ u.torn = v.torn

Collects(v, u) ==
  /\ \A f \in Files : Listed(v, f) => Listed(u, f) \/ Unused(u, f)
  /\ \A f \in Files : Listed(u, f) => Listed(v, f)
  /\ \A f, g \in Files : Listed(v, f) /\ ~Listed(u, f) /\ Listed(u, g) => f < g

\* Job j is in no file any more.
Removed(v, j, u) ==
  /\ Chain(u) /\ Once(u) /\ Frame(v, u) /\ Collects(v, u)
  /\ Writing(v) => Writing(u)
  /\ \A f \in Files : \A k : Holds(u, f, k) <=> Holds(v, f, k) /\ k # j
  /\ \A f \in Files : ~Holds(v, f, j) => u.list[f] = v.list[f]
  /\ \A k \in Ids : k # j => u.used[k] = v.used[k]
  /\ ~InList(v, j) => u = v

\* FileRmJob takes the job out of its file, and may collect files.
LEMMA RmJob ==
  ASSUME NEW v, Chain(v), Once(v), NEW j \in Ids, NEW u, u = FileRmJob(v, j)
  PROVE  Removed(v, j, u)
<1>1. v \in WalRec
  BY DEF Chain
<1>2. CASE ~InList(v, j)
  <2>1. u = v
    BY <1>1, <1>2, FileOfIs DEF FileRmJob
  <2>2. \A f \in Files : ~Holds(v, f, j)
    BY <1>2 DEF InList
  <2>3. \A f \in Files : \A k : Holds(v, f, k) /\ k = j => FALSE
    BY <2>2
  <2> QED BY <2>1, <2>3 DEF Removed, Frame, Collects
<1>3. CASE InList(v, j)
  <2> DEFINE f0 == FileOf(v, j)
             l == v.list[f0]
             m == DropJob(l, j)
             list == [v.list EXCEPT ![f0] = m]
             used == [v.used EXCEPT ![j] = 0]
             alive == v.alive - v.used[j]
             x == [v EXCEPT !.list = list, !.alive = alive, !.used = used]
  <2>1. /\ f0 # 0 /\ f0 \in Files /\ Holds(v, f0, j)
        /\ \A f \in Files : Holds(v, f, j) => f = f0
    <3>1. /\ FileOf(v, j) # 0 <=> InList(v, j)
          /\ InList(v, j) => FileOf(v, j) \in Files /\ Holds(v, FileOf(v, j), j)
          /\ Once(v) => \A f \in Files : Holds(v, f, j) => f = FileOf(v, j)
      BY <1>1, FileOfIs
    <3> QED BY <1>3, <3>1
  <2>2. u = fileDecRef(x, f0)
    BY <2>1 DEF FileRmJob
  <2> HIDE DEF f0
  <2>3. l \in Seq(Ids) /\ Has(l, j) /\ Distinct(l)
    <3>1. l \in Seq(Ids)
      BY <1>1, <2>1, FileFields
    <3>2. Has(l, j)
      BY <2>1 DEF Holds, Has
    <3>3. Distinct(l)
      BY <2>1 DEF Once, Distinct
    <3> QED BY <3>1, <3>2, <3>3
  <2>4. m \in Seq(Ids) /\ Distinct(m) /\ \A k : Has(m, k) <=> Has(l, k) /\ k # j
    <3> HIDE DEF l
    <3> QED BY <2>3, Dropping
  <2> HIDE DEF m
  <2>5. /\ list \in [Files -> Seq(Ids)] /\ list[f0] = m /\ \A f \in Files : f # f0 => list[f] = v.list[f]
    BY <1>1, <2>1, <2>4, WalFields
  <2>6. used \in [Ids -> Int] /\ \A k \in Ids : k # j => used[k] = v.used[k]
    BY <1>1, WalFields
  <2>7. alive \in Int
    BY <1>1, WalFields
  <2> HIDE DEF list, used, alive
  <2>8. x \in WalRec /\ Frame(v, x) /\ x.files = v.files /\ x.list = list /\ x.used = used
    BY <1>1, <2>5, <2>6, <2>7 DEF WalRec, Frame
  <2> HIDE DEF x
  <2>9. \A f \in Files : Listed(x, f) <=> Listed(v, f)
    BY <2>8 DEF Listed
  <2>10. ASSUME NEW f \in Files, NEW k PROVE Holds(x, f, k) <=> Holds(v, f, k) /\ k # j
    <3>1. CASE f = f0
      <4>1. Holds(x, f, k) <=> Has(m, k)
        BY <2>5, <2>8, <3>1 DEF Holds, Has
      <4>2. Holds(v, f, k) <=> Has(l, k)
        BY <3>1 DEF Holds, Has
      <4> QED BY <2>4, <4>1, <4>2
    <3>2. CASE f # f0
      <4>1. x.list[f] = v.list[f]
        BY <2>5, <2>8, <3>2
      <4>2. Holds(x, f, k) <=> Holds(v, f, k)
        BY <4>1 DEF Holds
      <4>3. ~Holds(v, f, j)
        BY <2>1, <3>2
      <4> QED BY <4>2, <4>3
    <3> QED BY <3>1, <3>2
  <2>11. \A f \in Files : ~Holds(v, f, j) => x.list[f] = v.list[f]
    BY <2>1, <2>5, <2>8
  <2>12. \A f \in Files : v.list[f] = <<>> => x.list[f] = <<>>
    BY <2>11 DEF Holds
  <2>13. Chain(x)
    <3>1. \A f \in Files : x.list[f] # <<>> => Listed(x, f)
      BY <2>9, <2>12 DEF Chain
    <3>2. /\ \A i, k \in DOMAIN x.files : i < k => x.files[i] < x.files[k]
          /\ \A i \in DOMAIN x.files : x.files[i] < x.next
          /\ x.next + x.room <= MaxFiles + 1
      BY <2>8 DEF Chain, Frame
    <3> QED BY <2>8, <3>1, <3>2 DEF Chain
  <2>14. Once(x)
    <3> SUFFICES ASSUME NEW f \in Files, NEW g \in Files, NEW i \in DOMAIN x.list[f],
                        NEW k \in DOMAIN x.list[g], x.list[f][i] = x.list[g][k]
                 PROVE  f = g /\ i = k
      BY DEF Once
    <3>1. Holds(x, f, x.list[f][i]) /\ Holds(x, g, x.list[f][i])
      BY DEF Holds
    <3>2. Holds(v, f, x.list[f][i]) /\ Holds(v, g, x.list[f][i])
      BY <2>10, <3>1
    <3>3. f = g
      BY <3>2 DEF Once, Holds
    <3>4. CASE f = f0
      BY <2>4, <2>5, <2>8, <3>3, <3>4 DEF Distinct
    <3>5. CASE f # f0
      <4>1. x.list[f] = v.list[f]
        BY <2>5, <2>8, <3>5
      <4> QED BY <3>3, <4>1 DEF Once
    <3> QED BY <3>3, <3>4, <3>5
  <2>15. Writing(v) => Writing(x)
    <3> SUFFICES ASSUME Writing(v) PROVE Writing(x)
      OBVIOUS
    <3>1. \A f \in Files : f > x.cur => x.list[f] = <<>>
      BY <2>8, <2>12 DEF Writing, Frame
    <3>2. /\ x.reading = 0 /\ x.cur \in Files /\ Listed(x, x.cur)
          /\ \A f \in Files : f \in x.open <=> Listed(x, f) /\ f >= x.cur
      BY <2>8, <2>9 DEF Writing, Frame
    <3> QED BY <2>13, <3>1, <3>2 DEF Writing
  <2>16. Collected(x, u)
    BY <2>2, <2>8, DecRef
  <2>17. Frame(x, u) /\ u.list = x.list /\ u.used = x.used
         /\ (\A f \in Files : Listed(x, f) => Listed(u, f) \/ Unused(x, f))
         /\ (\A f \in Files : Listed(u, f) => Listed(x, f))
    BY <2>8, <2>16, CollectedFields DEF Frame
  <2>18. Chain(u) /\ \A f, g \in Files : Listed(x, f) /\ ~Listed(u, f) /\ Listed(u, g) => f < g
    BY <2>13, <2>16, CollectedChain
  <2>19. Frame(v, u)
    BY <2>8, <2>17 DEF Frame
  <2>20. \A f \in Files : Unused(x, f) <=> Unused(u, f)
    BY <2>17 DEF Unused, Frame
  <2>21. Collects(v, u)
    BY <2>9, <2>17, <2>18, <2>20 DEF Collects
  <2>22. Once(u)
    BY <2>14, <2>17 DEF Once
  <2>23. Writing(v) => Writing(u)
    <3> SUFFICES ASSUME Writing(v) PROVE Writing(u)
      OBVIOUS
    <3>1. Writing(x)
      BY <2>15
    <3>2. \A f \in Files : f \in x.open => Listed(u, f)
      BY <2>17, <3>1 DEF Writing, Unused
    <3>3. /\ u.reading = 0 /\ u.cur \in Files /\ u.cur = x.cur /\ u.open = x.open
      BY <2>17, <3>1 DEF Writing, Frame
    <3>4. \A f \in Files : f \in u.open <=> Listed(u, f) /\ f >= u.cur
      BY <2>17, <3>1, <3>2, <3>3 DEF Writing
    <3>5. Listed(u, u.cur)
      <4>1. x.cur \in Files /\ Listed(x, x.cur)
        BY <3>1 DEF Writing
      <4>2. x.cur \in x.open
        <5>1. x.cur \in Nat
          BY <2>8, WalFields
        <5>2. x.cur >= x.cur
          BY <5>1
        <5> QED BY <3>1, <4>1, <5>2 DEF Writing
      <4> QED BY <3>2, <3>3, <4>1, <4>2
    <3>6. \A f \in Files : f > u.cur => u.list[f] = <<>>
      BY <2>17, <3>1, <3>3 DEF Writing
    <3> QED BY <2>18, <3>3, <3>4, <3>5, <3>6 DEF Writing
  <2>24. \A f \in Files : \A k : Holds(u, f, k) <=> Holds(v, f, k) /\ k # j
    BY <2>10, <2>17 DEF Holds
  <2>25. \A f \in Files : ~Holds(v, f, j) => u.list[f] = v.list[f]
    BY <2>11, <2>17
  <2>26. \A k \in Ids : k # j => u.used[k] = v.used[k]
    BY <2>6, <2>8, <2>17
  <2> QED BY <1>3, <2>18, <2>19, <2>21, <2>22, <2>23, <2>24, <2>25, <2>26 DEF Removed
<1> QED BY <1>2, <1>3

\* Job j is in file f now.
Added(v, f, j, u) ==
  /\ Chain(u) /\ Once(u) /\ Frame(v, u) /\ u.files = v.files
  /\ u.used = v.used /\ u.alive = v.alive
  /\ Writing(v) /\ f = v.cur => Writing(u)
  /\ \A g \in Files : \A k : Holds(u, g, k) <=> Holds(v, g, k) \/ (g = f /\ k = j)

\* FileAddJob puts a job that is in no file into one.
LEMMA AddJob ==
  ASSUME NEW v, Chain(v), Once(v), NEW f \in Files, Listed(v, f), NEW j \in Ids, ~InList(v, j),
         NEW u, u = FileAddJob(v, f, j)
  PROVE  Added(v, f, j, u)
<1> DEFINE l == v.list[f]
           m == Append(l, j)
           list == [v.list EXCEPT ![f] = m]
           n == Len(l)
<1>1. v \in WalRec
  BY DEF Chain
<1>2. l \in Seq(Ids) /\ n \in Nat /\ DOMAIN l = 1..n
  BY <1>1, FileFields
<1>3. m \in Seq(Ids) /\ DOMAIN m = 1..(n + 1) /\ m[n + 1] = j /\ \A i \in 1..n : m[i] = l[i]
  <2> HIDE DEF l
  <2> QED BY <1>2
<1> HIDE DEF m, n
<1>4. list \in [Files -> Seq(Ids)] /\ list[f] = m /\ \A g \in Files : g # f => list[g] = v.list[g]
  BY <1>1, <1>3, WalFields
<1>5. u = [v EXCEPT !.list = list]
  BY DEF FileAddJob, m
<1> HIDE DEF list
<1>6. u \in WalRec /\ Frame(v, u) /\ u.files = v.files /\ u.list = list
      /\ u.used = v.used /\ u.alive = v.alive
  BY <1>1, <1>4, <1>5 DEF WalRec, Frame
<1>7. \A g \in Files : Listed(u, g) <=> Listed(v, g)
  BY <1>6 DEF Listed
<1>8. ASSUME NEW g \in Files, NEW k
      PROVE  Holds(u, g, k) <=> Holds(v, g, k) \/ (g = f /\ k = j)
  <2>1. CASE g = f
    <3>1. n + 1 \in 1..(n + 1) /\ \A i \in 1..(n + 1) : i \in 1..n \/ i = n + 1
      BY <1>2
    <3>2. \A i \in 1..n : i \in 1..(n + 1)
      BY <1>2
    <3>3. Holds(u, f, k) <=> \E i \in 1..(n + 1) : m[i] = k
      BY <1>3, <1>4, <1>6 DEF Holds
    <3>4. Holds(v, f, k) <=> \E i \in 1..n : l[i] = k
      BY <1>2 DEF Holds
    <3> HIDE DEF l
    <3> QED BY <1>3, <2>1, <3>1, <3>2, <3>3, <3>4
  <2>2. CASE g # f
    <3>1. u.list[g] = v.list[g]
      BY <1>4, <1>6, <2>2
    <3> QED BY <2>2, <3>1 DEF Holds
  <2> QED BY <2>1, <2>2
<1>9. Chain(u)
  <2>1. \A g \in Files : u.list[g] # <<>> => Listed(u, g)
    BY <1>4, <1>6, <1>7 DEF Chain
  <2>2. /\ \A i, k \in DOMAIN u.files : i < k => u.files[i] < u.files[k]
        /\ \A i \in DOMAIN u.files : u.files[i] < u.next
        /\ u.next + u.room <= MaxFiles + 1
    BY <1>6 DEF Chain, Frame
  <2> QED BY <1>6, <2>1, <2>2 DEF Chain
<1>10. Once(u)
  <2> SUFFICES ASSUME NEW g \in Files, NEW h \in Files, NEW i \in DOMAIN u.list[g],
                      NEW k \in DOMAIN u.list[h], u.list[g][i] = u.list[h][k]
               PROVE  g = h /\ i = k
    BY DEF Once
  <2>1. Holds(u, g, u.list[g][i]) /\ Holds(u, h, u.list[g][i])
    BY DEF Holds
  <2>2. CASE u.list[g][i] = j
    <3>1. g = f /\ h = f
      BY <1>8, <2>1, <2>2 DEF InList
    <3>2. \A p \in DOMAIN m : m[p] = j => p = n + 1
      <4>1. \A p \in 1..n : l[p] # j
        BY <1>2 DEF InList, Holds
      <4>2. \A p \in 1..(n + 1) : p \in 1..n \/ p = n + 1
        BY <1>2
      <4> HIDE DEF l
      <4> QED BY <1>3, <4>1, <4>2
    <3> QED BY <1>4, <1>6, <2>2, <3>1, <3>2
  <2>3. CASE u.list[g][i] # j
    <3>1. Holds(v, g, u.list[g][i]) /\ Holds(v, h, u.list[g][i])
      BY <1>8, <2>1, <2>3
    <3>2. g = h
      BY <3>1 DEF Once, Holds
    <3>3. CASE g # f
      <4>1. u.list[g] = v.list[g]
        BY <1>4, <1>6, <3>3
      <4> QED BY <3>2, <4>1 DEF Once
    <3>4. CASE g = f
      <4>1. u.list[g] = m /\ u.list[h] = m
        BY <1>4, <1>6, <3>2, <3>4
      <4>2. i # n + 1 /\ k # n + 1
        BY <1>3, <2>3, <4>1
      <4>3. i \in 1..n /\ k \in 1..n
        BY <1>2, <1>3, <4>1, <4>2
      <4>4. l[i] = l[k] /\ i \in DOMAIN l /\ k \in DOMAIN l
        BY <1>2, <1>3, <4>1, <4>3
      <4> QED BY <3>2, <4>4 DEF Once
    <3> QED BY <3>3, <3>4
  <2> QED BY <2>2, <2>3
<1>11. Writing(v) /\ f = v.cur => Writing(u)
  <2> SUFFICES ASSUME Writing(v), f = v.cur PROVE Writing(u)
    OBVIOUS
  <2>1. v.cur \in Nat
    BY <1>1, WalFields
  <2>2. \A g \in Files : g > v.cur => g # f /\ u.list[g] = <<>>
    <3>1. \A g \in Files : g > v.cur => g # f
      BY <2>1
    <3> QED BY <1>4, <1>6, <3>1 DEF Writing
  <2> QED BY <1>6, <1>7, <1>9, <2>2 DEF Writing, Frame
<1> QED BY <1>6, <1>8, <1>9, <1>10, <1>11 DEF Added

\* n bytes of what was reserved are written for job j.
Wrote(v, j, n, u) ==
  /\ Chain(u) /\ (Writing(v) => Writing(u))
  /\ u.files = v.files /\ u.cur = v.cur /\ u.next = v.next /\ u.use = v.use
  /\ u.ok = v.ok /\ u.stuck = v.stuck /\ u.open = v.open /\ u.reading = v.reading
  /\ u.list = v.list /\ u.room = v.room /\ u.free = v.free
  /\ u.spent = v.spent /\ u.spare = v.spare /\ u.torn = v.torn
  /\ u.total = v.total - n
  /\ u.resv[v.cur] = v.resv[v.cur] - n
  /\ \A f \in Files : f # v.cur => u.resv[f] = v.resv[f]

\* fileWrite only counts.
LEMMA FileWrite ==
  ASSUME NEW v, Chain(v), v.cur \in Files, NEW j \in Ids, NEW n \in Int,
         NEW u, u = fileWrite(v, j, n)
  PROVE  Wrote(v, j, n, u)
<1> DEFINE total == v.total - n
           resv == [v.resv EXCEPT ![v.cur] = v.resv[v.cur] - n]
           used == [v.used EXCEPT ![j] = v.used[j] + n]
           alive == v.alive + n
<1>1. v \in WalRec
  BY DEF Chain
<1>2. total \in Int /\ alive \in Int
  BY <1>1, WalFields
<1>3. v.resv \in [Files -> Int] /\ v.used \in [Ids -> Int]
  BY <1>1, WalFields
<1>4. /\ resv \in [Files -> Int] /\ resv[v.cur] = v.resv[v.cur] - n
      /\ \A f \in Files : f # v.cur => resv[f] = v.resv[f]
  BY <1>3
<1>5. used \in [Ids -> Int]
  BY <1>3
<1>6. u = [v EXCEPT !.total = total, !.resv = resv, !.used = used, !.alive = alive]
  BY DEF fileWrite
<1> HIDE DEF resv, used, alive, total
<1>7. /\ u.files = v.files /\ u.cur = v.cur /\ u.next = v.next /\ u.use = v.use
      /\ u.ok = v.ok /\ u.stuck = v.stuck /\ u.open = v.open /\ u.reading = v.reading
      /\ u.list = v.list /\ u.room = v.room /\ u.free = v.free
      /\ u.spent = v.spent /\ u.spare = v.spare /\ u.torn = v.torn
  BY <1>1, <1>6 DEF WalRec
<1>8. u.total = total /\ u.resv = resv /\ u \in WalRec
  BY <1>1, <1>2, <1>4, <1>5, <1>6 DEF WalRec
<1>9. Chain(u)
  BY <1>7, <1>8 DEF Chain, Listed
<1>10. Writing(v) => Writing(u)
  BY <1>7, <1>9 DEF Writing, Listed
<1> QED BY <1>4, <1>7, <1>8, <1>9, <1>10 DEF Wrote, total

-----------------------------------------------------------------------------
(* What the server may make of w between two changes of the directory. *)

\* Space is moved between files, new files appear, files are closed with nothing reserved.
Space(v, u) ==
  /\ u.next >= v.next
  /\ \A f \in Files : Listed(u, f) => Listed(v, f) \/ f >= v.next
  /\ \A f \in Files : f \in u.open /\ f \in v.open =>
       u.free[f] + u.resv[f] = v.free[f] + v.resv[f]
  /\ \A f \in Files : f \in u.open /\ f \notin v.open =>
       f >= v.next /\ u.free[f] + u.resv[f] = FileSize - Header
  /\ \A f \in Files : f \notin u.open /\ f \in v.open => u.free[f] = v.free[f] + v.resv[f]

Fit(v) ==
  /\ Chain(v) /\ Once(v) /\ v.reading = 0 /\ v.use = w.use /\ Space(w, v)
  /\ v.use => Writing(v)
  /\ \A f \in v.open : Listed(v, f)
  /\ ~v.use => v.open = w.open /\ \A f \in Files : Listed(v, f) => Listed(w, f)

\* The files that there were are as they were, and the new ones are empty.
Extends(v, d) ==
  /\ DirStep(v, d)
  /\ \A f \in Files : f \in DOMAIN d <=> Listed(v, f)
  /\ \A f \in DOMAIN d : f \in DOMAIN dir => d[f] = dir[f]
  /\ \A f \in DOMAIN d : f \notin DOMAIN dir => f >= w.next /\ d[f].ver = WalVer /\ d[f].recs = <<>>
  /\ v.use => Exact(v, d)

\* The current file is open, and open files are in the list.
LEMMA OpenFields ==
  ASSUME NEW v, Writing(v)
  PROVE  v.cur \in Files /\ v.cur \in v.open /\ v.cur \in Nat /\ \A f \in v.open : Listed(v, f)
<1>1. v.cur \in Nat /\ v.open \subseteq Files
  BY WalFields DEF Writing, Chain
<1>2. v.cur >= v.cur
  BY <1>1
<1> QED BY <1>1, <1>2 DEF Writing

\* What fits leaves the records as they are, and the space of open files exact.
LEMMA Extending ==
  ASSUME Disk(w, dir), Log(w, dir), NEW v, Fit(v), NEW d, d = DirOf(v)
  PROVE  Extends(v, d)
<1>1. w \in WalRec /\ DirTypes /\ v \in WalRec /\ Chain(w)
  BY DEF Disk, DirTypes, Fit, Chain
<1>2. DirStep(v, d)
  BY <1>1, Unlinking
<1>3. \A f \in Files : f \in DOMAIN d <=> Listed(v, f)
  BY <1>2 DEF DirStep, Log
<1>4. ASSUME NEW f \in Files, f \in w.open
      PROVE  /\ f \in DOMAIN dir /\ f < w.next /\ f \in Nat /\ w.next \in Nat
             /\ w.use => Header + Bytes(dir[f].recs) + w.resv[f] + w.free[f] = FileSize
             /\ Bytes(dir[f].recs) \in Nat
  <2>1. Listed(w, f) /\ f \in DOMAIN dir
    BY <1>4 DEF Log
  <2>2. f < w.next /\ f \in Nat /\ w.next \in Nat
    BY <1>1, <2>1, Numbers, WalFields DEF Chain, Listed
  <2>3. dir[f].recs \in Seq(Recs)
    BY <2>1 DEF Disk, DirRec
  <2> QED BY <1>4, <2>1, <2>2, <2>3, BytesFacts DEF Log, Exact
<1>5. ASSUME NEW f \in DOMAIN d, f \in DOMAIN dir PROVE d[f] = dir[f]
  <2>1. f \in Files
    BY <1>2 DEF DirStep
  <2>2. CASE f \in v.open \/ f \notin w.open
    BY <1>2, <1>5, <2>2 DEF DirStep
  <2>3. CASE f \in w.open /\ f \notin v.open
    <3>1. v.use /\ w.use
      BY <2>3 DEF Fit
    <3>2. v.free[f] = w.free[f] + w.resv[f]
      BY <2>1, <2>3 DEF Fit, Space
    <3>3. Header + Bytes(dir[f].recs) + w.resv[f] + w.free[f] = FileSize /\ Bytes(dir[f].recs) \in Nat
      BY <1>4, <2>1, <2>3, <3>1
    <3>4. w.free[f] \in Int /\ w.resv[f] \in Int
      BY <1>1, <2>1, FileFields
    <3>5. Header + Bytes(dir[f].recs) <= FileSize - v.free[f]
      BY <3>2, <3>3, <3>4, Numbers
    <3> QED BY <1>2, <1>5, <3>5 DEF DirStep
  <2> QED BY <2>2, <2>3
<1>6. ASSUME NEW f \in DOMAIN d, f \notin DOMAIN dir
      PROVE  f >= w.next /\ d[f].ver = WalVer /\ d[f].recs = <<>>
  <2>1. f \in Files
    BY <1>2 DEF DirStep
  <2>2. Listed(v, f) /\ ~Listed(w, f)
    BY <1>3, <1>6, <2>1 DEF Log
  <2> QED BY <1>2, <1>6, <2>1, <2>2 DEF Fit, Space, DirStep
<1>7. ASSUME v.use, NEW f \in v.open
      PROVE  Header + Bytes(d[f].recs) + v.resv[f] + v.free[f] = FileSize
  <2>1. f \in Files /\ f \in DOMAIN d
    BY <1>1, <1>3, WalFields DEF Fit
  <2>2. v.free[f] \in Int /\ v.resv[f] \in Int /\ w.free[f] \in Int /\ w.resv[f] \in Int
    BY <1>1, <2>1, FileFields
  <2>3. CASE f \in w.open
    <3>1. d[f] = dir[f]
      BY <1>4, <1>5, <2>1, <2>3
    <3>2. v.free[f] + v.resv[f] = w.free[f] + w.resv[f]
      BY <2>1, <2>3 DEF Fit, Space
    <3>3. w.use
      BY <1>7 DEF Fit
    <3>4. Header + Bytes(dir[f].recs) + w.resv[f] + w.free[f] = FileSize /\ Bytes(dir[f].recs) \in Nat
      BY <1>4, <2>1, <2>3, <3>3
    <3> QED BY <2>2, <3>1, <3>2, <3>4, Numbers
  <2>4. CASE f \notin w.open
    <3>1. f >= w.next /\ v.free[f] + v.resv[f] = FileSize - Header
      BY <2>1, <2>4 DEF Fit, Space
    <3>2. f \notin DOMAIN dir
      <4>1. Listed(w, f) => f < w.next
        BY <1>1 DEF Chain, Listed
      <4>2. f \in Nat /\ w.next \in Nat
        BY <1>1, <2>1, Numbers, WalFields
      <4> QED BY <2>1, <3>1, <4>1, <4>2 DEF Log
    <3>3. d[f].recs = <<>>
      BY <1>6, <2>1, <3>2
    <3>4. Bytes(d[f].recs) = 0
      <4>1. <<>> \in Seq(Recs)
        OBVIOUS
      <4> QED BY <3>3, <4>1, BytesFacts
    <3> QED BY <2>2, <3>1, <3>4, Numbers
  <2> QED BY <2>3, <2>4
<1> QED BY <1>2, <1>3, <1>5, <1>6, <1>7 DEF Extends, Exact

\* When what was made of w is kept, files and directory are in order.
LEMMA FitNext ==
  ASSUME Disk(w, dir), Log(w, dir), NEW v, Fit(v), NEW x, x = Settled(v), NEW d, d = DirOf(v)
  PROVE  Disk(x, d) /\ Log(x, d) /\ Extends(v, d)
<1>1. Extends(v, d)
  BY Extending
<1>2. Chain(v) /\ v \in WalRec
  BY DEF Fit, Chain
<1>3. /\ Chain(x) /\ (Writing(v) => Writing(x)) /\ (Once(v) => Once(x))
      /\ \A f \in Files : Listed(x, f) <=> Listed(v, f)
  BY <1>2, SettledChain
<1>4. /\ x.ok /\ ~x.stuck /\ x.room = 0 /\ x.reading = v.reading /\ x.open = v.open /\ x.use = v.use
      /\ \A f \in v.open : x.free[f] = v.free[f] /\ x.resv[f] = v.resv[f]
  BY <1>2, SettledFields
<1>5. Disk(x, d)
  BY <1>1, <1>3, <1>4 DEF Disk, Fit, Extends, DirStep
<1>6. x.use => Writing(x) /\ Exact(x, d)
  BY <1>1, <1>3, <1>4 DEF Exact, Extends, Fit
<1>7. v.open \subseteq Files
  BY <1>2, WalFields
<1>8. \A f \in x.open : Listed(x, f)
  BY <1>3, <1>4, <1>7 DEF Fit
<1>9. x.reading = 0 /\ \A f \in Files : Listed(x, f) <=> f \in DOMAIN d
  BY <1>1, <1>3, <1>4 DEF Fit, Extends
<1> QED BY <1>1, <1>5, <1>6, <1>8, <1>9 DEF Log

\* A job may be taken out of its file after the reservation.
LEMMA FitRemoved ==
  ASSUME Disk(w, dir), Log(w, dir), NEW v, Fit(v), NEW j \in Ids, NEW u, u = FileRmJob(v, j)
  PROVE  Fit(u) /\ Removed(v, j, u)
<1>1. Removed(v, j, u)
  BY RmJob DEF Fit
<1>2. /\ u.reading = v.reading /\ u.use = v.use /\ u.open = v.open /\ u.next = v.next
      /\ u.free = v.free /\ u.resv = v.resv
      /\ \A f \in Files : Listed(u, f) => Listed(v, f)
      /\ \A f \in Files : Listed(v, f) => Listed(u, f) \/ Unused(u, f)
  BY <1>1 DEF Removed, Frame, Collects
<1>3. Space(w, u)
  BY <1>2 DEF Space, Fit
<1>4. v.open \subseteq Files
  BY WalFields DEF Fit, Chain
<1>5. \A f \in u.open : Listed(u, f)
  BY <1>2, <1>4 DEF Fit, Unused
<1> QED BY <1>1, <1>2, <1>3, <1>5 DEF Fit, Removed

\* The reservation of a command.
LEMMA Reserving ==
  ASSUME Disk(w, dir), Log(w, dir), NEW room \in Rooms, NEW n \in Int,
         NEW v, v = reserve([w EXCEPT !.room = room], n)
  PROVE  /\ Fit(v)
         /\ v.list = w.list /\ v.used = w.used /\ v.alive = w.alive
         /\ v.spent = w.spent /\ v.spare = w.spare
         /\ v.ok \in BOOLEAN /\ v.stuck \in BOOLEAN
         /\ v.total = IF w.use /\ (v.ok \/ v.stuck) THEN w.total + n ELSE w.total
         /\ \A f \in Files : Listed(w, f) /\ ~Listed(v, f) => w.list[f] = <<>>
         /\ \A f, g \in Files : Listed(w, f) /\ ~Listed(v, f) /\ Listed(v, g) => f < g
         /\ ~w.use => v.ok
         /\ v.cur >= w.cur /\ Honest(v)
<1> DEFINE y == [w EXCEPT !.room = room]
<1>1. w \in WalRec /\ Chain(w) /\ Once(w) /\ w.ok /\ ~w.stuck
  BY DEF Disk, Chain
<1>2. room \in Nat /\ w.next + room <= MaxFiles + 1
  BY Numbers DEF Rooms
<1>3. /\ y \in WalRec /\ y.files = w.files /\ y.cur = w.cur /\ y.next = w.next /\ y.use = w.use
      /\ y.ok = w.ok /\ y.stuck = w.stuck /\ y.open = w.open /\ y.reading = w.reading
      /\ y.free = w.free /\ y.resv = w.resv /\ y.total = w.total /\ y.alive = w.alive
      /\ y.list = w.list /\ y.used = w.used
      /\ y.spent = w.spent /\ y.spare = w.spare /\ y.torn = w.torn /\ y.room = room
  BY <1>1, <1>2 DEF WalRec
<1>4. v = reserve(y, n)
  OBVIOUS
<1> HIDE DEF y
<1>5. \A f \in Files : Listed(y, f) <=> Listed(w, f)
  BY <1>3 DEF Listed
<1>6. Chain(y)
  BY <1>1, <1>2, <1>3, <1>5 DEF Chain
<1>7. y.use => Writing(y)
  BY <1>3, <1>5, <1>6 DEF Writing, Log
<1>8. Reserved(y, n, v)
  BY <1>1, <1>3, <1>4, <1>7, Reserve1
<1>9. /\ Grows(y, v) /\ v \in WalRec
      /\ v.total = IF w.use /\ (v.ok \/ v.stuck) THEN w.total + n ELSE w.total
  BY <1>3, <1>8 DEF Reserved, Writing, Chain
<1>10. /\ v.list = w.list /\ v.used = w.used /\ v.alive = w.alive /\ v.use = w.use
       /\ v.spent = w.spent /\ v.spare = w.spare /\ v.cur >= w.cur /\ Honest(v)
  BY <1>3, <1>8, <1>9 DEF Grows, Reserved
<1>11. v.ok \in BOOLEAN /\ v.stuck \in BOOLEAN
  BY <1>9, WalFields
<1>12. /\ \A f \in Files : Listed(w, f) /\ ~Listed(v, f) => w.list[f] = <<>>
       /\ \A f, g \in Files : Listed(w, f) /\ ~Listed(v, f) /\ Listed(v, g) => f < g
  BY <1>3, <1>5, <1>9 DEF Grows
<1>13. Space(w, v)
  BY <1>3, <1>5, <1>9 DEF Grows, Space
<1>14. Once(v)
  BY <1>1, <1>10 DEF Once
<1>15. CASE w.use
  <2>1. Writing(v)
    BY <1>3, <1>8, <1>15 DEF Reserved
  <2>2. Fit(v)
    BY <1>10, <1>13, <1>14, <1>15, <2>1, OpenFields DEF Fit, Writing
  <2> QED BY <1>9, <1>10, <1>11, <1>12, <1>15, <2>2
<1>16. CASE ~w.use
  <2>1. Resources(y, v) /\ v.ok
    BY <1>3, <1>8, <1>16 DEF Reserved
  <2>2. /\ v.files = w.files /\ v.open = w.open /\ v.reading = w.reading /\ v.next = w.next
        /\ v.room = y.room
    BY <1>3, <2>1 DEF Resources
  <2>3. \A f \in Files : Listed(v, f) <=> Listed(w, f)
    BY <2>2 DEF Listed
  <2>4. Chain(v)
    <3>1. /\ \A i, k \in DOMAIN v.files : i < k => v.files[i] < v.files[k]
          /\ \A i \in DOMAIN v.files : v.files[i] < v.next
      BY <1>1, <2>2 DEF Chain
    <3>2. \A f \in Files : v.list[f] # <<>> => Listed(v, f)
      BY <1>1, <1>10, <2>3 DEF Chain
    <3>3. v.next + v.room <= MaxFiles + 1
      BY <1>2, <1>3, <2>2
    <3> QED BY <1>9, <3>1, <3>2, <3>3 DEF Chain
  <2>5. v.open \subseteq Files
    BY <1>9, WalFields
  <2>6. Fit(v)
    BY <1>10, <1>13, <1>14, <1>16, <2>2, <2>3, <2>4, <2>5 DEF Fit, Log
  <2> QED BY <1>9, <1>10, <1>11, <1>12, <1>16, <2>1, <2>6
<1> QED BY <1>15, <1>16

-----------------------------------------------------------------------------
(* Every step keeps the files in order. *)

JobMap(q) == DOMAIN q \subseteq Ids /\ q \in [DOMAIN q -> JobRec]

\* The types of what is known of a job.
LEMMA JobFields ==
  ASSUME JobMap(jobs), NEW j \in DOMAIN jobs
  PROVE  /\ j \in Ids /\ j \in Nat /\ j # 0 /\ jobs[j] \in JobRec /\ jobs[j].st \in States
         /\ jobs[j].kind \in Kinds /\ jobs[j].good \in BOOLEAN /\ jobs[j].where \subseteq States
         /\ Extra[jobs[j].kind] \in Nat
<1>1. j \in Ids /\ jobs[j] \in JobRec
  BY DEF JobMap
<1>2. j \in Nat /\ j # 0
  BY <1>1 DEF Ids
<1>3. /\ jobs[j].st \in States /\ jobs[j].kind \in Kinds /\ jobs[j].good \in BOOLEAN
      /\ jobs[j].where \subseteq States
  BY <1>1 DEF JobRec
<1> QED BY <1>1, <1>2, <1>3, SizesAssumption

\* A job that is put in its place.
LEMMA PlaceFields ==
  ASSUME JobMap(jobs), NEW j \in DOMAIN jobs, NEW st \in States, NEW c \in SUBSET States,
         NEW q, q = Place(j, st, c)
  PROVE  /\ JobMap(q) /\ DOMAIN q = DOMAIN jobs
         /\ q[j].st = st /\ q[j].where = c
         /\ \A k \in DOMAIN jobs : q[k].kind = jobs[k].kind /\ q[k].good = jobs[k].good
         /\ \A k \in DOMAIN jobs : k # j => q[k] = jobs[k]
<1> DEFINE r == [jobs[j] EXCEPT !.st = st, !.where = c]
<1>1. jobs[j] \in JobRec
  BY JobFields
<1>2. r \in JobRec /\ r.st = st /\ r.where = c /\ r.kind = jobs[j].kind /\ r.good = jobs[j].good
  BY <1>1 DEF JobRec
<1>3. DOMAIN q = DOMAIN jobs /\ q[j] = r /\ \A k \in DOMAIN jobs : k # j => q[k] = jobs[k]
  BY DEF Place
<1> HIDE DEF r
<1>4. \A k \in DOMAIN jobs : q[k] \in JobRec
  BY <1>2, <1>3, JobFields
<1>5. q = [k \in DOMAIN jobs |-> q[k]]
  BY DEF Place
<1>6. JobMap(q)
  BY <1>3, <1>4, <1>5 DEF JobMap
<1> QED BY <1>2, <1>3, <1>6

\* The jobs without one of them.
LEMMA WithoutFields ==
  ASSUME JobMap(jobs), NEW j, NEW q, q = Without(j)
  PROVE  /\ JobMap(q) /\ DOMAIN q = DOMAIN jobs \ {j}
         /\ \A k \in DOMAIN q : q[k] = jobs[k]
BY DEF Without, JobMap

\* No jobs are a map of jobs.
LEMMA NoJobs ==
  /\ JobMap(<<>>) /\ DOMAIN <<>> = {}
  /\ <<>> \in [DOMAIN <<>> -> Told]
BY DEF JobMap

\* The parts of the invariant.
LEMMA Parts ==
  FilesInv <=>
    /\ Disk(w, dir) /\ JobMap(jobs)
    /\ nextId \in 1..(MaxJobs + 1) /\ (\A j \in DOMAIN jobs : j < nextId)
    /\ \A j \in Ids : InList(w, j) => j < nextId
    /\ pc \in {"down", "read", "replay", "idle", "write", "body", "compact", "hung"}
    /\ run \in RunRec
    /\ rd \in CursorRec
    /\ ClientTypes /\ DownInv /\ ReadInv /\ (Running => Log(w, dir)) /\ RunInv /\ JobsInv /\ BodyInv
BY DEF FilesInv, JobTypes, JobMap

\* When nothing runs, there is no job to work on.
LEMMA NoRunFields ==
  /\ NoRun \in RunRec /\ NoRun.op = "none" /\ NoRun.job = 0 /\ NoRun.need = 0
  /\ NoRun.left = 0 /\ NoRun.moving = 0
<1>1. 0 \in 0..MaxJobs
  BY Numbers
<1> QED BY <1>1 DEF NoRun, RunRec

\* The types of what runs.
LEMMA RunFields ==
  ASSUME run \in RunRec
  PROVE  /\ run.op \in {"none", "put", "delete", "bury", "release"} /\ run.job \in 0..MaxJobs
         /\ run.need \in Int /\ run.left \in Nat /\ run.moving \in 0..MaxJobs
BY DEF RunRec

\* The types of the cursor of recovery.
LEMMA CursorFields ==
  ASSUME NEW r \in CursorRec
  PROVE  r.last \in 0..MaxFiles /\ r.last \in Nat /\ r.pos \in Nat /\ r.list \in Seq(Ids)
<1>1. r.last \in 0..MaxFiles /\ r.pos \in Nat /\ r.list \in Seq(Ids)
  BY DEF CursorRec
<1> QED BY <1>1, Numbers

\* A command that goes on to WalWrite.
LEMMA WorkingFields ==
  ASSUME NEW op \in {"put", "delete", "bury", "release"}, NEW j \in Ids, NEW need \in Int,
         Working(op, j, need)
  PROVE  /\ pc' = "write" /\ run' \in RunRec /\ run'.op = op /\ run'.job = j /\ run'.need = need
         /\ run'.left = 0 /\ run'.moving = 0 /\ Subject' = j
<1>1. j \in 0..MaxJobs /\ 0 \in 0..MaxJobs
  BY Numbers DEF Ids
<1> QED BY <1>1 DEF Working, RunRec, Subject

\* Clients may forget a job.
LEMMA ClientForget ==
  ASSUME ClientTypes, NEW j, acked' = Forget(j), gone' \in {gone, gone \ {j}},
         faults' \in 0..MaxFaults, cmds' \in 0..MaxCmds
  PROVE  ClientTypes'
BY DEF ClientTypes, Forget

\* A fault is counted as long as there are any left.
LEMMA ChargeFields ==
  ASSUME ClientTypes, NEW v, Charge(v)
  PROVE  faults' \in 0..MaxFaults
BY Numbers DEF ClientTypes, Charge

\* A command is counted.
LEMMA CommandFields ==
  ASSUME ClientTypes, NEW op, Command(op)
  PROVE  cmds' \in 0..MaxCmds /\ pc = "idle"
<1>1. op \in Ops /\ cmds + Cost[op] <= MaxCmds /\ cmds' = cmds + Cost[op] /\ pc = "idle"
  BY DEF Command
<1>2. Cost[op] \in Nat \ {0} /\ cmds \in Nat
  BY <1>1, SizesAssumption, Numbers DEF ClientTypes
<1> QED BY <1>1, <1>2, Numbers

\* What a reservation leaves behind.
LEMMA ReserveNext ==
  ASSUME FilesInv, Running, NEW room \in Rooms, NEW n \in Int,
         NEW v, v = reserve([w EXCEPT !.room = room], n), SetWal(v)
  PROVE  /\ Disk(w', dir') /\ Log(w', dir') /\ Extends(v, dir')
         /\ w'.list = w.list /\ w'.use = w.use /\ w'.used = w.used /\ w'.alive = w.alive
         /\ w'.spent = w.spent /\ w'.spare = w.spare
         /\ v.ok \in BOOLEAN /\ v.stuck \in BOOLEAN
         /\ w'.total = IF w.use /\ (v.ok \/ v.stuck) THEN w.total + n ELSE w.total
         /\ \A j : InList(w', j) <=> InList(w, j)
         /\ \A f \in Files : Listed(w, f) /\ ~Listed(w', f) => w.list[f] = <<>>
         /\ \A f, g \in Files : Listed(w, f) /\ ~Listed(w', f) /\ Listed(w', g) => f < g
         /\ ~w.use => v.ok
         /\ w'.cur >= w.cur /\ Honest(v)
<1>1. Disk(w, dir) /\ Log(w, dir)
  BY DEF FilesInv
<1>2. /\ Fit(v)
      /\ v.list = w.list /\ v.used = w.used /\ v.alive = w.alive
      /\ v.spent = w.spent /\ v.spare = w.spare
      /\ v.ok \in BOOLEAN /\ v.stuck \in BOOLEAN
      /\ v.total = IF w.use /\ (v.ok \/ v.stuck) THEN w.total + n ELSE w.total
      /\ \A f \in Files : Listed(w, f) /\ ~Listed(v, f) => w.list[f] = <<>>
      /\ \A f, g \in Files : Listed(w, f) /\ ~Listed(v, f) /\ Listed(v, g) => f < g
      /\ ~w.use => v.ok
      /\ v.cur >= w.cur /\ Honest(v)
  BY <1>1, Reserving
<1>3. w' = Settled(v) /\ dir' = DirOf(v)
  BY DEF SetWal
<1>4. Disk(w', dir') /\ Log(w', dir') /\ Extends(v, dir')
  BY <1>1, <1>2, <1>3, FitNext
<1>5. v \in WalRec /\ Chain(v)
  BY <1>2 DEF Fit, Chain
<1>6. /\ w'.files = v.files /\ w'.use = v.use /\ w'.total = v.total /\ w'.alive = v.alive
      /\ w'.cur = v.cur /\ w'.list = v.list /\ w'.used = v.used /\ w'.spent = v.spent /\ w'.spare = v.spare
  BY <1>3, <1>5, SettledFields
<1>7. v.use = w.use
  BY <1>2 DEF Fit
<1>8. \A j : InList(w', j) <=> InList(w, j)
  BY <1>2, <1>6 DEF InList, Holds
<1>9. \A f \in Files : Listed(w', f) <=> Listed(v, f)
  BY <1>6 DEF Listed
<1> QED BY <1>2, <1>4, <1>6, <1>7, <1>8, <1>9

\* A step of a server that runs, and has no record to finish.
LEMMA KeepRunning ==
  ASSUME FilesInv, Running, Disk(w', dir'), Log(w', dir'),
         pc' \in {"replay", "idle", "write", "compact", "hung"},
         JobMap(jobs'), nextId' \in 1..(MaxJobs + 1), \A j \in DOMAIN jobs' : j < nextId',
         \A j \in Ids : InList(w', j) => j < nextId',
         run' \in RunRec,
         rd' \in CursorRec,
         ClientTypes',
         pc' = "replay" => w'.use,
         pc' \in {"replay", "idle"} => run' = NoRun,
         pc' \in {"write", "compact"} => run'.job \in DOMAIN jobs' /\ run'.op # "none",
         pc' = "write" /\ run'.moving # 0 => run'.moving \in DOMAIN jobs',
         pc' = "compact" => run'.moving = 0,
         w'.use \/ run'.left > 0 => \A j \in Ids : InList(w', j) => j \in DOMAIN jobs'
  PROVE  FilesInv'
<1>1. JobTypes'
  BY DEF JobTypes, JobMap
<1>2. DownInv' /\ ReadInv' /\ BodyInv'
  BY DEF DownInv, ReadInv, BodyInv
<1>3. RunInv'
  BY DEF RunInv, Running, Subject
<1>4. JobsInv'
  BY DEF JobsInv
<1> QED BY <1>1, <1>2, <1>3, <1>4 DEF FilesInv

\* Put: space is reserved, and the new job is known.
LEMMA PutKeeps ==
  ASSUME FilesInv, NEW kind \in Kinds, NEW delayed \in BOOLEAN, NEW room \in Rooms,
         Put(kind, delayed, room)
  PROVE  FilesInv'
<1> DEFINE j == nextId
           st == IF delayed THEN "delayed" ELSE "ready"
           n == WalResvPut(kind)
           v == reserve([w EXCEPT !.room = room], n)
           N(s, c) == [k \in DOMAIN jobs \cup {j} |->
                         IF k = j THEN [st |-> s, kind |-> kind, good |-> TRUE, where |-> c]
                         ELSE jobs[k]]
<1>1. pc = "idle" /\ j \in Ids /\ cmds' \in 0..MaxCmds
  BY CommandFields DEF Put, FilesInv
<1>2. SetWal(v) /\ Charge(v) /\ nextId' = j + 1 /\ gone' = gone \ {j} /\ acked' = Forget(j)
  BY DEF Put
<1>3. \/ v.stuck /\ Hangs
      \/ v.ok /\ jobs' = N(st, {st}) /\ Working("put", j, n)
      \/ jobs' = N("invalid", {}) /\ Answer("OUT_OF_MEMORY")
  BY DEF Put
<1>4. rd' = rd
  BY DEF Put
<1>5. n \in Int
  BY Numbers, SizesAssumption DEF WalResvPut
<1>6. Running /\ run = NoRun /\ RunInv
  BY <1>1 DEF Running, RunInv, FilesInv
<1> HIDE DEF n
<1>7. /\ Disk(w', dir') /\ Log(w', dir') /\ w'.use = w.use
      /\ \A k : InList(w', k) <=> InList(w, k)
  BY <1>2, <1>5, <1>6, ReserveNext
<1> HIDE DEF v
<1>8. JobMap(jobs) /\ (\A k \in DOMAIN jobs : k < nextId) /\ (\A k \in Ids : InList(w, k) => k < nextId)
      /\ ClientTypes /\ JobsInv /\ rd \in CursorRec
  BY Parts
<1>9. ClientTypes'
  <2>1. faults' \in 0..MaxFaults
    BY <1>2, <1>8, ChargeFields
  <2> QED BY <1>1, <1>2, <1>8, <2>1, ClientForget
<1>10. nextId' \in 1..(MaxJobs + 1) /\ \A k \in Ids : k < nextId \/ k = j => k < nextId'
  BY <1>1, <1>2, Numbers DEF Ids
<1>11. st \in States /\ {st} \in SUBSET States /\ "invalid" \in States /\ {} \in SUBSET States
  BY DEF States
<1>12. ASSUME NEW s \in States, NEW c \in SUBSET States
       PROVE  JobMap(N(s, c)) /\ DOMAIN N(s, c) = DOMAIN jobs \cup {j}
  <2>1. [st |-> s, kind |-> kind, good |-> TRUE, where |-> c] \in JobRec
    BY DEF JobRec
  <2> QED BY <1>1, <1>8, <2>1 DEF JobMap
<1> HIDE DEF N, st
<1>13. \A k \in Ids : InList(w', k) => k < nextId'
  BY <1>7, <1>8, <1>10
<1>14. w.use => \A k \in Ids : InList(w', k) => k \in DOMAIN jobs
  BY <1>7, <1>8 DEF JobsInv
<1>15. ASSUME v.stuck, Hangs PROVE FilesInv'
  <2>1. pc' = "hung" /\ jobs' = jobs /\ run' = run
    BY <1>15 DEF Hangs
  <2>2. \A k \in DOMAIN jobs' : k < nextId'
    BY <1>8, <1>10, <2>1 DEF JobMap
  <2>3. run' \in RunRec /\ run'.left = 0
    BY <1>6, <2>1, NoRunFields
  <2> QED BY <1>4, <1>6, <1>7, <1>8, <1>9, <1>10, <1>13, <1>14, <2>1, <2>2, <2>3, KeepRunning
<1>16. ASSUME NEW s \in States, NEW c \in SUBSET States, jobs' = N(s, c)
       PROVE  /\ JobMap(jobs') /\ (\A k \in DOMAIN jobs' : k < nextId') /\ j \in DOMAIN jobs'
              /\ w'.use => \A k \in Ids : InList(w', k) => k \in DOMAIN jobs'
  <2>1. JobMap(jobs') /\ DOMAIN jobs' = DOMAIN jobs \cup {j}
    BY <1>12, <1>16
  <2>2. \A k \in DOMAIN jobs' : k < nextId'
    BY <1>1, <1>8, <1>10, <2>1 DEF JobMap
  <2> QED BY <1>7, <1>14, <2>1, <2>2
<1>17. ASSUME jobs' = N(st, {st}), Working("put", j, n) PROVE FilesInv'
  <2>1. pc' = "write" /\ run' \in RunRec /\ run'.op = "put" /\ run'.job = j /\ run'.left = 0
        /\ run'.moving = 0
    BY <1>1, <1>5, <1>17, WorkingFields
  <2>2. /\ JobMap(jobs') /\ (\A k \in DOMAIN jobs' : k < nextId') /\ j \in DOMAIN jobs'
        /\ w'.use => \A k \in Ids : InList(w', k) => k \in DOMAIN jobs'
    BY <1>11, <1>16, <1>17
  <2> QED BY <1>4, <1>6, <1>7, <1>8, <1>9, <1>10, <1>13, <2>1, <2>2, KeepRunning
<1>18. ASSUME jobs' = N("invalid", {}), Answer("OUT_OF_MEMORY") PROVE FilesInv'
  <2>1. pc' = "idle" /\ run' = NoRun
    BY <1>18 DEF Answer
  <2>2. /\ JobMap(jobs') /\ (\A k \in DOMAIN jobs' : k < nextId')
        /\ w'.use => \A k \in Ids : InList(w', k) => k \in DOMAIN jobs'
    BY <1>11, <1>16, <1>18
  <2>3. run' \in RunRec /\ run'.left = 0
    BY <2>1, NoRunFields
  <2> QED BY <1>4, <1>6, <1>7, <1>8, <1>9, <1>10, <1>13, <2>1, <2>2, <2>3, KeepRunning
<1> QED BY <1>3, <1>15, <1>17, <1>18

\* Commands and turns that leave the log alone and put a job somewhere else.
LEMMA PlaceKeeps ==
  ASSUME FilesInv, pc = "idle", NEW j \in DOMAIN jobs, NEW st \in States, NEW c \in SUBSET States,
         jobs' = Place(j, st, c), UNCHANGED <<w, dir, nextId, rd>>, ClientTypes',
         \/ pc' = "idle" /\ run' = run
         \/ \E op \in {"delete", "release"} : Working(op, j, 0)
  PROVE  FilesInv'
<1>1. Running /\ run = NoRun /\ RunInv
  BY DEF Running, RunInv, FilesInv
<1>2. /\ Disk(w, dir) /\ Log(w, dir) /\ JobMap(jobs) /\ nextId \in 1..(MaxJobs + 1)
      /\ (\A k \in DOMAIN jobs : k < nextId) /\ (\A k \in Ids : InList(w, k) => k < nextId)
      /\ JobsInv /\ rd \in CursorRec
  BY <1>1, Parts
<1>3. JobMap(jobs') /\ DOMAIN jobs' = DOMAIN jobs
  BY <1>2, PlaceFields
<1>4. w' = w /\ dir' = dir /\ nextId' = nextId /\ rd' = rd
  OBVIOUS
<1>5. CASE pc' = "idle" /\ run' = run
  <2>1. run' = NoRun /\ run' \in RunRec /\ run'.left = 0
    BY <1>1, <1>5, NoRunFields
  <2>2. w'.use => \A k \in Ids : InList(w', k) => k \in DOMAIN jobs'
    BY <1>2, <1>3, <1>4 DEF JobsInv
  <2> QED BY <1>1, <1>2, <1>3, <1>4, <1>5, <2>1, <2>2, KeepRunning
<1>6. ASSUME NEW op \in {"delete", "release"}, Working(op, j, 0) PROVE FilesInv'
  <2>0. j \in Ids /\ 0 \in Int
    BY <1>2, JobFields
  <2>1. pc' = "write" /\ run' \in RunRec /\ run'.op = op /\ run'.job = j /\ run'.left = 0
        /\ run'.moving = 0
    BY <1>6, <2>0, WorkingFields
  <2>2. w'.use => \A k \in Ids : InList(w', k) => k \in DOMAIN jobs'
    BY <1>2, <1>3, <1>4 DEF JobsInv
  <2>3. op # "none"
    OBVIOUS
  <2> QED BY <1>1, <1>2, <1>3, <1>4, <2>1, <2>2, <2>3, KeepRunning
<1> QED BY <1>5, <1>6

\* Reserve, Requeue, Delete and Release touch one job and no file.
LEMMA TurnKeeps ==
  ASSUME FilesInv, NEW j \in DOMAIN jobs, Reserve(j) \/ Requeue(j) \/ Delete(j) \/ Release(j)
  PROVE  FilesInv'
<1>1. JobMap(jobs) /\ ClientTypes
  BY Parts
<1>2. jobs[j].where \subseteq States
  BY <1>1, JobFields
<1>3. CASE Reserve(j)
  <2> DEFINE c == (jobs[j].where \ {"ready"}) \cup {"reserved"}
  <2>1. "reserved" \in States /\ c \in SUBSET States
    BY <1>2 DEF States
  <2>2. pc = "idle" /\ jobs' = Place(j, "reserved", c) /\ pc' = pc /\ run' = run
        /\ UNCHANGED <<w, dir, nextId, rd, acked, gone, faults, cmds>>
    BY <1>3 DEF Reserve
  <2> HIDE DEF c
  <2>3. ClientTypes'
    BY <1>1, <2>2 DEF ClientTypes
  <2> QED BY <2>1, <2>2, <2>3, PlaceKeeps
<1>4. CASE Requeue(j)
  <2>1. "ready" \in States /\ {"ready"} \in SUBSET States
    BY DEF States
  <2>2. pc = "idle" /\ jobs' = Place(j, "ready", {"ready"}) /\ pc' = pc /\ run' = run
        /\ UNCHANGED <<w, dir, nextId, rd, acked, gone, faults, cmds>>
    BY <1>4 DEF Requeue
  <2>3. ClientTypes'
    BY <1>1, <2>2 DEF ClientTypes
  <2> QED BY <2>1, <2>2, <2>3, PlaceKeeps
<1>5. CASE Delete(j)
  <2> DEFINE c == jobs[j].where \ {jobs[j].st}
  <2>1. "invalid" \in States /\ c \in SUBSET States
    BY <1>2 DEF States
  <2>2. Command("delete") /\ jobs' = Place(j, "invalid", c) /\ Working("delete", j, 0)
        /\ acked' = Forget(j) /\ UNCHANGED <<w, dir, nextId, rd, gone, faults>>
    BY <1>5 DEF Delete, Started
  <2> HIDE DEF c
  <2>3. cmds' \in 0..MaxCmds /\ pc = "idle"
    BY <1>1, <2>2, CommandFields
  <2>4. ClientTypes'
    <3>1. faults' \in 0..MaxFaults
      BY <1>1, <2>2 DEF ClientTypes
    <3> QED BY <1>1, <2>2, <2>3, <3>1, ClientForget
  <2> QED BY <2>1, <2>2, <2>3, <2>4, PlaceKeeps
<1>6. CASE Release(j)
  <2>1. "ready" \in States /\ {"ready"} \in SUBSET States
    BY DEF States
  <2>2. Command("release") /\ jobs' = Place(j, "ready", {"ready"}) /\ Working("release", j, 0)
        /\ UNCHANGED <<w, dir, nextId, rd, acked, gone, faults>>
    BY <1>6 DEF Release, Started
  <2>3. cmds' \in 0..MaxCmds /\ pc = "idle"
    BY <1>1, <2>2, CommandFields
  <2>4. ClientTypes'
    BY <1>1, <2>2, <2>3 DEF ClientTypes
  <2> QED BY <2>1, <2>2, <2>3, <2>4, PlaceKeeps
<1> QED BY <1>3, <1>4, <1>5, <1>6

\* Bury and ReleaseDelayed: space is reserved.
LEMMA BuryKeeps ==
  ASSUME FilesInv, NEW j \in DOMAIN jobs, NEW room \in Rooms,
         Bury(j, room) \/ ReleaseDelayed(j, room)
  PROVE  FilesInv'
<1> DEFINE v == reserve([w EXCEPT !.room = room], WalResvUpdate)
           u == IF v.ok THEN [v EXCEPT !.spare = @ + 1] ELSE v
<1>1. /\ Disk(w, dir) /\ JobMap(jobs) /\ nextId \in 1..(MaxJobs + 1)
      /\ (\A k \in DOMAIN jobs : k < nextId) /\ (\A k \in Ids : InList(w, k) => k < nextId)
      /\ JobsInv /\ rd \in CursorRec
      /\ ClientTypes
  BY Parts
<1>2. pc = "idle" /\ cmds' \in 0..MaxCmds
  BY <1>1, CommandFields DEF Bury, ReleaseDelayed
<1>3. Running /\ run = NoRun /\ Log(w, dir)
  BY <1>2 DEF Running, RunInv, FilesInv
<1>4. /\ Charge(v) /\ nextId' = nextId /\ rd' = rd /\ acked' = acked /\ gone' = gone
      /\ (SetWal(v) \/ SetWal(u))
      /\ \/ Hangs
         \/ v.ok /\ Working("bury", j, WalResvUpdate) /\ jobs' = Place(j, "buried", {"buried"})
         \/ pc' = "idle" /\ run' = NoRun /\ \E st \in {"reserved", "delayed"}, c \in SUBSET {"delayed"} :
              jobs' = Place(j, st, c)
  BY DEF Bury, ReleaseDelayed, Answer
<1>5. WalResvUpdate \in Int
  BY Numbers DEF WalResvUpdate
<1>6. Fit(v) /\ v.list = w.list
  BY <1>1, <1>3, <1>5, Reserving
<1> HIDE DEF v
<1>7. Fit(u) /\ u.list = w.list
  <2>1. v \in WalRec
    BY <1>6 DEF Fit, Chain
  <2> DEFINE more == v.spare + 1
             x == [v EXCEPT !.spare = more]
  <2>2. more \in Nat
    BY <2>1, WalFields
  <2> HIDE DEF more
  <2>3. /\ x \in WalRec /\ x.files = v.files /\ x.cur = v.cur /\ x.next = v.next /\ x.use = v.use
        /\ x.open = v.open /\ x.reading = v.reading
        /\ x.free = v.free /\ x.resv = v.resv /\ x.list = v.list /\ x.room = v.room
    BY <2>1, <2>2 DEF WalRec
  <2>4. u = IF v.ok THEN x ELSE v
    BY DEF more
  <2> HIDE DEF x, u
  <2>5. \A f \in Files : Listed(x, f) <=> Listed(v, f)
    BY <2>3 DEF Listed
  <2>6. Chain(x)
    BY <1>6, <2>3, <2>5 DEF Chain, Fit
  <2>7. Writing(v) => Writing(x)
    BY <2>3, <2>5, <2>6 DEF Writing
  <2>8. Once(x) /\ Space(w, x)
    BY <1>6, <2>3, <2>5 DEF Fit, Once, Space
  <2>9. v.open \subseteq Files
    BY <2>1, WalFields
  <2>10. Fit(x)
    BY <1>6, <2>3, <2>5, <2>6, <2>7, <2>8, <2>9 DEF Fit
  <2> QED BY <1>6, <2>3, <2>4, <2>10
<1> HIDE DEF u
<1>8. PICK y : Fit(y) /\ y.list = w.list /\ w' = Settled(y) /\ dir' = DirOf(y)
  BY <1>4, <1>6, <1>7 DEF SetWal
<1>9. Disk(w', dir') /\ Log(w', dir')
  BY <1>1, <1>3, <1>8, FitNext
<1>10. w'.use = w.use /\ \A k : InList(w', k) <=> InList(w, k)
  <2>1. y \in WalRec /\ y.use = w.use
    BY <1>8 DEF Fit, Chain
  <2>2. w'.list = y.list /\ w'.use = y.use
    BY <1>8, <2>1, SettledFields
  <2> QED BY <1>8, <2>1, <2>2 DEF InList, Holds
<1>11. ClientTypes'
  <2>1. faults' \in 0..MaxFaults
    BY <1>1, <1>4, ChargeFields
  <2> QED BY <1>1, <1>2, <1>4, <2>1 DEF ClientTypes
<1>12. w.use => \A k \in Ids : InList(w', k) => k \in DOMAIN jobs
  BY <1>1, <1>10 DEF JobsInv
<1>13. CASE Hangs
  <2>1. pc' = "hung" /\ jobs' = jobs /\ run' = NoRun /\ run' \in RunRec /\ run'.left = 0
    BY <1>3, <1>13, NoRunFields DEF Hangs
  <2> QED BY <1>1, <1>3, <1>4, <1>9, <1>10, <1>11, <1>12, <2>1, KeepRunning
<1>14. ASSUME Working("bury", j, WalResvUpdate), jobs' = Place(j, "buried", {"buried"})
       PROVE  FilesInv'
  <2>0. j \in Ids /\ "buried" \in States /\ {"buried"} \in SUBSET States
    BY <1>1, JobFields DEF States
  <2>1. pc' = "write" /\ run' \in RunRec /\ run'.op = "bury" /\ run'.job = j /\ run'.left = 0
        /\ run'.moving = 0
    BY <1>5, <1>14, <2>0, WorkingFields
  <2>2. JobMap(jobs') /\ DOMAIN jobs' = DOMAIN jobs
    BY <1>1, <1>14, <2>0, PlaceFields
  <2> QED BY <1>1, <1>3, <1>4, <1>9, <1>10, <1>11, <1>12, <2>1, <2>2, KeepRunning
<1>15. ASSUME pc' = "idle", run' = NoRun, NEW st \in {"reserved", "delayed"},
              NEW c \in SUBSET {"delayed"}, jobs' = Place(j, st, c)
       PROVE  FilesInv'
  <2>0. st \in States /\ c \in SUBSET States
    BY DEF States
  <2>1. run' \in RunRec /\ run'.left = 0
    BY <1>15, NoRunFields
  <2>2. JobMap(jobs') /\ DOMAIN jobs' = DOMAIN jobs
    BY <1>1, <1>15, <2>0, PlaceFields
  <2> QED BY <1>1, <1>3, <1>4, <1>9, <1>10, <1>11, <1>12, <1>15, <2>1, <2>2, KeepRunning
<1> QED BY <1>4, <1>13, <1>14, <1>15

\* The fields of a log that knows no file.
LEMMA EmptyFields ==
  ASSUME NEW n \in 1..(MaxFiles + 1), NEW v, v = EmptyWal(n)
  PROVE  /\ v \in WalRec /\ v.files = <<>> /\ v.cur = 0 /\ v.next = n /\ v.use /\ v.ok /\ ~v.stuck
         /\ v.open = {} /\ v.reading = 0 /\ v.total = 0 /\ v.room = 0
         /\ v.spent = 0 /\ v.spare = 0
         /\ (\A f \in Files : v.list[f] = <<>>)
         /\ Chain(v) /\ Once(v) /\ (\A j : ~InList(v, j)) /\ \A f : ~Listed(v, f)
<1>1. 0 \in 0..MaxFiles
  BY Numbers
<1>2. v \in WalRec
  <2>1. <<>> \in Seq(Files) /\ <<>> \in Seq(Ids)
    OBVIOUS
  <2>2. [f \in Files |-> 0] \in [Files -> Int] /\ [f \in Files |-> <<>>] \in [Files -> Seq(Ids)]
        /\ [j \in Ids |-> 0] \in [Ids -> Int]
    BY <2>1
  <2> QED BY <1>1, <2>1, <2>2 DEF WalRec, EmptyWal
<1>3. /\ v.files = <<>> /\ v.cur = 0 /\ v.next = n /\ v.use /\ v.ok /\ ~v.stuck
      /\ v.open = {} /\ v.reading = 0 /\ v.total = 0 /\ v.room = 0
      /\ v.spent = 0 /\ v.spare = 0
  BY DEF EmptyWal
<1>4. \A f \in Files : v.list[f] = <<>>
  BY DEF EmptyWal
<1>5. DOMAIN v.files = {}
  BY <1>3
<1>6. \A f : ~Listed(v, f)
  BY <1>5 DEF Listed
<1>7. \A f \in Files : DOMAIN v.list[f] = {}
  BY <1>4
<1>8. n + 0 <= MaxFiles + 1
  BY Numbers
<1>9. Chain(v)
  BY <1>2, <1>3, <1>4, <1>5, <1>8 DEF Chain
<1>10. Once(v) /\ \A j : ~InList(v, j)
  BY <1>7 DEF Once, InList, Holds
<1> QED BY <1>2, <1>3, <1>4, <1>6, <1>9, <1>10

\* A process that has gone.
LEMMA DiedKeeps ==
  ASSUME Died, DOMAIN dir' \subseteq Files, dir' \in [DOMAIN dir' -> DirRec], ClientTypes'
  PROVE  FilesInv'
<1>1. pc' = "down" /\ w' = EmptyWal(1) /\ jobs' = <<>> /\ nextId' = 1
      /\ run' = NoRun /\ rd' = NoRead
  BY DEF Died
<1>2. 1 \in 1..(MaxFiles + 1) /\ 1 \in 1..(MaxJobs + 1)
  BY Numbers
<1>3. /\ Chain(w') /\ Once(w') /\ w'.ok /\ ~w'.stuck /\ w'.room = 0 /\ \A j : ~InList(w', j)
  BY <1>1, <1>2, EmptyFields
<1>4. JobTypes'
  <2>1. JobMap(jobs') /\ DOMAIN jobs' = {}
    BY <1>1, NoJobs
  <2>2. 0 \in 0..MaxFiles /\ <<>> \in Seq(Ids)
    BY Numbers
  <2>3. rd' \in CursorRec
    BY <1>1, <2>2 DEF NoRead, CursorRec
  <2> QED BY <1>1, <1>2, <1>3, <2>1, <2>3, NoRunFields DEF JobTypes, JobMap
<1>5. Disk(w, dir)'
  BY <1>3 DEF Disk
<1>6. DownInv' /\ ReadInv' /\ RunInv' /\ BodyInv' /\ ~Running'
  BY <1>1 DEF DownInv, ReadInv, RunInv, BodyInv, Running
<1>7. JobsInv'
  BY <1>3 DEF JobsInv
<1> QED BY <1>4, <1>5, <1>6, <1>7 DEF FilesInv

\* Jobs may be exposed.
LEMMA ExposeTypes ==
  ASSUME ClientTypes, NEW S \in SUBSET Ids, Expose(S), faults' \in 0..MaxFaults, cmds' = cmds
  PROVE  ClientTypes'
BY DEF ClientTypes, Expose, Told

\* The job in moveOne's hand is a job.
LEMMA InHandIds == FilesInv => InHand \in SUBSET Ids
<1>1. FilesInv => run.moving \in 0..MaxJobs
  BY Parts, RunFields
<1>2. 0..MaxJobs \ {0} \subseteq Ids
  BY Numbers DEF Ids
<1> QED BY <1>1, <1>2 DEF InHand

\* So are those whose answers were not logged.
LEMMA UnloggedIds == FilesInv => Unlogged \in SUBSET Ids
BY DEF FilesInv, ClientTypes, Unlogged

\* Crash.
LEMMA CrashKeeps ==
  ASSUME FilesInv, Crash
  PROVE  FilesInv'
<1> DEFINE S == InHand \cup Unlogged
<1>1. Died /\ faults < MaxFaults /\ faults' = faults + 1 /\ Expose(S) /\ dir' = dir /\ cmds' = cmds
  BY DEF Crash
<1>2. ClientTypes'
  <2>1. faults' \in 0..MaxFaults /\ ClientTypes
    BY <1>1, Numbers DEF FilesInv, ClientTypes
  <2>2. S \in SUBSET Ids
    BY InHandIds, UnloggedIds
  <2> HIDE DEF S
  <2> QED BY <1>1, <2>1, <2>2, ExposeTypes
<1> QED BY <1>1, <1>2, DiedKeeps DEF FilesInv, Disk

\* The file that fileWOpen leaves without a version.
NewFile(e) ==
  /\ w.next \in Files /\ DOMAIN e = DOMAIN dir \cup {w.next} /\ e = [f \in DOMAIN e |-> e[f]]
  /\ e[w.next] = [ver |-> 0, recs |-> <<>>]
  /\ \A f \in DOMAIN dir : f # w.next => e[f] = dir[f]

LEMMA NewFileIs ==
  ASSUME CrashInOpen
  PROVE  NewFile(dir')
<1> DEFINE e == dir'
           none == [ver |-> 0, recs |-> <<>>]
           n == w.next
<1>1. /\ n \in Files
      /\ e = [f \in DOMAIN dir \cup {n} |-> IF f = n THEN none ELSE dir[f]]
  BY DEF CrashInOpen, MakesFile
<1> HIDE DEF e, none
<1>2. /\ DOMAIN e = DOMAIN dir \cup {n} /\ e[n] = none /\ e = [f \in DOMAIN e |-> e[f]]
      /\ \A f \in DOMAIN dir : f # n => e[f] = dir[f]
  BY <1>1
<1> QED BY <1>1, <1>2 DEF e, none, NewFile

\* A crash in fileWOpen.
LEMMA CrashInOpenKeeps ==
  ASSUME FilesInv, CrashInOpen
  PROVE  FilesInv'
<1> DEFINE S == InHand \cup Unlogged
           e == dir'
<1>1. Died /\ faults + OpenCost <= MaxFaults /\ faults' = faults + OpenCost /\ Expose(S) /\ cmds' = cmds
  BY DEF CrashInOpen
<1>2. ClientTypes'
  <2>1. faults' \in 0..MaxFaults /\ ClientTypes
    BY <1>1, SizesAssumption DEF FilesInv, ClientTypes
  <2>2. S \in SUBSET Ids
    BY InHandIds, UnloggedIds
  <2> HIDE DEF S
  <2> QED BY <1>1, <2>1, <2>2, ExposeTypes
<1>3. NewFile(e)
  BY NewFileIs
<1>4. [ver |-> 0, recs |-> <<>>] \in DirRec
  BY DEF DirRec
<1>5. DOMAIN dir \subseteq Files /\ dir \in [DOMAIN dir -> DirRec]
  BY DEF FilesInv, Disk
<1> HIDE DEF e
<1>6. DOMAIN e \subseteq Files /\ \A f \in DOMAIN e : e[f] \in DirRec
  BY <1>3, <1>4, <1>5 DEF NewFile
<1>7. e \in [DOMAIN e -> DirRec]
  BY <1>3, <1>6 DEF NewFile
<1> QED BY <1>1, <1>2, <1>6, <1>7, DiedKeeps DEF e

\* A round of walCompact finds a head file or dies.
Moves(room) == pc = "compact" /\ run.left > 0 /\ w.files # <<>> /\ moveHead(room)
Stops == pc = "compact" /\ run.left > 0 /\ w.files = <<>> /\ moveNone

LEMMA MoveOneSplits ==
  ASSUME NEW room, moveOne(room)
  PROVE  Moves(room) \/ Stops
BY DEF moveOne, Moves, Stops

\* moveNone: w.Head is nil, and the process dies.
LEMMA MoveNoneKeeps ==
  ASSUME FilesInv, moveNone
  PROVE  FilesInv'
<1>1. Died /\ UNCHANGED <<dir, faults, cmds>> /\ Expose(Unlogged)
  BY DEF moveNone
<1>2. ClientTypes'
  <2>1. ClientTypes /\ faults' \in 0..MaxFaults
    BY <1>1 DEF ClientTypes, FilesInv
  <2> QED BY <1>1, <2>1, UnloggedIds, ExposeTypes
<1> QED BY <1>1, <1>2, DiedKeeps DEF FilesInv, Disk

\* A step of recovery.
LEMMA KeepReading ==
  ASSUME FilesInv, Disk(w', dir'), pc' = "read", w'.use, w'.open = {}, w'.cur = 0,
         w'.reading \in {0, rd'.last}, run' = NoRun,
         \A f \in Files : Listed(w', f) => f \in DOMAIN dir',
         \A f \in Files : f \in DOMAIN dir' /\ f <= rd'.last => Listed(w', f),
         \A f \in Files : Listed(w', f) => f <= rd'.last,
         \A f \in DOMAIN dir' : f < w'.next,
         w'.reading # 0 => w'.reading \in DOMAIN dir' /\ rd'.pos >= 1,
         \A j \in Ids : j \in DOMAIN jobs' <=> Has(rd'.list, j),
         Distinct(rd'.list),
         JobMap(jobs'), nextId' \in 1..(MaxJobs + 1), \A j \in DOMAIN jobs' : j < nextId',
         \A j \in Ids : InList(w', j) => j \in DOMAIN jobs',
         rd' \in CursorRec,
         ClientTypes'
  PROVE  FilesInv'
<1>1. JobTypes'
  <2>1. \A j \in Ids : InList(w', j) => j < nextId'
    OBVIOUS
  <2> QED BY <2>1, NoRunFields DEF JobTypes, JobMap
<1>2. DownInv' /\ RunInv' /\ BodyInv' /\ ~Running'
  BY DEF DownInv, RunInv, BodyInv, Running
<1>3. ReadInv'
  BY DEF ReadInv, Has, Distinct
<1>4. JobsInv'
  BY DEF JobsInv
<1> QED BY <1>1, <1>2, <1>3, <1>4 DEF FilesInv

\* Start: recovery knows no file yet.
LEMMA StartKeeps ==
  ASSUME FilesInv, Start
  PROVE  FilesInv'
<1> DEFINE S == DOMAIN dir \cup {0}
           n == Max(S) + 1
<1>1. pc = "down" /\ pc' = "read" /\ w' = EmptyWal(n)
      /\ UNCHANGED <<dir, jobs, nextId, run, rd, acked, gone, faults, cmds>>
  BY DEF Start
<1>2. /\ DOMAIN dir \subseteq Files /\ dir \in [DOMAIN dir -> DirRec] /\ ClientTypes
      /\ jobs = <<>> /\ nextId = 1 /\ run = NoRun /\ rd = NoRead
  BY <1>1 DEF FilesInv, Disk, DownInv
<1>3. S \in SUBSET (0..MaxFiles) /\ S # {} /\ MaxFiles \in Nat
  BY <1>2, Numbers DEF Files
<1> HIDE DEF S
<1>4. Max(S) \in S /\ \A f \in S : Max(S) >= f
  BY <1>3, MaxIs
<1>5. n \in 1..(MaxFiles + 1) /\ \A f \in DOMAIN dir : f < n
  <2> DEFINE m == Max(S)
  <2>1. m \in 0..MaxFiles /\ \A f \in DOMAIN dir : f \in 0..MaxFiles /\ m >= f
    BY <1>3, <1>4 DEF S
  <2> HIDE DEF m
  <2>2. m + 1 \in 1..(MaxFiles + 1) /\ \A f \in DOMAIN dir : f < m + 1
    BY <2>1, Numbers
  <2> QED BY <2>2 DEF m
<1> HIDE DEF n
<1>6. /\ Chain(w') /\ Once(w') /\ w'.ok /\ ~w'.stuck /\ w'.room = 0 /\ w'.use
      /\ w'.open = {} /\ w'.cur = 0 /\ w'.reading = 0 /\ w'.next = n
      /\ (\A j : ~InList(w', j)) /\ \A f : ~Listed(w', f)
  BY <1>1, <1>5, EmptyFields
<1>7. Disk(w', dir')
  BY <1>1, <1>2, <1>6 DEF Disk
<1>8. rd' \in CursorRec /\ rd'.last = 0 /\ rd'.pos = 0 /\ rd'.list = <<>>
  BY <1>1, <1>2, Numbers DEF NoRead, CursorRec
<1>9. \A f \in Files : ~(f <= 0)
  BY Numbers
<1>10. JobMap(jobs') /\ DOMAIN jobs' = {} /\ nextId' \in 1..(MaxJobs + 1)
  BY <1>1, <1>2, NoJobs, Numbers
<1>11. ~\E j : Has(rd'.list, j)
  BY <1>8 DEF Has
<1>12. Distinct(rd'.list)
  BY <1>8 DEF Distinct
<1>13. ClientTypes'
  BY <1>1, <1>2 DEF ClientTypes
<1> QED BY <1>1, <1>2, <1>5, <1>6, <1>7, <1>8, <1>9, <1>10, <1>11, <1>12, <1>13, KeepReading

\* Files that go while recovery reads.
Rereads(v, d) ==
  /\ Disk(w', d) /\ DirStep(v, d)
  /\ w'.use /\ w'.open = {} /\ w'.cur = 0 /\ w'.reading = v.reading /\ w'.next = w.next
  /\ w'.list = v.list /\ w'.total = v.total /\ w'.spent = v.spent /\ w'.spare = v.spare
  /\ \A f \in Files : Listed(w', f) <=> Listed(v, f)
  /\ \A f \in Files : f \in DOMAIN d <=> f \in DOMAIN dir /\ (Listed(w, f) => Listed(v, f))
  /\ \A f \in DOMAIN d : f \in DOMAIN dir /\ d[f] = dir[f] /\ f < w'.next
  /\ \A f \in Files : Listed(w', f) => f \in DOMAIN d /\ f <= rd.last
  /\ \A f \in Files : f \in DOMAIN d /\ f <= rd.last => Listed(w', f)

\* What recovery collects is unlinked, and the rest of the directory stays.
LEMMA Rereading ==
  ASSUME FilesInv, pc = "read", NEW v, Chain(v), Once(v), v.open = {}, v.cur = 0, v.use,
         v.next = w.next, \A f \in Files : Listed(v, f) => Listed(w, f),
         w' = Settled(v), NEW d, d = DirOf(v)
  PROVE  Rereads(v, d)
<1>1. /\ w.open = {}
      /\ \A f \in Files : Listed(w, f) => f \in DOMAIN dir
      /\ \A f \in Files : f \in DOMAIN dir /\ f <= rd.last => Listed(w, f)
      /\ \A f \in Files : Listed(w, f) => f <= rd.last
      /\ \A f \in DOMAIN dir : f < w.next
  BY DEF FilesInv, ReadInv
<1>2. DirTypes /\ w \in WalRec /\ v \in WalRec
  BY DEF FilesInv, Disk, DirTypes, Chain
<1>3. DirStep(v, d)
  BY <1>2, Unlinking
<1>4. /\ Chain(w') /\ Once(w') /\ \A f \in Files : Listed(w', f) <=> Listed(v, f)
  BY SettledChain
<1>5. /\ w'.ok /\ ~w'.stuck /\ w'.room = 0 /\ w'.reading = v.reading /\ w'.open = v.open
      /\ w'.use = v.use /\ w'.cur = v.cur /\ w'.next = v.next /\ w'.list = v.list
      /\ w'.total = v.total /\ w'.spent = v.spent /\ w'.spare = v.spare
  BY <1>2, SettledFields
<1>6. Disk(w', d)
  BY <1>3, <1>4, <1>5 DEF Disk, DirStep
<1>7. DOMAIN d \subseteq Files /\ \A f \in Files : f \in DOMAIN d <=>
        f \in DOMAIN dir /\ (Listed(w, f) => Listed(v, f))
  BY <1>1, <1>3 DEF DirStep
<1>8. \A f \in DOMAIN d : f \in DOMAIN dir /\ d[f] = dir[f] /\ f < w'.next
  <2>1. \A f \in DOMAIN d : f \in Files /\ f \in DOMAIN dir /\ f \notin w.open
    BY <1>1, <1>7
  <2> QED BY <1>1, <1>3, <1>5, <2>1 DEF DirStep
<1>9. \A f \in Files : Listed(w', f) => f \in DOMAIN d /\ f <= rd.last
  BY <1>1, <1>4, <1>7
<1>10. \A f \in Files : f \in DOMAIN d /\ f <= rd.last => Listed(w', f)
  BY <1>1, <1>4, <1>7
<1> QED BY <1>3, <1>4, <1>5, <1>6, <1>7, <1>8, <1>9, <1>10 DEF Rereads

\* What ReadInv says, by name.
LEMMA Reading ==
  ASSUME FilesInv, pc = "read"
  PROVE  /\ w.use /\ w.open = {} /\ w.cur = 0 /\ w.reading \in {0, rd.last} /\ run = NoRun
         /\ \A f \in Files : Listed(w, f) => f \in DOMAIN dir
         /\ \A f \in Files : f \in DOMAIN dir /\ f <= rd.last => Listed(w, f)
         /\ \A f \in Files : Listed(w, f) => f <= rd.last
         /\ \A f \in DOMAIN dir : f < w.next
         /\ w.reading # 0 => w.reading \in DOMAIN dir /\ w.reading \in Files /\ Listed(w, w.reading)
                         /\ rd.pos >= 1
         /\ \A j \in Ids : j \in DOMAIN jobs <=> Has(rd.list, j)
         /\ Distinct(rd.list)
         /\ \A j \in Ids : InList(w, j) => j \in DOMAIN jobs
<1>1. DOMAIN dir \subseteq Files
  BY DEF FilesInv, Disk
<1>2. w.reading # 0 => w.reading <= rd.last
  BY <1>1, CursorFields, Numbers DEF FilesInv, ReadInv, JobTypes, Files
<1> QED BY <1>1, <1>2 DEF FilesInv, ReadInv, JobsInv, Has, Distinct

\* Recovery opens the next file, f.
OpenFacts(f) ==
  /\ pc = "read" /\ pc' = "read" /\ w.reading = 0 /\ f \in DOMAIN dir /\ f > rd.last
  /\ \A g \in DOMAIN dir : g > rd.last => f <= g
  /\ w'.reading = IF dir[f].ver \in {WalVer, WalVer5} THEN f ELSE 0
  /\ w'.list = w.list /\ w'.total = w.total /\ w'.spent = w.spent /\ w'.spare = w.spare
  /\ rd'.last = f /\ rd'.pos = 1 /\ rd'.list = rd.list
  /\ UNCHANGED <<dir, jobs, nextId, run, answer, acked, gone, faults, cmds>>

\* OpenFile: the next file of the directory joins the list.
LEMMA OpenFileKeeps ==
  ASSUME FilesInv, OpenFile
  PROVE  FilesInv' /\ \E f : OpenFacts(f)
<1>1. pc = "read" /\ w.reading = 0 /\ pc' = pc
      /\ UNCHANGED <<dir, jobs, nextId, run, acked, gone, faults, cmds>>
  BY DEF OpenFile
<1>2. PICK f \in DOMAIN dir :
        /\ f > rd.last /\ \A g \in DOMAIN dir : g > rd.last => f <= g
        /\ w' = [fileAdd(w, f) EXCEPT !.reading = IF dir[f].ver \in {WalVer, WalVer5} THEN f ELSE 0]
        /\ rd' = [rd EXCEPT !.last = f, !.pos = 1]
  BY DEF OpenFile
<1> DEFINE r == IF dir[f].ver \in {WalVer, WalVer5} THEN f ELSE 0
           files == Append(w.files, f)
           n == Len(w.files)
<1>3. /\ Disk(w, dir) /\ Chain(w) /\ w \in WalRec /\ Once(w) /\ w.ok /\ ~w.stuck /\ w.room = 0
      /\ f \in Files /\ f \in Nat /\ ClientTypes /\ rd \in CursorRec
  BY Numbers, Parts DEF Disk, Chain
<1>4. w' = [w EXCEPT !.files = files, !.reading = r]
  BY <1>2, <1>3 DEF fileAdd, WalRec
<1>5. r \in 0..MaxFiles /\ r \in {0, f}
  BY <1>3, Numbers DEF Files
<1>6. w.files \in Seq(Files) /\ n \in Nat /\ DOMAIN w.files = 1..n
  BY <1>3, WalFields
<1>7. /\ files \in Seq(Files) /\ DOMAIN files = 1..(n + 1) /\ files[n + 1] = f
      /\ \A i \in 1..n : files[i] = w.files[i] /\ w.files[i] \in Files
  BY <1>3, <1>6
<1> HIDE DEF files, r, n
<1>8. /\ w' \in WalRec /\ w'.files = files /\ w'.reading = r /\ w'.next = w.next /\ w'.use = w.use
      /\ w'.ok = w.ok /\ w'.stuck = w.stuck /\ w'.open = w.open /\ w'.cur = w.cur
      /\ w'.list = w.list /\ w'.room = w.room
      /\ w'.total = w.total /\ w'.spent = w.spent /\ w'.spare = w.spare
  BY <1>3, <1>4, <1>5, <1>7 DEF WalRec
<1>9. \A g \in Files : Listed(w', g) <=> Listed(w, g) \/ g = f
  <2>1. n + 1 \in 1..(n + 1) /\ \A i \in 1..(n + 1) : i \in 1..n \/ i = n + 1
    BY <1>6
  <2>2. \A i \in 1..n : i \in 1..(n + 1)
    BY <1>6
  <2> QED BY <1>6, <1>7, <1>8, <2>1, <2>2 DEF Listed
<1>10. /\ \A g \in Files : Listed(w, g) => g \in DOMAIN dir /\ g <= rd.last
       /\ \A g \in Files : g \in DOMAIN dir /\ g <= rd.last => Listed(w, g)
       /\ \A g \in DOMAIN dir : g < w.next
       /\ \A j \in Ids : j \in DOMAIN jobs <=> Has(rd.list, j)
       /\ Distinct(rd.list) /\ w.use /\ w.open = {} /\ w.cur = 0 /\ run = NoRun
       /\ \A j \in Ids : InList(w, j) => j \in DOMAIN jobs
  BY <1>1, Reading
<1>11. Chain(w')
  <2>1. \A i \in 1..n : w.files[i] < f /\ w.files[i] < w.next
    <3>1. \A i \in 1..n : Listed(w, w.files[i]) /\ w.files[i] \in Nat /\ w.files[i] <= rd.last
      BY <1>6, <1>7, <1>10, Numbers DEF Listed
    <3>2. f > rd.last /\ rd.last \in Nat /\ f \in Nat
      BY <1>2, <1>3, CursorFields
    <3> QED BY <1>3, <1>6, <3>1, <3>2 DEF Chain
  <2>2. ASSUME NEW i \in 1..(n + 1), NEW k \in 1..(n + 1), i < k PROVE files[i] < files[k]
    <3>1. i \in 1..n
      BY <1>6, <2>2
    <3>2. CASE k = n + 1
      BY <1>7, <2>1, <3>1, <3>2
    <3>3. CASE k # n + 1
      <4>1. k \in 1..n
        BY <1>6, <3>3
      <4> QED BY <1>3, <1>6, <1>7, <2>2, <3>1, <4>1 DEF Chain
    <3> QED BY <3>2, <3>3
  <2>3. \A i \in 1..(n + 1) : files[i] < w.next
    <3>1. \A i \in 1..(n + 1) : i \in 1..n \/ i = n + 1
      BY <1>6
    <3> QED BY <1>7, <1>10, <2>1, <3>1
  <2>4. \A g \in Files : w'.list[g] # <<>> => Listed(w', g)
    BY <1>3, <1>8, <1>9 DEF Chain
  <2>5. w'.next + w'.room <= MaxFiles + 1
    BY <1>3, <1>8 DEF Chain
  <2> QED BY <1>7, <1>8, <2>2, <2>3, <2>4, <2>5 DEF Chain
<1>12. Disk(w', dir')
  BY <1>1, <1>3, <1>8, <1>11 DEF Disk, Once
<1>13. rd' \in CursorRec /\ rd'.last = f /\ rd'.list = rd.list /\ rd'.pos >= 1 /\ rd'.pos = 1
  <2>1. rd \in CursorRec /\ f \in 0..MaxFiles
    BY <1>3, Numbers DEF Files
  <2>2. rd' \in CursorRec /\ rd'.last = f /\ rd'.list = rd.list /\ rd'.pos = 1
    BY <1>2, <2>1 DEF CursorRec
  <2> QED BY <2>2
<1>14. \A g \in Files : g \in DOMAIN dir /\ g <= f => g <= rd.last \/ g = f
  <2>1. rd.last \in Nat /\ \A g \in Files : g \in Nat
    BY <1>3, Numbers, CursorFields
  <2> QED BY <1>2, <1>3, <2>1
<1>15. \A g \in Files : g <= rd.last => g <= f
  <2>1. rd.last \in Nat /\ \A g \in Files : g \in Nat
    BY <1>3, Numbers, CursorFields
  <2> QED BY <1>2, <1>3, <2>1
<1>16. f <= f
  BY <1>3
<1>17. ClientTypes'
  BY <1>1, <1>3 DEF ClientTypes
<1>18. \A j \in Ids : InList(w', j) => j \in DOMAIN jobs
  BY <1>8, <1>10 DEF InList, Holds
<1>19. /\ \A g \in Files : Listed(w', g) => g \in DOMAIN dir'
       /\ \A g \in Files : g \in DOMAIN dir' /\ g <= rd'.last => Listed(w', g)
       /\ \A g \in Files : Listed(w', g) => g <= rd'.last
       /\ \A g \in DOMAIN dir' : g < w'.next
       /\ w'.reading # 0 => w'.reading \in DOMAIN dir' /\ rd'.pos >= 1
  BY <1>1, <1>2, <1>5, <1>8, <1>9, <1>10, <1>13, <1>14, <1>15, <1>16
<1>20. /\ JobMap(jobs') /\ nextId' \in 1..(MaxJobs + 1) /\ \A j \in DOMAIN jobs' : j < nextId'
  BY <1>1, Parts
<1>21. FilesInv'
  BY <1>1, <1>5, <1>8, <1>10, <1>12, <1>13, <1>17, <1>18, <1>19, <1>20, KeepReading
<1>22. UNCHANGED <<dir, jobs, nextId, run, answer, acked, gone, faults, cmds>>
  BY DEF OpenFile
<1>23. OpenFacts(f)
  BY <1>1, <1>2, <1>8, <1>13, <1>22 DEF OpenFacts, r
<1> QED BY <1>21, <1>23

\* The record that recovery reads next.
LEMMA NextRecord ==
  ASSUME FilesInv, pc = "read", w.reading # 0, rd.pos \in 1..Len(dir[w.reading].recs)
  PROVE  dir[w.reading].recs[rd.pos] \in Recs
<1>1. w.reading \in DOMAIN dir
  BY Reading
<1>2. dir[w.reading].recs \in Seq(Recs)
  BY <1>1 DEF FilesInv, Disk, DirRec
<1> QED BY <1>2

\* A job that is met for the first time is the last of the list.
LEMMA AppendNew ==
  ASSUME NEW l \in Seq(Ids), Distinct(l), NEW j \in Ids, ~Has(l, j), NEW m, m = Append(l, j)
  PROVE  m \in Seq(Ids) /\ Distinct(m) /\ \A k : Has(m, k) <=> Has(l, k) \/ k = j
<1> DEFINE n == Len(l)
<1>1. n \in Nat /\ DOMAIN l = 1..n
  OBVIOUS
<1>2. m \in Seq(Ids) /\ DOMAIN m = 1..(n + 1) /\ m[n + 1] = j /\ \A i \in 1..n : m[i] = l[i]
  OBVIOUS
<1> HIDE DEF n
<1>3. n + 1 \in 1..(n + 1) /\ (\A i \in 1..(n + 1) : i \in 1..n \/ i = n + 1)
      /\ \A i \in 1..n : i \in 1..(n + 1)
  BY <1>1
<1>4. \A k : Has(m, k) <=> Has(l, k) \/ k = j
  BY <1>1, <1>2, <1>3 DEF Has
<1>5. Distinct(m)
  BY <1>1, <1>2, <1>3 DEF Has, Distinct
<1> QED BY <1>2, <1>4, <1>5

\* What recovery makes of the files for a record of job j in file f.
Refile(r, f) == IF IsFull(r) THEN FileAddJob(FileRmJob(w, r.id), f, r.id) ELSE w

\* A full record moves its job to the file that is read.
LEMMA Refiled ==
  ASSUME FilesInv, pc = "read", w.reading # 0, NEW r \in Recs, NEW f, f = w.reading,
         NEW v, v = Refile(r, f)
  PROVE  /\ Chain(v) /\ Once(v) /\ v.open = {} /\ v.cur = 0 /\ v.use /\ v.next = w.next
         /\ v.reading = w.reading /\ v.total = w.total /\ v.spent = w.spent /\ v.spare = w.spare
         /\ \A g \in Files : Listed(v, g) => Listed(w, g)
         /\ \A g \in Files : Listed(w, g) => Listed(v, g) \/ Unused(v, g)
         /\ \A g, h \in Files : Listed(w, g) /\ ~Listed(v, g) /\ Listed(v, h) => g < h
         /\ \A g \in Files : \A k : Holds(v, g, k) <=>
              IF IsFull(r) THEN (Holds(w, g, k) /\ k # r.id) \/ (g = f /\ k = r.id)
                           ELSE Holds(w, g, k)
<1>1. Chain(w) /\ Once(w) /\ w \in WalRec
  BY DEF FilesInv, Disk, Chain
<1>2. w.use /\ w.open = {} /\ w.cur = 0 /\ f \in Files /\ Listed(w, f)
  BY Reading
<1>3. CASE ~IsFull(r)
  <2>1. v = w
    BY <1>3 DEF Refile
  <2> QED BY <1>1, <1>2, <1>3, <2>1
<1>4. CASE IsFull(r)
  <2> DEFINE j == r.id
             u == FileRmJob(w, j)
  <2>1. j \in Ids /\ v = FileAddJob(u, f, j)
    BY <1>4, WrittenNat DEF Refile
  <2> HIDE DEF j
  <2>2. Removed(w, j, u)
    BY <1>1, <2>1, RmJob
  <2> HIDE DEF u
  <2>3. /\ Chain(u) /\ Once(u) /\ ~InList(u, j) /\ u.open = {} /\ u.cur = 0 /\ u.use /\ u.next = w.next
        /\ u.reading = w.reading /\ u.total = w.total /\ u.spent = w.spent /\ u.spare = w.spare
        /\ \A g \in Files : Listed(u, g) => Listed(w, g)
        /\ \A g \in Files : Listed(w, g) => Listed(u, g) \/ Unused(u, g)
        /\ \A g, h \in Files : Listed(w, g) /\ ~Listed(u, g) /\ Listed(u, h) => g < h
        /\ \A g \in Files : \A k : Holds(u, g, k) <=> Holds(w, g, k) /\ k # j
    BY <1>2, <2>2 DEF Removed, Frame, Collects, InList
  <2>4. Listed(u, f)
    BY <1>2, <2>3 DEF Unused
  <2>5. Added(u, f, j, v)
    BY <1>2, <2>1, <2>3, <2>4, AddJob
  <2>6. /\ Chain(v) /\ Once(v) /\ v.open = {} /\ v.cur = 0 /\ v.use /\ v.next = w.next
        /\ v.reading = w.reading /\ v.total = w.total /\ v.spent = w.spent /\ v.spare = w.spare
        /\ \A g \in Files : \A k : Holds(v, g, k) <=> Holds(u, g, k) \/ (g = f /\ k = j)
        /\ \A g \in Files : Listed(v, g) <=> Listed(u, g)
    BY <2>3, <2>5 DEF Added, Frame, Listed
  <2>7. \A g \in Files : Unused(u, g) /\ ~Listed(u, g) => Unused(v, g)
    <3> SUFFICES ASSUME NEW g \in Files, Unused(u, g), ~Listed(u, g) PROVE Unused(v, g)
      OBVIOUS
    <3>1. ~Listed(v, g)
      BY <2>6
    <3>2. v.list[g] = <<>>
      BY <2>6, <3>1 DEF Chain
    <3> QED BY <2>3, <2>6, <3>2 DEF Unused
  <2> QED BY <1>4, <2>3, <2>6, <2>7 DEF j
<1> QED BY <1>3, <1>4

\* A record that recovery takes: the job is as the record says, and in the file if it is a full
\* one.
RecoverFacts(r) ==
  /\ pc' = "read" /\ w'.total = w.total /\ w'.spent = w.spent /\ w'.spare = w.spare
  /\ DOMAIN jobs' = DOMAIN jobs \cup {r.id}
  /\ \A k \in DOMAIN jobs : k # r.id => jobs'[k] = jobs[k]
  /\ jobs'[r.id].st = RecoveredState(r.st)
  /\ jobs'[r.id].good = IF IsFull(r) THEN r.body ELSE jobs[r.id].good
  /\ \A g \in Files : \A k : Holds(w', g, k) <=>
       IF IsFull(r) THEN (Holds(w, g, k) /\ k # r.id) \/ (g = w.reading /\ k = r.id)
                    ELSE Holds(w, g, k)
  /\ w'.reading = w.reading /\ rd'.last = rd.last /\ rd'.pos = rd.pos + 1
  /\ \A f \in DOMAIN dir' : f \in DOMAIN dir /\ dir'[f] = dir[f]
  /\ \A f \in Files : f \in DOMAIN dir' <=> f \in DOMAIN dir /\ (Listed(w, f) => Listed(w', f))
  /\ \A f \in Files : Listed(w, f) /\ ~Listed(w', f) => w'.list[f] = <<>>
  /\ \A f, g \in Files : Listed(w, f) /\ ~Listed(w', f) /\ Listed(w', g) => f < g

\* Recover.
LEMMA RecoverKeeps ==
  ASSUME FilesInv, pc = "read", w.reading # 0, NEW r \in Recs,
         r.id \in DOMAIN jobs \/ IsFull(r), Recover(r),
         UNCHANGED <<acked, gone, faults, cmds>>
  PROVE  FilesInv' /\ RecoverFacts(r)
<1> DEFINE j == r.id
           f == w.reading
           v == Refile(r, f)
           size == RecSize(r)
           used == [v.used EXCEPT ![j] = v.used[j] + size]
           alive == v.alive + size
           u == [v EXCEPT !.used = used, !.alive = alive]
<1>1. /\ j \in Ids /\ r.st \in States /\ r.body \in BOOLEAN /\ size \in Nat
      /\ IsFull(r) => r.kind \in Kinds
  BY WrittenNat DEF IsFull
<1>2. SetWal(u)
  BY DEF Recover, Refile
<1>3. jobs' = [k \in DOMAIN jobs \cup {j} |->
                 IF k # j THEN jobs[k]
                 ELSE [st |-> RecoveredState(r.st), where |-> {},
                       kind |-> IF IsFull(r) THEN r.kind ELSE jobs[j].kind,
                       good |-> IF IsFull(r) THEN r.body ELSE jobs[j].good]]
  BY DEF Recover
<1>4. /\ nextId' = IF j \notin DOMAIN jobs /\ j >= nextId THEN j + 1 ELSE nextId
      /\ rd' = [rd EXCEPT !.pos = @ + 1, !.list = IF j \in ToSet(@) THEN @ ELSE Append(@, j)]
      /\ pc' = pc /\ run' = run
  BY DEF Recover
<1>5. /\ Chain(v) /\ Once(v) /\ v.open = {} /\ v.cur = 0 /\ v.use /\ v.next = w.next
      /\ v.reading = w.reading /\ v.total = w.total /\ v.spent = w.spent /\ v.spare = w.spare
      /\ \A g \in Files : Listed(v, g) => Listed(w, g)
      /\ \A g \in Files : \A k : Holds(v, g, k) <=>
           IF IsFull(r) THEN (Holds(w, g, k) /\ k # j) \/ (g = f /\ k = j)
                        ELSE Holds(w, g, k)
  BY Refiled
<1> HIDE DEF v, size
<1>6. v \in WalRec
  BY <1>5 DEF Chain
<1>7. used \in [Ids -> Int] /\ alive \in Int
  <2>1. v.used \in [Ids -> Int] /\ v.alive \in Int
    BY <1>6, WalFields
  <2> QED BY <1>1, <2>1
<1> HIDE DEF used, alive, j
<1>8. /\ u \in WalRec /\ u.files = v.files /\ u.open = v.open /\ u.cur = v.cur /\ u.use = v.use
      /\ u.next = v.next /\ u.list = v.list /\ u.room = v.room /\ u.reading = v.reading
      /\ u.total = v.total /\ u.spent = v.spent /\ u.spare = v.spare
  BY <1>6, <1>7 DEF WalRec
<1> HIDE DEF u
<1>9. \A g \in Files : Listed(u, g) <=> Listed(v, g)
  BY <1>8 DEF Listed
<1>10. Chain(u)
  <2>1. \A g \in Files : u.list[g] # <<>> => Listed(u, g)
    BY <1>5, <1>8, <1>9 DEF Chain
  <2> QED BY <1>5, <1>8, <2>1 DEF Chain
<1>11. Once(u)
  BY <1>5, <1>8 DEF Once
<1>12. Rereads(u, dir')
  BY <1>2, <1>5, <1>8, <1>9, <1>10, <1>11, Rereading DEF SetWal
<1>13. /\ w.reading \in {0, rd.last} /\ run = NoRun /\ f \in Files
       /\ w.reading # 0 => w.reading \in DOMAIN dir /\ w.reading \in Files /\ Listed(w, w.reading)
       /\ \A k \in Ids : k \in DOMAIN jobs <=> Has(rd.list, k)
       /\ Distinct(rd.list)
       /\ \A k \in Ids : InList(w, k) => k \in DOMAIN jobs
  BY Reading
<1>14. /\ JobMap(jobs) /\ nextId \in 1..(MaxJobs + 1) /\ (\A k \in DOMAIN jobs : k < nextId)
       /\ rd \in CursorRec /\ ClientTypes
  BY Parts
<1>15. rd.list \in Seq(Ids) /\ rd.pos \in Nat
  BY <1>14, CursorFields
<1> DEFINE list == IF j \in ToSet(rd.list) THEN rd.list ELSE Append(rd.list, j)
<1>16. list \in Seq(Ids) /\ Distinct(list) /\ \A k : Has(list, k) <=> Has(rd.list, k) \/ k = j
  <2>1. j \in ToSet(rd.list) <=> Has(rd.list, j)
    BY DEF ToSet, Has
  <2>2. CASE Has(rd.list, j)
    BY <1>13, <1>15, <2>1, <2>2
  <2>3. CASE ~Has(rd.list, j)
    <3> DEFINE l == rd.list
               m == Append(l, j)
    <3>1. list = m /\ l \in Seq(Ids) /\ Distinct(l) /\ j \in Ids /\ ~Has(l, j)
      BY <1>1, <1>13, <1>15, <2>1, <2>3 DEF j
    <3> HIDE DEF l
    <3>2. m \in Seq(Ids) /\ Distinct(m) /\ \A k : Has(m, k) <=> Has(l, k) \/ k = j
      BY <3>1, AppendNew
    <3> HIDE DEF m, list
    <3> QED BY <3>1, <3>2 DEF l
  <2> QED BY <2>2, <2>3
<1>17. rd' \in CursorRec /\ rd'.list = list /\ rd'.last = rd.last /\ rd'.pos >= 1 /\ rd'.pos = rd.pos + 1
  <2> DEFINE p == rd.pos + 1
  <2>1. rd' = [rd EXCEPT !.pos = p, !.list = list] /\ p \in Nat /\ p >= 1
    BY <1>4, <1>14, <1>15 DEF j, CursorRec
  <2> HIDE DEF list, p
  <2>2. list \in Seq(Ids)
    BY <1>16
  <2>3. rd' \in CursorRec /\ rd'.list = list /\ rd'.last = rd.last /\ rd'.pos = p
    BY <1>14, <2>1, <2>2 DEF CursorRec
  <2> QED BY <2>1, <2>3 DEF p
<1> HIDE DEF list
<1>18. JobMap(jobs') /\ DOMAIN jobs' = DOMAIN jobs \cup {j}
  <2> DEFINE q == [st |-> RecoveredState(r.st), where |-> {},
                   kind |-> IF IsFull(r) THEN r.kind ELSE jobs[j].kind,
                   good |-> IF IsFull(r) THEN r.body ELSE jobs[j].good]
  <2>1. RecoveredState(r.st) \in States /\ {} \in SUBSET States
    BY <1>1 DEF RecoveredState, States
  <2>2. /\ (IF IsFull(r) THEN r.kind ELSE jobs[j].kind) \in Kinds
        /\ (IF IsFull(r) THEN r.body ELSE jobs[j].good) \in BOOLEAN
    BY <1>1, <1>14, JobFields DEF j
  <2>3. q \in JobRec
    BY <2>1, <2>2 DEF JobRec
  <2> HIDE DEF q
  <2>4. jobs' = [k \in DOMAIN jobs \cup {j} |-> IF k # j THEN jobs[k] ELSE q]
    BY <1>3 DEF q
  <2> QED BY <1>1, <1>14, <2>3, <2>4 DEF JobMap, j
<1>19. nextId' \in 1..(MaxJobs + 1) /\ \A k \in DOMAIN jobs' : k < nextId'
  <2>1. j \in 1..MaxJobs /\ \A k \in DOMAIN jobs : k \in 1..MaxJobs
    BY <1>1, <1>14 DEF j, Ids, JobMap
  <2>2. CASE j \notin DOMAIN jobs /\ j >= nextId
    BY <1>4, <1>14, <1>18, <2>1, <2>2, Numbers
  <2>3. CASE ~(j \notin DOMAIN jobs /\ j >= nextId)
    BY <1>4, <1>14, <1>18, <2>1, <2>3, Numbers
  <2> QED BY <2>2, <2>3
<1>20. \A k \in Ids : InList(w', k) => k \in DOMAIN jobs'
  <2>1. w'.list = v.list
    BY <1>8, <1>12 DEF Rereads
  <2>2. \A k \in Ids : InList(w', k) => \E g \in Files : Holds(v, g, k)
    BY <2>1 DEF InList, Holds
  <2>3. \A k \in Ids : InList(w', k) => InList(w, k) \/ k = j
    BY <1>5, <2>2 DEF InList
  <2> QED BY <1>13, <1>18, <2>3
<1>21. \A k \in Ids : k \in DOMAIN jobs' <=> Has(rd'.list, k)
  BY <1>13, <1>16, <1>17, <1>18
<1>22. /\ Disk(w', dir') /\ w'.use /\ w'.open = {} /\ w'.cur = 0 /\ w'.reading = w.reading
       /\ \A g \in Files : Listed(w', g) => g \in DOMAIN dir' /\ g <= rd.last
       /\ \A g \in Files : g \in DOMAIN dir' /\ g <= rd.last => Listed(w', g)
       /\ \A g \in DOMAIN dir' : g < w'.next
  BY <1>5, <1>8, <1>12 DEF Rereads
<1>23. w'.reading # 0 => w'.reading \in DOMAIN dir' /\ rd'.pos >= 1
  <2>1. \A g \in Files : Listed(w, g) => Listed(v, g) \/ Unused(v, g)
    BY Refiled DEF v
  <2>2. Listed(v, f)
    BY <1>5, <1>13, <2>1 DEF Unused
  <2>3. Listed(w', f)
    BY <1>9, <1>12, <1>13, <2>2 DEF Rereads
  <2> QED BY <1>13, <1>17, <1>22, <2>3
<1>24. ClientTypes'
  BY <1>14 DEF ClientTypes
<1>25. FilesInv'
  BY <1>4, <1>13, <1>16, <1>17, <1>18, <1>19, <1>20, <1>21, <1>22, <1>23, <1>24, KeepReading
<1>26. /\ w'.total = w.total /\ w'.spent = w.spent /\ w'.spare = w.spare
       /\ \A g \in Files : \A k : Holds(w', g, k) <=> Holds(v, g, k)
       /\ \A g \in Files : Listed(w', g) <=> Listed(v, g)
       /\ w'.list = v.list
  <2>1. w'.list = v.list /\ \A g \in Files : Listed(w', g) <=> Listed(u, g)
    BY <1>8, <1>12 DEF Rereads
  <2>2. w'.total = w.total /\ w'.spent = w.spent /\ w'.spare = w.spare
    BY <1>5, <1>8, <1>12 DEF Rereads
  <2> QED BY <1>9, <2>1, <2>2 DEF Holds
<1>27. /\ \A k \in DOMAIN jobs : k # j => jobs'[k] = jobs[k]
       /\ jobs'[j].st = RecoveredState(r.st)
       /\ jobs'[j].good = IF IsFull(r) THEN r.body ELSE jobs[j].good
  BY <1>3
<1>28. /\ \A g \in DOMAIN dir' : g \in DOMAIN dir /\ dir'[g] = dir[g]
       /\ \A g \in Files : g \in DOMAIN dir' <=> g \in DOMAIN dir /\ (Listed(w, g) => Listed(w', g))
  BY <1>9, <1>12, <1>26 DEF Rereads
<1>29. /\ \A g \in Files : Listed(w, g) /\ ~Listed(w', g) => w'.list[g] = <<>>
       /\ \A g, h \in Files : Listed(w, g) /\ ~Listed(w', g) /\ Listed(w', h) => g < h
  <2>1. /\ \A g \in Files : Listed(w, g) => Listed(v, g) \/ Unused(v, g)
        /\ \A g, h \in Files : Listed(w, g) /\ ~Listed(v, g) /\ Listed(v, h) => g < h
    BY Refiled DEF v
  <2> QED BY <1>26, <2>1 DEF Unused
<1>30. \A g \in Files : \A k : Holds(w', g, k) <=>
         IF IsFull(r) THEN (Holds(w, g, k) /\ k # j) \/ (g = f /\ k = j)
                      ELSE Holds(w, g, k)
  BY <1>5, <1>26
<1> QED BY <1>4, <1>17, <1>18, <1>22, <1>25, <1>26, <1>27, <1>28, <1>29, <1>30 DEF RecoverFacts, j

\* A record of a delete: the job is forgotten.
DiscardFacts(j) ==
  /\ pc' = "read" /\ w'.total = w.total /\ w'.spent = w.spent /\ w'.spare = w.spare
  /\ DOMAIN jobs' = DOMAIN jobs \ {j} /\ \A k \in DOMAIN jobs' : jobs'[k] = jobs[k]
  /\ \A g \in Files : \A k : Holds(w', g, k) <=> Holds(w, g, k) /\ k # j
  /\ w'.reading = w.reading /\ rd'.last = rd.last /\ rd'.pos = rd.pos + 1
  /\ \A f \in DOMAIN dir' : f \in DOMAIN dir /\ dir'[f] = dir[f]
  /\ \A f \in Files : f \in DOMAIN dir' <=> f \in DOMAIN dir /\ (Listed(w, f) => Listed(w', f))
  /\ \A f \in Files : Listed(w, f) /\ ~Listed(w', f) => w'.list[f] = <<>>
  /\ \A f, g \in Files : Listed(w, f) /\ ~Listed(w', f) /\ Listed(w', g) => f < g

\* Discard.
LEMMA DiscardKeeps ==
  ASSUME FilesInv, pc = "read", w.reading # 0, NEW j \in DOMAIN jobs, Discard(j),
         UNCHANGED <<acked, gone, faults, cmds>>
  PROVE  FilesInv' /\ DiscardFacts(j)
<1> DEFINE v == FileRmJob(w, j)
           l == rd.list
           list == DropJob(l, j)
           p == rd.pos + 1
<1>1. /\ SetWal(v) /\ jobs' = Without(j)
      /\ rd' = [rd EXCEPT !.pos = @ + 1, !.list = DropJob(@, j)]
      /\ nextId' = nextId /\ pc' = pc /\ run' = run
  BY DEF Discard
<1>2. /\ JobMap(jobs) /\ nextId \in 1..(MaxJobs + 1) /\ (\A k \in DOMAIN jobs : k < nextId)
      /\ rd \in CursorRec /\ ClientTypes
  BY Parts
<1>3. j \in Ids
  BY <1>2, JobFields
<1>4. Removed(w, j, v)
  BY <1>3, RmJob DEF FilesInv, Disk
<1> HIDE DEF v
<1>5. /\ w.open = {} /\ w.cur = 0 /\ w.use /\ w.reading \in {0, rd.last} /\ run = NoRun
      /\ w.reading \in Files /\ Listed(w, w.reading)
      /\ \A k \in Ids : k \in DOMAIN jobs <=> Has(rd.list, k)
      /\ Distinct(rd.list)
      /\ \A k \in Ids : InList(w, k) => k \in DOMAIN jobs
  BY Reading
<1>6. /\ Chain(v) /\ Once(v) /\ v.open = {} /\ v.cur = 0 /\ v.use /\ v.next = w.next
      /\ v.reading = w.reading
      /\ v.total = w.total /\ v.spent = w.spent /\ v.spare = w.spare
      /\ \A f \in Files : Listed(v, f) => Listed(w, f)
      /\ \A f \in Files : Listed(w, f) => Listed(v, f) \/ Unused(v, f)
      /\ \A f, g \in Files : Listed(w, f) /\ ~Listed(v, f) /\ Listed(v, g) => f < g
      /\ \A f \in Files : \A k : Holds(v, f, k) <=> Holds(w, f, k) /\ k # j
  BY <1>4, <1>5 DEF Removed, Frame, Collects
<1>7. Rereads(v, dir')
  BY <1>1, <1>6, Rereading DEF SetWal
<1>8. /\ Disk(w', dir') /\ w'.use /\ w'.open = {} /\ w'.cur = 0 /\ w'.reading = w.reading
      /\ \A f \in Files : Listed(w', f) => f \in DOMAIN dir' /\ f <= rd.last
      /\ \A f \in Files : f \in DOMAIN dir' /\ f <= rd.last => Listed(w', f)
      /\ \A f \in DOMAIN dir' : f < w'.next
      /\ w'.list = v.list
  BY <1>6, <1>7 DEF Rereads
<1>9. w'.reading \in DOMAIN dir'
  <2>1. Listed(v, w.reading)
    BY <1>5, <1>6 DEF Unused
  <2> QED BY <1>5, <1>7, <1>8, <2>1 DEF Rereads
<1>10. l \in Seq(Ids) /\ Has(l, j) /\ Distinct(l) /\ p \in Nat /\ p >= 1
  BY <1>2, <1>3, <1>5, CursorFields
<1>11. list \in Seq(Ids) /\ Distinct(list) /\ \A k : Has(list, k) <=> Has(l, k) /\ k # j
  <2> HIDE DEF l
  <2> QED BY <1>10, Dropping
<1>12. rd' = [rd EXCEPT !.pos = p, !.list = list]
  BY <1>1, <1>2 DEF CursorRec
<1>13. \A k \in Ids : k \in DOMAIN jobs <=> Has(l, k)
  BY <1>5
<1> HIDE DEF l, p, list
<1>14. /\ rd' \in CursorRec /\ rd'.list = list /\ rd'.last = rd.last /\ rd'.pos >= 1
       /\ rd'.pos = p
  BY <1>2, <1>10, <1>11, <1>12 DEF CursorRec
<1>15. JobMap(jobs') /\ DOMAIN jobs' = DOMAIN jobs \ {j}
  BY <1>1, <1>2, WithoutFields
<1>16. \A k \in Ids : k \in DOMAIN jobs' <=> Has(rd'.list, k)
  BY <1>11, <1>13, <1>14, <1>15
<1>17. \A k \in Ids : InList(w', k) => k \in DOMAIN jobs'
  <2>1. \A k \in Ids : InList(w', k) => InList(v, k)
    BY <1>8 DEF InList, Holds
  <2>2. \A k \in Ids : InList(v, k) => InList(w, k) /\ k # j
    BY <1>6 DEF InList
  <2> QED BY <1>5, <1>15, <2>1, <2>2
<1>18. nextId' \in 1..(MaxJobs + 1) /\ \A k \in DOMAIN jobs' : k < nextId'
  BY <1>1, <1>2, <1>15
<1>19. ClientTypes'
  BY <1>2 DEF ClientTypes
<1>20. FilesInv'
  BY <1>1, <1>5, <1>8, <1>9, <1>11, <1>14, <1>15, <1>16, <1>17, <1>18, <1>19, KeepReading
<1>21. \A k \in DOMAIN jobs' : jobs'[k] = jobs[k]
  BY <1>1, <1>2, WithoutFields
<1>22. /\ w'.total = w.total /\ w'.spent = w.spent /\ w'.spare = w.spare
       /\ \A f \in Files : Listed(w', f) <=> Listed(v, f)
       /\ \A f \in DOMAIN dir' : f \in DOMAIN dir /\ dir'[f] = dir[f]
       /\ \A f \in Files : f \in DOMAIN dir' <=> f \in DOMAIN dir /\ (Listed(w, f) => Listed(v, f))
  BY <1>6, <1>7 DEF Rereads
<1>23. /\ \A f \in Files : f \in DOMAIN dir' <=> f \in DOMAIN dir /\ (Listed(w, f) => Listed(w', f))
       /\ \A f, g \in Files : Listed(w, f) /\ ~Listed(w', f) /\ Listed(w', g) => f < g
       /\ \A f \in Files : Listed(w, f) /\ ~Listed(w', f) => w'.list[f] = <<>>
  BY <1>6, <1>8, <1>22 DEF Unused
<1>24. \A f \in Files : \A k : Holds(w', f, k) <=> Holds(w, f, k) /\ k # j
  <2>1. \A f \in Files : \A k : Holds(w', f, k) <=> Holds(v, f, k)
    BY <1>8 DEF Holds
  <2> QED BY <1>6, <2>1
<1>25. pc' = "read" /\ rd'.pos = rd.pos + 1
  BY <1>1, <1>14 DEF p
<1> QED BY <1>8, <1>14, <1>15, <1>20, <1>21, <1>22, <1>23, <1>24, <1>25 DEF DiscardFacts

\* SkipTo.
LEMMA SkipKeeps ==
  ASSUME FilesInv, pc = "read", NEW p \in Nat \ {0}, SkipTo(p), UNCHANGED <<acked, gone, faults, cmds>>
  PROVE  FilesInv'
<1>1. rd' = [rd EXCEPT !.pos = p] /\ UNCHANGED <<w, dir, jobs, nextId, pc, run>>
  BY DEF SkipTo
<1>2. /\ JobMap(jobs) /\ nextId \in 1..(MaxJobs + 1) /\ (\A k \in DOMAIN jobs : k < nextId)
      /\ rd \in CursorRec /\ ClientTypes /\ Disk(w, dir)
  BY Parts
<1>3. rd' \in CursorRec /\ rd'.last = rd.last /\ rd'.list = rd.list /\ rd'.pos >= 1
  BY <1>1, <1>2 DEF CursorRec
<1>4. ClientTypes'
  BY <1>2 DEF ClientTypes
<1> QED BY <1>1, <1>2, <1>3, <1>4, Reading, KeepReading

\* ReadRec: one record, in its four cases.
LEMMA ReadRecKeeps ==
  ASSUME FilesInv, ReadRec
  PROVE  FilesInv'
<1> DEFINE r == dir[w.reading].recs[rd.pos]
           known == r.id \in DOMAIN jobs
<1>1. /\ pc = "read" /\ w.reading # 0 /\ rd.pos <= Len(dir[w.reading].recs)
      /\ UNCHANGED <<answer, acked, gone, faults, cmds>>
  BY DEF ReadRec
<1>2. \/ SkipTo(rd.pos + 1)
      \/ SkipTo(Len(dir[w.reading].recs) + 1)
      \/ known /\ Discard(r.id)
      \/ Died /\ dir' = dir
      \/ (known \/ IsFull(r)) /\ Recover(r)
  BY DEF ReadRec, Replaying
<1>3. rd.pos \in Nat /\ Len(dir[w.reading].recs) \in Nat
  <2>1. rd \in CursorRec
    BY Parts
  <2>2. dir[w.reading].recs \in Seq(Recs)
    BY <1>1, Reading DEF FilesInv, Disk, DirRec
  <2> QED BY <2>1, <2>2, CursorFields
<1>4. CASE \E p \in Nat \ {0} : SkipTo(p)
  BY <1>1, <1>4, SkipKeeps
<1>5. CASE known /\ Discard(r.id)
  BY <1>1, <1>5, DiscardKeeps
<1>6. CASE Died /\ dir' = dir
  <2>1. ClientTypes'
    BY <1>1 DEF FilesInv, ClientTypes
  <2> QED BY <1>6, <2>1, DiedKeeps DEF FilesInv, Disk
<1>7. CASE (known \/ IsFull(r)) /\ Recover(r)
  <2>1. rd.pos >= 1
    BY <1>1, Reading
  <2>2. r \in Recs
    BY <1>1, <1>3, <2>1, NextRecord
  <2> HIDE DEF r
  <2> QED BY <1>1, <1>7, <2>2, RecoverKeeps
<1> QED BY <1>2, <1>3, <1>4, <1>5, <1>6, <1>7

\* ReadRec5.
LEMMA ReadRec5Keeps ==
  ASSUME FilesInv, ReadRec5
  PROVE  FilesInv'
<1>1. /\ pc = "read" /\ w.reading # 0 /\ SkipTo(Len(dir[w.reading].recs) + 1)
      /\ UNCHANGED <<answer, acked, gone, faults, cmds>>
  BY DEF ReadRec5
<1>2. Len(dir[w.reading].recs) + 1 \in Nat \ {0}
  <2>1. dir[w.reading].recs \in Seq(Recs)
    BY <1>1, Reading DEF FilesInv, Disk, DirRec
  <2>2. Len(dir[w.reading].recs) \in Nat
    BY <2>1
  <2> QED BY <2>2
<1> QED BY <1>1, <1>2, SkipKeeps

\* A file is read.
DoneFacts ==
  /\ pc = "read" /\ w.reading # 0 /\ rd.pos > Len(dir[w.reading].recs)
  /\ w'.list = w.list /\ w'.total = w.total /\ w'.spent = w.spent /\ w'.spare = w.spare
  /\ w'.reading = 0
  /\ \A f \in DOMAIN dir' : f \in DOMAIN dir /\ dir'[f] = dir[f]
  /\ \A f \in Files : f \in DOMAIN dir' <=> f \in DOMAIN dir /\ (Listed(w, f) => Listed(w', f))
  /\ \A f \in Files : Listed(w, f) /\ ~Listed(w', f) => w'.list[f] = <<>>
  /\ \A f, g \in Files : Listed(w, f) /\ ~Listed(w', f) /\ Listed(w', g) => f < g
  /\ UNCHANGED <<jobs, nextId, pc, run, rd, answer, acked, gone, faults, cmds>>

\* FileReadDone: the reader's reference goes.
LEMMA FileReadDoneKeeps ==
  ASSUME FilesInv, FileReadDone
  PROVE  FilesInv' /\ DoneFacts
<1> DEFINE x == [w EXCEPT !.reading = 0]
           v == fileDecRef(x, w.reading)
<1>1. /\ pc = "read" /\ SetWal(v) /\ w.reading # 0 /\ rd.pos > Len(dir[w.reading].recs)
      /\ UNCHANGED <<jobs, nextId, pc, run, rd, answer, acked, gone, faults, cmds>>
  BY DEF FileReadDone
<1>2. Chain(w) /\ Once(w) /\ w \in WalRec
  BY DEF FilesInv, Disk, Chain
<1>3. /\ x \in WalRec /\ x.files = w.files /\ x.cur = w.cur /\ x.next = w.next /\ x.use = w.use
      /\ x.open = w.open /\ x.list = w.list /\ x.room = w.room /\ x.reading = 0
      /\ x.total = w.total /\ x.spent = w.spent /\ x.spare = w.spare
  <2>1. 0 \in 0..MaxFiles
    BY Numbers
  <2> QED BY <1>2, <2>1 DEF WalRec
<1> HIDE DEF x
<1>4. Collected(x, v)
  BY <1>3, DecRef
<1> HIDE DEF v
<1>5. \A f \in Files : Listed(x, f) <=> Listed(w, f)
  BY <1>3 DEF Listed
<1>6. Chain(x)
  BY <1>2, <1>3, <1>5 DEF Chain
<1>7. /\ Chain(v) /\ v.cur = x.cur /\ v.next = x.next /\ v.use = x.use /\ v.open = x.open
      /\ v.list = x.list /\ v.reading = x.reading
      /\ v.total = x.total /\ v.spent = x.spent /\ v.spare = x.spare
      /\ \A f \in Files : Listed(v, f) => Listed(x, f)
      /\ \A f \in Files : Listed(x, f) => Listed(v, f) \/ Unused(x, f)
      /\ \A f, g \in Files : Listed(x, f) /\ ~Listed(v, f) /\ Listed(v, g) => f < g
  BY <1>3, <1>4, <1>6, CollectedFields, CollectedChain
<1>8. Once(v)
  BY <1>2, <1>3, <1>7 DEF Once
<1>9. /\ w.open = {} /\ w.cur = 0 /\ w.use /\ run = NoRun
      /\ \A k \in Ids : k \in DOMAIN jobs <=> Has(rd.list, k)
      /\ Distinct(rd.list)
      /\ \A k \in Ids : InList(w, k) => k \in DOMAIN jobs
  BY <1>1, Reading
<1>10. Rereads(v, dir')
  BY <1>1, <1>3, <1>5, <1>7, <1>8, <1>9, Rereading DEF SetWal
<1>11. /\ Disk(w', dir') /\ w'.use /\ w'.open = {} /\ w'.cur = 0 /\ w'.reading = 0
       /\ \A f \in Files : Listed(w', f) => f \in DOMAIN dir' /\ f <= rd.last
       /\ \A f \in Files : f \in DOMAIN dir' /\ f <= rd.last => Listed(w', f)
       /\ \A f \in DOMAIN dir' : f < w'.next
       /\ w'.list = w.list
  BY <1>3, <1>7, <1>10 DEF Rereads
<1>12. \A k \in Ids : InList(w', k) => k \in DOMAIN jobs
  BY <1>9, <1>11 DEF InList, Holds
<1>13. /\ JobMap(jobs) /\ nextId \in 1..(MaxJobs + 1) /\ (\A k \in DOMAIN jobs : k < nextId)
       /\ rd \in CursorRec /\ ClientTypes
  BY Parts
<1>14. ClientTypes'
  BY <1>1, <1>13 DEF ClientTypes
<1>15. FilesInv'
  BY <1>1, <1>9, <1>11, <1>12, <1>13, <1>14, KeepReading
<1>16. /\ w'.total = w.total /\ w'.spent = w.spent /\ w'.spare = w.spare
       /\ \A f \in Files : Listed(w', f) <=> Listed(v, f)
       /\ \A f \in DOMAIN dir' : f \in DOMAIN dir /\ dir'[f] = dir[f]
       /\ \A f \in Files : f \in DOMAIN dir' <=> f \in DOMAIN dir /\ (Listed(w, f) => Listed(v, f))
  BY <1>3, <1>7, <1>10 DEF Rereads
<1>17. /\ \A f \in Files : f \in DOMAIN dir' <=> f \in DOMAIN dir /\ (Listed(w, f) => Listed(w', f))
       /\ \A f, g \in Files : Listed(w, f) /\ ~Listed(w', f) /\ Listed(w', g) => f < g
       /\ \A f \in Files : Listed(w, f) /\ ~Listed(w', f) => w'.list[f] = <<>>
  BY <1>3, <1>5, <1>7, <1>11, <1>16 DEF Unused
<1> QED BY <1>1, <1>11, <1>15, <1>16, <1>17 DEF DoneFacts

\* Serve.
LEMMA ServeKeeps ==
  ASSUME FilesInv, Serve
  PROVE  FilesInv'
<1>1. /\ pc = "replay" /\ pc' = "idle" /\ rd' = NoRead
      /\ UNCHANGED <<w, dir, jobs, nextId, run, acked, gone, faults, cmds>>
  BY DEF Serve
<1>2. Running /\ run = NoRun /\ Log(w, dir)
  BY <1>1 DEF Running, RunInv, FilesInv
<1>3. /\ Disk(w, dir) /\ JobMap(jobs) /\ nextId \in 1..(MaxJobs + 1)
      /\ (\A k \in DOMAIN jobs : k < nextId) /\ (\A k \in Ids : InList(w, k) => k < nextId)
      /\ JobsInv /\ ClientTypes
  BY Parts
<1>4. rd' \in CursorRec
  <2>1. 0 \in 0..MaxFiles /\ <<>> \in Seq(Ids)
    BY Numbers
  <2> QED BY <1>1, <2>1 DEF NoRead, CursorRec
<1>5. ClientTypes'
  BY <1>1, <1>3 DEF ClientTypes
<1>6. run.left = 0 /\ run \in RunRec
  BY <1>2, NoRunFields
<1>7. w.use => \A k \in Ids : InList(w, k) => k \in DOMAIN jobs
  BY <1>3 DEF JobsInv
<1> QED BY <1>1, <1>2, <1>3, <1>4, <1>5, <1>6, <1>7, KeepRunning

\* protReplay: space for the delete of one job.
LEMMA ReplayKeeps ==
  ASSUME FilesInv, NEW room \in Rooms, protReplay(room)
  PROVE  FilesInv'
<1> DEFINE j == Head(rd.list)
           v == reserve([w EXCEPT !.room = room], WalResvUpdate)
<1>1. pc = "replay" /\ rd.list # <<>> /\ UNCHANGED <<answer, acked, gone, cmds>>
  BY DEF protReplay
<1>2. \/ SetWal(v) /\ Charge(v) /\ Hangs /\ nextId' = nextId /\ rd' = rd
      \/ /\ SetWal(v) /\ Charge(v)
         /\ \E st \in {"delayed", "ready", jobs[j].st} : jobs' = Place(j, st, {st})
         /\ rd' = [rd EXCEPT !.list = Tail(@)]
         /\ UNCHANGED <<nextId, pc, run>>
      \/ Died /\ dir' = DirOf(v) /\ Charge(v)
  BY DEF protReplay
<1>3. Running /\ run = NoRun /\ Log(w, dir) /\ w.use
  BY <1>1 DEF Running, RunInv, FilesInv
<1>4. /\ Disk(w, dir) /\ JobMap(jobs) /\ nextId \in 1..(MaxJobs + 1)
      /\ (\A k \in DOMAIN jobs : k < nextId) /\ (\A k \in Ids : InList(w, k) => k < nextId)
      /\ JobsInv /\ ClientTypes /\ rd \in CursorRec
  BY Parts
<1>5. WalResvUpdate \in Int
  BY Numbers DEF WalResvUpdate
<1>6. Fit(v)
  BY <1>3, <1>4, <1>5, Reserving
<1>7. ASSUME SetWal(v)
      PROVE  /\ Disk(w', dir') /\ Log(w', dir') /\ w'.use
             /\ \A k \in Ids : InList(w', k) => k < nextId
             /\ \A k \in Ids : InList(w', k) => k \in DOMAIN jobs
  <2>1. /\ Disk(w', dir') /\ Log(w', dir') /\ w'.use = w.use
        /\ \A k : InList(w', k) <=> InList(w, k)
    BY <1>3, <1>5, <1>7, ReserveNext
  <2> HIDE DEF v
  <2> QED BY <1>3, <1>4, <2>1 DEF JobsInv
<1>8. ASSUME Charge(v) PROVE ClientTypes'
  <2>1. faults' \in 0..MaxFaults
    BY <1>4, <1>8, ChargeFields
  <2> HIDE DEF v
  <2> QED BY <1>1, <1>4, <2>1 DEF ClientTypes
<1>9. run.left = 0 /\ run \in RunRec
  BY <1>3, NoRunFields
<1>10. CASE Died /\ dir' = DirOf(v) /\ Charge(v)
  <2>1. Extends(v, dir')
    BY <1>3, <1>4, <1>6, <1>10, Extending
  <2>2. DOMAIN dir' \subseteq Files /\ dir' \in [DOMAIN dir' -> DirRec]
    BY <2>1 DEF Extends, DirStep
  <2> HIDE DEF v
  <2> QED BY <1>8, <1>10, <2>2, DiedKeeps
<1>11. CASE SetWal(v) /\ Charge(v) /\ Hangs /\ nextId' = nextId /\ rd' = rd
  <2>1. pc' = "hung" /\ jobs' = jobs /\ run' = run
    BY <1>11 DEF Hangs
  <2>2. /\ Disk(w', dir') /\ Log(w', dir') /\ w'.use
        /\ \A k \in Ids : InList(w', k) => k < nextId
        /\ \A k \in Ids : InList(w', k) => k \in DOMAIN jobs
    BY <1>7, <1>11
  <2>3. ClientTypes' /\ nextId' = nextId /\ rd' = rd
    BY <1>8, <1>11
  <2> HIDE DEF v
  <2> QED BY <1>3, <1>4, <1>9, <2>1, <2>2, <2>3, KeepRunning
<1>12. ASSUME SetWal(v), Charge(v),
              NEW st \in {"delayed", "ready", jobs[j].st}, jobs' = Place(j, st, {st}),
              rd' = [rd EXCEPT !.list = Tail(@)], UNCHANGED <<nextId, pc, run>>
       PROVE  FilesInv'
  <2>1. /\ Disk(w', dir') /\ Log(w', dir') /\ w'.use
        /\ \A k \in Ids : InList(w', k) => k < nextId
        /\ \A k \in Ids : InList(w', k) => k \in DOMAIN jobs
    BY <1>7, <1>12
  <2>2. ClientTypes'
    BY <1>8, <1>12
  <2> HIDE DEF v
  <2>3. rd' \in CursorRec
    <3>1. rd.list \in Seq(Ids)
      BY <1>4, CursorFields
    <3> DEFINE l == Tail(rd.list)
    <3>2. l \in Seq(Ids)
      BY <1>1, <3>1
    <3>3. rd' = [rd EXCEPT !.list = l]
      BY <1>4, <1>12 DEF CursorRec
    <3> HIDE DEF l
    <3> QED BY <1>4, <3>2, <3>3 DEF CursorRec
  <2>4. JobMap(jobs') /\ DOMAIN jobs' = DOMAIN jobs
    <3>1. CASE j \in DOMAIN jobs
      <4>1. st \in States /\ {st} \in SUBSET States
        BY <1>4, <3>1, JobFields DEF States
      <4> HIDE DEF j
      <4> QED BY <1>4, <1>12, <3>1, <4>1, PlaceFields
    <3>2. CASE j \notin DOMAIN jobs
      <4>1. jobs' = jobs
        BY <1>4, <1>12, <3>2 DEF Place, JobMap
      <4> QED BY <1>4, <4>1
    <3> QED BY <3>1, <3>2
  <2> HIDE DEF j
  <2>5. /\ pc' = "replay" /\ run' = NoRun /\ run' \in RunRec /\ nextId' = nextId
    BY <1>1, <1>3, <1>9, <1>12
  <2> QED BY <1>3, <1>4, <2>1, <2>2, <2>3, <2>4, <2>5, KeepRunning
<1> QED BY <1>2, <1>10, <1>11, <1>12

\* Two records of the files that differ in what no list depends on.
Alike(v, u) ==
  /\ u \in WalRec /\ u.files = v.files /\ u.next = v.next /\ u.use = v.use
  /\ u.open = v.open /\ u.reading = v.reading /\ u.total = v.total
  /\ u.free = v.free /\ u.resv = v.resv /\ u.list = v.list
  /\ u.spent = v.spent /\ u.spare = v.spare

\* The file z that recovery makes for the server to write to.
FirstFile(v, z, d) ==
  /\ Disk(z, d) /\ Log(z, d) /\ z.use /\ z.list = v.list /\ z.total = v.total
  /\ z.spent = v.spent /\ z.spare = v.spare /\ z.cur = w.next
  /\ \A f \in DOMAIN dir : f \in DOMAIN d /\ d[f] = dir[f]
  /\ \A f \in DOMAIN d : f \notin DOMAIN dir => f >= w.next /\ d[f].ver = WalVer /\ d[f].recs = <<>>

\* The file that WalInit makes is the current one, and is empty.
LEMMA FirstFileIs ==
  ASSUME FilesInv, pc = "read", w.reading = 0, \A f \in DOMAIN dir : f <= rd.last,
         NEW room \in Rooms, room # 0,
         NEW y, Alike(w, y), y.room = room, NEW v, v = makeNextFile(y),
         NEW x, Alike(v, x), x.cur = TailFile(v), x.room = v.room,
         NEW z, z = Settled(x), NEW d, d = DirOf(x)
  PROVE  FirstFile(v, z, d)
<1>1. w \in WalRec /\ Chain(w) /\ Once(w) /\ DirTypes
  BY DEF FilesInv, Disk, Chain, DirTypes
<1>2. room \in Nat /\ w.next + room <= MaxFiles + 1
  BY Numbers DEF Rooms
<1>3. /\ y \in WalRec /\ y.files = w.files /\ y.next = w.next /\ y.use = w.use
      /\ y.open = w.open /\ y.reading = w.reading /\ y.total = w.total
      /\ y.free = w.free /\ y.resv = w.resv /\ y.list = w.list /\ y.room = room
      /\ y.spent = w.spent /\ y.spare = w.spare
  BY DEF Alike
<1>4. v = makeNextFile(y)
  OBVIOUS
<1>5. \A f \in Files : Listed(y, f) <=> Listed(w, f)
  BY <1>3 DEF Listed
<1>6. Chain(y)
  BY <1>1, <1>2, <1>3, <1>5 DEF Chain
<1> DEFINE n == w.next
<1>7. n \in Files /\ Chain(v) /\ \A f \in Files : Listed(v, f) <=> Listed(w, f) \/ f = n
  BY <1>3, <1>4, <1>5, <1>6, ChainNext
<1>8. /\ v \in WalRec /\ v.files = Append(w.files, n) /\ v.use = w.use
      /\ v.open = w.open \cup {n} /\ v.reading = w.reading
      /\ v.free = [w.free EXCEPT ![n] = FileSize - Header]
      /\ v.resv = [w.resv EXCEPT ![n] = 0]
      /\ v.list = w.list /\ v.total = w.total /\ v.spent = w.spent /\ v.spare = w.spare
  <2>1. y.room # 0 /\ y.next \in Files /\ y \in WalRec
    BY <1>3, <1>7
  <2>2. /\ v \in WalRec /\ v.files = Append(y.files, y.next) /\ v.use = y.use
        /\ v.open = y.open \cup {y.next} /\ v.reading = y.reading
        /\ v.free = [y.free EXCEPT ![y.next] = FileSize - Header]
        /\ v.resv = [y.resv EXCEPT ![y.next] = 0]
        /\ v.list = y.list /\ v.total = y.total /\ v.spent = y.spent /\ v.spare = y.spare
    <3> HIDE DEF n
    <3> QED BY <1>4, <2>1, NextFields
  <2>3. y.next = n
    BY <1>3
  <2> HIDE DEF n
  <2> QED BY <1>3, <2>2, <2>3
<1> HIDE DEF n
<1>9. /\ w.use /\ w.open = {} /\ w.reading = 0
      /\ \A f \in Files : Listed(w, f) <=> f \in DOMAIN dir
      /\ \A f \in DOMAIN dir : f < w.next
  <2>1. DOMAIN dir \subseteq Files
    BY <1>1 DEF DirTypes
  <2> QED BY <2>1, Reading
<1>10. v.free[n] = FileSize - Header /\ v.resv[n] = 0
  BY <1>1, <1>7, <1>8, WalFields
<1>11. TailFile(v) = n
  <2>1. w.files \in Seq(Files)
    BY <1>1, WalFields
  <2> QED BY <1>7, <1>8, <2>1 DEF TailFile
<1>12. n \in 0..MaxFiles /\ n \in Nat
  BY <1>7, Numbers
<1>14. /\ x \in WalRec /\ x.files = v.files /\ x.cur = n /\ x.next = v.next /\ x.use = v.use
       /\ x.open = v.open /\ x.reading = v.reading /\ x.list = v.list /\ x.total = v.total
       /\ x.free = v.free /\ x.resv = v.resv /\ x.room = v.room
       /\ x.spent = v.spent /\ x.spare = v.spare
  BY <1>11 DEF Alike
<1>15. \A f \in Files : Listed(x, f) <=> Listed(v, f)
  BY <1>14 DEF Listed
<1>16. Chain(x)
  BY <1>7, <1>14, <1>15 DEF Chain
<1>17. Once(x)
  BY <1>1, <1>8, <1>14 DEF Once
<1>18. \A f \in Files : Listed(w, f) => f < n /\ f # n
  <2>1. \A f \in Files : Listed(w, f) => f < w.next
    BY <1>9
  <2> QED BY <2>1, <1>12, Numbers DEF n
<1>19. \A f \in Files : f > n => ~Listed(x, f)
  <2>1. \A f \in Files : f > n => ~(f < n) /\ f # n
    BY <1>12, Numbers
  <2> QED BY <1>7, <1>15, <1>18, <2>1
<1>20. Writing(x)
  <2>1. n >= n /\ \A f \in Files : f < n => ~(f >= n)
    BY <1>12, Numbers
  <2>2. \A f \in Files : f \in x.open <=> Listed(x, f) /\ f >= x.cur
    BY <1>7, <1>8, <1>9, <1>14, <1>15, <1>18, <2>1
  <2>3. \A f \in Files : f > x.cur => x.list[f] = <<>>
    BY <1>14, <1>16, <1>19 DEF Chain
  <2> QED BY <1>7, <1>8, <1>9, <1>14, <1>15, <1>16, <2>2, <2>3 DEF Writing
<1>21. DirStep(x, d)
  BY <1>1, <1>14, Unlinking
<1>22. \A f \in Files : f \in DOMAIN d <=> Listed(x, f)
  BY <1>9, <1>21 DEF DirStep
<1>23. \A f \in DOMAIN dir : f \in DOMAIN d /\ d[f] = dir[f]
  <2>1. \A f \in DOMAIN dir : f \in Files /\ f \in DOMAIN d /\ f \notin w.open
    BY <1>1, <1>7, <1>9, <1>15, <1>22 DEF DirTypes
  <2> QED BY <1>21, <2>1 DEF DirStep
<1>24. \A f \in DOMAIN d : f \notin DOMAIN dir => f = n /\ d[f].ver = WalVer /\ d[f].recs = <<>>
  BY <1>7, <1>9, <1>15, <1>21, <1>22 DEF DirStep
<1>25. Exact(x, d)
  <2> SUFFICES ASSUME NEW f \in x.open
               PROVE  Header + Bytes(d[f].recs) + x.resv[f] + x.free[f] = FileSize
    BY DEF Exact
  <2>1. f = n
    BY <1>8, <1>9, <1>14
  <2>2. n \in DOMAIN d /\ n \notin DOMAIN dir
    BY <1>7, <1>9, <1>15, <1>18, <1>22
  <2>3. d[f].recs = <<>> /\ <<>> \in Seq(Recs)
    BY <1>24, <2>1, <2>2
  <2>4. Bytes(d[f].recs) = 0
    BY <2>3, BytesFacts
  <2>5. x.free[f] = FileSize - Header /\ x.resv[f] = 0
    BY <1>10, <1>14, <2>1
  <2> QED BY <2>4, <2>5, Numbers
<1>26. /\ Chain(z) /\ Writing(z) /\ Once(z)
       /\ \A f \in Files : Listed(z, f) <=> Listed(x, f)
  BY <1>16, <1>17, <1>20, SettledChain
<1>27. /\ z.use = x.use /\ z.open = x.open /\ z.reading = x.reading /\ z.list = x.list /\ z.cur = x.cur
       /\ z.total = x.total /\ z.spent = x.spent /\ z.spare = x.spare
       /\ z.ok /\ ~z.stuck /\ z.room = 0
       /\ \A f \in x.open : z.free[f] = x.free[f] /\ z.resv[f] = x.resv[f]
  BY <1>14, SettledFields
<1>28. Disk(z, d)
  BY <1>21, <1>26, <1>27 DEF Disk, DirStep
<1>29. Exact(z, d)
  BY <1>25, <1>27 DEF Exact
<1>30. Log(z, d)
  <2>1. x.open \subseteq Files /\ \A f \in x.open : Listed(x, f)
    BY <1>20, OpenFields, WalFields, <1>14
  <2>2. z.reading = 0
    BY <1>8, <1>9, <1>14, <1>27
  <2>3. \A f \in Files : Listed(z, f) <=> f \in DOMAIN d
    BY <1>22, <1>26
  <2>4. \A f \in z.open : Listed(z, f)
    BY <1>26, <1>27, <2>1
  <2> QED BY <1>26, <1>29, <2>2, <2>3, <2>4 DEF Log
<1>31. \A f \in DOMAIN d : f \notin DOMAIN dir => f >= w.next
  <2>1. n >= n
    BY <1>12
  <2> QED BY <1>24, <2>1 DEF n
<1>32. z.use /\ z.list = v.list /\ z.total = v.total
  <2>1. x.use /\ x.list = v.list /\ x.total = v.total
    BY <1>8, <1>9, <1>14
  <2> QED BY <1>27, <2>1
<1>33. z.spent = v.spent /\ z.spare = v.spare /\ z.cur = w.next
  BY <1>8, <1>14, <1>27 DEF n
<1>34. \A f \in DOMAIN d : f \notin DOMAIN dir => f >= w.next /\ d[f].ver = WalVer /\ d[f].recs = <<>>
  BY <1>24, <1>31
<1> QED BY <1>23, <1>28, <1>30, <1>32, <1>33, <1>34 DEF FirstFile

\* Recovery has read all files, and goes on to the replay.
InitFacts ==
  /\ pc = "read" /\ pc' = "replay" /\ w.reading = 0 /\ \A f \in DOMAIN dir : f <= rd.last
  /\ w'.use /\ w'.list = w.list /\ w'.total = w.total /\ w'.spent = w.spent /\ w'.spare = w.spare
  /\ w'.cur = w.next
  /\ \A f \in DOMAIN dir : f \in DOMAIN dir' /\ dir'[f] = dir[f]
  /\ \A f \in DOMAIN dir' : f \notin DOMAIN dir =>
       f >= w.next /\ dir'[f].ver = WalVer /\ dir'[f].recs = <<>>
  /\ UNCHANGED <<jobs, nextId, run, rd, answer, acked, gone, faults, cmds>>

\* WalInit, in success or panic.
LEMMA WalInitKeeps ==
  ASSUME FilesInv, NEW room \in Rooms, WalInit(room)
  PROVE  FilesInv' /\ (InitFacts \/ (Died /\ UNCHANGED <<dir, answer, acked, gone, cmds>>))
<1> DEFINE v == makeNextFile([w EXCEPT !.room = room])
           x == [v EXCEPT !.cur = TailFile(v)]
<1>1. /\ pc = "read" /\ w.reading = 0 /\ \A f \in DOMAIN dir : f <= rd.last
      /\ UNCHANGED <<answer, acked, gone, cmds>>
      /\ \/ v.ok /\ SetWal(x) /\ pc' = "replay" /\ UNCHANGED <<jobs, nextId, run, rd, faults>>
         \/ Died /\ dir' = dir /\ Charge(v)
  BY DEF WalInit
<1>2. /\ JobMap(jobs) /\ nextId \in 1..(MaxJobs + 1) /\ (\A k \in DOMAIN jobs : k < nextId)
      /\ (\A k \in Ids : InList(w, k) => k < nextId)
      /\ JobsInv /\ ClientTypes /\ rd \in CursorRec /\ w \in WalRec
  BY Parts DEF Disk, Chain
<1>3. CASE Died /\ dir' = dir /\ Charge(v)
  <2>1. faults' \in 0..MaxFaults
    BY <1>2, <1>3, ChargeFields
  <2>2. ClientTypes'
    BY <1>1, <1>2, <2>1 DEF ClientTypes
  <2>3. FilesInv'
    BY <1>3, <2>2, DiedKeeps DEF FilesInv, Disk
  <2> QED BY <1>1, <1>3, <2>3
<1>4. CASE v.ok /\ SetWal(x) /\ pc' = "replay" /\ UNCHANGED <<jobs, nextId, run, rd, faults>>
  <2>1. room # 0
    <3> SUFFICES ASSUME room = 0 PROVE FALSE
      OBVIOUS
    <3>1. [w EXCEPT !.room = 0].room = 0
      BY <1>2 DEF WalRec
    <3>2. v = [[w EXCEPT !.room = 0] EXCEPT !.ok = FALSE]
      BY <3>1 DEF makeNextFile
    <3>3. ~v.ok
      BY <1>2, <3>2 DEF WalRec
    <3> QED BY <1>4, <3>3
  <2>2. w' = Settled(x) /\ dir' = DirOf(x)
    BY <1>4 DEF SetWal
  <2> DEFINE y == [w EXCEPT !.room = room]
  <2>2a. Alike(w, y) /\ y.room = room /\ y.list = w.list
    <3>1. room \in Nat
      BY Numbers DEF Rooms
    <3> QED BY <1>2, <3>1 DEF WalRec, Alike
  <2>2b. v = makeNextFile(y)
    OBVIOUS
  <2> HIDE DEF y
  <2>2c. v.list = y.list /\ v.total = y.total /\ v.spent = y.spent /\ v.spare = y.spare
    <3>1. y \in WalRec
      BY <2>2a DEF Alike
    <3> HIDE DEF v
    <3> QED BY <2>2b, <3>1 DEF makeNextFile, fileAdd, WalRec
  <2>2d. v \in WalRec /\ TailFile(v) \in Files
    <3>1. y \in WalRec /\ y.room # 0 /\ y.next = w.next /\ y.files = w.files
      BY <2>1, <2>2a DEF Alike
    <3>2. Chain(y)
      <4>1. Chain(w) /\ y.list = w.list /\ w.next + room <= MaxFiles + 1
        BY <2>2a DEF FilesInv, Disk, Rooms
      <4>2. \A f \in Files : Listed(y, f) <=> Listed(w, f)
        BY <3>1 DEF Listed
      <4> QED BY <2>2a, <3>1, <4>1, <4>2 DEF Chain
    <3> HIDE DEF v
    <3>3. y.next \in Files
      BY <2>2b, <3>1, <3>2, ChainNext
    <3>4. v \in WalRec /\ v.files = Append(y.files, y.next)
      BY <2>2b, <3>1, <3>3, NextFields
    <3>5. y.files \in Seq(Files)
      BY <3>1, WalFields
    <3> QED BY <3>3, <3>4, <3>5 DEF TailFile
  <2> HIDE DEF v
  <2>2e. Alike(v, x) /\ x.cur = TailFile(v) /\ x.room = v.room
    <3> DEFINE n == TailFile(v)
    <3>1. n \in 0..MaxFiles /\ x = [v EXCEPT !.cur = n]
      BY <2>2d, Numbers
    <3> HIDE DEF n, x
    <3>2. Alike(v, x) /\ x.cur = n /\ x.room = v.room
      BY <2>2d, <3>1 DEF WalRec, Alike
    <3> QED BY <3>2 DEF n
  <2> HIDE DEF x
  <2>3. FirstFile(v, w', dir')
    <3> DEFINE z == w'
               d == dir'
    <3>1. z = Settled(x) /\ d = DirOf(x)
      BY <2>2
    <3> HIDE DEF z, d
    <3>2. FirstFile(v, z, d)
      BY <1>1, <2>1, <2>2a, <2>2b, <2>2e, <3>1, FirstFileIs
    <3> QED BY <3>2 DEF z, d
  <2>4. Disk(w', dir') /\ Log(w', dir') /\ w'.use /\ w'.list = w.list
    BY <2>2a, <2>2c, <2>3 DEF FirstFile
  <2>5. run = NoRun /\ w.use
    BY <1>1, Reading
  <2>6. run' = NoRun /\ run' \in RunRec /\ run'.left = 0
    BY <1>4, <2>5, NoRunFields
  <2>7. \A k \in Ids : InList(w', k) => InList(w, k)
    BY <2>4 DEF InList, Holds
  <2>8. \A k \in Ids : InList(w', k) => k \in DOMAIN jobs /\ k < nextId
    BY <1>2, <2>5, <2>7 DEF JobsInv
  <2>9. ClientTypes'
    BY <1>1, <1>2, <1>4 DEF ClientTypes
  <2>10. JobTypes'
    BY <1>2, <1>4, <2>6, <2>8 DEF JobTypes, JobMap
  <2>11. DownInv' /\ ReadInv' /\ RunInv' /\ BodyInv' /\ JobsInv'
    BY <1>4, <2>4, <2>6, <2>8 DEF DownInv, ReadInv, RunInv, BodyInv, JobsInv, Running
  <2>12. FilesInv'
    BY <2>4, <2>9, <2>10, <2>11 DEF FilesInv
  <2>13. w'.total = w.total /\ w'.spent = w.spent /\ w'.spare = w.spare /\ w'.cur = w.next
    BY <2>2a, <2>2c, <2>3 DEF FirstFile, Alike
  <2>14. /\ \A f \in DOMAIN dir : f \in DOMAIN dir' /\ dir'[f] = dir[f]
         /\ \A f \in DOMAIN dir' : f \notin DOMAIN dir =>
              f >= w.next /\ dir'[f].ver = WalVer /\ dir'[f].recs = <<>>
    BY <2>3 DEF FirstFile
  <2>15. InitFacts
    BY <1>1, <1>4, <2>4, <2>13, <2>14 DEF InitFacts
  <2> QED BY <2>12, <2>15
<1> QED BY <1>1, <1>3, <1>4

\* The files and the directory when WalWrite has found its file.
Turned(v, d) ==
  /\ Once(v) /\ Writing(v) /\ v.use /\ v.ok /\ ~v.stuck /\ v.room = 0
  /\ v.list = w.list /\ v.total = w.total /\ v.spent = w.spent /\ v.spare = w.spare
  /\ v.next = w.next
  /\ \A f \in Files : Listed(v, f) => Listed(w, f)
  /\ \A f \in Files : Listed(w, f) => Listed(v, f) \/ (w.list[f] = <<>> /\ f \notin v.open)
  /\ \A f, g \in Files : Listed(w, f) /\ ~Listed(v, f) /\ Listed(v, g) => f < g
  /\ DirStep(v, d) /\ Exact(v, d)
  /\ \A f \in Files : f \in DOMAIN d <=> Listed(v, f)
  /\ \A f \in DOMAIN d : f \in DOMAIN dir /\ (f \in v.open \/ f # w.cur => d[f] = dir[f])

\* What is known of the log when it is written.
LEMMA Writes ==
  ASSUME FilesInv, pc \in {"write", "body"}, w.use
  PROVE  /\ Disk(w, dir) /\ Log(w, dir) /\ Writing(w) /\ Exact(w, dir) /\ Chain(w) /\ Once(w)
         /\ w \in WalRec /\ DirTypes /\ w.cur \in Files /\ w.cur \in w.open /\ w.ok /\ ~w.stuck
         /\ w.room = 0 /\ w.cur \in DOMAIN dir /\ \A f \in w.open : f \in Files /\ f \in DOMAIN dir
<1>1. Disk(w, dir) /\ Log(w, dir)
  BY DEF FilesInv, Running
<1>2. Writing(w) /\ Exact(w, dir) /\ Chain(w) /\ w \in WalRec
  BY <1>1 DEF Log, Writing, Chain
<1>3. w.cur \in Files /\ w.cur \in w.open /\ \A f \in w.open : Listed(w, f)
  BY <1>2, OpenFields
<1>4. w.open \subseteq Files
  BY <1>2, WalFields
<1> QED BY <1>1, <1>2, <1>3, <1>4 DEF Disk, DirTypes, Log

\* Either the current file has something reserved, or the next becomes the current one.
LEMMA Turning ==
  ASSUME FilesInv, pc = "write", w.use,
         NEW v, v = w \/ (HasNext(w) /\ v = useNext(w)), v.ok, NEW d, d = DirOf(v)
  PROVE  Turned(v, d)
<1>1. /\ Disk(w, dir) /\ Log(w, dir) /\ Writing(w) /\ Exact(w, dir) /\ Chain(w) /\ Once(w)
      /\ w \in WalRec /\ DirTypes /\ w.ok /\ ~w.stuck /\ w.room = 0
      /\ \A f \in w.open : f \in Files /\ f \in DOMAIN dir
  BY Writes
<1>2. /\ Writing(v) /\ v.list = w.list /\ v.total = w.total /\ v.spent = w.spent
      /\ v.spare = w.spare /\ v.next = w.next /\ v.room = 0 /\ v.use /\ ~v.stuck
      /\ v.free = w.free /\ v.resv = w.resv
      /\ \A f \in Files : Listed(v, f) => Listed(w, f)
      /\ \A f \in Files : Listed(w, f) => Listed(v, f) \/ (w.list[f] = <<>> /\ f \notin v.open)
      /\ \A f, g \in Files : Listed(w, f) /\ ~Listed(v, f) /\ Listed(v, g) => f < g
      /\ \A f \in v.open : f \in w.open
      /\ \A f \in w.open : f \in v.open \/ f = w.cur
  <2>1. CASE v = w
    BY <1>1, <2>1
  <2>2. CASE HasNext(w) /\ v = useNext(w)
    <3>1. Writing(w) /\ HasNext(w) /\ v = useNext(w)
      BY <1>1, <2>2
    <3>2. /\ Writing(v) /\ v.stuck = w.stuck /\ v.total = w.total /\ v.free = w.free
          /\ v.resv = w.resv /\ v.open = w.open \ {w.cur} /\ v.next = w.next /\ v.room = w.room
          /\ v.list = w.list /\ v.use = w.use /\ v.spent = w.spent /\ v.spare = w.spare
      BY <3>1, UseNext
    <3>3. \A f \in Files : Listed(v, f) => Listed(w, f)
      BY <3>1, UseNext
    <3>4. \A f \in Files : Listed(w, f) => Listed(v, f) \/ (w.list[f] = <<>> /\ f \notin v.open)
      BY <3>1, UseNext
    <3>5. \A f, g \in Files : Listed(w, f) /\ ~Listed(v, f) /\ Listed(v, g) => f < g
      BY <3>1, UseNext
    <3> QED BY <1>1, <3>2, <3>3, <3>4, <3>5
  <2> QED BY <2>1, <2>2
<1>3. v \in WalRec
  BY <1>2 DEF Writing, Chain
<1>4. DirStep(v, d)
  BY <1>1, <1>3, Unlinking
<1>5. \A f \in Files : f \in DOMAIN d <=> Listed(v, f)
  BY <1>1, <1>2, <1>4 DEF DirStep, Log
<1>6. \A f \in DOMAIN d : f \in DOMAIN dir /\ (f \in v.open \/ f # w.cur => d[f] = dir[f])
  <2>1. \A f \in DOMAIN d : f \in Files /\ f \in DOMAIN dir
    BY <1>1, <1>2, <1>4, <1>5 DEF DirStep, Log
  <2> QED BY <1>2, <1>4, <2>1 DEF DirStep
<1>7. Exact(v, d)
  <2>1. \A f \in v.open : f \in w.open /\ f \in DOMAIN d /\ d[f] = dir[f]
    <3>1. \A f \in v.open : Listed(v, f)
      BY <1>2, OpenFields
    <3> QED BY <1>1, <1>2, <1>5, <1>6, <3>1
  <2> QED BY <1>1, <1>2, <2>1 DEF Exact
<1>8. Once(v)
  BY <1>1, <1>2 DEF Once
<1> QED BY <1>2, <1>4, <1>5, <1>6, <1>7, <1>8 DEF Turned

\* A record is added to one file of the directory.
LEMMA AddRecFields ==
  ASSUME NEW d, d \in [DOMAIN d -> DirRec], NEW c \in DOMAIN d, NEW r \in Recs,
         NEW g, g = AddRec(d, c, r)
  PROVE  /\ DOMAIN g = DOMAIN d /\ \A f \in DOMAIN d : f # c => g[f] = d[f]
         /\ g[c].ver = d[c].ver /\ g[c].recs = Append(d[c].recs, r) /\ g[c] \in DirRec
<1> DEFINE a == d[c]
           m == Append(a.recs, r)
           x == [a EXCEPT !.recs = m]
<1>1. a \in DirRec /\ a.recs \in Seq(Recs) /\ m \in Seq(Recs)
  BY DEF DirRec
<1>2. g = [d EXCEPT ![c] = x]
  BY DEF AddRec
<1> HIDE DEF m
<1>3. x.ver = a.ver /\ x.recs = m /\ x \in DirRec
  BY <1>1 DEF DirRec
<1> HIDE DEF x
<1>4. DOMAIN g = DOMAIN d /\ g[c] = x /\ \A f \in DOMAIN d : f # c => g[f] = d[f]
  BY <1>2
<1> QED BY <1>3, <1>4 DEF m

\* A record is added to the current file of v, and b is what that makes of v.
Records(v, b) ==
  /\ Writing(b) /\ Once(b) /\ b.use /\ b.cur = v.cur /\ b.open = v.open /\ b.free = v.free
  /\ b.resv[v.cur] = v.resv[v.cur] - Short
  /\ \A f \in Files : f # v.cur => b.resv[f] = v.resv[f]
  /\ b.next = v.next /\ \A f \in Files : Listed(b, f) => Listed(v, f)

\* e is the directory d with the record r.
Recorded(v, d, b, r, e) ==
  /\ DOMAIN e \subseteq Files /\ e \in [DOMAIN e -> DirRec]
  /\ \A f \in Files : f \in DOMAIN e <=> Listed(b, f)
  /\ \A f \in DOMAIN e : f \in DOMAIN d /\ (f # v.cur => e[f] = d[f])
  /\ v.cur \in Files /\ v.cur \in DOMAIN e /\ e[v.cur].ver = d[v.cur].ver
  /\ e[v.cur].recs = Append(d[v.cur].recs, r)

\* The directory after the record.
LEMMA Recording ==
  ASSUME FilesInv, pc = "write", w.use, NEW v, NEW d, Turned(v, d), NEW b, Records(v, b),
         NEW r \in Recs, NEW e, e = [f \in DOMAIN DirOf(b) |-> AddRec(d, v.cur, r)[f]]
  PROVE  Recorded(v, d, b, r, e)
<1> DEFINE g == AddRec(d, v.cur, r)
           h == DirOf(b)
<1>1. w \in WalRec /\ DirTypes /\ Log(w, dir)
  BY Writes
<1>2. b \in WalRec /\ v \in WalRec
  BY DEF Records, Turned, Writing, Chain
<1>3. DirStep(b, h)
  BY <1>1, <1>2, Unlinking
<1>4. e = [f \in DOMAIN h |-> g[f]]
  OBVIOUS
<1> HIDE DEF g, h
<1>5. \A f \in Files : f \in DOMAIN h <=> Listed(b, f)
  BY <1>1, <1>3 DEF DirStep, Log, Records, Turned
<1>6. DOMAIN h \subseteq Files /\ DOMAIN e = DOMAIN h
  BY <1>3, <1>4 DEF DirStep
<1>7. v.cur \in Files /\ Listed(v, v.cur) /\ Listed(b, v.cur)
  BY DEF Records, Turned, Writing
<1>8. v.cur \in DOMAIN d /\ d \in [DOMAIN d -> DirRec]
  BY <1>7 DEF Turned, DirStep
<1>9. /\ DOMAIN g = DOMAIN d /\ \A f \in DOMAIN d : f # v.cur => g[f] = d[f]
      /\ g[v.cur].ver = d[v.cur].ver /\ g[v.cur].recs = Append(d[v.cur].recs, r) /\ g[v.cur] \in DirRec
  BY <1>8, AddRecFields DEF g
<1>10. \A f \in DOMAIN e : f \in DOMAIN d /\ e[f] = g[f]
  BY <1>4, <1>5, <1>6 DEF Records, Turned
<1>11. \A f \in DOMAIN e : g[f] \in DirRec
  BY <1>8, <1>9, <1>10
<1>12. e \in [DOMAIN e -> DirRec]
  BY <1>4, <1>6, <1>11
<1>13. v.cur \in DOMAIN e
  BY <1>5, <1>6, <1>7
<1>14. \A f \in DOMAIN e : f # v.cur => e[f] = d[f]
  BY <1>9, <1>10
<1>15. e[v.cur] = g[v.cur]
  BY <1>10, <1>13
<1> QED BY <1>5, <1>6, <1>7, <1>9, <1>10, <1>12, <1>13, <1>14, <1>15 DEF Recorded

\* The space of the file is exact with the record in it.
LEMMA RecordedExact ==
  ASSUME NEW v, NEW d, Turned(v, d), NEW b, Records(v, b), NEW r \in Recs, Written(r) = Short,
         NEW e, Recorded(v, d, b, r, e)
  PROVE  Exact(b, e)
<1>1. v \in WalRec /\ b \in WalRec
  BY DEF Records, Turned, Writing, Chain
<1> SUFFICES ASSUME NEW f \in b.open
             PROVE  Header + Bytes(e[f].recs) + b.resv[f] + b.free[f] = FileSize
  BY DEF Exact
<1>2. f \in v.open /\ f \in Files /\ Listed(b, f) /\ f \in DOMAIN e /\ f \in DOMAIN d
  <2>1. f \in v.open /\ f \in Files
    BY <1>1, WalFields DEF Records
  <2>2. Listed(b, f)
    BY <2>1 DEF Records, Writing
  <2> QED BY <2>1, <2>2 DEF Recorded
<1>3. Header + Bytes(d[f].recs) + v.resv[f] + v.free[f] = FileSize
  BY <1>2 DEF Turned, Exact
<1>4. d[f] \in DirRec /\ d[f].recs \in Seq(Recs)
  <2>1. d[f] \in DirRec
    BY <1>2 DEF Turned, DirStep
  <2> QED BY <2>1 DEF DirRec
<1>5. v.free[f] \in Int /\ v.resv[f] \in Int /\ b.free[f] = v.free[f]
  BY <1>1, <1>2, FileFields DEF Records
<1>6. Bytes(d[f].recs) \in Nat
  BY <1>4, BytesFacts
<1>7. CASE f = v.cur
  <2>1. e[f].recs = Append(d[f].recs, r)
    BY <1>7 DEF Recorded
  <2>2. Bytes(e[f].recs) = Bytes(d[f].recs) + Short
    BY <1>4, <2>1, BytesAppend
  <2>3. b.resv[f] = v.resv[f] - Short
    BY <1>7 DEF Records
  <2> HIDE <1>7
  <2> QED BY <1>3, <1>5, <1>6, <2>2, <2>3, Numbers
<1>8. CASE f # v.cur
  BY <1>2, <1>3, <1>5, <1>8 DEF Records, Recorded
<1> QED BY <1>7, <1>8

\* Files that differ in sums and counts only.
Same(b, y) ==
  /\ y \in WalRec /\ y.files = b.files /\ y.cur = b.cur /\ y.next = b.next /\ y.use = b.use
  /\ y.open = b.open /\ y.reading = b.reading /\ y.list = b.list /\ y.free = b.free
  /\ y.resv = b.resv /\ y.room = b.room

\* The log after the record.
LEMMA RecordedNext ==
  ASSUME NEW v, NEW d, Turned(v, d), NEW b, Records(v, b),
         NEW r \in Recs, Written(r) = Short, NEW e, Recorded(v, d, b, r, e),
         NEW y, Same(b, y), NEW z, z = Settled(y)
  PROVE  /\ Disk(z, e) /\ Log(z, e) /\ z.use /\ z.cur = v.cur /\ z.list = b.list
         /\ z.total = y.total /\ z.spent = y.spent /\ z.spare = y.spare
<1>1. b \in WalRec /\ y \in WalRec /\ Writing(b) /\ Once(b) /\ b.use /\ b.cur = v.cur
  BY DEF Records, Same, Writing, Chain
<1>2. \A f \in Files : Listed(y, f) <=> Listed(b, f)
  BY DEF Same, Listed
<1>3. Chain(y)
  BY <1>1, <1>2 DEF Same, Chain, Writing
<1>4. Writing(y) /\ Once(y)
  BY <1>1, <1>2, <1>3 DEF Same, Writing, Once
<1>5. /\ Chain(z) /\ Writing(z) /\ Once(z)
      /\ \A f \in Files : Listed(z, f) <=> Listed(b, f)
  BY <1>2, <1>3, <1>4, SettledChain
<1>6. /\ z.use = y.use /\ z.open = y.open /\ z.reading = y.reading /\ z.cur = y.cur
      /\ z.list = y.list /\ z.total = y.total /\ z.spent = y.spent /\ z.spare = y.spare
      /\ z.ok /\ ~z.stuck /\ z.room = 0
      /\ \A f \in y.open : z.free[f] = y.free[f] /\ z.resv[f] = y.resv[f]
  BY <1>1, SettledFields
<1>7. Disk(z, e)
  BY <1>5, <1>6 DEF Disk, Recorded
<1>8. Exact(z, e)
  <2>1. Exact(b, e)
    BY RecordedExact
  <2> QED BY <1>6, <2>1 DEF Exact, Same
<1>9. \A f \in z.open : f \in Files /\ Listed(z, f)
  <2>1. \A f \in z.open : Listed(z, f)
    BY <1>5, OpenFields
  <2>2. z.open \subseteq Files
    BY <1>5, WalFields DEF Chain
  <2> QED BY <2>1, <2>2
<1>10. z.reading = 0 /\ \A f \in Files : Listed(z, f) <=> f \in DOMAIN e
  BY <1>5 DEF Writing, Recorded
<1>11. Log(z, e)
  BY <1>5, <1>8, <1>9, <1>10 DEF Log
<1> QED BY <1>1, <1>6, <1>7, <1>11 DEF Same

\* b is what a record of the size of a short one makes of v.
Booked(v, b) ==
  /\ Records(v, b) /\ b.total = v.total - Short /\ b.spent = v.spent /\ b.spare = v.spare
  /\ b.room = v.room /\ b.reading = v.reading
  /\ \A f \in Files : Listed(v, f) => Listed(b, f) \/ (b.list[f] = <<>> /\ f \notin b.open)
  /\ \A f, g \in Files : Listed(v, f) /\ ~Listed(b, f) /\ Listed(b, g) => f < g

\* What fileWrite books for the head of a record.
LEMMA FileWritten ==
  ASSUME NEW v, Writing(v), Once(v), v.use, NEW j \in Ids, NEW a, a = fileWrite(v, j, Short)
  PROVE  Booked(v, a) /\ a.list = v.list
<1>1. Chain(v) /\ v.cur \in Files /\ v \in WalRec
  BY DEF Writing, Chain
<1>2. Short \in Int
  BY Numbers
<1>3. Wrote(v, j, Short, a)
  BY <1>1, <1>2, FileWrite
<1>4. a.files = v.files /\ a.list = v.list /\ a.open = v.open
  BY <1>3 DEF Wrote
<1>5. \A f \in Files : Listed(a, f) <=> Listed(v, f)
  BY <1>4 DEF Listed
<1>6. Once(a)
  BY <1>4 DEF Once
<1>7. Writing(a)
  BY <1>3 DEF Wrote
<1>8. Records(v, a)
  BY <1>3, <1>5, <1>6, <1>7 DEF Records, Wrote
<1> QED BY <1>3, <1>5, <1>8 DEF Booked, Wrote

\* The head of a full record: the job is put into the current file.
LEMMA WritesFull ==
  ASSUME NEW v, Writing(v), Once(v), v.use, NEW j \in Ids, ~InList(v, j),
         NEW b, b = fileWrite(FileAddJob(v, v.cur, j), j, Short)
  PROVE  /\ Booked(v, b)
         /\ \A g \in Files : \A k : Holds(b, g, k) <=> Holds(v, g, k) \/ (g = v.cur /\ k = j)
<1> DEFINE x == FileAddJob(v, v.cur, j)
           c == v.cur
<1>1. Chain(v) /\ c \in Files /\ Listed(v, c)
  BY DEF Writing
<1>2. b = fileWrite(x, j, Short) /\ x = FileAddJob(v, c, j) /\ c = v.cur
  OBVIOUS
<1> HIDE DEF c, x
<1>3. Added(v, c, j, x)
  BY <1>1, <1>2, AddJob
<1>4. Writing(x) /\ Once(x) /\ x.use /\ x.files = v.files
  BY <1>2, <1>3 DEF Added, Frame
<1>5. Booked(x, b) /\ b.list = x.list
  BY <1>2, <1>4, FileWritten
<1>6. \A f \in Files : Listed(x, f) <=> Listed(v, f)
  BY <1>4 DEF Listed
<1>7. /\ x.cur = v.cur /\ x.next = v.next /\ x.use = v.use /\ x.open = v.open
      /\ x.reading = v.reading /\ x.total = v.total /\ x.free = v.free /\ x.resv = v.resv
      /\ x.room = v.room /\ x.spent = v.spent /\ x.spare = v.spare
  BY <1>3 DEF Added, Frame
<1>8. Records(v, b)
  BY <1>5, <1>6, <1>7 DEF Booked, Records
<1>9. Booked(v, b)
  BY <1>5, <1>6, <1>7, <1>8 DEF Booked
<1>10. \A g \in Files : \A k : Holds(b, g, k) <=> Holds(v, g, k) \/ (g = c /\ k = j)
  BY <1>3, <1>5 DEF Added, Holds
<1> QED BY <1>2, <1>9, <1>10

\* A short record: the job stays where it is, or leaves the log.
LEMMA WritesShort ==
  ASSUME NEW v, Writing(v), Once(v), v.use, NEW j \in Ids, NEW inv \in BOOLEAN,
         NEW a, a = fileWrite(v, j, Short), NEW b, b = IF inv THEN FileRmJob(a, j) ELSE a
  PROVE  /\ Booked(v, b)
         /\ \A g \in Files : \A k : Holds(b, g, k) <=> Holds(v, g, k) /\ ~(inv /\ k = j)
<1>1. Booked(v, a) /\ a.list = v.list
  BY FileWritten
<1>2. \A g \in Files : \A k : Holds(a, g, k) <=> Holds(v, g, k)
  BY <1>1 DEF Holds
<1>3. CASE ~inv
  BY <1>1, <1>2, <1>3
<1>4. CASE inv
  <2>1. b = FileRmJob(a, j) /\ Chain(a) /\ Once(a) /\ Writing(a)
    BY <1>1, <1>4 DEF Booked, Records, Writing
  <2>2. Removed(a, j, b)
    BY <2>1, RmJob
  <2>3. Writing(b) /\ Once(b) /\ Frame(a, b) /\ Collects(a, b)
    BY <2>1, <2>2 DEF Removed
  <2>4. \A f \in Files : Listed(b, f) => Listed(v, f)
    BY <1>1, <2>3 DEF Collects, Booked, Records
  <2>5. Records(v, b)
    BY <1>1, <2>3, <2>4 DEF Booked, Records, Frame
  <2>6. \A f \in Files : Listed(v, f) => Listed(b, f) \/ (b.list[f] = <<>> /\ f \notin b.open)
    <3> SUFFICES ASSUME NEW f \in Files, Listed(v, f), ~Listed(b, f)
                 PROVE  b.list[f] = <<>> /\ f \notin b.open
      OBVIOUS
    <3>1. CASE Listed(a, f)
      BY <2>3, <3>1 DEF Collects, Unused
    <3>2. CASE ~Listed(a, f)
      <4>1. f \notin b.open
        BY <1>1, <2>3, <3>2 DEF Booked, Frame
      <4>2. Chain(b)
        BY <2>3 DEF Writing
      <4> QED BY <4>1, <4>2 DEF Chain
    <3> QED BY <3>1, <3>2
  <2>7. \A f, g \in Files : Listed(v, f) /\ ~Listed(b, f) /\ Listed(b, g) => f < g
    <3> SUFFICES ASSUME NEW f \in Files, NEW g \in Files, Listed(v, f), ~Listed(b, f), Listed(b, g)
                 PROVE  f < g
      OBVIOUS
    <3>1. Listed(a, g)
      BY <2>3 DEF Collects
    <3> QED BY <1>1, <2>3, <3>1 DEF Collects, Booked
  <2>8. Booked(v, b)
    BY <1>1, <2>3, <2>5, <2>6, <2>7 DEF Booked, Frame
  <2> QED BY <1>2, <1>4, <2>2, <2>8 DEF Removed
<1> QED BY <1>3, <1>4

\* The record that WalWrite writes.
SubjectRec(full) ==
  Rec(Subject, jobs[Subject].st, IF full THEN jobs[Subject].kind ELSE "short", ~full)

SubjectGone == jobs[Subject].st = "invalid"

\* WalWrite writes a record, to a file of v, and makes b of v.
WriteFacts(v, b, full) ==
  /\ v = w \/ (HasNext(w) /\ v = useNext(w))
  /\ Turned(v, DirOf(v)) /\ Booked(v, b)
  /\ SubjectRec(full) \in Recs /\ Written(SubjectRec(full)) = Short
  /\ Recorded(v, DirOf(v), b, SubjectRec(full), dir')
  /\ Disk(w', dir') /\ Log(w', dir') /\ w'.use /\ w'.cur = v.cur
  /\ w'.total = w.total - Short /\ w'.spare = w.spare
  /\ w'.spent = IF run.op = "release" /\ run.moving = 0 THEN w.spent + 1 ELSE w.spent
  /\ full <=> ~InList(w, Subject)
  /\ \A g \in Files : \A k : Holds(w', g, k) <=>
       IF full THEN Holds(w, g, k) \/ (g = v.cur /\ k = Subject)
               ELSE Holds(w, g, k) /\ ~(SubjectGone /\ k = Subject)
  /\ Expose(Lost(v))
  /\ IF full THEN pc' = "body" /\ UNCHANGED <<jobs, run, answer>> ELSE Compacting(b)
  /\ UNCHANGED <<nextId, rd, faults, cmds>>

\* The job whose record is written.
LEMMA SubjectIs ==
  ASSUME FilesInv, pc \in {"write", "body"}
  PROVE  /\ Subject \in DOMAIN jobs /\ Subject \in Ids /\ jobs[Subject].st \in States
         /\ jobs[Subject].kind \in Kinds /\ Running /\ RunInv /\ JobMap(jobs)
         /\ Subject < nextId /\ Extra[jobs[Subject].kind] \in Nat
<1>1. JobMap(jobs) /\ RunInv /\ Running /\ \A k \in DOMAIN jobs : k < nextId
  BY Parts DEF Running
<1>2. Subject \in DOMAIN jobs
  BY <1>1 DEF RunInv
<1> QED BY <1>1, <1>2, JobFields

\* Its record.
LEMMA SubjectRecord ==
  ASSUME FilesInv, pc = "write", NEW full \in BOOLEAN
  PROVE  SubjectRec(full) \in Recs /\ Written(SubjectRec(full)) = Short
<1> DEFINE k == IF full THEN jobs[Subject].kind ELSE "short"
           r == SubjectRec(full)
<1>1. Subject \in Ids /\ jobs[Subject].st \in States /\ jobs[Subject].kind \in Kinds
  BY SubjectIs
<1>2. r = [id |-> Subject, st |-> jobs[Subject].st, kind |-> k, body |-> ~full]
  BY DEF SubjectRec, Rec
<1>3. k \in Kinds \cup {"short"} /\ (~full) \in BOOLEAN
  BY <1>1
<1> HIDE DEF k, r
<1>4. r \in Recs /\ r.kind = k /\ r.body = ~full
  BY <1>1, <1>2, <1>3 DEF Recs
<1>5. Written(r) = Short
  <2>1. CASE full
    BY <1>4, <2>1 DEF Written
  <2>2. CASE ~full
    <3>1. ~IsFull(r)
      BY <1>4, <2>2 DEF IsFull, k
    <3>2. RecSize(r) = Short
      BY <3>1, Numbers DEF RecSize
    <3> QED BY <3>2 DEF Written
  <2> QED BY <2>1, <2>2
<1> QED BY <1>4, <1>5 DEF r

\* A release is counted.
LEMMA SpentFields ==
  ASSUME NEW b \in WalRec, NEW y, y \in {b, [b EXCEPT !.spent = @ + 1]}
  PROVE  /\ Same(b, y) /\ y.total = b.total /\ y.spare = b.spare
         /\ y = [b EXCEPT !.spent = @ + 1] => y.spent = b.spent + 1
<1> DEFINE n == b.spent + 1
           u == [b EXCEPT !.spent = n]
<1>1. n \in Nat
  BY WalFields
<1>2. y \in {b, u}
  OBVIOUS
<1> HIDE DEF n
<1>3. Same(b, b)
  BY DEF Same
<1>4. Same(b, u) /\ u.total = b.total /\ u.spare = b.spare /\ u.spent = n
  BY <1>1 DEF Same, WalRec
<1> QED BY <1>2, <1>3, <1>4 DEF n

\* WalWrite writes a record or turns the log off.
LEMMA WalWriteIs ==
  ASSUME FilesInv, WalWrite
  PROVE  /\ pc = "write" /\ w.use
         /\ \/ LogOff(w) /\ UNCHANGED <<nextId, rd, faults, cmds>>
            \/ \E v, b : \E full \in BOOLEAN : WriteFacts(v, b, full)
<1> DEFINE j == Subject
           v == IF w.resv[w.cur] > 0 THEN w ELSE useNext(w)
           full == FileOf(v, j) = 0
           a == fileWrite(IF full THEN FileAddJob(v, v.cur, j) ELSE v, j, Short)
           b == IF ~full /\ jobs[j].st = "invalid" THEN FileRmJob(a, j) ELSE a
           r == Rec(j, jobs[j].st, IF full THEN jobs[j].kind ELSE "short", ~full)
           release == run.op = "release" /\ run.moving = 0
           y == IF release THEN [b EXCEPT !.spent = @ + 1] ELSE b
<1>1. /\ pc = "write" /\ w.use /\ UNCHANGED <<nextId, rd, faults, cmds>>
      /\ \/ LogOff(w)
         \/ /\ v.ok /\ w' = Settled(y)
            /\ dir' = [f \in DOMAIN DirOf(b) |-> AddRec(DirOf(v), v.cur, r)[f]]
            /\ IF full THEN pc' = "body" /\ UNCHANGED <<jobs, run, answer>>
                       ELSE Compacting(b)
            /\ Expose(Lost(v))
  BY DEF WalWrite, ToWrite, Entered
<1> SUFFICES ASSUME v.ok, w' = Settled(y),
                    dir' = [f \in DOMAIN DirOf(b) |-> AddRec(DirOf(v), v.cur, r)[f]],
                    IF full THEN pc' = "body" /\ UNCHANGED <<jobs, run, answer>>
                            ELSE Compacting(b),
                    Expose(Lost(v))
             PROVE  WriteFacts(v, b, full)
  BY <1>1
<1> DEFINE d == DirOf(v)
<1>2. v = w \/ (HasNext(w) /\ v = useNext(w))
  <2>1. ASSUME ~HasNext(w), v = useNext(w) PROVE FALSE
    <3>1. v = [w EXCEPT !.ok = FALSE]
      BY <2>1 DEF useNext
    <3>2. w \in WalRec
      BY <1>1, Writes
    <3> QED BY <3>1, <3>2 DEF WalRec
  <2> QED BY <2>1
<1> HIDE DEF v
<1>3. Turned(v, d)
  BY <1>1, <1>2, Turning
<1> HIDE DEF d
<1>4. Writing(v) /\ Once(v) /\ v.use /\ v \in WalRec
  BY <1>3 DEF Turned, Writing, Chain
<1>5. j \in Ids
  BY <1>1, SubjectIs
<1> HIDE DEF j
<1>6. full <=> ~InList(v, j)
  BY <1>4, FileOfIs
<1>7. full \in BOOLEAN
  OBVIOUS
<1>8. r = SubjectRec(full)
  BY DEF SubjectRec, j
<1>9. r \in Recs /\ Written(r) = Short
  <2> HIDE DEF r, full
  <2> QED BY <1>1, <1>7, <1>8, SubjectRecord
<1> DEFINE inv == jobs[j].st = "invalid"
<1>10. /\ Booked(v, b)
       /\ \A g \in Files : \A k : Holds(b, g, k) <=>
            IF full THEN Holds(v, g, k) \/ (g = v.cur /\ k = j)
                    ELSE Holds(v, g, k) /\ ~(inv /\ k = j)
  <2>1. CASE full
    <3>1. b = fileWrite(FileAddJob(v, v.cur, j), j, Short)
      BY <2>1
    <3>2. ~InList(v, j)
      BY <1>6, <2>1
    <3> HIDE DEF b, full
    <3> QED BY <1>4, <1>5, <2>1, <3>1, <3>2, WritesFull
  <2>2. CASE ~full
    <3>1. a = fileWrite(v, j, Short) /\ b = IF inv THEN FileRmJob(a, j) ELSE a
      BY <2>2
    <3>2. inv \in BOOLEAN
      OBVIOUS
    <3> HIDE DEF a, b, full, inv
    <3> QED BY <1>4, <1>5, <2>2, <3>1, <3>2, WritesShort
  <2> QED BY <2>1, <2>2
<1> HIDE DEF a, b, full, r, inv
<1>11. Recorded(v, d, b, r, dir')
  <2> DEFINE e == dir'
  <2>1. e = [f \in DOMAIN DirOf(b) |-> AddRec(d, v.cur, r)[f]]
    BY DEF d
  <2>2. Records(v, b)
    BY <1>10 DEF Booked
  <2> HIDE DEF e
  <2>3. Recorded(v, d, b, r, e)
    BY <1>1, <1>3, <1>9, <2>1, <2>2, Recording
  <2> QED BY <2>3 DEF e
<1>12. b \in WalRec /\ Records(v, b)
  BY <1>10 DEF Booked, Records, Writing, Chain
<1>13. /\ Same(b, y) /\ y.total = b.total /\ y.spare = b.spare
       /\ y.spent = IF release THEN b.spent + 1 ELSE b.spent
  <2>1. y \in {b, [b EXCEPT !.spent = @ + 1]}
    OBVIOUS
  <2>2. release => y = [b EXCEPT !.spent = @ + 1]
    OBVIOUS
  <2>3. ~release => y = b
    OBVIOUS
  <2> HIDE DEF y, release
  <2> QED BY <1>12, <2>1, <2>2, <2>3, SpentFields
<1> HIDE DEF y, release
<1>14. /\ Disk(w', dir') /\ Log(w', dir') /\ w'.use /\ w'.cur = v.cur /\ w'.list = b.list
       /\ w'.total = y.total /\ w'.spent = y.spent /\ w'.spare = y.spare
  <2> DEFINE e == dir'
             z == w'
  <2>1. z = Settled(y) /\ Recorded(v, d, b, r, e)
    BY <1>11
  <2> HIDE DEF e, z
  <2>2. /\ Disk(z, e) /\ Log(z, e) /\ z.use /\ z.cur = v.cur /\ z.list = b.list
        /\ z.total = y.total /\ z.spent = y.spent /\ z.spare = y.spare
    BY <1>3, <1>9, <1>12, <1>13, <2>1, RecordedNext
  <2> QED BY <2>2 DEF e, z
<1>15. v.list = w.list /\ v.total = w.total /\ v.spent = w.spent /\ v.spare = w.spare
  BY <1>3 DEF Turned
<1>16. \A g \in Files : \A k : Holds(w', g, k) <=>
         IF full THEN Holds(w, g, k) \/ (g = v.cur /\ k = Subject)
                 ELSE Holds(w, g, k) /\ ~(SubjectGone /\ k = Subject)
  BY <1>10, <1>14, <1>15 DEF Holds, SubjectGone, inv, j
<1>17. full <=> ~InList(w, Subject)
  BY <1>6, <1>15 DEF InList, Holds, j
<1>18. /\ w'.total = w.total - Short /\ w'.spare = w.spare
       /\ w'.spent = IF run.op = "release" /\ run.moving = 0 THEN w.spent + 1 ELSE w.spent
  BY <1>10, <1>13, <1>14, <1>15 DEF Booked, release
<1> QED BY <1>1, <1>2, <1>3, <1>8, <1>9, <1>10, <1>11, <1>14, <1>16, <1>17, <1>18 DEF WriteFacts, d

\* What is lost are jobs.
LEMMA LostIds ==
  ASSUME DirTypes, NEW v
  PROVE  Lost(v) \in SUBSET Ids
<1> DEFINE d == DirOf(v)
<1>1. ASSUME NEW f \in DOMAIN dir, NEW p \in DOMAIN dir[f].recs PROVE dir[f].recs[p].id \in Ids
  <2>1. dir[f] \in DirRec
    BY DEF DirTypes
  <2>2. dir[f].recs \in Seq(Recs)
    BY <2>1 DEF DirRec
  <2>3. dir[f].recs[p] \in Recs
    BY <2>2
  <2> QED BY <2>3 DEF Recs
<1>2. Lost(v) = UNION {{dir[f].recs[p].id : p \in DOMAIN dir[f].recs \ DOMAIN d[f].recs} :
                         f \in DOMAIN dir \cap DOMAIN d}
  BY DEF Lost
<1> HIDE DEF d
<1> QED BY <1>1, <1>2

\* The log u at the point where a write fails: that of w, the next file current perhaps and the
\* job in its list.
Aimed(u) ==
  /\ Chain(u) /\ Once(u) /\ u.cur \in u.open /\ u.reading = 0 /\ u.ok /\ ~u.stuck /\ u.room = 0
  /\ u.torn = w.torn /\ u.spent = w.spent /\ \A f \in u.open : Listed(u, f)
  /\ \A f \in Files : Listed(u, f) => Listed(w, f)
  /\ \A f \in Files : Listed(w, f) => Listed(u, f) \/ (w.list[f] = <<>> /\ f \notin u.open)
  /\ \A f, g \in Files : Listed(w, f) /\ ~Listed(u, f) /\ Listed(u, g) => f < g
  /\ \A g \in Files : u.list[g] = <<>> => w.list[g] = <<>>
  /\ \A g \in Files : \A k : /\ Holds(w, g, k) => Holds(u, g, k)
                             /\ Holds(u, g, k) => Holds(w, g, k) \/ k = Subject

\* The log as it is, when the body is written or there is no next file.
LEMMA AimHere ==
  ASSUME FilesInv, pc \in {"write", "body"}, w.use
  PROVE  Aimed(w)
<1>1. /\ Log(w, dir) /\ Chain(w) /\ Once(w) /\ w.cur \in w.open /\ w.ok /\ ~w.stuck /\ w.room = 0
  BY Writes
<1> QED BY <1>1 DEF Aimed, Log

\* The log with the file that WalWrite turns to, if there is one.
LEMMA ToWriteType ==
  ASSUME FilesInv, pc = "write", w.use
  PROVE  ToWrite \in WalRec
<1>1. w \in WalRec /\ Writing(w)
  BY Writes
<1>2. CASE ToWrite = w
  BY <1>1, <1>2
<1>3. CASE ToWrite = useNext(w) /\ HasNext(w)
  <2>1. Writing(ToWrite)
    BY <1>1, <1>3, UseNext
  <2> QED BY <2>1 DEF Writing, Chain
<1>4. CASE ToWrite = useNext(w) /\ ~HasNext(w)
  <2>1. ToWrite = [w EXCEPT !.ok = FALSE]
    BY <1>4 DEF useNext
  <2> QED BY <1>1, <2>1 DEF WalRec
<1> QED BY <1>2, <1>3, <1>4 DEF ToWrite

\* The log that WalWrite is about to write to.
LEMMA AimWrite ==
  ASSUME FilesInv, pc = "write", w.use, ToWrite.ok
  PROVE  Aimed(Entered(ToWrite))
<1> DEFINE v == ToWrite
           u == Entered(v)
           j == Subject
<1>1. v = w \/ (HasNext(w) /\ v = useNext(w))
  <2>1. ASSUME ~HasNext(w), v = useNext(w) PROVE FALSE
    <3>1. v = [w EXCEPT !.ok = FALSE]
      BY <2>1 DEF useNext
    <3>2. w \in WalRec
      BY Writes
    <3> QED BY <3>1, <3>2 DEF WalRec
  <2> QED BY <2>1 DEF ToWrite
<1>2. v.ok /\ u = IF FileOf(v, j) = 0 THEN FileAddJob(v, v.cur, j) ELSE v
  BY DEF Entered
<1>3. v.torn = w.torn
  <2>1. Writing(w)
    BY Writes
  <2> QED BY <1>1, <2>1, UseNext
<1>4. j \in Ids
  BY SubjectIs
<1> SUFFICES Aimed(u)
  OBVIOUS
<1> HIDE DEF v, u, j
<1>5. Turned(v, DirOf(v))
  BY <1>1, <1>2, Turning
<1>6. /\ Once(v) /\ Writing(v) /\ v.ok /\ ~v.stuck /\ v.room = 0
      /\ v.list = w.list /\ v.spent = w.spent
      /\ \A f \in Files : Listed(v, f) => Listed(w, f)
      /\ \A f \in Files : Listed(w, f) => Listed(v, f) \/ (w.list[f] = <<>> /\ f \notin v.open)
      /\ \A f, g \in Files : Listed(w, f) /\ ~Listed(v, f) /\ Listed(v, g) => f < g
  BY <1>5 DEF Turned
<1>7. /\ Chain(v) /\ v \in WalRec /\ v.reading = 0 /\ v.cur \in Files /\ Listed(v, v.cur)
      /\ v.cur \in v.open /\ \A f \in v.open : Listed(v, f)
  BY <1>6, OpenFields DEF Writing, Chain
<1>8. \A g \in Files : \A k : Holds(v, g, k) <=> Holds(w, g, k)
  BY <1>6 DEF Holds
<1>9. CASE u = v
  BY <1>3, <1>6, <1>7, <1>8, <1>9 DEF Aimed
<1>10. CASE u = FileAddJob(v, v.cur, j) /\ FileOf(v, j) = 0
  <2>1. ~InList(v, j)
    BY <1>7, <1>10, FileOfIs
  <2>2. Added(v, v.cur, j, u)
    BY <1>4, <1>6, <1>7, <1>10, <2>1, AddJob
  <2>3. /\ Chain(u) /\ Once(u) /\ u.files = v.files /\ u.cur = v.cur /\ u.open = v.open
        /\ u.reading = v.reading /\ u.ok = v.ok /\ u.stuck = v.stuck /\ u.room = v.room
        /\ u.torn = v.torn /\ u.spent = v.spent
        /\ \A g \in Files : \A k : Holds(u, g, k) <=> Holds(v, g, k) \/ (g = v.cur /\ k = j)
    BY <2>2 DEF Added, Frame
  <2>4. \A f : Listed(u, f) <=> Listed(v, f)
    BY <2>3 DEF Listed
  <2>5. ASSUME NEW g \in Files, u.list[g] = <<>> PROVE w.list[g] = <<>>
    <3>1. w.list[g] \in Seq(Ids)
      BY Writes, FileFields
    <3>2. \A k : ~Holds(u, g, k)
      BY <2>5 DEF Holds
    <3>3. \A k : ~Holds(w, g, k)
      BY <1>8, <2>3, <3>2
    <3>4. 1 \notin DOMAIN w.list[g]
      BY <3>3 DEF Holds
    <3> QED BY <3>1, <3>4
  <2>6. \A g \in Files : \A k : /\ Holds(w, g, k) => Holds(u, g, k)
                                /\ Holds(u, g, k) => Holds(w, g, k) \/ k = Subject
    BY <1>8, <2>3 DEF j
  <2> QED BY <1>3, <1>6, <1>7, <2>3, <2>4, <2>5, <2>6 DEF Aimed
<1> QED BY <1>2, <1>9, <1>10

\* The log goes out of use: the current file is closed, and cut to what is written of it.
LogOffFacts(v) ==
  /\ v \in WalRec /\ dir' = DirOf(v) /\ DirStep(v, dir')
  /\ Disk(w', dir') /\ Log(w', dir') /\ ~w'.use /\ w'.torn = w.torn /\ w'.spent = w.spent
  /\ \A g \in Files : \A k : /\ Holds(w, g, k) => Holds(w', g, k)
                             /\ Holds(w', g, k) => Holds(w, g, k) \/ k = Subject
  /\ \A f \in Files : Listed(w', f) => Listed(w, f)
  /\ \A f \in Files : Listed(w, f) => Listed(w', f) \/ (w.list[f] = <<>> /\ f \notin w'.open)
  /\ \A f, g \in Files : Listed(w, f) /\ ~Listed(w', f) /\ Listed(w', g) => f < g
  /\ \A f \in DOMAIN dir' : f \in DOMAIN dir
  /\ IF run.moving = 0 THEN Failed(Lost(v))
     ELSE /\ pc' = "compact" /\ run' = [run EXCEPT !.moving = 0]
          /\ Expose(Lost(v) \cup InHand)
          /\ UNCHANGED <<jobs, answer>>

\* LogOff: the current file is closed, and truncated.
LEMMA LogOffIs ==
  ASSUME FilesInv, pc \in {"write", "body"}, w.use, NEW u, Aimed(u), LogOff(u)
  PROVE  \E v : LogOffFacts(v)
<1> DEFINE v == fileWClose(u, u.cur)
           y == [v EXCEPT !.use = FALSE]
<1>1. /\ Disk(w, dir) /\ Log(w, dir) /\ w \in WalRec /\ DirTypes
  BY Writes
<1>2. /\ w' = Settled(y) /\ dir' = DirOf(y)
      /\ IF run.moving = 0 THEN Failed(Lost(v))
         ELSE /\ pc' = "compact" /\ run' = [run EXCEPT !.moving = 0]
              /\ Expose(Lost(v) \cup InHand)
              /\ UNCHANGED <<jobs, answer>>
  BY DEF LogOff, SetWal
<1>3. v = fileWClose(u, u.cur)
  OBVIOUS
<1>0. /\ Chain(u) /\ Once(u) /\ u.cur \in u.open /\ u.reading = 0 /\ u.ok /\ ~u.stuck /\ u.room = 0
      /\ u.torn = w.torn /\ u.spent = w.spent /\ \A f \in u.open : Listed(u, f)
      /\ \A g \in Files : u.list[g] = <<>> => w.list[g] = <<>>
      /\ \A g \in Files : \A k : /\ Holds(w, g, k) => Holds(u, g, k)
                                 /\ Holds(u, g, k) => Holds(w, g, k) \/ k = Subject
  BY DEF Aimed
<1> HIDE DEF v
<1>4. /\ Chain(v) /\ v.open = u.open \ {u.cur} /\ v.reading = u.reading /\ v.list = u.list
      /\ v.room = u.room /\ v.torn = u.torn /\ v.spent = u.spent
  BY <1>0, <1>3, CloseFile
<1>5. \A g \in Files : Listed(w, g) => Listed(v, g) \/ (w.list[g] = <<>> /\ g \notin v.open)
  <2>1. \A g \in Files : Listed(u, g) => Listed(v, g) \/ (u.list[g] = <<>> /\ g \notin v.open /\ g # u.reading)
    BY <1>0, <1>3, CloseFile
  <2>2. \A g \in Files : Listed(w, g) => Listed(u, g) \/ (w.list[g] = <<>> /\ g \notin u.open)
    BY DEF Aimed
  <2> QED BY <1>0, <1>4, <2>1, <2>2
<1>6. \A g \in Files : Listed(v, g) => Listed(u, g) /\ Listed(w, g)
  <2>1. \A g \in Files : Listed(v, g) => Listed(u, g)
    BY <1>0, <1>3, CloseFile
  <2> QED BY <2>1 DEF Aimed
<1>7. \A g, h \in Files : Listed(w, g) /\ ~Listed(v, g) /\ Listed(v, h) => g < h
  <2>1. \A g, h \in Files : Listed(u, g) /\ ~Listed(v, g) /\ Listed(v, h) => g < h
    BY <1>0, <1>3, CloseFile
  <2>2. \A g, h \in Files : Listed(w, g) /\ ~Listed(u, g) /\ Listed(u, h) => g < h
    BY DEF Aimed
  <2> QED BY <1>6, <2>1, <2>2
<1>8. v \in WalRec /\ Once(v)
  BY <1>0, <1>4 DEF Chain, Once
<1>9. /\ y \in WalRec /\ y.files = v.files /\ y.cur = v.cur /\ y.next = v.next /\ ~y.use
      /\ y.open = v.open /\ y.reading = v.reading /\ y.list = v.list /\ y.free = v.free
      /\ y.resv = v.resv /\ y.room = v.room /\ y.torn = v.torn /\ y.spent = v.spent
  BY <1>8 DEF WalRec
<1> HIDE DEF y
<1>10. DirOf(y) = DirOf(v)
  BY <1>9 DEF DirOf
<1>11. \A f \in Files : Listed(y, f) <=> Listed(v, f)
  BY <1>9 DEF Listed
<1>12. Chain(y) /\ Once(y)
  BY <1>4, <1>8, <1>9, <1>11 DEF Chain, Once
<1> DEFINE z == w'
           d == dir'
<1>13. z = Settled(y) /\ d = DirOf(v)
  BY <1>2, <1>10
<1> HIDE DEF z, d
<1>14. /\ Chain(z) /\ Once(z) /\ \A f \in Files : Listed(z, f) <=> Listed(v, f)
  BY <1>11, <1>12, <1>13, SettledChain
<1>15. /\ z.use = y.use /\ z.open = y.open /\ z.reading = y.reading /\ z.list = y.list
       /\ z.ok /\ ~z.stuck /\ z.room = 0 /\ z.torn = y.torn /\ z.spent = y.spent
  BY <1>9, <1>13, SettledFields
<1>16. DirStep(v, d)
  BY <1>1, <1>8, <1>13, Unlinking
<1>17. \A f \in Files : f \in DOMAIN d <=> Listed(z, f)
  BY <1>1, <1>6, <1>14, <1>16 DEF DirStep, Log
<1>18. Disk(z, d)
  BY <1>14, <1>15, <1>16 DEF Disk, DirStep
<1>19. Log(z, d)
  <2>1. \A f \in z.open : Listed(z, f)
    <3>1. \A f \in v.open : f \in Files
      BY <1>8, WalFields
    <3>2. \A f \in v.open : Listed(u, f) /\ Listed(w, f)
      BY <1>0, <1>4, <3>1 DEF Aimed
    <3>3. \A f \in v.open : Listed(v, f)
      BY <1>5, <3>1, <3>2
    <3> QED BY <1>9, <1>14, <1>15, <3>1, <3>3
  <2>2. z.reading = 0
    BY <1>0, <1>4, <1>9, <1>15
  <2> QED BY <1>9, <1>15, <1>17, <2>1, <2>2 DEF Log
<1>20. \A f \in DOMAIN d : f \in DOMAIN dir
  BY <1>1, <1>6, <1>14, <1>16, <1>17 DEF DirStep, Log
<1>21. \A g \in Files : \A k : /\ Holds(w, g, k) => Holds(z, g, k)
                               /\ Holds(z, g, k) => Holds(w, g, k) \/ k = Subject
  <2>1. z.list = u.list
    BY <1>4, <1>9, <1>15
  <2>2. \A g, k : Holds(z, g, k) <=> Holds(u, g, k)
    BY <2>1 DEF Holds
  <2> QED BY <1>0, <2>2
<1>22. /\ v \in WalRec /\ dir' = DirOf(v) /\ DirStep(v, dir') /\ Disk(w', dir') /\ Log(w', dir')
       /\ ~w'.use /\ w'.torn = w.torn /\ w'.spent = w.spent
  BY <1>0, <1>2, <1>4, <1>8, <1>9, <1>10, <1>15, <1>16, <1>18, <1>19 DEF z, d
<1>23. \A f \in Files : Listed(w', f) => Listed(w, f)
  BY <1>6, <1>14 DEF z
<1>24. \A f \in Files : Listed(w, f) => Listed(w', f) \/ (w.list[f] = <<>> /\ f \notin w'.open)
  BY <1>5, <1>9, <1>14, <1>15 DEF z
<1>25. \A f, g \in Files : Listed(w, f) /\ ~Listed(w', f) /\ Listed(w', g) => f < g
  BY <1>7, <1>14 DEF z
<1> QED BY <1>2, <1>20, <1>21, <1>22, <1>23, <1>24, <1>25 DEF LogOffFacts, z, d

\* more is recs with the body of its last record.
Finished(recs, more) ==
  /\ more \in Seq(Recs) /\ Len(more) = Len(recs)
  /\ \A k \in 1..(Len(recs) - 1) : more[k] = recs[k]
  /\ more[Len(recs)].id = recs[Len(recs)].id /\ more[Len(recs)].st = recs[Len(recs)].st
  /\ more[Len(recs)].kind = recs[Len(recs)].kind /\ more[Len(recs)].body

\* The body is marked in the last record of the file and nowhere else.
LEMMA SetBodyFields ==
  ASSUME NEW d, d \in [DOMAIN d -> DirRec], NEW c \in DOMAIN d, d[c].recs # <<>>,
         NEW e, e = SetBody(d, c)
  PROVE  /\ DOMAIN e = DOMAIN d /\ \A f \in DOMAIN d : f # c => e[f] = d[f]
         /\ e \in [DOMAIN d -> DirRec]
         /\ e[c].ver = d[c].ver /\ Finished(d[c].recs, e[c].recs)
<1> DEFINE a == d[c]
           s == a.recs
           n == Len(s)
           r == s[n]
           r1 == [r EXCEPT !.body = TRUE]
           s1 == [s EXCEPT ![n] = r1]
           a1 == [a EXCEPT !.recs = s1]
<1>1. a \in DirRec
  OBVIOUS
<1>2. s \in Seq(Recs) /\ s # <<>>
  BY <1>1 DEF DirRec
<1>3. n \in Nat \ {0} /\ DOMAIN s = 1..n /\ r \in Recs
  <2>1. n \in Nat /\ DOMAIN s = 1..n /\ n # 0
    BY <1>2
  <2> QED BY <1>2, <2>1
<1>4. e = [d EXCEPT ![c] = a1]
  BY DEF SetBody
<1> HIDE DEF r, a, n, s
<1>5. r1 \in Recs /\ r1.id = r.id /\ r1.st = r.st /\ r1.kind = r.kind /\ r1.body
  BY <1>3 DEF Recs
<1> HIDE DEF r1
<1>6. s1 \in Seq(Recs) /\ Len(s1) = n /\ s1[n] = r1 /\ \A k \in 1..(n - 1) : s1[k] = s[k]
  <2>1. n = Len(s)
    BY DEF n
  <2> QED BY <1>2, <1>3, <1>5, <2>1
<1> HIDE DEF s1
<1>7. a1 \in DirRec /\ a1.ver = a.ver /\ a1.recs = s1
  BY <1>1, <1>6 DEF DirRec
<1> HIDE DEF a1
<1>8. /\ DOMAIN e = DOMAIN d /\ e[c] = a1 /\ \A f \in DOMAIN d : f # c => e[f] = d[f]
      /\ e \in [DOMAIN d -> DirRec]
  BY <1>4, <1>7
<1>9. Finished(s, s1)
  <2>1. n = Len(s) /\ r = s[n]
    BY DEF n, r
  <2> QED BY <1>5, <1>6, <2>1 DEF Finished
<1> QED BY <1>7, <1>8, <1>9 DEF a, s

BodyFacts ==
  /\ pc = "body" /\ w.use /\ w.cur \in DOMAIN dir /\ w.cur \in Files /\ dir[w.cur].recs \in Seq(Recs)
  /\ Disk(w', dir') /\ Log(w', dir') /\ w'.use /\ w'.cur = w.cur /\ w'.list = w.list
  /\ w'.total = w.total - Extra[jobs[Subject].kind] /\ w'.spent = w.spent /\ w'.spare = w.spare
  /\ DOMAIN dir' = DOMAIN dir /\ \A f \in DOMAIN dir : f # w.cur => dir'[f] = dir[f]
  /\ dir'[w.cur].ver = dir[w.cur].ver /\ Finished(dir[w.cur].recs, dir'[w.cur].recs)
  /\ \E b \in WalRec : Compacting(b)
  /\ UNCHANGED <<nextId, rd, acked, gone, faults, cmds>>

\* WriteBody.
LEMMA WriteBodyIs ==
  ASSUME FilesInv, WriteBody
  PROVE  BodyFacts
<1> DEFINE j == Subject
           m == Extra[jobs[Subject].kind]
           v == fileWrite(w, j, m)
           z == w'
           d == dir'
           c == w.cur
<1>1. /\ pc = "body" /\ z = Settled(v) /\ d = SetBody(dir, c) /\ Compacting(v)
      /\ UNCHANGED <<nextId, rd, acked, gone, faults, cmds>>
  BY DEF WriteBody
<1>2. w.use
  BY <1>1 DEF FilesInv, RunInv, Running
<1>3. /\ Disk(w, dir) /\ Log(w, dir) /\ Writing(w) /\ Chain(w) /\ Once(w) /\ Exact(w, dir)
      /\ w \in WalRec /\ DirTypes /\ c \in Files /\ c \in w.open /\ c \in DOMAIN dir /\ w.ok /\ ~w.stuck
      /\ w.room = 0 /\ \A f \in w.open : f \in Files /\ f \in DOMAIN dir
  BY <1>1, <1>2, Writes
<1>4. j \in Ids /\ m \in Nat /\ m \in Int /\ jobs[Subject].kind \in Kinds
  BY <1>1, SubjectIs
<1>5. v = fileWrite(w, j, m)
  OBVIOUS
<1> HIDE DEF j, v
<1>6. Wrote(w, j, m, v)
  <2> HIDE DEF m
  <2> QED BY <1>3, <1>4, <1>5, FileWrite
<1>7. /\ Writing(v) /\ Chain(v) /\ v.files = w.files /\ v.list = w.list /\ v.open = w.open
      /\ v.use = w.use /\ v.cur = w.cur
  BY <1>3, <1>6 DEF Wrote
<1>8. Once(v) /\ v \in WalRec
  BY <1>3, <1>7 DEF Once, Chain
<1>9. \A f \in Files : Listed(v, f) <=> Listed(w, f)
  BY <1>7 DEF Listed
<1> HIDE DEF z, d
<1>10. Chain(z) /\ Writing(z) /\ Once(z) /\ \A f \in Files : Listed(z, f) <=> Listed(v, f)
  BY <1>1, <1>7, <1>8, SettledChain
<1>11. /\ z.use = v.use /\ z.open = v.open /\ z.reading = v.reading /\ z.list = v.list /\ z.cur = v.cur
       /\ z.total = v.total /\ z.spent = v.spent /\ z.spare = v.spare
       /\ z.ok /\ ~z.stuck /\ z.room = 0
       /\ \A f \in v.open : z.free[f] = v.free[f] /\ z.resv[f] = v.resv[f]
  BY <1>1, <1>8, SettledFields
<1>12. /\ dir[c].recs # <<>> /\ IsFull(dir[c].recs[Len(dir[c].recs)])
       /\ ~dir[c].recs[Len(dir[c].recs)].body
       /\ dir[c].recs[Len(dir[c].recs)].kind = jobs[Subject].kind
  BY <1>1 DEF FilesInv, BodyInv
<1>13. /\ DOMAIN d = DOMAIN dir /\ \A f \in DOMAIN dir : f # c => d[f] = dir[f]
       /\ d \in [DOMAIN dir -> DirRec]
       /\ d[c].ver = dir[c].ver /\ Finished(dir[c].recs, d[c].recs)
  <2>1. dir \in [DOMAIN dir -> DirRec]
    BY <1>3 DEF DirTypes
  <2> QED BY <1>1, <1>3, <1>12, <2>1, SetBodyFields
<1>14. dir[c] \in DirRec /\ dir[c].recs \in Seq(Recs)
  <2>1. dir[c] \in DirRec
    BY <1>3 DEF DirTypes
  <2> QED BY <2>1 DEF DirRec
<1>15. Bytes(d[c].recs) = Bytes(dir[c].recs) + m
  <2> DEFINE s == dir[c].recs
             t == d[c].recs
  <2>1. /\ s \in Seq(Recs) /\ s # <<>> /\ IsFull(s[Len(s)]) /\ ~s[Len(s)].body
        /\ s[Len(s)].kind = jobs[Subject].kind
    BY <1>12, <1>14
  <2>2. /\ t \in Seq(Recs) /\ Len(t) = Len(s) /\ \A k \in 1..(Len(s) - 1) : t[k] = s[k]
        /\ t[Len(s)].kind = s[Len(s)].kind /\ t[Len(s)].body
    BY <1>13 DEF Finished
  <2> HIDE DEF s, t
  <2>3. Bytes(t) = Bytes(s) + Extra[s[Len(s)].kind]
    BY <2>1, <2>2, BytesBody
  <2> QED BY <2>1, <2>3 DEF s, t
<1> HIDE DEF m
<1>16. Exact(z, d)
  <2> SUFFICES ASSUME NEW f \in z.open
               PROVE  Header + Bytes(d[f].recs) + z.resv[f] + z.free[f] = FileSize
    BY DEF Exact
  <2>1. /\ f \in w.open /\ f \in Files /\ f \in DOMAIN dir /\ z.resv[f] = v.resv[f]
        /\ z.free[f] = v.free[f] /\ v.free[f] = w.free[f]
    BY <1>3, <1>6, <1>7, <1>11 DEF Wrote
  <2>2. Header + Bytes(dir[f].recs) + w.resv[f] + w.free[f] = FileSize
    BY <1>3, <2>1 DEF Exact
  <2>3. CASE f # c
    <3>1. v.resv[f] = w.resv[f] /\ d[f] = dir[f]
      BY <1>6, <1>13, <2>1, <2>3 DEF Wrote
    <3> QED BY <2>1, <2>2, <3>1
  <2>4. CASE f = c
    <3>1. v.resv[f] = w.resv[f] - m
      BY <1>6, <2>4 DEF Wrote
    <3>2. w.resv[f] \in Int /\ w.free[f] \in Int
      BY <1>3, <2>1, FileFields
    <3>3. Bytes(dir[f].recs) \in Nat
      BY <1>14, <2>4, BytesFacts
    <3>4. Bytes(d[f].recs) = Bytes(dir[f].recs) + m
      BY <1>15, <2>4
    <3> HIDE <2>4
    <3> DEFINE b0 == Bytes(dir[f].recs)
               b1 == Bytes(d[f].recs)
               r0 == w.resv[f]
               r1 == z.resv[f]
               f0 == w.free[f]
               f1 == z.free[f]
    <3>5. /\ b0 \in Nat /\ r0 \in Int /\ f0 \in Int /\ b1 = b0 + m /\ r1 = r0 - m /\ f1 = f0
          /\ Header + b0 + r0 + f0 = FileSize
      BY <2>1, <2>2, <3>1, <3>2, <3>3, <3>4
    <3>6. Header \in Nat /\ FileSize \in Nat
      BY Numbers
    <3> HIDE DEF b0, b1, r0, r1, f0, f1
    <3>7. Header + b1 + r1 + f1 = FileSize
      BY <1>4, <3>5, <3>6
    <3> QED BY <3>7 DEF b1, r1, f1
  <2> QED BY <2>3, <2>4
<1>17. Disk(z, d)
  BY <1>3, <1>10, <1>11, <1>13 DEF Disk
<1>18. Log(z, d)
  <2>1. \A f \in z.open : f \in Files /\ Listed(z, f)
    <3>1. \A f \in z.open : Listed(z, f)
      BY <1>10, OpenFields
    <3> QED BY <1>3, <1>7, <1>11, <3>1
  <2>2. z.reading = 0 /\ \A f \in Files : Listed(z, f) <=> f \in DOMAIN d
    BY <1>3, <1>9, <1>10, <1>13 DEF Writing, Log
  <2> QED BY <1>10, <1>16, <2>1, <2>2 DEF Log
<1>19. /\ z.total = w.total - m /\ z.spent = w.spent /\ z.spare = w.spare
  BY <1>6, <1>11 DEF Wrote
<1>20. Compacting(v) /\ v \in WalRec
  BY <1>1, <1>8
<1> QED BY <1>1, <1>2, <1>3, <1>7, <1>11, <1>13, <1>14, <1>17, <1>18, <1>19, <1>20 DEF BodyFacts, z, d, m

\* moveOne has taken job j out of the head file, or found no space for it.
MoveFacts(j, v, u) ==
  LET need == walResvMigrate(jobs[j].kind)
  IN  /\ pc = "compact" /\ run.left > 0 /\ j \in DOMAIN jobs /\ j \in Ids /\ InList(w, j)
      /\ need \in Int /\ Holds(w, w.files[1], j)
      /\ v.ok \in BOOLEAN /\ v.stuck \in BOOLEAN /\ (~w.use => v.ok) /\ Honest(v)
      /\ Disk(w', dir') /\ Log(w', dir') /\ Extends(u, dir') /\ w'.use = w.use /\ w'.cur >= w.cur
      /\ w'.spent = w.spent /\ w'.spare = w.spare
      /\ w'.total = IF w.use /\ (v.ok \/ v.stuck) THEN w.total + need ELSE w.total
      /\ \A g \in Files : \A k : Holds(w', g, k) <=> Holds(w, g, k) /\ ~(v.ok /\ k = j)
      /\ \A f, g \in Files : Listed(w, f) /\ ~Listed(w', f) /\ Listed(w', g) => f < g
      /\ Charge(v)
      /\ IF v.stuck THEN Hangs
         ELSE /\ run' = [run EXCEPT !.left = @ - 1, !.moving = IF v.ok THEN j ELSE 0,
                                    !.need = need]
              /\ pc' = IF v.ok THEN "write" ELSE pc
      /\ UNCHANGED <<jobs, nextId, rd, answer, acked, gone, cmds>>

\* What is left when a job is taken out of what a reservation made of the files.
LEMMA Taking ==
  ASSUME FilesInv, Running, NEW room \in Rooms, NEW n \in Int, NEW j \in Ids, NEW ok \in BOOLEAN,
         NEW v, v = reserve([w EXCEPT !.room = room], n), ok = v.ok,
         NEW u, u = IF ok THEN FileRmJob(v, j) ELSE v,
         NEW z, z = Settled(u), NEW d, d = DirOf(u)
  PROVE  /\ v.ok \in BOOLEAN /\ v.stuck \in BOOLEAN /\ (~w.use => v.ok) /\ Honest(v)
         /\ Disk(z, d) /\ Log(z, d) /\ Extends(u, d) /\ z.use = w.use /\ z.cur >= w.cur
         /\ z.spent = w.spent /\ z.spare = w.spare
         /\ z.total = IF w.use /\ (v.ok \/ v.stuck) THEN w.total + n ELSE w.total
         /\ \A g \in Files : \A k : Holds(z, g, k) <=> Holds(w, g, k) /\ ~(ok /\ k = j)
         /\ \A f, g \in Files : Listed(w, f) /\ ~Listed(z, f) /\ Listed(z, g) => f < g
<1>1. Disk(w, dir) /\ Log(w, dir)
  BY DEF FilesInv
<1>2. /\ Fit(v) /\ v.list = w.list /\ v.spent = w.spent /\ v.spare = w.spare
      /\ v.ok \in BOOLEAN /\ v.stuck \in BOOLEAN
      /\ v.total = IF w.use /\ (v.ok \/ v.stuck) THEN w.total + n ELSE w.total
      /\ ~w.use => v.ok
      /\ v.cur >= w.cur /\ Honest(v)
  BY <1>1, Reserving
<1>3. \A f, g \in Files : Listed(w, f) /\ ~Listed(v, f) /\ Listed(v, g) => f < g
  BY <1>1, Reserving
<1> DEFINE vok == v.ok
           vstuck == v.stuck
<1>4. /\ Fit(u) /\ u.total = v.total /\ u.spent = v.spent /\ u.spare = v.spare /\ u.cur = v.cur
      /\ \A g \in Files : \A k : Holds(u, g, k) <=> Holds(v, g, k) /\ ~(ok /\ k = j)
      /\ \A f \in Files : Listed(u, f) => Listed(v, f)
      /\ \A f, g \in Files : Listed(v, f) /\ ~Listed(u, f) /\ Listed(u, g) => f < g
  <2>1. CASE ok
    <3>1. Fit(u) /\ Removed(v, j, u)
      BY <1>1, <1>2, <2>1, FitRemoved
    <3> QED BY <2>1, <3>1 DEF Removed, Frame, Collects
  <2>2. CASE ~ok
    BY <1>2, <2>2
  <2> QED BY <2>1, <2>2
<1>5. Disk(z, d) /\ Log(z, d) /\ Extends(u, d)
  BY <1>1, <1>4, FitNext
<1>6. u \in WalRec /\ Chain(u)
  BY <1>4 DEF Fit, Chain
<1>7. /\ z.use = u.use /\ z.list = u.list /\ z.total = u.total /\ z.spent = u.spent
      /\ z.spare = u.spare /\ z.cur = u.cur
  BY <1>6, SettledFields
<1>8. \A f \in Files : Listed(z, f) <=> Listed(u, f)
  BY <1>6, SettledChain
<1>9. z.use = w.use
  BY <1>4, <1>7 DEF Fit
<1>10. \A g \in Files : \A k : Holds(z, g, k) <=> Holds(w, g, k) /\ ~(ok /\ k = j)
  <2>1. \A g \in Files : \A k : Holds(v, g, k) <=> Holds(w, g, k)
    BY <1>2 DEF Holds
  <2>2. \A g \in Files : \A k : Holds(z, g, k) <=> Holds(u, g, k)
    BY <1>7 DEF Holds
  <2> QED BY <1>4, <2>1, <2>2
<1>11. \A f, g \in Files : Listed(w, f) /\ ~Listed(z, f) /\ Listed(z, g) => f < g
  BY <1>3, <1>4, <1>8
<1>12. z.spent = w.spent /\ z.spare = w.spare /\ z.total = v.total /\ z.cur >= w.cur
  BY <1>2, <1>4, <1>7
<1> QED BY <1>2, <1>5, <1>9, <1>10, <1>11, <1>12

\* moveOne, when it takes a job.
LEMMA MoveOneIs ==
  ASSUME FilesInv, NEW room \in Rooms, Moves(room)
  PROVE  \/ /\ pc = "compact" /\ run' = [run EXCEPT !.left = 0]
            /\ UNCHANGED <<w, dir, pc, faults, jobs, nextId, rd, answer, acked, gone, cmds>>
         \/ \E j, v, u : MoveFacts(j, v, u)
<1> DEFINE h == HeadFile(w)
           near == w.cur \in ToSet(w.files) /\ PosOf(w, w.cur) <= 2
           stay == near \/ w.list[h] = <<>>
           j == w.list[h][1]
           n == walResvMigrate(jobs[j].kind)
           v == reserve([w EXCEPT !.room = room], n)
           u == IF v.ok THEN FileRmJob(v, j) ELSE v
<1>1. /\ pc = "compact" /\ run.left > 0 /\ w.files # <<>>
      /\ UNCHANGED <<jobs, nextId, rd, answer, acked, gone, cmds>>
      /\ IF stay
         THEN run' = [run EXCEPT !.left = 0] /\ UNCHANGED <<w, dir, pc, faults>>
         ELSE /\ SetWal(u) /\ Charge(v)
              /\ IF v.stuck THEN Hangs
                 ELSE /\ run' = [run EXCEPT !.left = @ - 1, !.moving = IF v.ok THEN j ELSE 0,
                                            !.need = n]
                      /\ pc' = IF v.ok THEN "write" ELSE pc
  BY DEF Moves, moveHead
<1> SUFFICES ASSUME ~stay PROVE MoveFacts(j, v, u)
  BY <1>1
<1>2. w \in WalRec /\ JobMap(jobs) /\ JobsInv /\ Running
  BY <1>1, Parts DEF Disk, Chain, Running
<1>3. h \in Files /\ h = w.files[1]
  <2>1. w.files \in Seq(Files)
    BY <1>2, WalFields
  <2> DEFINE s == w.files
  <2>2. s \in Seq(Files) /\ s # <<>>
    BY <1>1, <2>1
  <2>3. s[1] \in Files
    <3> HIDE DEF s
    <3> QED BY <2>2
  <2>4. h = s[1]
    BY DEF HeadFile
  <2> QED BY <2>3, <2>4
<1>4. w.list[h] # <<>> /\ w.list[h] \in Seq(Ids)
  BY <1>2, <1>3, FileFields
<1>5. j \in Ids /\ Holds(w, h, j)
  <2> DEFINE l == w.list[h]
  <2>1. l \in Seq(Ids) /\ l # <<>>
    BY <1>4
  <2>2. \E i \in DOMAIN l : l[i] = l[1]
    <3> HIDE DEF l
    <3> QED BY <2>1
  <2>3. l[1] \in Ids
    <3> HIDE DEF l
    <3> QED BY <2>1
  <2> QED BY <2>2, <2>3 DEF Holds
<1> HIDE DEF j
<1>6. InList(w, j) /\ j \in DOMAIN jobs
  BY <1>1, <1>2, <1>3, <1>5 DEF InList, JobsInv
<1>7. n \in Int
  BY <1>2, <1>6, JobFields, Numbers DEF walResvMigrate
<1>8. n = walResvMigrate(jobs[j].kind)
  OBVIOUS
<1> HIDE DEF n
<1> DEFINE ok == v.ok
           z == w'
           d == dir'
<1>9. v = reserve([w EXCEPT !.room = room], n)
  OBVIOUS
<1>10. u = IF ok THEN FileRmJob(v, j) ELSE v
  OBVIOUS
<1>11. z = Settled(u) /\ d = DirOf(u)
  BY <1>1 DEF SetWal
<1> HIDE DEF v, u, z, d, h
<1>12. v.ok \in BOOLEAN
  <2>1. Disk(w, dir) /\ Log(w, dir)
    BY <1>2 DEF FilesInv
  <2> QED BY <1>7, <1>9, <2>1, Reserving
<1>13. ok \in BOOLEAN /\ ok = v.ok
  BY <1>12
<1> HIDE DEF ok
<1>14. /\ v.ok \in BOOLEAN /\ v.stuck \in BOOLEAN /\ (~w.use => v.ok) /\ Honest(v)
       /\ Disk(z, d) /\ Log(z, d) /\ Extends(u, d) /\ z.use = w.use /\ z.cur >= w.cur
       /\ z.spent = w.spent /\ z.spare = w.spare
       /\ z.total = IF w.use /\ (v.ok \/ v.stuck) THEN w.total + n ELSE w.total
       /\ \A g \in Files : \A k : Holds(z, g, k) <=> Holds(w, g, k) /\ ~(ok /\ k = j)
       /\ \A f, g \in Files : Listed(w, f) /\ ~Listed(z, f) /\ Listed(z, g) => f < g
  BY <1>2, <1>5, <1>7, <1>9, <1>10, <1>11, <1>13, Taking
<1> QED BY <1>1, <1>3, <1>5, <1>6, <1>7, <1>8, <1>13, <1>14 DEF MoveFacts, z, d

-----------------------------------------------------------------------------
(* What is in the log, and what is reserved for it.                        *)

\* The jobs that are in the log.
Filed(v) == {j \in Ids : InList(v, j)}

\* What is reserved when nothing is under way.
Base(v) == Short * (Cardinality(Filed(v)) + v.spare - v.spent)

\* What the command has reserved for its own record.
Needed ==
  CASE run.op = "put" -> Short + Extra[jobs[run.job].kind] + Short
    [] run.op = "bury" -> Short
    [] OTHER -> 0

\* The jobs that recovery knows are in the log, and nothing is reserved before the replay; that
\* reserves for one job after the other.
RecoveryLog ==
  /\ pc = "read" => w.total = 0 /\ w.spent = 0 /\ w.spare = 0
  /\ pc = "replay" => /\ w.spent = 0 /\ w.spare = 0
                      /\ \A i, k \in DOMAIN rd.list : rd.list[i] = rd.list[k] => i = k
                      /\ \A i \in DOMAIN rd.list : rd.list[i] \in DOMAIN jobs
                      /\ w.total = Short * Cardinality(Filed(w) \ ToSet(rd.list))
  /\ pc \in {"read", "replay"} => \A j \in DOMAIN jobs : InList(w, j)

\* While the log is in use, a job that a client can name is in a file, but for the one whose
\* first record is not written yet and the one whose last record is.
PlacedLog ==
  Running /\ pc # "hung" /\ w.use =>
    \A j \in DOMAIN jobs : jobs[j].where # {} =>
      \/ InList(w, j) \/ j = run.moving
      \/ j = run.job /\ (run.op = "delete" \/ (run.op = "put" /\ pc = "write" /\ run.moving = 0))

\* The command's own record: a put writes a full one, the others short ones.
OwnLog ==
  pc = "write" /\ w.use /\ run.moving = 0 =>
    /\ run.op = "put" <=> ~InList(w, run.job)
    /\ run.op = "delete" <=> jobs[run.job].st = "invalid"
    /\ w.total = Base(w) + Needed

\* The record of a job that moves is a full one, and a job that is deleted does not move.
MovingLog ==
  w.use /\ run.moving # 0 =>
    /\ pc = "write" => /\ ~InList(w, run.moving)
                       /\ w.total = Base(w) + Short + Short + Extra[jobs[run.moving].kind]
    /\ run.op = "delete" => ~InList(w, run.job) /\ run.moving # run.job

RestLog ==
  /\ pc = "body" => /\ InList(w, Subject) /\ (run.moving = 0 => run.op = "put")
                    /\ w.total = Base(w) + Extra[jobs[Subject].kind]
  /\ pc = "compact" /\ w.use => /\ w.total = Base(w)
                                /\ run.op = "delete" => ~InList(w, run.job)
  /\ pc = "idle" /\ w.use => w.total = Base(w)

LogInv == RecoveryLog /\ PlacedLog /\ OwnLog /\ MovingLog /\ RestLog

\* The number of rounds is a natural, and none when the log is out of use.
LEMMA MoveRoundsNat ==
  ASSUME NEW v \in WalRec
  PROVE  MoveRounds(v) \in Nat /\ (~v.use => MoveRounds(v) = 0)
<1> DEFINE d == v.alive + v.total
           m == Len(v.files) * FileSize - d
<1>1. d \in Int /\ Len(v.files) \in Nat /\ FileSize \in Nat
  BY WalFields, Numbers
<1>2. m \in Int
  <2> DEFINE a == Len(v.files)
  <2>1. a \in Nat
    BY <1>1
  <2> HIDE DEF a, d
  <2>2. a * FileSize \in Nat
    BY <1>1, <2>1
  <2> QED BY <1>1, <2>2 DEF a
<1>3. ratio(v) = IF d <= 0 THEN 0 ELSE m \div d
  BY DEF ratio
<1> HIDE DEF d, m
<1>4. ratio(v) \in Int
  <2>1. d > 0 => m \div d \in Int
    BY <1>1, <1>2
  <2> QED BY <1>1, <1>3, <2>1
<1> QED BY <1>4 DEF MoveRounds

\* What Compacting leaves to do.
LEMMA CompactingFields ==
  ASSUME run \in RunRec, NEW v \in WalRec, Compacting(v)
  PROVE  /\ pc' = "compact" /\ run' \in RunRec /\ run'.op = run.op /\ run'.job = run.job
         /\ run'.moving = 0 /\ jobs' = jobs /\ answer' = answer
         /\ run'.left = IF run.moving = 0 THEN MoveRounds(v) ELSE run.left
<1> DEFINE n == MoveRounds(v)
<1>1. n \in Nat
  BY MoveRoundsNat
<1>2. /\ pc' = "compact" /\ jobs' = jobs /\ answer' = answer
      /\ run' = IF run.moving = 0 THEN [run EXCEPT !.left = n] ELSE [run EXCEPT !.moving = 0]
  BY DEF Compacting
<1> HIDE DEF n
<1>3. CASE run.moving = 0
  BY <1>1, <1>2, <1>3 DEF RunRec, n
<1>4. CASE run.moving # 0
  <2>1. 0 \in 0..MaxJobs
    BY Numbers
  <2> QED BY <1>2, <1>4, <2>1 DEF RunRec
<1> QED BY <1>3, <1>4

\* WriteNothing.
LEMMA WriteNothingKeeps ==
  ASSUME FilesInv, WriteNothing
  PROVE  FilesInv'
<1>1. /\ pc = "write" /\ ~w.use /\ Compacting(w) /\ Expose(InHand)
      /\ UNCHANGED <<w, dir, nextId, rd, faults, cmds>>
  BY DEF WriteNothing
<1>2. /\ w \in WalRec /\ run \in RunRec /\ JobMap(jobs) /\ rd \in CursorRec /\ ClientTypes /\ JobsInv
      /\ nextId \in 1..(MaxJobs + 1) /\ (\A k \in DOMAIN jobs : k < nextId)
      /\ (\A k \in Ids : InList(w, k) => k < nextId) /\ RunInv /\ Disk(w, dir)
  BY Parts DEF Disk, Chain
<1>3. Running /\ Log(w, dir)
  BY <1>1 DEF Running, FilesInv
<1>4. /\ pc' = "compact" /\ run' \in RunRec /\ run'.op = run.op /\ run'.job = run.job
      /\ run'.moving = 0 /\ jobs' = jobs
      /\ run'.left = IF run.moving = 0 THEN MoveRounds(w) ELSE run.left
  BY <1>1, <1>2, CompactingFields
<1>5. run'.left > 0 => run.left > 0
  <2>1. MoveRounds(w) = 0
    BY <1>1, <1>2, MoveRoundsNat
  <2> QED BY <1>4, <2>1
<1>6. Disk(w', dir') /\ Log(w', dir')
  BY <1>1, <1>2, <1>3
<1>7. ClientTypes'
  <2>1. InHand \in SUBSET Ids
    BY InHandIds
  <2>2. faults' \in 0..MaxFaults
    BY <1>1, <1>2 DEF ClientTypes
  <2> QED BY <1>1, <1>2, <2>1, <2>2, ExposeTypes
<1>8. run'.job \in DOMAIN jobs' /\ run'.op # "none"
  BY <1>1, <1>2, <1>3, <1>4 DEF RunInv
<1>9. w'.use \/ run'.left > 0 => \A k \in Ids : InList(w', k) => k \in DOMAIN jobs'
  BY <1>1, <1>2, <1>4, <1>5 DEF JobsInv
<1>10. \A k \in Ids : InList(w', k) => k < nextId'
  BY <1>1, <1>2
<1>11. JobMap(jobs') /\ nextId' \in 1..(MaxJobs + 1) /\ (\A k \in DOMAIN jobs' : k < nextId')
       /\ rd' \in CursorRec
  BY <1>1, <1>2, <1>4
<1> QED BY <1>3, <1>4, <1>6, <1>7, <1>8, <1>9, <1>10, <1>11, KeepRunning

\* The head of a full record is written: its body is next.
LEMMA BodyNext ==
  ASSUME FilesInv, pc = "write", Disk(w', dir'), Log(w', dir'), pc' = "body", w'.use,
         UNCHANGED <<jobs, run, nextId, rd>>, ClientTypes',
         \A k \in Ids : InList(w', k) => k \in DOMAIN jobs,
         NEW s, s = dir'[w'.cur].recs, s # <<>>,
         IsFull(s[Len(s)]), ~s[Len(s)].body, s[Len(s)].id = Subject,
         s[Len(s)].kind = jobs[Subject].kind
  PROVE  FilesInv'
<1>1. /\ JobMap(jobs) /\ nextId \in 1..(MaxJobs + 1) /\ (\A k \in DOMAIN jobs : k < nextId)
      /\ run \in RunRec /\ rd \in CursorRec /\ RunInv
  BY Parts
<1>2. JobTypes'
  BY <1>1 DEF JobTypes, JobMap
<1>3. DownInv' /\ ReadInv' /\ JobsInv'
  BY DEF DownInv, ReadInv, JobsInv
<1>4. RunInv'
  BY <1>1 DEF RunInv, Running, Subject
<1>5. BodyInv'
  BY DEF BodyInv, Subject
<1> QED BY <1>2, <1>3, <1>4, <1>5 DEF FilesInv

\* What the server works on while it does.
LEMMA WorkFacts ==
  ASSUME FilesInv, pc \in {"write", "body", "compact"}
  PROVE  /\ w \in WalRec /\ run \in RunRec /\ JobMap(jobs) /\ rd \in CursorRec /\ ClientTypes
         /\ nextId \in 1..(MaxJobs + 1) /\ (\A k \in DOMAIN jobs : k < nextId)
         /\ (\A k \in Ids : InList(w, k) => k < nextId) /\ RunInv /\ JobsInv /\ Running
         /\ run.job \in DOMAIN jobs /\ run.op # "none" /\ faults \in 0..MaxFaults /\ DirTypes
         /\ Disk(w, dir) /\ Log(w, dir)
<1>1. /\ w \in WalRec /\ run \in RunRec /\ JobMap(jobs) /\ rd \in CursorRec /\ ClientTypes
      /\ nextId \in 1..(MaxJobs + 1) /\ (\A k \in DOMAIN jobs : k < nextId)
      /\ (\A k \in Ids : InList(w, k) => k < nextId) /\ RunInv /\ JobsInv /\ DirTypes
      /\ Disk(w, dir)
  BY Parts DEF Disk, Chain, DirTypes
<1>2. Running /\ Log(w, dir)
  BY DEF Running, FilesInv
<1> QED BY <1>1, <1>2 DEF RunInv, ClientTypes

\* The step of WalWrite that writes a record.
LEMMA RecordKeeps ==
  ASSUME FilesInv, pc = "write", w.use, NEW v, NEW b, NEW full \in BOOLEAN, WriteFacts(v, b, full)
  PROVE  FilesInv'
<1>1. /\ run \in RunRec /\ JobMap(jobs) /\ rd \in CursorRec /\ ClientTypes
      /\ nextId \in 1..(MaxJobs + 1) /\ (\A k \in DOMAIN jobs : k < nextId)
      /\ RunInv /\ JobsInv /\ Running
      /\ run.job \in DOMAIN jobs /\ run.op # "none" /\ faults \in 0..MaxFaults /\ DirTypes
  BY WorkFacts
<1>2. Subject \in DOMAIN jobs /\ Subject \in Ids /\ jobs[Subject].kind \in Kinds
  BY SubjectIs
<1>3. /\ Disk(w', dir') /\ Log(w', dir') /\ w'.use /\ w'.cur = v.cur /\ Expose(Lost(v))
      /\ UNCHANGED <<nextId, rd, faults, cmds>>
      /\ Recorded(v, DirOf(v), b, SubjectRec(full), dir') /\ Turned(v, DirOf(v))
      /\ \A g \in Files : \A k : Holds(w', g, k) <=>
           IF full THEN Holds(w, g, k) \/ (g = v.cur /\ k = Subject)
                   ELSE Holds(w, g, k) /\ ~(SubjectGone /\ k = Subject)
      /\ IF full THEN pc' = "body" /\ UNCHANGED <<jobs, run, answer>> ELSE Compacting(b)
      /\ b \in WalRec
  BY DEF WriteFacts, Booked, Records, Writing, Chain
<1>4. \A k \in Ids : InList(w', k) => k \in DOMAIN jobs
  <2>1. \A k \in Ids : InList(w', k) => InList(w, k) \/ k = Subject
    BY <1>3 DEF InList
  <2> QED BY <1>1, <1>2, <2>1 DEF JobsInv
<1>5. ClientTypes'
  <2>1. Lost(v) \in SUBSET Ids
    BY <1>1, LostIds
  <2> QED BY <1>1, <1>3, <2>1, ExposeTypes
<1>6. CASE full
  <2> DEFINE s == dir'[w'.cur].recs
             q == DirOf(v)[v.cur].recs
             r == SubjectRec(full)
             d == DirOf(v)
  <2>1. s = Append(q, r)
    BY <1>3 DEF Recorded
  <2>2. q \in Seq(Recs)
    <3>1. v.cur \in DOMAIN d /\ d \in [DOMAIN d -> DirRec]
      BY <1>3 DEF Recorded, Turned, DirStep
    <3> HIDE DEF d
    <3>2. d[v.cur] \in DirRec
      BY <3>1
    <3>3. d[v.cur].recs \in Seq(Recs)
      BY <3>2 DEF DirRec
    <3> QED BY <3>3 DEF d
  <2>3. r.id = Subject /\ r.kind = jobs[Subject].kind /\ ~r.body
    BY <1>6 DEF SubjectRec, Rec
  <2>4. IsFull(r)
    BY <1>2, <2>3, SizesAssumption DEF IsFull
  <2> HIDE DEF s, q, r, d
  <2>5. s # <<>> /\ s[Len(s)] = r
    BY <2>1, <2>2
  <2>6. s = dir'[w'.cur].recs
    BY DEF s
  <2>7. pc' = "body" /\ UNCHANGED <<jobs, run, nextId, rd>>
    BY <1>3, <1>6
  <2>8. IsFull(s[Len(s)]) /\ ~s[Len(s)].body /\ s[Len(s)].id = Subject
        /\ s[Len(s)].kind = jobs[Subject].kind
    BY <2>3, <2>4, <2>5
  <2> QED BY <1>3, <1>4, <1>5, <2>5, <2>6, <2>7, <2>8, BodyNext
<1>7. CASE ~full
  <2>1. Compacting(b)
    BY <1>3, <1>7
  <2>2. /\ pc' = "compact" /\ run' \in RunRec /\ run'.op = run.op /\ run'.job = run.job
        /\ run'.moving = 0 /\ jobs' = jobs
    BY <1>1, <1>3, <2>1, CompactingFields
  <2>3. run'.job \in DOMAIN jobs' /\ run'.op # "none"
    BY <1>1, <2>2
  <2>4. JobMap(jobs') /\ nextId' \in 1..(MaxJobs + 1) /\ (\A k \in DOMAIN jobs' : k < nextId')
        /\ rd' \in CursorRec
    BY <1>1, <1>3, <2>2
  <2>5. \A k \in Ids : InList(w', k) => k < nextId'
    BY <1>1, <1>3, <1>4
  <2>6. \A k \in Ids : InList(w', k) => k \in DOMAIN jobs'
    BY <1>4, <2>2
  <2> QED BY <1>1, <1>3, <1>5, <2>2, <2>3, <2>4, <2>5, <2>6, KeepRunning
<1> QED BY <1>6, <1>7

\* WriteBody.
LEMMA WriteBodyKeeps ==
  ASSUME FilesInv, WriteBody
  PROVE  FilesInv'
<1>1. BodyFacts
  BY WriteBodyIs
<1>2. /\ pc = "body" /\ w.use /\ Disk(w', dir') /\ Log(w', dir') /\ w'.use /\ w'.list = w.list
      /\ UNCHANGED <<nextId, rd, acked, gone, faults, cmds>>
  BY <1>1 DEF BodyFacts
<1>3. PICK b \in WalRec : Compacting(b)
  BY <1>1 DEF BodyFacts
<1>4. /\ run \in RunRec /\ JobMap(jobs) /\ rd \in CursorRec /\ ClientTypes
      /\ nextId \in 1..(MaxJobs + 1) /\ (\A k \in DOMAIN jobs : k < nextId)
      /\ (\A k \in Ids : InList(w, k) => k < nextId) /\ RunInv /\ JobsInv /\ Running
      /\ run.job \in DOMAIN jobs /\ run.op # "none"
  BY <1>2, WorkFacts
<1>5. /\ pc' = "compact" /\ run' \in RunRec /\ run'.op = run.op /\ run'.job = run.job
      /\ run'.moving = 0 /\ jobs' = jobs
  BY <1>3, <1>4, CompactingFields
<1>6. ClientTypes'
  BY <1>2, <1>4 DEF ClientTypes
<1>7. \A k : InList(w', k) <=> InList(w, k)
  BY <1>2 DEF InList, Holds
<1>8. \A k \in Ids : InList(w', k) => k \in DOMAIN jobs' /\ k < nextId'
  BY <1>2, <1>4, <1>5, <1>7 DEF JobsInv
<1>9. JobMap(jobs') /\ nextId' \in 1..(MaxJobs + 1) /\ (\A k \in DOMAIN jobs' : k < nextId')
      /\ rd' \in CursorRec /\ run'.job \in DOMAIN jobs' /\ run'.op # "none"
  BY <1>2, <1>4, <1>5
<1> QED BY <1>2, <1>4, <1>5, <1>6, <1>8, <1>9, KeepRunning

\* What Failed does to the jobs.
LEMMA FailedFields ==
  ASSUME FilesInv, pc \in {"write", "body"}, NEW S, Failed(S)
  PROVE  /\ pc' = "idle" /\ run' = NoRun /\ JobMap(jobs') /\ DOMAIN jobs' \subseteq DOMAIN jobs
         /\ Expose(S)
<1> DEFINE j == run.job
           c == jobs[j].where \cup {"buried"}
<1>1. JobMap(jobs) /\ j \in DOMAIN jobs
  BY WorkFacts
<1>2. jobs[j].where \subseteq States
  BY <1>1, JobFields
<1>3. c \in SUBSET States /\ "buried" \in States
  BY <1>2 DEF States
<1>4. /\ pc' = "idle" /\ run' = NoRun /\ Expose(S)
      /\ jobs' \in {Without(j), jobs, Place(j, "buried", c)}
  BY DEF Failed, Answer
<1> HIDE DEF j, c
<1>5. JobMap(Without(j)) /\ DOMAIN Without(j) \subseteq DOMAIN jobs
  BY <1>1, WithoutFields
<1>6. JobMap(Place(j, "buried", c)) /\ DOMAIN Place(j, "buried", c) = DOMAIN jobs
  BY <1>1, <1>3, PlaceFields
<1>7. jobs' = Without(j) \/ jobs' = jobs \/ jobs' = Place(j, "buried", c)
  BY <1>4
<1>8. CASE jobs' = Without(j)
  BY <1>4, <1>5, <1>8
<1>9. CASE jobs' = jobs
  BY <1>1, <1>4, <1>9
<1>10. CASE jobs' = Place(j, "buried", c)
  BY <1>4, <1>6, <1>10
<1> QED BY <1>7, <1>8, <1>9, <1>10

\* LogOff.
LEMMA LogOffKeeps ==
  ASSUME FilesInv, pc \in {"write", "body"}, w.use, NEW u, Aimed(u), LogOff(u),
         UNCHANGED <<nextId, rd, cmds>>, faults' \in 0..MaxFaults
  PROVE  FilesInv'
<1>1. PICK v : LogOffFacts(v)
  BY LogOffIs
<1>2. /\ run \in RunRec /\ JobMap(jobs) /\ rd \in CursorRec /\ ClientTypes
      /\ nextId \in 1..(MaxJobs + 1) /\ (\A k \in DOMAIN jobs : k < nextId)
      /\ (\A k \in Ids : InList(w, k) => k < nextId) /\ RunInv /\ JobsInv /\ Running
      /\ run.job \in DOMAIN jobs /\ run.op # "none" /\ DirTypes
  BY WorkFacts
<1>3. /\ Disk(w', dir') /\ Log(w', dir') /\ ~w'.use
      /\ \A g \in Files : \A k : Holds(w', g, k) => Holds(w, g, k) \/ k = Subject
      /\ IF run.moving = 0 THEN Failed(Lost(v))
         ELSE /\ pc' = "compact" /\ run' = [run EXCEPT !.moving = 0]
              /\ Expose(Lost(v) \cup InHand)
              /\ UNCHANGED <<jobs, answer>>
  BY <1>1 DEF LogOffFacts
<1>4. Lost(v) \in SUBSET Ids /\ InHand \in SUBSET Ids
  BY <1>2, LostIds, InHandIds
<1>5. /\ \A k : InList(w', k) => InList(w, k) \/ k = Subject
      /\ Subject \in DOMAIN jobs /\ Subject < nextId
  BY <1>3, SubjectIs DEF InList
<1>6. \A k \in Ids : InList(w', k) => k < nextId'
  BY <1>2, <1>5
<1>7. nextId' \in 1..(MaxJobs + 1) /\ rd' \in CursorRec
  BY <1>2
<1>8. CASE run.moving = 0
  <2>1. /\ pc' = "idle" /\ run' = NoRun /\ JobMap(jobs') /\ DOMAIN jobs' \subseteq DOMAIN jobs
        /\ Expose(Lost(v))
    BY <1>3, <1>8, FailedFields
  <2>2. ClientTypes'
    BY <1>2, <1>4, <2>1, ExposeTypes
  <2>3. run' \in RunRec /\ run'.left = 0
    BY <2>1, NoRunFields
  <2>4. \A k \in DOMAIN jobs' : k < nextId'
    BY <1>2, <2>1
  <2>5. ~(run'.left > 0)
    BY <2>3
  <2> QED BY <1>2, <1>3, <1>6, <1>7, <2>1, <2>2, <2>3, <2>4, <2>5, KeepRunning
<1>9. CASE run.moving # 0
  <2>1. /\ pc' = "compact" /\ run' = [run EXCEPT !.moving = 0] /\ Expose(Lost(v) \cup InHand)
        /\ jobs' = jobs
    BY <1>3, <1>9
  <2>2. ClientTypes'
    <3>1. Lost(v) \cup InHand \in SUBSET Ids
      BY <1>4
    <3> QED BY <1>2, <2>1, <3>1, ExposeTypes
  <2>3. run' \in RunRec /\ run'.moving = 0 /\ run'.left = run.left /\ run'.op = run.op
        /\ run'.job = run.job
    <3>1. 0 \in 0..MaxJobs
      BY Numbers
    <3> QED BY <1>2, <2>1, <3>1 DEF RunRec
  <2>4. w'.use \/ run'.left > 0 => \A k \in Ids : InList(w', k) => k \in DOMAIN jobs'
    BY <1>2, <1>3, <1>5, <2>1, <2>3 DEF JobsInv
  <2>5. /\ JobMap(jobs') /\ (\A k \in DOMAIN jobs' : k < nextId')
        /\ run'.job \in DOMAIN jobs' /\ run'.op # "none"
    BY <1>2, <2>1, <2>3
  <2> QED BY <1>2, <1>3, <1>6, <1>7, <2>1, <2>2, <2>3, <2>4, <2>5, KeepRunning
<1> QED BY <1>8, <1>9

\* WriteError turns the log off.
LEMMA WriteErrorIs ==
  ASSUME FilesInv, WriteError
  PROVE  /\ pc \in {"write", "body"} /\ w.use /\ faults' = faults + 1
         /\ \E u : Aimed(u) /\ LogOff(u)
<1> DEFINE v == IF pc = "write" THEN Entered(ToWrite) ELSE w
<1>1. pc \in {"write", "body"} /\ w.use /\ faults' = faults + 1 /\ v.ok /\ LogOff(v)
  BY DEF WriteError
<1>2. Aimed(v)
  <2>1. CASE pc = "write"
    <3>1. ToWrite.ok
      <4>1. Entered(ToWrite) = ToWrite
            \/ Entered(ToWrite) = [ToWrite EXCEPT !.list[ToWrite.cur] = Append(@, Subject)]
        BY DEF Entered, FileAddJob
      <4>2. Entered(ToWrite).ok
        BY <1>1, <2>1
      <4>3. [ToWrite EXCEPT !.list[ToWrite.cur] = Append(@, Subject)].ok = ToWrite.ok
        <5>1. ToWrite \in WalRec
          BY <1>1, <2>1, ToWriteType
        <5> QED BY <5>1 DEF WalRec
      <4> QED BY <4>1, <4>2, <4>3
    <3>2. v = Entered(ToWrite)
      BY <2>1
    <3> HIDE DEF v
    <3> QED BY <1>1, <2>1, <3>1, <3>2, AimWrite
  <2>2. CASE pc = "body"
    <3>1. v = w
      BY <2>2
    <3> HIDE DEF v
    <3> QED BY <1>1, <3>1, AimHere
  <2> QED BY <1>1, <2>1, <2>2
<1> HIDE DEF v
<1> QED BY <1>1, <1>2

\* WriteError.
LEMMA WriteErrorKeeps ==
  ASSUME FilesInv, WriteError
  PROVE  FilesInv'
<1>1. /\ pc \in {"write", "body"} /\ w.use /\ UNCHANGED <<nextId, rd, cmds>>
      /\ faults < MaxFaults /\ faults' = faults + 1
  BY WriteErrorIs DEF WriteError
<1>4. PICK u : Aimed(u) /\ LogOff(u)
  BY WriteErrorIs
<1>2. faults \in 0..MaxFaults
  BY <1>1, WorkFacts
<1>3. faults' \in 0..MaxFaults
  BY <1>1, <1>2, Numbers
<1> QED BY <1>1, <1>3, <1>4, LogOffKeeps

\* WalWrite.
LEMMA WalWriteKeeps ==
  ASSUME FilesInv, WalWrite
  PROVE  FilesInv'
<1>1. pc = "write" /\ w.use
  BY WalWriteIs
<1>2. CASE LogOff(w) /\ UNCHANGED <<nextId, rd, faults, cmds>>
  <2>1. faults' \in 0..MaxFaults
    BY <1>1, <1>2, WorkFacts
  <2>2. Aimed(w)
    BY <1>1, AimHere
  <2> QED BY <1>1, <1>2, <2>1, <2>2, LogOffKeeps
<1>3. CASE \E v, b : \E full \in BOOLEAN : WriteFacts(v, b, full)
  BY <1>1, <1>3, RecordKeeps
<1> QED BY <1>2, <1>3, WalWriteIs

\* moveOne.
LEMMA MoveOneKeeps ==
  ASSUME FilesInv, NEW room \in Rooms, Moves(room)
  PROVE  FilesInv'
<1>0. pc = "compact"
  BY DEF Moves
<1>1. /\ run \in RunRec /\ JobMap(jobs) /\ rd \in CursorRec /\ ClientTypes
      /\ nextId \in 1..(MaxJobs + 1) /\ (\A k \in DOMAIN jobs : k < nextId)
      /\ (\A k \in Ids : InList(w, k) => k < nextId) /\ RunInv /\ JobsInv /\ Running
      /\ run.job \in DOMAIN jobs /\ run.op # "none"
      /\ Disk(w, dir) /\ Log(w, dir)
  BY <1>0, WorkFacts
<1>2. run.moving = 0
  BY <1>0, <1>1 DEF RunInv
<1>3. ASSUME run' = [run EXCEPT !.left = 0],
             UNCHANGED <<w, dir, pc, faults, jobs, nextId, rd, answer, acked, gone, cmds>>
      PROVE  FilesInv'
  <2>1. run' \in RunRec /\ run'.left = 0 /\ run'.op = run.op /\ run'.job = run.job /\ run'.moving = 0
    BY <1>1, <1>2, <1>3 DEF RunRec
  <2>2. Disk(w', dir') /\ Log(w', dir') /\ ClientTypes'
    BY <1>1, <1>3 DEF ClientTypes
  <2>3. w'.use \/ run'.left > 0 => \A k \in Ids : InList(w', k) => k \in DOMAIN jobs'
    <3>1. ~(run'.left > 0)
      BY <2>1
    <3> QED BY <1>1, <1>3, <3>1 DEF JobsInv
  <2>4. \A k \in Ids : InList(w', k) => k < nextId'
    BY <1>1, <1>3
  <2>5. /\ pc' = "compact" /\ JobMap(jobs') /\ nextId' \in 1..(MaxJobs + 1)
        /\ (\A k \in DOMAIN jobs' : k < nextId') /\ rd' \in CursorRec
        /\ run'.job \in DOMAIN jobs' /\ run'.op # "none"
    BY <1>0, <1>1, <1>3, <2>1
  <2> QED BY <1>1, <2>1, <2>2, <2>3, <2>4, <2>5, KeepRunning
<1>4. ASSUME NEW j, NEW v, NEW u, MoveFacts(j, v, u)
      PROVE  FilesInv'
  <2> DEFINE n == walResvMigrate(jobs[j].kind)
             q == IF v.ok THEN j ELSE 0
  <2>1. /\ run.left > 0 /\ j \in DOMAIN jobs /\ j \in Ids /\ n \in Int
        /\ Disk(w', dir') /\ Log(w', dir') /\ Charge(v)
        /\ \A g \in Files : \A k : Holds(w', g, k) <=> Holds(w, g, k) /\ ~(v.ok /\ k = j)
        /\ IF v.stuck THEN Hangs
           ELSE /\ run' = [run EXCEPT !.left = @ - 1, !.moving = q, !.need = n]
                /\ pc' = IF v.ok THEN "write" ELSE pc
        /\ UNCHANGED <<jobs, nextId, rd, answer, acked, gone, cmds>>
    BY <1>4 DEF MoveFacts
  <2>2. \A k \in Ids : InList(w', k) => InList(w, k)
    BY <2>1 DEF InList
  <2>3. ClientTypes'
    <3>1. faults' \in 0..MaxFaults
      BY <1>1, <2>1, ChargeFields
    <3> QED BY <1>1, <2>1, <3>1 DEF ClientTypes
  <2>4. \A k \in Ids : InList(w', k) => k \in DOMAIN jobs' /\ k < nextId'
    BY <1>1, <2>1, <2>2 DEF JobsInv
  <2>5. /\ JobMap(jobs') /\ nextId' \in 1..(MaxJobs + 1)
        /\ (\A k \in DOMAIN jobs' : k < nextId') /\ rd' \in CursorRec
    BY <1>1, <2>1
  <2>6. CASE v.stuck
    <3>1. pc' = "hung" /\ run' = run
      BY <2>1, <2>6 DEF Hangs
    <3> QED BY <1>1, <2>1, <2>3, <2>4, <2>5, <3>1, KeepRunning
  <2>7. CASE ~v.stuck
    <3>1. /\ run' = [run EXCEPT !.left = @ - 1, !.moving = q, !.need = n]
          /\ pc' = IF v.ok THEN "write" ELSE pc
      BY <2>1, <2>7
    <3>2. q \in 0..MaxJobs /\ run.left - 1 \in Nat
      <4>1. j \in 0..MaxJobs /\ 0 \in 0..MaxJobs
        BY <2>1, Numbers DEF Ids
      <4>2. run.left \in Nat
        BY <1>1, RunFields
      <4> QED BY <2>1, <4>1, <4>2
    <3> HIDE DEF q, n
    <3>3. run' \in RunRec /\ run'.op = run.op /\ run'.job = run.job /\ run'.moving = q
      BY <1>1, <2>1, <3>1, <3>2 DEF RunRec
    <3>4. q # 0 => q \in DOMAIN jobs'
      BY <2>1 DEF q
    <3>5. pc' = "write" \/ (pc' = "compact" /\ q = 0)
      BY <1>0, <3>1 DEF q
    <3>6. run'.job \in DOMAIN jobs' /\ run'.op # "none"
      BY <1>1, <2>1, <3>3
    <3> QED BY <1>1, <2>1, <2>3, <2>4, <2>5, <3>3, <3>4, <3>5, <3>6, KeepRunning
  <2> QED BY <2>6, <2>7
<1> QED BY <1>3, <1>4, MoveOneIs

\* What clients may rely on, with one job more.
LEMMA PromiseTypes ==
  ASSUME acked \in [DOMAIN acked -> Told], DOMAIN acked \subseteq Ids,
         NEW j \in Ids, NEW what \in Told, NEW a, a = Promise(j, what)
  PROVE  /\ DOMAIN a \subseteq Ids /\ a \in [DOMAIN a -> Told]
         /\ DOMAIN a = DOMAIN acked \cup {j} /\ a[j] = what
         /\ \A k \in DOMAIN acked : k # j => a[k] = acked[k]
<1>1. a = [k \in DOMAIN acked \cup {j} |-> IF k = j THEN what ELSE acked[k]]
  BY DEF Promise
<1>2. DOMAIN a = DOMAIN acked \cup {j}
  BY <1>1
<1>3. \A k \in DOMAIN a : a[k] = IF k = j THEN what ELSE acked[k]
  BY <1>1
<1>4. \A k \in DOMAIN a : a[k] \in Told
  BY <1>2, <1>3
<1> QED BY <1>1, <1>2, <1>3, <1>4

\* What Finish leaves to the clients.
LEMMA FinishTypes ==
  ASSUME FilesInv, pc = "compact", Finish, UNCHANGED <<faults, cmds>>
  PROVE  ClientTypes'
<1>1. ClientTypes /\ run.job \in Ids
  BY WorkFacts DEF JobMap
<1> DEFINE j == run.job
<1>2. acked' = acked \/ \E what \in Told : acked' = Promise(j, what)
  <2>1. \/ acked' = acked
        \/ acked' = Promise(j, IF w.use THEN "live" ELSE "unlogged")
        \/ acked' = Promise(j, "buried")
        \/ acked' = Promise(j, "deleted")
    BY DEF Finish
  <2>2. (IF w.use THEN "live" ELSE "unlogged") \in Told /\ "buried" \in Told /\ "deleted" \in Told
    BY DEF Told
  <2> QED BY <2>1, <2>2
<1>3. gone' \in {gone, gone \cup {j}}
  BY DEF Finish
<1> HIDE DEF j
<1>4. gone' \subseteq Ids
  BY <1>1, <1>3 DEF ClientTypes, j
<1>5. DOMAIN acked' \subseteq Ids /\ acked' \in [DOMAIN acked' -> Told]
  <2>1. CASE acked' = acked
    BY <1>1, <2>1 DEF ClientTypes
  <2>2. ASSUME NEW what \in Told, acked' = Promise(j, what)
        PROVE  DOMAIN acked' \subseteq Ids /\ acked' \in [DOMAIN acked' -> Told]
    <3> DEFINE a == acked'
    <3>1. a = Promise(j, what) /\ j \in Ids
      BY <1>1, <2>2 DEF j
    <3>2. acked \in [DOMAIN acked -> Told] /\ DOMAIN acked \subseteq Ids
      BY <1>1 DEF ClientTypes
    <3> HIDE DEF a
    <3>3. DOMAIN a \subseteq Ids /\ a \in [DOMAIN a -> Told]
      BY <3>1, <3>2, PromiseTypes
    <3> QED BY <3>3 DEF a
  <2> QED BY <1>2, <2>1, <2>2
<1> QED BY <1>1, <1>4, <1>5 DEF ClientTypes

\* WalMainDone.
LEMMA WalMainDoneKeeps ==
  ASSUME FilesInv, LogInv, WalMainDone
  PROVE  FilesInv'
<1>1. /\ pc = "compact" /\ Finish /\ UNCHANGED <<w, dir, nextId, rd, faults, cmds>>
  BY DEF WalMainDone
<1>2. /\ run \in RunRec /\ JobMap(jobs) /\ rd \in CursorRec /\ ClientTypes
      /\ nextId \in 1..(MaxJobs + 1) /\ (\A k \in DOMAIN jobs : k < nextId)
      /\ (\A k \in Ids : InList(w, k) => k < nextId) /\ RunInv /\ JobsInv /\ Running
      /\ Disk(w, dir) /\ Log(w, dir)
  BY <1>1, WorkFacts
<1>3. ClientTypes'
  BY <1>1, FinishTypes
<1>4. /\ pc' = "idle" /\ run' = NoRun
      /\ jobs' = IF run.op = "delete" THEN Without(run.job) ELSE jobs
  BY <1>1 DEF Finish, Answer
<1>5. run' \in RunRec /\ run'.left = 0 /\ ~(run'.left > 0)
  BY <1>4, NoRunFields
<1>6. JobMap(jobs') /\ DOMAIN jobs' = IF run.op = "delete" THEN DOMAIN jobs \ {run.job} ELSE DOMAIN jobs
  BY <1>2, <1>4, WithoutFields
<1>7. w'.use => \A k \in Ids : InList(w', k) => k \in DOMAIN jobs'
  BY <1>1, <1>2, <1>6 DEF JobsInv, LogInv, RestLog
<1>8. /\ nextId' \in 1..(MaxJobs + 1) /\ (\A k \in DOMAIN jobs' : k < nextId') /\ rd' \in CursorRec
      /\ \A k \in Ids : InList(w', k) => k < nextId'
  BY <1>1, <1>2, <1>6
<1>9. Disk(w', dir') /\ Log(w', dir')
  BY <1>1, <1>2
<1> QED BY <1>2, <1>3, <1>4, <1>5, <1>6, <1>7, <1>8, <1>9, KeepRunning

\* The jobs in the log are finitely many.
LEMMA FiledFinite ==
  ASSUME NEW v
  PROVE  IsFiniteSet(Filed(v)) /\ Cardinality(Filed(v)) \in Nat
<1>1. IsFiniteSet(Ids)
  BY Numbers, FS_Interval DEF Ids
<1>2. Filed(v) \subseteq Ids
  BY DEF Filed
<1>3. IsFiniteSet(Filed(v))
  BY <1>1, <1>2, FS_Subset
<1> QED BY <1>3, FS_CardinalityType

\* What is reserved grows and shrinks by short records.
LEMMA BaseStep ==
  ASSUME NEW n \in Int
  PROVE  /\ Short * n \in Int
         /\ Short * (n + 1) = Short * n + Short
         /\ Short * (n - 1) = Short * n - Short
BY Numbers

\* What is reserved at rest is a number.
LEMMA BaseInt ==
  ASSUME NEW v \in WalRec
  PROVE  Base(v) \in Int
<1>1. Cardinality(Filed(v)) \in Int /\ v.spare \in Int /\ v.spent \in Int
  BY FiledFinite, WalFields
<1> DEFINE n == Cardinality(Filed(v)) + v.spare - v.spent
<1>2. n \in Int
  BY <1>1
<1> HIDE DEF n
<1>3. Short * n \in Int
  BY <1>2, BaseStep
<1> QED BY <1>3 DEF Base, n

\* The same jobs are in the log, one more, or one less.
LEMMA FiledSame ==
  ASSUME NEW v, NEW u, \A k \in Ids : InList(u, k) <=> InList(v, k)
  PROVE  Filed(u) = Filed(v)
BY DEF Filed

\* With one job more in the log,
LEMMA FiledMore ==
  ASSUME NEW v, NEW u, NEW j \in Ids, ~InList(v, j),
         \A k \in Ids : InList(u, k) <=> InList(v, k) \/ k = j
  PROVE  Cardinality(Filed(u)) = Cardinality(Filed(v)) + 1
<1>1. Filed(u) = Filed(v) \cup {j} /\ j \notin Filed(v)
  BY DEF Filed
<1> QED BY <1>1, FiledFinite, FS_AddElement

\* or one job less.
LEMMA FiledLess ==
  ASSUME NEW v, NEW u, NEW j \in Ids, InList(v, j),
         \A k \in Ids : InList(u, k) <=> InList(v, k) /\ k # j
  PROVE  Cardinality(Filed(u)) = Cardinality(Filed(v)) - 1
<1>1. ~InList(u, j) /\ \A k \in Ids : InList(v, k) <=> InList(u, k) \/ k = j
  OBVIOUS
<1>2. Cardinality(Filed(v)) = Cardinality(Filed(u)) + 1
  BY <1>1, FiledMore
<1> QED BY <1>2, FiledFinite

\* The same jobs need the same space.
LEMMA BaseSame ==
  ASSUME NEW v, NEW u, \A k \in Ids : InList(u, k) <=> InList(v, k),
         u.spare = v.spare, u.spent = v.spent
  PROVE  Base(u) = Base(v)
BY FiledSame DEF Base

\* A server at rest.
LEMMA IdleLog ==
  ASSUME pc' = "idle", run' = NoRun,
         w'.use => w'.total = Base(w') /\ \A j \in DOMAIN jobs' : jobs'[j].where # {} => InList(w', j)
  PROVE  LogInv'
BY NoRunFields DEF LogInv, RecoveryLog, PlacedLog, OwnLog, MovingLog, RestLog

\* What is reserved when nothing is under way.
LEMMA AtRest ==
  ASSUME FilesInv, LogInv, pc = "idle"
  PROVE  /\ run = NoRun /\ Running
         /\ w.use => w.total = Base(w) /\ \A j \in DOMAIN jobs : jobs[j].where # {} => InList(w, j)
<1>1. run = NoRun /\ Running
  BY DEF FilesInv, RunInv, Running
<1>2. \A j \in DOMAIN jobs : j # 0
  BY Parts, JobFields
<1> QED BY <1>1, <1>2, NoRunFields DEF LogInv, PlacedLog, RestLog

\* The process is gone.
LEMMA DiedLog ==
  ASSUME Died
  PROVE  LogInv'
BY NoRunFields DEF Died, LogInv, RecoveryLog, PlacedLog, OwnLog, MovingLog, RestLog, Running

\* A command goes on to WalWrite.
LEMMA WorkingLog ==
  ASSUME NEW op \in {"put", "delete", "bury", "release"}, NEW j \in Ids, NEW need \in Int,
         Working(op, j, need),
         w'.use =>
           /\ \A k \in DOMAIN jobs' : jobs'[k].where # {} =>
                InList(w', k) \/ (k = j /\ op \in {"put", "delete"})
           /\ op = "put" <=> ~InList(w', j)
           /\ op = "delete" <=> jobs'[j].st = "invalid"
           /\ w'.total = Base(w') + (CASE op = "put" -> Short + Extra[jobs'[j].kind] + Short
                                       [] op = "bury" -> Short
                                       [] OTHER -> 0)
  PROVE  LogInv'
<1>1. /\ pc' = "write" /\ run'.op = op /\ run'.job = j /\ run'.moving = 0
  BY WorkingFields
<1>2. RecoveryLog' /\ MovingLog' /\ RestLog'
  BY <1>1 DEF RecoveryLog, MovingLog, RestLog
<1>3. PlacedLog'
  BY <1>1 DEF PlacedLog
<1>4. OwnLog'
  BY <1>1 DEF OwnLog, Needed
<1> QED BY <1>2, <1>3, <1>4 DEF LogInv

\* The reservation does not return.
LEMMA HungLog ==
  ASSUME FilesInv, pc' = "hung", run' = run, jobs' = jobs, pc \in {"idle", "compact", "replay"}
  PROVE  LogInv'
<1>1. run.moving = 0
  BY NoRunFields DEF FilesInv, RunInv, Running
<1> QED BY <1>1 DEF LogInv, RecoveryLog, PlacedLog, OwnLog, MovingLog, RestLog

\* Put reserves for the record and for the delete to come.
LEMMA PutLog ==
  ASSUME FilesInv, LogInv, NEW kind \in Kinds, NEW delayed \in BOOLEAN, NEW room \in Rooms,
         Put(kind, delayed, room)
  PROVE  LogInv'
<1> DEFINE j == nextId
           st == IF delayed THEN "delayed" ELSE "ready"
           n == WalResvPut(kind)
           v == reserve([w EXCEPT !.room = room], n)
           N(s, c) == [k \in DOMAIN jobs \cup {j} |->
                         IF k = j THEN [st |-> s, kind |-> kind, good |-> TRUE, where |-> c]
                         ELSE jobs[k]]
<1>1. pc = "idle" /\ j \in Ids /\ SetWal(v)
  BY DEF Put, Command
<1>2. \/ v.stuck /\ Hangs
      \/ ~v.stuck /\ v.ok /\ jobs' = N(st, {st}) /\ Working("put", j, n)
      \/ ~v.stuck /\ ~v.ok /\ jobs' = N("invalid", {}) /\ Answer("OUT_OF_MEMORY")
  BY DEF Put
<1>3. n = Short + Extra[kind] + Short /\ n \in Int
  BY Numbers, SizesAssumption DEF WalResvPut
<1>4. /\ Running /\ run = NoRun
      /\ w.use => w.total = Base(w) /\ \A k \in DOMAIN jobs : jobs[k].where # {} => InList(w, k)
  BY <1>1, AtRest
<1>5. st # "invalid"
  OBVIOUS
<1> HIDE DEF n, st
<1>6. /\ w'.use = w.use /\ w'.spent = w.spent /\ w'.spare = w.spare
      /\ w'.total = IF w.use /\ (v.ok \/ v.stuck) THEN w.total + n ELSE w.total
      /\ \A k : InList(w', k) <=> InList(w, k)
  BY <1>1, <1>3, <1>4, ReserveNext
<1> HIDE DEF v
<1>7. Base(w') = Base(w) /\ ~InList(w', j)
  <2>1. ~InList(w, j)
    BY <1>1, Numbers, Parts DEF Ids
  <2> QED BY <1>6, <2>1, BaseSame
<1>8. ASSUME NEW s, NEW c, jobs' = N(s, c)
      PROVE  /\ jobs'[j].kind = kind /\ jobs'[j].st = s /\ jobs'[j].where = c
             /\ \A k \in DOMAIN jobs' : k = j \/ (k \in DOMAIN jobs /\ jobs'[k] = jobs[k])
  BY <1>8
<1> HIDE DEF N
<1>9. CASE v.stuck /\ Hangs
  BY <1>1, <1>9, HungLog DEF Hangs
<1>10. CASE ~v.stuck /\ v.ok /\ jobs' = N(st, {st}) /\ Working("put", j, n)
  <2>1. /\ jobs'[j].kind = kind /\ jobs'[j].st = st
        /\ \A k \in DOMAIN jobs' : k = j \/ (k \in DOMAIN jobs /\ jobs'[k] = jobs[k])
    BY <1>8, <1>10
  <2> DEFINE op == "put"
  <2>2. ASSUME w'.use
        PROVE  /\ \A k \in DOMAIN jobs' : jobs'[k].where # {} =>
                    InList(w', k) \/ (k = j /\ op \in {"put", "delete"})
               /\ op = "put" <=> ~InList(w', j)
               /\ op = "delete" <=> jobs'[j].st = "invalid"
               /\ w'.total = Base(w') + (CASE op = "put" -> Short + Extra[jobs'[j].kind] + Short
                                           [] op = "bury" -> Short
                                           [] OTHER -> 0)
    <3>1. w'.total = Base(w') + (Short + Extra[jobs'[j].kind] + Short)
      BY <1>3, <1>4, <1>6, <1>7, <1>10, <2>1, <2>2
    <3> QED BY <1>4, <1>5, <1>6, <1>7, <2>1, <2>2, <3>1
  <2>3. op \in {"put", "delete", "bury", "release"} /\ Working(op, j, n)
    BY <1>10
  <2> HIDE DEF op
  <2> QED BY <1>1, <1>3, <2>2, <2>3, WorkingLog
<1>11. CASE ~v.stuck /\ ~v.ok /\ jobs' = N("invalid", {}) /\ Answer("OUT_OF_MEMORY")
  <2>1. /\ jobs'[j].where = {}
        /\ \A k \in DOMAIN jobs' : k = j \/ (k \in DOMAIN jobs /\ jobs'[k] = jobs[k])
    BY <1>8, <1>11
  <2>2. pc' = "idle" /\ run' = NoRun
    BY <1>11 DEF Answer
  <2>3. ASSUME w'.use
        PROVE  w'.total = Base(w') /\ \A k \in DOMAIN jobs' : jobs'[k].where # {} => InList(w', k)
    BY <1>4, <1>6, <1>7, <1>11, <2>1, <2>3
  <2> QED BY <2>2, <2>3, IdleLog
<1> QED BY <1>2, <1>9, <1>10, <1>11

\* Reserve, Requeue, Delete and Release reserve nothing.
LEMMA TurnLog ==
  ASSUME FilesInv, LogInv, NEW j \in DOMAIN jobs,
         Reserve(j) \/ Requeue(j) \/ Delete(j) \/ Release(j)
  PROVE  LogInv'
<1>1. JobMap(jobs) /\ j \in Ids
  BY Parts, JobFields
<1>2. pc = "idle" /\ w' = w /\ jobs[j].where # {}
  BY <1>1, JobFields DEF Reserve, Requeue, Delete, Release, Command
<1>3. /\ Running /\ run = NoRun
      /\ w.use => w.total = Base(w) /\ \A k \in DOMAIN jobs : jobs[k].where # {} => InList(w, k)
  BY <1>2, AtRest
<1>4. ASSUME NEW st \in States, NEW c \in SUBSET States, jobs' = Place(j, st, c)
      PROVE  /\ DOMAIN jobs' = DOMAIN jobs /\ jobs'[j].st = st
             /\ w.use => InList(w, j) /\ \A k \in DOMAIN jobs' : jobs'[k].where # {} => InList(w, k)
  <2>1. DOMAIN jobs' = DOMAIN jobs /\ jobs'[j].st = st /\ \A k \in DOMAIN jobs : k # j => jobs'[k] = jobs[k]
    BY <1>1, <1>4, PlaceFields
  <2> QED BY <1>2, <1>3, <2>1
<1>5. jobs[j].where \subseteq States
  BY <1>1, JobFields
<1>6. CASE Reserve(j) \/ Requeue(j)
  <2>1. pc' = "idle" /\ run' = NoRun
    BY <1>2, <1>3, <1>6 DEF Reserve, Requeue
  <2>2. \E st \in States, c \in SUBSET States : jobs' = Place(j, st, c)
    <3>1. "reserved" \in States /\ "ready" \in States
      BY DEF States
    <3>2. (jobs[j].where \ {"ready"}) \cup {"reserved"} \in SUBSET States /\ {"ready"} \in SUBSET States
      BY <1>5, <3>1
    <3> QED BY <1>6, <3>1, <3>2 DEF Reserve, Requeue
  <2> QED BY <1>2, <1>3, <1>4, <2>1, <2>2, IdleLog
<1>7. ASSUME NEW op \in {"delete", "release"}, Working(op, j, 0), NEW st \in States,
             NEW c \in SUBSET States, jobs' = Place(j, st, c), op = "delete" <=> st = "invalid"
      PROVE  LogInv'
  <2>1. ASSUME w'.use
        PROVE  /\ \A k \in DOMAIN jobs' : jobs'[k].where # {} =>
                    InList(w', k) \/ (k = j /\ op \in {"put", "delete"})
               /\ op = "put" <=> ~InList(w', j)
               /\ op = "delete" <=> jobs'[j].st = "invalid"
               /\ w'.total = Base(w') + (CASE op = "put" -> Short + Extra[jobs'[j].kind] + Short
                                           [] op = "bury" -> Short
                                           [] OTHER -> 0)
    <3>1. Base(w) \in Int
      BY BaseInt DEF FilesInv, Disk, Chain
    <3>2. w'.total = Base(w') + 0
      BY <1>2, <1>3, <2>1, <3>1
    <3>3. DOMAIN jobs' = DOMAIN jobs /\ jobs'[j].st = st
          /\ InList(w, j) /\ \A k \in DOMAIN jobs' : jobs'[k].where # {} => InList(w, k)
      BY <1>2, <1>4, <1>7, <2>1
    <3> QED BY <1>2, <1>7, <3>2, <3>3
  <2>2. op \in {"put", "delete", "bury", "release"} /\ 0 \in Int
    OBVIOUS
  <2> QED BY <1>1, <1>7, <2>1, <2>2, WorkingLog
<1>8. CASE Delete(j)
  <2>1. Working("delete", j, 0) /\ jobs' = Place(j, "invalid", jobs[j].where \ {jobs[j].st})
    BY <1>8 DEF Delete
  <2>2. "invalid" \in States /\ jobs[j].where \ {jobs[j].st} \in SUBSET States
    BY <1>5 DEF States
  <2> QED BY <1>7, <2>1, <2>2
<1>9. CASE Release(j)
  <2>1. Working("release", j, 0) /\ jobs' = Place(j, "ready", {"ready"})
    BY <1>9 DEF Release
  <2>2. "ready" \in States /\ {"ready"} \in SUBSET States
    BY DEF States
  <2> QED BY <1>7, <2>1, <2>2
<1> QED BY <1>6, <1>8, <1>9

\* Bury reserves for its record.
LEMMA BuryLog ==
  ASSUME FilesInv, LogInv, NEW j \in DOMAIN jobs, NEW room \in Rooms, Bury(j, room)
  PROVE  LogInv'
<1> DEFINE n == WalResvUpdate
           v == reserve([w EXCEPT !.room = room], n)
<1>1. JobMap(jobs) /\ j \in Ids
  BY Parts, JobFields
<1>2. /\ pc = "idle" /\ jobs[j].where # {} /\ SetWal(v)
      /\ \/ v.stuck /\ Hangs
         \/ ~v.stuck /\ v.ok /\ Working("bury", j, n) /\ jobs' = Place(j, "buried", {"buried"})
         \/ ~v.stuck /\ ~v.ok /\ Answer("INTERNAL_ERROR") /\ jobs' = Place(j, "reserved", {})
  BY DEF Bury, Command
<1>3. n \in Int /\ n = Short
  BY Numbers DEF WalResvUpdate
<1>4. /\ Running /\ run = NoRun
      /\ w.use => w.total = Base(w) /\ \A k \in DOMAIN jobs : jobs[k].where # {} => InList(w, k)
  BY <1>2, AtRest
<1> HIDE DEF n
<1>5. /\ w'.use = w.use /\ w'.spent = w.spent /\ w'.spare = w.spare
      /\ w'.total = IF w.use /\ (v.ok \/ v.stuck) THEN w.total + n ELSE w.total
      /\ \A k : InList(w', k) <=> InList(w, k)
  BY <1>2, <1>3, <1>4, ReserveNext
<1> HIDE DEF v
<1>6. Base(w') = Base(w)
  BY <1>5, BaseSame
<1>7. ASSUME NEW st \in States, NEW c \in SUBSET States, jobs' = Place(j, st, c)
      PROVE  /\ DOMAIN jobs' = DOMAIN jobs /\ jobs'[j].st = st /\ jobs'[j].where = c
             /\ \A k \in DOMAIN jobs : k # j => jobs'[k] = jobs[k]
  BY <1>1, <1>7, PlaceFields
<1>8. CASE v.stuck /\ Hangs
  BY <1>2, <1>8, HungLog DEF Hangs
<1>9. CASE ~v.stuck /\ v.ok /\ Working("bury", j, n) /\ jobs' = Place(j, "buried", {"buried"})
  <2> DEFINE op == "bury"
  <2>1. "buried" \in States /\ {"buried"} \in SUBSET States
    BY DEF States
  <2>2. DOMAIN jobs' = DOMAIN jobs /\ jobs'[j].st = "buried" /\ \A k \in DOMAIN jobs : k # j => jobs'[k] = jobs[k]
    BY <1>7, <1>9, <2>1
  <2>3. ASSUME w'.use
        PROVE  /\ \A k \in DOMAIN jobs' : jobs'[k].where # {} =>
                    InList(w', k) \/ (k = j /\ op \in {"put", "delete"})
               /\ op = "put" <=> ~InList(w', j)
               /\ op = "delete" <=> jobs'[j].st = "invalid"
               /\ w'.total = Base(w') + (CASE op = "put" -> Short + Extra[jobs'[j].kind] + Short
                                           [] op = "bury" -> Short
                                           [] OTHER -> 0)
    <3>1. w'.total = Base(w') + Short
      BY <1>3, <1>4, <1>5, <1>6, <1>9, <2>3
    <3>2. InList(w', j)
      BY <1>2, <1>4, <1>5, <2>3
    <3> QED BY <1>4, <1>5, <2>2, <2>3, <3>1, <3>2
  <2>4. op \in {"put", "delete", "bury", "release"} /\ Working(op, j, n)
    BY <1>9
  <2> HIDE DEF op
  <2> QED BY <1>1, <1>3, <2>3, <2>4, WorkingLog
<1>10. CASE ~v.stuck /\ ~v.ok /\ Answer("INTERNAL_ERROR") /\ jobs' = Place(j, "reserved", {})
  <2>1. "reserved" \in States /\ {} \in SUBSET States
    BY DEF States
  <2>2. pc' = "idle" /\ run' = NoRun
    BY <1>10 DEF Answer
  <2>3. DOMAIN jobs' = DOMAIN jobs /\ jobs'[j].where = {} /\ \A k \in DOMAIN jobs : k # j => jobs'[k] = jobs[k]
    BY <1>7, <1>10, <2>1
  <2>4. w'.use => w'.total = Base(w') /\ \A k \in DOMAIN jobs' : jobs'[k].where # {} => InList(w', k)
    BY <1>4, <1>5, <1>6, <1>10, <2>3
  <2> QED BY <2>2, <2>4, IdleLog
<1> QED BY <1>2, <1>8, <1>9, <1>10

\* A reservation that nobody uses up.
LEMMA SpareFields ==
  ASSUME NEW v \in WalRec, NEW u, u = IF v.ok THEN [v EXCEPT !.spare = @ + 1] ELSE v
  PROVE  /\ u \in WalRec /\ u.list = v.list /\ u.total = v.total /\ u.spent = v.spent
         /\ u.use = v.use /\ u.spare = IF v.ok THEN v.spare + 1 ELSE v.spare
<1> DEFINE more == v.spare + 1
           x == [v EXCEPT !.spare = more]
<1>1. more \in Nat
  BY WalFields
<1> HIDE DEF more
<1>2. /\ x \in WalRec /\ x.list = v.list /\ x.total = v.total /\ x.spent = v.spent
      /\ x.use = v.use /\ x.spare = more
  BY <1>1 DEF WalRec
<1>3. u = IF v.ok THEN x ELSE v
  BY DEF more
<1> HIDE DEF x
<1> QED BY <1>2, <1>3 DEF more

\* ReleaseDelayed reserves what nobody writes: it is counted in spare.
LEMMA DelayLog ==
  ASSUME FilesInv, LogInv, NEW j \in DOMAIN jobs, NEW room \in Rooms, ReleaseDelayed(j, room)
  PROVE  LogInv'
<1> DEFINE n == WalResvUpdate
           v == reserve([w EXCEPT !.room = room], n)
           u == IF v.ok THEN [v EXCEPT !.spare = @ + 1] ELSE v
<1>1. JobMap(jobs) /\ j \in Ids
  BY Parts, JobFields
<1>2. /\ pc = "idle" /\ jobs[j].where # {} /\ w' = Settled(u)
      /\ \/ v.stuck /\ Hangs
         \/ ~v.stuck /\ v.ok /\ Answer("ok") /\ jobs' = Place(j, "delayed", {"delayed"})
         \/ ~v.stuck /\ ~v.ok /\ Answer("OUT_OF_MEMORY") /\ jobs' = Place(j, "reserved", {})
  BY DEF ReleaseDelayed, Command, SetWal
<1>3. n \in Int /\ n = Short
  BY Numbers DEF WalResvUpdate
<1>4. /\ Running /\ run = NoRun
      /\ w.use => w.total = Base(w) /\ \A k \in DOMAIN jobs : jobs[k].where # {} => InList(w, k)
  BY <1>2, AtRest
<1>5. Disk(w, dir) /\ Log(w, dir)
  BY <1>4 DEF FilesInv
<1> HIDE DEF n
<1>6. /\ Fit(v) /\ v.list = w.list /\ v.spent = w.spent /\ v.spare = w.spare
      /\ v.ok \in BOOLEAN /\ v.stuck \in BOOLEAN
      /\ v.total = IF w.use /\ (v.ok \/ v.stuck) THEN w.total + n ELSE w.total
  BY <1>3, <1>5, Reserving
<1> HIDE DEF v
<1>7. v \in WalRec /\ v.use = w.use
  BY <1>6 DEF Fit, Chain
<1>8. /\ u \in WalRec /\ u.list = v.list /\ u.total = v.total /\ u.spent = v.spent
      /\ u.use = v.use /\ u.spare = IF v.ok THEN v.spare + 1 ELSE v.spare
  BY <1>7, SpareFields
<1> HIDE DEF u
<1>9. /\ w' \in WalRec /\ w'.use = w.use /\ w'.spent = w.spent /\ w'.list = w.list
      /\ w'.spare = IF v.ok THEN w.spare + 1 ELSE w.spare
      /\ w'.total = IF w.use /\ (v.ok \/ v.stuck) THEN w.total + n ELSE w.total
  <2> DEFINE z == w'
  <2>1. z = Settled(u)
    BY <1>2
  <2> HIDE DEF z
  <2>2. /\ z \in WalRec /\ z.use = u.use /\ z.spent = u.spent /\ z.spare = u.spare
        /\ z.list = u.list /\ z.total = u.total
    BY <1>8, <2>1, SettledFields
  <2> QED BY <1>6, <1>7, <1>8, <2>2 DEF z
<1>10. \A k : InList(w', k) <=> InList(w, k)
  BY <1>9 DEF InList, Holds
<1>11. /\ Base(w') \in Int /\ Base(w) \in Int
       /\ v.ok => Base(w') = Base(w) + Short
       /\ ~v.ok => Base(w') = Base(w)
  <2>1. w \in WalRec /\ w.spare \in Int /\ w.spent \in Int
    BY <1>5, WalFields DEF Disk, Chain
  <2>2. Cardinality(Filed(w')) = Cardinality(Filed(w)) /\ Cardinality(Filed(w)) \in Int
    BY <1>10, FiledSame, FiledFinite
  <2>3. Base(w') \in Int /\ Base(w) \in Int
    BY <1>9, <2>1, BaseInt
  <2>4. v.ok => Base(w') = Base(w) + Short
    <3> SUFFICES ASSUME v.ok PROVE Base(w') = Base(w) + Short
      OBVIOUS
    <3> DEFINE a == Cardinality(Filed(w)) + w.spare - w.spent
    <3>1. a \in Int /\ Cardinality(Filed(w')) + w'.spare - w'.spent = a + 1
      BY <1>9, <2>1, <2>2
    <3>2. Base(w) = Short * a /\ Base(w') = Short * (a + 1)
      BY <3>1 DEF Base
    <3> HIDE DEF a
    <3> QED BY <3>1, <3>2, BaseStep
  <2>5. ~v.ok => Base(w') = Base(w)
    BY <1>9, <1>10, BaseSame
  <2> QED BY <2>3, <2>4, <2>5
<1>12. ASSUME NEW st \in States, NEW c \in SUBSET States, jobs' = Place(j, st, c)
      PROVE  DOMAIN jobs' = DOMAIN jobs /\ \A k \in DOMAIN jobs : k # j => jobs'[k] = jobs[k]
  BY <1>1, <1>12, PlaceFields
<1>13. CASE v.stuck /\ Hangs
  BY <1>2, <1>13, HungLog DEF Hangs
<1>14. CASE /\ ~v.stuck
            /\ \E st \in {"reserved", "delayed"} : \E c \in SUBSET {"delayed"} :
                 jobs' = Place(j, st, c)
            /\ pc' = "idle" /\ run' = NoRun
  <2>1. \A st \in {"reserved", "delayed"} : \A c \in SUBSET {"delayed"} :
          st \in States /\ c \in SUBSET States
    BY DEF States
  <2>2. DOMAIN jobs' = DOMAIN jobs /\ \A k \in DOMAIN jobs : k # j => jobs'[k] = jobs[k]
    BY <1>12, <1>14, <2>1
  <2>3. ASSUME w'.use
        PROVE  w'.total = Base(w') /\ \A k \in DOMAIN jobs' : jobs'[k].where # {} => InList(w', k)
    <3>1. w'.total = Base(w')
      BY <1>3, <1>4, <1>9, <1>11, <1>14, <2>3
    <3> QED BY <1>2, <1>4, <1>9, <1>10, <2>2, <2>3, <3>1
  <2> QED BY <1>14, <2>3, IdleLog
<1> QED BY <1>2, <1>13, <1>14 DEF Answer

\* A log that is out of use has no accounts.
LEMMA OutOfUseLog ==
  ASSUME ~w'.use, pc' \in {"idle", "compact"}
  PROVE  LogInv'
BY DEF LogInv, RecoveryLog, PlacedLog, OwnLog, MovingLog, RestLog

\* WriteNothing.
LEMMA WriteNothingLog ==
  ASSUME WriteNothing
  PROVE  LogInv'
BY OutOfUseLog DEF WriteNothing, Compacting

\* LogOff: nothing is asked of a log that is out of use.
LEMMA LogOffLog ==
  ASSUME FilesInv, pc \in {"write", "body"}, w.use, NEW u, Aimed(u), LogOff(u)
  PROVE  LogInv'
<1>1. PICK v : LogOffFacts(v)
  BY LogOffIs
<1>2. ~w'.use /\ pc' \in {"idle", "compact"}
  BY <1>1 DEF LogOffFacts, Failed, Answer
<1> QED BY <1>2, OutOfUseLog

\* What the invariant says while the server writes.
LEMMA WritingLog ==
  ASSUME FilesInv, LogInv, pc \in {"write", "body"}, w.use
  PROVE  /\ Subject \in Ids /\ Extra[jobs[Subject].kind] \in Int /\ run.op \in {"put", "delete", "bury", "release"}
         /\ w \in WalRec /\ Base(w) \in Int /\ run.moving \in Nat
         /\ run.moving = 0 => Subject = run.job
         /\ run.moving # 0 => Subject = run.moving
         /\ \A j \in DOMAIN jobs : jobs[j].where # {} =>
              \/ InList(w, j) \/ j = run.moving
              \/ j = run.job /\ (run.op = "delete" \/ (run.op = "put" /\ pc = "write" /\ run.moving = 0))
         /\ run.moving # 0 /\ run.op = "delete" => ~InList(w, run.job) /\ run.moving # run.job
<1>1. /\ Subject \in Ids /\ Extra[jobs[Subject].kind] \in Int /\ Running
  BY SubjectIs
<1>2. w \in WalRec /\ run \in RunRec /\ run.op # "none"
  BY WorkFacts
<1>3. Base(w) \in Int
  BY <1>2, BaseInt
<1>4. run.op \in {"put", "delete", "bury", "release"} /\ run.moving \in Nat
  BY <1>2, RunFields, Numbers
<1>5. /\ \A j \in DOMAIN jobs : jobs[j].where # {} =>
           \/ InList(w, j) \/ j = run.moving
           \/ j = run.job /\ (run.op = "delete" \/ (run.op = "put" /\ pc = "write" /\ run.moving = 0))
      /\ run.moving # 0 /\ run.op = "delete" => ~InList(w, run.job) /\ run.moving # run.job
  BY <1>1 DEF LogInv, PlacedLog, MovingLog
<1> QED BY <1>1, <1>2, <1>3, <1>4, <1>5 DEF Subject

\* The head of a full record: the job is in a file.
LEMMA WriteFullLog ==
  ASSUME FilesInv, LogInv, pc = "write", w.use, NEW v, NEW b, WriteFacts(v, b, TRUE)
  PROVE  LogInv'
<1> DEFINE j == Subject
           extra == Extra[jobs[j].kind]
<1>1. /\ Disk(w', dir') /\ w'.use /\ w'.total = w.total - Short /\ w'.spare = w.spare
      /\ w'.spent = IF run.op = "release" /\ run.moving = 0 THEN w.spent + 1 ELSE w.spent
      /\ ~InList(w, j)
      /\ \A g \in Files : \A k : Holds(w', g, k) <=> Holds(w, g, k) \/ (g = v.cur /\ k = j)
      /\ v.cur \in Files
      /\ pc' = "body" /\ jobs' = jobs /\ run' = run
  BY DEF WriteFacts, Recorded
<1>2. /\ j \in Ids /\ extra \in Int /\ run.op \in {"put", "delete", "bury", "release"}
      /\ w \in WalRec /\ Base(w) \in Int /\ run.moving \in Nat
      /\ run.moving = 0 => j = run.job
      /\ run.moving # 0 => j = run.moving
      /\ \A k \in DOMAIN jobs : jobs[k].where # {} =>
           \/ InList(w, k) \/ k = run.moving
           \/ k = run.job /\ (run.op = "delete" \/ (run.op = "put" /\ pc = "write" /\ run.moving = 0))
      /\ run.moving # 0 /\ run.op = "delete" => ~InList(w, run.job) /\ run.moving # run.job
  BY WritingLog
<1>3. Subject' = j
  BY <1>1 DEF Subject
<1>4. \A k \in Ids : InList(w', k) <=> InList(w, k) \/ k = j
  BY <1>1 DEF InList
<1>5. InList(w', j) /\ \A k : InList(w', k) <=> InList(w, k) \/ k = j
  BY <1>1 DEF InList
<1>6. run.moving = 0 => run.op = "put"
  BY <1>1, <1>2 DEF LogInv, OwnLog
<1>7. w.total = Base(w) + Short + Short + extra
  <2>1. CASE run.moving = 0
    <3>1. w.total = Base(w) + Needed /\ Needed = Short + extra + Short
      BY <1>2, <1>6, <2>1 DEF LogInv, OwnLog, Needed
    <3> QED BY <1>2, <3>1, Numbers
  <2>2. CASE run.moving # 0
    <3>1. w.total = Base(w) + Short + Short + Extra[jobs[run.moving].kind]
      BY <2>2 DEF LogInv, MovingLog
    <3> QED BY <1>2, <2>2, <3>1
  <2> QED BY <2>1, <2>2
<1> HIDE DEF extra, j
<1>8. w' \in WalRec
  BY <1>1 DEF Disk, Chain
<1>9. Base(w') = Base(w) + Short
  <2>1. Cardinality(Filed(w')) = Cardinality(Filed(w)) + 1
    BY <1>1, <1>2, <1>4, FiledMore
  <2>2. w'.spent = w.spent
    BY <1>1, <1>6
  <2> DEFINE a == Cardinality(Filed(w)) + w.spare - w.spent
  <2>3. a \in Int /\ Cardinality(Filed(w')) + w'.spare - w'.spent = a + 1
    <3>1. Cardinality(Filed(w)) \in Int /\ w.spare \in Int /\ w.spent \in Int
      BY <1>2, FiledFinite, WalFields
    <3> QED BY <1>1, <2>1, <2>2, <3>1
  <2>4. Base(w) = Short * a /\ Base(w') = Short * (a + 1)
    BY <2>3 DEF Base
  <2> HIDE DEF a
  <2> QED BY <2>3, <2>4, BaseStep
<1>10. w'.total = Base(w') + extra
  BY <1>1, <1>2, <1>7, <1>9, Numbers
<1>11. RestLog'
  BY <1>1, <1>3, <1>5, <1>6, <1>10 DEF RestLog, extra
<1>12. PlacedLog'
  BY <1>1, <1>2, <1>5 DEF PlacedLog
<1>13. RecoveryLog' /\ OwnLog'
  BY <1>1 DEF RecoveryLog, OwnLog
<1>14. MovingLog'
  BY <1>1, <1>2, <1>5 DEF MovingLog
<1> QED BY <1>11, <1>12, <1>13, <1>14 DEF LogInv

\* A short record: the job stays or, deleted, leaves its file.
LEMMA WriteShortLog ==
  ASSUME FilesInv, LogInv, pc = "write", w.use, NEW v, NEW b, WriteFacts(v, b, FALSE)
  PROVE  LogInv'
<1> DEFINE j == Subject
<1>1. /\ Disk(w', dir') /\ w'.use /\ w'.total = w.total - Short /\ w'.spare = w.spare
      /\ w'.spent = IF run.op = "release" /\ run.moving = 0 THEN w.spent + 1 ELSE w.spent
      /\ InList(w, j) /\ Booked(v, b)
      /\ \A g \in Files : \A k : Holds(w', g, k) <=> Holds(w, g, k) /\ ~(SubjectGone /\ k = j)
      /\ Compacting(b)
  BY DEF WriteFacts
<1>2. /\ j \in Ids /\ run.op \in {"put", "delete", "bury", "release"}
      /\ w \in WalRec /\ Base(w) \in Int /\ run.moving \in Nat
      /\ run.moving = 0 => j = run.job
      /\ run.moving # 0 => j = run.moving
      /\ \A k \in DOMAIN jobs : jobs[k].where # {} =>
           \/ InList(w, k) \/ k = run.moving
           \/ k = run.job /\ (run.op = "delete" \/ (run.op = "put" /\ pc = "write" /\ run.moving = 0))
  BY WritingLog
<1>3. run.moving = 0 /\ j = run.job
  BY <1>1, <1>2 DEF LogInv, MovingLog
<1>4. /\ run.op # "put" /\ (run.op = "delete" <=> SubjectGone)
      /\ w.total = Base(w) + Needed
  BY <1>1, <1>3 DEF LogInv, OwnLog, SubjectGone
<1>5. run \in RunRec /\ b \in WalRec
  BY <1>1, WorkFacts DEF Booked, Records, Writing, Chain
<1>6. pc' = "compact" /\ run'.op = run.op /\ run'.job = run.job /\ run'.moving = 0 /\ jobs' = jobs
  BY <1>1, <1>5, CompactingFields
<1>7. \A k : InList(w', k) <=> InList(w, k) /\ ~(SubjectGone /\ k = j)
  BY <1>1 DEF InList
<1> HIDE DEF j
<1>8. w' \in WalRec
  BY <1>1 DEF Disk, Chain
<1> DEFINE a == Cardinality(Filed(w)) + w.spare - w.spent
           c == Cardinality(Filed(w')) + w'.spare - w'.spent
<1>9. a \in Int /\ c \in Int
  BY <1>2, <1>8, FiledFinite, WalFields
<1>10. Base(w) = Short * a /\ Base(w') = Short * c
  BY DEF Base
<1>11. w'.total = Base(w')
  <2>1. CASE run.op = "bury"
    <3>1. Filed(w') = Filed(w) /\ Needed = Short /\ w'.spent = w.spent
      BY <1>1, <1>4, <1>7, <2>1, FiledSame DEF Needed
    <3>2. c = a
      BY <1>1, <3>1
    <3> QED BY <1>1, <1>2, <1>4, <1>10, <3>1, <3>2, Numbers
  <2>2. CASE run.op = "release"
    <3>1. Filed(w') = Filed(w) /\ Needed = 0 /\ w'.spent = w.spent + 1
      BY <1>1, <1>3, <1>4, <1>7, <2>2, FiledSame DEF Needed
    <3>2. c = a - 1
      BY <1>1, <1>2, <3>1, FiledFinite, WalFields
    <3> HIDE DEF a, c
    <3>3. Short * c = Short * a - Short
      BY <1>9, <3>2, BaseStep
    <3> QED BY <1>1, <1>2, <1>4, <1>10, <3>1, <3>3, Numbers
  <2>3. CASE run.op = "delete"
    <3>1. \A k \in Ids : InList(w', k) <=> InList(w, k) /\ k # j
      BY <1>4, <1>7, <2>3
    <3>2. Cardinality(Filed(w')) = Cardinality(Filed(w)) - 1 /\ Needed = 0 /\ w'.spent = w.spent
      BY <1>1, <1>2, <2>3, <3>1, FiledLess DEF Needed, j
    <3>3. c = a - 1
      <4>1. Cardinality(Filed(w)) \in Int /\ w.spare \in Int /\ w.spent \in Int
        BY <1>2, FiledFinite, WalFields
      <4> QED BY <1>1, <3>2, <4>1
    <3> HIDE DEF a, c
    <3>4. Short * c = Short * a - Short
      BY <1>9, <3>3, BaseStep
    <3> QED BY <1>1, <1>2, <1>4, <1>10, <3>2, <3>4, Numbers
  <2> QED BY <1>2, <1>4, <2>1, <2>2, <2>3
<1>12. RestLog'
  BY <1>3, <1>4, <1>6, <1>7, <1>11 DEF RestLog
<1>13. PlacedLog'
  <2>1. \A k \in DOMAIN jobs : k # 0
    BY Parts, JobFields
  <2> QED BY <1>2, <1>3, <1>4, <1>6, <1>7, <2>1 DEF PlacedLog
<1>14. RecoveryLog' /\ OwnLog' /\ MovingLog'
  BY <1>6 DEF RecoveryLog, OwnLog, MovingLog
<1> QED BY <1>12, <1>13, <1>14 DEF LogInv

\* WalWrite.
LEMMA WalWriteLog ==
  ASSUME FilesInv, LogInv, WalWrite
  PROVE  LogInv'
<1>1. /\ pc = "write" /\ w.use
      /\ LogOff(w) \/ \E v, b : \E full \in BOOLEAN : WriteFacts(v, b, full)
  BY WalWriteIs
<1>2. CASE LogOff(w)
  <2>1. Aimed(w)
    BY <1>1, AimHere
  <2> QED BY <1>1, <1>2, <2>1, LogOffLog
<1>3. ASSUME NEW v, NEW b, NEW full \in BOOLEAN, WriteFacts(v, b, full) PROVE LogInv'
  <2>1. CASE full = TRUE
    BY <1>1, <1>3, <2>1, WriteFullLog
  <2>2. CASE full = FALSE
    BY <1>1, <1>3, <2>2, WriteShortLog
  <2> QED BY <2>1, <2>2
<1> QED BY <1>1, <1>2, <1>3

\* WriteBody writes the rest of what was reserved.
LEMMA WriteBodyLog ==
  ASSUME FilesInv, LogInv, WriteBody
  PROVE  LogInv'
<1> DEFINE j == Subject
           extra == Extra[jobs[j].kind]
<1>1. BodyFacts
  BY WriteBodyIs
<1>2. PICK b \in WalRec : Compacting(b)
  BY <1>1 DEF BodyFacts
<1>3. /\ pc = "body" /\ w.use /\ w'.use /\ w'.list = w.list
      /\ w'.total = w.total - extra /\ w'.spent = w.spent /\ w'.spare = w.spare
  BY <1>1 DEF BodyFacts
<1>4. /\ j \in Ids /\ extra \in Int /\ Base(w) \in Int
      /\ run.moving = 0 => j = run.job
      /\ run.moving # 0 => j = run.moving
      /\ \A k \in DOMAIN jobs : jobs[k].where # {} =>
           \/ InList(w, k) \/ k = run.moving
           \/ k = run.job /\ (run.op = "delete" \/ (run.op = "put" /\ pc = "write" /\ run.moving = 0))
      /\ run.moving # 0 /\ run.op = "delete" => ~InList(w, run.job) /\ run.moving # run.job
  BY <1>3, WritingLog
<1>5. run \in RunRec /\ \A k \in DOMAIN jobs : k # 0
  BY <1>3, WorkFacts, JobFields
<1>6. pc' = "compact" /\ run'.op = run.op /\ run'.job = run.job /\ run'.moving = 0 /\ jobs' = jobs
  BY <1>2, <1>5, CompactingFields
<1>7. InList(w, j) /\ (run.moving = 0 => run.op = "put") /\ w.total = Base(w) + extra
  BY <1>3 DEF LogInv, RestLog
<1> HIDE DEF extra, j
<1>8. \A k : InList(w', k) <=> InList(w, k)
  BY <1>3 DEF InList, Holds
<1>9. Base(w') = Base(w)
  BY <1>3, <1>8, BaseSame
<1>10. w'.total = Base(w')
  BY <1>3, <1>4, <1>7, <1>9
<1>11. RestLog'
  BY <1>4, <1>6, <1>7, <1>8, <1>10 DEF RestLog
<1>12. PlacedLog'
  BY <1>3, <1>4, <1>5, <1>6, <1>7, <1>8 DEF PlacedLog
<1>13. RecoveryLog' /\ OwnLog' /\ MovingLog'
  BY <1>6 DEF RecoveryLog, OwnLog, MovingLog
<1> QED BY <1>11, <1>12, <1>13 DEF LogInv

\* WriteError.
LEMMA WriteErrorLog ==
  ASSUME FilesInv, LogInv, WriteError
  PROVE  LogInv'
<1>1. pc \in {"write", "body"} /\ w.use
  BY WriteErrorIs
<1>2. PICK u : Aimed(u) /\ LogOff(u)
  BY WriteErrorIs
<1> QED BY <1>1, <1>2, LogOffLog

\* moveOne reserves for the full record, and the job leaves its file until it is written.
LEMMA MoveOneLog ==
  ASSUME FilesInv, LogInv, NEW room \in Rooms, Moves(room)
  PROVE  LogInv'
<1>0. pc = "compact"
  BY DEF Moves
<1>1. /\ run \in RunRec /\ JobMap(jobs) /\ run.job \in DOMAIN jobs /\ w \in WalRec
  BY <1>0, WorkFacts
<1>2. run.moving = 0 /\ Running
  BY <1>0 DEF FilesInv, RunInv, Running
<1>3. /\ w.use => w.total = Base(w) /\ (run.op = "delete" => ~InList(w, run.job))
      /\ w.use => \A k \in DOMAIN jobs : jobs[k].where # {} =>
           InList(w, k) \/ (k = run.job /\ run.op = "delete")
  <2>1. \A k \in DOMAIN jobs : k # 0
    BY <1>1, JobFields
  <2> QED BY <1>0, <1>2, <2>1 DEF LogInv, RestLog, PlacedLog
<1>4. ASSUME run' = [run EXCEPT !.left = 0],
             UNCHANGED <<w, dir, pc, faults, jobs, nextId, rd, answer, acked, gone, cmds>>
      PROVE  LogInv'
  <2>1. run'.op = run.op /\ run'.job = run.job /\ run'.moving = 0
    BY <1>1, <1>2, <1>4 DEF RunRec
  <2> QED BY <1>0, <1>3, <1>4, <2>1 DEF LogInv, RecoveryLog, PlacedLog, OwnLog, MovingLog, RestLog
<1>5. ASSUME NEW j, NEW v, NEW u, MoveFacts(j, v, u)
      PROVE  LogInv'
  <2> DEFINE n == walResvMigrate(jobs[j].kind)
             q == IF v.ok THEN j ELSE 0
             extra == Extra[jobs[j].kind]
  <2>1. /\ run.left > 0 /\ j \in DOMAIN jobs /\ j \in Ids /\ InList(w, j) /\ n \in Int
        /\ v.ok \in BOOLEAN /\ v.stuck \in BOOLEAN
        /\ Disk(w', dir') /\ w'.use = w.use /\ w'.spent = w.spent /\ w'.spare = w.spare
        /\ w'.total = IF w.use /\ (v.ok \/ v.stuck) THEN w.total + n ELSE w.total
        /\ \A g \in Files : \A k : Holds(w', g, k) <=> Holds(w, g, k) /\ ~(v.ok /\ k = j)
        /\ IF v.stuck THEN Hangs
           ELSE /\ run' = [run EXCEPT !.left = @ - 1, !.moving = q, !.need = n]
                /\ pc' = IF v.ok THEN "write" ELSE pc
        /\ jobs' = jobs
    BY <1>5 DEF MoveFacts
  <2>2. CASE v.stuck
    BY <1>0, <2>1, <2>2, HungLog DEF Hangs
  <2>3. CASE ~v.stuck
    <3>1. n = Short + extra /\ extra \in Int
      BY <1>1, <2>1, JobFields DEF walResvMigrate
    <3>2. q \in 0..MaxJobs /\ run.left - 1 \in Nat
      <4>1. j \in 0..MaxJobs /\ 0 \in 0..MaxJobs
        BY <2>1, Numbers DEF Ids
      <4>2. run.left \in Nat
        BY <1>1, RunFields
      <4> QED BY <2>1, <4>1, <4>2
    <3>3. q = IF v.ok THEN j ELSE 0
      OBVIOUS
    <3>4. extra = Extra[jobs[j].kind]
      OBVIOUS
    <3> HIDE DEF q, n, extra
    <3>5. run'.op = run.op /\ run'.job = run.job /\ run'.moving = q /\ pc' = IF v.ok THEN "write" ELSE pc
      BY <1>1, <2>1, <2>3, <3>2 DEF RunRec
    <3>6. \A k : InList(w', k) <=> InList(w, k) /\ ~(v.ok /\ k = j)
      BY <2>1 DEF InList
    <3>7. w' \in WalRec
      BY <2>1 DEF Disk, Chain
    <3>8. CASE ~v.ok
      <4>1. \A k : InList(w', k) <=> InList(w, k)
        BY <3>6, <3>8
      <4>2. Base(w') = Base(w)
        BY <2>1, <4>1, BaseSame
      <4>3. w'.total = w.total /\ pc' = "compact" /\ run'.moving = 0
        BY <1>0, <2>1, <2>3, <3>3, <3>5, <3>8
      <4> QED BY <1>3, <2>1, <3>5, <4>1, <4>2, <4>3
              DEF LogInv, RecoveryLog, PlacedLog, OwnLog, MovingLog, RestLog
    <3>9. CASE v.ok
      <4>1. pc' = "write" /\ run'.moving = j /\ j # 0
        BY <2>1, <3>3, <3>5, <3>9, Numbers DEF Ids
      <4>2. \A k : InList(w', k) <=> InList(w, k) /\ k # j
        BY <3>6, <3>9
      <4>3. Base(w') = Base(w) - Short
        <5>1. Cardinality(Filed(w')) = Cardinality(Filed(w)) - 1
          BY <2>1, <4>2, FiledLess
        <5>2. Cardinality(Filed(w)) \in Int /\ w.spare \in Int /\ w.spent \in Int
          BY <1>1, FiledFinite, WalFields
        <5> DEFINE a == Cardinality(Filed(w)) + w.spare - w.spent
        <5>3. a \in Int /\ Cardinality(Filed(w')) + w'.spare - w'.spent = a - 1
          BY <2>1, <5>1, <5>2
        <5>4. Base(w) = Short * a /\ Base(w') = Short * (a - 1)
          BY <5>3 DEF Base
        <5> HIDE DEF a
        <5> QED BY <5>3, <5>4, BaseStep
      <4>4. Base(w) \in Int
        BY <1>1, BaseInt
      <4>5. w.use => w'.total = Base(w') + Short + Short + extra
        BY <1>3, <2>1, <3>1, <3>9, <4>3, <4>4, Numbers
      <4>6. MovingLog'
        <5>1. w.use => w'.total = Base(w') + Short + Short + Extra[jobs'[run'.moving].kind]
          BY <2>1, <3>4, <4>1, <4>5
        <5>2. w.use /\ run.op = "delete" => ~InList(w', run.job) /\ j # run.job
          BY <1>3, <2>1, <4>2
        <5> QED BY <2>1, <3>5, <4>1, <4>2, <5>1, <5>2 DEF MovingLog
      <4>7. PlacedLog'
        BY <1>3, <2>1, <3>5, <4>1, <4>2 DEF PlacedLog
      <4>8. RecoveryLog' /\ OwnLog' /\ RestLog'
        BY <4>1 DEF RecoveryLog, OwnLog, RestLog
      <4> QED BY <4>6, <4>7, <4>8 DEF LogInv
    <3> QED BY <2>1, <3>8, <3>9
  <2> QED BY <2>1, <2>2, <2>3
<1> QED BY <1>4, <1>5, MoveOneIs

\* WalMainDone.
LEMMA WalMainDoneLog ==
  ASSUME FilesInv, LogInv, WalMainDone
  PROVE  LogInv'
<1>1. /\ pc = "compact" /\ Finish /\ w' = w
  BY DEF WalMainDone
<1>2. JobMap(jobs) /\ run.moving = 0 /\ Running
  BY <1>1, Parts DEF FilesInv, RunInv, Running
<1>3. /\ pc' = "idle" /\ run' = NoRun
      /\ jobs' = IF run.op = "delete" THEN Without(run.job) ELSE jobs
  BY <1>1 DEF Finish, Answer
<1>4. /\ \A k \in DOMAIN jobs' : k \in DOMAIN jobs /\ jobs'[k] = jobs[k]
      /\ run.op = "delete" => run.job \notin DOMAIN jobs'
  BY <1>3 DEF Without
<1>5. \A k \in DOMAIN jobs : k # 0
  BY <1>2, JobFields
<1>6. w'.use => w'.total = Base(w') /\ \A k \in DOMAIN jobs' : jobs'[k].where # {} => InList(w', k)
  BY <1>1, <1>2, <1>4, <1>5 DEF LogInv, RestLog, PlacedLog
<1> QED BY <1>3, <1>6, IdleLog

\* When the process is gone nothing is asked.
LEMMA GoneLog ==
  ASSUME moveNone \/ Crash \/ CrashInOpen
  PROVE  LogInv'
BY DiedLog DEF moveNone, Crash, CrashInOpen

\* A step of recovery that keeps every job in a file.
LEMMA ReadLog ==
  ASSUME FilesInv, LogInv, pc = "read", pc' = "read", run' = run, w'.total = w.total,
         w'.spent = w.spent, w'.spare = w.spare, \A j \in DOMAIN jobs' : InList(w', j)
  PROVE  LogInv'
<1>1. run' = NoRun
  BY Reading
<1>2. w'.total = 0 /\ w'.spent = 0 /\ w'.spare = 0
  BY DEF LogInv, RecoveryLog
<1> QED BY <1>1, <1>2, NoRunFields
        DEF LogInv, RecoveryLog, PlacedLog, OwnLog, MovingLog, RestLog, Running

\* Start.
LEMMA StartLog ==
  ASSUME FilesInv, Start
  PROVE  LogInv'
<1>1. pc = "down" /\ pc' = "read" /\ w' = EmptyWal(Max(DOMAIN dir \cup {0}) + 1) /\ jobs' = jobs /\ run' = run
  BY DEF Start
<1>2. jobs' = <<>> /\ run' = NoRun
  BY <1>1 DEF FilesInv, DownInv
<1>3. DOMAIN jobs' = {}
  BY <1>2, NoJobs
<1>4. w'.total = 0 /\ w'.spent = 0 /\ w'.spare = 0
  BY <1>1 DEF EmptyWal
<1> QED BY <1>1, <1>2, <1>3, <1>4, NoRunFields
        DEF LogInv, RecoveryLog, PlacedLog, OwnLog, MovingLog, RestLog, Running

\* OpenFile.
LEMMA OpenFileLog ==
  ASSUME FilesInv, LogInv, OpenFile
  PROVE  LogInv'
<1>1. PICK f : OpenFacts(f)
  BY OpenFileKeeps
<1>2. \A j \in DOMAIN jobs' : InList(w', j)
  BY <1>1 DEF OpenFacts, LogInv, RecoveryLog, InList, Holds
<1> QED BY <1>1, <1>2, ReadLog DEF OpenFacts

\* ReadRec.
LEMMA ReadRecLog ==
  ASSUME FilesInv, LogInv, ReadRec
  PROVE  LogInv'
<1> DEFINE r == dir[w.reading].recs[rd.pos]
           known == r.id \in DOMAIN jobs
<1>1. /\ pc = "read" /\ w.reading # 0 /\ rd.pos <= Len(dir[w.reading].recs)
      /\ UNCHANGED <<answer, acked, gone, faults, cmds>>
  BY DEF ReadRec
<1>2. \/ \E p : SkipTo(p)
      \/ known /\ Discard(r.id)
      \/ Died
      \/ (known \/ IsFull(r)) /\ Recover(r)
  BY DEF ReadRec, Replaying
<1>3. /\ r \in Recs /\ run = NoRun /\ w.reading \in Files
  <2>1. rd \in CursorRec /\ dir[w.reading].recs \in Seq(Recs) /\ rd.pos >= 1
    BY <1>1, Reading, Parts DEF Disk, DirRec
  <2>2. rd.pos \in 1..Len(dir[w.reading].recs)
    BY <1>1, <2>1, CursorFields
  <2> QED BY <1>1, <2>2, NextRecord, Reading
<1>4. \A k \in DOMAIN jobs : InList(w, k)
  BY <1>1 DEF LogInv, RecoveryLog
<1> HIDE DEF r
<1>5. CASE \E p : SkipTo(p)
  <2>1. UNCHANGED <<w, jobs, pc, run>>
    BY <1>5 DEF SkipTo
  <2>2. \A k \in DOMAIN jobs' : InList(w', k)
    BY <1>4, <2>1
  <2> QED BY <1>1, <2>1, <2>2, ReadLog
<1>6. CASE known /\ Discard(r.id)
  <2>1. DiscardFacts(r.id) /\ run' = run
    BY <1>1, <1>6, DiscardKeeps DEF Discard
  <2>2. \A k \in DOMAIN jobs' : InList(w', k)
    BY <1>4, <2>1 DEF DiscardFacts, InList
  <2> QED BY <1>1, <2>1, <2>2, ReadLog DEF DiscardFacts
<1>7. CASE Died
  BY <1>7, DiedLog
<1>8. CASE (known \/ IsFull(r)) /\ Recover(r)
  <2>1. RecoverFacts(r) /\ run' = run
    BY <1>1, <1>3, <1>8, RecoverKeeps DEF Recover
  <2>2. \A k \in DOMAIN jobs' : InList(w', k)
    <3> SUFFICES ASSUME NEW k \in DOMAIN jobs' PROVE InList(w', k)
      OBVIOUS
    <3>1. k = r.id \/ InList(w, k)
      BY <1>4, <2>1 DEF RecoverFacts
    <3>2. CASE IsFull(r)
      BY <1>3, <2>1, <3>1, <3>2 DEF RecoverFacts, InList
    <3>3. CASE ~IsFull(r)
      BY <1>4, <1>8, <2>1, <3>1, <3>3 DEF RecoverFacts, InList
    <3> QED BY <3>2, <3>3
  <2> QED BY <1>1, <2>1, <2>2, ReadLog DEF RecoverFacts
<1> QED BY <1>2, <1>5, <1>6, <1>7, <1>8

\* ReadRec5.
LEMMA ReadRec5Log ==
  ASSUME FilesInv, LogInv, ReadRec5
  PROVE  LogInv'
<1>1. pc = "read" /\ UNCHANGED <<w, jobs, pc, run>>
  BY DEF ReadRec5, SkipTo
<1>2. \A k \in DOMAIN jobs' : InList(w', k)
  BY <1>1 DEF LogInv, RecoveryLog
<1> QED BY <1>1, <1>2, ReadLog

\* FileReadDone.
LEMMA FileReadDoneLog ==
  ASSUME FilesInv, LogInv, FileReadDone
  PROVE  LogInv'
<1>1. DoneFacts
  BY FileReadDoneKeeps
<1>2. \A k \in DOMAIN jobs' : InList(w', k)
  BY <1>1 DEF DoneFacts, LogInv, RecoveryLog, InList, Holds
<1> QED BY <1>1, <1>2, ReadLog DEF DoneFacts

\* The jobs that the replay has still to come to.
LEMMA HasIs ==
  ASSUME NEW l \in Seq(Ids)
  PROVE  \A k : k \in ToSet(l) <=> Has(l, k)
BY DEF ToSet, Has

\* WalInit: what is in no list yet is not reserved for.
LEMMA WalInitLog ==
  ASSUME FilesInv, LogInv, NEW room \in Rooms, WalInit(room)
  PROVE  LogInv'
<1>1. CASE Died
  BY <1>1, DiedLog
<1>2. CASE InitFacts
  <2>1. /\ pc = "read" /\ pc' = "replay" /\ w'.list = w.list /\ w'.total = w.total
        /\ w'.spent = w.spent /\ w'.spare = w.spare /\ jobs' = jobs /\ run' = run /\ rd' = rd
    BY <1>2 DEF InitFacts
  <2>2. /\ run' = NoRun
        /\ \A k \in Ids : k \in DOMAIN jobs <=> Has(rd.list, k)
        /\ Distinct(rd.list)
        /\ \A k \in Ids : InList(w, k) => k \in DOMAIN jobs
    BY <2>1, Reading
  <2>3. /\ w.total = 0 /\ w.spent = 0 /\ w.spare = 0
        /\ \A k \in DOMAIN jobs : InList(w, k)
    BY <2>1 DEF LogInv, RecoveryLog
  <2>4. rd.list \in Seq(Ids)
    BY Parts, CursorFields
  <2>5. \A k : InList(w', k) <=> InList(w, k)
    BY <2>1 DEF InList, Holds
  <2>6. Filed(w') \ ToSet(rd.list) = {}
    BY <2>2, <2>4, <2>5, HasIs DEF Filed
  <2>7. \A i \in DOMAIN rd.list : rd.list[i] \in DOMAIN jobs
    <3> SUFFICES ASSUME NEW i \in DOMAIN rd.list PROVE rd.list[i] \in DOMAIN jobs
      OBVIOUS
    <3>1. rd.list[i] \in Ids /\ Has(rd.list, rd.list[i])
      BY <2>4 DEF Has
    <3> QED BY <2>2, <3>1
  <2>8. Short * Cardinality(Filed(w') \ ToSet(rd'.list)) = 0
    <3>1. Cardinality(Filed(w') \ ToSet(rd'.list)) = 0
      BY <2>1, <2>6, FS_EmptySet
    <3> QED BY <3>1, Numbers
  <2>9. RecoveryLog'
    BY <2>1, <2>2, <2>3, <2>5, <2>7, <2>8 DEF RecoveryLog, Distinct
  <2>10. PlacedLog'
    BY <2>1, <2>3, <2>5 DEF PlacedLog
  <2> QED BY <2>1, <2>2, <2>9, <2>10, NoRunFields DEF LogInv, OwnLog, MovingLog, RestLog
<1> QED BY <1>1, <1>2, WalInitKeeps

\* Serve: every job has its space.
LEMMA ServeLog ==
  ASSUME FilesInv, LogInv, Serve
  PROVE  LogInv'
<1>1. /\ pc = "replay" /\ rd.list = <<>> /\ pc' = "idle" /\ UNCHANGED <<w, jobs, run>>
  BY DEF Serve
<1>2. run' = NoRun
  BY <1>1 DEF FilesInv, RunInv, Running
<1>3. /\ w.spent = 0 /\ w.spare = 0 /\ \A j \in DOMAIN jobs : InList(w, j)
      /\ w.total = Short * Cardinality(Filed(w) \ ToSet(rd.list))
  BY <1>1 DEF LogInv, RecoveryLog
<1>4. Filed(w) \ ToSet(rd.list) = Filed(w)
  BY <1>1 DEF ToSet
<1>5. w.total = Base(w)
  <2>1. Cardinality(Filed(w)) + 0 - 0 = Cardinality(Filed(w))
    BY FiledFinite
  <2> QED BY <1>3, <1>4, <2>1 DEF Base
<1>6. w'.total = Base(w') /\ \A j \in DOMAIN jobs' : jobs'[j].where # {} => InList(w', j)
  BY <1>1, <1>3, <1>5
<1> QED BY <1>1, <1>2, <1>6, IdleLog

\* The list of the replay without its first job.
LEMMA TailFacts ==
  ASSUME NEW l \in Seq(Ids), l # <<>>, Distinct(l), NEW m, m = Tail(l)
  PROVE  /\ m \in Seq(Ids) /\ Distinct(m) /\ ~Has(m, Head(l)) /\ Has(l, Head(l)) /\ Head(l) \in Ids
         /\ \A k : Has(l, k) <=> Has(m, k) \/ k = Head(l)
<1> DEFINE n == Len(l)
<1>1. n \in Nat /\ n >= 1 /\ DOMAIN l = 1..n /\ Head(l) = l[1]
  OBVIOUS
<1>2. m \in Seq(Ids) /\ DOMAIN m = 1..(n - 1) /\ \A i \in 1..(n - 1) : m[i] = l[i + 1]
  OBVIOUS
<1> HIDE DEF n
<1>3. /\ \A i \in 1..(n - 1) : i + 1 \in 1..n /\ i + 1 # 1
      /\ \A i \in 1..n : i = 1 \/ (i - 1 \in 1..(n - 1) /\ (i - 1) + 1 = i)
      /\ 1 \in 1..n
  BY <1>1
<1>4. \A i, k \in 1..(n - 1) : i + 1 = k + 1 => i = k
  BY <1>1
<1>5. Distinct(m)
  BY <1>1, <1>2, <1>3, <1>4 DEF Distinct
<1>6. ~Has(m, Head(l)) /\ Has(l, Head(l)) /\ Head(l) \in Ids
  BY <1>1, <1>2, <1>3 DEF Has, Distinct
<1>7. \A k : Has(l, k) <=> Has(m, k) \/ k = Head(l)
  <2> SUFFICES ASSUME NEW k PROVE Has(l, k) <=> Has(m, k) \/ k = Head(l)
    OBVIOUS
  <2>1. ASSUME NEW i \in 1..n, l[i] = k PROVE Has(m, k) \/ k = Head(l)
    <3>1. CASE i = 1
      BY <1>1, <2>1, <3>1
    <3>2. CASE i # 1
      <4>1. i - 1 \in 1..(n - 1) /\ m[i - 1] = l[i]
        BY <1>2, <1>3, <3>2
      <4> QED BY <1>2, <2>1, <4>1 DEF Has
    <3> QED BY <3>1, <3>2
  <2>2. ASSUME NEW i \in 1..(n - 1), m[i] = k PROVE Has(l, k)
    BY <1>1, <1>2, <1>3, <2>2 DEF Has
  <2> QED BY <1>1, <1>2, <1>6, <2>1, <2>2 DEF Has
<1> QED BY <1>2, <1>5, <1>6, <1>7

\* protReplay reserves for one job after the other.
LEMMA ReplayLog ==
  ASSUME FilesInv, LogInv, NEW room \in Rooms, protReplay(room)
  PROVE  LogInv'
<1> DEFINE j == Head(rd.list)
           v == reserve([w EXCEPT !.room = room], WalResvUpdate)
<1>1. pc = "replay" /\ rd.list # <<>>
  BY DEF protReplay
<1>2. \/ Hangs
      \/ /\ ~v.stuck /\ v.ok /\ SetWal(v)
         /\ \E st : jobs' = Place(j, st, {st})
         /\ rd' = [rd EXCEPT !.list = Tail(@)]
         /\ UNCHANGED <<nextId, pc, run>>
      \/ Died
  BY DEF protReplay
<1>3. Running /\ run = NoRun /\ w.use
  BY <1>1 DEF Running, RunInv, FilesInv
<1>4. JobMap(jobs) /\ rd \in CursorRec /\ rd.list \in Seq(Ids)
  BY Parts, CursorFields
<1>5. CASE Hangs
  BY <1>1, <1>5, HungLog DEF Hangs
<1>6. CASE Died
  BY <1>6, DiedLog
<1>7. ASSUME v.ok, SetWal(v), NEW st, jobs' = Place(j, st, {st}),
             rd' = [rd EXCEPT !.list = Tail(@)], UNCHANGED <<nextId, pc, run>>
      PROVE  LogInv'
  <2>1. WalResvUpdate \in Int /\ WalResvUpdate = Short
    BY Numbers DEF WalResvUpdate
  <2>2. /\ w'.use = w.use /\ w'.spent = w.spent /\ w'.spare = w.spare
        /\ w'.total = w.total + Short
        /\ \A k : InList(w', k) <=> InList(w, k)
    <3>1. /\ w'.use = w.use /\ w'.spent = w.spent /\ w'.spare = w.spare
          /\ w'.total = IF w.use /\ (v.ok \/ v.stuck) THEN w.total + WalResvUpdate ELSE w.total
          /\ \A k : InList(w', k) <=> InList(w, k)
      BY <1>3, <1>7, <2>1, ReserveNext
    <3> QED BY <1>3, <1>7, <2>1, <3>1
  <2> HIDE DEF v
  <2>3. /\ w.spent = 0 /\ w.spare = 0 /\ Distinct(rd.list)
        /\ \A i \in DOMAIN rd.list : rd.list[i] \in DOMAIN jobs
        /\ w.total = Short * Cardinality(Filed(w) \ ToSet(rd.list))
        /\ \A k \in DOMAIN jobs : InList(w, k)
    BY <1>1 DEF LogInv, RecoveryLog, Distinct
  <2> DEFINE l == rd.list
             m == Tail(l)
  <2>4. /\ m \in Seq(Ids) /\ Distinct(m) /\ ~Has(m, j) /\ Has(l, j) /\ j \in Ids
        /\ \A k : Has(l, k) <=> Has(m, k) \/ k = j
    BY <1>1, <1>4, <2>3, TailFacts
  <2>5. rd' = [rd EXCEPT !.list = m]
    BY <1>4, <1>7 DEF CursorRec
  <2>6. \A k : Has(l, k) => k \in DOMAIN jobs
    BY <2>3 DEF Has
  <2>6a. l \in Seq(Ids) /\ Distinct(l) /\ w.total = Short * Cardinality(Filed(w) \ ToSet(l))
    BY <1>4, <2>3
  <2> HIDE DEF j, l, m
  <2>7. rd'.list = m
    BY <1>4, <2>4, <2>5 DEF CursorRec
  <2>8. j \in Filed(w)
    BY <2>3, <2>4, <2>6 DEF Filed
  <2>9. Filed(w') = Filed(w)
    BY <2>2, FiledSame
  <2>10. Filed(w) \ ToSet(m) = (Filed(w) \ ToSet(l)) \cup {j} /\ j \notin Filed(w) \ ToSet(l)
    <3>1. \A k : k \in ToSet(l) <=> Has(l, k)
      BY <2>6a, HasIs
    <3>2. \A k : k \in ToSet(m) <=> Has(m, k)
      BY <2>4, HasIs
    <3> QED BY <2>4, <2>8, <3>1, <3>2
  <2>11. w'.total = Short * Cardinality(Filed(w') \ ToSet(rd'.list))
    <3> DEFINE a == Cardinality(Filed(w) \ ToSet(l))
               b == Cardinality(Filed(w) \ ToSet(m))
    <3>1. IsFiniteSet(Filed(w) \ ToSet(l))
      BY FiledFinite, FS_Subset
    <3>2. a \in Int /\ b = a + 1
      <4> DEFINE S == Filed(w) \ ToSet(l)
      <4>1. IsFiniteSet(S) /\ j \notin S /\ Filed(w) \ ToSet(m) = S \cup {j}
        BY <2>10, <3>1
      <4> HIDE DEF S
      <4>2. Cardinality(S) \in Nat /\ Cardinality(S \cup {j}) = Cardinality(S) + 1
        BY <4>1, FS_AddElement, FS_CardinalityType
      <4> QED BY <4>1, <4>2 DEF S
    <3>3. w.total = Short * a
      BY <2>6a
    <3> HIDE DEF a
    <3>4. w'.total = Short * b
      BY <2>2, <3>2, <3>3, BaseStep
    <3> QED BY <2>7, <2>9, <3>4
  <2>12. DOMAIN jobs' = DOMAIN jobs
    BY <1>7 DEF Place
  <2>13. RecoveryLog'
    <3>1. \A i \in DOMAIN m : m[i] \in DOMAIN jobs
      BY <2>4, <2>6 DEF Has
    <3> QED BY <1>1, <1>7, <2>2, <2>3, <2>4, <2>7, <2>11, <2>12, <3>1 DEF RecoveryLog, Distinct
  <2>14. PlacedLog'
    BY <2>2, <2>3, <2>12 DEF PlacedLog
  <2>15. pc' = "replay" /\ run' = NoRun
    BY <1>1, <1>3, <1>7
  <2> QED BY <2>13, <2>14, <2>15, NoRunFields DEF LogInv, OwnLog, MovingLog, RestLog
<1> QED BY <1>2, <1>5, <1>6, <1>7

-----------------------------------------------------------------------------
(* The initial states, and every step. *)

\* The directory that there may be at first.
LEMMA LegacyDir ==
  ASSUME NEW ver \in Legacy, NEW kind \in Kinds,
         NEW d, d = [f \in {1} |-> [ver |-> ver, recs |-> <<Rec(1, "ready", kind, TRUE)>>]]
  PROVE  DOMAIN d \subseteq Files /\ d \in [DOMAIN d -> DirRec]
<1>1. ver \in Nat /\ 1 \in Ids /\ 1 \in Files
  BY SizesAssumption, Numbers DEF Ids, Files
<1>2. Rec(1, "ready", kind, TRUE) \in Recs
  BY <1>1 DEF Rec, Recs, States
<1>3. <<Rec(1, "ready", kind, TRUE)>> \in Seq(Recs)
  <2> DEFINE r == Rec(1, "ready", kind, TRUE)
  <2> HIDE DEF r
  <2>1. r \in Recs
    BY <1>2 DEF r
  <2>2. <<r>> \in Seq(Recs)
    BY <2>1
  <2> QED BY <2>2 DEF r
<1>4. [ver |-> ver, recs |-> <<Rec(1, "ready", kind, TRUE)>>] \in DirRec
  BY <1>1, <1>3 DEF DirRec
<1>5. DOMAIN d = {1} /\ d[1] = [ver |-> ver, recs |-> <<Rec(1, "ready", kind, TRUE)>>]
  OBVIOUS
<1>6. \A f \in DOMAIN d : d[f] \in DirRec
  BY <1>4, <1>5
<1>7. d = [f \in DOMAIN d |-> d[f]]
  BY <1>5
<1> QED BY <1>1, <1>5, <1>6, <1>7

\* The initial states.
LEMMA StartInv ==
  ASSUME WalStart
  PROVE  FilesInv /\ LogInv
<1>1. /\ w = EmptyWal(1) /\ jobs = <<>> /\ nextId = 1 /\ pc = "down"
      /\ run = NoRun /\ rd = NoRead /\ gone = {} /\ faults = 0 /\ acked = <<>>
  BY DEF WalStart
<1>2. 1 \in 1..(MaxFiles + 1) /\ 1 \in 1..(MaxJobs + 1)
  BY Numbers
<1>3. /\ Chain(w) /\ Once(w) /\ w.ok /\ ~w.stuck /\ w.room = 0 /\ \A j : ~InList(w, j)
  BY <1>1, <1>2, EmptyFields
<1>4. DOMAIN dir \subseteq Files /\ dir \in [DOMAIN dir -> DirRec]
  <2>1. CASE dir = <<>>
    BY <2>1, NoJobs
  <2>2. ASSUME NEW ver \in Legacy, NEW kind \in Kinds,
               dir = [f \in {1} |-> [ver |-> ver, recs |-> <<Rec(1, "ready", kind, TRUE)>>]]
        PROVE  DOMAIN dir \subseteq Files /\ dir \in [DOMAIN dir -> DirRec]
    BY <2>2, LegacyDir
  <2> QED BY <2>1, <2>2 DEF WalStart
<1>5. cmds \in 0..MaxCmds
  <2>1. CASE cmds = 0
    BY <2>1, Numbers
  <2>2. CASE cmds = Max({0, MaxCmds - 2})
    <3>1. CASE MaxCmds >= 2
      <4>1. MaxCmds - 2 \in 0..MaxCmds
        BY <3>1, Numbers
      <4>2. {0, MaxCmds - 2} \in SUBSET (0..MaxCmds)
        BY <4>1, Numbers
      <4>3. Max({0, MaxCmds - 2}) \in {0, MaxCmds - 2}
        BY <4>2, MaxIs, Numbers
      <4> QED BY <2>2, <4>1, <4>3, Numbers
    <3>2. CASE ~(MaxCmds >= 2)
      <4> DEFINE S == {0, MaxCmds - 2}
      <4>1. \A y \in S : 0 >= y
        BY <3>2, Numbers
      <4>2. \E x \in S : \A y \in S : x >= y
        BY <4>1
      <4>3. Max(S) \in S /\ \A y \in S : Max(S) >= y
        <5> HIDE DEF S
        <5> QED BY <4>2 DEF Max
      <4>4. Max(S) = 0
        BY <3>2, <4>3, Numbers
      <4> QED BY <2>2, <4>4, Numbers
    <3> QED BY <3>1, <3>2
  <2> QED BY <2>1, <2>2 DEF WalStart
<1>6. ClientTypes
  BY <1>1, <1>5, NoJobs, Numbers DEF ClientTypes
<1>7. Disk(w, dir)
  BY <1>3, <1>4 DEF Disk
<1>8. rd \in CursorRec
  <2>1. 0 \in 0..MaxFiles /\ <<>> \in Seq(Ids)
    BY Numbers
  <2> QED BY <1>1, <2>1 DEF NoRead, CursorRec
<1>9. JobTypes
  BY <1>1, <1>2, <1>3, <1>8, NoJobs, NoRunFields DEF JobTypes, JobMap
<1>10. DownInv /\ ReadInv /\ RunInv /\ JobsInv /\ BodyInv /\ ~Running
  BY <1>1, <1>3 DEF DownInv, ReadInv, RunInv, JobsInv, BodyInv, Running
<1>11. LogInv
  BY <1>1, NoRunFields DEF LogInv, RecoveryLog, PlacedLog, OwnLog, MovingLog, RestLog, Running
<1> QED BY <1>6, <1>7, <1>9, <1>10, <1>11 DEF FilesInv

\* The commands.
LEMMA CommandsKeep ==
  ASSUME FilesInv, LogInv, Commands
  PROVE  FilesInv' /\ LogInv'
<1>1. ASSUME NEW kind \in Kinds, NEW delayed \in BOOLEAN, NEW room \in Rooms, Put(kind, delayed, room)
      PROVE  FilesInv' /\ LogInv'
  BY <1>1, PutKeeps, PutLog
<1>2. ASSUME NEW j \in DOMAIN jobs, Reserve(j) \/ Requeue(j) \/ Delete(j) \/ Release(j)
      PROVE  FilesInv' /\ LogInv'
  BY <1>2, TurnKeeps, TurnLog
<1>3. ASSUME NEW j \in DOMAIN jobs, NEW room \in Rooms, Bury(j, room)
      PROVE  FilesInv' /\ LogInv'
  BY <1>3, BuryKeeps, BuryLog
<1>4. ASSUME NEW j \in DOMAIN jobs, NEW room \in Rooms, ReleaseDelayed(j, room)
      PROVE  FilesInv' /\ LogInv'
  BY <1>4, BuryKeeps, DelayLog
<1> QED BY <1>1, <1>2, <1>3, <1>4 DEF Commands

\* The server's work on a command, and its faults.
LEMMA WorkKeeps ==
  ASSUME FilesInv, LogInv, Work \/ WriteError \/ Crash \/ CrashInOpen
  PROVE  FilesInv' /\ LogInv'
<1>1. CASE WriteNothing
  BY <1>1, WriteNothingKeeps, WriteNothingLog
<1>2. CASE WalWrite
  BY <1>2, WalWriteKeeps, WalWriteLog
<1>3. CASE WriteBody
  BY <1>3, WriteBodyKeeps, WriteBodyLog
<1>4. CASE WalMainDone
  BY <1>4, WalMainDoneKeeps, WalMainDoneLog
<1>5. CASE Stops
  <2>1. moveNone
    BY <1>5 DEF Stops
  <2> QED BY <2>1, MoveNoneKeeps, GoneLog
<1>6. ASSUME NEW room \in Rooms, moveOne(room) PROVE FilesInv' /\ LogInv'
  <2>1. CASE Moves(room)
    BY <2>1, MoveOneKeeps, MoveOneLog
  <2> QED BY <1>5, <1>6, <2>1, MoveOneSplits
<1>7. CASE WriteError
  BY <1>7, WriteErrorKeeps, WriteErrorLog
<1>8. CASE Crash
  BY <1>8, CrashKeeps, GoneLog
<1>9. CASE CrashInOpen
  BY <1>9, CrashInOpenKeeps, GoneLog
<1> QED BY <1>1, <1>2, <1>3, <1>4, <1>6, <1>7, <1>8, <1>9 DEF Work

\* Recovery.
LEMMA RecoveryKeeps ==
  ASSUME FilesInv, LogInv, Recovery
  PROVE  FilesInv' /\ LogInv'
<1>1. CASE Start
  BY <1>1, StartKeeps, StartLog
<1>2. CASE OpenFile
  BY <1>2, OpenFileKeeps, OpenFileLog
<1>3. CASE ReadRec
  BY <1>3, ReadRecKeeps, ReadRecLog
<1>4. CASE ReadRec5
  BY <1>4, ReadRec5Keeps, ReadRec5Log
<1>5. CASE FileReadDone
  BY <1>5, FileReadDoneKeeps, FileReadDoneLog
<1>6. CASE Serve
  BY <1>6, ServeKeeps, ServeLog
<1>7. ASSUME NEW room \in Rooms, WalInit(room) PROVE FilesInv' /\ LogInv'
  BY <1>7, WalInitKeeps, WalInitLog
<1>8. ASSUME NEW room \in Rooms, protReplay(room) PROVE FilesInv' /\ LogInv'
  BY <1>8, ReplayKeeps, ReplayLog
<1> QED BY <1>1, <1>2, <1>3, <1>4, <1>5, <1>6, <1>7, <1>8 DEF Recovery

\* A step that changes nothing.
LEMMA StutterKeeps ==
  ASSUME FilesInv, LogInv, UNCHANGED walVars
  PROVE  FilesInv' /\ LogInv'
<1>1. UNCHANGED <<w, dir, jobs, nextId, pc, run, rd, answer, acked, gone, faults, cmds>>
  BY DEF walVars
<1>2. Disk(w, dir)' /\ JobTypes' /\ ClientTypes' /\ (Running' => Log(w, dir)')
  BY <1>1 DEF FilesInv, JobTypes, ClientTypes, Running
<1>3. DownInv' /\ ReadInv'
  BY <1>1 DEF FilesInv, DownInv, ReadInv
<1>4. RunInv' /\ JobsInv' /\ BodyInv'
  BY <1>1 DEF FilesInv, RunInv, JobsInv, BodyInv, Running, Subject
<1>5. LogInv'
  BY <1>1 DEF LogInv, RecoveryLog, PlacedLog, OwnLog, MovingLog, RestLog, Running, Subject, Needed
<1> QED BY <1>2, <1>3, <1>4, <1>5 DEF FilesInv

\* The files, the directory and what is reserved are in order, whatever the clients, the disk and
\* crashes do.
THEOREM LogCorrect == WalSpec => [](FilesInv /\ LogInv)
<1>1. WalStart => FilesInv /\ LogInv
  BY StartInv
<1>2. ASSUME FilesInv /\ LogInv, [WalNext]_walVars
      PROVE  (FilesInv /\ LogInv)'
  <2>1. CASE WalNext
    BY <1>2, <2>1, CommandsKeep, WorkKeeps, RecoveryKeeps DEF WalNext
  <2>2. CASE UNCHANGED walVars
    BY <1>2, <2>2, StutterKeeps
  <2> QED BY <1>2, <2>1, <2>2
<1> QED BY <1>1, <1>2, PTL DEF WalSpec

\* The jobs in the log, as the property counts them.
LEMMA LoggedIs ==
  ASSUME FilesInv, w.use
  PROVE  Logged = Filed(w)
<1>1. w \in WalRec /\ JobMap(jobs) /\ JobsInv
  BY Parts DEF Disk, Chain
<1>2. \A j : FileOf(w, j) # 0 <=> InList(w, j)
  BY <1>1, FileOfIs
<1> QED BY <1>1, <1>2 DEF Logged, Filed, JobsInv, JobMap

\* SpaceExact, by walOpen, useNext, balance, reserve, fileWrite, fileWClose and walGc.
THEOREM SpaceCorrect == WalSpec => []SpaceExact
<1>1. FilesInv => SpaceExact
  BY DEF FilesInv, Running, Log, Exact, SpaceExact, Serving
<1> QED BY <1>1, LogCorrect, PTL

\* What is reserved at rest is a short record for the delete of each job in the log, but for what
\* releases lend and borrow: ResvExact, by the walResv functions and every write that uses them.
THEOREM ReservationsCorrect == WalSpec => []ResvExact
<1>1. FilesInv /\ LogInv => ResvExact
  <2> SUFFICES ASSUME FilesInv, LogInv, pc = "idle", w.use
               PROVE  w.total = Short * (Cardinality(Logged) + w.spare - w.spent)
    BY DEF ResvExact
  <2>1. w.total = Base(w)
    BY AtRest
  <2> QED BY <2>1, LoggedIs DEF Base
<1> QED BY <1>1, LogCorrect, PTL

\* The variables have their types, and while the log is in use its current file is open.
THEOREM TypesCorrect == WalSpec => []WalTypeOK
<1>1. FilesInv => WalTypeOK
  <2> SUFFICES ASSUME FilesInv PROVE WalTypeOK
    OBVIOUS
  <2>1. w \in WalRec /\ JobTypes /\ ClientTypes /\ DOMAIN dir \subseteq Files
    BY DEF FilesInv, Disk, Chain
  <2>2. w.next \in 1..MaxFiles + 1 /\ w.files \in Seq(Files)
    BY <2>1, Numbers DEF WalRec
  <2>3. ToSet(w.files) \subseteq Files
    BY <2>2 DEF ToSet
  <2>4. pc \notin {"down", "read"} /\ w.use => w.cur \in w.open
    BY OpenFields DEF FilesInv, Running, Log
  <2>5. nextId \in 1..MaxJobs + 1
    BY <2>1 DEF JobTypes
  <2> QED BY <2>1, <2>2, <2>3, <2>4, <2>5 DEF WalTypeOK, JobTypes, ClientTypes
<1> QED BY <1>1, LogCorrect, PTL

\* The books of the log are right: types, space and reservations, through every command, every
\* rotation, collection and compaction, every fault and every recovery.
THEOREM BooksCorrect == WalSpec => []WalInv
<1>1. WalTypeOK /\ SpaceExact /\ ResvExact => WalInv
  BY DEF WalInv
<1> QED BY <1>1, TypesCorrect, SpaceCorrect, ReservationsCorrect, PTL
=============================================================================
