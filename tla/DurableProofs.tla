--------------------------- MODULE DurableProofs ---------------------------
(***************************************************************************)
(* What clients can rely on: no job is lost and none comes back, for any   *)
(* sizes of files and records, any number of jobs, files and faults, as    *)
(* long as no job is over the limit that recovery applies (TooBig = {}).   *)
(*                                                                         *)
(* Found says what fileRead makes of a job in a directory: it takes the    *)
(* job from its last full record when nothing but short records of a job   *)
(* that lives follow (Source), and the state from the last one (Final).    *)
(* DurInv says of each point of a command, of a compaction, of a crash and *)
(* of recovery that this is what clients were told, and that the file it   *)
(* is found in is not collected (Stays).  A step trims the directory       *)
(* (Trim), writes one record more (OneMore), cuts off the last ones        *)
(* (CutFile), or reads on (ReadStep); there is one lemma for each action.  *)
(***************************************************************************)
EXTENDS WalProofs

(* What recovery finds of a job in a directory.                            *)

\* Record p of file f comes before record q of file g.
Before(f, p, g, q) == f < g \/ (f = g /\ p < q)

\* Record p of file f is one of job j.
RecOf(d, j, f, p) ==
  f \in DOMAIN d /\ d[f].ver = WalVer /\ p \in DOMAIN d[f].recs /\ d[f].recs[p].id = j

\* Recovery has read it when it has read up to record q of file l.
Seen(d, j, l, q, f, p) == RecOf(d, j, f, p) /\ Before(f, p, l, q)

Valid(r) == r.st # "invalid"

\* Recovery takes the job from record p of file f: later ones are short ones of a job that lives.
Source(d, j, l, q, f, p) ==
  /\ Seen(d, j, l, q, f, p) /\ IsFull(d[f].recs[p]) /\ Valid(d[f].recs[p])
  /\ \A g \in Files, s \in Nat : Seen(d, j, l, q, g, s) /\ Before(f, p, g, s) =>
       ~IsFull(d[g].recs[s]) /\ Valid(d[g].recs[s])

\* The last one.
Final(d, j, l, q, f, p) ==
  /\ Seen(d, j, l, q, f, p)
  /\ \A g \in Files, s \in Nat : Seen(d, j, l, q, g, s) => ~Before(f, p, g, s)

\* What recovery makes of the job: it is in file f, with its body or not, in state st.
Found(d, j, l, q, f, b, st) ==
  /\ f \in Files
  /\ \E p \in Nat : Source(d, j, l, q, f, p) /\ d[f].recs[p].body = b
  /\ \E g \in Files, r \in Nat : Final(d, j, l, q, g, r) /\ d[g].recs[r].st = st

\* When it reads the whole directory.
InDir(d, j, f, b, st) == Found(d, j, MaxFiles + 1, 1, f, b, st)

\* From file f on, the same records of the job are read.
SameRecords(d, l, q, e, m, s, j, f) ==
  \A g \in Files, p \in Nat : g >= f =>
    /\ Seen(d, j, l, q, g, p) <=> Seen(e, j, m, s, g, p)
    /\ Seen(d, j, l, q, g, p) => d[g].recs[p] = e[g].recs[p]

\* And one more, which is the last.
OneMore(d, l, q, e, m, s, j, c, n, f) ==
  /\ c \in Files /\ n \in Nat /\ Seen(e, j, m, s, c, n)
  /\ \A g \in Files, p \in Nat : Seen(d, j, l, q, g, p) => Before(g, p, c, n)
  /\ \A g \in Files, p \in Nat : g >= f =>
       /\ Seen(e, j, m, s, g, p) <=> Seen(d, j, l, q, g, p) \/ (g = c /\ p = n)
       /\ Seen(d, j, l, q, g, p) => d[g].recs[p] = e[g].recs[p]

\* The order of positions is total.
LEMMA Order ==
  ASSUME NEW f \in Files, NEW p \in Nat, NEW g \in Files, NEW q \in Nat
  PROVE  /\ ~(Before(f, p, g, q) /\ Before(g, q, f, p))
         /\ Before(f, p, g, q) \/ Before(g, q, f, p) \/ (f = g /\ p = q)
         /\ Before(f, p, g, q) => f <= g
         /\ ~Before(f, p, f, p)
         /\ \A h \in Files, s \in Nat : Before(f, p, g, q) /\ Before(g, q, h, s) => Before(f, p, h, s)
BY Numbers DEF Before

\* The last record is in the file of the source or a later one.
LEMMA FinalAfter ==
  ASSUME NEW d, NEW j, NEW l, NEW q, NEW f \in Files, NEW p \in Nat, NEW g \in Files, NEW r \in Nat,
         Source(d, j, l, q, f, p), Final(d, j, l, q, g, r)
  PROVE  f <= g /\ Valid(d[g].recs[r])
<1>1. Seen(d, j, l, q, f, p) /\ Valid(d[f].recs[p]) /\ Seen(d, j, l, q, g, r)
  BY DEF Source, Final
<1>2. ~Before(g, r, f, p)
  BY <1>1 DEF Final
<1>3. Before(f, p, g, r) \/ (f = g /\ p = r)
  BY <1>2, Order
<1>4. f <= g
  BY <1>3, Order, Numbers
<1>5. Before(f, p, g, r) => Valid(d[g].recs[r])
  BY <1>1 DEF Source
<1> QED BY <1>1, <1>3, <1>4, <1>5

\* Who reads the same records takes the job from the same one,
LEMMA SameSource ==
  ASSUME NEW d, NEW l, NEW q, NEW e, NEW m, NEW s, NEW j, NEW f \in Files, NEW p \in Nat,
         SameRecords(d, l, q, e, m, s, j, f), Source(d, j, l, q, f, p)
  PROVE  Source(e, j, m, s, f, p) /\ e[f].recs[p] = d[f].recs[p]
<1>1. \A h \in Files, k \in Nat : h >= f =>
        /\ Seen(d, j, l, q, h, k) <=> Seen(e, j, m, s, h, k)
        /\ Seen(d, j, l, q, h, k) => d[h].recs[k] = e[h].recs[k]
  BY DEF SameRecords
<1>2. f >= f
  BY Numbers
<1>3. Seen(e, j, m, s, f, p) /\ e[f].recs[p] = d[f].recs[p]
  BY <1>1, <1>2 DEF Source
<1>4. ASSUME NEW h \in Files, NEW k \in Nat, Seen(e, j, m, s, h, k), Before(f, p, h, k)
      PROVE  ~IsFull(e[h].recs[k]) /\ Valid(e[h].recs[k])
  <2>1. h >= f
    BY <1>4, Order, Numbers
  <2>2. Seen(d, j, l, q, h, k) /\ d[h].recs[k] = e[h].recs[k]
    BY <1>1, <1>4, <2>1
  <2> QED BY <1>4, <2>2 DEF Source
<1>5. IsFull(e[f].recs[p]) /\ Valid(e[f].recs[p])
  BY <1>3 DEF Source
<1> QED BY <1>3, <1>4, <1>5 DEF Source

\* and has the same last one.
LEMMA SameFinal ==
  ASSUME NEW d, NEW l, NEW q, NEW e, NEW m, NEW s, NEW j, NEW f \in Files,
         SameRecords(d, l, q, e, m, s, j, f), NEW g \in Files, NEW r \in Nat, f <= g,
         Final(d, j, l, q, g, r)
  PROVE  Final(e, j, m, s, g, r) /\ e[g].recs[r] = d[g].recs[r]
<1>1. \A h \in Files, k \in Nat : h >= f =>
        /\ Seen(d, j, l, q, h, k) <=> Seen(e, j, m, s, h, k)
        /\ Seen(d, j, l, q, h, k) => d[h].recs[k] = e[h].recs[k]
  BY DEF SameRecords
<1>2. g >= f
  BY Numbers
<1>3. Seen(e, j, m, s, g, r) /\ e[g].recs[r] = d[g].recs[r]
  BY <1>1, <1>2 DEF Final
<1>4. ASSUME NEW h \in Files, NEW k \in Nat, Seen(e, j, m, s, h, k), Before(g, r, h, k)
      PROVE  FALSE
  <2>1. h >= f
    BY <1>4, Order, Numbers
  <2>2. Seen(d, j, l, q, h, k)
    BY <1>1, <1>4, <2>1
  <2> QED BY <1>4, <2>2 DEF Final
<1> QED BY <1>3, <1>4 DEF Final

\* So it finds the same.
LEMMA SameFound ==
  ASSUME NEW d, NEW l, NEW q, NEW e, NEW m, NEW s, NEW j, NEW f,
         SameRecords(d, l, q, e, m, s, j, f), NEW b, NEW st, Found(d, j, l, q, f, b, st)
  PROVE  Found(e, j, m, s, f, b, st)
<1>1. f \in Files
  BY DEF Found
<1>2. PICK p \in Nat : Source(d, j, l, q, f, p) /\ d[f].recs[p].body = b
  BY DEF Found
<1>3. PICK g \in Files, r \in Nat : Final(d, j, l, q, g, r) /\ d[g].recs[r].st = st
  BY DEF Found
<1>4. f <= g
  BY <1>1, <1>2, <1>3, FinalAfter
<1>5. Source(e, j, m, s, f, p) /\ e[f].recs[p] = d[f].recs[p]
  BY <1>1, <1>2, SameSource
<1>6. Final(e, j, m, s, g, r) /\ e[g].recs[r] = d[g].recs[r]
  BY <1>1, <1>3, <1>4, SameFinal
<1>7. \E p2 \in Nat : Source(e, j, m, s, f, p2) /\ e[f].recs[p2].body = b
  BY <1>2, <1>5
<1>8. \E g2 \in Files, r2 \in Nat : Final(e, j, m, s, g2, r2) /\ e[g2].recs[r2].st = st
  BY <1>3, <1>6
<1> QED BY <1>1, <1>7, <1>8 DEF Found

\* The other way round.
LEMMA AlikeBack ==
  ASSUME NEW d, NEW l, NEW q, NEW e, NEW m, NEW s, NEW j, NEW f, SameRecords(d, l, q, e, m, s, j, f)
  PROVE  SameRecords(e, m, s, d, l, q, j, f)
BY DEF SameRecords

\* The last record is the final one.
LEMMA LastIsFinal ==
  ASSUME NEW e, NEW m, NEW s, NEW j, NEW c \in Files, NEW n \in Nat, Seen(e, j, m, s, c, n),
         \A g \in Files, p \in Nat : Seen(e, j, m, s, g, p) => Before(g, p, c, n) \/ (g = c /\ p = n)
  PROVE  Final(e, j, m, s, c, n)
<1>1. ASSUME NEW g \in Files, NEW p \in Nat, Seen(e, j, m, s, g, p), Before(c, n, g, p) PROVE FALSE
  <2>1. Before(g, p, c, n) \/ (g = c /\ p = n)
    BY <1>1
  <2> QED BY <1>1, <2>1, Order
<1> QED BY <1>1 DEF Final

\* The job is taken from a full record when it is the last.
LEMMA FoundFull ==
  ASSUME NEW e, NEW m, NEW s, NEW j, NEW c \in Files, NEW n \in Nat, Seen(e, j, m, s, c, n),
         \A g \in Files, p \in Nat : Seen(e, j, m, s, g, p) => Before(g, p, c, n) \/ (g = c /\ p = n),
         IsFull(e[c].recs[n]), Valid(e[c].recs[n])
  PROVE  /\ Found(e, j, m, s, c, e[c].recs[n].body, e[c].recs[n].st)
         /\ Source(e, j, m, s, c, n)
         /\ \A f \in Files, p \in Nat : Source(e, j, m, s, f, p) => f = c /\ p = n
<1>1. Final(e, j, m, s, c, n)
  BY LastIsFinal
<1>2. \A g \in Files, p \in Nat : Seen(e, j, m, s, g, p) => ~Before(c, n, g, p)
  BY <1>1 DEF Final
<1>3. Source(e, j, m, s, c, n)
  BY <1>2 DEF Source
<1>4. Found(e, j, m, s, c, e[c].recs[n].body, e[c].recs[n].st)
  BY <1>1, <1>3 DEF Found
<1>5. ASSUME NEW f \in Files, NEW p \in Nat, Source(e, j, m, s, f, p)
      PROVE  f = c /\ p = n
  <2>1. ~Before(f, p, c, n)
    BY <1>5 DEF Source
  <2>2. ~Before(c, n, f, p)
    BY <1>2, <1>5 DEF Source
  <2> QED BY <2>1, <2>2, Order
<1> QED BY <1>3, <1>4, <1>5

\* There is no job when its last record is the one of its delete.
LEMMA FoundGone ==
  ASSUME NEW e, NEW m, NEW s, NEW j, NEW c \in Files, NEW n \in Nat, Seen(e, j, m, s, c, n),
         \A g \in Files, p \in Nat : Seen(e, j, m, s, g, p) => Before(g, p, c, n) \/ (g = c /\ p = n),
         ~Valid(e[c].recs[n])
  PROVE  \A f \in Files, p \in Nat : ~Source(e, j, m, s, f, p)
<1> SUFFICES ASSUME NEW f \in Files, NEW p \in Nat, Source(e, j, m, s, f, p) PROVE FALSE
  OBVIOUS
<1>1. Seen(e, j, m, s, f, p) /\ Valid(e[f].recs[p])
  BY DEF Source
<1>2. Before(f, p, c, n)
  BY <1>1
<1> QED BY <1>2 DEF Source

\* A short record changes the state and nothing else.
LEMMA FoundShort ==
  ASSUME NEW d, NEW l, NEW q, NEW e, NEW m, NEW s, NEW j, NEW c, NEW n, NEW f,
         OneMore(d, l, q, e, m, s, j, c, n, f),
         ~IsFull(e[c].recs[n]), Valid(e[c].recs[n])
  PROVE  /\ \A b, st : Found(d, j, l, q, f, b, st) => Found(e, j, m, s, f, b, e[c].recs[n].st)
         /\ \A b, st : Found(e, j, m, s, f, b, st) => st = e[c].recs[n].st
<1>1. c \in Files /\ n \in Nat /\ Seen(e, j, m, s, c, n)
  BY DEF OneMore
<1>2. \A g \in Files, p \in Nat : g >= f =>
        /\ Seen(e, j, m, s, g, p) <=> Seen(d, j, l, q, g, p) \/ (g = c /\ p = n)
        /\ Seen(d, j, l, q, g, p) => d[g].recs[p] = e[g].recs[p]
  BY DEF OneMore
<1>3. \A g \in Files, p \in Nat : Seen(d, j, l, q, g, p) => Before(g, p, c, n)
  BY DEF OneMore
<1>4. ASSUME NEW b, NEW st, Found(d, j, l, q, f, b, st)
      PROVE  Found(e, j, m, s, f, b, e[c].recs[n].st)
  <2>1. f \in Files
    BY <1>4 DEF Found
  <2>2. PICK p \in Nat : Source(d, j, l, q, f, p) /\ d[f].recs[p].body = b
    BY <1>4 DEF Found
  <2>3. Seen(d, j, l, q, f, p) /\ Before(f, p, c, n) /\ f >= f
    BY <1>3, <2>1, <2>2, Numbers DEF Source
  <2>4. Seen(e, j, m, s, f, p) /\ e[f].recs[p] = d[f].recs[p]
    BY <1>2, <2>1, <2>3
  <2>5. ASSUME NEW g \in Files, NEW r \in Nat, Seen(e, j, m, s, g, r), g >= f
        PROVE  Before(g, r, c, n) \/ (g = c /\ r = n)
    BY <1>2, <1>3, <2>5
  <2>6. Source(e, j, m, s, f, p)
    <3>1. ASSUME NEW g \in Files, NEW r \in Nat, Seen(e, j, m, s, g, r), Before(f, p, g, r)
          PROVE  ~IsFull(e[g].recs[r]) /\ Valid(e[g].recs[r])
      <4>1. g >= f
        BY <2>1, <3>1, Order, Numbers
      <4>2. CASE g = c /\ r = n
        BY <4>2
      <4>3. CASE Seen(d, j, l, q, g, r)
        <5>1. e[g].recs[r] = d[g].recs[r]
          BY <1>2, <4>1, <4>3
        <5> QED BY <2>2, <3>1, <4>3, <5>1 DEF Source
      <4> QED BY <1>2, <3>1, <4>1, <4>2, <4>3
    <3>2. IsFull(e[f].recs[p]) /\ Valid(e[f].recs[p])
      BY <2>2, <2>4 DEF Source
    <3> QED BY <2>4, <3>1, <3>2 DEF Source
  <2>7. Final(e, j, m, s, c, n)
    <3>1. ASSUME NEW g \in Files, NEW r \in Nat, Seen(e, j, m, s, g, r), Before(c, n, g, r)
          PROVE  FALSE
      <4>1. f <= c /\ c <= g
        BY <1>1, <2>1, <2>3, <3>1, Order
      <4>2. g >= f
        BY <1>1, <2>1, <4>1, Numbers
      <4>3. Before(g, r, c, n) \/ (g = c /\ r = n)
        BY <2>5, <3>1, <4>2
      <4> QED BY <1>1, <3>1, <4>3, Order
    <3> QED BY <1>1, <3>1 DEF Final
  <2>8. \E p2 \in Nat : Source(e, j, m, s, f, p2) /\ e[f].recs[p2].body = b
    BY <2>2, <2>4, <2>6
  <2> QED BY <1>1, <2>1, <2>7, <2>8 DEF Found
<1>5. ASSUME NEW b, NEW st, Found(e, j, m, s, f, b, st)
      PROVE  st = e[c].recs[n].st
  <2>1. f \in Files
    BY <1>5 DEF Found
  <2>2. PICK p \in Nat : Source(e, j, m, s, f, p)
    BY <1>5 DEF Found
  <2>3. PICK g \in Files, r \in Nat : Final(e, j, m, s, g, r) /\ e[g].recs[r].st = st
    BY <1>5 DEF Found
  <2>4. f <= g
    BY <2>1, <2>2, <2>3, FinalAfter
  <2>5. g >= f /\ Seen(e, j, m, s, g, r)
    BY <2>1, <2>3, <2>4, Numbers DEF Final
  <2>6. Before(g, r, c, n) \/ (g = c /\ r = n)
    BY <1>2, <1>3, <2>5
  <2>7. ~Before(g, r, c, n)
    BY <1>1, <2>3 DEF Final
  <2> QED BY <2>3, <2>6, <2>7
<1> QED BY <1>4, <1>5

\* A short record is not where the job is taken from.
LEMMA ShortSource ==
  ASSUME NEW d, NEW l, NEW q, NEW e, NEW m, NEW s, NEW j, NEW c, NEW n, NEW f \in Files, NEW p \in Nat,
         OneMore(d, l, q, e, m, s, j, c, n, f), ~IsFull(e[c].recs[n]),
         Source(e, j, m, s, f, p)
  PROVE  Source(d, j, l, q, f, p) /\ d[f].recs[p] = e[f].recs[p]
<1>1. \A g \in Files, r \in Nat : g >= f =>
        /\ Seen(e, j, m, s, g, r) <=> Seen(d, j, l, q, g, r) \/ (g = c /\ r = n)
        /\ Seen(d, j, l, q, g, r) => d[g].recs[r] = e[g].recs[r]
  BY DEF OneMore
<1>2. Seen(e, j, m, s, f, p) /\ IsFull(e[f].recs[p]) /\ Valid(e[f].recs[p])
  BY DEF Source
<1>3. f >= f
  BY Numbers
<1>4. Seen(d, j, l, q, f, p) /\ d[f].recs[p] = e[f].recs[p]
  BY <1>1, <1>2, <1>3
<1>5. ASSUME NEW g \in Files, NEW r \in Nat, Seen(d, j, l, q, g, r), Before(f, p, g, r)
      PROVE  ~IsFull(d[g].recs[r]) /\ Valid(d[g].recs[r])
  <2>1. g >= f
    BY <1>5, Order, Numbers
  <2>2. Seen(e, j, m, s, g, r) /\ d[g].recs[r] = e[g].recs[r]
    BY <1>1, <1>5, <2>1
  <2> QED BY <1>5, <2>2 DEF Source
<1> QED BY <1>2, <1>4, <1>5 DEF Source

\* There is one last record at most.
LEMMA OneFinal ==
  ASSUME NEW e, NEW m, NEW s, NEW j, NEW c \in Files, NEW n \in Nat, Final(e, j, m, s, c, n),
         NEW g \in Files, NEW r \in Nat, Final(e, j, m, s, g, r)
  PROVE  g = c /\ r = n
<1>1. ~Before(g, r, c, n) /\ ~Before(c, n, g, r)
  BY DEF Final
<1> QED BY <1>1, Order

-----------------------------------------------------------------------------
(* The invariant. *)

Exposed(j) == j \in DOMAIN acked /\ acked[j] = "exposed"

\* The command's own record is written.
Past == pc = "compact" \/ run.moving # 0
Done(op, j) == Past /\ w.use /\ run.op = op /\ run.job = j /\ ~Exposed(j)

\* Jobs that have to be in the directory, in state buried perhaps, and jobs that must not be.
Sure(j) == j # run.moving /\ (Relied(j) \/ Done("put", j))
SureBuried(j) == Relied(j) /\ (acked[j] = "buried" \/ Done("bury", j))
SureGone(j) == j \in gone \/ Done("delete", j)

\* File f is not collected as long as the job j is in it.
Stays(j, f) ==
  /\ Running => Holds(w, f, j)
  /\ pc = "read" => f > rd.last \/ f = w.reading \/ Holds(w, f, j)

\* Recovery finds the job, with its body.
Lasts(j) ==
  \E f \in Files, st \in States :
    InDir(dir, j, f, TRUE, st) /\ Stays(j, f) /\ (SureBuried(j) => st = "buried")

\* Recovery does not find the job.
Absent(j) == \A f \in Files, p \in Nat : ~Source(dir, j, MaxFiles + 1, 1, f, p)

\* A job that a client relies on is in the directory, and one that was deleted is not.
KeptInv == \A j \in Ids : Sure(j) => Lasts(j)
GoneInv == \A j \in Ids : SureGone(j) => Absent(j)

\* Nor does the server know it, and the jobs that clients rely on are as they think.
KnownInv ==
  Running =>
    /\ \A j \in Ids : Relied(j) =>
         /\ j \in DOMAIN jobs /\ jobs[j].good /\ jobs[j].st # "invalid"
         /\ acked[j] = "buried" => jobs[j].st = "buried" /\ jobs[j].where \subseteq {"buried"}
    /\ \A j \in gone : j \notin DOMAIN jobs
    /\ pc = "replay" => \A j \in DOMAIN jobs : jobs[j].where \subseteq {jobs[j].st}

\* The job of a command.
CommandInv ==
  pc \in {"write", "body", "compact"} =>
    /\ run.op \in {"put", "delete"} => ~Relied(run.job)
    /\ run.op = "put" => jobs[run.job].good
    /\ run.op = "bury" => jobs[run.job].st = "buried" /\ jobs[run.job].where = {"buried"}
    /\ run.op # "delete" => jobs[run.job].st # "invalid"

\* Records are written to the current file, and later ones are empty.
CurrentInv ==
  Running /\ w.use =>
    \A f \in DOMAIN dir : f >= w.cur =>
      dir[f].ver = WalVer /\ (f > w.cur => dir[f].recs = <<>>)

\* The record whose body is not written yet.
HalfInv ==
  pc = "body" => /\ Holds(w, w.cur, Subject) /\ jobs[Subject].st # "invalid"
                 /\ dir[w.cur].recs[Len(dir[w.cur].recs)].st = jobs[Subject].st

\* A job in the log is not deleted but by the command, before it writes, and does not move then.
InvalidInv ==
  /\ w.use => \A j \in DOMAIN jobs : InList(w, j) /\ jobs[j].st = "invalid" =>
       pc = "write" /\ run.moving = 0 /\ run.op = "delete" /\ run.job = j
  /\ w.use /\ run.moving # 0 => jobs[run.moving].st # "invalid"

\* Where recovery is.
NextFileOf == IF w.reading = 0 THEN rd.last + 1 ELSE rd.last
NextRecOf == IF w.reading = 0 THEN 1 ELSE rd.pos

\* Recovery knows the jobs of the records that it has read, and as these have them.
FoundInv ==
  pc = "read" =>
    /\ \A j \in Ids, f \in Files, p \in Nat :
         Source(dir, j, NextFileOf, NextRecOf, f, p) => j \in DOMAIN jobs
    /\ \A j \in DOMAIN jobs :
         /\ jobs[j].where = {} /\ jobs[j].st # "invalid"
         /\ \E f \in Files, st \in States :
              /\ Found(dir, j, NextFileOf, NextRecOf, f, jobs[j].good, st)
              /\ Holds(w, f, j) /\ jobs[j].st = RecoveredState(st)

DurInv == KeptInv /\ GoneInv /\ KnownInv /\ CommandInv
          /\ CurrentInv /\ HalfInv /\ InvalidInv /\ FoundInv

-----------------------------------------------------------------------------
(* Steps that write no record. *)

\* Of job j the same records are in the files that stay, and files go from the first on.
Trim(d, e, j) ==
  /\ \A g \in Files, p \in Nat : g \in DOMAIN e =>
       /\ RecOf(d, j, g, p) <=> RecOf(e, j, g, p)
       /\ RecOf(d, j, g, p) => d[g].recs[p] = e[g].recs[p]
  /\ \A f, g \in Files : f \in DOMAIN d /\ f \notin DOMAIN e /\ g \in DOMAIN e => f < g

\* The same records are read from a file on that stays.
LEMMA TrimSame ==
  ASSUME NEW d, NEW e, NEW j, Trim(d, e, j), NEW f \in Files, f \in DOMAIN e, NEW l, NEW q
  PROVE  SameRecords(d, l, q, e, l, q, j, f) /\ SameRecords(e, l, q, d, l, q, j, f)
<1>1. ASSUME NEW g \in Files, NEW p \in Nat, g >= f
      PROVE  /\ RecOf(d, j, g, p) <=> RecOf(e, j, g, p)
             /\ RecOf(d, j, g, p) => d[g].recs[p] = e[g].recs[p]
  <2>1. CASE g \in DOMAIN e
    BY <2>1 DEF Trim
  <2>2. CASE g \notin DOMAIN e
    <3>1. g \notin DOMAIN d
      BY <1>1, <2>2, Numbers DEF Trim
    <3> QED BY <2>2, <3>1 DEF RecOf
  <2> QED BY <2>1, <2>2
<1> QED BY <1>1 DEF SameRecords, Seen

\* The files that stay are as they were, or new and empty.
LEMMA TrimIs ==
  ASSUME NEW d, NEW e,
         \A f \in DOMAIN e : f \in DOMAIN d => e[f] = d[f],
         \A f \in DOMAIN e : f \notin DOMAIN d => e[f].recs = <<>>,
         \A f, g \in Files : f \in DOMAIN d /\ f \notin DOMAIN e /\ g \in DOMAIN e => f < g
  PROVE  \A j : Trim(d, e, j)
BY DEF Trim, RecOf

\* What a source and a final record are part of.
LEMMA InDirFile ==
  ASSUME NEW d, NEW j, NEW f, NEW b, NEW st, InDir(d, j, f, b, st)
  PROVE  f \in DOMAIN d /\ f \in Files /\ d[f].ver = WalVer
BY DEF InDir, Found, Source, Seen, RecOf

\* What is kept when a step leaves a job's records, and every file that it may be found in.
LEMMA KeptOne ==
  ASSUME NEW j, Lasts(j), SureBuried(j)' => SureBuried(j), Trim(dir, dir', j),
         \A f \in Files : f \in DOMAIN dir /\ dir[f].ver = WalVer /\ Stays(j, f) =>
           f \in DOMAIN dir' /\ Stays(j, f)'
  PROVE  Lasts(j)'
<1>1. PICK f \in Files, st \in States :
        InDir(dir, j, f, TRUE, st) /\ Stays(j, f) /\ (SureBuried(j) => st = "buried")
  BY DEF Lasts
<1>2. f \in DOMAIN dir /\ dir[f].ver = WalVer
  BY <1>1, InDirFile
<1>3. f \in DOMAIN dir' /\ Stays(j, f)'
  BY <1>1, <1>2
<1>4. InDir(dir', j, f, TRUE, st)
  BY <1>1, <1>3, TrimSame, SameFound DEF InDir
<1>5. (SureBuried(j))' => st = "buried"
  BY <1>1
<1> QED BY <1>3, <1>4, <1>5 DEF Lasts

\* Nor does a job come back by it.
LEMMA GoneOne ==
  ASSUME NEW j, Absent(j), Trim(dir, dir', j)
  PROVE  Absent(j)'
<1> SUFFICES ASSUME NEW f \in Files, NEW p \in Nat, Source(dir', j, MaxFiles + 1, 1, f, p)
             PROVE  FALSE
  BY DEF Absent
<1>1. f \in DOMAIN dir'
  BY DEF Source, Seen, RecOf
<1>2. SameRecords(dir', MaxFiles + 1, 1, dir, MaxFiles + 1, 1, j, f)
  BY <1>1, TrimSame
<1>3. Source(dir, j, MaxFiles + 1, 1, f, p)
  BY <1>2, SameSource
<1> QED BY <1>3 DEF Absent

\* A job is found in one place at most.
LEMMA FoundOnce ==
  ASSUME NEW e, NEW m, NEW s, NEW j, NEW f, NEW b, NEW st, Found(e, j, m, s, f, b, st),
         NEW g, NEW c, NEW tt, Found(e, j, m, s, g, c, tt)
  PROVE  f = g /\ b = c /\ st = tt
<1>1. f \in Files /\ g \in Files
  BY DEF Found
<1>2. PICK p \in Nat : Source(e, j, m, s, f, p) /\ e[f].recs[p].body = b
  BY DEF Found
<1>3. PICK q \in Nat : Source(e, j, m, s, g, q) /\ e[g].recs[q].body = c
  BY DEF Found
<1>4. ~Before(f, p, g, q) /\ ~Before(g, q, f, p)
  BY <1>1, <1>2, <1>3 DEF Source
<1>5. f = g /\ p = q
  BY <1>1, <1>4, Order
<1>6. PICK h \in Files, r \in Nat : Final(e, j, m, s, h, r) /\ e[h].recs[r].st = st
  BY DEF Found
<1>7. PICK i \in Files, t \in Nat : Final(e, j, m, s, i, t) /\ e[i].recs[t].st = tt
  BY DEF Found
<1>8. h = i /\ r = t
  BY <1>6, <1>7, OneFinal
<1> QED BY <1>2, <1>3, <1>5, <1>6, <1>7, <1>8

\* The file of a job that the server has in a list is there.
LEMMA HoldsDir ==
  ASSUME NEW x, NEW d, Disk(x, d), Log(x, d), NEW j, NEW f \in Files, Holds(x, f, j)
  PROVE  f \in DOMAIN d
<1>1. x.list[f] # <<>>
  BY DEF Holds
<1> QED BY <1>1 DEF Disk, Chain, Log

\* No job has the number 0.
LEMMA JobNumbers == \A j \in Ids : j # 0
BY DEF Ids

-----------------------------------------------------------------------------
(* Steps of a server that runs and writes no record.                       *)

\* The files are as they were, new ones are empty, and files go from the first on.
QuietDir ==
  /\ \A f \in DOMAIN dir' : f \in DOMAIN dir => dir'[f] = dir[f]
  /\ \A f \in DOMAIN dir' : f \notin DOMAIN dir => dir'[f].ver = WalVer /\ dir'[f].recs = <<>>
  /\ \A f, g \in Files : f \in DOMAIN dir /\ f \notin DOMAIN dir' /\ g \in DOMAIN dir' => f < g

\* Recovery reads the same.
LEMMA QuietTrim ==
  ASSUME QuietDir
  PROVE  \A j : Trim(dir, dir', j)
<1> DEFINE e == dir'
<1>1. /\ \A f \in DOMAIN e : f \in DOMAIN dir => e[f] = dir[f]
      /\ \A f \in DOMAIN e : f \notin DOMAIN dir => e[f].recs = <<>>
      /\ \A f, g \in Files : f \in DOMAIN dir /\ f \notin DOMAIN e /\ g \in DOMAIN e => f < g
  BY DEF QuietDir
<1> HIDE DEF e
<1>2. \A j : Trim(dir, e, j)
  BY <1>1, TrimIs
<1> QED BY <1>2 DEF e

\* The current file does not go back.
LEMMA QuietCurrent ==
  ASSUME FilesInv, FilesInv', CurrentInv, Running, Running', QuietDir,
         w'.use => w.use /\ w'.cur >= w.cur
  PROVE  CurrentInv'
<1> SUFFICES ASSUME w'.use, NEW f \in DOMAIN dir', f >= w'.cur
             PROVE  dir'[f].ver = WalVer /\ (f > w'.cur => dir'[f].recs = <<>>)
  BY DEF CurrentInv
<1>1. w.cur \in Nat /\ w'.cur \in Nat /\ w'.cur >= w.cur /\ w.use
  BY WalFields DEF FilesInv, Disk, Chain
<1>2. f \in Files
  BY DEF FilesInv, Disk
<1>3. f \in Nat
  BY <1>2, Numbers
<1>4. CASE f \in DOMAIN dir
  <2>1. dir'[f] = dir[f]
    BY <1>4 DEF QuietDir
  <2>2. f >= w.cur /\ (f > w'.cur => f > w.cur)
    BY <1>1, <1>3
  <2> QED BY <1>1, <1>4, <2>1, <2>2 DEF CurrentInv
<1>5. CASE f \notin DOMAIN dir
  BY <1>5 DEF QuietDir
<1> QED BY <1>4, <1>5

\* What a reservation does to the directory is quiet.
LEMMA ExtendsQuiet ==
  ASSUME FilesInv, Running, NEW v, Extends(v, dir'), Log(w', dir'),
         \A f, g \in Files : Listed(w, f) /\ ~Listed(w', f) /\ Listed(w', g) => f < g
  PROVE  QuietDir
<1>1. Log(w, dir)
  BY DEF FilesInv
<1>2. /\ \A f \in Files : Listed(w, f) <=> f \in DOMAIN dir
      /\ \A f \in Files : Listed(w', f) <=> f \in DOMAIN dir'
  BY <1>1 DEF Log
<1>3. \A f, g \in Files : f \in DOMAIN dir /\ f \notin DOMAIN dir' /\ g \in DOMAIN dir' => f < g
  BY <1>2
<1>4. /\ \A f \in DOMAIN dir' : f \in DOMAIN dir => dir'[f] = dir[f]
      /\ \A f \in DOMAIN dir' : f \notin DOMAIN dir => dir'[f].ver = WalVer /\ dir'[f].recs = <<>>
  BY DEF Extends
<1> QED BY <1>3, <1>4 DEF QuietDir

\* A directory that is as it was is quiet.
LEMMA SameQuiet ==
  ASSUME dir' = dir
  PROVE  QuietDir
BY DEF QuietDir

\* A quiet step finds every job where it was.
LEMMA QuietKeeps ==
  ASSUME FilesInv, FilesInv', DurInv, Running, Running', QuietDir,
         w'.use => w.use /\ w'.cur >= w.cur,
         \A j \in Ids : (Sure(j))' =>
           /\ Sure(j) /\ ((SureBuried(j))' => SureBuried(j))
           /\ \A f \in Files : Holds(w, f, j) => Holds(w', f, j),
         \A j \in Ids : (SureGone(j))' => SureGone(j),
         KnownInv', CommandInv', InvalidInv', pc' # "body"
  PROVE  DurInv'
<1>1. \A j : Trim(dir, dir', j)
  BY QuietTrim
<1>2. CurrentInv' /\ HalfInv'
  BY QuietCurrent DEF DurInv, HalfInv
<1>3. pc' # "read"
  BY DEF Running
<1>4. FoundInv'
  BY <1>3 DEF FoundInv
<1>5. ASSUME NEW j \in Ids, (Sure(j))' PROVE (Lasts(j))'
  <2>1. Sure(j) /\ ((SureBuried(j))' => SureBuried(j))
    BY <1>5
  <2>2. Lasts(j)
    BY <2>1 DEF DurInv, KeptInv
  <2>3. Trim(dir, dir', j)
    BY <1>1
  <2>4. ASSUME NEW f \in Files, Stays(j, f) PROVE f \in DOMAIN dir' /\ (Stays(j, f))'
    <3>1. Holds(w, f, j)
      BY <2>4 DEF Stays
    <3>2. Holds(w', f, j)
      BY <1>5, <3>1
    <3>3. Disk(w', dir') /\ Log(w', dir')
      BY DEF FilesInv
    <3>4. f \in DOMAIN dir'
      BY <3>2, <3>3, HoldsDir
    <3> QED BY <1>3, <3>2, <3>4 DEF Stays, Holds
  <2> QED BY <2>1, <2>2, <2>3, <2>4, KeptOne
<1>6. ASSUME NEW j \in Ids, (SureGone(j))' PROVE (Absent(j))'
  <2>1. Absent(j) /\ Trim(dir, dir', j)
    BY <1>1, <1>6 DEF DurInv, GoneInv
  <2> QED BY <2>1, GoneOne
<1>7. KeptInv' /\ GoneInv'
  BY <1>5, <1>6 DEF KeptInv, GoneInv
<1> QED BY <1>2, <1>4, <1>7 DEF DurInv

-----------------------------------------------------------------------------
(* Commands. *)

\* Without a command, what clients rely on is all that has to be there.
LEMMA RestSure ==
  ASSUME NEW j \in Ids, pc # "compact", run.moving = 0
  PROVE  /\ Sure(j) <=> Relied(j)
         /\ SureBuried(j) <=> Relied(j) /\ acked[j] = "buried"
         /\ SureGone(j) <=> j \in gone
BY JobNumbers DEF Sure, SureBuried, SureGone, Done, Past

\* The same after a step.
LEMMA RestSureNext ==
  ASSUME NEW j \in Ids, pc' # "compact", run'.moving = 0
  PROVE  /\ (Sure(j))' <=> (Relied(j))'
         /\ (SureBuried(j))' <=> (Relied(j))' /\ acked'[j] = "buried"
         /\ (SureGone(j))' <=> j \in gone'
BY JobNumbers DEF Sure, SureBuried, SureGone, Done, Past

\* The server at rest, or at the replay, takes a step after which clients rely on no more.
LEMMA RestKeeps ==
  ASSUME FilesInv, FilesInv', DurInv, pc \in {"idle", "replay"},
         pc' \in {"idle", "replay", "write", "hung"}, run'.moving = 0, QuietDir,
         w'.use => w.use /\ w'.cur >= w.cur,
         \A j \in Ids, f \in Files : Holds(w, f, j) => Holds(w', f, j),
         \A j \in Ids : (Relied(j))' => Relied(j) /\ acked'[j] = acked[j],
         gone' \subseteq gone, KnownInv', CommandInv', InvalidInv'
  PROVE  DurInv'
<1>1. run.moving = 0 /\ Running /\ Running' /\ pc' # "body"
  BY NoRunFields DEF FilesInv, RunInv, Running
<1>2. ASSUME NEW j \in Ids, (Sure(j))' PROVE Sure(j) /\ ((SureBuried(j))' => SureBuried(j))
  <2>1. (Relied(j))'
    BY <1>2, RestSureNext
  <2>2. Relied(j) /\ acked'[j] = acked[j]
    BY <2>1
  <2>3. Sure(j)
    BY <1>1, <2>2, RestSure
  <2>4. (SureBuried(j))' => SureBuried(j)
    BY <1>1, <2>2, RestSure, RestSureNext
  <2> QED BY <2>3, <2>4
<1>3. \A j \in Ids : (SureGone(j))' => SureGone(j)
  BY <1>1, RestSure, RestSureNext
<1> QED BY <1>1, <1>2, <1>3, QuietKeeps

\* A job is put in another place, where clients expect it.
LEMMA PlaceKnown ==
  ASSUME FilesInv, DurInv, Running, NEW k \in DOMAIN jobs, NEW st \in States, NEW c \in SUBSET States,
         jobs' = Place(k, st, c),
         \A j \in Ids : (Relied(j))' => Relied(j) /\ acked'[j] = acked[j], gone' \subseteq gone,
         (Relied(k))' => /\ st # "invalid"
                         /\ acked[k] = "buried" => st = "buried" /\ c \subseteq {"buried"},
         pc' = "replay" => c \subseteq {st} /\ pc = "replay"
  PROVE  KnownInv'
<1>1. JobMap(jobs) /\ k \in Ids
  BY Parts, JobFields
<1>2. /\ DOMAIN jobs' = DOMAIN jobs
      /\ jobs'[k].st = st /\ jobs'[k].where = c
      /\ \A j \in DOMAIN jobs : jobs'[j].good = jobs[j].good
      /\ \A j \in DOMAIN jobs : j # k => jobs'[j] = jobs[j]
  BY <1>1, PlaceFields
<1>3. /\ \A j \in Ids : Relied(j) =>
           /\ j \in DOMAIN jobs /\ jobs[j].good /\ jobs[j].st # "invalid"
           /\ acked[j] = "buried" => jobs[j].st = "buried" /\ jobs[j].where \subseteq {"buried"}
      /\ \A j \in gone : j \notin DOMAIN jobs
      /\ pc = "replay" => \A j \in DOMAIN jobs : jobs[j].where \subseteq {jobs[j].st}
  BY DEF DurInv, KnownInv
<1>4. ASSUME NEW j \in Ids, (Relied(j))'
      PROVE  /\ j \in DOMAIN jobs' /\ jobs'[j].good /\ jobs'[j].st # "invalid"
             /\ acked'[j] = "buried" => jobs'[j].st = "buried" /\ jobs'[j].where \subseteq {"buried"}
  <2>1. Relied(j) /\ acked'[j] = acked[j]
    BY <1>4
  <2>2. j \in DOMAIN jobs /\ jobs[j].good
    BY <1>3, <2>1
  <2>3. CASE j = k
    BY <1>2, <1>4, <2>1, <2>2, <2>3
  <2>4. CASE j # k
    <3>1. jobs'[j] = jobs[j]
      BY <1>2, <2>2, <2>4
    <3> QED BY <1>2, <1>3, <2>1, <2>2, <3>1
  <2> QED BY <2>3, <2>4
<1>5. \A j \in gone' : j \notin DOMAIN jobs'
  BY <1>2, <1>3
<1>6. ASSUME pc' = "replay", NEW j \in DOMAIN jobs' PROVE jobs'[j].where \subseteq {jobs'[j].st}
  <2>1. CASE j = k
    BY <1>2, <1>6, <2>1
  <2>2. CASE j # k
    <3>1. jobs'[j] = jobs[j]
      BY <1>2, <1>6, <2>2
    <3> QED BY <1>2, <1>3, <1>6, <3>1
  <2> QED BY <2>1, <2>2
<1> QED BY <1>4, <1>5, <1>6 DEF KnownInv

\* It is not deleted, or by the command.
LEMMA PlaceInvalid ==
  ASSUME FilesInv, DurInv, pc \in {"idle", "replay"}, NEW k \in DOMAIN jobs,
         NEW st \in States, NEW c \in SUBSET States, jobs' = Place(k, st, c),
         w'.use = w.use, \A j : InList(w', j) => InList(w, j), run'.moving = 0,
         st = "invalid" => pc' = "write" /\ run'.op = "delete" /\ run'.job = k
  PROVE  InvalidInv'
<1>1. JobMap(jobs)
  BY Parts
<1>2. /\ DOMAIN jobs' = DOMAIN jobs /\ jobs'[k].st = st
      /\ \A j \in DOMAIN jobs : j # k => jobs'[j] = jobs[j]
  BY <1>1, PlaceFields
<1> SUFFICES ASSUME w'.use, NEW j \in DOMAIN jobs', InList(w', j), jobs'[j].st = "invalid"
             PROVE  pc' = "write" /\ run'.moving = 0 /\ run'.op = "delete" /\ run'.job = j
  BY DEF InvalidInv
<1>3. CASE j = k
  BY <1>2, <1>3
<1>4. CASE j # k
  <2>1. jobs[j].st = "invalid" /\ InList(w, j) /\ j \in DOMAIN jobs
    BY <1>2, <1>4
  <2> QED BY <2>1 DEF DurInv, InvalidInv
<1> QED BY <1>3, <1>4

\* A reservation is quiet.
LEMMA SpaceQuiet ==
  ASSUME FilesInv, Running, Log(w', dir'), NEW room \in Rooms, NEW n \in Int,
         NEW v, v = reserve([w EXCEPT !.room = room], n),
         NEW u, u \in {v, IF v.ok THEN [v EXCEPT !.spare = @ + 1] ELSE v}, SetWal(u)
  PROVE  QuietDir /\ w'.use = w.use /\ w'.cur >= w.cur /\ w'.list = w.list
<1>1. Disk(w, dir) /\ Log(w, dir)
  BY DEF FilesInv
<1>2. /\ Fit(v) /\ v.list = w.list /\ v.ok \in BOOLEAN /\ v.cur >= w.cur
      /\ \A f, g \in Files : Listed(w, f) /\ ~Listed(v, f) /\ Listed(v, g) => f < g
  BY <1>1, Reserving
<1>3. v \in WalRec /\ v.use = w.use
  BY <1>2 DEF Fit, Chain
<1> DEFINE more == v.spare + 1
           x == [v EXCEPT !.spare = more]
<1>4. more \in Nat
  BY <1>3, WalFields
<1>5. u \in {v, x}
  OBVIOUS
<1> HIDE DEF more
<1>6. /\ x \in WalRec /\ x.files = v.files /\ x.cur = v.cur /\ x.use = v.use /\ x.open = v.open
      /\ x.free = v.free /\ x.list = v.list
  BY <1>3, <1>4 DEF WalRec
<1> HIDE DEF x
<1>7. /\ u \in WalRec /\ u.files = v.files /\ u.cur = v.cur /\ u.use = v.use /\ u.open = v.open
      /\ u.free = v.free /\ u.list = v.list
  BY <1>3, <1>5, <1>6
<1>8. DirOf(u) = DirOf(v)
  BY <1>7 DEF DirOf
<1>9. w' = Settled(u) /\ dir' = DirOf(v)
  BY <1>8 DEF SetWal
<1>10. Extends(v, dir')
  BY <1>1, <1>2, <1>9, Extending
<1>11. w'.files = u.files /\ w'.cur = u.cur /\ w'.use = u.use /\ w'.list = u.list
  BY <1>7, <1>9, SettledFields
<1>12. \A f \in Files : Listed(w', f) <=> Listed(v, f)
  BY <1>7, <1>11 DEF Listed
<1>13. QuietDir
  BY <1>2, <1>10, <1>12, ExtendsQuiet
<1> QED BY <1>2, <1>3, <1>7, <1>11, <1>13

\* What lists hold is the same when they are.
LEMMA ListHolds ==
  ASSUME w'.list = w.list
  PROVE  /\ \A j, f : Holds(w, f, j) <=> Holds(w', f, j)
         /\ \A j : InList(w, j) <=> InList(w', j)
BY DEF Holds, InList

\* Forgetting a job leaves the others as they are.
LEMMA ForgetFields ==
  ASSUME NEW j, acked' = Forget(j), NEW k, (Relied(k))'
  PROVE  Relied(k) /\ acked'[k] = acked[k] /\ k # j
BY DEF Forget, Relied

\* Put.
LEMMA PutDur ==
  ASSUME FilesInv, FilesInv', DurInv, NEW kind \in Kinds, NEW delayed \in BOOLEAN,
         NEW room \in Rooms, Put(kind, delayed, room)
  PROVE  DurInv'
<1> DEFINE j == nextId
           st == IF delayed THEN "delayed" ELSE "ready"
           n == WalResvPut(kind)
           v == reserve([w EXCEPT !.room = room], n)
           N(s, c) == [k \in DOMAIN jobs \cup {j} |->
                         IF k = j THEN [st |-> s, kind |-> kind, good |-> TRUE, where |-> c]
                         ELSE jobs[k]]
<1>1. pc = "idle" /\ j \in Ids
  BY DEF Put, Command
<1>2. SetWal(v) /\ gone' = gone \ {j} /\ acked' = Forget(j)
  BY DEF Put
<1>3. \/ Hangs
      \/ jobs' = N(st, {st}) /\ Working("put", j, n)
      \/ jobs' = N("invalid", {}) /\ Answer("OUT_OF_MEMORY")
  BY DEF Put
<1>4. n \in Int
  BY Numbers, SizesAssumption DEF WalResvPut
<1>5. Running /\ run = NoRun
  BY <1>1 DEF Running, RunInv, FilesInv
<1>6. pc' \in {"hung", "write", "idle"} /\ run'.moving = 0 /\ Running'
  BY <1>3, <1>5, NoRunFields DEF Hangs, Working, Answer, Running
<1>7. Log(w', dir')
  BY <1>6 DEF FilesInv
<1> HIDE DEF n
<1>8. v \in {v, IF v.ok THEN [v EXCEPT !.spare = @ + 1] ELSE v}
  OBVIOUS
<1>9. QuietDir /\ w'.use = w.use /\ w'.cur >= w.cur /\ w'.list = w.list
  BY <1>2, <1>4, <1>5, <1>7, <1>8, SpaceQuiet
<1> HIDE DEF v
<1>10. \A k \in Ids : (Relied(k))' => Relied(k) /\ acked'[k] = acked[k] /\ k # j
  BY <1>2, ForgetFields
<1>11. (\A k \in DOMAIN jobs : k < nextId) /\ (\A k \in Ids : InList(w, k) => k < nextId)
       /\ JobMap(jobs) /\ \A k \in Ids : ~(k < k)
  BY Parts DEF Ids
<1>12. /\ \A k \in Ids : Relied(k) =>
            /\ k \in DOMAIN jobs /\ jobs[k].good /\ jobs[k].st # "invalid"
            /\ acked[k] = "buried" => jobs[k].st = "buried" /\ jobs[k].where \subseteq {"buried"}
       /\ \A k \in gone : k \notin DOMAIN jobs
  BY <1>5 DEF DurInv, KnownInv
<1>13. /\ \A k \in DOMAIN jobs : k \in DOMAIN jobs' /\ (k # j => jobs'[k] = jobs[k])
       /\ \A k \in DOMAIN jobs' : k # j => k \in DOMAIN jobs
       /\ pc' = "write" => /\ run'.op = "put" /\ run'.job = j /\ j \in DOMAIN jobs'
                           /\ jobs'[j].good /\ jobs'[j].st # "invalid"
  <2>1. CASE Hangs
    BY <2>1 DEF Hangs
  <2>2. CASE jobs' = N(st, {st}) /\ Working("put", j, n)
    BY <2>2 DEF Working
  <2>3. CASE jobs' = N("invalid", {}) /\ Answer("OUT_OF_MEMORY")
    BY <2>3 DEF Answer
  <2> QED BY <1>3, <2>1, <2>2, <2>3
<1> HIDE DEF N, st
<1>14. KnownInv'
  <2>1. ASSUME NEW k \in Ids, (Relied(k))'
        PROVE  /\ k \in DOMAIN jobs' /\ jobs'[k].good /\ jobs'[k].st # "invalid"
               /\ acked'[k] = "buried" => jobs'[k].st = "buried" /\ jobs'[k].where \subseteq {"buried"}
    <3>1. Relied(k) /\ acked'[k] = acked[k] /\ k # j
      BY <1>10, <2>1
    <3>2. k \in DOMAIN jobs
      BY <1>12, <3>1
    <3>3. k \in DOMAIN jobs' /\ jobs'[k] = jobs[k]
      BY <1>13, <3>1, <3>2
    <3> QED BY <1>12, <3>1, <3>3
  <2>2. \A k \in gone' : k \notin DOMAIN jobs'
    BY <1>2, <1>12, <1>13
  <2> QED BY <1>6, <2>1, <2>2 DEF KnownInv
<1>15. CommandInv'
  <2>1. PICK i \in Ids : i = nextId
    BY <1>1
  <2>2. ~(Relied(i))'
    BY <1>10, <2>1
  <2>3. pc' = "write" => /\ run'.op = "put" /\ run'.job = i /\ jobs'[i].good /\ jobs'[i].st # "invalid"
    BY <1>13, <2>1
  <2> QED BY <1>6, <2>2, <2>3 DEF CommandInv
<1>16. InvalidInv'
  <2> SUFFICES ASSUME w'.use, NEW k \in DOMAIN jobs', InList(w', k), jobs'[k].st = "invalid" PROVE FALSE
    BY <1>6 DEF InvalidInv
  <2>1. InList(w, k) /\ k \in Ids
    BY <1>9, ListHolds, Parts DEF FilesInv, JobTypes
  <2>2. k # j
    BY <1>1, <1>11, <2>1
  <2>3. k \in DOMAIN jobs /\ jobs'[k] = jobs[k]
    BY <1>13, <2>2
  <2> QED BY <1>1, <1>9, <2>1, <2>3 DEF DurInv, InvalidInv
<1>17. \A k \in Ids, f \in Files : Holds(w, f, k) => Holds(w', f, k)
  BY <1>9, ListHolds
<1>18. gone' \subseteq gone
  BY <1>2
<1> HIDE DEF j
<1> QED BY <1>1, <1>6, <1>9, <1>10, <1>14, <1>15, <1>16, <1>17, <1>18, RestKeeps

\* Commands and turns that leave the log alone.
LEMMA TurnDur ==
  ASSUME FilesInv, FilesInv', DurInv, NEW j \in DOMAIN jobs,
         Reserve(j) \/ Requeue(j) \/ Delete(j) \/ Release(j)
  PROVE  DurInv'
<1>1. JobMap(jobs) /\ j \in Ids /\ jobs[j].where \subseteq States /\ jobs[j].st \in States
  BY Parts, JobFields
<1>2. pc = "idle" /\ w' = w /\ dir' = dir /\ gone' = gone
  BY DEF Reserve, Requeue, Delete, Release, Command
<1>3. Running /\ run = NoRun /\ run.moving = 0
  BY <1>2, NoRunFields DEF Running, RunInv, FilesInv
<1>4. QuietDir
  BY <1>2, SameQuiet
<1>5. w.cur >= w.cur
  BY <1>2, WalFields DEF FilesInv, Disk, Chain
<1>6. /\ \A k : InList(w', k) => InList(w, k)
      /\ \A k \in Ids, f \in Files : Holds(w, f, k) => Holds(w', f, k)
  BY <1>2
<1>7. (\A k \in Ids : Relied(k) =>
            /\ k \in DOMAIN jobs /\ jobs[k].good /\ jobs[k].st # "invalid"
            /\ acked[k] = "buried" => jobs[k].st = "buried" /\ jobs[k].where \subseteq {"buried"})
  BY <1>3 DEF DurInv, KnownInv
<1>8. ASSUME NEW st \in States, NEW c \in SUBSET States, jobs' = Place(j, st, c),
             \A k \in Ids : (Relied(k))' => Relied(k) /\ acked'[k] = acked[k],
             (Relied(j))' => st # "invalid" /\ acked[j] # "buried",
             pc' \in {"idle", "write"}, run'.moving = 0,
             pc' = "write" => /\ run'.job = j /\ run'.op \in {"delete", "release"}
                              /\ run'.op = "delete" => ~(Relied(j))'
                              /\ run'.op = "release" => st # "invalid",
             st = "invalid" => pc' = "write" /\ run'.op = "delete"
      PROVE  DurInv'
  <2>1. KnownInv'
    BY <1>2, <1>3, <1>8, PlaceKnown
  <2>2. InvalidInv'
    BY <1>2, <1>6, <1>8, PlaceInvalid
  <2>3. jobs'[j].st = st
    BY <1>1, <1>8, PlaceFields
  <2>4. CommandInv'
    BY <1>8, <2>3 DEF CommandInv
  <2> QED BY <1>2, <1>4, <1>5, <1>6, <1>8, <2>1, <2>2, <2>4, RestKeeps
<1>9. CASE Reserve(j) \/ Requeue(j)
  <2>1. /\ pc' = pc /\ run' = run /\ acked' = acked
        /\ \E st \in {"reserved", "ready"} :
             \E c \in {(jobs[j].where \ {"ready"}) \cup {"reserved"}, {"ready"}} :
               jobs' = Place(j, st, c)
        /\ jobs[j].where \cap {"ready", "reserved", "delayed"} # {}
    BY <1>9 DEF Reserve, Requeue
  <2>2. PICK st \in {"reserved", "ready"} :
          \E c \in {(jobs[j].where \ {"ready"}) \cup {"reserved"}, {"ready"}} : jobs' = Place(j, st, c)
    BY <2>1
  <2>3. PICK c \in {(jobs[j].where \ {"ready"}) \cup {"reserved"}, {"ready"}} : jobs' = Place(j, st, c)
    BY <2>2
  <2>4. st \in States /\ st # "invalid" /\ c \in SUBSET States
    BY <1>1 DEF States
  <2>5. \A k : (Relied(k))' <=> Relied(k)
    BY <2>1 DEF Relied
  <2>6. Relied(j) => acked[j] # "buried"
    BY <1>1, <1>7, <2>1
  <2> QED BY <1>2, <1>3, <1>8, <2>1, <2>3, <2>4, <2>5, <2>6
<1>10. CASE Delete(j)
  <2>1. /\ pc' = "write" /\ run'.op = "delete" /\ run'.job = j /\ run'.moving = 0
        /\ acked' = Forget(j) /\ jobs' = Place(j, "invalid", jobs[j].where \ {jobs[j].st})
    BY <1>10 DEF Delete, Working
  <2>2. "invalid" \in States /\ jobs[j].where \ {jobs[j].st} \in SUBSET States
    BY <1>1 DEF States
  <2>3. \A k \in Ids : (Relied(k))' => Relied(k) /\ acked'[k] = acked[k] /\ k # j
    BY <2>1, ForgetFields
  <2>4. ~(Relied(j))'
    BY <1>1, <2>3
  <2> QED BY <1>8, <2>1, <2>2, <2>3, <2>4
<1>11. CASE Release(j)
  <2>1. /\ pc' = "write" /\ run'.op = "release" /\ run'.job = j /\ run'.moving = 0
        /\ acked' = acked /\ jobs' = Place(j, "ready", {"ready"}) /\ jobs[j].where = {"reserved"}
    BY <1>11 DEF Release, Working
  <2>2. "ready" \in States /\ {"ready"} \in SUBSET States
    BY DEF States
  <2>3. \A k : (Relied(k))' <=> Relied(k)
    BY <2>1 DEF Relied
  <2>4. Relied(j) => acked[j] # "buried"
    BY <1>1, <1>7, <2>1
  <2> QED BY <1>8, <2>1, <2>2, <2>3, <2>4
<1> QED BY <1>9, <1>10, <1>11

\* Bury, and a release with a delay.
LEMMA BuryDur ==
  ASSUME FilesInv, FilesInv', DurInv, NEW j \in DOMAIN jobs, NEW room \in Rooms,
         Bury(j, room) \/ ReleaseDelayed(j, room)
  PROVE  DurInv'
<1> DEFINE v == reserve([w EXCEPT !.room = room], WalResvUpdate)
           u == IF v.ok THEN [v EXCEPT !.spare = @ + 1] ELSE v
<1>1. JobMap(jobs) /\ j \in Ids
  BY Parts, JobFields
<1>2. /\ pc = "idle" /\ jobs[j].where = {"reserved"} /\ acked' = acked /\ gone' = gone
      /\ SetWal(v) \/ SetWal(u)
  BY DEF Bury, ReleaseDelayed, Command
<1>3. \/ Hangs
      \/ Working("bury", j, WalResvUpdate) /\ jobs' = Place(j, "buried", {"buried"})
      \/ pc' = "idle" /\ run' = NoRun /\ \E st \in {"reserved", "delayed"}, c \in SUBSET {"delayed"} :
           jobs' = Place(j, st, c)
  BY DEF Bury, ReleaseDelayed, Answer
<1>4. Running /\ run = NoRun /\ run.moving = 0
  BY <1>2, NoRunFields DEF Running, RunInv, FilesInv
<1>5. WalResvUpdate \in Int
  BY Numbers DEF WalResvUpdate
<1>6. pc' \in {"hung", "write", "idle"} /\ run'.moving = 0 /\ Running'
  BY <1>3, <1>4, NoRunFields DEF Hangs, Working, Running
<1>7. Log(w', dir')
  BY <1>6 DEF FilesInv
<1>8. QuietDir /\ w'.use = w.use /\ w'.cur >= w.cur /\ w'.list = w.list
  <2> DEFINE S == {v, IF v.ok THEN [v EXCEPT !.spare = @ + 1] ELSE v}
  <2>1. v \in S /\ u \in S
    OBVIOUS
  <2>2. PICK y \in S : SetWal(y)
    BY <1>2, <2>1
  <2> HIDE DEF u
  <2> QED BY <1>4, <1>5, <1>7, <2>2, SpaceQuiet
<1> HIDE DEF v, u
<1>9. /\ \A k : InList(w', k) => InList(w, k)
      /\ \A k \in Ids, f \in Files : Holds(w, f, k) => Holds(w', f, k)
  BY <1>8, ListHolds
<1>10. \A k : (Relied(k))' <=> Relied(k)
  BY <1>2 DEF Relied
<1>11. Relied(j) => acked[j] # "buried"
  <2>1. Relied(j) /\ acked[j] = "buried" => jobs[j].where \subseteq {"buried"}
    BY <1>1, <1>4 DEF DurInv, KnownInv
  <2> QED BY <1>2, <2>1
<1>12. ASSUME NEW st \in States, NEW c \in SUBSET States, jobs' = Place(j, st, c), st # "invalid",
              pc' \in {"idle", "write"},
              pc' = "write" => /\ run'.job = j /\ run'.op = "bury" /\ st = "buried" /\ c = {"buried"}
       PROVE  DurInv'
  <2>1. KnownInv'
    BY <1>2, <1>4, <1>10, <1>11, <1>12, PlaceKnown
  <2>2. InvalidInv'
    BY <1>2, <1>6, <1>8, <1>9, <1>12, PlaceInvalid
  <2>3. jobs'[j].st = st /\ jobs'[j].where = c
    BY <1>1, <1>12, PlaceFields
  <2>4. CommandInv'
    BY <1>12, <2>3 DEF CommandInv
  <2> QED BY <1>2, <1>6, <1>8, <1>9, <1>10, <1>12, <2>1, <2>2, <2>4, RestKeeps
<1>13. CASE Hangs
  <2>1. pc' = "hung" /\ jobs' = jobs
    BY <1>13 DEF Hangs
  <2>2. KnownInv'
    BY <1>2, <1>4, <1>10, <2>1 DEF DurInv, KnownInv
  <2>3. CommandInv'
    BY <2>1 DEF CommandInv
  <2>4. InvalidInv'
    BY <1>2, <1>6, <1>8, <1>9, <2>1 DEF DurInv, InvalidInv
  <2> QED BY <1>2, <1>6, <1>8, <1>9, <1>10, <2>2, <2>3, <2>4, RestKeeps
<1>14. CASE Working("bury", j, WalResvUpdate) /\ jobs' = Place(j, "buried", {"buried"})
  <2>1. pc' = "write" /\ run'.op = "bury" /\ run'.job = j
    BY <1>14 DEF Working
  <2>2. "buried" \in States /\ {"buried"} \in SUBSET States
    BY DEF States
  <2> QED BY <1>12, <1>14, <2>1, <2>2
<1>15. ASSUME pc' = "idle", NEW st \in {"reserved", "delayed"}, NEW c \in SUBSET {"delayed"},
              jobs' = Place(j, st, c)
       PROVE  DurInv'
  <2>1. st \in States /\ c \in SUBSET States
    BY DEF States
  <2> QED BY <1>12, <1>15, <2>1
<1> QED BY <1>3, <1>13, <1>14, <1>15

\* The server begins to serve.
LEMMA ServeDur ==
  ASSUME FilesInv, FilesInv', DurInv, Serve
  PROVE  DurInv'
<1>1. /\ pc = "replay" /\ pc' = "idle"
      /\ UNCHANGED <<w, dir, jobs, run, acked, gone>>
  BY DEF Serve
<1>2. Running /\ run' = NoRun /\ run'.moving = 0
  BY <1>1, NoRunFields DEF Running, RunInv, FilesInv
<1>3. QuietDir
  BY <1>1, SameQuiet
<1>4. w'.cur >= w.cur
  BY <1>1, WalFields DEF FilesInv, Disk, Chain
<1>5. \A k : (Relied(k))' <=> Relied(k)
  BY <1>1 DEF Relied
<1>6. KnownInv'
  BY <1>1, <1>2, <1>5 DEF DurInv, KnownInv
<1>7. CommandInv'
  BY <1>1 DEF CommandInv
<1>8. InvalidInv'
  BY <1>1, <1>2 DEF DurInv, InvalidInv
<1>9. \A k \in Ids, f \in Files : Holds(w, f, k) => Holds(w', f, k)
  BY <1>1
<1> QED BY <1>1, <1>2, <1>3, <1>4, <1>5, <1>6, <1>7, <1>8, <1>9, RestKeeps

\* The replay of one job.
LEMMA ReplayDur ==
  ASSUME FilesInv, FilesInv', LogInv, DurInv, NEW room \in Rooms, protReplay(room), pc' # "down"
  PROVE  DurInv'
<1> DEFINE j == Head(rd.list)
           v == reserve([w EXCEPT !.room = room], WalResvUpdate)
<1>1. pc = "replay" /\ rd.list # <<>> /\ acked' = acked /\ gone' = gone
  BY DEF protReplay
<1>2. /\ SetWal(v)
      /\ \/ Hangs
         \/ /\ \E st \in {"ready", jobs[j].st} :
                 (st = "ready" => jobs[j].st \in {"ready", "delayed"}) /\ jobs' = Place(j, st, {st})
            /\ UNCHANGED <<pc, run>>
  <2>1. ~Died
    BY DEF Died
  <2> QED BY <2>1 DEF protReplay
<1>3. Running /\ run = NoRun /\ run.moving = 0 /\ w.use /\ rd \in CursorRec /\ JobMap(jobs)
  BY <1>1, NoRunFields, Parts DEF Running, RunInv
<1>4. j \in DOMAIN jobs
  <2>1. rd.list \in Seq(Ids)
    BY <1>3, CursorFields
  <2> DEFINE l == rd.list
  <2>2. l \in Seq(Ids) /\ l # <<>>
    BY <1>1, <2>1
  <2>3. 1 \in DOMAIN l /\ Head(l) = l[1]
    <3> HIDE DEF l
    <3> QED BY <2>2
  <2>4. \A i \in DOMAIN l : l[i] \in DOMAIN jobs
    BY <1>1 DEF LogInv, RecoveryLog
  <2> QED BY <2>3, <2>4
<1>5. WalResvUpdate \in Int
  BY Numbers DEF WalResvUpdate
<1>6. pc' \in {"hung", "replay"} /\ run'.moving = 0 /\ Running'
  BY <1>1, <1>2, <1>3 DEF Hangs, Running
<1>7. Log(w', dir')
  BY <1>6 DEF FilesInv
<1>8. v \in {v, IF v.ok THEN [v EXCEPT !.spare = @ + 1] ELSE v}
  OBVIOUS
<1>9. QuietDir /\ w'.use = w.use /\ w'.cur >= w.cur /\ w'.list = w.list
  BY <1>2, <1>3, <1>5, <1>7, <1>8, SpaceQuiet
<1> HIDE DEF v
<1>10. /\ \A k : InList(w', k) => InList(w, k)
       /\ \A k \in Ids, f \in Files : Holds(w, f, k) => Holds(w', f, k)
  BY <1>9, ListHolds
<1>11. \A k : (Relied(k))' <=> Relied(k)
  BY <1>1 DEF Relied
<1>12. CommandInv'
  BY <1>6 DEF CommandInv
<1> HIDE DEF j
<1>13. CASE Hangs
  <2>1. pc' = "hung" /\ jobs' = jobs
    BY <1>13 DEF Hangs
  <2>2. KnownInv'
    BY <1>1, <1>3, <1>11, <2>1 DEF DurInv, KnownInv
  <2>3. InvalidInv'
    BY <1>1, <1>6, <1>9, <1>10, <2>1 DEF DurInv, InvalidInv
  <2> QED BY <1>1, <1>6, <1>9, <1>10, <1>11, <1>12, <2>2, <2>3, RestKeeps
<1>14. CASE /\ \E st \in {"ready", jobs[j].st} :
                 (st = "ready" => jobs[j].st \in {"ready", "delayed"}) /\ jobs' = Place(j, st, {st})
            /\ UNCHANGED <<pc, run>>
  <2>0. PICK i \in DOMAIN jobs : i = j
    BY <1>4
  <2>1. PICK st \in {"ready", jobs[i].st} :
          (st = "ready" => jobs[i].st \in {"ready", "delayed"}) /\ jobs' = Place(i, st, {st})
    BY <1>14, <2>0
  <2>2. i \in Ids /\ jobs[i].st \in States
    BY <1>3, <1>4, JobFields
  <2>3. st \in States /\ {st} \in SUBSET States
    BY <2>2 DEF States
  <2>4. /\ Relied(i) => jobs[i].st # "invalid" /\ (acked[i] = "buried" => jobs[i].st = "buried")
    BY <1>3, <2>2 DEF DurInv, KnownInv
  <2>5. (Relied(i))' => st # "invalid" /\ (acked[i] = "buried" => st = "buried" /\ {st} \subseteq {"buried"})
    BY <1>11, <2>1, <2>4
  <2>6. KnownInv'
    <3> DEFINE c == {st}
    <3>1. /\ c \in SUBSET States /\ jobs' = Place(i, st, c)
          /\ (Relied(i))' => st # "invalid" /\ (acked[i] = "buried" => st = "buried" /\ c \subseteq {"buried"})
          /\ c \subseteq {st}
      BY <2>1, <2>3, <2>5
    <3> HIDE DEF c
    <3> QED BY <1>1, <1>3, <1>4, <1>11, <2>3, <3>1, PlaceKnown
  <2>7. st # "invalid"
    <3>1. InList(w, i)
      BY <1>1, <2>0 DEF LogInv, RecoveryLog
    <3>2. jobs[i].st # "invalid"
      BY <1>1, <1>3, <1>4, <3>1 DEF DurInv, InvalidInv
    <3> QED BY <2>1, <3>2
  <2>8. InvalidInv'
    BY <1>1, <1>4, <1>6, <1>9, <1>10, <2>1, <2>3, <2>7, PlaceInvalid
  <2> QED BY <1>1, <1>6, <1>9, <1>10, <1>11, <1>12, <2>6, <2>8, RestKeeps
<1> QED BY <1>2, <1>13, <1>14

-----------------------------------------------------------------------------
(* The work on a command. *)

\* What Expose leaves.
LEMMA ExposeFields ==
  ASSUME NEW S, Expose(S), NEW k
  PROVE  /\ (Relied(k))' => Relied(k) /\ acked'[k] = acked[k] /\ k \notin S
         /\ Exposed(k) => (Exposed(k))'
         /\ k \in S => (Exposed(k))'
         /\ k \in gone' => k \in gone /\ k \notin S
  BY DEF Expose, Relied, Exposed

\* Compacting goes on with the same command.
LEMMA CompactingRun ==
  ASSUME run \in RunRec, NEW v, Compacting(v)
  PROVE  /\ pc' = "compact" /\ run'.op = run.op /\ run'.job = run.job /\ run'.moving = 0
         /\ jobs' = jobs
<1>1. pc' = "compact" /\ jobs' = jobs
  BY DEF Compacting
<1>2. CASE run.moving = 0
  <2> DEFINE n == MoveRounds(v)
  <2>1. run' = [run EXCEPT !.left = n]
    BY <1>2 DEF Compacting
  <2> HIDE DEF n
  <2> QED BY <1>1, <1>2, <2>1 DEF RunRec
<1>3. CASE run.moving # 0
  <2>1. run' = [run EXCEPT !.moving = 0]
    BY <1>3 DEF Compacting
  <2> QED BY <1>1, <2>1 DEF RunRec
<1> QED BY <1>2, <1>3

\* The same command, for the same jobs, of which clients rely on no more.
LEMMA SameCommand ==
  ASSUME DurInv, pc \in {"write", "body", "compact"}, run'.op = run.op, run'.job = run.job, jobs' = jobs,
         \A k : (Relied(k))' => Relied(k)
  PROVE  CommandInv'
BY DEF DurInv, CommandInv

\* And what is known of the jobs stays true.
LEMMA SameKnown ==
  ASSUME DurInv, Running, jobs' = jobs, gone' \subseteq gone, pc' # "replay",
         \A k : (Relied(k))' => Relied(k) /\ acked'[k] = acked[k]
  PROVE  KnownInv'
BY DEF DurInv, KnownInv

\* WalWrite without a log.
LEMMA WriteNothingDur ==
  ASSUME FilesInv, FilesInv', DurInv, WriteNothing
  PROVE  DurInv'
<1>1. /\ pc = "write" /\ ~w.use /\ Compacting(w) /\ Expose(InHand) /\ w' = w /\ dir' = dir
  BY DEF WriteNothing
<1>2. Running /\ run \in RunRec
  BY <1>1, Parts DEF Running
<1>3. pc' = "compact" /\ run'.op = run.op /\ run'.job = run.job /\ run'.moving = 0 /\ jobs' = jobs
  BY <1>1, <1>2, CompactingRun
<1>4. Running' /\ QuietDir /\ ~w'.use
  BY <1>1, <1>3, SameQuiet DEF Running
<1>5. \A k : /\ (Relied(k))' => Relied(k) /\ acked'[k] = acked[k] /\ k \notin InHand
             /\ k \in gone' => k \in gone
  BY <1>1, ExposeFields
<1>6. ASSUME NEW k \in Ids, (Sure(k))' PROVE Sure(k) /\ ((SureBuried(k))' => SureBuried(k))
  <2>1. (Relied(k))' /\ ((SureBuried(k))' => acked'[k] = "buried")
    BY <1>4, <1>6 DEF Sure, SureBuried, Done
  <2>2. Relied(k) /\ acked'[k] = acked[k] /\ k \notin InHand
    BY <1>5, <2>1
  <2>3. k # run.moving
    BY <2>2, JobNumbers DEF InHand
  <2> QED BY <2>1, <2>2, <2>3 DEF Sure, SureBuried
<1>7. \A k \in Ids : (SureGone(k))' => SureGone(k)
  BY <1>4, <1>5 DEF SureGone, Done
<1>8. KnownInv'
  BY <1>2, <1>3, <1>5, SameKnown
<1>9. CommandInv'
  BY <1>1, <1>3, <1>5, SameCommand
<1>10. InvalidInv'
  BY <1>4 DEF InvalidInv
<1>11. \A k \in Ids, f \in Files : Holds(w, f, k) => Holds(w', f, k)
  BY <1>1
<1> QED BY <1>2, <1>3, <1>4, <1>6, <1>7, <1>8, <1>9, <1>10, <1>11, QuietKeeps

\* The end of a command: what is done becomes what clients rely on.
LEMMA WalMainDoneDur ==
  ASSUME FilesInv, FilesInv', DurInv, WalMainDone
  PROVE  DurInv'
<1> DEFINE j == run.job
           exposed == j \in DOMAIN acked /\ ~Relied(j)
<1>1. pc = "compact" /\ Finish /\ w' = w /\ dir' = dir
  BY DEF WalMainDone
<1>2. /\ jobs' = IF run.op = "delete" THEN Without(j) ELSE jobs
      /\ \/ acked' = acked
         \/ w.use /\ ~exposed /\ run.op = "put" /\ acked' = Promise(j, "live")
         \/ w.use /\ ~exposed /\ run.op = "bury" /\ Relied(j) /\ acked' = Promise(j, "buried")
         \/ \E what \in {"unlogged", "deleted"} : acked' = Promise(j, what)
      /\ gone' = IF w.use /\ ~exposed /\ run.op = "delete" THEN gone \cup {j} ELSE gone
      /\ pc' = "idle" /\ run' = NoRun
  BY <1>1 DEF Finish, Answer
<1>3. /\ Running /\ Running' /\ run.moving = 0 /\ j \in DOMAIN jobs /\ run'.moving = 0
      /\ JobMap(jobs) /\ j \in Ids
  BY <1>1, <1>2, NoRunFields, Parts, JobFields DEF Running, RunInv
<1>4. ~exposed => ~Exposed(j)
  BY DEF Relied, Exposed
<1> HIDE DEF exposed
<1>5. QuietDir /\ w'.cur >= w.cur
  BY <1>1, SameQuiet, WalFields DEF FilesInv, Disk, Chain
<1>6. /\ run.op \in {"put", "delete"} => ~Relied(j)
      /\ run.op = "put" => jobs[j].good
      /\ run.op = "bury" => jobs[j].st = "buried" /\ jobs[j].where = {"buried"}
      /\ run.op # "delete" => jobs[j].st # "invalid"
  BY <1>1 DEF DurInv, CommandInv
<1>7. /\ \A k \in Ids : Relied(k) =>
           /\ k \in DOMAIN jobs /\ jobs[k].good /\ jobs[k].st # "invalid"
           /\ acked[k] = "buried" => jobs[k].st = "buried" /\ jobs[k].where \subseteq {"buried"}
      /\ \A k \in gone : k \notin DOMAIN jobs
  BY <1>3 DEF DurInv, KnownInv
<1>8. ASSUME NEW k, (Relied(k))'
      PROVE  \/ Relied(k) /\ acked'[k] = acked[k] /\ (k = j => run.op # "delete")
             \/ Done("put", k) /\ k = j /\ run.op = "put" /\ acked'[k] = "live"
             \/ Relied(k) /\ Done("bury", k) /\ k = j /\ run.op = "bury" /\ acked'[k] = "buried"
  <2>1. CASE acked' = acked
    BY <1>6, <1>8, <2>1 DEF Relied
  <2>2. CASE w.use /\ ~exposed /\ run.op = "put" /\ acked' = Promise(j, "live")
    <3>1. Done("put", j)
      BY <1>1, <1>4, <2>2 DEF Done, Past
    <3>2. k = j => acked'[k] = "live"
      BY <2>2 DEF Promise
    <3>3. k # j => Relied(k) /\ acked'[k] = acked[k]
      BY <1>8, <2>2 DEF Promise, Relied
    <3> QED BY <2>2, <3>1, <3>2, <3>3
  <2>3. CASE w.use /\ ~exposed /\ run.op = "bury" /\ Relied(j) /\ acked' = Promise(j, "buried")
    <3>1. Done("bury", j)
      BY <1>1, <1>4, <2>3 DEF Done, Past
    <3>2. k = j => acked'[k] = "buried"
      BY <2>3 DEF Promise
    <3>3. k # j => Relied(k) /\ acked'[k] = acked[k]
      BY <1>8, <2>3 DEF Promise, Relied
    <3> QED BY <2>3, <3>1, <3>2, <3>3
  <2>4. ASSUME NEW what \in {"unlogged", "deleted"}, acked' = Promise(j, what)
        PROVE  Relied(k) /\ acked'[k] = acked[k] /\ k # j
    <3>1. k # j
      BY <1>8, <2>4 DEF Promise, Relied
    <3> QED BY <1>8, <2>4, <3>1 DEF Promise, Relied
  <2> QED BY <1>2, <2>1, <2>2, <2>3, <2>4
<1>9. ASSUME NEW k \in Ids, (Sure(k))' PROVE Sure(k) /\ ((SureBuried(k))' => SureBuried(k))
  <2>1. (Relied(k))' /\ k # 0
    BY <1>2, <1>3, <1>9, RestSureNext, JobNumbers
  <2>2. (SureBuried(k))' => acked'[k] = "buried"
    BY <1>2, <1>3, RestSureNext
  <2>3. Relied(k) \/ Done("put", k)
    BY <1>8, <2>1
  <2>4. Sure(k)
    BY <1>3, <2>1, <2>3 DEF Sure
  <2>5. acked'[k] = "buried" => Relied(k) /\ (acked[k] = "buried" \/ Done("bury", k))
    BY <1>8, <2>1
  <2> QED BY <2>2, <2>4, <2>5 DEF SureBuried
<1>10. ASSUME NEW k \in Ids, (SureGone(k))' PROVE SureGone(k)
  <2>1. k \in gone'
    BY <1>2, <1>3, <1>10, RestSureNext
  <2>2. CASE k \in gone
    BY <2>2 DEF SureGone
  <2>3. CASE k \notin gone
    <3>1. k = j /\ w.use /\ ~exposed /\ run.op = "delete"
      BY <1>2, <2>1, <2>3
    <3>2. Done("delete", k)
      BY <1>1, <1>4, <3>1 DEF Done, Past
    <3> QED BY <3>2 DEF SureGone
  <2> QED BY <2>2, <2>3
<1>11. /\ \A k \in DOMAIN jobs : k # j \/ run.op # "delete" => k \in DOMAIN jobs' /\ jobs'[k] = jobs[k]
       /\ \A k \in DOMAIN jobs' : k \in DOMAIN jobs /\ jobs'[k] = jobs[k] /\ (run.op = "delete" => k # j)
  <2>1. CASE run.op = "delete"
    <3> DEFINE q == jobs'
    <3>1. JobMap(jobs) /\ q = Without(j)
      BY <1>2, <1>3, <2>1
    <3> HIDE DEF q
    <3>2. DOMAIN q = DOMAIN jobs \ {j} /\ \A k \in DOMAIN q : q[k] = jobs[k]
      BY <3>1, WithoutFields
    <3> QED BY <2>1, <3>2 DEF q
  <2>2. CASE run.op # "delete"
    BY <1>2, <2>2
  <2> QED BY <2>1, <2>2
<1>12. KnownInv'
  <2>1. ASSUME NEW k \in Ids, (Relied(k))'
        PROVE  /\ k \in DOMAIN jobs' /\ jobs'[k].good /\ jobs'[k].st # "invalid"
               /\ acked'[k] = "buried" => jobs'[k].st = "buried" /\ jobs'[k].where \subseteq {"buried"}
    <3>1. CASE Relied(k) /\ acked'[k] = acked[k] /\ (k = j => run.op # "delete")
      <4>1. k \in DOMAIN jobs' /\ jobs'[k] = jobs[k]
        BY <1>7, <1>11, <3>1
      <4> QED BY <1>7, <3>1, <4>1
    <3>2. CASE k = j /\ run.op = "put" /\ acked'[k] = "live"
      <4>1. k \in DOMAIN jobs' /\ jobs'[k] = jobs[k]
        BY <1>3, <1>11, <3>2
      <4> QED BY <1>6, <3>2, <4>1
    <3>3. CASE Relied(k) /\ k = j /\ run.op = "bury" /\ acked'[k] = "buried"
      <4>1. k \in DOMAIN jobs' /\ jobs'[k] = jobs[k]
        BY <1>3, <1>11, <3>3
      <4> QED BY <1>6, <1>7, <3>3, <4>1
    <3> QED BY <1>8, <2>1, <3>1, <3>2, <3>3
  <2>2. \A k \in gone' : k \notin DOMAIN jobs'
    BY <1>2, <1>7, <1>11
  <2> QED BY <1>2, <2>1, <2>2 DEF KnownInv
<1>13. CommandInv'
  BY <1>2 DEF CommandInv
<1>14. InvalidInv'
  <2>1. w.use => \A k \in DOMAIN jobs : InList(w, k) => jobs[k].st # "invalid"
    BY <1>1 DEF DurInv, InvalidInv
  <2> QED BY <1>1, <1>3, <1>11, <2>1 DEF InvalidInv
<1>15. \A k \in Ids, f \in Files : Holds(w, f, k) => Holds(w', f, k)
  BY <1>1
<1>16. w'.use => w.use
  BY <1>1
<1>17. pc' # "body"
  BY <1>2
<1> HIDE DEF j
<1> QED BY <1>3, <1>5, <1>9, <1>10, <1>12, <1>13, <1>14, <1>15, <1>16, <1>17, QuietKeeps

\* moveOne, up to WalWrite.
LEMMA MoveOneDur ==
  ASSUME FilesInv, FilesInv', DurInv, NEW room \in Rooms, Moves(room)
  PROVE  DurInv'
<1>1. pc = "compact" /\ run \in RunRec
  BY Parts DEF Moves
<1>2. Running /\ run.moving = 0
  BY <1>1 DEF Running, FilesInv, RunInv
<1>3. CASE /\ run' = [run EXCEPT !.left = 0]
           /\ UNCHANGED <<w, dir, pc, jobs, acked, gone>>
  <2>1. run'.op = run.op /\ run'.job = run.job /\ run'.moving = run.moving
    BY <1>1, <1>3 DEF RunRec
  <2>2. QuietDir /\ Running' /\ w'.cur >= w.cur
    BY <1>2, <1>3, SameQuiet, WalFields DEF Running, FilesInv, Disk, Chain
  <2>3. \A k : ((Relied(k))' <=> Relied(k)) /\ ((Exposed(k))' <=> Exposed(k))
    BY <1>3 DEF Relied, Exposed
  <2>4. \A op, k : (Done(op, k))' <=> Done(op, k)
    BY <1>3, <2>1, <2>3 DEF Done, Past
  <2>5. \A k : ((Sure(k))' <=> Sure(k)) /\ ((SureBuried(k))' <=> SureBuried(k)) /\ ((SureGone(k))' <=> SureGone(k))
    BY <1>3, <2>1, <2>3, <2>4 DEF Sure, SureBuried, SureGone
  <2>6. KnownInv'
    BY <1>1, <1>2, <1>3, <2>3, SameKnown
  <2>7. CommandInv'
    BY <1>1, <1>3, <2>1, <2>3, SameCommand
  <2>8. InvalidInv'
    BY <1>1, <1>2, <1>3, <2>1 DEF DurInv, InvalidInv
  <2>9. \A k \in Ids, f \in Files : Holds(w, f, k) => Holds(w', f, k)
    BY <1>3
  <2>10. (w'.use => w.use) /\ pc' # "body"
    BY <1>1, <1>3
  <2> QED BY <1>2, <2>2, <2>5, <2>6, <2>7, <2>8, <2>9, <2>10, QuietKeeps
<1>4. ASSUME NEW j, NEW v, NEW u, MoveFacts(j, v, u) PROVE DurInv'
  <2> DEFINE n == walResvMigrate(jobs[j].kind)
             to == IF v.ok THEN j ELSE 0
             left == run.left - 1
  <2>1. /\ j \in DOMAIN jobs /\ j \in Ids /\ InList(w, j)
        /\ v.ok \in BOOLEAN /\ v.stuck \in BOOLEAN /\ Honest(v)
        /\ Disk(w', dir') /\ Log(w', dir') /\ Extends(u, dir') /\ w'.use = w.use /\ w'.cur >= w.cur
        /\ \A g \in Files : \A k : Holds(w', g, k) <=> Holds(w, g, k) /\ ~(v.ok /\ k = j)
        /\ \A f, g \in Files : Listed(w, f) /\ ~Listed(w', f) /\ Listed(w', g) => f < g
        /\ IF v.stuck THEN Hangs
           ELSE run' = [run EXCEPT !.left = left, !.moving = to, !.need = n] /\ pc' = IF v.ok THEN "write" ELSE pc
        /\ UNCHANGED <<jobs, acked, gone>>
    BY <1>4 DEF MoveFacts
  <2> HIDE DEF n, left
  <2>2. QuietDir
    BY <1>2, <2>1, ExtendsQuiet
  <2>3. run'.op = run.op /\ run'.job = run.job /\ run'.moving = to /\ (v.stuck => pc' = "hung")
        /\ (~v.stuck => pc' = IF v.ok THEN "write" ELSE pc)
    <3>1. CASE v.stuck
      <4>1. ~v.ok
        BY <2>1, <3>1 DEF Honest
      <4> QED BY <1>2, <2>1, <3>1, <4>1 DEF Hangs
    <3>2. CASE ~v.stuck
      BY <1>1, <2>1, <3>2 DEF RunRec
    <3> QED BY <3>1, <3>2
  <2>4. pc' \in {"hung", "write", "compact"} /\ Running'
    BY <1>1, <2>3 DEF Running
  <2>5. \A k : ((Relied(k))' <=> Relied(k)) /\ ((Exposed(k))' <=> Exposed(k))
    BY <2>1 DEF Relied, Exposed
  <2>6. \A op, k : (Done(op, k))' => Done(op, k)
    BY <1>1, <2>1, <2>3, <2>5 DEF Done, Past
  <2>7. ASSUME NEW k \in Ids, (Sure(k))'
        PROVE  /\ Sure(k) /\ ((SureBuried(k))' => SureBuried(k))
               /\ \A f \in Files : Holds(w, f, k) => Holds(w', f, k)
    <3>1. k # to /\ k # 0 /\ k # run.moving
      BY <1>2, <2>3, <2>7, JobNumbers DEF Sure
    <3>2. Sure(k)
      BY <2>5, <2>6, <2>7, <3>1 DEF Sure
    <3>3. (SureBuried(k))' => SureBuried(k)
      BY <2>1, <2>5, <2>6 DEF SureBuried
    <3>4. \A f \in Files : Holds(w, f, k) => Holds(w', f, k)
      BY <2>1, <3>1
    <3> QED BY <3>2, <3>3, <3>4
  <2>8. \A k \in Ids : (SureGone(k))' => SureGone(k)
    BY <2>1, <2>6 DEF SureGone
  <2>9. KnownInv'
    BY <1>2, <2>1, <2>4, <2>5, SameKnown
  <2>10. CommandInv'
    BY <1>1, <2>1, <2>3, <2>5, SameCommand
  <2>11. InvalidInv'
    <3>1. w.use => \A k \in DOMAIN jobs : InList(w, k) => jobs[k].st # "invalid"
      BY <1>1 DEF DurInv, InvalidInv
    <3>2. \A k : InList(w', k) => InList(w, k)
      BY <2>1 DEF InList
    <3>3. to # 0 => to = j
      OBVIOUS
    <3> QED BY <2>1, <2>3, <3>1, <3>2, <3>3 DEF InvalidInv
  <2>12. (w'.use => w.use) /\ pc' # "body"
    BY <2>1, <2>4
  <2> QED BY <1>2, <2>1, <2>2, <2>4, <2>7, <2>8, <2>9, <2>10, <2>11, <2>12, QuietKeeps
<1> QED BY <1>3, <1>4, MoveOneIs

-----------------------------------------------------------------------------
(* Files that are cut. *)

\* What a prefix has, the whole has at the same place.
LEMMA PrefixFields ==
  ASSUME NEW t \in Seq(Recs), NEW s, Prefix(s, t)
  PROVE  /\ s \in Seq(Recs)
         /\ \A p \in DOMAIN s : p \in DOMAIN t /\ s[p] = t[p]
<1>1. PICK m \in 0..Len(t) : s = SubSeq(t, 1, m)
  BY DEF Prefix
<1>2. m \in Nat /\ m <= Len(t) /\ Len(t) \in Nat
  BY <1>1
<1> QED BY <1>1, <1>2

\* A file whose version is cut has no record left.
LEMMA CutVersion ==
  ASSUME NEW file \in DirRec, NEW size \in Int
  PROVE  LET cut == Truncated(file, size) IN cut.ver = file.ver \/ cut.recs = <<>>
<1>1. file.recs \in Seq(Recs)
  BY DEF DirRec
<1> DEFINE recs == file.recs
           fits == {i \in 0..Len(recs) : Header + Bytes(SubSeq(recs, 1, i)) <= size}
           S == fits \cup {0}
<1>2. CASE size < 0
  BY <1>2 DEF Truncated
<1>3. CASE size >= Header
  <2>1. ~(size < 0) /\ ~(size < Header)
    BY <1>3, Numbers
  <2> QED BY <2>1 DEF Truncated
<1>4. CASE size >= 0 /\ size < Header
  <2>1. recs \in Seq(Recs)
    BY <1>1
  <2> HIDE DEF recs
  <2>2. Len(recs) \in Nat
    BY <2>1
  <2>3. ASSUME NEW i \in 0..Len(recs) PROVE ~(Header + Bytes(SubSeq(recs, 1, i)) <= size)
    <3> DEFINE s == SubSeq(recs, 1, i)
    <3>1. s \in Seq(Recs)
      BY <2>1
    <3> HIDE DEF s
    <3>2. Bytes(s) \in Nat
      BY <3>1, BytesFacts
    <3>3. Header + Bytes(s) >= Header
      BY <3>2, Numbers
    <3>4. Header + Bytes(s) \in Int
      BY <3>2, Numbers
    <3>5. ~(Header + Bytes(s) <= size)
      BY <1>4, <3>3, <3>4, Numbers
    <3> QED BY <3>5 DEF s
  <2>4. S = {0}
    BY <2>3
  <2>5. S \in SUBSET (0..Len(recs)) /\ S # {}
    BY <2>2, <2>4
  <2> HIDE DEF S
  <2>6. Max(S) = 0
    BY <2>2, <2>4, <2>5, MaxIs
  <2>7. SubSeq(recs, 1, 0) = <<>>
    BY <2>1
  <2>8. Kept(recs, size) = <<>>
    BY <2>6, <2>7 DEF Kept, S
  <2>9. ~(size < 0)
    BY <1>4
  <2> QED BY <2>8, <2>9 DEF Truncated, recs
<1> QED BY <1>2, <1>3, <1>4, Numbers

\* Nor has it in the directory.
LEMMA CutFile ==
  ASSUME w \in WalRec, DirTypes, NEW v \in WalRec, NEW d, d = DirOf(v), NEW f \in Files,
         f \in DOMAIN d, f \in DOMAIN dir
  PROVE  d[f].ver = dir[f].ver \/ d[f].recs = <<>>
<1>1. d[f] = dir[f] \/ d[f] = Truncated(dir[f], FileSize - v.free[f])
  BY DEF DirOf
<1>2. dir[f] \in DirRec
  BY DEF DirTypes
<1>3. v.free[f] \in Int /\ FileSize \in Int
  BY FileFields, Numbers
<1> DEFINE size == FileSize - v.free[f]
           file == dir[f]
<1>4. size \in Int
  BY <1>3
<1> HIDE DEF size
<1>5. Truncated(file, size).ver = file.ver \/ Truncated(file, size).recs = <<>>
  BY <1>2, <1>4, CutVersion
<1> QED BY <1>1, <1>5 DEF size

\* A job that has no record cut off has the same ones.
LEMMA CutTrim ==
  ASSUME w \in WalRec, DirTypes, NEW v \in WalRec, NEW d, d = DirOf(v), NEW j, j \notin Lost(v),
         \A f, g \in Files : f \in DOMAIN dir /\ f \notin DOMAIN d /\ g \in DOMAIN d => f < g
  PROVE  Trim(dir, d, j)
<1>1. DirStep(v, d)
  BY Unlinking
<1>2. ASSUME NEW g \in Files, NEW p \in Nat, g \in DOMAIN d
      PROVE  /\ RecOf(dir, j, g, p) <=> RecOf(d, j, g, p)
             /\ RecOf(dir, j, g, p) => dir[g].recs[p] = d[g].recs[p]
  <2>1. CASE g \notin DOMAIN dir
    <3>1. d[g].recs = <<>>
      BY <1>1, <1>2, <2>1 DEF DirStep
    <3> QED BY <2>1, <3>1 DEF RecOf
  <2>2. CASE g \in DOMAIN dir
    <3> DEFINE s == d[g].recs
               t == dir[g].recs
    <3>1. t \in Seq(Recs) /\ Prefix(s, t)
      BY <1>1, <1>2, <2>2 DEF DirStep, DirTypes, DirRec
    <3>2. (d[g].ver = dir[g].ver) \/ s = <<>>
      BY <1>2, <2>2, CutFile
    <3>3. \A q \in DOMAIN t : q \notin DOMAIN s => t[q].id # j
      <4>1. d[g].recs = s /\ dir[g].recs = t
        OBVIOUS
      <4> HIDE DEF s, t
      <4> QED BY <1>2, <2>2, <4>1 DEF Lost
    <3>4. /\ RecOf(dir, j, g, p) <=> dir[g].ver = WalVer /\ p \in DOMAIN t /\ t[p].id = j
          /\ RecOf(d, j, g, p) <=> d[g].ver = WalVer /\ p \in DOMAIN s /\ s[p].id = j
      BY <1>2, <2>2 DEF RecOf
    <3> HIDE DEF s, t
    <3>5. \A q \in DOMAIN s : q \in DOMAIN t /\ s[q] = t[q]
      BY <3>1, PrefixFields
    <3>6. p \in DOMAIN s => s # <<>>
      OBVIOUS
    <3>7. RecOf(dir, j, g, p) <=> RecOf(d, j, g, p)
      BY <3>2, <3>3, <3>4, <3>5, <3>6
    <3>8. RecOf(dir, j, g, p) => t[p] = s[p]
      BY <3>4, <3>5, <3>7
    <3> QED BY <3>7, <3>8 DEF s, t
  <2> QED BY <2>1, <2>2
<1> QED BY <1>2 DEF Trim

\* A job stays where it is when its records and its place stay.
LEMMA RunningKept ==
  ASSUME FilesInv', KeptInv, Running, Running', NEW j \in Ids, Sure(j),
         (SureBuried(j))' => SureBuried(j), Trim(dir, dir', j),
         \A f \in Files : Holds(w, f, j) => Holds(w', f, j)
  PROVE  (Lasts(j))'
<1>1. Lasts(j)
  BY DEF KeptInv
<1>2. pc' # "read"
  BY DEF Running
<1>3. ASSUME NEW f \in Files, Stays(j, f) PROVE f \in DOMAIN dir' /\ (Stays(j, f))'
  <2>1. Holds(w, f, j)
    BY <1>3 DEF Stays
  <2>2. Holds(w', f, j)
    BY <1>3, <2>1
  <2>3. Disk(w', dir') /\ Log(w', dir')
    BY DEF FilesInv
  <2>4. f \in DOMAIN dir'
    BY <2>2, <2>3, HoldsDir
  <2> QED BY <1>2, <2>2, <2>4 DEF Stays, Holds
<1> QED BY <1>1, <1>3, KeptOne

\* What is known of the jobs when a write has failed.
LEMMA FailedKnown ==
  ASSUME FilesInv, DurInv, pc \in {"write", "body"}, NEW S, Failed(S)
  PROVE  KnownInv'
<1>1. /\ Running /\ JobMap(jobs) /\ run.job \in DOMAIN jobs /\ run.op # "none" /\ run \in RunRec
      /\ pc' = "idle" /\ Expose(S)
  BY FailedFields, WorkFacts
<1>2. PICK j \in DOMAIN jobs : j = run.job
  BY <1>1
<1>3. \A k \in Ids : (Relied(k))' => Relied(k) /\ acked'[k] = acked[k]
  BY <1>1, ExposeFields
<1>4. gone' \subseteq gone
  BY <1>1 DEF Expose
<1>5. CASE run.op = "delete"
  <2> DEFINE q == jobs'
  <2>1. q = Without(j)
    BY <1>2, <1>5 DEF Failed
  <2> HIDE DEF q
  <2>2. DOMAIN q = DOMAIN jobs \ {j} /\ \A k \in DOMAIN q : q[k] = jobs[k]
    BY <1>1, <2>1, WithoutFields
  <2>3. ~Relied(j)
    BY <1>2, <1>5 DEF DurInv, CommandInv
  <2>4. /\ \A k \in Ids : Relied(k) =>
             /\ k \in DOMAIN jobs /\ jobs[k].good /\ jobs[k].st # "invalid"
             /\ acked[k] = "buried" => jobs[k].st = "buried" /\ jobs[k].where \subseteq {"buried"}
        /\ \A k \in gone : k \notin DOMAIN jobs
    BY <1>1 DEF DurInv, KnownInv
  <2>5. ASSUME NEW k \in Ids, (Relied(k))'
        PROVE  /\ k \in DOMAIN q /\ q[k].good /\ q[k].st # "invalid"
               /\ acked'[k] = "buried" => q[k].st = "buried" /\ q[k].where \subseteq {"buried"}
    <3>1. Relied(k) /\ acked'[k] = acked[k] /\ k # j
      BY <1>3, <2>3, <2>5
    <3>2. k \in DOMAIN q /\ q[k] = jobs[k]
      BY <2>2, <2>4, <3>1
    <3> QED BY <2>4, <3>1, <3>2
  <2>6. \A k \in gone' : k \notin DOMAIN q
    BY <1>4, <2>2, <2>4
  <2> QED BY <1>1, <2>5, <2>6 DEF KnownInv, q
<1>6. CASE run.op = "bury"
  <2>1. jobs' = jobs
    BY <1>6 DEF Failed
  <2> QED BY <1>1, <1>3, <1>4, <2>1 DEF DurInv, KnownInv
<1>7. CASE run.op \notin {"delete", "bury"}
  <2> DEFINE c == jobs[j].where \cup {"buried"}
  <2>1. jobs' = Place(j, "buried", c)
    BY <1>2, <1>7 DEF Failed
  <2>2. c \in SUBSET States /\ "buried" \in States /\ j \in Ids
    BY <1>1, JobFields DEF States
  <2>3. Relied(j) /\ acked[j] = "buried" => jobs[j].where \subseteq {"buried"}
    BY <1>1, <2>2 DEF DurInv, KnownInv
  <2>4. (Relied(j))' => /\ "buried" # "invalid"
                        /\ acked[j] = "buried" => "buried" = "buried" /\ c \subseteq {"buried"}
    BY <1>3, <2>2, <2>3
  <2> HIDE DEF c
  <2>5. pc' = "replay" => c \subseteq {"buried"} /\ pc = "replay"
    BY <1>1
  <2> QED BY <1>1, <1>3, <1>4, <2>1, <2>2, <2>4, <2>5, PlaceKnown
<1> QED BY <1>5, <1>6, <1>7

\* LogOff: nobody relies on a job that has a record cut off, nor on the one in moveOne's hand.
LEMMA LogOffDur ==
  ASSUME FilesInv, FilesInv', DurInv, pc \in {"write", "body"}, w.use, NEW v, LogOffFacts(v)
  PROVE  DurInv'
<1> DEFINE S == IF run.moving = 0 THEN Lost(v) ELSE Lost(v) \cup InHand
<1>1. /\ w \in WalRec /\ DirTypes /\ run \in RunRec /\ Running /\ Log(w, dir)
  BY WorkFacts
<1>2. /\ v \in WalRec /\ dir' = DirOf(v) /\ ~w'.use /\ Log(w', dir')
      /\ \A f \in Files : \A k : Holds(w, f, k) => Holds(w', f, k)
      /\ \A f, g \in Files : Listed(w, f) /\ ~Listed(w', f) /\ Listed(w', g) => f < g
      /\ IF run.moving = 0 THEN Failed(Lost(v))
         ELSE /\ pc' = "compact" /\ run' = [run EXCEPT !.moving = 0]
              /\ Expose(Lost(v) \cup InHand) /\ jobs' = jobs
  <2> DEFINE e == dir'
             x == w'
             last == IF run.moving = 0 THEN Failed(Lost(v))
                     ELSE /\ pc' = "compact" /\ run' = [run EXCEPT !.moving = 0]
                          /\ Expose(Lost(v) \cup InHand) /\ UNCHANGED <<jobs, answer>>
  <2>1. /\ v \in WalRec /\ e = DirOf(v) /\ ~x.use /\ Log(x, e)
        /\ \A f \in Files : \A k : /\ Holds(w, f, k) => Holds(x, f, k)
                                   /\ Holds(x, f, k) => Holds(w, f, k) \/ k = Subject
        /\ \A f, g \in Files : Listed(w, f) /\ ~Listed(x, f) /\ Listed(x, g) => f < g
        /\ last
    BY DEF LogOffFacts
  <2>2. \A f \in Files : \A k : Holds(w, f, k) => Holds(x, f, k)
    BY <2>1
  <2> QED BY <2>1, <2>2
<1>3. v \in WalRec
  BY <1>2
<1>4. /\ Expose(S) /\ run'.moving = 0 /\ pc' \in {"idle", "compact"}
      /\ pc' = "compact" => run'.op = run.op /\ run'.job = run.job /\ jobs' = jobs
  <2>1. CASE run.moving = 0
    <3>1. Failed(Lost(v))
      BY <1>2, <2>1
    <3> HIDE DEF S
    <3>2. pc' = "idle" /\ run' = NoRun /\ Expose(Lost(v))
      BY <3>1, FailedFields
    <3> QED BY <2>1, <3>2, NoRunFields DEF S
  <2>2. CASE run.moving # 0
    BY <1>1, <1>2, <2>2 DEF RunRec
  <2> QED BY <2>1, <2>2
<1>5. Running'
  BY <1>4 DEF Running
<1>6. ASSUME NEW k
      PROVE  /\ (Relied(k))' => Relied(k) /\ acked'[k] = acked[k] /\ k \notin Lost(v) /\ k \notin InHand
             /\ k \in gone' => k \in gone /\ k \notin Lost(v)
  <2>1. /\ (Relied(k))' => Relied(k) /\ acked'[k] = acked[k] /\ k \notin S
        /\ k \in gone' => k \in gone /\ k \notin S
    BY <1>4, ExposeFields
  <2>2. k \notin S => k \notin Lost(v) /\ (k \notin InHand \/ run.moving = 0)
    OBVIOUS
  <2>3. run.moving = 0 => k \notin InHand
    BY DEF InHand
  <2> HIDE DEF S
  <2> QED BY <2>1, <2>2, <2>3
<1>7. \A f, g \in Files : f \in DOMAIN dir /\ f \notin DOMAIN dir' /\ g \in DOMAIN dir' => f < g
  BY <1>1, <1>2 DEF Log
<1>8. \A k : k \notin Lost(v) => Trim(dir, dir', k)
  <2> DEFINE d == dir'
  <2>1. d = DirOf(v) /\ \A f, g \in Files : f \in DOMAIN dir /\ f \notin DOMAIN d /\ g \in DOMAIN d => f < g
    BY <1>2, <1>7
  <2> HIDE DEF d
  <2>2. \A k : k \notin Lost(v) => Trim(dir, d, k)
    BY <1>1, <1>3, <2>1, CutTrim
  <2> QED BY <2>2 DEF d
<1>9. \A op, k : ~(Done(op, k))'
  BY <1>2 DEF Done
<1>10. ASSUME NEW k \in Ids, (Sure(k))' PROVE (Lasts(k))'
  <2>1. (Relied(k))'
    BY <1>9, <1>10 DEF Sure
  <2>2. Relied(k) /\ acked'[k] = acked[k] /\ k \notin Lost(v) /\ k \notin InHand
    BY <1>6, <2>1
  <2>3. Sure(k)
    BY <2>2, JobNumbers DEF Sure, InHand
  <2>4. (SureBuried(k))' => SureBuried(k)
    BY <1>9, <2>2 DEF SureBuried
  <2>5. Trim(dir, dir', k)
    BY <1>8, <2>2
  <2>6. \A f \in Files : Holds(w, f, k) => Holds(w', f, k)
    BY <1>2
  <2> QED BY <1>1, <1>5, <2>3, <2>4, <2>5, <2>6, RunningKept DEF DurInv
<1>11. ASSUME NEW k \in Ids, (SureGone(k))' PROVE (Absent(k))'
  <2>1. k \in gone'
    BY <1>9, <1>11 DEF SureGone
  <2>2. k \in gone /\ k \notin Lost(v)
    BY <1>6, <2>1
  <2>3. Absent(k)
    BY <2>2 DEF DurInv, GoneInv, SureGone
  <2> QED BY <1>8, <2>2, <2>3, GoneOne
<1>12. KeptInv' /\ GoneInv'
  BY <1>10, <1>11 DEF KeptInv, GoneInv
<1>13. KnownInv'
  <2>1. CASE run.moving = 0
    BY <1>2, <2>1, FailedKnown
  <2>2. CASE run.moving # 0
    <3>1. jobs' = jobs /\ gone' \subseteq gone /\ pc' # "replay"
      BY <1>2, <1>4, <1>6, <2>2
    <3> QED BY <1>1, <1>6, <3>1, SameKnown
  <2> QED BY <2>1, <2>2
<1>14. CommandInv'
  <2>1. CASE pc' = "idle"
    BY <2>1 DEF CommandInv
  <2>2. CASE pc' = "compact"
    BY <1>4, <1>6, <2>2, SameCommand
  <2> QED BY <1>4, <2>1, <2>2
<1>15. CurrentInv' /\ InvalidInv'
  BY <1>2 DEF CurrentInv, InvalidInv
<1>16. HalfInv' /\ FoundInv'
  BY <1>4 DEF HalfInv, FoundInv
<1> QED BY <1>12, <1>13, <1>14, <1>15, <1>16 DEF DurInv

\* WriteError.
LEMMA WriteErrorDur ==
  ASSUME FilesInv, FilesInv', DurInv, WriteError
  PROVE  DurInv'
<1>1. pc \in {"write", "body"} /\ w.use
  BY WriteErrorIs
<1>2. PICK u : Aimed(u) /\ LogOff(u)
  BY WriteErrorIs
<1>3. PICK v : LogOffFacts(v)
  BY <1>1, <1>2, LogOffIs
<1> QED BY <1>1, <1>3, LogOffDur

-----------------------------------------------------------------------------
(* Records that are written. *)

\* Record n of file c of e is r, and the directory d had no record there or later.
Newest(d, e, c, n, r) ==
  /\ c \in Files /\ n \in Nat /\ c \in DOMAIN e /\ e[c].ver = WalVer
  /\ n \in DOMAIN e[c].recs /\ e[c].recs[n] = r
  /\ \A k, g : \A p : g \in Files /\ RecOf(d, k, g, p) => Before(g, p, c, n)

\* But for it, the records of job j are the same, and files go from the first on.
Longer(d, e, j, c, n, r) ==
  /\ \A g \in Files, p \in Nat : g \in DOMAIN e =>
       /\ RecOf(e, j, g, p) <=> (RecOf(d, j, g, p) \/ (r.id = j /\ g = c /\ p = n))
       /\ RecOf(d, j, g, p) => d[g].recs[p] = e[g].recs[p]
  /\ \A f, g \in Files : f \in DOMAIN d /\ f \notin DOMAIN e /\ g \in DOMAIN e => f < g

\* For the other jobs nothing changes.
LEMMA LongerTrim ==
  ASSUME NEW d, NEW e, NEW j, NEW c, NEW n, NEW r, Longer(d, e, j, c, n, r), r.id # j
  PROVE  Trim(d, e, j)
BY DEF Longer, Trim

\* What is read of the whole directory.
LEMMA SeenAll ==
  ASSUME NEW d, NEW j, NEW g \in Files, NEW p
  PROVE  Seen(d, j, MaxFiles + 1, 1, g, p) <=> RecOf(d, j, g, p)
<1>1. g < MaxFiles + 1
  BY Numbers
<1> QED BY <1>1 DEF Seen, Before

\* For its own job it is one more.
LEMMA LongerMore ==
  ASSUME NEW d, NEW e, NEW c, NEW n, NEW r, Newest(d, e, c, n, r), Longer(d, e, r.id, c, n, r),
         NEW f \in Files, f \in DOMAIN e
  PROVE  /\ OneMore(d, MaxFiles + 1, 1, e, MaxFiles + 1, 1, r.id, c, n, f)
         /\ Seen(e, r.id, MaxFiles + 1, 1, c, n)
<1> DEFINE l == MaxFiles + 1
           j == r.id
<1>1. c \in Files /\ n \in Nat /\ RecOf(e, j, c, n)
  BY DEF Newest, RecOf
<1>2. Seen(e, j, l, 1, c, n)
  BY <1>1, SeenAll
<1>3. ASSUME NEW g \in Files, NEW p \in Nat, Seen(d, j, l, 1, g, p)
      PROVE  Before(g, p, c, n)
  BY <1>3, SeenAll DEF Newest
<1>4. ASSUME NEW g \in Files, NEW p \in Nat, g >= f
      PROVE  /\ Seen(e, j, l, 1, g, p) <=> (Seen(d, j, l, 1, g, p) \/ (g = c /\ p = n))
             /\ Seen(d, j, l, 1, g, p) => d[g].recs[p] = e[g].recs[p]
  <2>1. CASE g \in DOMAIN e
    BY <2>1, SeenAll DEF Longer
  <2>2. CASE g \notin DOMAIN e
    <3>1. g \notin DOMAIN d
      BY <1>4, <2>2, Numbers DEF Longer
    <3>2. g # c
      BY <2>2 DEF Newest
    <3> QED BY <2>2, <3>1, <3>2 DEF Seen, RecOf
  <2> QED BY <2>1, <2>2
<1> HIDE DEF l, j
<1>5. OneMore(d, l, 1, e, l, 1, j, c, n, f)
  BY <1>1, <1>2, <1>3, <1>4 DEF OneMore
<1> QED BY <1>2, <1>5 DEF l, j

\* It is the last of its job.
LEMMA NewestLast ==
  ASSUME NEW d, NEW e, NEW c, NEW n, NEW r, Newest(d, e, c, n, r), Longer(d, e, r.id, c, n, r)
  PROVE  /\ Seen(e, r.id, MaxFiles + 1, 1, c, n)
         /\ \A g \in Files, p \in Nat : Seen(e, r.id, MaxFiles + 1, 1, g, p) =>
              Before(g, p, c, n) \/ (g = c /\ p = n)
<1> DEFINE l == MaxFiles + 1
           j == r.id
<1>1. c \in Files /\ n \in Nat /\ RecOf(e, j, c, n)
  BY DEF Newest, RecOf
<1>2. Seen(e, j, l, 1, c, n)
  BY <1>1, SeenAll
<1>3. ASSUME NEW g \in Files, NEW p \in Nat, Seen(e, j, l, 1, g, p)
      PROVE  Before(g, p, c, n) \/ (g = c /\ p = n)
  <2>1. RecOf(e, j, g, p) /\ g \in DOMAIN e
    BY <1>3, SeenAll DEF RecOf
  <2>2. RecOf(d, j, g, p) \/ (g = c /\ p = n)
    BY <2>1 DEF Longer
  <2> QED BY <2>2 DEF Newest
<1> HIDE DEF l, j
<1> QED BY <1>2, <1>3 DEF l, j

\* The record that WalWrite writes is the newest of all, and for a job that has none cut off,
\* one more.
LEMMA RecordIs ==
  ASSUME FilesInv, CurrentInv, pc = "write", w.use, NEW v, NEW b, NEW full \in BOOLEAN,
         WriteFacts(v, b, full)
  PROVE  /\ v.cur \in Files /\ v.cur >= w.cur /\ v \in WalRec
         /\ Newest(dir, dir', v.cur, Len(dir[v.cur].recs) + 1, SubjectRec(full))
         /\ \A k : k \notin Lost(v) =>
              Longer(dir, dir', k, v.cur, Len(dir[v.cur].recs) + 1, SubjectRec(full))
         /\ \A f \in DOMAIN dir' : f > v.cur => f \in DOMAIN dir /\ dir'[f] = dir[f]
         /\ Len(dir'[v.cur].recs) = Len(dir[v.cur].recs) + 1
<1> DEFINE c == v.cur
           n == Len(dir[c].recs) + 1
           r == SubjectRec(full)
           d == DirOf(v)
           e == dir'
<1>1. /\ v = w \/ (HasNext(w) /\ v = useNext(w))
      /\ Turned(v, d) /\ Booked(v, b) /\ r \in Recs /\ Recorded(v, d, b, r, e)
      /\ Log(w', e)
  BY DEF WriteFacts
<1>2. Log(w, dir) /\ Writing(w) /\ DirTypes /\ w \in WalRec /\ w.cur \in Files
  BY Writes
<1> HIDE DEF r, e
<1>3. v.cur \in Files /\ v.cur >= w.cur
  <2>1. CASE v = w
    BY <1>2, <2>1, Numbers
  <2>2. CASE HasNext(w) /\ v = useNext(w)
    <3>1. v.cur = NextFile(w) /\ NextFile(w) \in Files /\ NextFile(w) > w.cur
      BY <1>2, <2>2, NextIs, UseNext
    <3> QED BY <1>2, <3>1, Numbers
  <2> QED BY <1>1, <2>1, <2>2
<1>4. /\ Writing(v) /\ v \in WalRec /\ c \in v.open /\ Listed(v, c)
  BY <1>1, OpenFields DEF Turned, Writing, Chain
<1>5. c \in DOMAIN d /\ c \in DOMAIN dir /\ d[c] = dir[c]
  BY <1>1, <1>3, <1>4 DEF Turned
<1>6. c \in Nat /\ w.cur \in Nat
  BY <1>2, <1>3, Numbers
<1>7. dir[c].ver = WalVer /\ \A f \in DOMAIN dir : f > c => dir[f].recs = <<>>
  <2>1. Running
    BY DEF Running
  <2>2. \A f \in DOMAIN dir : f >= w.cur => dir[f].ver = WalVer /\ (f > w.cur => dir[f].recs = <<>>)
    BY <2>1 DEF CurrentInv
  <2>3. \A f \in DOMAIN dir : f \in Nat
    BY <1>2, Numbers DEF DirTypes
  <2>4. \A f \in DOMAIN dir : f > c => f > w.cur /\ f >= w.cur
    BY <1>3, <1>6, <2>3
  <2> QED BY <1>3, <1>5, <2>2, <2>4
<1>8. dir[c].recs \in Seq(Recs)
  BY <1>2, <1>5 DEF DirTypes, DirRec
<1>9. /\ c \in DOMAIN e /\ e[c].ver = WalVer /\ e[c].recs = Append(dir[c].recs, r)
      /\ \A f \in DOMAIN e : f \in DOMAIN d /\ (f # c => e[f] = d[f])
  BY <1>1, <1>5, <1>7 DEF Recorded
<1>10. /\ n \in Nat /\ n \in DOMAIN e[c].recs /\ e[c].recs[n] = r /\ Len(e[c].recs) = n
       /\ \A p \in DOMAIN dir[c].recs : p \in DOMAIN e[c].recs /\ e[c].recs[p] = dir[c].recs[p] /\ p < n
       /\ \A p \in DOMAIN e[c].recs : p \in DOMAIN dir[c].recs \/ p = n
       /\ n \notin DOMAIN dir[c].recs
  <2> DEFINE s == dir[c].recs
             t == e[c].recs
             m == Len(s) + 1
  <2>1. s \in Seq(Recs) /\ t = Append(s, r)
    BY <1>8, <1>9
  <2>2. /\ m \in Nat /\ m \in DOMAIN t /\ t[m] = r /\ Len(t) = m
        /\ \A p \in DOMAIN s : p \in DOMAIN t /\ t[p] = s[p] /\ p < m
        /\ \A p \in DOMAIN t : p \in DOMAIN s \/ p = m
        /\ m \notin DOMAIN s
    <3> HIDE DEF s, t
    <3> QED BY <1>1, <2>1
  <2> QED BY <2>2
<1>11. ASSUME NEW k, NEW g \in Files, NEW p, RecOf(dir, k, g, p)
       PROVE  Before(g, p, c, n)
  <2>1. g \in DOMAIN dir /\ p \in DOMAIN dir[g].recs
    BY <1>11 DEF RecOf
  <2>2. ~(g > c)
    BY <1>7, <2>1
  <2>3. CASE g < c
    BY <2>3 DEF Before
  <2>4. CASE g = c
    <3>1. p < n
      BY <1>10, <2>1, <2>4
    <3> QED BY <2>4, <3>1 DEF Before
  <2>5. g \in Nat
    BY Numbers
  <2> QED BY <1>6, <2>2, <2>3, <2>4, <2>5
<1>12. Newest(dir, e, c, n, r)
  <2> HIDE DEF n
  <2> QED BY <1>3, <1>9, <1>10, <1>11 DEF Newest
<1>13. \A f, g \in Files : f \in DOMAIN dir /\ f \notin DOMAIN e /\ g \in DOMAIN e => f < g
  <2>1. /\ \A f \in Files : f \in DOMAIN e <=> Listed(b, f)
        /\ \A f \in Files : f \in DOMAIN dir <=> Listed(w, f)
        /\ \A f \in Files : Listed(b, f) => Listed(v, f)
    BY <1>1, <1>2 DEF Recorded, Log, Booked, Records
  <2>2. /\ \A f, g \in Files : Listed(w, f) /\ ~Listed(v, f) /\ Listed(v, g) => f < g
        /\ \A f, g \in Files : Listed(v, f) /\ ~Listed(b, f) /\ Listed(b, g) => f < g
    BY <1>1 DEF Turned, Booked
  <2> QED BY <2>1, <2>2
<1>14. \A f, g \in Files : f \in DOMAIN dir /\ f \notin DOMAIN d /\ g \in DOMAIN d => f < g
  <2>1. /\ \A f \in Files : f \in DOMAIN d <=> Listed(v, f)
        /\ \A f \in Files : f \in DOMAIN dir <=> Listed(w, f)
        /\ \A f, g \in Files : Listed(w, f) /\ ~Listed(v, f) /\ Listed(v, g) => f < g
    BY <1>1, <1>2 DEF Turned, Log
  <2> QED BY <2>1
<1>15. d = DirOf(v)
  OBVIOUS
<1> HIDE DEF d
<1>16. ASSUME NEW k, k \notin Lost(v) PROVE Longer(dir, e, k, c, n, r)
  <2>1. Trim(dir, d, k)
    BY <1>2, <1>4, <1>14, <1>15, <1>16, CutTrim
  <2>2. ASSUME NEW g \in Files, NEW p \in Nat, g \in DOMAIN e
        PROVE  /\ RecOf(e, k, g, p) <=> (RecOf(dir, k, g, p) \/ (r.id = k /\ g = c /\ p = n))
               /\ RecOf(dir, k, g, p) => dir[g].recs[p] = e[g].recs[p]
    <3>1. g \in DOMAIN d
      BY <1>9, <2>2
    <3>2. CASE g = c
      <4>1. /\ RecOf(e, k, g, p) <=> (p \in DOMAIN e[c].recs /\ e[c].recs[p].id = k)
            /\ RecOf(dir, k, g, p) <=> (p \in DOMAIN dir[c].recs /\ dir[c].recs[p].id = k)
        BY <1>5, <1>7, <1>9, <3>2 DEF RecOf
      <4> HIDE DEF n
      <4> QED BY <1>10, <3>2, <4>1
    <3>3. CASE g # c
      <4>1. e[g] = d[g]
        BY <1>9, <2>2, <3>3
      <4>2. RecOf(e, k, g, p) <=> RecOf(d, k, g, p)
        BY <2>2, <3>1, <4>1 DEF RecOf
      <4> QED BY <2>1, <3>1, <3>3, <4>1, <4>2 DEF Trim
    <3> QED BY <3>2, <3>3
  <2> QED BY <1>13, <2>2 DEF Longer
<1>17. ASSUME NEW f \in DOMAIN e, f > v.cur PROVE f \in DOMAIN dir /\ e[f] = dir[f]
  <2>1. f \in Files /\ f # c /\ f # w.cur
    <3>1. f \in Files
      BY <1>1, <1>17 DEF Recorded
    <3> QED BY <1>3, <1>6, <1>17, <3>1, Numbers
  <2>2. f \in DOMAIN d /\ e[f] = d[f]
    BY <1>9, <1>17, <2>1
  <2>3. f \in DOMAIN dir /\ d[f] = dir[f]
    BY <1>1, <2>1, <2>2 DEF Turned
  <2> QED BY <2>2, <2>3
<1> HIDE DEF c, n
<1> QED BY <1>3, <1>4, <1>10, <1>12, <1>16, <1>17 DEF c, n, r, e

\* Who is not exposed by what was cut off is sure after the step only if it was before.
LEMMA CutClients ==
  ASSUME NEW S, Expose(S), NEW k
  PROVE  /\ (Relied(k))' => Relied(k) /\ acked'[k] = acked[k] /\ k \notin S
         /\ k \in gone' => k \in gone /\ k \notin S
         /\ ~(Exposed(k))' => ~Exposed(k) /\ k \notin S
BY ExposeFields

\* What all records have in common.
LEMMA RecordDur ==
  ASSUME FilesInv, FilesInv', DurInv, pc = "write", w.use, NEW v, NEW b, NEW full \in BOOLEAN,
         WriteFacts(v, b, full)
  PROVE  /\ pc' = (IF full THEN "body" ELSE "compact") /\ jobs' = jobs /\ Running /\ Running'
         /\ run'.op = run.op /\ run'.job = run.job
         /\ run'.moving = IF full THEN run.moving ELSE 0
         /\ KnownInv' /\ CommandInv' /\ CurrentInv' /\ FoundInv'
         /\ Subject \in Ids /\ Subject \in DOMAIN jobs
<1>1. /\ w'.cur = v.cur /\ Expose(Lost(v))
      /\ IF full THEN pc' = "body" /\ UNCHANGED <<jobs, run, answer>> ELSE Compacting(b)
  BY DEF WriteFacts
<1>2. run \in RunRec /\ Running /\ Subject \in Ids /\ Subject \in DOMAIN jobs
  BY WorkFacts, SubjectIs
<1>3. /\ pc' = (IF full THEN "body" ELSE "compact") /\ jobs' = jobs
      /\ run'.op = run.op /\ run'.job = run.job
      /\ run'.moving = IF full THEN run.moving ELSE 0
  <2>1. CASE full
    BY <1>1, <2>1
  <2>2. CASE ~full
    BY <1>1, <1>2, <2>2, CompactingRun
  <2> QED BY <2>1, <2>2
<1>4. Running' /\ pc' # "replay" /\ pc' # "read"
  BY <1>3 DEF Running
<1>5. \A k : (Relied(k))' => Relied(k) /\ acked'[k] = acked[k]
  BY <1>1, CutClients
<1>6. gone' \subseteq gone
  BY <1>1 DEF Expose
<1>7. KnownInv'
  BY <1>2, <1>3, <1>4, <1>5, <1>6, SameKnown
<1>8. CommandInv'
  BY <1>3, <1>5, SameCommand
<1>9. CurrentInv'
  <2> DEFINE n == Len(dir[v.cur].recs) + 1
             r == SubjectRec(full)
  <2>1. CurrentInv
    BY DEF DurInv
  <2>2. /\ v.cur \in Files /\ v.cur >= w.cur /\ Newest(dir, dir', v.cur, n, r)
        /\ \A f \in DOMAIN dir' : f > v.cur => f \in DOMAIN dir /\ dir'[f] = dir[f]
    BY <2>1, RecordIs
  <2> HIDE DEF n, r
  <2>3. dir'[v.cur].ver = WalVer
    BY <2>2 DEF Newest
  <2>4. w.cur \in Nat /\ v.cur \in Nat /\ \A f \in DOMAIN dir' : f \in Nat
    BY <2>2, Writes, Numbers DEF FilesInv, Disk
  <2>5. \A f \in DOMAIN dir' : f > v.cur => f >= w.cur /\ f > w.cur
    BY <2>2, <2>4
  <2>6. ASSUME NEW f \in DOMAIN dir', f > v.cur PROVE dir'[f].ver = WalVer /\ dir'[f].recs = <<>>
    BY <1>2, <2>1, <2>2, <2>5, <2>6 DEF CurrentInv
  <2>7. ASSUME NEW f \in DOMAIN dir', f >= v.cur
        PROVE dir'[f].ver = WalVer /\ (f > v.cur => dir'[f].recs = <<>>)
    BY <2>3, <2>4, <2>6, <2>7
  <2> QED BY <1>1, <2>7 DEF CurrentInv
<1>10. FoundInv'
  BY <1>4 DEF FoundInv
<1> QED BY <1>2, <1>3, <1>4, <1>7, <1>8, <1>9, <1>10

\* The head of a full record: recovery finds the job again only with the body.
LEMMA WriteFullDur ==
  ASSUME FilesInv, FilesInv', LogInv, DurInv, pc = "write", w.use, NEW v, NEW b,
         WriteFacts(v, b, TRUE)
  PROVE  DurInv'
<1> DEFINE c == v.cur
           n == Len(dir[c].recs) + 1
           r == SubjectRec(TRUE)
<1>1. /\ pc' = "body" /\ jobs' = jobs /\ Running /\ Running'
      /\ KnownInv' /\ CommandInv' /\ CurrentInv' /\ FoundInv' /\ Subject \in Ids /\ Subject \in DOMAIN jobs
  BY RecordDur
<1>2. /\ run' = run /\ w'.cur = c /\ w'.use /\ Expose(Lost(v)) /\ ~InList(w, Subject)
      /\ \A g \in Files : \A k : Holds(w', g, k) <=> (Holds(w, g, k) \/ (g = c /\ k = Subject))
  BY DEF WriteFacts
<1>3. /\ c \in Files /\ Newest(dir, dir', c, n, r) /\ Len(dir'[c].recs) = n
      /\ \A k : k \notin Lost(v) => Longer(dir, dir', k, c, n, r)
  BY RecordIs DEF DurInv
<1>4. /\ r.id = Subject /\ r.st = jobs[Subject].st
  BY DEF SubjectRec, Rec
<1> HIDE DEF n, r, c
<1>5. /\ run.moving # 0 => Subject = run.moving
      /\ run.moving = 0 => Subject = run.job
  BY DEF Subject
<1>6. run.moving = 0 => run.op = "put"
  BY <1>2, <1>5 DEF LogInv, OwnLog
<1>7. jobs[Subject].st # "invalid"
  <2>1. CASE run.moving # 0
    BY <1>5, <2>1 DEF DurInv, InvalidInv
  <2>2. CASE run.moving = 0
    BY <1>5, <1>6, <2>2 DEF DurInv, CommandInv
  <2> QED BY <2>1, <2>2
<1>8. \A k : /\ (Relied(k))' => Relied(k) /\ acked'[k] = acked[k] /\ k \notin Lost(v)
             /\ k \in gone' => k \in gone /\ k \notin Lost(v)
             /\ ~(Exposed(k))' => ~Exposed(k) /\ k \notin Lost(v)
  BY <1>2, CutClients
<1>9. \A op, k : (Done(op, k))' => Done(op, k) /\ run.moving # 0 /\ k \notin Lost(v)
  BY <1>1, <1>2, <1>8 DEF Done, Past
<1>10. ASSUME NEW k \in Ids, (Sure(k))' PROVE (Lasts(k))'
  <2>1. k # run.moving /\ ((Relied(k))' \/ (Done("put", k))')
    BY <1>2, <1>10 DEF Sure
  <2>2. Sure(k) /\ k \notin Lost(v)
    BY <1>8, <1>9, <2>1 DEF Sure
  <2>3. k # Subject
    <3>1. CASE run.moving # 0
      BY <1>5, <2>1, <3>1
    <3>2. CASE run.moving = 0
      <4>1. Relied(k)
        BY <1>8, <1>9, <2>1, <3>2
      <4>2. ~Relied(run.job)
        BY <1>6, <3>2 DEF DurInv, CommandInv
      <4> QED BY <1>5, <3>2, <4>1, <4>2
    <3> QED BY <3>1, <3>2
  <2>4. Trim(dir, dir', k)
    BY <1>3, <1>4, <2>2, <2>3, LongerTrim
  <2>5. (SureBuried(k))' => SureBuried(k)
    BY <1>8, <1>9 DEF SureBuried
  <2>6. \A f \in Files : Holds(w, f, k) => Holds(w', f, k)
    BY <1>2
  <2> QED BY <1>1, <2>2, <2>4, <2>5, <2>6, RunningKept DEF DurInv
<1>11. ASSUME NEW k \in Ids, (SureGone(k))' PROVE (Absent(k))'
  <2>1. SureGone(k) /\ k \notin Lost(v)
    BY <1>8, <1>9, <1>11 DEF SureGone
  <2>2. k # Subject
    <3>1. CASE k \in gone
      BY <1>1, <3>1 DEF DurInv, KnownInv
    <3>2. CASE Done("delete", k) /\ run.moving # 0
      <4>1. run.moving # run.job /\ k = run.job
        BY <3>2 DEF LogInv, MovingLog, Done
      <4> QED BY <1>5, <3>2, <4>1
    <3> QED BY <1>8, <1>9, <1>11, <3>1, <3>2 DEF SureGone
  <2>3. Trim(dir, dir', k)
    BY <1>3, <1>4, <2>1, <2>2, LongerTrim
  <2> QED BY <2>1, <2>3, GoneOne DEF DurInv, GoneInv
<1>12. KeptInv' /\ GoneInv'
  BY <1>10, <1>11 DEF KeptInv, GoneInv
<1>13. Subject' = Subject
  BY <1>2 DEF Subject
<1>14. HalfInv'
  <2>1. Holds(w', w'.cur, Subject)
    BY <1>2, <1>3
  <2>2. dir'[c].recs[n].st = jobs[Subject].st
    BY <1>3, <1>4 DEF Newest
  <2> QED BY <1>1, <1>2, <1>3, <1>7, <1>13, <2>1, <2>2 DEF HalfInv
<1>15. InvalidInv'
  <2>1. ASSUME NEW j \in DOMAIN jobs, InList(w', j), jobs[j].st = "invalid" PROVE FALSE
    <3>1. j # Subject
      BY <1>7, <2>1
    <3>2. InList(w, j)
      BY <1>2, <2>1, <3>1 DEF InList
    <3>3. run.moving = 0 /\ run.op = "delete"
      BY <2>1, <3>2 DEF DurInv, InvalidInv
    <3> QED BY <1>6, <3>3
  <2> QED BY <1>1, <1>2, <2>1 DEF DurInv, InvalidInv
<1> QED BY <1>1, <1>12, <1>14, <1>15 DEF DurInv

\* A short record: the state of the job, or its delete.
LEMMA WriteShortDur ==
  ASSUME FilesInv, FilesInv', LogInv, DurInv, pc = "write", w.use, NEW v, NEW b,
         WriteFacts(v, b, FALSE)
  PROVE  DurInv'
<1> DEFINE c == v.cur
           n == Len(dir[c].recs) + 1
           r == SubjectRec(FALSE)
<1>1. /\ pc' = "compact" /\ jobs' = jobs /\ Running /\ Running'
      /\ run'.op = run.op /\ run'.job = run.job /\ run'.moving = 0
      /\ KnownInv' /\ CommandInv' /\ CurrentInv' /\ FoundInv' /\ Subject \in Ids /\ Subject \in DOMAIN jobs
  BY RecordDur
<1>2. /\ Expose(Lost(v)) /\ InList(w, Subject)
      /\ \A g \in Files : \A k : Holds(w', g, k) <=> (Holds(w, g, k) /\ ~(SubjectGone /\ k = Subject))
  BY DEF WriteFacts
<1>3. /\ Newest(dir, dir', c, n, r)
      /\ \A k : k \notin Lost(v) => Longer(dir, dir', k, c, n, r)
  BY RecordIs DEF DurInv
<1>4. /\ r.id = Subject /\ r.st = jobs[Subject].st /\ ~IsFull(r)
  BY DEF SubjectRec, Rec, IsFull
<1> HIDE DEF n, r, c
<1>5. run.moving = 0 /\ Subject = run.job /\ run.op # "put"
  <2>1. run.moving = 0
    BY <1>2 DEF LogInv, MovingLog, Subject
  <2>2. Subject = run.job
    BY <2>1 DEF Subject
  <2> QED BY <1>2, <2>1, <2>2 DEF LogInv, OwnLog
<1>6. \A k : /\ (Relied(k))' => Relied(k) /\ acked'[k] = acked[k] /\ k \notin Lost(v)
             /\ k \in gone' => k \in gone /\ k \notin Lost(v)
             /\ ~(Exposed(k))' => ~Exposed(k) /\ k \notin Lost(v)
  BY <1>2, CutClients
<1>7. \A op, k : (Done(op, k))' => op = run.op /\ k = Subject /\ k \notin Lost(v)
  BY <1>1, <1>5, <1>6 DEF Done
<1>8. ASSUME NEW k \in Ids, (Sure(k))' PROVE (Lasts(k))'
  <2>1. (Relied(k))'
    BY <1>5, <1>7, <1>8 DEF Sure
  <2>2. Relied(k) /\ acked'[k] = acked[k] /\ k \notin Lost(v)
    BY <1>6, <2>1
  <2>3. Sure(k)
    BY <1>5, <2>2, JobNumbers DEF Sure
  <2>4. CASE k # Subject
    <3>1. Trim(dir, dir', k)
      BY <1>3, <1>4, <2>2, <2>4, LongerTrim
    <3>2. (SureBuried(k))' => SureBuried(k)
      BY <1>7, <2>2, <2>4 DEF SureBuried
    <3>3. \A f \in Files : Holds(w, f, k) => Holds(w', f, k)
      BY <1>2, <2>4
    <3> QED BY <1>1, <2>3, <3>1, <3>2, <3>3, RunningKept DEF DurInv
  <2>5. CASE k = Subject
    <3>1. run.op # "delete" /\ jobs[k].st # "invalid"
      BY <1>5, <2>2, <2>5 DEF DurInv, CommandInv
    <3>2. PICK f \in Files, st \in States : InDir(dir, k, f, TRUE, st) /\ Stays(k, f)
      BY <2>3 DEF DurInv, KeptInv, Lasts
    <3>3. Holds(w', f, k)
      BY <1>1, <1>2, <2>5, <3>1, <3>2 DEF Stays, SubjectGone
    <3>4. f \in DOMAIN dir'
      BY <1>1, <3>3, HoldsDir DEF FilesInv
    <3> DEFINE l == MaxFiles + 1
               e == dir'
    <3>5. Longer(dir, e, r.id, c, n, r) /\ Newest(dir, e, c, n, r)
      BY <1>3, <1>4, <2>2, <2>5
    <3>6. e[c].recs[n] = r
      BY <3>5 DEF Newest
    <3>7. OneMore(dir, l, 1, e, l, 1, r.id, c, n, f)
      BY <3>4, <3>5, LongerMore
    <3>8. ~IsFull(e[c].recs[n]) /\ Valid(e[c].recs[n]) /\ e[c].recs[n].st = jobs[k].st
      BY <1>4, <2>5, <3>1, <3>6 DEF Valid
    <3>9. Found(dir, r.id, l, 1, f, TRUE, st)
      BY <1>4, <2>5, <3>2 DEF InDir
    <3> HIDE DEF e, l
    <3>10. Found(e, r.id, l, 1, f, TRUE, jobs[k].st)
      <4>1. \A y, x : Found(dir, r.id, l, 1, f, y, x) => Found(e, r.id, l, 1, f, y, e[c].recs[n].st)
        BY <3>7, <3>8, FoundShort
      <4> QED BY <3>8, <3>9, <4>1
    <3>11. InDir(dir', k, f, TRUE, jobs[k].st)
      BY <1>4, <2>5, <3>10 DEF InDir, e, l
    <3>12. (Stays(k, f))'
      BY <1>1, <3>3 DEF Stays, Holds
    <3>13. (SureBuried(k))' => jobs[k].st = "buried"
      <4>1. acked[k] = "buried" => jobs[k].st = "buried"
        BY <1>1, <2>2 DEF DurInv, KnownInv
      <4>2. run.op = "bury" => jobs[k].st = "buried"
        BY <1>5, <2>5 DEF DurInv, CommandInv
      <4> QED BY <1>7, <2>2, <4>1, <4>2 DEF SureBuried
    <3>14. jobs[k].st \in States
      BY <2>5, SubjectIs
    <3> QED BY <3>11, <3>12, <3>13, <3>14 DEF Lasts
  <2> QED BY <2>4, <2>5
<1>9. ASSUME NEW k \in Ids, (SureGone(k))' PROVE (Absent(k))'
  <2>1. CASE k \in gone'
    <3>1. k \in gone /\ k \notin Lost(v)
      BY <1>6, <2>1
    <3>2. k # Subject
      BY <1>1, <3>1 DEF DurInv, KnownInv
    <3>3. Trim(dir, dir', k)
      BY <1>3, <1>4, <3>1, <3>2, LongerTrim
    <3>4. Absent(k)
      BY <3>1 DEF DurInv, GoneInv, SureGone
    <3> QED BY <3>3, <3>4, GoneOne
  <2>2. CASE (Done("delete", k))'
    <3>1. run.op = "delete" /\ k = Subject /\ k \notin Lost(v)
      BY <1>7, <2>2
    <3>2. jobs[k].st = "invalid"
      BY <1>5, <3>1 DEF LogInv, OwnLog
    <3> DEFINE l == MaxFiles + 1
               e == dir'
    <3>3. Longer(dir, e, r.id, c, n, r) /\ Newest(dir, e, c, n, r)
      BY <1>3, <1>4, <3>1
    <3>4. e[c].recs[n] = r /\ c \in Files /\ n \in Nat
      BY <3>3 DEF Newest
    <3>5. ~Valid(e[c].recs[n])
      BY <1>4, <3>1, <3>2, <3>4 DEF Valid
    <3>6. /\ Seen(e, r.id, l, 1, c, n)
          /\ \A g \in Files, p \in Nat : Seen(e, r.id, l, 1, g, p) =>
               Before(g, p, c, n) \/ (g = c /\ p = n)
      BY <3>3, NewestLast
    <3> HIDE DEF e, l
    <3>7. \A f \in Files, p \in Nat : ~Source(e, r.id, l, 1, f, p)
      BY <3>4, <3>5, <3>6, FoundGone
    <3> QED BY <1>4, <3>1, <3>7 DEF Absent, e, l
  <2> QED BY <1>9, <2>1, <2>2 DEF SureGone
<1>10. KeptInv' /\ GoneInv'
  BY <1>8, <1>9 DEF KeptInv, GoneInv
<1>11. HalfInv'
  BY <1>1 DEF HalfInv
<1>12. InvalidInv'
  <2>1. ASSUME NEW j \in DOMAIN jobs, InList(w', j), jobs[j].st = "invalid" PROVE FALSE
    <3>1. InList(w, j) /\ ~(SubjectGone /\ j = Subject)
      BY <1>2, <2>1 DEF InList
    <3>2. run.job = j
      BY <2>1, <3>1 DEF DurInv, InvalidInv
    <3> QED BY <1>5, <2>1, <3>1, <3>2 DEF SubjectGone
  <2> QED BY <1>1, <2>1 DEF InvalidInv
<1> QED BY <1>1, <1>10, <1>11, <1>12 DEF DurInv

\* WalWrite.
LEMMA WalWriteDur ==
  ASSUME FilesInv, FilesInv', LogInv, DurInv, WalWrite
  PROVE  DurInv'
<1>1. pc = "write" /\ w.use
  BY DEF WalWrite
<1>2. CASE LogOff(w)
  <2>1. pc \in {"write", "body"} /\ Aimed(w)
    BY <1>1, AimHere
  <2>2. PICK v : LogOffFacts(v)
    BY <1>1, <1>2, <2>1, LogOffIs
  <2> QED BY <1>1, <2>1, <2>2, LogOffDur
<1>3. ASSUME NEW v, NEW b, NEW full \in BOOLEAN, WriteFacts(v, b, full) PROVE DurInv'
  <2>1. CASE full = TRUE
    BY <1>1, <1>3, <2>1, WriteFullDur
  <2>2. CASE full = FALSE
    BY <1>1, <1>3, <2>2, WriteShortDur
  <2> QED BY <2>1, <2>2
<1> QED BY <1>2, <1>3, WalWriteIs

\* The body of a record: recovery finds the job by it.
LEMMA WriteBodyDur ==
  ASSUME FilesInv, FilesInv', LogInv, DurInv, WriteBody
  PROVE  DurInv'
<1> DEFINE c == w.cur
           s == dir[c].recs
           t == dir'[c].recs
           n == Len(s)
<1>1. /\ pc = "body" /\ w.use /\ c \in DOMAIN dir /\ c \in Files /\ s \in Seq(Recs)
      /\ w'.cur = c /\ w'.list = w.list
      /\ DOMAIN dir' = DOMAIN dir /\ \A f \in DOMAIN dir : f # c => dir'[f] = dir[f]
      /\ dir'[c].ver = dir[c].ver /\ Finished(s, t)
      /\ acked' = acked /\ gone' = gone
  BY WriteBodyIs DEF BodyFacts
<1>2. PICK x : Compacting(x)
  BY WriteBodyIs DEF BodyFacts
<1>3. run \in RunRec /\ Running /\ Subject \in Ids /\ Subject \in DOMAIN jobs /\ jobs[Subject].st \in States
  BY <1>1, WorkFacts, SubjectIs
<1>4. /\ pc' = "compact" /\ run'.op = run.op /\ run'.job = run.job /\ run'.moving = 0 /\ jobs' = jobs
  BY <1>2, <1>3, CompactingRun
<1>5. Running'
  BY <1>4 DEF Running
<1>6. /\ s # <<>> /\ IsFull(s[n]) /\ s[n].id = Subject
  BY <1>1 DEF FilesInv, BodyInv
<1>7. Holds(w, c, Subject) /\ jobs[Subject].st # "invalid" /\ s[n].st = jobs[Subject].st
  BY <1>1 DEF DurInv, HalfInv
<1>8. /\ dir[c].ver = WalVer /\ \A f \in DOMAIN dir : f > c => dir[f].recs = <<>>
  <2>1. \A f \in DOMAIN dir : f >= c => dir[f].ver = WalVer /\ (f > c => dir[f].recs = <<>>)
    BY <1>1, <1>3 DEF DurInv, CurrentInv
  <2>2. \A f \in DOMAIN dir : f \in Nat
    BY Numbers DEF FilesInv, Disk
  <2>3. c \in Nat
    BY <1>1, Numbers
  <2> QED BY <1>1, <2>1, <2>2, <2>3
<1>9. /\ n \in Nat /\ DOMAIN t = DOMAIN s /\ n \in DOMAIN t
      /\ t[n].id = Subject /\ t[n].st = jobs[Subject].st /\ IsFull(t[n]) /\ t[n].body = TRUE
      /\ \A p \in DOMAIN s : p # n => t[p] = s[p]
      /\ \A p \in DOMAIN s : p \in Nat /\ (p < n \/ p = n)
  <2> HIDE DEF s, t
  <2>1. s \in Seq(Recs) /\ s # <<>> /\ t \in Seq(Recs) /\ Len(t) = Len(s)
    BY <1>1, <1>6 DEF Finished
  <2>2. n \in Nat /\ DOMAIN t = DOMAIN s /\ n \in DOMAIN t /\ DOMAIN s = 1..n
    BY <2>1
  <2>3. \A p \in DOMAIN s : p # n => p \in 1..(n - 1)
    BY <2>2
  <2>4. t[n] \in Recs
    BY <2>1, <2>2
  <2>5. /\ t[n].id = Subject /\ t[n].st = jobs[Subject].st /\ IsFull(t[n]) /\ t[n].body
        /\ \A p \in 1..(n - 1) : t[p] = s[p]
    BY <1>1, <1>6, <1>7 DEF Finished, IsFull
  <2>6. t[n].body \in BOOLEAN
    BY <2>4, WrittenNat
  <2>7. t[n].body = TRUE
    BY <2>5, <2>6
  <2>8. \A p \in DOMAIN s : p \in Nat /\ (p < n \/ p = n)
    BY <2>2
  <2>9. \A p \in DOMAIN s : p # n => t[p] = s[p]
    BY <2>3, <2>5
  <2> QED BY <2>2, <2>5, <2>7, <2>8, <2>9
<1>10. ASSUME NEW k, k # Subject PROVE Trim(dir, dir', k)
  <2>1. ASSUME NEW g \in Files, NEW p \in Nat, g \in DOMAIN dir'
        PROVE  /\ RecOf(dir, k, g, p) <=> RecOf(dir', k, g, p)
               /\ RecOf(dir, k, g, p) => dir[g].recs[p] = dir'[g].recs[p]
    <3>1. CASE g # c
      BY <1>1, <2>1, <3>1 DEF RecOf
    <3>2. CASE g = c
      <4>1. /\ RecOf(dir, k, g, p) <=> (p \in DOMAIN s /\ s[p].id = k)
            /\ RecOf(dir', k, g, p) <=> (p \in DOMAIN t /\ t[p].id = k)
        BY <1>1, <1>8, <3>2 DEF RecOf
      <4>2. (p \in DOMAIN s /\ s[p].id = k) <=> (p \in DOMAIN t /\ t[p].id = k)
        BY <1>6, <1>9, <1>10
      <4>3. p \in DOMAIN s /\ s[p].id = k => s[p] = t[p]
        BY <1>6, <1>9, <1>10
      <4> QED BY <3>2, <4>1, <4>2, <4>3
    <3> QED BY <3>1, <3>2
  <2> QED BY <1>1, <2>1 DEF Trim
<1>11. \A k : ((Relied(k))' <=> Relied(k)) /\ ((Exposed(k))' <=> Exposed(k))
  BY <1>1 DEF Relied, Exposed
<1>12. /\ run.moving # 0 => Subject = run.moving
       /\ run.moving = 0 => Subject = run.job /\ run.op = "put"
  BY <1>1 DEF Subject, LogInv, RestLog
<1>13. \A op : \A k : (Done(op, k))' /\ k # Subject => Done(op, k)
  BY <1>1, <1>4, <1>11, <1>12 DEF Done, Past
<1>14. ASSUME NEW k \in Ids, (Sure(k))' PROVE (Lasts(k))'
  <2>1. CASE k # Subject
    <3>1. Relied(k) \/ Done("put", k)
      BY <1>11, <1>13, <1>14, <2>1 DEF Sure
    <3>2. Sure(k)
      BY <1>12, <2>1, <3>1, JobNumbers DEF Sure
    <3>3. (SureBuried(k))' => SureBuried(k)
      BY <1>1, <1>11, <1>13, <2>1 DEF SureBuried
    <3>4. \A f \in Files : Holds(w, f, k) => Holds(w', f, k)
      BY <1>1, ListHolds
    <3> QED BY <1>3, <1>5, <1>10, <2>1, <3>2, <3>3, <3>4, RunningKept DEF DurInv
  <2>2. CASE k = Subject
    <3> DEFINE l == MaxFiles + 1
               e == dir'
               r == e[c].recs[n]
    <3>1. RecOf(e, k, c, n)
      BY <1>1, <1>8, <1>9, <2>2 DEF RecOf
    <3>2. Seen(e, k, l, 1, c, n)
      BY <1>1, <3>1, SeenAll
    <3>3. ASSUME NEW g \in Files, NEW p \in Nat, Seen(e, k, l, 1, g, p)
          PROVE  Before(g, p, c, n) \/ (g = c /\ p = n)
      <4>1. g \in DOMAIN dir /\ p \in DOMAIN e[g].recs
        BY <1>1, <3>3 DEF Seen, RecOf
      <4>2. CASE g < c
        BY <4>2 DEF Before
      <4>3. CASE g = c
        <5>1. p \in DOMAIN t
          BY <4>1, <4>3
        <5>2. p < n \/ p = n
          BY <1>9, <5>1
        <5> QED BY <4>3, <5>2 DEF Before
      <4>4. CASE g > c
        <5>1. g # c /\ dir[g].recs = <<>>
          BY <1>1, <1>8, <4>1, <4>4, Numbers
        <5>2. e[g].recs = <<>>
          BY <1>1, <4>1, <5>1
        <5> QED BY <4>1, <5>2
      <4>5. g \in Nat /\ c \in Nat
        BY <1>1, Numbers
      <4> QED BY <4>2, <4>3, <4>4, <4>5
    <3>4. IsFull(r) /\ Valid(r) /\ r.body = TRUE /\ r.st = jobs[k].st
      BY <1>7, <1>9, <2>2 DEF Valid
    <3>5. n \in Nat
      BY <1>9
    <3> HIDE DEF l, e, n, c, r
    <3>6. Found(e, k, l, 1, c, r.body, r.st)
      <4>1. c \in Files
        BY <1>1 DEF c
      <4>2. IsFull(e[c].recs[n]) /\ Valid(e[c].recs[n])
        BY <3>4 DEF r
      <4>3. Found(e, k, l, 1, c, e[c].recs[n].body, e[c].recs[n].st)
        BY <3>2, <3>3, <3>5, <4>1, <4>2, FoundFull
      <4> QED BY <4>3 DEF r
    <3>7. InDir(dir', k, c, TRUE, jobs[k].st)
      BY <3>4, <3>6 DEF InDir, l, e
    <3>8. PICK f \in Files : f = c
      BY <1>1 DEF c
    <3>9. (Stays(k, f))'
      BY <1>1, <1>4, <1>7, <2>2, <3>8 DEF Stays, Holds, c
    <3>10. (SureBuried(k))' => jobs[k].st = "buried"
      <4>1. Relied(k) /\ acked[k] = "buried" => jobs[k].st = "buried"
        BY <1>3, <2>2 DEF DurInv, KnownInv
      <4>2. run.op = "bury" /\ run.job = k => jobs[k].st = "buried"
        BY <1>1 DEF DurInv, CommandInv
      <4> QED BY <1>1, <1>4, <1>11, <4>1, <4>2 DEF SureBuried, Done
    <3>11. InDir(dir', k, f, TRUE, jobs[k].st) /\ jobs[k].st \in States
      BY <1>3, <2>2, <3>7, <3>8
    <3> QED BY <3>9, <3>10, <3>11 DEF Lasts
  <2> QED BY <2>1, <2>2
<1>15. ASSUME NEW k \in Ids, (SureGone(k))' PROVE (Absent(k))'
  <2>1. k # Subject /\ SureGone(k)
    <3>1. CASE k \in gone'
      BY <1>1, <1>3, <3>1 DEF DurInv, KnownInv, SureGone
    <3>2. CASE (Done("delete", k))'
      <4>1. run.op = "delete" /\ run.job = k
        BY <1>4, <3>2 DEF Done
      <4>2. run.moving # 0 /\ run.moving # run.job
        BY <1>1, <1>12, <4>1 DEF LogInv, MovingLog
      <4> QED BY <1>12, <1>13, <3>2, <4>1, <4>2 DEF SureGone
    <3> QED BY <1>15, <3>1, <3>2 DEF SureGone
  <2> QED BY <1>10, <2>1, GoneOne DEF DurInv, GoneInv
<1>16. KeptInv' /\ GoneInv'
  BY <1>14, <1>15 DEF KeptInv, GoneInv
<1>17. KnownInv'
  <2>1. gone' \subseteq gone /\ pc' # "replay" /\ \A k : (Relied(k))' => Relied(k) /\ acked'[k] = acked[k]
    BY <1>1, <1>4, <1>11
  <2> QED BY <1>3, <1>4, <2>1, SameKnown
<1>18. CommandInv'
  BY <1>1, <1>4, <1>11, SameCommand
<1>19. CurrentInv'
  BY <1>1, <1>3 DEF DurInv, CurrentInv
<1>20. HalfInv' /\ FoundInv'
  BY <1>4 DEF HalfInv, FoundInv
<1>21. InvalidInv'
  <2>1. \A j : InList(w', j) => InList(w, j)
    BY <1>1, ListHolds
  <2> QED BY <1>1, <1>4, <2>1 DEF DurInv, InvalidInv
<1> QED BY <1>16, <1>17, <1>18, <1>19, <1>20, <1>21 DEF DurInv

-----------------------------------------------------------------------------
(* Deaths. *)

\* A process that has gone leaves in the directory what it held in its lists.
LEMMA DeathDur ==
  ASSUME DurInv, Died, \A j : Trim(dir, dir', j),
         \A k \in Ids : (Relied(k))' => Relied(k) /\ acked'[k] = acked[k] /\ k # run.moving,
         gone' \subseteq gone,
         \A j \in Ids, f \in Files : f \in DOMAIN dir /\ Stays(j, f) => f \in DOMAIN dir'
  PROVE  DurInv'
<1>1. pc' = "down" /\ jobs' = <<>> /\ run' = NoRun
  BY DEF Died
<1>2. ~Running' /\ run'.moving = 0 /\ DOMAIN jobs' = {}
  BY <1>1, NoRunFields, NoJobs DEF Running
<1>3. \A j : Trim(dir, dir', j)
  OBVIOUS
<1>4. ASSUME NEW j \in Ids, (Sure(j))' PROVE (Lasts(j))'
  <2>1. (Relied(j))' /\ ((SureBuried(j))' => acked'[j] = "buried")
    BY <1>1, <1>2, <1>4, RestSureNext
  <2>2. Relied(j) /\ acked'[j] = acked[j] /\ j # run.moving
    BY <2>1
  <2>3. Sure(j) /\ ((SureBuried(j))' => SureBuried(j))
    BY <2>1, <2>2 DEF Sure, SureBuried
  <2>4. Lasts(j) /\ Trim(dir, dir', j)
    BY <1>3, <2>3 DEF DurInv, KeptInv
  <2>5. \A f \in Files : f \in DOMAIN dir /\ dir[f].ver = WalVer /\ Stays(j, f) =>
          f \in DOMAIN dir' /\ (Stays(j, f))'
    BY <1>1, <1>2 DEF Stays
  <2> QED BY <2>3, <2>4, <2>5, KeptOne
<1>5. ASSUME NEW j \in Ids, (SureGone(j))' PROVE (Absent(j))'
  <2>1. j \in gone'
    BY <1>1, <1>2, <1>5, RestSureNext
  <2>2. Absent(j) /\ Trim(dir, dir', j)
    BY <1>3, <2>1 DEF DurInv, GoneInv, SureGone
  <2> QED BY <2>2, GoneOne
<1>6. KeptInv' /\ GoneInv'
  BY <1>4, <1>5 DEF KeptInv, GoneInv
<1>7. KnownInv' /\ CommandInv' /\ CurrentInv' /\ HalfInv' /\ FoundInv'
  BY <1>1, <1>2 DEF KnownInv, CommandInv, CurrentInv, HalfInv, FoundInv
<1>8. InvalidInv'
  BY <1>2 DEF InvalidInv
<1> QED BY <1>6, <1>7, <1>8 DEF DurInv

\* Crash.
LEMMA CrashDur ==
  ASSUME FilesInv, DurInv, Crash
  PROVE  DurInv'
<1>1. Died /\ Expose(InHand \cup Unlogged) /\ dir' = dir
  BY DEF Crash
<1>2. \A k : /\ (Relied(k))' => Relied(k) /\ acked'[k] = acked[k] /\ k \notin InHand
             /\ k \in gone' => k \in gone
  BY <1>1, ExposeFields
<1>3. \A k \in Ids : k \notin InHand => k # run.moving
  BY JobNumbers DEF InHand
<1>4. \A j : Trim(dir, dir', j)
  BY <1>1, SameQuiet, QuietTrim
<1> QED BY <1>1, <1>2, <1>3, <1>4, DeathDur

\* CrashInOpen: the file without a version holds no record.
LEMMA CrashInOpenDur ==
  ASSUME FilesInv, DurInv, CrashInOpen
  PROVE  DurInv'
<1> DEFINE e == dir'
<1>1. Died /\ Expose(InHand \cup Unlogged)
  BY DEF CrashInOpen
<1>2. \A k : /\ (Relied(k))' => Relied(k) /\ acked'[k] = acked[k] /\ k \notin InHand
             /\ k \in gone' => k \in gone
  BY <1>1, ExposeFields
<1>3. \A k \in Ids : k \notin InHand => k # run.moving
  BY JobNumbers DEF InHand
<1>4. NewFile(e)
  BY NewFileIs
<1>5. w.next \notin DOMAIN dir
  <2>1. pc # "down"
    BY DEF CrashInOpen
  <2>2. CASE Running
    <3>1. Chain(w) /\ Log(w, dir) /\ w \in WalRec
      BY <2>2 DEF FilesInv, Disk, Chain
    <3>2. ASSUME w.next \in DOMAIN dir PROVE FALSE
      <4>1. w.next \in Files
        BY <1>4 DEF NewFile
      <4>2. Listed(w, w.next)
        BY <3>1, <3>2, <4>1 DEF Log
      <4>3. w.next < w.next
        BY <3>1, <4>2 DEF Chain, Listed
      <4> QED BY <4>1, <4>3, Numbers
    <3> QED BY <3>2
  <2>3. CASE pc = "read"
    <3>1. \A f \in DOMAIN dir : f < w.next
      BY <2>3 DEF FilesInv, ReadInv
    <3>2. w.next \in Nat
      BY WalFields DEF FilesInv, Disk, Chain
    <3> QED BY <3>1, <3>2
  <2> QED BY <2>1, <2>2, <2>3 DEF Running
<1> HIDE DEF e
<1>6. \A j : Trim(dir, e, j)
  <2>1. \A f \in DOMAIN e : f \in DOMAIN dir => e[f] = dir[f]
    BY <1>4, <1>5 DEF NewFile
  <2>2. \A f \in DOMAIN e : f \notin DOMAIN dir => e[f].recs = <<>>
    BY <1>4 DEF NewFile
  <2>3. DOMAIN dir \subseteq DOMAIN e
    BY <1>4 DEF NewFile
  <2> QED BY <2>1, <2>2, <2>3, TrimIs
<1>7. \A f \in DOMAIN dir : f \in DOMAIN dir'
  BY <1>4 DEF NewFile, e
<1> QED BY <1>1, <1>2, <1>3, <1>6, <1>7, DeathDur DEF e

\* A death that leaves the directory and what clients rely on.
LEMMA PlainDeathDur ==
  ASSUME DurInv, Died, UNCHANGED <<dir, acked, gone>>, run.moving = 0
  PROVE  DurInv'
<1>1. \A k \in Ids : (Relied(k))' => Relied(k) /\ acked'[k] = acked[k] /\ k # run.moving
  BY JobNumbers DEF Relied
<1>2. \A j : Trim(dir, dir', j)
  BY SameQuiet, QuietTrim
<1> QED BY <1>1, <1>2, DeathDur

\* moveNone.
LEMMA MoveNoneDur ==
  ASSUME FilesInv, DurInv, Stops
  PROVE  DurInv'
<1>1. pc = "compact" /\ Died /\ dir' = dir /\ Expose(Unlogged)
  BY DEF Stops, moveNone
<1>2. run.moving = 0
  BY <1>1 DEF FilesInv, RunInv, Running
<1>3. \A k : /\ (Relied(k))' => Relied(k) /\ acked'[k] = acked[k]
             /\ k \in gone' => k \in gone
  BY <1>1, ExposeFields
<1>4. \A j : Trim(dir, dir', j)
  BY <1>1, SameQuiet, QuietTrim
<1> QED BY <1>1, <1>2, <1>3, <1>4, JobNumbers, DeathDur

\* The replay finds no space: files with jobs stay.
LEMMA ReplayDeathDur ==
  ASSUME FilesInv, DurInv, NEW room \in Rooms, protReplay(room), pc' = "down"
  PROVE  DurInv'
<1> DEFINE v == reserve([w EXCEPT !.room = room], WalResvUpdate)
<1>1. pc = "replay" /\ acked' = acked /\ gone' = gone
  BY DEF protReplay
<1>2. Died /\ dir' = DirOf(v)
  BY <1>1 DEF protReplay, Hangs
<1>3. Running /\ run = NoRun /\ run.moving = 0 /\ Disk(w, dir) /\ Log(w, dir)
  BY <1>1, NoRunFields DEF Running, RunInv, FilesInv
<1>4. WalResvUpdate \in Int
  BY Numbers DEF WalResvUpdate
<1>5. /\ Fit(v)
      /\ \A f \in Files : Listed(w, f) /\ ~Listed(v, f) => w.list[f] = <<>>
      /\ \A f, g \in Files : Listed(w, f) /\ ~Listed(v, f) /\ Listed(v, g) => f < g
  BY <1>3, <1>4, Reserving
<1>6. Extends(v, dir')
  BY <1>2, <1>3, <1>5, Extending
<1> HIDE DEF v
<1>7. /\ \A f \in Files : Listed(w, f) <=> f \in DOMAIN dir
      /\ \A f \in Files : f \in DOMAIN dir' <=> Listed(v, f)
  BY <1>3, <1>6 DEF Log, Extends
<1>8. \A f, g \in Files : f \in DOMAIN dir /\ f \notin DOMAIN dir' /\ g \in DOMAIN dir' => f < g
  BY <1>5, <1>7
<1>9. QuietDir
  BY <1>6, <1>8 DEF QuietDir, Extends
<1>10. ASSUME NEW j \in Ids, NEW f \in Files, f \in DOMAIN dir, Stays(j, f) PROVE f \in DOMAIN dir'
  <2>1. w.list[f] # <<>>
    BY <1>3, <1>10 DEF Stays, Holds
  <2> QED BY <1>5, <1>7, <1>10, <2>1
<1>11. \A k \in Ids : (Relied(k))' => Relied(k) /\ acked'[k] = acked[k] /\ k # run.moving
  BY <1>1, <1>3, JobNumbers DEF Relied
<1>12. \A j : Trim(dir, dir', j)
  BY <1>9, QuietTrim
<1> QED BY <1>1, <1>2, <1>10, <1>11, <1>12, DeathDur

-----------------------------------------------------------------------------
(* Recovery. *)

\* What is kept when a step leaves a job's records, and its file when it is found there.
LEMMA KeptIn ==
  ASSUME NEW j, Lasts(j), (SureBuried(j))' => SureBuried(j), Trim(dir, dir', j),
         \A f \in Files, st \in States : InDir(dir, j, f, TRUE, st) /\ Stays(j, f) =>
           f \in DOMAIN dir' /\ (Stays(j, f))'
  PROVE  (Lasts(j))'
<1>1. PICK f \in Files, st \in States :
        InDir(dir, j, f, TRUE, st) /\ Stays(j, f) /\ (SureBuried(j) => st = "buried")
  BY DEF Lasts
<1>2. f \in DOMAIN dir' /\ (Stays(j, f))'
  BY <1>1
<1>3. InDir(dir', j, f, TRUE, st)
  BY <1>1, <1>2, TrimSame, SameFound DEF InDir
<1>4. (SureBuried(j))' => st = "buried"
  BY <1>1
<1> QED BY <1>2, <1>3, <1>4 DEF Lasts

\* While recovery reads, what has to be there is what clients rely on.
LEMMA ReadSure ==
  ASSUME pc = "read", run.moving = 0, pc' \in {"read", "replay"}, run' = run, acked' = acked, gone' = gone
  PROVE  \A j \in Ids : /\ Sure(j) <=> Relied(j)
                        /\ (Sure(j))' => Sure(j)
                        /\ SureBuried(j) <=> Relied(j) /\ acked[j] = "buried"
                        /\ (SureBuried(j))' => SureBuried(j)
                        /\ SureGone(j) <=> j \in gone
                        /\ (SureGone(j))' => SureGone(j)
BY RestSure, RestSureNext DEF Relied

\* A step of recovery: what is left to show is where the jobs are, and what recovery found.
LEMMA ReadDur ==
  ASSUME FilesInv, FilesInv', DurInv, pc = "read", pc' = "read", run' = run, acked' = acked, gone' = gone,
         \A j : Trim(dir, dir', j),
         \A j \in Ids, f \in Files, st \in States : InDir(dir, j, f, TRUE, st) /\ Stays(j, f) =>
           f \in DOMAIN dir' /\ (Stays(j, f))',
         FoundInv'
  PROVE  DurInv'
<1>1. run = NoRun /\ run.moving = 0 /\ run'.moving = 0
  BY Reading, NoRunFields
<1>2. ~Running'
  BY DEF Running
<1>3. ASSUME NEW j \in Ids, (Sure(j))' PROVE (Lasts(j))'
  <2>1. Sure(j) /\ ((SureBuried(j))' => SureBuried(j))
    BY <1>1, <1>3, ReadSure
  <2>2. Lasts(j) /\ Trim(dir, dir', j)
    BY <2>1 DEF DurInv, KeptInv
  <2> QED BY <2>1, <2>2, KeptIn
<1>4. ASSUME NEW j \in Ids, (SureGone(j))' PROVE (Absent(j))'
  <2>1. SureGone(j)
    BY <1>1, <1>4, ReadSure
  <2>2. Absent(j) /\ Trim(dir, dir', j)
    BY <2>1 DEF DurInv, GoneInv
  <2> QED BY <2>2, GoneOne
<1>5. KeptInv' /\ GoneInv'
  BY <1>3, <1>4 DEF KeptInv, GoneInv
<1>6. KnownInv' /\ CommandInv' /\ CurrentInv' /\ HalfInv'
  BY <1>2 DEF KnownInv, CommandInv, CurrentInv, HalfInv
<1>7. InvalidInv'
  BY <1>1 DEF InvalidInv, FoundInv
<1> QED BY <1>5, <1>6, <1>7 DEF DurInv

\* Recovery has the files of its jobs in the directory.
LEMMA ReadHoldsNext ==
  ASSUME FilesInv', pc' = "read", NEW j, NEW f \in Files, Holds(w', f, j)
  PROVE  f \in DOMAIN dir'
<1>1. w'.list[f] # <<>>
  BY DEF Holds
<1>2. Listed(w', f)
  BY <1>1 DEF FilesInv, Disk, Chain
<1> QED BY <1>2 DEF FilesInv, ReadInv

\* It has found the same jobs in the same files.
LEMMA SameJobs ==
  ASSUME FilesInv, FilesInv', DurInv, pc = "read", pc' = "read", jobs' = jobs,
         NEW m, NEW s, NextFileOf' = m, NextRecOf' = s,
         \A j \in Ids, f \in Files : f \in DOMAIN dir' =>
           SameRecords(dir, NextFileOf, NextRecOf, dir', m, s, j, f),
         \A j \in Ids, f \in Files : Holds(w, f, j) => Holds(w', f, j)
  PROVE  FoundInv'
<1> DEFINE l == NextFileOf
           q == NextRecOf
           d == dir
           e == dir'
<1>1. /\ \A j \in Ids, f \in Files, p \in Nat : Source(d, j, l, q, f, p) => j \in DOMAIN jobs
      /\ \A j \in DOMAIN jobs :
           /\ jobs[j].where = {} /\ jobs[j].st # "invalid"
           /\ \E f \in Files, st \in States :
                /\ Found(d, j, l, q, f, jobs[j].good, st)
                /\ Holds(w, f, j) /\ jobs[j].st = RecoveredState(st)
  BY DEF DurInv, FoundInv
<1>2. \A j \in Ids, f \in Files : f \in DOMAIN e => SameRecords(d, l, q, e, m, s, j, f)
  OBVIOUS
<1>3. \A j \in Ids, f \in Files : Holds(w', f, j) => f \in DOMAIN e
  BY ReadHoldsNext
<1>4. \A f, j, p : Source(e, j, m, s, f, p) => f \in DOMAIN e
  BY DEF Source, Seen, RecOf
<1>5. DOMAIN jobs \subseteq Ids
  BY DEF FilesInv, JobTypes
<1> HIDE DEF l, q, d, e
<1>6. ASSUME NEW j \in Ids, NEW f \in Files, NEW p \in Nat, Source(e, j, m, s, f, p)
      PROVE  j \in DOMAIN jobs
  <2>1. SameRecords(e, m, s, d, l, q, j, f)
    BY <1>2, <1>4, <1>6, AlikeBack
  <2>2. Source(d, j, l, q, f, p)
    BY <1>6, <2>1, SameSource
  <2> QED BY <1>1, <2>2
<1>7. ASSUME NEW j \in DOMAIN jobs
      PROVE  \E f \in Files, st \in States :
               /\ Found(e, j, m, s, f, jobs[j].good, st)
               /\ Holds(w', f, j) /\ jobs[j].st = RecoveredState(st)
  <2>1. PICK f \in Files, st \in States :
          /\ Found(d, j, l, q, f, jobs[j].good, st)
          /\ Holds(w, f, j) /\ jobs[j].st = RecoveredState(st)
    BY <1>1
  <2>2. j \in Ids /\ Holds(w', f, j)
    BY <1>5, <2>1
  <2>3. SameRecords(d, l, q, e, m, s, j, f)
    BY <1>2, <1>3, <2>2
  <2>4. Found(e, j, m, s, f, jobs[j].good, st)
    BY <2>1, <2>3, SameFound
  <2> QED BY <2>1, <2>2, <2>4
<1> QED BY <1>1, <1>6, <1>7 DEF FoundInv, e

\* A job has one source.
LEMMA OneSource ==
  ASSUME NEW e, NEW m, NEW s, NEW j, NEW f \in Files, NEW p \in Nat, Source(e, j, m, s, f, p),
         NEW g \in Files, NEW q \in Nat, Source(e, j, m, s, g, q)
  PROVE  f = g /\ p = q
<1>1. ~Before(f, p, g, q) /\ ~Before(g, q, f, p)
  BY DEF Source
<1> QED BY <1>1, Order

\* The positions are numbers.
LEMMA RecPlace ==
  ASSUME FilesInv, NEW j, NEW f \in Files, NEW p, RecOf(dir, j, f, p)
  PROVE  f \in DOMAIN dir /\ p \in Nat /\ p >= 1 /\ p <= Len(dir[f].recs) /\ Len(dir[f].recs) \in Nat
<1>1. f \in DOMAIN dir /\ p \in DOMAIN dir[f].recs
  BY DEF RecOf
<1>2. dir[f].recs \in Seq(Recs)
  BY <1>1 DEF FilesInv, Disk, DirRec
<1> QED BY <1>1, <1>2

\* Start: nothing is read.
LEMMA StartDur ==
  ASSUME FilesInv, FilesInv', DurInv, Start
  PROVE  DurInv'
<1>1. pc = "down" /\ pc' = "read" /\ w' = EmptyWal(Max(DOMAIN dir \cup {0}) + 1)
      /\ UNCHANGED <<dir, jobs, run, rd, acked, gone>>
  BY DEF Start
<1>2. run = NoRun /\ rd = NoRead /\ jobs = <<>>
  BY <1>1 DEF FilesInv, DownInv
<1>3. w'.reading = 0 /\ rd'.last = 0 /\ rd'.pos = 0 /\ run'.moving = 0 /\ run.moving = 0 /\ DOMAIN jobs' = {}
  BY <1>1, <1>2, NoRunFields, NoJobs DEF NoRead, EmptyWal
<1>4. ~Running' /\ pc' # "compact" /\ pc # "compact"
  BY <1>1 DEF Running
<1>5. \A j : Trim(dir, dir', j)
  BY <1>1, SameQuiet, QuietTrim
<1>6. \A j \in Ids : (Relied(j))' <=> Relied(j)
  BY <1>1 DEF Relied
<1>7. ASSUME NEW j \in Ids, (Sure(j))' PROVE (Lasts(j))'
  <2>1. Sure(j) /\ ((SureBuried(j))' => SureBuried(j))
    BY <1>1, <1>3, <1>4, <1>6, <1>7, RestSure, RestSureNext
  <2>2. Lasts(j) /\ Trim(dir, dir', j)
    BY <1>5, <2>1 DEF DurInv, KeptInv
  <2>3. \A f \in Files : f \in DOMAIN dir /\ dir[f].ver = WalVer /\ Stays(j, f) =>
          f \in DOMAIN dir' /\ (Stays(j, f))'
    <3>1. \A f \in Files : f > 0
      BY Numbers
    <3> QED BY <1>1, <1>3, <1>4, <3>1 DEF Stays
  <2> QED BY <2>1, <2>2, <2>3, KeptOne
<1>8. ASSUME NEW j \in Ids, (SureGone(j))' PROVE (Absent(j))'
  <2>1. SureGone(j)
    BY <1>1, <1>3, <1>4, <1>8, RestSure, RestSureNext
  <2>2. Absent(j) /\ Trim(dir, dir', j)
    BY <1>5, <2>1 DEF DurInv, GoneInv
  <2> QED BY <2>2, GoneOne
<1>9. KeptInv' /\ GoneInv'
  BY <1>7, <1>8 DEF KeptInv, GoneInv
<1>10. KnownInv' /\ CommandInv' /\ CurrentInv' /\ HalfInv' /\ InvalidInv'
  BY <1>1, <1>3, <1>4 DEF KnownInv, CommandInv, CurrentInv, HalfInv, InvalidInv
<1>11. FoundInv'
  <2>1. (NextFileOf)' = 1 /\ (NextRecOf)' = 1
    BY <1>3 DEF NextFileOf, NextRecOf
  <2>2. ASSUME NEW j \in Ids, NEW f \in Files, NEW p \in Nat, Source(dir, j, 1, 1, f, p) PROVE FALSE
    <3>1. RecOf(dir, j, f, p) /\ Before(f, p, 1, 1)
      BY <2>2 DEF Source, Seen
    <3>2. p >= 1
      BY <3>1, RecPlace
    <3>3. f >= 1 /\ f \in Nat
      BY Numbers DEF Files
    <3> QED BY <3>1, <3>2, <3>3 DEF Before
  <2> QED BY <1>1, <1>3, <2>1, <2>2 DEF FoundInv
<1> QED BY <1>9, <1>10, <1>11 DEF DurInv

\* The same directory, read up to another place with no record of the job between.
LEMMA SamePlace ==
  ASSUME NEW d, NEW j, NEW l, NEW q, NEW m, NEW s,
         \A g \in Files, p \in Nat : RecOf(d, j, g, p) => (Before(g, p, l, q) <=> Before(g, p, m, s))
  PROVE  \A f \in Files : SameRecords(d, l, q, d, m, s, j, f)
BY DEF SameRecords, Seen

\* The cursor of recovery.
LEMMA CursorIs ==
  ASSUME FilesInv, pc = "read"
  PROVE  /\ rd.last \in Nat /\ rd.pos \in Nat /\ rd.last \in 0..MaxFiles
         /\ w.reading # 0 => w.reading = rd.last /\ NextFileOf = rd.last /\ NextRecOf = rd.pos
         /\ w.reading = 0 => NextFileOf = rd.last + 1 /\ NextRecOf = 1
<1>1. rd \in CursorRec
  BY Parts
<1> QED BY <1>1, CursorFields, Reading DEF NextFileOf, NextRecOf

\* OpenFile: a file that is open is read from its first record on, another is passed over.
LEMMA OpenFileDur ==
  ASSUME FilesInv, FilesInv', DurInv, OpenFile
  PROVE  DurInv'
<1>1. PICK f : OpenFacts(f)
  BY OpenFileKeeps
<1>2. /\ pc = "read" /\ pc' = "read" /\ w.reading = 0 /\ f \in DOMAIN dir /\ f > rd.last
      /\ \A g \in DOMAIN dir : g > rd.last => f <= g
      /\ w'.reading = (IF dir[f].ver \in {WalVer, WalVer5} THEN f ELSE 0)
      /\ w'.list = w.list /\ rd'.last = f /\ rd'.pos = 1
      /\ UNCHANGED <<dir, jobs, run, acked, gone>>
  BY <1>1 DEF OpenFacts
<1>3. rd.last \in Nat /\ NextFileOf = rd.last + 1 /\ NextRecOf = 1
  BY <1>2, CursorIs
<1>4. f \in Files /\ f \in Nat /\ f # 0
  BY <1>2, Numbers DEF FilesInv, Disk, Files
<1>5. \A j : Trim(dir, dir', j)
  BY <1>2, SameQuiet, QuietTrim
<1>6. ASSUME NEW j \in Ids, NEW g \in Files, NEW st \in States, InDir(dir, j, g, TRUE, st), Stays(j, g)
      PROVE  g \in DOMAIN dir' /\ (Stays(j, g))'
  <2>1. g \in DOMAIN dir /\ dir[g].ver = WalVer
    BY <1>6, InDirFile
  <2>2. g > rd.last \/ Holds(w, g, j)
    BY <1>2, <1>6, Numbers DEF Stays, Files
  <2>3. CASE Holds(w, g, j)
    BY <1>2, <2>1, <2>3 DEF Stays, Holds, Running
  <2>4. CASE g > rd.last
    <3>1. f <= g /\ g \in Nat
      BY <1>2, <2>1, <2>4, Numbers
    <3>2. g > f \/ g = f
      BY <1>4, <3>1
    <3>3. g = f => g = w'.reading
      BY <1>2, <2>1
    <3> QED BY <1>2, <2>1, <3>2, <3>3 DEF Stays, Running
  <2> QED BY <2>2, <2>3, <2>4
<1> DEFINE m == IF w'.reading = 0 THEN f + 1 ELSE f
<1>7. (NextFileOf)' = m /\ (NextRecOf)' = 1
  BY <1>2 DEF NextFileOf, NextRecOf
<1>8. ASSUME NEW j \in Ids, NEW g \in Files, NEW p \in Nat, RecOf(dir, j, g, p)
      PROVE  Before(g, p, rd.last + 1, 1) <=> Before(g, p, m, 1)
  <2>1. g \in DOMAIN dir /\ p >= 1 /\ dir[g].ver = WalVer /\ g \in Nat
    BY <1>8, RecPlace, Numbers DEF RecOf
  <2>2. /\ Before(g, p, rd.last + 1, 1) <=> g < rd.last + 1
        /\ Before(g, p, m, 1) <=> g < m
    BY <2>1 DEF Before
  <2>3. g > rd.last => f <= g
    BY <1>2, <2>1
  <2>4. g = f => w'.reading # 0
    BY <1>2, <1>4, <2>1
  <2>5. g < rd.last + 1 <=> g < m
    BY <1>2, <1>3, <1>4, <2>1, <2>3, <2>4
  <2> QED BY <2>2, <2>5
<1> HIDE DEF m
<1>9. \A j \in Ids : \A g \in Files : SameRecords(dir, rd.last + 1, 1, dir, m, 1, j, g)
  <2> DEFINE l == rd.last + 1
  <2>1. \A j \in Ids, g \in Files, p \in Nat : RecOf(dir, j, g, p) => (Before(g, p, l, 1) <=> Before(g, p, m, 1))
    BY <1>8
  <2> HIDE DEF l
  <2>2. \A j \in Ids : \A g \in Files : SameRecords(dir, l, 1, dir, m, 1, j, g)
    BY <2>1, SamePlace
  <2> QED BY <2>2 DEF l
<1>10. FoundInv'
  <2>1. \A j \in Ids, g \in Files : g \in DOMAIN dir' =>
          SameRecords(dir, NextFileOf, NextRecOf, dir', m, 1, j, g)
    BY <1>2, <1>3, <1>9
  <2>2. \A j \in Ids, g \in Files : Holds(w, g, j) => Holds(w', g, j)
    BY <1>2 DEF Holds
  <2> QED BY <1>2, <1>7, <2>1, <2>2, SameJobs
<1> QED BY <1>2, <1>5, <1>6, <1>10, ReadDur

\* What a step of recovery does to the directory.
ReadDir ==
  /\ rd'.last = rd.last
  /\ \A f \in DOMAIN dir' : f \in DOMAIN dir /\ dir'[f] = dir[f]
  /\ \A f \in Files : f \in DOMAIN dir' <=> f \in DOMAIN dir /\ (Listed(w, f) => Listed(w', f))
  /\ \A f \in Files : Listed(w, f) /\ ~Listed(w', f) => w'.list[f] = <<>>
  /\ \A f, g \in Files : Listed(w, f) /\ ~Listed(w', f) /\ Listed(w', g) => f < g

\* Files go from the first on, and those that are not read yet stay.
LEMMA ReadTrim ==
  ASSUME FilesInv, FilesInv', pc = "read", pc' = "read", ReadDir
  PROVE  /\ \A j : Trim(dir, dir', j)
         /\ \A f \in Files : f \in DOMAIN dir /\ f > rd.last => f \in DOMAIN dir'
         /\ \A f \in Files : f \in DOMAIN dir /\ (\E j : Holds(w', f, j)) => f \in DOMAIN dir'
<1>1. \A f \in Files : Listed(w, f) => f <= rd.last
  BY Reading
<1>2. rd.last \in Nat /\ \A f \in Files : f \in Nat
  BY CursorIs, Numbers
<1>3. \A f \in Files : f \in DOMAIN dir' /\ f <= rd'.last => Listed(w', f)
  BY DEF FilesInv, ReadInv
<1>4. ASSUME NEW f \in Files, f \in DOMAIN dir, f \notin DOMAIN dir'
      PROVE  Listed(w, f) /\ ~Listed(w', f) /\ f <= rd.last
  BY <1>1, <1>4 DEF ReadDir
<1>5. ASSUME NEW f \in Files, f \in DOMAIN dir, f \notin DOMAIN dir', NEW g \in Files, g \in DOMAIN dir'
      PROVE  f < g
  <2>1. Listed(w, f) /\ ~Listed(w', f) /\ f <= rd.last
    BY <1>4, <1>5
  <2>2. CASE Listed(w', g)
    BY <2>1, <2>2 DEF ReadDir
  <2>3. CASE ~Listed(w', g)
    <3>1. ~(g <= rd.last)
      BY <1>3, <1>5, <2>3 DEF ReadDir
    <3> QED BY <1>2, <2>1, <3>1
  <2> QED BY <2>2, <2>3
<1>6. \A j : Trim(dir, dir', j)
  <2> DEFINE e == dir'
  <2>1. /\ \A f \in DOMAIN e : f \in DOMAIN dir /\ e[f] = dir[f]
        /\ \A f, g \in Files : f \in DOMAIN dir /\ f \notin DOMAIN e /\ g \in DOMAIN e => f < g
    BY <1>5 DEF ReadDir
  <2> HIDE DEF e
  <2>2. \A j : Trim(dir, e, j)
    BY <2>1, TrimIs
  <2> QED BY <2>2 DEF e
<1>7. \A f \in Files : f \in DOMAIN dir /\ f > rd.last => f \in DOMAIN dir'
  BY <1>2, <1>4
<1>8. ASSUME NEW f \in Files, f \in DOMAIN dir, NEW j, Holds(w', f, j) PROVE f \in DOMAIN dir'
  <2>1. w'.list[f] # <<>>
    BY <1>8 DEF Holds
  <2> QED BY <1>4, <1>8, <2>1 DEF ReadDir
<1> QED BY <1>6, <1>7, <1>8

\* A job that recovery has found is in the file that it is taken from.
LEMMA SourceHeld ==
  ASSUME FilesInv, DurInv, pc = "read", NEW j \in Ids, NEW f \in Files, NEW p \in Nat,
         Source(dir, j, NextFileOf, NextRecOf, f, p)
  PROVE  Holds(w, f, j) /\ j \in DOMAIN jobs
<1>1. j \in DOMAIN jobs
  BY DEF DurInv, FoundInv
<1>2. PICK g \in Files, st \in States :
        Found(dir, j, NextFileOf, NextRecOf, g, jobs[j].good, st) /\ Holds(w, g, j)
  BY <1>1 DEF DurInv, FoundInv
<1>3. PICK q \in Nat : Source(dir, j, NextFileOf, NextRecOf, g, q)
  BY <1>2 DEF Found
<1>4. f = g
  BY <1>3, OneSource
<1> QED BY <1>1, <1>2, <1>4

\* ReadRec5: no record of the file counts.
LEMMA ReadRec5Dur ==
  ASSUME FilesInv, FilesInv', DurInv, ReadRec5
  PROVE  DurInv'
<1> DEFINE n == Len(dir[w.reading].recs) + 1
<1>1. /\ pc = "read" /\ w.reading # 0 /\ dir[w.reading].ver = WalVer5 /\ SkipTo(n)
      /\ UNCHANGED <<acked, gone>>
  BY DEF ReadRec5
<1>2. rd' = [rd EXCEPT !.pos = n] /\ UNCHANGED <<w, dir, jobs, pc, run>>
  BY <1>1 DEF SkipTo
<1> HIDE DEF n
<1>3. rd'.last = rd.last /\ rd'.pos = n
  BY <1>2, Parts DEF CursorRec
<1>4. w.reading = rd.last /\ NextFileOf = rd.last /\ NextRecOf = rd.pos
  BY <1>1, CursorIs
<1>5. (NextFileOf)' = rd.last /\ (NextRecOf)' = n
  BY <1>1, <1>2, <1>3 DEF NextFileOf, NextRecOf
<1>6. \A j : Trim(dir, dir', j)
  BY <1>2, SameQuiet, QuietTrim
<1>7. \A j \in Ids : \A g \in Files : SameRecords(dir, rd.last, rd.pos, dir, rd.last, n, j, g)
  <2> DEFINE l == rd.last
             q == rd.pos
  <2>1. ASSUME NEW j \in Ids, NEW g \in Files, NEW p \in Nat, RecOf(dir, j, g, p) PROVE g # l
    <3>1. WalVer # WalVer5
      BY DEF WalVer, WalVer5
    <3> QED BY <1>1, <1>4, <2>1, <3>1 DEF RecOf
  <2> HIDE DEF l, q
  <2>2. \A j \in Ids, g \in Files, p \in Nat : RecOf(dir, j, g, p) =>
          (Before(g, p, l, q) <=> Before(g, p, l, n))
    BY <2>1 DEF Before
  <2>3. \A j \in Ids : \A g \in Files : SameRecords(dir, l, q, dir, l, n, j, g)
    BY <2>2, SamePlace
  <2> QED BY <2>3 DEF l, q
<1>8. FoundInv'
  BY <1>1, <1>2, <1>4, <1>5, <1>7, SameJobs
<1>9. ASSUME NEW j \in Ids, NEW g \in Files, NEW st \in States, InDir(dir, j, g, TRUE, st), Stays(j, g)
      PROVE  g \in DOMAIN dir' /\ (Stays(j, g))'
  BY <1>1, <1>2, <1>3, <1>9, InDirFile DEF Stays, Running
<1> QED BY <1>1, <1>2, <1>6, <1>8, <1>9, ReadDur

\* The end of FileRead: what it has found holds its file.
LEMMA FileReadDoneDur ==
  ASSUME FilesInv, FilesInv', DurInv, FileReadDone
  PROVE  DurInv'
<1>1. /\ pc = "read" /\ w.reading # 0 /\ rd.pos > Len(dir[w.reading].recs)
      /\ w'.list = w.list /\ w'.reading = 0 /\ UNCHANGED <<jobs, pc, run, rd, acked, gone>>
  BY FileReadDoneKeeps DEF DoneFacts
<1>2. ReadDir
  BY <1>1, FileReadDoneKeeps DEF DoneFacts, ReadDir
<1>3. /\ \A j : Trim(dir, dir', j)
      /\ \A f \in Files : f \in DOMAIN dir /\ f > rd.last => f \in DOMAIN dir'
      /\ \A f \in Files : f \in DOMAIN dir /\ (\E j : Holds(w', f, j)) => f \in DOMAIN dir'
  BY <1>1, <1>2, ReadTrim
<1>4. w.reading = rd.last /\ NextFileOf = rd.last /\ NextRecOf = rd.pos /\ rd.last \in Nat /\ rd.pos \in Nat
  BY <1>1, CursorIs
<1>5. (NextFileOf)' = rd.last + 1 /\ (NextRecOf)' = 1
  BY <1>1 DEF NextFileOf, NextRecOf
<1> DEFINE l == rd.last
           q == rd.pos
           m == rd.last + 1
<1>6. ASSUME NEW j \in Ids, NEW g \in Files, NEW p \in Nat, RecOf(dir, j, g, p)
      PROVE  /\ Before(g, p, l, q) <=> Before(g, p, m, 1)
             /\ l >= g <=> Before(g, p, l, q)
  <2>1. p >= 1 /\ p <= Len(dir[g].recs) /\ g \in Nat /\ Len(dir[g].recs) \in Nat
    BY <1>6, RecPlace, Numbers
  <2>2. g = l => p < q
    BY <1>1, <1>4, <2>1
  <2>3. Before(g, p, m, 1) <=> g < m
    BY <2>1 DEF Before
  <2>4. Before(g, p, l, q) <=> (g < l \/ g = l)
    BY <2>2 DEF Before
  <2> QED BY <1>4, <2>1, <2>3, <2>4
<1>7. \A j \in Ids : \A g \in Files : SameRecords(dir, l, q, dir, m, 1, j, g)
  <2> HIDE DEF l, q, m
  <2> QED BY <1>6, SamePlace
<1>8. \A j \in Ids, f \in Files : f \in DOMAIN dir' =>
        SameRecords(dir, l, q, dir', m, 1, j, f)
  <2> SUFFICES ASSUME NEW j \in Ids, NEW f \in Files, f \in DOMAIN dir'
               PROVE  SameRecords(dir, l, q, dir', m, 1, j, f)
    OBVIOUS
  <2>1. Trim(dir, dir', j)
    BY <1>3
  <2> HIDE DEF l, q, m
  <2>2. SameRecords(dir, m, 1, dir', m, 1, j, f)
    BY <2>1, TrimSame
  <2>3. SameRecords(dir, l, q, dir, m, 1, j, f)
    BY <1>7
  <2> QED BY <2>2, <2>3 DEF SameRecords
<1>9. FoundInv'
  <2>1. \A j \in Ids, f \in Files : Holds(w, f, j) => Holds(w', f, j)
    BY <1>1 DEF Holds
  <2>2. (NextFileOf)' = m /\ (NextRecOf)' = 1 /\ NextFileOf = l /\ NextRecOf = q /\ pc' = "read" /\ jobs' = jobs
    BY <1>1, <1>4, <1>5
  <2> HIDE DEF l, q, m
  <2> QED BY <1>1, <1>8, <2>1, <2>2, SameJobs
<1>10. ASSUME NEW j \in Ids, NEW f \in Files, NEW st \in States, InDir(dir, j, f, TRUE, st), Stays(j, f)
       PROVE  f \in DOMAIN dir' /\ (Stays(j, f))'
  <2>1. f \in DOMAIN dir
    BY <1>10, InDirFile
  <2>2. f > rd.last \/ f = rd.last \/ Holds(w, f, j)
    BY <1>1, <1>4, <1>10 DEF Stays
  <2>3. CASE f > rd.last
    BY <1>1, <1>3, <2>1, <2>3 DEF Stays, Running
  <2>4. f = rd.last => Holds(w, f, j)
    <3> SUFFICES ASSUME f = rd.last PROVE Holds(w, f, j)
      OBVIOUS
    <3>1. PICK p \in Nat : Source(dir, j, MaxFiles + 1, 1, f, p)
      BY <1>10 DEF InDir, Found
    <3>2. RecOf(dir, j, f, p) /\ IsFull(dir[f].recs[p]) /\ Valid(dir[f].recs[p])
      BY <3>1 DEF Source, Seen
    <3>3. l >= f
      BY <1>4
    <3>4. Before(f, p, l, q)
      BY <1>6, <3>2, <3>3
    <3>5. Source(dir, j, l, q, f, p)
      <4>1. \A g \in Files, s \in Nat : Seen(dir, j, l, q, g, s) => Seen(dir, j, MaxFiles + 1, 1, g, s)
        BY SeenAll DEF Seen
      <4> HIDE DEF l, q
      <4> QED BY <3>1, <3>2, <3>4, <4>1 DEF Source, Seen
    <3> QED BY <1>1, <1>4, <3>5, SourceHeld
  <2>5. CASE Holds(w, f, j)
    <3>1. Holds(w', f, j)
      BY <1>1, <2>5 DEF Holds
    <3> QED BY <1>1, <1>3, <2>1, <3>1 DEF Stays, Running
  <2> QED BY <2>2, <2>3, <2>4, <2>5
<1> QED BY <1>1, <1>3, <1>9, <1>10, ReadDur

\* The record that is read is one more of its job, and none of the others.
LEMMA ReadOne ==
  ASSUME NEW d, NEW e, NEW c \in Files, NEW n \in Nat, NEW r, e[c].recs[n] = r, RecOf(e, r.id, c, n),
         NEW j, Trim(d, e, j), NEW f \in Files, f \in DOMAIN e,
         \A g, p : g \in Files /\ RecOf(e, j, g, p) => p \in Nat
  PROVE  /\ j = r.id => OneMore(d, c, n, e, c, n + 1, j, c, n, f)
         /\ j # r.id => SameRecords(d, c, n, e, c, n + 1, j, f)
<1>1. ASSUME NEW g \in Files, NEW p \in Nat
      PROVE  Before(g, p, c, n + 1) <=> (Before(g, p, c, n) \/ (g = c /\ p = n))
  <2>1. p < n + 1 <=> (p < n \/ p = n)
    OBVIOUS
  <2> QED BY <2>1 DEF Before
<1>2. SameRecords(d, c, n, e, c, n, j, f)
  BY TrimSame
<1>3. \A g \in Files, p \in Nat : g >= f =>
        /\ Seen(d, j, c, n, g, p) <=> Seen(e, j, c, n, g, p)
        /\ Seen(d, j, c, n, g, p) => d[g].recs[p] = e[g].recs[p]
  BY <1>2 DEF SameRecords
<1>4. \A g \in Files, p \in Nat :
        Seen(e, j, c, n + 1, g, p) <=> (Seen(e, j, c, n, g, p) \/ (RecOf(e, j, g, p) /\ g = c /\ p = n))
  BY <1>1 DEF Seen
<1>5. CASE j = r.id
  <2>1. Seen(e, j, c, n + 1, c, n)
    BY <1>4, <1>5
  <2>2. \A g \in Files, p \in Nat : Seen(d, j, c, n, g, p) => Before(g, p, c, n)
    BY DEF Seen
  <2>3. ASSUME NEW g \in Files, NEW p \in Nat, g >= f
        PROVE  /\ Seen(e, j, c, n + 1, g, p) <=> (Seen(d, j, c, n, g, p) \/ (g = c /\ p = n))
               /\ Seen(d, j, c, n, g, p) => d[g].recs[p] = e[g].recs[p]
    BY <1>3, <1>4, <1>5, <2>3
  <2> DEFINE s == n + 1
  <2> HIDE DEF s
  <2>4. OneMore(d, c, n, e, c, s, j, c, n, f)
    BY <2>1, <2>2, <2>3 DEF OneMore, s
  <2> QED BY <1>5, <2>4 DEF s
<1>6. CASE j # r.id
  <2>1. ASSUME NEW g \in Files, NEW p \in Nat
        PROVE  Seen(e, j, c, n + 1, g, p) <=> Seen(e, j, c, n, g, p)
    <3>1. ~(RecOf(e, j, g, p) /\ g = c /\ p = n)
      BY <1>6 DEF RecOf
    <3> QED BY <1>4, <3>1
  <2> QED BY <1>3, <1>6, <2>1 DEF SameRecords
<1> QED BY <1>5, <1>6

\* A job that is found in the whole directory is not taken from before a full record or the one
\* of its delete.
LEMMA NoneAfter ==
  ASSUME NEW d, NEW j, NEW f \in Files, NEW b, NEW st, InDir(d, j, f, b, st),
         NEW c \in Files, NEW n \in Nat, RecOf(d, j, c, n),
         IsFull(d[c].recs[n]) \/ ~Valid(d[c].recs[n])
  PROVE  f >= c
<1>1. PICK p \in Nat : Source(d, j, MaxFiles + 1, 1, f, p)
  BY DEF InDir, Found
<1>2. Seen(d, j, MaxFiles + 1, 1, c, n)
  BY SeenAll
<1>3. ~Before(f, p, c, n)
  BY <1>1, <1>2 DEF Source
<1> QED BY <1>3, Numbers DEF Before

\* What recovery reads next: record n of file c, r, of a job.
NextIsRec(c, n, r) ==
  /\ pc = "read" /\ c \in Files /\ n \in Nat /\ w.reading = c /\ rd.last = c /\ rd.pos = n
  /\ NextFileOf = c /\ NextRecOf = n
  /\ c \in DOMAIN dir /\ dir[c].ver = WalVer /\ n \in DOMAIN dir[c].recs
  /\ r = dir[c].recs[n] /\ r \in Recs

\* And what it does with it: the other jobs stay as they are, and its own is as was read up to
\* and with the record.
ReadStep(c, n, r) ==
  /\ pc' = "read" /\ run' = run /\ acked' = acked /\ gone' = gone
  /\ ReadDir /\ w'.reading = c /\ rd'.pos = n + 1
  /\ \A k \in DOMAIN jobs : k # r.id => k \in DOMAIN jobs' /\ jobs'[k] = jobs[k]
  /\ \A k \in DOMAIN jobs' : k # r.id => k \in DOMAIN jobs
  /\ \A k \in Ids, f \in Files : Holds(w, f, k) =>
       Holds(w', f, k) \/ (k = r.id /\ (IsFull(r) \/ ~Valid(r)))

\* What recovery knows of the job of the record.
OwnFound(c, n, j) ==
  /\ \A f \in Files, p \in Nat : Source(dir', j, c, n, f, p) => j \in DOMAIN jobs'
  /\ j \in DOMAIN jobs' =>
       /\ jobs'[j].where = {} /\ jobs'[j].st # "invalid"
       /\ \E f \in Files, st \in States :
            /\ Found(dir', j, c, n, f, jobs'[j].good, st)
            /\ Holds(w', f, j) /\ jobs'[j].st = RecoveredState(st)

\* The file that is read stays, and so does the record.
LEMMA StepFacts ==
  ASSUME FilesInv, FilesInv', NEW c, NEW n, NEW r, NextIsRec(c, n, r), ReadStep(c, n, r)
  PROVE  /\ c \in DOMAIN dir' /\ dir'[c] = dir[c]
         /\ RecOf(dir, r.id, c, n) /\ RecOf(dir', r.id, c, n) /\ dir'[c].recs[n] = r
         /\ (NextFileOf)' = c /\ (NextRecOf)' = n + 1
         /\ \A j : Trim(dir, dir', j)
         /\ \A j, g : \A p : g \in Files /\ RecOf(dir', j, g, p) => p \in Nat
<1>1. c \in Files /\ c # 0
  BY Numbers DEF NextIsRec, Files
<1>2. c \in DOMAIN dir' /\ dir'[c] = dir[c]
  BY <1>1 DEF ReadStep, ReadDir, FilesInv, ReadInv
<1>3. RecOf(dir, r.id, c, n) /\ RecOf(dir', r.id, c, n) /\ dir'[c].recs[n] = r
  BY <1>2 DEF RecOf, NextIsRec
<1>4. (NextFileOf)' = c /\ (NextRecOf)' = n + 1
  BY <1>1 DEF NextFileOf, NextRecOf, ReadStep, ReadDir, NextIsRec
<1>5. \A j : Trim(dir, dir', j)
  BY ReadTrim DEF NextIsRec, ReadStep
<1>6. ASSUME NEW j, NEW g \in Files, NEW p, RecOf(dir', j, g, p) PROVE p \in Nat
  <2>1. g \in DOMAIN dir' /\ p \in DOMAIN dir'[g].recs
    BY <1>6 DEF RecOf
  <2>2. g \in DOMAIN dir /\ dir'[g] = dir[g]
    BY <2>1 DEF ReadStep, ReadDir
  <2>3. dir[g].recs \in Seq(Recs)
    BY <2>2 DEF FilesInv, Disk, DirRec
  <2> QED BY <2>1, <2>2, <2>3
<1> QED BY <1>2, <1>3, <1>4, <1>5, <1>6

\* A step that does right by the job of the record does right by all.
LEMMA ReadStepDur ==
  ASSUME FilesInv, FilesInv', DurInv, NEW c, NEW n, NEW r, NextIsRec(c, n, r), ReadStep(c, n, r),
         OwnFound(c, n + 1, r.id)
  PROVE  DurInv'
<1>1. /\ pc = "read" /\ c \in Files /\ n \in Nat /\ w.reading = c /\ rd.last = c
      /\ NextFileOf = c /\ NextRecOf = n /\ r = dir[c].recs[n]
  BY DEF NextIsRec
<1>2. /\ pc' = "read" /\ run' = run /\ acked' = acked /\ gone' = gone
      /\ ReadDir /\ w'.reading = c /\ rd'.last = rd.last
      /\ \A k \in DOMAIN jobs : k # r.id => k \in DOMAIN jobs' /\ jobs'[k] = jobs[k]
      /\ \A k \in DOMAIN jobs' : k # r.id => k \in DOMAIN jobs
      /\ \A k \in Ids, f \in Files : Holds(w, f, k) =>
           Holds(w', f, k) \/ (k = r.id /\ (IsFull(r) \/ ~Valid(r)))
  BY DEF ReadStep, ReadDir
<1>3. /\ c \in DOMAIN dir' /\ RecOf(dir, r.id, c, n) /\ RecOf(dir', r.id, c, n) /\ dir'[c].recs[n] = r
      /\ (NextFileOf)' = c /\ (NextRecOf)' = n + 1
      /\ \A j : Trim(dir, dir', j)
      /\ \A j, g : \A p : g \in Files /\ RecOf(dir', j, g, p) => p \in Nat
  BY StepFacts
<1>4. /\ \A f \in Files : f \in DOMAIN dir /\ f > rd.last => f \in DOMAIN dir'
      /\ \A f \in Files : f \in DOMAIN dir /\ (\E j : Holds(w', f, j)) => f \in DOMAIN dir'
  BY <1>1, <1>2, ReadTrim
<1>5. ASSUME NEW j \in Ids, NEW f \in Files, NEW st \in States, InDir(dir, j, f, TRUE, st), Stays(j, f)
      PROVE  f \in DOMAIN dir' /\ (Stays(j, f))'
  <2>1. f \in DOMAIN dir
    BY <1>5, InDirFile
  <2>2. f > c \/ f = c \/ Holds(w, f, j)
    BY <1>1, <1>5 DEF Stays
  <2>3. CASE f > c
    BY <1>1, <1>2, <1>4, <2>1, <2>3 DEF Stays, Running
  <2>4. CASE f = c
    BY <1>2, <1>3, <2>4 DEF Stays, Running
  <2>5. CASE Holds(w', f, j)
    BY <1>2, <1>4, <2>1, <2>5 DEF Stays, Running
  <2>6. CASE j = r.id /\ (IsFull(r) \/ ~Valid(r))
    <3>1. f >= c
      BY <1>1, <1>3, <1>5, <2>6, NoneAfter
    <3>2. f > c \/ f = c
      BY <1>1, <3>1, Numbers
    <3> QED BY <2>3, <2>4, <3>2
  <2> QED BY <1>2, <2>2, <2>3, <2>4, <2>5, <2>6
<1>6. FoundInv'
  <2> DEFINE d == dir
             e == dir'
             m == n + 1
  <2>1. /\ \A j \in Ids, f \in Files, p \in Nat : Source(d, j, c, n, f, p) => j \in DOMAIN jobs
        /\ \A j \in DOMAIN jobs :
             /\ jobs[j].where = {} /\ jobs[j].st # "invalid"
             /\ \E f \in Files, st \in States :
                  /\ Found(d, j, c, n, f, jobs[j].good, st)
                  /\ Holds(w, f, j) /\ jobs[j].st = RecoveredState(st)
    BY <1>1 DEF DurInv, FoundInv
  <2>2. DOMAIN jobs \subseteq Ids
    BY DEF FilesInv, JobTypes
  <2>3. ASSUME NEW j \in Ids, j # r.id, NEW f \in Files, f \in DOMAIN e
        PROVE  SameRecords(d, c, n, e, c, m, j, f)
    <3>1. Trim(d, e, j) /\ \A g, p : g \in Files /\ RecOf(e, j, g, p) => p \in Nat
      BY <1>3
    <3>2. RecOf(e, r.id, c, n) /\ e[c].recs[n] = r
      BY <1>3
    <3> HIDE DEF d, e
    <3> QED BY <1>1, <2>3, <3>1, <3>2, ReadOne
  <2>4. \A j \in Ids, f \in Files : Holds(w', f, j) => f \in DOMAIN e
    BY <1>2, ReadHoldsNext
  <2>5. \A f, j, p : Source(e, j, c, m, f, p) => f \in DOMAIN e
    BY DEF Source, Seen, RecOf
  <2>6. OwnFound(c, m, r.id) /\ (NextFileOf)' = c /\ (NextRecOf)' = m
    BY <1>3
  <2>7. /\ \A f \in Files, p \in Nat : Source(e, r.id, c, m, f, p) => r.id \in DOMAIN jobs'
        /\ r.id \in DOMAIN jobs' =>
             /\ jobs'[r.id].where = {} /\ jobs'[r.id].st # "invalid"
             /\ \E f \in Files, st \in States :
                  /\ Found(e, r.id, c, m, f, jobs'[r.id].good, st)
                  /\ Holds(w', f, r.id) /\ jobs'[r.id].st = RecoveredState(st)
    BY <2>6 DEF OwnFound
  <2> HIDE DEF d, e, m
  <2>8. ASSUME NEW j \in Ids, NEW f \in Files, NEW p \in Nat, Source(e, j, c, m, f, p)
        PROVE  j \in DOMAIN jobs'
    <3>1. CASE j = r.id
      BY <2>7, <2>8, <3>1
    <3>2. CASE j # r.id
      <4>1. SameRecords(e, c, m, d, c, n, j, f)
        BY <2>3, <2>5, <2>8, <3>2, AlikeBack
      <4>2. Source(d, j, c, n, f, p)
        BY <2>8, <4>1, SameSource
      <4> QED BY <1>2, <2>1, <3>2, <4>2
    <3> QED BY <3>1, <3>2
  <2>9. ASSUME NEW j \in DOMAIN jobs'
        PROVE  /\ jobs'[j].where = {} /\ jobs'[j].st # "invalid"
               /\ \E f \in Files, st \in States :
                    /\ Found(e, j, c, m, f, jobs'[j].good, st)
                    /\ Holds(w', f, j) /\ jobs'[j].st = RecoveredState(st)
    <3>1. CASE j = r.id
      BY <2>7, <3>1
    <3>2. CASE j # r.id
      <4>1. j \in DOMAIN jobs /\ jobs'[j] = jobs[j] /\ j \in Ids
        BY <1>2, <2>2, <3>2
      <4>2. PICK f \in Files, st \in States :
              /\ Found(d, j, c, n, f, jobs[j].good, st)
              /\ Holds(w, f, j) /\ jobs[j].st = RecoveredState(st)
        BY <2>1, <4>1
      <4>3. Holds(w', f, j)
        BY <1>2, <3>2, <4>1, <4>2
      <4>4. SameRecords(d, c, n, e, c, m, j, f)
        BY <2>3, <2>4, <3>2, <4>1, <4>3
      <4>5. Found(e, j, c, m, f, jobs'[j].good, st)
        BY <4>1, <4>2, <4>4, SameFound
      <4> QED BY <2>1, <4>1, <4>2, <4>3, <4>5
    <3> QED BY <3>1, <3>2
  <2> QED BY <2>6, <2>8, <2>9 DEF FoundInv, e
<1> QED BY <1>1, <1>2, <1>3, <1>5, <1>6, ReadDur

\* A record that was just read is the last of its job.
LEMMA LastRead ==
  ASSUME NEW e, NEW j, NEW c \in Files, NEW n \in Nat, RecOf(e, j, c, n)
  PROVE  /\ Seen(e, j, c, n + 1, c, n)
         /\ \A g \in Files, p \in Nat : Seen(e, j, c, n + 1, g, p) => Before(g, p, c, n) \/ (g = c /\ p = n)
<1>1. ASSUME NEW g \in Files, NEW p \in Nat
      PROVE  Before(g, p, c, n + 1) <=> (Before(g, p, c, n) \/ (g = c /\ p = n))
  <2>1. p < n + 1 <=> (p < n \/ p = n)
    OBVIOUS
  <2> QED BY <2>1 DEF Before
<1> QED BY <1>1 DEF Seen

\* ReadRec, in its cases.
LEMMA ReadRecIs ==
  ASSUME FilesInv, ReadRec
  PROVE  \E c, n, r :
           /\ NextIsRec(c, n, r) /\ UNCHANGED <<answer, acked, gone, faults, cmds>>
           /\ \/ r.id \notin DOMAIN jobs /\ (~IsFull(r) \/ ~Valid(r)) /\ SkipTo(n + 1)
              \/ r.id \in DOMAIN jobs /\ ~Valid(r) /\ Discard(r.id)
              \/ r.id \notin DOMAIN jobs /\ r.kind \in TooBig
              \/ Died /\ dir' = dir
              \/ (r.id \in DOMAIN jobs \/ IsFull(r)) /\ Valid(r) /\ Recover(r)
<1> DEFINE r == dir[w.reading].recs[rd.pos]
           known == r.id \in DOMAIN jobs
<1>1. /\ pc = "read" /\ w.reading # 0 /\ dir[w.reading].ver = WalVer
      /\ rd.pos <= Len(dir[w.reading].recs)
      /\ UNCHANGED <<answer, acked, gone, faults, cmds>>
  BY DEF ReadRec
<1>2. \/ ~known /\ (~IsFull(r) \/ ~Valid(r)) /\ SkipTo(rd.pos + 1)
      \/ known /\ ~Valid(r) /\ Discard(r.id)
      \/ ~known /\ r.kind \in TooBig
      \/ Died /\ dir' = dir
      \/ (known \/ IsFull(r)) /\ Valid(r) /\ Recover(r)
  BY DEF ReadRec, Replaying, Valid
<1>3. /\ r \in Recs /\ rd.pos \in Nat /\ rd.pos \in DOMAIN dir[w.reading].recs
      /\ w.reading \in Files /\ w.reading \in DOMAIN dir
  <2>1. rd \in CursorRec /\ rd.pos >= 1 /\ w.reading \in Files /\ w.reading \in DOMAIN dir
    BY <1>1, Reading, Parts
  <2>2. dir[w.reading].recs \in Seq(Recs)
    BY <2>1 DEF FilesInv, Disk, DirRec
  <2>3. rd.pos \in 1..Len(dir[w.reading].recs)
    BY <1>1, <2>1, <2>2, CursorFields
  <2> QED BY <1>1, <2>1, <2>2, <2>3, NextRecord, CursorFields
<1>4. w.reading = rd.last /\ NextFileOf = rd.last /\ NextRecOf = rd.pos
  BY <1>1, CursorIs
<1>5. NextIsRec(w.reading, rd.pos, r)
  <2>1. r = dir[w.reading].recs[rd.pos]
    OBVIOUS
  <2> HIDE DEF r
  <2> QED BY <1>1, <1>3, <1>4, <2>1 DEF NextIsRec
<1> HIDE DEF r
<1> QED BY <1>1, <1>2, <1>5

\* A record of a job that recovery does not know, and makes nothing of.
LEMMA SkipDur ==
  ASSUME FilesInv, FilesInv', DurInv, NEW c, NEW n, NEW r, NextIsRec(c, n, r),
         r.id \notin DOMAIN jobs, ~IsFull(r) \/ ~Valid(r), SkipTo(n + 1), acked' = acked, gone' = gone
  PROVE  DurInv'
<1>1. /\ pc = "read" /\ c \in Files /\ n \in Nat /\ w.reading = c /\ rd.last = c
      /\ NextFileOf = c /\ NextRecOf = n /\ r = dir[c].recs[n] /\ r.id \in Ids
  BY DEF NextIsRec, Recs
<1>2. rd' = [rd EXCEPT !.pos = n + 1] /\ UNCHANGED <<w, dir, jobs, nextId, pc, run>>
  BY DEF SkipTo
<1>3. rd'.last = rd.last /\ rd'.pos = n + 1
  <2> DEFINE s == n + 1
  <2> HIDE DEF s
  <2>1. rd' = [rd EXCEPT !.pos = s]
    BY <1>2 DEF s
  <2>2. rd'.last = rd.last /\ rd'.pos = s
    BY <2>1, Parts DEF CursorRec
  <2> QED BY <2>2 DEF s
<1>4. ReadStep(c, n, r)
  <2>1. ReadDir
    BY <1>2, <1>3 DEF ReadDir, Listed
  <2> QED BY <1>1, <1>2, <1>3, <2>1 DEF ReadStep, Holds
<1>5. /\ RecOf(dir', r.id, c, n) /\ dir'[c].recs[n] = r /\ \A j : Trim(dir, dir', j)
      /\ \A j, g : \A p : g \in Files /\ RecOf(dir', j, g, p) => p \in Nat
  BY <1>4, StepFacts
<1> DEFINE j == r.id
           d == dir
           e == dir'
<1>6. ASSUME NEW f \in Files, NEW p \in Nat, Source(e, j, c, n + 1, f, p) PROVE FALSE
  <2>1. CASE ~Valid(r)
    <3>1. Seen(e, j, c, n + 1, c, n)
          /\ \A g \in Files, q \in Nat : Seen(e, j, c, n + 1, g, q) => Before(g, q, c, n) \/ (g = c /\ q = n)
      <4> HIDE DEF e
      <4> QED BY <1>1, <1>5, LastRead DEF e
    <3> DEFINE s == n + 1
    <3>2. ~Valid(e[c].recs[n])
      BY <1>5, <2>1
    <3> HIDE DEF e, s
    <3>3. \A g \in Files, q \in Nat : ~Source(e, j, c, s, g, q)
      BY <1>1, <3>1, <3>2, FoundGone DEF s
    <3> QED BY <1>6, <3>3 DEF s
  <2>2. CASE ~IsFull(r)
    <3>1. f \in DOMAIN e
      BY <1>6 DEF Source, Seen, RecOf
    <3> HIDE DEF e, d
    <3>2. OneMore(d, c, n, e, c, n + 1, j, c, n, f)
      BY <1>1, <1>5, <3>1, ReadOne DEF e, d
    <3>3. ~IsFull(e[c].recs[n])
      BY <1>5, <2>2 DEF e
    <3> DEFINE s == n + 1
    <3> HIDE DEF s
    <3>4. Source(d, j, c, n, f, p)
      BY <1>6, <3>2, <3>3, ShortSource DEF s
    <3>5. j \in DOMAIN jobs
      BY <1>1, <3>4 DEF DurInv, FoundInv, d
    <3> QED BY <3>5
  <2> QED BY <2>1, <2>2
<1>7. OwnFound(c, n + 1, r.id)
  <2>1. r.id \notin DOMAIN jobs'
    BY <1>2
  <2> DEFINE s == n + 1
  <2>2. \A f \in Files, p \in Nat : ~Source(dir', r.id, c, s, f, p)
    BY <1>6
  <2> HIDE DEF s
  <2>3. OwnFound(c, s, r.id)
    BY <2>1, <2>2 DEF OwnFound
  <2> QED BY <2>3 DEF s
<1> QED BY <1>4, <1>7, ReadStepDur

\* A record of a delete.
LEMMA DiscardDur ==
  ASSUME FilesInv, FilesInv', DurInv, NEW c, NEW n, NEW r, NextIsRec(c, n, r),
         r.id \in DOMAIN jobs, ~Valid(r), Discard(r.id), UNCHANGED <<acked, gone, faults, cmds>>
  PROVE  DurInv'
<1>1. /\ pc = "read" /\ c \in Files /\ n \in Nat /\ w.reading = c /\ rd.last = c /\ rd.pos = n /\ c # 0
  BY Numbers DEF NextIsRec, Files
<1>2. DiscardFacts(r.id) /\ run' = run
  <2> DEFINE j == r.id
  <2>1. j \in DOMAIN jobs /\ Discard(j)
    OBVIOUS
  <2> HIDE DEF j
  <2>2. DiscardFacts(j) /\ run' = run
    BY <1>1, <2>1, DiscardKeeps DEF Discard
  <2> QED BY <2>2 DEF j
<1>3. ReadStep(c, n, r)
  <2>1. ReadDir
    BY <1>2 DEF DiscardFacts, ReadDir
  <2>2. \A k \in Ids, f \in Files : Holds(w, f, k) => Holds(w', f, k) \/ k = r.id
    BY <1>2 DEF DiscardFacts
  <2>3. /\ pc' = "read" /\ w'.reading = w.reading /\ rd'.pos = rd.pos + 1
        /\ DOMAIN jobs' = DOMAIN jobs \ {r.id} /\ \A k \in DOMAIN jobs' : jobs'[k] = jobs[k]
    BY <1>2 DEF DiscardFacts
  <2> QED BY <1>1, <1>2, <2>1, <2>2, <2>3 DEF ReadStep
<1>4. RecOf(dir', r.id, c, n) /\ dir'[c].recs[n] = r
  BY <1>3, StepFacts
<1>5. OwnFound(c, n + 1, r.id)
  <2> DEFINE e == dir'
             s == n + 1
  <2>1. Seen(e, r.id, c, s, c, n)
        /\ \A g \in Files, q \in Nat : Seen(e, r.id, c, s, g, q) => Before(g, q, c, n) \/ (g = c /\ q = n)
    <3> HIDE DEF e
    <3> QED BY <1>1, <1>4, LastRead DEF e
  <2>2. ~Valid(e[c].recs[n]) /\ r.id \notin DOMAIN jobs'
    BY <1>2, <1>4 DEF DiscardFacts
  <2> HIDE DEF e, s
  <2>3. \A f \in Files, p \in Nat : ~Source(e, r.id, c, s, f, p)
    BY <1>1, <2>1, <2>2, FoundGone
  <2>4. OwnFound(c, s, r.id)
    BY <2>2, <2>3 DEF OwnFound, e
  <2> QED BY <2>4 DEF s
<1> QED BY <1>3, <1>5, ReadStepDur

\* A record that recovery takes.
LEMMA RecoverDur ==
  ASSUME FilesInv, FilesInv', DurInv, NEW c, NEW n, NEW r, NextIsRec(c, n, r),
         r.id \in DOMAIN jobs \/ IsFull(r), Valid(r), Recover(r), UNCHANGED <<acked, gone, faults, cmds>>
  PROVE  DurInv'
<1>1. /\ pc = "read" /\ c \in Files /\ n \in Nat /\ w.reading = c /\ rd.last = c /\ rd.pos = n /\ c # 0
      /\ NextFileOf = c /\ NextRecOf = n /\ r \in Recs /\ r.id \in Ids /\ r.st \in States
  BY Numbers DEF NextIsRec, Files, Recs
<1>2. RecoverFacts(r) /\ run' = run
  BY <1>1, RecoverKeeps DEF Recover
<1>3. jobs'[r.id].where = {} /\ r.id \in DOMAIN jobs'
  BY DEF Recover
<1>4. /\ pc' = "read" /\ w'.reading = w.reading /\ rd'.pos = rd.pos + 1
      /\ DOMAIN jobs' = DOMAIN jobs \cup {r.id} /\ \A k \in DOMAIN jobs : k # r.id => jobs'[k] = jobs[k]
      /\ jobs'[r.id].st = RecoveredState(r.st)
      /\ jobs'[r.id].good = IF IsFull(r) THEN r.body ELSE jobs[r.id].good
      /\ \A g \in Files : \A k : Holds(w', g, k) <=>
           IF IsFull(r) THEN (Holds(w, g, k) /\ k # r.id) \/ (g = w.reading /\ k = r.id)
                        ELSE Holds(w, g, k)
  BY <1>2 DEF RecoverFacts
<1>5. ReadStep(c, n, r)
  <2>1. ReadDir
    BY <1>2 DEF RecoverFacts, ReadDir
  <2>2. \A k \in Ids, f \in Files : Holds(w, f, k) => Holds(w', f, k) \/ (k = r.id /\ IsFull(r))
    BY <1>4
  <2> QED BY <1>1, <1>2, <1>4, <2>1, <2>2 DEF ReadStep
<1>6. /\ RecOf(dir', r.id, c, n) /\ dir'[c].recs[n] = r /\ \A j : Trim(dir, dir', j)
      /\ \A j, g : \A p : g \in Files /\ RecOf(dir', j, g, p) => p \in Nat
  BY <1>5, StepFacts
<1>7. jobs'[r.id].st # "invalid"
  BY <1>4 DEF RecoveredState, Valid
<1> DEFINE j == r.id
           d == dir
           e == dir'
           s == n + 1
<1>8. \E f \in Files, st \in States :
        /\ Found(e, j, c, s, f, jobs'[j].good, st)
        /\ Holds(w', f, j) /\ jobs'[j].st = RecoveredState(st)
  <2>1. Seen(e, j, c, s, c, n)
        /\ \A g \in Files, q \in Nat : Seen(e, j, c, s, g, q) => Before(g, q, c, n) \/ (g = c /\ q = n)
    <3> HIDE DEF e
    <3> QED BY <1>1, <1>6, LastRead DEF e
  <2>2. e[c].recs[n] = r
    BY <1>6
  <2>3. CASE IsFull(r)
    <3>1. IsFull(e[c].recs[n]) /\ Valid(e[c].recs[n])
      BY <2>2, <2>3
    <3> HIDE DEF e, s
    <3>2. Found(e, j, c, s, c, e[c].recs[n].body, e[c].recs[n].st)
      <4> HIDE DEF j
      <4>1. Seen(e, j, c, s, c, n)
            /\ \A g \in Files, q \in Nat : Seen(e, j, c, s, g, q) => Before(g, q, c, n) \/ (g = c /\ q = n)
        BY <2>1
      <4>2. c \in Files /\ n \in Nat
        BY <1>1
      <4> QED BY <4>1, <4>2, <3>1, FoundFull
    <3>3. Found(e, j, c, s, c, jobs'[j].good, r.st) /\ Holds(w', c, j)
      BY <1>1, <1>4, <2>2, <2>3, <3>2
    <3> QED BY <1>1, <1>4, <3>3
  <2>4. CASE ~IsFull(r)
    <3>1. j \in DOMAIN jobs
      BY <2>4
    <3>2. PICK f \in Files, st \in States :
            Found(d, j, c, n, f, jobs[j].good, st) /\ Holds(w, f, j)
      BY <1>1, <3>1 DEF DurInv, FoundInv
    <3>3. Holds(w', f, j) /\ jobs'[j].good = jobs[j].good
      BY <1>4, <2>4, <3>2
    <3>4. f \in DOMAIN e
      BY <1>4, <3>3, ReadHoldsNext
    <3>5. Trim(d, e, j) /\ RecOf(e, j, c, n) /\ \A g, q : g \in Files /\ RecOf(e, j, g, q) => q \in Nat
      BY <1>6
    <3>6. OneMore(d, c, n, e, c, s, j, c, n, f)
      <4> HIDE DEF d, e
      <4> QED BY <1>1, <2>2, <3>4, <3>5, ReadOne
    <3>7. ~IsFull(e[c].recs[n]) /\ Valid(e[c].recs[n])
      BY <2>2, <2>4
    <3> HIDE DEF d, e, s
    <3>8. \A b, tt : Found(d, j, c, n, f, b, tt) => Found(e, j, c, s, f, b, e[c].recs[n].st)
      BY <3>6, <3>7, FoundShort
    <3>9. Found(e, j, c, s, f, jobs'[j].good, r.st)
      BY <2>2, <3>2, <3>3, <3>8
    <3> QED BY <1>1, <1>4, <3>3, <3>9
  <2> QED BY <2>3, <2>4
<1>9. OwnFound(c, n + 1, r.id)
  <2> HIDE DEF s
  <2>1. OwnFound(c, s, r.id)
    BY <1>3, <1>7, <1>8 DEF OwnFound
  <2> QED BY <2>1 DEF s
<1> QED BY <1>5, <1>9, ReadStepDur

\* ReadRec, when no job that was accepted is over the limit now.
LEMMA ReadRecDur ==
  ASSUME FilesInv, FilesInv', DurInv, TooBig = {}, ReadRec
  PROVE  DurInv'
<1>1. PICK c, n, r :
        /\ NextIsRec(c, n, r) /\ UNCHANGED <<answer, acked, gone, faults, cmds>>
        /\ \/ r.id \notin DOMAIN jobs /\ (~IsFull(r) \/ ~Valid(r)) /\ SkipTo(n + 1)
           \/ r.id \in DOMAIN jobs /\ ~Valid(r) /\ Discard(r.id)
           \/ r.id \notin DOMAIN jobs /\ r.kind \in TooBig
           \/ Died /\ dir' = dir
           \/ (r.id \in DOMAIN jobs \/ IsFull(r)) /\ Valid(r) /\ Recover(r)
  BY ReadRecIs
<1>2. CASE r.id \notin DOMAIN jobs /\ (~IsFull(r) \/ ~Valid(r)) /\ SkipTo(n + 1)
  BY <1>1, <1>2, SkipDur
<1>3. CASE r.id \in DOMAIN jobs /\ ~Valid(r) /\ Discard(r.id)
  BY <1>1, <1>3, DiscardDur
<1>4. CASE Died /\ dir' = dir
  <2>1. run.moving = 0
    BY <1>1, Reading, NoRunFields DEF NextIsRec
  <2> QED BY <1>1, <1>4, <2>1, PlainDeathDur
<1>5. CASE (r.id \in DOMAIN jobs \/ IsFull(r)) /\ Valid(r) /\ Recover(r)
  BY <1>1, <1>5, RecoverDur
<1> QED BY <1>1, <1>2, <1>3, <1>4, <1>5

\* When all files are read, what recovery found is what is in the directory.
LEMMA AllRead ==
  ASSUME FilesInv, pc = "read", w.reading = 0, \A f \in DOMAIN dir : f <= rd.last,
         NEW j \in Ids, NEW f \in Files
  PROVE  /\ SameRecords(dir, NextFileOf, NextRecOf, dir, MaxFiles + 1, 1, j, f)
         /\ SameRecords(dir, MaxFiles + 1, 1, dir, NextFileOf, NextRecOf, j, f)
<1> DEFINE l == rd.last + 1
           m == MaxFiles + 1
<1>1. NextFileOf = l /\ NextRecOf = 1 /\ rd.last \in Nat
  BY CursorIs
<1>2. ASSUME NEW g \in Files, NEW p \in Nat, RecOf(dir, j, g, p)
      PROVE  Before(g, p, l, 1) /\ Before(g, p, m, 1)
  <2>1. g \in DOMAIN dir
    BY <1>2 DEF RecOf
  <2>2. g <= rd.last /\ g \in Nat /\ g <= MaxFiles /\ MaxFiles \in Nat
    BY <2>1, Numbers DEF Files
  <2> QED BY <1>1, <2>2 DEF Before
<1> HIDE DEF l, m
<1>3. SameRecords(dir, l, 1, dir, m, 1, j, f) /\ SameRecords(dir, m, 1, dir, l, 1, j, f)
  BY <1>2, SamePlace
<1> QED BY <1>1, <1>3 DEF m

\* WalInit: the server goes on with the jobs that it found.
LEMMA InitDur ==
  ASSUME FilesInv, FilesInv', DurInv, InitFacts
  PROVE  DurInv'
<1>1. /\ pc = "read" /\ pc' = "replay" /\ w.reading = 0 /\ (\A f \in DOMAIN dir : f <= rd.last)
      /\ w'.use /\ w'.list = w.list /\ w'.cur = w.next
      /\ (\A f \in DOMAIN dir : f \in DOMAIN dir' /\ dir'[f] = dir[f])
      /\ (\A f \in DOMAIN dir' : f \notin DOMAIN dir =>
            f >= w.next /\ dir'[f].ver = WalVer /\ dir'[f].recs = <<>>)
      /\ jobs' = jobs /\ run' = run /\ rd' = rd /\ acked' = acked /\ gone' = gone
  BY DEF InitFacts
<1>2. run = NoRun /\ run.moving = 0 /\ run'.moving = 0 /\ (\A f \in DOMAIN dir : f < w.next)
  BY <1>1, Reading, NoRunFields
<1>3. DOMAIN jobs \subseteq Ids /\ w.next \in Nat
  BY WalFields DEF FilesInv, JobTypes, Disk, Chain
<1>4. QuietDir
  BY <1>1 DEF QuietDir
<1>5. \A j : Trim(dir, dir', j)
  BY <1>4, QuietTrim
<1>6. \A j \in Ids : /\ (Sure(j) <=> Relied(j))
                     /\ ((Sure(j))' => Sure(j))
                     /\ (SureBuried(j) <=> (Relied(j) /\ acked[j] = "buried"))
                     /\ ((SureBuried(j))' => SureBuried(j))
                     /\ (SureGone(j) <=> j \in gone)
                     /\ ((SureGone(j))' => SureGone(j))
  BY <1>1, <1>2, ReadSure
<1>7. ASSUME NEW j \in Ids, NEW f \in Files, NEW st \in States, NEW b, InDir(dir, j, f, b, st)
      PROVE  /\ Holds(w, f, j) /\ j \in DOMAIN jobs /\ jobs[j].where = {} /\ jobs[j].st # "invalid"
             /\ jobs[j].good = b /\ jobs[j].st = RecoveredState(st)
  <2>1. Found(dir, j, NextFileOf, NextRecOf, f, b, st)
    BY <1>1, <1>7, AllRead, SameFound DEF InDir
  <2>2. PICK p \in Nat : Source(dir, j, NextFileOf, NextRecOf, f, p)
    BY <2>1 DEF Found
  <2>3. Holds(w, f, j) /\ j \in DOMAIN jobs
    BY <1>1, <2>2, SourceHeld
  <2>4. PICK g \in Files, tt \in States :
          /\ Found(dir, j, NextFileOf, NextRecOf, g, jobs[j].good, tt)
          /\ jobs[j].st = RecoveredState(tt)
    BY <1>1, <2>3 DEF DurInv, FoundInv
  <2>5. jobs[j].good = b /\ tt = st
    BY <2>1, <2>4, FoundOnce
  <2>6. jobs[j].where = {} /\ jobs[j].st # "invalid"
    BY <1>1, <2>3 DEF DurInv, FoundInv
  <2> QED BY <2>3, <2>4, <2>5, <2>6
<1>8. ASSUME NEW j \in Ids, (Sure(j))' PROVE (Lasts(j))'
  <2>1. Lasts(j) /\ Trim(dir, dir', j) /\ ((SureBuried(j))' => SureBuried(j))
    BY <1>5, <1>6, <1>8 DEF DurInv, KeptInv
  <2>2. ASSUME NEW f \in Files, NEW st \in States, InDir(dir, j, f, TRUE, st)
        PROVE  f \in DOMAIN dir' /\ (Stays(j, f))'
    <3>1. Holds(w, f, j) /\ f \in DOMAIN dir
      BY <1>7, <2>2, InDirFile
    <3>2. Holds(w', f, j)
      BY <1>1, <3>1 DEF Holds
    <3> QED BY <1>1, <3>1, <3>2 DEF Stays
  <2> QED BY <2>1, <2>2, KeptIn
<1>9. ASSUME NEW j \in Ids, (SureGone(j))' PROVE (Absent(j))'
  <2>1. Absent(j) /\ Trim(dir, dir', j)
    BY <1>5, <1>6, <1>9 DEF DurInv, GoneInv
  <2> QED BY <2>1, GoneOne
<1>10. KeptInv' /\ GoneInv'
  BY <1>8, <1>9 DEF KeptInv, GoneInv
<1>11. KnownInv'
  <2>1. ASSUME NEW j \in Ids, (Relied(j))'
        PROVE  /\ j \in DOMAIN jobs /\ jobs[j].good /\ jobs[j].st # "invalid" /\ jobs[j].where = {}
               /\ acked[j] = "buried" => jobs[j].st = "buried"
    <3>1. Relied(j)
      BY <1>1, <2>1 DEF Relied
    <3>2. Lasts(j)
      BY <1>6, <3>1 DEF DurInv, KeptInv
    <3>3. PICK f \in Files, st \in States :
            InDir(dir, j, f, TRUE, st) /\ (SureBuried(j) => st = "buried")
      BY <3>2 DEF Lasts
    <3>4. /\ j \in DOMAIN jobs /\ jobs[j].where = {} /\ jobs[j].st # "invalid"
          /\ jobs[j].good = TRUE /\ jobs[j].st = RecoveredState(st)
      BY <1>7, <3>3
    <3>5. acked[j] = "buried" => jobs[j].st = "buried"
      BY <1>6, <3>1, <3>3, <3>4 DEF RecoveredState
    <3> QED BY <3>4, <3>5
  <2>2. ASSUME NEW j \in gone, j \in DOMAIN jobs PROVE FALSE
    <3>1. j \in Ids
      BY <1>3, <2>2
    <3>2. Absent(j)
      BY <1>6, <2>2, <3>1 DEF DurInv, GoneInv
    <3>3. PICK f \in Files, st \in States : Found(dir, j, NextFileOf, NextRecOf, f, jobs[j].good, st)
      BY <1>1, <2>2 DEF DurInv, FoundInv
    <3>4. PICK p \in Nat : Source(dir, j, NextFileOf, NextRecOf, f, p)
      BY <3>3 DEF Found
    <3>5. Source(dir, j, MaxFiles + 1, 1, f, p)
      BY <1>1, <3>1, <3>4, AllRead, SameSource
    <3> QED BY <3>2, <3>5 DEF Absent
  <2>3. \A j \in DOMAIN jobs : jobs[j].where = {}
    BY <1>1 DEF DurInv, FoundInv
  <2> QED BY <1>1, <2>1, <2>2, <2>3 DEF KnownInv
<1>12. CurrentInv'
  <2>1. ASSUME NEW f \in DOMAIN dir', f >= w'.cur
        PROVE  dir'[f].ver = WalVer /\ dir'[f].recs = <<>>
    <3>1. f \in Files
      BY <2>1 DEF FilesInv, Disk
    <3>2. f \in Nat
      BY <3>1, Numbers
    <3>3. f \notin DOMAIN dir
      BY <1>1, <1>2, <1>3, <2>1, <3>2
    <3> QED BY <1>1, <2>1, <3>3
  <2> QED BY <2>1 DEF CurrentInv
<1>13. CommandInv' /\ HalfInv' /\ FoundInv'
  BY <1>1 DEF CommandInv, HalfInv, FoundInv
<1>14. InvalidInv'
  <2>1. \A j \in DOMAIN jobs : jobs[j].st # "invalid"
    BY <1>1 DEF DurInv, FoundInv
  <2> QED BY <1>1, <1>2, <2>1 DEF InvalidInv
<1> QED BY <1>10, <1>11, <1>12, <1>13, <1>14 DEF DurInv

\* WalInit, in success or panic.
LEMMA WalInitDur ==
  ASSUME FilesInv, FilesInv', DurInv, NEW room \in Rooms, WalInit(room)
  PROVE  DurInv'
<1>1. CASE InitFacts
  BY <1>1, InitDur
<1>2. CASE Died /\ UNCHANGED <<dir, answer, acked, gone, cmds>>
  <2>1. pc = "read"
    BY DEF WalInit
  <2>2. run.moving = 0
    BY <2>1, Reading, NoRunFields
  <2> QED BY <1>2, <2>2, PlainDeathDur
<1> QED BY <1>1, <1>2, WalInitKeeps

-----------------------------------------------------------------------------
(* The specification. *)

\* At first no client relies on a job.
LEMMA StartsDur ==
  ASSUME WalStart
  PROVE  DurInv
<1>1. jobs = <<>> /\ pc = "down" /\ run = NoRun /\ w = EmptyWal(1) /\ gone = {} /\ acked = <<>>
  BY DEF WalStart
<1>2. DOMAIN jobs = {} /\ DOMAIN acked = {}
  BY <1>1, NoJobs
<1>3. run.moving = 0
  BY <1>1, NoRunFields
<1>4. ~Running /\ ~Past
  BY <1>1, <1>3 DEF Running, Past
<1>5. KeptInv /\ GoneInv
  BY <1>1, <1>2, <1>4 DEF KeptInv, GoneInv, Sure, SureGone, Relied, Done
<1>6. KnownInv /\ CommandInv /\ CurrentInv /\ HalfInv /\ InvalidInv /\ FoundInv
  BY <1>1, <1>2, <1>3, <1>4 DEF KnownInv, CommandInv, CurrentInv, HalfInv, InvalidInv, FoundInv
<1> QED BY <1>5, <1>6 DEF DurInv

\* Every command,
LEMMA CommandsDur ==
  ASSUME FilesInv, FilesInv', DurInv, Commands
  PROVE  DurInv'
<1>1. ASSUME NEW kind \in Kinds, NEW delayed \in BOOLEAN, NEW room \in Rooms, Put(kind, delayed, room)
      PROVE  DurInv'
  BY <1>1, PutDur
<1>2. ASSUME NEW j \in DOMAIN jobs, Reserve(j) \/ Requeue(j) \/ Delete(j) \/ Release(j)
      PROVE  DurInv'
  BY <1>2, TurnDur
<1>3. ASSUME NEW j \in DOMAIN jobs, NEW room \in Rooms, Bury(j, room) \/ ReleaseDelayed(j, room)
      PROVE  DurInv'
  BY <1>3, BuryDur
<1> QED BY <1>1, <1>2, <1>3 DEF Commands

\* every step of WalWrite and of the compaction, a failed write and a crash,
LEMMA WorkDur ==
  ASSUME FilesInv, FilesInv', LogInv, DurInv, Work \/ WriteError \/ Crash \/ CrashInOpen
  PROVE  DurInv'
<1>1. CASE WriteNothing
  BY <1>1, WriteNothingDur
<1>2. CASE WalWrite
  BY <1>2, WalWriteDur
<1>3. CASE WriteBody
  BY <1>3, WriteBodyDur
<1>4. CASE WalMainDone
  BY <1>4, WalMainDoneDur
<1>5. CASE CrashInOpen
  BY <1>5, CrashInOpenDur
<1>6. ASSUME NEW room \in Rooms, moveOne(room) PROVE DurInv'
  <2>1. CASE Moves(room)
    BY <2>1, MoveOneDur
  <2>2. CASE Stops
    BY <2>2, MoveNoneDur
  <2> QED BY <1>6, <2>1, <2>2, MoveOneSplits
<1>7. CASE WriteError
  BY <1>7, WriteErrorDur
<1>8. CASE Crash
  BY <1>8, CrashDur
<1> QED BY <1>1, <1>2, <1>3, <1>4, <1>5, <1>6, <1>7, <1>8 DEF Work

\* and every step of recovery keeps the invariant.
LEMMA RecoveryDur ==
  ASSUME FilesInv, FilesInv', LogInv, DurInv, TooBig = {}, Recovery
  PROVE  DurInv'
<1>1. CASE Start
  BY <1>1, StartDur
<1>2. CASE OpenFile
  BY <1>2, OpenFileDur
<1>3. CASE ReadRec
  BY <1>3, ReadRecDur
<1>4. CASE ReadRec5
  BY <1>4, ReadRec5Dur
<1>5. CASE FileReadDone
  BY <1>5, FileReadDoneDur
<1>6. CASE Serve
  BY <1>6, ServeDur
<1>7. ASSUME NEW room \in Rooms, WalInit(room) PROVE DurInv'
  BY <1>7, WalInitDur
<1>8. ASSUME NEW room \in Rooms, protReplay(room) PROVE DurInv'
  BY <1>8, ReplayDur, ReplayDeathDur
<1> QED BY <1>1, <1>2, <1>3, <1>4, <1>5, <1>6, <1>7, <1>8 DEF Recovery

-----------------------------------------------------------------------------
(* What the server says when it no longer writes.                          *)

\* The server has the job, with its body, and no command is about to end it.
Still(k) == /\ k \in DOMAIN jobs /\ jobs[k].good /\ jobs[k].st # "invalid"
            /\ run.op \in {"put", "delete"} => run.job # k

\* It does not have it, and has used its number.
Out(k) == k \notin DOMAIN jobs /\ k < nextId

\* What was told without writing it holds, and is said by a server that serves.
UnloggedInv ==
  /\ \A k \in Unlogged : IF acked[k] = "deleted" THEN Out(k) ELSE Still(k)
  /\ pc \in {"down", "read", "replay"} => Unlogged = {}

\* What is told of a job and is not changed stays so.
LEMMA UnloggedKeeps ==
  ASSUME UnloggedInv, pc' \notin {"down", "read", "replay"},
         \A k : (k \in Unlogged)' => /\ k \in Unlogged /\ acked'[k] = acked[k]
                                     /\ Still(k) => (Still(k))'
                                     /\ Out(k) => (Out(k))'
  PROVE  UnloggedInv'
BY DEF UnloggedInv

\* What Expose and Forget leave.
LEMMA UnloggedExposed ==
  ASSUME NEW S, Expose(S), NEW k, (k \in Unlogged)'
  PROVE  k \in Unlogged /\ acked'[k] = acked[k] /\ k \notin S
BY DEF Unlogged, Expose

LEMMA UnloggedForgotten ==
  ASSUME NEW j, acked' = Forget(j), NEW k, (k \in Unlogged)'
  PROVE  k \in Unlogged /\ acked'[k] = acked[k] /\ k # j
BY DEF Unlogged, Forget

\* Nothing is unlogged once the process has died.
LEMMA UnloggedDeath ==
  ASSUME UnloggedInv, Died, NEW S, Unlogged \subseteq S,
         Expose(S) \/ (acked' = acked /\ pc \in {"read", "replay"})
  PROVE  UnloggedInv'
<1>1. \A k : ~(k \in Unlogged)'
  <2>1. CASE Expose(S)
    BY <2>1, UnloggedExposed
  <2>2. CASE acked' = acked /\ pc \in {"read", "replay"}
    <3>1. Unlogged = {}
      BY <2>2 DEF UnloggedInv
    <3> QED BY <2>2, <3>1 DEF Unlogged
  <2> QED BY <2>1, <2>2
<1> QED BY <1>1 DEF UnloggedInv

\* A step with the same jobs and the same command.
LEMMA UnloggedSame ==
  ASSUME UnloggedInv, pc' \notin {"down", "read", "replay"}, jobs' = jobs, nextId' = nextId,
         \/ run'.op = run.op /\ run'.job = run.job
         \/ run'.op = "none",
         acked' = acked \/ \E S : Expose(S)
  PROVE  UnloggedInv'
<1>1. \A k : (k \in Unlogged)' => k \in Unlogged /\ acked'[k] = acked[k]
  <2>1. CASE acked' = acked
    BY <2>1 DEF Unlogged
  <2>2. ASSUME NEW S, Expose(S) PROVE \A k : (k \in Unlogged)' => k \in Unlogged /\ acked'[k] = acked[k]
    BY <2>2, UnloggedExposed
  <2> QED BY <2>1, <2>2
<1>2. \A k : (Still(k) => (Still(k))') /\ (Out(k) => (Out(k))')
  BY DEF Still, Out
<1> QED BY <1>1, <1>2, UnloggedKeeps

\* A step that puts one job somewhere else.
LEMMA UnloggedPlace ==
  ASSUME UnloggedInv, JobMap(jobs), NEW j \in DOMAIN jobs, NEW st \in States, NEW c \in SUBSET States,
         jobs' = Place(j, st, c), nextId' = nextId, pc' \notin {"down", "read", "replay"},
         run'.op \in {"put", "delete"} => run'.job = j,
         \A k : (k \in Unlogged)' =>
           /\ k \in Unlogged /\ acked'[k] = acked[k]
           /\ k = j => st # "invalid" /\ run'.op \notin {"put", "delete"}
  PROVE  UnloggedInv'
<1> DEFINE q == jobs'
<1>1. q = Place(j, st, c)
  OBVIOUS
<1> HIDE DEF q
<1>2. /\ DOMAIN q = DOMAIN jobs /\ q[j].st = st
      /\ \A k \in DOMAIN jobs : q[k].good = jobs[k].good
      /\ \A k \in DOMAIN jobs : k # j => q[k] = jobs[k]
  BY <1>1, PlaceFields
<1>3. ASSUME NEW k, (k \in Unlogged)', Still(k) PROVE (Still(k))'
  <2>1. k \in DOMAIN q /\ q[k].good /\ q[k].st # "invalid"
    BY <1>2, <1>3 DEF Still
  <2>2. run'.op \in {"put", "delete"} => run'.job # k
    BY <1>3
  <2> QED BY <2>1, <2>2 DEF Still, q
<1>4. \A k : Out(k) => (Out(k))'
  BY <1>2 DEF Out, q
<1> QED BY <1>3, <1>4, UnloggedKeeps

\* Put takes a new number.
LEMMA PutUnlogged ==
  ASSUME FilesInv, UnloggedInv, NEW kind \in Kinds, NEW delayed \in BOOLEAN, NEW room \in Rooms,
         Put(kind, delayed, room)
  PROVE  UnloggedInv'
<1> DEFINE j == nextId
           st == IF delayed THEN "delayed" ELSE "ready"
           N(s, c) == [k \in DOMAIN jobs \cup {j} |->
                         IF k = j THEN [st |-> s, kind |-> kind, good |-> TRUE, where |-> c]
                         ELSE jobs[k]]
<1>1. pc = "idle" /\ nextId' = nextId + 1 /\ acked' = Forget(j)
  BY DEF Put, Command
<1>2. \/ Hangs
      \/ jobs' = N(st, {st}) /\ Working("put", j, WalResvPut(kind))
      \/ jobs' = N("invalid", {}) /\ Answer("OUT_OF_MEMORY")
  BY DEF Put
<1>3. run = NoRun /\ JobMap(jobs) /\ nextId \in Nat
  BY <1>1, Parts, Numbers DEF Running, RunInv
<1>4. /\ \A k \in DOMAIN jobs : k # j => k \in DOMAIN jobs' /\ jobs'[k] = jobs[k]
      /\ \A k \in DOMAIN jobs' : k # j => k \in DOMAIN jobs
      /\ pc' \in {"hung", "write", "idle"}
      /\ run'.op \in {"put", "delete"} => run'.job = j
  <2>1. CASE Hangs
    BY <1>3, <2>1, NoRunFields DEF Hangs
  <2>2. CASE jobs' = N(st, {st}) /\ Working("put", j, WalResvPut(kind))
    BY <2>2 DEF Working
  <2>3. CASE jobs' = N("invalid", {}) /\ Answer("OUT_OF_MEMORY")
    BY <2>3, NoRunFields DEF Answer
  <2> QED BY <1>2, <2>1, <2>2, <2>3
<1> HIDE DEF N, st
<1>5. ASSUME NEW k, (k \in Unlogged)'
      PROVE  /\ k \in Unlogged /\ acked'[k] = acked[k]
             /\ Still(k) => (Still(k))'
             /\ Out(k) => (Out(k))'
  <2>1. k \in Unlogged /\ acked'[k] = acked[k] /\ k # j
    BY <1>1, <1>5, UnloggedForgotten
  <2>2. k \in Ids /\ k \in Nat
    BY <2>1 DEF Unlogged, FilesInv, ClientTypes, Ids
  <2>3. Still(k) => (Still(k))'
    BY <1>4, <2>1 DEF Still
  <2>4. Out(k) => (Out(k))'
    BY <1>1, <1>3, <1>4, <2>1, <2>2 DEF Out
  <2> QED BY <2>1, <2>3, <2>4
<1>6. pc' \notin {"down", "read", "replay"}
  BY <1>4
<1> QED BY <1>5, <1>6, UnloggedKeeps

\* The other commands.
LEMMA CommandsUnlogged ==
  ASSUME FilesInv, UnloggedInv, Commands
  PROVE  UnloggedInv'
<1>1. CASE \E kind \in Kinds, delayed \in BOOLEAN, room \in Rooms : Put(kind, delayed, room)
  BY <1>1, PutUnlogged
<1>2. ASSUME NEW j \in DOMAIN jobs, Delete(j) PROVE UnloggedInv'
  <2>1. /\ jobs' = Place(j, "invalid", jobs[j].where \ {jobs[j].st}) /\ nextId' = nextId
        /\ pc' = "write" /\ run'.job = j /\ acked' = Forget(j)
    BY <1>2 DEF Delete, Working
  <2>2. JobMap(jobs) /\ jobs[j].where \ {jobs[j].st} \in SUBSET States /\ "invalid" \in States
    BY Parts, JobFields DEF States
  <2>3. \A k : (k \in Unlogged)' => k \in Unlogged /\ acked'[k] = acked[k] /\ k # j
    BY <2>1, UnloggedForgotten
  <2> DEFINE c == jobs[j].where \ {jobs[j].st}
  <2>4. jobs' = Place(j, "invalid", c) /\ c \in SUBSET States
    BY <2>1, <2>2
  <2> HIDE DEF c
  <2> QED BY <2>1, <2>2, <2>3, <2>4, UnloggedPlace
<1>3. ASSUME NEW j \in DOMAIN jobs, NEW room,
             Reserve(j) \/ Requeue(j) \/ Release(j) \/ Bury(j, room) \/ ReleaseDelayed(j, room)
      PROVE  UnloggedInv'
  <2>1. pc = "idle" /\ acked' = acked /\ nextId' = nextId /\ run = NoRun /\ JobMap(jobs)
        /\ jobs[j].where \in SUBSET States
    <3>1. pc = "idle" /\ acked' = acked /\ nextId' = nextId
      BY <1>3 DEF Reserve, Requeue, Release, Bury, ReleaseDelayed, Command
    <3> QED BY <3>1, Parts, JobFields DEF Running, RunInv
  <2>2. /\ pc' \in {"idle", "write", "hung"} /\ run'.op \notin {"put", "delete"}
        /\ \/ jobs' = jobs
           \/ \E st \in States \ {"invalid"}, c \in SUBSET States : jobs' = Place(j, st, c)
    <3>1. /\ {"ready"} \in SUBSET States /\ {"buried"} \in SUBSET States /\ {"delayed"} \in SUBSET States
          /\ {} \in SUBSET States /\ (jobs[j].where \ {"ready"}) \cup {"reserved"} \in SUBSET States
          /\ {"ready", "reserved", "delayed", "buried"} \subseteq States \ {"invalid"}
      BY <2>1 DEF States
    <3>2. CASE Reserve(j) \/ Requeue(j)
      <4>1. /\ pc' = pc /\ run' = run
            /\ \/ jobs' = Place(j, "reserved", (jobs[j].where \ {"ready"}) \cup {"reserved"})
               \/ jobs' = Place(j, "ready", {"ready"})
        BY <3>2 DEF Reserve, Requeue
      <4> QED BY <2>1, <3>1, <4>1, NoRunFields
    <3>3. CASE Release(j)
      <4>1. jobs' = Place(j, "ready", {"ready"}) /\ Working("release", j, 0)
        BY <3>3 DEF Release
      <4> QED BY <3>1, <4>1 DEF Working
    <3>4. CASE Bury(j, room) \/ ReleaseDelayed(j, room)
      <4>1. \/ Hangs
            \/ jobs' = Place(j, "buried", {"buried"}) /\ Working("bury", j, WalResvUpdate)
            \/ pc' = "idle" /\ run' = NoRun /\ jobs' = Place(j, "reserved", {})
            \/ pc' = "idle" /\ run' = NoRun /\ jobs' = Place(j, "delayed", {"delayed"})
        BY <3>4 DEF Bury, ReleaseDelayed, Answer
      <4> QED BY <2>1, <3>1, <4>1, NoRunFields DEF Hangs, Working
    <3> QED BY <1>3, <3>2, <3>3, <3>4
  <2>3. \A k : (k \in Unlogged)' => k \in Unlogged /\ acked'[k] = acked[k]
    BY <2>1 DEF Unlogged
  <2>4. CASE jobs' = jobs
    <3>1. \A k : (Still(k) => (Still(k))') /\ (Out(k) => (Out(k))')
      BY <2>1, <2>2, <2>4 DEF Still, Out
    <3> QED BY <2>2, <2>3, <3>1, UnloggedKeeps
  <2>5. ASSUME NEW st \in States \ {"invalid"}, NEW c \in SUBSET States, jobs' = Place(j, st, c)
        PROVE  UnloggedInv'
    BY <2>1, <2>2, <2>3, <2>5, UnloggedPlace
  <2> QED BY <2>2, <2>4, <2>5
<1>4. \/ \E kind \in Kinds, delayed \in BOOLEAN, room \in Rooms : Put(kind, delayed, room)
      \/ \E j \in DOMAIN jobs : Delete(j)
      \/ \E j \in DOMAIN jobs : Reserve(j) \/ Requeue(j) \/ Release(j)
      \/ \E j \in DOMAIN jobs, room \in Rooms : Bury(j, room) \/ ReleaseDelayed(j, room)
  BY DEF Commands
<1> QED BY <1>1, <1>2, <1>3, <1>4

\* The end of a command.
LEMMA WalMainDoneUnlogged ==
  ASSUME FilesInv, DurInv, UnloggedInv, WalMainDone
  PROVE  UnloggedInv'
<1> DEFINE j == run.job
<1>1. pc = "compact" /\ Finish /\ nextId' = nextId /\ pc' = "idle" /\ run' = NoRun
  BY DEF WalMainDone, Finish, Answer
<1>2. /\ jobs' = IF run.op = "delete" THEN Without(j) ELSE jobs
      /\ \/ acked' = acked
         \/ acked' = Promise(j, "live") \/ acked' = Promise(j, "buried")
         \/ acked' = Promise(j, "unlogged") /\ run.op = "put"
         \/ acked' = Promise(j, "deleted") /\ run.op = "delete"
  BY <1>1 DEF Finish
<1>3. /\ JobMap(jobs) /\ j \in DOMAIN jobs /\ j < nextId
      /\ run.op = "put" => jobs[j].good
      /\ run.op # "delete" => jobs[j].st # "invalid"
  BY <1>1, WorkFacts DEF DurInv, CommandInv
<1>4. /\ \A k \in DOMAIN jobs : k # j \/ run.op # "delete" => k \in DOMAIN jobs' /\ jobs'[k] = jobs[k]
      /\ \A k \in DOMAIN jobs' : k \in DOMAIN jobs /\ (run.op = "delete" => k # j)
  <2>1. CASE run.op = "delete"
    <3> DEFINE q == jobs'
    <3>1. q = Without(j)
      BY <1>2, <2>1
    <3> HIDE DEF q
    <3>2. DOMAIN q = DOMAIN jobs \ {j} /\ \A k \in DOMAIN q : q[k] = jobs[k]
      BY <3>1 DEF Without
    <3> QED BY <2>1, <3>2 DEF q
  <2>2. CASE run.op # "delete"
    BY <1>2, <2>2
  <2> QED BY <2>1, <2>2
<1> HIDE DEF j
<1>5. ASSUME NEW k, (k \in Unlogged)'
      PROVE  \/ k \in Unlogged /\ acked'[k] = acked[k]
             \/ k = j /\ run.op = "put" /\ acked'[k] = "unlogged"
             \/ k = j /\ run.op = "delete" /\ acked'[k] = "deleted"
  <2>1. CASE acked' = acked
    BY <1>5, <2>1 DEF Unlogged
  <2>2. ASSUME NEW what, acked' = Promise(j, what)
        PROVE  /\ k # j => k \in Unlogged /\ acked'[k] = acked[k]
               /\ k = j => acked'[k] = what /\ what \in {"unlogged", "deleted"}
    BY <1>5, <2>2 DEF Unlogged, Promise
  <2> QED BY <1>2, <2>1, <2>2
<1>6. run'.op = "none"
  BY <1>1, NoRunFields
<1>7. ASSUME NEW k, (k \in Unlogged)'
      PROVE  IF acked'[k] = "deleted" THEN (Out(k))' ELSE (Still(k))'
  <2>1. CASE k \in Unlogged /\ acked'[k] = acked[k]
    <3>1. CASE acked[k] = "deleted"
      <4>1. Out(k)
        BY <2>1, <3>1 DEF UnloggedInv
      <4> QED BY <1>1, <1>4, <2>1, <3>1, <4>1 DEF Out
    <3>2. CASE acked[k] # "deleted"
      <4>1. Still(k)
        BY <2>1, <3>2 DEF UnloggedInv
      <4>2. run.op = "delete" => k # j
        BY <4>1 DEF Still, j
      <4>3. k \in DOMAIN jobs' /\ jobs'[k] = jobs[k]
        BY <1>4, <4>1, <4>2 DEF Still
      <4> QED BY <1>6, <2>1, <3>2, <4>1, <4>3 DEF Still
    <3> QED BY <3>1, <3>2
  <2>2. CASE k = j /\ run.op = "put" /\ acked'[k] = "unlogged"
    <3>1. k \in DOMAIN jobs' /\ jobs'[k] = jobs[k]
      BY <1>3, <1>4, <2>2
    <3> QED BY <1>3, <1>6, <2>2, <3>1 DEF Still
  <2>3. CASE k = j /\ run.op = "delete" /\ acked'[k] = "deleted"
    BY <1>1, <1>3, <1>4, <2>3 DEF Out
  <2> QED BY <1>5, <1>7, <2>1, <2>2, <2>3
<1> QED BY <1>1, <1>7 DEF UnloggedInv

\* WalWrite returned false.
LEMMA FailedUnlogged ==
  ASSUME FilesInv, UnloggedInv, pc \in {"write", "body"}, NEW S, Failed(S), nextId' = nextId
  PROVE  UnloggedInv'
<1>1. /\ JobMap(jobs) /\ run.job \in DOMAIN jobs /\ pc' = "idle" /\ run' = NoRun /\ Expose(S)
  BY FailedFields, WorkFacts
<1>2. PICK j \in DOMAIN jobs : j = run.job
  BY <1>1
<1>3. \A k : (k \in Unlogged)' => k \in Unlogged /\ acked'[k] = acked[k]
  BY <1>1, UnloggedExposed
<1>4. run'.op = "none" /\ pc' \notin {"down", "read", "replay"}
  BY <1>1, NoRunFields
<1>5. CASE run.op = "delete"
  <2> DEFINE q == jobs'
  <2>1. q = Without(j)
    BY <1>2, <1>5 DEF Failed
  <2> HIDE DEF q
  <2>2. DOMAIN q = DOMAIN jobs \ {j} /\ \A k \in DOMAIN q : q[k] = jobs[k]
    BY <1>1, <2>1, WithoutFields
  <2>3. \A k : (Still(k) => (Still(k))') /\ (Out(k) => (Out(k))')
    BY <1>2, <1>4, <1>5, <2>2 DEF Still, Out, q
  <2> QED BY <1>3, <1>4, <2>3, UnloggedKeeps
<1>6. CASE run.op = "bury"
  <2>1. jobs' = jobs
    BY <1>6 DEF Failed
  <2> QED BY <1>1, <1>4, <2>1, UnloggedSame
<1>7. CASE run.op \notin {"delete", "bury"}
  <2> DEFINE c == jobs[j].where \cup {"buried"}
  <2>1. jobs' = Place(j, "buried", c)
    BY <1>2, <1>7 DEF Failed
  <2>2. c \in SUBSET States /\ "buried" \in States
    BY <1>1, JobFields DEF States
  <2> HIDE DEF c
  <2> QED BY <1>1, <1>3, <1>4, <2>1, <2>2, UnloggedPlace
<1> QED BY <1>5, <1>6, <1>7

\* LogOff.
LEMMA LogOffUnlogged ==
  ASSUME FilesInv, UnloggedInv, pc \in {"write", "body"}, NEW u, LogOff(u), nextId' = nextId
  PROVE  UnloggedInv'
<1> DEFINE v == fileWClose(u, u.cur)
<1>1. IF run.moving = 0 THEN Failed(Lost(v))
      ELSE /\ pc' = "compact" /\ run' = [run EXCEPT !.moving = 0]
           /\ Expose(Lost(v) \cup InHand) /\ UNCHANGED <<jobs, answer>>
  BY DEF LogOff
<1> HIDE DEF v
<1>2. CASE run.moving = 0
  BY <1>1, <1>2, FailedUnlogged
<1>3. CASE run.moving # 0
  <2>1. run'.op = run.op /\ run'.job = run.job
    BY <1>1, <1>3, WorkFacts DEF RunRec
  <2> QED BY <1>1, <1>3, <2>1, UnloggedSame
<1> QED BY <1>2, <1>3

\* Every step of the work on a command, and a crash.
LEMMA WorkUnlogged ==
  ASSUME FilesInv, DurInv, UnloggedInv, Work \/ WriteError \/ Crash \/ CrashInOpen
  PROVE  UnloggedInv'
<1>1. ASSUME NEW v, Compacting(v), nextId' = nextId, acked' = acked \/ \E S : Expose(S)
      PROVE  UnloggedInv'
  <2>1. pc' = "compact" /\ run'.op = run.op /\ run'.job = run.job /\ jobs' = jobs
    BY <1>1, Parts, CompactingRun
  <2> QED BY <1>1, <2>1, UnloggedSame
<1>2. CASE WriteNothing
  BY <1>1, <1>2 DEF WriteNothing
<1>3. CASE WalWrite
  <2>1. /\ pc = "write" /\ nextId' = nextId
        /\ \/ LogOff(w)
           \/ \E b : Compacting(b) /\ \E S : Expose(S)
           \/ pc' = "body" /\ UNCHANGED <<jobs, run>> /\ \E S : Expose(S)
    BY <1>3 DEF WalWrite
  <2>2. CASE LogOff(w)
    BY <2>1, <2>2, LogOffUnlogged
  <2>3. CASE pc' = "body" /\ UNCHANGED <<jobs, run>> /\ \E S : Expose(S)
    BY <2>1, <2>3, UnloggedSame
  <2> QED BY <1>1, <2>1, <2>2, <2>3
<1>4. CASE WriteBody
  BY <1>1, <1>4 DEF WriteBody
<1>5. CASE WalMainDone
  BY <1>5, WalMainDoneUnlogged
<1>6. ASSUME NEW room \in Rooms, moveOne(room) PROVE UnloggedInv'
  <2>1. CASE Moves(room)
    <3>1. CASE /\ pc = "compact" /\ run' = [run EXCEPT !.left = 0]
               /\ UNCHANGED <<pc, jobs, nextId, acked>>
      <4>1. run'.op = run.op /\ run'.job = run.job
        BY <3>1, Parts DEF RunRec
      <4> QED BY <3>1, <4>1, UnloggedSame
    <3>2. ASSUME NEW j, NEW v, NEW u, MoveFacts(j, v, u) PROVE UnloggedInv'
      <4> DEFINE n == walResvMigrate(jobs[j].kind)
                 to == IF v.ok THEN j ELSE 0
                 left == run.left - 1
      <4>1. /\ pc = "compact" /\ UNCHANGED <<jobs, nextId, acked>> /\ v.ok \in BOOLEAN
            /\ \/ Hangs
               \/ /\ run' = [run EXCEPT !.left = left, !.moving = to, !.need = n]
                  /\ pc' = IF v.ok THEN "write" ELSE pc
        BY <3>2 DEF MoveFacts
      <4> HIDE DEF n, to, left
      <4>2. run'.op = run.op /\ run'.job = run.job /\ pc' \in {"hung", "write", "compact"}
        BY <4>1, Parts DEF Hangs, RunRec
      <4> QED BY <4>1, <4>2, UnloggedSame
    <3> QED BY <2>1, <3>1, <3>2, MoveOneIs
  <2>2. CASE Stops
    BY <2>2, UnloggedDeath DEF Stops, moveNone
  <2> QED BY <1>6, <2>1, <2>2, MoveOneSplits
<1>7. CASE WriteError
  <2>1. pc \in {"write", "body"} /\ nextId' = nextId /\ \E u : LogOff(u)
    BY <1>7 DEF WriteError
  <2> QED BY <2>1, LogOffUnlogged
<1>8. CASE Crash \/ CrashInOpen
  <2>1. Died /\ Expose(InHand \cup Unlogged)
    BY <1>8 DEF Crash, CrashInOpen
  <2>2. Unlogged \subseteq InHand \cup Unlogged
    OBVIOUS
  <2> QED BY <2>1, <2>2, UnloggedDeath
<1> QED BY <1>2, <1>3, <1>4, <1>5, <1>6, <1>7, <1>8 DEF Work

\* In recovery clients are told nothing.
LEMMA RecoveryUnlogged ==
  ASSUME UnloggedInv, Recovery
  PROVE  UnloggedInv'
<1>1. pc \in {"down", "read", "replay"} /\ acked' = acked
  BY DEF Recovery, Start, OpenFile, ReadRec, ReadRec5, FileReadDone, Serve, WalInit, protReplay
<1>2. Unlogged = {}
  BY <1>1 DEF UnloggedInv
<1>3. \A k : ~(k \in Unlogged)'
  BY <1>1, <1>2 DEF Unlogged
<1> QED BY <1>3 DEF UnloggedInv

\* A step that changes nothing.
LEMMA StutterDur ==
  ASSUME DurInv, UNCHANGED walVars
  PROVE  DurInv'
<1>1. UNCHANGED <<w, dir, jobs, nextId, pc, run, rd, answer, acked, gone, faults, cmds>>
  BY DEF walVars
<1>2. \A j : /\ (Sure(j))' <=> Sure(j)
             /\ (SureBuried(j))' <=> SureBuried(j)
             /\ (SureGone(j))' <=> SureGone(j)
  BY <1>1 DEF Sure, SureBuried, SureGone, Relied, Done, Past, Exposed
<1>3. \A j : (Lasts(j))' <=> Lasts(j)
  BY <1>1, <1>2 DEF Lasts, Stays, Running
<1>4. \A j : (Absent(j))' <=> Absent(j)
  BY <1>1 DEF Absent
<1>5. KeptInv' /\ GoneInv'
  BY <1>2, <1>3, <1>4 DEF DurInv, KeptInv, GoneInv
<1>6. KnownInv' /\ CommandInv' /\ CurrentInv' /\ HalfInv' /\ InvalidInv'
  BY <1>1 DEF DurInv, KnownInv, CommandInv, CurrentInv, HalfInv, InvalidInv, Running, Relied, Subject
<1>7. FoundInv'
  BY <1>1 DEF DurInv, FoundInv, NextFileOf, NextRecOf
<1> QED BY <1>5, <1>6, <1>7 DEF DurInv

\* The invariant of the specification, when no job is over the limit that recovery applies.
LEMMA DurCorrect ==
  ASSUME TooBig = {}
  PROVE  WalSpec => [](FilesInv /\ LogInv /\ DurInv /\ UnloggedInv)
<1> DEFINE I == FilesInv /\ LogInv /\ DurInv /\ UnloggedInv
<1>1. WalStart => I
  <2>1. WalStart => UnloggedInv
    BY NoJobs DEF WalStart, UnloggedInv, Unlogged
  <2> QED BY <2>1, StartInv, StartsDur
<1>2. ASSUME I, [WalNext]_walVars PROVE I'
  <2>1. CASE WalNext
    <3>1. FilesInv' /\ LogInv'
      BY <1>2, <2>1, CommandsKeep, WorkKeeps, RecoveryKeeps DEF WalNext
    <3>2. DurInv'
      BY <1>2, <2>1, <3>1, CommandsDur, WorkDur, RecoveryDur DEF WalNext
    <3>3. UnloggedInv'
      BY <1>2, <2>1, CommandsUnlogged, WorkUnlogged, RecoveryUnlogged DEF WalNext
    <3> QED BY <3>1, <3>2, <3>3
  <2>2. CASE UNCHANGED walVars
    <3>1. UnloggedInv'
      BY <1>2, <2>2 DEF UnloggedInv, Unlogged, Still, Out, walVars
    <3> QED BY <1>2, <2>2, <3>1, StutterKeeps, StutterDur
  <2> QED BY <1>2, <2>1, <2>2
<1> QED BY <1>1, <1>2, PTL DEF WalSpec

\* When the server serves, each job that a client was told is INSERTED, and did not delete since,
\* is there with its body, and buried if BURIED was the last word on it: Durable, by WalWrite,
\* walMain, moveOne, a failed write, any crash and all that fileRead makes of the records.  As
\* Durable says, this leaves out the job in moveOne's hand when the process dies or a write fails
\* (InHand), jobs whose records are cut off an overdrawn file (Lost), a put that is answered
\* BURIED because its record could not be written, and what is told after a failed write, which
\* holds until the process ends and no longer (Unlogged).
THEOREM NothingLost ==
  ASSUME TooBig = {}
  PROVE  WalSpec => []Durable
<1>1. FilesInv /\ DurInv /\ UnloggedInv => Durable
  <2> SUFFICES ASSUME FilesInv, DurInv, UnloggedInv, pc = "idle", NEW j \in DOMAIN acked,
                      Relied(j) \/ acked[j] = "unlogged"
               PROVE  /\ j \in DOMAIN jobs /\ jobs[j].good /\ jobs[j].st # "invalid"
                      /\ acked[j] = "buried" => jobs[j].st = "buried"
    BY DEF Durable
  <2>1. Running /\ j \in Ids
    BY DEF Running, FilesInv, ClientTypes
  <2>2. CASE Relied(j)
    BY <2>1, <2>2 DEF DurInv, KnownInv
  <2>3. CASE acked[j] = "unlogged"
    <3>1. j \in Unlogged
      BY <2>3 DEF Unlogged
    <3> QED BY <2>3, <3>1 DEF UnloggedInv, Still
  <2> QED BY <2>2, <2>3
<1> QED BY <1>1, DurCorrect, PTL

\* A job whose delete was logged and answered DELETED does not come back with a restart, whatever
\* older records of it the directory holds: NoGhosts, by the order in which fileRead takes the
\* records, and walGc, which collects files from the first on.  The record of a delete that is
\* cut off an overdrawn file is left out (Lost); a job that is deleted after a failed write is
\* gone until the process ends and no longer (Unlogged).
THEOREM NothingRevived ==
  ASSUME TooBig = {}
  PROVE  WalSpec => []NoGhosts
<1>1. DurInv /\ UnloggedInv => NoGhosts
  <2> SUFFICES ASSUME DurInv, UnloggedInv, pc = "idle", NEW j \in DOMAIN jobs
               PROVE  j \notin gone /\ (j \in DOMAIN acked => acked[j] # "deleted")
    BY DEF NoGhosts
  <2>1. j \notin gone
    <3>1. Running
      BY DEF Running
    <3> QED BY <3>1 DEF DurInv, KnownInv
  <2>2. ASSUME j \in DOMAIN acked, acked[j] = "deleted" PROVE FALSE
    <3>1. j \in Unlogged
      BY <2>2 DEF Unlogged
    <3> QED BY <2>2, <3>1 DEF UnloggedInv, Out
  <2> QED BY <2>1, <2>2
<1> QED BY <1>1, DurCorrect, PTL
=============================================================================
