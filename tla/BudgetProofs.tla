---------------------------- MODULE BudgetProofs ----------------------------
(***************************************************************************)
(* The budget of the binlog: as long as no job is larger than a file       *)
(* (Roomy), what is reserved is found where it is needed, for any sizes of *)
(* files and records, any number of jobs, files and faults.                *)
(*                                                                         *)
(* FundsInv says that the log is Ready for what is Due: the current file   *)
(* holds it, every later file has a multiple of Short, and all of them add *)
(* up; that what a command has reserved is what it will write; and that an *)
(* error has had a cause.  The first part of the module is about multiples *)
(* and sums, the second about balance, round by round, the third about     *)
(* reserve and what a command makes of it; then there is one lemma for     *)
(* each action.                                                            *)
(***************************************************************************)
EXTENDS WalProofs

(* Multiples of the size of a short record.                                *)

Even(n) == \E q \in Int : n = Short * q

\* A multiple of Short is what is left after n % Short is taken away.
LEMMA Division ==
  ASSUME NEW n \in Nat
  PROVE  n % Short \in Int /\ n % Short >= 0 /\ n % Short < Short /\ Even(n - (n % Short))
<1> DEFINE q == n \div Short
           r == n % Short
<1>1. Short \in Nat /\ Short > 0
  BY Numbers
<1>2. r \in 0..(Short - 1)
  BY <1>1
<1>3. n = Short * q + r
  BY <1>1
<1>4. q \in Int
  BY <1>1
<1>5. Short * q \in Int
  BY <1>1, <1>4
<1> DEFINE m == Short * q
<1>6. m = Short * q /\ m \in Int /\ n = m + r
  BY <1>3, <1>5
<1> HIDE DEF m, r
<1>7. n - r = m
  BY <1>2, <1>6, <1>1
<1>8. Even(n - r)
  BY <1>4, <1>6, <1>7 DEF Even
<1> QED BY <1>1, <1>2, <1>8 DEF r

\* Sums and differences of multiples.
LEMMA EvenSum ==
  ASSUME NEW a \in Int, NEW b \in Int, Even(a), Even(b)
  PROVE  Even(a + b) /\ Even(a - b)
<1>1. PICK p \in Int : a = Short * p
  BY DEF Even
<1>2. PICK q \in Int : b = Short * q
  BY DEF Even
<1>3. a + b = Short * (p + q) /\ a - b = Short * (p - q)
  BY <1>1, <1>2, Numbers
<1>4. p + q \in Int /\ p - q \in Int
  OBVIOUS
<1> QED BY <1>3, <1>4 DEF Even

\* Zero and Short are multiples.
LEMMA EvenUnits == Even(0) /\ Even(Short)
<1>1. 0 = Short * 0 /\ Short = Short * 1
  BY Numbers
<1> QED BY <1>1 DEF Even

\* A multiple that is smaller than Short is zero, one that is more than zero is not smaller.
LEMMA EvenSmall ==
  ASSUME NEW a \in Int, Even(a)
  PROVE  /\ a < Short /\ a > 0 - Short => a = 0
         /\ a > 0 => a >= Short
<1>1. PICK p \in Int : a = Short * p
  BY DEF Even
<1>2. p >= 1 => Short * p >= Short
  BY Numbers
<1>3. p <= 0 - 1 => Short * p <= 0 - Short
  BY Numbers
<1>4. p = 0 => Short * p = 0
  BY Numbers
<1>5. p = 0 \/ p >= 1 \/ p <= 0 - 1
  OBVIOUS
<1> QED BY <1>1, <1>2, <1>3, <1>4, <1>5, Numbers

\* The remainder is the only number below Short that leaves a multiple.
LEMMA Remainder ==
  ASSUME NEW n \in Int, n >= 0, NEW d \in Int, d >= 0, d < Short, Even(n - d)
  PROVE  Rest(n) = d /\ n % Short = d
<1>1. n \in Nat
  OBVIOUS
<1> DEFINE r == n % Short
<1>2. r \in Int /\ r >= 0 /\ r < Short /\ Even(n - r)
  BY <1>1, Division
<1>3. Rest(n) = r
  BY DEF Rest
<1> HIDE DEF r
<1>4. n - d \in Int /\ n - r \in Int
  BY <1>2
<1>5. Even((n - r) - (n - d))
  BY <1>2, <1>4, EvenSum
<1>6. (n - r) - (n - d) = d - r
  BY <1>2
<1>7. d - r \in Int /\ d - r < Short /\ d - r > 0 - Short
  BY <1>2, Numbers
<1>8. d - r = 0
  BY <1>5, <1>6, <1>7, EvenSmall
<1> QED BY <1>2, <1>3, <1>8 DEF r

\* What Rest makes of a number that is not negative.
LEMMA RestIs ==
  ASSUME NEW n \in Int, n >= 0
  PROVE  Rest(n) \in Int /\ Rest(n) >= 0 /\ Rest(n) < Short /\ Even(n - Rest(n)) /\ Rest(n) <= n
<1>1. n \in Nat
  OBVIOUS
<1> DEFINE r == n % Short
<1>2. r \in Int /\ r >= 0 /\ r < Short /\ Even(n - r)
  BY <1>1, Division
<1>3. Rest(n) = r
  BY DEF Rest
<1> HIDE DEF r
<1>4. r <= n
  <2> SUFFICES ASSUME ~(r <= n) PROVE FALSE
    OBVIOUS
  <2>1. n - r \in Int /\ n - r < Short /\ n - r > 0 - Short /\ n - r # 0
    BY <1>2, Numbers
  <2> QED BY <1>2, <2>1, EvenSmall
<1> QED BY <1>2, <1>3, <1>4

-----------------------------------------------------------------------------
(* What is reserved of all files that are open.                            *)

\* What counts for file g.
Part(v, g) == IF g \in v.open THEN v.resv[g] ELSE 0

\* s[g] is what is reserved of the files up to g.
Adds(v, s) ==
  /\ s \in [0..MaxFiles -> Int] /\ s[0] = 0
  /\ \A g \in Files : s[g] = s[g - 1] + Part(v, g)

\* Wal.Resv is the sum of what is reserved of each file.
Totals(v) == \E s : Adds(v, s) /\ s[MaxFiles] = v.total

\* What is reserved of one file changes.
LEMMA AddsMore ==
  ASSUME NEW v \in WalRec, NEW u \in WalRec, NEW f \in Files, NEW n \in Int,
         Part(u, f) = Part(v, f) + n, \A g \in Files : g # f => Part(u, g) = Part(v, g),
         Totals(v), u.total = v.total + n
  PROVE  Totals(u)
<1>1. PICK s : Adds(v, s) /\ s[MaxFiles] = v.total
  BY DEF Totals
<1> DEFINE t == [g \in 0..MaxFiles |-> IF g >= f THEN s[g] + n ELSE s[g]]
<1>2. f \in Nat /\ f >= 1 /\ f <= MaxFiles /\ MaxFiles \in Nat
  BY Numbers
<1>3. s \in [0..MaxFiles -> Int] /\ s[0] = 0
  BY <1>1 DEF Adds
<1>4. t \in [0..MaxFiles -> Int]
  BY <1>3
<1>5. t[0] = 0
  BY <1>2, <1>3
<1>6. t[MaxFiles] = s[MaxFiles] + n
  BY <1>2
<1>7. ASSUME NEW g \in Files PROVE t[g] = t[g - 1] + Part(u, g)
  <2>1. g \in Nat /\ g >= 1 /\ g <= MaxFiles /\ g - 1 \in 0..MaxFiles /\ g \in 0..MaxFiles
    BY <1>2, Numbers
  <2>2. s[g] = s[g - 1] + Part(v, g) /\ s[g] \in Int /\ s[g - 1] \in Int
    BY <1>1, <1>3, <2>1 DEF Adds
  <2>3. Part(v, g) \in Int
    BY FileFields DEF Part
  <2>4. t[g] = (IF g >= f THEN s[g] + n ELSE s[g]) /\ t[g - 1] = IF g - 1 >= f THEN s[g - 1] + n ELSE s[g - 1]
    BY <2>1
  <2> HIDE DEF t
  <2>5. CASE g = f
    <3>1. t[g] = s[g] + n /\ t[g - 1] = s[g - 1]
      BY <1>2, <2>4, <2>5
    <3> QED BY <2>2, <2>3, <2>5, <3>1
  <2>6. CASE g # f
    <3>1. Part(u, g) = Part(v, g)
      BY <2>6
    <3>2. (g >= f /\ g - 1 >= f) \/ (~(g >= f) /\ ~(g - 1 >= f))
      BY <1>2, <2>1, <2>6
    <3> QED BY <2>2, <2>3, <2>4, <3>1, <3>2
  <2> QED BY <2>5, <2>6
<1> HIDE DEF t
<1>8. Adds(u, t) /\ t[MaxFiles] = u.total
  BY <1>1, <1>4, <1>5, <1>6, <1>7 DEF Adds
<1> QED BY <1>8 DEF Totals

\* Nothing that counts changes.
LEMMA AddsSame ==
  ASSUME NEW v, NEW u, \A g \in Files : Part(u, g) = Part(v, g), u.total = v.total, Totals(v)
  PROVE  Totals(u)
<1>1. PICK s : Adds(v, s) /\ s[MaxFiles] = v.total
  BY DEF Totals
<1>2. Adds(u, s)
  BY <1>1 DEF Adds
<1> QED BY <1>1, <1>2 DEF Totals

\* If something is reserved, then of some file.
LEMMA SomeReserved ==
  ASSUME NEW v \in WalRec, Totals(v), v.total > 0, \A f \in v.open : v.resv[f] >= 0
  PROVE  \E f \in v.open : v.resv[f] > 0
<1> SUFFICES ASSUME \A f \in v.open : ~(v.resv[f] > 0) PROVE FALSE
  OBVIOUS
<1>1. PICK s : Adds(v, s) /\ s[MaxFiles] = v.total
  BY DEF Totals
<1>2. \A g \in Files : Part(v, g) = 0
  <2>1. \A g \in v.open : v.resv[g] = 0
    BY FileFields, WalFields
  <2> QED BY <2>1 DEF Part
<1> DEFINE X == {0}
<1>3. s[0] \in X /\ \A g \in 1..MaxFiles : s[g - 1] \in X => s[g] \in X
  <2>1. \A g \in 1..MaxFiles : s[g] = s[g - 1] + 0
    BY <1>1, <1>2 DEF Adds, Files
  <2> QED BY <1>1, <2>1 DEF Adds
<1>4. MaxFiles \in Nat
  BY Numbers
<1> HIDE DEF X
<1>5. s[MaxFiles] \in X
  BY <1>3, <1>4, LoopStays
<1> QED BY <1>1, <1>5 DEF X

-----------------------------------------------------------------------------
(* The budget of the files that are open.                                  *)

\* No file is overdrawn; the files after the current one are not written yet, and something is
\* reserved of each of them but the last.
Solid(v) ==
  /\ \A f \in v.open : v.free[f] >= 0 /\ v.resv[f] >= 0
  /\ \A f \in v.open : f > v.cur => v.free[f] + v.resv[f] = Cap
  /\ \A f, g \in v.open : f > v.cur /\ g > f => v.resv[f] > 0
  /\ Totals(v)

Evens(v) == \A f \in v.open : f > v.cur => Even(v.resv[f])

\* Beside n bytes of the current file there are multiples of Short in each.
Ready(v, n) ==
  /\ Solid(v) /\ Evens(v)
  /\ v.resv[v.cur] >= n /\ Even(v.resv[v.cur] - n)

\* What files are the same for a budget.
Equal(v, u) ==
  /\ u.open = v.open /\ u.cur = v.cur /\ u.total = v.total
  /\ \A f \in v.open : u.free[f] = v.free[f] /\ u.resv[f] = v.resv[f]

\* They have the same budget.
LEMMA EqualBudget ==
  ASSUME NEW v, NEW u, Equal(v, u), v.cur \in v.open
  PROVE  /\ Solid(v) => Solid(u)
         /\ Evens(v) => Evens(u)
         /\ \A n : Ready(v, n) => Ready(u, n)
<1>1. \A g \in Files : Part(u, g) = Part(v, g)
  BY DEF Part, Equal
<1>2. Totals(v) => Totals(u)
  BY <1>1, AddsSame DEF Equal
<1>3. Solid(v) => Solid(u)
  BY <1>2 DEF Solid, Equal
<1>4. Evens(v) => Evens(u)
  BY DEF Evens, Equal
<1>5. u.resv[u.cur] = v.resv[v.cur]
  BY DEF Equal
<1> QED BY <1>3, <1>4, <1>5 DEF Ready

\* The numbers of files that are open.
LEMMA OpenNumbers ==
  ASSUME NEW v, Writing(v)
  PROVE  /\ v \in WalRec /\ v.open \subseteq Files /\ v.cur \in v.open
         /\ TailFile(v) \in v.open
         /\ \A f \in v.open : /\ f \in Nat /\ v.free[f] \in Int /\ v.resv[f] \in Int
                              /\ v.cur <= f /\ f <= TailFile(v) /\ f < v.next
<1>1. v \in WalRec /\ Chain(v)
  BY DEF Writing, Chain
<1>2. v.open \subseteq Files
  BY <1>1, WalFields
<1>3. TailFile(v) \in v.open /\ v.cur \in v.open /\ Len(v.files) \in Nat \ {0}
  BY TailIsOpen
<1> SUFFICES ASSUME NEW f \in v.open
             PROVE  /\ f \in Nat /\ v.free[f] \in Int /\ v.resv[f] \in Int
                    /\ v.cur <= f /\ f <= TailFile(v) /\ f < v.next
  BY <1>1, <1>2, <1>3
<1>4. f \in Nat /\ v.free[f] \in Int /\ v.resv[f] \in Int
  BY <1>1, <1>2, FileFields
<1>5. v.cur <= f /\ Listed(v, f)
  BY <1>2, <1>4, WalFields, <1>1 DEF Writing
<1> DEFINE n == Len(v.files)
<1>6. PICK i \in DOMAIN v.files : v.files[i] = f
  BY <1>5 DEF Listed
<1>7. v.files \in Seq(Files) /\ DOMAIN v.files = 1..n /\ n \in 1..n
  BY <1>1, <1>3, WalFields
<1>8. i < n => v.files[i] < v.files[n]
  BY <1>1, <1>7 DEF Chain
<1>9. v.files[n] \in Nat /\ TailFile(v) = v.files[n]
  BY <1>7, Numbers DEF TailFile
<1>10. f <= TailFile(v)
  <2>1. i = n \/ i < n
    BY <1>7
  <2> HIDE DEF n
  <2> QED BY <1>4, <1>6, <1>8, <1>9, <2>1
<1>11. f < v.next
  BY <1>1, <1>6 DEF Chain
<1> QED BY <1>4, <1>5, <1>10, <1>11

\* Space of one file is reserved.
LEMMA TakeValues ==
  ASSUME NEW v, Writing(v), NEW f0 \in v.open, NEW n \in Int, NEW u, u = Take(v, f0, n)
  PROVE  /\ Writing(u) /\ u.open = v.open /\ u.cur = v.cur /\ u.files = v.files /\ u.next = v.next
         /\ u.room = v.room /\ u.ok = v.ok /\ u.stuck = v.stuck /\ u.torn = v.torn
         /\ u.total = v.total + n
         /\ u.resv[f0] = v.resv[f0] + n /\ u.free[f0] = v.free[f0] - n
         /\ \A f \in Files : f # f0 => u.free[f] = v.free[f] /\ u.resv[f] = v.resv[f]
         /\ Totals(v) => Totals(u)
<1>1. v \in WalRec /\ f0 \in Files
  BY WalFields DEF Writing, Chain
<1>2. v.free \in [Files -> Int] /\ v.resv \in [Files -> Int] /\ v.total \in Int
  BY <1>1, WalFields
<1> DEFINE r == [v.resv EXCEPT ![f0] = @ + n]
           f == [v.free EXCEPT ![f0] = @ - n]
           t == v.total + n
<1>3. u = [v EXCEPT !.resv = r, !.free = f, !.total = t]
  BY <1>1 DEF Take, WalRec
<1>4. r[f0] = v.resv[f0] + n /\ f[f0] = v.free[f0] - n
      /\ \A g \in Files : g # f0 => f[g] = v.free[g] /\ r[g] = v.resv[g]
  BY <1>1, <1>2
<1> HIDE DEF r, f, t
<1>5. /\ u.open = v.open /\ u.cur = v.cur /\ u.files = v.files /\ u.next = v.next
      /\ u.room = v.room /\ u.ok = v.ok /\ u.stuck = v.stuck /\ u.torn = v.torn
      /\ u.total = t /\ u.resv = r /\ u.free = f
  BY <1>1, <1>3 DEF WalRec
<1>6. Writing(u) /\ u \in WalRec
  BY TakeFields DEF Writing, Chain
<1>7. Part(u, f0) = Part(v, f0) + n /\ \A g \in Files : g # f0 => Part(u, g) = Part(v, g)
  BY <1>1, <1>4, <1>5 DEF Part
<1>8. Totals(v) => Totals(u)
  <2>1. u.total = v.total + n
    BY <1>5 DEF t
  <2> HIDE <1>5
  <2> QED BY <1>1, <1>6, <1>7, <2>1, AddsMore
<1> QED BY <1>4, <1>5, <1>6, <1>8 DEF t

\* Reserved space moves from one file to another.
LEMMA MoveValues ==
  ASSUME NEW v, Writing(v), NEW to \in v.open, NEW from \in v.open, to # from, NEW n \in Int,
         NEW u, u = moveResv(v, to, from, n)
  PROVE  /\ Writing(u) /\ u.open = v.open /\ u.cur = v.cur /\ u.files = v.files /\ u.next = v.next
         /\ u.room = v.room /\ u.ok = v.ok /\ u.stuck = v.stuck /\ u.torn = v.torn
         /\ u.total = v.total
         /\ u.resv[to] = v.resv[to] + n /\ u.free[to] = v.free[to] - n
         /\ u.resv[from] = v.resv[from] - n /\ u.free[from] = v.free[from] + n
         /\ \A f \in Files : f # to /\ f # from => u.free[f] = v.free[f] /\ u.resv[f] = v.resv[f]
         /\ Totals(v) => Totals(u)
<1>1. v \in WalRec /\ to \in Files /\ from \in Files
  BY WalFields DEF Writing, Chain
<1>2. v.free \in [Files -> Int] /\ v.resv \in [Files -> Int] /\ v.total \in Int
  BY <1>1, WalFields
<1> DEFINE r1 == [v.resv EXCEPT ![from] = @ - n]
           f1 == [v.free EXCEPT ![from] = @ + n]
           r2 == [r1 EXCEPT ![to] = @ + n]
           f2 == [f1 EXCEPT ![to] = @ - n]
<1>3. u = [v EXCEPT !.resv = r2, !.free = f2]
  BY <1>1 DEF moveResv, WalRec
<1>4. /\ r2[to] = v.resv[to] + n /\ f2[to] = v.free[to] - n
      /\ r2[from] = v.resv[from] - n /\ f2[from] = v.free[from] + n
      /\ \A g \in Files : g # to /\ g # from => f2[g] = v.free[g] /\ r2[g] = v.resv[g]
  BY <1>1, <1>2
<1> HIDE DEF r1, f1, r2, f2
<1>5. u.resv = r2 /\ u.free = f2
  BY <1>1, <1>3 DEF WalRec
<1>6. Writing(u) /\ Resources(v, u) /\ u.ok = v.ok /\ u.stuck = v.stuck /\ u \in WalRec
  <2>1. Writing(u) /\ Resources(v, u) /\ u.ok = v.ok /\ u.stuck = v.stuck
    BY MoveResv
  <2> QED BY <2>1 DEF Writing, Chain
<1>7. Totals(v) => Totals(u)
  <2> SUFFICES ASSUME Totals(v) PROVE Totals(u)
    OBVIOUS
  <2> DEFINE m == 0 - n
             x == Take(v, from, m)
  <2>1. /\ Writing(x) /\ x.open = v.open /\ x.total = v.total + m
        /\ x.resv[from] = v.resv[from] + m
        /\ \A f \in Files : f # from => x.resv[f] = v.resv[f]
        /\ Totals(x)
    BY TakeValues
  <2> HIDE DEF x
  <2>2. x \in WalRec
    BY <2>1 DEF Writing, Chain
  <2>3. v.resv[from] + m = v.resv[from] - n /\ v.total + m + n = v.total
    BY <1>1, <1>2
  <2>4. u.total = x.total + n
    BY <1>6, <2>1, <2>3 DEF Resources
  <2>5. u.open = x.open
    BY <1>6, <2>1 DEF Resources
  <2>6. Part(u, to) = Part(x, to) + n
    BY <1>1, <1>4, <1>5, <2>1, <2>5 DEF Part
  <2>7. \A g \in Files : g # to => Part(u, g) = Part(x, g)
    BY <1>1, <1>4, <1>5, <2>1, <2>3, <2>5 DEF Part
  <2> QED BY <1>1, <1>6, <2>1, <2>2, <2>4, <2>6, <2>7, AddsMore
<1> QED BY <1>4, <1>5, <1>6, <1>7 DEF Resources

\* A file is added with nothing reserved.
Grown(v, u) ==
  LET g == v.next
  IN  /\ g \in Files /\ g \notin v.open /\ \A f \in v.open : f < g
      /\ u.open = v.open \cup {g} /\ TailFile(u) = g /\ u.files = Append(v.files, g)
      /\ u.free[g] = Cap /\ u.resv[g] = 0
      /\ \A f \in v.open : u.free[f] = v.free[f] /\ u.resv[f] = v.resv[f]

\* What makeNextFile does.
LEMMA MakeValues ==
  ASSUME NEW v, Writing(v), NEW u, u = makeNextFile(v)
  PROVE  /\ Writing(u) /\ u.cur = v.cur /\ u.stuck = v.stuck /\ u.torn = v.torn
         /\ u.total = v.total /\ Len(u.files) + u.room = Len(v.files) + v.room
         /\ u.next >= v.next
         /\ Totals(v) => Totals(u)
         /\ IF u.ok THEN Grown(v, u)
            ELSE /\ u.open = v.open /\ u.files = v.files
                 /\ \A f \in v.open : u.free[f] = v.free[f] /\ u.resv[f] = v.resv[f]
<1>1. /\ Writing(u) /\ u.total = v.total /\ u.cur = v.cur
      /\ u.stuck = v.stuck /\ u.torn = v.torn
      /\ Len(u.files) + u.room = Len(v.files) + v.room /\ u.next >= v.next
  BY MakeNext DEF Grows
<1>2. v \in WalRec /\ Chain(v) /\ u \in WalRec
  BY <1>1 DEF Writing, Chain
<1>3. CASE v.room = 0
  <2>1. u = [v EXCEPT !.ok = FALSE]
    BY <1>2, <1>3, NoRoom
  <2>2. ~u.ok /\ u.open = v.open /\ u.files = v.files /\ u.free = v.free /\ u.resv = v.resv
    BY <1>2, <2>1 DEF WalRec
  <2>3. Totals(v) => Totals(u)
    BY <1>1, <2>2, AddsSame DEF Part
  <2> QED BY <1>1, <2>2, <2>3
<1>4. CASE v.room # 0
  <2>1. v.next \in Files
    BY <1>2, <1>4, ChainNext
  <2>2. /\ u.files = Append(v.files, v.next) /\ u.ok /\ u.open = v.open \cup {v.next}
        /\ u.free = [v.free EXCEPT ![v.next] = FileSize - Header]
        /\ u.resv = [v.resv EXCEPT ![v.next] = 0]
    <3>1. v \in WalRec /\ v.next \in Files
      BY <1>2, <2>1
    <3>2. u = makeNextFile(v)
      OBVIOUS
    <3> QED BY <1>4, <3>1, <3>2, NextFields, SMTT(30)
  <2>3. \A f \in v.open : f < v.next /\ f # v.next /\ f \in Files
    <3>1. \A f \in v.open : f < v.next /\ f \in Files /\ f \in Nat
      BY OpenNumbers
    <3>2. v.next \in Nat
      BY <1>2, WalFields
    <3> QED BY <3>1, <3>2
  <2>4. v.free \in [Files -> Int] /\ v.resv \in [Files -> Int] /\ v.files \in Seq(Files)
    BY <1>2, WalFields
  <2>5. u.free[v.next] = Cap /\ u.resv[v.next] = 0
    BY <2>1, <2>2, <2>4 DEF Cap
  <2>6. \A f \in v.open : u.free[f] = v.free[f] /\ u.resv[f] = v.resv[f]
    BY <2>2, <2>3, <2>4
  <2>7. TailFile(u) = v.next
    <3>1. Len(Append(v.files, v.next)) = Len(v.files) + 1
          /\ Append(v.files, v.next)[Len(v.files) + 1] = v.next
      BY <2>1, <2>4
    <3> QED BY <2>2, <3>1 DEF TailFile
  <2>8. \A g \in Files : Part(u, g) = Part(v, g)
    BY <2>2, <2>3, <2>5, <2>6 DEF Part
  <2>9. Totals(v) => Totals(u)
    BY <1>1, <2>8, AddsSame
  <2>10. Grown(v, u)
    BY <2>1, <2>2, <2>3, <2>5, <2>6, <2>7 DEF Grown
  <2> QED BY <1>1, <2>2, <2>9, <2>10
<1> QED BY <1>3, <1>4

\* needFree leaves the files as they are, or adds one because there is not enough at the tail.
LEMMA NeedValues ==
  ASSUME NEW v, Writing(v), NEW n \in Int, NEW u, u = needFree(v, n)
  PROVE  /\ Writing(u) /\ u.cur = v.cur /\ u.stuck = v.stuck /\ u.torn = v.torn
         /\ u.total = v.total /\ Len(u.files) + u.room = Len(v.files) + v.room
         /\ u.next >= v.next
         /\ Totals(v) => Totals(u)
         /\ \/ /\ u.open = v.open /\ u.files = v.files
               /\ \A f \in v.open : u.free[f] = v.free[f] /\ u.resv[f] = v.resv[f]
               /\ u.ok => v.free[TailFile(v)] >= n
            \/ u.ok /\ v.free[TailFile(v)] < n /\ Grown(v, u)
<1>1. CASE v.free[TailFile(v)] >= n
  <2>1. u = [v EXCEPT !.ok = TRUE]
    BY <1>1 DEF needFree
  <2>2. v \in WalRec
    BY DEF Writing, Chain
  <2>3. u \in WalRec /\ Resources(v, u) /\ u.free = v.free /\ u.resv = v.resv /\ u.stuck = v.stuck
    BY <2>1, <2>2 DEF WalRec, Resources
  <2>4. Writing(u)
    BY <2>3, ResourcesGrow
  <2>5. Totals(v) => Totals(u)
    BY <2>3, AddsSame DEF Part, Resources
  <2>6. u.next >= v.next
    BY <2>2, <2>3, WalFields DEF Resources
  <2> QED BY <1>1, <2>3, <2>4, <2>5, <2>6 DEF Resources
<1>2. CASE ~(v.free[TailFile(v)] >= n)
  <2>1. u = makeNextFile(v)
    BY <1>2 DEF needFree
  <2>2. v.free[TailFile(v)] < n
    BY <1>2, OpenNumbers
  <2>3. /\ Writing(u) /\ u.cur = v.cur /\ u.stuck = v.stuck /\ u.torn = v.torn
        /\ u.total = v.total /\ Len(u.files) + u.room = Len(v.files) + v.room
        /\ u.next >= v.next
        /\ Totals(v) => Totals(u)
        /\ IF u.ok THEN Grown(v, u)
           ELSE /\ u.open = v.open /\ u.files = v.files
                /\ \A f \in v.open : u.free[f] = v.free[f] /\ u.resv[f] = v.resv[f]
    BY <2>1, MakeValues
  <2> QED BY <2>2, <2>3
<1> QED BY <1>1, <1>2

\* With nothing reserved of it any more, the current file is left for the next.
LEMMA NextValues ==
  ASSUME NEW v, Writing(v), HasNext(v), NEW u, u = useNext(v)
  PROVE  /\ Writing(u) /\ u.ok /\ u.stuck = v.stuck /\ u.torn = v.torn /\ u.total = v.total
         /\ u.next = v.next /\ u.room = v.room
         /\ u.cur = NextFile(v) /\ u.cur > v.cur /\ u.cur \in v.open
         /\ u.open = v.open \ {v.cur} /\ u.free = v.free /\ u.resv = v.resv
         /\ \A f \in v.open : f > v.cur => f >= u.cur
         /\ v.resv[v.cur] = 0 /\ Solid(v) => Solid(u)
         /\ Evens(v) => Evens(u) /\ Even(u.resv[u.cur])
<1>1. /\ Writing(u) /\ u.ok /\ u.stuck = v.stuck /\ u.torn = v.torn /\ u.total = v.total
      /\ u.next = v.next /\ u.room = v.room /\ u.cur = NextFile(v)
      /\ u.open = v.open \ {v.cur} /\ u.free = v.free /\ u.resv = v.resv
  BY UseNext
<1>2. /\ u.cur \in Files /\ Listed(v, u.cur) /\ u.cur > v.cur
      /\ \A f \in Files : Listed(v, f) /\ f > v.cur => f >= u.cur
  BY <1>1, NextIs
<1>3. v \in WalRec /\ v.open \subseteq Files /\ v.cur \in v.open
      /\ \A f \in v.open : f \in Nat /\ v.resv[f] \in Int
  BY OpenNumbers
<1>4. u.cur \in v.open /\ u.cur \in Nat
  BY <1>2, <1>3, Numbers DEF Writing
<1>5. \A f \in v.open : f > v.cur => f >= u.cur
  BY <1>2, <1>3 DEF Writing
<1>6. \A f \in u.open : f \in v.open /\ f \in Nat /\ (f > u.cur => f > v.cur)
  BY <1>1, <1>2, <1>3, <1>4
<1>7. ASSUME v.resv[v.cur] = 0, Solid(v) PROVE Solid(u)
  <2>1. \A g \in Files : Part(u, g) = Part(v, g)
    BY <1>1, <1>7 DEF Part
  <2>2. Totals(u)
    BY <1>1, <1>7, <2>1, AddsSame DEF Solid
  <2> QED BY <1>1, <1>6, <1>7, <2>2 DEF Solid
<1>8. Evens(v) => Evens(u) /\ Even(u.resv[u.cur])
  BY <1>1, <1>2, <1>4, <1>6 DEF Evens
<1> QED BY <1>1, <1>2, <1>4, <1>5, <1>7, <1>8

\* Space moves to the tail.
LEMMA SolidToTail ==
  ASSUME NEW v, Writing(v), Solid(v), NEW from \in v.open, from # TailFile(v),
         NEW n \in Int, n >= 0, n <= v.resv[from], n <= v.free[TailFile(v)],
         from = v.cur \/ n < v.resv[from],
         NEW u, u = moveResv(v, TailFile(v), from, n)
  PROVE  Solid(u)
<1> DEFINE t == TailFile(v)
<1>1. t \in v.open /\ v.open \subseteq Files /\ v.cur \in Nat
      /\ \A f \in v.open : /\ f \in Nat /\ v.free[f] \in Int /\ v.resv[f] \in Int
                           /\ v.cur <= f /\ f <= t
  BY OpenNumbers
<1> HIDE DEF t
<1>2. /\ u.open = v.open /\ u.cur = v.cur
      /\ u.resv[t] = v.resv[t] + n /\ u.free[t] = v.free[t] - n
      /\ u.resv[from] = v.resv[from] - n /\ u.free[from] = v.free[from] + n
      /\ \A f \in Files : f # t /\ f # from => u.free[f] = v.free[f] /\ u.resv[f] = v.resv[f]
      /\ Totals(u)
  <2>1. u = moveResv(v, t, from, n) /\ t # from
    BY DEF t
  <2>2. Totals(v)
    BY DEF Solid
  <2> DEFINE x == moveResv(v, t, from, n)
  <2>0. t \in v.open
    BY <1>1
  <2> HIDE <1>1
  <2>3. x.open = v.open /\ x.cur = v.cur /\ Totals(x)
    BY <2>0, <2>1, <2>2, MoveValues
  <2>4. x.resv[t] = v.resv[t] + n /\ x.free[t] = v.free[t] - n
    BY <2>0, <2>1, MoveValues
  <2>5. x.resv[from] = v.resv[from] - n /\ x.free[from] = v.free[from] + n
    BY <2>0, <2>1, MoveValues
  <2>6. \A f \in Files : f # t /\ f # from => x.free[f] = v.free[f] /\ x.resv[f] = v.resv[f]
    BY <2>0, <2>1, MoveValues
  <2> HIDE DEF x
  <2> QED BY <2>1, <2>3, <2>4, <2>5, <2>6 DEF x
<1>3. \A f \in v.open : v.free[f] >= 0 /\ v.resv[f] >= 0
  BY DEF Solid
<1>4. n <= v.free[t] /\ t # from
  BY DEF t
<1>5. ASSUME NEW f \in v.open
      PROVE  /\ u.free[f] >= 0 /\ u.resv[f] >= 0
             /\ f > v.cur => u.free[f] + u.resv[f] = Cap
             /\ \A g \in v.open : f > v.cur /\ g > f => u.resv[f] > 0
  <2>1. /\ f > v.cur => v.free[f] + v.resv[f] = Cap
        /\ \A g \in v.open : f > v.cur /\ g > f => v.resv[f] > 0
    BY DEF Solid
  <2>2. f \in Nat /\ v.free[f] \in Int /\ v.resv[f] \in Int /\ v.free[f] >= 0 /\ v.resv[f] >= 0
    BY <1>1, <1>3
  <2>3. CASE f = t
    <3>1. \A g \in v.open : ~(g > f)
      BY <1>1, <2>3
    <3>2. u.resv[f] = v.resv[f] + n /\ u.free[f] = v.free[f] - n /\ n <= v.free[f]
      BY <1>2, <1>4, <2>3
    <3> QED BY <2>1, <2>2, <3>1, <3>2
  <2>4. CASE f = from
    <3>1. u.resv[f] = v.resv[f] - n /\ u.free[f] = v.free[f] + n
      BY <1>2, <2>4
    <3>2. f > v.cur => n < v.resv[f]
      BY <1>1, <2>4
    <3>3. n <= v.resv[f]
      BY <2>4
    <3> QED BY <2>1, <2>2, <3>1, <3>2, <3>3
  <2>5. CASE f # t /\ f # from
    BY <1>1, <1>2, <2>1, <2>2, <2>5
  <2> QED BY <2>3, <2>4, <2>5
<1> QED BY <1>2, <1>5 DEF Solid

\* Space moves from the tail.
LEMMA SolidFromTail ==
  ASSUME NEW v, Writing(v), Solid(v), NEW to \in v.open, to # TailFile(v),
         NEW n \in Int, n >= 0, n <= v.resv[TailFile(v)], n <= v.free[to],
         NEW u, u = moveResv(v, to, TailFile(v), n)
  PROVE  Solid(u)
<1> DEFINE t == TailFile(v)
<1>1. t \in v.open /\ v.open \subseteq Files /\ v.cur \in Nat
      /\ \A f \in v.open : /\ f \in Nat /\ v.free[f] \in Int /\ v.resv[f] \in Int
                           /\ v.cur <= f /\ f <= t
  BY OpenNumbers
<1> HIDE DEF t
<1>2. /\ u.open = v.open /\ u.cur = v.cur
      /\ u.resv[t] = v.resv[t] - n /\ u.free[t] = v.free[t] + n
      /\ u.resv[to] = v.resv[to] + n /\ u.free[to] = v.free[to] - n
      /\ \A f \in Files : f # t /\ f # to => u.free[f] = v.free[f] /\ u.resv[f] = v.resv[f]
      /\ Totals(u)
  <2>1. u = moveResv(v, to, t, n) /\ to # t
    BY DEF t
  <2>2. Totals(v)
    BY DEF Solid
  <2> DEFINE x == moveResv(v, to, t, n)
  <2>0. t \in v.open
    BY <1>1
  <2> HIDE <1>1
  <2>3. x.open = v.open /\ x.cur = v.cur /\ Totals(x)
    BY <2>0, <2>1, <2>2, MoveValues
  <2>4. x.resv[to] = v.resv[to] + n /\ x.free[to] = v.free[to] - n
    BY <2>0, <2>1, MoveValues
  <2>5. x.resv[t] = v.resv[t] - n /\ x.free[t] = v.free[t] + n
    BY <2>0, <2>1, MoveValues
  <2>6. \A f \in Files : f # to /\ f # t => x.free[f] = v.free[f] /\ x.resv[f] = v.resv[f]
    BY <2>0, <2>1, MoveValues
  <2> HIDE DEF x
  <2> QED BY <2>1, <2>3, <2>4, <2>5, <2>6 DEF x
<1>3. \A f \in v.open : v.free[f] >= 0 /\ v.resv[f] >= 0
  BY DEF Solid
<1>4. n <= v.resv[t] /\ t # to
  BY DEF t
<1>5. ASSUME NEW f \in v.open
      PROVE  /\ u.free[f] >= 0 /\ u.resv[f] >= 0
             /\ f > v.cur => u.free[f] + u.resv[f] = Cap
             /\ \A g \in v.open : f > v.cur /\ g > f => u.resv[f] > 0
  <2>1. /\ f > v.cur => v.free[f] + v.resv[f] = Cap
        /\ \A g \in v.open : f > v.cur /\ g > f => v.resv[f] > 0
    BY DEF Solid
  <2>2. f \in Nat /\ v.free[f] \in Int /\ v.resv[f] \in Int /\ v.free[f] >= 0 /\ v.resv[f] >= 0
    BY <1>1, <1>3
  <2>3. CASE f = t
    <3>1. \A g \in v.open : ~(g > f)
      BY <1>1, <2>3
    <3>2. u.resv[f] = v.resv[f] - n /\ u.free[f] = v.free[f] + n /\ n <= v.resv[f]
      BY <1>2, <1>4, <2>3
    <3> QED BY <2>1, <2>2, <3>1, <3>2
  <2>4. CASE f = to
    <3>1. u.resv[f] = v.resv[f] + n /\ u.free[f] = v.free[f] - n /\ n <= v.free[f]
      BY <1>2, <2>4
    <3> QED BY <2>1, <2>2, <3>1
  <2>5. CASE f # t /\ f # to
    BY <1>1, <1>2, <2>1, <2>2, <2>5
  <2> QED BY <2>3, <2>4, <2>5
<1> QED BY <1>2, <1>5 DEF Solid

\* A file is added behind one of which something is reserved.
LEMMA SolidGrown ==
  ASSUME NEW v, Writing(v), Solid(v), NEW u, Grown(v, u), u.cur = v.cur, Totals(u),
         TailFile(v) = v.cur \/ v.resv[TailFile(v)] > 0, Cap >= 0
  PROVE  Solid(u)
<1> DEFINE t == TailFile(v)
           x == v.next
<1>1. t \in v.open /\ v.cur \in Nat
      /\ \A f \in v.open : /\ f \in Nat /\ v.free[f] \in Int /\ v.resv[f] \in Int
                           /\ v.cur <= f /\ f <= t
  BY OpenNumbers
<1>2. t = v.cur \/ v.resv[t] > 0
  OBVIOUS
<1>3. /\ x \in Nat /\ \A f \in v.open : f < x
      /\ u.open = v.open \cup {x} /\ u.free[x] = Cap /\ u.resv[x] = 0
      /\ \A f \in v.open : u.free[f] = v.free[f] /\ u.resv[f] = v.resv[f]
  BY Numbers DEF Grown
<1> HIDE DEF t, x
<1>4. Cap \in Int
  BY Numbers DEF Cap
<1>5. ASSUME NEW f \in v.open, NEW g \in u.open, f > v.cur, g > f PROVE u.resv[f] > 0
  <2>1. CASE f = t
    BY <1>1, <1>2, <1>3, <1>5, <2>1
  <2>2. CASE f # t
    <3>1. t > f
      BY <1>1, <2>2
    <3> QED BY <1>1, <1>3, <1>5, <3>1 DEF Solid
  <2> QED BY <2>1, <2>2
<1>6. \A g \in u.open : ~(g > x)
  BY <1>1, <1>3
<1>7. ASSUME NEW f \in u.open
      PROVE  /\ u.free[f] >= 0 /\ u.resv[f] >= 0
             /\ f > u.cur => u.free[f] + u.resv[f] = Cap
             /\ \A g \in u.open : f > u.cur /\ g > f => u.resv[f] > 0
  <2>1. CASE f \in v.open
    BY <1>3, <1>5, <2>1 DEF Solid
  <2>2. CASE f = x
    BY <1>3, <1>4, <1>6, <2>2
  <2> QED BY <1>3, <2>1, <2>2
<1> QED BY <1>7 DEF Solid

\* What moving n from one file to the other makes of v.
Moved(v, to, from, n, u) ==
  /\ Writing(u) /\ u.open = v.open /\ u.cur = v.cur /\ u.files = v.files /\ u.next = v.next
  /\ u.room = v.room /\ u.ok = v.ok /\ u.stuck = v.stuck /\ u.torn = v.torn
  /\ u.resv[to] = v.resv[to] + n /\ u.resv[from] = v.resv[from] - n
  /\ \A f \in Files : f # to /\ f # from => u.resv[f] = v.resv[f]

\* moveResv does that to two open files.
LEMMA MoveIs ==
  ASSUME NEW v, Writing(v), NEW to \in v.open, NEW from \in v.open, to # from, NEW n \in Int
  PROVE  Moved(v, to, from, n, moveResv(v, to, from, n))
<1> DEFINE u == moveResv(v, to, from, n)
<1>1. /\ Writing(u) /\ u.open = v.open /\ u.cur = v.cur /\ u.files = v.files /\ u.next = v.next
      /\ u.room = v.room /\ u.ok = v.ok /\ u.stuck = v.stuck /\ u.torn = v.torn
  BY MoveValues
<1>2. u.resv[to] = v.resv[to] + n /\ u.resv[from] = v.resv[from] - n
  BY MoveValues
<1>3. \A f \in Files : f # to /\ f # from => u.resv[f] = v.resv[f]
  BY MoveValues
<1> HIDE DEF u
<1> QED BY <1>1, <1>2, <1>3 DEF Moved, u

\* What needFree makes of v, if it finds the space.
RoomFor(v, n, u) ==
  /\ Writing(u) /\ u.cur = v.cur /\ u.stuck = v.stuck /\ u.torn = v.torn
  /\ Len(u.files) + u.room = Len(v.files) + v.room /\ u.next >= v.next
  /\ Solid(u) /\ TailFile(u) \in u.open /\ u.free[TailFile(u)] >= n
  /\ \A f \in v.open : f \in u.open /\ u.free[f] = v.free[f] /\ u.resv[f] = v.resv[f]
  /\ \/ u.open = v.open /\ u.files = v.files
     \/ /\ Grown(v, u)
        /\ TailFile(v) # v.cur => v.resv[TailFile(v)] > Cap - n

\* needFree keeps the budget.
LEMMA NeedSolid ==
  ASSUME NEW v, Writing(v), Solid(v), NEW n \in Int, n >= 0, n <= Cap, NEW u, u = needFree(v, n)
  PROVE  /\ u.ok => RoomFor(v, n, u)
         /\ ~u.ok => /\ Writing(u) /\ Equal(v, u) /\ u.files = v.files /\ u.stuck = v.stuck
                     /\ u.torn = v.torn
<1>1. /\ Writing(u) /\ u.cur = v.cur /\ u.stuck = v.stuck /\ u.torn = v.torn
      /\ u.total = v.total /\ Len(u.files) + u.room = Len(v.files) + v.room
      /\ u.next >= v.next
      /\ Totals(v) => Totals(u)
      /\ \/ /\ u.open = v.open /\ u.files = v.files
            /\ \A f \in v.open : u.free[f] = v.free[f] /\ u.resv[f] = v.resv[f]
            /\ u.ok => v.free[TailFile(v)] >= n
         \/ u.ok /\ v.free[TailFile(v)] < n /\ Grown(v, u)
  BY NeedValues
<1>2. TailFile(v) \in v.open /\ v.cur \in v.open
      /\ \A f \in v.open : f \in Nat /\ v.free[f] \in Int /\ v.resv[f] \in Int /\ v.cur <= f
  BY OpenNumbers
<1>3. TailFile(u) \in u.open
  BY <1>1, OpenNumbers
<1>4. Cap \in Int
  BY Numbers DEF Cap
<1>5. CASE /\ u.open = v.open /\ u.files = v.files
           /\ \A f \in v.open : u.free[f] = v.free[f] /\ u.resv[f] = v.resv[f]
           /\ u.ok => v.free[TailFile(v)] >= n
  <2>1. Equal(v, u)
    BY <1>1, <1>5 DEF Equal
  <2>2. Solid(u)
    BY <1>2, <2>1, EqualBudget
  <2>3. TailFile(u) = TailFile(v)
    BY <1>5 DEF TailFile
  <2>4. u.ok => u.free[TailFile(u)] >= n
    BY <1>2, <1>5, <2>3
  <2> QED BY <1>1, <1>3, <1>5, <2>1, <2>2, <2>4 DEF RoomFor
<1>6. CASE u.ok /\ v.free[TailFile(v)] < n /\ Grown(v, u)
  <2>1. \A f \in v.open : f \in u.open /\ u.free[f] = v.free[f] /\ u.resv[f] = v.resv[f]
    BY <1>6 DEF Grown
  <2>2. u.free[TailFile(u)] = Cap
    BY <1>6 DEF Grown
  <2>3. TailFile(v) # v.cur => v.resv[TailFile(v)] > Cap - n
    <3> DEFINE t == TailFile(v)
    <3>1. t \in v.open /\ t \in Nat /\ v.cur \in Nat /\ v.cur <= t /\ v.free[t] < n
          /\ v.free[t] \in Int /\ v.resv[t] \in Int
      BY <1>2, <1>6
    <3> HIDE DEF t
    <3>2. t > v.cur => v.free[t] + v.resv[t] = Cap
      BY <3>1 DEF Solid
    <3>3. t # v.cur => t > v.cur
      BY <3>1
    <3>4. t # v.cur => v.resv[t] > Cap - n
      BY <1>4, <3>1, <3>2, <3>3
    <3> QED BY <3>4 DEF t
  <2>4. TailFile(v) = v.cur \/ v.resv[TailFile(v)] > 0
    <3>1. v.resv[TailFile(v)] \in Int /\ Cap - n >= 0
      BY <1>2, <1>4
    <3> QED BY <1>4, <2>3, <3>1
  <2>5. Totals(u) /\ Grown(v, u) /\ u.cur = v.cur /\ Cap >= 0
    BY <1>1, <1>4, <1>6 DEF Solid
  <2>6. Solid(u)
    BY <2>4, <2>5, SolidGrown
  <2> QED BY <1>1, <1>3, <1>4, <1>6, <2>1, <2>2, <2>3, <2>6 DEF RoomFor
<1> QED BY <1>1, <1>5, <1>6

-----------------------------------------------------------------------------
(* balance's loop: the file T has the reservation.                         *)

\* Of file T n bytes are reserved that are not a multiple of Short perhaps.
Lent(u, T, n) ==
  /\ T \in u.open /\ u.resv[T] >= n /\ Even(u.resv[T] - n)
  /\ \A f \in u.open : f # T => Even(u.resv[f])

\* After k rounds the current file is not among the first k of the list.
Looped(v, T, n, k, u) ==
  /\ u \in Around(v) /\ Solid(u) /\ Lent(u, T, n) /\ ~u.stuck /\ u.torn = v.torn
  /\ u.ok /\ u.resv[u.cur] < n => \E i \in DOMAIN v.files : v.files[i] = u.cur /\ i >= k + 1

\* A round.
LEMMA LoopRound ==
  ASSUME NEW v, Writing(v), NEW T \in v.open, NEW n \in Int, n >= 0, n <= Cap, NEW k \in Nat,
         NEW u, Looped(v, T, n, k, u), u.ok, u.resv[u.cur] < n
  PROVE  Looped(v, T, n, k + 1, balanceStep(u))
<1> DEFINE m == u.resv[u.cur]
           a == needFree(u, m)
           t == TailFile(a)
           b == moveResv(a, t, a.cur, m)
           c == useNext(b)
           x == balanceStep(u)
<1> SUFFICES Looped(v, T, n, k + 1, x)
  OBVIOUS
<1>1. u \in Around(v) /\ Writing(u) /\ Solid(u) /\ Lent(u, T, n) /\ ~u.stuck /\ u.torn = v.torn
  BY DEF Looped, Around
<1>2. u \in WalRec /\ u.cur \in u.open /\ TailFile(u) \in u.open
      /\ \A f \in u.open : /\ f \in Nat /\ u.free[f] \in Int /\ u.resv[f] \in Int
                           /\ u.cur <= f /\ f <= TailFile(u) /\ f \in Files
  BY <1>1, OpenNumbers
<1>3. m \in Int /\ m >= 0 /\ m < n /\ m <= Cap
  <2>1. m \in Int /\ m >= 0 /\ m < n
    BY <1>1, <1>2 DEF Solid
  <2>2. Cap \in Int
    BY Numbers DEF Cap
  <2> HIDE DEF m
  <2> QED BY <2>1, <2>2
<1>4. T # u.cur /\ T \in u.open /\ T > u.cur /\ Even(m)
  <2>1. T \in u.open /\ u.resv[T] >= n
    BY <1>1 DEF Lent
  <2>2. T # u.cur
    BY <1>2, <2>1
  <2>3. Even(m)
    BY <1>1, <1>2, <2>2 DEF Lent
  <2>4. T \in Nat /\ u.cur \in Nat /\ u.cur <= T
    BY <1>2, <2>1
  <2> QED BY <2>1, <2>2, <2>3, <2>4
<1>5. x \in Around(v)
  <2>1. x \in Around(u)
    BY <1>1, BalanceStep
  <2> HIDE DEF x
  <2>2. Writing(x) /\ Honest(x) /\ Grows(u, x) /\ x.total = u.total
    BY <2>1 DEF Around
  <2> QED BY <1>1, <2>2, AroundStep
<1>6. x = IF a.ok THEN goOn(b) ELSE a
  BY DEF balanceStep
<1>7. m = u.resv[u.cur]
  OBVIOUS
<1>8. k + 1 \in Nat /\ k + 2 = (k + 1) + 1
  OBVIOUS
<1> HIDE DEF m, x
<1>9. a = needFree(u, m)
  OBVIOUS
<1> HIDE DEF a
<1>10. CASE ~a.ok
  <2>1. Equal(u, a) /\ a.stuck = u.stuck /\ a.torn = u.torn
    BY <1>1, <1>3, <1>9, <1>10, NeedSolid
  <2>2. Solid(a)
    BY <1>1, <1>2, <2>1, EqualBudget
  <2>3. Lent(a, T, n)
    BY <1>1, <2>1 DEF Equal, Lent
  <2>4. x = a
    BY <1>6, <1>10
  <2> QED BY <1>1, <1>5, <1>10, <2>1, <2>2, <2>3, <2>4 DEF Looped
<1>11. CASE a.ok
  <2>1. RoomFor(u, m, a)
    BY <1>1, <1>3, <1>9, <1>11, NeedSolid
  <2>2. /\ Writing(a) /\ Solid(a) /\ a.cur = u.cur /\ ~a.stuck /\ a.torn = v.torn
        /\ t \in a.open /\ a.free[t] >= m
        /\ \A f \in u.open : f \in a.open /\ a.resv[f] = u.resv[f]
    BY <1>1, <2>1 DEF RoomFor
  <2>3. t # u.cur /\ t >= T
    <3>1. T \in a.open
      BY <1>4, <2>2
    <3>2. T <= t /\ t \in Nat /\ T \in Nat /\ u.cur \in Nat
      BY <1>2, <2>2, <3>1, OpenNumbers
    <3> HIDE DEF t
    <3> QED BY <1>4, <3>2
  <2>4. a.cur \in a.open /\ a.resv[a.cur] = m /\ t # a.cur
    BY <1>2, <1>7, <2>2, <2>3
  <2>5. t = TailFile(a)
    OBVIOUS
  <2>6. b = moveResv(a, TailFile(a), a.cur, m)
    OBVIOUS
  <2> HIDE DEF t
  <2>7. Moved(a, t, a.cur, m, b)
    BY <1>3, <2>2, <2>4, MoveIs
  <2> HIDE DEF b
  <2>8. Solid(b)
    BY <1>3, <2>2, <2>4, <2>5, <2>6, SolidToTail
  <2>9. /\ Writing(b) /\ b.open = a.open /\ b.cur = u.cur /\ b.files = a.files /\ b.ok /\ ~b.stuck
        /\ b.torn = v.torn
    BY <1>11, <2>2, <2>7 DEF Moved
  <2>10. HasNext(b) /\ b.resv[b.cur] = 0
    <3>1. TailFile(b) = t
      BY <2>5, <2>9 DEF TailFile
    <3>2. b.resv[b.cur] = m - m
      BY <2>2, <2>4, <2>7 DEF Moved
    <3> QED BY <1>3, <2>3, <2>9, <3>1, <3>2 DEF HasNext
  <2>11. x = c
    BY <1>6, <1>11, <2>10 DEF goOn
  <2>12. /\ Writing(c) /\ c.ok /\ c.stuck = b.stuck /\ c.torn = b.torn
         /\ c.cur > b.cur /\ c.cur \in b.open /\ c.open = b.open \ {b.cur} /\ c.resv = b.resv
         /\ \A f \in b.open : f > b.cur => f >= c.cur
         /\ Solid(c)
    BY <2>8, <2>9, <2>10, NextValues
  <2> HIDE DEF c
  <2>13. Lent(c, T, n)
    <3>1. T \in a.open /\ T \in c.open
      BY <1>4, <2>2, <2>9, <2>12
    <3>2. \A f \in a.open : f # t => \/ f \in u.open /\ a.resv[f] = u.resv[f]
      <4>1. a.open = u.open \/ (a.open = u.open \cup {u.next} /\ t = u.next)
        BY <2>1, <2>5 DEF RoomFor, Grown
      <4> QED BY <2>2, <4>1
    <3>3. t \in u.open \/ a.resv[t] = 0
      BY <2>1, <2>2, <2>5 DEF RoomFor, Grown
    <3>4. T # t => b.resv[T] >= n /\ Even(b.resv[T] - n)
      <4>1. T \in Files /\ T # a.cur
        BY <1>2, <1>4, <2>2
      <4>2. T # t => b.resv[T] = u.resv[T]
        BY <1>4, <2>2, <2>7, <4>1 DEF Moved
      <4> QED BY <1>1, <4>2 DEF Lent
    <3>5. T = t => b.resv[T] >= n /\ Even(b.resv[T] - n)
      <4> SUFFICES ASSUME T = t PROVE b.resv[T] >= n /\ Even(b.resv[T] - n)
        OBVIOUS
      <4>1. b.resv[T] = u.resv[T] + m
        BY <1>4, <2>2, <2>7 DEF Moved
      <4>2. u.resv[T] \in Int /\ u.resv[T] >= n /\ Even(u.resv[T] - n)
        BY <1>1, <1>2, <1>4 DEF Lent
      <4> DEFINE y == u.resv[T] - n
      <4>3. y \in Int /\ Even(y)
        BY <1>3, <4>2
      <4>4. b.resv[T] - n = y + m
        BY <1>3, <4>1, <4>2
      <4>5. b.resv[T] >= n
        BY <1>3, <4>1, <4>2
      <4> HIDE DEF y
      <4>6. Even(y + m)
        BY <1>3, <1>4, <4>3, EvenSum
      <4> QED BY <4>4, <4>5, <4>6
    <3>6. ASSUME NEW f \in c.open, f # T PROVE Even(b.resv[f])
      <4>1. f \in a.open /\ f # a.cur /\ f \in Files
        BY <2>2, <2>9, <2>12, OpenNumbers
      <4>2. CASE f # t
        <5>1. b.resv[f] = a.resv[f]
          BY <2>7, <4>1, <4>2 DEF Moved
        <5>2. f \in u.open /\ a.resv[f] = u.resv[f]
          BY <3>2, <4>1, <4>2
        <5> QED BY <1>1, <3>6, <5>1, <5>2 DEF Lent
      <4>3. CASE f = t
        <5>1. b.resv[f] = a.resv[f] + m
          BY <2>7, <4>3 DEF Moved
        <5>2. Even(a.resv[f]) /\ a.resv[f] \in Int
          <6>1. CASE t \in u.open
            BY <1>1, <1>2, <2>2, <3>6, <4>3, <6>1 DEF Lent
          <6>2. CASE a.resv[t] = 0
            BY <4>3, <6>2, EvenUnits
          <6> QED BY <3>3, <6>1, <6>2
        <5> QED BY <1>3, <1>4, <5>1, <5>2, EvenSum
      <4> QED BY <4>2, <4>3
    <3> QED BY <2>12, <3>1, <3>4, <3>5, <3>6 DEF Lent
  <2>14. \E i \in DOMAIN v.files : v.files[i] = c.cur /\ i >= (k + 1) + 1
    <3>1. PICK i \in DOMAIN v.files : v.files[i] = u.cur /\ i >= k + 1
      BY DEF Looped
    <3>2. Listed(c, c.cur) /\ c.cur \in Files /\ c.cur \in Nat
      BY <2>12, Numbers DEF Writing
    <3>3. c.cur <= T
      BY <1>4, <2>2, <2>9, <2>12
    <3>4. v \in WalRec /\ T < v.next /\ T \in Nat
      BY OpenNumbers
    <3>5. v.next \in Nat /\ v.files \in Seq(Files)
      BY <3>4, WalFields
    <3>6. Listed(v, c.cur)
      <4>1. Grows(v, c)
        BY <1>5, <2>11 DEF Around
      <4>2. Listed(v, c.cur) \/ c.cur >= v.next
        BY <3>2, <4>1 DEF Grows
      <4> QED BY <3>2, <3>3, <3>4, <3>5, <4>2
    <3>7. PICK j \in DOMAIN v.files : v.files[j] = c.cur
      BY <3>6 DEF Listed
    <3>8. i \in Nat /\ j \in Nat
      BY <3>5
    <3>9. ~(j <= i)
      <4>1. j = i => c.cur = u.cur
        BY <3>1, <3>7
      <4>2. j < i => v.files[j] < v.files[i]
        BY DEF Writing, Chain
      <4>3. u.cur \in Nat /\ c.cur > u.cur
        BY <1>2, <2>9, <2>12
      <4> QED BY <3>1, <3>2, <3>7, <3>8, <4>1, <4>2, <4>3
    <3>10. j >= (k + 1) + 1
      BY <3>1, <3>8, <3>9
    <3> QED BY <3>7, <3>10
  <2> QED BY <1>5, <2>9, <2>11, <2>12, <2>13, <2>14 DEF Looped
<1> QED BY <1>10, <1>11

\* What the loop makes of v, round by round.
LEMMA LoopIs ==
  ASSUME NEW v, Writing(v), Honest(v), NEW m \in Int
  PROVE  \E l : /\ l[0] = v /\ balanceLoop(v, m) = l[Turns(v)]
                /\ \A k \in 0..Turns(v) : l[k] \in Around(v)
                /\ \A k \in 1..Turns(v) :
                     l[k] = IF l[k - 1].ok /\ l[k - 1].resv[l[k - 1].cur] < m
                            THEN balanceStep(l[k - 1]) ELSE l[k - 1]
<1> DEFINE X == Around(v)
           n == Turns(v)
           Round(u) == IF u.ok /\ u.resv[u.cur] < m THEN balanceStep(u) ELSE u
           loop[k \in 0..n] == IF k = 0 THEN v ELSE Round(loop[k - 1])
           F == [k \in 1..n |-> [u \in X |-> Round(u)]]
<1>1. v \in X
  BY GrowsReflexive DEF Around, Writing, Chain
<1>2. n \in Nat
  BY WalFields, TailIsOpen DEF Turns, Writing, Chain
<1>3. balanceLoop(v, m) = loop[n]
  BY DEF balanceLoop
<1>a. n = Turns(v)
  OBVIOUS
<1> HIDE DEF n
<1>4. ASSUME NEW u \in X PROVE Round(u) \in X
  <2>1. CASE u.ok
    <3>1. Writing(u) /\ ~u.stuck
      BY <2>1 DEF Around, Honest
    <3>2. balanceStep(u) \in Around(u)
      BY <3>1, BalanceStep
    <3>3. balanceStep(u) \in X
      BY <3>2, AroundStep DEF Around
    <3> QED BY <3>3
  <2>2. CASE ~u.ok
    BY <2>2
  <2> QED BY <2>1, <2>2
<1>b. \A u : Round(u) = IF u.ok /\ u.resv[u.cur] < m THEN balanceStep(u) ELSE u
  OBVIOUS
<1> HIDE DEF X, Round
<1>5. F \in [1..n -> [X -> X]]
  BY <1>4
<1>6. \A k \in 1..n : \A u \in X : F[k][u] = Round(u)
  OBVIOUS
<1> HIDE DEF F
<1>7. PICK f \in [0..n -> X] : f[0] = v /\ \A k \in 1..n : f[k] = F[k][f[k - 1]]
  <2> HIDE DEF loop
  <2>1. PICK f : Iterates(X, v, n, F, f)
    BY <1>1, <1>2, <1>5, IteratesExist
  <2> QED BY <2>1 DEF Iterates
<1>8. f = [k \in 0..n |-> IF k = 0 THEN v ELSE Round(f[k - 1])]
  <2>1. ASSUME NEW k \in 0..n PROVE f[k] = IF k = 0 THEN v ELSE Round(f[k - 1])
    <3>1. k # 0 => k \in 1..n /\ k - 1 \in 0..n
      BY <1>2
    <3> QED BY <1>6, <1>7, <3>1
  <2> QED BY <2>1
<1>9. loop = [k \in 0..n |-> IF k = 0 THEN v ELSE Round(loop[k - 1])]
  BY <1>8
<1> HIDE DEF loop
<1>10. loop[0] = v /\ \A k \in 1..n : loop[k] = Round(loop[k - 1])
  BY <1>2, <1>9
<1>11. ASSUME NEW k \in 0..n PROVE loop[k] \in X
  <2>1. k \in Nat /\ \A i \in 1..k : i \in 1..n
    BY <1>2
  <2>2. loop[0] \in X
    BY <1>1, <1>10
  <2>3. \A i \in 1..k : loop[i - 1] \in X => loop[i] \in X
    BY <1>4, <1>10, <2>1
  <2> QED BY <2>1, <2>2, <2>3, LoopStays
<1>12. \A k \in 1..n : loop[k] = IF loop[k - 1].ok /\ loop[k - 1].resv[loop[k - 1].cur] < m
                                 THEN balanceStep(loop[k - 1]) ELSE loop[k - 1]
  BY <1>10, <1>b
<1> QED BY <1>3, <1>10, <1>11, <1>12, <1>a DEF X

\* The loop ends with a current file that has n bytes reserved, or for want of space.
LEMMA LoopEnds ==
  ASSUME NEW v, Writing(v), ~v.stuck, Solid(v), NEW T \in v.open, NEW n \in Int, n >= 0, n <= Cap,
         Lent(v, T, n), NEW u, u = balanceLoop(v, n)
  PROVE  /\ Writing(u) /\ Solid(u) /\ Lent(u, T, n) /\ ~u.stuck /\ u.torn = v.torn
         /\ u.ok => u.resv[u.cur] >= n
<1> DEFINE N == Turns(v)
<1>1. PICK l : /\ l[0] = v /\ u = l[N]
               /\ \A k \in 0..N : l[k] \in Around(v)
               /\ \A k \in 1..N :
                    l[k] = IF l[k - 1].ok /\ l[k - 1].resv[l[k - 1].cur] < n
                           THEN balanceStep(l[k - 1]) ELSE l[k - 1]
  BY LoopIs DEF Honest
<1>2. v \in WalRec /\ v.files \in Seq(Files) /\ v.room \in Nat
  BY WalFields DEF Writing, Chain
<1>3. N \in Nat /\ N > Len(v.files) /\ DOMAIN v.files = 1..Len(v.files) /\ Len(v.files) \in Nat
  BY <1>2 DEF Turns
<1> HIDE DEF N
<1> DEFINE P == {k \in 0..N : Looped(v, T, n, k, l[k])}
           id == [k \in 0..N |-> k]
<1>4. Looped(v, T, n, 0, v)
  <2>1. v \in Around(v)
    BY GrowsReflexive DEF Around, Writing, Chain, Honest
  <2>2. PosOf(v, v.cur) \in DOMAIN v.files /\ v.files[PosOf(v, v.cur)] = v.cur
    BY TailIsOpen
  <2>3. \E i \in DOMAIN v.files : v.files[i] = v.cur /\ i >= 0 + 1
    BY <1>3, <2>2
  <2> QED BY <2>1, <2>3 DEF Looped
<1>5. id[0] \in P
  BY <1>1, <1>3, <1>4
<1>6. ASSUME NEW k \in 1..N, id[k - 1] \in P PROVE id[k] \in P
  <2>1. k \in 0..N /\ k - 1 \in 0..N /\ k - 1 \in Nat /\ (k - 1) + 1 = k /\ k \in Nat
    BY <1>3
  <2>2. Looped(v, T, n, k - 1, l[k - 1])
    BY <1>6, <2>1
  <2> DEFINE x == l[k - 1]
             h == k - 1
  <2>3. CASE x.ok /\ x.resv[x.cur] < n
    <3>1. l[k] = balanceStep(x)
      BY <1>1, <2>3
    <3>2. Looped(v, T, n, h, x) /\ h \in Nat /\ h + 1 = k
      BY <2>1, <2>2
    <3> HIDE DEF x, h
    <3>3. Looped(v, T, n, h + 1, balanceStep(x))
      BY <2>3, <3>2, LoopRound
    <3> QED BY <2>1, <3>1, <3>2, <3>3
  <2>4. CASE ~(x.ok /\ x.resv[x.cur] < n)
    <3>1. l[k] = x
      BY <1>1, <2>4
    <3>2. Looped(v, T, n, k, x)
      BY <2>2, <2>4 DEF Looped
    <3> QED BY <2>1, <3>1, <3>2
  <2> QED BY <2>3, <2>4
<1> HIDE DEF P
<1>7. id[N] \in P
  <2> HIDE DEF id
  <2> QED BY <1>3, <1>5, <1>6, LoopStays
<1>8. Looped(v, T, n, N, u)
  BY <1>1, <1>3, <1>7 DEF P
<1>9. u \in WalRec /\ Writing(u) /\ Solid(u) /\ Lent(u, T, n) /\ ~u.stuck /\ u.torn = v.torn
  BY <1>8 DEF Looped, Around
<1>10. u.ok => u.resv[u.cur] >= n
  <2>1. ~\E i \in DOMAIN v.files : v.files[i] = u.cur /\ i >= N + 1
    BY <1>3
  <2>2. u.resv[u.cur] \in Int
    BY <1>9, OpenNumbers
  <2> QED BY <1>8, <2>1, <2>2 DEF Looped
<1> QED BY <1>9, <1>10

-----------------------------------------------------------------------------
(* The visits of balanceRest.                                              *)

\* Places in the list.
LEMMA Places ==
  ASSUME NEW u, Writing(u), NEW p \in DOMAIN u.files, u.files[p] = u.cur
  PROVE  /\ p \in Nat /\ p >= 1 /\ Len(u.files) \in Nat /\ DOMAIN u.files = 1..Len(u.files)
         /\ p <= Len(u.files)
         /\ \A f \in u.open : f # u.cur =>
              \E i \in DOMAIN u.files : /\ u.files[i] = f /\ i >= p + 1
                                        /\ f # TailFile(u) => i < Len(u.files)
         /\ \A i \in DOMAIN u.files : i > p => /\ u.files[i] \in u.open /\ u.files[i] > u.cur
                                              /\ u.files[i] # u.cur
         /\ \A i, k \in DOMAIN u.files : i # k => u.files[i] # u.files[k]
<1>1. u \in WalRec /\ Chain(u)
  BY DEF Writing, Chain
<1>2. u.files \in Seq(Files)
  BY <1>1, WalFields
<1> DEFINE n == Len(u.files)
<1>3. n \in Nat /\ DOMAIN u.files = 1..n /\ \A i \in 1..n : u.files[i] \in Files /\ u.files[i] \in Nat
  BY <1>2, Numbers
<1>4. p \in Nat /\ p >= 1 /\ p <= n /\ u.cur \in Nat
  BY <1>3
<1>5. \A i, k \in 1..n : i < k => u.files[i] < u.files[k]
  BY <1>1, <1>3 DEF Chain
<1>6. ASSUME NEW f \in u.open, f # u.cur
      PROVE  \E i \in DOMAIN u.files : /\ u.files[i] = f /\ i >= p + 1
                                       /\ f # TailFile(u) => i < n
  <2>1. f \in Files /\ f \in Nat /\ u.cur <= f
    BY OpenNumbers
  <2>2. Listed(u, f)
    BY <2>1 DEF Writing
  <2>3. PICK i \in 1..n : u.files[i] = f
    BY <1>3, <2>2 DEF Listed
  <2>4. i < p => u.files[i] < u.files[p]
    BY <1>3, <1>4, <1>5
  <2>5. i >= p + 1
    <3>1. i # p
      BY <1>6, <2>3
    <3>2. ~(i < p)
      BY <1>4, <2>1, <2>3, <2>4
    <3> QED BY <1>4, <3>1, <3>2
  <2>6. f # TailFile(u) => i # n
    BY <2>3 DEF TailFile
  <2> QED BY <1>3, <2>3, <2>5, <2>6
<1>7. ASSUME NEW i \in DOMAIN u.files, i > p
      PROVE  u.files[i] \in u.open /\ u.files[i] > u.cur /\ u.files[i] # u.cur
  <2>1. u.files[p] < u.files[i] /\ u.files[i] \in Files /\ u.files[i] \in Nat
    BY <1>3, <1>4, <1>5, <1>7
  <2>2. Listed(u, u.files[i])
    BY DEF Listed
  <2> QED BY <1>4, <2>1, <2>2 DEF Writing
<1>8. ASSUME NEW i \in DOMAIN u.files, NEW k \in DOMAIN u.files, i # k
      PROVE  u.files[i] # u.files[k]
  <2>1. i < k \/ k < i
    BY <1>3, <1>8
  <2>2. u.files[i] < u.files[k] \/ u.files[k] < u.files[i]
    BY <1>3, <1>5, <2>1
  <2> QED BY <1>3, <2>2
<1> QED BY <1>3, <1>4, <1>6, <1>7, <1>8

\* What a visit keeps: p is the place of the current file.
Visited(u, x, T, p) ==
  /\ Writing(x) /\ Solid(x) /\ ~x.stuck /\ x.torn = u.torn /\ x.cur = u.cur /\ T \in x.open
  /\ p \in DOMAIN x.files /\ x.files[p] = x.cur
  /\ Len(x.files) + x.room = Len(u.files) + u.room

\* The current file has the reservation.
Given(x, n) == x.resv[x.cur] >= n /\ Even(x.resv[x.cur] - n)

\* The file at place i has d bytes that belong to the tail, which has as many too few.
Owes(x, T, i, d) ==
  /\ TailFile(x) # T /\ i < Len(x.files) /\ d > 0 /\ d < Short
  /\ Even(x.resv[x.files[i]] - d) /\ x.resv[x.files[i]] > d
  /\ Even(x.resv[TailFile(x)] + d)
  /\ \A f \in x.open : f > x.cur /\ f # x.files[i] /\ f # TailFile(x) => Even(x.resv[f])

\* A file that is not visited yet does.
Owed(x, T, q) == \E i \in DOMAIN x.files : \E d \in Int : i >= q /\ Owes(x, T, i, d)

\* The places of files do not change when one is added.
LEMMA NeedPlaces ==
  ASSUME NEW u, Writing(u), NEW n, NEW a, RoomFor(u, n, a)
  PROVE  /\ \A i \in DOMAIN u.files : i \in DOMAIN a.files /\ a.files[i] = u.files[i]
         /\ Grown(u, a) => /\ Len(a.files) = Len(u.files) + 1 /\ TailFile(a) = u.next
                           /\ a.resv[TailFile(a)] = 0 /\ TailFile(a) \notin u.open
                           /\ a.open = u.open \cup {TailFile(a)}
         /\ ~Grown(u, a) => /\ a.files = u.files /\ TailFile(a) = TailFile(u)
                            /\ a.open = u.open
<1>1. u.files \in Seq(Files)
  BY WalFields DEF Writing, Chain
<1>2. CASE Grown(u, a)
  <2>1. u.next \in Files /\ a.files = Append(u.files, u.next)
    BY <1>2 DEF Grown
  <2>2. Len(a.files) = Len(u.files) + 1
        /\ \A i \in DOMAIN u.files : i \in DOMAIN a.files /\ a.files[i] = u.files[i]
    BY <1>1, <2>1
  <2> QED BY <1>2, <2>2 DEF Grown
<1>3. CASE ~Grown(u, a)
  BY <1>3 DEF RoomFor, TailFile
<1> QED BY <1>2, <1>3

\* The visit to the current file.
LEMMA FirstVisit ==
  ASSUME NEW u, Writing(u), Solid(u), ~u.stuck, u.ok, NEW p \in DOMAIN u.files,
         u.files[p] = u.cur, NEW n \in Int, n >= Short, n <= Cap, NEW T, Lent(u, T, n),
         u.resv[u.cur] >= n, NEW x, x = restStep(u, p, n)
  PROVE  /\ Visited(u, x, T, p)
         /\ x.ok => Given(x, n) /\ (Evens(x) \/ Owed(x, T, p + 1))
         /\ ~x.ok => Lent(x, T, n)
<1> DEFINE y == u.resv[u.cur] - n
           r == Rest(y)
           c == Short - r
           t == TailFile(u)
           a == needFree(u, r)
           x1 == moveResv(u, u.cur, t, c)
           x2 == moveResv(a, TailFile(a), u.cur, r)
<1>1. /\ u \in WalRec /\ u.open \subseteq Files /\ u.cur \in u.open /\ t \in u.open
      /\ \A f \in u.open : /\ f \in Nat /\ u.free[f] \in Int /\ u.resv[f] \in Int
                           /\ u.cur <= f /\ f <= t
  BY OpenNumbers
<1>2. /\ p \in Nat /\ p >= 1 /\ Len(u.files) \in Nat /\ p <= Len(u.files)
  BY Places
<1>3. Short \in Int /\ Short > 0 /\ Cap \in Int
  BY Numbers DEF Cap
<1>4. y \in Int /\ y >= 0 /\ u.resv[u.cur] = y + n
  BY <1>1
<1>5. x = IF r = 0 THEN u
          ELSE IF u.resv[t] >= c /\ u.free[u.cur] >= c THEN x1 ELSE IF a.ok THEN x2 ELSE a
  BY DEF restStep
<1>6. t = TailFile(u)
  OBVIOUS
<1> HIDE DEF y, t
<1>7. r \in Int /\ r >= 0 /\ r < Short /\ Even(y - r) /\ r <= y
  BY <1>4, RestIs
<1>8. /\ T \in u.open /\ u.resv[T] \in Int /\ u.resv[T] >= n /\ Even(u.resv[T] - n)
      /\ \A f \in u.open : f # T => Even(u.resv[f])
  BY <1>1 DEF Lent
<1>9. Visited(u, u, T, p)
  BY <1>8 DEF Visited
<1>10. ASSUME r = 0 PROVE Given(u, n) /\ Evens(u)
  <2>1. Even(y) /\ y = u.resv[u.cur] - n
    <3>1. y - 0 = y
      BY <1>4
    <3> QED BY <1>7, <1>10, <3>1 DEF y
  <2>2. Given(u, n)
    BY <2>1 DEF Given
  <2>3. T # u.cur => Even(u.resv[T])
    <3> SUFFICES ASSUME T # u.cur PROVE Even(u.resv[T])
      OBVIOUS
    <3>1. Even(u.resv[u.cur])
      BY <1>1, <1>8
    <3> DEFINE m == u.resv[u.cur]
               h == u.resv[T] - n
    <3>2. m \in Int /\ h \in Int /\ m - y = n /\ h + n = u.resv[T] /\ Even(m) /\ Even(h)
      BY <1>1, <1>4, <1>8, <3>1
    <3> HIDE DEF m, h
    <3>3. Even(m - y)
      BY <1>4, <2>1, <3>2, EvenSum
    <3>4. Even(h + n)
      BY <3>2, <3>3, EvenSum
    <3> QED BY <3>2, <3>4
  <2>4. Evens(u)
    BY <1>1, <1>8, <2>3 DEF Evens
  <2> QED BY <2>2, <2>4
<1>11. CASE r = 0
  BY <1>5, <1>9, <1>10, <1>11
<1>12. CASE r # 0
  <2> HIDE <1>5
  <2>1. c \in Int /\ c > 0 /\ c < Short /\ r + c = Short /\ r > 0 /\ r <= Cap
    BY <1>3, <1>7, <1>12
  <2>2. T # u.cur
    <3> SUFFICES ASSUME T = u.cur PROVE FALSE
      OBVIOUS
    <3>1. Even(y - 0)
      <4>1. y - 0 = y
        BY <1>4
      <4> QED BY <1>8, <4>1 DEF y
    <3>2. Rest(y) = 0
      BY <1>3, <1>4, <3>1, Remainder
    <3> QED BY <1>12, <3>2
  <2>3. t # u.cur /\ T > u.cur /\ Even(u.resv[u.cur])
    <3>1. T \in Nat /\ u.cur <= T /\ T <= t /\ u.cur \in Nat /\ t \in Nat
      BY <1>1, <1>8
    <3>2. Even(u.resv[u.cur])
      BY <1>1, <1>8, <2>2
    <3> QED BY <2>2, <3>1, <3>2
  <2> HIDE DEF r, c
  <2> DEFINE h == u.resv[T] - c
  <2>4. h \in Int /\ Even(h) /\ h + c = u.resv[T] /\ u.resv[T] > c
    <3> DEFINE e1 == u.resv[T] - n
               m == u.resv[u.cur]
               z == y - r
    <3>1. e1 \in Int /\ m \in Int /\ z \in Int /\ Even(e1) /\ Even(m) /\ Even(z) /\ m = y + n
      BY <1>1, <1>4, <1>7, <1>8, <2>3
    <3>2. h = (e1 + (m - z)) - Short
      BY <1>1, <1>3, <1>4, <1>7, <1>8, <2>1
    <3> HIDE DEF e1, m, z, h
    <3>a. m \in Int /\ z \in Int /\ Even(m) /\ Even(z)
      BY <3>1
    <3>b. m - z \in Int
      BY <3>a
    <3>c. Even(m - z)
      BY <3>a, EvenSum
    <3>3. Even(m - z) /\ m - z \in Int
      BY <3>b, <3>c
    <3> DEFINE k == m - z
    <3> HIDE DEF k
    <3>4. k \in Int /\ Even(k) /\ h = (e1 + k) - Short
      BY <3>2, <3>3 DEF k
    <3>d. e1 \in Int /\ Even(e1)
      BY <3>1
    <3>e. e1 + k \in Int
      BY <3>4, <3>d
    <3>f. Even(e1 + k)
      BY <3>4, <3>d, EvenSum
    <3> DEFINE s == e1 + k
    <3>5. s \in Int /\ Even(s) /\ h = s - Short
      BY <3>4, <3>e, <3>f
    <3> HIDE DEF s
    <3>6. Even(h) /\ h \in Int
      BY <1>3, <3>5, EvenSum, EvenUnits
    <3>7. h + c = u.resv[T]
      BY <1>8, <2>1 DEF h
    <3>8. u.resv[T] > c
      BY <1>3, <1>8, <2>1
    <3> QED BY <3>6, <3>7, <3>8
  <2> HIDE DEF h
  <2>5. CASE u.resv[t] >= c /\ u.free[u.cur] >= c
    <3>1. x = x1
      BY <1>5, <1>12, <2>5
    <3>2. Moved(u, u.cur, t, c, x1)
      BY <1>1, <2>1, <2>3, MoveIs
    <3>3. Solid(x1)
      BY <1>1, <1>6, <2>1, <2>3, <2>5, SolidFromTail
    <3> HIDE DEF x1
    <3>4. /\ Writing(x) /\ x.open = u.open /\ x.cur = u.cur /\ x.files = u.files
          /\ x.room = u.room /\ x.ok = u.ok /\ x.stuck = u.stuck /\ x.torn = u.torn
          /\ x.resv[u.cur] = u.resv[u.cur] + c /\ x.resv[t] = u.resv[t] - c
          /\ \A f \in Files : f # u.cur /\ f # t => x.resv[f] = u.resv[f]
      BY <3>1, <3>2 DEF Moved
    <3>5. Visited(u, x, T, p)
      BY <1>8, <3>1, <3>3, <3>4 DEF Visited
    <3>6. Given(x, n)
      <4> DEFINE z == y - r
      <4>1. z \in Int /\ Even(z) /\ x.resv[x.cur] - n = z + Short /\ x.resv[x.cur] >= n
        BY <1>1, <1>3, <1>4, <1>7, <2>1, <3>4
      <4> HIDE DEF z
      <4>2. Even(z + Short)
        BY <1>3, <4>1, EvenSum, EvenUnits
      <4> QED BY <4>1, <4>2 DEF Given
    <3>7. TailFile(x) = t
      BY <3>4 DEF TailFile, t
    <3>8. \A f \in u.open : f > u.cur /\ f # T /\ f # t => Even(x.resv[f])
      BY <1>1, <1>8, <3>4
    <3>9. T = t => Evens(x)
      <4> SUFFICES ASSUME T = t PROVE Evens(x)
        OBVIOUS
      <4>1. x.resv[t] = h
        BY <2>1, <2>4, <3>4
      <4> QED BY <2>4, <3>4, <3>8, <4>1 DEF Evens
    <3>10. T # t => Owed(x, T, p + 1)
      <4> SUFFICES ASSUME T # t PROVE Owed(x, T, p + 1)
        OBVIOUS
      <4>1. PICK i \in DOMAIN u.files : u.files[i] = T /\ i >= p + 1 /\ i < Len(u.files)
        BY <1>6, <1>8, <2>2, Places
      <4>2. x.resv[T] = u.resv[T] /\ x.files[i] = T /\ i \in DOMAIN x.files /\ i < Len(x.files)
        BY <1>1, <1>8, <2>2, <3>4, <4>1
      <4>3. x.resv[t] + c = u.resv[t]
        BY <1>1, <2>1, <3>4
      <4>4. Even(u.resv[t])
        BY <1>1, <1>8
      <4>5. u.resv[T] - c = h
        BY <1>8, <2>1 DEF h
      <4>6. Owes(x, T, i, c)
        BY <2>1, <2>4, <3>4, <3>7, <3>8, <4>2, <4>3, <4>4, <4>5 DEF Owes
      <4> QED BY <2>1, <4>1, <4>2, <4>6 DEF Owed
    <3> QED BY <3>1, <3>4, <3>5, <3>6, <3>9, <3>10
  <2>6. CASE ~(u.resv[t] >= c /\ u.free[u.cur] >= c) /\ ~a.ok
    <3>1. x = a
      BY <1>5, <1>12, <2>6
    <3>2. Writing(a) /\ Equal(u, a) /\ a.files = u.files /\ a.stuck = u.stuck /\ a.torn = u.torn
      BY <1>7, <2>1, <2>6, NeedSolid
    <3>3. Len(a.files) + a.room = Len(u.files) + u.room
      BY <1>7, NeedValues
    <3> HIDE DEF a
    <3>4. Solid(a)
      BY <1>1, <3>2, EqualBudget
    <3>5. Lent(a, T, n)
      BY <3>2 DEF Equal, Lent
    <3>6. Visited(u, a, T, p)
      BY <1>8, <3>2, <3>3, <3>4 DEF Visited, Equal
    <3> QED BY <2>6, <3>1, <3>5, <3>6
  <2>7. CASE ~(u.resv[t] >= c /\ u.free[u.cur] >= c) /\ a.ok
    <3>1. x = x2
      BY <1>5, <1>12, <2>7
    <3>2. RoomFor(u, r, a)
      BY <1>7, <2>1, <2>7, NeedSolid
    <3> HIDE DEF a
    <3> DEFINE s == TailFile(a)
    <3>3. /\ Writing(a) /\ Solid(a) /\ a.cur = u.cur /\ a.stuck = u.stuck /\ a.torn = u.torn
          /\ Len(a.files) + a.room = Len(u.files) + u.room
          /\ s \in a.open /\ a.free[s] >= r
          /\ \A f \in u.open : f \in a.open /\ a.resv[f] = u.resv[f]
      BY <3>2 DEF RoomFor
    <3>4. /\ p \in DOMAIN a.files /\ a.files[p] = u.cur
          /\ Grown(u, a) => a.resv[s] = 0 /\ s \notin u.open /\ a.open = u.open \cup {s}
          /\ ~Grown(u, a) => s = t /\ a.open = u.open
      BY <1>6, <3>2, NeedPlaces
    <3>5. s # u.cur
      BY <1>1, <2>3, <3>4
    <3>6. u.cur \in a.open /\ a.resv[u.cur] = u.resv[u.cur] /\ r <= a.resv[u.cur]
      <4>1. u.cur \in a.open /\ a.resv[u.cur] = u.resv[u.cur]
        BY <1>1, <3>3
      <4> QED BY <1>3, <1>4, <1>7, <4>1
    <3>7. Moved(a, s, u.cur, r, x2)
      BY <1>7, <3>3, <3>5, <3>6, MoveIs
    <3>8. Solid(x2)
      BY <1>7, <3>3, <3>5, <3>6, SolidToTail
    <3>a. a.ok
      BY <2>7
    <3>b. s = TailFile(a)
      OBVIOUS
    <3> HIDE DEF x2, s
    <3>9. /\ Writing(x) /\ x.open = a.open /\ x.cur = u.cur /\ x.files = a.files
          /\ x.room = a.room /\ x.ok /\ x.stuck = u.stuck /\ x.torn = u.torn
          /\ x.resv[u.cur] = u.resv[u.cur] - r /\ x.resv[s] = a.resv[s] + r
          /\ \A f \in Files : f # u.cur /\ f # s => x.resv[f] = a.resv[f]
      BY <3>1, <3>3, <3>6, <3>7, <3>a DEF Moved
    <3>10. Visited(u, x, T, p)
      BY <1>8, <3>1, <3>3, <3>4, <3>8, <3>9 DEF Visited
    <3>11. Given(x, n)
      <4>1. x.resv[x.cur] - n = y - r /\ x.resv[x.cur] >= n
        BY <1>1, <1>3, <1>4, <1>7, <3>9
      <4> QED BY <1>7, <4>1 DEF Given
    <3>12. TailFile(x) = s
      BY <3>9, <3>b DEF TailFile
    <3>13. \A f \in a.open : f # s => f \in u.open
      BY <3>4
    <3>14. \A f \in x.open : f > u.cur /\ f # T /\ f # s => Even(x.resv[f])
      <4> SUFFICES ASSUME NEW f \in x.open, f > u.cur, f # T, f # s PROVE Even(x.resv[f])
        OBVIOUS
      <4>1. f \in u.open /\ f \in Files /\ f \in Nat /\ u.cur \in Nat
        BY <1>1, <3>9, <3>13
      <4>2. x.resv[f] = u.resv[f]
        BY <3>3, <3>9, <4>1
      <4> QED BY <1>8, <4>1, <4>2
    <3>15. a.resv[s] \in Int /\ x.resv[s] + c = a.resv[s] + Short
      <4>1. a.resv[s] \in Int
        BY <3>3, OpenNumbers
      <4> QED BY <2>1, <1>3, <1>7, <3>9, <4>1
    <3>16. T = s => Evens(x)
      <4> SUFFICES ASSUME T = s PROVE Evens(x)
        OBVIOUS
      <4>1. a.resv[s] = u.resv[T]
        BY <1>8, <3>3
      <4>2. x.resv[s] = h + Short
        BY <1>3, <1>7, <2>1, <2>4, <3>9, <4>1
      <4>3. Even(x.resv[s])
        BY <1>3, <2>4, <4>2, EvenSum, EvenUnits
      <4> QED BY <3>9, <3>14, <4>3 DEF Evens
    <3>17. T # s => Owed(x, T, p + 1)
      <4> SUFFICES ASSUME T # s PROVE Owed(x, T, p + 1)
        OBVIOUS
      <4>0. T \in a.open /\ T # a.cur /\ a.resv[T] = u.resv[T]
        BY <1>8, <2>2, <3>3
      <4>1. PICK i \in DOMAIN a.files : a.files[i] = T /\ i >= p + 1 /\ i < Len(a.files)
        BY <3>3, <3>4, <3>b, <4>0, Places
      <4>2. x.resv[T] = u.resv[T] /\ x.files[i] = T /\ i \in DOMAIN x.files /\ i < Len(x.files)
        BY <1>1, <1>8, <2>2, <3>9, <4>0, <4>1
      <4>3. Even(a.resv[s])
        <5>1. CASE Grown(u, a)
          BY <3>4, <5>1, EvenUnits
        <5>2. CASE ~Grown(u, a)
          BY <1>1, <1>8, <3>3, <3>4, <5>2
        <5> QED BY <5>1, <5>2
      <4>4. Even(x.resv[s] + c)
        BY <1>3, <3>15, <4>3, EvenSum, EvenUnits
      <4>5. u.resv[T] - c = h
        BY <1>8, <2>1 DEF h
      <4>6. Owes(x, T, i, c)
        BY <2>1, <2>4, <3>9, <3>12, <3>14, <4>2, <4>4, <4>5 DEF Owes
      <4> QED BY <2>1, <4>1, <4>2, <4>6 DEF Owed
    <3> QED BY <3>9, <3>10, <3>11, <3>16, <3>17
  <2> QED BY <2>5, <2>6, <2>7
<1> QED BY <1>11, <1>12

\* A file is added only when there is little of the last one that is not reserved.
LEMMA NeedsMore ==
  ASSUME NEW u, Writing(u), NEW n \in Int, NEW a, RoomFor(u, n, a), Grown(u, a),
         TailFile(u) > u.cur
  PROVE  u.resv[TailFile(u)] > Cap - n
<1>1. u.cur \in Nat /\ TailFile(u) \in u.open
  BY OpenNumbers
<1>2. TailFile(u) # u.cur
  BY <1>1
<1>3. a.open # u.open
  BY DEF Grown
<1> QED BY <1>2, <1>3 DEF RoomFor

\* The visit to a later file.
LEMMA LaterVisit ==
  ASSUME NEW u, Writing(u), Solid(u), ~u.stuck, u.ok, NEW p \in DOMAIN u.files,
         u.files[p] = u.cur, NEW n \in Int, Given(u, n), NEW T \in u.open, Cap >= Short,
         NEW i \in DOMAIN u.files, i > p, Evens(u) \/ Owed(u, T, i),
         NEW x, x = restStep(u, i, 0)
  PROVE  /\ Visited(u, x, T, p)
         /\ x.ok => Given(x, n) /\ (Evens(x) \/ Owed(x, T, i + 1))
         /\ ~x.ok => TailFile(x) # T
<1> DEFINE b == u.files[i]
           y == u.resv[b] - 0
           r == Rest(y)
           c == Short - r
           t == TailFile(u)
           a == needFree(u, r)
           x1 == moveResv(u, b, t, c)
           x2 == moveResv(a, TailFile(a), b, r)
<1>1. /\ u \in WalRec /\ u.open \subseteq Files /\ u.cur \in u.open /\ t \in u.open
      /\ \A f \in u.open : /\ f \in Nat /\ u.free[f] \in Int /\ u.resv[f] \in Int
                           /\ u.cur <= f /\ f <= t
  BY OpenNumbers
<1>2. /\ p \in Nat /\ p >= 1 /\ Len(u.files) \in Nat /\ DOMAIN u.files = 1..Len(u.files)
      /\ p <= Len(u.files) /\ i \in Nat /\ i + 1 \in Int
      /\ b \in u.open /\ b > u.cur /\ b # u.cur
      /\ \A k, l \in DOMAIN u.files : k # l => u.files[k] # u.files[l]
  <2>1. /\ p \in Nat /\ p >= 1 /\ Len(u.files) \in Nat /\ DOMAIN u.files = 1..Len(u.files)
        /\ p <= Len(u.files)
    BY Places
  <2>2. \A k \in DOMAIN u.files : k > p => /\ u.files[k] \in u.open /\ u.files[k] > u.cur
                                           /\ u.files[k] # u.cur
    BY Places
  <2>3. \A k, l \in DOMAIN u.files : k # l => u.files[k] # u.files[l]
    BY Places
  <2>4. i \in Nat /\ i + 1 \in Int
    BY <2>1
  <2> QED BY <2>1, <2>2, <2>3, <2>4
<1>3. Short \in Int /\ Short > 0 /\ Cap \in Int
  BY Numbers DEF Cap
<1>4. y \in Int /\ y >= 0 /\ u.resv[b] = y
  <2> HIDE DEF b
  <2>1. u.resv[b] \in Int /\ u.resv[b] >= 0
    BY <1>1, <1>2 DEF Solid
  <2> QED BY <2>1
<1>5. x = IF r = 0 THEN u
          ELSE IF u.resv[t] >= c /\ u.free[b] >= c THEN x1 ELSE IF a.ok THEN x2 ELSE a
  BY DEF restStep
<1>6. t = TailFile(u) /\ b = u.files[i]
  OBVIOUS
<1> HIDE DEF y, t, b
<1>7. r \in Int /\ r >= 0 /\ r < Short /\ Even(y - r) /\ r <= y
  BY <1>4, RestIs
<1>8. Visited(u, u, T, p)
  BY DEF Visited
<1>9. y - 0 = y
  BY <1>4
<1>10. Even(y) => r = 0
  BY <1>3, <1>4, <1>9, Remainder
<1>11. CASE Evens(u)
  <2>1. Even(y)
    BY <1>2, <1>4, <1>11 DEF Evens
  <2>2. x = u
    BY <1>5, <1>10, <2>1
  <2> QED BY <1>8, <1>11, <2>2
<1>12. CASE ~Evens(u)
  <2>1. PICK q \in DOMAIN u.files : \E e \in Int : q >= i /\ Owes(u, T, q, e)
    BY <1>12 DEF Owed
  <2>2. PICK d \in Int : q >= i /\ Owes(u, T, q, d)
    BY <2>1
  <2>3. /\ t # T /\ q < Len(u.files) /\ d > 0 /\ d < Short
        /\ Even(u.resv[u.files[q]] - d) /\ u.resv[u.files[q]] > d
        /\ Even(u.resv[t] + d)
        /\ \A f \in u.open : f > u.cur /\ f # u.files[q] /\ f # t => Even(u.resv[f])
    BY <1>6, <2>2 DEF Owes
  <2>4. q \in Nat
    BY <1>2
  <2>5. b # t
    <3>1. i # Len(u.files) /\ Len(u.files) \in DOMAIN u.files
      BY <1>2, <2>2, <2>3, <2>4
    <3> QED BY <1>2, <1>6, <3>1 DEF TailFile
  <2>6. CASE q # i
    <3>1. Even(y)
      BY <1>2, <1>4, <1>6, <2>3, <2>5, <2>6
    <3>2. x = u
      BY <1>5, <1>10, <3>1
    <3>3. q >= i + 1
      BY <1>2, <2>2, <2>4, <2>6
    <3>4. Owed(u, T, i + 1)
      BY <2>2, <3>3 DEF Owed
    <3> QED BY <1>8, <3>2, <3>4
  <2>7. CASE q = i
    <3>1. r = d
      <4>1. Even(y - d)
        BY <1>4, <1>6, <2>3, <2>7
      <4> QED BY <1>4, <2>3, <4>1, Remainder
    <3>2. /\ c \in Int /\ c > 0 /\ c < Short /\ r + c = Short /\ r > 0 /\ r <= Cap /\ r < y
      BY <1>3, <1>4, <1>6, <1>7, <2>3, <2>7, <3>1
    <3>3. u.resv[t] \in Int /\ Even(u.resv[t] + r) /\ t > u.cur
      <4>1. t \in Nat /\ u.cur \in Nat /\ b \in Nat /\ b <= t
        BY <1>1, <1>2
      <4> QED BY <1>1, <1>2, <2>3, <3>1, <4>1
    <3>4. \A f \in u.open : f > u.cur /\ f # b /\ f # t => Even(u.resv[f])
      BY <1>6, <2>3, <2>7
    <3> HIDE DEF r, c
    <3> HIDE <1>5
    <3>5. CASE u.resv[t] >= c /\ u.free[b] >= c
      <4>1. x = x1
        BY <1>5, <3>2, <3>5
      <4>2. Moved(u, b, t, c, x1)
        BY <1>1, <1>2, <2>5, <3>2, MoveIs
      <4>3. Solid(x1)
        <5>1. /\ b \in u.open /\ b # TailFile(u) /\ c \in Int /\ c >= 0
              /\ c <= u.resv[TailFile(u)] /\ c <= u.free[b]
          <6>1. u.free[b] \in Int /\ u.resv[t] \in Int
            BY <1>1, <1>2
          <6> QED BY <1>2, <1>6, <2>5, <3>2, <3>5, <6>1
        <5>2. x1 = moveResv(u, b, TailFile(u), c)
          BY <1>6
        <5> HIDE DEF x1
        <5> QED BY <5>1, <5>2, SolidFromTail
      <4> HIDE DEF x1
      <4>4. /\ Writing(x) /\ x.open = u.open /\ x.cur = u.cur /\ x.files = u.files
            /\ x.room = u.room /\ x.ok = u.ok /\ x.stuck = u.stuck /\ x.torn = u.torn
            /\ x.resv[b] = u.resv[b] + c /\ x.resv[t] = u.resv[t] - c
            /\ \A f \in Files : f # b /\ f # t => x.resv[f] = u.resv[f]
        BY <4>1, <4>2 DEF Moved
      <4>5. Visited(u, x, T, p)
        BY <4>1, <4>3, <4>4 DEF Visited
      <4>6. x.resv[u.cur] = u.resv[u.cur]
        <5>1. u.cur \in Files /\ u.cur # t /\ u.cur # b
          BY <1>1, <1>2, <3>3
        <5> QED BY <4>4, <5>1
      <4>7. Given(x, n)
        BY <4>4, <4>6 DEF Given
      <4>8. Even(x.resv[b])
        <5> DEFINE z == y - r
        <5>1. z \in Int /\ Even(z) /\ x.resv[b] = z + Short
          BY <1>3, <1>4, <1>7, <3>2, <4>4
        <5> HIDE DEF z
        <5> QED BY <1>3, <5>1, EvenSum, EvenUnits
      <4>9. Even(x.resv[t])
        <5> DEFINE z == u.resv[t] + r
        <5>1. z \in Int /\ Even(z) /\ x.resv[t] = z - Short
          BY <1>3, <1>7, <3>2, <3>3, <4>4
        <5> HIDE DEF z
        <5> QED BY <1>3, <5>1, EvenSum, EvenUnits
      <4>10. Evens(x)
        <5> SUFFICES ASSUME NEW f \in u.open, f > u.cur PROVE Even(x.resv[f])
          BY <4>4 DEF Evens
        <5>1. f \in Files
          BY <1>1
        <5>2. f # b /\ f # t => Even(x.resv[f])
          BY <3>4, <4>4, <5>1
        <5> QED BY <4>8, <4>9, <5>2
      <4> QED BY <4>4, <4>5, <4>7, <4>10
    <3>6. CASE ~(u.resv[t] >= c /\ u.free[b] >= c) /\ ~a.ok
      <4>1. x = a
        BY <1>5, <3>2, <3>6
      <4>2. Writing(a) /\ Equal(u, a) /\ a.files = u.files /\ a.stuck = u.stuck /\ a.torn = u.torn
        BY <1>7, <3>2, <3>6, NeedSolid
      <4>3. Len(a.files) + a.room = Len(u.files) + u.room
        BY <1>7, NeedValues
      <4> HIDE DEF a
      <4>4. Solid(a)
        BY <1>1, <4>2, EqualBudget
      <4>5. Visited(u, a, T, p)
        BY <4>2, <4>3, <4>4 DEF Visited, Equal
      <4>6. TailFile(a) = t
        BY <4>2 DEF TailFile, t
      <4> QED BY <2>3, <3>6, <4>1, <4>5, <4>6
    <3>7. CASE ~(u.resv[t] >= c /\ u.free[b] >= c) /\ a.ok
      <4>1. x = x2
        BY <1>5, <3>2, <3>7
      <4>2. RoomFor(u, r, a)
        BY <1>7, <3>2, <3>7, NeedSolid
      <4>a. a.ok
        BY <3>7
      <4> HIDE DEF a
      <4> DEFINE s == TailFile(a)
      <4>3. /\ Writing(a) /\ Solid(a) /\ a.cur = u.cur /\ a.stuck = u.stuck /\ a.torn = u.torn
            /\ Len(a.files) + a.room = Len(u.files) + u.room
            /\ s \in a.open /\ a.free[s] >= r
            /\ \A f \in u.open : f \in a.open /\ a.resv[f] = u.resv[f]
        BY <4>2 DEF RoomFor
      <4>4. /\ p \in DOMAIN a.files /\ a.files[p] = u.cur
            /\ \A k \in DOMAIN u.files : k \in DOMAIN a.files /\ a.files[k] = u.files[k]
            /\ Grown(u, a) => /\ a.resv[s] = 0 /\ s \notin u.open /\ a.open = u.open \cup {s}
                              /\ Len(a.files) = Len(u.files) + 1
            /\ ~Grown(u, a) => s = t /\ a.open = u.open
        BY <1>6, <4>2, NeedPlaces
      <4>5. s # b /\ s # u.cur
        <5>1. t # b /\ t # u.cur
          BY <1>1, <2>5, <3>3
        <5> QED BY <1>1, <1>2, <4>4, <5>1
      <4>6. b \in a.open /\ a.resv[b] = u.resv[b] /\ r < a.resv[b] /\ r <= a.resv[b]
        <5>1. b \in a.open /\ a.resv[b] = u.resv[b]
          BY <1>2, <4>3
        <5> QED BY <1>4, <1>7, <3>2, <5>1
      <4>7. Moved(a, s, b, r, x2)
        BY <1>7, <4>3, <4>5, <4>6, MoveIs
      <4>8. Solid(x2)
        BY <1>7, <4>3, <4>5, <4>6, SolidToTail
      <4>b. s = TailFile(a)
        OBVIOUS
      <4> HIDE DEF x2, s
      <4>9. /\ Writing(x) /\ x.open = a.open /\ x.cur = u.cur /\ x.files = a.files
            /\ x.room = a.room /\ x.ok /\ x.stuck = u.stuck /\ x.torn = u.torn
            /\ x.resv[b] = u.resv[b] - r /\ x.resv[s] = a.resv[s] + r
            /\ \A f \in Files : f # b /\ f # s => x.resv[f] = a.resv[f]
        BY <4>1, <4>3, <4>6, <4>7, <4>a DEF Moved
      <4>10. Visited(u, x, T, p)
        BY <4>1, <4>3, <4>4, <4>8, <4>9 DEF Visited
      <4>11. Given(x, n)
        <5>1. u.cur \in Files /\ u.cur # s /\ u.cur # b
          BY <1>1, <1>2, <4>5
        <5>2. x.resv[u.cur] = u.resv[u.cur]
          BY <1>1, <4>3, <4>9, <5>1
        <5> QED BY <4>9, <5>2 DEF Given
      <4>12. TailFile(x) = s
        BY <4>9, <4>b DEF TailFile
      <4>13. Even(x.resv[b])
        BY <1>4, <1>7, <4>9
      <4>14. \A f \in u.open : f > u.cur /\ f # b /\ f # t /\ f # s => Even(x.resv[f])
        <5> SUFFICES ASSUME NEW f \in u.open, f > u.cur, f # b, f # t, f # s PROVE Even(x.resv[f])
          OBVIOUS
        <5>1. f \in Files /\ a.resv[f] = u.resv[f]
          BY <1>1, <4>3
        <5> QED BY <3>4, <4>9, <5>1
      <4>15. CASE ~Grown(u, a)
        <5>1. s = t /\ a.open = u.open
          BY <4>4, <4>15
        <5>2. x.resv[t] = u.resv[t] + r
          BY <1>1, <4>3, <4>9, <5>1
        <5>3. Evens(x)
          BY <3>3, <4>9, <4>13, <4>14, <5>1, <5>2 DEF Evens
        <5> QED BY <4>9, <4>10, <4>11, <5>3
      <4>16. CASE Grown(u, a)
        <5>1. /\ a.resv[s] = 0 /\ s \notin u.open /\ a.open = u.open \cup {s}
              /\ Len(a.files) = Len(u.files) + 1 /\ t # s
          BY <1>1, <4>4, <4>16
        <5>2. x.resv[s] = r
          BY <1>7, <4>9, <5>1
        <5>3. t \in Files /\ x.resv[t] = u.resv[t]
          BY <1>1, <2>5, <4>3, <4>9, <5>1
        <5>4. u.resv[t] > c
          <6>1. u.resv[t] > Cap - r
            BY <1>6, <1>7, <3>3, <4>2, <4>16, NeedsMore
          <6> QED BY <1>3, <1>7, <3>2, <3>3, <6>1
        <5>5. Even(x.resv[t] - c) /\ x.resv[t] > c
          <6> DEFINE z == u.resv[t] + r
          <6>1. z \in Int /\ Even(z) /\ x.resv[t] - c = z - Short
            BY <1>3, <1>7, <3>2, <3>3, <5>3
          <6> HIDE DEF z
          <6>2. Even(z - Short)
            BY <1>3, <6>1, EvenSum, EvenUnits
          <6> QED BY <5>3, <5>4, <6>1, <6>2
        <5>6. Even(x.resv[s] + c)
          BY <3>2, <5>2, EvenUnits
        <5> DEFINE k == Len(u.files)
        <5>7. k \in DOMAIN x.files /\ x.files[k] = t /\ k < Len(x.files) /\ k >= i + 1
          <6>1. k \in DOMAIN u.files /\ u.files[k] = t
            BY <1>2, <1>6 DEF TailFile
          <6>2. k \in DOMAIN a.files /\ a.files[k] = t
            BY <4>4, <6>1
          <6>3. k < Len(x.files) /\ k >= i + 1
            BY <1>2, <2>2, <2>3, <2>4, <2>7, <4>9, <5>1
          <6> QED BY <4>9, <6>2, <6>3
        <5> HIDE DEF k
        <5>8. s # T
          BY <5>1
        <5>9. \A f \in x.open : f > x.cur /\ f # x.files[k] /\ f # s => Even(x.resv[f])
          BY <4>9, <4>13, <4>14, <5>1, <5>7
        <5>10. Owes(x, T, k, c)
          BY <3>2, <4>12, <5>5, <5>6, <5>7, <5>8, <5>9 DEF Owes
        <5>11. Owed(x, T, i + 1)
          BY <3>2, <5>7, <5>10 DEF Owed
        <5> QED BY <4>9, <4>10, <4>11, <5>11
      <4> QED BY <4>15, <4>16
    <3> QED BY <3>5, <3>6, <3>7
  <2> QED BY <2>6, <2>7
<1> QED BY <1>11, <1>12

\* What the visits make of v, one by one.
LEMMA RestRounds ==
  ASSUME NEW v, Writing(v), Honest(v), NEW m \in Int, NEW p, p = PosOf(v, v.cur)
  PROVE  \E l : /\ l[0] = v /\ balanceRest(v, m) = l[Turns(v)]
                /\ \A k \in 0..Turns(v) : l[k] \in Rests(v)
                /\ \A k \in 1..Turns(v) :
                     l[k] = IF l[k - 1].ok /\ p + k - 1 <= Len(l[k - 1].files)
                            THEN restStep(l[k - 1], p + k - 1, IF p + k - 1 = p THEN m ELSE 0)
                            ELSE l[k - 1]
<1> DEFINE X == Rests(v)
           n == Turns(v)
           first == PosOf(v, v.cur)
           Visit(u, i) == IF u.ok /\ i <= Len(u.files)
                          THEN restStep(u, i, IF i = first THEN m ELSE 0) ELSE u
           rest[k \in 0..n] == IF k = 0 THEN v ELSE Visit(rest[k - 1], first + k - 1)
           F == [k \in 1..n |-> [u \in X |-> Visit(u, first + k - 1)]]
<1>1. v \in X /\ first \in DOMAIN v.files
  BY GrowsReflexive, TailIsOpen DEF Around, Rests, Writing, Chain
<1>2. n \in Nat /\ first \in Nat /\ first >= 1
  <2>1. v.files \in Seq(Files) /\ v.room \in Nat
    BY WalFields DEF Writing, Chain
  <2> QED BY <1>1, <2>1 DEF Turns
<1>3. balanceRest(v, m) = rest[n]
  BY DEF balanceRest
<1>4. ASSUME NEW u \in X, NEW k \in 1..n PROVE Visit(u, first + k - 1) \in X
  <2> DEFINE i == first + k - 1
             c == IF i = first THEN m ELSE 0
  <2>1. i \in Nat /\ i >= first /\ i >= 1 /\ c \in Int
    BY <1>2
  <2> HIDE DEF first, i, c
  <2>2. CASE u.ok /\ i <= Len(u.files)
    <3>1. u.files \in Seq(Files)
      BY WalFields DEF Rests, Around
    <3>2. i \in DOMAIN u.files
      BY <2>1, <2>2, <3>1
    <3>3. restStep(u, i, c) \in X
      BY <2>1, <2>2, <3>2, RestStep DEF first
    <3> QED BY <2>2, <3>3 DEF i, c
  <2>3. CASE ~(u.ok /\ i <= Len(u.files))
    BY <2>3 DEF i
  <2> QED BY <2>2, <2>3
<1>a. /\ Turns(v) = n /\ p = first
      /\ \A u, i : Visit(u, i) = IF u.ok /\ i <= Len(u.files)
                                 THEN restStep(u, i, IF i = first THEN m ELSE 0) ELSE u
  OBVIOUS
<1> HIDE DEF X, Visit, n, first
<1>5. F \in [1..n -> [X -> X]]
  BY <1>4
<1>6. \A k \in 1..n : \A u \in X : F[k][u] = Visit(u, first + k - 1)
  OBVIOUS
<1> HIDE DEF F
<1>7. PICK f \in [0..n -> X] : f[0] = v /\ \A k \in 1..n : f[k] = F[k][f[k - 1]]
  <2> HIDE DEF rest
  <2>1. PICK f : Iterates(X, v, n, F, f)
    BY <1>1, <1>2, <1>5, IteratesExist
  <2> QED BY <2>1 DEF Iterates
<1>8. f = [k \in 0..n |-> IF k = 0 THEN v ELSE Visit(f[k - 1], first + k - 1)]
  <2>1. ASSUME NEW k \in 0..n PROVE f[k] = IF k = 0 THEN v ELSE Visit(f[k - 1], first + k - 1)
    <3>1. k # 0 => k \in 1..n /\ k - 1 \in 0..n
      BY <1>2
    <3> QED BY <1>6, <1>7, <3>1
  <2> QED BY <2>1
<1>9. rest = [k \in 0..n |-> IF k = 0 THEN v ELSE Visit(rest[k - 1], first + k - 1)]
  BY <1>8
<1> HIDE DEF rest
<1>10. rest[0] = v /\ \A k \in 1..n : rest[k] = Visit(rest[k - 1], first + k - 1)
  BY <1>2, <1>9
<1>11. \A k \in 1..n :
         rest[k] = IF rest[k - 1].ok /\ p + k - 1 <= Len(rest[k - 1].files)
                   THEN restStep(rest[k - 1], p + k - 1, IF p + k - 1 = p THEN m ELSE 0)
                   ELSE rest[k - 1]
  BY <1>10, <1>a
<1>12. ASSUME NEW k \in 0..n PROVE rest[k] \in X
  <2>1. k \in Nat /\ \A i \in 1..k : i \in 1..n
    BY <1>2
  <2>2. rest[0] \in X
    BY <1>1, <1>10
  <2>3. \A i \in 1..k : rest[i - 1] \in X => rest[i] \in X
    BY <1>4, <1>10, <2>1
  <2> QED BY <2>1, <2>2, <2>3, LoopStays
<1> QED BY <1>3, <1>10, <1>11, <1>12, <1>a DEF X

\* After k visits.
Rested(v, u, T, p, n, k) ==
  /\ Visited(v, u, T, p)
  /\ u.ok => IF k = 0 THEN Lent(u, T, n) /\ u.resv[u.cur] >= n
             ELSE Given(u, n) /\ (Evens(u) \/ Owed(u, T, p + k))
  /\ ~u.ok => TailFile(u) # T \/ Lent(u, T, n)

\* One more.
LEMMA RestMore ==
  ASSUME NEW v, NEW u, NEW p \in Nat, NEW n \in Int, n >= Short, n <= Cap, NEW T,
         NEW k \in Nat, Rested(v, u, T, p, n, k), u.ok,
         NEW x, x = IF p + k <= Len(u.files)
                    THEN restStep(u, p + k, IF p + k = p THEN n ELSE 0) ELSE u
  PROVE  Rested(v, x, T, p, n, k + 1)
<1>1. /\ Writing(u) /\ Solid(u) /\ ~u.stuck /\ u.torn = v.torn /\ u.cur = v.cur /\ T \in u.open
      /\ p \in DOMAIN u.files /\ u.files[p] = u.cur
      /\ Len(u.files) + u.room = Len(v.files) + v.room
  BY DEF Rested, Visited
<1>2. p >= 1 /\ Len(u.files) \in Nat /\ DOMAIN u.files = 1..Len(u.files) /\ p <= Len(u.files)
  BY <1>1, Places
<1>3. ASSUME Visited(u, x, T, p) PROVE Visited(v, x, T, p)
  BY <1>1, <1>3 DEF Visited
<1>4. CASE k = 0
  <2>1. x = restStep(u, p, n)
    BY <1>2, <1>4
  <2>2. Lent(u, T, n) /\ u.resv[u.cur] >= n
    BY <1>4 DEF Rested
  <2> DEFINE y == restStep(u, p, n)
  <2>3. Visited(u, y, T, p)
    BY <1>1, <2>2, FirstVisit
  <2>4. y.ok => Given(y, n) /\ (Evens(y) \/ Owed(y, T, p + 1))
    BY <1>1, <2>2, FirstVisit
  <2>5. ~y.ok => Lent(y, T, n)
    BY <1>1, <2>2, FirstVisit
  <2>6. x = y
    BY <2>1
  <2> HIDE DEF y
  <2>7. p + (k + 1) = p + 1 /\ k + 1 # 0
    BY <1>4
  <2> QED BY <1>3, <2>3, <2>4, <2>5, <2>6, <2>7 DEF Rested
<1>5. CASE k # 0
  <2>1. Given(u, n) /\ (Evens(u) \/ Owed(u, T, p + k))
    BY <1>5 DEF Rested
  <2> DEFINE i == p + k
  <2>2. i \in Nat /\ i > p /\ i # p /\ p + (k + 1) = i + 1 /\ k + 1 # 0
    BY <1>5
  <2>3. x = (IF i <= Len(u.files) THEN restStep(u, i, 0) ELSE u) /\ (Evens(u) \/ Owed(u, T, i))
    BY <2>1, <2>2
  <2> HIDE DEF i
  <2>4. CASE i <= Len(u.files)
    <3> DEFINE y == restStep(u, i, 0)
    <3>1. i \in DOMAIN u.files /\ x = y
      BY <1>2, <2>2, <2>3, <2>4
    <3>2. Cap >= Short
      BY Numbers DEF Cap
    <3>3. Visited(u, y, T, p)
      BY <1>1, <2>1, <2>2, <2>3, <3>1, <3>2, LaterVisit
    <3>4. y.ok => Given(y, n) /\ (Evens(y) \/ Owed(y, T, i + 1))
      BY <1>1, <2>1, <2>2, <2>3, <3>1, <3>2, LaterVisit
    <3>5. ~y.ok => TailFile(y) # T
      BY <1>1, <2>1, <2>2, <2>3, <3>1, <3>2, LaterVisit
    <3> HIDE DEF y
    <3> QED BY <1>3, <2>2, <3>1, <3>3, <3>4, <3>5 DEF Rested
  <2>5. CASE ~(i <= Len(u.files))
    <3>1. x = u
      BY <2>3, <2>5
    <3>2. Evens(u)
      <4>1. \A q \in DOMAIN u.files : ~(q >= i)
        BY <1>2, <2>2, <2>5
      <4> QED BY <2>3, <4>1 DEF Owed
    <3>3. Visited(v, u, T, p)
      BY DEF Rested
    <3> QED BY <2>1, <2>2, <3>1, <3>2, <3>3 DEF Rested
  <2> QED BY <2>4, <2>5
<1> QED BY <1>4, <1>5

\* The visits end with the reservation at the current file and multiples of Short elsewhere, or
\* for want of space with the reservation where it was or another file at the tail.
LEMMA RestEnds ==
  ASSUME NEW v, Writing(v), Solid(v), ~v.stuck, v.ok, NEW n \in Int, n >= Short, n <= Cap,
         NEW T, Lent(v, T, n), v.resv[v.cur] >= n, NEW u, u = balanceRest(v, n)
  PROVE  /\ Writing(u) /\ Solid(u) /\ ~u.stuck /\ u.torn = v.torn
         /\ u.ok => Ready(u, n)
         /\ ~u.ok => TailFile(u) # T \/ Lent(u, T, n)
<1> DEFINE N == Turns(v)
           p == PosOf(v, v.cur)
<1>0. p \in DOMAIN v.files /\ v.files[p] = v.cur
  BY TailIsOpen
<1>1. PICK l : /\ l[0] = v /\ u = l[N]
               /\ \A k \in 1..N :
                    l[k] = IF l[k - 1].ok /\ p + k - 1 <= Len(l[k - 1].files)
                           THEN restStep(l[k - 1], p + k - 1, IF p + k - 1 = p THEN n ELSE 0)
                           ELSE l[k - 1]
  BY RestRounds DEF Honest
<1>2. v \in WalRec /\ v.files \in Seq(Files) /\ v.room \in Nat
  BY WalFields DEF Writing, Chain
<1>3. N \in Nat /\ N >= 1 /\ N > Len(v.files) + v.room /\ p \in Nat /\ p >= 1
  BY <1>0, <1>2 DEF Turns
<1> HIDE DEF N, p
<1> DEFINE P == {k \in 0..N : Rested(v, l[k], T, p, n, k)}
           id == [k \in 0..N |-> k]
<1>4. Rested(v, v, T, p, n, 0)
  <2>1. Visited(v, v, T, p)
    BY <1>0 DEF Visited, Lent
  <2> QED BY <2>1 DEF Rested
<1>5. id[0] \in P
  BY <1>1, <1>3, <1>4
<1>6. ASSUME NEW k \in 1..N, id[k - 1] \in P PROVE id[k] \in P
  <2> DEFINE h == k - 1
             x == l[k - 1]
  <2>1. k \in 0..N /\ h \in 0..N /\ h \in Nat /\ h + 1 = k /\ p + k - 1 = p + h /\ k # 0
    BY <1>3
  <2>2. Rested(v, x, T, p, n, h)
    BY <1>6, <2>1
  <2>3. l[k] = IF x.ok /\ p + h <= Len(x.files)
               THEN restStep(x, p + h, IF p + h = p THEN n ELSE 0) ELSE x
    BY <1>1, <2>1
  <2> HIDE DEF h, x
  <2>4. CASE x.ok
    <3> DEFINE y == IF p + h <= Len(x.files)
                    THEN restStep(x, p + h, IF p + h = p THEN n ELSE 0) ELSE x
    <3>1. l[k] = y
      BY <2>3, <2>4
    <3>2. Rested(v, y, T, p, n, h + 1)
      BY <1>3, <2>1, <2>2, <2>4, RestMore
    <3> HIDE DEF y
    <3> QED BY <2>1, <3>1, <3>2
  <2>5. CASE ~x.ok
    <3>1. l[k] = x
      BY <2>3, <2>5
    <3>2. Rested(v, x, T, p, n, k)
      BY <2>2, <2>5 DEF Rested
    <3> QED BY <2>1, <3>1, <3>2
  <2> QED BY <2>4, <2>5
<1> HIDE DEF P
<1>7. id[N] \in P
  <2> HIDE DEF id
  <2> QED BY <1>3, <1>5, <1>6, LoopStays
<1>8. Rested(v, u, T, p, n, N)
  BY <1>1, <1>3, <1>7 DEF P
<1>9. /\ Writing(u) /\ Solid(u) /\ ~u.stuck /\ u.torn = v.torn
      /\ p \in DOMAIN u.files /\ u.files[p] = u.cur
      /\ Len(u.files) + u.room = Len(v.files) + v.room
  BY <1>8 DEF Rested, Visited
<1>10. u.ok => Ready(u, n)
  <2> SUFFICES ASSUME u.ok PROVE Ready(u, n)
    OBVIOUS
  <2>1. Given(u, n) /\ (Evens(u) \/ Owed(u, T, p + N))
    BY <1>3, <1>8 DEF Rested
  <2>2. Len(u.files) \in Nat /\ DOMAIN u.files = 1..Len(u.files)
    BY <1>9, Places
  <2>3. u.room \in Nat /\ Len(v.files) \in Nat
    BY <1>2, <1>9, WalFields DEF Writing, Chain
  <2>4. \A q \in DOMAIN u.files : ~(q >= p + N)
    BY <1>2, <1>3, <1>9, <2>2, <2>3
  <2> QED BY <1>9, <2>1, <2>4 DEF Owed, Ready, Given
<1> QED BY <1>8, <1>9, <1>10 DEF Rested

-----------------------------------------------------------------------------
(* A reservation is taken back from the wrong file only when it fails.     *)

\* Not when space moves,
LEMMA MoveTorn ==
  ASSUME NEW v \in WalRec, NEW to, NEW from, NEW n
  PROVE  moveResv(v, to, from, n).torn = v.torn
BY DEF moveResv, WalRec

\* A round of balance's loop does nothing of the kind.
LEMMA StepTorn ==
  ASSUME NEW v, Writing(v)
  PROVE  balanceStep(v).torn = v.torn
<1> DEFINE m == v.resv[v.cur]
           a == needFree(v, m)
           b == moveResv(a, TailFile(a), a.cur, m)
           c == useNext(b)
           d == [b EXCEPT !.ok = FALSE, !.stuck = TRUE]
<1>1. m \in Int
  BY FileFields DEF Writing, Chain
<1>2. balanceStep(v) = IF a.ok THEN (IF HasNext(b) THEN c ELSE d) ELSE a
  BY DEF balanceStep, goOn
<1> HIDE DEF m
<1>3. Writing(a) /\ a.torn = v.torn
  BY <1>1, NeedValues
<1> HIDE DEF a
<1>4. TailFile(a) \in a.open /\ a.cur \in a.open
  BY <1>3, TailIsOpen
<1>5. Writing(b) /\ b.torn = a.torn
  BY <1>1, <1>3, <1>4, MoveResv DEF Resources
<1> HIDE DEF b
<1>6. HasNext(b) => c.torn = b.torn
  BY <1>5, UseNext
<1>7. d.torn = b.torn
  BY <1>5 DEF Writing, Chain, WalRec
<1> HIDE DEF c, d
<1> QED BY <1>2, <1>3, <1>5, <1>6, <1>7

\* Nor a visit of balanceRest.
LEMMA VisitTorn ==
  ASSUME NEW u, Writing(u), NEW i \in DOMAIN u.files, NEW n \in Int
  PROVE  restStep(u, i, n).torn = u.torn
<1> DEFINE b == u.files[i]
           r == Rest(u.resv[b] - n)
           c == Short - r
           a == needFree(u, r)
           x == moveResv(u, b, TailFile(u), c)
           y == moveResv(a, TailFile(a), b, r)
<1>1. restStep(u, i, n) \in {u, x, y, a}
  BY DEF restStep
<1>2. u \in WalRec
  BY DEF Writing, Chain
<1>3. u.files \in Seq(Files) /\ b \in Files
  BY <1>2, WalFields
<1>4. u.resv[b] - n \in Int
  BY <1>2, <1>3, FileFields
<1>5. r \in Int
  BY <1>4, RestInt
<1> HIDE DEF b, r, c
<1>6. Writing(a) /\ a.torn = u.torn
  BY <1>5, NeedValues
<1> HIDE DEF a
<1>7. x.torn = u.torn
  BY <1>2, MoveTorn
<1>8. y.torn = a.torn
  BY <1>6, MoveTorn DEF Writing, Chain
<1> QED BY <1>1, <1>6, <1>7, <1>8

\* Nor balance.
LEMMA BalanceTorn ==
  ASSUME NEW v, Writing(v), ~v.stuck, NEW n \in Int, NEW u, u = balance(v, n)
  PROVE  u.torn = v.torn
<1> DEFINE N == Turns(v)
           z == balanceLoop(v, n)
           X == {v.torn}
<1>1. v \in WalRec /\ v.files \in Seq(Files) /\ v.room \in Nat
  BY WalFields DEF Writing, Chain
<1>2. N \in Nat
  BY <1>1 DEF Turns
<1>3. z.torn = v.torn
  <2>1. PICK l : /\ l[0] = v /\ z = l[N]
                 /\ \A k \in 0..N : l[k] \in Around(v)
                 /\ \A k \in 1..N :
                      l[k] = IF l[k - 1].ok /\ l[k - 1].resv[l[k - 1].cur] < n
                             THEN balanceStep(l[k - 1]) ELSE l[k - 1]
    BY LoopIs DEF Honest
  <2> HIDE DEF z, N
  <2> DEFINE t == [k \in 0..N |-> l[k].torn]
  <2>2. t[0] \in X
    BY <1>2, <2>1
  <2>3. ASSUME NEW k \in 1..N, t[k - 1] \in X PROVE t[k] \in X
    <3>1. k \in 0..N /\ k - 1 \in 0..N
      BY <1>2
    <3>2. Writing(l[k - 1])
      BY <2>1, <3>1 DEF Around
    <3>3. balanceStep(l[k - 1]).torn = l[k - 1].torn
      BY <3>2, StepTorn
    <3>4. l[k].torn = l[k - 1].torn
      BY <2>1, <3>3
    <3> QED BY <2>3, <3>1, <3>4
  <2> HIDE DEF X
  <2>4. t[N] \in X
    <3> HIDE DEF t
    <3> QED BY <1>2, <2>2, <2>3, LoopStays
  <2> QED BY <1>2, <2>1, <2>4 DEF X
<1>4. z \in Around(v)
  BY BalanceLoop DEF Honest
<1>5. Writing(z) /\ Honest(z)
  BY <1>4 DEF Around
<1>6. u = balanceRest(z, n)
  BY DEF balance
<1> HIDE DEF z, N, X
<1> DEFINE M == Turns(z)
           p == PosOf(z, z.cur)
           Y == {z.torn}
<1>7. z.files \in Seq(Files) /\ z.room \in Nat /\ p \in DOMAIN z.files
  BY <1>5, WalFields, TailIsOpen DEF Writing, Chain
<1>8. M \in Nat /\ p \in Nat /\ p >= 1
  BY <1>7 DEF Turns
<1>9. PICK l : /\ l[0] = z /\ u = l[M]
               /\ \A k \in 0..M : l[k] \in Rests(z)
               /\ \A k \in 1..M :
                    l[k] = IF l[k - 1].ok /\ p + k - 1 <= Len(l[k - 1].files)
                           THEN restStep(l[k - 1], p + k - 1, IF p + k - 1 = p THEN n ELSE 0)
                           ELSE l[k - 1]
  BY <1>5, <1>6, RestRounds
<1> HIDE DEF M, p
<1> DEFINE t == [k \in 0..M |-> l[k].torn]
<1>10. t[0] \in Y
  BY <1>8, <1>9
<1>11. ASSUME NEW k \in 1..M, t[k - 1] \in Y PROVE t[k] \in Y
  <2> DEFINE x == l[k - 1]
             i == p + k - 1
             e == IF i = p THEN n ELSE 0
  <2>1. k \in 0..M /\ k - 1 \in 0..M /\ i \in Nat /\ i >= 1 /\ e \in Int
    BY <1>8
  <2>2. x \in Rests(z)
    BY <1>9, <2>1
  <2>3. l[k] = IF x.ok /\ i <= Len(x.files) THEN restStep(x, i, e) ELSE x
    BY <1>9
  <2>4. t[k] = l[k].torn /\ t[k - 1] = x.torn
    BY <2>1
  <2> HIDE DEF x, i, e
  <2>5. Writing(x) /\ x \in WalRec
    BY <2>2 DEF Rests, Around
  <2>6. CASE x.ok /\ i <= Len(x.files)
    <3>1. x.files \in Seq(Files)
      BY <2>5, WalFields
    <3>2. i \in DOMAIN x.files
      BY <2>1, <2>6, <3>1
    <3>3. restStep(x, i, e).torn = x.torn
      BY <2>1, <2>5, <3>2, VisitTorn
    <3> QED BY <1>11, <2>3, <2>4, <2>6, <3>3
  <2>7. CASE ~(x.ok /\ i <= Len(x.files))
    BY <1>11, <2>3, <2>4, <2>7
  <2> QED BY <2>6, <2>7
<1> HIDE DEF Y
<1>12. t[M] \in Y
  <2> HIDE DEF t
  <2> QED BY <1>8, <1>10, <1>11, LoopStays
<1>13. u.torn = z.torn
  BY <1>8, <1>9, <1>12 DEF Y
<1> QED BY <1>3, <1>13

\* After a failure of the loop no file is visited.
LEMMA RestIdle ==
  ASSUME NEW v, Writing(v), Honest(v), ~v.ok, NEW n \in Int
  PROVE  balanceRest(v, n) = v
<1> SUFFICES ASSUME NEW u, u = balanceRest(v, n) PROVE u = v
  OBVIOUS
<1> DEFINE N == Turns(v)
           p == PosOf(v, v.cur)
           X == {v}
<1>1. v \in WalRec /\ v.files \in Seq(Files) /\ v.room \in Nat
  BY WalFields DEF Writing, Chain
<1>2. N \in Nat
  BY <1>1 DEF Turns
<1>3. PICK l : /\ l[0] = v /\ u = l[N]
               /\ \A k \in 0..N : l[k] \in Rests(v)
               /\ \A k \in 1..N :
                    l[k] = IF l[k - 1].ok /\ p + k - 1 <= Len(l[k - 1].files)
                           THEN restStep(l[k - 1], p + k - 1, IF p + k - 1 = p THEN n ELSE 0)
                           ELSE l[k - 1]
  BY RestRounds
<1> HIDE DEF N, p
<1>4. l[0] \in X /\ \A k \in 1..N : l[k - 1] \in X => l[k] \in X
  BY <1>3
<1> HIDE DEF X
<1>5. l[N] \in X
  BY <1>2, <1>4, LoopStays
<1> QED BY <1>3, <1>5 DEF X

\* balance with n bytes reserved of file T.
LEMMA BalanceEnds ==
  ASSUME NEW v, Writing(v), ~v.stuck, Solid(v), NEW T \in v.open, NEW n \in Int,
         n >= Short, n <= Cap, Lent(v, T, n), NEW u, u = balance(v, n)
  PROVE  /\ Writing(u) /\ Solid(u) /\ ~u.stuck
         /\ u.ok => Ready(u, n)
         /\ ~u.ok => TailFile(u) # T \/ Lent(u, T, n)
<1> DEFINE z == balanceLoop(v, n)
<1>1. n >= 0
  BY Numbers
<1>2. Writing(z) /\ Solid(z) /\ Lent(z, T, n) /\ ~z.stuck
  BY <1>1, LoopEnds
<1>3. z.ok => z.resv[z.cur] >= n
  BY <1>1, LoopEnds
<1>4. u = balanceRest(z, n)
  BY DEF balance
<1> HIDE DEF z
<1>5. CASE z.ok
  BY <1>2, <1>3, <1>4, <1>5, RestEnds
<1>6. CASE ~z.ok
  <2>1. u = z
    BY <1>2, <1>4, <1>6, RestIdle DEF Honest
  <2> QED BY <1>2, <1>6, <2>1
<1> QED BY <1>5, <1>6

\* Space of the last file is reserved, or given back to it.
LEMMA TakeTail ==
  ASSUME NEW v, Writing(v), Solid(v), NEW n \in Int, n <= v.free[TailFile(v)],
         v.resv[TailFile(v)] + n >= 0, NEW u, u = Take(v, TailFile(v), n)
  PROVE  /\ Writing(u) /\ Solid(u) /\ u.open = v.open /\ u.cur = v.cur
         /\ u.files = v.files /\ u.ok = v.ok /\ u.stuck = v.stuck /\ u.torn = v.torn
         /\ u.resv[TailFile(v)] = v.resv[TailFile(v)] + n
         /\ \A f \in v.open : f # TailFile(v) => u.resv[f] = v.resv[f]
<1> DEFINE t == TailFile(v)
<1>1. t \in v.open /\ v.open \subseteq Files /\ v.cur \in Nat
      /\ \A f \in v.open : /\ f \in Nat /\ v.free[f] \in Int /\ v.resv[f] \in Int
                           /\ v.cur <= f /\ f <= t
  BY OpenNumbers
<1>2. u = Take(v, t, n) /\ n <= v.free[t] /\ v.resv[t] + n >= 0
  OBVIOUS
<1>3. TailFile(v) = t
  OBVIOUS
<1> HIDE DEF t
<1>4. /\ Writing(u) /\ u.open = v.open /\ u.cur = v.cur /\ u.files = v.files
      /\ u.ok = v.ok /\ u.stuck = v.stuck /\ u.torn = v.torn
      /\ u.resv[t] = v.resv[t] + n /\ u.free[t] = v.free[t] - n
      /\ \A f \in Files : f # t => u.free[f] = v.free[f] /\ u.resv[f] = v.resv[f]
      /\ Totals(v) => Totals(u)
  <2>1. t \in v.open /\ u = Take(v, t, n)
    BY <1>1, <1>2
  <2> HIDE <1>1, <1>2, <1>3
  <2>2. /\ Writing(u) /\ u.open = v.open /\ u.cur = v.cur /\ u.files = v.files
        /\ u.ok = v.ok /\ u.stuck = v.stuck /\ u.torn = v.torn
    BY <2>1, TakeValues
  <2>3. u.resv[t] = v.resv[t] + n /\ u.free[t] = v.free[t] - n
    BY <2>1, TakeValues
  <2>4. \A f \in Files : f # t => u.free[f] = v.free[f] /\ u.resv[f] = v.resv[f]
    BY <2>1, TakeValues
  <2>5. Totals(v) => Totals(u)
    BY <2>1, TakeValues
  <2> QED BY <2>2, <2>3, <2>4, <2>5
<1>5. Totals(u)
  BY <1>4 DEF Solid
<1>6. ASSUME NEW f \in v.open
      PROVE  /\ u.free[f] >= 0 /\ u.resv[f] >= 0
             /\ f > v.cur => u.free[f] + u.resv[f] = Cap
             /\ \A g \in v.open : f > v.cur /\ g > f => u.resv[f] > 0
  <2>1. /\ v.free[f] >= 0 /\ v.resv[f] >= 0
        /\ f > v.cur => v.free[f] + v.resv[f] = Cap
        /\ \A g \in v.open : f > v.cur /\ g > f => v.resv[f] > 0
    BY DEF Solid
  <2>2. f \in Nat /\ v.free[f] \in Int /\ v.resv[f] \in Int /\ f \in Files
    BY <1>1
  <2>3. CASE f = t
    <3>1. \A g \in v.open : ~(g > f)
      BY <1>1, <2>3
    <3>2. u.resv[f] = v.resv[f] + n /\ u.free[f] = v.free[f] - n
          /\ n <= v.free[f] /\ v.resv[f] + n >= 0
      BY <1>2, <1>4, <2>3
    <3> QED BY <2>1, <2>2, <3>1, <3>2
  <2>4. CASE f # t
    BY <1>4, <2>1, <2>2, <2>4
  <2> QED BY <2>3, <2>4
<1>7. Solid(u)
  BY <1>4, <1>5, <1>6 DEF Solid
<1> QED BY <1>1, <1>3, <1>4, <1>7

\* What a reservation does to the budget of v.
Budgeted(v, n, u) ==
  /\ Writing(u) /\ ~u.stuck
  /\ u.ok => u.torn = v.torn /\ Ready(u, n)
  /\ ~u.ok => (u.torn = v.torn /\ Ready(u, 0)) \/ u.torn

\* A reservation at the tail.
LEMMA LastBudget ==
  ASSUME NEW v, Writing(v), v.ok, ~v.stuck, Ready(v, 0), NEW n \in Int, n >= Short, n <= Cap,
         v.free[TailFile(v)] >= n, NEW u, u = reserveLast(v, n)
  PROVE  Budgeted(v, n, u)
<1> DEFINE t == TailFile(v)
           x == Take(v, t, n)
           b == balance(x, n)
           m == 0 - n
           y == Take(b, TailFile(b), m)
           z == [y EXCEPT !.torn = @ \/ TailFile(b) # t]
<1>1. /\ t \in v.open /\ v.cur \in v.open /\ v.cur \in Nat
      /\ \A f \in v.open : /\ f \in Nat /\ v.free[f] \in Int /\ v.resv[f] \in Int
                           /\ v.cur <= f /\ f <= t
  BY OpenNumbers
<1>2. Solid(v) /\ Evens(v) /\ v.resv[v.cur] >= 0 /\ Even(v.resv[v.cur] - 0)
  BY DEF Ready
<1>3. v.resv[t] \in Int /\ v.resv[t] >= 0 /\ n > 0 /\ m \in Int /\ v.resv[t] + n >= 0 /\ n <= v.free[t]
  BY <1>1, <1>2, Numbers DEF Solid
<1>4. /\ Writing(x) /\ Solid(x) /\ x.open = v.open /\ x.cur = v.cur
      /\ ~x.stuck /\ x.torn = v.torn /\ x.resv[t] = v.resv[t] + n
      /\ \A f \in v.open : f # t => x.resv[f] = v.resv[f]
  BY <1>2, <1>3, TakeTail
<1>5. u = IF b.ok \/ b.stuck THEN b ELSE z
  BY DEF reserveLast, takeBack
<1> HIDE DEF t, x
<1>6. \A f \in v.open : Even(v.resv[f])
  <2> SUFFICES ASSUME NEW f \in v.open PROVE Even(v.resv[f])
    OBVIOUS
  <2>1. f = v.cur \/ f > v.cur
    BY <1>1
  <2>2. v.resv[v.cur] - 0 = v.resv[v.cur]
    BY <1>1
  <2> QED BY <1>2, <2>1, <2>2 DEF Evens
<1>7. Lent(x, t, n)
  <2>1. x.resv[t] - n = v.resv[t] /\ x.resv[t] >= n
    BY <1>3, <1>4
  <2> QED BY <1>1, <1>4, <1>6, <2>1 DEF Lent
<1>8. Writing(b) /\ Solid(b) /\ ~b.stuck
  BY <1>1, <1>4, <1>7, BalanceEnds
<1>9. b.ok => Ready(b, n)
  BY <1>1, <1>4, <1>7, BalanceEnds
<1>10. ~b.ok => TailFile(b) # t \/ Lent(b, t, n)
  BY <1>1, <1>4, <1>7, BalanceEnds
<1>11. b.torn = v.torn
  BY <1>4, BalanceTorn
<1> HIDE DEF b
<1>12. CASE b.ok
  BY <1>5, <1>8, <1>9, <1>11, <1>12 DEF Budgeted
<1>13. CASE ~b.ok
  <2> DEFINE s == TailFile(b)
  <2>0. s \in b.open
    BY <1>8, OpenNumbers
  <2>1. Writing(y) /\ y.stuck = b.stuck /\ y.torn = b.torn /\ y.ok = b.ok
    <3>1. y = Take(b, s, m)
      OBVIOUS
    <3> HIDE DEF s
    <3> QED BY <1>3, <1>8, <2>0, <3>1, TakeFields
  <2>a. TailFile(b) = s
    OBVIOUS
  <2>2. Lent(b, t, n) /\ s = t => Ready(y, 0) /\ y.cur = b.cur
    <3> SUFFICES ASSUME Lent(b, t, n), s = t PROVE Ready(y, 0) /\ y.cur = b.cur
      OBVIOUS
    <3>1. /\ t \in b.open /\ b.resv[t] >= n /\ Even(b.resv[t] - n)
          /\ \A f \in b.open : f # t => Even(b.resv[f])
      BY DEF Lent
    <3>2. b.resv[t] \in Int /\ b.free[t] \in Int /\ b.free[t] >= 0 /\ b.cur \in b.open
      BY <1>8, <3>1, OpenNumbers DEF Solid
    <3>3. m <= b.free[s] /\ b.resv[s] + m >= 0 /\ b.resv[s] + m = b.resv[t] - n
      BY <1>3, <3>1, <3>2
    <3>4. /\ Solid(y) /\ y.open = b.open /\ y.cur = b.cur /\ y.resv[s] = b.resv[s] + m
          /\ \A f \in b.open : f # s => y.resv[f] = b.resv[f]
      BY <1>3, <1>8, <3>3, TakeTail
    <3> HIDE DEF y, s
    <3>5. \A f \in y.open : Even(y.resv[f])
      <4>1. Even(y.resv[t])
        BY <3>1, <3>3, <3>4
      <4> QED BY <3>1, <3>4, <4>1
    <3>6. y.resv[y.cur] >= 0 /\ y.resv[y.cur] \in Int /\ y.cur \in y.open
      <4>1. y.cur \in y.open
        BY <3>2, <3>4
      <4>2. y.resv[y.cur] \in Int
        BY <2>1, <4>1, OpenNumbers
      <4> QED BY <3>4, <4>1, <4>2 DEF Solid
    <3>7. y.resv[y.cur] - 0 = y.resv[y.cur]
      BY <3>6
    <3> QED BY <3>4, <3>5, <3>6, <3>7 DEF Ready, Evens
  <2> HIDE DEF y, s, m
  <2> DEFINE q == y.torn \/ s # t
  <2>3. z = [y EXCEPT !.torn = q] /\ y \in WalRec /\ q \in BOOLEAN
    BY <2>1, <2>a DEF Writing, Chain, WalRec
  <2> HIDE DEF q, z
  <2>4. /\ z \in WalRec /\ z.files = y.files /\ z.cur = y.cur /\ z.next = y.next /\ z.use = y.use
        /\ z.open = y.open /\ z.reading = y.reading /\ z.total = y.total
        /\ z.list = y.list /\ z.room = y.room
        /\ z.free = y.free /\ z.resv = y.resv /\ z.ok = y.ok /\ z.stuck = y.stuck /\ z.torn = q
    BY <2>3 DEF WalRec
  <2>5. Writing(z)
    BY <2>1, <2>4 DEF Writing, Chain, Listed
  <2>6. u = z /\ ~z.ok /\ ~z.stuck
    BY <1>5, <1>8, <1>13, <2>1, <2>4
  <2>7. CASE s # t
    <3>1. z.torn
      BY <2>4, <2>7 DEF q
    <3> QED BY <2>5, <2>6, <3>1 DEF Budgeted
  <2>8. CASE s = t
    <3>1. Lent(b, t, n)
      BY <1>10, <1>13, <2>8, <2>a
    <3>2. Ready(y, 0)
      BY <2>2, <2>8, <3>1
    <3>3. Equal(y, z) /\ y.cur \in y.open
      BY <2>1, <2>4, OpenNumbers DEF Equal
    <3>4. Ready(z, 0)
      BY <3>2, <3>3, EqualBudget
    <3>5. z.torn = v.torn
      <4>1. y.torn \in BOOLEAN /\ y.torn = v.torn
        BY <1>11, <2>1, <2>3 DEF WalRec
      <4>2. q = y.torn
        BY <2>8, <4>1 DEF q
      <4> QED BY <2>4, <4>1, <4>2
    <3> QED BY <2>5, <2>6, <3>4, <3>5 DEF Budgeted
  <2> QED BY <2>7, <2>8
<1> QED BY <1>12, <1>13

\* A reservation when all is in order.
LEMMA ReserveBudget ==
  ASSUME NEW v, Writing(v), v.use, v.ok, ~v.stuck, Ready(v, 0), NEW n \in Int,
         n >= Short, n <= Cap, NEW u, u = reserve(v, n)
  PROVE  Budgeted(v, n, u)
<1> DEFINE a == needFree(v, n)
<1>1. /\ v.cur \in v.open /\ v.open \subseteq Files /\ v \in WalRec
      /\ \A f \in v.open : f \in Nat /\ v.free[f] \in Int /\ v.resv[f] \in Int
  BY OpenNumbers
<1>2. Solid(v) /\ Evens(v) /\ v.resv[v.cur] >= 0 /\ Even(v.resv[v.cur] - 0) /\ v.free[v.cur] >= 0
      /\ v.resv[v.cur] \in Int /\ v.free[v.cur] \in Int /\ v.cur \in Nat
  BY <1>1 DEF Ready, Solid
<1>3. n > 0 /\ Short > 0
  BY Numbers
<1>4. CASE v.free[v.cur] >= n
  <2> DEFINE x == Take(v, v.cur, n)
  <2>1. u = [x EXCEPT !.ok = TRUE]
    BY <1>4 DEF reserve
  <2>2. /\ Writing(x) /\ x.open = v.open /\ x.cur = v.cur /\ x.stuck = v.stuck /\ x.torn = v.torn
        /\ x.resv[v.cur] = v.resv[v.cur] + n /\ x.free[v.cur] = v.free[v.cur] - n
        /\ \A f \in Files : f # v.cur => x.free[f] = v.free[f] /\ x.resv[f] = v.resv[f]
        /\ Totals(v) => Totals(x)
    BY <1>1, TakeValues
  <2> HIDE DEF x
  <2>3. x \in WalRec
    BY <2>2 DEF Writing, Chain
  <2>4. /\ u \in WalRec /\ u.total = x.total /\ u.ok /\ u.free = x.free /\ u.resv = x.resv
        /\ Resources(x, u) /\ u.stuck = x.stuck
    BY <2>1, <2>3, Answered
  <2>5. Writing(u)
    BY <2>2, <2>4, ResourcesGrow
  <2>6. u.open = v.open /\ u.cur = v.cur /\ u.torn = v.torn
    BY <2>2, <2>4 DEF Resources
  <2>7. Solid(x)
    <3>1. \A f \in v.open : f > v.cur => f # v.cur /\ f \in Files
      BY <1>1, <1>2
    <3>2. \A f \in v.open : x.free[f] >= 0 /\ x.resv[f] >= 0
      <4>1. x.resv[v.cur] >= 0 /\ x.free[v.cur] >= 0
        BY <1>2, <1>3, <1>4, <2>2
      <4> QED BY <1>1, <1>2, <2>2, <4>1 DEF Solid
    <3>3. Totals(x)
      BY <1>2, <2>2 DEF Solid
    <3> QED BY <1>1, <1>2, <2>2, <3>1, <3>2, <3>3 DEF Solid
  <2>8. Evens(x)
    <3>1. \A f \in v.open : f > v.cur => f # v.cur /\ f \in Files
      BY <1>1, <1>2
    <3> QED BY <1>2, <2>2, <3>1 DEF Evens
  <2>9. x.resv[x.cur] - n = v.resv[v.cur] - 0 /\ x.resv[x.cur] >= n
    BY <1>2, <2>2
  <2>10. Ready(x, n)
    BY <1>2, <2>7, <2>8, <2>9 DEF Ready
  <2>11. Equal(x, u) /\ x.cur \in x.open
    BY <1>1, <2>2, <2>4, <2>6 DEF Equal
  <2>12. Ready(u, n)
    BY <2>10, <2>11, EqualBudget
  <2> QED BY <2>2, <2>4, <2>5, <2>6, <2>12 DEF Budgeted
<1>5. CASE ~(v.free[v.cur] >= n)
  <2>1. u = reserveLast(a, n) /\ v.free[v.cur] < n
    BY <1>2, <1>5 DEF reserve
  <2>2. Writing(a) /\ a.torn = v.torn /\ a.stuck = v.stuck
    BY NeedValues
  <2>a. a = needFree(v, n) /\ n >= 0
    BY <1>3
  <2> HIDE DEF a
  <2>3. CASE a.ok
    <3>1. RoomFor(v, n, a)
      BY <1>2, <2>3, <2>a, NeedSolid
    <3>2. /\ a.cur = v.cur /\ Solid(a) /\ a.free[TailFile(a)] >= n
          /\ \A f \in v.open : f \in a.open /\ a.resv[f] = v.resv[f]
      BY <3>1 DEF RoomFor
    <3>3. \A f \in a.open : f \in v.open \/ a.resv[f] = 0
      <4>1. CASE Grown(v, a)
        BY <4>1 DEF Grown
      <4>2. CASE ~Grown(v, a)
        BY <3>1, <4>2 DEF RoomFor
      <4> QED BY <4>1, <4>2
    <3>4. Evens(a)
      BY <1>2, <3>2, <3>3, EvenUnits DEF Evens
    <3>5. Ready(a, 0)
      BY <1>1, <1>2, <3>2, <3>4 DEF Ready
    <3>6. Budgeted(a, n, u)
      BY <2>1, <2>2, <2>3, <3>2, <3>5, LastBudget
    <3> QED BY <2>2, <3>6 DEF Budgeted
  <2>4. CASE ~a.ok
    <3>1. u = a
      BY <2>1, <2>4 DEF reserveLast
    <3>2. Equal(v, a)
      BY <1>2, <2>4, <2>a, NeedSolid
    <3>3. Ready(a, 0)
      BY <1>1, <3>2, EqualBudget
    <3> QED BY <2>2, <2>4, <3>1, <3>3 DEF Budgeted
  <2> QED BY <2>3, <2>4
<1> QED BY <1>4, <1>5

\* A reservation taken back from the wrong file has failed; such a mark stays.
LEMMA ReserveTorn ==
  ASSUME NEW v, Writing(v), v.use, v.ok, ~v.stuck, NEW n \in Int, NEW u, u = reserve(v, n)
  PROVE  /\ u.ok \/ u.stuck => u.torn = v.torn
         /\ v.torn => u.torn
<1> DEFINE a == needFree(v, n)
           t == TailFile(a)
           x == Take(a, t, n)
           b == balance(x, n)
           m == 0 - n
           y == Take(b, TailFile(b), m)
           z == [y EXCEPT !.torn = @ \/ TailFile(b) # t]
<1>1. CASE v.free[v.cur] >= n
  <2> DEFINE c == Take(v, v.cur, n)
  <2>1. u = [c EXCEPT !.ok = TRUE]
    BY <1>1 DEF reserve
  <2>2. c.torn = v.torn /\ c \in WalRec
    <3>1. v.cur \in v.open
      BY TailIsOpen
    <3> QED BY <3>1, TakeFields DEF Writing, Chain
  <2> HIDE DEF c
  <2>3. u.torn = c.torn
    BY <2>1, <2>2 DEF WalRec
  <2> QED BY <2>2, <2>3
<1>2. CASE ~(v.free[v.cur] >= n)
  <2>1. u = reserveLast(a, n)
    BY <1>2 DEF reserve
  <2>2. Writing(a) /\ a.torn = v.torn /\ a.stuck = v.stuck
    BY NeedValues
  <2> HIDE DEF a
  <2>3. t \in a.open
    BY <2>2, TailIsOpen
  <2>4. u = IF a.ok THEN (IF b.ok \/ b.stuck THEN b ELSE z) ELSE a
    BY <2>1 DEF reserveLast, takeBack
  <2> HIDE DEF t
  <2>5. Writing(x) /\ x.torn = a.torn /\ ~x.stuck
    BY <2>2, <2>3, TakeFields
  <2> HIDE DEF x
  <2>6. b.torn = a.torn
    BY <2>5, BalanceTorn
  <2>7. Writing(b)
    BY <2>5, Balance DEF Around, Honest
  <2> HIDE DEF b
  <2>8. y.torn = b.torn /\ y \in WalRec
    <3> DEFINE s == TailFile(b)
    <3>1. s \in b.open /\ y = Take(b, s, m) /\ m \in Int
      BY <2>7, TailIsOpen
    <3> HIDE DEF s, y, m
    <3> QED BY <2>7, <3>1, TakeFields DEF Writing, Chain
  <2> HIDE DEF y
  <2>9. z.torn <=> (y.torn \/ TailFile(b) # t)
    BY <2>8 DEF WalRec
  <2>10. z.ok = y.ok /\ z.stuck = y.stuck
    BY <2>8 DEF WalRec
  <2> HIDE DEF z
  <2>11. y.ok = b.ok /\ y.stuck = b.stuck
    <3> DEFINE s == TailFile(b)
    <3>1. s \in b.open /\ y = Take(b, s, m) /\ m \in Int
      BY <2>7, TailIsOpen DEF y
    <3> HIDE DEF s, y, m
    <3> QED BY <2>7, <3>1, TakeFields
  <2> QED BY <2>2, <2>4, <2>6, <2>8, <2>9, <2>10, <2>11
<1> QED BY <1>1, <1>2

-----------------------------------------------------------------------------
(* The budget of the log while the server works.                           *)

\* What is reserved of the current file for the write that is under way.
Due == CASE pc = "write" -> run.need [] pc = "body" -> run.need - Short [] OTHER -> 0

\* The log in use has the budget for it, and the reservation that made it has returned.
BudgetInv == Running /\ w.use /\ InBudget => pc # "hung" /\ Ready(w, Due)

\* What a command or a migration has reserved.
NeedInv ==
  pc \in {"write", "body"} =>
    run.need = IF run.moving # 0 THEN walResvMigrate(jobs[run.moving].kind) ELSE Needed

\* A reservation is taken back from the wrong file only when one has failed.
TornInv == w.torn => faults > 0

\* Without a fault an error is answered only when the log went out of use after a release.
AnswerInv == faults = 0 => answer = "ok" \/ (~w.use /\ w.spent > 0 /\ run.left = 0)

FundsInv == BudgetInv /\ NeedInv /\ TornInv /\ AnswerInv

\* The sizes that are reserved.
LEMMA Sizes ==
  ASSUME Roomy, NEW kind \in Kinds
  PROVE  /\ Extra[kind] \in Nat /\ Short \in Nat /\ Short > 0 /\ Cap \in Int
         /\ Short \in Int /\ Short <= Cap
         /\ WalResvPut(kind) = Short + Extra[kind] + Short
         /\ WalResvPut(kind) \in Int /\ WalResvPut(kind) >= Short /\ WalResvPut(kind) <= Cap
         /\ walResvMigrate(kind) = Short + Extra[kind]
         /\ walResvMigrate(kind) \in Int /\ walResvMigrate(kind) >= Short
         /\ walResvMigrate(kind) <= Cap
<1>1. Extra[kind] \in Nat
  BY SizesAssumption
<1>2. Short \in Nat /\ Short > 0 /\ Cap \in Int
  BY Numbers DEF Cap
<1>3. WalResvPut(kind) <= Cap
  BY DEF Roomy
<1> QED BY <1>1, <1>2, <1>3 DEF WalResvPut, walResvMigrate

\* The log with room for files.
LEMMA WithRoom ==
  ASSUME Disk(w, dir), Log(w, dir), NEW room \in Rooms, NEW y, y = [w EXCEPT !.room = room]
  PROVE  /\ y \in WalRec /\ y.ok /\ ~y.stuck /\ y.use = w.use /\ y.torn = w.torn
         /\ Equal(w, y) /\ (w.use => Writing(y))
<1>1. w \in WalRec /\ Chain(w) /\ w.ok /\ ~w.stuck
  BY DEF Disk, Chain
<1>2. room \in Nat /\ w.next + room <= MaxFiles + 1
  BY Numbers DEF Rooms
<1>3. /\ y \in WalRec /\ y.files = w.files /\ y.cur = w.cur /\ y.next = w.next /\ y.use = w.use
      /\ y.ok = w.ok /\ y.stuck = w.stuck /\ y.open = w.open /\ y.reading = w.reading
      /\ y.free = w.free /\ y.resv = w.resv /\ y.total = w.total
      /\ y.list = w.list /\ y.torn = w.torn /\ y.room = room
  BY <1>1, <1>2 DEF WalRec
<1>4. \A f \in Files : Listed(y, f) <=> Listed(w, f)
  BY <1>3 DEF Listed
<1>5. Chain(y)
  BY <1>1, <1>2, <1>3, <1>4 DEF Chain
<1>6. w.use => Writing(y)
  BY <1>3, <1>4, <1>5 DEF Writing, Log
<1> QED BY <1>1, <1>3, <1>6 DEF Equal

\* Equal files, on and on.
LEMMA EqualTwice ==
  ASSUME NEW v, NEW u, NEW x, Equal(v, u), Equal(u, x)
  PROVE  Equal(v, x)
BY DEF Equal

\* What is kept of the log.
LEMMA EqualSettled ==
  ASSUME NEW v \in WalRec, NEW u, u = Settled(v)
  PROVE  Equal(v, u) /\ u.torn = v.torn /\ u.spent = v.spent /\ u.use = v.use /\ u \in WalRec
<1>1. /\ u.cur = v.cur /\ u.open = v.open /\ u.total = v.total /\ u.torn = v.torn
      /\ u.spent = v.spent /\ u.use = v.use /\ u \in WalRec
      /\ \A f \in v.open : u.free[f] = v.free[f] /\ u.resv[f] = v.resv[f]
  BY SettledFields
<1> QED BY <1>1 DEF Equal

\* A reservation, by whichever command, and what it does to the budget.
Funded(v, n) ==
  /\ w'.use = w.use /\ w'.spent = w.spent
  /\ w.torn => w'.torn
  /\ TornInv => TornInv'
  /\ faults' >= faults /\ (~v.ok /\ ~v.stuck => faults' > 0)
  /\ w.use /\ ~w'.torn /\ Ready(w, 0) =>
       /\ ~v.stuck
       /\ v.ok => Ready(w', n)
       /\ ~v.ok => Ready(w', 0)

\* That is what reserve does, whatever else happens to the log that keeps its files.
LEMMA Funding ==
  ASSUME FilesInv, Running, NEW room \in Rooms, NEW n \in Int, n >= Short, n <= Cap,
         NEW v, v = reserve([w EXCEPT !.room = room], n), Charge(v),
         NEW u \in WalRec, Equal(v, u), u.torn = v.torn, u.spent = v.spent, u.use = v.use,
         w' = Settled(u)
  PROVE  Funded(v, n)
<1> DEFINE y == [w EXCEPT !.room = room]
           z == w'
<1>1. Disk(w, dir) /\ Log(w, dir) /\ faults \in Nat
  <2>1. faults \in 0..MaxFaults
    BY DEF FilesInv, ClientTypes
  <2> QED BY <2>1, Numbers DEF FilesInv
<1>2. /\ Fit(v) /\ v.spent = w.spent /\ v.ok \in BOOLEAN /\ v.stuck \in BOOLEAN /\ (~w.use => v.ok)
  BY <1>1, Reserving
<1>3. v.use = w.use /\ (w.use => Writing(v)) /\ v \in WalRec
  BY <1>2 DEF Fit, Chain
<1>4. v = reserve(y, n)
  OBVIOUS
<1>5. /\ y \in WalRec /\ y.ok /\ ~y.stuck /\ y.use = w.use /\ y.torn = w.torn
      /\ Equal(w, y) /\ (w.use => Writing(y))
  BY <1>1, WithRoom
<1> HIDE DEF y
<1>6. Equal(u, z) /\ z.torn = u.torn /\ z.spent = u.spent /\ z.use = u.use
  <2>1. z = Settled(u)
    OBVIOUS
  <2> HIDE DEF z
  <2> QED BY <2>1, EqualSettled
<1>7. Equal(v, z)
  BY <1>6, EqualTwice
<1>8. (v.ok \/ v.stuck => v.torn = w.torn) /\ (w.torn => v.torn)
  <2>1. CASE w.use
    <3>1. Writing(y) /\ y.use /\ y.ok /\ ~y.stuck
      BY <1>5, <2>1
    <3>2. (v.ok \/ v.stuck => v.torn = y.torn) /\ (y.torn => v.torn)
      BY <1>4, <3>1, ReserveTorn
    <3> QED BY <1>5, <3>2
  <2>2. CASE ~w.use
    <3>1. v = [y EXCEPT !.ok = TRUE]
      BY <1>4, <1>5, <2>2 DEF reserve
    <3>2. v.torn = y.torn
      BY <1>5, <3>1 DEF WalRec
    <3> QED BY <1>5, <3>2
  <2> QED BY <2>1, <2>2
<1>9. faults' = IF v.ok \/ v.stuck THEN faults ELSE faults + 1
  BY DEF Charge
<1>10. z.torn = v.torn /\ z.spent = w.spent /\ z.use = w.use
  BY <1>2, <1>3, <1>6
<1>11. TornInv => (z.torn => faults' > 0)
  BY <1>1, <1>2, <1>8, <1>9, <1>10 DEF TornInv
<1>12. ASSUME w.use, ~z.torn, Ready(w, 0)
       PROVE  ~v.stuck /\ (v.ok => Ready(z, n)) /\ (~v.ok => Ready(z, 0))
  <2>1. w.cur \in w.open /\ v.cur \in v.open
    BY <1>1, <1>3, <1>12, OpenFields DEF Log
  <2>2. Ready(y, 0)
    BY <1>5, <1>12, <2>1, EqualBudget
  <2>3. Writing(y) /\ y.use /\ y.ok /\ ~y.stuck
    BY <1>5, <1>12
  <2>4. Budgeted(y, n, v)
    BY <1>4, <2>2, <2>3, ReserveBudget
  <2>5. ~v.stuck /\ (v.ok => Ready(v, n)) /\ (~v.ok => Ready(v, 0) \/ v.torn)
    BY <2>4 DEF Budgeted
  <2>6. \A m : Ready(v, m) => Ready(z, m)
    BY <1>7, <2>1, EqualBudget
  <2> QED BY <1>10, <1>12, <2>5, <2>6
<1>13. faults' >= faults /\ (~v.ok /\ ~v.stuck => faults' > 0)
  BY <1>1, <1>9
<1> HIDE DEF z
<1>14. w' = z
  BY DEF z
<1>15. TornInv => TornInv'
  BY <1>11, <1>14 DEF TornInv
<1> QED BY <1>8, <1>10, <1>12, <1>13, <1>14, <1>15 DEF Funded

\* What a reservation leaves, when the books are in order.
LEMMA Granted ==
  ASSUME FundsInv, Running, pc \notin {"write", "body", "hung"}, NEW n, NEW v, Funded(v, n)
  PROVE  w'.use /\ InBudget' =>
           ~v.stuck /\ (v.ok => Ready(w', n)) /\ (~v.ok => Ready(w', 0))
<1> SUFFICES ASSUME w'.use, InBudget'
             PROVE  ~v.stuck /\ (v.ok => Ready(w', n)) /\ (~v.ok => Ready(w', 0))
  OBVIOUS
<1>1. w'.spent = 0 /\ ~w'.torn
  BY DEF InBudget
<1>2. w.use /\ InBudget
  BY <1>1 DEF Funded, InBudget
<1>3. Due = 0
  BY DEF Due
<1>4. Ready(w, 0)
  BY <1>2, <1>3 DEF FundsInv, BudgetInv
<1> QED BY <1>1, <1>2, <1>4 DEF Funded

\* A full reserve is a reserve.
LEMMA ReadyLess ==
  ASSUME NEW v, Writing(v), NEW n \in Int, Even(n), n >= 0, Ready(v, n)
  PROVE  Ready(v, 0)
<1>1. v.cur \in v.open /\ v.resv[v.cur] \in Int
  <2>1. v.cur \in v.open
    BY OpenNumbers
  <2> QED BY <2>1, OpenNumbers
<1> DEFINE r == v.resv[v.cur]
<1>2. r >= n /\ Even(r - n) /\ r \in Int
  BY <1>1 DEF Ready
<1> HIDE DEF r
<1>3. r - n \in Int
  BY <1>2
<1>4. Even((r - n) + n)
  BY <1>2, <1>3, EvenSum
<1>5. (r - n) + n = r - 0
  BY <1>2
<1>6. r >= 0 /\ Even(r - 0)
  BY <1>2, <1>4, <1>5
<1> QED BY <1>6 DEF Ready, r

\* The answer stays as good as it was.
LEMMA AnswerKept ==
  ASSUME AnswerInv, faults \in Nat, faults' \in Nat, faults' >= faults, w'.use = w.use,
         w'.spent = w.spent, answer' = answer \/ answer' = "ok" \/ faults' > 0,
         run.left = 0 => run'.left = 0
  PROVE  AnswerInv'
<1> SUFFICES ASSUME faults' = 0
             PROVE  answer' = "ok" \/ (~w'.use /\ w'.spent > 0 /\ run'.left = 0)
  BY DEF AnswerInv
<1>1. faults = 0
  OBVIOUS
<1>2. answer' = answer \/ answer' = "ok"
  OBVIOUS
<1> QED BY <1>1, <1>2 DEF AnswerInv

\* Nothing is due.
LEMMA RestFunds ==
  ASSUME pc' \notin {"write", "body"}, TornInv', AnswerInv',
         Running' /\ w'.use /\ InBudget' => pc' # "hung" /\ Ready(w', 0)
  PROVE  FundsInv'
<1>1. Due' = 0
  BY DEF Due
<1>2. NeedInv'
  BY DEF NeedInv
<1>3. BudgetInv'
  BY <1>1 DEF BudgetInv
<1> QED BY <1>2, <1>3 DEF FundsInv

\* A write is due.
LEMMA WriteFunds ==
  ASSUME pc' = "write", TornInv', AnswerInv',
         run'.need = IF run'.moving # 0 THEN walResvMigrate(jobs'[run'.moving].kind) ELSE Needed',
         w'.use /\ InBudget' => Ready(w', run'.need)
  PROVE  FundsInv'
<1>1. Due' = run'.need
  BY DEF Due
<1>2. NeedInv'
  BY DEF NeedInv
<1>3. BudgetInv'
  BY <1>1 DEF BudgetInv
<1> QED BY <1>2, <1>3 DEF FundsInv

\* The faults are a number.
LEMMA FaultsNat ==
  FilesInv => faults \in Nat
<1>1. MaxFaults \in Nat
  BY Numbers
<1> QED BY <1>1 DEF FilesInv, ClientTypes

\* Put.
LEMMA PutFunds ==
  ASSUME Roomy, FilesInv, LogInv, FundsInv, NEW kind \in Kinds, NEW delayed \in BOOLEAN,
         NEW room \in Rooms, Put(kind, delayed, room)
  PROVE  FundsInv'
<1> DEFINE j == nextId
           st == IF delayed THEN "delayed" ELSE "ready"
           n == WalResvPut(kind)
           v == reserve([w EXCEPT !.room = room], n)
           N(s, c) == [k \in DOMAIN jobs \cup {j} |->
                         IF k = j THEN [st |-> s, kind |-> kind, good |-> TRUE, where |-> c]
                         ELSE jobs[k]]
<1>1. pc = "idle" /\ w' = Settled(v) /\ Charge(v)
  BY DEF Put, Command, SetWal
<1>2. \/ v.stuck /\ Hangs
      \/ ~v.stuck /\ v.ok /\ jobs' = N(st, {st}) /\ Working("put", j, n) /\ answer' = answer
      \/ ~v.stuck /\ ~v.ok /\ jobs' = N("invalid", {}) /\ Answer("OUT_OF_MEMORY")
  BY DEF Put
<1>3. n = Short + Extra[kind] + Short /\ n \in Int /\ n >= Short /\ n <= Cap
  BY Sizes
<1>4. Running /\ run = NoRun /\ j \in Ids
  BY <1>1, AtRest DEF Put
<1>5. v = reserve([w EXCEPT !.room = room], n)
  OBVIOUS
<1> HIDE DEF n, st
<1>6. Funded(v, n)
  <2> HIDE DEF v
  <2>0. Disk(w, dir) /\ Log(w, dir)
    BY <1>4 DEF FilesInv
  <2>1. Fit(v)
    BY <1>3, <1>5, <2>0, Reserving
  <2>2. v \in WalRec
    BY <2>1 DEF Fit, Chain
  <2>3. Equal(v, v)
    BY DEF Equal
  <2> QED BY <1>1, <1>3, <1>4, <1>5, <2>2, <2>3, Funding
<1> HIDE DEF v
<1>7. w'.use /\ InBudget' =>
        ~v.stuck /\ (v.ok => Ready(w', n)) /\ (~v.ok => Ready(w', 0))
  BY <1>1, <1>4, <1>6, Granted
<1>8. faults \in Nat /\ faults' \in Nat /\ faults' >= faults
      /\ w'.use = w.use /\ w'.spent = w.spent /\ (~v.ok /\ ~v.stuck => faults' > 0)
  BY <1>1, <1>6, FaultsNat DEF Funded, Charge
<1>9. TornInv' /\ AnswerInv
  BY <1>6 DEF FundsInv, Funded
<1>10. ASSUME NEW s, NEW c, jobs' = N(s, c) PROVE jobs'[j].kind = kind
  BY <1>10
<1> HIDE DEF N
<1>11. CASE v.stuck /\ Hangs
  <2>1. pc' = "hung" /\ answer' = answer /\ run' = run
    BY <1>11 DEF Hangs
  <2>2. AnswerInv'
    BY <1>8, <1>9, <2>1, AnswerKept
  <2> QED BY <1>7, <1>9, <1>11, <2>1, <2>2, RestFunds
<1>12. CASE ~v.stuck /\ v.ok /\ jobs' = N(st, {st}) /\ Working("put", j, n) /\ answer' = answer
  <2>1. /\ pc' = "write" /\ run'.op = "put" /\ run'.job = j /\ run'.need = n /\ run'.left = 0
        /\ run'.moving = 0
    BY <1>12 DEF Working
  <2>2. AnswerInv'
    BY <1>8, <1>9, <1>12, <2>1, AnswerKept
  <2>3. jobs'[run'.job].kind = kind
    BY <1>10, <1>12, <2>1
  <2>4. Needed' = n
    BY <1>3, <2>1, <2>3 DEF Needed
  <2> QED BY <1>7, <1>9, <1>12, <2>1, <2>2, <2>4, WriteFunds
<1>13. CASE ~v.stuck /\ ~v.ok /\ jobs' = N("invalid", {}) /\ Answer("OUT_OF_MEMORY")
  <2>1. pc' = "idle" /\ run'.left = 0
    BY <1>13, NoRunFields DEF Answer
  <2>2. AnswerInv'
    BY <1>8, <1>9, <1>13, <2>1, AnswerKept
  <2> QED BY <1>7, <1>9, <1>13, <2>1, <2>2, RestFunds
<1> QED BY <1>2, <1>11, <1>12, <1>13

\* Bury, and release with a delay.
LEMMA BuryFunds ==
  ASSUME Roomy, FilesInv, LogInv, FundsInv, NEW j \in DOMAIN jobs, NEW room \in Rooms,
         Bury(j, room) \/ ReleaseDelayed(j, room)
  PROVE  FundsInv'
<1> DEFINE n == Short
           v == reserve([w EXCEPT !.room = room], n)
           u == IF v.ok THEN [v EXCEPT !.spare = @ + 1] ELSE v
<1>1. pc = "idle" /\ w' \in {Settled(v), Settled(u)} /\ Charge(v)
  BY DEF Bury, ReleaseDelayed, Command, SetWal, WalResvUpdate
<1>2. \/ v.stuck /\ Hangs
      \/ ~v.stuck /\ v.ok /\ Working("bury", j, n) /\ answer' = answer
      \/ ~v.stuck /\ v.ok /\ Answer("ok")
      \/ ~v.stuck /\ ~v.ok /\ \E msg : Answer(msg)
  BY DEF Bury, ReleaseDelayed, WalResvUpdate
<1>3. n = Short /\ n \in Int /\ n >= Short /\ n <= Cap /\ n > 0
  <2>1. JobMap(jobs)
    BY Parts
  <2>2. jobs[j].kind \in Kinds
    BY <2>1, JobFields
  <2> QED BY <2>2, Sizes
<1>4. Running /\ run = NoRun
  BY <1>1, AtRest
<1>5. v = reserve([w EXCEPT !.room = room], n)
  OBVIOUS
<1> HIDE DEF n, v
<1>6. Fit(v) /\ (w.use => Writing(v))
  <2>1. Disk(w, dir) /\ Log(w, dir)
    BY <1>4 DEF FilesInv
  <2>2. Fit(v)
    BY <1>3, <1>5, <2>1, Reserving
  <2> QED BY <2>2 DEF Fit
<1>7. v \in WalRec
  BY <1>6 DEF Fit, Chain
<1>8. u \in WalRec /\ Equal(v, u) /\ u.torn = v.torn /\ u.spent = v.spent /\ u.use = v.use
  <2> DEFINE m == v.spare + 1
             x == [v EXCEPT !.spare = m]
  <2>1. m \in Nat
    BY <1>7, WalFields
  <2>2. u = v \/ u = x
    OBVIOUS
  <2> HIDE DEF m, u
  <2>3. x \in WalRec /\ x.open = v.open /\ x.cur = v.cur /\ x.total = v.total /\ x.torn = v.torn
        /\ x.spent = v.spent /\ x.use = v.use /\ x.free = v.free /\ x.resv = v.resv
    BY <1>7, <2>1 DEF WalRec
  <2> QED BY <1>7, <2>2, <2>3 DEF Equal
<1>9. Equal(v, v)
  BY DEF Equal
<1> HIDE DEF u
<1>10. Funded(v, n)
  <2>1. CASE w' = Settled(v)
    BY <1>1, <1>3, <1>4, <1>5, <1>7, <1>9, <2>1, Funding
  <2>2. CASE w' = Settled(u)
    BY <1>1, <1>3, <1>4, <1>5, <1>8, <2>2, Funding
  <2> QED BY <1>1, <2>1, <2>2
<1>11. w'.use /\ InBudget' =>
         ~v.stuck /\ (v.ok => Ready(w', n)) /\ (~v.ok => Ready(w', 0))
  BY <1>1, <1>4, <1>10, Granted
<1>12. faults \in Nat /\ faults' \in Nat /\ faults' >= faults
       /\ w'.use = w.use /\ w'.spent = w.spent /\ (~v.ok /\ ~v.stuck => faults' > 0)
  BY <1>1, <1>10, FaultsNat DEF Funded, Charge
<1>13. TornInv' /\ AnswerInv
  BY <1>10 DEF FundsInv, Funded
<1>14. w'.use => Writing(w')
  <2>1. w'.use => Writing(v)
    BY <1>6, <1>12
  <2> DEFINE z == w'
  <2>2. z = Settled(v) \/ z = Settled(u)
    BY <1>1
  <2> HIDE DEF z
  <2>3. Chain(v)
    BY <1>6 DEF Fit
  <2>4. z = Settled(v) => (Writing(v) => Writing(z))
    BY <2>3, SettledChain
  <2>5. Writing(v) => Writing(u) /\ Chain(u)
    <3>1. /\ u.files = v.files /\ u.cur = v.cur /\ u.next = v.next /\ u.open = v.open
          /\ u.reading = v.reading /\ u.list = v.list /\ u.room = v.room
      <4> DEFINE m == v.spare + 1
                 x == [v EXCEPT !.spare = m]
      <4>1. m \in Nat
        BY <1>7, WalFields
      <4>2. u = v \/ u = x
        BY DEF u
      <4> HIDE DEF m
      <4>3. /\ x.files = v.files /\ x.cur = v.cur /\ x.next = v.next /\ x.open = v.open
            /\ x.reading = v.reading /\ x.list = v.list /\ x.room = v.room
        BY <1>7, <4>1 DEF WalRec
      <4> QED BY <4>2, <4>3
    <3> QED BY <1>8, <3>1 DEF Writing, Chain, Listed
  <2>6. z = Settled(u) => (Writing(v) => Writing(z))
    BY <2>5, SettledChain
  <2>7. w'.use => Writing(z)
    BY <2>1, <2>2, <2>4, <2>6
  <2> QED BY <2>7 DEF z
<1>15. CASE v.stuck /\ Hangs
  <2>1. pc' = "hung" /\ answer' = answer /\ run' = run
    BY <1>15 DEF Hangs
  <2>2. AnswerInv'
    BY <1>12, <1>13, <2>1, AnswerKept
  <2> QED BY <1>11, <1>13, <1>15, <2>1, <2>2, RestFunds
<1>16. CASE ~v.stuck /\ v.ok /\ Working("bury", j, n) /\ answer' = answer
  <2>1. /\ pc' = "write" /\ run'.op = "bury" /\ run'.job = j /\ run'.need = n /\ run'.left = 0
        /\ run'.moving = 0
    BY <1>16 DEF Working
  <2>2. AnswerInv'
    BY <1>12, <1>13, <1>16, <2>1, AnswerKept
  <2>3. Needed' = n
    BY <1>3, <2>1 DEF Needed
  <2> QED BY <1>11, <1>13, <1>16, <2>1, <2>2, <2>3, WriteFunds
<1>17. CASE ~v.stuck /\ v.ok /\ Answer("ok")
  <2>1. pc' = "idle" /\ run'.left = 0 /\ answer' = "ok"
    BY <1>17, NoRunFields DEF Answer
  <2>2. AnswerInv'
    BY <1>12, <1>13, <2>1, AnswerKept
  <2>3. w'.use /\ InBudget' => Ready(w', 0)
    <3>1. Even(n)
      BY <1>3, EvenUnits
    <3>2. w'.use /\ InBudget' => Ready(w', n) /\ Writing(w')
      BY <1>11, <1>14, <1>17
    <3> DEFINE z == w'
    <3>3. Ready(z, n) /\ Writing(z) => Ready(z, 0)
      <4> HIDE DEF z
      <4> QED BY <1>3, <3>1, ReadyLess
    <3> QED BY <3>2, <3>3
  <2> QED BY <1>13, <2>1, <2>2, <2>3, RestFunds
<1>18. CASE ~v.stuck /\ ~v.ok /\ \E msg : Answer(msg)
  <2>1. pc' = "idle" /\ run'.left = 0
    BY <1>18, NoRunFields DEF Answer
  <2>2. AnswerInv'
    BY <1>12, <1>13, <1>18, <2>1, AnswerKept
  <2> QED BY <1>11, <1>13, <1>18, <2>1, <2>2, RestFunds
<1> QED BY <1>2, <1>15, <1>16, <1>17, <1>18

\* moveOne, when it takes a job: what it reserves, and what it keeps of the log.
MoveBooks(j, n, v) ==
  /\ Charge(v) /\ Funded(v, n) /\ n = walResvMigrate(jobs[j].kind) /\ n >= Short /\ j \in Nat /\ j # 0
  /\ run.left > 0
  /\ \/ v.stuck /\ Hangs
     \/ ~v.stuck /\ run' = [run EXCEPT !.left = @ - 1, !.moving = IF v.ok THEN j ELSE 0, !.need = n]
                 /\ pc' = (IF v.ok THEN "write" ELSE pc)

\* moveOne does that when it does not stay.
LEMMA MoveBooked ==
  ASSUME Roomy, FilesInv, NEW room \in Rooms, Moves(room)
  PROVE  \/ run' = [run EXCEPT !.left = 0] /\ UNCHANGED <<w, dir, pc, faults>>
         \/ \E j, n, v : MoveBooks(j, n, v)
<1> DEFINE h == HeadFile(w)
           near == w.cur \in ToSet(w.files) /\ PosOf(w, w.cur) <= 2
           stay == near \/ w.list[h] = <<>>
           j == w.list[h][1]
           n == walResvMigrate(jobs[j].kind)
           v == reserve([w EXCEPT !.room = room], n)
           u == IF v.ok THEN FileRmJob(v, j) ELSE v
<1>1. /\ pc = "compact" /\ run.left > 0 /\ w.files # <<>>
      /\ IF stay
         THEN run' = [run EXCEPT !.left = 0] /\ UNCHANGED <<w, dir, pc, faults>>
         ELSE /\ SetWal(u) /\ Charge(v)
              /\ IF v.stuck THEN Hangs
                 ELSE /\ run' = [run EXCEPT !.left = @ - 1, !.moving = IF v.ok THEN j ELSE 0,
                                            !.need = n]
                      /\ pc' = IF v.ok THEN "write" ELSE pc
  BY DEF Moves, moveHead
<1> SUFFICES ASSUME ~stay PROVE MoveBooks(j, n, v)
  BY <1>1
<1>2. w \in WalRec /\ JobMap(jobs) /\ JobsInv /\ Running /\ Disk(w, dir) /\ Log(w, dir)
  <2>1. Running
    BY <1>1 DEF Running
  <2> QED BY <2>1, Parts DEF Disk, Chain
<1>3. h \in Files
  <2>1. w.files \in Seq(Files)
    BY <1>2, WalFields
  <2> DEFINE s == w.files
  <2>2. s \in Seq(Files) /\ s # <<>>
    BY <1>1, <2>1
  <2>3. s[1] \in Files
    <3> HIDE DEF s
    <3> QED BY <2>2
  <2>4. h = s[1]
    BY DEF HeadFile
  <2> QED BY <2>3, <2>4
<1>4. w.list[h] # <<>> /\ w.list[h] \in Seq(Ids)
  BY <1>2, <1>3, FileFields
<1>5. j \in Ids /\ Holds(w, h, j)
  <2> DEFINE l == w.list[h]
  <2>1. l \in Seq(Ids) /\ l # <<>>
    BY <1>4
  <2>2. \E i \in DOMAIN l : l[i] = l[1]
    <3> HIDE DEF l
    <3> QED BY <2>1
  <2>3. l[1] \in Ids
    <3> HIDE DEF l
    <3> QED BY <2>1
  <2> QED BY <2>2, <2>3 DEF Holds
<1> HIDE DEF j
<1>6. j \in DOMAIN jobs
  BY <1>1, <1>2, <1>3, <1>5 DEF InList, JobsInv
<1>7. jobs[j].kind \in Kinds
  BY <1>2, <1>6, JobFields
<1>8. n \in Int /\ n >= Short /\ n <= Cap /\ n = walResvMigrate(jobs[j].kind)
  BY <1>7, Sizes
<1> HIDE DEF n
<1>9. v = reserve([w EXCEPT !.room = room], n)
  OBVIOUS
<1>10. Fit(v)
  <2> HIDE DEF v
  <2> QED BY <1>2, <1>8, <1>9, Reserving
<1> HIDE DEF v
<1>11. /\ u \in WalRec /\ Equal(v, u) /\ u.torn = v.torn /\ u.spent = v.spent /\ u.use = v.use
  <2>1. CASE v.ok
    <3>1. u = FileRmJob(v, j)
      BY <2>1
    <3> HIDE DEF u
    <3>2. Removed(v, j, u) /\ Fit(u)
      BY <1>2, <1>5, <1>10, <3>1, FitRemoved
    <3>3. Frame(v, u) /\ u \in WalRec
      BY <3>2 DEF Removed, Chain
    <3> QED BY <3>3 DEF Frame, Equal
  <2>2. CASE ~v.ok
    <3>1. u = v /\ v \in WalRec
      BY <1>10, <2>2 DEF Fit, Chain
    <3> QED BY <3>1 DEF Equal
  <2> QED BY <2>1, <2>2
<1>12. w' = Settled(u)
  BY <1>1 DEF SetWal
<1> HIDE DEF u
<1>13. Charge(v)
  BY <1>1
<1>14. Funded(v, n)
  BY <1>2, <1>8, <1>9, <1>11, <1>12, <1>13, Funding
<1>15. j \in Nat /\ j # 0
  BY <1>5, Numbers DEF Ids
<1> QED BY <1>1, <1>8, <1>13, <1>14, <1>15 DEF MoveBooks

\* A round of walCompact.
LEMMA MoveFunds ==
  ASSUME Roomy, FilesInv, LogInv, FundsInv, NEW room \in Rooms, Moves(room)
  PROVE  FundsInv'
<1>1. pc = "compact" /\ run.left > 0 /\ jobs' = jobs /\ answer' = answer
  BY DEF Moves, moveHead
<1>2. Running /\ run \in RunRec /\ run.moving = 0
  <2>1. Running
    BY <1>1 DEF Running
  <2> QED BY <1>1, <2>1, WorkFacts DEF RunInv
<1>3. run.left \in Nat
  BY <1>2, RunFields
<1>4. faults \in Nat
  BY FaultsNat
<1>5. CASE run' = [run EXCEPT !.left = 0] /\ UNCHANGED <<w, dir, pc, faults>>
  <2>1. run'.left = 0 /\ pc' = "compact" /\ faults' = faults /\ w' = w
    BY <1>1, <1>2, <1>5 DEF RunRec
  <2>2. AnswerInv'
    BY <1>1, <1>3, <1>4, <2>1, AnswerKept DEF FundsInv
  <2>3. TornInv'
    BY <2>1 DEF FundsInv, TornInv
  <2>4. Due = 0
    BY <1>1 DEF Due
  <2>5. w'.use /\ InBudget' => Ready(w', 0)
    BY <1>1, <1>2, <2>1, <2>4 DEF FundsInv, BudgetInv, InBudget
  <2> QED BY <2>1, <2>2, <2>3, <2>5, RestFunds
<1>6. ASSUME NEW j, NEW n, NEW v, MoveBooks(j, n, v)
      PROVE  FundsInv'
  <2>1. /\ Charge(v) /\ Funded(v, n) /\ n = walResvMigrate(jobs[j].kind) /\ j # 0 /\ j \in Nat
    BY <1>6 DEF MoveBooks
  <2>2. w'.use /\ InBudget' =>
          ~v.stuck /\ (v.ok => Ready(w', n)) /\ (~v.ok => Ready(w', 0))
    BY <1>1, <1>2, <2>1, Granted
  <2>3. faults \in Nat /\ faults' \in Nat /\ faults' >= faults
        /\ w'.use = w.use /\ w'.spent = w.spent /\ (~v.ok /\ ~v.stuck => faults' > 0)
    BY <1>4, <2>1 DEF Funded, Charge
  <2>4. TornInv' /\ AnswerInv
    BY <2>1 DEF FundsInv, Funded
  <2>5. AnswerInv'
    BY <1>1, <1>3, <2>3, <2>4, AnswerKept
  <2>6. CASE v.stuck /\ Hangs
    <3>1. pc' = "hung"
      BY <2>6 DEF Hangs
    <3> QED BY <2>2, <2>4, <2>5, <2>6, <3>1, RestFunds
  <2>7. CASE /\ ~v.stuck
             /\ run' = [run EXCEPT !.left = @ - 1, !.moving = IF v.ok THEN j ELSE 0, !.need = n]
             /\ pc' = (IF v.ok THEN "write" ELSE pc)
    <3> DEFINE m == IF v.ok THEN j ELSE 0
    <3>1. run'.moving = m /\ run'.need = n
      <4> HIDE DEF m
      <4>1. run' = [run EXCEPT !.left = @ - 1, !.moving = m, !.need = n]
        BY <2>7 DEF m
      <4> QED BY <1>2, <4>1 DEF RunRec
    <3>2. CASE v.ok
      <4>1. pc' = "write" /\ run'.moving # 0 /\ run'.moving = j
        BY <2>1, <2>7, <3>1, <3>2
      <4> HIDE DEF m
      <4>2. run'.need = IF run'.moving # 0 THEN walResvMigrate(jobs'[run'.moving].kind) ELSE Needed
        BY <1>1, <2>1, <3>1, <4>1
      <4>3. w'.use /\ InBudget' => Ready(w', run'.need)
        BY <2>2, <3>1, <3>2
      <4> QED BY <2>4, <2>5, <4>1, <4>2, <4>3, WriteFunds
    <3>3. CASE ~v.ok
      <4>1. pc' = "compact"
        BY <1>1, <2>7, <3>3
      <4> QED BY <2>2, <2>4, <2>5, <3>3, <4>1, RestFunds
    <3> QED BY <3>2, <3>3
  <2>8. \/ v.stuck /\ Hangs
        \/ /\ ~v.stuck
           /\ run' = [run EXCEPT !.left = @ - 1, !.moving = IF v.ok THEN j ELSE 0, !.need = n]
           /\ pc' = (IF v.ok THEN "write" ELSE pc)
    BY <1>6 DEF MoveBooks
  <2> QED BY <2>6, <2>7, <2>8
<1> QED BY <1>5, <1>6, MoveBooked

\* A process that is gone has no log to look after.
LEMMA DiedFunds ==
  ASSUME Died, faults' = 0 => answer' = "ok"
  PROVE  FundsInv'
<1>1. pc' = "down" /\ w' = EmptyWal(1)
  BY DEF Died
<1>2. w'.torn = FALSE
  BY <1>1 DEF EmptyWal
<1>3. TornInv' /\ AnswerInv'
  BY <1>2 DEF TornInv, AnswerInv
<1>4. ~(Running')
  BY <1>1 DEF Running
<1> QED BY <1>1, <1>3, <1>4, RestFunds

\* protReplay reserves for one job.
LEMMA ReplayFunds ==
  ASSUME Roomy, FilesInv, LogInv, FundsInv, NEW room \in Rooms, protReplay(room)
  PROVE  FundsInv'
<1> DEFINE n == WalResvUpdate
           v == reserve([w EXCEPT !.room = room], n)
<1>1. pc = "replay" /\ rd.list # <<>> /\ answer' = answer /\ Charge(v)
  BY DEF protReplay
<1>2. \/ v.stuck /\ Hangs /\ SetWal(v)
      \/ ~v.stuck /\ v.ok /\ SetWal(v) /\ UNCHANGED <<pc, run>>
      \/ ~v.stuck /\ ~v.ok /\ Died
  BY DEF protReplay
<1>3. Running /\ run = NoRun /\ w.use
  BY <1>1 DEF Running, RunInv, FilesInv
<1>4. n = Short /\ n \in Int /\ n >= Short /\ n <= Cap /\ n >= 0 /\ Even(n)
  <2> DEFINE l == rd.list
  <2>1. JobMap(jobs) /\ l \in Seq(Ids) /\ l # <<>>
    BY <1>1, Parts, CursorFields
  <2>2. \A i \in DOMAIN l : l[i] \in DOMAIN jobs
    BY <1>1 DEF LogInv, RecoveryLog
  <2>3. 1 \in DOMAIN l
    <3> HIDE DEF l
    <3> QED BY <2>1
  <2>4. l[1] \in DOMAIN jobs
    BY <2>2, <2>3
  <2>5. jobs[l[1]].kind \in Kinds
    BY <2>1, <2>4, JobFields
  <2> HIDE DEF l
  <2> QED BY <2>5, Sizes, EvenUnits DEF WalResvUpdate
<1>5. v = reserve([w EXCEPT !.room = room], n)
  OBVIOUS
<1> HIDE DEF n
<1>6. Disk(w, dir) /\ Log(w, dir)
  BY <1>3 DEF FilesInv
<1>7. v \in WalRec
  <2> HIDE DEF v
  <2>1. Fit(v)
    BY <1>4, <1>5, <1>6, Reserving
  <2> QED BY <2>1 DEF Fit, Chain
<1> HIDE DEF v
<1>8. ASSUME SetWal(v)
      PROVE  /\ Funded(v, n) /\ (w'.use => Writing(w'))
             /\ w'.use /\ InBudget' => ~v.stuck /\ (v.ok => Ready(w', n))
             /\ run'.left = run.left /\ answer' = answer => AnswerInv'
             /\ TornInv'
  <2>1. Funded(v, n)
    <3>1. Equal(v, v) /\ w' = Settled(v)
      BY <1>8 DEF Equal, SetWal
    <3> QED BY <1>1, <1>3, <1>4, <1>5, <1>7, <3>1, Funding
  <2>2. Log(w', dir')
    BY <1>3, <1>4, <1>5, <1>8, ReserveNext
  <2>3. w'.use /\ InBudget' =>
          ~v.stuck /\ (v.ok => Ready(w', n)) /\ (~v.ok => Ready(w', 0))
    BY <1>1, <1>3, <2>1, Granted
  <2>4. faults \in Nat /\ faults' \in Nat /\ faults' >= faults
        /\ w'.use = w.use /\ w'.spent = w.spent
    BY <1>1, <2>1, FaultsNat DEF Funded, Charge
  <2>5. run'.left = run.left /\ answer' = answer => AnswerInv'
    BY <2>4, AnswerKept DEF FundsInv
  <2> QED BY <2>1, <2>2, <2>3, <2>5 DEF Log, Funded, FundsInv
<1>9. CASE v.stuck /\ Hangs /\ SetWal(v)
  <2>1. pc' = "hung" /\ answer' = answer /\ run' = run
    BY <1>9 DEF Hangs
  <2>2. AnswerInv' /\ TornInv'
    BY <1>8, <1>9, <2>1
  <2> QED BY <1>8, <1>9, <2>1, <2>2, RestFunds
<1>10. CASE ~v.stuck /\ v.ok /\ SetWal(v) /\ UNCHANGED <<pc, run>>
  <2>1. AnswerInv' /\ TornInv' /\ pc' = "replay"
    BY <1>1, <1>8, <1>10
  <2>2. w'.use /\ InBudget' => Ready(w', n) /\ Writing(w')
    BY <1>8, <1>10
  <2> DEFINE z == w'
  <2>3. Ready(z, n) /\ Writing(z) => Ready(z, 0)
    <3> HIDE DEF z
    <3> QED BY <1>4, ReadyLess
  <2>4. w'.use /\ InBudget' => Ready(w', 0)
    BY <2>2, <2>3
  <2> QED BY <2>1, <2>4, RestFunds
<1>11. CASE ~v.stuck /\ ~v.ok /\ Died
  <2>1. faults' = faults + 1 /\ faults \in Nat
    BY <1>1, <1>11, FaultsNat DEF Charge
  <2>2. faults' # 0
    BY <2>1
  <2> QED BY <1>11, <2>2, DiedFunds
<1> QED BY <1>2, <1>9, <1>10, <1>11

\* The first file has all its space.
LEMMA FirstBudget ==
  ASSUME Roomy, FilesInv, LogInv, pc = "read", NEW room \in Rooms,
         NEW v, v = makeNextFile([w EXCEPT !.room = room]), v.ok,
         w' = Settled([v EXCEPT !.cur = TailFile(v)])
  PROVE  Ready(w', 0) /\ w'.torn = w.torn /\ w'.use = w.use /\ w'.spent = w.spent
<1> DEFINE y == [w EXCEPT !.room = room]
           n == w.next
           t == TailFile(v)
           x == [v EXCEPT !.cur = t]
           z == w'
<1>1. w \in WalRec /\ Chain(w) /\ w.open = {} /\ w.total = 0
  BY Reading DEF FilesInv, Disk, Chain, LogInv, RecoveryLog
<1>2. room \in Nat /\ w.next + room <= MaxFiles + 1
  BY Numbers DEF Rooms
<1>3. /\ y \in WalRec /\ y.files = w.files /\ y.next = w.next /\ y.use = w.use
      /\ y.open = w.open /\ y.total = w.total
      /\ y.list = w.list /\ y.room = room /\ y.torn = w.torn /\ y.spent = w.spent
  BY <1>1, <1>2 DEF WalRec
<1>4. v = makeNextFile(y)
  OBVIOUS
<1> HIDE DEF y
<1>5. room # 0
  <2> SUFFICES ASSUME room = 0 PROVE FALSE
    OBVIOUS
  <2>1. v = [y EXCEPT !.ok = FALSE]
    BY <1>3, <1>4, NoRoom
  <2> QED BY <1>3, <2>1 DEF WalRec
<1>6. Chain(y)
  <2>1. \A f \in Files : Listed(y, f) <=> Listed(w, f)
    BY <1>3 DEF Listed
  <2> QED BY <1>1, <1>2, <1>3, <2>1 DEF Chain
<1>7. y.next \in Files
  BY <1>3, <1>4, <1>5, <1>6, ChainNext
<1>8. /\ v \in WalRec /\ v.files = Append(y.files, y.next) /\ v.use = y.use
      /\ v.open = y.open \cup {y.next}
      /\ v.free = [y.free EXCEPT ![y.next] = FileSize - Header]
      /\ v.resv = [y.resv EXCEPT ![y.next] = 0]
      /\ v.total = y.total /\ v.torn = y.torn /\ v.spent = y.spent
  BY <1>3, <1>4, <1>5, <1>7, NextFields
<1>9. n \in Files /\ n = y.next
  BY <1>3, <1>7
<1> HIDE DEF n
<1>10. y.free \in [Files -> Int] /\ y.resv \in [Files -> Int] /\ y.files \in Seq(Files)
  BY <1>3, WalFields
<1>11. v.free[n] = Cap /\ v.resv[n] = 0
  BY <1>8, <1>9, <1>10 DEF Cap
<1>12. t = n
  BY <1>8, <1>9, <1>10 DEF TailFile
<1>13. t \in 0..MaxFiles
  BY <1>9, <1>12, Numbers
<1>14. z = Settled(x)
  OBVIOUS
<1> HIDE DEF t, z
<1>15. /\ x \in WalRec /\ x.cur = n /\ x.open = {n} /\ x.total = 0 /\ x.torn = w.torn
       /\ x.use = w.use /\ x.spent = w.spent /\ x.free = v.free /\ x.resv = v.resv
  <2>1. v \in WalRec
    BY <1>8
  <2>2. /\ x \in WalRec /\ x.cur = t /\ x.open = v.open /\ x.total = v.total /\ x.torn = v.torn
        /\ x.use = v.use /\ x.spent = v.spent /\ x.free = v.free /\ x.resv = v.resv
    BY <2>1, <1>13 DEF WalRec
  <2>3. v.open = {n}
    BY <1>1, <1>3, <1>8, <1>9
  <2> HIDE DEF x
  <2> QED BY <1>1, <1>3, <1>8, <1>12, <2>2, <2>3
<1> HIDE DEF x
<1>16. Totals(x)
  <2> DEFINE s == [g \in 0..MaxFiles |-> 0]
  <2>1. \A g \in Files : Part(x, g) = 0
    BY <1>11, <1>15 DEF Part
  <2>2. \A g \in Files : g \in 0..MaxFiles /\ g - 1 \in 0..MaxFiles
    BY Numbers
  <2>3. MaxFiles \in 0..MaxFiles /\ 0 \in 0..MaxFiles
    BY Numbers
  <2>4. \A g \in Files : s[g] = s[g - 1] + Part(x, g)
    BY <2>1, <2>2
  <2>5. s \in [0..MaxFiles -> Int] /\ s[0] = 0 /\ s[MaxFiles] = 0
    BY <2>3
  <2> HIDE DEF s
  <2>6. Adds(x, s) /\ s[MaxFiles] = x.total
    BY <1>15, <2>4, <2>5 DEF Adds
  <2> QED BY <2>6 DEF Totals
<1>17. n \in Nat /\ Cap \in Int /\ Cap >= 0
  BY <1>9, Numbers DEF Roomy, Cap
<1>18. Solid(x) /\ Evens(x)
  <2>1. \A f \in x.open : f = n /\ ~(f > n)
    BY <1>15, <1>17
  <2> QED BY <1>11, <1>15, <1>16, <1>17, <2>1 DEF Solid, Evens
<1>19. Ready(x, 0)
  <2>1. x.resv[x.cur] = 0 /\ x.resv[x.cur] - 0 = 0
    BY <1>11, <1>15
  <2> QED BY <1>18, <2>1, EvenUnits DEF Ready
<1>20. Equal(x, z) /\ z.torn = x.torn /\ z.use = x.use /\ z.spent = x.spent
  BY <1>14, <1>15, EqualSettled
<1>21. Ready(z, 0)
  BY <1>15, <1>19, <1>20, EqualBudget
<1> QED BY <1>15, <1>20, <1>21 DEF z

\* While recovery reads, no error is answered without a fault.
LEMMA ReadAnswer ==
  ASSUME FilesInv, FundsInv, pc \in {"down", "read"}
  PROVE  w.use /\ (faults = 0 => answer = "ok")
<1>1. w.use
  <2>1. CASE pc = "down"
    BY <2>1, Numbers, EmptyFields DEF FilesInv, DownInv
  <2>2. CASE pc = "read"
    BY <2>2, Reading
  <2> QED BY <2>1, <2>2
<1> QED BY <1>1 DEF FundsInv, AnswerInv

\* The end of WalInit.
LEMMA InitFunds ==
  ASSUME Roomy, FilesInv, LogInv, FundsInv, NEW room \in Rooms, WalInit(room)
  PROVE  FundsInv'
<1> DEFINE v == makeNextFile([w EXCEPT !.room = room])
<1>1. /\ pc = "read" /\ answer' = answer
      /\ \/ /\ v.ok /\ w' = Settled([v EXCEPT !.cur = TailFile(v)]) /\ pc' = "replay"
            /\ UNCHANGED <<run, faults>>
         \/ Died /\ Charge(v)
  BY DEF WalInit, SetWal
<1>2. w.use /\ (faults = 0 => answer = "ok") /\ faults \in Nat
  BY <1>1, ReadAnswer, FaultsNat
<1>3. v = makeNextFile([w EXCEPT !.room = room])
  OBVIOUS
<1> HIDE DEF v
<1>4. CASE /\ v.ok /\ w' = Settled([v EXCEPT !.cur = TailFile(v)]) /\ pc' = "replay"
           /\ UNCHANGED <<run, faults>>
  <2>1. Ready(w', 0) /\ w'.torn = w.torn /\ w'.use = w.use /\ w'.spent = w.spent
    BY <1>1, <1>3, <1>4, FirstBudget
  <2>2. TornInv'
    BY <1>4, <2>1 DEF FundsInv, TornInv
  <2>3. AnswerInv'
    BY <1>1, <1>2, <1>4 DEF AnswerInv
  <2> QED BY <1>4, <2>1, <2>2, <2>3, RestFunds
<1>5. CASE Died /\ Charge(v)
  <2>1. faults' = 0 => faults = 0
    BY <1>2, <1>5 DEF Charge
  <2> QED BY <1>1, <1>2, <1>5, <2>1, DiedFunds
<1> QED BY <1>1, <1>4, <1>5

\* While recovery reads, no budget is looked after.
LEMMA ReadFunds ==
  ASSUME FilesInv, FundsInv, pc \in {"down", "read"}, pc' = "read", w'.torn => w.torn,
         UNCHANGED <<answer, faults>>
  PROVE  FundsInv'
<1>1. faults = 0 => answer = "ok"
  BY ReadAnswer
<1>2. TornInv' /\ AnswerInv'
  BY <1>1 DEF FundsInv, TornInv, AnswerInv
<1>3. ~(Running')
  BY DEF Running
<1> QED BY <1>2, <1>3, RestFunds

\* Start, OpenFile, ReadRec, ReadRec5 and FileReadDone.
LEMMA RecoveryFunds ==
  ASSUME FilesInv, FundsInv, Start \/ OpenFile \/ ReadRec \/ ReadRec5 \/ FileReadDone
  PROVE  FundsInv'
<1>1. w \in WalRec /\ Chain(w) /\ Once(w)
  BY DEF FilesInv, Disk, Chain
<1>2. CASE Start
  <2>1. pc = "down" /\ pc' = "read" /\ UNCHANGED <<answer, faults>>
    BY <1>2 DEF Start
  <2>2. w'.torn = FALSE
    BY <1>2 DEF Start, EmptyWal
  <2> QED BY <2>1, <2>2, ReadFunds
<1>3. CASE OpenFile
  <2>1. pc = "read" /\ pc' = "read" /\ UNCHANGED <<answer, faults>>
    BY <1>3 DEF OpenFile
  <2>2. PICK f, r : w' = [fileAdd(w, f) EXCEPT !.reading = r]
    BY <1>3 DEF OpenFile
  <2> DEFINE s == Append(w.files, f)
  <2>3. w' = [w EXCEPT !.files = s, !.reading = r]
    BY <1>1, <2>2 DEF fileAdd, WalRec
  <2> HIDE DEF s
  <2>4. w'.torn = w.torn
    BY <1>1, <2>3 DEF WalRec
  <2> QED BY <2>1, <2>4, ReadFunds
<1>4. CASE ReadRec
  <2> DEFINE r == Replaying(w.reading)
             j == r.id
  <2>1. /\ pc = "read" /\ w.reading # 0 /\ UNCHANGED <<answer, faults>>
        /\ rd.pos <= Len(dir[w.reading].recs)
        /\ \/ \E p : SkipTo(p)
           \/ Discard(j)
           \/ Died
           \/ Recover(r)
    BY <1>4 DEF ReadRec
  <2>2. r \in Recs
    <3>1. w.reading \in DOMAIN dir /\ rd.pos >= 1
      BY <2>1, Reading
    <3>2. dir[w.reading].recs \in Seq(Recs)
      BY <3>1 DEF FilesInv, Disk, DirRec
    <3>3. rd.pos \in Nat
      BY CursorFields DEF FilesInv, JobTypes
    <3> DEFINE s == dir[w.reading].recs
               p == rd.pos
    <3>4. s \in Seq(Recs) /\ p \in Nat /\ p >= 1 /\ p <= Len(s) /\ r = s[p]
      BY <2>1, <3>1, <3>2, <3>3 DEF Replaying
    <3> HIDE DEF s, p, r
    <3>5. p \in 1..Len(s)
      BY <3>4
    <3> QED BY <3>4, <3>5
  <2>3. j \in Ids
    BY <2>2 DEF Recs
  <2> HIDE DEF r
  <2>4. CASE \E p : SkipTo(p)
    <3>1. w' = w /\ pc' = "read"
      BY <2>1, <2>4 DEF SkipTo
    <3> QED BY <2>1, <3>1, ReadFunds
  <2>5. CASE Discard(j)
    <3> DEFINE v == FileRmJob(w, j)
               z == w'
    <3>1. z = Settled(v) /\ pc' = "read"
      BY <2>1, <2>5 DEF Discard, SetWal
    <3> HIDE DEF z
    <3>2. v.torn = w.torn /\ v \in WalRec
      <4>1. v = FileRmJob(w, j)
        OBVIOUS
      <4> HIDE DEF v
      <4>2. Removed(w, j, v)
        BY <1>1, <2>3, <4>1, RmJob
      <4> QED BY <4>2 DEF Removed, Frame, Chain
    <3> HIDE DEF v
    <3>3. z.torn = v.torn
      BY <3>1, <3>2, EqualSettled
    <3>4. w'.torn = w.torn
      BY <3>2, <3>3 DEF z
    <3> QED BY <2>1, <3>1, <3>4, ReadFunds
  <2>6. CASE Died
    <3>1. faults' = 0 => answer' = "ok"
      BY <2>1, ReadAnswer
    <3> QED BY <2>6, <3>1, DiedFunds
  <2>7. CASE Recover(r)
    <3> DEFINE f == w.reading
               x == FileRmJob(w, j)
               v == IF IsFull(r) THEN FileAddJob(x, f, j) ELSE w
               n == RecSize(r)
               u == [v EXCEPT !.used[j] = @ + n, !.alive = @ + n]
               z == w'
    <3>1. z = Settled(u) /\ pc' = "read"
      BY <2>1, <2>7 DEF Recover, SetWal
    <3> HIDE DEF z
    <3>2. x \in WalRec /\ x.torn = w.torn
      <4>1. x = FileRmJob(w, j)
        OBVIOUS
      <4> HIDE DEF x
      <4>2. Removed(w, j, x)
        BY <1>1, <2>3, <4>1, RmJob
      <4> QED BY <4>2 DEF Removed, Frame, Chain
    <3>3. f \in Files
      BY <2>1, Reading
    <3> HIDE DEF x, f
    <3>4. v \in WalRec /\ v.torn = w.torn
      <4> DEFINE l == Append(x.list[f], j)
                 ls == [x.list EXCEPT ![f] = l]
      <4>1. x.list \in [Files -> Seq(Ids)] /\ x.list[f] \in Seq(Ids)
        BY <3>2, <3>3, WalFields
      <4>2. l \in Seq(Ids)
        BY <2>3, <4>1
      <4>3. IsFull(r) => v = [x EXCEPT !.list = ls]
        BY <3>2, <4>1 DEF FileAddJob, WalRec
      <4>4. ~IsFull(r) => v = w
        OBVIOUS
      <4> HIDE DEF v, l
      <4>5. ls \in [Files -> Seq(Ids)]
        BY <4>1, <4>2
      <4> HIDE DEF ls
      <4>6. IsFull(r) => v \in WalRec /\ v.torn = x.torn
        BY <3>2, <4>3, <4>5 DEF WalRec
      <4> QED BY <1>1, <3>2, <4>4, <4>6
    <3> HIDE DEF v
    <3>5. u \in WalRec /\ u.torn = v.torn
      <4> DEFINE us == [v.used EXCEPT ![j] = @ + n]
                 al == v.alive + n
      <4>1. v.used \in [Ids -> Int] /\ v.alive \in Int
        BY <3>4, WalFields
      <4>2. n \in Int
        BY <2>2, WrittenNat
      <4> HIDE DEF n
      <4>3. us \in [Ids -> Int] /\ al \in Int
        BY <2>3, <4>1, <4>2
      <4>4. u = [v EXCEPT !.used = us, !.alive = al]
        BY <3>4 DEF WalRec
      <4> HIDE DEF us, al
      <4> QED BY <3>4, <4>3, <4>4 DEF WalRec
    <3> HIDE DEF u
    <3>6. z.torn = u.torn
      BY <3>1, <3>5, EqualSettled
    <3>7. w'.torn = w.torn
      BY <3>4, <3>5, <3>6 DEF z
    <3> QED BY <2>1, <3>1, <3>7, ReadFunds
  <2> QED BY <2>1, <2>4, <2>5, <2>6, <2>7
<1>5. CASE ReadRec5
  <2>1. pc = "read" /\ pc' = "read" /\ UNCHANGED <<answer, faults>> /\ w' = w
    BY <1>5 DEF ReadRec5, SkipTo
  <2> QED BY <2>1, ReadFunds
<1>6. CASE FileReadDone
  <2> DEFINE x == [w EXCEPT !.reading = 0]
             v == fileDecRef(x, w.reading)
             z == w'
  <2>1. pc = "read" /\ pc' = "read" /\ UNCHANGED <<answer, faults>> /\ z = Settled(v)
    BY <1>6 DEF FileReadDone, SetWal
  <2> HIDE DEF z
  <2>7. w \in WalRec /\ 0 \in 0..MaxFiles
    BY Numbers DEF FilesInv, Disk, Chain
  <2>2. x \in WalRec /\ x.torn = w.torn
    BY <2>7 DEF WalRec
  <2> HIDE DEF x
  <2>3. Collected(x, v)
    BY <2>2, DecRef
  <2> HIDE DEF v
  <2>4. v \in WalRec /\ v.torn = x.torn
    BY <2>2, <2>3, CollectedFields
  <2>5. z.torn = v.torn
    BY <2>1, <2>4, EqualSettled
  <2>6. w'.torn = w.torn
    BY <2>2, <2>4, <2>5 DEF z
  <2> QED BY <2>1, <2>6, ReadFunds
<1> QED BY <1>2, <1>3, <1>4, <1>5, <1>6

\* A step that leaves the log, the answer and the work that is left alone, where nothing is due
\* before or after it.
LEMMA StillFunds ==
  ASSUME FundsInv, pc \in {"replay", "idle", "compact", "hung"}, pc' \notin {"write", "body"},
         w' = w, faults' = faults, answer' = answer \/ answer' = "ok",
         run.left = 0 => run'.left = 0, pc' = "hung" => pc = "hung"
  PROVE  FundsInv'
<1>1. TornInv' /\ AnswerInv'
  BY DEF FundsInv, TornInv, AnswerInv
<1>2. Due = 0 /\ Running
  BY DEF Due, Running
<1>3. Running' /\ w'.use /\ InBudget' => pc' # "hung" /\ Ready(w', 0)
  <2>1. InBudget' <=> InBudget
    BY DEF InBudget
  <2>2. w.use /\ InBudget => pc # "hung" /\ Ready(w, 0)
    BY <1>2 DEF FundsInv, BudgetInv
  <2> QED BY <2>1, <2>2
<1> QED BY <1>1, <1>3, RestFunds

\* A write that nothing is reserved for: delete, and release without delay.
LEMMA FreeFunds ==
  ASSUME FundsInv, pc = "idle", w' = w, faults' = faults, answer' = answer,
         NEW op \in {"delete", "release"}, NEW j, Working(op, j, 0)
  PROVE  FundsInv'
<1>1. pc' = "write" /\ run'.need = 0 /\ run'.moving = 0 /\ run'.op = op /\ run'.left = 0
  BY DEF Working
<1>2. TornInv' /\ AnswerInv'
  BY <1>1 DEF FundsInv, TornInv, AnswerInv
<1>3. Needed' = 0
  BY <1>1 DEF Needed
<1>4. Due = 0 /\ Running
  BY DEF Due, Running
<1>5. w'.use /\ InBudget' => Ready(w', run'.need)
  BY <1>1, <1>4 DEF FundsInv, BudgetInv, InBudget
<1> QED BY <1>1, <1>2, <1>3, <1>5, WriteFunds

\* WriteNothing.
LEMMA NothingFunds ==
  ASSUME FilesInv, FundsInv, WriteNothing
  PROVE  FundsInv'
<1>1. pc = "write" /\ ~w.use /\ Compacting(w) /\ w' = w /\ faults' = faults
  BY DEF WriteNothing
<1>2. w \in WalRec /\ run \in RunRec
  BY <1>1, WorkFacts
<1>3. MoveRounds(w) = 0
  BY <1>1, <1>2, MoveRoundsNat
<1>4. pc' = "compact" /\ answer' = answer
      /\ run'.left = IF run.moving = 0 THEN MoveRounds(w) ELSE run.left
  BY <1>1, <1>2, CompactingFields
<1>5. TornInv' /\ AnswerInv'
  BY <1>1, <1>3, <1>4 DEF FundsInv, TornInv, AnswerInv
<1> QED BY <1>1, <1>4, <1>5, RestFunds

\* The log is out of use and its last file is gone: not by a release.
LEMMA NoneFunds ==
  ASSUME FilesInv, FundsInv, Stops
  PROVE  FundsInv'
<1>1. run.left > 0 /\ pc = "compact" /\ Died /\ answer' = answer /\ faults' = faults
  BY DEF Stops, moveNone
<1>2. run.left # 0
  <2>1. run \in RunRec
    BY <1>1, WorkFacts
  <2>2. run.left \in Nat
    BY <2>1, RunFields
  <2> QED BY <1>1, <2>2
<1>3. faults' = 0 => answer' = "ok"
  BY <1>1, <1>2 DEF FundsInv, AnswerInv
<1> QED BY <1>1, <1>3, DiedFunds

\* Crash.
LEMMA CrashFunds ==
  ASSUME FilesInv, Crash
  PROVE  FundsInv'
<1>1. Died /\ faults' = faults + 1 /\ faults \in Nat
  BY FaultsNat DEF Crash
<1>2. faults' # 0
  BY <1>1
<1> QED BY <1>1, <1>2, DiedFunds

\* CrashInOpen.
LEMMA CrashInOpenFunds ==
  ASSUME FilesInv, CrashInOpen
  PROVE  FundsInv'
<1>1. Died /\ faults' = faults + OpenCost /\ faults \in Nat
  BY FaultsNat DEF CrashInOpen
<1>2. OpenCost \in Nat /\ OpenCost # 0
  BY SizesAssumption
<1>3. faults' # 0
  BY <1>1, <1>2
<1> QED BY <1>1, <1>3, DiedFunds

\* WriteError.
LEMMA ErrorFunds ==
  ASSUME FilesInv, WriteError
  PROVE  FundsInv'
<1>1. /\ pc \in {"write", "body"} /\ w.use /\ faults' = faults + 1 /\ faults \in Nat
      /\ \E u : Aimed(u) /\ LogOff(u)
  BY FaultsNat, WriteErrorIs DEF WriteError
<1>2. faults' > 0
  BY <1>1
<1>3. TornInv' /\ AnswerInv'
  BY <1>2 DEF TornInv, AnswerInv
<1>4. ~w'.use /\ pc' \notin {"write", "body"}
  <2>1. PICK u : Aimed(u) /\ LogOff(u)
    BY <1>1
  <2>2. PICK v : LogOffFacts(v)
    BY <1>1, <2>1, LogOffIs
  <2> QED BY <2>1, <2>2 DEF LogOffFacts, LogOff, Failed, Answer
<1> QED BY <1>3, <1>4, RestFunds

\* The commands that write nothing, or what nobody has reserved space for.
LEMMA EasyFunds ==
  ASSUME FilesInv, FundsInv, NEW j, Reserve(j) \/ Requeue(j) \/ Delete(j) \/ Release(j)
  PROVE  FundsInv'
<1>1. CASE Reserve(j) \/ Requeue(j)
  <2>1. pc = "idle" /\ UNCHANGED <<w, pc, run, answer, faults>>
    BY <1>1 DEF Reserve, Requeue
  <2> QED BY <2>1, StillFunds
<1>2. CASE Delete(j)
  <2>1. pc = "idle" /\ UNCHANGED <<w, answer, faults>> /\ Working("delete", j, 0)
    BY <1>2 DEF Delete, Command, Started
  <2> QED BY <2>1, FreeFunds
<1>3. CASE Release(j)
  <2>1. pc = "idle" /\ UNCHANGED <<w, answer, faults>> /\ Working("release", j, 0)
    BY <1>3 DEF Release, Command, Started
  <2> QED BY <2>1, FreeFunds
<1> QED BY <1>1, <1>2, <1>3

\* WalMainDone and Serve, and a step that changes nothing.
LEMMA DoneFunds ==
  ASSUME FundsInv, WalMainDone \/ Serve
  PROVE  FundsInv'
<1>1. CASE WalMainDone
  <2>1. pc = "compact" /\ run.left = 0 /\ Finish /\ UNCHANGED <<w, faults>>
    BY <1>1 DEF WalMainDone
  <2>2. pc' = "idle" /\ run' = NoRun /\ answer' = "ok"
    BY <2>1 DEF Finish, Answer
  <2> QED BY <2>1, <2>2, NoRunFields, StillFunds
<1>2. CASE Serve
  <2>1. pc = "replay" /\ pc' = "idle" /\ UNCHANGED <<w, run, answer, faults>>
    BY <1>2 DEF Serve
  <2> QED BY <2>1, StillFunds
<1> QED BY <1>1, <1>2

\* A step that changes nothing.
LEMMA StutterFunds ==
  ASSUME FundsInv, UNCHANGED walVars
  PROVE  FundsInv'
<1>1. UNCHANGED <<w, jobs, pc, run, answer, faults>>
  BY DEF walVars
<1>2. NeedInv' /\ TornInv' /\ AnswerInv'
  BY <1>1 DEF FundsInv, NeedInv, TornInv, AnswerInv, Needed
<1>3. Due' = Due /\ (Running' <=> Running) /\ (InBudget' <=> InBudget) /\ pc' = pc /\ w' = w
  BY <1>1 DEF Due, Running, InBudget
<1>4. BudgetInv'
  BY <1>3 DEF FundsInv, BudgetInv
<1> QED BY <1>2, <1>4 DEF FundsInv

\* n bytes of what the current file has reserved are written.
Spends(v, u, n) ==
  /\ u.open = v.open /\ u.cur = v.cur /\ u.total = v.total - n
  /\ u.resv[v.cur] = v.resv[v.cur] - n
  /\ \A f \in v.open : u.free[f] = v.free[f] /\ (f # v.cur => u.resv[f] = v.resv[f])

\* What is written is taken from the budget.
LEMMA SpendBudget ==
  ASSUME NEW v, Writing(v), NEW u \in WalRec, NEW n \in Int, NEW m \in Int, n <= m, n >= 0,
         Ready(v, m), Spends(v, u, n)
  PROVE  Ready(u, m - n)
<1>1. /\ v \in WalRec /\ v.open \subseteq Files /\ v.cur \in v.open
      /\ \A f \in v.open : f \in Nat /\ v.free[f] \in Int /\ v.resv[f] \in Int
  BY OpenNumbers
<1>2. v.cur \in Files
  BY <1>1
<1> DEFINE r == v.resv[v.cur]
<1>3. r \in Int /\ r >= m /\ Even(r - m)
  BY <1>1 DEF Ready
<1>4. u.resv[u.cur] = r - n
  BY DEF Spends
<1> HIDE DEF r
<1>5. r - n >= m - n /\ r - n >= 0 /\ (r - n) - (m - n) = r - m
  BY <1>3
<1>6. Totals(u)
  <2>1. Part(u, v.cur) = Part(v, v.cur) + (0 - n)
    <3>1. Part(v, v.cur) = r /\ Part(u, v.cur) = r - n
      BY <1>1, <1>4 DEF Part, Spends, r
    <3> QED BY <1>3, <3>1
  <2>2. \A g \in Files : g # v.cur => Part(u, g) = Part(v, g)
    BY DEF Part, Spends
  <2>3. u.total = v.total + (0 - n)
    <3>1. v.total \in Int
      BY <1>1, WalFields
    <3> QED BY <3>1 DEF Spends
  <2>4. Totals(v) /\ 0 - n \in Int
    BY DEF Ready, Solid
  <2> QED BY <1>1, <1>2, <2>1, <2>2, <2>3, <2>4, AddsMore
<1>7. \A f \in v.open : f > v.cur => u.resv[f] = v.resv[f]
  <2>1. \A f \in v.open : f > v.cur => f # v.cur
    BY <1>1
  <2> QED BY <2>1 DEF Spends
<1>8. Solid(u)
  <2>1. \A f \in u.open : u.free[f] >= 0 /\ u.resv[f] >= 0
    BY <1>4, <1>5 DEF Ready, Solid, Spends
  <2>2. \A f \in u.open : f > u.cur => u.free[f] + u.resv[f] = Cap
    BY <1>7 DEF Ready, Solid, Spends
  <2>3. \A f, g \in u.open : f > u.cur /\ g > f => u.resv[f] > 0
    BY <1>7 DEF Ready, Solid, Spends
  <2> QED BY <1>6, <2>1, <2>2, <2>3 DEF Solid
<1>9. Evens(u)
  BY <1>7 DEF Ready, Evens, Spends
<1> QED BY <1>3, <1>4, <1>5, <1>8, <1>9 DEF Ready

\* What is kept of that.
LEMMA SpendsEqual ==
  ASSUME NEW v, v.cur \in v.open, NEW b, NEW z, NEW n, Spends(v, b, n), Equal(b, z)
  PROVE  Spends(v, z, n)
BY DEF Spends, Equal

\* The command or the migration has the space for the rest of its record.
LEMMA BodyDue ==
  ASSUME Roomy, FilesInv, LogInv, FundsInv, pc = "body"
  PROVE  /\ Due \in Int /\ Due >= Extra[jobs[Subject].kind]
         /\ Even(Due - Extra[jobs[Subject].kind]) /\ Due - Extra[jobs[Subject].kind] >= 0
<1> DEFINE m == Extra[jobs[Subject].kind]
<1>1. m \in Nat /\ Short \in Nat /\ jobs[Subject].kind \in Kinds
  BY SubjectIs, Numbers
<1>2. Due = run.need - Short
  BY DEF Due
<1>3. Due = m \/ Due = m + Short
  <2>1. CASE run.moving # 0
    <3>1. run.need = walResvMigrate(jobs[run.moving].kind) /\ Subject = run.moving
      BY <2>1 DEF FundsInv, NeedInv, Subject
    <3>2. run.need = Short + m
      BY <1>1, <3>1 DEF walResvMigrate
    <3> QED BY <1>1, <1>2, <3>2
  <2>2. CASE run.moving = 0
    <3>1. run.need = Needed /\ Subject = run.job
      BY <2>2 DEF FundsInv, NeedInv, Subject
    <3>2. run.op = "put"
      BY <2>2 DEF LogInv, RestLog
    <3>3. run.need = Short + m + Short
      BY <3>1, <3>2 DEF Needed
    <3> QED BY <1>1, <1>2, <3>3
  <2> QED BY <2>1, <2>2
<1> HIDE DEF m
<1>4. Due - m = 0 \/ Due - m = Short
  BY <1>1, <1>3
<1>5. Even(Due - m)
  BY <1>4, EvenUnits
<1>6. Due \in Int /\ Due >= m /\ Due - m >= 0
  BY <1>1, <1>3
<1> QED BY <1>5, <1>6 DEF m

\* WriteBody.
LEMMA BodyFunds ==
  ASSUME Roomy, FilesInv, LogInv, FundsInv, WriteBody
  PROVE  FundsInv'
<1> DEFINE j == Subject
           m == Extra[jobs[Subject].kind]
           v == fileWrite(w, j, m)
           z == w'
           d == Due
<1>1. pc = "body" /\ z = Settled(v) /\ Compacting(v) /\ faults' = faults
  BY DEF WriteBody
<1>2. w.use
  BY <1>1 DEF FilesInv, RunInv, Running
<1>3. Writing(w) /\ Chain(w) /\ w.cur \in Files /\ w.cur \in w.open
  BY <1>1, <1>2, Writes
<1>4. j \in Ids /\ m \in Int /\ m >= 0 /\ run \in RunRec
  BY <1>1, SubjectIs, WorkFacts
<1>5. d \in Int /\ d >= m /\ Even(d - m) /\ d - m >= 0
  BY <1>1, BodyDue
<1>6. v = fileWrite(w, j, m)
  OBVIOUS
<1> HIDE DEF j, v, m, d, z
<1>7. Wrote(w, j, m, v)
  BY <1>3, <1>4, <1>6, FileWrite
<1>8. v \in WalRec /\ v.torn = w.torn /\ v.spent = w.spent /\ v.use = w.use
  BY <1>7 DEF Wrote, Chain
<1>9. Spends(w, v, m)
  BY <1>3, <1>7, OpenNumbers DEF Spends, Wrote
<1>10. Equal(v, z) /\ z.torn = v.torn /\ z.spent = v.spent /\ z.use = v.use /\ z \in WalRec
  BY <1>1, <1>8, EqualSettled
<1>11. Spends(w, z, m)
  BY <1>3, <1>9, <1>10, SpendsEqual
<1>12. /\ pc' = "compact" /\ answer' = answer
       /\ run'.left = IF run.moving = 0 THEN MoveRounds(v) ELSE run.left
  BY <1>1, <1>4, <1>8, CompactingFields
<1>13. Writing(z)
  <2>1. FilesInv'
    BY WriteBodyKeeps
  <2>2. Log(w', dir') /\ w'.use
    BY <1>2, <1>8, <1>10, <1>12, <2>1 DEF FilesInv, Running, z
  <2> QED BY <2>2 DEF Log, z
<1>14. ASSUME InBudget'
       PROVE  Ready(z, 0)
  <2>1. InBudget
    BY <1>8, <1>10, <1>14 DEF InBudget, z
  <2>2. Ready(w, d)
    BY <1>1, <1>2, <2>1 DEF FundsInv, BudgetInv, Running, d
  <2>3. Ready(z, d - m)
    BY <1>3, <1>4, <1>5, <1>10, <1>11, <2>2, SpendBudget
  <2>4. d - m \in Int
    BY <1>4, <1>5
  <2> QED BY <1>5, <1>13, <2>3, <2>4, ReadyLess
<1>15. TornInv' /\ AnswerInv'
  <2>1. w'.torn = w.torn /\ w'.use
    BY <1>2, <1>8, <1>10 DEF z
  <2> QED BY <1>1, <1>2, <1>12, <2>1 DEF FundsInv, TornInv, AnswerInv
<1>16. w'.use /\ InBudget' => Ready(w', 0)
  BY <1>14 DEF z
<1> QED BY <1>12, <1>15, <1>16, RestFunds

\* The file that a record is written to.
Turn(v) == v = IF w.resv[w.cur] > 0 THEN w ELSE useNext(w)

\* What fileWrite and FileAddJob or FileRmJob leave as it was.
LEMMA RecordTorn ==
  ASSUME NEW v, Writing(v), Once(v), v.use, NEW j \in Ids, NEW full \in BOOLEAN, full => ~InList(v, j),
         NEW inv \in BOOLEAN,
         NEW a, a = fileWrite(IF full THEN FileAddJob(v, v.cur, j) ELSE v, j, Short),
         NEW b, b = IF ~full /\ inv THEN FileRmJob(a, j) ELSE a
  PROVE  Booked(v, b) /\ b.torn = v.torn
<1>1. Chain(v) /\ v.cur \in Files /\ Listed(v, v.cur) /\ Short \in Int
  BY Numbers DEF Writing
<1>2. CASE full
  <2> DEFINE x == FileAddJob(v, v.cur, j)
  <2>1. b = fileWrite(FileAddJob(v, v.cur, j), j, Short) /\ ~InList(v, j)
    BY <1>2
  <2>2. Booked(v, b)
    BY <2>1, WritesFull
  <2> DEFINE c == v.cur
  <2>3. b = fileWrite(x, j, Short) /\ x = FileAddJob(v, c, j) /\ c = v.cur /\ c \in Files /\ Listed(v, c)
    BY <1>1, <2>1
  <2> HIDE DEF c, x
  <2>4. Added(v, c, j, x)
    BY <1>1, <2>1, <2>3, AddJob
  <2>5. Chain(x) /\ x.cur \in Files /\ x.torn = v.torn
    BY <1>1, <2>4 DEF Added, Frame
  <2>6. Wrote(x, j, Short, b)
    BY <1>1, <2>3, <2>5, FileWrite
  <2> QED BY <2>2, <2>5, <2>6 DEF Wrote
<1>3. CASE ~full
  <2>1. a = fileWrite(v, j, Short) /\ b = IF inv THEN FileRmJob(a, j) ELSE a
    BY <1>3
  <2>2. Booked(v, b)
    BY <2>1, WritesShort
  <2>3. Wrote(v, j, Short, a)
    BY <1>1, <2>1, FileWrite
  <2>4. Booked(v, a)
    BY <2>1, FileWritten
  <2>5. a.torn = v.torn /\ Chain(a) /\ Once(a)
    BY <2>3, <2>4 DEF Wrote, Booked, Records
  <2>6. CASE inv
    <3>1. Removed(a, j, b)
      BY <2>1, <2>5, <2>6, RmJob
    <3> QED BY <2>2, <2>5, <3>1 DEF Removed, Frame
  <2>7. CASE ~inv
    BY <2>1, <2>2, <2>5, <2>7
  <2> QED BY <2>6, <2>7
<1> QED BY <1>2, <1>3

\* A release is counted, and nothing else.
LEMMA CountFields ==
  ASSUME NEW b \in WalRec, NEW y, y \in {b, [b EXCEPT !.spent = @ + 1]}
  PROVE  Equal(b, y) /\ y.torn = b.torn /\ y.use = b.use /\ y \in WalRec
<1> DEFINE n == b.spent + 1
           u == [b EXCEPT !.spent = n]
<1>1. n \in Nat
  BY WalFields
<1>2. y \in {b, u}
  OBVIOUS
<1> HIDE DEF n
<1>3. Equal(b, b)
  BY DEF Equal
<1>4. Equal(b, u) /\ u.torn = b.torn /\ u.use = b.use /\ u \in WalRec
  BY <1>1 DEF Equal, WalRec
<1> QED BY <1>2, <1>3, <1>4

\* What WalWrite spends, or the log goes out of use.
LEMMA WriteSpends ==
  ASSUME FilesInv, WalWrite, NEW v, Turn(v)
  PROVE  \/ ~v.ok /\ LogOff(w)
         \/ /\ v.ok /\ Writing(v) /\ Spends(v, w', Short) /\ w'.torn = w.torn /\ w'.use
            /\ w' \in WalRec
<1> DEFINE j == Subject
           full == FileOf(v, j) = 0
           a == fileWrite(IF full THEN FileAddJob(v, v.cur, j) ELSE v, j, Short)
           inv == jobs[j].st = "invalid"
           b == IF ~full /\ inv THEN FileRmJob(a, j) ELSE a
           release == run.op = "release" /\ run.moving = 0
           y == IF release THEN [b EXCEPT !.spent = @ + 1] ELSE b
           z == w'
<1>1. /\ pc = "write" /\ w.use
      /\ IF v.ok THEN z = Settled(y) ELSE LogOff(w)
  BY DEF WalWrite, Turn, ToWrite, Entered
<1> SUFFICES ASSUME v.ok
             PROVE  Writing(v) /\ Spends(v, z, Short) /\ z.torn = w.torn /\ z.use /\ z \in WalRec
  BY <1>1
<1>2. z = Settled(y)
  BY <1>1
<1>3. v = w \/ (HasNext(w) /\ v = useNext(w))
  <2>1. ASSUME ~HasNext(w), v = useNext(w) PROVE FALSE
    <3>1. v = [w EXCEPT !.ok = FALSE]
      BY <2>1 DEF useNext
    <3>2. w \in WalRec
      BY <1>1, Writes
    <3> QED BY <3>1, <3>2 DEF WalRec
  <2> QED BY <2>1 DEF Turn
<1>4. v.torn = w.torn
  <2>1. Writing(w)
    BY <1>1, Writes
  <2> QED BY <1>3, <2>1, UseNext
<1>5. Writing(v) /\ Once(v) /\ v.use /\ v \in WalRec
  <2>1. Turned(v, DirOf(v))
    BY <1>1, <1>3, Turning
  <2> QED BY <2>1 DEF Turned, Writing, Chain
<1>6. j \in Ids
  BY <1>1, SubjectIs
<1> HIDE DEF j
<1>7. full => ~InList(v, j)
  BY <1>5, FileOfIs
<1>8. full \in BOOLEAN /\ inv \in BOOLEAN
  OBVIOUS
<1>9. /\ a = fileWrite(IF full THEN FileAddJob(v, v.cur, j) ELSE v, j, Short)
      /\ b = IF ~full /\ inv THEN FileRmJob(a, j) ELSE a
  OBVIOUS
<1>10. y \in {b, [b EXCEPT !.spent = @ + 1]}
  OBVIOUS
<1> HIDE DEF a, b, full, inv, y, z
<1>11. Booked(v, b) /\ b.torn = v.torn
  BY <1>5, <1>6, <1>7, <1>8, <1>9, RecordTorn
<1>12. b \in WalRec /\ b.use
  BY <1>11 DEF Booked, Records, Writing, Chain
<1>13. Equal(b, y) /\ y.torn = b.torn /\ y.use = b.use /\ y \in WalRec
  BY <1>10, <1>12, CountFields
<1>14. Equal(y, z) /\ z.torn = y.torn /\ z.use = y.use /\ z \in WalRec
  BY <1>2, <1>13, EqualSettled
<1>15. Spends(v, b, Short)
  <2>1. v.open \subseteq Files
    BY <1>5, OpenNumbers
  <2> QED BY <1>11, <2>1 DEF Booked, Records, Spends
<1>16. Spends(v, z, Short)
  <2>1. v.cur \in v.open
    BY <1>5, OpenNumbers
  <2>2. Equal(b, z)
    BY <1>13, <1>14, EqualTwice
  <2> QED BY <1>15, <2>1, <2>2, SpendsEqual
<1> QED BY <1>4, <1>5, <1>11, <1>12, <1>13, <1>14, <1>16

\* The log goes out of use.
LEMMA OffFields ==
  ASSUME FilesInv, pc = "write", w.use, LogOff(w)
  PROVE  /\ w'.torn = w.torn /\ w'.spent = w.spent /\ ~w'.use /\ pc' \notin {"write", "body"}
         /\ run.moving = 0 => run'.left = 0
         /\ run.moving # 0 => answer' = answer
<1> DEFINE v == fileWClose(w, w.cur)
           y == [v EXCEPT !.use = FALSE]
           z == w'
<1>1. /\ z = Settled(y)
      /\ IF run.moving = 0 THEN Failed(Lost(v))
         ELSE pc' = "compact" /\ run' = [run EXCEPT !.moving = 0] /\ answer' = answer
  BY DEF LogOff, SetWal
<1>2. Chain(w) /\ w.cur \in w.open
  BY Writes
<1>3. v = fileWClose(w, w.cur)
  OBVIOUS
<1> HIDE DEF v, z
<1>4. Chain(v) /\ v.torn = w.torn /\ v.spent = w.spent
  BY <1>2, <1>3, CloseFile
<1>5. v \in WalRec
  BY <1>4 DEF Chain
<1>6. y \in WalRec /\ y.torn = v.torn /\ y.spent = v.spent /\ ~y.use
  BY <1>5 DEF WalRec
<1> HIDE DEF y
<1>7. z.torn = y.torn /\ z.spent = y.spent /\ z.use = y.use
  BY <1>1, <1>6, EqualSettled
<1>8. run.moving = 0 => pc' = "idle" /\ run'.left = 0
  BY <1>1, NoRunFields DEF Failed, Answer
<1> QED BY <1>1, <1>4, <1>6, <1>7, <1>8 DEF z

\* What the record under way has reserved, and whose it is.
LEMMA NeedIs ==
  ASSUME Roomy, FilesInv, LogInv, FundsInv, pc = "write", w.use
  PROVE  /\ run.need \in Int /\ run.need >= 0
         /\ run.need > 0 => run.need >= Short /\ (run.need = Short \/ ~InList(w, Subject))
         /\ run.need = 0 => /\ InList(w, Subject)
                            /\ w.total = Base(w)
<1> DEFINE m == Extra[jobs[Subject].kind]
<1>1. m \in Nat /\ Short \in Nat /\ Short > 0 /\ jobs[Subject].kind \in Kinds
  BY SubjectIs, Numbers
<1>2. /\ run.op \in {"put", "delete", "bury", "release"} /\ Base(w) \in Int
      /\ run.moving = 0 => Subject = run.job
      /\ run.moving # 0 => Subject = run.moving
  BY WritingLog
<1>3. CASE run.moving # 0
  <2>1. run.need = walResvMigrate(jobs[Subject].kind)
    BY <1>2, <1>3 DEF FundsInv, NeedInv
  <2>2. run.need = Short + m
    BY <2>1 DEF walResvMigrate
  <2>3. ~InList(w, Subject)
    BY <1>2, <1>3 DEF LogInv, MovingLog
  <2> HIDE DEF m
  <2>4. run.need \in Int /\ run.need >= Short /\ run.need > 0
    BY <1>1, <2>2
  <2> QED BY <2>3, <2>4
<1>4. CASE run.moving = 0
  <2>1. run.need = Needed
    BY <1>4 DEF FundsInv, NeedInv
  <2>2. /\ run.op = "put" <=> ~InList(w, Subject)
        /\ w.total = Base(w) + Needed
    BY <1>2, <1>4 DEF LogInv, OwnLog
  <2>3. CASE run.op = "put"
    <3>1. run.need = Short + m + Short
      BY <1>2, <1>4, <2>1, <2>3 DEF Needed
    <3> HIDE DEF m
    <3>2. run.need \in Int /\ run.need >= Short /\ run.need > 0
      BY <1>1, <3>1
    <3> QED BY <2>2, <2>3, <3>2
  <2>4. CASE run.op = "bury"
    <3>1. run.need = Short
      BY <2>1, <2>4 DEF Needed
    <3> QED BY <1>1, <3>1
  <2>5. CASE run.op \in {"delete", "release"}
    <3>1. run.need = 0 /\ Needed = 0
      BY <2>1, <2>5 DEF Needed
    <3>2. w.total = Base(w) + 0 /\ InList(w, Subject)
      BY <2>2, <2>5, <3>1
    <3>3. w.total = Base(w)
      BY <1>2, <3>2
    <3> QED BY <3>1, <3>2, <3>3
  <2> QED BY <1>2, <2>3, <2>4, <2>5
<1> QED BY <1>3, <1>4

\* With a job in the log and nothing spent there is space for a record.
LEMMA BaseMore ==
  ASSUME NEW v \in WalRec, v.spent = 0, NEW j \in Ids, InList(v, j)
  PROVE  Base(v) >= Short
<1> DEFINE c == Cardinality(Filed(v))
           n == c + v.spare - v.spent
<1>1. c \in Nat /\ IsFiniteSet(Filed(v)) /\ v.spare \in Nat
  BY FiledFinite, WalFields
<1>2. c # 0
  <2>1. j \in Filed(v)
    BY DEF Filed
  <2>2. Filed(v) # {}
    BY <2>1
  <2> QED BY <1>1, <2>2, FS_EmptySet
<1>3. n \in Int /\ n >= 1
  <2> HIDE DEF c
  <2> QED BY <1>1, <1>2
<1>4. Base(v) = Short * n
  BY DEF Base
<1> HIDE DEF n
<1>5. Short * n >= Short
  BY <1>3, Numbers
<1> QED BY <1>4, <1>5

\* Space for a record that nothing is reserved for: that of a delete to come.
LEMMA TakenOver ==
  ASSUME Writing(w), w.ok, Ready(w, 0), w.total > 0, NEW v, Turn(v)
  PROVE  v.ok /\ Ready(v, Short)
<1>1. /\ w \in WalRec /\ w.cur \in w.open /\ w.open \subseteq Files
      /\ \A f \in w.open : /\ f \in Nat /\ w.free[f] \in Int /\ w.resv[f] \in Int
                           /\ w.cur <= f /\ f <= TailFile(w)
  BY OpenNumbers
<1>2. Solid(w) /\ Evens(w) /\ w.resv[w.cur] >= 0 /\ Even(w.resv[w.cur] - 0)
  BY DEF Ready
<1>3. Short \in Int /\ Short > 0 /\ Even(Short)
  BY Numbers, EvenUnits
<1>4. ASSUME NEW r \in Int, Even(r), r > 0
      PROVE  r >= Short /\ Even(r - Short)
  BY <1>3, <1>4, EvenSmall, EvenSum
<1>5. CASE w.resv[w.cur] > 0
  <2> DEFINE r == w.resv[w.cur]
  <2>1. v = w
    BY <1>5 DEF Turn
  <2>2. r \in Int /\ r > 0 /\ r - 0 = r
    BY <1>1, <1>5
  <2>3. Even(r)
    BY <1>2, <2>2
  <2> HIDE DEF r
  <2>4. r >= Short /\ Even(r - Short)
    BY <1>4, <2>2, <2>3
  <2> QED BY <1>2, <2>1, <2>4 DEF Ready, r
<1>6. CASE ~(w.resv[w.cur] > 0)
  <2>1. w.resv[w.cur] = 0
    BY <1>1, <1>2, <1>6
  <2>2. PICK f \in w.open : w.resv[f] > 0
    <3>1. Totals(w) /\ \A f \in w.open : w.resv[f] >= 0
      BY <1>2 DEF Solid
    <3> QED BY <1>1, <3>1, SomeReserved
  <2>3. f # w.cur /\ f > w.cur
    <3>1. f # w.cur
      BY <1>6, <2>2
    <3>2. f \in Nat /\ w.cur \in Nat /\ w.cur <= f
      BY <1>1
    <3> QED BY <3>1, <3>2
  <2>4. HasNext(w)
    <3>1. f \in Nat /\ w.cur \in Nat /\ f <= TailFile(w)
      BY <1>1
    <3>2. w.cur # TailFile(w)
      BY <2>3, <3>1
    <3> QED BY <3>2 DEF HasNext
  <2>5. v = useNext(w)
    BY <1>6 DEF Turn
  <2>6. /\ Writing(v) /\ v.ok /\ v.cur > w.cur /\ v.cur \in w.open /\ v.open = w.open \ {w.cur}
        /\ v.resv = w.resv /\ (\A g \in w.open : g > w.cur => g >= v.cur)
        /\ Solid(v) /\ Evens(v) /\ Even(v.resv[v.cur])
    BY <1>2, <2>1, <2>4, <2>5, NextValues
  <2>7. v.resv[v.cur] > 0
    <3>1. CASE f = v.cur
      BY <2>2, <2>6, <3>1
    <3>2. CASE f # v.cur
      <4>1. f >= v.cur /\ f \in Nat /\ v.cur \in Nat
        BY <1>1, <2>3, <2>6
      <4>2. f > v.cur
        BY <3>2, <4>1
      <4>3. w.resv[v.cur] > 0
        BY <1>2, <2>6, <4>2 DEF Solid
      <4> QED BY <2>6, <4>3
    <3> QED BY <3>1, <3>2
  <2> DEFINE r == v.resv[v.cur]
  <2>8. r \in Int
    BY <1>1, <2>6
  <2>9. r > 0 /\ Even(r)
    BY <2>6, <2>7
  <2>10. Solid(v) /\ Evens(v) /\ v.ok
    BY <2>6
  <2> HIDE DEF r
  <2>11. r >= Short /\ Even(r - Short)
    BY <1>4, <2>8, <2>9
  <2> QED BY <2>10, <2>11 DEF Ready, r
<1> QED BY <1>5, <1>6

\* A record that is reserved for, or else the delete that is, has space in the file that is written.
LEMMA WriteDue ==
  ASSUME Roomy, FilesInv, LogInv, FundsInv, pc = "write", w.use, InBudget, NEW v, Turn(v)
  PROVE  /\ v.ok
         /\ run.need > 0 => Ready(v, run.need)
         /\ run.need = 0 => Ready(v, Short)
<1>1. Ready(w, run.need)
  BY DEF FundsInv, BudgetInv, Due, Running
<1>2. Writing(w) /\ w \in WalRec /\ w.ok /\ Subject \in Ids
  BY Writes, SubjectIs
<1>3. /\ run.need \in Int /\ run.need >= 0
      /\ run.need = 0 => InList(w, Subject) /\ w.total = Base(w)
  BY NeedIs
<1>4. CASE run.need > 0
  <2>1. w.resv[w.cur] >= run.need /\ w.resv[w.cur] \in Int
    BY <1>1, <1>2, OpenNumbers DEF Ready
  <2>2. w.resv[w.cur] > 0
    BY <1>3, <1>4, <2>1
  <2>3. v = w
    BY <2>2 DEF Turn
  <2> QED BY <1>1, <1>2, <1>3, <1>4, <2>3
<1>5. CASE run.need = 0
  <2>1. Base(w) >= Short /\ Base(w) \in Int
    BY <1>2, <1>3, <1>5, BaseMore, BaseInt DEF InBudget
  <2>2. w.total > 0
    BY <1>3, <1>5, <2>1, Numbers
  <2>3. Ready(w, 0)
    BY <1>1, <1>5
  <2> QED BY <1>2, <1>5, <2>2, <2>3, TakenOver
<1> QED BY <1>3, <1>4, <1>5

\* WalWrite turns the log off.
LEMMA OffFunds ==
  ASSUME Roomy, FilesInv, LogInv, FundsInv, pc = "write", w.use, LogOff(w), faults' = faults,
         NEW v, Turn(v), ~v.ok
  PROVE  FundsInv'
<1>1. /\ w'.torn = w.torn /\ w'.spent = w.spent /\ ~w'.use /\ pc' \notin {"write", "body"}
      /\ run.moving = 0 => run'.left = 0
      /\ run.moving # 0 => answer' = answer
  BY OffFields
<1>2. TornInv'
  BY <1>1 DEF FundsInv, TornInv
<1>3. AnswerInv'
  <2> SUFFICES ASSUME faults' = 0
               PROVE  answer' = "ok" \/ (w'.spent > 0 /\ run'.left = 0)
    BY <1>1 DEF AnswerInv
  <2>1. answer = "ok" /\ ~w.torn
    BY DEF FundsInv, AnswerInv, TornInv
  <2>2. ~InBudget
    BY WriteDue
  <2>3. w.spent \in Nat /\ w.spent # 0
    BY <2>1, <2>2, Writes, WalFields DEF InBudget
  <2> QED BY <1>1, <2>1, <2>3
<1> QED BY <1>1, <1>2, <1>3, RestFunds

\* WalWrite.
LEMMA RecordFunds ==
  ASSUME Roomy, FilesInv, LogInv, FundsInv, WalWrite
  PROVE  FundsInv'
<1> DEFINE v == IF w.resv[w.cur] > 0 THEN w ELSE useNext(w)
<1>1. Turn(v)
  BY DEF Turn
<1> HIDE DEF v
<1>2. pc = "write" /\ w.use /\ faults' = faults
  BY DEF WalWrite
<1>3. CASE ~v.ok /\ LogOff(w)
  BY <1>1, <1>2, <1>3, OffFunds
<1>4. ASSUME v.ok, Writing(v), Spends(v, w', Short), w'.torn = w.torn, w'.use, w' \in WalRec
      PROVE  FundsInv'
  <2>1. PICK x, b : \E full \in BOOLEAN : WriteFacts(x, b, full)
    <3>1. ~LogOff(w)
      <4>1. ASSUME LogOff(w) PROVE FALSE
        BY <1>2, <1>4, <4>1, OffFields
      <4> QED BY <4>1
    <3> QED BY <3>1, WalWriteIs
  <2>2. PICK full \in BOOLEAN : WriteFacts(x, b, full)
    BY <2>1
  <2>3. /\ full <=> ~InList(w, Subject)
        /\ IF full THEN pc' = "body" /\ UNCHANGED <<jobs, run, answer>> ELSE Compacting(b)
        /\ b \in WalRec
        /\ w'.spent = w.spent \/ w'.spent = w.spent + 1
    BY <2>2 DEF WriteFacts, Booked, Records, Writing, Chain
  <2>4. /\ run.need \in Int /\ run.need >= 0 /\ Short \in Nat /\ Short > 0
        /\ run.need > 0 => run.need >= Short /\ (run.need = Short \/ ~InList(w, Subject))
        /\ run.need = 0 => InList(w, Subject)
    BY <1>2, NeedIs, Numbers
  <2>5. run \in RunRec
    BY <1>2, WorkFacts
  <2>6. TornInv'
    BY <1>2, <1>4 DEF FundsInv, TornInv
  <2>7. answer' = answer
    <3>1. CASE full
      BY <2>3, <3>1
    <3>2. CASE ~full
      BY <2>3, <2>5, <3>2, CompactingFields
    <3> QED BY <3>1, <3>2
  <2>8. AnswerInv'
    BY <1>2, <2>7 DEF FundsInv, AnswerInv
  <2>9. ASSUME InBudget'
        PROVE  /\ run.need > 0 => Ready(w', run.need - Short)
               /\ run.need = 0 => Ready(w', 0)
    <3>1. w.spent \in Nat /\ w'.spent = 0 /\ ~w'.torn
      BY <1>2, <2>9, Writes, WalFields DEF InBudget
    <3>2. InBudget
      BY <1>4, <2>3, <3>1 DEF InBudget
    <3>3. /\ run.need > 0 => Ready(v, run.need)
          /\ run.need = 0 => Ready(v, Short)
      BY <1>1, <1>2, <3>2, WriteDue
    <3> DEFINE z == w'
    <3>4. Writing(v) /\ Spends(v, z, Short) /\ z \in WalRec
      BY <1>4
    <3> HIDE DEF z
    <3>5. ASSUME NEW m \in Int, m >= Short, Ready(v, m)
          PROVE  Ready(z, m - Short)
      BY <2>4, <3>4, <3>5, SpendBudget
    <3>6. run.need > 0 => Ready(z, run.need - Short)
      BY <2>4, <3>3, <3>5
    <3>7. run.need = 0 => Ready(z, 0)
      <4>1. Short \in Int /\ Short >= Short /\ Short - Short = 0
        BY <2>4
      <4> QED BY <3>3, <3>5, <4>1
    <3> QED BY <3>6, <3>7 DEF z
  <2>10. CASE full
    <3>1. pc' = "body" /\ UNCHANGED <<jobs, run>> /\ run.need > 0
      BY <2>3, <2>4, <2>10
    <3>2. Due' = run.need - Short
      BY <3>1 DEF Due
    <3>3. NeedInv'
      <4>1. Needed' = Needed
        BY <3>1 DEF Needed
      <4> QED BY <1>2, <3>1, <4>1 DEF FundsInv, NeedInv
    <3>4. BudgetInv'
      BY <2>9, <3>1, <3>2 DEF BudgetInv
    <3> QED BY <2>6, <2>8, <3>3, <3>4 DEF FundsInv
  <2>11. CASE ~full
    <3>1. pc' = "compact"
      BY <2>3, <2>5, <2>11, CompactingFields
    <3>2. run.need = 0 \/ run.need = Short
      BY <2>3, <2>4, <2>11
    <3>3. InBudget' => Ready(w', 0)
      <4>1. Short - Short = 0 /\ Short > 0
        BY <2>4
      <4> QED BY <2>9, <3>2, <4>1
    <3> QED BY <2>6, <2>8, <3>1, <3>3, RestFunds
  <2> QED BY <2>10, <2>11
<1> QED BY <1>1, <1>3, <1>4, WriteSpends

\* The budget is kept by every step, by one group of actions after the other.
LEMMA FundsKept ==
  ASSUME Roomy, FilesInv, LogInv, FundsInv, WalNext
  PROVE  FundsInv'
<1>1. CASE Commands
  <2>1. ASSUME NEW kind \in Kinds, NEW delayed \in BOOLEAN, NEW room \in Rooms,
               Put(kind, delayed, room)
        PROVE  FundsInv'
    BY <2>1, PutFunds
  <2>2. ASSUME NEW j \in DOMAIN jobs, Reserve(j) \/ Requeue(j) \/ Delete(j) \/ Release(j)
        PROVE  FundsInv'
    BY <2>2, EasyFunds
  <2>3. ASSUME NEW j \in DOMAIN jobs, NEW room \in Rooms, Bury(j, room) \/ ReleaseDelayed(j, room)
        PROVE  FundsInv'
    BY <2>3, BuryFunds
  <2> QED BY <1>1, <2>1, <2>2, <2>3 DEF Commands
<1>2. CASE Work
  <2>1. ASSUME NEW room \in Rooms, moveOne(room) PROVE FundsInv'
    BY <2>1, MoveOneSplits, MoveFunds, NoneFunds
  <2> QED BY <1>2, <2>1, NothingFunds, RecordFunds, BodyFunds, DoneFunds DEF Work
<1>3. CASE Recovery
  <2>1. ASSUME NEW room \in Rooms, WalInit(room) PROVE FundsInv'
    BY <2>1, InitFunds
  <2>2. ASSUME NEW room \in Rooms, protReplay(room) PROVE FundsInv'
    BY <2>2, ReplayFunds
  <2> QED BY <1>3, <2>1, <2>2, RecoveryFunds, DoneFunds DEF Recovery
<1> QED BY <1>1, <1>2, <1>3, ErrorFunds, CrashFunds, CrashInOpenFunds DEF WalNext

-----------------------------------------------------------------------------
(* What the budget is for.                                                 *)

\* When no job is larger than a file, what is reserved is there for the writes that come, and an
\* error is answered only after a fault or a release.
THEOREM FundsCorrect ==
  ASSUME Roomy
  PROVE  WalSpec => []FundsInv
<1>1. WalStart => FundsInv
  <2> SUFFICES ASSUME WalStart PROVE FundsInv
    OBVIOUS
  <2>1. pc = "down" /\ answer = "ok" /\ w = EmptyWal(1)
    BY DEF WalStart
  <2>2. w.torn = FALSE
    BY <2>1 DEF EmptyWal
  <2> QED BY <2>1, <2>2 DEF FundsInv, BudgetInv, NeedInv, TornInv, AnswerInv, Running
<1>2. ASSUME FilesInv /\ LogInv, FundsInv, [WalNext]_walVars
      PROVE  FundsInv'
  BY <1>2, FundsKept, StutterFunds
<1> QED BY <1>1, <1>2, LogCorrect, PTL DEF WalSpec

\* The comment on balance in wal.go, of the budget.
LEMMA BudgetBalanced ==
  ASSUME FilesInv, LogInv, FundsInv
  PROVE  Balanced
<1> SUFFICES ASSUME w.use, InBudget, pc \in {"write", "idle"}
             PROVE  /\ pc = "write" /\ run.need > 0 =>
                         /\ w.resv[w.cur] >= run.need
                         /\ (w.resv[w.cur] - run.need) % Short = 0
                    /\ \A f \in FutureFiles : w.resv[f] % Short = 0
  BY DEF Balanced
<1>1. Running /\ pc # "hung"
  BY DEF Running
<1>2. Ready(w, Due)
  BY <1>1 DEF FundsInv, BudgetInv
<1>3. Writing(w)
  BY <1>1 DEF FilesInv, Log
<1>4. w.cur \in w.open /\ \A f \in w.open : w.resv[f] \in Int
  BY <1>3, OpenNumbers
<1>5. Short \in Int /\ Short > 0
  BY Numbers
<1>6. ASSUME NEW n \in Int, n >= 0, Even(n)
      PROVE  n % Short = 0
  <2>1. Even(n - 0) /\ 0 \in Int /\ 0 >= 0 /\ 0 < Short
    <3>1. n - 0 = n
      OBVIOUS
    <3> QED BY <1>5, <1>6, <3>1
  <2> QED BY <1>6, <2>1, Remainder
<1>7. ASSUME pc = "write", run.need > 0
      PROVE  w.resv[w.cur] >= run.need /\ (w.resv[w.cur] - run.need) % Short = 0
  <2>1. Due = run.need /\ run.need \in Int
    <3>1. run \in RunRec
      BY <1>7, WorkFacts
    <3>2. run.need \in Int
      BY <3>1, RunFields
    <3> QED BY <1>7, <3>2 DEF Due
  <2>2. w.resv[w.cur] >= run.need /\ Even(w.resv[w.cur] - run.need)
    BY <1>2, <2>1 DEF Ready
  <2>3. w.resv[w.cur] - run.need \in Int /\ w.resv[w.cur] - run.need >= 0
    BY <1>4, <2>1, <2>2
  <2> QED BY <1>6, <2>2, <2>3
<1>8. ASSUME NEW f \in FutureFiles
      PROVE  w.resv[f] % Short = 0
  <2>1. f \in w.open /\ f > w.cur
    BY DEF FutureFiles
  <2>2. Even(w.resv[f]) /\ w.resv[f] >= 0
    BY <1>2, <2>1 DEF Ready, Evens, Solid
  <2> QED BY <1>4, <1>6, <2>1, <2>2
<1> QED BY <1>7, <1>8

\* ResvSum is the sum that Totals speaks of.
LEMMA ReservedIs ==
  ASSUME NEW v \in WalRec, Totals(v)
  PROVE  ResvSum(v) = v.total
<1> DEFINE sum[g \in 0..MaxFiles] ==
             IF g = 0 THEN 0 ELSE sum[g - 1] + (IF g \in v.open THEN v.resv[g] ELSE 0)
<1>1. PICK s : Adds(v, s) /\ s[MaxFiles] = v.total
  BY DEF Totals
<1>2. MaxFiles \in Nat /\ Files = 1..MaxFiles
  BY Numbers DEF Files
<1>3. ResvSum(v) = sum[MaxFiles]
  BY DEF ResvSum
<1>4. s = [g \in 0..MaxFiles |->
             IF g = 0 THEN 0 ELSE s[g - 1] + (IF g \in v.open THEN v.resv[g] ELSE 0)]
  <2>1. s \in [0..MaxFiles -> Int] /\ s[0] = 0
    BY <1>1 DEF Adds
  <2>2. ASSUME NEW g \in 0..MaxFiles
        PROVE  s[g] = IF g = 0 THEN 0 ELSE s[g - 1] + (IF g \in v.open THEN v.resv[g] ELSE 0)
    <3>1. g # 0 => g \in Files
      BY <1>2
    <3> QED BY <1>1, <2>1, <3>1 DEF Adds, Part
  <2> QED BY <2>1, <2>2
<1>5. sum = [g \in 0..MaxFiles |->
               IF g = 0 THEN 0 ELSE sum[g - 1] + (IF g \in v.open THEN v.resv[g] ELSE 0)]
  BY <1>4
<1> HIDE DEF sum
<1>6. SUFFICES ASSUME sum[MaxFiles] # s[MaxFiles] PROVE FALSE
  BY <1>1, <1>3
<1> DEFINE Differ == {g \in 0..MaxFiles : sum[g] # s[g]}
<1>7. Differ \in SUBSET Nat /\ Differ # {}
  BY <1>2, <1>6
<1>8. PICK m \in Differ : \A n \in Differ : m <= n
  <2> HIDE DEF Differ
  <2> QED BY <1>7, LeastNumber
<1>9. m \in 0..MaxFiles /\ sum[m] # s[m]
  OBVIOUS
<1>10. m # 0
  BY <1>4, <1>5, <1>9
<1>11. m - 1 \in 0..MaxFiles /\ m - 1 \notin Differ
  BY <1>2, <1>8, <1>9, <1>10
<1>12. sum[m - 1] = s[m - 1]
  BY <1>11
<1> HIDE DEF Differ
<1>13. sum[m] = sum[m - 1] + (IF m \in v.open THEN v.resv[m] ELSE 0)
  BY <1>5, <1>9, <1>10
<1>14. s[m] = s[m - 1] + (IF m \in v.open THEN v.resv[m] ELSE 0)
  BY <1>4, <1>9, <1>10
<1> QED BY <1>9, <1>12, <1>13, <1>14

\* No file is overdrawn, of the budget.
LEMMA BudgetSolvent ==
  ASSUME FilesInv, FundsInv
  PROVE  Solvent
<1> SUFFICES ASSUME Serving, InBudget
             PROVE  /\ \A f \in w.open : w.free[f] >= 0 /\ w.resv[f] >= 0
                    /\ w.total = ResvSum(w)
  BY DEF Solvent
<1>1. Running /\ w.use
  BY DEF Running, Serving
<1>2. Ready(w, Due) /\ w \in WalRec
  BY <1>1 DEF FundsInv, BudgetInv, FilesInv, Disk, Chain
<1>3. Solid(w)
  BY <1>2 DEF Ready
<1>4. ResvSum(w) = w.total
  BY <1>2, <1>3, ReservedIs DEF Solid
<1> QED BY <1>3, <1>4 DEF Solid

\* The reservations of a log in use are in order, by reserve, balance, balanceRest, moveResv,
\* useNext and every write that takes what they leave: Budget.
THEOREM BudgetCorrect ==
  ASSUME Roomy
  PROVE  WalSpec => []Budget
<1>1. FundsInv => Returns
  BY DEF FundsInv, BudgetInv, Running, Returns
<1>2. FilesInv /\ LogInv /\ FundsInv => Budget
  BY <1>1, BudgetBalanced, BudgetSolvent DEF Budget
<1> QED BY <1>2, FundsCorrect, LogCorrect, PTL

\* Without a fault, and as long as no release has used up the space of a delete, no command fails:
\* NoInternalError, by WalWrite and every reservation that is made before it.
THEOREM AnswersCorrect ==
  ASSUME Roomy
  PROVE  WalSpec => []NoInternalError
<1>1. FundsInv => NoInternalError
  BY DEF FundsInv, AnswerInv, NoInternalError
<1> QED BY <1>1, FundsCorrect, PTL
=============================================================================
