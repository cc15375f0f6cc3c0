--------------------------- MODULE EventLoopProofs ---------------------------
(***************************************************************************)
(* The interest list, for any number of connections: however the adds of a *)
(* handler link it, a ring included, applying it comes to every connection *)
(* whose interest is not registered yet, leaves no link behind, and never  *)
(* closes a connection twice.                                              *)
(*                                                                         *)
(* The list is not followed.  That a connection is in it is said by sets:  *)
(* every set that holds the head and, with a connection, its successor,    *)
(* holds the connection too (Covers).                                      *)
(***************************************************************************)
EXTENDS EventLoop, SequenceTheorems, FiniteSetTheorems, WellFoundedInduction, TLAPS

Interests == {"none", "r", "w", "h"}
States == {"none", "WantCommand", "WantData", "Bitbucket", "Send", "Wait", "Close", "Closed"}
SockType == [Added : BOOLEAN, AddedFilter : {"none", "r", "w"}, open : BOOLEAN,
             reg : {"none", "r", "w", "h"}, refused : BOOLEAN]

QType == [head : Conns \cup {Nil}, next : [Conns -> Conns \cup {Nil}], rw : [Conns -> Interests]]

\* The connections that something in the list points to.
Members(q) == {x \in Conns : q.head = x \/ \E y \in Conns : q.next[y] = x}

\* S is closed under the links, and holds the head.
Closed(q, S) ==
  q.head \in S \cup {Nil} /\ \A x \in S : q.next[x] \in S \cup {Nil}

\* The list comes to all of P, and to all that have a successor.
Covers(q, P) ==
  \A S \in SUBSET Conns :
    Closed(q, S) => P \subseteq S /\ \A x \in Conns : q.next[x] # Nil => x \in S

\* Nothing is to be done about x: the kernel watches it for what its state needs.
Settled(x, st, sk) == sk[x].refused \/ ~sk[x].open \/ sk[x].reg = Wants(st[x])

Unsettled == {x \in Conns : ~Settled(x, State, sock)}

\* What is in the list is open for the server, and carries the interest of its state.
ListSound ==
  /\ \A x \in Members(Queue) : State[x] \notin {"none", "Closed"} /\ Rw[x] = Wants(State[x])
  /\ Covers(Queue, Unsettled)
  /\ pc \in {"poll", "tick"} => epollQ = Nil

\* What the kernel has under a descriptor is what Socket says.
RegSound(s) == s.reg # "none" => s.open /\ s.Added /\ Filter(s.reg) = s.AddedFilter
SockSound == \A x \in Conns : RegSound(sock[x])

\* Who waits is in StateWait, who was closed has nothing and was closed once.
ConnSound ==
  /\ \A x \in waiting : State[x] = "Wait"
  /\ \A x \in Conns : State[x] = "Closed" => held[x] = 0 /\ ~sock[x].open
  /\ \A x \in Conns : closes[x] = IF State[x] = "Closed" THEN 1 ELSE 0

LoopIInv == LoopTypeOK /\ ListSound /\ SockSound /\ ConnSound

-----------------------------------------------------------------------------
(***************************************************************************)
(* The operations on the list.                                             *)
(***************************************************************************)

\* r is the list q with c added, and comes to P and c.
Added(r, q, c, rw, P) ==
  /\ r \in QType /\ r.head = c /\ c \in Members(r)
  /\ \A x \in Conns : r.next[x] = IF x = c THEN q.head ELSE q.next[x]
  /\ \A x \in Conns : r.rw[x] = IF x = c THEN rw ELSE q.rw[x]
  /\ Members(r) \subseteq Members(q) \cup {c}
  /\ Covers(r, P \cup {c})

\* Adding a connection that nothing else is linked behind.
LEMMA AddKeeps ==
  ASSUME NEW q \in QType, NEW c \in Conns, NEW rw \in Interests, NEW P \in SUBSET Conns,
         Covers(q, P), q.next[c] \in {Nil, c}
  PROVE  Added(EpollQAdd(q, c, rw), q, c, rw, P)
<1> DEFINE r == EpollQAdd(q, c, rw)
<1>1. /\ q.head \in Conns \cup {Nil} /\ q.next \in [Conns -> Conns \cup {Nil}]
      /\ q.rw \in [Conns -> Interests]
  BY DEF QType
<1>2. /\ r.head = c /\ r.next = [q.next EXCEPT ![c] = q.head] /\ r.rw = [q.rw EXCEPT ![c] = rw]
      /\ r = [head |-> c, next |-> [q.next EXCEPT ![c] = q.head], rw |-> [q.rw EXCEPT ![c] = rw]]
  BY DEF EpollQAdd
<1>3. r \in QType
  BY <1>1, <1>2 DEF QType
<1> HIDE DEF r
<1>4. /\ \A x \in Conns : r.next[x] = IF x = c THEN q.head ELSE q.next[x]
      /\ \A x \in Conns : r.rw[x] = IF x = c THEN rw ELSE q.rw[x]
  BY <1>1, <1>2
<1>5. Members(r) \subseteq Members(q) \cup {c} /\ c \in Members(r)
  BY <1>2, <1>4 DEF Members
<1>6. ASSUME NEW S \in SUBSET Conns, Closed(r, S)
      PROVE  P \cup {c} \subseteq S /\ \A x \in Conns : r.next[x] # Nil => x \in S
  <2>1. c \in S
    BY <1>2, <1>6, LoopAssumption DEF Closed
  <2>2. q.head \in S \cup {Nil}
    BY <1>4, <1>6, <2>1 DEF Closed
  <2>3. \A x \in S : q.next[x] \in S \cup {Nil}
    BY <1>4, <1>6, <2>1 DEF Closed
  <2>4. P \subseteq S /\ \A x \in Conns : q.next[x] # Nil => x \in S
    BY <2>2, <2>3 DEF Covers, Closed
  <2> QED BY <1>4, <2>1, <2>4
<1>7. Covers(r, P \cup {c})
  BY <1>6 DEF Covers
<1> QED BY <1>2, <1>3, <1>4, <1>5, <1>7 DEF r, Added

\* Taking the head, as EpollQApply does.
LEMMA HeadTaken ==
  ASSUME NEW q \in QType, NEW P \in SUBSET Conns, Covers(q, P), q.head # Nil,
         NEW r, r = [head |-> q.next[q.head], next |-> [q.next EXCEPT ![q.head] = Nil], rw |-> q.rw]
  PROVE  /\ r \in QType /\ Members(r) \subseteq Members(q) /\ Covers(r, P \ {q.head})
<1> DEFINE c == q.head
<1>1. /\ c \in Conns /\ q.next \in [Conns -> Conns \cup {Nil}] /\ q.rw \in [Conns -> Interests]
  BY DEF QType
<1>2. /\ r.head = q.next[c] /\ r.rw = q.rw
      /\ \A x \in Conns : r.next[x] = IF x = c THEN Nil ELSE q.next[x]
  BY <1>1
<1>3. r \in QType
  BY <1>1 DEF QType
<1>4. Members(r) \subseteq Members(q)
  BY <1>1, <1>2, LoopAssumption DEF Members
<1>5. ASSUME NEW S \in SUBSET Conns, Closed(r, S)
      PROVE  P \ {c} \subseteq S /\ \A x \in Conns : r.next[x] # Nil => x \in S
  <2>1. Closed(q, S \cup {c}) /\ S \cup {c} \in SUBSET Conns
    BY <1>1, <1>2, <1>5 DEF Closed
  <2>2. P \subseteq S \cup {c} /\ \A x \in Conns : q.next[x] # Nil => x \in S \cup {c}
    BY <2>1 DEF Covers
  <2> QED BY <1>2, <2>2
<1> QED BY <1>3, <1>4, <1>5 DEF Covers

\* A list without a head is no list.
LEMMA NoHead ==
  ASSUME NEW q \in QType, NEW P \in SUBSET Conns, Covers(q, P), q.head = Nil
  PROVE  P = {} /\ Members(q) = {} /\ \A x \in Conns : q.next[x] = Nil
<1>1. Closed(q, {}) /\ {} \in SUBSET Conns
  BY DEF Closed
<1>2. P \subseteq {} /\ \A x \in Conns : q.next[x] # Nil => x \in {}
  BY <1>1 DEF Covers
<1> QED BY <1>2, LoopAssumption DEF Members

\* A list in which nothing is linked covers nothing.
LEMMA NothingLinked ==
  ASSUME NEW q, \A x \in Conns : q.next[x] = Nil
  PROVE  Covers(q, {})
BY DEF Covers

\* EpollQRmConn of the only connection in the list.
LEMMA RemovedLast ==
  ASSUME NEW q \in QType, NEW c \in Conns, q.head \in {Nil, c}, \A x \in Conns : q.next[x] = Nil
  PROVE  LET r == EpollQRmConn(q, c)
         IN  r \in QType /\ r.head = Nil /\ \A x \in Conns : r.next[x] = Nil
<1> DEFINE m == 2 * Cardinality(Conns)
           Step(s) ==
             IF s.head = Nil THEN s
             ELSE LET x == s.head
                      cut == [s.next EXCEPT ![x] = Nil]
                  IN  [head |-> s.next[x],
                       next |-> IF x # c THEN [cut EXCEPT ![x] = s.new] ELSE cut,
                       new  |-> IF x # c THEN x ELSE s.new]
           s0 == [head |-> q.head, next |-> q.next, new |-> Nil]
           s1 == [head |-> Nil, next |-> q.next, new |-> Nil]
           list[i \in 0..m] == IF i = 0 THEN s0 ELSE Step(list[i - 1])
<1>1. EpollQRmConn(q, c) = [head |-> list[m].new, next |-> list[m].next, rw |-> q.rw]
  BY DEF EpollQRmConn
<1>2. m \in Nat /\ m > 0
  <2>1. Cardinality(Conns) \in Nat /\ Cardinality(Conns) # 0
    BY LoopAssumption, FS_CardinalityType, FS_EmptySet
  <2> QED BY <2>1
<1>3. q.next \in [Conns -> Conns \cup {Nil}] /\ q.rw \in [Conns -> Interests]
  BY DEF QType
<1>4. Step(s0) = s1 /\ Step(s1) = s1
  <2>1. Step(s1) = s1
    OBVIOUS
  <2>2. CASE q.head = Nil
    BY <2>1, <2>2
  <2>3. CASE q.head = c /\ c # Nil
    <3>1. [q.next EXCEPT ![c] = Nil] = q.next
      BY <1>3
    <3>2. s0.head = c /\ s0.next = q.next /\ s0.new = Nil
      BY <2>3
    <3>3. Step(s0) = [head |-> q.next[c], next |-> [q.next EXCEPT ![c] = Nil], new |-> Nil]
      BY <2>3, <3>2
    <3> QED BY <2>1, <3>1, <3>3
  <2> QED BY <2>2, <2>3
<1> HIDE DEF Step, s0, s1, m
<1>5. list = [i \in 0..m |-> IF i = 0 THEN s0 ELSE Step(list[i - 1])]
  <2> DEFINE f == [i \in 0..m |-> IF i = 0 THEN s0 ELSE s1]
  <2>1. f = [i \in 0..m |-> IF i = 0 THEN s0 ELSE Step(f[i - 1])]
    <3>1. ASSUME NEW i \in 0..m PROVE f[i] = IF i = 0 THEN s0 ELSE Step(f[i - 1])
      <4>1. CASE i = 0
        BY <4>1
      <4>2. CASE i # 0
        <5>1. i - 1 \in 0..m
          BY <1>2, <4>2
        <5> QED BY <1>4, <4>2, <5>1
      <4> QED BY <4>1, <4>2
    <3> QED BY <3>1
  <2> HIDE DEF f
  <2> QED BY <2>1
<1> HIDE DEF list
<1>6. list[0] = s0 /\ \A i \in 1..m : list[i] = Step(list[i - 1])
  <2>1. 0 \in 0..m /\ \A i \in 1..m : i \in 0..m /\ i # 0
    BY <1>2
  <2> QED BY <1>5, <2>1
<1>7. \A i \in 1..m : list[i] = s1
  <2> DEFINE Bad == {i \in 1..m : list[i] # s1}
  <2> SUFFICES ASSUME Bad # {} PROVE FALSE
    OBVIOUS
  <2>1. PICK i \in Bad : \A k \in Bad : <<k, i>> \notin OpToRel(<, Nat)
    <3>1. Bad \subseteq Nat
      BY <1>2
    <3> HIDE DEF Bad
    <3> QED BY <3>1, NatLessThanWellFounded, WFMin
  <2>2. i \in 1..m /\ list[i] = Step(list[i - 1])
    BY <1>6, <2>1
  <2>3. CASE i = 1
    <3>1. i - 1 = 0
      BY <2>3
    <3> QED BY <1>4, <1>6, <2>1, <2>2, <3>1
  <2>4. CASE i # 1
    <3>1. i - 1 \in 1..m /\ i - 1 \in Nat /\ i \in Nat /\ i - 1 < i
      BY <1>2, <2>2, <2>4
    <3>2. i - 1 \notin Bad
      BY <2>1, <3>1 DEF OpToRel
    <3> QED BY <1>4, <2>1, <2>2, <3>1, <3>2
  <2> QED BY <2>3, <2>4
<1>8. list[m] = s1
  BY <1>2, <1>7
<1>9. list[m].new = Nil /\ list[m].next = q.next
  BY <1>8 DEF s1
<1>10. EpollQRmConn(q, c) = [head |-> Nil, next |-> q.next, rw |-> q.rw]
  BY <1>1, <1>9
<1> QED BY <1>3, <1>10 DEF QType

\* f is what F[1], ..., F[n] make of x0, one after the other.
Iterates(X, x0, n, F, f) ==
  f \in [0..n -> X] /\ f[0] = x0 /\ \A k \in 1..n : f[k] = F[k][f[k - 1]]

\* Functions of one set can be iterated.
LEMMA IteratesExist ==
  ASSUME NEW X, NEW x0 \in X, NEW n \in Nat, NEW F \in [1..n -> [X -> X]]
  PROVE  \E f : Iterates(X, x0, n, F, f)
<1> DEFINE Good(i) == \E f \in [0..i -> X] : f[0] = x0 /\ \A k \in 1..i : f[k] = F[k][f[k - 1]]
           Bad == {i \in 0..n : ~Good(i)}
<1>1. Good(0)
  <2>1. [k \in 0..0 |-> x0] \in [0..0 -> X] /\ [k \in 0..0 |-> x0][0] = x0
    OBVIOUS
  <2>2. \A k \in 1..0 : FALSE
    OBVIOUS
  <2> QED BY <2>1, <2>2
<1>2. ASSUME NEW i \in 0..(n - 1), Good(i) PROVE Good(i + 1)
  <2>1. PICK f \in [0..i -> X] : f[0] = x0 /\ \A k \in 1..i : f[k] = F[k][f[k - 1]]
    BY <1>2
  <2> DEFINE g == [k \in 0..(i + 1) |-> IF k = i + 1 THEN F[i + 1][f[i]] ELSE f[k]]
  <2>2. \A k \in 0..i : g[k] = f[k] /\ f[k] \in X
    OBVIOUS
  <2>3. g[i + 1] = F[i + 1][f[i]] /\ F[i + 1][f[i]] \in X
    <3>1. i + 1 \in 1..n /\ i \in 0..i /\ i + 1 \in 0..(i + 1)
      OBVIOUS
    <3> QED BY <3>1
  <2>4. g \in [0..(i + 1) -> X]
    BY <2>2, <2>3
  <2> HIDE DEF g
  <2>5. ASSUME NEW k \in 1..(i + 1) PROVE g[k] = F[k][g[k - 1]]
    <3>1. CASE k = i + 1
      <4>1. k - 1 = i /\ i \in 0..i
        BY <3>1
      <4> QED BY <3>1, <4>1, <2>2, <2>3
    <3>2. CASE k # i + 1
      <4>1. k \in 1..i /\ k - 1 \in 0..i /\ k \in 0..i
        BY <3>2
      <4> QED BY <4>1, <2>1, <2>2
    <3> QED BY <3>1, <3>2
  <2>6. g[0] = x0
    <3>1. 0 \in 0..i
      OBVIOUS
    <3> QED BY <2>1, <2>2, <3>1
  <2> QED BY <2>4, <2>5, <2>6
<1> HIDE DEF Good
<1>3. Bad = {}
  <2> SUFFICES ASSUME Bad # {} PROVE FALSE
    OBVIOUS
  <2>1. PICK i \in Bad : \A k \in Bad : <<k, i>> \notin OpToRel(<, Nat)
    <3>1. Bad \subseteq Nat
      OBVIOUS
    <3> HIDE DEF Bad
    <3> QED BY <3>1, NatLessThanWellFounded, WFMin
  <2>2. i # 0 /\ i \in 0..n
    BY <1>1, <2>1
  <2>3. i - 1 \in 0..n /\ i - 1 \in 0..(n - 1) /\ (i - 1) + 1 = i /\ i - 1 < i /\ i - 1 \in Nat
        /\ i \in Nat
    BY <2>2
  <2>4. i - 1 \notin Bad
    BY <2>1, <2>3 DEF OpToRel
  <2>5. Good(i - 1)
    BY <2>3, <2>4
  <2> QED BY <1>2, <2>1, <2>3, <2>5
<1>4. Good(n)
  BY <1>3
<1> QED BY <1>4 DEF Good, Iterates

Adds == Conns \X Interests

\* AddAll adds one after the other.
LEMMA AddAllFacts ==
  ASSUME NEW q \in QType, NEW adds \in Seq(Adds)
  PROVE  \E f \in [0..Len(adds) -> QType] :
           /\ f[0] = q /\ AddAll(q, adds) = f[Len(adds)]
           /\ \A k \in 1..Len(adds) : f[k] = EpollQAdd(f[k - 1], adds[k][1], adds[k][2])
<1> DEFINE n == Len(adds)
           F == [k \in 1..n |-> [r \in QType |-> EpollQAdd(r, adds[k][1], adds[k][2])]]
           list[i \in 0..n] ==
             IF i = 0 THEN q ELSE EpollQAdd(list[i - 1], adds[i][1], adds[i][2])
<1>1. n \in Nat /\ \A k \in 1..n : adds[k] \in Adds /\ adds[k][1] \in Conns /\ adds[k][2] \in Interests
  BY DEF Adds
<1>2. AddAll(q, adds) = list[n]
  BY DEF AddAll
<1> HIDE DEF n
<1>3. ASSUME NEW r \in QType, NEW k \in 1..n PROVE EpollQAdd(r, adds[k][1], adds[k][2]) \in QType
  BY <1>1 DEF EpollQAdd, QType
<1>4. F \in [1..n -> [QType -> QType]]
  BY <1>3
<1>5. \A k \in 1..n : \A r \in QType : F[k][r] = EpollQAdd(r, adds[k][1], adds[k][2])
  OBVIOUS
<1> HIDE DEF F
<1>6. PICK f \in [0..n -> QType] : f[0] = q /\ \A k \in 1..n : f[k] = F[k][f[k - 1]]
  <2> HIDE DEF list
  <2>1. q \in QType /\ n \in Nat
    BY <1>1
  <2>2. PICK f : Iterates(QType, q, n, F, f)
    BY <1>4, <2>1, IteratesExist
  <2> QED BY <2>2 DEF Iterates
<1>7. ASSUME NEW k \in 1..n PROVE f[k] = EpollQAdd(f[k - 1], adds[k][1], adds[k][2])
  <2>1. k - 1 \in 0..n
    BY <1>1
  <2> QED BY <1>5, <1>6, <2>1
<1>8. f = [i \in 0..n |-> IF i = 0 THEN q ELSE EpollQAdd(f[i - 1], adds[i][1], adds[i][2])]
  <2>1. ASSUME NEW i \in 0..n
        PROVE  f[i] = IF i = 0 THEN q ELSE EpollQAdd(f[i - 1], adds[i][1], adds[i][2])
    <3>1. CASE i = 0
      BY <1>6, <3>1
    <3>2. CASE i # 0
      <4>1. i \in 1..n
        BY <1>1, <3>2
      <4> QED BY <1>7, <3>2, <4>1
    <3> QED BY <3>1, <3>2
  <2> QED BY <2>1
<1>9. list = [i \in 0..n |-> IF i = 0 THEN q ELSE EpollQAdd(list[i - 1], adds[i][1], adds[i][2])]
  BY <1>8
<1> HIDE DEF list
<1>10. \E g \in [0..n -> QType] : /\ g[0] = q /\ list[n] = g[n]
                              /\ \A k \in 1..n : g[k] = EpollQAdd(g[k - 1], adds[k][1], adds[k][2])
  <2> DEFINE Bad == {k \in 0..n : list[k] # f[k]}
  <2>1. Bad = {}
    <3> SUFFICES ASSUME Bad # {} PROVE FALSE
      OBVIOUS
    <3>1. PICK i \in Bad : \A k \in Bad : <<k, i>> \notin OpToRel(<, Nat)
      <4>1. Bad \subseteq Nat
        BY <1>1
      <4> HIDE DEF Bad
      <4> QED BY <4>1, NatLessThanWellFounded, WFMin
    <3>2. i \in 0..n /\ list[i] # f[i] /\ i # 0
      BY <1>6, <1>9, <3>1
    <3>3. i - 1 \in 0..n /\ i \in 1..n /\ i - 1 < i /\ i - 1 \in Nat /\ i \in Nat
      BY <1>1, <3>2
    <3>4. list[i - 1] = f[i - 1]
      BY <3>1, <3>3 DEF OpToRel
    <3>5. list[i] = EpollQAdd(list[i - 1], adds[i][1], adds[i][2])
      BY <1>9, <3>2
    <3> QED BY <1>7, <3>2, <3>3, <3>4, <3>5
  <2>2. n \in 0..n
    BY <1>1
  <2>3. list[n] = f[n]
    BY <2>1, <2>2
  <2> QED BY <1>6, <1>7, <2>3
<1> QED BY <1>2, <1>10 DEF n

\* The adds of a handler, in which every connection is added once, behind a list in which no
\* connection has another for its successor: the list comes to all of them.
LEMMA AddsKeep ==
  ASSUME NEW q \in QType, NEW adds \in Seq(Adds), NEW P \in SUBSET Conns, Covers(q, P),
         \A x \in Conns : q.next[x] \in {Nil, x},
         \A i, k \in 1..Len(adds) : adds[i][1] = adds[k][1] => i = k
  PROVE  LET r == AddAll(q, adds)
             A == {adds[i][1] : i \in 1..Len(adds)}
         IN  /\ r \in QType /\ Members(r) \subseteq Members(q) \cup A /\ Covers(r, P \cup A)
             /\ \A i \in 1..Len(adds) : r.rw[adds[i][1]] = adds[i][2]
             /\ \A x \in Conns \ A : r.rw[x] = q.rw[x]
<1> DEFINE n == Len(adds)
           A(k) == {adds[i][1] : i \in 1..k}
<1>1. n \in Nat /\ \A k \in 1..n : adds[k][1] \in Conns /\ adds[k][2] \in Interests
  BY DEF Adds
<1>2. PICK f \in [0..n -> QType] :
        /\ f[0] = q /\ AddAll(q, adds) = f[n]
        /\ \A k \in 1..n : f[k] = EpollQAdd(f[k - 1], adds[k][1], adds[k][2])
  BY AddAllFacts
<1> HIDE DEF n
<1> DEFINE Good(k) == /\ Members(f[k]) \subseteq Members(q) \cup A(k) /\ Covers(f[k], P \cup A(k))
                      /\ \A i \in 1..k : f[k].rw[adds[i][1]] = adds[i][2]
                      /\ \A x \in Conns \ A(k) : f[k].rw[x] = q.rw[x] /\ f[k].next[x] = q.next[x]
           Bad == {k \in 0..n : ~Good(k)}
<1>3. Good(0)
  <2>1. A(0) = {} /\ \A i \in 1..0 : FALSE
    OBVIOUS
  <2>2. P \cup {} = P
    OBVIOUS
  <2> HIDE DEF A
  <2> QED BY <1>2, <2>1, <2>2
<1>4. ASSUME NEW k \in 1..n, Good(k - 1) PROVE Good(k)
  <2> DEFINE p == f[k - 1]
             c == adds[k][1]
             w == adds[k][2]
  <2>1. k - 1 \in 0..n /\ p \in QType /\ c \in Conns /\ w \in Interests /\ f[k] = EpollQAdd(p, c, w)
    <3>1. k - 1 \in 0..n
      BY <1>1
    <3>2. p \in QType /\ f[k] = EpollQAdd(p, c, w)
      BY <1>2, <3>1
    <3> QED BY <1>1, <3>1, <3>2
  <2>2. A(k - 1) \in SUBSET Conns /\ A(k) = A(k - 1) \cup {c} /\ c \notin A(k - 1)
    <3>1. \A i \in 1..(k - 1) : i \in 1..n /\ i # k /\ i \in 1..k
      BY <1>1
    <3>2. \A i \in 1..k : i = k \/ i \in 1..(k - 1)
      BY <1>1
    <3>3. k \in 1..k
      BY <1>1
    <3>4. c \notin A(k - 1)
      BY <3>1 DEF n
    <3> QED BY <1>1, <3>1, <3>2, <3>3, <3>4
  <2>3. \A i \in 1..k : i = k \/ (i \in 1..(k - 1) /\ adds[i][1] \in A(k - 1))
    BY <1>1
  <2>4. /\ Members(p) \subseteq Members(q) \cup A(k - 1) /\ Covers(p, P \cup A(k - 1))
        /\ \A i \in 1..(k - 1) : p.rw[adds[i][1]] = adds[i][2]
        /\ \A x \in Conns \ A(k - 1) : p.rw[x] = q.rw[x] /\ p.next[x] = q.next[x]
    BY <1>4
  <2> HIDE DEF A, p, c, w
  <2>5. p.next[c] \in {Nil, c}
    BY <2>1, <2>2, <2>4
  <2>6. /\ \A x \in Conns : f[k].next[x] = IF x = c THEN p.head ELSE p.next[x]
        /\ \A x \in Conns : f[k].rw[x] = IF x = c THEN w ELSE p.rw[x]
        /\ Members(f[k]) \subseteq Members(p) \cup {c}
        /\ Covers(f[k], (P \cup A(k - 1)) \cup {c})
    <3> DEFINE P1 == P \cup A(k - 1)
               r == EpollQAdd(p, c, w)
    <3>1. P1 \in SUBSET Conns /\ Covers(p, P1)
      BY <2>2, <2>4
    <3> HIDE DEF P1
    <3>2. /\ \A x \in Conns : r.next[x] = IF x = c THEN p.head ELSE p.next[x]
          /\ \A x \in Conns : r.rw[x] = IF x = c THEN w ELSE p.rw[x]
          /\ Members(r) \subseteq Members(p) \cup {c}
          /\ Covers(r, P1 \cup {c})
      <4>1. p \in QType /\ c \in Conns /\ w \in Interests
        BY <2>1
      <4>2. Added(EpollQAdd(p, c, w), p, c, w, P1)
        BY <2>5, <3>1, <4>1, AddKeeps
      <4> QED BY <4>2 DEF Added
    <3> HIDE DEF r
    <3>3. r = f[k]
      BY <2>1 DEF r
    <3> QED BY <3>2, <3>3 DEF P1
  <2>7. (P \cup A(k - 1)) \cup {c} = P \cup A(k)
    BY <2>2
  <2>8. p.rw \in [Conns -> Interests] /\ p.next \in [Conns -> Conns \cup {Nil}]
    BY <2>1 DEF QType
  <2>9. \A x \in Conns \ A(k) : f[k].rw[x] = q.rw[x] /\ f[k].next[x] = q.next[x]
    BY <2>2, <2>4, <2>6, <2>8
  <2>10. ASSUME NEW i \in 1..k PROVE f[k].rw[adds[i][1]] = adds[i][2]
    <3>1. CASE i = k
      BY <2>1, <2>6, <2>8, <3>1 DEF c, w
    <3>2. CASE i # k
      <4>1. i \in 1..(k - 1) /\ adds[i][1] \in A(k - 1)
        BY <2>3, <3>2
      <4>2. p.rw[adds[i][1]] = adds[i][2] /\ adds[i][1] \in Conns /\ adds[i][1] # c
        BY <2>2, <2>4, <4>1
      <4> QED BY <2>6, <2>8, <4>2
    <3> QED BY <3>1, <3>2
  <2>11. Members(f[k]) \subseteq Members(q) \cup A(k)
    BY <2>2, <2>4, <2>6
  <2>12. Covers(f[k], P \cup A(k))
    BY <2>6, <2>7
  <2> QED BY <2>9, <2>10, <2>11, <2>12
<1> HIDE DEF Good
<1>5. Bad = {}
  <2> SUFFICES ASSUME Bad # {} PROVE FALSE
    OBVIOUS
  <2>1. PICK i \in Bad : \A k \in Bad : <<k, i>> \notin OpToRel(<, Nat)
    <3>1. Bad \subseteq Nat
      BY <1>1
    <3> HIDE DEF Bad
    <3> QED BY <3>1, NatLessThanWellFounded, WFMin
  <2>2. i # 0 /\ i \in 0..n
    BY <1>3, <2>1
  <2>3. i - 1 \in 0..n /\ i \in 1..n /\ i - 1 < i /\ i - 1 \in Nat /\ i \in Nat
    BY <1>1, <2>2
  <2>4. Good(i - 1)
    BY <2>1, <2>3 DEF OpToRel
  <2> QED BY <1>4, <2>1, <2>3, <2>4
<1>6. Good(n) /\ f[n] \in QType
  <2>1. n \in 0..n
    BY <1>1
  <2> QED BY <1>5, <2>1
<1> QED BY <1>2, <1>6 DEF Good, n

\* What serving W leaves: woken are those that got a job, A those that were added.
Served(q, P, W, st, hd, A, woken) ==
  /\ Queue' \in QType /\ Members(Queue') \subseteq Members(q) \cup A /\ Covers(Queue', P \cup A)
  /\ \A x \in Conns : Rw'[x] = IF x \in A THEN "w" ELSE q.rw[x]
  /\ waiting' = W \ woken /\ ready' \in Nat
  /\ held' = [x \in Conns |-> hd[x] + IF x \in woken THEN 1 ELSE 0]
  /\ State' = [x \in Conns |-> IF x \in woken THEN "Send" ELSE st[x]]

\* adds are those of the members of s, then those of after: all distinct, with replies to send.
ReplySeq(adds, s, after) ==
  /\ adds \in Seq(Adds)
  /\ \A i \in 1..Len(adds) : adds[i][2] = "w"
  /\ \A i, k \in 1..Len(adds) : adds[i][1] = adds[k][1] => i = k
  /\ {adds[i][1] : i \in 1..Len(adds)} = Range(s) \cup {after[i][1] : i \in 1..Len(after)}

\* The adds of a serving: distinct connections, all with a reply to send.
LEMMA ReplyAdds ==
  ASSUME NEW W \in SUBSET Conns, NEW s \in Seq(W),
         \A i, j \in 1..Len(s) : s[i] = s[j] => i = j,
         NEW C \in SUBSET Conns, NEW after \in Seq(C \X {"w"}), Len(after) <= 1, C \cap W = {}
  PROVE  ReplySeq(ReplyAll(s) \o after, s, after)
<1> DEFINE u == ReplyAll(s)
           adds == u \o after
           m == Len(s)
<1>0. m \in Nat /\ DOMAIN s = 1..m /\ \A i \in 1..m : s[i] \in W
  OBVIOUS
<1>1. u = [i \in 1..m |-> <<s[i], "w">>]
  BY <1>0 DEF ReplyAll
<1>2. u \in Seq(Adds) /\ Len(u) = m
  <2>1. \A i \in 1..m : <<s[i], "w">> \in Adds
    BY <1>0 DEF Adds, Interests
  <2>2. u \in [1..m -> Adds]
    BY <1>1, <2>1
  <2> QED BY <1>0, <1>1, <2>2
<1>3. after \in Seq(Adds)
  <2>1. C \X {"w"} \subseteq Adds
    BY DEF Adds, Interests
  <2> QED BY <2>1
<1>4. \A i \in 1..m : u[i] = <<s[i], "w">> /\ u[i][1] = s[i] /\ u[i][2] = "w" /\ s[i] \in W
  BY <1>0, <1>1
<1> HIDE DEF u, m
<1>5. m \in Nat /\ Len(after) \in Nat /\ \A i \in 1..Len(after) : after[i] \in C \X {"w"} /\ i = 1
  BY <1>0
<1>6. \A i \in 1..Len(after) : after[i][1] \in C /\ after[i][2] = "w" /\ i = 1
  BY <1>5
<1>7. adds \in Seq(Adds) /\ Len(adds) = m + Len(after)
  <2>1. adds \in Seq(Adds) /\ Len(adds) = Len(u) + Len(after)
    BY <1>2, <1>3, ConcatProperties
  <2> QED BY <1>2, <2>1
<1>8. \A i \in 1..m : adds[i] = u[i]
  BY <1>2, <1>3
<1>9. \A i \in 1..Len(after) : adds[m + i] = after[i]
  BY <1>2, <1>3
<1> HIDE DEF adds
<1>10. ASSUME NEW i \in 1..Len(adds)
       PROVE  \/ i \in 1..m /\ adds[i][1] = s[i] /\ adds[i][2] = "w" /\ s[i] \in W
              \/ i = m + 1 /\ 1 \in 1..Len(after) /\ adds[i][1] = after[1][1] /\ adds[i][1] \in C
                 /\ adds[i][2] = "w"
  <2>1. CASE i \in 1..m
    BY <1>4, <1>8, <2>1
  <2>2. CASE i \notin 1..m
    <3>1. i = m + 1 /\ 1 \in 1..Len(after)
      BY <1>5, <1>7, <2>2
    <3>2. adds[m + 1] = after[1]
      BY <1>9, <3>1
    <3> QED BY <1>6, <3>1, <3>2
  <2> QED BY <2>1, <2>2
<1>11. ASSUME NEW i \in 1..Len(adds), NEW k \in 1..Len(adds), adds[i][1] = adds[k][1] PROVE i = k
  <2>1. \A j, l \in 1..m : s[j] = s[l] => j = l
    BY DEF m
  <2> QED BY <1>10, <1>11, <2>1
<1>12. {adds[i][1] : i \in 1..Len(adds)} = Range(s) \cup {after[i][1] : i \in 1..Len(after)}
  <2>1. ASSUME NEW i \in 1..Len(adds)
        PROVE  adds[i][1] \in Range(s) \cup {after[j][1] : j \in 1..Len(after)}
    BY <1>0, <1>10 DEF Range, m
  <2>2. ASSUME NEW i \in 1..m PROVE i \in 1..Len(adds) /\ adds[i][1] = s[i]
    <3>1. i \in 1..Len(adds)
      BY <1>5, <1>7
    <3> QED BY <1>4, <1>8, <3>1
  <2>3. ASSUME NEW i \in 1..Len(after)
        PROVE  m + i \in 1..Len(adds) /\ adds[m + i][1] = after[i][1]
    BY <1>5, <1>7, <1>9
  <2>4. Range(s) = {s[i] : i \in 1..m}
    BY <1>0 DEF Range, m
  <2> DEFINE I == {adds[i][1] : i \in 1..Len(adds)}
             J == {after[i][1] : i \in 1..Len(after)}
  <2>5. I \subseteq Range(s) \cup J
    BY <2>1
  <2>6. Range(s) \subseteq I
    BY <2>2, <2>4
  <2>7. J \subseteq I
    <3> SUFFICES ASSUME NEW i \in 1..Len(after) PROVE after[i][1] \in I
      OBVIOUS
    <3>1. m + i \in 1..Len(adds) /\ adds[m + i][1] = after[i][1]
      BY <2>3
    <3> QED BY <3>1
  <2> HIDE DEF I, J
  <2>8. I = Range(s) \cup J
    BY <2>5, <2>6, <2>7
  <2> QED BY <2>8 DEF I, J
<1>13. \A i \in 1..Len(adds) : adds[i][2] = "w"
  BY <1>10
<1> QED BY <1>7, <1>11, <1>12, <1>13 DEF adds, u, ReplySeq

\* after is the last add of a handler, of the connection in C, or none.
Adding(after, C) ==
  /\ after \in Seq(C \X {"w"}) /\ Len(after) <= 1
  /\ C = {after[i][1] : i \in 1..Len(after)}

\* Serve, behind a list in which no connection has another for its successor.
LEMMA ServeFacts ==
  ASSUME NEW q \in QType, NEW P \in SUBSET Conns, Covers(q, P),
         \A x \in Conns : q.next[x] \in {Nil, x},
         NEW W \in SUBSET Conns, NEW n \in Nat, NEW st, NEW hd,
         NEW C \in SUBSET Conns, NEW after, Adding(after, C), C \cap W = {},
         Serve(q, W, n, st, hd, after)
  PROVE  \E woken : woken \in SUBSET W /\ Served(q, P, W, st, hd, woken \cup C, woken)
<1>0. after \in Seq(C \X {"w"}) /\ Len(after) <= 1 /\ C = {after[i][1] : i \in 1..Len(after)}
  BY DEF Adding
<1>1. PICK s \in Servings(W, n) :
        /\ SetQueue(AddAll(q, ReplyAll(s) \o after))
        /\ waiting' = W \ Range(s) /\ ready' = n - Len(s)
        /\ held' = [x \in Conns |-> hd[x] + IF x \in Range(s) THEN 1 ELSE 0]
        /\ State' = [x \in Conns |-> IF x \in Range(s) THEN "Send" ELSE st[x]]
  BY DEF Serve
<1> DEFINE m == Fewer(n, Cardinality(W))
           adds == ReplyAll(s) \o after
           A == Range(s) \cup C
           r == AddAll(q, adds)
<1>2. Cardinality(W) \in Nat
  BY LoopAssumption, FS_Subset, FS_CardinalityType
<1>3. m \in Nat /\ m <= n
  BY <1>2 DEF Fewer
<1>4. s \in [1..m -> W] /\ \A i, j \in DOMAIN s : s[i] = s[j] => i = j
  BY <1>1 DEF Servings
<1> HIDE DEF m
<1>5. Len(s) = m /\ Range(s) \in SUBSET W
  BY <1>3, <1>4 DEF Range
<1>6. ready' \in Nat
  BY <1>1, <1>3, <1>5
<1>7. /\ adds \in Seq(Adds)
      /\ \A i \in 1..Len(adds) : adds[i][2] = "w"
      /\ \A i, k \in 1..Len(adds) : adds[i][1] = adds[k][1] => i = k
      /\ {adds[i][1] : i \in 1..Len(adds)} = A
  <2>1. s \in Seq(W) /\ Len(s) = m /\ DOMAIN s = 1..Len(s)
    BY <1>3, <1>4
  <2>2. \A i, j \in 1..Len(s) : s[i] = s[j] => i = j
    BY <1>4, <2>1
  <2>3. ReplySeq(ReplyAll(s) \o after, s, after)
    BY <1>0, <2>1, <2>2, ReplyAdds
  <2> QED BY <1>0, <2>3 DEF ReplySeq
<1> HIDE DEF adds, A
<1>8. /\ r \in QType /\ Members(r) \subseteq Members(q) \cup A /\ Covers(r, P \cup A)
      /\ \A i \in 1..Len(adds) : r.rw[adds[i][1]] = adds[i][2]
      /\ \A x \in Conns \ A : r.rw[x] = q.rw[x]
  BY <1>7, AddsKeep
<1>9. Queue' = r
  <2>1. epollQ' = r.head /\ NextConn' = r.next /\ Rw' = r.rw
    BY <1>1 DEF SetQueue, adds
  <2> QED BY <1>8, <2>1 DEF Queue, QType
<1>10. \A x \in Conns : Rw'[x] = IF x \in A THEN "w" ELSE q.rw[x]
  <2>1. Rw' = r.rw
    BY <1>1 DEF SetQueue, adds
  <2>2. \A x \in A : r.rw[x] = "w"
    BY <1>7, <1>8
  <2> HIDE DEF r
  <2> QED BY <1>8, <2>1, <2>2
<1> HIDE DEF r
<1>11. Served(q, P, W, st, hd, A, Range(s))
  BY <1>1, <1>5, <1>6, <1>8, <1>9, <1>10 DEF Served
<1> QED BY <1>5, <1>11 DEF A

-----------------------------------------------------------------------------
(***************************************************************************)
(* The kernel's answers.                                                   *)
(***************************************************************************)

\* The socket with its old interest deleted, and with rw noted as the new one.
Cut(s) == [s EXCEPT !.reg = "none"]
Noted(s, rw) == IF rw = "none" THEN s ELSE [s EXCEPT !.Added = TRUE, !.AddedFilter = Filter(rw)]

\* The four ways sockWant may end.
LEMMA WantCases ==
  ASSUME NEW s \in SockType, NEW rw \in Interests, RegSound(s), NEW d \in sockWant(s, rw)
  PROVE  \/ ~s.open /\ ~s.Added /\ rw = "none" /\ d = [ok |-> TRUE, s |-> s]
         \/ /\ ~s.open \/ s.reg = "none"
            /\ d = [ok |-> FALSE, s |-> [Noted(s, rw) EXCEPT !.refused = TRUE]]
         \/ s.open /\ rw = "none" /\ d = [ok |-> TRUE, s |-> Cut(s)]
         \/ s.open /\ rw # "none" /\ d = [ok |-> TRUE, s |-> [Noted(Cut(s), rw) EXCEPT !.reg = rw]]
         \/ /\ s.open /\ rw # "none"
            /\ d = [ok |-> FALSE, s |-> [Noted(Cut(s), rw) EXCEPT !.refused = TRUE]]
<1> DEFINE found == ~s.Added \/ (s.reg # "none" /\ Filter(s.reg) = s.AddedFilter)
           lost == IF s.Added THEN Cut(s) ELSE s
           refusal(t) == [ok |-> FALSE, s |-> [Noted(t, rw) EXCEPT !.refused = TRUE]]
<1>1. d \in IF ~s.open THEN {IF ~s.Added /\ rw = "none" THEN [ok |-> TRUE, s |-> s] ELSE refusal(s)}
            ELSE IF ~found THEN {refusal(s)}
            ELSE IF rw = "none" THEN {[ok |-> TRUE, s |-> lost]}
            ELSE {[ok |-> TRUE, s |-> [Noted(lost, rw) EXCEPT !.reg = rw]]}
                 \cup IF s.refused \/ Cardinality(Refused) < MaxRefused THEN {refusal(lost)} ELSE {}
  BY DEF sockWant, Cut, Noted
<1>2. lost = Cut(s)
  <2>1. ~s.Added => s.reg = "none"
    BY DEF RegSound
  <2> QED BY <2>1 DEF SockType, Cut
<1>3. ~found => s.Added /\ s.reg = "none"
  BY DEF RegSound
<1> HIDE DEF found, lost
<1>4. CASE ~s.open
  BY <1>1, <1>4
<1>5. CASE s.open /\ ~found
  BY <1>1, <1>3, <1>5
<1>6. CASE s.open /\ found /\ rw = "none"
  BY <1>1, <1>2, <1>6
<1>7. CASE s.open /\ found /\ rw # "none"
  <2>1. d \in {[ok |-> TRUE, s |-> [Noted(lost, rw) EXCEPT !.reg = rw]], refusal(lost)}
    BY <1>1, <1>7
  <2> QED BY <1>2, <1>7, <2>1
<1> QED BY <1>4, <1>5, <1>6, <1>7

\* The filter of an interest.
LEMMA FilterType == \A rw \in Interests : Filter(rw) \in {"none", "r", "w"}
BY DEF Filter, Interests

\* What sockWant leaves of the socket.
LEMMA WantFacts ==
  ASSUME NEW s \in SockType, NEW rw \in Interests, RegSound(s), NEW d \in sockWant(s, rw)
  PROVE  /\ d.ok \in BOOLEAN /\ d.s \in SockType /\ RegSound(d.s) /\ d.s.open = s.open
         /\ d.ok /\ rw # "none" => s.open /\ d.s.reg = rw
         /\ d.ok /\ s.open /\ rw = "none" => d.s.reg = "none"
         /\ ~d.ok => d.s.refused /\ (rw # "none" => d.s.Added) /\ (~s.open \/ d.s.reg = "none")
<1>1. CASE ~s.open /\ ~s.Added /\ rw = "none" /\ d = [ok |-> TRUE, s |-> s]
  BY <1>1
<1>2. CASE /\ ~s.open \/ s.reg = "none"
           /\ d = [ok |-> FALSE, s |-> [Noted(s, rw) EXCEPT !.refused = TRUE]]
  <2> DEFINE t == [Noted(s, rw) EXCEPT !.refused = TRUE]
  <2>1. /\ t \in SockType /\ t.open = s.open /\ t.refused /\ t.reg = s.reg /\ (rw # "none" => t.Added)
        /\ rw = "none" => t.Added = s.Added /\ t.AddedFilter = s.AddedFilter
    BY FilterType DEF SockType, Noted, Cut
  <2>2. s.reg = "none"
    BY <1>2 DEF RegSound
  <2>3. d.ok = FALSE /\ d.s = t
    BY <1>2
  <2> HIDE DEF t
  <2> QED BY <2>1, <2>2, <2>3 DEF RegSound
<1>3. CASE s.open /\ rw = "none" /\ d = [ok |-> TRUE, s |-> Cut(s)]
  BY <1>3 DEF SockType, Noted, Cut, RegSound
<1>4. CASE s.open /\ rw # "none" /\ d = [ok |-> TRUE, s |-> [Noted(Cut(s), rw) EXCEPT !.reg = rw]]
  <2> DEFINE t == [Noted(Cut(s), rw) EXCEPT !.reg = rw]
  <2>1. /\ t \in SockType /\ t.open = s.open /\ t.reg = rw /\ t.Added /\ t.AddedFilter = Filter(rw)
    BY <1>4, FilterType DEF SockType, Noted, Cut, Interests
  <2>2. d.ok = TRUE /\ d.s = t
    BY <1>4
  <2> HIDE DEF t
  <2> QED BY <1>4, <2>1, <2>2 DEF RegSound
<1>5. CASE s.open /\ rw # "none" /\ d = [ok |-> FALSE, s |-> [Noted(Cut(s), rw) EXCEPT !.refused = TRUE]]
  <2> DEFINE t == [Noted(Cut(s), rw) EXCEPT !.refused = TRUE]
  <2>1. /\ t \in SockType /\ t.open = s.open /\ t.refused /\ t.reg = "none" /\ t.Added
    BY <1>5, FilterType DEF SockType, Noted, Cut
  <2>2. d.ok = FALSE /\ d.s = t
    BY <1>5
  <2> HIDE DEF t
  <2> QED BY <1>5, <2>1, <2>2 DEF RegSound
<1> QED BY <1>1, <1>2, <1>3, <1>4, <1>5, WantCases

\* A socket of which the kernel refused an interest is not let go of.
LEMMA RefusedAgain ==
  ASSUME NEW s \in SockType, NEW rw \in Interests, rw # "none", RegSound(s),
         NEW d \in sockWant(s, rw), ~d.ok, NEW e \in sockWant(d.s, "none")
  PROVE  ~e.ok
<1>1. d.s \in SockType /\ RegSound(d.s) /\ d.s.open = s.open /\ d.s.Added
      /\ (~s.open \/ d.s.reg = "none")
  BY WantFacts
<1> DEFINE t == d.s
<1> HIDE DEF t
<1>2. t \in SockType /\ RegSound(t) /\ t.Added /\ (~t.open \/ t.reg = "none") /\ e \in sockWant(t, "none")
  BY <1>1 DEF t
<1> QED BY <1>2 DEF sockWant

\* A socket that reports an event is let go of.
LEMMA LetGo ==
  ASSUME NEW s \in SockType, RegSound(s), s.open, s.reg # "none", NEW d \in sockWant(s, "none")
  PROVE  d.ok
BY DEF sockWant, RegSound

-----------------------------------------------------------------------------
(***************************************************************************)
(* What a handler leaves.                                                  *)
(***************************************************************************)

\* What each state needs.
LEMMA WantsIs ==
  /\ Wants("Send") = "w" /\ Wants("Wait") = "h"
  /\ \A t \in States \ {"Send", "Wait"} : Wants(t) = "r"
BY DEF Wants, States

\* When the list has been applied it is empty, and nothing is left to be registered.
LEMMA Idle ==
  ASSUME LoopIInv, pc \in {"poll", "tick"}
  PROVE  /\ Queue \in QType /\ Queue.head = Nil /\ \A x \in Conns : Queue.next[x] = Nil
         /\ Members(Queue) = {} /\ Covers(Queue, {})
         /\ \A x \in Conns : Settled(x, State, sock)
<1>1. Queue \in QType
  BY DEF LoopIInv, LoopTypeOK, Queue, QType, Interests
<1>2. Queue.head = Nil /\ Covers(Queue, Unsettled)
  BY DEF LoopIInv, ListSound, Queue
<1>3. Unsettled \in SUBSET Conns
  BY DEF Unsettled
<1>4. Unsettled = {} /\ Members(Queue) = {} /\ \A x \in Conns : Queue.next[x] = Nil
  BY <1>1, <1>2, <1>3, NoHead
<1> QED BY <1>1, <1>2, <1>4 DEF Unsettled

\* The handler worked on the states st and the holds hd, and may have woken others.
After(st, hd) ==
  /\ Queue' \in QType /\ State' \in [Conns -> States]
  /\ \A x \in Members(Queue') : State'[x] \notin {"none", "Closed"} /\ Rw'[x] = Wants(State'[x])
  /\ Covers(Queue', Unsettled')
  /\ waiting' \in SUBSET Conns /\ held' \in [Conns -> Nat] /\ ready' \in Nat
  /\ \A x \in waiting' : State'[x] = "Wait"
  /\ \A x \in Conns : State'[x] = "Closed" <=> st[x] = "Closed"
  /\ \A x \in Conns : st[x] = "Closed" => held'[x] = hd[x]

\* A handler without an add of its own.
LEMMA AddingNone == Adding(<<>>, {})
<1>1. Len(<<>>) = 0 /\ <<>> \in Seq({} \X {"w"})
  OBVIOUS
<1>2. 1..0 = {}
  OBVIOUS
<1> QED BY <1>1, <1>2 DEF Adding

\* A handler whose last add is of c.
LEMMA AddingOne == ASSUME NEW c PROVE Adding(<<<<c, "w">>>>, {c})
<1> DEFINE a == <<<<c, "w">>>>
<1>1. Len(a) = 1 /\ a \in Seq({c} \X {"w"}) /\ a[1] = <<c, "w">> /\ a[1][1] = c
  OBVIOUS
<1> HIDE DEF a
<1>2. {a[i][1] : i \in 1..Len(a)} = {c}
  BY <1>1
<1>3. Adding(a, {c})
  BY <1>1, <1>2 DEF Adding
<1> QED BY <1>3 DEF a

\* Covering more than is needed.
LEMMA CoversLess ==
  ASSUME NEW q, NEW P, Covers(q, P), NEW U \in SUBSET P
  PROVE  Covers(q, U)
BY DEF Covers

\* A handler that serves the members of W: L are in the list before, C is added after.
LEMMA ServingSound ==
  ASSUME NEW q \in QType, NEW L \in SUBSET Conns, Covers(q, L), Members(q) \subseteq L,
         \A x \in Conns : q.next[x] \in {Nil, x},
         NEW W \in SUBSET Conns, NEW n \in Nat, NEW st \in [Conns -> States],
         NEW hd \in [Conns -> Nat], NEW C \in SUBSET Conns, NEW after, Adding(after, C),
         Serve(q, W, n, st, hd, after),
         \A x \in L \cup C : st[x] \notin {"none", "Closed"},
         \A x \in L \ C : q.rw[x] = Wants(st[x]),
         \A x \in C : st[x] = "Send",
         \A x \in W : st[x] = "Wait",
         \A x \in Conns \ (L \cup C) : Settled(x, st, sock')
  PROVE  After(st, hd)
<1>1. C \cap W = {}
  BY DEF States
<1>2. PICK woken : woken \in SUBSET W /\ Served(q, L, W, st, hd, woken \cup C, woken)
  BY <1>1, ServeFacts
<1> DEFINE A == woken \cup C
<1>3. /\ Queue' \in QType /\ Members(Queue') \subseteq Members(q) \cup A /\ Covers(Queue', L \cup A)
      /\ \A x \in Conns : Rw'[x] = IF x \in A THEN "w" ELSE q.rw[x]
      /\ waiting' = W \ woken /\ ready' \in Nat
      /\ held' = [x \in Conns |-> hd[x] + IF x \in woken THEN 1 ELSE 0]
      /\ State' = [x \in Conns |-> IF x \in woken THEN "Send" ELSE st[x]]
  BY <1>2 DEF Served
<1>4. State' \in [Conns -> States] /\ \A x \in Conns : State'[x] = IF x \in woken THEN "Send" ELSE st[x]
  BY <1>3 DEF States
<1>5. held' \in [Conns -> Nat] /\ \A x \in Conns : x \notin woken => held'[x] = hd[x]
  BY <1>3
<1>0. woken \in SUBSET W /\ \A x \in woken : x \in Conns /\ st[x] = "Wait"
  BY <1>2
<1>6. \A x \in A : State'[x] = "Send"
  BY <1>0, <1>4
<1>7. ASSUME NEW x \in Members(Queue')
      PROVE  State'[x] \notin {"none", "Closed"} /\ Rw'[x] = Wants(State'[x])
  <2>1. x \in Conns /\ x \in L \cup A
    BY <1>3 DEF Members
  <2>2. CASE x \in A
    BY <1>3, <1>6, <2>1, <2>2, WantsIs
  <2>3. CASE x \notin A
    BY <1>3, <1>4, <2>1, <2>3
  <2> QED BY <2>2, <2>3
<1>8. Unsettled' \subseteq L \cup A
  <2> SUFFICES ASSUME NEW x \in Conns, x \notin L \cup A PROVE Settled(x, State', sock')
    BY DEF Unsettled
  <2>1. State'[x] = st[x] /\ Settled(x, st, sock')
    BY <1>4
  <2> QED BY <2>1 DEF Settled
<1>9. Covers(Queue', Unsettled')
  BY <1>3, <1>8, CoversLess
<1>10. \A x \in Conns : State'[x] = "Closed" <=> st[x] = "Closed"
  BY <1>0, <1>4
<1>11. \A x \in Conns : st[x] = "Closed" => held'[x] = hd[x]
  BY <1>0, <1>5
<1>12. \A x \in waiting' : State'[x] = "Wait"
  BY <1>3, <1>4
<1>13. waiting' \in SUBSET Conns
  BY <1>3
<1> QED BY <1>3, <1>4, <1>5, <1>7, <1>9, <1>10, <1>11, <1>12, <1>13 DEF After

\* A handler that adds nothing of its own.
LEMMA ServingAlone ==
  ASSUME NEW q \in QType, Covers(q, {}), Members(q) = {}, \A x \in Conns : q.next[x] = Nil,
         NEW W \in SUBSET Conns, NEW n \in Nat, NEW st \in [Conns -> States],
         NEW hd \in [Conns -> Nat], Serve(q, W, n, st, hd, <<>>),
         \A x \in W : st[x] = "Wait",
         \A x \in Conns : Settled(x, st, sock')
  PROVE  After(st, hd)
<1> DEFINE N == {}
<1>1. /\ N \in SUBSET Conns /\ Covers(q, N) /\ Members(q) \subseteq N /\ Adding(<<>>, N)
      /\ \A x \in Conns : q.next[x] \in {Nil, x}
      /\ \A x \in N \cup N : st[x] \notin {"none", "Closed"}
      /\ \A x \in N \ N : q.rw[x] = Wants(st[x])
      /\ \A x \in N : st[x] = "Send"
      /\ \A x \in Conns \ (N \cup N) : Settled(x, st, sock')
  BY AddingNone
<1> HIDE DEF N
<1> QED BY <1>1, ServingSound

\* The connection goes to the state t.
Goes(c, t) ==
  State' \in [Conns -> States] /\ \A x \in Conns : State'[x] = IF x = c THEN t ELSE State[x]

\* A handler that only replies.
LEMMA ReplySound ==
  ASSUME NEW q \in QType, NEW c \in Conns, Covers(q, {}), Members(q) \subseteq {c},
         q.next[c] \in {Nil, c}, SetQueue(EpollQAdd(q, c, "w")),
         Goes(c, "Send"), waiting' \in SUBSET Conns, held' \in [Conns -> Nat], ready' \in Nat,
         \A x \in waiting' : x # c /\ State[x] = "Wait",
         \A x \in Conns \ {c} : Settled(x, State, sock')
  PROVE  After(State', held')
<1> DEFINE r == EpollQAdd(q, c, "w")
<1>1. "w" \in Interests /\ {} \in SUBSET Conns
  BY DEF Interests
<1>2. /\ r \in QType /\ Members(r) \subseteq Members(q) \cup {c} /\ Covers(r, {} \cup {c})
      /\ \A x \in Conns : r.rw[x] = IF x = c THEN "w" ELSE q.rw[x]
  <2>1. Added(EpollQAdd(q, c, "w"), q, c, "w", {})
    BY <1>1, AddKeeps
  <2> QED BY <2>1 DEF Added
<1>3. epollQ' = r.head /\ NextConn' = r.next /\ Rw' = r.rw
  BY DEF SetQueue
<1> HIDE DEF r
<1>4. Queue' = r
  BY <1>2, <1>3 DEF Queue, QType
<1>5. State' \in [Conns -> States] /\ \A x \in Conns : State'[x] = IF x = c THEN "Send" ELSE State[x]
  BY DEF Goes
<1>6. \A x \in Members(Queue') : x = c
  BY <1>2, <1>4
<1>7. \A x \in Members(Queue') : State'[x] \notin {"none", "Closed"} /\ Rw'[x] = Wants(State'[x])
  BY <1>2, <1>3, <1>5, <1>6, WantsIs
<1>8. Unsettled' \subseteq {} \cup {c}
  <2> SUFFICES ASSUME NEW x \in Conns, x # c PROVE Settled(x, State', sock')
    BY DEF Unsettled
  <2>1. State'[x] = State[x] /\ Settled(x, State, sock')
    BY <1>5
  <2> QED BY <2>1 DEF Settled
<1>9. Covers(Queue', Unsettled')
  BY <1>2, <1>4, <1>8, CoversLess
<1>10. \A x \in waiting' : State'[x] = "Wait"
  BY <1>5
<1> QED BY <1>2, <1>4, <1>5, <1>7, <1>9, <1>10 DEF After

\* The rest of the state after a handler.
LEMMA HandlerDone ==
  ASSUME NEW st, NEW hd, After(st, hd), pc' \in {"apply", "apply2"},
         sock' \in [Conns -> SockType], SockSound', buf' \in [Conns -> 0..(MaxPipe - 1)],
         peer' \in [Conns -> {"away", "here", "left"}], delayed' \in Nat,
         closes' \in [Conns -> Nat],
         \A x \in Conns : st[x] = "Closed" => hd[x] = 0 /\ ~sock'[x].open,
         \A x \in Conns : closes'[x] = IF st[x] = "Closed" THEN 1 ELSE 0
  PROVE  LoopIInv'
<1>1. epollQ' \in Conns \cup {Nil} /\ NextConn' \in [Conns -> Conns \cup {Nil}]
      /\ Rw' \in [Conns -> Interests]
  BY DEF After, Queue, QType
<1>2. LoopTypeOK'
  BY <1>1 DEF After, LoopTypeOK, Interests, States, SockType
<1>3. ListSound'
  BY DEF After, ListSound
<1>4. ConnSound'
  BY DEF After, ConnSound
<1> QED BY <1>2, <1>3, <1>4 DEF LoopIInv

\* The parts of the invariant that speak of single variables.
LEMMA Parts ==
  ASSUME LoopIInv
  PROVE  /\ State \in [Conns -> States] /\ sock \in [Conns -> SockType]
         /\ buf \in [Conns -> 0..(MaxPipe - 1)] /\ peer \in [Conns -> {"away", "here", "left"}]
         /\ waiting \in SUBSET Conns /\ held \in [Conns -> Nat] /\ ready \in Nat /\ delayed \in Nat
         /\ closes \in [Conns -> Nat]
         /\ \A x \in Conns : RegSound(sock[x])
         /\ \A x \in waiting : State[x] = "Wait"
         /\ \A x \in Conns : State[x] = "Closed" => held[x] = 0 /\ ~sock[x].open
         /\ \A x \in Conns : closes[x] = IF State[x] = "Closed" THEN 1 ELSE 0
BY DEF LoopIInv, LoopTypeOK, SockSound, ConnSound, States, SockType

\* Before a command of c is dispatched the list holds at most c, which is to be read from.
Prepared(q, L, c) ==
  /\ q \in QType /\ q.head \in {Nil, c} /\ \A x \in Conns : q.next[x] = Nil
  /\ L \in SUBSET {c} /\ Members(q) \subseteq L /\ Covers(q, L)
  /\ c \in L => q.rw[c] = "r"
  /\ c \notin L => Wants(State[c]) = "r"
  /\ State[c] \in {"WantCommand", "WantData", "Bitbucket", "Send"}

\* A handler that closes nothing.
LEMMA EventDone ==
  ASSUME LoopIInv, NEW c \in Conns, Event(c), sock' = sock, closes' = closes, delayed' \in Nat,
         buf' \in [Conns -> 0..(MaxPipe - 1)], NEW st, NEW hd, After(st, hd),
         \A x \in Conns : st[x] = "Closed" <=> State[x] = "Closed",
         \A x \in Conns : st[x] = "Closed" => hd[x] = held[x]
  PROVE  LoopIInv'
<1>1. pc' \in {"apply", "apply2"} /\ peer' \in [Conns -> {"away", "here", "left"}]
  BY Parts DEF Event
<1>2. sock' \in [Conns -> SockType] /\ SockSound' /\ closes' \in [Conns -> Nat]
  BY Parts DEF SockSound
<1>3. \A x \in Conns : st[x] = "Closed" => hd[x] = 0 /\ ~sock'[x].open
  BY Parts
<1>4. \A x \in Conns : closes'[x] = IF st[x] = "Closed" THEN 1 ELSE 0
  BY Parts
<1> QED BY <1>1, <1>2, <1>3, <1>4, HandlerDone

\* A command that only replies, or puts a delayed job, or drops a job.
LEMMA RepliesSound ==
  ASSUME LoopIInv, NEW c \in Conns, Event(c), NEW q, NEW L, Prepared(q, L, c),
         sock' = sock, waiting' = waiting, closes' = closes, delayed' \in Nat, ready' \in Nat,
         held' \in [Conns -> Nat], \A x \in Conns \ {c} : held'[x] = held[x],
         buf' \in [Conns -> 0..(MaxPipe - 1)], SetQueue(EpollQAdd(q, c, "w")), Goes(c, "Send")
  PROVE  LoopIInv'
<1>1. \A x \in Conns : Settled(x, State, sock)
  BY Idle DEF Event
<1>2. \A x \in Conns \ {c} : Settled(x, State, sock')
  BY <1>1
<1>3. q \in QType /\ q.next[c] \in {Nil, c} /\ Members(q) \subseteq {c} /\ Covers(q, {})
  BY CoversLess DEF Prepared
<1>4. State \in [Conns -> States] /\ State[c] \notin {"Wait", "Closed"}
  BY Parts DEF Prepared
<1>5. waiting' \in SUBSET Conns /\ \A x \in waiting' : x # c /\ State[x] = "Wait"
  BY <1>4, Parts
<1>6. After(State', held')
  BY <1>2, <1>3, <1>4, <1>5, ReplySound
<1>7. \A x \in Conns : State'[x] = IF x = c THEN "Send" ELSE State[x]
  BY DEF Goes
<1>8. \A x \in Conns : State'[x] = "Closed" <=> State[x] = "Closed"
  BY <1>4, <1>7
<1>9. \A x \in Conns : State'[x] = "Closed" => held'[x] = held[x]
  BY <1>7
<1> QED BY <1>6, <1>8, <1>9, EventDone

\* A command that does not touch the queue.
LEMMA QuickSound ==
  ASSUME LoopIInv, NEW c \in Conns, Event(c), NEW q, NEW L, Prepared(q, L, c),
         NEW b \in 0..(MaxPipe - 1), Quick(c, q, b)
  PROVE  LoopIInv'
<1>1. /\ held' \in [Conns -> Nat] /\ ready' \in Nat /\ delayed' \in Nat
      /\ \A x \in Conns \ {c} : held'[x] = held[x]
      /\ buf' \in [Conns -> 0..(MaxPipe - 1)]
      /\ sock' = sock /\ waiting' = waiting /\ closes' = closes
      /\ SetQueue(EpollQAdd(q, c, "w"))
  BY Parts DEF Quick, jobVars
<1>3. State' = [State EXCEPT ![c] = "Send"]
  BY DEF Quick
<1>4. Goes(c, "Send")
  BY <1>3, Parts DEF Goes, States
<1> QED BY <1>1, <1>4, RepliesSound

\* A put with a delay.
LEMMA PutDelayedSound ==
  ASSUME LoopIInv, NEW c \in Conns, Event(c), NEW q, NEW L, Prepared(q, L, c),
         NEW b \in 0..(MaxPipe - 1), PutDelayed(c, q, b)
  PROVE  LoopIInv'
<1>1. /\ held' \in [Conns -> Nat] /\ ready' \in Nat /\ delayed' \in Nat
      /\ \A x \in Conns \ {c} : held'[x] = held[x]
      /\ buf' \in [Conns -> 0..(MaxPipe - 1)]
      /\ sock' = sock /\ waiting' = waiting /\ closes' = closes
      /\ SetQueue(EpollQAdd(q, c, "w"))
  BY Parts DEF PutDelayed
<1>3. State' = [State EXCEPT ![c] = "Send"]
  BY DEF PutDelayed
<1>4. Goes(c, "Send")
  BY <1>3, Parts DEF Goes, States
<1> QED BY <1>1, <1>4, RepliesSound

\* delete and bury of a held job.
LEMMA DropSound ==
  ASSUME LoopIInv, NEW c \in Conns, Event(c), NEW q, NEW L, Prepared(q, L, c),
         NEW b \in 0..(MaxPipe - 1), Drop(c, q, b)
  PROVE  LoopIInv'
<1>1. held[c] - 1 \in Nat
  BY Parts DEF Drop
<1>2. /\ held' \in [Conns -> Nat] /\ ready' \in Nat /\ delayed' \in Nat
      /\ \A x \in Conns \ {c} : held'[x] = held[x]
      /\ buf' \in [Conns -> 0..(MaxPipe - 1)]
      /\ sock' = sock /\ waiting' = waiting /\ closes' = closes
      /\ SetQueue(EpollQAdd(q, c, "w"))
  BY <1>1, Parts DEF Drop
<1>3. State' = [State EXCEPT ![c] = "Send"]
  BY DEF Drop
<1>4. Goes(c, "Send")
  BY <1>3, Parts DEF Goes, States
<1> QED BY <1>2, <1>4, RepliesSound

\* A put whose body has yet to come: the interest stays in reading.
LEMMA PutPartSound ==
  ASSUME LoopIInv, NEW c \in Conns, Event(c), NEW q, NEW L, Prepared(q, L, c),
         NEW b \in 0..(MaxPipe - 1), PutPart(c, q, b)
  PROVE  LoopIInv'
<1>1. /\ q \in QType /\ L \in SUBSET {c} /\ Members(q) \subseteq L /\ Covers(q, L)
      /\ c \in L => q.rw[c] = "r"
      /\ c \notin L => Wants(State[c]) = "r"
      /\ State[c] \notin {"Wait", "Closed"}
  BY DEF Prepared
<1>2. /\ sock' = sock /\ closes' = closes /\ waiting' = waiting /\ held' = held /\ ready' = ready
      /\ delayed' \in Nat /\ buf' \in [Conns -> 0..(MaxPipe - 1)]
      /\ epollQ' = q.head /\ NextConn' = q.next /\ Rw' = q.rw
  <2>1. buf' = [buf EXCEPT ![c] = b]
    BY DEF PutPart
  <2> QED BY <2>1, Parts DEF PutPart, jobVars, SetQueue
<1>3. Queue' = q
  BY <1>1, <1>2 DEF Queue, QType
<1>4. PICK s \in {"WantData", "Bitbucket"} : State' = [State EXCEPT ![c] = s]
  BY DEF PutPart
<1>5. State' \in [Conns -> States] /\ \A x \in Conns : State'[x] = IF x = c THEN s ELSE State[x]
  BY <1>4, Parts DEF States
<1>6. Wants(s) = "r" /\ s \notin {"none", "Closed", "Wait"}
  BY <1>4, WantsIs DEF States
<1>7. \A x \in Members(Queue') : State'[x] \notin {"none", "Closed"} /\ Rw'[x] = Wants(State'[x])
  BY <1>1, <1>2, <1>3, <1>5, <1>6
<1>8. Unsettled' \subseteq L
  <2> SUFFICES ASSUME NEW x \in Conns, x \notin L PROVE Settled(x, State', sock')
    BY DEF Unsettled
  <2>1. Settled(x, State, sock)
    BY Idle DEF Event
  <2>2. Wants(State'[x]) = Wants(State[x])
    BY <1>1, <1>5, <1>6
  <2> QED BY <1>2, <2>1, <2>2 DEF Settled
<1>9. Covers(Queue', Unsettled')
  BY <1>1, <1>3, <1>8, CoversLess
<1>10. \A x \in waiting' : State'[x] = "Wait"
  BY <1>1, <1>2, <1>5, Parts
<1>11. After(State', held')
  BY <1>1, <1>2, <1>3, <1>5, <1>7, <1>9, <1>10, Parts DEF After
<1>12. \A x \in Conns : State'[x] = "Closed" <=> State[x] = "Closed"
  BY <1>1, <1>5, <1>6
<1>13. \A x \in Conns : State'[x] = "Closed" => held'[x] = held[x]
  BY <1>2
<1> QED BY <1>2, <1>11, <1>12, <1>13, EventDone

\* A command that makes a job ready and replies.
LEMMA GivesSound ==
  ASSUME LoopIInv, NEW c \in Conns, Event(c), NEW q, NEW L, Prepared(q, L, c),
         sock' = sock, closes' = closes, delayed' \in Nat,
         buf' \in [Conns -> 0..(MaxPipe - 1)],
         NEW n \in Nat, NEW hd \in [Conns -> Nat], \A x \in Conns \ {c} : hd[x] = held[x],
         Serve(q, waiting, n, [State EXCEPT ![c] = "Send"], hd, <<<<c, "w">>>>)
  PROVE  LoopIInv'
<1> DEFINE st == [State EXCEPT ![c] = "Send"]
<1>1. /\ q \in QType /\ L \in SUBSET {c} /\ Members(q) \subseteq L /\ Covers(q, L)
      /\ \A x \in Conns : q.next[x] \in {Nil, x}
      /\ State[c] \notin {"Wait", "Closed"}
  BY DEF Prepared
<1>2. st \in [Conns -> States] /\ \A x \in Conns : st[x] = IF x = c THEN "Send" ELSE State[x]
  BY Parts DEF States
<1>3. Serve(q, waiting, n, st, hd, <<<<c, "w">>>>)
  OBVIOUS
<1> HIDE DEF st
<1>4. Adding(<<<<c, "w">>>>, {c})
  BY AddingOne
<1>5. \A x \in waiting : st[x] = "Wait"
  BY <1>1, <1>2, Parts
<1>6. \A x \in L \cup {c} : st[x] \notin {"none", "Closed"}
  BY <1>1, <1>2
<1>7. \A x \in Conns \ (L \cup {c}) : Settled(x, st, sock')
  <2> SUFFICES ASSUME NEW x \in Conns, x # c PROVE Settled(x, st, sock')
    OBVIOUS
  <2>1. Settled(x, State, sock)
    BY Idle DEF Event
  <2> QED BY <1>2, <2>1 DEF Settled
<1>8. /\ \A x \in L \ {c} : q.rw[x] = Wants(st[x])
      /\ \A x \in {c} : st[x] = "Send"
      /\ L \in SUBSET Conns /\ {c} \in SUBSET Conns /\ waiting \in SUBSET Conns
  BY <1>1, <1>2, Parts
<1>9. After(st, hd)
  BY <1>1, <1>2, <1>3, <1>4, <1>5, <1>6, <1>7, <1>8, ServingSound
<1>10. \A x \in Conns : st[x] = "Closed" <=> State[x] = "Closed"
  BY <1>1, <1>2
<1>11. \A x \in Conns : st[x] = "Closed" => hd[x] = held[x]
  BY <1>2
<1> QED BY <1>9, <1>10, <1>11, EventDone

\* A put without a delay, which may wake another connection.
LEMMA PutReadySound ==
  ASSUME LoopIInv, NEW c \in Conns, Event(c), NEW q, NEW L, Prepared(q, L, c),
         NEW b \in 0..(MaxPipe - 1), PutReady(c, q, b)
  PROVE  LoopIInv'
<1>1. ready + 1 \in Nat /\ held \in [Conns -> Nat]
  BY Parts
<1>2. /\ sock' = sock /\ closes' = closes /\ delayed' \in Nat
      /\ buf' \in [Conns -> 0..(MaxPipe - 1)]
  <2>1. buf' = [buf EXCEPT ![c] = b]
    BY DEF PutReady
  <2> QED BY <2>1, Parts DEF PutReady
<1>3. Serve(q, waiting, ready + 1, [State EXCEPT ![c] = "Send"], held, <<<<c, "w">>>>)
  BY DEF PutReady
<1> QED BY <1>1, <1>2, <1>3, GivesSound

\* release, which may wake another connection.
LEMMA ReleaseSound ==
  ASSUME LoopIInv, NEW c \in Conns, Event(c), NEW q, NEW L, Prepared(q, L, c),
         NEW b \in 0..(MaxPipe - 1), Release(c, q, b)
  PROVE  LoopIInv'
<1> DEFINE hd == [held EXCEPT ![c] = @ - 1]
<1>1. ready + 1 \in Nat /\ held[c] - 1 \in Nat
  BY Parts DEF Release
<1>2. hd \in [Conns -> Nat] /\ \A x \in Conns \ {c} : hd[x] = held[x]
  BY <1>1, Parts
<1>3. /\ sock' = sock /\ closes' = closes /\ delayed' \in Nat
      /\ buf' \in [Conns -> 0..(MaxPipe - 1)]
  <2>1. buf' = [buf EXCEPT ![c] = b]
    BY DEF Release
  <2> QED BY <2>1, Parts DEF Release
<1>4. Serve(q, waiting, ready + 1, [State EXCEPT ![c] = "Send"], hd, <<<<c, "w">>>>)
  BY DEF Release
<1> HIDE DEF hd
<1> QED BY <1>1, <1>2, <1>3, <1>4, GivesSound

\* The list before waitForJob: that of the event, or with the reply to a malformed timeout.
LEMMA FirstAdded ==
  ASSUME NEW c \in Conns, NEW q, NEW L, Prepared(q, L, c), NEW first \in {q, EpollQAdd(q, c, "w")}
  PROVE  \E M \in SUBSET {c} : /\ first \in QType /\ Members(first) \subseteq M /\ Covers(first, M)
                               /\ first.head \in {Nil, c} /\ \A x \in Conns : first.next[x] \in {Nil, x}
<1>1. /\ q \in QType /\ L \in SUBSET {c} /\ L \in SUBSET Conns /\ Members(q) \subseteq L /\ Covers(q, L)
      /\ q.head \in {Nil, c} /\ \A x \in Conns : q.next[x] = Nil
  BY DEF Prepared
<1>2. CASE first = q
  BY <1>1, <1>2
<1>3. CASE first = EpollQAdd(q, c, "w")
  <2>1. "w" \in Interests /\ q.next[c] \in {Nil, c}
    BY <1>1 DEF Interests
  <2>2. Added(first, q, c, "w", L)
    BY <1>1, <1>3, <2>1, AddKeeps
  <2>3. L \cup {c} = {c}
    BY <1>1
  <2>4. /\ first \in QType /\ Members(first) \subseteq {c} /\ Covers(first, {c})
        /\ first.head \in {Nil, c} /\ \A x \in Conns : first.next[x] \in {Nil, x}
    BY <1>1, <2>2, <2>3 DEF Added
  <2> QED BY <2>4
<1> QED BY <1>2, <1>3

\* reserve, which may serve the connection itself and so add it once more.
LEMMA ReserveSound ==
  ASSUME LoopIInv, NEW c \in Conns, Event(c), NEW q, NEW L, Prepared(q, L, c),
         NEW b \in 0..(MaxPipe - 1), Reserve(c, q, b)
  PROVE  LoopIInv'
<1>0. PICK first \in {q, EpollQAdd(q, c, "w")} :
             Serve(EpollQAdd(first, c, "h"), waiting \cup {c}, ready, [State EXCEPT ![c] = "Wait"],
                   held, <<>>)
  BY DEF Reserve
<1> DEFINE st == [State EXCEPT ![c] = "Wait"]
           r == EpollQAdd(first, c, "h")
           W == waiting \cup {c}
<1>1. PICK M \in SUBSET {c} : /\ first \in QType /\ Members(first) \subseteq M /\ Covers(first, M)
                             /\ first.head \in {Nil, c}
                             /\ \A x \in Conns : first.next[x] \in {Nil, x}
  BY FirstAdded
<1>2. State[c] # "Closed"
  BY DEF Prepared
<1>3. "h" \in Interests /\ first.next[c] \in {Nil, c} /\ M \in SUBSET Conns
  BY <1>1 DEF Interests
<1>4. Added(r, first, c, "h", M)
  BY <1>1, <1>3, AddKeeps
<1>5. /\ r \in QType /\ Members(r) \subseteq {c} /\ \A x \in Conns : r.next[x] \in {Nil, x}
      /\ r.rw[c] = "h"
  BY <1>1, <1>4 DEF Added
<1>6. Covers(r, {c})
  <2>1. M \cup {c} = {c}
    BY <1>1
  <2> QED BY <1>4, <2>1 DEF Added
<1>7. st \in [Conns -> States] /\ \A x \in Conns : st[x] = IF x = c THEN "Wait" ELSE State[x]
  BY Parts DEF States
<1>8. Serve(r, W, ready, st, held, <<>>)
  BY <1>0
<1>9. /\ sock' = sock /\ closes' = closes /\ delayed' \in Nat
      /\ buf' \in [Conns -> 0..(MaxPipe - 1)]
  <2>1. buf' = [buf EXCEPT ![c] = b]
    BY DEF Reserve
  <2> QED BY <2>1, Parts DEF Reserve
<1> HIDE DEF st, r
<1>10. \A x \in W : st[x] = "Wait"
  BY <1>7, Parts
<1>11. \A x \in Conns \ ({c} \cup {}) : Settled(x, st, sock')
  <2> SUFFICES ASSUME NEW x \in Conns, x # c PROVE Settled(x, st, sock')
    OBVIOUS
  <2>1. Settled(x, State, sock)
    BY Idle DEF Event
  <2> QED BY <1>7, <1>9, <2>1 DEF Settled
<1>12. /\ W \in SUBSET Conns /\ {c} \in SUBSET Conns /\ {} \in SUBSET Conns
       /\ ready \in Nat /\ held \in [Conns -> Nat]
  BY Parts
<1>13. /\ \A x \in {c} \cup {} : st[x] \notin {"none", "Closed"}
       /\ \A x \in {c} \ {} : r.rw[x] = Wants(st[x])
       /\ \A x \in {} : st[x] = "Send"
  BY <1>5, <1>7, WantsIs
<1> HIDE DEF W
<1>14. After(st, held)
  BY <1>5, <1>6, <1>7, <1>8, <1>10, <1>11, <1>12, <1>13, AddingNone, ServingSound
<1>15. \A x \in Conns : st[x] = "Closed" <=> State[x] = "Closed"
  BY <1>2, <1>7
<1> QED BY <1>9, <1>14, <1>15, EventDone

\* Closing the connection that an event is of.
LEMMA HangUpSound ==
  ASSUME LoopIInv, NEW c \in Conns, Event(c), NEW q \in QType, q.head \in {Nil, c},
         \A x \in Conns : q.next[x] = Nil, HangUp(c, q)
  PROVE  LoopIInv'
<1> DEFINE r == EpollQRmConn(q, c)
           st == [[State EXCEPT ![c] = "Close"] EXCEPT ![c] = "Closed"]
           hd == [held EXCEPT ![c] = 0]
           W == waiting \ {c}
<1>1. r \in QType /\ r.head = Nil /\ \A x \in Conns : r.next[x] = Nil
  BY RemovedLast
<1>2. Members(r) = {} /\ Covers(r, {})
  BY <1>1, NothingLinked, LoopAssumption DEF Members
<1>3. /\ sock[c] \in SockType /\ RegSound(sock[c]) /\ sock[c].open /\ sock[c].reg # "none"
      /\ "none" \in Interests /\ pc = "poll" /\ State[c] # "Closed"
  BY Parts DEF Event, Pending, Interests
<1>4. PICK d \in sockWant(sock[c], "none") :
        IF d.ok
        THEN /\ sock' = [sock EXCEPT ![c] = [d.s EXCEPT !.open = FALSE]]
             /\ Serve(r, W, ready + held[c], st, hd, <<>>)
             /\ closes' = [closes EXCEPT ![c] = @ + 1]
        ELSE /\ sock' = [sock EXCEPT ![c] = d.s]
             /\ SetQueue(r) /\ State' = [State EXCEPT ![c] = "Close"]
             /\ UNCHANGED <<waiting, held, ready, closes>>
  BY DEF HangUp, connClose
<1>5. d.ok
  BY <1>3, LetGo
<1>6. d.s \in SockType /\ d.s.reg = "none"
  BY <1>3, <1>5, WantFacts
<1> DEFINE k == [d.s EXCEPT !.open = FALSE]
<1>7. k \in SockType /\ RegSound(k) /\ ~k.open
  BY <1>6 DEF SockType, RegSound
<1>8. /\ sock' = [sock EXCEPT ![c] = k]
      /\ Serve(r, W, ready + held[c], st, hd, <<>>)
      /\ closes' = [closes EXCEPT ![c] = @ + 1]
  BY <1>4, <1>5
<1>9. st \in [Conns -> States] /\ \A x \in Conns : st[x] = IF x = c THEN "Closed" ELSE State[x]
  BY Parts DEF States
<1>10. hd \in [Conns -> Nat] /\ \A x \in Conns : hd[x] = IF x = c THEN 0 ELSE held[x]
  BY Parts
<1> HIDE DEF k, r, st, hd
<1>11. sock' \in [Conns -> SockType] /\ \A x \in Conns : sock'[x] = IF x = c THEN k ELSE sock[x]
  BY <1>7, <1>8, Parts
<1>12. SockSound'
  BY <1>7, <1>11, Parts DEF SockSound
<1>13. ready + held[c] \in Nat
  BY Parts
<1>14. \A x \in W : st[x] = "Wait"
  BY <1>9, Parts
<1>15. \A x \in Conns : Settled(x, st, sock')
  <2> SUFFICES ASSUME NEW x \in Conns PROVE Settled(x, st, sock')
    OBVIOUS
  <2>1. CASE x = c
    BY <1>7, <1>11, <2>1 DEF Settled
  <2>2. CASE x # c
    <3>1. Settled(x, State, sock)
      BY <1>3, Idle
    <3> QED BY <1>9, <1>11, <2>2, <3>1 DEF Settled
  <2> QED BY <2>1, <2>2
<1>16. W \in SUBSET Conns
  BY Parts
<1> HIDE DEF W
<1>17. After(st, hd)
  BY <1>1, <1>2, <1>8, <1>9, <1>10, <1>13, <1>14, <1>15, <1>16, ServingAlone
<1>18. closes' \in [Conns -> Nat] /\ \A x \in Conns : closes'[x] = IF st[x] = "Closed" THEN 1 ELSE 0
  <2>1. closes[c] = 0
    BY <1>3, Parts
  <2>2. closes' \in [Conns -> Nat] /\ \A x \in Conns : closes'[x] = IF x = c THEN 1 ELSE closes[x]
    BY <1>8, <2>1, Parts
  <2> QED BY <1>9, <2>2, Parts
<1>19. \A x \in Conns : st[x] = "Closed" => hd[x] = 0 /\ ~sock'[x].open
  BY <1>7, <1>9, <1>10, <1>11, Parts
<1>20. /\ buf' \in [Conns -> 0..(MaxPipe - 1)] /\ peer' \in [Conns -> {"away", "here", "left"}]
       /\ delayed' \in Nat /\ pc' \in {"apply", "apply2"}
  <2>1. buf' = [buf EXCEPT ![c] = 0] /\ 0 \in 0..(MaxPipe - 1)
    BY LoopAssumption DEF HangUp
  <2> QED BY <2>1, Parts DEF HangUp, Event
<1> QED BY <1>11, <1>12, <1>17, <1>18, <1>19, <1>20, HandlerDone

\* Any command of the connection that an event is of.
LEMMA DispatchSound ==
  ASSUME LoopIInv, NEW c \in Conns, Event(c), NEW q, NEW L, Prepared(q, L, c),
         NEW b \in 0..(MaxPipe - 1), Dispatch(c, q, b)
  PROVE  LoopIInv'
<1>1. CASE Quick(c, q, b)
  BY <1>1, QuickSound
<1>2. CASE PutReady(c, q, b)
  BY <1>2, PutReadySound
<1>3. CASE PutDelayed(c, q, b)
  BY <1>3, PutDelayedSound
<1>4. CASE PutPart(c, q, b)
  BY <1>4, PutPartSound
<1>5. CASE Reserve(c, q, b)
  BY <1>5, ReserveSound
<1>6. CASE Drop(c, q, b)
  BY <1>6, DropSound
<1>7. CASE Release(c, q, b)
  BY <1>7, ReleaseSound
<1>8. CASE HangUp(c, q)
  <2>1. q \in QType /\ q.head \in {Nil, c} /\ \A x \in Conns : q.next[x] = Nil
    BY DEF Prepared
  <2> QED BY <1>8, <2>1, HangUpSound
<1> QED BY <1>1, <1>2, <1>3, <1>4, <1>5, <1>6, <1>7, <1>8 DEF Dispatch

-----------------------------------------------------------------------------
(***************************************************************************)
(* The steps.                                                              *)
(***************************************************************************)

\* The list is empty when a connection that reads has an event.
LEMMA ReadPrepared ==
  ASSUME LoopIInv, NEW c \in Conns, Event(c), State[c] \in {"WantCommand", "WantData", "Bitbucket"}
  PROVE  Prepared(Queue, {}, c)
<1>1. pc = "poll"
  BY DEF Event
<1>2. Wants(State[c]) = "r"
  BY WantsIs DEF States
<1> QED BY <1>1, <1>2, Idle DEF Prepared

\* An event of which nothing comes.
LEMMA PartialSound ==
  ASSUME LoopIInv, NEW c \in Conns, Partial(c)
  PROVE  LoopIInv'
<1>1. pc = "poll" /\ pc' = "apply" /\ peer' = peer
      /\ UNCHANGED <<queueVars, State, sock, buf, jobVars, closes>>
  BY DEF Partial, Event
<1> QED BY <1>1 DEF LoopIInv, LoopTypeOK, ListSound, SockSound, ConnSound, Queue, Unsettled, Members,
         queueVars, jobVars, Covers, Closed

\* Any event of a connection.
LEMMA HandleSound ==
  ASSUME LoopIInv, NEW c \in Conns, Handle(c)
  PROVE  LoopIInv'
<1>0. MaxPipe \in Nat /\ MaxPipe > 0 /\ 0 \in 0..(MaxPipe - 1)
  BY LoopAssumption
<1>1. CASE Partial(c)
  BY <1>1, PartialSound
<1>2. CASE ReadCommands(c)
  <2>1. PICK n \in 1..MaxPipe : Dispatch(c, Queue, n - 1)
    BY <1>2 DEF ReadCommands
  <2>2. n - 1 \in 0..(MaxPipe - 1)
    BY <1>0
  <2>3. Event(c) /\ Prepared(Queue, {}, c)
    BY <1>2, ReadPrepared DEF ReadCommands
  <2> DEFINE b == n - 1
  <2>4. b \in 0..(MaxPipe - 1) /\ Dispatch(c, Queue, b)
    BY <2>1, <2>2
  <2> HIDE DEF b
  <2> QED BY <2>3, <2>4, DispatchSound
<1>3. CASE ReadBody(c)
  <2>1. Event(c) /\ Prepared(Queue, {}, c)
    BY <1>3, ReadPrepared DEF ReadBody
  <2>2. Quick(c, Queue, 0) \/ PutReady(c, Queue, 0) \/ PutDelayed(c, Queue, 0)
    BY <1>3 DEF ReadBody
  <2> QED BY <1>0, <2>1, <2>2, QuickSound, PutReadySound, PutDelayedSound
<1>4. CASE ReadEnd(c)
  <2>1. Event(c) /\ HangUp(c, Queue) /\ pc = "poll"
    BY <1>4 DEF ReadEnd, Event
  <2>2. Queue \in QType /\ Queue.head \in {Nil, c} /\ \A x \in Conns : Queue.next[x] = Nil
    BY <2>1, Idle
  <2> QED BY <2>1, <2>2, HangUpSound
<1>5. CASE WriteReply(c)
  <2> DEFINE q == connWantCommand(Queue, c)
  <2>1. Event(c) /\ State[c] = "Send" /\ pc = "poll"
    BY <1>5 DEF WriteReply, Event
  <2>2. /\ Queue \in QType /\ Queue.head = Nil /\ \A x \in Conns : Queue.next[x] = Nil
        /\ Members(Queue) = {} /\ Covers(Queue, {})
    BY <2>1, Idle
  <2>3. Added(q, Queue, c, "r", {})
    <3>1. "r" \in Interests /\ {} \in SUBSET Conns /\ Queue.next[c] \in {Nil, c}
      BY <2>2 DEF Interests
    <3> QED BY <2>2, <3>1, AddKeeps DEF connWantCommand
  <2> HIDE DEF q
  <2>4. {c} \in SUBSET Conns /\ {} \cup {c} = {c}
    OBVIOUS
  <2>5. Prepared(q, {c}, c)
    BY <2>1, <2>2, <2>3, <2>4 DEF Added, Prepared
  <2>6. CASE buf[c] > 0 /\ Dispatch(c, q, buf[c] - 1)
    <3> DEFINE b == buf[c] - 1
    <3>1. buf[c] \in 0..(MaxPipe - 1)
      BY Parts
    <3>2. b \in 0..(MaxPipe - 1) /\ Dispatch(c, q, b)
      BY <1>0, <2>6, <3>1
    <3> HIDE DEF b
    <3> QED BY <2>1, <2>5, <3>2, DispatchSound
  <2>7. CASE /\ SetQueue(q)
             /\ State' = [State EXCEPT ![c] = "WantCommand"]
             /\ UNCHANGED <<sock, buf, jobVars, closes>>
    <3>1. State' \in [Conns -> States]
          /\ \A x \in Conns : State'[x] = IF x = c THEN "WantCommand" ELSE State[x]
      BY <2>7, Parts DEF States
    <3>2. Queue' = q /\ Rw' = q.rw
      BY <2>3, <2>7 DEF Added, SetQueue, Queue, QType
    <3>3. /\ sock' = sock /\ closes' = closes /\ waiting' = waiting /\ held' = held
          /\ ready' = ready /\ delayed' = delayed /\ buf' = buf
      BY <2>7 DEF jobVars
    <3>4. Members(q) \subseteq {c} /\ q.rw[c] = "r" /\ Covers(q, {c}) /\ q \in QType
      BY <2>2, <2>3, <2>4 DEF Added
    <3>5. \A x \in Members(Queue') :
            State'[x] \notin {"none", "Closed"} /\ Rw'[x] = Wants(State'[x])
      BY <3>1, <3>2, <3>4, WantsIs DEF States
    <3>6. Unsettled' \subseteq {c}
      <4> SUFFICES ASSUME NEW x \in Conns, x # c PROVE Settled(x, State', sock')
        BY DEF Unsettled
      <4>1. Settled(x, State, sock)
        BY <2>1, Idle
      <4> QED BY <3>1, <3>3, <4>1 DEF Settled
    <3>7. Covers(Queue', Unsettled')
      BY <3>2, <3>4, <3>6, CoversLess
    <3>8. \A x \in waiting' : State'[x] = "Wait"
      BY <2>1, <3>1, <3>3, Parts
    <3>9. After(State', held')
      BY <3>1, <3>2, <3>3, <3>4, <3>5, <3>7, <3>8, Parts DEF After
    <3>10. \A x \in Conns : State'[x] = "Closed" <=> State[x] = "Closed"
      BY <2>1, <3>1
    <3>11. delayed' \in Nat /\ buf' \in [Conns -> 0..(MaxPipe - 1)]
           /\ \A x \in Conns : State'[x] = "Closed" => held'[x] = held[x]
      BY <3>3, Parts
    <3> QED BY <2>1, <3>3, <3>9, <3>10, <3>11, EventDone
  <2> QED BY <1>5, <2>6, <2>7 DEF WriteReply, q
<1>6. CASE Hangup(c)
  <2>1. Event(c) /\ State[c] = "Wait" /\ pc = "poll"
    BY <1>6 DEF Hangup, Event
  <2>2. /\ waiting' = waiting \ {c} /\ SetQueue(EpollQAdd(Queue, c, "w"))
        /\ State' = [State EXCEPT ![c] = "Send"]
        /\ sock' = sock /\ buf' = buf /\ held' = held /\ ready' = ready /\ delayed' = delayed
        /\ closes' = closes
    BY <1>6 DEF Hangup
  <2>3. /\ Queue \in QType /\ \A x \in Conns : Queue.next[x] = Nil
        /\ Members(Queue) = {} /\ Covers(Queue, {})
        /\ \A x \in Conns : Settled(x, State, sock)
    BY <2>1, Idle
  <2>4. Goes(c, "Send")
    BY <2>2, Parts DEF Goes, States
  <2>5. /\ waiting' \in SUBSET Conns /\ held' \in [Conns -> Nat] /\ ready' \in Nat
        /\ \A x \in waiting' : x # c /\ State[x] = "Wait"
        /\ delayed' \in Nat /\ buf' \in [Conns -> 0..(MaxPipe - 1)]
        /\ sock' = sock /\ closes' = closes /\ SetQueue(EpollQAdd(Queue, c, "w"))
    BY <2>2, Parts
  <2>6. /\ Queue.next[c] \in {Nil, c} /\ Members(Queue) \subseteq {c}
        /\ \A x \in Conns \ {c} : Settled(x, State, sock')
    BY <2>2, <2>3
  <2>7. After(State', held')
    BY <2>3, <2>4, <2>5, <2>6, ReplySound
  <2>8. /\ \A x \in Conns : State'[x] = "Closed" <=> State[x] = "Closed"
        /\ \A x \in Conns : State'[x] = "Closed" => held'[x] = held[x]
    BY <2>1, <2>2, <2>4 DEF Goes
  <2> QED BY <2>1, <2>5, <2>7, <2>8, EventDone
<1> QED BY <1>1, <1>2, <1>3, <1>4, <1>5, <1>6 DEF Handle

\* protTick: delayed jobs that are due may wake any number of connections.
LEMMA TickSound ==
  ASSUME LoopIInv, protTick
  PROVE  LoopIInv'
<1>1. PICK n \in 0..delayed :
        /\ delayed' = delayed - n
        /\ Serve(Queue, waiting, ready + n, State, held, <<>>)
  BY DEF protTick
<1>2. /\ pc = "tick" /\ pc' = "apply2" /\ sock' = sock /\ buf' = buf /\ peer' = peer
      /\ closes' = closes
  BY DEF protTick
<1>3. delayed' \in Nat /\ ready + n \in Nat
  BY <1>1, Parts
<1>4. /\ Queue \in QType /\ \A x \in Conns : Queue.next[x] = Nil
      /\ Members(Queue) = {} /\ Covers(Queue, {})
      /\ \A x \in Conns : Settled(x, State, sock)
  BY <1>2, Idle
<1>5. \A x \in Conns : Settled(x, State, sock')
  BY <1>2, <1>4
<1>6. After(State, held)
  <2>1. /\ waiting \in SUBSET Conns /\ State \in [Conns -> States] /\ held \in [Conns -> Nat]
        /\ \A x \in waiting : State[x] = "Wait"
    BY Parts
  <2> QED BY <1>1, <1>3, <1>4, <1>5, <2>1, ServingAlone
<1>7. /\ sock' \in [Conns -> SockType] /\ SockSound' /\ buf' \in [Conns -> 0..(MaxPipe - 1)]
      /\ peer' \in [Conns -> {"away", "here", "left"}] /\ closes' \in [Conns -> Nat]
      /\ \A x \in Conns : State[x] = "Closed" => held[x] = 0 /\ ~sock'[x].open
      /\ \A x \in Conns : closes'[x] = IF State[x] = "Closed" THEN 1 ELSE 0
  BY <1>2, Parts DEF SockSound
<1>8. pc' \in {"apply", "apply2"}
  BY <1>2
<1> QED BY <1>3, <1>6, <1>7, <1>8, HandlerDone

\* EpollQApply takes the head: it is registered, or refused and then left as it is.
LEMMA ApplySound ==
  ASSUME LoopIInv, EpollQApply
  PROVE  LoopIInv' /\ closes' = closes
<1>0. pc \in {"apply", "apply2"} /\ buf' = buf /\ peer' = peer
  BY DEF EpollQApply
<1>1. Queue \in QType /\ Covers(Queue, Unsettled) /\ Unsettled \in SUBSET Conns
  BY DEF LoopIInv, LoopTypeOK, ListSound, Queue, QType, Interests, Unsettled
<1>2. CASE /\ epollQ = Nil
           /\ pc' = IF pc = "apply" THEN "tick" ELSE "poll"
           /\ UNCHANGED <<queueVars, State, sock, jobVars, closes>>
  BY <1>0, <1>2 DEF LoopIInv, LoopTypeOK, ListSound, SockSound, ConnSound, Queue, Unsettled, Members,
     queueVars, jobVars, Covers, Closed
<1>3. CASE epollQ # Nil
  <2> DEFINE c == epollQ
             rest == [head |-> NextConn[c], next |-> [NextConn EXCEPT ![c] = Nil], rw |-> Rw]
  <2>1. PICK r \in sockWant(sock[c], Rw[c]) :
          \/ /\ r.ok
             /\ sock' = [sock EXCEPT ![c] = r.s]
             /\ SetQueue(rest)
             /\ UNCHANGED <<State, waiting, held, ready, closes>>
          \/ ~r.ok /\ connClose(rest, c, State, r.s)
    BY <1>3 DEF EpollQApply
  <2>2. pc' = pc /\ delayed' = delayed
    BY <1>3 DEF EpollQApply
  <2>3. Queue.head = c /\ c \in Conns /\ c \in Members(Queue)
    BY <1>1, <1>3 DEF Queue, QType, Members
  <2>4. State[c] \notin {"none", "Closed"} /\ Rw[c] = Wants(State[c])
    BY <2>3 DEF LoopIInv, ListSound
  <2>5. Rw[c] \in Interests /\ Rw[c] # "none" /\ sock[c] \in SockType /\ RegSound(sock[c])
    <3>1. State[c] \in States
      BY <2>3, Parts
    <3>2. Wants(State[c]) \in {"r", "w", "h"}
      BY <3>1, WantsIs
    <3> QED BY <2>3, <2>4, <3>2, Parts DEF Interests
  <2>6. rest \in QType /\ Members(rest) \subseteq Members(Queue) /\ Covers(rest, Unsettled \ {c})
    <3>1. rest = [head |-> Queue.next[Queue.head], next |-> [Queue.next EXCEPT ![Queue.head] = Nil],
                  rw |-> Queue.rw]
      BY DEF Queue
    <3> HIDE DEF rest
    <3>2. Queue.head # Nil
      BY <1>3, <2>3
    <3>3. rest \in QType /\ Members(rest) \subseteq Members(Queue) /\ Covers(rest, Unsettled \ {Queue.head})
      BY <1>1, <3>1, <3>2, HeadTaken
    <3> QED BY <2>3, <3>3
  <2>7. rest.rw = Rw
    OBVIOUS
  <2> HIDE DEF rest
  <2>8. PICK k \in SockType :
          /\ sock' = [sock EXCEPT ![c] = k] /\ RegSound(k) /\ k.open = sock[c].open
          /\ k.reg = Rw[c] \/ k.refused
          /\ SetQueue(rest) /\ State' = State /\ waiting' = waiting /\ held' = held
          /\ ready' = ready /\ closes' = closes
    <3>1. CASE /\ r.ok
               /\ sock' = [sock EXCEPT ![c] = r.s]
               /\ SetQueue(rest)
               /\ UNCHANGED <<State, waiting, held, ready, closes>>
      <4>1. r.s \in SockType /\ RegSound(r.s) /\ r.s.open = sock[c].open /\ r.s.reg = Rw[c]
        BY <2>5, <3>1, WantFacts
      <4> QED BY <3>1, <4>1
    <3>2. CASE ~r.ok /\ connClose(rest, c, State, r.s)
      <4>1. r.s \in SockType /\ RegSound(r.s) /\ r.s.open = sock[c].open /\ "none" \in Interests
        BY <2>5, WantFacts DEF Interests
      <4>2. PICK d \in sockWant(r.s, "none") :
              IF d.ok
              THEN /\ sock' = [sock EXCEPT ![c] = [d.s EXCEPT !.open = FALSE]]
                   /\ Serve(rest, waiting \ {c}, ready + held[c], [State EXCEPT ![c] = "Closed"],
                            [held EXCEPT ![c] = 0], <<>>)
                   /\ closes' = [closes EXCEPT ![c] = @ + 1]
              ELSE /\ sock' = [sock EXCEPT ![c] = d.s]
                   /\ SetQueue(rest) /\ State' = State
                   /\ UNCHANGED <<waiting, held, ready, closes>>
        BY <3>2 DEF connClose
      <4>3. ~d.ok
        BY <2>5, <3>2, RefusedAgain
      <4>4. d.s \in SockType /\ RegSound(d.s) /\ d.s.open = r.s.open /\ d.s.refused
        BY <4>1, <4>3, WantFacts
      <4> QED BY <4>1, <4>2, <4>3, <4>4
    <3> QED BY <2>1, <3>1, <3>2
  <2>9. sock' \in [Conns -> SockType] /\ \A x \in Conns : sock'[x] = IF x = c THEN k ELSE sock[x]
    BY <2>3, <2>8, Parts
  <2>10. Queue' = rest /\ Rw' = Rw
    BY <2>6, <2>7, <2>8 DEF SetQueue, Queue, QType
  <2>11. \A x \in Members(Queue') : State'[x] \notin {"none", "Closed"} /\ Rw'[x] = Wants(State'[x])
    BY <2>6, <2>8, <2>10 DEF LoopIInv, ListSound
  <2>12. Unsettled' \subseteq Unsettled \ {c}
    <3> SUFFICES ASSUME NEW x \in Conns, x \notin Unsettled \ {c} PROVE Settled(x, State', sock')
      BY DEF Unsettled
    <3>1. CASE x = c
      BY <2>4, <2>8, <2>9, <3>1 DEF Settled
    <3>2. CASE x # c
      BY <2>8, <2>9, <3>2 DEF Settled, Unsettled
    <3> QED BY <3>1, <3>2
  <2>13. Covers(Queue', Unsettled')
    BY <2>6, <2>10, <2>12, CoversLess
  <2>14. After(State, held)
    BY <2>6, <2>8, <2>10, <2>11, <2>13, Parts DEF After
  <2>15. SockSound'
    BY <2>8, <2>9, Parts DEF SockSound
  <2>16. \A x \in Conns : State[x] = "Closed" => held[x] = 0 /\ ~sock'[x].open
    BY <2>8, <2>9, Parts
  <2>17. /\ \A x \in Conns : closes'[x] = IF State[x] = "Closed" THEN 1 ELSE 0
         /\ closes' \in [Conns -> Nat] /\ delayed' \in Nat
         /\ buf' \in [Conns -> 0..(MaxPipe - 1)] /\ peer' \in [Conns -> {"away", "here", "left"}]
         /\ pc' \in {"apply", "apply2"}
    BY <1>0, <2>2, <2>8, Parts
  <2>18. LoopIInv'
    BY <2>9, <2>14, <2>15, <2>16, <2>17, HandlerDone
  <2> QED BY <2>8, <2>18
<1> QED BY <1>2, <1>3 DEF EpollQApply

\* A new connection, whose interest may be refused.
LEMMA AcceptSound ==
  ASSUME LoopIInv, NEW c \in Conns, hAccept(c)
  PROVE  LoopIInv'
<1> DEFINE fresh == [NoSock EXCEPT !.open = TRUE]
<1>1. /\ pc = "poll" /\ pc' = "apply" /\ State[c] = "none"
      /\ State' = [State EXCEPT ![c] = "WantCommand"]
      /\ epollQ' = epollQ /\ NextConn' = NextConn /\ Rw' = Rw
      /\ buf' = buf /\ peer' = peer /\ waiting' = waiting /\ held' = held /\ ready' = ready
      /\ delayed' = delayed /\ closes' = closes
  BY DEF hAccept, queueVars, jobVars
<1>2. PICK r \in sockWant(fresh, "r") :
        sock' = [sock EXCEPT ![c] = IF r.ok THEN r.s ELSE [r.s EXCEPT !.open = FALSE]]
  BY DEF hAccept
<1>3. fresh \in SockType /\ RegSound(fresh) /\ fresh.open /\ "r" \in Interests
  BY DEF NoSock, SockType, RegSound, Interests
<1> HIDE DEF fresh
<1>4. /\ r.ok \in BOOLEAN /\ r.s \in SockType /\ RegSound(r.s)
      /\ r.ok => r.s.reg = "r"
      /\ ~r.ok => r.s.reg = "none"
  BY <1>3, WantFacts
<1> DEFINE k == IF r.ok THEN r.s ELSE [r.s EXCEPT !.open = FALSE]
<1>5. k \in SockType /\ RegSound(k) /\ (~k.open \/ k.reg = "r")
  BY <1>4 DEF SockType, RegSound
<1> HIDE DEF k
<1>6. sock' \in [Conns -> SockType] /\ \A x \in Conns : sock'[x] = IF x = c THEN k ELSE sock[x]
  BY <1>2, <1>5, Parts DEF k
<1>7. State' \in [Conns -> States]
      /\ \A x \in Conns : State'[x] = IF x = c THEN "WantCommand" ELSE State[x]
  BY <1>1, Parts DEF States
<1>8. /\ Queue \in QType /\ Members(Queue) = {} /\ Covers(Queue, {})
      /\ \A x \in Conns : Settled(x, State, sock)
  BY <1>1, Idle
<1>9. Queue' = Queue
  BY <1>1 DEF Queue
<1>10. Unsettled' = {}
  <2> SUFFICES ASSUME NEW x \in Conns PROVE Settled(x, State', sock')
    BY DEF Unsettled
  <2>1. CASE x = c
    BY <1>5, <1>6, <1>7, <2>1, WantsIs DEF Settled, States
  <2>2. CASE x # c
    BY <1>6, <1>7, <1>8, <2>2 DEF Settled
  <2> QED BY <2>1, <2>2
<1>11. \A x \in waiting' : State'[x] = "Wait"
  BY <1>1, <1>7, Parts
<1>12. After(State', held')
  BY <1>1, <1>7, <1>8, <1>9, <1>10, <1>11, Parts DEF After
<1>13. SockSound'
  BY <1>5, <1>6, Parts DEF SockSound
<1>14. /\ \A x \in Conns : State'[x] = "Closed" => held'[x] = 0 /\ ~sock'[x].open
       /\ \A x \in Conns : closes'[x] = IF State'[x] = "Closed" THEN 1 ELSE 0
  BY <1>1, <1>6, <1>7, Parts
<1>15. /\ closes' \in [Conns -> Nat] /\ delayed' \in Nat /\ pc' \in {"apply", "apply2"}
       /\ buf' \in [Conns -> 0..(MaxPipe - 1)] /\ peer' \in [Conns -> {"away", "here", "left"}]
  BY <1>1, Parts
<1> QED BY <1>6, <1>12, <1>13, <1>14, <1>15, HandlerDone

\* Steps that touch neither the list nor a connection.
LEMMA RestSound ==
  ASSUME LoopIInv,
         \/ NoEvent
         \/ \E c \in Conns : Arrive(c) \/ Leave(c)
         \/ UNCHANGED loopVars
  PROVE  LoopIInv'
<1>1. UNCHANGED <<epollQ, NextConn, Rw, State, sock, buf, waiting, held, ready, delayed, closes>>
  BY DEF NoEvent, Arrive, Leave, loopVars, queueVars, jobVars
<1>2. pc' = pc \/ (pc = "poll" /\ pc' = "tick")
  BY DEF NoEvent, Arrive, Leave, loopVars, queueVars, jobVars
<1>3. peer' \in [Conns -> {"away", "here", "left"}]
  BY Parts DEF NoEvent, Arrive, Leave, loopVars, queueVars, jobVars
<1>4. LoopTypeOK'
  BY <1>1, <1>2, <1>3 DEF LoopIInv, LoopTypeOK
<1>5. ListSound'
  BY <1>1, <1>2 DEF LoopIInv, ListSound, Queue, Unsettled, Members, Covers, Closed
<1>6. SockSound' /\ ConnSound'
  BY <1>1 DEF LoopIInv, SockSound, ConnSound
<1> QED BY <1>4, <1>5, <1>6 DEF LoopIInv

\* The invariant holds at the start.
LEMMA LoopInit == Init => LoopIInv
<1> SUFFICES ASSUME Init PROVE LoopIInv
  OBVIOUS
<1>1. /\ pc = "tick" /\ epollQ = Nil /\ NextConn = [c \in Conns |-> Nil]
      /\ Rw = [c \in Conns |-> "none"] /\ State = [c \in Conns |-> "none"]
      /\ sock = [c \in Conns |-> NoSock] /\ buf = [c \in Conns |-> 0]
      /\ peer = [c \in Conns |-> "away"] /\ waiting = {} /\ held = [c \in Conns |-> 0]
      /\ ready = 0 /\ delayed = 0 /\ closes = [c \in Conns |-> 0]
  BY DEF Init
<1>2. 0 \in 0..(MaxPipe - 1)
  BY LoopAssumption
<1>3. LoopTypeOK
  BY <1>1, <1>2 DEF LoopTypeOK, NoSock
<1>4. Members(Queue) = {}
  BY <1>1, LoopAssumption DEF Members, Queue
<1>5. Unsettled = {}
  BY <1>1 DEF Unsettled, Settled, NoSock
<1>6. Covers(Queue, {})
  BY <1>1, NothingLinked DEF Queue
<1>7. ListSound
  BY <1>1, <1>4, <1>5, <1>6 DEF ListSound
<1>8. SockSound /\ ConnSound
  BY <1>1 DEF SockSound, ConnSound, RegSound, NoSock
<1> QED BY <1>3, <1>7, <1>8 DEF LoopIInv

\* Every step keeps it.
LEMMA LoopStep ==
  ASSUME LoopIInv, [LoopNext]_loopVars
  PROVE  LoopIInv'
<1>1. CASE protTick
  BY <1>1, TickSound
<1>2. CASE EpollQApply
  BY <1>2, ApplySound
<1>3. CASE \E c \in Conns : hAccept(c)
  BY <1>3, AcceptSound
<1>4. CASE \E c \in Conns : Handle(c)
  BY <1>4, HandleSound
<1>5. CASE NoEvent \/ (\E c \in Conns : Arrive(c) \/ Leave(c)) \/ UNCHANGED loopVars
  BY <1>5, RestSound
<1> QED BY <1>1, <1>2, <1>3, <1>4, <1>5 DEF LoopNext, Start

-----------------------------------------------------------------------------
(***************************************************************************)
(* Theorems.                                                               *)
(***************************************************************************)

\* The inductive invariant, which the others follow from.
THEOREM LoopIsSound == LoopSpec => []LoopIInv
<1>1. Init => LoopIInv
  BY LoopInit
<1>2. LoopIInv /\ [LoopNext]_loopVars => LoopIInv'
  BY LoopStep
<1> QED BY <1>1, <1>2, PTL DEF LoopSpec

\* EpollQApply leaves an empty list without a link in it, and no connection is closed twice,
\* whatever EpollQAdd was called with before.
THEOREM ListDrained == LoopSpec => []LoopInv
<1>1. LoopIInv => LoopInv
  <2> SUFFICES ASSUME LoopIInv PROVE LoopInv
    OBVIOUS
  <2>1. LoopTypeOK
    BY DEF LoopIInv
  <2>2. Drained
    BY Idle DEF Drained, Queue
  <2>3. ClosedOnce
    BY Parts DEF ClosedOnce
  <2> QED BY <2>1, <2>2, <2>3 DEF LoopInv
<1> QED BY <1>1, LoopIsSound, PTL

\* When the loop waits for an event, the kernel watches every open connection for what its
\* state needs, unless it refused one of its interests.
THEOREM WatchesAll == LoopSpec => []Registered
<1>1. LoopIInv => Registered
  <2> SUFFICES ASSUME LoopIInv, pc = "poll", NEW c \in Conns \ Refused, sock[c].open
               PROVE  sock[c].reg = Wants(State[c])
    BY DEF Registered
  <2>1. Settled(c, State, sock)
    BY Idle
  <2> QED BY <2>1 DEF Settled, Refused
<1> QED BY <1>1, LoopIsSound, PTL

\* connClose leaves nothing of a connection behind: no job, no place among those that wait and
\* none in the list.
THEOREM ClosedLeavesNothing == LoopSpec => []ClosedIsGone
<1>1. LoopIInv => ClosedIsGone
  <2> SUFFICES ASSUME LoopIInv, NEW c \in Conns, State[c] = "Closed"
               PROVE  /\ c \notin waiting /\ held[c] = 0 /\ ~sock[c].open
                      /\ epollQ # c /\ \A x \in Conns : NextConn[x] # c
    BY DEF ClosedIsGone
  <2>1. c \notin waiting /\ held[c] = 0 /\ ~sock[c].open
    BY Parts
  <2>2. c \notin Members(Queue)
    BY DEF LoopIInv, ListSound
  <2>3. epollQ # c /\ \A x \in Conns : NextConn[x] # c
    BY <2>2 DEF Members, Queue
  <2> QED BY <2>1, <2>3
<1> QED BY <1>1, LoopIsSound, PTL

\* EpollQApply calls connClose for a connection whose interest the kernel refuses, and it never
\* goes through: the second sockWant finds no filter to delete.  The connection stays open.
ApplyClosesNone == [][(pc \in {"apply", "apply2"}) => (closes' = closes)]_loopVars

\* EpollQApply closes no connection, whatever interests the kernel refuses.
THEOREM RefusedStaysOpen == LoopSpec => ApplyClosesNone
<1>1. LoopIInv /\ [LoopNext]_loopVars => [(pc \in {"apply", "apply2"}) => (closes' = closes)]_loopVars
  <2> SUFFICES ASSUME LoopIInv, LoopNext, pc \in {"apply", "apply2"} PROVE closes' = closes
    OBVIOUS
  <2>1. CASE EpollQApply
    BY <2>1, ApplySound
  <2>2. CASE protTick \/ NoEvent
    BY <2>2 DEF protTick, NoEvent
  <2>3. CASE \E c \in Conns : hAccept(c) \/ Arrive(c) \/ Leave(c)
    BY <2>3 DEF hAccept, Arrive, Leave
  <2>4. CASE \E c \in Conns : Handle(c)
    <3>1. \A c \in Conns : Handle(c) => pc = "poll"
      BY DEF Handle, Partial, ReadCommands, ReadBody, ReadEnd, WriteReply, Hangup, Event
    <3> QED BY <2>4, <3>1
  <2> QED BY <2>1, <2>2, <2>3, <2>4 DEF LoopNext, Start
<1> QED BY <1>1, LoopIsSound, PTL DEF LoopSpec, ApplyClosesNone
=============================================================================
