--------------------------- MODULE TubeSetsProofs ---------------------------
(***************************************************************************)
(* Watch and WaitingConns for any set of connections and tubes: after any  *)
(* sequence of commands and of jobs that get ready, a connection is in the *)
(* waiting set of a tube just when it waits and watches the tube, once,    *)
(* and WatchingCt is the number of the tube's watchers.                    *)
(*                                                                         *)
(* The inductive invariant SetIInv adds what the operations of Ms rely on: *)
(* no set holds an item twice, so the first item that Ms.Remove finds is   *)
(* the only one.                                                           *)
(***************************************************************************)
EXTENDS TubeSets, SequenceTheorems, FiniteSetTheorems, TLAPS

\* A set of S.
MsOf(S) == [items : Seq(S), last : Nat]

Sets ==
  /\ open \subseteq Conns /\ Waiting \subseteq open
  /\ Watch \in [Conns -> MsOf(Tubes)] /\ WaitingConns \in [Tubes -> MsOf(Conns)]
  /\ WatchingCt \in [Tubes -> Int] /\ settled \in BOOLEAN

\* No tube is watched twice, and the cursor of a Watch, from which nothing is taken, is at its start.
WatchedOnce == \A c \in Conns : Listed(Watch[c].items) /\ Watch[c].last = 0

\* The cursor of a waiting set stays within the connections.
CursorsInside == \A t \in Tubes : WaitingConns[t].last \in 0..Cardinality(Conns)

SetIInv == Sets /\ WatchedOnce /\ CursorsInside /\ WaitsWhereItWatches /\ WatchersCounted

-----------------------------------------------------------------------------
(***************************************************************************)
(* The operations of Ms on a set that holds no item twice.                 *)
(***************************************************************************)

\* What is left of a sequence from which an item is deleted.
LEMMA RemoveAtFacts ==
  ASSUME NEW S, NEW s \in Seq(S), NEW i \in 1..Len(s)
  PROVE  /\ RemoveAt(s, i) \in Seq(S)
         /\ Len(RemoveAt(s, i)) = Len(s) - 1
         /\ \A k \in 1..(Len(s) - 1) : RemoveAt(s, i)[k] = IF k < i THEN s[k] ELSE s[k + 1]
<1>0. Len(s) \in Nat /\ i \in Nat /\ i >= 1 /\ i <= Len(s) /\ \A k \in 1..Len(s) : s[k] \in S
  BY LenProperties, ElementOfSeq
<1> DEFINE a == SubSeq(s, 1, i - 1)
           b == SubSeq(s, i + 1, Len(s))
<1>1. /\ a \in Seq(S) /\ Len(a) = i - 1
      /\ \A k \in 1..(i - 1) : a[k] = s[k]
  <2>1. \A k \in 1..(i - 1) : s[k] \in S
    BY <1>0
  <2>2. 1 \in Int /\ i - 1 \in Int
    BY <1>0
  <2>3. /\ a \in Seq(S)
        /\ Len(a) = IF 1 <= i - 1 THEN (i - 1) - 1 + 1 ELSE 0
        /\ \A k \in 1..((i - 1) - 1 + 1) : a[k] = s[1 + k - 1]
    BY <2>1, <2>2, SubSeqProperties
  <2> HIDE DEF a
  <2> QED BY <1>0, <2>3
<1>2. /\ b \in Seq(S) /\ Len(b) = Len(s) - i
      /\ \A k \in 1..(Len(s) - i) : b[k] = s[i + k]
  <2>1. \A k \in (i + 1)..Len(s) : s[k] \in S
    BY <1>0
  <2>2. i + 1 \in Int /\ Len(s) \in Int
    BY <1>0
  <2>3. /\ b \in Seq(S)
        /\ Len(b) = IF i + 1 <= Len(s) THEN Len(s) - (i + 1) + 1 ELSE 0
        /\ \A k \in 1..(Len(s) - (i + 1) + 1) : b[k] = s[(i + 1) + k - 1]
    BY <2>1, <2>2, SubSeqProperties
  <2> HIDE DEF b
  <2> QED BY <1>0, <2>3
<1> HIDE DEF a, b
<1>3. /\ a \o b \in Seq(S) /\ Len(a \o b) = Len(a) + Len(b)
      /\ \A k \in 1..(Len(a) + Len(b)) : (a \o b)[k] = IF k <= Len(a) THEN a[k] ELSE b[k - Len(a)]
  BY <1>1, <1>2, ConcatProperties
<1>4. RemoveAt(s, i) = a \o b
  BY DEF RemoveAt, a, b
<1> DEFINE r == a \o b
<1>5. r \in Seq(S) /\ Len(r) = Len(s) - 1
  BY <1>0, <1>1, <1>2, <1>3
<1>6. ASSUME NEW k \in 1..(Len(s) - 1) PROVE r[k] = IF k < i THEN s[k] ELSE s[k + 1]
  <2>1. r[k] = IF k <= i - 1 THEN a[k] ELSE b[k - (i - 1)]
    BY <1>0, <1>1, <1>2, <1>3
  <2>2. CASE k < i
    BY <1>0, <1>1, <2>1, <2>2
  <2>3. CASE ~(k < i)
    BY <1>0, <1>2, <2>1, <2>3
  <2> QED BY <2>2, <2>3
<1> QED BY <1>4, <1>5, <1>6

\* Append adds an item that is not in the set.
LEMMA AppendKeeps ==
  ASSUME NEW S, NEW s \in Seq(S), Listed(s), NEW x \in S, x \notin Range(s)
  PROVE  /\ Append(s, x) \in Seq(S) /\ Listed(Append(s, x))
         /\ Range(Append(s, x)) = Range(s) \cup {x}
<1> DEFINE r == Append(s, x)
<1>1. /\ r \in Seq(S) /\ Len(r) = Len(s) + 1 /\ Len(s) \in Nat
      /\ \A k \in 1..Len(s) : r[k] = s[k]
      /\ r[Len(s) + 1] = x
  BY AppendProperties, LenProperties
<1>2. Range(s) = {s[k] : k \in 1..Len(s)} /\ DOMAIN s = 1..Len(s)
  BY RangeEquality, LenProperties
<1> HIDE DEF r
<1>3. Range(r) = {r[k] : k \in 1..Len(r)} /\ DOMAIN r = 1..Len(r)
  BY <1>1, RangeEquality, LenProperties
<1>4. \A k \in 1..Len(r) : k \in 1..Len(s) \/ k = Len(s) + 1
  BY <1>1
<1>5. \A k \in 1..Len(s) : s[k] # x
  BY <1>2
<1>6. Listed(r)
  <2> SUFFICES ASSUME NEW i \in 1..Len(r), NEW k \in 1..Len(r), r[i] = r[k] PROVE i = k
    BY <1>3 DEF Listed
  <2> QED BY <1>1, <1>2, <1>4, <1>5 DEF Listed
<1>7. ASSUME NEW y PROVE y \in Range(r) <=> y \in Range(s) \cup {x}
  <2>1. \A k \in 1..Len(s) : k \in 1..Len(r)
    BY <1>1
  <2>2. Len(s) + 1 \in 1..Len(r)
    BY <1>1
  <2> QED BY <1>1, <1>2, <1>3, <1>4, <2>1, <2>2
<1> QED BY <1>1, <1>6, <1>7 DEF r

\* Deleting an item leaves the others, each once.
LEMMA DeleteKeeps ==
  ASSUME NEW S, NEW s \in Seq(S), Listed(s), NEW i \in 1..Len(s)
  PROVE  /\ RemoveAt(s, i) \in Seq(S) /\ Listed(RemoveAt(s, i))
         /\ Range(RemoveAt(s, i)) = Range(s) \ {s[i]}
<1> DEFINE r == RemoveAt(s, i)
<1>1. /\ r \in Seq(S) /\ Len(r) = Len(s) - 1 /\ Len(s) \in Nat
      /\ \A k \in 1..(Len(s) - 1) : r[k] = IF k < i THEN s[k] ELSE s[k + 1]
  BY RemoveAtFacts, LenProperties
<1>2. Range(s) = {s[k] : k \in 1..Len(s)} /\ DOMAIN s = 1..Len(s)
  BY RangeEquality, LenProperties
<1> HIDE DEF r
<1>3. Range(r) = {r[k] : k \in 1..Len(r)} /\ DOMAIN r = 1..Len(r)
  BY <1>1, RangeEquality, LenProperties
<1> DEFINE f(k) == IF k < i THEN k ELSE k + 1
<1>4. /\ \A k \in 1..Len(r) : f(k) \in 1..Len(s) /\ f(k) # i /\ r[k] = s[f(k)]
      /\ \A k, l \in 1..Len(r) : f(k) = f(l) => k = l
      /\ \A m \in 1..Len(s) : m # i => \E k \in 1..Len(r) : f(k) = m
  <2>1. ASSUME NEW m \in 1..Len(s), m # i PROVE \E k \in 1..Len(r) : f(k) = m
    <3>1. CASE m < i
      <4>1. m \in 1..Len(r) /\ f(m) = m
        BY <1>1, <3>1
      <4> QED BY <4>1
    <3>2. CASE ~(m < i)
      <4>1. (m - 1) \in 1..Len(r) /\ f(m - 1) = m
        BY <1>1, <2>1, <3>2
      <4> QED BY <4>1
    <3> QED BY <3>1, <3>2
  <2>2. \A k \in 1..Len(r) : f(k) \in 1..Len(s) /\ f(k) # i /\ r[k] = s[f(k)]
    BY <1>1
  <2>3. \A k, l \in 1..Len(r) : f(k) = f(l) => k = l
    BY <1>1
  <2> QED BY <2>1, <2>2, <2>3
<1> HIDE DEF f
<1>5. \A k, l \in 1..Len(s) : s[k] = s[l] => k = l
  BY <1>2 DEF Listed
<1>6. Listed(r)
  BY <1>3, <1>4, <1>5 DEF Listed
<1>7. ASSUME NEW y PROVE y \in Range(r) <=> y \in Range(s) \ {s[i]}
  BY <1>2, <1>3, <1>4, <1>5
<1> QED BY <1>1, <1>6, <1>7 DEF r

\* Ms.Remove takes out the item it is given, wherever it stands, and leaves the cursor.
LEMMA RemoveKeeps ==
  ASSUME NEW S, NEW m \in MsOf(S), Listed(m.items), NEW x
  PROVE  /\ MsRemove(m, x) \in MsOf(S) /\ MsRemove(m, x).last = m.last
         /\ Listed(MsRemove(m, x).items)
         /\ Range(MsRemove(m, x).items) = Range(m.items) \ {x}
<1>0. m.items \in Seq(S) /\ m.last \in Nat /\ m = [items |-> m.items, last |-> m.last]
  BY DEF MsOf
<1>1. CASE ~Has(m, x)
  BY <1>1 DEF MsRemove, Has
<1>2. CASE Has(m, x)
  <2> DEFINE P(i) == m.items[i] = x /\ \A k \in 1..(i - 1) : m.items[k] # x
             i0 == CHOOSE i \in DOMAIN m.items : P(i)
  <2>1. DOMAIN m.items = 1..Len(m.items) /\ Len(m.items) \in Nat
    BY <1>0, LenProperties
  <2>2. PICK j \in DOMAIN m.items : m.items[j] = x
    BY <1>2, <2>1 DEF Has, Range
  <2>3. \A k \in 1..(j - 1) : k \in DOMAIN m.items /\ k # j
    BY <2>1
  <2>4. P(j)
    BY <2>2, <2>3 DEF Listed
  <2>5. i0 \in 1..Len(m.items) /\ m.items[i0] = x
    BY <2>1, <2>4
  <2>6. MsRemove(m, x) = [m EXCEPT !.items = RemoveAt(m.items, i0)]
    BY <1>2 DEF MsRemove, MsDelete
  <2> HIDE DEF i0
  <2>7. MsRemove(m, x).items = RemoveAt(m.items, i0) /\ MsRemove(m, x).last = m.last
        /\ MsRemove(m, x) = [items |-> RemoveAt(m.items, i0), last |-> m.last]
    BY <1>0, <2>6
  <2>8. /\ RemoveAt(m.items, i0) \in Seq(S) /\ Listed(RemoveAt(m.items, i0))
        /\ Range(RemoveAt(m.items, i0)) = Range(m.items) \ {m.items[i0]}
    BY <1>0, <2>5, DeleteKeeps
  <2>9. MsRemove(m, x) \in MsOf(S)
    BY <1>0, <2>7, <2>8 DEF MsOf
  <2> QED BY <2>5, <2>7, <2>8, <2>9
<1> QED BY <1>1, <1>2

\* A sequence that names no connection twice is no longer than there are connections.
LEMMA ListedFits ==
  ASSUME NEW s \in Seq(Conns), Listed(s)
  PROVE  Len(s) <= Cardinality(Conns) /\ Len(s) \in Nat /\ Cardinality(Conns) \in Nat
<1>1. IsFiniteSet(Conns) /\ Len(s) \in Nat /\ s \in [1..Len(s) -> Conns] /\ DOMAIN s = 1..Len(s)
  BY TubeAssumption, LenProperties
<1>2. IsFiniteSet(1..Len(s)) /\ Cardinality(1..Len(s)) = Len(s)
  <2>1. /\ IsFiniteSet(1..Len(s))
        /\ Cardinality(1..Len(s)) = IF 1 > Len(s) THEN 0 ELSE Len(s) - 1 + 1
    BY SMTT(20), <1>1, FS_Interval
  <2> QED BY <1>1, <2>1
<1>3. s \in Injection(1..Len(s), Conns)
  BY <1>1 DEF Listed, Injection, IsInjective
<1>4. Cardinality(1..Len(s)) <= Cardinality(Conns)
  BY <1>1, <1>2, <1>3, FS_Injection
<1>5. Cardinality(Conns) \in Nat
  BY <1>1, FS_CardinalityType
<1> QED BY <1>1, <1>2, <1>4, <1>5

\* Ms.Take takes out one item, and its cursor stays within the connections.
LEMMA TakeKeeps ==
  ASSUME NEW m \in MsOf(Conns), Listed(m.items), m.items # <<>>
  PROVE  /\ Taken(m) \in Range(m.items) /\ Taken(m) \in Conns
         /\ MsTake(m) \in MsOf(Conns) /\ MsTake(m).last \in 0..Cardinality(Conns)
         /\ Listed(MsTake(m).items)
         /\ Range(MsTake(m).items) = Range(m.items) \ {Taken(m)}
<1>0. m.items \in Seq(Conns) /\ m.last \in Nat
  BY DEF MsOf
<1>1. Len(m.items) \in Nat \ {0} /\ DOMAIN m.items = 1..Len(m.items)
  BY <1>0, EmptySeq, LenProperties
<1>2. Cursor(m) \in 0..(Len(m.items) - 1)
  BY <1>0, <1>1 DEF Cursor
<1> DEFINE i == Cursor(m) + 1
<1>3. i \in 1..Len(m.items) /\ i \in Nat
  BY <1>1, <1>2
<1>4. MsTake(m) = [items |-> RemoveAt(m.items, i), last |-> i] /\ Taken(m) = m.items[i]
  BY DEF MsTake, Taken
<1> HIDE DEF i
<1>5. /\ RemoveAt(m.items, i) \in Seq(Conns) /\ Listed(RemoveAt(m.items, i))
      /\ Range(RemoveAt(m.items, i)) = Range(m.items) \ {m.items[i]}
  BY <1>0, <1>3, DeleteKeeps
<1>6. Len(m.items) <= Cardinality(Conns) /\ Cardinality(Conns) \in Nat
  BY <1>0, ListedFits
<1>7. i \in 0..Cardinality(Conns)
  BY <1>1, <1>3, <1>6
<1>8. m.items[i] \in Range(m.items) /\ m.items[i] \in Conns
  BY <1>0, <1>1, <1>3, ElementOfSeq DEF Range
<1> QED BY <1>3, <1>4, <1>5, <1>7, <1>8 DEF MsOf

\* The set of NewConn and of Watch.Clear.
LEMMA NewMsIsEmpty ==
  ASSUME NEW S
  PROVE  NewMs \in MsOf(S) /\ Listed(NewMs.items) /\ Range(NewMs.items) = {} /\ NewMs.last = 0
<1>1. NewMs.items = <<>> /\ NewMs.last = 0 /\ <<>> \in Seq(S) /\ DOMAIN <<>> = {}
  BY EmptySeq DEF NewMs
<1> QED BY <1>1 DEF NewMs, MsOf, Listed, Range

\* Ms.Append of an item that is not in the set.
LEMMA MsAppendKeeps ==
  ASSUME NEW S, NEW m \in MsOf(S), Listed(m.items), NEW x \in S, x \notin Range(m.items)
  PROVE  /\ MsAppend(m, x) \in MsOf(S) /\ MsAppend(m, x).last = m.last
         /\ Listed(MsAppend(m, x).items)
         /\ Range(MsAppend(m, x).items) = Range(m.items) \cup {x}
<1>1. m.items \in Seq(S) /\ m.last \in Nat /\ m = [items |-> m.items, last |-> m.last]
  BY DEF MsOf
<1>2. /\ Append(m.items, x) \in Seq(S) /\ Listed(Append(m.items, x))
      /\ Range(Append(m.items, x)) = Range(m.items) \cup {x}
  BY <1>1, AppendKeeps
<1>3. MsAppend(m, x) = [items |-> Append(m.items, x), last |-> m.last]
  <2>1. \A s \in Seq(S) : [m EXCEPT !.items = s] = [items |-> s, last |-> m.last]
    BY DEF MsOf
  <2> QED BY <1>2, <2>1 DEF MsAppend
<1> QED BY <1>1, <1>2, <1>3 DEF MsOf

-----------------------------------------------------------------------------
(***************************************************************************)
(* Every step keeps the inductive invariant.                               *)
(***************************************************************************)

\* Where the connection c stops waiting: every set ws[t] is the waiting set of t, perhaps
\* without c already, and removeWaitingCoon leaves c in none of them.
LEMMA StopsWaiting ==
  ASSUME SetIInv, NEW c \in Conns, NEW ws \in [Tubes -> MsOf(Conns)],
         \A t \in Tubes : /\ Listed(ws[t].items)
                          /\ Range(ws[t].items) \subseteq Range(WaitingConns[t].items)
                          /\ Range(WaitingConns[t].items) \subseteq Range(ws[t].items) \cup {c}
                          /\ ws[t].last \in 0..Cardinality(Conns),
         WaitingConns' = removeWaitingCoon(ws, c), Waiting' = Waiting \ {c},
         \A d \in Conns : d # c => Watch'[d] = Watch[d]
  PROVE  /\ WaitingConns' \in [Tubes -> MsOf(Conns)]
         /\ CursorsInside' /\ WaitsWhereItWatches'
<1>1. ASSUME NEW t \in Tubes
      PROVE  /\ WaitingConns'[t] \in MsOf(Conns) /\ WaitingConns'[t].last = ws[t].last
             /\ Listed(WaitingConns'[t].items)
             /\ Range(WaitingConns'[t].items) = Range(WaitingConns[t].items) \ {c}
  <2>1. CASE c \in Waiting /\ Has(Watch[c], t)
    <3>1. WaitingConns'[t] = MsRemove(ws[t], c)
      BY <2>1 DEF removeWaitingCoon
    <3>2. /\ MsRemove(ws[t], c) \in MsOf(Conns) /\ MsRemove(ws[t], c).last = ws[t].last
          /\ Listed(MsRemove(ws[t], c).items)
          /\ Range(MsRemove(ws[t], c).items) = Range(ws[t].items) \ {c}
      BY RemoveKeeps
    <3> QED BY <3>1, <3>2
  <2>2. CASE ~(c \in Waiting /\ Has(Watch[c], t))
    <3>1. WaitingConns'[t] = ws[t]
      BY <2>2 DEF removeWaitingCoon
    <3>2. c \notin Range(WaitingConns[t].items)
      BY <2>2 DEF SetIInv, WaitsWhereItWatches
    <3> QED BY <3>1, <3>2
  <2> QED BY <2>1, <2>2
<1>2. WaitingConns' = [t \in Tubes |-> WaitingConns'[t]]
  BY DEF removeWaitingCoon
<1>3. WaitingConns' \in [Tubes -> MsOf(Conns)]
  BY <1>1, <1>2
<1>4. CursorsInside'
  BY <1>1 DEF CursorsInside
<1>5. Waiting \subseteq Conns
  BY DEF SetIInv, Sets
<1>6. ASSUME NEW t \in Tubes
      PROVE  Range(WaitingConns'[t].items) = {d \in Waiting' : Has(Watch'[d], t)}
  <2>1. Range(WaitingConns'[t].items) = {d \in Waiting : Has(Watch[d], t)} \ {c}
    BY <1>1 DEF SetIInv, WaitsWhereItWatches
  <2>2. \A d \in Waiting : d # c => (Has(Watch'[d], t) <=> Has(Watch[d], t))
    BY <1>5
  <2> QED BY <2>1, <2>2
<1>7. WaitsWhereItWatches'
  BY <1>1, <1>6 DEF WaitsWhereItWatches
<1> QED BY <1>3, <1>4, <1>7

\* The watchers of a tube are finitely many; one more or one less of them counts one.
WatchersOf(t) == {c \in open : Has(Watch[c], t)}

LEMMA Watchers ==
  ASSUME SetIInv, NEW t \in Tubes, NEW c \in Conns
  PROVE  /\ WatchingCt[t] = Cardinality(WatchersOf(t)) /\ WatchingCt[t] \in Int
         /\ c \notin WatchersOf(t) => Cardinality(WatchersOf(t) \cup {c}) = WatchingCt[t] + 1
         /\ c \in WatchersOf(t) => Cardinality(WatchersOf(t) \ {c}) = WatchingCt[t] - 1
<1>1. WatchersOf(t) \subseteq Conns /\ IsFiniteSet(Conns)
  BY TubeAssumption DEF SetIInv, Sets, WatchersOf
<1>2. IsFiniteSet(WatchersOf(t))
  BY <1>1, FS_Subset
<1>3. WatchingCt[t] = Cardinality(WatchersOf(t))
  BY DEF SetIInv, WatchersCounted, WatchersOf
<1>4. WatchingCt[t] \in Int
  BY DEF SetIInv, Sets
<1> QED BY <1>2, <1>3, <1>4, FS_AddElement, FS_RemoveElement

\* A connection that does not wait changes its own Watch; only the watchers of a tube change.
LEMMA OwnWatchChanges ==
  ASSUME SetIInv, NEW c \in Conns, c \notin Waiting, NEW m \in MsOf(Tubes),
         Listed(m.items), m.last = 0,
         Watch' = [Watch EXCEPT ![c] = m],
         UNCHANGED <<Waiting, WaitingConns>>
  PROVE  /\ Watch' \in [Conns -> MsOf(Tubes)] /\ WatchedOnce' /\ CursorsInside' /\ WaitsWhereItWatches'
<1>1. Watch \in [Conns -> MsOf(Tubes)] /\ Waiting \subseteq Conns
  BY DEF SetIInv, Sets
<1>2. /\ Watch' \in [Conns -> MsOf(Tubes)] /\ Watch'[c] = m
      /\ \A d \in Conns : d # c => Watch'[d] = Watch[d]
  BY <1>1
<1>3. WatchedOnce'
  BY <1>2 DEF SetIInv, WatchedOnce
<1>4. CursorsInside'
  BY DEF SetIInv, CursorsInside
<1>5. \A d \in Waiting : Watch'[d] = Watch[d]
  BY <1>1, <1>2
<1>6. WaitsWhereItWatches'
  <2> SUFFICES ASSUME NEW t \in Tubes
               PROVE  /\ Listed(WaitingConns[t].items)
                      /\ Range(WaitingConns[t].items) = {d \in Waiting : Has(Watch'[d], t)}
    BY DEF WaitsWhereItWatches
  <2> QED BY <1>5 DEF SetIInv, WaitsWhereItWatches
<1> QED BY <1>2, <1>3, <1>4, <1>6

LEMMA NewConnKeeps ==
  ASSUME SetIInv, NEW c \in Conns, NewConn(c), settled' \in BOOLEAN
  PROVE  SetIInv'
<1> DEFINE m == MsAppend(NewMs, Default)
<1>1. m \in MsOf(Tubes) /\ Listed(m.items) /\ Range(m.items) = {Default} /\ m.last = 0
  <2>1. /\ NewMs \in MsOf(Tubes) /\ Listed(NewMs.items) /\ Range(NewMs.items) = {} /\ NewMs.last = 0
    BY NewMsIsEmpty
  <2>2. Default \in Tubes
    BY TubeAssumption
  <2> QED BY <2>1, <2>2, MsAppendKeeps
<1>2. /\ c \notin open /\ open' = open \cup {c} /\ Watch' = [Watch EXCEPT ![c] = m]
      /\ WatchingCt' = Counted({Default}, 1) /\ UNCHANGED <<Waiting, WaitingConns>>
  BY DEF NewConn
<1> HIDE DEF m
<1>3. c \notin Waiting
  BY <1>2 DEF SetIInv, Sets
<1>4. Watch' \in [Conns -> MsOf(Tubes)] /\ WatchedOnce' /\ CursorsInside' /\ WaitsWhereItWatches'
  BY <1>1, <1>2, <1>3, OwnWatchChanges
<1>5. Sets'
  BY <1>2, <1>4 DEF SetIInv, Sets, Counted
<1>6. WatchersCounted'
  <2> SUFFICES ASSUME NEW t \in Tubes
               PROVE  WatchingCt'[t] = Cardinality(WatchersOf(t)')
    BY DEF WatchersCounted, WatchersOf
  <2>1. WatchingCt'[t] = WatchingCt[t] + IF t = Default THEN 1 ELSE 0
    BY <1>2 DEF Counted
  <2>2. WatchersOf(t)' = IF t = Default THEN WatchersOf(t) \cup {c} ELSE WatchersOf(t)
    <3>1. Has(Watch'[c], t) <=> t = Default
      BY <1>1, <1>2 DEF Has, SetIInv, Sets
    <3>2. \A d \in open : Watch'[d] = Watch[d]
      BY <1>2 DEF SetIInv, Sets
    <3> QED BY <1>2, <3>1, <3>2 DEF WatchersOf
  <2>3. c \notin WatchersOf(t)
    BY <1>2 DEF WatchersOf
  <2>4. CASE t = Default
    BY <2>1, <2>2, <2>3, <2>4, Watchers
  <2>5. CASE t # Default
    <3>1. WatchingCt[t] = Cardinality(WatchersOf(t)) /\ WatchingCt[t] \in Int
      BY Watchers
    <3> QED BY <2>1, <2>2, <2>5, <3>1
  <2> QED BY <2>4, <2>5
<1> QED BY <1>4, <1>5, <1>6 DEF SetIInv

LEMMA WatchKeeps ==
  ASSUME SetIInv, NEW c \in Conns, NEW t \in Tubes, dispatchOpWatch(c, t), settled' \in BOOLEAN
  PROVE  SetIInv'
<1> DEFINE m == MsAppend(Watch[c], t)
<1>1. /\ c \in open /\ c \notin Waiting /\ ~Has(Watch[c], t)
      /\ open' = open /\ Watch' = [Watch EXCEPT ![c] = m]
      /\ WatchingCt' = Counted({t}, 1) /\ UNCHANGED <<Waiting, WaitingConns>>
  BY DEF dispatchOpWatch, Free
<1>2. /\ m \in MsOf(Tubes) /\ Listed(m.items) /\ m.last = 0
      /\ Range(m.items) = Range(Watch[c].items) \cup {t}
  <2>1. Watch[c] \in MsOf(Tubes) /\ Listed(Watch[c].items) /\ Watch[c].last = 0
    BY DEF SetIInv, Sets, WatchedOnce
  <2> QED BY <1>1, <2>1, MsAppendKeeps DEF Has
<1> HIDE DEF m
<1>3. Watch' \in [Conns -> MsOf(Tubes)] /\ WatchedOnce' /\ CursorsInside' /\ WaitsWhereItWatches'
  BY <1>1, <1>2, OwnWatchChanges
<1>4. Sets'
  BY <1>1, <1>3 DEF SetIInv, Sets, Counted
<1>5. WatchersCounted'
  <2> SUFFICES ASSUME NEW u \in Tubes
               PROVE  WatchingCt'[u] = Cardinality(WatchersOf(u)')
    BY DEF WatchersCounted, WatchersOf
  <2>1. WatchingCt'[u] = WatchingCt[u] + IF u = t THEN 1 ELSE 0
    BY <1>1 DEF Counted
  <2>2. WatchersOf(u)' = IF u = t THEN WatchersOf(u) \cup {c} ELSE WatchersOf(u)
    <3>1. Has(Watch'[c], u) <=> u = t \/ Has(Watch[c], u)
      BY <1>1, <1>2 DEF Has, SetIInv, Sets
    <3>2. \A d \in open : d # c => Watch'[d] = Watch[d]
      BY <1>1 DEF SetIInv, Sets
    <3> QED BY <1>1, <3>1, <3>2 DEF WatchersOf
  <2>3. (u = t => c \notin WatchersOf(u))
    BY <1>1 DEF WatchersOf
  <2>4. CASE u = t
    BY <2>1, <2>2, <2>3, <2>4, Watchers
  <2>5. CASE u # t
    <3>1. WatchingCt[u] = Cardinality(WatchersOf(u)) /\ WatchingCt[u] \in Int
      BY Watchers
    <3> QED BY <2>1, <2>2, <2>5, <3>1
  <2> QED BY <2>4, <2>5
<1> QED BY <1>3, <1>4, <1>5 DEF SetIInv

LEMMA IgnoreKeeps ==
  ASSUME SetIInv, NEW c \in Conns, NEW t \in Tubes, dispatchOpIgnore(c, t), settled' \in BOOLEAN
  PROVE  SetIInv'
<1> DEFINE m == MsRemove(Watch[c], t)
<1>1. /\ c \in open /\ c \notin Waiting /\ Has(Watch[c], t)
      /\ open' = open /\ Watch' = [Watch EXCEPT ![c] = m]
      /\ WatchingCt' = Counted({t}, -1) /\ UNCHANGED <<Waiting, WaitingConns>>
  BY DEF dispatchOpIgnore, Free
<1>2. /\ m \in MsOf(Tubes) /\ Listed(m.items) /\ m.last = 0
      /\ Range(m.items) = Range(Watch[c].items) \ {t}
  <2>1. Watch[c] \in MsOf(Tubes) /\ Listed(Watch[c].items) /\ Watch[c].last = 0
    BY DEF SetIInv, Sets, WatchedOnce
  <2> QED BY ZenonT(40), <2>1, RemoveKeeps
<1> HIDE DEF m
<1>3. Watch' \in [Conns -> MsOf(Tubes)] /\ WatchedOnce' /\ CursorsInside' /\ WaitsWhereItWatches'
  BY <1>1, <1>2, OwnWatchChanges
<1>4. Sets'
  BY <1>1, <1>3 DEF SetIInv, Sets, Counted
<1>5. WatchersCounted'
  <2> SUFFICES ASSUME NEW u \in Tubes
               PROVE  WatchingCt'[u] = Cardinality(WatchersOf(u)')
    BY DEF WatchersCounted, WatchersOf
  <2>1. WatchingCt'[u] = WatchingCt[u] - IF u = t THEN 1 ELSE 0
    BY <1>1 DEF Counted, SetIInv, Sets
  <2>2. WatchersOf(u)' = IF u = t THEN WatchersOf(u) \ {c} ELSE WatchersOf(u)
    <3>1. Has(Watch'[c], u) <=> u # t /\ Has(Watch[c], u)
      BY <1>1, <1>2 DEF Has, SetIInv, Sets
    <3>2. \A d \in open : d # c => Watch'[d] = Watch[d]
      BY <1>1 DEF SetIInv, Sets
    <3> QED BY <1>1, <3>1, <3>2 DEF WatchersOf
  <2>3. (u = t => c \in WatchersOf(u))
    BY <1>1 DEF WatchersOf
  <2>4. CASE u = t
    BY <2>1, <2>2, <2>3, <2>4, Watchers
  <2>5. CASE u # t
    <3>1. WatchingCt[u] = Cardinality(WatchersOf(u)) /\ WatchingCt[u] \in Int
      BY Watchers
    <3> QED BY <2>1, <2>2, <2>5, <3>1
  <2> QED BY <2>4, <2>5
<1> QED BY <1>3, <1>4, <1>5 DEF SetIInv

\* reserve of a connection that finds no job puts it into the set of every tube it watches.
LEMMA ReserveKeeps ==
  ASSUME SetIInv, NEW c \in Conns, dispatchOpReserve(c), settled' \in BOOLEAN
  PROVE  SetIInv'
<1>1. /\ c \in open /\ c \notin Waiting /\ Waiting' = Waiting \cup {c}
      /\ WaitingConns' = [t \in Tubes |-> IF Has(Watch[c], t) THEN MsAppend(WaitingConns[t], c)
                                          ELSE WaitingConns[t]]
      /\ UNCHANGED <<open, Watch, WatchingCt>>
  BY DEF dispatchOpReserve, enqueueWaitingConn, Free
<1>2. ASSUME NEW t \in Tubes
      PROVE  /\ WaitingConns'[t] \in MsOf(Conns) /\ WaitingConns'[t].last = WaitingConns[t].last
             /\ Listed(WaitingConns'[t].items)
             /\ Range(WaitingConns'[t].items) =
                  Range(WaitingConns[t].items) \cup (IF Has(Watch[c], t) THEN {c} ELSE {})
  <2>1. /\ WaitingConns[t] \in MsOf(Conns) /\ Listed(WaitingConns[t].items)
        /\ Range(WaitingConns[t].items) = {d \in Waiting : Has(Watch[d], t)}
    BY DEF SetIInv, Sets, WaitsWhereItWatches
  <2>2. c \notin Range(WaitingConns[t].items)
    BY <1>1, <2>1
  <2>3. CASE Has(Watch[c], t)
    <3>1. WaitingConns'[t] = MsAppend(WaitingConns[t], c)
      BY <1>1, <2>3
    <3>2. /\ MsAppend(WaitingConns[t], c) \in MsOf(Conns)
          /\ MsAppend(WaitingConns[t], c).last = WaitingConns[t].last
          /\ Listed(MsAppend(WaitingConns[t], c).items)
          /\ Range(MsAppend(WaitingConns[t], c).items) = Range(WaitingConns[t].items) \cup {c}
      BY ZenonT(40), <2>1, <2>2, MsAppendKeeps
    <3> QED BY <2>3, <3>1, <3>2
  <2>4. CASE ~Has(Watch[c], t)
    BY <1>1, <2>1, <2>4
  <2> QED BY <2>3, <2>4
<1>3. WaitingConns' \in [Tubes -> MsOf(Conns)]
  <2>1. WaitingConns' = [t \in Tubes |-> WaitingConns'[t]]
    BY <1>1
  <2> QED BY <1>2, <2>1
<1>4. Sets'
  BY <1>1, <1>3 DEF SetIInv, Sets
<1>5. WatchedOnce' /\ WatchersCounted'
  BY <1>1 DEF SetIInv, WatchedOnce, WatchersCounted
<1>6. CursorsInside'
  BY <1>2 DEF SetIInv, CursorsInside
<1>7. WaitsWhereItWatches'
  <2> SUFFICES ASSUME NEW t \in Tubes
               PROVE  Range(WaitingConns'[t].items) = {d \in Waiting' : Has(Watch[d], t)}
    BY <1>1, <1>2 DEF WaitsWhereItWatches
  <2>1. Range(WaitingConns'[t].items) =
          {d \in Waiting : Has(Watch[d], t)} \cup (IF Has(Watch[c], t) THEN {c} ELSE {})
    BY <1>2 DEF SetIInv, WaitsWhereItWatches
  <2> QED BY <1>1, <2>1
<1> QED BY <1>4, <1>5, <1>6, <1>7 DEF SetIInv

\* The connection that processQueue takes at the cursor of its tube leaves every other set.
LEMMA ProcessKeeps ==
  ASSUME SetIInv, NEW t \in Tubes, processQueue(t), settled' \in BOOLEAN
  PROVE  SetIInv'
<1> DEFINE c == Taken(WaitingConns[t])
           ws == [WaitingConns EXCEPT ![t] = MsTake(WaitingConns[t])]
<1>1. /\ WaitingConns[t].items # <<>>
      /\ WaitingConns' = removeWaitingCoon(ws, c) /\ Waiting' = Waiting \ {c}
      /\ UNCHANGED <<open, Watch, WatchingCt>>
  BY DEF processQueue
<1>2. /\ WaitingConns \in [Tubes -> MsOf(Conns)]
      /\ \A u \in Tubes : Listed(WaitingConns[u].items) /\ WaitingConns[u].last \in 0..Cardinality(Conns)
  BY DEF SetIInv, Sets, WaitsWhereItWatches, CursorsInside
<1>3. /\ c \in Conns /\ c \in Range(WaitingConns[t].items)
      /\ MsTake(WaitingConns[t]) \in MsOf(Conns)
      /\ MsTake(WaitingConns[t]).last \in 0..Cardinality(Conns)
      /\ Listed(MsTake(WaitingConns[t]).items)
      /\ Range(MsTake(WaitingConns[t]).items) = Range(WaitingConns[t].items) \ {c}
  BY <1>1, <1>2, TakeKeeps
<1>4. /\ ws \in [Tubes -> MsOf(Conns)] /\ ws[t] = MsTake(WaitingConns[t])
      /\ \A u \in Tubes : u # t => ws[u] = WaitingConns[u]
  BY <1>2, <1>3
<1> HIDE DEF c, ws
<1>5. ASSUME NEW u \in Tubes
      PROVE  /\ Listed(ws[u].items)
             /\ Range(ws[u].items) \subseteq Range(WaitingConns[u].items)
             /\ Range(WaitingConns[u].items) \subseteq Range(ws[u].items) \cup {c}
             /\ ws[u].last \in 0..Cardinality(Conns)
  <2>1. CASE u = t
    BY <1>3, <1>4, <2>1
  <2>2. CASE u # t
    BY <1>2, <1>4, <2>2
  <2> QED BY <2>1, <2>2
<1>6. WaitingConns' \in [Tubes -> MsOf(Conns)] /\ CursorsInside' /\ WaitsWhereItWatches'
  BY <1>1, <1>3, <1>4, <1>5, StopsWaiting
<1>7. Sets'
  BY <1>1, <1>6 DEF SetIInv, Sets
<1>8. WatchedOnce' /\ WatchersCounted'
  BY <1>1 DEF SetIInv, WatchedOnce, WatchersCounted
<1> QED BY <1>6, <1>7, <1>8 DEF SetIInv

\* A client that hangs up, or is closed, stops waiting.
LEMMA LeavesWaiting ==
  ASSUME SetIInv, NEW c \in Conns,
         WaitingConns' = removeWaitingCoon(WaitingConns, c), Waiting' = Waiting \ {c},
         \A d \in Conns : d # c => Watch'[d] = Watch[d]
  PROVE  WaitingConns' \in [Tubes -> MsOf(Conns)] /\ CursorsInside' /\ WaitsWhereItWatches'
<1>1. /\ WaitingConns \in [Tubes -> MsOf(Conns)]
      /\ \A u \in Tubes : Listed(WaitingConns[u].items) /\ WaitingConns[u].last \in 0..Cardinality(Conns)
  BY DEF SetIInv, Sets, WaitsWhereItWatches, CursorsInside
<1> QED BY <1>1, StopsWaiting

LEMMA HangupKeeps ==
  ASSUME SetIInv, NEW c \in Conns, hangup(c), settled' \in BOOLEAN
  PROVE  SetIInv'
<1>1. /\ WaitingConns' = removeWaitingCoon(WaitingConns, c) /\ Waiting' = Waiting \ {c}
      /\ UNCHANGED <<open, Watch, WatchingCt>>
  BY DEF hangup
<1>2. WaitingConns' \in [Tubes -> MsOf(Conns)] /\ CursorsInside' /\ WaitsWhereItWatches'
  BY <1>1, LeavesWaiting
<1>3. Sets' /\ WatchedOnce' /\ WatchersCounted'
  BY <1>1, <1>2 DEF SetIInv, Sets, WatchedOnce, WatchersCounted
<1> QED BY <1>2, <1>3 DEF SetIInv

\* connClose clears the Watch, and each tube of it loses the watcher.
LEMMA CloseKeeps ==
  ASSUME SetIInv, NEW c \in Conns, connClose(c), settled' \in BOOLEAN
  PROVE  SetIInv'
<1>1. /\ c \in open /\ open' = open \ {c}
      /\ WaitingConns' = removeWaitingCoon(WaitingConns, c) /\ Waiting' = Waiting \ {c}
      /\ WatchingCt' = Counted(Range(Watch[c].items), -1)
      /\ Watch' = [Watch EXCEPT ![c] = NewMs]
  BY DEF connClose
<1>2. NewMs \in MsOf(Tubes) /\ Listed(NewMs.items) /\ Range(NewMs.items) = {} /\ NewMs.last = 0
  BY NewMsIsEmpty
<1>3. /\ Watch' \in [Conns -> MsOf(Tubes)] /\ Watch'[c] = NewMs
      /\ \A d \in Conns : d # c => Watch'[d] = Watch[d]
  BY <1>1, <1>2 DEF SetIInv, Sets
<1>4. WaitingConns' \in [Tubes -> MsOf(Conns)] /\ CursorsInside' /\ WaitsWhereItWatches'
  BY <1>1, <1>3, LeavesWaiting
<1>5. Sets'
  BY <1>1, <1>3, <1>4 DEF SetIInv, Sets, Counted
<1>6. WatchedOnce'
  BY <1>2, <1>3 DEF SetIInv, WatchedOnce
<1>7. WatchersCounted'
  <2> SUFFICES ASSUME NEW u \in Tubes
               PROVE  WatchingCt'[u] = Cardinality(WatchersOf(u)')
    BY DEF WatchersCounted, WatchersOf
  <2>1. WatchingCt'[u] = WatchingCt[u] - IF Has(Watch[c], u) THEN 1 ELSE 0
    BY <1>1 DEF Counted, SetIInv, Sets, Has
  <2>2. WatchersOf(u)' = WatchersOf(u) \ {c}
    BY <1>1, <1>3 DEF WatchersOf, Has, SetIInv, Sets
  <2>3. c \in WatchersOf(u) <=> Has(Watch[c], u)
    BY <1>1 DEF WatchersOf
  <2>4. CASE Has(Watch[c], u)
    <3>1. Cardinality(WatchersOf(u) \ {c}) = WatchingCt[u] - 1 /\ WatchingCt[u] \in Int
      BY <2>3, <2>4, Watchers
    <3>2. WatchingCt'[u] = WatchingCt[u] - 1
      BY <2>1, <2>4, <3>1
    <3> QED BY <2>2, <3>1, <3>2
  <2>5. CASE ~Has(Watch[c], u)
    <3>1. WatchingCt[u] = Cardinality(WatchersOf(u)) /\ WatchingCt[u] \in Int
      BY Watchers
    <3>2. WatchersOf(u) \ {c} = WatchersOf(u)
      BY <2>3, <2>5
    <3>3. WatchingCt'[u] = WatchingCt[u]
      BY <2>1, <2>5, <3>1
    <3> QED BY <2>2, <3>1, <3>2, <3>3
  <2> QED BY <2>4, <2>5
<1> QED BY <1>4, <1>5, <1>6, <1>7 DEF SetIInv

LEMMA SetsStart ==
  ASSUME Start
  PROVE  SetIInv
<1>1. /\ open = {} /\ Waiting = {} /\ settled = FALSE
      /\ Watch = [c \in Conns |-> NewMs] /\ WaitingConns = [t \in Tubes |-> NewMs]
      /\ WatchingCt = [t \in Tubes |-> 0]
  BY DEF Start
<1>2. \A S : NewMs \in MsOf(S) /\ Listed(NewMs.items) /\ Range(NewMs.items) = {} /\ NewMs.last = 0
  BY NewMsIsEmpty
<1>3. Sets
  <2>1. Watch \in [Conns -> MsOf(Tubes)]
    <3> HIDE DEF NewMs
    <3> QED BY <1>1, <1>2
  <2>2. WaitingConns \in [Tubes -> MsOf(Conns)]
    BY <1>1, <1>2
  <2>3. WatchingCt \in [Tubes -> Int]
    BY <1>1
  <2>4. open \subseteq Conns /\ Waiting \subseteq open /\ settled \in BOOLEAN
    BY <1>1
  <2> QED BY <2>1, <2>2, <2>3, <2>4 DEF Sets
<1>4. WatchedOnce
  BY <1>1, <1>2 DEF WatchedOnce
<1>5. CursorsInside
  <2>1. Cardinality(Conns) \in Nat
    BY TubeAssumption, FS_CardinalityType
  <2> QED BY <1>1, <1>2, <2>1 DEF CursorsInside
<1>6. WaitsWhereItWatches
  BY <1>1, <1>2 DEF WaitsWhereItWatches
<1>7. WatchersCounted
  BY <1>1, FS_EmptySet DEF WatchersCounted
<1> QED BY <1>3, <1>4, <1>5, <1>6, <1>7 DEF SetIInv

LEMMA SetsStand ==
  ASSUME SetIInv, UNCHANGED queueVars, settled' \in BOOLEAN
  PROVE  SetIInv'
  BY DEF SetIInv, Sets, WatchedOnce, CursorsInside, WaitsWhereItWatches, WatchersCounted, queueVars

-----------------------------------------------------------------------------
\* Whatever the connections do, the sets keep their invariant.
THEOREM SetsStaySound == SetSpec => []SetIInv
<1>1. Start => SetIInv
  BY SetsStart
<1>2. SetIInv /\ [SetNext]_setVars => SetIInv'
  <2> SUFFICES ASSUME SetIInv, [SetNext]_setVars PROVE SetIInv'
    OBVIOUS
  <2>0. settled \in BOOLEAN
    BY DEF SetIInv, Sets
  <2>1. ASSUME Unsettled, UNCHANGED settled PROVE SetIInv'
    <3>0. settled' \in BOOLEAN
      BY <2>0, <2>1
    <3>1. ASSUME NEW c \in Conns, NewConn(c) PROVE SetIInv'
      BY <3>0, <3>1, NewConnKeeps
    <3>2. ASSUME NEW c \in Conns, dispatchOpReserve(c) PROVE SetIInv'
      BY <3>0, <3>2, ReserveKeeps
    <3>3. ASSUME NEW c \in Conns, hangup(c) PROVE SetIInv'
      BY <3>0, <3>3, HangupKeeps
    <3>4. ASSUME NEW c \in Conns, connClose(c) PROVE SetIInv'
      BY <3>0, <3>4, CloseKeeps
    <3>5. ASSUME NEW c \in Conns, NEW t \in Tubes, dispatchOpWatch(c, t) PROVE SetIInv'
      BY <3>0, <3>5, WatchKeeps
    <3>6. ASSUME NEW c \in Conns, NEW t \in Tubes, dispatchOpIgnore(c, t) PROVE SetIInv'
      BY <3>0, <3>6, IgnoreKeeps
    <3>7. ASSUME NEW t \in Tubes, processQueue(t) PROVE SetIInv'
      BY <3>0, <3>7, ProcessKeeps
    <3> QED BY <2>1, <3>1, <3>2, <3>3, <3>4, <3>5, <3>6, <3>7 DEF Unsettled
  <2>2. CASE Settle
    BY <2>2, SetsStand DEF Settle
  <2>3. ASSUME NEW c \in Conns, Again(c), UNCHANGED settled PROVE SetIInv'
    BY <2>0, <2>3, ReserveKeeps DEF Again
  <2>4. ASSUME NEW t \in Tubes, Arrive(t), UNCHANGED settled PROVE SetIInv'
    BY <2>0, <2>4, ProcessKeeps DEF Arrive
  <2>5. CASE UNCHANGED setVars
    <3>1. UNCHANGED queueVars /\ settled' \in BOOLEAN
      BY <2>0, <2>5 DEF setVars
    <3> QED BY <3>1, SetsStand
  <2> QED BY <2>1, <2>2, <2>3, <2>4, <2>5 DEF SetNext
<1> QED BY <1>1, <1>2, PTL DEF SetSpec

\* A connection is in the waiting set of a tube just when it waits and watches it, and once:
\* a job is never given to a connection through a copy that reserve left in another set.
THEOREM WaitsWhereWatched == SetSpec => []WaitsWhereItWatches
<1>1. SetIInv => WaitsWhereItWatches
  BY DEF SetIInv
<1> QED BY <1>1, SetsStaySound, PTL

\* The cursors stay within the sets, and WatchingCt, which onWatch and onIgnore count up and
\* down, is the number of the connections that watch the tube.
THEOREM SetsAreSound == SetSpec => []SetInv
<1>1. ASSUME SetIInv PROVE SetInv
  <2>1. \A c \in Conns : Range(Watch[c].items) \subseteq Tubes
    <3> SUFFICES ASSUME NEW c \in Conns PROVE Range(Watch[c].items) \subseteq Tubes
      OBVIOUS
    <3>1. Watch[c].items \in Seq(Tubes)
      BY <1>1 DEF SetIInv, Sets, MsOf
    <3> QED BY <3>1, RangeOfSeq
  <2>2. \A t \in Tubes : Range(WaitingConns[t].items) \subseteq Conns
    <3> SUFFICES ASSUME NEW t \in Tubes PROVE Range(WaitingConns[t].items) \subseteq Conns
      OBVIOUS
    <3>1. WaitingConns[t].items \in Seq(Conns)
      BY <1>1 DEF SetIInv, Sets, MsOf
    <3> QED BY <3>1, RangeOfSeq
  <2>3. SetTypeOK
    BY <1>1, <2>1, <2>2 DEF SetIInv, Sets, WatchedOnce, CursorsInside, SetTypeOK
  <2> QED BY <1>1, <2>3 DEF SetIInv, SetInv
<1>2. SetIInv => SetInv
  BY <1>1
<1> QED BY <1>2, SetsStaySound, PTL
=============================================================================
