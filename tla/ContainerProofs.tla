-------------------------- MODULE ContainerProofs --------------------------
(***************************************************************************)
(* The containers of jobs, each by itself: theorems about the heap (Heap)  *)
(* and about the linked lists (JobLists), which share no state.            *)
(*                                                                         *)
(* The heap of structure/heap.go for any set of items: after any sequence  *)
(* of Push and Remove it holds what was put in, in the order of a heap,    *)
(* and every item knows its place.                                         *)
(*                                                                         *)
(* The properties speak of the time between two operations.  The inductive *)
(* invariant HeapInv says what the library's loops keep meanwhile: the     *)
(* order is broken at most at the item that moves, whose children are      *)
(* still in order with its parent, and the item that is removed waits      *)
(* beyond the part that is being put in order.                             *)
(*                                                                         *)
(* The lists of JobLists stay rings for any number of jobs and             *)
(* connections: the links forth and back are inverse to each other after   *)
(* every JobListInsert and JobListRemove, the swapped call of BuryJob      *)
(* included, no link leads from one list into another, and a walk along    *)
(* the list of a connection meets just the jobs that it holds.             *)
(***************************************************************************)
EXTENDS Heap, JobLists, SequenceTheorems, FiniteSetTheorems, WellFoundedInduction, TLAPS

(* The heap.                                                               *)

Above(i) == i \div 2

\* The array and the index of each item are inverse to each other.
Indexed ==
  /\ \A i \in 1..Len(items) : index[items[i]] = i
  /\ \A x \in Items : index[x] # 0 => items[index[x]] = x

\* While an item is removed it is the last one, beyond the part that is put in order.
Parted ==
  /\ op \in {"idle", "up"} => members = Elems(items)
  /\ op \in {"down", "upagain", "pop"} =>
       /\ items # <<>> /\ lim = Len(items) - 1
       /\ members = Elems(items) \ {items[Len(items)]}
  /\ op = "up" => lim = Len(items) /\ at \in 1..lim
  /\ op \in {"down", "upagain"} => at \in 1..lim
  /\ op = "down" => from \in 1..at

\* No item comes before its parent, but where the item at `at' has still to rise or sink;
\* there its children do not come before its parent.
Edge(i) == ~Less(i, Above(i))
Bridged(i) == Above(i) = at /\ at > 1 => ~Less(i, Above(at))

Sorted ==
  /\ op = "idle" => \A i \in 2..Len(items) : Edge(i)
  /\ op = "pop" => \A i \in 2..lim : Edge(i)
  /\ op \in {"up", "upagain"} => \A i \in 2..lim : (i # at => Edge(i)) /\ Bridged(i)
  /\ op = "down" => /\ \A i \in 2..lim : (i # at /\ Above(i) # at => Edge(i)) /\ Bridged(i)
                    /\ at > from => Edge(at)

HeapInv == HeapTypeOK /\ Indexed /\ Parted /\ Sorted

-----------------------------------------------------------------------------
\* The parent of a position lies before it, and its children are known.
LEMMA ParentBefore ==
  ASSUME NEW i \in Nat, i > 1
  PROVE  Above(i) \in 1..(i - 1)
  BY DEF Above

LEMMA Children ==
  ASSUME NEW i \in Nat, NEW k \in Nat
  PROVE  Above(i) = k <=> i = 2 * k \/ i = 2 * k + 1
  BY DEF Above

LEMMA TypeFacts ==
  ASSUME HeapTypeOK
  PROVE  /\ Len(items) \in Nat /\ items \in [1..Len(items) -> Items]
         /\ \A i \in 1..Len(items) : items[i] \in Items /\ items[i] \in Int
         /\ index \in [Items -> 0..Len(items)]
         /\ at \in Nat /\ from \in Nat /\ lim \in Nat
  BY ItemsAssumption, LenProperties DEF HeapTypeOK

\* mHeap.Swap exchanges two items, and nothing else.
LEMMA SwapItems ==
  ASSUME HeapTypeOK, Indexed, NEW i \in 1..Len(items), NEW k \in 1..Len(items), i # k, Swap(i, k)
  PROVE  /\ items' \in Seq(Items) /\ Len(items') = Len(items)
         /\ \A p \in 1..Len(items) :
              items'[p] = IF p = i THEN items[k] ELSE IF p = k THEN items[i] ELSE items[p]
         /\ index' \in [Items -> 0..Len(items)]
         /\ Indexed' /\ Elems(items') = Elems(items)
<1>1. /\ items \in Seq(Items) /\ items[i] \in Items /\ items[k] \in Items
      /\ index \in [Items -> 0..Len(items)] /\ Len(items) \in Nat
      /\ items' = [items EXCEPT ![i] = items[k], ![k] = items[i]]
      /\ index' = [index EXCEPT ![items[i]] = k, ![items[k]] = i]
  BY TypeFacts DEF HeapTypeOK, Swap
<1> DEFINE s == [items EXCEPT ![i] = items[k]]
<1>2. /\ s \in Seq(Items) /\ Len(s) = Len(items)
      /\ \A p \in 1..Len(items) : s[p] = IF p = i THEN items[k] ELSE items[p]
  BY <1>1, ExceptSeq
<1>3. items' = [s EXCEPT ![k] = items[i]]
  BY <1>1
<1> HIDE DEF s
<1>4. /\ items' \in Seq(Items) /\ Len(items') = Len(items)
      /\ \A p \in 1..Len(items) : items'[p] = IF p = k THEN items[i] ELSE s[p]
  <2>1. s \in Seq(Items) /\ k \in 1..Len(s) /\ items[i] \in Items
    BY <1>1, <1>2
  <2>2. /\ [s EXCEPT ![k] = items[i]] \in Seq(Items)
        /\ Len([s EXCEPT ![k] = items[i]]) = Len(s)
        /\ \A p \in 1..Len(s) : [s EXCEPT ![k] = items[i]][p] = IF p = k THEN items[i] ELSE s[p]
    BY <2>1, ExceptSeq
  <2> QED BY <1>2, <1>3, <2>2
<1>5. \A p \in 1..Len(items) :
        items'[p] = IF p = i THEN items[k] ELSE IF p = k THEN items[i] ELSE items[p]
  BY <1>2, <1>4
<1>6. \A p \in 1..Len(items) : items[p] \in Items
  BY TypeFacts
<1>7. items[i] # items[k]
  BY DEF Indexed
<1>8. \A x \in Items : index'[x] = IF x = items[i] THEN k ELSE IF x = items[k] THEN i ELSE index[x]
  BY <1>1, <1>7
<1>9. index' \in [Items -> 0..Len(items)]
  BY <1>1
<1>10. Indexed'
  <2>1. \A p \in 1..Len(items) : index'[items'[p]] = p
    BY <1>5, <1>6, <1>7, <1>8 DEF Indexed
  <2>2. \A x \in Items : index'[x] # 0 => items'[index'[x]] = x
    BY <1>1, <1>5, <1>7, <1>8 DEF Indexed
  <2> QED BY <1>4, <2>1, <2>2 DEF Indexed
<1>11. Elems(items') = Elems(items)
  BY <1>4, <1>5 DEF Elems
<1> QED BY <1>4, <1>5, <1>9, <1>10, <1>11
-----------------------------------------------------------------------------
(***************************************************************************)
(* The order.  An exchange is described by what it does to the items.      *)
(***************************************************************************)

\* The item at `at' rises: it changes places with its parent.
LEMMA RiseSorts ==
  ASSUME HeapTypeOK, Indexed, lim \in 0..Len(items), at \in 1..lim, at > 1, Less(at, Above(at)),
         \A i \in 2..lim : (i # at => Edge(i)) /\ Bridged(i),
         Swap(at, Above(at)), at' = Above(at)
  PROVE  \A i \in 2..lim : (i # at' => Edge(i)') /\ Bridged(i)'
<1> DEFINE p == Above(at)
<1>0. p \in 1..(at - 1) /\ at \in Nat /\ lim \in Nat /\ Len(items) \in Nat
  BY ParentBefore, TypeFacts
<1>1. \A i \in 1..lim : items[i] \in Int
  BY <1>0, TypeFacts
<1>2. \A i \in 1..lim : items'[i] = IF i = at THEN items[p] ELSE IF i = p THEN items[at] ELSE items[i]
  <2>1. Swap(at, p)
    OBVIOUS
  <2> HIDE DEF p
  <2>2. at \in 1..Len(items) /\ p \in 1..Len(items) /\ at # p /\ 1..lim \subseteq 1..Len(items)
    BY <1>0
  <2>3. \A j \in 1..Len(items) :
          items'[j] = IF j = at THEN items[p] ELSE IF j = p THEN items[at] ELSE items[j]
    BY <2>1, <2>2, SwapItems
  <2> QED BY <2>2, <2>3
<1> SUFFICES ASSUME NEW i \in 2..lim PROVE (i # p => Edge(i)') /\ Bridged(i)'
  OBVIOUS
<1> DEFINE q == Above(i)
<1>a. i \in Nat /\ i > 1
  BY <1>0
<1>3. q \in 1..(i - 1) /\ i \in 1..lim /\ q \in 1..lim /\ p \in 1..lim /\ at \in 1..lim
  BY <1>0, <1>a, ParentBefore
<1>b. ASSUME p > 1 PROVE Above(p) \in 1..(p - 1) /\ Above(p) \in 1..lim
  <2>1. p \in Nat
    BY <1>0
  <2>2. Above(p) \in 1..(p - 1)
    BY <1>b, <2>1, ParentBefore
  <2> HIDE DEF p
  <2> QED BY <1>0, <2>2
<1>4. /\ i # at => items[i] >= items[q]
      /\ q = at => items[i] >= items[p]
      /\ items[at] < items[p]
  BY <1>0, <1>1, <1>3 DEF Edge, Bridged, Less
<1>5. i # p => items'[i] >= items'[q]
  BY SMTT(20), <1>0, <1>1, <1>2, <1>3, <1>4
<1>6. ASSUME q = p, p > 1 PROVE items'[i] >= items'[Above(p)]
  <2> DEFINE r == Above(p)
  <2>1. r \in 1..(p - 1) /\ r \in 1..lim
    BY <1>b, <1>6
  <2>2. items[p] >= items[r]
    BY <1>0, <1>1, <1>3, <1>6, <2>1 DEF Edge, Less
  <2>3. items'[r] = items[r]
    BY <1>0, <1>2, <2>1
  <2>4. items'[i] >= items[p]
    BY <1>0, <1>1, <1>2, <1>3, <1>4, <1>6
  <2>5. items'[i] \in Int /\ items[p] \in Int /\ items[r] \in Int
    BY <1>1, <1>2, <1>3, <2>1
  <2> HIDE DEF r
  <2>6. items'[i] >= items'[r]
    BY <2>2, <2>3, <2>4, <2>5
  <2> QED BY <2>6 DEF r
<1>7. items'[i] \in Int /\ items'[q] \in Int /\ (p > 1 => items'[Above(p)] \in Int)
  BY <1>b, <1>1, <1>2, <1>3
<1>8. i # p => Edge(i)'
  BY <1>5, <1>7 DEF Edge, Less
<1>9. Bridged(i)'
  BY <1>6, <1>7 DEF Bridged, Less
<1> QED BY <1>8, <1>9

\* The item at `at' sinks: it changes places with the lesser of its children.
LEMMA LesserChildFacts ==
  ASSUME HeapTypeOK, lim \in 0..Len(items), at \in 1..lim, 2 * at <= lim
  PROVE  /\ LesserChild(at, lim) \in (at + 1)..lim
         /\ Above(LesserChild(at, lim)) = at
         /\ \A i \in 2..lim : Above(i) = at => items[i] >= items[LesserChild(at, lim)]
<1>0. at \in Nat /\ lim \in Nat /\ Len(items) \in Nat /\ at >= 1
  BY TypeFacts
<1>1. \A i \in 1..lim : items[i] \in Int
  BY <1>0, TypeFacts
<1> DEFINE k == LesserChild(at, lim)
<1>2. k = IF 2 * at + 1 <= lim /\ items[2 * at + 1] < items[2 * at] THEN 2 * at + 1 ELSE 2 * at
  BY DEF LesserChild, Less
<1> HIDE DEF k
<1>3. k \in (at + 1)..lim /\ k \in Nat /\ (k = 2 * at \/ k = 2 * at + 1)
  BY <1>0, <1>2
<1>4. Above(k) = at
  BY <1>0, <1>3, Children
<1>5. ASSUME NEW i \in 2..lim, Above(i) = at PROVE items[i] >= items[k]
  <2>1. i \in Nat /\ (i = 2 * at \/ i = 2 * at + 1)
    BY <1>0, <1>5, Children
  <2>2. items[2 * at] \in Int /\ (2 * at + 1 <= lim => items[2 * at + 1] \in Int)
    BY <1>0, <1>1
  <2> QED BY <1>0, <1>2, <2>1, <2>2
<1> QED BY <1>3, <1>4, <1>5 DEF k

LEMMA SinkSorts ==
  ASSUME HeapTypeOK, Indexed, lim \in 0..Len(items), at \in 1..lim, 2 * at <= lim,
         \A i \in 2..lim : (i # at /\ Above(i) # at => Edge(i)) /\ Bridged(i),
         Less(LesserChild(at, lim), at), Swap(at, LesserChild(at, lim)), at' = LesserChild(at, lim)
  PROVE  /\ \A i \in 2..lim : (i # at' /\ Above(i) # at' => Edge(i)') /\ Bridged(i)'
         /\ Edge(at)'
<1> DEFINE k == LesserChild(at, lim)
<1>0. /\ k \in (at + 1)..lim /\ Above(k) = at /\ k # at
      /\ \A i \in 2..lim : Above(i) = at => items[i] >= items[k]
      /\ at \in Nat /\ k \in Nat /\ lim \in Nat /\ Len(items) \in Nat
      /\ at \in 1..lim /\ k \in 1..lim
  BY LesserChildFacts, TypeFacts
<1>1. \A i \in 1..lim : items[i] \in Int
  BY <1>0, TypeFacts
<1>2. \A i \in 1..lim : items'[i] = IF i = at THEN items[k] ELSE IF i = k THEN items[at] ELSE items[i]
  <2>1. Swap(at, k)
    OBVIOUS
  <2> HIDE DEF k
  <2>2. at \in 1..Len(items) /\ k \in 1..Len(items) /\ at # k /\ 1..lim \subseteq 1..Len(items)
    BY <1>0
  <2>3. \A p \in 1..Len(items) :
          items'[p] = IF p = at THEN items[k] ELSE IF p = k THEN items[at] ELSE items[p]
    BY <2>1, <2>2, SwapItems
  <2> QED BY <2>2, <2>3
<1>3. items[k] < items[at] /\ at' = k
  BY DEF Less
<1> HIDE DEF k
<1>4. \A i \in 1..lim : items'[i] \in Int
  BY <1>0, <1>1, <1>2
<1>5. Edge(at)'
  <2>1. items'[k] >= items'[at] /\ items'[k] \in Int /\ items'[at] \in Int
    BY <1>0, <1>1, <1>2, <1>3, <1>4
  <2>2. Above(at') = at
    BY <1>0, <1>3
  <2> QED BY <1>3, <2>1, <2>2 DEF Edge, Less, Above
<1>6. ASSUME NEW i \in 2..lim PROVE (i # k /\ Above(i) # k => Edge(i)') /\ Bridged(i)'
  <2> DEFINE q == Above(i)
  <2>1. i \in Nat /\ i > 1 /\ i \in 1..lim
    BY <1>0
  <2>2. q \in 1..(i - 1) /\ q \in 1..lim
    BY <1>0, <2>1, ParentBefore
  <2>3. /\ i # at /\ q # at => items[i] >= items[q]
        /\ q = at => items[i] >= items[k]
    BY <1>0, <1>1, <2>1, <2>2 DEF Edge, Less
  <2>4. at > 1 => items[k] >= items[Above(at)] /\ Above(at) \in 1..lim /\ Above(at) # at
    <3>1. k \in 2..lim
      BY <1>0
    <3>2. at > 1 => Above(at) \in 1..(at - 1)
      BY <1>0, ParentBefore
    <3>3. Bridged(k)
      BY <3>1
    <3>4. at > 1 => Above(at) \in 1..lim
      BY <1>0, <3>2
    <3> QED BY <1>0, <1>1, <3>2, <3>3, <3>4 DEF Bridged, Less
  <2>5. i = at => q = Above(at)
    OBVIOUS
  <2> HIDE DEF q
  <2>6. i # k /\ q # k => items'[i] >= items'[q]
    <3>1. CASE q = at
      BY <1>0, <1>2, <2>1, <2>2, <2>3, <3>1
    <3>2. CASE q # at /\ i = at
      BY <1>0, <1>2, <2>1, <2>2, <2>4, <2>5, <3>2
    <3>3. CASE q # at /\ i # at
      BY <1>0, <1>2, <2>1, <2>2, <2>3, <3>3
    <3> QED BY <3>1, <3>2, <3>3
  <2>7. q = k => items'[i] >= items'[at]
    BY <1>0, <1>2, <2>1, <2>2, <2>3
  <2>8. items'[i] \in Int /\ items'[q] \in Int /\ items'[at] \in Int
    BY <1>0, <1>4, <2>1, <2>2
  <2>9. i # k /\ q # k => Edge(i)'
    BY <2>6, <2>8 DEF Edge, Less, q
  <2>10. Bridged(i)'
    BY <1>0, <1>3, <2>7, <2>8 DEF Bridged, Less, q
  <2> QED BY <2>9, <2>10 DEF q
<1> QED BY <1>3, <1>5, <1>6

\* Where neither child comes before the item at `at', the part of the array is in order
\* below it, and above it if the item came from above.
LEMMA SunkSorts ==
  ASSUME HeapTypeOK, lim \in 0..Len(items), at \in 1..lim,
         \A i \in 2..lim : (i # at /\ Above(i) # at => Edge(i)) /\ Bridged(i),
         ~(2 * at <= lim /\ Less(LesserChild(at, lim), at))
  PROVE  \A i \in 2..lim : (i # at => Edge(i)) /\ Bridged(i)
<1>0. at \in Nat /\ lim \in Nat /\ Len(items) \in Nat /\ at \in 1..lim /\ at >= 1
  BY TypeFacts
<1>1. \A i \in 1..lim : items[i] \in Int
  BY <1>0, TypeFacts
<1> SUFFICES ASSUME NEW i \in 2..lim, i # at, Above(i) = at PROVE Edge(i)
  OBVIOUS
<1>2. i \in Nat /\ (i = 2 * at \/ i = 2 * at + 1) /\ i \in 1..lim
  BY <1>0, Children
<1>3. 2 * at <= lim
  BY <1>0, <1>2
<1> DEFINE k == LesserChild(at, lim)
<1>4. k \in 1..lim /\ items[i] >= items[k]
  BY <1>0, <1>3, LesserChildFacts
<1>5. ~(items[k] < items[at])
  BY <1>3 DEF Less
<1> HIDE DEF k
<1>6. items[i] >= items[at] /\ items[i] \in Int /\ items[at] \in Int
  BY <1>0, <1>1, <1>2, <1>4, <1>5
<1> QED BY <1>6 DEF Edge, Less

\* Where the item at `at' does not come before its parent, the part is in order.
LEMMA RisenSorts ==
  ASSUME HeapTypeOK, lim \in 0..Len(items), at \in 1..lim,
         \A i \in 2..lim : (i # at => Edge(i)) /\ Bridged(i),
         ~(at > 1 /\ Less(at, Above(at)))
  PROVE  \A i \in 2..lim : Edge(i)
  BY DEF Edge
-----------------------------------------------------------------------------
(***************************************************************************)
(* Every step keeps the inductive invariant.                               *)
(***************************************************************************)

LEMMA PushKeeps ==
  ASSUME HeapInv, NEW x \in Items, Push(x)
  PROVE  HeapInv'
<1> DEFINE n == Len(items)
<1>0. /\ n \in Nat /\ items \in Seq(Items) /\ index \in [Items -> 0..n] /\ members \subseteq Items
      /\ \A i \in 1..n : items[i] \in Items /\ items[i] \in Int
      /\ op = "idle" /\ x \notin Elems(items)
  BY TypeFacts DEF HeapInv, HeapTypeOK, Push
<1>1. /\ items' = Append(items, x) /\ index' = [index EXCEPT ![x] = n + 1] /\ op' = "up"
      /\ at' = n + 1 /\ lim' = n + 1 /\ from' = 0 /\ members' = members \cup {x}
  BY DEF Push
<1>2. /\ items' \in Seq(Items) /\ Len(items') = n + 1
      /\ \A i \in 1..n : items'[i] = items[i]
      /\ items'[n + 1] = x
  BY <1>0, <1>1, AppendProperties
<1>3. \A i \in 1..n : items[i] # x
  BY <1>0 DEF Elems
<1>a. /\ \A i \in 1..n : index[items[i]] = i
      /\ \A y \in Items : index[y] \in 0..n /\ (index[y] # 0 => items[index[y]] = y)
  BY <1>0 DEF HeapInv, Indexed
<1> HIDE DEF n
<1>4. HeapTypeOK'
  <2>1. index' \in [Items -> 0..(n + 1)]
    BY <1>0, <1>1
  <2> QED BY <1>0, <1>1, <1>2, <2>1 DEF HeapTypeOK
<1>5. Indexed'
  <2>1. \A y \in Items : index'[y] = IF y = x THEN n + 1 ELSE index[y]
    BY <1>0, <1>1
  <2>2. \A i \in 1..(n + 1) : index'[items'[i]] = i
    <3>1. \A i \in 1..n : index'[items'[i]] = i
      BY <1>0, <1>2, <1>3, <1>a, <2>1
    <3>2. index'[items'[n + 1]] = n + 1
      BY <1>2, <2>1
    <3> QED BY <1>0, <3>1, <3>2
  <2>3. \A y \in Items : index'[y] # 0 => items'[index'[y]] = y
    <3> SUFFICES ASSUME NEW y \in Items, index'[y] # 0 PROVE items'[index'[y]] = y
      OBVIOUS
    <3>1. CASE y = x
      BY <1>2, <2>1, <3>1
    <3>2. CASE y # x
      <4>1. index'[y] = index[y] /\ index[y] \in 1..n
        BY <1>0, <1>a, <2>1, <3>2
      <4> QED BY <1>2, <1>a, <4>1
    <3> QED BY <3>1, <3>2
  <2> QED BY <1>2, <2>2, <2>3 DEF Indexed
<1>6. Parted'
  <2>1. Elems(items') = Elems(items) \cup {x}
    <3>1. \A y : y \in Elems(items') <=> \E p \in 1..(n + 1) : y = items'[p]
      BY <1>2 DEF Elems
    <3>2. \A y : y \in Elems(items) <=> \E p \in 1..n : y = items[p]
      BY DEF Elems, n
    <3>3. \A p \in 1..(n + 1) : p \in 1..n \/ p = n + 1
      BY <1>0
    <3>4. \A p \in 1..n : p \in 1..(n + 1)
      BY <1>0
    <3>5. n + 1 \in 1..(n + 1)
      BY <1>0
    <3>6. ASSUME NEW y PROVE y \in Elems(items') <=> y \in Elems(items) \cup {x}
      BY <1>2, <3>1, <3>2, <3>3, <3>4, <3>5
    <3> QED BY <3>6
  <2>2. members = Elems(items)
    BY <1>0 DEF HeapInv, Parted
  <2> QED BY <1>0, <1>1, <1>2, <2>1, <2>2 DEF Parted
<1>7. Sorted'
  <2>1. ASSUME NEW i \in 2..(n + 1) PROVE (i # n + 1 => Edge(i)') /\ Bridged(i)'
    <3>1. i \in Nat /\ i > 1 /\ n + 1 \in Nat
      BY <1>0
    <3>2. Above(i) \in 1..(i - 1)
      BY <3>1, ParentBefore
    <3>3. Above(i) # n + 1
      BY <1>0, <3>1, <3>2
    <3>4. ASSUME i # n + 1 PROVE Edge(i)'
      <4>1. i \in 2..n /\ i \in 1..n /\ Above(i) \in 1..n
        BY <1>0, <3>1, <3>2, <3>4
      <4>2. Edge(i)
        BY <1>0, <4>1 DEF HeapInv, Sorted, n
      <4> QED BY <1>2, <4>1, <4>2 DEF Edge, Less
    <3> QED BY <1>1, <3>3, <3>4 DEF Bridged
  <2> QED BY <1>1, <2>1 DEF Sorted
<1> QED BY <1>4, <1>5, <1>6, <1>7 DEF HeapInv

\* The item that takes the place i may be less than its parent, or greater than its
\* children; the rest of the array is in order.
LEMMA RemoveKeeps ==
  ASSUME HeapInv, NEW i \in 1..Len(items), Remove(i)
  PROVE  HeapInv'
<1> DEFINE n == Len(items)
<1>0. /\ n \in Nat /\ items \in Seq(Items) /\ index \in [Items -> 0..n] /\ members \subseteq Items
      /\ \A p \in 1..n : items[p] \in Items /\ items[p] \in Int
      /\ op = "idle" /\ i \in 1..n /\ members = Elems(items)
      /\ \A p \in 2..n : Edge(p)
  BY TypeFacts DEF HeapInv, HeapTypeOK, Parted, Sorted, Remove, RemoveAt
<1>1. at' = i /\ from' = i /\ lim' = n - 1 /\ members' = members \ {items[i]}
  BY DEF Remove, RemoveAt
<1>2. CASE i = n
  <2>1. items' = items /\ index' = index /\ op' = "pop"
    BY <1>2 DEF Remove, RemoveAt
  <2>2. HeapTypeOK'
    BY <1>0, <1>1, <2>1 DEF HeapTypeOK, n
  <2>3. Indexed'
    BY <2>1 DEF HeapInv, Indexed
  <2>4. Parted'
    BY <1>0, <1>1, <1>2, <2>1, EmptySeq DEF Parted
  <2>5. Sorted'
    <3>1. \A p \in 2..(n - 1) : Edge(p)'
      BY <1>0, <2>1 DEF Edge, Less, n
    <3> QED BY <1>1, <2>1, <3>1 DEF Sorted
  <2> QED BY <2>2, <2>3, <2>4, <2>5 DEF HeapInv
<1>3. CASE i # n
  <2>1. Swap(i, n) /\ op' = "down" /\ n \in 1..n /\ i \in 1..(n - 1)
    BY <1>0, <1>3 DEF Remove, RemoveAt
  <2>2. /\ items' \in Seq(Items) /\ Len(items') = n
        /\ \A p \in 1..n :
             items'[p] = IF p = i THEN items[n] ELSE IF p = n THEN items[i] ELSE items[p]
        /\ index' \in [Items -> 0..n]
        /\ Indexed' /\ Elems(items') = Elems(items)
    BY <1>0, <1>3, <2>1, SwapItems DEF HeapInv
  <2> HIDE DEF n
  <2>3. HeapTypeOK'
    BY <1>0, <1>1, <2>1, <2>2 DEF HeapTypeOK
  <2>4. Parted'
    <3>1. items'[Len(items')] = items[i]
      BY <2>1, <2>2
    <3>2. items' # <<>>
      BY <1>0, <2>1, <2>2, EmptySeq
    <3> QED BY <1>0, <1>1, <2>1, <2>2, <3>1, <3>2 DEF Parted
  <2>5. ASSUME NEW p \in 2..(n - 1) PROVE (p # i /\ Above(p) # i => Edge(p)') /\ Bridged(p)'
    <3> DEFINE q == Above(p)
    <3>1. p \in Nat /\ p > 1 /\ p \in 1..n /\ p # n /\ i \in Nat /\ i # n
      BY <1>0, <2>1
    <3>2. q \in 1..(p - 1)
      BY <3>1, ParentBefore
    <3>3. q \in 1..n /\ q # n /\ q # p
      BY <1>0, <3>1, <3>2
    <3>4. items[p] >= items[q]
      BY <1>0, <3>1, <3>3 DEF Edge, Less
    <3>5. p # i /\ q # i => Edge(p)'
      <4> SUFFICES ASSUME p # i, q # i PROVE ~(items'[p] < items'[q])
        BY DEF Edge, Less
      <4> HIDE DEF q
      <4>1. items'[p] = items[p] /\ items'[q] = items[q]
        BY <2>2, <3>1, <3>3
      <4> QED BY <1>0, <3>1, <3>3, <3>4, <4>1
    <3>6. ASSUME q = i, i > 1 PROVE ~(items'[p] < items'[Above(i)])
      <4> DEFINE r == Above(i)
      <4>1. r \in 1..(i - 1)
        BY <3>1, <3>6, ParentBefore
      <4>2. r \in 1..n /\ r # n /\ r # i
        BY <1>0, <2>1, <4>1
      <4>3. items[i] >= items[r]
        BY <1>0, <2>1, <3>6, <4>2 DEF Edge, Less
      <4> HIDE DEF r
      <4>4. items'[p] = items[p] /\ items'[r] = items[r]
        BY <2>2, <3>1, <3>3, <3>6, <4>2
      <4>5. items[p] \in Int /\ items[i] \in Int /\ items[r] \in Int
        BY <1>0, <3>1, <4>2
      <4> QED BY <3>4, <3>6, <4>3, <4>4, <4>5 DEF r
    <3>7. Bridged(p)'
      BY <1>1, <3>6 DEF Bridged, Less
    <3> QED BY <3>5, <3>7
  <2>6. Sorted'
    BY <1>0, <1>1, <2>1, <2>5 DEF Sorted
  <2> QED BY <2>2, <2>3, <2>4, <2>6 DEF HeapInv
<1> QED BY <1>2, <1>3

\* An exchange within the first lim items leaves the rest of the array alone.
LEMMA SwapKeeps ==
  ASSUME HeapInv, op \in {"up", "down", "upagain"},
         NEW i \in 1..lim, NEW k \in 1..lim, i # k, Swap(i, k),
         at' \in 1..lim, UNCHANGED <<op, from, lim, members>>, op = "down" => from' \in 1..at'
  PROVE  HeapTypeOK' /\ Indexed' /\ Parted'
<1> DEFINE n == Len(items)
<1>0. /\ n \in Nat /\ lim \in 0..n /\ lim \in Nat /\ from \in 0..n
      /\ i \in 1..n /\ k \in 1..n /\ at' \in 1..n
  BY TypeFacts DEF HeapInv, HeapTypeOK
<1>1. /\ items' \in Seq(Items) /\ Len(items') = n
      /\ \A p \in 1..n : items'[p] = IF p = i THEN items[k] ELSE IF p = k THEN items[i] ELSE items[p]
      /\ index' \in [Items -> 0..n]
      /\ Indexed' /\ Elems(items') = Elems(items)
  BY <1>0, SwapItems DEF HeapInv
<1>2. /\ op = "up" => members = Elems(items) /\ lim = n
      /\ op \in {"down", "upagain"} => items # <<>> /\ lim = n - 1 /\ members = Elems(items) \ {items[n]}
  BY DEF HeapInv, Parted
<1> HIDE DEF n
<1>3. HeapTypeOK'
  <2>1. at' \in 0..n /\ from' \in 0..n /\ lim' \in 0..n
    BY <1>0
  <2>2. op' \in {"idle", "up", "down", "upagain", "pop"} /\ members' \subseteq Items
    BY DEF HeapInv, HeapTypeOK
  <2> QED BY <1>1, <2>1, <2>2 DEF HeapTypeOK
<1>4. Parted'
  <2>1. CASE op = "up"
    BY <1>0, <1>1, <1>2, <2>1 DEF Parted
  <2>2. CASE op \in {"down", "upagain"}
    <3>1. n > 0 /\ n \in 1..n /\ n # i /\ n # k
      BY <1>0, <1>2, <2>2
    <3>2. items'[n] = items[n] /\ items' # <<>>
      BY <1>0, <1>1, <3>1, EmptySeq
    <3> QED BY <1>0, <1>1, <1>2, <2>2, <3>2 DEF Parted
  <2> QED BY <2>1, <2>2
<1> QED BY <1>1, <1>3, <1>4

LEMMA UpKeeps ==
  ASSUME HeapInv, Up
  PROVE  HeapInv'
<1>0. /\ lim \in 0..Len(items) /\ at \in 1..lim /\ HeapTypeOK /\ Indexed
      /\ op \in {"up", "upagain"} /\ UNCHANGED <<from, lim, members>>
      /\ \A i \in 2..lim : (i # at => Edge(i)) /\ Bridged(i)
      /\ at \in Nat /\ lim \in Nat
  BY TypeFacts DEF HeapInv, HeapTypeOK, Parted, Sorted, Up
<1>1. CASE at > 1 /\ Less(at, Above(at))
  <2>1. Swap(at, Above(at)) /\ at' = Above(at) /\ op' = op
    BY <1>1 DEF Up, Above
  <2>2. Above(at) \in 1..(at - 1)
    BY <1>0, <1>1, ParentBefore
  <2>3. Above(at) \in 1..lim /\ Above(at) # at
    BY <1>0, <2>2
  <2>4. op \in {"up", "down", "upagain"} /\ op # "down"
    BY <1>0
  <2>5. HeapTypeOK' /\ Indexed' /\ Parted'
    BY <1>0, <2>1, <2>3, <2>4, SwapKeeps
  <2>6. \A i \in 2..lim : (i # at' => Edge(i)') /\ Bridged(i)'
    BY <1>0, <1>1, <2>1, RiseSorts
  <2>7. Sorted'
    BY <1>0, <2>1, <2>6 DEF Sorted
  <2> QED BY <2>5, <2>7 DEF HeapInv
<1>2. CASE ~(at > 1 /\ Less(at, Above(at)))
  <2>1. op' = (IF op = "up" THEN "idle" ELSE "pop") /\ UNCHANGED <<items, index, at>>
    BY <1>2 DEF Up, Above
  <2>2. \A i \in 2..lim : Edge(i)
    BY <1>0, <1>2, RisenSorts
  <2>3. HeapTypeOK'
    BY <1>0, <2>1 DEF HeapTypeOK
  <2>4. Indexed' /\ Parted'
    BY <1>0, <2>1 DEF HeapInv, Indexed, Parted
  <2>5. \A i \in 2..lim : Edge(i)'
    BY <2>1, <2>2 DEF Edge, Less
  <2>6. op = "up" => lim = Len(items)
    BY DEF HeapInv, Parted
  <2>7. Sorted'
    BY <1>0, <2>1, <2>5, <2>6 DEF Sorted
  <2> QED BY <2>3, <2>4, <2>7 DEF HeapInv
<1> QED BY <1>1, <1>2

LEMMA DownKeeps ==
  ASSUME HeapInv, Down
  PROVE  HeapInv'
<1> DEFINE k == LesserChild(at, lim)
<1>0. /\ lim \in 0..Len(items) /\ at \in 1..lim /\ from \in 1..at /\ HeapTypeOK /\ Indexed
      /\ op = "down" /\ UNCHANGED <<from, lim, members>>
      /\ \A i \in 2..lim : (i # at /\ Above(i) # at => Edge(i)) /\ Bridged(i)
      /\ at > from => Edge(at)
      /\ at \in Nat /\ lim \in Nat /\ from \in Nat
  BY TypeFacts DEF HeapInv, HeapTypeOK, Parted, Sorted, Down
<1>1. CASE 2 * at <= lim /\ Less(k, at)
  <2>1. Swap(at, k) /\ at' = k /\ op' = op
    BY <1>1 DEF Down
  <2>2. k \in (at + 1)..lim
    BY <1>0, <1>1, LesserChildFacts
  <2>3. k \in 1..lim /\ k # at /\ from \in 1..k
    BY <1>0, <2>2
  <2>4. /\ \A i \in 2..lim : (i # at' /\ Above(i) # at' => Edge(i)') /\ Bridged(i)'
        /\ Edge(at)'
    BY <1>0, <1>1, <2>1, SinkSorts
  <2> HIDE DEF k
  <2>5. HeapTypeOK' /\ Indexed' /\ Parted'
    <3>1. op \in {"up", "down", "upagain"} /\ at' \in 1..lim /\ from' \in 1..at'
      BY <1>0, <2>1, <2>3
    <3> QED BY <1>0, <2>1, <2>3, <3>1, SwapKeeps
  <2>6. Sorted'
    BY <1>0, <2>1, <2>4 DEF Sorted
  <2> QED BY <2>5, <2>6 DEF HeapInv
<1>2. CASE ~(2 * at <= lim /\ Less(k, at))
  <2>1. op' = (IF at > from THEN "pop" ELSE "upagain") /\ UNCHANGED <<items, index, at>>
    BY <1>2 DEF Down
  <2>2. \A i \in 2..lim : (i # at => Edge(i)) /\ Bridged(i)
    BY <1>0, <1>2, SunkSorts
  <2>3. HeapTypeOK'
    BY <1>0, <2>1 DEF HeapTypeOK
  <2>4. Indexed' /\ Parted'
    BY <1>0, <2>1 DEF HeapInv, Indexed, Parted
  <2>5. \A i \in 2..lim : (i # at => Edge(i)') /\ Bridged(i)'
    BY <2>1, <2>2 DEF Edge, Bridged, Less
  <2>6. at > from => \A i \in 2..lim : Edge(i)'
    BY <1>0, <2>1, <2>5 DEF Edge, Less
  <2>7. Sorted'
    BY <1>0, <2>1, <2>5, <2>6 DEF Sorted
  <2> QED BY <2>3, <2>4, <2>7 DEF HeapInv
<1> QED BY <1>1, <1>2

LEMMA PopKeeps ==
  ASSUME HeapInv, Pop
  PROVE  HeapInv'
<1> DEFINE n == Len(items)
<1>0. /\ n \in Nat /\ items \in Seq(Items) /\ index \in [Items -> 0..n] /\ members \subseteq Items
      /\ \A p \in 1..n : items[p] \in Items /\ index[items[p]] = p
      /\ \A x \in Items : index[x] \in 0..n /\ (index[x] # 0 => items[index[x]] = x)
      /\ op = "pop" /\ items # <<>> /\ lim = n - 1 /\ members = Elems(items) \ {items[n]}
      /\ \A p \in 2..lim : Edge(p)
  BY TypeFacts DEF HeapInv, HeapTypeOK, Indexed, Parted, Sorted, Pop
<1>1. /\ items' = SubSeq(items, 1, n - 1) /\ index' = [index EXCEPT ![items[n]] = 0]
      /\ op' = "idle" /\ at' = 0 /\ from' = 0 /\ lim' = 0 /\ members' = members
  BY DEF Pop
<1>2. n > 0 /\ n \in 1..n
  BY <1>0, EmptySeq
<1>3. /\ items' \in Seq(Items) /\ Len(items') = n - 1
      /\ \A p \in 1..(n - 1) : items'[p] = items[p]
  <2>1. /\ SubSeq(items, 1, n - 1) \in Seq(Items)
        /\ Len(SubSeq(items, 1, n - 1)) = IF 1 <= n - 1 THEN (n - 1) - 1 + 1 ELSE 0
        /\ \A p \in 1..((n - 1) - 1 + 1) : SubSeq(items, 1, n - 1)[p] = items[1 + p - 1]
    <3>1. \A p \in 1..(n - 1) : items[p] \in Items
      BY <1>0
    <3>2. n - 1 \in Int /\ 1 \in Int
      BY <1>0
    <3> HIDE DEF n
    <3> QED BY <3>1, <3>2, SubSeqProperties
  <2> HIDE DEF n
  <2> QED BY <1>0, <1>1, <1>2, <2>1
<1> HIDE DEF n
<1>4. \A x \in Items : index'[x] = IF x = items[n] THEN 0 ELSE index[x]
  BY <1>0, <1>1, <1>2
<1>5. \A x \in Items : x # items[n] => index[x] # n
  BY <1>0, <1>2
<1>6. HeapTypeOK'
  <2>1. \A x \in Items : index'[x] \in 0..(n - 1)
    BY <1>0, <1>2, <1>4, <1>5
  <2>2. index' \in [Items -> 0..(n - 1)]
    BY <1>0, <1>1, <2>1
  <2> QED BY <1>0, <1>1, <1>2, <1>3, <2>2 DEF HeapTypeOK
<1>7. \A p \in 1..(n - 1) : p \in 1..n /\ items[p] # items[n]
  BY <1>0, <1>2
<1>8. Indexed'
  <2>1. \A p \in 1..(n - 1) : index'[items'[p]] = p
    BY <1>0, <1>3, <1>4, <1>7
  <2>2. ASSUME NEW x \in Items, index'[x] # 0 PROVE items'[index'[x]] = x
    <3>1. index'[x] = index[x] /\ index[x] \in 1..(n - 1)
      BY <1>0, <1>2, <1>4, <1>5, <2>2
    <3> QED BY <1>0, <1>3, <3>1
  <2> QED BY <1>3, <2>1, <2>2 DEF Indexed
<1>9. Parted'
  <2>1. \A y : y \in Elems(items') <=> \E p \in 1..(n - 1) : y = items'[p]
    BY <1>3 DEF Elems
  <2>2. \A y : y \in Elems(items) <=> \E p \in 1..n : y = items[p]
    BY DEF Elems, n
  <2>3. \A p \in 1..n : p \in 1..(n - 1) \/ p = n
    BY <1>0
  <2>4. ASSUME NEW y PROVE y \in Elems(items') <=> y \in members
    <3>1. y \in members <=> y # items[n] /\ \E p \in 1..n : y = items[p]
      BY <1>0, <2>2
    <3>2. \A p \in 1..(n - 1) : items'[p] = items[p] /\ p \in 1..n /\ items[p] # items[n]
      BY <1>3, <1>7
    <3> QED BY <2>1, <2>3, <3>1, <3>2
  <2> QED BY <1>1, <2>4 DEF Parted
<1>10. Sorted'
  <2>1. ASSUME NEW p \in 2..(n - 1) PROVE Edge(p)'
    <3>1. p \in Nat /\ p > 1 /\ p \in 1..(n - 1) /\ p \in 2..lim
      BY <1>0
    <3>2. Above(p) \in 1..(p - 1)
      BY <3>1, ParentBefore
    <3>3. Above(p) \in 1..(n - 1)
      BY <1>0, <3>1, <3>2
    <3> QED BY <1>0, <1>3, <3>1, <3>3 DEF Edge, Less
  <2> QED BY <1>1, <1>3, <2>1 DEF Sorted
<1> QED BY <1>6, <1>8, <1>9, <1>10 DEF HeapInv

LEMMA HeapStarts ==
  ASSUME HeapInit
  PROVE  HeapInv
<1>1. Len(items) = 0 /\ items \in Seq(Items) /\ Elems(items) = {}
  BY EmptySeq DEF HeapInit, Elems
<1>2. index = [x \in Items |-> 0] /\ op = "idle" /\ at = 0 /\ from = 0 /\ lim = 0 /\ members = {}
  BY DEF HeapInit
<1>3. HeapTypeOK
  BY <1>1, <1>2 DEF HeapTypeOK
<1> QED BY <1>1, <1>2, <1>3 DEF HeapInv, Indexed, Parted, Sorted

LEMMA HeapStands ==
  ASSUME HeapInv, UNCHANGED heapVars
  PROVE  HeapInv'
  BY DEF HeapInv, HeapTypeOK, Indexed, Parted, Sorted, Edge, Bridged, Less, Above, Elems, heapVars

-----------------------------------------------------------------------------
\* mHeap keeps its invariant whatever is pushed and removed, in whatever order: between
\* the steps of up and down the order is broken at most around the item that moves.
THEOREM HeapStaysInOrder == HeapSpec => []HeapInv
<1>1. HeapInit => HeapInv
  BY HeapStarts
<1>2. HeapInv /\ [HeapNext]_heapVars => HeapInv'
  <2> SUFFICES ASSUME HeapInv, [HeapNext]_heapVars PROVE HeapInv'
    OBVIOUS
  <2>1. CASE Up
    BY <2>1, UpKeeps
  <2>2. CASE Down
    BY <2>2, DownKeeps
  <2>3. CASE Pop
    BY <2>3, PopKeeps
  <2>4. ASSUME NEW x \in Items, Push(x) PROVE HeapInv'
    BY <2>4, PushKeeps
  <2>5. ASSUME NEW i \in 1..Len(items), Remove(i) PROVE HeapInv'
    BY <2>5, RemoveKeeps
  <2>6. CASE UNCHANGED heapVars
    BY <2>6, HeapStands
  <2> QED BY <2>1, <2>2, <2>3, <2>4, <2>5, <2>6 DEF HeapNext, HeapStep
<1> QED BY <1>1, <1>2, PTL DEF HeapSpec

\* Positions always lie in the array, and what it holds are items.
THEOREM HeapTyped == HeapSpec => []HeapTypeOK
<1>1. HeapInv => HeapTypeOK
  BY DEF HeapInv
<1> QED BY <1>1, HeapStaysInOrder, PTL

\* When Push or Remove has returned, no item comes before its parent: for any set of
\* items, whose keys are distinct.
THEOREM HeapIsOrdered == HeapSpec => []HeapOrdered
<1>1. HeapInv => HeapOrdered
  BY DEF HeapInv, Sorted, HeapOrdered, Edge, Above
<1> QED BY <1>1, HeapStaysInOrder, PTL

\* When Push or Remove has returned, the array holds what was pushed and not removed, once.
THEOREM HeapHoldsMembers == HeapSpec => []HoldsMembers
<1>1. HeapInv => HoldsMembers
  BY DEF HeapInv, Indexed, Parted, HoldsMembers
<1> QED BY <1>1, HeapStaysInOrder, PTL

\* When Push or Remove has returned, every item knows its position, and one that is not in
\* the array has none.
THEOREM HeapIndexRight == HeapSpec => []IndexRight
<1>1. ASSUME HeapInv PROVE IndexRight
  <2>1. /\ index \in [Items -> 0..Len(items)] /\ Len(items) \in Nat
        /\ \A i \in 1..Len(items) : index[items[i]] = i
        /\ \A x \in Items : index[x] # 0 => items[index[x]] = x
        /\ op = "idle" => members = Elems(items)
    BY <1>1, TypeFacts DEF HeapInv, Indexed, Parted
  <2> SUFFICES ASSUME op = "idle", NEW x \in Items
               PROVE  IF x \in members THEN index[x] \in 1..Len(items) /\ items[index[x]] = x
                                       ELSE index[x] = 0
    BY DEF IndexRight
  <2>2. x \in members <=> \E i \in 1..Len(items) : x = items[i]
    BY <2>1 DEF Elems
  <2>3. CASE x \in members
    BY <2>1, <2>2, <2>3
  <2>4. CASE x \notin members
    <3>1. index[x] \in 0..Len(items)
      BY <2>1
    <3>2. index[x] # 0 => index[x] \in 1..Len(items)
      BY <2>1, <3>1
    <3> QED BY <2>1, <2>2, <2>4, <3>2
  <2> QED BY <2>3, <2>4
<1> QED BY <1>1, HeapStaysInOrder, PTL

\* A set of numbers that is not empty has a least one.
LEMMA LeastPosition ==
  ASSUME NEW S \in SUBSET Nat, S # {}
  PROVE  \E n \in S : \A m \in S : n <= m
<1>1. PICK n \in S : \A m \in S : <<m, n>> \notin OpToRel(<, Nat)
  BY NatLessThanWellFounded, WFMin
<1>2. \A m \in S : ~(m < n)
  BY <1>1 DEF OpToRel
<1>3. \A m \in S : n \in Nat /\ m \in Nat
  OBVIOUS
<1> QED BY <1>2, <1>3

\* When Push or Remove has returned, no item is less than the first one, which is what
\* Take(0) returns: the first position of a lesser item would have a parent that is lesser too.
THEOREM HeapTakesTheLeast ==
  HeapSpec => [](op = "idle" => \A i \in 1..Len(items) : ~Less(i, 1))
<1>1. ASSUME HeapInv, op = "idle", NEW i \in 1..Len(items) PROVE ~Less(i, 1)
  <2>0. /\ Len(items) \in Nat /\ \A p \in 1..Len(items) : items[p] \in Int
        /\ \A p \in 2..Len(items) : ~Less(p, Above(p))
    BY <1>1, TypeFacts DEF HeapInv, Sorted, Edge
  <2> SUFFICES ASSUME Less(i, 1) PROVE FALSE
    OBVIOUS
  <2> DEFINE S == {p \in 1..Len(items) : Less(p, 1)}
  <2>1. S \in SUBSET Nat /\ S # {}
    BY <2>0
  <2>2. PICK p \in S : \A q \in S : p <= q
    <3> HIDE DEF S
    <3> QED BY <2>1, LeastPosition
  <2>3. p \in 1..Len(items) /\ items[p] < items[1] /\ items[p] \in Int /\ items[1] \in Int
    BY <2>0 DEF Less
  <2>4. p \in Nat /\ p > 1 /\ p \in 2..Len(items)
    BY <2>0, <2>3
  <2> DEFINE q == Above(p)
  <2>5. q \in 1..(p - 1)
    BY <2>4, ParentBefore
  <2>6. ~(items[p] < items[q])
    BY <2>0, <2>4 DEF Less
  <2> HIDE DEF q
  <2>7. q \in 1..Len(items) /\ q < p /\ items[q] \in Int
    BY <2>0, <2>4, <2>5
  <2>8. q \in S
    BY <2>3, <2>6, <2>7 DEF Less
  <2>9. p <= q
    BY <2>2, <2>8
  <2> QED BY <2>4, <2>7, <2>9
<1>2. HeapInv => (op = "idle" => \A i \in 1..Len(items) : ~Less(i, 1))
  BY <1>1
<1> QED BY <1>2, HeapStaysInOrder, PTL

-----------------------------------------------------------------------------
(* The lists.                                                              *)

Linked(l) ==
  /\ l.next \in [Nodes -> Nodes] /\ l.prev \in [Nodes -> Nodes]
  /\ \A n \in Nodes : l.next[l.prev[n]] = n /\ l.prev[l.next[n]] = n

\* JobListInsert keeps rings rings.
LEMMA InsertLinked ==
  ASSUME NEW l, Linked(l), NEW h \in Nodes, NEW n \in Nodes, h # n
  PROVE  Linked(JobListInsert(l, h, n))
<1>1. CASE ~JobListEmpty(l, n)
  BY <1>1 DEF JobListInsert
<1>2. CASE JobListEmpty(l, n)
  <2> DEFINE p  == l.prev[h]
             nx == [[l.next EXCEPT ![n] = h] EXCEPT ![p] = n]
             pv == [[l.prev EXCEPT ![n] = p] EXCEPT ![h] = n]
  <2>1. p \in Nodes /\ p # n /\ l.next[p] = h /\ l.next[n] = n /\ l.prev[n] = n
    BY <1>2 DEF Linked, JobListEmpty
  <2>2. nx \in [Nodes -> Nodes] /\ pv \in [Nodes -> Nodes]
    BY <2>1 DEF Linked
  <2>3. \A m \in Nodes : nx[m] = IF m = p THEN n ELSE IF m = n THEN h ELSE l.next[m]
    BY <2>1 DEF Linked
  <2>4. \A m \in Nodes : pv[m] = IF m = h THEN n ELSE IF m = n THEN p ELSE l.prev[m]
    BY <2>1 DEF Linked
  <2> HIDE DEF nx, pv, p
  <2>5. \A m \in Nodes : nx[pv[m]] = m /\ pv[nx[m]] = m
    <3> SUFFICES ASSUME NEW m \in Nodes PROVE nx[pv[m]] = m /\ pv[nx[m]] = m
      OBVIOUS
    <3>1. l.next[m] \in Nodes /\ l.prev[m] \in Nodes
          /\ l.next[l.prev[m]] = m /\ l.prev[l.next[m]] = m /\ l.prev[l.next[p]] = p
      BY <2>1 DEF Linked
    <3>2. nx[pv[m]] = m
      BY <2>1, <2>3, <2>4, <3>1 DEF p
    <3>3. pv[nx[m]] = m
      BY <2>1, <2>3, <2>4, <3>1
    <3> QED BY <3>2, <3>3
  <2>6. JobListInsert(l, h, n) = [next |-> nx, prev |-> pv]
    BY <1>2 DEF JobListInsert, nx, pv, p
  <2> QED BY <2>2, <2>5, <2>6 DEF Linked
<1> QED BY <1>1, <1>2

\* JobListRemove keeps rings rings.
LEMMA RemoveLinked ==
  ASSUME NEW l, Linked(l), NEW n \in Nodes
  PROVE  Linked(JobListRemove(l, n))
<1>1. CASE JobListEmpty(l, n)
  BY <1>1 DEF JobListRemove
<1>2. CASE ~JobListEmpty(l, n)
  <2> DEFINE p  == l.prev[n]
             s  == l.next[n]
             nx == [[l.next EXCEPT ![p] = s] EXCEPT ![n] = n]
             pv == [[l.prev EXCEPT ![s] = p] EXCEPT ![n] = n]
  <2>1. p \in Nodes /\ s \in Nodes /\ l.next[p] = n /\ l.prev[s] = n
    BY DEF Linked
  <2>2. p # n /\ s # n
    BY <1>2, <2>1 DEF Linked, JobListEmpty
  <2>3. nx \in [Nodes -> Nodes] /\ pv \in [Nodes -> Nodes]
    BY <2>1 DEF Linked
  <2>4. \A m \in Nodes : nx[m] = IF m = n THEN n ELSE IF m = p THEN s ELSE l.next[m]
    BY <2>1 DEF Linked
  <2>5. \A m \in Nodes : pv[m] = IF m = n THEN n ELSE IF m = s THEN p ELSE l.prev[m]
    BY <2>1 DEF Linked
  <2>6. l.prev[n] = p /\ l.next[n] = s
    OBVIOUS
  <2> HIDE DEF nx, pv, p, s
  <2>7. \A m \in Nodes : nx[pv[m]] = m /\ pv[nx[m]] = m
    <3> SUFFICES ASSUME NEW m \in Nodes PROVE nx[pv[m]] = m /\ pv[nx[m]] = m
      OBVIOUS
    <3>1. l.next[m] \in Nodes /\ l.prev[m] \in Nodes
          /\ l.next[l.prev[m]] = m /\ l.prev[l.next[m]] = m
      BY DEF Linked
    <3>2. nx[pv[m]] = m
      BY <2>1, <2>2, <2>4, <2>5, <2>6, <3>1
    <3>3. pv[nx[m]] = m
      BY <2>1, <2>2, <2>4, <2>5, <2>6, <3>1
    <3> QED BY <3>2, <3>3
  <2>8. JobListRemove(l, n) = [next |-> nx, prev |-> pv]
    BY <1>2 DEF JobListRemove, nx, pv, p, s
  <2> QED BY <2>3, <2>7, <2>8 DEF Linked
<1> QED BY <1>1, <1>2

LEMMA ListsLinked ==
  ASSUME ListInv PROVE Linked(Lists)
BY DEF ListInv, ListTypeOK, Ringed, Linked, Lists

LEMMA LinkedNext ==
  ASSUME NEW l, Linked(l), SetLists(l),
         state' \in [Jobs -> {"ready", "reserved", "buried", "gone"}],
         holder' \in [Jobs -> Conns \cup {Buried}]
  PROVE  ListInv'
BY DEF Linked, SetLists, ListInv, ListTypeOK, Ringed

LEMMA InitList == Init => ListInv
BY DEF Init, ListInv, ListTypeOK, Ringed, Nodes

LEMMA ListStep ==
  ASSUME ListInv, ListNext PROVE ListInv'
<1> USE ListsAssumption
<1> USE DEF Nodes
<1>1. Linked(Lists) /\ state \in [Jobs -> {"ready", "reserved", "buried", "gone"}]
      /\ holder \in [Jobs -> Conns \cup {Buried}]
  BY ListsLinked DEF ListInv, ListTypeOK
<1>2. ASSUME NEW j \in Jobs, DeleteBuried(j) PROVE ListInv'
  <2>1. Linked(JobListRemove(Lists, j))
    BY <1>1, RemoveLinked
  <2> QED BY <1>1, <1>2, <2>1, LinkedNext DEF DeleteBuried
<1>3. ASSUME NEW c \in Conns, NEW j \in Jobs,
             Release(c, j) \/ Delete(c, j)
      PROVE  ListInv'
  <2>1. Linked(JobListRemove(Lists, j))
    BY <1>1, RemoveLinked
  <2> QED BY <1>1, <1>3, <2>1, LinkedNext DEF Release, Delete, Ready
<1>4. ASSUME NEW c \in Conns, GiveBack(c) PROVE ListInv'
  <2>1. NextJob[c] \in Nodes
    BY DEF ListInv, ListTypeOK
  <2>2. Linked(JobListRemove(Lists, NextJob[c]))
    BY <1>1, <2>1, RemoveLinked
  <2>3. /\ state' \in [Jobs -> {"ready", "reserved", "buried", "gone"}]
        /\ holder' \in [Jobs -> Conns \cup {Buried}]
    BY <1>1, <1>4 DEF GiveBack, Ready
  <2> QED BY <1>4, <2>2, <2>3, LinkedNext DEF GiveBack
<1>5. ASSUME NEW c \in Conns, NEW j \in Jobs, Reserve(c, j) PROVE ListInv'
  <2>1. Linked(JobListInsert(Lists, c, j))
    BY <1>1, InsertLinked
  <2> QED BY <1>1, <1>5, <2>1, LinkedNext DEF Reserve
<1>6. ASSUME NEW c \in Conns, NEW j \in Jobs, Bury(c, j) PROVE ListInv'
  <2>1. Linked(JobListRemove(Lists, j))
    BY <1>1, RemoveLinked
  <2>2. Linked(JobListInsert(JobListRemove(Lists, j), j, Buried))
    BY <2>1, InsertLinked
  <2> QED BY <1>1, <1>6, <2>2, LinkedNext DEF Bury, BuryJob
<1>7. ASSUME NEW c \in Conns, NEW j \in Jobs, ReserveBuried(c, j) PROVE ListInv'
  <2>1. Linked(JobListRemove(Lists, j))
    BY <1>1, RemoveLinked
  <2>2. Linked(JobListInsert(JobListRemove(Lists, j), c, j))
    BY <2>1, InsertLinked
  <2> QED BY <1>1, <1>7, <2>2, LinkedNext DEF ReserveBuried
<1> QED BY <1>2, <1>3, <1>4, <1>5, <1>6, <1>7 DEF ListNext

\* For any number of jobs and connections the lists of core/job.go are well typed rings: a job
\* can be taken from the middle of whatever list it is in, also after the swapped insertion.
THEOREM ListsAlwaysRinged == ListSpec => []ListInv
<1>1. ListInv /\ [ListNext]_listVars => ListInv'
  <2> SUFFICES ASSUME ListInv, [ListNext]_listVars PROVE ListInv'
    OBVIOUS
  <2>1. CASE ListNext
    BY <2>1, ListStep
  <2>2. CASE UNCHANGED listVars
    BY <2>2 DEF listVars, ListInv, ListTypeOK, Ringed
  <2> QED BY <2>1, <2>2
<1> QED BY InitList, <1>1, PTL DEF ListSpec

-----------------------------------------------------------------------------
(* Links stay within a list.  b says which list a node belongs to. *)

Agree(l, b) == \A n \in Nodes : l.next[n] = n \/ b[l.next[n]] = b[n]

\* What JobListRemove does to the links forth.
LEMMA RemoveNext ==
  ASSUME NEW l, Linked(l), NEW n \in Nodes
  PROVE  LET r == JobListRemove(l, n) IN
         /\ r.next[n] = n
         /\ \A m \in Nodes \ {n} :
              r.next[m] = IF l.next[m] = n THEN l.next[n] ELSE l.next[m]
<1>1. CASE JobListEmpty(l, n)
  BY <1>1 DEF JobListRemove, JobListEmpty, Linked
<1>2. CASE ~JobListEmpty(l, n)
  <2>1. l.prev[n] \in Nodes /\ l.next[l.prev[n]] = n
    BY DEF Linked
  <2>2. \A m \in Nodes : l.next[m] = n <=> m = l.prev[n]
    BY <2>1 DEF Linked
  <2>3. JobListRemove(l, n).next = [[l.next EXCEPT ![l.prev[n]] = l.next[n]] EXCEPT ![n] = n]
    BY <1>2 DEF JobListRemove
  <2>4. \A m \in Nodes : JobListRemove(l, n).next[m]
                            = IF m = n THEN n ELSE IF m = l.prev[n] THEN l.next[n] ELSE l.next[m]
    BY <2>1, <2>3 DEF Linked
  <2> QED BY <2>2, <2>4
<1> QED BY <1>1, <1>2

\* What JobListInsert does to the links forth when n is alone.
LEMMA InsertNext ==
  ASSUME NEW l, Linked(l), NEW h \in Nodes, NEW n \in Nodes, h # n, JobListEmpty(l, n)
  PROVE  LET r == JobListInsert(l, h, n) IN
         /\ r.next[n] = h
         /\ \A m \in Nodes \ {n} : r.next[m] = IF l.next[m] = h THEN n ELSE l.next[m]
<1>1. l.prev[h] \in Nodes /\ l.next[l.prev[h]] = h /\ l.prev[h] # n
  BY DEF Linked, JobListEmpty
<1>2. \A m \in Nodes : l.next[m] = h <=> m = l.prev[h]
  BY <1>1 DEF Linked
<1>3. JobListInsert(l, h, n).next = [[l.next EXCEPT ![n] = h] EXCEPT ![l.prev[h]] = n]
  BY DEF JobListInsert
<1>4. \A m \in Nodes : JobListInsert(l, h, n).next[m]
                          = IF m = l.prev[h] THEN n ELSE IF m = n THEN h ELSE l.next[m]
  BY <1>1, <1>3 DEF Linked
<1> QED BY <1>1, <1>2, <1>4

\* A node that is taken out may then belong to any list.
LEMMA RemoveAgrees ==
  ASSUME NEW l, Linked(l), NEW n \in Nodes, NEW b, NEW b2, Agree(l, b),
         \A m \in Nodes \ {n} : b2[m] = b[m]
  PROVE  Agree(JobListRemove(l, n), b2)
<1> SUFFICES ASSUME NEW m \in Nodes
             PROVE  \/ JobListRemove(l, n).next[m] = m
                    \/ b2[JobListRemove(l, n).next[m]] = b2[m]
  BY DEF Agree
<1>1. l.next[m] \in Nodes /\ l.next[n] \in Nodes
  BY DEF Linked
<1>2. CASE m = n
  BY <1>2, RemoveNext
<1>3. CASE m # n /\ l.next[m] # n
  BY <1>1, <1>3, RemoveNext DEF Agree
<1>4. CASE m # n /\ l.next[m] = n
  <2>1. b[n] = b[m] /\ (l.next[n] = n \/ b[l.next[n]] = b[n])
    BY <1>4 DEF Agree
  <2>2. l.next[n] # n
    BY <1>4 DEF Linked
  <2> QED BY <1>1, <1>4, <2>1, <2>2, RemoveNext
<1> QED BY <1>2, <1>3, <1>4

\* A node that is put into the list of h must belong to it.
LEMMA InsertAgrees ==
  ASSUME NEW l, Linked(l), NEW h \in Nodes, NEW n \in Nodes, h # n, JobListEmpty(l, n),
         NEW b, Agree(l, b), b[n] = b[h]
  PROVE  Agree(JobListInsert(l, h, n), b)
<1> SUFFICES ASSUME NEW m \in Nodes
             PROVE  \/ JobListInsert(l, h, n).next[m] = m
                    \/ b[JobListInsert(l, h, n).next[m]] = b[m]
  BY DEF Agree
<1>1. CASE m = n
  BY <1>1, InsertNext
<1>2. CASE m # n
  <2>1. JobListInsert(l, h, n).next[m] = IF l.next[m] = h THEN n ELSE l.next[m]
    BY <1>2, InsertNext
  <2> QED BY <2>1 DEF Agree
<1> QED BY <1>1, <1>2

OwnInv == ListInv /\ OwnLists

\* A ready job, and one that is gone, is alone in l.
Alone(l) == \A j \in Jobs : state'[j] \in {"ready", "gone"} => l.next[j] = j

LEMMA OwnNext ==
  ASSUME NEW l, SetLists(l), Agree(l, Owner'), Alone(l) PROVE OwnLists'
BY DEF SetLists, Agree, Alone, OwnLists

\* Taking n out: n may then have any state.
LEMMA OwnRemove ==
  ASSUME OwnInv, NEW n \in Jobs,
         \A j \in Jobs \ {n} : state'[j] = state[j] /\ holder'[j] = holder[j]
  PROVE  LET r == JobListRemove(Lists, n) IN
         Linked(r) /\ Agree(r, Owner') /\ Alone(r) /\ r.next[n] = n /\ JobListEmpty(r, n)
<1> DEFINE r == JobListRemove(Lists, n)
<1>1. Linked(Lists) /\ n \in Nodes
  BY ListsLinked DEF OwnInv, Nodes
<1>2. Agree(Lists, Owner)
  BY DEF OwnInv, OwnLists, Agree, Lists
<1>3. \A m \in Nodes \ {n} : Owner'[m] = Owner[m]
  BY DEF Owner
<1>4. Linked(r)
  BY <1>1, RemoveLinked
<1>5. Agree(r, Owner')
  BY <1>1, <1>2, <1>3, RemoveAgrees
<1>6. r.next[n] = n
  BY <1>1, RemoveNext
<1>7. Alone(r)
  <2> SUFFICES ASSUME NEW j \in Jobs, state'[j] \in {"ready", "gone"} PROVE r.next[j] = j
    BY DEF Alone
  <2>1. CASE j = n
    BY <1>6, <2>1
  <2>2. CASE j # n
    <3>1. Lists.next[j] = j
      BY <2>2 DEF OwnInv, OwnLists, Lists
    <3>2. j \in Nodes
      BY DEF Nodes
    <3> QED BY <1>1, <2>2, <3>1, <3>2, RemoveNext
  <2> QED BY <2>1, <2>2
<1>8. JobListEmpty(r, n)
  BY <1>1, <1>4, <1>6 DEF Linked, JobListEmpty
<1> QED BY <1>4, <1>5, <1>6, <1>7, <1>8

\* Linking n in: h and n belong to one list, and neither is ready or gone.
LEMMA OwnInsert ==
  ASSUME NEW l, Linked(l), Agree(l, Owner'), Alone(l), NEW h \in Nodes, NEW n \in Nodes, h # n,
         JobListEmpty(l, n), Owner'[n] = Owner'[h],
         \A j \in Jobs : j \in {h, n} => state'[j] \notin {"ready", "gone"}
  PROVE  Agree(JobListInsert(l, h, n), Owner') /\ Alone(JobListInsert(l, h, n))
<1>1. Agree(JobListInsert(l, h, n), Owner')
  BY InsertAgrees
<1>2. ASSUME NEW j \in Jobs, state'[j] \in {"ready", "gone"}
      PROVE  JobListInsert(l, h, n).next[j] = j
  <2>1. j # h /\ j # n /\ l.next[j] = j /\ j \in Nodes
    BY <1>2 DEF Alone, Nodes
  <2> QED BY <2>1, InsertNext
<1> QED BY <1>1, <1>2 DEF Alone

\* One step per command.
LEMMA OwnStep ==
  ASSUME OwnInv, ListNext PROVE OwnLists'
<1> USE ListsAssumption
<1>1. /\ Linked(Lists) /\ Jobs \subseteq Nodes /\ Conns \subseteq Nodes /\ Buried \in Nodes
      /\ state \in [Jobs -> {"ready", "reserved", "buried", "gone"}]
      /\ holder \in [Jobs -> Conns \cup {Buried}]
  BY ListsLinked DEF OwnInv, ListInv, ListTypeOK, Nodes
<1>2. \A n \in Nodes \ Jobs : Owner'[n] = n
  BY DEF Owner
<1>3. ASSUME NEW j \in Jobs, SetLists(JobListRemove(Lists, j)),
             \A i \in Jobs \ {j} : state'[i] = state[i] /\ holder'[i] = holder[i]
      PROVE  OwnLists'
  BY <1>3, OwnRemove, OwnNext
<1>4. ASSUME NEW j \in Jobs, DeleteBuried(j) PROVE OwnLists'
  BY <1>1, <1>3, <1>4 DEF DeleteBuried
<1>5. ASSUME NEW c \in Conns, NEW j \in Jobs, Release(c, j) \/ Delete(c, j) PROVE OwnLists'
  BY <1>1, <1>3, <1>5 DEF Release, Delete, Ready
<1>6. ASSUME NEW c \in Conns, GiveBack(c) PROVE OwnLists'
  <2>1. NextJob[c] \in Nodes /\ NextJob[c] # c
    BY <1>1, <1>6 DEF GiveBack, JobListEmpty, Lists, Linked
  <2>2. Owner[NextJob[c]] = c
    BY <1>1, <2>1 DEF OwnInv, OwnLists, Owner
  <2>3. NextJob[c] \in Jobs
    BY <2>1, <2>2 DEF Owner
  <2> QED BY <1>1, <1>3, <1>6, <2>3 DEF GiveBack, Ready
<1>7. ASSUME NEW c \in Conns, NEW j \in Jobs, NEW l, SetLists(JobListInsert(l, c, j)),
             Linked(l), Agree(l, Owner'), Alone(l), JobListEmpty(l, j),
             state'[j] = "reserved", holder'[j] = c
      PROVE  OwnLists'
  <2>1. Owner'[j] = c /\ Owner'[c] = c /\ c # j /\ c \notin Jobs
    BY <1>1, <1>2, <1>7 DEF Owner
  <2>2. Agree(JobListInsert(l, c, j), Owner') /\ Alone(JobListInsert(l, c, j))
    BY <1>1, <1>7, <2>1, OwnInsert
  <2> QED BY <1>7, <2>2, OwnNext
<1>8. ASSUME NEW c \in Conns, NEW j \in Jobs, ReserveBuried(c, j) PROVE OwnLists'
  <2>1. /\ state'[j] = "reserved" /\ holder'[j] = c
        /\ \A i \in Jobs \ {j} : state'[i] = state[i] /\ holder'[i] = holder[i]
    BY <1>1, <1>8 DEF ReserveBuried
  <2>2. /\ Linked(JobListRemove(Lists, j)) /\ Agree(JobListRemove(Lists, j), Owner')
        /\ Alone(JobListRemove(Lists, j)) /\ JobListEmpty(JobListRemove(Lists, j), j)
    BY <2>1, OwnRemove
  <2> QED BY <1>7, <1>8, <2>1, <2>2 DEF ReserveBuried
<1>9. ASSUME NEW c \in Conns, NEW j \in Jobs, Reserve(c, j) PROVE OwnLists'
  <2>1. /\ state'[j] = "reserved" /\ holder'[j] = c
        /\ \A i \in Jobs \ {j} : state'[i] = state[i] /\ holder'[i] = holder[i]
    BY <1>1, <1>9 DEF Reserve
  <2>2. Lists.next[j] = j /\ JobListEmpty(Lists, j)
    BY <1>1, <1>9 DEF Reserve, OwnInv, OwnLists, Lists, Linked, JobListEmpty
  <2>3. JobListRemove(Lists, j) = Lists
    BY <2>2 DEF JobListRemove
  <2>4. Agree(Lists, Owner') /\ Alone(Lists)
    BY <2>1, <2>3, OwnRemove
  <2> QED BY <1>1, <1>7, <1>9, <2>1, <2>2, <2>4 DEF Reserve
<1>10. ASSUME NEW c \in Conns, NEW j \in Jobs, Bury(c, j) PROVE OwnLists'
  <2> DEFINE r == JobListRemove(Lists, j)
  <2>1. /\ state'[j] = "buried"
        /\ \A i \in Jobs \ {j} : state'[i] = state[i] /\ holder'[i] = holder[i]
    BY <1>1, <1>10 DEF Bury
  <2>2. Linked(r) /\ Agree(r, Owner') /\ Alone(r) /\ JobListEmpty(r, j)
    BY <2>1, OwnRemove
  <2> HIDE DEF r
  <2>3. SetLists(JobListInsert(r, j, Buried))
    BY <1>10 DEF Bury, BuryJob, r
  <2>4. CASE ~JobListEmpty(r, Buried)
    <3>1. JobListInsert(r, j, Buried) = r
      BY <2>4 DEF JobListInsert
    <3> QED BY <2>2, <2>3, <3>1, OwnNext
  <2>5. CASE JobListEmpty(r, Buried)
    <3>1. Owner'[j] = Buried /\ Owner'[Buried] = Buried /\ Buried # j /\ Buried \notin Jobs
      BY <1>1, <1>2, <2>1 DEF Owner
    <3>2. Agree(JobListInsert(r, j, Buried), Owner') /\ Alone(JobListInsert(r, j, Buried))
      BY <1>1, <2>1, <2>2, <2>5, <3>1, OwnInsert
    <3> QED BY <2>3, <3>2, OwnNext
  <2> QED BY <2>4, <2>5
<1> QED BY <1>4, <1>5, <1>6, <1>8, <1>9, <1>10 DEF ListNext

\* For any number of jobs and connections no link leads from one list into another and a job
\* that is neither reserved nor buried is in no list, whatever BuryJob's swapped call does.
THEOREM ListsAlwaysOwn == ListSpec => []OwnLists
<1>1. Init => OwnInv
  BY InitList DEF Init, OwnInv, OwnLists, Nodes
<1>2. OwnInv /\ [ListNext]_listVars => OwnInv'
  <2> SUFFICES ASSUME OwnInv, [ListNext]_listVars PROVE OwnInv'
    OBVIOUS
  <2>1. CASE ListNext
    BY <2>1, ListStep, OwnStep DEF OwnInv
  <2>2. CASE UNCHANGED listVars
    BY <2>2 DEF listVars, OwnInv, ListInv, ListTypeOK, Ringed, OwnLists, Owner
  <2> QED BY <2>1, <2>2
<1>3. OwnInv => OwnLists
  BY DEF OwnInv
<1> QED BY <1>1, <1>2, <1>3, PTL DEF ListSpec

-----------------------------------------------------------------------------
(***************************************************************************)
(* A walk along a list.  There are finitely many nodes, so it returns to   *)
(* its start: the first node that it would meet twice has, by the links    *)
(* back, a predecessor that it meets twice.                                *)
(***************************************************************************)

\* A set of numbers that is not empty has a least one.
LEMMA LeastNumber ==
  ASSUME NEW S \in SUBSET Nat, S # {}
  PROVE  \E n \in S : \A m \in S : n <= m
<1>1. PICK n \in S : \A m \in S : <<m, n>> \notin OpToRel(<, Nat)
  BY NatLessThanWellFounded, WFMin
<1>2. \A m \in S : ~(m < n)
  BY <1>1 DEF OpToRel
<1>3. \A m \in S : n \in Nat /\ m \in Nat
  OBVIOUS
<1> QED BY <1>2, <1>3

\* A walk of any length can be written down.
LEMMA StepsExist ==
  ASSUME NEW next \in [Nodes -> Nodes], NEW h \in Nodes, NEW n \in Nat
  PROVE  \E f \in [0..n -> Nodes] :
           f[0] = h /\ \A k \in 1..n : f[k] = next[f[k - 1]]
<1> DEFINE Good(i) == \E f \in [0..i -> Nodes] :
                        f[0] = h /\ \A k \in 1..i : f[k] = next[f[k - 1]]
           Bad == {i \in Nat : ~Good(i)}
<1>1. Good(0)
  <2>1. [k \in 0..0 |-> h] \in [0..0 -> Nodes] /\ [k \in 0..0 |-> h][0] = h
    OBVIOUS
  <2>2. \A k \in 1..0 : FALSE
    OBVIOUS
  <2> QED BY <2>1, <2>2
<1>2. ASSUME NEW i \in Nat, Good(i) PROVE Good(i + 1)
  <2>1. PICK f \in [0..i -> Nodes] : f[0] = h /\ \A k \in 1..i : f[k] = next[f[k - 1]]
    BY <1>2
  <2> DEFINE g == [k \in 0..(i + 1) |-> IF k = i + 1 THEN next[f[i]] ELSE f[k]]
  <2>2. \A k \in 0..i : g[k] = f[k] /\ f[k] \in Nodes
    OBVIOUS
  <2>3. g[i + 1] = next[f[i]] /\ next[f[i]] \in Nodes
    OBVIOUS
  <2>4. g \in [0..(i + 1) -> Nodes]
    BY <2>2, <2>3
  <2> HIDE DEF g
  <2>5. ASSUME NEW k \in 1..(i + 1) PROVE g[k] = next[g[k - 1]]
    <3>1. CASE k = i + 1
      BY <3>1, <2>2, <2>3
    <3>2. CASE k # i + 1
      <4>1. k \in 1..i /\ k - 1 \in 0..i /\ k \in 0..i
        BY <3>2
      <4> QED BY <4>1, <2>1, <2>2
    <3> QED BY <3>1, <3>2
  <2>6. g[0] = h
    BY <2>1, <2>2
  <2> QED BY <2>4, <2>5, <2>6
<1> HIDE DEF Good
<1>3. CASE Bad # {}
  <2>1. PICK i \in Bad : \A m \in Bad : i <= m
    <3>1. Bad \in SUBSET Nat
      OBVIOUS
    <3> HIDE DEF Bad
    <3> QED BY <1>3, <3>1, LeastNumber
  <2>2. i # 0 /\ i \in Nat
    BY <1>1
  <2>3. i - 1 \in Nat /\ i - 1 \notin Bad /\ (i - 1) + 1 = i
    BY <2>1, <2>2
  <2> QED BY <1>2, <2>3
<1> QED BY <1>3 DEF Good

\* The walk from h, as a function of the number of steps.
LEMMA StepsFacts ==
  ASSUME ListTypeOK, NEW h \in Nodes, Cardinality(Nodes) \in Nat
  PROVE  /\ Steps(h) \in [0..Cardinality(Nodes) -> Nodes]
         /\ Steps(h)[0] = h
         /\ \A k \in 1..Cardinality(Nodes) : Steps(h)[k] = NextJob[Steps(h)[k - 1]]
<1> DEFINE N == Cardinality(Nodes)
           link[k \in 0..N] == IF k = 0 THEN h ELSE NextJob[link[k - 1]]
<1>1. Steps(h) = link
  BY DEF Steps
<1>2. NextJob \in [Nodes -> Nodes]
  BY DEF ListTypeOK
<1> HIDE DEF N
<1>3. PICK f \in [0..N -> Nodes] : f[0] = h /\ \A k \in 1..N : f[k] = NextJob[f[k - 1]]
  BY <1>2, StepsExist DEF N
<1>4. f = [k \in 0..N |-> IF k = 0 THEN h ELSE NextJob[f[k - 1]]]
  <2>1. \A k \in 0..N : k = 0 \/ k \in 1..N
    BY DEF N
  <2> QED BY <1>3, <2>1
<1>5. link = [k \in 0..N |-> IF k = 0 THEN h ELSE NextJob[link[k - 1]]]
  <2> HIDE <1>3
  <2> QED BY <1>4
<1> HIDE DEF link
<1>6. link[0] = h /\ \A k \in 1..N : link[k] = NextJob[link[k - 1]]
  <2>1. 0 \in 0..N /\ \A k \in 1..N : k \in 0..N /\ k # 0
    BY DEF N
  <2> QED BY <1>5, <2>1
<1> DEFINE Out == {k \in 0..N : link[k] \notin Nodes}
<1>7. Out = {}
  <2> SUFFICES ASSUME Out # {} PROVE FALSE
    OBVIOUS
  <2>1. PICK k \in Out : \A m \in Out : k <= m
    <3>1. Out \in SUBSET Nat
      BY DEF N
    <3> HIDE DEF Out
    <3> QED BY <3>1, LeastNumber
  <2>2. k \in 0..N /\ k # 0 /\ N \in Nat
    BY <1>6 DEF N
  <2>3. k \in 1..N /\ k - 1 \in 0..N /\ ~(k <= k - 1)
    BY <2>2
  <2>4. link[k - 1] \in Nodes
    BY <2>1, <2>3
  <2> QED BY <1>2, <1>6, <2>1, <2>3, <2>4
<1>8. link = [k \in 0..N |-> link[k]]
  BY <1>5
<1>9. link \in [0..N -> Nodes]
  BY <1>7, <1>8
<1> QED BY <1>1, <1>6, <1>9 DEF N

\* Nodes are finitely many.
LEMMA NodesFinite == IsFiniteSet(Nodes) /\ Cardinality(Nodes) \in Nat
<1>1. IsFiniteSet(Jobs \cup Conns)
  BY ListsAssumption, FS_Union
<1>2. IsFiniteSet((Jobs \cup Conns) \cup {Buried})
  BY <1>1, FS_AddElement
<1> QED BY <1>2, FS_CardinalityType DEF Nodes

\* A walk comes back to where it started.
LEMMA WalkReturns ==
  ASSUME ListInv, NEW h \in Nodes
  PROVE  \E k \in 1..Cardinality(Nodes) : Steps(h)[k] = h
<1> DEFINE N == Cardinality(Nodes)
           link == Steps(h)
           Again == {i \in 0..N : \E d \in 1..N : i + d <= N /\ link[i] = link[i + d]}
<1>1. /\ N \in Nat /\ link \in [0..N -> Nodes] /\ link[0] = h
      /\ \A k \in 1..N : link[k] = NextJob[link[k - 1]]
  BY NodesFinite, StepsFacts DEF ListInv
<1>2. \A m, n \in Nodes : NextJob[m] = NextJob[n] => m = n
  BY DEF ListInv, Ringed
<1> HIDE DEF N, link
<1>3. Again # {}
  <2>1. IsFiniteSet(0..N) /\ Cardinality(0..N) = N + 1
    BY <1>1, FS_Interval
  <2>2. PICK x, y \in 0..N : x # y /\ link[x] = link[y]
    <3>1. IsFiniteSet(Nodes) /\ Cardinality(Nodes) < Cardinality(0..N)
      BY <1>1, <2>1, NodesFinite DEF N
    <3> QED BY <1>1, <2>1, <3>1, FS_PigeonHole
  <2>3. CASE x < y
    <3>1. y - x \in 1..N /\ x + (y - x) = y /\ y <= N
      BY <1>1, <2>3
    <3> QED BY <2>2, <3>1
  <2>4. CASE y < x
    <3>1. x - y \in 1..N /\ y + (x - y) = x /\ x <= N
      BY <1>1, <2>4
    <3> QED BY <2>2, <3>1
  <2>5. x < y \/ y < x
    BY <1>1, <2>2
  <2> QED BY <2>3, <2>4, <2>5
<1>4. PICK i \in Again : \A m \in Again : i <= m
  <2>1. Again \in SUBSET Nat
    BY <1>1
  <2> HIDE DEF Again
  <2> QED BY <1>3, <2>1, LeastNumber
<1>5. PICK d \in 1..N : i + d <= N /\ link[i] = link[i + d]
  BY <1>4
<1>6. i \in 0..N
  BY <1>4
<1>7. CASE i = 0
  BY <1>1, <1>5, <1>7 DEF N, link
<1>8. CASE i # 0
  <2>1. /\ i \in 1..N /\ i - 1 \in 0..N /\ i + d \in 1..N /\ (i - 1) + d = (i + d) - 1
        /\ (i - 1) + d \in 0..N /\ (i - 1) + d <= N /\ ~(i <= i - 1)
    BY <1>1, <1>5, <1>6, <1>8
  <2>2. NextJob[link[i - 1]] = NextJob[link[(i - 1) + d]]
    BY <1>1, <1>5, <2>1
  <2>3. link[i - 1] = link[(i - 1) + d]
    BY <1>1, <1>2, <2>1, <2>2
  <2>4. i - 1 \in Again
    BY <2>1, <2>3
  <2> QED BY <1>4, <2>1, <2>4
<1> QED BY <1>7, <1>8

\* A walk stays in its list.
LEMMA WalkStays ==
  ASSUME OwnInv, NEW c \in Conns, NEW k \in 0..Cardinality(Nodes)
  PROVE  Steps(c)[k] \in Nodes /\ Owner[Steps(c)[k]] = c
<1> DEFINE N == Cardinality(Nodes)
           link == Steps(c)
           Off == {i \in 0..N : Owner[link[i]] # c}
<1>1. /\ N \in Nat /\ link \in [0..N -> Nodes] /\ link[0] = c
      /\ \A i \in 1..N : link[i] = NextJob[link[i - 1]]
  BY NodesFinite, StepsFacts DEF OwnInv, ListInv, Nodes
<1>2. \A n \in Nodes : NextJob[n] = n \/ Owner[NextJob[n]] = Owner[n]
  BY DEF OwnInv, OwnLists
<1>3. Owner[c] = c
  BY ListsAssumption DEF Owner, Nodes
<1> HIDE DEF N, link
<1>4. Off = {}
  <2> SUFFICES ASSUME Off # {} PROVE FALSE
    OBVIOUS
  <2>1. PICK i \in Off : \A m \in Off : i <= m
    <3>1. Off \in SUBSET Nat
      BY <1>1
    <3> HIDE DEF Off
    <3> QED BY <3>1, LeastNumber
  <2>2. i \in 1..N /\ i - 1 \in 0..N /\ ~(i <= i - 1)
    BY <1>1, <1>3, <2>1
  <2>3. Owner[link[i - 1]] = c
    BY <2>1, <2>2
  <2> QED BY <1>1, <1>2, <2>1, <2>2, <2>3
<1> QED BY <1>1, <1>4 DEF N, link

-----------------------------------------------------------------------------
(***************************************************************************)
(* What a walk meets.  H is reached from h when every set of nodes that    *)
(* holds h and, with a node, its successor, holds H.  This, unlike the     *)
(* walk itself, says nothing of numbers of steps, and is inductive.        *)
(***************************************************************************)

Closed(S, next) == \A n \in S : next[n] \in S

Reached(l, h, H) == \A S \in SUBSET Nodes : h \in S /\ Closed(S, l.next) => H \subseteq S

\* Taking n out leaves the others reached.
LEMMA RemoveReached ==
  ASSUME NEW l, Linked(l), NEW n \in Nodes, NEW h \in Nodes, h # n, NEW H, Reached(l, h, H)
  PROVE  Reached(JobListRemove(l, n), h, H \ {n})
<1> DEFINE r == JobListRemove(l, n)
<1>1. \A m \in Nodes \ {n} : r.next[m] = IF l.next[m] = n THEN l.next[n] ELSE l.next[m]
  BY RemoveNext
<1>2. \A m \in Nodes : l.next[m] \in Nodes
  BY DEF Linked
<1> HIDE DEF r
<1> SUFFICES ASSUME NEW S \in SUBSET Nodes, h \in S, Closed(S, r.next) PROVE H \ {n} \subseteq S
  BY DEF Reached, r
<1>3. CASE \E m \in S \ {n} : l.next[m] = n
  <2>1. l.next[n] \in S
    BY <1>1, <1>3 DEF Closed
  <2>2. Closed(S \cup {n}, l.next)
    BY <1>1, <2>1 DEF Closed
  <2> QED BY <2>2 DEF Reached
<1>4. CASE ~\E m \in S \ {n} : l.next[m] = n
  <2>1. Closed(S \ {n}, l.next)
    BY <1>1, <1>4 DEF Closed
  <2>2. h \in S \ {n} /\ S \ {n} \in SUBSET Nodes
    OBVIOUS
  <2> QED BY <2>1, <2>2 DEF Reached
<1> QED BY <1>3, <1>4

\* So does linking n in, and n is then reached from the head that it was linked to.
LEMMA InsertReached ==
  ASSUME NEW l, Linked(l), NEW h \in Nodes, NEW n \in Nodes, h # n, JobListEmpty(l, n),
         NEW c \in Nodes, c # n, NEW H, Reached(l, c, H)
  PROVE  /\ Reached(JobListInsert(l, h, n), c, H)
         /\ h = c /\ l.prev[c] \in H \cup {c} => Reached(JobListInsert(l, h, n), c, H \cup {n})
<1> DEFINE r == JobListInsert(l, h, n)
<1>1. /\ r.next[n] = h
      /\ \A m \in Nodes \ {n} : r.next[m] = IF l.next[m] = h THEN n ELSE l.next[m]
  BY InsertNext
<1>2. \A m \in Nodes : l.next[m] \in Nodes /\ (l.next[m] = n => m = n)
  BY DEF Linked, JobListEmpty
<1> HIDE DEF r
<1>3. ASSUME NEW S \in SUBSET Nodes, c \in S, Closed(S, r.next)
      PROVE  H \subseteq S \ {n}
  <2>1. ASSUME NEW m \in S \ {n} PROVE l.next[m] \in S \ {n}
    <3>1. CASE l.next[m] = h
      BY <1>1, <1>3, <3>1 DEF Closed
    <3>2. CASE l.next[m] # h
      BY <1>1, <1>2, <1>3, <3>2 DEF Closed
    <3> QED BY <3>1, <3>2
  <2>2. Closed(S \ {n}, l.next) /\ c \in S \ {n} /\ S \ {n} \in SUBSET Nodes
    BY <1>3, <2>1 DEF Closed
  <2> QED BY <2>2 DEF Reached
<1>4. Reached(r, c, H)
  BY <1>3 DEF Reached
<1>5. ASSUME h = c, l.prev[c] \in H \cup {c} PROVE Reached(r, c, H \cup {n})
  <2> SUFFICES ASSUME NEW S \in SUBSET Nodes, c \in S, Closed(S, r.next)
               PROVE  H \cup {n} \subseteq S
    BY DEF Reached
  <2>1. l.prev[c] \in S \ {n}
    BY <1>3, <1>5
  <2>2. l.next[l.prev[c]] = c
    BY DEF Linked
  <2>3. r.next[l.prev[c]] = n
    BY <1>1, <1>5, <2>1, <2>2
  <2> QED BY <1>3, <2>1, <2>3 DEF Closed
<1> QED BY <1>4, <1>5 DEF r

\* The jobs of a connection are reached from its head.
HeldBy(c) == {j \in Jobs : Held(c, j)}

AllReached == \A c \in Conns : Reached(Lists, c, HeldBy(c))
WalkInv == OwnInv /\ AllReached

\* The last node of a connection's list is one of its jobs, or its head.
LEMMA LastHeld ==
  ASSUME NEW l, Linked(l), NEW b, Agree(l, b), NEW c \in Conns, b[c] = c
  PROVE  l.prev[c] \in Nodes /\ (l.prev[c] = c \/ b[l.prev[c]] = c)
BY DEF Linked, Agree, Nodes

\* Taking j out leaves reached what is still held.
LEMMA ReachedWithout ==
  ASSUME WalkInv, NEW j \in Jobs, NEW c \in Conns,
         \A i \in Jobs \ {j} : state'[i] = state[i] /\ holder'[i] = holder[i]
  PROVE  Reached(JobListRemove(Lists, j), c, HeldBy(c)' \ {j})
<1>1. Linked(Lists) /\ c \in Nodes /\ j \in Nodes /\ c # j
  BY ListsLinked, ListsAssumption DEF WalkInv, OwnInv, Nodes
<1>2. HeldBy(c)' \ {j} = HeldBy(c) \ {j}
  BY DEF HeldBy, Held
<1> QED BY <1>1, <1>2, RemoveReached DEF WalkInv, AllReached

\* What is to be shown of the lists after a step.
LEMMA ReachedNext ==
  ASSUME NEW l, SetLists(l), \A c \in Conns : Reached(l, c, HeldBy(c)')
  PROVE  AllReached'
BY DEF SetLists, AllReached, Reached, Lists, Closed

\* j is taken out and nobody holds it.
LEMMA ReachedGone ==
  ASSUME WalkInv, NEW j \in Jobs, SetLists(JobListRemove(Lists, j)),
         state'[j] # "reserved",
         \A i \in Jobs \ {j} : state'[i] = state[i] /\ holder'[i] = holder[i]
  PROVE  AllReached'
<1>1. \A c \in Conns : HeldBy(c)' = HeldBy(c)' \ {j}
  BY DEF HeldBy, Held
<1> QED BY <1>1, ReachedWithout, ReachedNext

\* j is linked in behind the jobs of c.
LEMMA ReachedHeld ==
  ASSUME WalkInv, NEW j \in Jobs, NEW c \in Conns,
         SetLists(JobListInsert(JobListRemove(Lists, j), c, j)),
         state'[j] = "reserved", holder'[j] = c,
         \A i \in Jobs \ {j} : state'[i] = state[i] /\ holder'[i] = holder[i]
  PROVE  AllReached'
<1> DEFINE r == JobListRemove(Lists, j)
<1>1. /\ Linked(r) /\ Agree(r, Owner') /\ r.next[j] = j /\ JobListEmpty(r, j)
  BY OwnRemove DEF WalkInv
<1>2. /\ j \in Nodes /\ c \in Nodes /\ c # j /\ c \notin Jobs
      /\ Conns \subseteq Nodes /\ Conns \cap Jobs = {} /\ Buried \notin Conns
  BY ListsAssumption DEF Nodes
<1>3. \A d \in Conns : Reached(r, d, HeldBy(d)' \ {j})
  BY ReachedWithout
<1>4. Owner'[c] = c
  BY <1>2 DEF Owner
<1>5. r.prev[c] \in (HeldBy(c)' \ {j}) \cup {c}
  <2>1. r.prev[c] \in Nodes /\ (r.prev[c] = c \/ Owner'[r.prev[c]] = c)
    BY <1>1, <1>4, LastHeld
  <2>2. r.next[r.prev[c]] = c
    BY <1>1, <1>2 DEF Linked
  <2>3. r.prev[c] # j
    BY <1>1, <1>2, <2>2
  <2>4. \A n \in Nodes : n # c /\ Owner'[n] = c => n \in HeldBy(c)'
    BY <1>2 DEF Owner, HeldBy, Held
  <2> HIDE DEF r
  <2> QED BY <2>1, <2>3, <2>4
<1> HIDE DEF r
<1>6. Reached(JobListInsert(r, c, j), c, (HeldBy(c)' \ {j}) \cup {j})
  BY <1>1, <1>2, <1>3, <1>5, InsertReached
<1>7. ASSUME NEW d \in Conns, d # c PROVE Reached(JobListInsert(r, c, j), d, HeldBy(d)' \ {j})
  BY <1>1, <1>2, <1>3, InsertReached
<1>8. \A d \in Conns \ {c} : HeldBy(d)' = HeldBy(d)' \ {j}
  BY DEF HeldBy, Held
<1>9. (HeldBy(c)' \ {j}) \cup {j} = HeldBy(c)'
  BY DEF HeldBy, Held
<1>10. \A d \in Conns : Reached(JobListInsert(r, c, j), d, HeldBy(d)')
  BY <1>6, <1>7, <1>8, <1>9
<1> QED BY <1>10, ReachedNext DEF r

\* One step per command.
LEMMA WalkStep ==
  ASSUME WalkInv, ListNext PROVE AllReached'
<1>1. /\ Linked(Lists) /\ Jobs \subseteq Nodes /\ Conns \subseteq Nodes /\ Buried \in Nodes
      /\ state \in [Jobs -> {"ready", "reserved", "buried", "gone"}]
      /\ holder \in [Jobs -> Conns \cup {Buried}]
      /\ Jobs \cap Conns = {} /\ Buried \notin Jobs \cup Conns
  BY ListsLinked, ListsAssumption DEF WalkInv, OwnInv, ListInv, ListTypeOK, Nodes
<1>2. ASSUME NEW j \in Jobs, DeleteBuried(j) PROVE AllReached'
  BY <1>1, <1>2, ReachedGone DEF DeleteBuried
<1>3. ASSUME NEW c \in Conns, NEW j \in Jobs, Release(c, j) \/ Delete(c, j) PROVE AllReached'
  <2>1. /\ SetLists(JobListRemove(Lists, j)) /\ state'[j] # "reserved"
        /\ \A i \in Jobs \ {j} : state'[i] = state[i] /\ holder'[i] = holder[i]
    BY <1>1, <1>3 DEF Release, Delete, Ready
  <2> QED BY <2>1, ReachedGone
<1>4. ASSUME NEW c \in Conns, GiveBack(c) PROVE AllReached'
  <2>1. NextJob[c] \in Nodes /\ NextJob[c] # c
    BY <1>1, <1>4 DEF GiveBack, JobListEmpty, Lists, Linked
  <2>2. Owner[c] = c /\ c \in Nodes
    BY <1>1 DEF Owner
  <2>3. Owner[NextJob[c]] = c
    BY <2>1, <2>2 DEF WalkInv, OwnInv, OwnLists
  <2>4. NextJob[c] \in Jobs
    BY <2>1, <2>3 DEF Owner
  <2>5. /\ SetLists(JobListRemove(Lists, NextJob[c])) /\ state'[NextJob[c]] # "reserved"
        /\ \A i \in Jobs \ {NextJob[c]} : state'[i] = state[i] /\ holder'[i] = holder[i]
    BY <1>1, <1>4, <2>4 DEF GiveBack, Ready
  <2> QED BY <2>4, <2>5, ReachedGone
<1>5. ASSUME NEW c \in Conns, NEW j \in Jobs, Reserve(c, j) PROVE AllReached'
  <2>1. /\ state'[j] = "reserved" /\ holder'[j] = c
        /\ \A i \in Jobs \ {j} : state'[i] = state[i] /\ holder'[i] = holder[i]
    BY <1>1, <1>5 DEF Reserve
  <2>2. JobListEmpty(Lists, j)
    BY <1>1, <1>5 DEF Reserve, WalkInv, OwnInv, OwnLists, Lists, Linked, JobListEmpty
  <2>3. JobListRemove(Lists, j) = Lists
    BY <2>2 DEF JobListRemove
  <2>4. SetLists(JobListInsert(JobListRemove(Lists, j), c, j))
    BY <1>5, <2>3 DEF Reserve
  <2> QED BY <2>1, <2>4, ReachedHeld
<1>6. ASSUME NEW c \in Conns, NEW j \in Jobs, ReserveBuried(c, j) PROVE AllReached'
  BY <1>1, <1>6, ReachedHeld DEF ReserveBuried
<1>7. ASSUME NEW c \in Conns, NEW j \in Jobs, Bury(c, j) PROVE AllReached'
  <2> DEFINE r == JobListRemove(Lists, j)
  <2>1. /\ state'[j] = "buried"
        /\ \A i \in Jobs \ {j} : state'[i] = state[i] /\ holder'[i] = holder[i]
    BY <1>1, <1>7 DEF Bury
  <2>2. Linked(r)
    BY <1>1, RemoveLinked
  <2>3. \A d \in Conns : Reached(r, d, HeldBy(d)' \ {j}) /\ HeldBy(d)' = HeldBy(d)' \ {j}
    BY <2>1, ReachedWithout DEF HeldBy, Held
  <2> HIDE DEF r
  <2>4. SetLists(JobListInsert(r, j, Buried))
    BY <1>7 DEF Bury, BuryJob, r
  <2>5. CASE ~JobListEmpty(r, Buried)
    <3>1. JobListInsert(r, j, Buried) = r
      BY <2>5 DEF JobListInsert
    <3> QED BY <2>3, <2>4, <3>1, ReachedNext
  <2>6. CASE JobListEmpty(r, Buried)
    <3>1. ASSUME NEW d \in Conns PROVE Reached(JobListInsert(r, j, Buried), d, HeldBy(d)')
      <4>1. Reached(r, d, HeldBy(d)') /\ d \in Nodes /\ j \in Nodes /\ d # Buried /\ j # Buried
        BY <1>1, <2>3
      <4> QED BY <1>1, <2>2, <2>6, <4>1, InsertReached
    <3> QED BY <2>4, <3>1, ReachedNext
  <2> QED BY <2>5, <2>6
<1> QED BY <1>2, <1>3, <1>4, <1>5, <1>6, <1>7 DEF ListNext

\* A walk meets what is reached and, within its own list, nothing else.
LEMMA WalkMeetsHeld ==
  ASSUME WalkInv PROVE ReservedListed
<1> SUFFICES ASSUME NEW c \in Conns PROVE Walk(c) = HeldBy(c)
  BY DEF ReservedListed, HeldBy
<1> DEFINE N == Cardinality(Nodes)
           link == Steps(c)
           On == {i \in 1..N : \A m \in 1..i : link[m] # c}
           S == {c} \cup {link[k] : k \in On}
<1>1. /\ N \in Nat /\ link \in [0..N -> Nodes] /\ link[0] = c
      /\ \A k \in 1..N : link[k] = NextJob[link[k - 1]]
  BY NodesFinite, StepsFacts DEF WalkInv, OwnInv, ListInv, Nodes
<1>2. PICK r \in 1..N : link[r] = c
  BY WalkReturns DEF WalkInv, OwnInv, Nodes
<1>3. \A k \in 0..N : Owner[link[k]] = c
  BY WalkStays DEF WalkInv
<1>4. Walk(c) = {link[k] : k \in On}
  BY DEF Walk
<1> HIDE DEF N, link
<1>5. \A k \in On : k \in 1..N /\ k < r /\ k \in 0..N /\ link[k] # c
  <2> SUFFICES ASSUME NEW k \in On PROVE k \in 1..N /\ k < r /\ k \in 0..N /\ link[k] # c
    OBVIOUS
  <2>1. k \in 1..N /\ \A m \in 1..k : link[m] # c
    OBVIOUS
  <2>2. k \in Nat /\ k \in 1..k /\ k \in 0..N
    BY <1>1, <2>1
  <2>3. ~(r <= k)
    BY <1>2, <2>1, <2>2
  <2> QED BY <2>1, <2>2, <2>3
<1>6. \A k \in On : link[k] \in HeldBy(c)
  <2> SUFFICES ASSUME NEW k \in On PROVE link[k] \in HeldBy(c)
    OBVIOUS
  <2>1. link[k] \in Nodes /\ link[k] # c /\ Owner[link[k]] = c
    BY <1>1, <1>3, <1>5
  <2>2. c # Buried
    BY ListsAssumption
  <2> QED BY <2>1, <2>2 DEF Owner, HeldBy, Held, Nodes
<1>7. Closed(S, NextJob)
  <2> SUFFICES ASSUME NEW n \in S, NextJob[n] # c PROVE NextJob[n] \in S
    BY DEF Closed
  <2>1. \E k \in 0..N : n = link[k] /\ k < r /\ \A m \in 1..k : link[m] # c
    <3>1. CASE n = c
      <4>1. 0 \in 0..N /\ 0 < r /\ \A m \in 1..0 : FALSE
        BY <1>1, <1>2
      <4> QED BY <1>1, <3>1, <4>1
    <3>2. CASE n # c
      BY <1>5, <3>2
    <3> QED BY <3>1, <3>2
  <2>2. PICK k \in 0..N : n = link[k] /\ k < r /\ \A m \in 1..k : link[m] # c
    BY <2>1
  <2>3. k + 1 \in 1..N /\ (k + 1) - 1 = k
    BY <1>1, <1>2, <2>2
  <2>4. link[k + 1] = NextJob[n]
    BY <1>1, <2>2, <2>3
  <2>5. \A m \in 1..(k + 1) : m \in 1..k \/ m = k + 1
    BY <1>1
  <2>6. k + 1 \in On
    BY <2>2, <2>3, <2>4, <2>5
  <2> QED BY <2>4, <2>6
<1>8. S \in SUBSET Nodes
  BY <1>1, <1>5 DEF Nodes
<1>9. HeldBy(c) \subseteq S
  <2> HIDE DEF S
  <2>1. c \in S
    BY DEF S
  <2> QED BY <1>7, <1>8, <2>1 DEF WalkInv, AllReached, Reached, Lists
<1>10. c \notin HeldBy(c)
  BY ListsAssumption DEF HeldBy
<1> QED BY <1>4, <1>6, <1>9, <1>10

\* For finitely many jobs and connections, a walk along the reserved jobs of a connection, as
\* enqueueReservedJobs makes it, meets just the jobs that the connection holds.
THEOREM ListsHoldReserved == ListSpec => []ReservedListed
<1>1. Init => WalkInv
  <2> SUFFICES ASSUME Init PROVE WalkInv
    OBVIOUS
  <2>1. OwnInv
    BY InitList DEF Init, OwnInv, OwnLists, Nodes
  <2>2. \A c \in Conns : HeldBy(c) = {}
    BY DEF Init, HeldBy, Held
  <2> QED BY <2>1, <2>2 DEF WalkInv, AllReached, Reached
<1>2. WalkInv /\ [ListNext]_listVars => WalkInv'
  <2> SUFFICES ASSUME WalkInv, [ListNext]_listVars PROVE WalkInv'
    OBVIOUS
  <2>1. CASE ListNext
    BY <2>1, ListStep, OwnStep, WalkStep DEF WalkInv, OwnInv
  <2>2. CASE UNCHANGED listVars
    <3>1. OwnInv'
      BY <2>2 DEF listVars, WalkInv, OwnInv, ListInv, ListTypeOK, Ringed, OwnLists, Owner
    <3>2. AllReached'
      BY <2>2 DEF listVars, WalkInv, AllReached, Reached, Closed, Lists, HeldBy, Held
    <3> QED BY <3>1, <3>2 DEF WalkInv
  <2> QED BY <2>1, <2>2
<1>3. WalkInv => ReservedListed
  BY WalkMeetsHeld
<1> QED BY <1>1, <1>2, <1>3, PTL DEF ListSpec
=============================================================================
