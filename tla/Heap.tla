-------------------------------- MODULE Heap --------------------------------
(***************************************************************************)
(* structure/heap.go: the array heap behind the ready and delay queues of  *)
(* a tube and behind the connections that have a tick.  It is Go's         *)
(* container/heap over mHeap; every iteration of the library's up and down *)
(* loops is a step here.  An item keeps its own position in `index', which *)
(* mHeap's Push, Swap and Pop maintain.  Positions are counted from 1 (the *)
(* code counts from 0), so that the parent of i is i \div 2.               *)
(***************************************************************************)
EXTENDS Integers, Sequences

CONSTANT Items
ASSUME ItemsAssumption == Items \subseteq Int

VARIABLES
  items,    \* mHeap.items
  index,    \* Item.index; 0 for an item that was popped or never pushed
  op,       \* what the heap is doing: "idle", "up", "down", "upagain", "pop"
  at, from, lim,   \* i, i0 and n of the library's loops
  members   \* what was pushed and not removed

heapVars == <<items, index, op, at, from, lim, members>>

Elems(s) == {s[i] : i \in 1..Len(s)}

\* less: the order of the jobs, which is total since ids differ.
Less(i, k) == items[i] < items[k]

\* Mutants: one of two items is overwritten; one keeps its index.
Swap_Overwrites(i, k) ==
  /\ items' = [items EXCEPT ![i] = items[k]]
  /\ index' = [index EXCEPT ![items[i]] = k, ![items[k]] = i]

Swap_OneIndex(i, k) ==
  /\ items' = [items EXCEPT ![i] = items[k], ![k] = items[i]]
  /\ index' = [index EXCEPT ![items[i]] = k]

\* mHeap.Swap
Swap(i, k) ==
  /\ items' = [items EXCEPT ![i] = items[k], ![k] = items[i]]
  /\ index' = [index EXCEPT ![items[i]] = k, ![items[k]] = i]

HeapInit ==
  /\ items = <<>> /\ index = [x \in Items |-> 0]
  /\ op = "idle" /\ at = 0 /\ from = 0 /\ lim = 0
  /\ members = {}

\* Heap.Push: mHeap.Push appends the item, then it goes up.
Push(x) ==
  /\ op = "idle" /\ x \notin Elems(items)
  /\ items' = Append(items, x)
  /\ index' = [index EXCEPT ![x] = Len(items) + 1]
  /\ op' = "up" /\ at' = Len(items) + 1 /\ lim' = Len(items) + 1 /\ from' = 0
  /\ members' = members \cup {x}

\* Mutant: the last item takes the place i and is left there.
RemoveAt_NoFix(i) ==
  /\ op = "idle" /\ i \in 1..Len(items) /\ op' = "pop"
  /\ IF i = Len(items) THEN UNCHANGED <<items, index>> ELSE Swap(i, Len(items))
  /\ at' = i /\ from' = i /\ lim' = Len(items) - 1

\* Heap.Remove: the last item takes the place i, then it goes down, or up.
RemoveAt(i) ==
  /\ op = "idle" /\ i \in 1..Len(items)
  /\ IF i = Len(items)
     THEN op' = "pop" /\ UNCHANGED <<items, index>>
     ELSE op' = "down" /\ Swap(i, Len(items))
  /\ at' = i /\ from' = i /\ lim' = Len(items) - 1

Remove(i) == RemoveAt(i) /\ members' = members \ {items[i]}

\* An iteration of up.
Up ==
  /\ op \in {"up", "upagain"}
  /\ IF at > 1 /\ Less(at, at \div 2)
     THEN Swap(at, at \div 2) /\ at' = at \div 2 /\ UNCHANGED op
     ELSE /\ op' = IF op = "up" THEN "idle" ELSE "pop"
          /\ UNCHANGED <<items, index, at>>
  /\ UNCHANGED <<from, lim, members>>

\* The lesser child of i among the first n items.
LesserChild(i, n) == IF 2 * i + 1 <= n /\ Less(2 * i + 1, 2 * i) THEN 2 * i + 1 ELSE 2 * i

\* An iteration of down; if the item did not move at all, up is tried.
Down ==
  LET k == LesserChild(at, lim) IN
  /\ op = "down"
  /\ IF 2 * at <= lim /\ Less(k, at)
     THEN Swap(at, k) /\ at' = k /\ UNCHANGED op
     ELSE /\ op' = IF at > from THEN "pop" ELSE "upagain"
          /\ UNCHANGED <<items, index, at>>
  /\ UNCHANGED <<from, lim, members>>

\* Mutant: a popped item keeps its index.
Pop_KeepsIndex ==
  /\ op = "pop"
  /\ items' = SubSeq(items, 1, Len(items) - 1)
  /\ op' = "idle" /\ at' = 0 /\ from' = 0 /\ lim' = 0
  /\ UNCHANGED <<index, members>>

\* mHeap.Pop drops the last item.
Pop ==
  /\ op = "pop"
  /\ items' = SubSeq(items, 1, Len(items) - 1)
  /\ index' = [index EXCEPT ![items[Len(items)]] = 0]
  /\ op' = "idle" /\ at' = 0 /\ from' = 0 /\ lim' = 0
  /\ UNCHANGED members

HeapStep == Up \/ Down \/ Pop

HeapNext == HeapStep \/ (\E x \in Items : Push(x)) \/ (\E i \in 1..Len(items) : Remove(i))

HeapSpec == HeapInit /\ [][HeapNext]_heapVars

-----------------------------------------------------------------------------
\* The items are Items and every position lies in the array: none points past the
\* end of it after a pop.
HeapTypeOK ==
  /\ items \in Seq(Items) /\ index \in [Items -> 0..Len(items)]
  /\ op \in {"idle", "up", "down", "upagain", "pop"}
  /\ at \in 0..Len(items) /\ from \in 0..Len(items) /\ lim \in 0..Len(items)
  /\ members \subseteq Items

\* Between two operations no item comes before its parent, whichever item was
\* removed: the item that Remove moves from the end may have to rise as well as to
\* sink.  So Take() is the least item, as NextAwaitedJob and SoonestDelayedJob rely on.
HeapOrdered ==
  op = "idle" => \A i \in 2..Len(items) : ~Less(i, i \div 2)

\* The array holds what was pushed and not removed, each item once.
HoldsMembers ==
  op = "idle" => /\ Elems(items) = members
                 /\ \A i, k \in 1..Len(items) : items[i] = items[k] => i = k

\* An item knows where it is, so that Remove(item.Index()) removes that item.
IndexRight ==
  op = "idle" => \A x \in Items :
    IF x \in members THEN index[x] \in 1..Len(items) /\ items[index[x]] = x
                     ELSE index[x] = 0
=============================================================================
