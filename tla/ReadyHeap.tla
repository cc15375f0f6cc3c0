----------------------------- MODULE ReadyHeap ------------------------------
(***************************************************************************)
(* The ready heap of one tube as the commands use it.  A job carries its   *)
(* position in HeapIndex, which JobSetPos would set; but mHeap never calls *)
(* the setPos function it is given, so HeapIndex keeps its zero value (1   *)
(* here) and Remove(j.HeapIndex) removes the root.                         *)
(***************************************************************************)
EXTENDS Heap

CONSTANTS Conns, NoConn

VARIABLES
  jstate,     \* j.R.State
  heapIndex,  \* j.HeapIndex, from 1
  holder      \* j.Reservoir

vars == <<heapVars, jstate, heapIndex, holder>>

Init ==
  /\ HeapInit
  /\ jstate = [x \in Items |-> "none"]
  /\ heapIndex = [x \in Items |-> 1]
  /\ holder = [x \in Items |-> NoConn]

\* put
Put(x) ==
  /\ jstate[x] = "none" /\ Push(x)
  /\ jstate' = [jstate EXCEPT ![x] = "ready"]
  /\ UNCHANGED <<heapIndex, holder>>

\* Take job x off the heap and give it to c, in processQueue or reserve-job.
RemoveJob(c, x) ==
  /\ RemoveAt(heapIndex[x]) /\ members' = members \ {x}
  /\ jstate' = [jstate EXCEPT ![x] = "reserved"]
  /\ holder' = [holder EXCEPT ![x] = c]
  /\ UNCHANGED heapIndex

\* reserve: processQueue takes the root.
Reserve(c) == op = "idle" /\ items # <<>> /\ RemoveJob(c, items[1])

\* reserve-job: removeReadyJob takes the job named, if its state is ready.
ReserveNamed(c, x) == jstate[x] = "ready" /\ RemoveJob(c, x)

\* delete of a ready job: removeReadyJob, and the job is freed.
DeleteNamed(x) ==
  /\ jstate[x] = "ready"
  /\ RemoveAt(heapIndex[x]) /\ members' = members \ {x}
  /\ jstate' = [jstate EXCEPT ![x] = "gone"]
  /\ UNCHANGED <<heapIndex, holder>>

Step == HeapStep /\ UNCHANGED <<jstate, heapIndex, holder>>

Next == \/ Step
        \/ \E x \in Items : Put(x) \/ DeleteNamed(x)
        \/ \E c \in Conns : Reserve(c) \/ \E x \in Items : ReserveNamed(c, x)

Spec == Init /\ [][Next]_vars

\* A reserved job belongs to the worker that took it: reserve and reserve-job never
\* hand it to another one.
NeverTwice ==
  [][\A x \in Items : jstate[x] = "reserved" => holder'[x] = holder[x]]_vars
=============================================================================
