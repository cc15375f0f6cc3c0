------------------------------ MODULE JobLists ------------------------------
(***************************************************************************)
(* The doubly linked lists of core/job.go: the jobs that a connection has  *)
(* reserved and the jobs buried in a tube.  The links are fields of Job    *)
(* and each list is a ring through a job of its own, its head, so a job is *)
(* in one list at most and is alone when its links point to itself.        *)
(*                                                                         *)
(* A step is a command, as far as it moves jobs between lists.  There is   *)
(* one tube.                                                               *)
(***************************************************************************)
EXTENDS Integers, FiniteSets

CONSTANTS
  Jobs,       \* the jobs of the tube
  Conns,
  Buried      \* t.Buried, a head
ASSUME ListsAssumption ==
  /\ Jobs \cap Conns = {} /\ Buried \notin Jobs \cup Conns
  /\ IsFiniteSet(Jobs) /\ IsFiniteSet(Conns)

\* c stands for its head c.ReservedJobs.
Nodes == Jobs \cup Conns \cup {Buried}

VARIABLES
  NextJob,   \* j.Next
  PrevJob,   \* j.Prev
  state,     \* j.R.State: "ready", "reserved", "buried", "gone"
  holder     \* j.Reservoir; Buried for nil

listVars == <<NextJob, PrevJob, state, holder>>

-----------------------------------------------------------------------------
(* core/job.go.  The lists are [next, prev]. *)

Lists == [next |-> NextJob, prev |-> PrevJob]
SetLists(l) == NextJob' = l.next /\ PrevJob' = l.prev

JobListEmpty(l, n) == l.next[n] = n /\ l.prev[n] = n

\* Mutant: the job keeps its links.
JobListRemove_KeepsLinks(l, n) ==
  IF JobListEmpty(l, n) THEN l
  ELSE [next |-> [l.next EXCEPT ![l.prev[n]] = l.next[n]],
        prev |-> [l.prev EXCEPT ![l.next[n]] = l.prev[n]]]

JobListRemove(l, n) ==
  IF JobListEmpty(l, n) THEN l
  ELSE [next |-> [[l.next EXCEPT ![l.prev[n]] = l.next[n]] EXCEPT ![n] = n],
        prev |-> [[l.prev EXCEPT ![l.next[n]] = l.prev[n]] EXCEPT ![n] = n]]

\* Mutant: the last job of the list is not linked to the new one.
JobListInsert_OneWay(l, h, n) ==
  IF ~JobListEmpty(l, n) THEN l
  ELSE [next |-> [l.next EXCEPT ![n] = h],
        prev |-> [[l.prev EXCEPT ![n] = l.prev[h]] EXCEPT ![h] = n]]

\* JobListInsert(head, j): nothing happens when j is in a list.
JobListInsert(l, h, n) ==
  IF ~JobListEmpty(l, n) THEN l
  ELSE [next |-> [[l.next EXCEPT ![n] = h] EXCEPT ![l.prev[h]] = n],
        prev |-> [[l.prev EXCEPT ![n] = l.prev[h]] EXCEPT ![h] = n]]

\* BuryJob gives JobListInsert its arguments in the other order.
BuryJob(l, j) == JobListInsert(l, j, Buried)

-----------------------------------------------------------------------------
(* The commands. *)

\* put, and a job that gets ready again
Ready(j) == state' = [state EXCEPT ![j] = "ready"] /\ holder' = [holder EXCEPT ![j] = Buried]

\* reserveJob: a waiting connection gets a ready job.
Reserve(c, j) ==
  /\ state[j] = "ready"
  /\ SetLists(JobListInsert(Lists, c, j))
  /\ state' = [state EXCEPT ![j] = "reserved"]
  /\ holder' = [holder EXCEPT ![j] = c]

Held(c, j) == state[j] = "reserved" /\ holder[j] = c

\* release
Release(c, j) ==
  /\ Held(c, j)
  /\ SetLists(JobListRemove(Lists, j))
  /\ Ready(j)

\* bury
Bury(c, j) ==
  /\ Held(c, j)
  /\ SetLists(BuryJob(JobListRemove(Lists, j), j))
  /\ state' = [state EXCEPT ![j] = "buried"]
  /\ holder' = [holder EXCEPT ![j] = Buried]

\* delete of a job that the connection holds
Delete(c, j) ==
  /\ Held(c, j)
  /\ SetLists(JobListRemove(Lists, j))
  /\ state' = [state EXCEPT ![j] = "gone"]
  /\ holder' = [holder EXCEPT ![j] = Buried]

\* Mutant: the job is freed without being taken from the list.
DeleteBuried_StaysLinked(j) ==
  /\ state[j] = "buried" /\ ~JobListEmpty(Lists, j)
  /\ state' = [state EXCEPT ![j] = "gone"]
  /\ UNCHANGED <<NextJob, PrevJob, holder>>

\* removeBuriedJob finds a buried job that is linked, and delete goes on.
DeleteBuried(j) ==
  /\ state[j] = "buried" /\ ~JobListEmpty(Lists, j)
  /\ SetLists(JobListRemove(Lists, j))
  /\ state' = [state EXCEPT ![j] = "gone"]
  /\ UNCHANGED holder

\* reserve-job of a buried job.  One that is not linked makes it dereference nil.
ReserveBuried(c, j) ==
  /\ state[j] = "buried" /\ ~JobListEmpty(Lists, j)
  /\ SetLists(JobListInsert(JobListRemove(Lists, j), c, j))
  /\ state' = [state EXCEPT ![j] = "reserved"]
  /\ holder' = [holder EXCEPT ![j] = c]

\* enqueueReservedJobs of connClose: one round of its loop
GiveBack(c) ==
  /\ ~JobListEmpty(Lists, c)
  /\ SetLists(JobListRemove(Lists, NextJob[c]))
  /\ Ready(NextJob[c])

Init ==
  /\ NextJob = [n \in Nodes |-> n] /\ PrevJob = [n \in Nodes |-> n]
  /\ state = [j \in Jobs |-> "ready"]
  /\ holder = [j \in Jobs |-> Buried]

ListNext ==
  \/ \E j \in Jobs : DeleteBuried(j)
  \/ \E c \in Conns : GiveBack(c)
  \/ \E c \in Conns, j \in Jobs :
       Reserve(c, j) \/ Release(c, j) \/ Bury(c, j) \/ Delete(c, j) \/ ReserveBuried(c, j)

ListSpec == Init /\ [][ListNext]_listVars

-----------------------------------------------------------------------------
(* Properties. *)

\* Types of the variables.
ListTypeOK ==
  /\ NextJob \in [Nodes -> Nodes] /\ PrevJob \in [Nodes -> Nodes]
  /\ state \in [Jobs -> {"ready", "reserved", "buried", "gone"}]
  /\ holder \in [Jobs -> Conns \cup {Buried}]

\* Each link is answered by the link back.
Ringed == \A n \in Nodes : NextJob[PrevJob[n]] = n /\ PrevJob[NextJob[n]] = n

\* The lists are rings, whatever is inserted and removed in whatever order, the arguments that
\* BuryJob swaps included: a job can be taken out from the middle of whatever list it is in.
ListInv == ListTypeOK /\ Ringed

\* The list that a node belongs to if it is in any.
Owner == [n \in Nodes |-> IF n \notin Jobs THEN n
                         ELSE IF state[n] = "reserved" THEN holder[n] ELSE Buried]

\* A link never leads from one list into another, and a job that is neither reserved nor buried
\* is in no list: a ready job can be linked to its next holder, and closing a connection gives
\* back only what it holds.
OwnLists ==
  /\ \A n \in Nodes : NextJob[n] = n \/ Owner[NextJob[n]] = Owner[n]
  /\ \A j \in Jobs : state[j] \in {"ready", "gone"} => NextJob[j] = j

\* The nodes that a walk from h along the links comes to, one after the other.
Steps(h) ==
  LET at[k \in 0..Cardinality(Nodes)] == IF k = 0 THEN h ELSE NextJob[at[k - 1]]
  IN  at

\* Those that it passes before it is back at h.
Walk(h) ==
  LET at == Steps(h)
  IN  {at[k] : k \in {i \in 1..Cardinality(Nodes) : \A m \in 1..i : at[m] # h}}

\* A walk along c.ReservedJobs meets just the jobs that c holds: closing the connection gives
\* all of them back and no other.
ReservedListed == \A c \in Conns : Walk(c) = {j \in Jobs : Held(c, j)}
=============================================================================
