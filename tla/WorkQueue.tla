----------------------------- MODULE WorkQueue ------------------------------
(***************************************************************************)
(* What the server promises of its jobs, without tubes, priorities, time   *)
(* or an event loop: a job that was accepted is at every moment in one     *)
(* place, it moves one step at a time, and once a worker holds it only     *)
(* that worker's doing (or the end of its connection) takes it away.       *)
(* That holds until a job goes astray: a command on a queued job, by its   *)
(* id, may take another job out of the queue, and from then on nothing is  *)
(* promised.                                                               *)
(***************************************************************************)
CONSTANTS Jobs, Workers

VARIABLES
  fresh,     \* ids not used yet
  arriving,  \* their bodies are still being read
  ready, delayed, buried,
  held,      \* the jobs each worker holds
  astray     \* a job is not where it should be

vars == <<fresh, arriving, ready, delayed, buried, held, astray>>

Init ==
  /\ fresh = Jobs /\ arriving = {} /\ ready = {} /\ delayed = {} /\ buried = {}
  /\ held = [w \in Workers |-> {}]
  /\ ~astray

\* put, with a body that is accepted or refused at once, or still to come.
Submit(j) ==
  /\ j \in fresh /\ fresh' = fresh \ {j}
  /\ \/ arriving' = arriving \cup {j} /\ UNCHANGED <<ready, delayed>>
     \/ ready' = ready \cup {j} /\ UNCHANGED <<arriving, delayed>>
     \/ delayed' = delayed \cup {j} /\ UNCHANGED <<arriving, ready>>
     \/ UNCHANGED <<arriving, ready, delayed>>
  /\ UNCHANGED <<buried, held>>

\* The body is complete, and accepted or refused.
Arrive(j) ==
  /\ j \in arriving /\ arriving' = arriving \ {j}
  /\ \/ ready' = ready \cup {j} /\ UNCHANGED delayed
     \/ delayed' = delayed \cup {j} /\ UNCHANGED ready
     \/ UNCHANGED <<ready, delayed>>
  /\ UNCHANGED <<fresh, buried, held>>

\* j leaves the one place it is queued in.
Leave(j) ==
  /\ j \in ready \cup delayed \cup buried
  /\ ready' = ready \ {j} /\ delayed' = delayed \ {j} /\ buried' = buried \ {j}

\* A worker takes a job that nobody holds.
Reserve(w, j) ==
  /\ Leave(j)
  /\ held' = [held EXCEPT ![w] = @ \cup {j}]
  /\ UNCHANGED <<fresh, arriving>>

\* A job that nobody holds is deleted.
Delete(j) == Leave(j) /\ UNCHANGED <<fresh, arriving, held>>

\* A worker gives a job back, buries it or deletes it.
Return(w, j) ==
  /\ j \in held[w] /\ held' = [held EXCEPT ![w] = @ \ {j}]
  /\ \/ ready' = ready \cup {j} /\ UNCHANGED <<delayed, buried>>
     \/ delayed' = delayed \cup {j} /\ UNCHANGED <<ready, buried>>
     \/ buried' = buried \cup {j} /\ UNCHANGED <<ready, delayed>>
     \/ UNCHANGED <<ready, delayed, buried>>
  /\ UNCHANGED <<fresh, arriving>>

\* The delay of a job ends.
Mature(j) ==
  /\ j \in delayed /\ delayed' = delayed \ {j} /\ ready' = ready \cup {j}
  /\ UNCHANGED <<fresh, arriving, buried, held>>

\* A job is asked for by its id and the queue gives up another one.
GoAstray == (ready # {} \/ delayed # {}) /\ astray'

Move == \E j \in Jobs :
          \/ Submit(j) \/ Arrive(j) \/ Delete(j) \/ Mature(j)
          \/ \E w \in Workers : Reserve(w, j) \/ Return(w, j)

Next == ~astray /\ (GoAstray \/ (Move /\ ~astray'))

Spec == Init /\ [][Next]_vars
=============================================================================
