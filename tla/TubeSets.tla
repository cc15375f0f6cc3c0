------------------------------ MODULE TubeSets ------------------------------
(***************************************************************************)
(* The rotating sets of structure/ms.go, and the two uses that connect     *)
(* connections and tubes: Coon.Watch, the tubes that a connection watches, *)
(* whose insert and remove events keep Tube.WatchingCt, and                *)
(* Tube.WaitingConns, from which processQueue takes the connection that    *)
(* gets a job.                                                             *)
(*                                                                         *)
(* A step is a command of a connection or the arrival of a ready job.  The *)
(* jobs themselves, their order and their states are JobQueue's matter.    *)
(***************************************************************************)
EXTENDS Integers, FiniteSets, SequencesExt

CONSTANTS
  Conns,
  Tubes,
  Default,    \* the tube that a new connection watches
  Burst       \* how many workers may be away with a job at once, once the clients are settled
ASSUME TubeAssumption == IsFiniteSet(Conns) /\ Default \in Tubes /\ Burst \in Nat \ {0}

VARIABLES
  open,         \* the connections
  Watch,        \* Coon.Watch
  Waiting,      \* the connections with ConnTypeWaiting
  WaitingConns, \* Tube.WaitingConns
  WatchingCt,   \* Tube.WatchingCt
  settled       \* whether the clients do nothing but reserve by now

queueVars == <<open, Watch, Waiting, WaitingConns, WatchingCt>>
setVars == <<queueVars, settled>>

-----------------------------------------------------------------------------
(* Ms.  Indices count from 1, last from 0 as in the code. *)

NewMs == [items |-> <<>>, last |-> 0]

MsAppend(m, x) == [m EXCEPT !.items = Append(@, x)]

MsDelete(m, i) == [m EXCEPT !.items = RemoveAt(@, i)]

Has(m, x) == x \in Range(m.items)

\* Ms.Remove: the first item that is x.
MsRemove(m, x) ==
  IF Has(m, x)
  THEN MsDelete(m, CHOOSE i \in DOMAIN m.items : m.items[i] = x /\ \A k \in 1..(i - 1) : m.items[k] # x)
  ELSE m

\* Mutant: the item that came last is taken first.
Cursor_End(m) == Len(m.items) - 1

\* Where Take takes from.
Cursor(m) == m.last % Len(m.items)

Taken(m) == m.items[Cursor(m) + 1]

\* Mutant: the cursor counts on and is never brought back into the set.
MsTake_NoWrap(m) == [items |-> RemoveAt(m.items, Cursor(m) + 1), last |-> m.last + 1]

\* Ms.Take: the cursor moves on although the items behind it have moved up.
MsTake(m) == [items |-> RemoveAt(m.items, Cursor(m) + 1), last |-> Cursor(m) + 1]

-----------------------------------------------------------------------------
(* The commands. *)

\* onWatch and onIgnore, the events of a Watch: n is 1 or -1.
Counted(ts, n) == [t \in Tubes |-> WatchingCt[t] + IF t \in ts THEN n ELSE 0]

\* NewConn
NewConn(c) ==
  /\ c \notin open
  /\ open' = open \cup {c}
  /\ Watch' = [Watch EXCEPT ![c] = MsAppend(NewMs, Default)]
  /\ WatchingCt' = Counted({Default}, 1)
  /\ UNCHANGED <<Waiting, WaitingConns>>

\* A connection that waits sends no command: its input is not read.
Free(c) == c \in open /\ c \notin Waiting

dispatchOpWatch(c, t) ==
  /\ Free(c) /\ ~Has(Watch[c], t)
  /\ Watch' = [Watch EXCEPT ![c] = MsAppend(@, t)]
  /\ WatchingCt' = Counted({t}, 1)
  /\ UNCHANGED <<open, Waiting, WaitingConns>>

dispatchOpIgnore(c, t) ==
  /\ Free(c) /\ Has(Watch[c], t) /\ Len(Watch[c].items) >= 2
  /\ Watch' = [Watch EXCEPT ![c] = MsRemove(@, t)]
  /\ WatchingCt' = Counted({t}, -1)
  /\ UNCHANGED <<open, Waiting, WaitingConns>>

\* enqueueWaitingConn
enqueueWaitingConn(c) ==
  /\ Waiting' = Waiting \cup {c}
  /\ WaitingConns' = [t \in Tubes |-> IF Has(Watch[c], t) THEN MsAppend(WaitingConns[t], c)
                                      ELSE WaitingConns[t]]

\* reserve of a connection that finds no job
dispatchOpReserve(c) ==
  /\ Free(c)
  /\ enqueueWaitingConn(c)
  /\ UNCHANGED <<open, Watch, WatchingCt>>

\* Mutant: the connection is taken from the tube of its job only.
removeWaitingCoon_OneTube(ws, c) == ws

\* removeWaitingCoon of the sets ws
removeWaitingCoon(ws, c) ==
  [t \in Tubes |-> IF c \in Waiting /\ Has(Watch[c], t) THEN MsRemove(ws[t], c) ELSE ws[t]]

\* processQueue: a job of tube t gets ready.
processQueue(t) ==
  /\ WaitingConns[t].items # <<>>
  /\ LET c == Taken(WaitingConns[t])
     IN  /\ WaitingConns' = removeWaitingCoon([WaitingConns EXCEPT ![t] = MsTake(@)], c)
         /\ Waiting' = Waiting \ {c}
  /\ UNCHANGED <<open, Watch, WatchingCt>>

\* The client hangs up while it waits: TIMED_OUT
hangup(c) ==
  /\ c \in Waiting
  /\ WaitingConns' = removeWaitingCoon(WaitingConns, c)
  /\ Waiting' = Waiting \ {c}
  /\ UNCHANGED <<open, Watch, WatchingCt>>

\* Mutant: the Watch of the connection is dropped as it is, without the events of Clear.
connClose_NoClear(c) ==
  /\ c \in open
  /\ open' = open \ {c}
  /\ WaitingConns' = removeWaitingCoon(WaitingConns, c) /\ Waiting' = Waiting \ {c}
  /\ Watch' = [Watch EXCEPT ![c] = NewMs]
  /\ UNCHANGED WatchingCt

\* connClose, with Watch.Clear, which deletes one by one.  A connection that waits is closed
\* when the kernel refuses its interest in a hangup.
connClose(c) ==
  /\ c \in open
  /\ open' = open \ {c}
  /\ WaitingConns' = removeWaitingCoon(WaitingConns, c) /\ Waiting' = Waiting \ {c}
  /\ WatchingCt' = Counted(Range(Watch[c].items), -1)
  /\ Watch' = [Watch EXCEPT ![c] = NewMs]

Start ==
  /\ open = {} /\ Waiting = {} /\ settled = FALSE
  /\ Watch = [c \in Conns |-> NewMs]
  /\ WaitingConns = [t \in Tubes |-> NewMs]
  /\ WatchingCt = [t \in Tubes |-> 0]

\* Anything may happen.
Unsettled ==
  \/ \E c \in Conns :
       \/ NewConn(c) \/ dispatchOpReserve(c) \/ hangup(c) \/ connClose(c)
       \/ \E t \in Tubes : dispatchOpWatch(c, t) \/ dispatchOpIgnore(c, t)
  \/ \E t \in Tubes : processQueue(t)

\* From some point on the workers do nothing but reserve, each again once its job is done, and
\* jobs come to each tube as long as fewer than Burst workers are away with one.
Settle == open # {} /\ ~settled /\ settled' = TRUE /\ UNCHANGED queueVars

Again(c)  == settled /\ dispatchOpReserve(c)
Arrive(t) == settled /\ Cardinality(open \ Waiting) < Burst /\ processQueue(t)

SetNext ==
  \/ ~settled /\ Unsettled /\ UNCHANGED settled
  \/ Settle
  \/ UNCHANGED settled /\ \E c \in Conns : Again(c)
  \/ UNCHANGED settled /\ \E t \in Tubes : Arrive(t)

SetSpec == Start /\ [][SetNext]_setVars

\* Once they are settled, workers and jobs do not stop.
SetFair ==
  /\ SetSpec
  /\ \A c \in Conns : WF_setVars(Again(c) /\ UNCHANGED settled)
  /\ \A t \in Tubes : SF_setVars(Arrive(t) /\ UNCHANGED settled)

-----------------------------------------------------------------------------
(* Properties. *)

Listed(s) == \A i, k \in DOMAIN s : s[i] = s[k] => i = k

\* Types of the variables; the cursor of a set stays within the set.
SetTypeOK ==
  /\ open \subseteq Conns /\ Waiting \subseteq open
  /\ \A c \in Conns : Range(Watch[c].items) \subseteq Tubes /\ Watch[c].last = 0
  /\ \A t \in Tubes : /\ Range(WaitingConns[t].items) \subseteq Conns
                      /\ WaitingConns[t].last \in 0..Cardinality(Conns)

\* A connection is in the waiting set of a tube just when it waits and watches the tube, and it
\* is there once.  It is put into several sets and taken out of one of them at a cursor, out of
\* the others by a search; a copy left behind would get a job while the connection is busy.
WaitsWhereItWatches ==
  \A t \in Tubes :
    /\ Listed(WaitingConns[t].items)
    /\ Range(WaitingConns[t].items) = {c \in Waiting : Has(Watch[c], t)}

\* current-watching of stats-tube, which onWatch and onIgnore count up and down, is the number of
\* connections that watch the tube, after any sequence of watch, ignore, reserve and close.
WatchersCounted ==
  \A t \in Tubes : WatchingCt[t] = Cardinality({c \in open : Has(Watch[c], t)})

\* The sets and their counters are sound.
SetInv == SetTypeOK /\ WatchersCounted

\* Once the clients are settled no worker that waits is passed over for ever, wherever the
\* cursors stood before.  It holds while one worker at a time is away; with two away at once
\* (Burst = 2) the cursor, which skips an item each time, may miss the same worker for ever.
EveryoneServed == \A c \in Conns : (settled /\ c \in Waiting) ~> (c \notin Waiting)
=============================================================================
