----------------------------- MODULE EventLoop ------------------------------
(***************************************************************************)
(* The loop of net/serv.go that waits for one socket event at a time, and  *)
(* the list epollQ of net/prot.go that carries what each connection wants  *)
(* to hear of next from the handlers to the kernel.                        *)
(*                                                                         *)
(* epollQ is a linked list through the connections themselves: Next is a   *)
(* field of Coon, so a connection that is added while it is in the list    *)
(* links the list into a ring.  One batch may add a connection two or      *)
(* three times.  Closing a connection while the list is applied would wake *)
(* others and so add to it, but that connClose never goes through.         *)
(*                                                                         *)
(* Handlers run one at a time; EpollQApply is a step per connection it     *)
(* takes from the list, so that a ring it would never leave shows.  Jobs   *)
(* are only counted, and there is one tube: which job a waiting connection *)
(* gets is JobQueue's matter.                                              *)
(***************************************************************************)
EXTENDS Integers, FiniteSets, SequencesExt

CONSTANTS
  Conns,
  Backend,      \* "kqueue": net/darwin.go; "epoll": net/linux.go
  MaxRefused,   \* bound: connections of which the kernel refuses an interest
  MaxJobs,      \* bound: jobs in the server
  MaxPipe       \* bound: commands that one read may bring

Nil == "nil"

ASSUME LoopAssumption ==
  /\ IsFiniteSet(Conns) /\ Nil \notin Conns
  /\ Backend \in {"kqueue", "epoll"} /\ MaxRefused \in Nat
  /\ MaxJobs \in Nat /\ MaxPipe \in Nat \ {0}

VARIABLES
  pc,        \* "tick", "poll", "apply", and "apply2", the EpollQApply at the end of protTick
  epollQ,    \* the head of the list
  NextConn,  \* Coon.Next
  Rw,        \* Coon.Rw
  State,     \* "none" before the connection is accepted, then Coon.State; "Closed" at its end
  sock,      \* model.Socket and what the kernel knows of it
  buf,       \* commands read and not yet dispatched
  peer,      \* the client: "away", "here", "left"
  waiting,   \* Tube.WaitingConns
  held,      \* jobs reserved by each connection
  ready,     \* jobs in the ready heap
  delayed,   \* jobs in the delay heap
  closes     \* how often connClose went through, by connection

queueVars == <<epollQ, NextConn, Rw>>
jobVars == <<waiting, held, ready, delayed>>
loopVars == <<pc, queueVars, State, sock, buf, peer, jobVars, closes>>

-----------------------------------------------------------------------------
(* The list.  q is [head, next, rw]. *)

Queue == [head |-> epollQ, next |-> NextConn, rw |-> Rw]

SetQueue(q) == epollQ' = q.head /\ NextConn' = q.next /\ Rw' = q.rw

\* Mutant: a connection that has a successor is taken to be in the list, with its old Rw.
EpollQAdd_IfAbsent(q, c, rw) ==
  IF q.head = c \/ q.next[c] # Nil THEN q
  ELSE [head |-> c, next |-> [q.next EXCEPT ![c] = q.head], rw |-> [q.rw EXCEPT ![c] = rw]]

EpollQAdd(q, c, rw) ==
  [head |-> c, next |-> [q.next EXCEPT ![c] = q.head], rw |-> [q.rw EXCEPT ![c] = rw]]

\* The adds of one handler, a sequence of <<connection, interest>>.
AddAll(q, adds) ==
  LET list[i \in 0..Len(adds)] ==
        IF i = 0 THEN q ELSE EpollQAdd(list[i - 1], adds[i][1], adds[i][2])
  IN  list[Len(adds)]

\* EpollQRmConn: takes the list apart and puts it together in the opposite order without c.
EpollQRmConn(q, c) ==
  LET Step(s) ==
        IF s.head = Nil THEN s
        ELSE LET x == s.head
                 cut == [s.next EXCEPT ![x] = Nil]
             IN  [head |-> s.next[x],
                  next |-> IF x # c THEN [cut EXCEPT ![x] = s.new] ELSE cut,
                  new  |-> IF x # c THEN x ELSE s.new]
      list[i \in 0..(2 * Cardinality(Conns))] ==
        IF i = 0 THEN [head |-> q.head, next |-> q.next, new |-> Nil] ELSE Step(list[i - 1])
      done == list[2 * Cardinality(Conns)]
  IN  [head |-> done.new, next |-> done.next, rw |-> q.rw]

-----------------------------------------------------------------------------
(* The kernel.  sock[c]: Added and AddedFilter as model.Socket has them,   *)
(* open for its descriptor, reg for what is registered under it, refused   *)
(* for whether the kernel ever refused a change.                           *)

NoSock == [Added |-> FALSE, AddedFilter |-> "none", open |-> FALSE, reg |-> "none",
           refused |-> FALSE]

Refused == {c \in Conns : sock[c].refused}

\* "h" is the read filter with a mark that no input reaches.
Filter(rw) == IF rw = "h" THEN "r" ELSE rw

\* sockWant(s, rw) of net/darwin.go: the possible results.  rw = "none" is the 0 of connClose.
\* The kernel gets two changes, the deletion of the old filter and the new one, and stops at
\* the first that it refuses.  (With net/linux.go no connection is ever accepted: see sockNext.)
sockWant(s, rw) ==
  LET found == ~s.Added \/ (s.reg # "none" /\ Filter(s.reg) = s.AddedFilter)
      gone  == IF s.Added THEN [s EXCEPT !.reg = "none"] ELSE s
      noted(t) == IF rw = "none" THEN t ELSE [t EXCEPT !.Added = TRUE, !.AddedFilter = Filter(rw)]
      refusal(t) == [ok |-> FALSE, s |-> [noted(t) EXCEPT !.refused = TRUE]]
  IN  IF ~s.open THEN {IF ~s.Added /\ rw = "none" THEN [ok |-> TRUE, s |-> s] ELSE refusal(s)}
      ELSE IF ~found THEN {refusal(s)}
      ELSE IF rw = "none" THEN {[ok |-> TRUE, s |-> gone]}
      ELSE {[ok |-> TRUE, s |-> [noted(gone) EXCEPT !.reg = rw]]}
           \cup IF s.refused \/ Cardinality(Refused) < MaxRefused THEN {refusal(gone)} ELSE {}

\* sockNext returns the event and its socket.  On epoll the kernel fills a copy of ev, which
\* the code does not read: the event is 0 whatever happened.
sockNextReports == Backend = "kqueue"

\* What the kernel has to report of c: input, the end of the input, room for output.
Pending(c) ==
  /\ sock[c].open
  /\ \/ sock[c].reg = "r" /\ peer[c] \in {"here", "left"}
     \/ sock[c].reg = "h" /\ peer[c] = "left"
     \/ sock[c].reg = "w"

-----------------------------------------------------------------------------
(* Jobs and the connections that wait for one. *)

Fewer(a, b) == IF a < b THEN a ELSE b

\* processQueue: the orders in which n ready jobs may find members of W.
Servings(W, n) ==
  {s \in [1..Fewer(n, Cardinality(W)) -> W] : \A i, j \in DOMAIN s : s[i] = s[j] => i = j}

ReplyAll(s) == [i \in DOMAIN s |-> <<s[i], "w">>]

\* A handler's work on the queue: before are the connection's adds, then the members of W that
\* n ready jobs are for get theirs, then the adds of after.  states and holds
\* are what the jobs find when they are handed out.
Serve(before, W, n, states, holds, after) ==
  \E s \in Servings(W, n) :
    LET woken == Range(s)
    IN  /\ SetQueue(AddAll(before, ReplyAll(s) \o after))
        /\ waiting' = W \ woken
        /\ ready' = n - Len(s)
        /\ held' = [x \in Conns |-> holds[x] + IF x \in woken THEN 1 ELSE 0]
        /\ State' = [x \in Conns |-> IF x \in woken THEN "Send" ELSE states[x]]

Jobs == ready + delayed + FoldFunction(+, 0, held)

\* Mutant: the result of sockWant is not looked at.
connClose_Always(q, c, states, k) ==
  \E d \in sockWant(k, "none") :
    /\ sock' = [sock EXCEPT ![c] = [d.s EXCEPT !.open = FALSE, !.reg = "none"]]
    /\ Serve(q, waiting \ {c}, ready + held[c], [states EXCEPT ![c] = "Closed"],
             [held EXCEPT ![c] = 0], <<>>)
    /\ closes' = [closes EXCEPT ![c] = @ + 1]

\* connClose of c, whose socket is k: nothing happens unless the kernel lets go of the socket.
\* The jobs of c go back and may wake others.
connClose(q, c, states, k) ==
  \E d \in sockWant(k, "none") :
    IF d.ok
    THEN /\ sock' = [sock EXCEPT ![c] = [d.s EXCEPT !.open = FALSE]]
         /\ Serve(q, waiting \ {c}, ready + held[c], [states EXCEPT ![c] = "Closed"],
                  [held EXCEPT ![c] = 0], <<>>)
         /\ closes' = [closes EXCEPT ![c] = @ + 1]
    ELSE /\ sock' = [sock EXCEPT ![c] = d.s]
         /\ SetQueue(q) /\ State' = states
         /\ UNCHANGED <<waiting, held, ready, closes>>

-----------------------------------------------------------------------------
(* The client. *)

Arrive(c) ==
  /\ peer[c] = "away"
  /\ peer' = [peer EXCEPT ![c] = "here"]
  /\ UNCHANGED <<pc, queueVars, State, sock, buf, jobVars, closes>>

\* The client closes its end; everything it sent has been read.
Leave(c) ==
  /\ peer[c] = "here"
  /\ peer' = [peer EXCEPT ![c] = "left"]
  /\ UNCHANGED <<pc, queueVars, State, sock, buf, jobVars, closes>>

-----------------------------------------------------------------------------
(* The loop. *)

\* protTick: n delayed jobs are due.  Its loop over s.Connes, which would answer a reserve whose
\* time is over, starts with i = Len and runs while i > Len: connTimeout is never called.
protTick ==
  /\ pc = "tick"
  /\ \E n \in 0..delayed :
       /\ delayed' = delayed - n
       /\ Serve(Queue, waiting, ready + n, State, held, <<>>)
  /\ pc' = "apply2"
  /\ UNCHANGED <<sock, buf, peer, closes>>

\* Mutant: the connection keeps its successor.
EpollQApply_KeepsNext ==
  /\ pc \in {"apply", "apply2"}
  /\ \/ /\ epollQ = Nil
        /\ pc' = IF pc = "apply" THEN "tick" ELSE "poll"
        /\ UNCHANGED <<queueVars, State, sock, jobVars, closes>>
     \/ /\ epollQ # Nil
        /\ UNCHANGED <<pc, delayed>>
        /\ \E r \in sockWant(sock[epollQ], Rw[epollQ]) :
             /\ r.ok
             /\ sock' = [sock EXCEPT ![epollQ] = r.s]
             /\ SetQueue([Queue EXCEPT !.head = NextConn[epollQ]])
             /\ UNCHANGED <<State, waiting, held, ready, closes>>
  /\ UNCHANGED <<buf, peer>>

\* EpollQApply: one round of its loop, or its return.
EpollQApply ==
  /\ pc \in {"apply", "apply2"}
  /\ \/ /\ epollQ = Nil
        /\ pc' = IF pc = "apply" THEN "tick" ELSE "poll"
        /\ UNCHANGED <<queueVars, State, sock, jobVars, closes>>
     \/ /\ epollQ # Nil
        /\ UNCHANGED <<pc, delayed>>
        /\ LET c == epollQ
               rest == [head |-> NextConn[c], next |-> [NextConn EXCEPT ![c] = Nil], rw |-> Rw]
           IN  \E r \in sockWant(sock[c], Rw[c]) :
                 \/ /\ r.ok
                    /\ sock' = [sock EXCEPT ![c] = r.s]
                    /\ SetQueue(rest)
                    /\ UNCHANGED <<State, waiting, held, ready, closes>>
                 \/ ~r.ok /\ connClose(rest, c, State, r.s)
  /\ UNCHANGED <<buf, peer>>

\* sockNext returns without an event: its time is over, or on epoll what happened is not seen.
NoEvent ==
  /\ pc = "poll"
  /\ pc' = "tick"
  /\ UNCHANGED <<queueVars, State, sock, buf, peer, jobVars, closes>>

\* hAccept: an event of the listening socket.  When the interest is refused the descriptor is
\* closed and the connection stays as it was made.
hAccept(c) ==
  /\ pc = "poll" /\ sockNextReports
  /\ State[c] = "none" /\ peer[c] # "away"
  /\ State' = [State EXCEPT ![c] = "WantCommand"]
  /\ \E r \in sockWant([NoSock EXCEPT !.open = TRUE], "r") :
       sock' = [sock EXCEPT ![c] = IF r.ok THEN r.s ELSE [r.s EXCEPT !.open = FALSE]]
  /\ pc' = "apply"
  /\ UNCHANGED <<queueVars, buf, peer, jobVars, closes>>

\* What every handler of an event of c starts with and leaves alone.
Event(c) ==
  /\ pc = "poll" /\ sockNextReports
  /\ State[c] \notin {"none", "Closed"} /\ Pending(c)
  /\ pc' = "apply"
  /\ UNCHANGED peer

\* dispatchCmd of a command of c, with q the list so far and b the commands that follow it.
\* A command that does not touch the queue: it replies.
Quick(c, q, b) ==
  /\ SetQueue(EpollQAdd(q, c, "w"))
  /\ State' = [State EXCEPT ![c] = "Send"]
  /\ buf' = [buf EXCEPT ![c] = b]
  /\ UNCHANGED <<sock, jobVars, closes>>

\* put, with its body all there and no delay
PutReady(c, q, b) ==
  /\ Jobs < MaxJobs
  /\ Serve(q, waiting, ready + 1, [State EXCEPT ![c] = "Send"], held, <<<<c, "w">>>>)
  /\ buf' = [buf EXCEPT ![c] = b]
  /\ UNCHANGED <<sock, delayed, closes>>

\* put with a delay
PutDelayed(c, q, b) ==
  /\ Jobs < MaxJobs
  /\ delayed' = delayed + 1
  /\ SetQueue(EpollQAdd(q, c, "w"))
  /\ State' = [State EXCEPT ![c] = "Send"]
  /\ buf' = [buf EXCEPT ![c] = b]
  /\ UNCHANGED <<sock, waiting, held, ready, closes>>

\* put whose body, wanted or to be skipped, has yet to come.  The interest stays in reading.
PutPart(c, q, b) ==
  /\ b = 0
  /\ SetQueue(q)
  /\ \E s \in {"WantData", "Bitbucket"} : State' = [State EXCEPT ![c] = s]
  /\ buf' = [buf EXCEPT ![c] = 0]
  /\ UNCHANGED <<sock, jobVars, closes>>

\* reserve: waitForJob, then processQueue, which may serve c at once.  A timeout that is no
\* number is answered BAD_FORMAT, and then the connection waits all the same.
Reserve(c, q, b) ==
  /\ \E first \in {q, EpollQAdd(q, c, "w")} :
       Serve(EpollQAdd(first, c, "h"), waiting \cup {c}, ready, [State EXCEPT ![c] = "Wait"],
             held, <<>>)
  /\ buf' = [buf EXCEPT ![c] = b]
  /\ UNCHANGED <<sock, delayed, closes>>

\* delete, bury of a job that c holds
Drop(c, q, b) ==
  /\ held[c] > 0
  /\ held' = [held EXCEPT ![c] = @ - 1]
  /\ SetQueue(EpollQAdd(q, c, "w"))
  /\ State' = [State EXCEPT ![c] = "Send"]
  /\ buf' = [buf EXCEPT ![c] = b]
  /\ UNCHANGED <<sock, waiting, ready, delayed, closes>>

\* release
Release(c, q, b) ==
  /\ held[c] > 0
  /\ Serve(q, waiting, ready + 1, [State EXCEPT ![c] = "Send"], [held EXCEPT ![c] = @ - 1],
           <<<<c, "w">>>>)
  /\ buf' = [buf EXCEPT ![c] = b]
  /\ UNCHANGED <<sock, delayed, closes>>

\* Mutant: the connection is closed and stays in the list.
HangUp_StaysQueued(c, q) ==
  /\ connClose(q, c, [State EXCEPT ![c] = "Close"], sock[c])
  /\ buf' = [buf EXCEPT ![c] = 0]
  /\ UNCHANGED delayed

\* StateClose at the end of hConn
HangUp(c, q) ==
  /\ connClose(EpollQRmConn(q, c), c, [State EXCEPT ![c] = "Close"], sock[c])
  /\ buf' = [buf EXCEPT ![c] = 0]
  /\ UNCHANGED delayed

\* The rest of hConn when commands are in the buffer: one is dispatched, which leaves
\* StateWantCommand, so that the others wait for the next event.
Dispatch(c, q, b) ==
  \/ Quick(c, q, b) \/ PutReady(c, q, b) \/ PutDelayed(c, q, b) \/ PutPart(c, q, b)
  \/ Reserve(c, q, b) \/ Drop(c, q, b) \/ Release(c, q, b)
  \/ HangUp(c, q)                                                  \* quit

\* Nothing comes of the event: part of a line or of a body was read.
Partial(c) ==
  /\ Event(c)
  /\ State[c] \in {"WantCommand", "WantData", "Bitbucket"} /\ peer[c] = "here"
  /\ UNCHANGED <<queueVars, State, sock, buf, jobVars, closes>>

ReadCommands(c) ==
  /\ Event(c) /\ State[c] = "WantCommand" /\ peer[c] = "here"
  /\ \E n \in 1..MaxPipe : Dispatch(c, Queue, n - 1)

\* WantData: the body is whole.  Bitbucket: all was skipped.
ReadBody(c) ==
  /\ Event(c) /\ peer[c] = "here"
  /\ \/ State[c] \in {"WantData", "Bitbucket"} /\ Quick(c, Queue, 0)
     \/ State[c] = "WantData" /\ (PutReady(c, Queue, 0) \/ PutDelayed(c, Queue, 0))

ReadEnd(c) ==
  /\ Event(c) /\ State[c] \in {"WantCommand", "WantData", "Bitbucket"} /\ peer[c] = "left"
  /\ HangUp(c, Queue)

connWantCommand(q, c) == EpollQAdd(q, c, "r")

\* SendWord, SendJob: the reply is written, and a command that came with the one it answers is
\* dispatched.
WriteReply(c) ==
  /\ Event(c) /\ State[c] = "Send"
  /\ LET q == connWantCommand(Queue, c)
     IN  \/ /\ buf[c] = 0
            /\ SetQueue(q)
            /\ State' = [State EXCEPT ![c] = "WantCommand"]
            /\ UNCHANGED <<sock, buf, jobVars, closes>>
         \/ buf[c] > 0 /\ Dispatch(c, q, buf[c] - 1)

\* Mutant: a hangup is only noted.
Hangup_Noted(c) ==
  /\ Event(c) /\ State[c] = "Wait" /\ peer[c] = "left"
  /\ UNCHANGED <<queueVars, State, sock, buf, jobVars, closes>>

\* Wait: the client has hung up.
Hangup(c) ==
  /\ Event(c) /\ State[c] = "Wait" /\ peer[c] = "left"
  /\ waiting' = waiting \ {c}
  /\ SetQueue(EpollQAdd(Queue, c, "w"))
  /\ State' = [State EXCEPT ![c] = "Send"]
  /\ UNCHANGED <<sock, buf, held, ready, delayed, closes>>

Handle(c) ==
  Partial(c) \/ ReadCommands(c) \/ ReadBody(c) \/ ReadEnd(c) \/ WriteReply(c) \/ Hangup(c)

Init ==
  /\ pc = "tick"
  /\ epollQ = Nil /\ NextConn = [c \in Conns |-> Nil] /\ Rw = [c \in Conns |-> "none"]
  /\ State = [c \in Conns |-> "none"]
  /\ sock = [c \in Conns |-> NoSock]
  /\ buf = [c \in Conns |-> 0]
  /\ peer = [c \in Conns |-> "away"]
  /\ waiting = {} /\ held = [c \in Conns |-> 0] /\ ready = 0 /\ delayed = 0
  /\ closes = [c \in Conns |-> 0]

Start ==
  \/ protTick \/ EpollQApply \/ NoEvent
  \/ \E c \in Conns : hAccept(c) \/ Handle(c)

LoopNext == Start \/ \E c \in Conns : Arrive(c) \/ Leave(c)

LoopSpec == Init /\ [][LoopNext]_loopVars

\* The loop runs on; the kernel reports every socket that has something to report in its turn;
\* a client that stays does not send part of a message for ever.
LoopFair ==
  /\ LoopSpec
  /\ WF_loopVars(Start)
  /\ \A c \in Conns : SF_loopVars(hAccept(c)) /\ SF_loopVars(ReadEnd(c) \/ WriteReply(c) \/ Hangup(c))

-----------------------------------------------------------------------------
(* Properties. *)

\* Types of the variables.
LoopTypeOK ==
  /\ pc \in {"tick", "poll", "apply", "apply2"}
  /\ epollQ \in Conns \cup {Nil} /\ NextConn \in [Conns -> Conns \cup {Nil}]
  /\ Rw \in [Conns -> {"none", "r", "w", "h"}]
  /\ State \in [Conns -> {"none", "WantCommand", "WantData", "Bitbucket", "Send", "Wait", "Close", "Closed"}]
  /\ sock \in [Conns -> [Added : BOOLEAN, AddedFilter : {"none", "r", "w"}, open : BOOLEAN,
                         reg : {"none", "r", "w", "h"}, refused : BOOLEAN]]
  /\ buf \in [Conns -> 0..(MaxPipe - 1)]
  /\ peer \in [Conns -> {"away", "here", "left"}]
  /\ waiting \subseteq Conns /\ held \in [Conns -> Nat]
  /\ ready \in Nat /\ delayed \in Nat
  /\ closes \in [Conns -> Nat]

Wants(s) == CASE s = "Send" -> "w" [] s = "Wait" -> "h" [] OTHER -> "r"

\* When the loop goes to wait for an event, the kernel watches every open connection for what
\* its state needs: input, a hangup or room for the reply.  A batch may have added it to the
\* list three times, with three interests, and linked the list into a ring.
Registered ==
  pc = "poll" => \A c \in Conns \ Refused : sock[c].open => sock[c].reg = Wants(State[c])

\* When the list has been applied no link is left in the list: the next add of a
\* connection starts a list of its own.
Drained == pc \in {"poll", "tick"} => epollQ = Nil /\ \A c \in Conns : NextConn[c] = Nil

\* EpollQApply ends, whatever rings the adds have made and whichever interests the kernel
\* refuses.
Applied == (pc \in {"apply", "apply2"}) ~> (pc \in {"tick", "poll"})

\* connClose goes through at most once for a connection, also when the connection is in the
\* list twice and the kernel refuses it.
ClosedOnce == \A c \in Conns : closes[c] <= 1

\* The list and the connections are sound: nothing stays linked once the list is applied, and
\* no connection is closed twice, however the adds of a handler have linked the list.
LoopInv == LoopTypeOK /\ Drained /\ ClosedOnce

\* A connection that was closed holds no job, waits for none and is not in the list: nothing
\* is handed to it again.
ClosedIsGone ==
  \A c \in Conns : State[c] = "Closed" =>
    /\ c \notin waiting /\ held[c] = 0 /\ ~sock[c].open
    /\ epollQ # c /\ \A x \in Conns : NextConn[x] # c

\* A client that has closed its end is closed by the server, in whatever state it left the
\* connection: waiting for a job, with a reply to send or commands to run.  A connection whose
\* interest was refused may stay open: connClose asks the kernel once more and then gives up.
Heard == \A c \in Conns : (peer[c] = "left") ~> (State[c] = "Closed" \/ c \in Refused)
=============================================================================
