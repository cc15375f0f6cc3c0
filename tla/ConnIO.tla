------------------------------- MODULE ConnIO -------------------------------
(***************************************************************************)
(* How a connection cuts its input into commands and bodies: hConn,        *)
(* connProcessIO and scanLineEnd of net/serv.go, fillExtraData and skip of *)
(* net/prot.go.                                                            *)
(*                                                                         *)
(* The client sends a script of messages over a stream that delivers them  *)
(* in pieces of any size.  Bytes are positions in the stream, and all that *)
(* is known of them is where a CRLF stands and where a message starts.  A  *)
(* step is a whole call of hConn.  What a command does is JobQueue's       *)
(* matter: here it ends in a reply (a reserve that waits replies later).   *)
(* Replies are written whole or not at all: os.File.Write goes on until    *)
(* everything is written.                                                  *)
(***************************************************************************)
EXTENDS Integers, SequencesExt

CONSTANTS
  Scripts,          \* the sequences of messages that the client may send
  LineSize,         \* bytes of a command line with its CRLF, by kind of message
  BodySize,         \* bytes of a body with its CRLF, by kind; 0 for no body
  InnerCR,          \* offset in the body of another CRLF, by kind; 0 for none
  LineBufSize,      \* constant.LineBufSize
  BucketBufSize,    \* constant.BucketBufSize
  MayLeave,         \* the ways the client may leave: "eof", "reset"
  Kinds             \* of messages
ASSUME SizesAssumption ==
  /\ LineSize \in [Kinds -> Nat] /\ BodySize \in [Kinds -> Nat] /\ InnerCR \in [Kinds -> Nat]
  /\ LineBufSize \in Nat \ {0} /\ BucketBufSize \in Nat \ {0}

\* Kinds of messages: "cmd"; "put" and "putin", whose body has a CRLF inside; "big", a put
\* whose body is over max-job-size; "long", a line that LineBufSize cannot hold.
Puts == {"put", "putin"}

ASSUME ScriptsAssumption ==
  /\ Kinds \subseteq {"cmd", "long", "big"} \cup Puts /\ Scripts \subseteq Seq(Kinds)
  /\ \A k \in Kinds :
       /\ LineSize[k] >= 2 /\ (LineSize[k] > LineBufSize <=> k = "long")
       /\ IF k \in {"big"} \cup Puts THEN BodySize[k] >= 2 ELSE BodySize[k] = 0
       /\ InnerCR[k] > 0 => InnerCR[k] < BodySize[k]

VARIABLES
  msgs,      \* the script
  stream,    \* how it lies in the stream
  sent,      \* bytes that the client has sent
  rcvd,      \* bytes that the server has read
  peer,      \* "open", "eof" or "reset"
  c,         \* the connection: model.Coon
  served,    \* for each command dispatched, the message that starts where its line starts
  replies    \* what was written to the client

ioVars == <<msgs, stream, sent, rcvd, peer, c, served, replies>>

-----------------------------------------------------------------------------
(* The stream. *)

\* Where the messages of a script start, where they end, and where the '\r' of a CRLF stands.
Laid(ms) ==
  LET end[i \in 0..Len(ms)] ==
        IF i = 0 THEN 0 ELSE end[i - 1] + LineSize[ms[i]] + BodySize[ms[i]]
      Body(i) == end[i - 1] + LineSize[ms[i]]
  IN  [start |-> [i \in DOMAIN ms |-> end[i - 1]],
       total |-> end[Len(ms)],
       crs   |-> {Body(i) - 2 : i \in DOMAIN ms}
                 \cup {Body(i) + BodySize[ms[i]] - 2 : i \in {k \in DOMAIN ms : BodySize[ms[k]] > 0}}
                 \cup {Body(i) + InnerCR[ms[i]] : i \in {k \in DOMAIN ms : InnerCR[ms[k]] > 0}}]

BodyAt(i) == stream.start[i] + LineSize[msgs[i]]

\* The message that starts at position p; 0 when none does.
MessageAt(p) ==
  LET at == {i \in DOMAIN msgs : stream.start[i] = p}
  IN  IF at = {} THEN 0 ELSE CHOOSE i \in at : TRUE

Least(a, b) == IF a < b THEN a ELSE b

-----------------------------------------------------------------------------
(* The connection.  k.base is the position of k.Cmd[0], k.len its length.  *)

NewConn ==
  [State |-> "WantCommand", base |-> 0, len |-> 0, CmdRead |-> 0, CmdLen |-> 0,
   InJob |-> 0, InJobRead |-> 0, held |-> 0, Reply |-> "none"]

\* Mutant: off by one, the '\n' is left behind.
scanLineEnd_LeavesLF(k) ==
  LET crs == {p \in stream.crs : p >= k.base /\ p < k.base + k.len}
      first == CHOOSE p \in crs : \A q \in crs : p <= q
  IN  IF k.len < 2 \/ k.len # k.CmdRead \/ crs = {} \/ first + 1 >= k.base + k.len THEN 0
      ELSE first + 1 - k.base

scanLineEnd(k) ==
  LET crs == {p \in stream.crs : p >= k.base /\ p < k.base + k.len}
      first == CHOOSE p \in crs : \A q \in crs : p <= q
  IN  IF k.len < 2 \/ k.len # k.CmdRead \/ crs = {} \/ first + 1 >= k.base + k.len THEN 0
      ELSE first + 2 - k.base

\* reply, replyMsg
reply(k, msg) == [k EXCEPT !.Reply = msg, !.State = "SendWord"]

InBodySize(k) == BodySize[msgs[k.InJob]]

\* fillExtraData: what follows the command goes to the body, or to what is skipped, and the
\* rest is the start of the next command.
fillExtraData(k) ==
  LET extra == k.CmdRead - k.CmdLen
      data  == IF k.InJob # 0 THEN Least(extra, InBodySize(k))
               ELSE IF k.InJobRead > 0 THEN Least(extra, k.InJobRead) ELSE 0
  IN  IF k.CmdLen = 0 THEN k
      ELSE [k EXCEPT !.base = @ + k.CmdLen + data,
                     !.len = extra - data, !.CmdRead = extra - data, !.CmdLen = 0,
                     !.held = IF k.InJob # 0 THEN data ELSE @,
                     !.InJobRead = IF k.InJob # 0 THEN data
                                   ELSE IF @ > 0 THEN @ - data ELSE @]

\* Mutant: off by one, the last byte of the body is not skipped.
skip_Short(k, n) ==
  LET f == fillExtraData([k EXCEPT !.InJob = 0, !.InJobRead = n - 1])
  IN  IF f.InJobRead = 0 THEN reply(f, "JOB_TOO_BIG")
      ELSE [f EXCEPT !.Reply = "JOB_TOO_BIG", !.State = "Bitbucket"]

\* skip
skip(k, n) ==
  LET f == fillExtraData([k EXCEPT !.InJob = 0, !.InJobRead = n])
  IN  IF f.InJobRead = 0 THEN reply(f, "JOB_TOO_BIG")
      ELSE [f EXCEPT !.Reply = "JOB_TOO_BIG", !.State = "Bitbucket"]

\* Body holds a CRLF: j.Body is what came with the command line.
HasCRLF(k) == \E p \in stream.crs : p >= BodyAt(k.InJob) /\ p + 1 < BodyAt(k.InJob) + k.held

\* enqueueInComingJob, as far as the connection is concerned.
enqueueInComingJob(k) ==
  LET whole == k.held = InBodySize(k)
      done  == [k EXCEPT !.InJob = 0, !.InJobRead = 0, !.held = 0]
  IN  reply(done, IF ~HasCRLF(k) THEN "EXPECTED_CRLF"
                  ELSE IF whole THEN "INSERTED" ELSE "INSERTED_CUT")

maybeEnqueueInComingJob(k) ==
  IF k.InJobRead = InBodySize(k) THEN enqueueInComingJob(k) ELSE [k EXCEPT !.State = "WantData"]

\* dispatchCmd: the line at k.base.  A line that no message starts with is garbage.
dispatchCmd(k) ==
  LET i == MessageAt(k.base)
  IN  IF i = 0 THEN reply(k, "UNKNOWN_COMMAND")
      ELSE CASE msgs[i] \in Puts ->
                  maybeEnqueueInComingJob(fillExtraData([k EXCEPT !.InJob = i]))
             [] msgs[i] = "big" -> skip(k, BodySize[msgs[i]])
             [] OTHER -> reply(k, "OK")

commandDataReady(k) == k.State = "WantCommand" /\ k.CmdRead > 0

\* The loop of hConn; no command leaves the connection in WantCommand, so it runs at most once.
Dispatches(k) == commandDataReady(k) /\ scanLineEnd(k) > 0

-----------------------------------------------------------------------------
(* connProcessIO.  n bytes were read.                                      *)

Reads(k) == k.State \in {"WantCommand", "WantEndLine", "Bitbucket", "WantData"}

\* Mutant: the bucket is always filled.
Wanted_WholeBucket(k) ==
  CASE k.State \in {"WantCommand", "WantEndLine"} -> LineBufSize - k.CmdRead
    [] k.State = "Bitbucket" -> BucketBufSize
    [] k.State = "WantData" -> InBodySize(k) - k.InJobRead

\* How much the handler asks for.
Wanted(k) ==
  CASE k.State \in {"WantCommand", "WantEndLine"} -> LineBufSize - k.CmdRead
    [] k.State = "Bitbucket" -> Least(k.InJobRead, BucketBufSize)
    [] k.State = "WantData" -> InBodySize(k) - k.InJobRead

Grown(k, n) == [k EXCEPT !.len = @ + n, !.CmdRead = @ + n]

\* Mutant: what was skipped is not counted.
AfterRead_NoCount(k, n) ==
  LET g == Grown(k, n)
  IN  CASE k.State \in {"WantCommand", "WantEndLine"} -> g
        [] k.State = "Bitbucket" -> k
        [] k.State = "WantData" ->
             maybeEnqueueInComingJob([k EXCEPT !.InJobRead = @ + n])

AfterRead(k, n) ==
  LET g == Grown(k, n)
      f == [g EXCEPT !.CmdLen = scanLineEnd(g)]
  IN  CASE k.State = "WantCommand" ->
             IF f.CmdLen = 0 /\ f.CmdRead = LineBufSize
             THEN [f EXCEPT !.CmdRead = 0, !.State = "WantEndLine"] ELSE f
        [] k.State = "WantEndLine" ->
             IF f.CmdLen > 0 THEN fillExtraData(reply(f, "BAD_FORMAT"))
             ELSE IF f.CmdRead = LineBufSize THEN [f EXCEPT !.CmdRead = 0] ELSE f
        [] k.State = "Bitbucket" ->
             LET d == [k EXCEPT !.InJobRead = @ - n]
             IN  IF d.InJobRead = 0 THEN reply(d, d.Reply) ELSE d
        [] k.State = "WantData" ->
             maybeEnqueueInComingJob([k EXCEPT !.InJobRead = @ + n])

\* connWantCommand
connWantCommand(k) == [k EXCEPT !.Reply = "none", !.State = "WantCommand"]

\* The rest of hConn after connProcessIO left the connection as k.
Handled(k) ==
  IF Dispatches(k)
  THEN /\ \E d \in {dispatchCmd([k EXCEPT !.CmdLen = scanLineEnd(k)])} : c' = fillExtraData(d)
       /\ served' = Append(served, MessageAt(k.base))
  ELSE c' = k /\ served' = served

\* Bytes that are read past the buffer are the body's, or skipped: the buffer starts after them.
PastBuffer(k, n) == IF k.State \in {"Bitbucket", "WantData"} THEN [k EXCEPT !.base = @ + n] ELSE k

ReadSome ==
  /\ Reads(c) /\ rcvd < sent
  /\ \E n \in 1..Least(sent - rcvd, Wanted(c)) :
       /\ rcvd' = rcvd + n
       /\ \E k \in {AfterRead(PastBuffer(c, n), n)} : Handled(k)
  /\ UNCHANGED <<msgs, stream, sent, peer, replies>>

\* Read returns nothing: the connection is closed, and c.InJob forgotten (it stays in allJobs).
ReadEOF ==
  /\ Reads(c) /\ rcvd = sent /\ peer = "eof"
  /\ c' = [c EXCEPT !.State = "Close", !.InJob = 0, !.InJobRead = 0, !.held = 0]
  /\ UNCHANGED <<msgs, stream, sent, rcvd, peer, served, replies>>

\* A reset is reported once, as an error that the handlers ignore; then Read returns nothing.
ReadError ==
  /\ Reads(c) /\ peer = "reset"
  /\ peer' = "eof" /\ rcvd' = sent
  /\ UNCHANGED <<msgs, stream, sent, c, served, replies>>

\* SendWord, and SendJob.  After a reset the write fails each time, and hConn returns with
\* nothing done.
SendReply ==
  /\ c.State = "SendWord" /\ peer # "reset"
  /\ replies' = Append(replies, c.Reply)
  /\ \E k \in {connWantCommand(c)} : Handled(k)
  /\ UNCHANGED <<msgs, stream, sent, rcvd, peer>>

hConn == ReadSome \/ ReadEOF \/ ReadError \/ SendReply

-----------------------------------------------------------------------------
(* The client. *)

Send ==
  /\ peer = "open" /\ sent < stream.total
  /\ sent' \in (sent + 1)..stream.total
  /\ UNCHANGED <<msgs, stream, rcvd, peer, c, served, replies>>

\* The client shuts its side down, or is killed and the connection reset.
Leave(how) ==
  /\ peer = "open" /\ how \in MayLeave
  /\ peer' = how
  /\ UNCHANGED <<msgs, stream, sent, rcvd, c, served, replies>>

IOInit ==
  /\ msgs \in Scripts /\ stream = Laid(msgs) /\ sent = 0 /\ rcvd = 0 /\ peer = "open"
  /\ c = NewConn /\ served = <<>> /\ replies = <<>>

IONext == hConn \/ Send \/ \E how \in {"eof", "reset"} : Leave(how)

IOSpec == IOInit /\ [][IONext]_ioVars

\* The loop calls the handler of a connection that has something to read or to write; a
\* client that stays sends what it has.
IOFair == IOSpec /\ WF_ioVars(hConn) /\ WF_ioVars(Send)

-----------------------------------------------------------------------------
(* Properties. *)

\* Types of the variables.
IOTypeOK ==
  /\ sent \in 0..stream.total /\ rcvd \in 0..sent /\ c.base \in 0..stream.total
  /\ c.CmdRead \in 0..LineBufSize /\ c.len \in Nat /\ c.InJobRead \in Nat
  /\ c.State \in {"WantCommand", "WantData", "SendWord", "Bitbucket", "Close", "WantEndLine"}

\* However the stream is cut, and however many messages are sent ahead, each command line is
\* dispatched once, in order and from its first byte: no byte of a body, kept or skipped, is
\* read as a command.
Framed == \A n \in DOMAIN served : served[n] = n

\* The input is cut where the messages are, and every count stays within its buffer.
IOInv == IOTypeOK /\ Framed

\* What the client may be told of a message.  A body that came in a second read is not in
\* j.Body, so a put may be answered EXPECTED_CRLF or store a part of the body.
Fitting(kind) ==
  CASE kind \in Puts -> {"INSERTED", "INSERTED_CUT", "EXPECTED_CRLF"}
    [] kind = "big"  -> {"JOB_TOO_BIG"}
    [] kind = "long" -> {"BAD_FORMAT"}
    [] OTHER -> {"OK"}

\* A client that sends ahead can tell which reply is whose: the n-th reply answers the n-th
\* message, whatever was skipped, refused or left over from an earlier one.
InTurn == \A n \in DOMAIN replies : n \in DOMAIN msgs /\ replies[n] \in Fitting(msgs[n])

\* A client that sends its script and stays gets a reply to each message; of a line that
\* does not fit LineBufSize nothing is promised.
AllAnswered == <>(Len(replies) = Len(msgs) \/ peer # "open" \/ Contains(msgs, "long"))

=============================================================================
