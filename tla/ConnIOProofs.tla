---------------------------- MODULE ConnIOProofs ----------------------------
(***************************************************************************)
(* Framing, for any script of messages and any sizes of lines, bodies and  *)
(* buffers: however the stream is cut into reads, every command line is    *)
(* dispatched once, in order and from its first byte, and the n-th reply   *)
(* answers the n-th message.                                               *)
(*                                                                         *)
(* The inductive invariant says for each state of the connection where its *)
(* buffer stands in the stream: at the start of the next message, inside   *)
(* the body that is being stored, or before what is still to be skipped.   *)
(***************************************************************************)
EXTENDS ConnIO, SequenceTheorems, WellFoundedInduction, TLAPS

\* Where message i starts; for the number after the last one, where the stream ends.
Start(i) == IF i \in DOMAIN msgs THEN stream.start[i] ELSE stream.total

LineOf(i) == LineSize[msgs[i]]
BodyOf(i) == BodySize[msgs[i]]

\* How the messages of the script lie in the stream.
LaidOut ==
  /\ msgs \in Seq(Kinds)
  /\ stream.total = Start(Len(msgs) + 1)
  /\ Start(1) = 0
  /\ \A i \in 1..(Len(msgs) + 1) : Start(i) \in Nat
  /\ \A i \in 1..Len(msgs) :
       /\ Start(i + 1) = Start(i) + LineOf(i) + BodyOf(i)
       /\ Start(i) + LineOf(i) - 2 \in stream.crs
  /\ \A p \in stream.crs :
       p \in Int /\ \E i \in 1..Len(msgs) : Start(i) + LineOf(i) - 2 <= p /\ p < Start(i + 1)

-----------------------------------------------------------------------------
\* A set of numbers that is not empty has a least one.
LEMMA LeastNumber ==
  ASSUME NEW S \in SUBSET Nat, S # {}
  PROVE  \E n \in S : \A m \in S : n <= m
<1>1. PICK n \in S : \A m \in S : <<m, n>> \notin OpToRel(<, Nat)
  BY NatLessThanWellFounded, WFMin
<1>2. \A m \in S : ~(m < n)
  BY <1>1 DEF OpToRel
<1>3. \A m \in S : n \in Nat /\ m \in Nat
  OBVIOUS
<1> QED BY <1>2, <1>3

\* Sums of a sequence of numbers can be written down.
LEMMA SumsExist ==
  ASSUME NEW n \in Nat, NEW a \in [1..n -> Nat]
  PROVE  \E f \in [0..n -> Nat] : f[0] = 0 /\ \A k \in 1..n : f[k] = f[k - 1] + a[k]
<1> DEFINE Good(i) == \E f \in [0..i -> Nat] : f[0] = 0 /\ \A k \in 1..i : f[k] = f[k - 1] + a[k]
           Bad == {i \in 0..n : ~Good(i)}
<1>1. Good(0)
  <2>1. [k \in 0..0 |-> 0] \in [0..0 -> Nat] /\ [k \in 0..0 |-> 0][0] = 0
    OBVIOUS
  <2>2. \A k \in 1..0 : FALSE
    OBVIOUS
  <2> QED BY <2>1, <2>2
<1>2. ASSUME NEW i \in 0..(n - 1), Good(i) PROVE Good(i + 1)
  <2>1. PICK f \in [0..i -> Nat] : f[0] = 0 /\ \A k \in 1..i : f[k] = f[k - 1] + a[k]
    BY <1>2
  <2> DEFINE g == [k \in 0..(i + 1) |-> IF k = i + 1 THEN f[i] + a[i + 1] ELSE f[k]]
  <2>2. \A k \in 0..i : g[k] = f[k] /\ f[k] \in Nat
    OBVIOUS
  <2>3. g[i + 1] = f[i] + a[i + 1] /\ f[i] + a[i + 1] \in Nat
    OBVIOUS
  <2>4. g \in [0..(i + 1) -> Nat]
    BY <2>2, <2>3
  <2> HIDE DEF g
  <2>5. ASSUME NEW k \in 1..(i + 1) PROVE g[k] = g[k - 1] + a[k]
    <3>1. CASE k = i + 1
      BY <3>1, <2>2, <2>3
    <3>2. CASE k # i + 1
      <4>1. k \in 1..i /\ k - 1 \in 0..i /\ k \in 0..i
        BY <3>2
      <4> QED BY <4>1, <2>1, <2>2
    <3> QED BY <3>1, <3>2
  <2>6. g[0] = 0
    BY <2>1, <2>2
  <2> QED BY <2>4, <2>5, <2>6
<1> HIDE DEF Good
<1>3. Bad = {}
  <2> SUFFICES ASSUME Bad # {} PROVE FALSE
    OBVIOUS
  <2>1. PICK i \in Bad : \A m \in Bad : i <= m
    <3>1. Bad \in SUBSET Nat
      OBVIOUS
    <3> HIDE DEF Bad
    <3> QED BY <3>1, LeastNumber
  <2>2. i # 0 /\ i \in 0..n
    BY <1>1
  <2>3. i - 1 \in 0..n /\ i - 1 \in 0..(n - 1) /\ i - 1 \notin Bad /\ (i - 1) + 1 = i
    BY <2>1, <2>2
  <2> QED BY <1>2, <2>1, <2>3
<1>4. Good(n)
  BY <1>3
<1> QED BY <1>4 DEF Good


\* Sizes of the messages of the script.
LEMMA SizesOf ==
  ASSUME msgs \in Seq(Kinds), NEW i \in 1..Len(msgs)
  PROVE  /\ msgs[i] \in Kinds /\ LineOf(i) \in Nat /\ BodyOf(i) \in Nat /\ LineOf(i) >= 2
         /\ (LineOf(i) > LineBufSize <=> msgs[i] = "long")
         /\ IF msgs[i] \in {"big"} \cup Puts THEN BodyOf(i) >= 2 ELSE BodyOf(i) = 0
         /\ InnerCR[msgs[i]] \in Nat
         /\ InnerCR[msgs[i]] > 0 => InnerCR[msgs[i]] < BodyOf(i)
<1> DEFINE m == msgs[i]
<1>1. m \in Kinds
  OBVIOUS
<1> HIDE DEF m
<1>2. /\ LineSize[m] \in Nat /\ BodySize[m] \in Nat /\ InnerCR[m] \in Nat
      /\ LineSize[m] >= 2 /\ (LineSize[m] > LineBufSize <=> m = "long")
      /\ IF m \in {"big"} \cup Puts THEN BodySize[m] >= 2 ELSE BodySize[m] = 0
      /\ InnerCR[m] > 0 => InnerCR[m] < BodySize[m]
  BY <1>1, SizesAssumption, ScriptsAssumption
<1> QED BY <1>1, <1>2 DEF m, LineOf, BodyOf

\* Laid lays the messages end to end.
LEMMA LaidFacts ==
  ASSUME msgs \in Seq(Kinds), stream = Laid(msgs)
  PROVE  LaidOut
<1> DEFINE N == Len(msgs)
<1>1. N \in Nat /\ DOMAIN msgs = 1..N
  OBVIOUS
<1> DEFINE a == [i \in 1..N |-> LineOf(i) + BodyOf(i)]
           end[i \in 0..N] ==
             IF i = 0 THEN 0 ELSE end[i - 1] + LineSize[msgs[i]] + BodySize[msgs[i]]
           Body(i) == end[i - 1] + LineSize[msgs[i]]
<1>2. \A i \in 1..N : /\ LineOf(i) \in Nat /\ BodyOf(i) \in Nat /\ LineOf(i) >= 2
                      /\ InnerCR[msgs[i]] \in Nat
                      /\ (InnerCR[msgs[i]] > 0 => InnerCR[msgs[i]] < BodyOf(i))
  BY SizesOf
<1>3. stream = [start |-> [i \in DOMAIN msgs |-> end[i - 1]],
                total |-> end[N],
                crs   |-> {Body(i) - 2 : i \in DOMAIN msgs}
                  \cup {Body(i) + BodySize[msgs[i]] - 2 : i \in {k \in DOMAIN msgs : BodySize[msgs[k]] > 0}}
                  \cup {Body(i) + InnerCR[msgs[i]] : i \in {k \in DOMAIN msgs : InnerCR[msgs[k]] > 0}}]
  BY DEF Laid
<1> HIDE DEF N
<1>4. a \in [1..N -> Nat] /\ \A i \in 1..N : a[i] = LineOf(i) + BodyOf(i)
  BY <1>1, <1>2
<1> HIDE DEF a
<1>5. PICK f \in [0..N -> Nat] : f[0] = 0 /\ \A k \in 1..N : f[k] = f[k - 1] + a[k]
  BY <1>1, <1>4, SumsExist
<1>6. f = [i \in 0..N |-> IF i = 0 THEN 0 ELSE f[i - 1] + LineSize[msgs[i]] + BodySize[msgs[i]]]
  <2>1. ASSUME NEW i \in 0..N
        PROVE  f[i] = IF i = 0 THEN 0 ELSE f[i - 1] + LineSize[msgs[i]] + BodySize[msgs[i]]
    <3>1. CASE i = 0
      BY <1>5, <3>1
    <3>2. CASE i # 0
      <4>1. i \in 1..N /\ i - 1 \in 0..N
        BY <1>1, <3>2
      <4>2. f[i] = f[i - 1] + (LineOf(i) + BodyOf(i)) /\ f[i - 1] \in Nat
        BY <1>4, <1>5, <4>1
      <4> QED BY <1>2, <3>2, <4>1, <4>2 DEF LineOf, BodyOf
    <3> QED BY <3>1, <3>2
  <2> QED BY <2>1
<1>7. end = [i \in 0..N |-> IF i = 0 THEN 0 ELSE end[i - 1] + LineSize[msgs[i]] + BodySize[msgs[i]]]
  BY <1>6
<1> HIDE DEF end
<1>8. end[0] = 0 /\ \A i \in 1..N : end[i] = end[i - 1] + LineOf(i) + BodyOf(i)
  <2>1. 0 \in 0..N /\ \A k \in 1..N : k \in 0..N /\ k # 0
    BY <1>1
  <2> QED BY <1>7, <2>1 DEF LineOf, BodyOf
<1>9. \A i \in 0..N : end[i] \in Nat
  <2> DEFINE Out == {i \in 0..N : end[i] \notin Nat}
  <2> SUFFICES ASSUME Out # {} PROVE FALSE
    OBVIOUS
  <2>1. PICK k \in Out : \A m \in Out : k <= m
    <3>1. Out \in SUBSET Nat
      BY <1>1
    <3> HIDE DEF Out
    <3> QED BY <3>1, LeastNumber
  <2>2. k \in 1..N /\ k - 1 \in 0..N /\ ~(k <= k - 1)
    BY <1>1, <1>8
  <2>3. end[k - 1] \in Nat
    BY <2>1, <2>2
  <2> QED BY <1>2, <1>8, <2>1, <2>2, <2>3
<1>10. \A i \in 1..(N + 1) : Start(i) = end[i - 1]
  <2> SUFFICES ASSUME NEW i \in 1..(N + 1) PROVE Start(i) = end[i - 1]
    OBVIOUS
  <2>1. CASE i \in 1..N
    BY <1>1, <1>3, <2>1 DEF Start
  <2>2. CASE i \notin 1..N
    <3>1. i - 1 = N /\ i \notin DOMAIN msgs
      BY <1>1, <2>2
    <3> QED BY <1>3, <3>1 DEF Start
  <2> QED BY <2>1, <2>2
<1>11. \A i \in 1..(N + 1) : Start(i) \in Nat
  <2> SUFFICES ASSUME NEW i \in 1..(N + 1) PROVE Start(i) \in Nat
    OBVIOUS
  <2>1. i - 1 \in 0..N
    BY <1>1
  <2> QED BY <1>9, <1>10, <2>1
<1>12. ASSUME NEW i \in 1..N
       PROVE  /\ Start(i + 1) = Start(i) + LineOf(i) + BodyOf(i)
              /\ Start(i) = end[i - 1] /\ Start(i) \in Nat
  <2>1. i \in 1..(N + 1) /\ i + 1 \in 1..(N + 1) /\ (i + 1) - 1 = i
    BY <1>1
  <2>2. Start(i) = end[i - 1] /\ Start(i + 1) = end[i] /\ Start(i) \in Nat
    BY <1>10, <1>11, <2>1
  <2>3. end[i] = end[i - 1] + LineOf(i) + BodyOf(i)
    BY <1>8
  <2> QED BY <2>2, <2>3
<1>13. ASSUME NEW i \in 1..N PROVE Start(i) + LineOf(i) - 2 \in stream.crs
  <2>1. Body(i) - 2 \in stream.crs
    BY <1>1, <1>3
  <2>2. Start(i) + LineOf(i) - 2 = Body(i) - 2
    <3>1. Body(i) = Start(i) + LineOf(i) /\ Start(i) \in Nat /\ LineOf(i) \in Nat
      BY <1>2, <1>12 DEF LineOf
    <3> HIDE DEF Body
    <3> QED BY <3>1
  <2> HIDE DEF Body
  <2> QED BY <2>1, <2>2
<1>14. ASSUME NEW p \in stream.crs
       PROVE  p \in Int /\ \E i \in 1..N : Start(i) + LineOf(i) - 2 <= p /\ p < Start(i + 1)
  <2>1. PICK i \in 1..N :
          \/ p = Body(i) - 2
          \/ p = Body(i) + BodySize[msgs[i]] - 2 /\ BodySize[msgs[i]] > 0
          \/ p = Body(i) + InnerCR[msgs[i]] /\ InnerCR[msgs[i]] > 0
    BY <1>1, <1>3, SMTT(40)
  <2>2. Body(i) = Start(i) + LineOf(i) /\ Body(i) \in Nat
    BY <1>2, <1>12, SMTT(40) DEF LineOf
  <2> HIDE DEF Body
  <2>3. BodySize[msgs[i]] = BodyOf(i)
    BY DEF BodyOf
  <2>4. Start(i + 1) = Body(i) + BodyOf(i)
    BY <1>12, <2>2
  <2>5. BodyOf(i) \in Nat /\ InnerCR[msgs[i]] \in Nat
        /\ (InnerCR[msgs[i]] > 0 => InnerCR[msgs[i]] < BodyOf(i))
    BY <1>2
  <2>7. p \in Int /\ Body(i) - 2 <= p /\ p < Body(i) + BodyOf(i)
    BY <2>1, <2>2, <2>3, <2>5
  <2>6. Start(i) + LineOf(i) - 2 <= p /\ p < Start(i + 1)
    <3>1. Start(i) \in Nat /\ LineOf(i) \in Nat
      BY <1>2, <1>12
    <3>2. Start(i) + LineOf(i) - 2 = Body(i) - 2
      BY <2>2, <3>1
    <3> QED BY <2>4, <2>7, <3>2
  <2> QED BY <2>6, <2>7
<1>15. stream.total = Start(N + 1) /\ Start(1) = 0
  <2>1. 1 \in 1..(N + 1) /\ N + 1 \in 1..(N + 1) /\ (N + 1) - 1 = N /\ 1 - 1 = 0
    BY <1>1
  <2> QED BY <1>3, <1>8, <1>10, <2>1
<1> QED BY <1>11, <1>12, <1>13, <1>14, <1>15 DEF LaidOut, N

\* The same of all messages.
LEMMA MessageSizes ==
  ASSUME LaidOut
  PROVE  /\ Len(msgs) \in Nat /\ DOMAIN msgs = 1..Len(msgs)
         /\ \A i \in 1..Len(msgs) :
              /\ msgs[i] \in Kinds /\ LineOf(i) \in Nat /\ BodyOf(i) \in Nat /\ LineOf(i) >= 2
              /\ (LineOf(i) > LineBufSize <=> msgs[i] = "long")
              /\ IF msgs[i] \in {"big"} \cup Puts THEN BodyOf(i) >= 2 ELSE BodyOf(i) = 0
<1>1. msgs \in Seq(Kinds)
  BY DEF LaidOut
<1>2. Len(msgs) \in Nat /\ DOMAIN msgs = 1..Len(msgs)
  BY <1>1
<1> QED BY <1>1, <1>2, SizesOf

\* Messages follow each other.
LEMMA StartsRise ==
  ASSUME LaidOut, NEW i \in 1..Len(msgs), NEW k \in 1..(Len(msgs) + 1), i < k
  PROVE  Start(i + 1) <= Start(k)
<1> DEFINE N == Len(msgs)
           Bad == {m \in (i + 1)..(N + 1) : Start(i + 1) > Start(m)}
<1>1. N \in Nat /\ i \in 1..N /\ \A m \in 1..(N + 1) : Start(m) \in Nat
  BY MessageSizes DEF LaidOut
<1>2. \A m \in 1..N : Start(m + 1) = Start(m) + LineOf(m) + BodyOf(m)
                      /\ LineOf(m) \in Nat /\ BodyOf(m) \in Nat
  BY MessageSizes DEF LaidOut
<1> HIDE DEF N
<1>3. Bad = {}
  <2> SUFFICES ASSUME Bad # {} PROVE FALSE
    OBVIOUS
  <2>1. PICK m \in Bad : \A l \in Bad : m <= l
    <3>1. Bad \in SUBSET Nat
      BY <1>1
    <3> HIDE DEF Bad
    <3> QED BY <3>1, LeastNumber
  <2>2. m \in (i + 1)..(N + 1) /\ Start(i + 1) > Start(m)
    BY <2>1
  <2>3. i + 1 \in 1..(N + 1) /\ Start(i + 1) \in Nat /\ m # i + 1
    BY <1>1, <2>2
  <2>4. m - 1 \in 1..N /\ m - 1 \in (i + 1)..(N + 1) /\ (m - 1) + 1 = m /\ ~(m <= m - 1)
        /\ m \in 1..(N + 1) /\ m - 1 \in 1..(N + 1)
    BY <1>1, <2>2, <2>3
  <2>5. Start(i + 1) <= Start(m - 1)
    BY <1>1, <2>1, <2>3, <2>4
  <2>6. Start(m) = Start(m - 1) + LineOf(m - 1) + BodyOf(m - 1)
        /\ LineOf(m - 1) \in Nat /\ BodyOf(m - 1) \in Nat
    BY <1>2, <2>4
  <2>7. Start(m) \in Nat /\ Start(m - 1) \in Nat
    BY <1>1, <2>4
  <2> QED BY <2>2, <2>3, <2>5, <2>6, <2>7
<1>4. k \in (i + 1)..(N + 1)
  BY <1>1 DEF N
<1> QED BY <1>1, <1>3, <1>4

\* Every message starts at a place of its own.
LEMMA MessageThere ==
  ASSUME LaidOut, NEW i \in 1..Len(msgs) PROVE MessageAt(Start(i)) = i
<1>1. Len(msgs) \in Nat /\ DOMAIN msgs = 1..Len(msgs)
  BY MessageSizes
<1>2. \A k \in 1..Len(msgs) : stream.start[k] = Start(k)
  BY <1>1 DEF Start
<1>3. ASSUME NEW j \in 1..Len(msgs), NEW k \in 1..Len(msgs), j < k PROVE Start(j) < Start(k)
  <2>1. k \in 1..(Len(msgs) + 1) /\ j \in 1..(Len(msgs) + 1)
    BY <1>1
  <2>2. Start(j + 1) <= Start(k)
    BY <1>3, <2>1, StartsRise
  <2>3. Start(j + 1) = Start(j) + LineOf(j) + BodyOf(j) /\ LineOf(j) \in Nat /\ LineOf(j) >= 2
        /\ BodyOf(j) \in Nat /\ Start(j) \in Nat /\ Start(k) \in Nat
    BY <2>1, MessageSizes DEF LaidOut
  <2> QED BY <2>2, <2>3
<1>4. \A k \in 1..Len(msgs) : Start(k) = Start(i) => k = i
  <2> SUFFICES ASSUME NEW k \in 1..Len(msgs), Start(k) = Start(i), k # i PROVE FALSE
    OBVIOUS
  <2>1. (k < i \/ i < k) /\ Start(k) \in Nat /\ Start(i) \in Nat
    BY <1>1 DEF LaidOut
  <2>2. Start(k) < Start(i) \/ Start(i) < Start(k)
    BY <1>3, <2>1
  <2> QED BY <2>1, <2>2
<1>5. {k \in DOMAIN msgs : stream.start[k] = Start(i)} = {i}
  BY <1>1, <1>2, <1>4
<1> QED BY <1>5 DEF MessageAt

-----------------------------------------------------------------------------
(* The line end.                                                           *)

Msgs == {"none", "OK", "BAD_FORMAT", "JOB_TOO_BIG", "UNKNOWN_COMMAND",
         "EXPECTED_CRLF", "INSERTED", "INSERTED_CUT"}

ConnType ==
  [State : {"WantCommand", "WantData", "SendWord", "Bitbucket", "Close", "WantEndLine"},
   base : Nat, len : Nat, CmdRead : Nat, CmdLen : Nat, InJob : Nat, InJobRead : Nat,
   held : Nat, Reply : Msgs]

\* A line that is found in a buffer that starts with message i is the line of message i.
LEMMA LineFound ==
  ASSUME LaidOut, NEW k \in ConnType, NEW i \in 1..(Len(msgs) + 1), k.base = Start(i),
         k.base + k.len <= stream.total
  PROVE  /\ scanLineEnd(k) \in Nat
         /\ scanLineEnd(k) > 0 =>
              /\ i \in 1..Len(msgs) /\ scanLineEnd(k) = LineOf(i)
              /\ k.len = k.CmdRead /\ LineOf(i) <= k.len
<1> DEFINE N == Len(msgs)
           crs == {p \in stream.crs : p >= k.base /\ p < k.base + k.len}
           first == CHOOSE p \in crs : \A q \in crs : p <= q
<1>1. /\ N \in Nat /\ k.base \in Nat /\ k.len \in Nat /\ stream.total = Start(N + 1)
      /\ \A p \in stream.crs : p \in Int
  BY MessageSizes DEF ConnType, LaidOut
<1>2. CASE k.len < 2 \/ k.len # k.CmdRead \/ crs = {}
  BY <1>2 DEF scanLineEnd
<1>3. CASE ~(k.len < 2 \/ k.len # k.CmdRead \/ crs = {})
  <2>1. scanLineEnd(k) = IF first + 1 >= k.base + k.len THEN 0 ELSE first + 2 - k.base
    BY <1>3 DEF scanLineEnd
  <2>2. i \in 1..N
    BY <1>1, <1>3
  <2> HIDE DEF N
  <2>3. /\ Start(i) \in Nat /\ LineOf(i) \in Nat /\ BodyOf(i) \in Nat /\ LineOf(i) >= 2
        /\ Start(i + 1) = Start(i) + LineOf(i) + BodyOf(i)
        /\ Start(i) + LineOf(i) - 2 \in stream.crs
    BY <2>2, MessageSizes DEF LaidOut, N
  <2> DEFINE e == Start(i) + LineOf(i) - 2
  <2>4. ASSUME NEW p \in crs PROVE e <= p
    <3>1. PICK m \in 1..N : Start(m) + LineOf(m) - 2 <= p /\ p < Start(m + 1)
      BY DEF LaidOut, N
    <3>2. p \in Int /\ p >= Start(i)
      BY <1>1
    <3>3. /\ Start(m) \in Nat /\ LineOf(m) \in Nat /\ LineOf(m) >= 2 /\ Start(m + 1) \in Nat
          /\ m \in 1..(N + 1) /\ i \in 1..(N + 1)
      <4>1. m \in 1..(N + 1) /\ m + 1 \in 1..(N + 1)
        BY <1>1
      <4> QED BY <4>1, MessageSizes DEF LaidOut, N
    <3>4. CASE m < i
      <4>1. Start(m + 1) <= Start(i)
        BY <3>3, <3>4, StartsRise DEF N
      <4>2. p < Start(i)
        BY <2>3, <3>1, <3>2, <3>3, <4>1
      <4> QED BY <2>3, <3>2, <4>2
    <3>5. CASE m = i
      BY <3>1, <3>5
    <3>6. CASE i < m
      <4>1. Start(i + 1) <= Start(m)
        BY <2>2, <3>3, <3>6, StartsRise DEF N
      <4>2. e <= Start(i + 1) - 2 /\ e \in Int /\ Start(i + 1) \in Int
        BY <2>3
      <4>3. Start(m) + LineOf(m) - 2 >= Start(m) /\ Start(m) \in Int /\ p \in Int
            /\ Start(m) + LineOf(m) - 2 \in Int
        BY <3>2, <3>3
      <4> HIDE DEF e
      <4> QED BY <3>1, <3>2, <4>1, <4>2, <4>3
    <3> QED BY <1>1, <2>2, <3>4, <3>5, <3>6
  <2>5. e \in crs
    <3>1. PICK p \in crs : TRUE
      BY <1>3
    <3>2. p \in Int /\ e <= p /\ p < k.base + k.len
      BY <1>1, <2>4, <3>1
    <3>3. e \in Int /\ e >= k.base /\ e < k.base + k.len
      BY <1>1, <2>3, <3>2, SMTT(40)
    <3> QED BY <2>3, <3>3
  <2>6. \A p \in crs : p \in Int
    BY <1>1
  <2>9. e \in Int
    BY <2>3
  <2> HIDE DEF crs, e
  <2>7. first \in crs /\ \A q \in crs : first <= q
    BY <2>4, <2>5
  <2> HIDE DEF first
  <2>8. first <= e /\ e <= first /\ first \in Int
    BY <2>4, <2>5, <2>6, <2>7
  <2>10. first = e
    BY <2>8, <2>9
  <2>11. first = k.base + LineOf(i) - 2
    BY <2>10 DEF e
  <2>12. LineOf(i) \in Nat /\ k.base \in Nat /\ k.len \in Nat
    BY <1>1, <2>3
  <2>13. first + 2 - k.base = LineOf(i) /\ (~(first + 1 >= k.base + k.len) => LineOf(i) <= k.len)
    BY <2>11, <2>12
  <2> QED BY <1>3, <2>1, <2>2, <2>12, <2>13 DEF N
<1> QED BY <1>2, <1>3

-----------------------------------------------------------------------------
(***************************************************************************)
(* The connection between two calls of hConn.  m is the number of messages *)
(* whose lines were dispatched, r the number of replies.                   *)
(***************************************************************************)

\* The buffer starts with the next message, and nothing is under way.
AtMessage(k, m) ==
  k.base = Start(m + 1) /\ k.InJob = 0 /\ k.InJobRead = 0 /\ k.len = k.CmdRead

\* A part of the body of message m was stored: the stream goes on with the rest of it.
InBody(k, m) ==
  /\ msgs[m] \in Puts /\ k.InJob = m /\ k.InJobRead < BodyOf(m)
  /\ k.base = Start(m) + LineOf(m) + k.InJobRead /\ k.len = 0 /\ k.CmdRead = 0

\* What remains of message m is to be skipped.
Skipping(k, m) ==
  /\ msgs[m] = "big" /\ k.Reply = "JOB_TOO_BIG" /\ k.InJob = 0 /\ k.InJobRead > 0
  /\ k.base + k.InJobRead = Start(m + 1) /\ k.len = 0 /\ k.CmdRead = 0

\* In a line that is too long, the count and the buffer have parted for good.
Rest(k, m, r) ==
  /\ k \in ConnType /\ k.CmdLen = 0 /\ k.CmdRead <= LineBufSize
  /\ m \in 0..Len(msgs) /\ r \in 0..m
  /\ k.State \in {"WantCommand", "SendWord"} => AtMessage(k, m)
  /\ k.State \in {"WantCommand", "WantEndLine"} => r = m
  /\ k.State \in {"SendWord", "WantData", "Bitbucket"} => m > 0 /\ r = m - 1
  /\ k.State = "SendWord" => k.Reply \in Fitting(msgs[m])
  /\ k.State = "WantData" => InBody(k, m)
  /\ k.State = "Bitbucket" => Skipping(k, m)
  /\ k.State = "WantEndLine" => k.CmdRead < k.len /\ k.InJob = 0

\* fillExtraData moves the buffer past the line and the data that follow it.
LEMMA FillFacts ==
  ASSUME NEW k \in ConnType, k.CmdLen > 0, k.CmdLen <= k.CmdRead,
         k.InJob # 0 => InBodySize(k) \in Nat
  PROVE  LET extra == k.CmdRead - k.CmdLen
             data  == IF k.InJob # 0 THEN Least(extra, InBodySize(k))
                      ELSE IF k.InJobRead > 0 THEN Least(extra, k.InJobRead) ELSE 0
             f     == fillExtraData(k)
         IN  /\ data \in 0..extra /\ extra \in Nat
             /\ f \in ConnType /\ f.State = k.State /\ f.Reply = k.Reply /\ f.InJob = k.InJob
             /\ f.base = k.base + k.CmdLen + data
             /\ f.len = extra - data /\ f.CmdRead = extra - data /\ f.CmdLen = 0
             /\ k.InJob # 0 => f.InJobRead = data /\ f.held = data
             /\ k.InJob = 0 /\ k.InJobRead > 0 => f.InJobRead = k.InJobRead - data
             /\ k.InJob = 0 /\ k.InJobRead = 0 => f.InJobRead = 0
<1> DEFINE extra == k.CmdRead - k.CmdLen
           data  == IF k.InJob # 0 THEN Least(extra, InBodySize(k))
                    ELSE IF k.InJobRead > 0 THEN Least(extra, k.InJobRead) ELSE 0
           f     == fillExtraData(k)
<1>1. /\ k.base \in Nat /\ k.len \in Nat /\ k.CmdRead \in Nat /\ k.CmdLen \in Nat /\ k.InJob \in Nat
      /\ k.InJobRead \in Nat /\ k.held \in Nat
  BY DEF ConnType
<1>2. extra \in Nat
  BY <1>1
<1>3. f = [k EXCEPT !.base = @ + k.CmdLen + data,
                    !.len = extra - data, !.CmdRead = extra - data, !.CmdLen = 0,
                    !.held = IF k.InJob # 0 THEN data ELSE @,
                    !.InJobRead = IF k.InJob # 0 THEN data
                                  ELSE IF @ > 0 THEN @ - data ELSE @]
  BY <1>1 DEF fillExtraData
<1> HIDE DEF extra, f
<1>4. data \in 0..extra /\ (k.InJob = 0 /\ k.InJobRead > 0 => data <= k.InJobRead)
  BY <1>1, <1>2 DEF Least
<1> HIDE DEF data
<1>5. /\ k.base + k.CmdLen + data \in Nat /\ extra - data \in Nat /\ data \in Nat
      /\ (IF k.InJob # 0 THEN data ELSE k.held) \in Nat
      /\ (IF k.InJob # 0 THEN data ELSE IF k.InJobRead > 0 THEN k.InJobRead - data ELSE k.InJobRead) \in Nat
  BY <1>1, <1>2, <1>4
<1>6. f \in ConnType
  BY <1>3, <1>5 DEF ConnType
<1>7. /\ f.State = k.State /\ f.Reply = k.Reply /\ f.InJob = k.InJob
      /\ f.base = k.base + k.CmdLen + data
      /\ f.len = extra - data /\ f.CmdRead = extra - data /\ f.CmdLen = 0
      /\ f.held = IF k.InJob # 0 THEN data ELSE k.held
      /\ f.InJobRead = IF k.InJob # 0 THEN data
                       ELSE IF k.InJobRead > 0 THEN k.InJobRead - data ELSE k.InJobRead
  BY <1>3 DEF ConnType
<1>8. ~(0 > 0)
  OBVIOUS
<1> QED BY <1>1, <1>2, <1>4, <1>6, <1>7, <1>8 DEF extra, data, f

\* A body that is whole is answered; one that is not waits for the rest.
LEMMA BodyCounted ==
  ASSUME LaidOut, NEW m \in 1..Len(msgs), msgs[m] \in Puts, NEW k \in ConnType,
         k.InJob = m, k.InJobRead <= BodyOf(m), k.CmdLen = 0,
         k.base = Start(m) + LineOf(m) + k.InJobRead, k.len = k.CmdRead, k.CmdRead <= LineBufSize,
         k.InJobRead < BodyOf(m) => k.len = 0
  PROVE  LET d == maybeEnqueueInComingJob(k)
         IN  Rest(d, m, m - 1) /\ d.base = k.base /\ d.len = k.len /\ d.CmdLen = 0
<1> DEFINE d == maybeEnqueueInComingJob(k)
<1>1. /\ Len(msgs) \in Nat /\ m \in Nat /\ m > 0 /\ m \in 0..Len(msgs) /\ m - 1 \in 0..m
      /\ Start(m + 1) = Start(m) + LineOf(m) + BodyOf(m)
      /\ Start(m) \in Nat /\ LineOf(m) \in Nat /\ BodyOf(m) \in Nat
  BY MessageSizes DEF LaidOut
<1>2. InBodySize(k) = BodyOf(m)
  BY DEF InBodySize, BodyOf
<1>3. k.InJobRead \in Nat /\ k.base \in Nat
  BY DEF ConnType
<1>4. CASE k.InJobRead = BodyOf(m)
  <2> DEFINE msg == IF ~HasCRLF(k) THEN "EXPECTED_CRLF"
                    ELSE IF k.held = InBodySize(k) THEN "INSERTED" ELSE "INSERTED_CUT"
  <2>1. d = [[k EXCEPT !.InJob = 0, !.InJobRead = 0, !.held = 0]
               EXCEPT !.Reply = msg, !.State = "SendWord"]
    BY <1>2, <1>4 DEF maybeEnqueueInComingJob, enqueueInComingJob, reply
  <2>2. msg \in Fitting(msgs[m]) /\ msg \in Msgs
    <3>1. msg \in {"INSERTED", "INSERTED_CUT", "EXPECTED_CRLF"}
      OBVIOUS
    <3> HIDE DEF msg
    <3> QED BY <3>1 DEF Fitting, Puts, Msgs
  <2> HIDE DEF msg, d
  <2>3. /\ d \in ConnType /\ d.State = "SendWord" /\ d.Reply = msg /\ d.base = k.base /\ d.len = k.len
        /\ d.CmdRead = k.CmdRead /\ d.CmdLen = 0 /\ d.InJob = 0 /\ d.InJobRead = 0
    BY <2>1, <2>2 DEF ConnType
  <2>4. k.base = Start(m + 1)
    BY <1>1, <1>4
  <2>5. AtMessage(d, m)
    BY <2>3, <2>4 DEF AtMessage
  <2>6. Rest(d, m, m - 1)
    BY <1>1, <2>2, <2>3, <2>5 DEF Rest
  <2> QED BY <2>3, <2>6 DEF d
<1>5. CASE k.InJobRead # BodyOf(m)
  <2>1. d = [k EXCEPT !.State = "WantData"]
    BY <1>2, <1>5 DEF maybeEnqueueInComingJob
  <2>2. k.InJobRead < BodyOf(m)
    BY <1>1, <1>3, <1>5
  <2> HIDE DEF d
  <2>3. /\ d \in ConnType /\ d.State = "WantData" /\ d.base = k.base /\ d.len = k.len
        /\ d.CmdRead = k.CmdRead /\ d.CmdLen = 0 /\ d.InJob = m /\ d.InJobRead = k.InJobRead
    BY <2>1 DEF ConnType
  <2>4. InBody(d, m)
    BY <2>2, <2>3 DEF InBody
  <2>5. Rest(d, m, m - 1)
    BY <1>1, <2>3, <2>4 DEF Rest
  <2> QED BY <2>3, <2>5 DEF d
<1> QED BY <1>4, <1>5

-----------------------------------------------------------------------------
(***************************************************************************)
(* A dispatched command: k is the connection with its CmdLen.              *)
(***************************************************************************)
Lined(k, i) ==
  /\ LaidOut /\ k \in ConnType /\ i \in 1..Len(msgs)
  /\ k.base = Start(i) /\ k.CmdLen = LineOf(i) /\ k.InJob = 0 /\ k.InJobRead = 0
  /\ k.len = k.CmdRead /\ k.CmdLen <= k.CmdRead /\ k.CmdRead <= LineBufSize

\* The facts of a message that is being dispatched.
LEMMA LinedFacts ==
  ASSUME NEW k, NEW i, Lined(k, i)
  PROVE  /\ Len(msgs) \in Nat /\ i \in Nat /\ i > 0 /\ i \in 0..Len(msgs) /\ i - 1 \in 0..i
         /\ Start(i + 1) = Start(i) + LineOf(i) + BodyOf(i)
         /\ Start(i) \in Nat /\ LineOf(i) \in Nat /\ LineOf(i) >= 2 /\ BodyOf(i) \in Nat
         /\ k.CmdLen > 0 /\ k.CmdRead \in Nat /\ k.base \in Nat /\ MessageAt(k.base) = i
         /\ msgs[i] \in {"cmd", "big"} \cup Puts
         /\ IF msgs[i] \in {"big"} \cup Puts THEN BodyOf(i) >= 2 ELSE BodyOf(i) = 0
<1>1. LaidOut /\ k \in ConnType /\ i \in 1..Len(msgs) /\ Len(msgs) \in Nat
  BY MessageSizes DEF Lined
<1>2. /\ msgs[i] \in Kinds /\ LineOf(i) \in Nat /\ BodyOf(i) \in Nat /\ LineOf(i) >= 2
      /\ (LineOf(i) > LineBufSize <=> msgs[i] = "long")
      /\ IF msgs[i] \in {"big"} \cup Puts THEN BodyOf(i) >= 2 ELSE BodyOf(i) = 0
  BY <1>1, MessageSizes
<1>3. Start(i) \in Nat /\ Start(i + 1) = Start(i) + LineOf(i) + BodyOf(i)
  BY <1>1 DEF LaidOut
<1>4. k.CmdRead \in Nat /\ k.base \in Nat /\ LineBufSize \in Nat
  BY <1>1, SizesAssumption DEF ConnType
<1>5. k.CmdLen = LineOf(i) /\ ~(LineOf(i) > LineBufSize)
  BY <1>2, <1>4 DEF Lined
<1>6. msgs[i] \in {"cmd", "big"} \cup Puts
  BY <1>2, <1>5, ScriptsAssumption
<1>7. MessageAt(k.base) = i
  BY <1>1, MessageThere DEF Lined
<1> QED BY <1>1, <1>2, <1>3, <1>4, <1>5, <1>6, <1>7

\* Taking a line and the data after it from a buffer leaves its end where it was.
LEMMA CutArith ==
  ASSUME NEW b \in Nat, NEW l \in Nat, NEW x \in Nat, NEW w \in Nat, l <= x
  PROVE  (b + l + w) + ((x - l) - w) = b + x
OBVIOUS

\* As much of the rest of a buffer as a body of z bytes takes.
LEMMA TakeArith ==
  ASSUME NEW l \in Nat, NEW x \in Nat, NEW z \in Nat, l <= x
  PROVE  /\ Least(x - l, z) \in Nat /\ Least(x - l, z) <= z
         /\ Least(x - l, z) < z => (x - l) - Least(x - l, z) = 0
         /\ (x - l) - Least(x - l, z) \in Nat /\ (x - l) - Least(x - l, z) <= x
BY DEF Least

\* The line of a put, and what came of its body.
LEMMA PutStarts ==
  ASSUME NEW k, NEW i, Lined(k, i), msgs[i] \in Puts
  PROVE  LET d == fillExtraData(dispatchCmd(k))
         IN  Rest(d, i, i - 1) /\ d.base + d.len = k.base + k.len
<1> DEFINE k2 == [k EXCEPT !.InJob = i]
           f == fillExtraData(k2)
           d == maybeEnqueueInComingJob(f)
<1>1. LaidOut /\ k \in ConnType /\ i \in 1..Len(msgs)
      /\ k.base = Start(i) /\ k.CmdLen = LineOf(i) /\ k.InJob = 0 /\ k.InJobRead = 0
      /\ k.len = k.CmdRead /\ k.CmdLen <= k.CmdRead /\ k.CmdRead <= LineBufSize
  BY DEF Lined
<1>2. /\ Start(i) \in Nat /\ LineOf(i) \in Nat /\ BodyOf(i) \in Nat /\ i \in Nat /\ i > 0
      /\ k.CmdLen > 0 /\ k.CmdRead \in Nat /\ MessageAt(k.base) = i
  BY LinedFacts
<1>3. dispatchCmd(k) = d
  BY <1>2 DEF dispatchCmd, Puts
<1>4. /\ k2 \in ConnType /\ k2.InJob = i /\ k2.CmdLen = LineOf(i) /\ k2.CmdRead = k.CmdRead
      /\ k2.base = Start(i) /\ k2.len = k.len
  BY <1>1, <1>2 DEF ConnType
<1>5. InBodySize(k2) = BodyOf(i)
  BY <1>4 DEF InBodySize, BodyOf
<1>6. k2.CmdLen > 0 /\ k2.CmdLen <= k2.CmdRead /\ k2.InJob # 0
  BY <1>1, <1>2, <1>4
<1> DEFINE extra == k2.CmdRead - k2.CmdLen
           data == Least(extra, InBodySize(k2))
<1> HIDE DEF k2
<1>7. /\ data \in 0..extra /\ extra \in Nat
      /\ f \in ConnType /\ f.InJob = i
      /\ f.base = k2.base + k2.CmdLen + data
      /\ f.len = extra - data /\ f.CmdRead = extra - data /\ f.CmdLen = 0
      /\ f.InJobRead = data
  BY <1>2, <1>4, <1>5, <1>6, FillFacts
<1>8. /\ data \in Nat /\ data <= BodyOf(i) /\ (data < BodyOf(i) => extra - data = 0)
      /\ extra = k.CmdRead - LineOf(i) /\ extra - data <= k.CmdRead /\ extra - data \in Nat
      /\ extra \in Nat
  <2>1. extra = k.CmdRead - LineOf(i) /\ data = Least(k.CmdRead - LineOf(i), BodyOf(i))
    BY <1>4, <1>5
  <2>2. LineOf(i) <= k.CmdRead
    BY <1>1
  <2> DEFINE w == Least(k.CmdRead - LineOf(i), BodyOf(i))
  <2>3. /\ w \in Nat /\ w <= BodyOf(i) /\ (w < BodyOf(i) => (k.CmdRead - LineOf(i)) - w = 0)
        /\ (k.CmdRead - LineOf(i)) - w \in Nat /\ (k.CmdRead - LineOf(i)) - w <= k.CmdRead
    BY <1>2, <2>2, TakeArith
  <2> HIDE DEF w, data, extra
  <2> QED BY <1>7, <2>1, <2>3 DEF w
<1> HIDE DEF f, data, extra
<1>9. LineBufSize \in Nat /\ extra - data <= LineBufSize
  BY <1>1, <1>2, <1>8, SizesAssumption, SMTT(40)
<1>10. Rest(d, i, i - 1) /\ d.base = f.base /\ d.len = f.len /\ d.CmdLen = 0
  BY <1>1, <1>4, <1>7, <1>8, <1>9, BodyCounted
<1> HIDE DEF d
<1>11. fillExtraData(d) = d
  BY <1>10 DEF fillExtraData
<1>12. f.base + f.len = k.base + k.len
  <2>1. f.base = Start(i) + LineOf(i) + data /\ f.len = extra - data
    BY <1>4, <1>7
  <2>2. LineOf(i) <= k.CmdRead
    BY <1>1
  <2>3. (Start(i) + LineOf(i) + data) + ((k.CmdRead - LineOf(i)) - data) = Start(i) + k.CmdRead
    BY <1>2, <1>8, <2>2, CutArith
  <2> QED BY <1>1, <1>8, <2>1, <2>3
<1> QED BY <1>3, <1>10, <1>11, <1>12

\* The line of a put whose body is too big, and what came of its body.
LEMMA SkipStarts ==
  ASSUME NEW k, NEW i, Lined(k, i), msgs[i] = "big"
  PROVE  LET d == fillExtraData(dispatchCmd(k))
         IN  Rest(d, i, i - 1) /\ d.base + d.len = k.base + k.len
<1> DEFINE k2 == [k EXCEPT !.InJob = 0, !.InJobRead = BodyOf(i)]
           f == fillExtraData(k2)
           d == skip(k, BodyOf(i))
<1>1. LaidOut /\ k \in ConnType /\ i \in 1..Len(msgs)
      /\ k.base = Start(i) /\ k.CmdLen = LineOf(i) /\ k.InJob = 0 /\ k.InJobRead = 0
      /\ k.len = k.CmdRead /\ k.CmdLen <= k.CmdRead /\ k.CmdRead <= LineBufSize
  BY DEF Lined
<1>2. /\ Start(i) \in Nat /\ LineOf(i) \in Nat /\ BodyOf(i) \in Nat /\ i \in Nat /\ i > 0
      /\ k.CmdLen > 0 /\ k.CmdRead \in Nat /\ MessageAt(k.base) = i
  BY LinedFacts
<1>2b. Start(i + 1) = Start(i) + LineOf(i) + BodyOf(i)
  BY LinedFacts
<1>2c. i \in 0..Len(msgs) /\ i - 1 \in 0..i
  BY LinedFacts
<1>2a. BodyOf(i) >= 2
  BY LinedFacts
<1>3. dispatchCmd(k) = d
  BY <1>2 DEF dispatchCmd, BodyOf, Puts
<1>4. /\ k2 \in ConnType /\ k2.InJob = 0 /\ k2.InJobRead = BodyOf(i) /\ k2.CmdLen = LineOf(i)
      /\ k2.CmdRead = k.CmdRead /\ k2.base = Start(i) /\ k2.len = k.len
  BY <1>1, <1>2 DEF ConnType
<1>5. k2.CmdLen > 0 /\ k2.CmdLen <= k2.CmdRead /\ k2.InJob = 0 /\ k2.InJobRead > 0
  BY <1>1, <1>2, <1>2a, <1>4
<1> DEFINE extra == k2.CmdRead - k2.CmdLen
           data == Least(extra, k2.InJobRead)
<1>6. d = IF f.InJobRead = 0 THEN reply(f, "JOB_TOO_BIG")
          ELSE [f EXCEPT !.Reply = "JOB_TOO_BIG", !.State = "Bitbucket"]
  BY DEF skip
<1> HIDE DEF k2, d
<1>7. /\ data \in 0..extra /\ extra \in Nat
      /\ f \in ConnType /\ f.InJob = 0
      /\ f.base = k2.base + k2.CmdLen + data
      /\ f.len = extra - data /\ f.CmdRead = extra - data /\ f.CmdLen = 0
      /\ f.InJobRead = k2.InJobRead - data
  BY <1>4, <1>5, FillFacts
<1>8. /\ data \in Nat /\ data <= BodyOf(i) /\ (data < BodyOf(i) => extra - data = 0)
      /\ extra = k.CmdRead - LineOf(i) /\ extra - data <= k.CmdRead /\ extra - data \in Nat
      /\ extra \in Nat
  <2>1. extra = k.CmdRead - LineOf(i) /\ data = Least(k.CmdRead - LineOf(i), BodyOf(i))
    BY <1>4
  <2>2. LineOf(i) <= k.CmdRead
    BY <1>1
  <2> DEFINE w == Least(k.CmdRead - LineOf(i), BodyOf(i))
  <2>3. /\ w \in Nat /\ w <= BodyOf(i) /\ (w < BodyOf(i) => (k.CmdRead - LineOf(i)) - w = 0)
        /\ (k.CmdRead - LineOf(i)) - w \in Nat /\ (k.CmdRead - LineOf(i)) - w <= k.CmdRead
    BY <1>2, <2>2, TakeArith
  <2> HIDE DEF w, data, extra
  <2> QED BY <1>7, <2>1, <2>3 DEF w
<1> HIDE DEF f, data, extra
<1>9. LineBufSize \in Nat /\ extra - data <= LineBufSize
  BY <1>1, <1>2, <1>8, SizesAssumption, SMTT(40)
<1>10. /\ f.base = Start(i) + LineOf(i) + data /\ f.len = extra - data
       /\ f.InJobRead = BodyOf(i) - data
  BY <1>4, <1>7
<1>11. f.base + f.len = k.base + k.len
  <2>1. LineOf(i) <= k.CmdRead
    BY <1>1
  <2>3. (Start(i) + LineOf(i) + data) + ((k.CmdRead - LineOf(i)) - data) = Start(i) + k.CmdRead
    BY <1>2, <1>8, <2>1, CutArith
  <2> QED BY <1>1, <1>8, <1>10, <2>3
<1>12. CASE f.InJobRead = 0
  <2>1. d = [f EXCEPT !.Reply = "JOB_TOO_BIG", !.State = "SendWord"]
    BY <1>6, <1>12 DEF reply
  <2>2. /\ d \in ConnType /\ d.State = "SendWord" /\ d.Reply = "JOB_TOO_BIG" /\ d.base = f.base
        /\ d.len = f.len /\ d.CmdRead = f.CmdRead /\ d.CmdLen = 0 /\ d.InJob = 0 /\ d.InJobRead = 0
    BY <1>7, <1>12, <2>1 DEF ConnType, Msgs
  <2>3. f.base = Start(i + 1)
    BY <1>2, <1>2b, <1>8, <1>10, <1>12
  <2>4. AtMessage(d, i)
    BY <1>7, <2>2, <2>3 DEF AtMessage
  <2>5. d.Reply \in Fitting(msgs[i])
    BY <2>2 DEF Fitting, Puts
  <2>6. Rest(d, i, i - 1)
    BY <1>2, <1>2c, <1>7, <1>9, <2>2, <2>4, <2>5 DEF Rest
  <2>7. fillExtraData(d) = d
    BY <2>2 DEF fillExtraData
  <2> QED BY <1>3, <1>11, <2>2, <2>6, <2>7
<1>13. CASE f.InJobRead # 0
  <2>1. d = [f EXCEPT !.Reply = "JOB_TOO_BIG", !.State = "Bitbucket"]
    BY <1>6, <1>13
  <2>2. /\ d \in ConnType /\ d.State = "Bitbucket" /\ d.Reply = "JOB_TOO_BIG" /\ d.base = f.base
        /\ d.len = f.len /\ d.CmdRead = f.CmdRead /\ d.CmdLen = 0 /\ d.InJob = 0
        /\ d.InJobRead = f.InJobRead
    BY <1>7, <2>1 DEF ConnType, Msgs
  <2>3. f.base + f.InJobRead = Start(i + 1) /\ f.InJobRead > 0 /\ extra - data = 0
    <3>5. data \in Nat /\ BodyOf(i) \in Nat /\ data <= BodyOf(i)
          /\ (data < BodyOf(i) => extra - data = 0)
      BY <1>2, <1>8
    <3>4. BodyOf(i) - data # 0
      BY <1>10, <1>13
    <3>1. data < BodyOf(i) /\ extra - data = 0
      BY <3>4, <3>5
    <3>2. (Start(i) + LineOf(i) + data) + (BodyOf(i) - data) = Start(i) + LineOf(i) + BodyOf(i)
      BY <1>2, <1>8
    <3>3. BodyOf(i) - data > 0
      BY <3>1, <3>5
    <3> QED BY <1>2, <1>2b, <1>10, <3>1, <3>2, <3>3
  <2>4. Skipping(d, i)
    BY <1>7, <2>2, <2>3 DEF Skipping
  <2>5. Rest(d, i, i - 1)
    BY <1>2, <1>2c, <1>7, <1>9, <2>2, <2>4 DEF Rest
  <2>6. fillExtraData(d) = d
    BY <2>2 DEF fillExtraData
  <2> QED BY <1>3, <1>11, <2>2, <2>5, <2>6
<1> QED BY <1>12, <1>13

\* Any other command is answered at once.
LEMMA OtherAnswered ==
  ASSUME NEW k, NEW i, Lined(k, i), msgs[i] = "cmd"
  PROVE  LET d == fillExtraData(dispatchCmd(k))
         IN  Rest(d, i, i - 1) /\ d.base + d.len = k.base + k.len
<1> DEFINE k2 == [k EXCEPT !.Reply = "OK", !.State = "SendWord"]
           d == fillExtraData(k2)
           extra == k2.CmdRead - k2.CmdLen
<1>1. LaidOut /\ k \in ConnType /\ i \in 1..Len(msgs)
      /\ k.base = Start(i) /\ k.CmdLen = LineOf(i) /\ k.InJob = 0 /\ k.InJobRead = 0
      /\ k.len = k.CmdRead /\ k.CmdLen <= k.CmdRead /\ k.CmdRead <= LineBufSize
  BY DEF Lined
<1>2. /\ Start(i) \in Nat /\ LineOf(i) \in Nat /\ BodyOf(i) \in Nat /\ i \in Nat /\ i > 0
      /\ k.CmdLen > 0 /\ k.CmdRead \in Nat /\ k.base \in Nat /\ MessageAt(k.base) = i
      /\ Start(i + 1) = Start(i) + LineOf(i) + BodyOf(i)
      /\ i \in 0..Len(msgs) /\ i - 1 \in 0..i
  BY LinedFacts
<1>2a. BodyOf(i) = 0
  BY LinedFacts DEF Puts
<1>3. dispatchCmd(k) = k2
  BY <1>2, SMTT(40) DEF dispatchCmd, reply, Puts
<1>4. /\ k2 \in ConnType /\ k2.InJob = 0 /\ k2.InJobRead = 0 /\ k2.CmdLen = k.CmdLen
      /\ k2.CmdRead = k.CmdRead /\ k2.base = k.base /\ k2.State = "SendWord" /\ k2.Reply = "OK"
  BY <1>1 DEF ConnType, Msgs
<1>5. k2.CmdLen > 0 /\ k2.CmdLen <= k2.CmdRead /\ ~(k2.InJob # 0) /\ ~(k2.InJobRead > 0)
  BY <1>1, <1>2, <1>4
<1> HIDE DEF k2
<1>6. /\ extra \in Nat /\ d \in ConnType /\ d.State = "SendWord" /\ d.Reply = "OK" /\ d.InJob = 0
      /\ d.base = k2.base + k2.CmdLen + 0
      /\ d.len = extra - 0 /\ d.CmdRead = extra - 0 /\ d.CmdLen = 0 /\ d.InJobRead = 0
  BY <1>4, <1>5, FillFacts
<1>7. extra = k.CmdRead - k.CmdLen
  BY <1>4
<1> HIDE DEF d, extra
<1>8. /\ d.base = Start(i + 1) /\ d.len = d.CmdRead /\ d.CmdRead <= LineBufSize
      /\ d.base + d.len = k.base + k.len
  BY <1>1, <1>2, <1>2a, <1>4, <1>6, <1>7, SizesAssumption
<1>9. AtMessage(d, i) /\ d.Reply \in Fitting(msgs[i])
  BY <1>6, <1>8 DEF AtMessage, Fitting, Puts
<1>10. Rest(d, i, i - 1)
  BY <1>2, <1>6, <1>8, <1>9 DEF Rest
<1> QED BY <1>3, <1>8, <1>10 DEF d

\* What is dispatched is the next message, and its whole line.
LEMMA Dispatching ==
  ASSUME LaidOut, NEW k \in ConnType, NEW m \in 0..Len(msgs), AtMessage(k, m),
         k.CmdRead <= LineBufSize, k.base + k.len <= stream.total, scanLineEnd(k) > 0
  PROVE  LET d == fillExtraData(dispatchCmd([k EXCEPT !.CmdLen = scanLineEnd(k)]))
         IN  /\ m + 1 \in 1..Len(msgs) /\ MessageAt(k.base) = m + 1
             /\ Rest(d, m + 1, m) /\ d.base + d.len = k.base + k.len
<1> DEFINE i == m + 1
           k1 == [k EXCEPT !.CmdLen = scanLineEnd(k)]
           d == fillExtraData(dispatchCmd(k1))
<1>1. i \in 1..(Len(msgs) + 1) /\ i - 1 = m /\ Len(msgs) \in Nat
  BY MessageSizes
<1>2. k.base = Start(i) /\ k.InJob = 0 /\ k.InJobRead = 0 /\ k.len = k.CmdRead
  BY DEF AtMessage
<1> HIDE DEF i
<1>3. i \in 1..Len(msgs) /\ scanLineEnd(k) = LineOf(i) /\ LineOf(i) <= k.len
  BY <1>1, <1>2, LineFound
<1>4. LineOf(i) \in Nat
  BY <1>3, MessageSizes
<1>5. /\ k1 \in ConnType /\ k1.CmdLen = LineOf(i) /\ k1.base = k.base /\ k1.InJob = k.InJob
      /\ k1.InJobRead = k.InJobRead /\ k1.len = k.len /\ k1.CmdRead = k.CmdRead
  BY <1>3, <1>4 DEF ConnType
<1> HIDE DEF k1
<1>6. Lined(k1, i)
  BY <1>2, <1>3, <1>5 DEF Lined
<1>7. msgs[i] \in {"cmd", "big"} \cup Puts /\ MessageAt(k1.base) = i
  BY <1>6, LinedFacts
<1>8. Rest(d, i, i - 1) /\ d.base + d.len = k1.base + k1.len
  <2>1. CASE msgs[i] \in Puts
    BY <1>6, <2>1, PutStarts
  <2>2. CASE msgs[i] = "big"
    BY <1>6, <2>2, SkipStarts
  <2>3. CASE msgs[i] = "cmd"
    BY <1>6, <2>3, OtherAnswered
  <2> QED BY <1>7, <2>1, <2>2, <2>3
<1> QED BY <1>1, <1>3, <1>5, <1>7, <1>8 DEF i, k1

(***************************************************************************)
(* The connection after connProcessIO and before the loop of hConn: as     *)
(* between two calls, but a line that was found is not dispatched yet.     *)
(***************************************************************************)
Ready(k, m, r) ==
  /\ k \in ConnType /\ k.CmdRead <= LineBufSize /\ m \in 0..Len(msgs) /\ r \in 0..m
  /\ IF k.State = "WantCommand"
     THEN AtMessage(k, m) /\ r = m /\ k.CmdLen \in {0, scanLineEnd(k)}
     ELSE Rest(k, m, r)

\* The loop of hConn dispatches the line that is there, which is that of the next message.
LEMMA HandledKeeps ==
  ASSUME LaidOut, served \in Seq(Nat), Framed, NEW k, NEW r, Ready(k, Len(served), r),
         k.base + k.len <= stream.total, Handled(k)
  PROVE  /\ c'.base + c'.len = k.base + k.len
         /\ served' \in Seq(Nat) /\ \A n \in DOMAIN served' : served'[n] = n
         /\ Rest(c', Len(served'), r)
<1> DEFINE m == Len(served)
<1>1. /\ k \in ConnType /\ k.CmdRead <= LineBufSize /\ m \in 0..Len(msgs) /\ r \in 0..m
      /\ m \in Nat /\ Len(msgs) \in Nat
  BY MessageSizes DEF Ready
<1>2. CASE Dispatches(k)
  <2> DEFINE d == fillExtraData(dispatchCmd([k EXCEPT !.CmdLen = scanLineEnd(k)]))
  <2>1. k.State = "WantCommand" /\ scanLineEnd(k) > 0
    BY <1>2 DEF Dispatches, commandDataReady
  <2>2. AtMessage(k, m) /\ r = m
    BY <2>1 DEF Ready
  <2>3. c' = d /\ served' = Append(served, MessageAt(k.base))
    BY <1>2 DEF Handled
  <2> HIDE DEF m
  <2>4. /\ MessageAt(k.base) = m + 1
        /\ Rest(d, m + 1, m) /\ d.base + d.len = k.base + k.len
    BY <1>1, <2>1, <2>2, Dispatching
  <2> HIDE DEF d
  <2>5. served' = Append(served, m + 1) /\ m + 1 \in Nat /\ Len(served') = m + 1
    BY <1>1, <2>3, <2>4 DEF m
  <2>6. served' \in Seq(Nat) /\ \A n \in DOMAIN served' : served'[n] = n
    BY <1>1, <2>5 DEF Framed, m
  <2> QED BY <2>2, <2>3, <2>4, <2>5, <2>6
<1>3. CASE ~Dispatches(k)
  <2>1. c' = k /\ served' = served
    BY <1>3 DEF Handled
  <2>2. CASE k.State = "WantCommand"
    <3>1. AtMessage(k, m) /\ r = m /\ k.CmdLen \in {0, scanLineEnd(k)}
      BY <2>2 DEF Ready
    <3>2. m + 1 \in 1..(Len(msgs) + 1) /\ k.base = Start(m + 1)
      BY <1>1, <3>1 DEF AtMessage
    <3>3. scanLineEnd(k) \in Nat /\ (scanLineEnd(k) > 0 => k.CmdRead > 0)
      <4>1. scanLineEnd(k) \in Nat
        BY <1>1, <3>2, LineFound
      <4>2. ASSUME scanLineEnd(k) > 0 PROVE k.CmdRead > 0
        <5>1. ~(k.len < 2 \/ k.len # k.CmdRead)
          BY <4>2 DEF scanLineEnd
        <5> QED BY <1>1, <5>1 DEF ConnType
      <4> QED BY <4>1, <4>2
    <3>4. k.CmdLen = 0
      BY <1>3, <2>2, <3>1, <3>3 DEF Dispatches, commandDataReady
    <3>5. Rest(k, m, r)
      BY <1>1, <2>2, <3>1, <3>4 DEF Rest
    <3> QED BY <2>1, <3>5 DEF Framed
  <2>3. CASE k.State # "WantCommand"
    <3>1. Rest(k, m, r)
      BY <2>3 DEF Ready
    <3> QED BY <2>1, <3>1 DEF Framed
  <2> QED BY <2>2, <2>3
<1> QED BY <1>2, <1>3

\* What a read leaves for the loop of hConn.
LEMMA ReadKeeps ==
  ASSUME LaidOut, NEW k, NEW m, NEW r, Rest(k, m, r), Reads(k), NEW n \in Nat, n > 0,
         n <= Wanted(k), k.base + k.len + n <= stream.total
  PROVE  LET a == AfterRead(PastBuffer(k, n), n)
         IN  Ready(a, m, r) /\ a.base + a.len = k.base + k.len + n
<1> DEFINE a == AfterRead(PastBuffer(k, n), n)
           g == Grown(k, n)
           p == [k EXCEPT !.base = @ + n]
<1>1. /\ k \in ConnType /\ k.CmdLen = 0 /\ k.CmdRead <= LineBufSize
      /\ m \in 0..Len(msgs) /\ r \in 0..m
  BY DEF Rest
<1>2. /\ k.base \in Nat /\ k.len \in Nat /\ k.CmdRead \in Nat /\ k.InJobRead \in Nat
      /\ Len(msgs) \in Nat /\ m \in Nat /\ LineBufSize \in Nat /\ LineBufSize > 0
  BY <1>1, MessageSizes, SizesAssumption DEF ConnType
<1>3. /\ g \in ConnType /\ g.base = k.base /\ g.len = k.len + n /\ g.CmdRead = k.CmdRead + n
      /\ g.State = k.State /\ g.InJob = k.InJob /\ g.InJobRead = k.InJobRead /\ g.CmdLen = 0
  <2>1. k.len + n \in Nat /\ k.CmdRead + n \in Nat
    BY <1>2
  <2> QED BY <1>1, <2>1 DEF ConnType, Grown
<1> HIDE DEF g
<1>4. /\ p \in ConnType /\ p.base = k.base + n /\ p.len = k.len /\ p.CmdRead = k.CmdRead
      /\ p.State = k.State /\ p.InJob = k.InJob /\ p.InJobRead = k.InJobRead /\ p.CmdLen = 0
      /\ p.Reply = k.Reply
  <2>1. k.base + n \in Nat
    BY <1>2
  <2> QED BY <1>1, <2>1 DEF ConnType
<1> HIDE DEF p
<1>5. CASE k.State = "WantCommand"
  <2> DEFINE f == [g EXCEPT !.CmdLen = scanLineEnd(g)]
             w == [f EXCEPT !.CmdRead = 0, !.State = "WantEndLine"]
  <2>1. AtMessage(k, m) /\ r = m
    BY <1>5 DEF Rest
  <2>2. g.CmdRead <= LineBufSize /\ AtMessage(g, m)
    BY <1>2, <1>3, <1>5, <2>1 DEF Wanted, AtMessage
  <2>3. m + 1 \in 1..(Len(msgs) + 1) /\ g.base = Start(m + 1) /\ g.base + g.len <= stream.total
    BY <1>1, <1>2, <1>3, <2>2 DEF AtMessage
  <2>4. scanLineEnd(g) \in Nat
    BY <1>3, <2>3, LineFound
  <2>5. /\ f \in ConnType /\ f.base = g.base /\ f.len = g.len /\ f.CmdRead = g.CmdRead
        /\ f.State = "WantCommand" /\ f.InJob = g.InJob /\ f.InJobRead = g.InJobRead
        /\ f.CmdLen = scanLineEnd(g)
    BY <1>3, <1>5, <2>4 DEF ConnType
  <2>6. a = IF f.CmdLen = 0 /\ f.CmdRead = LineBufSize THEN w ELSE f
    BY <1>5 DEF AfterRead, PastBuffer, g
  <2> HIDE DEF f
  <2>7. CASE f.CmdLen = 0 /\ f.CmdRead = LineBufSize
    <3>1. /\ w \in ConnType /\ w.base = f.base /\ w.len = f.len /\ w.CmdRead = 0
          /\ w.State = "WantEndLine" /\ w.InJob = f.InJob /\ w.CmdLen = 0
      BY <2>5, <2>7 DEF ConnType
    <3> HIDE DEF w
    <3>2. w.InJob = 0 /\ w.CmdRead < w.len /\ w.CmdRead <= LineBufSize
      BY <1>2, <1>3, <2>2, <2>5, <2>7, <3>1 DEF AtMessage
    <3>3. Rest(w, m, r)
      BY <1>1, <2>1, <3>1, <3>2 DEF Rest
    <3>4. Ready(w, m, r)
      BY <1>1, <3>1, <3>2, <3>3 DEF Ready
    <3> QED BY <1>2, <1>3, <2>5, <2>6, <2>7, <3>1, <3>4
  <2>8. CASE ~(f.CmdLen = 0 /\ f.CmdRead = LineBufSize)
    <3>1. scanLineEnd(f) = scanLineEnd(g)
      BY <2>5 DEF scanLineEnd
    <3>2. AtMessage(f, m)
      BY <2>2, <2>5 DEF AtMessage
    <3>3. Ready(f, m, r)
      BY <1>1, <2>1, <2>2, <2>5, <3>1, <3>2 DEF Ready
    <3> QED BY <1>2, <1>3, <2>5, <2>6, <2>8, <3>3
  <2> QED BY <2>7, <2>8
<1>6. CASE k.State = "WantEndLine"
  <2> DEFINE f == [g EXCEPT !.CmdLen = scanLineEnd(g)]
             w == [f EXCEPT !.CmdRead = 0]
  <2>1. k.CmdRead < k.len /\ k.InJob = 0 /\ r = m
    BY <1>6 DEF Rest
  <2>2. scanLineEnd(g) = 0
    <3>1. g.len # g.CmdRead
      BY <1>2, <1>3, <2>1
    <3> QED BY <3>1 DEF scanLineEnd
  <2>3. /\ f \in ConnType /\ f.base = k.base /\ f.len = k.len + n /\ f.CmdRead = k.CmdRead + n
        /\ f.State = "WantEndLine" /\ f.InJob = 0 /\ f.CmdLen = 0
    BY <1>3, <1>6, <2>1, <2>2 DEF ConnType
  <2>4. a = IF f.CmdRead = LineBufSize THEN w ELSE f
    <3>1. a = IF f.CmdLen > 0 THEN fillExtraData(reply(f, "BAD_FORMAT"))
              ELSE IF f.CmdRead = LineBufSize THEN w ELSE f
      BY <1>6 DEF AfterRead, PastBuffer, g
    <3> HIDE DEF f
    <3> QED BY <2>3, <3>1
  <2> HIDE DEF f
  <2>5. /\ w \in ConnType /\ w.base = f.base /\ w.len = f.len /\ w.CmdRead = 0
        /\ w.State = "WantEndLine" /\ w.InJob = 0 /\ w.CmdLen = 0
    BY <2>3 DEF ConnType
  <2> HIDE DEF w, a
  <2>6. /\ a \in ConnType /\ a.State = "WantEndLine" /\ a.InJob = 0 /\ a.CmdLen = 0
        /\ a.base = k.base /\ a.len = k.len + n /\ a.CmdRead \in {0, k.CmdRead + n}
    BY <2>3, <2>4, <2>5
  <2>7. a.CmdRead < a.len /\ a.CmdRead <= LineBufSize
    BY <1>2, <1>6, <2>1, <2>6 DEF Wanted
  <2>8. Rest(a, m, r)
    BY <1>1, <2>1, <2>6, <2>7 DEF Rest
  <2>9. Ready(a, m, r)
    BY <1>1, <2>6, <2>7, <2>8 DEF Ready
  <2>10. a.base + a.len = k.base + k.len + n
    BY <1>2, <2>6
  <2> QED BY <2>9, <2>10 DEF a
<1>7. CASE k.State = "Bitbucket"
  <2> DEFINE d == [p EXCEPT !.InJobRead = @ - n]
             w == [d EXCEPT !.Reply = d.Reply, !.State = "SendWord"]
  <2>1. Skipping(k, m) /\ m > 0 /\ r = m - 1
    BY <1>7 DEF Rest
  <2>2. n <= k.InJobRead /\ k.InJobRead - n \in Nat
    <3>1. Wanted(k) = Least(k.InJobRead, BucketBufSize)
      BY <1>7 DEF Wanted
    <3>2. n <= Least(k.InJobRead, BucketBufSize) /\ BucketBufSize \in Nat
      BY <3>1, SizesAssumption
    <3> QED BY <1>2, <3>2 DEF Least
  <2>3. /\ d \in ConnType /\ d.base = k.base + n /\ d.len = 0 /\ d.CmdRead = 0
        /\ d.State = "Bitbucket" /\ d.InJob = 0 /\ d.InJobRead = k.InJobRead - n /\ d.CmdLen = 0
        /\ d.Reply = "JOB_TOO_BIG"
    BY <1>4, <1>7, <2>1, <2>2 DEF ConnType, Skipping
  <2>4. a = IF d.InJobRead = 0 THEN w ELSE d
    BY <1>7 DEF AfterRead, PastBuffer, reply, p
  <2> HIDE DEF d
  <2>5. d.base + d.InJobRead = Start(m + 1) /\ msgs[m] = "big" /\ k.len = 0
    BY <1>2, <2>1, <2>2, <2>3 DEF Skipping
  <2>6. CASE d.InJobRead = 0
    <3>1. /\ w \in ConnType /\ w.base = d.base /\ w.len = 0 /\ w.CmdRead = 0
          /\ w.State = "SendWord" /\ w.InJob = 0 /\ w.InJobRead = 0 /\ w.CmdLen = 0
          /\ w.Reply = "JOB_TOO_BIG"
      BY <2>3, <2>6 DEF ConnType
    <3> HIDE DEF w
    <3>2. d.base = Start(m + 1)
      BY <2>3, <2>5, <2>6 DEF ConnType
    <3>3. AtMessage(w, m) /\ w.Reply \in Fitting(msgs[m])
      BY <2>5, <3>1, <3>2 DEF AtMessage, Fitting, Puts
    <3>4. w.CmdRead <= LineBufSize
      BY <1>2, <3>1
    <3>5. Rest(w, m, r)
      BY <1>1, <2>1, <3>1, <3>3, <3>4 DEF Rest
    <3>6. Ready(w, m, r)
      BY <1>1, <3>1, <3>4, <3>5 DEF Ready
    <3> QED BY <1>2, <2>3, <2>4, <2>5, <2>6, <3>1, <3>6
  <2>7. CASE d.InJobRead # 0
    <3>1. d.InJobRead > 0 /\ d.CmdRead <= LineBufSize
      BY <1>2, <2>2, <2>3, <2>7
    <3>2. Skipping(d, m)
      BY <2>3, <2>5, <3>1 DEF Skipping
    <3>3. Rest(d, m, r)
      BY <1>1, <2>1, <2>3, <3>1, <3>2 DEF Rest
    <3>4. Ready(d, m, r)
      BY <1>1, <2>3, <3>1, <3>3 DEF Ready
    <3> QED BY <1>2, <2>3, <2>4, <2>5, <2>7, <3>4
  <2> QED BY <2>6, <2>7
<1>8. CASE k.State = "WantData"
  <2> DEFINE q == [p EXCEPT !.InJobRead = @ + n]
  <2>1. InBody(k, m) /\ m > 0 /\ r = m - 1
    BY <1>8 DEF Rest
  <2>2. m \in 1..Len(msgs)
    BY <1>1, <1>2, <2>1
  <2>3. /\ msgs[m] \in Puts /\ Start(m) \in Nat /\ LineOf(m) \in Nat /\ BodyOf(m) \in Nat
        /\ k.InJob = m /\ k.InJobRead < BodyOf(m) /\ k.len = 0 /\ k.CmdRead = 0
        /\ k.base = Start(m) + LineOf(m) + k.InJobRead
    <3>1. Start(m) \in Nat
      BY <1>2, <2>2 DEF LaidOut
    <3> QED BY <2>1, <2>2, <3>1, MessageSizes DEF InBody
  <2>4. n <= BodyOf(m) - k.InJobRead
    BY <1>8, <2>3 DEF Wanted, InBodySize, BodyOf
  <2>5. k.InJobRead + n \in Nat /\ k.InJobRead + n <= BodyOf(m)
        /\ k.base + n = Start(m) + LineOf(m) + (k.InJobRead + n)
    BY <1>2, <2>3, <2>4, SMTT(40)
  <2>6. /\ q \in ConnType /\ q.base = k.base + n /\ q.len = 0 /\ q.CmdRead = 0
        /\ q.InJob = m /\ q.InJobRead = k.InJobRead + n /\ q.CmdLen = 0
    BY <1>4, <2>3, <2>5 DEF ConnType
  <2>7. a = maybeEnqueueInComingJob(q)
    BY <1>8 DEF AfterRead, PastBuffer, p
  <2> HIDE DEF q
  <2>8. Rest(a, m, m - 1) /\ a.base = q.base /\ a.len = q.len
    <3>1. q.CmdRead <= LineBufSize
      BY <1>2, <2>6
    <3> QED BY <2>2, <2>3, <2>5, <2>6, <2>7, <3>1, BodyCounted
  <2> HIDE DEF a
  <2>9. a.State # "WantCommand"
    <3>1. m - 1 # m
      BY <1>2
    <3> QED BY <2>8, <3>1 DEF Rest
  <2>10. Ready(a, m, r)
    BY <2>1, <2>8, <2>9 DEF Ready, Rest
  <2>11. a.base + a.len = k.base + k.len + n
    BY <1>2, <2>3, <2>6, <2>8
  <2> QED BY <2>10, <2>11 DEF a
<1> QED BY <1>5, <1>6, <1>7, <1>8 DEF Reads

-----------------------------------------------------------------------------
(***************************************************************************)
(* The inductive invariant.  Framed and InTurn count what was dispatched   *)
(* and answered; Rest ties the two counts to where the buffer stands.      *)
(***************************************************************************)
IOIInv ==
  /\ LaidOut
  /\ sent \in Nat /\ rcvd \in Nat /\ rcvd <= sent /\ sent <= stream.total
  /\ c.base + c.len <= rcvd
  /\ served \in Seq(Nat) /\ Framed
  /\ replies \in Seq(Msgs) /\ InTurn
  /\ Rest(c, Len(served), Len(replies))

\* What the invariant says of the stream stays as it is, since the script does.
LEMMA ScriptStays ==
  ASSUME UNCHANGED <<msgs, stream>>, LaidOut PROVE LaidOut'
BY DEF LaidOut, Start, LineOf, BodyOf

LEMMA IOInitInv == IOInit => IOIInv
<1> SUFFICES ASSUME IOInit PROVE IOIInv
  OBVIOUS
<1>1. /\ msgs \in Seq(Kinds) /\ stream = Laid(msgs) /\ sent = 0 /\ rcvd = 0
      /\ c = NewConn /\ served = <<>> /\ replies = <<>>
  BY ScriptsAssumption DEF IOInit
<1>2. LaidOut
  BY <1>1, LaidFacts
<1>3. Len(msgs) \in Nat /\ stream.total \in Nat
  <2>1. Len(msgs) \in Nat
    BY <1>2, MessageSizes
  <2> QED BY <1>2, <2>1 DEF LaidOut
<1>4. /\ c \in ConnType /\ c.State = "WantCommand" /\ c.base = 0 /\ c.len = 0 /\ c.CmdRead = 0
      /\ c.CmdLen = 0 /\ c.InJob = 0 /\ c.InJobRead = 0
  BY <1>1 DEF NewConn, ConnType, Msgs
<1>5. AtMessage(c, 0)
  BY <1>2, <1>4 DEF AtMessage, LaidOut
<1>6. Rest(c, 0, 0)
  BY <1>3, <1>4, <1>5, SizesAssumption DEF Rest
<1>7. served \in Seq(Nat) /\ replies \in Seq(Msgs) /\ Len(served) = 0 /\ Len(replies) = 0
  BY <1>1
<1>8. Framed /\ InTurn
  BY <1>1 DEF Framed, InTurn
<1> QED BY <1>1, <1>2, <1>3, <1>4, <1>6, <1>7, <1>8 DEF IOIInv

\* The invariant after a step that leaves the script alone.
LEMMA IOKeeps ==
  ASSUME IOIInv, UNCHANGED <<msgs, stream>>,
         sent' \in Nat, rcvd' \in Nat, rcvd' <= sent', sent' <= stream.total,
         c'.base + c'.len <= rcvd',
         served' \in Seq(Nat), \A n \in DOMAIN served' : served'[n] = n,
         replies' \in Seq(Msgs),
         \A n \in DOMAIN replies' : n \in DOMAIN msgs /\ replies'[n] \in Fitting(msgs[n]),
         Rest(c', Len(served'), Len(replies'))
  PROVE  IOIInv'
<1>1. LaidOut'
  BY ScriptStays DEF IOIInv
<1>2. Framed' /\ InTurn'
  BY DEF Framed, InTurn, Fitting
<1>3. Rest(c, Len(served), Len(replies))'
  BY DEF Rest, AtMessage, InBody, Skipping, Start, LineOf, BodyOf, Fitting
<1> QED BY <1>1, <1>2, <1>3 DEF IOIInv

LEMMA IONextInv == IOIInv /\ [IONext]_ioVars => IOIInv'
<1> SUFFICES ASSUME IOIInv, [IONext]_ioVars PROVE IOIInv'
  OBVIOUS
<1>1. /\ LaidOut /\ sent \in Nat /\ rcvd \in Nat /\ rcvd <= sent /\ sent <= stream.total
      /\ c.base + c.len <= rcvd /\ served \in Seq(Nat) /\ Framed
      /\ \A n \in DOMAIN served : served[n] = n
      /\ replies \in Seq(Msgs) /\ InTurn
      /\ \A n \in DOMAIN replies : n \in DOMAIN msgs /\ replies[n] \in Fitting(msgs[n])
      /\ Rest(c, Len(served), Len(replies))
  BY DEF IOIInv, Framed, InTurn
<1>2. /\ c \in ConnType /\ c.base \in Nat /\ c.len \in Nat /\ Len(msgs) \in Nat
      /\ DOMAIN msgs = 1..Len(msgs) /\ stream.total \in Nat
  <2>1. Len(msgs) \in Nat /\ DOMAIN msgs = 1..Len(msgs)
    BY <1>1, MessageSizes
  <2>2. stream.total \in Nat
    BY <1>1, <2>1 DEF LaidOut
  <2> QED BY <1>1, <2>1, <2>2 DEF Rest, ConnType
<1>3. CASE ReadSome
  <2>1. /\ Reads(c) /\ UNCHANGED <<msgs, stream, sent, replies>>
        /\ \E n \in 1..Least(sent - rcvd, Wanted(c)) :
             rcvd' = rcvd + n /\ Handled(AfterRead(PastBuffer(c, n), n))
    BY <1>3 DEF ReadSome
  <2>2. PICK n \in 1..Least(sent - rcvd, Wanted(c)) :
          rcvd' = rcvd + n /\ Handled(AfterRead(PastBuffer(c, n), n))
    BY <2>1
  <2> DEFINE k == AfterRead(PastBuffer(c, n), n)
  <2>3. Wanted(c) \in Int
    <3>1. /\ c.CmdRead \in Nat /\ c.InJobRead \in Nat /\ LineBufSize \in Nat /\ BucketBufSize \in Nat
      BY <1>2, SizesAssumption DEF ConnType
    <3>2. CASE c.State \in {"WantCommand", "WantEndLine"}
      BY <3>1, <3>2 DEF Wanted
    <3>3. CASE c.State = "Bitbucket"
      BY <3>1, <3>3 DEF Wanted, Least
    <3>4. CASE c.State = "WantData"
      <4>1. InBody(c, Len(served)) /\ Len(served) \in 0..Len(msgs) /\ Len(served) > 0
        BY <1>1, <3>4 DEF Rest
      <4>2. Len(served) \in 1..Len(msgs)
        BY <1>2, <4>1
      <4>3. InBodySize(c) \in Nat
        BY <1>1, <4>1, <4>2, MessageSizes DEF InBody, InBodySize, BodyOf
      <4> QED BY <3>1, <3>4, <4>3 DEF Wanted
    <3> QED BY <2>1, <3>2, <3>3, <3>4 DEF Reads
  <2>4. n \in Nat /\ n > 0 /\ n <= Wanted(c) /\ n <= sent - rcvd
    <3>1. n \in 1..Least(sent - rcvd, Wanted(c)) /\ sent - rcvd \in Int
      BY <1>1
    <3>2. \A w \in Int : n \in 1..Least(sent - rcvd, w) =>
            n \in Nat /\ n > 0 /\ n <= w /\ n <= sent - rcvd
      BY <3>1 DEF Least
    <3> QED BY <2>3, <3>1, <3>2
  <2>5. rcvd' \in Nat /\ rcvd' <= sent /\ c.base + c.len + n <= rcvd'
        /\ c.base + c.len + n <= stream.total
    <3>1. rcvd' = rcvd + n
      BY <2>2
    <3>2. \A x \in Nat, y \in Nat : x + y <= rcvd => x + y + n <= rcvd + n
      BY <1>1, <2>4
    <3>3. rcvd + n \in Nat /\ rcvd + n <= sent
      BY <1>1, <2>4
    <3>4. c.base + c.len + n <= rcvd + n
      BY <1>1, <1>2, <3>2
    <3>5. \A x \in Nat : x <= rcvd + n => x <= stream.total
      BY <1>1, <1>2, <3>3
    <3>6. c.base + c.len + n \in Nat
      BY <1>2, <2>4
    <3> QED BY <3>1, <3>3, <3>4, <3>5, <3>6
  <2>6. Ready(k, Len(served), Len(replies)) /\ k.base + k.len = c.base + c.len + n
    BY <1>1, <2>1, <2>4, <2>5, ReadKeeps
  <2>7. Handled(k)
    BY <2>2
  <2> HIDE DEF k
  <2>8. /\ c'.base + c'.len = k.base + k.len
        /\ served' \in Seq(Nat) /\ \A i \in DOMAIN served' : served'[i] = i
        /\ Rest(c', Len(served'), Len(replies))
    BY <1>1, <2>5, <2>6, <2>7, HandledKeeps
  <2>9. /\ sent' \in Nat /\ rcvd' <= sent' /\ sent' <= stream.total /\ c'.base + c'.len <= rcvd'
        /\ replies' = replies /\ UNCHANGED <<msgs, stream>>
    BY <1>1, <2>1, <2>5, <2>6, <2>8
  <2> QED BY <1>1, <2>5, <2>8, <2>9, IOKeeps
<1>4. CASE ReadEOF
  <2>1. /\ c' = [c EXCEPT !.State = "Close", !.InJob = 0, !.InJobRead = 0, !.held = 0]
        /\ UNCHANGED <<msgs, stream, sent, rcvd, served, replies>>
    BY <1>4 DEF ReadEOF
  <2>2. /\ c' \in ConnType /\ c'.State = "Close" /\ c'.base = c.base /\ c'.len = c.len
        /\ c'.CmdLen = c.CmdLen /\ c'.CmdRead = c.CmdRead
    BY <1>2, <2>1 DEF ConnType
  <2>3. Rest(c', Len(served), Len(replies))
    BY <1>1, <2>2 DEF Rest
  <2> QED BY <1>1, <2>1, <2>2, <2>3, IOKeeps
<1>5. CASE ReadError
  <2>1. rcvd' = sent /\ UNCHANGED <<msgs, stream, sent, c, served, replies>>
    BY <1>5 DEF ReadError
  <2>2. c.base + c.len <= sent
    BY <1>1, <1>2
  <2> QED BY <1>1, <2>1, <2>2, IOKeeps
<1>6. CASE SendReply
  <2> DEFINE k == connWantCommand(c)
             m == Len(served)
             r == Len(replies)
  <2>1. /\ c.State = "SendWord" /\ replies' = Append(replies, c.Reply) /\ Handled(k)
        /\ UNCHANGED <<msgs, stream, sent, rcvd>>
    BY <1>6 DEF SendReply
  <2>2. /\ AtMessage(c, m) /\ m > 0 /\ r = m - 1 /\ c.Reply \in Fitting(msgs[m]) /\ c.CmdLen = 0
        /\ c.CmdRead <= LineBufSize /\ m \in 0..Len(msgs)
    BY <1>1, <2>1 DEF Rest
  <2>3. m \in 1..Len(msgs) /\ r + 1 = m /\ m \in 0..m
    BY <1>2, <2>2
  <2>4. /\ k \in ConnType /\ k.State = "WantCommand" /\ k.base = c.base /\ k.len = c.len
        /\ k.CmdRead = c.CmdRead /\ k.CmdLen = 0 /\ k.InJob = c.InJob /\ k.InJobRead = c.InJobRead
    BY <1>2, <2>2 DEF connWantCommand, ConnType, Msgs
  <2> HIDE DEF k
  <2>5. AtMessage(k, m)
    BY <2>2, <2>4 DEF AtMessage
  <2>6. Ready(k, m, m)
    BY <2>2, <2>3, <2>4, <2>5 DEF Ready
  <2>7. k.base + k.len <= stream.total
    BY <1>1, <1>2, <2>4
  <2>8. /\ c'.base + c'.len = k.base + k.len
        /\ served' \in Seq(Nat) /\ \A i \in DOMAIN served' : served'[i] = i
        /\ Rest(c', Len(served'), m)
    BY <1>1, <2>1, <2>6, <2>7, HandledKeeps
  <2>9. c.Reply \in Msgs
    BY <1>2 DEF ConnType
  <2> HIDE DEF m
  <2>10. /\ replies' \in Seq(Msgs) /\ Len(replies') = m
         /\ \A i \in DOMAIN replies' : i \in DOMAIN msgs /\ replies'[i] \in Fitting(msgs[i])
    <3>1. /\ replies' \in Seq(Msgs) /\ Len(replies') = Len(replies) + 1
          /\ DOMAIN replies' = 1..(Len(replies) + 1) /\ Len(replies) \in Nat
          /\ DOMAIN replies = 1..Len(replies)
          /\ replies'[Len(replies) + 1] = c.Reply
          /\ \A i \in 1..Len(replies) : replies'[i] = replies[i]
      BY <1>1, <2>1, <2>9
    <3>2. Len(replies) + 1 = m
      BY <2>3
    <3>3. \A i \in 1..(Len(replies) + 1) : i = Len(replies) + 1 \/ i \in 1..Len(replies)
      BY <3>1
    <3> QED BY <1>1, <1>2, <2>2, <2>3, <3>1, <3>2, <3>3
  <2>11. c'.base + c'.len <= rcvd'
    BY <1>1, <2>1, <2>4, <2>8
  <2> QED BY <1>1, <2>1, <2>8, <2>10, <2>11, IOKeeps
<1>7. CASE Send
  <2>1. /\ sent' \in (sent + 1)..stream.total
        /\ UNCHANGED <<msgs, stream, rcvd, c, served, replies>>
    BY <1>7 DEF Send
  <2>2. sent' \in Nat /\ rcvd <= sent' /\ sent' <= stream.total
    BY <1>1, <1>2, <2>1
  <2> QED BY <1>1, <2>1, <2>2, IOKeeps
<1>8. CASE \E how \in {"eof", "reset"} : Leave(how)
  <2>1. UNCHANGED <<msgs, stream, sent, rcvd, c, served, replies>>
    BY <1>8 DEF Leave
  <2> QED BY <1>1, <2>1, IOKeeps
<1>9. CASE UNCHANGED ioVars
  <2>1. UNCHANGED <<msgs, stream, sent, rcvd, c, served, replies>>
    BY <1>9 DEF ioVars
  <2> QED BY <1>1, <2>1, IOKeeps
<1> QED BY <1>3, <1>4, <1>5, <1>6, <1>7, <1>8, <1>9 DEF IONext, hConn

\* The invariant, and with it all that follows, in every behaviour.
LEMMA IOInvariant == IOSpec => []IOIInv
BY IOInitInv, IONextInv, PTL DEF IOSpec

\* However the stream is cut, each command line is dispatched once, in order and from its
\* first byte, and every count stays within its buffer: scanLineEnd, fillExtraData, skip and
\* the reads of connProcessIO agree on where a message ends.
THEOREM FramesInput == IOSpec => []IOInv
<1>1. IOIInv => IOInv
  <2> SUFFICES ASSUME IOIInv PROVE IOInv
    OBVIOUS
  <2>1. /\ LaidOut /\ sent \in Nat /\ rcvd \in Nat /\ rcvd <= sent /\ sent <= stream.total
        /\ c.base + c.len <= rcvd /\ Framed /\ c \in ConnType /\ c.CmdRead <= LineBufSize
    BY DEF IOIInv, Rest
  <2>2. Len(msgs) \in Nat
    BY <2>1, MessageSizes
  <2>3. stream.total \in Nat
    BY <2>1, <2>2 DEF LaidOut
  <2>4. /\ c.base \in Nat /\ c.len \in Nat /\ c.CmdRead \in Nat /\ c.InJobRead \in Nat
        /\ c.State \in {"WantCommand", "WantData", "SendWord", "Bitbucket", "Close", "WantEndLine"}
    BY <2>1 DEF ConnType
  <2>5. c.base \in 0..stream.total /\ c.CmdRead \in 0..LineBufSize
        /\ sent \in 0..stream.total /\ rcvd \in 0..sent
    BY <2>1, <2>3, <2>4, SizesAssumption
  <2> QED BY <2>1, <2>4, <2>5 DEF IOInv, IOTypeOK
<1> QED BY <1>1, IOInvariant, PTL

\* A client that sends ahead can tell which reply is whose: hConn answers the n-th message
\* with the n-th reply, whatever was skipped, refused or left over from an earlier one.
THEOREM AnswersInTurn == IOSpec => []InTurn
<1>1. IOIInv => InTurn
  BY DEF IOIInv
<1> QED BY <1>1, IOInvariant, PTL
=============================================================================
