-------------------------- MODULE TransportProofs --------------------------
(***************************************************************************)
(* What a Modbus connection of Transport.tla guarantees for every timeout,  *)
(* size of messages, number of units and of requests: what a reply that is  *)
(* accepted can be, and which waits can outlast their deadline, from one    *)
(* inductive invariant IInv.                                                *)
(***************************************************************************)
EXTENDS Transport, SequenceTheorems, TLAPS

TypeOK ==
  /\ kind \in {"tcp", "serial"}
  /\ pc \in {"idle", "connect", "select", "create", "send", "sending", "recv", "receiving"}
  /\ left \in Int
  /\ limit \in Int
  /\ opened \in BOOLEAN
  /\ address \in Nat
  /\ request \in 0..MaxRequests
  /\ asked \in [Requests -> Unit]
  /\ sent \in 0..RequestSize
  /\ part \in 1..Len(ReadUpTo)
  /\ frame \in Seq(Requests)
  /\ inbox \in Seq(Requests)
  /\ coming \in [Requests -> Nat]
  /\ accepted \in {0} \cup Requests

Opening == {"connect", "select", "create"}
Sending == {"send", "sending"}
Receiving == {"recv", "receiving"}

\* A request is on an open connection, or opens one, and has read less of its
\* reply than the read under way asks for.
InOrder ==
  /\ pc \in Opening => ~opened
  /\ pc \in Sending \cup Receiving => opened
  /\ pc # "idle" => request \in Requests
  /\ pc \in Opening \cup Sending => frame = <<>> /\ part = 1
  /\ pc \in Receiving => Len(frame) < Asked

\* On a TCP connection there is nothing to read before a request is sent or after
\* its reply was accepted, and in between exactly the rest of one reply.
Drained ==
  kind = "tcp" =>
    /\ ~opened \/ pc \in Sending \cup {"idle"} => inbox = <<>> /\ coming = NoReplies
    /\ pc \in Receiving =>
         /\ \A k \in 1..Len(frame) : frame[k] = request
         /\ \A k \in 1..Len(inbox) : inbox[k] = request
         /\ \A r \in Requests : r # request => coming[r] = 0
         /\ Len(frame) + Len(inbox) + coming[request] = ReplySize

\* The reply that was accepted came from the unit that was asked.
Accepted == accepted # 0 => asked[accepted] = asked[request]

\* The kernel waits for what is left of a deadline and no longer, or without a limit, on a
\* socket whose deadline is less than a millisecond away.
Bounded ==
  pc \in {"sending", "receiving"} =>
    IF limit = NoLimit THEN kind = "tcp" /\ left < TicksPerMs ELSE 0 <= limit /\ limit <= left

IInv == TypeOK /\ InOrder /\ Drained /\ Accepted /\ Bounded
-----------------------------------------------------------------------------
(* Arithmetic, sequences, and what a read does.                             *)

\* The whole milliseconds of a time, which become the timeout of a socket.
LEMMA WholeMs ==
  ASSUME NEW a \in Nat, NEW b \in Nat \ {0}
  PROVE  /\ (a \div b) * b \in Nat
         /\ (a \div b) * b <= a
         /\ (a \div b) * b = 0 => a < b
<1>1. /\ a \div b \in Nat
      /\ (a \div b) * b <= a
      /\ a < ((a \div b) + 1) * b
  OBVIOUS
<1>2. (a \div b) * b \in Nat
  BY <1>1
<1>3. ((a \div b) + 1) * b = (a \div b) * b + b
  BY <1>1
<1> QED
  BY <1>1, <1>2, <1>3

LEMMA MinOfTwo ==
  ASSUME NEW a \in Nat, NEW b \in Nat
  PROVE  Min({a, b}) = IF a <= b THEN a ELSE b
  BY DEF Min

LEMMA MaxOfTwo ==
  ASSUME NEW a \in Int, NEW b \in Int
  PROVE  Max({a, b}) = IF a >= b THEN a ELSE b
  BY DEF Max

LEMMA Bounds ==
  /\ Unit # {}
  /\ MaxRequests \in Nat \ {0}
  /\ RequestSize \in Nat \ {0}
  /\ Addresses \in Nat \ {0}
  BY TransportAssumption

LEMMA TimeoutPositive == Timeout \in Int /\ TicksPerMs \in Nat \ {0}
<1>1. TicksPerMs \in Nat \ {0}
  BY TransportAssumption
<1>2. PICK k \in 1..Timeout : Timeout = k * TicksPerMs
  BY TransportAssumption
<1>3. k \in Int
  OBVIOUS
<1> QED
  BY <1>1, <1>2, <1>3

\* What is left of a deadline is never exceeded, but for the last millisecond.
LEMMA LimitInTime ==
  ASSUME NEW l \in Nat \ {0}
  PROVE  /\ LimitOf(l) \in Int
         /\ IF LimitOf(l) = NoLimit THEN kind = "tcp" /\ l < TicksPerMs
                                   ELSE 0 <= LimitOf(l) /\ LimitOf(l) <= l
<1> DEFINE whole == (l \div TicksPerMs) * TicksPerMs
<1>1. whole \in Nat /\ whole <= l /\ (whole = 0 => l < TicksPerMs)
  BY TimeoutPositive, WholeMs
<1>2. LimitOf(l) = IF kind = "tcp" /\ whole = 0 THEN NoLimit ELSE whole
  BY DEF LimitOf
<1> HIDE DEF whole
<1> QED
  BY <1>1, <1>2 DEF NoLimit

\* The reads of a reply ask for more and more of it, in the end for all of it.
LEMMA ReadsGrow ==
  /\ Len(ReadUpTo) \in Nat \ {0}
  /\ \A k \in 1..Len(ReadUpTo) : ReadUpTo[k] \in Nat \ {0} /\ ReadUpTo[k] <= ReplySize
  /\ \A j, k \in 1..Len(ReadUpTo) : j < k => ReadUpTo[j] < ReadUpTo[k]
  /\ ReplySize \in Nat \ {0}
<1>1. ReadUpTo \in Seq(Nat \ {0}) /\ ReadUpTo # <<>>
  BY TransportAssumption
<1>2. Len(ReadUpTo) \in Nat \ {0}
  BY <1>1, EmptySeq, LenProperties
<1>3. \A k \in 1..Len(ReadUpTo) : ReadUpTo[k] \in Nat \ {0}
  BY <1>1, ElementOfSeq
<1>4. \A j, k \in 1..Len(ReadUpTo) : j < k => ReadUpTo[j] < ReadUpTo[k]
  BY TransportAssumption
<1>5. Len(ReadUpTo) \in 1..Len(ReadUpTo)
  BY <1>2
<1>6. \A k \in 1..Len(ReadUpTo) : k = Len(ReadUpTo) \/ k < Len(ReadUpTo)
  BY <1>2
<1> QED
  BY <1>2, <1>3, <1>4, <1>5, <1>6 DEF ReplySize

\* The first n elements of a sequence go over to the end of another.
LEMMA MoveFront ==
  ASSUME NEW S, NEW s \in Seq(S), NEW t \in Seq(S), NEW n \in Nat, n <= Len(t)
  PROVE  LET head == SubSeq(t, 1, n)
             read == s \o head
             rest == SubSeq(t, n + 1, Len(t))
         IN  /\ read \in Seq(S) /\ Len(read) = Len(s) + n
             /\ rest \in Seq(S) /\ Len(rest) = Len(t) - n
             /\ \A k \in 1..Len(s) : read[k] = s[k]
             /\ \A k \in 1..n : read[Len(s) + k] = t[k]
             /\ \A k \in 1..Len(t) - n : rest[k] = t[n + k]
<1> DEFINE head == SubSeq(t, 1, n)
           read == s \o head
           rest == SubSeq(t, n + 1, Len(t))
<1>1. Len(s) \in Nat /\ Len(t) \in Nat
  BY LenProperties
<1>2. \A k \in 1..Len(t) : t[k] \in S
  BY ElementOfSeq
<1>3. head \in Seq(S) /\ Len(head) = n /\ \A k \in 1..n : head[k] = t[k]
  BY <1>1, <1>2, SubSeqProperties
<1>4. /\ rest \in Seq(S) /\ Len(rest) = Len(t) - n
      /\ \A k \in 1..Len(t) - n : rest[k] = t[n + k]
  BY <1>1, <1>2, SubSeqProperties
<1>5. /\ read \in Seq(S) /\ Len(read) = Len(s) + Len(head)
      /\ \A k \in 1..Len(s) + Len(head) : read[k] = IF k <= Len(s) THEN s[k] ELSE head[k - Len(s)]
  <2> HIDE DEF head
  <2> QED
    BY <1>3, ConcatProperties
<1> HIDE DEF head, read, rest
<1>6. \A k \in 1..Len(s) : read[k] = s[k]
  BY <1>1, <1>3, <1>5
<1>7. \A k \in 1..n : read[Len(s) + k] = t[k]
  BY SMTT(30), <1>1, <1>3, <1>5
<1> QED
  BY <1>3, <1>4, <1>5, <1>6, <1>7 DEF head, read, rest

\* What RecvData does with the bytes it finds: `read' is the frame with them, `rest'
\* what stays in the socket.
Received(read, rest) ==
  /\ pc = "receiving"
  /\ read \in Seq(Requests) /\ rest \in Seq(Requests)
  /\ Len(read) + Len(rest) = Len(frame) + Len(inbox)
  /\ Len(read) \in Nat \ {0} /\ Len(rest) \in Nat /\ Len(read) <= Asked
  /\ \A k \in 1..Len(read) : \/ \E j \in 1..Len(frame) : read[k] = frame[j]
                             \/ \E j \in 1..Len(inbox) : read[k] = inbox[j]
  /\ \A k \in 1..Len(rest) : \E j \in 1..Len(inbox) : rest[k] = inbox[j]
  /\ frame' = read
  /\ UNCHANGED <<kind, address, request, asked, sent>>
  /\ \/ /\ Len(read) < Asked
        /\ pc' = "recv" /\ inbox' = rest /\ UNCHANGED <<left, limit, opened, part, coming, accepted>>
     \/ /\ Len(read) = Asked /\ part < Len(ReadUpTo)
        /\ pc' = "recv" /\ left' = Timeout /\ part' = part + 1 /\ inbox' = rest
        /\ UNCHANGED <<limit, opened, coming, accepted>>
     \/ /\ Len(read) = ReplySize /\ Answers(read)
        /\ pc' = "idle" /\ accepted' = read[1] /\ inbox' = rest
        /\ UNCHANGED <<left, limit, opened, part, coming>>
     \/ Fail /\ UNCHANGED <<left, limit, part, accepted>>

LEMMA RecvIsReceived ==
  ASSUME TypeOK, InOrder, RecvData
  PROVE  \E read, rest \in Seq(Requests) : Received(read, rest)
<1> DEFINE n == Min({Len(inbox), Asked - Len(frame)})
           read == frame \o SubSeq(inbox, 1, n)
           rest == SubSeq(inbox, n + 1, Len(inbox))
<1>1. /\ frame \in Seq(Requests) /\ inbox \in Seq(Requests)
      /\ pc = "receiving" /\ inbox # <<>> /\ Len(frame) < Asked
  BY DEF TypeOK, InOrder, RecvData, Receiving
<1>2. Len(frame) \in Nat /\ Len(inbox) \in Nat \ {0} /\ Asked \in Nat
  BY <1>1, ReadsGrow, EmptySeq, LenProperties DEF TypeOK, Asked
<1>3. n \in Nat \ {0} /\ n <= Len(inbox) /\ n <= Asked - Len(frame)
  <2>1. Asked - Len(frame) \in Nat \ {0}
    BY <1>1, <1>2
  <2>2. n = IF Len(inbox) <= Asked - Len(frame) THEN Len(inbox) ELSE Asked - Len(frame)
    BY <1>2, <2>1, MinOfTwo
  <2> QED
    BY <1>2, <2>1, <2>2
<1> HIDE DEF n
<1>4. /\ read \in Seq(Requests) /\ Len(read) = Len(frame) + n
      /\ rest \in Seq(Requests) /\ Len(rest) = Len(inbox) - n
      /\ \A k \in 1..Len(frame) : read[k] = frame[k]
      /\ \A k \in 1..n : read[Len(frame) + k] = inbox[k]
      /\ \A k \in 1..Len(inbox) - n : rest[k] = inbox[n + k]
  BY <1>1, <1>3, MoveFront
<1>5. /\ frame' = read
      /\ CASE Len(read) < Asked ->
                pc' = "recv" /\ inbox' = rest /\ UNCHANGED <<left, limit, opened, part, coming, accepted>>
           [] Len(read) = Asked /\ part < Len(ReadUpTo) ->
                /\ BeginCall("recv") /\ part' = part + 1 /\ inbox' = rest
                /\ UNCHANGED <<opened, coming, accepted>>
           [] Len(read) = ReplySize /\ Answers(read) ->
                /\ pc' = "idle" /\ accepted' = read[1] /\ inbox' = rest
                /\ UNCHANGED <<left, limit, opened, part, coming>>
           [] OTHER -> Fail /\ UNCHANGED <<left, limit, part, accepted>>
      /\ UNCHANGED <<kind, address, request, asked, sent>>
  BY DEF RecvData, n
<1> HIDE DEF read, rest
<1>6. /\ Len(read) + Len(rest) = Len(frame) + Len(inbox)
      /\ Len(read) \in Nat \ {0} /\ Len(rest) \in Nat /\ Len(read) <= Asked
  BY <1>2, <1>3, <1>4
<1>7. \A k \in 1..Len(read) : \/ \E j \in 1..Len(frame) : read[k] = frame[j]
                             \/ \E j \in 1..Len(inbox) : read[k] = inbox[j]
  <2> TAKE k \in 1..Len(read)
  <2>1. CASE k <= Len(frame)
    BY <1>2, <1>4, <1>6, <2>1
  <2>2. CASE k > Len(frame)
    <3> DEFINE j == k - Len(frame)
    <3>1. j \in 1..n /\ j \in 1..Len(inbox) /\ k = Len(frame) + j
      BY <1>2, <1>3, <1>4, <1>6, <2>2
    <3> QED
      BY <1>4, <3>1
  <2> QED
    BY <1>2, <1>6, <2>1, <2>2
<1>8. \A k \in 1..Len(rest) : \E j \in 1..Len(inbox) : rest[k] = inbox[j]
  <2> TAKE k \in 1..Len(rest)
  <2>1. n + k \in 1..Len(inbox) /\ rest[k] = inbox[n + k]
    BY <1>2, <1>3, <1>4
  <2> QED
    BY <2>1
<1>9. \/ /\ Len(read) < Asked
         /\ pc' = "recv" /\ inbox' = rest /\ UNCHANGED <<left, limit, opened, part, coming, accepted>>
      \/ /\ Len(read) = Asked /\ part < Len(ReadUpTo)
         /\ pc' = "recv" /\ left' = Timeout /\ part' = part + 1 /\ inbox' = rest
         /\ UNCHANGED <<limit, opened, coming, accepted>>
      \/ /\ Len(read) = ReplySize /\ Answers(read)
         /\ pc' = "idle" /\ accepted' = read[1] /\ inbox' = rest
         /\ UNCHANGED <<left, limit, opened, part, coming>>
      \/ Fail /\ UNCHANGED <<left, limit, part, accepted>>
  BY <1>5, Zenon DEF BeginCall
<1> QED
  BY <1>1, <1>4, <1>5, <1>6, <1>7, <1>8, <1>9 DEF Received
-----------------------------------------------------------------------------
(* Each part of the invariant is preserved.                                 *)

\* Every step preserves the types.
LEMMA TypeOKStep ==
  ASSUME TypeOK, InOrder, [Next]_vars
  PROVE  TypeOK'
<1> USE Bounds DEF TypeOK, Requests, InOrder, Opening, Sending, Receiving
<1>1. ASSUME NEW u \in Unit, Request(u) PROVE TypeOK'
  BY SMTT(30), <1>1, TimeoutPositive, ReadsGrow, EmptySeq DEF Request, BeginCall
<1>2. CASE ConnectWaits
  BY <1>2, TimeoutPositive DEF ConnectWaits, Attempt, Unchanged
<1>3. CASE ConnectSucceeds
  BY <1>3 DEF ConnectSucceeds, Attempt, Unchanged
<1>4. CASE ConnectFails
  BY <1>4 DEF ConnectFails, Attempt, Unchanged
<1>5. CASE ConnectGivesUp
  BY <1>5 DEF ConnectGivesUp, Attempt, Unchanged
<1>6. CASE OpenPort
  BY <1>6, EmptySeq DEF OpenPort, Unchanged
<1>7. CASE OpenFails
  BY <1>7 DEF OpenFails, Attempt, Unchanged
<1>8. CASE Create
  BY <1>8, TimeoutPositive DEF Create, BeginCall, Unchanged
<1>9. CASE CreateFails
  BY <1>9, EmptySeq DEF CreateFails, Fail, Disconnected, NoReplies, Unchanged
<1>10. CASE SendMore
  <2>1. limit' \in Int
    BY <1>10, LimitInTime DEF SendMore, Attempt, Unchanged
  <2> QED
    BY <1>10, <2>1 DEF SendMore, Attempt, Unchanged
<1>11. ASSUME NEW n \in 1..RequestSize, SendData(n) PROVE TypeOK'
  <2>1. sent' \in 0..RequestSize
    BY <1>11 DEF SendData
  <2>2. coming' \in [Requests -> Nat]
    BY <1>11, ReadsGrow DEF SendData
  <2>3. left' \in Int /\ pc' \in {"send", "recv"} /\ limit' = limit
    BY <1>11, TimeoutPositive DEF SendData, BeginCall
  <2> QED
    BY <1>11, <2>1, <2>2, <2>3 DEF SendData, Unchanged
<1>12. CASE RecvMore
  <2>1. limit' \in Int
    BY <1>12, LimitInTime DEF RecvMore, Attempt, Unchanged
  <2> QED
    BY <1>12, <2>1 DEF RecvMore, Attempt, Unchanged
<1>13. CASE RecvData
  <2>1. PICK read, rest \in Seq(Requests) : Received(read, rest)
    BY <1>13, RecvIsReceived DEF InOrder
  <2>2. kind' \in {"tcp", "serial"} /\ pc' \in {"recv", "idle"} /\ opened' \in BOOLEAN
    BY <2>1 DEF Received, Fail, Disconnected
  <2>3. left' \in Int /\ limit' \in Int
    BY <2>1, TimeoutPositive DEF Received
  <2>4. part' \in 1..Len(ReadUpTo)
    <3>1. part' = part \/ (part < Len(ReadUpTo) /\ part' = part + 1)
      BY <2>1 DEF Received
    <3> QED
      BY <3>1, ReadsGrow
  <2>5. frame' \in Seq(Requests) /\ inbox' \in Seq(Requests)
    BY <2>1, EmptySeq DEF Received, Fail, Disconnected
  <2>6. coming' \in [Requests -> Nat]
    <3>1. coming' = coming \/ coming' = NoReplies
      BY <2>1 DEF Received, Fail, Disconnected
    <3> QED
      BY <3>1 DEF NoReplies
  <2>7. accepted' \in {0} \cup Requests
    <3>1. read[1] \in Requests
      <4>1. 1 \in 1..Len(read)
        BY <2>1 DEF Received
      <4> QED
        BY <4>1, ElementOfSeq
    <3> QED
      BY <2>1, <3>1 DEF Received
  <2>8. address' \in Nat /\ request' \in 0..MaxRequests /\ asked' \in [Requests -> Unit] /\ sent' \in 0..RequestSize
    BY <2>1 DEF Received
  <2> QED
    BY <2>2, <2>3, <2>4, <2>5, <2>6, <2>7, <2>8
<1>14. CASE CallFails
  BY <1>14, EmptySeq DEF CallFails, Fail, Disconnected, NoReplies, Unchanged
<1>15. ASSUME NEW r \in Requests, Arrive(r) PROVE TypeOK'
  BY SMTT(30), <1>15 DEF Arrive
<1>16. CASE Tick
  <2>1. left - 1 \in Int /\ -1 \in Int
    OBVIOUS
  <2>2. left' = IF left - 1 >= -1 THEN left - 1 ELSE -1
    BY <1>16, <2>1, MaxOfTwo DEF Tick
  <2> QED
    BY SMTT(30), <1>16, <2>2 DEF Tick, Attempt, Unchanged, NoLimit
<1>17. CASE Finished
  BY <1>17 DEF Finished, vars
<1>18. CASE UNCHANGED vars
  BY <1>18 DEF vars
<1> QED
  BY <1>1, <1>2, <1>3, <1>4, <1>5, <1>6, <1>7, <1>8, <1>9, <1>10, <1>11, <1>12, <1>13, <1>14, <1>15, <1>16, <1>17, <1>18 DEF Next

\* Connecting, sending and receiving follow each other.
LEMMA InOrderStep ==
  ASSUME TypeOK, InOrder, [Next]_vars
  PROVE  InOrder'
<1> USE Bounds DEF TypeOK, InOrder, Asked, Opening, Sending, Receiving, Requests
<1>1. ASSUME NEW u \in Unit, Request(u) PROVE InOrder'
  BY <1>1, ReadsGrow DEF Request, BeginCall
<1>2. CASE ConnectWaits
  BY <1>2 DEF ConnectWaits, Attempt, Unchanged
<1>3. CASE ConnectSucceeds
  BY <1>3 DEF ConnectSucceeds, Attempt, Unchanged
<1>4. CASE ConnectFails
  BY <1>4 DEF ConnectFails, Attempt, Unchanged
<1>5. CASE ConnectGivesUp
  BY <1>5 DEF ConnectGivesUp, Attempt, Unchanged
<1>6. CASE OpenPort
  BY <1>6 DEF OpenPort, Unchanged
<1>7. CASE OpenFails
  BY <1>7 DEF OpenFails, Attempt, Unchanged
<1>8. CASE Create
  BY <1>8 DEF Create, BeginCall, Unchanged
<1>9. CASE CreateFails
  BY <1>9 DEF CreateFails, Fail, Disconnected, NoReplies, Unchanged
<1>10. CASE SendMore
  BY <1>10 DEF SendMore, Attempt, Unchanged
<1>11. ASSUME NEW n \in 1..RequestSize, SendData(n) PROVE InOrder'
  BY <1>11, ReadsGrow, EmptySeq DEF SendData, BeginCall, Unchanged
<1>12. CASE RecvMore
  BY <1>12 DEF RecvMore, Attempt, Unchanged
<1>13. CASE RecvData
  <2>1. PICK read, rest \in Seq(Requests) : Received(read, rest)
    BY <1>13, RecvIsReceived DEF InOrder
  <2>2. CASE Len(read) < Asked /\ UNCHANGED <<opened, part>> /\ pc' = "recv"
    BY <2>1, <2>2 DEF Received
  <2>3. CASE Len(read) = Asked /\ part < Len(ReadUpTo) /\ part' = part + 1 /\ opened' = opened /\ pc' = "recv"
    <3>1. part \in 1..Len(ReadUpTo) /\ part + 1 \in 1..Len(ReadUpTo) /\ part < part + 1
      BY <2>3, ReadsGrow
    <3>2. Asked < Asked'
      BY <2>3, <3>1, ReadsGrow
    <3> QED
      BY <2>1, <2>3, <3>2 DEF Received
  <2>4. CASE pc' = "idle"
    BY <2>1, <2>4 DEF Received
  <2> QED
    BY <2>1, <2>2, <2>3, <2>4 DEF Received, Fail
<1>14. CASE CallFails
  BY <1>14 DEF CallFails, Fail, Disconnected, NoReplies, Unchanged
<1>15. ASSUME NEW r \in Requests, Arrive(r) PROVE InOrder'
  BY <1>15 DEF Arrive
<1>16. CASE Tick
  BY <1>16 DEF Tick, Attempt, Unchanged
<1>17. CASE Finished
  BY <1>17 DEF Finished, vars
<1>18. CASE UNCHANGED vars
  BY <1>18 DEF vars
<1> QED
  BY <1>1, <1>2, <1>3, <1>4, <1>5, <1>6, <1>7, <1>8, <1>9, <1>10, <1>11, <1>12, <1>13, <1>14, <1>15, <1>16, <1>17, <1>18 DEF Next

\* Only a reply from the unit that was asked is accepted.
LEMMA AcceptedStep ==
  ASSUME TypeOK, InOrder, Accepted, [Next]_vars
  PROVE  Accepted'
<1> USE Bounds DEF TypeOK, Accepted, Requests
<1>1. ASSUME NEW u \in Unit, Request(u) PROVE Accepted'
  BY <1>1 DEF Request, BeginCall
<1>2. CASE ConnectWaits
  BY <1>2 DEF ConnectWaits, Attempt, Unchanged
<1>3. CASE ConnectSucceeds
  BY <1>3 DEF ConnectSucceeds, Attempt, Unchanged
<1>4. CASE ConnectFails
  BY <1>4 DEF ConnectFails, Attempt, Unchanged
<1>5. CASE ConnectGivesUp
  BY <1>5 DEF ConnectGivesUp, Attempt, Unchanged
<1>6. CASE OpenPort
  BY <1>6 DEF OpenPort, Unchanged
<1>7. CASE OpenFails
  BY <1>7 DEF OpenFails, Attempt, Unchanged
<1>8. CASE Create
  BY <1>8 DEF Create, BeginCall, Unchanged
<1>9. CASE CreateFails
  BY <1>9 DEF CreateFails, Fail, Disconnected, NoReplies, Unchanged
<1>10. CASE SendMore
  BY <1>10 DEF SendMore, Attempt, Unchanged
<1>11. ASSUME NEW n \in 1..RequestSize, SendData(n) PROVE Accepted'
  BY <1>11 DEF SendData, BeginCall, Unchanged
<1>12. CASE RecvMore
  BY <1>12 DEF RecvMore, Attempt, Unchanged
<1>13. CASE RecvData
  <2>1. PICK read, rest \in Seq(Requests) : Received(read, rest)
    BY <1>13, RecvIsReceived DEF InOrder
  <2> QED
    BY <2>1, ReadsGrow DEF Received, Answers, Fail, Disconnected
<1>14. CASE CallFails
  BY <1>14 DEF CallFails, Fail, Disconnected, NoReplies, Unchanged
<1>15. ASSUME NEW r \in Requests, Arrive(r) PROVE Accepted'
  BY <1>15 DEF Arrive
<1>16. CASE Tick
  BY <1>16 DEF Tick, Attempt, Unchanged
<1>17. CASE Finished
  BY <1>17 DEF Finished, vars
<1>18. CASE UNCHANGED vars
  BY <1>18 DEF vars
<1> QED
  BY <1>1, <1>2, <1>3, <1>4, <1>5, <1>6, <1>7, <1>8, <1>9, <1>10, <1>11, <1>12, <1>13, <1>14, <1>15, <1>16, <1>17, <1>18 DEF Next

\* The kernel waits for what is left of a deadline, and no longer.
LEMMA BoundedStep ==
  ASSUME TypeOK, InOrder, Bounded, [Next]_vars
  PROVE  Bounded'
<1> USE Bounds DEF TypeOK, Bounded, NoLimit
<1>1. ASSUME NEW u \in Unit, Request(u) PROVE Bounded'
  BY <1>1 DEF Request, BeginCall
<1>2. CASE ConnectWaits
  BY <1>2 DEF ConnectWaits, Attempt, Unchanged
<1>3. CASE ConnectSucceeds
  BY <1>3 DEF ConnectSucceeds, Attempt, Unchanged
<1>4. CASE ConnectFails
  BY <1>4 DEF ConnectFails, Attempt, Unchanged
<1>5. CASE ConnectGivesUp
  BY <1>5 DEF ConnectGivesUp, Attempt, Unchanged
<1>6. CASE OpenPort
  BY <1>6 DEF OpenPort, Unchanged
<1>7. CASE OpenFails
  BY <1>7 DEF OpenFails, Attempt, Unchanged
<1>8. CASE Create
  BY <1>8 DEF Create, BeginCall, Unchanged
<1>9. CASE CreateFails
  BY <1>9 DEF CreateFails, Fail, Disconnected, NoReplies, Unchanged
<1>10. CASE SendMore
  BY <1>10, LimitInTime DEF SendMore, Attempt, Unchanged
<1>11. ASSUME NEW n \in 1..RequestSize, SendData(n) PROVE Bounded'
  BY <1>11 DEF SendData, BeginCall, Unchanged
<1>12. CASE RecvMore
  BY <1>12, LimitInTime DEF RecvMore, Attempt, Unchanged
<1>13. CASE RecvData
  <2>1. PICK read, rest \in Seq(Requests) : Received(read, rest)
    BY <1>13, RecvIsReceived DEF InOrder
  <2> QED
    BY <2>1 DEF Received, Fail, Disconnected
<1>14. CASE CallFails
  BY <1>14 DEF CallFails, Fail, Disconnected, NoReplies, Unchanged
<1>15. ASSUME NEW r \in Requests, Arrive(r) PROVE Bounded'
  BY <1>15 DEF Arrive
<1>16. CASE Tick
  <2>1. left - 1 \in Int /\ -1 \in Int
    OBVIOUS
  <2>2. left' = IF left - 1 >= -1 THEN left - 1 ELSE -1
    BY <1>16, <2>1, MaxOfTwo DEF Tick
  <2> QED
    BY <1>16, <2>2, TimeoutPositive DEF Tick, Attempt, Unchanged, NoLimit
<1>17. CASE Finished
  BY <1>17 DEF Finished, vars
<1>18. CASE UNCHANGED vars
  BY <1>18 DEF vars
<1> QED
  BY <1>1, <1>2, <1>3, <1>4, <1>5, <1>6, <1>7, <1>8, <1>9, <1>10, <1>11, <1>12, <1>13, <1>14, <1>15, <1>16, <1>17, <1>18 DEF Next

\* Nothing of a reply is left where another request begins.
LEMMA DrainedStep ==
  ASSUME TypeOK, InOrder, Drained, [Next]_vars
  PROVE  Drained'
<1> USE Bounds DEF TypeOK, InOrder, Drained, Opening, Sending, Receiving, Requests
<1>1. ASSUME NEW u \in Unit, Request(u) PROVE Drained'
  BY <1>1 DEF Request, BeginCall
<1>2. CASE ConnectWaits
  BY <1>2 DEF ConnectWaits, Attempt, Unchanged
<1>3. CASE ConnectSucceeds
  BY <1>3 DEF ConnectSucceeds, Attempt, Unchanged
<1>4. CASE ConnectFails
  BY <1>4 DEF ConnectFails, Attempt, Unchanged
<1>5. CASE ConnectGivesUp
  BY <1>5 DEF ConnectGivesUp, Attempt, Unchanged
<1>6. CASE OpenPort
  BY <1>6 DEF OpenPort, Unchanged
<1>7. CASE OpenFails
  BY <1>7 DEF OpenFails, Attempt, Unchanged
<1>8. CASE Create
  BY <1>8 DEF Create, BeginCall, Unchanged
<1>9. CASE CreateFails
  BY <1>9 DEF CreateFails, Fail, Disconnected, NoReplies, Unchanged
<1>10. CASE SendMore
  BY <1>10 DEF SendMore, Attempt, Unchanged
<1>11. ASSUME NEW n \in 1..RequestSize, SendData(n) PROVE Drained'
  <2> SUFFICES ASSUME kind = "tcp" PROVE Drained'
    BY <1>11 DEF SendData, BeginCall, Unchanged
  <2>1. CASE pc' = "send"
    BY <1>11, <2>1 DEF SendData, BeginCall, Unchanged
  <2>2. CASE pc' = "recv"
    <3>1. /\ coming = NoReplies /\ inbox = <<>> /\ frame = <<>>
          /\ coming' = [coming EXCEPT ![request] = ReplySize]
          /\ UNCHANGED <<inbox, frame, request>>
      BY <1>11, <2>2 DEF SendData, BeginCall, Unchanged
    <3>2. Len(frame) = 0 /\ Len(inbox) = 0
      BY <3>1
    <3>3. coming'[request] = ReplySize /\ \A r \in Requests : r # request => coming'[r] = 0
      <4>1. request \in Requests /\ DOMAIN coming = Requests /\ \A r \in Requests : coming[r] = 0
        BY <3>1, <2>2, <1>11 DEF NoReplies, SendData
      <4> QED
        BY <3>1, <4>1
    <3> QED
      BY <1>11, <2>2, <3>1, <3>2, <3>3, ReadsGrow DEF SendData, BeginCall, Unchanged
  <2> QED
    BY <1>11, <2>1, <2>2 DEF SendData, BeginCall, Unchanged
<1>12. CASE RecvMore
  BY <1>12 DEF RecvMore, Attempt, Unchanged
<1>13. CASE RecvData
  <2>1. PICK read, rest \in Seq(Requests) : Received(read, rest)
    BY <1>13, RecvIsReceived DEF InOrder
  <2> SUFFICES ASSUME kind = "tcp" PROVE Drained'
    BY <2>1 DEF Received
  <2>2. /\ \A k \in 1..Len(frame) : frame[k] = request
        /\ \A k \in 1..Len(inbox) : inbox[k] = request
        /\ \A r \in Requests : r # request => coming[r] = 0
        /\ Len(frame) + Len(inbox) + coming[request] = ReplySize
        /\ coming[request] \in Nat
    BY <2>1 DEF Received
  <2>3. /\ \A k \in 1..Len(read) : read[k] = request
        /\ \A k \in 1..Len(rest) : rest[k] = request
        /\ Len(read) + Len(rest) + coming[request] = ReplySize
        /\ Len(read) \in Nat /\ Len(rest) \in Nat
    BY <2>1, <2>2 DEF Received
  <2>4. CASE pc' = "recv"
    <3>1. inbox' = rest /\ frame' = read /\ UNCHANGED <<coming, opened, request, kind>>
      BY <2>1, <2>4 DEF Received, Fail
    <3> QED
      BY <2>1, <2>2, <2>3, <2>4, <3>1 DEF Received
  <2>5. CASE Len(read) = ReplySize /\ inbox' = rest /\ pc' = "idle" /\ coming' = coming
    <3>1. Len(rest) = 0 /\ coming[request] = 0
      BY <2>1, <2>3, <2>5, ReadsGrow
    <3>2. inbox' = <<>>
      BY <2>1, <2>5, <3>1, EmptySeq DEF Received
    <3>3. coming' = NoReplies
      BY <2>2, <2>5, <3>1 DEF NoReplies
    <3> QED
      BY <2>5, <3>2, <3>3
  <2>6. CASE Disconnected /\ pc' = "idle"
    BY <2>1, <2>6 DEF Disconnected
  <2> QED
    BY <2>1, <2>4, <2>5, <2>6 DEF Received, Fail
<1>14. CASE CallFails
  BY <1>14 DEF CallFails, Fail, Disconnected, NoReplies, Unchanged
<1>15. ASSUME NEW r \in Requests, Arrive(r) PROVE Drained'
  <2> SUFFICES ASSUME kind = "tcp" PROVE Drained'
    BY <1>15 DEF Arrive
  <2>1. coming # NoReplies
    BY <1>15 DEF Arrive, NoReplies
  <2>2. pc \in Receiving /\ r = request
    BY <1>15, <2>1 DEF Arrive
  <2>3. /\ Len(inbox') = Len(inbox) + 1
        /\ \A k \in 1..Len(inbox) : inbox'[k] = inbox[k]
        /\ inbox'[Len(inbox) + 1] = request
        /\ Len(inbox) \in Nat
    BY <1>15, <2>2, AppendProperties, LenProperties DEF Arrive
  <2>4. coming'[request] = coming[request] - 1 /\ coming[request] \in Nat
    BY <1>15, <2>2 DEF Arrive
  <2>5. \A q \in Requests : q # request => coming'[q] = 0
    BY <1>15, <2>2 DEF Arrive
  <2>6. \A k \in 1..Len(inbox') : inbox'[k] = request
    <3>1. \A k \in 1..Len(inbox) + 1 : k \in 1..Len(inbox) \/ k = Len(inbox) + 1
      BY <2>3
    <3>2. \A k \in 1..Len(inbox) : inbox[k] = request
      BY <2>2
    <3> QED
      BY <2>3, <3>1, <3>2
  <2>7. Len(frame) \in Nat
    OBVIOUS
  <2>8. Len(frame') + Len(inbox') + coming'[request'] = ReplySize
    BY <1>15, <2>2, <2>3, <2>4, <2>7, ReadsGrow DEF Arrive
  <2> QED
    BY <1>15, <2>2, <2>5, <2>6, <2>8 DEF Arrive
<1>16. CASE Tick
  BY <1>16 DEF Tick, Attempt, Unchanged
<1>17. CASE Finished
  BY <1>17 DEF Finished, vars
<1>18. CASE UNCHANGED vars
  BY <1>18 DEF vars
<1> QED
  BY <1>1, <1>2, <1>3, <1>4, <1>5, <1>6, <1>7, <1>8, <1>9, <1>10, <1>11, <1>12, <1>13, <1>14, <1>15, <1>16, <1>17, <1>18 DEF Next
-----------------------------------------------------------------------------
LEMMA InitIInv == Init => IInv
<1> SUFFICES ASSUME Init PROVE IInv
  OBVIOUS
<1> USE Bounds, EmptySeq DEF Init
<1>1. TypeOK
  <2>1. asked \in [Requests -> Unit]
    OBVIOUS
  <2>2. 1 \in 1..Len(ReadUpTo)
    BY ReadsGrow
  <2> QED
    <3>1. coming \in [Requests -> Nat] /\ limit \in Int /\ request \in 0..MaxRequests
      BY DEF NoReplies, NoLimit
    <3>2. sent \in 0..RequestSize /\ frame \in Seq(Requests) /\ inbox \in Seq(Requests)
      OBVIOUS
    <3>3. /\ kind \in {"tcp", "serial"} /\ pc = "idle" /\ left = 0 /\ opened \in BOOLEAN
          /\ address = 1 /\ part = 1 /\ accepted = 0
      OBVIOUS
    <3> HIDE DEF Init
    <3> QED
      BY <2>1, <2>2, <3>1, <3>2, <3>3 DEF TypeOK
<1>2. InOrder /\ Accepted /\ Bounded
  BY DEF InOrder, Accepted, Bounded, Opening, Sending, Receiving
<1>3. Drained
  BY DEF Drained, Receiving
<1> QED
  BY <1>1, <1>2, <1>3 DEF IInv

LEMMA NextIInv == IInv /\ [Next]_vars => IInv'
  BY TypeOKStep, InOrderStep, DrainedStep, AcceptedStep, BoundedStep DEF IInv

LEMMA SpecIInv == Spec => []IInv
  BY InitIInv, NextIInv, PTL DEF Spec
-----------------------------------------------------------------------------
(* The theorems.                                                            *)

\* ModbusClient and ModbusRtuBus close the connection after every failure, and what they
\* accept is a whole reply.  So a TCP connection that is used again has nothing of an earlier
\* request in it, for every size of a reply and every way in which it is cut into pieces.  On
\* a serial line the theorem says less: the reply that is accepted came from the unit that
\* was asked, but it may be the late one to an earlier request to the same unit.
THEOREM RepliesAreOfTheUnitAsked == Spec => []RepliesBelong
<1>1. IInv => RepliesBelong
  <2> SUFFICES ASSUME IInv PROVE RepliesBelong
    OBVIOUS
  <2> USE DEF IInv, TypeOK, InOrder, Drained, Opening, Sending, Receiving
  <2>1. ASSUME kind = "tcp", pc \notin {"idle", "connect", "select"}
        PROVE  /\ \A k \in DOMAIN inbox : inbox[k] = request
               /\ \A r \in Requests : coming[r] > 0 => r = request
    <3>1. CASE pc \in Receiving
      BY <2>1, <3>1
    <3>2. CASE pc \notin Receiving
      <4>1. inbox = <<>> /\ coming = NoReplies
        BY <2>1, <3>2
      <4> QED
        BY <4>1 DEF NoReplies
    <3> QED
      BY <3>1, <3>2
  <2> QED
    BY <2>1 DEF RepliesBelong, Accepted
<1> QED
  BY <1>1, SpecIInv, PTL

\* A send or a receive that is still in the kernel after its deadline is on a socket, in a
\* wait without a timeout, begun when less than a millisecond was left (tcp_socket.cpp:274);
\* a serial port's calls always end in time.
THEOREM OverdueOnlyWithoutTimeout ==
  Spec => [](pc \in {"sending", "receiving"} /\ left < 0 => kind = "tcp" /\ limit = NoLimit)
<1>1. IInv => (pc \in {"sending", "receiving"} /\ left < 0 => kind = "tcp" /\ limit = NoLimit)
  BY DEF IInv, TypeOK, Bounded
<1> QED
  BY <1>1, SpecIInv, PTL
=============================================================================
