--------------------------- MODULE ModbusIoProofs ---------------------------
(***************************************************************************)
(* What the Modbus drivers of ModbusIo.tla guarantee for every number of   *)
(* buses, devices, batches and points, late replies on serial lines         *)
(* included: input tags follow their registers,                             *)
(* write requests never mix two images of the program, a connection that   *)
(* is reported as healthy is open, and no poller ends the process unless    *)
(* the program declares a part of a batch of registers.                     *)
(***************************************************************************)
EXTENDS ModbusIo, SequenceTheorems, WellFoundedInduction, TLAPS

-----------------------------------------------------------------------------
(* The inductive invariants.                                                *)

Own(u) == {b \in Batch : BusOf[DeviceOf[b]] = u}

\* A poller is busy with batches of its own bus, and writes the write batches.
PollerOk ==
  \A u \in Bus :
    /\ todo[u] \in SUBSET Own(u)
    /\ pc[u] \notin {"off", "idle"} => todo[u] # {}
    /\ pc[u] = "flight" => Job(u) \in Writes

\* A device owes replies to its own batches only, and on a serial line only.
OwedOk ==
  \A d \in Device : \A i \in 1..Len(owed[d]) :
    BusOf[d] \in Serial /\ DeviceOf[owed[d][i].from] = d

\* The reply that a poller has received, in part at least, but not yet stored.
Received(u, p) ==
  /\ pc[u] = "store" \/ (pc[u] \in {"record", "held"} /\ result[u] = "ok")
  /\ Job(u) \notin Writes
  /\ p \in Points(Job(u))

\* A reply that comes late has a value for point p.
Replied(d, i, p) == owed[d][i].ok /\ p \in Points(owed[d][i].from)

\* From the register to the tag an input only gets older.
Fresh ==
  \A p \in LoneInput :
    /\ tag[p] <= cached[p]
    /\ cached[p] <= reg[p]
    /\ \A u \in Bus : Received(u, p) => cached[p] <= data[u][p] /\ data[u][p] <= reg[p]

\* Late replies are newer than what was received before them, and in their order.
Ordered ==
  \A p \in LoneInput : \A d \in Device : \A i \in 1..Len(owed[d]) :
    Replied(d, i, p) =>
      /\ cached[p] <= owed[d][i].values[p]
      /\ owed[d][i].values[p] <= reg[p]
      /\ \A u \in Bus : Received(u, p) => data[u][p] <= owed[d][i].values[p]
      /\ \A j \in 1..Len(owed[d]) :
           i <= j /\ Replied(d, j, p) => owed[d][i].values[p] <= owed[d][j].values[p]

\* The inputs of a batch move together: in the registers, in a reply that is
\* late or not yet stored, in the cache and, where they are declared, in the tags.
Even ==
  \A p, q \in Input : BatchOf[p] = BatchOf[q] =>
    /\ reg[p] = reg[q] /\ cached[p] = cached[q] /\ (valid[p] <=> valid[q])
    /\ p \in Declared /\ q \in Declared => tag[p] = tag[q]
    /\ \A u \in Bus : Received(u, p) => data[u][p] = data[u][q]
    /\ \A d \in Device : \A i \in 1..Len(owed[d]) :
         Replied(d, i, p) => owed[d][i].values[p] = owed[d][i].values[q]

\* A row of values, restricted to the declared points of P, is one image.
Whole(f, P) ==
  \E image \in Images \cup {Zero} : \A p \in P \cap Declared : f[p] = image[p]

Outputs(d) == DevicePoints(d) \cap Output

\* What the cache wants to have written.
Desired == [p \in Point |-> IF valid[p] THEN cached[p] ELSE 0]

\* Tags, caches, requests, delayed requests and registers each hold one image.
TagWhole == scanPc = "outputs" => Whole(tag, Output)
CacheWhole == \A d \in Device : Whole(Desired, Outputs(d))
DataWhole == \A u \in Bus : pc[u] = "flight" => Whole(data[u], Points(Job(u)))
LateWhole == \A b \in pending : Whole(late[b], Points(b))
RegWhole == \A b \in Writes : Whole(reg, Points(b))
Untorn == TagWhole /\ CacheWhole /\ DataWhole /\ LateWhole /\ RegWhole

\* The connection is up to date while an outcome waits to be recorded.
LinkOk == \A u \in Bus : pc[u] = "record" => (link[u] <=> result[u] # "lost")

-----------------------------------------------------------------------------
(* Configuration.                                                           *)

LEMMA LeastIn ==
  ASSUME NEW S \in SUBSET Nat, S # {}
  PROVE  Least(S) \in S
<1> DEFINE R == {ss \in Nat \X Nat : ss[1] < ss[2]}
<1>1. \E n \in S : \A m \in S : <<m, n>> \notin R
  <2>1. IsWellFoundedOn(R, Nat)
    BY NatLessThanWellFounded, Zenon DEF OpToRel
  <2> HIDE DEF R
  <2> QED  BY <2>1, WFMin
<1>2. \E n \in S : \A m \in S : n <= m
  <2>1. PICK n \in S : \A m \in S : <<m, n>> \notin R
    BY <1>1
  <2>2. ASSUME NEW m \in S, ~(n <= m)  PROVE FALSE
    <3>1. m \in Nat /\ n \in Nat /\ m < n
      BY <2>2
    <3>2. <<m, n>> \in R
      BY <3>1
    <3> QED  BY <2>1, <3>2
  <2> QED  BY <2>2
<1> QED  BY <1>2 DEF Least

LEMMA JobOwn ==
  ASSUME TypeOK, PollerOk, ConfigAssumption, NEW u \in Bus, pc[u] \notin {"off", "idle"}
  PROVE  /\ Job(u) \in todo[u] /\ Job(u) \in Batch
         /\ DeviceOf[Job(u)] \in Device /\ BusOf[DeviceOf[Job(u)]] = u
<1>1. todo[u] # {} /\ todo[u] \in SUBSET Own(u)
  BY DEF PollerOk
<1>2. todo[u] \in SUBSET Nat
  BY <1>1 DEF Own, ConfigAssumption
<1>3. Job(u) \in todo[u]
  BY <1>1, <1>2, LeastIn DEF Job
<1> QED  BY <1>1, <1>3 DEF Own, ConfigAssumption

LEMMA BatchPoints ==
  ASSUME ConfigAssumption, NEW b \in Batch
  PROVE  /\ Points(b) \subseteq DevicePoints(DeviceOf[b])
         /\ b \in Writes => Points(b) \subseteq Output /\ Points(b) \cap Input = {}
         /\ b \notin Writes => Points(b) \subseteq Input /\ Points(b) \cap Output = {}
  BY DEF ConfigAssumption, Points, DevicePoints, Input, Output

LEMMA LoneIn == LoneInput \subseteq Input /\ Input \subseteq Point
  BY DEF LoneInput, Input

-----------------------------------------------------------------------------
(* What an exchange does.                                                   *)

\* What is left of the queues when the head of one at most was taken.
Shifted(before, d, s) ==
  \A i \in 1..Len(before[d]) : i + s \in 1..Len(owed[d]) /\ before[d][i] = owed[d][i + s]

\* The late reply i of device d was in its queue before the step, s places further back.
Kept(d, s, i) == i + s \in 1..Len(owed[d]) /\ owed'[d][i] = owed[d][i + s]

\* It is an answer to one of the batches B that this step added.
Added(B, d, s, i) ==
  /\ i + s = Len(owed[d]) + 1
  /\ BusOf[d] \in Serial
  /\ \E b \in B : d = DeviceOf[b] /\ owed'[d][i] \in {Answer(b, TRUE), Answer(b, FALSE)}

Moved(B, d, s) == \A i \in 1..Len(owed'[d]) : Kept(d, s, i) \/ Added(B, d, s, i)
Moves(B) == \A d \in Device : \E s \in {0, 1} : Moved(B, d, s)

LEMMA AnswerType ==
  ASSUME TypeOK, NEW b \in Batch
  PROVE  /\ Answer(b, TRUE) \in Reply /\ Answer(b, FALSE) \in Reply
         /\ Contents(b) \in [Point -> Nat]
         /\ Answer(b, TRUE).from = b /\ Answer(b, FALSE).from = b
         /\ Answer(b, TRUE).ok /\ ~Answer(b, FALSE).ok
         /\ Answer(b, TRUE).values = Contents(b)
<1>1. Contents(b) \in [Point -> Nat] /\ Zero \in [Point -> Nat]
  BY DEF TypeOK, Contents, Zero
<1> QED  BY <1>1 DEF Answer, Reply

LEMMA OwingType ==
  ASSUME TypeOK, ConfigAssumption, NEW b \in Batch, NEW answer \in Reply,
         NEW before \in [Device -> Seq(Reply)], owed' \in Owing(b, answer, before)
  PROVE  owed' \in [Device -> Seq(Reply)]
<1>1. DeviceOf[b] \in Device
  BY DEF ConfigAssumption
<1>2. Append(before[DeviceOf[b]], answer) \in Seq(Reply)
  BY <1>1, AppendProperties
<1> QED  BY <1>1, <1>2 DEF Owing

LEMMA OwingMoves ==
  ASSUME TypeOK, ConfigAssumption, NEW b \in Batch, NEW answer \in Reply,
         answer \in {Answer(b, TRUE), Answer(b, FALSE)},
         NEW before \in [Device -> Seq(Reply)], owed' \in Owing(b, answer, before)
  PROVE  \A d \in Device : \A s \in {0, 1} :
           Shifted(before, d, s) /\ Len(before[d]) + s = Len(owed[d]) => Moved({b}, d, s)
<1> SUFFICES ASSUME NEW d \in Device, NEW s \in {0, 1}, Shifted(before, d, s),
                    Len(before[d]) + s = Len(owed[d])
             PROVE  Moved({b}, d, s)
  OBVIOUS
<1> DEFINE e == DeviceOf[b]
<1>0. e \in Device
  BY DEF ConfigAssumption
<1>1. CASE owed' = before
  BY <1>1 DEF Shifted, Moved, Kept
<1>2. CASE BusOf[e] \in Serial /\ owed' = [before EXCEPT ![e] = Append(@, answer)]
  <2>1. CASE d # e
    <3>1. owed'[d] = before[d]
      BY <1>2, <2>1
    <3> QED  BY <3>1 DEF Shifted, Moved, Kept
  <2>2. CASE d = e
    <3>0. before[d] \in Seq(Reply)
      OBVIOUS
    <3>1. owed'[d] = Append(before[d], answer)
      BY <1>0, <1>2, <2>2
    <3>2. /\ Len(owed'[d]) = Len(before[d]) + 1 /\ owed'[d][Len(before[d]) + 1] = answer
          /\ \A i \in 1..Len(before[d]) : owed'[d][i] = before[d][i]
          /\ Len(before[d]) \in Nat
      BY <3>0, <3>1, AppendProperties, LenProperties
    <3>3. ASSUME NEW i \in 1..Len(owed'[d])  PROVE Kept(d, s, i) \/ Added({b}, d, s, i)
      <4>1. CASE i \in 1..Len(before[d])
        BY <3>2, <4>1 DEF Shifted, Kept
      <4>2. CASE i = Len(before[d]) + 1
        <5>1. owed'[d][i] = answer /\ i + s = Len(owed[d]) + 1
          BY <3>2, <4>2
        <5> QED  BY <1>2, <2>2, <5>1 DEF Added
      <4> QED  BY <3>2, <4>1, <4>2
    <3> QED  BY <3>3 DEF Moved
  <2> QED  BY <2>1, <2>2
<1> QED  BY <1>1, <1>2 DEF Owing

\* A request whose answer is not heard.
LEMMA UnheardIs ==
  ASSUME TypeOK, ConfigAssumption, NEW b \in Batch, NEW values \in [Point -> Nat],
         NEW before \in [Device -> Seq(Reply)], Unheard(b, values, before)
  PROVE  /\ reg' \in {reg, Executed(b, values)}
         /\ \/ UNCHANGED <<pending, late>>
            \/ b \in Writes /\ pending' = pending \cup {b} /\ late' = [late EXCEPT ![b] = values]
         /\ \E answer \in {Answer(b, TRUE), Answer(b, FALSE)} : owed' \in Owing(b, answer, before)
<1>1. \A answer : before \in Owing(b, answer, before)
  BY DEF Owing
<1>2. reg' \in {reg, Executed(b, values)}
  BY DEF Unheard
<1>3. \/ UNCHANGED <<pending, late>>
      \/ b \in Writes /\ pending' = pending \cup {b} /\ late' = [late EXCEPT ![b] = values]
  BY DEF Unheard
<1>4. \E answer \in {Answer(b, TRUE), Answer(b, FALSE)} : owed' \in Owing(b, answer, before)
  BY <1>1 DEF Unheard
<1> QED  BY <1>2, <1>3, <1>4

\* Its answer may be added to what was left of the queues.
LEMMA UnheardMoves ==
  ASSUME TypeOK, ConfigAssumption, NEW b \in Batch, NEW values \in [Point -> Nat],
         NEW before \in [Device -> Seq(Reply)], Unheard(b, values, before)
  PROVE  /\ owed' \in [Device -> Seq(Reply)]
         /\ \A d \in Device : \A s \in {0, 1} :
              Shifted(before, d, s) /\ Len(before[d]) + s = Len(owed[d]) => Moved({b}, d, s)
<1>1. \E answer \in {Answer(b, TRUE), Answer(b, FALSE)} : owed' \in Owing(b, answer, before)
  BY UnheardIs, Zenon
<1>2. PICK answer \in {Answer(b, TRUE), Answer(b, FALSE)} : owed' \in Owing(b, answer, before)
  BY <1>1
<1>3. answer \in Reply
  BY AnswerType
<1>4. owed' \in [Device -> Seq(Reply)]
  BY <1>2, <1>3, OwingType
<1>5. \A d \in Device : \A s \in {0, 1} :
        Shifted(before, d, s) /\ Len(before[d]) + s = Len(owed[d]) => Moved({b}, d, s)
  BY <1>2, <1>3, OwingMoves
<1> QED  BY <1>4, <1>5

\* The head of a queue taken.
LEMMA TailShifts ==
  ASSUME TypeOK, NEW e \in Device, owed[e] # <<>>,
         NEW before, before = [owed EXCEPT ![e] = Tail(@)]
  PROVE  /\ before \in [Device -> Seq(Reply)]
         /\ 1 \in 1..Len(owed[e]) /\ Head(owed[e]) = owed[e][1] /\ owed[e][1] \in Reply
         /\ Shifted(before, e, 1) /\ Len(before[e]) + 1 = Len(owed[e])
         /\ \A d \in Device \ {e} :
              Shifted(before, d, 0) /\ Len(before[d]) + 0 = Len(owed[d])
<1>1. owed \in [Device -> Seq(Reply)] /\ \A d \in Device : owed[d] \in Seq(Reply)
  BY DEF TypeOK
<1>2. /\ Tail(owed[e]) \in Seq(Reply) /\ Len(Tail(owed[e])) = Len(owed[e]) - 1
      /\ \A i \in 1..Len(Tail(owed[e])) : Tail(owed[e])[i] = owed[e][i + 1]
      /\ Head(owed[e]) = owed[e][1]
      /\ Len(owed[e]) \in Nat \ {0}
  BY <1>1, HeadTailProperties, EmptySeq, LenProperties
<1>3. before \in [Device -> Seq(Reply)] /\ before[e] = Tail(owed[e])
  BY <1>1, <1>2
<1>4. 1 \in 1..Len(owed[e]) /\ owed[e][1] \in Reply
  <2>1. 1 \in 1..Len(owed[e])
    BY <1>2
  <2> QED  BY <1>1, <2>1, ElementOfSeq
<1>5. Len(before[e]) + 1 = Len(owed[e])
  BY <1>2, <1>3
<1>6. ASSUME NEW i \in 1..Len(before[e])
      PROVE  i + 1 \in 1..Len(owed[e]) /\ before[e][i] = owed[e][i + 1]
  BY <1>2, <1>3, <1>5
<1>7. Shifted(before, e, 1)
  BY <1>6 DEF Shifted
<1>8. ASSUME NEW d \in Device \ {e}
      PROVE  Shifted(before, d, 0) /\ Len(before[d]) + 0 = Len(owed[d])
  <2>1. before[d] = owed[d] /\ Len(owed[d]) \in Nat
    BY <1>1, LenProperties
  <2>2. ASSUME NEW i \in 1..Len(before[d])
        PROVE  i + 0 \in 1..Len(owed[d]) /\ before[d][i] = owed[d][i + 0]
    <3>1. i + 0 = i
      BY <2>1
    <3> QED  BY <2>1, <3>1
  <2>3. Len(before[d]) + 0 = Len(owed[d])
    BY <2>1
  <2> QED  BY <2>2, <2>3 DEF Shifted
<1> QED  BY <1>2, <1>3, <1>4, <1>5, <1>7, <1>8

LEMMA NothingShifts ==
  ASSUME TypeOK, NEW d \in Device
  PROVE  Shifted(owed, d, 0) /\ Len(owed[d]) + 0 = Len(owed[d])
<1>1. Len(owed[d]) \in Nat
  BY LenProperties DEF TypeOK
<1> QED  BY <1>1 DEF Shifted

LEMMA NothingMoves ==
  ASSUME TypeOK, UNCHANGED owed, NEW B
  PROVE  Moves(B)
<1>1. ASSUME NEW d \in Device  PROVE Moved(B, d, 0)
  BY NothingShifts DEF Shifted, Moved, Kept
<1> QED  BY <1>1 DEF Moves

LEMMA MovesMore ==
  ASSUME NEW B, NEW C, B \subseteq C, Moves(B)
  PROVE  Moves(C)
<1> SUFFICES ASSUME NEW d \in Device  PROVE \E s \in {0, 1} : Moved(C, d, s)
  BY DEF Moves
<1>1. PICK s \in {0, 1} : Moved(B, d, s)
  BY DEF Moves
<1>2. ASSUME NEW i, Added(B, d, s, i)  PROVE Added(C, d, s, i)
  BY <1>2 DEF Added
<1>3. Moved(C, d, s)
  <2>1. ASSUME NEW i \in 1..Len(owed'[d])  PROVE Kept(d, s, i) \/ Added(C, d, s, i)
    <3>1. Kept(d, s, i) \/ Added(B, d, s, i)
      BY <1>1 DEF Moved
    <3> QED  BY <1>2, <3>1
  <2> QED  BY <2>1 DEF Moved
<1> QED  BY <1>3

LEMMA LateMoves ==
  ASSUME TypeOK, ConfigAssumption, NEW b \in Writes, LateArrival(b)
  PROVE  owed' \in [Device -> Seq(Reply)] /\ Moves({b})
<1>1. b \in Batch
  BY DEF ConfigAssumption
<1>2. PICK answer \in {Answer(b, TRUE)} : owed' \in Owing(b, answer, owed)
  BY DEF LateArrival
<1>3. answer \in Reply /\ owed \in [Device -> Seq(Reply)]
  BY <1>1, <1>2, AnswerType DEF TypeOK
<1>4. PICK before \in [Device -> Seq(Reply)] : before = owed
  BY <1>3
<1>5. owed' \in Owing(b, answer, before)
  BY <1>2, <1>4
<1>6. owed' \in [Device -> Seq(Reply)]
  BY <1>1, <1>3, <1>4, <1>5, OwingType
<1>7. \A d \in Device : \A s \in {0, 1} :
        Shifted(before, d, s) /\ Len(before[d]) + s = Len(owed[d]) => Moved({b}, d, s)
  BY <1>1, <1>2, <1>3, <1>4, <1>5, OwingMoves
<1>8. \A d \in Device : Moved({b}, d, 0)
  BY <1>4, <1>7, NothingShifts
<1> QED  BY <1>6, <1>8 DEF Moves

LEMMA DiscardedMoves ==
  ASSUME TypeOK, NEW e \in Device, Discarded(e)
  PROVE  owed' \in [Device -> Seq(Reply)] /\ Moves({})
<1>1. /\ owed' \in [Device -> Seq(Reply)]
      /\ Shifted(owed', e, 1) /\ \A d \in Device \ {e} : Shifted(owed', d, 0)
  BY TailShifts DEF Discarded
<1>2. Moved({}, e, 1) /\ \A d \in Device \ {e} : Moved({}, d, 0)
  BY <1>1 DEF Shifted, Moved, Kept
<1> QED  BY <1>1, <1>2 DEF Moves

LEMMA TakenType ==
  ASSUME NEW b \in Batch, NEW r \in Reply, NEW values \in Taken(b, r)
  PROVE  values \in [Point -> Nat]
<1>1. r.values \in [Point -> Nat]
  BY DEF Reply
<1>2. CASE r.from = b
  BY <1>1, <1>2 DEF Taken
<1>3. CASE r.from # b
  <2>1. PICK f \in [Points(b) -> Points(r.from)] :
          values = [p \in Point |-> IF p \in Points(b) THEN r.values[f[p]] ELSE 0]
    BY <1>3 DEF Taken
  <2>2. \A p \in Points(b) : f[p] \in Point
    BY DEF Points
  <2> QED  BY <1>1, <2>1, <2>2
<1> QED  BY <1>2, <1>3

\* An earlier reply of a device on the serial line came instead of the answer.
LEMMA OvertakenIs ==
  ASSUME TypeOK, ConfigAssumption, NEW u \in Bus, NEW b \in Batch, NEW e \in Device,
         BusOf[e] = u, owed[e] # <<>>,
         Unheard(b, data[u], [owed EXCEPT ![e] = Tail(@)])
  PROVE  /\ reg' \in {reg, Executed(b, data[u])}
         /\ \/ UNCHANGED <<pending, late>>
            \/ b \in Writes /\ pending' = pending \cup {b} /\ late' = [late EXCEPT ![b] = data[u]]
         /\ owed' \in [Device -> Seq(Reply)] /\ Moves({b}) /\ Moved({b}, e, 1)
         /\ 1 \in 1..Len(owed[e]) /\ Head(owed[e]) = owed[e][1] /\ owed[e][1] \in Reply
<1>1. PICK before : before = [owed EXCEPT ![e] = Tail(@)]
  OBVIOUS
<1>2. /\ before \in [Device -> Seq(Reply)]
      /\ 1 \in 1..Len(owed[e]) /\ Head(owed[e]) = owed[e][1] /\ owed[e][1] \in Reply
      /\ Shifted(before, e, 1) /\ Len(before[e]) + 1 = Len(owed[e])
      /\ \A d \in Device \ {e} :
           Shifted(before, d, 0) /\ Len(before[d]) + 0 = Len(owed[d])
  BY <1>1, TailShifts
<1>3. Unheard(b, data[u], before) /\ data[u] \in [Point -> Nat]
  BY <1>1 DEF TypeOK
<1>4. /\ owed' \in [Device -> Seq(Reply)]
      /\ \A d \in Device : \A s \in {0, 1} :
           Shifted(before, d, s) /\ Len(before[d]) + s = Len(owed[d]) => Moved({b}, d, s)
  BY <1>2, <1>3, UnheardMoves, ZenonT(40)
<1>5. Moved({b}, e, 1) /\ \A d \in Device \ {e} : Moved({b}, d, 0)
  BY <1>2, <1>4
<1>6. Moves({b})
  BY <1>5 DEF Moves
<1> QED  BY <1>2, <1>3, <1>4, <1>5, <1>6, UnheardIs

\* An exchange has an outcome; it may have its registers written, at once or later, and its
\* answer, or that of an earlier exchange, may still be under way.
LEMMA ExchangeIs ==
  ASSUME TypeOK, ConfigAssumption, NEW u \in Bus, NEW b \in Batch, Exchange(u, b)
  PROVE  /\ \E o \in {"ok", "exception", "lost"} : Outcome(u, o)
         /\ reg' \in {reg, Executed(b, data[u])}
         /\ \/ UNCHANGED <<pending, late>>
            \/ b \in Writes /\ pending' = pending \cup {b} /\ late' = [late EXCEPT ![b] = data[u]]
         /\ owed' \in [Device -> Seq(Reply)] /\ Moves({b})
         /\ \E values \in [Point -> Nat] :
              data' = [data EXCEPT ![u] = values] /\ (b \in Writes => values = data[u])
<1>0. data[u] \in [Point -> Nat] /\ data = [data EXCEPT ![u] = data[u]]
      /\ owed \in [Device -> Seq(Reply)] /\ DeviceOf[b] \in Device
  BY DEF TypeOK, ConfigAssumption
<1>1. CASE Answered(u, b)
  <2>1. UNCHANGED <<pending, late, owed>> /\ \E o \in {"ok", "exception", "lost"} : Outcome(u, o)
    BY <1>1 DEF Answered
  <2>2. reg' \in {reg, Executed(b, data[u])}
    BY <1>1 DEF Answered
  <2>3. Contents(b) \in [Point -> Nat]
    BY AnswerType
  <2>4. \E values \in [Point -> Nat] :
          data' = [data EXCEPT ![u] = values] /\ (b \in Writes => values = data[u])
    <3>1. data' = data \/ (b \notin Writes /\ data' = [data EXCEPT ![u] = Contents(b)])
      BY <1>1 DEF Answered
    <3> QED  BY <1>0, <2>3, <3>1
  <2> QED  BY <1>0, <2>1, <2>2, <2>4, NothingMoves
<1>2. CASE TimedOut(u, b)
  <2>1. Outcome(u, "lost") /\ UNCHANGED data /\ Unheard(b, data[u], owed)
    BY <1>2 DEF TimedOut
  <2>2. /\ owed' \in [Device -> Seq(Reply)]
        /\ \A d \in Device : \A s \in {0, 1} :
             Shifted(owed, d, s) /\ Len(owed[d]) + s = Len(owed[d]) => Moved({b}, d, s)
    <3>1. PICK before \in [Device -> Seq(Reply)] : before = owed
      BY <1>0
    <3>2. Unheard(b, data[u], before) /\ data[u] \in [Point -> Nat]
      BY <1>0, <2>1, <3>1
    <3>3. /\ owed' \in [Device -> Seq(Reply)]
          /\ \A d \in Device : \A s \in {0, 1} :
               Shifted(before, d, s) /\ Len(before[d]) + s = Len(owed[d]) => Moved({b}, d, s)
      BY <3>1, <3>2, UnheardMoves, ZenonT(40)
    <3> QED  BY <3>1, <3>3
  <2>3. \A d \in Device : Moved({b}, d, 0)
    BY <2>2, NothingShifts
  <2>4. Moves({b})
    BY <2>3 DEF Moves
  <2> QED  BY <1>0, <2>1, <2>2, <2>4, UnheardIs
<1>3. CASE Overtaken(u, b)
  <2>1. PICK e \in Device :
          /\ BusOf[e] = u /\ owed[e] # <<>>
          /\ IF Takes(b, Head(owed[e]))
             THEN /\ Outcome(u, IF Head(owed[e]).ok THEN "ok" ELSE "exception")
                  /\ IF Head(owed[e]).ok /\ b \notin Writes
                     THEN \E values \in Taken(b, Head(owed[e])) :
                            data' = [data EXCEPT ![u] = values]
                     ELSE UNCHANGED data
             ELSE Outcome(u, "lost") /\ UNCHANGED data
          /\ Unheard(b, data[u], [owed EXCEPT ![e] = Tail(@)])
    BY <1>3 DEF Overtaken
  <2>2. \E o \in {"ok", "exception", "lost"} : Outcome(u, o)
    BY <2>1
  <2>3. Head(owed[e]) = owed[e][1] /\ owed[e][1] \in Reply
    BY <2>1, OvertakenIs
  <2>4. \E values \in [Point -> Nat] :
          data' = [data EXCEPT ![u] = values] /\ (b \in Writes => values = data[u])
    <3>1. data' = data \/ (b \notin Writes /\ \E values \in Taken(b, Head(owed[e])) :
                                                data' = [data EXCEPT ![u] = values])
      BY <2>1
    <3> QED  BY <1>0, <2>3, <3>1, TakenType
  <2> QED  BY <2>1, <2>2, <2>4, OvertakenIs
<1> QED  BY <1>1, <1>2, <1>3 DEF Exchange

\* What a read that succeeded has received: the registers as they are, and then nothing was
\* owed, or the first late reply of its device, taken for its own.
LEMMA ReadReply ==
  ASSUME TypeOK, OwedOk, ConfigAssumption, NEW u \in Bus, NEW b \in Batch, b \notin Writes,
         Exchange(u, b), result'[u] = "ok", BusOf[DeviceOf[b]] = u
  PROVE  \/ /\ Len(owed[DeviceOf[b]]) = 0 /\ UNCHANGED owed
            /\ data'[u] = Contents(b)
         \/ LET e == DeviceOf[b] IN
            /\ 1 \in 1..Len(owed[e]) /\ BusOf[e] \in Serial
            /\ owed[e][1] \in Reply /\ owed[e][1].ok /\ Takes(b, owed[e][1])
            /\ data'[u] \in Taken(b, owed[e][1])
            /\ Moved({b}, e, 1)
<1>0. \A o : Outcome(u, o) => o = "ok"
  BY DEF Outcome, TypeOK
<1>1. CASE Answered(u, b)
  BY <1>0, <1>1 DEF Answered, TypeOK
<1>2. CASE TimedOut(u, b)
  BY <1>0, <1>2 DEF TimedOut
<1>3. CASE Overtaken(u, b)
  <2>1. PICK e \in Device :
          /\ BusOf[e] = u /\ owed[e] # <<>>
          /\ IF Takes(b, Head(owed[e]))
             THEN /\ Outcome(u, IF Head(owed[e]).ok THEN "ok" ELSE "exception")
                  /\ IF Head(owed[e]).ok /\ b \notin Writes
                     THEN \E values \in Taken(b, Head(owed[e])) :
                            data' = [data EXCEPT ![u] = values]
                     ELSE UNCHANGED data
             ELSE Outcome(u, "lost") /\ UNCHANGED data
          /\ Unheard(b, data[u], [owed EXCEPT ![e] = Tail(@)])
    BY <1>3 DEF Overtaken
  <2>2. /\ 1 \in 1..Len(owed[e]) /\ Head(owed[e]) = owed[e][1] /\ owed[e][1] \in Reply
        /\ Moved({b}, e, 1)
    BY <2>1, OvertakenIs
  <2>3. Takes(b, owed[e][1]) /\ owed[e][1].ok
    BY <1>0, <2>1, <2>2
  <2>4. data'[u] \in Taken(b, owed[e][1])
    BY <2>1, <2>2, <2>3 DEF TypeOK
  <2>5. e = DeviceOf[b] /\ BusOf[e] \in Serial
    BY <2>2, <2>3 DEF OwedOk, Takes
  <2> QED  BY <2>2, <2>3, <2>4, <2>5
<1> QED  BY <1>1, <1>2, <1>3 DEF Exchange

-----------------------------------------------------------------------------
(* Type correctness, and the order of the pollers' work.                    *)

Places == {"off", "idle", "job", "flight", "record", "store", "held", "terminate"}

LEMMA TypeInit == Init /\ ConfigAssumption /\ EnvironmentAssumption => TypeOK /\ PollerOk /\ OwedOk
<1> SUFFICES ASSUME Init, ConfigAssumption, EnvironmentAssumption
             PROVE  TypeOK /\ PollerOk /\ OwedOk
  OBVIOUS
<1>1. owed \in [Device -> Seq(Reply)] /\ \A d \in Device : Len(owed[d]) = 0
  BY EmptySeq DEF Init
<1>2. OwedOk
  BY <1>1 DEF OwedOk
<1> QED  BY <1>1, <1>2 DEF Init, TypeOK, PollerOk, Zero, ConfigAssumption

LEMMA AdvanceType ==
  ASSUME TypeOK, PollerOk, ConfigAssumption, NEW u \in Bus, pc[u] \notin {"off", "idle"},
         Advance(u)
  PROVE  /\ pc' \in [Bus -> Places]
         /\ todo' \in [Bus -> SUBSET Batch]
         /\ data' \in [Bus -> [Point -> Nat]]
         /\ result' \in [Bus -> {"ok", "exception", "lost"}]
         /\ PollerOk'
         /\ pc'[u] \in {"idle", "job"}
         /\ \A v \in Bus \ {u} :
              pc'[v] = pc[v] /\ todo'[v] = todo[v] /\ data'[v] = data[v] /\ result'[v] = result[v]
<1>1. Zero \in [Point -> Nat]
  BY DEF Zero
<1>2. Job(u) \in todo[u]
  BY JobOwn
<1>3. /\ pc' \in [Bus -> Places]
      /\ todo' \in [Bus -> SUBSET Batch]
      /\ data' \in [Bus -> [Point -> Nat]]
      /\ result' \in [Bus -> {"ok", "exception", "lost"}]
  BY <1>1 DEF TypeOK, Advance, Places
<1>4. /\ pc'[u] \in {"idle", "job"}
      /\ pc'[u] = "job" => todo'[u] # {}
      /\ todo'[u] \subseteq todo[u]
      /\ \A v \in Bus \ {u} :
           pc'[v] = pc[v] /\ todo'[v] = todo[v] /\ data'[v] = data[v] /\ result'[v] = result[v]
  BY DEF TypeOK, Advance
<1>5. PollerOk'
  BY <1>4 DEF PollerOk, Own, Job
<1> QED  BY <1>3, <1>4, <1>5

\* Replies are owed on serial lines only, by the device that was asked.
LEMMA OwedMoves ==
  ASSUME TypeOK, OwedOk, ConfigAssumption, NEW B \in SUBSET Batch, Moves(B)
  PROVE  OwedOk'
<1> SUFFICES ASSUME NEW d \in Device, NEW i \in 1..Len(owed'[d])
             PROVE  BusOf[d] \in Serial /\ DeviceOf[owed'[d][i].from] = d
  BY DEF OwedOk
<1>1. PICK s \in {0, 1} : Moved(B, d, s)
  BY DEF Moves
<1>2. CASE Kept(d, s, i)
  BY <1>2 DEF Kept, OwedOk
<1>3. CASE Added(B, d, s, i)
  <2>1. PICK b \in B : d = DeviceOf[b] /\ owed'[d][i] \in {Answer(b, TRUE), Answer(b, FALSE)}
    BY <1>3 DEF Added
  <2>2. owed'[d][i].from = b
    BY <2>1, AnswerType
  <2> QED  BY <1>3, <2>1, <2>2 DEF Added
<1> QED  BY <1>1, <1>2, <1>3 DEF Moved

LEMMA TypeExchange ==
  ASSUME TypeOK, PollerOk, OwedOk, ConfigAssumption, NEW u \in Bus, pc[u] \in {"job", "flight"},
         Exchange(u, Job(u))
  PROVE  TypeOK' /\ PollerOk' /\ OwedOk'
<1> DEFINE b == Job(u)
<1>0. b \in Batch /\ data[u] \in [Point -> Nat]
  BY JobOwn DEF TypeOK
<1> HIDE DEF b
<1>1. /\ \E o \in {"ok", "exception", "lost"} : Outcome(u, o)
      /\ reg' \in {reg, Executed(b, data[u])}
      /\ \/ UNCHANGED <<pending, late>>
         \/ b \in Writes /\ pending' = pending \cup {b} /\ late' = [late EXCEPT ![b] = data[u]]
      /\ owed' \in [Device -> Seq(Reply)] /\ Moves({b})
      /\ \E values \in [Point -> Nat] :
           data' = [data EXCEPT ![u] = values] /\ (b \in Writes => values = data[u])
  BY <1>0, ExchangeIs DEF b
<1>2. UNCHANGED <<tagVars, cacheVars, connected, todo, scanPc, scanned, stopping, device>>
  BY DEF Exchange
<1>3. Executed(b, data[u]) \in [Point -> Nat]
  BY <1>0 DEF TypeOK, Executed, Written
<1>4. /\ reg' \in [Point -> Nat]
      /\ pending' \in SUBSET Writes /\ late' \in [Batch -> [Point -> Nat]]
      /\ data' \in [Bus -> [Point -> Nat]]
  <2>1. reg' \in [Point -> Nat]
    BY <1>1, <1>3 DEF TypeOK
  <2>2. pending' \in SUBSET Writes /\ late' \in [Batch -> [Point -> Nat]]
    BY <1>0, <1>1 DEF TypeOK
  <2>3. data' \in [Bus -> [Point -> Nat]]
    BY <1>1 DEF TypeOK
  <2> QED  BY <2>1, <2>2, <2>3
<1>5. /\ pc' = [pc EXCEPT ![u] = "record"]
      /\ result' \in [Bus -> {"ok", "exception", "lost"}] /\ link' \in [Bus -> BOOLEAN]
  BY <1>1 DEF Outcome, TypeOK
<1>6. TypeOK'
  BY <1>1, <1>2, <1>4, <1>5 DEF TypeOK, tagVars, cacheVars
<1>7. PollerOk'
  BY <1>2, <1>5 DEF TypeOK, PollerOk, Own, Job
<1>8. {b} \in SUBSET Batch
  BY <1>0
<1> QED  BY <1>1, <1>6, <1>7, <1>8, OwedMoves

\* A poller that is held has executed the request, and may have part of the answer.
LEMMA TypeHeld ==
  ASSUME TypeOK, PollerOk, OwedOk, ConfigAssumption, NEW u \in Bus, Hold(u) \/ Resume(u)
  PROVE  TypeOK' /\ PollerOk' /\ OwedOk'
<1>0. UNCHANGED owed => OwedOk'
  BY DEF OwedOk
<1>1. CASE Hold(u)
  <2> DEFINE b == Job(u)
  <2>1. pc[u] \in {"job", "flight"} /\ pc' = [pc EXCEPT ![u] = "held"]
        /\ UNCHANGED <<tagVars, cacheVars, connected, todo, scanPc, scanned, stopping, device,
                       pending, late, owed>>
    BY <1>1 DEF Hold
  <2>2. b \in Batch /\ data[u] \in [Point -> Nat]
    BY <2>1, JobOwn DEF TypeOK
  <2>3. Executed(b, data[u]) \in [Point -> Nat] /\ Contents(b) \in [Point -> Nat]
    BY <2>2, AnswerType DEF TypeOK, Executed, Written
  <2>4. /\ link' = [link EXCEPT ![u] = TRUE]
        /\ result' \in {[result EXCEPT ![u] = "ok"], [result EXCEPT ![u] = "exception"]}
        /\ reg' \in {reg, Executed(b, data[u])}
        /\ data' \in {data, [data EXCEPT ![u] = Contents(b)]}
    BY <1>1 DEF Hold
  <2> HIDE DEF b
  <2>5. TypeOK'
    <3>1. reg' \in [Point -> Nat]
      BY <2>3, <2>4 DEF TypeOK
    <3>3. [data EXCEPT ![u] = Contents(b)] \in [Bus -> [Point -> Nat]]
          /\ data \in [Bus -> [Point -> Nat]]
      BY <2>3 DEF TypeOK
    <3>4. data' \in [Bus -> [Point -> Nat]]
      BY <2>4, <3>3
    <3>2. /\ link' \in [Bus -> BOOLEAN] /\ result' \in [Bus -> {"ok", "exception", "lost"}]
          /\ pc' \in [Bus -> Places]
      BY <2>1, <2>4 DEF TypeOK, Places
    <3> QED  BY <2>1, <3>1, <3>2, <3>4 DEF TypeOK, Places, tagVars, cacheVars
  <2>6. PollerOk'
    BY <2>1 DEF TypeOK, PollerOk, Own, Job
  <2> QED  BY <1>0, <2>1, <2>5, <2>6
<1>2. CASE Resume(u)
  <2>1. PICK o \in {"ok", "exception", "lost"} : Outcome(u, o)
    BY <1>2 DEF Resume, TypeOK
  <2>2. pc[u] = "held"
        /\ UNCHANGED <<tagVars, cacheVars, connected, todo, data, scanPc, scanned, stopping,
                       fieldVars>>
    BY <1>2 DEF Resume
  <2>3. TypeOK'
    BY <2>1, <2>2 DEF Outcome, TypeOK, tagVars, cacheVars, fieldVars
  <2>4. PollerOk'
    BY <2>1, <2>2 DEF Outcome, TypeOK, PollerOk, Own, Job
  <2> QED  BY <1>0, <2>2, <2>3, <2>4 DEF fieldVars
<1> QED  BY <1>1, <1>2

LEMMA TypePoller ==
  ASSUME TypeOK, PollerOk, OwedOk, ConfigAssumption, NEW u \in Bus, PollerStep(u)
  PROVE  TypeOK' /\ PollerOk' /\ OwedOk'
<1>0. ASSUME ~ReadExchange(u), ~WriteExchange(u)  PROVE OwedOk'
  <2>1. UNCHANGED owed
    BY <1>0 DEF PollerStep, PassBegin, PollerExit, Snapshot, Record, StoreRead, StoreWrite, fieldVars
  <2> QED  BY <2>1 DEF OwedOk
<1>1. ASSUME PassBegin(u)  PROVE TypeOK' /\ PollerOk'
  <2>1. TypeOK'
    BY <1>1 DEF PassBegin, TypeOK, tagVars, cacheVars, fieldVars
  <2>2. PollerOk'
    BY <1>1 DEF PassBegin, TypeOK, PollerOk, Own, Job
  <2> QED  BY <2>1, <2>2
<1>2. ASSUME PollerExit(u)  PROVE TypeOK' /\ PollerOk'
  BY <1>2 DEF PollerExit, TypeOK, PollerOk, Own, Job, tagVars, cacheVars, fieldVars
<1>3. CASE ReadExchange(u) \/ WriteExchange(u)
  BY <1>3, TypeExchange DEF ReadExchange, WriteExchange
<1>4. ASSUME Snapshot(u)  PROVE TypeOK' /\ PollerOk'
  <2>1. pc[u] = "job" /\ Job(u) \in Writes
    BY <1>4 DEF Snapshot
  <2>2. CASE ~NeedsWrite(Job(u))
    <3>1. Advance(u)
      BY <1>4, <2>2 DEF Snapshot
    <3> QED  BY <1>4, <2>1, <3>1, AdvanceType DEF Snapshot, TypeOK, Places, tagVars, cacheVars, fieldVars
  <2>3. CASE NeedsWrite(Job(u))
    <3>1. SnapshotOf(Job(u)) \in [Point -> Nat]
      BY DEF TypeOK, SnapshotOf
    <3>2. /\ pc' \in [Bus -> Places]
          /\ pc'[u] \in {"flight", "terminate"} /\ \A v \in Bus \ {u} : pc'[v] = pc[v]
          /\ todo' = todo /\ result' = result /\ data' \in [Bus -> [Point -> Nat]]
      <4>1. PICK where \in {"flight", "terminate"} : pc' = [pc EXCEPT ![u] = where]
        BY <1>4, <2>3, Zenon DEF Snapshot
      <4>2. data' = [data EXCEPT ![u] = SnapshotOf(Job(u))] /\ UNCHANGED <<todo, result>>
        BY <1>4, <2>3, Zenon DEF Snapshot
      <4> QED  BY <3>1, <4>1, <4>2 DEF TypeOK, Places
    <3>3. TypeOK'
      BY <1>4, <3>2 DEF Snapshot, TypeOK, Places, tagVars, cacheVars, fieldVars
    <3>4. PollerOk'
      <4> SUFFICES ASSUME NEW v \in Bus
                   PROVE  /\ todo'[v] \in SUBSET Own(v)
                          /\ pc'[v] \notin {"off", "idle"} => todo'[v] # {}
                          /\ pc'[v] = "flight" => Job(v)' \in Writes
        BY DEF PollerOk, Own
      <4>1. todo'[v] = todo[v] /\ Job(v)' = Job(v)
        BY <3>2 DEF Job
      <4>2. CASE v = u
        BY <2>1, <4>1, <4>2 DEF PollerOk
      <4>3. CASE v # u
        BY <3>2, <4>1, <4>3 DEF PollerOk
      <4> QED  BY <4>2, <4>3
    <3> QED  BY <3>3, <3>4
  <2> QED  BY <2>2, <2>3
<1>6. ASSUME Record(u)  PROVE TypeOK' /\ PollerOk'
  <2>1. pc[u] = "record"
    BY <1>6 DEF Record
  <2>2. connected' \in [Device -> BOOLEAN]
    BY <1>6 DEF Record, ConnectedAfter, TypeOK
  <2>3. CASE result[u] = "ok"
    <3>1. pc' = [pc EXCEPT ![u] = "store"] /\ UNCHANGED <<todo, data, result>>
      BY <1>6, <2>3 DEF Record
    <3> QED  BY <1>6, <2>1, <2>2, <3>1
             DEF Record, TypeOK, PollerOk, Own, Job, tagVars, cacheVars, fieldVars
  <2>4. CASE result[u] # "ok"
    <3>1. Advance(u)
      BY <1>6, <2>4 DEF Record
    <3> QED  BY <1>6, <2>1, <2>2, <3>1, AdvanceType DEF Record, TypeOK, Places, tagVars, cacheVars, fieldVars
  <2> QED  BY <2>3, <2>4
<1>7. ASSUME StoreRead(u)  PROVE TypeOK' /\ PollerOk'
  <2>1. pc[u] = "store" /\ Advance(u)
    BY <1>7 DEF StoreRead
  <2>2. cached' \in [Point -> Nat] /\ valid' \in [Point -> BOOLEAN]
    BY <1>7 DEF StoreRead, TypeOK
  <2> QED  BY <1>7, <2>1, <2>2, AdvanceType DEF StoreRead, TypeOK, Places, tagVars, fieldVars
<1>8. ASSUME StoreWrite(u)  PROVE TypeOK' /\ PollerOk'
  <2>1. pc[u] = "store" /\ Advance(u)
    BY <1>8 DEF StoreWrite
  <2>2. dirty' \in [Point -> BOOLEAN] /\ recent' \in [Point -> BOOLEAN]
    BY <1>8 DEF StoreWrite, TypeOK
  <2> QED  BY <1>8, <2>1, <2>2, AdvanceType DEF StoreWrite, TypeOK, Places, tagVars, fieldVars
<1> QED  BY <1>0, <1>1, <1>2, <1>3, <1>4, <1>6, <1>7, <1>8 DEF PollerStep

LEMMA MinimumOf ==
  ASSUME ConfigAssumption, NEW S \in SUBSET Bus, S # {}
  PROVE  Least(S) \in Bus
  BY LeastIn DEF ConfigAssumption

LEMMA NextDeviceIn ==
  ASSUME TypeOK, ConfigAssumption, scanned # Device
  PROVE  NextDevice \in Device \ scanned
<1>1. Device \ scanned # {} /\ Device \ scanned \in SUBSET Nat
  BY DEF TypeOK, ConfigAssumption
<1> QED  BY <1>1, LeastIn DEF NextDevice

\* The scan never leaves all devices done behind.
ScannedOk == scanned # Device

LEMMA TypeScan ==
  ASSUME TypeOK, ScannedOk, ConfigAssumption, EnvironmentAssumption, ScanStep
  PROVE  TypeOK' /\ ScannedOk'
<1> DEFINE d == NextDevice
<1>0. d \in Device \ scanned /\ Device # {}
  BY NextDeviceIn DEF ScannedOk, ConfigAssumption
<1> HIDE DEF d
<1>1. CASE ScanInputs
  BY <1>1 DEF ScanInputs, TypeOK, ScannedOk, cacheVars, pollVars, fieldVars
<1>2. CASE ScanHealth
  <2>1. DeviceDone(d, "inputs", "program")
    BY <1>2 DEF ScanHealth, d
  <2>2. scanned' \in SUBSET Device /\ scanned' # Device /\ scanPc' \in {"inputs", "program"}
    BY <1>0, <2>1 DEF DeviceDone, TypeOK
  <2>3. health' \in [Device -> BOOLEAN]
    BY <1>2 DEF ScanHealth, TypeOK
  <2> QED  BY <1>2, <2>2, <2>3 DEF ScanHealth, TypeOK, ScannedOk, cacheVars, pollVars, fieldVars
<1>3. CASE ScanProgram
  BY <1>3 DEF ScanProgram, TypeOK, ScannedOk, EnvironmentAssumption, cacheVars, pollVars, fieldVars
<1>4. CASE ScanOutputs
  <2>1. DeviceDone(d, "outputs", "inputs")
    BY <1>4 DEF ScanOutputs, d
  <2>2. scanned' \in SUBSET Device /\ scanned' # Device /\ scanPc' \in {"inputs", "outputs"}
    BY <1>0, <2>1 DEF DeviceDone, TypeOK
  <2>3. /\ cached' \in [Point -> Nat] /\ valid' \in [Point -> BOOLEAN]
        /\ dirty' \in [Point -> BOOLEAN]
    BY <1>4 DEF ScanOutputs, TypeOK
  <2> QED  BY <1>4, <2>2, <2>3 DEF ScanOutputs, TypeOK, ScannedOk, tagVars, pollVars, fieldVars
<1> QED  BY <1>1, <1>2, <1>3, <1>4 DEF ScanStep

LEMMA TypeControl ==
  ASSUME TypeOK, PollerOk, OwedOk, ConfigAssumption, Start \/ Stop \/ Join
  PROVE  TypeOK' /\ PollerOk' /\ OwedOk'
<1>1. CASE Start
  BY <1>1 DEF Start, TypeOK, PollerOk, OwedOk, Own, Job, tagVars, cacheVars, fieldVars
<1>2. Running \in SUBSET Bus
  BY DEF Running
<1>3. CASE Stop
  <2>1. stopping' \in Bus
    BY <1>2, <1>3, MinimumOf DEF Stop
  <2> QED  BY <1>3, <2>1 DEF Stop, TypeOK, PollerOk, OwedOk, Own, Job, tagVars, cacheVars, pollVars, fieldVars
<1>4. CASE Join
  <2>1. stopping' \in Bus \cup {0}
    BY <1>2, <1>4, MinimumOf DEF Join
  <2> QED  BY <1>4, <2>1 DEF Join, TypeOK, PollerOk, OwedOk, Own, Job, tagVars, cacheVars, pollVars, fieldVars
<1> QED  BY <1>1, <1>3, <1>4

LEMMA TypeField ==
  ASSUME TypeOK, PollerOk, OwedOk, ConfigAssumption, FieldStep
  PROVE  TypeOK' /\ PollerOk' /\ OwedOk'
<1>0. UNCHANGED <<pc, todo>> => PollerOk'
  BY DEF PollerOk, Own, Job
<1>9. UNCHANGED owed => OwedOk'
  BY DEF OwedOk
<1>1. ASSUME NEW b \in Batch, PlantChange(b)  PROVE TypeOK' /\ PollerOk' /\ OwedOk'
  BY <1>0, <1>9, <1>1, SMTT(30) DEF PlantChange, TypeOK, tagVars, cacheVars, pollVars
<1>2. ASSUME NEW d \in Device, DeviceChange(d)  PROVE TypeOK' /\ PollerOk' /\ OwedOk'
  BY <1>0, <1>9, <1>2 DEF DeviceChange, TypeOK, tagVars, cacheVars, pollVars
<1>3. ASSUME NEW d \in Device, Reboot(d)  PROVE TypeOK' /\ PollerOk' /\ OwedOk'
  BY <1>0, <1>9, <1>3 DEF Reboot, TypeOK, tagVars, cacheVars, pollVars
<1>4. ASSUME NEW b \in Writes, LateArrival(b)  PROVE TypeOK' /\ PollerOk' /\ OwedOk'
  <2>1. Zero \in [Point -> Nat]
    BY DEF Zero
  <2>2. Written(b, late[b]) \in [Point -> Nat] /\ b \in Batch
    BY DEF TypeOK, Written, ConfigAssumption
  <2>3. reg' \in [Point -> Nat] /\ late' \in [Batch -> [Point -> Nat]]
        /\ pending' \in SUBSET Writes
    BY <1>4, <2>1, <2>2 DEF LateArrival, TypeOK
  <2>4. owed' \in [Device -> Seq(Reply)] /\ OwedOk'
    <3>1. owed' \in [Device -> Seq(Reply)] /\ Moves({b}) /\ {b} \in SUBSET Batch
      BY <1>4, <2>2, LateMoves
    <3> QED  BY <3>1, OwedMoves
  <2> QED  BY <1>0, <1>4, <2>3, <2>4 DEF LateArrival, TypeOK, tagVars, cacheVars, pollVars
<1>5. ASSUME NEW b \in Writes, RefreshDue(b)  PROVE TypeOK' /\ PollerOk' /\ OwedOk'
  BY <1>0, <1>9, <1>5 DEF RefreshDue, TypeOK, tagVars, pollVars, fieldVars
<1>6. ASSUME NEW d \in Device, Discarded(d)  PROVE TypeOK' /\ PollerOk' /\ OwedOk'
  <2>1. owed' \in [Device -> Seq(Reply)] /\ Moves({})
    BY <1>6, DiscardedMoves
  <2>2. OwedOk'
    BY <2>1, OwedMoves
  <2> QED  BY <1>0, <1>6, <2>1, <2>2 DEF Discarded, TypeOK, tagVars, cacheVars, pollVars
<1> QED  BY <1>1, <1>2, <1>3, <1>4, <1>5, <1>6 DEF FieldStep, ConfigAssumption

-----------------------------------------------------------------------------
(* The inputs: in their order, and together.                                *)

LEMMA InputsInit == Init /\ ConfigAssumption => Fresh /\ Ordered /\ Even
<1> SUFFICES ASSUME Init, ConfigAssumption  PROVE Fresh /\ Ordered /\ Even
  OBVIOUS
<1>1. \A p \in Input : p \in Point /\ tag[p] = 0 /\ cached[p] = 0 /\ reg[p] = 0 /\ ~valid[p]
  BY DEF Init, Zero, Input
<1>2. \A u \in Bus : \A p \in Input : ~Received(u, p)
  BY DEF Init, Received
<1>3. \A d \in Device : Len(owed[d]) = 0
  BY DEF Init
<1>4. Fresh
  <2>1. \A p \in LoneInput : p \in Input
    BY LoneIn
  <2>2. \A p \in LoneInput : tag[p] <= cached[p] /\ cached[p] <= reg[p]
    BY <1>1, <2>1
  <2> QED  BY <1>2, <2>1, <2>2 DEF Fresh
<1>5. Ordered
  BY <1>3 DEF Ordered
<1>6. Even
  <2>1. ASSUME NEW p \in Input, NEW q \in Input
        PROVE  /\ reg[p] = reg[q] /\ cached[p] = cached[q] /\ (valid[p] <=> valid[q])
               /\ tag[p] = tag[q]
    BY <1>1
  <2>2. \A d \in Device : 1..Len(owed[d]) = {}
    <3>1. 1..0 = {}
      OBVIOUS
    <3> QED  BY <1>3, <3>1
  <2>3. ASSUME NEW p \in Input, NEW q \in Input, NEW d \in Device, NEW i \in 1..Len(owed[d])
        PROVE  owed[d][i].values[p] = owed[d][i].values[q]
    <3>1. i \in {}
      BY <2>2
    <3> QED  BY <3>1
  <2>4. ASSUME NEW p \in Input, NEW q \in Input, BatchOf[p] = BatchOf[q]
        PROVE  /\ reg[p] = reg[q] /\ cached[p] = cached[q] /\ (valid[p] <=> valid[q])
               /\ p \in Declared /\ q \in Declared => tag[p] = tag[q]
               /\ \A u \in Bus : Received(u, p) => data[u][p] = data[u][q]
               /\ \A d \in Device : \A i \in 1..Len(owed[d]) :
                    Replied(d, i, p) => owed[d][i].values[p] = owed[d][i].values[q]
    <3>1. reg[p] = reg[q] /\ cached[p] = cached[q] /\ (valid[p] <=> valid[q]) /\ tag[p] = tag[q]
      BY <2>1
    <3>2. \A u \in Bus : ~Received(u, p)
      BY <1>2
    <3>3. \A d \in Device : \A i \in 1..Len(owed[d]) : owed[d][i].values[p] = owed[d][i].values[q]
      BY <2>3
    <3> QED  BY <3>1, <3>2, <3>3
  <2> QED  BY <2>4 DEF Even
<1> QED  BY <1>4, <1>5, <1>6

\* The values of a late reply are natural numbers.
LEMMA RepliedType ==
  ASSUME TypeOK, NEW d \in Device, NEW i \in 1..Len(owed[d]), NEW p \in Point
  PROVE  owed[d][i] \in Reply /\ owed[d][i].values[p] \in Nat
<1>1. owed[d] \in Seq(Reply)
  BY DEF TypeOK
<1>2. owed[d][i] \in Reply
  BY <1>1, ElementOfSeq
<1> QED  BY <1>2 DEF Reply

\* A step that stores nothing and receives nothing: the inputs may be shown, and the
\* plant may go on.
Calm ==
  /\ \A p \in Input :
       /\ tag'[p] \in {tag[p], cached[p]}
       /\ cached'[p] = cached[p] /\ (valid'[p] <=> valid[p])
       /\ reg'[p] \in {reg[p], reg[p] + 1}
  /\ \A p, q \in Input : BatchOf[p] = BatchOf[q] =>
       reg'[p] = reg'[q] /\ (p \in Declared /\ q \in Declared => tag'[p] = tag'[q])
  /\ \A u \in Bus : \A p \in Input : Received(u, p)' => Received(u, p) /\ data'[u] = data[u]
  /\ Moves(Writes)

\* The replies that it adds are those to write requests: they have no value for an input.
LEMMA CalmReplies ==
  ASSUME TypeOK, ConfigAssumption, Moves(Writes), NEW d \in Device
  PROVE  \E s \in {0, 1} : \A i \in 1..Len(owed'[d]) : \A p \in Input :
           Replied(d, i, p)' => Kept(d, s, i) /\ Replied(d, i + s, p)
<1>1. PICK s \in {0, 1} : Moved(Writes, d, s)
  BY DEF Moves
<1> SUFFICES ASSUME NEW i \in 1..Len(owed'[d]), NEW p \in Input, Replied(d, i, p)'
             PROVE  Kept(d, s, i) /\ Replied(d, i + s, p)
  BY <1>1
<1>2. CASE Kept(d, s, i)
  BY <1>2 DEF Kept, Replied, Points
<1>3. CASE Added(Writes, d, s, i)
  <2>1. PICK b \in Writes : owed'[d][i] \in {Answer(b, TRUE), Answer(b, FALSE)}
    BY <1>3 DEF Added
  <2>2. owed'[d][i].from = b /\ b \in Batch
    BY <2>1, AnswerType DEF ConfigAssumption
  <2> QED  BY <2>2, BatchPoints DEF Replied, Points
<1> QED  BY <1>1, <1>2, <1>3 DEF Moved

LEMMA CalmKeeps ==
  ASSUME TypeOK, TypeOK', ConfigAssumption, Fresh, Ordered, Even, Calm
  PROVE  Fresh' /\ Ordered' /\ Even'
<1>0. LoneInput' = LoneInput /\ Input' = Input
  BY DEF LoneInput, Lone, Input, Points
<1>1. ASSUME NEW p \in LoneInput
      PROVE  /\ tag'[p] <= cached'[p] /\ cached'[p] <= reg'[p]
             /\ \A u \in Bus : Received(u, p)' =>
                  cached'[p] <= data'[u][p] /\ data'[u][p] <= reg'[p]
  <2>1. /\ p \in Input /\ tag[p] \in Nat /\ cached[p] \in Nat /\ reg[p] \in Nat
        /\ tag[p] <= cached[p] /\ cached[p] <= reg[p]
    BY LoneIn DEF TypeOK, Fresh
  <2>2. tag'[p] <= cached'[p] /\ cached'[p] <= reg'[p]
    BY <2>1 DEF Calm
  <2>3. ASSUME NEW u \in Bus, Received(u, p)'
        PROVE  cached'[p] <= data'[u][p] /\ data'[u][p] <= reg'[p]
    <3>1. /\ cached[p] <= data[u][p] /\ data[u][p] <= reg[p] /\ data'[u] = data[u]
          /\ data[u][p] \in Nat
      BY <2>1, <2>3, LoneIn DEF Fresh, Calm, TypeOK
    <3> QED  BY <2>1, <3>1 DEF Calm
  <2> QED  BY <2>2, <2>3
<1>2. Fresh'
  BY <1>0, <1>1 DEF Fresh
<1>3. ASSUME NEW p \in LoneInput, NEW d \in Device, NEW i \in 1..Len(owed'[d]),
             Replied(d, i, p)'
      PROVE  /\ cached'[p] <= owed'[d][i].values[p]
             /\ owed'[d][i].values[p] <= reg'[p]
             /\ \A u \in Bus : Received(u, p)' => data'[u][p] <= owed'[d][i].values[p]
             /\ \A j \in 1..Len(owed'[d]) :
                  i <= j /\ Replied(d, j, p)' =>
                    owed'[d][i].values[p] <= owed'[d][j].values[p]
  <2>1. p \in Input /\ p \in Point /\ reg[p] \in Nat /\ cached[p] \in Nat
    BY LoneIn DEF TypeOK
  <2>2. PICK s \in {0, 1} : \A k \in 1..Len(owed'[d]) : \A q \in Input :
          Replied(d, k, q)' => Kept(d, s, k) /\ Replied(d, k + s, q)
    BY CalmReplies DEF Calm
  <2>3. Kept(d, s, i) /\ Replied(d, i + s, p)
    BY <1>3, <2>1, <2>2
  <2>4. i + s \in 1..Len(owed[d]) /\ owed'[d][i] = owed[d][i + s]
    BY <2>3 DEF Kept
  <2>5. owed[d][i + s].values[p] \in Nat
    BY <2>1, <2>4, RepliedType
  <2>6. /\ cached[p] <= owed[d][i + s].values[p]
        /\ owed[d][i + s].values[p] <= reg[p]
        /\ \A u \in Bus : Received(u, p) => data[u][p] <= owed[d][i + s].values[p]
        /\ \A j \in 1..Len(owed[d]) :
             i + s <= j /\ Replied(d, j, p) => owed[d][i + s].values[p] <= owed[d][j].values[p]
    BY <2>3, <2>4 DEF Ordered
  <2>7. cached'[p] <= owed'[d][i].values[p] /\ owed'[d][i].values[p] <= reg'[p]
    BY <2>1, <2>4, <2>5, <2>6 DEF Calm
  <2>8. \A u \in Bus : Received(u, p)' => data'[u][p] <= owed'[d][i].values[p]
    BY <2>1, <2>4, <2>6 DEF Calm
  <2>9. ASSUME NEW j \in 1..Len(owed'[d]), i <= j, Replied(d, j, p)'
        PROVE  owed'[d][i].values[p] <= owed'[d][j].values[p]
    <3>1. Kept(d, s, j) /\ Replied(d, j + s, p)
      BY <2>1, <2>2, <2>9
    <3>2. j + s \in 1..Len(owed[d]) /\ owed'[d][j] = owed[d][j + s] /\ i + s <= j + s
      BY <2>9, <3>1 DEF Kept
    <3> QED  BY <2>4, <2>6, <3>1, <3>2
  <2> QED  BY <2>7, <2>8, <2>9
<1>4. Ordered'
  BY <1>0, <1>3 DEF Ordered
<1>5. ASSUME NEW p \in Input, NEW q \in Input, BatchOf[p] = BatchOf[q]
      PROVE  /\ reg'[p] = reg'[q] /\ cached'[p] = cached'[q] /\ (valid'[p] <=> valid'[q])
             /\ p \in Declared /\ q \in Declared => tag'[p] = tag'[q]
             /\ \A u \in Bus : Received(u, p)' => data'[u][p] = data'[u][q]
             /\ \A d \in Device : \A i \in 1..Len(owed'[d]) :
                  Replied(d, i, p)' => owed'[d][i].values[p] = owed'[d][i].values[q]
  <2>1. /\ cached[p] = cached[q] /\ (valid[p] <=> valid[q])
        /\ \A u \in Bus : Received(u, p) => data[u][p] = data[u][q]
        /\ \A d \in Device : \A i \in 1..Len(owed[d]) :
             Replied(d, i, p) => owed[d][i].values[p] = owed[d][i].values[q]
    BY <1>5 DEF Even
  <2>2. ASSUME NEW d \in Device, NEW i \in 1..Len(owed'[d]), Replied(d, i, p)'
        PROVE  owed'[d][i].values[p] = owed'[d][i].values[q]
    <3>1. PICK s \in {0, 1} : \A k \in 1..Len(owed'[d]) : \A r \in Input :
            Replied(d, k, r)' => Kept(d, s, k) /\ Replied(d, k + s, r)
      BY CalmReplies DEF Calm
    <3>2. Kept(d, s, i) /\ Replied(d, i + s, p)
      BY <2>2, <3>1
    <3> QED  BY <2>1, <3>2 DEF Kept
  <2> QED  BY <1>5, <2>1, <2>2 DEF Calm
<1>6. Even'
  BY <1>0, <1>5 DEF Even
<1> QED  BY <1>2, <1>4, <1>6

\* What a poller does apart from storing a reply and from asking for one.
LEMMA CalmPoller ==
  ASSUME TypeOK, PollerOk, Even, ConfigAssumption, NEW u \in Bus,
         PollerStep(u) \/ Hold(u) \/ Resume(u), ~StoreRead(u),
         ~(pc[u] = "job" /\ Job(u) \notin Writes /\ (Exchange(u, Job(u)) \/ Hold(u)))
  PROVE  Calm
<1> DEFINE Others == \A v \in Bus \ {u} :
                       pc'[v] = pc[v] /\ todo'[v] = todo[v] /\ data'[v] = data[v] /\ result'[v] = result[v]
           Quiet == \A p \in Input : Received(u, p)' => Received(u, p) /\ data'[u] = data[u]
<1>1. ASSUME UNCHANGED tag,
             \A p \in Input : cached'[p] = cached[p] /\ (valid'[p] <=> valid[p]) /\ reg'[p] = reg[p],
             Others, Quiet, Moves(Writes)
      PROVE  Calm
  <2>1. \A p, q \in Input : BatchOf[p] = BatchOf[q] =>
          reg'[p] = reg'[q] /\ (p \in Declared /\ q \in Declared => tag'[p] = tag'[q])
    BY <1>1 DEF Even
  <2>2. ASSUME NEW v \in Bus \ {u}, NEW p \in Input, Received(v, p)'
        PROVE  Received(v, p) /\ data'[v] = data[v]
    <3>1. Job(v)' = Job(v) /\ pc'[v] = pc[v] /\ data'[v] = data[v] /\ result'[v] = result[v]
      BY <1>1 DEF Job
    <3> QED  BY <2>2, <3>1 DEF Received, Points
  <2> QED  BY <1>1, <2>1, <2>2 DEF Calm
<1>2. ASSUME pc'[u] # "store", pc'[u] \notin {"record", "held"} \/ result'[u] # "ok"  PROVE Quiet
  BY <1>2 DEF Received
<1>3. ASSUME Advance(u), pc[u] \notin {"off", "idle"}  PROVE Others /\ Quiet
  <2>1. Others /\ pc'[u] \in {"idle", "job"}
    BY <1>3, AdvanceType
  <2> QED  BY <1>2, <2>1
<1>4. CASE PassBegin(u) \/ PollerExit(u)
  <2>1. UNCHANGED <<tag, cached, valid, reg, owed>> /\ Others /\ pc'[u] \in {"idle", "job", "off"}
    BY <1>4 DEF PassBegin, PollerExit, TypeOK, tagVars, cacheVars, fieldVars
  <2> QED  BY <1>1, <1>2, <2>1, NothingMoves
<1>5. CASE Snapshot(u)
  <2>1. UNCHANGED <<tag, cached, valid, reg, owed>> /\ pc[u] = "job"
    BY <1>5 DEF Snapshot, tagVars, cacheVars, fieldVars
  <2>2. CASE NeedsWrite(Job(u))
    <3>1. PICK where \in {"flight", "terminate"} : pc' = [pc EXCEPT ![u] = where]
      BY <1>5, <2>2, Zenon DEF Snapshot
    <3>2. data' = [data EXCEPT ![u] = SnapshotOf(Job(u))] /\ UNCHANGED <<todo, result>>
      BY <1>5, <2>2, Zenon DEF Snapshot
    <3>3. Others /\ pc'[u] \in {"flight", "terminate"}
      BY <3>1, <3>2 DEF TypeOK
    <3> QED  BY <1>1, <1>2, <2>1, <3>3, NothingMoves
  <2>3. CASE ~NeedsWrite(Job(u))
    <3>1. Advance(u)
      BY <1>5, <2>3 DEF Snapshot
    <3> QED  BY <1>1, <1>3, <2>1, <3>1, NothingMoves
  <2> QED  BY <2>2, <2>3
<1>6. CASE WriteExchange(u)
  <2> DEFINE b == Job(u)
  <2>1. b \in Writes /\ b \in Batch /\ Exchange(u, b)
    BY <1>6 DEF WriteExchange, PollerOk, ConfigAssumption
  <2>2. UNCHANGED <<tag, cached, valid, todo>>
    BY <2>1 DEF Exchange, tagVars, cacheVars
  <2> HIDE DEF b
  <2>3. /\ \E o \in {"ok", "exception", "lost"} : Outcome(u, o)
        /\ reg' \in {reg, Executed(b, data[u])}
        /\ Moves({b})
        /\ \E values \in [Point -> Nat] : data' = [data EXCEPT ![u] = values]
    BY <2>1, ExchangeIs
  <2>4. Others
    BY <2>2, <2>3 DEF Outcome, TypeOK
  <2>5. \A p \in Input : reg'[p] = reg[p]
    <3>1. ASSUME NEW p \in Input  PROVE Executed(b, data[u])[p] = reg[p]
      <4>1. p \in Point /\ p \notin Points(b)
        BY <2>1, BatchPoints, LoneIn
      <4> QED  BY <2>1, <4>1 DEF Executed, Written
    <3> QED  BY <2>3, <3>1
  <2>6. Job(u)' = b
    BY <2>2 DEF Job, b
  <2>7. Quiet
    BY <2>1, <2>6 DEF Received
  <2>8. Moves(Writes)
    <3>1. {b} \subseteq Writes
      BY <2>1
    <3> QED  BY <2>3, <3>1, MovesMore
  <2> QED  BY <1>1, <2>2, <2>4, <2>5, <2>7, <2>8
<1>7. CASE Record(u)
  <2>1. UNCHANGED <<tag, cached, valid, reg, owed>> /\ pc[u] = "record"
    BY <1>7 DEF Record, tagVars, cacheVars, fieldVars
  <2>2. CASE result[u] = "ok"
    <3>1. pc' = [pc EXCEPT ![u] = "store"] /\ UNCHANGED <<todo, data, result>>
      BY <1>7, <2>2 DEF Record
    <3>2. Others
      BY <3>1 DEF TypeOK
    <3>3. Quiet
      BY <2>1, <2>2, <3>1 DEF Received, Job, Points
    <3> QED  BY <1>1, <2>1, <3>2, <3>3, NothingMoves
  <2>3. CASE result[u] # "ok"
    <3>1. Advance(u)
      BY <1>7, <2>3 DEF Record
    <3> QED  BY <1>1, <1>3, <2>1, <3>1, NothingMoves
  <2> QED  BY <2>2, <2>3
<1>8. CASE StoreWrite(u)
  <2>1. UNCHANGED <<tag, cached, valid, reg, owed>> /\ pc[u] = "store" /\ Advance(u)
    BY <1>8 DEF StoreWrite, tagVars, fieldVars
  <2> QED  BY <1>1, <1>3, <2>1, NothingMoves
<1>9. CASE Hold(u)
  <2> DEFINE b == Job(u)
  <2>1. b \in Writes /\ b \in Batch
    BY <1>9 DEF Hold, PollerOk, ConfigAssumption
  <2>2. UNCHANGED <<tag, cached, valid, todo, owed>>
    BY <1>9 DEF Hold, tagVars, cacheVars
  <2>3. Others /\ reg' \in {reg, Executed(b, data[u])}
    BY <1>9 DEF Hold, TypeOK
  <2> HIDE DEF b
  <2>4. \A p \in Input : reg'[p] = reg[p]
    <3>1. Points(b) \cap Input = {} /\ Input \subseteq Point
      BY <2>1, BatchPoints DEF Input
    <3>2. \A p \in Input : Written(b, data[u])[p] = reg[p]
      BY <3>1 DEF Written
    <3>3. reg' \in {reg, Written(b, data[u])}
      BY <2>3 DEF Executed
    <3> QED  BY <3>2, <3>3
  <2>5. Job(u)' = b
    BY <2>2 DEF Job, b
  <2>6. Quiet
    BY <2>1, <2>5 DEF Received
  <2> QED  BY <1>1, <2>2, <2>3, <2>4, <2>6, NothingMoves
<1>10. CASE Resume(u)
  <2>1. PICK o \in {"lost", result[u]} : Outcome(u, o)
    BY <1>10 DEF Resume
  <2>2. UNCHANGED <<tag, cached, valid, reg, owed, todo, data>> /\ pc[u] = "held"
    BY <1>10 DEF Resume, tagVars, cacheVars, fieldVars
  <2>3. Others /\ pc'[u] = "record" /\ result'[u] = o
    BY <2>1, <2>2 DEF Outcome, TypeOK
  <2>4. Quiet
    BY <2>1, <2>2, <2>3 DEF Received, Job, Points
  <2> QED  BY <1>1, <2>2, <2>3, <2>4, NothingMoves
<1>11. CASE ReadExchange(u)
  BY <1>11 DEF ReadExchange
<1> QED  BY <1>4, <1>5, <1>6, <1>7, <1>8, <1>9, <1>10, <1>11 DEF PollerStep

LEMMA CalmOther ==
  ASSUME TypeOK, Even, ConfigAssumption, ScanStep \/ Start \/ Stop \/ Join \/ FieldStep
  PROVE  Calm
<1>1. ASSUME UNCHANGED <<data, result, todo>>,
             pc' = pc \/ (\A u \in Bus : pc'[u] = pc[u] \/ pc'[u] = "idle")
      PROVE  \A u \in Bus : \A p \in Input : Received(u, p)' => Received(u, p) /\ data'[u] = data[u]
  BY <1>1 DEF Received, Job, Points
<1>2. \A p, q \in Input : BatchOf[p] = BatchOf[q] =>
        /\ reg[p] = reg[q] /\ cached[p] = cached[q] /\ (valid[p] <=> valid[q])
        /\ p \in Declared /\ q \in Declared => tag[p] = tag[q]
  BY DEF Even
<1>3. ASSUME UNCHANGED <<data, result, todo>>,
             pc' = pc \/ (\A u \in Bus : pc'[u] = pc[u] \/ pc'[u] = "idle"),
             \A p \in Input : /\ tag'[p] = tag[p] /\ cached'[p] = cached[p]
                              /\ (valid'[p] <=> valid[p]) /\ reg'[p] = reg[p],
             Moves(Writes)
      PROVE  Calm
  <2>1. \A u \in Bus : \A p \in Input : Received(u, p)' => Received(u, p) /\ data'[u] = data[u]
    BY <1>1, <1>3
  <2> QED  BY <1>2, <1>3, <2>1 DEF Calm
<1>4. CASE ScanInputs
  <2> DEFINE d == NextDevice
  <2>1. UNCHANGED <<cached, valid, reg, owed, data, result, todo, pc>>
    BY <1>4 DEF ScanInputs, cacheVars, pollVars, fieldVars
  <2>2. \A p \in Input :
          tag'[p] = IF p \in DevicePoints(d) /\ p \in Declared /\ valid[p] THEN cached[p] ELSE tag[p]
    BY <1>4 DEF ScanInputs, Input
  <2>3. \A p, q \in Input :
          BatchOf[p] = BatchOf[q] => (p \in DevicePoints(d) <=> q \in DevicePoints(d))
    BY DEF Input, DevicePoints
  <2> HIDE DEF d
  <2>4. \A p, q \in Input : BatchOf[p] = BatchOf[q] /\ p \in Declared /\ q \in Declared =>
          tag'[p] = tag'[q]
    BY <1>2, <2>2, <2>3
  <2>5. \A u \in Bus : \A p \in Input : Received(u, p)' => Received(u, p) /\ data'[u] = data[u]
    BY <1>1, <2>1
  <2> QED  BY <1>2, <2>1, <2>2, <2>4, <2>5, NothingMoves DEF Calm
<1>5. CASE ScanHealth
  BY <1>3, <1>5, NothingMoves DEF ScanHealth, cacheVars, pollVars, fieldVars
<1>6. CASE ScanProgram
  BY <1>3, <1>6, NothingMoves DEF ScanProgram, Input, Output, cacheVars, pollVars, fieldVars
<1>7. CASE ScanOutputs
  <2>1. \A p \in Input : cached'[p] = cached[p] /\ (valid'[p] <=> valid[p])
    BY <1>7 DEF ScanOutputs, Input, Output, TypeOK
  <2> QED  BY <1>3, <1>7, <2>1, NothingMoves DEF ScanOutputs, tagVars, pollVars, fieldVars
<1>8. CASE Start
  BY <1>3, <1>8, NothingMoves DEF Start, TypeOK, tagVars, cacheVars, fieldVars
<1>9. CASE Stop \/ Join
  BY <1>3, <1>9, NothingMoves DEF Stop, Join, tagVars, cacheVars, pollVars, fieldVars
<1>10. ASSUME NEW b \in Batch, PlantChange(b)  PROVE Calm
  <2>1. UNCHANGED <<tag, cached, valid, owed, data, result, todo, pc>>
    BY <1>10 DEF PlantChange, tagVars, cacheVars, pollVars
  <2>2. \A p \in Input : reg'[p] = IF p \in Points(b) THEN reg[p] + 1 ELSE reg[p]
    BY <1>10 DEF PlantChange, Input
  <2>3. \A p, q \in Input : BatchOf[p] = BatchOf[q] => (p \in Points(b) <=> q \in Points(b))
    BY DEF Input, Points
  <2>4. \A p, q \in Input : BatchOf[p] = BatchOf[q] => reg'[p] = reg'[q]
    BY <1>2, <2>2, <2>3
  <2>5. \A u \in Bus : \A p \in Input : Received(u, p)' => Received(u, p) /\ data'[u] = data[u]
    BY <1>1, <2>1
  <2> QED  BY <1>2, <2>1, <2>2, <2>4, <2>5, NothingMoves DEF Calm
<1>11. ASSUME NEW d \in Device, DeviceChange(d) \/ Reboot(d)  PROVE Calm
  <2>1. \A p \in Input : reg'[p] = reg[p]
    BY <1>11 DEF DeviceChange, Reboot, Input, Output
  <2>2. UNCHANGED <<tag, cached, valid, owed, pc, todo, data, result>>
    BY <1>11 DEF DeviceChange, Reboot, tagVars, cacheVars, pollVars
  <2> QED  BY <1>3, <2>1, <2>2, NothingMoves
<1>12. ASSUME NEW b \in Writes, RefreshDue(b)  PROVE Calm
  BY <1>3, <1>12, NothingMoves DEF RefreshDue, tagVars, pollVars, fieldVars
<1>13. ASSUME NEW b \in Writes, LateArrival(b)  PROVE Calm
  <2>1. \A p \in Input : reg'[p] = reg[p]
    BY <1>13 DEF LateArrival, Written, Input, Points
  <2>2. UNCHANGED <<tag, cached, valid, pc, todo, data, result>>
    BY <1>13 DEF LateArrival, tagVars, cacheVars, pollVars
  <2>3. Moves({b})
    BY <1>13, LateMoves
  <2>4. Moves(Writes)
    <3>1. {b} \subseteq Writes
      OBVIOUS
    <3> QED  BY <2>3, <3>1, MovesMore
  <2> QED  BY <1>3, <2>1, <2>2, <2>4
<1>14. ASSUME NEW d \in Device, Discarded(d)  PROVE Calm
  <2>1. UNCHANGED <<tag, cached, valid, reg, pc, todo, data, result>>
    BY <1>14 DEF Discarded, tagVars, cacheVars, pollVars
  <2>2. Moves({})
    BY <1>14, DiscardedMoves
  <2>3. Moves(Writes)
    BY <2>2 DEF Moves, Moved, Added
  <2> QED  BY <1>3, <2>1, <2>3
<1> QED
  BY <1>4, <1>5, <1>6, <1>7, <1>8, <1>9, <1>10, <1>11, <1>12, <1>13, <1>14
     DEF ScanStep, FieldStep

\* What the poller of bus u has received for the read batch b, if its request succeeded: what
\* the registers hold, when nothing was owed, or the first late reply of its device.
Now(u, b) ==
  /\ Len(owed[DeviceOf[b]]) = 0 /\ UNCHANGED owed
  /\ data'[u] = Contents(b)
Before(u, b) ==
  LET e == DeviceOf[b] IN
  /\ 1 \in 1..Len(owed[e]) /\ BusOf[e] \in Serial
  /\ owed[e][1] \in Reply /\ owed[e][1].ok /\ Takes(b, owed[e][1])
  /\ data'[u] \in Taken(b, owed[e][1])
  /\ Moved({b}, e, 1)

\* The other pollers do nothing.
Resting(u) ==
  \A v \in Bus \ {u} : pc'[v] = pc[v] /\ data'[v] = data[v] /\ result'[v] = result[v]

\* An input that no like batch can be confused with is read from a reply to its own batch.
LEMMA LoneTaken ==
  ASSUME TypeOK, OwedOk, ConfigAssumption, NEW u \in Bus, NEW b \in Batch,
         NEW p \in LoneInput, p \in Points(b), Before(u, b)
  PROVE  /\ data'[u] = owed[DeviceOf[b]][1].values
         /\ 1 \in 1..Len(owed[DeviceOf[b]]) /\ Replied(DeviceOf[b], 1, p)
<1> DEFINE e == DeviceOf[b]
           r == owed[e][1]
<1>1. /\ 1 \in 1..Len(owed[e]) /\ BusOf[e] \in Serial /\ r \in Reply /\ r.ok /\ Takes(b, r)
      /\ data'[u] \in Taken(b, r)
  BY DEF Before
<1>2. Lone(b)
  BY DEF LoneInput, Points
<1>3. r.from \in Batch /\ DeviceOf[r.from] = e /\ Function[r.from] = Function[b]
      /\ Extent[r.from] = Extent[b]
  BY <1>1 DEF Takes, Reply
<1>4. r.from = b
  BY <1>1, <1>2, <1>3 DEF Lone
<1>5. data'[u] = r.values
  BY <1>1, <1>4 DEF Taken
<1> QED  BY <1>1, <1>4, <1>5 DEF Replied

\* A late reply to whatever batch of inputs shows them as they were together.
LEMMA EvenTaken ==
  ASSUME TypeOK, OwedOk, ConfigAssumption, Even, NEW u \in Bus, NEW b \in Batch, b \notin Writes,
         NEW p \in Points(b), NEW q \in Points(b), Before(u, b)
  PROVE  data'[u][p] = data'[u][q]
<1> DEFINE e == DeviceOf[b]
           r == owed[e][1]
<1>1. /\ 1 \in 1..Len(owed[e]) /\ r \in Reply /\ r.ok /\ Takes(b, r) /\ data'[u] \in Taken(b, r)
  BY DEF Before
<1>2. r.from \in Batch /\ Function[r.from] = Function[b] /\ e \in Device
  BY <1>1 DEF Takes, Reply, ConfigAssumption
<1>3. r.from \notin Writes
  BY <1>2 DEF ConfigAssumption
<1>4. ASSUME NEW x \in Points(r.from), NEW y \in Points(r.from)
      PROVE  r.values[x] = r.values[y]
  <2>1. x \in Input /\ y \in Input /\ BatchOf[x] = BatchOf[y]
    BY <1>2, <1>3, BatchPoints DEF Points
  <2>2. Replied(e, 1, x)
    BY <1>1 DEF Replied
  <2> QED  BY <1>1, <1>2, <2>1, <2>2 DEF Even
<1> HIDE DEF r
<1>5. CASE r.from = b
  BY <1>1, <1>4, <1>5 DEF Taken
<1>6. CASE r.from # b
  <2>1. PICK f \in [Points(b) -> Points(r.from)] :
          data'[u] = [z \in Point |-> IF z \in Points(b) THEN r.values[f[z]] ELSE 0]
    BY <1>1, <1>6 DEF Taken
  <2>2. p \in Point /\ q \in Point
    BY DEF Points
  <2> QED  BY <1>4, <2>1, <2>2
<1> QED  BY <1>5, <1>6

\* A reply that is added to a queue shows the registers as they are.
LEMMA AddedIs ==
  ASSUME TypeOK, ConfigAssumption, NEW b \in Batch, b \notin Writes,
         NEW d, NEW s, NEW i, Added({b}, d, s, i),
         NEW p, Replied(d, i, p)'
  PROVE  p \in Points(b) /\ owed'[d][i].values = Contents(b)
<1>1. owed'[d][i] \in {Answer(b, TRUE), Answer(b, FALSE)}
  BY DEF Added
<1>2. owed'[d][i].ok /\ p \in Points(owed'[d][i].from)
  BY DEF Replied, Points
<1>3. owed'[d][i] = Answer(b, TRUE)
  BY <1>1, <1>2, AnswerType
<1>4. owed'[d][i].from = b /\ owed'[d][i].values = Contents(b)
  BY <1>3, AnswerType
<1> QED  BY <1>2, <1>4

\* A request of a read batch keeps the inputs in their order and together, whatever it is
\* answered with.
LEMMA ReceiveKeeps ==
  ASSUME TypeOK, TypeOK', PollerOk, OwedOk, ConfigAssumption, Fresh, Ordered, Even,
         NEW u \in Bus, NEW b \in Batch, b \notin Writes, b = Job(u), BusOf[DeviceOf[b]] = u,
         UNCHANGED <<tag, cached, valid, reg, todo>>,
         Resting(u),
         Moves({b}),
         pc'[u] \in {"record", "held"}, result'[u] = "ok" => Now(u, b) \/ Before(u, b)
  PROVE  Fresh' /\ Ordered' /\ Even'
<1> DEFINE e == DeviceOf[b]
<1>0. LoneInput' = LoneInput /\ Input' = Input
  BY DEF LoneInput, Lone, Input, Points
<1>1. e \in Device /\ b \in Batch
  BY DEF ConfigAssumption
<1>2. ASSUME NEW v \in Bus \ {u}, NEW p \in Input, Received(v, p)'
      PROVE  Received(v, p) /\ data'[v] = data[v]
  <2>1. Job(v)' = Job(v) /\ pc'[v] = pc[v] /\ data'[v] = data[v] /\ result'[v] = result[v]
    BY DEF Job, Resting
  <2> QED  BY <1>2, <2>1 DEF Received, Points
<1>3. ASSUME NEW p \in Input, Received(u, p)'
      PROVE  p \in Points(b) /\ (Now(u, b) \/ Before(u, b))
  <2>1. Job(u)' = b
    BY DEF Job
  <2> QED  BY <1>3, <2>1 DEF Received, Points
<1>4. ASSUME NEW p \in Points(b)
      PROVE  p \in Point /\ p \in Input /\ Contents(b)[p] = reg[p]
  BY BatchPoints DEF Contents, Points
<1>5. ASSUME NEW p \in LoneInput
      PROVE  /\ tag'[p] <= cached'[p] /\ cached'[p] <= reg'[p]
             /\ \A v \in Bus : Received(v, p)' =>
                  cached'[p] <= data'[v][p] /\ data'[v][p] <= reg'[p]
  <2>1. /\ p \in Input /\ cached[p] \in Nat /\ reg[p] \in Nat
        /\ tag[p] <= cached[p] /\ cached[p] <= reg[p]
    BY LoneIn DEF TypeOK, Fresh
  <2>2. ASSUME NEW v \in Bus, v # u, Received(v, p)'
        PROVE  cached[p] <= data'[v][p] /\ data'[v][p] <= reg[p]
    BY <1>2, <2>1, <2>2 DEF Fresh
  <2>3. ASSUME Received(u, p)'
        PROVE  cached[p] <= data'[u][p] /\ data'[u][p] <= reg[p]
    <3>1. p \in Points(b) /\ (Now(u, b) \/ Before(u, b))
      BY <1>3, <2>1, <2>3
    <3>2. CASE Now(u, b)
      BY <1>4, <2>1, <3>1, <3>2 DEF Now
    <3>3. CASE Before(u, b)
      <4>1. /\ data'[u] = owed[e][1].values
            /\ 1 \in 1..Len(owed[e]) /\ Replied(e, 1, p)
        BY <3>1, <3>3, LoneTaken
      <4> QED  BY <1>1, <4>1 DEF Ordered
    <3> QED  BY <3>1, <3>2, <3>3
  <2> QED  BY <2>1, <2>2, <2>3
<1>6. Fresh'
  BY <1>0, <1>5 DEF Fresh
<1>8. ASSUME NEW p \in LoneInput, NEW d \in Device, NEW i \in 1..Len(owed'[d]),
             Replied(d, i, p)'
      PROVE  /\ cached'[p] <= owed'[d][i].values[p]
             /\ owed'[d][i].values[p] <= reg'[p]
             /\ \A v \in Bus : Received(v, p)' => data'[v][p] <= owed'[d][i].values[p]
             /\ \A j \in 1..Len(owed'[d]) :
                  i <= j /\ Replied(d, j, p)' =>
                    owed'[d][i].values[p] <= owed'[d][j].values[p]
  <2>1. /\ p \in Input /\ p \in Point /\ cached[p] \in Nat /\ reg[p] \in Nat
        /\ tag[p] <= cached[p] /\ cached[p] <= reg[p]
    BY LoneIn DEF TypeOK, Fresh
  <2>2. PICK s \in {0, 1} : Moved({b}, d, s) /\ (Before(u, b) /\ d = e => s = 1)
    <3>1. PICK s \in {0, 1} : Moved({b}, d, s)
      BY DEF Moves
    <3>2. Before(u, b) => Moved({b}, e, 1)
      BY DEF Before
    <3> QED  BY <3>1, <3>2
  <2>3. ASSUME NEW k \in 1..Len(owed'[d]), Replied(d, k, p)'
        PROVE  \/ Kept(d, s, k) /\ Replied(d, k + s, p)
               \/ k + s = Len(owed[d]) + 1 /\ owed'[d][k].values[p] = reg[p]
    <3>1. CASE Kept(d, s, k)
      BY <2>3, <3>1 DEF Kept, Replied, Points
    <3>2. CASE Added({b}, d, s, k)
      <4>1. p \in Points(b) /\ owed'[d][k].values = Contents(b)
        BY <2>3, <3>2, AddedIs
      <4>2. k + s = Len(owed[d]) + 1
        BY <3>2 DEF Added
      <4> QED  BY <1>4, <4>1, <4>2
    <3> QED  BY <2>2, <3>1, <3>2 DEF Moved
  <2>4. CASE Kept(d, s, i) /\ Replied(d, i + s, p)
    <3>1. /\ i + s \in 1..Len(owed[d]) /\ owed'[d][i] = owed[d][i + s]
      BY <2>4 DEF Kept
    <3>2. /\ cached[p] <= owed[d][i + s].values[p]
          /\ owed[d][i + s].values[p] <= reg[p]
          /\ \A v \in Bus : Received(v, p) => data[v][p] <= owed[d][i + s].values[p]
          /\ \A j \in 1..Len(owed[d]) :
               i + s <= j /\ Replied(d, j, p) => owed[d][i + s].values[p] <= owed[d][j].values[p]
      BY <2>4, <3>1 DEF Ordered
    <3>3. ASSUME NEW v \in Bus, Received(v, p)'  PROVE data'[v][p] <= owed'[d][i].values[p]
      <4>1. CASE v # u
        BY <1>2, <2>1, <3>1, <3>2, <3>3, <4>1
      <4>2. CASE v = u
        <5>1. p \in Points(b) /\ (Now(u, b) \/ Before(u, b))
          BY <1>3, <2>1, <3>3, <4>2
        <5>2. owed[d][i + s].from = b
          <6>1. p \in Points(owed[d][i + s].from)
            BY <2>4 DEF Replied
          <6> QED  BY <5>1, <6>1 DEF Points
        <5>3. d = e
          <6>1. DeviceOf[owed[d][i + s].from] = d
            BY <3>1, Zenon DEF OwedOk
          <6> QED  BY <5>2, <6>1
        <5>4. CASE Now(u, b)
          BY <3>1, <5>3, <5>4 DEF Now
        <5>5. CASE Before(u, b)
          <6>1. /\ data'[u] = owed[e][1].values
                /\ 1 \in 1..Len(owed[e]) /\ Replied(e, 1, p)
            BY <5>1, <5>5, LoneTaken
          <6>2. s = 1
            BY <2>2, <5>3, <5>5
          <6>3. \A j \in 1..Len(owed[e]) :
                  1 <= j /\ Replied(e, j, p) => owed[e][1].values[p] <= owed[e][j].values[p]
            BY <1>1, <6>1 DEF Ordered
          <6>4. i + s \in 1..Len(owed[e]) /\ 1 <= i + s /\ Replied(e, i + s, p)
            BY <2>4, <3>1, <5>3
          <6> QED  BY <3>1, <4>2, <5>3, <6>1, <6>3, <6>4
        <5> QED  BY <5>1, <5>4, <5>5
      <4> QED  BY <4>1, <4>2
    <3>4. ASSUME NEW j \in 1..Len(owed'[d]), i <= j, Replied(d, j, p)'
          PROVE  owed'[d][i].values[p] <= owed'[d][j].values[p]
      <4>1. CASE Kept(d, s, j) /\ Replied(d, j + s, p)
        <5>1. j + s \in 1..Len(owed[d]) /\ owed'[d][j] = owed[d][j + s] /\ i + s <= j + s
          BY <3>4, <4>1 DEF Kept
        <5> QED  BY <3>1, <3>2, <4>1, <5>1
      <4>2. CASE owed'[d][j].values[p] = reg[p]
        BY <3>1, <3>2, <4>2
      <4> QED  BY <2>3, <3>4, <4>1, <4>2
    <3> QED  BY <3>1, <3>2, <3>3, <3>4
  <2>5. CASE i + s = Len(owed[d]) + 1 /\ owed'[d][i].values[p] = reg[p]
    <3>1. cached'[p] <= owed'[d][i].values[p] /\ owed'[d][i].values[p] <= reg'[p]
      BY <2>1, <2>5
    <3>2. ASSUME NEW v \in Bus, Received(v, p)'  PROVE data'[v][p] <= owed'[d][i].values[p]
      BY <1>5, <2>5, <3>2
    <3>3. ASSUME NEW j \in 1..Len(owed'[d]), i <= j, Replied(d, j, p)'
          PROVE  owed'[d][i].values[p] <= owed'[d][j].values[p]
      <4>1. CASE Kept(d, s, j) /\ Replied(d, j + s, p)
        <5>1. j + s \in 1..Len(owed[d])
          BY <4>1 DEF Kept
        <5>2. Len(owed[d]) \in Nat
          BY LenProperties DEF TypeOK
        <5> QED  BY <2>5, <3>3, <5>1, <5>2
      <4>2. CASE owed'[d][j].values[p] = reg[p]
        BY <2>1, <2>5, <4>2
      <4> QED  BY <2>3, <3>3, <4>1, <4>2
    <3> QED  BY <3>1, <3>2, <3>3
  <2> QED  BY <1>8, <2>3, <2>4, <2>5
<1>9. Ordered'
  BY <1>0, <1>8 DEF Ordered
<1>10. ASSUME NEW p \in Input, NEW q \in Input, BatchOf[p] = BatchOf[q]
       PROVE  /\ reg'[p] = reg'[q] /\ cached'[p] = cached'[q] /\ (valid'[p] <=> valid'[q])
              /\ p \in Declared /\ q \in Declared => tag'[p] = tag'[q]
              /\ \A v \in Bus : Received(v, p)' => data'[v][p] = data'[v][q]
              /\ \A d \in Device : \A i \in 1..Len(owed'[d]) :
                   Replied(d, i, p)' => owed'[d][i].values[p] = owed'[d][i].values[q]
  <2>1. /\ reg[p] = reg[q] /\ cached[p] = cached[q] /\ (valid[p] <=> valid[q])
        /\ p \in Declared /\ q \in Declared => tag[p] = tag[q]
        /\ \A v \in Bus : Received(v, p) => data[v][p] = data[v][q]
        /\ \A d \in Device : \A i \in 1..Len(owed[d]) :
             Replied(d, i, p) => owed[d][i].values[p] = owed[d][i].values[q]
    BY <1>10 DEF Even
  <2>2. \A c \in Batch : p \in Points(c) <=> q \in Points(c)
    BY <1>10 DEF Points, Input
  <2>3. ASSUME Received(u, p)'  PROVE data'[u][p] = data'[u][q]
    <3>1. p \in Points(b) /\ q \in Points(b) /\ (Now(u, b) \/ Before(u, b))
      BY <1>3, <2>2, <2>3
    <3>2. CASE Now(u, b)
      BY <1>4, <2>1, <3>1, <3>2 DEF Now
    <3>3. CASE Before(u, b)
      BY <3>1, <3>3, EvenTaken
    <3> QED  BY <3>1, <3>2, <3>3
  <2>4. ASSUME NEW d \in Device, NEW i \in 1..Len(owed'[d]), Replied(d, i, p)'
        PROVE  owed'[d][i].values[p] = owed'[d][i].values[q]
    <3>1. PICK s \in {0, 1} : Moved({b}, d, s)
      BY DEF Moves
    <3>2. CASE Kept(d, s, i)
      BY <2>1, <2>4, <3>2 DEF Kept, Replied, Points
    <3>3. CASE Added({b}, d, s, i)
      <4>1. p \in Points(b) /\ owed'[d][i].values = Contents(b)
        BY <2>4, <3>3, AddedIs
      <4> QED  BY <1>4, <2>1, <2>2, <4>1
    <3> QED  BY <3>1, <3>2, <3>3 DEF Moved
  <2>5. /\ reg'[p] = reg'[q] /\ cached'[p] = cached'[q] /\ (valid'[p] <=> valid'[q])
        /\ p \in Declared /\ q \in Declared => tag'[p] = tag'[q]
    BY <2>1
  <2>7. ASSUME NEW v \in Bus, Received(v, p)'  PROVE data'[v][p] = data'[v][q]
    <3>1. CASE v # u
      BY <1>2, <2>1, <2>7, <3>1
    <3>2. CASE v = u
      BY <2>3, <2>7, <3>2
    <3> QED  BY <3>1, <3>2
  <2>6. \A d \in Device : \A i \in 1..Len(owed'[d]) :
          Replied(d, i, p)' => owed'[d][i].values[p] = owed'[d][i].values[q]
    BY <2>4
  <2> QED  BY <2>5, <2>6, <2>7
<1>11. Even'
  BY <1>0, <1>10 DEF Even
<1> QED  BY <1>6, <1>9, <1>11

LEMMA InputsRead ==
  ASSUME TypeOK, TypeOK', PollerOk, OwedOk, ConfigAssumption, Fresh, Ordered, Even,
         NEW u \in Bus, pc[u] = "job", Job(u) \notin Writes, Exchange(u, Job(u)) \/ Hold(u)
  PROVE  Fresh' /\ Ordered' /\ Even'
<1>1. PICK b : b = Job(u)
  OBVIOUS
<1>2. b \in Batch /\ b \notin Writes /\ BusOf[DeviceOf[b]] = u /\ DeviceOf[b] \in Device
  BY <1>1, JobOwn
<1>3. CASE Exchange(u, Job(u))
  <2>1. Exchange(u, b)
    BY <1>1, <1>3
  <2>2. /\ \E o \in {"ok", "exception", "lost"} : Outcome(u, o)
        /\ reg' \in {reg, Executed(b, data[u])} /\ Moves({b})
        /\ \E values \in [Point -> Nat] : data' = [data EXCEPT ![u] = values]
    BY <1>2, <2>1, ExchangeIs
  <2>3. UNCHANGED <<tag, cached, valid, reg, todo>>
    BY <1>2, <2>1, <2>2 DEF Exchange, Executed, tagVars, cacheVars
  <2>4. Resting(u) /\ pc'[u] \in {"record", "held"}
    BY <2>2 DEF Resting, Outcome, TypeOK
  <2>5. result'[u] = "ok" => Now(u, b) \/ Before(u, b)
    <3> SUFFICES ASSUME result'[u] = "ok"  PROVE Now(u, b) \/ Before(u, b)
      OBVIOUS
    <3> QED  BY <1>2, <2>1, ReadReply DEF Now, Before
  <2> QED  BY <1>1, <1>2, <2>2, <2>3, <2>4, <2>5, ReceiveKeeps
<1>4. CASE Hold(u)
  <2>0. /\ UNCHANGED <<tag, cached, valid, todo, owed>>
        /\ reg' = reg \/ reg' = Executed(b, data[u])
    <3>1. UNCHANGED <<tag, cached, valid, todo, owed>>
      BY <1>4 DEF Hold, tagVars, cacheVars
    <3>2. reg' = reg \/ reg' = Executed(b, data[u])
      BY <1>1, <1>4 DEF Hold
    <3> QED  BY <3>1, <3>2
  <2>7. Executed(b, data[u]) = reg
    BY <1>2 DEF Executed
  <2>1. UNCHANGED <<tag, cached, valid, reg, todo, owed>>
    BY <2>0, <2>7
  <2>2. Resting(u) /\ pc'[u] \in {"record", "held"}
    <3>1. pc'[u] = "held" /\ \A v \in Bus \ {u} : pc'[v] = pc[v]
      BY <1>4 DEF Hold, TypeOK
    <3>2. \A v \in Bus \ {u} : result'[v] = result[v]
      BY <1>4 DEF Hold, TypeOK
    <3>3. data' = data \/ data' = [data EXCEPT ![u] = Contents(b)]
      BY <1>1, <1>4 DEF Hold
    <3>4. \A v \in Bus \ {u} : data'[v] = data[v]
      BY <3>3 DEF TypeOK
    <3> QED  BY <3>1, <3>2, <3>4 DEF Resting
  <2>3. Moves({b})
    BY <2>1, NothingMoves
  <2>4. result'[u] = "ok" => data'[u] = Contents(b)
    BY <1>1, <1>2, <1>4 DEF Hold, TypeOK
  <2>5. Len(owed[DeviceOf[b]]) = 0
    <3>1. u \notin Serial
      BY <1>4 DEF Hold
    <3>2. Len(owed[DeviceOf[b]]) \in Nat
      BY <1>2, LenProperties DEF TypeOK
    <3>3. ASSUME Len(owed[DeviceOf[b]]) # 0  PROVE FALSE
      <4>1. 1 \in 1..Len(owed[DeviceOf[b]])
        BY <3>2, <3>3
      <4> QED  BY <1>2, <3>1, <4>1 DEF OwedOk
    <3> QED  BY <3>3
  <2>6. result'[u] = "ok" => Now(u, b) \/ Before(u, b)
    BY <2>1, <2>4, <2>5 DEF Now
  <2> QED  BY <1>1, <1>2, <2>1, <2>2, <2>3, <2>6, ReceiveKeeps
<1> QED  BY <1>3, <1>4

\* A reply is stored for all points of its batch in one critical section.
LEMMA InputsStored ==
  ASSUME TypeOK, PollerOk, ConfigAssumption, Fresh, Ordered, Even, NEW u \in Bus, StoreRead(u)
  PROVE  Fresh' /\ Ordered' /\ Even'
<1> DEFINE b == Job(u)
<1>0. LoneInput' = LoneInput /\ Input' = Input
  BY DEF LoneInput, Lone, Input, Points
<1>1. pc[u] = "store" /\ b \notin Writes /\ Advance(u)
      /\ UNCHANGED <<tag, reg, owed>>
  BY DEF StoreRead, tagVars, fieldVars
<1>2. b \in Batch /\ DeviceOf[b] \in Device /\ BusOf[DeviceOf[b]] = u
  BY <1>1, JobOwn
<1>3. ASSUME NEW p \in Input
      PROVE  /\ p \in Point /\ cached'[p] = IF p \in Points(b) THEN data[u][p] ELSE cached[p]
             /\ valid'[p] <=> p \in Points(b) \/ valid[p]
             /\ p \in Points(b) => Received(u, p)
  BY <1>1 DEF StoreRead, Received, Input
<1>4. ASSUME NEW v \in Bus, NEW p \in Input, Received(v, p)'
      PROVE  Received(v, p) /\ data'[v] = data[v] /\ p \notin Points(b)
  <2>1. v # u
    BY <1>1, <1>4, AdvanceType DEF Received
  <2>2. Job(v)' = Job(v) /\ pc'[v] = pc[v] /\ result'[v] = result[v] /\ data'[v] = data[v]
    BY <1>1, <2>1, AdvanceType DEF Job
  <2>3. Received(v, p)
    BY <1>4, <2>2 DEF Received, Points
  <2>4. pc[v] \notin {"off", "idle"}
    BY <2>3 DEF Received
  <2>5. Job(v) # b
    BY <1>2, <2>1, <2>4, JobOwn
  <2> QED  BY <2>2, <2>3, <2>5 DEF Received, Points
<1>5. Fresh'
  <2>1. ASSUME NEW p \in LoneInput
        PROVE  /\ tag'[p] <= cached'[p] /\ cached'[p] <= reg'[p]
               /\ \A v \in Bus : Received(v, p)' =>
                    cached'[p] <= data'[v][p] /\ data'[v][p] <= reg'[p]
    <3>1. /\ p \in Input /\ p \in Point /\ tag[p] \in Nat /\ cached[p] \in Nat /\ data[u][p] \in Nat
          /\ tag[p] <= cached[p] /\ cached[p] <= reg[p]
      BY LoneIn DEF TypeOK, Fresh
    <3>2. Received(u, p) => cached[p] <= data[u][p] /\ data[u][p] <= reg[p]
      BY DEF Fresh
    <3>3. tag'[p] <= cached'[p] /\ cached'[p] <= reg'[p]
      BY <1>1, <1>3, <3>1, <3>2
    <3>4. ASSUME NEW v \in Bus, Received(v, p)'
          PROVE  cached'[p] <= data'[v][p] /\ data'[v][p] <= reg'[p]
      <4>1. Received(v, p) /\ data'[v] = data[v] /\ p \notin Points(b)
        BY <1>4, <3>1, <3>4
      <4>2. cached'[p] = cached[p]
        BY <1>3, <3>1, <4>1
      <4> QED  BY <1>1, <4>1, <4>2 DEF Fresh
    <3> QED  BY <3>3, <3>4
  <2> QED  BY <1>0, <2>1 DEF Fresh
<1>6. Ordered'
  <2>1. ASSUME NEW p \in LoneInput, NEW d \in Device, NEW i \in 1..Len(owed[d]),
               Replied(d, i, p)
        PROVE  /\ cached'[p] <= owed[d][i].values[p]
               /\ owed[d][i].values[p] <= reg'[p]
               /\ \A v \in Bus : Received(v, p)' => data'[v][p] <= owed[d][i].values[p]
               /\ \A j \in 1..Len(owed[d]) :
                    i <= j /\ Replied(d, j, p) => owed[d][i].values[p] <= owed[d][j].values[p]
    <3>1. p \in Input
      BY LoneIn
    <3>2. /\ cached[p] <= owed[d][i].values[p]
          /\ owed[d][i].values[p] <= reg[p]
          /\ \A v \in Bus : Received(v, p) => data[v][p] <= owed[d][i].values[p]
          /\ \A j \in 1..Len(owed[d]) :
               i <= j /\ Replied(d, j, p) => owed[d][i].values[p] <= owed[d][j].values[p]
      BY <2>1 DEF Ordered
    <3>3. cached'[p] <= owed[d][i].values[p]
      BY <1>3, <3>1, <3>2
    <3>4. \A v \in Bus : Received(v, p)' => data'[v][p] <= owed[d][i].values[p]
      BY <1>4, <3>1, <3>2
    <3> QED  BY <1>1, <3>2, <3>3, <3>4
  <2>2. \A d \in Device : \A i, p : Replied(d, i, p)' <=> Replied(d, i, p)
    BY <1>1 DEF Replied, Points
  <2> QED  BY <1>0, <1>1, <2>1, <2>2 DEF Ordered
<1>7. Even'
  <2>1. ASSUME NEW p \in Input, NEW q \in Input, BatchOf[p] = BatchOf[q]
        PROVE  /\ reg'[p] = reg'[q] /\ cached'[p] = cached'[q] /\ (valid'[p] <=> valid'[q])
               /\ p \in Declared /\ q \in Declared => tag'[p] = tag'[q]
               /\ \A v \in Bus : Received(v, p)' => data'[v][p] = data'[v][q]
               /\ \A d \in Device : \A i \in 1..Len(owed[d]) :
                    Replied(d, i, p) => owed[d][i].values[p] = owed[d][i].values[q]
    <3>1. /\ reg[p] = reg[q] /\ cached[p] = cached[q] /\ (valid[p] <=> valid[q])
          /\ p \in Declared /\ q \in Declared => tag[p] = tag[q]
          /\ \A v \in Bus : Received(v, p) => data[v][p] = data[v][q]
          /\ \A d \in Device : \A i \in 1..Len(owed[d]) :
               Replied(d, i, p) => owed[d][i].values[p] = owed[d][i].values[q]
      BY <2>1 DEF Even
    <3>2. p \in Points(b) <=> q \in Points(b)
      BY <2>1 DEF Points, Input
    <3>3. cached'[p] = cached'[q] /\ (valid'[p] <=> valid'[q])
      BY <1>3, <3>1, <3>2
    <3>4. \A v \in Bus : Received(v, p)' => data'[v][p] = data'[v][q]
      BY <1>4, <3>1
    <3> QED  BY <1>1, <3>1, <3>3, <3>4
  <2>2. \A d \in Device : \A i, p : Replied(d, i, p)' <=> Replied(d, i, p)
    BY <1>1 DEF Replied, Points
  <2> QED  BY <1>0, <1>1, <2>1, <2>2 DEF Even
<1> QED  BY <1>5, <1>6, <1>7

LEMMA InputsPoller ==
  ASSUME TypeOK, TypeOK', PollerOk, OwedOk, ConfigAssumption, Fresh, Ordered, Even,
         NEW u \in Bus, PollerStep(u) \/ Hold(u) \/ Resume(u)
  PROVE  Fresh' /\ Ordered' /\ Even'
<1>1. CASE StoreRead(u)
  BY <1>1, InputsStored
<1>2. CASE pc[u] = "job" /\ Job(u) \notin Writes /\ (Exchange(u, Job(u)) \/ Hold(u))
  BY <1>2, InputsRead
<1>3. CASE /\ ~StoreRead(u)
           /\ ~(pc[u] = "job" /\ Job(u) \notin Writes /\ (Exchange(u, Job(u)) \/ Hold(u)))
  BY <1>3, CalmPoller, CalmKeeps
<1> QED  BY <1>1, <1>2, <1>3

LEMMA InputsOther ==
  ASSUME TypeOK, TypeOK', ConfigAssumption, Fresh, Ordered, Even,
         ScanStep \/ Start \/ Stop \/ Join \/ FieldStep
  PROVE  Fresh' /\ Ordered' /\ Even'
  BY CalmOther, CalmKeeps
-----------------------------------------------------------------------------
(* One image at a time.                                                     *)

LEMMA WholeLike ==
  ASSUME NEW f, NEW g, NEW P, NEW Q \in SUBSET P,
         Whole(f, P), \A p \in Q \cap Declared : g[p] = f[p]
  PROVE  Whole(g, Q)
  BY DEF Whole

LEMMA WholeZero ==
  ASSUME NEW f, NEW P \in SUBSET Point, \A p \in P \cap Declared : f[p] = 0
  PROVE  Whole(f, P)
<1>1. \A p \in P \cap Declared : f[p] = Zero[p]
  BY DEF Zero
<1> QED  BY <1>1 DEF Whole

LEMMA UntornInit == Init /\ ConfigAssumption => Untorn
<1> SUFFICES ASSUME Init, ConfigAssumption  PROVE Untorn
  OBVIOUS
<1>1. TagWhole /\ DataWhole /\ LateWhole
  BY DEF Init, TagWhole, DataWhole, LateWhole
<1>2. ASSUME NEW d \in Device  PROVE Whole(Desired, Outputs(d))
  BY WholeZero DEF Init, Desired, Outputs, DevicePoints
<1>3. ASSUME NEW b \in Writes  PROVE Whole(reg, Points(b))
  BY WholeZero DEF Init, Zero, Points
<1> QED  BY <1>1, <1>2, <1>3 DEF Untorn, CacheWhole, RegWhole

\* What leaves the outputs in the caches alone.
LEMMA CacheKeep ==
  ASSUME CacheWhole,
         \A p \in Output : cached'[p] = cached[p] /\ (valid'[p] <=> valid[p])
  PROVE  CacheWhole'
<1> SUFFICES ASSUME NEW d \in Device  PROVE Whole(Desired', Outputs(d))
  BY DEF CacheWhole, Whole, Outputs, DevicePoints, Output, Input
<1>1. ASSUME NEW p \in Outputs(d) \cap Declared  PROVE Desired'[p] = Desired[p]
  <2>1. p \in Point /\ p \in Output
    BY DEF Outputs, Output
  <2> QED  BY <2>1 DEF Desired
<1>2. Whole(Desired, Outputs(d))
  BY DEF CacheWhole
<1>3. Outputs(d) \in SUBSET Outputs(d)
  OBVIOUS
<1> HIDE DEF Desired
<1> QED  BY <1>1, <1>2, <1>3, WholeLike

\* What leaves the requests under way alone.
LEMMA DataKeep ==
  ASSUME DataWhole,
         \A u \in Bus : pc'[u] = "flight" =>
           pc[u] = "flight" /\ todo'[u] = todo[u] /\ data'[u] = data[u]
  PROVE  DataWhole'
<1> SUFFICES ASSUME NEW u \in Bus, pc'[u] = "flight"
             PROVE  Whole(data'[u], Points(Job(u)'))
  BY DEF DataWhole, Whole, Points
<1>1. Job(u)' = Job(u)
  BY DEF Job
<1> QED  BY <1>1 DEF DataWhole

LEMMA RegKeep ==
  ASSUME RegWhole, \A p \in Output : reg'[p] = reg[p], ConfigAssumption
  PROVE  RegWhole'
<1> SUFFICES ASSUME NEW b \in Writes  PROVE Whole(reg', Points(b))
  BY DEF RegWhole, Whole, Points
<1>1. Whole(reg, Points(b)) /\ b \in Batch
  BY DEF RegWhole, ConfigAssumption
<1>2. \A p \in Points(b) \cap Declared : reg'[p] = reg[p]
  BY <1>1, BatchPoints
<1>3. Points(b) \in SUBSET Points(b)
  OBVIOUS
<1> QED  BY <1>1, <1>2, <1>3, WholeLike

\* A whole request makes a whole batch of registers, and touches no other.
LEMMA RegWritten ==
  ASSUME RegWhole, ConfigAssumption, NEW b \in Writes, NEW values,
         Whole(values, Points(b)), reg' = Written(b, values)
  PROVE  RegWhole'
<1> SUFFICES ASSUME NEW c \in Writes  PROVE Whole(reg', Points(c))
  BY DEF RegWhole, Whole, Points
<1>1. CASE c = b
  <2>1. \A p \in Points(b) \cap Declared : reg'[p] = values[p]
    BY DEF Written, Points
  <2> QED  BY <1>1, <2>1, WholeLike
<1>2. CASE c # b
  <2>1. \A p \in Points(c) \cap Declared : reg'[p] = reg[p]
    BY <1>2 DEF Written, Points
  <2>2. Whole(reg, Points(c)) /\ Points(c) \in SUBSET Points(c)
    BY DEF RegWhole
  <2> QED  BY <2>1, <2>2, WholeLike
<1> QED  BY <1>1, <1>2

LEMMA RegExecuted ==
  ASSUME RegWhole, ConfigAssumption, NEW b \in Batch, NEW values,
         b \in Writes => Whole(values, Points(b)), reg' \in {reg, Executed(b, values)}
  PROVE  RegWhole'
<1>1. CASE reg' = reg
  BY <1>1, RegKeep
<1>2. CASE b \in Writes /\ reg' = Written(b, values)
  BY <1>2, RegWritten
<1> QED  BY <1>1, <1>2 DEF Executed

LEMMA TagKeep ==
  ASSUME TagWhole, UNCHANGED tag, scanPc' = "outputs" => scanPc = "outputs"
  PROVE  TagWhole'
  BY DEF TagWhole, Whole, Output, Input, Points

LEMMA LateKeep ==
  ASSUME LateWhole, pending' \subseteq pending, \A b \in pending' : late'[b] = late[b]
  PROVE  LateWhole'
  BY DEF LateWhole, Whole, Points

\* A snapshot is what the cache of one device wants to have written.
LEMMA SnapshotWhole ==
  ASSUME CacheWhole, ConfigAssumption, NEW b \in Writes
  PROVE  Whole(SnapshotOf(b), Points(b))
<1>1. b \in Batch /\ DeviceOf[b] \in Device
  BY DEF ConfigAssumption
<1>2. Points(b) \in SUBSET Outputs(DeviceOf[b])
  BY <1>1, BatchPoints DEF Outputs
<1>3. \A p \in Points(b) \cap Declared : SnapshotOf(b)[p] = Desired[p]
  BY DEF SnapshotOf, Desired, Points
<1>4. Whole(Desired, Outputs(DeviceOf[b]))
  BY <1>1 DEF CacheWhole
<1> HIDE DEF Desired
<1> QED  BY <1>2, <1>3, <1>4, WholeLike
LEMMA UntornPoller ==
  ASSUME TypeOK, TypeOK', PollerOk, Untorn, ConfigAssumption, NEW u \in Bus,
         PollerStep(u) \/ Hold(u) \/ Resume(u)
  PROVE  Untorn'
<1> USE DEF Untorn
<1>0. ASSUME \A v \in Bus \ {u} : pc'[v] = pc[v] /\ todo'[v] = todo[v] /\ data'[v] = data[v],
             pc'[u] # "flight"
      PROVE  DataWhole'
  BY <1>0, DataKeep
<1>1. CASE PassBegin(u) \/ PollerExit(u) \/ Resume(u)
  <2>1. UNCHANGED <<tag, scanPc, cached, valid, pending, late, reg>>
    BY <1>1 DEF PassBegin, PollerExit, Resume, tagVars, cacheVars, fieldVars
  <2>2. /\ pc'[u] # "flight"
        /\ \A v \in Bus \ {u} : pc'[v] = pc[v] /\ todo'[v] = todo[v] /\ data'[v] = data[v]
    BY <1>1 DEF PassBegin, PollerExit, Resume, Outcome, TypeOK
  <2> QED  BY <1>0, <2>1, <2>2, TagKeep, CacheKeep, LateKeep, RegKeep
<1>2. CASE Snapshot(u)
  <2>1. UNCHANGED <<tag, scanPc, cached, valid, pending, late, reg>>
        /\ pc[u] = "job" /\ Job(u) \in Writes
    BY <1>2 DEF Snapshot, tagVars, cacheVars, fieldVars
  <2>2. DataWhole'
    <3>1. CASE ~NeedsWrite(Job(u))
      BY <1>0, <1>2, <2>1, <3>1, AdvanceType DEF Snapshot
    <3>2. CASE NeedsWrite(Job(u))
      <4>1. PICK where \in {"flight", "terminate"} : pc' = [pc EXCEPT ![u] = where]
        BY <1>2, <3>2, Zenon DEF Snapshot
      <4>2. data' = [data EXCEPT ![u] = SnapshotOf(Job(u))] /\ UNCHANGED <<todo, result>>
        BY <1>2, <3>2, Zenon DEF Snapshot
      <4> SUFFICES ASSUME NEW v \in Bus, pc'[v] = "flight"
                   PROVE  Whole(data'[v], Points(Job(v)'))
        BY DEF DataWhole, Whole, Points
      <4>3. Job(v)' = Job(v)
        BY <4>2 DEF Job
      <4>4. CASE v = u
        <5>1. data'[u] = SnapshotOf(Job(u))
          BY <4>2 DEF TypeOK
        <5> QED  BY <2>1, <4>3, <4>4, <5>1, SnapshotWhole
      <4>5. CASE v # u
        BY <4>1, <4>2, <4>3, <4>5 DEF DataWhole, TypeOK
      <4> QED  BY <4>4, <4>5
    <3> QED  BY <3>1, <3>2
  <2> QED  BY <2>1, <2>2, TagKeep, CacheKeep, LateKeep, RegKeep
<1>3. CASE ReadExchange(u) \/ WriteExchange(u)
  <2>0. PICK b : b = Job(u)
    OBVIOUS
  <2>1. /\ b \in Batch /\ Exchange(u, b)
        /\ b \in Writes => Whole(data[u], Points(b))
    BY <1>3, <2>0, JobOwn DEF ReadExchange, WriteExchange, PollerOk, DataWhole
  <2>2. UNCHANGED <<tag, scanPc, cached, valid, todo>>
    BY <2>1 DEF Exchange, tagVars, cacheVars
  <2>4. /\ reg' \in {reg, Executed(b, data[u])}
        /\ \/ UNCHANGED <<pending, late>>
           \/ b \in Writes /\ pending' = pending \cup {b} /\ late' = [late EXCEPT ![b] = data[u]]
        /\ \E o \in {"ok", "exception", "lost"} : Outcome(u, o)
        /\ \E values \in [Point -> Nat] : data' = [data EXCEPT ![u] = values]
    BY <2>1, ExchangeIs
  <2>3. DataWhole'
    BY <1>0, <2>2, <2>4 DEF Outcome, TypeOK
  <2>5. RegWhole'
    BY <2>1, <2>4, RegExecuted
  <2>6. LateWhole'
    <3>1. CASE UNCHANGED <<pending, late>>
      BY <3>1, LateKeep
    <3>2. CASE b \in Writes /\ pending' = pending \cup {b} /\ late' = [late EXCEPT ![b] = data[u]]
      <4>1. b \in Batch
        BY <2>1
      <4>2. ASSUME NEW c \in pending'  PROVE Whole(late'[c], Points(c))
        <5>1. CASE c = b
          <6>1. late'[c] = data[u]
            BY <3>2, <4>1, <5>1 DEF TypeOK
          <6> QED  BY <2>1, <3>2, <5>1, <6>1
        <5>2. CASE c # b
          <6>1. c \in pending /\ late'[c] = late[c]
            BY <3>2, <5>2 DEF TypeOK, ConfigAssumption
          <6> QED  BY <6>1 DEF LateWhole
        <5> QED  BY <5>1, <5>2
      <4> QED  BY <4>2 DEF LateWhole, Whole, Points
    <3> QED  BY <2>4, <3>1, <3>2
  <2> QED  BY <2>2, <2>3, <2>5, <2>6, TagKeep, CacheKeep
<1>4. CASE Record(u)
  <2>1. UNCHANGED <<tag, scanPc, cached, valid, pending, late, reg>> /\ pc[u] = "record"
    BY <1>4 DEF Record, tagVars, cacheVars, fieldVars
  <2>2. DataWhole'
    <3>1. CASE result[u] = "ok"
      BY <1>0, <1>4, <3>1 DEF Record, TypeOK
    <3>2. CASE result[u] # "ok"
      BY <1>0, <1>4, <2>1, <3>2, AdvanceType DEF Record
    <3> QED  BY <3>1, <3>2
  <2> QED  BY <2>1, <2>2, TagKeep, CacheKeep, LateKeep, RegKeep
<1>5. CASE StoreRead(u)
  <2> DEFINE b == Job(u)
  <2>1. /\ UNCHANGED <<tag, scanPc, pending, late, reg>> /\ pc[u] = "store"
        /\ b \notin Writes /\ Advance(u)
    BY <1>5 DEF StoreRead, tagVars, fieldVars
  <2>2. b \in Batch
    BY <2>1, JobOwn
  <2>3. ASSUME NEW p \in Output  PROVE cached'[p] = cached[p] /\ (valid'[p] <=> valid[p])
    <3>1. p \in Point /\ p \notin Points(b)
      BY <2>1, <2>2, BatchPoints DEF Output
    <3> QED  BY <1>5, <3>1 DEF StoreRead
  <2>4. DataWhole'
    BY <1>0, <2>1, AdvanceType
  <2> QED  BY <2>1, <2>3, <2>4, TagKeep, CacheKeep, LateKeep, RegKeep
<1>6. CASE StoreWrite(u)
  <2>1. UNCHANGED <<tag, scanPc, cached, valid, pending, late, reg>> /\ pc[u] = "store" /\ Advance(u)
    BY <1>6 DEF StoreWrite, tagVars, fieldVars
  <2>2. DataWhole'
    BY <1>0, <2>1, AdvanceType
  <2> QED  BY <2>1, <2>2, TagKeep, CacheKeep, LateKeep, RegKeep
<1>7. CASE Hold(u)
  <2>0. PICK b : b = Job(u)
    OBVIOUS
  <2>1. /\ b \in Batch /\ pc[u] \in {"job", "flight"}
        /\ b \in Writes => Whole(data[u], Points(b))
    BY <1>7, <2>0, JobOwn DEF Hold, PollerOk, DataWhole
  <2>4. UNCHANGED <<tag, scanPc, cached, valid, todo, pending, late>>
    BY <1>7 DEF Hold, tagVars, cacheVars
  <2>5. reg' \in {reg, Executed(b, data[u])}
    BY <1>7, <2>0 DEF Hold
  <2>6. pc'[u] = "held" /\ \A v \in Bus \ {u} : pc'[v] = pc[v]
    BY <1>7 DEF Hold, TypeOK
  <2>7. \A v \in Bus \ {u} : data'[v] = data[v]
    <3>1. data' = data \/ data' = [data EXCEPT ![u] = Contents(b)]
      BY <1>7, <2>0 DEF Hold
    <3> QED  BY <3>1 DEF TypeOK
  <2>2. /\ UNCHANGED <<tag, scanPc, cached, valid, todo, pending, late>>
        /\ reg' \in {reg, Executed(b, data[u])}
        /\ pc'[u] = "held"
        /\ \A v \in Bus \ {u} : pc'[v] = pc[v] /\ data'[v] = data[v]
    BY <2>4, <2>5, <2>6, <2>7
  <2>3. DataWhole' /\ RegWhole'
    BY <1>0, <2>1, <2>2, RegExecuted
  <2> QED  BY <2>2, <2>3, TagKeep, CacheKeep, LateKeep
<1> QED  BY <1>1, <1>2, <1>3, <1>4, <1>5, <1>6, <1>7 DEF PollerStep

LEMMA UntornOther ==
  ASSUME TypeOK, TypeOK', Untorn, ConfigAssumption, EnvironmentAssumption, ScannedOk,
         ScanStep \/ Start \/ Stop \/ Join \/ FieldStep
  PROVE  Untorn'
<1> USE DEF Untorn
<1>1. CASE ScanInputs
  <2>1. UNCHANGED <<cached, valid, pc, todo, data, pending, late, reg>> /\ scanPc' = "health"
    BY <1>1 DEF ScanInputs, cacheVars, pollVars, fieldVars
  <2>2. TagWhole'
    BY <2>1 DEF TagWhole
  <2> QED  BY <2>1, <2>2, CacheKeep, DataKeep, LateKeep, RegKeep
<1>2. CASE ScanHealth
  <2>1. UNCHANGED <<tag, cached, valid, pc, todo, data, pending, late, reg>> /\ scanPc' # "outputs"
    BY <1>2 DEF ScanHealth, DeviceDone, cacheVars, pollVars, fieldVars
  <2> QED  BY <2>1, TagKeep, CacheKeep, DataKeep, LateKeep, RegKeep
<1>3. CASE ScanProgram
  <2>1. UNCHANGED <<cached, valid, pc, todo, data, pending, late, reg>>
    BY <1>3 DEF ScanProgram, cacheVars, pollVars, fieldVars
  <2>2. PICK image \in Images :
          tag' = [p \in Point |-> IF p \in Output \cap Declared THEN image[p] ELSE tag[p]]
    BY <1>3 DEF ScanProgram
  <2>3. \A p \in Output \cap Declared : tag'[p] = image[p]
    BY <2>2 DEF Output
  <2>4. TagWhole'
    BY <2>3 DEF TagWhole, Whole, Output, Input, Points
  <2> QED  BY <2>1, <2>4, CacheKeep, DataKeep, LateKeep, RegKeep
<1>4. CASE ScanOutputs
  <2> DEFINE d == NextDevice
             P == DevicePoints(d) \cap Output \cap Declared
  <2>1. UNCHANGED <<tag, pc, todo, data, pending, late, reg>> /\ scanPc = "outputs"
    BY <1>4 DEF ScanOutputs, tagVars, pollVars, fieldVars
  <2>2. /\ cached' = [p \in Point |-> IF p \in P THEN tag[p] ELSE cached[p]]
        /\ valid' = [p \in Point |-> p \in P \/ valid[p]]
    BY <1>4 DEF ScanOutputs
  <2> HIDE DEF d
  <2>3. CacheWhole'
    <3> SUFFICES ASSUME NEW e \in Device  PROVE Whole(Desired', Outputs(e))
      BY DEF CacheWhole, Whole, Outputs, DevicePoints, Output, Input
    <3>1. CASE e = d
      <4>1. ASSUME NEW p \in Outputs(e) \cap Declared  PROVE Desired'[p] = tag[p]
        <5>1. p \in P /\ p \in Point
          BY <3>1 DEF Outputs, Output
        <5> QED  BY <2>2, <5>1 DEF Desired
      <4>2. Outputs(e) \in SUBSET Output
        BY DEF Outputs
      <4>3. Whole(tag, Output)
        BY <2>1 DEF TagWhole
      <4> HIDE DEF Desired
      <4> QED  BY <4>1, <4>2, <4>3, WholeLike
    <3>2. CASE e # d
      <4>1. ASSUME NEW p \in Outputs(e) \cap Declared  PROVE Desired'[p] = Desired[p]
        <5>1. p \notin P /\ p \in Point
          BY <3>2 DEF Outputs, Output, DevicePoints
        <5> QED  BY <2>2, <5>1 DEF Desired
      <4>2. Whole(Desired, Outputs(e)) /\ Outputs(e) \in SUBSET Outputs(e)
        BY DEF CacheWhole
      <4> HIDE DEF Desired
      <4> QED  BY <4>1, <4>2, WholeLike
    <3> QED  BY <3>1, <3>2
  <2> QED  BY <2>1, <2>3, TagKeep, DataKeep, LateKeep, RegKeep
<1>5. CASE Start
  BY <1>5, TagKeep, CacheKeep, DataKeep, LateKeep, RegKeep
     DEF Start, TypeOK, tagVars, cacheVars, fieldVars
<1>6. CASE Stop \/ Join
  BY <1>6, TagKeep, CacheKeep, DataKeep, LateKeep, RegKeep
     DEF Stop, Join, tagVars, cacheVars, pollVars, fieldVars
<1>7. ASSUME UNCHANGED <<tag, scanPc, cached, valid, pc, todo, data>>
      PROVE  TagWhole' /\ CacheWhole' /\ DataWhole'
  BY <1>7, TagKeep, CacheKeep, DataKeep
<1>8. ASSUME NEW b \in Batch \ Writes, PlantChange(b)  PROVE Untorn'
  <2>1. \A p \in Output : reg'[p] = reg[p]
    BY <1>8 DEF PlantChange, Output, Input, Points
  <2> QED  BY <1>7, <1>8, <2>1, LateKeep, RegKeep DEF PlantChange, tagVars, cacheVars, pollVars
<1>9. ASSUME NEW d \in Device, DeviceChange(d)  PROVE Untorn'
  BY <1>7, <1>9, LateKeep, RegKeep DEF DeviceChange, tagVars, cacheVars, pollVars
<1>10. ASSUME NEW d \in Device, Reboot(d)  PROVE Untorn'
  <2>1. ASSUME NEW b \in Writes  PROVE Whole(reg', Points(b))
    <3>1. b \in Batch /\ DeviceOf[b] \in Device
      BY DEF ConfigAssumption
    <3>2. CASE DeviceOf[b] = d
      <4>1. Points(b) \in SUBSET Point /\ \A p \in Points(b) : reg'[p] = 0
        BY <1>10, <3>1, <3>2, BatchPoints DEF Reboot, Points
      <4> QED  BY <4>1, WholeZero
    <3>3. CASE DeviceOf[b] # d
      <4>1. \A p \in Points(b) : reg'[p] = reg[p]
        BY <1>10, <3>3 DEF Reboot, Points, DevicePoints
      <4>2. Whole(reg, Points(b)) /\ Points(b) \in SUBSET Points(b)
        BY DEF RegWhole
      <4> QED  BY <4>1, <4>2, WholeLike
    <3> QED  BY <3>2, <3>3
  <2>2. RegWhole'
    BY <2>1 DEF RegWhole, Whole, Points
  <2> QED  BY <1>7, <1>10, <2>2, LateKeep DEF Reboot, tagVars, cacheVars, pollVars
<1>11. ASSUME NEW b \in Writes, LateArrival(b)  PROVE Untorn'
  <2>1. Whole(late[b], Points(b)) /\ reg' = Written(b, late[b])
    BY <1>11 DEF LateArrival, LateWhole
  <2>2. RegWhole'
    BY <2>1, RegWritten
  <2>3. LateWhole'
    BY <1>11, LateKeep DEF LateArrival, TypeOK, ConfigAssumption
  <2> QED  BY <1>7, <1>11, <2>2, <2>3 DEF LateArrival, tagVars, cacheVars, pollVars
<1>12. ASSUME NEW b \in Writes, RefreshDue(b)  PROVE Untorn'
  BY <1>7, <1>12, LateKeep, RegKeep DEF RefreshDue, tagVars, pollVars, fieldVars
<1>13. ASSUME NEW d \in Device, Discarded(d)  PROVE Untorn'
  BY <1>7, <1>13, LateKeep, RegKeep DEF Discarded, tagVars, cacheVars, pollVars
<1> QED
  BY <1>1, <1>2, <1>3, <1>4, <1>5, <1>6, <1>8, <1>9, <1>10, <1>11, <1>12, <1>13
     DEF ScanStep, FieldStep
-----------------------------------------------------------------------------
(* Health and connection.                                                   *)

Sole(d) == {e \in Device : BusOf[e] = BusOf[d]} = {d}

\* What leaves connections and diagnostics alone, and takes no poller to or
\* from the recording of an outcome.
LEMMA HealthKeep ==
  ASSUME LinkOk, HealthyHasLink, ConfigAssumption, UNCHANGED <<link, connected>>,
         \A v \in Bus : pc'[v] = "record" <=> pc[v] = "record",
         \A v \in Bus : pc[v] = "record" => result'[v] = result[v]
  PROVE  LinkOk' /\ HealthyHasLink'
  BY DEF LinkOk, HealthyHasLink, ConfigAssumption

LEMMA HealthPoller ==
  ASSUME TypeOK, TypeOK', PollerOk, LinkOk, HealthyHasLink, ConfigAssumption,
         NEW u \in Bus, PollerStep(u) \/ Hold(u) \/ Resume(u)
  PROVE  LinkOk' /\ HealthyHasLink'
<1>1. CASE PassBegin(u) \/ PollerExit(u)
  BY <1>1, HealthKeep DEF PassBegin, PollerExit, TypeOK
<1>2. ASSUME NEW o \in {"ok", "exception", "lost"}, Outcome(u, o), connected' = connected
      PROVE  LinkOk' /\ HealthyHasLink'
  <2>1. /\ pc'[u] = "record" /\ result'[u] = o /\ link'[u] = (o # "lost")
        /\ \A v \in Bus \ {u} : pc'[v] = pc[v] /\ result'[v] = result[v] /\ link'[v] = link[v]
    BY <1>2 DEF Outcome, TypeOK
  <2>2. LinkOk'
    BY <2>1 DEF LinkOk
  <2>3. HealthyHasLink'
    BY <1>2, <2>1 DEF HealthyHasLink, ConfigAssumption
  <2> QED  BY <2>2, <2>3
<1>3. CASE ReadExchange(u) \/ WriteExchange(u) \/ Resume(u)
  <2>1. connected' = connected /\ \E o \in {"ok", "exception", "lost"} : Outcome(u, o)
    BY <1>3 DEF ReadExchange, WriteExchange, Exchange, Answered, TimedOut, Overtaken, Resume,
                TypeOK
  <2> QED  BY <1>2, <2>1
<1>4. CASE Snapshot(u)
  <2>1. UNCHANGED <<link, connected>> /\ pc[u] = "job"
    BY <1>4 DEF Snapshot
  <2>2. CASE ~NeedsWrite(Job(u))
    <3>1. Advance(u)
      BY <1>4, <2>2 DEF Snapshot
    <3> QED  BY <2>1, <3>1, AdvanceType, HealthKeep
  <2>3. CASE NeedsWrite(Job(u))
    <3>1. PICK where \in {"flight", "terminate"} : pc' = [pc EXCEPT ![u] = where]
      BY <1>4, <2>3, Zenon DEF Snapshot
    <3>2. UNCHANGED result
      BY <1>4, <2>3, Zenon DEF Snapshot
    <3> QED  BY <2>1, <3>1, <3>2, HealthKeep DEF TypeOK
  <2> QED  BY <2>2, <2>3
<1>5. CASE Record(u)
  <2> DEFINE d == DeviceOf[Job(u)]
  <2>1. pc[u] = "record" /\ link' = link /\ d \in Device /\ BusOf[d] = u
    BY <1>5, JobOwn DEF Record
  <2>2. /\ connected'[d] = ConnectedAfter(d, result[u])
        /\ \A e \in Device \ {d} : connected'[e] = connected[e]
    BY <1>5, <2>1 DEF Record, TypeOK
  <2>3. /\ pc'[u] # "record"
        /\ \A v \in Bus \ {u} : pc'[v] = pc[v] /\ result'[v] = result[v]
    <3>1. CASE result[u] = "ok"
      BY <1>5, <3>1 DEF Record, TypeOK
    <3>2. CASE result[u] # "ok"
      BY <1>5, <2>1, <3>2, AdvanceType DEF Record
    <3> QED  BY <3>1, <3>2
  <2>4. LinkOk'
    BY <2>1, <2>3 DEF LinkOk
  <2>5. ASSUME NEW e \in Device, connected'[e], {f \in Device : BusOf[f] = BusOf[e]} = {e},
               pc'[BusOf[e]] # "record"
        PROVE  link'[BusOf[e]]
    <3>1. CASE BusOf[e] = u
      <4>1. e = d
        BY <2>1, <2>5, <3>1
      <4>2. ConnectedAfter(d, result[u]) /\ result[u] \in {"ok", "exception", "lost"}
        BY <2>2, <2>5, <4>1 DEF TypeOK
      <4>3. result[u] # "lost"
        BY <4>2 DEF ConnectedAfter
      <4> QED  BY <2>1, <3>1, <4>3 DEF LinkOk
    <3>2. CASE BusOf[e] # u
      <4>1. e # d /\ BusOf[e] \in Bus
        BY <2>1, <3>2 DEF ConfigAssumption
      <4> QED  BY <2>1, <2>2, <2>3, <2>5, <3>2, <4>1 DEF HealthyHasLink
    <3> QED  BY <3>1, <3>2
  <2> QED  BY <2>4, <2>5 DEF HealthyHasLink
<1>6. CASE StoreRead(u) \/ StoreWrite(u)
  <2>1. UNCHANGED <<link, connected>> /\ pc[u] = "store" /\ Advance(u)
    BY <1>6 DEF StoreRead, StoreWrite
  <2> QED  BY <2>1, AdvanceType, HealthKeep
<1>7. CASE Hold(u)
  <2>1. /\ link' = [link EXCEPT ![u] = TRUE] /\ connected' = connected
        /\ pc' = [pc EXCEPT ![u] = "held"] /\ pc[u] \in {"job", "flight"}
        /\ \A v \in Bus \ {u} : result'[v] = result[v]
    BY <1>7 DEF Hold, TypeOK
  <2>2. \A v \in Bus : (link[v] => link'[v]) /\ (v # u => link'[v] = link[v] /\ pc'[v] = pc[v])
    BY <2>1 DEF TypeOK
  <2>3. pc'[u] = "held" /\ link'[u]
    BY <2>1 DEF TypeOK
  <2>4. LinkOk'
    BY <2>1, <2>2, <2>3 DEF LinkOk
  <2>5. HealthyHasLink'
    BY <2>1, <2>2, <2>3 DEF HealthyHasLink, ConfigAssumption
  <2> QED  BY <2>4, <2>5
<1> QED  BY <1>1, <1>3, <1>4, <1>5, <1>6, <1>7 DEF PollerStep

LEMMA HealthOther ==
  ASSUME TypeOK, LinkOk, HealthyHasLink, ConfigAssumption,
         ScanStep \/ Start \/ Stop \/ Join \/ FieldStep
  PROVE  LinkOk' /\ HealthyHasLink'
<1>1. CASE Start
  BY <1>1, HealthKeep DEF Start, TypeOK
<1>2. CASE ScanStep
  BY <1>2, HealthKeep DEF ScanStep, ScanInputs, ScanHealth, ScanProgram, ScanOutputs, pollVars
<1>3. CASE Stop \/ Join
  BY <1>3, HealthKeep DEF Stop, Join, pollVars
<1>4. CASE FieldStep
  BY <1>4, HealthKeep
     DEF FieldStep, PlantChange, DeviceChange, Reboot, LateArrival, RefreshDue,
         Discarded, pollVars
<1> QED  BY <1>1, <1>2, <1>3, <1>4

-----------------------------------------------------------------------------
(* The theorems.                                                            *)

IInv == TypeOK /\ PollerOk /\ OwedOk /\ ScannedOk /\ Fresh /\ Ordered /\ Even /\ Untorn
        /\ LinkOk /\ HealthyHasLink

LEMMA IInvInit == Init => IInv
<1> SUFFICES ASSUME Init  PROVE IInv
  OBVIOUS
<1>1. ConfigAssumption /\ EnvironmentAssumption
  BY ConfigAssumption, EnvironmentAssumption
<1>2. ScannedOk
  BY <1>1 DEF Init, ScannedOk, ConfigAssumption
<1>3. LinkOk /\ HealthyHasLink
  BY DEF Init, LinkOk, HealthyHasLink
<1> QED  BY <1>1, <1>2, <1>3, TypeInit, InputsInit, UntornInit DEF IInv

LEMMA IInvNext == IInv /\ [Next]_vars => IInv'
<1> SUFFICES ASSUME IInv, [Next]_vars  PROVE IInv'
  OBVIOUS
<1> USE DEF IInv
<1>0. ConfigAssumption /\ EnvironmentAssumption
  BY ConfigAssumption, EnvironmentAssumption
<1>1. ASSUME NEW u \in Bus, PollerStep(u) \/ Hold(u) \/ Resume(u)  PROVE IInv'
  <2>1. TypeOK' /\ PollerOk' /\ OwedOk'
    BY <1>0, <1>1, TypePoller, TypeHeld
  <2>2. ScannedOk'
    BY <1>1 DEF ScannedOk, PollerStep, PassBegin, PollerExit, ReadExchange, Snapshot,
                WriteExchange, Exchange, Record, StoreRead, StoreWrite, Hold, Resume
  <2>3. Fresh' /\ Ordered' /\ Even'
    BY <1>0, <1>1, <2>1, InputsPoller
  <2> QED  BY <1>0, <1>1, <2>1, <2>2, <2>3, UntornPoller, HealthPoller
<1>2. CASE ScanStep
  <2>1. TypeOK' /\ ScannedOk'
    BY <1>0, <1>2, TypeScan
  <2>2. PollerOk' /\ OwedOk'
    BY <1>2 DEF PollerOk, OwedOk, Own, Job, ScanStep, ScanInputs, ScanHealth, ScanProgram,
                ScanOutputs, pollVars, fieldVars
  <2> QED  BY <1>0, <1>2, <2>1, <2>2, InputsOther, UntornOther, HealthOther
<1>3. CASE Start \/ Stop \/ Join
  <2>1. TypeOK' /\ PollerOk' /\ OwedOk'
    BY <1>0, <1>3, TypeControl
  <2>2. ScannedOk'
    BY <1>3 DEF ScannedOk, Start, Stop, Join
  <2> QED  BY <1>0, <1>3, <2>1, <2>2, InputsOther, UntornOther, HealthOther
<1>4. CASE FieldStep
  <2>1. TypeOK' /\ PollerOk' /\ OwedOk'
    BY <1>0, <1>4, TypeField
  <2>2. ScannedOk'
    BY <1>4 DEF ScannedOk, FieldStep, PlantChange, DeviceChange, Reboot, LateArrival, RefreshDue,
                Discarded
  <2> QED  BY <1>0, <1>4, <2>1, <2>2, InputsOther, UntornOther, HealthOther
<1>5. CASE UNCHANGED vars
  <2>1. /\ UNCHANGED <<tag, health, cached, valid, dirty, recent, connected, link, pc, todo>>
        /\ UNCHANGED <<data, result, scanPc, scanned, stopping, device, reg, pending, late, owed>>
    BY <1>5 DEF vars, tagVars, cacheVars, pollVars, fieldVars
  <2>2. TypeOK' /\ PollerOk' /\ OwedOk' /\ ScannedOk'
    BY <2>1 DEF TypeOK, PollerOk, OwedOk, Own, Job, ScannedOk
  <2>3. Fresh' /\ Ordered' /\ Even'
    <3>1. \A u \in Bus : \A p \in Input : Received(u, p)' => Received(u, p)
      BY <2>1 DEF Received, Job, Points
    <3>2. Moves(Writes)
      BY <2>1, NothingMoves
    <3>3. Calm
      BY <2>1, <3>1, <3>2 DEF Calm, Even
    <3> QED  BY <1>0, <2>2, <3>3, CalmKeeps
  <2>4. Untorn'
    BY <1>0, <2>1, TagKeep, CacheKeep, DataKeep, LateKeep, RegKeep DEF Untorn
  <2> QED  BY <1>0, <2>1, <2>2, <2>3, <2>4, HealthKeep
<1> QED  BY <1>1, <1>2, <1>3, <1>4, <1>5 DEF Next

LEMMA Invariance == Spec => []IInv
  BY IInvInit, IInvNext, PTL DEF Spec

\* Every reachable state of the drivers is well typed.
THEOREM TypeCorrect == Spec => []TypeOK
  BY Invariance, PTL DEF IInv

\* The registers of a write batch hold the values of a single scan of the
\* program (or of a restarted device), for batches of any size, devices of any
\* number, and requests that are lost, late or overtaken in any order.
THEOREM WritesAreWhole == Spec => []NoTornWrite
<1>1. IInv => NoTornWrite
  BY DEF IInv, Untorn, RegWhole, Whole, NoTornWrite
<1> QED  BY <1>1, Invariance, PTL

\* readInputs() shows the inputs of one read batch from one reply, whatever the
\* pollers do meanwhile: the reply is stored, and read, under the cache mutex.
THEOREM ReadsAreWhole == Spec => []NoTornRead
<1>1. IInv => NoTornRead
  BY DEF IInv, Even, NoTornRead
<1> QED  BY <1>1, Invariance, PTL

\* A TCP device that is reported as connected has its connection.
THEOREM HealthIsHonest == Spec => []HealthyHasLink
  BY Invariance, PTL DEF IInv

-----------------------------------------------------------------------------
(* The inputs implement DelayedCopy.                                        *)

LEMMA DelayedInit == Init => Delayed!Init
  BY LoneIn DEF Init, Delayed!Init, Zero

LEMMA DelayedStep ==
  ASSUME IInv, [Next]_vars
  PROVE  [Delayed!Next]_<<[p \in LoneInput |-> reg[p]], [p \in LoneInput |-> tag[p]]>>
<1> DEFINE source == [p \in LoneInput |-> reg[p]]
           copy == [p \in LoneInput |-> tag[p]]
<1>0. LoneInput \subseteq Input /\ Input \subseteq Point /\ ConfigAssumption
  BY ConfigAssumption, LoneIn
<1>1. ASSUME \A p \in LoneInput : tag'[p] = tag[p] /\ reg'[p] = reg[p]
      PROVE  source' = source /\ copy' = copy
  BY <1>1 DEF LoneInput, Lone, Input, Points
<1>2. CASE ScanInputs
  <2>1. /\ UNCHANGED reg
        /\ \A p \in LoneInput : tag'[p] \in {tag[p], cached[p]}
    BY <1>0, <1>2 DEF ScanInputs, fieldVars
  <2>2. \A p \in LoneInput :
          /\ tag[p] \in Nat /\ cached[p] \in Nat /\ reg[p] \in Nat
          /\ tag[p] <= cached[p] /\ cached[p] <= reg[p]
    BY <1>0 DEF IInv, TypeOK, Fresh
  <2>3. \A p \in LoneInput : tag'[p] \in Nat /\ tag'[p] \in tag[p]..reg[p]
    BY <2>1, <2>2
  <2>4. copy' = [p \in LoneInput |-> tag'[p]] /\ source' = source
    BY <2>1 DEF LoneInput, Lone, Input, Points
  <2>5. Delayed!Refresh
    BY <2>3, <2>4 DEF Delayed!Refresh
  <2> QED  BY <2>5 DEF Delayed!Next
<1>3. ASSUME NEW b \in Batch, PlantChange(b)
      PROVE  [Delayed!Next]_<<source, copy>>
  <2>1. UNCHANGED tag /\ \A p \in LoneInput : reg'[p] \in Nat /\ reg'[p] \in {reg[p], reg[p] + 1}
    BY <1>0, <1>3 DEF PlantChange, IInv, TypeOK, tagVars
  <2>2. source' = [p \in LoneInput |-> reg'[p]] /\ copy' = copy
    BY <2>1 DEF LoneInput, Lone, Input, Points
  <2>3. Delayed!Change
    BY <2>1, <2>2 DEF Delayed!Change
  <2> QED  BY <2>3 DEF Delayed!Next
<1>4. ASSUME NEW u \in Bus, PollerStep(u) \/ Hold(u) \/ Resume(u)
      PROVE  source' = source /\ copy' = copy
  <2>1. UNCHANGED tag
    BY <1>4 DEF PollerStep, PassBegin, PollerExit, ReadExchange, Snapshot, WriteExchange, Exchange,
                Record, StoreRead, StoreWrite, Hold, Resume, tagVars
  <2>2. \A p \in Input : reg'[p] = reg[p]
    <3>1. CASE ReadExchange(u) \/ WriteExchange(u) \/ Hold(u)
      <4>1. PICK b : b = Job(u)
        OBVIOUS
      <4>2. b \in Batch
        BY <1>0, <3>1, <4>1, JobOwn DEF ReadExchange, WriteExchange, Hold, IInv
      <4>3. reg' \in {reg, Executed(b, data[u])}
        BY <1>0, <3>1, <4>1, <4>2, ExchangeIs DEF ReadExchange, WriteExchange, Hold, IInv
      <4>4. ASSUME NEW p \in Input  PROVE Executed(b, data[u])[p] = reg[p]
        BY <1>0, <4>2, BatchPoints DEF Executed, Written
      <4> QED  BY <4>3, <4>4
    <3>2. CASE ~(ReadExchange(u) \/ WriteExchange(u) \/ Hold(u))
      <4>1. UNCHANGED reg
        BY <1>4, <3>2 DEF PollerStep, PassBegin, PollerExit, Snapshot, Record, StoreRead,
                          StoreWrite, Resume, fieldVars
      <4> QED  BY <4>1
    <3> QED  BY <3>1, <3>2
  <2> QED  BY <1>0, <1>1, <2>1, <2>2
<1>5. CASE ScanHealth \/ ScanOutputs
  BY <1>1, <1>5 DEF ScanHealth, ScanOutputs, tagVars, fieldVars
<1>6. CASE ScanProgram
  <2>1. UNCHANGED reg /\ \A p \in LoneInput : tag'[p] = tag[p]
    BY <1>0, <1>6 DEF ScanProgram, Output, fieldVars
  <2> QED  BY <1>1, <2>1
<1>7. CASE Start \/ Stop \/ Join
  BY <1>1, <1>7 DEF Start, Stop, Join, tagVars, fieldVars
<1>8. ASSUME NEW d \in Device, DeviceChange(d) \/ Reboot(d)
      PROVE  source' = source /\ copy' = copy
  <2>1. UNCHANGED tag /\ \A p \in LoneInput : reg'[p] = reg[p]
    BY <1>0, <1>8 DEF DeviceChange, Reboot, Output, tagVars
  <2> QED  BY <1>1, <2>1
<1>9. ASSUME NEW b \in Writes, LateArrival(b) \/ RefreshDue(b)
      PROVE  source' = source /\ copy' = copy
  <2>1. UNCHANGED tag /\ \A p \in LoneInput : reg'[p] = reg[p]
    BY <1>0, <1>9 DEF LateArrival, RefreshDue, Written, Input, Points, tagVars, fieldVars
  <2> QED  BY <1>1, <2>1
<1>10. CASE UNCHANGED vars
  BY <1>1, <1>10 DEF vars, tagVars, fieldVars
<1>11. ASSUME NEW d \in Device, Discarded(d)  PROVE source' = source /\ copy' = copy
  BY <1>1, <1>11 DEF Discarded, tagVars
<1> QED
  BY <1>2, <1>3, <1>4, <1>5, <1>6, <1>7, <1>8, <1>9, <1>10, <1>11 DEF Next, ScanStep, FieldStep

\* Whatever fails, restarts or reconnects, and whatever reply comes late, an input tag only
\* moves forward through the values that its register has had, unless its batch can be
\* confused with a like one on the same unit of a serial line.
THEOREM InputsAreDelayedCopies == Spec => InputsFollow
<1>1. Init => Delayed!Init
  BY DelayedInit
<1>2. IInv /\ [Next]_vars => [Delayed!Next]_<<[p \in LoneInput |-> reg[p]], [p \in LoneInput |-> tag[p]]>>
  BY DelayedStep
<1> QED  BY <1>1, <1>2, Invariance, PTL DEF Spec, InputsFollow, Delayed!Spec

-----------------------------------------------------------------------------
(* When a poller cannot end the process.                                    *)

\* Every batch of registers to write is declared as a whole or not at all.
WholeBatches ==
  \A b \in Writes \ Coils : Points(b) \subseteq Declared \/ Points(b) \cap Declared = {}

\* Output points become valid with the other declared points of their batch,
\* because writeOutputs() copies a device under one lock.
ValidTogether ==
  \A b \in Writes : \A p, q \in Points(b) :
    valid[p] => p \in Declared /\ (q \in Declared => valid[q])

\* A read fills inputs only, and a scan the declared outputs of a device.
LEMMA ValidTogetherStep ==
  ASSUME TypeOK, ConfigAssumption, ValidTogether, [Next]_vars
  PROVE  ValidTogether'
<1>1. CASE UNCHANGED valid
  BY <1>1 DEF ValidTogether, Points
<1>2. ASSUME NEW u \in Bus, StoreRead(u)  PROVE ValidTogether'
  <2>1. Job(u) \notin Writes /\ valid' = [p \in Point |-> p \in Points(Job(u)) \/ valid[p]]
    BY <1>2 DEF StoreRead
  <2>2. \A b \in Writes : \A p \in Points(b) : valid'[p] = valid[p]
    BY <2>1 DEF Points, TypeOK
  <2> QED  BY <2>2 DEF ValidTogether, Points
<1>3. CASE ScanOutputs
  <2> DEFINE d == NextDevice
             P == DevicePoints(d) \cap Output \cap Declared
  <2>1. valid' = [p \in Point |-> p \in P \/ valid[p]]
    BY <1>3 DEF ScanOutputs
  <2> SUFFICES ASSUME NEW b \in Writes, NEW p \in Points(b), NEW q \in Points(b), valid'[p]
               PROVE  p \in Declared /\ (q \in Declared => valid'[q])
    BY DEF ValidTogether, Points
  <2>2. /\ p \in Point /\ q \in Point /\ p \in Output /\ q \in Output
        /\ p \in DevicePoints(d) <=> q \in DevicePoints(d)
    BY DEF Points, Output, Input, DevicePoints
  <2>3. valid[p] => p \in Declared /\ (q \in Declared => valid[q])
    BY DEF ValidTogether
  <2>4. (valid'[p] <=> p \in P \/ valid[p]) /\ (valid'[q] <=> q \in P \/ valid[q])
    BY <2>1, <2>2
  <2> QED  BY <2>2, <2>3, <2>4
<1> QED
  BY <1>1, <1>2, <1>3
     DEF Next, PollerStep, ScanStep, FieldStep, PassBegin, PollerExit, ReadExchange,
         Snapshot, WriteExchange, Exchange, Hold, Resume, Record, StoreWrite, ScanInputs, ScanHealth,
         ScanProgram, Start, Stop, Join, PlantChange, DeviceChange, Reboot, LateArrival,
         RefreshDue, Discarded, vars, cacheVars

\* A poller that has something to write finds every value of the batch.
LEMMA SnapshotNeverThrows ==
  ASSUME TypeOK, PollerOk, ConfigAssumption, WholeBatches, ValidTogether, ~Terminated, Next
  PROVE  ~Terminated'
<1>1. \A v \in Bus : pc[v] # "terminate"
  BY DEF Terminated
<1>2. ASSUME NEW u \in Bus, Snapshot(u)  PROVE pc'[u] # "terminate"
  <2> DEFINE b == Job(u)
  <2>1. pc[u] = "job" /\ b \in Writes
    BY <1>2 DEF Snapshot
  <2>2. CASE ~NeedsWrite(b)
    <3>1. Advance(u)
      BY <1>2, <2>2 DEF Snapshot
    <3> QED  BY <2>1, <3>1, AdvanceType
  <2>3. CASE NeedsWrite(b)
    <3>1. b \in Coils \/ \A p \in Points(b) : valid[p]
      <4>1. PICK p \in Points(b) : valid[p]
        BY <2>3 DEF NeedsWrite
      <4>2. CASE b \in Writes \ Coils
        <5>1. Points(b) \subseteq Declared
          BY <2>1, <4>1, <4>2 DEF ValidTogether, WholeBatches
        <5> QED  BY <2>1, <4>1, <5>1 DEF ValidTogether
      <4> QED  BY <2>1, <4>2
    <3>2. pc' = [pc EXCEPT ![u] = "flight"]
      BY <1>2, <2>3, <3>1 DEF Snapshot
    <3> QED  BY <3>2 DEF TypeOK
  <2> QED  BY <2>2, <2>3
<1>3. ASSUME NEW u \in Bus, PollerStep(u) \/ Hold(u) \/ Resume(u)
      PROVE  \A v \in Bus : pc'[v] # "terminate"
  <2>0. ASSUME ReadExchange(u) \/ WriteExchange(u) \/ Resume(u)
        PROVE  pc' = [pc EXCEPT ![u] = "record"]
    BY <2>0 DEF ReadExchange, WriteExchange, Exchange, Answered, TimedOut, Overtaken, Resume, Outcome
  <2>1. \A v \in Bus \ {u} : pc'[v] = pc[v]
    BY <1>3, <2>0 DEF PollerStep, PassBegin, PollerExit, Snapshot, Record, StoreRead, StoreWrite,
                      Hold, Advance, TypeOK
  <2>2. pc'[u] # "terminate"
    <3>1. CASE Snapshot(u)
      BY <1>2, <3>1
    <3>2. CASE PassBegin(u) \/ PollerExit(u) \/ Hold(u)
      BY <1>1, <3>2 DEF PassBegin, PollerExit, Hold, TypeOK
    <3>3. CASE ReadExchange(u) \/ WriteExchange(u) \/ Resume(u)
      BY <2>0, <3>3 DEF TypeOK
    <3>4. CASE Record(u) \/ StoreRead(u) \/ StoreWrite(u)
      <4>1. Advance(u) \/ pc' = [pc EXCEPT ![u] = "store"]
        BY <3>4 DEF Record, StoreRead, StoreWrite
      <4>2. Advance(u) => pc'[u] # "terminate"
        BY DEF Advance, TypeOK
      <4> QED  BY <4>1, <4>2 DEF TypeOK
    <3> QED  BY <1>3, <3>1, <3>2, <3>3, <3>4 DEF PollerStep
  <2> QED  BY <1>1, <2>1, <2>2
<1>4. CASE ScanStep \/ Stop \/ Join \/ FieldStep
  <2>1. pc' = pc
    BY <1>4 DEF ScanStep, FieldStep, ScanInputs, ScanHealth, ScanProgram, ScanOutputs,
                Stop, Join, PlantChange, DeviceChange, Reboot, LateArrival, RefreshDue,
                Discarded, pollVars
  <2> QED  BY <1>1, <2>1 DEF Terminated
<1>5. CASE Start
  BY <1>1, <1>5 DEF Start, Terminated
<1> QED  BY <1>3, <1>4, <1>5 DEF Next, Terminated

\* A poller ends the process only over a batch of registers of which the
\* program declares some tags and not the others: without such a batch the
\* drivers survive every program, every device and every order of the threads.
THEOREM DeclaredWholeNeverCrashes == WholeBatches => (Spec => []NeverCrashes)
<1> SUFFICES ASSUME WholeBatches  PROVE Spec => []NeverCrashes
  OBVIOUS
<1>1. Init => ValidTogether /\ NeverCrashes
  BY DEF Init, ValidTogether, Points, NeverCrashes, Terminated
<1>2. IInv /\ ValidTogether /\ NeverCrashes /\ [Next]_vars => (ValidTogether /\ NeverCrashes)'
  <2> SUFFICES ASSUME IInv, ValidTogether, NeverCrashes, [Next]_vars
               PROVE  ValidTogether' /\ NeverCrashes'
    OBVIOUS
  <2>1. TypeOK /\ PollerOk /\ ConfigAssumption
    BY ConfigAssumption DEF IInv
  <2>2. ValidTogether'
    BY <2>1, ValidTogetherStep
  <2>3. CASE Next
    BY <2>1, <2>2, <2>3, SnapshotNeverThrows DEF NeverCrashes
  <2>4. CASE UNCHANGED vars
    BY <2>2, <2>4 DEF vars, pollVars, NeverCrashes, Terminated
  <2> QED  BY <2>3, <2>4
<1> QED  BY <1>1, <1>2, Invariance, PTL DEF Spec
=============================================================================
