--------------------------- MODULE ModbusMapping ---------------------------
(***************************************************************************)
(* From mapped points to Modbus requests and back,                          *)
(* src/io/modbus_mapping.cpp: the points of one register table, sorted by   *)
(* groupByRegisterType(), are checked by validatePoints() and go through    *)
(* buildBatches(), one point per step; then every batch is encoded the way  *)
(* the pollers do for a write, again one point per step, and decoded the    *)
(* way they do after a read.                                                 *)
(*                                                                          *)
(* The tables are independent of each other; a bit table is one whose       *)
(* points all have the kind "bool" (that a point has a kind its table can   *)
(* hold is checked point by point and left out).  A value is the integer    *)
(* that its bits mean, a REAL the integer that they spell.                  *)
(***************************************************************************)
EXTENDS Integers, Sequences

CONSTANTS
  Space,      \* register addresses are 0..Space - 1 (65536 in the code)
  Word,       \* values of a register (65536)
  Byte,       \* values of a BYTE (256)
  Limit,      \* the most registers of a request (125, bits 2000)
  Address,    \* addresses in use
  Kind,       \* kinds of points in use
  MaxPoints,  \* bound of the number of points
  Value       \* values in use

ASSUME MappingAssumption ==
  /\ Space \in Nat /\ Limit \in Nat \ {0, 1} /\ Limit < Space
  /\ Word \in Nat \ {0, 1} /\ Byte \in 1..Word
  /\ Address \subseteq 0..Space - 1
  /\ Kind \subseteq {"bool", "byte", "int", "dint", "real"}
  /\ MaxPoints \in Nat
  /\ Value \subseteq Int

VARIABLES
  points,     \* the mapped points of the table, sorted by address
  phase,      \* "check", "rejected", "build", "encode", "done", or "thrown" by
              \* a vector's at()
  at,         \* the next point of the loop at hand
  current,    \* buildBatches()'s current, or nothing yet
  batches,    \* the batches done
  sent,       \* the value that each point was given
  registers,  \* the registers of the batch being assembled
  received    \* the values decoded

vars == <<points, phase, at, current, batches, sent, registers, received>>

RegisterCount(kind) == IF kind \in {"dint", "real"} THEN 2 ELSE 1

Points == [address : Address, kind : Kind, order : {"big", "little"}]

Count(k) == RegisterCount(points[k].kind)
End(k) == points[k].address + Count(k)

\* validatePoints(); the end of the previous point is a uint16_t.
Accepted ==
  /\ \A k \in 1..Len(points) : End(k) <= Space
  /\ \A k \in 2..Len(points) : points[k].address >= End(k - 1) % Space

Sorted == \A k \in 2..Len(points) : points[k - 1].address <= points[k].address

NoBatch == [start |-> 0, quantity |-> 0, members |-> <<>>]

\* validatePoints() throws, or the poller's constructor goes on to buildBatches().
Reject ==
  /\ phase = "check" /\ ~Accepted
  /\ phase' = "rejected"
  /\ UNCHANGED <<points, at, current, batches, sent, registers, received>>

Accept ==
  /\ phase = "check" /\ Accepted
  /\ phase' = "build"
  /\ UNCHANGED <<points, at, current, batches, sent, registers, received>>
-----------------------------------------------------------------------------
(* buildBatches().                                                          *)

\* A batch of the point at hand.
Fresh == [start |-> points[at].address, quantity |-> Count(at), members |-> <<at>>]

\* The point at hand continues the current batch.
Fits ==
  /\ points[at].address = (current.start + current.quantity) % Space
  /\ current.quantity + Count(at) <= Limit

\* buildBatches() starts its first batch, continues one, or closes one and starts
\* another.
Open ==
  /\ phase = "build" /\ at <= Len(points) /\ current = NoBatch
  /\ current' = Fresh
  /\ at' = at + 1
  /\ UNCHANGED <<points, phase, batches, sent, registers, received>>

Extend ==
  /\ phase = "build" /\ at <= Len(points) /\ current # NoBatch /\ Fits
  /\ current' = [current EXCEPT !.quantity = @ + Count(at), !.members = Append(@, at)]
  /\ at' = at + 1
  /\ UNCHANGED <<points, phase, batches, sent, registers, received>>

\* Mutant: the batch that is complete is forgotten.
FlushLost ==
  /\ phase = "build" /\ at <= Len(points) /\ current # NoBatch /\ ~Fits
  /\ current' = Fresh
  /\ at' = at + 1
  /\ UNCHANGED <<points, phase, batches, sent, registers, received>>

Flush ==
  /\ phase = "build" /\ at <= Len(points) /\ current # NoBatch /\ ~Fits
  /\ batches' = Append(batches, current)
  /\ current' = Fresh
  /\ at' = at + 1
  /\ UNCHANGED <<points, phase, sent, registers, received>>

Cleared(quantity) == [o \in 0..quantity - 1 |-> 0]

\* The last batch; the pollers then take the batches one after the other.
Built ==
  /\ phase = "build" /\ at > Len(points)
  /\ batches' = IF current = NoBatch THEN batches ELSE Append(batches, current)
  /\ current' = NoBatch
  /\ at' = 1
  /\ phase' = IF points = <<>> THEN "done" ELSE "encode"
  /\ registers' = IF points = <<>> THEN registers ELSE Cleared(batches'[1].quantity)
  /\ UNCHANGED <<points, sent, received>>
-----------------------------------------------------------------------------
(* encodeModbusPointValue(), decodeModbusPointValue().                       *)

\* The values a point can have.
ValueRange(kind) ==
  CASE kind = "bool" -> 0..1
    [] kind = "byte" -> 0..Byte - 1
    [] kind = "int"  -> -(Word \div 2)..(Word \div 2) - 1
    [] kind = "dint" -> -((Word * Word) \div 2)..((Word * Word) \div 2) - 1
    [] kind = "real" -> 0..Word * Word - 1

\* The number that a pattern of bits means as a signed integer of size n.
Signed(n, pattern) == IF pattern >= n \div 2 THEN pattern - n ELSE pattern

\* The batch and the offset of point k.
BatchOf(k) ==
  CHOOSE b \in 1..Len(batches) : \E m \in 1..Len(batches[b].members) : batches[b].members[m] = k

\* Mutant: the offset in a request is counted from one.
OffsetFromOne(k) == points[k].address - batches[BatchOf(k)].start + 1
Offset(k) == points[k].address - batches[BatchOf(k)].start

\* The words of a value, in the order of the registers.
Words(point, v) ==
  IF RegisterCount(point.kind) = 1
  THEN <<v % Word>>
  ELSE LET high == (v % (Word * Word)) \div Word
           low == v % Word
       IN  IF point.order = "big" THEN <<high, low>> ELSE <<low, high>>

\* Mutant: the words are taken in the same order for every point.
ValueOfBig(point, words) ==
  LET combined == words[1] * Word + words[2] IN
  CASE point.kind = "bool" -> words[1]
    [] point.kind = "byte" -> words[1] % Byte
    [] point.kind = "int"  -> Signed(Word, words[1])
    [] point.kind = "dint" -> Signed(Word * Word, combined)
    [] point.kind = "real" -> combined

ValueOf(point, words) ==
  LET combined == IF point.order = "big" THEN words[1] * Word + words[2]
                                         ELSE words[2] * Word + words[1]
  IN  CASE point.kind = "bool" -> words[1]
        [] point.kind = "byte" -> words[1] % Byte
        [] point.kind = "int"  -> Signed(Word, words[1])
        [] point.kind = "dint" -> Signed(Word * Word, combined)
        [] point.kind = "real" -> combined

InBounds(k) == Offset(k) \in DOMAIN registers /\ Offset(k) + Count(k) - 1 \in DOMAIN registers

\* The point at hand is encoded into its batch.
Encode ==
  /\ phase = "encode" /\ at \notin DOMAIN sent
  /\ IF InBounds(at)
     THEN \E v \in Value \cap ValueRange(points[at].kind) :
            /\ sent' = Append(sent, v)
            /\ registers' = [o \in DOMAIN registers |->
                 IF o \in Offset(at)..Offset(at) + Count(at) - 1
                 THEN Words(points[at], v)[o - Offset(at) + 1] ELSE registers[o]]
            /\ UNCHANGED phase
     ELSE phase' = "thrown" /\ UNCHANGED <<sent, registers>>
  /\ UNCHANGED <<points, at, current, batches, received>>

LastOfBatch == at < Len(points) => BatchOf(at + 1) # BatchOf(at)

\* On to the next point of the batch.
NextPoint ==
  /\ phase = "encode" /\ at \in DOMAIN sent /\ ~LastOfBatch
  /\ at' = at + 1
  /\ UNCHANGED <<points, phase, current, batches, sent, registers, received>>

\* The batch is complete; reading it back decodes all its points.
Decode ==
  LET members == batches[BatchOf(at)].members IN
  /\ phase = "encode" /\ at \in DOMAIN sent /\ LastOfBatch
  /\ received' = received \o
       [m \in 1..Len(members) |->
          LET k == members[m] IN
          ValueOf(points[k], [w \in 1..Count(k) |-> registers[Offset(k) + w - 1]])]
  /\ at' = at + 1
  /\ phase' = IF at = Len(points) THEN "done" ELSE "encode"
  /\ registers' = IF at = Len(points) THEN registers
                  ELSE Cleared(batches[BatchOf(at + 1)].quantity)
  /\ UNCHANGED <<points, current, batches, sent>>
-----------------------------------------------------------------------------
Init ==
  /\ points \in UNION {[1..n -> Points] : n \in 0..MaxPoints}
  /\ Sorted
  /\ phase = "check" /\ at = 1
  /\ current = NoBatch /\ batches = <<>>
  /\ sent = <<>> /\ registers = <<>> /\ received = <<>>

Next == Reject \/ Accept \/ Open \/ Extend \/ Flush \/ Built \/ Encode \/ NextPoint \/ Decode

Spec == Init /\ [][Next]_vars
-----------------------------------------------------------------------------
(* Properties.                                                              *)

\* A batch covers its registers without a gap and without an overlap, in the
\* order of its points, within the address space and the limit of a request.
Tiled(b) ==
  /\ b.quantity <= Limit /\ b.start + b.quantity <= Space
  /\ b.members # <<>>
  /\ points[b.members[1]].address = b.start
  /\ End(b.members[Len(b.members)]) = b.start + b.quantity
  /\ \A m \in 1..Len(b.members) - 1 :
       /\ b.members[m + 1] = b.members[m] + 1
       /\ End(b.members[m]) = points[b.members[m + 1]].address

\* The batches follow each other in the order of their points, without a point
\* between them, and in the end no point is left.
Partition ==
  /\ \A n \in 1..Len(batches) - 1 :
       batches[n + 1].members[1] = batches[n].members[Len(batches[n].members)] + 1
  /\ phase \in {"encode", "done"} /\ points # <<>> =>
       /\ batches[1].members[1] = 1
       /\ LET last == batches[Len(batches)].members IN last[Len(last)] = Len(points)

\* Every point is in exactly one batch, and every batch is the registers of its
\* points and nothing else.
BatchesTiled == Partition /\ \A n \in 1..Len(batches) : Tiled(batches[n])

\* No access to the registers of a request is out of bounds.
NeverThrown == phase # "thrown"

\* What was written is what is read back, for every kind, word order and
\* neighbourhood of points.
RoundTrip == received = SubSeq(sent, 1, Len(received)) /\ (phase = "done" => Len(received) = Len(points))

=============================================================================
