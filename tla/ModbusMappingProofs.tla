----------------------- MODULE ModbusMappingProofs -----------------------
(***************************************************************************)
(* What ModbusMapping.tla computes for every address space, size of words,  *)
(* limit of a request and list of points: the batches tile the registers,   *)
(* no access is out of bounds, and values survive, from one inductive       *)
(* invariant IInv.                                                           *)
(***************************************************************************)
EXTENDS ModbusMapping, SequenceTheorems, TLAPS

Batches == [start : Nat, quantity : Nat, members : Seq(Nat \ {0})]

First(b) == b.members[1]
Last(b) == b.members[Len(b.members)]
Has(b, k) == \E m \in 1..Len(b.members) : b.members[m] = k

TypeOK ==
  /\ points \in Seq(Points)
  /\ phase \in {"check", "rejected", "build", "encode", "done", "thrown"}
  /\ at \in Nat \ {0}
  /\ current \in Batches
  /\ batches \in Seq(Batches)
  /\ sent \in Seq(Int)
  /\ received \in Seq(Int)

\* A batch is a run of points whose registers follow each other.
Gapless(b) ==
  /\ b.members # <<>>
  /\ \A m \in 1..Len(b.members) :
       /\ b.members[m] = First(b) + m - 1
       /\ b.members[m] \in 1..Len(points)
  /\ \A m \in 2..Len(b.members) : End(b.members[m - 1]) = points[b.members[m]].address

\* The registers of a batch are those of its points, which do not overlap.
Disjoint(b) ==
  /\ points[First(b)].address = b.start
  /\ End(Last(b)) = b.start + b.quantity
  /\ b.quantity <= Limit /\ b.start + b.quantity <= Space
  /\ \A m \in 1..Len(b.members) :
       b.start <= points[b.members[m]].address /\ End(b.members[m]) <= b.start + b.quantity
  /\ \A m, n \in 1..Len(b.members) :
       m < n => End(b.members[m]) <= points[b.members[n]].address

BatchOk(b) == Gapless(b) /\ Disjoint(b)

\* The batches that are done follow each other.
Chained ==
  /\ \A n \in 1..Len(batches) : BatchOk(batches[n])
  /\ \A m, n \in 1..Len(batches) : m < n => Last(batches[m]) < First(batches[n])
  /\ \A n \in 2..Len(batches) : First(batches[n]) = Last(batches[n - 1]) + 1
  /\ batches # <<>> => First(batches[1]) = 1

Checked ==
  /\ Sorted
  /\ phase \notin {"check", "rejected"} => Accepted
  /\ phase \in {"check", "rejected"} => at = 1 /\ current = NoBatch /\ batches = <<>>
  /\ phase \in {"check", "rejected", "build"} => sent = <<>> /\ received = <<>>

\* The current batch continues the ones that are done, up to the point at hand.
Building ==
  phase = "build" =>
    /\ at <= Len(points) + 1
    /\ current = NoBatch => at = 1 /\ batches = <<>>
    /\ current # NoBatch =>
         /\ BatchOk(current)
         /\ Last(current) = at - 1
         /\ batches = <<>> => First(current) = 1
         /\ batches # <<>> => First(current) = Last(batches[Len(batches)]) + 1
         /\ \A n \in 1..Len(batches) : Last(batches[n]) < First(current)
    /\ \A k \in 1..at - 1 :
         (current # NoBatch /\ Has(current, k)) \/ \E n \in 1..Len(batches) : Has(batches[n], k)

\* No point is left out.
Covered ==
  phase \in {"encode", "done"} /\ points # <<>> =>
    /\ batches # <<>>
    /\ Last(batches[Len(batches)]) = Len(points)
    /\ \A k \in 1..Len(points) : \E n \in 1..Len(batches) : Has(batches[n], k)

\* The registers are those of batch b, and hold its points that are encoded; what
\* the batches before it were given is read back.
Assembled(b) ==
  /\ DOMAIN registers = 0..b.quantity - 1
  /\ Len(received) = First(b) - 1
  /\ \A k \in First(b)..Len(sent) : \A w \in 1..Count(k) :
       registers[points[k].address - b.start + w - 1] = Words(points[k], sent[k])[w]

Encoding ==
  phase = "encode" =>
    /\ at <= Len(points)
    /\ Len(sent) \in {at - 1, at}
    /\ \A k \in 1..Len(sent) : sent[k] \in ValueRange(points[k].kind)
    /\ \A n \in 1..Len(batches) : Has(batches[n], at) => Assembled(batches[n])

Kept ==
  /\ Len(received) <= Len(sent)
  /\ \A i \in 1..Len(received) : received[i] = sent[i]
  /\ phase = "done" => Len(received) = Len(points)

IInv ==
  /\ TypeOK /\ Chained /\ Checked /\ Building /\ Covered /\ Encoding /\ Kept
  /\ NeverThrown
-----------------------------------------------------------------------------
(* Words and values.                                                        *)

\* Every integer has a remainder, and only one.
LEMMA Division ==
  ASSUME NEW a \in Int, NEW b \in Nat \ {0}
  PROVE  /\ a \div b \in Int /\ a % b \in 0..b - 1
         /\ a = b * (a \div b) + (a % b)
<1>1. a \div b \in Int
  OBVIOUS
<1>2. a % b \in 0..b - 1
  OBVIOUS
<1>3. a = b * (a \div b) + (a % b)
  OBVIOUS
<1> QED  BY <1>1, <1>2, <1>3

LEMMA Remainder ==
  ASSUME NEW b \in Nat \ {0}, NEW q \in Int, NEW r \in 0..b - 1
  PROVE  (b * q + r) % b = r
<1> DEFINE a == b * q + r
           d == a \div b
           s == a % b
<1>1. a \in Int
  OBVIOUS
<1>2. d \in Int /\ s \in 0..b - 1 /\ a = b * d + s
  BY <1>1, Division
<1> HIDE DEF d, s
<1>3. b * (q - d) = s - r
  BY <1>2
<1>4. CASE q - d >= 1
  <2>1. b * (q - d) >= b
    BY <1>2, <1>4
  <2> QED  BY <1>2, <1>3, <2>1
<1>5. CASE q - d <= -1
  <2>1. b * (q - d) <= -b
    BY <1>2, <1>5
  <2> QED  BY <1>2, <1>3, <2>1
<1>6. CASE q = d
  BY <1>2, <1>6 DEF s
<1> QED  BY <1>2, <1>4, <1>5, <1>6

LEMMA SmallRemainder ==
  ASSUME NEW b \in Nat \ {0}
  PROVE  (\A r \in 0..b - 1 : r % b = r) /\ b % b = 0
  OBVIOUS

\* The remainder of a signed value is the pattern of its bits.
LEMMA SignedPattern ==
  ASSUME NEW n \in Nat \ {0}, NEW v \in -(n \div 2)..(n \div 2) - 1
  PROVE  Signed(n, v % n) = v
<1>1. n \div 2 \in Nat /\ 2 * (n \div 2) <= n
  OBVIOUS
<1>2. CASE v >= 0
  <2>1. v = n * 0 + v /\ v \in 0..n - 1 /\ v < n \div 2
    BY <1>1, <1>2
  <2>2. v % n = v
    BY <2>1, Remainder
  <2> QED  BY <1>1, <2>1, <2>2 DEF Signed
<1>3. CASE v < 0
  <2>1. v = n * (-1) + (v + n) /\ v + n \in 0..n - 1 /\ v + n >= n \div 2
    BY <1>1, <1>3
  <2>2. v % n = v + n
    BY <2>1, Remainder
  <2> QED  BY <1>1, <2>1, <2>2 DEF Signed
<1> QED  BY <1>1, <1>2, <1>3

\* Two words spell the pattern of a value of two registers.
LEMMA TwoWords ==
  ASSUME NEW v \in Int, NEW n \in Nat \ {0}
  PROVE  ((v % (n * n)) \div n) * n + (v % n) = v % (n * n)
<1> DEFINE x == v % (n * n)
           q == v \div (n * n)
           h == x \div n
           l == x % n
<1>1. n * n \in Nat \ {0}
  OBVIOUS
<1>2. x \in Int /\ q \in Int /\ v = (n * n) * q + x
  <2> DEFINE s == n * n
  <2>1. s \in Nat \ {0}
    BY <1>1
  <2> HIDE DEF s
  <2>2. v \div s \in Int /\ v % s \in Int /\ v = s * (v \div s) + (v % s)
    BY <2>1, Division
  <2> QED  BY <2>2 DEF s
<1> HIDE DEF x, q
<1>3. h \in Int /\ l \in 0..n - 1 /\ x = n * h + l
  BY <1>2, Division
<1> HIDE DEF h, l
<1>4. v = n * (n * q + h) + l /\ n * q + h \in Int
  BY <1>2, <1>3
<1>5. v % n = l
  BY <1>3, <1>4, Remainder
<1>6. h * n + l = x
  BY <1>3
<1> QED  BY <1>5, <1>6 DEF x, h

\* decodeModbusPointValue() undoes encodeModbusPointValue(), in both word orders.
LEMMA WordsRoundTrip ==
  ASSUME MappingAssumption, NEW p \in Points, NEW v \in ValueRange(p.kind), NEW words,
         \A w \in 1..RegisterCount(p.kind) : words[w] = Words(p, v)[w]
  PROVE  ValueOf(p, words) = v
<1>1. /\ Word \in Nat \ {0, 1} /\ Byte \in 1..Word
      /\ p.kind \in {"bool", "byte", "int", "dint", "real"} /\ p.order \in {"big", "little"}
  BY DEF MappingAssumption, Points
<1>2. Word * Word \in Nat \ {0}
  BY <1>1
<1>3. CASE p.kind \in {"bool", "byte", "int"}
  <2>1. words[1] = v % Word
    BY <1>3 DEF RegisterCount, Words
  <2>2. CASE p.kind = "bool"
    <3>1. v \in 0..1 /\ v = Word * 0 + v /\ v \in 0..Word - 1
      BY <1>1, <2>2 DEF ValueRange
    <3>2. v % Word = v
      BY <1>1, <3>1, Remainder
    <3> QED  BY <2>1, <2>2, <3>2 DEF ValueOf
  <2>3. CASE p.kind = "byte"
    <3>1. /\ v \in 0..Byte - 1 /\ v = Word * 0 + v /\ v \in 0..Word - 1
          /\ v = Byte * 0 + v /\ Byte \in Nat \ {0}
      BY <1>1, <2>3 DEF ValueRange
    <3>2. v % Word = v /\ v % Byte = v
      BY <1>1, <3>1, Remainder
    <3> QED  BY <2>1, <2>3, <3>2 DEF ValueOf
  <2>4. CASE p.kind = "int"
    <3>1. v \in -(Word \div 2)..(Word \div 2) - 1
      BY <2>4 DEF ValueRange
    <3>2. Signed(Word, v % Word) = v
      BY <1>1, <3>1, SignedPattern
    <3> QED  BY <2>1, <2>4, <3>2 DEF ValueOf
  <2> QED  BY <1>3, <2>2, <2>3, <2>4
<1>4. CASE p.kind \in {"dint", "real"}
  <2> DEFINE high == (v % (Word * Word)) \div Word
             low == v % Word
             pattern == v % (Word * Word)
  <2>1. v \in Int
    <3>1. CASE p.kind = "dint"
      BY <1>2, <3>1 DEF ValueRange
    <3>2. CASE p.kind = "real"
      BY <1>2, <3>2 DEF ValueRange
    <3> QED  BY <1>4, <3>1, <3>2
  <2>2. high * Word + low = pattern
    BY <1>1, <2>1, TwoWords
  <2>3. IF p.order = "big" THEN words[1] = high /\ words[2] = low
                           ELSE words[1] = low /\ words[2] = high
    BY <1>4 DEF RegisterCount, Words
  <2> HIDE DEF high, low, pattern
  <2>4. ValueOf(p, words) = IF p.kind = "dint" THEN Signed(Word * Word, pattern) ELSE pattern
    BY <1>1, <1>4, <2>2, <2>3 DEF ValueOf
  <2>5. CASE p.kind = "dint"
    <3>1. v \in -((Word * Word) \div 2)..((Word * Word) \div 2) - 1
      BY <2>5 DEF ValueRange
    <3>2. Signed(Word * Word, pattern) = v
      BY <1>2, <3>1, SignedPattern DEF pattern
    <3> QED  BY <2>4, <2>5, <3>2
  <2>6. CASE p.kind = "real"
    <3>1. v \in 0..(Word * Word) - 1 /\ v = (Word * Word) * 0 + v
      BY <1>2, <2>6 DEF ValueRange
    <3>2. pattern = v
      BY <1>2, <3>1, Remainder DEF pattern
    <3> QED  BY <2>4, <2>6, <3>2
  <2> QED  BY <1>4, <2>5, <2>6
<1> QED  BY <1>1, <1>3, <1>4
-----------------------------------------------------------------------------
(* Points and batches.                                                      *)

\* What validatePoints() established of every point.
LEMMA PointFacts ==
  ASSUME MappingAssumption, TypeOK, Accepted, NEW k \in 1..Len(points)
  PROVE  /\ points[k] \in Points
         /\ Count(k) \in {1, 2}
         /\ points[k].address \in Nat
         /\ End(k) = points[k].address + Count(k) /\ End(k) <= Space
<1>1. points[k] \in Points
  BY DEF TypeOK
<1>2. Count(k) \in {1, 2}
  BY DEF Count, RegisterCount
<1>3. points[k].address \in Nat
  <2>1. points[k].address \in Address
    BY <1>1 DEF Points
  <2>2. points[k].address \in 0..Space - 1
    BY <2>1 DEF MappingAssumption
  <2> QED  BY <2>2
<1> QED  BY <1>1, <1>2, <1>3 DEF End, Accepted

\* The members of a batch are consecutive points, and lie in its registers.
LEMMA Members ==
  ASSUME TypeOK, NEW b \in Batches, BatchOk(b)
  PROVE  /\ Len(b.members) \in Nat \ {0}
         /\ First(b) \in 1..Len(points) /\ Last(b) \in First(b)..Len(points)
         /\ Last(b) = First(b) + Len(b.members) - 1
         /\ \A k : Has(b, k) <=> k \in First(b)..Last(b)
<1>1. Len(b.members) \in Nat \ {0} /\ b.members \in Seq(Nat \ {0})
  BY DEF BatchOk, Gapless, Batches
<1>2. Len(points) \in Nat
  BY DEF TypeOK
<1>3. /\ First(b) \in 1..Len(points) /\ Last(b) \in First(b)..Len(points)
      /\ Last(b) = First(b) + Len(b.members) - 1
  BY SMTT(30), <1>1, <1>2 DEF BatchOk, Gapless, First, Last
<1>4. ASSUME NEW k \in First(b)..Last(b)  PROVE Has(b, k)
  <2>1. k - First(b) + 1 \in 1..Len(b.members)
    BY <1>1, <1>2, <1>3
  <2>2. b.members[k - First(b) + 1] = First(b) + (k - First(b) + 1) - 1
    BY <2>1 DEF BatchOk, Gapless
  <2>3. b.members[k - First(b) + 1] = k
    BY <1>2, <1>3, <2>2
  <2> QED  BY <2>1, <2>3 DEF Has
<1>5. ASSUME NEW k, Has(b, k)  PROVE k \in First(b)..Last(b)
  <2>1. PICK m \in 1..Len(b.members) : b.members[m] = k
    BY <1>5 DEF Has
  <2>2. k = First(b) + m - 1
    BY <2>1 DEF BatchOk, Gapless
  <2> QED  BY <1>1, <1>2, <1>3, <2>2
<1> QED  BY <1>1, <1>3, <1>4, <1>5

LEMMA MemberFacts ==
  ASSUME MappingAssumption, TypeOK, NEW b \in Batches, BatchOk(b), NEW k, Has(b, k)
  PROVE  /\ k \in 1..Len(points)
         /\ b.start <= points[k].address /\ End(k) <= b.start + b.quantity
         /\ \A j : Has(b, j) /\ j < k => End(j) <= points[k].address
<1>1. PICK m \in 1..Len(b.members) : b.members[m] = k
  BY DEF Has
<1>2. /\ k \in 1..Len(points) /\ k = First(b) + m - 1
      /\ b.start <= points[k].address /\ End(k) <= b.start + b.quantity
  BY <1>1 DEF BatchOk, Gapless, Disjoint
<1>3. ASSUME NEW j, Has(b, j), j < k  PROVE End(j) <= points[k].address
  <2>1. PICK n \in 1..Len(b.members) : b.members[n] = j
    BY <1>3 DEF Has
  <2>2. j = First(b) + n - 1
    BY <2>1 DEF BatchOk, Gapless
  <2>3. n < m
    BY <1>2, <1>3, <2>2, Members
  <2> QED  BY <1>1, <2>1, <2>3 DEF BatchOk, Disjoint
<1> QED  BY <1>2, <1>3

\* A point is in one batch only.
LEMMA OneBatch ==
  ASSUME TypeOK, Chained, NEW m \in 1..Len(batches), NEW n \in 1..Len(batches),
         NEW k, Has(batches[m], k), Has(batches[n], k)
  PROVE  m = n
<1>1. batches[m] \in Batches /\ batches[n] \in Batches /\ Len(batches) \in Nat
  BY DEF TypeOK
<1>2. BatchOk(batches[m]) /\ BatchOk(batches[n])
  BY DEF Chained
<1>3. /\ First(batches[m]) \in Nat /\ Last(batches[m]) \in Nat
      /\ First(batches[n]) \in Nat /\ Last(batches[n]) \in Nat
      /\ k \in First(batches[m])..Last(batches[m])
      /\ k \in First(batches[n])..Last(batches[n])
  BY <1>1, <1>2, Members
<1>4. CASE m < n
  BY <1>3, <1>4 DEF Chained
<1>5. CASE n < m
  BY <1>3, <1>5 DEF Chained
<1> QED  BY <1>1, <1>4, <1>5

\* The batch that a poller encodes a point into.
LEMMA Located ==
  ASSUME TypeOK, Chained, Covered, phase = "encode", NEW k \in 1..Len(points)
  PROVE  /\ BatchOf(k) \in 1..Len(batches)
         /\ Has(batches[BatchOf(k)], k)
         /\ \A n \in 1..Len(batches) : Has(batches[n], k) => n = BatchOf(k)
<1>1. points # <<>>
  BY DEF TypeOK
<1>2. \E n \in 1..Len(batches) : Has(batches[n], k)
  BY <1>1 DEF Covered
<1>3. BatchOf(k) \in 1..Len(batches) /\ Has(batches[BatchOf(k)], k)
  BY <1>2 DEF BatchOf, Has
<1> QED  BY <1>3, OneBatch

\* The first point of a list of points starts a batch of its own.
LEMMA FreshOk ==
  ASSUME MappingAssumption, TypeOK, Accepted, at <= Len(points)
  PROVE  /\ Fresh \in Batches /\ Fresh # NoBatch
         /\ BatchOk(Fresh) /\ First(Fresh) = at /\ Last(Fresh) = at
         /\ Has(Fresh, at)
<1>1. at \in 1..Len(points) /\ Len(points) \in Nat
  BY DEF TypeOK
<1>2. /\ Count(at) \in {1, 2} /\ points[at].address \in Nat
      /\ End(at) = points[at].address + Count(at) /\ End(at) <= Space
  BY <1>1, PointFacts
<1>3. /\ Fresh.members = <<at>> /\ Fresh.start = points[at].address
      /\ Fresh.quantity = Count(at)
  BY DEF Fresh
<1>4. Len(Fresh.members) = 1 /\ Fresh.members[1] = at
  BY <1>3
<1>5. First(Fresh) = at /\ Last(Fresh) = at
  BY <1>4 DEF First, Last
<1>6. Fresh \in Batches /\ Fresh # NoBatch
  BY <1>1, <1>2, <1>4 DEF Fresh, Batches, NoBatch
<1>7. Gapless(Fresh)
  BY <1>1, <1>3, <1>4, <1>5 DEF Gapless
<1>8. Disjoint(Fresh)
  BY <1>1, <1>2, <1>3, <1>4, <1>5 DEF Disjoint, MappingAssumption
<1> QED  BY <1>1, <1>4, <1>5, <1>6, <1>7, <1>8 DEF BatchOk, Has

\* An end that fits into the address space is the next address expected, and a
\* sum that wraps is not.
LEMMA NoWrap ==
  ASSUME MappingAssumption, TypeOK, Accepted, Sorted, current \in Batches,
         BatchOk(current), Last(current) = at - 1, at <= Len(points), Fits
  PROVE  /\ points[at].address = current.start + current.quantity
         /\ current.quantity + Count(at) <= Limit
<1> DEFINE next == current.start + current.quantity
<1>1. /\ at \in 1..Len(points) /\ at - 1 \in 1..Len(points) /\ Len(points) \in Nat
      /\ Has(current, at - 1)
  BY Members DEF TypeOK
<1>2. /\ points[at].address \in Nat /\ points[at - 1].address \in Nat
      /\ Count(at - 1) \in {1, 2}
      /\ End(at - 1) = points[at - 1].address + Count(at - 1)
  BY <1>1, PointFacts
<1>3. /\ current.start <= points[at - 1].address
      /\ points[at - 1].address <= points[at].address
  BY <1>1, MemberFacts DEF Sorted
<1>4. /\ current.start \in Nat /\ current.quantity \in Nat
      /\ current.quantity <= Limit /\ next <= Space
      /\ Limit \in Nat /\ Space \in Nat /\ Limit < Space
  BY DEF Batches, BatchOk, Disjoint, MappingAssumption
<1>5. points[at].address = next % Space /\ current.quantity + Count(at) <= Limit
  BY DEF Fits
<1>6. CASE next < Space
  <2>1. next \in 0..Space - 1 /\ Space \in Nat \ {0}
    BY <1>4, <1>6
  <2>2. next % Space = next
    BY <2>1, SmallRemainder
  <2> QED  BY <1>5, <2>2
<1>7. CASE next = Space
  <2>1. Space % Space = 0
    BY <1>4, SmallRemainder
  <2>2. points[at].address = 0
    BY <1>5, <1>7, <2>1
  <2> QED  BY <1>2, <1>3, <1>4, <1>7, <2>2
<1> QED  BY <1>4, <1>6, <1>7

\* A batch with the point that continues it.
Extended(c) ==
  LET len == Len(current.members) IN
  /\ c.start = current.start /\ c.quantity = current.quantity + Count(at)
  /\ Len(c.members) = len + 1 /\ c.members[len + 1] = at
  /\ \A m \in 1..len : c.members[m] = current.members[m]

LEMMA ExtendedOk ==
  ASSUME MappingAssumption, TypeOK, Accepted, Sorted, BatchOk(current),
         Last(current) = at - 1, at <= Len(points), Fits,
         NEW c \in Batches, Extended(c)
  PROVE  /\ BatchOk(c) /\ First(c) = First(current) /\ Last(c) = at
         /\ \A k : Has(c, k) <=> Has(current, k) \/ k = at
<1> DEFINE len == Len(current.members)
<1>1. /\ at \in 1..Len(points) /\ Len(points) \in Nat /\ current \in Batches
      /\ current.start \in Nat /\ current.quantity \in Nat
  BY DEF TypeOK, Batches
<1>2. /\ len \in Nat \ {0} /\ First(current) \in 1..Len(points)
      /\ at = First(current) + len
  BY SMTT(30), <1>1, Members
<1>3. /\ Count(at) \in {1, 2} /\ points[at].address \in Nat
      /\ End(at) = points[at].address + Count(at) /\ End(at) <= Space
  BY <1>1, PointFacts
<1>4. /\ points[at].address = current.start + current.quantity
      /\ current.quantity + Count(at) <= Limit
  BY <1>1, NoWrap
<1>5. c.start = current.start /\ c.quantity = current.quantity + Count(at)
  BY DEF Extended
<1>6. /\ Len(c.members) = len + 1 /\ c.members[len + 1] = at
      /\ \A m \in 1..len : c.members[m] = current.members[m]
  BY DEF Extended
<1>7. First(c) = First(current) /\ Last(c) = at
  BY <1>2, <1>6 DEF First, Last
<1>8. \A m \in 1..Len(c.members) : m = len + 1 \/ m \in 1..len
  BY <1>2, <1>6
<1>9. ASSUME NEW k  PROVE Has(c, k) <=> Has(current, k) \/ k = at
  <2>1. ASSUME Has(c, k)  PROVE Has(current, k) \/ k = at
    <3>1. PICK m \in 1..Len(c.members) : c.members[m] = k
      BY <2>1 DEF Has
    <3>2. CASE m = len + 1
      BY <1>6, <3>1, <3>2
    <3>3. CASE m \in 1..len
      <4>1. current.members[m] = k
        BY <1>6, <3>1, <3>3
      <4> QED  BY <3>3, <4>1 DEF Has
    <3> QED  BY <1>8, <3>2, <3>3
  <2>2. ASSUME Has(current, k)  PROVE Has(c, k)
    <3>1. PICK m \in 1..len : current.members[m] = k
      BY <2>2 DEF Has
    <3>2. c.members[m] = k /\ m \in 1..Len(c.members)
      BY SMTT(30), <1>2, <1>6, <3>1
    <3> QED  BY <3>2 DEF Has
  <2>3. Has(c, at)
    <3>1. len + 1 \in 1..Len(c.members)
      BY <1>2, <1>6
    <3> QED  BY <1>6, <3>1 DEF Has
  <2> QED  BY <2>1, <2>2, <2>3
<1>10. ASSUME NEW k, Has(current, k)
       PROVE  /\ k \in 1..Len(points) /\ Count(k) \in {1, 2}
              /\ points[k].address \in Nat /\ End(k) = points[k].address + Count(k)
              /\ current.start <= points[k].address
              /\ End(k) <= current.start + current.quantity
  BY <1>1, <1>10, MemberFacts, PointFacts
<1>11. ASSUME NEW m \in 1..len
       PROVE  /\ current.members[m] = First(current) + m - 1
              /\ c.members[m] = current.members[m] /\ Has(current, current.members[m])
              /\ m > 1 => m - 1 \in 1..len
                 /\ End(current.members[m - 1]) = points[current.members[m]].address
  <2>1. current.members[m] = First(current) + m - 1
    BY DEF BatchOk, Gapless
  <2>2. ASSUME m > 1
        PROVE  m - 1 \in 1..len
               /\ End(current.members[m - 1]) = points[current.members[m]].address
    <3>1. m \in 2..len /\ m - 1 \in 1..len
      BY <1>2, <2>2
    <3> QED  BY <3>1 DEF BatchOk, Gapless
  <2> QED  BY <1>6, <2>1, <2>2 DEF Has
<1>12. Gapless(c)
  <2>1. ASSUME NEW m \in 1..Len(c.members)
        PROVE  c.members[m] = First(c) + m - 1 /\ c.members[m] \in 1..Len(points)
    <3>1. CASE m = len + 1
      BY <1>1, <1>2, <1>6, <1>7, <3>1
    <3>2. CASE m \in 1..len
      BY <1>7, <1>10, <1>11, <3>2
    <3> QED  BY <1>8, <3>1, <3>2
  <2>2. ASSUME NEW m \in 2..Len(c.members)
        PROVE  End(c.members[m - 1]) = points[c.members[m]].address
    <3>1. m \in 1..Len(c.members) /\ m > 1
      BY <1>2, <1>6
    <3>2. CASE m \in 1..len
      <4>1. m - 1 \in 1..len
        BY <1>11, <3>1, <3>2
      <4> QED  BY <1>11, <3>1, <3>2, <4>1
    <3>3. CASE m = len + 1
      <4>1. m - 1 = len /\ len \in 1..len
        BY <1>2, <3>3
      <4>2. c.members[m - 1] = Last(current) /\ c.members[m] = at
        BY <1>6, <3>3, <4>1 DEF Last
      <4> QED  BY <1>4, <4>2 DEF BatchOk, Disjoint
    <3> QED  BY <1>8, <3>1, <3>2, <3>3
  <2>3. c.members # <<>>
    BY <1>2, <1>6
  <2> QED  BY <2>1, <2>2, <2>3 DEF Gapless
<1>13. Disjoint(c)
  <2>1. points[First(c)].address = c.start
    BY <1>5, <1>7 DEF BatchOk, Disjoint
  <2>2. /\ End(Last(c)) = c.start + c.quantity
        /\ c.quantity <= Limit /\ c.start + c.quantity <= Space
    BY <1>1, <1>3, <1>4, <1>5, <1>7
  <2>3. ASSUME NEW m \in 1..Len(c.members)
        PROVE  c.start <= points[c.members[m]].address
               /\ End(c.members[m]) <= c.start + c.quantity
    <3>1. PICK k \in 1..Len(points) :
            /\ c.members[m] = k
            /\ current.start <= points[k].address
            /\ End(k) <= current.start + current.quantity + Count(at)
      <4>1. CASE m \in 1..len
        <5>1. Has(current, current.members[m]) /\ c.members[m] = current.members[m]
          BY <1>11, <4>1
        <5>2. /\ current.members[m] \in 1..Len(points)
              /\ current.start <= points[current.members[m]].address
              /\ End(current.members[m]) \in Nat
              /\ End(current.members[m]) <= current.start + current.quantity
          BY <1>10, <5>1
        <5> QED  BY SMTT(30), <1>1, <1>3, <5>1, <5>2
      <4>2. CASE m = len + 1
        BY SMTT(30), <1>1, <1>3, <1>4, <1>6, <4>2
      <4> QED  BY <1>8, <4>1, <4>2
    <3>2. c.start <= points[k].address /\ End(k) <= c.start + c.quantity
      BY <1>1, <1>3, <1>5, <3>1
    <3> QED  BY <3>1, <3>2
  <2>4. ASSUME NEW m \in 1..Len(c.members), NEW n \in 1..Len(c.members), m < n
        PROVE  End(c.members[m]) <= points[c.members[n]].address
    <3>1. m \in 1..len
      BY <1>2, <1>6, <2>4
    <3>2. CASE n \in 1..len
      <4>1. End(current.members[m]) <= points[current.members[n]].address
        BY <2>4, <3>1, <3>2 DEF BatchOk, Disjoint
      <4> QED  BY <1>11, <3>1, <3>2, <4>1
    <3>3. CASE n = len + 1
      BY <1>4, <1>6, <1>10, <1>11, <3>1, <3>3
    <3> QED  BY <1>8, <3>2, <3>3
  <2> QED  BY <2>1, <2>2, <2>3, <2>4 DEF Disjoint
<1> QED  BY <1>7, <1>9, <1>12, <1>13 DEF BatchOk
-----------------------------------------------------------------------------
(* Every step keeps the invariant.                                          *)

LEMMA InitIInv == MappingAssumption /\ Init => IInv
<1> SUFFICES ASSUME MappingAssumption, Init  PROVE IInv
  OBVIOUS
<1>1. points \in Seq(Points)
  <2>1. PICK n \in 0..MaxPoints : points \in [1..n -> Points]
    BY DEF Init
  <2>2. n \in Nat
    BY DEF MappingAssumption
  <2> QED  BY <2>1, <2>2
<1>2. NoBatch \in Batches
  BY DEF NoBatch, Batches
<1>3. TypeOK
  BY <1>1, <1>2 DEF TypeOK, Init
<1>4. Chained /\ Checked /\ Building /\ Covered /\ Encoding /\ Kept /\ NeverThrown
  BY DEF Init, Chained, Checked, Building, Covered, Encoding, Kept, NeverThrown
<1> QED  BY <1>3, <1>4 DEF IInv

\* What every step but the ones of a phase leaves alone.
LEMMA ChainedKept ==
  ASSUME Chained, UNCHANGED <<points, batches>>
  PROVE  Chained'
  BY DEF Chained, BatchOk, Gapless, Disjoint, First, Last, End, Count

\* validatePoints().
LEMMA CheckKeeps ==
  ASSUME IInv, Reject \/ Accept
  PROVE  IInv'
<1> USE DEF IInv
<1>1. /\ phase = "check" /\ phase' \in {"rejected", "build"}
      /\ phase' = "build" => Accepted
      /\ UNCHANGED <<points, at, current, batches, sent, registers, received>>
  BY DEF Reject, Accept
<1>2. TypeOK' /\ NeverThrown' /\ Covered' /\ Encoding'
  BY <1>1 DEF TypeOK, NeverThrown, Covered, Encoding
<1>3. Chained'
  BY <1>1, ChainedKept
<1>4. /\ at = 1 /\ current = NoBatch /\ batches = <<>> /\ sent = <<>> /\ received = <<>>
  BY <1>1 DEF Checked
<1>5. Checked' /\ Kept'
  BY <1>1, <1>4 DEF Checked, Kept, Sorted, Accepted, End, Count
<1>6. Building'
  BY <1>1, <1>4 DEF Building, TypeOK
<1> QED  BY <1>2, <1>3, <1>5, <1>6

\* buildBatches() starts with a batch of the first point.
LEMMA OpenKeeps ==
  ASSUME MappingAssumption, IInv, Open
  PROVE  IInv'
<1> USE DEF IInv
<1>1. /\ phase = "build" /\ at <= Len(points) /\ current = NoBatch
      /\ current' = Fresh /\ at' = at + 1
      /\ UNCHANGED <<points, phase, batches, sent, registers, received>>
  BY DEF Open
<1>2. at = 1 /\ batches = <<>> /\ Accepted
  BY <1>1 DEF Building, Checked
<1>3. /\ Fresh \in Batches /\ Fresh # NoBatch
      /\ BatchOk(Fresh) /\ First(Fresh) = 1 /\ Last(Fresh) = 1 /\ Has(Fresh, 1)
  BY <1>1, <1>2, FreshOk
<1> DEFINE c == Fresh
<1> HIDE DEF c
<1>4. TypeOK' /\ NeverThrown' /\ Covered' /\ Encoding' /\ Kept'
  BY <1>1, <1>3 DEF TypeOK, NeverThrown, Covered, Encoding, Kept
<1>5. Chained'
  BY <1>1, ChainedKept
<1>6. Checked'
  BY <1>1 DEF Checked, Sorted, Accepted, End, Count
<1>7. Building'
  <2>1. current' = c /\ c # NoBatch /\ BatchOk(c) /\ First(c) = 1 /\ Last(c) = 1 /\ Has(c, 1)
    BY <1>1, <1>3 DEF c
  <2>2. BatchOk(current)'
    BY <1>1, <2>1 DEF BatchOk, Gapless, Disjoint, First, Last, End, Count
  <2>3. at' <= Len(points') + 1 /\ Len(batches') = 0 /\ batches' = <<>> /\ at' = 2
    BY <1>1, <1>2
  <2>4. First(current)' = 1 /\ Last(current)' = 1 /\ Has(current, 1)'
    BY <2>1 DEF First, Last, Has
  <2>5. current' # NoBatch
    BY <2>1
  <2>6. \A k \in 1..at' - 1 : Has(current, k)'
    BY <2>3, <2>4
  <2> QED  BY <2>2, <2>3, <2>4, <2>5, <2>6 DEF Building, NoBatch
<1> QED  BY <1>4, <1>5, <1>6, <1>7

\* A batch grows.
LEMMA ExtendKeeps ==
  ASSUME MappingAssumption, IInv, Extend
  PROVE  IInv'
<1> USE DEF IInv
<1> DEFINE len == Len(current.members)
           c == [current EXCEPT !.quantity = @ + Count(at), !.members = Append(@, at)]
<1>1. /\ phase = "build" /\ at <= Len(points) /\ current # NoBatch /\ Fits
      /\ current' = c /\ at' = at + 1
      /\ UNCHANGED <<points, phase, batches, sent, registers, received>>
  BY DEF Extend
<1>2. /\ BatchOk(current) /\ Last(current) = at - 1 /\ Accepted /\ Sorted
      /\ batches = <<>> => First(current) = 1
      /\ batches # <<>> => First(current) = Last(batches[Len(batches)]) + 1
      /\ \A n \in 1..Len(batches) : Last(batches[n]) < First(current)
      /\ \A k \in 1..at - 1 :
           Has(current, k) \/ \E n \in 1..Len(batches) : Has(batches[n], k)
  BY <1>1 DEF Building, Checked
<1>3. c \in Batches /\ Extended(c) /\ c # NoBatch
  <2>1. /\ at \in 1..Len(points) /\ Len(points) \in Nat /\ current \in Batches
        /\ current.start \in Nat /\ current.quantity \in Nat
        /\ current.members \in Seq(Nat \ {0})
        /\ at \in Nat \ {0}
    BY <1>1 DEF TypeOK, Batches
  <2>2. Count(at) \in Nat
    BY <2>1, <1>2, PointFacts
  <2>3. /\ c.start = current.start /\ c.quantity = current.quantity + Count(at)
        /\ c.members = Append(current.members, at)
    BY <2>1 DEF Batches
  <2>4. c \in Batches
    <3>1. current.quantity + Count(at) \in Nat /\ Append(current.members, at) \in Seq(Nat \ {0})
      BY <2>1, <2>2
    <3>2. current \in [start : Nat, quantity : Nat, members : Seq(Nat \ {0})]
      BY <2>1 DEF Batches
    <3> QED  BY <3>1, <3>2 DEF Batches
  <2>5. /\ Len(c.members) = len + 1 /\ c.members[len + 1] = at /\ len \in Nat
        /\ \A m \in 1..len : c.members[m] = current.members[m]
    BY <2>1, <2>3
  <2> HIDE DEF c
  <2>6. c # NoBatch
    <3>1. NoBatch.members = <<>>
      BY DEF NoBatch
    <3>2. Len(c.members) # 0
      BY <2>5
    <3> QED  BY <3>1, <3>2
  <2> QED  BY <2>3, <2>4, <2>5, <2>6 DEF Extended
<1> HIDE DEF c
<1>4. /\ BatchOk(c) /\ First(c) = First(current) /\ Last(c) = at
      /\ \A k : Has(c, k) <=> Has(current, k) \/ k = at
  BY <1>1, <1>2, <1>3, ExtendedOk
<1>5. TypeOK' /\ NeverThrown' /\ Covered' /\ Encoding' /\ Kept'
  BY <1>1, <1>3 DEF TypeOK, NeverThrown, Covered, Encoding, Kept
<1>6. Chained'
  BY <1>1, ChainedKept
<1>7. Checked'
  BY <1>1 DEF Checked, Sorted, Accepted, End, Count
<1>8. Building'
  <2>1. BatchOk(current)'
    BY <1>1, <1>4 DEF BatchOk, Gapless, Disjoint, First, Last, End, Count
  <2>2. /\ First(current)' = First(c) /\ Last(current)' = at
        /\ \A k : Has(current, k)' <=> Has(c, k)
        /\ \A n \in 1..Len(batches) : Last(batches[n])' = Last(batches[n])
        /\ \A k : \A n \in 1..Len(batches) : Has(batches[n], k)' <=> Has(batches[n], k)
    BY <1>1, <1>4 DEF First, Last, Has
  <2>3. /\ batches' = <<>> => First(current)' = 1
        /\ batches' # <<>> => First(current)' = Last(batches[Len(batches)])' + 1
        /\ \A n \in 1..Len(batches') : Last(batches[n])' < First(current)'
    BY <1>1, <1>2, <1>4 DEF First, Last
  <2>4. at' <= Len(points') + 1 /\ Last(current)' = at' - 1 /\ current' # NoBatch
    BY <1>1, <1>3, <2>2 DEF TypeOK
  <2>5. ASSUME NEW k \in 1..at' - 1
        PROVE  Has(current, k)' \/ \E n \in 1..Len(batches') : Has(batches[n], k)'
    <3>1. k \in 1..at - 1 \/ k = at
      BY <1>1 DEF TypeOK
    <3> QED  BY <1>1, <1>2, <1>4, <2>2, <3>1
  <2> QED  BY <2>1, <2>3, <2>4, <2>5 DEF Building, NoBatch
<1> QED  BY <1>5, <1>6, <1>7, <1>8

\* A batch that is done joins the others.
LEMMA ChainedAppend ==
  ASSUME TypeOK, Chained, current \in Batches, BatchOk(current),
         batches = <<>> => First(current) = 1,
         batches # <<>> => First(current) = Last(batches[Len(batches)]) + 1,
         \A n \in 1..Len(batches) : Last(batches[n]) < First(current),
         UNCHANGED points, batches' = Append(batches, current)
  PROVE  /\ Chained' /\ batches' \in Seq(Batches)
         /\ Len(batches') = Len(batches) + 1 /\ batches'[Len(batches')] = current
         /\ \A n \in 1..Len(batches) : batches'[n] = batches[n]
<1> DEFINE len == Len(batches)
<1>1. /\ len \in Nat /\ batches' \in Seq(Batches) /\ Len(batches') = len + 1
      /\ batches'[len + 1] = current /\ \A n \in 1..len : batches'[n] = batches[n]
  BY DEF TypeOK
<1>2. \A n \in 1..Len(batches') : n = len + 1 \/ n \in 1..len
  BY <1>1
<1>3. ASSUME NEW n \in 1..Len(batches')  PROVE BatchOk(batches'[n])
  BY <1>1, <1>2 DEF Chained
<1>4. ASSUME NEW m \in 1..Len(batches'), NEW n \in 1..Len(batches'), m < n
      PROVE  Last(batches'[m]) < First(batches'[n])
  <2>1. m \in 1..len
    BY <1>1, <1>4
  <2>2. CASE n = len + 1
    BY <1>1, <2>1, <2>2
  <2>3. CASE n \in 1..len
    BY <1>1, <1>4, <2>1, <2>3 DEF Chained
  <2> QED  BY <1>2, <2>2, <2>3
<1>5. ASSUME NEW n \in 2..Len(batches')
      PROVE  First(batches'[n]) = Last(batches'[n - 1]) + 1
  <2>1. CASE n = len + 1
    <3>1. len # 0 /\ n - 1 = len /\ len \in 1..len /\ batches # <<>>
      BY <1>1, <2>1
    <3> QED  BY <1>1, <2>1, <3>1
  <2>2. CASE n \in 2..len
    <3>1. n - 1 \in 1..len /\ n \in 1..len
      BY <1>1, <2>2
    <3> QED  BY <1>1, <2>2, <3>1 DEF Chained
  <2> QED  BY <1>1, <2>1, <2>2
<1>6. batches' # <<>> /\ First(batches'[1]) = 1
  <2>1. CASE len = 0
    <3>1. batches = <<>> /\ batches'[1] = current
      BY <1>1, <2>1 DEF TypeOK
    <3> QED  BY <1>1, <3>1
  <2>2. CASE len # 0
    <3>1. batches # <<>> /\ 1 \in 1..len
      BY <1>1, <2>2
    <3> QED  BY <1>1, <3>1 DEF Chained
  <2> QED  BY <1>1, <2>1, <2>2
<1>7. \A n \in 1..Len(batches') : BatchOk(batches[n])'
  <2> TAKE n \in 1..Len(batches')
  <2>1. BatchOk(batches'[n]) /\ points' = points
    BY <1>3
  <2>2. Gapless(batches[n])'
    BY <2>1, Zenon DEF BatchOk, Gapless, First, End, Count
  <2>3. Disjoint(batches[n])'
    BY <2>1, Zenon DEF BatchOk, Disjoint, First, Last, End, Count
  <2> QED  BY <2>2, <2>3 DEF BatchOk
<1>8. \A n \in 1..Len(batches') :
        First(batches[n])' = First(batches'[n]) /\ Last(batches[n])' = Last(batches'[n])
  BY DEF First, Last
<1>9. Chained'
  BY <1>4, <1>5, <1>6, <1>7 DEF Chained, First, Last
<1> QED  BY <1>1, <1>9

\* A batch is complete, and another starts.
LEMMA FlushKeeps ==
  ASSUME MappingAssumption, IInv, Flush
  PROVE  IInv'
<1> USE DEF IInv
<1> DEFINE c == Fresh
           len == Len(batches)
<1>1. /\ phase = "build" /\ at <= Len(points) /\ current # NoBatch
      /\ batches' = Append(batches, current) /\ current' = c /\ at' = at + 1
      /\ UNCHANGED <<points, phase, sent, registers, received>>
  BY DEF Flush
<1>2. /\ BatchOk(current) /\ Last(current) = at - 1 /\ Accepted /\ Sorted
      /\ batches = <<>> => First(current) = 1
      /\ batches # <<>> => First(current) = Last(batches[Len(batches)]) + 1
      /\ \A n \in 1..len : Last(batches[n]) < First(current)
      /\ \A k \in 1..at - 1 :
           Has(current, k) \/ \E n \in 1..len : Has(batches[n], k)
  BY <1>1 DEF Building, Checked
<1>3. /\ c \in Batches /\ c # NoBatch /\ BatchOk(c) /\ First(c) = at /\ Last(c) = at
      /\ Has(c, at)
  BY <1>1, <1>2, FreshOk
<1> HIDE DEF c
<1>4. /\ at \in Nat \ {0} /\ Len(points) \in Nat /\ len \in Nat /\ current \in Batches
      /\ \A n \in 1..len : batches[n] \in Batches /\ BatchOk(batches[n])
  BY DEF TypeOK, Chained
<1>5. First(current) \in Nat /\ First(current) <= at - 1
  BY <1>2, <1>4, Members
<1>6. /\ Chained' /\ batches' \in Seq(Batches)
      /\ Len(batches') = len + 1 /\ batches'[len + 1] = current
      /\ \A n \in 1..len : batches'[n] = batches[n]
  BY <1>1, <1>2, <1>4, ChainedAppend
<1>7. TypeOK' /\ NeverThrown' /\ Covered' /\ Encoding' /\ Kept'
  BY <1>1, <1>3, <1>4, <1>6 DEF TypeOK, NeverThrown, Covered, Encoding, Kept
<1>8. Checked'
  BY <1>1 DEF Checked, Sorted, Accepted, End, Count
<1>9. Building'
  <2>1. BatchOk(current)'
    <3>1. BatchOk(c) /\ points' = points /\ current' = c
      BY <1>1, <1>3
    <3> QED  BY <3>1, Zenon DEF BatchOk, Gapless, Disjoint, First, Last, End, Count
  <2>2. /\ First(current)' = at /\ Last(current)' = at' - 1 /\ Has(current', at)
        /\ current' # NoBatch
    BY <1>1, <1>3, <1>4 DEF First, Last
  <2>3. First(current)' = Last(batches[Len(batches)])' + 1 /\ batches' # <<>>
    <3>1. Last(batches[Len(batches)])' = Last(current)
      BY <1>6 DEF Last
    <3> QED  BY <1>2, <1>4, <1>6, <2>2, <3>1
  <2>4. ASSUME NEW n \in 1..Len(batches')  PROVE Last(batches[n])' < First(current)'
    <3>1. CASE n \in 1..len
      <4>1. Last(batches[n])' = Last(batches[n]) /\ Last(batches[n]) < First(current)
        BY <1>2, <1>6, <3>1 DEF Last
      <4>2. Last(batches[n]) \in Nat
        BY <1>4, <3>1, Members
      <4> QED  BY <1>4, <1>5, <2>2, <4>1, <4>2
    <3>2. CASE n = len + 1
      <4>1. Last(batches[n])' = Last(current)
        BY <1>6, <3>2 DEF Last
      <4> QED  BY <1>2, <1>4, <2>2, <4>1
    <3> QED  BY <1>4, <1>6, <3>1, <3>2
  <2>5. ASSUME NEW k \in 1..at' - 1
        PROVE  Has(current, k)' \/ \E n \in 1..Len(batches') : Has(batches[n], k)'
    <3>1. CASE k = at
      BY <2>2, <3>1 DEF Has
    <3>2. CASE k \in 1..at - 1
      <4>1. CASE Has(current, k)
        <5>1. Has(batches'[len + 1], k) /\ len + 1 \in 1..Len(batches')
          BY <1>4, <1>6, <4>1
        <5> QED  BY <5>1 DEF Has
      <4>2. ASSUME NEW n \in 1..len, Has(batches[n], k)
            PROVE  \E m \in 1..Len(batches') : Has(batches[m], k)'
        <5>1. Has(batches[n], k)' /\ n \in 1..Len(batches')
          BY <1>4, <1>6, <4>2 DEF Has
        <5> QED  BY <5>1
      <4> QED  BY <1>2, <3>2, <4>1, <4>2
    <3> QED  BY <1>1, <1>4, <3>1, <3>2
  <2>6. at' <= Len(points') + 1
    BY <1>1, <1>4
  <2> QED  BY <2>1, <2>2, <2>3, <2>4, <2>5, <2>6 DEF Building, NoBatch
<1> QED  BY <1>6, <1>7, <1>8, <1>9

\* The last batch is complete, and the pollers turn to the first.
LEMMA BuiltKeeps ==
  ASSUME MappingAssumption, IInv, Built
  PROVE  IInv'
<1> USE DEF IInv
<1>1. /\ phase = "build" /\ at > Len(points)
      /\ current' = NoBatch /\ at' = 1 /\ UNCHANGED <<points, sent, received>>
      /\ phase' = IF points = <<>> THEN "done" ELSE "encode"
      /\ batches' = IF current = NoBatch THEN batches ELSE Append(batches, current)
      /\ points # <<>> => registers' = Cleared(batches'[1].quantity)
  BY DEF Built
<1>2. /\ at \in Nat \ {0} /\ Len(points) \in Nat /\ at = Len(points) + 1
      /\ sent = <<>> /\ received = <<>> /\ Sorted /\ Accepted
  BY <1>1 DEF TypeOK, Building, Checked
<1>3. Checked'
  BY <1>1, <1>2 DEF Checked, Sorted, Accepted, End, Count
<1>4. NoBatch \in Batches
  BY DEF NoBatch, Batches
<1>5. CASE current = NoBatch
  <2>1. at = 1 /\ batches = <<>> /\ points = <<>>
    BY <1>1, <1>2, <1>5 DEF Building, TypeOK
  <2>2. phase' = "done" /\ batches' = batches
    BY <1>1, <1>5, <2>1
  <2>3. TypeOK' /\ NeverThrown' /\ Building' /\ Covered' /\ Encoding' /\ Kept'
    BY <1>1, <1>2, <1>4, <2>1, <2>2 DEF TypeOK, NeverThrown, Building, Covered, Encoding, Kept
  <2>4. Chained'
    BY <1>1, <2>2, ChainedKept
  <2> QED  BY <1>3, <2>3, <2>4
<1>6. CASE current # NoBatch
  <2> DEFINE len == Len(batches)
  <2>1. /\ BatchOk(current) /\ Last(current) = at - 1
        /\ batches = <<>> => First(current) = 1
        /\ batches # <<>> => First(current) = Last(batches[Len(batches)]) + 1
        /\ \A n \in 1..len : Last(batches[n]) < First(current)
        /\ \A k \in 1..at - 1 :
             Has(current, k) \/ \E n \in 1..len : Has(batches[n], k)
    BY <1>1, <1>6 DEF Building
  <2>2. current \in Batches /\ len \in Nat
    BY DEF TypeOK
  <2>3. First(current) \in 1..Len(points)
    BY <2>1, <2>2, Members
  <2>4. points # <<>> /\ phase' = "encode"
    BY <1>1, <1>2, <2>3
  <2>5. /\ Chained' /\ batches' \in Seq(Batches)
        /\ Len(batches') = len + 1 /\ batches'[len + 1] = current
        /\ \A n \in 1..len : batches'[n] = batches[n]
    BY <1>1, <1>6, <2>1, <2>2, ChainedAppend
  <2>6. TypeOK' /\ NeverThrown' /\ Building' /\ Kept'
    BY <1>1, <1>2, <1>4, <2>4, <2>5 DEF TypeOK, NeverThrown, Building, Kept
  <2>7. Covered'
    <3>1. Last(batches[Len(batches)])' = Len(points')
      BY <1>1, <1>2, <2>1, <2>5 DEF Last
    <3>2. batches' # <<>>
      BY <2>2, <2>5
    <3>3. ASSUME NEW k \in 1..Len(points)
          PROVE  \E n \in 1..Len(batches') : Has(batches[n], k)'
      <4>1. CASE Has(current, k)
        <5>1. Has(batches'[len + 1], k) /\ len + 1 \in 1..Len(batches')
          BY <2>2, <2>5, <4>1
        <5> QED  BY <5>1 DEF Has
      <4>2. ASSUME NEW n \in 1..len, Has(batches[n], k)
            PROVE  \E m \in 1..Len(batches') : Has(batches[m], k)'
        <5>1. Has(batches[n], k)' /\ n \in 1..Len(batches')
          BY <2>2, <2>5, <4>2 DEF Has
        <5> QED  BY <5>1
      <4> QED  BY <1>2, <2>1, <4>1, <4>2
    <3> QED  BY <1>1, <3>1, <3>2, <3>3 DEF Covered
  <2>8. /\ First(batches'[1]) = 1
        /\ \A n \in 1..Len(batches') : batches'[n] \in Batches /\ BatchOk(batches'[n])
        /\ \A n \in 1..Len(batches') : n > 1 => Last(batches'[1]) < First(batches'[n])
    <3>1. 1 \in 1..Len(batches') /\ batches' # <<>>
      BY <2>2, <2>5
    <3>2. First(batches'[1]) = 1
      BY <2>5, <3>1 DEF Chained, First
    <3>3. ASSUME NEW n \in 1..Len(batches')
          PROVE  batches'[n] \in Batches /\ BatchOk(batches'[n])
      <4>1. n \in 1..len \/ n = len + 1
        BY <2>2, <2>5
      <4> QED  BY <2>1, <2>2, <2>5, <4>1 DEF TypeOK, Chained
    <3>4. ASSUME NEW n \in 1..Len(batches'), n > 1
          PROVE  Last(batches'[1]) < First(batches'[n])
      BY <2>5, <3>1, <3>4 DEF Chained, First, Last
    <3> QED  BY <3>2, <3>3, <3>4
  <2>9. ASSUME NEW n \in 1..Len(batches'), Has(batches'[n], 1)  PROVE n = 1
    <3>1. /\ First(batches'[n]) \in Nat /\ First(batches'[n]) <= 1
          /\ Last(batches'[1]) \in Nat /\ Last(batches'[1]) >= 1
      <4>1. 1 \in 1..Len(batches')
        BY <2>2, <2>5
      <4>2. First(batches'[n]) \in Nat /\ 1 \in First(batches'[n])..Last(batches'[n])
        BY <2>8, <2>9, Members
      <4>3. First(batches'[1]) \in Nat /\ Last(batches'[1]) \in First(batches'[1])..Len(points)
        BY <2>8, <4>1, Members
      <4> QED  BY <1>2, <2>8, <4>2, <4>3
    <3> QED  BY <2>2, <2>5, <2>8, <3>1
  <2>10. Encoding'
    <3>1. at' <= Len(points') /\ Len(sent') = 0 /\ Len(received') = 0
      BY <1>1, <1>2, <2>3
    <3>2. DOMAIN registers' = 0..batches'[1].quantity - 1
      BY <1>1, <2>4 DEF Cleared
    <3>3. First(batches'[1]) = 1
      BY <2>8
    <3>4. ASSUME NEW n \in 1..Len(batches'), Has(batches[n], at)'  PROVE Assembled(batches[n])'
      <4>1. n = 1
        BY <1>1, <2>9, <3>4 DEF Has
      <4> QED  BY <3>1, <3>2, <3>3, <4>1 DEF Assembled, First
    <3> QED  BY <1>1, <3>1, <3>4 DEF Encoding
  <2> QED  BY <1>3, <2>5, <2>6, <2>7, <2>10
<1> QED  BY <1>5, <1>6

\* Where the poller is while it assembles a request: the batch of the point at hand,
\* in whose registers that point lies.
LEMMA AtHand ==
  ASSUME MappingAssumption, IInv, phase = "encode", NEW b, b = batches[BatchOf(at)]
  PROVE  /\ at \in 1..Len(points) /\ Len(points) \in Nat /\ Accepted /\ points # <<>>
         /\ b \in Batches /\ BatchOk(b) /\ Has(b, at) /\ Assembled(b)
         /\ First(b) \in 1..at /\ Last(b) \in at..Len(points)
         /\ \A n \in 1..Len(batches) : Has(batches[n], at) => batches[n] = b
         /\ InBounds(at)
<1> USE DEF IInv
<1>1. at \in 1..Len(points) /\ Len(points) \in Nat /\ Accepted /\ points # <<>>
  BY DEF TypeOK, Encoding, Checked
<1>2. /\ BatchOf(at) \in 1..Len(batches) /\ Has(b, at)
      /\ \A n \in 1..Len(batches) : Has(batches[n], at) => n = BatchOf(at)
  BY <1>1, Located
<1>3. b \in Batches /\ BatchOk(b) /\ Assembled(b)
  BY <1>2 DEF TypeOK, Chained, Encoding
<1>4. First(b) \in 1..at /\ Last(b) \in at..Len(points)
  <2>1. /\ First(b) \in 1..Len(points) /\ Last(b) \in First(b)..Len(points)
        /\ at \in First(b)..Last(b)
    BY <1>2, <1>3, Members
  <2> QED  BY <1>1, <2>1
<1>5. InBounds(at)
  <2>1. b.start <= points[at].address /\ End(at) <= b.start + b.quantity
    BY <1>2, <1>3, MemberFacts
  <2>2. /\ Count(at) \in {1, 2} /\ points[at].address \in Nat
        /\ End(at) = points[at].address + Count(at)
    BY <1>1, PointFacts
  <2>3. b.start \in Nat /\ b.quantity \in Nat
    BY <1>3 DEF Batches
  <2>4. Offset(at) = points[at].address - b.start
    BY DEF Offset
  <2>5. Offset(at) \in 0..b.quantity - 1 /\ Offset(at) + Count(at) - 1 \in 0..b.quantity - 1
    BY <2>1, <2>2, <2>3, <2>4
  <2> QED  BY <1>3, <2>5 DEF InBounds, Assembled
<1> QED  BY <1>1, <1>2, <1>3, <1>4, <1>5

\* What a step within the encoding leaves alone.
LEMMA EncodingRest ==
  ASSUME IInv, phase = "encode", phase' = "encode", UNCHANGED <<points, current, batches>>
  PROVE  Chained' /\ Checked' /\ Building' /\ Covered' /\ NeverThrown'
<1> USE DEF IInv
<1>1. Chained'
  BY ChainedKept
<1>2. Checked' /\ Building' /\ NeverThrown'
  BY DEF Checked, Building, NeverThrown, Sorted, Accepted, End, Count
<1>3. Covered'
  BY DEF Covered, Last, Has
<1> QED  BY <1>1, <1>2, <1>3

\* encodeModbusPointValue() of a point writes the registers of that point, and those
\* are the registers of no other.
LEMMA EncodeKeeps ==
  ASSUME MappingAssumption, IInv, Encode
  PROVE  IInv'
<1> USE DEF IInv
<1> DEFINE b == batches[BatchOf(at)]
<1>1. phase = "encode" /\ at \notin DOMAIN sent /\ UNCHANGED <<points, at, current, batches, received>>
  BY DEF Encode
<1>2. /\ at \in 1..Len(points) /\ Len(points) \in Nat /\ Accepted /\ points # <<>>
      /\ b \in Batches /\ BatchOk(b) /\ Has(b, at) /\ Assembled(b)
      /\ First(b) \in 1..at /\ Last(b) \in at..Len(points)
      /\ \A n \in 1..Len(batches) : Has(batches[n], at) => batches[n] = b
      /\ InBounds(at)
  BY <1>1, AtHand
<1>3. Offset(at) = points[at].address - b.start
  BY DEF Offset
<1>4. PICK v \in Value \cap ValueRange(points[at].kind) :
        /\ sent' = Append(sent, v) /\ phase' = "encode"
        /\ registers' = [o \in DOMAIN registers |->
             IF o \in Offset(at)..Offset(at) + Count(at) - 1
             THEN Words(points[at], v)[o - Offset(at) + 1] ELSE registers[o]]
  BY <1>1, <1>2 DEF Encode
<1> HIDE DEF b
<1>5. /\ sent \in Seq(Int) /\ Len(sent) = at - 1 /\ v \in Int
      /\ sent' \in Seq(Int) /\ Len(sent') = at /\ sent'[at] = v
      /\ \A k \in 1..at - 1 : sent'[k] = sent[k]
  <2>1. sent \in Seq(Int) /\ v \in Int
    BY <1>4 DEF TypeOK, MappingAssumption
  <2>2. Len(sent) = at - 1
    BY <1>1, <1>2, <2>1 DEF Encoding
  <2> QED  BY <1>2, <1>4, <2>1, <2>2
<1>6. Chained' /\ Checked' /\ Building' /\ Covered' /\ NeverThrown'
  BY <1>1, <1>4, EncodingRest
<1>7. TypeOK'
  BY <1>1, <1>4, <1>5 DEF TypeOK
<1>8. Kept'
  BY <1>1, <1>2, <1>4, <1>5 DEF Kept, TypeOK
<1>9. /\ DOMAIN registers = 0..b.quantity - 1 /\ DOMAIN registers' = 0..b.quantity - 1
      /\ Len(received) = First(b) - 1
      /\ \A k \in First(b)..at - 1 : \A w \in 1..Count(k) :
           registers[points[k].address - b.start + w - 1] = Words(points[k], sent[k])[w]
  BY <1>2, <1>4, <1>5 DEF Assembled
<1>10. /\ b.start \in Nat /\ b.quantity \in Nat /\ Count(at) \in {1, 2}
       /\ points[at].address \in Nat /\ End(at) = points[at].address + Count(at)
       /\ b.start <= points[at].address /\ End(at) <= b.start + b.quantity
  BY <1>2, PointFacts, MemberFacts DEF Batches
<1>11. ASSUME NEW k \in First(b)..at, NEW w \in 1..Count(k)
       PROVE  registers'[points[k].address - b.start + w - 1] = Words(points[k], sent'[k])[w]
  <2> DEFINE o == points[k].address - b.start + w - 1
  <2>1. CASE k = at
    <3>1. o \in Offset(at)..Offset(at) + Count(at) - 1 /\ o - Offset(at) + 1 = w
          /\ o \in 0..b.quantity - 1
      BY <1>3, <1>10, <2>1
    <3>2. registers'[o] = Words(points[at], v)[o - Offset(at) + 1]
      BY <1>4, <1>9, <3>1
    <3> QED  BY <1>5, <2>1, <3>1, <3>2
  <2>2. CASE k # at
    <3>1. k \in First(b)..at - 1 /\ k \in 1..at - 1
      BY <1>2, <2>2
    <3>2. Has(b, k) /\ k < at
      BY <1>2, <3>1, Members
    <3>3. /\ k \in 1..Len(points) /\ End(k) <= points[at].address
          /\ b.start <= points[k].address /\ End(k) <= b.start + b.quantity
      BY <1>2, <3>2, MemberFacts
    <3>4. /\ Count(k) \in {1, 2} /\ points[k].address \in Nat
          /\ End(k) = points[k].address + Count(k)
      BY <1>2, <3>3, PointFacts
    <3>5. o \in 0..b.quantity - 1 /\ o < Offset(at) /\ Offset(at) \in Int
      <4>1. w \in Nat \ {0} /\ points[k].address + w <= End(k)
        BY <3>4
      <4>2. o \in Int /\ o >= 0
        BY <1>10, <3>3, <3>4, <4>1
      <4>3. o <= b.quantity - 1
        <5>1. End(k) \in Int /\ End(k) <= b.start + b.quantity
          BY <3>3, <3>4
        <5>2. points[k].address + w <= b.start + b.quantity
          BY <1>10, <3>4, <4>1, <5>1
        <5> QED  BY <1>10, <3>4, <4>1, <5>2
      <4>4. o < Offset(at) /\ Offset(at) \in Int
        BY SMTT(30), <1>3, <1>10, <3>3, <3>4, <4>1
      <4> QED  BY <1>10, <4>2, <4>3, <4>4
    <3>6. registers'[o] = registers[o]
      BY <1>4, <1>9, <1>10, <3>5
    <3> QED  BY <1>5, <1>9, <3>1, <3>6
  <2> QED  BY <2>1, <2>2
<1>12. Encoding'
  <2>1. ASSUME NEW k \in 1..at  PROVE sent'[k] \in ValueRange(points[k].kind)
    <3>1. k = at \/ k \in 1..at - 1
      BY <1>2
    <3> QED  BY <1>1, <1>4, <1>5, <3>1 DEF Encoding
  <2>2. ASSUME NEW n \in 1..Len(batches), Has(batches[n], at)
        PROVE  /\ DOMAIN registers' = 0..batches[n].quantity - 1
               /\ Len(received) = First(batches[n]) - 1
               /\ \A k \in First(batches[n])..at : \A w \in 1..Count(k) :
                    registers'[points[k].address - batches[n].start + w - 1] =
                      Words(points[k], sent'[k])[w]
    <3>1. batches[n] = b
      BY <1>2, <2>2
    <3> QED  BY <1>9, <1>11, <3>1
  <2>3. \A k : Count(k)' = Count(k)
    BY <1>1 DEF Count
  <2>4. at' <= Len(points') /\ Len(sent') \in {at' - 1, at'}
    BY <1>1, <1>2, <1>5
  <2> QED
    BY <1>1, <1>5, <2>1, <2>2, <2>3, <2>4 DEF Encoding, Assembled, First, Has
<1> QED  BY <1>6, <1>7, <1>8, <1>12

\* The points of a batch are encoded one after the other.
LEMMA NextPointKeeps ==
  ASSUME MappingAssumption, IInv, NextPoint
  PROVE  IInv'
<1> USE DEF IInv
<1> DEFINE b == batches[BatchOf(at)]
<1>1. /\ phase = "encode" /\ phase' = "encode" /\ at \in DOMAIN sent /\ at' = at + 1
      /\ at < Len(points) /\ BatchOf(at + 1) = BatchOf(at)
      /\ UNCHANGED <<points, current, batches, sent, registers, received>>
  BY DEF NextPoint, LastOfBatch
<1>2. at \in 1..Len(points) /\ Len(points) \in Nat /\ Assembled(b)
  BY <1>1, AtHand
<1>3. /\ at + 1 \in 1..Len(points)
      /\ \A n \in 1..Len(batches) : Has(batches[n], at + 1) => n = BatchOf(at)
  <2>1. at + 1 \in 1..Len(points)
    BY <1>1, <1>2
  <2> QED  BY <1>1, <2>1, Located
<1> HIDE DEF b
<1>4. Len(sent) = at
  BY <1>1, <1>2 DEF Encoding, TypeOK
<1>5. Chained' /\ Checked' /\ Building' /\ Covered' /\ NeverThrown'
  BY <1>1, EncodingRest
<1>6. TypeOK' /\ Kept'
  BY <1>1, <1>2 DEF TypeOK, Kept
<1>7. Encoding'
  <2>1. ASSUME NEW n \in 1..Len(batches'), Has(batches[n], at)'
        PROVE  Assembled(batches[n])'
    <3>1. Has(batches[n], at + 1)
      BY <1>1, <2>1 DEF Has
    <3>2. Assembled(batches[n])
      BY <1>1, <1>2, <1>3, <3>1 DEF b
    <3> QED  BY <1>1, <3>2, Zenon DEF Assembled, First, Count
  <2>2. \A k \in 1..Len(sent') : sent'[k] \in ValueRange(points'[k].kind)
    BY <1>1 DEF Encoding
  <2>3. at' <= Len(points') /\ Len(sent') \in {at' - 1, at'}
    BY <1>1, <1>2, <1>4
  <2> QED  BY <2>1, <2>2, <2>3 DEF Encoding
<1> QED  BY <1>5, <1>6, <1>7

\* The batch is complete, and decodeModbusPointValue() gives every point of it the
\* value that it was given.
LEMMA DecodeKeeps ==
  ASSUME MappingAssumption, IInv, Decode
  PROVE  IInv'
<1> USE DEF IInv
<1> DEFINE b == batches[BatchOf(at)]
           members == b.members
           words(k) == [w \in 1..Count(k) |-> registers[Offset(k) + w - 1]]
           values == [m \in 1..Len(members) |-> ValueOf(points[members[m]], words(members[m]))]
<1>1. /\ phase = "encode" /\ at \in DOMAIN sent /\ LastOfBatch /\ at' = at + 1
      /\ UNCHANGED <<points, current, batches, sent>>
      /\ received' = received \o values
      /\ phase' = IF at = Len(points) THEN "done" ELSE "encode"
      /\ at # Len(points) => registers' = Cleared(batches[BatchOf(at + 1)].quantity)
  BY DEF Decode
<1>2. /\ at \in 1..Len(points) /\ Len(points) \in Nat /\ Accepted /\ points # <<>>
      /\ b \in Batches /\ BatchOk(b) /\ Has(b, at) /\ Assembled(b)
      /\ First(b) \in 1..at /\ Last(b) \in at..Len(points)
  BY <1>1, AtHand
<1>3. /\ sent \in Seq(Int) /\ received \in Seq(Int) /\ Len(sent) = at
      /\ Len(received) = First(b) - 1
      /\ \A k \in 1..at : sent[k] \in ValueRange(points[k].kind) /\ sent[k] \in Int
  BY SMTT(30), <1>1, <1>2 DEF Encoding, TypeOK, Assembled
<1>4. BatchOf(at) \in 1..Len(batches)
  BY <1>1, <1>2, Located
<1>5. at = Last(b)
  <2> SUFFICES ASSUME at < Last(b)  PROVE FALSE
    BY <1>2
  <2>1. at < Len(points) /\ at + 1 \in 1..Len(points) /\ at + 1 \in First(b)..Last(b)
    BY <1>2
  <2>2. Has(b, at + 1)
    BY <1>2, <2>1, Members
  <2>3. BatchOf(at + 1) = BatchOf(at)
    BY <1>1, <1>4, <2>1, <2>2, Located
  <2> QED  BY <1>1, <2>1, <2>3 DEF LastOfBatch
<1>6. /\ Len(members) = at - First(b) + 1
      /\ \A m \in 1..Len(members) : members[m] = First(b) + m - 1
  <2>1. Last(b) = First(b) + Len(members) - 1 /\ Len(members) \in Nat
    BY <1>2, Members
  <2>2. Len(members) = at - First(b) + 1
    BY <1>2, <1>5, <2>1
  <2>3. \A m \in 1..Len(members) : members[m] = First(b) + m - 1
    BY <1>2 DEF BatchOk, Gapless
  <2> QED  BY <2>2, <2>3
<1>7. ASSUME NEW m \in 1..Len(members)
      PROVE  /\ members[m] = First(b) + m - 1 /\ members[m] \in 1..at
             /\ ValueOf(points[members[m]], words(members[m])) = sent[members[m]]
  <2> DEFINE k == members[m]
  <2>1. k = First(b) + m - 1 /\ k \in First(b)..at /\ k \in 1..at /\ k \in 1..Len(points)
    <3>1. k = First(b) + m - 1 /\ m \in 1..at - First(b) + 1
      BY <1>6
    <3>2. First(b) \in 1..at /\ at \in 1..Len(points)
      BY <1>2
    <3> HIDE DEF k, b
    <3> QED  BY <3>1, <3>2
  <2>2. BatchOf(k) = BatchOf(at)
    <3>1. Has(b, k)
      BY DEF Has
    <3> QED  BY <1>1, <1>4, <2>1, <3>1, Located
  <2>3. Offset(k) = points[k].address - b.start
    BY <2>2 DEF Offset
  <2>4. Count(k) = RegisterCount(points[k].kind) /\ points[k] \in Points
    BY <1>2, <2>1, PointFacts DEF Count
  <2>5. ASSUME NEW w \in 1..RegisterCount(points[k].kind)
        PROVE  words(k)[w] = Words(points[k], sent[k])[w]
    <3>1. words(k)[w] = registers[points[k].address - b.start + w - 1]
      BY <2>3, <2>4
    <3>2. k \in First(b)..Len(sent) /\ w \in 1..Count(k)
      BY <1>3, <2>1, <2>4
    <3> HIDE DEF words, k, b
    <3> QED  BY <1>2, <3>1, <3>2 DEF Assembled
  <2>6. sent[k] \in ValueRange(points[k].kind)
    BY <1>3, <2>1
  <2> HIDE DEF words, k
  <2>7. ValueOf(points[k], words(k)) = sent[k]
    BY <2>4, <2>5, <2>6, WordsRoundTrip
  <2> QED  BY <2>1, <2>7 DEF k
<1> HIDE DEF words
<1>8. /\ values \in Seq(Int) /\ Len(values) = at - First(b) + 1
      /\ \A m \in 1..Len(values) : values[m] = sent[First(b) + m - 1]
  <2>1. values = [m \in 1..Len(members) |-> sent[First(b) + m - 1]]
    BY <1>7
  <2>2. \A m \in 1..Len(members) : sent[First(b) + m - 1] \in Int
    BY <1>2, <1>3, <1>6
  <2>3. Len(members) \in Nat
    BY <1>2, <1>6
  <2> HIDE DEF values, members
  <2> QED  BY SMTT(30), <1>2, <1>6, <2>1, <2>2, <2>3
<1> HIDE DEF values, members, b
<1>9. /\ received' \in Seq(Int) /\ Len(received') = at
      /\ \A i \in 1..at : received'[i] = sent[i]
  <2>1. /\ received' \in Seq(Int) /\ Len(received') = Len(received) + Len(values)
        /\ \A i \in 1..Len(received) + Len(values) :
             received'[i] = IF i <= Len(received) THEN received[i]
                                                  ELSE values[i - Len(received)]
    BY <1>1, <1>3, <1>8, ConcatProperties
  <2>2. Len(received') = at /\ Len(received) + Len(values) = at
    BY <1>2, <1>3, <1>8, <2>1
  <2>3. ASSUME NEW i \in 1..at  PROVE received'[i] = sent[i]
    <3>1. CASE i <= Len(received)
      BY <1>3, <2>1, <2>2, <3>1 DEF Kept
    <3>2. CASE i > Len(received)
      <4> DEFINE j == i - Len(received)
      <4>1. Len(received) = First(b) - 1 /\ Len(values) = at - First(b) + 1
            /\ First(b) \in 1..at /\ at \in Nat
        BY <1>2, <1>3, <1>8
      <4>2. j \in 1..Len(values) /\ First(b) + j - 1 = i
        BY <3>2, <4>1
      <4>3. received'[i] = values[i - Len(received)]
        <5>1. i \in 1..Len(received) + Len(values)
          BY <2>2
        <5>2. ~(i <= Len(received))
          BY <3>2, <4>1
        <5> QED  BY <2>1, <5>1, <5>2
      <4> HIDE DEF j
      <4>4. values[j] = sent[First(b) + j - 1]
        BY <1>8, <4>2
      <4>5. sent[First(b) + j - 1] = sent[i]
        BY <4>2
      <4> QED  BY <4>3, <4>4, <4>5 DEF j
    <3> QED  BY <1>2, <1>3, <3>1, <3>2
  <2> QED  BY <2>1, <2>2, <2>3
<1>10. TypeOK' /\ Kept' /\ NeverThrown'
  <2>1. phase' \in {"encode", "done"} /\ (phase' = "done" => at = Len(points))
    BY <1>1
  <2>2. TypeOK' /\ NeverThrown'
    BY <1>1, <1>2, <1>9, <2>1 DEF TypeOK, NeverThrown
  <2>3. sent' = sent /\ points' = points /\ at \in Nat
    BY <1>1, <1>2
  <2>4. Len(received') <= Len(sent')
    BY <1>3, <1>9, <2>3
  <2>5. Kept'
    BY <1>9, <2>1, <2>3, <2>4 DEF Kept
  <2> QED  BY <2>2, <2>5
<1>11. Chained'
  BY <1>1, ChainedKept
<1>12. Checked' /\ Building'
  BY <1>1 DEF Checked, Building, Sorted, Accepted, End, Count
<1>13. Covered'
  BY <1>1 DEF Covered, Last, Has
<1>14. Encoding'
  <2> SUFFICES ASSUME phase' = "encode"  PROVE Encoding'
    BY DEF Encoding
  <2> DEFINE c == batches[BatchOf(at + 1)]
  <2>1. /\ at < Len(points) /\ at + 1 \in 1..Len(points) /\ at # Len(points)
        /\ BatchOf(at + 1) # BatchOf(at)
    BY <1>1, <1>2 DEF LastOfBatch
  <2>2. /\ BatchOf(at + 1) \in 1..Len(batches) /\ Has(c, at + 1)
        /\ \A n \in 1..Len(batches) : Has(batches[n], at + 1) => batches[n] = c
    BY <1>1, <2>1, Located
  <2>3. c \in Batches /\ BatchOk(c)
    BY <2>2 DEF TypeOK, Chained
  <2>4. First(c) = at + 1
    <3>1. First(c) \in 1..Len(points) /\ at + 1 \in First(c)..Last(c) /\ Last(c) \in Nat
      BY <1>2, <2>2, <2>3, Members
    <3>2. CASE First(c) <= at
      <4>1. Has(c, at)
        BY <1>2, <2>3, <3>1, <3>2, Members
      <4>2. BatchOf(at) = BatchOf(at + 1)
        BY <1>1, <1>2, <2>2, <4>1, Located
      <4> QED  BY <2>1, <4>2
    <3> QED  BY <1>2, <3>1, <3>2
  <2>5. DOMAIN registers' = 0..c.quantity - 1
    BY <1>1, <2>1 DEF Cleared
  <2> HIDE DEF c
  <2>6. ASSUME NEW n \in 1..Len(batches'), Has(batches[n], at)'
        PROVE  Assembled(batches[n])'
    <3>1. Has(batches[n], at + 1)
      BY <1>1, <2>6 DEF Has
    <3>2. batches'[n] = c
      BY <1>1, <2>2, <3>1
    <3>3. Len(received') = First(c) - 1 /\ Len(sent') = at
      BY <1>1, <1>2, <1>3, <1>9, <2>4
    <3> QED  BY <1>2, <2>4, <2>5, <3>2, <3>3 DEF Assembled, First
  <2>7. \A k \in 1..Len(sent') : sent'[k] \in ValueRange(points'[k].kind)
    BY <1>1, <1>3
  <2>8. at' <= Len(points') /\ Len(sent') \in {at' - 1, at'}
    BY <1>1, <1>2, <1>3, <2>1
  <2> QED  BY <2>6, <2>7, <2>8 DEF Encoding
<1> QED  BY <1>10, <1>11, <1>12, <1>13, <1>14

LEMMA NextIInv == MappingAssumption /\ IInv /\ [Next]_vars => IInv'
<1> SUFFICES ASSUME MappingAssumption, IInv, [Next]_vars  PROVE IInv'
  OBVIOUS
<1>1. CASE Next
  BY <1>1, CheckKeeps, OpenKeeps, ExtendKeeps, FlushKeeps, BuiltKeeps, EncodeKeeps,
     NextPointKeeps, DecodeKeeps DEF Next
<1>2. CASE UNCHANGED vars
  <2>1. TypeOK' /\ NeverThrown'
    BY <1>2 DEF vars, IInv, TypeOK, NeverThrown
  <2>2. Chained'
    BY <1>2 DEF vars, IInv, Chained, BatchOk, Gapless, Disjoint, Assembled, First, Last,
         Has, Sorted, Accepted, End, Count
  <2>3. Checked' /\ Building'
    BY <1>2 DEF vars, IInv, Checked, Building, BatchOk, Gapless, Disjoint, Assembled, First,
         Last, Has, Sorted, Accepted, End, Count
  <2>4. Covered' /\ Encoding' /\ Kept'
    BY <1>2 DEF vars, IInv, Covered, Encoding, Kept, BatchOk, Gapless, Disjoint, Assembled,
         First, Last, Has, Sorted, Accepted, End, Count
  <2> QED  BY <2>1, <2>2, <2>3, <2>4 DEF IInv
<1> QED  BY <1>1, <1>2

LEMMA SpecIInv == Spec => []IInv
  BY MappingAssumption, InitIInv, NextIInv, PTL DEF Spec
-----------------------------------------------------------------------------
(* The theorems.                                                            *)

\* buildBatches() puts every accepted point into exactly one batch, and a batch is
\* the registers of its points without a gap or an overlap, within the limit of a
\* request and the address space, although ends are computed in 16 bits.
THEOREM BatchesTileTheRegisters == Spec => []BatchesTiled
<1>1. MappingAssumption /\ IInv => BatchesTiled
  <2> SUFFICES ASSUME MappingAssumption, IInv  PROVE BatchesTiled
    OBVIOUS
  <2> USE DEF IInv
  <2>1. /\ Len(batches) \in Nat
        /\ \A n \in 1..Len(batches) : batches[n] \in Batches /\ BatchOk(batches[n])
    BY DEF TypeOK, Chained
  <2>2. ASSUME NEW b \in Batches, BatchOk(b)  PROVE Tiled(b)
    <3>1. Len(b.members) \in Nat
      BY <2>2, Members
    <3>2. ASSUME NEW m \in 1..Len(b.members) - 1
          PROVE  /\ b.members[m + 1] = b.members[m] + 1
                 /\ End(b.members[m]) = points[b.members[m + 1]].address
      <4>1. m \in 1..Len(b.members) /\ m + 1 \in 2..Len(b.members)
            /\ m + 1 \in 1..Len(b.members) /\ (m + 1) - 1 = m
        BY <3>1
      <4>2. /\ b.members[m] = First(b) + m - 1
            /\ b.members[m + 1] = First(b) + (m + 1) - 1
            /\ End(b.members[(m + 1) - 1]) = points[b.members[m + 1]].address
        BY <2>2, <4>1 DEF BatchOk, Gapless
      <4>3. First(b) \in Nat
        BY <2>2, Members
      <4> QED  BY <4>1, <4>2, <4>3
    <3> QED  BY <2>2, <3>2 DEF Tiled, BatchOk, Gapless, Disjoint, First, Last
  <2>3. Partition
    <3>1. ASSUME NEW n \in 1..Len(batches) - 1
          PROVE  First(batches[n + 1]) = Last(batches[n]) + 1
      <4>1. n + 1 \in 2..Len(batches) /\ (n + 1) - 1 = n
        BY <2>1
      <4>2. First(batches[n + 1]) = Last(batches[(n + 1) - 1]) + 1
        BY <4>1 DEF Chained
      <4> QED  BY <4>1, <4>2
    <3>2. ASSUME phase \in {"encode", "done"}, points # <<>>
          PROVE  First(batches[1]) = 1 /\ Last(batches[Len(batches)]) = Len(points)
      BY <3>2 DEF Covered, Chained
    <3> QED  BY <3>1, <3>2 DEF Partition, First, Last
  <2> QED  BY <2>1, <2>2, <2>3 DEF BatchesTiled
<1> QED  BY <1>1, MappingAssumption, SpecIInv, PTL

\* Neither encodeModbusPointValue() nor decodeModbusPointValue() leaves the registers
\* of a request: vector::at() never throws in a poller.
THEOREM NoAccessOutOfBounds == Spec => []NeverThrown
<1>1. IInv => NeverThrown
  BY DEF IInv
<1> QED  BY <1>1, SpecIInv, PTL

\* What encodeModbusPointValue() wrote is what decodeModbusPointValue() reads back,
\* for every type, word order, width of words, and neighbours in the request.
THEOREM ValuesSurvive == Spec => []RoundTrip
<1>1. IInv => RoundTrip
  <2> SUFFICES ASSUME IInv  PROVE RoundTrip
    OBVIOUS
  <2> DEFINE n == Len(received)
             prefix == SubSeq(sent, 1, n)
  <2>1. /\ sent \in Seq(Int) /\ received \in Seq(Int) /\ n \in Nat /\ n <= Len(sent)
        /\ \A i \in 1..n : received[i] = sent[i] /\ sent[i] \in Int
    BY DEF IInv, TypeOK, Kept
  <2>2. /\ prefix \in Seq(Int) /\ Len(prefix) = n
        /\ \A i \in 1..n : prefix[i] = sent[i]
    <3>1. /\ prefix \in Seq(Int) /\ Len(prefix) = IF 1 <= n THEN n - 1 + 1 ELSE 0
          /\ \A i \in 1..n - 1 + 1 : prefix[i] = sent[1 + i - 1]
      BY <2>1, SubSeqProperties
    <3> QED  BY <2>1, <3>1
  <2>3. received = prefix
    BY <2>1, <2>2, SeqEqual
  <2> QED  BY <2>3 DEF RoundTrip, IInv, Kept
<1> QED  BY <1>1, SpecIInv, PTL
=============================================================================
