------------------------------ MODULE StValues ------------------------------
(***************************************************************************)
(* The values of Structured Text and their operators, as                   *)
(* src/include/softplc/st/value_ops.hpp computes them for the interpreter  *)
(* and for compiled programs alike: in doubles, which are rounded and then *)
(* checked and converted to the type of the result.  A value is            *)
(* [type, num, den]: numbers are fractions in lowest terms, BOOL is 0 or   *)
(* 1, a TIME counts milliseconds and a STRING is its rank in the order of  *)
(* strings.  An exception is a value whose type is an error.               *)
(***************************************************************************)
EXTENDS Integers

CONSTANTS
  Least,  \* per type, the least number ...
  Greatest,  \* ... and the greatest one it can hold
  \* The formats of REAL and LREAL: a number is fewer than Significand of some spacing,
  \* and spacings are counted in steps of 1 / Finest.
  Significand, Finest, Spacings

Floats == {"REAL", "LREAL"}
Types == {"BOOL", "BYTE", "INT", "DINT", "REAL", "LREAL", "TIME", "STRING"}
Whole == {"BYTE", "INT", "DINT"}
Errors == {"type mismatch", "overflow", "division by zero", "loop limit"}

ASSUME BoundsAssumption ==
  \A t \in Whole \cup Floats \cup {"TIME"} : Least[t] \in Int /\ Greatest[t] \in Int /\ Least[t] <= 0 /\ 0 < Greatest[t]
\* Of the times only the least may have no negative, as with 64 bits in two's complement.
ASSUME TimeAssumption == Least["TIME"] <= -Greatest["TIME"] /\ -Least["TIME"] <= Greatest["TIME"] + 1
\* Spacings are powers of two, the finest is 1 and some numbers are whole numbers apart; the
\* greatest number is the last one at the coarsest spacing.
ASSUME FormatAssumption ==
  \A t \in Floats :
    /\ Significand[t] \in Nat \ {0} /\ Significand[t] % 2 = 0
    /\ Spacings[t] \subseteq Nat \ {0} /\ {1, Finest[t]} \subseteq Spacings[t]
    /\ \A s \in Spacings[t] \ {1} : \E r \in Spacings[t] : s = 2 * r
    /\ \A r, s \in Spacings[t] : r <= s => s % r = 0
    /\ \E s \in Spacings[t] : /\ Greatest[t] * Finest[t] = (Significand[t] - 1) * s
                              /\ \A r \in Spacings[t] : r <= s
    /\ Least[t] = -Greatest[t]
\* Whole numbers and REALs are doubles, and so are fractions as small as 1 / n for a whole n.
ASSUME DoubleAssumption ==
  /\ \A t \in Whole : \A n \in {-Least[t], Greatest[t]} : n < Significand["LREAL"] /\ n < 2 * Finest["LREAL"]
  /\ Significand["REAL"] <= Significand["LREAL"] /\ Finest["REAL"] <= Finest["LREAL"]
  /\ Greatest["REAL"] <= Greatest["LREAL"]

Of(t, n) == [type |-> t, num |-> n, den |-> 1]
Truth(b) == Of("BOOL", IF b THEN 1 ELSE 0)
IsTrue(v) == v.num = 1
Failed(e) == Of(e, 0)
IsError(v) == v.type \in Errors

\* Of b and a, by Euclid.
gcd[b \in Nat] == [a \in Nat |-> IF b = 0 THEN a ELSE gcd[a % b][b]]
Magnitude(n) == IF n < 0 THEN -n ELSE n
\* The fraction n / d, d not 0, in lowest terms with a positive denominator.
Fraction(t, n, d) ==
  LET g == gcd[Magnitude(d)][Magnitude(n)]
      sign == IF d < 0 THEN -1 ELSE 1
  IN [type |-> t, num |-> sign * (IF n < 0 THEN -(Magnitude(n) \div g) ELSE n \div g),
      den |-> Magnitude(d) \div g]

Rank == [BYTE |-> 0, INT |-> 1, DINT |-> 2, REAL |-> 3, LREAL |-> 4, BOOL |-> -1, TIME |-> -1, STRING |-> -1]
IsNumeric(t) == Rank[t] >= 0
DefaultOf(t) == Of(t, 0)

\* The spacing of the numbers of a format at a magnitude of y steps.
SpacingAt(t, y) ==
  LET fits(s) == y < Significand[t] * s \/ \A r \in Spacings[t] : r <= s
  IN CHOOSE s \in Spacings[t] : fits(s) /\ \A r \in Spacings[t] : fits(r) => s <= r
\* n / d to the nearest whole number, a half to the even one.
HalfEven(n, d) ==
  LET k == n \div d
      rest == 2 * (n % d)
  IN IF rest > d \/ (rest = d /\ k % 2 = 1) THEN k + 1 ELSE k
\* The number of a format that stands for v; one beyond the range stands for an infinity.
Rounded(t, v) ==
  LET n == Magnitude(v.num) * Finest[t]
      s == SpacingAt(t, n \div v.den)
      m == s * HalfEven(n, v.den * s)
  IN Fraction(t, IF v.num < 0 THEN -m ELSE m, Finest[t])

\* The conversion of C++ from a double to an integer.
Truncated(v) == IF v.num < 0 THEN -(Magnitude(v.num) \div v.den) ELSE v.num \div v.den
\* Mutant: the fraction is dropped before the range is checked.
FromDoubleLate(v, t) ==
  LET n == Truncated(v)
  IN IF t \in Whole THEN (IF n \in Least[t]..Greatest[t] THEN Of(t, n) ELSE Failed("overflow"))
     ELSE [v EXCEPT !.type = t]
\* The range of LREAL is that of the finite doubles.
FromDouble(v, t) ==
  IF v.num < Least[t] * v.den \/ v.num > Greatest[t] * v.den THEN Failed("overflow")
  ELSE IF t \in Whole THEN Of(t, Truncated(v))
  ELSE IF t = "REAL" THEN Rounded(t, v) ELSE [v EXCEPT !.type = t]

NumericResultType(a, b) == IF Rank[a] > Rank[b] THEN a ELSE b
CoerceToType(v, t) ==
  CASE v.type = t -> v
    [] v.type # t /\ IsNumeric(v.type) /\ IsNumeric(t) -> FromDouble(v, t)
    [] OTHER -> Failed("type mismatch")

Arithmetic == {"+", "-", "*", "/"}
Comparison == {"=", "<>", "<", ">", "<=", ">="}
Logical == {"AND", "OR", "XOR"}

TimeArithmetic(op, l, r) ==
  LET n == IF op = "+" THEN l.num + r.num ELSE l.num - r.num
  IN CASE op \notin {"+", "-"} -> Failed("type mismatch")
       [] op \in {"+", "-"} /\ n \notin Least["TIME"]..Greatest["TIME"] -> Failed("overflow")
       [] OTHER -> Of("TIME", n)
EvalArithmetic(op, l, r) ==
  LET t == NumericResultType(l.type, r.type)
      Result(n, d) == FromDouble(Rounded("LREAL", Fraction("LREAL", n, d)), t)
  IN IF l.type = "TIME" /\ r.type = "TIME" THEN TimeArithmetic(op, l, r)
     ELSE IF ~IsNumeric(l.type) \/ ~IsNumeric(r.type) THEN Failed("type mismatch")
     ELSE CASE op = "+" -> Result(l.num * r.den + r.num * l.den, l.den * r.den)
            [] op = "-" -> Result(l.num * r.den - r.num * l.den, l.den * r.den)
            [] op = "*" -> Result(l.num * r.num, l.den * r.den)
            [] op = "/" /\ r.num = 0 -> Failed("division by zero")
            [] op = "/" /\ r.num # 0 -> Result(l.num * r.den, l.den * r.num)

Compare(op, x) ==
  CASE op = "=" -> x = 0 [] op = "<>" -> x # 0 [] op = "<" -> x < 0
    [] op = ">" -> x > 0 [] op = "<=" -> x <= 0 [] op = ">=" -> x >= 0
Comparable(op, a, b) ==
  \/ a = "BOOL" /\ b = "BOOL" /\ op \in {"=", "<>"}
  \/ a = b /\ a \in {"STRING", "TIME"}
  \/ IsNumeric(a) /\ IsNumeric(b)
EvalComparison(op, l, r) ==
  IF Comparable(op, l.type, r.type) THEN Truth(Compare(op, l.num * r.den - r.num * l.den))
                                    ELSE Failed("type mismatch")

EvalLogical(op, l, r) ==
  IF l.type # "BOOL" \/ r.type # "BOOL" THEN Failed("type mismatch")
  ELSE Truth(CASE op = "AND" -> IsTrue(l) /\ IsTrue(r)
               [] op = "OR" -> IsTrue(l) \/ IsTrue(r)
               [] op = "XOR" -> IsTrue(l) # IsTrue(r))

Negated(v) == [v EXCEPT !.num = -v.num]
EvalUnary(op, v) ==
  CASE op = "NOT" -> IF v.type = "BOOL" THEN Truth(~IsTrue(v)) ELSE Failed("type mismatch")
    [] op = "-" /\ v.type = "TIME" -> IF v.num = Least["TIME"] THEN Failed("overflow") ELSE Negated(v)
    [] op = "-" /\ v.type # "TIME" -> IF IsNumeric(v.type) THEN FromDouble(Negated(v), v.type) ELSE Failed("type mismatch")

\* The conversions the parser makes of an integer literal: static_cast.
Wrapped(t, n) == Least[t] + ((n - Least[t]) % (Greatest[t] - Least[t] + 1))
=============================================================================
