---------------------------- MODULE ScanProofs ----------------------------
(***************************************************************************)
(* What the scan engine of Scan.tla guarantees for every cycle time, every  *)
(* resolution of the clock and every preset of a timer, however long scans  *)
(* and sleeps take: the schedule neither drifts nor bursts, and a timer     *)
(* follows the clock, from one inductive invariant IInv.                    *)
(***************************************************************************)
EXTENDS Scan, TLAPS

TypeOK ==
  /\ clock \in Nat
  /\ input \in BOOLEAN
  /\ thread \in {"none", "apply", "enter", "loop", "execute", "end", "resync", "sleep", "ended"}
  /\ nextTick \in Nat
  /\ base \in Nat
  /\ cycleStart \in Nat
  /\ lastScanStart \in Nat \cup {Never}
  /\ before \in Nat \cup {Never}
  /\ first \in BOOLEAN
  /\ kind \in {"TON", "TOF"}
  /\ in \in BOOLEAN
  /\ q \in BOOLEAN
  /\ et \in 0..PT
  /\ from \in Int
  /\ scans \in Nat

\* Scans lie in the past.
Past == cycleStart <= clock /\ lastScanStart <= cycleStart

\* The next tick is a whole number of cycles after the schedule was laid out.
Grid ==
  thread \in {"loop", "execute", "end", "resync", "sleep"} =>
    \E n \in Nat : nextTick = base + n * CycleTime

\* Where the schedule stands to the last two scans.  A scan that ends in time is
\* followed by a sleep beyond the next tick, which lies a cycle after a tick that
\* was later than the scan before; one that ends late has used up that cycle.
Schedule ==
  /\ thread \in {"end", "resync", "sleep"} => ~first
  /\ thread \in {"loop", "execute"} /\ ~first => nextTick > lastScanStart
  /\ thread = "end" /\ before # Never => nextTick > before
  /\ thread = "sleep" => nextTick > lastScanStart
  /\ thread = "sleep" /\ before # Never => nextTick >= before + CycleTime
  /\ thread \in {"resync", "loop"} /\ ~first /\ before # Never => clock >= before + CycleTime
  /\ thread = "execute" /\ ~first /\ before # Never => cycleStart >= before + CycleTime

\* The timer before its first scan, and a TON whose input is off.
Timer ==
  /\ scans = 0 => ~q /\ et = 0
  /\ scans > 0 => lastScanStart # Never
  /\ kind = "TON" /\ ~in => et = 0
  /\ kind = "TOF" /\ in /\ scans > 0 => et = 0

\* A timer shows the time its input was seen, less at most what each scan cut off.
Shows(t) ==
  /\ UnitsPerMs * t <= Seen
  /\ t = PT \/ UnitsPerMs * t >= Seen - scans * (UnitsPerMs - 1)

LossBounded ==
  scans > 0 =>
    /\ kind = "TON" /\ in => Shows(et) /\ q = (et = PT)
    /\ kind = "TON" /\ ~in => ~q
    /\ kind = "TOF" /\ in => q
    /\ kind = "TOF" /\ ~in /\ (q \/ et = PT) => Shows(et) /\ q = (et # PT)

IInv == TypeOK /\ Past /\ Grid /\ Schedule /\ Timer /\ LossBounded
-----------------------------------------------------------------------------
(* Arithmetic, and what one scan adds to a timer.                           *)

LEMMA Params ==
  /\ UnitsPerMs \in Nat \ {0}
  /\ CycleTime \in Nat \ {0}
  /\ PT \in Nat \ {0}
  BY ScanAssumption

\* What is lost when a time is cut to milliseconds.
LEMMA WholeMs ==
  ASSUME NEW a \in Nat, NEW b \in Nat \ {0}
  PROVE  /\ a \div b \in Nat
         /\ b * (a \div b) <= a
         /\ b * (a \div b) >= a - (b - 1)
<1> DEFINE d == a \div b
<1>1. d \in Nat /\ d * b <= a /\ a < (d + 1) * b
  OBVIOUS
<1> HIDE DEF d
<1>2. (d + 1) * b = d * b + b /\ d * b = b * d /\ d * b \in Int
  BY <1>1
<1>3. d \in Nat /\ b * d <= a /\ b * d >= a - (b - 1)
  BY <1>1, <1>2
<1> QED
  BY <1>3 DEF d

LEMMA MultipleMod ==
  ASSUME NEW n \in Nat, NEW c \in Nat \ {0}
  PROVE  (n * c) % c = 0
  OBVIOUS

LEMMA Distribute ==
  ASSUME NEW a \in Int, NEW b \in Int, NEW c \in Int
  PROVE  /\ a * (b + c) = a * b + a * c
         /\ (b + c) * a = b * a + c * a
         /\ a * b \in Int
  OBVIOUS

\* The time that has passed since the last scan, of which Elapsed are the whole
\* milliseconds.
Since == IF lastScanStart = Never THEN CycleTime ELSE cycleStart - lastScanStart

LEMMA ElapsedBounds ==
  ASSUME TypeOK, Past
  PROVE  /\ Since \in Nat
         /\ Elapsed \in Nat
         /\ UnitsPerMs * Elapsed <= Since
         /\ UnitsPerMs * Elapsed >= Since - (UnitsPerMs - 1)
<1>1. Since \in Nat
  BY Params DEF TypeOK, Past, Since
<1>2. Elapsed = Since \div UnitsPerMs
  BY DEF Elapsed, Since
<1> QED
  BY <1>1, <1>2, Params, WholeMs

\* Shows, for values that are not those of the state.
ShowsAt(t, real, n) ==
  /\ UnitsPerMs * t <= real
  /\ t = PT \/ UnitsPerMs * t >= real - n * (UnitsPerMs - 1)

\* A time that has been shown up to some moment, with n scans, is shown until the
\* next scan when its milliseconds are added.
LEMMA ClampedShows ==
  ASSUME NEW t \in 0..PT, NEW d \in Nat, NEW real \in Int, NEW more \in Nat, NEW n \in Nat,
         UnitsPerMs * d <= more, UnitsPerMs * d >= more - (UnitsPerMs - 1),
         ShowsAt(t, real, n)
  PROVE  /\ Clamped(t + d) \in 0..PT
         /\ ShowsAt(Clamped(t + d), real + more, n + 1)
<1> DEFINE u == Clamped(t + d)
           U == UnitsPerMs
           loss == UnitsPerMs - 1
<1>1. U \in Nat \ {0} /\ loss \in Nat /\ PT \in Nat \ {0}
  BY Params
<1>2. u \in 0..PT /\ u <= t + d /\ (u = PT \/ u = t + d)
  BY <1>1 DEF Clamped
<1> HIDE DEF u, U, loss
<1>3. /\ U * (t + d) = U * t + U * d
      /\ U * t \in Int /\ U * d \in Int
  BY <1>1, Distribute
<1>4. U * u <= U * (t + d) /\ U * u \in Int
  <2>1. (t + d) - u \in Nat
    BY <1>2
  <2>2. U * ((t + d) - u) \in Nat
    BY <1>1, <2>1
  <2>3. U * (u + ((t + d) - u)) = U * u + U * ((t + d) - u)
    BY <1>1, <1>2, <2>1, Distribute
  <2>4. u + ((t + d) - u) = t + d
    BY <1>2
  <2>5. U * u \in Int
    BY <1>1, <1>2
  <2> QED
    BY <2>2, <2>3, <2>4, <2>5
<1>5. (n + 1) * loss = n * loss + 1 * loss /\ n * loss \in Int
  BY <1>1, Distribute
<1>6. 1 * loss = loss
  BY <1>1
<1>7. U * d <= more /\ U * d >= more - loss /\ U * t <= real
  BY DEF U, loss, ShowsAt
<1>8. U * u <= real + more
  BY <1>3, <1>4, <1>7
<1>9. u = PT \/ U * u >= (real + more) - (n + 1) * loss
  <2>1. CASE u = PT
    BY <2>1
  <2>2. CASE u # PT
    <3>1. u = t + d /\ t # PT
      BY <1>1, <1>2, <2>2
    <3>2. U * t >= real - n * loss
      BY <3>1 DEF U, loss, ShowsAt
    <3> QED
      BY <1>1, <1>3, <1>5, <1>6, <1>7, <3>1, <3>2
  <2> QED
    BY <2>1, <2>2
<1>10. ShowsAt(u, real + more, n + 1)
  <2>1. UnitsPerMs * u <= real + more
    BY <1>8 DEF U
  <2>2. u = PT \/ UnitsPerMs * u >= (real + more) - (n + 1) * (UnitsPerMs - 1)
    BY <1>9, Zenon DEF U, loss
  <2> HIDE DEF ShowsAt
  <2>3. SUFFICES /\ UnitsPerMs * u <= real + more
                 /\ u = PT \/ UnitsPerMs * u >= (real + more) - (n + 1) * (UnitsPerMs - 1)
    BY DEF ShowsAt
  <2> QED
    BY <2>1, <2>2
<1> QED
  BY <1>2, <1>10 DEF u

\* The timer after a scan, case by case.
LEMMA TimerCases ==
  ASSUME TypeOK, Past, Execute
  PROVE  /\ q' \in BOOLEAN /\ et' \in 0..PT
         /\ kind = "TON" /\ input => et' = Clamped(et + Elapsed) /\ q' = (et' >= PT)
         /\ kind = "TON" /\ ~input => et' = 0 /\ q' = FALSE
         /\ kind = "TOF" /\ input => et' = 0 /\ q' = TRUE
         /\ kind = "TOF" /\ ~input /\ q => et' = Clamped(et + Elapsed) /\ q' = (et' < PT)
         /\ kind = "TOF" /\ ~input /\ ~q => et' = et /\ q' = FALSE
<1>1. kind \in {"TON", "TOF"} /\ q \in BOOLEAN /\ et \in 0..PT
  BY DEF TypeOK
<1>2. 0 \in 0..PT /\ Clamped(et + Elapsed) \in 0..PT
  BY <1>1, ElapsedBounds, Params DEF Clamped
<1>3. kind = "TON" /\ input => et' = Clamped(et + Elapsed) /\ q' = (et' >= PT)
  BY DEF Execute, TON
<1>4. kind = "TON" /\ ~input => et' = 0 /\ q' = FALSE
  BY DEF Execute, TON
<1>5. kind = "TOF" /\ input => et' = 0 /\ q' = TRUE
  BY DEF Execute, TOF
<1>6. kind = "TOF" /\ ~input /\ q => et' = Clamped(et + Elapsed) /\ q' = (et' < PT)
  BY DEF Execute, TOF
<1>7. kind = "TOF" /\ ~input /\ ~q => et' = et /\ q' = FALSE
  BY <1>1 DEF Execute, TOF
<1>8. et' \in 0..PT
  BY <1>1, <1>2, <1>3, <1>4, <1>5, <1>6, <1>7
<1>9. q' \in BOOLEAN
  <2>1. CASE q' = (et' >= PT)
    BY <2>1
  <2>2. CASE q' = (et' < PT)
    BY <2>2
  <2> QED
    BY <1>1, <1>3, <1>4, <1>5, <1>6, <1>7, <2>1, <2>2
<1> QED
  BY <1>3, <1>4, <1>5, <1>6, <1>7, <1>8, <1>9
-----------------------------------------------------------------------------
(* Each part of the invariant is preserved.                                 *)

\* Every step preserves the types.
LEMMA TypeOKStep ==
  ASSUME TypeOK, Past, [Next]_vars
  PROVE  TypeOK'
<1> USE Params DEF TypeOK, Never
<1>1. CASE Start
  BY <1>1 DEF Start, engine, schedule, starts, timer
<1>2. CASE Started
  BY <1>2 DEF Started, engine, schedule, starts, timer
<1>3. CASE Stop
  BY <1>3 DEF Stop, engine, schedule, starts, timer
<1>4. CASE Joined
  BY <1>4 DEF Joined, engine, schedule, starts, timer
<1>5. CASE Apply
  BY <1>5 DEF Apply, engine, schedule, starts, timer
<1>6. CASE Enter
  BY <1>6 DEF Enter, engine, schedule, starts, timer
<1>7. CASE Loop
  BY <1>7 DEF Loop, engine, schedule, starts, timer
<1>8. CASE Execute
  <2>3. q' \in BOOLEAN /\ et' \in 0..PT
    BY <1>8, TimerCases
  <2>4. from' \in Int /\ scans' \in Nat
    BY <1>8 DEF Execute
  <2> QED
    BY <1>8, <2>3, <2>4 DEF Execute, engine, schedule
<1>9. CASE Ahead
  BY <1>9 DEF Ahead, NextTick, engine, starts, timer
<1>10. CASE Behind
  BY <1>10 DEF Behind, NextTick, engine, starts, timer
<1>11. CASE Resync
  BY <1>11 DEF Resync, Resynced, engine, starts, timer
<1>12. CASE Wake
  BY <1>12 DEF Wake, engine, schedule, starts, timer
<1>13. CASE Tick
  BY <1>13 DEF Tick, engine, schedule, starts, timer
<1>14. CASE InputChange
  BY <1>14 DEF InputChange, engine, schedule, starts, timer
<1>15. CASE UNCHANGED vars
  BY <1>15 DEF vars, engine, schedule, starts, timer
<1> QED
  BY <1>1, <1>2, <1>3, <1>4, <1>5, <1>6, <1>7, <1>8, <1>9, <1>10, <1>11, <1>12, <1>13, <1>14, <1>15 DEF Next

\* The clock does not go back.
LEMMA PastStep ==
  ASSUME TypeOK, Past, [Next]_vars
  PROVE  Past'
<1> USE Params DEF TypeOK, Past, Never
<1>1. CASE Start
  BY <1>1 DEF Start, engine, schedule, starts, timer
<1>2. CASE Started
  BY <1>2 DEF Started, engine, schedule, starts, timer
<1>3. CASE Stop
  BY <1>3 DEF Stop, engine, schedule, starts, timer
<1>4. CASE Joined
  BY <1>4 DEF Joined, engine, schedule, starts, timer
<1>5. CASE Apply
  BY <1>5 DEF Apply, engine, schedule, starts, timer
<1>6. CASE Enter
  BY <1>6 DEF Enter, engine, schedule, starts, timer
<1>7. CASE Loop
  BY <1>7 DEF Loop, engine, schedule, starts, timer
<1>8. CASE Execute
  BY <1>8 DEF Execute, engine, schedule
<1>9. CASE Ahead
  BY <1>9 DEF Ahead, NextTick, engine, starts, timer
<1>10. CASE Behind
  BY <1>10 DEF Behind, NextTick, engine, starts, timer
<1>11. CASE Resync
  BY <1>11 DEF Resync, Resynced, engine, starts, timer
<1>12. CASE Wake
  BY <1>12 DEF Wake, engine, schedule, starts, timer
<1>13. CASE Tick
  BY <1>13 DEF Tick, engine, schedule, starts, timer
<1>14. CASE InputChange
  BY <1>14 DEF InputChange, engine, schedule, starts, timer
<1>15. CASE UNCHANGED vars
  BY <1>15 DEF vars, engine, schedule, starts, timer
<1> QED
  BY <1>1, <1>2, <1>3, <1>4, <1>5, <1>6, <1>7, <1>8, <1>9, <1>10, <1>11, <1>12, <1>13, <1>14, <1>15 DEF Next

\* A tick follows the last one, or the schedule is laid out anew.
LEMMA GridStep ==
  ASSUME TypeOK, Grid, [Next]_vars
  PROVE  Grid'
<1> USE Params DEF TypeOK, Grid, Never
<1>1. CASE Start
  BY <1>1 DEF Start, engine, schedule, starts, timer
<1>2. CASE Started
  BY <1>2 DEF Started, engine, schedule, starts, timer
<1>3. CASE Stop
  BY <1>3 DEF Stop, engine, schedule, starts, timer
<1>4. CASE Joined
  BY <1>4 DEF Joined, engine, schedule, starts, timer
<1>5. CASE Apply
  BY <1>5 DEF Apply, engine, schedule, starts, timer
<1>6. CASE Enter
  <2>1. nextTick' = base' + 0 * CycleTime
    BY <1>6 DEF Enter, engine, schedule, starts, timer
  <2> QED
    BY <2>1
<1>7. CASE Loop
  BY <1>7 DEF Loop, engine, schedule, starts, timer
<1>8. CASE Execute
  BY <1>8 DEF Execute, engine, schedule
<1>9. CASE Ahead
  <2>1. PICK n \in Nat : nextTick = base + n * CycleTime
    BY <1>9 DEF Ahead
  <2>2. (n + 1) * CycleTime = n * CycleTime + CycleTime /\ n * CycleTime \in Int
    BY Distribute
  <2> DEFINE m == n + 1
  <2>3. m \in Nat /\ nextTick' = base' + m * CycleTime
    <3>1. nextTick' = nextTick + CycleTime /\ base' = base
      BY <1>9 DEF Ahead, NextTick
    <3>2. base \in Nat /\ CycleTime \in Nat
      OBVIOUS
    <3> QED
      BY <2>1, <2>2, <3>1, <3>2
  <2> HIDE DEF m
  <2> QED
    BY <2>3
<1>10. CASE Behind
  <2>1. PICK n \in Nat : nextTick = base + n * CycleTime
    BY <1>10 DEF Behind
  <2>2. (n + 1) * CycleTime = n * CycleTime + CycleTime /\ n * CycleTime \in Int
    BY Distribute
  <2> DEFINE m == n + 1
  <2>3. m \in Nat /\ nextTick' = base' + m * CycleTime
    <3>1. nextTick' = nextTick + CycleTime /\ base' = base
      BY <1>10 DEF Behind, NextTick
    <3>2. base \in Nat /\ CycleTime \in Nat
      OBVIOUS
    <3> QED
      BY <2>1, <2>2, <3>1, <3>2
  <2> HIDE DEF m
  <2> QED
    BY <2>3
<1>11. CASE Resync
  <2>1. nextTick' = base' + 1 * CycleTime
    BY <1>11 DEF Resync, Resynced, engine, starts, timer
  <2> QED
    BY <2>1
<1>12. CASE Wake
  BY <1>12 DEF Wake, engine, schedule, starts, timer
<1>13. CASE Tick
  BY <1>13 DEF Tick, engine, schedule, starts, timer
<1>14. CASE InputChange
  BY <1>14 DEF InputChange, engine, schedule, starts, timer
<1>15. CASE UNCHANGED vars
  BY <1>15 DEF vars, engine, schedule, starts, timer
<1> QED
  BY <1>1, <1>2, <1>3, <1>4, <1>5, <1>6, <1>7, <1>8, <1>9, <1>10, <1>11, <1>12, <1>13, <1>14, <1>15 DEF Next

\* A scan that was late is not made up for.
LEMMA ScheduleStep ==
  ASSUME TypeOK, Past, Schedule, [Next]_vars
  PROVE  Schedule'
<1> USE Params DEF TypeOK, Past, Schedule, Never
<1>1. CASE Start
  BY <1>1 DEF Start, engine, schedule, starts, timer
<1>2. CASE Started
  BY <1>2 DEF Started, engine, schedule, starts, timer
<1>3. CASE Stop
  BY <1>3 DEF Stop, engine, schedule, starts, timer
<1>4. CASE Joined
  BY <1>4 DEF Joined, engine, schedule, starts, timer
<1>5. CASE Apply
  BY <1>5 DEF Apply, engine, schedule, starts, timer
<1>6. CASE Enter
  BY <1>6 DEF Enter, engine, schedule, starts, timer
<1>7. CASE Loop
  BY <1>7 DEF Loop, engine, schedule, starts, timer
<1>8. CASE Execute
  BY <1>8 DEF Execute, engine, schedule
<1>9. CASE Ahead
  BY <1>9 DEF Ahead, NextTick, engine, starts, timer
<1>10. CASE Behind
  BY <1>10 DEF Behind, NextTick, engine, starts, timer
<1>11. CASE Resync
  BY <1>11 DEF Resync, Resynced, engine, starts, timer
<1>12. CASE Wake
  BY <1>12 DEF Wake, engine, schedule, starts, timer
<1>13. CASE Tick
  BY <1>13 DEF Tick, engine, schedule, starts, timer
<1>14. CASE InputChange
  BY <1>14 DEF InputChange, engine, schedule, starts, timer
<1>15. CASE UNCHANGED vars
  BY <1>15 DEF vars, engine, schedule, starts, timer
<1> QED
  BY <1>1, <1>2, <1>3, <1>4, <1>5, <1>6, <1>7, <1>8, <1>9, <1>10, <1>11, <1>12, <1>13, <1>14, <1>15 DEF Next

\* A timer starts from nothing.
LEMMA TimerStep ==
  ASSUME TypeOK, Past, Timer, LossBounded, [Next]_vars
  PROVE  Timer'
<1> USE Params DEF TypeOK, Past, Timer, Never
<1>1. CASE Start
  BY <1>1 DEF Start, engine, schedule, starts, timer
<1>2. CASE Started
  BY <1>2 DEF Started, engine, schedule, starts, timer
<1>3. CASE Stop
  BY <1>3 DEF Stop, engine, schedule, starts, timer
<1>4. CASE Joined
  BY <1>4 DEF Joined, engine, schedule, starts, timer
<1>5. CASE Apply
  BY <1>5 DEF Apply, engine, schedule, starts, timer
<1>6. CASE Enter
  BY <1>6 DEF Enter, engine, schedule, starts, timer
<1>7. CASE Loop
  BY <1>7 DEF Loop, engine, schedule, starts, timer
<1>8. CASE Execute
  <2>1. /\ kind' = kind /\ in' = input /\ lastScanStart' = cycleStart
    BY <1>8 DEF Execute
  <2>2. scans' # 0
    <3>1. scans \in Nat /\ scans' = IF input = in /\ scans > 0 THEN scans + 1 ELSE 1
      BY <1>8 DEF Execute
    <3> QED
      BY <3>1
  <2>3. lastScanStart' # Never
    BY <2>1
  <2>4. kind = "TON" /\ ~input => et' = 0
    BY <1>8, TimerCases
  <2>5. kind = "TOF" /\ input => et' = 0
    BY <1>8, TimerCases
  <2> HIDE DEF TypeOK, Never
  <2> QED
    BY <2>1, <2>2, <2>3, <2>4, <2>5
<1>9. CASE Ahead
  BY <1>9 DEF Ahead, NextTick, engine, starts, timer
<1>10. CASE Behind
  BY <1>10 DEF Behind, NextTick, engine, starts, timer
<1>11. CASE Resync
  BY <1>11 DEF Resync, Resynced, engine, starts, timer
<1>12. CASE Wake
  BY <1>12 DEF Wake, engine, schedule, starts, timer
<1>13. CASE Tick
  BY <1>13 DEF Tick, engine, schedule, starts, timer
<1>14. CASE InputChange
  BY <1>14 DEF InputChange, engine, schedule, starts, timer
<1>15. CASE UNCHANGED vars
  BY <1>15 DEF vars, engine, schedule, starts, timer
<1> QED
  BY <1>1, <1>2, <1>3, <1>4, <1>5, <1>6, <1>7, <1>8, <1>9, <1>10, <1>11, <1>12, <1>13, <1>14, <1>15 DEF Next

\* A scan in which the input has the value it had: the time since it was first seen
\* grows, and so does the number of scans.
LEMMA SameInput ==
  ASSUME TypeOK, Past, Timer, Execute, input = in, scans > 0
  PROVE  /\ scans' = scans + 1
         /\ lastScanStart' - from' = (lastScanStart - from) + Since
         /\ lastScanStart - from \in Int
         /\ in' = in
<1>1. lastScanStart \in Nat
  BY DEF TypeOK, Timer
<1>2. Since = cycleStart - lastScanStart
  BY <1>1 DEF Since, Never
<1>3. cycleStart \in Nat /\ from \in Int
  BY DEF TypeOK
<1>4. lastScanStart' = cycleStart /\ from' = from /\ scans' = scans + 1 /\ in' = in
  BY DEF Execute
<1> QED
  BY <1>1, <1>2, <1>3, <1>4

\* A scan in which it is new.
LEMMA NewInput ==
  ASSUME TypeOK, Past, Timer, Execute, ~(input = in /\ scans > 0)
  PROVE  /\ scans' = 1
         /\ lastScanStart' - from' = Since
         /\ in' = input
<1>1. cycleStart \in Nat /\ lastScanStart \in Nat \cup {Never} /\ CycleTime \in Nat
  BY Params DEF TypeOK
<1>2. /\ from' = IF lastScanStart = Never THEN cycleStart - CycleTime ELSE lastScanStart
      /\ lastScanStart' = cycleStart /\ scans' = 1 /\ in' = input
  BY DEF Execute
<1> QED
  BY <1>1, <1>2 DEF Since

\* A timer that adds the time of a scan goes on to show the clock: if it showed it
\* before, or if it starts with this scan.
LEMMA AddedShows ==
  ASSUME TypeOK, Past, Timer, Execute,
         et' = Clamped(et + Elapsed),
         input = in /\ scans > 0 => ShowsAt(et, lastScanStart - from, scans),
         ~(input = in /\ scans > 0) => et = 0
  PROVE  ShowsAt(et', lastScanStart' - from', scans')
<1>1. /\ Since \in Nat /\ Elapsed \in Nat
      /\ UnitsPerMs * Elapsed <= Since
      /\ UnitsPerMs * Elapsed >= Since - (UnitsPerMs - 1)
  BY ElapsedBounds
<1>2. et \in 0..PT /\ scans \in Nat /\ UnitsPerMs \in Nat \ {0}
  BY Params DEF TypeOK
<1> HIDE DEF Elapsed, Since
<1>3. CASE input = in /\ scans > 0
  <2> DEFINE real == lastScanStart - from
  <2>1. /\ scans' = scans + 1 /\ lastScanStart' - from' = real + Since
        /\ real \in Int
    BY <1>3, SameInput
  <2>2. ShowsAt(et, real, scans)
    BY <1>3
  <2> HIDE DEF real
  <2>3. ShowsAt(Clamped(et + Elapsed), real + Since, scans + 1)
    BY <1>1, <1>2, <2>1, <2>2, ClampedShows
  <2> QED
    BY <2>1, <2>3
<1>4. CASE ~(input = in /\ scans > 0)
  <2>1. et = 0 /\ scans' = 1 /\ lastScanStart' - from' = Since
    BY <1>4, NewInput
  <2>2. UnitsPerMs * 0 = 0 /\ 0 * (UnitsPerMs - 1) = 0 /\ 0 + Since = Since /\ 0 + 1 = 1
    BY <1>1, <1>2
  <2>3. ShowsAt(Clamped(et + Elapsed), 0 + Since, 0 + 1)
    <3>1. ShowsAt(et, 0, 0)
      BY <2>1, <2>2 DEF ShowsAt
    <3>2. 0 \in Int /\ 0 \in Nat
      OBVIOUS
    <3> QED
      BY <1>1, <1>2, <3>1, <3>2, ClampedShows
  <2> QED
    BY <2>1, <2>2, <2>3
<1> QED
  BY <1>3, <1>4

\* A timer adds up what each scan publishes.
LEMMA LossStep ==
  ASSUME TypeOK, Past, Timer, LossBounded, [Next]_vars
  PROVE  LossBounded'
<1> USE DEF LossBounded, Shows, Seen
<1>1. CASE Start
  BY <1>1 DEF Start, engine, schedule, starts, timer
<1>2. CASE Started
  BY <1>2 DEF Started, engine, schedule, starts, timer
<1>3. CASE Stop
  BY <1>3 DEF Stop, engine, schedule, starts, timer
<1>4. CASE Joined
  BY <1>4 DEF Joined, engine, schedule, starts, timer
<1>5. CASE Apply
  BY <1>5 DEF Apply, engine, schedule, starts, timer
<1>6. CASE Enter
  BY <1>6 DEF Enter, engine, schedule, starts, timer
<1>7. CASE Loop
  BY <1>7 DEF Loop, engine, schedule, starts, timer
<1>8. CASE Execute
  <2>1. scans' > 0 /\ in' = input /\ kind' = kind
    <3>1. scans \in Nat /\ scans' = IF input = in /\ scans > 0 THEN scans + 1 ELSE 1
      BY <1>8 DEF Execute, TypeOK
    <3> QED
      BY <1>8, <3>1 DEF Execute
  <2>2. et \in 0..PT /\ et' \in 0..PT /\ Elapsed \in Nat /\ PT \in Nat \ {0} /\ scans \in Nat
    BY TypeOKStep, ElapsedBounds, Params DEF TypeOK
  <2>3. input \in BOOLEAN /\ in \in BOOLEAN /\ q \in BOOLEAN /\ kind \in {"TON", "TOF"}
    BY DEF TypeOK
  <2>4. CASE kind = "TON" /\ ~input
    BY <1>8, <2>1, <2>4, TimerCases
  <2>5. CASE kind = "TON" /\ input
    <3>1. et' = Clamped(et + Elapsed) /\ q' = (et' >= PT)
      BY <1>8, <2>5, TimerCases
    <3>2. input = in /\ scans > 0 => ShowsAt(et, lastScanStart - from, scans)
      BY <2>5 DEF ShowsAt
    <3>3. ~(input = in /\ scans > 0) => et = 0
      <4>1. in = TRUE \/ in = FALSE
        BY <2>3
      <4>2. input = TRUE
        BY <2>3, <2>5
      <4>3. scans > 0 \/ scans = 0
        BY <2>2
      <4> QED
        BY <2>5, <4>1, <4>2, <4>3 DEF Timer
    <3>4. ShowsAt(et', lastScanStart' - from', scans')
      BY <1>8, <3>1, <3>2, <3>3, AddedShows
    <3>5. q' = (et' = PT)
      BY <2>2, <3>1
    <3> QED
      BY <2>1, <2>5, <3>4, <3>5 DEF ShowsAt
  <2>6. CASE kind = "TOF" /\ input
    BY <1>8, <2>1, <2>6, TimerCases
  <2>7. CASE kind = "TOF" /\ ~input /\ q
    <3>1. et' = Clamped(et + Elapsed) /\ q' = (et' < PT)
      BY <1>8, <2>7, TimerCases
    <3>2. input = in /\ scans > 0 => ShowsAt(et, lastScanStart - from, scans)
      BY <2>7 DEF ShowsAt
    <3>3. ~(input = in /\ scans > 0) => et = 0
      BY <2>2, <2>3, <2>7 DEF Timer
    <3>4. ShowsAt(et', lastScanStart' - from', scans')
      BY <1>8, <3>1, <3>2, <3>3, AddedShows
    <3>5. q' = (et' # PT)
      BY <2>2, <3>1
    <3> QED
      BY <2>1, <2>7, <3>4, <3>5 DEF ShowsAt
  <2>8. CASE kind = "TOF" /\ ~input /\ ~q /\ et = PT
    <3>1. et' = PT /\ q' = FALSE
      BY <1>8, <2>8, TimerCases
    <3>2. input = in /\ scans > 0
      BY <2>2, <2>3, <2>8 DEF Timer
    <3>3. lastScanStart' - from' = (lastScanStart - from) + Since /\ lastScanStart - from \in Int
      BY <1>8, <3>2, SameInput
    <3>4. UnitsPerMs * PT <= lastScanStart - from
      BY <2>8, <3>2
    <3>5. Since \in Nat /\ UnitsPerMs * PT \in Int
      BY ElapsedBounds, Params
    <3>6. UnitsPerMs * et' <= lastScanStart' - from'
      <4> DEFINE real == lastScanStart - from
                 shown == UnitsPerMs * PT
      <4>1. shown <= real /\ real \in Int /\ shown \in Int
        BY <3>3, <3>4, <3>5
      <4> HIDE DEF real, shown
      <4>2. shown <= real + Since
        BY <3>5, <4>1
      <4> QED
        BY <3>1, <3>3, <4>2 DEF real, shown
    <3>7. q' = (et' # PT)
      BY <3>1
    <3> QED
      BY <2>1, <2>8, <3>1, <3>6, <3>7
  <2>9. CASE kind = "TOF" /\ ~input /\ ~q /\ et # PT
    BY <1>8, <2>1, <2>9, TimerCases
  <2> QED
    BY <2>3, <2>4, <2>5, <2>6, <2>7, <2>8, <2>9
<1>9. CASE Ahead
  BY <1>9 DEF Ahead, NextTick, engine, starts, timer
<1>10. CASE Behind
  BY <1>10 DEF Behind, NextTick, engine, starts, timer
<1>11. CASE Resync
  BY <1>11 DEF Resync, Resynced, engine, starts, timer
<1>12. CASE Wake
  BY <1>12 DEF Wake, engine, schedule, starts, timer
<1>13. CASE Tick
  BY <1>13 DEF Tick, engine, schedule, starts, timer
<1>14. CASE InputChange
  BY <1>14 DEF InputChange, engine, schedule, starts, timer
<1>15. CASE UNCHANGED vars
  BY <1>15 DEF vars, engine, schedule, starts, timer
<1> QED
  BY <1>1, <1>2, <1>3, <1>4, <1>5, <1>6, <1>7, <1>8, <1>9, <1>10, <1>11, <1>12, <1>13, <1>14, <1>15 DEF Next
-----------------------------------------------------------------------------
LEMMA InitIInv == Init => IInv
<1> SUFFICES ASSUME Init PROVE IInv
  OBVIOUS
<1> USE Params DEF Init, Never
<1>1. TypeOK
  <2>1. /\ input \in BOOLEAN /\ first \in BOOLEAN /\ in \in BOOLEAN /\ q \in BOOLEAN
    OBVIOUS
  <2>3. et \in 0..PT /\ lastScanStart \in Nat \cup {Never} /\ before \in Nat \cup {Never}
    OBVIOUS
  <2>2. /\ clock = 0 /\ thread = "none" /\ nextTick = 0 /\ base = 0 /\ cycleStart = 0
        /\ kind \in {"TON", "TOF"} /\ from = 0 /\ scans = 0
    OBVIOUS
  <2> HIDE DEF Init
  <2> QED
    BY <2>1, <2>2, <2>3 DEF TypeOK
<1>2. Past /\ Grid /\ Schedule /\ Timer /\ LossBounded
  BY DEF Past, Grid, Schedule, Timer, LossBounded
<1> QED
  BY <1>1, <1>2 DEF IInv

LEMMA NextIInv == IInv /\ [Next]_vars => IInv'
  BY TypeOKStep, PastStep, GridStep, ScheduleStep, TimerStep, LossStep DEF IInv

LEMMA SpecIInv == Spec => []IInv
  BY InitIInv, NextIInv, PTL DEF Spec
-----------------------------------------------------------------------------
(* The theorems.                                                            *)

\* ScanEngine::run() keeps its ticks on the grid that it laid out at the start or
\* after it lost a cycle: late wake-ups do not add up, for any cycle time.
THEOREM TicksOnTheGrid == Spec => []OnTheGrid
<1>1. IInv => OnTheGrid
  <2> SUFFICES ASSUME IInv,
                      thread \in {"loop", "execute", "end", "resync", "sleep"}
               PROVE  (nextTick - base) % CycleTime = 0
    BY DEF OnTheGrid
  <2>1. PICK n \in Nat : nextTick = base + n * CycleTime
    BY DEF IInv, Grid
  <2>2. nextTick - base = n * CycleTime
    BY <2>1, Params, Distribute DEF IInv, TypeOK
  <2> QED
    BY <2>2, Params, MultipleMod
<1> QED
  BY <1>1, SpecIInv, PTL

\* However late a scan or a wake-up was, ScanEngine::run() never makes up for it
\* with scans back to back: from each scan to the one after the next it takes a
\* whole cycle.
THEOREM ScansDoNotBurst == Spec => []NoBurst
<1>1. IInv => NoBurst
  BY Params DEF IInv, TypeOK, Schedule, NoBurst, Never
<1> QED
  BY <1>1, SpecIInv, PTL

\* TON and TOF, fed with the whole milliseconds that runOnce() publishes, never run ahead of
\* the clock: however irregular the scans are, across stop() and start() as well.
THEOREM TimersAreNeverEarly == Spec => []NeverEarly
<1>1. IInv => NeverEarly
  BY DEF IInv, TypeOK, LossBounded, Shows, Seen, NeverEarly, Counting
<1> QED
  BY <1>1, SpecIInv, PTL

\* How late they can be: a timer whose preset has not passed has lost less than a millisecond
\* in each scan that has seen its input, which is what runOnce() cuts off, and no more.
THEOREM LossIsLessThanAMillisecondPerScan ==
  Spec => [](scans > 0 /\ Counting /\ et # PT =>
               Seen - UnitsPerMs * et <= scans * (UnitsPerMs - 1))
<1>1. ASSUME IInv, scans > 0, Counting, et # PT
      PROVE  Seen - UnitsPerMs * et <= scans * (UnitsPerMs - 1)
  <2>1. UnitsPerMs * et >= Seen - scans * (UnitsPerMs - 1)
    BY <1>1 DEF IInv, TypeOK, LossBounded, Shows, Counting
  <2>2. /\ UnitsPerMs * et \in Int /\ Seen \in Int /\ scans * (UnitsPerMs - 1) \in Int
    BY <1>1, Params DEF IInv, TypeOK, Timer, Seen, Never
  <2> QED
    BY <2>1, <2>2
<1> QED
  BY <1>1, SpecIInv, PTL
=============================================================================
