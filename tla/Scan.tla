-------------------------------- MODULE Scan --------------------------------
(***************************************************************************)
(* The scan engine src/src/core/scan_engine.cpp with a program that is one  *)
(* standard timer, src/include/softplc/st/standard_fbs.hpp: the thread that *)
(* starts and stops the engine, the scan thread with its fixed schedule,    *)
(* the tag System.CycleTime and a TON or TOF that adds it up.               *)
(*                                                                          *)
(* Time is counted in units of the steady clock; the timer counts           *)
(* milliseconds.  Time passes between any two steps, so a scan may take and *)
(* a sleep may last as long as they like.                                   *)
(***************************************************************************)
EXTENDS Integers

CONSTANTS
  UnitsPerMs,  \* units of the clock in a millisecond
  CycleTime,   \* ScanEngine::cycleTime_, in units
  PT,          \* the timer's preset, in milliseconds
  MaxTime      \* bound of the clock

ASSUME ScanAssumption ==
  /\ UnitsPerMs \in Nat \ {0} /\ CycleTime \in Nat \ {0} /\ PT \in Nat \ {0}
  /\ MaxTime \in Nat

Never == -1

VARIABLES
  clock,         \* the steady clock
  input,         \* the input that readInputs() finds
  (* the thread that owns the engine *)
  control,       \* "idle", "starting" or "stopping"
  rtReady,       \* rtReady_
  stopRequested, \* the stop token
  (* the scan thread *)
  thread,        \* "none", or what it does next
  nextTick,      \* nextTick in run()
  cycleStart,    \* cycleStart in runOnce()
  lastScanStart, \* lastScanStart_
  dt,            \* System.CycleTime
  (* the timer *)
  kind,          \* "TON" or "TOF"
  in, q, et,     \* IN, Q and ET
  (* history *)
  base,          \* when the schedule was laid out
  first,         \* whether a run has had no scan yet
  before,        \* the start of the scan before the last, in the same run
  from,          \* since when IN has had its value, at the earliest
  scans          \* the scans that have seen it

engine == <<control, rtReady, stopRequested>>
schedule == <<nextTick, base>>
starts == <<cycleStart, lastScanStart, first, before>>
timer == <<kind, in, q, et, from, scans>>
vars == <<clock, input, engine, thread, schedule, starts, dt, timer>>
-----------------------------------------------------------------------------
\* start() creates the thread and waits for rtReady_.
Start ==
  /\ control = "idle" /\ thread = "none"
  /\ rtReady' = FALSE
  /\ control' = "starting" /\ stopRequested' = FALSE
  /\ thread' = "apply"
  /\ UNCHANGED <<clock, input, schedule, starts, dt, timer>>

Started ==
  /\ control = "starting" /\ rtReady
  /\ control' = "idle"
  /\ UNCHANGED <<clock, input, rtReady, stopRequested, thread, schedule, starts, dt, timer>>

\* stop() requests the end of the thread and joins it.
Stop ==
  /\ control = "idle" /\ thread # "none"
  /\ control' = "stopping" /\ stopRequested' = TRUE
  /\ UNCHANGED <<clock, input, rtReady, thread, schedule, starts, dt, timer>>

Joined ==
  /\ control = "stopping" /\ thread = "ended"
  /\ control' = "idle" /\ thread' = "none"
  /\ UNCHANGED <<clock, input, rtReady, stopRequested, schedule, starts, dt, timer>>
-----------------------------------------------------------------------------
\* run() applies the policy and says so, and then lays out its schedule.
Apply ==
  /\ thread = "apply"
  /\ rtReady' = TRUE /\ thread' = "enter"
  /\ UNCHANGED <<clock, input, control, stopRequested, schedule, starts, dt, timer>>

Enter ==
  /\ thread = "enter"
  /\ nextTick' = clock /\ base' = clock /\ first' = TRUE
  /\ thread' = "loop"
  /\ UNCHANGED <<clock, input, engine, cycleStart, lastScanStart, before, dt, timer>>

\* The head of the loop: the end, or the beginning of runOnce().
Loop ==
  /\ thread = "loop"
  /\ IF stopRequested
     THEN thread' = "ended" /\ UNCHANGED cycleStart
     ELSE thread' = "execute" /\ cycleStart' = clock
  /\ UNCHANGED <<clock, input, engine, schedule, lastScanStart, first, before, dt, timer>>

\* Mutant: the configured cycle time is published.
ElapsedIdeal == CycleTime \div UnitsPerMs

\* The time since the start of the last scan, in whole milliseconds.
Elapsed ==
  (IF lastScanStart = Never THEN CycleTime ELSE cycleStart - lastScanStart) \div UnitsPerMs

Clamped(t) == IF t > PT THEN PT ELSE t

\* The body of TON, for an IN and a System.CycleTime.
TON(i, d) == IF i THEN LET t == Clamped(et + d) IN [q |-> t >= PT, et |-> t]
                  ELSE [q |-> FALSE, et |-> 0]

\* The body of TOF.
TOF(i, d) == CASE i        -> [q |-> TRUE, et |-> 0]
               [] ~i /\ q  -> LET t == Clamped(et + d) IN [q |-> t < PT, et |-> t]
               [] ~i /\ ~q -> [q |-> FALSE, et |-> et]

\* runOnce() reads the input, publishes the time and executes the timer.
Execute ==
  LET after == IF kind = "TON" THEN TON(input, Elapsed) ELSE TOF(input, Elapsed)
      same == input = in /\ scans > 0
  IN
  /\ thread = "execute"
  /\ in' = input
  /\ dt' = Elapsed
  /\ lastScanStart' = cycleStart
  /\ before' = (IF first THEN Never ELSE lastScanStart) /\ first' = FALSE
  /\ q' = after.q /\ et' = after.et
  /\ scans' = IF same THEN scans + 1 ELSE 1
  /\ from' = IF same THEN from
             ELSE IF lastScanStart = Never THEN cycleStart - CycleTime ELSE lastScanStart
  /\ thread' = "end"
  /\ UNCHANGED <<clock, input, engine, schedule, cycleStart, kind>>

\* Mutant: the schedule is laid out anew for every scan.
NextTickFromNow == clock + CycleTime
NextTick == nextTick + CycleTime

\* Mutant: scans that were missed are caught up with.
ResyncedNot == nextTick
Resynced == clock + CycleTime

\* The end of runOnce() and of the loop: the next tick lies ahead, or a whole cycle
\* has been lost and the schedule starts anew, from a later reading of the clock.
Ahead ==
  /\ thread = "end" /\ NextTick > clock
  /\ nextTick' = NextTick
  /\ thread' = "sleep"
  /\ UNCHANGED <<clock, input, engine, base, starts, dt, timer>>

Behind ==
  /\ thread = "end" /\ NextTick <= clock
  /\ nextTick' = NextTick
  /\ thread' = "resync"
  /\ UNCHANGED <<clock, input, engine, base, starts, dt, timer>>

Resync ==
  /\ thread = "resync"
  /\ nextTick' = Resynced /\ base' = clock
  /\ thread' = "loop"
  /\ UNCHANGED <<clock, input, engine, starts, dt, timer>>

\* sleep_until() returns.
Wake ==
  /\ thread = "sleep" /\ clock >= nextTick
  /\ thread' = "loop"
  /\ UNCHANGED <<clock, input, engine, schedule, starts, dt, timer>>
-----------------------------------------------------------------------------
Tick ==
  /\ clock < MaxTime /\ clock' = clock + 1
  /\ UNCHANGED <<input, engine, thread, schedule, starts, dt, timer>>

InputChange ==
  /\ input' = ~input
  /\ UNCHANGED <<clock, engine, thread, schedule, starts, dt, timer>>

Init ==
  /\ clock = 0 /\ input = FALSE
  /\ control = "idle" /\ rtReady = FALSE /\ stopRequested = FALSE
  /\ thread = "none" /\ nextTick = 0 /\ base = 0 /\ cycleStart = 0
  /\ lastScanStart = Never /\ first = TRUE /\ before = Never /\ dt = 0
  /\ kind \in {"TON", "TOF"} /\ in = FALSE /\ q = FALSE /\ et = 0
  /\ from = 0 /\ scans = 0

Next ==
  \/ Start \/ Started \/ Stop \/ Joined
  \/ Apply \/ Enter \/ Loop \/ Execute \/ Ahead \/ Behind \/ Resync \/ Wake
  \/ Tick \/ InputChange

Spec == Init /\ [][Next]_vars
-----------------------------------------------------------------------------
(* Properties.                                                              *)

\* The ticks stay on the grid that was laid out at the start or at a resync: delays
\* of the operating system do not add up.
OnTheGrid ==
  thread \in {"loop", "execute", "end", "resync", "sleep"} =>
    (nextTick - base) % CycleTime = 0

\* However far the engine falls behind, it does not fire scans back to back: three
\* scans in a row take a cycle at least.
NoBurst ==
  thread = "execute" /\ ~first /\ before # Never => cycleStart - before >= CycleTime

\* What a timer is to show: the time from the scan before its input was first seen to be as
\* it is, to the last scan.
Seen == lastScanStart - from
Counting == IF kind = "TON" THEN in ELSE ~in /\ q

\* No jitter, overrun, stop or start of the engine makes a timer run ahead of the clock: it
\* does not show more than the time since the scan before its input was first seen, and its
\* output does not switch before the preset has passed.
NeverEarly ==
  scans > 0 =>
    /\ Counting => UnitsPerMs * et <= Seen
    /\ kind = "TON" /\ q => in /\ UnitsPerMs * PT <= Seen
    /\ kind = "TOF" /\ ~q => ~in /\ (et = PT => UnitsPerMs * PT <= Seen)
=============================================================================
