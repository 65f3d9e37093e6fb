------------------------------ MODULE Runtime ------------------------------
(***************************************************************************)
(* The native program runtime, src/apps/plc_runtime/main.cpp, together     *)
(* with the shape of the code that plc_build.py and plc_codegen generate   *)
(* for it.                                                                  *)
(*                                                                          *)
(* Two threads share one Runtime object.  The worker thread calls tick()   *)
(* under the mutex about once per millisecond; tick() dispatches the       *)
(* organisation blocks (OBs) that are due.  The command thread reads one   *)
(* line at a time from standard input, raises the atomic `cancel' flag for *)
(* STOP and QUIT before it waits for the mutex, and then executes the      *)
(* command under it.  Everything the holder of the mutex does is           *)
(* sequential, so the only things that change under its feet are the clock *)
(* and `cancel': the steps below are cut where the code reads one of them. *)
(*                                                                          *)
(* A running OB is a frame of `stack'.  At a checkpoint (block entry,      *)
(* network boundary, WHILE iteration) serviceDue() may dispatch cyclic OBs *)
(* of a higher priority on top of it, so frames nest.                       *)
(*                                                                          *)
(* Abstractions: the output images are one value, zero or not; tag values  *)
(* other than System.CycleTime and __plc_dispatch, traces and the          *)
(* statistics that nothing reads back (cycles, overruns, maxima, jitter)   *)
(* are left out; the clock is a number of abstract units; every program    *)
(* that LOAD accepts has the task table given by the constants.            *)
(***************************************************************************)
EXTENDS Integers, Sequences

CONSTANTS
  Task,        \* indices of the task table (std::vector<TaskState>), from 1
  Main,        \* the index of OB1
  Kind,        \* "startup", "main" or "cyclic", per task
  Priority,    \* 0..99 per task, larger is more urgent
  Period,      \* release period per task
  Watchdog,    \* longest execution per task
  Networks,    \* number of networks in the body of each OB
  NativeTask,  \* OBs whose networks are native blocks that poll checkpoint()
  LoopTask,    \* OBs whose networks may iterate a WHILE loop for ever
  FailTask,    \* OBs whose networks may raise an exception
  Commands,    \* the command lines that standard input delivers
  Boot,        \* the steady clock when the process starts (its epoch is 0)
  MaxTime,     \* bound of the clock
  UnitsPerMs   \* clock units in a millisecond

RunOb == {"startup", "main", "cyclic"}

\* load() lines 155-162: what an accepted task table satisfies.
ASSUME TableAssumption ==
  /\ Task \subseteq Nat \ {0}
  /\ Main \in Task
  /\ Kind \in [Task -> RunOb]
  /\ \A t \in Task : Kind[t] = "main" <=> t = Main
  /\ Priority \in [Task -> 0..99]
  /\ Period \in [Task -> Nat \ {0}]
  /\ Watchdog \in [Task -> Nat \ {0}]

ASSUME ProgramAssumption ==
  /\ Networks \in [Task -> Nat \ {0}]
  /\ NativeTask \subseteq Task
  /\ LoopTask \subseteq Task
  /\ FailTask \subseteq Task
  /\ Commands \subseteq
       {"LOAD", "RUN", "STOP", "RESET", "STEP", "SET", "STATUS", "QUIT"}

\* The steady clock counts from boot, so no program runs at its epoch.
ASSUME ClockAssumption ==
  /\ Boot \in Nat \ {0}
  /\ MaxTime \in Nat
  /\ UnitsPerMs \in Nat \ {0}

VARIABLES
  clock,           \* Clock::now()
  state, error,    \* Runtime::state; error is "" or what the first fault was
  cancel,          \* Runtime::cancel, the only field written without the mutex
  startupPending,  \* Runtime::startupPending
  next, last,      \* TaskState::next and ::last per task; 0 is time_point{}
  active,          \* TaskState::active
  missed,          \* TaskState::missed
  outputs,         \* the PLC_OUTPUT images: 0 when every byte is zero
  cycleTime,       \* the System.CycleTime tag, in milliseconds
  dispatchTag,     \* the __plc_dispatch tag
  holder,          \* who holds Runtime::mutex
  phase,           \* which loop of the holder feeds the outermost dispatches
  stack,           \* activation records of the OBs that are executing
  due,             \* per nesting level, what the dispatch loop has left to do
  line,            \* the command line being executed by the command thread
  worker           \* whether the worker thread is alive

taskVars == <<next, last, active, missed>>
memoryVars == <<outputs, cycleTime, dispatchTag>>
modeVars == <<state, error, cancel, startupPending>>
callVars == <<holder, phase, stack, due>>
vars == <<clock, modeVars, taskVars, memoryVars, callVars, line, worker>>

Pc == {"check", "run", "done", "cancelled", "failed"}

\* task is the dispatched OB; body is the OB whose networks it executes once
\* generated_run() has read __plc_dispatch (0 before that); at counts the
\* checkpoints passed; elapsed is ctx.elapsed_us; previous is what dispatch()
\* saved of System.CycleTime.
Frame == [task : Task, body : Task \cup {0}, at : Nat, pc : Pc,
          elapsed : Nat, previous : Nat]

TypeOK ==
  /\ clock \in Nat
  /\ state \in {"EMPTY", "STOP", "RUN", "FAULT"}
  /\ error \in {"", "watchdog", "exception", "native"}
  /\ cancel \in BOOLEAN
  /\ startupPending \in BOOLEAN
  /\ next \in [Task -> Nat]
  /\ last \in [Task -> Nat]
  /\ active \in [Task -> BOOLEAN]
  /\ missed \in [Task -> Nat]
  /\ outputs \in {0, 1}
  /\ cycleTime \in Nat
  /\ dispatchTag \in Task \cup {0}
  /\ holder \in {"none", "worker", "command"}
  /\ phase \in {"idle", "startup", "service", "step"}
  /\ stack \in Seq(Frame)
  /\ due \in Seq(SUBSET Task)
  /\ line \in Commands \cup {"none", "exit"}
  /\ worker \in {"loop", "done"}

-----------------------------------------------------------------------------
(* Where the holder of the mutex is.                                        *)

Top == stack[Len(stack)]
Under == SubSeq(stack, 1, Len(stack) - 1)

\* The generated code of the top frame is executing.
Executing == stack # <<>> /\ Len(due) = Len(stack)

\* A dispatch loop is executing: that of tick(), step(), or of the checkpoint
\* at which the top frame waits.
Serving == Len(due) = Len(stack) + 1

Queue == due[Len(due)]

\* Replaces the top frame.
SetTop(frame) == stack' = Append(Under, frame)

\* Mutant: serviceDue() pays no attention to its parameters.
DueAnything(above, cyclicOnly) ==
  {t \in Task : ~active[t] /\ Kind[t] # "startup" /\ clock >= next[t]}

\* serviceDue(): what is due, restricted to cyclic OBs above a priority when a
\* checkpoint asks.
Due(above, cyclicOnly) ==
  {t \in Task :
     /\ ~active[t]
     /\ Kind[t] # "startup"
     /\ cyclicOnly => Kind[t] = "cyclic" /\ Priority[t] > above
     /\ clock >= next[t]}

\* std::stable_sort by descending priority; the startup loop runs in table order.
Before(t, u) ==
  IF phase = "startup" /\ stack = <<>>
  THEN t < u
  ELSE Priority[t] > Priority[u] \/ (Priority[t] = Priority[u] /\ t < u)

Overdue(t) == clock - last[t] > Watchdog[t]

-----------------------------------------------------------------------------
(* fault() and safeOutputs().                                               *)

Fault(cause) ==
  /\ error' = IF error = "" THEN cause ELSE error
  /\ state' = "FAULT"
  /\ cancel' = TRUE
  /\ outputs' = 0
  /\ UNCHANGED startupPending

NoFault == UNCHANGED modeVars

Release ==
  /\ holder' = "none"
  /\ phase' = "idle"
  /\ due' = <<>>

-----------------------------------------------------------------------------
(* The worker thread: tick().  A tick that finds nothing to do takes and    *)
(* returns the mutex without any effect, which is a stuttering step.        *)

TickStartup ==
  /\ worker = "loop" /\ holder = "none"
  /\ state = "RUN" /\ ~cancel
  /\ startupPending
  /\ startupPending' = FALSE
  /\ holder' = "worker"
  /\ phase' = "startup"
  /\ due' = <<{t \in Task : Kind[t] = "startup"}>>
  /\ UNCHANGED <<clock, state, error, cancel, taskVars, memoryVars, stack,
                 line, worker>>

\* Mutant: tick() does not look at the mode.
TickServiceAnyMode ==
  /\ worker = "loop" /\ holder = "none" /\ ~cancel /\ ~startupPending
  /\ Due(0, FALSE) # {}
  /\ holder' = "worker" /\ phase' = "service" /\ due' = <<Due(0, FALSE)>>
  /\ UNCHANGED <<clock, modeVars, taskVars, memoryVars, stack, line, worker>>

TickService ==
  /\ worker = "loop" /\ holder = "none"
  /\ state = "RUN" /\ ~cancel
  /\ ~startupPending
  /\ Due(0, FALSE) # {}
  /\ holder' = "worker"
  /\ phase' = "service"
  /\ due' = <<Due(0, FALSE)>>
  /\ UNCHANGED <<clock, modeVars, taskVars, memoryVars, stack, line, worker>>

\* tick() after its startup loop: the ordinary service of the same tick.
StartupEnd ==
  /\ Serving /\ stack = <<>> /\ phase = "startup"
  /\ Queue = {} /\ ~cancel
  /\ phase' = "service"
  /\ due' = <<Due(0, FALSE)>>
  /\ UNCHANGED <<clock, modeVars, taskVars, memoryVars, holder, stack, line,
                 worker>>

TickEnd ==
  /\ Serving /\ stack = <<>> /\ phase \in {"startup", "service"}
  /\ cancel \/ (Queue = {} /\ phase = "service")
  /\ Release
  /\ UNCHANGED <<clock, modeVars, taskVars, memoryVars, stack, line, worker>>

-----------------------------------------------------------------------------
(* dispatch().                                                              *)

\* Line 178, without the comparison of the clock and with it.
ReleasedAlways(t) == Kind[t] # "startup"   \* mutant
Released(t) == Kind[t] # "startup" /\ clock >= next[t]

\* The whole periods by which the release of t is late.
Skips(t) == (clock - next[t]) \div Period[t]

\* Mutants: missed periods are not skipped; the grid of releases is forgotten.
NextReleaseCatchUp(t) == next[t] + Period[t]
NextReleaseDrift(t) == clock + Period[t]
NextRelease(t) == next[t] + (Skips(t) + 1) * Period[t]

Elapsed(t) == IF last[t] = 0 THEN Period[t] ELSE clock - last[t]

Activation(t) ==
  [task |-> t, body |-> 0, at |-> 0, pc |-> "check", elapsed |-> Elapsed(t),
   previous |-> cycleTime]

\* Lines 175-182 and the first act of run_ob<N>, which is to set __plc_dispatch.
Enter(t) ==
  /\ last' = [last EXCEPT ![t] = clock]
  /\ active' = [active EXCEPT ![t] = TRUE]
  /\ IF Released(t)
     THEN /\ missed' = [missed EXCEPT ![t] = missed[t] + Skips(t)]
          /\ next' = [next EXCEPT ![t] = NextRelease(t)]
     ELSE UNCHANGED <<missed, next>>
  /\ cycleTime' = Elapsed(t) \div UnitsPerMs
  /\ dispatchTag' = t
  /\ stack' = Append(stack, Activation(t))
  /\ UNCHANGED outputs

\* Mutant: a dispatch loop does not look at `cancel'.
DispatchStubborn(t) ==
  /\ Serving /\ t \in Queue
  /\ \A u \in Queue \ {t} : Before(t, u)
  /\ due' = [due EXCEPT ![Len(due)] = Queue \ {t}]
  /\ Enter(t)
  /\ UNCHANGED <<clock, modeVars, holder, phase, line, worker>>

\* One turn of a dispatch loop.  serviceDue() looks at the clock again before
\* it dispatches an entry of its list; the startup loop and step() do not.
Dispatch(t) ==
  /\ Serving /\ ~cancel
  /\ t \in Queue
  /\ \A u \in Queue \ {t} : Before(t, u)
  /\ due' = [due EXCEPT ![Len(due)] = Queue \ {t}]
  /\ IF clock >= next[t] \/ (stack = <<>> /\ phase \in {"startup", "step"})
     THEN Enter(t)
     ELSE UNCHANGED <<taskVars, memoryVars, stack>>
  /\ UNCHANGED <<clock, modeVars, holder, phase, line, worker>>

\* Line 185, left out and in place.
NotRestored(f) == cycleTime   \* mutant
Restored(f) == IF Under = <<>> THEN cycleTime ELSE f.previous

\* Lines 184-190: the entry point returned.
Leave ==
  LET f == Top
      overran == Overdue(f.task) /\ error = ""
      broken == f.pc # "done" /\ ~cancel
  IN  /\ Executing /\ f.pc \in {"done", "cancelled", "failed"}
      /\ stack' = Under
      /\ active' = [active EXCEPT ![f.task] = FALSE]
      /\ cycleTime' = Restored(f)
      /\ IF overran \/ broken
         THEN Fault(IF overran THEN "watchdog" ELSE "exception")
         ELSE NoFault /\ outputs' = IF cancel THEN 0 ELSE outputs
      /\ UNCHANGED <<clock, next, last, missed, dispatchTag, holder, phase,
                     due, line, worker>>

-----------------------------------------------------------------------------
(* checkpoint() and the generated code around it.                           *)

InNative(f) == f.body \in NativeTask /\ f.at \in 1..Networks[f.body]

\* A checkpoint that returns 0: the code after it runs.  The first one is the
\* check(c) of generated_run(), after which it reads __plc_dispatch.
Pass(f) ==
  [f EXCEPT !.pc = "run", !.body = IF f.at = 0 THEN dispatchTag ELSE f.body]

\* What follows a checkpoint that returns -1, after a fault when `cause' names
\* one.  Generated code throws Cancelled.  A native block either returns an
\* error, so that its generated caller throws and run_ob<N> reports a fault, or
\* pays no attention.
Refuse(cause) ==
  \/ /\ SetTop([Top EXCEPT !.pc = IF InNative(Top) THEN "failed" ELSE "cancelled"])
     /\ IF cause # "" \/ InNative(Top)
        THEN Fault(IF cause # "" THEN cause ELSE "native")
        ELSE NoFault /\ UNCHANGED outputs
  \/ /\ InNative(Top)
     /\ SetTop(Pass(Top))
     /\ IF cause # "" THEN Fault(cause) ELSE NoFault /\ UNCHANGED outputs

CheckCancelled ==
  /\ Executing /\ Top.pc = "check" /\ cancel
  /\ Refuse("")
  /\ UNCHANGED <<clock, taskVars, cycleTime, dispatchTag, holder, phase, due,
                 line, worker>>

\* A checkpoint that finds an executing OB past its watchdog.
CheckWatchdog ==
  /\ Executing /\ Top.pc = "check" /\ ~cancel
  /\ \E k \in 1..Len(stack) : Overdue(stack[k].task)
  /\ Refuse("watchdog")
  /\ UNCHANGED <<clock, taskVars, cycleTime, dispatchTag, holder, phase, due,
                 line, worker>>

CheckOnTime ==
  /\ Executing /\ Top.pc = "check" /\ ~cancel
  /\ \A k \in 1..Len(stack) : ~Overdue(stack[k].task)

\* Mutant: startup OBs are interrupted as well.
CheckServeStartup ==
  /\ CheckOnTime
  /\ state = "RUN" /\ Due(Priority[Top.task], TRUE) # {}
  /\ due' = Append(due, Due(Priority[Top.task], TRUE))
  /\ UNCHANGED <<clock, modeVars, taskVars, memoryVars, holder, phase, stack,
                 line, worker>>

\* A checkpoint that starts the service of more urgent cyclic OBs.
CheckServe ==
  /\ CheckOnTime
  /\ state = "RUN" /\ Kind[Top.task] # "startup"
  /\ Due(Priority[Top.task], TRUE) # {}
  /\ due' = Append(due, Due(Priority[Top.task], TRUE))
  /\ UNCHANGED <<clock, modeVars, taskVars, memoryVars, holder, phase, stack,
                 line, worker>>

\* A checkpoint with nothing to service.
CheckPass ==
  /\ CheckOnTime
  /\ \/ state # "RUN" \/ Kind[Top.task] = "startup"
     \/ Due(Priority[Top.task], TRUE) = {}
  /\ SetTop(Pass(Top))
  /\ UNCHANGED <<clock, modeVars, taskVars, memoryVars, holder, phase, due,
                 line, worker>>

\* serviceDue() returns to the checkpoint, which looks at `cancel' again.
ServeEnd ==
  /\ Serving /\ stack # <<>>
  /\ cancel \/ Queue = {}
  /\ due' = SubSeq(due, 1, Len(due) - 1)
  /\ IF cancel THEN Refuse("")
               ELSE SetTop(Pass(Top)) /\ NoFault /\ UNCHANGED outputs
  /\ UNCHANGED <<clock, taskVars, cycleTime, dispatchTag, holder, phase, line,
                 worker>>

\* generated code after a native block calls check(c) once more.
LastCheck(f) == Networks[f.body] + (IF f.body \in NativeTask THEN 1 ELSE 0)

\* A network (or the code before the first one) runs to its end and may write
\* outputs.
RunNetwork ==
  LET f == Top IN
  /\ Executing /\ f.pc = "run"
  /\ SetTop(IF f.at = LastCheck(f) THEN [f EXCEPT !.pc = "done"]
            ELSE [f EXCEPT !.pc = "check", !.at = f.at + 1])
  /\ outputs' \in IF f.at \in 1..Networks[f.body] THEN {outputs, 1} ELSE {outputs}
  /\ UNCHANGED <<clock, modeVars, taskVars, cycleTime, dispatchTag, holder,
                 phase, due, line, worker>>

\* A WHILE iteration inside a network: another checkpoint and no progress.
LoopAgain ==
  /\ Executing /\ Top.pc = "run" /\ Top.body \in LoopTask
  /\ Top.at \in 1..Networks[Top.body]
  /\ SetTop([Top EXCEPT !.pc = "check"])
  /\ UNCHANGED <<clock, modeVars, taskVars, memoryVars, holder, phase, due,
                 line, worker>>

\* A network raises an exception, which run_ob<N> turns into a fault.
RaiseError ==
  /\ Executing /\ Top.pc = "run" /\ Top.body \in FailTask
  /\ Top.at \in 1..Networks[Top.body]
  /\ SetTop([Top EXCEPT !.pc = "failed"])
  /\ Fault("exception")
  /\ UNCHANGED <<clock, taskVars, cycleTime, dispatchTag, holder, phase, due,
                 line, worker>>

-----------------------------------------------------------------------------
(* The command thread, lines 234-262.                                       *)

\* Mutant: STOP waits for the mutex like any other command.
ReadLinePatient(c) ==
  /\ line = "none"
  /\ line' = c
  /\ cancel' = (cancel \/ c = "QUIT")
  /\ UNCHANGED <<clock, state, error, startupPending, taskVars, memoryVars,
                 callVars, worker>>

\* getline(): STOP and QUIT raise `cancel' before they wait for the mutex.
ReadLine(c) ==
  /\ line = "none"
  /\ line' = c
  /\ cancel' = (cancel \/ c \in {"STOP", "QUIT"})
  /\ UNCHANGED <<clock, state, error, startupPending, taskVars, memoryVars,
                 callVars, worker>>

\* Mutant: line 262 without cancel=true.
EndOfInputPatient ==
  /\ line = "none"
  /\ line' = "exit"
  /\ UNCHANGED <<clock, modeVars, taskVars, memoryVars, callVars, worker>>

\* Standard input is at its end.
EndOfInput ==
  /\ line = "none"
  /\ line' = "exit"
  /\ cancel' = TRUE
  /\ UNCHANGED <<clock, state, error, startupPending, taskVars, memoryVars,
                 callVars, worker>>

\* The command thread owns the mutex for the whole of its handler.
Handle(c) ==
  /\ line = c /\ holder = "none"
  /\ line' = "none"
  /\ UNCHANGED <<clock, callVars, worker>>

\* std::vector<TaskState> freshly made.
NewTasks ==
  /\ next' = [t \in Task |-> 0]
  /\ last' = [t \in Task |-> 0]
  /\ active' = [t \in Task |-> FALSE]
  /\ missed' = [t \in Task |-> 0]

\* Memory::reset() or a new Memory, then safeOutputs().
NewMemory == outputs' = 0 /\ cycleTime' = 0 /\ dispatchTag' = 0

\* Mutant: the recorded error survives.
StoppedWithError ==
  /\ state' = "STOP" /\ cancel' = FALSE /\ UNCHANGED <<error, startupPending>>

\* STOP, no fault recorded, `cancel' lowered: how load() and reset() end.
Stopped ==
  /\ state' = "STOP" /\ error' = "" /\ cancel' = FALSE
  /\ UNCHANGED startupPending

\* A command that throws is answered with an error and has no other effect.
Refusal == UNCHANGED <<modeVars, taskVars, memoryVars>>

\* load(): everything is validated before anything is replaced.
Load ==
  /\ Handle("LOAD")
  /\ \/ state # "RUN" /\ NewTasks /\ NewMemory /\ Stopped
     \/ Refusal

\* Mutant: RUN does not ask for the startup OBs.
StartPlain ==
  /\ Handle("RUN")
  /\ IF state = "STOP"
     THEN /\ state' = "RUN" /\ error' = "" /\ cancel' = FALSE
          /\ startupPending' = FALSE
          /\ last' = [t \in Task |-> 0]
          /\ next' = [t \in Task |->
                        clock + (IF Kind[t] = "cyclic" THEN Period[t] ELSE 0)]
          /\ UNCHANGED <<active, missed, memoryVars>>
     ELSE Refusal

\* start().
Start ==
  /\ Handle("RUN")
  /\ IF state = "STOP"
     THEN /\ state' = "RUN" /\ error' = "" /\ cancel' = FALSE
          /\ startupPending' = TRUE
          /\ last' = [t \in Task |-> 0]
          /\ next' = [t \in Task |->
                        clock + (IF Kind[t] = "cyclic" THEN Period[t] ELSE 0)]
          /\ UNCHANGED <<active, missed, memoryVars>>
     ELSE Refusal

\* stop().
StopEffect ==
  /\ outputs' = 0
  /\ state' = IF state \in {"EMPTY", "FAULT"} THEN state ELSE "STOP"
  /\ UNCHANGED <<error, startupPending, taskVars, cycleTime, dispatchTag>>

Stop == Handle("STOP") /\ StopEffect /\ UNCHANGED cancel

\* reset().
Reset ==
  /\ Handle("RESET")
  /\ IF state \in {"STOP", "FAULT"}
     THEN NewTasks /\ NewMemory /\ Stopped
     ELSE Refusal

\* SET of an output tag; other tags are not modelled and behave as STATUS.
SetOutput ==
  /\ Handle("SET")
  /\ outputs' \in IF state = "RUN" THEN {0, 1} ELSE {outputs}
  /\ UNCHANGED <<modeVars, taskVars, cycleTime, dispatchTag>>

Status == Handle("STATUS") /\ Refusal

\* step(): the dispatch loop has OB1 as its only entry.
StepBegin ==
  /\ line = "STEP" /\ holder = "none"
  /\ IF state = "STOP"
     THEN /\ cancel' = FALSE
          /\ holder' = "command" /\ phase' = "step" /\ due' = <<{Main}>>
          /\ UNCHANGED line
     ELSE line' = "none" /\ UNCHANGED <<cancel, holder, phase, due>>
  /\ UNCHANGED <<clock, state, error, startupPending, taskVars, memoryVars,
                 stack, worker>>

\* Mutant: step() leaves the outputs as OB1 set them.
StepEndKeeps ==
  /\ Serving /\ stack = <<>> /\ phase = "step" /\ Queue = {}
  /\ line' = "none"
  /\ Release
  /\ UNCHANGED <<clock, modeVars, taskVars, memoryVars, stack, worker>>

StepEnd ==
  /\ Serving /\ stack = <<>> /\ phase = "step" /\ Queue = {}
  /\ outputs' = 0
  /\ line' = "none"
  /\ Release
  /\ UNCHANGED <<clock, modeVars, taskVars, cycleTime, dispatchTag, stack,
                 worker>>

\* QUIT, and line 262 after the loop.
Quit ==
  /\ line = "QUIT" /\ holder = "none"
  /\ StopEffect
  /\ cancel' = TRUE
  /\ line' = "exit"
  /\ UNCHANGED <<clock, callVars, worker>>

\* The worker sees the stop request between two ticks, and main() joins it.
WorkerExit ==
  /\ line = "exit" /\ worker = "loop" /\ holder # "worker"
  /\ worker' = "done"
  /\ UNCHANGED <<clock, modeVars, taskVars, memoryVars, callVars, line>>

-----------------------------------------------------------------------------
\* Time passes, whoever is executing.
Advance ==
  /\ clock < MaxTime
  /\ clock' = clock + 1
  /\ UNCHANGED <<modeVars, taskVars, memoryVars, callVars, line, worker>>

\* The process has ended.
Terminated == line = "exit" /\ worker = "done" /\ UNCHANGED vars

Init ==
  /\ clock = Boot
  /\ state = "EMPTY" /\ error = "" /\ cancel = FALSE /\ startupPending = FALSE
  /\ next = [t \in Task |-> 0]
  /\ last = [t \in Task |-> 0]
  /\ active = [t \in Task |-> FALSE]
  /\ missed = [t \in Task |-> 0]
  /\ outputs = 0 /\ cycleTime = 0 /\ dispatchTag = 0
  /\ holder = "none" /\ phase = "idle" /\ stack = <<>> /\ due = <<>>
  /\ line = "none" /\ worker = "loop"

\* Steps of whoever executes program code under the mutex.
ProgramStep ==
  \/ StartupEnd \/ TickEnd \/ StepEnd
  \/ (\E t \in Task : Dispatch(t)) \/ Leave
  \/ CheckCancelled \/ CheckWatchdog \/ CheckServe \/ CheckPass \/ ServeEnd
  \/ RunNetwork \/ LoopAgain \/ RaiseError

HandleLine ==
  \/ Load \/ Start \/ Stop \/ Reset \/ SetOutput \/ Status \/ StepBegin \/ Quit

Next ==
  \/ ProgramStep
  \/ TickStartup \/ TickService \/ WorkerExit
  \/ (\E c \in Commands : ReadLine(c)) \/ EndOfInput \/ HandleLine
  \/ Advance
  \/ Terminated

Spec == Init /\ [][Next]_vars

\* The holder of the mutex is never descheduled for ever, the worker sleeps a
\* millisecond without the mutex after every tick, so that the command thread,
\* which blocks on it, gets it, and an ending worker is joined.
Fairness ==
  /\ WF_vars(ProgramStep)
  /\ SF_vars(HandleLine)
  /\ WF_vars(WorkerExit)
-----------------------------------------------------------------------------
(* Properties.                                                              *)

\* Whenever the mutex is free and the runtime is not in RUN, every output byte
\* is zero: after a fault at any depth of the stack, after STOP, STEP, RESET
\* and LOAD, and although native code may go on writing after a fault.
OutputsSafe == holder = "none" /\ state # "RUN" => outputs = 0

\* OBs nest only under OBs of a strictly lower priority.  In particular no OB
\* is entered again while it is executing, although every checkpoint on the
\* stack keeps a list of OBs it has still to dispatch.
StackOrdered ==
  \A j, k \in 1..Len(stack) :
    j < k => Priority[stack[j].task] < Priority[stack[k].task]

\* A startup OB is never interrupted.
StartupAlone ==
  \A k \in 1..Len(stack) : Kind[stack[k].task] = "startup" => k = Len(stack)

\* An OB that executes sees in System.CycleTime the time since its own last
\* release, whatever ran on top of it since it was dispatched.
CycleTimeOwn == Executing => cycleTime = Top.elapsed \div UnitsPerMs

\* FAULT, a recorded error and a raised `cancel' go together until LOAD or RESET.
FaultLatched ==
  /\ state = "FAULT" <=> error # ""
  /\ state = "FAULT" => cancel

\* In RUN, the next release of an OB that has executed lies strictly after the
\* last one and at most a period away: however late a release was, the periods
\* that it missed leave no backlog of releases to catch up with.
NoBacklog ==
  state = "RUN" =>
    \A t \in Task : Kind[t] # "startup" /\ last[t] # 0 =>
      last[t] < next[t] /\ next[t] <= last[t] + Period[t]

\* Once STOP (or QUIT) has been read no OB begins until it has been executed,
\* neither from the startup loop, nor from a list that is being served, nor
\* from a checkpoint at any depth.
NoDispatchDuringStop ==
  [][(line \in {"STOP", "QUIT"}) => Len(stack') <= Len(stack)]_vars

\* Only LOAD and RESET leave FAULT.
FaultExit ==
  [][state = "FAULT" /\ state' # "FAULT" => line \in {"LOAD", "RESET"}]_vars

\* STOP is executed whatever the program does, endless WHILE loops included.
StopHonoured == line = "STOP" ~> line # "STOP" /\ state # "RUN"

\* After QUIT or the end of standard input the worker is joined.
ExitHonoured == line = "exit" ~> worker = "done"

\* The runtime implements ObExecution.  Between the end of a single-stepped OB1
\* and safeOutputs() outputs may be set, but nobody can see it: step() still
\* holds the mutex.
Promise == INSTANCE ObExecution WITH
  mode <- state,
  nest <- [k \in 1..Len(stack) |-> stack[k].task],
  out <- IF phase = "step" /\ stack = <<>> THEN 0 ELSE outputs

KeepsPromise == Promise!Spec

\* An OB that executes networks executes its own.
BodyOwn ==
  \A k \in 1..Len(stack) : stack[k].body \in {0, stack[k].task}
=============================================================================
