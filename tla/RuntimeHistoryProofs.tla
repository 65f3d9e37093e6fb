------------------------ MODULE RuntimeHistoryProofs ------------------------
(***************************************************************************)
(* What the runtime does between one RUN and the next, for every task      *)
(* table, program shape and clock: every release is dispatched or counted  *)
(* as missed, and the startup OBs come first, once each.                   *)
(***************************************************************************)
EXTENDS RuntimeHistory, RuntimeProofs

-----------------------------------------------------------------------------
(* The inductive invariant.                                                 *)

\* The startup loop of tick() has the mutex to itself and startup OBs only.
StartupLoop ==
  phase = "startup" =>
    /\ Len(due) = 1
    /\ \A k \in 1..Len(stack) : Kind[stack[k].task] = "startup"

\* The outermost serviceDue() has no startup OB in its list.
ServiceLoop ==
  phase = "service" => due # <<>> /\ \A t \in due[1] : Kind[t] # "startup"

HistoryTypes ==
  /\ runStart \in Nat
  /\ missedBefore \in [Task -> Nat]
  /\ begun \in [Task -> Nat]

\* Each startup OB has begun once in this RUN, and the startup loop is done
\* with it; or it has not begun and nothing else has but startup OBs, for it is
\* still to come, unless STOP has put an end to the startup loop.
StartupProgress ==
  state = "RUN" =>
    \A s \in Task : Kind[s] = "startup" =>
      \/ /\ begun[s] = 1 /\ ~startupPending
         /\ phase = "startup" => s \notin due[1]
      \/ /\ begun[s] = 0
         /\ \A t \in Task : Kind[t] # "startup" => begun[t] = 0
         /\ \/ startupPending /\ holder = "none"
            \/ ~startupPending /\ phase = "startup" /\ s \in due[1]
            \/ cancel

HInv ==
  /\ IInv /\ StartupLoop /\ ServiceLoop
  /\ HistoryTypes /\ ReleasesAccounted /\ StartupProgress

-----------------------------------------------------------------------------
(* The outermost loop of a tick.                                            *)

\* In the startup loop nothing nests.
LEMMA StartupLoopStep ==
  ASSUME IInv, StartupLoop, [Next]_vars
  PROVE  StartupLoop'
<1>1. TypeOK /\ Levels /\ Modes /\ Order /\ Releases
  BY DEF IInv
<1>2. /\ Len(stack) \in Nat /\ Len(due) \in Nat
      /\ stack = <<>> <=> Len(stack) = 0
      /\ due = <<>> <=> Len(due) = 0
  BY <1>1, StackFacts, DueFacts
<1>3. phase = "startup" => due # <<>>
  BY <1>1 DEF Levels
<1>4. CASE FrameStep
  <2>1. phase' = phase
    BY <1>1, <1>4, OuterLoopKept
  <2>2. /\ stack # <<>> /\ Len(stack') = Len(stack)
        /\ \A k \in 1..Len(stack) : stack'[k].task = stack[k].task
    BY <1>1, <1>4, FrameStepFrame, FrameStepStack
  <2>3. phase = "startup" => ~ServeEnd
    <3>1. ServeEnd => Len(due) = Len(stack) + 1
      BY DEF ServeEnd, Serving
    <3>2. phase = "startup" => Len(due) = 1
      BY DEF StartupLoop
    <3> QED
      BY <1>2, <2>2, <3>1, <3>2
  <2>4. phase = "startup" => UNCHANGED due
    BY <1>4, <2>3 DEF FrameStep, CheckCancelled, CheckWatchdog, CheckPass,
                      RunNetwork, LoopAgain, RaiseError
  <2> QED
    BY <2>1, <2>2, <2>4 DEF StartupLoop
<1>5. CASE CheckServe
  <2>1. stack # <<>> /\ Kind[Top.task] # "startup" /\ phase' = phase
    BY <1>5 DEF CheckServe, CheckOnTime, Executing
  <2>2. Len(stack) \in 1..Len(stack)
    BY <1>2, <2>1
  <2>3. phase # "startup"
    BY <2>1, <2>2 DEF StartupLoop, Top
  <2> QED
    BY <2>1, <2>3 DEF StartupLoop
<1>6. CASE Leave
  <2>1. stack # <<>> /\ stack' = Under /\ UNCHANGED <<phase, due>>
    BY <1>6 DEF Leave, Executing
  <2>2. /\ Len(stack') = Len(stack) - 1
        /\ \A k \in 1..Len(stack) - 1 : stack'[k] = stack[k]
    BY <1>1, <2>1, StackFacts
  <2>3. \A k \in 1..Len(stack') : k \in 1..Len(stack) /\ stack'[k] = stack[k]
    BY <1>2, <2>2
  <2> QED
    BY <2>1, <2>3 DEF StartupLoop
<1>7. ASSUME NEW t \in Task, Dispatch(t)  PROVE StartupLoop'
  <2>1. /\ Len(due') = Len(due) /\ phase' = phase
        /\ Len(due) = Len(stack) + 1 /\ t \in due[Len(due)]
    BY <1>1, <1>7, DispatchLoop
  <2>2. CASE UNCHANGED stack
    BY <2>1, <2>2 DEF StartupLoop
  <2>3. CASE Enter(t) /\ phase = "startup"
    <3>1. Len(due) = 1 /\ Len(stack) = 0
      BY <1>2, <2>1, <2>3 DEF StartupLoop
    <3>2. Kind[t] = "startup"
      BY <1>1, <1>3, <2>1, <2>3, <3>1 DEF Releases
    <3>3. PICK f \in Frame : stack' = Append(stack, f) /\ f.task = t
      BY <1>1, <2>3, EnterFrame
    <3>4. Len(stack') = 1 /\ stack'[1] = f
      BY <1>1, <3>1, <3>3, StackFacts
    <3>5. \A k \in 1..Len(stack') : stack'[k].task = t
      BY <3>3, <3>4
    <3> QED
      BY <2>1, <3>1, <3>2, <3>5 DEF StartupLoop
  <2>4. CASE phase # "startup"
    BY <2>1, <2>4 DEF StartupLoop
  <2> QED
    BY <1>7, <2>2, <2>3, <2>4 DEF Dispatch
<1>8. CASE StartupEnd \/ TickEnd \/ StepEnd \/ TickService
  BY <1>8 DEF StartupEnd, TickEnd, StepEnd, TickService, Release, StartupLoop
<1>9. CASE TickStartup
  <2>1. /\ due' = <<{t \in Task : Kind[t] = "startup"}>>
        /\ holder = "none" /\ UNCHANGED stack
    BY <1>9 DEF TickStartup
  <2>2. Len(due') = 1 /\ Len(stack') = 0
    BY <1>1, <2>1 DEF Levels
  <2> QED
    BY <2>2 DEF StartupLoop
<1>10. CASE StepBegin
  BY <1>1, <1>10 DEF StepBegin, Levels, StartupLoop
<1>11. CASE CommandStep
  BY <1>1, <1>11, CommandUnchanged DEF callVars, Levels, StartupLoop
<1>12. CASE OutsideStep \/ UNCHANGED vars
  BY <1>12, OutsideUnchanged DEF callVars, StartupLoop
<1> QED
  BY <1>4, <1>5, <1>6, <1>7, <1>8, <1>9, <1>10, <1>11, <1>12, NextCases

\* serviceDue() does not list startup OBs.
LEMMA ServiceLoopStep ==
  ASSUME IInv, ServiceLoop, [Next]_vars
  PROVE  ServiceLoop'
<1>1. TypeOK /\ Levels
  BY DEF IInv
<1>2. CASE FrameStep \/ CheckServe \/ Leave
  BY <1>1, <1>2, OuterLoopKept DEF ServiceLoop
<1>3. CASE \E t \in Task : Dispatch(t)
  <2> PICK t \in Task : Dispatch(t)
    BY <1>3
  <2>1. /\ due' # <<>> /\ phase' = phase /\ due'[1] \subseteq due[1]
    BY <1>1, DispatchLoop
  <2> QED
    BY <2>1 DEF ServiceLoop
<1>4. CASE StartupEnd \/ TickService
  <2>1. due' = <<Due(0, FALSE)>>
    BY <1>4 DEF StartupEnd, TickService
  <2>2. due' # <<>> /\ due'[1] = Due(0, FALSE)
    BY <2>1
  <2>3. \A t \in Due(0, FALSE) : Kind[t] # "startup"
    BY DEF Due
  <2> QED
    BY <2>2, <2>3 DEF ServiceLoop
<1>5. CASE TickEnd \/ StepEnd \/ TickStartup
  BY <1>5 DEF TickEnd, StepEnd, TickStartup, Release, ServiceLoop
<1>6. CASE StepBegin
  BY <1>1, <1>6 DEF StepBegin, Levels, ServiceLoop
<1>7. CASE CommandStep
  BY <1>1, <1>7, CommandUnchanged DEF callVars, Levels, ServiceLoop
<1>8. CASE OutsideStep \/ UNCHANGED vars
  BY <1>8, OutsideUnchanged DEF callVars, ServiceLoop
<1> QED
  BY <1>2, <1>3, <1>4, <1>5, <1>6, <1>7, <1>8, NextCases

-----------------------------------------------------------------------------
(* How a step that ends in RUN changes what the history counts.             *)

\* Such a step is a dispatch, the RUN command, or it begins no OB and leaves
\* the releases alone.
LEMMA RunSteps ==
  ASSUME IInv, [Next]_vars, state' = "RUN"
  PROVE  \/ \E t \in Task : /\ Dispatch(t) /\ Enter(t) /\ state = "RUN"
                            /\ Len(stack') > Len(stack)
                            /\ stack'[Len(stack')].task = t
         \/ Start /\ state = "STOP"
         \/ /\ state = "RUN" /\ ~(Len(stack') > Len(stack))
            /\ UNCHANGED <<next, missed>>
<1>1. TypeOK /\ Levels /\ Releases
  BY DEF IInv
<1>2. Len(stack) \in Nat
  BY <1>1, StackFacts
<1>3. ASSUME UNCHANGED <<state, next, missed, stack>>
      PROVE  /\ state = "RUN" /\ ~(Len(stack') > Len(stack))
             /\ UNCHANGED <<next, missed>>
  BY <1>2, <1>3
<1>4. CASE FrameStep
  <2>1. Len(stack') = Len(stack)
    BY <1>1, <1>4, FrameStepFrame, FrameStepStack
  <2>2. state = "RUN" /\ UNCHANGED <<next, missed>>
    BY <1>4, FrameStepFrame DEF modeVars, Fault, taskVars
  <2> QED
    BY <1>2, <2>1, <2>2
<1>5. CASE Leave
  <2>1. stack # <<>> /\ stack' = Under /\ UNCHANGED <<next, missed>>
    BY <1>5 DEF Leave, Executing
  <2>2. state = "RUN"
    BY <1>5 DEF Leave, Fault, NoFault, modeVars
  <2>3. Len(stack') = Len(stack) - 1
    BY <1>1, <2>1, StackFacts
  <2> QED
    BY <1>2, <2>1, <2>2, <2>3
<1>6. ASSUME NEW t \in Task, Dispatch(t)
      PROVE  \/ /\ Dispatch(t) /\ Enter(t) /\ state = "RUN"
                /\ Len(stack') > Len(stack) /\ stack'[Len(stack')].task = t
             \/ /\ state = "RUN" /\ ~(Len(stack') > Len(stack))
                /\ UNCHANGED <<next, missed>>
  <2>1. state = "RUN"
    BY <1>6 DEF Dispatch, modeVars
  <2>2. CASE Enter(t)
    <3>1. PICK f \in Frame : stack' = Append(stack, f) /\ f.task = t
      BY <1>1, <2>2, EnterFrame
    <3>2. Len(stack') = Len(stack) + 1 /\ stack'[Len(stack) + 1] = f
      BY <1>1, <3>1, StackFacts
    <3>3. Len(stack') > Len(stack)
      BY <1>2, <3>2
    <3> QED
      BY <1>6, <2>1, <2>2, <3>1, <3>2, <3>3
  <2>3. CASE UNCHANGED <<taskVars, memoryVars, stack>>
    BY <1>2, <2>1, <2>3 DEF taskVars
  <2> QED
    BY <1>6, <2>2, <2>3 DEF Dispatch
<1>7. CASE CheckServe \/ StartupEnd \/ TickEnd \/ StepEnd \/ TickStartup
           \/ TickService \/ StepBegin
  <2>1. UNCHANGED <<state, next, missed, stack>>
    BY <1>7 DEF CheckServe, StartupEnd, TickEnd, StepEnd, TickStartup,
                TickService, StepBegin, modeVars, taskVars
  <2> QED
    BY <1>3, <2>1
<1>8. CASE CommandStep
  <2>1. UNCHANGED stack
    BY <1>8, CommandUnchanged DEF callVars
  <2>2. CASE Start
    <3>1. CASE state = "STOP"
      BY <2>2, <3>1
    <3>2. CASE state # "STOP"
      BY <1>3, <2>1, <2>2, <3>2 DEF Start, Refusal, modeVars, taskVars
    <3> QED
      BY <3>1, <3>2
  <2>3. CASE Load \/ Reset
    BY <1>3, <2>1, <2>3 DEF Load, Reset, Stopped, Refusal, modeVars, taskVars
  <2>4. CASE SetOutput \/ Status
    BY <1>3, <2>1, <2>4 DEF SetOutput, Status, Refusal, modeVars, taskVars
  <2>5. ~Stop /\ ~Quit
    BY DEF Stop, Quit, StopEffect
  <2> QED
    BY <1>8, <2>2, <2>3, <2>4, <2>5 DEF CommandStep
<1>9. CASE OutsideStep \/ UNCHANGED vars
  BY <1>3, <1>9, OutsideUnchanged DEF callVars, taskVars
<1> QED
  BY <1>4, <1>5, <1>6, <1>7, <1>8, <1>9, NextCases

\* What Record does then.
LEMMA RecordRun ==
  ASSUME TypeOK, Record \/ UNCHANGED <<vars, historyVars>>, state' = "RUN"
  PROVE  /\ state # "RUN" => /\ runStart' = clock /\ missedBefore' = missed
                             /\ begun' = [t \in Task |-> 0]
         /\ state = "RUN" =>
              /\ UNCHANGED <<runStart, missedBefore>>
              /\ begun' = IF Len(stack') > Len(stack)
                          THEN [begun EXCEPT ![stack'[Len(stack')].task] = @ + 1]
                          ELSE begun
<1>1. CASE Record
  BY <1>1 DEF Record
<1>2. CASE UNCHANGED <<vars, historyVars>>
  <2>1. UNCHANGED <<state, stack, runStart, missedBefore, begun>>
    BY <1>2 DEF vars, modeVars, callVars, historyVars
  <2>2. ~(Len(stack') > Len(stack))
    <3>1. Len(stack) \in Nat /\ stack' = stack
      BY <2>1, StackFacts
    <3> QED
      BY <3>1
  <2> QED
    BY <2>1, <2>2
<1> QED
  BY <1>1, <1>2

\* The history keeps its types.
LEMMA HistoryTypesStep ==
  ASSUME TypeOK, HistoryTypes, Record \/ UNCHANGED <<vars, historyVars>>
  PROVE  HistoryTypes'
<1>1. CASE Record /\ state # "RUN" /\ state' = "RUN"
  <2>1. /\ runStart' = clock /\ missedBefore' = missed
        /\ begun' = [t \in Task |-> 0]
    BY <1>1 DEF Record
  <2>2. clock \in Nat /\ missed \in [Task -> Nat]
    BY DEF TypeOK
  <2>3. [t \in Task |-> 0] \in [Task -> Nat]
    OBVIOUS
  <2> QED
    BY <2>1, <2>2, <2>3 DEF HistoryTypes
<1>2. CASE Record /\ ~(state # "RUN" /\ state' = "RUN")
  <2>1. UNCHANGED <<runStart, missedBefore>>
    BY <1>2 DEF Record
  <2>2. \/ begun' = begun
        \/ begun' = [begun EXCEPT ![stack'[Len(stack')].task] = @ + 1]
    BY <1>2 DEF Record
  <2>3. begun' \in [Task -> Nat]
    BY <2>2 DEF HistoryTypes
  <2> QED
    BY <2>1, <2>3 DEF HistoryTypes
<1>3. CASE UNCHANGED <<vars, historyVars>>
  BY <1>3 DEF historyVars, HistoryTypes
<1> QED
  BY <1>1, <1>2, <1>3

-----------------------------------------------------------------------------
(* Every release is accounted for.                                          *)

\* One dispatch more, and k periods missed, are k + 1 periods.
LEMMA MorePeriods ==
  ASSUME NEW p \in Nat, NEW x \in Int, NEW k \in Nat
  PROVE  p * (x + k + 1) = p * x + (k + 1) * p
  OBVIOUS

\* Counting dispatches from the RUN command on, and misses from what they were.
LEMMA Recount ==
  ASSUME NEW b \in Nat, NEW m \in Nat, NEW m0 \in Nat, NEW c \in Nat, NEW k \in Nat
  PROVE  /\ (b + m - m0 + c) \in Int
         /\ (b + 1) + (m + k) - m0 + c = (b + m - m0 + c) + k + 1
  OBVIOUS

\* dispatch() counts a release and the periods it is late by; RUN starts anew.
LEMMA AccountedStep ==
  ASSUME IInv, HistoryTypes, ReleasesAccounted, [Next]_vars,
         Record \/ UNCHANGED <<vars, historyVars>>
  PROVE  ReleasesAccounted'
<1> DEFINE first(u) == IF Kind[u] = "cyclic" THEN 1 ELSE 0
<1> SUFFICES ASSUME state' = "RUN", NEW u \in Task, Kind[u] # "startup"
             PROVE  next'[u] = runStart'
                      + Period[u] * (begun'[u] + missed'[u] - missedBefore'[u]
                                     + first(u))
  BY DEF ReleasesAccounted
<1>1. /\ TypeOK /\ Levels /\ Modes /\ Releases
      /\ clock \in Nat /\ next[u] \in Nat /\ missed[u] \in Nat /\ begun[u] \in Nat
      /\ missedBefore[u] \in Nat /\ runStart \in Nat
      /\ Period[u] \in Nat \ {0} /\ first(u) \in Nat
  BY TableAssumption DEF IInv, TypeOK, HistoryTypes
<1>2. state = "RUN" =>
        next[u] = runStart
                  + Period[u] * (begun[u] + missed[u] - missedBefore[u] + first(u))
  BY DEF ReleasesAccounted
<1>3. /\ state # "RUN" => /\ runStart' = clock /\ missedBefore' = missed
                          /\ begun' = [t \in Task |-> 0]
      /\ state = "RUN" =>
           /\ UNCHANGED <<runStart, missedBefore>>
           /\ begun' = IF Len(stack') > Len(stack)
                       THEN [begun EXCEPT ![stack'[Len(stack')].task] = @ + 1]
                       ELSE begun
  BY <1>1, RecordRun
<1> HIDE DEF first
<1>4. CASE Start /\ state = "STOP"
  <2>1. /\ next'[u] = clock + (IF Kind[u] = "cyclic" THEN Period[u] ELSE 0)
        /\ missed' = missed
    BY <1>4 DEF Start
  <2>2. begun'[u] = 0 /\ missedBefore' = missed /\ runStart' = clock
    BY <1>3, <1>4
  <2>3. begun'[u] + missed'[u] - missedBefore'[u] + first(u) = first(u)
    BY <1>1, <2>1, <2>2
  <2>4. Period[u] * first(u) = IF Kind[u] = "cyclic" THEN Period[u] ELSE 0
    BY <1>1 DEF first
  <2> QED
    BY <2>1, <2>2, <2>3, <2>4
<1>5. CASE /\ state = "RUN" /\ ~(Len(stack') > Len(stack))
           /\ UNCHANGED <<next, missed>>
  <2>1. UNCHANGED <<runStart, missedBefore, begun>>
    BY <1>3, <1>5
  <2> QED
    BY <1>2, <1>5, <2>1
<1>6. ASSUME NEW t \in Task, Dispatch(t), Enter(t), state = "RUN",
             Len(stack') > Len(stack), stack'[Len(stack')].task = t
      PROVE  next'[u] = runStart'
               + Period[u] * (begun'[u] + missed'[u] - missedBefore'[u] + first(u))
  <2>1. /\ UNCHANGED <<runStart, missedBefore>>
        /\ begun' = [begun EXCEPT ![t] = begun[t] + 1]
    BY <1>3, <1>6
  <2>2. CASE t # u
    <3>1. next'[u] = next[u] /\ missed'[u] = missed[u]
      BY <1>1, <1>6, <2>2 DEF Enter, Released, Skips, NextRelease, TypeOK
    <3>2. begun'[u] = begun[u]
      BY <2>1, <2>2 DEF HistoryTypes
    <3> QED
      BY <1>2, <1>6, <2>1, <3>1, <3>2
  <2>3. CASE t = u
    <3> DEFINE k == (clock - next[u]) \div Period[u]
               x == begun[u] + missed[u] - missedBefore[u] + first(u)
    <3>1. clock >= next[u]
      <4>1. /\ holder # "none" /\ due # <<>>
            /\ stack = <<>> => u \in due[1]
        BY <1>1, <1>6, <2>3, DispatchLoop
      <4>2. phase # "step"
        BY <1>1, <1>6, <4>1 DEF Modes
      <4>3. ~(stack = <<>> /\ phase = "startup")
        BY <1>1, <4>1 DEF Releases
      <4>4. ~UNCHANGED <<taskVars, memoryVars, stack>>
        <5>1. Len(stack) \in Nat
          BY <1>1, StackFacts
        <5> QED
          BY <1>6, <5>1
      <4> QED
        BY <1>6, <2>3, <4>2, <4>3, <4>4 DEF Dispatch
    <3>2. clock - next[u] \in Nat
      BY <1>1, <3>1
    <3>3. k \in Nat
      BY <1>1, <3>2, DivNat
    <3>4. next'[u] = next[u] + (k + 1) * Period[u] /\ missed'[u] = missed[u] + k
      BY <1>1, <1>6, <2>3, <3>1
         DEF Enter, Released, Skips, NextRelease, TypeOK
    <3>5. begun'[u] = begun[u] + 1
      BY <2>1, <2>3 DEF HistoryTypes
    <3> HIDE DEF k
    <3>6. /\ x \in Int
          /\ begun'[u] + missed'[u] - missedBefore'[u] + first(u) = x + k + 1
      <4>1. /\ x \in Int
            /\ (begun[u] + 1) + (missed[u] + k) - missedBefore[u] + first(u) = x + k + 1
        BY <1>1, <3>3, Recount
      <4> QED
        BY <2>1, <3>4, <3>5, <4>1
    <3>7. next[u] = runStart + Period[u] * x
      BY <1>2, <1>6
    <3> HIDE DEF x
    <3>8. Period[u] * (x + k + 1) = Period[u] * x + (k + 1) * Period[u]
      BY <1>1, <3>3, <3>6, MorePeriods
    <3>9. /\ Period[u] * x \in Int /\ (k + 1) * Period[u] \in Int
      BY <1>1, <3>3, <3>6
    <3> DEFINE a == Period[u] * x
               b == (k + 1) * Period[u]
    <3>10. next'[u] = runStart + a + b
      <4>1. next'[u] = next[u] + b /\ next[u] = runStart + a
        BY <3>4, <3>7
      <4>2. a \in Int /\ b \in Int
        BY <3>9
      <4> HIDE DEF a, b
      <4> QED
        BY <1>1, <4>1, <4>2
    <3>11. runStart + a + b = runStart + Period[u] * (x + k + 1)
      <4>1. Period[u] * (x + k + 1) = a + b
        BY <3>8
      <4>2. a \in Int /\ b \in Int
        BY <3>9
      <4> HIDE DEF a, b
      <4> QED
        BY <1>1, <4>1, <4>2
    <3> HIDE DEF a, b
    <3> QED
      BY <2>1, <3>6, <3>10, <3>11
  <2> QED
    BY <2>2, <2>3
<1> QED
  BY <1>4, <1>5, <1>6, RunSteps

-----------------------------------------------------------------------------
(* The startup OBs come first, once each.                                   *)

\* What StartupProgress says of one startup OB.
Progress(s) ==
  \/ /\ begun[s] = 1 /\ ~startupPending
     /\ phase = "startup" => s \notin due[1]
  \/ /\ begun[s] = 0
     /\ \A t \in Task : Kind[t] # "startup" => begun[t] = 0
     /\ \/ startupPending /\ holder = "none"
        \/ ~startupPending /\ phase = "startup" /\ s \in due[1]
        \/ cancel

\* A step that keeps the mode RUN and begins no OB.
LEMMA QuietProgress ==
  ASSUME IInv, StartupLoop, [Next]_vars, state = "RUN", state' = "RUN",
         ~(Len(stack') > Len(stack)), UNCHANGED begun,
         NEW s \in Task, Kind[s] = "startup", Progress(s)
  PROVE  Progress(s)'
<1>1. TypeOK /\ Levels /\ Modes /\ Releases
  BY DEF IInv
<1>2. due # <<>> => holder # "none"
  BY <1>1 DEF Levels
<1>3. ASSUME UNCHANGED <<startupPending, holder, phase>>, cancel => cancel',
             phase = "startup" => due'[1] = due[1]
      PROVE  Progress(s)'
  BY <1>3 DEF Progress
<1>4. CASE FrameStep \/ CheckServe \/ Leave
  <2>1. UNCHANGED modeVars
    BY <1>4, FrameStepFrame DEF CheckServe, Leave, Fault, NoFault
  <2> QED
    BY <1>1, <1>3, <1>4, <2>1, OuterLoopKept DEF modeVars
<1>5. ASSUME NEW t \in Task, Dispatch(t)  PROVE Progress(s)'
  <2>1. /\ UNCHANGED <<modeVars, phase, holder>>
        /\ stack # <<>> => due'[1] = due[1]
    BY <1>1, <1>5, DispatchLoop
  <2>2. phase = "startup" => stack # <<>>
    <3>1. CASE Enter(t)
      <4>1. PICK f \in Frame : stack' = Append(stack, f)
        BY <1>1, <3>1, EnterFrame
      <4>2. Len(stack') = Len(stack) + 1 /\ Len(stack) \in Nat
        BY <1>1, <4>1, StackFacts
      <4> QED
        BY <4>2
    <3>2. CASE ~Enter(t)
      BY <1>5, <3>2 DEF Dispatch
    <3> QED
      BY <3>1, <3>2
  <2> QED
    BY <1>3, <2>1, <2>2 DEF modeVars
<1>6. CASE StartupEnd
  <2>1. /\ Len(due) = Len(stack) + 1 /\ stack = <<>> /\ phase = "startup"
        /\ Queue = {} /\ ~cancel /\ phase' = "service" /\ UNCHANGED startupPending
    BY <1>6 DEF StartupEnd, Serving, modeVars
  <2>2. Len(due) = 1 /\ due[1] = {} /\ due # <<>>
    BY <1>1, <2>1, StackFacts, DueFacts DEF Queue
  <2> QED
    BY <1>2, <2>1, <2>2 DEF Progress
<1>7. CASE TickEnd
  <2>1. /\ Len(due) = Len(stack) + 1 /\ stack = <<>>
        /\ cancel \/ (Queue = {} /\ phase = "service")
        /\ phase' = "idle" /\ UNCHANGED <<startupPending, cancel>>
    BY <1>7 DEF TickEnd, Serving, Release, modeVars
  <2>2. Len(due) # 0 /\ due # <<>>
    BY <1>1, <2>1, StackFacts, DueFacts
  <2>3. holder # "none"
    BY <1>2, <2>2
  <2> QED
    BY <2>1, <2>3 DEF Progress
<1>8. CASE StepEnd
  <2>1. phase = "step" /\ Len(due) = Len(stack) + 1
    BY <1>8 DEF StepEnd, Serving
  <2>2. Len(due) # 0 /\ due # <<>>
    BY <1>1, <2>1, StackFacts, DueFacts
  <2> QED
    BY <1>1, <1>2, <2>1, <2>2 DEF Modes
<1>9. CASE TickStartup
  <2>1. /\ startupPending /\ ~startupPending' /\ phase' = "startup"
        /\ due' = <<{t \in Task : Kind[t] = "startup"}>>
    BY <1>9 DEF TickStartup
  <2>2. s \in due'[1]
    BY <2>1
  <2> QED
    BY <2>1, <2>2 DEF Progress
<1>10. CASE TickService
  <2>1. /\ ~startupPending /\ ~cancel /\ holder = "none"
        /\ phase' = "service" /\ UNCHANGED startupPending
    BY <1>10 DEF TickService, modeVars
  <2> QED
    BY <1>1, <2>1 DEF Levels, Progress
<1>11. CASE StepBegin
  BY <1>3, <1>11 DEF StepBegin
<1>12. CASE CommandStep
  <2>1. UNCHANGED modeVars
    BY <1>12 DEF CommandStep, Load, Start, Stop, StopEffect, Reset, SetOutput,
                 Status, Quit, Stopped, Refusal
  <2> QED
    BY <1>3, <1>12, <2>1, CommandUnchanged DEF modeVars, callVars
<1>13. CASE OutsideStep \/ UNCHANGED vars
  <2>1. cancel => cancel'
    BY <1>13 DEF OutsideStep, WorkerExit, ReadLine, EndOfInput, Advance,
                 Terminated, vars, modeVars
  <2> QED
    BY <1>3, <1>13, <2>1, OutsideUnchanged DEF callVars
<1> QED
  BY <1>4, <1>5, <1>6, <1>7, <1>8, <1>9, <1>10, <1>11, <1>12, <1>13, NextCases

\* A dispatch begins an OB that is due its turn.
LEMMA BeginProgress ==
  ASSUME IInv, StartupLoop, ServiceLoop, HistoryTypes, NEW t \in Task, Dispatch(t),
         state = "RUN", begun' = [begun EXCEPT ![t] = begun[t] + 1],
         NEW s \in Task, Kind[s] = "startup", Progress(s)
  PROVE  Progress(s)'
<1>1. TypeOK /\ Levels /\ Modes /\ Order /\ Releases
  BY DEF IInv
<1>2. /\ UNCHANGED <<modeVars, phase, holder>>
      /\ holder # "none" /\ ~cancel /\ t \in due[Len(due)]
      /\ Len(due) = Len(stack) + 1 /\ due # <<>>
      /\ stack = <<>> => due'[1] = due[1] \ {t}
  BY <1>1, DispatchLoop
<1>3. Len(stack) \in Nat /\ (stack = <<>> <=> Len(stack) = 0)
  BY <1>1, StackFacts
<1>4. \A u \in Task : begun'[u] = IF u = t THEN begun[t] + 1 ELSE begun[u]
  BY DEF HistoryTypes
<1>5. CASE phase = "startup"
  <2>1. Len(due) = 1 /\ stack = <<>>
    BY <1>2, <1>3, <1>5 DEF StartupLoop
  <2>2. t \in due[1] /\ Kind[t] = "startup" /\ due'[1] = due[1] \ {t}
    BY <1>1, <1>2, <1>5, <2>1 DEF Releases
  <2>3. CASE t = s
    BY <1>2, <1>4, <1>5, <2>2, <2>3 DEF Progress, modeVars
  <2>4. CASE t # s
    BY <1>2, <1>4, <1>5, <2>2, <2>4 DEF Progress, modeVars
  <2> QED
    BY <2>3, <2>4
<1>6. CASE phase # "startup"
  <2>1. phase = "service"
    BY <1>1, <1>2, <1>6 DEF Modes
  <2>2. Kind[t] # "startup"
    <3>1. CASE stack = <<>>
      BY <1>2, <1>3, <2>1, <3>1 DEF ServiceLoop
    <3>2. CASE stack # <<>>
      <4>1. Len(stack) \in 1..Len(stack) /\ Len(stack) < Len(due)
        BY <1>2, <1>3, <3>2
      <4>2. Kind[t] = "cyclic"
        BY <1>1, <1>2, <4>1 DEF Order
      <4> QED
        BY <4>2
    <3> QED
      BY <3>1, <3>2
  <2> QED
    BY <1>2, <1>4, <1>6, <2>2 DEF Progress, modeVars
<1> QED
  BY <1>5, <1>6

\* Startup OBs make their way through tick(), STOP and the next RUN.
LEMMA ProgressStep ==
  ASSUME IInv, StartupLoop, ServiceLoop, HistoryTypes, StartupProgress,
         [Next]_vars, Record \/ UNCHANGED <<vars, historyVars>>
  PROVE  StartupProgress'
<1> SUFFICES ASSUME state' = "RUN", NEW s \in Task, Kind[s] = "startup"
             PROVE  Progress(s)'
  BY DEF StartupProgress, Progress
<1>1. TypeOK /\ Levels
  BY DEF IInv
<1>2. state = "RUN" => Progress(s)
  BY DEF StartupProgress, Progress
<1>3. /\ state # "RUN" => begun' = [t \in Task |-> 0]
      /\ state = "RUN" =>
           begun' = IF Len(stack') > Len(stack)
                    THEN [begun EXCEPT ![stack'[Len(stack')].task] = @ + 1]
                    ELSE begun
  BY <1>1, RecordRun
<1>4. CASE Start /\ state = "STOP"
  <2>1. startupPending' /\ holder' = "none"
    BY <1>4 DEF Start, Handle, callVars
  <2>2. \A t \in Task : begun'[t] = 0
    BY <1>3, <1>4
  <2> QED
    BY <2>1, <2>2 DEF Progress
<1>5. CASE state = "RUN" /\ ~(Len(stack') > Len(stack))
  <2>1. UNCHANGED begun
    BY <1>3, <1>5
  <2> QED
    BY <1>2, <1>5, <2>1, QuietProgress
<1>6. ASSUME NEW t \in Task, Dispatch(t), state = "RUN",
             Len(stack') > Len(stack), stack'[Len(stack')].task = t
      PROVE  Progress(s)'
  <2>1. begun' = [begun EXCEPT ![t] = begun[t] + 1]
    BY <1>3, <1>6
  <2> QED
    BY <1>2, <1>6, <2>1, BeginProgress
<1> QED
  BY <1>4, <1>5, <1>6, RunSteps

-----------------------------------------------------------------------------
(* The invariant is inductive, and the theorems.                            *)

\* The invariant with the history holds in every reachable state.
LEMMA HistoryInv == HistorySpec => []HInv
<1>1. HistoryInit => HInv
  <2> SUFFICES ASSUME HistoryInit  PROVE HInv
    OBVIOUS
  <2>1. Init /\ IInv /\ state = "EMPTY" /\ phase = "idle"
    BY InitIInv DEF HistoryInit, Init
  <2>2. HistoryTypes
    BY DEF HistoryInit, HistoryTypes
  <2> QED
    BY <2>1, <2>2 DEF HInv, StartupLoop, ServiceLoop, ReleasesAccounted,
                      StartupProgress
<1>2. HInv /\ [Next /\ Record]_<<vars, historyVars>> => HInv'
  <2> SUFFICES ASSUME HInv, [Next /\ Record]_<<vars, historyVars>>
               PROVE  HInv'
    OBVIOUS
  <2>1. [Next]_vars /\ (Record \/ UNCHANGED <<vars, historyVars>>)
    OBVIOUS
  <2>2. /\ IInv /\ StartupLoop /\ ServiceLoop
        /\ HistoryTypes /\ ReleasesAccounted /\ StartupProgress /\ TypeOK
    BY DEF HInv, IInv
  <2>3. IInv' /\ StartupLoop' /\ ServiceLoop'
    BY <2>1, <2>2, NextIInv, StartupLoopStep, ServiceLoopStep
  <2>4. HistoryTypes' /\ ReleasesAccounted' /\ StartupProgress'
    BY <2>1, <2>2, HistoryTypesStep, AccountedStep, ProgressStep
  <2> QED
    BY <2>3, <2>4 DEF HInv
<1> QED
  BY <1>1, <1>2, PTL DEF HistorySpec

\* dispatch(): since RUN, every release of an OB has been dispatched or counted
\* in `missed', on the grid of periods that start() laid out.
THEOREM NoReleaseIsLost == HistorySpec => []ReleasesAccounted
<1>1. HInv => ReleasesAccounted
  BY DEF HInv
<1> QED
  BY <1>1, HistoryInv, PTL

\* start() and tick(): each RUN executes every startup OB at most once, and no
\* other OB before all of them have begun.
THEOREM StartupComesFirst == HistorySpec => []StartupFirst
<1>1. HInv => StartupFirst
  <2> SUFFICES ASSUME HInv, state = "RUN", NEW s \in Task, Kind[s] = "startup"
               PROVE  /\ begun[s] <= 1
                      /\ (\E t \in Task : Kind[t] # "startup" /\ begun[t] > 0)
                         => begun[s] = 1
    BY DEF StartupFirst
  <2>1. CASE begun[s] = 1
    BY <2>1
  <2>2. CASE begun[s] = 0 /\ \A t \in Task : Kind[t] # "startup" => begun[t] = 0
    BY <2>2
  <2> QED
    BY <2>1, <2>2 DEF HInv, StartupProgress
<1> QED
  BY <1>1, HistoryInv, PTL
=============================================================================
