--------------------------- MODULE RuntimeProofs ---------------------------
(***************************************************************************)
(* What the runtime of Runtime.tla guarantees for every task table, every  *)
(* program shape and every clock: type correctness, the safety invariants  *)
(* and two action properties, all from one inductive invariant IInv; that  *)
(* OBs nest no deeper than there are cyclic priorities; that without       *)
(* preemption every OB executes its own body; and that the runtime         *)
(* implements ObExecution.                                                 *)
(***************************************************************************)
EXTENDS Runtime, SequenceTheorems, FiniteSetTheorems, TLAPS

-----------------------------------------------------------------------------
(* Arithmetic and sequences.                                                *)

\* The first multiple of a period beyond a moment is at most a period away.
LEMMA DivNat ==
  ASSUME NEW a \in Nat, NEW b \in Nat \ {0}
  PROVE  /\ a \div b \in Nat
         /\ ((a \div b) + 1) * b \in Nat
         /\ a < ((a \div b) + 1) * b
         /\ ((a \div b) + 1) * b <= a + b
  OBVIOUS

\* Append, as the stack uses it.
LEMMA PushFrame ==
  ASSUME NEW S, NEW s \in Seq(S), NEW e \in S
  PROVE  /\ Append(s, e) \in Seq(S)
         /\ Len(Append(s, e)) = Len(s) + 1
         /\ \A k \in 1..Len(s) : Append(s, e)[k] = s[k]
         /\ Append(s, e)[Len(s) + 1] = e
  OBVIOUS

\* Dropping the last element, as the stack uses it.
LEMMA PopFrame ==
  ASSUME NEW S, NEW s \in Seq(S), s # <<>>
  PROVE  /\ Len(s) \in Nat \ {0}
         /\ s[Len(s)] \in S
         /\ SubSeq(s, 1, Len(s) - 1) \in Seq(S)
         /\ Len(SubSeq(s, 1, Len(s) - 1)) = Len(s) - 1
         /\ \A k \in 1..Len(s) - 1 : SubSeq(s, 1, Len(s) - 1)[k] = s[k]
<1>1. Len(s) \in Nat /\ Len(s) # 0
  BY EmptySeq, LenProperties
<1>2. \A k \in 1..Len(s) : s[k] \in S
  BY ElementOfSeq
<1>3. \A k \in 1..Len(s) - 1 : s[k] \in S
  BY <1>1, <1>2
<1>4. /\ SubSeq(s, 1, Len(s) - 1) \in Seq(S)
      /\ Len(SubSeq(s, 1, Len(s) - 1)) = Len(s) - 1
      /\ \A k \in 1..Len(s) - 1 : SubSeq(s, 1, Len(s) - 1)[k] = s[k]
  <2> DEFINE n == Len(s) - 1
  <2>1. n \in Int /\ 1 \in Int /\ n >= 0
    BY <1>1
  <2>2. \A k \in 1..n : s[k] \in S
    BY <1>3
  <2>3. /\ SubSeq(s, 1, n) \in Seq(S)
        /\ Len(SubSeq(s, 1, n)) = IF 1 <= n THEN n - 1 + 1 ELSE 0
        /\ \A k \in 1..n - 1 + 1 : SubSeq(s, 1, n)[k] = s[1 + k - 1]
    <3> HIDE DEF n
    <3> QED  BY <2>1, <2>2, SubSeqProperties
  <2>4. Len(SubSeq(s, 1, n)) = n
    <3> HIDE DEF n
    <3> QED  BY <2>1, <2>3
  <2>5. \A k \in 1..n : SubSeq(s, 1, n)[k] = s[k]
    <3> HIDE DEF n
    <3> QED  BY <2>1, <2>3
  <2> QED
    BY <2>3, <2>4, <2>5
<1> QED
  BY <1>1, <1>2, <1>4

\* Replacing the last element, as SetTop does.
LEMMA ReplaceTop ==
  ASSUME NEW S, NEW s \in Seq(S), s # <<>>, NEW e \in S
  PROVE  /\ Append(SubSeq(s, 1, Len(s) - 1), e) \in Seq(S)
         /\ Append(SubSeq(s, 1, Len(s) - 1), e) # <<>>
         /\ Len(Append(SubSeq(s, 1, Len(s) - 1), e)) = Len(s)
         /\ \A k \in 1..Len(s) - 1 :
              Append(SubSeq(s, 1, Len(s) - 1), e)[k] = s[k]
         /\ Append(SubSeq(s, 1, Len(s) - 1), e)[Len(s)] = e
<1> DEFINE p == SubSeq(s, 1, Len(s) - 1)
           r == Append(SubSeq(s, 1, Len(s) - 1), e)
<1>1. /\ Len(s) \in Nat \ {0}
      /\ p \in Seq(S)
      /\ Len(p) = Len(s) - 1
      /\ \A k \in 1..Len(s) - 1 : p[k] = s[k]
  BY PopFrame
<1> HIDE DEF p
<1>2. /\ Append(p, e) \in Seq(S)
      /\ Len(Append(p, e)) = Len(p) + 1
      /\ \A k \in 1..Len(p) : Append(p, e)[k] = p[k]
      /\ Append(p, e)[Len(p) + 1] = e
  BY <1>1, PushFrame
<1>3. r = Append(p, e)
  BY DEF p
<1> HIDE DEF r
<1>4. Len(r) = Len(s) /\ Len(r) # 0
  BY <1>1, <1>2, <1>3
<1>5. r # <<>>
  BY <1>4
<1>6. /\ r \in Seq(S)
      /\ r # <<>>
      /\ Len(r) = Len(s)
      /\ \A k \in 1..Len(s) - 1 : r[k] = s[k]
      /\ r[Len(s)] = e
  BY <1>1, <1>2, <1>3, <1>4, <1>5
<1> QED
  BY <1>6 DEF r

\* A sequence is empty when its length is zero.
LEMMA EmptyLen ==
  ASSUME NEW S, NEW s \in Seq(S)
  PROVE  Len(s) \in Nat /\ (s = <<>> <=> Len(s) = 0)
  BY EmptySeq, LenProperties

\* The types and shapes of the stack, of what is under its top, and of a push.
LEMMA StackFacts ==
  ASSUME TypeOK
  PROVE  /\ stack \in Seq(Frame)
         /\ Len(stack) \in Nat
         /\ stack = <<>> <=> Len(stack) = 0
         /\ stack # <<>> =>
              /\ Top \in Frame
              /\ Under \in Seq(Frame)
              /\ Len(Under) = Len(stack) - 1
              /\ \A k \in 1..Len(stack) - 1 : Under[k] = stack[k]
         /\ \A f \in Frame :
              /\ Append(stack, f) \in Seq(Frame)
              /\ Len(Append(stack, f)) = Len(stack) + 1
              /\ \A k \in 1..Len(stack) : Append(stack, f)[k] = stack[k]
              /\ Append(stack, f)[Len(stack) + 1] = f
<1>1. stack \in Seq(Frame)
  BY DEF TypeOK
<1> QED
  BY <1>1, EmptyLen, PopFrame, PushFrame DEF Top, Under

\* The same for the dispatch loops.
LEMMA DueFacts ==
  ASSUME TypeOK
  PROVE  /\ due \in Seq(SUBSET Task)
         /\ Len(due) \in Nat
         /\ due = <<>> <=> Len(due) = 0
         /\ due # <<>> =>
              /\ Queue \in SUBSET Task
              /\ SubSeq(due, 1, Len(due) - 1) \in Seq(SUBSET Task)
              /\ Len(SubSeq(due, 1, Len(due) - 1)) = Len(due) - 1
              /\ \A k \in 1..Len(due) - 1 : SubSeq(due, 1, Len(due) - 1)[k] = due[k]
              /\ \A q \in SUBSET Task :
                   /\ [due EXCEPT ![Len(due)] = q] \in Seq(SUBSET Task)
                   /\ Len([due EXCEPT ![Len(due)] = q]) = Len(due)
                   /\ \A k \in 1..Len(due) :
                        [due EXCEPT ![Len(due)] = q][k]
                        = IF k = Len(due) THEN q ELSE due[k]
         /\ \A q \in SUBSET Task :
              /\ Append(due, q) \in Seq(SUBSET Task)
              /\ Len(Append(due, q)) = Len(due) + 1
              /\ \A k \in 1..Len(due) : Append(due, q)[k] = due[k]
              /\ Append(due, q)[Len(due) + 1] = q
<1>1. due \in Seq(SUBSET Task)
  BY DEF TypeOK
<1>2. Len(due) \in Nat /\ (due = <<>> <=> Len(due) = 0)
  BY <1>1, EmptyLen
<1>3. due # <<>> =>
        /\ Queue \in SUBSET Task
        /\ SubSeq(due, 1, Len(due) - 1) \in Seq(SUBSET Task)
        /\ Len(SubSeq(due, 1, Len(due) - 1)) = Len(due) - 1
        /\ \A k \in 1..Len(due) - 1 : SubSeq(due, 1, Len(due) - 1)[k] = due[k]
  BY <1>1, PopFrame DEF Queue
<1>4. ASSUME due # <<>>, NEW q \in SUBSET Task
      PROVE  /\ [due EXCEPT ![Len(due)] = q] \in Seq(SUBSET Task)
             /\ Len([due EXCEPT ![Len(due)] = q]) = Len(due)
             /\ \A k \in 1..Len(due) :
                  [due EXCEPT ![Len(due)] = q][k]
                  = IF k = Len(due) THEN q ELSE due[k]
  <2>1. Len(due) \in 1..Len(due)
    BY <1>2, <1>4
  <2> QED
    BY <1>1, <2>1, ExceptSeq
<1>5. \A q \in SUBSET Task :
        /\ Append(due, q) \in Seq(SUBSET Task)
        /\ Len(Append(due, q)) = Len(due) + 1
        /\ \A k \in 1..Len(due) : Append(due, q)[k] = due[k]
        /\ Append(due, q)[Len(due) + 1] = q
  BY <1>1, PushFrame
<1> QED
  BY <1>1, <1>2, <1>3, <1>4, <1>5

\* Priorities can be compared.
LEMMA PriorityType ==
  ASSUME NEW t \in Task  PROVE  Priority[t] \in Int
<1>1. Priority[t] \in 0..99
  BY TableAssumption
<1> QED
  BY <1>1

\* serviceDue() lists tasks only.
LEMMA DueType ==
  ASSUME NEW above, NEW c  PROVE  Due(above, c) \in SUBSET Task
  BY DEF Due

-----------------------------------------------------------------------------
(* The steps that leave the shape of the stack alone.                       *)

FrameStep ==
  \/ CheckCancelled \/ CheckWatchdog \/ CheckPass \/ ServeEnd
  \/ RunNetwork \/ LoopAgain \/ RaiseError

\* A frame step keeps every frame's task, elapsed time and saved cycle time,
\* and a frame that learns which OB it executes learns it from __plc_dispatch.
LEMMA FrameStepStack ==
  ASSUME TypeOK, stack # <<>>, FrameStep
  PROVE  /\ stack' \in Seq(Frame)
         /\ stack' # <<>>
         /\ Len(stack') = Len(stack)
         /\ \A k \in 1..Len(stack) :
              /\ stack'[k].task = stack[k].task
              /\ stack'[k].elapsed = stack[k].elapsed
              /\ stack'[k].previous = stack[k].previous
              /\ stack'[k].body \in {stack[k].body, dispatchTag}
<1>1. stack \in Seq(Frame) /\ Top \in Frame /\ dispatchTag \in Task \cup {0}
      /\ Len(stack) \in Nat \ {0}
  BY PopFrame DEF TypeOK, Top
<1>2. {"check", "run", "done", "cancelled", "failed"} \subseteq Pc
  BY DEF Pc
<1> DEFINE SameTop(f) == /\ f.task = Top.task /\ f.elapsed = Top.elapsed
                         /\ f.previous = Top.previous
                         /\ f.body \in {Top.body, dispatchTag}
<1>3. /\ \A pc : SameTop([Top EXCEPT !.pc = pc])
      /\ \A pc : \A b \in {Top.body, dispatchTag} :
           SameTop([Top EXCEPT !.pc = pc, !.body = b])
      /\ \A pc, n : SameTop([Top EXCEPT !.pc = pc, !.at = n])
  BY <1>1 DEF Frame
<1>4. PICK f \in Frame : SameTop(f) /\ stack' = Append(Under, f)
  <2>1. Pass(Top) \in Frame /\ SameTop(Pass(Top))
    <3>1. Top.at \in Nat /\ Top.body \in Task \cup {0} /\ "run" \in Pc
      BY <1>1 DEF Frame, Pc
    <3> DEFINE b == IF Top.at = 0 THEN dispatchTag ELSE Top.body
    <3>2. b \in Task \cup {0} /\ b \in {Top.body, dispatchTag}
      BY <1>1, <3>1
    <3>3. [Top EXCEPT !.pc = "run", !.body = b] \in Frame
      BY <1>1, <3>1, <3>2 DEF Frame
    <3> QED
      BY <1>3, <3>2, <3>3 DEF Pass
  <2>2. \A pc \in Pc : [Top EXCEPT !.pc = pc] \in Frame
    BY <1>1 DEF Frame
  <2>3. \A cause : Refuse(cause) =>
          \E f \in Frame : SameTop(f) /\ stack' = Append(Under, f)
    BY <1>2, <1>3, <2>1, <2>2 DEF Refuse, SetTop
  <2>4. CASE CheckCancelled
    BY <2>3, <2>4 DEF CheckCancelled
  <2>5. CASE CheckWatchdog
    BY <2>3, <2>5 DEF CheckWatchdog
  <2>6. CASE CheckPass
    BY <2>1, <2>6 DEF CheckPass, SetTop
  <2>7. CASE ServeEnd
    BY <2>1, <2>3, <2>7 DEF ServeEnd, SetTop
  <2>8. CASE RunNetwork
    <3>1. Top.at + 1 \in Nat
      BY <1>1 DEF Frame
    <3>2. [Top EXCEPT !.pc = "check", !.at = Top.at + 1] \in Frame
      BY <1>1, <1>2, <3>1 DEF Frame
    <3> QED
      BY <1>2, <1>3, <2>2, <2>8, <3>2 DEF RunNetwork, SetTop
  <2>9. CASE LoopAgain
    BY <1>2, <1>3, <2>2, <2>9 DEF LoopAgain, SetTop
  <2>10. CASE RaiseError
    BY <1>2, <1>3, <2>2, <2>10 DEF RaiseError, SetTop
  <2> QED
    BY <2>4, <2>5, <2>6, <2>7, <2>8, <2>9, <2>10 DEF FrameStep
<1>5. /\ stack' \in Seq(Frame)
      /\ stack' # <<>>
      /\ Len(stack') = Len(stack)
      /\ \A k \in 1..Len(stack) - 1 : stack'[k] = stack[k]
      /\ stack'[Len(stack)] = f
  <2>1. stack' = Append(SubSeq(stack, 1, Len(stack) - 1), f)
    BY <1>4 DEF Under
  <2> HIDE DEF SameTop
  <2> QED
    BY <1>1, <1>4, <2>1, ReplaceTop
<1>6. ASSUME NEW k \in 1..Len(stack)
      PROVE  /\ stack'[k].task = stack[k].task
             /\ stack'[k].elapsed = stack[k].elapsed
             /\ stack'[k].previous = stack[k].previous
             /\ stack'[k].body \in {stack[k].body, dispatchTag}
  <2>1. CASE k = Len(stack)
    BY <1>4, <1>5, <2>1 DEF Top
  <2>2. CASE k # Len(stack)
    <3>1. k \in 1..Len(stack) - 1
      BY <1>1, <2>2
    <3> QED
      BY <1>5, <3>1
  <2> QED
    BY <2>1, <2>2
<1> QED
  BY <1>5, <1>6

-----------------------------------------------------------------------------
(* The inductive invariant.                                                 *)

\* The dispatch loops and the frames alternate: loop 1, frame 1, loop 2, ...
Levels ==
  /\ holder = "none" => stack = <<>> /\ due = <<>> /\ phase = "idle"
  /\ holder # "none" => /\ due # <<>>
                        /\ Len(due) \in {Len(stack), Len(stack) + 1}

\* In which modes the mutex is held, and by which loop.
Modes ==
  /\ FaultLatched
  /\ holder # "none" =>
       \/ phase = "step" /\ state \in {"STOP", "FAULT"} /\ line = "STEP"
       \/ phase \in {"startup", "service"} /\ state \in {"RUN", "FAULT"}
  /\ line \in {"STOP", "QUIT", "exit"} => cancel

\* Outputs are set outside RUN only while an OB or the end of a step executes.
Outputs == state # "RUN" /\ outputs # 0 => stack # <<>> \/ phase = "step"

\* The loop of a checkpoint serves cyclic OBs above the frame that waits there.
Order ==
  /\ StackOrdered
  /\ \A k \in 1..Len(stack) : k < Len(due) =>
       /\ Kind[stack[k].task] # "startup"
       /\ \A t \in due[k + 1] :
            Kind[t] = "cyclic" /\ Priority[stack[k].task] < Priority[t]

\* Each frame saved the cycle time of the one below it.
CycleTimes ==
  /\ \A k \in 1..Len(stack) - 1 :
       stack[k + 1].previous = stack[k].elapsed \div UnitsPerMs
  /\ stack # <<>> => cycleTime = Top.elapsed \div UnitsPerMs

Releases ==
  /\ \A t \in Task : last[t] <= clock
  /\ NoBacklog
  /\ phase = "startup" /\ due # <<>> => \A t \in due[1] : Kind[t] = "startup"

IInv == /\ TypeOK /\ Levels /\ Modes /\ Outputs /\ Order /\ CycleTimes /\ Releases

\* Handlers of the command thread that change no call state.
CommandStep ==
  Load \/ Start \/ Stop \/ Reset \/ SetOutput \/ Status \/ Quit

\* What runs without the mutex.
OutsideStep ==
  \/ WorkerExit \/ (\E c \in Commands : ReadLine(c)) \/ EndOfInput
  \/ Advance \/ Terminated

\* The case split on Next that the step lemmas share.
LEMMA NextCases ==
  ASSUME [Next]_vars
  PROVE  \/ FrameStep \/ CheckServe \/ Leave \/ \E t \in Task : Dispatch(t)
         \/ StartupEnd \/ TickEnd \/ StepEnd
         \/ TickStartup \/ TickService \/ StepBegin
         \/ CommandStep \/ OutsideStep \/ UNCHANGED vars
  BY DEF Next, ProgramStep, HandleLine, FrameStep, CommandStep, OutsideStep

\* Threads that do not hold the mutex touch `cancel', the clock and the line.
LEMMA OutsideUnchanged ==
  ASSUME OutsideStep \/ UNCHANGED vars
  PROVE  UNCHANGED <<state, error, startupPending, taskVars, memoryVars, callVars>>
  BY DEF OutsideStep, WorkerExit, ReadLine, EndOfInput, Advance, Terminated,
         vars, modeVars

\* A command handler runs with the mutex free and nothing executing.
LEMMA CommandUnchanged ==
  ASSUME CommandStep
  PROVE  holder = "none" /\ UNCHANGED callVars
  BY DEF CommandStep, Load, Start, Stop, Reset, SetOutput, Status, Quit, Handle

\* Dispatch loops and frames go on alternating.
LEMMA LevelsStep ==
  ASSUME TypeOK, Levels, [Next]_vars
  PROVE  Levels'
<1>1. Len(due) \in Nat /\ Len(stack) \in Nat
  BY StackFacts, DueFacts
<1>2. CASE FrameStep
  <2>1. stack # <<>> /\ holder' = holder /\ phase' = phase
    BY <1>2 DEF FrameStep, CheckCancelled, CheckWatchdog, CheckPass, ServeEnd,
                RunNetwork, LoopAgain, RaiseError, CheckOnTime, Executing
  <2>2. Len(stack') = Len(stack)
    BY <1>2, <2>1, FrameStepStack
  <2>3. CASE ServeEnd
    <3>1. Len(due) = Len(stack) + 1 /\ due' = SubSeq(due, 1, Len(due) - 1)
      BY <2>3 DEF ServeEnd, Serving
    <3>2. Len(stack) # 0
      BY <2>1, StackFacts
    <3>3. Len(due') = Len(due) - 1
      BY <1>1, <3>1, <3>2, DueFacts
    <3>4. due' # <<>>
      BY <1>1, <3>1, <3>2, <3>3, EmptySeq
    <3> QED
      BY <1>1, <2>1, <2>2, <3>1, <3>3, <3>4 DEF Levels
  <2>4. CASE UNCHANGED due
    BY <2>1, <2>2, <2>4 DEF Levels
  <2> QED
    BY <1>2, <2>3, <2>4 DEF FrameStep, CheckCancelled, CheckWatchdog, CheckPass,
                            RunNetwork, LoopAgain, RaiseError
<1>3. CASE CheckServe
  <2>1. /\ stack # <<>> /\ Len(due) = Len(stack)
        /\ UNCHANGED <<stack, holder, phase>>
        /\ due' = Append(due, Due(Priority[Top.task], TRUE))
    BY <1>3 DEF CheckServe, CheckOnTime, Executing
  <2>2. Len(due') = Len(due) + 1
    BY <2>1, DueFacts, DueType
  <2>3. due # <<>>
    BY <1>1, <2>1, StackFacts, DueFacts
  <2>4. due' # <<>>
    BY <1>1, <2>2
  <2> QED
    BY <1>1, <2>1, <2>2, <2>3, <2>4 DEF Levels
<1>4. CASE Leave
  <2>1. /\ stack # <<>> /\ Len(due) = Len(stack)
        /\ UNCHANGED <<due, holder, phase>> /\ stack' = Under
    BY <1>4 DEF Leave, Executing
  <2>2. Len(stack') = Len(stack) - 1
    BY <2>1, StackFacts
  <2>3. due # <<>>
    BY <1>1, <2>1, StackFacts, DueFacts
  <2> QED
    BY <1>1, <2>1, <2>2, <2>3 DEF Levels
<1>5. CASE \E t \in Task : Dispatch(t)
  <2>1. PICK t \in Task : Dispatch(t)
    BY <1>5
  <2>2. /\ Len(due) = Len(stack) + 1
        /\ due' = [due EXCEPT ![Len(due)] = Queue \ {t}]
        /\ UNCHANGED <<holder, phase>>
    BY <2>1 DEF Dispatch, Serving
  <2>3. Len(due') = Len(due)
    <3>1. due # <<>>
      BY <1>1, <2>2, DueFacts
    <3>2. Queue \ {t} \in SUBSET Task
      BY <3>1, DueFacts
    <3> QED
      BY <2>2, <3>1, <3>2, DueFacts
  <2>4. Len(stack') \in {Len(stack), Len(stack) + 1}
    <3>1. CASE UNCHANGED stack
      BY <3>1
    <3>2. CASE Enter(t)
      BY <3>2 DEF Enter, Released, Skips, NextRelease, Elapsed, Activation
    <3> QED
      BY <2>1, <3>1, <3>2 DEF Dispatch
  <2>5. due # <<>> /\ due' # <<>>
    BY <1>1, <2>2, <2>3
  <2> QED
    BY <1>1, <2>2, <2>3, <2>4, <2>5 DEF Levels
<1>6. CASE StartupEnd
  <2>1. /\ stack = <<>> /\ Len(due) = Len(stack) + 1
        /\ UNCHANGED <<stack, holder>> /\ due' = <<Due(0, FALSE)>>
    BY <1>6 DEF StartupEnd, Serving
  <2>2. Len(stack) = 0 /\ Len(due') = 1 /\ due' # <<>> /\ due # <<>>
    BY <2>1
  <2> QED
    BY <2>1, <2>2 DEF Levels
<1>7. CASE TickEnd \/ StepEnd
  BY <1>7 DEF TickEnd, StepEnd, Release, Levels
<1>8. CASE TickStartup \/ TickService \/ StepBegin
  <2>1. UNCHANGED <<holder, stack, due, phase>>
        \/ /\ holder = "none" /\ holder' # "none" /\ UNCHANGED stack
           /\ \E q : due' = <<q>>
    BY <1>8 DEF TickStartup, TickService, StepBegin
  <2>2. CASE UNCHANGED <<holder, stack, due, phase>>
    BY <2>2 DEF Levels
  <2>3. ASSUME holder = "none", holder' # "none", UNCHANGED stack,
               NEW q, due' = <<q>>
        PROVE  Levels'
    <3>1. Len(due') = 1 /\ due' # <<>> /\ stack' = <<>> /\ Len(stack') = 0
      BY <2>3 DEF Levels
    <3> QED
      BY <2>3, <3>1 DEF Levels
  <2> QED
    BY <2>1, <2>2, <2>3
<1>9. CASE CommandStep \/ OutsideStep \/ UNCHANGED vars
  BY <1>9, CommandUnchanged, OutsideUnchanged DEF callVars, Levels
<1> QED
  BY <1>2, <1>3, <1>4, <1>5, <1>6, <1>7, <1>8, <1>9, NextCases

-----------------------------------------------------------------------------
\* What every frame step leaves alone.
LEMMA FrameStepFrame ==
  ASSUME FrameStep
  PROVE  /\ stack # <<>>
         /\ UNCHANGED <<clock, taskVars, cycleTime, dispatchTag, holder, phase,
                        line, worker>>
         /\ UNCHANGED modeVars
            \/ \E cause \in {"watchdog", "exception", "native"} : Fault(cause)
<1>1. \A cause \in {"", "watchdog"} :
        Refuse(cause) => UNCHANGED modeVars
                         \/ \E c \in {"watchdog", "exception", "native"} : Fault(c)
  BY DEF Refuse, NoFault
<1>2. CASE CheckCancelled \/ CheckWatchdog
  BY <1>1, <1>2 DEF CheckCancelled, CheckWatchdog, Executing
<1>3. CASE CheckPass \/ RunNetwork \/ LoopAgain
  BY <1>3 DEF CheckPass, RunNetwork, LoopAgain, CheckOnTime, Executing, memoryVars
<1>4. CASE ServeEnd
  BY <1>1, <1>4 DEF ServeEnd, NoFault
<1>5. CASE RaiseError
  BY <1>5 DEF RaiseError, Executing
<1> QED
  BY <1>2, <1>3, <1>4, <1>5 DEF FrameStep

\* fault() keeps the modes consistent.
LEMMA FaultModes ==
  ASSUME Modes, NEW cause \in {"watchdog", "exception", "native"}, Fault(cause),
         holder # "none", UNCHANGED <<holder, phase, line>>
  PROVE  Modes'
  BY DEF Modes, Fault, FaultLatched

\* Mode, error, `cancel' and the holder's loop stay consistent.
LEMMA ModesStep ==
  ASSUME TypeOK, Levels, Modes, [Next]_vars
  PROVE  Modes'
<1>1. stack # <<>> \/ due # <<>> => holder # "none"
  BY DEF Levels
<1>2. CASE FrameStep
  <2>1. CASE UNCHANGED modeVars
    BY <1>2, <2>1, FrameStepFrame DEF modeVars, Modes, FaultLatched
  <2> QED
    BY <1>1, <1>2, <2>1, FrameStepFrame, FaultModes
<1>3. CASE Leave
  <2>1. stack # <<>> /\ UNCHANGED <<holder, phase, line>>
    BY <1>3 DEF Leave, Executing
  <2>2. UNCHANGED modeVars \/ \E cause \in {"watchdog", "exception", "native"} : Fault(cause)
    BY <1>3 DEF Leave, NoFault
  <2>3. CASE UNCHANGED modeVars
    BY <2>1, <2>3 DEF modeVars, Modes, FaultLatched
  <2> QED
    BY <1>1, <2>1, <2>2, <2>3, FaultModes
<1>4. CASE CheckServe \/ \E t \in Task : Dispatch(t)
  BY <1>4 DEF CheckServe, Dispatch, modeVars, Modes, FaultLatched
<1>5. CASE StartupEnd
  <2>1. due # <<>>
    BY <1>5, StackFacts, DueFacts DEF StartupEnd, Serving
  <2> QED
    BY <1>1, <1>5, <2>1 DEF StartupEnd, modeVars, Modes, FaultLatched
<1>6. CASE TickEnd \/ StepEnd
  BY <1>6 DEF TickEnd, StepEnd, Release, modeVars, Modes, FaultLatched
<1>7. CASE TickStartup \/ TickService
  BY <1>7 DEF TickStartup, TickService, modeVars, Modes, FaultLatched
<1>8. CASE StepBegin
  BY <1>8 DEF StepBegin, modeVars, Modes, FaultLatched
<1>9. CASE CommandStep
  BY <1>9 DEF CommandStep, Load, Start, Stop, StopEffect, Reset, SetOutput,
              Status, Quit, Handle, Refusal, Stopped, modeVars, callVars,
              Modes, FaultLatched
<1>10. CASE OutsideStep
  <2>1. CASE WorkerExit \/ Advance \/ Terminated
    BY <2>1 DEF WorkerExit, Advance, Terminated, vars, modeVars, callVars, Modes,
                FaultLatched
  <2>2. CASE (\E c \in Commands : ReadLine(c)) \/ EndOfInput
    BY <2>2, ProgramAssumption DEF ReadLine, EndOfInput, callVars, Modes,
                FaultLatched
  <2> QED
    BY <1>10, <2>1, <2>2 DEF OutsideStep
<1>11. CASE UNCHANGED vars
  BY <1>11 DEF vars, modeVars, callVars, Modes, FaultLatched
<1> QED
  BY <1>2, <1>3, <1>4, <1>5, <1>6, <1>7, <1>8, <1>9, <1>10, <1>11, NextCases

\* Outputs are zeroed on every way out of an OB outside RUN.
LEMMA OutputsStep ==
  ASSUME TypeOK, Levels, Modes, Outputs, [Next]_vars
  PROVE  Outputs'
<1>1. CASE FrameStep
  BY <1>1, FrameStepStack DEF FrameStep, Outputs, CheckCancelled, CheckWatchdog,
     CheckPass, ServeEnd, RunNetwork, LoopAgain, RaiseError, CheckOnTime, Executing
<1>2. CASE Leave
  <2>1. stack # <<>> /\ holder # "none" /\ phase' = phase
    BY <1>2 DEF Leave, Executing, Levels
  <2>2. CASE Fault("watchdog") \/ Fault("exception")
    BY <2>2 DEF Fault, Outputs
  <2>3. CASE NoFault /\ outputs' = IF cancel THEN 0 ELSE outputs
    BY <2>1, <2>3 DEF NoFault, modeVars, Modes, FaultLatched, Outputs
  <2> QED
    BY <1>2, <2>2, <2>3 DEF Leave
<1>3. CASE CheckServe
  BY <1>3 DEF CheckServe, modeVars, memoryVars, Outputs
<1>4. CASE \E t \in Task : Dispatch(t)
  <2>1. UNCHANGED <<state, phase, outputs>>
    BY <1>4 DEF Dispatch, Enter, Released, Skips, NextRelease, Elapsed, Activation, modeVars, memoryVars
  <2>2. stack # <<>> => stack' # <<>>
    <3>1. CASE UNCHANGED stack
      BY <3>1
    <3>2. ASSUME NEW t \in Task, Enter(t)  PROVE stack' # <<>>
      BY <3>2 DEF Enter, Released, Skips, NextRelease, Elapsed, Activation
    <3> QED
      BY <1>4, <3>1, <3>2 DEF Dispatch
  <2> QED
    BY <2>1, <2>2 DEF Outputs
<1>5. CASE StartupEnd
  BY <1>5 DEF StartupEnd, modeVars, memoryVars, Outputs
<1>6. CASE TickEnd \/ StepEnd
  BY <1>6 DEF TickEnd, StepEnd, modeVars, memoryVars, Outputs
<1>7. CASE TickStartup \/ TickService
  BY <1>7 DEF TickStartup, TickService, modeVars, memoryVars, Outputs
<1>8. CASE StepBegin
  BY <1>8 DEF StepBegin, memoryVars, Levels, Outputs
<1>9. CASE CommandStep
  BY <1>9 DEF CommandStep, Load, Start, Stop, StopEffect, Reset, SetOutput,
              Status, Quit, Handle, Refusal, Stopped, NewMemory, modeVars,
              memoryVars, callVars, Outputs, Levels
<1>10. CASE OutsideStep \/ UNCHANGED vars
  BY <1>10, OutsideUnchanged DEF memoryVars, callVars, Outputs
<1> QED
  BY <1>1, <1>2, <1>3, <1>4, <1>5, <1>6, <1>7, <1>8, <1>9, <1>10, NextCases

-----------------------------------------------------------------------------
\* What dispatch() pushes.
LEMMA EnterFrame ==
  ASSUME TypeOK, Releases, NEW t \in Task, Enter(t)
  PROVE  \E f \in Frame : /\ stack' = Append(stack, f)
                          /\ f.task = t /\ f.previous = cycleTime
                          /\ cycleTime' = f.elapsed \div UnitsPerMs
                          /\ cycleTime' \in Nat
<1> DEFINE elapsed == IF last[t] = 0 THEN Period[t] ELSE clock - last[t]
           f == [task |-> t, body |-> 0, at |-> 0, pc |-> "check",
                 elapsed |-> elapsed, previous |-> cycleTime]
<1>1. elapsed \in Nat
  <2>1. last[t] \in Nat /\ clock \in Nat /\ Period[t] \in Nat /\ last[t] <= clock
    BY TableAssumption DEF TypeOK, Releases
  <2> QED
    BY <2>1
<1>2. cycleTime \in Nat
  BY DEF TypeOK
<1>3. stack' = Append(stack, f) /\ cycleTime' = f.elapsed \div UnitsPerMs
  BY DEF Enter, Released, Skips, NextRelease, Elapsed, Activation
<1>4. f \in Frame /\ f.task = t /\ f.previous = cycleTime /\ f.elapsed = elapsed
  <2> HIDE DEF elapsed
  <2> QED  BY <1>1, <1>2 DEF Frame, Pc
<1>5. elapsed \div UnitsPerMs \in Nat
  BY <1>1, DivNat, ClockAssumption
<1> QED
  <2> HIDE DEF f, elapsed
  <2> QED  BY <1>3, <1>4, <1>5

\* Nesting goes on following the priorities.
LEMMA OrderStep ==
  ASSUME TypeOK, Levels, Releases, Order, [Next]_vars
  PROVE  Order'
<1>1. /\ Len(stack) \in Nat /\ Len(due) \in Nat
      /\ \A k \in 1..Len(stack) : stack[k] \in Frame
  BY StackFacts, DueFacts, ElementOfSeq
<1>2. CASE FrameStep
  <2>1. stack # <<>>
    BY <1>2, FrameStepFrame
  <2>2. /\ Len(stack') = Len(stack)
        /\ \A k \in 1..Len(stack) : stack'[k].task = stack[k].task
    BY <1>2, <2>1, FrameStepStack
  <2>3. CASE UNCHANGED due
    BY <2>2, <2>3 DEF Order, StackOrdered
  <2>4. CASE ServeEnd
    <3>1. due # <<>> /\ due' = SubSeq(due, 1, Len(due) - 1)
      <4>1. Len(due) = Len(stack) + 1 /\ due' = SubSeq(due, 1, Len(due) - 1)
        BY <2>4 DEF ServeEnd, Serving
      <4>2. Len(due) # 0
        BY <1>1, <4>1
      <4> QED
        BY <4>1, <4>2, DueFacts
    <3>2. Len(due') = Len(due) - 1 /\ \A k \in 1..Len(due) - 1 : due'[k] = due[k]
      BY <3>1, DueFacts
    <3>3. \A k \in 1..Len(stack) : k < Len(due') =>
            k < Len(due) /\ due'[k + 1] = due[k + 1]
      BY <1>1, <3>2
    <3> QED
      BY <2>2, <3>3 DEF Order, StackOrdered
  <2> QED
    BY <1>2, <2>3, <2>4 DEF FrameStep, CheckCancelled, CheckWatchdog, CheckPass,
                            RunNetwork, LoopAgain, RaiseError
<1>3. CASE CheckServe
  <2> DEFINE q == Due(Priority[Top.task], TRUE)
  <2>1. /\ stack # <<>> /\ Len(due) = Len(stack) /\ UNCHANGED stack
        /\ due' = Append(due, q) /\ Kind[Top.task] # "startup"
    BY <1>3 DEF CheckServe, CheckOnTime, Executing
  <2>2. /\ Len(due') = Len(due) + 1
        /\ \A k \in 1..Len(due) : due'[k] = due[k]
        /\ due'[Len(due) + 1] = q
    <3>1. q \in SUBSET Task
      BY DueType
    <3> HIDE DEF q
    <3> QED
      BY <2>1, <3>1, DueFacts
  <2>3. \A t \in q : Kind[t] = "cyclic" /\ Priority[Top.task] < Priority[t]
    <3>1. \A t \in q : t \in Task /\ Kind[t] = "cyclic" /\ Priority[t] > Priority[Top.task]
      BY DEF Due
    <3>2. Top.task \in Task
      BY <2>1, StackFacts DEF Frame
    <3> QED
      BY <3>1, <3>2, TableAssumption
  <2>4. ASSUME NEW k \in 1..Len(stack)
        PROVE  /\ Kind[stack[k].task] # "startup"
               /\ \A t \in due'[k + 1] :
                    Kind[t] = "cyclic" /\ Priority[stack[k].task] < Priority[t]
    <3>1. CASE k = Len(stack)
      BY <2>1, <2>2, <2>3, <3>1 DEF Top
    <3>2. CASE k # Len(stack)
      <4>1. k < Len(due) /\ k + 1 \in 1..Len(due)
        BY <1>1, <2>1, <3>2
      <4> QED
        BY <2>2, <4>1 DEF Order
    <3> QED
      BY <3>1, <3>2
  <2> QED
    BY <2>1, <2>4 DEF Order, StackOrdered
<1>4. CASE Leave
  <2>1. /\ stack # <<>> /\ UNCHANGED due /\ stack' = Under
    BY <1>4 DEF Leave, Executing
  <2>2. /\ Len(stack') = Len(stack) - 1
        /\ \A k \in 1..Len(stack) - 1 : stack'[k] = stack[k]
    BY <2>1, StackFacts
  <2> QED
    BY <1>1, <2>1, <2>2 DEF Order, StackOrdered
<1>5. CASE \E t \in Task : Dispatch(t)
  <2>1. PICK t \in Task : Dispatch(t)
    BY <1>5
  <2>2. /\ Len(due) = Len(stack) + 1 /\ t \in Queue /\ due # <<>>
        /\ due' = [due EXCEPT ![Len(due)] = Queue \ {t}]
    BY <1>1, <2>1, DueFacts DEF Dispatch, Serving
  <2>3. /\ Len(due') = Len(due)
        /\ \A k \in 1..Len(due) : due'[k] \subseteq due[k]
    <3>1. Queue \ {t} \in SUBSET Task
      BY <2>2, DueFacts
    <3>2. /\ Len(due') = Len(due)
          /\ \A k \in 1..Len(due) :
               due'[k] = IF k = Len(due) THEN Queue \ {t} ELSE due[k]
      BY <2>2, <3>1, DueFacts
    <3> QED
      BY <3>2 DEF Queue
  <2>4. \A k \in 1..Len(stack) :
          /\ Kind[stack[k].task] # "startup"
          /\ \A u \in due[k + 1] :
               Kind[u] = "cyclic" /\ Priority[stack[k].task] < Priority[u]
    BY <1>1, <2>2 DEF Order
  <2>5. \A k \in 1..Len(stack) : k + 1 \in 1..Len(due)
    BY <1>1, <2>2
  <2>6. CASE UNCHANGED stack
    BY <2>3, <2>4, <2>5, <2>6 DEF Order, StackOrdered
  <2>7. CASE Enter(t)
    <3>1. PICK f \in Frame : stack' = Append(stack, f) /\ f.task = t
      BY <2>7, EnterFrame
    <3>2. /\ Len(stack') = Len(stack) + 1
          /\ \A k \in 1..Len(stack) : stack'[k] = stack[k]
          /\ stack'[Len(stack) + 1] = f
      BY <3>1, StackFacts
    <3>3. \A k \in 1..Len(stack) : Priority[stack[k].task] < Priority[t]
      <4>1. CASE stack = <<>>
        BY <1>1, <4>1, StackFacts
      <4>2. CASE stack # <<>>
        <5>1. Len(stack) \in 1..Len(stack)
          BY <1>1, <4>2, StackFacts
        <5>2. Priority[stack[Len(stack)].task] < Priority[t]
          BY <2>2, <2>4, <5>1 DEF Queue
        <5>3. \A k \in 1..Len(stack) :
                k < Len(stack) =>
                  Priority[stack[k].task] < Priority[stack[Len(stack)].task]
          BY <5>1 DEF Order, StackOrdered
        <5>4. \A k \in 1..Len(stack) : Priority[stack[k].task] \in Int
          <6>1. \A k \in 1..Len(stack) : stack[k].task \in Task
            BY <1>1 DEF Frame
          <6>2. \A u \in Task : Priority[u] \in Int
            BY TableAssumption
          <6> QED
            BY <6>1, <6>2
        <5>5. Priority[t] \in Int
          BY TableAssumption
        <5>6. ASSUME NEW k \in 1..Len(stack)
              PROVE  Priority[stack[k].task] < Priority[t]
          <6>1. k = Len(stack) \/ k < Len(stack)
            BY <1>1
          <6> QED
            BY <5>1, <5>2, <5>3, <5>4, <5>5, <6>1
        <5> QED
          BY <5>6
      <4> QED
        BY <4>1, <4>2
    <3>4. StackOrdered'
      <4> SUFFICES ASSUME NEW j \in 1..Len(stack'), NEW k \in 1..Len(stack'), j < k
                   PROVE  Priority[stack'[j].task] < Priority[stack'[k].task]
        BY DEF StackOrdered
      <4>1. j \in 1..Len(stack) /\ (k \in 1..Len(stack) \/ k = Len(stack) + 1)
        BY <1>1, <3>2
      <4>2. CASE k \in 1..Len(stack)
        BY <3>2, <4>1, <4>2 DEF Order, StackOrdered
      <4>3. CASE k = Len(stack) + 1
        BY <3>1, <3>2, <3>3, <4>1, <4>3
      <4> QED
        BY <4>1, <4>2, <4>3
    <3>5. ASSUME NEW k \in 1..Len(stack'), k < Len(due')
          PROVE  /\ Kind[stack'[k].task] # "startup"
                 /\ \A u \in due'[k + 1] :
                      /\ Kind[u] = "cyclic"
                      /\ Priority[stack'[k].task] < Priority[u]
      <4>1. k \in 1..Len(stack)
        BY <1>1, <2>2, <2>3, <3>2, <3>5
      <4> QED
        BY <2>3, <2>4, <2>5, <3>2, <4>1
    <3> QED
      BY <3>4, <3>5 DEF Order
  <2> QED
    BY <2>1, <2>6, <2>7 DEF Dispatch
<1>6. CASE StartupEnd \/ TickEnd \/ StepEnd \/ TickStartup \/ TickService
  <2>1. stack' = <<>>
    BY <1>6 DEF StartupEnd, TickEnd, StepEnd, TickStartup, TickService, Levels
  <2> QED
    BY <2>1 DEF Order, StackOrdered
<1>7. CASE StepBegin
  <2>1. stack' = <<>>
    BY <1>7 DEF StepBegin, Levels
  <2> QED
    BY <2>1 DEF Order, StackOrdered
<1>8. CASE CommandStep \/ OutsideStep \/ UNCHANGED vars
  BY <1>8, CommandUnchanged, OutsideUnchanged DEF callVars, Order, StackOrdered
<1> QED
  BY <1>2, <1>3, <1>4, <1>5, <1>6, <1>7, <1>8, NextCases

-----------------------------------------------------------------------------
\* Saved cycle times go on matching the frames below.
LEMMA CycleTimesStep ==
  ASSUME TypeOK, Levels, Releases, CycleTimes, [Next]_vars
  PROVE  CycleTimes'
<1>1. Len(stack) \in Nat /\ (stack = <<>> <=> Len(stack) = 0)
  BY StackFacts
<1>2. CASE FrameStep
  <2>1. stack # <<>> /\ cycleTime' = cycleTime
    BY <1>2, FrameStepFrame
  <2>2. /\ stack' # <<>>
        /\ Len(stack') = Len(stack)
        /\ \A k \in 1..Len(stack) : /\ stack'[k].elapsed = stack[k].elapsed
                                    /\ stack'[k].previous = stack[k].previous
    BY <1>2, <2>1, FrameStepStack
  <2>3. \A k \in 1..Len(stack) - 1 : k \in 1..Len(stack) /\ k + 1 \in 1..Len(stack)
    BY <1>1
  <2>4. Len(stack) \in 1..Len(stack)
    BY <1>1, <2>1
  <2>5. \A k \in 1..Len(stack') - 1 :
          stack'[k + 1].previous = stack'[k].elapsed \div UnitsPerMs
    BY <2>2, <2>3 DEF CycleTimes
  <2>6. cycleTime' = stack'[Len(stack')].elapsed \div UnitsPerMs
    BY <2>1, <2>2, <2>4 DEF CycleTimes, Top
  <2> QED
    BY <2>5, <2>6 DEF CycleTimes, Top
<1>3. CASE Leave
  <2>1. /\ stack # <<>> /\ stack' = Under
        /\ Under # <<>> => cycleTime' = Top.previous
    BY <1>3 DEF Leave, Executing, Restored
  <2>2. /\ Len(stack') = Len(stack) - 1
        /\ \A k \in 1..Len(stack) - 1 : stack'[k] = stack[k]
        /\ stack' \in Seq(Frame)
    BY <2>1, StackFacts
  <2>3. \A k \in 1..Len(stack') - 1 :
          stack'[k + 1].previous = stack'[k].elapsed \div UnitsPerMs
    <3>1. \A k \in 1..Len(stack') - 1 :
            /\ k \in 1..Len(stack) - 1
            /\ k + 1 \in 1..Len(stack) - 1
      BY <1>1, <2>2
    <3> QED
      BY <2>2, <3>1 DEF CycleTimes
  <2>4. CASE stack' # <<>>
    <3>1. Len(stack') \in 1..Len(stack) - 1 /\ Len(stack') + 1 = Len(stack)
      BY <1>1, <2>2, <2>4, EmptyLen
    <3>2. stack[Len(stack)].previous = stack[Len(stack')].elapsed \div UnitsPerMs
      BY <3>1 DEF CycleTimes
    <3>3. cycleTime' = stack'[Len(stack')].elapsed \div UnitsPerMs
      BY <2>1, <2>2, <2>4, <3>1, <3>2 DEF Top
    <3> QED
      BY <2>3, <3>3 DEF CycleTimes, Top
  <2> QED
    BY <2>3, <2>4 DEF CycleTimes
<1>4. CASE \E t \in Task : Dispatch(t)
  <2>1. PICK t \in Task : Dispatch(t)
    BY <1>4
  <2>2. CASE UNCHANGED <<taskVars, memoryVars, stack>>
    BY <2>2 DEF memoryVars, CycleTimes, Top
  <2>3. CASE Enter(t)
    <3>1. PICK f \in Frame : /\ stack' = Append(stack, f) /\ f.previous = cycleTime
                             /\ cycleTime' = f.elapsed \div UnitsPerMs
      BY <2>3, EnterFrame
    <3>2. /\ Len(stack') = Len(stack) + 1
          /\ \A k \in 1..Len(stack) : stack'[k] = stack[k]
          /\ stack'[Len(stack) + 1] = f
      BY <3>1, StackFacts
    <3>3. ASSUME NEW k \in 1..Len(stack') - 1
          PROVE  stack'[k + 1].previous = stack'[k].elapsed \div UnitsPerMs
      <4>1. k \in 1..Len(stack)
        BY <1>1, <3>2
      <4>2. CASE k = Len(stack)
        BY <1>1, <3>1, <3>2, <4>1, <4>2 DEF CycleTimes, Top
      <4>3. CASE k # Len(stack)
        <5>1. k \in 1..Len(stack) - 1 /\ k + 1 \in 1..Len(stack)
          BY <1>1, <4>1, <4>3
        <5> QED
          BY <3>2, <4>1, <5>1 DEF CycleTimes
      <4> QED
        BY <4>2, <4>3
    <3>4. cycleTime' = stack'[Len(stack')].elapsed \div UnitsPerMs
      BY <3>1, <3>2
    <3> QED
      BY <3>3, <3>4 DEF CycleTimes, Top
  <2> QED
    BY <2>1, <2>2, <2>3 DEF Dispatch
<1>5. CASE CheckServe
  BY <1>5 DEF CheckServe, memoryVars, CycleTimes, Top
<1>6. CASE StartupEnd \/ TickEnd \/ StepEnd \/ TickStartup \/ TickService
  <2>1. stack' = <<>>
    BY <1>6 DEF StartupEnd, TickEnd, StepEnd, TickStartup, TickService, Levels
  <2>2. Len(stack') = 0
    BY <2>1
  <2> QED
    BY <2>1, <2>2 DEF CycleTimes
<1>7. CASE StepBegin
  <2>1. stack' = <<>> /\ Len(stack') = 0
    BY <1>7 DEF StepBegin, Levels
  <2> QED
    BY <2>1 DEF CycleTimes
<1>8. CASE CommandStep
  <2>1. stack' = <<>> /\ Len(stack') = 0
    BY <1>8, CommandUnchanged DEF callVars, Levels
  <2> QED
    BY <2>1 DEF CycleTimes
<1>9. CASE OutsideStep \/ UNCHANGED vars
  BY <1>9, OutsideUnchanged DEF callVars, memoryVars, CycleTimes, Top
<1> QED
  BY <1>2, <1>3, <1>4, <1>5, <1>6, <1>7, <1>8, <1>9, NextCases

-----------------------------------------------------------------------------
\* The types of one task's timing state.
LEMMA TaskFacts ==
  ASSUME TypeOK, NEW t \in Task
  PROVE  /\ clock \in Nat /\ next[t] \in Nat /\ last[t] \in Nat
         /\ Period[t] \in Nat \ {0}
<1>1. clock \in Nat /\ next \in [Task -> Nat] /\ last \in [Task -> Nat]
  BY DEF TypeOK
<1>2. Period \in [Task -> Nat \ {0}]
  BY TableAssumption
<1> QED
  BY <1>1, <1>2

\* What dispatch() does to the release of an OB that is due: the next one is in
\* the future and at most one period away.
LEMMA EnterRelease ==
  ASSUME TypeOK, NEW t \in Task, Enter(t), Kind[t] # "startup", clock >= next[t]
  PROVE  clock < next'[t] /\ next'[t] <= clock + Period[t]
<1> DEFINE late == clock - next[t]
           jump == ((late \div Period[t]) + 1) * Period[t]
<1>1. /\ late \in Nat /\ Period[t] \in Nat \ {0} /\ clock \in Nat /\ next[t] \in Nat
  BY TaskFacts
<1>2. next'[t] = next[t] + jump
  BY DEF Enter, Released, Skips, NextRelease, Elapsed, Activation, TypeOK
<1>3. jump \in Nat /\ late < jump /\ jump <= late + Period[t]
  <2> HIDE DEF late
  <2> QED  BY <1>1, DivNat
<1>4. late = clock - next[t]
  OBVIOUS
<1> HIDE DEF late, jump
<1> QED
  BY <1>1, <1>2, <1>3, <1>4

\* Releases keep up with the clock.
LEMMA ReleasesStep ==
  ASSUME TypeOK, Levels, Modes, Releases, [Next]_vars
  PROVE  Releases'
<1>1. Len(stack) \in Nat /\ Len(due) \in Nat
      /\ (stack = <<>> <=> Len(stack) = 0) /\ (due = <<>> <=> Len(due) = 0)
  BY StackFacts, DueFacts
<1>2. ASSUME UNCHANGED <<clock, next, last, phase>>,
             state' = "RUN" => state = "RUN",
             due' # <<>> => due # <<>> /\ due'[1] \subseteq due[1]
      PROVE  Releases'
  BY <1>2 DEF Releases, NoBacklog
<1>3. CASE FrameStep
  <2>1. /\ stack # <<>> /\ UNCHANGED <<clock, taskVars, phase>>
        /\ state' = "RUN" => state = "RUN"
    BY <1>3, FrameStepFrame DEF modeVars, Fault
  <2>2. CASE UNCHANGED due
    BY <1>2, <2>1, <2>2 DEF taskVars
  <2>3. CASE ServeEnd
    <3>1. Len(due) = Len(stack) + 1 /\ due' = SubSeq(due, 1, Len(due) - 1)
      BY <2>3 DEF ServeEnd, Serving
    <3>2. due # <<>> /\ 1 \in 1..Len(due) - 1
      BY <1>1, <2>1, <3>1
    <3>3. due'[1] = due[1]
      BY <3>1, <3>2, DueFacts
    <3> QED
      BY <1>2, <2>1, <3>2, <3>3 DEF taskVars
  <2> QED
    BY <1>3, <2>2, <2>3 DEF FrameStep, CheckCancelled, CheckWatchdog, CheckPass,
                            RunNetwork, LoopAgain, RaiseError
<1>4. CASE Leave
  BY <1>2, <1>4 DEF Leave, NoFault, modeVars, Fault
<1>5. CASE CheckServe
  <2>1. /\ Len(due) = Len(stack) /\ stack # <<>>
        /\ due' = Append(due, Due(Priority[Top.task], TRUE))
        /\ UNCHANGED <<clock, modeVars, taskVars, phase>>
    BY <1>5 DEF CheckServe, CheckOnTime, Executing
  <2>2. due # <<>> /\ 1 \in 1..Len(due)
    BY <1>1, <2>1
  <2>3. due'[1] = due[1]
    <3> DEFINE ready == Due(Priority[Top.task], TRUE)
    <3>1. ready \in SUBSET Task /\ due \in Seq(SUBSET Task) /\ due' = Append(due, ready)
      BY <2>1, DueType, DueFacts
    <3> HIDE DEF ready
    <3>2. \A k \in 1..Len(due) : Append(due, ready)[k] = due[k]
      BY <3>1, PushFrame
    <3> QED
      BY <2>2, <3>1, <3>2
  <2> QED
    BY <1>2, <2>1, <2>2, <2>3 DEF modeVars, taskVars
<1>6. CASE \E t \in Task : Dispatch(t)
  <2>1. PICK t \in Task : Dispatch(t)
    BY <1>6
  <2>2. /\ Len(due) = Len(stack) + 1 /\ t \in Queue
        /\ due' = [due EXCEPT ![Len(due)] = Queue \ {t}]
        /\ UNCHANGED <<clock, modeVars, phase>>
    BY <2>1 DEF Dispatch, Serving
  <2>3. due # <<>> /\ 1 \in 1..Len(due)
    BY <1>1, <2>2
  <2>4. due'[1] \subseteq due[1]
    <3>1. Queue \ {t} \in SUBSET Task
      BY <2>3, DueFacts
    <3>2. due'[1] = IF 1 = Len(due) THEN Queue \ {t} ELSE due[1]
      BY <2>2, <2>3, <3>1, DueFacts
    <3> QED
      BY <3>2 DEF Queue
  <2>5. CASE UNCHANGED <<taskVars, memoryVars, stack>>
    BY <1>2, <2>2, <2>3, <2>4, <2>5 DEF taskVars, modeVars
  <2>6. CASE Enter(t)
    <3>1. state = "RUN" /\ Kind[t] # "startup" => clock >= next[t]
      <4>1. holder # "none"
        BY <2>3 DEF Levels
      <4>2. CASE stack = <<>> /\ phase = "startup"
        <5>1. Len(due) = 1
          BY <1>1, <2>2, <4>2
        <5> QED
          BY <2>2, <2>3, <4>2, <5>1 DEF Queue, Releases
      <4>3. CASE phase = "step"
        BY <4>1, <4>3 DEF Modes
      <4> QED
        BY <2>1, <2>6, <4>2, <4>3 DEF Dispatch, Enter, Released, Skips, NextRelease, Elapsed, Activation, taskVars
    <3>2. /\ last' = [last EXCEPT ![t] = clock]
          /\ last \in [Task -> Nat] /\ next \in [Task -> Nat] /\ clock \in Nat
          /\ \A u \in Task \ {t} : next'[u] = next[u]
      BY <2>6 DEF Enter, Released, Skips, NextRelease, Elapsed, Activation, TypeOK
    <3>3. \A u \in Task : last'[u] <= clock'
      BY <2>2, <3>2 DEF Releases
    <3>4. NoBacklog'
      <4> SUFFICES ASSUME state = "RUN", NEW u \in Task, Kind[u] # "startup",
                          last'[u] # 0
                   PROVE  last'[u] < next'[u] /\ next'[u] <= last'[u] + Period[u]
        BY <2>2 DEF NoBacklog, modeVars
      <4>1. CASE u = t
        BY <2>6, <3>1, <3>2, <4>1, EnterRelease
      <4>2. CASE u # t
        BY <3>2, <4>2 DEF Releases, NoBacklog
      <4> QED
        BY <4>1, <4>2
    <3> QED
      BY <2>2, <2>3, <2>4, <3>3, <3>4 DEF Releases
  <2> QED
    BY <2>1, <2>5, <2>6 DEF Dispatch
<1>7. CASE StartupEnd \/ TickService
  BY <1>7 DEF StartupEnd, TickService, modeVars, taskVars, Releases, NoBacklog
<1>8. CASE TickEnd \/ StepEnd
  BY <1>8 DEF TickEnd, StepEnd, Release, modeVars, taskVars, Releases, NoBacklog
<1>9. CASE TickStartup
  BY <1>9 DEF TickStartup, taskVars, Releases, NoBacklog
<1>10. CASE StepBegin
  BY <1>10 DEF StepBegin, taskVars, Levels, Releases, NoBacklog
<1>11. CASE CommandStep
  <2>1. holder = "none" /\ UNCHANGED callVars /\ UNCHANGED clock
    BY <1>11 DEF CommandStep, Load, Start, Stop, Reset, SetOutput, Status, Quit,
                 Handle
  <2>2. due' = <<>>
    BY <2>1 DEF callVars, Levels
  <2>3. CASE Refusal
    BY <1>2, <2>1, <2>2, <2>3 DEF Refusal, modeVars, taskVars, callVars
  <2>4. clock \in Nat /\ clock' \in Nat
    BY <2>1 DEF TypeOK
  <2>5. CASE (Load \/ Reset) /\ ~Refusal
    <3>1. state' = "STOP" /\ last' = [t \in Task |-> 0]
      BY <2>5 DEF Load, Reset, NewTasks, Stopped
    <3> QED
      BY <2>2, <2>4, <3>1 DEF Releases, NoBacklog
  <2>6. CASE Start /\ ~Refusal
    <3>1. last' = [t \in Task |-> 0]
      BY <2>6 DEF Start
    <3> QED
      BY <2>2, <2>4, <3>1 DEF Releases, NoBacklog
  <2>7. CASE Stop \/ SetOutput \/ Status \/ Quit
    BY <2>1, <2>2, <2>7 DEF Stop, StopEffect, SetOutput, Status, Quit, Refusal,
                            modeVars, taskVars, Releases, NoBacklog
  <2> QED
    BY <1>11, <2>5, <2>6, <2>7, <2>3 DEF CommandStep
<1>12. CASE Advance
  <2>1. /\ clock' = clock + 1
        /\ UNCHANGED <<state, next, last, phase, due>>
    BY <1>12 DEF Advance, modeVars, taskVars, callVars
  <2>2. \A t \in Task : last[t] <= clock'
    BY <2>1, TaskFacts DEF Releases
  <2> QED
    BY <2>1, <2>2 DEF Releases, NoBacklog
<1>13. CASE WorkerExit \/ (\E c \in Commands : ReadLine(c)) \/ EndOfInput
            \/ Terminated \/ UNCHANGED vars
  BY <1>2, <1>13 DEF WorkerExit, ReadLine, EndOfInput, Terminated, vars, modeVars,
                     taskVars, callVars
<1> QED
  BY <1>3, <1>4, <1>5, <1>6, <1>7, <1>8, <1>9, <1>10, <1>11, <1>12, <1>13,
     NextCases DEF OutsideStep

-----------------------------------------------------------------------------
\* Type correctness of everything but the stack and the dispatch loops.
ModeTypes ==
  /\ state \in {"EMPTY", "STOP", "RUN", "FAULT"}
  /\ error \in {"", "watchdog", "exception", "native"}
  /\ cancel \in BOOLEAN
  /\ startupPending \in BOOLEAN

TaskTypes ==
  /\ next \in [Task -> Nat]
  /\ last \in [Task -> Nat]
  /\ active \in [Task -> BOOLEAN]
  /\ missed \in [Task -> Nat]

MemoryTypes ==
  /\ outputs \in {0, 1}
  /\ cycleTime \in Nat
  /\ dispatchTag \in Task \cup {0}

CallTypes ==
  /\ clock \in Nat
  /\ holder \in {"none", "worker", "command"}
  /\ phase \in {"idle", "startup", "service", "step"}
  /\ line \in Commands \cup {"none", "exit"}
  /\ worker \in {"loop", "done"}

\* TypeOK by groups of variables.
LEMMA TypeGroups ==
  /\ TypeOK => /\ ModeTypes /\ TaskTypes /\ MemoryTypes /\ CallTypes
  /\ /\ ModeTypes /\ TaskTypes /\ MemoryTypes /\ CallTypes
     /\ stack \in Seq(Frame) /\ due \in Seq(SUBSET Task)
     => TypeOK
  BY DEF TypeOK, ModeTypes, TaskTypes, MemoryTypes, CallTypes

\* Types of the mode variables.
LEMMA ModeTypesStep ==
  ASSUME ModeTypes, [Next]_vars
  PROVE  ModeTypes'
<1>1. UNCHANGED modeVars => ModeTypes'
  BY DEF modeVars, ModeTypes
<1>2. \A cause \in {"watchdog", "exception", "native"} : Fault(cause) => ModeTypes'
  BY DEF Fault, ModeTypes
<1>3. CASE FrameStep
  BY <1>1, <1>2, <1>3, FrameStepFrame
<1>4. CASE Leave
  BY <1>1, <1>2, <1>4 DEF Leave, NoFault
<1>5. CASE CheckServe \/ (\E t \in Task : Dispatch(t)) \/ StartupEnd \/ TickEnd
           \/ StepEnd \/ TickService
  BY <1>1, <1>5 DEF CheckServe, Dispatch, StartupEnd, TickEnd, StepEnd, TickService
<1>6. CASE TickStartup \/ StepBegin
  BY <1>6 DEF TickStartup, StepBegin, ModeTypes
<1>7. CASE CommandStep
  <2>1. CASE Load \/ Reset \/ Start
    BY <1>1, <2>1 DEF Load, Reset, Start, Stopped, Refusal, ModeTypes
  <2>2. CASE SetOutput \/ Status
    BY <1>1, <2>2 DEF SetOutput, Status, Refusal
  <2>3. CASE Stop \/ Quit
    BY <2>3 DEF Stop, Quit, StopEffect, ModeTypes
  <2> QED
    BY <1>7, <2>1, <2>2, <2>3 DEF CommandStep
<1>8. CASE OutsideStep
  <2>1. CASE WorkerExit \/ Advance
    BY <1>1, <2>1 DEF WorkerExit, Advance
  <2>2. CASE (\E c \in Commands : ReadLine(c)) \/ EndOfInput
    BY <2>2 DEF ReadLine, EndOfInput, ModeTypes
  <2>3. CASE Terminated
    BY <1>1, <2>3 DEF Terminated, vars
  <2> QED
    BY <1>8, <2>1, <2>2, <2>3 DEF OutsideStep
<1>9. CASE UNCHANGED vars
  BY <1>1, <1>9 DEF vars
<1> QED
  BY <1>3, <1>4, <1>5, <1>6, <1>7, <1>8, <1>9, NextCases

\* Types of the task table.
LEMMA TaskTypesStep ==
  ASSUME TypeOK, TaskTypes, [Next]_vars
  PROVE  TaskTypes'
<1>1. UNCHANGED taskVars => TaskTypes'
  BY DEF taskVars, TaskTypes
<1>2. CASE FrameStep
  BY <1>1, <1>2, FrameStepFrame
<1>3. CASE Leave
  BY <1>3 DEF Leave, TaskTypes
<1>4. CASE CheckServe \/ StartupEnd \/ TickEnd \/ StepEnd \/ TickStartup
           \/ TickService \/ StepBegin
  BY <1>1, <1>4 DEF CheckServe, StartupEnd, TickEnd, StepEnd, TickStartup,
                    TickService, StepBegin
<1>5. ASSUME NEW t \in Task, Enter(t)  PROVE TaskTypes'
  <2>1. last' \in [Task -> Nat] /\ active' \in [Task -> BOOLEAN]
    <3>1. last' = [last EXCEPT ![t] = clock] /\ active' = [active EXCEPT ![t] = TRUE]
      BY <1>5 DEF Enter, Released, Skips, NextRelease, Elapsed, Activation
    <3>2. clock \in Nat
      BY <1>5, TaskFacts
    <3> QED
      BY <3>1, <3>2 DEF TaskTypes
  <2>2. missed' \in [Task -> Nat] /\ next' \in [Task -> Nat]
    <3>1. CASE Kind[t] # "startup" /\ clock >= next[t]
      <4> DEFINE skips == (clock - next[t]) \div Period[t]
                 jump == (skips + 1) * Period[t]
      <4>1. clock - next[t] \in Nat /\ Period[t] \in Nat \ {0}
        BY <1>5, <3>1, TaskFacts
      <4>2. skips \in Nat /\ jump \in Nat
        BY <4>1, DivNat
      <4>3. /\ missed' = [missed EXCEPT ![t] = missed[t] + skips]
            /\ next' = [next EXCEPT ![t] = next[t] + jump]
        BY <1>5, <3>1 DEF Enter, Released, Skips, NextRelease, Elapsed, Activation
      <4>4. missed[t] \in Nat /\ next[t] \in Nat
        BY <1>5 DEF TaskTypes
      <4> HIDE DEF skips, jump
      <4>5. missed[t] + skips \in Nat /\ next[t] + jump \in Nat
        BY <4>2, <4>4
      <4> QED
        BY <4>3, <4>5 DEF TaskTypes
    <3>2. CASE ~(Kind[t] # "startup" /\ clock >= next[t])
      BY <1>5, <3>2 DEF Enter, Released, Skips, NextRelease, Elapsed, Activation, TaskTypes
    <3> QED
      BY <3>1, <3>2
  <2> QED
    BY <2>1, <2>2 DEF TaskTypes
<1>6. CASE \E t \in Task : Dispatch(t)
  BY <1>1, <1>5, <1>6 DEF Dispatch
<1>7. CASE CommandStep
  <2>0. CASE Refusal
    BY <1>1, <2>0 DEF Refusal
  <2>1. CASE (Load \/ Reset) /\ ~Refusal
    <3>1. NewTasks
      BY <2>1 DEF Load, Reset
    <3> QED
      BY <3>1 DEF NewTasks, TaskTypes
  <2>2. CASE Start /\ ~Refusal
    <3>1. /\ last' = [t \in Task |-> 0] /\ UNCHANGED <<active, missed>>
          /\ next' = [t \in Task |->
                        clock + (IF Kind[t] = "cyclic" THEN Period[t] ELSE 0)]
      BY <2>2 DEF Start
    <3>2. \A t \in Task :
            clock + (IF Kind[t] = "cyclic" THEN Period[t] ELSE 0) \in Nat
      BY TaskFacts
    <3>3. next' \in [Task -> Nat]
      BY <3>1, <3>2
    <3> QED
      BY <3>1, <3>3 DEF TaskTypes
  <2>3. CASE Stop \/ SetOutput \/ Status \/ Quit
    BY <1>1, <2>3 DEF Stop, StopEffect, SetOutput, Status, Quit, Refusal
  <2> QED
    BY <1>7, <2>0, <2>1, <2>2, <2>3 DEF CommandStep
<1>8. CASE OutsideStep \/ UNCHANGED vars
  BY <1>1, <1>8, OutsideUnchanged
<1> QED
  BY <1>2, <1>3, <1>4, <1>6, <1>7, <1>8, NextCases

\* Types of the program memory.
LEMMA MemoryTypesStep ==
  ASSUME TypeOK, MemoryTypes, Releases, [Next]_vars
  PROVE  MemoryTypes'
<1>1. UNCHANGED memoryVars => MemoryTypes'
  BY DEF memoryVars, MemoryTypes
<1>2. CASE FrameStep
  <2>1. UNCHANGED <<cycleTime, dispatchTag>>
    BY <1>2, FrameStepFrame
  <2>2. \A cause : Refuse(cause) => outputs' \in {outputs, 0}
    BY DEF Refuse, Fault
  <2>3. outputs' \in {0, 1, outputs}
    BY <1>2, <2>2 DEF FrameStep, CheckCancelled, CheckWatchdog, CheckPass,
       ServeEnd, RunNetwork, LoopAgain, RaiseError, Fault, memoryVars
  <2> QED
    BY <2>1, <2>3 DEF MemoryTypes
<1>3. CASE Leave
  <2>1. Top \in Frame
    BY <1>3, StackFacts DEF Leave, Executing
  <2>2. cycleTime' \in {cycleTime, Top.previous} /\ UNCHANGED dispatchTag
    BY <1>3 DEF Leave, Restored
  <2>3. outputs' \in {0, outputs}
    BY <1>3 DEF Leave, Fault
  <2>4. Top.previous \in Nat
    BY <2>1 DEF Frame
  <2> QED
    BY <2>2, <2>3, <2>4 DEF MemoryTypes
<1>4. CASE CheckServe \/ StartupEnd \/ TickEnd \/ TickStartup \/ TickService
           \/ StepBegin
  BY <1>1, <1>4 DEF CheckServe, StartupEnd, TickEnd, TickStartup, TickService,
                    StepBegin
<1>5. CASE \E t \in Task : Dispatch(t)
  <2>1. PICK t \in Task : Dispatch(t)
    BY <1>5
  <2>2. CASE Enter(t)
    <3>1. cycleTime' \in Nat
      BY <2>2, EnterFrame
    <3>2. dispatchTag' = t /\ UNCHANGED outputs
      BY <2>2 DEF Enter, Released, Skips, NextRelease, Elapsed, Activation
    <3> QED
      BY <3>1, <3>2 DEF MemoryTypes
  <2> QED
    BY <1>1, <2>1, <2>2 DEF Dispatch
<1>6. CASE StepEnd
  BY <1>6 DEF StepEnd, MemoryTypes
<1>7. CASE CommandStep
  <2>0. CASE Refusal
    BY <1>1, <2>0 DEF Refusal
  <2>1. CASE (Load \/ Reset \/ Start) /\ ~Refusal
    <3>1. NewMemory \/ UNCHANGED memoryVars
      BY <2>1 DEF Load, Reset, Start
    <3> QED
      BY <1>1, <3>1 DEF NewMemory, MemoryTypes
  <2>2. CASE SetOutput \/ Stop \/ Quit
    BY <2>2 DEF SetOutput, Stop, Quit, StopEffect, MemoryTypes
  <2>3. CASE Status
    BY <1>1, <2>3 DEF Status, Refusal
  <2> QED
    BY <1>7, <2>0, <2>1, <2>2, <2>3 DEF CommandStep
<1>8. CASE OutsideStep \/ UNCHANGED vars
  BY <1>1, <1>8, OutsideUnchanged
<1> QED
  BY <1>2, <1>3, <1>4, <1>5, <1>6, <1>7, <1>8, NextCases

\* Types of the clock, the mutex, the loops and the threads.
LEMMA CallTypesStep ==
  ASSUME CallTypes, [Next]_vars
  PROVE  CallTypes'
<1>1. UNCHANGED <<clock, holder, phase, line, worker>> => CallTypes'
  BY DEF CallTypes
<1>2. CASE FrameStep
  BY <1>1, <1>2, FrameStepFrame
<1>3. CASE Leave \/ CheckServe \/ \E t \in Task : Dispatch(t)
  BY <1>1, <1>3 DEF Leave, CheckServe, Dispatch
<1>4. CASE StartupEnd \/ TickEnd \/ StepEnd
  BY <1>4 DEF StartupEnd, TickEnd, StepEnd, Release, CallTypes
<1>5. CASE TickStartup \/ TickService \/ StepBegin
  BY <1>5 DEF TickStartup, TickService, StepBegin, CallTypes
<1>6. CASE CommandStep
  BY <1>6 DEF CommandStep, Load, Start, Stop, Reset, SetOutput, Status, Quit,
              Handle, callVars, CallTypes
<1>7. CASE OutsideStep \/ UNCHANGED vars
  BY <1>7 DEF OutsideStep, WorkerExit, ReadLine, EndOfInput, Advance, Terminated,
              vars, callVars, CallTypes
<1> QED
  BY <1>2, <1>3, <1>4, <1>5, <1>6, <1>7, NextCases

\* Every step keeps the types.
LEMMA TypeOKStep ==
  ASSUME TypeOK, Levels, Releases, [Next]_vars
  PROVE  TypeOK'
<1>1. stack \in Seq(Frame) /\ due \in Seq(SUBSET Task)
  BY StackFacts, DueFacts
<1>2. /\ ModeTypes' /\ TaskTypes' /\ MemoryTypes' /\ CallTypes'
  BY TypeGroups, ModeTypesStep, TaskTypesStep, MemoryTypesStep, CallTypesStep
<1>3. stack' \in Seq(Frame)
  <2>1. CASE FrameStep
    BY <2>1, FrameStepFrame, FrameStepStack
  <2>2. CASE Leave
    BY <2>2, StackFacts DEF Leave, Executing
  <2>3. CASE \E t \in Task : Dispatch(t)
    <3>1. ASSUME NEW t \in Task, Enter(t)  PROVE stack' \in Seq(Frame)
      BY <3>1, EnterFrame, StackFacts
    <3> QED
      BY <1>1, <2>3, <3>1 DEF Dispatch
  <2>4. CASE UNCHANGED stack
    BY <1>1, <2>4
  <2> QED
    BY <2>1, <2>2, <2>3, <2>4, NextCases, CommandUnchanged, OutsideUnchanged
       DEF CheckServe, StartupEnd, TickEnd, StepEnd, TickStartup, TickService,
           StepBegin, callVars
<1>4. due' \in Seq(SUBSET Task)
  <2>1. \A q \in SUBSET Task : <<q>> \in Seq(SUBSET Task)
    OBVIOUS
  <2>2. CASE UNCHANGED due
    BY <1>1, <2>2
  <2>3. CASE ServeEnd
    <3>1. due' = SubSeq(due, 1, Len(due) - 1) /\ Len(due) = Len(stack) + 1
      BY <2>3 DEF ServeEnd, Serving
    <3>2. due # <<>>
      BY <3>1, StackFacts, DueFacts
    <3> QED
      BY <3>1, <3>2, DueFacts
  <2>4. CASE CheckServe
    BY <2>4, DueFacts, DueType DEF CheckServe
  <2>5. CASE \E t \in Task : Dispatch(t)
    <3>1. PICK t \in Task : Dispatch(t)
      BY <2>5
    <3>2. /\ due' = [due EXCEPT ![Len(due)] = Queue \ {t}]
          /\ Len(due) = Len(stack) + 1
      BY <3>1 DEF Dispatch, Serving
    <3>3. due # <<>>
      BY <3>2, StackFacts, DueFacts
    <3>4. Queue \ {t} \in SUBSET Task
      BY <3>3, DueFacts
    <3> QED
      BY <3>2, <3>3, <3>4, DueFacts
  <2>6. CASE StartupEnd \/ TickService
    BY <2>1, <2>6, DueType DEF StartupEnd, TickService
  <2>7. CASE TickEnd \/ StepEnd
    BY <2>7, EmptySeq DEF TickEnd, StepEnd, Release
  <2>8. CASE TickStartup
    BY <2>1, <2>8 DEF TickStartup
  <2>9. CASE StepBegin
    BY <1>1, <2>1, <2>9, TableAssumption DEF StepBegin
  <2> QED
    BY <2>2, <2>3, <2>4, <2>5, <2>6, <2>7, <2>8, <2>9, NextCases,
       CommandUnchanged, OutsideUnchanged
       DEF FrameStep, CheckCancelled, CheckWatchdog, CheckPass, RunNetwork,
           LoopAgain, RaiseError, Leave, callVars
<1> QED
  BY <1>2, <1>3, <1>4 DEF ModeTypes, TaskTypes, MemoryTypes, CallTypes, TypeOK

-----------------------------------------------------------------------------
(* The invariant is inductive.                                              *)

\* The process starts in the invariant: empty memory, nobody in the mutex.
LEMMA InitIInv == Init => IInv
<1> SUFFICES ASSUME Init  PROVE IInv
  OBVIOUS
<1>1. /\ clock \in Nat /\ clock = Boot
      /\ stack = <<>> /\ due = <<>> /\ Len(stack) = 0 /\ Len(due) = 0
      /\ holder = "none" /\ phase = "idle" /\ line = "none"
      /\ state = "EMPTY" /\ error = "" /\ outputs = 0
  BY ClockAssumption DEF Init
<1>2. TypeOK
  <2>1. stack \in Seq(Frame) /\ due \in Seq(SUBSET Task)
    BY <1>1, EmptySeq
  <2>2. /\ next \in [Task -> Nat] /\ last \in [Task -> Nat]
        /\ active \in [Task -> BOOLEAN] /\ missed \in [Task -> Nat]
    BY DEF Init
  <2> QED
    BY <1>1, <2>1, <2>2 DEF Init, TypeOK
<1>3. Levels /\ Modes /\ Outputs
  BY <1>1 DEF Levels, Modes, FaultLatched, Outputs
<1>4. Order /\ CycleTimes
  <2>1. Len(stack) = 0
    BY <1>1
  <2>2. \A k : k \notin 1..Len(stack) /\ k \notin 1..Len(stack) - 1
    BY <2>1
  <2> QED
    BY <1>1, <2>2 DEF Order, StackOrdered, CycleTimes
<1>5. Releases
  <2>1. \A t \in Task : last[t] = 0
    BY DEF Init
  <2>2. clock \in Nat /\ state = "EMPTY" /\ phase = "idle"
    BY <1>1
  <2>3. \A t \in Task : last[t] <= clock
    <3>1. 0 <= clock
      BY <2>2
    <3> QED
      BY <2>1, <3>1
  <2>4. NoBacklog
    BY <2>2 DEF NoBacklog
  <2> QED
    BY <2>2, <2>3, <2>4 DEF Releases
<1> QED
  BY <1>2, <1>3, <1>4, <1>5 DEF IInv

\* Every step of either thread, and of the clock, keeps the invariant.
LEMMA NextIInv == IInv /\ [Next]_vars => IInv'
<1> SUFFICES ASSUME IInv, [Next]_vars  PROVE IInv'
  OBVIOUS
<1>1. TypeOK /\ Levels /\ Modes /\ Outputs /\ Order /\ CycleTimes /\ Releases
  BY DEF IInv
<1>2. TypeOK' /\ Levels' /\ Modes' /\ Outputs'
  BY <1>1, TypeOKStep, LevelsStep, ModesStep, OutputsStep
<1>3. Order' /\ CycleTimes' /\ Releases'
  BY <1>1, OrderStep, CycleTimesStep, ReleasesStep
<1> QED
  BY <1>2, <1>3 DEF IInv

\* What the invariant says of the states that the properties speak of.
LEMMA IInvProperties ==
  ASSUME IInv
  PROVE  /\ TypeOK /\ OutputsSafe /\ StackOrdered /\ StartupAlone
         /\ CycleTimeOwn /\ FaultLatched /\ NoBacklog
<1>1. TypeOK /\ StackOrdered /\ FaultLatched /\ NoBacklog
  BY DEF IInv, Order, Modes, Releases
<1>2. OutputsSafe
  BY DEF IInv, Levels, Outputs, OutputsSafe
<1>3. CycleTimeOwn
  BY DEF IInv, CycleTimes, CycleTimeOwn, Executing
<1>4. StartupAlone
  <2> SUFFICES ASSUME NEW k \in 1..Len(stack), Kind[stack[k].task] = "startup"
               PROVE  k = Len(stack)
    BY DEF StartupAlone
  <2>1. ~(k < Len(due))
    BY DEF IInv, Order
  <2>2. Len(stack) \in Nat /\ Len(due) \in Nat
    BY <1>1, StackFacts, DueFacts
  <2>3. holder # "none"
    BY <2>2 DEF IInv, Levels
  <2>4. Len(due) \in {Len(stack), Len(stack) + 1}
    BY <2>3 DEF IInv, Levels
  <2> QED
    BY <2>1, <2>2, <2>4
<1> QED
  BY <1>1, <1>2, <1>3, <1>4

\* The invariant holds in every reachable state.
LEMMA SpecIInv == Spec => []IInv
  BY InitIInv, NextIInv, PTL DEF Spec

-----------------------------------------------------------------------------
(* The outermost loop, which tick() or step() feeds.                        *)

\* An OB that executes, at whatever depth, leaves the outermost loop alone.
LEMMA OuterLoopKept ==
  ASSUME TypeOK, Levels, FrameStep \/ CheckServe \/ Leave
  PROVE  /\ stack # <<>> /\ due # <<>> /\ due' # <<>> /\ due'[1] = due[1]
         /\ UNCHANGED <<phase, holder>>
<1>1. stack # <<>> /\ UNCHANGED <<phase, holder>>
  BY FrameStepFrame DEF CheckServe, CheckOnTime, Leave, Executing
<1>2. /\ Len(stack) \in Nat \ {0} /\ Len(due) \in Nat
      /\ due = <<>> <=> Len(due) = 0
  BY <1>1, StackFacts, DueFacts
<1>3. due # <<>>
  BY <1>1 DEF Levels
<1>4. 1 \in 1..Len(due)
  BY <1>2, <1>3
<1>5. CASE UNCHANGED due
  BY <1>1, <1>3, <1>5
<1>6. CASE ServeEnd
  <2>1. Len(due) = Len(stack) + 1 /\ due' = SubSeq(due, 1, Len(due) - 1)
    BY <1>6 DEF ServeEnd, Serving
  <2>2. 1 \in 1..Len(due) - 1
    BY <1>2, <2>1
  <2>3. Len(due') = Len(due) - 1 /\ due'[1] = due[1]
    BY <1>3, <2>1, <2>2, DueFacts
  <2>4. due' # <<>>
    BY <1>2, <2>2, <2>3
  <2> QED
    BY <1>1, <1>3, <2>3, <2>4
<1>7. CASE CheckServe
  <2>1. due' = Append(due, Due(Priority[Top.task], TRUE))
    BY <1>7 DEF CheckServe
  <2>2. Len(due') = Len(due) + 1 /\ due'[1] = due[1]
    BY <1>4, <2>1, DueFacts, DueType
  <2>3. due' # <<>>
    BY <1>2, <2>2
  <2> QED
    BY <1>1, <1>3, <2>2, <2>3
<1> QED
  BY <1>5, <1>6, <1>7 DEF FrameStep, CheckCancelled, CheckWatchdog, CheckPass,
                          RunNetwork, LoopAgain, RaiseError, Leave

\* A dispatch takes its OB from the innermost loop, which is the outermost one
\* when nothing executes.
LEMMA DispatchLoop ==
  ASSUME TypeOK, Levels, NEW t \in Task, Dispatch(t)
  PROVE  /\ due # <<>> /\ due' # <<>> /\ Len(due') = Len(due)
         /\ Len(due) = Len(stack) + 1 /\ t \in due[Len(due)]
         /\ stack = <<>> => /\ Len(due) = 1 /\ t \in due[1]
                            /\ due'[1] = due[1] \ {t}
         /\ stack # <<>> => due'[1] = due[1]
         /\ holder # "none" /\ ~cancel /\ UNCHANGED <<modeVars, phase, holder>>
<1>1. /\ Len(due) = Len(stack) + 1 /\ t \in Queue /\ ~cancel
      /\ due' = [due EXCEPT ![Len(due)] = Queue \ {t}]
      /\ UNCHANGED <<modeVars, phase, holder>>
  BY DEF Dispatch, Serving
<1>2. /\ Len(stack) \in Nat /\ Len(due) \in Nat
      /\ due = <<>> <=> Len(due) = 0
      /\ stack = <<>> <=> Len(stack) = 0
  BY StackFacts, DueFacts
<1>3. due # <<>> /\ 1 \in 1..Len(due) /\ holder # "none"
  BY <1>1, <1>2 DEF Levels
<1>4. Queue \ {t} \in SUBSET Task
  BY <1>3, DueFacts
<1>5. /\ Len(due') = Len(due)
      /\ due'[1] = IF 1 = Len(due) THEN Queue \ {t} ELSE due[1]
  BY <1>1, <1>3, <1>4, DueFacts
<1>6. due' # <<>>
  BY <1>2, <1>3, <1>5
<1>7. stack = <<>> => Len(due) = 1 /\ t \in due[1] /\ due'[1] = due[1] \ {t}
  BY <1>1, <1>2, <1>5 DEF Queue
<1>8. stack # <<>> => due'[1] = due[1]
  BY <1>1, <1>2, <1>5
<1>9. t \in due[Len(due)]
  BY <1>1 DEF Queue
<1> QED
  BY <1>1, <1>3, <1>5, <1>6, <1>7, <1>8, <1>9

-----------------------------------------------------------------------------
(* The theorems.                                                            *)

\* Type correctness of the runtime, the record of every frame included.
THEOREM TypeCorrect == Spec => []TypeOK
<1>1. IInv => TypeOK
  BY IInvProperties
<1> QED
  BY <1>1, SpecIInv, PTL

\* dispatch(), stop(), step() and fault(): outputs are zero whenever the mutex
\* is free outside RUN, for every task table and program.
THEOREM OutputsAreSafe == Spec => []OutputsSafe
<1>1. IInv => OutputsSafe
  BY IInvProperties
<1> QED
  BY <1>1, SpecIInv, PTL

\* checkpoint() and serviceDue(): an OB runs only on top of less urgent ones,
\* so no OB re-enters itself and nesting is bounded by the priorities in use.
THEOREM StackIsOrdered == Spec => []StackOrdered
<1>1. IInv => StackOrdered
  BY IInvProperties
<1> QED
  BY <1>1, SpecIInv, PTL

\* checkpoint(): a startup OB always runs alone.
THEOREM StartupIsAlone == Spec => []StartupAlone
<1>1. IInv => StartupAlone
  BY IInvProperties
<1> QED
  BY <1>1, SpecIInv, PTL

\* dispatch() saves and restores System.CycleTime around every nested OB.
THEOREM CycleTimeIsOwn == Spec => []CycleTimeOwn
<1>1. IInv => CycleTimeOwn
  BY IInvProperties
<1> QED
  BY <1>1, SpecIInv, PTL

\* fault(), load() and reset() keep mode, error and `cancel' together.
THEOREM FaultIsLatched == Spec => []FaultLatched
<1>1. IInv => FaultLatched
  BY IInvProperties
<1> QED
  BY <1>1, SpecIInv, PTL

\* dispatch() advances a release past the current time, by whole periods.
THEOREM NoReleaseBacklog == Spec => []NoBacklog
<1>1. IInv => NoBacklog
  BY IInvProperties
<1> QED
  BY <1>1, SpecIInv, PTL

\* While STOP or QUIT waits for the mutex no OB is entered, because main()
\* raised `cancel' before it waited and no loop dispatches under `cancel'.
THEOREM NothingBeginsDuringStop == Spec => NoDispatchDuringStop
<1>1. IInv /\ [Next]_vars =>
        [(line \in {"STOP", "QUIT"}) => Len(stack') <= Len(stack)]_vars
  <2> SUFFICES ASSUME IInv, [Next]_vars, line \in {"STOP", "QUIT"}
               PROVE  Len(stack') <= Len(stack)
    OBVIOUS
  <2>1. TypeOK /\ cancel /\ Len(stack) \in Nat
    BY StackFacts DEF IInv, Modes
  <2>2. CASE UNCHANGED stack
    BY <2>1, <2>2
  <2>3. CASE FrameStep
    BY <2>1, <2>3, FrameStepFrame, FrameStepStack
  <2>4. CASE Leave
    <3>1. stack # <<>> /\ stack' = Under
      BY <2>4 DEF Leave, Executing
    <3> QED
      BY <2>1, <3>1, StackFacts
  <2>5. ASSUME NEW t \in Task, Dispatch(t)  PROVE FALSE
    BY <2>1, <2>5 DEF Dispatch
  <2> QED
    BY <2>2, <2>3, <2>4, <2>5, NextCases, CommandUnchanged, OutsideUnchanged
       DEF CheckServe, StartupEnd, TickEnd, StepEnd, TickStartup, TickService,
           StepBegin, callVars
<1> QED
  BY <1>1, SpecIInv, PTL DEF Spec, NoDispatchDuringStop

\* A fault survives STOP, RUN, STEP and QUIT: start() and step() refuse it and
\* stop() keeps it.
THEOREM FaultOnlyExits == Spec => FaultExit
<1>1. IInv /\ [Next]_vars =>
        [state = "FAULT" /\ state' # "FAULT" => line \in {"LOAD", "RESET"}]_vars
  <2> SUFFICES ASSUME IInv, [Next]_vars, state = "FAULT", state' # "FAULT"
               PROVE  line \in {"LOAD", "RESET"}
    OBVIOUS
  <2>1. \A cause : ~Fault(cause)
    BY DEF Fault
  <2>2. ~NoFault
    BY DEF NoFault, modeVars
  <2>3. ~FrameStep
    BY <2>1, <2>2, FrameStepFrame DEF NoFault
  <2>4. ~Leave
    BY <2>1, <2>2 DEF Leave
  <2>5. ~CheckServe /\ ~(\E t \in Task : Dispatch(t)) /\ ~StartupEnd /\ ~TickEnd
        /\ ~StepEnd /\ ~TickService /\ ~TickStartup /\ ~StepBegin
    BY <2>2 DEF CheckServe, Dispatch, StartupEnd, TickEnd, StepEnd, TickService,
                TickStartup, StepBegin, NoFault
  <2>6. ~OutsideStep /\ ~UNCHANGED vars
    BY OutsideUnchanged
  <2>7. CommandStep
    BY <2>3, <2>4, <2>5, <2>6, NextCases
  <2>8. ~Start /\ ~Stop /\ ~SetOutput /\ ~Status /\ ~Quit
    BY DEF Start, Stop, SetOutput, Status, Quit, StopEffect, Refusal, modeVars
  <2> QED
    BY <2>7, <2>8 DEF CommandStep, Load, Reset, Handle
<1> QED
  BY <1>1, SpecIInv, PTL DEF Spec, FaultExit

-----------------------------------------------------------------------------
(* Runtime implements ObExecution, for every task table, program shape and  *)
(* clock: the initial states map to initial states, and every step of the   *)
(* runtime maps to a step of the abstract specification or to a stutter.    *)

\* The refinement mapping: what stands for the mode, the nesting and the outputs of the promise.
Tasks(s) == [k \in 1..Len(s) |-> s[k].task]
Nest == Tasks(stack)
Out == IF phase = "step" /\ stack = <<>> THEN 0 ELSE outputs
Mapped == <<state, Nest, Out>>

\* The tasks of a stack of frames are a sequence.
LEMMA TasksSeq ==
  ASSUME NEW s \in Seq(Frame)
  PROVE  /\ Tasks(s) \in Seq(Task)
         /\ Len(Tasks(s)) = Len(s)
         /\ Len(s) \in Nat
         /\ \A k \in 1..Len(s) : Tasks(s)[k] = s[k].task
<1>1. Len(s) \in Nat
  BY LenProperties
<1>2. \A k \in 1..Len(s) : s[k].task \in Task
  <2>1. \A k \in 1..Len(s) : s[k] \in Frame
    BY ElementOfSeq
  <2> QED
    BY <2>1 DEF Frame
<1>3. Tasks(s) \in [1..Len(s) -> Task]
  BY <1>2 DEF Tasks
<1>4. Tasks(s) \in Seq(Task)
  BY <1>1, <1>3, SeqDef
<1>5. DOMAIN Tasks(s) = 1..Len(Tasks(s)) /\ Len(Tasks(s)) \in Nat
  BY <1>4, LenProperties
<1>6. DOMAIN Tasks(s) = 1..Len(s)
  BY DEF Tasks
<1>7. Len(Tasks(s)) = Len(s)
  BY <1>1, <1>5, <1>6
<1> QED
  BY <1>1, <1>4, <1>7 DEF Tasks

\* Stacks of the same height whose frames agree on the task map alike.
LEMMA TasksEqual ==
  ASSUME NEW s \in Seq(Frame), NEW r \in Seq(Frame), Len(s) = Len(r),
         \A k \in 1..Len(s) : s[k].task = r[k].task
  PROVE  Tasks(s) = Tasks(r)
  BY DEF Tasks

\* A frame on top of the stack is an OB inside the others.
LEMMA TasksPush ==
  ASSUME NEW s \in Seq(Frame), NEW f \in Frame
  PROVE  Tasks(Append(s, f)) = Append(Tasks(s), f.task)
<1>1. f.task \in Task
  BY DEF Frame
<1> DEFINE r == Append(s, f)
           q == Append(Tasks(s), f.task)
<1>2. /\ r \in Seq(Frame) /\ Len(r) = Len(s) + 1 /\ r[Len(s) + 1] = f
      /\ \A k \in 1..Len(s) : r[k] = s[k]
  BY PushFrame
<1>3. /\ Tasks(s) \in Seq(Task) /\ Len(Tasks(s)) = Len(s) /\ Len(s) \in Nat
      /\ \A k \in 1..Len(s) : Tasks(s)[k] = s[k].task
  BY TasksSeq
<1>4. /\ q \in Seq(Task) /\ Len(q) = Len(s) + 1 /\ q[Len(s) + 1] = f.task
      /\ \A k \in 1..Len(s) : q[k] = s[k].task
  <2>1. /\ q \in Seq(Task) /\ Len(q) = Len(Tasks(s)) + 1
        /\ q[Len(Tasks(s)) + 1] = f.task
        /\ \A k \in 1..Len(Tasks(s)) : q[k] = Tasks(s)[k]
    BY <1>1, <1>3, PushFrame
  <2> HIDE DEF q
  <2> QED
    BY <1>3, <2>1
<1> HIDE DEF r, q
<1>5. /\ Tasks(r) \in Seq(Task) /\ Len(Tasks(r)) = Len(r)
      /\ \A k \in 1..Len(r) : Tasks(r)[k] = r[k].task
  BY <1>2, TasksSeq
<1>6. ASSUME NEW k \in 1..Len(q)  PROVE Tasks(r)[k] = q[k]
  <2>1. CASE k = Len(s) + 1
    BY <1>2, <1>3, <1>4, <1>5, <2>1
  <2>2. CASE k # Len(s) + 1
    <3>1. k \in 1..Len(s) /\ k \in 1..Len(r)
      BY <1>2, <1>3, <1>4, <2>2
    <3> QED
      BY <1>2, <1>4, <1>5, <3>1
  <2> QED
    BY <2>1, <2>2
<1>7. Len(Tasks(r)) = Len(q)
  BY <1>2, <1>4, <1>5
<1>8. Tasks(r) = q
  BY <1>4, <1>5, <1>6, <1>7, SeqEqual
<1> QED
  BY <1>8 DEF r, q

\* What is under the top frame is what is outside the innermost OB.
LEMMA TasksPop ==
  ASSUME NEW s \in Seq(Frame), s # <<>>
  PROVE  Tasks(SubSeq(s, 1, Len(s) - 1)) = SubSeq(Tasks(s), 1, Len(Tasks(s)) - 1)
<1> DEFINE r == SubSeq(s, 1, Len(s) - 1)
           q == SubSeq(Tasks(s), 1, Len(Tasks(s)) - 1)
<1>1. /\ Len(s) \in Nat \ {0}
      /\ r \in Seq(Frame) /\ Len(r) = Len(s) - 1
      /\ \A k \in 1..Len(s) - 1 : r[k] = s[k]
  BY PopFrame
<1>2. /\ Tasks(s) \in Seq(Task) /\ Len(Tasks(s)) = Len(s)
      /\ \A k \in 1..Len(s) : Tasks(s)[k] = s[k].task
  BY TasksSeq
<1>3. Tasks(s) # <<>>
  BY <1>1, <1>2, EmptySeq
<1>4. /\ q \in Seq(Task) /\ Len(q) = Len(Tasks(s)) - 1
      /\ \A k \in 1..Len(Tasks(s)) - 1 : q[k] = Tasks(s)[k]
  BY <1>2, <1>3, PopFrame
<1> HIDE DEF r, q
<1>5. /\ Tasks(r) \in Seq(Task) /\ Len(Tasks(r)) = Len(r)
      /\ \A k \in 1..Len(r) : Tasks(r)[k] = r[k].task
  BY <1>1, TasksSeq
<1>6. Len(Tasks(r)) = Len(q)
  BY <1>1, <1>2, <1>4, <1>5
<1>7. ASSUME NEW k \in 1..Len(q)  PROVE Tasks(r)[k] = q[k]
  <2>1. k \in 1..Len(r) /\ k \in 1..Len(s) - 1 /\ k \in 1..Len(s)
    BY <1>1, <1>2, <1>4
  <2> QED
    BY <1>1, <1>2, <1>4, <1>5, <2>1
<1>8. Tasks(r) = q
  BY <1>4, <1>5, <1>6, <1>7, SeqEqual
<1> QED
  BY <1>8 DEF r, q

-----------------------------------------------------------------------------
(* What the mapping needs beyond IInv.                                      *)

\* step() has OB1 alone to dispatch, and outputs are zero until it does.
StepAlone ==
  phase = "step" =>
    /\ due # <<>> /\ due[1] \subseteq {Main}
    /\ due[1] # {} => stack = <<>> /\ outputs = 0

\* Only in RUN does a checkpoint begin to serve other OBs.
NestedInRun == Len(due) > 1 => state \in {"RUN", "FAULT"}

RInv == IInv /\ StepAlone /\ NestedInRun

\* The shape of the stack and the loops while somebody holds the mutex.
LEMMA HeldFacts ==
  ASSUME TypeOK, Levels
  PROVE  /\ Len(stack) \in Nat /\ Len(due) \in Nat
         /\ stack = <<>> <=> Len(stack) = 0
         /\ due = <<>> <=> Len(due) = 0
         /\ stack # <<>> => holder # "none" /\ Len(due) >= 1
         /\ due # <<>> => holder # "none"
  BY StackFacts, DueFacts DEF Levels

\* Nobody steals OB1 from step(), and it takes OB1 once.
LEMMA StepAloneStep ==
  ASSUME IInv, StepAlone, [Next]_vars
  PROVE  StepAlone'
<1>1. TypeOK /\ Levels /\ Outputs
  BY DEF IInv
<1>2. CASE FrameStep \/ CheckServe \/ Leave
  BY <1>1, <1>2, OuterLoopKept DEF StepAlone
<1>3. CASE \E t \in Task : Dispatch(t)
  <2> PICK t \in Task : Dispatch(t)
    BY <1>3
  <2>1. /\ due' # <<>> /\ UNCHANGED phase
        /\ stack = <<>> => t \in due[1] /\ due'[1] = due[1] \ {t}
        /\ stack # <<>> => due'[1] = due[1]
    BY <1>1, DispatchLoop
  <2> QED
    BY <2>1 DEF StepAlone
<1>4. CASE StartupEnd \/ TickEnd \/ StepEnd \/ TickStartup \/ TickService
  BY <1>4 DEF StartupEnd, TickEnd, StepEnd, TickStartup, TickService, Release,
              StepAlone
<1>5. CASE StepBegin
  <2>1. CASE state = "STOP"
    <3>1. /\ due' = <<{Main}>> /\ holder = "none" /\ UNCHANGED <<stack, outputs>>
      BY <1>5, <2>1 DEF StepBegin, memoryVars
    <3>2. stack = <<>> /\ outputs = 0
      BY <1>1, <2>1, <3>1 DEF Levels, Outputs
    <3>3. due' # <<>> /\ due'[1] = {Main}
      BY <3>1
    <3> QED
      BY <3>1, <3>2, <3>3 DEF StepAlone
  <2>2. CASE state # "STOP"
    BY <1>1, <1>5, <2>2 DEF StepBegin, Levels, StepAlone
  <2> QED
    BY <2>1, <2>2
<1>6. CASE CommandStep
  BY <1>1, <1>6, CommandUnchanged DEF callVars, Levels, StepAlone
<1>7. CASE OutsideStep \/ UNCHANGED vars
  BY <1>7, OutsideUnchanged DEF callVars, memoryVars, StepAlone
<1> QED
  BY <1>2, <1>3, <1>4, <1>5, <1>6, <1>7, NextCases

\* While a checkpoint serves other OBs the mode stays RUN or becomes FAULT.
LEMMA NestedInRunStep ==
  ASSUME IInv, NestedInRun, [Next]_vars
  PROVE  NestedInRun'
<1>1. TypeOK /\ Levels
  BY DEF IInv
<1>2. /\ Len(stack) \in Nat /\ Len(due) \in Nat
      /\ stack # <<>> => holder # "none"
      /\ due = <<>> <=> Len(due) = 0
  BY <1>1, HeldFacts
<1>3. ASSUME Len(due') <= Len(due), Len(due') \in Nat, state' \in {state, "FAULT"}
      PROVE  NestedInRun'
  BY <1>2, <1>3 DEF NestedInRun
<1>4. CASE FrameStep
  <2>1. state' \in {state, "FAULT"} /\ stack # <<>>
    BY <1>4, FrameStepFrame DEF modeVars, Fault
  <2>2. CASE ServeEnd
    <3>1. Len(due) = Len(stack) + 1 /\ due' = SubSeq(due, 1, Len(due) - 1)
      BY <2>2 DEF ServeEnd, Serving
    <3>2. due # <<>> /\ Len(due) # 0
      BY <1>2, <3>1
    <3>3. Len(due') = Len(due) - 1
      BY <1>1, <3>1, <3>2, DueFacts
    <3>4. Len(due') <= Len(due) /\ Len(due') \in Nat
      BY <1>2, <3>2, <3>3
    <3> QED
      BY <1>3, <2>1, <3>4
  <2>3. CASE UNCHANGED due
    BY <1>2, <1>3, <2>1, <2>3
  <2> QED
    BY <1>4, <2>2, <2>3 DEF FrameStep, CheckCancelled, CheckWatchdog, CheckPass,
                            RunNetwork, LoopAgain, RaiseError
<1>5. CASE CheckServe
  BY <1>5 DEF CheckServe, modeVars, NestedInRun
<1>6. CASE Leave
  <2>1. UNCHANGED due /\ state' \in {state, "FAULT"}
    BY <1>6 DEF Leave, NoFault, Fault, modeVars
  <2> QED
    BY <1>2, <1>3, <2>1
<1>7. ASSUME NEW t \in Task, Dispatch(t)  PROVE NestedInRun'
  <2>1. /\ Len(due) = Len(stack) + 1 /\ state' = state
        /\ due' = [due EXCEPT ![Len(due)] = Queue \ {t}]
    BY <1>7 DEF Dispatch, Serving, modeVars
  <2>2. due # <<>>
    BY <1>2, <2>1
  <2>3. Len(due') = Len(due)
    <3>1. Queue \ {t} \in SUBSET Task
      BY <1>1, <2>2, DueFacts
    <3> QED
      BY <1>1, <2>1, <2>2, <3>1, DueFacts
  <2> QED
    BY <1>2, <1>3, <2>1, <2>3
<1>8. CASE StartupEnd \/ TickEnd \/ StepEnd \/ TickStartup \/ TickService
  <2>1. due' = <<>> \/ \E q : due' = <<q>>
    BY <1>8 DEF StartupEnd, TickEnd, StepEnd, TickStartup, TickService, Release
  <2>2. ~(Len(due') > 1)
    BY <2>1
  <2> QED
    BY <2>2 DEF NestedInRun
<1>9. CASE StepBegin
  <2>1. due' = <<{Main}>> \/ (due' = due /\ holder = "none")
    BY <1>9 DEF StepBegin
  <2>2. holder = "none" => due = <<>>
    BY <1>1 DEF Levels
  <2>3. due' = <<>> \/ \E q : due' = <<q>>
    BY <2>1, <2>2
  <2>4. ~(Len(due') > 1)
    BY <2>3
  <2> QED
    BY <2>4 DEF NestedInRun
<1>10. CASE CommandStep
  BY <1>1, <1>2, <1>10, CommandUnchanged DEF callVars, Levels, NestedInRun
<1>11. CASE OutsideStep \/ UNCHANGED vars
  BY <1>11, OutsideUnchanged DEF callVars, NestedInRun
<1> QED
  BY <1>4, <1>5, <1>6, <1>7, <1>8, <1>9, <1>10, <1>11, NextCases

\* The strengthened invariant holds in every reachable state.
LEMMA SpecRInv == Spec => []RInv
<1>1. Init => StepAlone /\ NestedInRun
  <2> SUFFICES ASSUME Init  PROVE StepAlone /\ NestedInRun
    OBVIOUS
  <2>1. phase = "idle" /\ due = <<>> /\ Len(due) = 0
    BY DEF Init
  <2> QED
    BY <2>1 DEF StepAlone, NestedInRun
<1>2. RInv /\ [Next]_vars => RInv'
  BY NextIInv, StepAloneStep, NestedInRunStep DEF RInv
<1> QED
  BY <1>1, <1>2, InitIInv, PTL DEF Spec, RInv

-----------------------------------------------------------------------------
(* Every step of the runtime is one of the promise, or a stutter.           *)

\* A step that changes nothing of what is promised.
LEMMA Stutters ==
  ASSUME state' = state, Nest' = Nest, Out' = Out
  PROVE  UNCHANGED Promise!vars
  BY DEF Promise!vars, Nest, Tasks, Out

\* The nesting is empty when the stack is, and it changes with the stack only.
LEMMA NestFacts ==
  ASSUME TypeOK
  PROVE  /\ Nest \in Seq(Task) /\ Len(Nest) = Len(stack)
         /\ Nest = <<>> <=> stack = <<>>
         /\ UNCHANGED stack => Nest' = Nest
<1>1. Nest \in Seq(Task) /\ Len(Nest) = Len(stack)
  BY StackFacts, TasksSeq DEF Nest
<1>2. (Nest = <<>> <=> Len(Nest) = 0) /\ (stack = <<>> <=> Len(stack) = 0)
  BY <1>1, EmptyLen, StackFacts
<1>3. UNCHANGED stack => Nest' = Nest
  BY DEF Nest, Tasks
<1> QED
  BY <1>1, <1>2, <1>3

\* The code of the innermost OB fails, writes outputs or does neither.
LEMMA FrameStepKeeps ==
  ASSUME IInv, IInv', FrameStep
  PROVE  \/ UNCHANGED Promise!vars \/ Promise!Fail \/ Promise!Write
<1>1. TypeOK /\ TypeOK'
  BY DEF IInv
<1>2. /\ stack # <<>> /\ stack' # <<>> /\ Len(stack') = Len(stack)
      /\ \A k \in 1..Len(stack) : stack'[k].task = stack[k].task
      /\ stack \in Seq(Frame) /\ stack' \in Seq(Frame)
  BY <1>1, FrameStepFrame, FrameStepStack, StackFacts
<1>3. Nest' = Nest /\ Nest # <<>>
  <2>1. Tasks(stack) = Tasks(stack')
    BY <1>2, TasksEqual
  <2>2. Tasks(stack)' = Tasks(stack')
    BY DEF Tasks
  <2> QED
    BY <1>1, <1>2, <2>1, <2>2, NestFacts DEF Nest
<1>4. Out = outputs /\ Out' = outputs'
  BY <1>2 DEF Out
<1>5. ASSUME state' = "FAULT", outputs' = 0  PROVE Promise!Fail
  BY <1>3, <1>4, <1>5 DEF Promise!Fail, Nest, Tasks, Out
<1>6. ASSUME state' = state, outputs' \in {0, 1}  PROVE Promise!Write
  BY <1>3, <1>4, <1>6 DEF Promise!Write, Nest, Tasks, Out
<1>7. outputs' \in {0, 1}
  BY <1>1 DEF TypeOK
<1>8. \/ state' = state
      \/ state' = "FAULT" /\ outputs' = 0
  BY FrameStepFrame DEF modeVars, Fault
<1> QED
  BY <1>5, <1>6, <1>7, <1>8

\* dispatch() begins an OB where the promise allows it.
LEMMA DispatchKeeps ==
  ASSUME RInv, RInv', NEW t \in Task, Dispatch(t)
  PROVE  UNCHANGED Promise!vars \/ Promise!Begin(t)
<1>1. /\ TypeOK /\ Levels /\ Modes /\ Outputs /\ Order /\ Releases
      /\ StepAlone /\ NestedInRun
  BY DEF RInv, IInv
<1>2. /\ Len(due) = Len(stack) + 1 /\ ~cancel /\ t \in Queue
      /\ UNCHANGED <<state, phase, outputs>>
      /\ UNCHANGED stack \/ Enter(t)
  BY DEF Dispatch, Serving, Enter, Released, Skips, NextRelease, Elapsed,
         Activation, modeVars, memoryVars
<1>3. /\ Len(stack) \in Nat /\ Len(due) \in Nat /\ holder # "none"
      /\ stack = <<>> <=> Len(stack) = 0
  BY <1>1, <1>2, HeldFacts
<1>4. CASE UNCHANGED stack
  BY <1>1, <1>2, <1>4, NestFacts, Stutters DEF Out
<1>5. CASE Enter(t)
  <2>1. PICK f \in Frame : stack' = Append(stack, f) /\ f.task = t
    BY <1>1, <1>5, EnterFrame
  <2>2. Nest' = Append(Nest, t) /\ stack' # <<>>
    <3>1. Tasks(Append(stack, f)) = Append(Tasks(stack), t)
      BY <1>1, <2>1, StackFacts, TasksPush
    <3>2. Tasks(stack)' = Tasks(Append(stack, f))
      BY <2>1 DEF Tasks
    <3>3. Len(stack') # 0
      BY <1>1, <1>3, <2>1, StackFacts
    <3> QED
      BY <3>1, <3>2, <3>3 DEF Nest
  <2>3. state # "FAULT"
    BY <1>1, <1>2 DEF Modes, FaultLatched
  <2>4. CASE stack = <<>>
    <3>1. Len(due) = 1 /\ Queue = due[1]
      BY <1>2, <1>3, <2>4 DEF Queue
    <3>2. state = "RUN" \/ (phase = "step" /\ state = "STOP")
      BY <1>1, <1>3, <2>3 DEF Modes
    <3>3. phase = "step" => t = Main /\ outputs = 0
      BY <1>1, <1>2, <3>1 DEF StepAlone
    <3>4. Nest = <<>> /\ Out' = Out
      BY <1>1, <1>2, <2>2, <2>4, <3>3, NestFacts DEF Out
    <3> QED
      BY <1>2, <2>2, <3>2, <3>3, <3>4 DEF Promise!Begin, Nest, Tasks, Out
  <2>5. CASE stack # <<>>
    <3>1. /\ Len(stack) \in 1..Len(stack) /\ Len(stack) < Len(due)
          /\ Len(due) > 1 /\ Queue = due[Len(stack) + 1]
      BY <1>2, <1>3, <2>5 DEF Queue
    <3>2. state = "RUN"
      BY <1>1, <2>3, <3>1 DEF NestedInRun
    <3>3. /\ Kind[stack[Len(stack)].task] # "startup" /\ Kind[t] = "cyclic"
          /\ Priority[stack[Len(stack)].task] < Priority[t]
      BY <1>1, <1>2, <3>1 DEF Order
    <3>4. Nest # <<>> /\ Nest[Len(Nest)] = stack[Len(stack)].task
      BY <1>1, <2>5, <3>1, NestFacts DEF Nest, Tasks
    <3>5. Out' = Out
      BY <1>2, <2>2, <2>5 DEF Out
    <3>6. /\ Nest # <<>> /\ state = "RUN" /\ Kind[t] = "cyclic"
          /\ Kind[Nest[Len(Nest)]] # "startup"
          /\ Priority[Nest[Len(Nest)]] < Priority[t]
          /\ Nest' = Append(Nest, t) /\ state' = state /\ Out' = Out
      BY <1>2, <2>2, <3>2, <3>3, <3>4, <3>5
    <3> QED
      BY <3>6
         DEF Promise!Begin, Promise!Innermost, Nest, Tasks, Out
  <2> QED
    BY <2>4, <2>5
<1> QED
  BY <1>2, <1>4, <1>5

\* The end of an OB is the end of the innermost one.
LEMMA LeaveKeeps ==
  ASSUME IInv, Leave
  PROVE  Promise!End
<1>1. TypeOK /\ Levels /\ Modes
  BY DEF IInv
<1>2. /\ stack # <<>> /\ stack' = Under /\ phase' = phase
      /\ \/ state' = "FAULT" /\ outputs' = 0
         \/ state' = state /\ outputs' = IF cancel THEN 0 ELSE outputs
  BY DEF Leave, Executing, Fault, NoFault, modeVars
<1>3. holder # "none"
  BY <1>1, <1>2 DEF Levels
<1>4. Nest # <<>> /\ Nest' = SubSeq(Nest, 1, Len(Nest) - 1)
  <2>1. Tasks(SubSeq(stack, 1, Len(stack) - 1))
        = SubSeq(Tasks(stack), 1, Len(Tasks(stack)) - 1)
    BY <1>1, <1>2, StackFacts, TasksPop
  <2>2. Tasks(stack)' = Tasks(SubSeq(stack, 1, Len(stack) - 1))
    BY <1>2 DEF Tasks, Under
  <2> QED
    BY <1>1, <1>2, <2>1, <2>2, NestFacts DEF Nest
<1>5. Nest' = <<>> <=> stack' = <<>>
  <2>1. stack' \in Seq(Frame)
    BY <1>1, <1>2, StackFacts
  <2>2. Len(Tasks(stack')) = Len(stack') /\ Tasks(stack') \in Seq(Task)
    BY <2>1, TasksSeq
  <2>3. Nest' = Tasks(stack')
    BY DEF Nest, Tasks
  <2> QED
    BY <2>1, <2>2, <2>3, EmptyLen
<1>6. Out = outputs /\ Out' = IF phase = "step" /\ stack' = <<>> THEN 0 ELSE outputs'
  BY <1>2 DEF Out
<1>7. state' \in {state, "FAULT"}
  BY <1>2
<1>8. Out' \in IF state' = "FAULT" \/ (Nest' = <<>> /\ state # "RUN")
               THEN {0} ELSE {Out, 0}
  <2>1. state = "FAULT" => cancel
    BY <1>1 DEF Modes, FaultLatched
  <2>2. state # "RUN" => phase = "step" \/ state = "FAULT"
    BY <1>1, <1>3 DEF Modes
  <2>3. CASE state' = "FAULT"
    BY <1>2, <1>6, <2>1, <2>3
  <2>4. CASE state' # "FAULT" /\ Nest' = <<>> /\ state # "RUN"
    BY <1>2, <1>5, <1>6, <2>2, <2>4
  <2>5. Out' \in {Out, 0}
    BY <1>2, <1>6
  <2> QED
    BY <2>3, <2>4, <2>5
<1> QED
  BY <1>4, <1>7, <1>8 DEF Promise!End, Promise!Outer, Nest, Tasks, Out

\* Ticks and single steps begin and end without being seen: step() enters with
\* zero outputs and leaves after safeOutputs().
LEMMA HolderKeeps ==
  ASSUME IInv,
         StartupEnd \/ TickEnd \/ StepEnd \/ TickStartup \/ TickService \/ StepBegin
  PROVE  UNCHANGED Promise!vars
<1>1. TypeOK /\ Levels /\ Outputs
  BY DEF IInv
<1>2. UNCHANGED <<state, stack>>
  BY DEF StartupEnd, TickEnd, StepEnd, TickStartup, TickService, StepBegin, modeVars
<1>3. Out' = Out
  <2>1. CASE StartupEnd \/ TickEnd
    BY <2>1 DEF StartupEnd, TickEnd, Release, memoryVars, Out
  <2>2. CASE StepEnd
    BY <2>2 DEF StepEnd, Release, Out
  <2>3. CASE TickStartup \/ TickService
    BY <1>1, <2>3 DEF TickStartup, TickService, memoryVars, Levels, Out
  <2>4. CASE StepBegin
    BY <1>1, <2>4 DEF StepBegin, memoryVars, Levels, Outputs, Out
  <2> QED
    BY <2>1, <2>2, <2>3, <2>4
<1> QED
  BY <1>1, <1>2, <1>3, NestFacts, Stutters

\* The command thread works between OBs, and on the mode and outputs as promised.
LEMMA CommandKeeps ==
  ASSUME IInv, CommandStep
  PROVE  UNCHANGED Promise!vars \/ Promise!Command
<1>1. TypeOK /\ Levels /\ Outputs /\ IInv
  BY DEF IInv
<1>2. holder = "none" /\ phase = "idle" /\ stack = <<>> /\ UNCHANGED <<stack, phase>>
  BY <1>1, CommandUnchanged DEF Levels, callVars
<1>3. Nest = <<>> /\ Nest' = Nest /\ Out = outputs /\ Out' = outputs'
  BY <1>1, <1>2, NestFacts DEF Out
<1>4. ASSUME \/ state # "RUN" /\ state' = "STOP" /\ outputs' = 0
             \/ state = "STOP" /\ state' = "RUN" /\ outputs' = outputs
             \/ state = "RUN" /\ state' = "STOP" /\ outputs' = 0
             \/ state = "RUN" /\ outputs' \in {0, 1} /\ state' = state
      PROVE  Promise!Command
  BY <1>3, <1>4 DEF Promise!Command, Nest, Tasks, Out
<1>5. ASSUME state' = state, outputs' = outputs  PROVE UNCHANGED Promise!vars
  BY <1>3, <1>5, Stutters
<1>6. CASE Load \/ Reset
  BY <1>4, <1>5, <1>6 DEF Load, Reset, Stopped, NewMemory, Refusal, modeVars,
                          memoryVars
<1>7. CASE Start
  BY <1>4, <1>5, <1>7 DEF Start, Refusal, modeVars, memoryVars
<1>8. CASE Stop \/ Quit
  <2>1. /\ outputs' = 0
        /\ state' = IF state \in {"EMPTY", "FAULT"} THEN state ELSE "STOP"
    BY <1>8 DEF Stop, Quit, StopEffect
  <2>2. state # "RUN" => outputs = 0
    BY <1>1, <1>2 DEF Outputs
  <2>3. state \in {"EMPTY", "STOP", "RUN", "FAULT"}
    BY <1>1 DEF TypeOK
  <2> QED
    BY <1>4, <1>5, <2>1, <2>2, <2>3
<1>9. CASE SetOutput \/ Status
  BY <1>4, <1>5, <1>9 DEF SetOutput, Status, Refusal, modeVars, memoryVars
<1> QED
  BY <1>6, <1>7, <1>8, <1>9 DEF CommandStep

\* One step of either thread, or of the clock, is a step of the promise.
LEMMA StepKeeps == RInv /\ RInv' /\ [Next]_vars => [Promise!Next]_Promise!vars
<1> SUFFICES ASSUME RInv, RInv', [Next]_vars  PROVE [Promise!Next]_Promise!vars
  OBVIOUS
<1>1. IInv /\ IInv' /\ TypeOK
  BY DEF RInv, IInv
<1>2. CASE FrameStep
  BY <1>1, <1>2, FrameStepKeeps DEF Promise!Next
<1>3. CASE \E t \in Task : Dispatch(t)
  BY <1>3, DispatchKeeps DEF Promise!Next
<1>4. CASE Leave
  BY <1>1, <1>4, LeaveKeeps DEF Promise!Next
<1>5. CASE StartupEnd \/ TickEnd \/ StepEnd \/ TickStartup \/ TickService \/ StepBegin
  BY <1>1, <1>5, HolderKeeps
<1>6. CASE CommandStep
  BY <1>1, <1>6, CommandKeeps DEF Promise!Next
<1>7. CASE CheckServe \/ OutsideStep \/ UNCHANGED vars
  <2>1. UNCHANGED <<state, stack, phase, outputs>>
    BY <1>7, OutsideUnchanged DEF CheckServe, modeVars, memoryVars, callVars
  <2> QED
    BY <1>1, <2>1, NestFacts, Stutters DEF Out
<1> QED
  BY <1>2, <1>3, <1>4, <1>5, <1>6, <1>7, NextCases

\* The empty process is in the initial state of the promise.
LEMMA InitKeeps == Init => Promise!Init
<1> SUFFICES ASSUME Init  PROVE Promise!Init
  OBVIOUS
<1>1. state = "EMPTY" /\ stack = <<>> /\ outputs = 0 /\ TypeOK
  BY InitIInv DEF Init, IInv
<1>2. Nest = <<>> /\ Out = 0
  BY <1>1, NestFacts DEF Out
<1> QED
  BY <1>1, <1>2 DEF Promise!Init, Nest, Tasks, Out

-----------------------------------------------------------------------------
\* The runtime keeps the promise made to its user: tick(), dispatch(),
\* checkpoint(), fault() and the commands, with two threads, a mutex, a clock
\* and OBs nested at every checkpoint, implement ObExecution.
THEOREM ImplementsObExecution == Spec => KeepsPromise
<1>1. Init => Promise!Init
  BY InitKeeps
<1>2. RInv /\ RInv' /\ [Next]_vars => [Promise!Next]_Promise!vars
  BY StepKeeps
<1> QED
  BY <1>1, <1>2, SpecRInv, PTL DEF Spec, KeepsPromise, Promise!Spec

-----------------------------------------------------------------------------
(* How deep OBs nest.                                                       *)

\* The priorities of the OBs that a checkpoint may dispatch.
CyclicPriorities == {Priority[t] : t \in {u \in Task : Kind[u] = "cyclic"}}

\* OBs nest at most one deeper than there are priorities of cyclic OBs,
\* whatever the checkpoints, the periods and the number of OBs.
NestingBounded == Len(stack) <= 1 + Cardinality(CyclicPriorities)

\* Only the outermost frame can be one that a checkpoint did not dispatch.
NestedCyclic == \A k \in 2..Len(stack) : Kind[stack[k].task] = "cyclic"

\* What a checkpoint dispatches is cyclic.
LEMMA NestedCyclicStep ==
  ASSUME IInv, NestedCyclic, [Next]_vars
  PROVE  NestedCyclic'
<1>1. TypeOK /\ Levels /\ Order /\ Releases
  BY DEF IInv
<1>2. Len(stack) \in Nat /\ Len(due) \in Nat
  BY <1>1, StackFacts, DueFacts
<1>3. CASE FrameStep
  <2>1. stack # <<>>
    BY <1>3, FrameStepFrame
  <2> QED
    BY <1>1, <1>3, <2>1, FrameStepStack DEF NestedCyclic
<1>4. CASE Leave
  <2>1. stack # <<>> /\ stack' = Under
    BY <1>4 DEF Leave, Executing
  <2>2. /\ Len(stack') = Len(stack) - 1
        /\ \A k \in 1..Len(stack) - 1 : stack'[k] = stack[k]
    BY <1>1, <2>1, StackFacts
  <2> QED
    BY <1>2, <2>2 DEF NestedCyclic
<1>5. CASE \E t \in Task : Dispatch(t)
  <2> PICK t \in Task : Dispatch(t)
    BY <1>5
  <2>1. CASE UNCHANGED stack
    BY <2>1 DEF NestedCyclic
  <2>2. CASE Enter(t)
    <3>1. PICK f \in Frame : stack' = Append(stack, f) /\ f.task = t
      BY <1>1, <2>2, EnterFrame
    <3>2. /\ Len(stack') = Len(stack) + 1
          /\ \A k \in 1..Len(stack) : stack'[k] = stack[k]
          /\ stack'[Len(stack) + 1] = f
      BY <1>1, <3>1, StackFacts
    <3>3. Len(due) = Len(stack) + 1 /\ t \in due[Len(due)]
      BY <1>1, DispatchLoop
    <3>4. Len(stack) \in 1..Len(stack) => Kind[t] = "cyclic"
      BY <1>1, <1>2, <3>3 DEF Order
    <3>5. ASSUME NEW k \in 2..Len(stack')
          PROVE  Kind[stack'[k].task] = "cyclic"
      <4>1. CASE k \in 2..Len(stack)
        <5>1. k \in 1..Len(stack)
          BY <1>2, <4>1
        <5> QED
          BY <3>2, <4>1, <5>1 DEF NestedCyclic
      <4>2. CASE k = Len(stack) + 1
        <5>1. Len(stack) \in 1..Len(stack)
          BY <1>2, <4>2
        <5> QED
          BY <3>1, <3>2, <3>4, <4>2, <5>1
      <4> QED
        BY <1>2, <3>2, <4>1, <4>2
    <3> QED
      BY <3>5 DEF NestedCyclic
  <2> QED
    BY <2>1, <2>2 DEF Dispatch
<1> QED
  BY <1>3, <1>4, <1>5, NextCases, CommandUnchanged, OutsideUnchanged
     DEF NestedCyclic, CheckServe, StartupEnd, TickEnd, StepEnd, TickStartup,
         TickService, StepBegin, callVars

\* Frames above the first have distinct priorities, those of cyclic OBs.
LEMMA NestingFits ==
  ASSUME TypeOK, StackOrdered, NestedCyclic
  PROVE  NestingBounded
<1>1. /\ Len(stack) \in Nat
      /\ \A k \in 1..Len(stack) : stack[k].task \in Task
  <2>1. \A k \in 1..Len(stack) : stack[k] \in Frame
    BY ElementOfSeq DEF TypeOK
  <2> QED
    BY <2>1, StackFacts DEF Frame
<1>2. IsFiniteSet(CyclicPriorities) /\ Cardinality(CyclicPriorities) \in Nat
  <2>1. IsFiniteSet(0..99)
    <3>1. 0 \in Int /\ 99 \in Int
      OBVIOUS
    <3> QED
      BY <3>1, FS_Interval, Zenon
  <2>2. CyclicPriorities \in SUBSET (0..99)
    BY TableAssumption DEF CyclicPriorities
  <2> QED
    BY <2>1, <2>2, FS_Subset, FS_CardinalityType
<1> DEFINE level == [k \in 2..Len(stack) |-> Priority[stack[k].task]]
<1>3. level \in [2..Len(stack) -> CyclicPriorities]
  <2>1. ASSUME NEW k \in 2..Len(stack)
        PROVE  Priority[stack[k].task] \in CyclicPriorities
    <3>1. k \in 1..Len(stack)
      BY <1>1
    <3> QED
      BY <1>1, <3>1 DEF NestedCyclic, CyclicPriorities
  <2> QED
    BY <2>1
<1>4. \A j, k \in 2..Len(stack) : level[j] = level[k] => j = k
  <2> SUFFICES ASSUME NEW j \in 2..Len(stack), NEW k \in 2..Len(stack), j # k
               PROVE  Priority[stack[j].task] # Priority[stack[k].task]
    OBVIOUS
  <2>1. j \in 1..Len(stack) /\ k \in 1..Len(stack) /\ (j < k \/ k < j)
    BY <1>1
  <2>2. Priority[stack[j].task] \in Int /\ Priority[stack[k].task] \in Int
    BY <1>1, <2>1, PriorityType
  <2>3. CASE j < k
    BY <2>1, <2>2, <2>3 DEF StackOrdered
  <2>4. CASE k < j
    BY <2>1, <2>2, <2>4 DEF StackOrdered
  <2> QED
    BY <2>1, <2>3, <2>4
<1> HIDE DEF level
<1>5. level \in Injection(2..Len(stack), CyclicPriorities)
  BY <1>3, <1>4 DEF Injection, IsInjective
<1>6. Cardinality(2..Len(stack)) <= Cardinality(CyclicPriorities)
  BY <1>2, <1>5, FS_Injection
<1>7. Cardinality(2..Len(stack))
        = IF 2 > Len(stack) THEN 0 ELSE Len(stack) - 2 + 1
  BY <1>1, FS_Interval
<1> QED
  BY <1>1, <1>2, <1>6, <1>7 DEF NestingBounded

\* serviceDue() recurses through checkpoint() no deeper than there are cyclic
\* priorities in the table, so the native stack that a program needs is known
\* before it runs.
THEOREM NestingIsBounded == Spec => []NestingBounded
<1>1. Init => NestedCyclic
  <2> SUFFICES ASSUME Init  PROVE NestedCyclic
    OBVIOUS
  <2>1. Len(stack) = 0
    BY DEF Init
  <2>2. \A k : k \notin 2..Len(stack)
    BY <2>1
  <2> QED
    BY <2>2 DEF NestedCyclic
<1>2. IInv /\ NestedCyclic /\ [Next]_vars => NestedCyclic'
  BY NestedCyclicStep
<1>3. IInv /\ NestedCyclic => NestingBounded
  BY IInvProperties, NestingFits
<1> QED
  BY <1>1, <1>2, <1>3, SpecIInv, PTL DEF Spec

-----------------------------------------------------------------------------
(* Which body an OB executes.                                               *)

\* A task table without preemption: no cyclic OB is more urgent than an OB
\* that a checkpoint could interrupt.
NoPreemption ==
  \A t \in Task, u \in Task :
    Kind[t] # "startup" /\ Kind[u] = "cyclic" => Priority[u] <= Priority[t]

\* One dispatch loop, one frame, and __plc_dispatch names its OB.
OneAtATime ==
  /\ Len(due) <= 1
  /\ \A k \in 1..Len(stack) : /\ stack[k].task = dispatchTag
                              /\ stack[k].body \in {0, dispatchTag}

\* Without preemption no checkpoint finds anything to serve.
LEMMA NothingServed ==
  ASSUME NoPreemption, TypeOK  PROVE ~CheckServe
<1> SUFFICES ASSUME CheckServe  PROVE FALSE
  OBVIOUS
<1>1. stack # <<>> /\ Kind[Top.task] # "startup" /\ Due(Priority[Top.task], TRUE) # {}
  BY DEF CheckServe, CheckOnTime, Executing
<1>2. Top.task \in Task
  BY <1>1, StackFacts DEF Frame
<1>3. PICK u \in Task : Kind[u] = "cyclic" /\ Priority[u] > Priority[Top.task]
  BY <1>1 DEF Due
<1>4. Priority[u] <= Priority[Top.task]
  BY <1>1, <1>2, <1>3 DEF NoPreemption
<1>5. Priority[u] \in Int /\ Priority[Top.task] \in Int
  BY <1>2, PriorityType
<1> QED
  BY <1>3, <1>4, <1>5

\* Every step keeps OBs apart.
LEMMA OneAtATimeStep ==
  ASSUME NoPreemption, IInv, OneAtATime, [Next]_vars
  PROVE  OneAtATime'
<1>1. TypeOK /\ Levels /\ Releases
  BY DEF IInv
<1>2. /\ Len(stack) \in Nat /\ Len(due) \in Nat
      /\ stack = <<>> <=> Len(stack) = 0
      /\ stack # <<>> => holder # "none" /\ Len(due) >= 1
  BY <1>1, HeldFacts
<1>3. CASE FrameStep
  <2>1. stack # <<>> /\ dispatchTag' = dispatchTag
    BY <1>3, FrameStepFrame
  <2>2. /\ Len(stack') = Len(stack)
        /\ \A k \in 1..Len(stack) :
             /\ stack'[k].task = stack[k].task
             /\ stack'[k].body \in {stack[k].body, dispatchTag}
    BY <1>1, <1>3, <2>1, FrameStepStack
  <2>3. ~ServeEnd
    <3>1. Len(stack) # 0 /\ Len(due) <= 1
      BY <1>2, <2>1 DEF OneAtATime
    <3>2. Len(due) # Len(stack) + 1
      BY <1>2, <3>1
    <3> QED
      BY <3>2 DEF ServeEnd, Serving
  <2>4. due' = due
    BY <1>3, <2>3 DEF FrameStep, CheckCancelled, CheckWatchdog, CheckPass,
                      RunNetwork, LoopAgain, RaiseError
  <2> QED
    BY <2>1, <2>2, <2>4 DEF OneAtATime
<1>4. CASE Leave
  <2>1. stack # <<>> /\ stack' = Under /\ due' = due /\ dispatchTag' = dispatchTag
    BY <1>4 DEF Leave, Executing
  <2>2. /\ Len(stack') = Len(stack) - 1
        /\ \A k \in 1..Len(stack) - 1 : stack'[k] = stack[k]
    BY <1>1, <2>1, StackFacts
  <2> QED
    BY <1>2, <2>1, <2>2 DEF OneAtATime
<1>5. CASE \E t \in Task : Dispatch(t)
  <2> PICK t \in Task : Dispatch(t)
    BY <1>5
  <2>1. Len(due') = Len(due) /\ Len(due) = Len(stack) + 1
    BY <1>1, DispatchLoop
  <2>2. stack = <<>>
    BY <1>2, <2>1 DEF OneAtATime
  <2>3. CASE UNCHANGED <<stack, dispatchTag>>
    BY <2>1, <2>3 DEF OneAtATime
  <2>4. CASE Enter(t)
    <3>1. /\ stack' = <<Activation(t)>> /\ dispatchTag' = t
          /\ Activation(t).task = t /\ Activation(t).body = 0
      BY <2>2, <2>4 DEF Enter, Activation
    <3>2. Len(stack') = 1 /\ stack'[1] = Activation(t)
      BY <3>1
    <3>3. \A k \in 1..Len(stack') : k = 1
      BY <3>2
    <3> QED
      BY <2>1, <3>1, <3>2, <3>3 DEF OneAtATime
  <2> QED
    BY <2>3, <2>4 DEF Dispatch, memoryVars
<1>6. CASE StartupEnd \/ TickEnd \/ StepEnd \/ TickStartup \/ TickService
  <2>1. stack' = <<>> /\ (due' = <<>> \/ \E q : due' = <<q>>)
    BY <1>1, <1>6 DEF StartupEnd, TickEnd, StepEnd, TickStartup, TickService,
                      Release, Levels
  <2>2. Len(due') <= 1 /\ Len(stack') = 0
    <3>1. ASSUME NEW q, due' = <<q>>  PROVE Len(due') <= 1
      BY <3>1
    <3>2. due' = <<>> => Len(due') <= 1
      OBVIOUS
    <3>3. Len(stack') = 0
      BY <2>1
    <3> QED
      BY <2>1, <3>1, <3>2, <3>3
  <2>3. \A k : k \notin 1..Len(stack')
    BY <2>2
  <2> QED
    BY <2>2, <2>3 DEF OneAtATime
<1>7. CASE StepBegin
  <2>1. /\ stack' = <<>> /\ (due' = due \/ due' = <<{Main}>>)
    BY <1>1, <1>7 DEF StepBegin, Levels
  <2>2. Len(due') <= 1 /\ Len(stack') = 0
    <3>1. due' = due => Len(due') <= 1
      BY DEF OneAtATime
    <3>2. due' = <<{Main}>> => Len(due') <= 1
      OBVIOUS
    <3>3. Len(stack') = 0
      BY <2>1
    <3> QED
      BY <2>1, <3>1, <3>2, <3>3
  <2>3. \A k : k \notin 1..Len(stack')
    BY <2>2
  <2> QED
    BY <2>2, <2>3 DEF OneAtATime
<1>8. CASE CommandStep
  <2>1. stack' = <<>> /\ due' = due /\ Len(stack') = 0
    BY <1>1, <1>8, CommandUnchanged DEF callVars, Levels
  <2>2. \A k : k \notin 1..Len(stack')
    BY <2>1
  <2> QED
    BY <2>1, <2>2 DEF OneAtATime
<1>9. CASE OutsideStep \/ UNCHANGED vars
  BY <1>9, OutsideUnchanged DEF callVars, memoryVars, OneAtATime
<1> QED
  BY <1>1, <1>3, <1>4, <1>5, <1>6, <1>7, <1>8, <1>9, NextCases, NothingServed

\* run_ob<N> sets __plc_dispatch and generated_run() reads it after its first
\* checkpoint: preemption at that checkpoint is the only way to execute the
\* body of another OB.
THEOREM OwnBodyWithoutPreemption == NoPreemption => (Spec => []BodyOwn)
<1>1. Init => OneAtATime
  <2> SUFFICES ASSUME Init  PROVE OneAtATime
    OBVIOUS
  <2>1. Len(stack) = 0 /\ Len(due) = 0
    BY DEF Init
  <2>2. \A k : k \notin 1..Len(stack)
    BY <2>1
  <2> QED
    BY <2>1, <2>2 DEF OneAtATime
<1>2. OneAtATime => BodyOwn
  BY DEF OneAtATime, BodyOwn
<1> SUFFICES ASSUME NoPreemption  PROVE Spec => []BodyOwn
  OBVIOUS
<1>3. IInv /\ OneAtATime /\ [Next]_vars => OneAtATime'
  BY OneAtATimeStep
<1> QED
  BY <1>1, <1>2, <1>3, SpecIInv, PTL DEF Spec
=============================================================================
