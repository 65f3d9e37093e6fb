---------------------------- MODULE ObExecution ----------------------------
(***************************************************************************)
(* What the program runtime promises to its user: in which mode OBs        *)
(* execute, how they nest, and when outputs may be other than zero.        *)
(* There are no threads, no mutex, no clock and no generated code here.    *)
(* Module Runtime implements this specification.                           *)
(***************************************************************************)
EXTENDS Integers, Sequences

CONSTANTS Task, Main, Kind, Priority

VARIABLES
  mode,   \* the operating mode that STATUS reports
  nest,   \* the OBs that are executing, the interrupted ones first
  out     \* 0 when every output is zero

vars == <<mode, nest, out>>

Innermost == nest[Len(nest)]
Outer == SubSeq(nest, 1, Len(nest) - 1)

Init == mode = "EMPTY" /\ nest = <<>> /\ out = 0

\* An OB begins: any OB in RUN and OB1 alone in STOP (a single step) when none
\* executes, else a cyclic OB more urgent than the one it interrupts, which is
\* not a startup OB.
Begin(t) ==
  /\ \/ nest = <<>> /\ (mode = "RUN" \/ (mode = "STOP" /\ t = Main))
     \/ /\ nest # <<>> /\ mode = "RUN"
        /\ Kind[t] = "cyclic" /\ Kind[Innermost] # "startup"
        /\ Priority[Innermost] < Priority[t]
  /\ nest' = Append(nest, t)
  /\ UNCHANGED <<mode, out>>

\* The innermost OB ends, perhaps by being found too late; outputs survive the
\* end of the outermost OB in RUN only.
End ==
  /\ nest # <<>>
  /\ nest' = Outer
  /\ mode' \in {mode, "FAULT"}
  /\ out' \in IF mode' = "FAULT" \/ (nest' = <<>> /\ mode # "RUN")
              THEN {0} ELSE {out, 0}

\* The innermost OB writes outputs.
Write == nest # <<>> /\ out' \in {0, 1} /\ UNCHANGED <<mode, nest>>

\* An OB that executes fails.
Fail == nest # <<>> /\ mode' = "FAULT" /\ out' = 0 /\ UNCHANGED nest

\* The operator's commands take effect between OBs.
Command ==
  /\ nest = <<>> /\ UNCHANGED nest
  /\ \/ mode # "RUN" /\ mode' = "STOP" /\ out' = 0          \* LOAD, RESET
     \/ mode = "STOP" /\ mode' = "RUN" /\ UNCHANGED out     \* RUN
     \/ mode = "RUN" /\ mode' = "STOP" /\ out' = 0          \* STOP
     \/ mode = "RUN" /\ out' \in {0, 1} /\ UNCHANGED mode   \* SET

Next == (\E t \in Task : Begin(t)) \/ End \/ Write \/ Fail \/ Command

Spec == Init /\ [][Next]_vars
=============================================================================
