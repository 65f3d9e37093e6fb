--------------------------- MODULE RuntimeHistory ---------------------------
(***************************************************************************)
(* Runtime with history variables: when RUN was entered, what TaskState    *)
(* said then, and how often each OB has begun since.                       *)
(***************************************************************************)
EXTENDS Runtime

VARIABLES
  runStart,      \* the clock when the last RUN was executed
  missedBefore,  \* TaskState::missed at that time
  begun          \* how often each OB has been dispatched since

historyVars == <<runStart, missedBefore, begun>>

HistoryInit ==
  /\ Init
  /\ runStart = 0
  /\ missedBefore = [t \in Task |-> 0]
  /\ begun = [t \in Task |-> 0]

\* RUN starts a new count, and a dispatch adds to it.
Record ==
  IF state # "RUN" /\ state' = "RUN"
  THEN runStart' = clock /\ missedBefore' = missed /\ begun' = [t \in Task |-> 0]
  ELSE /\ UNCHANGED <<runStart, missedBefore>>
       /\ begun' = IF state = "RUN" /\ Len(stack') > Len(stack)
                   THEN [begun EXCEPT ![stack'[Len(stack')].task] = @ + 1]
                   ELSE begun

HistorySpec == HistoryInit /\ [][Next /\ Record]_<<vars, historyVars>>

FairHistorySpec == HistorySpec /\ Fairness

\* Every release of an OB since RUN has either been dispatched or counted in
\* `missed', however late the dispatches were: the next release is the one
\* after those, on the grid that RUN laid out.
ReleasesAccounted ==
  state = "RUN" =>
    \A t \in {u \in Task : Kind[u] # "startup"} :
      next[t] = runStart
                + Period[t] * (begun[t] + missed[t] - missedBefore[t]
                               + IF Kind[t] = "cyclic" THEN 1 ELSE 0)

\* Each RUN executes every startup OB exactly once, and before any other OB.
StartupFirst ==
  state = "RUN" =>
    \A s \in {u \in Task : Kind[u] = "startup"} :
      /\ begun[s] <= 1
      /\ (\E t \in Task : Kind[t] # "startup" /\ begun[t] > 0) => begun[s] = 1
=============================================================================
