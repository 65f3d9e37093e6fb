---------------------------- MODULE StudioProofs ----------------------------
(***************************************************************************)
(* What the Studio server of Studio.tla guarantees for any number of        *)
(* handler threads and projects, whatever its runtime process does and      *)
(* wherever it crashes: the safety properties, all from one inductive       *)
(* invariant IInv.                                                          *)
(***************************************************************************)
EXTENDS Studio, SequenceTheorems, TLAPS

Place == {"idle", "save", "temp", "replace", "build", "check", "ensure", "enter",
          "write", "wait", "report"}
Line == Command \cup {"exited"}

StudioTypes ==
  /\ slock \in Client \cup {None}
  /\ project \in Content
  /\ file \in Content
  /\ temp \in Content \cup {None}
  /\ result \in Content \cup {None}
  /\ built_source \in Content \cup {None}
  /\ busy \in BOOLEAN
  /\ work \subseteq [project : Content, pc : {"compile", "finally"}]
  /\ unsaved \in BOOLEAN

ProcessTypes ==
  /\ rlock \in Client \cup {None}
  /\ alive \in BOOLEAN
  /\ last_fault \in BOOLEAN
  /\ inbox \in Seq(Command)
  /\ lines \in Seq(Line)
  /\ stale \subseteq Line
  /\ responses \in Seq(Line)

RequestTypes ==
  /\ pc \in [Client -> Place]
  /\ cmd \in [Client -> Command \cup {None}]
  /\ arg \in [Client -> Content \cup {None}]
  /\ seen \in [Client -> SUBSET Content]
  /\ \A c \in Client :
       /\ pc[c] \in {"save", "temp", "replace"} => arg[c] \in Content
       /\ pc[c] \in {"check", "ensure", "enter", "write", "wait"} => cmd[c] \in Command

TypeOK == StudioTypes /\ ProcessTypes /\ RequestTypes

\* RuntimeProcess.lock is held exactly while a command is written and waits.
RuntimeLock == \A c \in Client : rlock = c <=> pc[c] \in {"write", "wait"}

\* Studio.lock is held exactly between the statements of a save, in which only
\* the thread that holds it sets the project and the temporary file.
StudioLock ==
  \A c \in Client :
    /\ slock = c <=> pc[c] \in {"temp", "replace"}
    /\ pc[c] \in {"temp", "replace"} => project = arg[c]
    /\ pc[c] = "replace" => temp = arg[c]

\* Between Studio and a living process there is one message while a command
\* waits, the command or its reply, and none otherwise.
Pipes ==
  /\ ~alive => inbox = <<>>
  /\ alive => Len(inbox) + Len(lines) + Len(responses) =
                IF \E c \in Client : pc[c] = "wait" THEN 1 ELSE 0

\* A request to load has seen the current project, and what it has chosen.
SeenByLoad ==
  \A c \in Client : cmd[c] = "LOAD" => project \in seen[c]

IInv ==
  /\ TypeOK /\ RuntimeLock /\ StudioLock /\ Pipes /\ SeenByLoad
  /\ ResultIsOfSource /\ LoadIsCurrent /\ FileIsProject
-----------------------------------------------------------------------------

\* A handler that goes on, leaves command() or returns.
LEMMA GotoTypes ==
  ASSUME RequestTypes, NEW c \in Client, UNCHANGED seen,
         NEW there \in Place, Goto(c, there),
         there \in {"temp", "replace"} => arg[c] \in Content,
         there \in {"check", "ensure", "enter", "write", "wait"} => cmd[c] \in Command,
         there # "save"
  PROVE  RequestTypes'
  BY DEF RequestTypes, Goto

LEMMA DoneTypes ==
  ASSUME RequestTypes, NEW c \in Client, Done(c)
  PROVE  RequestTypes'
  BY DEF RequestTypes, Done, Place

LEMMA LeaveTypes ==
  ASSUME RequestTypes, NEW c \in Client, Leave(c)
  PROVE  RequestTypes'
<1>1. CASE Goto(c, "report") /\ UNCHANGED seen
  BY <1>1, GotoTypes DEF Place
<1> QED
  BY <1>1, DoneTypes DEF Leave

\* The process ends.
LEMMA ExitTypes ==
  ASSUME ProcessTypes, Exit
  PROVE  alive' \in BOOLEAN /\ inbox' \in Seq(Command) /\ lines' \in Seq(Line)
<1>1. lines \in Seq(Line) /\ "exited" \in Line
  BY DEF ProcessTypes, Line
<1>2. Append(lines, "exited") \in Seq(Line)
  BY <1>1, AppendProperties
<1>3. lines' \in Seq(Line)
  BY <1>1, <1>2 DEF Exit
<1> QED
  BY <1>3, EmptySeq DEF Exit

\* Every step preserves the types.
LEMMA StudioTypesStep ==
  ASSUME TypeOK, [Next]_vars
  PROVE  StudioTypes'
<1> USE StudioAssumption DEF TypeOK, StudioTypes, RequestTypes
<1>1. ASSUME NEW c \in Client, Request(c) PROVE StudioTypes'
  BY <1>1 DEF Request, studio, process, request
<1>2. ASSUME NEW c \in Client, SaveMemory(c) PROVE StudioTypes'
  BY <1>2 DEF SaveMemory, studio, process, request
<1>3. ASSUME NEW c \in Client, SaveTemp(c) PROVE StudioTypes'
  BY <1>3 DEF SaveTemp, studio, process, request
<1>4. ASSUME NEW c \in Client, SaveReplace(c) PROVE StudioTypes'
  BY <1>4 DEF SaveReplace, studio, process, request
<1>5. ASSUME NEW c \in Client, SaveFail(c) PROVE StudioTypes'
  BY <1>5 DEF SaveFail, studio, process, request
<1>6. ASSUME NEW c \in Client, Build(c) PROVE StudioTypes'
  <2>1. CASE busy
    BY <1>6, <2>1 DEF Build, studio, process, request
  <2>2. CASE ~busy
    <3>1. [project |-> project, pc |-> "compile"] \in
            [project : Content, pc : {"compile", "finally"}]
      OBVIOUS
    <3> QED
      BY <1>6, <2>2, <3>1 DEF Build, studio, process, request
  <2> QED
    BY <2>1, <2>2
<1>7. ASSUME NEW c \in Client, LoadCheck(c) PROVE StudioTypes'
  BY <1>7 DEF LoadCheck, Loadable, studio, process, request
<1>8. ASSUME NEW c \in Client, Ensure(c) PROVE StudioTypes'
  BY <1>8 DEF Ensure, studio, process, request
<1>9. ASSUME NEW c \in Client, Enter(c) PROVE StudioTypes'
  BY <1>9 DEF Enter, studio, process, request
<1>10. ASSUME NEW c \in Client, Write(c) PROVE StudioTypes'
  BY <1>10 DEF Write, studio, process, request
<1>11. ASSUME NEW c \in Client, WriteBroken(c) PROVE StudioTypes'
  BY <1>11 DEF WriteBroken, Kill, studio, process, request
<1>12. ASSUME NEW c \in Client, Receive(c) PROVE StudioTypes'
  BY <1>12 DEF Receive, studio, process, request
<1>13. ASSUME NEW c \in Client, Timeout(c) PROVE StudioTypes'
  BY <1>13 DEF Timeout, Kill, studio, process, request
<1>14. ASSUME NEW c \in Client, Report(c) PROVE StudioTypes'
  BY <1>14 DEF Report, studio, process, request
<1>15. ASSUME NEW w \in work, Compiled(w) PROVE StudioTypes'
  BY <1>15 DEF Compiled, process, request
<1>16. ASSUME NEW w \in work, CompileFailed(w) PROVE StudioTypes'
  BY <1>16 DEF CompileFailed, process, request
<1>17. ASSUME NEW w \in work, BuildDone(w) PROVE StudioTypes'
  BY <1>17 DEF BuildDone, process, request
<1>18. CASE Read
  BY <1>18 DEF Read, studio, request
<1>19. CASE ReadStale
  BY <1>19 DEF ReadStale, studio, request
<1>20. CASE Serve
  BY <1>20 DEF Serve, studio, request
<1>21. CASE Die
  BY <1>21 DEF Die, Exit, studio, request
<1>22. CASE Restart
  BY <1>22 DEF Restart
<1>23. CASE UNCHANGED vars
  BY <1>23 DEF vars, studio, process, request
<1> QED
  BY <1>1, <1>2, <1>3, <1>4, <1>5, <1>6, <1>7, <1>8, <1>9, <1>10, <1>11, <1>12, <1>13, <1>14, <1>15, <1>16, <1>17, <1>18, <1>19, <1>20, <1>21, <1>22, <1>23 DEF Next, Handle, Work

LEMMA ProcessTypesStep ==
  ASSUME TypeOK, [Next]_vars
  PROVE  ProcessTypes'
<1> USE StudioAssumption DEF TypeOK, ProcessTypes, RequestTypes, Line
<1>1. ASSUME NEW c \in Client, Request(c) PROVE ProcessTypes'
  BY <1>1 DEF Request, studio, process, request
<1>2. ASSUME NEW c \in Client, SaveMemory(c) PROVE ProcessTypes'
  BY <1>2 DEF SaveMemory, studio, process, request
<1>3. ASSUME NEW c \in Client, SaveTemp(c) PROVE ProcessTypes'
  BY <1>3 DEF SaveTemp, studio, process, request
<1>4. ASSUME NEW c \in Client, SaveReplace(c) PROVE ProcessTypes'
  BY <1>4 DEF SaveReplace, studio, process, request
<1>5. ASSUME NEW c \in Client, SaveFail(c) PROVE ProcessTypes'
  BY <1>5 DEF SaveFail, studio, process, request
<1>6. ASSUME NEW c \in Client, Build(c) PROVE ProcessTypes'
  BY <1>6 DEF Build, studio, process, request
<1>7. ASSUME NEW c \in Client, LoadCheck(c) PROVE ProcessTypes'
  BY <1>7 DEF LoadCheck, Loadable, studio, process, request
<1>8. ASSUME NEW c \in Client, Ensure(c) PROVE ProcessTypes'
  <2>1. CASE alive
    BY <1>8, <2>1 DEF Ensure, studio, process, request
  <2>2. CASE ~alive
    <3>1. \A i \in 1..Len(lines) : lines[i] \in Line
      BY ElementOfSeq DEF Line
    <3>2. stale' \subseteq Line
      <4>1. stale' = stale \cup {lines[i] : i \in 1..Len(lines)}
        BY <1>8, <2>2 DEF Ensure, studio, process, request
      <4>2. stale \subseteq Line
        OBVIOUS
      <4> HIDE DEF TypeOK, ProcessTypes, Line
      <4> QED
        BY <3>1, <4>1, <4>2
    <3>3. lines' \in Seq(Line) /\ responses' \in Seq(Line)
      BY <1>8, <2>2, EmptySeq DEF Ensure, studio, process, request
    <3> QED
      BY <1>8, <2>2, <3>2, <3>3 DEF Ensure, studio, process, request
  <2> QED
    BY <2>1, <2>2
<1>9. ASSUME NEW c \in Client, Enter(c) PROVE ProcessTypes'
  BY <1>9 DEF Enter, studio, process, request
<1>10. ASSUME NEW c \in Client, Write(c) PROVE ProcessTypes'
  BY <1>10 DEF Write, studio, process, request
<1>11. ASSUME NEW c \in Client, WriteBroken(c) PROVE ProcessTypes'
  BY <1>11, ExitTypes DEF WriteBroken, Kill, studio, process, request
<1>12. ASSUME NEW c \in Client, Receive(c) PROVE ProcessTypes'
  BY <1>12 DEF Receive, studio, process, request
<1>13. ASSUME NEW c \in Client, Timeout(c) PROVE ProcessTypes'
  BY <1>13, ExitTypes DEF Timeout, Kill, studio, process, request
<1>14. ASSUME NEW c \in Client, Report(c) PROVE ProcessTypes'
  BY <1>14 DEF Report, studio, process, request
<1>15. ASSUME NEW w \in work, Compiled(w) PROVE ProcessTypes'
  BY <1>15 DEF Compiled, process, request
<1>16. ASSUME NEW w \in work, CompileFailed(w) PROVE ProcessTypes'
  BY <1>16 DEF CompileFailed, process, request
<1>17. ASSUME NEW w \in work, BuildDone(w) PROVE ProcessTypes'
  BY <1>17 DEF BuildDone, process, request
<1>18. CASE Read
  BY <1>18 DEF Read, studio, request
<1>19. CASE ReadStale
  BY <1>19 DEF ReadStale, studio, request
<1>20. CASE Serve
  BY <1>20 DEF Serve, studio, request
<1>21. CASE Die
  BY <1>21, ExitTypes DEF Die, studio, request
<1>22. CASE Restart
  BY <1>22, EmptySeq DEF Restart
<1>23. CASE UNCHANGED vars
  BY <1>23 DEF vars, studio, process, request
<1> QED
  BY <1>1, <1>2, <1>3, <1>4, <1>5, <1>6, <1>7, <1>8, <1>9, <1>10, <1>11, <1>12, <1>13, <1>14, <1>15, <1>16, <1>17, <1>18, <1>19, <1>20, <1>21, <1>22, <1>23 DEF Next, Handle, Work

LEMMA RequestTypesStep ==
  ASSUME TypeOK, [Next]_vars
  PROVE  RequestTypes'
<1> USE StudioAssumption DEF TypeOK, StudioTypes, RequestTypes, Place
<1>1. ASSUME NEW c \in Client, Request(c) PROVE RequestTypes'
  BY <1>1 DEF Request, studio, process, request
<1>2. ASSUME NEW c \in Client, SaveMemory(c) PROVE RequestTypes'
  BY <1>2 DEF SaveMemory, Goto, studio, process, request
<1>3. ASSUME NEW c \in Client, SaveTemp(c) PROVE RequestTypes'
  BY <1>3 DEF SaveTemp, Goto, studio, process, request
<1>4. ASSUME NEW c \in Client, SaveReplace(c) PROVE RequestTypes'
  BY <1>4, DoneTypes DEF SaveReplace, studio, process, request
<1>5. ASSUME NEW c \in Client, SaveFail(c) PROVE RequestTypes'
  BY <1>5, DoneTypes DEF SaveFail, studio, process, request
<1>6. ASSUME NEW c \in Client, Build(c) PROVE RequestTypes'
  BY <1>6, DoneTypes DEF Build, studio, process, request
<1>7. ASSUME NEW c \in Client, LoadCheck(c) PROVE RequestTypes'
  BY <1>7, DoneTypes DEF LoadCheck, Loadable, studio, process, request
<1>8. ASSUME NEW c \in Client, Ensure(c) PROVE RequestTypes'
  BY <1>8 DEF Ensure, Goto, studio, process, request
<1>9. ASSUME NEW c \in Client, Enter(c) PROVE RequestTypes'
  BY <1>9, LeaveTypes, GotoTypes DEF Enter, studio, process, request
<1>10. ASSUME NEW c \in Client, Write(c) PROVE RequestTypes'
  BY <1>10 DEF Write, Goto, studio, process, request
<1>11. ASSUME NEW c \in Client, WriteBroken(c) PROVE RequestTypes'
  BY <1>11, LeaveTypes DEF WriteBroken, Kill, studio, process, request
<1>12. ASSUME NEW c \in Client, Receive(c) PROVE RequestTypes'
  BY <1>12, LeaveTypes DEF Receive, studio, process, request
<1>13. ASSUME NEW c \in Client, Timeout(c) PROVE RequestTypes'
  BY <1>13, LeaveTypes DEF Timeout, Kill, studio, process, request
<1>14. ASSUME NEW c \in Client, Report(c) PROVE RequestTypes'
  BY <1>14, DoneTypes DEF Report, studio, process, request
<1>15. ASSUME NEW w \in work, Compiled(w) PROVE RequestTypes'
  BY <1>15 DEF Compiled, process, request
<1>16. ASSUME NEW w \in work, CompileFailed(w) PROVE RequestTypes'
  BY <1>16 DEF CompileFailed, process, request
<1>17. ASSUME NEW w \in work, BuildDone(w) PROVE RequestTypes'
  BY <1>17 DEF BuildDone, process, request
<1>18. CASE Read
  BY <1>18 DEF Read, studio, request
<1>19. CASE ReadStale
  BY <1>19 DEF ReadStale, studio, request
<1>20. CASE Serve
  BY <1>20 DEF Serve, studio, request
<1>21. CASE Die
  BY <1>21 DEF Die, Exit, studio, request
<1>22. CASE Restart
  BY <1>22 DEF Restart
<1>23. CASE UNCHANGED vars
  BY <1>23 DEF vars, studio, process, request
<1> QED
  BY <1>1, <1>2, <1>3, <1>4, <1>5, <1>6, <1>7, <1>8, <1>9, <1>10, <1>11, <1>12, <1>13, <1>14, <1>15, <1>16, <1>17, <1>18, <1>19, <1>20, <1>21, <1>22, <1>23 DEF Next, Handle, Work

\* RuntimeProcess.lock is taken and given back with the waiting of one handler.
LEMMA RuntimeLockStep ==
  ASSUME TypeOK, RuntimeLock, [Next]_vars
  PROVE  RuntimeLock'
<1> USE StudioAssumption DEF TypeOK, ProcessTypes, RequestTypes, RuntimeLock
<1>1. ASSUME NEW c \in Client, Request(c) PROVE RuntimeLock'
  BY <1>1 DEF Request, studio, process, request
<1>2. ASSUME NEW c \in Client, SaveMemory(c) PROVE RuntimeLock'
  BY <1>2 DEF SaveMemory, Goto, studio, process, request
<1>3. ASSUME NEW c \in Client, SaveTemp(c) PROVE RuntimeLock'
  BY <1>3 DEF SaveTemp, Goto, studio, process, request
<1>4. ASSUME NEW c \in Client, SaveReplace(c) PROVE RuntimeLock'
  BY <1>4 DEF SaveReplace, Done, studio, process, request
<1>5. ASSUME NEW c \in Client, SaveFail(c) PROVE RuntimeLock'
  BY <1>5 DEF SaveFail, Done, studio, process, request
<1>6. ASSUME NEW c \in Client, Build(c) PROVE RuntimeLock'
  BY <1>6 DEF Build, Done, studio, process, request
<1>7. ASSUME NEW c \in Client, LoadCheck(c) PROVE RuntimeLock'
  BY <1>7 DEF LoadCheck, Loadable, Done, studio, process, request
<1>8. ASSUME NEW c \in Client, Ensure(c) PROVE RuntimeLock'
  BY <1>8 DEF Ensure, Goto, studio, process, request
<1>9. ASSUME NEW c \in Client, Enter(c) PROVE RuntimeLock'
  BY <1>9 DEF Enter, Leave, Goto, Done, studio, process, request
<1>10. ASSUME NEW c \in Client, Write(c) PROVE RuntimeLock'
  BY <1>10 DEF Write, Goto, studio, process, request
<1>11. ASSUME NEW c \in Client, WriteBroken(c) PROVE RuntimeLock'
  BY <1>11 DEF WriteBroken, Kill, Exit, Leave, Goto, Done, studio, process, request
<1>12. ASSUME NEW c \in Client, Receive(c) PROVE RuntimeLock'
  BY <1>12 DEF Receive, Leave, Goto, Done, studio, process, request
<1>13. ASSUME NEW c \in Client, Timeout(c) PROVE RuntimeLock'
  BY <1>13 DEF Timeout, Kill, Exit, Leave, Goto, Done, studio, process, request
<1>14. ASSUME NEW c \in Client, Report(c) PROVE RuntimeLock'
  BY <1>14 DEF Report, Done, studio, process, request
<1>15. ASSUME NEW w \in work, Compiled(w) PROVE RuntimeLock'
  BY <1>15 DEF Compiled, process, request
<1>16. ASSUME NEW w \in work, CompileFailed(w) PROVE RuntimeLock'
  BY <1>16 DEF CompileFailed, process, request
<1>17. ASSUME NEW w \in work, BuildDone(w) PROVE RuntimeLock'
  BY <1>17 DEF BuildDone, process, request
<1>18. CASE Read
  BY <1>18 DEF Read, studio, request
<1>19. CASE ReadStale
  BY <1>19 DEF ReadStale, studio, request
<1>20. CASE Serve
  BY <1>20 DEF Serve, studio, request
<1>21. CASE Die
  BY <1>21 DEF Die, Exit, studio, request
<1>22. CASE Restart
  BY <1>22 DEF Restart
<1>23. CASE UNCHANGED vars
  BY <1>23 DEF vars, studio, process, request
<1> QED
  BY <1>1, <1>2, <1>3, <1>4, <1>5, <1>6, <1>7, <1>8, <1>9, <1>10, <1>11, <1>12, <1>13, <1>14, <1>15, <1>16, <1>17, <1>18, <1>19, <1>20, <1>21, <1>22, <1>23 DEF Next, Handle, Work

\* Studio.lock is taken and given back with one save.
LEMMA StudioLockStep ==
  ASSUME TypeOK, StudioLock, [Next]_vars
  PROVE  StudioLock'
<1> USE StudioAssumption DEF TypeOK, StudioTypes, RequestTypes, StudioLock
<1>1. ASSUME NEW c \in Client, Request(c) PROVE StudioLock'
  BY <1>1 DEF Request, studio, process, request
<1>2. ASSUME NEW c \in Client, SaveMemory(c) PROVE StudioLock'
  BY <1>2 DEF SaveMemory, Goto, studio, process, request
<1>3. ASSUME NEW c \in Client, SaveTemp(c) PROVE StudioLock'
  BY <1>3 DEF SaveTemp, Goto, studio, process, request
<1>4. ASSUME NEW c \in Client, SaveReplace(c) PROVE StudioLock'
  BY <1>4 DEF SaveReplace, Done, studio, process, request
<1>5. ASSUME NEW c \in Client, SaveFail(c) PROVE StudioLock'
  BY <1>5 DEF SaveFail, Done, studio, process, request
<1>6. ASSUME NEW c \in Client, Build(c) PROVE StudioLock'
  BY <1>6 DEF Build, Done, studio, process, request
<1>7. ASSUME NEW c \in Client, LoadCheck(c) PROVE StudioLock'
  BY <1>7 DEF LoadCheck, Loadable, Done, studio, process, request
<1>8. ASSUME NEW c \in Client, Ensure(c) PROVE StudioLock'
  BY <1>8 DEF Ensure, Goto, studio, process, request
<1>9. ASSUME NEW c \in Client, Enter(c) PROVE StudioLock'
  BY <1>9 DEF Enter, Leave, Goto, Done, studio, process, request
<1>10. ASSUME NEW c \in Client, Write(c) PROVE StudioLock'
  BY <1>10 DEF Write, Goto, studio, process, request
<1>11. ASSUME NEW c \in Client, WriteBroken(c) PROVE StudioLock'
  BY <1>11 DEF WriteBroken, Kill, Exit, Leave, Goto, Done, studio, process, request
<1>12. ASSUME NEW c \in Client, Receive(c) PROVE StudioLock'
  BY <1>12 DEF Receive, Leave, Goto, Done, studio, process, request
<1>13. ASSUME NEW c \in Client, Timeout(c) PROVE StudioLock'
  BY <1>13 DEF Timeout, Kill, Exit, Leave, Goto, Done, studio, process, request
<1>14. ASSUME NEW c \in Client, Report(c) PROVE StudioLock'
  BY <1>14 DEF Report, Done, studio, process, request
<1>15. ASSUME NEW w \in work, Compiled(w) PROVE StudioLock'
  BY <1>15 DEF Compiled, process, request
<1>16. ASSUME NEW w \in work, CompileFailed(w) PROVE StudioLock'
  BY <1>16 DEF CompileFailed, process, request
<1>17. ASSUME NEW w \in work, BuildDone(w) PROVE StudioLock'
  BY <1>17 DEF BuildDone, process, request
<1>18. CASE Read
  BY <1>18 DEF Read, studio, request
<1>19. CASE ReadStale
  BY <1>19 DEF ReadStale, studio, request
<1>20. CASE Serve
  BY <1>20 DEF Serve, studio, request
<1>21. CASE Die
  BY <1>21 DEF Die, Exit, studio, request
<1>22. CASE Restart
  BY <1>22 DEF Restart
<1>23. CASE UNCHANGED vars
  BY <1>23 DEF vars, studio, process, request
<1> QED
  BY <1>1, <1>2, <1>3, <1>4, <1>5, <1>6, <1>7, <1>8, <1>9, <1>10, <1>11, <1>12, <1>13, <1>14, <1>15, <1>16, <1>17, <1>18, <1>19, <1>20, <1>21, <1>22, <1>23 DEF Next, Handle, Work

\* A command or its reply is on its way only while its handler waits.
LEMMA PipesStep ==
  ASSUME TypeOK, RuntimeLock, Pipes, [Next]_vars
  PROVE  Pipes'
<1> USE StudioAssumption DEF TypeOK, ProcessTypes, RequestTypes, RuntimeLock, Pipes
<1>1. ASSUME NEW c \in Client, Request(c) PROVE Pipes'
  BY <1>1 DEF Request, studio, process, request
<1>2. ASSUME NEW c \in Client, SaveMemory(c) PROVE Pipes'
  BY <1>2 DEF SaveMemory, Goto, studio, process, request
<1>3. ASSUME NEW c \in Client, SaveTemp(c) PROVE Pipes'
  BY <1>3 DEF SaveTemp, Goto, studio, process, request
<1>4. ASSUME NEW c \in Client, SaveReplace(c) PROVE Pipes'
  BY <1>4 DEF SaveReplace, Done, studio, process, request
<1>5. ASSUME NEW c \in Client, SaveFail(c) PROVE Pipes'
  BY <1>5 DEF SaveFail, Done, studio, process, request
<1>6. ASSUME NEW c \in Client, Build(c) PROVE Pipes'
  BY <1>6 DEF Build, Done, studio, process, request
<1>7. ASSUME NEW c \in Client, LoadCheck(c) PROVE Pipes'
  BY <1>7 DEF LoadCheck, Loadable, Done, studio, process, request
<1>8. ASSUME NEW c \in Client, Ensure(c) PROVE Pipes'
  BY <1>8 DEF Ensure, Goto, studio, process, request
<1>9. ASSUME NEW c \in Client, Enter(c) PROVE Pipes'
  BY <1>9 DEF Enter, Leave, Goto, Done, studio, process, request
<1>10. ASSUME NEW c \in Client, Write(c) PROVE Pipes'
  BY <1>10 DEF Write, Goto, studio, process, request
<1>11. ASSUME NEW c \in Client, WriteBroken(c) PROVE Pipes'
  BY <1>11 DEF WriteBroken, Kill, Exit, Leave, Goto, Done, studio, process, request
<1>12. ASSUME NEW c \in Client, Receive(c) PROVE Pipes'
  BY <1>12 DEF Receive, Leave, Goto, Done, studio, process, request
<1>13. ASSUME NEW c \in Client, Timeout(c) PROVE Pipes'
  BY <1>13 DEF Timeout, Kill, Exit, Leave, Goto, Done, studio, process, request
<1>14. ASSUME NEW c \in Client, Report(c) PROVE Pipes'
  BY <1>14 DEF Report, Done, studio, process, request
<1>15. ASSUME NEW w \in work, Compiled(w) PROVE Pipes'
  BY <1>15 DEF Compiled, process, request
<1>16. ASSUME NEW w \in work, CompileFailed(w) PROVE Pipes'
  BY <1>16 DEF CompileFailed, process, request
<1>17. ASSUME NEW w \in work, BuildDone(w) PROVE Pipes'
  BY <1>17 DEF BuildDone, process, request
<1>18. CASE Read
  BY <1>18 DEF Read, studio, request
<1>19. CASE ReadStale
  BY <1>19 DEF ReadStale, studio, request
<1>20. CASE Serve
  BY <1>20 DEF Serve, studio, request
<1>21. CASE Die
  BY <1>21 DEF Die, Exit, studio, request
<1>22. CASE Restart
  BY <1>22 DEF Restart
<1>23. CASE UNCHANGED vars
  BY <1>23 DEF vars, studio, process, request
<1> QED
  BY <1>1, <1>2, <1>3, <1>4, <1>5, <1>6, <1>7, <1>8, <1>9, <1>10, <1>11, <1>12, <1>13, <1>14, <1>15, <1>16, <1>17, <1>18, <1>19, <1>20, <1>21, <1>22, <1>23 DEF Next, Handle, Work

\* A request to load sees every project from its start on.
LEMMA SeenStep ==
  ASSUME TypeOK, SeenByLoad, [Next]_vars
  PROVE  SeenByLoad'
<1> USE StudioAssumption DEF TypeOK, RequestTypes, SeenByLoad
<1>1. ASSUME NEW c \in Client, Request(c) PROVE SeenByLoad'
  BY <1>1 DEF Request, studio, process, request
<1>2. ASSUME NEW c \in Client, SaveMemory(c) PROVE SeenByLoad'
  BY <1>2 DEF SaveMemory, Goto, studio, process, request
<1>3. ASSUME NEW c \in Client, SaveTemp(c) PROVE SeenByLoad'
  BY <1>3 DEF SaveTemp, Goto, studio, process, request
<1>4. ASSUME NEW c \in Client, SaveReplace(c) PROVE SeenByLoad'
  BY <1>4 DEF SaveReplace, Done, studio, process, request
<1>5. ASSUME NEW c \in Client, SaveFail(c) PROVE SeenByLoad'
  BY <1>5 DEF SaveFail, Done, studio, process, request
<1>6. ASSUME NEW c \in Client, Build(c) PROVE SeenByLoad'
  BY <1>6 DEF Build, Done, studio, process, request
<1>7. ASSUME NEW c \in Client, LoadCheck(c) PROVE SeenByLoad'
  BY <1>7 DEF LoadCheck, Loadable, Done, studio, process, request
<1>8. ASSUME NEW c \in Client, Ensure(c) PROVE SeenByLoad'
  BY <1>8 DEF Ensure, Goto, studio, process, request
<1>9. ASSUME NEW c \in Client, Enter(c) PROVE SeenByLoad'
  BY <1>9 DEF Enter, Leave, Goto, Done, studio, process, request
<1>10. ASSUME NEW c \in Client, Write(c) PROVE SeenByLoad'
  BY <1>10 DEF Write, Goto, studio, process, request
<1>11. ASSUME NEW c \in Client, WriteBroken(c) PROVE SeenByLoad'
  BY <1>11 DEF WriteBroken, Kill, Exit, Leave, Goto, Done, studio, process, request
<1>12. ASSUME NEW c \in Client, Receive(c) PROVE SeenByLoad'
  BY <1>12 DEF Receive, Leave, Goto, Done, studio, process, request
<1>13. ASSUME NEW c \in Client, Timeout(c) PROVE SeenByLoad'
  BY <1>13 DEF Timeout, Kill, Exit, Leave, Goto, Done, studio, process, request
<1>14. ASSUME NEW c \in Client, Report(c) PROVE SeenByLoad'
  BY <1>14 DEF Report, Done, studio, process, request
<1>15. ASSUME NEW w \in work, Compiled(w) PROVE SeenByLoad'
  BY <1>15 DEF Compiled, process, request
<1>16. ASSUME NEW w \in work, CompileFailed(w) PROVE SeenByLoad'
  BY <1>16 DEF CompileFailed, process, request
<1>17. ASSUME NEW w \in work, BuildDone(w) PROVE SeenByLoad'
  BY <1>17 DEF BuildDone, process, request
<1>18. CASE Read
  BY <1>18 DEF Read, studio, request
<1>19. CASE ReadStale
  BY <1>19 DEF ReadStale, studio, request
<1>20. CASE Serve
  BY <1>20 DEF Serve, studio, request
<1>21. CASE Die
  BY <1>21 DEF Die, Exit, studio, request
<1>22. CASE Restart
  BY <1>22 DEF Restart
<1>23. CASE UNCHANGED vars
  BY <1>23 DEF vars, studio, process, request
<1> QED
  BY <1>1, <1>2, <1>3, <1>4, <1>5, <1>6, <1>7, <1>8, <1>9, <1>10, <1>11, <1>12, <1>13, <1>14, <1>15, <1>16, <1>17, <1>18, <1>19, <1>20, <1>21, <1>22, <1>23 DEF Next, Handle, Work

\* The result and its source are set together.
LEMMA ResultStep ==
  ASSUME TypeOK, ResultIsOfSource, [Next]_vars
  PROVE  ResultIsOfSource'
<1> USE StudioAssumption DEF TypeOK, StudioTypes, ResultIsOfSource
<1>1. ASSUME NEW c \in Client, Request(c) PROVE ResultIsOfSource'
  BY <1>1 DEF Request, studio, process, request
<1>2. ASSUME NEW c \in Client, SaveMemory(c) PROVE ResultIsOfSource'
  BY <1>2 DEF SaveMemory, Goto, studio, process, request
<1>3. ASSUME NEW c \in Client, SaveTemp(c) PROVE ResultIsOfSource'
  BY <1>3 DEF SaveTemp, Goto, studio, process, request
<1>4. ASSUME NEW c \in Client, SaveReplace(c) PROVE ResultIsOfSource'
  BY <1>4 DEF SaveReplace, Done, studio, process, request
<1>5. ASSUME NEW c \in Client, SaveFail(c) PROVE ResultIsOfSource'
  BY <1>5 DEF SaveFail, Done, studio, process, request
<1>6. ASSUME NEW c \in Client, Build(c) PROVE ResultIsOfSource'
  BY <1>6 DEF Build, Done, studio, process, request
<1>7. ASSUME NEW c \in Client, LoadCheck(c) PROVE ResultIsOfSource'
  BY <1>7 DEF LoadCheck, Loadable, Done, studio, process, request
<1>8. ASSUME NEW c \in Client, Ensure(c) PROVE ResultIsOfSource'
  BY <1>8 DEF Ensure, Goto, studio, process, request
<1>9. ASSUME NEW c \in Client, Enter(c) PROVE ResultIsOfSource'
  BY <1>9 DEF Enter, Leave, Goto, Done, studio, process, request
<1>10. ASSUME NEW c \in Client, Write(c) PROVE ResultIsOfSource'
  BY <1>10 DEF Write, Goto, studio, process, request
<1>11. ASSUME NEW c \in Client, WriteBroken(c) PROVE ResultIsOfSource'
  BY <1>11 DEF WriteBroken, Kill, Exit, Leave, Goto, Done, studio, process, request
<1>12. ASSUME NEW c \in Client, Receive(c) PROVE ResultIsOfSource'
  BY <1>12 DEF Receive, Leave, Goto, Done, studio, process, request
<1>13. ASSUME NEW c \in Client, Timeout(c) PROVE ResultIsOfSource'
  BY <1>13 DEF Timeout, Kill, Exit, Leave, Goto, Done, studio, process, request
<1>14. ASSUME NEW c \in Client, Report(c) PROVE ResultIsOfSource'
  BY <1>14 DEF Report, Done, studio, process, request
<1>15. ASSUME NEW w \in work, Compiled(w) PROVE ResultIsOfSource'
  BY <1>15 DEF Compiled, process, request
<1>16. ASSUME NEW w \in work, CompileFailed(w) PROVE ResultIsOfSource'
  BY <1>16 DEF CompileFailed, process, request
<1>17. ASSUME NEW w \in work, BuildDone(w) PROVE ResultIsOfSource'
  BY <1>17 DEF BuildDone, process, request
<1>18. CASE Read
  BY <1>18 DEF Read, studio, request
<1>19. CASE ReadStale
  BY <1>19 DEF ReadStale, studio, request
<1>20. CASE Serve
  BY <1>20 DEF Serve, studio, request
<1>21. CASE Die
  BY <1>21 DEF Die, Exit, studio, request
<1>22. CASE Restart
  BY <1>22 DEF Restart
<1>23. CASE UNCHANGED vars
  BY <1>23 DEF vars, studio, process, request
<1> QED
  BY <1>1, <1>2, <1>3, <1>4, <1>5, <1>6, <1>7, <1>8, <1>9, <1>10, <1>11, <1>12, <1>13, <1>14, <1>15, <1>16, <1>17, <1>18, <1>19, <1>20, <1>21, <1>22, <1>23 DEF Next, Handle, Work

\* What passes the checks of a load was compiled from the current project.
LEMMA LoadStep ==
  ASSUME TypeOK, SeenByLoad, ResultIsOfSource, LoadIsCurrent, [Next]_vars
  PROVE  LoadIsCurrent'
<1> USE StudioAssumption DEF TypeOK, StudioTypes, RequestTypes, SeenByLoad, ResultIsOfSource, LoadIsCurrent
<1>1. ASSUME NEW c \in Client, Request(c) PROVE LoadIsCurrent'
  BY <1>1 DEF Request, studio, process, request
<1>2. ASSUME NEW c \in Client, SaveMemory(c) PROVE LoadIsCurrent'
  BY <1>2 DEF SaveMemory, Goto, studio, process, request
<1>3. ASSUME NEW c \in Client, SaveTemp(c) PROVE LoadIsCurrent'
  BY <1>3 DEF SaveTemp, Goto, studio, process, request
<1>4. ASSUME NEW c \in Client, SaveReplace(c) PROVE LoadIsCurrent'
  BY <1>4 DEF SaveReplace, Done, studio, process, request
<1>5. ASSUME NEW c \in Client, SaveFail(c) PROVE LoadIsCurrent'
  BY <1>5 DEF SaveFail, Done, studio, process, request
<1>6. ASSUME NEW c \in Client, Build(c) PROVE LoadIsCurrent'
  BY <1>6 DEF Build, Done, studio, process, request
<1>7. ASSUME NEW c \in Client, LoadCheck(c) PROVE LoadIsCurrent'
  BY <1>7 DEF LoadCheck, Loadable, Done, studio, process, request
<1>8. ASSUME NEW c \in Client, Ensure(c) PROVE LoadIsCurrent'
  BY <1>8 DEF Ensure, Goto, studio, process, request
<1>9. ASSUME NEW c \in Client, Enter(c) PROVE LoadIsCurrent'
  BY <1>9 DEF Enter, Leave, Goto, Done, studio, process, request
<1>10. ASSUME NEW c \in Client, Write(c) PROVE LoadIsCurrent'
  BY <1>10 DEF Write, Goto, studio, process, request
<1>11. ASSUME NEW c \in Client, WriteBroken(c) PROVE LoadIsCurrent'
  BY <1>11 DEF WriteBroken, Kill, Exit, Leave, Goto, Done, studio, process, request
<1>12. ASSUME NEW c \in Client, Receive(c) PROVE LoadIsCurrent'
  BY <1>12 DEF Receive, Leave, Goto, Done, studio, process, request
<1>13. ASSUME NEW c \in Client, Timeout(c) PROVE LoadIsCurrent'
  BY <1>13 DEF Timeout, Kill, Exit, Leave, Goto, Done, studio, process, request
<1>14. ASSUME NEW c \in Client, Report(c) PROVE LoadIsCurrent'
  BY <1>14 DEF Report, Done, studio, process, request
<1>15. ASSUME NEW w \in work, Compiled(w) PROVE LoadIsCurrent'
  BY <1>15 DEF Compiled, process, request
<1>16. ASSUME NEW w \in work, CompileFailed(w) PROVE LoadIsCurrent'
  BY <1>16 DEF CompileFailed, process, request
<1>17. ASSUME NEW w \in work, BuildDone(w) PROVE LoadIsCurrent'
  BY <1>17 DEF BuildDone, process, request
<1>18. CASE Read
  BY <1>18 DEF Read, studio, request
<1>19. CASE ReadStale
  BY <1>19 DEF ReadStale, studio, request
<1>20. CASE Serve
  BY <1>20 DEF Serve, studio, request
<1>21. CASE Die
  BY <1>21 DEF Die, Exit, studio, request
<1>22. CASE Restart
  BY <1>22 DEF Restart
<1>23. CASE UNCHANGED vars
  BY <1>23 DEF vars, studio, process, request
<1> QED
  BY <1>1, <1>2, <1>3, <1>4, <1>5, <1>6, <1>7, <1>8, <1>9, <1>10, <1>11, <1>12, <1>13, <1>14, <1>15, <1>16, <1>17, <1>18, <1>19, <1>20, <1>21, <1>22, <1>23 DEF Next, Handle, Work

\* A save that ends has written its own project.
LEMMA FileStep ==
  ASSUME TypeOK, StudioLock, FileIsProject, [Next]_vars
  PROVE  FileIsProject'
<1> USE StudioAssumption DEF TypeOK, StudioTypes, RequestTypes, StudioLock, FileIsProject
<1>1. ASSUME NEW c \in Client, Request(c) PROVE FileIsProject'
  BY <1>1 DEF Request, studio, process, request
<1>2. ASSUME NEW c \in Client, SaveMemory(c) PROVE FileIsProject'
  BY <1>2 DEF SaveMemory, Goto, studio, process, request
<1>3. ASSUME NEW c \in Client, SaveTemp(c) PROVE FileIsProject'
  BY <1>3 DEF SaveTemp, Goto, studio, process, request
<1>4. ASSUME NEW c \in Client, SaveReplace(c) PROVE FileIsProject'
  BY <1>4 DEF SaveReplace, Done, studio, process, request
<1>5. ASSUME NEW c \in Client, SaveFail(c) PROVE FileIsProject'
  BY <1>5 DEF SaveFail, Done, studio, process, request
<1>6. ASSUME NEW c \in Client, Build(c) PROVE FileIsProject'
  BY <1>6 DEF Build, Done, studio, process, request
<1>7. ASSUME NEW c \in Client, LoadCheck(c) PROVE FileIsProject'
  BY <1>7 DEF LoadCheck, Loadable, Done, studio, process, request
<1>8. ASSUME NEW c \in Client, Ensure(c) PROVE FileIsProject'
  BY <1>8 DEF Ensure, Goto, studio, process, request
<1>9. ASSUME NEW c \in Client, Enter(c) PROVE FileIsProject'
  BY <1>9 DEF Enter, Leave, Goto, Done, studio, process, request
<1>10. ASSUME NEW c \in Client, Write(c) PROVE FileIsProject'
  BY <1>10 DEF Write, Goto, studio, process, request
<1>11. ASSUME NEW c \in Client, WriteBroken(c) PROVE FileIsProject'
  BY <1>11 DEF WriteBroken, Kill, Exit, Leave, Goto, Done, studio, process, request
<1>12. ASSUME NEW c \in Client, Receive(c) PROVE FileIsProject'
  BY <1>12 DEF Receive, Leave, Goto, Done, studio, process, request
<1>13. ASSUME NEW c \in Client, Timeout(c) PROVE FileIsProject'
  BY <1>13 DEF Timeout, Kill, Exit, Leave, Goto, Done, studio, process, request
<1>14. ASSUME NEW c \in Client, Report(c) PROVE FileIsProject'
  BY <1>14 DEF Report, Done, studio, process, request
<1>15. ASSUME NEW w \in work, Compiled(w) PROVE FileIsProject'
  BY <1>15 DEF Compiled, process, request
<1>16. ASSUME NEW w \in work, CompileFailed(w) PROVE FileIsProject'
  BY <1>16 DEF CompileFailed, process, request
<1>17. ASSUME NEW w \in work, BuildDone(w) PROVE FileIsProject'
  BY <1>17 DEF BuildDone, process, request
<1>18. CASE Read
  BY <1>18 DEF Read, studio, request
<1>19. CASE ReadStale
  BY <1>19 DEF ReadStale, studio, request
<1>20. CASE Serve
  BY <1>20 DEF Serve, studio, request
<1>21. CASE Die
  BY <1>21 DEF Die, Exit, studio, request
<1>22. CASE Restart
  BY <1>22 DEF Restart
<1>23. CASE UNCHANGED vars
  BY <1>23 DEF vars, studio, process, request
<1> QED
  BY <1>1, <1>2, <1>3, <1>4, <1>5, <1>6, <1>7, <1>8, <1>9, <1>10, <1>11, <1>12, <1>13, <1>14, <1>15, <1>16, <1>17, <1>18, <1>19, <1>20, <1>21, <1>22, <1>23 DEF Next, Handle, Work
-----------------------------------------------------------------------------
LEMMA InitIInv == Init => IInv
<1> SUFFICES ASSUME Init PROVE IInv
  OBVIOUS
<1> USE StudioAssumption DEF Init
<1>1. StudioTypes
  BY DEF StudioTypes
<1>2. ProcessTypes
  BY EmptySeq DEF ProcessTypes
<1>3. RequestTypes
  BY DEF RequestTypes, Place
<1>4. RuntimeLock /\ StudioLock
  BY DEF RuntimeLock, StudioLock
<1>5. Pipes /\ SeenByLoad
  BY DEF Pipes, SeenByLoad
<1>6. ResultIsOfSource /\ LoadIsCurrent /\ FileIsProject
  BY DEF ResultIsOfSource, LoadIsCurrent, FileIsProject
<1> QED
  BY <1>1, <1>2, <1>3, <1>4, <1>5, <1>6 DEF IInv, TypeOK

LEMMA NextIInv == IInv /\ [Next]_vars => IInv'
<1> SUFFICES ASSUME IInv, [Next]_vars PROVE IInv'
  OBVIOUS
<1>1. TypeOK'
  BY StudioTypesStep, ProcessTypesStep, RequestTypesStep DEF IInv, TypeOK
<1> QED
  BY <1>1, RuntimeLockStep, StudioLockStep, PipesStep, SeenStep, ResultStep,
     LoadStep, FileStep DEF IInv

LEMMA SpecIInv == Spec => []IInv
  BY InitIInv, NextIInv, PTL DEF Spec
-----------------------------------------------------------------------------
(* The theorems.                                                            *)

\* The conversation with the runtime never gets out of step: command() in
\* RuntimeProcess takes a reply for the answer to what it has just written, and
\* that is right however many commands timed out or processes ended before.
THEOREM ConversationInStep == Spec => []InStep
<1>1. IInv => InStep
  <2> SUFFICES ASSUME IInv, alive, \A c \in Client : pc[c] # "wait"
               PROVE  inbox = <<>> /\ lines = <<>> /\ responses = <<>>
    BY DEF InStep
  <2>1. Len(inbox) + Len(lines) + Len(responses) = 0
    BY DEF IInv, Pipes
  <2>2. inbox \in Seq(Command) /\ lines \in Seq(Line) /\ responses \in Seq(Line)
    BY DEF IInv, TypeOK, ProcessTypes
  <2>3. Len(inbox) \in Nat /\ Len(lines) \in Nat /\ Len(responses) \in Nat
    BY <2>2, LenProperties
  <2>4. Len(inbox) = 0 /\ Len(lines) = 0 /\ Len(responses) = 0
    BY <2>1, <2>3
  <2> QED
    BY <2>2, <2>4, EmptySeq
<1> QED
  BY <1>1, SpecIInv, PTL

\* The source that Studio.build() notes is the one its result was compiled from,
\* however many saves fall into the time of the build.
THEOREM ResultMatchesSource == Spec => []ResultIsOfSource
<1>1. IInv => ResultIsOfSource
  BY DEF IInv
<1> QED
  BY <1>1, SpecIInv, PTL

\* What Studio.action() sends to the runtime was compiled from a project that was
\* the current one while the request to load was under way, although it is sent
\* after Studio.lock was released.
THEOREM LoadsAreCurrent == Spec => []LoadIsCurrent
<1>1. IInv => LoadIsCurrent
  BY DEF IInv
<1> QED
  BY <1>1, SpecIInv, PTL

\* Studio.save() leaves in the file what it leaves in memory, whoever else saves
\* and wherever the server crashes, unless a write fails.
THEOREM SavesAreWhole == Spec => []FileIsProject
<1>1. IInv => FileIsProject
  BY DEF IInv
<1> QED
  BY <1>1, SpecIInv, PTL
=============================================================================
