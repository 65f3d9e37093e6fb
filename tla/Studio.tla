------------------------------- MODULE Studio -------------------------------
(***************************************************************************)
(* The engineering server src/tools/plc_studio.py: HTTP handler threads     *)
(* that save, build, load, control and report, the thread of a build, and   *)
(* the runtime process behind two pipes with the thread that reads its      *)
(* standard output.                                                         *)
(*                                                                          *)
(* A region under Studio.lock is one step, except in save(), where a crash  *)
(* may fall between the statements; RuntimeProcess.lock is held while       *)
(* command() waits.  The runtime process is external: it answers each       *)
(* command with one line, late or never, or ends.  Native blocks that write *)
(* to standard output, which the manual forbids, are left out.              *)
(***************************************************************************)
EXTENDS Naturals, Sequences

CONSTANTS
  Client,   \* the requests that can be under way at a time
  Content,  \* valid projects
  Command,  \* commands in use, CONTROL standing for RUN, STOP, STEP, RESET and SET
  None

ASSUME StudioAssumption ==
  /\ None \notin Content
  /\ None \notin Client
  /\ Command \subseteq {"LOAD", "CONTROL", "STATUS"}
  /\ None \notin {"LOAD", "CONTROL", "STATUS"}

VARIABLES
  (* Studio *)
  slock,        \* the holder of Studio.lock
  project,      \* Studio.project
  file, temp,   \* the project's file and the file that will replace it
  result,       \* the project that Studio.result was compiled from, or None
  built_source, \* Studio.built_source
  busy,         \* Studio.busy
  work,         \* the threads of builds: their projects and what they do next
  (* RuntimeProcess *)
  rlock,        \* the holder of RuntimeProcess.lock
  alive,        \* process.poll() is None
  last_fault,   \* whether last_fault is set
  inbox,        \* commands that the process has not taken
  lines,        \* lines of the process that its reader has not taken
  stale,        \* such lines of processes before it
  responses,    \* RuntimeProcess.responses
  (* Requests *)
  pc, cmd, arg, \* where a handler is, its command, its project or module
  (* History *)
  seen,         \* the projects that were Studio's during a request to load
  unsaved       \* whether the last save failed

studio == <<slock, project, file, temp, result, built_source, busy, work>>
process == <<rlock, alive, last_fault, inbox, lines, stale, responses>>
request == <<pc, cmd, arg, seen>>
vars == <<studio, process, request, unsaved>>

Goto(c, there) == pc' = [pc EXCEPT ![c] = there] /\ UNCHANGED <<cmd, arg>>

\* The handler of c returns.
Done(c) ==
  /\ pc' = [pc EXCEPT ![c] = "idle"]
  /\ cmd' = [cmd EXCEPT ![c] = None]
  /\ arg' = [arg EXCEPT ![c] = None]
  /\ seen' = [seen EXCEPT ![c] = {}]

\* command() returns; status() goes on to read what Studio knows.
Leave(c) ==
  IF cmd[c] = "STATUS" THEN Goto(c, "report") /\ UNCHANGED seen ELSE Done(c)
-----------------------------------------------------------------------------
\* A browser sends a request: a project that prepare() accepts, a build, a load,
\* RUN, STOP, STEP, RESET or SET, or a poll of the state.
Request(c) ==
  /\ pc[c] = "idle"
  /\ \/ \E p \in Content : /\ pc' = [pc EXCEPT ![c] = "save"]
                           /\ arg' = [arg EXCEPT ![c] = p] /\ UNCHANGED cmd
     \/ pc' = [pc EXCEPT ![c] = "build"] /\ UNCHANGED <<cmd, arg>>
     \/ \E k \in Command : /\ pc' = [pc EXCEPT ![c] = IF k = "LOAD" THEN "check" ELSE "enter"]
                           /\ cmd' = [cmd EXCEPT ![c] = k] /\ UNCHANGED arg
  /\ seen' = [seen EXCEPT ![c] = IF cmd'[c] = "LOAD" THEN {project} ELSE {}]
  /\ UNCHANGED <<studio, process, unsaved>>

\* Mutant: saves do not lock each other out.
SaveMemoryUnlocked(c) ==
  /\ pc[c] = "save"
  /\ project' = arg[c]
  /\ seen' = [d \in Client |-> IF cmd[d] = "LOAD" THEN seen[d] \cup {arg[c]} ELSE {}]
  /\ Goto(c, "temp")
  /\ UNCHANGED <<slock, file, temp, result, built_source, busy, work, process, unsaved>>

\* save() takes the lock and sets Studio.project,
SaveMemory(c) ==
  /\ pc[c] = "save" /\ slock = None
  /\ slock' = c
  /\ project' = arg[c]
  /\ seen' = [d \in Client |-> IF cmd[d] = "LOAD" THEN seen[d] \cup {arg[c]} ELSE {}]
  /\ Goto(c, "temp")
  /\ UNCHANGED <<file, temp, result, built_source, busy, work, process, unsaved>>

\* writes the temporary file,
SaveTemp(c) ==
  /\ pc[c] = "temp"
  /\ temp' = arg[c]
  /\ Goto(c, "replace")
  /\ UNCHANGED <<slock, project, file, result, built_source, busy, work, process, seen, unsaved>>

\* and replaces the project's file by it.
SaveReplace(c) ==
  /\ pc[c] = "replace"
  /\ file' = (IF temp = None THEN file ELSE temp) /\ temp' = None
  /\ slock' = None /\ unsaved' = FALSE
  /\ Done(c)
  /\ UNCHANGED <<project, result, built_source, busy, work, process>>

\* The disk refuses one of the two: the exception leaves the region.
SaveFail(c) ==
  /\ pc[c] \in {"temp", "replace"}
  /\ slock' = None /\ unsaved' = TRUE
  /\ Done(c)
  /\ UNCHANGED <<project, file, temp, result, built_source, busy, work, process>>

\* build() starts a thread with a copy of the project, or refuses.
Build(c) ==
  /\ pc[c] = "build" /\ slock = None
  /\ IF busy THEN UNCHANGED <<busy, result, work>>
             ELSE /\ busy' = TRUE /\ result' = None
                  /\ work' = work \cup {[project |-> project, pc |-> "compile"]}
  /\ Done(c)
  /\ UNCHANGED <<slock, project, file, temp, built_source, process, unsaved>>

\* Mutant: the source is taken from Studio, not from the copy that was compiled.
CompiledFromStudio(w) ==
  /\ w.pc = "compile" /\ slock = None
  /\ result' = w.project /\ built_source' = project
  /\ work' = (work \ {w}) \cup {[w EXCEPT !.pc = "finally"]}
  /\ UNCHANGED <<slock, project, file, temp, busy, process, request, unsaved>>

\* compile_project() has succeeded,
Compiled(w) ==
  /\ w.pc = "compile" /\ slock = None
  /\ result' = w.project /\ built_source' = w.project
  /\ work' = (work \ {w}) \cup {[w EXCEPT !.pc = "finally"]}
  /\ UNCHANGED <<slock, project, file, temp, busy, process, request, unsaved>>

\* Mutant: an exception ends the thread before the end of the build is noted.
CompileFailedSilently(w) ==
  /\ w.pc = "compile" /\ slock = None
  /\ work' = work \ {w}
  /\ UNCHANGED <<slock, project, file, temp, result, built_source, busy, process, request, unsaved>>

\* or it has failed,
CompileFailed(w) ==
  /\ w.pc = "compile" /\ slock = None
  /\ work' = (work \ {w}) \cup {[w EXCEPT !.pc = "finally"]}
  /\ UNCHANGED <<slock, project, file, temp, result, built_source, busy, process, request, unsaved>>

\* and the thread ends.
BuildDone(w) ==
  /\ w.pc = "finally" /\ slock = None
  /\ busy' = FALSE
  /\ work' = work \ {w}
  /\ UNCHANGED <<slock, project, file, temp, result, built_source, process, request, unsaved>>
-----------------------------------------------------------------------------
\* Mutant: any build that has succeeded will do.
LoadableAny == result # None /\ ~busy
Loadable == result # None /\ ~busy /\ built_source = project

\* The checks of `load'; what passes them is loaded after the lock is released.
LoadCheck(c) ==
  /\ pc[c] = "check" /\ slock = None
  /\ IF Loadable
     THEN /\ pc' = [pc EXCEPT ![c] = "ensure"]
          /\ arg' = [arg EXCEPT ![c] = result] /\ UNCHANGED <<cmd, seen>>
     ELSE Done(c)
  /\ UNCHANGED <<studio, process, unsaved>>

\* ensure(): a process that has ended is replaced, and so is the queue, which the
\* reader of the old process goes on to fill.
Ensure(c) ==
  /\ pc[c] = "ensure" /\ rlock = None
  /\ IF alive THEN UNCHANGED <<alive, last_fault, lines, stale, responses>>
     ELSE /\ alive' = TRUE /\ last_fault' = FALSE
          /\ stale' = stale \cup {lines[i] : i \in 1..Len(lines)}
          /\ lines' = <<>> /\ responses' = <<>>
  /\ Goto(c, "enter")
  /\ UNCHANGED <<studio, rlock, inbox, seen, unsaved>>

\* command() finds the process ended, or goes on with the lock.
Enter(c) ==
  /\ pc[c] = "enter" /\ rlock = None
  /\ IF alive THEN rlock' = c /\ Goto(c, "write") /\ UNCHANGED seen
              ELSE UNCHANGED rlock /\ Leave(c)
  /\ UNCHANGED <<studio, alive, last_fault, inbox, lines, stale, responses, unsaved>>

\* The process ends, killed or by itself: its reader will say so.
Exit ==
  /\ alive' = FALSE /\ inbox' = <<>>
  /\ lines' = IF alive THEN Append(lines, "exited") ELSE lines

Kill(c) ==
  /\ Exit
  /\ last_fault' = TRUE /\ rlock' = None
  /\ Leave(c)
  /\ UNCHANGED <<studio, stale, responses, unsaved>>

\* The command is written, or the pipe is found broken.
Write(c) ==
  /\ pc[c] = "write" /\ alive
  /\ inbox' = Append(inbox, cmd[c])
  /\ Goto(c, "wait")
  /\ UNCHANGED <<studio, rlock, alive, last_fault, lines, stale, responses, seen, unsaved>>

WriteBroken(c) == pc[c] = "write" /\ ~alive /\ Kill(c)

\* A reply, good or bad, or the news that the process has ended.
Receive(c) ==
  /\ pc[c] = "wait" /\ responses # <<>>
  /\ responses' = Tail(responses)
  /\ rlock' = None
  /\ Leave(c)
  /\ UNCHANGED <<studio, alive, last_fault, inbox, lines, stale, unsaved>>

\* Mutant: a timeout is not noticed.
TimeoutNever(c) == FALSE

\* No reply in time: the process is killed.
Timeout(c) == pc[c] = "wait" /\ responses = <<>> /\ Kill(c)

\* status() returns.
Report(c) ==
  /\ pc[c] = "report" /\ slock = None
  /\ Done(c)
  /\ UNCHANGED <<studio, process, unsaved>>
-----------------------------------------------------------------------------
\* The reader of the process, and the readers of its predecessors, whose queues
\* nobody reads any more.
Read ==
  /\ lines # <<>>
  /\ responses' = Append(responses, Head(lines)) /\ lines' = Tail(lines)
  /\ UNCHANGED <<studio, rlock, alive, last_fault, inbox, stale, request, unsaved>>

\* Mutant: the readers share whatever queue is current.
ReadStaleShared ==
  \E l \in stale :
    /\ stale' = stale \ {l} /\ responses' = Append(responses, l)
    /\ UNCHANGED <<studio, rlock, alive, last_fault, inbox, lines, request, unsaved>>

ReadStale ==
  \E l \in stale :
    /\ stale' = stale \ {l}
    /\ UNCHANGED <<studio, rlock, alive, last_fault, inbox, lines, responses, request, unsaved>>

\* The process takes a command and answers it.
Serve ==
  /\ alive /\ inbox # <<>>
  /\ lines' = Append(lines, Head(inbox)) /\ inbox' = Tail(inbox)
  /\ UNCHANGED <<studio, rlock, alive, last_fault, stale, responses, request, unsaved>>

\* The process crashes.
Die ==
  /\ alive /\ Exit
  /\ UNCHANGED <<studio, rlock, last_fault, stale, responses, request, unsaved>>

\* The server is shut down or crashes, its runtime ends with it, and it is
\* started again.
Restart ==
  /\ project' = file /\ slock' = None
  /\ result' = None /\ built_source' = None /\ busy' = FALSE /\ work' = {}
  /\ rlock' = None /\ alive' = FALSE /\ last_fault' = FALSE
  /\ inbox' = <<>> /\ lines' = <<>> /\ stale' = {} /\ responses' = <<>>
  /\ pc' = [c \in Client |-> "idle"]
  /\ cmd' = [c \in Client |-> None] /\ arg' = [c \in Client |-> None]
  /\ seen' = [c \in Client |-> {}] /\ unsaved' = FALSE
  /\ UNCHANGED <<file, temp>>

Init ==
  /\ file \in Content /\ project = file /\ temp = None /\ slock = None
  /\ result = None /\ built_source = None /\ busy = FALSE /\ work = {}
  /\ rlock = None /\ alive = FALSE /\ last_fault = FALSE
  /\ inbox = <<>> /\ lines = <<>> /\ stale = {} /\ responses = <<>>
  /\ pc = [c \in Client |-> "idle"]
  /\ cmd = [c \in Client |-> None] /\ arg = [c \in Client |-> None]
  /\ seen = [c \in Client |-> {}] /\ unsaved = FALSE

\* A handler thread goes on.
Handle(c) ==
  \/ SaveMemory(c) \/ SaveTemp(c) \/ SaveReplace(c) \/ SaveFail(c)
  \/ Build(c) \/ LoadCheck(c) \/ Ensure(c)
  \/ Enter(c) \/ Write(c) \/ WriteBroken(c) \/ Receive(c) \/ Timeout(c) \/ Report(c)

\* The thread of a build goes on.
Work == \E w \in work : Compiled(w) \/ CompileFailed(w) \/ BuildDone(w)

Next ==
  \/ \E c \in Client : Request(c) \/ Handle(c)
  \/ Work
  \/ Read \/ ReadStale \/ Serve \/ Die \/ Restart

Spec == Init /\ [][Next]_vars

\* Threads that can go on do, and a thread that finds a lock free again and again
\* gets it.  A compiler ends (it is killed after 180 s); nothing is assumed of
\* the runtime process or of the browser.
FairSpec == Spec /\ SF_vars(Work) /\ \A c \in Client : SF_vars(Handle(c))
-----------------------------------------------------------------------------
(* Properties.                                                              *)

\* The conversation with the runtime never gets out of step: when no command is
\* under way, no reply is either, so the next reply will answer the next command,
\* whatever timed out, was killed or was started anew before.
InStep ==
  alive /\ (\A c \in Client : pc[c] # "wait") =>
    inbox = <<>> /\ lines = <<>> /\ responses = <<>>

\* The module that would be loaded was compiled from the project it is compared by.
ResultIsOfSource == result # None => result = built_source

\* Every module sent to the runtime was compiled from a project that was Studio's
\* at some time since the request to load it came in: never from an older one.
LoadIsCurrent ==
  \A c \in Client :
    cmd[c] = "LOAD" /\ pc[c] \in {"ensure", "enter", "write", "wait"} => arg[c] \in seen[c]

\* Unless a write failed, the file holds the project whenever no save is under way:
\* saves in any number and order leave neither mixed.
FileIsProject ==
  (\A c \in Client : pc[c] \notin {"temp", "replace"}) /\ ~unsaved => file = project

\* Every request is answered, whatever the runtime process does.
RequestsEnd == \A c \in Client : pc[c] # "idle" ~> pc[c] = "idle"

\* A build ends, and the next can begin.
BuildEnds == busy ~> ~busy
=============================================================================
