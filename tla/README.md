# A verification development of SOFT-PLC

SOFT-PLC is a software PLC in C++ and Python. It comes in two forms:

* **Runner**: `plc_runner` loads a Structured Text (ST) program, interprets it in a
  cyclic scan engine, and exchanges inputs and outputs with Modbus devices.
* **Studio**: a local web server keeps a project, compiles it to native code
  (`plc_codegen`, `plc_build.py`), and drives a separate process, `plc_runtime`, that
  executes the compiled organisation blocks (OBs) with priorities and watchdogs.

This directory holds TLA+ models of the parts whose correctness depends on order, time
and failure, TLC configurations that check them, and theorems about them that the TLA+
proof system checks. Paths below are relative to the repository.

## 1. Inventory

| Part | State | Operations | Talks to |
|---|---|---|---|
| **Program runtime** `apps/plc_runtime/main.cpp` | mode (EMPTY, STOP, RUN, FAULT), error, cancel flag, startupPending; per OB its next and last release, active flag, missed count; tag memory with output images; the stack of executing OBs | LOAD RUN STOP RESET STEP SET STATUS QUIT; tick, step, serviceDue, dispatch, checkpoint, fault, protect | stdin and stdout to the Studio; calls run_ob of the program module, which calls checkpoint() back |
| **Code generator, program build** `apps/plc_codegen/main.cpp`, `tools/plc_build.py` | none at run time | check types; turn bound frames into C++; place checkpoints before networks, in frames, in WHILE loops and around native blocks; generate the entry points run_ob | binder (frames); are called by Studio's build; the code runs in the runtime |
| **Modbus drivers** `src/io/modbus_{tcp,rtu}_driver.cpp` | per device: cache of values with valid and dirty marks, last write time, diagnostics with the connected flag; one poller thread per TCP device or RTU bus | start, stop, readInputs, writeOutputs, pollOnce, diagnostics | scan thread (caches, under a mutex), Modbus clients (requests) |
| **Modbus clients and bus** `src/io/modbus_client.cpp`, `modbus_rtu_bus.cpp` | connection, one request at a time | connect, read, write, close on failure | nanoMODBUS (external), which calls back for bytes; sockets and serial ports |
| **Modbus mapping** `src/io/modbus_mapping.cpp` | none | validate, group, build batches, encode, decode | both drivers |
| **Scan engine** `src/core/scan_engine.cpp` | scan thread, schedule, start of the last scan, handshake of start() | start, stop, run, runOnce | I/O driver, ST program, tag System.CycleTime |
| **Standard function blocks** `include/softplc/st/standard_fbs.hpp` | per instance | TON TOF CTU CTD, a library in Structured Text | read System.CycleTime; parsed and bound with every program |
| **Lexer, parser** `src/st/lexer.cpp`, `parser.cpp` | the place in the text | source to tokens to tree | binder |
| **POU binder** `src/st/pou_binder.cpp` | the context of a binding: scopes, blocks under expansion, frames | resolve names, expand blocks into frames, refuse cycles | tag store (declares tags) |
| **Interpreter** `src/st/interpreter.cpp`, `value_ops.hpp` | only the tags | evaluate, execute statements, calls and rungs | tag store; compiled programs share its operators |
| **Tag store** `src/tags/tag_store.cpp` | tags under a shared mutex | declare, find, read, write, snapshot | everything |
| **Studio server** `tools/plc_studio.py` | project and its file, build result and its source, busy flag, two locks; runtime process with its pipes, reader thread and queue | save, build, load, control, status | browser (HTTP threads), compiler, runtime process |
| **Project front end** `tools/plc_project.py` | none | validate a project, translate ladder networks | Studio, build |
| **Sockets and serial ports** `src/net/*` | a handle, bytes in the kernel | connect, send and receive with deadlines | Modbus clients, operating system |
| **Others** | | simulated driver, real-time policy, runner's main, browser UI, packaging | |

What is hard about each, and what makes it correct:

* **Program runtime**: two threads and one mutex, but also re-entrance: every checkpoint
  of a running OB may dispatch others, at any depth, while STOP arrives from the other
  thread through one atomic flag. Correct means: outputs are zero whenever nothing runs
  and the mode is not RUN; OBs nest by priority; no OB starts once STOP has been read;
  faults are latched; each OB sees its own cycle time; every release is executed or
  counted as missed; startup OBs come first and once; STOP and QUIT always get through.
* **Modbus drivers**: the pollers, the scan and start/stop interleave between short
  critical sections; requests fail, time out after they took effect, or arrive later;
  devices restart; on a serial line a late reply meets a later request, and a poller may hang
  in a receive that has lost its timeout. Correct means: the program sees replies whole and
  in order, the device sees program images whole, nothing is lost for good, the health tag
  tells the truth.
* **Mapping**: limits of a request, the end of the 16-bit address space, values of two
  registers in two word orders.
* **Scan engine**: a fixed schedule under overruns; timers fed with measured time.
* **Studio**: handler threads, a build thread, a reader thread, a process that may hang or
  die at any moment. Correct means: a reply is taken for the command it answers, what is
  loaded was compiled from the current project, requests end, the file holds the project.
* **Structured Text**: sequential, but a long chain: a word lost in the text, a name that
  means something else in a block, copies of one body over one flat store of tags, two
  engines that must agree, errors in the middle of a scan, numbers at the edge of a type.
  Correct means: what is accepted is what was written; a bound program is closed and its
  calls end; both engines compute what the source means; a compiled program can be stopped.
* **Transport**: bytes trickle in, replies come late, deadlines are cut to milliseconds, a
  failure leaves half a message behind. Correct means: a reply is not taken for the answer
  to another request, and a call comes back by its deadline. The code keeps the first on TCP
  and, on a serial line, between units; it does not keep the second.

`PROJECT.json` lists every component with its status, and every hazard at its line.

## 2. Modules

| Module | What it is |
|---|---|
| `Runtime` | the program runtime with the program it executes |
| `RuntimeHistory` | `Runtime` with history variables for release accounting and startup |
| `ObExecution` | what the runtime promises: modes, nesting, outputs; no threads, no clock |
| `RuntimeProofs` | 12 theorems about `Runtime`, one of them that it implements `ObExecution` |
| `RuntimeHistoryProofs` | 2 theorems about `RuntimeHistory` |
| `ModbusIo` | both drivers, their clients, and the devices |
| `DelayedCopy` | what an input tag promises: a delayed copy of its register |
| `ModbusIoProofs` | 6 theorems about `ModbusIo`, one of them that it implements `DelayedCopy` |
| `ModbusMapping` | validation, batches, encoding and decoding |
| `ModbusMappingProofs` | 3 theorems about `ModbusMapping` |
| `Studio` | the Studio server and its runtime process |
| `StudioProofs` | 4 theorems about `Studio` |
| `Scan` | the scan engine with a TON or TOF |
| `ScanProofs` | 4 theorems about `Scan` |
| `Transport` | one Modbus connection: client or bus over a socket or a serial port |
| `TransportProofs` | 2 theorems about `Transport` |
| `StValues` | values of Structured Text and their operators |
| `StParser` | tokens and the grammar |
| `StBinder` | names to tags, blocks to frames |
| `StLibrary` | TON, TOF, CTU and CTD, as the words of their text |
| `StExpressions` | one node of an expression and one assignment: their values, their types, and what they promise |
| `StExpressionProofs` | 4 theorems about `StExpressions` and `StValues` |
| `StProgram` | load and scan: the interpreter, the generator's type check, the generated program |
| `StReference` | what a loaded source means, without tags and frames |
| `StExecution` | the properties of a loaded program |
| `MCRuntime`, `MCRuntimeHistory`, `MCModbusIo`, `MCModbusMapping`, `MCStudio`, `MCTransport`, `MCStExecution` | values of the constants for TLC |

Properties stand at the end of each module. A definition marked "Mutant" is a plausible
mistake in the definition after it; it is used by no specification, and with it in place
of the original TLC finds the property violated that `PROJECT.json` names beside it.

### Runtime

One step is what happens between two points at which the other thread can see a
difference, so the code under the mutex is cut where program code runs, where `cancel` is
read, and where the clock is read. `holder` is the owner of the mutex, `phase` the loop
of tick() or step() it is in, `stack` the OBs under execution with their checkpoint
positions, and `due` the lists that serviceDue() computed, one per level: they are kept,
because dispatching from an old list is the point.

| Code | Actions |
|---|---|
| tick(): startup loop, serviceDue() | `TickStartup`, `StartupEnd`, `TickService`, `TickEnd` |
| serviceDue(): the filter and order of the due OBs | `Due`, `Before`, `Queue` |
| dispatch(): entry, release accounting, exit, watchdog | `Dispatch`, `Released`, `Skips`, `NextRelease`, `Leave`, `Restored` |
| checkpoint(): cancel, watchdog, nested service | `CheckCancelled`, `CheckWatchdog`, `CheckOnTime`, `CheckServe`, `CheckPass`, `ServeEnd` |
| the generated program | `RunNetwork`, `LoopAgain`, `RaiseError`, `InNative` |
| command loop | `ReadLine`, `EndOfInput`, and `Load` ... `Quit` when the mutex is free |

A program is abstracted to its networks; each may write outputs, be native (and then go on
after a refused checkpoint, and return an error or not), contain a WHILE loop, or fail.
Tag values other than the outputs, `System.CycleTime` and the dispatch tag, and all
trace and message formats are left out. Task tables are constants; the assumptions on them
are what `plc_project.py` validates.

### ModbusIo

A critical section of `cacheMutex` or `diagMutex` is one step. A poller visits its batches
in order: `PassBegin`, then per batch `ReadExchange`/`StoreRead` or
`Snapshot`/`WriteExchange`/`StoreWrite`, with `Record` for the diagnostics, and
`PollerExit`. The scan thread goes `ScanInputs`, `ScanHealth` per device, `ScanProgram`,
`ScanOutputs`. `Start`, `Stop` and `Join` are the third thread. The field
(`PlantChange`, `DeviceChange`, `Reboot`, `LateArrival`) may do anything at any time:
change inputs, fall silent, refuse, restart with zeroed outputs, execute a request whose
reply was lost, or execute it later than the next ones. `Serial` says which buses are serial
lines; the others are TCP connections with one device each.

A request (`Exchange`) ends in one of three ways: it is answered (`Answered`), nothing comes
in time (`TimedOut`), or an earlier reply comes first (`Overtaken`). `owed` holds the replies
of a serial device that nobody waits for any more, in their order; the port is flushed when it
is opened, but a reply that is still on its way arrives after that (`Discarded` is one that
does not). nanoMODBUS compares the unit, the function and the size of a reply, of a write also
the address (`Takes`): a late reply of the same form is taken for the answer, and its values
go to the points of the new batch by their places (`Taken`); any other reply fails the request.
On TCP replies carry the number of their request and nothing is owed.

`Hold` is a poller in `recv` without a timeout: a part of the answer came, and the next
receive began in the last millisecond of its deadline (`Transport` has the steps of it). It
goes on when the rest comes after all or the connection breaks (`Resume`), which nothing
forces to happen.
`RefreshDue` is the passing of the refresh interval: real time is reduced to whether the
last write is recent.

### ModbusMapping

One step per point: `Reject`/`Accept` (validatePoints), `Open`, `Extend`, `Flush`, `Built`
(buildBatches), `Encode`, `NextPoint`, `Decode`. All arithmetic is in `Space`, `Word` and
`Byte` with the wrap-around that the code's uint16_t has.

### Studio

A region under `Studio.lock` is one step, except in save(), where a crash may fall between
its statements (`SaveMemory`, `SaveTemp`, `SaveReplace`, `SaveFail`, `Restart`). A command
to the runtime is `Ensure`, `Enter` (the lock), `Write`, and `Receive`, `Timeout` or
`WriteBroken`, the last two with `Kill`. The reader threads are `Read` and, for a process
that is gone but whose pipe is not yet empty, `ReadStale`. The runtime process is external:
`Serve`, `Die`.

### Scan

`Start`, `Started`, `Stop`, `Joined` are the owner; `Apply`, `Enter`, `Loop`, `Execute`,
`Ahead`, `Behind`, `Resync`, `Wake` the scan thread; `Tick` lets time pass between any two
of them, so scans and sleeps have any length. Execute contains the published cycle time
(cut to milliseconds, as in the code) and the body of TON or TOF. `from` is where a timer's
measurement starts at the earliest: the scan before the one in which its input was seen.

### Transport

One step is a call of the operating system or the code between two of them; time passes,
in ticks shorter than a millisecond, only while the process waits in the kernel. A request
is what a driver asks of a client, and what `ModbusIo` has as one step.

| Code | Actions |
|---|---|
| ensureConnected(), TcpSocket::connect(): one address after the other | `Request`, `ConnectWaits`, `ConnectSucceeds`, `ConnectFails`, `ConnectGivesUp` |
| ensureOpen(), SerialPort::open() | `OpenPort`, `OpenFails` |
| nmbs_client_create() and its failure | `Create`, `CreateFails` |
| recvSome(), sendSome(): the loops around recv, send, select | `SendMore`, `SendData`, `RecvMore`, `RecvData`, `CallFails` |
| setRecvTimeout(), setSendTimeout(): what is left, in whole milliseconds | `LimitOf` |
| translateModbusError(): close after every failure of the transport | `Fail`, `Disconnected` |

A byte is the number of the request it answers; what nanoMODBUS accepts (`Answers`: the
transaction on TCP, unit and checksum on a serial line; `ModbusIo` has the function and the size too) and what the unit sends (`Arrive`)
are external. A unit may answer at any time, in pieces, or never; a serial unit also after
its port was closed and opened again. The POSIX side is modelled; the Windows side has the
same loops.

### Structured Text

The modules follow a source on its way. The text is a sequence of words: a word is a
keyword, symbol, name, address or literal, and spelling is left out. `StParser` has one
operator per rule of the grammar, each from a place in the text to a tree and the place
after it; the levels of precedence are one operator with a level. `StBinder` passes
`BinderContext` along: tags are places in the tag store, frames places in the program. A
frame is added after everything it calls. `StProgram` has the actions `Edit` (the author
slips: a word is deleted, repeated or moved), `Load` (parse, add the library, bind, check
types) and `Scan` (inputs and cycle time are written, then both engines run the same bound
program). The engines differ as in the code: when a frame resets itself, when inputs of a
call are evaluated, and where a loop counts. What happens at one node of an expression, to
its value and to its type, and what an assignment writes, is in `StExpressions`, without
recursion, so that it can be proved about; `Evaluate` and `StaticType` of `StProgram` apply
it along a tree. `StValues` computes as the code does: the operator on two doubles, rounded
to a double (`Rounded`, to the nearest, a half to even), then the check of the range and the
cast to the wider type of the operands, then the same again for the target, with one more
rounding if that is a REAL. A format is `Significand`, `Finest` (how fine its steps are) and
`Spacings` (the powers of two between neighbours, the finest for the subnormal numbers);
a number is a fraction in lowest terms. A STRING is its rank in the order of strings. C++ leaves the order of two operands in generated code open; it shows only in
which of two errors is reported, and the model takes the left one, as the interpreter does.

`StReference` is the abstract specification: variables per path of instances, a block's
body run at its place, no copies. `StExecution` maps both engines to it (`Interpreted`,
`Compiled`: `INSTANCE StReference WITH env <- ..., error <- ...`). Two things are left open
there: variables after a scan that ended in an error, and programs that pass a block its
own members as arguments, where the engines disagree.

## 3. What is checked

| Run | Shows | Bounds |
|---|---|---|
| `runtime_modes` | 10 safety properties of the runtime under all commands, `Runtime` => `ObExecution`, and that STOP, QUIT and end of input get through | OB1 (native, may fail), a more urgent cyclic OB and a startup OB with endless loops, one network each; clock to 6 |
| `runtime_dispatch_tag` | finding 1 | two OBs |
| `modbus_inputs` | inputs that no like batch can be confused with follow their registers in order; a reply is seen whole | a unit on a serial line with two like batches and an unlike one, four points, one late reply at a time |
| `modbus_live` | registers hold whole images of the program; delivery, health, stop() ends, unless a poller is held for ever | TCP device, an input and a batch of two outputs, delayed requests, receives without a timeout |
| `modbus_undeclared` | finding 2 | |
| `modbus_mapping` | batches tile the points within the limit, nothing throws, values survive | up to 3 points in 8 registers, limit 4, registers of 2 bits |
| `studio` | replies answer their commands; what is loaded is current; file and project agree | two requests at a time, two projects |
| `studio_live` | requests and builds end | two requests, one project |
| `scan` | schedule, no bursts, no timer ahead of the clock | clock to 12, cycle of 3 units of half a millisecond |
| `program` | what is accepted was written; bound programs are closed, typed, compute right numbers, can be stopped; both engines implement the reference | about 3600 programs and 390 slips in one of them, two scans with all inputs; whole types of 3 to 6 bits, REAL of 16 significands to 60, LREAL of 1024 to 1023; loop limit 3 |
| `transport` | on TCP nothing of an earlier request is left for the next; on a serial line no reply of another unit is accepted | TCP or serial, two units, two addresses, three requests of two bytes, replies of three bytes in two parts, timeout of 2 ms in half milliseconds |
| `tcp_deadline` | finding 3 | as `transport` |

Why these bounds are enough to show what goes wrong:

* The runtime's interesting cases need three roles (an interrupted OB, the OB on top, a
  startup OB) and a clock that passes a watchdog and several periods; the clock of 6 has
  every release missed at least once. OB1 is the one native OB, which may go on
  after a refusal and then ends, and the others may loop for ever: a native block that never
  asks to stop is left out, since nothing can stop it. The theorems cover any table, any number of
  networks and any clock.
* A torn image needs two points in one batch and two images; reordering needs one old
  request in flight. A late reply that is taken for another's needs two like batches; the
  batch of another form shows that what such replies do to it is no more than a failure.
  Several devices on one bus, and whole images in the registers of devices on serial lines,
  are left to the theorems, which hold for any number of both.
* The address space of 8 with limit 4 has the end of the space, batches that reach the
  limit exactly, and points of two registers that cross it. All configurations and all
  word orders within it are visited.
* Two handler threads meet in every pair of requests; two projects tell old from new.
  `studio_live` leaves CONTROL out, whose handler takes the same path as STATUS without
  the report, and uses one project, which liveness does not tell apart.
* In `scan` a cycle is not a whole number of milliseconds, so that truncation shows, and
  the clock lets three to four cycles, an overrun and a restart happen.
* The programs of `program` come in families: expressions of every two operators in both
  shapes over BOOL and INT; a function, a block and a block that contains and calls both,
  with every two of the function's statements, and every two of the block's with every two
  of the program's, so that names hide one another, instances nest and are shared, and
  variables are kept or start afresh; every operator on every two numeric types into a
  third, from starting values at and next to the edges; single programs with every other
  construct and standard block; and programs that must be refused. Two scans tell what is
  kept from what starts afresh. The widths are small so that overflow happens; no
  definition depends on them. REAL has a subnormal spacing, and sums and quotients that fall
  between its numbers or beyond its range; LREAL holds all numbers of REAL and of the whole
  types, as a double does.
* In `transport` and `tcp_deadline` three requests let a late reply meet the next request
  and the one after it; half milliseconds show the truncation, and two parts of a reply that
  each part has a deadline of its own.

Deadlock is checked everywhere but in `modbus_mapping` and `program`: an algorithm and a
bounded number of scans, which end. In `Runtime` the end of the process is a stutter step, `Terminated`.

### Fairness

* `Runtime!Fairness`, in `RuntimeHistory!FairHistorySpec`: weak fairness for program
  code, since a thread that holds the mutex runs; strong fairness for the command thread,
  which blocks on the mutex while the worker releases it after every tick and sleeps; weak
  fairness for the end of the worker. There is none for `Advance` (no timeout is needed for STOP to work) and none for the reading
  of commands.
* `ModbusIo!FairSpec`: pollers and scan run, stop() is not descheduled, the refresh interval
  passes. None for the field, and none for `Resume`: a request that waits with its timeout
  ends, one that waits without may never. What is promised under this fairness says so itself
  (`NotStuck`: the poller is again and again not held); a poller may be held, and released,
  any number of times on the way.
* `Studio!FairSpec`: strong fairness for handlers and builds, because they contend for
  locks that are free again and again; a compiler ends, since it is killed after 180 s;
  none for the runtime process, which may never answer, and none for the browser.

### Findings

1. `runtime_dispatch_tag`: an OB that is interrupted at its first checkpoint goes on with
   the body of the OB that interrupted it, since the dispatch tag is written before that
   checkpoint and read after it (`tools/plc_build.py:135`).
2. `modbus_undeclared`: if a program declares only some of the outputs of a register batch,
   the poller throws and the process ends (`src/io/modbus_tcp_driver.cpp:191`).
3. `tcp_deadline`: what is left of a deadline is cut to milliseconds before it becomes the
   timeout of `recv` (`src/net/tcp_socket.cpp:274`), and in the last millisecond that is 0,
   which means none: after a part of a reply a silent peer holds the call for ever, and with
   it the poller and `stop()`. The comment at lines 260-261 says that it returns when the
   overall timeout elapses.

Seen while modelling, without a run of their own:

* Two points that share the last register of the address space pass validation
  (`src/io/modbus_mapping.cpp:95`), which `include/softplc/io/modbus_mapping.hpp:65` excludes;
  the end of a range is a uint16_t and wraps to 0.
* A write may be as long as a read (`src/io/modbus_mapping.cpp:133`); Modbus allows 123
  registers and 1968 coils.
* Each address of a host and each part of a reply has the whole timeout.
* On a serial line a unit's late reply is taken for the answer to its next request of the same
  function and size; nothing in the frame tells them apart, and the flush at
  `src/net/serial_port.cpp:191` does not reach a reply that is still under way. Two read
  batches of one unit with the same number of registers then show each other's values, and a
  write may count as acknowledged that was not executed. Late replies of another form fail
  request after request as long as they keep coming, so that no liveness is claimed for serial
  lines.
* The limit of iterations holds for each WHILE, not for a scan as `docs/architecture.md:95`
  says, and the interpreter runs a body once more than generated code before it stops
  (`src/st/interpreter.cpp:96`).
* A whole literal outside its type wraps (`src/st/parser.cpp:259`).
* The engines differ where a call passes a block its own members
  (`src/st/interpreter.cpp:137`).
* CTU counts an input that stays high again after a reset
  (`include/softplc/st/standard_fbs.hpp:89`), and its counter overflows at the end of DINT,
  which stops the program.
* STOP during a native block that reports the refusal as an error ends in FAULT; STEP after
  LOAD counts the time since the clock's epoch as missed releases.
* A status poll waits 3 s (`tools/plc_studio.py:33`), a watchdog may be 60 s: a legal OB can
  make the Studio kill the runtime.
* TON and TOF lose the fraction of a millisecond that `runOnce()` cuts off in every scan
  (`src/core/scan_engine.cpp:65`), and the losses add up: with cycles of 1.5 ms a delay takes
  half as long again, with cycles below a millisecond it is never over. The comment at lines 60-63
  and `docs/architecture.md:289-291` promise timers that stay accurate under jitter and
  overrun. `LossIsLessThanAMillisecondPerScan` is how much is lost; that a timer is never
  early, `NeverEarly`, does hold.
* A change of an output that is reverted between a request and its acknowledgement is never
  sent, and one that is not reverted may wait for the refresh.

## 4. What is proved

All theorems hold for every value of the constants that satisfies the assumptions; where
a model bounds a counter (the clock, the number of requests), the bound is one of these
constants. Each proof has the same shape: an inductive invariant, a lemma that the initial
states satisfy it, one lemma per action or per part that every step keeps it, and the
theorems from it. Every invariant was checked by TLC on the module's run before it was
proved.

| Theorem | Property | Says |
|---|---|---|
| `RuntimeProofs!TypeCorrect` ... `NoReleaseBacklog`, `NothingBeginsDuringStop`, `FaultOnlyExits` | `TypeOK`, `OutputsSafe`, `StackOrdered`, `StartupAlone`, `CycleTimeOwn`, `FaultLatched`, `NoBacklog`, `NoDispatchDuringStop`, `FaultExit` | safety of the runtime |
| `RuntimeProofs!ImplementsObExecution` | `KeepsPromise` | the runtime implements `ObExecution` |
| `RuntimeProofs!NestingIsBounded` | | no more OBs nest than there are cyclic priorities, and one |
| `RuntimeProofs!OwnBodyWithoutPreemption` | `BodyOwn` | without preemption an OB executes its own body |
| `RuntimeHistoryProofs!NoReleaseIsLost`, `StartupComesFirst` | `ReleasesAccounted`, `StartupFirst` | releases are dispatched or counted; startup OBs come first, once |
| `ModbusIoProofs!TypeCorrect`, `WritesAreWhole`, `ReadsAreWhole`, `HealthIsHonest`, `InputsAreDelayedCopies` | `TypeOK`, `NoTornWrite`, `NoTornRead`, `HealthyHasLink`, `InputsFollow` | what crosses the wire is whole; inputs without a like batch, and all on TCP, are in order |
| `ModbusIoProofs!DeclaredWholeNeverCrashes` | `NeverCrashes` | no poller ends the process if batches of registers are declared whole |
| `ModbusMappingProofs!BatchesTileTheRegisters`, `NoAccessOutOfBounds`, `ValuesSurvive` | `BatchesTiled`, `NeverThrown`, `RoundTrip` | batches tile, nothing throws, values survive |
| `StudioProofs!ConversationInStep`, `ResultMatchesSource`, `LoadsAreCurrent`, `SavesAreWhole` | `InStep`, `ResultIsOfSource`, `LoadIsCurrent`, `FileIsProject` | replies, results, loads and files belong together |
| `ScanProofs!TicksOnTheGrid`, `ScansDoNotBurst`, `TimersAreNeverEarly` | `OnTheGrid`, `NoBurst`, `NeverEarly` | no drift, no bursts, no timer ahead of the clock |
| `ScanProofs!LossIsLessThanAMillisecondPerScan` | | how late a timer can be |
| `TransportProofs!RepliesAreOfTheUnitAsked` | `RepliesBelong` | on TCP nothing of an earlier request is left; on a serial line no reply of another unit is accepted |
| `TransportProofs!OverdueOnlyWithoutTimeout` | | a call that is overdue is on a socket and waits without a timeout |
| `StExpressionProofs!WholeNumbersExact` | | arithmetic of whole types, done in doubles, is exact or refused, for every range |
| `StExpressionProofs!ExpressionsTypeSound`, `StoresKeepTypes`, `AssignmentsTypeSound` | | what the type check accepts meets no value of a wrong type, and tags keep theirs |

**`RuntimeProofs`**: from `TableAssumption` (what the front end validates),
`ProgramAssumption` and `ClockAssumption` (the steady clock is past its epoch).
`IInv` is `TypeOK` with six parts:

* `Levels`: dispatch loops and frames alternate (loop 1, frame 1, loop 2, ...), and there
  are neither while the mutex is free;
* `Modes`: in which modes the mutex is held by which loop; FAULT, error and cancel go
  together; a STOP or QUIT that has been read has raised cancel;
* `Outputs`: outside RUN, outputs are set only while an OB or the end of a step executes;
* `Order`: priorities rise along the stack, and every OB that a list above a frame still
  contains is cyclic and more urgent than that frame. Without the lists `StackOrdered` is
  not inductive: the danger is an old list;
* `CycleTimes`: each frame saved the cycle time of the one below it;
* `Releases`: no release lies in the future of the clock, `NoBacklog`, and the startup
  loop serves startup OBs only.

There is one lemma per part with one step per action, then `NextIInv`, and the theorems
`TypeCorrect`, `OutputsAreSafe`, `StackIsOrdered`, `StartupIsAlone`, `CycleTimeIsOwn`,
`FaultIsLatched`, `NoReleaseBacklog`, and the action properties
`NothingBeginsDuringStop` and `FaultOnlyExits`.

`ImplementsObExecution` is the refinement, in the same module. `ObExecution` has one
stack of OBs, a mode and outputs; the mapping takes the tasks of the frames, and shows
outputs as zero at the end of a step, when the mutex is held but no OB is executing.
`RInv` adds to `IInv` what the mapping needs: a step has OB1 alone to dispatch, and outputs are
zero until it does (`StepAlone`), and OBs nest only in RUN or after a fault (`NestedInRun`). The lemmas go by what a step is to the abstract specification:
`FrameStepKeeps` (program code: a write or a stutter), `DispatchKeeps` (an OB begins or is refused),
`LeaveKeeps` (it ends, and with it perhaps the mode), `HolderKeeps` (loops: stutters), and
`CommandKeeps`.

`NestingIsBounded` follows the lists once more: every frame above the first was dispatched
from a list of cyclic OBs (`NestedCyclic`), and priorities rise (`Order`), so the frames
above the first map into the cyclic priorities one to one. It bounds the native stack a
program needs, which grows with every serviceDue() that a checkpoint enters.
`OwnBodyWithoutPreemption` is the counterpart of the first finding: if no cyclic OB is more
urgent than one it could interrupt (`NoPreemption`), nothing is served at a checkpoint, there
is one frame at most, and its dispatch tag is its own (`OneAtATime`). Preemption is thus the
only way to the violation that `runtime_dispatch_tag` shows.

**`ModbusIoProofs`**: from `ConfigAssumption` and `EnvironmentAssumption`. `IInv` adds to
`TypeOK` and `HealthyHasLink`: what a poller holds belongs to its batch (`PollerOk`), and what
a device owes to the device (`OwedOk`); the devices already scanned (`ScannedOk`); no copy on
the way from register to tag is newer than the next one upstream (`Fresh`), and the late
replies of a device are newer than what it has been heard to answer, and in their order
(`Ordered`), both for the inputs of batches that no other resembles (`LoneInput`): a late
reply that is taken for such a batch is its own; every copy on the way from program to register is a
whole image: tags outside the program, caches, snapshots, delayed requests, registers
(`Untorn`); and the state of a connection (`LinkOk`). The inputs of one
batch agree wherever they are (`Even`: registers, cache and its validity, the reply under
way, late replies, declared tags), since all of these are moved for a whole batch at a time,
and a reply to another batch that is taken for this one is even too; that is
`NoTornRead` made inductive. It gives `TypeCorrect`,
`WritesAreWhole`, `ReadsAreWhole`, `HealthIsHonest`, and `InputsAreDelayedCopies`, which is a refinement:
the initial states map to those of `DelayedCopy`, each step to a change, a refresh or a
stutter. `DeclaredWholeNeverCrashes` is the counterpart of the second finding: if the
program declares the registers of each write batch all or none (`WholeBatches`), its declared
points become valid together (`ValidTogether`), and the value that encoding throws for is
never missing. The violation that `modbus_undeclared` shows needs a batch declared in part.

**`RuntimeHistoryProofs`**: `HInv` adds to `IInv` the two loops of tick() (`StartupLoop`,
`ServiceLoop`: which kind of OB each dispatches, and where its list is), `ReleasesAccounted`
itself, and `StartupProgress`: a startup OB has begun once and the loop is done with it, or
it has not begun, nothing else has, and it is still to come, unless STOP intervened.

**`ModbusMappingProofs`**: from `MappingAssumption` (a limit below the size of the address
space, at least two words, bytes no larger than words). `IInv` says: batches are runs of
consecutive points whose registers touch (`Gapless`) and lie, in order and without
overlap, in the registers of the batch (`Disjoint`); batches follow each other (`Chained`);
the current one continues them up to the point at hand (`Building`), so that no point is
left (`Covered`); the registers of the request hold the words of the points encoded so far,
and the batches before it have been read back (`Encoding`, `Kept`). `NoWrap` is where the
16-bit arithmetic matters: a sum that wraps never continues a batch, because a batch is
shorter than the address space. `WordsRoundTrip` is the arithmetic of words and signs, for
words of every size.

**`StudioProofs`**: from `StudioAssumption`. `IInv` relates the holder of each lock to what
the handlers do (`RuntimeLock`, `StudioLock`), counts the messages between the Studio and a
living process, in both pipes and in the queue of responses together (`Pipes`: one while a
command waits, none otherwise), and notes that a request to load has seen the current
project (`SeenByLoad`). `Pipes` is why no reply can be taken for another: a process that
missed its time is killed before the lock is released.

**`ScanProofs`**: from `ScanAssumption`. `Schedule` says where the next tick stands to the last two
scans at every point of the loop; `NoBurst` alone is not inductive, since whether a scan
is late is decided several steps before the next one begins. `Timer` has what a timer
shows before its first scan and while it is reset. `LossBounded` relates what a timer that is
counting shows to the clock from both sides: not more, and less by under a millisecond per
scan. It gives `TimersAreNeverEarly` and `LossIsLessThanAMillisecondPerScan`.

**`TransportProofs`**: from `TransportAssumption` (the reads of a reply ask for more and
more bytes; timeouts are whole milliseconds, as in the code). `Drained` is the invariant:
on TCP nothing is in flight before a request and after its reply, and in between the frame,
the socket and the network hold exactly the bytes of one reply. `InOrder` is the order of a
request, and `Accepted` that the unit that was asked has answered, which is all that a serial
line guarantees. `OverdueOnlyWithoutTimeout` is the counterpart of the third finding: every
wait with a timeout ends by its deadline, so the violation that `tcp_deadline` shows needs the
timeout of 0.

**`StExpressionProofs`**: from `BoundsAssumption` (every range has 0 in it),
`TimeAssumption` (of the times at most the least has no negative, as in two's complement),
`FormatAssumption` (what a binary format is) and `DoubleAssumption` (whole numbers and REALs
are doubles).
It starts from Euclid: the recursion of `gcd` has a solution (`EuclidSolvable`), and by the
least counterexample its value is the greatest common divisor (`GcdCorrect`); so `Fraction`
equals the quotient it stands for, in lowest terms. `TruncatedIsWholePart` says that the cast
to an integer drops the fraction and nothing else, `TruncatedWithin` that this leaves no range
around 0. `WholeNumbersExact` is `RightOrRefused`, which is what `NumbersRight` checks of
single programs, for every operator and all values of whole types. What has to be shown is
that the rounding in between does no harm. A result is either a fraction with a small
denominator or a whole number too large for any of the ranges (`OperationSmall`); of the
first kind rounding does not cross a whole number (`OrderKept`, `RoundedAlike`), so that the
range check and the cast give what they would give for the exact result, and the second kind
stays too large (`LargeKept`). For REAL and LREAL `NumbersRight` is only model-checked. For the types there
is one lemma per kind of operator (`UnaryTyped`, `BinaryTyped`, `CoerceTyped`), then one node
whose operands are sound (`NodeTypeSound`). `ExpressionsTypeSound` takes any set of finite
expressions that contains their operands, with the types and results that `TypeOf` and
`ValueOf` give its members, which is what `StaticType` and `Evaluate` compute, and argues by
an unsound expression of least height. Literals of whole numbers are in their range by
`WrappedTyped`. Its hypothesis about the tags, `WellTyped`, is part of
`TypeSound`, so TLC checks it in every state of the run; `StoresKeepTypes` proves that an
assignment keeps it, and `AssignmentsTypeSound` that an accepted one fails in two ways only.

**Only model-checked**: what the Structured Text modules compute over whole programs
(`NothingMisread`, `Closed`, `TypeSound`, `StopsSoon`, `NumbersRight`,
`InterpreterMeetsReference`, `GeneratedMeetsReference`). Grammar, binder and engines recurse
over trees: their operators are RECURSIVE, for which the prover has no backend, and what they
compute for every program would need an induction over data, which it cannot instantiate.
Of `TypeSound` the part without statements is proved, of `NumbersRight` that about whole types,
as above. That expressions stay typed is proved for the rounded numbers too.

**Out of reach of the prover**, so left to TLC: the liveness properties (`StopHonoured`,
`ExitHonoured`, `Delivered`, `HealthFollows`, `StopJoins`, `RequestsEnd`, `BuildEnds`).

## 5. What is not modelled, and why

* Characters: how the lexer spells words, comments, durations and escapes. A text is a
  sequence of words here; positions for error messages are left out.
* The C++ text that the generator writes, its symbol file, and the compiler. `StProgram` has
  what the generated program does, `Runtime` when it is called.
* The project front end (a document is validated and turned into text without state
  between calls; its results are the assumptions on the task tables), the browser, packaging
  (no part in the running system), the runner's main.
* The simulated I/O driver: two maps under one mutex, for tests.
* Windows variants of sockets, serial ports and pipes; line parameters of a serial port;
  `recvExact`, `send` and the listener, which only tests use.
* Infinities, NaN and the sign of zero, with the literals beyond the range of a REAL that make
  them; text of strings beyond their order.
* Diagnostics counters and texts, traces, HTTP, tokens.
* One tag mapped to two points. The mapping allows it; the drivers then
  overwrite one with the other.
* Native blocks that write to standard output, which the manual forbids.
* A scan that throws in the scan engine: the exception ends the process, with the outputs
  as they are.

## 6. Plan

The order was: the runtime first, since a mistake there leaves outputs on; then the Modbus
drivers with their proofs; then the algorithms and processes around them; then Structured
Text from the words to both engines, and the transport below the Modbus clients. All of
these models stand, and every safety property that a run checks of the runtime, the drivers, the server, the scan
engine and the transport is proved, and of Structured Text what holds of one expression and one assignment.
What is left:

1. Compositions: a request of `ModbusIo` as the steps of `Transport` between two idle
   states, a refinement; `Scan` and `ModbusIo`, which has the scan's steps already, under
   the order that `Scan` gives them.
2. Statements: the parts of `TypeSound` above expressions and assignments, from a semantics of
   statements by small steps in place of the recursion over blocks.
3. Further consequences of the invariants that stand, such as a bound for the age of an input
   in requests of its poller.
