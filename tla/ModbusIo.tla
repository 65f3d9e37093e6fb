------------------------------ MODULE ModbusIo ------------------------------
(***************************************************************************)
(* The Modbus I/O drivers, src/io/modbus_tcp_driver.cpp and                *)
(* src/io/modbus_rtu_driver.cpp, with their clients, between the scan      *)
(* thread and the field devices.                                            *)
(*                                                                          *)
(* A poller thread (one per TCP device, one per RTU bus) goes through its  *)
(* batches in a fixed order; a batch is one Modbus request for a run of    *)
(* points of one device.  The scan thread copies between the TagStore and  *)
(* the caches of the devices and never waits for a poller.  A third thread  *)
(* starts and stops the pollers.                                            *)
(*                                                                          *)
(* The critical sections of a device's cacheMutex and diagMutex are single *)
(* steps; between two of them the threads interleave.  The two drivers are *)
(* the same code; what differs is below them.  On a serial line a reply     *)
(* that comes late is still there for the next request, whose answer it is *)
(* taken for if it has its form; a TCP connection is gone after a failure,  *)
(* but a receive on it may have lost its timeout (Transport has both).      *)
(*                                                                          *)
(* Abstractions: a register value is a number (ModbusMapping has the        *)
(* requests themselves); lastWriteTime is kept as whether it is recent;    *)
(* the counters of the diagnostics are left out.                            *)
(***************************************************************************)
EXTENDS Naturals, FiniteSets, Sequences

CONSTANTS
  Bus,         \* pollers, 1..n in the order of start() and stop()
  Device,      \* configured devices, numbered in the order of the configuration
  BusOf,       \* the bus or connection of each device
  Serial,      \* the buses that are serial lines; the others are TCP connections
  Batch,       \* batches, numbered in the order in which a poller visits them
  DeviceOf,    \* the device of each batch
  Writes,      \* the batches of output points
  Coils,       \* the write batches of coils; the others write registers
  Function,    \* the function code of each batch's request
  Extent,      \* what a reply repeats of it: the quantity, of a write the address too
  Point,       \* mapped points
  BatchOf,     \* the batch of each point
  Declared,    \* points whose tag is declared with the type of the mapping
  Images,      \* what the program may write to the output tags
  MaxVersion,  \* bound of the values that input points take
  Delays,      \* whether a write that timed out may still be executed later
  MaxLate      \* bound of the late replies a device on a serial line owes

Input == {p \in Point : BatchOf[p] \notin Writes}
Output == Point \ Input
Points(b) == {p \in Point : BatchOf[p] = b}
DevicePoints(d) == {p \in Point : DeviceOf[BatchOf[p]] = d}
Zero == [p \in Point |-> 0]

\* The configuration; an address is mapped once, and no batch is empty.
ASSUME ConfigAssumption ==
  /\ Bus \subseteq Nat \ {0} /\ Device \subseteq Nat \ {0} /\ Batch \subseteq Nat
  /\ IsFiniteSet(Bus) /\ IsFiniteSet(Device) /\ IsFiniteSet(Batch)
  /\ Bus # {} /\ Device # {}
  /\ BusOf \in [Device -> Bus] /\ Serial \subseteq Bus
  /\ DeviceOf \in [Batch -> Device]
  /\ Coils \subseteq Writes /\ Writes \subseteq Batch
  /\ \A b \in Writes : \A c \in Batch \ Writes : Function[b] # Function[c]
  /\ BatchOf \in [Point -> Batch]
  /\ \A b \in Batch : Points(b) # {}
  /\ Declared \subseteq Point

ASSUME EnvironmentAssumption ==
  /\ Images \subseteq [Point -> Nat]
  /\ MaxVersion \in Nat
  /\ Delays \in BOOLEAN
  /\ MaxLate \in Nat

VARIABLES
  tag, health,      \* the TagStore: mapped tags, and the health tag of a device
  cached, valid,    \* CachedPoint::value and ::valid, input and output
  dirty, recent,    \* CachedPoint::dirty, and lastWriteTime within the interval
  connected,        \* ModbusDeviceDiagnostics::connected
  link,             \* whether the client of a bus holds an open connection
  pc, todo,         \* where a poller is, and the batches left in its pass
  data, result,     \* the values and the outcome of its current request
  scanPc, scanned,  \* where the scan thread is, and the devices done there
  stopping,         \* the bus that stop() is joining, 0 if none
  device,           \* how a field device reacts to requests
  reg,              \* the registers of the field devices
  pending, late,    \* timed-out writes still under way, and what they write
  owed              \* replies of a device that come late, in their order

tagVars == <<tag, health>>
cacheVars == <<cached, valid, dirty, recent>>
pollVars == <<connected, link, pc, todo, data, result>>
fieldVars == <<device, reg, pending, late, owed>>
vars == <<tagVars, cacheVars, pollVars, scanPc, scanned, stopping, fieldVars>>

Reply == [from : Batch, ok : BOOLEAN, values : [Point -> Nat]]

TypeOK ==
  /\ tag \in [Point -> Nat] /\ health \in [Device -> BOOLEAN]
  /\ cached \in [Point -> Nat] /\ valid \in [Point -> BOOLEAN]
  /\ dirty \in [Point -> BOOLEAN] /\ recent \in [Point -> BOOLEAN]
  /\ connected \in [Device -> BOOLEAN] /\ link \in [Bus -> BOOLEAN]
  /\ pc \in [Bus -> {"off", "idle", "job", "flight", "record", "store", "held", "terminate"}]
  /\ todo \in [Bus -> SUBSET Batch]
  /\ data \in [Bus -> [Point -> Nat]]
  /\ result \in [Bus -> {"ok", "exception", "lost"}]
  /\ scanPc \in {"inputs", "health", "program", "outputs"}
  /\ scanned \in SUBSET Device
  /\ stopping \in Bus \cup {0}
  /\ device \in [Device -> {"ok", "refuses", "silent"}]
  /\ reg \in [Point -> Nat]
  /\ pending \in SUBSET Writes /\ late \in [Batch -> [Point -> Nat]]
  /\ owed \in [Device -> Seq(Reply)]

-----------------------------------------------------------------------------
(* The poller of bus u.                                                     *)

Least(S) == CHOOSE n \in S : \A m \in S : n <= m

\* The batch at hand.
Job(u) == Least(todo[u])

\* Mutant: the loop does not look at the stop token.
PassBeginHeedless(u) ==
  /\ pc[u] = "idle"
  /\ todo' = [todo EXCEPT ![u] = {b \in Batch : BusOf[DeviceOf[b]] = u}]
  /\ pc' = [pc EXCEPT ![u] = IF todo'[u] = {} THEN "idle" ELSE "job"]
  /\ UNCHANGED <<tagVars, cacheVars, connected, link, data, result, scanPc,
                 scanned, stopping, fieldVars>>

\* pollDeviceLoop(), pollBusLoop(): a new pass, unless a stop was requested.
PassBegin(u) ==
  /\ pc[u] = "idle" /\ stopping # u
  /\ todo' = [todo EXCEPT ![u] = {b \in Batch : BusOf[DeviceOf[b]] = u}]
  /\ pc' = [pc EXCEPT ![u] = IF todo'[u] = {} THEN "idle" ELSE "job"]
  /\ UNCHANGED <<tagVars, cacheVars, connected, link, data, result, scanPc,
                 scanned, stopping, fieldVars>>

PollerExit(u) ==
  /\ pc[u] = "idle" /\ stopping = u
  /\ pc' = [pc EXCEPT ![u] = "off"]
  /\ UNCHANGED <<tagVars, cacheVars, connected, link, todo, data, result, scanPc,
                 scanned, stopping, fieldVars>>

\* On to the next batch; the locals of this one are gone.
Advance(u) ==
  /\ todo' = [todo EXCEPT ![u] = @ \ {Job(u)}]
  /\ pc' = [pc EXCEPT ![u] = IF todo'[u] = {} THEN "idle" ELSE "job"]
  /\ data' = [data EXCEPT ![u] = Zero]
  /\ result' = [result EXCEPT ![u] = "ok"]

\* The outcome of a request, and the connection after it: a client (re)connects
\* when it has to, keeps the connection after a Modbus exception and drops it
\* after any other failure.
Outcome(u, o) ==
  /\ result' = [result EXCEPT ![u] = o]
  /\ link' = [link EXCEPT ![u] = o # "lost"]
  /\ pc' = [pc EXCEPT ![u] = "record"]

\* The registers after the request of batch b was executed.
Written(b, values) == [p \in Point |-> IF p \in Points(b) THEN values[p] ELSE reg[p]]
Executed(b, values) == IF b \in Writes THEN Written(b, values) ELSE reg

\* What the device of batch b answers now: the values of a read, or an exception.
Contents(b) == [p \in Point |-> IF p \in Points(b) \ Output THEN reg[p] ELSE 0]
Answer(b, isOk) == [from |-> b, ok |-> isOk, values |-> IF isOk THEN Contents(b) ELSE Zero]

\* What may be owed after an answer nobody waits for, which may come late on a serial line.
Owing(b, answer, before) ==
  LET d == DeviceOf[b] IN
  IF BusOf[d] \in Serial /\ Len(before[d]) < MaxLate
  THEN {before, [before EXCEPT ![d] = Append(@, answer)]}
  ELSE {before}

\* A request whose own answer is not heard.  A silent device has executed it, or never will,
\* or, a write, will do so later.
Unheard(b, values, before) ==
  LET mode == device[DeviceOf[b]] IN
  \/ /\ mode \in {"ok", "silent"}
     /\ reg' = Executed(b, values) /\ owed' \in Owing(b, Answer(b, TRUE), before)
     /\ UNCHANGED <<pending, late>>
  \/ /\ mode = "refuses" /\ owed' \in Owing(b, Answer(b, FALSE), before)
     /\ UNCHANGED <<reg, pending, late>>
  \/ mode = "silent" /\ owed' = before /\ UNCHANGED <<reg, pending, late>>
  \/ /\ mode = "silent" /\ Delays /\ b \in Writes \ pending
     /\ pending' = pending \cup {b} /\ late' = [late EXCEPT ![b] = values]
     /\ owed' = before /\ UNCHANGED reg

\* nanoMODBUS takes a frame for the answer when it comes from the unit that was asked and
\* has the form of the answer; of an exception that is the function only.
Takes(b, r) ==
  /\ DeviceOf[r.from] = DeviceOf[b] /\ Function[r.from] = Function[b]
  /\ r.ok => Extent[r.from] = Extent[b]

\* The values that a read of batch b takes from a reply to batch c: by their place in it.
Taken(b, r) ==
  IF r.from = b THEN {r.values}
  ELSE {[p \in Point |-> IF p \in Points(b) THEN r.values[f[p]] ELSE 0] :
          f \in [Points(b) -> Points(r.from)]}

\* The answer comes in time; a device answers in the order in which it was asked.
Answered(u, b) ==
  /\ owed[DeviceOf[b]] = <<>>
  /\ \/ /\ device[DeviceOf[b]] = "ok" /\ Outcome(u, "ok")
        /\ reg' = Executed(b, data[u])
        /\ data' = IF b \in Writes THEN data ELSE [data EXCEPT ![u] = Contents(b)]
     \/ device[DeviceOf[b]] = "refuses" /\ Outcome(u, "exception") /\ UNCHANGED <<reg, data>>
  /\ UNCHANGED <<pending, late, owed>>

\* Nothing comes within the timeout.
TimedOut(u, b) ==
  /\ device[DeviceOf[b]] = "silent" /\ Outcome(u, "lost")
  /\ Unheard(b, data[u], owed) /\ UNCHANGED data

\* On a serial line an earlier reply comes first: of this unit, and then it is taken for the
\* answer if it has its form, or of another.
Overtaken(u, b) ==
  \E d \in Device :
    /\ BusOf[d] = u /\ owed[d] # <<>>
    /\ LET r == Head(owed[d]) IN
       IF Takes(b, r)
       THEN /\ Outcome(u, IF r.ok THEN "ok" ELSE "exception")
            /\ IF r.ok /\ b \notin Writes
               THEN \E values \in Taken(b, r) : data' = [data EXCEPT ![u] = values]
               ELSE UNCHANGED data
       ELSE Outcome(u, "lost") /\ UNCHANGED data
    /\ Unheard(b, data[u], [owed EXCEPT ![d] = Tail(@)])

Exchange(u, b) ==
  /\ Answered(u, b) \/ TimedOut(u, b) \/ Overtaken(u, b)
  /\ UNCHANGED <<tagVars, cacheVars, connected, todo, scanPc, scanned, stopping, device>>

\* A read request and its reply.
ReadExchange(u) == pc[u] = "job" /\ Job(u) \notin Writes /\ Exchange(u, Job(u))

\* Mutant: there is no refresh.
NeedsWriteDirty(b) == \E p \in Points(b) : valid[p] /\ dirty[p]

\* A write batch is due when one of its points is dirty or due for a refresh.
NeedsWrite(b) == \E p \in Points(b) : valid[p] /\ (dirty[p] \/ ~recent[p])

\* Mutant: the first value is taken from the TagStore.
SnapshotOfTag(b) ==
  [p \in Point |-> IF p \in Points(b) /\ valid[p]
                   THEN IF p = Least(Points(b)) THEN tag[p] ELSE cached[p]
                   ELSE 0]
SnapshotOf(b) ==
  [p \in Point |-> IF p \in Points(b) /\ valid[p] THEN cached[p] ELSE 0]

\* The snapshot of a write batch.  A point that is not valid is left with a
\* default Value, a BOOL: that is a coil's FALSE, but asking it for the value of
\* a register throws out of the thread.
Snapshot(u) ==
  LET b == Job(u) IN
  /\ pc[u] = "job" /\ b \in Writes
  /\ IF ~NeedsWrite(b)
     THEN Advance(u)
     ELSE /\ pc' = [pc EXCEPT ![u] = IF b \in Coils \/ \A p \in Points(b) : valid[p]
                                     THEN "flight" ELSE "terminate"]
          /\ data' = [data EXCEPT ![u] = SnapshotOf(b)]
          /\ UNCHANGED <<todo, result>>
  /\ UNCHANGED <<tagVars, cacheVars, connected, link, scanPc, scanned, stopping,
                 fieldVars>>

\* A write request and its reply.
WriteExchange(u) == pc[u] = "flight" /\ Exchange(u, Job(u))

\* TcpSocket::recvSome(): part of the answer came, the rest was waited for in the last
\* millisecond before the deadline, without a timeout, and does not come.
Hold(u) ==
  LET b == Job(u) IN
  /\ u \notin Serial
  /\ pc[u] = "flight" \/ (pc[u] = "job" /\ b \notin Writes)
  /\ device[DeviceOf[b]] = "silent"
  /\ pc' = [pc EXCEPT ![u] = "held"] /\ link' = [link EXCEPT ![u] = TRUE]
  /\ \/ /\ result' = [result EXCEPT ![u] = "ok"]
        /\ reg' = Executed(b, data[u])
        /\ data' = IF b \in Writes THEN data ELSE [data EXCEPT ![u] = Contents(b)]
     \/ result' = [result EXCEPT ![u] = "exception"] /\ UNCHANGED <<reg, data>>
  /\ UNCHANGED <<tagVars, cacheVars, connected, todo, scanPc, scanned, stopping, device,
                 pending, late, owed>>

\* The rest comes after all, or the connection breaks.
Resume(u) ==
  /\ pc[u] = "held"
  /\ Outcome(u, "lost") \/ (device[DeviceOf[Job(u)]] # "silent" /\ Outcome(u, result[u]))
  /\ UNCHANGED <<tagVars, cacheVars, connected, todo, data, scanPc, scanned, stopping,
                 fieldVars>>

\* Mutant: a failure does not show in the diagnostics.
ConnectedAfterOptimist(d, o) == o = "ok" \/ connected[d]

\* A device that answers with an exception is as connected as it was.
ConnectedAfter(d, o) == IF o = "exception" THEN connected[d] ELSE o = "ok"

\* Mutant: the early return for a failed request is missing.
RecordAnyway(u) ==
  LET d == DeviceOf[Job(u)] IN
  /\ pc[u] = "record"
  /\ connected' = [connected EXCEPT ![d] = ConnectedAfter(d, result[u])]
  /\ pc' = [pc EXCEPT ![u] = "store"]
  /\ UNCHANGED <<tagVars, cacheVars, link, todo, data, result, scanPc, scanned,
                 stopping, fieldVars>>

\* recordOutcome().
Record(u) ==
  LET d == DeviceOf[Job(u)] IN
  /\ pc[u] = "record"
  /\ connected' = [connected EXCEPT ![d] = ConnectedAfter(d, result[u])]
  /\ IF result[u] = "ok"
     THEN pc' = [pc EXCEPT ![u] = "store"] /\ UNCHANGED <<todo, data, result>>
     ELSE Advance(u)
  /\ UNCHANGED <<tagVars, cacheVars, link, scanPc, scanned, stopping, fieldVars>>

\* Mutant: the loop over the points of the batch ends one too early.
StoreReadShort(u) ==
  LET b == Job(u)
      P == {p \in Points(b) : \E q \in Points(b) : p < q}
  IN  /\ pc[u] = "store" /\ b \notin Writes
      /\ cached' = [p \in Point |-> IF p \in P THEN data[u][p] ELSE cached[p]]
      /\ valid' = [p \in Point |-> p \in P \/ valid[p]]
      /\ Advance(u)
      /\ UNCHANGED <<tagVars, dirty, recent, connected, link, scanPc, scanned,
                     stopping, fieldVars>>

\* After a successful read: the input cache.
StoreRead(u) ==
  LET b == Job(u) IN
  /\ pc[u] = "store" /\ b \notin Writes
  /\ cached' = [p \in Point |-> IF p \in Points(b) THEN data[u][p] ELSE cached[p]]
  /\ valid' = [p \in Point |-> p \in Points(b) \/ valid[p]]
  /\ Advance(u)
  /\ UNCHANGED <<tagVars, dirty, recent, connected, link, scanPc, scanned,
                 stopping, fieldVars>>

\* After a successful write: dirty and lastWriteTime.
StoreWrite(u) ==
  LET b == Job(u) IN
  /\ pc[u] = "store" /\ b \in Writes
  /\ dirty' = [p \in Point |-> p \notin Points(b) /\ dirty[p]]
  /\ recent' = [p \in Point |-> p \in Points(b) \/ recent[p]]
  /\ Advance(u)
  /\ UNCHANGED <<tagVars, cached, valid, connected, link, scanPc, scanned,
                 stopping, fieldVars>>

-----------------------------------------------------------------------------
(* The scan thread: readInputs(), the program, writeOutputs().               *)

NextDevice == Least(Device \ scanned)

\* After the last device, on to `phase'.
DeviceDone(d, here, phase) ==
  IF scanned \cup {d} = Device
  THEN scanPc' = phase /\ scanned' = {}
  ELSE scanPc' = here /\ scanned' = scanned \cup {d}

ScanInputs ==
  LET d == NextDevice IN
  /\ scanPc = "inputs"
  /\ tag' = [p \in Point |->
               IF p \in DevicePoints(d) \cap Input \cap Declared /\ valid[p]
               THEN cached[p] ELSE tag[p]]
  /\ scanPc' = "health"
  /\ UNCHANGED <<health, cacheVars, pollVars, scanned, stopping, fieldVars>>

ScanHealth ==
  LET d == NextDevice IN
  /\ scanPc = "health"
  /\ health' = [health EXCEPT ![d] = connected[d]]
  /\ DeviceDone(d, "inputs", "program")
  /\ UNCHANGED <<tag, cacheVars, pollVars, stopping, fieldVars>>

\* The program writes its output image.
ScanProgram ==
  /\ scanPc = "program"
  /\ \E image \in Images :
       tag' = [p \in Point |-> IF p \in Output \cap Declared THEN image[p] ELSE tag[p]]
  /\ scanPc' = "outputs"
  /\ UNCHANGED <<health, cacheVars, pollVars, scanned, stopping, fieldVars>>

ScanOutputs ==
  LET d == NextDevice
      P == DevicePoints(d) \cap Output \cap Declared
  IN  /\ scanPc = "outputs"
      /\ cached' = [p \in Point |-> IF p \in P THEN tag[p] ELSE cached[p]]
      /\ dirty' = [p \in Point |->
                     dirty[p] \/ (p \in P /\ (~valid[p] \/ cached[p] # tag[p]))]
      /\ valid' = [p \in Point |-> p \in P \/ valid[p]]
      /\ DeviceDone(d, "outputs", "inputs")
      /\ UNCHANGED <<tagVars, recent, pollVars, stopping, fieldVars>>

-----------------------------------------------------------------------------
(* The thread that calls start() and stop().                                 *)

Start ==
  /\ stopping = 0
  /\ pc' = [u \in Bus |-> IF pc[u] = "off" THEN "idle" ELSE pc[u]]
  /\ UNCHANGED <<tagVars, cacheVars, connected, link, todo, data, result, scanPc,
                 scanned, stopping, fieldVars>>

Running == {u \in Bus : pc[u] # "off"}

\* stop() requests one poller at a time to stop, and joins it.
Stop ==
  /\ stopping = 0 /\ Running # {}
  /\ stopping' = Least(Running)
  /\ UNCHANGED <<tagVars, cacheVars, pollVars, scanPc, scanned, fieldVars>>

Join ==
  /\ stopping # 0 /\ pc[stopping] = "off"
  /\ stopping' = IF Running = {} THEN 0 ELSE Least(Running)
  /\ UNCHANGED <<tagVars, cacheVars, pollVars, scanPc, scanned, fieldVars>>

-----------------------------------------------------------------------------
(* The field, and time.                                                      *)

\* The process behind a device moves on; the registers of a read batch show it together.
PlantChange(b) ==
  /\ \E p \in Points(b) : reg[p] < MaxVersion
  /\ reg' = [p \in Point |-> IF p \in Points(b) THEN reg[p] + 1 ELSE reg[p]]
  /\ UNCHANGED <<tagVars, cacheVars, pollVars, scanPc, scanned, stopping, device,
                 pending, late, owed>>

\* A device begins to answer, to refuse or to stay silent.
DeviceChange(d) ==
  /\ \E mode \in {"ok", "refuses", "silent"} : device' = [device EXCEPT ![d] = mode]
  /\ UNCHANGED <<tagVars, cacheVars, pollVars, scanPc, scanned, stopping, reg,
                 pending, late, owed>>

\* A silent device restarts with its outputs at zero.
Reboot(d) ==
  /\ device[d] = "silent"
  /\ reg' = [p \in Point |-> IF p \in DevicePoints(d) \cap Output THEN 0 ELSE reg[p]]
  /\ UNCHANGED <<tagVars, cacheVars, pollVars, scanPc, scanned, stopping, device,
                 pending, late, owed>>

\* A delayed write is executed after all.
LateArrival(b) ==
  /\ b \in pending
  /\ reg' = Written(b, late[b])
  /\ pending' = pending \ {b}
  /\ late' = [late EXCEPT ![b] = Zero]
  /\ owed' \in Owing(b, Answer(b, TRUE), owed)
  /\ UNCHANGED <<tagVars, cacheVars, pollVars, scanPc, scanned, stopping, device>>

\* A late reply finds the serial port closed, or is flushed when it is opened again.
Discarded(d) ==
  /\ owed[d] # <<>> /\ ~link[BusOf[d]]
  /\ owed' = [owed EXCEPT ![d] = Tail(@)]
  /\ UNCHANGED <<tagVars, cacheVars, pollVars, scanPc, scanned, stopping, device, reg,
                 pending, late>>

\* outputRefreshInterval passes for the points of a batch.
RefreshDue(b) ==
  /\ \E p \in Points(b) : recent[p]
  /\ recent' = [p \in Point |-> p \notin Points(b) /\ recent[p]]
  /\ UNCHANGED <<tagVars, cached, valid, dirty, pollVars, scanPc, scanned, stopping,
                 fieldVars>>

-----------------------------------------------------------------------------
Init ==
  /\ tag = Zero /\ health = [d \in Device |-> FALSE]
  /\ cached = Zero /\ valid = [p \in Point |-> FALSE]
  /\ dirty = [p \in Point |-> FALSE] /\ recent = [p \in Point |-> FALSE]
  /\ connected = [d \in Device |-> FALSE] /\ link = [u \in Bus |-> FALSE]
  /\ pc = [u \in Bus |-> "off"] /\ todo = [u \in Bus |-> {}]
  /\ data = [u \in Bus |-> Zero] /\ result = [u \in Bus |-> "ok"]
  /\ scanPc = "inputs" /\ scanned = {}
  /\ stopping = 0
  /\ device = [d \in Device |-> "silent"] /\ reg = Zero
  /\ pending = {} /\ late = [b \in Batch |-> Zero] /\ owed = [d \in Device |-> <<>>]

PollerStep(u) ==
  \/ PassBegin(u) \/ PollerExit(u) \/ ReadExchange(u) \/ Snapshot(u)
  \/ WriteExchange(u) \/ Record(u) \/ StoreRead(u) \/ StoreWrite(u)

ScanStep == ScanInputs \/ ScanHealth \/ ScanProgram \/ ScanOutputs

FieldStep ==
  \/ \E b \in Batch \ Writes : PlantChange(b)
  \/ \E d \in Device : DeviceChange(d) \/ Reboot(d) \/ Discarded(d)
  \/ \E b \in Writes : LateArrival(b) \/ RefreshDue(b)

\* An exception out of a poller thread ends the process.
Terminated == \E u \in Bus : pc[u] = "terminate"

Next ==
  \/ /\ ~Terminated
     /\ \/ \E u \in Bus : PollerStep(u) \/ Hold(u) \/ Resume(u)
        \/ ScanStep
        \/ Start \/ Stop \/ Join
  \/ FieldStep

Spec == Init /\ [][Next]_vars

\* Every thread runs and time passes.  A request ends, with its timeout at the latest, unless
\* the poller is held in a receive without one: nothing makes a held poller go on.
FairSpec ==
  /\ Spec
  /\ \A u \in Bus : WF_vars(PollerStep(u))
  /\ WF_vars(ScanStep)
  /\ WF_vars(Join)
  /\ \A b \in Writes : WF_vars(RefreshDue(b))
-----------------------------------------------------------------------------
(* Properties.                                                              *)

\* A reply to a batch like this one on the same unit of a serial line could be taken for its
\* own; there is none on a TCP connection, where replies carry their request's number.
Lone(b) ==
  \/ BusOf[DeviceOf[b]] \notin Serial
  \/ \A c \in Batch \ {b} :
       DeviceOf[c] = DeviceOf[b] => Function[c] # Function[b] \/ Extent[c] # Extent[b]
LoneInput == {p \in Input : Lone(BatchOf[p])}

\* The tag of such an input shows the values of its register in their order, with a delay:
\* failed polls, late replies to itself and to others, restarts of the drivers and
\* reconnections never bring back an older value, and nothing but a value that the register
\* had is ever shown.
Delayed == INSTANCE DelayedCopy WITH
  Item <- LoneInput,
  source <- [p \in LoneInput |-> reg[p]],
  copy <- [p \in LoneInput |-> tag[p]]
InputsFollow == Delayed!Spec

\* The registers of a write batch always hold values that one and the same
\* program scan produced (or those of a restarted device), whenever the scan,
\* the poller, a lost reply and a delayed request met.
NoTornWrite ==
  \A b \in Writes : \E image \in Images \cup {Zero} :
    \A p \in Points(b) \cap Declared : reg[p] = image[p]

\* Outside readInputs() the tags of a read batch come from a single reply.
NoTornRead ==
  scanPc \in {"program", "outputs"} =>
    \A p, q \in Input \cap Declared : BatchOf[p] = BatchOf[q] => tag[p] = tag[q]

\* A connection of its own that is reported as healthy has not been given up.
HealthyHasLink ==
  \A d \in Device :
    LET u == BusOf[d] IN
    connected[d] /\ {e \in Device : BusOf[e] = u} = {d} /\ pc[u] # "record" => link[u]

\* The poller of bus u is not held for ever.
NotStuck(u) == []<>(pc[u] # "held")

\* stop() has joined every poller when it returns: nobody is polling while somebody believes
\* the drivers are stopped.  It returns, unless a poller is held for ever.
StopJoins == (\A u \in Bus : NotStuck(u)) => (stopping # 0 ~> stopping = 0)

\* On a TCP connection whose poller is not held for ever, an output that stays the same
\* reaches a device that answers, and stays there, whatever was lost, delayed or overtaken
\* before.
Delivered ==
  \A p \in Output \cap Declared :
    LET d == DeviceOf[BatchOf[p]] IN
    BusOf[d] \notin Serial /\ NotStuck(BusOf[d]) =>
      \A image \in Images :
        <>[](tag[p] = image[p] /\ device[d] = "ok" /\ pc[BusOf[d]] # "off")
          => <>[](reg[p] = image[p])

\* There the health tag follows the device, unless the poller is held for ever.
HealthFollows ==
  \A d \in Device :
    BusOf[d] \notin Serial /\ NotStuck(BusOf[d]) =>
      /\ <>[](device[d] = "ok" /\ pc[BusOf[d]] # "off") => <>[]health[d]
      /\ <>[](device[d] = "silent" /\ pc[BusOf[d]] # "off") => <>[]~health[d]

\* No poller ends the process, whatever the program declares and the devices do.
NeverCrashes == ~Terminated
=============================================================================
