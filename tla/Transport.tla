----------------------------- MODULE Transport -----------------------------
(***************************************************************************)
(* One Modbus connection below the drivers: ModbusClient over a TcpSocket, *)
(* or ModbusRtuBus over a SerialPort, with the loops that turn "wait for   *)
(* some data" into "this many bytes by a deadline".  Time is counted in    *)
(* ticks, of which a millisecond has several, and passes only while the    *)
(* process waits in the kernel.  A byte of a reply is the number of the    *)
(* request it answers.  nanoMODBUS, the devices and the kernel are         *)
(* external.                                                               *)
(***************************************************************************)
EXTENDS Integers, Sequences, FiniteSetsExt

CONSTANTS
  Unit,          \* units behind the connection
  TicksPerMs,
  Timeout,       \* requestTimeout and connectTimeout, in ticks: whole milliseconds
  Addresses,     \* how many addresses the host's name has
  RequestSize,   \* bytes of a request
  ReadUpTo,      \* bytes of a reply that are read after each read of the protocol library
  MaxRequests    \* bound

ASSUME TransportAssumption ==
  /\ Unit # {}
  /\ {TicksPerMs, Addresses, RequestSize, MaxRequests} \subseteq Nat \ {0}
  /\ Timeout \in {k * TicksPerMs : k \in 1..Timeout}
  /\ ReadUpTo \in Seq(Nat \ {0}) /\ ReadUpTo # <<>>
  /\ \A j, k \in 1..Len(ReadUpTo) : j < k => ReadUpTo[j] < ReadUpTo[k]

VARIABLES
  kind,          \* "tcp" or "serial"
  pc,            \* "idle"; "connect", "select", "create"; "send" and "recv" before a wait,
                 \* "sending" and "receiving" in the kernel
  left,          \* time until the deadline of the call, -1 when it has passed
  limit,         \* time until the kernel gives up, or NoLimit
  opened,        \* the handle is open and the client created: isConnected(), isOpen()
  address,       \* the address that is tried
  request,       \* requests made so far
  asked,         \* per request, the unit it went to
  sent,          \* bytes of the request written
  part,          \* which of these reads is under way
  frame,         \* bytes of the reply read
  inbox,         \* bytes that have arrived
  coming,        \* per request, the bytes of its reply still to arrive
  accepted       \* the request whose reply was taken for the answer to this one, or 0
vars == <<kind, pc, left, limit, opened, address, request, asked, sent, part, frame, inbox, coming, accepted>>

Requests == 1..MaxRequests
NoLimit == -1
ReplySize == ReadUpTo[Len(ReadUpTo)]
NoReplies == [r \in Requests |-> 0]

\* A slip: each wait is given the whole timeout again.
LimitFull(l) == Timeout
\* setRecvTimeout(), setSendTimeout(): the whole milliseconds that are left become the
\* timeout of a socket, to which 0 means none; select() on a serial port polls with 0.
LimitOf(l) ==
  LET whole == (l \div TicksPerMs) * TicksPerMs IN IF kind = "tcp" /\ whole = 0 THEN NoLimit ELSE whole

Init ==
  /\ kind \in {"tcp", "serial"}
  /\ pc = "idle" /\ left = 0 /\ limit = NoLimit
  /\ opened = FALSE /\ address = 1
  /\ request = 0 /\ asked = [r \in Requests |-> CHOOSE u \in Unit : TRUE]
  /\ sent = 0 /\ part = 1 /\ frame = <<>>
  /\ inbox = <<>> /\ coming = NoReplies /\ accepted = 0

\* A transport callback begins: its deadline is set.
BeginCall(where) == pc' = where /\ left' = Timeout /\ UNCHANGED limit

\* disconnect(), close(): what has arrived is lost, with a TCP connection also what was on its
\* way; on a serial line a slow unit may go on and answer a port that was opened again.
Disconnected ==
  /\ opened' = FALSE /\ inbox' = <<>>
  /\ coming' = IF kind = "tcp" THEN NoReplies ELSE coming
\* A slip: the connection is kept.
FailKeeping == pc' = "idle" /\ UNCHANGED <<opened, inbox, coming>>
\* translateModbusError(): every failure but an exception of the device ends the connection.
Fail == Disconnected /\ pc' = "idle"

-----------------------------------------------------------------------------
\* A read or write is asked for, of any unit of a serial line.  ensureConnected(),
\* ensureOpen(): the connection of the request before is used again.
Request(u) ==
  /\ pc = "idle" /\ request < MaxRequests
  /\ kind = "tcp" => u = asked[1]
  /\ request' = request + 1 /\ asked' = [asked EXCEPT ![request + 1] = u]
  /\ sent' = 0 /\ part' = 1 /\ frame' = <<>> /\ address' = 1 /\ accepted' = 0
  /\ IF opened THEN BeginCall("send") ELSE pc' = "connect" /\ UNCHANGED <<left, limit>>
  /\ UNCHANGED <<kind, opened, inbox, coming>>

Unchanged == UNCHANGED <<kind, request, asked, accepted>>
Attempt == UNCHANGED <<opened, sent, part, frame, inbox, coming>> /\ Unchanged

\* TcpSocket::connect(): one address after the other, each with the whole timeout.
ConnectWaits ==
  /\ kind = "tcp" /\ pc = "connect" /\ address <= Addresses
  /\ pc' = "select" /\ left' = Timeout /\ limit' = Timeout
  /\ Attempt /\ UNCHANGED address
ConnectSucceeds ==
  /\ kind = "tcp" /\ pc \in {"connect", "select"} /\ address <= Addresses
  /\ pc' = "create"
  /\ Attempt /\ UNCHANGED <<address, left, limit>>
ConnectFails ==
  /\ kind = "tcp" /\ pc \in {"connect", "select"} /\ address <= Addresses
  /\ pc' = "connect" /\ address' = address + 1
  /\ Attempt /\ UNCHANGED <<left, limit>>
ConnectGivesUp ==
  /\ kind = "tcp" /\ pc = "connect" /\ address > Addresses
  /\ pc' = "idle"
  /\ Attempt /\ UNCHANGED <<address, left, limit>>

\* SerialPort::open(): the device is opened and configured, or not, and what has already
\* arrived is discarded.
OpenPort ==
  /\ kind = "serial" /\ pc = "connect"
  /\ pc' = "create" /\ inbox' = <<>>
  /\ UNCHANGED <<left, limit, opened, address, sent, part, frame, coming>> /\ Unchanged
OpenFails ==
  /\ kind = "serial" /\ pc = "connect"
  /\ pc' = "idle"
  /\ Attempt /\ UNCHANGED <<address, left, limit>>

\* nmbs_client_create(): with its failure the handle is closed again.
Create ==
  /\ pc = "create"
  /\ opened' = TRUE /\ BeginCall("send")
  /\ UNCHANGED <<address, sent, part, frame, inbox, coming>> /\ Unchanged
CreateFails ==
  /\ pc = "create"
  /\ Fail
  /\ UNCHANGED <<left, limit, address, sent, part, frame>> /\ Unchanged

-----------------------------------------------------------------------------
\* recvSome(), sendSome(): while bytes are missing and the deadline has not come, wait for
\* as long as is left of it.
SendMore ==
  /\ pc = "send" /\ left > 0
  /\ pc' = "sending" /\ limit' = LimitOf(left)
  /\ UNCHANGED <<left, address>> /\ Attempt
RecvMore ==
  /\ pc = "recv" /\ left > 0
  /\ pc' = "receiving" /\ limit' = LimitOf(left)
  /\ UNCHANGED <<left, address>> /\ Attempt

\* The kernel takes some of the bytes; a unit that got the request whole may answer it.
SendData(n) ==
  /\ pc = "sending" /\ sent + n <= RequestSize
  /\ sent' = sent + n
  /\ IF sent + n < RequestSize THEN pc' = "send" /\ UNCHANGED <<left, limit, coming>>
     ELSE BeginCall("recv") /\ coming' = [coming EXCEPT ![request] = ReplySize]
  /\ UNCHANGED <<opened, address, part, frame, inbox>> /\ Unchanged

\* What nanoMODBUS takes for the answer: on TCP the transaction of the request, on a serial
\* line a frame with a valid checksum from the unit the request went to.
Answers(bytes) ==
  /\ \A k \in DOMAIN bytes : bytes[k] = bytes[1]
  /\ IF kind = "tcp" THEN bytes[1] = request ELSE asked[bytes[1]] = asked[request]

\* Bytes that have arrived are read, not more than asked for.  A reply that is complete ends
\* the request, an exception in it as well; a frame that does not answer it is a failure.
Asked == ReadUpTo[part]
RecvData ==
  /\ pc = "receiving" /\ inbox # <<>>
  /\ LET n == Min({Len(inbox), Asked - Len(frame)})
         read == frame \o SubSeq(inbox, 1, n)
         rest == SubSeq(inbox, n + 1, Len(inbox))
     IN /\ frame' = read
        /\ CASE Len(read) < Asked ->
                  pc' = "recv" /\ inbox' = rest /\ UNCHANGED <<left, limit, opened, part, coming, accepted>>
             [] Len(read) = Asked /\ part < Len(ReadUpTo) ->
                  /\ BeginCall("recv") /\ part' = part + 1 /\ inbox' = rest
                  /\ UNCHANGED <<opened, coming, accepted>>
             [] Len(read) = ReplySize /\ Answers(read) ->
                  /\ pc' = "idle" /\ accepted' = read[1] /\ inbox' = rest
                  /\ UNCHANGED <<left, limit, opened, part, coming>>
             [] OTHER -> Fail /\ UNCHANGED <<left, limit, part, accepted>>
  /\ UNCHANGED <<kind, address, request, asked, sent>>

\* The deadline has come, the kernel has given up, or the connection is closed or broken: too
\* few bytes are returned, or -1, and the request has failed.
CallFails ==
  /\ \/ pc \in {"send", "recv"} /\ left <= 0
     \/ pc = "sending"
     \/ pc = "receiving" /\ (inbox = <<>> \/ limit # 0)
  /\ Fail
  /\ UNCHANGED <<left, limit, address, sent, part, frame>> /\ Unchanged

\* External: a byte of a reply arrives, of any unit that still has something to say.
Arrive(r) ==
  /\ coming[r] > 0
  /\ coming' = [coming EXCEPT ![r] = @ - 1] /\ inbox' = Append(inbox, r)
  /\ UNCHANGED <<kind, pc, left, limit, opened, address, request, asked, sent, part, frame, accepted>>
\* Time passes in a wait, until the kernel gives up.
Tick ==
  /\ pc \in {"select", "sending", "receiving"} /\ limit # 0
  /\ left' = Max({left - 1, -1}) /\ limit' = IF limit = NoLimit THEN NoLimit ELSE limit - 1
  /\ UNCHANGED address /\ Attempt /\ UNCHANGED pc
Finished == pc = "idle" /\ request = MaxRequests /\ UNCHANGED vars

Next ==
  \/ \E u \in Unit : Request(u)
  \/ ConnectWaits \/ ConnectSucceeds \/ ConnectFails \/ ConnectGivesUp
  \/ OpenPort \/ OpenFails \/ Create \/ CreateFails
  \/ SendMore \/ (\E n \in 1..RequestSize : SendData(n))
  \/ RecvMore \/ RecvData \/ CallFails
  \/ (\E r \in Requests : Arrive(r)) \/ Tick \/ Finished

Spec == Init /\ [][Next]_vars
-----------------------------------------------------------------------------
\* modbus_client.cpp, modbus_rtu_bus.cpp: nothing of another unit's reply is taken for an
\* answer, and on a TCP connection nothing of an earlier request: nothing of one is left,
\* whatever failed, when the next is sent.  On a serial line a late reply of the unit that is
\* asked again cannot be told from the new one's, and is taken for it.
RepliesBelong ==
  /\ kind = "tcp" /\ pc \notin {"idle", "connect", "select"} =>
       /\ \A k \in DOMAIN inbox : inbox[k] = request
       /\ \A r \in Requests : coming[r] > 0 => r = request
  /\ accepted # 0 => asked[accepted] = asked[request]

\* tcp_socket.cpp:260-261, tcp_socket.hpp:44-47: a receive waits for its bytes until "the
\* overall timeout elapses", however they trickle in; it is not found waiting after that.
InTime == pc = "receiving" => left >= 0
=============================================================================
