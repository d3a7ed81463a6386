---------------------------- MODULE SerialHardware ----------------------------
(***************************************************************************)
(* HardwareMMIODevice and SerialHardwareBus over WindowsSerialTransport,   *)
(* the serial line, and the ESP32 bridge firmware at its other end.  The   *)
(* host runs one transaction at a time and waits for its answer; a timeout *)
(* or a failed write abandons the transaction, and an answer to it may     *)
(* still be under way.  Messages are whole lines; they carry no number in  *)
(* the protocol, the field id is a history of which request they belong to.*)
(***************************************************************************)
EXTENDS Integers, Sequences

CONSTANTS
    Offsets,    \* registers the guest accesses
    Values,     \* values it writes
    Sensed,     \* values the input pins can show
    MaxRequests \* bound: requests sent

Writable == {"gpioOut", "pwm", "command"}

Inputs == {"gpioIn", "adc"}

ASSUME SerialAssumption ==
    /\ Offsets \subseteq Writable \cup Inputs \cup {"status"}
    /\ Values \subseteq Int
    /\ Sensed \subseteq Int
    /\ MaxRequests \in Nat

VARIABLES
    open,      \* WindowsSerialTransport::handle_ is set
    waiting,   \* the request whose answer transact waits for
    toDev,     \* lines on their way to the device
    half,      \* the device holds the beginning of a line (inputLine)
    toHost,    \* answers on their way to the host
    rx,        \* the serial driver's receive buffer
    reg,       \* gpioOutputValue, pwmOutputValue, commandValue
    sent,      \* history: requests sent
    dirty,     \* history: a transaction was abandoned and its answer may come
    applied,   \* history: request of the last write the device executed
    accepted   \* history: request of the last answer a transaction ended with

line == <<toDev, half, toHost, rx>>

history == <<sent, dirty, applied, accepted>>

vars == <<open, waiting, line, reg, history>>

\* A PING has no register and no value; what its record holds is never read.
NoRequest == [kind |-> "none", offset |-> "status", value |-> 0, id |-> 0]

Ping == [kind |-> "ping", offset |-> "status", value |-> 0, id |-> sent + 1]

ReadRequest(o) == [kind |-> "read", offset |-> o, value |-> 0, id |-> sent + 1]

WriteRequest(o, v) == [kind |-> "write", offset |-> o, value |-> v, id |-> sent + 1]

Answer(kind, v, id) == [kind |-> kind, value |-> v, id |-> id]

Idle == waiting = NoRequest

PowerOn == [o \in Writable |-> 0]

Init ==
    /\ open = FALSE
    /\ waiting = NoRequest
    /\ toDev = <<>> /\ half = FALSE /\ toHost = <<>> /\ rx = <<>>
    /\ reg = PowerOn
    /\ sent = 0 /\ dirty = FALSE /\ applied = 0 /\ accepted = 0

-------------------------------------------------------------------------------
(* The host.                                                                *)

\* A line written after an incomplete one reaches the device joined to it,
\* and no command begins like that.
OnLine(r, h) == IF h THEN [r EXCEPT !.kind = "garbled"] ELSE r

\* WriteFile and FlushFileBuffers succeed: transact waits for the answer.
\* The device holds the lines d and, if h, the beginning of one more.
Send(r, d, h) ==
    /\ sent < MaxRequests
    /\ toDev' = Append(d, OnLine(r, h))
    /\ half' = FALSE
    /\ waiting' = r
    /\ sent' = sent + 1

\* WriteFile fails before or after a part of the line, or FlushFileBuffers
\* after all of it: transact throws without waiting.
SendFails(r, d, h) ==
    /\ sent < MaxRequests
    /\ \/ toDev' = d /\ half' \in {h, TRUE}
       \/ toDev' = Append(d, OnLine(r, h)) /\ half' = FALSE
    /\ sent' = sent + 1
    /\ dirty' = TRUE
    /\ UNCHANGED waiting

\* WindowsSerialTransport::connect: what has arrived up to the second
\* PurgeComm is dropped.  Opening the port may reset the device.
OpenPort(d, h) ==
    \/ /\ d = toDev /\ h = half
       /\ \E n \in 0 .. Len(toHost) : toHost' = SubSeq(toHost, n + 1, Len(toHost))
       /\ UNCHANGED reg
    \/ d = <<>> /\ h = FALSE /\ toHost' = <<>> /\ reg' = PowerOn

\* SerialHardwareBus::connect sends PING over the opened port.
Connect ==
    /\ ~open /\ Idle
    /\ \E d \in {toDev, <<>>}, h \in {half, FALSE} :
           /\ OpenPort(d, h)
           /\ Send(Ping, d, h)
           /\ dirty' = (d # <<>> \/ h \/ toHost' # <<>>)
    /\ open' = TRUE
    /\ UNCHANGED <<rx, applied, accepted>>

\* The handshake cannot be sent: the port is closed again.
ConnectFails ==
    /\ ~open /\ Idle
    /\ \E d \in {toDev, <<>>}, h \in {half, FALSE} :
           OpenPort(d, h) /\ SendFails(Ping, d, h)
    /\ UNCHANGED <<open, rx, applied, accepted>>

\* CloseHandle drops the receive buffer.
Closed == open' = FALSE /\ rx' = <<>>

Disconnect ==
    /\ open /\ Idle
    /\ Closed
    /\ UNCHANGED <<waiting, toDev, half, toHost, reg, history>>

\* LOAD and STORE in the hardware window: requireConnected, then transact.
Transact(r) ==
    /\ open /\ Idle
    /\ \/ Send(r, toDev, half) /\ UNCHANGED dirty
       \/ SendFails(r, toDev, half)
    /\ UNCHANGED <<open, toHost, rx, reg, applied, accepted>>

readRegister(o) == Transact(ReadRequest(o))

writeRegister(o, v) == Transact(WriteRequest(o, v))

\* connect closes the port when the handshake throws.
Abandon == IF waiting.kind = "ping" THEN Closed ELSE UNCHANGED <<open, rx>>

\* ReadFile reports an error: transact throws and leaves what was buffered.
ReadFails ==
    /\ ~Idle
    /\ Abandon
    /\ waiting' = NoRequest
    /\ dirty' = TRUE
    /\ UNCHANGED <<toDev, half, toHost, reg, sent, applied, accepted>>

\* Mutant: the time runs only once the device has taken the request.
MutTimedOut == rx = <<>> /\ toDev = <<>> /\ toHost = <<>>

TimedOut == rx = <<>>

\* Mutant: a request that timed out is sent again.
MutTimeout ==
    /\ ~Idle
    /\ TimedOut
    /\ Len(toDev) < 2
    /\ toDev' = Append(toDev, OnLine(waiting, half))
    /\ UNCHANGED <<open, waiting, half, toHost, rx, reg, history>>

\* ReadFile returns no character in time.
Timeout == TimedOut /\ ReadFails

Expected(r) == CASE r.kind = "ping"  -> "pong"
                 [] r.kind = "read"  -> "value"
                 [] r.kind = "write" -> "ok"

\* Mutant: the line that was read stays in the buffer.
MutReceive ==
    /\ ~Idle
    /\ rx # <<>>
    /\ waiting' = NoRequest
    /\ accepted' = Head(rx).id
    /\ UNCHANGED <<open, line, reg, sent, dirty, applied>>

\* parseResponse and the type the operation expects; anything else throws.
Receive ==
    /\ ~Idle
    /\ rx # <<>>
    /\ waiting' = NoRequest
    /\ accepted' = Head(rx).id
    /\ IF waiting.kind = "ping" /\ Head(rx).kind # "pong"
       THEN Closed
       ELSE rx' = Tail(rx) /\ UNCHANGED open
    /\ UNCHANGED <<toDev, half, toHost, reg, sent, dirty, applied>>

Succeeds == ~Idle /\ rx # <<>> /\ Head(rx).kind = Expected(waiting)

-------------------------------------------------------------------------------
(* The line and the device.                                                 *)

Arrive ==
    /\ open /\ toHost # <<>>
    /\ rx' = Append(rx, Head(toHost))
    /\ toHost' = Tail(toHost)
    /\ UNCHANGED <<open, waiting, toDev, half, reg, history>>

Damaged(q) == [q EXCEPT ![1].kind = "garbled"]

\* Without flow control or a checksum a line can be lost, or damaged so that
\* the other side does not parse it.
Noise ==
    /\ \/ /\ toDev # <<>>
          /\ toDev' \in {Tail(toDev), Damaged(toDev)}
          /\ UNCHANGED toHost
       \/ /\ toHost # <<>>
          /\ toHost' \in {Tail(toHost), Damaged(toHost)}
          /\ UNCHANGED toDev
    /\ UNCHANGED <<open, waiting, half, rx, reg, history>>

\* readRegister of the firmware.
Shows(o) == IF o \in Inputs THEN Sensed
            ELSE IF o = "status" THEN {1} ELSE {reg[o]}

\* writeRegister of the firmware accepts the value.
Accepts(o, v) == o \in Writable /\ (o = "pwm" => v \in 0 .. 255)

\* Mutant: the reset command clears the command register as well.
MutWritten(o, v) == IF o = "command" /\ v = 1 THEN PowerOn ELSE [reg EXCEPT ![o] = v]

Written(o, v) == IF o = "command" /\ v = 1
                 THEN [PowerOn EXCEPT !["command"] = v] ELSE [reg EXCEPT ![o] = v]

Applies(r) == r.kind = "write" /\ Accepts(r.offset, r.value)

\* handleRead, handleWrite, sendPong and sendError.
Replies(r) ==
    IF r.kind = "ping" THEN {Answer("pong", 0, r.id)}
    ELSE IF r.kind = "read" THEN {Answer("value", v, r.id) : v \in Shows(r.offset)}
    ELSE {Answer(IF Applies(r) THEN "ok" ELSE "error", 0, r.id)}

\* handleLine: one line in, one answer out.
HandleLine ==
    /\ toDev # <<>>
    /\ toDev' = Tail(toDev)
    /\ LET r == Head(toDev)
       IN /\ \E a \in Replies(r) : toHost' = Append(toHost, a)
          /\ reg' = IF Applies(r) THEN Written(r.offset, r.value) ELSE reg
          /\ applied' = IF Applies(r) THEN r.id ELSE applied
    /\ UNCHANGED <<open, waiting, half, rx, sent, dirty, accepted>>

\* The guest makes no further access once the bound is reached.
Rest == sent = MaxRequests /\ Idle /\ UNCHANGED vars

Next ==
    \/ Connect
    \/ ConnectFails
    \/ Disconnect
    \/ \E o \in Offsets : readRegister(o)
    \/ \E o \in Offsets, v \in Values : writeRegister(o, v)
    \/ Timeout
    \/ ReadFails
    \/ Receive
    \/ Arrive
    \/ Noise
    \/ HandleLine
    \/ Rest

\* ReadFile returns within its timeout: the host's transaction goes on.
\* Nothing is assumed of the line and of the device.
Spec == Init /\ [][Next]_vars /\ WF_vars(Timeout \/ Receive)

-------------------------------------------------------------------------------

\* While nothing was abandoned on a connection, a transaction ends with the
\* answer to its own request and not with that to another.
AnswersMatch == [][Receive /\ ~dirty => accepted' = waiting.id]_vars

\* A write that succeeds while nothing was abandoned is in the register.
WritesConfirmed ==
    [][Receive /\ Succeeds /\ waiting.kind = "write" /\ ~dirty
       => reg[waiting.offset] = waiting.value]_vars

\* Whatever is lost, late or abandoned, no answer ends two transactions, the
\* device executes a write at most once, and neither happens out of order.
TrafficInOrder ==
    [][/\ Receive => accepted' > accepted
       /\ HandleLine /\ Applies(Head(toDev)) => applied' > applied]_vars

\* Every transaction ends, though the device may never answer.
TransactionsEnd == ~Idle ~> Idle
===============================================================================
