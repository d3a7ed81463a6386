------------------------- MODULE SerialHardwareProofs -------------------------
(***************************************************************************)
(* AnswersMatch, WritesConfirmed and TrafficInOrder for any registers,     *)
(* values and number of requests.  The invariant of the first two: on a    *)
(* connection on which nothing was abandoned, the line between host and    *)
(* device holds one message at most, it belongs to the request the host    *)
(* waits for, and an OK on its way means that the register has the value.  *)
(***************************************************************************)
EXTENDS SerialHardware, TLAPS

Registers == Writable \cup Inputs \cup {"status"}

Requests == [kind : {"none", "ping", "read", "write", "garbled"},
             offset : Registers, value : Int, id : Nat]

Answers == [kind : {"pong", "value", "ok", "error", "garbled"},
            value : Int, id : Nat]

TypeOK ==
    /\ open \in BOOLEAN /\ half \in BOOLEAN /\ dirty \in BOOLEAN
    /\ waiting \in Requests
    /\ toDev \in Seq(Requests)
    /\ toHost \in Seq(Answers)
    /\ rx \in Seq(Answers)
    /\ reg \in [Writable -> Int]
    /\ sent \in Nat

\* A request line is the current request, perhaps damaged.
Current(r) == /\ r.id = waiting.id
              /\ r.kind \in {waiting.kind, "garbled"}
              /\ r.offset = waiting.offset
              /\ r.value = waiting.value

Done == reg[waiting.offset] = waiting.value

\* An answer is that to the current request.
Answering(a) == /\ a.id = waiting.id
                /\ a.kind = "ok" /\ waiting.kind = "write" => Done

Quiet == Len(toDev) = 0 /\ Len(toHost) = 0 /\ Len(rx) = 0

OneMessage ==
    /\ Len(toDev) + Len(toHost) + Len(rx) <= 1
    /\ Len(toDev) = 1 => Current(toDev[1])
    /\ Len(toHost) = 1 => Answering(toHost[1])
    /\ Len(rx) = 1 => Answering(rx[1])

InSync == ~dirty => /\ ~half
                    /\ Idle => Quiet
                    /\ OneMessage

\* A closed port buffers nothing.
ClosedEmpty == ~open => Len(rx) = 0

SerialInv == TypeOK /\ InSync /\ ClosedEmpty

-------------------------------------------------------------------------------

LEMMA RequestTypes ==
    ASSUME TypeOK
    PROVE  /\ NoRequest \in Requests
           /\ Ping \in Requests
           /\ \A o \in Offsets : ReadRequest(o) \in Requests
           /\ \A o \in Offsets, v \in Values : WriteRequest(o, v) \in Requests
BY SerialAssumption
   DEF TypeOK, NoRequest, Ping, ReadRequest, WriteRequest, Requests, Registers

LEMMA OnLineFacts ==
    ASSUME NEW r \in Requests, NEW h \in BOOLEAN
    PROVE  /\ OnLine(r, h) \in Requests
           /\ OnLine(r, h).id = r.id
           /\ OnLine(r, h).kind \in {r.kind, "garbled"}
           /\ OnLine(r, h).offset = r.offset
           /\ OnLine(r, h).value = r.value
BY DEF OnLine, Requests

\* A request line that was written.
LEMMA SendTypes ==
    ASSUME TypeOK, NEW r \in Requests, NEW d \in Seq(Requests), NEW h \in BOOLEAN,
           Send(r, d, h) \/ SendFails(r, d, h)
    PROVE  /\ toDev' \in Seq(Requests)
           /\ half' \in BOOLEAN
           /\ waiting' \in Requests
           /\ sent' \in Nat
<1>1. OnLine(r, h) \in Requests
  BY OnLineFacts
<1>2. Append(d, OnLine(r, h)) \in Seq(Requests)
  BY <1>1
<1>3. sent' \in Nat
  <2>1. sent' = sent + 1
    BY Zenon DEF Send, SendFails
  <2> QED
    BY <2>1 DEF TypeOK
<1>4. half' \in BOOLEAN
  BY Zenon DEF Send, SendFails
<1>5. toDev' \in Seq(Requests)
  BY <1>2, Zenon DEF Send, SendFails
<1>6. waiting' \in Requests
  BY Zenon DEF Send, SendFails, TypeOK
<1> QED
  BY <1>3, <1>4, <1>5, <1>6

LEMMA OpenTypes ==
    ASSUME TypeOK, NEW d \in {toDev, <<>>}, NEW h \in {half, FALSE}, OpenPort(d, h)
    PROVE  /\ d \in Seq(Requests)
           /\ h \in BOOLEAN
           /\ toHost' \in Seq(Answers)
           /\ reg' \in [Writable -> Int]
<1>0. d \in Seq(Requests)
  <2>1. <<>> \in Seq(Requests)
    OBVIOUS
  <2> QED
    BY <2>1 DEF TypeOK
<1>1. h \in BOOLEAN
  BY Zenon DEF TypeOK
<1>2. PowerOn \in [Writable -> Int]
  BY DEF PowerOn
<1>3. <<>> \in Seq(Answers)
  OBVIOUS
<1>4. ASSUME NEW n \in 0 .. Len(toHost)
      PROVE  SubSeq(toHost, n + 1, Len(toHost)) \in Seq(Answers)
  <2>1. toHost \in Seq(Answers) /\ Len(toHost) \in Nat
    BY DEF TypeOK
  <2>2. \A i \in (n + 1) .. Len(toHost) : toHost[i] \in Answers
    BY <2>1
  <2> QED
    BY <2>1, <2>2
<1> QED
  BY <1>0, <1>1, <1>2, <1>3, <1>4 DEF OpenPort, TypeOK

LEMMA HeadTail ==
    ASSUME NEW S, NEW q \in Seq(S), q # <<>>
    PROVE  /\ Head(q) \in S /\ Head(q) = q[1]
           /\ Tail(q) \in Seq(S) /\ Len(Tail(q)) = Len(q) - 1
           /\ Len(q) \in Nat \ {0}
OBVIOUS

LEMMA AppendFacts ==
    ASSUME NEW S, NEW q \in Seq(S), NEW e \in S
    PROVE  /\ Append(q, e) \in Seq(S)
           /\ Len(Append(q, e)) = Len(q) + 1
           /\ Len(q) = 0 => Append(q, e)[1] = e
           /\ Len(q) \in Nat
OBVIOUS

\* A line damaged at its head.
LEMMA DamagedRequest ==
    ASSUME NEW q \in Seq(Requests), q # <<>>
    PROVE  /\ Damaged(q) \in Seq(Requests) /\ Len(Damaged(q)) = Len(q)
           /\ Damaged(q)[1].kind = "garbled" /\ Damaged(q)[1].id = q[1].id
           /\ Damaged(q)[1].offset = q[1].offset /\ Damaged(q)[1].value = q[1].value
<1>1. 1 \in 1 .. Len(q) /\ q[1] \in Requests
  BY HeadTail
<1>2. [q[1] EXCEPT !.kind = "garbled"] \in Requests
  BY <1>1 DEF Requests
<1> DEFINE g == [q EXCEPT ![1] = [q[1] EXCEPT !.kind = "garbled"]]
<1>3. g \in Seq(Requests) /\ Len(g) = Len(q) /\ g[1] = [q[1] EXCEPT !.kind = "garbled"]
  BY <1>1, <1>2
<1>4. g = Damaged(q)
  BY DEF Damaged
<1>5. /\ g[1].kind = "garbled" /\ g[1].id = q[1].id
      /\ g[1].offset = q[1].offset /\ g[1].value = q[1].value
  BY <1>1, <1>3 DEF Requests
<1> HIDE DEF g
<1> QED
  BY <1>3, <1>4, <1>5, Zenon

LEMMA DamagedAnswer ==
    ASSUME NEW q \in Seq(Answers), q # <<>>
    PROVE  /\ Damaged(q) \in Seq(Answers) /\ Len(Damaged(q)) = Len(q)
           /\ Damaged(q)[1].kind = "garbled" /\ Damaged(q)[1].id = q[1].id
<1>1. 1 \in 1 .. Len(q) /\ q[1] \in Answers
  BY HeadTail
<1>2. [q[1] EXCEPT !.kind = "garbled"] \in Answers
  BY <1>1 DEF Answers
<1> DEFINE g == [q EXCEPT ![1] = [q[1] EXCEPT !.kind = "garbled"]]
<1>3. g \in Seq(Answers) /\ Len(g) = Len(q) /\ g[1] = [q[1] EXCEPT !.kind = "garbled"]
  BY <1>1, <1>2
<1>4. g = Damaged(q)
  BY DEF Damaged
<1>5. g[1].kind = "garbled" /\ g[1].id = q[1].id
  BY <1>1, <1>3 DEF Answers
<1> HIDE DEF g
<1> QED
  BY <1>3, <1>4, <1>5, Zenon

\* What HandleLine does with the first line.
LEMMA HandleFacts ==
    ASSUME TypeOK, HandleLine
    PROVE  /\ toDev # <<>>
           /\ toDev' = Tail(toDev)
           /\ \E a \in Answers :
                 /\ toHost' = Append(toHost, a)
                 /\ a.id = Head(toDev).id
                 /\ a.kind = "ok" => Applies(Head(toDev))
           /\ reg' = IF Applies(Head(toDev))
                     THEN Written(Head(toDev).offset, Head(toDev).value) ELSE reg
           /\ UNCHANGED <<open, waiting, half, rx, sent, dirty>>
<1> DEFINE r == Head(toDev)
<1>1. toDev # <<>> /\ r \in Requests
  BY HeadTail DEF HandleLine, TypeOK
<1>2. ASSUME NEW k \in {"pong", "value", "ok", "error"}, NEW v \in Int
      PROVE  Answer(k, v, r.id) \in Answers /\ Answer(k, v, r.id).id = r.id
             /\ Answer(k, v, r.id).kind = k
  BY <1>1 DEF Answer, Answers, Requests
<1>3. Shows(r.offset) \subseteq Int
  <2>1. r.offset \in Registers
    BY <1>1 DEF Requests
  <2>2. r.offset \notin Inputs /\ r.offset # "status" => reg[r.offset] \in Int
    BY <2>1 DEF TypeOK, Registers
  <2>3. CASE r.offset \in Inputs
    BY <2>3, SerialAssumption, Zenon DEF Shows
  <2>4. CASE r.offset \notin Inputs /\ r.offset = "status"
    BY <2>4 DEF Shows
  <2>5. CASE r.offset \notin Inputs /\ r.offset # "status"
    BY <2>2, <2>5 DEF Shows
  <2> QED
    BY <2>3, <2>4, <2>5
<1>4. \A a \in Replies(r) : a \in Answers /\ a.id = r.id /\ (a.kind = "ok" => Applies(r))
  <2>1. CASE r.kind = "ping"
    BY <1>2, <2>1 DEF Replies
  <2>2. CASE r.kind = "read"
    BY <1>2, <1>3, <2>2 DEF Replies
  <2>3. CASE r.kind # "ping" /\ r.kind # "read" /\ Applies(r)
    BY <1>2, <2>3 DEF Replies
  <2>4. CASE r.kind # "ping" /\ r.kind # "read" /\ ~Applies(r)
    BY <1>2, <2>4 DEF Replies
  <2> QED
    BY <2>1, <2>2, <2>3, <2>4
<1> QED
  BY <1>1, <1>4 DEF HandleLine

\* An accepted value is in its register.
LEMMA WrittenFacts ==
    ASSUME TypeOK, NEW r \in Requests, Applies(r)
    PROVE  /\ Written(r.offset, r.value) \in [Writable -> Int]
           /\ Written(r.offset, r.value)[r.offset] = r.value
BY DEF Applies, Accepts, Written, PowerOn, TypeOK, Requests, Writable

-------------------------------------------------------------------------------

LEMMA InitInv == Init => SerialInv
<1> SUFFICES ASSUME Init PROVE SerialInv
  OBVIOUS
<1>1. toDev = <<>> /\ toHost = <<>> /\ rx = <<>>
  BY DEF Init
<1>2. toDev \in Seq(Requests) /\ toHost \in Seq(Answers) /\ rx \in Seq(Answers)
  BY <1>1
<1>3. waiting \in Requests
  BY DEF Init, NoRequest, Requests, Registers
<1>4. reg \in [Writable -> Int] /\ sent \in Nat
  BY DEF Init, PowerOn
<1>5. open \in BOOLEAN /\ half \in BOOLEAN /\ dirty \in BOOLEAN /\ ~half
  BY Zenon DEF Init
<1>6. Len(toDev) = 0 /\ Len(toHost) = 0 /\ Len(rx) = 0
  BY <1>1
<1> QED
  BY <1>2, <1>3, <1>4, <1>5, <1>6 DEF SerialInv, TypeOK, InSync, Quiet, OneMessage, ClosedEmpty

LEMMA StepTypes == TypeOK /\ [Next]_vars => TypeOK'
<1> SUFFICES ASSUME TypeOK, [Next]_vars PROVE TypeOK'
  OBVIOUS
<1>e. <<>> \in Seq(Answers) /\ NoRequest \in Requests
  BY RequestTypes
<1>1. CASE Connect \/ ConnectFails
  <2>1. PICK d \in {toDev, <<>>}, h \in {half, FALSE} :
            OpenPort(d, h) /\ (Send(Ping, d, h) \/ SendFails(Ping, d, h))
    BY <1>1 DEF Connect, ConnectFails
  <2>2. toHost' \in Seq(Answers) /\ reg' \in [Writable -> Int]
        /\ d \in Seq(Requests) /\ h \in BOOLEAN
    BY <2>1, OpenTypes
  <2>3. toDev' \in Seq(Requests) /\ half' \in BOOLEAN /\ waiting' \in Requests
        /\ sent' \in Nat
    BY <2>1, <2>2, RequestTypes, SendTypes
  <2>4. open' \in BOOLEAN
    BY <1>1, Zenon DEF Connect, ConnectFails, TypeOK
  <2>5. dirty' \in BOOLEAN
    BY <1>1, Zenon DEF Connect, ConnectFails, SendFails
  <2>6. rx' = rx
    BY <1>1 DEF Connect, ConnectFails
  <2> QED
    BY <2>2, <2>3, <2>4, <2>5, <2>6 DEF TypeOK
<1>2. CASE Disconnect
  BY <1>2, <1>e DEF Disconnect, Closed, TypeOK, history
<1>3. CASE (\E o \in Offsets : readRegister(o))
           \/ \E o \in Offsets, v \in Values : writeRegister(o, v)
  <2>1. PICK r \in Requests : Transact(r)
    BY <1>3, RequestTypes DEF readRegister, writeRegister
  <2>2. half \in BOOLEAN /\ toDev \in Seq(Requests)
    BY DEF TypeOK
  <2>3. Send(r, toDev, half) \/ SendFails(r, toDev, half)
    BY <2>1, Zenon DEF Transact
  <2>4. toDev' \in Seq(Requests) /\ half' \in BOOLEAN /\ waiting' \in Requests
        /\ sent' \in Nat
    BY <2>2, <2>3, SendTypes
  <2>5. dirty' \in BOOLEAN
    BY <2>1, Zenon DEF Transact, SendFails, TypeOK
  <2> QED
    BY <2>1, <2>4, <2>5 DEF Transact, TypeOK
<1>4. CASE ReadFails
  <2>1. open' \in BOOLEAN
    BY <1>4, Zenon DEF ReadFails, Abandon, Closed, TypeOK
  <2>2. rx' \in Seq(Answers)
    BY <1>4, <1>e, Zenon DEF ReadFails, Abandon, Closed, TypeOK
  <2> QED
    BY <1>4, <1>e, <2>1, <2>2 DEF ReadFails, TypeOK
<1>5. CASE Receive
  <2>1. Tail(rx) \in Seq(Answers)
    BY <1>5, HeadTail DEF Receive, TypeOK
  <2>2. open' \in BOOLEAN
    BY <1>5, Zenon DEF Receive, Closed, TypeOK
  <2>3. rx' \in Seq(Answers)
    BY <1>5, <1>e, <2>1, Zenon DEF Receive, Closed, TypeOK
  <2> QED
    BY <1>5, <1>e, <2>2, <2>3 DEF Receive, TypeOK
<1>6. CASE Arrive
  <2>1. Head(toHost) \in Answers /\ Tail(toHost) \in Seq(Answers)
    BY <1>6, HeadTail DEF Arrive, TypeOK
  <2> QED
    BY <1>6, <2>1 DEF Arrive, TypeOK, history
<1>7. CASE Noise
  <2>1. toDev' \in Seq(Requests)
    <3>1. toDev # <<>> => Tail(toDev) \in Seq(Requests) /\ Damaged(toDev) \in Seq(Requests)
      BY HeadTail, DamagedRequest DEF TypeOK
    <3> QED
      BY <1>7, <3>1, Zenon DEF Noise, TypeOK
  <2>2. toHost' \in Seq(Answers)
    <3>1. toHost # <<>> => Tail(toHost) \in Seq(Answers) /\ Damaged(toHost) \in Seq(Answers)
      BY HeadTail, DamagedAnswer DEF TypeOK
    <3> QED
      BY <1>7, <3>1, Zenon DEF Noise, TypeOK
  <2> QED
    BY <1>7, <2>1, <2>2 DEF Noise, TypeOK, history
<1>8. CASE HandleLine
  <2>1. PICK a \in Answers : toHost' = Append(toHost, a)
    BY <1>8, HandleFacts
  <2>2. Head(toDev) \in Requests /\ Tail(toDev) \in Seq(Requests)
    BY <1>8, HeadTail DEF HandleLine, TypeOK
  <2>3. reg' \in [Writable -> Int]
    BY <1>8, <2>2, HandleFacts, WrittenFacts DEF TypeOK
  <2>4. toHost' \in Seq(Answers) /\ toDev' \in Seq(Requests)
    BY <1>8, <2>1, <2>2, HandleFacts, AppendFacts DEF TypeOK
  <2> QED
    BY <1>8, <2>3, <2>4, HandleFacts DEF TypeOK
<1>9. CASE UNCHANGED vars
  BY <1>9 DEF vars, line, history, TypeOK
<1> QED
  BY <1>1, <1>2, <1>3, <1>4, <1>5, <1>6, <1>7, <1>8, <1>9 DEF Next, Rest, Timeout

LEMMA StepClosed == TypeOK /\ ClosedEmpty /\ [Next]_vars => ClosedEmpty'
<1> SUFFICES ASSUME TypeOK, ClosedEmpty, [Next]_vars, ~open' PROVE Len(rx') = 0
  BY DEF ClosedEmpty
<1>1. CASE UNCHANGED <<open, rx>>
  BY <1>1 DEF ClosedEmpty
<1>2. CASE rx' = <<>>
  BY <1>2
<1>3. CASE Connect \/ Arrive
  <2>1. Arrive => open /\ open' = open
    BY DEF Arrive
  <2>2. Connect => open'
    BY DEF Connect
  <2> QED
    BY <1>3, <2>1, <2>2
<1>5. CASE Receive \/ ReadFails \/ Disconnect
  <2>1. rx' = <<>> \/ open' = open
    BY <1>5, Zenon DEF Receive, ReadFails, Abandon, Closed, Disconnect
  <2>2. open' = open => ~open
    OBVIOUS
  <2>3. ~open => rx = <<>>
    BY DEF ClosedEmpty, TypeOK
  <2>4. Receive => rx # <<>>
    BY DEF Receive
  <2>5. ReadFails \/ Disconnect => rx' = <<>> \/ rx' = rx
    BY Zenon DEF ReadFails, Abandon, Disconnect, Closed
  <2>7. rx' = <<>>
    BY <1>5, <2>1, <2>2, <2>3, <2>4, <2>5, Zenon
  <2> QED
    BY <2>7
<1>4. CASE ConnectFails \/ Noise \/ HandleLine \/ Rest
           \/ (\E o \in Offsets : readRegister(o))
           \/ \E o \in Offsets, v \in Values : writeRegister(o, v)
  BY <1>1, <1>4, Zenon DEF ConnectFails, Noise, HandleLine, Rest, readRegister,
                    writeRegister, Transact, vars, line
<1> QED
  BY <1>1, <1>3, <1>4, <1>5, Zenon DEF Next, Timeout, vars, line

\* The two ways a request gets on a line that was quiet.
LEMMA SendSync ==
    ASSUME TypeOK, TypeOK', NEW r \in Requests, r.kind # "none",
           NEW d \in Seq(Requests), Len(d) = 0, Send(r, d, FALSE),
           Len(toHost') = 0, Len(rx') = 0
    PROVE  ~half' /\ ~Idle' /\ OneMessage'
<1>1. toDev' = Append(d, r) /\ waiting' = r
  BY DEF Send, OnLine
<1>2. Len(toDev') = 1 /\ toDev'[1] = r
  BY <1>1, AppendFacts
<1>3. ~Idle'
  BY <1>1 DEF Idle, NoRequest
<1>4. ~half'
  BY Zenon DEF Send
<1>5. OneMessage'
  BY <1>1, <1>2 DEF OneMessage, Current
<1> QED
  BY <1>3, <1>4, <1>5

LEMMA StepSync == SerialInv /\ [Next]_vars => InSync'
<1> SUFFICES ASSUME SerialInv, [Next]_vars, ~dirty'
             PROVE  ~half' /\ (Idle' => Quiet') /\ OneMessage'
  BY DEF InSync
<1> USE DEF SerialInv
<1>t. TypeOK /\ TypeOK'
  BY StepTypes
<1>l. /\ Len(toDev) \in Nat /\ Len(toHost) \in Nat /\ Len(rx) \in Nat
      /\ Len(toDev') \in Nat /\ Len(toHost') \in Nat /\ Len(rx') \in Nat
  BY <1>t DEF TypeOK
<1>s. ~dirty => ~half /\ (Idle => Quiet) /\ OneMessage
  BY DEF InSync
<1>m. ~dirty => /\ Len(toDev) + Len(toHost) + Len(rx) <= 1
                /\ Len(toDev) = 1 => Current(toDev[1])
                /\ Len(toHost) = 1 => Answering(toHost[1])
                /\ Len(rx) = 1 => Answering(rx[1])
  BY <1>s DEF OneMessage
<1>d. toDev # <<>> => /\ Len(toDev) # 0 /\ Len(Tail(toDev)) = Len(toDev) - 1
                      /\ Head(toDev) = toDev[1] /\ Head(toDev) \in Requests
  BY <1>t, HeadTail DEF TypeOK
<1>h. toHost # <<>> => /\ Len(toHost) # 0 /\ Len(Tail(toHost)) = Len(toHost) - 1
                       /\ Head(toHost) = toHost[1] /\ Head(toHost) \in Answers
  BY <1>t, HeadTail DEF TypeOK
<1>x. rx # <<>> => Len(rx) # 0 /\ Len(Tail(rx)) = Len(rx) - 1
  BY <1>t, HeadTail DEF TypeOK
<1>p. /\ Ping.kind # "none"
      /\ \A o \in Offsets : ReadRequest(o).kind # "none"
      /\ \A o \in Offsets, v \in Values : WriteRequest(o, v).kind # "none"
  BY DEF Ping, ReadRequest, WriteRequest
<1>1. CASE Connect
  <2>1. PICK d \in {toDev, <<>>}, h \in {half, FALSE} :
            /\ OpenPort(d, h) /\ Send(Ping, d, h)
            /\ dirty' = (d # <<>> \/ h \/ toHost' # <<>>)
    BY <1>1 DEF Connect
  <2>2. d = <<>> /\ ~h /\ toHost' = <<>>
    BY <2>1, Zenon
  <2>3. h = FALSE
    BY <2>2, <1>t, Zenon DEF TypeOK
  <2>4. Send(Ping, <<>>, FALSE)
    BY <2>1, <2>2, <2>3, Zenon
  <2>5. Len(rx') = 0 /\ Len(toHost') = 0
    <3>1. ~open /\ rx' = rx
      BY <1>1 DEF Connect
    <3> QED
      BY <3>1, <2>2 DEF ClosedEmpty
  <2>6. <<>> \in Seq(Requests) /\ Len(<<>>) = 0
    OBVIOUS
  <2>7. ~half' /\ ~Idle' /\ OneMessage'
    BY <1>t, <1>p, <2>4, <2>5, <2>6, RequestTypes, SendSync
  <2> QED
    BY <2>7
<1>2. CASE ConnectFails
  BY <1>2, Zenon DEF ConnectFails, SendFails
<1>3. CASE Disconnect
  <2>1. Idle /\ ~dirty /\ rx' = <<>> /\ UNCHANGED <<waiting, toDev, half, toHost>>
    BY <1>3 DEF Disconnect, Closed, history
  <2>2. Len(toDev') = 0 /\ Len(toHost') = 0 /\ Len(rx') = 0
    BY <2>1, <1>s DEF Quiet
  <2>3. ~half'
    BY <2>1, <1>s, Zenon
  <2> QED
    BY <2>2, <2>3 DEF Quiet, OneMessage
<1>4. CASE (\E o \in Offsets : readRegister(o))
           \/ \E o \in Offsets, v \in Values : writeRegister(o, v)
  <2>1. PICK r \in Requests : Transact(r) /\ r.kind # "none"
    BY <1>4, <1>t, <1>p, RequestTypes DEF readRegister, writeRegister
  <2>2. Idle /\ Send(r, toDev, half) /\ ~dirty /\ UNCHANGED <<toHost, rx>>
    <3>1. ~SendFails(r, toDev, half)
      BY Zenon DEF SendFails
    <3>2. Send(r, toDev, half) /\ dirty' = dirty
      BY <2>1, <3>1, Zenon DEF Transact
    <3>3. Idle /\ UNCHANGED <<toHost, rx>>
      BY <2>1 DEF Transact
    <3> QED
      BY <3>2, <3>3, Zenon
  <2>3. half = FALSE
    BY <2>2, <1>s, <1>t, Zenon DEF TypeOK
  <2>4. Quiet
    BY <2>2, <1>s
  <2>5. Send(r, toDev, FALSE)
    BY <2>2, <2>3, Zenon
  <2>6. toDev \in Seq(Requests)
    BY <1>t DEF TypeOK
  <2>7. Len(toDev) = 0 /\ Len(toHost') = 0 /\ Len(rx') = 0
    BY <2>2, <2>4 DEF Quiet
  <2>8. ~half' /\ ~Idle' /\ OneMessage'
    BY <1>t, <2>1, <2>5, <2>6, <2>7, SendSync
  <2> QED
    BY <2>8
<1>5. CASE ReadFails
  BY <1>5, Zenon DEF ReadFails
<1>6. CASE Receive
  <2>1. ~dirty /\ rx # <<>> /\ UNCHANGED <<toDev, half, toHost>>
    BY <1>6 DEF Receive
  <2>2. Len(rx) = 1 /\ Len(toDev) = 0 /\ Len(toHost) = 0
    BY <2>1, <1>m, <1>l, <1>x
  <2>3. rx' = <<>> \/ rx' = Tail(rx)
    BY <1>6, Zenon DEF Receive, Closed
  <2>4. Len(rx') = 0
    BY <2>1, <2>2, <2>3, <1>x
  <2>5. ~half'
    BY <2>1, <1>s, Zenon
  <2> QED
    BY <2>1, <2>2, <2>4, <2>5 DEF Quiet, OneMessage
<1>7. CASE Arrive
  <2>1. toHost # <<>> /\ rx' = Append(rx, Head(toHost)) /\ toHost' = Tail(toHost)
        /\ UNCHANGED <<waiting, toDev, half, reg, dirty>>
    BY <1>7 DEF Arrive, history
  <2>2. ~dirty /\ ~half'
    BY <2>1, <1>s, Zenon
  <2>3. Len(toHost) = 1 /\ Len(rx) = 0 /\ Len(toDev) = 0 /\ Answering(toHost[1])
        /\ Head(toHost) = toHost[1] /\ Head(toHost) \in Answers
        /\ Len(Tail(toHost)) = 0
    BY <2>1, <2>2, <1>m, <1>l, <1>h
  <2>4. Len(rx') = 1 /\ rx'[1] = toHost[1] /\ Len(toHost') = 0 /\ Len(toDev') = 0
    BY <2>1, <2>3, <1>t, AppendFacts DEF TypeOK
  <2>6. Answering(rx[1])'
    BY <2>1, <2>3, <2>4 DEF Answering, Done
  <2>7. ~Idle'
    BY <2>1, <2>2, <2>3, <1>s DEF Idle, Quiet
  <2> QED
    BY <2>2, <2>4, <2>6, <2>7 DEF OneMessage
<1>8. CASE Noise
  <2>1. UNCHANGED <<waiting, half, rx, reg, dirty>>
    BY <1>8 DEF Noise, history
  <2>2. ~dirty /\ ~half'
    BY <2>1, <1>s, Zenon
  <2>3. CASE /\ toDev # <<>>
             /\ toDev' \in {Tail(toDev), Damaged(toDev)}
             /\ UNCHANGED toHost
    <3>1. Len(toDev) = 1 /\ Len(toHost) = 0 /\ Len(rx) = 0 /\ Current(toDev[1])
      BY <2>2, <2>3, <1>m, <1>l, <1>d
    <3>2. ~Idle'
      BY <2>1, <2>2, <3>1, <1>s DEF Idle, Quiet
    <3>3. CASE toDev' = Tail(toDev)
      <4>1. Len(toDev') = 0 /\ Len(toHost') = 0 /\ Len(rx') = 0
        BY <2>1, <2>3, <3>1, <3>3, <1>d
      <4> QED
        BY <2>2, <3>2, <4>1 DEF OneMessage
    <3>4. CASE toDev' = Damaged(toDev)
      <4>1. /\ Len(toDev') = 1 /\ toDev'[1].kind = "garbled" /\ toDev'[1].id = toDev[1].id
            /\ toDev'[1].offset = toDev[1].offset /\ toDev'[1].value = toDev[1].value
        BY <2>3, <3>1, <3>4, <1>t, DamagedRequest DEF TypeOK
      <4> QED
        BY <2>1, <2>2, <2>3, <3>1, <3>2, <4>1 DEF OneMessage, Current
    <3> QED
      BY <2>3, <3>3, <3>4
  <2>4. CASE /\ toHost # <<>>
             /\ toHost' \in {Tail(toHost), Damaged(toHost)}
             /\ UNCHANGED toDev
    <3>1. Len(toHost) = 1 /\ Len(toDev) = 0 /\ Len(rx) = 0 /\ Answering(toHost[1])
      BY <2>2, <2>4, <1>m, <1>l, <1>h
    <3>2. ~Idle'
      BY <2>1, <2>2, <3>1, <1>s DEF Idle, Quiet
    <3>3. CASE toHost' = Tail(toHost)
      <4>1. Len(toDev') = 0 /\ Len(toHost') = 0 /\ Len(rx') = 0
        BY <2>1, <2>4, <3>1, <3>3, <1>h
      <4> QED
        BY <2>2, <3>2, <4>1 DEF OneMessage
    <3>4. CASE toHost' = Damaged(toHost)
      <4>1. Len(toHost') = 1 /\ toHost'[1].kind = "garbled" /\ toHost'[1].id = toHost[1].id
        BY <2>4, <3>1, <3>4, <1>t, DamagedAnswer DEF TypeOK
      <4> QED
        BY <2>1, <2>2, <2>4, <3>1, <3>2, <4>1 DEF OneMessage, Answering
    <3> QED
      BY <2>4, <3>3, <3>4
  <2> QED
    BY <1>8, <2>3, <2>4 DEF Noise
<1>9. CASE HandleLine
  <2>1. toDev # <<>> /\ toDev' = Tail(toDev) /\ UNCHANGED <<waiting, half, rx, dirty>>
    BY <1>9, <1>t, HandleFacts
  <2>2. ~dirty /\ ~half'
    BY <2>1, <1>s, Zenon
  <2> DEFINE r == Head(toDev)
  <2>3. Len(toDev) = 1 /\ Len(toHost) = 0 /\ Len(rx) = 0 /\ Current(r) /\ r \in Requests
        /\ Len(toDev') = 0
    BY <2>1, <2>2, <1>m, <1>l, <1>d
  <2>4. ~Idle'
    BY <2>1, <2>2, <2>3, <1>s DEF Idle, Quiet
  <2>5. PICK a \in Answers : /\ toHost' = Append(toHost, a)
                             /\ a.id = r.id
                             /\ a.kind = "ok" => Applies(r)
    BY <1>9, <1>t, HandleFacts
  <2>6. Len(toHost') = 1 /\ toHost'[1] = a
    BY <2>3, <2>5, <1>t, AppendFacts DEF TypeOK
  <2>7. a.kind = "ok" => reg'[waiting.offset] = waiting.value
    <3> SUFFICES ASSUME a.kind = "ok" PROVE reg'[waiting.offset] = waiting.value
      OBVIOUS
    <3>1. Applies(r) /\ reg' = Written(r.offset, r.value)
      BY <2>5, <1>9, <1>t, HandleFacts
    <3> QED
      BY <2>3, <3>1, <1>t, WrittenFacts DEF Current
  <2>8. Answering(toHost[1])'
    BY <2>1, <2>3, <2>5, <2>6, <2>7 DEF Answering, Done, Current
  <2> QED
    <3>1. Len(toDev') = 0 /\ Len(rx') = 0
      BY <2>1, <2>3
    <3> QED
      BY <2>2, <2>4, <2>6, <2>8, <3>1 DEF OneMessage
<1>10. CASE UNCHANGED vars
  BY <1>10, <1>s DEF vars, line, history, Idle, Quiet, OneMessage, Current,
                     Answering, Done
<1> QED
  BY <1>1, <1>2, <1>3, <1>4, <1>5, <1>6, <1>7, <1>8, <1>9, <1>10 DEF Next, Rest, Timeout

-------------------------------------------------------------------------------

\* Between a connection on which nothing was abandoned and the device, one
\* message at most is under way, and it belongs to the request in progress.
THEOREM SerialInvariant == Spec => []SerialInv
<1>1. SerialInv /\ [Next]_vars => SerialInv'
  BY StepTypes, StepClosed, StepSync DEF SerialInv
<1> QED
  BY InitInv, <1>1, PTL DEF Spec

\* What ReadFile finds on a connection with nothing abandoned is the answer to
\* the request in progress.
LEMMA AnswerAtHand ==
    ASSUME SerialInv, ~dirty, rx # <<>>
    PROVE  Head(rx) = rx[1] /\ Answering(rx[1])
<1>1. Len(rx) # 0 /\ Head(rx) = rx[1]
  BY HeadTail DEF SerialInv, TypeOK
<1>2. Len(toDev) \in Nat /\ Len(toHost) \in Nat /\ Len(rx) \in Nat
  BY DEF SerialInv, TypeOK
<1>3. OneMessage
  BY DEF SerialInv, InSync
<1>4. Len(toDev) + Len(toHost) + Len(rx) <= 1
  BY <1>3 DEF OneMessage
<1>5. Len(rx) = 1
  BY <1>1, <1>2, <1>4
<1>6. Answering(rx[1])
  BY <1>3, <1>5, Zenon DEF OneMessage
<1> QED
  BY <1>1, <1>6

\* While no timeout and no failed write left an answer behind, a transaction
\* of SerialHardwareBus ends with the answer to its own request.
THEOREM TransactionsMatch == Spec => AnswersMatch
<1>1. SerialInv /\ [Next]_vars => [Receive /\ ~dirty => accepted' = waiting.id]_vars
  <2> SUFFICES ASSUME SerialInv, Receive, ~dirty PROVE accepted' = waiting.id
    OBVIOUS
  <2>1. rx # <<>> /\ accepted' = Head(rx).id
    BY DEF Receive
  <2>2. Head(rx) = rx[1] /\ Answering(rx[1])
    BY <2>1, AnswerAtHand
  <2> QED
    BY <2>1, <2>2 DEF Answering
<1> QED
  BY SerialInvariant, <1>1, PTL DEF Spec, AnswersMatch

\* A write for which the bus reports success on such a connection is in the
\* register of the device.
THEOREM ConfirmedWritesHold == Spec => WritesConfirmed
<1>1. SerialInv /\ [Next]_vars
      => [Receive /\ Succeeds /\ waiting.kind = "write" /\ ~dirty
          => reg[waiting.offset] = waiting.value]_vars
  <2> SUFFICES ASSUME SerialInv, Receive, Succeeds, waiting.kind = "write", ~dirty
               PROVE  reg[waiting.offset] = waiting.value
    OBVIOUS
  <2>1. rx # <<>> /\ Head(rx).kind = "ok"
    BY DEF Succeeds, Expected
  <2>2. Head(rx) = rx[1] /\ Answering(rx[1])
    BY <2>1, AnswerAtHand
  <2> QED
    BY <2>1, <2>2 DEF Answering, Done
<1> QED
  BY SerialInvariant, <1>1, PTL DEF Spec, WritesConfirmed

-------------------------------------------------------------------------------
(* The order of requests and answers, abandoned ones included.  The numbers *)
(* of the messages rise along the way from the receive buffer over the line *)
(* and the device to the newest request.                                    *)

Ids(q) == [i \in 1 .. Len(q) |-> q[i].id]

\* The first k, m numbers of x, y.
Numbers(k, x) == k \in Nat /\ \A i \in 1 .. k : x[i] \in Nat

Rising(k, x) == \A i, j \in 1 .. k : i < j => x[i] < x[j]

Before(k, x, m, y) == \A i \in 1 .. k, j \in 1 .. m : x[i] < y[j]

Between(lo, k, x, hi) == \A i \in 1 .. k : lo < x[i] /\ x[i] <= hi

\* x waits in the receive buffer, y is on the way to the host and z on the way
\* to the device; got was accepted last, done executed last, last sent last.
InOrder(got, done, last, k, x, m, y, n, z) ==
    /\ got <= last /\ done <= last
    /\ Rising(k, x) /\ Rising(m, y) /\ Rising(n, z)
    /\ Before(k, x, m, y) /\ Before(k, x, n, z) /\ Before(m, y, n, z)
    /\ Between(got, k, x, last) /\ Between(got, m, y, last) /\ Between(got, n, z, last)
    /\ Between(done, n, z, last)

OrderInv ==
    /\ accepted \in Nat /\ applied \in Nat
    /\ InOrder(accepted, applied, sent, Len(rx), Ids(rx), Len(toHost), Ids(toHost),
               Len(toDev), Ids(toDev))

\* x2 is x without its first d.
Dropped(d, k, x, k2, x2) ==
    /\ d \in Nat /\ k2 = k - d
    /\ \A i \in 1 .. k2 : x2[i] = x[i + d]

LEMMA OrderKept ==
    ASSUME NEW got \in Nat, NEW done \in Nat, NEW last \in Nat,
           NEW k, NEW m, NEW n, NEW x, NEW y, NEW z,
           Numbers(k, x), Numbers(m, y), Numbers(n, z),
           InOrder(got, done, last, k, x, m, y, n, z)
    PROVE  \A k2, x2, a : Numbers(k2, x2) /\ Dropped(a, k, x, k2, x2) =>
             \A m2, y2, b : Numbers(m2, y2) /\ Dropped(b, m, y, m2, y2) =>
               \A n2, z2, c : Numbers(n2, z2) /\ Dropped(c, n, z, n2, z2) =>
                 InOrder(got, done, last, k2, x2, m2, y2, n2, z2)
<1> SUFFICES ASSUME NEW k2, NEW m2, NEW n2, NEW x2, NEW y2, NEW z2, NEW a, NEW b, NEW c,
                    Numbers(k2, x2), Numbers(m2, y2), Numbers(n2, z2),
                    Dropped(a, k, x, k2, x2), Dropped(b, m, y, m2, y2),
                    Dropped(c, n, z, n2, z2)
             PROVE  InOrder(got, done, last, k2, x2, m2, y2, n2, z2)
  BY Zenon
<1>1. /\ \A i \in 1 .. k2 : i + a \in 1 .. k /\ x2[i] = x[i + a]
      /\ \A i \in 1 .. m2 : i + b \in 1 .. m /\ y2[i] = y[i + b]
      /\ \A i \in 1 .. n2 : i + c \in 1 .. n /\ z2[i] = z[i + c]
      /\ a \in Nat /\ b \in Nat /\ c \in Nat
      /\ k \in Nat /\ m \in Nat /\ n \in Nat /\ k2 \in Nat /\ m2 \in Nat /\ n2 \in Nat
  BY DEF Dropped, Numbers
<1>2. Rising(k2, x2) /\ Rising(m2, y2) /\ Rising(n2, z2)
  BY <1>1 DEF InOrder, Rising
<1>3. Before(k2, x2, m2, y2) /\ Before(k2, x2, n2, z2) /\ Before(m2, y2, n2, z2)
  BY <1>1 DEF InOrder, Before
<1>4. /\ Between(got, k2, x2, last) /\ Between(got, m2, y2, last)
      /\ Between(got, n2, z2, last) /\ Between(done, n2, z2, last)
  BY <1>1 DEF InOrder, Between
<1> QED BY <1>2, <1>3, <1>4 DEF InOrder

\* z2 is z with e behind it.
Added(e, n, z, n2, z2) ==
    /\ n2 = n + 1 /\ z2[n2] = e
    /\ \A i \in 1 .. n : z2[i] = z[i]

\* A new request is the last and the highest.
LEMMA OrderSent ==
    ASSUME NEW got \in Nat, NEW done \in Nat, NEW last \in Nat,
           NEW k, NEW m, NEW n, NEW x, NEW y, NEW z,
           Numbers(k, x), Numbers(m, y), Numbers(n, z),
           InOrder(got, done, last, k, x, m, y, n, z)
    PROVE  /\ InOrder(got, done, last + 1, k, x, m, y, n, z)
           /\ \A n2, z2 : Added(last + 1, n, z, n2, z2) =>
                InOrder(got, done, last + 1, k, x, m, y, n2, z2)
<1>1. /\ Between(got, k, x, last + 1) /\ Between(got, m, y, last + 1)
      /\ Between(got, n, z, last + 1) /\ Between(done, n, z, last + 1)
      /\ got <= last + 1 /\ done <= last + 1
  BY DEF InOrder, Between, Numbers
<1>2. InOrder(got, done, last + 1, k, x, m, y, n, z)
  BY <1>1 DEF InOrder
<1>3. ASSUME NEW n2, NEW z2, Added(last + 1, n, z, n2, z2)
      PROVE  InOrder(got, done, last + 1, k, x, m, y, n2, z2)
  <2>1. Rising(n2, z2)
    BY <1>3 DEF InOrder, Rising, Between, Added, Numbers
  <2>2. Before(k, x, n2, z2) /\ Before(m, y, n2, z2)
    BY <1>3 DEF InOrder, Before, Between, Added, Numbers
  <2>3. Between(got, n2, z2, last + 1) /\ Between(done, n2, z2, last + 1)
    BY <1>3 DEF InOrder, Between, Added, Numbers
  <2> QED BY <1>1, <2>1, <2>2, <2>3 DEF InOrder
<1> QED BY <1>2, <1>3

\* The device takes its first line: the answer is the newest on the way back.
LEMMA OrderHandled ==
    ASSUME NEW got \in Nat, NEW done \in Nat, NEW last \in Nat,
           NEW k, NEW m, NEW n, NEW x, NEW y, NEW z,
           Numbers(k, x), Numbers(m, y), Numbers(n, z), n # 0,
           NEW m2, NEW n2, NEW y2, NEW z2,
           Added(z[1], m, y, m2, y2), Dropped(1, n, z, n2, z2),
           InOrder(got, done, last, k, x, m, y, n, z)
    PROVE  /\ InOrder(got, done, last, k, x, m2, y2, n2, z2)
           /\ InOrder(got, z[1], last, k, x, m2, y2, n2, z2)
           /\ z[1] > done
<1>1. /\ n2 = n - 1 /\ \A i \in 1 .. n2 : i + 1 \in 1 .. n /\ z2[i] = z[i + 1]
      /\ n \in Nat /\ 1 \in 1 .. n /\ z[1] \in Nat
  BY DEF Dropped, Numbers
<1>2. Rising(n2, z2)
  BY <1>1 DEF InOrder, Rising
<1>3. Rising(m2, y2)
  BY <1>1 DEF InOrder, Rising, Before, Added, Numbers
<1>4. \A i \in 1 .. n2 : z[1] < z2[i]
  BY <1>1 DEF InOrder, Rising
<1>5. Before(k, x, m2, y2)
  BY <1>1 DEF InOrder, Before, Added, Numbers
<1>6. Before(k, x, n2, z2)
  BY <1>1 DEF InOrder, Before
<1>7. Before(m2, y2, n2, z2)
  <2> SUFFICES ASSUME NEW i \in 1 .. m2, NEW j \in 1 .. n2 PROVE y2[i] < z2[j]
    BY DEF Before
  <2>1. CASE i = m2
    BY <1>4, <2>1 DEF Added
  <2>2. CASE i # m2
    BY <1>1, <2>2 DEF InOrder, Before, Added, Numbers
  <2> QED BY <2>1, <2>2
<1>8. /\ Between(got, m2, y2, last) /\ Between(got, n2, z2, last)
      /\ Between(done, n2, z2, last)
  BY <1>1 DEF InOrder, Between, Added, Numbers
<1>9. Between(z[1], n2, z2, last) /\ z[1] <= last /\ z[1] > done
  BY <1>1, <1>4 DEF InOrder, Between
<1> QED BY <1>2, <1>3, <1>5, <1>6, <1>7, <1>8, <1>9 DEF InOrder

\* An answer reaches the receive buffer.
LEMMA OrderArrived ==
    ASSUME NEW got \in Nat, NEW done \in Nat, NEW last \in Nat,
           NEW k, NEW m, NEW n, NEW x, NEW y, NEW z,
           Numbers(k, x), Numbers(m, y), Numbers(n, z), m # 0,
           NEW k2, NEW m2, NEW x2, NEW y2,
           Added(y[1], k, x, k2, x2), Dropped(1, m, y, m2, y2),
           InOrder(got, done, last, k, x, m, y, n, z)
    PROVE  InOrder(got, done, last, k2, x2, m2, y2, n, z)
<1>1. /\ m2 = m - 1 /\ \A i \in 1 .. m2 : i + 1 \in 1 .. m /\ y2[i] = y[i + 1]
      /\ m \in Nat /\ 1 \in 1 .. m /\ y[1] \in Nat
  BY DEF Dropped, Numbers
<1>2. Rising(m2, y2)
  BY <1>1 DEF InOrder, Rising
<1>3. Rising(k2, x2)
  BY <1>1 DEF InOrder, Rising, Before, Added, Numbers
<1>4. \A i \in 1 .. m2 : y[1] < y2[i]
  BY <1>1 DEF InOrder, Rising
<1>5. Before(k2, x2, m2, y2)
  <2> SUFFICES ASSUME NEW i \in 1 .. k2, NEW j \in 1 .. m2 PROVE x2[i] < y2[j]
    BY DEF Before
  <2>1. CASE i = k2
    BY <1>4, <2>1 DEF Added
  <2>2. CASE i # k2
    BY <1>1, <2>2 DEF InOrder, Before, Added, Numbers
  <2> QED BY <2>1, <2>2
<1>6. Before(k2, x2, n, z)
  BY <1>1 DEF InOrder, Before, Added, Numbers
<1>7. Before(m2, y2, n, z)
  BY <1>1 DEF InOrder, Before
<1>8. Between(got, k2, x2, last) /\ Between(got, m2, y2, last)
  BY <1>1 DEF InOrder, Between, Added, Numbers
<1> QED BY <1>2, <1>3, <1>5, <1>6, <1>7, <1>8 DEF InOrder

\* A transaction ends with the oldest answer; the rest is newer.
LEMMA OrderReceived ==
    ASSUME NEW got \in Nat, NEW done \in Nat, NEW last \in Nat,
           NEW k, NEW m, NEW n, NEW x, NEW y, NEW z,
           Numbers(k, x), Numbers(m, y), Numbers(n, z), k # 0,
           NEW k2, NEW x2, Dropped(1, k, x, k2, x2) \/ k2 = 0,
           InOrder(got, done, last, k, x, m, y, n, z)
    PROVE  /\ InOrder(x[1], done, last, k2, x2, m, y, n, z)
           /\ x[1] > got
<1>1. k \in Nat /\ 1 \in 1 .. k /\ x[1] \in Nat
  BY DEF Numbers
<1>2. x[1] > got /\ x[1] <= last
  BY <1>1 DEF InOrder, Between
<1>3. Between(x[1], m, y, last) /\ Between(x[1], n, z, last)
  BY <1>1 DEF InOrder, Before, Between
<1>4. CASE k2 = 0
  BY <1>2, <1>3, <1>4 DEF InOrder, Rising, Before, Between
<1>5. CASE Dropped(1, k, x, k2, x2)
  <2>1. k2 = k - 1 /\ \A i \in 1 .. k2 : i + 1 \in 1 .. k /\ x2[i] = x[i + 1]
    BY <1>1, <1>5 DEF Dropped
  <2>2. Rising(k2, x2)
    BY <1>1, <2>1 DEF InOrder, Rising
  <2>3. Before(k2, x2, m, y) /\ Before(k2, x2, n, z)
    BY <1>1, <2>1 DEF InOrder, Before
  <2>4. \A i \in 1 .. k2 : x[1] < x2[i] /\ x2[i] <= last
    BY <1>1, <2>1 DEF InOrder, Rising, Between
  <2> QED BY <1>2, <1>3, <2>2, <2>3, <2>4 DEF InOrder, Between
<1> QED BY <1>2, <1>4, <1>5

\* What the operations on a line do to the numbers of its messages.
LEMMA IdsOfLine ==
    ASSUME NEW S, \A e \in S : e.id \in Nat, NEW q \in Seq(S)
    PROVE  /\ Numbers(Len(q), Ids(q))
           /\ Dropped(0, Len(q), Ids(q), Len(q), Ids(q))
           /\ Dropped(Len(q), Len(q), Ids(q), Len(<<>>), Ids(<<>>))
<1>1. Len(q) \in Nat /\ \A i \in 1 .. Len(q) : q[i] \in S
  OBVIOUS
<1>2. Numbers(Len(q), Ids(q))
  BY <1>1 DEF Numbers, Ids
<1>3. Dropped(0, Len(q), Ids(q), Len(q), Ids(q))
  BY <1>1 DEF Dropped
<1>4. Len(<<>>) = 0
  OBVIOUS
<1>5. Dropped(Len(q), Len(q), Ids(q), Len(<<>>), Ids(<<>>))
  BY <1>1, <1>4 DEF Dropped
<1> QED BY <1>2, <1>3, <1>5

LEMMA IdsTail ==
    ASSUME NEW S, NEW q \in Seq(S), q # <<>>
    PROVE  /\ Dropped(1, Len(q), Ids(q), Len(Tail(q)), Ids(Tail(q)))
           /\ Len(q) # 0 /\ Ids(q)[1] = Head(q).id
<1>1. /\ Len(q) \in Nat \ {0} /\ Len(Tail(q)) = Len(q) - 1
      /\ \A i \in 1 .. Len(q) - 1 : Tail(q)[i] = q[i + 1]
      /\ Head(q) = q[1]
  OBVIOUS
<1> DEFINE k == Len(q)
           t == Tail(q)
<1>2. k \in Nat \ {0} /\ Len(t) = k - 1 /\ \A i \in 1 .. k - 1 : t[i] = q[i + 1]
  BY <1>1
<1>3. Ids(q) = [i \in 1 .. k |-> q[i].id] /\ Ids(t) = [i \in 1 .. k - 1 |-> t[i].id]
  BY <1>2 DEF Ids
<1> HIDE DEF k, t
<1>4. \A i \in 1 .. k - 1 : Ids(t)[i] = Ids(q)[i + 1]
  BY <1>2, <1>3
<1>5. Dropped(1, k, Ids(q), k - 1, Ids(t))
  BY <1>4 DEF Dropped
<1>6. Ids(q)[1] = q[1].id
  BY <1>2, <1>3
<1> QED BY <1>1, <1>2, <1>5, <1>6 DEF k, t

LEMMA IdsAppend ==
    ASSUME NEW S, NEW q \in Seq(S), NEW e \in S
    PROVE  Added(e.id, Len(q), Ids(q), Len(Append(q, e)), Ids(Append(q, e)))
<1> DEFINE k == Len(q)
           t == Append(q, e)
<1>1. /\ k \in Nat /\ Len(t) = k + 1 /\ t[k + 1] = e
      /\ \A i \in 1 .. k : t[i] = q[i]
  OBVIOUS
<1>2. Ids(q) = [i \in 1 .. k |-> q[i].id] /\ Ids(t) = [i \in 1 .. k + 1 |-> t[i].id]
  BY <1>1 DEF Ids
<1> HIDE DEF k, t
<1>3. \A i \in 1 .. k : Ids(t)[i] = Ids(q)[i]
  BY <1>1, <1>2
<1>4. Ids(t)[k + 1] = e.id
  BY <1>1, <1>2
<1>5. Added(e.id, k, Ids(q), k + 1, Ids(t))
  BY <1>3, <1>4 DEF Added
<1> QED BY <1>1, <1>5 DEF k, t

LEMMA IdsSuffix ==
    ASSUME NEW S, NEW q \in Seq(S), NEW d \in 0 .. Len(q)
    PROVE  LET t == SubSeq(q, d + 1, Len(q))
           IN Dropped(d, Len(q), Ids(q), Len(t), Ids(t))
<1> DEFINE k == Len(q)
           t == SubSeq(q, d + 1, k)
<1>1. k \in Nat /\ d \in Nat /\ k - d \in Nat
  OBVIOUS
<1>2. Len(t) = k - d
  OBVIOUS
<1>3. \A i \in 1 .. k - d : t[i] = q[i + d]
  OBVIOUS
<1>4. Ids(q) = [i \in 1 .. k |-> q[i].id] /\ Ids(t) = [i \in 1 .. k - d |-> t[i].id]
  BY <1>2 DEF Ids
<1> HIDE DEF k, t
<1>5. \A i \in 1 .. k - d : Ids(t)[i] = Ids(q)[i + d]
  BY <1>1, <1>3, <1>4
<1>6. Dropped(d, k, Ids(q), k - d, Ids(t))
  BY <1>1, <1>5 DEF Dropped
<1> QED BY <1>2, <1>6 DEF k, t

\* Damage changes the kind of a message only.
LEMMA IdsDamaged ==
    ASSUME NEW S, NEW q \in Seq(S), q # <<>>, Damaged(q)[1].id = q[1].id
    PROVE  Len(Damaged(q)) = Len(q) /\ Ids(Damaged(q)) = Ids(q)
<1>1. Len(q) \in Nat \ {0} /\ DOMAIN q = 1 .. Len(q)
  OBVIOUS
<1> DEFINE g == [q[1] EXCEPT !.kind = "garbled"]
<1>2. Damaged(q) = [q EXCEPT ![1] = g]
  BY DEF Damaged
<1> HIDE DEF g
<1>4. /\ DOMAIN Damaged(q) = 1 .. Len(q)
      /\ \A i \in 1 .. Len(q) : i # 1 => Damaged(q)[i] = q[i]
  BY <1>1, <1>2
<1>5. Len(Damaged(q)) = Len(q)
  BY <1>1, <1>4
<1>6. \A i \in 1 .. Len(q) : Damaged(q)[i].id = q[i].id
  BY <1>1, <1>4
<1> QED BY <1>5, <1>6 DEF Ids

\* A line that lost its first message or had it damaged, or that is the same.
Drained(q, q2) == \E d \in Nat : Dropped(d, Len(q), Ids(q), Len(q2), Ids(q2))

LEMMA LinesDrained ==
    ASSUME TypeOK
    PROVE  /\ Numbers(Len(rx), Ids(rx)) /\ Drained(rx, rx)
           /\ Numbers(Len(toHost), Ids(toHost)) /\ Drained(toHost, toHost)
           /\ Numbers(Len(toDev), Ids(toDev)) /\ Drained(toDev, toDev)
           /\ Drained(rx, <<>>) /\ Drained(toHost, <<>>) /\ Drained(toDev, <<>>)
           /\ \A d \in 0 .. Len(toHost) :
                Drained(toHost, SubSeq(toHost, d + 1, Len(toHost)))
           /\ toHost # <<>> => Drained(toHost, Tail(toHost)) /\ Drained(toHost, Damaged(toHost))
           /\ toDev # <<>> => Drained(toDev, Tail(toDev)) /\ Drained(toDev, Damaged(toDev))
<1>1. (\A e \in Answers : e.id \in Nat) /\ (\A e \in Requests : e.id \in Nat)
  BY DEF Answers, Requests
<1>2. rx \in Seq(Answers) /\ toHost \in Seq(Answers) /\ toDev \in Seq(Requests)
  BY DEF TypeOK
<1>3. Len(rx) \in Nat /\ Len(toHost) \in Nat /\ Len(toDev) \in Nat
  BY <1>2
<1>4. /\ Numbers(Len(rx), Ids(rx)) /\ Drained(rx, rx) /\ Drained(rx, <<>>)
      /\ Numbers(Len(toHost), Ids(toHost)) /\ Drained(toHost, toHost) /\ Drained(toHost, <<>>)
      /\ Numbers(Len(toDev), Ids(toDev)) /\ Drained(toDev, toDev) /\ Drained(toDev, <<>>)
  BY <1>1, <1>2, <1>3, IdsOfLine DEF Drained
<1>5. ASSUME NEW d \in 0 .. Len(toHost)
      PROVE  Drained(toHost, SubSeq(toHost, d + 1, Len(toHost)))
  BY <1>2, <1>3, IdsSuffix DEF Drained
<1>6. toHost # <<>> => Drained(toHost, Tail(toHost))
  BY <1>2, IdsTail DEF Drained
<1>7. toDev # <<>> => Drained(toDev, Tail(toDev))
  BY <1>2, IdsTail DEF Drained
<1>8. ASSUME toHost # <<>> PROVE Drained(toHost, Damaged(toHost))
  <2>1. Len(Damaged(toHost)) = Len(toHost) /\ Ids(Damaged(toHost)) = Ids(toHost)
    BY <1>2, <1>8, DamagedAnswer, IdsDamaged
  <2> QED BY <1>4, <2>1 DEF Drained
<1>9. ASSUME toDev # <<>> PROVE Drained(toDev, Damaged(toDev))
  <2>1. Len(Damaged(toDev)) = Len(toDev) /\ Ids(Damaged(toDev)) = Ids(toDev)
    BY <1>2, <1>9, DamagedRequest, IdsDamaged
  <2> QED BY <1>4, <2>1 DEF Drained
<1> QED BY <1>4, <1>5, <1>6, <1>7, <1>8, <1>9

\* Lines that only lose messages stay in order.
LEMMA DrainedOrder ==
    ASSUME TypeOK, OrderInv, NEW a \in Seq(Answers), NEW b \in Seq(Answers),
           NEW c \in Seq(Requests), Drained(rx, a), Drained(toHost, b), Drained(toDev, c)
    PROVE  InOrder(accepted, applied, sent, Len(a), Ids(a), Len(b), Ids(b), Len(c), Ids(c))
<1>1. PICK i \in Nat : Dropped(i, Len(rx), Ids(rx), Len(a), Ids(a))
  BY DEF Drained
<1>2. PICK j \in Nat : Dropped(j, Len(toHost), Ids(toHost), Len(b), Ids(b))
  BY DEF Drained
<1>3. PICK k \in Nat : Dropped(k, Len(toDev), Ids(toDev), Len(c), Ids(c))
  BY DEF Drained
<1>4. /\ Numbers(Len(rx), Ids(rx)) /\ Numbers(Len(toHost), Ids(toHost))
      /\ Numbers(Len(toDev), Ids(toDev))
  BY LinesDrained
<1>5. (\A e \in Answers : e.id \in Nat) /\ (\A e \in Requests : e.id \in Nat)
  BY DEF Answers, Requests
<1>6. Numbers(Len(a), Ids(a)) /\ Numbers(Len(b), Ids(b)) /\ Numbers(Len(c), Ids(c))
  BY <1>5, IdsOfLine
<1>7. accepted \in Nat /\ applied \in Nat /\ sent \in Nat
  BY DEF OrderInv, TypeOK
<1>8. InOrder(accepted, applied, sent, Len(rx), Ids(rx), Len(toHost), Ids(toHost),
              Len(toDev), Ids(toDev))
  BY DEF OrderInv
<1>9. \A k2, x2, i2 :
        Numbers(k2, x2) /\ Dropped(i2, Len(rx), Ids(rx), k2, x2) =>
          \A m2, y2, j2 :
            Numbers(m2, y2) /\ Dropped(j2, Len(toHost), Ids(toHost), m2, y2) =>
              \A n2, z2, c2 :
                Numbers(n2, z2) /\ Dropped(c2, Len(toDev), Ids(toDev), n2, z2) =>
                  InOrder(accepted, applied, sent, k2, x2, m2, y2, n2, z2)
  BY <1>4, <1>7, <1>8, OrderKept
<1>10. \A m2, y2, j2 :
         Numbers(m2, y2) /\ Dropped(j2, Len(toHost), Ids(toHost), m2, y2) =>
           \A n2, z2, c2 :
             Numbers(n2, z2) /\ Dropped(c2, Len(toDev), Ids(toDev), n2, z2) =>
               InOrder(accepted, applied, sent, Len(a), Ids(a), m2, y2, n2, z2)
  BY <1>1, <1>6, <1>9, Zenon
<1>11. \A n2, z2, c2 :
         Numbers(n2, z2) /\ Dropped(c2, Len(toDev), Ids(toDev), n2, z2) =>
           InOrder(accepted, applied, sent, Len(a), Ids(a), Len(b), Ids(b), n2, z2)
  BY <1>2, <1>6, <1>10, Zenon
<1> QED BY <1>3, <1>6, <1>11, Zenon

\* A request is written behind what the device already holds, or not at all.
LEMMA SendOrder ==
    ASSUME TypeOK, accepted \in Nat, applied \in Nat,
           NEW b \in Seq(Answers), NEW d \in Seq(Requests), NEW h \in BOOLEAN,
           NEW r \in Requests, r.id = sent + 1,
           Send(r, d, h) \/ SendFails(r, d, h),
           InOrder(accepted, applied, sent, Len(rx), Ids(rx), Len(b), Ids(b), Len(d), Ids(d))
    PROVE  InOrder(accepted, applied, sent', Len(rx), Ids(rx), Len(b), Ids(b),
                   Len(toDev'), Ids(toDev'))
<1>1. (\A e \in Answers : e.id \in Nat) /\ (\A e \in Requests : e.id \in Nat)
  BY DEF Answers, Requests
<1>2. Numbers(Len(rx), Ids(rx)) /\ Numbers(Len(b), Ids(b)) /\ Numbers(Len(d), Ids(d))
  BY <1>1, IdsOfLine DEF TypeOK
<1>3. OnLine(r, h) \in Requests /\ OnLine(r, h).id = sent + 1
  BY OnLineFacts
<1>4. sent' = sent + 1 /\ (toDev' = d \/ toDev' = Append(d, OnLine(r, h)))
  BY Zenon DEF Send, SendFails
<1>5. sent \in Nat
  BY DEF TypeOK
<1>6. /\ InOrder(accepted, applied, sent + 1, Len(rx), Ids(rx), Len(b), Ids(b), Len(d), Ids(d))
      /\ \A n2, z2 : Added(sent + 1, Len(d), Ids(d), n2, z2) =>
           InOrder(accepted, applied, sent + 1, Len(rx), Ids(rx), Len(b), Ids(b), n2, z2)
  BY <1>2, <1>5, OrderSent
<1>7. LET t == Append(d, OnLine(r, h))
      IN Added(sent + 1, Len(d), Ids(d), Len(t), Ids(t))
  BY <1>3, IdsAppend
<1> QED BY <1>4, <1>6, <1>7

LEMMA OrderInit == Init => OrderInv
<1> SUFFICES ASSUME Init PROVE OrderInv
  OBVIOUS
<1>1. rx = <<>> /\ toHost = <<>> /\ toDev = <<>> /\ sent = 0 /\ accepted = 0 /\ applied = 0
  BY DEF Init
<1>2. Len(rx) = 0 /\ Len(toHost) = 0 /\ Len(toDev) = 0
  BY <1>1
<1> DEFINE x == Ids(rx)
           y == Ids(toHost)
           z == Ids(toDev)
<1> HIDE DEF x, y, z
<1>3. InOrder(0, 0, 0, 0, x, 0, y, 0, z)
  BY DEF InOrder, Rising, Before, Between
<1> QED BY <1>1, <1>2, <1>3 DEF OrderInv, x, y, z

\* The device handles a line: what it executes is newer than all it executed.
LEMMA HandleOrder ==
    ASSUME TypeOK, OrderInv, HandleLine
    PROVE  /\ OrderInv'
           /\ Applies(Head(toDev)) => applied' > applied
<1>1. /\ toDev # <<>> /\ toDev' = Tail(toDev)
      /\ UNCHANGED <<rx, sent>>
  BY HandleFacts
<1>2. PICK a \in Answers : toHost' = Append(toHost, a) /\ a.id = Head(toDev).id
  BY HandleFacts
<1>3. /\ applied' = IF Applies(Head(toDev)) THEN Head(toDev).id ELSE applied
      /\ accepted' = accepted
  BY DEF HandleLine
<1>4. rx \in Seq(Answers) /\ toHost \in Seq(Answers) /\ toDev \in Seq(Requests) /\ sent \in Nat
  BY DEF TypeOK
<1>5. /\ Numbers(Len(rx), Ids(rx)) /\ Numbers(Len(toHost), Ids(toHost))
      /\ Numbers(Len(toDev), Ids(toDev))
  BY LinesDrained
<1>6. /\ Dropped(1, Len(toDev), Ids(toDev), Len(toDev'), Ids(toDev'))
      /\ Len(toDev) # 0 /\ Ids(toDev)[1] = Head(toDev).id
  BY <1>1, <1>4, IdsTail
<1>7. Added(Ids(toDev)[1], Len(toHost), Ids(toHost), Len(toHost'), Ids(toHost'))
  BY <1>2, <1>4, <1>6, IdsAppend
<1>8. accepted \in Nat /\ applied \in Nat
  BY DEF OrderInv
<1>9. InOrder(accepted, applied, sent, Len(rx), Ids(rx), Len(toHost), Ids(toHost),
              Len(toDev), Ids(toDev))
  BY DEF OrderInv
<1>10. /\ InOrder(accepted, applied, sent, Len(rx), Ids(rx), Len(toHost'), Ids(toHost'),
                  Len(toDev'), Ids(toDev'))
       /\ InOrder(accepted, Head(toDev).id, sent, Len(rx), Ids(rx),
                  Len(toHost'), Ids(toHost'), Len(toDev'), Ids(toDev'))
       /\ Head(toDev).id > applied
  BY <1>4, <1>5, <1>6, <1>7, <1>8, <1>9, OrderHandled
<1>11. Head(toDev).id \in Nat
  <2>1. Head(toDev) \in Requests
    BY <1>1, <1>4, HeadTail
  <2> QED BY <2>1 DEF Requests
<1>12. Ids(rx)' = Ids(rx) /\ Len(rx)' = Len(rx)
  BY <1>1
<1>13. CASE Applies(Head(toDev))
  BY <1>1, <1>3, <1>8, <1>10, <1>11, <1>12, <1>13 DEF OrderInv
<1>14. CASE ~Applies(Head(toDev))
  BY <1>1, <1>3, <1>8, <1>10, <1>12, <1>14 DEF OrderInv
<1> QED BY <1>13, <1>14

\* A transaction ends: the answer is newer than all accepted before.
LEMMA ReceiveOrder ==
    ASSUME TypeOK, OrderInv, Receive
    PROVE  OrderInv' /\ accepted' > accepted
<1>1. /\ rx # <<>> /\ accepted' = Head(rx).id
      /\ UNCHANGED <<toDev, toHost, sent, applied>>
      /\ rx' = Tail(rx) \/ rx' = <<>>
  BY DEF Receive, Closed
<1>2. rx \in Seq(Answers) /\ sent \in Nat /\ accepted \in Nat /\ applied \in Nat
  BY DEF TypeOK, OrderInv
<1>3. /\ Numbers(Len(rx), Ids(rx)) /\ Numbers(Len(toHost), Ids(toHost))
      /\ Numbers(Len(toDev), Ids(toDev))
  BY LinesDrained
<1>4. /\ Dropped(1, Len(rx), Ids(rx), Len(Tail(rx)), Ids(Tail(rx)))
      /\ Len(rx) # 0 /\ Ids(rx)[1] = Head(rx).id
  BY <1>1, <1>2, IdsTail
<1>5. Len(<<>>) = 0
  OBVIOUS
<1>6. Dropped(1, Len(rx), Ids(rx), Len(rx'), Ids(rx')) \/ Len(rx') = 0
  BY <1>1, <1>4, <1>5
<1>7. InOrder(accepted, applied, sent, Len(rx), Ids(rx), Len(toHost), Ids(toHost),
              Len(toDev), Ids(toDev))
  BY DEF OrderInv
<1>8. /\ InOrder(Head(rx).id, applied, sent, Len(rx'), Ids(rx'), Len(toHost), Ids(toHost),
                 Len(toDev), Ids(toDev))
      /\ Head(rx).id > accepted
  BY <1>2, <1>3, <1>4, <1>6, <1>7, OrderReceived
<1>9. Head(rx).id \in Nat
  <2>1. Head(rx) \in Answers
    BY <1>1, <1>2, HeadTail
  <2> QED BY <2>1 DEF Answers
<1>10. /\ Ids(toHost)' = Ids(toHost) /\ Len(toHost)' = Len(toHost)
       /\ Ids(toDev)' = Ids(toDev) /\ Len(toDev)' = Len(toDev)
  BY <1>1
<1> QED BY <1>1, <1>2, <1>8, <1>9, <1>10 DEF OrderInv

LEMMA ArriveOrder ==
    ASSUME TypeOK, OrderInv, Arrive
    PROVE  OrderInv'
<1>1. /\ toHost # <<>> /\ rx' = Append(rx, Head(toHost)) /\ toHost' = Tail(toHost)
      /\ UNCHANGED <<toDev, sent, applied, accepted>>
  BY DEF Arrive, history
<1>2. /\ rx \in Seq(Answers) /\ toHost \in Seq(Answers) /\ sent \in Nat
      /\ accepted \in Nat /\ applied \in Nat
  BY DEF TypeOK, OrderInv
<1>3. /\ Numbers(Len(rx), Ids(rx)) /\ Numbers(Len(toHost), Ids(toHost))
      /\ Numbers(Len(toDev), Ids(toDev))
  BY LinesDrained
<1>4. /\ Dropped(1, Len(toHost), Ids(toHost), Len(toHost'), Ids(toHost'))
      /\ Len(toHost) # 0 /\ Ids(toHost)[1] = Head(toHost).id
  BY <1>1, <1>2, IdsTail
<1>5. Head(toHost) \in Answers
  BY <1>1, <1>2, HeadTail
<1>6. Added(Ids(toHost)[1], Len(rx), Ids(rx), Len(rx'), Ids(rx'))
  BY <1>1, <1>2, <1>4, <1>5, IdsAppend
<1>7. InOrder(accepted, applied, sent, Len(rx), Ids(rx), Len(toHost), Ids(toHost),
              Len(toDev), Ids(toDev))
  BY DEF OrderInv
<1>8. InOrder(accepted, applied, sent, Len(rx'), Ids(rx'), Len(toHost'), Ids(toHost'),
              Len(toDev), Ids(toDev))
  BY <1>2, <1>3, <1>4, <1>6, <1>7, OrderArrived
<1>9. Ids(toDev)' = Ids(toDev) /\ Len(toDev)' = Len(toDev)
  BY <1>1
<1> QED BY <1>1, <1>2, <1>8, <1>9 DEF OrderInv

\* Opening the port, and what follows.
LEMMA ConnectOrder ==
    ASSUME TypeOK, OrderInv, Connect \/ ConnectFails
    PROVE  OrderInv'
<1>1. UNCHANGED <<rx, applied, accepted>>
  BY DEF Connect, ConnectFails
<1>2. PICK d \in {toDev, <<>>}, h \in {half, FALSE} :
        OpenPort(d, h) /\ (Send(Ping, d, h) \/ SendFails(Ping, d, h))
  BY Zenon DEF Connect, ConnectFails
<1>3. d \in Seq(Requests) /\ h \in BOOLEAN /\ toHost' \in Seq(Answers)
  BY <1>2, OpenTypes
<1>4. Drained(rx, rx) /\ Drained(toDev, d)
  BY LinesDrained
<1>5. Drained(toHost, toHost')
  BY <1>2, LinesDrained DEF OpenPort
<1>6. rx \in Seq(Answers) /\ accepted \in Nat /\ applied \in Nat
  BY DEF TypeOK, OrderInv
<1>7. InOrder(accepted, applied, sent, Len(rx), Ids(rx), Len(toHost'), Ids(toHost'),
              Len(d), Ids(d))
  BY <1>3, <1>4, <1>5, <1>6, DrainedOrder
<1>8. Ping \in Requests /\ Ping.id = sent + 1
  BY RequestTypes DEF Ping
<1>9. InOrder(accepted, applied, sent', Len(rx), Ids(rx), Len(toHost'), Ids(toHost'),
              Len(toDev'), Ids(toDev'))
  BY <1>2, <1>3, <1>6, <1>7, <1>8, SendOrder
<1>10. Ids(rx)' = Ids(rx) /\ Len(rx)' = Len(rx)
  BY <1>1
<1> QED BY <1>1, <1>6, <1>9, <1>10 DEF OrderInv

LEMMA TransactOrder ==
    ASSUME TypeOK, OrderInv, NEW r \in Requests, r.id = sent + 1, Transact(r)
    PROVE  OrderInv'
<1>1. UNCHANGED <<toHost, rx, applied, accepted>>
  BY DEF Transact
<1>2. Send(r, toDev, half) \/ SendFails(r, toDev, half)
  BY Zenon DEF Transact
<1>3. /\ toDev \in Seq(Requests) /\ half \in BOOLEAN /\ toHost \in Seq(Answers)
      /\ accepted \in Nat /\ applied \in Nat
  BY Zenon DEF TypeOK, OrderInv
<1>4. InOrder(accepted, applied, sent, Len(rx), Ids(rx), Len(toHost), Ids(toHost),
              Len(toDev), Ids(toDev))
  BY DEF OrderInv
<1>5. InOrder(accepted, applied, sent', Len(rx), Ids(rx), Len(toHost), Ids(toHost),
              Len(toDev'), Ids(toDev'))
  BY <1>2, <1>3, <1>4, SendOrder
<1>6. /\ Ids(rx)' = Ids(rx) /\ Len(rx)' = Len(rx)
      /\ Ids(toHost)' = Ids(toHost) /\ Len(toHost)' = Len(toHost)
  BY <1>1
<1> QED BY <1>1, <1>3, <1>5, <1>6 DEF OrderInv

\* Lines that lose messages, or nothing.
LEMMA LosingOrder ==
    ASSUME TypeOK, TypeOK', OrderInv, UNCHANGED <<sent, applied, accepted>>,
           Drained(rx, rx'), Drained(toHost, toHost'), Drained(toDev, toDev')
    PROVE  OrderInv'
<1>1. rx' \in Seq(Answers) /\ toHost' \in Seq(Answers) /\ toDev' \in Seq(Requests)
  BY DEF TypeOK
<1>2. InOrder(accepted, applied, sent, Len(rx'), Ids(rx'), Len(toHost'), Ids(toHost'),
              Len(toDev'), Ids(toDev'))
  BY <1>1, DrainedOrder
<1> QED BY <1>2 DEF OrderInv

LEMMA OrderStep == TypeOK /\ TypeOK' /\ OrderInv /\ [Next]_vars => OrderInv'
<1> SUFFICES ASSUME TypeOK, TypeOK', OrderInv, [Next]_vars PROVE OrderInv'
  OBVIOUS
<1>1. CASE Connect \/ ConnectFails
  BY <1>1, ConnectOrder
<1>2. ASSUME NEW o \in Offsets, readRegister(o)
      PROVE  OrderInv'
  <2>1. ReadRequest(o) \in Requests /\ ReadRequest(o).id = sent + 1
    BY RequestTypes DEF ReadRequest
  <2> QED BY <1>2, <2>1, TransactOrder DEF readRegister
<1>3. ASSUME NEW o \in Offsets, NEW v \in Values, writeRegister(o, v)
      PROVE  OrderInv'
  <2>1. WriteRequest(o, v) \in Requests /\ WriteRequest(o, v).id = sent + 1
    BY RequestTypes DEF WriteRequest
  <2> QED BY <1>3, <2>1, TransactOrder DEF writeRegister
<1>4. CASE Receive
  BY <1>4, ReceiveOrder
<1>5. CASE Arrive
  BY <1>5, ArriveOrder
<1>6. CASE HandleLine
  BY <1>6, HandleOrder
<1>7. CASE Noise
  <2>1. UNCHANGED <<rx, sent, applied, accepted>>
    BY <1>7 DEF Noise, history
  <2>2. Drained(toHost, toHost') /\ Drained(toDev, toDev')
    BY <1>7, LinesDrained DEF Noise
  <2> QED BY <2>1, <2>2, LinesDrained, LosingOrder
<1>8. CASE Disconnect \/ ReadFails \/ Timeout
  <2>1. UNCHANGED <<toDev, toHost, sent, applied, accepted>>
    BY <1>8 DEF Disconnect, ReadFails, Timeout, history
  <2>2. rx' = rx \/ rx' = <<>>
    BY <1>8 DEF Disconnect, ReadFails, Timeout, Abandon, Closed
  <2> QED BY <2>1, <2>2, LinesDrained, LosingOrder
<1>9. CASE Rest \/ UNCHANGED vars
  <2>1. UNCHANGED <<rx, toDev, toHost, sent, applied, accepted>>
    BY <1>9 DEF Rest, vars, line, history
  <2> QED BY <2>1, LinesDrained, LosingOrder
<1> QED BY <1>1, <1>2, <1>3, <1>4, <1>5, <1>6, <1>7, <1>8, <1>9 DEF Next

\* Whatever the line loses, damages or delays and whatever the host abandons,
\* answers end transactions and writes are executed in the order in which the
\* requests were sent, each at most once.
THEOREM TrafficStaysInOrder == Spec => TrafficInOrder
<1> DEFINE Inv == TypeOK /\ OrderInv
<1>1. Init => Inv
  BY InitInv, OrderInit DEF SerialInv
<1>2. Inv /\ [Next]_vars => Inv'
  BY StepTypes, OrderStep
<1>3. Inv => [/\ Receive => accepted' > accepted
              /\ HandleLine /\ Applies(Head(toDev)) => applied' > applied]_vars
  BY ReceiveOrder, HandleOrder
<1> QED BY <1>1, <1>2, <1>3, PTL DEF Spec, TrafficInOrder
===============================================================================
