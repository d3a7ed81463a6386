------------------------------ MODULE MCExchanges ------------------------------
(***************************************************************************)
(* What the machine exchanges with the world outside: the JSON documents   *)
(* it writes, which are traces of two runs to compare or snapshots of a    *)
(* debug session, and the lines of the serial hardware.  A behaviour is    *)
(* about one of the three.                                                 *)
(***************************************************************************)
EXTENDS TraceDiff, SerialHardware

CONSTANTS Sessions, MemorySize, Lines, Options, MaxItems

VARIABLES subject, pids, loaded, pc, items, symbols, steps, file

Snapshot == INSTANCE DebugSnapshotJson

snapshotVars == <<pids, loaded, pc, items, symbols, steps, file>>

NoSnapshot == /\ pids = <<1>> /\ loaded = FALSE /\ pc = <<>> /\ items = <<>>
              /\ symbols = {} /\ steps = 0 /\ file = "absent"

NoTrace == expected = <<>> /\ actual = <<>> /\ damage = "none"

MCInit ==
    \/ subject = "trace" /\ TraceInit /\ expected.producer = "cli" /\ NoSnapshot /\ Init
    \/ subject = "snapshot" /\ Snapshot!Init /\ NoTrace /\ Init
    \/ subject = "serial" /\ Init /\ NoTrace /\ NoSnapshot

\* A document may be left as it is.
MCNext ==
    \/ subject = "trace" /\ TraceNext /\ UNCHANGED <<subject, snapshotVars, vars>>
    \/ subject = "snapshot" /\ Snapshot!Next /\ UNCHANGED <<subject, traceVars, vars>>
    \/ subject = "serial" /\ Next /\ UNCHANGED <<subject, traceVars, snapshotVars>>
    \/ subject # "serial" /\ UNCHANGED <<subject, traceVars, snapshotVars, vars>>

MCSpec == /\ MCInit
          /\ [][MCNext]_<<subject, traceVars, snapshotVars, vars>>
          /\ WF_vars(subject = "serial" /\ (Timeout \/ Receive))

-------------------------------------------------------------------------------

\* A comparison finds exactly the differences of its mode (TraceDiff).
TracesCompared == subject = "trace" => DiffIsExact

\* A cut trace file is refused, and an incomplete one never passes for the whole
\* trace (TraceDiff).
TraceDamageNoticed == subject = "trace" => DamageIsNoticed

\* Every snapshot is a readable document with all it should have
\* (DebugSnapshotJson).
SnapshotsReadable == subject = "snapshot" => Snapshot!SnapshotsReadable

-------------------------------------------------------------------------------
(* Texts with every kind of character, and events that differ in what is    *)
(* compared, in what is only shown, or in both.                             *)

St(at, value, error) == [pc |-> at, value |-> value, error |-> error]

Ev(a, b, i, d) == [before |-> a, after |-> b, instruction |-> i, display |-> d]

MCEvents ==
    {Ev(St(0, 0, <<>>), St(1, 1, <<>>), "MOV", "x"),
     Ev(St(0, 0, <<>>), St(1, 1, <<>>), "MOV", "y"),
     Ev(St(0, 1, <<>>), St(0, 1, <<Quote, Backslash, "n", Newline, Control>>), "DIV", "x")}

(* Sessions of one and of two processes with memories of different sizes  *)
(* and one mapped instruction each.                                         *)

MCSessions == {<<1>>, <<1, 2>>}
MCLines == [a \in {0} |-> 7]
MCSizes == [p \in {1, 2} |-> IF p = 2 THEN 1 ELSE 2]
MCOptions ==
    {[memory |-> m, address |-> 0, size |-> 1, symbols |-> s, trace |-> s] : m, s \in BOOLEAN}
    \cup {[memory |-> TRUE, address |-> a[1], size |-> a[2], symbols |-> TRUE, trace |-> FALSE] :
            a \in {<<1, 0>>, <<0, 2>>, <<1, 2>>}}

(* A guest that writes outputs, some out of range, reads them back, reads   *)
(* an input and resets the device.                                          *)

MCOffsets == {"pwm", "gpioIn", "command"}
===============================================================================
