------------------------------- MODULE TraceJson -------------------------------
(***************************************************************************)
(* Traces of runs written as JSON by TraceJsonWriter (one process) and     *)
(* MultiProcessTraceJsonWriter, and compared by TraceJsonDiff.  Two runs,  *)
(* the expected and the actual one, grow step by step; what is written of  *)
(* the actual one may be cut short by a failing write or lose records.     *)
(***************************************************************************)
EXTENDS Json, FiniteSets

CONSTANTS
    Kinds,       \* the kinds of runs looked at: "single", "multi"
    Modes,       \* execution modes, which are part of the architecture
    Producers,   \* names of producers, which are not
    Events,      \* what an instruction did, as TraceEvent shows it
    MaxRecords   \* in the two runs together

ASSUME TraceJsonAssumption ==
    /\ Kinds \subseteq {"single", "multi"}
    /\ MaxRecords \in Nat

VARIABLES expected, actual,  \* the runs
          damage             \* what happened to the actual run's file

traceVars == <<expected, actual, damage>>

Lists == {"events", "interrupts", "switches", "processes", "violations"}

\* The number of all records of a run.
Size(run) ==
    LET n(l) == Len(run.lists[l])
    IN n("events") + n("interrupts") + n("switches") + n("processes") + n("violations")

Run(kind, mode, producer) ==
    [kind |-> kind, mode |-> mode, producer |-> producer, lists |-> [l \in Lists |-> <<>>]]

TraceInit ==
    /\ \E k \in Kinds, m \in Modes, p \in Producers : expected = Run(k, m, p)
    /\ \E k \in Kinds, m \in Modes, p \in Producers : actual = Run(k, m, p)
    /\ damage = "none"

\* The fields of a switch, an interrupt, a process and a violation, by type.
NumberFields ==
    [switches |-> <<"lifecycle_step", "from_pid", "to_pid">>,
     interrupts |-> <<"lifecycle_step", "pid", "vector", "service_number", "argument0",
                      "argument1", "status", "result_value", "exit_code">>,
     processes |-> <<"pid", "exit_code", "pc", "sp", "code_end_exclusive", "data_base",
                     "data_size">>,
     violations |-> <<"lifecycle_step", "pid">>]

WordFields ==
    [switches |-> <<>>,
     interrupts |-> <<"disposition">>,
     processes |-> <<"source_name", "state", "termination_kind", "termination_message">>,
     violations |-> <<"code", "message">>]

FlagFields ==
    [switches |-> <<"preempted", "caused_by_termination">>,
     interrupts |-> <<"has_service_number", "has_argument0", "has_argument1", "has_status",
                      "has_result">>,
     processes |-> <<"has_exit_code", "has_executable_image">>,
     violations |-> <<>>]

Fields(l) == NumberFields[l] \o WordFields[l] \o FlagFields[l]

\* Records that differ from the ordinary one in one field at most.
Records(l) == [odd : ToSet(Fields(l)) \cup {"none"}]

Items(l) == IF l = "events" THEN Events ELSE Records(l)

\* An odd record is the first of its run, and compared with one of its kind: this
\* bounds the number of runs.
Recorded(run, l, x) ==
    /\ damage = "none"
    /\ run.kind = "single" => l = "events"
    /\ Size(expected) + Size(actual) < MaxRecords
    /\ l # "events" /\ x.odd # "none" =>
         /\ Size(run) = 0
         /\ Size(expected) = Len(expected.lists[l]) /\ Size(actual) = Len(actual.lists[l])

RecordExpected(l, x) ==
    /\ Recorded(expected, l, x)
    /\ expected' = [expected EXCEPT !.lists[l] = Append(@, x)]
    /\ UNCHANGED <<actual, damage>>

RecordActual(l, x) ==
    /\ Recorded(actual, l, x)
    /\ actual' = [actual EXCEPT !.lists[l] = Append(@, x)]
    /\ UNCHANGED <<expected, damage>>

\* The stream fails before everything is written, or the file loses a record.
\* The other run and what a record says are nothing to that: the one has not begun,
\* the records are ordinary.
Damage(d) ==
    /\ damage = "none" /\ Size(expected) = 0
    /\ \A l \in Lists \ {"events"} : \A i \in DOMAIN actual.lists[l] :
          actual.lists[l][i].odd = "none"
    /\ damage' = d
    /\ UNCHANGED <<expected, actual>>

TraceNext ==
    \/ \E l \in Lists : \E x \in Items(l) : RecordExpected(l, x) \/ RecordActual(l, x)
    \/ \E d \in {"cut", "lost"} : Damage(d)

TraceSpec == TraceInit /\ [][TraceNext]_traceVars

-------------------------------------------------------------------------------
(* TraceJsonWriter.  Fields of one type that follow each other in an object *)
(* are written together; their order means nothing to the parser.           *)

RegisterNames == <<"R0", "R1">>

appendRegisters(st, comma) ==
    Field("registers",
          Braces(Elements([i \in DOMAIN RegisterNames |->
                              numberField(RegisterNames[i], st.value, FALSE)])), comma)

appendFlags(st, comma) ==
    Field("flags",
          Braces(boolFields(<<"zero", "sign", "carry", "overflow">>,
                            LAMBDA n : n = "zero" /\ st.value = 0)
                 \o numberField("raw", IF st.value = 0 THEN 64 ELSE 0, FALSE)), comma)

appendState(name, st, comma) ==
    Field(name,
          Braces(numberFields(<<"pc", "sp">>, LAMBDA n : st.pc)
                 \o stringField("privilege", Words("User"), TRUE)
                 \o boolFields(<<"halted", "has_error">>, LAMBDA n : st.error # <<>>)
                 \o stringField("error_message", Text(st.error), TRUE)
                 \o appendRegisters(st, TRUE)
                 \o appendFlags(st, FALSE)), comma)

\* register_changes, flag_changes and memory_changes: what the two states of
\* the event differ in.
appendChanges(name, key, e, comma) ==
    LET change == Braces(stringField(key, Words("R0"), TRUE)
                         \o numberField("before", e.before.value, TRUE)
                         \o numberField("after", e.after.value, FALSE))
        changes == IF e.before.value # e.after.value THEN <<change, change>> ELSE <<>>
    IN Field(name, Brackets(Elements(changes)), comma)

DisplayFields == <<"stage", "action", "datapath", "alu_detail", "memory_detail",
    "stack_detail", "control_flow_detail", "compact", "full">>

appendEvent(e, index) ==
    Braces(numberFields(<<"index", "pc_before", "pc_after", "sp_before", "sp_after">>,
                        LAMBDA n : CASE n = "index" -> index
                                     [] n \in {"pc_before", "sp_before"} -> e.before.pc
                                     [] OTHER -> e.after.pc)
           \o stringField("instruction", Words(e.instruction), TRUE)
           \o appendState("state_before", e.before, TRUE)
           \o appendState("state_after", e.after, TRUE)
           \o appendChanges("register_changes", "name", e, TRUE)
           \o appendChanges("flag_changes", "name", e, TRUE)
           \o appendChanges("memory_changes", "address", e, TRUE)
           \o wordFields(DisplayFields, LAMBDA n : e.display)
           \o boolField("has_error", e.after.error # <<>>, TRUE)
           \o stringField("error", Text(e.after.error), FALSE))

singleToJson(run) ==
    LET events == run.lists["events"]
    IN Braces(stringField("schema", Words("zero_cpu_trace"), TRUE)
              \o numberField("schema_version", 3, TRUE)
              \o wordFields(<<"producer", "producer_version">>, LAMBDA n : run.producer)
              \o stringField("mode", Words(run.mode), TRUE)
              \o stringField("loaded_path", Words(run.producer), TRUE)
              \o numberField("event_count", Len(events), TRUE)
              \o Field("events",
                       Brackets(Elements([i \in DOMAIN events |-> appendEvent(events[i], i - 1)])),
                       FALSE))

-------------------------------------------------------------------------------
(* MultiProcessTraceJsonWriter.                                             *)

\* The fields of a record of the list l, the odd one unlike the others.
appendRecord(l, r) ==
    LET last == Fields(l)[Len(Fields(l))]
        field(n, comma) ==
          CASE n \in ToSet(NumberFields[l]) -> numberField(n, IF n = r.odd THEN 2 ELSE 1, comma)
            [] n \in ToSet(WordFields[l]) ->
                 stringField(n, Words(IF n = r.odd THEN "b" ELSE "a"), comma)
            [] OTHER -> boolField(n, n = r.odd, comma)
    IN Braces(FlattenSeq([i \in DOMAIN Fields(l) |-> field(Fields(l)[i], Fields(l)[i] # last)]))

appendRecords(l, rs) == Brackets(Elements([i \in DOMAIN rs |-> appendRecord(l, rs[i])]))

appendInvariantReport(vs) ==
    Field("invariants",
          Braces(boolField("passed", vs = <<>>, TRUE)
                 \o numberField("violation_count", Len(vs), TRUE)
                 \o Field("violations", appendRecords("violations", vs), FALSE)),
          TRUE)

\* The lines of the nested text are indented, which no token shows.
nestedJsonField(name, json, comma) == Field(name, json, comma)

appendExecutionTrace(es) ==
    LET record(i) == Braces(numberFields(<<"lifecycle_step", "pid">>, LAMBDA n : 1)
                            \o nestedJsonField("event", appendEvent(es[i], i - 1), FALSE))
    IN numberField("execution_event_count", Len(es), TRUE)
       \o Field("execution_trace", Brackets(Elements([i \in DOMAIN es |-> record(i)])), TRUE)

\* Nothing is written when there was no interrupt.
appendSoftwareInterrupts(is) ==
    IF is = <<>> THEN <<>>
    ELSE numberField("software_interrupt_event_count", Len(is), TRUE)
         \o Field("software_interrupts", appendRecords("interrupts", is), TRUE)

appendContextSwitches(ss) ==
    numberField("context_switch_event_count", Len(ss), TRUE)
    \o Field("context_switches", appendRecords("switches", ss), TRUE)

appendProcesses(ps) == Field("processes", appendRecords("processes", ps), FALSE)

CountFields == <<"lifecycle_steps", "process_count", "termination_count", "fault_count",
    "preemption_count", "context_switch_count">>

multiToJson(run) ==
    LET n(name) == CASE name = "process_count" -> Len(run.lists["processes"])
                     [] name = "context_switch_count" -> Len(run.lists["switches"])
                     [] OTHER -> Len(run.lists["events"])
    IN Braces(stringField("schema", Words("zero_cpu_multiprocess_trace"), TRUE)
              \o numberField("schema_version", 1, TRUE)
              \o wordFields(<<"producer", "producer_version">>, LAMBDA x : run.producer)
              \o wordFields(<<"mode", "runtime_state">>, LAMBDA x : run.mode)
              \o boolField("step_limit_reached", FALSE, TRUE)
              \o numberFields(CountFields, n)
              \o appendInvariantReport(run.lists["violations"])
              \o appendExecutionTrace(run.lists["events"])
              \o appendSoftwareInterrupts(run.lists["interrupts"])
              \o appendContextSwitches(run.lists["switches"])
              \o appendProcesses(run.lists["processes"]))

toJson(run) == IF run.kind = "single" THEN singleToJson(run) ELSE multiToJson(run)
===============================================================================
