------------------------------- MODULE TraceDiff -------------------------------
(***************************************************************************)
(* TraceJsonDiff: the two files are parsed, checked against their schema,  *)
(* reduced to what the architecture determines unless the comparison is    *)
(* strict, and compared value by value.                                    *)
(***************************************************************************)
EXTENDS TraceJson

Has(v, name) == v.type = "object" /\ name \in DOMAIN v.object

At(v, name) == v.object[name]

ArrayAt(v, name) == Has(v, name) /\ At(v, name).type = "array"

NumberAt(v, name) == Has(v, name) /\ At(v, name).type = "number"

\* Mutant: the declared count is not compared with the array.
MutCounted(v, count, list) == NumberAt(v, count) /\ ArrayAt(v, list)

\* A declared count and the array that has that many elements.
Counted(v, count, list) ==
    /\ NumberAt(v, count) /\ ArrayAt(v, list)
    /\ At(v, count).number = Len(At(v, list).array)

SchemaIs(v, name, version) ==
    /\ Has(v, "schema") /\ At(v, "schema") = String(Words(name))
    /\ NumberAt(v, "schema_version") /\ At(v, "schema_version").number = version

validSingle(v) ==
    SchemaIs(v, "zero_cpu_trace", 3) /\ Counted(v, "event_count", "events")

validMulti(v) ==
    /\ SchemaIs(v, "zero_cpu_multiprocess_trace", 1)
    /\ Counted(v, "execution_event_count", "execution_trace")
    /\ Counted(v, "context_switch_event_count", "context_switches")
    /\ Counted(v, "process_count", "processes")
    /\ Has(v, "software_interrupts") <=> Has(v, "software_interrupt_event_count")
    /\ Has(v, "software_interrupts")
         => Counted(v, "software_interrupt_event_count", "software_interrupts")
    /\ Has(v, "invariants")

\* validateTraceDocument: the kind of a document, "none" if it throws.
validateTraceDocument(v) ==
    CASE validSingle(v) -> "single" [] validMulti(v) -> "multi" [] OTHER -> "none"

-------------------------------------------------------------------------------
(* The architectural view.                                                  *)

\* selectObjectFields: throws unless all of them are there.
Selectable(v, names) == \A n \in names : Has(v, n)

selectObjectFields(v, names) == Object([n \in names |-> At(v, n)])

Each(v, Pick(_)) == Array([i \in DOMAIN v.array |-> Pick(v.array[i])])

\* Mutant: changes of memory are not compared.
MutEventFields ==
    {"index", "pc_before", "pc_after", "sp_before", "sp_after", "instruction",
     "state_before", "state_after", "has_error", "error", "full"}

EventFields ==
    {"index", "pc_before", "pc_after", "sp_before", "sp_after", "instruction",
     "state_before", "state_after", "register_changes", "flag_changes",
     "memory_changes", "has_error", "error"}

traceEventArchitecturalView(e) == selectObjectFields(e, EventFields)

singleProcessArchitecturalView(v) ==
    Object([n \in {"schema", "schema_version", "mode", "event_count", "events"} |->
        IF n = "events" THEN Each(At(v, n), traceEventArchitecturalView) ELSE At(v, n)])

multiProcessInvariantArchitecturalView(v) ==
    Object([n \in {"passed", "violation_count", "violations"} |->
        IF n # "violations" THEN At(v, n)
        ELSE Each(At(v, n), LAMBDA x : selectObjectFields(x, {"code", "lifecycle_step", "pid"}))])

executionRecordView(r) ==
    Object([n \in {"lifecycle_step", "pid", "event"} |->
        IF n = "event" THEN traceEventArchitecturalView(At(r, n)) ELSE At(r, n)])

SoftwareInterruptFields ==
    {"lifecycle_step", "pid", "vector", "has_service_number", "service_number",
     "has_argument0", "argument0", "has_argument1", "argument1", "has_status", "status",
     "has_result", "result_value", "disposition", "exit_code"}

ContextSwitchFields ==
    {"lifecycle_step", "from_pid", "to_pid", "preempted", "caused_by_termination"}

ProcessFields ==
    {"pid", "state", "has_exit_code", "exit_code", "termination_kind", "termination_message",
     "pc", "sp", "has_executable_image", "code_end_exclusive", "data_base", "data_size"}

RootFields ==
    {"schema", "schema_version", "mode", "runtime_state", "step_limit_reached",
     "lifecycle_steps", "process_count", "termination_count", "fault_count",
     "preemption_count", "context_switch_count", "execution_event_count",
     "context_switch_event_count"}

\* Traces from before software interrupts were recorded have neither the array
\* nor its count.
multiProcessArchitecturalView(v) ==
    LET old == ~Has(v, "software_interrupts")
        view(n) ==
          CASE n = "software_interrupt_event_count" /\ old -> Number(0)
            [] n = "software_interrupts" /\ old -> Array(<<>>)
            [] n = "software_interrupts" /\ ~old ->
                 Each(At(v, n), LAMBDA x : selectObjectFields(x, SoftwareInterruptFields))
            [] n = "invariants" -> multiProcessInvariantArchitecturalView(At(v, n))
            [] n = "execution_trace" -> Each(At(v, n), executionRecordView)
            [] n = "context_switches" ->
                 Each(At(v, n), LAMBDA x : selectObjectFields(x, ContextSwitchFields))
            [] n = "processes" ->
                 Each(At(v, n), LAMBDA x : selectObjectFields(x, ProcessFields))
            [] OTHER -> At(v, n)
    IN Object([n \in RootFields \cup {"software_interrupt_event_count", "software_interrupts",
                        "invariants", "execution_trace", "context_switches", "processes"} |->
                 view(n)])

architecturalView(v, kind) ==
    IF kind = "single" THEN singleProcessArchitecturalView(v)
    ELSE multiProcessArchitecturalView(v)

-------------------------------------------------------------------------------
(* Comparing.                                                               *)

Child(path, k) == Append(path, k)

Step(name, i) == [name |-> name, index |-> i]

\* The two loops over the keys of the expected and of the actual object.
Keys(e, a) == DOMAIN e.object \cup DOMAIN a.object

RECURSIVE compareValues(_, _, _)
\* The paths of all differences that DiffAccumulator counts.  It reports the
\* one that the order of keys puts first.
compareValues(e, a, path) ==
    IF e.type # a.type THEN {path}
    ELSE CASE e.type = "object" ->
                UNION {IF k \in DOMAIN e.object \cap DOMAIN a.object
                       THEN compareValues(e.object[k], a.object[k], Child(path, Step(k, 0)))
                       ELSE {Child(path, Step(k, 0))}
                       : k \in Keys(e, a)}
           [] e.type = "array" ->
                (IF Len(e.array) # Len(a.array) THEN {Child(path, Step("length", 0))} ELSE {})
                \cup UNION {compareValues(e.array[i], a.array[i], Child(path, Step("", i)))
                            : i \in DOMAIN e.array \cap DOMAIN a.array}
           [] OTHER -> IF e = a THEN {} ELSE {path}

\* compareText once both texts are parsed; error stands for every exception.
compareDocuments(x, y, strict) ==
    LET kind == validateTraceDocument(x)
        view(v) == IF strict THEN v ELSE architecturalView(v, kind)
    IN IF kind = "none" \/ validateTraceDocument(y) # kind
       THEN [error |-> TRUE, differences |-> {}]
       ELSE [error |-> FALSE, differences |-> compareValues(view(x), view(y), <<>>)]

equal(result) == ~result.error /\ result.differences = {}

-------------------------------------------------------------------------------

\* What is shown of a process or a violation and says nothing of the run.
DisplayOnly == {"source_name", "message"}

Undisplayed(l, x) ==
    IF l = "events" THEN [x EXCEPT !.display = ""]
    ELSE [x EXCEPT !.odd = IF @ \in DisplayOnly THEN "none" ELSE @]

\* What a run computed, without the names of the programs that recorded it and
\* the way it is shown.
Architecture(run) ==
    [run EXCEPT !.producer = "", !.lists = [l \in Lists |->
        [i \in DOMAIN run.lists[l] |-> Undisplayed(l, run.lists[l][i])]]]

\* Both runs' texts are read, a strict comparison finds every difference between
\* two runs of the same kind, and the other one exactly the architectural ones:
\* no field of a record is left out of it and none is too many.
DiffIsExact ==
    damage = "none" /\ expected.kind = actual.kind =>
        LET x == parse(toJson(expected))
            y == parse(toJson(actual))
        IN /\ x.ok /\ y.ok
           /\ equal(compareDocuments(x.value, y.value, TRUE)) <=> expected = actual
           /\ equal(compareDocuments(x.value, y.value, FALSE))
                <=> Architecture(expected) = Architecture(actual)

\* The document without the last record of a list.
ListName(l) ==
    CASE l = "events" -> IF actual.kind = "single" THEN "events" ELSE "execution_trace"
      [] l = "interrupts" -> "software_interrupts"
      [] l = "switches" -> "context_switches"
      [] OTHER -> l

WithoutLast(v, l) ==
    LET shorten(w) == Object([w.object EXCEPT ![ListName(l)] = Array(Front(@.array))])
    IN IF l = "violations" THEN Object([v.object EXCEPT !["invariants"] = shorten(@)])
       ELSE shorten(v)

\* A trace that a failing write has cut short anywhere is refused, and so is one
\* that has lost an event, an interrupt, a switch or a process.  One that has
\* lost a violation is not, since nobody compares violation_count with the list
\* (multiProcessInvariantArchitecturalView); but like all the others it never
\* compares equal to the whole trace, in either mode.
DamageIsNoticed ==
    LET ts == toJson(actual)
        v == parse(ts).value
    IN /\ damage = "cut" => \A k \in 0 .. Len(ts) - 1 : ~parse(SubSeq(ts, 1, k)).ok
       /\ damage = "lost" => \A l \in Lists : actual.lists[l] # <<>> =>
             LET w == WithoutLast(v, l)
             IN /\ l # "violations" => validateTraceDocument(w) = "none"
                /\ \A strict \in BOOLEAN : ~equal(compareDocuments(v, w, strict))
===============================================================================
