--------------------------- MODULE DebugSnapshotJson ---------------------------
(***************************************************************************)
(* DebugSnapshotJsonWriter: what a debug session of one or of several      *)
(* processes holds, written as JSON under options that leave parts out,    *)
(* and put into a file that may exist already.                             *)
(***************************************************************************)
EXTENDS Json, FiniteSets

CONSTANTS
    Sessions,    \* the processes of a session, in the order of the table
    MemorySize,  \* bytes of memory of each process
    Lines,       \* source line of each address that has one
    Options,     \* what to include, and which range of memory
    MaxItems     \* breakpoints, watchpoints and switches of one kind

VARIABLES
    pids,     \* the processes of this session
    loaded,   \* the session has a program
    pc,       \* of each process
    items,    \* how many breakpoints, conditional ones, watchpoints, switches
    symbols,  \* the processes that symbols are attached to
    steps,    \* executed; the trace is empty before the first
    file      \* what the export's path holds: "absent", "complete", "torn"

session == <<pids, loaded, pc, items, symbols, steps>>

vars == <<session, file>>

Processes == {pids[i] : i \in DOMAIN pids}

Multi == Len(pids) > 1

ItemKinds == {"breakpoints", "conditional_breakpoints", "watchpoints", "context_switches"}

Init ==
    /\ pids \in Sessions
    /\ loaded = Multi
    /\ pc = [p \in Processes |-> 0]
    /\ items = [k \in ItemKinds |-> 0]
    /\ symbols = {}
    /\ steps = 0
    /\ file = "absent"

-------------------------------------------------------------------------------
(* Sections.                                                                *)

Value == steps

Name == "name"

Registers == <<"R0", "R1">>

appendRegisters(comma) ==
    Field("registers",
          Braces(Elements([i \in DOMAIN Registers |-> numberField(Registers[i], Value, FALSE)])),
          comma)

appendFlags(comma) ==
    Field("flags",
          Braces(numberField("raw", 64, TRUE)
                 \o boolFields(<<"zero", "sign", "carry">>, LAMBDA n : n = "zero")
                 \o boolField("overflow", FALSE, FALSE)), comma)

appendCPU(comma) ==
    Field("cpu",
          Braces(numberFields(<<"pc", "sp">>, LAMBDA n : pc[pids[1]])
                 \o stringField("privilege", Words("User"), TRUE)
                 \o boolFields(<<"halted", "has_error">>, LAMBDA n : FALSE)
                 \o stringField("error_message", Text(<<>>), TRUE)
                 \o appendRegisters(TRUE)
                 \o appendFlags(FALSE)), comma)

appendProcessContext(p, comma) ==
    Field("context",
          Braces(numberFields(<<"pc", "sp">>, LAMBDA n : pc[p])
                 \o stringField("privilege", Words("User"), TRUE)
                 \o numberField("kernel_stack_pointer", Value, TRUE)
                 \o boolField("has_user_code_range", TRUE, TRUE)
                 \o numberFields(<<"user_code_begin", "user_code_end_exclusive">>, LAMBDA n : Value)
                 \o appendRegisters(TRUE)
                 \o appendFlags(FALSE)), comma)

\* validateMemoryOptions does not throw.
MemoryOptionsValid(p, o) ==
    o.memory => /\ o.size # 0
                /\ o.address < MemorySize[p]
                /\ o.size <= MemorySize[p] - o.address

appendMemory(p, o, comma) ==
    Field("memory",
          Braces(boolField("included", o.memory, TRUE)
                 \o numberField("address", IF o.memory THEN o.address ELSE 0, TRUE)
                 \o numberField("size", IF o.memory THEN o.size ELSE 0, TRUE)
                 \o Field("bytes",
                          Brackets(Elements([i \in 1 .. (IF o.memory THEN o.size ELSE 0) |->
                                               <<NumberToken(Value)>>])), FALSE)), comma)

appendExecutable(comma) ==
    Field("executable",
          Braces(stringField("source_name", Words(Name), TRUE)
                 \o numberFields(<<"memory_size", "code_base", "code_size", "code_end_exclusive",
                                   "entry_point", "data_base", "data_size", "user_stack_begin">>,
                                 LAMBDA n : Value)
                 \o numberField("user_stack_end_exclusive", Value, FALSE)), comma)

appendProcessExecutable(comma) ==
    Field("executable",
          Braces(boolField("available", TRUE, TRUE)
                 \o numberFields(<<"code_base", "code_end_exclusive", "entry_point", "data_base">>,
                                 LAMBDA n : Value)
                 \o numberField("data_size", Value, FALSE)), comma)

appendSingleStop(comma) ==
    Field("stop",
          Braces(wordFields(<<"reason", "message", "conditional_expression", "watchpoint_mode",
                              "access_mode">>, LAMBDA n : Name)
                 \o numberFields(<<"pc", "executed_steps", "total_steps",
                                   "conditional_breakpoint_id", "conditional_actual_value",
                                   "watchpoint_id", "watchpoint_address", "watchpoint_size">>,
                                 LAMBDA n : Value)
                 \o boolFields(<<"has_conditional_breakpoint", "has_watchpoint">>, LAMBDA n : FALSE)
                 \o numberField("access_address", Value, FALSE)), comma)

appendMultiStop(comma) ==
    Field("stop",
          Braces(wordFields(<<"reason", "runtime_state", "conditional_expression",
                              "watchpoint_mode", "access_mode">>, LAMBDA n : Name)
                 \o numberFields(<<"executed_steps", "total_steps", "running_pid", "selected_pid",
                                   "hit_pid", "hit_address", "conditional_breakpoint_id",
                                   "conditional_actual_value", "watchpoint_id",
                                   "watchpoint_address", "watchpoint_size", "access_address",
                                   "terminated_pid">>, LAMBDA n : Value)
                 \o boolFields(<<"has_debug_hit", "has_conditional_breakpoint", "has_watchpoint",
                                 "process_terminated", "process_faulted">>, LAMBDA n : FALSE)
                 \o stringField("message", Words(Name), FALSE)), comma)

\* The place of the process's program counter in its source, if it has one:
\* a program may have stopped behind its last instruction.
appendSourceLocation(p, comma) ==
    LET available == p \in symbols /\ pc[p] \in DOMAIN Lines
    IN Field("source_location",
             Braces(boolField("available", available, TRUE)
                    \o stringField("path", Words(IF p \in symbols THEN Name ELSE ""), TRUE)
                    \o numberField("line", IF available THEN Lines[pc[p]] ELSE 0, TRUE)
                    \o numberField("address", pc[p], FALSE)), comma)

\* Breakpoints of a single session are plain addresses.
appendSingleBreakpoints(comma) ==
    Field("breakpoints",
          Brackets(Elements([i \in 1 .. items["breakpoints"] |-> <<NumberToken(i)>>])), comma)

\* A list of objects with an id or an address, words, and a last number.
appendItems(kind, numbers, words, last, comma) ==
    Field(kind,
          Brackets(Elements([i \in 1 .. items[kind] |->
              Braces(numberFields(numbers, LAMBDA n : i)
                     \o wordFields(words, LAMBDA n : Name)
                     \o numberField(last, i, FALSE))])), comma)

appendConditionalBreakpoints(comma) ==
    appendItems("conditional_breakpoints",
                IF Multi THEN <<"id", "pid">> ELSE <<"id">>, <<"expression">>, "address", comma)

appendWatchpoints(comma) ==
    appendItems("watchpoints",
                IF Multi THEN <<"id", "pid", "address">> ELSE <<"id", "address">>,
                <<"mode">>, "size", comma)

appendMultiBreakpoints(comma) ==
    appendItems("breakpoints", <<"pid">>, <<>>, "address", comma)

appendContextSwitches(comma) ==
    Field("context_switches",
          Brackets(Elements([i \in 1 .. items["context_switches"] |->
              Braces(numberFields(<<"lifecycle_step", "from_pid", "to_pid">>, LAMBDA n : i)
                     \o boolField("preempted", TRUE, TRUE)
                     \o boolField("caused_by_termination", FALSE, FALSE))])), comma)

appendSymbolEntries(comma) ==
    Field("entries",
          Brackets(Elements([i \in 1 .. 2 |->
              Braces(wordFields(<<"kind", "name">>, LAMBDA n : Name)
                     \o numberField("address", i, FALSE))])), comma)

appendSingleSymbols(o, comma) ==
    LET included == o.symbols /\ pids[1] \in symbols
    IN Field("symbols",
             Braces(boolField("included", included, TRUE)
                    \o IF included THEN appendSymbolEntries(FALSE)
                       ELSE Field("entries", Brackets(<<>>), FALSE)), comma)

\* Mutant: the comma is written before every process but the first.
MutAppendMultiSymbols(o, comma) ==
    Field("symbols",
          Brackets(FlattenSeq([i \in DOMAIN pids |->
              IF o.symbols /\ pids[i] \in symbols
              THEN finishField(i > 1)
                   \o Braces(numberField("pid", pids[i], TRUE) \o appendSymbolEntries(FALSE))
              ELSE <<>>])), comma)

\* Processes without symbols are skipped, with the comma before them.
appendMultiSymbols(o, comma) ==
    LET shown == SelectSeq(pids, LAMBDA p : o.symbols /\ p \in symbols)
    IN Field("symbols",
             Brackets(Elements([i \in DOMAIN shown |->
                 Braces(numberField("pid", shown[i], TRUE) \o appendSymbolEntries(FALSE))])), comma)

appendProcess(p, o) ==
    Braces(numberField("pid", p, TRUE)
           \o wordFields(<<"source_name", "state", "termination_kind", "termination_message">>,
                         LAMBDA n : Name)
           \o boolFields(<<"running", "terminated", "faulted", "has_exit_code">>, LAMBDA n : FALSE)
           \o numberField("exit_code", Value, TRUE)
           \o appendProcessContext(p, TRUE)
           \o appendProcessExecutable(TRUE)
           \o appendSourceLocation(p, TRUE)
           \o appendMemory(p, o, FALSE))

appendProcesses(o, comma) ==
    Field("processes",
          Brackets(Elements([i \in DOMAIN pids |-> appendProcess(pids[i], o)])), comma)

appendLastTrace(o, comma) ==
    IF ~o.trace \/ steps = 0 THEN nullField("last_trace", comma)
    ELSE Field("last_trace",
               Braces(stringField("compact", Words(Name), TRUE)
                      \o stringField("full", Words(Name), FALSE)), comma)

singleToJson(o) ==
    Braces(wordFields(<<"schema", "mode", "source_name">>, LAMBDA n : Name)
           \o numberFields(<<"schema_version", "total_steps">>, LAMBDA n : Value)
           \o appendSingleStop(TRUE)
           \o appendCPU(TRUE)
           \o appendExecutable(TRUE)
           \o appendSourceLocation(pids[1], TRUE)
           \o appendSingleBreakpoints(TRUE)
           \o appendConditionalBreakpoints(TRUE)
           \o appendWatchpoints(TRUE)
           \o appendSingleSymbols(o, TRUE)
           \o appendMemory(pids[1], o, TRUE)
           \o appendLastTrace(o, FALSE))

multiToJson(o) ==
    Braces(wordFields(<<"schema", "mode", "runtime_state">>, LAMBDA n : Name)
           \o numberFields(<<"schema_version", "total_steps", "running_pid", "selected_pid",
                             "quantum", "preemption_count", "scheduler_context_switch_count">>,
                           LAMBDA n : Value)
           \o appendMultiStop(TRUE)
           \o appendProcesses(o, TRUE)
           \o appendMultiBreakpoints(TRUE)
           \o appendConditionalBreakpoints(TRUE)
           \o appendWatchpoints(TRUE)
           \o appendMultiSymbols(o, TRUE)
           \o appendContextSwitches(TRUE)
           \o appendLastTrace(o, FALSE))

toJson(o) == IF Multi THEN multiToJson(o) ELSE singleToJson(o)

\* toJson throws nothing.
Exportable(o) == loaded /\ \A p \in Processes : MemoryOptionsValid(p, o)

-------------------------------------------------------------------------------
(* The session and the export.                                              *)

\* A session of several processes is made with its images; one of a single
\* process loads its own, again and again, and each time starts anew.
Load ==
    /\ ~Multi
    /\ loaded' = TRUE
    /\ pc' = [p \in Processes |-> 0]
    /\ items' = [k \in ItemKinds |-> 0]
    /\ symbols' = {}
    /\ steps' = 0
    /\ UNCHANGED <<pids, file>>

AddItem(k) ==
    /\ loaded /\ items[k] < MaxItems
    /\ items' = [items EXCEPT ![k] = @ + 1]
    /\ UNCHANGED <<pids, loaded, pc, symbols, steps, file>>

LoadSymbols(p) ==
    /\ loaded
    /\ symbols' = symbols \cup {p}
    /\ UNCHANGED <<pids, loaded, pc, items, steps, file>>

\* An instruction of p, the last of which leads behind the mapped ones; another
\* process may take over.
Step(p, switched) ==
    /\ loaded /\ pc[p] \in DOMAIN Lines
    /\ switched => Multi /\ items["context_switches"] < MaxItems
    /\ pc' = [pc EXCEPT ![p] = @ + 1]
    /\ steps' = steps + 1
    /\ items' = [items EXCEPT !["context_switches"] = IF switched THEN @ + 1 ELSE @]
    /\ UNCHANGED <<pids, loaded, symbols, file>>

\* writeFile: the text is complete before the file is opened, which empties
\* it; writing may then fail.
Export(o, path, stream) ==
    /\ Exportable(o) /\ path = "ok"
    /\ file' = IF stream = "ok" THEN "complete" ELSE "torn"
    /\ UNCHANGED session

ExportRefused(o, path) ==
    /\ ~Exportable(o) \/ path # "ok"
    /\ UNCHANGED vars

Next ==
    \/ Load
    \/ \E k \in ItemKinds \ {"context_switches"} : AddItem(k)
    \/ \E p \in Processes : LoadSymbols(p) \/ \E switched \in BOOLEAN : Step(p, switched)
    \/ \E o \in Options, path \in {"ok", "empty", "unopenable"} :
          \/ \E stream \in {"ok", "fails"} : Export(o, path, stream)
          \/ ExportRefused(o, path)

Spec == Init /\ [][Next]_vars

-------------------------------------------------------------------------------

ListOf(v, name) == v.object[name].array

\* The document written under the options o is read back with all the
\* breakpoints, watchpoints and switches of the session, the symbols of exactly
\* the processes that have them, and memory that every process has.
Readable(o) ==
    LET v == parse(toJson(o))
        has == {k \in ItemKinds : Multi \/ k # "context_switches"}
    IN /\ v.ok
       /\ \A k \in has : Len(ListOf(v.value, k)) = items[k]
       /\ Multi => {ListOf(v.value, "symbols")[i].object["pid"].number :
                      i \in DOMAIN ListOf(v.value, "symbols")}
                   = IF o.symbols THEN symbols ELSE {}
       /\ o.memory => \A p \in Processes :
                        o.address .. o.address + o.size - 1 \subseteq 0 .. MemorySize[p] - 1

\* Whatever the session holds and whatever parts the options leave out, a
\* snapshot that is not refused is one JSON document that has everything it
\* should (DebugSnapshotJsonWriter::toJson).
SnapshotsReadable == \A o \in Options : Exportable(o) => Readable(o)
===============================================================================
