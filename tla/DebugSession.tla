----------------------------- MODULE DebugSession -----------------------------
(***************************************************************************)
(* DebugSession: one executable, its symbols, breakpoints, conditional     *)
(* breakpoints and watchpoints, and the commands of DebugConsole and       *)
(* StudioDebugBackend on it.  A pass through the loop of a command is one  *)
(* action.  An instruction's address is its place in the code, and a word  *)
(* in memory has two bytes (eight in the code).  A command that throws     *)
(* changes nothing, except loadFile, whose symbols come after the image.   *)
(***************************************************************************)
EXTENDS Integers, Sequences, FiniteSets

CONSTANTS
    Executables,   \* code of the files that are loaded
    SymbolFiles,   \* .zsym files, [header, records]
    MemorySize,    \* bytes of memory of a process
    Radix,         \* values of a byte
    Conditions,    \* [source, index, operation, expected]
    Watches,       \* [address, size, mode]
    MaxId,         \* the largest identifier of a point, numeric_limits::max()
    MaxPoints,     \* bound: points set at one time
    MaxLimit       \* bound: largest number of steps asked for

VARIABLES
    loaded,       \* loaded_
    code,         \* the code section of the executable
    symbols,      \* symbols_, in the order of the file
    cpu,          \* cpu_: [pc, reg, mem, state]
    access,       \* memoryDetail of the last trace event: <<>> or <<address, mode>>
    breakpoints,
    conditional_breakpoints, next_conditional_breakpoint_id,
    watchpoints, next_watchpoint_id,
    last_stop,    \* last_stop_: [reason, pc, id]
    command,      \* the loop in progress: "none", "step", "continue", "source"
    maxSteps, executedSteps, skipInitialBreakpoint, sourceLineBefore,  \* its locals
    resting       \* history: the address last reported by a breakpoint, if the
                  \* instruction there has not been executed since, or 0

pointVars == <<breakpoints, conditional_breakpoints, next_conditional_breakpoint_id,
               watchpoints, next_watchpoint_id>>

loopVars == <<command, maxSteps, executedSteps, skipInitialBreakpoint, sourceLineBefore>>

vars == <<loaded, code, symbols, cpu, access, pointVars, last_stop, loopVars, resting>>

Elements(s) == {s[k] : k \in DOMAIN s}

-------------------------------------------------------------------------------
(* Symbols.                                                                 *)

\* DebugSymbols::readFile with add and addSourceLocation: a record is
\* <<"CODE", name, address>>, <<"DATA", name, address>> or
\* <<"LINE", line, address>>.  A file of version 1 has no LINE records.
Readable(f) ==
    /\ f.header \in {1, 2}
    /\ f.header = 1 => \A r \in Elements(f.records) : r[1] # "LINE"
    /\ \A j, k \in DOMAIN f.records :
          LET r == f.records[j]
              s == f.records[k]
          IN (j < k /\ (r[1] = "LINE") = (s[1] = "LINE")) =>
                /\ r[2] # s[2]
                /\ r[1] = "LINE" => r[3] # s[3]

\* DebugSymbols::resolveCode, as the set of the answer or nothing.
resolveCode(name) ==
    {r[3] : r \in {q \in Elements(symbols) : q[1] = "CODE" /\ q[2] = name}}

\* DebugSymbols::sourceLineForAddress, in the same way.
sourceLineForAddress(a) ==
    {r[2] : r \in {q \in Elements(symbols) : q[1] = "LINE" /\ q[3] = a}}

-------------------------------------------------------------------------------
(* The CPU: registers are one register, and only LOAD and STORE have a      *)
(* memory detail in their trace event.                                      *)

Qword(m, a) == m[a] + Radix * m[a + 1]

CpuAt(pc, reg, mem, state) == [pc |-> pc, reg |-> reg, mem |-> mem, state |-> state]

\* Execute the instruction at c.pc.  A User-mode jump out of the code is
\* refused before the program counter moves (setPcForExecution).
Executed(c) ==
    LET i == code[c.pc]
        inMemory == i.at + 1 < MemorySize
    IN CASE i.op = "inc" -> CpuAt(c.pc + 1, (c.reg + 1) % (Radix * Radix), c.mem, "ok")
         [] i.op = "jmp" /\ i.at \in 1 .. Len(code) -> CpuAt(i.at, c.reg, c.mem, "ok")
         [] i.op = "ld" /\ inMemory -> CpuAt(c.pc + 1, Qword(c.mem, i.at), c.mem, "ok")
         [] i.op = "st" /\ inMemory ->
               CpuAt(c.pc + 1, c.reg,
                     [c.mem EXCEPT ![i.at] = c.reg % Radix,
                                   ![i.at + 1] = c.reg \div Radix], "ok")
         [] i.op = "exit" -> CpuAt(c.pc, c.reg, c.mem, "halted")
         [] OTHER -> CpuAt(c.pc, c.reg, c.mem, "error")

AccessOf(i) == CASE i.op = "ld" -> <<i.at, "Read">>
                 [] i.op = "st" -> <<i.at, "Write">>
                 [] OTHER -> <<>>

-------------------------------------------------------------------------------
(* Points.                                                                  *)

\* DebugCondition::actualValue
actualValue(c, d) == CASE d.source = "Register" -> c.reg
                       [] d.source = "ProgramCounter" -> c.pc
                       [] d.source = "MemoryQword" -> Qword(c.mem, d.index)

\* DebugCondition::evaluate
evaluate(c, d) ==
    LET actual == actualValue(c, d)
    IN CASE d.operation = "==" -> actual = d.expected
         [] d.operation = "!=" -> actual # d.expected
         [] d.operation = "<"  -> actual < d.expected
         [] d.operation = "<=" -> actual <= d.expected
         [] d.operation = ">"  -> actual > d.expected
         [] d.operation = ">=" -> actual >= d.expected

\* DebugCondition::validateForCPU
validateForCPU(d) == d.source = "MemoryQword" => d.index + 1 < MemorySize

\* The first of the points found, as findWatchpointHit and
\* findConditionalBreakpointHit meet them: <<point>> or <<>>.  A vector of
\* points is in the order of the identifiers.
First(found) ==
    IF found = {} THEN <<>> ELSE <<CHOOSE b \in found : \A d \in found : b.id <= d.id>>

findConditionalBreakpointHit(c) ==
    First({b \in conditional_breakpoints : b.address = c.pc /\ evaluate(c, b.condition)})

\* Mutant: the watched range and the access overlap if the access starts in it.
MutWatched(w, acc) ==
    /\ w.mode \in {"Access", acc[2]}
    /\ w.address <= acc[1] /\ acc[1] < w.address + w.size

\* findWatchpointHit: mode and range of a watchpoint against an access.
Watched(w, acc) ==
    /\ w.mode \in {"Access", acc[2]}
    /\ w.address < acc[1] + 2 /\ acc[1] < w.address + w.size

findWatchpointHit(acc) ==
    IF acc = <<>> THEN <<>> ELSE First({w \in watchpoints : Watched(w, acc)})

StopAs(reason, pc, id) == [reason |-> reason, pc |-> pc, id |-> id]

\* The breakpoint that stops the process at c.pc: hasBreakpoint first, then
\* the conditional ones.
Hit(c) ==
    LET conditional == findConditionalBreakpointHit(c)
    IN IF c.pc \in breakpoints THEN <<StopAs("Breakpoint", c.pc, 0)>>
       ELSE IF conditional = <<>> THEN <<>>
       ELSE <<StopAs("ConditionalBreakpoint", c.pc, conditional[1].id)>>

\* classifyStoppedState
classifyStoppedState(c) ==
    CASE c.state = "error" -> "Fault"
      [] c.state = "halted" -> "Halted"
      [] OTHER -> IF c.pc = Len(code) + 1 THEN "ProgramEnd" ELSE "Ready"

-------------------------------------------------------------------------------
(* Loading.                                                                 *)

Prompt == command = "none"

NoPoints ==
    /\ breakpoints' = {}
    /\ conditional_breakpoints' = {} /\ next_conditional_breakpoint_id' = 1
    /\ watchpoints' = {} /\ next_watchpoint_id' = 1

FreshCpu == [pc |-> 1, reg |-> 0, mem |-> [a \in 0 .. MemorySize - 1 |-> 0], state |-> "ok"]

Init ==
    /\ loaded = FALSE /\ code = <<>> /\ symbols = <<>>
    /\ cpu = FreshCpu /\ access = <<>>
    /\ breakpoints = {}
    /\ conditional_breakpoints = {} /\ next_conditional_breakpoint_id = 1
    /\ watchpoints = {} /\ next_watchpoint_id = 1
    /\ last_stop = StopAs("Ready", 0, 0)
    /\ command = "none" /\ maxSteps = 0 /\ executedSteps = 0
    /\ skipInitialBreakpoint = FALSE /\ sourceLineBefore = 0
    /\ resting = 0

Loaded(c) ==
    /\ loaded' = TRUE /\ code' = c
    /\ cpu' = FreshCpu /\ access' = <<>>
    /\ NoPoints
    /\ last_stop' = StopAs("Ready", 1, 0)
    /\ resting' = 0
    /\ UNCHANGED loopVars

\* loadImage, or loadFile without a .zsym file beside the executable.
LoadImage(c) == Prompt /\ Loaded(c) /\ symbols' = <<>>

\* loadFile with one.  If it cannot be read the exception comes when the image
\* is loaded already.
LoadFile(c, f) ==
    /\ Prompt
    /\ Loaded(c)
    /\ symbols' = IF Readable(f) THEN f.records ELSE <<>>

LoadSymbolsFile(f) ==
    /\ Prompt /\ loaded
    /\ Readable(f)
    /\ symbols' = f.records
    /\ UNCHANGED <<loaded, code, cpu, access, pointVars, last_stop, loopVars, resting>>

\* StudioDebugBackend::reset
Reset ==
    /\ Prompt
    /\ loaded' = FALSE /\ code' = <<>> /\ symbols' = <<>>
    /\ cpu' = FreshCpu /\ access' = <<>>
    /\ NoPoints
    /\ last_stop' = StopAs("Ready", 0, 0)
    /\ resting' = 0
    /\ UNCHANGED loopVars

-------------------------------------------------------------------------------
(* Editing the points.                                                      *)

Edit == /\ Prompt /\ loaded
        /\ UNCHANGED <<loaded, code, symbols, cpu, access, last_stop, loopVars, resting>>

Room == Cardinality(breakpoints) + Cardinality(conditional_breakpoints)
        + Cardinality(watchpoints) < MaxPoints

\* validateBreakpointAddress
validateBreakpointAddress(a) == a \in 1 .. Len(code)

AddBreakpoint(a) ==
    /\ Edit /\ Room
    /\ validateBreakpointAddress(a)
    /\ breakpoints' = breakpoints \cup {a}
    /\ UNCHANGED <<conditional_breakpoints, next_conditional_breakpoint_id,
                   watchpoints, next_watchpoint_id>>

\* The command break-label.
BreakLabel(name) == \E a \in resolveCode(name) : AddBreakpoint(a)

\* removeBreakpoint and clearBreakpoints
RemoveBreakpoints(as) ==
    /\ Edit
    /\ breakpoints' = breakpoints \ as
    /\ UNCHANGED <<conditional_breakpoints, next_conditional_breakpoint_id,
                   watchpoints, next_watchpoint_id>>

\* A condition that is set there already keeps its identifier.
AddConditionalBreakpoint(a, d) ==
    /\ Edit /\ Room
    /\ validateBreakpointAddress(a) /\ validateForCPU(d)
    /\ \A b \in conditional_breakpoints : ~(b.address = a /\ b.condition = d)
    /\ next_conditional_breakpoint_id # MaxId
    /\ conditional_breakpoints' =
          conditional_breakpoints \cup
              {[id |-> next_conditional_breakpoint_id, address |-> a, condition |-> d]}
    /\ next_conditional_breakpoint_id' = next_conditional_breakpoint_id + 1
    /\ UNCHANGED <<breakpoints, watchpoints, next_watchpoint_id>>

\* removeConditionalBreakpoint, or clearConditionalBreakpoints with every id
RemoveConditionalBreakpoints(ids) ==
    /\ Edit
    /\ conditional_breakpoints' = {b \in conditional_breakpoints : b.id \notin ids}
    /\ UNCHANGED <<breakpoints, next_conditional_breakpoint_id,
                   watchpoints, next_watchpoint_id>>

\* validateWatchpointRange
validateWatchpointRange(w) ==
    /\ w.size > 0
    /\ w.address < MemorySize /\ w.size <= MemorySize - w.address

AddWatchpoint(w) ==
    /\ Edit /\ Room
    /\ validateWatchpointRange(w)
    /\ \A v \in watchpoints :
          ~(v.address = w.address /\ v.size = w.size /\ v.mode = w.mode)
    /\ next_watchpoint_id # MaxId
    /\ watchpoints' = watchpoints \cup {[id |-> next_watchpoint_id, address |-> w.address,
                                        size |-> w.size, mode |-> w.mode]}
    /\ next_watchpoint_id' = next_watchpoint_id + 1
    /\ UNCHANGED <<breakpoints, conditional_breakpoints, next_conditional_breakpoint_id>>

\* removeWatchpoint, or clearWatchpoints with every id
RemoveWatchpoints(ids) ==
    /\ Edit
    /\ watchpoints' = {w \in watchpoints : w.id \notin ids}
    /\ UNCHANGED <<breakpoints, conditional_breakpoints, next_conditional_breakpoint_id,
                   next_watchpoint_id>>

-------------------------------------------------------------------------------
(* The commands and their loops.                                            *)

Begin(name, n) ==
    /\ Prompt /\ loaded
    /\ command' = name
    /\ maxSteps' = n
    /\ executedSteps' = 0
    /\ UNCHANGED <<loaded, code, symbols, cpu, access, pointVars, last_stop, resting>>

\* The command step of DebugConsole calls DebugSession::step up to n times.
StepCommand(n) ==
    /\ Begin("step", n)
    /\ UNCHANGED <<skipInitialBreakpoint, sourceLineBefore>>

\* Mutant: the skip is for unconditional breakpoints only.
MutSkipsAtStart == last_stop.reason = "Breakpoint" /\ last_stop.pc = cpu.pc

\* continueExecution starts at the breakpoint it was stopped by.
SkipsAtStart ==
    /\ last_stop.reason \in {"Breakpoint", "ConditionalBreakpoint"}
    /\ last_stop.pc = cpu.pc

ContinueExecution(n) ==
    /\ Begin("continue", n)
    /\ skipInitialBreakpoint' = SkipsAtStart
    /\ UNCHANGED sourceLineBefore

\* stepSourceLine needs a line for the address it starts at.
StepSourceLine(n) ==
    /\ Begin("source", n)
    /\ classifyStoppedState(cpu) = "Ready" => sourceLineForAddress(cpu.pc) # {}
    /\ skipInitialBreakpoint' = TRUE
    /\ \/ sourceLineBefore' \in sourceLineForAddress(cpu.pc)
       \/ /\ classifyStoppedState(cpu) # "Ready"
          /\ UNCHANGED sourceLineBefore

\* The command returns with stop s.
Return(s) ==
    /\ command' = "none"
    /\ last_stop' = s
    /\ maxSteps' = 0 /\ executedSteps' = 0
    /\ skipInitialBreakpoint' = FALSE /\ sourceLineBefore' = 0

Unmoved == UNCHANGED <<loaded, code, symbols, cpu, access, pointVars>>

LoopTurns == command # "none"

\* The process cannot be stepped any more.
Over ==
    /\ LoopTurns
    /\ classifyStoppedState(cpu) # "Ready"
    /\ Return(StopAs(classifyStoppedState(cpu), cpu.pc, 0))
    /\ Unmoved /\ UNCHANGED resting

StopsHere == command # "step" /\ ~skipInitialBreakpoint /\ Hit(cpu) # <<>>

BreakpointStop ==
    /\ LoopTurns
    /\ classifyStoppedState(cpu) = "Ready"
    /\ StopsHere
    /\ Return(Hit(cpu)[1])
    /\ resting' = cpu.pc
    /\ Unmoved

StepLimit ==
    /\ LoopTurns /\ command # "step"
    /\ classifyStoppedState(cpu) = "Ready"
    /\ ~StopsHere
    /\ executedSteps >= maxSteps
    /\ Return(StopAs("StepLimit", cpu.pc, 0))
    /\ Unmoved /\ UNCHANGED resting

\* What the step that led to c, with access acc, makes the command return with.
\* A fault or a halt hides the watchpoints, and they hide the program's end;
\* only then do the commands differ.
StopAfter(c, acc) ==
    LET watch == findWatchpointHit(acc)
        reason == classifyStoppedState(c)
        lines == sourceLineForAddress(c.pc)
    IN IF reason \in {"Fault", "Halted"} THEN <<StopAs(reason, c.pc, 0)>>
       ELSE IF watch # <<>> THEN <<StopAs("Watchpoint", c.pc, watch[1].id)>>
       ELSE IF reason # "Ready" THEN <<StopAs(reason, c.pc, 0)>>
       ELSE IF command = "step" THEN
               IF executedSteps + 1 = maxSteps THEN <<StopAs("StepComplete", c.pc, 0)>>
               ELSE <<>>
       ELSE IF command = "continue" THEN <<>>
       ELSE IF Hit(c) # <<>> THEN Hit(c)
       ELSE IF lines \ {sourceLineBefore} # {} THEN <<StopAs("StepComplete", c.pc, 0)>>
       ELSE <<>>

\* cpu_.step() and what follows it in the pass.
Execute ==
    /\ LoopTurns
    /\ classifyStoppedState(cpu) = "Ready"
    /\ ~StopsHere
    /\ command = "step" \/ executedSteps < maxSteps
    /\ cpu' = Executed(cpu)
    /\ access' = AccessOf(code[cpu.pc])
    /\ \E stop \in {StopAfter(cpu', access')} :
          /\ resting' = IF stop # <<>> /\ stop[1].reason
                             \in {"Breakpoint", "ConditionalBreakpoint"}
                        THEN cpu'.pc ELSE 0
          /\ IF stop # <<>> THEN Return(stop[1])
             ELSE /\ executedSteps' = executedSteps + 1
                  /\ skipInitialBreakpoint' = FALSE
                  /\ last_stop' = IF command = "step"
                                  THEN StopAs("StepComplete", cpu'.pc, 0) ELSE last_stop
                  /\ UNCHANGED <<command, maxSteps, sourceLineBefore>>
    /\ UNCHANGED <<loaded, code, symbols, pointVars>>

Pass == Over \/ BreakpointStop \/ StepLimit \/ Execute

Next ==
    \/ \E c \in Executables : LoadImage(c) \/ \E f \in SymbolFiles : LoadFile(c, f)
    \/ \E f \in SymbolFiles : LoadSymbolsFile(f)
    \/ Reset
    \/ \E a \in 1 .. Len(code) + 1 :
          \/ AddBreakpoint(a)
          \/ RemoveBreakpoints({a})
          \/ \E d \in Conditions : AddConditionalBreakpoint(a, d)
    \/ \E r \in Elements(symbols) : r[1] # "LINE" /\ BreakLabel(r[2])
    \/ \E w \in Watches : AddWatchpoint(w)
    \/ \E ids \in {{k} : k \in 1 .. MaxId} \cup {1 .. MaxId} :
          RemoveConditionalBreakpoints(ids) \/ RemoveWatchpoints(ids)
    \/ RemoveBreakpoints(breakpoints)
    \/ \E n \in 1 .. MaxLimit : StepCommand(n) \/ ContinueExecution(n) \/ StepSourceLine(n)
    \/ Pass

\* The loops of the commands run on one thread until they return.
Fairness == WF_vars(Pass)

Spec == Init /\ [][Next]_vars /\ Fairness

-------------------------------------------------------------------------------
(* Properties                                                               *)

\* A command that looks at breakpoints never runs through one, or through a
\* condition that holds, except to resume from the stop it reported there, or
\* with the first instruction of a source step (continueExecution,
\* stepSourceLine); an instruction that jumps to itself is no exception.
NoMissedBreakpoint ==
    [][Execute /\ command # "step" /\ Hit(cpu) # <<>>
       => resting = cpu.pc \/ (command = "source" /\ executedSteps = 0)]_vars

\* Resuming makes progress: the process is not reported at a breakpoint again
\* before it has executed the instruction there (continueExecution), whatever
\* points were edited in between.
NoRepeatedStop == [][BreakpointStop => resting # cpu.pc]_vars

\* A command stops with a watchpoint if, and only if, the instruction it has
\* just executed read or wrote a byte that is watched in that way, and names
\* such a watchpoint (findWatchpointHit).
NoMissedWatchpoint ==
    [][Execute =>
        LET i == code[cpu.pc]
            bytes == {i.at, i.at + 1}
            touched == {w \in watchpoints :
                          /\ <<i.op, w.mode>> \in {"ld"} \X {"Read", "Access"} \cup
                                                 {"st"} \X {"Write", "Access"}
                          /\ \E b \in bytes : b \in w.address .. w.address + w.size - 1}
            stopped == command' = "none" /\ last_stop'.reason = "Watchpoint"
        IN /\ stopped <=> touched # {} /\ cpu'.state = "ok"
           /\ stopped => \E w \in touched : w.id = last_stop'.id]_vars

\* A source step that completes has reached another line (stepSourceLine).
SourceStepMoves ==
    [][command = "source" /\ command' = "none" /\ last_stop'.reason = "StepComplete"
       => \E line \in sourceLineForAddress(cpu'.pc) : line # sourceLineBefore]_vars

\* Every command returns to the prompt.
CommandsEnd == command # "none" ~> command = "none"

===============================================================================
