------------------------------ MODULE TraceEvents ------------------------------
(***************************************************************************)
(* TraceEvent.cpp: what the trace says an instruction did, worked out from *)
(* the states before and after it and not from the execution, and the two  *)
(* printed forms of it.  e is [before, instruction, after].  A value that  *)
(* may be missing (has_value and so on) is <<>> or <<value>>; a printed    *)
(* line is the sequence of its fields.                                     *)
(***************************************************************************)
EXTENDS BinaryExecution

FlagNames == <<"zero", "sign", "overflow", "carry">>

-------------------------------------------------------------------------------
(* What changed.                                                            *)

\* The members of s that are in a set, in their order.
Selected(s, S) ==
    LET kept[k \in 0 .. Len(s)] ==
            IF k = 0 THEN <<>>
            ELSE IF s[k] \in S THEN Append(kept[k - 1], s[k]) ELSE kept[k - 1]
    IN kept[Len(s)]

\* analyzeRegisterChanges
changedRegisters(e) ==
    Selected([k \in 1 .. 8 |-> k - 1], {r \in Registers : e.before.regs[r] # e.after.regs[r]})

\* Mutant: the carry flag is not compared.
MutChangedFlags(e) ==
    Selected(SubSeq(FlagNames, 1, 3),
             {f \in Range(FlagNames) : e.before.flags[f] # e.after.flags[f]})

\* analyzeFlagChanges
changedFlags(e) ==
    Selected(FlagNames, {f \in Range(FlagNames) : e.before.flags[f] # e.after.flags[f]})

\* analyzeMemoryChanges compares the snapshots byte by byte.
changedMemory(e) ==
    Selected([k \in 1 .. MemEnd |-> k - 1],
             {a \in 0 .. MemEnd - 1 : e.before.mem[a] # e.after.mem[a]})

\* findMemoryChangeAt: the byte that is now at the address, if it changed.
findMemoryChangeAt(e, a) ==
    IF a < MemEnd /\ e.before.mem[a] # e.after.mem[a] THEN <<e.after.mem[a]>> ELSE <<>>

\* The register that changed first, where the instruction names none.
FirstChanged(e) ==
    IF changedRegisters(e) = <<>> THEN <<>>
    ELSE <<e.after.regs[Head(changedRegisters(e))]>>

-------------------------------------------------------------------------------
(* Operands, read again from the state before.                              *)

\* tryReadTraceOperandValue reads memory, never a device.
tryReadTraceOperandValue(s, o) ==
    IF \/ o.type \in {"Register", "Immediate"}
       \/ HasAddress(s, o) /\ InRange(s.mem, Address(s, o), WordBytes)
    THEN <<CASE o.type = "Register" -> s.regs[o.v]
             [] o.type = "Immediate" -> o.v
             [] OTHER -> ReadWord(s.mem, Address(s, o))>>
    ELSE <<>>

tryResolveTraceMemoryAddress(s, o) == IF HasAddress(s, o) THEN <<Address(s, o)>> ELSE <<>>

\* tryReadControlFlowTargetOperand
ExplicitTarget(o) == IF o.type = "Immediate" /\ o.v >= 0 THEN <<o.v>> ELSE <<>>

\* memoryRouteText, with one of the three device windows.
memoryRouteText(a) ==
    IF a \in DebugBase .. DebugBase + 2 * WordBytes - 1 THEN "MMIO"
    ELSE IF a < MemEnd THEN "RAM" ELSE "Outside default RAM"

-------------------------------------------------------------------------------
(* The action and the datapath.                                             *)

AluWrites == AluOpcodes \cup {"NOT"}
AluTrace == AluWrites \cup {"CMP", "TEST"}

\* The ALU's actions carry the name of the instruction, which is shown beside them.
actionOf(op) ==
    CASE op \in AluTrace -> "ALU"
      [] op = "MOV" -> "REGISTER_TRANSFER"
      [] op = "LOAD" -> "MEMORY_READ"
      [] op = "STORE" -> "MEMORY_WRITE"
      [] op = "JMP" -> "JUMP"
      [] op \in ConditionalJumps -> "CONDITIONAL_BRANCH"
      [] op = "PUSH" -> "STACK_PUSH"
      [] op = "POP" -> "STACK_POP"
      [] op = "RET" -> "RETURN"
      [] op = "INT" -> "SOFTWARE_INTERRUPT"
      [] op = "IRET" -> "INTERRUPT_RETURN"
      [] op \in {"EI", "DI"} -> "INTERRUPT_MASK"
      [] OTHER -> op

OpcodeNodes(op) ==
    CASE op \in AluWrites -> <<"RegisterFile", "ALU", "Flags", "Writeback">>
      [] op \in {"CMP", "TEST"} -> <<"RegisterFile", "ALU", "Flags">>
      [] op = "MOV" -> <<"RegisterFile", "Flags", "Writeback">>
      [] op = "LOAD" -> <<"AddressUnit", "Memory/MMIO", "RegisterFile", "Flags", "Writeback">>
      [] op = "STORE" -> <<"AddressUnit", "RegisterFile", "Memory/MMIO", "Flags">>
      [] op = "JMP" -> <<"ControlUnit", "PC">>
      [] op \in ConditionalJumps -> <<"Flags", "ControlUnit", "PC">>
      [] op = "PUSH" -> <<"RegisterFile", "Stack", "SP">>
      [] op = "POP" -> <<"Stack", "SP", "RegisterFile", "Flags", "Writeback">>
      [] op = "CALL" -> <<"ControlUnit", "Stack", "PC">>
      [] op = "RET" -> <<"Stack", "PC">>
      [] op = "INT" -> <<"InterruptController", "Stack", "Flags", "PC">>
      [] op = "IRET" -> <<"Stack", "Flags", "PC">>
      [] op \in {"EI", "DI"} -> <<"InterruptController", "ControlUnit">>
      [] OTHER -> <<"ControlUnit">>

ChangedNodes(e) ==
    (IF changedRegisters(e) # <<>> THEN <<"RegisterFile">> ELSE <<>>)
    \o (IF changedFlags(e) # <<>> THEN <<"Flags">> ELSE <<>>)
    \o (IF changedMemory(e) # <<>> THEN <<"Memory">> ELSE <<>>)
    \o (IF e.before.sp # e.after.sp THEN <<"Stack", "SP">> ELSE <<>>)
    \o (IF e.before.pc # e.after.pc THEN <<"PC">> ELSE <<>>)

\* addDatapathNode: a node that is there already is not added again.
addDatapathNodes(path, nodes) ==
    path \o Selected(nodes, Range(nodes) \ Range(path))

\* analyzeVisualMetadata
datapathNodes(e) ==
    addDatapathNodes(
        addDatapathNodes(<<"PC", "InstructionMemory", "Decoder">>,
                         OpcodeNodes(e.instruction.op)),
        ChangedNodes(e))

-------------------------------------------------------------------------------
(* The details.                                                             *)

Inactive == [active |-> FALSE]

analyzeAluDetail(e) ==
    LET i == e.instruction
        writes == i.op \in AluWrites
    IN IF i.op \notin AluTrace THEN Inactive
       ELSE [active |-> TRUE,
             lhs |-> tryReadTraceOperandValue(e.before, i.dst),
             rhs |-> IF i.op = "NOT" THEN <<>>
                     ELSE tryReadTraceOperandValue(e.before, i.src),
             result |-> IF ~writes THEN <<>>
                        ELSE IF i.dst.type = "Register" THEN <<e.after.regs[i.dst.v]>>
                        ELSE FirstChanged(e)]

\* A load shows the destination register as it is afterwards, a store the
\* operand as it was before.
analyzeMemoryDetail(e) ==
    LET i == e.instruction
        address == tryResolveTraceMemoryAddress(e.before,
                                                IF i.op = "LOAD" THEN i.src ELSE i.dst)
    IN IF i.op \notin {"LOAD", "STORE"} THEN Inactive
       ELSE [active |-> TRUE,
             address |-> address,
             route |-> IF address = <<>> THEN "none" ELSE memoryRouteText(address[1]),
             value |-> IF i.op = "STORE" THEN tryReadTraceOperandValue(e.before, i.src)
                       ELSE IF i.dst.type = "Register" THEN <<e.after.regs[i.dst.v]>>
                       ELSE FirstChanged(e)]

\* Mutant: a popped value is looked for where the stack pointer was.
MutStackAddress(e) == e.before.sp

\* The slot of a push or call is where the stack pointer was, of a pop or
\* return where it is now.
StackAddress(e) == IF e.instruction.op \in {"PUSH", "CALL"} THEN e.before.sp ELSE e.after.sp

\* The word that lies at an address of the state before.
WordBefore(e, a) ==
    IF InRange(e.before.mem, a, WordBytes) THEN <<ReadWord(e.before.mem, a)>> ELSE <<>>

\* The value of a push, and the return address of a call, are replaced by what
\* findMemoryChangeAt finds at the slot.
analyzeStackDetail(e) ==
    LET i == e.instruction
        slot == StackAddress(e)
        pushed == findMemoryChangeAt(e, slot)
        operand == tryReadTraceOperandValue(e.before, i.dst)
    IN IF i.op \notin {"PUSH", "POP", "CALL", "RET"} THEN Inactive
       ELSE [active |-> TRUE,
             stack_address |-> slot,
             value |-> CASE i.op = "PUSH" -> IF pushed = <<>> THEN operand ELSE pushed
                         [] i.op = "POP" ->
                               IF i.dst.type = "Register" THEN <<e.after.regs[i.dst.v]>>
                               ELSE IF FirstChanged(e) # <<>> THEN FirstChanged(e)
                               ELSE WordBefore(e, slot)
                         [] i.op = "CALL" -> pushed
                         [] i.op = "RET" -> WordBefore(e, slot),
             return_address |-> CASE i.op = "CALL" -> pushed
                                  [] i.op = "RET" -> <<e.after.pc>>
                                  [] OTHER -> <<>>,
             target |-> IF i.op \in {"CALL", "RET"} THEN <<e.after.pc>> ELSE <<>>]

\* evaluateControlFlowCondition
evaluateControlFlowCondition(op, f) ==
    CASE op = "JE" -> f.zero
      [] op = "JNE" -> ~f.zero
      [] op = "JG" -> ~f.zero /\ ~f.sign
      [] op = "JL" -> f.sign
      [] OTHER -> TRUE

FlowOpcodes == ConditionalJumps \cup {"JMP", "CALL", "RET", "INT", "IRET"}

\* The operand of a jump, branch or call when it is an address, else where the
\* program counter went; unknown for a branch to a label that is not taken.
FlowTarget(e, taken) ==
    IF /\ e.instruction.op \in ConditionalJumps \cup {"JMP", "CALL"}
       /\ ExplicitTarget(e.instruction.dst) # <<>>
    THEN ExplicitTarget(e.instruction.dst)
    ELSE IF taken THEN <<e.after.pc>> ELSE <<>>

analyzeControlFlowDetail(e) ==
    LET i == e.instruction
        taken == evaluateControlFlowCondition(i.op, e.before.flags)
        pushed == findMemoryChangeAt(e, e.before.sp)
    IN IF i.op \notin FlowOpcodes THEN Inactive
       ELSE [active |-> TRUE,
             from_pc |-> e.before.pc,
             to_pc |-> e.after.pc,
             taken |-> taken,
             target |-> FlowTarget(e, taken),
             fallthrough |-> IF taken THEN <<>> ELSE <<e.after.pc>>,
             return_address |-> CASE i.op \in {"CALL", "INT"} -> pushed
                                  [] i.op \in {"RET", "IRET"} -> <<e.after.pc>>
                                  [] OTHER -> <<>>,
             vector |-> IF i.op = "INT" THEN tryReadTraceOperandValue(e.before, i.dst)
                        ELSE <<>>]

-------------------------------------------------------------------------------
(* The printed forms: a field is a name and what is printed with it.        *)

Optional(name, v) == IF v = <<>> THEN <<>> ELSE <<<<name, v[1]>>>>

aluDetailString(e) ==
    LET d == analyzeAluDetail(e)
    IN IF ~d.active THEN <<>>
       ELSE Optional("lhs", d.lhs) \o Optional("rhs", d.rhs) \o Optional("result", d.result)

memoryDetailString(e) ==
    LET d == analyzeMemoryDetail(e)
    IN IF ~d.active THEN <<>>
       ELSE Optional("address", d.address) \o <<<<"route", d.route>>>>
            \o Optional("value", d.value)

\* SP is printed only when it moved.
stackDetailString(e) ==
    LET d == analyzeStackDetail(e)
    IN IF ~d.active THEN <<>>
       ELSE <<<<"stack_address", d.stack_address>>>>
            \o (IF e.before.sp = e.after.sp THEN <<>>
                ELSE <<<<"SP in stack", e.before.sp, e.after.sp>>>>)
            \o Optional("value", d.value) \o Optional("return_address", d.return_address)
            \o Optional("target", d.target)

controlFlowDetailString(e) ==
    LET d == analyzeControlFlowDetail(e)
    IN IF ~d.active THEN <<>>
       ELSE <<<<"from", d.from_pc>>, <<"to", d.to_pc>>, <<"taken", d.taken>>>>
            \o Optional("target", d.target) \o Optional("fallthrough", d.fallthrough)
            \o Optional("return_address", d.return_address) \o Optional("vector", d.vector)

Details(e) == aluDetailString(e) \o memoryDetailString(e) \o stackDetailString(e)
              \o controlFlowDetailString(e)

\* The changes of registers and flags, each with its name and both values.
ChangeFields(e) ==
    [k \in DOMAIN changedRegisters(e) |->
        LET r == changedRegisters(e)[k] IN <<"register", r, e.before.regs[r], e.after.regs[r]>>]
    \o [k \in DOMAIN changedFlags(e) |->
        LET f == changedFlags(e)[k] IN <<"flag", f, e.before.flags[f], e.after.flags[f]>>]

Changed(name, x, y) == IF x = y THEN <<>> ELSE <<<<name, x, y>>>>

\* The error is printed from the message given to TraceEvent.
toCompactString(e) ==
    <<<<"PC", e.before.pc>>, <<"instruction", e.instruction>>,
      <<"action", actionOf(e.instruction.op)>>, <<"path", datapathNodes(e)>>>>
    \o Details(e)
    \o ChangeFields(e)
    \o Changed("SP", e.before.sp, e.after.sp)
    \o Changed("halted", e.before.halted, e.after.halted)
    \o (IF e.after.error THEN <<<<"ERROR", TRUE>>>> ELSE <<>>)
    \o <<<<"NextPC", e.after.pc>>>>

\* CPUState::summary
summary(s) == [pc |-> s.pc, sp |-> s.sp, mode |-> s.mode, halted |-> s.halted,
               error |-> s.error, regs |-> s.regs, flags |-> s.flags]

toFullString(e) ==
    <<<<"PC", e.before.pc>>, <<"instruction", e.instruction>>,
      <<"action", actionOf(e.instruction.op)>>, <<"path", datapathNodes(e)>>>>
    \o Details(e)
    \o <<<<"Before", summary(e.before)>>, <<"After", summary(e.after)>>>>
    \o ChangeFields(e)
    \o [k \in DOMAIN changedMemory(e) |->
        LET a == changedMemory(e)[k] IN <<"memory", a, e.before.mem[a], e.after.mem[a]>>]
    \o Changed("SP", e.before.sp, e.after.sp)
    \o <<<<"NextPC", e.after.pc>>>>

-------------------------------------------------------------------------------
(* Properties                                                               *)

\* The value a line gives a component, or the one it had.
Replayed(line, name, key, old) ==
    LET fields == {f \in Range(line) : f[1] = name /\ f[2] = key}
    IN IF fields = {} THEN old ELSE (CHOOSE f \in fields : TRUE)[4]

MovedTo(line, name, old) ==
    LET fields == {f \in Range(line) : f[1] = name}
    IN IF fields = {} THEN old ELSE (CHOOSE f \in fields : TRUE)[3]

ReplaysRegisters(line, e) ==
    /\ \A r \in Registers : Replayed(line, "register", r, e.before.regs[r]) = e.after.regs[r]
    /\ \A f \in Range(FlagNames) :
          Replayed(line, "flag", f, e.before.flags[f]) = e.after.flags[f]
    /\ MovedTo(line, "SP", e.before.sp) = e.after.sp
    /\ line[Len(line)] = <<"NextPC", e.after.pc>>

\* A trace can be replayed: the state before a step and its printed line
\* (toCompactString) give the registers, flags, stack pointer, program counter
\* and halt after it, and the full form (toFullString) the memory as well; the
\* printed path leaves out nothing that changed.
LineReplays(e) ==
    LET compact == toCompactString(e)
        full == toFullString(e)
        path == Range(compact[4][2])
    IN /\ ReplaysRegisters(compact, e)
       /\ MovedTo(compact, "halted", e.before.halted) = e.after.halted
       /\ ReplaysRegisters(full, e)
       /\ \A a \in 0 .. MemEnd - 1 :
             Replayed(full, "memory", a, e.before.mem[a]) = e.after.mem[a]
       /\ "RegisterFile" \notin path => e.after.regs = e.before.regs
       /\ "Flags" \notin path => e.after.flags = e.before.flags
       /\ "SP" \notin path => e.after.sp = e.before.sp

\* Both CPUs' traces can be replayed.
LinesReplay == LineReplays(event.legacy) /\ LineReplays(event.binary)

\* An instruction that failed has no effect to explain.
Succeeded(e) == ~e.after.error /\ e.instruction.op # "Invalid"

\* What the details of an instruction say, worked out from two snapshots, is
\* what the CPU did: the result is the ALU's for the operands shown, the word
\* loaded or stored, where it is shown, is the one at the address, the value
\* popped is the one in the slot shown, control went to the target shown, and a
\* branch on flags without overflow was taken if the trace says so.  Of the word
\* that PUSH or CALL left in the slot shown, the value shown has the lowest byte:
\* findMemoryChangeAt gives no more (PushIsExplained is what the docs promise).
DetailIsTrue(e, size) ==
    LET op == e.instruction.op
        alu == analyzeAluDetail(e)
        memory == analyzeMemoryDetail(e)
        stack == analyzeStackDetail(e)
        flow == analyzeControlFlowDetail(e)
    IN Succeeded(e) =>
        /\ (alu.active /\ op \in AluOpcodes /\ alu.rhs # <<>>) =>
              alu.result = <<Alu(op, alu.lhs[1], alu.rhs[1]).value>>
        /\ (memory.active /\ memory.route = "RAM" /\ memory.value # <<>>) =>
              memory.value = <<ReadWord(e.after.mem, memory.address[1])>>
        /\ op \in {"POP", "RET"} =>
              stack.value = <<ReadWord(e.before.mem, stack.stack_address)>>
        /\ op = "RET" => stack.target = stack.value
        /\ (op \in {"PUSH", "CALL"} /\ stack.value # <<>>) =>
              (stack.value[1] - ReadWord(e.after.mem, stack.stack_address)) % Radix = 0
        /\ op \in {"JMP", "CALL"} => flow.target = <<e.after.pc>>
        /\ (op \in ConditionalJumps /\ ~e.before.flags.overflow) =>
              IF flow.taken THEN flow.target = <<e.after.pc>>
              ELSE flow.fallthrough = <<e.before.pc + size>>

\* The details of both CPUs' events are true; an instruction is one index or
\* InstructionSize bytes long.
DetailsAreTrue == /\ DetailIsTrue(event.legacy, 1)
                  /\ DetailIsTrue(event.binary, InstructionSize)

\* The trace tells a branch that was taken from one that was not, and where
\* control went on (analyzeControlFlowDetail).
BranchIsExplained ==
    LET e == event.binary
        flow == analyzeControlFlowDetail(e)
    IN (Succeeded(e) /\ e.instruction.op \in ConditionalJumps) =>
            IF flow.taken THEN flow.target = <<e.after.pc>>
            ELSE flow.fallthrough = <<e.before.pc + InstructionSize>>

\* The trace shows the value that PUSH left on the stack, and the return address
\* that CALL and INT saved (analyzeStackDetail, analyzeControlFlowDetail).  The docs
\* list "pushed value" and "return address pushed onto the stack"
\* (docs/v0.3-stack-trace-detail.md), and "What return address was saved?" among the
\* questions answered (docs/v0.3-control-flow-trace-detail.md).
PushIsExplained ==
    LET e == event.binary
        op == e.instruction.op
        stack == analyzeStackDetail(e)
        flow == analyzeControlFlowDetail(e)
    IN Succeeded(e) =>
        /\ op = "PUSH" => stack.value = <<ReadWord(e.after.mem, stack.stack_address)>>
        /\ op \in {"CALL", "INT"} => flow.return_address = <<e.before.pc + InstructionSize>>

================================================================================
