------------------------------- MODULE Execution -------------------------------
(***************************************************************************)
(* The two interpreters of CPU.cpp side by side: execute, which runs the   *)
(* instruction list and label table of an assembled program, and           *)
(* executeBinaryInstruction, which runs the bytes the encoder makes of it, *)
(* loaded in memory.  Both run one program from the same state, in step.   *)
(* An interrupt controller is attached; hardware interrupts and host       *)
(* services are in ProtectedCPU and ProtectedSyscalls.  Memory is laid out *)
(* as in MemoryMap.hpp:                                                    *)
(*   0 .. CodeBase-1          low memory, the user data                    *)
(*   CodeBase .. StackBase-1  code of a binary program                     *)
(*   StackBase .. KBase-1     user stack; Kernel mode may grow to MemEnd   *)
(*   KBase .. MemEnd-1        kernel interrupt stack                       *)
(*   DebugBase ...            DebugOutputDevice, when a bus is attached    *)
(***************************************************************************)
EXTENDS InstructionSet

CONSTANTS
    Programs,     \* families of programs [code, labels, mode, bus]
    CodeBase, StackBase, KBase, MemEnd, DebugBase,
    Vectors,      \* the vectors that have a handler, label "handler"
    MaxSteps      \* the argument of CPU::run

ASSUME LayoutAssumption ==
    /\ {CodeBase, StackBase, KBase, MemEnd, DebugBase, MaxSteps} \subseteq Nat
    /\ CodeBase < StackBase /\ StackBase < KBase /\ KBase < MemEnd
    /\ MemEnd <= DebugBase
    /\ \A family \in Programs : \A p \in family :
          /\ Len(p.code) * InstructionSize <= StackBase - CodeBase
          /\ \A k \in 1 .. Len(p.code) : Encodable(p.code[k], p.labels)

\* What the types of Operand hold; a label is a name.
Typed(o) ==
    /\ o.type \in DOMAIN encodeType
    /\ o.type = "None" => o.v = 0
    /\ o.type \in {"Register", "RegisterIndirectAddress"} => o.v \in Registers
    /\ o.type = "Immediate" => o.v \in Words
    /\ o.type = "MemoryAddress" => o.v \in Nat

\* A program is a list of instructions and a table of labels that has the
\* handler of the vectors.
ASSUME ProgramAssumption ==
    \A family \in Programs : \A p \in family :
        /\ p.mode \in {"User", "Kernel"}
        /\ p.code \in Seq(Range(p.code))
        /\ \A k \in 1 .. Len(p.code) : /\ p.code[k].op \in Opcodes
                                      /\ Typed(p.code[k].dst) /\ Typed(p.code[k].src)
        /\ "handler" \in DOMAIN p.labels
        /\ \A l \in DOMAIN p.labels : p.labels[l] \in Nat

\* Memory is addressed by words.  What Assembler gives: a label stands before an
\* instruction or at the end, and an address is parsed as a word.
ASSUME AssembledAssumption ==
    /\ MemEnd <= MaxWord
    /\ \A family \in Programs : \A p \in family :
          /\ \A l \in DOMAIN p.labels : p.labels[l] <= Len(p.code)
          /\ \A k \in 1 .. Len(p.code) : \A o \in {p.code[k].dst, p.code[k].src} :
                o.type = "MemoryAddress" => o.v <= MaxWord

\* A run is too short for its steps not to be a word.
ASSUME StepsAssumption == MaxSteps <= MaxWord

VARIABLES
    program,   \* the program that was loaded
    legacy,    \* the CPU that runs its instructions
    binary,    \* the CPU that runs its bytes
    count,     \* steps of CPU::run so far
    apart      \* history: no instruction has touched the code in memory

-------------------------------------------------------------------------------
(* State that both forms share.                                             *)

ClearFlags == [zero |-> FALSE, sign |-> FALSE, carry |-> FALSE, overflow |-> FALSE]

\* CPUState::reset, with the registers of CPU.
Reset(mode) ==
    [regs |-> [r \in Registers |-> 0], mem |-> [a \in 0 .. MemEnd - 1 |-> 0],
     flags |-> ClearFlags, mode |-> mode, pc |-> 0, sp |-> StackBase,
     halted |-> FALSE, error |-> FALSE, ksp |-> KBase, kstack |-> FALSE,
     enabled |-> FALSE, out |-> <<>>]

\* setRuntimeError.
Failed(s) == [s EXCEPT !.error = TRUE, !.halted = TRUE]

SetReg(s, r, x) == [s EXCEPT !.regs[r] = x]

\* Flags::updateZeroAndSign leaves carry and overflow as they were.
updateZeroAndSign(s, x) ==
    [s EXCEPT !.flags.zero = x = 0, !.flags.sign = x < 0]

applyALUResultToFlags(s, r) ==
    [s EXCEPT !.flags = [zero |-> r.zero, sign |-> r.sign,
                         carry |-> r.carry, overflow |-> r.overflow]]

\* packFlags and restoreFlags.
packFlags(f) ==
    (IF f.zero THEN 1 ELSE 0) + (IF f.sign THEN 2 ELSE 0)
    + (IF f.carry THEN 4 ELSE 0) + (IF f.overflow THEN 8 ELSE 0)

restoreFlags(w) ==
    [zero |-> Bit(w, 0), sign |-> Bit(w, 1), carry |-> Bit(w, 2), overflow |-> Bit(w, 3)]

\* The result of an arithmetic instruction, by its opcode.
Arithmetic == {"ADD", "SUB", "MUL", "DIV"}
Logic == {"AND", "OR", "XOR"}
AluOpcodes == Arithmetic \cup Logic

Alu(op, l, r) ==
    CASE op = "ADD" -> add(l, r)
      [] op \in {"SUB", "CMP"} -> sub(l, r)
      [] op = "MUL" -> mul(l, r)
      [] op = "DIV" -> div(l, r)
      [] op \in {"AND", "TEST"} -> bitAnd(l, r)
      [] op = "OR" -> bitOr(l, r)
      [] op = "XOR" -> bitXor(l, r)
      [] op = "NOT" -> bitNot(l)

\* Whether a conditional jump is taken.
Taken(op, f) ==
    CASE op = "JE" -> f.zero
      [] op = "JNE" -> ~f.zero
      [] op = "JG" -> signedGreaterThanFromFlags(f)
      [] op = "JL" -> signedLessThanFromFlags(f)

ConditionalJumps == {"JE", "JNE", "JG", "JL"}

\* requireInstructionPrivilege.
Privileged(s, op) == s.mode = "User" /\ op \in {"HALT", "IRET", "EI", "DI"}

\* MMIOBus::hasDeviceAt for the one device mapped here.
HasDevice(a) == program.bus /\ a \in DebugBase .. DebugBase + 2 * WordBytes - 1

\* requireDataMemoryAccess.
DataAccess(s, a) == s.mode = "User" => a >= 0 /\ a + WordBytes <= CodeBase

\* readDataMemory: memory, or DebugOutputDevice::read.
CanReadData(s, a) ==
    /\ DataAccess(s, a)
    /\ IF HasDevice(a) THEN a - DebugBase \in {0, WordBytes}
                       ELSE InRange(s.mem, a, WordBytes)

ReadData(s, a) ==
    IF ~HasDevice(a) THEN ReadWord(s.mem, a)
    ELSE IF a # DebugBase THEN Len(s.out)
    ELSE IF s.out = <<>> THEN 0 ELSE s.out[Len(s.out)]

\* writeDataMemory: memory, or DebugOutputDevice::write.
CanWriteData(s, a) ==
    /\ DataAccess(s, a)
    /\ IF HasDevice(a) THEN a = DebugBase ELSE InRange(s.mem, a, WordBytes)

WriteData(s, a, x) ==
    IF HasDevice(a) THEN [s EXCEPT !.out = Append(@, x)]
                    ELSE [s EXCEPT !.mem = WriteWord(@, a, x)]

-------------------------------------------------------------------------------
(* The stacks: slots of one word, growing upwards.                          *)

Base(s) == IF s.mode = "Kernel" /\ s.kstack THEN KBase ELSE StackBase

End(s) == IF s.mode = "User" THEN KBase ELSE MemEnd

\* requireStackPointerInRange.
SpInRange(sp, base, end) ==
    sp >= base /\ sp <= end /\ (sp - base) % WordBytes = 0

CanPush(s) == SpInRange(s.sp, Base(s), End(s)) /\ End(s) - s.sp >= WordBytes

CanPop(s, slots) ==
    SpInRange(s.sp, Base(s), End(s)) /\ s.sp - Base(s) >= slots * WordBytes

MovedSp(s, sp) == [s EXCEPT !.sp = sp, !.ksp = IF s.kstack THEN sp ELSE @]

pushValue(s, x) ==
    MovedSp([s EXCEPT !.mem = WriteWord(@, s.sp, x)], s.sp + WordBytes)

peekValue(s) == ReadWord(s.mem, s.sp - WordBytes)

Popped(s) == MovedSp(s, s.sp - WordBytes)

FrameSize == 4 * WordBytes

FrameBase(s) == IF s.mode = "User" THEN s.ksp ELSE s.sp

FrameFits(s) ==
    IF s.mode = "User"
    THEN /\ SpInRange(s.sp, StackBase, KBase)
         /\ SpInRange(s.ksp, KBase, MemEnd)
         /\ MemEnd - s.ksp >= FrameSize
    ELSE SpInRange(s.sp, Base(s), End(s)) /\ End(s) - s.sp >= FrameSize

pushInterruptFrame(s, returnAddress) ==
    LET b == FrameBase(s)
        onKernelStack == s.kstack \/ s.mode = "User"
    IN [s EXCEPT !.mem = WriteBytes(@, b, Bytes(returnAddress) \o Bytes(packFlags(s.flags))
                                          \o Bytes(IF s.mode = "User" THEN 1 ELSE 0)
                                          \o Bytes(s.sp)),
                 !.sp = b + FrameSize, !.mode = "Kernel", !.kstack = onKernelStack,
                 !.ksp = IF onKernelStack THEN b + FrameSize ELSE @]

\* The words of the frame below the stack pointer.
FrameWord(s, k) == ReadWord(s.mem, s.sp - FrameSize + k * WordBytes)

RestoredMode(s) == IF FrameWord(s, 2) = 1 THEN "User" ELSE "Kernel"

\* restoreInterruptFrame, given the check of the return address.
FrameRestorable(s, Executable(_, _)) ==
    /\ CanPop(s, 4)
    /\ FrameWord(s, 2) \in {0, 1}
    /\ FrameWord(s, 0) >= 0
    /\ Executable(RestoredMode(s), FrameWord(s, 0))
    /\ IF RestoredMode(s) = "User" THEN SpInRange(FrameWord(s, 3), StackBase, KBase)
       ELSE IF s.kstack THEN SpInRange(FrameWord(s, 3), KBase, MemEnd)
       ELSE SpInRange(FrameWord(s, 3), StackBase, MemEnd)

restoreInterruptFrame(s) ==
    LET toUser == RestoredMode(s) = "User"
    IN [s EXCEPT !.flags = restoreFlags(FrameWord(s, 1)),
                 !.mode = RestoredMode(s), !.pc = FrameWord(s, 0),
                 !.sp = FrameWord(s, 3), !.kstack = @ /\ ~toUser,
                 !.ksp = IF ~s.kstack THEN @
                         ELSE IF toUser THEN s.sp - FrameSize ELSE FrameWord(s, 3)]

-------------------------------------------------------------------------------
(* execute: the instruction list.                                           *)

\* requireNoOperand, requireSingleOperand, requireTwoOperands.
NoOperand(i) == i.dst.type = "None" /\ i.src.type = "None"
SingleOperand(i) == i.dst.type # "None" /\ i.src.type = "None"
TwoOperands(i) == i.dst.type # "None" /\ i.src.type # "None"

RegisterDst(i) == i.dst.type = "Register"

\* readMemoryAddress.
IsMemory(o) == o.type \in {"MemoryAddress", "RegisterIndirectAddress"}

Address(s, o) == IF o.type = "MemoryAddress" THEN o.v ELSE s.regs[o.v]

HasAddress(s, o) == IsMemory(o) /\ Address(s, o) >= 0

\* readOperandValue.
CanRead(s, o) ==
    \/ o.type \in {"Register", "Immediate"}
    \/ HasAddress(s, o) /\ CanReadData(s, Address(s, o))

Value(s, o) == CASE o.type = "Register" -> s.regs[o.v]
                 [] o.type = "Immediate" -> o.v
                 [] OTHER -> ReadData(s, Address(s, o))

\* requireExecutionAddress on the instruction list.
ExecutableIndex(mode, pc) == mode = "User" => pc \in 0 .. Len(program.code) - 1

\* advancePcUnlessHalted, for an instruction that did not halt.
Advanced(s) == [s EXCEPT !.pc = @ + 1]

\* setPcForExecution(resolveLabelAddress(dst)).
JumpTo(s, o) ==
    IF o.type = "Label" /\ ExecutableIndex(s.mode, program.labels[o.v])
    THEN [s EXCEPT !.pc = program.labels[o.v]]
    ELSE Failed(s)

executeMov(s, i) ==
    IF TwoOperands(i) /\ RegisterDst(i) /\ CanRead(s, i.src)
    THEN LET x == Value(s, i.src)
         IN Advanced(updateZeroAndSign(SetReg(s, i.dst.v, x), x))
    ELSE Failed(s)

executeLoad(s, i) ==
    IF /\ TwoOperands(i) /\ RegisterDst(i)
       /\ HasAddress(s, i.src) /\ CanReadData(s, Address(s, i.src))
    THEN LET x == ReadData(s, Address(s, i.src))
         IN Advanced(updateZeroAndSign(SetReg(s, i.dst.v, x), x))
    ELSE Failed(s)

executeStore(s, i) ==
    IF /\ TwoOperands(i) /\ HasAddress(s, i.dst)
       /\ CanRead(s, i.src) /\ CanWriteData(s, Address(s, i.dst))
    THEN LET x == Value(s, i.src)
         IN Advanced(updateZeroAndSign(WriteData(s, Address(s, i.dst), x), x))
    ELSE Failed(s)

\* executeAdd, executeSub, executeMul, executeDiv.
executeArithmetic(s, i) ==
    IF /\ TwoOperands(i) /\ RegisterDst(i) /\ CanRead(s, i.src)
       /\ i.op = "DIV" => Divides(s.regs[i.dst.v], Value(s, i.src))
    THEN LET r == Alu(i.op, s.regs[i.dst.v], Value(s, i.src))
         IN Advanced(applyALUResultToFlags(SetReg(s, i.dst.v, r.value), r))
    ELSE Failed(s)

\* executeAnd, executeOr, executeXor.
executeLogic(s, i) ==
    IF TwoOperands(i) /\ RegisterDst(i) /\ CanRead(s, i.src)
    THEN LET r == Alu(i.op, s.regs[i.dst.v], Value(s, i.src))
         IN Advanced(applyALUResultToFlags(SetReg(s, i.dst.v, r.value), r))
    ELSE Failed(s)

\* executeCmp, and TEST in execute.
executeCmp(s, i) ==
    IF TwoOperands(i) /\ CanRead(s, i.dst) /\ CanRead(s, i.src)
    THEN Advanced(applyALUResultToFlags(s, Alu(i.op, Value(s, i.dst), Value(s, i.src))))
    ELSE Failed(s)

executeNot(s, i) ==
    IF SingleOperand(i) /\ RegisterDst(i)
    THEN LET r == bitNot(s.regs[i.dst.v])
         IN Advanced(applyALUResultToFlags(SetReg(s, i.dst.v, r.value), r))
    ELSE Failed(s)

executeJmp(s, i) == IF SingleOperand(i) THEN JumpTo(s, i.dst) ELSE Failed(s)

\* executeJe, executeJne, executeJg, executeJl.
executeBranch(s, i) ==
    IF ~SingleOperand(i) THEN Failed(s)
    ELSE IF Taken(i.op, s.flags) THEN JumpTo(s, i.dst) ELSE Advanced(s)

executePush(s, i) ==
    IF SingleOperand(i) /\ CanRead(s, i.dst) /\ CanPush(s)
    THEN Advanced(pushValue(s, Value(s, i.dst)))
    ELSE Failed(s)

executePop(s, i) ==
    IF SingleOperand(i) /\ RegisterDst(i) /\ CanPop(s, 1)
    THEN LET x == peekValue(s)
         IN Advanced(updateZeroAndSign(SetReg(Popped(s), i.dst.v, x), x))
    ELSE Failed(s)

\* CALL checks the target and the return address before it pushes.
executeCall(s, i) ==
    IF /\ SingleOperand(i) /\ i.dst.type = "Label"
       /\ ExecutableIndex(s.mode, program.labels[i.dst.v])
       /\ ExecutableIndex(s.mode, s.pc + 1)
       /\ CanPush(s)
    THEN [pushValue(s, s.pc + 1) EXCEPT !.pc = program.labels[i.dst.v]]
    ELSE Failed(s)

executeRet(s, i) ==
    IF /\ NoOperand(i) /\ CanPop(s, 1)
       /\ peekValue(s) >= 0 /\ ExecutableIndex(s.mode, peekValue(s))
    THEN [Popped(s) EXCEPT !.pc = peekValue(s)]
    ELSE Failed(s)

executeIret(s, i) ==
    IF NoOperand(i) /\ FrameRestorable(s, ExecutableIndex)
    THEN restoreInterruptFrame(s)
    ELSE Failed(s)

\* vectorHandler throws for a vector that has no handler.
executeInt(s, i) ==
    IF /\ SingleOperand(i) /\ CanRead(s, i.dst)
       /\ Value(s, i.dst) \in Vectors
       /\ program.labels["handler"] < Len(program.code)
       /\ FrameFits(s)
    THEN [SetReg(pushInterruptFrame(s, s.pc + 1), 0, Value(s, i.dst))
            EXCEPT !.pc = program.labels["handler"]]
    ELSE Failed(s)

\* executeNop, executeHalt.
executePlain(s, i) ==
    IF ~NoOperand(i) THEN Failed(s)
    ELSE IF i.op = "NOP" THEN Advanced(s)
    ELSE [s EXCEPT !.halted = TRUE]

\* executeEi, executeDi.
executeMask(s, i) ==
    IF NoOperand(i) THEN Advanced([s EXCEPT !.enabled = i.op = "EI"]) ELSE Failed(s)

execute(s, i) ==
    IF Privileged(s, i.op) THEN Failed(s)
    ELSE CASE i.op = "MOV" -> executeMov(s, i)
           [] i.op = "LOAD" -> executeLoad(s, i)
           [] i.op = "STORE" -> executeStore(s, i)
           [] i.op \in Arithmetic -> executeArithmetic(s, i)
           [] i.op \in Logic -> executeLogic(s, i)
           [] i.op \in {"CMP", "TEST"} -> executeCmp(s, i)
           [] i.op = "NOT" -> executeNot(s, i)
           [] i.op = "JMP" -> executeJmp(s, i)
           [] i.op \in ConditionalJumps -> executeBranch(s, i)
           [] i.op = "PUSH" -> executePush(s, i)
           [] i.op = "POP" -> executePop(s, i)
           [] i.op = "CALL" -> executeCall(s, i)
           [] i.op = "RET" -> executeRet(s, i)
           [] i.op = "IRET" -> executeIret(s, i)
           [] i.op = "INT" -> executeInt(s, i)
           [] i.op \in {"NOP", "HALT"} -> executePlain(s, i)
           [] i.op \in {"EI", "DI"} -> executeMask(s, i)

\* The fetch of CPU::step from the instruction list.
LegacyFetches(s) ==
    ExecutableIndex(s.mode, s.pc) /\ s.pc \in 0 .. Len(program.code) - 1

LegacyInstruction(s) ==
    IF LegacyFetches(s) THEN program.code[s.pc + 1] ELSE Instr0("Invalid")

LegacyStep(s) ==
    IF s.halted THEN s
    ELSE IF LegacyFetches(s) THEN execute(s, program.code[s.pc + 1])
    ELSE Failed(s)

================================================================================
