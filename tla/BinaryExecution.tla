---------------------------- MODULE BinaryExecution ----------------------------
(***************************************************************************)
(* executeBinaryInstruction: the program as bytes in memory, fetched and   *)
(* decoded at every step, and the two forms of the program run together.   *)
(***************************************************************************)
EXTENDS Execution

VARIABLES
    event   \* what CPU::step last gave to TraceEvent, for each of the two CPUs

vars == <<program, legacy, binary, count, apart, event>>

CodeEnd == CodeBase + Len(program.code) * InstructionSize

isBinaryPcInCode(pc) ==
    /\ pc >= CodeBase
    /\ pc + InstructionSize <= CodeEnd
    /\ (pc - CodeBase) % InstructionSize = 0

\* requireExecutionAddress: the User code range is the whole program.
ExecutableAddress(mode, pc) == mode = "User" => isBinaryPcInCode(pc)

\* requireNoBinaryOperands, requireSingleBinaryOperand,
\* requireTwoBinaryOperands.
NoBinaryOperands(i) == i.dst = None /\ i.src = None
SingleBinaryOperand(i) == i.dst.type # "None" /\ i.src = None
TwoBinaryOperands(i) == i.dst.type # "None" /\ i.src.type # "None"

\* requireBinaryRegisterDestination, with decodeBinaryRegister.
BinaryRegisterDst(i) == i.dst.type = "Register" /\ i.dst.v \in Registers

\* readBinaryMemoryAddress.
HasBinaryAddress(s, o) ==
    \/ o.type = "MemoryAddress" /\ o.v >= 0
    \/ /\ o.type = "RegisterIndirectAddress" /\ o.v \in Registers
       /\ s.regs[o.v] >= 0

\* readBinaryOperandValue.
CanReadBinary(s, o) ==
    \/ o.type = "Register" /\ o.v \in Registers
    \/ o.type = "Immediate"
    \/ HasBinaryAddress(s, o) /\ CanReadData(s, Address(s, o))

\* readBinaryCodeAddress.
CodeTarget(o) == CodeBase + o.v

HasCodeTarget(o) ==
    o.type = "CodeAddress" /\ o.v >= 0 /\ isBinaryPcInCode(CodeTarget(o))

\* advanceBinaryPcUnlessHalted.
BinaryAdvanced(s) == [s EXCEPT !.pc = @ + InstructionSize]

BinaryJumpTo(s, o) ==
    IF HasCodeTarget(o) /\ ExecutableAddress(s.mode, CodeTarget(o))
    THEN [s EXCEPT !.pc = CodeTarget(o)]
    ELSE Failed(s)

BinaryMov(s, i) ==
    IF TwoBinaryOperands(i) /\ BinaryRegisterDst(i) /\ CanReadBinary(s, i.src)
    THEN LET x == Value(s, i.src)
         IN BinaryAdvanced(updateZeroAndSign(SetReg(s, i.dst.v, x), x))
    ELSE Failed(s)

BinaryLoad(s, i) ==
    IF /\ TwoBinaryOperands(i) /\ BinaryRegisterDst(i)
       /\ HasBinaryAddress(s, i.src) /\ CanReadData(s, Address(s, i.src))
    THEN LET x == ReadData(s, Address(s, i.src))
         IN BinaryAdvanced(updateZeroAndSign(SetReg(s, i.dst.v, x), x))
    ELSE Failed(s)

BinaryStore(s, i) ==
    IF /\ TwoBinaryOperands(i) /\ HasBinaryAddress(s, i.dst)
       /\ CanReadBinary(s, i.src) /\ CanWriteData(s, Address(s, i.dst))
    THEN LET x == Value(s, i.src)
         IN BinaryAdvanced(updateZeroAndSign(WriteData(s, Address(s, i.dst), x), x))
    ELSE Failed(s)

\* ADD, SUB, MUL, DIV.
BinaryArithmetic(s, i) ==
    IF /\ TwoBinaryOperands(i) /\ BinaryRegisterDst(i) /\ CanReadBinary(s, i.src)
       /\ i.op = "DIV" => Divides(s.regs[i.dst.v], Value(s, i.src))
    THEN LET r == Alu(i.op, s.regs[i.dst.v], Value(s, i.src))
         IN BinaryAdvanced(applyALUResultToFlags(SetReg(s, i.dst.v, r.value), r))
    ELSE Failed(s)

\* AND, OR, XOR.
BinaryLogic(s, i) ==
    IF TwoBinaryOperands(i) /\ BinaryRegisterDst(i) /\ CanReadBinary(s, i.src)
    THEN LET r == Alu(i.op, s.regs[i.dst.v], Value(s, i.src))
         IN BinaryAdvanced(applyALUResultToFlags(SetReg(s, i.dst.v, r.value), r))
    ELSE Failed(s)

\* CMP and TEST.
BinaryCmp(s, i) ==
    IF TwoBinaryOperands(i) /\ CanReadBinary(s, i.dst) /\ CanReadBinary(s, i.src)
    THEN BinaryAdvanced(
            applyALUResultToFlags(s, Alu(i.op, Value(s, i.dst), Value(s, i.src))))
    ELSE Failed(s)

BinaryNot(s, i) ==
    IF SingleBinaryOperand(i) /\ BinaryRegisterDst(i)
    THEN LET r == bitNot(s.regs[i.dst.v])
         IN BinaryAdvanced(applyALUResultToFlags(SetReg(s, i.dst.v, r.value), r))
    ELSE Failed(s)

\* JMP, and JE, JNE, JG, JL, which resolve the target only when they jump.
BinaryJump(s, i) ==
    IF ~SingleBinaryOperand(i) THEN Failed(s)
    ELSE IF i.op \in ConditionalJumps /\ ~Taken(i.op, s.flags) THEN BinaryAdvanced(s)
    ELSE BinaryJumpTo(s, i.dst)

BinaryPush(s, i) ==
    IF SingleBinaryOperand(i) /\ CanReadBinary(s, i.dst) /\ CanPush(s)
    THEN BinaryAdvanced(pushValue(s, Value(s, i.dst)))
    ELSE Failed(s)

BinaryPop(s, i) ==
    IF SingleBinaryOperand(i) /\ BinaryRegisterDst(i) /\ CanPop(s, 1)
    THEN LET x == peekValue(s)
         IN BinaryAdvanced(updateZeroAndSign(SetReg(Popped(s), i.dst.v, x), x))
    ELSE Failed(s)

BinaryCall(s, i) ==
    IF /\ SingleBinaryOperand(i) /\ HasCodeTarget(i.dst)
       /\ ExecutableAddress(s.mode, CodeTarget(i.dst))
       /\ ExecutableAddress(s.mode, s.pc + InstructionSize)
       /\ CanPush(s)
    THEN [pushValue(s, s.pc + InstructionSize) EXCEPT !.pc = CodeTarget(i.dst)]
    ELSE Failed(s)

BinaryRet(s, i) ==
    IF /\ NoBinaryOperands(i) /\ CanPop(s, 1)
       /\ peekValue(s) >= 0 /\ ExecutableAddress(s.mode, peekValue(s))
    THEN [Popped(s) EXCEPT !.pc = peekValue(s)]
    ELSE Failed(s)

BinaryIret(s, i) ==
    IF NoBinaryOperands(i) /\ FrameRestorable(s, ExecutableAddress)
    THEN restoreInterruptFrame(s)
    ELSE Failed(s)

HandlerAddress == CodeBase + program.labels["handler"] * InstructionSize

BinaryInt(s, i) ==
    IF /\ SingleBinaryOperand(i) /\ CanReadBinary(s, i.dst)
       /\ Value(s, i.dst) \in Vectors
       /\ isBinaryPcInCode(HandlerAddress)
       /\ FrameFits(s)
    THEN [SetReg(pushInterruptFrame(s, s.pc + InstructionSize), 0, Value(s, i.dst))
            EXCEPT !.pc = HandlerAddress]
    ELSE Failed(s)

\* NOP, HALT.
BinaryPlain(s, i) ==
    IF ~NoBinaryOperands(i) THEN Failed(s)
    ELSE IF i.op = "NOP" THEN BinaryAdvanced(s)
    ELSE [s EXCEPT !.halted = TRUE]

\* EI, DI.
BinaryMask(s, i) ==
    IF NoBinaryOperands(i) THEN BinaryAdvanced([s EXCEPT !.enabled = i.op = "EI"])
    ELSE Failed(s)

executeBinaryInstruction(s, i) ==
    IF Privileged(s, i.op) THEN Failed(s)
    ELSE CASE i.op = "MOV" -> BinaryMov(s, i)
           [] i.op = "LOAD" -> BinaryLoad(s, i)
           [] i.op = "STORE" -> BinaryStore(s, i)
           [] i.op \in Arithmetic -> BinaryArithmetic(s, i)
           [] i.op \in Logic -> BinaryLogic(s, i)
           [] i.op \in {"CMP", "TEST"} -> BinaryCmp(s, i)
           [] i.op = "NOT" -> BinaryNot(s, i)
           [] i.op \in ConditionalJumps \cup {"JMP"} -> BinaryJump(s, i)
           [] i.op = "PUSH" -> BinaryPush(s, i)
           [] i.op = "POP" -> BinaryPop(s, i)
           [] i.op = "CALL" -> BinaryCall(s, i)
           [] i.op = "RET" -> BinaryRet(s, i)
           [] i.op = "IRET" -> BinaryIret(s, i)
           [] i.op = "INT" -> BinaryInt(s, i)
           [] i.op \in {"NOP", "HALT"} -> BinaryPlain(s, i)
           [] i.op \in {"EI", "DI"} -> BinaryMask(s, i)

-------------------------------------------------------------------------------
(* The fetch of CPU::step, and the instruction that the trace shows.        *)

Fetched(s) == ReadBytes(s.mem, s.pc, InstructionSize)

\* What traceOperandFromEncoded refuses.
Traceable(o) ==
    /\ o.type \in {"Register", "RegisterIndirectAddress"} => o.v \in Registers
    /\ o.type \in {"MemoryAddress", "CodeAddress"} => o.v >= 0

traceOperandFromEncoded(o) ==
    CASE o.type = "None" -> None
      [] o.type = "CodeAddress" -> Immediate(CodeTarget(o))
      [] OTHER -> o

\* requireCurrentPcExecutable, traceInstructionForCurrentBinaryPc and the
\* decoder all come before the instruction has an effect.
Fetches(s) ==
    /\ ExecutableAddress(s.mode, s.pc)
    /\ isBinaryPcInCode(s.pc)
    /\ Decodable(Fetched(s))
    /\ LET i == decodeInstruction(Fetched(s)) IN Traceable(i.dst) /\ Traceable(i.src)

\* The source operand is dropped when there is no destination.
traceInstructionForCurrentBinaryPc(s) ==
    LET i == decodeInstruction(Fetched(s))
        dst == traceOperandFromEncoded(i.dst)
    IN IF dst = None THEN Instr0(i.op)
       ELSE Instr(i.op, dst, traceOperandFromEncoded(i.src))

TracedInstruction(s) ==
    IF Fetches(s) THEN traceInstructionForCurrentBinaryPc(s) ELSE Instr0("Invalid")

BinaryStep(s) ==
    IF s.halted THEN s
    ELSE IF Fetches(s) THEN executeBinaryInstruction(s, decodeInstruction(Fetched(s)))
    ELSE Failed(s)

-------------------------------------------------------------------------------
(* Both CPUs together.                                                      *)

Recorded(before, i, after) == [before |-> before, instruction |-> i, after |-> after]

\* loadProgram; and loadBinaryProgram, which copies the code to CodeBase.
Init ==
    /\ \E family \in Programs : program \in family
    /\ legacy = Reset(program.mode)
    /\ \E image \in {encodeProgram(program.code, program.labels)} :
          binary = [Reset(program.mode) EXCEPT !.mem = WriteBytes(@, CodeBase, image),
                                               !.pc = CodeBase]
    /\ count = 0
    /\ apart = TRUE
    /\ event = [legacy |-> Recorded(legacy, Instr0("Invalid"), legacy),
                binary |-> Recorded(binary, Instr0("Invalid"), binary)]

\* The addresses in the code region of the data an instruction reads or writes.
TouchesCode(s, i) ==
    \E o \in {i.dst, i.src} :
        /\ HasBinaryAddress(s, o)
        /\ Address(s, o) > CodeBase - WordBytes
        /\ Address(s, o) < StackBase

\* An iteration of CPU::run on each of them.
Step ==
    /\ count < MaxSteps
    /\ ~(legacy.halted /\ binary.halted)
    /\ count' = count + 1
    /\ legacy' = LegacyStep(legacy)
    /\ binary' = BinaryStep(binary)
    /\ apart' = (apart /\ ~TouchesCode(binary, TracedInstruction(binary)))
    /\ event' = [legacy |-> IF legacy.halted THEN event.legacy
                            ELSE Recorded(legacy, LegacyInstruction(legacy), legacy'),
                 binary |-> IF binary.halted THEN event.binary
                            ELSE Recorded(binary, TracedInstruction(binary), binary')]
    /\ UNCHANGED program

\* CPU::run stops both with an error when the steps are used up.
Exhausted ==
    /\ count = MaxSteps
    /\ ~(legacy.halted /\ binary.halted)
    /\ legacy' = IF legacy.halted THEN legacy ELSE Failed(legacy)
    /\ binary' = IF binary.halted THEN binary ELSE Failed(binary)
    /\ UNCHANGED <<program, count, apart, event>>

Next == Step \/ Exhausted

Spec == Init /\ [][Next]_vars

-------------------------------------------------------------------------------
(* Properties                                                               *)

\* A word of the one run and of the other: code addresses are indices in the
\* one and byte addresses in the other, everything else is the same.
SameWord(x, y) ==
    \/ x = y
    \/ x \in 0 .. Len(program.code) /\ y = CodeBase + x * InstructionSize

SameStack(s, t) ==
    \A a \in {b \in StackBase .. MemEnd - WordBytes : (b - StackBase) % WordBytes = 0} :
        SameWord(ReadWord(s.mem, a), ReadWord(t.mem, a))

\* Encoding a program and running the bytes (executeBinaryInstruction) is the
\* same as running the instruction list (execute): registers, flags, stack,
\* user data, privilege and output agree after every step, the program counters
\* name the same instruction, and the two end alike.  The one difference is a
\* jump past the last instruction, which the binary form refuses at the jump and
\* the list at the fetch after it.
FormsAgree ==
    apart =>
        /\ \A r \in Registers : SameWord(legacy.regs[r], binary.regs[r])
        /\ legacy.flags = binary.flags
        /\ legacy.out = binary.out
        /\ legacy.mode = binary.mode /\ legacy.enabled = binary.enabled
        /\ \A a \in 0 .. CodeBase - 1 : legacy.mem[a] = binary.mem[a]
        /\ \/ legacy.pc = Len(program.code)
           \/ /\ SameStack(legacy, binary)
              /\ legacy.sp = binary.sp /\ legacy.ksp = binary.ksp
              /\ SameWord(legacy.pc, binary.pc)
              /\ legacy.halted = binary.halted
              /\ legacy.error = binary.error

================================================================================
