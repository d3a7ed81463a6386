------------------------------ MODULE MCExecution ------------------------------
(***************************************************************************)
(* A behaviour is about a program that both interpreters run, out of       *)
(* families of small programs that between them use every opcode, every    *)
(* shape of operands and every way an instruction can fail; or about one   *)
(* operation of the ALU on words around the edges of the range.            *)
(***************************************************************************)
EXTENDS TraceEvents

VARIABLES subject, lhs, rhs, op, result

Unit == INSTANCE ALUMachine

aluVars == <<lhs, rhs, op, result>>

NoOperation == lhs = 0 /\ rhs = 0 /\ op = "none" /\ result = makeResult(0, FALSE, FALSE)

NoProgram == /\ program = <<>> /\ legacy = <<>> /\ binary = <<>>
             /\ count = 0 /\ apart = FALSE /\ event = <<>>

\* Words at and around the powers of two, and where products overflow.
EdgeWords ==
    LET around(x) == {w \in x - 1 .. x + 1 : w \in Words}
        powers == {Power(2, k) : k \in 0 .. Bits - 1}
    IN UNION {around(p) \cup around(-p) : p \in powers} \cup {89, 90, 91, -90, -91}

MCInit ==
    \/ subject = "program" /\ Init /\ NoOperation
    \/ /\ subject = "operation" /\ NoProgram
       /\ lhs \in EdgeWords /\ rhs \in EdgeWords /\ Unit!Init

MCNext ==
    \/ subject = "program" /\ Next /\ UNCHANGED <<subject, aluVars>>
    \/ subject = "operation" /\ Unit!Next /\ UNCHANGED <<subject, vars>>

MCSpec == MCInit /\ [][MCNext]_<<subject, vars, aluVars>>

-------------------------------------------------------------------------------

\* The bytes of a program do what its instructions do (Execution).
FormsAlwaysAgree == subject = "program" => FormsAgree

\* The state before a step and its trace line give the state after (TraceEvents).
LinesAlwaysReplay == subject = "program" => LinesReplay

\* Operands and results, words loaded, stored, popped and returned to, targets and
\* branches in a trace event are those of the instruction, and of a pushed word the
\* lowest byte (TraceEvents).
TraceIsTrue == subject = "program" => DetailsAreTrue

\* The trace tells taken from fallen through (TraceEvents).
BranchAlwaysExplained == subject = "program" => BranchIsExplained

\* The trace shows what PUSH, CALL and INT left on the stack (TraceEvents).
PushAlwaysExplained == subject = "program" => PushIsExplained

\* JL, JG and JE after CMP decide by the signed order of the operands.
ComparisonIsSigned == Unit!ComparisonIsSigned

\* Value and flags of every ALU operation are those of the integers, the overflow
\* flag of a product up to what a long double can tell apart (ALUMachine).
ArithmeticIsRight == Unit!ArithmeticIsRight

\* MUL reports every overflow, and nothing else as one (ALUMachine).
OverflowAlwaysDetected == Unit!OverflowIsDetected

-------------------------------------------------------------------------------

R1 == Register(1)
Edges == {MinWord, -1, 0, 1, MaxWord}

Program(code, labels, mode, bus) ==
    [code |-> code, labels |-> labels, mode |-> mode, bus |-> bus]

End0 == [end |-> 3, handler |-> 3]

\* Arithmetic at the ends of the range, and a branch on its flags.
ArithmeticPrograms ==
    {Program(<<Instr("MOV", R1, Immediate(a)),
               IF o = "NOT" THEN Instr1(o, R1) ELSE Instr(o, R1, Immediate(b)),
               Instr1(jump, Label("end")), Instr0("NOP"), Instr0("HALT")>>,
             [end |-> 4, handler |-> 4], "Kernel", FALSE) :
        a \in Edges, b \in Edges, o \in AluOpcodes \cup {"CMP", "TEST", "NOT"},
        jump \in ConditionalJumps}

\* A store and a load, in memory, in the code, past its end and at the device.
MemoryAccess ==
    {Program(<<Instr("MOV", R1, Immediate(a)), Instr("STORE", dst, src),
               Instr("LOAD", Register(2), Indirect(1)), Instr0("NOP")>>,
             End0, mode, bus) :
        a \in {-1, 0, 5, CodeBase - WordBytes, StackBase, MemEnd - 1, DebugBase,
               DebugBase + WordBytes, DebugBase + 1},
        dst \in {Indirect(1), MemoryAddress(2)},
        src \in {R1, Immediate(300), MemoryAddress(0), Indirect(1)},
        mode \in {"User", "Kernel"}, bus \in BOOLEAN}

\* Three instructions of the stack, calls and interrupts in any order; "fn" is
\* the third of them and "past" is behind the program.
StackInstructions ==
    {Instr1("PUSH", Immediate(300)), Instr1("PUSH", Immediate(-1)),
     Instr1("POP", R1), Instr1("CALL", Label("fn")), Instr1("CALL", Label("past")),
     Instr0("RET"), Instr1("INT", Immediate(7)), Instr1("INT", R1), Instr0("IRET"),
     Instr0("EI"), Instr1("JMP", Label("past"))}

Stack ==
    {Program(<<x, y, z, Instr0("HALT"), Instr("CMP", R1, Immediate(1)), Instr0("IRET")>>,
             [fn |-> 2, handler |-> 4, past |-> 6], mode, FALSE) :
        x \in StackInstructions, y \in StackInstructions, z \in StackInstructions,
        mode \in {"User", "Kernel"}}

\* Every opcode with every shape of operands.
Operands == {None, R1, Immediate(7), MemoryAddress(2), Indirect(1), Label("end")}

Shapes ==
    {Program(<<Instr(o, dst, src), Instr0("NOP"), Instr0("DI"), Instr0("HALT")>>,
             End0, "Kernel", FALSE) :
        o \in Opcodes, dst \in Operands, src \in Operands}

\* A store into the instruction after the next one.
Patches ==
    {Program(<<Instr("STORE", MemoryAddress(CodeBase + 2 * InstructionSize + k),
                     Immediate(x)),
               Instr0("DI"), Instr("MOV", R1, Immediate(1)), Instr0("HALT")>>,
             End0, "Kernel", FALSE) :
        k \in 0 .. InstructionSize - WordBytes, x \in {-1, 0, 5, 18, 300}}

MCPrograms == {ArithmeticPrograms, MemoryAccess, Stack, Shapes, Patches}

================================================================================
