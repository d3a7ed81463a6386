---------------------------- MODULE GuestMachine ----------------------------
(***************************************************************************)
(* The private machine of one guest process: the part of CPUState a        *)
(* process owns (program counter, a register, a word of data memory) and   *)
(* what one binary instruction of its executable does to it.  CPU.cpp,     *)
(* executeBinaryInstruction, seen by User-mode code.  Instruction          *)
(* addresses are 1..Len(prog); Len(prog)+1 is code_end_exclusive.          *)
(***************************************************************************)
EXTENDS Integers, Sequences

CONSTANTS
    Word,            \* data values are 0..Word-1, arithmetic wraps
    Programs,        \* the executables a process image may hold
    NormalExitCode,  \* MultiProcessRunOptions.normal_exit_code
    FaultExitCode,   \* MultiProcessRunOptions.fault_exit_code
    Driver           \* "runner": the caller halts the CPU at the end of the
                     \* code before it steps (MultiProcessRunner,
                     \* MultiProcessDebugSession); "direct": it only calls
                     \* ProcessLifecycleManager::step

Ops == {"inc", "ld", "st", "jmp", "jnz", "in", "out", "exit", "trap"}

Instr == [op : Ops, to : Nat]

Value == 0 .. Word - 1

ASSUME GuestAssumption ==
    /\ Word \in Nat \ {0}
    /\ Programs \subseteq Seq(Instr) \ {<<>>}
    /\ NormalExitCode \in Int
    /\ FaultExitCode \in Int
    /\ Driver \in {"runner", "direct"}

\* ProcessContext and ProcessAddressSpace memory, as far as a program can see.
Context == [pc : Nat \ {0}, reg : Value, mem : Value]

\* An image is loaded with its entry point at the first instruction.
InitialContext == [pc |-> 1, reg |-> 0, mem |-> 0]

EndPc(prog) == Len(prog) + 1

\* isBinaryPcInCode and the User-mode check of requireExecutionAddress.
InCode(prog, pc) == pc \in 1 .. Len(prog)

Outcomes == {"ok", "done", "exit", "fault", "wedge"}

Result(m, h, out) == [ctx |-> m, host |-> h, out |-> out]

\* setPcForExecution: a User-mode target outside the code is refused before
\* the program counter moves.
Branch(prog, m, h, to) ==
    IF InCode(prog, to) THEN Result([m EXCEPT !.pc = to], h, "ok")
                        ELSE Result(m, h, "fault")

\* serviceHostSoftwareInterrupt for a service that returns to the caller: the
\* handler has run, then restoreInterruptFrame checks the return address with
\* requireExecutionAddress.  When the INT is the last instruction that check
\* throws before the frame is popped, and the kernel interrupt stack stays
\* active: outcome "wedge".
Syscall(prog, m, h, reg) ==
    IF InCode(prog, m.pc + 1)
    THEN Result([m EXCEPT !.pc = @ + 1, !.reg = reg], h, "ok")
    ELSE Result(m, h, "wedge")

\* One CPU::step of a process whose code is prog, machine m and host device h.
Exec(prog, m, h) ==
    IF ~InCode(prog, m.pc)
    THEN Result(m, h, IF Driver = "runner" /\ m.pc = EndPc(prog)
                      THEN "done" ELSE "fault")
    ELSE LET i == prog[m.pc]
             next == [m EXCEPT !.pc = @ + 1]
         IN CASE i.op = "inc" ->
                   Result([next EXCEPT !.reg = (@ + 1) % Word], h, "ok")
              [] i.op = "ld"  -> Result([next EXCEPT !.reg = m.mem], h, "ok")
              [] i.op = "st"  -> Result([next EXCEPT !.mem = m.reg], h, "ok")
              [] i.op = "jmp" -> Branch(prog, m, h, i.to)
              [] i.op = "jnz" -> IF m.reg # 0 THEN Branch(prog, m, h, i.to)
                                              ELSE Result(next, h, "ok")
              [] i.op = "in"  -> Syscall(prog, m, h, h)
              [] i.op = "out" -> Syscall(prog, m, m.reg, m.reg)
              [] i.op = "exit" -> Result(next, h, "exit")
              [] OTHER -> Result(m, h, "fault")

\* A program that asks for a returning service in its last instruction.
TrailingSyscall(prog) == prog[Len(prog)].op \in {"in", "out"}

\* ProcessControlBlock's exit code and ProcessTerminationKind.
NoResult == [kind |-> "None", code |-> 0]

TerminationResult(r) ==
    IF r.out \in {"fault", "wedge"}
    THEN [kind |-> "CpuFault", code |-> FaultExitCode]
    ELSE [kind |-> "NormalExit",
          code |-> IF r.out = "exit" THEN r.ctx.reg ELSE NormalExitCode]

Results == [kind : {"None", "NormalExit", "CpuFault"}, code : Int]
=============================================================================
