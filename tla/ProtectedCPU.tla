----------------------------- MODULE ProtectedCPU -----------------------------
(***************************************************************************)
(* Privilege levels, the two stacks and the interrupt frames of CPU.cpp:   *)
(* hardware interrupts taken between instructions, INT to a guest handler  *)
(* or to a host service, IRET, and the stack instructions.  Guest code is  *)
(* arbitrary: at every step any instruction may come next.  Memory is      *)
(* counted in 8-byte slots:                                                *)
(*   0               the user data a program may LOAD and STORE            *)
(*   UBase..UEnd-1   user stack, which is also the bottom of the default   *)
(*                   stack of Kernel-mode code that was not interrupted    *)
(*   KBase..KEnd-1   kernel interrupt stack, up to the end of the memory   *)
(***************************************************************************)
EXTENDS Integers, Sequences

CONSTANTS
    UserSlots,     \* slots of the user stack
    KernelSlots,   \* slots of the kernel interrupt stack (12 in MemoryMap.hpp)
    UserCode,      \* code addresses 1..UserCode are the User code range
    CodeLen,       \* 1..CodeLen is the loaded code
    Targets,       \* code addresses of jumps and calls
    Handlers,      \* addresses in the vector table
    Data,          \* words that programs push and store
    FlagWords,     \* packed flags that instructions leave
    MaxPending,    \* bound on waiting interrupt requests
    MaxSteps,      \* the argument of CPU::run
    Disciplined    \* handlers pop what they pushed, before IRET, and do not
                   \* store into the stacks

ASSUME ProtectedAssumption ==
    /\ UserSlots \in Nat \ {0}
    /\ KernelSlots \in Nat \ {0}
    /\ UserCode \in Nat \ {0}
    /\ CodeLen \in Nat /\ UserCode <= CodeLen
    /\ Targets \subseteq Nat
    /\ Handlers \subseteq Nat
    /\ Data \subseteq Int
    /\ FlagWords \subseteq 0 .. 15
    /\ MaxPending \in Nat
    /\ MaxSteps \in Nat
    /\ Disciplined \in BOOLEAN

FrameSlots == 4

UBase == 1
UEnd == UBase + UserSlots
KBase == UEnd
KEnd == KBase + KernelSlots
Addr == 0 .. KEnd - 1

VARIABLES
    c,         \* CPUState and the kernel stack registers of CPU
    enabled,   \* InterruptController.global_enabled_
    pending,   \* InterruptController.pending_: the handler of each request
    halted,
    error,
    count,     \* steps of CPU::run so far
    frames     \* history: the contexts suspended by the interrupts in progress

cpuVars == <<c, enabled, pending, halted, error, count, frames>>

CpuStates == [mode : {"User", "Kernel"}, pc : Nat, sp : Nat, flags : 0 .. 15,
              mem : [Addr -> Int], ksp : Nat, kstack : BOOLEAN]

Reset == [mode |-> "Kernel", pc |-> 1, sp |-> UBase, flags |-> 0,
          mem |-> [a \in Addr |-> 0], ksp |-> KBase, kstack |-> FALSE]

\* CPU::reset and the load of a program; the host may have entered User mode.
CpuInit ==
    /\ c \in {Reset, [Reset EXCEPT !.mode = "User"]}
    /\ enabled = TRUE
    /\ pending = <<>>
    /\ halted = FALSE
    /\ error = FALSE
    /\ count = 0
    /\ frames = <<>>

-------------------------------------------------------------------------------

privilegeLevelToRaw(mode) == IF mode = "User" THEN 1 ELSE 0

activeStackBase(s) == IF s.mode = "Kernel" /\ s.kstack THEN KBase ELSE UBase

activeStackEndExclusive(s) == IF s.mode = "User" THEN UEnd ELSE KEnd

\* requireExecutionAddress: only User mode is confined.
Executable(mode, address) == mode = "User" => address \in 1 .. UserCode

\* requireCurrentPcExecutable and the fetch.
Fetchable(s) == Executable(s.mode, s.pc) /\ s.pc \in 1 .. CodeLen

CanPush(s, slots) == /\ s.sp >= activeStackBase(s)
                     /\ s.sp + slots <= activeStackEndExclusive(s)

CanPop(s, slots) == /\ s.sp <= activeStackEndExclusive(s)
                    /\ s.sp >= activeStackBase(s) + slots

\* setPc
At(s, pc) == [s EXCEPT !.pc = pc]

\* Mutant: kernel_stack_pointer_ stays where the interrupt entered.
MutMovedSp(s, sp) == [s EXCEPT !.sp = sp]

\* kernel_stack_pointer_ follows the stack pointer on the kernel stack.
MovedSp(s, sp) == [s EXCEPT !.sp = sp, !.ksp = IF s.kstack THEN sp ELSE @]

pushValue(s, v) == MovedSp([s EXCEPT !.mem[s.sp] = v], s.sp + 1)

\* pushInterruptFrame: where the frame goes and whether it fits.
FrameBase(s) == IF s.mode = "User" THEN s.ksp ELSE s.sp

FrameFits(s) ==
    IF s.mode = "User"
    THEN /\ s.sp \in UBase .. UEnd
         /\ s.ksp \in KBase .. KEnd
         /\ s.ksp + FrameSlots <= KEnd
    ELSE CanPush(s, FrameSlots)

\* Mutant: the stack pointer is left inside the frame.
MutPushInterruptFrame(s, returnAddress) ==
    LET b == FrameBase(s)
        onKernelStack == s.kstack \/ s.mode = "User"
    IN [s EXCEPT !.mem[b] = returnAddress, !.mem[b + 1] = s.flags,
                 !.mem[b + 2] = privilegeLevelToRaw(s.mode), !.mem[b + 3] = s.sp,
                 !.sp = b + FrameSlots - 1, !.mode = "Kernel",
                 !.kstack = onKernelStack,
                 !.ksp = IF onKernelStack THEN b + FrameSlots - 1 ELSE @]

pushInterruptFrame(s, returnAddress) ==
    LET b == FrameBase(s)
        onKernelStack == s.kstack \/ s.mode = "User"
    IN [s EXCEPT !.mem[b] = returnAddress,
                 !.mem[b + 1] = s.flags,
                 !.mem[b + 2] = privilegeLevelToRaw(s.mode),
                 !.mem[b + 3] = s.sp,
                 !.sp = b + FrameSlots,
                 !.mode = "Kernel",
                 !.kstack = onKernelStack,
                 !.ksp = IF onKernelStack THEN b + FrameSlots ELSE @]

\* Mutant: the slot of the privilege level is taken for the flags.
MutSavedFlags(s) == s.mem[s.sp - 2]

\* The four words restoreInterruptFrame reads.
ReturnAddress(s) == s.mem[s.sp - 4]
SavedFlags(s) == s.mem[s.sp - 3]
SavedPrivilege(s) == s.mem[s.sp - 2]
SavedSp(s) == s.mem[s.sp - 1]

RestoredMode(s) == IF SavedPrivilege(s) = 1 THEN "User" ELSE "Kernel"

\* Everything restoreInterruptFrame checks before it changes anything.
\* allowEnd: a terminated process may be left at its code end.
FrameRestorable(s, allowEnd) ==
    /\ CanPop(s, FrameSlots)
    /\ SavedPrivilege(s) \in {0, 1}
    /\ ReturnAddress(s) >= 0
    /\ \/ Executable(RestoredMode(s), ReturnAddress(s))
       \/ allowEnd /\ ReturnAddress(s) = UserCode + 1
    /\ SavedSp(s) \in IF RestoredMode(s) = "User" THEN UBase .. UEnd
                      ELSE IF s.kstack THEN KBase .. KEnd
                      ELSE UBase .. KEnd

\* Mutant: the kernel stack is left where the handler was.
MutRestoreInterruptFrame(s) ==
    [s EXCEPT !.flags = SavedFlags(s) % 16,
              !.mode = RestoredMode(s),
              !.pc = ReturnAddress(s),
              !.sp = SavedSp(s),
              !.kstack = @ /\ RestoredMode(s) # "User",
              !.ksp = IF s.kstack /\ RestoredMode(s) # "User" THEN SavedSp(s) ELSE @]

restoreInterruptFrame(s) ==
    LET toUser == RestoredMode(s) = "User"
    IN [s EXCEPT !.flags = SavedFlags(s) % 16,
                 !.mode = RestoredMode(s),
                 !.pc = ReturnAddress(s),
                 !.sp = SavedSp(s),
                 !.kstack = @ /\ ~toUser,
                 !.ksp = IF ~s.kstack THEN @
                         ELSE IF toUser THEN s.sp - FrameSlots ELSE SavedSp(s)]

-------------------------------------------------------------------------------
(* The steps.  Each one is a call of CPU::step, or a request of a device.   *)

\* The context an interrupt suspends, with the stack as it was.
Suspended(returnAddress) ==
    [base |-> FrameBase(c), pc |-> returnAddress, flags |-> c.flags,
     mode |-> c.mode, sp |-> c.sp,
     stack |-> [a \in UBase .. c.sp - 1 |-> c.mem[a]]]

\* An undisciplined handler need not return to the frame it came from, and
\* then the history means nothing.
Entered(returnAddress) ==
    IF Disciplined THEN Append(frames, Suspended(returnAddress)) ELSE <<>>

Returned == IF frames = <<>> THEN <<>> ELSE SubSeq(frames, 1, Len(frames) - 1)

\* The lowest stack pointer a disciplined handler goes down to.
Floor == IF frames = <<>> THEN activeStackBase(c)
         ELSE frames[Len(frames)].base + FrameSlots

ByTheRules(p) == c.mode = "Kernel" /\ Disciplined => p

\* TimerDevice::tick or another device asks for an interrupt.
Request(h) ==
    /\ ~halted
    /\ Len(pending) < MaxPending
    /\ pending' = Append(pending, h)
    /\ UNCHANGED <<c, enabled, halted, error, count, frames>>

Interrupted == enabled /\ pending # <<>>

\* setRuntimeError with nothing changed.
Refused == /\ halted' = TRUE
           /\ error' = TRUE
           /\ UNCHANGED <<c, enabled, frames>>

Proceed(s) == /\ c' = s
              /\ UNCHANGED <<enabled, halted, error, frames>>

\* The loop of CPU::run.
Step == ~halted /\ count < MaxSteps /\ count' = count + 1

\* servicePendingInterruptIfNeeded: the request is acknowledged before its
\* frame is pushed, so one that does not fit is lost.
ServiceInterrupt ==
    /\ Step
    /\ Interrupted
    /\ pending' = Tail(pending)
    /\ IF Head(pending) \in 1 .. CodeLen /\ FrameFits(c)
       THEN /\ c' = At(pushInterruptFrame(c, c.pc), Head(pending))
            /\ frames' = Entered(c.pc)
            /\ UNCHANGED <<enabled, halted, error>>
       ELSE Refused

Instruction == Step /\ ~Interrupted /\ Fetchable(c) /\ UNCHANGED pending

\* The fetch fails, or an instruction that a check refuses at once: HALT,
\* IRET, EI, DI in User mode, User data access outside the low memory, a
\* malformed operand, a division by zero.
Fault == Step /\ ~Interrupted /\ Refused /\ UNCHANGED pending

WithFlags(s, f) == [s EXCEPT !.flags = f]

\* An instruction that changes registers and flags only (MOV, LOAD, ADD, CMP,
\* NOP, a conditional jump that is not taken ...).
Compute(f) ==
    /\ Instruction
    /\ Proceed(At(WithFlags(c, f), c.pc + 1))

\* JMP and the conditional jumps that are taken: setPcForExecution.
Jump(t) ==
    /\ Instruction
    /\ IF Executable(c.mode, t) THEN Proceed(At(c, t)) ELSE Refused

\* STORE: requireDataMemoryAccess confines User mode to the user data.
Store(a, v) ==
    /\ Instruction
    /\ ByTheRules(a = 0)
    /\ IF c.mode = "User" => a = 0
       THEN Proceed(At([c EXCEPT !.mem[a] = v], c.pc + 1))
       ELSE Refused

Push(v) ==
    /\ Instruction
    /\ IF CanPush(c, 1) THEN Proceed(At(pushValue(c, v), c.pc + 1))
                        ELSE Refused

\* POP also sets the zero and sign flags.
Pop(f) ==
    /\ Instruction
    /\ ByTheRules(c.sp > Floor)
    /\ IF CanPop(c, 1)
       THEN Proceed(At(MovedSp(WithFlags(c, f), c.sp - 1), c.pc + 1))
       ELSE Refused

\* CALL checks the target and the return address before it pushes.
Call(t) ==
    /\ Instruction
    /\ IF Executable(c.mode, t) /\ Executable(c.mode, c.pc + 1) /\ CanPush(c, 1)
       THEN Proceed(At(pushValue(c, c.pc + 1), t))
       ELSE Refused

\* RET peeks at the return address and checks it before it pops.
Ret ==
    /\ Instruction
    /\ ByTheRules(c.sp > Floor)
    /\ IF /\ CanPop(c, 1)
          /\ c.mem[c.sp - 1] >= 0
          /\ Executable(c.mode, c.mem[c.sp - 1])
       THEN Proceed(At(MovedSp(c, c.sp - 1), c.mem[c.sp - 1]))
       ELSE Refused

\* INT to a handler of the vector table.
GuestInt(h) ==
    /\ Instruction
    /\ IF h \in 1 .. CodeLen /\ FrameFits(c)
       THEN /\ c' = At(pushInterruptFrame(c, c.pc + 1), h)
            /\ frames' = Entered(c.pc + 1)
            /\ UNCHANGED <<enabled, halted, error>>
       ELSE Refused

\* INT to the SoftwareInterruptHandler.  The service runs on the pushed frame
\* and may write user data; then the frame is restored, also when the service
\* threw.  A frame that cannot be restored stays, with the error.
HostInt(outcome, v) ==
    LET entered == pushInterruptFrame(c, c.pc + 1)
        served == IF outcome = "throw" THEN entered
                  ELSE [entered EXCEPT !.mem[0] = v]
    IN /\ Instruction
       /\ IF ~FrameFits(c) THEN Refused
          ELSE IF FrameRestorable(served, outcome = "terminate")
          THEN /\ c' = restoreInterruptFrame(served)
               /\ halted' = (outcome # "continue")
               /\ error' = (outcome = "throw")
               /\ UNCHANGED <<enabled, frames>>
          ELSE /\ c' = served
               /\ halted' = TRUE
               /\ error' = TRUE
               /\ frames' = Entered(c.pc + 1)
               /\ UNCHANGED enabled

Iret ==
    /\ Instruction
    /\ ByTheRules(frames # <<>> /\ c.sp = Floor)
    /\ IF c.mode = "Kernel" /\ FrameRestorable(c, FALSE)
       THEN /\ c' = restoreInterruptFrame(c)
            /\ frames' = Returned
            /\ UNCHANGED <<enabled, halted, error>>
       ELSE Refused

\* EI and DI.
SetEnabled(b) ==
    /\ Instruction
    /\ c.mode = "Kernel"
    /\ enabled' = b
    /\ c' = At(c, c.pc + 1)
    /\ UNCHANGED <<halted, error, frames>>

Halt ==
    /\ Instruction
    /\ c.mode = "Kernel"
    /\ halted' = TRUE
    /\ UNCHANGED <<c, enabled, error, frames>>

\* CPU::run gives up.
StepLimit == /\ ~halted
             /\ count >= MaxSteps
             /\ Refused
             /\ UNCHANGED <<pending, count>>

\* CPU::step of a halted CPU returns at once.
Stopped == halted /\ UNCHANGED cpuVars

CpuNext ==
    \/ \E h \in Handlers : Request(h)
    \/ ServiceInterrupt
    \/ Fault
    \/ \E f \in FlagWords \cup {c.flags} : Compute(f) \/ Pop(f)
    \/ \E t \in Targets : Jump(t) \/ Call(t)
    \/ \E v \in Data : Push(v) \/ (\E a \in Addr : Store(a, v))
    \/ Ret
    \/ \E h \in Handlers : GuestInt(h)
    \/ \E o \in {"continue", "terminate", "throw"}, v \in Data : HostInt(o, v)
    \/ Iret
    \/ \E b \in BOOLEAN : SetEnabled(b)
    \/ Halt
    \/ StepLimit
    \/ Stopped

CpuSpec == CpuInit /\ [][CpuNext]_cpuVars

-------------------------------------------------------------------------------

Suspensions == [base : Nat, pc : Nat, flags : 0 .. 15, mode : {"User", "Kernel"},
                sp : Nat, stack : Seq(Int)]

\* Types of CPUState, of CPU's stack registers and of the interrupt state.
CpuTypeOK ==
    /\ c \in CpuStates
    /\ enabled \in BOOLEAN
    /\ pending \in Seq(Handlers)
    /\ halted \in BOOLEAN
    /\ error \in BOOLEAN
    /\ count \in Nat
    /\ frames \in Seq(Suspensions)

\* Whatever the guest does, forged frames included, User mode never runs on
\* the kernel interrupt stack, every stack pointer stays in the stack it
\* belongs to, and kernel_stack_pointer_ is where the handler really is.
Confined(s) ==
    /\ s.mode = "User" => ~s.kstack
    /\ s.sp \in activeStackBase(s) .. activeStackEndExclusive(s)
    /\ s.ksp \in KBase .. KEnd
    /\ s.kstack => s.ksp = s.sp

StacksConfined == Confined(c)

\* User mode holds no room of the kernel interrupt stack: interrupts that
\* return give back all of it, so a User program can always be interrupted.
KernelStackReleased ==
    Disciplined /\ ~c.kstack => c.ksp = KBase

\* While handlers run, nested in any way, the four words of every suspended
\* frame, and the stack below it, are what they were at the interruption.
SuspendedIntact ==
    \A i \in DOMAIN frames :
        LET f == frames[i]
        IN /\ c.mem[f.base] = f.pc
           /\ c.mem[f.base + 1] = f.flags
           /\ c.mem[f.base + 2] = privilegeLevelToRaw(f.mode)
           /\ c.mem[f.base + 3] = f.sp
           /\ \A a \in UBase .. f.sp - 1 : c.mem[a] = f.stack[a]

\* The suspended contexts lie on the stacks in the order of the interrupts:
\* each frame is above the one it interrupted and below the stack pointer, and
\* only the first one can belong to a User-mode program.
FramesNested ==
    /\ c.mode = "User" => frames = <<>>
    /\ c.kstack <=> frames # <<>> /\ frames[1].mode = "User"
    /\ ~c.kstack => c.ksp = KBase
    /\ \A i \in DOMAIN frames :
           LET f == frames[i]
           IN /\ f.base >= UBase /\ f.base + FrameSlots <= c.sp
              /\ f.mode = "User" => i = 1 /\ f.base = KBase /\ f.sp \in UBase .. UEnd
              /\ f.mode = "Kernel" => f.sp = f.base
    /\ \A i, j \in DOMAIN frames :
           i < j => frames[i].base + FrameSlots <= frames[j].base

\* The inductive invariant: with undisciplined handlers only the stack
\* pointers are under control.
ProtectedInv ==
    /\ CpuTypeOK
    /\ StacksConfined
    /\ Disciplined => FramesNested /\ SuspendedIntact
    /\ ~Disciplined => frames = <<>>

\* A handler that returns resumes the innermost suspended context: its address,
\* flags, privilege level and stack pointer.
IretResumes ==
    [][Len(frames') < Len(frames) =>
         LET f == frames[Len(frames)]
         IN /\ c'.pc = f.pc
            /\ c'.flags = f.flags
            /\ c'.mode = f.mode
            /\ c'.sp = f.sp]_cpuVars

\* A host service that returns, or throws, leaves the CPU as the INT found it:
\* same privilege level, stack pointer, kernel stack and flags.  The frame is
\* left behind only when the error says so.
HostServiceReturns ==
    [][/\ \E o \in {"continue", "terminate", "throw"}, v \in Data : HostInt(o, v)
       /\ c' # c
       => \/ /\ c'.mode = c.mode /\ c'.sp = c.sp /\ c'.flags = c.flags
             /\ c'.ksp = c.ksp /\ c'.kstack = c.kstack
             /\ c'.pc = c.pc + 1
          \/ error' /\ c.mode = "User" /\ c.pc = UserCode]_cpuVars
===============================================================================
