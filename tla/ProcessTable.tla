------------------------------ MODULE ProcessTable ------------------------------
(***************************************************************************)
(* ProcessTable as its callers see it: PIDs, process control blocks with   *)
(* their contexts and address spaces, and every call that changes them, in *)
(* any order.  ProcessRuntime has the sequences of calls that the          *)
(* scheduler makes.  A call that throws leaves the table as it was (the    *)
(* code stages a copy wherever it changes more than one thing), so what it *)
(* refuses is the guard of its action.                                     *)
(***************************************************************************)
EXTENDS Integers, FiniteSets

CONSTANTS
    MaxPid,         \* the largest ProcessId
    Contexts,       \* the contexts that callers hand over
    Memories,       \* memories, [size, code, data]
    Codes,          \* code sections of executables
    NoExecutable,
    ExitCodes,
    kUserStackBase, kUserStackEnd, kKernelStackBase, kKernelStackEnd,
    kStackSlotSize, kDefaultMemorySize

ASSUME TableAssumption ==
    /\ MaxPid \in Nat \ {0}
    /\ {kUserStackBase, kUserStackEnd, kKernelStackBase, kKernelStackEnd,
        kStackSlotSize, kDefaultMemorySize} \subseteq Nat
    /\ kStackSlotSize > 0
    /\ NoExecutable \notin Codes
    /\ 0 \in ExitCodes

ContextType ==
    [pid : 0 .. MaxPid, privilege : {"User", "Kernel"}, has_user_code_range : BOOLEAN,
     code_begin : Nat, code_end : Nat, pc : Nat,
     stack_begin : Nat, stack_end : Nat, sp : Nat, ksp : Nat]

MemoryType == [size : Nat, code : Codes, data : Nat]

ASSUME InputAssumption == Contexts \subseteq ContextType /\ Memories \subseteq MemoryType

VARIABLES
    processes,     \* processes_: from the PIDs in use to control blocks
    next_pid,      \* next_pid_, 0 when the PIDs are used up
    running_pid    \* running_pid_, 0 when no process is Running

vars == <<processes, next_pid, running_pid>>

PIDs == 1 .. MaxPid

-------------------------------------------------------------------------------
(* ProcessContext.                                                          *)

\* validateUserCodeRangeShape.
CodeRangeShape(c) ==
    IF c.has_user_code_range THEN c.code_begin < c.code_end
                             ELSE c.privilege # "User"

\* validateUserProgramCounter.
ProgramCounterInside(c) ==
    c.privilege = "User" => c.code_begin <= c.pc /\ c.pc < c.code_end

\* validateUserStackRange.
StackRangeValid(c) ==
    /\ c.stack_begin < c.stack_end
    /\ c.stack_begin >= kUserStackBase /\ c.stack_end <= kUserStackEnd
    /\ c.stack_begin % kStackSlotSize = 0 /\ c.stack_end % kStackSlotSize = 0
    /\ c.sp >= c.stack_begin /\ c.sp <= c.stack_end
    /\ (c.sp - c.stack_begin) % kStackSlotSize = 0

\* validateKernelStackPointer.
KernelPointerValid(c) ==
    /\ c.ksp >= kKernelStackBase /\ c.ksp <= kKernelStackEnd
    /\ (c.ksp - kKernelStackBase) % kStackSlotSize = 0

\* validateProcessContextSnapshot.
SnapshotValid(c) ==
    /\ c.pid # 0
    /\ CodeRangeShape(c) /\ StackRangeValid(c) /\ KernelPointerValid(c)

\* validateProcessContext.
ContextValid(c) == SnapshotValid(c) /\ ProgramCounterInside(c)

-------------------------------------------------------------------------------
(* ProcessAddressSpace.                                                     *)

\* validate: the memory has the size of the layout and, for a process that was
\* made from an image, its code section is still the executable's.
SpaceValid(s) ==
    /\ s.memory.size = kDefaultMemorySize
    /\ s.executable # NoExecutable => s.memory.code = s.executable

\* replaceMemory.
WithMemory(s, m) == [s EXCEPT !.memory = m]

-------------------------------------------------------------------------------
(* ProcessControlBlock.                                                     *)

NotExited == [code |-> 0, kind |-> "None"]

\* The constructor.
ControlBlock(c, s) == [context |-> c, space |-> s, state |-> "Ready", exit |-> NotExited]

canTransitionProcessState(from, to) ==
    \/ from = to
    \/ from = "Ready" /\ to \in {"Running", "Terminated"}
    \/ from = "Running" /\ to \in {"Ready", "Blocked", "Terminated"}
    \/ from = "Blocked" /\ to \in {"Ready", "Terminated"}

\* What replaceContext and replaceRuntimeState refuse.
Replaceable(p, c) ==
    p.state # "Terminated" /\ ContextValid(c) /\ c.pid = p.context.pid

\* What replaceFinalContext and replaceFinalState refuse: the program counter of
\* a process that ends may be anywhere.
FinallyReplaceable(p, c) ==
    p.state # "Terminated" /\ SnapshotValid(c) /\ c.pid = p.context.pid

replaceContext(p, c) == [p EXCEPT !.context = c]

replaceRuntimeState(p, c, m) ==
    [p EXCEPT !.context = c, !.space = WithMemory(@, m)]

transitionTo(p, state) == [p EXCEPT !.state = state]

\* terminate, with the kind of the end.
Ended(p, code, kind) ==
    [p EXCEPT !.state = "Terminated", !.exit = [code |-> code, kind |-> kind]]

-------------------------------------------------------------------------------
(* ProcessTable.                                                            *)

contains(pid) == pid \in DOMAIN processes

processIdsInState(state) == {pid \in DOMAIN processes : processes[pid].state = state}

Init ==
    /\ processes = [pid \in {} |-> NotExited]
    /\ next_pid = 1
    /\ running_pid = 0

\* commitAllocatedProcessId.
Committed(pid) == IF pid = MaxPid THEN 0 ELSE pid + 1

\* The common part of the three createProcess: requireNextProcessId, emplace
\* (which refuses a PID in use) and commitAllocatedProcessId.
Create(c, s) ==
    /\ next_pid # 0
    /\ ~contains(next_pid)
    /\ processes' = [pid \in DOMAIN processes \cup {next_pid} |->
                        IF pid = next_pid THEN ControlBlock(c, s) ELSE processes[pid]]
    /\ next_pid' = Committed(next_pid)
    /\ UNCHANGED running_pid

BlankMemory(m) == [m EXCEPT !.size = kDefaultMemorySize]

\* createProcess(ProcessContext): the PID replaces the one in the context, and
\* the address space is a blank one.
CreateFromContext(c, m) ==
    LET context == [c EXCEPT !.pid = next_pid]
    IN /\ ContextValid(context)
       /\ Create(context, [memory |-> BlankMemory(m), executable |-> NoExecutable])

\* createProcess(const CPU&): captureProcessContext takes the whole user stack
\* and refuses a CPU on its kernel interrupt stack.
CreateFromCpu(c, m, onKernelStack) ==
    LET context == [c EXCEPT !.pid = next_pid, !.stack_begin = kUserStackBase,
                             !.stack_end = kUserStackEnd]
        s == [memory |-> m, executable |-> NoExecutable]
    IN /\ ~onKernelStack
       /\ ContextValid(context)
       /\ SpaceValid(s)
       /\ Create(context, s)

\* createProcess(const ProcessImage&): contextFromImage starts in User mode, at
\* the bottom of both stacks.
CreateFromImage(c, m, code) ==
    LET context == [c EXCEPT !.pid = next_pid, !.privilege = "User",
                             !.has_user_code_range = TRUE,
                             !.stack_begin = kUserStackBase,
                             !.stack_end = kUserStackEnd,
                             !.sp = kUserStackBase, !.ksp = kKernelStackBase]
        s == [memory |-> m, executable |-> code]
    IN /\ ContextValid(context)
       /\ SpaceValid(s)
       /\ Create(context, s)

Stored(pid, p) ==
    /\ processes' = [processes EXCEPT ![pid] = p]
    /\ UNCHANGED next_pid

UpdateContext(pid, c) ==
    /\ contains(pid)
    /\ Replaceable(processes[pid], c)
    /\ Stored(pid, replaceContext(processes[pid], c))
    /\ UNCHANGED running_pid

UpdateRuntimeState(pid, c, m) ==
    /\ contains(pid)
    /\ Replaceable(processes[pid], c)
    /\ SpaceValid(WithMemory(processes[pid].space, m))
    /\ Stored(pid, replaceRuntimeState(processes[pid], c, m))
    /\ UNCHANGED running_pid

\* Mutant: a process that was Running stays the running one.
MutRunningAfter(pid, state) == IF state = "Running" THEN pid ELSE running_pid

\* running_pid_ after a transition.
RunningAfter(pid, state) ==
    IF state = "Running" THEN pid
    ELSE IF processes[pid].state = "Running" THEN 0
    ELSE running_pid

Transition(pid, state) ==
    /\ state # "Terminated"
    /\ contains(pid)
    /\ state = "Running" => running_pid \in {0, pid}
    /\ canTransitionProcessState(processes[pid].state, state)
    /\ Stored(pid, transitionTo(processes[pid], state))
    /\ running_pid' = RunningAfter(pid, state)

\* The end of a process, given its last context and memory.
Finish(pid, p, code, kind) ==
    /\ canTransitionProcessState(processes[pid].state, "Terminated")
    /\ Stored(pid, Ended(p, code, kind))
    /\ running_pid' = IF processes[pid].state = "Running" THEN 0 ELSE running_pid

\* Mutant: a process can end twice.
MutTerminate(pid, code) ==
    /\ contains(pid)
    /\ Finish(pid, processes[pid], code, "NormalExit")

\* terminate(pid, exitCode)
Terminate(pid, code) ==
    /\ contains(pid)
    /\ processes[pid].state # "Terminated"
    /\ Finish(pid, processes[pid], code, "NormalExit")

\* terminate and fault with a final context.
EndWithContext(pid, c, code, kind) ==
    /\ contains(pid)
    /\ FinallyReplaceable(processes[pid], c)
    /\ Finish(pid, replaceContext(processes[pid], c), code, kind)

\* terminate and fault with a final context and memory.
EndWithState(pid, c, m, code, kind) ==
    /\ contains(pid)
    /\ FinallyReplaceable(processes[pid], c)
    /\ SpaceValid(WithMemory(processes[pid].space, m))
    /\ Finish(pid, replaceRuntimeState(processes[pid], c, m), code, kind)

States == {"Ready", "Running", "Blocked", "Terminated"}

Next ==
    \/ \E c \in Contexts, m \in Memories : CreateFromContext(c, m)
    \/ \E c \in Contexts, m \in Memories, k \in BOOLEAN : CreateFromCpu(c, m, k)
    \/ \E c \in Contexts, m \in Memories, code \in Codes : CreateFromImage(c, m, code)
    \/ \E pid \in PIDs, c \in Contexts : UpdateContext(pid, c)
    \/ \E pid \in PIDs, c \in Contexts, m \in Memories : UpdateRuntimeState(pid, c, m)
    \/ \E pid \in PIDs, state \in States : Transition(pid, state)
    \/ \E pid \in PIDs, code \in ExitCodes : Terminate(pid, code)
    \/ \E pid \in PIDs, c \in Contexts, code \in ExitCodes,
          kind \in {"NormalExit", "CpuFault"} : EndWithContext(pid, c, code, kind)
    \/ \E pid \in PIDs, c \in Contexts, m \in Memories, code \in ExitCodes,
          kind \in {"NormalExit", "CpuFault"} : EndWithState(pid, c, m, code, kind)

Spec == Init /\ [][Next]_vars

-------------------------------------------------------------------------------
(* Properties                                                               *)

\* running_pid_ and the states of the control blocks tell the same story
\* whatever order the calls come in: no two processes are Running, and
\* runningProcessId names the one that is (ProcessTable::transition, terminate,
\* fault).
RunningIsUnique ==
    processIdsInState("Running") = IF running_pid = 0 THEN {} ELSE {running_pid}

\* PIDs are given out once each, in order, up to the largest one, and a process
\* keeps the PID it was given in its context; 0 means that all are used
\* (requireNextProcessId, commitAllocatedProcessId, replaceContext).
PidsAreUsedOnce ==
    /\ DOMAIN processes = IF next_pid = 0 THEN PIDs ELSE 1 .. next_pid - 1
    /\ \A pid \in DOMAIN processes : processes[pid].context.pid = pid

\* Whatever a caller has done to it, a process that has not ended has a context
\* that passes validateProcessContext, with its own PID, a program counter inside
\* its code range and stack pointers inside its stacks, and its memory still holds
\* its executable; one that ended keeps the executable too.  That the code range
\* is one of the loaded binary (CPU::validateUserCodeRange) the table does not
\* know: updateContext accepts another one, and ProcessDispatcher::dispatchNext,
\* which checks it, then refuses the process.
LiveStaysValid ==
    \A pid \in DOMAIN processes :
        /\ processes[pid].state # "Terminated" => ContextValid(processes[pid].context)
        /\ SpaceValid(processes[pid].space)

\* Table, PIDs and control blocks stay consistent whatever order the calls come
\* in (ProcessTable.cpp).
TableConsistent == RunningIsUnique /\ PidsAreUsedOnce /\ LiveStaysValid

\* What a process ended with is never changed again, and no process is removed
\* (ProcessControlBlock::terminate and the checks for Terminated).
EndIsFinal ==
    [][\A pid \in DOMAIN processes :
          /\ pid \in DOMAIN processes'
          /\ processes[pid].state = "Terminated" => processes'[pid] = processes[pid]]_vars

================================================================================
