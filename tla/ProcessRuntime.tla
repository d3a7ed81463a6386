---------------------------- MODULE ProcessRuntime ----------------------------
(***************************************************************************)
(* The multi-process runtime: ProcessTable, RoundRobinScheduler,           *)
(* ProcessDispatcher, TimerPreemptiveScheduler and ProcessLifecycleManager *)
(* around one CPU, driven by the loop of MultiProcessRunner::runImages or  *)
(* by a caller of ProcessLifecycleManager::step.  All of it runs on one    *)
(* thread, so one call of lifecycle.step is one action.                    *)
(***************************************************************************)
EXTENDS GuestMachine, RoundRobin

CONSTANTS
    NumProcs,     \* images given to runImages; process i gets PID i
    Quantum       \* timer interval, in executed instructions

ASSUME RuntimeAssumption ==
    /\ NumProcs \in Nat \ {0}
    /\ Quantum \in Nat \ {0}

Pid == 1 .. NumProcs

VARIABLES
    code,          \* executable image of each process
    blocked,       \* processes the caller blocked before it started
    pstate,        \* ProcessControlBlock.state_
    saved,         \* ProcessControlBlock.context_ and address space memory
    result,        \* exit code and termination kind
    runningPid,    \* ProcessTable.running_pid_, 0 for none
    lastSelected,  \* RoundRobinScheduler.last_selected_pid_, 0 for none
    cpu,           \* the one CPU
    host,          \* the device behind the host services
    ticks,         \* TimerDevice.tick_count_ modulo its interval
    pending,       \* timer requests waiting in InterruptController.pending_
    phase,         \* ProcessLifecycleManager.state_, "New" before start
    thrown         \* lifecycle.step threw: runImages is left by an exception

vars == <<code, blocked, pstate, saved, result, runningPid, lastSelected,
          cpu, host, ticks, pending, phase, thrown>>

States == {"Ready", "Running", "Blocked", "Terminated"}

Phases == {"New", "Ready", "Running", "Completed", "Deadlocked"}

\* The CPU: whose executable is loaded (0: none yet), the live context, and
\* the flags halted, hasError and usingKernelInterruptStack.
CpuStates == [owner : 0 .. NumProcs, ctx : Context,
              halted : BOOLEAN, error : BOOLEAN, kstack : BOOLEAN]

Ready == {p \in Pid : pstate[p] = "Ready"}

\* The table as the caller builds it: createProcess for every image, then
\* Ready -> Running -> Blocked for the ones that wait for something.
Init ==
    /\ code \in [Pid -> Programs]
    /\ blocked \in SUBSET Pid
    /\ pstate = [p \in Pid |-> IF p \in blocked THEN "Blocked" ELSE "Ready"]
    /\ saved = [p \in Pid |-> InitialContext]
    /\ result = [p \in Pid |-> NoResult]
    /\ runningPid = 0
    /\ lastSelected = 0
    /\ cpu = [owner |-> 0, ctx |-> InitialContext,
              halted |-> FALSE, error |-> FALSE, kstack |-> FALSE]
    /\ host = 0
    /\ ticks = 0
    /\ pending = 0
    /\ phase = "New"
    /\ thrown = FALSE

\* Mutant: Blocked processes are not looked at.
MutClassify(ps) == IF \E p \in Pid : ps[p] = "Ready" THEN "Ready" ELSE "Completed"

\* classifyWithoutRunning on the process states ps.
Classify(ps) ==
    IF \E p \in Pid : ps[p] = "Ready" THEN "Ready"
    ELSE IF \E p \in Pid : ps[p] = "Blocked" THEN "Deadlocked"
    ELSE "Completed"

\* activate and restoreProcessContext: the selected executable is loaded and
\* its context copied in; error, halted and the kernel stack are cleared.
Loaded(p, ctx) == [owner |-> p, ctx |-> ctx,
                   halted |-> FALSE, error |-> FALSE, kstack |-> FALSE]

\* dispatchNext after the current process was left in state ps with contexts
\* sv: round robin over cands, the selected process becomes Running and its
\* context is restored.
DispatchTo(ps, sv, cands, cursor) ==
    LET s == FirstAfter(cands, cursor)
    IN /\ pstate' = [ps EXCEPT ![s] = "Running"]
       /\ saved' = sv
       /\ runningPid' = s
       /\ lastSelected' = s
       /\ cpu' = Loaded(s, sv[s])

\* lifecycle.start
Start ==
    /\ phase = "New"
    /\ IF Ready = {}
       THEN /\ phase' = Classify(pstate)
            /\ cpu' = [cpu EXCEPT !.halted = TRUE]
            /\ UNCHANGED <<pstate, saved, runningPid, lastSelected>>
       ELSE /\ phase' = "Running"
            /\ DispatchTo(pstate, saved, Ready, lastSelected)
    /\ UNCHANGED <<code, blocked, result, host, ticks, pending, thrown>>

\* captureProcessContext accepts a User-mode PC inside the code only.
Capturable(p, ctx) == InCode(code[p], ctx.pc)

\* The cursor scheduleNext uses while a process is Running.
Cursor == IF lastSelected # 0 THEN lastSelected ELSE runningPid

\* Mutant: the guard at the end of the code is missing.
MutPreemptionDue(ctx, n) == n > 0

\* servicePendingPreemption dispatches, for a CPU whose context is ctx, with
\* n requests pending: the guard at the code end is what keeps
\* captureProcessContext from throwing.
PreemptionDue(ctx, n) == n > 0 /\ ctx.pc # EndPc(code[runningPid])

\* Mutant: the preempted process is not put back to Ready.
MutDispatchKeepsRunning(ctx) ==
    DispatchTo(pstate, [saved EXCEPT ![runningPid] = ctx],
               Ready \cup {runningPid}, Cursor)

\* Mutant: the context is saved, the address space memory is not.
MutDispatchForgetsMemory(ctx) ==
    DispatchTo([pstate EXCEPT ![runningPid] = "Ready"],
               [saved EXCEPT ![runningPid] = [ctx EXCEPT !.mem = saved[runningPid].mem]],
               Ready \cup {runningPid}, Cursor)

\* ProcessDispatcher::dispatchNext with a Running process: save, rotate, load.
Dispatch(ctx) ==
    DispatchTo([pstate EXCEPT ![runningPid] = "Ready"],
               [saved EXCEPT ![runningPid] = ctx],
               Ready \cup {runningPid}, Cursor)

\* validateProcessContextForCPU rejects the context of the process selected
\* by a preemption (or the saved one), or of the one selected after an end.
DispatchRefused(ctx) ==
    LET s == FirstAfter(Ready \cup {runningPid}, Cursor)
    IN ~Capturable(runningPid, ctx) \/ (s # runningPid /\ ~Capturable(s, saved[s]))

HandoffRefused ==
    LET s == FirstAfter(Ready, lastSelected)
    IN Ready # {} /\ ~Capturable(s, saved[s])

Active == phase = "Running" /\ ~thrown

\* MultiProcessRunner's loop head: a process at the end of its code is halted
\* and the timer requests it leaves behind are discarded.
AtEnd == Driver = "runner" /\ cpu.ctx.pc = EndPc(code[runningPid])

\* Mutant: the request a completed process leaves behind stays pending.
MutPendingAtStep == pending

PendingAtStep == IF AtEnd THEN 0 ELSE pending

\* A request that was already pending is served first, and then the CPU does
\* not step at all.
PreemptBeforeStep ==
    /\ Active
    /\ PreemptionDue(cpu.ctx, PendingAtStep)
    /\ ~DispatchRefused(cpu.ctx)
    /\ Dispatch(cpu.ctx)
    /\ pending' = PendingAtStep - 1
    /\ UNCHANGED <<code, blocked, result, host, ticks, phase, thrown>>

\* What cpu.step does: it executes the executable loaded by activate.
Executed == Exec(code[cpu.owner], cpu.ctx, host)

Endings == {"exit", "done", "fault"}

\* setHalted and setRuntimeError of that step.
CpuAfter(r) == [cpu EXCEPT !.ctx = r.ctx,
                           !.halted = r.out # "ok",
                           !.error = r.out \in {"fault", "wedge"},
                           !.kstack = r.out = "wedge"]

\* tickClockedDevices after an instruction that neither halts nor fails.
NextTicks == (ticks + 1) % Quantum

\* Mutant: the timer fires at the first tick of an interval.
MutPendingAfterTick == PendingAtStep + (IF ticks = 0 THEN 1 ELSE 0)

PendingAfterTick == PendingAtStep + (IF NextTicks = 0 THEN 1 ELSE 0)

\* An instruction of a process that goes on running.
StepAndContinue ==
    /\ Active
    /\ ~PreemptionDue(cpu.ctx, PendingAtStep)
    /\ Executed.out = "ok"
    /\ ~PreemptionDue(Executed.ctx, PendingAfterTick)
    /\ cpu' = CpuAfter(Executed)
    /\ host' = Executed.host
    /\ ticks' = NextTicks
    /\ pending' = PendingAfterTick
    /\ UNCHANGED <<code, blocked, pstate, saved, result, runningPid,
                   lastSelected, phase, thrown>>

\* An instruction whose tick ends the quantum.
StepAndPreempt ==
    /\ Active
    /\ ~PreemptionDue(cpu.ctx, PendingAtStep)
    /\ Executed.out = "ok"
    /\ PreemptionDue(Executed.ctx, PendingAfterTick)
    /\ ~DispatchRefused(Executed.ctx)
    /\ Dispatch(Executed.ctx)
    /\ host' = Executed.host
    /\ ticks' = NextTicks
    /\ pending' = PendingAfterTick - 1
    /\ UNCHANGED <<code, blocked, result, phase, thrown>>

\* lifecycle.step looks for a Ready process in the staged table.
HasSuccessor == Ready # {}

\* The running process exits, reaches its end or faults: its final state is
\* captured, and the next Ready process is dispatched or the run is over.
StepAndTerminate ==
    /\ Active
    /\ ~PreemptionDue(cpu.ctx, PendingAtStep)
    /\ Executed.out \in Endings
    /\ ~HandoffRefused
    /\ LET ps == [pstate EXCEPT ![runningPid] = "Terminated"]
           sv == [saved EXCEPT ![runningPid] = Executed.ctx]
       IN IF HasSuccessor
          THEN /\ DispatchTo(ps, sv, Ready, lastSelected)
               /\ phase' = "Running"
          ELSE /\ pstate' = ps
               /\ saved' = sv
               /\ runningPid' = 0
               /\ cpu' = CpuAfter(Executed)
               /\ phase' = Classify(ps)
               /\ UNCHANGED lastSelected
    /\ result' = [result EXCEPT ![runningPid] = TerminationResult(Executed)]
    /\ host' = Executed.host
    /\ pending' = PendingAtStep
    /\ UNCHANGED <<code, blocked, ticks, thrown>>

\* lifecycle.step throws.  The final context cannot be captured because the
\* failed syscall left the kernel interrupt stack active, or dispatchNext
\* refuses the context it must save or the one it must restore.
Throws ==
    IF PreemptionDue(cpu.ctx, PendingAtStep)
    THEN DispatchRefused(cpu.ctx)
    ELSE \/ Executed.out = "wedge"
         \/ /\ Executed.out = "ok"
            /\ PreemptionDue(Executed.ctx, PendingAfterTick)
            /\ DispatchRefused(Executed.ctx)
         \/ /\ Executed.out \in Endings
            /\ HandoffRefused

\* The CPU keeps what it did, the staged table and scheduler are dropped.
StepThrows ==
    /\ Active
    /\ Throws
    /\ IF PreemptionDue(cpu.ctx, PendingAtStep)
       THEN UNCHANGED <<cpu, host, ticks, pending>>
       ELSE /\ cpu' = CpuAfter(Executed)
            /\ host' = Executed.host
            /\ ticks' = IF Executed.out = "ok" THEN NextTicks ELSE ticks
            /\ pending' = IF Executed.out = "ok" THEN PendingAfterTick
                                                ELSE PendingAtStep
    /\ thrown' = TRUE
    /\ UNCHANGED <<code, blocked, pstate, saved, result, runningPid,
                   lastSelected, phase>>

\* lifecycle.step of a run that is over returns at once; after an exception
\* the caller is gone.
StepAfterEnd ==
    /\ phase \notin {"New", "Running"} \/ thrown
    /\ UNCHANGED vars

\* One call of lifecycle.step on a live run.
LifecycleStep == \/ PreemptBeforeStep
                 \/ StepAndContinue
                 \/ StepAndPreempt
                 \/ StepAndTerminate
                 \/ StepThrows

Next == \/ Start
        \/ PreemptBeforeStep
        \/ StepAndContinue
        \/ StepAndPreempt
        \/ StepAndTerminate
        \/ StepThrows
        \/ StepAfterEnd

\* runImages loops on lifecycle.step until the run is over (or its step limit
\* is reached, which only cuts a behaviour short).
Fairness == WF_vars(Next)

Safe == Init /\ [][Next]_vars

Spec == Safe /\ Fairness

-------------------------------------------------------------------------------

\* Types of the runtime's state (ProcessTable.hpp, CPU.hpp, TimerDevice.hpp).
TypeOK ==
    /\ code \in [Pid -> Programs]
    /\ blocked \in SUBSET Pid
    /\ pstate \in [Pid -> States]
    /\ saved \in [Pid -> Context]
    /\ result \in [Pid -> Results]
    /\ runningPid \in 0 .. NumProcs
    /\ lastSelected \in 0 .. NumProcs
    /\ cpu \in CpuStates
    /\ host \in Value
    /\ ticks \in 0 .. Quantum - 1
    /\ pending \in Nat
    /\ phase \in Phases
    /\ thrown \in BOOLEAN

\* ProcessTable keeps "the Running process" twice, in running_pid_ and in the
\* states of the PCBs: they agree, so at most one process is Running, and the
\* lifecycle manager is Running exactly while there is one.
OneRunning ==
    /\ \A p \in Pid : pstate[p] = "Running" <=> runningPid = p
    /\ phase = "Running" <=> runningPid # 0

\* The CPU executes the code of the Running process: dispatchNext never leaves
\* the table pointing at one process and the CPU loaded with another.
CpuHoldsRunning ==
    phase = "Running" => /\ cpu.owner = runningPid
                         /\ ~thrown => ~cpu.halted /\ ~cpu.error /\ ~cpu.kstack

\* Every process that can be dispatched has a context that the dispatcher
\* accepts: a preempted process was never saved at the end of its code.
ReadyIsDispatchable ==
    \A p \in Ready : InCode(code[p], saved[p].pc)

\* A timer request survives lifecycle.step only while the Running process
\* stands at the end of its code.  MultiProcessRunner discards it there, so
\* the next process is not preempted before its first instruction.
NoInheritedTimerRequest ==
    Driver = "runner" /\ pending > 0 =>
        /\ pending = 1
        /\ phase = "Running"
        /\ cpu.ctx.pc = EndPc(code[runningPid])

\* When the run is over its classification is right: Completed only if every
\* process terminated, Deadlocked only if the rest waits for each other.
EndIsClassified ==
    /\ phase = "Completed" => \A p \in Pid : pstate[p] = "Terminated"
    /\ phase = "Deadlocked" =>
           /\ \E p \in Pid : pstate[p] = "Blocked"
           /\ \A p \in Pid : pstate[p] \in {"Blocked", "Terminated"}
    /\ phase # "Ready"

\* The PCBs account for every process: only terminated ones have a result, and
\* the runtime itself blocks or wakes nobody.
ResultsMatchStates ==
    \A p \in Pid : /\ pstate[p] # "Terminated" => result[p] = NoResult
                   /\ pstate[p] = "Blocked" <=> p \in blocked

\* The cursor of the scheduler is the process it last made Running, whose
\* program counter is in its code or at its end.
CursorFollows ==
    /\ phase = "New" => lastSelected = 0 /\ ~thrown
    /\ phase = "Running" =>
           /\ lastSelected = runningPid
           /\ ~thrown => cpu.ctx.pc \in 1 .. EndPc(code[runningPid])

\* The inductive invariant of the runtime.
RuntimeInv ==
    /\ TypeOK
    /\ OneRunning
    /\ CpuHoldsRunning
    /\ ReadyIsDispatchable
    /\ ResultsMatchStates
    /\ CursorFollows

\* lifecycle.step throws for one reason only: the Running process asks for a
\* returning service in its last instruction.  Every other fault is the end of
\* one process, and no save or restore of dispatchNext is ever refused.
NeverThrows == thrown => TrailingSyscall(code[runningPid])

\* A fault never leaves the machine in its error state while another process
\* is Ready: it is terminated and the Ready one continues (docs/architecture.md
\* "A faulted process is terminated in isolation. Another ready process can
\* continue").
FaultIsIsolated ==
    cpu.error => \A p \in Pid : pstate[p] # "Ready"

\* Round robin: every selection that passes over a Ready process brings the
\* scan strictly closer to it, so at most NumProcs - 1 selections do.
SelectionApproaches ==
    [][lastSelected' # lastSelected =>
         \A p \in Pid : pstate[p] = "Ready" /\ pstate'[p] = "Ready" =>
             Distance(NumProcs, lastSelected', p)
                 < Distance(NumProcs, lastSelected, p)]_vars

\* The runtime implements a private machine per process: the machine of the
\* Running process is in the CPU, every other one in its PCB.
Machine == [p \in Pid |-> IF p = runningPid THEN cpu.ctx ELSE saved[p]]

Isolated == INSTANCE IsolatedMachines WITH machine <- Machine

\* Every step of the runtime is one instruction of one private machine or
\* changes none of them (context switches lose and mix nothing).
ImplementsIsolation == Isolated!Safe

\* A Ready process is eventually Running, although others loop forever, unless
\* an exception ends the whole run.
NoStarvation ==
    \A p \in Pid : pstate[p] = "Ready" ~> (pstate[p] = "Running" \/ thrown)
===============================================================================
