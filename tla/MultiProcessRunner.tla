-------------------------- MODULE MultiProcessRunner --------------------------
(***************************************************************************)
(* MultiProcessRunner::runImages: the loop around lifecycle.step with its  *)
(* step limit, the trace it records and the counters it reports, and the   *)
(* post-mortem check MultiProcessInvariantVerifier::verify makes of them.  *)
(***************************************************************************)
EXTENDS ProcessRuntime, FiniteSets, Functions

CONSTANT MaxSteps    \* MultiProcessRunOptions.max_lifecycle_steps

\* runImages is the caller that halts a process at the end of its code.
ASSUME RunnerAssumption ==
    /\ MaxSteps \in Nat \ {0}
    /\ Driver = "runner"

VARIABLES
    lifecycleSteps,
    executionTrace,       \* ProcessExecutionTraceRecord
    softwareInterrupts,   \* ProcessSoftwareInterruptTraceRecord
    contextSwitches,      \* ProcessContextSwitchTraceRecord
    preemptionCount,
    contextSwitchCount,
    terminationCount,
    faultCount

traceVars == <<lifecycleSteps, executionTrace, softwareInterrupts,
               contextSwitches, preemptionCount, contextSwitchCount,
               terminationCount, faultCount>>

runnerVars == <<vars, traceVars>>

\* runImages creates its own table, so no process is Blocked.
RunnerInit ==
    /\ Init
    /\ blocked = {}
    /\ lifecycleSteps = 0
    /\ executionTrace = <<>>
    /\ softwareInterrupts = <<>>
    /\ contextSwitches = <<>>
    /\ preemptionCount = 0
    /\ contextSwitchCount = 0
    /\ terminationCount = 0
    /\ faultCount = 0

RunnerStart == Start /\ UNCHANGED traceVars

Count(b) == IF b THEN 1 ELSE 0

AppendIf(b, seq, e) == IF b THEN Append(seq, e) ELSE seq

\* What this call of lifecycle.step is about to do.
ServedFirst == PreemptionDue(cpu.ctx, PendingAtStep)
Ran == ~ServedFirst /\ Executed.out # "done"
Preempts == \/ ServedFirst
            \/ Executed.out = "ok" /\ PreemptionDue(Executed.ctx, PendingAfterTick)
Terminates == ~ServedFirst /\ Executed.out \in Endings
Faults == ~ServedFirst /\ Executed.out = "fault"

\* hasSoftwareInterruptObservation after the step: a service ran and its
\* frame was restored.
Observed == /\ Ran
            /\ Executed.out \in {"ok", "exit"}
            /\ code[runningPid][cpu.ctx.pc].op \in {"in", "out", "exit"}

\* The mutants of the recording.
MutExecutionRecord == [step |-> lifecycleSteps + 1, pid |-> runningPid',
                       before |-> cpu.ctx.pc, after |-> Executed.ctx.pc]
MutSwitchRecord == [step |-> lifecycleSteps + 1, from |-> runningPid,
                    to |-> runningPid', preempted |-> Preempts \/ Terminates,
                    terminated |-> Terminates]

\* The event belongs to the process that was running before the step.
ExecutionRecord == [step |-> lifecycleSteps + 1, pid |-> runningPid,
                    before |-> cpu.ctx.pc, after |-> Executed.ctx.pc]

InterruptRecord == [step |-> lifecycleSteps + 1, pid |-> runningPid,
                    exits |-> Executed.out = "exit",
                    code |-> Executed.ctx.reg]

SwitchRecord == [step |-> lifecycleSteps + 1, from |-> runningPid,
                 to |-> runningPid', preempted |-> Preempts,
                 terminated |-> Terminates]

\* The body of the loop after lifecycle.step returned.
Record ==
    /\ lifecycleSteps' = lifecycleSteps + 1
    /\ executionTrace' = AppendIf(Ran, executionTrace, ExecutionRecord)
    /\ softwareInterrupts' = AppendIf(Observed, softwareInterrupts, InterruptRecord)
    /\ contextSwitches' = AppendIf(runningPid' # runningPid, contextSwitches,
                                   SwitchRecord)
    /\ preemptionCount' = preemptionCount + Count(Preempts)
    /\ contextSwitchCount' =
           contextSwitchCount + Count(Preempts /\ runningPid' # runningPid)
    /\ terminationCount' = terminationCount + Count(Terminates)
    /\ faultCount' = faultCount + Count(Faults)

RunnerStep ==
    /\ lifecycleSteps < MaxSteps
    /\ PreemptBeforeStep \/ StepAndContinue \/ StepAndPreempt \/ StepAndTerminate
    /\ Record

\* An exception of lifecycle.step leaves runImages before anything is recorded.
RunnerThrows ==
    /\ lifecycleSteps < MaxSteps
    /\ StepThrows
    /\ UNCHANGED traceVars

\* The loop is left: the result is returned, or the exception.
RunnerReturns ==
    /\ phase # "New"
    /\ phase # "Running" \/ thrown \/ lifecycleSteps >= MaxSteps
    /\ UNCHANGED runnerVars

RunnerNext == RunnerStart \/ RunnerStep \/ RunnerThrows \/ RunnerReturns

RunnerSpec == RunnerInit /\ [][RunnerNext]_runnerVars

-------------------------------------------------------------------------------
(* MultiProcessInvariantVerifier::verify on the result runImages would      *)
(* return now: every prefix of a run is the result of a smaller step limit. *)

Terminated == {p \in Pid : pstate[p] = "Terminated"}

StepLimitReached == phase = "Running" /\ lifecycleSteps >= MaxSteps

\* Steps are in range and strictly ordered.
Ordered(trace) ==
    /\ \A i \in DOMAIN trace : trace[i].step \in 1 .. lifecycleSteps
    /\ \A i, j \in DOMAIN trace : i < j => trace[i].step < trace[j].step

\* The events of known processes, each of which resumes at the program counter
\* where it stopped.
PcContinuous ==
    /\ \A e \in Range(executionTrace) : e.pid \in Pid
    /\ \A i, j \in DOMAIN executionTrace :
          /\ i < j
          /\ executionTrace[i].pid = executionTrace[j].pid
          /\ \A k \in i + 1 .. j - 1 : executionTrace[k].pid # executionTrace[i].pid
          => executionTrace[j].before = executionTrace[i].after

\* Every observation has its instruction; a terminating one has its handoff
\* and the exit code of the process.
InterruptsExplained ==
    \A i \in DOMAIN softwareInterrupts :
        LET r == softwareInterrupts[i]
        IN /\ r.pid \in Pid
           /\ \E e \in Range(executionTrace) : e.step = r.step /\ e.pid = r.pid
           /\ r.exits => /\ \E s \in Range(contextSwitches) :
                               s.step = r.step /\ s.from = r.pid /\ s.terminated
                         /\ result[r.pid] # NoResult
                         /\ result[r.pid].code = r.code

SwitchesExplained ==
    \A s \in Range(contextSwitches) :
        /\ s.from \in Pid
        /\ s.to \in Pid \cup {0}
        /\ s.from # s.to
        /\ ~(s.preempted /\ s.terminated)
        /\ s.to = 0 => s.terminated

CountsMatch ==
    /\ terminationCount = Cardinality(Terminated)
    /\ faultCount = Cardinality({p \in Terminated : result[p].kind = "CpuFault"})
    /\ faultCount <= terminationCount /\ terminationCount <= NumProcs
    /\ contextSwitchCount <= preemptionCount
    /\ contextSwitchCount =
           Cardinality({i \in DOMAIN contextSwitches : contextSwitches[i].preempted})
    /\ terminationCount =
           Cardinality({i \in DOMAIN contextSwitches : contextSwitches[i].terminated})

\* The records of one lifecycle step.
RecordsAt(trace, k) == {r \in Range(trace) : r.step = k}

\* One lifecycle step of the verifier's timeline, from the records ev and sw of
\* that step: a PID not known yet is taken from them, a switch moves it on.
TimelineStep(ev, sw, was) ==
    LET now == IF was.pid # 0 THEN was.pid
               ELSE IF ev # {} THEN (CHOOSE e \in ev : TRUE).pid
               ELSE IF sw # {} THEN (CHOOSE s \in sw : TRUE).from
               ELSE 0
    IN [pid |-> IF sw # {} THEN (CHOOSE s \in sw : TRUE).to ELSE now,
        ok |-> /\ was.ok
               /\ \A e \in ev : e.pid = now
               /\ \A s \in sw : s.from = now]

\* The PID the two traces imply after each of n lifecycle steps.
TimelineOf(n, execution, switches) ==
    LET cur[k \in 0 .. n] ==
            IF k = 0 THEN [pid |-> 0, ok |-> TRUE]
            ELSE TimelineStep(RecordsAt(execution, k), RecordsAt(switches, k),
                              cur[k - 1])
    IN cur

Timeline ==
    TimelineOf(lifecycleSteps, executionTrace, contextSwitches)[lifecycleSteps]

Verify ==
    /\ CountsMatch
    /\ Ordered(executionTrace)
    /\ Ordered(softwareInterrupts)
    /\ Ordered(contextSwitches)
    /\ PcContinuous
    /\ InterruptsExplained
    /\ SwitchesExplained
    /\ StepLimitReached => phase = "Running"
    /\ Timeline.ok
    /\ phase = "Running" /\ lifecycleSteps # 0 => Timeline.pid # 0
    /\ phase = "Completed" => Timeline.pid = 0

-------------------------------------------------------------------------------

\* Whatever the processes do and wherever the step limit cuts the run, the
\* result of runImages passes MultiProcessInvariantVerifier::verify.
VerifierAccepts == phase # "New" /\ ~thrown => Verify

\* The trace is complete: the recorded events account for the program counter
\* every process has now, in the CPU or in its PCB.
TraceMatchesMachines ==
    \A p \in Pid :
        LET own == {i \in DOMAIN executionTrace : executionTrace[i].pid = p}
        IN /\ own = {} => Machine[p].pc = 1
           /\ \A i \in own : (\A j \in own : j <= i) =>
                  Machine[p].pc = executionTrace[i].after

\* A preemption is paid for by a whole quantum of executed instructions, no
\* matter how the quanta are cut by terminations.
PreemptionsArePaid ==
    preemptionCount * Quantum <= Len(executionTrace)
===============================================================================
