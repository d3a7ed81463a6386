----------------------- MODULE MultiProcessRunnerProofs -----------------------
(* The trace and the counters of runImages, for every set of executables,   *)
(* quantum, number of processes and step limit: they pass the verifier, they *)
(* account for every machine, and preemptions cost whole quanta.            *)
EXTENDS MultiProcessRunner, ProcessRuntimeProofs, FiniteSetTheorems

\* Types of the records and counters.
EventType == [step : Nat, pid : Pid, before : Nat, after : Nat]
InterruptType == [step : Nat, pid : Pid, exits : BOOLEAN, code : Int]
SwitchType == [step : Nat, from : Pid, to : 0 .. NumProcs,
               preempted : BOOLEAN, terminated : BOOLEAN]

TraceTypeOK ==
    /\ lifecycleSteps \in Nat
    /\ executionTrace \in Seq(EventType)
    /\ softwareInterrupts \in Seq(InterruptType)
    /\ contextSwitches \in Seq(SwitchType)
    /\ preemptionCount \in Nat
    /\ contextSwitchCount \in Nat
    /\ terminationCount \in Nat
    /\ faultCount \in Nat

\* The runtime under the runner's loop: what ProcessRuntimeProofs establishes.
LoopInv == RuntimeInv /\ NoInheritedTimerRequest

\* The loop only ever calls lifecycle.start and lifecycle.step.
LEMMA RunnerStepsRuntime == [RunnerNext]_runnerVars => [Next]_vars
BY DEF RunnerNext, RunnerStart, RunnerStep, RunnerThrows, RunnerReturns,
       runnerVars, Next

\* The runtime's invariants hold under the runner's loop.
LEMMA RunnerKeepsLoopInv == RunnerSpec => []LoopInv
<1>1. RunnerInit => LoopInv
  BY InitInv DEF RunnerInit, Init, NoInheritedTimerRequest, LoopInv
<1>2. LoopInv /\ [RunnerNext]_runnerVars => LoopInv'
  BY RunnerStepsRuntime, NextInv, NoInheritedTimerRequestNext DEF LoopInv
<1> QED BY <1>1, <1>2, PTL DEF RunnerSpec

\* What a lifecycle.step of a process that goes on does.
GoesOn ==
    /\ StepAndContinue \/ StepAndPreempt
    /\ Executed.out = "ok"
    /\ Ran /\ ~Terminates /\ ~Faults
    /\ Preempts <=> StepAndPreempt
    /\ runningPid' \in Pid
    /\ runningPid' # runningPid => Preempts
    /\ Terminated' = Terminated
    /\ result' = result

\* What the last lifecycle.step of a process does.
Ends ==
    /\ StepAndTerminate
    /\ Executed.out \in Endings
    /\ Terminates /\ ~Preempts
    /\ Ran <=> Executed.out # "done"
    /\ Faults <=> Executed.out = "fault"
    /\ Executed.out = "done" => Executed.ctx = cpu.ctx
    /\ runningPid' \in 0 .. NumProcs
    /\ runningPid' # runningPid
    /\ Terminated' = Terminated \cup {runningPid}
    /\ result' = [result EXCEPT ![runningPid] = TerminationResult(Executed)]

\* A process that ran off its end, and a service that cannot return, leave the
\* context as it was.
LEMMA ContextKept ==
    ASSUME RuntimeInv, Active, Executed.out \in {"done", "wedge"}
    PROVE  Executed.ctx = cpu.ctx
<1>1. cpu.owner = runningPid
  BY ExecutedTyped
<1> DEFINE prog == code[runningPid]
           m == cpu.ctx
<1>2. Executed = Exec(prog, m, host)
  BY <1>1 DEF Executed
<1> HIDE DEF prog, m
<1>3. Exec(prog, m, host).out \in {"done", "wedge"} => Exec(prog, m, host).ctx = m
  BY DEF Exec, Result, Branch, Syscall
<1> QED BY <1>2, <1>3 DEF m

\* Every recorded step is one of the two, on the private machine of the
\* process that was running.
LEMMA StepOutcome ==
    ASSUME LoopInv, RunnerStep
    PROVE  /\ Active
           /\ runningPid \in Pid
           /\ ~ServedFirst
           /\ cpu.ctx \in Context /\ Executed.ctx \in Context
           /\ Machine[runningPid] = cpu.ctx
           /\ Machine' = [Machine EXCEPT ![runningPid] = Executed.ctx]
           /\ runningPid \notin Terminated
           /\ result[runningPid] = NoResult
           /\ GoesOn \/ Ends
<1> USE DEF LoopInv
<1>1. ~ServedFirst /\ ~PreemptBeforeStep
  BY NothingPendingAtStep, RunnerAssumption
     DEF ServedFirst, PreemptionDue, PreemptBeforeStep
<1>2. StepAndContinue \/ StepAndPreempt \/ StepAndTerminate
  BY <1>1 DEF RunnerStep
<1>3. Active
  BY <1>2 DEF StepAndContinue, StepAndPreempt, StepAndTerminate
<1>4. /\ runningPid \in Pid /\ pstate[runningPid] = "Running"
      /\ cpu.ctx \in Context /\ Executed.ctx \in Context
      /\ Machine[runningPid] = cpu.ctx
  BY <1>3, ExecutedTyped DEF WellTyped, Machine
<1>5. runningPid \notin Terminated /\ result[runningPid] = NoResult
  BY <1>4 DEF Terminated, RuntimeInv, ResultsMatchStates
<1>6. pstate \in [Pid -> States] /\ 0 \notin Pid /\ Pid \subseteq 0 .. NumProcs
  BY RuntimeAssumption DEF RuntimeInv, TypeOK, Pid
<1>7. CASE StepAndContinue \/ StepAndPreempt
  <2>1. Executed.out = "ok" /\ result' = result
    BY <1>7 DEF StepAndContinue, StepAndPreempt
  <2>2. Ran /\ ~Terminates /\ ~Faults
    BY <1>1, <2>1 DEF Ran, Terminates, Faults, Endings
  <2>3. ASSUME StepAndContinue PROVE GoesOn
    <3>1. ~Preempts /\ ~StepAndPreempt
      BY <1>1, <2>3 DEF Preempts, StepAndContinue, StepAndPreempt
    <3>2. runningPid' = runningPid /\ pstate' = pstate
      BY <2>3 DEF StepAndContinue
    <3> QED BY <2>1, <2>2, <2>3, <1>4, <3>1, <3>2 DEF GoesOn, Terminated
  <2>4. ASSUME StepAndPreempt PROVE GoesOn
    <3>1. Preempts /\ ~DispatchRefused(Executed.ctx) /\ Dispatch(Executed.ctx)
      BY <2>4 DEF Preempts, StepAndPreempt
    <3>2. /\ Dispatched
          /\ pstate' = [[pstate EXCEPT ![runningPid] = "Ready"]
                           EXCEPT ![runningPid'] = "Running"]
      BY <1>3, <1>4, <3>1, PreemptEstablishes
    <3>3. runningPid' \in Ready \cup {runningPid} /\ runningPid' \in Pid
      BY <1>3, <1>4, <3>1, <3>2, PreemptTarget DEF Dispatched
    <3>4. Terminated' = Terminated
      BY <1>4, <1>6, <3>2, <3>3 DEF Terminated, Ready
    <3> QED BY <2>1, <2>2, <2>4, <3>1, <3>3, <3>4 DEF GoesOn
  <2>5. GoesOn
    BY <1>7, <2>3, <2>4
  <2> QED BY <1>1, <1>2, <1>3, <1>4, <1>5, <2>5, InstructionOnMachine
<1>8. CASE StepAndTerminate
  <2>1. /\ Executed.out \in Endings
        /\ result' = [result EXCEPT ![runningPid] = TerminationResult(Executed)]
    BY <1>8 DEF StepAndTerminate
  <2>2. /\ Terminates /\ ~Preempts /\ (Ran <=> Executed.out # "done")
        /\ (Faults <=> Executed.out = "fault")
    BY <1>1, <2>1 DEF Ran, Terminates, Faults, Preempts, Endings
  <2>3. /\ runningPid' \in 0 .. NumProcs /\ runningPid' # runningPid
        /\ Terminated' = Terminated \cup {runningPid}
    <3>1. CASE Ready = {}
      <4>1. /\ runningPid' = 0
            /\ pstate' = [pstate EXCEPT ![runningPid] = "Terminated"]
        BY <1>8, <3>1 DEF StepAndTerminate, HasSuccessor
      <4>2. Terminated' = Terminated \cup {runningPid}
        BY <1>4, <1>6, <4>1 DEF Terminated
      <4> QED BY <1>4, <1>6, <4>1, <4>2, RuntimeAssumption
    <3>2. CASE Ready # {}
      <4>1. DispatchTo([pstate EXCEPT ![runningPid] = "Terminated"],
                       [saved EXCEPT ![runningPid] = Executed.ctx],
                       Ready, lastSelected)
        BY <1>8, <3>2 DEF StepAndTerminate, HasSuccessor
      <4>2. /\ Dispatched
            /\ runningPid' \in Ready
            /\ pstate' = [[pstate EXCEPT ![runningPid] = "Terminated"]
                             EXCEPT ![runningPid'] = "Running"]
        BY <1>3, <1>4, <3>2, <4>1, HandoffEstablishes
      <4>3. runningPid' \in Pid /\ runningPid' # runningPid /\ pstate[runningPid'] = "Ready"
        BY <1>4, <4>2 DEF Ready
      <4>4. Terminated' = Terminated \cup {runningPid}
        BY <1>4, <1>6, <4>2, <4>3 DEF Terminated
      <4> QED BY <1>6, <4>3, <4>4
    <3> QED BY <3>1, <3>2
  <2>4. Executed.out = "done" => Executed.ctx = cpu.ctx
    BY <1>3, ContextKept
  <2>5. Ends
    BY <1>8, <2>1, <2>2, <2>3, <2>4 DEF Ends
  <2> QED BY <1>1, <1>2, <1>3, <1>4, <1>5, <2>5, InstructionOnMachine
<1> QED BY <1>2, <1>7, <1>8

\* A sequence and its extension by one record.
LEMMA AppendFacts ==
    ASSUME NEW T, NEW s \in Seq(T), NEW e \in T
    PROVE  /\ Append(s, e) \in Seq(T)
           /\ Len(s) \in Nat /\ Len(Append(s, e)) = Len(s) + 1
           /\ DOMAIN s = 1 .. Len(s) /\ DOMAIN Append(s, e) = 1 .. Len(s) + 1
           /\ \A i \in 1 .. Len(s) : Append(s, e)[i] = s[i]
           /\ Append(s, e)[Len(s) + 1] = e
           /\ Range(s) \subseteq T
           /\ Range(Append(s, e)) = Range(s) \cup {e}
<1>1. /\ Append(s, e) \in Seq(T)
      /\ Len(s) \in Nat /\ Len(Append(s, e)) = Len(s) + 1
      /\ DOMAIN s = 1 .. Len(s) /\ DOMAIN Append(s, e) = 1 .. Len(s) + 1
      /\ \A i \in 1 .. Len(s) : Append(s, e)[i] = s[i]
      /\ Append(s, e)[Len(s) + 1] = e
  OBVIOUS
<1>2. Range(s) \subseteq T
  BY DEF Range
<1> DEFINE t == Append(s, e)
           n == Len(s)
<1>3. /\ DOMAIN t = 1 .. n + 1 /\ DOMAIN s = 1 .. n /\ n \in Nat
      /\ \A i \in 1 .. n : t[i] = s[i]
      /\ t[n + 1] = e
  BY <1>1
<1> HIDE DEF t, n
<1>4. 1 .. n + 1 = (1 .. n) \cup {n + 1}
  BY <1>3
<1>5. Range(t) = Range(s) \cup {e}
  <2>1. Range(t) = {t[i] : i \in (1 .. n) \cup {n + 1}}
    BY <1>3, <1>4 DEF Range
  <2>2. Range(s) = {s[i] : i \in 1 .. n}
    BY <1>3 DEF Range
  <2> QED BY <1>3, <2>1, <2>2
<1> QED BY <1>1, <1>2, <1>5 DEF t

\* The records of one iteration of the loop have their types.
LEMMA RecordsTyped ==
    ASSUME LoopInv, TraceTypeOK, RunnerStep
    PROVE  /\ ExecutionRecord \in EventType
           /\ InterruptRecord \in InterruptType
           /\ SwitchRecord \in SwitchType
<1>1. /\ runningPid \in Pid /\ cpu.ctx \in Context /\ Executed.ctx \in Context
      /\ runningPid' \in 0 .. NumProcs
  <2>1. Pid \subseteq 0 .. NumProcs
    BY RuntimeAssumption DEF Pid
  <2> QED BY <2>1, StepOutcome DEF GoesOn, Ends
<1>2. cpu.ctx.pc \in Nat /\ Executed.ctx.pc \in Nat /\ Executed.ctx.reg \in Int
  BY <1>1, GuestAssumption DEF Context, Value
<1>3. lifecycleSteps + 1 \in Nat
  BY DEF TraceTypeOK
<1>4. ExecutionRecord \in EventType
  BY <1>1, <1>2, <1>3 DEF ExecutionRecord, EventType
<1>5. (Executed.out = "exit") \in BOOLEAN /\ Preempts \in BOOLEAN
      /\ Terminates \in BOOLEAN
  BY DEF Preempts, Terminates
<1>6. InterruptRecord \in InterruptType
  BY <1>1, <1>2, <1>3, <1>5 DEF InterruptRecord, InterruptType
<1>7. SwitchRecord \in SwitchType
  BY <1>1, <1>3, <1>5 DEF SwitchRecord, SwitchType
<1> QED BY <1>4, <1>6, <1>7

\* The loop keeps the types of the trace.
LEMMA TraceTyped == RunnerSpec => []TraceTypeOK
<1>1. RunnerInit => TraceTypeOK
  BY DEF RunnerInit, TraceTypeOK
<1>2. LoopInv /\ TraceTypeOK /\ [RunnerNext]_runnerVars => TraceTypeOK'
  <2> SUFFICES ASSUME LoopInv, TraceTypeOK, [RunnerNext]_runnerVars
               PROVE  TraceTypeOK'
    OBVIOUS
  <2>1. CASE RunnerStep
    <3>1. Record
      BY <2>1 DEF RunnerStep
    <3>3. /\ lifecycleSteps' \in Nat /\ preemptionCount' \in Nat
          /\ contextSwitchCount' \in Nat /\ terminationCount' \in Nat
          /\ faultCount' \in Nat
      BY <3>1 DEF Record, TraceTypeOK, Count
    <3>4. /\ executionTrace' \in Seq(EventType)
          /\ softwareInterrupts' \in Seq(InterruptType)
          /\ contextSwitches' \in Seq(SwitchType)
      <4>0. /\ executionTrace \in Seq(EventType)
            /\ softwareInterrupts \in Seq(InterruptType)
            /\ contextSwitches \in Seq(SwitchType)
        BY DEF TraceTypeOK
      <4>1. /\ executionTrace' = AppendIf(Ran, executionTrace, ExecutionRecord)
            /\ softwareInterrupts' = AppendIf(Observed, softwareInterrupts, InterruptRecord)
            /\ contextSwitches' = AppendIf(runningPid' # runningPid, contextSwitches,
                                           SwitchRecord)
        BY <3>1 DEF Record
      <4>2. /\ ExecutionRecord \in EventType /\ InterruptRecord \in InterruptType
            /\ SwitchRecord \in SwitchType
        BY <2>1, RecordsTyped
      <4>a. ASSUME NEW T, NEW s \in Seq(T), NEW r \in T
            PROVE  Append(s, r) \in Seq(T)
        OBVIOUS
      <4>3. executionTrace' \in Seq(EventType)
        BY <4>0, <4>1, <4>2, <4>a, Zenon DEF AppendIf
      <4>4. softwareInterrupts' \in Seq(InterruptType)
        BY <4>0, <4>1, <4>2, <4>a, Zenon DEF AppendIf
      <4>5. contextSwitches' \in Seq(SwitchType)
        BY <4>0, <4>1, <4>2, <4>a, Zenon DEF AppendIf
      <4> QED BY <4>3, <4>4, <4>5
    <3> QED BY <3>3, <3>4 DEF TraceTypeOK
  <2>2. CASE UNCHANGED traceVars
    BY <2>2 DEF traceVars, TraceTypeOK
  <2> QED BY <2>1, <2>2 DEF RunnerNext, RunnerStart, RunnerThrows, RunnerReturns,
        runnerVars
<1> QED BY <1>1, <1>2, RunnerKeepsLoopInv, PTL DEF RunnerSpec

-------------------------------------------------------------------------------

\* The quanta spent: on the preemptions served, on a request that still waits,
\* and the part of the current interval that has passed.
QuantaArePaid ==
    (preemptionCount + pending) * Quantum + ticks <= Len(executionTrace)

\* The timer after one tick: a full interval becomes a request.
LEMMA TickPays ==
    ASSUME RuntimeInv, NEW n \in Nat, NEW len \in Nat,
           n * Quantum + ticks <= len
    PROVE  (n + (IF NextTicks = 0 THEN 1 ELSE 0)) * Quantum + NextTicks <= len + 1
<1>1. ticks \in 0 .. Quantum - 1 /\ Quantum \in Nat \ {0}
  BY RuntimeAssumption DEF RuntimeInv, TypeOK
<1> DEFINE q == n * Quantum
<1>2. q \in Nat /\ (n + 1) * Quantum = q + Quantum /\ (n + 0) * Quantum = q
  BY <1>1
<1> HIDE DEF q
<1>3. q + ticks <= len
  BY DEF q
<1>4. CASE ticks = Quantum - 1
  <2>1. NextTicks = 0
    BY <1>1, <1>4 DEF NextTicks
  <2> QED BY <1>1, <1>2, <1>3, <1>4, <2>1
<1>5. CASE ticks # Quantum - 1
  <2>1. NextTicks = ticks + 1 /\ NextTicks # 0
    BY <1>1, <1>5 DEF NextTicks
  <2> QED BY <1>1, <1>2, <1>3, <2>1
<1> QED BY <1>4, <1>5

\* Every preemption MultiProcessRunner reports was paid for by a whole quantum
\* of recorded instructions, however terminations cut the quanta.
THEOREM PreemptionsPaid == RunnerSpec => []PreemptionsArePaid
<1>1. RunnerInit => QuantaArePaid
  BY RuntimeAssumption DEF RunnerInit, Init, QuantaArePaid
<1>2. LoopInv /\ TraceTypeOK /\ QuantaArePaid /\ [RunnerNext]_runnerVars
        => QuantaArePaid'
  <2> SUFFICES ASSUME LoopInv, TraceTypeOK, QuantaArePaid, [RunnerNext]_runnerVars
               PROVE  QuantaArePaid'
    OBVIOUS
  <2> USE DEF LoopInv
  <2>0. /\ Quantum \in Nat \ {0} /\ ticks \in 0 .. Quantum - 1 /\ pending \in Nat
        /\ preemptionCount \in Nat /\ Len(executionTrace) \in Nat
        /\ executionTrace \in Seq(EventType)
        /\ PendingAtStep = 0
    BY NothingPendingAtStep, RunnerAssumption, RuntimeAssumption
       DEF RuntimeInv, TypeOK, TraceTypeOK
  <2>1. preemptionCount * Quantum + ticks <= Len(executionTrace)
    <3> DEFINE a == preemptionCount * Quantum
               c == pending * Quantum
    <3>1. a \in Nat /\ c \in Nat /\ (preemptionCount + pending) * Quantum = a + c
      BY <2>0
    <3> HIDE DEF a, c
    <3>2. a + ticks <= Len(executionTrace)
      BY <2>0, <3>1 DEF QuantaArePaid
    <3> QED BY <3>2 DEF a
  <2>2. CASE RunnerStep
    <3>1. Record
      BY <2>2 DEF RunnerStep
    <3>2. CASE GoesOn
      <4>1. /\ Len(executionTrace') = Len(executionTrace) + 1
            /\ preemptionCount' = preemptionCount + Count(Preempts)
        BY <2>0, <2>2, <3>1, <3>2, RecordsTyped, AppendFacts
           DEF Record, AppendIf, GoesOn
      <4>2. ticks' = NextTicks
        BY <3>2 DEF GoesOn, StepAndContinue, StepAndPreempt
      <4>3. preemptionCount' + pending' = preemptionCount + PendingAfterTick
        <5>1. CASE StepAndPreempt
          BY <2>0, <3>2, <4>1, <5>1 DEF GoesOn, StepAndPreempt, Count, PendingAfterTick
        <5>2. CASE StepAndContinue /\ ~StepAndPreempt
          BY <2>0, <3>2, <4>1, <5>2 DEF GoesOn, StepAndContinue, Count, PendingAfterTick
        <5> QED BY <3>2, <5>1, <5>2 DEF GoesOn
      <4>4. PendingAfterTick = IF NextTicks = 0 THEN 1 ELSE 0
        BY <2>0 DEF PendingAfterTick
      <4>5. (preemptionCount + PendingAfterTick) * Quantum + NextTicks
              <= Len(executionTrace) + 1
        BY <2>0, <2>1, <4>4, TickPays
      <4> QED BY <4>1, <4>2, <4>3, <4>5 DEF QuantaArePaid
    <3>3. CASE Ends
      <4>1. /\ preemptionCount' = preemptionCount /\ pending' = 0 /\ ticks' = ticks
        BY <2>0, <3>1, <3>3 DEF Ends, StepAndTerminate, Record, Count
      <4>2. Len(executionTrace') \in Nat /\ Len(executionTrace) <= Len(executionTrace')
        BY <2>0, <2>2, <3>1, RecordsTyped, AppendFacts DEF Record, AppendIf
      <4>3. preemptionCount + 0 = preemptionCount
        BY <2>0
      <4> DEFINE a == preemptionCount * Quantum
      <4>4. a \in Nat
        BY <2>0
      <4> HIDE DEF a
      <4>5. a + ticks <= Len(executionTrace')
        BY <2>0, <2>1, <4>2, <4>4 DEF a
      <4> QED BY <4>1, <4>3, <4>5 DEF QuantaArePaid, a
    <3> QED BY <2>2, <3>2, <3>3, StepOutcome
  <2>3. CASE RunnerStart \/ UNCHANGED runnerVars \/ RunnerReturns
    BY <2>3 DEF RunnerStart, RunnerReturns, Start, runnerVars, vars, traceVars,
                QuantaArePaid
  <2>4. CASE RunnerThrows
    <3>1. Executed.out = "wedge" /\ ~PreemptionDue(cpu.ctx, PendingAtStep)
      BY <2>4, ThrowsAtSyscall DEF RunnerThrows, StepThrows
    <3>2. /\ ticks' = ticks /\ pending' = 0 /\ preemptionCount' = preemptionCount
          /\ executionTrace' = executionTrace
      BY <2>0, <2>4, <3>1 DEF RunnerThrows, StepThrows, traceVars
    <3>3. preemptionCount + 0 = preemptionCount
      BY <2>0
    <3> QED BY <2>1, <3>2, <3>3 DEF QuantaArePaid
  <2> QED BY <2>2, <2>3, <2>4 DEF RunnerNext
<1>3. LoopInv /\ TraceTypeOK /\ QuantaArePaid => PreemptionsArePaid
  <2> SUFFICES ASSUME LoopInv, TraceTypeOK, QuantaArePaid PROVE PreemptionsArePaid
    OBVIOUS
  <2>1. /\ Quantum \in Nat \ {0} /\ ticks \in Nat /\ pending \in Nat
        /\ preemptionCount \in Nat /\ Len(executionTrace) \in Nat
    BY RuntimeAssumption DEF LoopInv, RuntimeInv, TypeOK, TraceTypeOK
  <2> DEFINE a == preemptionCount * Quantum
             c == pending * Quantum
  <2>2. a \in Nat /\ c \in Nat /\ (preemptionCount + pending) * Quantum = a + c
    BY <2>1
  <2> HIDE DEF a, c
  <2>3. a <= Len(executionTrace)
    BY <2>1, <2>2 DEF QuantaArePaid
  <2> QED BY <2>3 DEF PreemptionsArePaid, a
<1> QED BY <1>1, <1>2, <1>3, RunnerKeepsLoopInv, TraceTyped, PTL DEF RunnerSpec

-------------------------------------------------------------------------------

\* The three sequences after an iteration of the loop.
LEMMA Recorded ==
    ASSUME LoopInv, TraceTypeOK, RunnerStep
    PROVE  /\ lifecycleSteps \in Nat /\ lifecycleSteps' = lifecycleSteps + 1
           /\ executionTrace \in Seq(EventType) /\ ExecutionRecord \in EventType
           /\ softwareInterrupts \in Seq(InterruptType)
           /\ InterruptRecord \in InterruptType
           /\ contextSwitches \in Seq(SwitchType) /\ SwitchRecord \in SwitchType
           /\ Ran => executionTrace' = Append(executionTrace, ExecutionRecord)
           /\ ~Ran => executionTrace' = executionTrace
           /\ Observed => softwareInterrupts' = Append(softwareInterrupts, InterruptRecord)
           /\ ~Observed => softwareInterrupts' = softwareInterrupts
           /\ runningPid' # runningPid =>
                 contextSwitches' = Append(contextSwitches, SwitchRecord)
           /\ runningPid' = runningPid => contextSwitches' = contextSwitches
<1>1. Record
  BY DEF RunnerStep
<1>2. /\ lifecycleSteps' = lifecycleSteps + 1
      /\ executionTrace' = AppendIf(Ran, executionTrace, ExecutionRecord)
      /\ softwareInterrupts' = AppendIf(Observed, softwareInterrupts, InterruptRecord)
      /\ contextSwitches' = AppendIf(runningPid' # runningPid, contextSwitches,
                                     SwitchRecord)
  BY <1>1 DEF Record
<1>3. /\ Ran => executionTrace' = Append(executionTrace, ExecutionRecord)
      /\ ~Ran => executionTrace' = executionTrace
  BY <1>2, Zenon DEF AppendIf
<1>4. /\ Observed => softwareInterrupts' = Append(softwareInterrupts, InterruptRecord)
      /\ ~Observed => softwareInterrupts' = softwareInterrupts
  BY <1>2, Zenon DEF AppendIf
<1>5. /\ runningPid' # runningPid =>
           contextSwitches' = Append(contextSwitches, SwitchRecord)
      /\ runningPid' = runningPid => contextSwitches' = contextSwitches
  BY <1>2, Zenon DEF AppendIf
<1> QED BY <1>2, <1>3, <1>4, <1>5, RecordsTyped DEF TraceTypeOK

\* Ordered, with the number of lifecycle steps as a parameter.
OrderedTo(trace, n) ==
    /\ \A i \in DOMAIN trace : trace[i].step \in 1 .. n
    /\ \A i, j \in DOMAIN trace : i < j => trace[i].step < trace[j].step

\* A trace stays ordered when the step moves on, with or without a record.
LEMMA OrderedAppend ==
    ASSUME NEW n \in Nat, NEW T, NEW s \in Seq(T), NEW e \in T, e.step = n + 1,
           OrderedTo(s, n)
    PROVE  OrderedTo(s, n + 1) /\ OrderedTo(Append(s, e), n + 1)
<1>1. OrderedTo(s, n + 1)
  BY DEF OrderedTo
<1> DEFINE t == Append(s, e)
           m == Len(s)
<1>2. /\ m \in Nat /\ DOMAIN s = 1 .. m /\ DOMAIN t = 1 .. m + 1
      /\ \A i \in 1 .. m : t[i] = s[i]
      /\ t[m + 1] = e
  BY AppendFacts
<1> HIDE DEF t, m
<1>3. OrderedTo(t, n + 1)
  <2>1. \A i \in 1 .. m + 1 : i \in 1 .. m \/ i = m + 1
    BY <1>2
  <2>2. \A i \in DOMAIN t : t[i].step \in 1 .. n + 1
    BY <1>1, <1>2, <2>1 DEF OrderedTo
  <2>3. ASSUME NEW i \in DOMAIN t, NEW j \in DOMAIN t, i < j
        PROVE  t[i].step < t[j].step
    <3>1. i \in 1 .. m
      BY <1>2, <2>3
    <3>2. CASE j \in 1 .. m
      BY <1>2, <2>3, <3>1, <3>2 DEF OrderedTo
    <3>3. CASE j = m + 1
      BY <1>2, <3>1, <3>3 DEF OrderedTo
    <3> QED BY <1>2, <2>1, <3>2, <3>3
  <2> QED BY <2>2, <2>3 DEF OrderedTo
<1> QED BY <1>1, <1>3 DEF t

\* The three traces stay ordered by lifecycle step.
LEMMA OrderedStep ==
    ASSUME LoopInv, TraceTypeOK, RunnerStep,
           Ordered(executionTrace), Ordered(softwareInterrupts), Ordered(contextSwitches)
    PROVE  /\ Ordered(executionTrace)' /\ Ordered(softwareInterrupts)'
           /\ Ordered(contextSwitches)'
<1>1. /\ ExecutionRecord.step = lifecycleSteps + 1
      /\ InterruptRecord.step = lifecycleSteps + 1
      /\ SwitchRecord.step = lifecycleSteps + 1
  BY DEF ExecutionRecord, InterruptRecord, SwitchRecord
<1>2. /\ OrderedTo(executionTrace, lifecycleSteps)
      /\ OrderedTo(softwareInterrupts, lifecycleSteps)
      /\ OrderedTo(contextSwitches, lifecycleSteps)
  BY DEF Ordered, OrderedTo
<1> DEFINE n == lifecycleSteps + 1
<1>3. OrderedTo(executionTrace, n) /\ OrderedTo(Append(executionTrace, ExecutionRecord), n)
  BY <1>1, <1>2, Recorded, OrderedAppend
<1>4. /\ OrderedTo(softwareInterrupts, n)
      /\ OrderedTo(Append(softwareInterrupts, InterruptRecord), n)
  BY <1>1, <1>2, Recorded, OrderedAppend
<1>5. OrderedTo(contextSwitches, n) /\ OrderedTo(Append(contextSwitches, SwitchRecord), n)
  BY <1>1, <1>2, Recorded, OrderedAppend
<1>6. lifecycleSteps' = n
  BY Recorded
<1> HIDE DEF n
<1>7. OrderedTo(executionTrace', n)
  BY <1>3, Recorded
<1>8. OrderedTo(softwareInterrupts', n)
  BY <1>4, Recorded
<1>9. OrderedTo(contextSwitches', n)
  BY <1>5, Recorded
<1> QED BY <1>6, <1>7, <1>8, <1>9 DEF Ordered, OrderedTo

\* The events of a process lead from its entry point to where it stands now.
LEMMA PcStep ==
    ASSUME LoopInv, TraceTypeOK, RunnerStep, PcContinuous, TraceMatchesMachines
    PROVE  PcContinuous' /\ TraceMatchesMachines'
<1> DEFINE s == executionTrace
           t == executionTrace'
           m == Len(s)
           r == runningPid
           e == ExecutionRecord
<1>1. /\ r \in Pid /\ Machine[r] = cpu.ctx
      /\ Machine' = [Machine EXCEPT ![r] = Executed.ctx]
      /\ ~Ran => Executed.ctx = cpu.ctx
  BY StepOutcome DEF GoesOn, Ends
<1>2. e.pid = r /\ e.before = Machine[r].pc /\ e.after = Executed.ctx.pc
  BY <1>1 DEF ExecutionRecord
<1>3. DOMAIN Machine = Pid
  BY DEF Machine
<1>4. CASE ~Ran
  <2>1. t = s /\ Machine' = Machine
    BY <1>1, <1>3, <1>4, Recorded DEF Machine
  <2> QED BY <2>1 DEF PcContinuous, TraceMatchesMachines
<1>5. CASE Ran
  <2>1. /\ m \in Nat /\ DOMAIN s = 1 .. m /\ DOMAIN t = 1 .. m + 1
        /\ \A i \in 1 .. m : t[i] = s[i]
        /\ t[m + 1] = e
        /\ Range(t) = Range(s) \cup {e}
    <3>1. t = Append(s, e) /\ s \in Seq(EventType) /\ e \in EventType
      BY <1>5, Recorded
    <3> HIDE DEF s, t, e
    <3> QED BY <3>1, AppendFacts
  <2>2. \A i \in 1 .. m + 1 : i \in 1 .. m \/ i = m + 1
    BY <2>1
  <2>3. /\ \A x \in Range(s) : x.pid \in Pid
        /\ \A i, j \in 1 .. m :
             /\ i < j
             /\ s[i].pid = s[j].pid
             /\ \A k \in i + 1 .. j - 1 : s[k].pid # s[i].pid
             => s[j].before = s[i].after
    BY <2>1 DEF PcContinuous
  <2>4. \A p \in Pid :
          LET own == {i \in 1 .. m : s[i].pid = p}
          IN /\ own = {} => Machine[p].pc = 1
             /\ \A i \in own : (\A j \in own : j <= i) => Machine[p].pc = s[i].after
    BY <2>1 DEF TraceMatchesMachines
  <2> HIDE DEF s, t, m, r, e
  <2>5. \A x \in Range(t) : x.pid \in Pid
    BY <1>1, <1>2, <2>1, <2>3
  <2>6. ASSUME NEW i \in 1 .. m + 1, NEW j \in 1 .. m + 1,
               i < j, t[i].pid = t[j].pid,
               \A k \in i + 1 .. j - 1 : t[k].pid # t[i].pid
        PROVE  t[j].before = t[i].after
    <3>1. i \in 1 .. m /\ \A k \in i + 1 .. j - 1 : k \in 1 .. m
      BY <2>1, <2>6
    <3>2. CASE j \in 1 .. m
      BY <2>1, <2>3, <2>6, <3>1, <3>2
    <3>3. CASE j = m + 1
      <4>1. s[i].pid = r /\ t[i] = s[i]
        BY <1>2, <2>1, <2>6, <3>1, <3>3
      <4>2. \A k \in 1 .. m : s[k].pid = r => k <= i
        BY <2>1, <2>6, <3>1, <3>3, <4>1
      <4>3. Machine[r].pc = s[i].after
        BY <1>1, <2>4, <3>1, <4>1, <4>2
      <4> QED BY <1>2, <2>1, <3>3, <4>1, <4>3
    <3> QED BY <2>2, <3>2, <3>3
  <2>7. ASSUME NEW p \in Pid
        PROVE  LET own == {i \in 1 .. m + 1 : t[i].pid = p}
               IN /\ own = {} => Machine'[p].pc = 1
                  /\ \A i \in own : (\A j \in own : j <= i) => Machine'[p].pc = t[i].after
    <3>1. CASE p = r
      <4>1. Machine'[p].pc = e.after
        BY <1>1, <1>2, <1>3, <3>1
      <4>2. m + 1 \in 1 .. m + 1 /\ t[m + 1].pid = p
        BY <1>2, <2>1, <3>1
      <4>3. \A i \in 1 .. m + 1 : m + 1 <= i => i = m + 1
        BY <2>1
      <4> QED BY <2>1, <4>1, <4>2, <4>3
    <3>2. CASE p # r
      <4>1. Machine'[p] = Machine[p]
        BY <1>1, <1>3, <3>2
      <4>2. {i \in 1 .. m + 1 : t[i].pid = p} = {i \in 1 .. m : s[i].pid = p}
        BY <1>2, <2>1, <2>2, <3>2
      <4> QED BY <2>1, <2>4, <4>1, <4>2
    <3> QED BY <3>1, <3>2
  <2>8. PcContinuous'
    <3>1. /\ \A x \in Range(t) : x.pid \in Pid
          /\ \A i, j \in DOMAIN t :
                /\ i < j
                /\ t[i].pid = t[j].pid
                /\ \A k \in i + 1 .. j - 1 : t[k].pid # t[i].pid
                => t[j].before = t[i].after
      BY <2>1, <2>5, <2>6
    <3> QED BY <3>1 DEF PcContinuous, t
  <2>9. TraceMatchesMachines'
    BY <2>1, <2>7 DEF TraceMatchesMachines, t
  <2> QED BY <2>8, <2>9
<1> QED BY <1>4, <1>5

\* The records of the three traces after an iteration of the loop.
LEMMA RecordedRange ==
    ASSUME LoopInv, TraceTypeOK, RunnerStep
    PROVE  /\ Ran => Range(executionTrace') = Range(executionTrace) \cup {ExecutionRecord}
           /\ ~Ran => Range(executionTrace') = Range(executionTrace)
           /\ Observed => Range(softwareInterrupts')
                            = Range(softwareInterrupts) \cup {InterruptRecord}
           /\ ~Observed => Range(softwareInterrupts') = Range(softwareInterrupts)
           /\ runningPid' # runningPid =>
                Range(contextSwitches') = Range(contextSwitches) \cup {SwitchRecord}
           /\ runningPid' = runningPid => Range(contextSwitches') = Range(contextSwitches)
<1>1. executionTrace \in Seq(EventType) /\ ExecutionRecord \in EventType
  BY Recorded
<1>2. Range(Append(executionTrace, ExecutionRecord))
        = Range(executionTrace) \cup {ExecutionRecord}
  BY <1>1, AppendFacts
<1>3. softwareInterrupts \in Seq(InterruptType) /\ InterruptRecord \in InterruptType
  BY Recorded
<1>4. Range(Append(softwareInterrupts, InterruptRecord))
        = Range(softwareInterrupts) \cup {InterruptRecord}
  BY <1>3, AppendFacts
<1>5. contextSwitches \in Seq(SwitchType) /\ SwitchRecord \in SwitchType
  BY Recorded
<1>6. Range(Append(contextSwitches, SwitchRecord))
        = Range(contextSwitches) \cup {SwitchRecord}
  BY <1>5, AppendFacts
<1> QED BY <1>2, <1>4, <1>6, Recorded

\* Every software interrupt observed has its instruction; one that ends a
\* process has its handoff and its exit code.
LEMMA InterruptsStep ==
    ASSUME LoopInv, TraceTypeOK, RunnerStep, InterruptsExplained
    PROVE  InterruptsExplained'
<1> DEFINE r == runningPid
           Explained(x) == /\ x.pid \in Pid
                           /\ \E e \in Range(executionTrace) : e.step = x.step /\ e.pid = x.pid
                           /\ x.exits => /\ \E s \in Range(contextSwitches) :
                                              s.step = x.step /\ s.from = x.pid /\ s.terminated
                                         /\ result[x.pid] # NoResult
                                         /\ result[x.pid].code = x.code
           ExplainedNext(x) ==
                           /\ x.pid \in Pid
                           /\ \E e \in Range(executionTrace') : e.step = x.step /\ e.pid = x.pid
                           /\ x.exits => /\ \E s \in Range(contextSwitches') :
                                              s.step = x.step /\ s.from = x.pid /\ s.terminated
                                         /\ result'[x.pid] # NoResult
                                         /\ result'[x.pid].code = x.code
<1>1. r \in Pid /\ result[r] = NoResult /\ (GoesOn \/ Ends)
  BY StepOutcome
<1>2. /\ Range(executionTrace) \subseteq Range(executionTrace')
      /\ Ran => ExecutionRecord \in Range(executionTrace')
  BY RecordedRange
<1>3. /\ Range(contextSwitches) \subseteq Range(contextSwitches')
      /\ runningPid' # runningPid => SwitchRecord \in Range(contextSwitches')
  BY RecordedRange
<1>4. /\ Range(softwareInterrupts') \subseteq Range(softwareInterrupts) \cup {InterruptRecord}
      /\ ~Observed => Range(softwareInterrupts') = Range(softwareInterrupts)
  BY RecordedRange
<1>5. \A p \in Pid \ {r} : result'[p] = result[p]
  BY <1>1 DEF GoesOn, Ends, LoopInv, RuntimeInv, TypeOK
<1>6. \A x \in Range(softwareInterrupts) : Explained(x)
  BY DEF InterruptsExplained, Range
<1>7. ASSUME NEW x \in Range(softwareInterrupts)
      PROVE  ExplainedNext(x)
  <2>1. Explained(x)
    BY <1>6
  <2>2. x.exits => x.pid # r
    BY <1>1, <2>1
  <2> QED BY <1>2, <1>3, <1>5, <2>1, <2>2
<1>8. ASSUME Observed PROVE ExplainedNext(InterruptRecord)
  <2>1. /\ InterruptRecord.step = lifecycleSteps + 1 /\ InterruptRecord.pid = r
        /\ InterruptRecord.code = Executed.ctx.reg
        /\ InterruptRecord.exits = (Executed.out = "exit")
    BY DEF InterruptRecord
  <2>2. /\ ExecutionRecord.step = lifecycleSteps + 1 /\ ExecutionRecord.pid = r
        /\ ExecutionRecord \in Range(executionTrace')
    BY <1>2, <1>8 DEF ExecutionRecord, Observed
  <2>3. ASSUME Executed.out = "exit"
        PROVE  /\ \E s \in Range(contextSwitches') :
                    s.step = lifecycleSteps + 1 /\ s.from = r /\ s.terminated
               /\ result'[r] # NoResult
               /\ result'[r].code = Executed.ctx.reg
    <3>1. /\ Terminates /\ runningPid' # runningPid
          /\ result' = [result EXCEPT ![r] = TerminationResult(Executed)]
      BY <1>1, <2>3 DEF GoesOn, Ends
    <3>2. /\ SwitchRecord \in Range(contextSwitches')
          /\ SwitchRecord.step = lifecycleSteps + 1 /\ SwitchRecord.from = r
          /\ SwitchRecord.terminated = Terminates
      BY <1>3, <3>1 DEF SwitchRecord
    <3>3. result'[r] = TerminationResult(Executed)
      BY <1>1, <3>1 DEF LoopInv, RuntimeInv, TypeOK
    <3>4. /\ TerminationResult(Executed).kind = "NormalExit"
          /\ TerminationResult(Executed).code = Executed.ctx.reg
      BY <2>3 DEF TerminationResult
    <3>5. result'[r] # NoResult
      BY <3>3, <3>4 DEF NoResult
    <3>6. SwitchRecord.terminated
      BY <3>1, <3>2, Zenon
    <3> QED BY <3>2, <3>3, <3>4, <3>5, <3>6
  <2>4. \E e \in Range(executionTrace') : e.step = InterruptRecord.step
                                          /\ e.pid = InterruptRecord.pid
    BY <2>1, <2>2
  <2>5. InterruptRecord.exits => Executed.out = "exit"
    BY <2>1, Zenon
  <2> HIDE DEF r
  <2> QED BY <1>1, <2>1, <2>3, <2>4, <2>5
<1>9. \A x \in Range(softwareInterrupts') : ExplainedNext(x)
  BY <1>4, <1>7, <1>8
<1> QED BY <1>9 DEF InterruptsExplained, Range

\* Every context switch recorded has one cause, and only a termination leaves
\* nobody running.
LEMMA SwitchesStep ==
    ASSUME LoopInv, TraceTypeOK, RunnerStep, SwitchesExplained
    PROVE  SwitchesExplained'
<1> DEFINE OneCause(s) == /\ s.from \in Pid
                          /\ s.to \in Pid \cup {0}
                          /\ s.from # s.to
                          /\ ~(s.preempted /\ s.terminated)
                          /\ s.to = 0 => s.terminated
<1>1. /\ Range(contextSwitches') \subseteq Range(contextSwitches) \cup {SwitchRecord}
      /\ runningPid' = runningPid => Range(contextSwitches') = Range(contextSwitches)
  BY RecordedRange
<1>2. ASSUME runningPid' # runningPid PROVE OneCause(SwitchRecord)
  <2>1. /\ SwitchRecord.from = runningPid /\ SwitchRecord.to = runningPid'
        /\ SwitchRecord.preempted = Preempts /\ SwitchRecord.terminated = Terminates
    BY DEF SwitchRecord
  <2>2. /\ runningPid \in Pid /\ runningPid' \in Pid \cup {0}
        /\ ~(Preempts /\ Terminates)
        /\ runningPid' = 0 => Terminates
    <3>1. 0 .. NumProcs = Pid \cup {0} /\ 0 \notin Pid
      BY RuntimeAssumption DEF Pid
    <3> QED BY <3>1, StepOutcome DEF GoesOn, Ends
  <2>3. /\ SwitchRecord.preempted => Preempts
        /\ SwitchRecord.terminated => Terminates
        /\ Terminates => SwitchRecord.terminated
    BY <2>1, Zenon
  <2> QED BY <1>2, <2>1, <2>2, <2>3
<1>3. \A s \in Range(contextSwitches) : OneCause(s)
  BY DEF SwitchesExplained
<1>4. \A s \in Range(contextSwitches') : OneCause(s)
  BY <1>1, <1>2, <1>3
<1> QED BY <1>4 DEF SwitchesExplained

\* Adding a new element to a set of positions or of processes.
LEMMA CardinalityGrows ==
    ASSUME NEW n \in Nat, NEW S \in SUBSET (1 .. n), NEW x, x \notin S
    PROVE  /\ IsFiniteSet(S) /\ Cardinality(S) \in Nat
           /\ Cardinality(S) <= n
           /\ Cardinality(S \cup {x}) = Cardinality(S) + 1
<1>1. IsFiniteSet(1 .. n) /\ Cardinality(1 .. n) = n
  BY FS_Interval
<1>2. IsFiniteSet(S) /\ Cardinality(S) <= n
  BY <1>1, FS_Subset
<1>3. Cardinality(S) \in Nat
  BY <1>2, FS_CardinalityType
<1>4. Cardinality(S \cup {x}) = Cardinality(S) + 1
  BY <1>2, FS_AddElement
<1> QED BY <1>2, <1>3, <1>4

\* The switches with a given cause, after one more switch.
LEMMA CausesAppend ==
    ASSUME NEW s \in Seq(SwitchType), NEW e \in SwitchType
    PROVE  LET t == Append(s, e)
               pre == {i \in DOMAIN s : s[i].preempted}
               ter == {i \in DOMAIN s : s[i].terminated}
           IN /\ {i \in DOMAIN t : t[i].preempted} =
                   IF e.preempted THEN pre \cup {Len(s) + 1} ELSE pre
              /\ {i \in DOMAIN t : t[i].terminated} =
                   IF e.terminated THEN ter \cup {Len(s) + 1} ELSE ter
              /\ pre \in SUBSET (1 .. Len(s)) /\ ter \in SUBSET (1 .. Len(s))
              /\ Len(s) \in Nat /\ Len(s) + 1 \notin pre /\ Len(s) + 1 \notin ter
<1> DEFINE t == Append(s, e)
           n == Len(s)
<1>1. /\ n \in Nat /\ DOMAIN s = 1 .. n /\ DOMAIN t = 1 .. n + 1
      /\ \A i \in 1 .. n : t[i] = s[i]
      /\ t[n + 1] = e
  BY AppendFacts
<1> HIDE DEF t, n
<1>2. 1 .. n + 1 = (1 .. n) \cup {n + 1} /\ n + 1 \notin 1 .. n
  BY <1>1
<1>3. {i \in (1 .. n) \cup {n + 1} : t[i].preempted} =
        IF e.preempted THEN {i \in 1 .. n : s[i].preempted} \cup {n + 1}
        ELSE {i \in 1 .. n : s[i].preempted}
  BY <1>1
<1>4. {i \in (1 .. n) \cup {n + 1} : t[i].terminated} =
        IF e.terminated THEN {i \in 1 .. n : s[i].terminated} \cup {n + 1}
        ELSE {i \in 1 .. n : s[i].terminated}
  BY <1>1
<1> QED BY <1>1, <1>2, <1>3, <1>4 DEF t, n

Faulted == {p \in Terminated : result[p].kind = "CpuFault"}

\* The counters of the result agree with the table and with the trace.
LEMMA CountsStep ==
    ASSUME LoopInv, TraceTypeOK, RunnerStep, CountsMatch
    PROVE  CountsMatch'
<1> DEFINE r == runningPid
           s == contextSwitches
           pre == {i \in DOMAIN s : s[i].preempted}
           ter == {i \in DOMAIN s : s[i].terminated}
           preN == {i \in DOMAIN s' : s'[i].preempted}
           terN == {i \in DOMAIN s' : s'[i].terminated}
<1>1. /\ r \in Pid /\ r \notin Terminated /\ (GoesOn \/ Ends)
  BY StepOutcome
<1>2. /\ terminationCount \in Nat /\ faultCount \in Nat
      /\ preemptionCount \in Nat /\ contextSwitchCount \in Nat
      /\ contextSwitchCount <= preemptionCount
      /\ terminationCount = Cardinality(Terminated)
      /\ faultCount = Cardinality(Faulted)
      /\ contextSwitchCount = Cardinality(pre)
      /\ terminationCount = Cardinality(ter)
  BY DEF CountsMatch, TraceTypeOK, Faulted
<1>3. /\ preemptionCount' = preemptionCount + Count(Preempts)
      /\ contextSwitchCount' =
           contextSwitchCount + Count(Preempts /\ runningPid' # runningPid)
      /\ terminationCount' = terminationCount + Count(Terminates)
      /\ faultCount' = faultCount + Count(Faults)
  BY DEF RunnerStep, Record
<1>4. s \in Seq(SwitchType) /\ SwitchRecord \in SwitchType
  BY Recorded
<1>5. /\ Terminated \in SUBSET (1 .. NumProcs) /\ Faulted \in SUBSET (1 .. NumProcs)
      /\ Terminated' \in SUBSET (1 .. NumProcs) /\ Faulted' \in SUBSET (1 .. NumProcs)
      /\ Faulted \subseteq Terminated /\ Faulted' \subseteq Terminated'
      /\ NumProcs \in Nat
  BY RuntimeAssumption DEF Terminated, Faulted, Pid
<1>6. /\ SwitchRecord.preempted = Preempts
      /\ SwitchRecord.terminated = Terminates
  BY DEF SwitchRecord
<1>7. /\ terminationCount' = Cardinality(Terminated')
      /\ faultCount' = Cardinality(Faulted')
  <2>1. CASE GoesOn
    <3>1. Terminated' = Terminated /\ Faulted' = Faulted
      BY <2>1 DEF GoesOn, Faulted
    <3>2. ~Terminates /\ ~Faults
      BY <2>1 DEF GoesOn
    <3>3. terminationCount' = terminationCount /\ faultCount' = faultCount
      BY <1>2, <1>3, <3>2 DEF Count
    <3> QED BY <1>2, <3>1, <3>3
  <2>2. CASE Ends
    <3>1. Terminated' = Terminated \cup {r} /\ terminationCount' = terminationCount + 1
      BY <1>3, <2>2 DEF Ends, Count
    <3>2. Cardinality(Terminated') = Cardinality(Terminated) + 1
      BY <1>1, <1>5, <3>1, CardinalityGrows
    <3>3. /\ result' = [result EXCEPT ![r] = TerminationResult(Executed)]
          /\ result \in [Pid -> Results]
          /\ Terminated \in SUBSET Pid
          /\ (TerminationResult(Executed).kind = "CpuFault") <=> Faults
      BY <2>2 DEF Ends, Endings, TerminationResult, LoopInv, RuntimeInv, TypeOK, Terminated
    <3>4. Faulted' = IF Faults THEN Faulted \cup {r} ELSE Faulted
      <4>1. \A p \in Terminated : result'[p] = result[p]
        BY <1>1, <3>3
      <4>2. result'[r].kind = TerminationResult(Executed).kind
        BY <1>1, <3>3
      <4>3. Faulted' = {p \in Terminated \cup {r} : result'[p].kind = "CpuFault"}
        BY <3>1 DEF Faulted
      <4>4. Faults => r \in Faulted'
        BY <3>3, <4>2, <4>3
      <4>5. ~Faults => r \notin Faulted'
        BY <3>3, <4>2, <4>3
      <4>6. \A p \in Terminated : p \in Faulted' <=> p \in Faulted
        BY <4>1, <4>3 DEF Faulted
      <4>7. Faulted' \subseteq Terminated \cup {r} /\ Faulted \subseteq Terminated
        BY <4>3 DEF Faulted
      <4> QED BY <1>1, <4>4, <4>5, <4>6, <4>7
    <3>5. r \notin Faulted
      BY <1>1, <1>5
    <3>6. Faults => Cardinality(Faulted') = Cardinality(Faulted) + 1
      BY <1>5, <3>4, <3>5, CardinalityGrows
    <3>7. faultCount' = Cardinality(Faulted')
      <4>1. CASE Faults
        BY <1>2, <1>3, <3>6, <4>1 DEF Count
      <4>2. CASE ~Faults
        <5>1. Faulted' = Faulted
          BY <3>4, <4>2
        <5>2. faultCount' = faultCount
          BY <1>2, <1>3, <4>2 DEF Count
        <5> QED BY <1>2, <5>1, <5>2
      <4> QED BY <4>1, <4>2
    <3> QED BY <1>2, <3>1, <3>2, <3>7
  <2> QED BY <1>1, <2>1, <2>2
<1>8. contextSwitchCount' = Cardinality(preN) /\ terminationCount' = Cardinality(terN)
  <2>0. /\ pre \in SUBSET (1 .. Len(s)) /\ ter \in SUBSET (1 .. Len(s))
        /\ Len(s) \in Nat /\ Len(s) + 1 \notin pre /\ Len(s) + 1 \notin ter
    BY <1>4, CausesAppend
  <2>a. /\ Cardinality(pre \cup {Len(s) + 1}) = Cardinality(pre) + 1
        /\ Cardinality(ter \cup {Len(s) + 1}) = Cardinality(ter) + 1
    <3> HIDE DEF pre, ter
    <3> QED BY <2>0, CardinalityGrows
  <2>1. CASE runningPid' = runningPid
    <3>1. GoesOn /\ s' = s
      BY <1>1, <2>1, Recorded DEF Ends
    <3>2. preN = pre /\ terN = ter
      BY <3>1
    <3> HIDE DEF pre, ter, preN, terN
    <3> QED BY <1>2, <1>3, <2>1, <3>1, <3>2 DEF Count, GoesOn
  <2>2. CASE runningPid' # runningPid
    <3>1. s' = Append(s, SwitchRecord)
      BY <2>2, Recorded
    <3>2. /\ preN = IF SwitchRecord.preempted THEN pre \cup {Len(s) + 1} ELSE pre
          /\ terN = IF SwitchRecord.terminated THEN ter \cup {Len(s) + 1} ELSE ter
      <4> DEFINE e == SwitchRecord
      <4>1. e \in SwitchType /\ s' = Append(s, e)
        BY <1>4, <3>1
      <4> HIDE DEF e, s
      <4>2. /\ preN = IF e.preempted THEN pre \cup {Len(s) + 1} ELSE pre
            /\ terN = IF e.terminated THEN ter \cup {Len(s) + 1} ELSE ter
        BY <1>4, <4>1, CausesAppend
      <4> QED BY <4>2 DEF e
    <3>3. /\ preN = IF Preempts THEN pre \cup {Len(s) + 1} ELSE pre
          /\ terN = IF Terminates THEN ter \cup {Len(s) + 1} ELSE ter
      <4> HIDE DEF pre, ter, preN, terN
      <4> QED BY <1>6, <3>2, Zenon
    <3> HIDE DEF pre, ter, preN, terN
    <3>4. CASE GoesOn
      BY <1>2, <1>3, <2>2, <2>a, <3>3, <3>4 DEF Count, GoesOn
    <3>5. CASE Ends
      BY <1>2, <1>3, <2>2, <2>a, <3>3, <3>5 DEF Count, Ends
    <3> QED BY <1>1, <3>4, <3>5
  <2> QED BY <2>1, <2>2
<1>9. contextSwitchCount' <= preemptionCount'
  BY <1>2, <1>3 DEF Count
<1>10. faultCount' <= terminationCount' /\ terminationCount' <= NumProcs
  <2>1. IsFiniteSet(1 .. NumProcs) /\ Cardinality(1 .. NumProcs) = NumProcs
    BY <1>5, FS_Interval
  <2>2. IsFiniteSet(Terminated') /\ Cardinality(Terminated') <= NumProcs
    BY <1>5, <2>1, FS_Subset
  <2>3. Cardinality(Faulted') <= Cardinality(Terminated')
    BY <1>5, <2>2, FS_Subset
  <2> QED BY <1>7, <2>2, <2>3
<1> QED BY <1>7, <1>8, <1>9, <1>10 DEF CountsMatch, Faulted

-------------------------------------------------------------------------------

\* f is the timeline of n lifecycle steps of the two traces.
IsTimeline(f, n, execution, switches) ==
    f = [k \in 0 .. n |->
           IF k = 0 THEN [pid |-> 0, ok |-> TRUE]
           ELSE TimelineStep(RecordsAt(execution, k), RecordsAt(switches, k), f[k - 1])]

\* What each step of a timeline is.
LEMMA TimelineEquation ==
    ASSUME NEW n \in Nat, NEW ex, NEW sw, NEW f, IsTimeline(f, n, ex, sw)
    PROVE  /\ f[0] = [pid |-> 0, ok |-> TRUE]
           /\ \A k \in 1 .. n :
                f[k] = TimelineStep(RecordsAt(ex, k), RecordsAt(sw, k), f[k - 1])
<1>1. \A k \in 0 .. n :
        f[k] = IF k = 0 THEN [pid |-> 0, ok |-> TRUE]
               ELSE TimelineStep(RecordsAt(ex, k), RecordsAt(sw, k), f[k - 1])
  BY DEF IsTimeline
<1>2. 0 \in 0 .. n /\ \A k \in 1 .. n : k \in 0 .. n /\ k # 0
  OBVIOUS
<1> QED BY <1>1, <1>2, Zenon

\* Two traces have one timeline: the first step at which two would differ
\* follows a step at which they agree.
LEMMA TimelineUnique ==
    ASSUME NEW n \in Nat, NEW ex, NEW sw, NEW f, NEW g,
           IsTimeline(f, n, ex, sw), IsTimeline(g, n, ex, sw)
    PROVE  f = g
<1> DEFINE D == {k \in 0 .. n : f[k] # g[k]}
<1>1. /\ DOMAIN f = 0 .. n /\ DOMAIN g = 0 .. n
      /\ f = [k \in 0 .. n |-> f[k]] /\ g = [k \in 0 .. n |-> g[k]]
  BY DEF IsTimeline
<1>2. f[0] = [pid |-> 0, ok |-> TRUE] /\ g[0] = [pid |-> 0, ok |-> TRUE]
  BY TimelineEquation
<1>3. \A k \in 1 .. n :
        /\ f[k] = TimelineStep(RecordsAt(ex, k), RecordsAt(sw, k), f[k - 1])
        /\ g[k] = TimelineStep(RecordsAt(ex, k), RecordsAt(sw, k), g[k - 1])
  BY TimelineEquation
<1>4. D = {}
  <2> SUFFICES ASSUME D # {} PROVE FALSE
    OBVIOUS
  <2>1. D \in SUBSET Nat
    OBVIOUS
  <2> DEFINE k == MinOf(D)
  <2> HIDE DEF D
  <2>2. k \in D /\ \A y \in D : k <= y
    BY <2>1, MinOfLeast
  <2> HIDE DEF k
  <2>3. k \in 0 .. n /\ f[k] # g[k]
    BY <2>2 DEF D
  <2>4. k \in 1 .. n /\ k - 1 \in 0 .. n
    BY <1>2, <2>3
  <2>5. k - 1 \notin D
    BY <2>2, <2>4
  <2>6. f[k - 1] = g[k - 1]
    BY <2>4, <2>5 DEF D
  <2> QED BY <1>3, <2>3, <2>4, <2>6
<1> QED BY <1>1, <1>4

\* The verifier's loop computes it.
LEMMA TimelineIs ==
    ASSUME NEW n \in Nat, NEW ex, NEW sw, NEW f, IsTimeline(f, n, ex, sw)
    PROVE  TimelineOf(n, ex, sw) = f
<1> DEFINE P(h) == h = [k \in 0 .. n |->
               IF k = 0 THEN [pid |-> 0, ok |-> TRUE]
               ELSE TimelineStep(RecordsAt(ex, k), RecordsAt(sw, k), h[k - 1])]
<1>1. TimelineOf(n, ex, sw) = CHOOSE h : P(h)
  BY Zenon DEF TimelineOf
<1>2. P(f)
  BY DEF IsTimeline
<1>3. P(CHOOSE h : P(h))
  <2> HIDE DEF P
  <2> QED BY <1>2, Zenon
<1>4. IsTimeline(TimelineOf(n, ex, sw), n, ex, sw)
  BY <1>1, <1>3, Zenon DEF IsTimeline
<1> QED BY <1>4, TimelineUnique

\* One more lifecycle step extends the timeline and leaves its past alone.
LEMMA TimelineGrows ==
    ASSUME NEW n \in Nat, NEW ex, NEW sw, NEW exN, NEW swN, NEW f,
           IsTimeline(f, n, ex, sw),
           \A k \in 1 .. n : /\ RecordsAt(exN, k) = RecordsAt(ex, k)
                             /\ RecordsAt(swN, k) = RecordsAt(sw, k)
    PROVE  /\ IsTimeline(TimelineOf(n + 1, exN, swN), n + 1, exN, swN)
           /\ TimelineOf(n + 1, exN, swN)[n + 1] =
                TimelineStep(RecordsAt(exN, n + 1), RecordsAt(swN, n + 1), f[n])
<1> DEFINE last == TimelineStep(RecordsAt(exN, n + 1), RecordsAt(swN, n + 1), f[n])
           g == [k \in 0 .. n + 1 |-> IF k <= n THEN f[k] ELSE last]
<1>1. /\ f[0] = [pid |-> 0, ok |-> TRUE]
      /\ \A k \in 1 .. n :
           f[k] = TimelineStep(RecordsAt(ex, k), RecordsAt(sw, k), f[k - 1])
  BY TimelineEquation
<1>2. /\ \A k \in 0 .. n : g[k] = f[k]
      /\ g[n + 1] = last
      /\ g = [k \in 0 .. n + 1 |-> g[k]]
  OBVIOUS
<1> HIDE DEF g
<1>3. ASSUME NEW k \in 0 .. n + 1
      PROVE  g[k] = IF k = 0 THEN [pid |-> 0, ok |-> TRUE]
                    ELSE TimelineStep(RecordsAt(exN, k), RecordsAt(swN, k), g[k - 1])
  <2>1. CASE k = 0
    <3>1. 0 \in 0 .. n
      OBVIOUS
    <3> QED BY <1>1, <1>2, <2>1, <3>1, Zenon
  <2>2. CASE k \in 1 .. n
    <3>1. k - 1 \in 0 .. n /\ k \in 0 .. n /\ k # 0
      BY <2>2
    <3> QED BY <1>1, <1>2, <2>2, <3>1
  <2>3. CASE k = n + 1
    <3>1. k - 1 = n /\ n \in 0 .. n /\ k # 0
      BY <2>3
    <3> QED BY <1>2, <2>3, <3>1
  <2> QED BY <2>1, <2>2, <2>3
<1>4. IsTimeline(g, n + 1, exN, swN)
  BY <1>2, <1>3, Zenon DEF IsTimeline
<1>5. TimelineOf(n + 1, exN, swN) = g
  BY <1>4, TimelineIs
<1> QED BY <1>2, <1>4, <1>5

\* The verifier's timeline is at the process that is running, and no record
\* contradicted it.
TimelineFollows ==
    LET t == TimelineOf(lifecycleSteps, executionTrace, contextSwitches)
    IN /\ IsTimeline(t, lifecycleSteps, executionTrace, contextSwitches)
       /\ t[lifecycleSteps] =
            [pid |-> IF lifecycleSteps = 0 THEN 0 ELSE runningPid, ok |-> TRUE]

\* One lifecycle step of the timeline, from the records the runner made in it.
LEMMA TimelineStepFollows ==
    ASSUME NEW r \in Nat \ {0}, NEW rN, NEW q, q = 0 \/ q = r,
           NEW e, e.pid = r, NEW s, s.from = r, s.to = rN,
           NEW ev, ev = {} \/ ev = {e},
           NEW sw, IF rN = r THEN sw = {} ELSE sw = {s},
           ev # {} \/ sw # {}
    PROVE  TimelineStep(ev, sw, [pid |-> q, ok |-> TRUE]) = [pid |-> rN, ok |-> TRUE]
<1>1. (CHOOSE x \in {e} : TRUE) = e /\ (CHOOSE x \in {s} : TRUE) = s
  OBVIOUS
<1> DEFINE now == IF q # 0 THEN q
                  ELSE IF ev # {} THEN (CHOOSE x \in ev : TRUE).pid
                  ELSE IF sw # {} THEN (CHOOSE x \in sw : TRUE).from
                  ELSE 0
<1>2. now = r
  BY <1>1
<1>3. (IF sw # {} THEN (CHOOSE x \in sw : TRUE).to ELSE now) = rN
  BY <1>1, <1>2
<1>4. (\A x \in ev : x.pid = now) /\ (\A x \in sw : x.from = now)
  BY <1>2
<1>5. TimelineStep(ev, sw, [pid |-> q, ok |-> TRUE]) =
        [pid |-> IF sw # {} THEN (CHOOSE x \in sw : TRUE).to ELSE now,
         ok |-> /\ TRUE
                /\ \A x \in ev : x.pid = now
                /\ \A x \in sw : x.from = now]
  BY DEF TimelineStep
<1> HIDE DEF now
<1> QED BY <1>3, <1>4, <1>5, Zenon

\* The timeline follows every step of the loop.
LEMMA TimelineStepInv ==
    ASSUME LoopInv, TraceTypeOK, RunnerStep, Ordered(executionTrace),
           Ordered(contextSwitches), TimelineFollows
    PROVE  TimelineFollows'
<1> DEFINE n == lifecycleSteps
           ex == executionTrace
           sw == contextSwitches
           r == runningPid
           e == ExecutionRecord
           s == SwitchRecord
           f == TimelineOf(n, ex, sw)
<1>1. n \in Nat /\ n' = n + 1
  BY Recorded
<1>2. e.step = n + 1 /\ e.pid = r /\ s.step = n + 1 /\ s.from = r /\ s.to = r'
  BY DEF ExecutionRecord, SwitchRecord
<1>3. /\ Range(ex') = Range(ex) \cup (IF Ran THEN {e} ELSE {})
      /\ Range(sw') = Range(sw) \cup (IF r' = r THEN {} ELSE {s})
  BY RecordedRange
<1>4. /\ \A x \in Range(ex) : x.step \in 1 .. n
      /\ \A x \in Range(sw) : x.step \in 1 .. n
  BY DEF Ordered, Range
<1>5. \A k \in 1 .. n : k # n + 1
  BY <1>1
<1>6. \A k \in 1 .. n : /\ RecordsAt(ex', k) = RecordsAt(ex, k)
                        /\ RecordsAt(sw', k) = RecordsAt(sw, k)
  <2> HIDE DEF n, ex, sw, r, e, s
  <2> QED BY <1>2, <1>3, <1>5 DEF RecordsAt
<1>7. /\ RecordsAt(ex', n + 1) = IF Ran THEN {e} ELSE {}
      /\ RecordsAt(sw', n + 1) = IF r' = r THEN {} ELSE {s}
  <2> HIDE DEF n, ex, sw, r, e, s
  <2>1. /\ \A x \in Range(ex) : x.step # n + 1
        /\ \A x \in Range(sw) : x.step # n + 1
    BY <1>4, <1>5
  <2> QED BY <1>2, <1>3, <2>1 DEF RecordsAt
<1>8. /\ r \in Nat \ {0}
      /\ Ran \/ r' # r
  BY StepOutcome, RuntimeAssumption DEF Pid, GoesOn, Ends
<1>9. /\ IsTimeline(f, n, ex, sw)
      /\ f[n] = [pid |-> IF n = 0 THEN 0 ELSE r, ok |-> TRUE]
  BY DEF TimelineFollows
<1>10. /\ IsTimeline(TimelineOf(n + 1, ex', sw'), n + 1, ex', sw')
       /\ TimelineOf(n + 1, ex', sw')[n + 1] =
            TimelineStep(RecordsAt(ex', n + 1), RecordsAt(sw', n + 1), f[n])
  <2> HIDE DEF n, ex, sw, f
  <2> QED BY <1>1, <1>6, <1>9, TimelineGrows
<1>11. TimelineStep(RecordsAt(ex', n + 1), RecordsAt(sw', n + 1), f[n])
         = [pid |-> r', ok |-> TRUE]
  <2> DEFINE q == IF n = 0 THEN 0 ELSE r
             evs == RecordsAt(ex', n + 1)
             sws == RecordsAt(sw', n + 1)
  <2>1. q = 0 \/ q = r
    OBVIOUS
  <2>2. f[n] = [pid |-> q, ok |-> TRUE]
    BY <1>9
  <2>3. evs = {} \/ evs = {e}
    BY <1>7
  <2>4. IF r' = r THEN sws = {} ELSE sws = {s}
    BY <1>7
  <2>5. evs # {} \/ sws # {}
    BY <1>7, <1>8
  <2> HIDE DEF n, ex, sw, r, e, s, f, q, evs, sws
  <2>6. TimelineStep(evs, sws, [pid |-> q, ok |-> TRUE]) = [pid |-> r', ok |-> TRUE]
    BY <1>2, <1>8, <2>1, <2>3, <2>4, <2>5, TimelineStepFollows
  <2> QED BY <2>2, <2>6 DEF evs, sws
<1>12. n + 1 # 0
  BY <1>1
<1> QED BY <1>1, <1>10, <1>11, <1>12 DEF TimelineFollows

\* The inductive invariant of the runner's trace.
TraceInv ==
    /\ phase = "New" => lifecycleSteps = 0
    /\ Ordered(executionTrace)
    /\ Ordered(softwareInterrupts)
    /\ Ordered(contextSwitches)
    /\ PcContinuous
    /\ TraceMatchesMachines
    /\ InterruptsExplained
    /\ SwitchesExplained
    /\ CountsMatch
    /\ TimelineFollows

\* Before its first step the runner has an empty trace.
LEMMA TraceInvInit == RunnerInit => TraceInv
<1> SUFFICES ASSUME RunnerInit PROVE TraceInv
  OBVIOUS
<1>1. /\ lifecycleSteps = 0 /\ executionTrace = <<>> /\ softwareInterrupts = <<>>
      /\ contextSwitches = <<>> /\ preemptionCount = 0 /\ contextSwitchCount = 0
      /\ terminationCount = 0 /\ faultCount = 0 /\ runningPid = 0 /\ blocked = {}
      /\ pstate = [p \in Pid |-> IF p \in blocked THEN "Blocked" ELSE "Ready"]
      /\ saved = [p \in Pid |-> InitialContext]
  BY DEF RunnerInit, Init
<1>2. DOMAIN executionTrace = {} /\ DOMAIN softwareInterrupts = {}
      /\ DOMAIN contextSwitches = {}
  BY <1>1
<1>3. /\ Range(executionTrace) = {} /\ Range(softwareInterrupts) = {}
      /\ Range(contextSwitches) = {}
  BY <1>2, Zenon DEF Range
<1>4. /\ Ordered(executionTrace) /\ Ordered(softwareInterrupts) /\ Ordered(contextSwitches)
      /\ PcContinuous /\ InterruptsExplained /\ SwitchesExplained
  BY <1>2, <1>3, Zenon DEF Ordered, PcContinuous, InterruptsExplained, SwitchesExplained
<1>5. TraceMatchesMachines
  <2>1. \A p \in Pid : Machine[p].pc = 1
    BY <1>1, RuntimeAssumption DEF Machine, InitialContext, Pid
  <2> QED BY <1>2, <2>1, Zenon DEF TraceMatchesMachines
<1>6. CountsMatch
  <2>1. Terminated = {}
    BY <1>1 DEF Terminated
  <2>2. /\ {p \in Terminated : result[p].kind = "CpuFault"} = {}
        /\ {i \in DOMAIN contextSwitches : contextSwitches[i].preempted} = {}
        /\ {i \in DOMAIN contextSwitches : contextSwitches[i].terminated} = {}
    BY <1>2, <2>1, Zenon
  <2>3. Cardinality({}) = 0
    BY FS_EmptySet
  <2> QED BY <1>1, <2>1, <2>2, <2>3, RuntimeAssumption DEF CountsMatch
<1>7. TimelineFollows
  <2> DEFINE f == [k \in 0 .. 0 |-> [pid |-> 0, ok |-> TRUE]]
  <2>1. \A k \in 0 .. 0 : k = 0
    OBVIOUS
  <2>2. IsTimeline(f, 0, executionTrace, contextSwitches)
    BY <2>1, Zenon DEF IsTimeline
  <2>3. f[0] = [pid |-> 0, ok |-> TRUE]
    OBVIOUS
  <2> HIDE DEF f
  <2>4. TimelineOf(0, executionTrace, contextSwitches) = f
    BY <2>2, TimelineIs
  <2> QED BY <1>1, <2>2, <2>3, <2>4 DEF TimelineFollows
<1> QED BY <1>1, <1>4, <1>5, <1>6, <1>7 DEF TraceInv

\* Every iteration of the loop keeps it, and so do lifecycle.start, an
\* exception of lifecycle.step and the return.
LEMMA TraceInvNext ==
    LoopInv /\ TraceTypeOK /\ TraceInv /\ [RunnerNext]_runnerVars => TraceInv'
<1> SUFFICES ASSUME LoopInv, TraceTypeOK, TraceInv, [RunnerNext]_runnerVars
             PROVE  TraceInv'
  OBVIOUS
<1>1. CASE RunnerStep
  <2>1. phase' # "New"
    BY <1>1, StepOutcome DEF GoesOn, Ends, Active, StepAndContinue, StepAndPreempt,
       StepAndTerminate, Classify
  <2>2. /\ Ordered(executionTrace)' /\ Ordered(softwareInterrupts)'
        /\ Ordered(contextSwitches)'
    BY <1>1, OrderedStep DEF TraceInv
  <2>3. PcContinuous' /\ TraceMatchesMachines'
    BY <1>1, PcStep DEF TraceInv
  <2>4. InterruptsExplained' /\ SwitchesExplained' /\ CountsMatch'
    BY <1>1, InterruptsStep, SwitchesStep, CountsStep DEF TraceInv
  <2>5. TimelineFollows'
    BY <1>1, TimelineStepInv DEF TraceInv
  <2> QED BY <2>1, <2>2, <2>3, <2>4, <2>5 DEF TraceInv
<1>2. ASSUME UNCHANGED traceVars, UNCHANGED result,
             \A p \in Pid : Machine'[p].pc = Machine[p].pc,
             Terminated' = Terminated,
             lifecycleSteps # 0 => runningPid' = runningPid,
             phase' = "New" => lifecycleSteps = 0
      PROVE  TraceInv'
  <2>1. UNCHANGED <<lifecycleSteps, executionTrace, softwareInterrupts, contextSwitches,
                    preemptionCount, contextSwitchCount, terminationCount, faultCount>>
    BY <1>2 DEF traceVars
  <2>2. /\ Ordered(executionTrace)' /\ Ordered(softwareInterrupts)'
        /\ Ordered(contextSwitches)' /\ PcContinuous' /\ SwitchesExplained'
    BY <2>1 DEF TraceInv, Ordered, PcContinuous, SwitchesExplained
  <2>3. TraceMatchesMachines'
    BY <1>2, <2>1 DEF TraceInv, TraceMatchesMachines
  <2>4. InterruptsExplained'
    BY <1>2, <2>1 DEF TraceInv, InterruptsExplained
  <2>5. CountsMatch'
    BY <1>2, <2>1 DEF TraceInv, CountsMatch
  <2>6. TimelineFollows'
    BY <1>2, <2>1 DEF TraceInv, TimelineFollows
  <2> QED BY <1>2, <2>1, <2>2, <2>3, <2>4, <2>5, <2>6 DEF TraceInv
<1>3. CASE RunnerStart
  <2>1. /\ Start /\ UNCHANGED traceVars /\ UNCHANGED result /\ phase = "New"
        /\ lifecycleSteps = 0
    BY <1>3 DEF RunnerStart, Start, TraceInv
  <2>2. /\ runningPid = 0 /\ 0 \notin Pid /\ pstate \in [Pid -> States]
        /\ saved \in [Pid -> Context]
    BY <2>1, RuntimeAssumption DEF LoopInv, RuntimeInv, TypeOK, OneRunning, Pid
  <2>3. CASE Ready = {}
    <3>1. UNCHANGED <<pstate, saved, runningPid>>
      BY <2>1, <2>3 DEF Start
    <3>2. Machine' = Machine
      BY <2>2, <3>1 DEF Machine
    <3>3. Terminated' = Terminated
      BY <3>1 DEF Terminated
    <3> QED BY <1>2, <2>1, <3>2, <3>3
  <2>4. CASE Ready # {}
    <3>1. DispatchTo(pstate, saved, Ready, lastSelected)
      BY <2>1, <2>4 DEF Start
    <3>2. /\ Ready \in SUBSET Pid /\ lastSelected \in 0 .. NumProcs
          /\ \A p \in Pid : p \in Ready <=> pstate[p] = "Ready"
          /\ \A p \in Pid : pstate[p] # "Running"
          /\ \A p \in Ready : InCode(code[p], saved[p].pc)
      BY <2>2 DEF LoopInv, RuntimeInv, TypeOK, OneRunning, Ready, ReadyIsDispatchable
    <3>3. /\ Dispatched /\ runningPid' \in Ready /\ saved' = saved
          /\ pstate' = [pstate EXCEPT ![runningPid'] = "Running"]
      BY <2>2, <2>4, <3>1, <3>2, DispatchEstablishes
    <3>4. Terminated' = Terminated
      BY <2>2, <3>2, <3>3 DEF Terminated
    <3>5. \A p \in Pid : Machine'[p] = Machine[p]
      BY <2>2, <3>3 DEF Machine, Dispatched, Loaded
    <3> QED BY <1>2, <2>1, <3>4, <3>5
  <2> QED BY <2>3, <2>4
<1>4. CASE RunnerThrows
  <2>1. /\ Active /\ Executed.out = "wedge" /\ ~PreemptionDue(cpu.ctx, PendingAtStep)
    BY <1>4, ThrowsAtSyscall DEF RunnerThrows, StepThrows, LoopInv
  <2>2. /\ cpu' = CpuAfter(Executed) /\ UNCHANGED traceVars
        /\ UNCHANGED <<pstate, saved, result, runningPid, phase>>
    BY <1>4, <2>1 DEF RunnerThrows, StepThrows
  <2>3. Executed.ctx \in Context /\ runningPid \in Pid
    BY <2>1, ExecutedTyped DEF WellTyped, LoopInv
  <2>4. cpu'.ctx = Executed.ctx
    BY <2>2, <2>3, CpuAfterTyped DEF LoopInv
  <2>5. Executed.ctx = cpu.ctx
    BY <2>1, ContextKept DEF LoopInv
  <2>6. \A p \in Pid : Machine'[p].pc = Machine[p].pc
    BY <2>2, <2>4, <2>5 DEF Machine
  <2>7. Terminated' = Terminated
    BY <2>2 DEF Terminated
  <2>8. phase' # "New"
    BY <2>1, <2>2 DEF Active
  <2> QED BY <1>2, <2>2, <2>6, <2>7, <2>8
<1>5. CASE RunnerReturns \/ UNCHANGED runnerVars
  <2>1. UNCHANGED vars /\ UNCHANGED traceVars
    BY <1>5 DEF RunnerReturns, runnerVars
  <2>2. UNCHANGED <<pstate, saved, result, runningPid, cpu, phase>>
    BY <2>1 DEF vars
  <2>3. Machine' = Machine /\ Terminated' = Terminated
    BY <2>2 DEF Machine, Terminated
  <2>4. phase' = "New" => lifecycleSteps = 0
    BY <2>2 DEF TraceInv
  <2> QED BY <1>2, <2>1, <2>2, <2>3, <2>4
<1> QED BY <1>1, <1>3, <1>4, <1>5 DEF RunnerNext

\* The trace invariant holds of every result runImages can return.
LEMMA TraceInvariant == RunnerSpec => []TraceInv
BY TraceInvInit, TraceInvNext, RunnerKeepsLoopInv, TraceTyped, PTL DEF RunnerSpec

\* The trace of runImages is complete: for every process its events lead from
\* the entry point to the program counter it has in the CPU or in its PCB.
THEOREM TraceIsComplete == RunnerSpec => []TraceMatchesMachines
<1>1. TraceInv => TraceMatchesMachines
  BY DEF TraceInv
<1> QED BY <1>1, TraceInvariant, PTL

\* MultiProcessInvariantVerifier::verify finds no violation in any result of
\* runImages, whatever the processes do and wherever the step limit cuts.
THEOREM VerifierNeverRejects == RunnerSpec => []VerifierAccepts
<1>1. LoopInv /\ TraceInv => VerifierAccepts
  <2> SUFFICES ASSUME LoopInv, TraceInv PROVE Verify
    BY DEF VerifierAccepts
  <2>1. Timeline = [pid |-> IF lifecycleSteps = 0 THEN 0 ELSE runningPid, ok |-> TRUE]
    BY DEF TraceInv, TimelineFollows, Timeline
  <2>2. Timeline.ok
    BY <2>1
  <2>3. Timeline.pid = IF lifecycleSteps = 0 THEN 0 ELSE runningPid
    BY <2>1
  <2>4. phase = "Running" <=> runningPid # 0
    BY DEF LoopInv, RuntimeInv, OneRunning
  <2> QED BY <2>2, <2>3, <2>4 DEF TraceInv, Verify, StepLimitReached
<1> QED BY <1>1, TraceInvariant, RunnerKeepsLoopInv, PTL
===============================================================================
