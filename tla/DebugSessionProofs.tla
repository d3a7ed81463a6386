-------------------------- MODULE DebugSessionProofs --------------------------
(* The debug sessions, of several processes and of one, honour breakpoints, *)
(* conditions, watchpoints and source lines, for every set of executables,  *)
(* every quantum and every sequence of commands and edits.                  *)
EXTENDS MCMultiProcessDebugSession, ProcessRuntimeProofs

-------------------------------------------------------------------------------
(* Several processes.                                                       *)

\* An instruction at a of process p that jumps to itself.
SelfJump(p, a) ==
    /\ InCode(code[p], a)
    /\ code[p][a].op \in {"jmp", "jnz"}
    /\ code[p][a].to = a

AtBreakpoint(s) == s.reason \in {"Breakpoint", "Conditional"}

\* Types of the session's state that the arguments below rely on.
DebugTypeOK ==
    /\ skip \in [active : BOOLEAN, pid : Pid, address : Nat]
    /\ source \in [at : Nat, skip : BOOLEAN, changed : BOOLEAN, ran : BOOLEAN]
    /\ resting \in [Pid -> Nat]

\* Breakpoints and conditions were validated against the code.
PointsInCode ==
    /\ \A b \in breakpoints : InCode(code[b[1]], b[2])
    /\ \A d \in conditions : InCode(code[d.pid], d.address)

\* Before the first dispatch there is nothing to resume from.
NothingYet ==
    /\ command = "none"
    /\ ~skip.active
    /\ ~AtBreakpoint(stop)
    /\ ~source.changed
    /\ \A p \in Pid : resting[p] = 0

\* A stop at a breakpoint is where the Running process still stands.
StopRested ==
    AtBreakpoint(stop) =>
        /\ stop.pid \in Pid /\ stop.pid = runningPid
        /\ cpu.ctx.pc = stop.address /\ resting[stop.pid] = stop.address
        /\ InCode(code[stop.pid], stop.address)

\* An armed skip is for a process that was reported where it stands, or that
\* stands at an instruction that jumps to itself.
SkipRested ==
    skip.active =>
        /\ Machine[skip.pid].pc = skip.address
        /\ resting[skip.pid] = skip.address \/ SelfJump(skip.pid, skip.address)

\* A process that was reported and has not executed since is the Running one,
\* and the next command will skip its breakpoint, or the present one does.
RestingCovered ==
    \A p \in Pid : resting[p] # 0 =>
        /\ p = runningPid /\ resting[p] = cpu.ctx.pc
        /\ InCode(code[p], resting[p])
        /\ \/ skip.active /\ skip.pid = p /\ skip.address = resting[p]
           \/ /\ command = "none"
              /\ AtBreakpoint(stop) /\ stop.pid = p /\ stop.address = resting[p]

\* The flag of stepSelectedSourceLine tells the truth about the selected
\* process.
SourceMoved ==
    source.changed =>
        /\ command = "source"
        /\ Machine[selected].pc \in Mapped
        /\ Machine[selected].pc # source.at

\* The inductive invariant of the session of several processes.  Nothing is
\* claimed of the session's bookkeeping after an exception of lifecycle.step.
DebugInv ==
    /\ RuntimeInv
    /\ NoInheritedTimerRequest
    /\ DebugTypeOK
    /\ PointsInCode
    /\ phase = "New" => NothingYet
    /\ ~thrown => /\ command # "none" => phase = "Running"
                  /\ StopRested
                  /\ SkipRested
                  /\ RestingCovered
                  /\ SourceMoved

\* An instruction that goes on and leaves the program counter where it was is
\* a jump to itself.
LEMMA StandsStill ==
    ASSUME NEW prog \in Programs, NEW m \in Context, NEW h \in Value,
           Exec(prog, m, h).out = "ok", Exec(prog, m, h).ctx.pc = m.pc
    PROVE  /\ InCode(prog, m.pc)
           /\ prog[m.pc].op \in {"jmp", "jnz"}
           /\ prog[m.pc].to = m.pc
<1> DEFINE i == prog[m.pc]
           next == [m EXCEPT !.pc = m.pc + 1]
<1>1. /\ m.pc \in Nat /\ m.reg \in Value /\ m.mem \in Value
      /\ m.pc + 1 \in Nat \ {0} /\ m.pc + 1 # m.pc
  BY DEF Context
<1>2. InCode(prog, m.pc)
  <2>1. CASE ~InCode(prog, m.pc)
    BY <2>1 DEF Exec, Result
  <2> QED BY <2>1
<1>3. i \in Instr
  BY <1>2, GuestAssumption DEF InCode
<1>4. next \in Context /\ next.pc = m.pc + 1 /\ next.pc # m.pc
  BY <1>1, ContextUpdate
<1>5. ASSUME NEW c \in Context, c.pc = m.pc + 1
      PROVE  \A v \in Value : /\ [c EXCEPT !.reg = v].pc # m.pc
                              /\ [c EXCEPT !.mem = v].pc # m.pc
  BY <1>1, <1>5, ContextUpdate
<1>6. (m.reg + 1) % Word \in Value
  BY <1>1, GuestAssumption DEF Value
<1> HIDE DEF next
<1>7. i.op \notin {"inc", "ld", "st"}
  <2>1. CASE i.op = "inc"
    <3>1. Exec(prog, m, h).ctx = [next EXCEPT !.reg = (next.reg + 1) % Word]
      BY <1>2, <2>1 DEF Exec, Result, next
    <3>2. next.reg = m.reg
      BY <1>1, ContextUpdate DEF next
    <3> QED BY <1>4, <1>5, <1>6, <3>1, <3>2
  <2>2. CASE i.op = "ld"
    <3>1. Exec(prog, m, h).ctx = [next EXCEPT !.reg = m.mem]
      BY <1>2, <2>2 DEF Exec, Result, next
    <3> QED BY <1>1, <1>4, <1>5, <3>1
  <2>3. CASE i.op = "st"
    <3>1. Exec(prog, m, h).ctx = [next EXCEPT !.mem = m.reg]
      BY <1>2, <2>3 DEF Exec, Result, next
    <3> QED BY <1>1, <1>4, <1>5, <3>1
  <2> QED BY <2>1, <2>2, <2>3
<1>8. i.op \notin {"in", "out"}
  <2>1. CASE i.op \in {"in", "out"}
    <3>1. PICK v \in Value, g \in Value : Exec(prog, m, h) = Syscall(prog, m, g, v)
      BY <1>1, <1>2, <2>1 DEF Exec
    <3>2. Exec(prog, m, h).ctx = [[m EXCEPT !.pc = m.pc + 1] EXCEPT !.reg = v]
      <4>1. [m EXCEPT !.pc = @ + 1, !.reg = v]
              = [[m EXCEPT !.pc = m.pc + 1] EXCEPT !.reg = v]
        BY DEF Context
      <4> QED BY <3>1, <4>1 DEF Syscall, Result
    <3> QED BY <1>4, <1>5, <3>2 DEF next
  <2> QED BY <2>1
<1>9. i.op \notin {"exit", "trap"}
  BY <1>2 DEF Exec, Result
<1>10. i.op \in {"jmp", "jnz"}
  BY <1>3, <1>7, <1>8, <1>9 DEF Instr, Ops
<1>11. Exec(prog, m, h) = Branch(prog, m, h, i.to)
  <2>1. Exec(prog, m, h) \in {Branch(prog, m, h, i.to), Result(next, h, "ok")}
    BY <1>2, <1>10 DEF Exec, next
  <2> QED BY <1>4, <2>1 DEF Result
<1>12. i.to = m.pc
  BY <1>11 DEF Branch, Result, Context
<1> QED BY <1>2, <1>10, <1>12

\* What a lifecycle.step of the session does: the driver discarded the timer
\* requests of a process at the end of its code, so the step is always an
\* instruction of the Running process or its end.
LEMMA StepExecutes ==
    ASSUME RuntimeInv, NoInheritedTimerRequest, LifecycleStep
    PROVE  /\ Active /\ code' = code
           /\ runningPid \in Pid /\ Machine[runningPid] = cpu.ctx
           /\ Ran <=> InCode(code[runningPid], cpu.ctx.pc)
           /\ Executed.out = "wedge" => thrown' /\ Ran
           /\ ~thrown' => /\ Machine' = [Machine EXCEPT ![runningPid] = Executed.ctx]
                          /\ Executed.out = "ok" \/ pstate'[runningPid] = "Terminated"
           /\ Executed.out = "ok" => ~thrown'
           /\ thrown' => Ran
<1>1. /\ PendingAtStep = 0 /\ Driver = "runner"
  BY NothingPendingAtStep, DebugAssumption
<1>2. ~PreemptionDue(cpu.ctx, PendingAtStep)
  BY <1>1 DEF PreemptionDue
<1>3. /\ Active /\ code' = code
      /\ StepAndContinue \/ StepAndPreempt \/ StepAndTerminate \/ StepThrows
  BY <1>2 DEF LifecycleStep, PreemptBeforeStep, StepAndContinue, StepAndPreempt,
              StepAndTerminate, StepThrows
<1>4. /\ runningPid \in Pid /\ Machine[runningPid] = cpu.ctx
      /\ cpu.owner = runningPid /\ code[runningPid] \in Programs
      /\ cpu.ctx \in Context /\ WellTyped(code[runningPid], Executed)
      /\ cpu.ctx.pc \in 1 .. EndPc(code[runningPid])
  BY <1>3, ExecutedTyped DEF Machine, RuntimeInv, CursorFollows, Active
<1>5. Executed.out = "done" <=> ~InCode(code[runningPid], cpu.ctx.pc)
  <2>1. CASE ~InCode(code[runningPid], cpu.ctx.pc)
    <3>1. Len(code[runningPid]) \in Nat
      BY <1>4, GuestAssumption
    <3>2. cpu.ctx.pc = EndPc(code[runningPid])
      BY <1>4, <2>1, <3>1 DEF InCode, EndPc, Context
    <3>3. Executed = Result(cpu.ctx, host, "done")
      BY <1>1, <1>4, <2>1, <3>2 DEF Executed, Exec
    <3> QED BY <2>1, <3>3 DEF Result
  <2>2. CASE InCode(code[runningPid], cpu.ctx.pc)
    <3>1. Executed.out \in {"ok", "wedge", "exit", "fault"}
      BY <1>4, <2>2 DEF Executed, Exec, Result, Branch, Syscall
    <3> QED BY <2>2, <3>1
  <2> QED BY <2>1, <2>2
<1>6. Ran <=> InCode(code[runningPid], cpu.ctx.pc)
  BY <1>2, <1>5 DEF Ran
<1>7. StepThrows <=> Executed.out = "wedge"
  <2>1. StepThrows => Executed.out = "wedge"
    BY ThrowsAtSyscall DEF StepThrows
  <2>2. Executed.out = "wedge" => StepThrows
    BY <1>3 DEF StepAndContinue, StepAndPreempt, StepAndTerminate, Endings
  <2> QED BY <2>1, <2>2
<1>8. thrown' <=> StepThrows
  <2>1. StepThrows => thrown'
    BY DEF StepThrows
  <2>2. StepAndContinue \/ StepAndPreempt \/ StepAndTerminate => ~thrown'
    BY <1>3 DEF StepAndContinue, StepAndPreempt, StepAndTerminate, Active
  <2>3. StepThrows => ~(StepAndContinue \/ StepAndPreempt \/ StepAndTerminate)
    BY <1>7 DEF StepAndContinue, StepAndPreempt, StepAndTerminate, Endings
  <2> QED BY <1>3, <2>1, <2>2, <2>3
<1>9. ASSUME ~thrown'
      PROVE  /\ Machine' = [Machine EXCEPT ![runningPid] = Executed.ctx]
             /\ Executed.out = "ok" \/ pstate'[runningPid] = "Terminated"
  <2>1. StepAndContinue \/ StepAndPreempt \/ StepAndTerminate
    BY <1>3, <1>8, <1>9
  <2>2. Machine' = [Machine EXCEPT ![runningPid] = Executed.ctx]
    BY <2>1, InstructionOnMachine
  <2>3. StepAndContinue \/ StepAndPreempt => Executed.out = "ok"
    BY DEF StepAndContinue, StepAndPreempt
  <2>4. ASSUME StepAndTerminate PROVE pstate'[runningPid] = "Terminated"
    <3>1. pstate \in [Pid -> States] /\ pstate[runningPid] = "Running"
      BY <1>3, ExecutedTyped DEF RuntimeInv, TypeOK
    <3>2. CASE Ready = {}
      BY <1>4, <2>4, <3>1, <3>2 DEF StepAndTerminate, HasSuccessor
    <3>3. CASE Ready # {}
      <4>1. /\ DispatchTo([pstate EXCEPT ![runningPid] = "Terminated"],
                          [saved EXCEPT ![runningPid] = Executed.ctx],
                          Ready, lastSelected)
            /\ Executed.ctx \in Context
        BY <1>4, <2>4, <3>3 DEF StepAndTerminate, HasSuccessor, WellTyped
      <4>2. /\ runningPid' \in Ready
            /\ pstate' = [[pstate EXCEPT ![runningPid] = "Terminated"]
                            EXCEPT ![runningPid'] = "Running"]
        BY <1>3, <3>3, <4>1, HandoffEstablishes
      <4>3. runningPid' # runningPid
        BY <3>1, <4>2 DEF Ready
      <4> QED BY <1>4, <3>1, <4>2, <4>3
    <3> QED BY <3>2, <3>3
  <2> QED BY <2>1, <2>2, <2>3, <2>4
<1>10. Executed.out = "wedge" => Ran
  BY <1>5, <1>6
<1>11. Executed.out = "ok" => ~thrown'
  BY <1>7, <1>8
<1> QED BY <1>3, <1>4, <1>6, <1>7, <1>8, <1>9, <1>10, <1>11

\* The values the session's records are reset to.
LEMMA ResetTyped ==
    /\ NoSkip \in [active : BOOLEAN, pid : Pid, address : Nat]
    /\ NoSource \in [at : Nat, skip : BOOLEAN, changed : BOOLEAN, ran : BOOLEAN]
    /\ ~NoSource.changed /\ ~NoSkip.active
BY RuntimeAssumption DEF NoSkip, NoSource, Pid

\* refreshResumeSkip at the head of a pass: it keeps the skip or drops it, and
\* keeps one for the Running process.
LEMMA PassKeeps ==
    ASSUME DebugInv, ~thrown
    PROVE  /\ Pass \in {skip, NoSkip}
           /\ skip.active /\ skip.pid = runningPid => Pass = skip
<1>1. Pass \in {skip, NoSkip}
  BY DEF Pass, Refreshed
<1>2. ASSUME skip.active, skip.pid = runningPid PROVE Pass = skip
  <2>1. skip.pid \in Pid /\ Machine[skip.pid].pc = skip.address
    BY <1>2 DEF DebugInv, DebugTypeOK, SkipRested
  <2>2. pstate[skip.pid] # "Terminated"
    BY <1>2, <2>1 DEF DebugInv, RuntimeInv, OneRunning
  <2> QED BY <2>1, <2>2 DEF Pass, Refreshed
<1> QED BY <1>1, <1>2

\* lifecycle.step and the bookkeeping of step() keep the session's account of
\* where it stopped: nobody rests any more, and a skip that survives belongs
\* to another process or to a jump to itself.
LEMMA StepKeeps ==
    ASSUME DebugInv, ~thrown, NEW sk \in {skip, NoSkip}, DebugStep(sk)
    PROVE  /\ RuntimeInv' /\ NoInheritedTimerRequest'
           /\ PointsInCode' /\ phase' # "New"
           /\ skip' \in [active : BOOLEAN, pid : Pid, address : Nat]
           /\ resting' \in [Pid -> Nat]
           /\ ~thrown' => /\ ~AtBreakpoint(stop')
                          /\ SkipRested'
                          /\ \A p \in Pid : resting'[p] = 0
                          /\ stop'.reason = "StepComplete" => phase' = "Running"
<1>1. LifecycleStep /\ RuntimeInv /\ NoInheritedTimerRequest
  BY DEF DebugStep, DebugInv
<1>2. /\ Active /\ code' = code
      /\ runningPid \in Pid /\ Machine[runningPid] = cpu.ctx
      /\ Ran <=> InCode(code[runningPid], cpu.ctx.pc)
      /\ ~thrown' => /\ Machine' = [Machine EXCEPT ![runningPid] = Executed.ctx]
                     /\ Executed.out = "ok" \/ pstate'[runningPid] = "Terminated"
  BY <1>1, StepExecutes
<1>3. Next
  BY <1>1 DEF LifecycleStep, Next
<1>4. RuntimeInv' /\ NoInheritedTimerRequest'
  BY <1>1, <1>3, NextInv, NoInheritedTimerRequestNext
<1>5. PointsInCode'
  BY <1>2 DEF DebugStep, DebugInv, PointsInCode, pointVars
<1>6. phase' # "New"
  BY <1>1, <1>2 DEF LifecycleStep, PreemptBeforeStep, StepAndContinue, StepAndPreempt,
     StepAndTerminate, StepThrows, Active, Classify
<1>7. skip' \in {skip, NoSkip}
  BY DEF DebugStep, Refreshed
<1>8. NoSkip \in [active : BOOLEAN, pid : Pid, address : Nat]
  BY ResetTyped
<1>9. resting \in [Pid -> Nat] /\ resting' \in [Pid -> Nat]
  BY <1>2 DEF DebugStep, DebugInv, DebugTypeOK
<1>10. ASSUME ~thrown'
       PROVE  /\ ~AtBreakpoint(stop')
              /\ SkipRested'
              /\ \A p \in Pid : resting'[p] = 0
              /\ stop'.reason = "StepComplete" => phase' = "Running"
  <2>1. stop' = StepStop
    BY <1>10 DEF DebugStep
  <2>2. stop'.reason \in {"Faulted", "Terminated", "Watchpoint", "Completed",
                          "Deadlocked", "StepComplete"}
    BY <2>1 DEF StepStop, StopFor, HitAt, TerminalReason
  <2>3. stop'.reason = "StepComplete" => phase' = "Running"
    BY <2>1 DEF StepStop, StopFor, HitAt, TerminalReason
  <2>4. \A p \in Pid : resting'[p] = 0
    <3>1. \A p \in Pid : resting[p] # 0 =>
             p = runningPid /\ InCode(code[runningPid], cpu.ctx.pc)
      BY DEF DebugInv, RestingCovered
    <3>2. CASE Ran
      BY <1>2, <1>9, <3>1, <3>2 DEF DebugStep
    <3>3. CASE ~Ran
      BY <1>2, <1>9, <3>1, <3>3 DEF DebugStep
    <3> QED BY <3>2, <3>3
  <2>5. SkipRested'
    <3> SUFFICES ASSUME skip'.active
                 PROVE  /\ Machine'[skip'.pid].pc = skip'.address
                        /\ \/ resting'[skip'.pid] = skip'.address
                           \/ SelfJump(skip.pid, skip.address)'
      BY DEF SkipRested, SelfJump
    <3>1. skip' # NoSkip
      BY DEF NoSkip
    <3>2. /\ skip' = skip /\ sk = skip
          /\ pstate'[skip.pid] # "Terminated" /\ Machine'[skip.pid].pc = skip.address
      BY <1>10, <3>1 DEF DebugStep, Refreshed
    <3>3. /\ Machine[skip.pid].pc = skip.address /\ skip.pid \in Pid
          /\ resting[skip.pid] = skip.address \/ SelfJump(skip.pid, skip.address)
      BY <3>2 DEF DebugInv, SkipRested, DebugTypeOK
    <3>4. CASE skip.pid # runningPid
      <4>1. resting'[skip.pid] = resting[skip.pid]
        BY <1>2, <1>9, <3>3, <3>4 DEF DebugStep
      <4> QED BY <1>2, <3>2, <3>3, <4>1 DEF SelfJump
    <3>5. CASE skip.pid = runningPid
      <4>1. Executed.out = "ok" /\ Executed.ctx.pc = cpu.ctx.pc
        <5>1. Machine'[runningPid] = Executed.ctx
          BY <1>2, <1>10 DEF Machine
        <5> QED BY <1>2, <1>10, <3>2, <3>3, <3>5, <5>1
      <4>2. /\ code[runningPid] \in Programs /\ cpu.ctx \in Context /\ host \in Value
            /\ Executed = Exec(code[runningPid], cpu.ctx, host)
        BY <1>1, <1>2, ExecutedTyped DEF Executed, RuntimeInv, TypeOK
      <4>3. SelfJump(runningPid, cpu.ctx.pc)
        BY <4>1, <4>2, StandsStill DEF SelfJump
      <4>4. cpu.ctx.pc = skip.address
        BY <1>2, <3>3, <3>5
      <4> QED BY <1>2, <3>2, <3>5, <4>3, <4>4 DEF SelfJump
    <3> QED BY <3>4, <3>5
  <2> QED BY <2>2, <2>3, <2>4, <2>5 DEF AtBreakpoint
<1> QED BY <1>4, <1>5, <1>6, <1>7, <1>8, <1>9, <1>10 DEF DebugInv, DebugTypeOK

\* The session is made with no points and nothing to resume from.
LEMMA DebugInitInv == DebugInit => DebugInv
<1> SUFFICES ASSUME DebugInit PROVE DebugInv
  OBVIOUS
<1>1. RuntimeInv /\ phase = "New" /\ pending = 0
  BY InitInv DEF DebugInit, Init
<1>2. NoInheritedTimerRequest
  BY <1>1 DEF NoInheritedTimerRequest
<1>3. DebugTypeOK
  BY RuntimeAssumption DEF DebugInit, DebugTypeOK, NoSkip, NoSource, Pid
<1>4. PointsInCode
  BY DEF DebugInit, PointsInCode
<1>5. /\ command = "none" /\ ~skip.active /\ ~AtBreakpoint(stop) /\ ~source.changed
      /\ \A p \in Pid : resting[p] = 0
  BY DEF DebugInit, NoSkip, NoSource, AtBreakpoint, StopFor
<1>6. NothingYet
  BY <1>5 DEF NothingYet
<1>7. StopRested /\ SkipRested /\ RestingCovered /\ SourceMoved
  BY <1>5 DEF StopRested, SkipRested, RestingCovered, SourceMoved
<1> QED BY <1>1, <1>2, <1>3, <1>4, <1>5, <1>6, <1>7 DEF DebugInv

\* An action that leaves the runtime and the session's account of its stops
\* alone, and adds no point outside the code, keeps the invariant.
LEMMA EditKeeps ==
    ASSUME DebugInv, UNCHANGED <<vars, skip, stop, command, source, resting>>,
           phase # "New", PointsInCode', selected' = selected \/ command = "none"
    PROVE  DebugInv'
<1>1. /\ RuntimeInv' /\ NoInheritedTimerRequest'
  BY NextInv, NoInheritedTimerRequestNext DEF DebugInv
<1>2. Machine' = Machine /\ UNCHANGED <<code, cpu, runningPid, phase, thrown>>
  BY DEF Machine, vars
<1>3. DebugTypeOK' /\ phase' # "New"
  BY <1>2 DEF DebugInv, DebugTypeOK
<1>4. ASSUME ~thrown'
      PROVE  /\ command' # "none" => phase' = "Running"
             /\ StopRested' /\ SkipRested' /\ RestingCovered' /\ SourceMoved'
  <2>1. /\ command # "none" => phase = "Running"
        /\ StopRested /\ SkipRested /\ RestingCovered /\ SourceMoved
    BY <1>2, <1>4 DEF DebugInv
  <2>2. command' # "none" => phase' = "Running"
    BY <1>2, <2>1
  <2>3. StopRested'
    BY <1>2, <2>1 DEF StopRested, AtBreakpoint
  <2>4. SkipRested'
    BY <1>2, <2>1 DEF SkipRested, SelfJump
  <2>5. RestingCovered'
    BY <1>2, <2>1 DEF RestingCovered, AtBreakpoint
  <2>6. SourceMoved'
    BY <1>2, <2>1 DEF SourceMoved
  <2> QED BY <2>2, <2>3, <2>4, <2>5, <2>6
<1> QED BY <1>1, <1>3, <1>4 DEF DebugInv

\* Beginning a loop arms the skip at the place of the last breakpoint stop.
LEMMA BeginKeeps ==
    ASSUME DebugInv, Prompt, phase = "Running",
           UNCHANGED <<vars, pointVars, selected, stop, resting>>,
           skip' = Armed, command' \in {"continue", "source"},
           source' \in [at : Nat, skip : BOOLEAN, changed : BOOLEAN, ran : BOOLEAN],
           ~source'.changed
    PROVE  DebugInv'
<1>1. /\ RuntimeInv' /\ NoInheritedTimerRequest'
  BY NextInv, NoInheritedTimerRequestNext DEF DebugInv
<1>2. Machine' = Machine /\ UNCHANGED <<code, cpu, runningPid, phase, thrown>>
  BY DEF Machine, vars
<1>3. ~thrown /\ command = "none"
  BY DEF Prompt
<1>4. StopRested /\ SkipRested /\ RestingCovered
  BY <1>3 DEF DebugInv
<1>5. PointsInCode'
  BY <1>2 DEF DebugInv, PointsInCode, pointVars
<1>6. CASE AtBreakpoint(stop)
  <2>1. /\ skip' = [active |-> TRUE, pid |-> stop.pid, address |-> stop.address]
    BY <1>6 DEF Armed, AtBreakpoint
  <2>2. /\ stop.pid \in Pid /\ stop.pid = runningPid
        /\ cpu.ctx.pc = stop.address /\ resting[stop.pid] = stop.address
    BY <1>4, <1>6 DEF StopRested
  <2>3. resting \in [Pid -> Nat]
    BY DEF DebugInv, DebugTypeOK
  <2>4. DebugTypeOK'
    BY <2>1, <2>2, <2>3 DEF DebugTypeOK
  <2>5. StopRested'
    BY <1>2, <1>4 DEF StopRested, AtBreakpoint
  <2>6. SkipRested'
    <3>1. Machine[stop.pid].pc = stop.address
      BY <2>2 DEF Machine
    <3> QED BY <1>2, <2>1, <2>2, <3>1 DEF SkipRested
  <2>7. RestingCovered'
    BY <1>2, <1>4, <2>1, <2>2 DEF RestingCovered
  <2>8. SourceMoved'
    BY DEF SourceMoved
  <2> QED BY <1>1, <1>2, <1>5, <2>4, <2>5, <2>6, <2>7, <2>8 DEF DebugInv
<1>7. CASE ~AtBreakpoint(stop)
  <2>1. skip' = skip
    BY <1>7 DEF Armed, AtBreakpoint
  <2>2. DebugTypeOK'
    BY <2>1 DEF DebugInv, DebugTypeOK
  <2>3. StopRested' /\ SourceMoved'
    BY <1>7 DEF StopRested, SourceMoved, AtBreakpoint
  <2>4. SkipRested'
    BY <1>2, <1>4, <2>1 DEF SkipRested, SelfJump
  <2>5. RestingCovered'
    BY <1>2, <1>4, <1>7, <2>1 DEF RestingCovered
  <2> QED BY <1>1, <1>2, <1>5, <2>2, <2>3, <2>4, <2>5 DEF DebugInv
<1> QED BY <1>6, <1>7

\* A loop that returns without a breakpoint keeps the skip, so that a process
\* that still rests is still covered.
LEMMA ReturnKeeps ==
    ASSUME DebugInv, LoopTurns, NEW s, ~AtBreakpoint(s), Return(s),
           skip' \in {skip, Pass}, resting' = resting
    PROVE  DebugInv'
<1>1. /\ UNCHANGED <<vars, pointVars, selected>> /\ stop' = s
      /\ command' = "none" /\ source' = NoSource
  BY DEF Return
<1>2. /\ RuntimeInv' /\ NoInheritedTimerRequest'
  BY <1>1, NextInv, NoInheritedTimerRequestNext DEF DebugInv
<1>3. Machine' = Machine /\ UNCHANGED <<code, cpu, runningPid, phase, thrown>>
  BY <1>1 DEF Machine, vars
<1>4. ~thrown /\ command # "none" /\ phase = "Running"
  BY DEF LoopTurns, DebugInv
<1>5. SkipRested /\ RestingCovered
  BY <1>4 DEF DebugInv
<1>6. PointsInCode'
  BY <1>1, <1>3 DEF DebugInv, PointsInCode, pointVars
<1>7. /\ skip' \in {skip, NoSkip}
      /\ skip.active /\ skip.pid = runningPid => skip' = skip
  BY <1>4, PassKeeps
<1>8. DebugTypeOK'
  <2>1. skip' \in [active : BOOLEAN, pid : Pid, address : Nat]
    BY <1>7, ResetTyped DEF DebugInv, DebugTypeOK
  <2> QED BY <1>1, <2>1, ResetTyped DEF DebugInv, DebugTypeOK
<1>9. StopRested' /\ SourceMoved'
  BY <1>1 DEF StopRested, SourceMoved, NoSource, AtBreakpoint
<1>10. SkipRested'
  BY <1>3, <1>5, <1>7 DEF SkipRested, SelfJump, NoSkip
<1>11. RestingCovered'
  BY <1>3, <1>4, <1>5, <1>7 DEF RestingCovered
<1> QED BY <1>2, <1>3, <1>4, <1>6, <1>8, <1>9, <1>10, <1>11 DEF DebugInv

\* A breakpoint stop is where the Running process rests.
LEMMA BreakpointStopKeeps ==
    ASSUME DebugInv, BreakpointStop
    PROVE  DebugInv'
<1> DEFINE here == HitAt(IF BreakpointHit THEN "Breakpoint" ELSE "Conditional",
                         runningPid, cpu.ctx.pc)
<1>1. /\ UNCHANGED <<vars, pointVars, selected>> /\ stop' = here
      /\ command' = "none" /\ source' = NoSource /\ skip' = Pass
      /\ resting' = [resting EXCEPT ![runningPid] = cpu.ctx.pc]
      /\ BreakpointHit \/ ConditionHit
      /\ ~thrown /\ command # "none"
  BY DEF BreakpointStop, Return, StopsHere, LoopTurns
<1>2. /\ RuntimeInv' /\ NoInheritedTimerRequest'
  BY <1>1, NextInv, NoInheritedTimerRequestNext DEF DebugInv
<1>3. Machine' = Machine /\ UNCHANGED <<code, cpu, runningPid, phase, thrown>>
  BY <1>1 DEF Machine, vars
<1>4. /\ phase = "Running" /\ SkipRested /\ RestingCovered
      /\ resting \in [Pid -> Nat] /\ RuntimeInv
  BY <1>1 DEF DebugInv, DebugTypeOK
<1>5. runningPid \in Pid /\ cpu.ctx \in Context
  BY <1>1, <1>4, ExecutedTyped DEF Active
<1>6. InCode(code[runningPid], cpu.ctx.pc) /\ cpu.ctx.pc \in Nat
  BY <1>1, <1>5 DEF DebugInv, PointsInCode, BreakpointHit, ConditionHit, Context
<1>7. PointsInCode'
  BY <1>1, <1>3 DEF DebugInv, PointsInCode, pointVars
<1>8. skip' \in {skip, NoSkip}
  BY <1>1, PassKeeps
<1>9. DebugTypeOK'
  <2>1. skip' \in [active : BOOLEAN, pid : Pid, address : Nat]
    BY <1>8, ResetTyped DEF DebugInv, DebugTypeOK
  <2>2. resting' \in [Pid -> Nat]
    BY <1>1, <1>4, <1>6
  <2> QED BY <1>1, <2>1, <2>2, ResetTyped DEF DebugTypeOK
<1>10. /\ AtBreakpoint(stop)' /\ stop'.pid = runningPid /\ stop'.address = cpu.ctx.pc
  BY <1>1 DEF AtBreakpoint, HitAt
<1>11. /\ resting'[runningPid] = cpu.ctx.pc
       /\ \A p \in Pid \ {runningPid} : resting'[p] = resting[p]
  BY <1>1, <1>4, <1>5
<1>12. StopRested'
  BY <1>3, <1>5, <1>6, <1>10, <1>11 DEF StopRested
<1>13. SourceMoved'
  BY <1>1 DEF SourceMoved, NoSource
<1>14. SkipRested'
  <2> SUFFICES ASSUME skip'.active
               PROVE  /\ Machine'[skip'.pid].pc = skip'.address
                      /\ \/ resting'[skip'.pid] = skip'.address
                         \/ SelfJump(skip.pid, skip.address)'
    BY DEF SkipRested
  <2>1. skip' = skip /\ skip.active /\ skip.pid \in Pid
    BY <1>8 DEF NoSkip, DebugInv, DebugTypeOK
  <2>2. CASE skip.pid = runningPid
    <3>1. cpu.ctx.pc = skip.address
      BY <1>4, <1>5, <2>1, <2>2 DEF SkipRested, Machine
    <3> QED BY <1>3, <1>4, <1>11, <2>1, <2>2, <3>1 DEF SkipRested
  <2>3. CASE skip.pid # runningPid
    BY <1>3, <1>4, <1>11, <2>1, <2>3 DEF SkipRested, SelfJump
  <2> QED BY <2>2, <2>3
<1>15. RestingCovered'
  BY <1>1, <1>3, <1>4, <1>6, <1>10, <1>11 DEF RestingCovered
<1> QED BY <1>2, <1>3, <1>4, <1>7, <1>9, <1>12, <1>13, <1>14, <1>15 DEF DebugInv

\* A pass that executes: the flag of a source step is set from the machine of
\* the selected process, and a step that stopped ends the command.
LEMMA LoopStepKeeps ==
    ASSUME DebugInv, LoopStep
    PROVE  DebugInv'
<1>1. /\ ~thrown /\ command # "none" /\ DebugStep(Pass) /\ ~source.changed
      /\ Pass \in {skip, NoSkip}
  BY PassKeeps DEF LoopStep, LoopTurns
<1>2. /\ RuntimeInv' /\ NoInheritedTimerRequest'
      /\ PointsInCode' /\ phase' # "New"
      /\ skip' \in [active : BOOLEAN, pid : Pid, address : Nat]
      /\ resting' \in [Pid -> Nat]
      /\ ~thrown' => /\ ~AtBreakpoint(stop')
                     /\ SkipRested'
                     /\ \A p \in Pid : resting'[p] = 0
                     /\ stop'.reason = "StepComplete" => phase' = "Running"
  BY <1>1, StepKeeps
<1>3. source \in [at : Nat, skip : BOOLEAN, changed : BOOLEAN, ran : BOOLEAN]
  BY DEF DebugInv, DebugTypeOK
<1>4. ~thrown' => StopRested' /\ RestingCovered'
  BY <1>2 DEF StopRested, RestingCovered, AtBreakpoint
<1>5. CASE thrown' \/ stop'.reason # "StepComplete"
  <2>1. command' = "none" /\ source' = NoSource
    BY <1>5 DEF LoopStep
  <2>2. DebugTypeOK' /\ SourceMoved'
    BY <1>2, <2>1, ResetTyped DEF DebugTypeOK, SourceMoved
  <2> QED BY <1>2, <1>4, <2>1, <2>2 DEF DebugInv
<1>6. CASE ~thrown' /\ stop'.reason = "StepComplete"
  <2>1. /\ command' = command
        /\ source' = IF command = "source" THEN SourceAfter ELSE source
        /\ selected' = selected
    BY <1>6 DEF LoopStep, DebugStep
  <2>2. CASE command # "source"
    <3>1. DebugTypeOK' /\ SourceMoved'
      BY <1>1, <1>2, <1>3, <2>1, <2>2 DEF DebugTypeOK, SourceMoved
    <3> QED BY <1>2, <1>4, <1>6, <3>1 DEF DebugInv
  <2>3. CASE command = "source"
    <3> DEFINE pc == Machine'[selected].pc
               there == pc = source.at
               elsewhere == pc \in Mapped /\ pc # source.at
               executed == source.ran \/ (Ran /\ runningPid = selected)
    <3>1. /\ there \in BOOLEAN /\ elsewhere \in BOOLEAN /\ executed \in BOOLEAN
      OBVIOUS
    <3>2. source' = [source EXCEPT !.skip = there, !.changed = elsewhere,
                                   !.ran = executed]
      BY <2>1, <2>3 DEF SourceAfter
    <3> HIDE DEF there, elsewhere, executed
    <3>3. /\ source' \in [at : Nat, skip : BOOLEAN, changed : BOOLEAN, ran : BOOLEAN]
          /\ source'.at = source.at /\ source'.changed = elsewhere
      BY <1>3, <3>1, <3>2
    <3>4. source'.changed => pc \in Mapped /\ pc # source.at
      BY <3>3, Zenon DEF elsewhere
    <3>5. SourceMoved'
      BY <2>1, <2>3, <3>3, <3>4 DEF SourceMoved
    <3>6. DebugTypeOK'
      BY <1>2, <3>3 DEF DebugTypeOK
    <3> QED BY <1>2, <1>4, <1>6, <3>5, <3>6 DEF DebugInv
  <2> QED BY <2>2, <2>3
<1> QED BY <1>5, <1>6

\* Every edit, command and pass of a session of several processes keeps the
\* invariant.
LEMMA DebugNextInv == DebugInv /\ [DebugNext]_allVars => DebugInv'
<1> SUFFICES ASSUME DebugInv, [DebugNext]_allVars PROVE DebugInv'
  OBVIOUS
<1>1. ASSUME Initialize PROVE DebugInv'
  <2>1. /\ Start /\ UNCHANGED <<pointVars, skip, stop, command, source, resting>>
        /\ phase = "New" /\ code' = code
    BY <1>1 DEF Initialize, Start
  <2>2. RuntimeInv' /\ NoInheritedTimerRequest'
    BY <2>1, NextInv, NoInheritedTimerRequestNext DEF DebugInv, Next
  <2>3. phase' # "New"
    BY <2>1 DEF Start, Classify
  <2>4. /\ command' = "none" /\ ~skip'.active /\ ~AtBreakpoint(stop)'
        /\ ~source'.changed /\ \A p \in Pid : resting'[p] = 0
    BY <2>1 DEF DebugInv, NothingYet, AtBreakpoint
  <2>5. DebugTypeOK' /\ PointsInCode'
    BY <2>1 DEF DebugInv, DebugTypeOK, PointsInCode, pointVars
  <2>6. StopRested' /\ SkipRested' /\ RestingCovered' /\ SourceMoved'
    BY <2>4 DEF StopRested, SkipRested, RestingCovered, SourceMoved
  <2> QED BY <2>2, <2>3, <2>4, <2>5, <2>6 DEF DebugInv
<1>2. ASSUME Edit, PointsInCode' PROVE DebugInv'
  BY <1>2, EditKeeps DEF Edit, Prompt
<1>3. ASSUME NEW b \in Places, AddBreakpoint(b[1], b[2]) \/ RemoveBreakpoint(b[1], b[2])
      PROVE  DebugInv'
  <2>1. /\ Edit /\ code' = code /\ conditions' = conditions
        /\ \A c \in breakpoints' : c \in breakpoints \/ InCode(code[c[1]], c[2])
    BY <1>3 DEF AddBreakpoint, RemoveBreakpoint, Edit, vars, ValidPlace
  <2>2. PointsInCode'
    BY <2>1 DEF DebugInv, PointsInCode
  <2> QED BY <1>2, <2>1, <2>2
<1>4. ASSUME NEW b \in Places, NEW v \in CondValues, AddCondition(b[1], b[2], v)
      PROVE  DebugInv'
  <2>1. /\ Edit /\ code' = code /\ breakpoints' = breakpoints
        /\ \A d \in conditions' : d \in conditions \/ InCode(code[d.pid], d.address)
    BY <1>4 DEF AddCondition, Edit, vars, ValidPlace
  <2>2. PointsInCode'
    BY <2>1 DEF DebugInv, PointsInCode
  <2> QED BY <1>2, <2>1, <2>2
<1>5. ASSUME \/ \E p \in Pid, m \in WatchModes : AddWatchpoint(p, m)
             \/ RemoveById
             \/ \E p \in Pid : ClearPoints({p}) \/ SelectProcess(p)
             \/ ClearPoints(Pid)
      PROVE  DebugInv'
  <2>1. Edit /\ breakpoints' \subseteq breakpoints /\ conditions' \subseteq conditions
    BY <1>5 DEF AddWatchpoint, RemoveById, ClearPoints, SelectProcess, pointVars
  <2>2. code' = code
    BY <2>1 DEF Edit, vars
  <2>3. PointsInCode'
    BY <2>1, <2>2 DEF DebugInv, PointsInCode
  <2> QED BY <1>2, <2>1, <2>3
<1>6. ASSUME AfterRun PROVE DebugInv'
  <2>1. /\ UNCHANGED <<vars, pointVars, selected, skip, command, source, resting>>
        /\ ~AtBreakpoint(stop)' /\ phase \notin {"New", "Running"}
        /\ ~thrown /\ command = "none"
    BY <1>6 DEF AfterRun, Prompt, StopFor, AtBreakpoint
  <2>2. RuntimeInv' /\ NoInheritedTimerRequest'
    BY <2>1, NextInv, NoInheritedTimerRequestNext DEF DebugInv
  <2>3. Machine' = Machine /\ UNCHANGED <<code, cpu, runningPid, phase, thrown>>
    BY <2>1 DEF Machine, vars
  <2>4. DebugTypeOK' /\ PointsInCode'
    BY <2>1, <2>3 DEF DebugInv, DebugTypeOK, PointsInCode, pointVars
  <2>5. \A p \in Pid : resting[p] = 0
    <3>1. runningPid \notin Pid
      BY <2>1, RuntimeAssumption DEF DebugInv, RuntimeInv, OneRunning, Pid
    <3> QED BY <2>1, <3>1 DEF DebugInv, RestingCovered
  <2>6. StopRested' /\ RestingCovered'
    BY <2>1, <2>5 DEF StopRested, RestingCovered
  <2>7. SkipRested' /\ SourceMoved'
    BY <2>1, <2>3 DEF DebugInv, SkipRested, SourceMoved, SelfJump
  <2> QED BY <2>1, <2>2, <2>3, <2>4, <2>6, <2>7 DEF DebugInv
<1>7. ASSUME StepCommand PROVE DebugInv'
  <2>1. /\ ~thrown /\ command = "none" /\ DebugStep(skip)
        /\ UNCHANGED <<command, source, selected>>
    BY <1>7 DEF StepCommand, Prompt, DebugStep
  <2>2. /\ RuntimeInv' /\ NoInheritedTimerRequest'
        /\ PointsInCode' /\ phase' # "New"
        /\ skip' \in [active : BOOLEAN, pid : Pid, address : Nat]
        /\ resting' \in [Pid -> Nat]
        /\ ~thrown' => /\ ~AtBreakpoint(stop')
                       /\ SkipRested'
                       /\ \A p \in Pid : resting'[p] = 0
    BY <2>1, StepKeeps
  <2>3. DebugTypeOK' /\ SourceMoved'
    BY <2>1, <2>2 DEF DebugInv, DebugTypeOK, SourceMoved
  <2>4. ~thrown' => StopRested' /\ RestingCovered'
    BY <2>2 DEF StopRested, RestingCovered, AtBreakpoint
  <2> QED BY <2>1, <2>2, <2>3, <2>4 DEF DebugInv
<1>8. ASSUME NEW n \in 1 .. MaxLimit, ContinueExecution(n) PROVE DebugInv'
  <2>1. /\ Prompt /\ phase = "Running" /\ skip' = Armed /\ command' = "continue"
        /\ UNCHANGED <<vars, pointVars, selected, stop, resting>> /\ source' = source
    BY <1>8 DEF ContinueExecution
  <2>2. /\ source' \in [at : Nat, skip : BOOLEAN, changed : BOOLEAN, ran : BOOLEAN]
        /\ ~source'.changed
    BY <2>1 DEF DebugInv, DebugTypeOK, Prompt, SourceMoved
  <2> QED BY <2>1, <2>2, BeginKeeps
<1>9. ASSUME NEW n \in 1 .. MaxLimit, StepSelectedSourceLine(n) PROVE DebugInv'
  <2>1. /\ Prompt /\ phase = "Running" /\ skip' = Armed /\ command' = "source"
        /\ UNCHANGED <<vars, pointVars, selected, stop, resting>>
        /\ source' = [NoSource EXCEPT !.at = Machine[selected].pc, !.skip = TRUE]
        /\ Machine[selected].pc \in Nat
    BY <1>9, DebugAssumption DEF StepSelectedSourceLine
  <2>2. /\ source' \in [at : Nat, skip : BOOLEAN, changed : BOOLEAN, ran : BOOLEAN]
        /\ ~source'.changed
    BY <2>1 DEF NoSource
  <2> QED BY <2>1, <2>2, BeginKeeps
<1>10. ASSUME SourceLineReached PROVE DebugInv'
  <2>1. /\ LoopTurns /\ Return(StopFor("StepComplete")) /\ skip' \in {skip, Pass}
        /\ resting' = resting /\ ~AtBreakpoint(StopFor("StepComplete"))
    BY <1>10 DEF SourceLineReached, StopFor, AtBreakpoint
  <2> QED BY <2>1, ReturnKeeps
<1>11. ASSUME StepLimit PROVE DebugInv'
  <2>1. /\ LoopTurns /\ Return(StopFor("StepLimit")) /\ skip' \in {skip, Pass}
        /\ resting' = resting /\ ~AtBreakpoint(StopFor("StepLimit"))
    BY <1>11 DEF StepLimit, StopFor, AtBreakpoint
  <2> QED BY <2>1, ReturnKeeps
<1>12. ASSUME Gone \/ UNCHANGED allVars PROVE DebugInv'
  <2>1. /\ UNCHANGED <<vars, skip, stop, command, source, resting, selected>>
        /\ UNCHANGED <<breakpoints, conditions>> /\ code' = code
    BY <1>12 DEF Gone, allVars, debugVars, pointVars, vars
  <2>2. PointsInCode'
    BY <2>1 DEF DebugInv, PointsInCode
  <2>3. CASE phase # "New"
    BY <2>1, <2>2, <2>3, EditKeeps
  <2>4. CASE phase = "New"
    <3>1. RuntimeInv' /\ NoInheritedTimerRequest'
      BY <2>1, NextInv, NoInheritedTimerRequestNext DEF DebugInv
    <3>2. NothingYet' /\ DebugTypeOK'
      BY <2>1, <2>4 DEF DebugInv, NothingYet, AtBreakpoint, DebugTypeOK
    <3>3. StopRested' /\ SkipRested' /\ RestingCovered' /\ SourceMoved'
      BY <3>2 DEF NothingYet, StopRested, SkipRested, RestingCovered, SourceMoved
    <3> QED BY <2>2, <3>1, <3>2, <3>3 DEF DebugInv, NothingYet
  <2> QED BY <2>3, <2>4
<1> QED BY <1>1, <1>3, <1>4, <1>5, <1>6, <1>7, <1>8, <1>9, <1>10, <1>11, <1>12,
           BreakpointStopKeeps, LoopStepKeeps DEF DebugNext

-------------------------------------------------------------------------------
(* One process.                                                             *)

OneStopped == last_stop.reason \in {"Breakpoint", "ConditionalBreakpoint"}

OneReady == One!classifyStoppedState(oneCpu) = "Ready"

\* Types of the session's state that the arguments below rely on.
OneTypeOK ==
    /\ oneCode \in Executables \cup {<<>>}
    /\ oneCpu.pc \in 1 .. Len(oneCode) + 1
    /\ oneCpu.state \in {"ok", "halted", "error"}
    /\ oneCommand \in {"none", "step", "continue", "source"}
    /\ executedSteps \in Nat /\ maxSteps \in Nat
    /\ oneResting \in Nat
    /\ next_watchpoint_id \in Nat

\* The points were validated when they were set, and a load drops them.
OnePointsValid ==
    /\ \A a \in oneBreakpoints : a \in 1 .. Len(oneCode)
    /\ \A b \in conditional_breakpoints : b.address \in 1 .. Len(oneCode)
    /\ \A w \in oneWatchpoints : /\ w.id \in Nat /\ w.address \in Nat
                                 /\ w.size \in Nat \ {0}

\* The process reported at a breakpoint still stands there, last_stop_ says so,
\* and a command that looks at breakpoints skips it.
OneRests ==
    oneResting # 0 =>
        /\ oneResting = oneCpu.pc /\ OneReady
        /\ OneStopped /\ last_stop.pc = oneCpu.pc
        /\ oneCommand \in {"continue", "source"} =>
              skipInitialBreakpoint /\ executedSteps < maxSteps

\* A skip is for the place of the last stop, or for the first instruction of a
\* source step.
OneSkips ==
    /\ oneCommand = "none" => /\ ~skipInitialBreakpoint
                              /\ OneStopped => oneResting = last_stop.pc
    /\ oneCommand = "continue" /\ skipInitialBreakpoint => oneResting = oneCpu.pc
    /\ oneCommand = "source" /\ skipInitialBreakpoint => executedSteps = 0

\* The inductive invariant of the session of one process.
OneInv == OneTypeOK /\ OnePointsValid /\ OneRests /\ OneSkips

\* The first of the points found is one of them.
LEMMA FirstFound ==
    ASSUME NEW S, \A w \in S : w.id \in Nat
    PROVE  /\ S = {} => One!First(S) = <<>>
           /\ S # {} => One!First(S) # <<>> /\ One!First(S)[1] \in S
<1>1. CASE S = {}
  BY <1>1 DEF One!First
<1>2. CASE S # {}
  <2> DEFINE ids == {w.id : w \in S}
  <2>1. ids \in SUBSET Nat /\ ids # {}
    BY <1>2
  <2>2. MinOf(ids) \in ids /\ \A n \in ids : MinOf(ids) <= n
    BY <2>1, MinOfLeast
  <2>3. PICK w \in S : \A v \in S : w.id <= v.id
    BY <2>2
  <2>4. One!First(S) = <<CHOOSE b \in S : \A d \in S : b.id <= d.id>>
    BY <1>2 DEF One!First
  <2> QED BY <2>3, <2>4
<1> QED BY <1>1, <1>2

\* The breakpoint that stops the process is reported as one, at its place.
LEMMA HitReports ==
    ASSUME OnePointsValid, NEW c, One!Hit(c) # <<>>
    PROVE  /\ One!Hit(c)[1].reason \in {"Breakpoint", "ConditionalBreakpoint"}
           /\ One!Hit(c)[1].pc = c.pc
           /\ c.pc \in 1 .. Len(oneCode)
<1>1. CASE c.pc \in oneBreakpoints
  BY <1>1 DEF One!Hit, One!StopAs, OnePointsValid
<1>2. CASE c.pc \notin oneBreakpoints
  <2>1. One!findConditionalBreakpointHit(c) # <<>>
    BY <1>2 DEF One!Hit
  <2>2. \E b \in conditional_breakpoints : b.address = c.pc
    BY <2>1 DEF One!findConditionalBreakpointHit, One!First
  <2>3. One!Hit(c) = <<One!StopAs("ConditionalBreakpoint", c.pc,
                                  One!findConditionalBreakpointHit(c)[1].id)>>
    BY <1>2, <2>1 DEF One!Hit
  <2> QED BY <2>2, <2>3 DEF One!StopAs, OnePointsValid
<1> QED BY <1>1, <1>2

\* An instruction leaves the program counter in the code or at its end.
LEMMA OneExecutes ==
    ASSUME OneTypeOK, OneReady
    PROVE  /\ oneCpu.pc \in 1 .. Len(oneCode)
           /\ oneCode[oneCpu.pc].at \in Nat
           /\ One!Executed(oneCpu).pc \in 1 .. Len(oneCode) + 1
           /\ One!Executed(oneCpu).state \in {"ok", "halted", "error"}
<1> DEFINE Instrs == [op : STRING, at : Nat]
<1>0. \A i \in Instrs : i.at \in Nat
  OBVIOUS
<1>1. oneCode \in Seq(Instrs)
  <2>1. Executables \subseteq Seq(Instrs)
    BY SessionAssumption
  <2> HIDE DEF Instrs
  <2>2. <<>> \in Seq(Instrs)
    OBVIOUS
  <2> QED BY <2>1, <2>2 DEF OneTypeOK
<1> HIDE DEF Instrs
<1>2. oneCpu.pc \in 1 .. Len(oneCode) /\ Len(oneCode) \in Nat
  <2>1. oneCpu.pc # Len(oneCode) + 1 /\ Len(oneCode) \in Nat
    BY <1>1 DEF OneReady, One!classifyStoppedState
  <2> QED BY <2>1 DEF OneTypeOK
<1>3. oneCode[oneCpu.pc].at \in Nat
  <2>1. oneCode[oneCpu.pc] \in Instrs
    BY <1>1, <1>2
  <2> QED BY <1>0, <2>1
<1>4. /\ One!Executed(oneCpu).pc \in {oneCpu.pc, oneCpu.pc + 1} \cup 1 .. Len(oneCode)
      /\ One!Executed(oneCpu).state \in {"ok", "halted", "error"}
  BY <1>3 DEF One!Executed, One!CpuAt
<1> QED BY <1>2, <1>3, <1>4

\* What a step makes the command return with: only a source step that came to
\* a breakpoint is reported as one, and a source step completes on a new line.
LEMMA StopAfterReports ==
    ASSUME OnePointsValid, NEW c, NEW acc, One!StopAfter(c, acc) # <<>>
    PROVE  LET stopped == One!StopAfter(c, acc)[1]
           IN /\ stopped.reason \in {"Breakpoint", "ConditionalBreakpoint"} =>
                    /\ stopped.pc = c.pc
                    /\ One!classifyStoppedState(c) = "Ready"
              /\ stopped.reason = "StepComplete" /\ oneCommand = "source" =>
                    \E line \in One!sourceLineForAddress(c.pc) : line # sourceLineBefore
<1> DEFINE watch == One!findWatchpointHit(acc)
           reason == One!classifyStoppedState(c)
           lines == One!sourceLineForAddress(c.pc)
           stopped == One!StopAfter(c, acc)
<1>1. reason \in {"Fault", "Halted", "ProgramEnd", "Ready"}
  BY DEF One!classifyStoppedState
<1> HIDE DEF watch, reason, lines
<1>2. CASE reason \in {"Fault", "Halted"}
  BY <1>2 DEF One!StopAfter, One!StopAs, watch, reason, lines
<1>3. CASE reason \notin {"Fault", "Halted"} /\ watch # <<>>
  BY <1>3 DEF One!StopAfter, One!StopAs, watch, reason, lines
<1>4. CASE reason = "ProgramEnd" /\ watch = <<>>
  BY <1>4 DEF One!StopAfter, One!StopAs, watch, reason, lines
<1>5. CASE reason = "Ready" /\ watch = <<>>
  <2>1. CASE oneCommand \in {"step", "continue"}
    BY <1>5, <2>1 DEF One!StopAfter, One!StopAs, watch, reason, lines
  <2>2. CASE oneCommand \notin {"step", "continue"} /\ One!Hit(c) # <<>>
    <3>1. stopped = One!Hit(c)
      BY <1>5, <2>2 DEF One!StopAfter, watch, reason, lines
    <3> QED BY <1>5, <2>2, <3>1, HitReports DEF reason
  <2>3. CASE oneCommand \notin {"step", "continue"} /\ One!Hit(c) = <<>>
    <3>1. /\ lines \ {sourceLineBefore} # {}
          /\ stopped = <<One!StopAs("StepComplete", c.pc, 0)>>
      BY <1>5, <2>3 DEF One!StopAfter, watch, reason, lines
    <3> QED BY <3>1 DEF One!StopAs, lines
  <2> QED BY <2>1, <2>2, <2>3
<1> QED BY <1>1, <1>2, <1>3, <1>4, <1>5

\* The session is made with nothing loaded.
LEMMA OneInitInv == One!Init => OneInv
<1> SUFFICES ASSUME One!Init PROVE OneInv
  OBVIOUS
<1>1. OneTypeOK
  BY DEF One!Init, OneTypeOK, One!FreshCpu
<1>2. OnePointsValid
  BY DEF One!Init, OnePointsValid
<1>3. OneRests /\ OneSkips
  BY DEF One!Init, OneRests, OneSkips, OneStopped, One!StopAs
<1> QED BY <1>1, <1>2, <1>3 DEF OneInv

\* Loading an executable, and StudioDebugBackend::reset, start afresh.
LEMMA OneLoads ==
    ASSUME OneInv, One!Prompt, NEW c \in Executables \cup {<<>>},
           oneCode' = c, oneCpu' = One!FreshCpu, One!NoPoints,
           last_stop'.reason = "Ready", oneResting' = 0,
           UNCHANGED <<oneCommand, maxSteps, executedSteps, skipInitialBreakpoint,
                       sourceLineBefore>>
    PROVE  OneInv'
<1>1. Len(c) \in Nat
  <2>1. Executables \subseteq Seq([op : STRING, at : Nat])
    BY SessionAssumption
  <2>2. CASE c \in Executables
    BY <2>1, <2>2
  <2>3. CASE c = <<>>
    BY <2>3
  <2> QED BY <2>2, <2>3
<1>2. oneCpu'.pc = 1 /\ oneCpu'.state = "ok"
  BY DEF One!FreshCpu
<1>3. OneTypeOK'
  BY <1>1, <1>2 DEF OneInv, OneTypeOK, One!NoPoints
<1>4. OnePointsValid'
  BY DEF One!NoPoints, OnePointsValid
<1>5. OneRests' /\ OneSkips'
  BY DEF OneInv, OneRests, OneSkips, OneStopped, One!Prompt
<1> QED BY <1>3, <1>4, <1>5 DEF OneInv

\* Editing points that are valid keeps the invariant.
LEMMA OneEdits ==
    ASSUME OneInv, OnePointsValid', next_watchpoint_id' \in Nat,
           UNCHANGED <<oneCode, oneCpu, last_stop, oneCommand, maxSteps, executedSteps,
                       skipInitialBreakpoint, sourceLineBefore, oneResting>>
    PROVE  OneInv'
<1>1. OneTypeOK'
  BY DEF OneInv, OneTypeOK
<1>2. OneReady' = OneReady /\ OneStopped' = OneStopped
  BY DEF OneReady, OneStopped, One!classifyStoppedState
<1>3. OneRests'
  BY <1>2 DEF OneInv, OneRests
<1>4. OneSkips'
  BY <1>2 DEF OneInv, OneSkips
<1> QED BY <1>1, <1>3, <1>4 DEF OneInv

\* A command begins: continueExecution skips exactly the breakpoint the session
\* was last stopped by.
LEMMA OneBegins ==
    ASSUME OneInv, NEW name \in {"step", "continue", "source"}, NEW n \in Nat \ {0},
           One!Begin(name, n),
           name = "continue" => skipInitialBreakpoint' = One!SkipsAtStart,
           name = "source" => skipInitialBreakpoint' = TRUE
    PROVE  OneInv'
<1>1. /\ oneCommand = "none" /\ oneCommand' = name /\ maxSteps' = n /\ executedSteps' = 0
      /\ UNCHANGED <<oneCode, oneCpu, last_stop, oneResting, next_watchpoint_id,
                     oneBreakpoints, conditional_breakpoints, oneWatchpoints>>
  BY DEF One!Begin, One!Prompt, One!pointVars
<1>2. OneTypeOK' /\ OnePointsValid'
  BY <1>1 DEF OneInv, OneTypeOK, OnePointsValid
<1>3. OneReady' = OneReady /\ OneStopped' = OneStopped
  BY <1>1 DEF OneReady, OneStopped, One!classifyStoppedState
<1>4. One!SkipsAtStart <=> OneStopped /\ last_stop.pc = oneCpu.pc
  BY DEF One!SkipsAtStart, OneStopped
<1>5. name = "continue" => (skipInitialBreakpoint' <=> One!SkipsAtStart)
  BY Zenon
<1>6. OneRests'
  <2> SUFFICES ASSUME oneResting # 0
               PROVE  /\ oneResting = oneCpu.pc /\ OneReady
                      /\ OneStopped /\ last_stop.pc = oneCpu.pc
                      /\ name \in {"continue", "source"} =>
                            skipInitialBreakpoint' /\ 0 < n
    BY <1>1, <1>3 DEF OneRests
  <2>1. /\ oneResting = oneCpu.pc /\ OneReady
        /\ OneStopped /\ last_stop.pc = oneCpu.pc
    BY DEF OneInv, OneRests
  <2> QED BY <1>4, <1>5, <2>1
<1>7. OneSkips'
  <2>1. name = "continue" /\ skipInitialBreakpoint' => oneResting = oneCpu.pc
    BY <1>1, <1>4, <1>5 DEF OneInv, OneSkips
  <2> QED BY <1>1, <2>1 DEF OneSkips
<1> QED BY <1>2, <1>6, <1>7 DEF OneInv

\* A command returns where the process stands.
LEMMA OneReturns ==
    ASSUME OneInv, NEW s, One!Return(s), One!Unmoved,
           \/ oneResting = 0 /\ oneResting' = 0
                /\ s.reason \notin {"Breakpoint", "ConditionalBreakpoint"}
           \/ /\ oneResting' = oneCpu.pc /\ s.pc = oneCpu.pc /\ OneReady
              /\ s.reason \in {"Breakpoint", "ConditionalBreakpoint"}
    PROVE  OneInv'
<1>1. /\ oneCommand' = "none" /\ last_stop' = s /\ executedSteps' = 0 /\ maxSteps' = 0
      /\ skipInitialBreakpoint' = FALSE
      /\ UNCHANGED <<oneCode, oneCpu, next_watchpoint_id,
                     oneBreakpoints, conditional_breakpoints, oneWatchpoints>>
  BY DEF One!Return, One!Unmoved, One!pointVars
<1>2. oneResting' \in Nat
  BY DEF OneInv, OneTypeOK
<1>3. OneTypeOK' /\ OnePointsValid'
  BY <1>1, <1>2 DEF OneInv, OneTypeOK, OnePointsValid
<1>4. OneReady' = OneReady
  BY <1>1 DEF OneReady, One!classifyStoppedState
<1>5. OneRests' /\ OneSkips'
  BY <1>1, <1>4 DEF OneRests, OneSkips, OneStopped
<1> QED BY <1>3, <1>5 DEF OneInv

\* cpu_.step() and what follows it.
LEMMA OneExecuteKeeps ==
    ASSUME OneInv, One!Execute
    PROVE  OneInv'
<1> DEFINE stopped == One!StopAfter(oneCpu', access')
           reported == stopped # <<>> /\ stopped[1].reason
                          \in {"Breakpoint", "ConditionalBreakpoint"}
<1>1. /\ oneCommand # "none" /\ OneReady /\ oneCpu' = One!Executed(oneCpu)
      /\ UNCHANGED <<oneCode, next_watchpoint_id,
                     oneBreakpoints, conditional_breakpoints, oneWatchpoints>>
      /\ oneResting' = IF reported THEN oneCpu'.pc ELSE 0
      /\ IF stopped # <<>> THEN One!Return(stopped[1])
         ELSE /\ executedSteps' = executedSteps + 1
              /\ skipInitialBreakpoint' = FALSE
              /\ oneCommand' = oneCommand /\ maxSteps' = maxSteps
  BY DEF One!Execute, One!LoopTurns, OneReady, One!pointVars
<1>2. /\ oneCpu'.pc \in 1 .. Len(oneCode) + 1
      /\ oneCpu'.state \in {"ok", "halted", "error"}
  BY <1>1, OneExecutes DEF OneInv
<1>3. Len(oneCode) \in Nat \/ oneCpu'.pc \in Nat
  BY <1>2
<1>4. /\ skipInitialBreakpoint' = FALSE
      /\ oneCommand' \in {"none", "step", "continue", "source"}
      /\ executedSteps' \in Nat /\ maxSteps' \in Nat
  BY <1>1 DEF One!Return, OneInv, OneTypeOK
<1>5. stopped # <<>> => /\ oneCommand' = "none" /\ last_stop' = stopped[1]
                        /\ reported => /\ stopped[1].pc = oneCpu'.pc
                                       /\ One!classifyStoppedState(oneCpu') = "Ready"
  BY <1>1, StopAfterReports DEF One!Return, OneInv
<1>6. OneReady' <=> One!classifyStoppedState(oneCpu') = "Ready"
  BY <1>1 DEF OneReady, One!classifyStoppedState
<1> HIDE DEF stopped
<1>7. OneTypeOK' /\ OnePointsValid'
  BY <1>1, <1>2, <1>3, <1>4 DEF OneInv, OneTypeOK, OnePointsValid
<1>8. OneRests'
  BY <1>1, <1>5, <1>6 DEF OneRests, OneStopped
<1>9. OneSkips'
  BY <1>1, <1>4, <1>5 DEF OneSkips, OneStopped
<1> QED BY <1>7, <1>8, <1>9 DEF OneInv

\* Every load, edit, command and pass of a session of one process keeps the
\* invariant.
LEMMA OneNextInv == OneInv /\ [One!Next]_oneVars => OneInv'
<1> SUFFICES ASSUME OneInv, [One!Next]_oneVars PROVE OneInv'
  OBVIOUS
<1>1. ASSUME NEW c \in Executables, One!Prompt, One!Loaded(c) PROVE OneInv'
  <2>1. /\ oneCode' = c /\ oneCpu' = One!FreshCpu /\ One!NoPoints
        /\ last_stop'.reason = "Ready" /\ oneResting' = 0
        /\ UNCHANGED <<oneCommand, maxSteps, executedSteps, skipInitialBreakpoint,
                       sourceLineBefore>>
    BY <1>1 DEF One!Loaded, One!StopAs, One!loopVars
  <2> QED BY <1>1, <2>1, OneLoads
<1>2. ASSUME One!Reset PROVE OneInv'
  <2>1. /\ One!Prompt /\ oneCode' = <<>> /\ oneCpu' = One!FreshCpu /\ One!NoPoints
        /\ last_stop'.reason = "Ready" /\ oneResting' = 0
        /\ UNCHANGED <<oneCommand, maxSteps, executedSteps, skipInitialBreakpoint,
                       sourceLineBefore>>
    BY <1>2 DEF One!Reset, One!StopAs, One!loopVars
  <2> QED BY <2>1, OneLoads
<1>3. ASSUME NEW f \in SymbolFiles, One!LoadSymbolsFile(f) PROVE OneInv'
  <2>1. /\ UNCHANGED <<oneCode, oneCpu, last_stop, oneCommand, maxSteps, executedSteps,
                       skipInitialBreakpoint, sourceLineBefore, oneResting,
                       next_watchpoint_id, oneBreakpoints, conditional_breakpoints,
                       oneWatchpoints>>
    BY <1>3 DEF One!LoadSymbolsFile, One!loopVars, One!pointVars
  <2>2. OnePointsValid' /\ next_watchpoint_id' \in Nat
    BY <2>1 DEF OneInv, OneTypeOK, OnePointsValid
  <2> QED BY <2>1, <2>2, OneEdits
<1>4. ASSUME One!Edit, OnePointsValid', next_watchpoint_id' \in Nat PROVE OneInv'
  <2>1. UNCHANGED <<oneCode, oneCpu, last_stop, oneCommand, maxSteps, executedSteps,
                    skipInitialBreakpoint, sourceLineBefore, oneResting>>
    BY <1>4 DEF One!Edit, One!loopVars
  <2> QED BY <1>4, <2>1, OneEdits
<1>5. ASSUME NEW a, One!AddBreakpoint(a) PROVE OneInv'
  <2>1. /\ One!Edit /\ oneCode' = oneCode
        /\ \A b \in oneBreakpoints' : b \in oneBreakpoints \/ b \in 1 .. Len(oneCode)
        /\ UNCHANGED <<conditional_breakpoints, oneWatchpoints, next_watchpoint_id>>
    BY <1>5 DEF One!AddBreakpoint, One!Edit, One!validateBreakpointAddress
  <2>2. OnePointsValid' /\ next_watchpoint_id' \in Nat
    BY <2>1 DEF OneInv, OneTypeOK, OnePointsValid
  <2> QED BY <1>4, <2>1, <2>2
<1>6. ASSUME NEW as, \/ One!RemoveBreakpoints(as)
                     \/ One!RemoveConditionalBreakpoints(as)
                     \/ One!RemoveWatchpoints(as)
      PROVE  OneInv'
  <2>1. /\ One!Edit /\ oneCode' = oneCode /\ next_watchpoint_id' = next_watchpoint_id
        /\ oneBreakpoints' \subseteq oneBreakpoints
        /\ conditional_breakpoints' \subseteq conditional_breakpoints
        /\ oneWatchpoints' \subseteq oneWatchpoints
    BY <1>6 DEF One!RemoveBreakpoints, One!RemoveConditionalBreakpoints,
                One!RemoveWatchpoints, One!Edit
  <2>2. OnePointsValid' /\ next_watchpoint_id' \in Nat
    BY <2>1 DEF OneInv, OneTypeOK, OnePointsValid
  <2> QED BY <1>4, <2>1, <2>2
<1>7. ASSUME NEW a, NEW d \in Conditions, One!AddConditionalBreakpoint(a, d)
      PROVE  OneInv'
  <2>1. /\ One!Edit /\ oneCode' = oneCode
        /\ \A b \in conditional_breakpoints' :
              b \in conditional_breakpoints \/ b.address \in 1 .. Len(oneCode)
        /\ UNCHANGED <<oneBreakpoints, oneWatchpoints, next_watchpoint_id>>
    BY <1>7 DEF One!AddConditionalBreakpoint, One!Edit, One!validateBreakpointAddress
  <2>2. OnePointsValid' /\ next_watchpoint_id' \in Nat
    BY <2>1 DEF OneInv, OneTypeOK, OnePointsValid
  <2> QED BY <1>4, <2>1, <2>2
<1>8. ASSUME NEW w \in Watches, One!AddWatchpoint(w) PROVE OneInv'
  <2>1. /\ One!Edit /\ oneCode' = oneCode
        /\ oneWatchpoints' = oneWatchpoints \cup
               {[id |-> next_watchpoint_id, address |-> w.address,
                 size |-> w.size, mode |-> w.mode]}
        /\ next_watchpoint_id' = next_watchpoint_id + 1
        /\ UNCHANGED <<oneBreakpoints, conditional_breakpoints>>
        /\ w.size > 0
    BY <1>8 DEF One!AddWatchpoint, One!Edit, One!validateWatchpointRange
  <2>2. next_watchpoint_id \in Nat /\ w.address \in Nat /\ w.size \in Nat \ {0}
    <3>1. w.address \in Nat /\ w.size \in Nat
      BY SessionAssumption
    <3> QED BY <2>1, <3>1 DEF OneInv, OneTypeOK
  <2>3. \A v \in oneWatchpoints' : /\ v.id \in Nat /\ v.address \in Nat
                                    /\ v.size \in Nat \ {0}
    BY <2>1, <2>2 DEF OneInv, OnePointsValid
  <2>4. OnePointsValid' /\ next_watchpoint_id' \in Nat
    BY <2>1, <2>2, <2>3 DEF OneInv, OnePointsValid
  <2> QED BY <1>4, <2>1, <2>4
<1>9. ASSUME NEW n \in 1 .. MaxLimit,
             One!StepCommand(n) \/ One!ContinueExecution(n) \/ One!StepSourceLine(n)
      PROVE  OneInv'
  <2>0. n \in Nat \ {0}
    BY DebugAssumption
  <2>1. CASE One!StepCommand(n)
    BY <2>0, <2>1, OneBegins DEF One!StepCommand
  <2>2. CASE One!ContinueExecution(n)
    <3>1. One!Begin("continue", n) /\ skipInitialBreakpoint' = One!SkipsAtStart
      BY <2>2 DEF One!ContinueExecution
    <3> QED BY <2>0, <3>1, OneBegins
  <2>3. CASE One!StepSourceLine(n)
    <3>1. One!Begin("source", n) /\ skipInitialBreakpoint' = TRUE
      BY <2>3 DEF One!StepSourceLine
    <3> QED BY <2>0, <3>1, OneBegins
  <2> QED BY <1>9, <2>1, <2>2, <2>3
<1>10. ASSUME One!Over PROVE OneInv'
  <2> DEFINE s == One!StopAs(One!classifyStoppedState(oneCpu), oneCpu.pc, 0)
  <2>1. /\ One!Return(s) /\ One!Unmoved /\ oneResting' = oneResting /\ ~OneReady
    BY <1>10 DEF One!Over, OneReady
  <2>2. s.reason \in {"Fault", "Halted", "ProgramEnd", "Ready"}
    BY DEF One!StopAs, One!classifyStoppedState
  <2>3. oneResting = 0
    BY <2>1 DEF OneInv, OneRests
  <2> HIDE DEF s
  <2> QED BY <2>1, <2>2, <2>3, OneReturns
<1>11. ASSUME One!BreakpointStop PROVE OneInv'
  <2>1. /\ One!Return(One!Hit(oneCpu)[1]) /\ One!Unmoved /\ oneResting' = oneCpu.pc
        /\ OneReady /\ One!Hit(oneCpu) # <<>>
    BY <1>11 DEF One!BreakpointStop, One!StopsHere, OneReady
  <2>2. /\ One!Hit(oneCpu)[1].reason \in {"Breakpoint", "ConditionalBreakpoint"}
        /\ One!Hit(oneCpu)[1].pc = oneCpu.pc
    BY <2>1, HitReports DEF OneInv
  <2> QED BY <2>1, <2>2, OneReturns
<1>12. ASSUME One!StepLimit PROVE OneInv'
  <2>1. /\ One!Return(One!StopAs("StepLimit", oneCpu.pc, 0)) /\ One!Unmoved
        /\ oneResting' = oneResting /\ executedSteps >= maxSteps
        /\ oneCommand \in {"continue", "source"}
    BY <1>12 DEF One!StepLimit, One!LoopTurns, OneInv, OneTypeOK
  <2>2. oneResting = 0
    <3>1. CASE oneResting # 0
      <4>1. executedSteps < maxSteps
        BY <2>1, <3>1 DEF OneInv, OneRests
      <4> QED BY <2>1, <4>1 DEF OneInv, OneTypeOK
    <3> QED BY <3>1
  <2>3. One!StopAs("StepLimit", oneCpu.pc, 0).reason = "StepLimit"
    BY DEF One!StopAs
  <2> QED BY <2>1, <2>2, <2>3, OneReturns
<1>13. ASSUME UNCHANGED oneVars PROVE OneInv'
  <2>1. OnePointsValid' /\ next_watchpoint_id' \in Nat
    BY <1>13 DEF OneInv, OneTypeOK, OnePointsValid, oneVars
  <2> QED BY <1>13, <2>1, OneEdits DEF oneVars
<1>14. ASSUME One!Next PROVE OneInv'
  <2>1. \/ \E c \in Executables : One!Prompt /\ One!Loaded(c)
        \/ \E f \in SymbolFiles : One!LoadSymbolsFile(f)
        \/ One!Reset
        \/ \E a : \/ One!AddBreakpoint(a)
                  \/ One!RemoveBreakpoints(a) \/ One!RemoveConditionalBreakpoints(a)
                  \/ One!RemoveWatchpoints(a)
                  \/ \E d \in Conditions : One!AddConditionalBreakpoint(a, d)
        \/ \E w \in Watches : One!AddWatchpoint(w)
        \/ \E n \in 1 .. MaxLimit : One!StepCommand(n) \/ One!ContinueExecution(n)
                                     \/ One!StepSourceLine(n)
        \/ One!Over \/ One!BreakpointStop \/ One!StepLimit \/ One!Execute
    BY <1>14 DEF One!Next, One!LoadImage, One!LoadFile, One!BreakLabel, One!Pass
  <2> QED BY <1>1, <1>2, <1>3, <1>5, <1>6, <1>7, <1>8, <1>9, <1>10, <1>11, <1>12,
             <2>1, OneExecuteKeeps
<1> QED BY <1>13, <1>14

-------------------------------------------------------------------------------
(* The two sessions.                                                        *)

\* A behaviour of the two sessions keeps both invariants.
LEMMA SessionsKept ==
    /\ SessionInit => DebugInv /\ OneInv
    /\ DebugInv /\ OneInv /\ [SessionNext]_<<subject, allVars, oneVars>>
          => DebugInv' /\ OneInv'
<1>1. SessionInit => DebugInv /\ OneInv
  BY DebugInitInv, OneInitInv DEF SessionInit
<1>2. ASSUME DebugInv, OneInv, [SessionNext]_<<subject, allVars, oneVars>>
      PROVE  DebugInv' /\ OneInv'
  <2>1. [DebugNext]_allVars /\ [One!Next]_oneVars
    BY <1>2 DEF SessionNext
  <2> QED BY <1>2, <2>1, DebugNextInv, OneNextInv
<1> QED BY <1>1, <1>2

\* continueExecution never runs through a breakpoint or a condition that holds,
\* except to resume from the stop it reported there (MultiProcessDebugSession:
\* or at an instruction that jumps to itself; DebugSession: or with the first
\* instruction of a source step).
THEOREM BreakpointsAreHonoured == SessionSpec => BreakpointsHonoured
<1>1. DebugInv => (command = "continue" /\ LoopStep /\ Ran
                      /\ (BreakpointHit \/ ConditionHit)
                   => resting[runningPid] = cpu.ctx.pc \/ JumpsToItself)
  <2> SUFFICES ASSUME DebugInv, command = "continue", LoopStep,
                      BreakpointHit \/ ConditionHit
               PROVE  resting[runningPid] = cpu.ctx.pc \/ JumpsToItself
    OBVIOUS
  <2>1. /\ ~thrown /\ SkipsHere
    BY DEF LoopStep, LoopTurns, StopsHere
  <2>2. Pass.active /\ Pass.pid = runningPid /\ Pass.address = cpu.ctx.pc
    BY <2>1 DEF SkipsHere
  <2>3. Pass = skip
    BY <2>1, <2>2, PassKeeps, ResetTyped
  <2>4. resting[runningPid] = cpu.ctx.pc \/ SelfJump(runningPid, cpu.ctx.pc)
    BY <2>1, <2>2, <2>3 DEF DebugInv, SkipRested
  <2> QED BY <2>4 DEF SelfJump, JumpsToItself, Op
<1>2. OneInv => (One!Execute /\ oneCommand # "step" /\ One!Hit(oneCpu) # <<>>
                 => oneResting = oneCpu.pc \/ (oneCommand = "source" /\ executedSteps = 0))
  <2> SUFFICES ASSUME OneInv, One!Execute, oneCommand # "step", One!Hit(oneCpu) # <<>>
               PROVE  oneResting = oneCpu.pc \/ (oneCommand = "source" /\ executedSteps = 0)
    OBVIOUS
  <2>1. skipInitialBreakpoint /\ oneCommand \in {"continue", "source"}
    BY DEF One!Execute, One!StopsHere, One!LoopTurns, OneInv, OneTypeOK
  <2> QED BY <2>1 DEF OneInv, OneSkips
<1> QED BY <1>1, <1>2, SessionsKept, PTL
        DEF SessionSpec, BreakpointsHonoured, NoMissedBreakpoint, One!NoMissedBreakpoint

\* A process that was reported at a breakpoint is not reported there again
\* before it has executed the instruction, whichever commands and edits come
\* between (armResumeSkipFromLastStop, skipInitialBreakpoint).
THEOREM ResumingProgresses == SessionSpec => ResumeProgresses
<1>1. DebugInv => (BreakpointStop => resting[runningPid] # cpu.ctx.pc)
  <2> SUFFICES ASSUME DebugInv, BreakpointStop, resting[runningPid] = cpu.ctx.pc
               PROVE  FALSE
    OBVIOUS
  <2>1. ~thrown /\ command # "none" /\ ~SkipsHere /\ phase = "Running"
    BY DEF BreakpointStop, LoopTurns, StopsHere, DebugInv
  <2>2. runningPid \in Pid /\ cpu.ctx.pc # 0
    BY <2>1, ExecutedTyped DEF DebugInv, Active, Context
  <2>3. skip.active /\ skip.pid = runningPid /\ skip.address = cpu.ctx.pc
    BY <2>1, <2>2 DEF DebugInv, RestingCovered
  <2>4. Pass = skip
    BY <2>1, <2>3, PassKeeps
  <2> QED BY <2>1, <2>3, <2>4 DEF SkipsHere
<1>2. OneInv => (One!BreakpointStop => oneResting # oneCpu.pc)
  <2> SUFFICES ASSUME OneInv, One!BreakpointStop, oneResting = oneCpu.pc
               PROVE  FALSE
    OBVIOUS
  <2>1. /\ oneCommand \in {"continue", "source"} /\ ~skipInitialBreakpoint
        /\ One!Hit(oneCpu) # <<>>
    BY DEF One!BreakpointStop, One!StopsHere, One!LoopTurns, OneInv, OneTypeOK
  <2>2. oneCpu.pc # 0
    BY <2>1, HitReports DEF OneInv
  <2> QED BY <2>1, <2>2 DEF OneInv, OneRests
<1> QED BY <1>1, <1>2, SessionsKept, PTL
        DEF SessionSpec, ResumeProgresses, NoRepeatedStop, One!NoRepeatedStop

\* A source step that reports completion has moved: the selected process, not
\* merely the Running one, is at another line (stepSelectedSourceLine), and so
\* is the one process of a DebugSession (stepSourceLine).
THEOREM SourceStepsAlwaysMove == SessionSpec => SourceStepsMove
<1>1. DebugInv => (SourceLineReached => /\ Machine[selected].pc \in Mapped
                                        /\ Machine[selected].pc # source.at)
  BY DEF SourceLineReached, LoopTurns, DebugInv, SourceMoved
<1>2. OneInv /\ [One!Next]_oneVars =>
        (oneCommand = "source" /\ oneCommand' = "none" /\ last_stop'.reason = "StepComplete"
         => \E line \in One!sourceLineForAddress(oneCpu'.pc) : line # sourceLineBefore)
  <2> SUFFICES ASSUME OneInv, [One!Next]_oneVars, oneCommand = "source",
                      oneCommand' = "none", last_stop'.reason = "StepComplete"
               PROVE  \E line \in One!sourceLineForAddress(oneCpu'.pc) :
                          line # sourceLineBefore
    OBVIOUS
  <2>1. One!Pass
    BY DEF One!Next, One!Pass, One!LoadImage, One!LoadFile, One!LoadSymbolsFile, One!Reset,
           One!AddBreakpoint, One!RemoveBreakpoints, One!AddConditionalBreakpoint,
           One!BreakLabel, One!AddWatchpoint, One!RemoveConditionalBreakpoints,
           One!RemoveWatchpoints, One!StepCommand, One!ContinueExecution,
           One!StepSourceLine, One!Begin, One!Edit, One!Prompt, oneVars
  <2>2. CASE One!Over
    BY <2>2 DEF One!Over, One!Return, One!StopAs, One!classifyStoppedState
  <2>3. CASE One!BreakpointStop
    <3>1. last_stop' = One!Hit(oneCpu)[1] /\ One!Hit(oneCpu) # <<>>
      BY <2>3 DEF One!BreakpointStop, One!Return, One!StopsHere
    <3> QED BY <3>1, HitReports DEF OneInv
  <2>4. CASE One!StepLimit
    BY <2>4 DEF One!StepLimit, One!Return, One!StopAs
  <2>5. CASE One!Execute
    <3>1. /\ One!StopAfter(oneCpu', access') # <<>>
          /\ last_stop' = One!StopAfter(oneCpu', access')[1]
      BY <2>5 DEF One!Execute, One!Return
    <3> QED BY <3>1, StopAfterReports DEF OneInv
  <2> QED BY <2>1, <2>2, <2>3, <2>4, <2>5 DEF One!Pass
<1>3. [SessionNext]_<<subject, allVars, oneVars>> => [One!Next]_oneVars
  BY DEF SessionNext
<1> QED BY <1>1, <1>2, <1>3, SessionsKept, PTL
        DEF SessionSpec, SourceStepsMove, SourceStepMoves, One!SourceStepMoves

\* An access and a watched range overlap, as findWatchpointHit compares them,
\* if and only if they share a byte.
LEMMA OverlapIsShared ==
    ASSUME NEW a \in Nat, NEW b \in Nat, NEW n \in Nat \ {0}
    PROVE  b < a + 2 /\ a < b + n <=> \E x \in {a, a + 1} : x \in b .. b + n - 1
<1>1. (\E x \in {a, a + 1} : x \in b .. b + n - 1)
        <=> a \in b .. b + n - 1 \/ a + 1 \in b .. b + n - 1
  OBVIOUS
<1> QED BY <1>1

\* A watched access is reported by the step that made it, also when that step
\* ends the quantum (MultiProcessDebugSession::step), and DebugSession stops
\* with a watchpoint exactly when the instruction touched a watched byte in
\* that way and did not fail, and names such a watchpoint (findWatchpointHit).
THEOREM WatchpointsAreHonoured == SessionSpec => WatchpointsHonoured
<1>1. DebugInv => ((StepCommand \/ LoopStep) /\ WatchpointHit
                   => stop'.reason = "Watchpoint" /\ stop'.pid = runningPid
                      /\ command' = "none")
  <2> SUFFICES ASSUME DebugInv, StepCommand \/ LoopStep, WatchpointHit
               PROVE  /\ stop'.reason = "Watchpoint" /\ stop'.pid = runningPid
                      /\ command' = "none"
    OBVIOUS
  <2>1. PICK sk : DebugStep(sk)
    BY DEF StepCommand, LoopStep
  <2>2. RuntimeInv /\ NoInheritedTimerRequest /\ LifecycleStep
    BY <2>1 DEF DebugStep, DebugInv
  <2>3. /\ Active /\ runningPid \in Pid /\ InCode(code[runningPid], cpu.ctx.pc)
        /\ Executed.out = "ok" => ~thrown'
    BY <2>2, StepExecutes DEF WatchpointHit
  <2>4. Executed = Exec(code[runningPid], cpu.ctx, host)
    BY <2>2, <2>3, ExecutedTyped DEF Executed
  <2>5. Executed.out = "ok"
    BY <2>3, <2>4 DEF WatchpointHit, Op, Exec, Result
  <2>6. stop' = StepStop /\ ~thrown'
    BY <2>1, <2>3, <2>5 DEF DebugStep
  <2>7. stop' = HitAt("Watchpoint", runningPid, 0)
    BY <2>5, <2>6 DEF StepStop, Endings
  <2>8. stop'.reason = "Watchpoint" /\ stop'.pid = runningPid
    BY <2>7 DEF HitAt
  <2>9. command' = "none"
    BY <2>8 DEF StepCommand, LoopStep, Prompt
  <2> QED BY <2>8, <2>9
<1>2. ASSUME OneInv, One!Execute
      PROVE  LET i == oneCode[oneCpu.pc]
                 bytes == {i.at, i.at + 1}
                 touched == {w \in oneWatchpoints :
                               /\ <<i.op, w.mode>> \in {"ld"} \X {"Read", "Access"} \cup
                                                      {"st"} \X {"Write", "Access"}
                               /\ \E b \in bytes : b \in w.address .. w.address + w.size - 1}
                 stopped == oneCommand' = "none" /\ last_stop'.reason = "Watchpoint"
             IN /\ stopped <=> touched # {} /\ oneCpu'.state = "ok"
                /\ stopped => \E w \in touched : w.id = last_stop'.id
  <2> DEFINE i == oneCode[oneCpu.pc]
             bytes == {i.at, i.at + 1}
             touched == {w \in oneWatchpoints :
                           /\ <<i.op, w.mode>> \in {"ld"} \X {"Read", "Access"} \cup
                                                  {"st"} \X {"Write", "Access"}
                           /\ \E b \in bytes : b \in w.address .. w.address + w.size - 1}
             acc == One!AccessOf(i)
             watch == One!findWatchpointHit(acc)
             reason == One!classifyStoppedState(oneCpu')
             after == One!StopAfter(oneCpu', acc)
  <2>1. /\ OneReady /\ oneCommand # "none" /\ oneCpu' = One!Executed(oneCpu)
        /\ IF after # <<>> THEN oneCommand' = "none" /\ last_stop' = after[1]
           ELSE oneCommand' = oneCommand
    BY <1>2 DEF One!Execute, One!Return, One!LoopTurns, OneReady
  <2>2. /\ i.at \in Nat /\ oneCpu'.state \in {"ok", "halted", "error"}
    BY <1>2, <2>1, OneExecutes DEF OneInv
  <2>3. touched = {w \in oneWatchpoints : acc # <<>> /\ One!Watched(w, acc)}
    <3>1. CASE i.op = "ld"
      <4>1. acc = <<i.at, "Read">>
        BY <3>1 DEF One!AccessOf
      <4> HIDE DEF i, acc
      <4>2. ASSUME NEW w \in oneWatchpoints
            PROVE  w \in touched <=> acc # <<>> /\ One!Watched(w, acc)
        <5>1. w.address \in Nat /\ w.size \in Nat \ {0}
          BY <1>2 DEF OneInv, OnePointsValid
        <5>2. w.address < i.at + 2 /\ i.at < w.address + w.size
                <=> \E b \in bytes : b \in w.address .. w.address + w.size - 1
          BY <2>2, <5>1, OverlapIsShared
        <5>3. <<i.op, w.mode>> \in {"ld"} \X {"Read", "Access"} \cup
                                   {"st"} \X {"Write", "Access"}
                <=> w.mode \in {"Access", "Read"}
          BY <3>1
        <5> QED BY <4>1, <5>2, <5>3 DEF One!Watched
      <4> QED BY <4>2
    <3>2. CASE i.op = "st"
      <4>1. acc = <<i.at, "Write">>
        BY <3>2 DEF One!AccessOf
      <4> HIDE DEF i, acc
      <4>2. ASSUME NEW w \in oneWatchpoints
            PROVE  w \in touched <=> acc # <<>> /\ One!Watched(w, acc)
        <5>1. w.address \in Nat /\ w.size \in Nat \ {0}
          BY <1>2 DEF OneInv, OnePointsValid
        <5>2. w.address < i.at + 2 /\ i.at < w.address + w.size
                <=> \E b \in bytes : b \in w.address .. w.address + w.size - 1
          BY <2>2, <5>1, OverlapIsShared
        <5>3. <<i.op, w.mode>> \in {"ld"} \X {"Read", "Access"} \cup
                                   {"st"} \X {"Write", "Access"}
                <=> w.mode \in {"Access", "Write"}
          BY <3>2
        <5> QED BY <4>1, <5>2, <5>3 DEF One!Watched
      <4> QED BY <4>2
    <3>3. CASE i.op \notin {"ld", "st"}
      <4>1. acc = <<>>
        BY <3>3 DEF One!AccessOf
      <4>2. touched = {}
        BY <3>3
      <4> QED BY <4>1, <4>2
    <3> QED BY <3>1, <3>2, <3>3
  <2> HIDE DEF touched, acc, watch, after
  <2>4. /\ touched = {} => watch = <<>>
        /\ touched # {} => watch # <<>> /\ watch[1] \in touched
    <3>1. \A w \in touched : w.id \in Nat
      BY <1>2, <2>3 DEF OneInv, OnePointsValid
    <3>2. /\ touched = {} => One!First(touched) = <<>>
          /\ touched # {} => One!First(touched) # <<>> /\ One!First(touched)[1] \in touched
      BY <3>1, FirstFound
    <3>3. CASE acc = <<>>
      BY <2>3, <3>3 DEF watch, One!findWatchpointHit
    <3>4. CASE acc # <<>>
      <4>1. touched = {w \in oneWatchpoints : One!Watched(w, acc)}
        BY <2>3, <3>4
      <4>2. watch = One!First(touched)
        BY <3>4, <4>1 DEF watch, One!findWatchpointHit
      <4> QED BY <3>2, <4>2
    <3> QED BY <3>3, <3>4
  <2>5. /\ reason \in {"Fault", "Halted"} <=> oneCpu'.state # "ok"
        /\ reason \in {"Fault", "Halted", "ProgramEnd", "Ready"}
    BY <2>2 DEF One!classifyStoppedState
  <2> HIDE DEF reason
  <2>6. CASE oneCpu'.state # "ok"
    <3>1. after = <<One!StopAs(reason, oneCpu'.pc, 0)>>
      BY <2>5, <2>6 DEF after, One!StopAfter, reason, watch
    <3>2. last_stop'.reason \in {"Fault", "Halted"}
      BY <2>1, <2>5, <2>6, <3>1 DEF One!StopAs
    <3> QED BY <2>6, <3>2 DEF touched
  <2>7. CASE oneCpu'.state = "ok" /\ touched # {}
    <3>1. after = <<One!StopAs("Watchpoint", oneCpu'.pc, watch[1].id)>>
      BY <2>4, <2>5, <2>7 DEF after, One!StopAfter, reason, watch
    <3>2. /\ oneCommand' = "none" /\ last_stop'.reason = "Watchpoint"
          /\ last_stop'.id = watch[1].id
      BY <2>1, <3>1 DEF One!StopAs
    <3> QED BY <2>4, <2>7, <3>2 DEF touched
  <2>8. CASE oneCpu'.state = "ok" /\ touched = {}
    <3>1. after # <<>> => after[1].reason # "Watchpoint"
      <4>1. CASE reason # "Ready"
        BY <2>4, <2>5, <2>8, <4>1 DEF after, One!StopAfter, One!StopAs, reason, watch
      <4>2. CASE reason = "Ready"
        <5>1. after \in {<<One!StopAs("StepComplete", oneCpu'.pc, 0)>>, <<>>,
                         One!Hit(oneCpu')}
          BY <2>4, <2>8, <4>2 DEF after, One!StopAfter, reason, watch
        <5>2. One!Hit(oneCpu') # <<>> =>
                One!Hit(oneCpu')[1].reason \in {"Breakpoint", "ConditionalBreakpoint"}
          BY <1>2, HitReports DEF OneInv
        <5> QED BY <5>1, <5>2 DEF One!StopAs
      <4> QED BY <4>1, <4>2
    <3> QED BY <2>1, <2>8, <3>1 DEF touched
  <2> QED BY <2>6, <2>7, <2>8
<1> QED BY <1>1, <1>2, SessionsKept, PTL
        DEF SessionSpec, WatchpointsHonoured, NoMissedWatchpoint, One!NoMissedWatchpoint
===============================================================================
