----------------------- MODULE MultiProcessDebugSession -----------------------
(***************************************************************************)
(* MultiProcessDebugSession: breakpoints, conditional breakpoints and      *)
(* watchpoints per process, and the commands step, continueExecution and   *)
(* stepSelectedSourceLine around the runtime of ProcessRuntime (its driver *)
(* halts a process at the end of its code the way MultiProcessRunner does).*)
(* A pass through the loop of a command is one action.                     *)
(***************************************************************************)
EXTENDS ProcessRuntime, FiniteSets

CONSTANTS
    Places,      \* <<pid, address>> pairs the user sets breakpoints at
    CondValues,  \* register values conditional breakpoints compare with
    WatchModes,  \* subset of {"Read", "Write", "Access"}
    Mapped,      \* code addresses in the source map, one line each
    MaxPoints,   \* bound: points set at one time
    MaxLimit     \* bound: largest maxSteps argument

ASSUME DebugAssumption ==
    /\ Driver = "runner"
    /\ Places \subseteq Pid \X Nat
    /\ CondValues \subseteq Value
    /\ WatchModes \subseteq {"Read", "Write", "Access"}
    /\ Mapped \subseteq Nat
    /\ MaxPoints \in Nat
    /\ MaxLimit \in Nat \ {0}

VARIABLES
    breakpoints,   \* {<<pid, address>>}
    conditions,    \* conditional_breakpoints_: [pid, address, reg]
    watchpoints,   \* [pid, mode]
    selected,      \* selected_pid_
    skip,          \* resume_skip_active_, resume_skip_pid_, resume_skip_address_
    stop,          \* last_stop_: its reason and debug hit
    command,       \* the loop in progress: "none", "continue" or "source"
    left,          \* maxSteps minus the steps executed by that loop
    source,        \* locals of stepSelectedSourceLine, and whether the selected
                   \* process has executed since it began (history)
    resting        \* history: address each process was last reported at by a
                   \* breakpoint and where it has not executed since, or 0

pointVars == <<breakpoints, conditions, watchpoints>>

debugVars == <<pointVars, selected, skip, stop, command, left, source, resting>>

allVars == <<vars, debugVars>>

NoSkip == [active |-> FALSE, pid |-> 1, address |-> 0]

NoSource == [at |-> 0, skip |-> FALSE, changed |-> FALSE, ran |-> FALSE]

StopFor(reason) == [reason |-> reason, pid |-> 0, address |-> 0]

HitAt(reason, p, a) == [reason |-> reason, pid |-> p, address |-> a]

DebugInit ==
    /\ Init
    /\ blocked = {}
    /\ breakpoints = {}
    /\ conditions = {}
    /\ watchpoints = {}
    /\ selected = 0
    /\ skip = NoSkip
    /\ stop = StopFor("Ready")
    /\ command = "none"
    /\ left = 0
    /\ source = NoSource
    /\ resting = [p \in Pid |-> 0]

\* initialize: the first dispatch, and the Running process is selected.
Initialize ==
    /\ Start
    /\ selected' = runningPid'
    /\ UNCHANGED <<pointVars, skip, stop, command, left, source, resting>>

-------------------------------------------------------------------------------
(* Between two commands the user edits the points and the selection.        *)

Prompt == command = "none" /\ phase # "New" /\ ~thrown

ValidPlace(p, a) == InCode(code[p], a)

Room == Cardinality(breakpoints) + Cardinality(conditions)
        + Cardinality(watchpoints) < MaxPoints

Edit == /\ Prompt
        /\ UNCHANGED <<vars, skip, stop, command, left, source, resting>>

AddBreakpoint(p, a) ==
    /\ Edit
    /\ Room
    /\ ValidPlace(p, a)
    /\ breakpoints' = breakpoints \cup {<<p, a>>}
    /\ UNCHANGED <<conditions, watchpoints, selected>>

RemoveBreakpoint(p, a) ==
    /\ Edit
    /\ breakpoints' = breakpoints \ {<<p, a>>}
    /\ UNCHANGED <<conditions, watchpoints, selected>>

AddCondition(p, a, v) ==
    /\ Edit
    /\ Room
    /\ ValidPlace(p, a)
    /\ conditions' = conditions \cup {[pid |-> p, address |-> a, reg |-> v]}
    /\ UNCHANGED <<breakpoints, watchpoints, selected>>

AddWatchpoint(p, m) ==
    /\ Edit
    /\ Room
    /\ watchpoints' = watchpoints \cup {[pid |-> p, mode |-> m]}
    /\ UNCHANGED <<breakpoints, conditions, selected>>

\* removeConditionalBreakpoint and removeWatchpoint take an identifier.
RemoveById ==
    /\ Edit
    /\ \/ /\ \E d \in conditions : conditions' = conditions \ {d}
          /\ UNCHANGED watchpoints
       \/ /\ \E w \in watchpoints : watchpoints' = watchpoints \ {w}
          /\ UNCHANGED conditions
    /\ UNCHANGED <<breakpoints, selected>>

\* The clear functions, each for one PID or for all of them.
ClearPoints(ps) ==
    /\ Edit
    /\ \/ /\ breakpoints' = {b \in breakpoints : b[1] \notin ps}
          /\ UNCHANGED <<conditions, watchpoints>>
       \/ /\ conditions' = {d \in conditions : d.pid \notin ps}
          /\ UNCHANGED <<breakpoints, watchpoints>>
       \/ /\ watchpoints' = {w \in watchpoints : w.pid \notin ps}
          /\ UNCHANGED <<breakpoints, conditions>>
    /\ UNCHANGED selected

SelectProcess(p) == Edit /\ selected' = p /\ UNCHANGED pointVars

-------------------------------------------------------------------------------
(* One debugger step.                                                       *)

\* The trace grew: the CPU executed an instruction in this lifecycle step.
Ran == /\ ~PreemptionDue(cpu.ctx, PendingAtStep)
       /\ Executed.out # "done"

Op == code[runningPid][cpu.ctx.pc].op

\* findWatchpointHit: only LOAD and STORE have a memory detail in the trace.
WatchpointHit ==
    /\ Ran
    /\ Op \in {"ld", "st"}
    /\ \E w \in watchpoints :
           /\ w.pid = runningPid
           /\ w.mode \in {"Access", IF Op = "st" THEN "Write" ELSE "Read"}

\* findConditionalBreakpointHit on the CPU of the Running process.
ConditionHit ==
    [pid |-> runningPid, address |-> cpu.ctx.pc, reg |-> cpu.ctx.reg] \in conditions

BreakpointHit == <<runningPid, cpu.ctx.pc>> \in breakpoints

\* refreshResumeSkip: the skip is over when the process has ended or has
\* moved on.  The pid and address of a skip that is over are never read.
Refreshed(sk, m, ps) ==
    IF ps[sk.pid] = "Terminated" \/ m[sk.pid].pc # sk.address
    THEN NoSkip ELSE sk

\* armResumeSkipFromLastStop
Armed == IF stop.reason \in {"Breakpoint", "Conditional"}
         THEN [active |-> TRUE, pid |-> stop.pid, address |-> stop.address]
         ELSE skip

TerminalReason == IF phase' = "Completed" THEN "Completed" ELSE "Deadlocked"

\* The stop of step(), by priority: a process that ended, a watchpoint of the
\* process that was running, the end of the runtime.
StepStop ==
    IF ~PreemptionDue(cpu.ctx, PendingAtStep) /\ Executed.out \in Endings
    THEN StopFor(IF Executed.out = "fault" THEN "Faulted" ELSE "Terminated")
    ELSE IF WatchpointHit THEN HitAt("Watchpoint", runningPid, 0)
    ELSE IF phase' # "Running" THEN StopFor(TerminalReason)
    ELSE StopFor("StepComplete")

\* lifecycle.step and the bookkeeping of step().
DebugStep(sk) ==
    /\ LifecycleStep
    /\ skip' = IF thrown' THEN sk ELSE Refreshed(sk, Machine', pstate')
    /\ stop' = IF thrown' THEN stop ELSE StepStop
    /\ resting' = IF Ran THEN [resting EXCEPT ![runningPid] = 0] ELSE resting
    /\ UNCHANGED <<pointVars, selected>>

\* The commands of a run that is over change only the stop.
AfterRun ==
    /\ Prompt
    /\ phase # "Running"
    /\ stop' = StopFor(IF phase = "Completed" THEN "Completed" ELSE "Deadlocked")
    /\ UNCHANGED <<vars, pointVars, selected, skip, command, left, source, resting>>

StepCommand ==
    /\ Prompt
    /\ phase = "Running"
    /\ DebugStep(skip)
    /\ UNCHANGED <<command, left, source>>

-------------------------------------------------------------------------------
(* The loops.                                                               *)

ContinueExecution(n) ==
    /\ Prompt
    /\ phase = "Running"
    /\ command' = "continue"
    /\ left' = n
    /\ skip' = Armed
    /\ UNCHANGED <<vars, pointVars, selected, stop, source, resting>>

\* The selected process must be alive and stand on a mapped line.
StepSelectedSourceLine(n) ==
    /\ Prompt
    /\ phase = "Running"
    /\ pstate[selected] # "Terminated"
    /\ Machine[selected].pc \in Mapped
    /\ command' = "source"
    /\ left' = n
    /\ skip' = Armed
    /\ source' = [NoSource EXCEPT !.at = Machine[selected].pc, !.skip = TRUE]
    /\ UNCHANGED <<vars, pointVars, selected, stop, resting>>

\* The command returns with stop s.
Return(s) ==
    /\ command' = "none"
    /\ stop' = s
    /\ source' = NoSource
    /\ left' = 0
    /\ UNCHANGED <<vars, pointVars, selected>>

\* A pass begins with refreshResumeSkip.
Pass == Refreshed(skip, Machine, pstate)

\* Mutant: the address of the skip decides, whichever process runs.
MutSkipsHere ==
    \/ Pass.active /\ Pass.address = cpu.ctx.pc
    \/ /\ command = "source"
       /\ source.skip /\ runningPid = selected /\ cpu.ctx.pc = source.at

SkipsHere ==
    \/ Pass.active /\ Pass.pid = runningPid /\ Pass.address = cpu.ctx.pc
    \/ /\ command = "source"
       /\ source.skip /\ runningPid = selected /\ cpu.ctx.pc = source.at

StopsHere == (BreakpointHit \/ ConditionHit) /\ ~SkipsHere

LoopTurns == command # "none" /\ ~thrown

\* continueExecution looks at its limit before the breakpoints,
\* stepSelectedSourceLine after them.
AtLimit == left = 0

BreakpointStop ==
    /\ LoopTurns
    /\ command = "continue" => ~AtLimit
    /\ StopsHere
    /\ Return(HitAt(IF BreakpointHit THEN "Breakpoint" ELSE "Conditional",
                    runningPid, cpu.ctx.pc))
    /\ skip' = Pass
    /\ resting' = [resting EXCEPT ![runningPid] = cpu.ctx.pc]

SourceLineReached ==
    /\ LoopTurns
    /\ command = "source"
    /\ ~StopsHere
    /\ source.changed
    /\ Return(StopFor("StepComplete"))
    /\ skip' = Pass
    /\ UNCHANGED resting

StepLimit ==
    /\ LoopTurns
    /\ AtLimit
    /\ command = "source" => ~StopsHere /\ ~source.changed
    /\ Return(StopFor("StepLimit"))
    /\ skip' = IF command = "source" THEN Pass ELSE skip
    /\ UNCHANGED resting

\* Mutant: the line of the Running process decides.
MutSourceAfter ==
    LET pc == cpu'.ctx.pc
    IN [source EXCEPT !.skip = Machine'[selected].pc = source.at,
                      !.changed = pc \in Mapped /\ pc # source.at]

\* After a step of stepSelectedSourceLine; an unmapped address is passed over.
SourceAfter ==
    LET pc == Machine'[selected].pc
    IN [source EXCEPT !.skip = pc = source.at,
                      !.changed = pc \in Mapped /\ pc # source.at,
                      !.ran = @ \/ (Ran /\ runningPid = selected)]

\* Mutant: only the steps of the selected process count.
MutLeftAfter == IF runningPid = selected THEN left - 1 ELSE left

LeftAfter == left - 1

LoopStep ==
    /\ LoopTurns
    /\ ~AtLimit
    /\ ~StopsHere
    /\ ~source.changed
    /\ DebugStep(Pass)
    /\ IF thrown' \/ stop'.reason # "StepComplete"
       THEN command' = "none" /\ left' = 0 /\ source' = NoSource
       ELSE /\ left' = LeftAfter
            /\ source' = IF command = "source" THEN SourceAfter ELSE source
            /\ UNCHANGED command

\* Nothing follows an exception of lifecycle.step.
Gone == thrown /\ UNCHANGED allVars

DebugNext ==
    \/ Initialize
    \/ \E b \in Places : AddBreakpoint(b[1], b[2]) \/ RemoveBreakpoint(b[1], b[2])
    \/ \E b \in Places, v \in CondValues : AddCondition(b[1], b[2], v)
    \/ \E p \in Pid, m \in WatchModes : AddWatchpoint(p, m)
    \/ RemoveById
    \/ \E p \in Pid : ClearPoints({p}) \/ SelectProcess(p)
    \/ ClearPoints(Pid)
    \/ AfterRun
    \/ StepCommand
    \/ \E n \in 1 .. MaxLimit : ContinueExecution(n) \/ StepSelectedSourceLine(n)
    \/ BreakpointStop
    \/ SourceLineReached
    \/ StepLimit
    \/ LoopStep
    \/ Gone

\* The loops of the commands run on one thread until they return.
DebugFairness == WF_allVars(BreakpointStop \/ SourceLineReached \/ StepLimit \/ LoopStep)

DebugSpec == DebugInit /\ [][DebugNext]_allVars /\ DebugFairness

-------------------------------------------------------------------------------

JumpsToItself == /\ Op \in {"jmp", "jnz"}
                 /\ code[runningPid][cpu.ctx.pc].to = cpu.ctx.pc

\* continueExecution never runs through a breakpoint or a condition that
\* holds, except to resume the very process it had reported there (or at an
\* instruction that jumps to itself, where refreshResumeSkip cannot tell that
\* it was executed).
NoMissedBreakpoint ==
    [][command = "continue" /\ LoopStep /\ Ran /\ (BreakpointHit \/ ConditionHit)
       => resting[runningPid] = cpu.ctx.pc \/ JumpsToItself]_allVars

\* Resuming makes progress: a process that was reported at a breakpoint is not
\* reported there again before it has executed its instruction.
NoRepeatedStop ==
    [][BreakpointStop => resting[runningPid] # cpu.ctx.pc]_allVars

\* A watched access is reported by the step that made it, also when that step
\* ends the quantum and another process is running when the command returns.
NoMissedWatchpoint ==
    [][(StepCommand \/ LoopStep) /\ WatchpointHit
       => stop'.reason = "Watchpoint" /\ stop'.pid = runningPid
          /\ command' = "none"]_allVars

\* A source step that reports completion has moved the selected process, not
\* merely the Running one, to another line.
SourceStepMoves ==
    [][SourceLineReached
       => Machine[selected].pc \in Mapped /\ Machine[selected].pc # source.at]_allVars

\* Every command returns to the prompt.
CommandsEnd == command # "none" ~> (command = "none" \/ thrown)

\* "Source stepping is explicit stepping: ignore a breakpoint at the selected
\* PID's starting PC once": once the selected process has executed its
\* instruction there, a breakpoint at that place is honoured.
StartIgnoredOnce ==
    [][LoopStep /\ command = "source" /\ Ran /\ BreakpointHit
       /\ runningPid = selected /\ cpu.ctx.pc = source.at
       => ~source.ran]_allVars
===============================================================================
