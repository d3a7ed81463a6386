------------------------- MODULE ProcessRuntimeProofs -------------------------
(* The runtime keeps its table, scheduler and CPU consistent for every      *)
(* number of processes, every quantum and every set of executables, and     *)
(* gives each process a private machine.                                    *)
EXTENDS ProcessRuntime, WellFoundedInduction, TLAPS

\* A non-empty set of naturals has a least element, the one MinOf picks.
LEMMA MinOfLeast ==
    ASSUME NEW S \in SUBSET Nat, S # {}
    PROVE  MinOf(S) \in S /\ \A y \in S : MinOf(S) <= y
<1>1. PICK x \in S : \A y \in S : ~ (<<y, x>> \in OpToRel(<, Nat))
  BY NatLessThanWellFounded, WFMin
<1>2. \A y \in S : x <= y
  <2>1. TAKE y \in S
  <2>2. x \in Nat /\ y \in Nat
    OBVIOUS
  <2>3. ~(y < x)
    BY <1>1, <2>2 DEF OpToRel
  <2> QED BY <2>2, <2>3
<1> QED BY <1>2 DEF MinOf

\* The scheduler selects one of the candidates, and none of them lies between
\* the cursor and the selected one in the cyclic order of ids.
LEMMA FirstAfterSelects ==
    ASSUME NEW cands \in SUBSET Pid, cands # {}, NEW cursor \in 0 .. NumProcs
    PROVE  LET s == FirstAfter(cands, cursor)
           IN /\ s \in cands
              /\ \A p \in cands \ {s} :
                   Distance(NumProcs, s, p) < Distance(NumProcs, cursor, p)
<1> DEFINE later == {p \in cands : p > cursor}
           s == FirstAfter(cands, cursor)
<1>1. NumProcs \in Nat /\ cands \subseteq 1 .. NumProcs
  BY RuntimeAssumption DEF Pid
<1>2. CASE later # {}
  <2>1. s = MinOf(later)
    BY <1>2 DEF FirstAfter
  <2>2. later \in SUBSET Nat
    <3>1. cands \in SUBSET Nat
      BY <1>1
    <3> QED BY <3>1
  <2> HIDE DEF later
  <2>3. MinOf(later) \in later /\ \A y \in later : MinOf(later) <= y
    BY <1>2, <2>2, MinOfLeast
  <2> USE DEF later
  <2>4. s \in cands /\ s > cursor /\ \A y \in cands : y > cursor => s <= y
    BY <2>1, <2>3
  <2> HIDE DEF s, later
  <2>5. ASSUME NEW p \in cands, p # s
        PROVE  Distance(NumProcs, s, p) < Distance(NumProcs, cursor, p)
    BY <1>1, <2>4, <2>5 DEF Distance
  <2> QED BY <2>4, <2>5 DEF s
<1>3. CASE later = {}
  <2>1. s = MinOf(cands)
    BY <1>3 DEF FirstAfter
  <2>2. cands \in SUBSET Nat
    BY <1>1
  <2>3. s \in cands /\ \A y \in cands : s <= y
    BY <2>1, <2>2, MinOfLeast
  <2>4. \A y \in cands : y <= cursor
    BY <1>1, <1>3
  <2> HIDE DEF s, later
  <2>5. ASSUME NEW p \in cands, p # s
        PROVE  Distance(NumProcs, s, p) < Distance(NumProcs, cursor, p)
    BY <1>1, <2>3, <2>4, <2>5 DEF Distance
  <2> QED BY <2>3, <2>5 DEF s
<1> QED BY <1>2, <1>3

\* The result of one instruction is well typed and leaves a process that goes
\* on in its own code or at its end.
WellTyped(prog, r) ==
    /\ r.ctx \in Context
    /\ r.host \in Value
    /\ r.out \in Outcomes
    /\ r.out = "ok" => r.ctx.pc \in 1 .. EndPc(prog)

\* Replacing the fields of a context.
LEMMA ContextUpdate ==
    ASSUME NEW m \in Context, NEW v \in Value, NEW n \in Nat \ {0}
    PROVE  /\ [m EXCEPT !.pc = n] \in Context /\ [m EXCEPT !.pc = n].pc = n
           /\ [m EXCEPT !.pc = n].reg = m.reg
           /\ [m EXCEPT !.reg = v] \in Context /\ [m EXCEPT !.reg = v].pc = m.pc
           /\ [m EXCEPT !.mem = v] \in Context /\ [m EXCEPT !.mem = v].pc = m.pc
BY DEF Context

\* A result built from well-typed parts.
LEMMA ResultTyped ==
    ASSUME NEW prog, NEW c \in Context, NEW g \in Value, NEW o \in Outcomes,
           o = "ok" => c.pc \in 1 .. EndPc(prog)
    PROVE  WellTyped(prog, Result(c, g, o))
BY DEF WellTyped, Result

\* One CPU::step of a process on a well-typed machine gives a well-typed
\* result, whatever the instruction.
LEMMA ExecType ==
    ASSUME NEW prog \in Programs, NEW m \in Context, NEW h \in Value
    PROVE  WellTyped(prog, Exec(prog, m, h))
<1> DEFINE i == prog[m.pc]
           next == [m EXCEPT !.pc = m.pc + 1]
<1>1. /\ prog \in Seq(Instr) /\ Len(prog) \in Nat
      /\ Word \in Nat \ {0}
  BY GuestAssumption
<1>2. /\ m.pc \in Nat \ {0} /\ m.reg \in Value /\ m.mem \in Value
  BY DEF Context
<1>n. m.pc + 1 \in Nat \ {0}
  BY <1>2
<1>o. {"ok", "done", "exit", "fault", "wedge"} \subseteq Outcomes
  BY DEF Outcomes
<1>3. CASE ~InCode(prog, m.pc)
  <2>1. Exec(prog, m, h) \in {Result(m, h, "done"), Result(m, h, "fault")}
    BY <1>3 DEF Exec
  <2> QED BY <1>o, <2>1, ResultTyped
<1>4. CASE InCode(prog, m.pc)
  <2>1. i \in Instr /\ m.pc <= Len(prog)
    BY <1>1, <1>4 DEF InCode
  <2>2. i.op \in Ops /\ i.to \in Nat
    BY <2>1 DEF Instr
  <2>3. next \in Context /\ next.pc = m.pc + 1 /\ next.reg = m.reg
    BY <1>2, <1>n, ContextUpdate
  <2>4. next.pc \in 1 .. EndPc(prog)
    BY <1>1, <1>2, <2>1, <2>3 DEF EndPc
  <2>5. (m.reg + 1) % Word \in Value
    BY <1>1, <1>2 DEF Value
  <2>6. WellTyped(prog, Result(m, h, "fault")) /\ WellTyped(prog, Result(next, h, "ok"))
    BY <1>o, <2>3, <2>4, ResultTyped
  <2>7. WellTyped(prog, Branch(prog, m, h, i.to))
    <3>1. CASE InCode(prog, i.to)
      <4>1. i.to \in Nat \ {0} /\ i.to \in 1 .. EndPc(prog)
        BY <1>1, <2>2, <3>1 DEF InCode, EndPc
      <4>2. [m EXCEPT !.pc = i.to] \in Context /\ [m EXCEPT !.pc = i.to].pc = i.to
        BY <1>2, <4>1, ContextUpdate
      <4>3. WellTyped(prog, Result([m EXCEPT !.pc = i.to], h, "ok"))
        BY <1>o, <4>1, <4>2, ResultTyped
      <4> QED BY <3>1, <4>3 DEF Branch
    <3>2. CASE ~InCode(prog, i.to)
      BY <2>6, <3>2 DEF Branch
    <3> QED BY <3>1, <3>2
  <2>8. ASSUME NEW g \in Value, NEW v \in Value
        PROVE  WellTyped(prog, Syscall(prog, m, g, v))
    <3>1. /\ [m EXCEPT !.pc = m.pc + 1, !.reg = v] \in Context
          /\ [m EXCEPT !.pc = m.pc + 1, !.reg = v].pc = m.pc + 1
      <4> DEFINE n == m.pc + 1
      <4>1. n \in Nat \ {0}
        BY <1>n
      <4> HIDE DEF n
      <4>2. /\ [m EXCEPT !.pc = n, !.reg = v] \in Context
            /\ [m EXCEPT !.pc = n, !.reg = v].pc = n
        BY <4>1 DEF Context
      <4> QED BY <4>2 DEF n
    <3>2. /\ WellTyped(prog, Result([m EXCEPT !.pc = m.pc + 1, !.reg = v], g, "ok"))
          /\ WellTyped(prog, Result(m, g, "wedge"))
      BY <1>o, <2>3, <2>4, <3>1, ResultTyped
    <3> QED BY <3>2 DEF Syscall
  <2> HIDE DEF i, next
  <2>9. CASE i.op = "inc"
    <3>1. Exec(prog, m, h)
            = Result([next EXCEPT !.reg = (next.reg + 1) % Word], h, "ok")
      BY <1>4, <2>9 DEF Exec, i, next
    <3>2. /\ [next EXCEPT !.reg = (next.reg + 1) % Word] \in Context
          /\ [next EXCEPT !.reg = (next.reg + 1) % Word].pc = next.pc
      BY <1>2, <2>3, <2>5, ContextUpdate
    <3> QED BY <1>o, <2>4, <3>1, <3>2, ResultTyped
  <2>10. CASE i.op = "ld"
    <3>1. Exec(prog, m, h) = Result([next EXCEPT !.reg = m.mem], h, "ok")
      BY <1>4, <2>10 DEF Exec, i, next
    <3>2. /\ [next EXCEPT !.reg = m.mem] \in Context
          /\ [next EXCEPT !.reg = m.mem].pc = next.pc
      BY <1>2, <2>3, ContextUpdate
    <3> QED BY <1>o, <2>4, <3>1, <3>2, ResultTyped
  <2>11. CASE i.op = "st"
    <3>1. Exec(prog, m, h) = Result([next EXCEPT !.mem = m.reg], h, "ok")
      BY <1>4, <2>11 DEF Exec, i, next
    <3>2. /\ [next EXCEPT !.mem = m.reg] \in Context
          /\ [next EXCEPT !.mem = m.reg].pc = next.pc
      BY <1>2, <2>3, ContextUpdate
    <3> QED BY <1>o, <2>4, <3>1, <3>2, ResultTyped
  <2>12. CASE i.op \in {"jmp", "jnz"}
    <3>1. Exec(prog, m, h) \in {Branch(prog, m, h, i.to), Result(next, h, "ok")}
      BY <1>4, <2>12 DEF Exec, i, next
    <3> QED BY <2>6, <2>7, <3>1
  <2>13. CASE i.op \in {"in", "out"}
    <3>1. Exec(prog, m, h) \in {Syscall(prog, m, h, h), Syscall(prog, m, m.reg, m.reg)}
      BY <1>4, <2>13 DEF Exec, i
    <3> QED BY <1>2, <2>8, <3>1
  <2>14. CASE i.op = "exit"
    <3>1. Exec(prog, m, h) = Result(next, h, "exit")
      BY <1>4, <2>14 DEF Exec, i, next
    <3> QED BY <1>o, <2>3, <3>1, ResultTyped
  <2>15. CASE i.op = "trap"
    <3>1. Exec(prog, m, h) = Result(m, h, "fault")
      BY <1>4, <2>15 DEF Exec, i
    <3> QED BY <2>6, <3>1
  <2> QED BY <2>2, <2>9, <2>10, <2>11, <2>12, <2>13, <2>14, <2>15 DEF Ops
<1> QED BY <1>3, <1>4

\* A program whose last instruction asks for no returning service never ends
\* a step with the kernel interrupt stack still active.
LEMMA NoWedge ==
    ASSUME NEW prog \in Programs, ~TrailingSyscall(prog),
           NEW m \in Context, NEW h \in Value
    PROVE  Exec(prog, m, h).out # "wedge"
<1> DEFINE i == prog[m.pc]
<1>1. prog \in Seq(Instr) /\ Len(prog) \in Nat /\ m.pc \in Nat \ {0}
  BY GuestAssumption DEF Context
<1>2. CASE ~InCode(prog, m.pc)
  BY <1>2 DEF Exec, Result
<1>3. CASE InCode(prog, m.pc) /\ i.op \in {"in", "out"}
  <2>1. m.pc # Len(prog) /\ m.pc \in 1 .. Len(prog)
    BY <1>1, <1>3 DEF TrailingSyscall, InCode
  <2>2. InCode(prog, m.pc + 1)
    BY <1>1, <2>1 DEF InCode
  <2>3. \A g, v : Syscall(prog, m, g, v).out = "ok"
    BY <2>2 DEF Syscall, Result
  <2>4. Exec(prog, m, h) \in {Syscall(prog, m, h, h), Syscall(prog, m, m.reg, m.reg)}
    BY <1>3 DEF Exec
  <2> QED BY <2>3, <2>4
<1>4. CASE InCode(prog, m.pc) /\ i.op \notin {"in", "out"}
  BY <1>4 DEF Exec, Result, Branch
<1> QED BY <1>2, <1>3, <1>4

\* What dispatchNext establishes, whoever calls it: ps and sv are the staged
\* table in which nobody is Running, cands its Ready processes.
Dispatched ==
    /\ pstate' \in [Pid -> States]
    /\ saved' \in [Pid -> Context]
    /\ runningPid' \in Pid
    /\ lastSelected' = runningPid'
    /\ cpu' = Loaded(runningPid', saved'[runningPid'])
    /\ cpu' \in CpuStates
    /\ InCode(code[runningPid'], cpu'.ctx.pc)
    /\ \A p \in Pid : pstate'[p] = "Running" <=> runningPid' = p
    /\ \A p \in Pid : pstate'[p] = "Ready" => InCode(code[p], saved'[p].pc)

\* The dispatcher turns any consistent staged table into a consistent table
\* with one Running process and the CPU loaded with it.
LEMMA DispatchEstablishes ==
    ASSUME NEW ps \in [Pid -> States], NEW sv \in [Pid -> Context],
           NEW cands \in SUBSET Pid, cands # {}, NEW cursor \in 0 .. NumProcs,
           \A p \in Pid : p \in cands <=> ps[p] = "Ready",
           \A p \in Pid : ps[p] # "Running",
           \A p \in cands : InCode(code[p], sv[p].pc),
           DispatchTo(ps, sv, cands, cursor)
    PROVE  /\ Dispatched
           /\ runningPid' \in cands
           /\ pstate' = [ps EXCEPT ![runningPid'] = "Running"]
           /\ saved' = sv
           /\ \A p \in cands \ {runningPid'} :
                Distance(NumProcs, lastSelected', p) < Distance(NumProcs, cursor, p)
<1> DEFINE s == FirstAfter(cands, cursor)
<1>1. /\ s \in cands
      /\ \A p \in cands \ {s} :
           Distance(NumProcs, s, p) < Distance(NumProcs, cursor, p)
  BY FirstAfterSelects
<1> HIDE DEF s
<1>2. /\ pstate' = [ps EXCEPT ![s] = "Running"]
      /\ saved' = sv
      /\ runningPid' = s
      /\ lastSelected' = s
      /\ cpu' = Loaded(s, sv[s])
  BY DEF DispatchTo, s
<1>3. s \in Pid /\ s \in 0 .. NumProcs /\ sv[s] \in Context
  BY <1>1, RuntimeAssumption DEF Pid
<1>4. cpu' \in CpuStates /\ cpu'.ctx = sv[s]
  BY <1>2, <1>3 DEF Loaded, CpuStates
<1>5. pstate' \in [Pid -> States]
  BY <1>2 DEF States
<1>6. \A p \in Pid : pstate'[p] = "Running" <=> runningPid' = p
  BY <1>2, <1>3
<1>7. \A p \in Pid : pstate'[p] = "Ready" => p \in cands
  BY <1>2, <1>3
<1>8. Dispatched
  BY <1>1, <1>2, <1>3, <1>4, <1>5, <1>6, <1>7 DEF Dispatched
<1> QED BY <1>1, <1>2, <1>8

\* An instruction of the Running process on the CPU.
LEMMA ExecutedTyped ==
    ASSUME RuntimeInv, Active
    PROVE  /\ runningPid \in Pid
           /\ pstate[runningPid] = "Running"
           /\ code[runningPid] \in Programs
           /\ cpu.ctx \in Context
           /\ cpu.owner = runningPid
           /\ WellTyped(code[runningPid], Executed)
<1>1. runningPid \in Pid /\ cpu.ctx \in Context /\ host \in Value
  BY RuntimeAssumption
     DEF RuntimeInv, TypeOK, OneRunning, Active, CpuStates, Pid
<1>2. /\ pstate[runningPid] = "Running" /\ code[runningPid] \in Programs
      /\ cpu.owner = runningPid
  BY <1>1 DEF RuntimeInv, TypeOK, OneRunning, CpuHoldsRunning, Active
<1> QED BY <1>1, <1>2, ExecType DEF Executed

\* The CPU's flags after a step are Booleans and its owner is kept; an
\* instruction that goes on leaves them clear.
LEMMA CpuAfterTyped ==
    ASSUME RuntimeInv, NEW r, r.ctx \in Context
    PROVE  /\ CpuAfter(r) \in CpuStates
           /\ CpuAfter(r).owner = cpu.owner
           /\ CpuAfter(r).ctx = r.ctx
           /\ r.out = "ok" => /\ ~CpuAfter(r).halted
                              /\ ~CpuAfter(r).error
                              /\ ~CpuAfter(r).kstack
<1>1. cpu \in CpuStates
  BY DEF RuntimeInv, TypeOK
<1>2. /\ (r.out # "ok") \in BOOLEAN
      /\ (r.out \in {"fault", "wedge"}) \in BOOLEAN
      /\ (r.out = "wedge") \in BOOLEAN
  OBVIOUS
<1>3. /\ CpuAfter(r) \in CpuStates /\ CpuAfter(r).owner = cpu.owner
      /\ CpuAfter(r).ctx = r.ctx
      /\ CpuAfter(r).halted = (r.out # "ok")
      /\ CpuAfter(r).error = (r.out \in {"fault", "wedge"})
      /\ CpuAfter(r).kstack = (r.out = "wedge")
  BY <1>1, <1>2 DEF CpuAfter, CpuStates
<1> QED BY <1>3

\* The timer's counters stay in range.
LEMMA TimerTyped ==
    ASSUME RuntimeInv
    PROVE  /\ NextTicks \in 0 .. Quantum - 1
           /\ PendingAtStep \in Nat
           /\ PendingAfterTick \in Nat
<1>1. ticks \in 0 .. Quantum - 1 /\ pending \in Nat /\ Quantum \in Nat \ {0}
  BY RuntimeAssumption DEF RuntimeInv, TypeOK
<1>2. NextTicks \in 0 .. Quantum - 1
  BY <1>1 DEF NextTicks
<1>3. PendingAtStep \in Nat
  BY <1>1 DEF PendingAtStep
<1> QED BY <1>2, <1>3 DEF PendingAfterTick

\* The result of an ending is a proper exit record.
LEMMA TerminationTyped ==
    ASSUME NEW r, r.ctx \in Context
    PROVE  TerminationResult(r) \in Results
<1>1. r.ctx.reg \in Int
  BY GuestAssumption DEF Context, Value
<1> QED BY <1>1, GuestAssumption DEF TerminationResult, Results

\* A preemption of the Running process at ctx hands over a consistent table.
LEMMA PreemptEstablishes ==
    ASSUME RuntimeInv, Active, NEW ctx \in Context,
           ~DispatchRefused(ctx), Dispatch(ctx)
    PROVE  /\ Dispatched
           /\ pstate' = [[pstate EXCEPT ![runningPid] = "Ready"]
                           EXCEPT ![runningPid'] = "Running"]
           /\ saved' = [saved EXCEPT ![runningPid] = ctx]
           /\ \A p \in Ready \ {runningPid'} :
                Distance(NumProcs, lastSelected', p)
                    < Distance(NumProcs, lastSelected, p)
<1> DEFINE ps == [pstate EXCEPT ![runningPid] = "Ready"]
           sv == [saved EXCEPT ![runningPid] = ctx]
           cands == Ready \cup {runningPid}
<1>1. /\ runningPid \in Pid /\ pstate \in [Pid -> States]
      /\ saved \in [Pid -> Context]
      /\ \A p \in Pid : pstate[p] = "Running" <=> runningPid = p
  BY ExecutedTyped DEF RuntimeInv, TypeOK, OneRunning
<1>2. /\ ps \in [Pid -> States] /\ sv \in [Pid -> Context]
      /\ cands \in SUBSET Pid /\ cands # {}
  BY <1>1 DEF States, Ready
<1>3. \A p \in Pid : p \in cands <=> ps[p] = "Ready"
  BY <1>1 DEF Ready
<1>4. \A p \in Pid : ps[p] # "Running"
  BY <1>1
<1>5. \A p \in cands : InCode(code[p], sv[p].pc)
  <2>1. InCode(code[runningPid], ctx.pc)
    BY DEF DispatchRefused, Capturable
  <2>2. \A p \in Ready : InCode(code[p], saved[p].pc)
    BY DEF RuntimeInv, ReadyIsDispatchable
  <2> QED BY <1>1, <2>1, <2>2 DEF Ready
<1>6. lastSelected = runningPid /\ runningPid # 0 /\ Cursor = runningPid
      /\ runningPid \in 0 .. NumProcs
  BY <1>1, RuntimeAssumption DEF RuntimeInv, CursorFollows, Active, Cursor, Pid
<1>7. DispatchTo(ps, sv, cands, Cursor)
  BY DEF Dispatch
<1> HIDE DEF ps, sv, cands
<1>8. /\ Dispatched
      /\ pstate' = [ps EXCEPT ![runningPid'] = "Running"]
      /\ saved' = sv
      /\ \A p \in cands \ {runningPid'} :
           Distance(NumProcs, lastSelected', p) < Distance(NumProcs, Cursor, p)
  BY <1>2, <1>3, <1>4, <1>5, <1>6, <1>7, DispatchEstablishes
<1> QED BY <1>6, <1>8 DEF ps, sv, cands

\* The process a preemption selects is Ready or the one that was running.
LEMMA PreemptTarget ==
    ASSUME RuntimeInv, Active, NEW ctx \in Context, Dispatch(ctx)
    PROVE  runningPid' \in Ready \cup {runningPid}
<1>1. /\ runningPid \in Pid /\ Ready \cup {runningPid} \in SUBSET Pid
      /\ Cursor \in 0 .. NumProcs
  BY ExecutedTyped, RuntimeAssumption DEF Ready, Cursor, RuntimeInv, TypeOK
<1>2. runningPid' = FirstAfter(Ready \cup {runningPid}, Cursor)
  BY DEF Dispatch, DispatchTo
<1>3. FirstAfter(Ready \cup {runningPid}, Cursor) \in Ready \cup {runningPid}
  BY <1>1, FirstAfterSelects
<1> QED BY <1>2, <1>3

\* A termination with a Ready successor hands over a consistent table.
LEMMA HandoffEstablishes ==
    ASSUME RuntimeInv, Active, NEW ctx \in Context, Ready # {},
           DispatchTo([pstate EXCEPT ![runningPid] = "Terminated"],
                      [saved EXCEPT ![runningPid] = ctx], Ready, lastSelected)
    PROVE  /\ Dispatched
           /\ runningPid' \in Ready
           /\ pstate' = [[pstate EXCEPT ![runningPid] = "Terminated"]
                           EXCEPT ![runningPid'] = "Running"]
           /\ saved' = [saved EXCEPT ![runningPid] = ctx]
           /\ \A p \in Ready \ {runningPid'} :
                Distance(NumProcs, lastSelected', p)
                    < Distance(NumProcs, lastSelected, p)
<1> DEFINE ps == [pstate EXCEPT ![runningPid] = "Terminated"]
           sv == [saved EXCEPT ![runningPid] = ctx]
<1>1. /\ runningPid \in Pid /\ pstate \in [Pid -> States]
      /\ saved \in [Pid -> Context] /\ lastSelected \in 0 .. NumProcs
      /\ \A p \in Pid : pstate[p] = "Running" <=> runningPid = p
  BY ExecutedTyped DEF RuntimeInv, TypeOK, OneRunning
<1>2. /\ ps \in [Pid -> States] /\ sv \in [Pid -> Context]
      /\ Ready \in SUBSET Pid
  BY <1>1 DEF States, Ready
<1>3. \A p \in Pid : p \in Ready <=> ps[p] = "Ready"
  BY <1>1 DEF Ready
<1>4. \A p \in Pid : ps[p] # "Running"
  BY <1>1
<1>5. \A p \in Ready : InCode(code[p], sv[p].pc)
  BY <1>1 DEF Ready, RuntimeInv, ReadyIsDispatchable
<1> HIDE DEF ps, sv
<1>6. DispatchTo(ps, sv, Ready, lastSelected)
  BY DEF ps, sv
<1>7. /\ Dispatched
      /\ runningPid' \in Ready
      /\ pstate' = [ps EXCEPT ![runningPid'] = "Running"]
      /\ saved' = sv
      /\ \A p \in Ready \ {runningPid'} :
           Distance(NumProcs, lastSelected', p)
               < Distance(NumProcs, lastSelected, p)
  BY <1>1, <1>2, <1>3, <1>4, <1>5, <1>6, DispatchEstablishes
<1> QED BY <1>7 DEF ps, sv

\* A state reached by a dispatch in a running system satisfies the invariant.
LEMMA DispatchedInv ==
    ASSUME RuntimeInv, Dispatched,
           code' = code, blocked' = blocked, thrown' = FALSE,
           result' \in [Pid -> Results], host' \in Value,
           ticks' \in 0 .. Quantum - 1, pending' \in Nat, phase' = "Running",
           ResultsMatchStates'
    PROVE  RuntimeInv'
<1>1. /\ runningPid' \in Pid /\ runningPid' \in 0 .. NumProcs /\ runningPid' # 0
      /\ lastSelected' = runningPid'
  BY RuntimeAssumption DEF Dispatched, Pid
<1>2. TypeOK'
  BY <1>1 DEF RuntimeInv, TypeOK, Dispatched, Phases
<1>3. OneRunning'
  BY <1>1 DEF OneRunning, Dispatched
<1>4. /\ cpu'.owner = runningPid' /\ cpu'.halted = FALSE
      /\ cpu'.error = FALSE /\ cpu'.kstack = FALSE
  BY DEF Dispatched, Loaded
<1>5. CpuHoldsRunning'
  BY <1>4 DEF CpuHoldsRunning
<1>6. ReadyIsDispatchable'
  BY DEF ReadyIsDispatchable, Ready, Dispatched
<1>7. CursorFollows'
  <2>1. cpu'.ctx.pc \in 1 .. Len(code[runningPid'])
    BY DEF Dispatched, InCode
  <2>2. Len(code[runningPid']) \in Nat
    BY <1>1, GuestAssumption DEF RuntimeInv, TypeOK
  <2>3. cpu'.ctx.pc \in 1 .. EndPc(code'[runningPid'])
    BY <2>1, <2>2 DEF EndPc
  <2> QED BY <1>1, <2>3 DEF CursorFollows
<1> QED BY <1>2, <1>3, <1>5, <1>6, <1>7 DEF RuntimeInv

\* The initial table and CPU satisfy the invariant.
LEMMA InitInv == Init => RuntimeInv
<1> SUFFICES ASSUME Init PROVE RuntimeInv
  OBVIOUS
<1>1. /\ InitialContext \in Context /\ NoResult \in Results /\ 0 \in Value
      /\ \A prog \in Programs : InCode(prog, 1)
  <2>1. 0 \in Value /\ \A prog \in Programs : Len(prog) \in Nat \ {0}
    BY GuestAssumption DEF Value
  <2> QED BY <2>1 DEF InitialContext, Context, NoResult, Results, InCode
<1>2. TypeOK
  <2>1. pstate \in [Pid -> States]
    BY DEF Init, States
  <2>2. cpu \in CpuStates
    BY <1>1, RuntimeAssumption DEF Init, CpuStates
  <2>3. /\ saved \in [Pid -> Context] /\ result \in [Pid -> Results]
        /\ runningPid \in 0 .. NumProcs /\ lastSelected \in 0 .. NumProcs
        /\ host \in Value /\ ticks \in 0 .. Quantum - 1 /\ pending \in Nat
    BY <1>1, RuntimeAssumption DEF Init
  <2> QED BY <2>1, <2>2, <2>3 DEF Init, TypeOK, Phases
<1>3. OneRunning /\ CpuHoldsRunning
  BY RuntimeAssumption DEF Init, OneRunning, CpuHoldsRunning, Pid
<1>4. ReadyIsDispatchable
  <2>1. \A p \in Pid : saved[p].pc = 1 /\ code[p] \in Programs
    BY <1>2 DEF Init, InitialContext, TypeOK
  <2> QED BY <1>1, <2>1 DEF ReadyIsDispatchable, Ready
<1>5. ResultsMatchStates /\ CursorFollows
  BY DEF Init, ResultsMatchStates, CursorFollows
<1> QED BY <1>2, <1>3, <1>4, <1>5 DEF RuntimeInv

\* Every call of lifecycle.start and lifecycle.step keeps the invariant.
LEMMA NextInv == RuntimeInv /\ [Next]_vars => RuntimeInv'
<1> SUFFICES ASSUME RuntimeInv, [Next]_vars PROVE RuntimeInv'
  OBVIOUS
<1> USE DEF RuntimeInv
<1>1. CASE Start
  <2>1. CASE Ready = {}
    <3>1. /\ phase' = Classify(pstate) /\ cpu' = [cpu EXCEPT !.halted = TRUE]
          /\ UNCHANGED <<pstate, saved, runningPid, lastSelected, code, blocked,
                         result, host, ticks, pending, thrown>>
          /\ phase = "New"
      BY <1>1, <2>1 DEF Start
    <3>2. phase' \in Phases \ {"New", "Running"}
      BY <3>1 DEF Classify, Phases
    <3>3. runningPid = 0
      BY <3>1 DEF OneRunning
    <3>4. TypeOK'
      BY <3>1, <3>2 DEF TypeOK, CpuStates
    <3>5. OneRunning' /\ CpuHoldsRunning' /\ CursorFollows'
      BY <3>1, <3>2, <3>3 DEF OneRunning, CpuHoldsRunning, CursorFollows
    <3>6. ReadyIsDispatchable' /\ ResultsMatchStates'
      BY <3>1 DEF ReadyIsDispatchable, Ready, ResultsMatchStates
    <3> QED BY <3>4, <3>5, <3>6
  <2>2. CASE Ready # {}
    <3>1. /\ DispatchTo(pstate, saved, Ready, lastSelected) /\ phase' = "Running"
          /\ UNCHANGED <<code, blocked, result, host, ticks, pending, thrown>>
          /\ phase = "New" /\ ~thrown
      BY <1>1, <2>2 DEF Start, CursorFollows
    <3>2. /\ pstate \in [Pid -> States] /\ saved \in [Pid -> Context]
          /\ Ready \in SUBSET Pid /\ lastSelected \in 0 .. NumProcs
          /\ \A p \in Pid : p \in Ready <=> pstate[p] = "Ready"
          /\ \A p \in Pid : pstate[p] # "Running"
          /\ \A p \in Ready : InCode(code[p], saved[p].pc)
      <4>1. runningPid = 0 /\ 0 \notin Pid
        BY <3>1, RuntimeAssumption DEF OneRunning, Pid
      <4> QED BY <4>1 DEF TypeOK, OneRunning, Ready, ReadyIsDispatchable
    <3>3. /\ Dispatched /\ runningPid' \in Ready
          /\ pstate' = [pstate EXCEPT ![runningPid'] = "Running"]
      BY <2>2, <3>1, <3>2, DispatchEstablishes
    <3>4. ResultsMatchStates'
      BY <3>1, <3>2, <3>3 DEF ResultsMatchStates, Ready
    <3>5. /\ code' = code /\ blocked' = blocked /\ thrown' = FALSE
          /\ result' \in [Pid -> Results] /\ host' \in Value
          /\ ticks' \in 0 .. Quantum - 1 /\ pending' \in Nat
          /\ phase' = "Running"
      BY <3>1 DEF TypeOK
    <3> QED BY <3>3, <3>4, <3>5, DispatchedInv
  <2> QED BY <2>1, <2>2
<1>2. CASE PreemptBeforeStep
  <2>1. /\ Active /\ ~DispatchRefused(cpu.ctx) /\ Dispatch(cpu.ctx)
        /\ PendingAtStep > 0 /\ pending' = PendingAtStep - 1
        /\ UNCHANGED <<code, blocked, result, host, ticks, phase, thrown>>
    BY <1>2 DEF PreemptBeforeStep, PreemptionDue
  <2>2. /\ cpu.ctx \in Context /\ runningPid \in Pid
        /\ pstate[runningPid] = "Running"
    BY <2>1, ExecutedTyped
  <2>3. /\ Dispatched
        /\ pstate' = [[pstate EXCEPT ![runningPid] = "Ready"]
                        EXCEPT ![runningPid'] = "Running"]
    BY <2>1, <2>2, PreemptEstablishes
  <2>4. ResultsMatchStates'
    <3>1. pstate[runningPid'] # "Blocked" /\ pstate[runningPid'] # "Terminated"
      <4>1. runningPid' \in Ready \cup {runningPid}
        BY <2>1, <2>2, PreemptTarget
      <4> QED BY <2>2, <4>1 DEF Ready
    <3> QED BY <2>1, <2>2, <2>3, <3>1 DEF ResultsMatchStates, TypeOK, Dispatched
  <2>5. pending' \in Nat
    BY <2>1, TimerTyped
  <2>6. /\ code' = code /\ blocked' = blocked /\ thrown' = FALSE
        /\ result' \in [Pid -> Results] /\ host' \in Value
        /\ ticks' \in 0 .. Quantum - 1 /\ phase' = "Running"
    BY <2>1 DEF TypeOK, Active
  <2> QED BY <2>3, <2>4, <2>5, <2>6, DispatchedInv
<1>3. CASE StepAndContinue
  <2>1. /\ Active /\ Executed.out = "ok" /\ cpu' = CpuAfter(Executed)
        /\ host' = Executed.host /\ ticks' = NextTicks
        /\ pending' = PendingAfterTick
        /\ UNCHANGED <<code, blocked, pstate, saved, result, runningPid,
                       lastSelected, phase, thrown>>
    BY <1>3 DEF StepAndContinue
  <2>2. /\ WellTyped(code[runningPid], Executed) /\ Executed.ctx \in Context
    BY <2>1, ExecutedTyped DEF WellTyped
  <2>3. /\ cpu' \in CpuStates /\ cpu'.owner = cpu.owner
        /\ cpu'.ctx = Executed.ctx /\ ~cpu'.halted
        /\ ~cpu'.error /\ ~cpu'.kstack
    BY <2>1, <2>2, CpuAfterTyped
  <2>4. TypeOK'
    BY <2>1, <2>2, <2>3, TimerTyped DEF TypeOK, WellTyped
  <2>5. OneRunning' /\ CpuHoldsRunning'
    BY <2>1, <2>3 DEF OneRunning, CpuHoldsRunning
  <2>6. ReadyIsDispatchable' /\ ResultsMatchStates'
    BY <2>1 DEF ReadyIsDispatchable, Ready, ResultsMatchStates
  <2>7. CursorFollows'
    BY <2>1, <2>2, <2>3 DEF CursorFollows, WellTyped, Active
  <2> QED BY <2>4, <2>5, <2>6, <2>7
<1>4. CASE StepAndPreempt
  <2>1. /\ Active /\ ~DispatchRefused(Executed.ctx) /\ Dispatch(Executed.ctx)
        /\ PendingAfterTick > 0 /\ pending' = PendingAfterTick - 1
        /\ host' = Executed.host /\ ticks' = NextTicks
        /\ UNCHANGED <<code, blocked, result, phase, thrown>>
    BY <1>4 DEF StepAndPreempt, PreemptionDue
  <2>2. /\ Executed.ctx \in Context /\ Executed.host \in Value
        /\ runningPid \in Pid /\ pstate[runningPid] = "Running"
    BY <2>1, ExecutedTyped DEF WellTyped
  <2>3. /\ Dispatched
        /\ pstate' = [[pstate EXCEPT ![runningPid] = "Ready"]
                        EXCEPT ![runningPid'] = "Running"]
    BY <2>1, <2>2, PreemptEstablishes
  <2>4. ResultsMatchStates'
    <3>1. pstate[runningPid'] # "Blocked" /\ pstate[runningPid'] # "Terminated"
      <4>1. runningPid' \in Ready \cup {runningPid}
        BY <2>1, <2>2, PreemptTarget
      <4> QED BY <2>2, <4>1 DEF Ready
    <3> QED BY <2>1, <2>2, <2>3, <3>1 DEF ResultsMatchStates, TypeOK, Dispatched
  <2>5. pending' \in Nat /\ ticks' \in 0 .. Quantum - 1
    BY <2>1, TimerTyped
  <2>6. /\ code' = code /\ blocked' = blocked /\ thrown' = FALSE
        /\ result' \in [Pid -> Results] /\ host' \in Value /\ phase' = "Running"
    BY <2>1, <2>2 DEF TypeOK, Active
  <2> QED BY <2>3, <2>4, <2>5, <2>6, DispatchedInv
<1>5. CASE StepAndTerminate
  <2> DEFINE ps == [pstate EXCEPT ![runningPid] = "Terminated"]
             sv == [saved EXCEPT ![runningPid] = Executed.ctx]
  <2>1. /\ Active /\ host' = Executed.host /\ pending' = PendingAtStep
        /\ result' = [result EXCEPT ![runningPid] = TerminationResult(Executed)]
        /\ UNCHANGED <<code, blocked, ticks, thrown>>
    BY <1>5 DEF StepAndTerminate, HasSuccessor
  <2>2. /\ Executed.ctx \in Context /\ Executed.host \in Value
        /\ runningPid \in Pid /\ pstate[runningPid] = "Running"
    BY <2>1, ExecutedTyped DEF WellTyped
  <2>3. /\ result' \in [Pid -> Results]
        /\ pending' \in Nat
    BY <2>1, <2>2, TerminationTyped, TimerTyped DEF TypeOK
  <2>4. CASE Ready # {}
    <3>1. DispatchTo(ps, sv, Ready, lastSelected) /\ phase' = "Running"
      BY <1>5, <2>4 DEF StepAndTerminate, HasSuccessor
    <3>2. /\ Dispatched /\ runningPid' \in Ready
          /\ pstate' = [ps EXCEPT ![runningPid'] = "Running"]
      BY <2>1, <2>2, <2>4, <3>1, HandoffEstablishes
    <3>3. ResultsMatchStates'
      BY <2>1, <2>2, <3>2 DEF ResultsMatchStates, TypeOK, Ready
    <3>4. /\ code' = code /\ blocked' = blocked /\ thrown' = FALSE
          /\ host' \in Value /\ ticks' \in 0 .. Quantum - 1
      BY <2>1, <2>2 DEF TypeOK, Active
    <3> QED BY <2>3, <3>1, <3>2, <3>3, <3>4, DispatchedInv
  <2>5. CASE Ready = {}
    <3>1. /\ pstate' = ps /\ saved' = sv /\ runningPid' = 0
          /\ cpu' = CpuAfter(Executed) /\ phase' = Classify(ps)
          /\ lastSelected' = lastSelected
      BY <1>5, <2>5 DEF StepAndTerminate, HasSuccessor
    <3>2. phase' \in Phases \ {"New", "Running"}
      BY <3>1 DEF Classify, Phases
    <3>3. cpu' \in CpuStates
      BY <2>2, <3>1, CpuAfterTyped
    <3>4. TypeOK'
      BY <2>1, <2>2, <2>3, <3>1, <3>2, <3>3, RuntimeAssumption
         DEF TypeOK, States
    <3>5. OneRunning'
      BY <2>2, <3>1, <3>2, RuntimeAssumption DEF OneRunning, TypeOK, Pid
    <3>6. CpuHoldsRunning' /\ CursorFollows'
      BY <3>2 DEF CpuHoldsRunning, CursorFollows
    <3>7. ReadyIsDispatchable'
      BY <2>1, <2>2, <3>1 DEF ReadyIsDispatchable, Ready, TypeOK
    <3>8. ResultsMatchStates'
      BY <2>1, <2>2, <3>1 DEF ResultsMatchStates, TypeOK
    <3> QED BY <3>4, <3>5, <3>6, <3>7, <3>8
  <2> QED BY <2>4, <2>5
<1>6. CASE StepThrows
  <2>1. /\ Active /\ thrown' = TRUE
        /\ UNCHANGED <<code, blocked, pstate, saved, result, runningPid,
                       lastSelected, phase>>
    BY <1>6 DEF StepThrows
  <2>2. /\ cpu' \in CpuStates /\ cpu'.owner = cpu.owner
        /\ host' \in Value /\ ticks' \in 0 .. Quantum - 1 /\ pending' \in Nat
    <3>1. CASE PreemptionDue(cpu.ctx, PendingAtStep)
      BY <1>6, <3>1 DEF StepThrows, TypeOK
    <3>2. CASE ~PreemptionDue(cpu.ctx, PendingAtStep)
      <4>1. /\ cpu' = CpuAfter(Executed) /\ host' = Executed.host
            /\ ticks' \in {NextTicks, ticks}
            /\ pending' \in {PendingAfterTick, PendingAtStep}
        BY <1>6, <3>2 DEF StepThrows
      <4>2. Executed.ctx \in Context /\ Executed.host \in Value
        BY <2>1, ExecutedTyped DEF WellTyped
      <4>3. cpu' \in CpuStates /\ cpu'.owner = cpu.owner
        BY <4>1, <4>2, CpuAfterTyped
      <4> QED BY <4>1, <4>2, <4>3, TimerTyped DEF TypeOK
    <3> QED BY <3>1, <3>2
  <2>3. TypeOK'
    BY <2>1, <2>2 DEF TypeOK
  <2>4. OneRunning' /\ CpuHoldsRunning' /\ CursorFollows'
    BY <2>1, <2>2 DEF OneRunning, CpuHoldsRunning, CursorFollows, Active
  <2>5. ReadyIsDispatchable' /\ ResultsMatchStates'
    BY <2>1 DEF ReadyIsDispatchable, Ready, ResultsMatchStates
  <2> QED BY <2>3, <2>4, <2>5
<1>7. CASE StepAfterEnd \/ UNCHANGED vars
  <2>1. UNCHANGED vars
    BY <1>7 DEF StepAfterEnd
  <2> QED BY <2>1 DEF vars, TypeOK, OneRunning, CpuHoldsRunning,
        ReadyIsDispatchable, Ready, ResultsMatchStates, CursorFollows
<1> QED BY <1>1, <1>2, <1>3, <1>4, <1>5, <1>6, <1>7 DEF Next

\* TypeOK and the consistency of table, scheduler and CPU hold in every
\* reachable state of ProcessTable, RoundRobinScheduler and ProcessDispatcher.
THEOREM RuntimeInvariant == Spec => []RuntimeInv
BY InitInv, NextInv, PTL DEF Spec, Safe

\* The guard of servicePendingPreemption is enough: at any other place of its
\* code a process can be saved, and whoever is selected can be restored.
LEMMA DispatchAccepted ==
    ASSUME RuntimeInv, Active, NEW ctx \in Context, NEW n,
           ctx.pc \in 1 .. EndPc(code[runningPid]), PreemptionDue(ctx, n)
    PROVE  ~DispatchRefused(ctx)
<1> DEFINE cands == Ready \cup {runningPid}
<1>1. runningPid \in Pid /\ Len(code[runningPid]) \in Nat
  BY ExecutedTyped, GuestAssumption
<1>2. Capturable(runningPid, ctx)
  BY <1>1 DEF PreemptionDue, EndPc, Capturable, InCode, Context
<1>3. cands \in SUBSET Pid /\ cands # {} /\ Cursor \in 0 .. NumProcs
  BY <1>1, RuntimeAssumption DEF Ready, Cursor, RuntimeInv, TypeOK
<1>4. FirstAfter(cands, Cursor) \in cands
  BY <1>3, FirstAfterSelects
<1>5. \A p \in Ready : Capturable(p, saved[p])
  BY DEF RuntimeInv, ReadyIsDispatchable, Capturable
<1> QED BY <1>2, <1>4, <1>5 DEF DispatchRefused

\* The successor of a terminated process can always be restored.
LEMMA HandoffAccepted ==
    ASSUME RuntimeInv
    PROVE  ~HandoffRefused
<1>1. Ready \in SUBSET Pid /\ lastSelected \in 0 .. NumProcs
  BY DEF Ready, RuntimeInv, TypeOK
<1>2. Ready # {} => FirstAfter(Ready, lastSelected) \in Ready
  BY <1>1, FirstAfterSelects
<1> QED BY <1>2 DEF HandoffRefused, Capturable, RuntimeInv, ReadyIsDispatchable

\* lifecycle.step throws at an instruction only, and only at a returning
\* service that cannot return: what must be saved or restored always can be.
LEMMA ThrowsAtSyscall ==
    ASSUME RuntimeInv, Active, Throws
    PROVE  /\ ~PreemptionDue(cpu.ctx, PendingAtStep)
           /\ Executed.out = "wedge"
<1>1. /\ cpu.ctx \in Context
      /\ cpu.ctx.pc \in 1 .. EndPc(code[runningPid])
      /\ WellTyped(code[runningPid], Executed)
  BY ExecutedTyped DEF RuntimeInv, CursorFollows, Active
<1>2. PreemptionDue(cpu.ctx, PendingAtStep) => ~DispatchRefused(cpu.ctx)
  BY <1>1, DispatchAccepted
<1>3. Executed.out = "ok" /\ PreemptionDue(Executed.ctx, PendingAfterTick)
         => ~DispatchRefused(Executed.ctx)
  BY <1>1, DispatchAccepted DEF WellTyped
<1>4. ~HandoffRefused
  BY HandoffAccepted
<1> QED BY <1>2, <1>3, <1>4 DEF Throws

\* Such a service is the last instruction of the Running process.
LEMMA WedgeIsTrailing ==
    ASSUME RuntimeInv, Active, Executed.out = "wedge"
    PROVE  TrailingSyscall(code[runningPid])
<1>1. /\ cpu.ctx \in Context /\ code[runningPid] \in Programs /\ host \in Value
      /\ cpu.owner = runningPid
  BY ExecutedTyped DEF RuntimeInv, TypeOK
<1> QED BY <1>1, NoWedge DEF Executed

\* lifecycle.step never throws unless the Running process ends in a returning
\* INT 80: every other fault is turned into the end of one process.
THEOREM RuntimeNeverThrows == Spec => []NeverThrows
<1>1. Init => NeverThrows
  BY DEF Init, NeverThrows
<1>2. RuntimeInv /\ NeverThrows /\ [Next]_vars => NeverThrows'
  <2> SUFFICES ASSUME RuntimeInv, NeverThrows, [Next]_vars PROVE NeverThrows'
    OBVIOUS
  <2>1. CASE StepThrows
    <3>1. TrailingSyscall(code[runningPid])
      BY <2>1, ThrowsAtSyscall, WedgeIsTrailing DEF StepThrows
    <3> QED BY <2>1, <3>1 DEF StepThrows, NeverThrows, TrailingSyscall
  <2>2. CASE UNCHANGED vars
    BY <2>2 DEF vars, NeverThrows, TrailingSyscall
  <2>3. CASE Start
    <3>1. thrown' = thrown /\ ~thrown
      BY <2>3 DEF Start, RuntimeInv, CursorFollows
    <3> QED BY <3>1 DEF NeverThrows
  <2>4. CASE PreemptBeforeStep \/ StepAndContinue \/ StepAndPreempt
             \/ StepAndTerminate
    <3>1. thrown' = thrown /\ ~thrown
      BY <2>4 DEF PreemptBeforeStep, StepAndContinue, StepAndPreempt,
                  StepAndTerminate, Active
    <3> QED BY <3>1 DEF NeverThrows
  <2>5. CASE StepAfterEnd
    BY <2>2, <2>5 DEF StepAfterEnd
  <2> QED BY <2>1, <2>2, <2>3, <2>4, <2>5 DEF Next
<1> QED BY <1>1, <1>2, RuntimeInvariant, PTL DEF Spec, Safe

\* When lifecycle.start or lifecycle.step reports the end of the run, the
\* classification of ProcessLifecycleManager is right: Completed means that
\* every process terminated, Deadlocked that only Blocked ones are left, and a
\* run is never left Ready.
THEOREM RunEndsClassified == Spec => []EndIsClassified
<1>1. Init => EndIsClassified
  BY DEF Init, EndIsClassified
<1>2. RuntimeInv /\ EndIsClassified /\ [Next]_vars => EndIsClassified'
  <2> SUFFICES ASSUME RuntimeInv, EndIsClassified, [Next]_vars
               PROVE  EndIsClassified'
    OBVIOUS
  <2>0. ASSUME NEW ps \in [Pid -> States],
               \A p \in Pid : ps[p] \notin {"Ready", "Running"},
               pstate' = ps, phase' = Classify(ps)
        PROVE  EndIsClassified'
    <3>1. \A p \in Pid : ps[p] \in {"Blocked", "Terminated"}
      BY <2>0 DEF States
    <3>2. CASE \E p \in Pid : ps[p] = "Blocked"
      <4>1. phase' = "Deadlocked"
        BY <2>0, <3>2 DEF Classify
      <4> QED BY <2>0, <3>1, <3>2, <4>1 DEF EndIsClassified
    <3>3. CASE ~ \E p \in Pid : ps[p] = "Blocked"
      <4>1. phase' = "Completed"
        BY <2>0, <3>3 DEF Classify
      <4> QED BY <2>0, <3>1, <3>3, <4>1 DEF EndIsClassified
    <3> QED BY <3>2, <3>3
  <2>1. ASSUME phase' = "Running" PROVE EndIsClassified'
    BY <2>1 DEF EndIsClassified
  <2>2. CASE Start
    <3>1. CASE Ready = {}
      <4>1. runningPid = 0 /\ 0 \notin Pid
        BY <2>2, RuntimeAssumption DEF Start, RuntimeInv, OneRunning, Pid
      <4>2. \A p \in Pid : pstate[p] \notin {"Ready", "Running"}
        BY <3>1, <4>1 DEF Ready, RuntimeInv, OneRunning
      <4>3. /\ pstate \in [Pid -> States] /\ pstate' = pstate
            /\ phase' = Classify(pstate)
        BY <2>2, <3>1 DEF Start, RuntimeInv, TypeOK
      <4> QED BY <2>0, <4>2, <4>3
    <3>2. CASE Ready # {}
      BY <2>1, <2>2, <3>2 DEF Start
    <3> QED BY <3>1, <3>2
  <2>3. CASE StepAndTerminate
    <3>1. CASE Ready = {}
      <4> DEFINE ps == [pstate EXCEPT ![runningPid] = "Terminated"]
      <4>1. runningPid \in Pid /\ pstate \in [Pid -> States]
        BY <2>3, ExecutedTyped DEF StepAndTerminate, RuntimeInv, TypeOK
      <4>2. ps \in [Pid -> States] /\ \A p \in Pid : ps[p] \notin {"Ready", "Running"}
        BY <3>1, <4>1 DEF Ready, RuntimeInv, OneRunning, States
      <4>3. pstate' = ps /\ phase' = Classify(ps)
        BY <2>3, <3>1 DEF StepAndTerminate, HasSuccessor
      <4> HIDE DEF ps
      <4> QED BY <2>0, <4>2, <4>3
    <3>2. CASE Ready # {}
      BY <2>1, <2>3, <3>2 DEF StepAndTerminate, HasSuccessor
    <3> QED BY <3>1, <3>2
  <2>4. CASE PreemptBeforeStep \/ StepAndContinue \/ StepAndPreempt \/ StepThrows
    BY <2>1, <2>4 DEF PreemptBeforeStep, StepAndContinue, StepAndPreempt,
                      StepThrows, Active
  <2>5. CASE StepAfterEnd \/ UNCHANGED vars
    BY <2>5 DEF StepAfterEnd, vars, EndIsClassified
  <2> QED BY <2>2, <2>3, <2>4, <2>5 DEF Next
<1> QED BY <1>1, <1>2, RuntimeInvariant, PTL DEF Spec, Safe

\* MultiProcessRunner's loop head leaves no request for lifecycle.step to find.
LEMMA NothingPendingAtStep ==
    ASSUME RuntimeInv, NoInheritedTimerRequest, Driver = "runner"
    PROVE  PendingAtStep = 0
<1>1. pending \in Nat
  BY DEF RuntimeInv, TypeOK
<1> QED BY <1>1 DEF NoInheritedTimerRequest, PendingAtStep, AtEnd

\* Every step keeps the requests confined to a process at the end of its code.
LEMMA NoInheritedTimerRequestNext ==
    RuntimeInv /\ NoInheritedTimerRequest /\ [Next]_vars => NoInheritedTimerRequest'
<1> SUFFICES ASSUME RuntimeInv, NoInheritedTimerRequest, [Next]_vars,
                    Driver = "runner", pending' > 0
             PROVE  /\ pending' = 1
                    /\ phase' = "Running"
                    /\ cpu'.ctx.pc = EndPc(code'[runningPid'])
  BY DEF NoInheritedTimerRequest
<1>0. PendingAtStep = 0 /\ PendingAfterTick \in {0, 1} /\ pending \in Nat
  BY NothingPendingAtStep DEF PendingAfterTick, RuntimeInv, TypeOK
<1>1. ~PreemptionDue(cpu.ctx, PendingAtStep)
  BY <1>0 DEF PreemptionDue
<1>2. CASE Start
  BY <1>2 DEF Start, NoInheritedTimerRequest
<1>3. CASE PreemptBeforeStep
  BY <1>1, <1>3 DEF PreemptBeforeStep
<1>4. CASE StepAndContinue
  <2>1. /\ pending' = 1 /\ PendingAfterTick = 1 /\ Active
        /\ cpu' = CpuAfter(Executed)
        /\ UNCHANGED <<code, runningPid, phase>>
        /\ ~PreemptionDue(Executed.ctx, PendingAfterTick)
    BY <1>0, <1>4 DEF StepAndContinue
  <2>2. Executed.ctx.pc = EndPc(code[runningPid])
    BY <2>1 DEF PreemptionDue
  <2>3. cpu'.ctx = Executed.ctx
    BY <2>1, ExecutedTyped, CpuAfterTyped DEF WellTyped
  <2> QED BY <2>1, <2>2, <2>3 DEF Active
<1>5. CASE StepAndPreempt
  BY <1>0, <1>5 DEF StepAndPreempt
<1>6. CASE StepAndTerminate
  BY <1>0, <1>6 DEF StepAndTerminate
<1>7. CASE StepThrows
  <2>1. Executed.out = "wedge"
    BY <1>7, ThrowsAtSyscall DEF StepThrows
  <2> QED BY <1>0, <1>1, <1>7, <2>1 DEF StepThrows
<1>8. CASE StepAfterEnd \/ UNCHANGED vars
  BY <1>8 DEF StepAfterEnd, vars, NoInheritedTimerRequest
<1> QED BY <1>2, <1>3, <1>4, <1>5, <1>6, <1>7, <1>8 DEF Next

\* A process dispatched by the runner's loop never starts with a timer request
\* that another process earned: a request outlives lifecycle.step only at the
\* end of the Running process's code, where the loop discards it.
THEOREM NoTimerRequestInherited == Spec => []NoInheritedTimerRequest
<1>1. Init => NoInheritedTimerRequest
  BY DEF Init, NoInheritedTimerRequest
<1> QED BY <1>1, NoInheritedTimerRequestNext, RuntimeInvariant, PTL DEF Spec, Safe

\* The selection rule is fair in every step: scheduleNext passes over a Ready
\* process only to come closer to it.
THEOREM RoundRobinApproaches == Spec => SelectionApproaches
<1> DEFINE A == lastSelected' # lastSelected =>
                  \A p \in Pid : pstate[p] = "Ready" /\ pstate'[p] = "Ready" =>
                      Distance(NumProcs, lastSelected', p)
                          < Distance(NumProcs, lastSelected, p)
<1>1. RuntimeInv /\ [Next]_vars => A
  <2> SUFFICES ASSUME RuntimeInv, [Next]_vars PROVE A
    OBVIOUS
  <2>0. ASSUME Dispatched,
               \A p \in Ready \ {runningPid'} :
                  Distance(NumProcs, lastSelected', p)
                      < Distance(NumProcs, lastSelected, p)
        PROVE  A
    BY <2>0 DEF Dispatched, Ready
  <2>1. CASE Start
    <3>1. CASE Ready = {}
      BY <2>1, <3>1 DEF Start
    <3>2. CASE Ready # {}
      <4>1. DispatchTo(pstate, saved, Ready, lastSelected) /\ phase = "New"
        BY <2>1, <3>2 DEF Start
      <4>2. runningPid = 0 /\ 0 \notin Pid
        BY <4>1, RuntimeAssumption DEF RuntimeInv, OneRunning, Pid
      <4>3. /\ pstate \in [Pid -> States] /\ saved \in [Pid -> Context]
            /\ Ready \in SUBSET Pid /\ lastSelected \in 0 .. NumProcs
            /\ \A p \in Pid : p \in Ready <=> pstate[p] = "Ready"
            /\ \A p \in Pid : pstate[p] # "Running"
            /\ \A p \in Ready : InCode(code[p], saved[p].pc)
        BY <4>2 DEF RuntimeInv, TypeOK, OneRunning, Ready, ReadyIsDispatchable
      <4>4. /\ Dispatched
            /\ \A p \in Ready \ {runningPid'} :
                 Distance(NumProcs, lastSelected', p)
                     < Distance(NumProcs, lastSelected, p)
        BY <3>2, <4>1, <4>3, DispatchEstablishes
      <4> QED BY <2>0, <4>4
    <3> QED BY <3>1, <3>2
  <2>2. CASE PreemptBeforeStep
    <3>1. Active /\ ~DispatchRefused(cpu.ctx) /\ Dispatch(cpu.ctx)
      BY <2>2 DEF PreemptBeforeStep
    <3>2. cpu.ctx \in Context
      BY <3>1, ExecutedTyped
    <3> QED BY <2>0, <3>1, <3>2, PreemptEstablishes
  <2>3. CASE StepAndPreempt
    <3>1. Active /\ ~DispatchRefused(Executed.ctx) /\ Dispatch(Executed.ctx)
      BY <2>3 DEF StepAndPreempt
    <3>2. Executed.ctx \in Context
      BY <3>1, ExecutedTyped DEF WellTyped
    <3> QED BY <2>0, <3>1, <3>2, PreemptEstablishes
  <2>4. CASE StepAndTerminate
    <3>1. CASE Ready = {}
      BY <2>4, <3>1 DEF StepAndTerminate, HasSuccessor
    <3>2. CASE Ready # {}
      <4>1. /\ Active
            /\ DispatchTo([pstate EXCEPT ![runningPid] = "Terminated"],
                          [saved EXCEPT ![runningPid] = Executed.ctx],
                          Ready, lastSelected)
        BY <2>4, <3>2 DEF StepAndTerminate, HasSuccessor
      <4>2. Executed.ctx \in Context
        BY <4>1, ExecutedTyped DEF WellTyped
      <4> QED BY <2>0, <3>2, <4>1, <4>2, HandoffEstablishes
    <3> QED BY <3>1, <3>2
  <2>5. CASE StepAndContinue \/ StepThrows \/ StepAfterEnd \/ UNCHANGED vars
    BY <2>5 DEF StepAndContinue, StepThrows, StepAfterEnd, vars
  <2> QED BY <2>1, <2>2, <2>3, <2>4, <2>5 DEF Next
<1> QED BY <1>1, RuntimeInvariant, PTL DEF Spec, Safe, SelectionApproaches

\* One instruction of the Running process that leaves every other machine
\* alone is a step of the abstract machines.
LEMMA InstructionRefines ==
    ASSUME RuntimeInv, Active,
           UNCHANGED <<code, blocked>>,
           Machine' = [Machine EXCEPT ![runningPid] = Executed.ctx],
           host' = Executed.host,
           result' = IF Executed.out \in {"ok", "wedge"} THEN result
                     ELSE [result EXCEPT ![runningPid] = TerminationResult(Executed)]
    PROVE  Isolated!Next
<1>1. /\ runningPid \in Pid /\ pstate[runningPid] = "Running"
      /\ Machine[runningPid] = cpu.ctx /\ cpu.owner = runningPid
  BY ExecutedTyped DEF Machine
<1>2. runningPid \notin blocked /\ result[runningPid] = NoResult
  BY <1>1 DEF RuntimeInv, ResultsMatchStates
<1>3. Executed = Isolated!Exec(code[runningPid], Machine[runningPid], host)
  BY <1>1 DEF Executed, Exec, Isolated!Exec, InCode, Isolated!InCode,
     EndPc, Isolated!EndPc, Result, Isolated!Result, Branch, Isolated!Branch,
     Syscall, Isolated!Syscall
<1>4. TerminationResult(Executed) = Isolated!TerminationResult(Executed)
  BY DEF TerminationResult, Isolated!TerminationResult
<1>5. Isolated!Step(runningPid)
  BY <1>2, <1>3, <1>4 DEF Isolated!Step, NoResult, Isolated!NoResult
<1> QED BY <1>1, <1>5 DEF Isolated!Next, Pid, Isolated!Pid

\* Whether the process goes on, is preempted or ends, the instruction it
\* executed changes its own machine and no other.
LEMMA InstructionOnMachine ==
    ASSUME RuntimeInv, StepAndContinue \/ StepAndPreempt \/ StepAndTerminate
    PROVE  Machine' = [Machine EXCEPT ![runningPid] = Executed.ctx]
<1>0. /\ Active /\ Executed.ctx \in Context /\ runningPid \in Pid /\ 0 \notin Pid
      /\ saved \in [Pid -> Context]
  BY ExecutedTyped, RuntimeAssumption
     DEF StepAndContinue, StepAndPreempt, StepAndTerminate, WellTyped, Pid,
         RuntimeInv, TypeOK
<1>1. CASE StepAndContinue
  <2>1. cpu' = CpuAfter(Executed) /\ UNCHANGED <<saved, runningPid>>
    BY <1>1 DEF StepAndContinue
  <2>2. cpu'.ctx = Executed.ctx
    BY <1>0, <2>1, CpuAfterTyped
  <2> QED BY <1>0, <2>1, <2>2 DEF Machine
<1>2. CASE StepAndPreempt
  <2>1. ~DispatchRefused(Executed.ctx) /\ Dispatch(Executed.ctx)
    BY <1>2 DEF StepAndPreempt
  <2>2. Dispatched /\ saved' = [saved EXCEPT ![runningPid] = Executed.ctx]
    BY <1>0, <2>1, PreemptEstablishes
  <2> QED BY <1>0, <2>2 DEF Machine, Dispatched, Loaded
<1>3. CASE StepAndTerminate
  <2>1. saved' = [saved EXCEPT ![runningPid] = Executed.ctx]
    BY <1>3 DEF StepAndTerminate, HasSuccessor, DispatchTo
  <2>2. runningPid' = 0 \/ Dispatched
    <3>1. CASE Ready = {}
      BY <1>3, <3>1 DEF StepAndTerminate, HasSuccessor
    <3>2. CASE Ready # {}
      <4>1. DispatchTo([pstate EXCEPT ![runningPid] = "Terminated"],
                       [saved EXCEPT ![runningPid] = Executed.ctx],
                       Ready, lastSelected)
        BY <1>3, <3>2 DEF StepAndTerminate, HasSuccessor
      <4> QED BY <1>0, <3>2, <4>1, HandoffEstablishes
    <3> QED BY <3>1, <3>2
  <2>3. \A p \in Pid : Machine'[p] = saved'[p]
    BY <1>0, <2>2 DEF Machine, Dispatched, Loaded
  <2>4. \A p \in Pid : Machine'[p] = IF p = runningPid THEN Executed.ctx ELSE Machine[p]
    BY <1>0, <2>1, <2>3 DEF Machine
  <2> QED BY <1>0, <2>4 DEF Machine
<1> QED BY <1>1, <1>2, <1>3

\* The runtime gives every process a private machine: it implements
\* IsolatedMachines, whatever the executables, the quantum, the number of
\* processes and the way they end.
THEOREM RuntimeIsolates == Spec => ImplementsIsolation
<1>1. Init => Isolated!Init
  <2> SUFFICES ASSUME Init PROVE Isolated!Init
    OBVIOUS
  <2>1. 0 \notin Pid
    BY RuntimeAssumption DEF Pid
  <2>2. Machine = [p \in Pid |-> InitialContext]
    BY <2>1 DEF Init, Machine
  <2> QED BY <2>2 DEF Init, Isolated!Init, Pid, Isolated!Pid, InitialContext,
        Isolated!InitialContext, NoResult, Isolated!NoResult
<1>2. RuntimeInv /\ [Next]_vars => [Isolated!Next]_(Isolated!vars)
  <2> SUFFICES ASSUME RuntimeInv, [Next]_vars
               PROVE  Isolated!Next \/ UNCHANGED Isolated!vars
    BY DEF Isolated!vars
  <2>0. ASSUME UNCHANGED <<code, blocked, result, host>>, Machine' = Machine
        PROVE  UNCHANGED Isolated!vars
    BY <2>0 DEF Isolated!vars
  <2>1. CASE Start
    <3>1. phase = "New" /\ runningPid = 0 /\ 0 \notin Pid
      BY <2>1, RuntimeAssumption DEF Start, RuntimeInv, OneRunning, Pid
    <3>2. Machine' = Machine
      <4>1. CASE Ready = {}
        BY <2>1, <3>1, <4>1 DEF Start, Machine
      <4>2. CASE Ready # {}
        BY <2>1, <3>1, <4>2 DEF Start, DispatchTo, Loaded, Machine
      <4> QED BY <4>1, <4>2
    <3> QED BY <2>0, <2>1, <3>2 DEF Start
  <2>2. CASE PreemptBeforeStep
    <3>1. /\ Active /\ ~DispatchRefused(cpu.ctx) /\ Dispatch(cpu.ctx)
          /\ UNCHANGED <<code, blocked, result, host>>
      BY <2>2 DEF PreemptBeforeStep
    <3>2. cpu.ctx \in Context /\ runningPid \in Pid
      BY <3>1, ExecutedTyped
    <3>3. Dispatched /\ saved' = [saved EXCEPT ![runningPid] = cpu.ctx]
      BY <3>1, <3>2, PreemptEstablishes
    <3>4. Machine' = Machine
      BY <3>2, <3>3 DEF Machine, Dispatched, Loaded, RuntimeInv, TypeOK
    <3> QED BY <2>0, <3>1, <3>4
  <2>3. CASE StepAndContinue \/ StepAndPreempt
    <3>1. /\ Active /\ Executed.out = "ok" /\ host' = Executed.host
          /\ UNCHANGED <<code, blocked, result>>
      BY <2>3 DEF StepAndContinue, StepAndPreempt
    <3>2. Machine' = [Machine EXCEPT ![runningPid] = Executed.ctx]
      BY <2>3, InstructionOnMachine
    <3> QED BY <3>1, <3>2, InstructionRefines
  <2>5. CASE StepAndTerminate
    <3>1. /\ Active /\ Executed.out \notin {"ok", "wedge"} /\ host' = Executed.host
          /\ result' = [result EXCEPT ![runningPid] = TerminationResult(Executed)]
          /\ UNCHANGED <<code, blocked>>
      BY <2>5 DEF StepAndTerminate, Endings
    <3>2. Machine' = [Machine EXCEPT ![runningPid] = Executed.ctx]
      BY <2>5, InstructionOnMachine
    <3> QED BY <3>1, <3>2, InstructionRefines
  <2>6. CASE StepThrows
    <3>1. Active /\ ~PreemptionDue(cpu.ctx, PendingAtStep) /\ Executed.out = "wedge"
      BY <2>6, ThrowsAtSyscall DEF StepThrows
    <3>2. /\ cpu' = CpuAfter(Executed) /\ host' = Executed.host
          /\ UNCHANGED <<code, blocked, saved, result, runningPid>>
      BY <2>6, <3>1 DEF StepThrows
    <3>3. Executed.ctx \in Context /\ runningPid \in Pid
      BY <3>1, ExecutedTyped DEF WellTyped
    <3>4. cpu'.ctx = Executed.ctx
      BY <3>1, <3>2, <3>3, CpuAfterTyped
    <3>5. Machine' = [Machine EXCEPT ![runningPid] = Executed.ctx]
      BY <3>2, <3>3, <3>4 DEF Machine
    <3> QED BY <3>1, <3>2, <3>5, InstructionRefines
  <2>7. CASE StepAfterEnd \/ UNCHANGED vars
    <3>1. UNCHANGED vars
      BY <2>7 DEF StepAfterEnd
    <3>2. Machine' = Machine
      BY <3>1 DEF vars, Machine
    <3> QED BY <2>0, <3>1, <3>2 DEF vars
  <2> QED BY <2>1, <2>2, <2>3, <2>5, <2>6, <2>7 DEF Next
<1> QED BY <1>1, <1>2, RuntimeInvariant, PTL
     DEF Spec, Safe, ImplementsIsolation, Isolated!Safe
===============================================================================
