--------------------------- MODULE ProcessTableProofs ---------------------------
(***************************************************************************)
(* ProcessTable for any number of PIDs and any contexts and memories that  *)
(* callers may hand over, and ProcessImage for any memory map, radix and   *)
(* executables.  The three invariants of the table are inductive together  *)
(* with its shape: a transition clears the right running_pid_ only if      *)
(* RunningIsUnique held before it, and a fresh PID needs PidsAreUsedOnce.  *)
(* A file is taken apart with Holds(bytes, o, s): the parts that the       *)
(* writer concatenates are found at their offsets, and a word is found     *)
(* where the reader reads it.                                              *)
(***************************************************************************)
EXTENDS MCProcesses, TLAPS

SpaceType == [memory : MemoryType, executable : Codes \cup {NoExecutable}]

ExitType == [code : ExitCodes, kind : {"None", "NormalExit", "CpuFault"}]

BlockType == [context : ContextType, space : SpaceType, state : States, exit : ExitType]

\* The shape of the table.
TableType ==
    /\ next_pid \in 0 .. MaxPid
    /\ running_pid \in 0 .. MaxPid
    /\ DOMAIN processes \subseteq PIDs
    /\ processes \in [DOMAIN processes -> BlockType]

IInv == TableType /\ RunningIsUnique /\ PidsAreUsedOnce /\ LiveStaysValid

\* A block that may stand under a PID: it has that PID, a context that can be
\* dispatched unless it ended, and its executable in memory.
Good(p, pid) ==
    /\ p \in BlockType
    /\ p.context.pid = pid
    /\ p.state # "Terminated" => ContextValid(p.context)
    /\ SpaceValid(p.space)

\* Storing a good block keeps the invariant if running_pid_ follows its state.
LEMMA StoreStep ==
    ASSUME IInv, NEW pid \in PIDs, contains(pid), NEW p, Good(p, pid),
           Stored(pid, p),
           p.state = "Running" => running_pid \in {0, pid},
           running_pid' = IF p.state = "Running" THEN pid
                          ELSE IF processes[pid].state = "Running" THEN 0
                          ELSE running_pid
    PROVE  IInv'
<1> USE DEF IInv, TableType, contains, Good
<1>1. /\ DOMAIN processes' = DOMAIN processes
      /\ processes'[pid] = p
      /\ \A q \in DOMAIN processes : q # pid => processes'[q] = processes[q]
      /\ next_pid' = next_pid
  BY DEF Stored
<1>2. TableType'
  <2>1. processes' \in [DOMAIN processes -> BlockType]
    BY DEF Stored
  <2>2. running_pid' \in 0 .. MaxPid
    BY TableAssumption DEF PIDs
  <2> QED BY <1>1, <2>1, <2>2
<1>3. RunningIsUnique'
  <2>1. \A q \in DOMAIN processes : processes[q].state = "Running" <=> q = running_pid
    BY TableAssumption DEF RunningIsUnique, processIdsInState, PIDs
  <2>2. running_pid # 0 => running_pid \in DOMAIN processes
    BY DEF RunningIsUnique, processIdsInState
  <2>3. \A q \in DOMAIN processes' : processes'[q].state = "Running" <=> q = running_pid'
    BY <1>1, <2>1, TableAssumption DEF PIDs
  <2>4. running_pid' # 0 => running_pid' \in DOMAIN processes'
    BY <1>1, <2>2
  <2>5. 0 \notin DOMAIN processes'
    BY <1>1, TableAssumption DEF PIDs
  <2> QED BY <2>3, <2>4, <2>5 DEF RunningIsUnique, processIdsInState
<1>4. PidsAreUsedOnce'
  BY <1>1 DEF PidsAreUsedOnce, PIDs
<1>5. LiveStaysValid'
  <2> SUFFICES ASSUME NEW q \in DOMAIN processes'
               PROVE  /\ processes'[q].state # "Terminated" =>
                             ContextValid(processes'[q].context)
                      /\ SpaceValid(processes'[q].space)
    BY DEF LiveStaysValid, ContextValid, SnapshotValid, CodeRangeShape,
           StackRangeValid, KernelPointerValid, ProgramCounterInside, SpaceValid
  <2>1. CASE q = pid BY <1>1, <2>1
  <2>2. CASE q # pid BY <1>1, <2>2 DEF LiveStaysValid
  <2> QED BY <2>1, <2>2
<1> QED BY <1>2, <1>3, <1>4, <1>5

\* A new process keeps the invariant.
LEMMA CreateStep ==
    ASSUME IInv, NEW c \in ContextType, c.pid = next_pid, ContextValid(c),
           NEW s \in SpaceType, SpaceValid(s), Create(c, s)
    PROVE  IInv'
<1> DEFINE p == ControlBlock(c, s)
<1> USE DEF IInv, TableType
<1>1. /\ DOMAIN processes' = DOMAIN processes \cup {next_pid}
      /\ processes'[next_pid] = p
      /\ \A q \in DOMAIN processes : q # next_pid => processes'[q] = processes[q]
      /\ running_pid' = running_pid
      /\ next_pid' = Committed(next_pid)
      /\ next_pid \in PIDs /\ next_pid \notin DOMAIN processes
  BY TableAssumption DEF Create, contains, PIDs
<1>2. p \in BlockType /\ p.state = "Ready" /\ p.context = c /\ p.space = s
  BY TableAssumption DEF ControlBlock, BlockType, NotExited, ExitType, States
<1>3. TableType'
  <2>1. processes' \in [DOMAIN processes' -> BlockType]
    BY <1>1, <1>2 DEF Create
  <2> QED BY <1>1, <2>1, TableAssumption DEF Committed, PIDs
<1>4. RunningIsUnique'
  <2>1. \A q \in DOMAIN processes' :
            processes'[q].state = "Running" <=>
                q \in DOMAIN processes /\ processes[q].state = "Running"
    BY <1>1, <1>2
  <2>2. processIdsInState("Running")' = processIdsInState("Running")
    BY <1>1, <2>1 DEF processIdsInState
  <2> QED BY <1>1, <2>2 DEF RunningIsUnique
<1>5. PidsAreUsedOnce'
  <2>1. DOMAIN processes' = 1 .. next_pid
    BY <1>1, TableAssumption DEF PidsAreUsedOnce, PIDs
  <2>2. DOMAIN processes' = IF next_pid' = 0 THEN PIDs ELSE 1 .. next_pid' - 1
    BY <1>1, <2>1, TableAssumption DEF Committed, PIDs
  <2>3. \A q \in DOMAIN processes' : processes'[q].context.pid = q
    BY <1>1, <1>2 DEF PidsAreUsedOnce
  <2> QED BY <2>2, <2>3 DEF PidsAreUsedOnce, PIDs
<1>6. LiveStaysValid'
  <2> SUFFICES ASSUME NEW q \in DOMAIN processes'
               PROVE  /\ processes'[q].state # "Terminated" =>
                             ContextValid(processes'[q].context)
                      /\ SpaceValid(processes'[q].space)
    BY DEF LiveStaysValid, ContextValid, SnapshotValid, CodeRangeShape,
           StackRangeValid, KernelPointerValid, ProgramCounterInside, SpaceValid
  <2>1. CASE q = next_pid BY <1>1, <1>2, <2>1
  <2>2. CASE q # next_pid BY <1>1, <2>2 DEF LiveStaysValid
  <2> QED BY <2>1, <2>2
<1> QED BY <1>3, <1>4, <1>5, <1>6

\* What a step that ends a process stores, and why the invariant survives it.
LEMMA FinishStep ==
    ASSUME IInv, NEW pid \in PIDs, contains(pid), processes[pid].state # "Terminated",
           NEW p \in BlockType, p.context.pid = pid, SpaceValid(p.space),
           NEW code \in ExitCodes, NEW kind \in {"NormalExit", "CpuFault"},
           Finish(pid, p, code, kind)
    PROVE  IInv'
<1> DEFINE q == Ended(p, code, kind)
<1>1. q \in BlockType /\ q.state = "Terminated" /\ q.context = p.context /\ q.space = p.space
  BY DEF Ended, BlockType, ExitType, States
<1>2. Good(q, pid)
  BY <1>1 DEF Good
<1>3. Stored(pid, q)
  BY DEF Finish
<1>4. running_pid' = IF q.state = "Running" THEN pid
                     ELSE IF processes[pid].state = "Running" THEN 0
                     ELSE running_pid
  BY <1>1 DEF Finish
<1> HIDE DEF q
<1> QED BY <1>1, <1>2, <1>3, <1>4, StoreStep

\* A stored block is a good one.
LEMMA StoredIsGood ==
    ASSUME IInv, NEW pid \in DOMAIN processes
    PROVE  Good(processes[pid], pid)
BY DEF IInv, TableType, PidsAreUsedOnce, LiveStaysValid, Good

\* With another context or memory of the right type it keeps its type and the
\* rest of its fields.
LEMMA ReplacedBlock ==
    ASSUME NEW p \in BlockType, NEW c \in ContextType, NEW m \in MemoryType
    PROVE  /\ replaceContext(p, c) \in BlockType
           /\ replaceContext(p, c).context = c
           /\ replaceContext(p, c).space = p.space
           /\ replaceContext(p, c).state = p.state
           /\ replaceRuntimeState(p, c, m) \in BlockType
           /\ replaceRuntimeState(p, c, m).context = c
           /\ replaceRuntimeState(p, c, m).space = WithMemory(p.space, m)
           /\ replaceRuntimeState(p, c, m).state = p.state
<1>1. WithMemory(p.space, m) \in SpaceType
  BY DEF WithMemory, BlockType, SpaceType
<1>2. /\ replaceRuntimeState(p, c, m) \in BlockType
      /\ replaceRuntimeState(p, c, m).context = c
      /\ replaceRuntimeState(p, c, m).space = WithMemory(p.space, m)
      /\ replaceRuntimeState(p, c, m).state = p.state
  BY <1>1 DEF replaceRuntimeState, BlockType
<1>3. replaceContext(p, c) =
          [context |-> c, space |-> p.space, state |-> p.state, exit |-> p.exit]
  BY DEF replaceContext, BlockType
<1>4. p.space \in SpaceType /\ p.state \in States /\ p.exit \in ExitType
  BY DEF BlockType
<1> QED BY <1>1, <1>2, <1>3, <1>4 DEF BlockType

\* The invariant holds at the start.
LEMMA InitHolds == Init => IInv
<1> SUFFICES ASSUME Init PROVE IInv
  OBVIOUS
<1>1. DOMAIN processes = {} /\ next_pid = 1 /\ running_pid = 0
  BY DEF Init
<1>2. processes \in [DOMAIN processes -> BlockType]
  BY DEF Init
<1> QED BY <1>1, <1>2, TableAssumption
        DEF IInv, TableType, RunningIsUnique, processIdsInState, PidsAreUsedOnce,
            LiveStaysValid, PIDs

\* Every call keeps the invariant.
LEMMA NextHolds == IInv /\ [Next]_vars => IInv'
<1> SUFFICES ASSUME IInv, [Next]_vars PROVE IInv'
  OBVIOUS
<1> USE InputAssumption
<1>t. /\ next_pid \in 0 .. MaxPid
      /\ \A pid \in DOMAIN processes : processes[pid] \in BlockType
  BY DEF IInv, TableType
<1>1. ASSUME NEW c \in Contexts, NEW m \in Memories, CreateFromContext(c, m)
      PROVE  IInv'
  <2> DEFINE context == [c EXCEPT !.pid = next_pid]
             s == [memory |-> BlankMemory(m), executable |-> NoExecutable]
  <2>1. context \in ContextType /\ context.pid = next_pid
    BY <1>t DEF ContextType
  <2>2. s \in SpaceType /\ SpaceValid(s)
    BY TableAssumption DEF SpaceType, MemoryType, BlankMemory, SpaceValid
  <2>3. ContextValid(context) /\ Create(context, s)
    BY <1>1 DEF CreateFromContext
  <2> HIDE DEF context, s
  <2> QED BY <2>1, <2>2, <2>3, CreateStep
<1>2. ASSUME NEW c \in Contexts, NEW m \in Memories, NEW k \in BOOLEAN,
             CreateFromCpu(c, m, k)
      PROVE  IInv'
  <2> DEFINE context == [c EXCEPT !.pid = next_pid, !.stack_begin = kUserStackBase,
                                  !.stack_end = kUserStackEnd]
             s == [memory |-> m, executable |-> NoExecutable]
  <2>1. context \in ContextType /\ context.pid = next_pid
    BY <1>t, TableAssumption DEF ContextType
  <2>2. s \in SpaceType
    BY DEF SpaceType
  <2>3. ContextValid(context) /\ SpaceValid(s) /\ Create(context, s)
    BY <1>2 DEF CreateFromCpu
  <2> HIDE DEF context, s
  <2> QED BY <2>1, <2>2, <2>3, CreateStep
<1>3. ASSUME NEW c \in Contexts, NEW m \in Memories, NEW code \in Codes,
             CreateFromImage(c, m, code)
      PROVE  IInv'
  <2> DEFINE context == [c EXCEPT !.pid = next_pid, !.privilege = "User",
                                  !.has_user_code_range = TRUE,
                                  !.stack_begin = kUserStackBase,
                                  !.stack_end = kUserStackEnd,
                                  !.sp = kUserStackBase, !.ksp = kKernelStackBase]
             s == [memory |-> m, executable |-> code]
  <2>1. context \in ContextType /\ context.pid = next_pid
    BY <1>t, TableAssumption DEF ContextType
  <2>2. s \in SpaceType
    BY DEF SpaceType
  <2>3. ContextValid(context) /\ SpaceValid(s) /\ Create(context, s)
    BY <1>3 DEF CreateFromImage
  <2> HIDE DEF context, s
  <2> QED BY <2>1, <2>2, <2>3, CreateStep
<1>r. ASSUME NEW pid \in PIDs, contains(pid), processes[pid].state # "Running"
      PROVE  running_pid # pid
  BY <1>r, TableAssumption DEF IInv, RunningIsUnique, processIdsInState, contains, PIDs
<1>u. ASSUME NEW pid \in PIDs, contains(pid), processes[pid].state = "Running"
      PROVE  running_pid = pid
  BY <1>u, TableAssumption DEF IInv, RunningIsUnique, processIdsInState, contains, PIDs
<1>4. ASSUME NEW pid \in PIDs, NEW c \in Contexts, UpdateContext(pid, c)
      PROVE  IInv'
  <2> DEFINE p == replaceContext(processes[pid], c)
  <2>1. /\ pid \in DOMAIN processes /\ contains(pid)
        /\ ContextValid(c) /\ c.pid = processes[pid].context.pid
        /\ Stored(pid, p) /\ running_pid' = running_pid
    BY <1>4 DEF UpdateContext, contains, Replaceable
  <2>2. Good(processes[pid], pid)
    BY <2>1, StoredIsGood
  <2>3. PICK m \in MemoryType : TRUE
    BY <2>2 DEF Good, BlockType, SpaceType
  <2>4. p \in BlockType /\ p.context = c /\ p.space = processes[pid].space
        /\ p.state = processes[pid].state
    BY <1>t, <2>1, <2>3, ReplacedBlock
  <2> HIDE DEF p
  <2>5. Good(p, pid)
    BY <2>1, <2>2, <2>4 DEF Good
  <2> QED BY <1>r, <1>u, <2>1, <2>4, <2>5, StoreStep
<1>5. ASSUME NEW pid \in PIDs, NEW c \in Contexts, NEW m \in Memories,
             UpdateRuntimeState(pid, c, m)
      PROVE  IInv'
  <2> DEFINE p == replaceRuntimeState(processes[pid], c, m)
  <2>1. /\ pid \in DOMAIN processes /\ contains(pid)
        /\ ContextValid(c) /\ c.pid = processes[pid].context.pid
        /\ SpaceValid(WithMemory(processes[pid].space, m))
        /\ Stored(pid, p) /\ running_pid' = running_pid
    BY <1>5 DEF UpdateRuntimeState, contains, Replaceable
  <2>2. Good(processes[pid], pid)
    BY <2>1, StoredIsGood
  <2>3. p \in BlockType /\ p.context = c /\ p.space = WithMemory(processes[pid].space, m)
        /\ p.state = processes[pid].state
    BY <1>t, <2>1, ReplacedBlock
  <2> HIDE DEF p
  <2>4. Good(p, pid)
    BY <2>1, <2>2, <2>3 DEF Good
  <2> QED BY <1>r, <1>u, <2>1, <2>3, <2>4, StoreStep
<1>6. ASSUME NEW pid \in PIDs, NEW state \in States, Transition(pid, state)
      PROVE  IInv'
  <2> DEFINE p == transitionTo(processes[pid], state)
  <2>1. /\ pid \in DOMAIN processes /\ contains(pid)
        /\ state = "Running" => running_pid \in {0, pid}
        /\ canTransitionProcessState(processes[pid].state, state)
        /\ state # "Terminated"
        /\ Stored(pid, p) /\ running_pid' = RunningAfter(pid, state)
    BY <1>6 DEF Transition, contains
  <2>2. Good(processes[pid], pid)
    BY <2>1, StoredIsGood
  <2>3. p \in BlockType /\ p.context = processes[pid].context
        /\ p.space = processes[pid].space /\ p.state = state
    BY <1>t, <2>1 DEF transitionTo, BlockType
  <2>4. processes[pid].state # "Terminated"
    BY <2>1 DEF canTransitionProcessState
  <2> HIDE DEF p
  <2>5. Good(p, pid)
    BY <2>2, <2>3, <2>4 DEF Good
  <2> QED BY <2>1, <2>3, <2>5, StoreStep DEF RunningAfter
<1>7. ASSUME NEW pid \in PIDs, NEW code \in ExitCodes, Terminate(pid, code)
      PROVE  IInv'
  <2>1. /\ pid \in DOMAIN processes /\ contains(pid)
        /\ processes[pid].state # "Terminated"
        /\ Finish(pid, processes[pid], code, "NormalExit")
    BY <1>7 DEF Terminate, contains
  <2>2. Good(processes[pid], pid)
    BY <2>1, StoredIsGood
  <2> QED BY <2>1, <2>2, FinishStep DEF Good
<1>8. ASSUME NEW pid \in PIDs, NEW c \in Contexts, NEW code \in ExitCodes,
             NEW kind \in {"NormalExit", "CpuFault"}, EndWithContext(pid, c, code, kind)
      PROVE  IInv'
  <2> DEFINE p == replaceContext(processes[pid], c)
  <2>1. /\ pid \in DOMAIN processes /\ contains(pid)
        /\ processes[pid].state # "Terminated" /\ c.pid = processes[pid].context.pid
        /\ Finish(pid, p, code, kind)
    BY <1>8 DEF EndWithContext, contains, FinallyReplaceable
  <2>2. Good(processes[pid], pid)
    BY <2>1, StoredIsGood
  <2>3. PICK m \in MemoryType : TRUE
    BY <2>2 DEF Good, BlockType, SpaceType
  <2>4. p \in BlockType /\ p.context = c /\ p.space = processes[pid].space
    BY <1>t, <2>1, <2>3, ReplacedBlock
  <2> HIDE DEF p
  <2> QED BY <2>1, <2>2, <2>4, FinishStep DEF Good
<1>9. ASSUME NEW pid \in PIDs, NEW c \in Contexts, NEW m \in Memories,
             NEW code \in ExitCodes, NEW kind \in {"NormalExit", "CpuFault"},
             EndWithState(pid, c, m, code, kind)
      PROVE  IInv'
  <2> DEFINE p == replaceRuntimeState(processes[pid], c, m)
  <2>1. /\ pid \in DOMAIN processes /\ contains(pid)
        /\ processes[pid].state # "Terminated" /\ c.pid = processes[pid].context.pid
        /\ SpaceValid(WithMemory(processes[pid].space, m))
        /\ Finish(pid, p, code, kind)
    BY <1>9 DEF EndWithState, contains, FinallyReplaceable
  <2>2. Good(processes[pid], pid)
    BY <2>1, StoredIsGood
  <2>3. p \in BlockType /\ p.context = c /\ p.space = WithMemory(processes[pid].space, m)
    BY <1>t, <2>1, ReplacedBlock
  <2> HIDE DEF p
  <2> QED BY <2>1, <2>2, <2>3, FinishStep DEF Good
<1>10. CASE UNCHANGED vars
  BY <1>10 DEF vars, IInv, TableType, RunningIsUnique, processIdsInState,
               PidsAreUsedOnce, LiveStaysValid, ContextValid, SnapshotValid,
               CodeRangeShape, StackRangeValid, KernelPointerValid,
               ProgramCounterInside, SpaceValid
<1> QED
  BY <1>1, <1>2, <1>3, <1>4, <1>5, <1>6, <1>7, <1>8, <1>9, <1>10 DEF Next

LEMMA Invariant == Spec => []IInv
BY InitHolds, NextHolds, PTL DEF Spec

\* For any number of PIDs, any contexts and memories that callers hand over and
\* any order of calls: at most one process is Running and running_pid_ names it,
\* each PID is given out once, in order, and a process that has not ended keeps a
\* valid context and a memory that holds its executable (ProcessTable.cpp,
\* ProcessControlBlock.cpp).
THEOREM TableStaysConsistent == Spec => []TableConsistent
<1>1. IInv => TableConsistent
  BY DEF IInv, TableConsistent
<1> QED BY <1>1, Invariant, PTL

\* What a process ended with is never changed, and no process is removed.
THEOREM EndFinal == Spec => EndIsFinal
<1> DEFINE Kept ==
        \A pid \in DOMAIN processes :
            /\ pid \in DOMAIN processes'
            /\ processes[pid].state = "Terminated" => processes'[pid] = processes[pid]
<1>a. ASSUME NEW pid \in PIDs, NEW p, Stored(pid, p),
             processes[pid].state # "Terminated" \/ p = processes[pid]
      PROVE  Kept
  BY <1>a DEF Stored
<1>b. ASSUME NEW c, NEW s, Create(c, s)
      PROVE  Kept
  BY <1>b DEF Create, contains
<1>1. ASSUME IInv, Next PROVE Kept
  <2>1. CASE \E c \in Contexts, m \in Memories : CreateFromContext(c, m)
    BY <2>1, <1>b DEF CreateFromContext
  <2>2. CASE \E c \in Contexts, m \in Memories, k \in BOOLEAN : CreateFromCpu(c, m, k)
    BY <2>2, <1>b DEF CreateFromCpu
  <2>3. CASE \E c \in Contexts, m \in Memories, code \in Codes : CreateFromImage(c, m, code)
    BY <2>3, <1>b DEF CreateFromImage
  <2>4. ASSUME NEW pid \in PIDs, NEW c \in Contexts, UpdateContext(pid, c)
        PROVE  Kept
    BY <2>4, <1>a DEF UpdateContext, Replaceable
  <2>5. ASSUME NEW pid \in PIDs, NEW c \in Contexts, NEW m \in Memories,
               UpdateRuntimeState(pid, c, m)
        PROVE  Kept
    BY <2>5, <1>a DEF UpdateRuntimeState, Replaceable
  <2>6. ASSUME NEW pid \in PIDs, NEW state \in States, Transition(pid, state)
        PROVE  Kept
    <3>1. processes[pid].state # "Terminated"
      BY <2>6 DEF Transition, canTransitionProcessState
    <3>2. Stored(pid, transitionTo(processes[pid], state))
      BY <2>6 DEF Transition
    <3> QED BY <3>1, <3>2, <1>a
  <2>7. ASSUME NEW pid \in PIDs, NEW code \in ExitCodes, Terminate(pid, code)
        PROVE  Kept
    BY <2>7, <1>a DEF Terminate, Finish
  <2>8. ASSUME NEW pid \in PIDs, NEW c \in Contexts, NEW code \in ExitCodes,
               NEW kind \in {"NormalExit", "CpuFault"}, EndWithContext(pid, c, code, kind)
        PROVE  Kept
    BY <2>8, <1>a DEF EndWithContext, Finish, FinallyReplaceable
  <2>9. ASSUME NEW pid \in PIDs, NEW c \in Contexts, NEW m \in Memories,
               NEW code \in ExitCodes, NEW kind \in {"NormalExit", "CpuFault"},
               EndWithState(pid, c, m, code, kind)
        PROVE  Kept
    BY <2>9, <1>a DEF EndWithState, Finish, FinallyReplaceable
  <2> HIDE DEF Kept
  <2> QED BY <1>1, <2>1, <2>2, <2>3, <2>4, <2>5, <2>6, <2>7, <2>8, <2>9 DEF Next
<1>2. IInv /\ [Next]_vars => [Kept]_vars
  BY <1>1
<1>3. Spec => [][Kept]_vars
  BY <1>2, Invariant, PTL DEF Spec
<1> QED BY <1>3 DEF EndIsFinal


-------------------------------------------------------------------------------
(* The words of the file format: four bytes and the number they stand for.  *)

\* One digit of a number, and the rest.
LEMMA DigitSplits ==
    ASSUME NEW d \in Nat \ {0}, NEW x \in Nat
    PROVE  /\ x \div d \in Nat /\ x % d \in 0 .. d - 1
           /\ x = (x \div d) * d + (x % d)
  <1>1. x \div d \in Nat
    OBVIOUS
  <1>2. x % d \in 0 .. d - 1
    OBVIOUS
  <1>3. x = (x \div d) * d + (x % d)
    OBVIOUS
  <1> QED
    BY <1>1, <1>2, <1>3

LEMMA DigitJoins ==
    ASSUME NEW d \in Nat \ {0}, NEW q \in Nat, NEW r \in 0 .. d - 1
    PROVE  (q * d + r) \div d = q /\ (q * d + r) % d = r
  <1> DEFINE x == q * d + r
  <1>1. x \in Nat
    OBVIOUS
  <1> DEFINE p == x \div d
             s == x % d
  <1>2. p \in Nat /\ s \in 0 .. d - 1 /\ x = p * d + s
    BY <1>1, DigitSplits
  <1> HIDE DEF p, s
  <1>3. (p - q) * d = r - s
    BY <1>2
  <1>4. p - q < 1
    BY <1>2, <1>3
  <1>5. p - q > -1
    BY <1>2, <1>3
  <1>6. p = q
    BY <1>2, <1>4, <1>5
  <1> QED
    BY <1>2, <1>3, <1>6 DEF p, s

\* Dividing by d twice is dividing by its square.
LEMMA DivideTwice ==
    ASSUME NEW d \in Nat \ {0}, NEW e \in Nat \ {0}, NEW x \in Nat
    PROVE  x \div (d * e) = (x \div d) \div e
  <1> DEFINE q == x \div d
             r == x % d
             p == q \div e
             s == q % e
  <1>1. q \in Nat /\ r \in 0 .. d - 1 /\ x = q * d + r
    BY DigitSplits
  <1>2. p \in Nat /\ s \in 0 .. e - 1 /\ q = p * e + s
    BY <1>1, DigitSplits
  <1> HIDE DEF q, r, p, s
  <1>3. x = p * (d * e) + (s * d + r)
    BY <1>1, <1>2
  <1>4. d * e \in Nat \ {0} /\ s * d \in Nat
    BY <1>1, <1>2
  <1>5. s * d <= (e - 1) * d
    BY <1>1, <1>2
  <1>6. s * d + r \in 0 .. d * e - 1
    BY <1>1, <1>2, <1>4, <1>5
  <1> DEFINE t == s * d + r
             f == d * e
  <1>7. x = p * f + t /\ f \in Nat \ {0} /\ t \in 0 .. f - 1
    BY <1>3, <1>4, <1>6
  <1> HIDE DEF t, f
  <1>8. x \div f = p
    BY <1>2, <1>7, DigitJoins
  <1> QED
    BY <1>8 DEF p, q, f
LEMMA DigitBound ==
    ASSUME NEW d \in Nat \ {0}, NEW n \in Nat, NEW x \in 0 .. n * d - 1
    PROVE  x \div d < n
  <1> DEFINE q == x \div d
             r == x % d
  <1>1. n * d \in Nat
    OBVIOUS
  <1>2. x \in Nat /\ x < n * d
    BY <1>1
  <1>3. q \in Nat /\ r \in 0 .. d - 1 /\ x = q * d + r
    BY <1>2, DigitSplits
  <1> HIDE DEF q, r
  <1>4. (q - n) * d < 0
    BY <1>2, <1>3
  <1>5. q - n < 0
    BY <1>3, <1>4
  <1> QED
    BY <1>3, <1>5 DEF q

\* The number that four bytes stand for, the first with the weight 1.
Word(b0, b1, b2, b3) == ((b3 * Radix + b2) * Radix + b1) * Radix + b0

\* The bytes of a word are those of the number they make.
LEMMA WordSplits ==
    ASSUME NEW x \in Image!U32
    PROVE  /\ Image!ByteOf(x, 1) \in Image!Byte
           /\ Image!ByteOf(x, Radix) \in Image!Byte
           /\ Image!ByteOf(x, Radix * Radix) \in Image!Byte
           /\ Image!ByteOf(x, Radix * Radix * Radix) \in Image!Byte
           /\ x = Word(Image!ByteOf(x, 1), Image!ByteOf(x, Radix),
                       Image!ByteOf(x, Radix * Radix),
                       Image!ByteOf(x, Radix * Radix * Radix))
  <1> DEFINE R == Radix
             R2 == R * R
             R3 == R2 * R
             q1 == x \div R
             q2 == q1 \div R
             q3 == q2 \div R
  <1>1. /\ R \in Nat \ {0} /\ R2 \in Nat \ {0} /\ R3 \in Nat \ {0}
    BY FormatAssumption
  <1>2. x \in Nat /\ x \in 0 .. R3 * R - 1
    <2>1. R3 * R \in Nat
      BY <1>1
    <2> QED
      BY <2>1 DEF Image!U32, Image!MaxU32
  <1>3. q1 = x \div R /\ x \div R2 = q2 /\ x \div R3 = q3
    <2>1. x \div R2 = q2
      BY <1>1, <1>2, DivideTwice
    <2>2. x \div (R2 * R) = (x \div R2) \div R
      BY <1>1, <1>2, DivideTwice
    <2> QED
      BY <2>1, <2>2
  <1> HIDE DEF R2, R3
  <1>4. /\ q1 \in Nat /\ x % R \in 0 .. R - 1 /\ x = q1 * R + (x % R)
        /\ q1 \in 0 .. R3 - 1
    <2>1. q1 < R3
      BY <1>1, <1>2, DigitBound
    <2>2. q1 \in Nat /\ x % R \in 0 .. R - 1 /\ x = q1 * R + (x % R)
      BY <1>1, <1>2, DigitSplits
    <2> HIDE DEF q1
    <2> QED
      BY <1>1, <2>1, <2>2
  <1> HIDE DEF q1
  <1>5. /\ q2 \in Nat /\ q1 % R \in 0 .. R - 1 /\ q1 = q2 * R + (q1 % R)
        /\ q2 \in 0 .. R2 - 1
    <2>1. q2 < R2
      BY <1>1, <1>4, DigitBound DEF R3
    <2>2. q2 \in Nat /\ q1 % R \in 0 .. R - 1 /\ q1 = q2 * R + (q1 % R)
      BY <1>1, <1>4, DigitSplits
    <2> HIDE DEF q2
    <2> QED
      BY <1>1, <2>1, <2>2
  <1> HIDE DEF q2
  <1>6. /\ q3 \in Nat /\ q2 % R \in 0 .. R - 1 /\ q2 = q3 * R + (q2 % R)
        /\ q3 \in 0 .. R - 1
    <2>1. q3 < R
      BY <1>1, <1>5, DigitBound DEF R2
    <2>2. q3 \in Nat /\ q2 % R \in 0 .. R - 1 /\ q2 = q3 * R + (q2 % R)
      BY <1>1, <1>5, DigitSplits
    <2> HIDE DEF q3
    <2> QED
      BY <1>1, <2>1, <2>2
  <1> HIDE DEF q3
  <1>7. q3 % R = q3
    BY <1>1, <1>6
  <1>8. x \div 1 = x
    BY <1>2
  <1>9. /\ Image!ByteOf(x, 1) = x % R
        /\ Image!ByteOf(x, R) = q1 % R
        /\ Image!ByteOf(x, R2) = q2 % R
        /\ Image!ByteOf(x, R3) = q3
    BY <1>3, <1>7, <1>8 DEF Image!ByteOf, q1
  <1>10. x = Word(x % R, q1 % R, q2 % R, q3)
    BY <1>4, <1>5, <1>6, Zenon DEF Word
  <1> QED
    BY <1>4, <1>5, <1>6, <1>9, <1>10 DEF R2, R3, Image!Byte

\* And four bytes are the bytes of the number they make.
LEMMA WordJoins ==
    ASSUME NEW b0 \in Image!Byte, NEW b1 \in Image!Byte, NEW b2 \in Image!Byte,
           NEW b3 \in Image!Byte
    PROVE  LET x == Word(b0, b1, b2, b3)
           IN /\ x \in Image!U32
              /\ Image!ByteOf(x, 1) = b0
              /\ Image!ByteOf(x, Radix) = b1
              /\ Image!ByteOf(x, Radix * Radix) = b2
              /\ Image!ByteOf(x, Radix * Radix * Radix) = b3
  <1> DEFINE R == Radix
             R2 == R * R
             R3 == R2 * R
             q2 == b3 * R + b2
             q1 == q2 * R + b1
             x == q1 * R + b0
  <1>1. /\ R \in Nat \ {0} /\ R2 \in Nat \ {0} /\ R3 \in Nat \ {0}
    BY FormatAssumption
  <1>2. /\ b0 \in 0 .. R - 1 /\ b1 \in 0 .. R - 1
        /\ b2 \in 0 .. R - 1 /\ b3 \in 0 .. R - 1 /\ b3 \in Nat
    BY <1>1 DEF Image!Byte
  <1>3. q2 \in Nat /\ q2 < R2
    BY <1>1, <1>2
  <1>4. q2 \div R = b3 /\ q2 % R = b2
    BY <1>1, <1>2, DigitJoins
  <1> HIDE DEF q2, R2
  <1>5. q1 \in Nat /\ q1 < R3
    BY <1>1, <1>2, <1>3
  <1>6. q1 \div R = q2 /\ q1 % R = b1
    BY <1>1, <1>2, <1>3, DigitJoins
  <1> HIDE DEF q1, R3
  <1>7. x \in Nat /\ x < R3 * R
    BY <1>1, <1>2, <1>5
  <1>8. x \div R = q1 /\ x % R = b0
    BY <1>1, <1>2, <1>5, DigitJoins
  <1> HIDE DEF x
  <1>9. x \div R2 = q2 /\ x \div R3 = b3
    <2>1. x \div R2 = (x \div R) \div R
      BY <1>1, <1>7, DivideTwice DEF R2
    <2>2. x \div R3 = (x \div R2) \div R
      BY <1>1, <1>7, DivideTwice DEF R3
    <2> QED
      BY <2>1, <2>2, <1>4, <1>6, <1>8
  <1>10. x \div 1 = x /\ b3 % R = b3
    BY <1>1, <1>2, <1>7
  <1>11. /\ Image!ByteOf(x, 1) = b0 /\ Image!ByteOf(x, R) = b1
         /\ Image!ByteOf(x, R2) = b2 /\ Image!ByteOf(x, R3) = b3
    BY <1>4, <1>6, <1>8, <1>9, <1>10 DEF Image!ByteOf
  <1>12. x \in Image!U32
    <2>1. R3 * R \in Nat
      BY <1>1
    <2>2. x \in 0 .. R3 * R - 1
      BY <1>7, <2>1
    <2> QED
      BY <2>2 DEF R3, R2, Image!U32, Image!MaxU32
  <1> QED
    BY <1>11, <1>12 DEF R2, R3, q1, q2, x, Word

\* What readU32 reads is a word, and it is x exactly where the bytes are those
\* that writeU32 writes for x, in either byte order.
LEMMA WordAt ==
    ASSUME NEW bytes, NEW o \in Nat, NEW e \in {Image!Little, Image!Big},
           NEW x \in Image!U32,
           bytes[o + 1] \in Image!Byte, bytes[o + 2] \in Image!Byte,
           bytes[o + 3] \in Image!Byte, bytes[o + 4] \in Image!Byte
    PROVE  /\ Image!readU32(bytes, o, e) \in Image!U32
           /\ Image!readU32(bytes, o, e) = x <=>
                \A i \in 1 .. 4 : bytes[o + i] = Image!writeU32(x, e)[i]
  <1> DEFINE B(i) == bytes[o + i]
             W(k) == Image!ByteOf(x, k)
             R2 == Radix * Radix
             R3 == Radix * Radix * Radix
  <1>1. /\ o + 0 + 1 = o + 1 /\ o + 1 + 1 = o + 2 /\ o + 2 + 1 = o + 3 /\ o + 3 + 1 = o + 4
    OBVIOUS
  <1>2. Image!readU32(bytes, o, e) =
            IF e = Image!Little THEN Word(B(1), B(2), B(3), B(4))
                                ELSE Word(B(4), B(3), B(2), B(1))
    BY <1>1 DEF Image!readU32, Word
  <1>3. Image!writeU32(x, e) = IF e = Image!Little
                               THEN <<W(1), W(Radix), W(R2), W(R3)>>
                               ELSE <<W(R3), W(R2), W(Radix), W(1)>>
    BY DEF Image!writeU32
  <1>4. (\A i \in 1 .. 4 : B(i) = Image!writeU32(x, e)[i]) <=>
            IF e = Image!Little
            THEN B(1) = W(1) /\ B(2) = W(Radix) /\ B(3) = W(R2) /\ B(4) = W(R3)
            ELSE B(1) = W(R3) /\ B(2) = W(R2) /\ B(3) = W(Radix) /\ B(4) = W(1)
    <2> HIDE DEF B, W, R2, R3
    <2>1. \A i \in 1 .. 4 : i = 1 \/ i = 2 \/ i = 3 \/ i = 4
      OBVIOUS
    <2> QED
      BY <1>3, <2>1
  <1>5. x = Word(W(1), W(Radix), W(R2), W(R3))
    BY WordSplits
  <1>6. ASSUME NEW b0 \in Image!Byte, NEW b1 \in Image!Byte, NEW b2 \in Image!Byte,
               NEW b3 \in Image!Byte
        PROVE  /\ Word(b0, b1, b2, b3) \in Image!U32
               /\ Word(b0, b1, b2, b3) = x <=>
                     b0 = W(1) /\ b1 = W(Radix) /\ b2 = W(R2) /\ b3 = W(R3)
    <2>1. /\ Word(b0, b1, b2, b3) \in Image!U32
          /\ Image!ByteOf(Word(b0, b1, b2, b3), 1) = b0
          /\ Image!ByteOf(Word(b0, b1, b2, b3), Radix) = b1
          /\ Image!ByteOf(Word(b0, b1, b2, b3), R2) = b2
          /\ Image!ByteOf(Word(b0, b1, b2, b3), R3) = b3
      BY WordJoins
    <2> HIDE DEF R2, R3
    <2> QED
      BY <1>5, <2>1
  <1>7. B(1) \in Image!Byte /\ B(2) \in Image!Byte /\ B(3) \in Image!Byte /\ B(4) \in Image!Byte
    OBVIOUS
  <1> HIDE DEF W, B, R2, R3
  <1>8. CASE e = Image!Little
    <2>1. /\ Word(B(1), B(2), B(3), B(4)) \in Image!U32
          /\ Word(B(1), B(2), B(3), B(4)) = x <=>
               B(1) = W(1) /\ B(2) = W(Radix) /\ B(3) = W(R2) /\ B(4) = W(R3)
      BY <1>6, <1>7
    <2> QED
      BY <1>2, <1>4, <1>8, <2>1 DEF B
  <1>9. CASE e # Image!Little
    <2>1. /\ Word(B(4), B(3), B(2), B(1)) \in Image!U32
          /\ Word(B(4), B(3), B(2), B(1)) = x <=>
               B(4) = W(1) /\ B(3) = W(Radix) /\ B(2) = W(R2) /\ B(1) = W(R3)
      BY <1>6, <1>7
    <2> QED
      BY <1>2, <1>4, <1>9, <2>1 DEF B
  <1> QED
    BY <1>8, <1>9

-------------------------------------------------------------------------------
(* A file is its parts one behind the other.                                *)

\* The bytes have s in them from the offset o on.
Holds(bytes, o, s) == \A i \in 1 .. Len(s) : bytes[o + i] = s[i]

LEMMA HoldsBoth ==
    ASSUME NEW S, NEW bytes, NEW o \in Nat, NEW s \in Seq(S), NEW t \in Seq(S)
    PROVE  /\ s \o t \in Seq(S) /\ Len(s \o t) = Len(s) + Len(t)
           /\ Holds(bytes, o, s \o t) <=>
                Holds(bytes, o, s) /\ Holds(bytes, o + Len(s), t)
  <1> DEFINE u == s \o t
             m == Len(s)
             n == Len(t)
  <1>1. /\ u \in Seq(S) /\ Len(u) = m + n /\ m \in Nat /\ n \in Nat
        /\ \A i \in 1 .. m : u[i] = s[i]
        /\ \A i \in 1 .. n : u[m + i] = t[i]
    OBVIOUS
  <1> HIDE DEF u, m, n
  <1>2. \A i \in 1 .. m + n : i \in 1 .. m \/ i - m \in 1 .. n
    BY <1>1
  <1>3. \A i \in 1 .. m : i \in 1 .. m + n
    BY <1>1
  <1>4. \A i \in 1 .. n : m + i \in 1 .. m + n /\ o + m + i = o + (m + i)
    BY <1>1
  <1>5. ASSUME Holds(bytes, o, u) PROVE Holds(bytes, o, s) /\ Holds(bytes, o + m, t)
    BY <1>1, <1>3, <1>4, <1>5 DEF Holds, m, n
  <1>6. ASSUME Holds(bytes, o, s), Holds(bytes, o + m, t) PROVE Holds(bytes, o, u)
    <2> SUFFICES ASSUME NEW i \in 1 .. m + n PROVE bytes[o + i] = u[i]
      BY <1>1 DEF Holds
    <2>1. CASE i \in 1 .. m
      BY <1>1, <1>6, <2>1 DEF Holds, m
    <2>2. CASE i - m \in 1 .. n
      <3>1. m + (i - m) = i /\ o + m + (i - m) = o + i
        BY <1>1
      <3>2. bytes[o + m + (i - m)] = t[i - m]
        BY <1>6, <2>2 DEF Holds, n
      <3>3. u[m + (i - m)] = t[i - m]
        BY <1>1, <2>2
      <3> QED
        BY <3>1, <3>2, <3>3
    <2> QED
      BY <1>2, <2>1, <2>2
  <1> QED
    BY <1>1, <1>5, <1>6 DEF u, m, n

LEMMA HoldsAll ==
    ASSUME NEW S, NEW bytes \in Seq(S), NEW s \in Seq(S)
    PROVE  bytes = s <=> Len(bytes) = Len(s) /\ Holds(bytes, 0, s)
  <1>1. ASSUME Len(bytes) = Len(s), Holds(bytes, 0, s) PROVE bytes = s
    <2>1. \A i \in 1 .. Len(s) : bytes[i] = s[i]
      <3>1. \A i \in 1 .. Len(s) : 0 + i = i
        OBVIOUS
      <3> QED
        BY <1>1, <3>1 DEF Holds
    <2> QED
      BY <1>1, <2>1
  <1>2. ASSUME bytes = s PROVE Len(bytes) = Len(s) /\ Holds(bytes, 0, s)
    BY <1>2 DEF Holds
  <1> QED
    BY <1>1, <1>2

\* SubSeq takes out what is held.
LEMMA HoldsPart ==
    ASSUME NEW bytes \in Seq(Image!Byte), NEW o \in Nat, NEW s \in Seq(Image!Byte),
           o + Len(s) <= Len(bytes)
    PROVE  SubSeq(bytes, o + 1, o + Len(s)) = s <=> Holds(bytes, o, s)
  <1> DEFINE n == Len(s)
             u == SubSeq(bytes, o + 1, o + n)
  <1>1. /\ n \in Nat /\ u \in Seq(Image!Byte) /\ Len(u) = n
        /\ \A i \in 1 .. n : u[i] = bytes[o + i]
    OBVIOUS
  <1> HIDE DEF n, u
  <1>2. u = s <=> \A i \in 1 .. n : u[i] = s[i]
    <2>1. u = s <=> Len(u) = n /\ Holds(u, 0, s)
      BY <1>1, HoldsAll DEF n
    <2>2. \A i \in 1 .. n : 0 + i = i
      BY <1>1
    <2> QED
      BY <1>1, <2>1, <2>2 DEF Holds, n
  <1> QED
    BY <1>1, <1>2 DEF n, u, Holds

\* A sequence of n bytes.
Bytes(s, n) == s \in Seq(Image!Byte) /\ Len(s) = n

LEMMA BytesBoth ==
    ASSUME NEW m \in Nat, NEW n \in Nat, NEW s, NEW t, Bytes(s, m), Bytes(t, n)
    PROVE  /\ Bytes(s \o t, m + n)
           /\ \A bytes : \A o \in Nat :
                Holds(bytes, o, s \o t) <=> Holds(bytes, o, s) /\ Holds(bytes, o + m, t)
  BY HoldsBoth DEF Bytes

\* The parts of the header that writeHeader writes.
HeaderParts(bytes, h) ==
    /\ Holds(bytes, 0, kMagic)
    /\ Holds(bytes, 4, h.version)
    /\ Holds(bytes, 6, <<h.endianness, 0>>)
    /\ Holds(bytes, 8, Image!writeU32(h.entry_point, h.endianness))
    /\ Holds(bytes, 12, Image!writeU32(h.code_size, h.endianness))
    /\ h.version = Image!Current =>
          /\ Holds(bytes, 16, Image!writeU32(h.data_base, h.endianness))
          /\ Holds(bytes, 20, Image!writeU32(h.data_size, h.endianness))

LEMMA WordIsBytes ==
    ASSUME NEW x \in Image!U32, NEW e
    PROVE  Bytes(Image!writeU32(x, e), 4)
  <1> DEFINE b0 == Image!ByteOf(x, 1)
             b1 == Image!ByteOf(x, Radix)
             b2 == Image!ByteOf(x, Radix * Radix)
             b3 == Image!ByteOf(x, Radix * Radix * Radix)
  <1>1. b0 \in Image!Byte /\ b1 \in Image!Byte /\ b2 \in Image!Byte /\ b3 \in Image!Byte
    BY WordSplits
  <1>2. Image!writeU32(x, e) = IF e = Image!Little THEN <<b0, b1, b2, b3>>
                                                   ELSE <<b3, b2, b1, b0>>
    BY Zenon DEF Image!writeU32
  <1> HIDE DEF b0, b1, b2, b3
  <1> QED
    BY <1>1, <1>2 DEF Bytes

LEMMA HeaderBytes ==
    ASSUME NEW h \in Image!BinaryHeaders, Image!isSupportedVersion(h.version)
    PROVE  /\ Bytes(Image!writeHeader(h), Image!headerSizeForVersion(h.version))
           /\ \A bytes : Holds(bytes, 0, Image!writeHeader(h)) <=> HeaderParts(bytes, h)
  <1> DEFINE e == h.endianness
             v == h.version
             k == <<e, 0>>
             w1 == Image!writeU32(h.entry_point, e)
             w2 == Image!writeU32(h.code_size, e)
             w3 == Image!writeU32(h.data_base, e)
             w4 == Image!writeU32(h.data_size, e)
             tail == IF v # Image!Current THEN <<>> ELSE w3 \o w4
             s1 == kMagic \o v
             s2 == s1 \o k
             s3 == s2 \o w1
             s4 == s3 \o w2
             s5 == s4 \o tail
  <1>1. Bytes(kMagic, 4)
    BY FormatAssumption, Zenon DEF Image!Byte, Bytes
  <1>2. /\ v = Image!Current \/ v = Image!Legacy
        /\ Image!Current # Image!Legacy
    BY DEF Image!isSupportedVersion, Image!Legacy, Image!Current
  <1>3. {0, 1, 2, 3} \subseteq Image!Byte
    BY FormatAssumption DEF Image!Byte
  <1>4. Bytes(v, 2)
    <2>1. Bytes(<<0, 3>>, 2) /\ Bytes(<<0, 2>>, 2)
      BY <1>3 DEF Bytes
    <2> QED
      BY <1>2, <2>1 DEF Image!Legacy, Image!Current
  <1>5. Bytes(k, 2)
    <2>1. e \in Image!Byte /\ 0 \in Image!Byte
      BY <1>3 DEF Image!BinaryHeaders, Image!Little, Image!Big
    <2> HIDE DEF e
    <2> QED
      BY <2>1 DEF Bytes
  <1>6. Bytes(w1, 4) /\ Bytes(w2, 4) /\ Bytes(w3, 4) /\ Bytes(w4, 4)
    BY WordIsBytes DEF Image!BinaryHeaders
  <1>7. Image!writeHeader(h) = s5
    BY Zenon DEF Image!writeHeader
  <1>8. Image!headerSizeForVersion(v) = IF v = Image!Current THEN 24 ELSE 16
    BY <1>2 DEF Image!headerSizeForVersion
  <1> HIDE DEF e, v, k, w1, w2, w3, w4
  <1>9. Bytes(s1, 6) /\ \A bytes : Holds(bytes, 0, s1) <=>
                           Holds(bytes, 0, kMagic) /\ Holds(bytes, 4, v)
    BY <1>1, <1>4, BytesBoth
  <1> HIDE DEF s1
  <1>10. Bytes(s2, 8) /\ \A bytes : Holds(bytes, 0, s2) <=>
                            Holds(bytes, 0, s1) /\ Holds(bytes, 6, k)
    BY <1>5, <1>9, BytesBoth
  <1> HIDE DEF s2
  <1>11. Bytes(s3, 12) /\ \A bytes : Holds(bytes, 0, s3) <=>
                             Holds(bytes, 0, s2) /\ Holds(bytes, 8, w1)
    BY <1>6, <1>10, BytesBoth
  <1> HIDE DEF s3
  <1>12. Bytes(s4, 16) /\ \A bytes : Holds(bytes, 0, s4) <=>
                             Holds(bytes, 0, s3) /\ Holds(bytes, 12, w2)
    BY <1>6, <1>11, BytesBoth
  <1> HIDE DEF s4
  <1>13. Bytes(w3 \o w4, 8) /\ \A bytes : Holds(bytes, 16, w3 \o w4) <=>
                                  Holds(bytes, 16, w3) /\ Holds(bytes, 20, w4)
    BY <1>6, BytesBoth
  <1>14. Bytes(<<>>, 0) /\ \A bytes : Holds(bytes, 16, <<>>)
    BY DEF Bytes, Holds
  <1>15. /\ Bytes(tail, IF v = Image!Current THEN 8 ELSE 0)
         /\ \A bytes : Holds(bytes, 16, tail) <=>
               (v = Image!Current => Holds(bytes, 16, w3) /\ Holds(bytes, 20, w4))
    BY <1>13, <1>14, Zenon
  <1> HIDE DEF tail
  <1>16. /\ Bytes(s5, IF v = Image!Current THEN 24 ELSE 16)
         /\ \A bytes : Holds(bytes, 0, s5) <=> Holds(bytes, 0, s4) /\ Holds(bytes, 16, tail)
    BY <1>12, <1>15, BytesBoth
  <1> HIDE DEF s5
  <1>17. \A bytes : Holds(bytes, 0, s5) <=> HeaderParts(bytes, h)
    BY <1>9, <1>10, <1>11, <1>12, <1>15, <1>16, Zenon
       DEF HeaderParts, e, v, k, w1, w2, w3, w4
  <1> QED
    BY <1>7, <1>8, <1>16, <1>17 DEF v

LEMMA VersionSizes ==
    ASSUME NEW v
    PROVE  /\ Image!headerSizeForVersion(v) =
                IF v = Image!Current THEN 24 ELSE IF v = Image!Legacy THEN 16 ELSE 0
           /\ Image!headerSizeForVersion(v) # 0 <=> Image!isSupportedVersion(v)
           /\ Image!Current # Image!Legacy
  <1>1. Image!Current # Image!Legacy
    BY DEF Image!Legacy, Image!Current
  <1> QED
    BY <1>1 DEF Image!headerSizeForVersion, Image!isSupportedVersion

\* A header whose version has no data section says that there is none.
HeaderFits(h) ==
    /\ h \in Image!BinaryHeaders
    /\ Image!isSupportedVersion(h.version)
    /\ h.version = Image!Legacy => h.data_base = 0 /\ h.data_size = 0

\* The header in a file is h exactly where the file has the bytes that
\* writeHeader writes for h.
LEMMA HeaderRead ==
    ASSUME NEW f \in Seq(Image!Byte), NEW h, HeaderFits(h),
           Len(f) >= Image!headerSizeForVersion(h.version)
    PROVE  HeaderParts(f, h) <=>
              /\ Image!MagicValid(f) /\ Image!HeaderReadable(f)
              /\ Image!readHeader(f) = h
  <1> DEFINE e == h.endianness
             v == h.version
             hs == Image!headerSizeForVersion(v)
  <1>1. /\ e \in {Image!Little, Image!Big}
        /\ v \in Image!Byte \X Image!Byte
        /\ h.entry_point \in Image!U32 /\ h.code_size \in Image!U32
        /\ h.data_base \in Image!U32 /\ h.data_size \in Image!U32
        /\ h = [version |-> v, endianness |-> e, entry_point |-> h.entry_point,
                code_size |-> h.code_size, data_base |-> h.data_base,
                data_size |-> h.data_size]
    BY DEF HeaderFits, Image!BinaryHeaders
  <1>2. /\ hs = IF v = Image!Current THEN 24 ELSE 16
        /\ v = Image!Current \/ v = Image!Legacy
        /\ Image!Current # Image!Legacy
    BY VersionSizes DEF HeaderFits, Image!isSupportedVersion
  <1>3. /\ Len(f) \in Nat /\ Len(f) >= 16
        /\ v = Image!Current => Len(f) >= 24
    BY <1>2
  <1>4. \A i \in 1 .. Len(f) : f[i] \in Image!Byte
    OBVIOUS
  <1>5. Holds(f, 0, kMagic) <=> Image!MagicValid(f)
    <2>1. kMagic \in Seq(Image!Byte) /\ Len(kMagic) = 4
      BY FormatAssumption, Zenon DEF Image!Byte
    <2>2. SubSeq(f, 0 + 1, 0 + Len(kMagic)) = kMagic <=> Holds(f, 0, kMagic)
      <3>1. 0 \in Nat /\ 0 + Len(kMagic) <= Len(f)
        BY <1>3, <2>1
      <3> QED
        BY <2>1, <3>1, HoldsPart, Zenon
    <2>3. 0 + 1 = 1 /\ 0 + Len(kMagic) = 4
      BY <2>1
    <2> QED
      BY <2>2, <2>3 DEF Image!MagicValid
  <1>6. Holds(f, 4, v) <=> Image!VersionOf(f) = v
    <2>1. v = <<v[1], v[2]>> /\ Len(v) = 2
      BY <1>1
    <2>2. \A i \in 1 .. 2 : i = 1 \/ i = 2
      OBVIOUS
    <2>3. Holds(f, 4, v) <=> f[5] = v[1] /\ f[6] = v[2]
      BY <2>1, <2>2 DEF Holds
    <2>4. <<f[5], f[6]>> = <<v[1], v[2]>> <=> f[5] = v[1] /\ f[6] = v[2]
      OBVIOUS
    <2> QED
      BY <2>1, <2>3, <2>4 DEF Image!VersionOf
  <1>7. Holds(f, 6, <<e, 0>>) <=> f[7] = e /\ f[8] = 0
    <2>1. \A i \in 1 .. 2 : i = 1 \/ i = 2
      OBVIOUS
    <2> QED
      BY <2>1 DEF Holds
  <1>8. ASSUME NEW o \in Nat, NEW x \in Image!U32, o + 4 <= Len(f)
        PROVE  Holds(f, o, Image!writeU32(x, e)) <=> Image!readU32(f, o, e) = x
    <2>1. /\ f[o + 1] \in Image!Byte /\ f[o + 2] \in Image!Byte
          /\ f[o + 3] \in Image!Byte /\ f[o + 4] \in Image!Byte
      BY <1>3, <1>4, <1>8
    <2>2. Len(Image!writeU32(x, e)) = 4
      BY WordIsBytes DEF Bytes
    <2>3. Image!readU32(f, o, e) = x <=>
             \A i \in 1 .. 4 : f[o + i] = Image!writeU32(x, e)[i]
      <3>1. e \in {Image!Little, Image!Big}
        BY <1>1
      <3> HIDE DEF e
      <3> QED
        BY <2>1, <3>1, WordAt, SMT
    <2> QED
      BY <2>2, <2>3 DEF Holds
  <1>9. /\ Holds(f, 8, Image!writeU32(h.entry_point, e)) <=>
              Image!readU32(f, 8, e) = h.entry_point
        /\ Holds(f, 12, Image!writeU32(h.code_size, e)) <=>
              Image!readU32(f, 12, e) = h.code_size
        /\ v = Image!Current =>
              /\ Holds(f, 16, Image!writeU32(h.data_base, e)) <=>
                    Image!readU32(f, 16, e) = h.data_base
              /\ Holds(f, 20, Image!writeU32(h.data_size, e)) <=>
                    Image!readU32(f, 20, e) = h.data_size
    BY <1>1, <1>3, <1>8
  <1>10. Image!HeaderReadable(f) <=>
            /\ Image!isSupportedVersion(Image!VersionOf(f))
            /\ Len(f) >= Image!headerSizeForVersion(Image!VersionOf(f))
            /\ f[7] \in {Image!Little, Image!Big}
            /\ f[8] = 0
    BY VersionSizes, Zenon DEF Image!HeaderReadable
  <1> DEFINE c == Image!VersionOf(f) = Image!Current
             rd == [version |-> Image!VersionOf(f), endianness |-> f[7],
                    entry_point |-> Image!readU32(f, 8, f[7]),
                    code_size |-> Image!readU32(f, 12, f[7]),
                    data_base |-> IF c THEN Image!readU32(f, 16, f[7]) ELSE 0,
                    data_size |-> IF c THEN Image!readU32(f, 20, f[7]) ELSE 0]
  <1>11. Image!readHeader(f) = rd
    BY Zenon DEF Image!readHeader
  <1>12. ASSUME HeaderParts(f, h)
         PROVE  /\ Image!MagicValid(f) /\ Image!HeaderReadable(f)
                /\ Image!readHeader(f) = h
    <2>1. /\ Image!MagicValid(f) /\ Image!VersionOf(f) = v /\ f[7] = e /\ f[8] = 0
          /\ Image!readU32(f, 8, e) = h.entry_point
          /\ Image!readU32(f, 12, e) = h.code_size
          /\ v = Image!Current => /\ Image!readU32(f, 16, e) = h.data_base
                                  /\ Image!readU32(f, 20, e) = h.data_size
      BY <1>5, <1>6, <1>7, <1>9, <1>12 DEF HeaderParts
    <2>2. Image!HeaderReadable(f)
      BY <1>1, <1>10, <2>1 DEF HeaderFits
    <2>3. rd = h
      BY <1>1, <1>2, <2>1 DEF HeaderFits
    <2> QED
      BY <1>11, <2>1, <2>2, <2>3
  <1>13. ASSUME Image!MagicValid(f), Image!HeaderReadable(f), Image!readHeader(f) = h
         PROVE  HeaderParts(f, h)
    <2>1. /\ Image!VersionOf(f) = v /\ f[7] = e
          /\ Image!readU32(f, 8, f[7]) = h.entry_point
          /\ Image!readU32(f, 12, f[7]) = h.code_size
          /\ c => /\ Image!readU32(f, 16, f[7]) = h.data_base
                  /\ Image!readU32(f, 20, f[7]) = h.data_size
      BY <1>11, <1>13
    <2>2. f[8] = 0
      BY <1>10, <1>13
    <2> QED
      BY <1>5, <1>6, <1>7, <1>9, <1>13, <2>1, <2>2 DEF HeaderParts
  <1> QED
    BY <1>12, <1>13

LEMMA FileParts ==
    ASSUME NEW p \in Image!Executables, Image!Writable(p), NEW f \in Seq(Image!Byte)
    PROVE  LET h == Image!WrittenHeader(p)
               hs == Image!headerSizeForVersion(h.version)
           IN /\ HeaderFits(h)
              /\ Image!writeToBytes(p) \in Seq(Image!Byte)
              /\ f = Image!writeToBytes(p) <=>
                    /\ Len(f) = hs + Len(p.code) + Len(p.data)
                    /\ HeaderParts(f, h)
                    /\ Holds(f, hs, p.code)
                    /\ Holds(f, hs + Len(p.code), p.data)
  <1> DEFINE h == Image!WrittenHeader(p)
             hs == Image!headerSizeForVersion(h.version)
             w == Image!writeHeader(h)
             s == w \o p.code
             t == s \o p.data
             m == Len(p.code)
             n == Len(p.data)
  <1>1. /\ p.header \in Image!BinaryHeaders
        /\ p.code \in Seq(Image!Byte) /\ p.data \in Seq(Image!Byte)
        /\ m \in Nat /\ n \in Nat
    BY DEF Image!Executables
  <1>2. m \in Image!U32 /\ n \in Image!U32 /\ 0 \in Image!U32
    <2>1. Image!MaxU32 \in Int
      BY FormatAssumption DEF Image!MaxU32
    <2> QED
      BY <1>1, <2>1 DEF Image!Writable, Image!U32
  <1>3. HeaderFits(h)
    <2>1. h \in Image!BinaryHeaders
      BY <1>1, <1>2 DEF Image!WrittenHeader, Image!BinaryHeaders
    <2>2. /\ h.version = p.header.version
          /\ h.version = Image!Legacy => h.data_base = 0
          /\ h.data_size = n
      BY DEF Image!WrittenHeader
    <2>3. p.header.version = Image!Legacy => n = 0
      BY DEF Image!Writable
    <2> QED
      BY <2>1, <2>2, <2>3 DEF HeaderFits, Image!Writable
  <1>4. Bytes(w, hs) /\ (Holds(f, 0, w) <=> HeaderParts(f, h)) /\ hs \in Nat
    BY <1>3, HeaderBytes, VersionSizes DEF HeaderFits
  <1>5. Image!writeToBytes(p) = t
    BY DEF Image!writeToBytes
  <1>6. Bytes(p.code, m) /\ Bytes(p.data, n)
    BY <1>1 DEF Bytes
  <1> HIDE DEF h, hs, w, m, n
  <1>7. Bytes(s, hs + m) /\ (Holds(f, 0, s) <=> Holds(f, 0, w) /\ Holds(f, hs, p.code))
    <2>1. 0 + hs = hs
      BY <1>4
    <2> QED
      BY <1>1, <1>4, <1>6, <2>1, BytesBoth
  <1> HIDE DEF s
  <1>8. /\ Bytes(t, hs + m + n)
        /\ Holds(f, 0, t) <=> Holds(f, 0, s) /\ Holds(f, hs + m, p.data)
    <2>1. 0 + (hs + m) = hs + m /\ hs + m \in Nat
      BY <1>1, <1>4
    <2> QED
      BY <1>1, <1>6, <1>7, <2>1, BytesBoth
  <1> HIDE DEF t
  <1>9. t \in Seq(Image!Byte) /\ (f = t <=> Len(f) = hs + m + n /\ Holds(f, 0, t))
    BY <1>8, HoldsAll DEF Bytes
  <1> QED
    BY <1>3, <1>4, <1>5, <1>7, <1>8, <1>9, Zenon DEF h, hs, m, n

\* The reader makes of what the writer wrote the program with the header the
\* writer gave it, and refuses it only for what that header says.
LEMMA WrittenReads ==
    ASSUME NEW p \in Image!Executables, Image!Writable(p), NEW f \in Seq(Image!Byte),
           f = Image!writeToBytes(p)
    PROVE  /\ Image!Readable(f) <=> Image!HeaderValid(Image!WrittenHeader(p))
           /\ Image!readFromBytes(f) =
                [header |-> Image!WrittenHeader(p), code |-> p.code, data |-> p.data]
  <1> DEFINE h == Image!WrittenHeader(p)
             hs == Image!headerSizeForVersion(h.version)
             m == Len(p.code)
             n == Len(p.data)
  <1>1. /\ HeaderFits(h) /\ Len(f) = hs + m + n /\ HeaderParts(f, h)
        /\ Holds(f, hs, p.code) /\ Holds(f, hs + m, p.data)
    BY FileParts
  <1>2. /\ p.code \in Seq(Image!Byte) /\ p.data \in Seq(Image!Byte)
        /\ m \in Nat /\ n \in Nat
    BY DEF Image!Executables
  <1>3. h.code_size = m /\ h.data_size = n
    BY DEF Image!WrittenHeader
  <1> HIDE DEF h, hs, m, n
  <1>4. hs \in {16, 24}
    BY <1>1, VersionSizes DEF HeaderFits, hs, Image!isSupportedVersion
  <1>5. /\ Image!MagicValid(f) /\ Image!HeaderReadable(f) /\ Image!readHeader(f) = h
    <2>1. Len(f) >= hs
      BY <1>1, <1>2, <1>4
    <2> QED
      BY <1>1, <2>1, HeaderRead DEF hs
  <1>6. Image!SizesMatch(f, h)
    BY <1>1, <1>3 DEF Image!SizesMatch, hs
  <1>7. Len(f) >= 16
    BY <1>1, <1>2, <1>4
  <1>8. Image!Readable(f) <=> Image!HeaderValid(h)
    BY <1>5, <1>6, <1>7 DEF Image!Readable
  <1>9. SubSeq(f, hs + 1, hs + m) = p.code
    <2>1. hs \in Nat /\ hs + m <= Len(f)
      BY <1>1, <1>2, <1>4
    <2> QED
      BY <1>1, <1>2, <2>1, HoldsPart, Zenon DEF m, n
  <1>10. SubSeq(f, hs + m + 1, Len(f)) = p.data
    <2>1. hs + m \in Nat /\ hs + m + n <= Len(f)
      BY <1>1, <1>2, <1>4
    <2>2. SubSeq(f, hs + m + 1, hs + m + n) = p.data
      BY <1>1, <1>2, <2>1, HoldsPart, Zenon DEF m, n
    <2> QED
      BY <1>1, <2>2
  <1>11. (hs + m) - m + 1 = hs + 1
    BY <1>2, <1>4
  <1>12. Image!readFromBytes(f) =
            [header |-> h, code |-> SubSeq(f, (hs + h.code_size) - h.code_size + 1,
                                           hs + h.code_size),
             data |-> SubSeq(f, hs + h.code_size + 1, Len(f))]
    BY <1>5, Zenon DEF Image!readFromBytes, hs
  <1>13. Image!readFromBytes(f) = [header |-> h, code |-> p.code, data |-> p.data]
    BY <1>3, <1>9, <1>10, <1>11, <1>12
  <1> QED
    BY <1>8, <1>13 DEF h

\* What the reader made of a file is written back as that file.
LEMMA ReadWrites ==
    ASSUME NEW f \in Seq(Image!Byte), Image!Readable(f)
    PROVE  LET p == Image!readFromBytes(f)
           IN /\ p \in Image!Executables
              /\ Image!Writable(p)
              /\ Image!writeToBytes(p) = f
  <1> DEFINE h == Image!readHeader(f)
             hs == Image!headerSizeForVersion(h.version)
             c == h.code_size
             d == h.data_size
             p == Image!readFromBytes(f)
  <1>1. /\ Image!MagicValid(f) /\ Image!HeaderReadable(f) /\ Image!HeaderValid(h)
        /\ Image!SizesMatch(f, h) /\ Len(f) >= 16 /\ Len(f) \in Nat
    BY DEF Image!Readable
  <1>2. /\ f[7] \in {Image!Little, Image!Big}
        /\ Len(f) >= Image!headerSizeForVersion(Image!VersionOf(f))
    BY <1>1 DEF Image!HeaderReadable
  <1>3. \A i \in 1 .. Len(f) : f[i] \in Image!Byte
    OBVIOUS
  <1>4. 0 \in Image!U32
    <2>1. Image!MaxU32 \in Nat
      BY FormatAssumption DEF Image!MaxU32
    <2> QED
      BY <2>1 DEF Image!U32
  <1>5. ASSUME NEW o \in Nat, o + 4 <= Len(f)
        PROVE  Image!readU32(f, o, f[7]) \in Image!U32
    <2>1. /\ f[o + 1] \in Image!Byte /\ f[o + 2] \in Image!Byte
          /\ f[o + 3] \in Image!Byte /\ f[o + 4] \in Image!Byte
      BY <1>1, <1>3, <1>5
    <2> QED
      BY <1>2, <1>4, <2>1, WordAt
  <1>6. /\ h.version = Image!VersionOf(f) /\ h.endianness = f[7]
        /\ h.entry_point = Image!readU32(f, 8, f[7])
        /\ c = Image!readU32(f, 12, f[7])
        /\ h.data_base = IF h.version = Image!Current THEN Image!readU32(f, 16, f[7]) ELSE 0
        /\ d = IF h.version = Image!Current THEN Image!readU32(f, 20, f[7]) ELSE 0
        /\ h = [version |-> h.version, endianness |-> h.endianness,
                entry_point |-> h.entry_point, code_size |-> c,
                data_base |-> h.data_base, data_size |-> d]
    BY DEF Image!readHeader
  <1>7. /\ hs \in {16, 24} /\ Len(f) >= hs
        /\ h.version = Image!Current => hs = 24
        /\ Image!isSupportedVersion(h.version)
        /\ h.version = Image!Current \/ h.version = Image!Legacy
        /\ Image!Current # Image!Legacy
    BY <1>1, <1>2, <1>6, VersionSizes DEF Image!HeaderValid, Image!isSupportedVersion
  <1>8. HeaderFits(h)
    <2>1. Image!VersionOf(f) \in Image!Byte \X Image!Byte
      BY <1>1, <1>3 DEF Image!VersionOf
    <2>2. /\ h.entry_point \in Image!U32 /\ c \in Image!U32
          /\ h.data_base \in Image!U32 /\ d \in Image!U32
      BY <1>1, <1>4, <1>5, <1>6, <1>7
    <2>3. h \in Image!BinaryHeaders
      BY <1>2, <1>6, <2>1, <2>2, Zenon DEF Image!BinaryHeaders
    <2>4. h.version = Image!Legacy => h.data_base = 0 /\ d = 0
      BY <1>6, <1>7
    <2> QED
      BY <1>7, <2>3, <2>4 DEF HeaderFits
  <1>9. c \in Nat /\ d \in Nat /\ c <= Image!MaxU32 /\ d <= Image!MaxU32
    BY <1>8 DEF HeaderFits, Image!BinaryHeaders, Image!U32
  <1>10. Len(f) = hs + c + d
    BY <1>1 DEF Image!SizesMatch
  <1> DEFINE code == SubSeq(f, hs + 1, hs + c)
             data == SubSeq(f, hs + c + 1, Len(f))
  <1>11. p = [header |-> h, code |-> code, data |-> data]
    <2>1. (hs + c) - c + 1 = hs + 1
      BY <1>7, <1>9
    <2>2. p = [header |-> h, code |-> SubSeq(f, (hs + c) - c + 1, hs + c), data |-> data]
      BY Zenon DEF Image!readFromBytes
    <2> HIDE DEF h, hs, c, p
    <2> QED
      BY <2>1, <2>2
  <1>12. HeaderParts(f, h)
    BY <1>1, <1>7, <1>8, HeaderRead
  <1> HIDE DEF h, hs, c, d, p
  <1>13. /\ code \in Seq(Image!Byte) /\ Len(code) = c
         /\ \A i \in 1 .. c : f[hs + i] = code[i]
    BY <1>7, <1>9, <1>10
  <1>14. /\ data \in Seq(Image!Byte) /\ Len(data) = d
         /\ \A i \in 1 .. d : f[hs + c + i] = data[i]
    BY <1>7, <1>9, <1>10
  <1> HIDE DEF code, data
  <1>15. Holds(f, hs, code) /\ Holds(f, hs + c, data)
    BY <1>13, <1>14 DEF Holds
  <1>16. p \in Image!Executables
    BY <1>8, <1>11, <1>13, <1>14 DEF HeaderFits, Image!Executables
  <1>17. h.version = Image!Legacy => data = <<>>
    BY <1>8, <1>14 DEF HeaderFits, d
  <1>18. Image!Writable(p)
    BY <1>7, <1>9, <1>11, <1>13, <1>14, <1>17 DEF Image!Writable
  <1>19. Image!WrittenHeader(p) = h
    <2>1. Image!WrittenHeader(p) =
             [version |-> h.version, endianness |-> h.endianness,
              entry_point |-> h.entry_point, code_size |-> c,
              data_base |-> IF h.version = Image!Legacy THEN 0 ELSE h.data_base,
              data_size |-> d]
      BY <1>11, <1>13, <1>14 DEF Image!WrittenHeader
    <2>2. h.version = Image!Legacy => h.data_base = 0
      BY <1>8 DEF HeaderFits
    <2> QED
      BY <1>6, <2>1, <2>2
  <1>20. Image!writeToBytes(p) = f
    BY <1>10, <1>11, <1>12, <1>13, <1>14, <1>15, <1>16, <1>18, <1>19, FileParts DEF hs
  <1> QED
    BY <1>16, <1>18, <1>20 DEF p

-------------------------------------------------------------------------------
(* From the file to the process.                                            *)

LEMMA WholeInstructionLeft ==
    ASSUME NEW k \in Nat \ {0}, NEW a \in Nat, NEW b \in Nat,
           a % k = 0, b % k = 0, a < b
    PROVE  a + k <= b
  <1> DEFINE p == a \div k
             q == b \div k
  <1>1. p \in Nat /\ q \in Nat /\ a = p * k /\ b = q * k
    <2>1. a = p * k + (a % k) /\ b = q * k + (b % k) /\ p \in Nat /\ q \in Nat
      BY DigitSplits
    <2> HIDE DEF p, q
    <2> QED
      BY <2>1
  <1> HIDE DEF p, q
  <1>2. p < q
    BY <1>1
  <1>3. (p + 1) * k <= q * k
    BY <1>1, <1>2
  <1> QED
    BY <1>1, <1>3

LEMMA PartOfSequence ==
    ASSUME NEW S, NEW s \in Seq(S), NEW x \in Nat, NEW k \in Nat, x + k <= Len(s)
    PROVE  SubSeq(s, x + 1, x + k) = [j \in 1 .. k |-> s[x + j]]
  <1> DEFINE u == SubSeq(s, x + 1, x + k)
  <1>1. /\ u \in Seq(S) /\ Len(u) = k
        /\ \A j \in 1 .. k : u[j] = s[x + j]
    OBVIOUS
  <1>2. u = [j \in 1 .. Len(u) |-> u[j]]
    BY <1>1
  <1> HIDE DEF u
  <1> QED
    BY <1>1, <1>2 DEF u

\* An image that passed the checks of loadProgram passes those of createProcess
\* and starts.
LEMMA ImageStarts ==
    ASSUME NEW p \in Image!Executables, Image!Loadable(p),
           NEW i, i = Image!LoadedImage(p), Image!ImageValid(i)
    PROVE  /\ i.executable = p
           /\ Image!ContextValid(Image!ContextOf(i))
           /\ Image!SpaceValid(i)
           /\ i.pc \in kBinaryCodeBase .. kUserStackBase - kInstructionSize
           /\ (i.pc - kBinaryCodeBase) % kInstructionSize = 0
           /\ Image!BytesAt(i.memory, i.pc, kInstructionSize)
                 = SubSeq(p.code, p.header.entry_point + 1,
                          p.header.entry_point + kInstructionSize)
           /\ \A a \in kUserStackBase .. kDefaultMemorySize - 1 : i.memory[a] = 0
  <1> DEFINE h == p.header
             m == Image!makeMetadata(p)
             n == h.code_size
             x == h.entry_point
             db == h.data_base
             ds == h.data_size
             B == kBinaryCodeBase
             k == kInstructionSize
             E == Image!EmptyMemory
  <1>1. /\ B \in Nat /\ kUserStackBase \in Nat /\ kKernelStackBase \in Nat
        /\ kDefaultMemorySize \in Nat /\ k \in Nat \ {0}
        /\ B < kUserStackBase /\ kUserStackBase < kKernelStackBase
        /\ kKernelStackBase < kDefaultMemorySize
    BY TableAssumption, MapAssumption, FormatAssumption
  <1>2. /\ x \in Nat /\ n \in Nat /\ db \in Nat /\ ds \in Nat
        /\ p.code \in Seq(Image!Byte) /\ p.data \in Seq(Image!Byte)
    BY DEF Image!Executables, Image!BinaryHeaders, Image!U32
  <1>3. /\ i.metadata = m /\ i.executable = p /\ i.pc = m.entry_point
        /\ i.sp = kUserStackBase /\ i.ksp = kKernelStackBase
        /\ i.memory = Image!loadIntoMemory(p, E, m.code_base)
    BY DEF Image!LoadedImage
  <1>4. /\ m.code_base = B /\ m.code_size = n /\ m.code_end_exclusive = B + n
        /\ m.memory_size = kDefaultMemorySize /\ m.entry_point = B + x
        /\ m.entry_offset = x
        /\ m.data_base = db /\ m.data_size = ds
    BY DEF Image!makeMetadata
  <1>5. /\ Image!MetadataValid(m) /\ Image!HeaderMatches(p, m)
        /\ DOMAIN i.memory = 0 .. m.memory_size - 1
        /\ Image!HoldsCode(i.memory, p, m)
    BY <1>3 DEF Image!ImageValid
  <1>6. /\ n % k = 0 /\ B + n <= kUserStackBase /\ x < n /\ x % k = 0
        /\ db <= B /\ ds <= B - db
    BY <1>4, <1>5 DEF Image!MetadataValid, Image!CodeSectionValid, Image!DataSectionValid
  <1>7. Len(p.code) = n /\ Len(p.data) = ds
    BY <1>4, <1>5 DEF Image!HeaderMatches
  <1>8. Image!BytesAt(i.memory, B, n) = p.code
    BY <1>4, <1>5 DEF Image!HoldsCode
  <1> HIDE DEF m, n, x, db, ds, B, k, E
  <1>9. x + k <= n
    BY <1>1, <1>2, <1>6, WholeInstructionLeft
  <1>10. Image!ContextValid(Image!ContextOf(i))
    <2>1. Image!ContextOf(i) =
             [pc |-> i.pc, sp |-> i.sp, privilege |-> i.privilege, ksp |-> i.ksp,
              begin |-> B, end |-> B + n]
      BY <1>3, <1>4 DEF Image!ContextOf
    <2>2. /\ B < B + n /\ B + x \in B .. B + n - 1
          /\ kUserStackBase \in kUserStackBase .. kKernelStackBase
          /\ kKernelStackBase \in kKernelStackBase .. kDefaultMemorySize
      BY <1>1, <1>2, <1>6
    <2> QED
      <3>1. /\ Image!ContextOf(i).begin = B /\ Image!ContextOf(i).end = B + n
            /\ Image!ContextOf(i).pc = B + x
            /\ Image!ContextOf(i).sp = kUserStackBase
            /\ Image!ContextOf(i).ksp = kKernelStackBase
        BY <1>3, <1>4, <2>1
      <3> QED
        BY <1>1, <1>2, <2>2, <3>1 DEF Image!ContextValid
  <1>11. Image!SpaceValid(i)
    BY <1>3, <1>4, <1>5 DEF Image!SpaceValid
  <1>12. i.pc \in B .. kUserStackBase - k /\ (i.pc - B) % k = 0
    <2>1. B + x \in B .. kUserStackBase - k /\ (B + x) - B = x
      BY <1>1, <1>2, <1>6, <1>9
    <2> QED
      BY <1>3, <1>4, <1>6, <2>1
  <1>13. Image!BytesAt(i.memory, i.pc, k) = SubSeq(p.code, x + 1, x + k)
    <2>1. \A j \in 1 .. n : p.code[j] = i.memory[B + j - 1]
      BY <1>8 DEF Image!BytesAt
    <2>2. \A j \in 1 .. k : x + j \in 1 .. n /\ B + (x + j) - 1 = i.pc + j - 1
      <3>1. i.pc = B + x
        BY <1>3, <1>4
      <3>2. B \in Nat /\ x \in Nat /\ n \in Nat /\ k \in Nat
        BY <1>1, <1>2
      <3> QED
        BY <1>9, <3>1, <3>2
    <2>3. \A j \in 1 .. k : p.code[x + j] = i.memory[i.pc + j - 1]
      <3> TAKE j \in 1 .. k
      <3>1. x + j \in 1 .. n /\ B + (x + j) - 1 = i.pc + j - 1
        BY <2>2
      <3>2. p.code[x + j] = i.memory[B + (x + j) - 1]
        BY <2>1, <3>1
      <3> QED
        BY <3>1, <3>2
    <2>4. /\ x \in Nat /\ n \in Nat /\ k \in Nat
      BY <1>1, <1>2
    <2>5. SubSeq(p.code, x + 1, x + k) = [j \in 1 .. k |-> p.code[x + j]]
      BY <1>2, <1>7, <1>9, <2>4, PartOfSequence
    <2> QED
      BY <2>3, <2>5 DEF Image!BytesAt
  <1>14. ASSUME NEW a \in kUserStackBase .. kDefaultMemorySize - 1
         PROVE  i.memory[a] = 0
    <2>1. /\ a \in 0 .. kDefaultMemorySize - 1
          /\ a \notin B .. B + n - 1
          /\ a \notin db .. db + ds - 1
      BY <1>1, <1>2, <1>6
    <2>2. DOMAIN E = 0 .. kDefaultMemorySize - 1 /\ E[a] = 0
      BY <2>1 DEF E, Image!EmptyMemory
    <2>3. i.memory[a] = E[a]
      BY <1>3, <1>4, <1>7, <2>1, <2>2 DEF Image!loadIntoMemory, Image!WithBytes, db
    <2> QED
      BY <2>2, <2>3
  <1> QED
    BY <1>3, <1>10, <1>11, <1>12, <1>13, <1>14 DEF x, k, B

\* Where a file is on its way.  The two theorems need each other's history: that
\* the bytes are still those of the program, that what was read was read from
\* them, and that the image was made of what was read.
ImageInv ==
    /\ subject = "table" => NoImage
    /\ subject = "image" =>
          /\ program \in Image!Executables
          /\ file \in Seq(Image!Byte)
          /\ stage \in {"Program", "File", "Read", "Image", "Process", "Refused"}
          /\ ~damaged => \/ file = <<>> /\ stage \in {"Program", "Refused"}
                         \/ Image!Writable(program) /\ file = Image!writeToBytes(program)
          /\ stage = "Program" => file = <<>>
          /\ stage \in {"Program", "File"} => read = Nothing
          /\ stage \in {"Read", "Image", "Process"} => read # Nothing
          /\ stage \in {"Program", "File", "Read", "Refused"} => image = Nothing
          /\ stage = "Refused" /\ file # <<>> /\ read = Nothing => ~Image!Readable(file)
          /\ read # Nothing => Image!Readable(file) /\ read = Image!readFromBytes(file)
          /\ image # Nothing => /\ read # Nothing
                                /\ Image!Loadable(read)
                                /\ image = Image!LoadedImage(read)
                                /\ Image!ImageValid(image)
    /\ subject \in {"table", "image"}

LEMMA ImageStep ==
    ASSUME ImageInv, subject = "image", Image!Next, subject' = subject
    PROVE  ImageInv'
  <1> USE DEF ImageInv
  <1>1. CASE Image!WriteFile
    <2>1. CASE Image!Writable(program)
      <3>1. /\ stage = "Program" /\ stage' = "File" /\ file' = Image!writeToBytes(program)
            /\ UNCHANGED <<program, damaged, read, image, space>>
        BY <1>1, <2>1 DEF Image!WriteFile
      <3>2. Image!writeToBytes(program) \in Seq(Image!Byte)
        <4>1. <<>> \in Seq(Image!Byte)
          OBVIOUS
        <4> QED
          BY <2>1, <4>1, FileParts
      <3> QED
        BY <2>1, <3>1, <3>2
    <2>2. CASE ~Image!Writable(program)
      BY <1>1, <2>2 DEF Image!WriteFile, Image!Refuse
    <2> QED
      BY <2>1, <2>2
  <1>2. ASSUME NEW bytes \in Seq(Image!Byte), Image!DamagedFile(bytes)
        PROVE  ImageInv'
    BY <1>2 DEF Image!DamagedFile
  <1>3. CASE Image!ChangeByte
    <2>1. PICK k \in DOMAIN file, b \in Image!Byte :
             Image!DamagedFile([file EXCEPT ![k] = b])
      BY <1>3 DEF Image!ChangeByte
    <2>2. [file EXCEPT ![k] = b] \in Seq(Image!Byte)
      BY <2>1
    <2> QED
      BY <1>2, <2>1, <2>2
  <1>4. CASE Image!Truncate
    <2>1. PICK n \in 0 .. Len(file) - 1 : Image!DamagedFile(SubSeq(file, 1, n))
      BY <1>4 DEF Image!Truncate
    <2>2. SubSeq(file, 1, n) \in Seq(Image!Byte)
      BY <2>1
    <2> QED
      BY <1>2, <2>1, <2>2
  <1>5. CASE Image!Extend
    <2>1. PICK b \in Image!Byte : Image!DamagedFile(Append(file, b))
      BY <1>5 DEF Image!Extend
    <2>2. Append(file, b) \in Seq(Image!Byte)
      BY <2>1
    <2> QED
      BY <1>2, <2>1, <2>2
  <1>6. CASE Image!ReadFile
    <2>1. CASE Image!Readable(file)
      <3>1. Image!readFromBytes(file) # Nothing
        BY <2>1, ReadWrites, ProgramAssumption
      <3> QED
        BY <1>6, <2>1, <3>1 DEF Image!ReadFile
    <2>2. CASE ~Image!Readable(file)
      BY <1>6, <2>2 DEF Image!ReadFile, Image!Refuse
    <2> QED
      BY <2>1, <2>2
  <1>7. CASE Image!LoadProgram
    <2>1. CASE Image!Loadable(read) /\ Image!ImageValid(Image!LoadedImage(read))
      BY <1>7, <2>1 DEF Image!LoadProgram
    <2>2. CASE ~(Image!Loadable(read) /\ Image!ImageValid(Image!LoadedImage(read)))
      BY <1>7, <2>2 DEF Image!LoadProgram, Image!Refuse
    <2> QED
      BY <2>1, <2>2
  <1>8. CASE Image!CreateProcess
    <2>1. CASE image = Nothing
      BY <1>8, <2>1 DEF Image!CreateProcess, Image!Refuse
    <2>2. CASE image # Nothing
      <3>1. read \in Image!Executables
        BY <2>2, ReadWrites
      <3>2. /\ image.executable = read /\ Image!SpaceValid(image)
            /\ Image!ContextValid(Image!ContextOf(image))
        BY <2>2, <3>1, ImageStarts
      <3>3. /\ Image!ProgramValid(read)
            /\ Image!PlacementValid(read, kDefaultMemorySize, kBinaryCodeBase)
        BY <2>2 DEF Image!Loadable
      <3> QED
        BY <1>8, <2>2, <3>2, <3>3 DEF Image!CreateProcess
    <2> QED
      BY <2>1, <2>2
  <1> QED
    BY <1>1, <1>3, <1>4, <1>5, <1>6, <1>7, <1>8 DEF Image!Next

LEMMA ImageInvariant == ProcessesSpec => []ImageInv
  <1>1. ProcessesInit => ImageInv
    <2>1. <<>> \in Seq(Image!Byte)
      OBVIOUS
    <2> QED
      BY <2>1, ProgramAssumption DEF ProcessesInit, Image!Init, ImageInv
  <1>2. ImageInv /\ [ProcessesNext]_<<subject, vars, imageVars>> => ImageInv'
    <2> SUFFICES ASSUME ImageInv, [ProcessesNext]_<<subject, vars, imageVars>>
                 PROVE  ImageInv'
      OBVIOUS
    <2>1. CASE UNCHANGED <<subject, imageVars>>
      BY <2>1 DEF ImageInv, imageVars, NoImage
    <2>2. CASE subject = "image" /\ Image!Next /\ UNCHANGED <<subject, vars>>
      BY <2>2, ImageStep
    <2> QED
      BY <2>1, <2>2 DEF ProcessesNext
  <1> QED
    BY <1>1, <1>2, PTL DEF ProcessesSpec

\* Files written by BinaryWriter::writeToBytes come back from
\* BinaryReader::readFromBytes as the program that was written, and every byte
\* of a file that the reader accepts counts, for bytes of any radix, programs of
\* any size, both versions and both byte orders, damaged or not.
THEOREM FilesAreFaithful == ProcessesSpec => []FilesFaithful
  <1>1. ImageInv => FilesFaithful
    <2> SUFFICES ASSUME ImageInv PROVE Image!FilesFaithful
      BY DEF FilesFaithful
    <2>1. CASE subject = "table"
      BY <2>1 DEF ImageInv, NoImage, Image!FilesFaithful
    <2>2. CASE subject = "image"
      <3>1. ASSUME read # Nothing
            PROVE  Image!Writable(read) /\ Image!writeToBytes(read) = file
        BY <2>2, <3>1, ReadWrites DEF ImageInv
      <3>2. ASSUME ~damaged, read # Nothing
            PROVE  read = [header |-> Image!WrittenHeader(program),
                           code |-> program.code, data |-> program.data]
        <4>1. ~(stage \in {"Program", "Refused"} /\ file = <<>>)
          BY <2>2, <3>2 DEF ImageInv, Image!Readable
        <4> QED
          BY <2>2, <3>2, <4>1, WrittenReads DEF ImageInv
      <3>3. ASSUME ~damaged, stage = "Refused", file # <<>>, read = Nothing
            PROVE  ~Image!HeaderValid(Image!WrittenHeader(program))
        BY <2>2, <3>3, WrittenReads DEF ImageInv
      <3> QED
        BY <3>1, <3>2, <3>3 DEF Image!FilesFaithful
    <2> QED
      BY <2>1, <2>2 DEF ImageInv
  <1> QED
    BY <1>1, ImageInvariant, PTL

\* An executable that ProcessImageLoader::loadProgram accepted starts:
\* ProcessTable::createProcess and the dispatch never refuse it, and its first
\* instruction is a whole one of its own code, clear of data and stacks, for
\* every memory map and every executable.
THEOREM ImagesAlwaysStart == ProcessesSpec => []ImagesStart
  <1>1. ImageInv => ImagesStart
    <2> SUFFICES ASSUME ImageInv, image # Nothing PROVE ImagesStart
      BY DEF ImagesStart, Image!ImagesStart
    <2>1. subject = "image"
      BY DEF ImageInv, NoImage
    <2>2. read \in Image!Executables
      BY <2>1, ReadWrites DEF ImageInv
    <2>3. stage # "Refused"
      BY <2>1 DEF ImageInv
    <2> QED
      BY <2>1, <2>2, <2>3, ImageStarts DEF ImageInv, ImagesStart, Image!ImagesStart
  <1> QED
    BY <1>1, ImageInvariant, PTL

================================================================================
