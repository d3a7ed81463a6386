--------------------------- MODULE IsolatedMachines ---------------------------
(***************************************************************************)
(* What the multi-process runtime promises its guests: every process has   *)
(* a machine of its own, runs its own code on it one instruction at a      *)
(* time, ends by exit, by reaching the end of its code or by a fault, and  *)
(* meets the others only through the host device.  There is no CPU, no     *)
(* scheduler and no context switch here.                                   *)
(***************************************************************************)
EXTENDS GuestMachine

CONSTANT NumProcs

VARIABLES
    code,      \* the executable of each process
    blocked,   \* the processes that never run
    machine,   \* the private machine of each process
    result,    \* how each process ended, NoResult while it lives
    host       \* the device behind the host services

vars == <<code, blocked, machine, result, host>>

Pid == 1 .. NumProcs

Init ==
    /\ code \in [Pid -> Programs]
    /\ blocked \in SUBSET Pid
    /\ machine = [p \in Pid |-> InitialContext]
    /\ result = [p \in Pid |-> NoResult]
    /\ host = 0

\* Process p executes one instruction on its own machine.  A returning service
\* in its last instruction is performed and leaves the process where it is.
Step(p) ==
    /\ p \notin blocked
    /\ result[p] = NoResult
    /\ LET r == Exec(code[p], machine[p], host)
       IN /\ machine' = [machine EXCEPT ![p] = r.ctx]
          /\ host' = r.host
          /\ result' = IF r.out \in {"ok", "wedge"} THEN result
                       ELSE [result EXCEPT ![p] = TerminationResult(r)]
    /\ UNCHANGED <<code, blocked>>

Next == \E p \in Pid : Step(p)

Fairness == \A p \in Pid : WF_vars(Step(p))

Safe == Init /\ [][Next]_vars

Spec == Safe /\ Fairness
===============================================================================
