--------------------------- MODULE MCProcessRuntime ---------------------------
(* Small executables that between them loop, fall off their end, exit,      *)
(* fault, branch out of their code and use the host services.               *)
EXTENDS ProcessRuntime

I(op) == [op |-> op, to |-> 0]
J(op, t) == [op |-> op, to |-> t]

Spin == <<I("inc"), J("jmp", 1)>>
FallOff == <<I("inc"), I("st"), I("ld")>>
ExitEarly == <<I("inc"), I("out"), I("exit")>>
ExitLast == <<I("in"), I("exit")>>
Trap == <<I("inc"), I("trap")>>
JumpToEnd == <<I("ld"), J("jnz", 4), J("jmp", 4)>>
CountDown == <<I("in"), J("jnz", 1), I("ld")>>

ServiceLast == <<I("inc"), I("out")>>

MCPrograms == {Spin, FallOff, ExitEarly, ExitLast, Trap, JumpToEnd, CountDown,
               ServiceLast}
===============================================================================
