------------------------- MODULE MCMultiProcessRunner -------------------------
(* Three processes that loop, store, exit, fault and use host services.     *)
EXTENDS MultiProcessRunner

I(op) == [op |-> op, to |-> 0]
J(op, t) == [op |-> op, to |-> t]

MCPrograms == {
    <<I("inc"), J("jmp", 1)>>,
    <<I("inc"), I("st"), I("ld")>>,
    <<I("inc"), I("out"), I("exit")>>,
    <<I("in"), I("exit")>>,
    <<I("inc"), I("trap")>>,
    <<I("in"), J("jnz", 1), I("ld")>>,
    <<I("inc"), I("out")>> }
===============================================================================
