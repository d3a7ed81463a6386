----------------------------- MODULE MCProtected -----------------------------
(***************************************************************************)
(* The protected machine.  A behaviour is about the CPU, its stacks and    *)
(* its interrupts, with host services that may do anything; or about the   *)
(* services behind INT 80 and the filesystem, with callers that may have   *)
(* anything in their memory.                                               *)
(***************************************************************************)
EXTENDS ProtectedCPU, ProtectedSyscalls

VARIABLE subject

NoCpu == /\ c = Reset /\ enabled = FALSE /\ pending = <<>> /\ halted = TRUE
         /\ error = FALSE /\ count = 0 /\ frames = <<>>

NoServices == /\ nodes = Formatted /\ mem = <<>> /\ r2 = 0 /\ r3 = 0 /\ r4 = 0 /\ r7 = 0
              /\ hw = <<>> /\ device = "none" /\ exited = TRUE /\ request = NoCall

MCInit ==
    \/ subject = "cpu" /\ CpuInit /\ NoServices
    \/ subject = "services" /\ Init /\ NoCpu

MCNext ==
    \/ subject = "cpu" /\ CpuNext /\ UNCHANGED <<subject, vars>>
    \/ subject = "services" /\ Next /\ UNCHANGED <<subject, cpuVars>>

MCSpec == MCInit /\ [][MCNext]_<<subject, cpuVars, vars>>

-------------------------------------------------------------------------------
(* A window of eight cells: a request block at 0, a buffer in 5 and 6 and a *)
(* path in 7.  Read at 5, the buffer is a block of which only the first     *)
(* result field lies in the window; at 1 there is no aligned block.         *)

Given(s) == [valid |-> TRUE, parts |-> s]

MCHostPaths ==
    {Given(<<"data", "f">>), Given(<<"data", "f", "f">>),
     Given(<<"", "f", ".", "f">>), Given(<<"f", "..", "bin">>), Given(<<>>),
     [valid |-> FALSE, parts |-> <<"f">>]}

MCHostData == {<<2, 2>>}

MCPathTable == <<Given(<<"data", "f">>), Given(<<"data">>), Given(<<"..">>)>>

MCBytes == -1 .. 8

Image(s) == [a \in 0 .. 7 |-> s[a + 1]]

\* Write behind the end, read, write too much, a buffer that leaves the
\* window, a directory, a refused path, a negative offset, a bad length.
MCImages ==
    {Image(s) : s \in {
        <<7, 1, 2, 5, 1, 7, 1, 1>>, <<7, 1, 0, 5, 1, 7, 1, 1>>,
        <<7, 1, 3, 5, 1, 7, 1, 1>>, <<7, 1, 0, 6, 3, 7, 1, 1>>,
        <<7, 1, 0, 5, 1, 7, 1, 2>>, <<7, 1, 0, 5, 1, 7, 1, 3>>,
        <<7, 1, -1, 5, 1, 7, 1, 1>>, <<7, 2, 0, 5, 1, 8, 1, 1>>}}

MCArguments == {<<-1, 0>>, <<0, 1>>, <<1, 0>>, <<5, 0>>}
===============================================================================
