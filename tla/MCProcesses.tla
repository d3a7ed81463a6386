----------------------------- MODULE MCProcesses -----------------------------
(***************************************************************************)
(* The way of a process into the system and its life there.  A behaviour   *)
(* is about one executable file on its way to a process (ProcessImage), or *)
(* about a process table and the calls made to it (ProcessTable), in the   *)
(* same small memory map.                                                  *)
(***************************************************************************)
EXTENDS ProcessTable, Sequences

CONSTANTS Radix, kMagic, kInstructionSize, BinaryPrograms, kBinaryCodeBase, Nothing

ASSUME FormatAssumption ==
    /\ Radix \in Nat /\ Radix >= 4
    /\ kMagic \in Seq(0 .. Radix - 1) /\ Len(kMagic) = 4
    /\ kInstructionSize \in Nat \ {0}

ASSUME MapAssumption ==
    /\ kBinaryCodeBase \in Nat
    /\ kBinaryCodeBase < kUserStackBase /\ kUserStackBase < kKernelStackBase
    /\ kKernelStackBase < kDefaultMemorySize

VARIABLES subject, stage, program, file, damaged, read, image, space

Image == INSTANCE ProcessImage

\* Programs and images are no model values.
ASSUME ProgramAssumption ==
    /\ BinaryPrograms \subseteq Image!Executables
    /\ Nothing \notin Image!Executables

imageVars == <<stage, program, file, damaged, read, image, space>>

NoImage == /\ stage = "None" /\ program = Nothing /\ file = <<>> /\ damaged = FALSE
           /\ read = Nothing /\ image = Nothing /\ space = Nothing

ProcessesInit ==
    \/ subject = "image" /\ Image!Init /\ Init
    \/ subject = "table" /\ NoImage /\ Init

ProcessesNext ==
    \/ subject = "image" /\ Image!Next /\ UNCHANGED <<subject, vars>>
    \/ subject = "table" /\ Next /\ UNCHANGED <<subject, imageVars>>

ProcessesSpec == ProcessesInit /\ [][ProcessesNext]_<<subject, vars, imageVars>>

-------------------------------------------------------------------------------

\* Files read back as written, and no byte of an accepted one is ignored.
FilesFaithful == Image!FilesFaithful

\* An executable that a process image was made of starts.
ImagesStart == Image!ImagesStart

-------------------------------------------------------------------------------
(* Programs of every version, byte order, size and entry point around the   *)
(* limits of the memory, with headers that may not tell the truth.          *)

MCMagic == <<3, 1, 2, 3>>

Header(version, endianness, entry, base) ==
    [version |-> version, endianness |-> endianness, entry_point |-> entry,
     code_size |-> 0, data_base |-> base, data_size |-> 1]

Section(first, n) == [i \in 1 .. n |-> (first + i) % Radix]

MCPrograms ==
    {[header |-> Header(version, endianness, entry, base),
      code |-> Section(0, codeSize), data |-> Section(2, dataSize)] :
        version \in {<<0, 2>>, <<0, 3>>, <<0, 1>>},
        endianness \in {1, 2},
        entry \in {0, 1, 2, 4, 6}, base \in {0, 3, 4, 5},
        codeSize \in {0, 2, 3, 4, 6, 8}, dataSize \in {0, 1, 2, 5}}

(* Two good contexts and contexts that are wrong in one field each.         *)

UserContext(pid) ==
    [pid |-> pid, privilege |-> "User", has_user_code_range |-> TRUE,
     code_begin |-> 4, code_end |-> 6, pc |-> 5,
     stack_begin |-> 10, stack_end |-> 14, sp |-> 12, ksp |-> 14]

Outside(pid) == [UserContext(pid) EXCEPT !.pc = 6]

MCContexts ==
    {UserContext(pid) : pid \in PIDs} \cup {Outside(pid) : pid \in PIDs} \cup
    {[UserContext(1) EXCEPT !.privilege = "Kernel", !.has_user_code_range = FALSE],
     [UserContext(1) EXCEPT !.has_user_code_range = FALSE],
     [UserContext(1) EXCEPT !.pid = 0],
     [UserContext(1) EXCEPT !.code_end = 4],
     [UserContext(1) EXCEPT !.sp = 11],
     [UserContext(1) EXCEPT !.sp = 16],
     [UserContext(1) EXCEPT !.ksp = 12]}

MCMemories ==
    {[size |-> 18, code |-> "a", data |-> 0], [size |-> 18, code |-> "b", data |-> 0],
     [size |-> 10, code |-> "a", data |-> 0]}
===============================================================================
