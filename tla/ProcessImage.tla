------------------------------ MODULE ProcessImage ------------------------------
(***************************************************************************)
(* From a file to a process: ProcessImageLoader, ExecutableMetadata,       *)
(* ProcessImage, ProcessAddressSpace and the creation of a process from an *)
(* image, over the file format of BinaryFormat.  One behaviour writes a    *)
(* program to a file, may damage the file, reads it, loads it and creates  *)
(* a process from it; the first check that throws ends it.                 *)
(***************************************************************************)
EXTENDS BinaryFormat

CONSTANTS
    BinaryPrograms,    \* what the assembler or a host hands to the writer
    kBinaryCodeBase, kUserStackBase, kKernelStackBase, kDefaultMemorySize,
    Nothing            \* what is not there yet

VARIABLES
    stage,     \* "Program", "File", "Read", "Image", "Process", "Refused"
    program,   \* the BinaryProgram given to the writer
    file,      \* the bytes of the file
    damaged,   \* the file is no longer as it was written
    read,      \* the BinaryProgram the reader made
    image,     \* the ProcessImage
    space      \* the ProcessAddressSpace of the process

vars == <<stage, program, file, damaged, read, image, space>>

EmptyMemory == [a \in 0 .. kDefaultMemorySize - 1 |-> 0]

-------------------------------------------------------------------------------
(* ExecutableMetadata.                                                      *)

\* makeMetadata.  The ranges of user data and user stack are those of the
\* memory map.
makeMetadata(p) ==
    LET h == p.header
    IN [version |-> h.version, endianness |-> h.endianness,
        memory_size |-> kDefaultMemorySize,
        code_base |-> kBinaryCodeBase, code_size |-> h.code_size,
        code_end_exclusive |-> kBinaryCodeBase + h.code_size,
        entry_offset |-> h.entry_point,
        entry_point |-> kBinaryCodeBase + h.entry_point,
        data_base |-> h.data_base, data_size |-> h.data_size,
        data_end_exclusive |-> h.data_base + h.data_size]

\* Mutant: the code may run into the stack.
MutCodeSectionValid(m) ==
    /\ isSupportedVersion(m.version)
    /\ m.endianness = Little
    /\ m.memory_size = kDefaultMemorySize
    /\ m.code_base = kBinaryCodeBase
    /\ m.code_size # 0 /\ m.code_size % kInstructionSize = 0
    /\ m.code_base <= m.memory_size /\ m.code_size <= m.memory_size - m.code_base
    /\ m.entry_offset < m.code_size /\ m.entry_offset % kInstructionSize = 0

\* validateExecutableMetadata: format, memory, code and entry point.
CodeSectionValid(m) ==
    /\ isSupportedVersion(m.version)
    /\ m.endianness = Little
    /\ m.memory_size = kDefaultMemorySize
    /\ m.code_base = kBinaryCodeBase
    /\ m.code_size # 0 /\ m.code_size % kInstructionSize = 0
    /\ m.code_base <= m.memory_size /\ m.code_size <= m.memory_size - m.code_base
    /\ m.code_end_exclusive = m.code_base + m.code_size
    /\ m.code_end_exclusive <= kUserStackBase
    /\ m.entry_offset < m.code_size /\ m.entry_offset % kInstructionSize = 0
    /\ m.entry_point = m.code_base + m.entry_offset

\* validateExecutableMetadata: the data; user data is 0 .. kBinaryCodeBase - 1.
DataSectionValid(m) ==
    /\ m.data_base <= kBinaryCodeBase
    /\ m.data_size <= kBinaryCodeBase - m.data_base
    /\ m.data_end_exclusive = m.data_base + m.data_size
    /\ m.data_end_exclusive <= m.code_base
    /\ m.version = Legacy => m.data_size = 0

MetadataValid(m) == CodeSectionValid(m) /\ DataSectionValid(m)

-------------------------------------------------------------------------------
(* ProcessImage.                                                            *)

\* Header, sizes, entry point and data section agree with the metadata.
HeaderMatches(p, m) ==
    /\ p.header.version = m.version /\ p.header.endianness = m.endianness
    /\ p.header.code_size = m.code_size /\ Len(p.code) = m.code_size
    /\ p.header.entry_point = m.entry_offset
    /\ p.header.data_base = m.data_base /\ p.header.data_size = m.data_size
    /\ Len(p.data) = m.data_size

HoldsCode(mem, p, m) == BytesAt(mem, m.code_base, m.code_size) = p.code

\* validateProcessImage.  The registers and flags of an image are never set, so
\* they are left out here.
ImageValid(i) ==
    LET m == i.metadata
    IN /\ MetadataValid(m)
       /\ HeaderMatches(i.executable, m)
       /\ DOMAIN i.memory = 0 .. m.memory_size - 1
       /\ HoldsCode(i.memory, i.executable, m)
       /\ BytesAt(i.memory, m.data_base, m.data_size) = i.executable.data
       /\ i.pc = m.entry_point
       /\ i.sp = kUserStackBase
       /\ i.privilege = "User"
       /\ i.ksp = kKernelStackBase

\* The image that ProcessImageLoader::loadProgram makes of a program.
LoadedImage(p) ==
    LET m == makeMetadata(p)
    IN [metadata |-> m, executable |-> p,
        memory |-> loadIntoMemory(p, EmptyMemory, m.code_base),
        pc |-> m.entry_point, sp |-> kUserStackBase, privilege |-> "User",
        ksp |-> kKernelStackBase]

\* The order of its checks; the last one has the image to look at.
Loadable(p) ==
    /\ MetadataValid(makeMetadata(p))
    /\ ProgramValid(p)
    /\ PlacementValid(p, kDefaultMemorySize, kBinaryCodeBase)

-------------------------------------------------------------------------------
(* The process.                                                             *)

\* contextFromImage: the part that the image decides.
ContextOf(i) ==
    [pc |-> i.pc, sp |-> i.sp, privilege |-> i.privilege, ksp |-> i.ksp,
     begin |-> i.metadata.code_base, end |-> i.metadata.code_end_exclusive]

\* validateProcessContext for it.
ContextValid(c) ==
    /\ c.begin < c.end /\ c.pc \in c.begin .. c.end - 1
    /\ c.sp \in kUserStackBase .. kKernelStackBase
    /\ c.ksp \in kKernelStackBase .. kDefaultMemorySize

\* ProcessAddressSpace::validate.
SpaceValid(s) ==
    /\ DOMAIN s.memory = 0 .. kDefaultMemorySize - 1
    /\ MetadataValid(s.metadata)
    /\ HeaderMatches(s.executable, s.metadata)
    /\ HoldsCode(s.memory, s.executable, s.metadata)

-------------------------------------------------------------------------------
(* The actions.                                                             *)

Init ==
    /\ stage = "Program"
    /\ program \in BinaryPrograms
    /\ file = <<>> /\ damaged = FALSE
    /\ read = Nothing /\ image = Nothing /\ space = Nothing

Refuse == stage' = "Refused" /\ UNCHANGED <<program, file, damaged, read, image, space>>

\* BinaryWriter::writeFile.
WriteFile ==
    /\ stage = "Program"
    /\ IF Writable(program)
       THEN /\ file' = writeToBytes(program)
            /\ stage' = "File"
            /\ UNCHANGED <<program, damaged, read, image, space>>
       ELSE Refuse

\* The storage: a byte is changed, the end is lost, or a byte follows it.
DamagedFile(bytes) ==
    /\ stage = "File" /\ ~damaged
    /\ file' = bytes
    /\ damaged' = (bytes # file)
    /\ UNCHANGED <<stage, program, read, image, space>>

ChangeByte == \E k \in DOMAIN file, b \in Byte : DamagedFile([file EXCEPT ![k] = b])

Truncate == \E n \in 0 .. Len(file) - 1 : DamagedFile(SubSeq(file, 1, n))

Extend == \E b \in Byte : DamagedFile(Append(file, b))

\* BinaryReader::readFile.
ReadFile ==
    /\ stage = "File"
    /\ IF Readable(file)
       THEN /\ read' = readFromBytes(file)
            /\ stage' = "Read"
            /\ UNCHANGED <<program, file, damaged, image, space>>
       ELSE Refuse

\* ProcessImageLoader::loadProgram.
LoadProgram ==
    /\ stage = "Read"
    /\ IF Loadable(read) /\ ImageValid(LoadedImage(read))
       THEN /\ image' = LoadedImage(read)
            /\ stage' = "Image"
            /\ UNCHANGED <<program, file, damaged, read, space>>
       ELSE Refuse

\* ProcessTable::createProcess from an image, and the dispatch that activates
\* its address space: the executable is loaded once more.
CreateProcess ==
    /\ stage = "Image"
    /\ IF ImageValid(image) /\ ContextValid(ContextOf(image)) /\ SpaceValid(image)
          /\ ProgramValid(image.executable)
          /\ PlacementValid(image.executable, kDefaultMemorySize, kBinaryCodeBase)
       THEN /\ space' = [memory |-> image.memory, metadata |-> image.metadata,
                         executable |-> image.executable]
            /\ stage' = "Process"
            /\ UNCHANGED <<program, file, damaged, read, image>>
       ELSE Refuse

Next == WriteFile \/ ChangeByte \/ Truncate \/ Extend \/ ReadFile \/ LoadProgram
        \/ CreateProcess

Spec == Init /\ [][Next]_vars

-------------------------------------------------------------------------------
(* Properties                                                               *)

\* A file that was not damaged reads back as the program that was written, in
\* either byte order, and is refused only for what its header says.  Every byte
\* of an accepted file counts: what the reader made of it, damaged or not, is
\* written back as the same bytes, so no part of the file was ignored
\* (BinaryWriter::writeToBytes, BinaryReader::readFromBytes).
FilesFaithful ==
    /\ ~damaged /\ read # Nothing =>
          read = [header |-> WrittenHeader(program), code |-> program.code,
                  data |-> program.data]
    /\ ~damaged /\ stage = "Refused" /\ file # <<>> =>
          read # Nothing \/ ~HeaderValid(WrittenHeader(program))
    /\ read # Nothing => Writable(read) /\ writeToBytes(read) = file

\* An executable that a process image was made of starts: process creation and
\* activation never refuse it, its first instruction is a whole one inside the
\* code, and the code lies clear of the user data and of the stacks
\* (ProcessImageLoader::loadProgram, ProcessTable::createProcess).
ImagesStart ==
    image # Nothing =>
        /\ stage # "Refused"
        /\ image.pc \in kBinaryCodeBase .. kUserStackBase - kInstructionSize
        /\ (image.pc - kBinaryCodeBase) % kInstructionSize = 0
        /\ BytesAt(image.memory, image.pc, kInstructionSize)
              = SubSeq(read.code, read.header.entry_point + 1,
                       read.header.entry_point + kInstructionSize)
        /\ \A a \in kUserStackBase .. kDefaultMemorySize - 1 : image.memory[a] = 0

================================================================================
