------------------------------ MODULE BinaryFormat ------------------------------
(***************************************************************************)
(* The executable file: BinaryWriter, BinaryReader, BinaryLoader.  The     *)
(* header is laid out byte by byte as in BinaryFormat.hpp; a byte has      *)
(* Radix values (256 in the code) and an instruction InstructionSize bytes *)
(* (24).  What throws in the code is a predicate that fails here.          *)
(***************************************************************************)
EXTENDS Integers, Sequences

CONSTANTS
    Radix,             \* values of a byte
    kMagic,            \* the four bytes that start a file
    kInstructionSize

Byte == 0 .. Radix - 1
MaxU32 == Radix * Radix * Radix * Radix - 1
U32 == 0 .. MaxU32

\* Major and minor versions, as one pair.
Legacy == <<0, 2>>
Current == <<0, 3>>

isSupportedVersion(version) == version \in {Legacy, Current}

\* headerSizeForVersion; 0 when the version is not supported.
headerSizeForVersion(version) ==
    CASE version = Legacy -> 16 [] version = Current -> 24 [] OTHER -> 0

\* enum BinaryEndianness.
Little == 1
Big == 2

\* struct BinaryHeader and struct BinaryProgram.
BinaryHeaders ==
    [version : Byte \X Byte, endianness : {Little, Big},
     entry_point : U32, code_size : U32, data_base : U32, data_size : U32]

Executables == [header : BinaryHeaders, code : Seq(Byte), data : Seq(Byte)]

-------------------------------------------------------------------------------
(* BinaryWriter.                                                            *)

\* The byte of x whose weight is w.
ByteOf(x, w) == (x \div w) % Radix

writeU32(x, endianness) ==
    LET b0 == ByteOf(x, 1)
        b1 == ByteOf(x, Radix)
        b2 == ByteOf(x, Radix * Radix)
        b3 == ByteOf(x, Radix * Radix * Radix)
    IN IF endianness = Little THEN <<b0, b1, b2, b3>> ELSE <<b3, b2, b1, b0>>

writeHeader(h) ==
    kMagic \o h.version \o <<h.endianness, 0>>
    \o writeU32(h.entry_point, h.endianness)
    \o writeU32(h.code_size, h.endianness)
    \o IF h.version # Current THEN <<>>
       ELSE writeU32(h.data_base, h.endianness) \o writeU32(h.data_size, h.endianness)

\* What writeToBytes refuses.
Writable(p) ==
    /\ isSupportedVersion(p.header.version)
    /\ Len(p.code) <= MaxU32 /\ Len(p.data) <= MaxU32
    /\ p.header.version = Legacy => p.data = <<>>

\* The sizes in the header are those of the sections, whatever it said.
WrittenHeader(p) ==
    LET h == p.header
    IN [version |-> h.version, endianness |-> h.endianness,
        entry_point |-> h.entry_point, code_size |-> Len(p.code),
        data_base |-> IF h.version = Legacy THEN 0 ELSE h.data_base,
        data_size |-> Len(p.data)]

writeToBytes(p) == writeHeader(WrittenHeader(p)) \o p.code \o p.data

-------------------------------------------------------------------------------
(* BinaryReader.                                                            *)

\* Offsets in the file count from 0.
readU32(bytes, offset, endianness) ==
    LET b(i) == bytes[offset + i + 1]
        value(b0, b1, b2, b3) == ((b3 * Radix + b2) * Radix + b1) * Radix + b0
    IN IF endianness = Little THEN value(b(0), b(1), b(2), b(3))
                              ELSE value(b(3), b(2), b(1), b(0))

VersionOf(bytes) == <<bytes[5], bytes[6]>>

\* validateMagic.
MagicValid(bytes) == SubSeq(bytes, 1, 4) = kMagic

\* Mutant: the reserved byte may have any value.
MutHeaderReadable(bytes) ==
    /\ headerSizeForVersion(VersionOf(bytes)) # 0
    /\ Len(bytes) >= headerSizeForVersion(VersionOf(bytes))
    /\ bytes[7] \in {Little, Big}

\* What readHeader refuses.
HeaderReadable(bytes) ==
    /\ headerSizeForVersion(VersionOf(bytes)) # 0
    /\ Len(bytes) >= headerSizeForVersion(VersionOf(bytes))
    /\ bytes[7] \in {Little, Big}
    /\ bytes[8] = 0

readHeader(bytes) ==
    LET endianness == bytes[7]
        current == VersionOf(bytes) = Current
    IN [version |-> VersionOf(bytes),
        endianness |-> endianness,
        entry_point |-> readU32(bytes, 8, endianness),
        code_size |-> readU32(bytes, 12, endianness),
        data_base |-> IF current THEN readU32(bytes, 16, endianness) ELSE 0,
        data_size |-> IF current THEN readU32(bytes, 20, endianness) ELSE 0]

\* validateHeader.
HeaderValid(h) ==
    /\ isSupportedVersion(h.version)
    /\ h.entry_point % kInstructionSize = 0
    /\ h.code_size % kInstructionSize = 0
    /\ h.entry_point < h.code_size
    /\ h.version = Legacy => h.data_base = 0 /\ h.data_size = 0

\* The size check of readFromBytes.
SizesMatch(bytes, h) ==
    Len(bytes) = headerSizeForVersion(h.version) + h.code_size + h.data_size

\* What readFromBytes refuses.
Readable(bytes) ==
    /\ Len(bytes) >= 16
    /\ MagicValid(bytes)
    /\ HeaderReadable(bytes)
    /\ HeaderValid(readHeader(bytes))
    /\ SizesMatch(bytes, readHeader(bytes))

readFromBytes(bytes) ==
    LET h == readHeader(bytes)
        codeEnd == headerSizeForVersion(h.version) + h.code_size
    IN [header |-> h,
        code |-> SubSeq(bytes, codeEnd - h.code_size + 1, codeEnd),
        data |-> SubSeq(bytes, codeEnd + 1, Len(bytes))]

-------------------------------------------------------------------------------
(* BinaryLoader.                                                            *)

\* validateProgram.
ProgramValid(p) ==
    LET h == p.header
    IN /\ isSupportedVersion(h.version)
       /\ h.endianness = Little
       /\ p.code # <<>>
       /\ h.code_size = Len(p.code)
       /\ h.data_size = Len(p.data)
       /\ Len(p.code) % kInstructionSize = 0
       /\ h.entry_point < h.code_size
       /\ h.entry_point % kInstructionSize = 0
       /\ h.version = Legacy => p.data = <<>> /\ h.data_base = 0 /\ h.data_size = 0

rangesOverlap(begin1, size1, begin2, size2) ==
    /\ size1 # 0 /\ size2 # 0
    /\ begin1 < begin2 + size2 /\ begin2 < begin1 + size1

\* validatePlacement, in a memory with addresses 0 .. size - 1.
PlacementValid(p, size, codeBase) ==
    /\ codeBase <= size /\ Len(p.code) <= size - codeBase
    /\ p.header.data_base <= size /\ Len(p.data) <= size - p.header.data_base
    /\ ~rangesOverlap(codeBase, Len(p.code), p.header.data_base, Len(p.data))

\* Memory::writeBytes and Memory::readBytes.
WithBytes(mem, a, bytes) ==
    [b \in DOMAIN mem |-> IF b \in a .. a + Len(bytes) - 1 THEN bytes[b - a + 1]
                                                          ELSE mem[b]]

BytesAt(mem, a, n) == [i \in 1 .. n |-> mem[a + i - 1]]

\* loadIntoMemory writes to a copy: the data first, then the code.
loadIntoMemory(p, mem, codeBase) ==
    WithBytes(WithBytes(mem, p.header.data_base, p.data), codeBase, p.code)

================================================================================
