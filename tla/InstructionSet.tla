---------------------------- MODULE InstructionSet ----------------------------
(***************************************************************************)
(* Instructions and their encoding in bytes: Operand, Instruction,         *)
(* InstructionEncoder, InstructionDecoder, and the words in byte memory of *)
(* Memory.cpp.  A byte has Radix values and a word WordBytes bytes; an     *)
(* instruction is laid out as in the code: opcode, two operand types, a    *)
(* reserved byte, two payload words, four reserved bytes.                  *)
(***************************************************************************)
EXTENDS ALU, Sequences, TLC

CONSTANTS
    Radix,       \* values of a byte (256)
    WordBytes    \* bytes of a word (8)

ASSUME ByteAssumption == /\ Radix \in Nat /\ Radix > 114
                         /\ WordBytes \in Nat \ {0}
                         /\ Power(Radix, WordBytes) = 2 * Half

ReservedTail == 4
InstructionSize == 4 + 2 * WordBytes + ReservedTail

Registers == 0 .. 7

-------------------------------------------------------------------------------
(* Operand and Instruction.                                                 *)

None == [type |-> "None", v |-> 0]
Register(r) == [type |-> "Register", v |-> r]
Immediate(x) == [type |-> "Immediate", v |-> x]
MemoryAddress(a) == [type |-> "MemoryAddress", v |-> a]
Indirect(r) == [type |-> "RegisterIndirectAddress", v |-> r]
Label(l) == [type |-> "Label", v |-> l]

Instr(op, dst, src) == [op |-> op, dst |-> dst, src |-> src]
Instr1(op, dst) == Instr(op, dst, None)
Instr0(op) == Instr(op, None, None)

-------------------------------------------------------------------------------
(* Words in memory: a word is stored little-endian.                         *)

\* The i-th byte of a word, from the least significant one.
ByteOf(x, i) == Digit(Unsigned(x), Radix, i)

WordOf(bytes) ==
    wrapU64ToI64(FromDigits([i \in 0 .. WordBytes - 1 |-> bytes[i + 1]], Radix, WordBytes))

Bytes(x) == [i \in 1 .. WordBytes |-> ByteOf(x, i - 1)]

\* Memory::checkRange.
InRange(mem, a, n) == a >= 0 /\ a + n <= Cardinality(DOMAIN mem)

ReadBytes(mem, a, n) == [i \in 1 .. n |-> mem[a + i - 1]]

WriteBytes(mem, a, bytes) ==
    [b \in DOMAIN mem |-> IF b \in a .. a + Len(bytes) - 1 THEN bytes[b - a + 1]
                                                          ELSE mem[b]]

ReadWord(mem, a) == WordOf(ReadBytes(mem, a, WordBytes))

WriteWord(mem, a, x) == WriteBytes(mem, a, Bytes(x))

-------------------------------------------------------------------------------
(* InstructionEncoder.                                                      *)

encodeOpcode ==
    [NOP |-> 0, HALT |-> 1, MOV |-> 16, LOAD |-> 17, STORE |-> 18,
     ADD |-> 32, SUB |-> 33, MUL |-> 34, DIV |-> 35, CMP |-> 48, TEST |-> 49,
     JMP |-> 64, JE |-> 65, JNE |-> 66, JG |-> 67, JL |-> 68,
     PUSH |-> 80, POP |-> 81, CALL |-> 82, RET |-> 83, IRET |-> 84,
     AND |-> 96, OR |-> 97, XOR |-> 98, NOT |-> 99,
     EI |-> 112, DI |-> 113, INT |-> 114]

Opcodes == DOMAIN encodeOpcode

\* The values of enum EncodedOperandType.
encodeType ==
    [None |-> 0, Register |-> 1, Immediate |-> 2, MemoryAddress |-> 3,
     Label |-> 4, RegisterIndirectAddress |-> 5]

\* Mutant: a label is encoded as the index of its instruction.
MutEncodePayload(o, labels) == IF o.type = "Label" THEN labels[o.v] ELSE o.v

\* encodeOperand: a label becomes the byte offset of its instruction.
EncodePayload(o, labels) ==
    IF o.type = "Label" THEN labels[o.v] * InstructionSize ELSE o.v

\* encodeOperand throws for an undefined label.
Encodable(i, labels) ==
    \A o \in {i.dst, i.src} : o.type = "Label" => o.v \in DOMAIN labels

encodeInstruction(i, labels) ==
    <<encodeOpcode[i.op], encodeType[i.dst.type], encodeType[i.src.type], 0>>
    \o Bytes(EncodePayload(i.dst, labels))
    \o Bytes(EncodePayload(i.src, labels))
    \o [k \in 1 .. ReservedTail |-> 0]

encodeProgram(program, labels) ==
    LET encoded == [k \in 1 .. Len(program) |-> encodeInstruction(program[k], labels)]
    IN [b \in 1 .. Len(program) * InstructionSize |->
            encoded[(b - 1) \div InstructionSize + 1][((b - 1) % InstructionSize) + 1]]

-------------------------------------------------------------------------------
(* InstructionDecoder.                                                      *)

\* The function that a table of arguments and values gives.
Lookup(table) == [x \in {row[1] : row \in table} |-> (CHOOSE row \in table : row[1] = x)[2]]

decodeOpcode ==
    Lookup({<<0, "NOP">>, <<1, "HALT">>, <<16, "MOV">>, <<17, "LOAD">>, <<18, "STORE">>,
            <<32, "ADD">>, <<33, "SUB">>, <<34, "MUL">>, <<35, "DIV">>,
            <<48, "CMP">>, <<49, "TEST">>, <<64, "JMP">>, <<65, "JE">>, <<66, "JNE">>,
            <<67, "JG">>, <<68, "JL">>, <<80, "PUSH">>, <<81, "POP">>, <<82, "CALL">>,
            <<83, "RET">>, <<84, "IRET">>, <<96, "AND">>, <<97, "OR">>, <<98, "XOR">>,
            <<99, "NOT">>, <<112, "EI">>, <<113, "DI">>, <<114, "INT">>})

decodeOperandType ==
    Lookup({<<0, "None">>, <<1, "Register">>, <<2, "Immediate">>, <<3, "MemoryAddress">>,
            <<4, "CodeAddress">>, <<5, "RegisterIndirectAddress">>})

\* What decodeInstruction refuses: reserved bytes in use, an unknown opcode or
\* operand type.
Decodable(bytes) ==
    /\ bytes[4] = 0
    /\ \A k \in InstructionSize - ReservedTail + 1 .. InstructionSize : bytes[k] = 0
    /\ bytes[1] \in DOMAIN decodeOpcode
    /\ {bytes[2], bytes[3]} \subseteq DOMAIN decodeOperandType

\* A decoded instruction has its operands as an encoded type and a payload.
decodeInstruction(bytes) ==
    Instr(decodeOpcode[bytes[1]],
          [type |-> decodeOperandType[bytes[2]],
           v |-> WordOf(SubSeq(bytes, 5, 4 + WordBytes))],
          [type |-> decodeOperandType[bytes[3]],
           v |-> WordOf(SubSeq(bytes, 5 + WordBytes, 4 + 2 * WordBytes))])

================================================================================
