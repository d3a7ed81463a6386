------------------------------ MODULE ALUMachine ------------------------------
(***************************************************************************)
(* One arithmetic instruction on registers with any contents: its operands *)
(* and the result and flags that it leaves.                                *)
(***************************************************************************)
EXTENDS ALU

VARIABLES lhs, rhs, op, result

vars == <<lhs, rhs, op, result>>

Init ==
    /\ lhs \in Words
    /\ rhs \in Words
    /\ op = "none"
    /\ result = makeResult(0, FALSE, FALSE)

Apply(name, r) ==
    /\ op = "none"
    /\ op' = name
    /\ result' = r
    /\ UNCHANGED <<lhs, rhs>>

DoAdd == Apply("add", add(lhs, rhs))
DoSub == Apply("sub", sub(lhs, rhs))
DoMul == Apply("mul", mul(lhs, rhs))
DoDiv == Divides(lhs, rhs) /\ Apply("div", div(lhs, rhs))
DoAnd == Apply("and", bitAnd(lhs, rhs))
DoOr == Apply("or", bitOr(lhs, rhs))
DoXor == Apply("xor", bitXor(lhs, rhs))
DoNot == Apply("not", bitNot(lhs))
DoCompare == Apply("cmp", compare(lhs, rhs))
DoTest == Apply("test", test(lhs, rhs))

Next == \/ DoAdd \/ DoSub \/ DoMul \/ DoDiv \/ DoAnd \/ DoOr \/ DoXor \/ DoNot
        \/ DoCompare \/ DoTest

Spec == Init /\ [][Next]_vars

-------------------------------------------------------------------------------
(* Properties                                                               *)

\* What JL, JG and JE decide after CMP (ALU::compare and the flag conditions
\* of CPU.cpp) is the order of the two operands as signed numbers, also when
\* their difference does not fit in a word.
ComparisonIsSigned ==
    op = "cmp" =>
        /\ signedLessThanFromFlags(result) <=> lhs < rhs
        /\ signedGreaterThanFromFlags(result) <=> lhs > rhs
        /\ result.zero <=> lhs = rhs

\* The carry flag of ADD and SUB says that the sum or difference of the
\* operands read as unsigned numbers left the word (ALU::add, ALU::sub).
CarryIsExact ==
    /\ op = "add" => (result.carry <=> Unsigned(lhs) + Unsigned(rhs) >= 2 * Half)
    /\ op \in {"sub", "cmp"} => (result.carry <=> Unsigned(lhs) < Unsigned(rhs))

\* The value stored is x modulo the word, and the overflow flag says that x is
\* not a word.
Represents(x) == /\ result.overflow <=> x \notin Words
                 /\ (result.value - x) % (2 * Half) = 0

\* The overflow flag of ADD and SUB (addSignedOverflow, subSignedOverflow) is
\* set exactly when the true result is not a word, and the value stored is the
\* true result modulo the word.
SumIsExact == /\ op = "add" => Represents(lhs + rhs)
              /\ op = "sub" => Represents(lhs - rhs)

\* What ALU::mul promises with every long double (mulSignedOverflow).  The value
\* stored is the true product modulo the word; a product that is a word never sets
\* the overflow flag, for all the rounding; and a product that is not a word fails
\* to set it only where a long double is narrower than a word, as MSVC's is, and
\* only if it is beyond the range by no more than four parts in 2^Mantissa.
ProductIsNear ==
    op = "mul" =>
        LET x == lhs * rhs
            size == IF x < 0 THEN -x ELSE x
        IN /\ (result.value - x) % (2 * Half) = 0
           /\ result.overflow => x \notin Words
           /\ (x \notin Words /\ ~result.overflow) =>
                  Mantissa < Bits /\ size - Half <= (4 * Half) \div Power(2, Mantissa)

\* DIV: what ALU::div does not refuse has a quotient that is a word, and
\* quotient times divisor leaves a remainder smaller than the divisor and of
\* the sign of the dividend.
DivisionIsExact ==
    op = "div" =>
        LET remainder == lhs - result.value * rhs
            size == IF remainder < 0 THEN -remainder ELSE remainder
        IN /\ result.value \in Words
           /\ size < IF rhs < 0 THEN -rhs ELSE rhs
           /\ remainder # 0 => (remainder < 0) = (lhs < 0)

\* ALU::bitAnd, bitOr, bitXor and bitNot fit together with the arithmetic: the
\* bits two words share and the bits either has add up to their sum, the
\* exclusive or is the difference of the two, and negation is one's complement.
BitsAddUp ==
    LET modulo(x, y) == (x - y) % (2 * Half) = 0
    IN /\ op = "or" => modulo(result.value + bitAnd(lhs, rhs).value, lhs + rhs)
       /\ op = "xor" => modulo(result.value + bitAnd(lhs, rhs).value,
                               bitOr(lhs, rhs).value)
       /\ op = "not" => result.value = -1 - lhs

\* Value and flags of every ALU operation against the integers.
ArithmeticIsRight ==
    SumIsExact /\ ProductIsNear /\ CarryIsExact /\ DivisionIsExact /\ BitsAddUp

\* MUL sets the carry and the overflow flag exactly when the product is not a word
\* (docs/semantics.md: "C and O are both set when signed multiplication overflow is
\* detected").
OverflowIsDetected ==
    op = "mul" => /\ result.overflow <=> lhs * rhs \notin Words
                  /\ result.carry <=> result.overflow

================================================================================
