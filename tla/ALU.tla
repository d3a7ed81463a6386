---------------------------------- MODULE ALU ----------------------------------
(***************************************************************************)
(* The arithmetic of ALU.cpp on two's complement words of any width: the   *)
(* words are -Half .. Half - 1 where the code has the 64 bits of int64_t.  *)
(* The overflow of a product is computed with long double, which keeps     *)
(* Mantissa significant bits: 64 with GCC on x86, where a word is exact,   *)
(* and 53 with MSVC, where it is rounded.                                  *)
(***************************************************************************)
EXTENDS Integers, FiniteSetsExt

CONSTANTS
    Bits,      \* bits of a word
    Half,      \* 2^(Bits - 1)
    Mantissa   \* significant bits of long double

ASSUME WidthAssumption == Bits \in Nat \ {0} /\ Half \in Nat \ {0}
\* C++ asks for ten decimal digits of a long double, more than half of 64 bits.
ASSUME MantissaAssumption == Mantissa \in Nat /\ Mantissa >= 3 /\ 2 * Mantissa >= Bits

(***************************************************************************)
(* Numbers and their digits.  Digit i of a number has the weight           *)
(* Power(base, i); shifting right by n digits is n divisions.              *)
(***************************************************************************)

Power(base, n) ==
    LET p[k \in Nat] == IF k = 0 THEN 1 ELSE base * p[k - 1] IN p[n]

ShiftedRight(u, base, n) ==
    LET s[k \in Nat] == IF k = 0 THEN u ELSE s[k - 1] \div base IN s[n]

Digit(u, base, i) == ShiftedRight(u, base, i) % base

\* The number with the digits digits[0] to digits[n - 1], from the highest down.
FromDigits(digits, base, n) ==
    LET w[k \in 0 .. n] == IF k = 0 THEN 0 ELSE w[k - 1] * base + digits[n - k]
    IN w[n]

ASSUME HalfAssumption == 2 * Half = Power(2, Bits)

MaxWord == Half - 1
MinWord == -Half
Words == MinWord .. MaxWord

\* static_cast<std::uint64_t>; unsigned arithmetic is modulo 2 * Half.
Unsigned(x) == IF x < 0 THEN x + 2 * Half ELSE x

wrapU64ToI64(u) == IF u >= Half THEN u - 2 * Half ELSE u

\* Mutant: the operand that makes the sum overflow is taken to be positive.
MutAddSignedOverflow(lhs, rhs) == rhs > 0 /\ lhs > MaxWord - rhs

addSignedOverflow(lhs, rhs) ==
    \/ rhs > 0 /\ lhs > MaxWord - rhs
    \/ rhs < 0 /\ lhs < MinWord - rhs

subSignedOverflow(lhs, rhs) ==
    \/ rhs > 0 /\ lhs < MinWord + rhs
    \/ rhs < 0 /\ lhs > MaxWord + rhs

\* The weight of the last bit that a long double keeps of a number of size n.
Ulp(n) == Power(2, Min({k \in 0 .. 2 * Bits : n \div Power(2, k) < Power(2, Mantissa)}))

\* static_cast<long double> and its product: to nearest, ties to even.
LongDouble(x) ==
    LET n == IF x < 0 THEN -x ELSE x
        u == Ulp(n)
        q == n \div u
        r == n % u
        m == IF 2 * r > u \/ (2 * r = u /\ q % 2 = 1) THEN q + 1 ELSE q
    IN IF x < 0 THEN -(m * u) ELSE m * u

mulSignedOverflow(lhs, rhs) ==
    LET product == LongDouble(LongDouble(lhs) * LongDouble(rhs))
    IN /\ lhs # 0 /\ rhs # 0
       /\ \/ lhs = -1 /\ rhs = MinWord
          \/ rhs = -1 /\ lhs = MinWord
          \/ product > LongDouble(MaxWord)
          \/ product < LongDouble(MinWord)

makeResult(v, cf, of) ==
    [value |-> v, zero |-> v = 0, sign |-> v < 0, carry |-> cf, overflow |-> of]

add(lhs, rhs) ==
    LET l == Unsigned(lhs)
        r == Unsigned(rhs)
        sum == IF l + r >= 2 * Half THEN l + r - 2 * Half ELSE l + r
    IN makeResult(wrapU64ToI64(sum), sum < l, addSignedOverflow(lhs, rhs))

sub(lhs, rhs) ==
    LET l == Unsigned(lhs)
        r == Unsigned(rhs)
    IN makeResult(wrapU64ToI64(IF l < r THEN l - r + 2 * Half ELSE l - r),
                  l < r, subSignedOverflow(lhs, rhs))

mul(lhs, rhs) ==
    LET overflow == mulSignedOverflow(lhs, rhs)
    IN makeResult(wrapU64ToI64((Unsigned(lhs) * Unsigned(rhs)) % (2 * Half)),
                  overflow, overflow)

\* The two divisions that div refuses.
Divides(lhs, rhs) == rhs # 0 /\ ~(lhs = MinWord /\ rhs = -1)

\* C++ division truncates towards zero; \div rounds down.
Quotient(lhs, rhs) ==
    LET l == IF lhs < 0 THEN -lhs ELSE lhs
        r == IF rhs < 0 THEN -rhs ELSE rhs
    IN IF (lhs < 0) = (rhs < 0) THEN l \div r ELSE -(l \div r)

div(lhs, rhs) == makeResult(Quotient(lhs, rhs), FALSE, FALSE)

\* Whether a bit of a word is set, and the word with the bits of a set.
Bit(x, i) == Digit(Unsigned(x), 2, i) = 1

FromBits(ones) ==
    makeResult(wrapU64ToI64(FromDigits([i \in 0 .. Bits - 1 |-> IF i \in ones THEN 1 ELSE 0],
                                       2, Bits)),
               FALSE, FALSE)

bitAnd(lhs, rhs) == FromBits({i \in 0 .. Bits - 1 : Bit(lhs, i) /\ Bit(rhs, i)})

bitOr(lhs, rhs) == FromBits({i \in 0 .. Bits - 1 : Bit(lhs, i) \/ Bit(rhs, i)})

bitXor(lhs, rhs) == FromBits({i \in 0 .. Bits - 1 : Bit(lhs, i) # Bit(rhs, i)})

bitNot(x) == FromBits({i \in 0 .. Bits - 1 : ~Bit(x, i)})

compare(lhs, rhs) == sub(lhs, rhs)

test(lhs, rhs) == bitAnd(lhs, rhs)

-------------------------------------------------------------------------------
(* The conditions of JL and JG (CPU.cpp).                                   *)

\* Mutant: the overflow flag is forgotten.
MutSignedLessThan(f) == f.sign

signedLessThanFromFlags(f) == f.sign # f.overflow

signedGreaterThanFromFlags(f) == ~f.zero /\ f.sign = f.overflow

================================================================================
