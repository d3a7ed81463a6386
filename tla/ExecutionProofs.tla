----------------------------- MODULE ExecutionProofs -----------------------------
(***************************************************************************)
(* The arithmetic of the ALU is right for words of every width and every   *)
(* long double; the states of both interpreters keep their type; what the  *)
(* trace says of a step is what the step did, of a pushed word the lowest  *)
(* byte, for every program; and the bytes of a program without calls and   *)
(* interrupts do what its instructions do.                                 *)
(***************************************************************************)
EXTENDS MCExecution, FiniteSetTheorems, WellFoundedInduction, TLAPS

-------------------------------------------------------------------------------
(* Recursive functions over the naturals.                                    *)

\* Induction over the naturals, for the set of numbers that have a property.
LEMMA Induction ==
    ASSUME NEW T, 0 \in T, \A n \in Nat : n \in T => n + 1 \in T
    PROVE  \A n \in Nat : n \in T
  <1> DEFINE D == {n \in Nat : n \notin T}
  <1>1. CASE D = {}
    BY <1>1
  <1>2. CASE D # {}
    <2>1. PICK x \in D : \A y \in D : ~(<<y, x>> \in OpToRel(<, Nat))
      <3>1. D \subseteq Nat
        OBVIOUS
      <3> HIDE DEF D
      <3> QED BY <1>2, <3>1, NatLessThanWellFounded, WFMin
    <2>2. x \in Nat /\ x \notin T /\ x # 0
      OBVIOUS
    <2>3. x - 1 \in Nat /\ x - 1 < x /\ (x - 1) + 1 = x
      BY <2>2
    <2>4. x - 1 \notin D
      <3>1. <<x - 1, x>> \in OpToRel(<, Nat)
        BY <2>2, <2>3 DEF OpToRel
      <3> QED BY <2>1, <3>1
    <2> QED BY <2>2, <2>3, <2>4
  <1> QED BY <1>1, <1>2

\* f satisfies the equations of a primitive recursion up to n.
Follows(f, n, z, g) == f[0] = z /\ \A k \in 1 .. n : f[k] = g[k][f[k - 1]]

\* A primitive recursion has a solution.
LEMMA RecursionUpTo ==
    ASSUME NEW S, NEW z \in S, NEW g \in [Nat -> [S -> S]]
    PROVE  \A n \in Nat : \E f \in [0 .. n -> S] : Follows(f, n, z, g)
  <1> DEFINE T == {n \in Nat : \E f \in [0 .. n -> S] : Follows(f, n, z, g)}
  <1>1. 0 \in T
    <2> DEFINE f == [k \in 0 .. 0 |-> z]
    <2>1. f \in [0 .. 0 -> S] /\ Follows(f, 0, z, g)
      BY DEF Follows
    <2> QED BY <2>1
  <1>2. ASSUME NEW n \in Nat, n \in T
        PROVE  n + 1 \in T
    <2>1. PICK f \in [0 .. n -> S] : Follows(f, n, z, g)
      BY <1>2
    <2> DEFINE h == [k \in 0 .. n + 1 |-> IF k <= n THEN f[k] ELSE g[n + 1][f[n]]]
    <2>2. g[n + 1][f[n]] \in S
      OBVIOUS
    <2>3. h \in [0 .. n + 1 -> S]
      BY <2>2
    <2>4. /\ \A k \in 0 .. n : h[k] = f[k]
          /\ h[n + 1] = g[n + 1][f[n]]
      OBVIOUS
    <2> HIDE DEF h
    <2>5. ASSUME NEW k \in 1 .. n + 1
          PROVE  h[k] = g[k][h[k - 1]]
      <3>1. CASE k = n + 1
        <4>1. k - 1 = n /\ n \in 0 .. n
          BY <3>1
        <4> QED BY <2>4, <3>1, <4>1
      <3>2. CASE k # n + 1
        <4>1. k \in 1 .. n /\ k \in 0 .. n /\ k - 1 \in 0 .. n
          BY <3>2
        <4> QED BY <2>1, <2>4, <4>1 DEF Follows
      <3> QED BY <3>1, <3>2
    <2>6. h[0] = z
      <3>1. 0 \in 0 .. n
        OBVIOUS
      <3> QED BY <2>1, <2>4, <3>1 DEF Follows
    <2> QED BY <2>3, <2>5, <2>6 DEF Follows
  <1> HIDE DEF T
  <1>3. \A n \in Nat : n \in T
    BY <1>1, <1>2, Induction
  <1> QED BY <1>3 DEF T

LEMMA RecursionUnique ==
    ASSUME NEW z, NEW g, NEW f, NEW h, NEW m \in Nat, NEW n \in Nat, m <= n,
           Follows(f, m, z, g), Follows(h, n, z, g)
    PROVE  f[m] = h[m]
  <1> DEFINE T == {k \in Nat : k <= m => f[k] = h[k]}
  <1>1. 0 \in T
    BY DEF Follows
  <1>2. ASSUME NEW k \in Nat, k \in T
        PROVE  k + 1 \in T
    <2>1. CASE k + 1 <= m
      <3>1. k + 1 \in 1 .. m /\ k + 1 \in 1 .. n /\ (k + 1) - 1 = k /\ k <= m
        BY <2>1
      <3>2. f[k + 1] = g[k + 1][f[k]] /\ h[k + 1] = g[k + 1][h[k]]
        BY <3>1 DEF Follows
      <3> QED BY <1>2, <3>1, <3>2
    <2>2. CASE ~(k + 1 <= m)
      BY <2>2
    <2> QED BY <2>1, <2>2
  <1> HIDE DEF T
  <1>3. \A k \in Nat : k \in T
    BY <1>1, <1>2, Induction
  <1> QED BY <1>3 DEF T

\* The same without a bound, in a form that is instantiated by matching.
IsStep(g, S) == g \in [Nat -> [S -> S]]

Solves(f, S, z, g) ==
    /\ f \in [Nat -> S]
    /\ f[0] = z
    /\ \A n \in Nat \ {0} : f[n] = g[n][f[n - 1]]

LEMMA Recursion ==
    ASSUME NEW S, NEW z \in S, NEW g, IsStep(g, S)
    PROVE  \E f : Solves(f, S, z, g)
  <1> DEFINE A(n) == CHOOSE f : f \in [0 .. n -> S] /\ Follows(f, n, z, g)
             f == [n \in Nat |-> A(n)[n]]
  <1>0. g \in [Nat -> [S -> S]]
    BY DEF IsStep
  <1>1. \A n \in Nat : A(n) \in [0 .. n -> S] /\ Follows(A(n), n, z, g)
    BY <1>0, RecursionUpTo, Zenon
  <1> HIDE DEF A
  <1>2. \A n \in Nat : n \in 0 .. n
    OBVIOUS
  <1>3. f \in [Nat -> S]
    <2>1. \A n \in Nat : A(n)[n] \in S
      BY <1>1, <1>2
    <2> QED BY <2>1
  <1>4. f[0] = z
    BY <1>1 DEF Follows
  <1>5. ASSUME NEW n \in Nat \ {0}
        PROVE  f[n] = g[n][f[n - 1]]
    <2>1. n \in Nat /\ n - 1 \in Nat /\ n - 1 <= n /\ n \in 1 .. n
      OBVIOUS
    <2>2. A(n)[n] = g[n][A(n)[n - 1]]
      BY <1>1, <2>1 DEF Follows
    <2>3. A(n - 1)[n - 1] = A(n)[n - 1]
      <3>1. Follows(A(n - 1), n - 1, z, g) /\ Follows(A(n), n, z, g)
        BY <1>1, <2>1
      <3> QED BY <2>1, <3>1, RecursionUnique
    <2> QED BY <2>1, <2>2, <2>3
  <1> HIDE DEF f
  <1> QED BY <1>3, <1>4, <1>5, Zenon DEF Solves

\* Power, unfolded.
LEMMA PowerIs ==
    ASSUME NEW b \in Nat
    PROVE  /\ Power(b, 0) = 1
           /\ \A n \in Nat : Power(b, n) \in Nat /\ Power(b, n + 1) = b * Power(b, n)
  <1> DEFINE P(h) == h = [k \in Nat |-> IF k = 0 THEN 1 ELSE b * h[k - 1]]
             g == [k \in Nat |-> [x \in Nat |-> b * x]]
             p == CHOOSE h : P(h)
  <1>1. \A n : Power(b, n) = p[n]
    BY Zenon DEF Power
  <1>2. PICK f : Solves(f, Nat, 1, g)
    <2>1. IsStep(g, Nat) /\ 1 \in Nat
      BY DEF IsStep
    <2> HIDE DEF g
    <2> QED BY <2>1, Recursion, Zenon
  <1>3. \A n \in Nat : f[n] = IF n = 0 THEN 1 ELSE b * f[n - 1]
    <2>1. \A n \in Nat, x \in Nat : g[n][x] = b * x
      OBVIOUS
    <2>2. \A n \in Nat \ {0} : n - 1 \in Nat /\ f[n - 1] \in Nat
      BY <1>2 DEF Solves
    <2> HIDE DEF g
    <2> QED BY <1>2, <2>1, <2>2 DEF Solves
  <1>4. P(f)
    BY <1>2, <1>3 DEF Solves
  <1>5. P(p)
    <2> HIDE DEF P
    <2> QED BY <1>4, Zenon
  <1> HIDE DEF p
  <1>6. p[0] = 1 /\ \A n \in Nat : p[n + 1] = b * p[n]
    <2>1. \A n \in Nat : p[n] = IF n = 0 THEN 1 ELSE b * p[n - 1]
      BY <1>5
    <2>2. \A n \in Nat : n + 1 \in Nat /\ n + 1 # 0 /\ (n + 1) - 1 = n
      OBVIOUS
    <2> HIDE DEF P
    <2> QED BY <2>1, <2>2
  <1> DEFINE T == {n \in Nat : p[n] \in Nat}
  <1>7. 0 \in T /\ \A n \in Nat : n \in T => n + 1 \in T
    BY <1>6
  <1> HIDE DEF T
  <1>8. \A n \in Nat : n \in T
    BY <1>7, Induction
  <1> QED BY <1>1, <1>6, <1>8 DEF T

\* ShiftedRight, unfolded.
LEMMA ShiftIs ==
    ASSUME NEW u \in Nat, NEW b \in Nat \ {0}
    PROVE  /\ ShiftedRight(u, b, 0) = u
           /\ \A n \in Nat : /\ ShiftedRight(u, b, n) \in Nat
                             /\ ShiftedRight(u, b, n + 1) = ShiftedRight(u, b, n) \div b
  <1> DEFINE P(h) == h = [k \in Nat |-> IF k = 0 THEN u ELSE h[k - 1] \div b]
             g == [k \in Nat |-> [x \in Nat |-> x \div b]]
             p == CHOOSE h : P(h)
  <1>0. \A x \in Nat : x \div b \in Nat
    OBVIOUS
  <1>1. \A n : ShiftedRight(u, b, n) = p[n]
    BY Zenon DEF ShiftedRight
  <1>2. PICK f : Solves(f, Nat, u, g)
    <2>1. IsStep(g, Nat)
      BY <1>0 DEF IsStep
    <2> HIDE DEF g
    <2> QED BY <2>1, Recursion, Zenon
  <1>3. \A n \in Nat : f[n] = IF n = 0 THEN u ELSE f[n - 1] \div b
    <2>1. \A n \in Nat, x \in Nat : g[n][x] = x \div b
      OBVIOUS
    <2>2. \A n \in Nat \ {0} : n - 1 \in Nat /\ f[n - 1] \in Nat
      BY <1>2 DEF Solves
    <2> HIDE DEF g
    <2> QED BY <1>2, <2>1, <2>2 DEF Solves
  <1>4. P(f)
    BY <1>2, <1>3 DEF Solves
  <1>5. P(p)
    <2> HIDE DEF P
    <2> QED BY <1>4, Zenon
  <1> HIDE DEF p
  <1>6. p[0] = u /\ \A n \in Nat : p[n + 1] = p[n] \div b
    <2>1. \A n \in Nat : p[n] = IF n = 0 THEN u ELSE p[n - 1] \div b
      BY <1>5
    <2>2. \A n \in Nat : n + 1 \in Nat /\ n + 1 # 0 /\ (n + 1) - 1 = n
      OBVIOUS
    <2> HIDE DEF P
    <2> QED BY <2>1, <2>2
  <1> DEFINE T == {n \in Nat : p[n] \in Nat}
  <1>7. 0 \in T /\ \A n \in Nat : n \in T => n + 1 \in T
    BY <1>0, <1>6
  <1> HIDE DEF T
  <1>8. \A n \in Nat : n \in T
    BY <1>7, Induction
  <1> QED BY <1>1, <1>6, <1>8 DEF T

\* The partial sums of FromDigits.
LEMMA DigitsIs ==
    ASSUME NEW n \in Nat, NEW b \in Nat \ {0}, NEW d \in [0 .. n - 1 -> Nat]
    PROVE  \E w : /\ FromDigits(d, b, n) = w[n]
                  /\ w[0] = 0
                  /\ \A k \in 1 .. n : w[k] = w[k - 1] * b + d[n - k]
  <1> DEFINE P(h) == h = [k \in 0 .. n |-> IF k = 0 THEN 0 ELSE h[k - 1] * b + d[n - k]]
             e == [k \in Nat |-> IF k \in 1 .. n THEN d[n - k] ELSE 0]
             g == [k \in Nat |-> [x \in Nat |-> x * b + e[k]]]
             p == CHOOSE h : P(h)
  <1>1. FromDigits(d, b, n) = p[n]
    BY Zenon DEF FromDigits
  <1>2. e \in [Nat -> Nat] /\ \A k \in 1 .. n : e[k] = d[n - k]
    <2>1. \A k \in 1 .. n : n - k \in 0 .. n - 1
      OBVIOUS
    <2>2. \A k \in 1 .. n : d[n - k] \in Nat
      BY <2>1
    <2> QED BY <2>2
  <1> HIDE DEF e
  <1>3. PICK f : Solves(f, Nat, 0, g)
    <2>1. \A k \in Nat, x \in Nat : x * b + e[k] \in Nat
      <3>1. \A k \in Nat : e[k] \in Nat
        BY <1>2
      <3>2. \A x \in Nat, y \in Nat : x * b + y \in Nat
        OBVIOUS
      <3> QED BY <3>1, <3>2
    <2>2. IsStep(g, Nat) /\ 0 \in Nat
      BY <2>1 DEF IsStep
    <2> HIDE DEF g
    <2> QED BY <2>2, Recursion, Zenon
  <1>4. \A k \in Nat \ {0} : f[k] = f[k - 1] * b + e[k]
    <2>1. \A k \in Nat, x \in Nat : g[k][x] = x * b + e[k]
      OBVIOUS
    <2>2. \A k \in Nat \ {0} : k - 1 \in Nat /\ f[k - 1] \in Nat
      BY <1>3 DEF Solves
    <2> HIDE DEF g
    <2> QED BY <1>3, <2>1, <2>2 DEF Solves
  <1> DEFINE h == [k \in 0 .. n |-> f[k]]
  <1>5. \A k \in 0 .. n : h[k] = IF k = 0 THEN 0 ELSE h[k - 1] * b + d[n - k]
    <2> SUFFICES ASSUME NEW k \in 0 .. n, k # 0 PROVE h[k] = h[k - 1] * b + d[n - k]
      BY <1>3 DEF Solves
    <2>1. k \in Nat \ {0} /\ k \in 1 .. n /\ k - 1 \in 0 .. n
      OBVIOUS
    <2>2. h[k] = f[k] /\ h[k - 1] = f[k - 1]
      BY <2>1
    <2> HIDE DEF h
    <2> QED BY <1>2, <1>4, <2>1, <2>2
  <1>6. h = [k \in 0 .. n |-> h[k]]
    OBVIOUS
  <1> HIDE DEF h
  <1>7. P(h)
    BY <1>5, <1>6
  <1>8. P(p)
    <2> HIDE DEF P
    <2> QED BY <1>7, Zenon
  <1> HIDE DEF p
  <1>9. p[0] = 0 /\ \A k \in 1 .. n : p[k] = p[k - 1] * b + d[n - k]
    <2>1. \A k \in 0 .. n : p[k] = IF k = 0 THEN 0 ELSE p[k - 1] * b + d[n - k]
      BY <1>8
    <2>2. 0 \in 0 .. n /\ \A k \in 1 .. n : k \in 0 .. n /\ k # 0
      OBVIOUS
    <2> HIDE DEF P
    <2> QED BY <2>1, <2>2
  <1> QED BY <1>1, <1>9, Zenon

LEMMA TimesPlus ==
    ASSUME NEW b \in Nat
    PROVE  \A p \in Nat, q \in Nat : p * b \in Nat /\ p * b + q \in Nat
  OBVIOUS

LEMMA Distribute ==
    ASSUME NEW b \in Nat
    PROVE  \A p \in Nat, q \in Nat : p * b + q * b = (p + q) * b
  OBVIOUS

LEMMA Remainder ==
    ASSUME NEW b \in Nat \ {0}
    PROVE  \A x \in Nat : x = (x \div b) * b + (x % b) /\ x % b \in 0 .. b - 1
  OBVIOUS

LEMMA DigitStep ==
    ASSUME NEW b \in Nat \ {0}, NEW p \in Nat, NEW x \in Nat, x < p, NEW c \in 0 .. b - 1
    PROVE  x * b + c < b * p /\ x * b + c \in Nat
  <1>1. p - x - 1 \in Nat
    OBVIOUS
  <1>2. b * p = x * b + b + (p - x - 1) * b
    OBVIOUS
  <1>3. (p - x - 1) * b \in Nat /\ x * b \in Nat
    BY <1>1
  <1> QED BY <1>2, <1>3

LEMMA ShiftStep ==
    ASSUME NEW b \in Nat \ {0}, NEW p \in Nat, NEW x \in Nat, x < b * p
    PROVE  x \div b < p /\ x = (x \div b) * b + (x % b) /\ x % b \in 0 .. b - 1
  <1> DEFINE q == x \div b
             r == x % b
  <1>1. x = q * b + r /\ r \in 0 .. b - 1 /\ q \in Nat
    OBVIOUS
  <1> HIDE DEF q, r
  <1>2. SUFFICES q < p
    BY <1>1 DEF q, r
  <1>3. SUFFICES ASSUME q >= p PROVE FALSE
    BY <1>1
  <1>4. q - p \in Nat /\ q * b = b * p + (q - p) * b
    BY <1>1, <1>3
  <1>5. (q - p) * b \in Nat /\ b * p \in Nat
    BY <1>4
  <1> QED BY <1>1, <1>4, <1>5

\* n digits make a number below the n-th power of the base.
LEMMA DigitsBound ==
    ASSUME NEW n \in Nat, NEW b \in Nat \ {0}, NEW d \in [0 .. n - 1 -> 0 .. b - 1]
    PROVE  FromDigits(d, b, n) \in Nat /\ FromDigits(d, b, n) < Power(b, n)
  <1>0. d \in [0 .. n - 1 -> Nat] /\ b \in Nat
    OBVIOUS
  <1>1. PICK w : /\ FromDigits(d, b, n) = w[n]
                 /\ w[0] = 0
                 /\ \A k \in 1 .. n : w[k] = w[k - 1] * b + d[n - k]
    BY <1>0, DigitsIs
  <1> DEFINE T == {k \in Nat : k <= n => w[k] \in Nat /\ w[k] < Power(b, k)}
  <1>2. 0 \in T
    <2>1. Power(b, 0) = 1
      BY <1>0, PowerIs
    <2> QED BY <1>1, <2>1
  <1>3. ASSUME NEW k \in Nat, k \in T PROVE k + 1 \in T
    <2> SUFFICES ASSUME k + 1 <= n
                 PROVE  w[k + 1] \in Nat /\ w[k + 1] < Power(b, k + 1)
      OBVIOUS
    <2>1. k + 1 \in 1 .. n /\ (k + 1) - 1 = k /\ n - (k + 1) \in 0 .. n - 1 /\ k <= n
      OBVIOUS
    <2>2. w[k + 1] = w[k] * b + d[n - (k + 1)] /\ d[n - (k + 1)] \in 0 .. b - 1
      BY <1>1, <2>1
    <2>3. w[k] \in Nat /\ w[k] < Power(b, k)
      BY <1>3, <2>1
    <2>4. Power(b, k) \in Nat /\ Power(b, k + 1) = b * Power(b, k)
      BY PowerIs
    <2> QED BY <2>2, <2>3, <2>4, DigitStep
  <1> HIDE DEF T
  <1>4. \A k \in Nat : k \in T
    BY <1>2, <1>3, Induction
  <1> QED BY <1>1, <1>4 DEF T

\* A number is put together again from its digits.
LEMMA DigitsJoin ==
    ASSUME NEW n \in Nat, NEW b \in Nat \ {0}, NEW u \in Nat, u < Power(b, n)
    PROVE  /\ [i \in 0 .. n - 1 |-> Digit(u, b, i)] \in [0 .. n - 1 -> 0 .. b - 1]
           /\ FromDigits([i \in 0 .. n - 1 |-> Digit(u, b, i)], b, n) = u
  <1> DEFINE d == [i \in 0 .. n - 1 |-> Digit(u, b, i)]
             S(k) == ShiftedRight(u, b, k)
  <1>1. S(0) = u /\ \A k \in Nat : S(k) \in Nat /\ S(k + 1) = S(k) \div b
    BY ShiftIs
  <1> HIDE DEF S
  <1>2. \A i \in 0 .. n - 1 : d[i] = S(i) % b
    BY DEF Digit, S
  <1>3. \A x \in Nat : x % b \in 0 .. b - 1
    OBVIOUS
  <1>4. d \in [0 .. n - 1 -> 0 .. b - 1] /\ d \in [0 .. n - 1 -> Nat]
    <2>1. ASSUME NEW i \in 0 .. n - 1 PROVE d[i] \in 0 .. b - 1
      <3>1. i \in Nat
        OBVIOUS
      <3> HIDE DEF d
      <3> QED BY <1>1, <1>2, <1>3, <3>1
    <2> QED BY <2>1
  <1>5. S(n) = 0
    <2> DEFINE T == {k \in Nat : k <= n => S(k) < Power(b, n - k)}
    <2>1. 0 \in T
      BY <1>1
    <2>2. ASSUME NEW k \in Nat, k \in T PROVE k + 1 \in T
      <3> SUFFICES ASSUME k + 1 <= n PROVE S(k + 1) < Power(b, n - (k + 1))
        OBVIOUS
      <3>1. k <= n /\ n - (k + 1) \in Nat /\ (n - (k + 1)) + 1 = n - k
        OBVIOUS
      <3>2. Power(b, n - (k + 1)) \in Nat /\ Power(b, n - k) = b * Power(b, n - (k + 1))
        BY <3>1, PowerIs
      <3>3. S(k) < b * Power(b, n - (k + 1)) /\ S(k) \in Nat
        BY <1>1, <2>2, <3>1, <3>2
      <3>4. S(k) \div b < Power(b, n - (k + 1))
        BY <3>2, <3>3, ShiftStep
      <3> QED BY <1>1, <3>4
    <2> HIDE DEF T
    <2>3. \A k \in Nat : k \in T
      BY <2>1, <2>2, Induction
    <2>4. S(n) < Power(b, 0) /\ S(n) \in Nat
      BY <1>1, <2>3 DEF T
    <2> QED BY <2>4, PowerIs
  <1> HIDE DEF d
  <1>6. PICK w : /\ FromDigits(d, b, n) = w[n]
                 /\ w[0] = 0
                 /\ \A k \in 1 .. n : w[k] = w[k - 1] * b + d[n - k]
    BY <1>4, DigitsIs
  <1> DEFINE T == {k \in Nat : k <= n => w[k] = S(n - k)}
  <1>7. 0 \in T
    BY <1>5, <1>6
  <1>8. ASSUME NEW k \in Nat, k \in T PROVE k + 1 \in T
    <2> SUFFICES ASSUME k + 1 <= n PROVE w[k + 1] = S(n - (k + 1))
      OBVIOUS
    <2> DEFINE j == n - (k + 1)
    <2>1. /\ k + 1 \in 1 .. n /\ (k + 1) - 1 = k /\ k <= n
          /\ j \in 0 .. n - 1 /\ j \in Nat /\ j + 1 = n - k
      OBVIOUS
    <2>2. w[k + 1] = w[k] * b + d[j]
      BY <1>6, <2>1
    <2>3. w[k] = S(n - k)
      BY <1>8, <2>1
    <2> HIDE DEF j
    <2>4. w[k] = S(j) \div b /\ d[j] = S(j) % b /\ S(j) \in Nat
      BY <1>1, <1>2, <2>1, <2>3
    <2>5. S(j) = (S(j) \div b) * b + (S(j) % b)
      BY <2>4, Remainder
    <2> QED BY <2>2, <2>4, <2>5 DEF j
  <1> HIDE DEF T
  <1>9. \A k \in Nat : k \in T
    BY <1>7, <1>8, Induction
  <1>10. w[n] = S(0)
    BY <1>9 DEF T
  <1> QED BY <1>1, <1>4, <1>6, <1>10 DEF d

\* Digits that add up make numbers that add up.
AddUp(n, x, y, s, t) ==
    /\ x \in [0 .. n - 1 -> Nat] /\ y \in [0 .. n - 1 -> Nat]
    /\ s \in [0 .. n - 1 -> Nat] /\ t \in [0 .. n - 1 -> Nat]
    /\ \A i \in 0 .. n - 1 : x[i] + y[i] = s[i] + t[i]

LEMMA DigitsAdd ==
    ASSUME NEW n \in Nat, NEW b \in Nat \ {0}, NEW x, NEW y, NEW s, NEW t,
           AddUp(n, x, y, s, t)
    PROVE  FromDigits(x, b, n) + FromDigits(y, b, n)
              = FromDigits(s, b, n) + FromDigits(t, b, n)
  <1>0. /\ x \in [0 .. n - 1 -> Nat] /\ y \in [0 .. n - 1 -> Nat]
        /\ s \in [0 .. n - 1 -> Nat] /\ t \in [0 .. n - 1 -> Nat]
        /\ \A i \in 0 .. n - 1 : x[i] + y[i] = s[i] + t[i]
    BY Zenon DEF AddUp
  <1> DEFINE Sums(w, d) == w[0] = 0 /\ \A k \in 1 .. n : w[k] = w[k - 1] * b + d[n - k]
  <1>1. PICK wx : FromDigits(x, b, n) = wx[n] /\ Sums(wx, x)
    BY <1>0, DigitsIs, Zenon
  <1>2. PICK wy : FromDigits(y, b, n) = wy[n] /\ Sums(wy, y)
    BY <1>0, DigitsIs, Zenon
  <1>3. PICK ws : FromDigits(s, b, n) = ws[n] /\ Sums(ws, s)
    BY <1>0, DigitsIs, Zenon
  <1>4. PICK wt : FromDigits(t, b, n) = wt[n] /\ Sums(wt, t)
    BY <1>0, DigitsIs, Zenon
  <1> DEFINE T == {k \in Nat : k <= n =>
                      /\ wx[k] \in Nat /\ wy[k] \in Nat /\ ws[k] \in Nat /\ wt[k] \in Nat
                      /\ wx[k] + wy[k] = ws[k] + wt[k]}
  <1>5. 0 \in T
    BY <1>1, <1>2, <1>3, <1>4
  <1>6. ASSUME NEW k \in Nat, k \in T PROVE k + 1 \in T
    <2>0. CASE ~(k + 1 <= n)
      BY <2>0
    <2>1. CASE k + 1 <= n
      <3> DEFINE j == n - (k + 1)
      <3>1. k + 1 \in 1 .. n /\ (k + 1) - 1 = k /\ k <= n /\ j \in 0 .. n - 1
        BY <2>1
      <3>2. /\ wx[k + 1] = wx[k] * b + x[j] /\ wy[k + 1] = wy[k] * b + y[j]
            /\ ws[k + 1] = ws[k] * b + s[j] /\ wt[k + 1] = wt[k] * b + t[j]
        BY <1>1, <1>2, <1>3, <1>4, <3>1
      <3>3. /\ wx[k] \in Nat /\ wy[k] \in Nat /\ ws[k] \in Nat /\ wt[k] \in Nat
            /\ wx[k] + wy[k] = ws[k] + wt[k]
        BY <1>6, <3>1
      <3> HIDE DEF j
      <3>4. /\ x[j] \in Nat /\ y[j] \in Nat /\ s[j] \in Nat /\ t[j] \in Nat
            /\ x[j] + y[j] = s[j] + t[j]
        BY <1>0, <3>1
      <3>5. wx[k] * b + wy[k] * b = ws[k] * b + wt[k] * b
        <4>1. \A p \in Nat, q \in Nat : p * b + q * b = (p + q) * b
          BY Distribute
        <4>2. /\ wx[k] * b + wy[k] * b = (wx[k] + wy[k]) * b
              /\ ws[k] * b + wt[k] * b = (ws[k] + wt[k]) * b
          BY <3>3, <4>1, Zenon
        <4> QED BY <3>3, <4>2, Zenon
      <3>6. \A p \in Nat, q \in Nat : p * b \in Nat /\ p * b + q \in Nat
        BY TimesPlus
      <3>7. /\ wx[k] * b \in Nat /\ wy[k] * b \in Nat /\ ws[k] * b \in Nat /\ wt[k] * b \in Nat
            /\ wx[k] * b + x[j] \in Nat /\ wy[k] * b + y[j] \in Nat
            /\ ws[k] * b + s[j] \in Nat /\ wt[k] * b + t[j] \in Nat
        BY <3>3, <3>4, <3>6, Zenon
      <3>8. (wx[k] * b + x[j]) + (wy[k] * b + y[j]) = (ws[k] * b + s[j]) + (wt[k] * b + t[j])
        <4> DEFINE A == wx[k] * b
                   B == wy[k] * b
                   C == ws[k] * b
                   D == wt[k] * b
        <4>1. A \in Nat /\ B \in Nat /\ C \in Nat /\ D \in Nat /\ A + B = C + D
          BY <3>5, <3>7, Zenon
        <4> HIDE DEF A, B, C, D
        <4>2. (A + x[j]) + (B + y[j]) = (C + s[j]) + (D + t[j])
          <5> DEFINE X == x[j]
                     Y == y[j]
                     S == s[j]
                     U == t[j]
          <5>1. X \in Nat /\ Y \in Nat /\ S \in Nat /\ U \in Nat /\ X + Y = S + U
            BY <3>4, Zenon
          <5> HIDE DEF X, Y, S, U
          <5>2. (A + X) + (B + Y) = (C + S) + (D + U)
            BY ONLY <4>1, <5>1, SMT
          <5> QED BY <5>2, Zenon DEF X, Y, S, U
        <4> QED BY <4>2, Zenon DEF A, B, C, D
      <3>9. /\ wx[k + 1] \in Nat /\ wy[k + 1] \in Nat /\ ws[k + 1] \in Nat /\ wt[k + 1] \in Nat
            /\ wx[k + 1] + wy[k + 1] = ws[k + 1] + wt[k + 1]
        BY <3>2, <3>7, <3>8, Zenon
      <3> QED BY <3>9
    <2> QED BY <2>0, <2>1
  <1> HIDE DEF T
  <1>7. \A k \in Nat : k \in T
    BY <1>5, <1>6, Induction
  <1>8. wx[n] + wy[n] = ws[n] + wt[n]
    BY <1>7 DEF T
  <1> QED BY <1>1, <1>2, <1>3, <1>4, <1>8

-------------------------------------------------------------------------------
(* Words.                                                                    *)

LEMMA WordCasts ==
    /\ \A x \in Words : /\ Unsigned(x) \in Nat /\ Unsigned(x) < 2 * Half
                        /\ wrapU64ToI64(Unsigned(x)) = x
    /\ \A u \in Nat : u < 2 * Half => /\ wrapU64ToI64(u) \in Words
                                      /\ Unsigned(wrapU64ToI64(u)) = u
  BY WidthAssumption DEF Words, MinWord, MaxWord, Unsigned, wrapU64ToI64

\* The bits of a word as digits.
LEMMA BitDigits ==
    ASSUME NEW x \in Words
    PROVE  LET d == [i \in 0 .. Bits - 1 |-> IF Bit(x, i) THEN 1 ELSE 0]
           IN /\ d \in [0 .. Bits - 1 -> 0 .. 1]
              /\ FromDigits(d, 2, Bits) = Unsigned(x)
  <1> DEFINE d == [i \in 0 .. Bits - 1 |-> IF Bit(x, i) THEN 1 ELSE 0]
             e == [i \in 0 .. Bits - 1 |-> Digit(Unsigned(x), 2, i)]
  <1>1. Unsigned(x) \in Nat /\ Unsigned(x) < Power(2, Bits) /\ Bits \in Nat
    BY WordCasts, HalfAssumption, WidthAssumption
  <1>2. e \in [0 .. Bits - 1 -> 0 .. 2 - 1] /\ FromDigits(e, 2, Bits) = Unsigned(x)
    <2>1. 2 \in Nat \ {0}
      OBVIOUS
    <2> QED BY <1>1, <2>1, DigitsJoin, Zenon
  <1>3. \A i \in 0 .. Bits - 1 : Digit(Unsigned(x), 2, i) \in {0, 1}
    <2> TAKE i \in 0 .. Bits - 1
    <2>1. e[i] = Digit(Unsigned(x), 2, i)
      OBVIOUS
    <2> HIDE DEF e
    <2> QED BY <1>2, <2>1
  <1>4. \A i \in 0 .. Bits - 1 :
           (IF Bit(x, i) THEN 1 ELSE 0) = Digit(Unsigned(x), 2, i)
    BY <1>3 DEF Bit
  <1>5. d = e
    BY <1>4
  <1>6. e \in [0 .. Bits - 1 -> 0 .. 1]
    <2> HIDE DEF e
    <2> QED BY <1>2
  <1> QED BY <1>2, <1>5, <1>6, Zenon

\* What FromBits computes before the cast.
BitValue(ones) == FromDigits([i \in 0 .. Bits - 1 |-> IF i \in ones THEN 1 ELSE 0], 2, Bits)

LEMMA FromBitsIs ==
    ASSUME NEW ones
    PROVE  /\ BitValue(ones) \in Nat /\ BitValue(ones) < 2 * Half
           /\ FromBits(ones) = makeResult(wrapU64ToI64(BitValue(ones)), FALSE, FALSE)
           /\ FromBits(ones).value = wrapU64ToI64(BitValue(ones))
           /\ FromBits(ones).value \in Words
  <1> DEFINE d == [i \in 0 .. Bits - 1 |-> IF i \in ones THEN 1 ELSE 0]
  <1>1. d \in [0 .. Bits - 1 -> 0 .. 2 - 1] /\ Bits \in Nat /\ 2 \in Nat \ {0}
    BY WidthAssumption
  <1>2. FromDigits(d, 2, Bits) \in Nat /\ FromDigits(d, 2, Bits) < Power(2, Bits)
    <2> HIDE DEF d
    <2> QED BY <1>1, DigitsBound, Zenon
  <1>3. BitValue(ones) \in Nat /\ BitValue(ones) < 2 * Half
    BY <1>2, HalfAssumption DEF BitValue
  <1>4. FromBits(ones) = makeResult(wrapU64ToI64(BitValue(ones)), FALSE, FALSE)
    BY Zenon DEF FromBits, BitValue
  <1>5. FromBits(ones).value = wrapU64ToI64(BitValue(ones))
    BY <1>4 DEF makeResult
  <1> QED BY <1>3, <1>4, <1>5, WordCasts

LEMMA WordBits ==
    ASSUME NEW x \in Words
    PROVE  BitValue({i \in 0 .. Bits - 1 : Bit(x, i)}) = Unsigned(x)
  <1>1. [i \in 0 .. Bits - 1 |-> IF i \in {j \in 0 .. Bits - 1 : Bit(x, j)} THEN 1 ELSE 0]
          = [i \in 0 .. Bits - 1 |-> IF Bit(x, i) THEN 1 ELSE 0]
    OBVIOUS
  <1> QED BY <1>1, BitDigits DEF BitValue

\* Bit sets that count each position equally often have equal sums.
LEMMA BitValuesAdd ==
    ASSUME NEW A, NEW B, NEW C, NEW D,
           \A i \in 0 .. Bits - 1 :
              (IF i \in A THEN 1 ELSE 0) + (IF i \in B THEN 1 ELSE 0)
                 = (IF i \in C THEN 1 ELSE 0) + (IF i \in D THEN 1 ELSE 0)
    PROVE  BitValue(A) + BitValue(B) = BitValue(C) + BitValue(D)
  <1> DEFINE x == [i \in 0 .. Bits - 1 |-> IF i \in A THEN 1 ELSE 0]
             y == [i \in 0 .. Bits - 1 |-> IF i \in B THEN 1 ELSE 0]
             s == [i \in 0 .. Bits - 1 |-> IF i \in C THEN 1 ELSE 0]
             t == [i \in 0 .. Bits - 1 |-> IF i \in D THEN 1 ELSE 0]
  <1>1. /\ x \in [0 .. Bits - 1 -> Nat] /\ y \in [0 .. Bits - 1 -> Nat]
        /\ s \in [0 .. Bits - 1 -> Nat] /\ t \in [0 .. Bits - 1 -> Nat]
    OBVIOUS
  <1>2. \A i \in 0 .. Bits - 1 : x[i] + y[i] = s[i] + t[i]
    OBVIOUS
  <1>3. Bits \in Nat /\ 2 \in Nat \ {0}
    BY WidthAssumption
  <1>4. /\ BitValue(A) = FromDigits(x, 2, Bits) /\ BitValue(B) = FromDigits(y, 2, Bits)
        /\ BitValue(C) = FromDigits(s, 2, Bits) /\ BitValue(D) = FromDigits(t, 2, Bits)
    BY Zenon DEF BitValue
  <1> HIDE DEF x, y, s, t
  <1>5. FromDigits(x, 2, Bits) + FromDigits(y, 2, Bits)
           = FromDigits(s, 2, Bits) + FromDigits(t, 2, Bits)
    <2>1. AddUp(Bits, x, y, s, t)
      BY <1>1, <1>2, Zenon DEF AddUp
    <2>2. \A n \in Nat : \A b \in Nat \ {0} :
             AddUp(n, x, y, s, t) => FromDigits(x, b, n) + FromDigits(y, b, n)
                                       = FromDigits(s, b, n) + FromDigits(t, b, n)
      BY DigitsAdd
    <2> QED BY ONLY <1>3, <2>1, <2>2
  <1> QED BY <1>4, <1>5, Zenon

\* No bits make 0 and all of them the largest unsigned number.
LEMMA BitEnds == BitValue({}) = 0 /\ BitValue(0 .. Bits - 1) = 2 * Half - 1
  <1>1. Bits \in Nat /\ Half \in Nat \ {0}
    BY WidthAssumption
  <1> DEFINE zeros == [i \in 0 .. Bits - 1 |-> IF i \in {} THEN 1 ELSE 0]
             ones == [i \in 0 .. Bits - 1 |-> IF i \in 0 .. Bits - 1 THEN 1 ELSE 0]
  <1>4. BitValue({}) = 0
    <2>1. zeros \in [0 .. Bits - 1 -> Nat] /\ \A i \in 0 .. Bits - 1 : zeros[i] = 0
      OBVIOUS
    <2>2. 2 \in Nat \ {0}
      OBVIOUS
    <2> HIDE DEF zeros
    <2>3. PICK w : /\ FromDigits(zeros, 2, Bits) = w[Bits]
                   /\ w[0] = 0
                   /\ \A k \in 1 .. Bits : w[k] = w[k - 1] * 2 + zeros[Bits - k]
      BY <1>1, <2>1, <2>2, DigitsIs
    <2> DEFINE T == {k \in Nat : k <= Bits => w[k] = 0}
    <2>4. 0 \in T
      BY <2>3
    <2>5. ASSUME NEW k \in Nat, k \in T PROVE k + 1 \in T
      <3>1. CASE k + 1 <= Bits
        <4>1. k + 1 \in 1 .. Bits /\ (k + 1) - 1 = k /\ Bits - (k + 1) \in 0 .. Bits - 1 /\ k <= Bits
          BY <1>1, <3>1
        <4>2. w[k + 1] = w[k] * 2 + zeros[Bits - (k + 1)]
          BY <2>3, <4>1
        <4> QED BY <2>1, <2>5, <4>1, <4>2
      <3>2. CASE ~(k + 1 <= Bits)
        BY <3>2
      <3> QED BY <3>1, <3>2
    <2> HIDE DEF T
    <2>6. \A k \in Nat : k \in T
      BY <2>4, <2>5, Induction
    <2>7. w[Bits] = 0
      BY <1>1, <2>6 DEF T
    <2> QED BY <2>3, <2>7, Zenon DEF BitValue, zeros
  <1>5. BitValue(0 .. Bits - 1) = 2 * Half - 1
    <2>1. ones \in [0 .. Bits - 1 -> Nat] /\ \A i \in 0 .. Bits - 1 : ones[i] = 1
      OBVIOUS
    <2>2. 2 \in Nat \ {0} /\ 2 \in Nat
      OBVIOUS
    <2> HIDE DEF ones
    <2>3. PICK w : /\ FromDigits(ones, 2, Bits) = w[Bits]
                   /\ w[0] = 0
                   /\ \A k \in 1 .. Bits : w[k] = w[k - 1] * 2 + ones[Bits - k]
      BY <1>1, <2>1, <2>2, DigitsIs
    <2> DEFINE T == {k \in Nat : k <= Bits => w[k] = Power(2, k) - 1}
    <2>4. 0 \in T
      <3>1. Power(2, 0) = 1
        BY <2>2, PowerIs
      <3> QED BY <2>3, <3>1
    <2>5. ASSUME NEW k \in Nat, k \in T PROVE k + 1 \in T
      <3>1. CASE k + 1 <= Bits
        <4>1. k + 1 \in 1 .. Bits /\ (k + 1) - 1 = k /\ Bits - (k + 1) \in 0 .. Bits - 1 /\ k <= Bits
          BY <1>1, <3>1
        <4>2. w[k + 1] = w[k] * 2 + 1
          BY <2>1, <2>3, <4>1
        <4>3. Power(2, k) \in Nat /\ Power(2, k + 1) = 2 * Power(2, k)
          BY <2>2, PowerIs
        <4>4. w[k] = Power(2, k) - 1
          BY <2>5, <4>1
        <4>5. w[k + 1] = Power(2, k + 1) - 1
          BY <4>2, <4>3, <4>4
        <4> QED BY <4>5
      <3>2. CASE ~(k + 1 <= Bits)
        BY <3>2
      <3> QED BY <3>1, <3>2
    <2> HIDE DEF T
    <2>6. \A k \in Nat : k \in T
      BY <2>4, <2>5, Induction
    <2>7. w[Bits] = 2 * Half - 1
      BY <1>1, <2>6, HalfAssumption DEF T
    <2> QED BY <2>3, <2>7, Zenon DEF BitValue, ones
  <1> QED BY <1>4, <1>5

-------------------------------------------------------------------------------
(* The operations of the ALU.                                                *)

\* The flags that subtraction leaves order the operands as signed numbers.
LEMMA SubtractionCompares ==
    ASSUME NEW l \in Words, NEW r \in Words
    PROVE  /\ signedLessThanFromFlags(sub(l, r)) <=> l < r
           /\ signedGreaterThanFromFlags(sub(l, r)) <=> l > r
           /\ sub(l, r).zero <=> l = r
  <1>1. /\ Half \in Nat \ {0}
        /\ l \in Int /\ -Half <= l /\ l < Half
        /\ r \in Int /\ -Half <= r /\ r < Half
    BY WidthAssumption DEF Words, MinWord, MaxWord
  <1> DEFINE u == IF Unsigned(l) < Unsigned(r)
                  THEN Unsigned(l) - Unsigned(r) + 2 * Half
                  ELSE Unsigned(l) - Unsigned(r)
             v == wrapU64ToI64(u)
  <1>2. v = IF l - r >= Half THEN l - r - 2 * Half
            ELSE IF l - r < -Half THEN l - r + 2 * Half ELSE l - r
    BY <1>1 DEF Unsigned, wrapU64ToI64
  <1>3. subSignedOverflow(l, r) <=> (l - r >= Half \/ l - r < -Half)
    BY <1>1 DEF subSignedOverflow, MinWord, MaxWord
  <1>4. sub(l, r) = [value |-> v, zero |-> v = 0, sign |-> v < 0,
                     carry |-> Unsigned(l) < Unsigned(r),
                     overflow |-> subSignedOverflow(l, r)]
    BY DEF sub, makeResult
  <1>5. /\ sub(l, r).zero = (v = 0)
        /\ sub(l, r).sign = (v < 0)
        /\ sub(l, r).overflow = subSignedOverflow(l, r)
    BY <1>4
  <1> HIDE DEF v
  <1>6. v < 0 <=> IF subSignedOverflow(l, r) THEN l > r ELSE l < r
    BY <1>1, <1>2, <1>3
  <1>7. v = 0 <=> l = r
    BY <1>1, <1>2
  <1>8. subSignedOverflow(l, r) => l # r
    BY <1>1, <1>3
  <1>9. subSignedOverflow(l, r) \in BOOLEAN
    BY DEF subSignedOverflow
  <1>10. ((v < 0) # subSignedOverflow(l, r)) <=> l < r
    BY <1>1, <1>6, <1>8, <1>9
  <1>11. (v # 0 /\ (v < 0) = subSignedOverflow(l, r)) <=> l > r
    BY <1>1, <1>6, <1>7, <1>8, <1>9
  <1> QED
    BY <1>5, <1>7, <1>10, <1>11
       DEF signedLessThanFromFlags, signedGreaterThanFromFlags

\* The carry of a sum, and the borrow of a difference.
LEMMA CarryOut ==
    ASSUME NEW l \in Words, NEW r \in Words
    PROVE  /\ add(l, r).carry <=> Unsigned(l) + Unsigned(r) >= 2 * Half
           /\ sub(l, r).carry <=> Unsigned(l) < Unsigned(r)
  <1>1. /\ Half \in Nat \ {0}
        /\ l \in Int /\ -Half <= l /\ l < Half
        /\ r \in Int /\ -Half <= r /\ r < Half
    BY WidthAssumption DEF Words, MinWord, MaxWord
  <1>2. /\ Unsigned(l) \in 0 .. 2 * Half - 1
        /\ Unsigned(r) \in 0 .. 2 * Half - 1
    BY <1>1 DEF Unsigned
  <1> DEFINE s == IF Unsigned(l) + Unsigned(r) >= 2 * Half
                  THEN Unsigned(l) + Unsigned(r) - 2 * Half
                  ELSE Unsigned(l) + Unsigned(r)
  <1>3. add(l, r).carry = (s < Unsigned(l))
    BY DEF add, makeResult
  <1>4. s < Unsigned(l) <=> Unsigned(l) + Unsigned(r) >= 2 * Half
    BY <1>1, <1>2
  <1>5. sub(l, r).carry = (Unsigned(l) < Unsigned(r))
    BY DEF sub, makeResult
  <1> QED
    BY <1>3, <1>4, <1>5

LEMMA MultiplesVanish ==
    ASSUME NEW d \in Nat \ {0}
    PROVE  0 % d = 0 /\ d % d = 0 /\ (-d) % d = 0
  OBVIOUS

\* The value of a sum or difference is the true one less, or plus, 2 * Half
\* when that is not a word.
LEMMA SumsAreExact ==
    ASSUME NEW l \in Words, NEW r \in Words
    PROVE  /\ add(l, r).overflow <=> l + r \notin Words
           /\ (add(l, r).value - (l + r)) % (2 * Half) = 0
           /\ sub(l, r).overflow <=> l - r \notin Words
           /\ (sub(l, r).value - (l - r)) % (2 * Half) = 0
  <1>1. /\ Half \in Nat \ {0}
        /\ l \in Int /\ -Half <= l /\ l < Half
        /\ r \in Int /\ -Half <= r /\ r < Half
    BY WidthAssumption DEF Words, MinWord, MaxWord
  <1>2. \A d \in {0, 2 * Half, -(2 * Half)} : d % (2 * Half) = 0
    BY <1>1, MultiplesVanish
  <1>3. /\ add(l, r).overflow = addSignedOverflow(l, r)
        /\ sub(l, r).overflow = subSignedOverflow(l, r)
    BY DEF add, sub, makeResult
  <1>4. add(l, r).value - (l + r) \in {0, 2 * Half, -(2 * Half)}
    BY <1>1 DEF add, makeResult, Unsigned, wrapU64ToI64
  <1>5. sub(l, r).value - (l - r) \in {0, 2 * Half, -(2 * Half)}
    BY <1>1 DEF sub, makeResult, Unsigned, wrapU64ToI64
  <1>6. addSignedOverflow(l, r) <=> l + r \notin Words
    BY <1>1 DEF addSignedOverflow, Words, MinWord, MaxWord
  <1>7. subSignedOverflow(l, r) <=> l - r \notin Words
    BY <1>1 DEF subSignedOverflow, Words, MinWord, MaxWord
  <1> QED
    BY <1>2, <1>3, <1>4, <1>5, <1>6, <1>7

\* Truncating division of two magnitudes.
LEMMA DivisionRemainder ==
    ASSUME NEW n \in Nat, NEW d \in Nat \ {0}
    PROVE  /\ n \div d \in 0 .. n
           /\ n - (n \div d) * d \in 0 .. d - 1
  OBVIOUS

\* What div leaves: a word, and a remainder below the divisor on the side of
\* the dividend.
LEMMA DivisionTruncates ==
    ASSUME NEW l \in Words, NEW r \in Words, Divides(l, r)
    PROVE  LET remainder == l - div(l, r).value * r
               size == IF remainder < 0 THEN -remainder ELSE remainder
           IN /\ div(l, r).value \in Words
              /\ size < IF r < 0 THEN -r ELSE r
              /\ remainder # 0 => (remainder < 0) = (l < 0)
  <1>1. /\ Half \in Nat \ {0}
        /\ l \in Int /\ -Half <= l /\ l < Half
        /\ r \in Int /\ -Half <= r /\ r < Half
        /\ r # 0
        /\ ~(l = -Half /\ r = -1)
    BY WidthAssumption DEF Words, MinWord, MaxWord, Divides
  <1> DEFINE n == IF l < 0 THEN -l ELSE l
             d == IF r < 0 THEN -r ELSE r
             q == n \div d
             m == n - q * d
  <1>2. /\ n \in Nat /\ n <= Half
        /\ d \in Nat \ {0} /\ d <= Half
        /\ l = IF l < 0 THEN -n ELSE n
        /\ r = IF r < 0 THEN -d ELSE d
    BY <1>1
  <1>3. div(l, r).value = IF (l < 0) = (r < 0) THEN q ELSE -q
    BY DEF div, makeResult, Quotient
  <1> HIDE DEF n, d
  <1>4. q \in 0 .. n /\ m \in 0 .. d - 1
    BY <1>2, DivisionRemainder
  <1>5. q = Half => l = -Half /\ d = 1
    BY <1>1, <1>2, <1>4
  <1> HIDE DEF q
  <1>6. div(l, r).value * r = IF l < 0 THEN -(q * d) ELSE q * d
    BY <1>1, <1>2, <1>3, <1>4
  <1>7. div(l, r).value \in Words
    BY <1>1, <1>2, <1>3, <1>4, <1>5 DEF Words, MinWord, MaxWord
  <1>8. q * d \in Int
    BY <1>2, <1>4
  <1>9. l - div(l, r).value * r = IF l < 0 THEN -m ELSE m
    BY <1>1, <1>2, <1>6, <1>8
  <1> HIDE DEF m
  <1> QED
    BY <1>1, <1>2, <1>4, <1>7, <1>9 DEF d

LEMMA Least ==
    ASSUME NEW S \in SUBSET Nat, S # {}
    PROVE  Min(S) \in S /\ \A y \in S : Min(S) <= y
  <1>1. PICK x \in S : \A y \in S : ~(<<y, x>> \in OpToRel(<, Nat))
    BY NatLessThanWellFounded, WFMin
  <1>2. \A y \in S : x <= y
    <2> TAKE y \in S
    <2>1. x \in Nat /\ y \in Nat
      OBVIOUS
    <2>2. ~(y < x)
      BY <1>1, <2>1 DEF OpToRel
    <2> QED
      BY <2>1, <2>2
  <1> QED
    BY <1>2 DEF Min

\* Powers of two grow.
LEMMA PowersGrow ==
    ASSUME NEW m \in Nat
    PROVE  /\ \A n \in Nat : Power(2, n) \in Nat /\ Power(2, n) >= 1
           /\ \A k \in Nat : Power(2, m + k) >= Power(2, m)
  <1>1. /\ Power(2, 0) = 1
        /\ \A n \in Nat : Power(2, n) \in Nat /\ Power(2, n + 1) = 2 * Power(2, n)
    BY PowerIs
  <1> DEFINE T == {n \in Nat : Power(2, n) >= 1}
             U == {k \in Nat : Power(2, m + k) >= Power(2, m)}
  <1>2. 0 \in T /\ \A n \in Nat : n \in T => n + 1 \in T
    BY <1>1
  <1>3. 0 \in U
    BY <1>1
  <1>4. ASSUME NEW k \in Nat, k \in U PROVE k + 1 \in U
    <2>1. m + k \in Nat /\ m + (k + 1) = (m + k) + 1
      OBVIOUS
    <2>2. Power(2, m + (k + 1)) = 2 * Power(2, m + k) /\ Power(2, m + k) \in Nat
      BY <1>1, <2>1
    <2>3. Power(2, m + k) >= Power(2, m) /\ Power(2, m) \in Nat
      BY <1>1, <1>4
    <2>4. Power(2, m + (k + 1)) >= Power(2, m)
      BY <2>2, <2>3
    <2> QED
      BY <2>4
  <1> HIDE DEF T, U
  <1>5. \A n \in Nat : n \in T
    BY <1>2, Induction
  <1>6. \A k \in Nat : k \in U
    BY <1>3, <1>4, Induction
  <1> QED
    BY <1>1, <1>5, <1>6 DEF T, U

\* A long double holds every number of Mantissa bits.
LEMMA LongDoubleExact ==
    ASSUME NEW x \in Int, -Power(2, Mantissa) < x, x < Power(2, Mantissa)
    PROVE  LongDouble(x) = x
  <1> DEFINE n == IF x < 0 THEN -x ELSE x
             S == {k \in 0 .. 2 * Bits : n \div Power(2, k) < Power(2, Mantissa)}
  <1>1. n \in Nat /\ n < Power(2, Mantissa)
    BY MantissaAssumption, PowersGrow
  <1>2. n \div 1 = n /\ n % 1 = 0
    BY <1>1
  <1>3. Power(2, 0) = 1
    BY PowerIs
  <1>4. 0 \in S /\ S \in SUBSET Nat
    BY <1>1, <1>2, <1>3, WidthAssumption
  <1>5. Min(S) = 0
    <2> HIDE DEF S
    <2>1. Min(S) \in S /\ \A y \in S : Min(S) <= y
      BY <1>4, Least
    <2>2. Min(S) <= 0 /\ Min(S) \in Nat
      BY <1>4, <2>1
    <2> QED
      BY <2>2
  <1>6. Ulp(n) = 1
    BY <1>3, <1>5 DEF Ulp
  <1> HIDE DEF S, n
  <1>7. LongDouble(x) = IF x < 0 THEN -n ELSE n
    <2>1. ~(2 * 0 > 1) /\ ~(2 * 0 = 1)
      OBVIOUS
    <2>2. n * 1 = n
      BY <1>1
    <2> QED
      BY <1>2, <1>6, <2>1, <2>2 DEF LongDouble, n
  <1> QED
    BY <1>7 DEF n

LEMMA HalvedQuotient ==
    ASSUME NEW n \in Nat, NEW h \in Nat \ {0}, NEW Q \in Nat, n \div h >= 2 * Q
    PROVE  n \div (2 * h) >= Q
  <1> DEFINE d == 2 * h
             p == n \div h
             q == n \div d
             a == n % h
             b == n % d
  <1>1. p \in Nat /\ n = p * h + a /\ a \in 0 .. h - 1 /\ p >= 2 * Q
    OBVIOUS
  <1>2. d \in Nat \ {0} /\ d = 2 * h
    OBVIOUS
  <1> HIDE DEF d
  <1>3. q \in Nat /\ n = q * d + b /\ b \in 0 .. d - 1
    <2>1. n = q * d + b /\ b \in 0 .. d - 1
      BY <1>2, Remainder, Zenon
    <2>2. q \in Nat
      BY <1>2
    <2> QED
      BY <2>1, <2>2
  <1> HIDE DEF p, q, a, b
  <1>4. SUFFICES ASSUME q < Q PROVE FALSE
    BY <1>3 DEF q, d
  <1>5. p - 2 * q - 2 \in Nat
    BY <1>1, <1>3, <1>4
  <1>6. (p - 2 * q - 2) * h \in Nat
    BY <1>5
  <1>7. p * h = q * d + d + (p - 2 * q - 2) * h
    BY <1>1, <1>2, <1>3
  <1>8. q * d \in Nat /\ p * h \in Nat
    BY <1>1, <1>2, <1>3
  <1> QED
    BY <1>1, <1>2, <1>3, <1>6, <1>7, <1>8

\* What does not fit in Mantissa bits is not rounded to a number that does.
LEMMA LongDoubleLarge ==
    ASSUME NEW x \in Int, NEW n \in Nat, n = (IF x < 0 THEN -x ELSE x),
           n >= Power(2, Mantissa),
           NEW j \in 0 .. 2 * Bits, n \div Power(2, j) < Power(2, Mantissa)
    PROVE  \E v \in Nat : /\ v >= Power(2, Mantissa)
                          /\ LongDouble(x) = IF x < 0 THEN -v ELSE v
  <1> DEFINE S == {k \in 0 .. 2 * Bits : n \div Power(2, k) < Power(2, Mantissa)}
             k == Min(S)
             u == Ulp(n)
             q == n \div u
             r == n % u
             m == IF 2 * r > u \/ (2 * r = u /\ q % 2 = 1) THEN q + 1 ELSE q
             Q == Power(2, Mantissa - 1)
  <1>1. \A i \in Nat : Power(2, i) \in Nat /\ Power(2, i) >= 1
    BY PowersGrow
  <1>2. Q \in Nat /\ Q >= 1 /\ Power(2, Mantissa) = 2 * Q
    <2>1. Mantissa - 1 \in Nat /\ (Mantissa - 1) + 1 = Mantissa /\ 2 \in Nat
      BY MantissaAssumption
    <2> QED
      BY <1>1, <2>1, PowerIs
  <1>3. k \in S /\ \A i \in S : k <= i
    <2>1. S \in SUBSET Nat /\ S # {}
      BY WidthAssumption
    <2> HIDE DEF S
    <2> QED
      BY <2>1, Least
  <1>4. u = Power(2, k)
    BY DEF Ulp
  <1> HIDE DEF u, k
  <1>5. k \in 0 .. 2 * Bits /\ k # 0
    <2>1. n \div 1 = n /\ Power(2, 0) = 1
      BY PowerIs
    <2>2. 0 \notin S
      BY <1>1, <1>2, <2>1
    <2> QED
      BY <1>3, <2>2
  <1>6. k - 1 \in Nat /\ k - 1 \in 0 .. 2 * Bits /\ k - 1 \notin S
    BY <1>3, <1>5, WidthAssumption
  <1> DEFINE h == Power(2, k - 1)
  <1>7. h \in Nat /\ h >= 1 /\ u = 2 * h
    <2>1. (k - 1) + 1 = k /\ 2 \in Nat
      BY <1>5, WidthAssumption
    <2> QED
      BY <1>1, <1>4, <1>6, <2>1, PowerIs
  <1>8. n \div h >= 2 * Q
    <2>1. ~(n \div h < Power(2, Mantissa))
      BY <1>6
    <2> HIDE DEF h
    <2>2. n \div h \in Nat
      BY <1>7
    <2> QED
      BY <1>2, <2>1, <2>2
  <1> HIDE DEF h, Q, S
  <1>9. q >= Q /\ q \in Nat
    <2>0. h \in Nat \ {0} /\ Q \in Nat
      BY <1>2, <1>7
    <2>1. n \div (2 * h) >= Q
      BY <1>8, <2>0, HalvedQuotient
    <2>2. n \div (2 * h) \in Nat
      BY <1>7
    <2> QED
      BY <1>7, <2>1, <2>2
  <1>10. LongDouble(x) = IF x < 0 THEN -(m * u) ELSE m * u
    BY DEF LongDouble, u
  <1>11. m \in Nat /\ m >= q
    BY <1>9
  <1> HIDE DEF m, q
  <1>12. m * u \in Nat /\ m * u >= 2 * Q
    <2>1. m - Q \in Nat /\ h - 1 \in Nat
      BY <1>2, <1>7, <1>9, <1>11
    <2>2. m * u = 2 * Q + 2 * ((m - Q) * h) + 2 * (Q * (h - 1))
      BY <1>2, <1>7, <1>11
    <2>3. (m - Q) * h \in Nat /\ Q * (h - 1) \in Nat
      BY <1>2, <1>7, <2>1
    <2> QED
      BY <1>2, <2>2, <2>3
  <1> QED
    BY <1>2, <1>10, <1>12

\* The sign and the size of a product.
LEMMA ProductSize ==
    ASSUME NEW l \in Int, NEW r \in Int, NEW h \in Nat,
           -h <= l, l <= h, -h <= r, r <= h
    PROVE  -(h * h) <= l * r /\ l * r <= h * h /\ l * r \in Int
  <1>1. /\ (h - l) * (h + r) >= 0 /\ (h + l) * (h - r) >= 0
        /\ (h - l) * (h - r) >= 0 /\ (h + l) * (h + r) >= 0
    <2>1. \A x \in Nat, y \in Nat : x * y >= 0
      OBVIOUS
    <2>2. h - l \in Nat /\ h + l \in Nat /\ h - r \in Nat /\ h + r \in Nat
      OBVIOUS
    <2> QED
      BY <2>1, <2>2
  <1>2. l * r \in Int
    OBVIOUS
  <1>3. /\ (h - l) * (h + r) + (h + l) * (h - r) = 2 * (h * h) - 2 * (l * r)
        /\ (h - l) * (h - r) + (h + l) * (h + r) = 2 * (h * h) + 2 * (l * r)
    OBVIOUS
  <1>4. /\ (h - l) * (h + r) \in Int /\ (h + l) * (h - r) \in Int
        /\ (h - l) * (h - r) \in Int /\ (h + l) * (h + r) \in Int
        /\ h * h \in Int
    OBVIOUS
  <1> QED
    BY <1>1, <1>2, <1>3, <1>4

\* With a long double of at least the bits of a word, as GCC's on x86,
\* mulSignedOverflow says whether the product is a word.
LEMMA ProductOverflow ==
    ASSUME NEW l \in Words, NEW r \in Words, Mantissa >= Bits
    PROVE  mulSignedOverflow(l, r) <=> l * r \notin Words
  <1> DEFINE P == Power(2, Mantissa)
             x == l * r
             n == IF x < 0 THEN -x ELSE x
  <1>1. /\ Half \in Nat \ {0}
        /\ l \in Int /\ -Half <= l /\ l < Half
        /\ r \in Int /\ -Half <= r /\ r < Half
    BY WidthAssumption DEF Words, MinWord, MaxWord
  <1>2. P \in Nat /\ P >= 2 * Half
    <2>1. Mantissa - Bits \in Nat /\ Bits + (Mantissa - Bits) = Mantissa /\ Bits \in Nat
      BY WidthAssumption, MantissaAssumption
    <2>2. Power(2, Bits + (Mantissa - Bits)) >= Power(2, Bits) /\ Power(2, Mantissa) \in Nat
      BY <2>1, PowersGrow, MantissaAssumption
    <2> QED
      BY <2>1, <2>2, HalfAssumption
  <1>3. x \in Int /\ -(Half * Half) <= x /\ x <= Half * Half
    BY <1>1, ProductSize
  <1>4. (l = 0 \/ r = 0) => x = 0
    BY <1>1
  <1>5. /\ l = -1 /\ r = -Half => x = Half
        /\ r = -1 /\ l = -Half => x = Half
    BY <1>1
  <1>6. \A w \in Int : -P < w /\ w < P => LongDouble(w) = w
    BY LongDoubleExact
  <1>7. /\ LongDouble(l) = l /\ LongDouble(r) = r
        /\ LongDouble(MaxWord) = MaxWord /\ LongDouble(MinWord) = MinWord
    <2> HIDE DEF P, x
    <2>1. \A w \in Int : -Half <= w /\ w < Half => -P < w /\ w < P
      BY <1>1, <1>2
    <2>2. MaxWord \in Int /\ MinWord \in Int /\ -Half <= MaxWord /\ MaxWord < Half
          /\ -Half <= MinWord /\ MinWord < Half
      BY <1>1 DEF MaxWord, MinWord
    <2> QED
      BY <1>1, <1>6, <2>1, <2>2
  <1>8. mulSignedOverflow(l, r) <=>
           /\ l # 0 /\ r # 0
           /\ \/ l = -1 /\ r = MinWord
              \/ r = -1 /\ l = MinWord
              \/ LongDouble(x) > MaxWord
              \/ LongDouble(x) < MinWord
    BY <1>7 DEF mulSignedOverflow
  <1> HIDE DEF x, P
  <1> SUFFICES mulSignedOverflow(l, r) <=> x \notin Words
    BY DEF x
  <1>9. x \notin Words <=> x >= Half \/ x < -Half
    BY <1>1, <1>3 DEF Words, MinWord, MaxWord
  <1>10. CASE n < P
    <2>1. LongDouble(x) = x
      BY <1>2, <1>3, <1>6, <1>10
    <2> QED
      BY <1>1, <1>3, <1>4, <1>5, <1>8, <1>9, <2>1 DEF MinWord, MaxWord
  <1>11. CASE n >= P
    <2>1. n \in Nat /\ n <= Half * Half /\ Half * Half \in Nat
      BY <1>1, <1>3
    <2>2. n \div Power(2, Bits) < P
      <3>1. 2 * Half \in Nat \ {0} /\ n < (2 * Half) * Half
        BY <1>1, <2>1
      <3>2. n \div (2 * Half) < Half
        BY <1>1, <2>1, <3>1, ShiftStep
      <3>3. n \div (2 * Half) \in Int
        BY <2>1, <3>1
      <3> QED
        BY <1>1, <1>2, <3>2, <3>3, HalfAssumption
    <2>3. Bits \in 0 .. 2 * Bits
      BY WidthAssumption
    <2> HIDE DEF n
    <2>4. PICK v \in Nat : v >= P /\ LongDouble(x) = IF x < 0 THEN -v ELSE v
      <3>1. n = IF x < 0 THEN -x ELSE x
        BY DEF n
      <3> QED
        BY <1>3, <1>11, <2>1, <2>2, <2>3, <3>1, LongDoubleLarge DEF P
    <2>5. LongDouble(x) > MaxWord \/ LongDouble(x) < MinWord
      BY <1>1, <1>2, <2>4 DEF MinWord, MaxWord
    <2>6. x >= Half \/ x < -Half
      BY <1>1, <1>2, <1>3, <1>11, <2>1 DEF n
    <2>7. l # 0 /\ r # 0
      BY <1>1, <1>4, <2>6
    <2> QED
      BY <1>8, <1>9, <2>5, <2>6, <2>7
  <1> QED
    BY <1>2, <1>3, <1>10, <1>11

LEMMA MultipleVanishes ==
    ASSUME NEW d \in Nat \ {0}, NEW z \in Int
    PROVE  (d * z) % d = 0
  <1> DEFINE p == d * z
             q == p \div d
             e == p % d
  <1>1. p \in Int /\ p = d * z
    OBVIOUS
  <1> HIDE DEF p
  <1>2. q \in Int /\ e \in 0 .. d - 1 /\ p = d * q + e
    BY <1>1
  <1> HIDE DEF q, e
  <1>3. e = d * (z - q)
    BY <1>1, <1>2
  <1>4. CASE z - q >= 1
    <2>1. d * (z - q) = d + d * (z - q - 1) /\ d * (z - q - 1) >= 0
      BY <1>2, <1>4
    <2> QED
      BY <1>2, <1>3, <2>1
  <1>5. CASE z - q <= -1
    <2>1. d * (z - q) = -d - d * (q - z - 1) /\ d * (q - z - 1) >= 0
      BY <1>2, <1>5
    <2> QED
      BY <1>2, <1>3, <2>1
  <1>6. CASE z = q
    BY <1>2, <1>3, <1>6 DEF e, p
  <1> QED
    BY <1>2, <1>4, <1>5, <1>6

\* The value of a product is the true one modulo the word.
LEMMA ProductValue ==
    ASSUME NEW l \in Words, NEW r \in Words
    PROVE  (mul(l, r).value - l * r) % (2 * Half) = 0
  <1> DEFINE D == 2 * Half
             a == Unsigned(l)
             b == Unsigned(r)
             y == a * b
             v == wrapU64ToI64(y % D)
  <1>1. D \in Nat \ {0} /\ D = 2 * Half /\ Half \in Nat
    BY WidthAssumption
  <1>2. mul(l, r).value = v
    BY DEF mul, makeResult
  <1>3. l \in Int /\ r \in Int
    BY WidthAssumption DEF Words, MinWord, MaxWord
  <1>4. /\ \E i \in {0, 1} : a = l + i * D
        /\ \E i \in {0, 1} : b = r + i * D
    BY <1>1, <1>3 DEF Unsigned
  <1> HIDE DEF D
  <1>5. PICK i \in {0, 1} : a = l + i * D
    BY <1>4
  <1>6. PICK j \in {0, 1} : b = r + j * D
    BY <1>4
  <1>7. a \in Nat /\ b \in Nat
    BY WordCasts
  <1> HIDE DEF a, b
  <1>8. y \in Nat /\ y = l * r + D * (i * r + j * l + i * j * D)
    BY <1>1, <1>3, <1>5, <1>6, <1>7
  <1> HIDE DEF y
  <1>9. y = (y \div D) * D + (y % D) /\ y \div D \in Nat /\ y % D \in 0 .. D - 1
    <2>1. y = (y \div D) * D + (y % D) /\ y % D \in 0 .. D - 1
      BY <1>1, <1>8, Remainder, Zenon
    <2>2. y \div D \in Nat
      BY <1>1, <1>8
    <2> QED
      BY <2>1, <2>2
  <1>10. \E k \in {0, 1} : v = (y % D) - k * D
    BY <1>1, <1>9 DEF wrapU64ToI64, D
  <1>11. PICK k \in {0, 1} : v = (y % D) - k * D
    BY <1>10
  <1> DEFINE c == y \div D
             z == (i * r + j * l + i * j * D) - c - k
  <1> HIDE DEF v
  <1>12. z \in Int /\ v - l * r = D * z
    <2> DEFINE e == y % D
    <2>1. y = c * D + e /\ c \in Nat /\ e \in Nat /\ v = e - k * D
      BY <1>1, <1>9, <1>11
    <2> HIDE DEF c, e
    <2> QED
      BY <1>1, <1>3, <1>8, <2>1
  <1> HIDE DEF z
  <1>13. (D * z) % D = 0
    BY <1>1, <1>12, MultipleVanishes
  <1> QED
    BY <1>2, <1>12, <1>13 DEF D

-------------------------------------------------------------------------------
(* Products that are rounded on the way: a long double narrower than a word. *)

LEMMA TimesMonotone ==
    ASSUME NEW a \in Nat, NEW b \in Nat, a <= b, NEW c \in Nat
    PROVE  a * c <= b * c /\ c * a <= c * b /\ a * c \in Nat /\ c * b \in Nat
  <1>1. b * c = a * c + (b - a) * c /\ (b - a) * c \in Nat
    <2>1. b - a \in Nat
      OBVIOUS
    <2> QED
      BY <2>1
  <1>2. a * c \in Nat /\ c * a = a * c /\ c * b = b * c
    OBVIOUS
  <1> QED
    BY <1>1, <1>2

\* Powers of two divide the larger ones.
LEMMA PowersDivide ==
    ASSUME NEW a \in Nat
    PROVE  \A d \in Nat : Power(2, a + d) = Power(2, a) * Power(2, d)
  <1> DEFINE T == {d \in Nat : Power(2, a + d) = Power(2, a) * Power(2, d)}
  <1>1. /\ Power(2, 0) = 1
        /\ \A n \in Nat : Power(2, n) \in Nat /\ Power(2, n + 1) = 2 * Power(2, n)
    BY PowerIs
  <1>2. 0 \in T
    BY <1>1
  <1>3. ASSUME NEW d \in Nat, d \in T PROVE d + 1 \in T
    <2>1. a + d \in Nat /\ a + (d + 1) = (a + d) + 1
      OBVIOUS
    <2>2. Power(2, a + (d + 1)) = 2 * Power(2, a + d)
      BY <1>1, <2>1
    <2>3. Power(2, a + d) = Power(2, a) * Power(2, d)
      BY <1>3
    <2>4. Power(2, d + 1) = 2 * Power(2, d) /\ Power(2, d) \in Nat /\ Power(2, a) \in Nat
      BY <1>1
    <2>5. Power(2, a + (d + 1)) = Power(2, a) * Power(2, d + 1)
      BY <2>2, <2>3, <2>4
    <2> QED
      BY <2>5
  <1> HIDE DEF T
  <1>4. \A d \in Nat : d \in T
    BY <1>2, <1>3, Induction
  <1> QED
    BY <1>4 DEF T

\* q units of u and a rest r, to the nearest unit, ties to even.
Nearest(v, q, u, r) ==
    \/ v = q * u /\ 2 * r <= u /\ (2 * r = u => q % 2 = 0)
    \/ v = (q + 1) * u /\ 2 * r >= u /\ (2 * r = u => q % 2 = 1)

\* n, rounded to Mantissa bits, is v: n is q units of a power of two, fewer than
\* 2^Mantissa and, unless the unit is one, no fewer than half of that, and a rest.
Rounded(n, v) ==
    \E k \in Nat, q \in Nat, r \in Nat :
        LET u == Power(2, k)
        IN /\ n = q * u + r /\ r < u /\ q < Power(2, Mantissa)
           /\ k = 0 \/ 2 * q >= Power(2, Mantissa)
           /\ Nearest(v, q, u, r)

\* LongDouble rounds so.
LEMMA Rounding ==
    ASSUME NEW n \in Nat, n <= Half * Half
    PROVE  \E v \in Nat : Rounded(n, v) /\ LongDouble(n) = v /\ LongDouble(-n) = -v
  <1> DEFINE P == Power(2, Mantissa)
             S == {k \in 0 .. 2 * Bits : n \div Power(2, k) < P}
             k == Min(S)
             u == Ulp(n)
             q == n \div u
             r == n % u
             m == IF 2 * r > u \/ (2 * r = u /\ q % 2 = 1) THEN q + 1 ELSE q
  <1>1. \A i \in Nat : Power(2, i) \in Nat /\ Power(2, i) >= 1
    BY PowersGrow
  <1>2. P \in Nat /\ P >= 1
    BY <1>1, MantissaAssumption
  <1>3. 2 * Bits \in S
    <2>1. Power(2, Bits + Bits) = (2 * Half) * (2 * Half)
      BY WidthAssumption, HalfAssumption, PowersDivide
    <2>2. Power(2, 2 * Bits) = (2 * Half) * (2 * Half)
      BY <2>1, WidthAssumption
    <2>3. \A w \in Nat, z \in Nat : w < z => w \div z = 0
      OBVIOUS
    <2>4. n < (2 * Half) * (2 * Half) /\ (2 * Half) * (2 * Half) \in Nat
      <3>1. (2 * Half) * (2 * Half) = Half * Half + 3 * (Half * Half) /\ Half * Half \in Nat
            /\ Half * Half >= 1
        BY WidthAssumption
      <3> QED
        BY <3>1
    <2>5. n \div Power(2, 2 * Bits) = 0
      BY <2>2, <2>3, <2>4
    <2> QED
      BY <1>2, <2>5, WidthAssumption
  <1>4. k \in S /\ \A i \in S : k <= i
    <2>1. S \in SUBSET Nat /\ S # {}
      BY <1>3, WidthAssumption
    <2> HIDE DEF S
    <2> QED
      BY <2>1, Least
  <1>5. u = Power(2, k)
    BY DEF Ulp
  <1>6. k \in Nat /\ k \in 0 .. 2 * Bits /\ n \div Power(2, k) < P
    BY <1>4, WidthAssumption
  <1>7. k # 0 => k - 1 \in Nat /\ k - 1 \notin S /\ k - 1 \in 0 .. 2 * Bits
    <2> HIDE DEF k, S
    <2> QED
      BY <1>4, <1>6, WidthAssumption
  <1>8. k # 0 => ~(n \div Power(2, k - 1) < P)
    BY <1>7
  <1> HIDE DEF k, S, u, P
  <1>9. u \in Nat \ {0}
    BY <1>1, <1>5, <1>6
  <1>10. n = q * u + r /\ r \in Nat /\ r < u /\ q \in Nat /\ q < P
    <2>1. n = q * u + r /\ r \in 0 .. u - 1
      BY <1>9, Remainder
    <2>2. q \in Nat
      BY <1>9
    <2>3. r \in Nat /\ r < u
      BY <1>9, <2>1
    <2> QED
      BY <1>5, <1>6, <2>1, <2>2, <2>3
  <1>11. k = 0 \/ 2 * q >= P
    <2> SUFFICES ASSUME k # 0, 2 * q < P PROVE FALSE
      BY <1>2, <1>10
    <2> DEFINE h == Power(2, k - 1)
    <2>1. h \in Nat \ {0} /\ u = 2 * h
      <3>1. (k - 1) + 1 = k /\ 2 \in Nat
        BY <1>6
      <3> QED
        BY <1>1, <1>5, <1>7, <3>1, PowerIs
    <2>2. ~(n \div h < P)
      BY <1>8
    <2> HIDE DEF h
    <2>3. n \div h >= P /\ n \div h \in Nat
      BY <1>2, <2>1, <2>2
    <2>4. PICK Q \in Nat : P = 2 * Q
      <3>1. Mantissa - 1 \in Nat /\ (Mantissa - 1) + 1 = Mantissa /\ 2 \in Nat
        BY MantissaAssumption
      <3> QED
        BY <1>1, <3>1, PowerIs DEF P
    <2>5. n \div (2 * h) >= Q
      BY <2>1, <2>3, <2>4, HalvedQuotient
    <2>6. q >= Q
      BY <2>1, <2>5
    <2> QED
      BY <1>10, <2>4, <2>6
  <1>12. m \in Nat /\ \/ m = q /\ 2 * r <= u /\ (2 * r = u => q % 2 = 0)
                      \/ m = q + 1 /\ 2 * r >= u /\ (2 * r = u => q % 2 = 1)
    <2>1. q % 2 \in {0, 1}
      BY <1>10
    <2> HIDE DEF q, r
    <2> QED
      BY <1>9, <1>10, <2>1
  <1>13. \A x \in {n, -n} : LongDouble(x) = IF x < 0 THEN -(m * u) ELSE m * u
    BY DEF LongDouble, u
  <1>14. n = 0 => m * u = 0
    <2> HIDE DEF q, r
    <2> SUFFICES ASSUME n = 0 PROVE m * u = 0
      OBVIOUS
    <2>1. q = 0 /\ r = 0
      <3>1. q * u \in Nat
        BY <1>9, <1>10
      <3>2. q * u = 0 /\ r = 0
        BY <1>10, <3>1
      <3>3. q # 0 => q * u >= u
        BY <1>9, <1>10, TimesMonotone
      <3> QED
        BY <1>9, <3>2, <3>3
    <2>2. m = 0
      BY <1>9, <1>12, <2>1
    <2> QED
      BY <1>9, <2>2
  <1> HIDE DEF q, r, m
  <1>15. m * u \in Nat
    BY <1>9, <1>12
  <1>16. LongDouble(n) = m * u /\ LongDouble(-n) = -(m * u)
    BY <1>13, <1>14, <1>15
  <1>17. Rounded(n, m * u)
    BY <1>5, <1>6, <1>10, <1>11, <1>12 DEF Rounded, Nearest, P
  <1> QED
    BY <1>15, <1>16, <1>17

\* Units that are no larger than g: a number is below 2^Mantissa * g and does not
\* round beyond it.
LEMMA FineUnits ==
    ASSUME NEW P \in Nat, NEW g \in Nat, NEW u \in Nat, u <= g,
           NEW q \in Nat, q < P, NEW r \in Nat, r < u
    PROVE  q * u + r < P * g /\ q * u <= P * g /\ (q + 1) * u <= P * g
  <1>1. (q + 1) * u <= P * u
    BY TimesMonotone
  <1>2. P * u <= P * g
    BY TimesMonotone
  <1>3. (q + 1) * u = q * u + u /\ q * u \in Nat /\ P * u \in Nat /\ P * g \in Nat
    OBVIOUS
  <1> QED
    BY <1>1, <1>2, <1>3

\* n is q units of u and a rest r, and rounds to v; P = 2^Mantissa is 2 * Q, and the
\* units are 2 * g or more.
Coarse(n, v, P, Q, g, d, u, q, r) ==
    /\ P \in Nat /\ P >= 2 /\ Q \in Nat /\ P = 2 * Q /\ Q % 2 = 0
    /\ g \in Nat \ {0} /\ d \in Nat \ {0} /\ u \in Nat /\ u = 2 * g * d
    /\ q \in Nat /\ 2 * q >= P /\ r \in Nat /\ r < u
    /\ n \in Nat /\ n = q * u + r /\ v \in Nat /\ Nearest(v, q, u, r)

\* Then n is not below P * g, and rounds beyond it if it is beyond it by more than g.
LEMMA CoarseUnits ==
    ASSUME NEW n, NEW v, NEW P, NEW Q, NEW g, NEW d, NEW u, NEW q, NEW r,
           Coarse(n, v, P, Q, g, d, u, q, r)
    PROVE  /\ n >= P * g /\ v >= P * g
           /\ v > P * g <=> n > P * g + g
  <1> USE DEF Coarse
  <1>0. \/ v = q * u /\ 2 * r <= u /\ (2 * r = u => q % 2 = 0)
        \/ v = (q + 1) * u /\ 2 * r >= u /\ (2 * r = u => q % 2 = 1)
    BY DEF Nearest
  <1>1. Q * (2 * g) = P * g /\ P * g \in Nat
    OBVIOUS
  <1>2. u >= 2 * g /\ u \in Nat
    <2>1. (2 * g) * 1 <= (2 * g) * d
      BY TimesMonotone
    <2> QED
      BY <2>1
  <1>3. q >= Q
    OBVIOUS
  <1>4. q * u >= q * (2 * g) /\ q * (2 * g) \in Nat /\ q * u \in Nat
    BY <1>2, TimesMonotone
  <1>5. q * (2 * g) >= Q * (2 * g)
    BY <1>3, TimesMonotone
  <1>6. (q + 1) * u = q * u + u
    OBVIOUS
  <1>7. n >= P * g /\ v >= P * g
    BY <1>0, <1>1, <1>2, <1>4, <1>5, <1>6
  <1>8. CASE q > Q
    <2>1. q * (2 * g) >= (Q + 1) * (2 * g) /\ (Q + 1) * (2 * g) = Q * (2 * g) + 2 * g
      BY <1>8, TimesMonotone
    <2> QED
      BY <1>0, <1>1, <1>2, <1>4, <1>6, <1>7, <2>1
  <1>9. CASE q = Q /\ d > 1
    <2>1. (2 * g) * 2 <= (2 * g) * d
      BY <1>9, TimesMonotone
    <2>2. u >= 2 * (2 * g)
      BY <2>1
    <2>3. q * u >= q * (2 * (2 * g)) /\ q * (2 * (2 * g)) = 2 * (P * g)
      BY <1>9, <2>2, TimesMonotone
    <2>4. P * g >= 2 * g
      BY TimesMonotone
    <2> QED
      BY <1>0, <1>1, <1>2, <1>4, <1>6, <2>3, <2>4
  <1>10. CASE q = Q /\ d = 1
    <2>1. u = 2 * g /\ q * u = P * g /\ q % 2 = 0
      BY <1>1, <1>10
    <2> QED
      BY <1>0, <1>1, <1>6, <2>1
  <1> QED
    BY <1>3, <1>8, <1>9, <1>10

\* The half of a word as a long double sees it that is narrower than the word: units
\* of g, of which it has 2^Mantissa.
LEMMA HalfUnits ==
    ASSUME Mantissa < Bits
    PROVE  LET c == Bits - 1 - Mantissa
           IN /\ c \in Nat /\ Power(2, c) \in Nat \ {0}
              /\ Half = Power(2, Mantissa) * Power(2, c)
  <1> DEFINE c == Bits - 1 - Mantissa
  <1>1. c \in Nat /\ Mantissa \in Nat /\ Mantissa + c \in Nat /\ (Mantissa + c) + 1 = Bits
    BY WidthAssumption, MantissaAssumption
  <1> HIDE DEF c
  <1>2. Power(2, Mantissa + c) = Power(2, Mantissa) * Power(2, c)
    BY <1>1, PowersDivide
  <1>3. Power(2, (Mantissa + c) + 1) = 2 * Power(2, Mantissa + c)
        /\ Power(2, Mantissa + c) \in Nat
    BY <1>1, PowerIs
  <1>4. Half = Power(2, Mantissa + c)
    BY <1>1, <1>3, HalfAssumption, WidthAssumption
  <1>5. Power(2, c) \in Nat \ {0}
    BY <1>1, PowersGrow
  <1> QED
    BY <1>1, <1>2, <1>4, <1>5 DEF c

\* Mantissa bits: at least eight values, four times an even number.
LEMMA MantissaFacts ==
    LET P == Power(2, Mantissa)
    IN P \in Nat /\ P >= 8 /\ \E Q \in Nat : P = 2 * Q /\ Q % 2 = 0
  <1>1. /\ Power(2, 0) = 1
        /\ \A n \in Nat : Power(2, n) \in Nat /\ Power(2, n + 1) = 2 * Power(2, n)
    BY PowerIs
  <1>2. /\ Mantissa - 3 \in Nat /\ Mantissa - 2 \in Nat /\ Mantissa - 1 \in Nat
        /\ (Mantissa - 3) + 1 = Mantissa - 2 /\ (Mantissa - 2) + 1 = Mantissa - 1
        /\ (Mantissa - 1) + 1 = Mantissa
    BY MantissaAssumption
  <1>3. Power(2, Mantissa - 3) >= 1
    BY <1>2, PowersGrow
  <1> DEFINE a == Power(2, Mantissa - 3)
             b == Power(2, Mantissa - 2)
             Q == Power(2, Mantissa - 1)
  <1>4. a \in Nat /\ b = 2 * a /\ Q = 2 * b /\ Power(2, Mantissa) = 2 * Q
    BY <1>1, <1>2
  <1>5. a >= 1
    BY <1>3
  <1> HIDE DEF a, b, Q
  <1>6. b \in Nat /\ Q \in Nat /\ Q % 2 = 0 /\ 2 * Q >= 8
    BY <1>4, <1>5
  <1>7. \E R \in Nat : Power(2, Mantissa) = 2 * R /\ R % 2 = 0
    BY <1>4, <1>6, Zenon
  <1>8. Power(2, Mantissa) \in Nat /\ Power(2, Mantissa) >= 8
    BY <1>4, <1>6
  <1> QED
    BY <1>7, <1>8

\* Where numbers round to more than the half of a word.
LEMMA RoundsBeyond ==
    ASSUME Mantissa < Bits, NEW g \in Nat, g = Power(2, Bits - 1 - Mantissa),
           NEW n \in Nat, NEW v \in Nat, Rounded(n, v)
    PROVE  /\ v > Half <=> n > Half + g
           /\ n >= Half => v >= Half
  <1> DEFINE P == Power(2, Mantissa)
             c == Bits - 1 - Mantissa
  <1>1. c \in Nat /\ g \in Nat \ {0} /\ Half = P * g /\ P \in Nat /\ P >= 8
    BY HalfUnits, MantissaFacts
  <1>2. PICK Q \in Nat : P = 2 * Q /\ Q % 2 = 0
    BY MantissaFacts
  <1>3. PICK k \in Nat, q \in Nat, r \in Nat :
            LET u == Power(2, k)
            IN /\ n = q * u + r /\ r < u /\ q < P
               /\ k = 0 \/ 2 * q >= P
               /\ Nearest(v, q, u, r)
    BY DEF Rounded
  <1> DEFINE u == Power(2, k)
  <1>4. u \in Nat
    BY PowersGrow
  <1>5. CASE k <= c
    <2>1. u <= g
      <3>1. c - k \in Nat /\ k + (c - k) = c
        BY <1>1, <1>5
      <3>2. Power(2, k + (c - k)) >= Power(2, k)
        BY <3>1, PowersGrow
      <3> QED
        BY <3>1, <3>2
    <2> HIDE DEF u, P, c
    <2>2. n < P * g /\ v <= P * g
      BY <1>1, <1>3, <1>4, <2>1, FineUnits DEF u, Nearest
    <2> QED
      BY <1>1, <2>2
  <1>6. CASE k > c
    <2>1. k - c - 1 \in Nat /\ (c + 1) + (k - c - 1) = k /\ c + 1 \in Nat
      BY <1>1, <1>6
    <2> DEFINE d == Power(2, k - c - 1)
    <2>2. d \in Nat \ {0}
      BY <2>1, PowersGrow
    <2>3. Power(2, (c + 1) + (k - c - 1)) = Power(2, c + 1) * d /\ Power(2, c + 1) = 2 * g
      BY <1>1, <2>1, PowersDivide, PowerIs
    <2>4. u = 2 * g * d
      BY <2>1, <2>3
    <2>5. 2 * q >= P
      BY <1>1, <1>3, <1>6
    <2> HIDE DEF u, P, c, d
    <2>6. n >= P * g /\ v >= P * g /\ (v > P * g <=> n > P * g + g)
      <3>1. /\ n = q * u + r /\ r < u
            /\ Nearest(v, q, u, r)
        BY <1>3 DEF u
      <3>2. P \in Nat /\ P >= 2 /\ g \in Nat \ {0}
        BY <1>1
      <3>3. Coarse(n, v, P, Q, g, d, u, q, r)
        BY <1>2, <1>4, <2>2, <2>4, <2>5, <3>1, <3>2 DEF Coarse
      <3> QED
        BY ONLY <3>3, CoarseUnits
    <2> QED
      BY <1>1, <2>6
  <1> QED
    BY <1>1, <1>5, <1>6

\* Rounding changes a number by no more than one part in 2^Mantissa.
LEMMA RoundingError ==
    ASSUME NEW n \in Nat, NEW v \in Nat, Rounded(n, v)
    PROVE  LET P == Power(2, Mantissa)
           IN P * v <= (P + 1) * n /\ (P - 1) * n <= P * v
  <1> DEFINE P == Power(2, Mantissa)
  <1>1. P \in Nat /\ P >= 8
    BY MantissaFacts
  <1>2. PICK k \in Nat, q \in Nat, r \in Nat :
            LET u == Power(2, k)
            IN /\ n = q * u + r /\ r < u /\ q < P
               /\ k = 0 \/ 2 * q >= P
               /\ Nearest(v, q, u, r)
    BY DEF Rounded
  <1> DEFINE u == Power(2, k)
  <1>3. u \in Nat \ {0} /\ (k = 0 => u = 1)
    <2>1. Power(2, 0) = 1
      BY PowerIs
    <2> QED
      BY <2>1, PowersGrow
  <1>4. /\ n = q * u + r /\ r < u /\ (k = 0 \/ 2 * q >= P)
        /\ \/ v = q * u /\ 2 * r <= u /\ (2 * r = u => q % 2 = 0)
           \/ v = (q + 1) * u /\ 2 * r >= u /\ (2 * r = u => q % 2 = 1)
    BY <1>2 DEF Nearest
  <1> HIDE DEF P, u
  <1> SUFFICES P * v <= (P + 1) * n /\ (P - 1) * n <= P * v
    BY DEF P
  <1>5. /\ (P + 1) * n = P * n + n /\ (P - 1) * n = P * n - n
        /\ P * n \in Nat /\ P * v \in Nat
    BY <1>1
  <1>6. CASE k = 0
    <2>1. u = 1 /\ r = 0
      BY <1>3, <1>4, <1>6
    <2>2. v = n
      BY <1>4, <2>1
    <2> QED
      BY <1>5, <2>2
  <1>7. CASE 2 * q >= P
    <2>1. (q + 1) * u = q * u + u /\ q * u \in Nat
      BY <1>3
    <2>2. PICK e \in Nat : 2 * e <= u /\ (v = n + e \/ n = v + e)
      <3>1. CASE v = q * u /\ 2 * r <= u
        BY <1>4, <2>1, <3>1
      <3>2. CASE v = (q + 1) * u /\ 2 * r >= u
        <4>1. u - r \in Nat /\ 2 * (u - r) <= u /\ v = n + (u - r)
          BY <1>3, <1>4, <2>1, <3>2
        <4> QED
          BY <4>1
      <3> QED
        BY <1>4, <3>1, <3>2
    <2>3. (2 * q) * u >= P * u /\ P * u \in Nat /\ P * e \in Nat
      BY <1>1, <1>3, <1>7, TimesMonotone
    <2>4. P * u >= P * (2 * e) /\ P * (2 * e) = 2 * (P * e)
      BY <1>1, <1>3, <2>2, TimesMonotone
    <2>5. (2 * q) * u = 2 * (q * u)
      BY <1>3
    <2>6. n >= P * e
      BY <1>4, <2>1, <2>3, <2>4, <2>5
    <2>7. /\ P * (n + e) = P * n + P * e /\ P * (v + e) = P * v + P * e
      BY <1>1, <2>2
    <2> QED
      BY <1>5, <2>2, <2>3, <2>6, <2>7
  <1> QED
    BY <1>4, <1>6, <1>7

\* What the largest word is for a long double that is narrower.
LEMMA MaxWordRounds ==
    ASSUME Mantissa < Bits, NEW g \in Nat, g = Power(2, Bits - 1 - Mantissa),
           NEW v \in Nat, Rounded(Half - 1, v), g > 1
    PROVE  v = Half
  <1> DEFINE P == Power(2, Mantissa)
             c == Bits - 1 - Mantissa
             n == Half - 1
  <1>1. c \in Nat /\ g \in Nat \ {0} /\ Half = P * g /\ P \in Nat /\ P >= 8
    BY HalfUnits, MantissaFacts
  <1>2. PICK Q \in Nat : P = 2 * Q /\ Q % 2 = 0
    BY MantissaFacts
  <1>3. PICK k \in Nat, q \in Nat, r \in Nat :
            LET u == Power(2, k)
            IN /\ n = q * u + r /\ r < u /\ q < P
               /\ k = 0 \/ 2 * q >= P
               /\ Nearest(v, q, u, r)
    BY DEF Rounded
  <1> DEFINE u == Power(2, k)
  <1>4. u \in Nat \ {0}
    BY PowersGrow
  <1>5. P * g >= 8 /\ P * g \in Nat
    <2>1. 8 * g <= P * g /\ P * g \in Nat
      BY <1>1, TimesMonotone
    <2> QED
      BY <1>1, <2>1
  <1>6. CASE k < c
    <2>1. 2 * u <= g
      <3>1. c - k - 1 \in Nat /\ k + 1 \in Nat /\ (k + 1) + (c - k - 1) = c
        BY <1>1, <1>6
      <3>2. Power(2, (k + 1) + (c - k - 1)) >= Power(2, k + 1)
        BY <3>1, PowersGrow
      <3>3. Power(2, k + 1) = 2 * u
        BY PowerIs
      <3> QED
        BY <3>1, <3>2, <3>3
    <2>2. n = q * u + r /\ r < u /\ q < P
      BY <1>3
    <2> HIDE DEF u, P, c
    <2>3. q * u + r < P * u
      BY <1>1, <1>4, <2>2, FineUnits
    <2>4. P * (2 * u) <= P * g /\ P * (2 * u) = 2 * (P * u) /\ P * u \in Nat
      BY <1>1, <1>4, <2>1, TimesMonotone
    <2> QED
      BY <1>1, <1>5, <2>2, <2>3, <2>4
  <1>7. CASE k = c
    <2>1. u = g /\ n = q * g + r /\ r < g /\ q < P
      BY <1>3, <1>7
    <2>2. Nearest(v, q, g, r)
      BY <1>3, <1>7
    <2> HIDE DEF u, P, c
    <2>3. q = P - 1
      <3> SUFFICES ASSUME q + 2 <= P PROVE FALSE
        BY <1>1, <2>1
      <3>1. (q + 2) * g <= P * g /\ (q + 2) * g = q * g + 2 * g /\ q * g \in Nat
        BY <1>1, TimesMonotone
      <3> QED
        BY <1>1, <1>5, <2>1, <3>1
    <2>4. q * g = P * g - g /\ (q + 1) * g = P * g
      BY <1>1, <2>3
    <2>5. r = g - 1
      BY <1>1, <1>5, <2>1, <2>4
    <2>6. q % 2 = 1
      BY <1>1, <1>2, <2>3
    <2>7. ~(2 * r <= g /\ (2 * r = g => q % 2 = 0))
      BY <2>5, <2>6
    <2> QED
      BY <1>1, <2>2, <2>4, <2>7 DEF Nearest
  <1>8. CASE k > c
    <2>1. u >= 2 * g
      <3>1. k - c - 1 \in Nat /\ c + 1 \in Nat /\ (c + 1) + (k - c - 1) = k
        BY <1>1, <1>8
      <3>2. Power(2, (c + 1) + (k - c - 1)) >= Power(2, c + 1)
        BY <3>1, PowersGrow
      <3>3. Power(2, c + 1) = 2 * g
        BY <1>1, PowerIs
      <3> QED
        BY <3>1, <3>2, <3>3
    <2>2. n = q * u + r /\ 2 * q >= P
      BY <1>1, <1>3, <1>8
    <2> HIDE DEF u, P, c
    <2>3. (2 * q) * u >= P * u /\ P * u >= P * (2 * g) /\ P * u \in Nat
      BY <1>1, <1>4, <2>1, <2>2, TimesMonotone
    <2>4. (2 * q) * u = 2 * (q * u) /\ P * (2 * g) = 2 * (P * g) /\ q * u \in Nat
      BY <1>1, <1>4
    <2> QED
      BY <1>1, <1>5, <2>2, <2>3, <2>4
  <1> QED
    BY <1>1, <1>6, <1>7, <1>8

LEMMA Cancel ==
    ASSUME NEW p \in Nat \ {0}, NEW x \in Nat, NEW y \in Nat, p * x <= p * y
    PROVE  x <= y
  <1> SUFFICES ASSUME y + 1 <= x PROVE FALSE
    OBVIOUS
  <1>1. p * (y + 1) <= p * x /\ p * (y + 1) = p * y + p /\ p * y \in Nat
    BY TimesMonotone
  <1> QED
    BY <1>1

\* The product of two rounded numbers, one of them exact, is not beyond the range by
\* more than a unit if the true product is in the range.
LEMMA NoFalseAlarm ==
    ASSUME NEW P \in Nat \ {0}, NEW g \in Nat, NEW a \in Nat, NEW b \in Nat, NEW w \in Nat,
           a * b <= P * g, P * w <= (P + 1) * b
    PROVE  a * w <= P * g + g
  <1>1. a * (P * w) <= a * ((P + 1) * b)
    <2>1. P * w \in Nat /\ (P + 1) * b \in Nat
      OBVIOUS
    <2> QED
      BY <2>1, TimesMonotone
  <1>2. (P + 1) * (a * b) <= (P + 1) * (P * g)
    <2>1. a * b \in Nat /\ P * g \in Nat /\ P + 1 \in Nat
      OBVIOUS
    <2> QED
      BY <2>1, TimesMonotone
  <1>3. /\ a * (P * w) = P * (a * w) /\ a * ((P + 1) * b) = (P + 1) * (a * b)
        /\ (P + 1) * (P * g) = P * (P * g + g)
        /\ a * w \in Nat /\ P * g + g \in Nat
    OBVIOUS
  <1>4. P * (a * w) <= P * (P * g + g)
    BY <1>1, <1>2, <1>3
  <1> QED
    BY <1>3, <1>4, Cancel

\* If it is not beyond the range by more than a unit, the true product is not by more
\* than four.
LEMMA MissIsSmall ==
    ASSUME NEW P \in Nat, P >= 8, NEW g \in Nat,
           NEW a \in Nat, NEW b \in Nat, NEW v \in Nat, NEW w \in Nat,
           (P - 1) * a <= P * v, (P - 1) * b <= P * w, v * w <= P * g + g
    PROVE  a * b <= P * g + 4 * g
  <1> DEFINE R == P - 1
             A == R * a
             B == R * b
             V == P * v
             W == P * w
  <1>1. /\ R \in Nat \ {0} /\ A \in Nat /\ B \in Nat /\ V \in Nat /\ W \in Nat
        /\ A <= V /\ B <= W
    OBVIOUS
  <1> HIDE DEF A, B, V, W
  <1>2. A * B <= V * B /\ V * B <= V * W
    BY <1>1, TimesMonotone
  <1>3. A * B = (R * R) * (a * b) /\ V * W = (P * P) * (v * w)
    BY DEF A, B, V, W
  <1>4. (P * P) * (v * w) <= (P * P) * (P * g + g)
    <2>1. v * w \in Nat /\ P * g + g \in Nat /\ P * P \in Nat
      OBVIOUS
    <2> QED
      BY <2>1, TimesMonotone
  <1>5. (R * R) * (P * g + 4 * g) = (P * P) * (P * g + g) + (P * P - 7 * P + 4) * g
    OBVIOUS
  <1>6. (P * P - 7 * P + 4) * g \in Nat
    <2>1. 8 * P <= P * P
      BY TimesMonotone
    <2>2. P * P - 7 * P + 4 \in Nat
      BY <2>1
    <2> QED
      BY <2>2
  <1>7. /\ A * B \in Nat /\ V * B \in Nat /\ V * W \in Nat
        /\ (P * P) * (P * g + g) \in Nat
    <2>1. \A i \in Nat, j \in Nat : i * j \in Nat
      OBVIOUS
    <2>2. P * g + g \in Nat
      OBVIOUS
    <2> QED
      BY <1>1, <2>1, <2>2
  <1>8. (R * R) * (a * b) <= (R * R) * (P * g + 4 * g)
    BY <1>2, <1>3, <1>4, <1>5, <1>6, <1>7
  <1>9. R * R \in Nat \ {0} /\ a * b \in Nat /\ P * g + 4 * g \in Nat
    BY <1>1
  <1> QED
    BY <1>8, <1>9, Cancel

\* The size of a number.
Size(x) == IF x < 0 THEN -x ELSE x

LEMMA ProductSigns ==
    ASSUME NEW l \in Int, NEW r \in Int
    PROVE  /\ Size(l) \in Nat /\ Size(r) \in Nat /\ Size(l * r) = Size(l) * Size(r)
           /\ (l # 0 /\ r # 0) => ((l * r < 0) <=> ((l < 0) # (r < 0)))
           /\ (l # 0 /\ r # 0) => l * r # 0
  <1>1. \A i \in Nat \ {0}, j \in Nat \ {0} : i * j \in Nat \ {0}
    OBVIOUS
  <1>2. \A i \in Int, j \in Int : /\ (-i) * (-j) = i * j /\ (-i) * j = -(i * j)
                                 /\ i * (-j) = -(i * j)
    OBVIOUS
  <1>3. CASE l = 0 \/ r = 0
    BY <1>3 DEF Size
  <1>4. CASE l > 0 /\ r > 0
    BY <1>1, <1>4 DEF Size
  <1>5. CASE l < 0 /\ r > 0
    <2>1. (-l) * r \in Nat \ {0} /\ (-l) * r = -(l * r)
      BY <1>1, <1>2, <1>5
    <2> QED
      BY <1>5, <2>1 DEF Size
  <1>6. CASE l > 0 /\ r < 0
    <2>1. l * (-r) \in Nat \ {0} /\ l * (-r) = -(l * r)
      BY <1>1, <1>2, <1>6
    <2> QED
      BY <1>6, <2>1 DEF Size
  <1>7. CASE l < 0 /\ r < 0
    <2>1. (-l) * (-r) \in Nat \ {0} /\ (-l) * (-r) = l * r
      BY <1>1, <1>2, <1>7
    <2> QED
      BY <1>7, <2>1 DEF Size
  <1> QED
    BY <1>3, <1>4, <1>5, <1>6, <1>7

\* A word, rounded.
LEMMA WordRounds ==
    ASSUME Mantissa < Bits, NEW x \in Int, Size(x) <= Half
    PROVE  \E v \in Nat : /\ Rounded(Size(x), v) /\ v <= Half
                          /\ LongDouble(x) = IF x < 0 THEN -v ELSE v
  <1> DEFINE n == Size(x)
             g == Power(2, Bits - 1 - Mantissa)
  <1>1. n \in Nat /\ Half \in Nat \ {0} /\ g \in Nat
    BY WidthAssumption, HalfUnits DEF Size
  <1>2. n <= Half * Half
    <2>1. Half * 1 <= Half * Half
      BY <1>1, TimesMonotone
    <2> QED
      BY <1>1, <2>1
  <1> HIDE DEF n, g
  <1>3. PICK v \in Nat : Rounded(n, v) /\ LongDouble(n) = v /\ LongDouble(-n) = -v
    BY <1>1, <1>2, Rounding
  <1>4. v <= Half
    <2>1. v > Half <=> n > Half + g
      BY <1>1, <1>3, RoundsBeyond DEF g
    <2> QED
      BY <1>1, <2>1 DEF n
  <1>5. x = IF x < 0 THEN -n ELSE n
    BY DEF n, Size
  <1> QED
    BY <1>3, <1>4, <1>5 DEF n

\* The product that mulSignedOverflow looks at.
LEMMA ProductRounds ==
    ASSUME Mantissa < Bits, NEW l \in Words, NEW r \in Words, l # 0, r # 0
    PROVE  \E a \in Nat, b \in Nat, w \in Nat :
              /\ Rounded(Size(l), a) /\ Rounded(Size(r), b) /\ Rounded(a * b, w)
              /\ LongDouble(LongDouble(l) * LongDouble(r)) = IF l * r < 0 THEN -w ELSE w
  <1>1. l \in Int /\ r \in Int /\ Size(l) <= Half /\ Size(r) <= Half /\ Half \in Nat
    BY WidthAssumption DEF Words, MinWord, MaxWord, Size
  <1>2. PICK a \in Nat : /\ Rounded(Size(l), a) /\ a <= Half
                         /\ LongDouble(l) = IF l < 0 THEN -a ELSE a
    BY <1>1, WordRounds
  <1>3. PICK b \in Nat : /\ Rounded(Size(r), b) /\ b <= Half
                         /\ LongDouble(r) = IF r < 0 THEN -b ELSE b
    BY <1>1, WordRounds
  <1> DEFINE n == a * b
  <1>4. n \in Nat /\ n <= Half * Half
    <2>1. a * b <= Half * b /\ Half * b <= Half * Half /\ Half * b \in Nat
      BY <1>1, <1>2, <1>3, TimesMonotone
    <2> QED
      BY <1>1, <2>1
  <1>5. LongDouble(l) * LongDouble(r) = IF l * r < 0 THEN -n ELSE n
    <2>1. (l * r < 0) <=> ((l < 0) # (r < 0))
      BY <1>1, ProductSigns
    <2>2. /\ (-a) * (-b) = a * b /\ (-a) * b = -(a * b) /\ a * (-b) = -(a * b)
      OBVIOUS
    <2> QED
      BY <1>2, <1>3, <2>1, <2>2
  <1> HIDE DEF n
  <1>6. PICK w \in Nat : Rounded(n, w) /\ LongDouble(n) = w /\ LongDouble(-n) = -w
    BY <1>4, Rounding
  <1>7. LongDouble(LongDouble(l) * LongDouble(r)) = IF l * r < 0 THEN -w ELSE w
    BY <1>5, <1>6
  <1> QED
    BY <1>2, <1>3, <1>6, <1>7 DEF n

\* A number of less than Mantissa bits is not rounded.
LEMMA SmallRounds ==
    ASSUME NEW n \in Nat, n < Power(2, Mantissa), NEW v \in Nat, Rounded(n, v)
    PROVE  v = n
  <1> DEFINE P == Power(2, Mantissa)
  <1>1. P \in Nat /\ P >= 8 /\ n < P
    BY MantissaFacts
  <1>2. P * v <= (P + 1) * n /\ (P - 1) * n <= P * v
    BY RoundingError
  <1> HIDE DEF P
  <1>3. P * v \in Nat /\ P * n \in Nat /\ (P + 1) * n = P * n + n /\ (P - 1) * n = P * n - n
    BY <1>1
  <1>4. ~(v >= n + 1)
    <2> SUFFICES ASSUME n + 1 <= v PROVE FALSE
      OBVIOUS
    <2>1. P * (n + 1) <= P * v /\ P * (n + 1) = P * n + P
      BY <1>1, TimesMonotone
    <2> QED
      BY <1>1, <1>2, <1>3, <2>1
  <1>5. ~(n >= v + 1)
    <2> SUFFICES ASSUME v + 1 <= n PROVE FALSE
      OBVIOUS
    <2>1. P * (v + 1) <= P * n /\ P * (v + 1) = P * v + P
      BY <1>1, TimesMonotone
    <2> QED
      BY <1>1, <1>2, <1>3, <2>1
  <1> QED
    BY <1>4, <1>5

\* The two ends of the range, rounded.
LEMMA EndsRound ==
    ASSUME Mantissa < Bits
    PROVE  /\ LongDouble(MinWord) = -Half
           /\ LongDouble(MaxWord) = IF Power(2, Bits - 1 - Mantissa) = 1 THEN Half - 1 ELSE Half
  <1> DEFINE g == Power(2, Bits - 1 - Mantissa)
  <1>1. Half \in Nat \ {0} /\ g \in Nat \ {0} /\ Half = Power(2, Mantissa) * g
        /\ Power(2, Mantissa) \in Nat
    BY WidthAssumption, HalfUnits, MantissaFacts
  <1>2. LongDouble(MinWord) = -Half
    <2>1. MinWord \in Int /\ Size(MinWord) = Half /\ MinWord < 0
      BY <1>1 DEF MinWord, Size
    <2>2. PICK v \in Nat : /\ Rounded(Half, v) /\ v <= Half
                           /\ LongDouble(MinWord) = IF MinWord < 0 THEN -v ELSE v
      BY <1>1, <2>1, WordRounds
    <2>3. v >= Half
      BY <1>1, <2>2, RoundsBeyond
    <2>4. v = Half
      BY <1>1, <2>2, <2>3
    <2> QED
      BY <2>1, <2>2, <2>4
  <1>3. PICK v \in Nat : Rounded(Half - 1, v) /\ LongDouble(MaxWord) = v
    <2>1. MaxWord \in Int /\ Size(MaxWord) = Half - 1 /\ ~(MaxWord < 0) /\ Half - 1 <= Half
      BY <1>1 DEF MaxWord, Size
    <2>2. PICK v \in Nat : /\ Rounded(Half - 1, v) /\ v <= Half
                           /\ LongDouble(MaxWord) = IF MaxWord < 0 THEN -v ELSE v
      BY <2>1, WordRounds
    <2> QED
      BY <2>1, <2>2
  <1>4. g = 1 => v = Half - 1
    <2> SUFFICES ASSUME g = 1 PROVE v = Half - 1
      OBVIOUS
    <2>1. Half = Power(2, Mantissa)
      BY <1>1
    <2>2. Half - 1 \in Nat /\ Half - 1 < Power(2, Mantissa)
      BY <1>1, <2>1
    <2> QED
      BY <1>3, <2>2, SmallRounds
  <1>5. g # 1 => v = Half
    BY <1>1, <1>3, MaxWordRounds
  <1> QED
    BY <1>2, <1>3, <1>4, <1>5

\* What mulSignedOverflow says with a long double that is narrower than a word.
LEMMA ProductNarrow ==
    ASSUME Mantissa < Bits, NEW l \in Words, NEW r \in Words, l # 0, r # 0
    PROVE  LET x == l * r
           IN /\ mulSignedOverflow(l, r) => x \notin Words
              /\ (x \notin Words /\ ~mulSignedOverflow(l, r)) =>
                     Size(x) - Half <= (4 * Half) \div Power(2, Mantissa)
  <1> DEFINE x == l * r
             P == Power(2, Mantissa)
             g == Power(2, Bits - 1 - Mantissa)
             a == Size(l)
             b == Size(r)
  <1>1. /\ l \in Int /\ r \in Int /\ Half \in Nat \ {0} /\ g \in Nat \ {0} /\ Half = P * g
        /\ P \in Nat /\ P >= 8 /\ -Half <= l /\ l < Half /\ -Half <= r /\ r < Half
    BY WidthAssumption, HalfUnits, MantissaFacts DEF Words, MinWord, MaxWord
  <1>2. a \in Nat /\ b \in Nat /\ Size(x) = a * b /\ x \in Int /\ x # 0
    BY <1>1, ProductSigns
  <1>3. PICK c \in Nat, d \in Nat, w \in Nat :
            /\ Rounded(a, c) /\ Rounded(b, d) /\ Rounded(c * d, w)
            /\ LongDouble(LongDouble(l) * LongDouble(r)) = IF x < 0 THEN -w ELSE w
    BY ProductRounds
  <1>4. /\ P * c <= (P + 1) * a /\ (P - 1) * a <= P * c
        /\ P * d <= (P + 1) * b /\ (P - 1) * b <= P * d
    BY <1>2, <1>3, RoundingError
  <1>5. w > Half <=> c * d > Half + g
    <2>1. c * d \in Nat
      OBVIOUS
    <2> QED
      BY <1>1, <1>3, <2>1, RoundsBeyond
  <1>6. /\ LongDouble(MinWord) = -Half
        /\ LongDouble(MaxWord) = IF g = 1 THEN Half - 1 ELSE Half
    BY EndsRound
  <1>7. mulSignedOverflow(l, r) <=>
            \/ l = -1 /\ r = -Half
            \/ r = -1 /\ l = -Half
            \/ (IF x < 0 THEN -w ELSE w) > (IF g = 1 THEN Half - 1 ELSE Half)
            \/ (IF x < 0 THEN -w ELSE w) < -Half
    BY <1>3, <1>6 DEF mulSignedOverflow, MinWord
  <1>8. P * P >= 2 * Half /\ P * P \in Nat
    <2>1. /\ Mantissa \in Nat /\ Bits \in Nat /\ 2 * Mantissa - Bits \in Nat
          /\ Bits + (2 * Mantissa - Bits) = Mantissa + Mantissa
      BY MantissaAssumption, WidthAssumption
    <2>2. Power(2, Bits + (2 * Mantissa - Bits)) >= Power(2, Bits)
      BY <2>1, PowersGrow
    <2>3. Power(2, Mantissa + Mantissa) = P * P
      BY <2>1, PowersDivide
    <2> QED
      BY <1>1, <2>1, <2>2, <2>3, HalfAssumption
  <1>9. x \in Words <=> -Half <= x /\ x < Half
    BY <1>1, <1>2 DEF Words, MinWord, MaxWord
  <1>10. a < P => c = a
    BY <1>2, <1>3, SmallRounds
  <1>11. b < P => d = b
    BY <1>2, <1>3, SmallRounds
  <1>12. /\ Size(x) = IF x < 0 THEN -x ELSE x
         /\ a = IF l < 0 THEN -l ELSE l
         /\ b = IF r < 0 THEN -r ELSE r
    BY DEF Size
  <1>13. /\ l = -1 /\ r = -Half => x = Half
         /\ r = -1 /\ l = -Half => x = Half
    BY <1>1
  <1>20. (g = 1 /\ a < P /\ b < P /\ a * b < P) => w = a * b
    <2> SUFFICES ASSUME g = 1, a < P, b < P, a * b < P PROVE w = a * b
      OBVIOUS
    <2>1. c * d = a * b /\ a * b \in Nat
      BY <1>2, <1>10, <1>11
    <2> QED
      BY <1>3, <2>1, SmallRounds
  <1> HIDE DEF x, P, g, a, b
  <1>14. a # 0 /\ b # 0 /\ a <= Half /\ b <= Half
    BY <1>1, <1>12
  <1>15. a * b \in Nat /\ a * b >= a /\ a * b >= b /\ c * d \in Nat
    <2>1. a * 1 <= a * b /\ 1 * b <= a * b
      BY <1>2, <1>14, TimesMonotone
    <2> QED
      BY <1>2, <2>1
  <1>16. ASSUME mulSignedOverflow(l, r) PROVE x \notin Words
    <2> SUFFICES ASSUME x \in Words PROVE FALSE
      OBVIOUS
    <2>1. a * b <= Half /\ (x > 0 => a * b < Half)
      BY <1>1, <1>2, <1>9, <1>12
    <2>2. a < P \/ b < P
      <3> SUFFICES ASSUME a >= P, b >= P PROVE FALSE
        BY <1>1, <1>2
      <3>1. P * P <= a * P /\ a * P <= a * b /\ a * P \in Nat
        BY <1>1, <1>2, TimesMonotone
      <3> QED
        BY <1>1, <1>8, <1>15, <2>1, <3>1
    <2>3. c * d <= Half + g
      <3>1. CASE a < P
        <4>1. a * d <= P * g + g
          BY <1>1, <1>2, <1>4, <2>1, NoFalseAlarm
        <4> QED
          BY <1>1, <1>10, <3>1, <4>1
      <3>2. CASE b < P
        <4>1. b * a <= P * g
          BY <1>1, <1>2, <2>1
        <4>2. b * c <= P * g + g
          BY <1>1, <1>2, <1>4, <4>1, NoFalseAlarm
        <4>3. b * c = c * d
          BY <1>2, <1>11, <3>2
        <4> QED
          BY <1>1, <4>2, <4>3
      <3> QED
        BY <2>2, <3>1, <3>2
    <2>4. w <= Half
      BY <1>1, <1>5, <1>15, <2>3
    <2>5. (x > 0 /\ g = 1) => w <= Half - 1
      <3> SUFFICES ASSUME x > 0, g = 1 PROVE w <= Half - 1
        OBVIOUS
      <3>1. Half = P
        BY <1>1
      <3>2. a * b < P /\ a < P /\ b < P
        BY <1>1, <1>2, <1>15, <2>1, <3>1
      <3> QED
        BY <1>1, <1>15, <1>20, <3>1, <3>2
    <2>6. x # Half
      BY <1>1, <1>9
    <2> QED
      BY <1>1, <1>2, <1>7, <1>13, <1>16, <2>4, <2>5, <2>6
  <1>17. ASSUME x \notin Words, ~mulSignedOverflow(l, r)
         PROVE  Size(x) - Half <= (4 * Half) \div P
    <2>1. w <= Half
      BY <1>1, <1>2, <1>7, <1>17
    <2>2. c * d <= P * g + g
      BY <1>1, <1>5, <1>15, <2>1
    <2>3. a * b <= P * g + 4 * g
      BY <1>1, <1>2, <1>4, <2>2, MissIsSmall
    <2>4. (4 * Half) \div P = 4 * g
      <3>1. 4 * Half = P * (4 * g) /\ 4 * g \in Nat
        BY <1>1
      <3>2. \A i \in Nat \ {0}, j \in Nat : (i * j) \div i = j
        OBVIOUS
      <3> QED
        BY <1>1, <3>1, <3>2
    <2> QED
      BY <1>1, <1>2, <1>15, <2>3, <2>4
  <1> QED
    BY <1>16, <1>17 DEF x, P

\* What mulSignedOverflow says with any long double.
LEMMA ProductNear ==
    ASSUME NEW l \in Words, NEW r \in Words
    PROVE  LET x == l * r
               size == IF x < 0 THEN -x ELSE x
           IN /\ mulSignedOverflow(l, r) => x \notin Words
              /\ (x \notin Words /\ ~mulSignedOverflow(l, r)) =>
                     Mantissa < Bits /\ size - Half <= (4 * Half) \div Power(2, Mantissa)
  <1>1. CASE Mantissa >= Bits
    <2>1. mulSignedOverflow(l, r) <=> l * r \notin Words
      BY <1>1, ProductOverflow
    <2> QED
      BY <2>1, Zenon
  <1>2. CASE l = 0 \/ r = 0
    <2>1. l * r = 0 /\ 0 \in Words
      BY <1>2, WidthAssumption DEF Words, MinWord, MaxWord
    <2>2. ~mulSignedOverflow(l, r)
      BY <1>2 DEF mulSignedOverflow
    <2> QED
      BY <2>1, <2>2, Zenon
  <1>3. CASE Mantissa < Bits /\ l # 0 /\ r # 0
    <2>1. /\ mulSignedOverflow(l, r) => l * r \notin Words
          /\ (l * r \notin Words /\ ~mulSignedOverflow(l, r)) =>
                 Size(l * r) - Half <= (4 * Half) \div Power(2, Mantissa)
      BY <1>3, ProductNarrow
    <2> QED
      BY <1>3, <2>1, Zenon DEF Size
  <1> QED
    BY <1>1, <1>2, <1>3, MantissaAssumption, WidthAssumption

-------------------------------------------------------------------------------
(* Sums modulo the word, bits, and what the unit computes.                   *)

\* Equal sums of unsigned numbers are sums of words that are equal modulo the word.
LEMMA WrappedSums ==
    ASSUME NEW u \in Nat, NEW v \in Nat, NEW s \in Nat, NEW t \in Nat,
           u < 2 * Half, v < 2 * Half, s < 2 * Half, t < 2 * Half, u + v = s + t
    PROVE  ((wrapU64ToI64(u) + wrapU64ToI64(v)) - (wrapU64ToI64(s) + wrapU64ToI64(t)))
               % (2 * Half) = 0
  <1> DEFINE d == 2 * Half
             x == (wrapU64ToI64(u) + wrapU64ToI64(v)) - (wrapU64ToI64(s) + wrapU64ToI64(t))
  <1>1. Half \in Nat \ {0} /\ d \in Nat \ {0}
    BY WidthAssumption
  <1>2. x \in {0, d, -d, d + d, -(d + d)}
    BY <1>1 DEF wrapU64ToI64
  <1> HIDE DEF d, x
  <1>3. \A y \in {0, d, -d, d + d, -(d + d)} : y % d = 0
    BY <1>1
  <1>4. x % d = 0
    BY <1>2, <1>3
  <1> QED
    BY <1>4 DEF d, x

LEMMA BitwiseAddsUp ==
    ASSUME NEW l \in Words, NEW r \in Words
    PROVE  /\ ((bitOr(l, r).value + bitAnd(l, r).value) - (l + r)) % (2 * Half) = 0
           /\ ((bitXor(l, r).value + bitAnd(l, r).value) - bitOr(l, r).value) % (2 * Half) = 0
           /\ bitNot(l).value = -1 - l
  <1> DEFINE P == 0 .. Bits - 1
             L == {i \in P : Bit(l, i)}
             R == {i \in P : Bit(r, i)}
             A == {i \in P : Bit(l, i) /\ Bit(r, i)}
             O == {i \in P : Bit(l, i) \/ Bit(r, i)}
             X == {i \in P : Bit(l, i) # Bit(r, i)}
             N == {i \in P : ~Bit(l, i)}
             E == 0 .. Bits - 1
             V(S) == wrapU64ToI64(BitValue(S))
  <1>1. /\ bitAnd(l, r).value = V(A) /\ bitOr(l, r).value = V(O)
        /\ bitXor(l, r).value = V(X) /\ bitNot(l).value = V(N)
    BY FromBitsIs, Zenon DEF bitAnd, bitOr, bitXor, bitNot
  <1>2. /\ l = V(L) /\ r = V(R)
    BY WordBits, WordCasts
  <1>3. \A i \in P : Bit(l, i) \in BOOLEAN /\ Bit(r, i) \in BOOLEAN
    BY DEF Bit
  <1>4. BitValue(O) + BitValue(A) = BitValue(L) + BitValue(R)
    <2>1. \A i \in P : (IF i \in O THEN 1 ELSE 0) + (IF i \in A THEN 1 ELSE 0)
                         = (IF i \in L THEN 1 ELSE 0) + (IF i \in R THEN 1 ELSE 0)
      BY <1>3
    <2> HIDE DEF O, A, L, R
    <2> QED
      BY <2>1, BitValuesAdd
  <1>5. BitValue(X) + BitValue(A) = BitValue(O) + BitValue({})
    <2>1. \A i \in P : (IF i \in X THEN 1 ELSE 0) + (IF i \in A THEN 1 ELSE 0)
                         = (IF i \in O THEN 1 ELSE 0) + (IF i \in {} THEN 1 ELSE 0)
      BY <1>3
    <2> HIDE DEF X, A, O
    <2> QED
      BY <2>1, BitValuesAdd
  <1>6. BitValue(N) + BitValue(L) = BitValue(E) + BitValue({})
    <2>1. \A i \in P : (IF i \in N THEN 1 ELSE 0) + (IF i \in L THEN 1 ELSE 0)
                         = (IF i \in E THEN 1 ELSE 0) + (IF i \in {} THEN 1 ELSE 0)
      BY <1>3
    <2> HIDE DEF N, L, E
    <2> QED
      BY <2>1, BitValuesAdd
  <1>7. \A S : BitValue(S) \in Nat /\ BitValue(S) < 2 * Half
    BY FromBitsIs
  <1>8. BitValue({}) = 0 /\ BitValue(E) = 2 * Half - 1
    BY BitEnds
  <1>9. Half \in Nat \ {0} /\ V({}) = 0
    BY <1>8, WidthAssumption DEF wrapU64ToI64
  <1> HIDE DEF L, R, A, O, X, N, E
  <1>10. ((V(O) + V(A)) - (V(L) + V(R))) % (2 * Half) = 0
    BY <1>4, <1>7, WrappedSums
  <1>11. ((V(X) + V(A)) - (V(O) + V({}))) % (2 * Half) = 0
    BY <1>5, <1>7, WrappedSums
  <1>12. V(O) + V({}) = V(O)
    BY <1>7, <1>9, WordCasts DEF Words, MinWord, MaxWord
  <1>13. V(N) = -1 - l
    <2>1. V(N) + V(L) = -1
      BY <1>6, <1>7, <1>8, <1>9 DEF wrapU64ToI64
    <2>2. V(N) \in Int /\ V(L) \in Int
      BY <1>7, <1>9 DEF wrapU64ToI64
    <2> QED
      BY <1>2, <2>1, <2>2
  <1> QED
    BY <1>1, <1>2, <1>10, <1>11, <1>12, <1>13

-------------------------------------------------------------------------------
(* The arithmetic of an instruction.                                         *)

\* The result of an instruction is what the ALU computes from the operands.
Computed ==
    /\ lhs \in Words
    /\ rhs \in Words
    /\ op = "add" => result = add(lhs, rhs)
    /\ op = "sub" => result = sub(lhs, rhs)
    /\ op = "cmp" => result = sub(lhs, rhs)
    /\ op = "mul" => result = mul(lhs, rhs)
    /\ op = "div" => result = div(lhs, rhs) /\ Divides(lhs, rhs)
    /\ op = "or" => result = bitOr(lhs, rhs)
    /\ op = "xor" => result = bitXor(lhs, rhs)
    /\ op = "not" => result = bitNot(lhs)

\* The unit computes what the CPU's instructions do.
LEMMA SameArithmetic ==
    ASSUME NEW l, NEW r
    PROVE  /\ Unit!Words = Words
           /\ Unit!Unsigned(l) = Unsigned(l)
           /\ Unit!add(l, r) = add(l, r)
           /\ Unit!sub(l, r) = sub(l, r)
           /\ Unit!div(l, r) = div(l, r)
           /\ Unit!Divides(l, r) = Divides(l, r)
           /\ Unit!signedLessThanFromFlags(l) = signedLessThanFromFlags(l)
           /\ Unit!signedGreaterThanFromFlags(l) = signedGreaterThanFromFlags(l)
  BY Zenon DEF Unit!Words, Words, Unit!MinWord, MinWord, Unit!MaxWord, MaxWord,
        Unit!Unsigned, Unsigned, Unit!wrapU64ToI64, wrapU64ToI64,
        Unit!makeResult, makeResult, Unit!add, add, Unit!sub, sub, Unit!div, div,
        Unit!addSignedOverflow, addSignedOverflow,
        Unit!subSignedOverflow, subSignedOverflow,
        Unit!Quotient, Quotient, Unit!Divides, Divides,
        Unit!signedLessThanFromFlags, signedLessThanFromFlags,
        Unit!signedGreaterThanFromFlags, signedGreaterThanFromFlags

LEMMA SameOperations ==
    ASSUME NEW l, NEW r
    PROVE  /\ Unit!mul(l, r) = mul(l, r)
           /\ Unit!bitAnd(l, r) = bitAnd(l, r)
           /\ Unit!bitOr(l, r) = bitOr(l, r)
           /\ Unit!bitXor(l, r) = bitXor(l, r)
           /\ Unit!bitNot(l) = bitNot(l)
  <1>1. \A x : Unit!Ulp(x) = Ulp(x)
    BY Zenon DEF Unit!Power, Power, Unit!Ulp, Ulp, Unit!Min, Min
  <1>2. \A x : Unit!LongDouble(x) = LongDouble(x)
    BY <1>1, Zenon DEF Unit!LongDouble, LongDouble
  <1>3. Unit!mul(l, r) = mul(l, r)
    BY <1>2, Zenon DEF Unit!mul, mul, Unit!mulSignedOverflow, mulSignedOverflow,
         Unit!makeResult, makeResult, Unit!Unsigned, Unsigned,
         Unit!wrapU64ToI64, wrapU64ToI64, Unit!MinWord, MinWord, Unit!MaxWord, MaxWord
  <1>4. \A x, i : Unit!Bit(x, i) = Bit(x, i)
    BY Zenon DEF Unit!Bit, Bit, Unit!Unsigned, Unsigned, Unit!Digit, Digit,
         Unit!ShiftedRight, ShiftedRight
  <1>5. \A S : Unit!FromBits(S) = FromBits(S)
    BY Zenon DEF Unit!FromBits, FromBits, Unit!makeResult, makeResult,
         Unit!wrapU64ToI64, wrapU64ToI64, Unit!FromDigits, FromDigits
  <1>6. /\ Unit!bitAnd(l, r) = bitAnd(l, r)
        /\ Unit!bitOr(l, r) = bitOr(l, r)
        /\ Unit!bitXor(l, r) = bitXor(l, r)
        /\ Unit!bitNot(l) = bitNot(l)
    BY <1>4, <1>5 DEF Unit!bitAnd, bitAnd, Unit!bitOr, bitOr, Unit!bitXor, bitXor,
         Unit!bitNot, bitNot
  <1> QED
    BY <1>3, <1>6

LEMMA ComputedInvariant == MCSpec => []Computed
  <1>1. MCInit => Computed
    <2>1. 0 \in Words
      BY WidthAssumption DEF Words, MinWord, MaxWord
    <2> QED
      BY <2>1, SameArithmetic DEF MCInit, NoOperation, Unit!Init, Computed
  <1>2. Computed /\ [MCNext]_<<subject, vars, aluVars>> => Computed'
    <2> SUFFICES ASSUME Computed, [MCNext]_<<subject, vars, aluVars>> PROVE Computed'
      OBVIOUS
    <2>1. CASE UNCHANGED aluVars
      BY <2>1 DEF Computed, aluVars
    <2>2. CASE Unit!Next
      BY <2>2, SameArithmetic, SameOperations
         DEF Computed, Unit!compare, Unit!Next, Unit!Apply, Unit!DoAdd, Unit!DoSub,
             Unit!DoMul, Unit!DoDiv, Unit!DoAnd, Unit!DoOr, Unit!DoXor, Unit!DoNot,
             Unit!DoCompare, Unit!DoTest
    <2> QED
      BY <2>1, <2>2 DEF MCNext
  <1> QED
    BY <1>1, <1>2, PTL DEF MCSpec

\* The branches that follow CMP (CPU.cpp: signedLessThanFromFlags,
\* signedGreaterThanFromFlags) decide by the signed order of the operands, for
\* words of every width.
THEOREM ComparisonCorrect == MCSpec => []ComparisonIsSigned
  <1>1. Computed => ComparisonIsSigned
    <2> SUFFICES ASSUME Computed, op = "cmp"
                 PROVE  /\ signedLessThanFromFlags(result) <=> lhs < rhs
                        /\ signedGreaterThanFromFlags(result) <=> lhs > rhs
                        /\ result.zero <=> lhs = rhs
      BY SameArithmetic, Zenon DEF ComparisonIsSigned, Unit!ComparisonIsSigned
    <2>1. lhs \in Words /\ rhs \in Words /\ result = sub(lhs, rhs)
      BY DEF Computed
    <2> QED
      BY <2>1, SubtractionCompares, Zenon
  <1> QED
    BY <1>1, ComputedInvariant, PTL

\* The carry flag of ALU::add and ALU::sub is the carry out of, or the borrow
\* into, a word of any width.
THEOREM CarryCorrect == MCSpec => []Unit!CarryIsExact
  <1>1. Computed => Unit!CarryIsExact
    BY CarryOut, SameArithmetic DEF Computed, Unit!CarryIsExact
  <1> QED
    BY <1>1, ComputedInvariant, PTL

\* ADD and SUB leave the true result modulo the word, and set the overflow flag
\* exactly when it is not a word (ALU::add, ALU::sub, addSignedOverflow,
\* subSignedOverflow), for words of every width.
THEOREM SumsCorrect == MCSpec => []Unit!SumIsExact
  <1>1. Computed => Unit!SumIsExact
    BY SumsAreExact, SameArithmetic DEF Computed, Unit!SumIsExact, Unit!Represents
  <1> QED
    BY <1>1, ComputedInvariant, PTL

\* A division that ALU::div does not refuse has a quotient that is a word, and
\* truncates towards zero: the remainder is smaller than the divisor and has
\* the sign of the dividend, for words of every width.
THEOREM DivisionCorrect == MCSpec => []Unit!DivisionIsExact
  <1>1. Computed => Unit!DivisionIsExact
    BY DivisionTruncates, SameArithmetic DEF Computed, Unit!DivisionIsExact
  <1> QED
    BY <1>1, ComputedInvariant, PTL

\* MUL leaves the true product modulo the word, never reports the overflow of a
\* product that is a word, and fails to report one only if a long double is narrower
\* than a word and the product beyond the range by no more than four parts in
\* 2^Mantissa (ALU::mul, mulSignedOverflow): for words of every width and for every
\* long double that C++ allows, GCC's of 64 bits and MSVC's of 53.
THEOREM ProductsCorrect == MCSpec => []Unit!ProductIsNear
  <1>1. ASSUME NEW l \in Words, NEW r \in Words
        PROVE  mul(l, r).overflow = mulSignedOverflow(l, r)
    BY DEF mul, makeResult
  <1>2. Unit!Power(2, Mantissa) = Power(2, Mantissa)
    BY Zenon DEF Unit!Power, Power
  <1>3. Computed => Unit!ProductIsNear
    <2> SUFFICES ASSUME Computed, op = "mul" PROVE Unit!ProductIsNear
      BY DEF Unit!ProductIsNear
    <2>1. lhs \in Words /\ rhs \in Words /\ result = mul(lhs, rhs)
      BY DEF Computed
    <2>2. Unit!Words = Words
      BY SameArithmetic
    <2>3. (result.value - lhs * rhs) % (2 * Half) = 0
      BY <2>1, ProductValue
    <2>4. result.overflow = mulSignedOverflow(lhs, rhs)
      BY <1>1, <2>1
    <2>5. LET x == lhs * rhs
              size == IF x < 0 THEN -x ELSE x
          IN /\ mulSignedOverflow(lhs, rhs) => x \notin Words
             /\ (x \notin Words /\ ~mulSignedOverflow(lhs, rhs)) =>
                    Mantissa < Bits /\ size - Half <= (4 * Half) \div Power(2, Mantissa)
      BY <2>1, ProductNear
    <2> QED
      BY <1>2, <2>2, <2>3, <2>4, <2>5, Zenon DEF Unit!ProductIsNear
  <1> QED
    BY <1>3, ComputedInvariant, PTL

\* AND, OR, XOR and NOT (ALU::bitAnd, bitOr, bitXor, bitNot) fit together with
\* the sums and differences of words, for words of every width.
THEOREM BitsCorrect == MCSpec => []Unit!BitsAddUp
  <1>1. Computed => Unit!BitsAddUp
    BY BitwiseAddsUp, SameOperations DEF Computed, Unit!BitsAddUp
  <1> QED
    BY <1>1, ComputedInvariant, PTL

\* Value and flags of every ALU operation are those of the integers, the overflow
\* flag of MUL as near as a long double can tell, for words of every width and every
\* long double that C++ allows.
THEOREM ArithmeticCorrect == MCSpec => []ArithmeticIsRight
  <1>1. /\ Unit!SumIsExact /\ Unit!ProductIsNear /\ Unit!CarryIsExact
        /\ Unit!DivisionIsExact /\ Unit!BitsAddUp
        => ArithmeticIsRight
    BY DEF ArithmeticIsRight, Unit!ArithmeticIsRight
  <1> QED
    BY <1>1, SumsCorrect, ProductsCorrect, CarryCorrect, DivisionCorrect, BitsCorrect, PTL

-------------------------------------------------------------------------------
(* Words in memory.                                                          *)

Byte == 0 .. Radix - 1
Memories == [0 .. MemEnd - 1 -> Byte]

\* A function on an initial segment is a sequence.
LEMMA SequenceOf ==
    ASSUME NEW n \in Nat, NEW S, NEW f \in [1 .. n -> S]
    PROVE  f \in Seq(S) /\ Len(f) = n
  OBVIOUS

LEMMA ByteFacts ==
    /\ Radix \in Nat \ {0} /\ WordBytes \in Nat \ {0}
    /\ Power(Radix, WordBytes) = 2 * Half
    /\ Half \in Nat \ {0}
  BY ByteAssumption, WidthAssumption

\* A word has WordBytes bytes (Memory::writeInt64).
LEMMA BytesType ==
    ASSUME NEW x \in Int, x >= -(2 * Half)
    PROVE  /\ Bytes(x) \in [1 .. WordBytes -> Byte]
           /\ Bytes(x) \in Seq(Byte) /\ Len(Bytes(x)) = WordBytes
  <1>1. Unsigned(x) \in Nat
    BY ByteFacts DEF Unsigned
  <1>2. ASSUME NEW i \in Nat PROVE ByteOf(x, i) \in Byte
    <2>1. ShiftedRight(Unsigned(x), Radix, i) \in Nat
      BY <1>1, ByteFacts, ShiftIs
    <2>2. \A y \in Nat : y % Radix \in 0 .. Radix - 1
      BY ByteFacts
    <2> QED
      BY <2>1, <2>2 DEF ByteOf, Digit, Byte
  <1>3. \A i \in 1 .. WordBytes : i - 1 \in Nat
    BY ByteFacts
  <1>4. Bytes(x) \in [1 .. WordBytes -> Byte]
    BY <1>2, <1>3 DEF Bytes
  <1>5. WordBytes \in Nat
    BY ByteFacts
  <1> QED
    BY <1>4, <1>5, SequenceOf

\* Bytes give a word (Memory::readInt64).
LEMMA WordOfType ==
    ASSUME NEW b \in [1 .. WordBytes -> Byte]
    PROVE  WordOf(b) \in Words
  <1> DEFINE d == [i \in 0 .. WordBytes - 1 |-> b[i + 1]]
  <1>1. d \in [0 .. WordBytes - 1 -> 0 .. Radix - 1]
    <2>1. \A i \in 0 .. WordBytes - 1 : i + 1 \in 1 .. WordBytes
      BY ByteFacts
    <2> QED
      BY <2>1 DEF Byte
  <1>2. WordOf(b) = wrapU64ToI64(FromDigits(d, Radix, WordBytes))
    BY DEF WordOf
  <1> HIDE DEF d
  <1>3. /\ FromDigits(d, Radix, WordBytes) \in Nat
        /\ FromDigits(d, Radix, WordBytes) < Power(Radix, WordBytes)
    <2>1. WordBytes \in Nat /\ Radix \in Nat \ {0}
      BY ByteFacts
    <2> QED
      BY <1>1, <2>1, DigitsBound
  <1> QED
    BY <1>2, <1>3, ByteFacts, WordCasts

\* The bytes of a word give the word back.
LEMMA WordRoundTrip ==
    ASSUME NEW x \in Words
    PROVE  WordOf(Bytes(x)) = x
  <1> DEFINE u == Unsigned(x)
             d == [i \in 0 .. WordBytes - 1 |-> Bytes(x)[i + 1]]
             e == [i \in 0 .. WordBytes - 1 |-> Digit(u, Radix, i)]
  <1>1. u \in Nat /\ u < Power(Radix, WordBytes) /\ wrapU64ToI64(u) = x
    BY WordCasts, ByteFacts
  <1>2. d = e
    <2>1. \A i \in 0 .. WordBytes - 1 : i + 1 \in 1 .. WordBytes /\ (i + 1) - 1 = i
      BY ByteFacts
    <2>2. \A i \in 0 .. WordBytes - 1 : Bytes(x)[i + 1] = Digit(u, Radix, i)
      BY <2>1 DEF Bytes, ByteOf
    <2> HIDE DEF u
    <2> QED
      BY <2>2
  <1>3. FromDigits(e, Radix, WordBytes) = u
    <2>1. WordBytes \in Nat /\ Radix \in Nat \ {0}
      BY ByteFacts
    <2> HIDE DEF u
    <2> QED
      BY <1>1, <2>1, DigitsJoin, Zenon
  <1>4. WordOf(Bytes(x)) = wrapU64ToI64(FromDigits(d, Radix, WordBytes))
    BY Zenon DEF WordOf
  <1> QED
    BY <1>1, <1>2, <1>3, <1>4, Zenon

LEMMA ReadWordType ==
    ASSUME NEW mem \in Memories, NEW a \in Nat, a + WordBytes <= MemEnd
    PROVE  ReadWord(mem, a) \in Words
  <1>1. \A i \in 1 .. WordBytes : a + i - 1 \in 0 .. MemEnd - 1
    BY ByteFacts, LayoutAssumption
  <1>2. ReadBytes(mem, a, WordBytes) \in [1 .. WordBytes -> Byte]
    BY <1>1 DEF ReadBytes, Memories
  <1> QED
    BY <1>2, WordOfType DEF ReadWord

LEMMA WriteBytesType ==
    ASSUME NEW mem \in Memories, NEW a \in Nat, NEW bytes \in Seq(Byte)
    PROVE  WriteBytes(mem, a, bytes) \in Memories
  <1>1. \A b \in 0 .. MemEnd - 1 : b \in a .. a + Len(bytes) - 1 =>
            b - a + 1 \in 1 .. Len(bytes)
    BY LayoutAssumption
  <1>2. \A k \in 1 .. Len(bytes) : bytes[k] \in Byte
    OBVIOUS
  <1>3. DOMAIN mem = 0 .. MemEnd - 1
    BY DEF Memories
  <1> QED
    BY <1>1, <1>2, <1>3 DEF WriteBytes, Memories

LEMMA WriteWordType ==
    ASSUME NEW mem \in Memories, NEW a \in Nat, NEW x \in Int, x >= -(2 * Half)
    PROVE  WriteWord(mem, a, x) \in Memories
  BY BytesType, WriteBytesType DEF WriteWord

\* A word that is stored is the word that is read.
LEMMA ReadWritten ==
    ASSUME NEW mem \in Memories, NEW a \in Nat, a + WordBytes <= MemEnd, NEW x \in Words
    PROVE  ReadWord(WriteWord(mem, a, x), a) = x
  <1>1. x \in Int /\ x >= -(2 * Half)
    BY ByteFacts DEF Words, MinWord, MaxWord
  <1>2. Bytes(x) \in [1 .. WordBytes -> Byte] /\ Len(Bytes(x)) = WordBytes
    BY <1>1, BytesType
  <1>3. DOMAIN mem = 0 .. MemEnd - 1
    BY DEF Memories
  <1>4. ASSUME NEW i \in 1 .. WordBytes
        PROVE  WriteWord(mem, a, x)[a + i - 1] = Bytes(x)[i]
    <2>1. /\ a + i - 1 \in 0 .. MemEnd - 1
          /\ a + i - 1 \in a .. a + WordBytes - 1
          /\ (a + i - 1) - a + 1 = i
      BY ByteFacts, LayoutAssumption
    <2> QED
      BY <1>2, <1>3, <2>1 DEF WriteWord, WriteBytes
  <1>5. ReadBytes(WriteWord(mem, a, x), a, WordBytes) = Bytes(x)
    BY <1>2, <1>4 DEF ReadBytes
  <1> QED
    BY <1>5, WordRoundTrip DEF ReadWord

\* A word and its first byte differ by a multiple of the radix.
LEMMA LowestByte ==
    ASSUME NEW mem \in Memories, NEW a \in Nat, a + WordBytes <= MemEnd
    PROVE  (mem[a] - ReadWord(mem, a)) % Radix = 0
  <1> DEFINE b == ReadBytes(mem, a, WordBytes)
             d == [i \in 0 .. WordBytes - 1 |-> b[i + 1]]
  <1>1. \A i \in 1 .. WordBytes : a + i - 1 \in 0 .. MemEnd - 1
    BY ByteFacts, LayoutAssumption
  <1>2. b \in [1 .. WordBytes -> Byte] /\ b[1] = mem[a]
    BY <1>1, ByteFacts DEF ReadBytes, Memories
  <1>3. ReadWord(mem, a) = wrapU64ToI64(FromDigits(d, Radix, WordBytes))
    BY DEF ReadWord, WordOf
  <1> HIDE DEF b
  <1>4. d \in [0 .. WordBytes - 1 -> Nat] /\ d[0] = mem[a]
        /\ d \in [0 .. WordBytes - 1 -> 0 .. Radix - 1]
    <2>1. \A i \in 0 .. WordBytes - 1 : i + 1 \in 1 .. WordBytes
      BY ByteFacts
    <2>2. \A i \in 0 .. WordBytes - 1 : b[i + 1] \in 0 .. Radix - 1
      BY <1>2, <2>1 DEF Byte
    <2>3. 0 .. Radix - 1 \subseteq Nat /\ 0 \in 0 .. WordBytes - 1
      BY ByteFacts
    <2> QED
      BY <1>2, <2>2, <2>3
  <1> HIDE DEF d
  <1>5. WordBytes \in Nat /\ WordBytes - 1 \in Nat /\ Radix \in Nat \ {0}
    BY ByteFacts
  <1>6. PICK w : /\ FromDigits(d, Radix, WordBytes) = w[WordBytes]
                 /\ w[0] = 0
                 /\ \A k \in 1 .. WordBytes : w[k] = w[k - 1] * Radix + d[WordBytes - k]
    BY <1>4, <1>5, DigitsIs, Zenon
  <1>7. \A k \in Nat : k <= WordBytes => w[k] \in Nat
    <2> DEFINE T == {k \in Nat : k <= WordBytes => w[k] \in Nat}
    <2>1. 0 \in T
      BY <1>6
    <2>2. ASSUME NEW k \in Nat, k \in T PROVE k + 1 \in T
      <3> SUFFICES ASSUME k + 1 <= WordBytes PROVE w[k + 1] \in Nat
        OBVIOUS
      <3>1. w[k] \in Nat /\ k + 1 \in 1 .. WordBytes /\ (k + 1) - 1 = k
        BY <1>5, <2>2
      <3>2. d[WordBytes - (k + 1)] \in Nat
        <4>1. WordBytes - (k + 1) \in 0 .. WordBytes - 1
          BY <1>5, <3>1
        <4> QED
          BY <1>4, <4>1
      <3>3. w[k + 1] = w[k] * Radix + d[WordBytes - (k + 1)]
        BY <1>6, <3>1
      <3> QED
        BY <1>5, <3>1, <3>2, <3>3, TimesPlus
    <2> HIDE DEF T
    <2>3. \A k \in Nat : k \in T
      BY <2>1, <2>2, Induction
    <2> QED
      BY <2>3 DEF T
  <1> DEFINE u == w[WordBytes]
             v == w[WordBytes - 1]
  <1>8. v \in Nat /\ u = v * Radix + mem[a]
    <2>1. WordBytes \in 1 .. WordBytes /\ WordBytes - WordBytes = 0
      BY <1>5
    <2>2. w[WordBytes] = w[WordBytes - 1] * Radix + d[0]
      BY <1>6, <2>1
    <2> QED
      BY <1>4, <1>5, <1>7, <2>2
  <1>9. mem[a] \in Nat
    BY <1>4, <1>5
  <1> HIDE DEF u, v
  <1>10. PICK c \in Nat : 2 * Half = Radix * c
    <2>1. Power(Radix, (WordBytes - 1) + 1) = Radix * Power(Radix, WordBytes - 1)
          /\ Power(Radix, WordBytes - 1) \in Nat
      BY <1>5, PowerIs
    <2>2. (WordBytes - 1) + 1 = WordBytes
      BY <1>5
    <2> QED
      BY <2>1, <2>2, ByteFacts
  <1>11. \E z \in Int : mem[a] - ReadWord(mem, a) = Radix * z
    <2>1. ReadWord(mem, a) = IF u >= Half THEN u - 2 * Half ELSE u
      BY <1>3, <1>6 DEF u, wrapU64ToI64
    <2>2. CASE u >= Half
      <3>1. mem[a] - ReadWord(mem, a) = Radix * (c - v)
        BY <1>5, <1>8, <1>9, <1>10, <2>1, <2>2
      <3> QED
        BY <1>8, <3>1
    <2>3. CASE ~(u >= Half)
      <3>1. mem[a] - ReadWord(mem, a) = Radix * (-v)
        BY <1>5, <1>8, <1>9, <2>1, <2>3
      <3> QED
        BY <1>8, <3>1
    <2> QED
      BY <2>2, <2>3
  <1> QED
    BY <1>5, <1>11, MultipleVanishes

-------------------------------------------------------------------------------
(* The states of a CPU.                                                      *)

FlagSets == [zero : BOOLEAN, sign : BOOLEAN, carry : BOOLEAN, overflow : BOOLEAN]

CPUStates ==
    [regs : [Registers -> Words], mem : Memories, flags : FlagSets,
     mode : {"User", "Kernel"}, pc : Nat, sp : Nat, halted : BOOLEAN, error : BOOLEAN,
     ksp : Nat, kstack : BOOLEAN, enabled : BOOLEAN, out : Seq(Words)]

\* A CPU that has put out at most n words.
CPUs(n) == {s \in CPUStates : Len(s.out) <= n}

Results == [value : Words, zero : BOOLEAN, sign : BOOLEAN, carry : BOOLEAN, overflow : BOOLEAN]

LEMMA WordFacts ==
    /\ Words \subseteq Int
    /\ \A x \in Words : x \in Int
    /\ \A x \in Words : x >= -(2 * Half)
    /\ \A x \in Nat : x <= MaxWord => x \in Words
    /\ 0 \in Words
  BY ByteFacts DEF Words, MinWord, MaxWord

LEMMA NonNegativeWords ==
    \A x \in Words : x >= 0 => x \in Nat
  BY ByteFacts DEF Words, MinWord, MaxWord

LEMMA MadeType ==
    ASSUME NEW v \in Words, NEW c \in BOOLEAN, NEW o \in BOOLEAN
    PROVE  makeResult(v, c, o) \in Results
  <1>1. (v = 0) \in BOOLEAN /\ (v < 0) \in BOOLEAN
    BY WordFacts
  <1> QED
    BY <1>1 DEF makeResult, Results

\* Every operation leaves a word and four flags.
LEMMA AluType ==
    ASSUME NEW l \in Words, NEW r \in Words, NEW o,
           o \in AluOpcodes \cup {"CMP", "TEST", "NOT"}, o = "DIV" => Divides(l, r)
    PROVE  Alu(o, l, r) \in Results
  <1>1. /\ Half \in Nat \ {0}
        /\ l \in Int /\ -Half <= l /\ l < Half
        /\ r \in Int /\ -Half <= r /\ r < Half
    BY WidthAssumption DEF Words, MinWord, MaxWord
  <1>2. add(l, r) \in Results
    <2> DEFINE u == Unsigned(l)
               v == Unsigned(r)
               sum == IF u + v >= 2 * Half THEN u + v - 2 * Half ELSE u + v
    <2>1. u \in Nat /\ u < 2 * Half /\ v \in Nat /\ v < 2 * Half
      BY WordCasts
    <2>2. add(l, r) = makeResult(wrapU64ToI64(sum), sum < u, addSignedOverflow(l, r))
      BY DEF add
    <2> HIDE DEF u, v
    <2>3. sum \in Nat /\ sum < 2 * Half
      BY <1>1, <2>1
    <2> HIDE DEF sum
    <2>4. wrapU64ToI64(sum) \in Words /\ (sum < u) \in BOOLEAN
      BY <2>3, WordCasts
    <2>5. addSignedOverflow(l, r) \in BOOLEAN
      BY DEF addSignedOverflow
    <2> QED
      BY <2>2, <2>4, <2>5, MadeType
  <1>3. sub(l, r) \in Results
    <2> DEFINE u == Unsigned(l)
               v == Unsigned(r)
               d == IF u < v THEN u - v + 2 * Half ELSE u - v
    <2>1. u \in Nat /\ u < 2 * Half /\ v \in Nat /\ v < 2 * Half
      BY WordCasts
    <2>2. sub(l, r) = makeResult(wrapU64ToI64(d), u < v, subSignedOverflow(l, r))
      BY DEF sub
    <2> HIDE DEF u, v
    <2>3. d \in Nat /\ d < 2 * Half
      BY <1>1, <2>1
    <2> HIDE DEF d
    <2>4. wrapU64ToI64(d) \in Words /\ (u < v) \in BOOLEAN
      BY <2>3, WordCasts
    <2>5. subSignedOverflow(l, r) \in BOOLEAN
      BY DEF subSignedOverflow
    <2> QED
      BY <2>2, <2>4, <2>5, MadeType
  <1>4. mul(l, r) \in Results
    <2> DEFINE u == Unsigned(l)
               v == Unsigned(r)
               p == u * v
               m == 2 * Half
    <2>1. u \in Nat /\ v \in Nat
      BY WordCasts
    <2>2. mul(l, r) = makeResult(wrapU64ToI64(p % m),
                                 mulSignedOverflow(l, r), mulSignedOverflow(l, r))
      BY DEF mul
    <2> HIDE DEF u, v
    <2>3. p \in Nat /\ m \in Nat \ {0}
      BY <1>1, <2>1
    <2> HIDE DEF p
    <2>4. p % m \in 0 .. m - 1
      <3> HIDE DEF m
      <3> QED
        BY <2>3, Remainder, Zenon
    <2>5. wrapU64ToI64(p % m) \in Words
      BY <1>1, <2>4, WordCasts
    <2>6. mulSignedOverflow(l, r) \in BOOLEAN
      BY DEF mulSignedOverflow
    <2> QED
      BY <2>2, <2>5, <2>6, MadeType
  <1>5. Divides(l, r) => div(l, r) \in Results
    <2> SUFFICES ASSUME Divides(l, r) PROVE div(l, r) \in Results
      OBVIOUS
    <2>1. div(l, r).value \in Words
      BY DivisionTruncates
    <2>2. Quotient(l, r) \in Words
      BY <2>1 DEF div, makeResult
    <2> QED
      BY <2>2, MadeType DEF div
  <1>6. \A S : FromBits(S) \in Results
    <2> TAKE S
    <2>1. FromBits(S) = makeResult(FromBits(S).value, FALSE, FALSE) /\ FromBits(S).value \in Words
      BY FromBitsIs
    <2> QED
      BY <2>1, MadeType
  <1>7. /\ bitAnd(l, r) \in Results /\ bitOr(l, r) \in Results
        /\ bitXor(l, r) \in Results /\ bitNot(l) \in Results
    BY <1>6 DEF bitAnd, bitOr, bitXor, bitNot
  <1>8. o \in {"ADD", "SUB", "MUL", "DIV", "AND", "OR", "XOR", "CMP", "TEST", "NOT"}
    BY DEF AluOpcodes, Arithmetic, Logic
  <1>9. /\ o = "ADD" => Alu(o, l, r) = add(l, r)
        /\ o \in {"SUB", "CMP"} => Alu(o, l, r) = sub(l, r)
        /\ o = "MUL" => Alu(o, l, r) = mul(l, r)
        /\ o = "DIV" => Alu(o, l, r) = div(l, r)
        /\ o \in {"AND", "TEST"} => Alu(o, l, r) = bitAnd(l, r)
        /\ o = "OR" => Alu(o, l, r) = bitOr(l, r)
        /\ o = "XOR" => Alu(o, l, r) = bitXor(l, r)
        /\ o = "NOT" => Alu(o, l, r) = bitNot(l)
    BY DEF Alu
  <1> QED
    BY <1>2, <1>3, <1>4, <1>5, <1>7, <1>8, <1>9

LEMMA StateFields ==
    ASSUME NEW n \in Nat, NEW s \in CPUs(n)
    PROVE  /\ s.regs \in [Registers -> Words] /\ s.mem \in Memories /\ s.flags \in FlagSets
           /\ s.mode \in {"User", "Kernel"} /\ s.pc \in Nat /\ s.sp \in Nat /\ s.ksp \in Nat
           /\ s.halted \in BOOLEAN /\ s.error \in BOOLEAN
           /\ s.kstack \in BOOLEAN /\ s.enabled \in BOOLEAN
           /\ s.out \in Seq(Words) /\ Len(s.out) <= n /\ Len(s.out) \in Nat
  BY DEF CPUs, CPUStates

LEMMA StatesGrow ==
    ASSUME NEW n \in Nat
    PROVE  CPUs(n) \subseteq CPUs(n + 1)
  BY DEF CPUs, CPUStates

\* The updates that an instruction is made of stay in the type.
LEMMA SimpleUpdates ==
    ASSUME NEW n \in Nat, NEW s \in CPUs(n)
    PROVE  /\ Failed(s) \in CPUs(n)
           /\ \A p \in Nat : [s EXCEPT !.pc = p] \in CPUs(n)
           /\ Advanced(s) \in CPUs(n) /\ BinaryAdvanced(s) \in CPUs(n)
           /\ [s EXCEPT !.halted = TRUE] \in CPUs(n)
           /\ \A b \in BOOLEAN : [s EXCEPT !.enabled = b] \in CPUs(n)
           /\ \A m \in Memories : [s EXCEPT !.mem = m] \in CPUs(n)
  <1>1. InstructionSize \in Nat
    BY ByteFacts DEF InstructionSize, ReservedTail
  <1>2. Failed(s) \in CPUs(n)
    BY DEF CPUs, CPUStates, Failed
  <1>3. \A p \in Nat : [s EXCEPT !.pc = p] \in CPUs(n)
    BY DEF CPUs, CPUStates
  <1>4. Advanced(s) \in CPUs(n)
    BY DEF CPUs, CPUStates, Advanced
  <1>5. BinaryAdvanced(s) \in CPUs(n)
    BY <1>1 DEF CPUs, CPUStates, BinaryAdvanced
  <1>6. [s EXCEPT !.halted = TRUE] \in CPUs(n)
    BY DEF CPUs, CPUStates
  <1>7. \A b \in BOOLEAN : [s EXCEPT !.enabled = b] \in CPUs(n)
    BY DEF CPUs, CPUStates
  <1>8. \A m \in Memories : [s EXCEPT !.mem = m] \in CPUs(n)
    BY DEF CPUs, CPUStates
  <1> QED
    BY <1>2, <1>3, <1>4, <1>5, <1>6, <1>7, <1>8

LEMMA FlagUpdates ==
    ASSUME NEW n \in Nat, NEW s \in CPUs(n)
    PROVE  /\ \A r \in Registers, x \in Words : SetReg(s, r, x) \in CPUs(n)
           /\ \A x \in Words : updateZeroAndSign(s, x) \in CPUs(n)
           /\ \A x \in Results : applyALUResultToFlags(s, x) \in CPUs(n)
  <1>1. \A r \in Registers, x \in Words : SetReg(s, r, x) \in CPUs(n)
    BY DEF CPUs, CPUStates, SetReg
  <1>2. \A x \in Words : (x = 0) \in BOOLEAN /\ (x < 0) \in BOOLEAN
    BY WordFacts
  <1>3. \A x \in Words : updateZeroAndSign(s, x) \in CPUs(n)
    BY <1>2 DEF CPUs, CPUStates, FlagSets, updateZeroAndSign
  <1>4. \A x \in Results : applyALUResultToFlags(s, x) \in CPUs(n)
    BY DEF CPUs, CPUStates, FlagSets, applyALUResultToFlags, Results
  <1> QED
    BY <1>1, <1>3, <1>4

LEMMA StackUpdates ==
    ASSUME NEW n \in Nat, NEW s \in CPUs(n)
    PROVE  /\ \A p \in Nat : MovedSp(s, p) \in CPUs(n)
           /\ \A x \in Int : x >= -(2 * Half) => pushValue(s, x) \in CPUs(n)
           /\ CanPop(s, 1) => Popped(s) \in CPUs(n)
  <1>1. \A t \in CPUs(n), p \in Nat : MovedSp(t, p) \in CPUs(n)
    BY DEF CPUs, CPUStates, MovedSp
  <1>2. ASSUME NEW x \in Int, x >= -(2 * Half)
        PROVE  pushValue(s, x) \in CPUs(n)
    <2>1. s.mem \in Memories /\ s.sp \in Nat
      BY StateFields
    <2>2. WriteWord(s.mem, s.sp, x) \in Memories
      BY <1>2, <2>1, WriteWordType
    <2>3. [s EXCEPT !.mem = WriteWord(s.mem, s.sp, x)] \in CPUs(n)
      BY <2>2, SimpleUpdates
    <2>4. s.sp + WordBytes \in Nat
      BY <2>1, ByteFacts
    <2> QED
      BY <1>1, <2>3, <2>4, Zenon DEF pushValue
  <1>3. CanPop(s, 1) => Popped(s) \in CPUs(n)
    <2> SUFFICES ASSUME CanPop(s, 1) PROVE Popped(s) \in CPUs(n)
      OBVIOUS
    <2>1. s.sp - WordBytes \in Nat
      BY StateFields, ByteFacts, LayoutAssumption DEF CanPop, Base
    <2> QED
      BY <1>1, <2>1 DEF Popped
  <1> QED
    BY <1>1, <1>2, <1>3

-------------------------------------------------------------------------------
(* The data path, the stack and interrupt frames.                            *)

LEMMA Layout ==
    /\ CodeBase \in Nat /\ StackBase \in Nat /\ KBase \in Nat /\ MemEnd \in Nat
    /\ DebugBase \in Nat /\ MaxSteps \in Nat
    /\ CodeBase < StackBase /\ StackBase < KBase /\ KBase < MemEnd /\ MemEnd <= DebugBase
    /\ WordBytes \in Nat \ {0} /\ InstructionSize \in Nat /\ InstructionSize >= 8
    /\ FrameSize = 4 * WordBytes
  BY LayoutAssumption, ByteFacts DEF InstructionSize, ReservedTail, FrameSize

\* A range of addresses is in memory if it ends there (Memory::checkRange).
LEMMA MemoryRange ==
    ASSUME NEW mem \in Memories, NEW a, NEW k
    PROVE  InRange(mem, a, k) <=> a >= 0 /\ a + k <= MemEnd
  <1>1. Cardinality(0 .. MemEnd - 1) = MemEnd
    <2>1. 0 \in Int /\ MemEnd - 1 \in Int /\ 0 <= MemEnd - 1
      BY Layout
    <2>2. Cardinality(0 .. MemEnd - 1) = (MemEnd - 1) - 0 + 1
      BY <2>1, FS_Interval
    <2> QED
      BY <2>2, Layout
  <1>2. DOMAIN mem = 0 .. MemEnd - 1
    BY DEF Memories
  <1> QED
    BY <1>1, <1>2 DEF InRange

\* What the data path reads is a word, from memory or from the device.
LEMMA ReadDataType ==
    ASSUME NEW n \in Nat, n <= MaxWord, NEW s \in CPUs(n), NEW a \in Nat, CanReadData(s, a)
    PROVE  ReadData(s, a) \in Words
  <1>1. CASE HasDevice(a)
    <2>1. Len(s.out) \in Nat /\ Len(s.out) <= MaxWord /\ s.out \in Seq(Words)
      BY StateFields, ByteFacts DEF MaxWord
    <2>2. Len(s.out) \in Words
      BY <2>1, WordFacts
    <2>3. s.out # <<>> => s.out[Len(s.out)] \in Words
      BY <2>1
    <2> QED
      BY <1>1, <2>2, <2>3, WordFacts DEF ReadData
  <1>2. CASE ~HasDevice(a)
    <2>1. s.mem \in Memories
      BY StateFields
    <2>2. a + WordBytes <= MemEnd
      BY <1>2, <2>1, MemoryRange DEF CanReadData
    <2> QED
      BY <1>2, <2>1, <2>2, ReadWordType DEF ReadData
  <1> QED
    BY <1>1, <1>2

\* Operands as the interpreters use them.
Readable(o) ==
    /\ o.type \in {"Register", "RegisterIndirectAddress"} => o.v \in Registers
    /\ o.type = "Immediate" => o.v \in Words
    /\ o.type = "MemoryAddress" => o.v \in Nat

LEMMA AddressType ==
    ASSUME NEW n \in Nat, NEW s \in CPUs(n), NEW o, Readable(o), HasAddress(s, o)
    PROVE  Address(s, o) \in Nat
  <1>1. CASE o.type = "MemoryAddress"
    BY <1>1 DEF Readable, Address
  <1>2. CASE o.type = "RegisterIndirectAddress"
    <2>1. o.v \in Registers /\ Address(s, o) = s.regs[o.v]
      BY <1>2 DEF Readable, Address
    <2>2. s.regs[o.v] \in Int
      BY <2>1, StateFields, WordFacts
    <2> QED
      BY <2>1, <2>2 DEF HasAddress
  <1> QED
    BY <1>1, <1>2 DEF HasAddress, IsMemory

LEMMA ValueType ==
    ASSUME NEW n \in Nat, n <= MaxWord, NEW s \in CPUs(n), NEW o, Readable(o), CanRead(s, o)
    PROVE  Value(s, o) \in Words
  <1>1. CASE o.type = "Register"
    BY <1>1, StateFields DEF Readable, Value
  <1>2. CASE o.type = "Immediate"
    BY <1>2 DEF Readable, Value
  <1>3. CASE o.type \notin {"Register", "Immediate"}
    <2>1. HasAddress(s, o) /\ CanReadData(s, Address(s, o))
      BY <1>3 DEF CanRead
    <2>2. Address(s, o) \in Nat
      BY <2>1, AddressType
    <2>3. ReadData(s, Address(s, o)) \in Words
      BY <2>1, <2>2, ReadDataType
    <2> QED
      BY <1>3, <2>3 DEF Value
  <1> QED
    BY <1>1, <1>2, <1>3

\* A store writes a word, or puts one out.
LEMMA WriteDataType ==
    ASSUME NEW n \in Nat, NEW s \in CPUs(n), NEW a \in Nat, NEW x \in Words
    PROVE  WriteData(s, a, x) \in CPUs(n + 1)
  <1>1. CASE HasDevice(a)
    <2>1. s.out \in Seq(Words) /\ Len(s.out) <= n
      BY StateFields
    <2>2. Append(s.out, x) \in Seq(Words) /\ Len(Append(s.out, x)) <= n + 1
      BY <2>1
    <2>3. \A q \in Seq(Words) : Len(q) <= n + 1 => [s EXCEPT !.out = q] \in CPUs(n + 1)
      BY DEF CPUs, CPUStates
    <2> QED
      BY <1>1, <2>2, <2>3 DEF WriteData
  <1>2. CASE ~HasDevice(a)
    <2>1. WriteWord(s.mem, a, x) \in Memories
      BY StateFields, WordFacts, WriteWordType
    <2>2. [s EXCEPT !.mem = WriteWord(s.mem, a, x)] \in CPUs(n)
      BY <2>1, SimpleUpdates
    <2> QED
      BY <1>2, <2>2, StatesGrow DEF WriteData
  <1> QED
    BY <1>1, <1>2

\* A slot that can be popped lies in memory and holds a word.
LEMMA PeekType ==
    ASSUME NEW n \in Nat, NEW s \in CPUs(n), CanPop(s, 1)
    PROVE  /\ s.sp - WordBytes \in Nat /\ (s.sp - WordBytes) + WordBytes <= MemEnd
           /\ peekValue(s) \in Words
  <1>1. s.sp - WordBytes \in Nat /\ (s.sp - WordBytes) + WordBytes <= MemEnd
    BY StateFields, Layout DEF CanPop, Base, End, SpInRange
  <1>2. s.mem \in Memories
    BY StateFields
  <1> QED
    BY <1>1, <1>2, ReadWordType DEF peekValue

LEMMA FrameWordType ==
    ASSUME NEW n \in Nat, NEW s \in CPUs(n), CanPop(s, 4)
    PROVE  /\ \A k \in 0 .. 3 : FrameWord(s, k) \in Words
           /\ s.sp - FrameSize \in Nat
  <1>1. s.sp - FrameSize \in Nat /\ s.sp <= MemEnd
    BY StateFields, Layout DEF CanPop, Base, End, SpInRange
  <1>2. ASSUME NEW k \in 0 .. 3
        PROVE  FrameWord(s, k) \in Words
    <2> DEFINE a == s.sp - FrameSize + k * WordBytes
    <2>1. a \in Nat /\ a + WordBytes <= MemEnd
      <3>1. k \in {0, 1, 2, 3}
        OBVIOUS
      <3>2. k * WordBytes \in Nat /\ k * WordBytes + WordBytes <= 4 * WordBytes
        BY <3>1, Layout
      <3> QED
        BY <1>1, <3>2, StateFields, Layout
    <2>2. s.mem \in Memories
      BY StateFields
    <2> HIDE DEF a
    <2>3. ReadWord(s.mem, a) \in Words
      BY <2>1, <2>2, ReadWordType
    <2> QED
      BY <2>3 DEF FrameWord, a
  <1> QED
    BY <1>1, <1>2

LEMMA FrameUpdates ==
    ASSUME NEW n \in Nat, NEW s \in CPUs(n)
    PROVE  /\ \A p \in Nat : pushInterruptFrame(s, p) \in CPUs(n)
           /\ (CanPop(s, 4) /\ FrameWord(s, 0) >= 0 /\ FrameWord(s, 3) >= 0)
                 => restoreInterruptFrame(s) \in CPUs(n)
  <1>1. ASSUME NEW p \in Nat
        PROVE  pushInterruptFrame(s, p) \in CPUs(n)
    <2> DEFINE b == FrameBase(s)
               k == s.kstack \/ s.mode = "User"
               f == Bytes(p) \o Bytes(packFlags(s.flags))
                    \o Bytes(IF s.mode = "User" THEN 1 ELSE 0) \o Bytes(s.sp)
               m == WriteBytes(s.mem, b, f)
               z == IF k THEN b + FrameSize ELSE s.ksp
    <2>1. b \in Nat /\ k \in BOOLEAN /\ b + FrameSize \in Nat /\ s.ksp \in Nat
      BY StateFields, Layout DEF FrameBase
    <2>2. packFlags(s.flags) \in Nat
      BY StateFields DEF packFlags, FlagSets
    <2>3. \A x \in Nat : Bytes(x) \in Seq(Byte)
      BY BytesType, ByteFacts
    <2>4. /\ Bytes(p) \in Seq(Byte) /\ Bytes(packFlags(s.flags)) \in Seq(Byte)
          /\ Bytes(IF s.mode = "User" THEN 1 ELSE 0) \in Seq(Byte)
          /\ Bytes(s.sp) \in Seq(Byte)
      BY <2>2, <2>3, StateFields
    <2>5. f \in Seq(Byte)
      BY <2>4
    <2> HIDE DEF b, k, f
    <2>6. m \in Memories
      BY <2>1, <2>5, StateFields, WriteBytesType
    <2>7. pushInterruptFrame(s, p)
            = [s EXCEPT !.mem = m, !.sp = b + FrameSize, !.mode = "Kernel",
                        !.kstack = k, !.ksp = z]
      BY DEF pushInterruptFrame, b, k, f
    <2>8. z \in Nat
      BY <2>1
    <2> HIDE DEF m, z
    <2>9. [s EXCEPT !.mem = m, !.sp = b + FrameSize, !.mode = "Kernel",
                    !.kstack = k, !.ksp = z] \in CPUs(n)
      BY <2>1, <2>6, <2>8 DEF CPUs, CPUStates
    <2> QED
      BY <2>7, <2>9, Zenon
  <1>2. ASSUME CanPop(s, 4), FrameWord(s, 0) >= 0, FrameWord(s, 3) >= 0
        PROVE  restoreInterruptFrame(s) \in CPUs(n)
    <2> DEFINE toUser == RestoredMode(s) = "User"
               k == s.kstack /\ ~toUser
               z == IF ~s.kstack THEN s.ksp
                    ELSE IF toUser THEN s.sp - FrameSize ELSE FrameWord(s, 3)
    <2>1. /\ FrameWord(s, 0) \in Nat /\ FrameWord(s, 3) \in Nat /\ s.sp - FrameSize \in Nat
      <3>1. 0 \in 0 .. 3 /\ 3 \in 0 .. 3
        OBVIOUS
      <3>2. FrameWord(s, 0) \in Words /\ FrameWord(s, 3) \in Words /\ s.sp - FrameSize \in Nat
        BY <1>2, <3>1, FrameWordType
      <3>3. \A x \in Words : x >= 0 => x \in Nat
        BY NonNegativeWords
      <3> QED
        BY <1>2, <3>2, <3>3
    <2>2. restoreFlags(FrameWord(s, 1)) \in FlagSets
      BY DEF restoreFlags, FlagSets, Bit
    <2>3. RestoredMode(s) \in {"User", "Kernel"} /\ toUser \in BOOLEAN
      BY DEF RestoredMode
    <2>5. restoreInterruptFrame(s)
            = [s EXCEPT !.flags = restoreFlags(FrameWord(s, 1)),
                        !.mode = RestoredMode(s), !.pc = FrameWord(s, 0),
                        !.sp = FrameWord(s, 3), !.kstack = k, !.ksp = z]
      BY DEF restoreInterruptFrame
    <2>6. k \in BOOLEAN /\ z \in Nat
      BY <2>1, <2>3, StateFields
    <2> HIDE DEF toUser, k, z
    <2>7. [s EXCEPT !.flags = restoreFlags(FrameWord(s, 1)),
                    !.mode = RestoredMode(s), !.pc = FrameWord(s, 0),
                    !.sp = FrameWord(s, 3), !.kstack = k, !.ksp = z] \in CPUs(n)
      BY <2>1, <2>2, <2>3, <2>6 DEF CPUs, CPUStates
    <2> QED
      BY <2>5, <2>7, Zenon
  <1> QED
    BY <1>1, <1>2

-------------------------------------------------------------------------------
(* What a loaded program is, and what its instructions leave.                *)

Loaded == \E family \in Programs : program \in family

\* What a loaded program has.
LEMMA ProgramFacts ==
    ASSUME Loaded
    PROVE  /\ program.mode \in {"User", "Kernel"}
           /\ program.code \in Seq(Range(program.code))
           /\ Len(program.code) \in Nat
           /\ Len(program.code) * InstructionSize <= StackBase - CodeBase
           /\ program.labels["handler"] \in Nat
           /\ \A l \in DOMAIN program.labels : program.labels[l] \in Nat
           /\ \A k \in 1 .. Len(program.code) :
                 /\ program.code[k].op \in Opcodes
                 /\ Typed(program.code[k].dst) /\ Typed(program.code[k].src)
                 /\ Encodable(program.code[k], program.labels)
  <1>1. PICK family \in Programs : program \in family
    BY DEF Loaded
  <1>2. /\ program.mode \in {"User", "Kernel"}
        /\ program.code \in Seq(Range(program.code))
        /\ \A k \in 1 .. Len(program.code) :
              /\ program.code[k].op \in Opcodes
              /\ Typed(program.code[k].dst) /\ Typed(program.code[k].src)
        /\ "handler" \in DOMAIN program.labels
        /\ \A l \in DOMAIN program.labels : program.labels[l] \in Nat
    BY <1>1, ProgramAssumption, Zenon
  <1>3. /\ Len(program.code) * InstructionSize <= StackBase - CodeBase
        /\ \A k \in 1 .. Len(program.code) : Encodable(program.code[k], program.labels)
    BY <1>1, LayoutAssumption, Zenon
  <1>4. Len(program.code) \in Nat
    BY <1>2
  <1> QED
    BY <1>2, <1>3, <1>4, Zenon

OpcodeNames ==
    {"NOP", "HALT", "MOV", "LOAD", "STORE", "ADD", "SUB", "MUL", "DIV", "CMP", "TEST",
     "JMP", "JE", "JNE", "JG", "JL", "PUSH", "POP", "CALL", "RET", "IRET",
     "AND", "OR", "XOR", "NOT", "EI", "DI", "INT"}

LEMMA OpcodesAre == Opcodes = OpcodeNames
  BY DEF Opcodes, encodeOpcode, OpcodeNames

\* What an instruction leaves that stores a value, or a result, in a register.
LEMMA Moves ==
    ASSUME NEW n \in Nat, NEW s \in CPUs(n), NEW r \in Registers, NEW x \in Words
    PROVE  /\ Advanced(updateZeroAndSign(SetReg(s, r, x), x)) \in CPUs(n)
           /\ BinaryAdvanced(updateZeroAndSign(SetReg(s, r, x), x)) \in CPUs(n)
  <1>1. SetReg(s, r, x) \in CPUs(n)
    BY FlagUpdates
  <1>2. updateZeroAndSign(SetReg(s, r, x), x) \in CPUs(n)
    BY <1>1, FlagUpdates
  <1> QED
    BY <1>2, SimpleUpdates

LEMMA Computes ==
    ASSUME NEW n \in Nat, NEW s \in CPUs(n), NEW r \in Registers, NEW x \in Results
    PROVE  /\ Advanced(applyALUResultToFlags(SetReg(s, r, x.value), x)) \in CPUs(n)
           /\ BinaryAdvanced(applyALUResultToFlags(SetReg(s, r, x.value), x)) \in CPUs(n)
           /\ Advanced(applyALUResultToFlags(s, x)) \in CPUs(n)
           /\ BinaryAdvanced(applyALUResultToFlags(s, x)) \in CPUs(n)
  <1>1. x.value \in Words
    BY DEF Results
  <1>2. SetReg(s, r, x.value) \in CPUs(n)
    BY <1>1, FlagUpdates
  <1>3. /\ applyALUResultToFlags(SetReg(s, r, x.value), x) \in CPUs(n)
        /\ applyALUResultToFlags(s, x) \in CPUs(n)
    BY <1>2, FlagUpdates
  <1> QED
    BY <1>3, SimpleUpdates

LEMMA Stores ==
    ASSUME NEW n \in Nat, NEW s \in CPUs(n), NEW a \in Nat, NEW x \in Words
    PROVE  /\ Advanced(updateZeroAndSign(WriteData(s, a, x), x)) \in CPUs(n + 1)
           /\ BinaryAdvanced(updateZeroAndSign(WriteData(s, a, x), x)) \in CPUs(n + 1)
  <1>0. n + 1 \in Nat
    OBVIOUS
  <1>1. WriteData(s, a, x) \in CPUs(n + 1)
    BY WriteDataType
  <1>2. updateZeroAndSign(WriteData(s, a, x), x) \in CPUs(n + 1)
    BY <1>0, <1>1, FlagUpdates
  <1> QED
    BY <1>0, <1>2, SimpleUpdates

LEMMA Pushes ==
    ASSUME NEW n \in Nat, NEW s \in CPUs(n), NEW x \in Int, x >= -(2 * Half), NEW p \in Nat
    PROVE  /\ Advanced(pushValue(s, x)) \in CPUs(n)
           /\ BinaryAdvanced(pushValue(s, x)) \in CPUs(n)
           /\ [pushValue(s, x) EXCEPT !.pc = p] \in CPUs(n)
  <1>1. pushValue(s, x) \in CPUs(n)
    BY StackUpdates
  <1> QED
    BY <1>1, SimpleUpdates

LEMMA Pops ==
    ASSUME NEW n \in Nat, NEW s \in CPUs(n), NEW r \in Registers, CanPop(s, 1), NEW p \in Nat
    PROVE  /\ Advanced(updateZeroAndSign(SetReg(Popped(s), r, peekValue(s)), peekValue(s)))
                \in CPUs(n)
           /\ BinaryAdvanced(updateZeroAndSign(SetReg(Popped(s), r, peekValue(s)), peekValue(s)))
                \in CPUs(n)
           /\ [Popped(s) EXCEPT !.pc = p] \in CPUs(n)
  <1>1. Popped(s) \in CPUs(n)
    BY StackUpdates
  <1>2. peekValue(s) \in Words
    BY PeekType
  <1> QED
    BY <1>1, <1>2, Moves, SimpleUpdates

LEMMA Interrupts ==
    ASSUME NEW n \in Nat, NEW s \in CPUs(n), NEW a \in Nat, NEW x \in Words, NEW p \in Nat
    PROVE  [SetReg(pushInterruptFrame(s, a), 0, x) EXCEPT !.pc = p] \in CPUs(n)
  <1>1. pushInterruptFrame(s, a) \in CPUs(n)
    BY FrameUpdates
  <1>2. 0 \in Registers
    BY DEF Registers
  <1>3. SetReg(pushInterruptFrame(s, a), 0, x) \in CPUs(n)
    BY <1>1, <1>2, FlagUpdates
  <1> QED
    BY <1>3, SimpleUpdates

LEMMA Restores ==
    ASSUME NEW n \in Nat, NEW s \in CPUs(n),
           FrameRestorable(s, ExecutableIndex) \/ FrameRestorable(s, ExecutableAddress)
    PROVE  restoreInterruptFrame(s) \in CPUs(n)
  <1>1. CanPop(s, 4) /\ FrameWord(s, 0) >= 0
    BY DEF FrameRestorable
  <1>2. \/ SpInRange(FrameWord(s, 3), StackBase, KBase)
        \/ SpInRange(FrameWord(s, 3), KBase, MemEnd)
        \/ SpInRange(FrameWord(s, 3), StackBase, MemEnd)
    BY DEF FrameRestorable
  <1>3. FrameWord(s, 3) \in Int
    <2>1. 3 \in 0 .. 3
      OBVIOUS
    <2> QED
      BY <1>1, <2>1, FrameWordType, WordFacts
  <1>4. FrameWord(s, 3) >= 0
    BY <1>2, <1>3, Layout DEF SpInRange
  <1> QED
    BY <1>1, <1>4, FrameUpdates

-------------------------------------------------------------------------------
(* execute keeps the type.                                                   *)

LEMMA TypedReadable ==
    ASSUME NEW o, Typed(o)
    PROVE  Readable(o)
  BY DEF Typed, Readable

\* What the one form can read, the other can.
LEMMA BinaryReads ==
    ASSUME NEW s, NEW o
    PROVE  /\ HasBinaryAddress(s, o) => HasAddress(s, o)
           /\ CanReadBinary(s, o) => CanRead(s, o)
  BY DEF HasBinaryAddress, HasAddress, IsMemory, Address, CanReadBinary, CanRead

\* Each opcode has its handler (CPU::execute).
LEMMA ExecuteIs ==
    ASSUME NEW s, NEW i
    PROVE  /\ Privileged(s, i.op) => execute(s, i) = Failed(s)
           /\ ~Privileged(s, i.op) =>
                /\ i.op = "MOV" => execute(s, i) = executeMov(s, i)
                /\ i.op = "LOAD" => execute(s, i) = executeLoad(s, i)
                /\ i.op = "STORE" => execute(s, i) = executeStore(s, i)
                /\ i.op \in Arithmetic => execute(s, i) = executeArithmetic(s, i)
                /\ i.op \in Logic => execute(s, i) = executeLogic(s, i)
                /\ i.op \in {"CMP", "TEST"} => execute(s, i) = executeCmp(s, i)
                /\ i.op = "NOT" => execute(s, i) = executeNot(s, i)
                /\ i.op = "JMP" => execute(s, i) = executeJmp(s, i)
                /\ i.op \in ConditionalJumps => execute(s, i) = executeBranch(s, i)
                /\ i.op = "PUSH" => execute(s, i) = executePush(s, i)
                /\ i.op = "POP" => execute(s, i) = executePop(s, i)
                /\ i.op = "CALL" => execute(s, i) = executeCall(s, i)
                /\ i.op = "RET" => execute(s, i) = executeRet(s, i)
                /\ i.op = "IRET" => execute(s, i) = executeIret(s, i)
                /\ i.op = "INT" => execute(s, i) = executeInt(s, i)
                /\ i.op \in {"NOP", "HALT"} => execute(s, i) = executePlain(s, i)
                /\ i.op \in {"EI", "DI"} => execute(s, i) = executeMask(s, i)
  BY DEF execute, Arithmetic, Logic, ConditionalJumps

\* An instruction of the list leaves a state of the CPU.
LEMMA ExecuteType ==
    ASSUME NEW n \in Nat, n <= MaxWord, NEW s \in CPUs(n), Loaded,
           NEW i, i.op \in Opcodes, Readable(i.dst), Readable(i.src),
           Encodable(i, program.labels)
    PROVE  execute(s, i) \in CPUs(n + 1)
  <1>1. /\ s.pc \in Nat /\ s.pc + 1 \in Nat /\ s.pc + 1 >= -(2 * Half)
        /\ s.regs \in [Registers -> Words]
    BY StateFields, ByteFacts
  <1>2. Failed(s) \in CPUs(n) /\ Advanced(s) \in CPUs(n)
    BY SimpleUpdates
  <1>3. \A o \in {i.dst, i.src} : CanRead(s, o) => Value(s, o) \in Words
    BY ValueType
  <1>4. \A o \in {i.dst, i.src} : HasAddress(s, o) => Address(s, o) \in Nat
    BY AddressType
  <1>5. RegisterDst(i) => i.dst.v \in Registers /\ s.regs[i.dst.v] \in Words
    BY <1>1 DEF RegisterDst, Readable
  <1>6. i.dst.type = "Label" => program.labels[i.dst.v] \in Nat
    BY ProgramFacts DEF Encodable
  <1>7. executeMov(s, i) \in CPUs(n)
    BY <1>2, <1>3, <1>5, Moves DEF executeMov
  <1>8. executeLoad(s, i) \in CPUs(n)
    BY <1>2, <1>4, <1>5, ReadDataType, Moves DEF executeLoad
  <1>9. executeStore(s, i) \in CPUs(n + 1)
    BY <1>2, <1>3, <1>4, Stores, StatesGrow DEF executeStore
  <1>10. i.op \in Arithmetic => executeArithmetic(s, i) \in CPUs(n)
    <2> SUFFICES ASSUME i.op \in Arithmetic,
                        TwoOperands(i) /\ RegisterDst(i) /\ CanRead(s, i.src),
                        i.op = "DIV" => Divides(s.regs[i.dst.v], Value(s, i.src))
                 PROVE  executeArithmetic(s, i) \in CPUs(n)
      BY <1>2 DEF executeArithmetic
    <2>1. Alu(i.op, s.regs[i.dst.v], Value(s, i.src)) \in Results
      BY <1>3, <1>5, AluType DEF AluOpcodes
    <2> QED
      BY <1>5, <2>1, Computes DEF executeArithmetic
  <1>11. i.op \in Logic => executeLogic(s, i) \in CPUs(n)
    <2> SUFFICES ASSUME i.op \in Logic,
                        TwoOperands(i) /\ RegisterDst(i) /\ CanRead(s, i.src)
                 PROVE  executeLogic(s, i) \in CPUs(n)
      BY <1>2 DEF executeLogic
    <2>1. Alu(i.op, s.regs[i.dst.v], Value(s, i.src)) \in Results
      BY <1>3, <1>5, AluType DEF AluOpcodes, Logic
    <2> QED
      BY <1>5, <2>1, Computes DEF executeLogic
  <1>12. i.op \in {"CMP", "TEST"} => executeCmp(s, i) \in CPUs(n)
    <2> SUFFICES ASSUME i.op \in {"CMP", "TEST"}, CanRead(s, i.dst), CanRead(s, i.src)
                 PROVE  Advanced(applyALUResultToFlags(s,
                            Alu(i.op, Value(s, i.dst), Value(s, i.src)))) \in CPUs(n)
      BY <1>2 DEF executeCmp
    <2>1. Alu(i.op, Value(s, i.dst), Value(s, i.src)) \in Results
      BY <1>3, AluType
    <2>2. 0 \in Registers
      BY DEF Registers
    <2> QED
      BY <2>1, <2>2, Computes
  <1>13. i.op = "NOT" => executeNot(s, i) \in CPUs(n)
    <2> SUFFICES ASSUME i.op = "NOT", SingleOperand(i) /\ RegisterDst(i)
                 PROVE  executeNot(s, i) \in CPUs(n)
      BY <1>2 DEF executeNot
    <2>1. Alu("NOT", s.regs[i.dst.v], s.regs[i.dst.v]) \in Results
      BY <1>5, AluType
    <2>2. bitNot(s.regs[i.dst.v]) \in Results
      BY <2>1 DEF Alu
    <2> QED
      BY <1>5, <2>2, Computes DEF executeNot
  <1>14. JumpTo(s, i.dst) \in CPUs(n)
    BY <1>2, <1>6, SimpleUpdates DEF JumpTo
  <1>15. executeJmp(s, i) \in CPUs(n) /\ executeBranch(s, i) \in CPUs(n)
    BY <1>2, <1>14 DEF executeJmp, executeBranch
  <1>16. executePush(s, i) \in CPUs(n)
    BY <1>2, <1>3, WordFacts, Pushes DEF executePush
  <1>17. executePop(s, i) \in CPUs(n)
    BY <1>2, <1>5, Pops DEF executePop
  <1>18. executeCall(s, i) \in CPUs(n)
    BY <1>1, <1>2, <1>6, Pushes DEF executeCall
  <1>19. executeRet(s, i) \in CPUs(n)
    <2>1. CanPop(s, 1) /\ peekValue(s) >= 0 => peekValue(s) \in Nat
      <3>1. \A x \in Words : x >= 0 => x \in Nat
        BY NonNegativeWords
      <3> QED
        BY <3>1, PeekType
    <2>2. 0 \in Registers
      BY DEF Registers
    <2> QED
      BY <1>2, <2>1, <2>2, Pops DEF executeRet
  <1>20. executeIret(s, i) \in CPUs(n)
    BY <1>2, Restores, Zenon DEF executeIret
  <1>21. executeInt(s, i) \in CPUs(n)
    BY <1>1, <1>2, <1>3, ProgramFacts, Interrupts DEF executeInt
  <1>22. executePlain(s, i) \in CPUs(n)
    BY <1>2, SimpleUpdates DEF executePlain
  <1>23. executeMask(s, i) \in CPUs(n)
    <2>1. (i.op = "EI") \in BOOLEAN
      OBVIOUS
    <2>2. [s EXCEPT !.enabled = (i.op = "EI")] \in CPUs(n)
      BY <2>1, SimpleUpdates
    <2> QED
      BY <1>2, <2>2, SimpleUpdates DEF executeMask
  <1>24. i.op \in OpcodeNames
    BY OpcodesAre
  <1>25. CASE Privileged(s, i.op)
    BY <1>2, <1>25, ExecuteIs, StatesGrow
  <1>26. CASE ~Privileged(s, i.op)
    <2>1. i.op \in {"MOV", "LOAD", "STORE", "JMP", "PUSH", "POP", "CALL", "RET", "IRET", "INT",
                    "NOP", "HALT", "EI", "DI", "CMP", "TEST", "NOT"}
          \/ i.op \in Arithmetic \/ i.op \in Logic \/ i.op \in ConditionalJumps
      BY <1>24 DEF OpcodeNames, Arithmetic, Logic, ConditionalJumps
    <2> QED
      BY <1>7, <1>8, <1>9, <1>10, <1>11, <1>12, <1>13, <1>15, <1>16, <1>17, <1>18,
         <1>19, <1>20, <1>21, <1>22, <1>23, <1>26, <2>1, ExecuteIs, StatesGrow
  <1> QED
    BY <1>25, <1>26

-------------------------------------------------------------------------------
(* executeBinaryInstruction keeps the type.                                  *)

\* Each opcode has its handler (CPU::executeBinaryInstruction).
LEMMA ExecuteBinaryIs ==
    ASSUME NEW s, NEW i
    PROVE  LET t == executeBinaryInstruction(s, i)
           IN /\ Privileged(s, i.op) => t = Failed(s)
              /\ ~Privileged(s, i.op) =>
                   /\ i.op = "MOV" => t = BinaryMov(s, i)
                   /\ i.op = "LOAD" => t = BinaryLoad(s, i)
                   /\ i.op = "STORE" => t = BinaryStore(s, i)
                   /\ i.op \in Arithmetic => t = BinaryArithmetic(s, i)
                   /\ i.op \in Logic => t = BinaryLogic(s, i)
                   /\ i.op \in {"CMP", "TEST"} => t = BinaryCmp(s, i)
                   /\ i.op = "NOT" => t = BinaryNot(s, i)
                   /\ i.op \in ConditionalJumps \cup {"JMP"} => t = BinaryJump(s, i)
                   /\ i.op = "PUSH" => t = BinaryPush(s, i)
                   /\ i.op = "POP" => t = BinaryPop(s, i)
                   /\ i.op = "CALL" => t = BinaryCall(s, i)
                   /\ i.op = "RET" => t = BinaryRet(s, i)
                   /\ i.op = "IRET" => t = BinaryIret(s, i)
                   /\ i.op = "INT" => t = BinaryInt(s, i)
                   /\ i.op \in {"NOP", "HALT"} => t = BinaryPlain(s, i)
                   /\ i.op \in {"EI", "DI"} => t = BinaryMask(s, i)
  BY DEF executeBinaryInstruction, Arithmetic, Logic, ConditionalJumps

\* An instruction of the binary form leaves a state of the CPU.
LEMMA ExecuteBinaryType ==
    ASSUME NEW n \in Nat, n <= MaxWord, NEW s \in CPUs(n), Loaded,
           NEW i, i.op \in Opcodes, Readable(i.dst), Readable(i.src), i.dst.v \in Words
    PROVE  executeBinaryInstruction(s, i) \in CPUs(n + 1)
  <1> DEFINE next == s.pc + InstructionSize
  <1>1. /\ s.pc \in Nat /\ next \in Nat /\ next >= -(2 * Half)
        /\ s.regs \in [Registers -> Words]
    BY StateFields, ByteFacts, Layout
  <1>2. Failed(s) \in CPUs(n) /\ BinaryAdvanced(s) \in CPUs(n)
    BY SimpleUpdates
  <1>3. \A o \in {i.dst, i.src} : CanReadBinary(s, o) => Value(s, o) \in Words
    BY ValueType, BinaryReads
  <1>4. \A o \in {i.dst, i.src} : HasBinaryAddress(s, o) => Address(s, o) \in Nat
    BY AddressType, BinaryReads
  <1>5. BinaryRegisterDst(i) => i.dst.v \in Registers /\ s.regs[i.dst.v] \in Words
    BY <1>1 DEF BinaryRegisterDst
  <1>6. HasCodeTarget(i.dst) => CodeTarget(i.dst) \in Nat
    <2>1. i.dst.v \in Int /\ CodeBase \in Nat
      BY WordFacts, Layout
    <2> QED
      BY <2>1 DEF HasCodeTarget, CodeTarget
  <1>7. BinaryMov(s, i) \in CPUs(n)
    BY <1>2, <1>3, <1>5, Moves DEF BinaryMov
  <1>8. BinaryLoad(s, i) \in CPUs(n)
    BY <1>2, <1>4, <1>5, ReadDataType, Moves DEF BinaryLoad
  <1>9. BinaryStore(s, i) \in CPUs(n + 1)
    BY <1>2, <1>3, <1>4, Stores, StatesGrow DEF BinaryStore
  <1>10. i.op \in Arithmetic => BinaryArithmetic(s, i) \in CPUs(n)
    <2> SUFFICES ASSUME i.op \in Arithmetic, BinaryRegisterDst(i) /\ CanReadBinary(s, i.src),
                        i.op = "DIV" => Divides(s.regs[i.dst.v], Value(s, i.src))
                 PROVE  BinaryArithmetic(s, i) \in CPUs(n)
      BY <1>2 DEF BinaryArithmetic
    <2>1. Alu(i.op, s.regs[i.dst.v], Value(s, i.src)) \in Results
      BY <1>3, <1>5, AluType DEF AluOpcodes
    <2> QED
      BY <1>2, <1>5, <2>1, Computes DEF BinaryArithmetic
  <1>11. i.op \in Logic => BinaryLogic(s, i) \in CPUs(n)
    <2> SUFFICES ASSUME i.op \in Logic, BinaryRegisterDst(i) /\ CanReadBinary(s, i.src)
                 PROVE  BinaryLogic(s, i) \in CPUs(n)
      BY <1>2 DEF BinaryLogic
    <2>1. Alu(i.op, s.regs[i.dst.v], Value(s, i.src)) \in Results
      BY <1>3, <1>5, AluType DEF AluOpcodes, Logic
    <2> QED
      BY <1>2, <1>5, <2>1, Computes DEF BinaryLogic
  <1>12. i.op \in {"CMP", "TEST"} => BinaryCmp(s, i) \in CPUs(n)
    <2> SUFFICES ASSUME i.op \in {"CMP", "TEST"},
                        CanReadBinary(s, i.dst), CanReadBinary(s, i.src)
                 PROVE  BinaryAdvanced(applyALUResultToFlags(s,
                            Alu(i.op, Value(s, i.dst), Value(s, i.src)))) \in CPUs(n)
      BY <1>2 DEF BinaryCmp
    <2>1. Alu(i.op, Value(s, i.dst), Value(s, i.src)) \in Results
      BY <1>3, AluType
    <2>2. 0 \in Registers
      BY DEF Registers
    <2> QED
      BY <2>1, <2>2, Computes
  <1>13. i.op = "NOT" => BinaryNot(s, i) \in CPUs(n)
    <2> SUFFICES ASSUME i.op = "NOT", BinaryRegisterDst(i)
                 PROVE  BinaryNot(s, i) \in CPUs(n)
      BY <1>2 DEF BinaryNot
    <2>1. Alu("NOT", s.regs[i.dst.v], s.regs[i.dst.v]) \in Results
      BY <1>5, AluType
    <2>2. bitNot(s.regs[i.dst.v]) \in Results
      BY <2>1 DEF Alu
    <2> QED
      BY <1>2, <1>5, <2>2, Computes DEF BinaryNot
  <1>14. BinaryJumpTo(s, i.dst) \in CPUs(n)
    BY <1>2, <1>6, SimpleUpdates DEF BinaryJumpTo
  <1>15. BinaryJump(s, i) \in CPUs(n)
    BY <1>2, <1>14 DEF BinaryJump
  <1>16. BinaryPush(s, i) \in CPUs(n)
    BY <1>2, <1>3, WordFacts, Pushes DEF BinaryPush
  <1>17. BinaryPop(s, i) \in CPUs(n)
    BY <1>2, <1>5, Pops DEF BinaryPop
  <1>18. BinaryCall(s, i) \in CPUs(n)
    BY <1>1, <1>2, <1>6, Pushes DEF BinaryCall
  <1>19. BinaryRet(s, i) \in CPUs(n)
    <2>1. CanPop(s, 1) /\ peekValue(s) >= 0 => peekValue(s) \in Nat
      <3>1. \A x \in Words : x >= 0 => x \in Nat
        BY NonNegativeWords
      <3> QED
        BY <3>1, PeekType
    <2>2. 0 \in Registers
      BY DEF Registers
    <2> QED
      BY <1>2, <2>1, <2>2, Pops DEF BinaryRet
  <1>20. BinaryIret(s, i) \in CPUs(n)
    BY <1>2, Restores, Zenon DEF BinaryIret
  <1>21. BinaryInt(s, i) \in CPUs(n)
    <2>1. HandlerAddress \in Nat
      <3>1. program.labels["handler"] * InstructionSize \in Nat
        BY ProgramFacts, Layout
      <3> QED
        BY <3>1, Layout DEF HandlerAddress
    <2> QED
      BY <1>1, <1>2, <1>3, <2>1, Interrupts DEF BinaryInt
  <1>22. BinaryPlain(s, i) \in CPUs(n)
    BY <1>2, SimpleUpdates DEF BinaryPlain
  <1>23. BinaryMask(s, i) \in CPUs(n)
    <2>1. (i.op = "EI") \in BOOLEAN
      OBVIOUS
    <2>2. [s EXCEPT !.enabled = (i.op = "EI")] \in CPUs(n)
      BY <2>1, SimpleUpdates
    <2> QED
      BY <1>2, <2>2, SimpleUpdates DEF BinaryMask
  <1>24. i.op \in OpcodeNames
    BY OpcodesAre
  <1>25. CASE Privileged(s, i.op)
    BY <1>2, <1>25, ExecuteBinaryIs, StatesGrow
  <1>26. CASE ~Privileged(s, i.op)
    <2>1. i.op \in {"MOV", "LOAD", "STORE", "PUSH", "POP", "CALL", "RET", "IRET", "INT",
                    "NOP", "HALT", "EI", "DI", "CMP", "TEST", "NOT"}
          \/ i.op \in Arithmetic \/ i.op \in Logic \/ i.op \in ConditionalJumps \cup {"JMP"}
      BY <1>24 DEF OpcodeNames, Arithmetic, Logic, ConditionalJumps
    <2> QED
      BY <1>7, <1>8, <1>9, <1>10, <1>11, <1>12, <1>13, <1>15, <1>16, <1>17, <1>18,
         <1>19, <1>20, <1>21, <1>22, <1>23, <1>26, <2>1, ExecuteBinaryIs, StatesGrow
  <1> QED
    BY <1>25, <1>26

-------------------------------------------------------------------------------
(* Decoded instructions.                                                     *)

Maps(f, S) == \A x \in DOMAIN f : f[x] \in S

LEMMA LookupMaps ==
    ASSUME NEW table, NEW S, \A row \in table : row[2] \in S
    PROVE  Maps(Lookup(table), S)
  BY DEF Maps, Lookup

OperandTypes ==
    {"None", "Register", "Immediate", "MemoryAddress", "CodeAddress",
     "RegisterIndirectAddress"}

\* The decoder yields opcodes and operand types and nothing else.
LEMMA DecodedNames == Maps(decodeOpcode, Opcodes) /\ Maps(decodeOperandType, OperandTypes)
  <1>1. Maps(decodeOpcode, OpcodeNames)
    <2> DEFINE table ==
           {<<0, "NOP">>, <<1, "HALT">>, <<16, "MOV">>, <<17, "LOAD">>, <<18, "STORE">>,
            <<32, "ADD">>, <<33, "SUB">>, <<34, "MUL">>, <<35, "DIV">>,
            <<48, "CMP">>, <<49, "TEST">>, <<64, "JMP">>, <<65, "JE">>, <<66, "JNE">>,
            <<67, "JG">>, <<68, "JL">>, <<80, "PUSH">>, <<81, "POP">>, <<82, "CALL">>,
            <<83, "RET">>, <<84, "IRET">>, <<96, "AND">>, <<97, "OR">>, <<98, "XOR">>,
            <<99, "NOT">>, <<112, "EI">>, <<113, "DI">>, <<114, "INT">>}
    <2>1. \A row \in table : row[2] \in OpcodeNames
      BY DEF OpcodeNames
    <2>2. decodeOpcode = Lookup(table)
      BY Zenon DEF decodeOpcode
    <2> HIDE DEF table
    <2> QED
      BY <2>1, <2>2, LookupMaps
  <1>2. Maps(decodeOperandType, OperandTypes)
    <2> DEFINE table ==
           {<<0, "None">>, <<1, "Register">>, <<2, "Immediate">>, <<3, "MemoryAddress">>,
            <<4, "CodeAddress">>, <<5, "RegisterIndirectAddress">>}
    <2>1. \A row \in table : row[2] \in OperandTypes
      BY DEF OperandTypes
    <2>2. decodeOperandType = Lookup(table)
      BY Zenon DEF decodeOperandType
    <2> HIDE DEF table
    <2> QED
      BY <2>1, <2>2, LookupMaps
  <1> QED
    BY <1>1, <1>2, OpcodesAre

\* Four bytes, two words, four bytes.
LEMMA DecodeType ==
    ASSUME NEW b \in [1 .. InstructionSize -> Byte], Decodable(b),
           Traceable(decodeInstruction(b).dst), Traceable(decodeInstruction(b).src)
    PROVE  LET i == decodeInstruction(b)
           IN /\ i.op \in Opcodes
              /\ i.dst.type \in OperandTypes /\ i.src.type \in OperandTypes
              /\ i.dst.v \in Words /\ i.src.v \in Words
              /\ Readable(i.dst) /\ Readable(i.src)
  <1> DEFINE x == SubSeq(b, 5, 4 + WordBytes)
             y == SubSeq(b, 5 + WordBytes, 4 + 2 * WordBytes)
  <1>1. WordBytes \in Nat \ {0} /\ InstructionSize \in Nat /\ InstructionSize = 8 + 2 * WordBytes
    BY ByteFacts DEF InstructionSize, ReservedTail
  <1>2. b \in Seq(Byte) /\ Len(b) = InstructionSize
    BY <1>1, SequenceOf
  <1>3. x \in [1 .. WordBytes -> Byte] /\ y \in [1 .. WordBytes -> Byte]
    <2>1. /\ x \in Seq(Byte) /\ Len(x) = WordBytes
          /\ y \in Seq(Byte) /\ Len(y) = WordBytes
      BY <1>1, <1>2
    <2> HIDE DEF x, y
    <2> QED
      BY <2>1
  <1>4. WordOf(x) \in Words /\ WordOf(y) \in Words
    <2> HIDE DEF x, y
    <2> QED
      BY <1>3, WordOfType
  <1>5. /\ b[1] \in DOMAIN decodeOpcode
        /\ b[2] \in DOMAIN decodeOperandType /\ b[3] \in DOMAIN decodeOperandType
    BY DEF Decodable
  <1>6. /\ decodeOpcode[b[1]] \in Opcodes
        /\ decodeOperandType[b[2]] \in OperandTypes /\ decodeOperandType[b[3]] \in OperandTypes
    BY <1>5, DecodedNames DEF Maps
  <1> HIDE DEF x, y
  <1> DEFINE i == decodeInstruction(b)
  <1>7. /\ i.op = decodeOpcode[b[1]]
        /\ i.dst.type = decodeOperandType[b[2]] /\ i.dst.v = WordOf(x)
        /\ i.src.type = decodeOperandType[b[3]] /\ i.src.v = WordOf(y)
    BY DEF decodeInstruction, Instr, x, y
  <1> HIDE DEF i
  <1>8. \A w \in Words : w >= 0 => w \in Nat
    BY WordFacts
  <1>9. Traceable(i.dst) /\ Traceable(i.src)
    BY DEF i
  <1>10. Readable(i.dst) /\ Readable(i.src)
    BY <1>4, <1>7, <1>8, <1>9 DEF Readable, Traceable
  <1> QED
    BY <1>4, <1>6, <1>7, <1>10 DEF i

\* What the binary form fetches.
LEMMA FetchType ==
    ASSUME NEW n \in Nat, NEW s \in CPUs(n), Loaded, Fetches(s)
    PROVE  LET i == decodeInstruction(Fetched(s))
           IN /\ i.op \in Opcodes
              /\ i.dst.type \in OperandTypes /\ i.src.type \in OperandTypes
              /\ i.dst.v \in Words /\ i.src.v \in Words
              /\ Readable(i.dst) /\ Readable(i.src)
  <1>1. s.pc \in Nat /\ s.mem \in Memories
    BY StateFields
  <1>2. s.pc + InstructionSize <= StackBase
    <2>1. Len(program.code) * InstructionSize \in Int
      BY ProgramFacts, Layout
    <2> QED
      BY <1>1, <2>1, ProgramFacts, Layout DEF Fetches, isBinaryPcInCode, CodeEnd
  <1>3. \A k \in 1 .. InstructionSize : s.pc + k - 1 \in 0 .. MemEnd - 1
    BY <1>1, <1>2, Layout
  <1>4. Fetched(s) \in [1 .. InstructionSize -> Byte]
    BY <1>1, <1>3 DEF Fetched, ReadBytes, Memories
  <1> QED
    BY <1>4, DecodeType DEF Fetches

-------------------------------------------------------------------------------
(* Encoded instructions, and the start.                                      *)

LEMMA ResetType ==
    ASSUME NEW mode \in {"User", "Kernel"}
    PROVE  Reset(mode) \in CPUs(0)
  <1>1. [r \in Registers |-> 0] \in [Registers -> Words]
    BY WordFacts
  <1>2. 0 \in Byte
    BY ByteFacts DEF Byte
  <1>3. [a \in 0 .. MemEnd - 1 |-> 0] \in Memories
    BY <1>2 DEF Memories
  <1>4. ClearFlags \in FlagSets
    BY DEF ClearFlags, FlagSets
  <1>5. <<>> \in Seq(Words) /\ Len(<<>>) <= 0
    OBVIOUS
  <1>6. Reset(mode) \in CPUStates
    BY <1>1, <1>3, <1>4, <1>5, Layout DEF Reset, CPUStates
  <1>7. Reset(mode).out = <<>>
    BY DEF Reset
  <1> QED
    BY <1>5, <1>6, <1>7 DEF CPUs

LEMMA CodesAreBytes ==
    /\ \A o \in Opcodes : encodeOpcode[o] \in Byte
    /\ \A t \in DOMAIN encodeType : encodeType[t] \in Byte
    /\ 0 \in Byte
  <1>1. Radix \in Nat /\ Radix > 114
    BY ByteAssumption
  <1>2. \A o \in OpcodeNames : encodeOpcode[o] \in 0 .. 114
    BY DEF encodeOpcode, OpcodeNames
  <1>3. \A t \in DOMAIN encodeType : encodeType[t] \in 0 .. 5
    BY DEF encodeType
  <1> QED
    BY <1>1, <1>2, <1>3, OpcodesAre DEF Byte

LEMMA PayloadType ==
    ASSUME NEW o, NEW labels, Typed(o), o.type = "Label" => labels[o.v] \in Nat
    PROVE  EncodePayload(o, labels) \in Int /\ EncodePayload(o, labels) >= -(2 * Half)
  <1>1. \A m \in Nat : m * InstructionSize \in Nat
    BY Layout
  <1>2. \A m \in Nat : m \in Int /\ m >= -(2 * Half)
    BY ByteFacts
  <1>3. CASE o.type = "Label"
    BY <1>1, <1>2, <1>3 DEF EncodePayload
  <1>4. CASE o.type # "Label"
    <2>1. EncodePayload(o, labels) = o.v
      BY <1>4 DEF EncodePayload
    <2>2. o.v \in Words \/ o.v \in Nat
      BY <1>4 DEF Typed, encodeType, Registers
    <2> QED
      BY <1>2, <2>1, <2>2, WordFacts
  <1> QED
    BY <1>3, <1>4

\* An instruction is encoded in InstructionSize bytes.
LEMMA EncodedType ==
    ASSUME NEW i, NEW labels, i.op \in Opcodes, Typed(i.dst), Typed(i.src),
           i.dst.type = "Label" => labels[i.dst.v] \in Nat,
           i.src.type = "Label" => labels[i.src.v] \in Nat
    PROVE  /\ encodeInstruction(i, labels) \in Seq(Byte)
           /\ Len(encodeInstruction(i, labels)) = InstructionSize
  <1> DEFINE h == <<encodeOpcode[i.op], encodeType[i.dst.type], encodeType[i.src.type], 0>>
             x == Bytes(EncodePayload(i.dst, labels))
             y == Bytes(EncodePayload(i.src, labels))
             z == [k \in 1 .. ReservedTail |-> 0]
  <1>1. h \in Seq(Byte) /\ Len(h) = 4
    BY CodesAreBytes DEF Typed
  <1>2. x \in Seq(Byte) /\ Len(x) = WordBytes /\ y \in Seq(Byte) /\ Len(y) = WordBytes
    BY PayloadType, BytesType
  <1>3. z \in Seq(Byte) /\ Len(z) = 4
    <2>1. z \in [1 .. 4 -> Byte] /\ 4 \in Nat
      BY CodesAreBytes DEF ReservedTail
    <2> HIDE DEF z
    <2> QED
      BY <2>1, SequenceOf
  <1>4. encodeInstruction(i, labels) = h \o x \o y \o z
    BY Zenon DEF encodeInstruction
  <1> HIDE DEF h, x, y, z
  <1>5. h \o x \o y \o z \in Seq(Byte) /\ Len(h \o x \o y \o z) = 4 + WordBytes + WordBytes + 4
    <2>1. \A p \in Seq(Byte), q \in Seq(Byte) :
             p \o q \in Seq(Byte) /\ Len(p \o q) = Len(p) + Len(q)
      OBVIOUS
    <2>2. h \o x \in Seq(Byte) /\ Len(h \o x) = 4 + WordBytes
      BY <1>1, <1>2, <2>1
    <2>3. h \o x \o y \in Seq(Byte) /\ Len(h \o x \o y) = 4 + WordBytes + WordBytes
      BY <1>2, <2>1, <2>2
    <2> QED
      BY <1>3, <2>1, <2>3
  <1> QED
    BY <1>4, <1>5, ByteFacts DEF InstructionSize, ReservedTail

LEMMA ImageType ==
    ASSUME Loaded
    PROVE  encodeProgram(program.code, program.labels) \in Seq(Byte)
  <1> DEFINE m == Len(program.code)
             S == InstructionSize
             e == [k \in 1 .. m |-> encodeInstruction(program.code[k], program.labels)]
             f == [b \in 1 .. m * S |-> e[(b - 1) \div S + 1][((b - 1) % S) + 1]]
  <1>1. m \in Nat /\ S \in Nat \ {0} /\ m * S \in Nat
    BY ProgramFacts, Layout
  <1>2. encodeProgram(program.code, program.labels) = f
    BY DEF encodeProgram
  <1>3. \A k \in 1 .. m : e[k] \in Seq(Byte) /\ Len(e[k]) = S
    <2> TAKE k \in 1 .. m
    <2> DEFINE i == program.code[k]
    <2>1. /\ i.op \in Opcodes /\ Typed(i.dst) /\ Typed(i.src)
          /\ i.dst.type = "Label" => program.labels[i.dst.v] \in Nat
          /\ i.src.type = "Label" => program.labels[i.src.v] \in Nat
      BY ProgramFacts DEF Encodable
    <2> HIDE DEF i
    <2>2. /\ encodeInstruction(i, program.labels) \in Seq(Byte)
          /\ Len(encodeInstruction(i, program.labels)) = InstructionSize
      BY <2>1, EncodedType
    <2> QED
      BY <2>2 DEF i
  <1> HIDE DEF m, S, e
  <1>4. ASSUME NEW b \in 1 .. m * S
        PROVE  f[b] \in Byte
    <2> DEFINE q == (b - 1) \div S
               r == (b - 1) % S
    <2>1. b - 1 \in Nat /\ b - 1 < S * m
      BY <1>1
    <2>2. q < m /\ r \in 0 .. S - 1
      BY <1>1, <2>1, ShiftStep
    <2>3. q \in Nat
      BY <1>1, <2>1
    <2>4. f[b] = e[q + 1][r + 1]
      OBVIOUS
    <2> HIDE DEF q, r, f
    <2>5. q + 1 \in 1 .. m /\ r + 1 \in 1 .. S
      BY <1>1, <2>2, <2>3
    <2> QED
      BY <1>3, <2>4, <2>5
  <1>5. f \in [1 .. m * S -> Byte]
    BY <1>4
  <1> HIDE DEF f
  <1> QED
    BY <1>1, <1>2, <1>5, SequenceOf

\* The CPUs when a program has been loaded.
LEMMA InitType ==
    ASSUME Init
    PROVE  Loaded /\ legacy \in CPUs(0) /\ binary \in CPUs(0) /\ legacy.halted \in BOOLEAN
  <1>1. Loaded
    BY DEF Init, Loaded
  <1>2. Reset(program.mode) \in CPUs(0)
    BY <1>1, ProgramFacts, ResetType
  <1>3. PICK image \in {encodeProgram(program.code, program.labels)} :
           binary = [Reset(program.mode) EXCEPT !.mem = WriteBytes(@, CodeBase, image),
                                                !.pc = CodeBase]
    BY DEF Init
  <1> DEFINE m == WriteBytes(Reset(program.mode).mem, CodeBase, image)
             s == [Reset(program.mode) EXCEPT !.mem = m]
  <1>4. m \in Memories
    <2>1. image \in Seq(Byte)
      BY <1>1, ImageType
    <2>2. 0 \in Nat
      OBVIOUS
    <2>3. Reset(program.mode).mem \in Memories
      BY <1>2, <2>2, StateFields
    <2> QED
      BY <2>1, <2>3, Layout, WriteBytesType
  <1>5. binary = [s EXCEPT !.pc = CodeBase]
    BY <1>3
  <1> HIDE DEF m
  <1>6. s \in CPUs(0)
    BY <1>2, <1>4, SimpleUpdates
  <1> HIDE DEF s
  <1>7. binary \in CPUs(0)
    BY <1>5, <1>6, Layout, SimpleUpdates
  <1>8. legacy = Reset(program.mode)
    BY DEF Init
  <1>9. legacy.halted \in BOOLEAN
    BY <1>2, <1>8, StateFields
  <1> QED
    BY <1>1, <1>2, <1>7, <1>8, <1>9

-------------------------------------------------------------------------------
(* The details of an event are what the instruction did.                     *)

\* A step leaves the machine in a state of the type, with at most one word more.
LEMMA StepTypes ==
    ASSUME NEW n \in Nat, n <= MaxWord, NEW s \in CPUs(n), Loaded
    PROVE  /\ LegacyStep(s) \in CPUs(n + 1)
           /\ BinaryStep(s) \in CPUs(n + 1)
  <1>1. s \in CPUs(n + 1) /\ Failed(s) \in CPUs(n + 1)
    BY StatesGrow, SimpleUpdates
  <1>2. LegacyFetches(s) => execute(s, program.code[s.pc + 1]) \in CPUs(n + 1)
    <2> SUFFICES ASSUME LegacyFetches(s)
                 PROVE  execute(s, program.code[s.pc + 1]) \in CPUs(n + 1)
      OBVIOUS
    <2> DEFINE i == program.code[s.pc + 1]
    <2>1. s.pc + 1 \in 1 .. Len(program.code)
      BY StateFields, ProgramFacts DEF LegacyFetches
    <2>2. i.op \in Opcodes /\ Typed(i.dst) /\ Typed(i.src) /\ Encodable(i, program.labels)
      BY <2>1, ProgramFacts
    <2> HIDE DEF i
    <2>3. Readable(i.dst) /\ Readable(i.src)
      BY <2>2, TypedReadable
    <2>4. execute(s, i) \in CPUs(n + 1)
      BY <2>2, <2>3, ExecuteType
    <2> QED
      BY <2>4 DEF i
  <1>3. Fetches(s) => executeBinaryInstruction(s, decodeInstruction(Fetched(s))) \in CPUs(n + 1)
    <2> SUFFICES ASSUME Fetches(s)
                 PROVE  executeBinaryInstruction(s, decodeInstruction(Fetched(s))) \in CPUs(n + 1)
      OBVIOUS
    <2> DEFINE i == decodeInstruction(Fetched(s))
    <2>1. i.op \in Opcodes /\ i.dst.v \in Words /\ Readable(i.dst) /\ Readable(i.src)
      BY FetchType
    <2> HIDE DEF i
    <2>2. executeBinaryInstruction(s, i) \in CPUs(n + 1)
      BY <2>1, ExecuteBinaryType
    <2> QED
      BY <2>2 DEF i
  <1>4. LegacyStep(s) \in CPUs(n + 1)
    BY <1>1, <1>2 DEF LegacyStep
  <1>5. BinaryStep(s) \in CPUs(n + 1)
    BY <1>1, <1>3 DEF BinaryStep
  <1> QED
    BY <1>4, <1>5

-------------------------------------------------------------------------------
\* An operand that the trace can read is the one the instruction used.
LEMMA Shown ==
    ASSUME NEW n \in Nat, NEW s \in CPUs(n), NEW o, Readable(o), CanRead(s, o),
           tryReadTraceOperandValue(s, o) # <<>>
    PROVE  tryReadTraceOperandValue(s, o) = <<Value(s, o)>>
  <1>1. CASE o.type \in {"Register", "Immediate"}
    BY <1>1 DEF tryReadTraceOperandValue, Value
  <1>2. CASE o.type \notin {"Register", "Immediate"}
    <2>1. HasAddress(s, o) /\ InRange(s.mem, Address(s, o), WordBytes)
      BY <1>2 DEF tryReadTraceOperandValue
    <2>2. Address(s, o) \in Nat
      BY <2>1, AddressType
    <2>3. Address(s, o) + WordBytes <= MemEnd
      BY <2>1, MemoryRange, StateFields
    <2>4. ~HasDevice(Address(s, o))
      BY <2>2, <2>3, Layout DEF HasDevice
    <2>5. ReadData(s, Address(s, o)) = ReadWord(s.mem, Address(s, o))
      BY <2>4 DEF ReadData
    <2> QED
      BY <1>2, <2>1, <2>5 DEF tryReadTraceOperandValue, Value
  <1> QED
    BY <1>1, <1>2

\* The instructions whose details say something.
Explained ==
    AluOpcodes \cup {"LOAD", "STORE", "PUSH", "POP", "RET", "JMP", "CALL"}
    \cup ConditionalJumps

LEMMA OthersTrue ==
    ASSUME NEW e, NEW size, e.instruction.op \notin Explained \/ ~Succeeded(e)
    PROVE  DetailIsTrue(e, size)
  <1>1. CASE ~Succeeded(e)
    BY <1>1 DEF DetailIsTrue
  <1>2. CASE e.instruction.op \notin Explained
    <2>1. ~analyzeMemoryDetail(e).active
      BY <1>2 DEF Explained, analyzeMemoryDetail, Inactive
    <2> QED
      BY <1>2, <2>1 DEF DetailIsTrue, Explained
  <1> QED
    BY <1>1, <1>2

LEMMA FailedTrue ==
    ASSUME NEW n \in Nat, NEW s \in CPUs(n), NEW i, NEW size
    PROVE  DetailIsTrue(Recorded(s, i, Failed(s)), size)
  <1>1. Failed(s).error = TRUE
    BY DEF Failed, CPUs, CPUStates
  <1>2. ~Succeeded(Recorded(s, i, Failed(s)))
    BY <1>1 DEF Succeeded, Recorded
  <1> QED
    BY <1>2, OthersTrue

\* The result that the trace shows is the ALU's.
LEMMA AluTrue ==
    ASSUME NEW n \in Nat, NEW s \in CPUs(n), NEW i, NEW t, NEW size,
           i.op \in AluOpcodes, i.dst.type = "Register",
           Readable(i.src), CanRead(s, i.src),
           t.regs[i.dst.v] = Alu(i.op, s.regs[i.dst.v], Value(s, i.src)).value
    PROVE  DetailIsTrue(Recorded(s, i, t), size)
  <1> DEFINE e == Recorded(s, i, t)
             d == analyzeAluDetail(e)
  <1>1. e.before = s /\ e.instruction = i /\ e.after = t
    BY DEF Recorded
  <1> HIDE DEF e
  <1>2. i.op \in AluTrace /\ i.op \in AluWrites /\ i.op # "NOT"
    BY DEF AluTrace, AluWrites, AluOpcodes, Arithmetic, Logic
  <1>3. /\ d.lhs = <<s.regs[i.dst.v]>>
        /\ d.rhs = tryReadTraceOperandValue(s, i.src)
        /\ d.result = <<t.regs[i.dst.v]>>
    BY <1>1, <1>2 DEF analyzeAluDetail, tryReadTraceOperandValue
  <1>4. d.rhs # <<>> => d.rhs = <<Value(s, i.src)>>
    BY <1>3, Shown
  <1> HIDE DEF d
  <1>5. d.rhs # <<>> => d.result = <<Alu(i.op, d.lhs[1], d.rhs[1]).value>>
    BY <1>3, <1>4
  <1>6. /\ i.op \notin {"LOAD", "STORE", "PUSH", "POP", "RET", "JMP", "CALL"}
        /\ i.op \notin ConditionalJumps
    BY DEF AluOpcodes, Arithmetic, Logic, ConditionalJumps
  <1>7. ~analyzeMemoryDetail(e).active
    BY <1>1, <1>6 DEF analyzeMemoryDetail, Inactive
  <1> QED
    BY <1>1, <1>5, <1>6, <1>7 DEF DetailIsTrue, d, e

LEMMA RoutesToMemory ==
    ASSUME NEW a \in Nat, memoryRouteText(a) = "RAM"
    PROVE  a < MemEnd /\ ~HasDevice(a)
  BY Layout DEF memoryRouteText, HasDevice

\* The word that the trace shows of a load is the one in memory.
LEMMA LoadTrue ==
    ASSUME NEW n \in Nat, NEW s \in CPUs(n), NEW i, NEW t, NEW size,
           i.op = "LOAD", i.dst.type = "Register", Readable(i.src),
           HasAddress(s, i.src), CanReadData(s, Address(s, i.src)),
           t.mem = s.mem, t.regs[i.dst.v] = ReadData(s, Address(s, i.src))
    PROVE  DetailIsTrue(Recorded(s, i, t), size)
  <1> DEFINE e == Recorded(s, i, t)
             d == analyzeMemoryDetail(e)
             a == Address(s, i.src)
  <1>1. e.before = s /\ e.instruction = i /\ e.after = t
    BY DEF Recorded
  <1> HIDE DEF e
  <1>2. a \in Nat
    BY AddressType
  <1>3. tryResolveTraceMemoryAddress(s, i.src) = <<a>>
    BY DEF tryResolveTraceMemoryAddress
  <1> HIDE DEF a
  <1>4. d.address = <<a>> /\ d.route = memoryRouteText(a) /\ d.value = <<t.regs[i.dst.v]>>
    BY <1>1, <1>3 DEF analyzeMemoryDetail
  <1> HIDE DEF d
  <1>5. d.route = "RAM" => d.value = <<ReadWord(t.mem, d.address[1])>>
    <2>1. t.regs[i.dst.v] = ReadData(s, a)
      BY DEF a
    <2>2. memoryRouteText(a) = "RAM" => ReadData(s, a) = ReadWord(s.mem, a)
      BY <1>2, RoutesToMemory DEF ReadData
    <2> QED
      BY <1>4, <2>1, <2>2
  <1>6. i.op \notin AluOpcodes /\ i.op \notin ConditionalJumps
    BY DEF AluOpcodes, Arithmetic, Logic, ConditionalJumps
  <1> QED
    BY <1>1, <1>5, <1>6 DEF DetailIsTrue, d, e

\* The word that the trace shows of a store is the one in memory afterwards.
LEMMA StoreTrue ==
    ASSUME NEW n \in Nat, n <= MaxWord, NEW s \in CPUs(n), NEW i, NEW t, NEW size,
           i.op = "STORE", Readable(i.src), Readable(i.dst), CanRead(s, i.src),
           HasAddress(s, i.dst), CanWriteData(s, Address(s, i.dst)),
           t.mem = WriteData(s, Address(s, i.dst), Value(s, i.src)).mem
    PROVE  DetailIsTrue(Recorded(s, i, t), size)
  <1> DEFINE e == Recorded(s, i, t)
             d == analyzeMemoryDetail(e)
             a == Address(s, i.dst)
             x == Value(s, i.src)
  <1>1. e.before = s /\ e.instruction = i /\ e.after = t
    BY DEF Recorded
  <1> HIDE DEF e
  <1>2. a \in Nat /\ x \in Words
    BY AddressType, ValueType
  <1>3. tryResolveTraceMemoryAddress(s, i.dst) = <<a>>
    BY DEF tryResolveTraceMemoryAddress
  <1>4. tryReadTraceOperandValue(s, i.src) # <<>> => tryReadTraceOperandValue(s, i.src) = <<x>>
    BY Shown
  <1> HIDE DEF x
  <1>5. ASSUME memoryRouteText(a) = "RAM"
        PROVE  ReadWord(t.mem, a) = x
    <2>1. a < MemEnd /\ ~HasDevice(a)
      BY <1>2, <1>5, RoutesToMemory
    <2>2. s.mem \in Memories
      BY StateFields
    <2>3. a + WordBytes <= MemEnd
      BY <2>1, <2>2, MemoryRange DEF CanWriteData
    <2>4. t.mem = WriteWord(s.mem, a, x)
      BY <2>1 DEF WriteData, CPUs, CPUStates, x
    <2> HIDE DEF a
    <2> QED
      BY <1>2, <2>2, <2>3, <2>4, ReadWritten
  <1> HIDE DEF a
  <1>6. /\ d.address = <<a>> /\ d.route = memoryRouteText(a)
        /\ d.value = tryReadTraceOperandValue(s, i.src)
    BY <1>1, <1>3 DEF analyzeMemoryDetail
  <1> HIDE DEF d
  <1>7. (d.route = "RAM" /\ d.value # <<>>) => d.value = <<ReadWord(t.mem, d.address[1])>>
    BY <1>4, <1>5, <1>6
  <1>8. i.op \notin AluOpcodes /\ i.op \notin ConditionalJumps
    BY DEF AluOpcodes, Arithmetic, Logic, ConditionalJumps
  <1> QED
    BY <1>1, <1>7, <1>8 DEF DetailIsTrue, d, e

\* The word that the trace shows of a pop or return was in the slot shown.
LEMMA StackTrue ==
    ASSUME NEW n \in Nat, NEW s \in CPUs(n), NEW i, NEW t, NEW size,
           i.op \in {"POP", "RET"}, CanPop(s, 1), t.sp = s.sp - WordBytes,
           i.op = "POP" => i.dst.type = "Register" /\ t.regs[i.dst.v] = peekValue(s),
           i.op = "RET" => t.pc = peekValue(s)
    PROVE  DetailIsTrue(Recorded(s, i, t), size)
  <1> DEFINE e == Recorded(s, i, t)
             d == analyzeStackDetail(e)
             a == s.sp - WordBytes
  <1>1. e.before = s /\ e.instruction = i /\ e.after = t
    BY DEF Recorded
  <1> HIDE DEF e
  <1>2. a \in Nat /\ a + WordBytes <= MemEnd
    BY PeekType
  <1>3. peekValue(s) = ReadWord(s.mem, a)
    BY DEF peekValue
  <1> HIDE DEF a
  <1>4. InRange(s.mem, a, WordBytes)
    BY <1>2, MemoryRange, StateFields
  <1>5. StackAddress(e) = a
    BY <1>1 DEF StackAddress, a
  <1>6. WordBefore(e, a) = <<ReadWord(s.mem, a)>>
    BY <1>1, <1>4 DEF WordBefore
  <1>7. /\ d.stack_address = a
        /\ i.op = "POP" => d.value = <<t.regs[i.dst.v]>>
        /\ i.op = "RET" => d.value = WordBefore(e, a) /\ d.target = <<t.pc>>
    BY <1>1, <1>5 DEF analyzeStackDetail
  <1> HIDE DEF d
  <1>8. /\ d.value = <<ReadWord(s.mem, d.stack_address)>>
        /\ i.op = "RET" => d.target = d.value
    BY <1>3, <1>6, <1>7
  <1>9. i.op \notin AluOpcodes /\ i.op \notin ConditionalJumps
    BY DEF AluOpcodes, Arithmetic, Logic, ConditionalJumps
  <1>10. ~analyzeMemoryDetail(e).active
    BY <1>1 DEF analyzeMemoryDetail, Inactive
  <1> QED
    BY <1>1, <1>8, <1>9, <1>10 DEF DetailIsTrue, d, e

\* Of a pushed word, the value shown has the lowest byte.
LEMMA PushedShown ==
    ASSUME NEW n \in Nat, NEW s \in CPUs(n), NEW i, NEW t,
           i.op \in {"PUSH", "CALL"}, t.mem \in Memories, s.sp + WordBytes <= MemEnd,
           i.op = "PUSH" => /\ Readable(i.dst) /\ CanRead(s, i.dst)
                            /\ ReadWord(t.mem, s.sp) = Value(s, i.dst)
    PROVE  LET d == analyzeStackDetail(Recorded(s, i, t))
           IN d.value # <<>> => (d.value[1] - ReadWord(t.mem, d.stack_address)) % Radix = 0
  <1> DEFINE e == Recorded(s, i, t)
             d == analyzeStackDetail(e)
             pushed == findMemoryChangeAt(e, s.sp)
             operand == tryReadTraceOperandValue(s, i.dst)
             x == ReadWord(t.mem, s.sp)
  <1>1. e.before = s /\ e.instruction = i /\ e.after = t
    BY DEF Recorded
  <1> HIDE DEF e
  <1>2. StackAddress(e) = s.sp
    BY <1>1 DEF StackAddress
  <1>3. /\ d.stack_address = s.sp
        /\ d.value = IF i.op = "PUSH" /\ pushed = <<>> THEN operand ELSE pushed
    BY <1>1, <1>2 DEF analyzeStackDetail
  <1>4. pushed # <<>> => pushed = <<t.mem[s.sp]>>
    BY <1>1 DEF findMemoryChangeAt
  <1>5. (i.op = "PUSH" /\ operand # <<>>) => operand = <<x>>
    BY Shown
  <1>6. (t.mem[s.sp] - x) % Radix = 0 /\ x \in Words
    BY StateFields, LowestByte, ReadWordType
  <1> HIDE DEF d, pushed, operand, x
  <1>7. (x - x) % Radix = 0
    BY <1>6, WordFacts, ByteFacts
  <1>8. d.value # <<>> => (d.value[1] - x) % Radix = 0
    BY <1>3, <1>4, <1>5, <1>6, <1>7
  <1> QED
    BY <1>3, <1>8 DEF d, x, e

LEMMA PushTrue ==
    ASSUME NEW n \in Nat, NEW s \in CPUs(n), NEW i, NEW t, NEW size,
           i.op = "PUSH", t.mem \in Memories, s.sp + WordBytes <= MemEnd,
           Readable(i.dst), CanRead(s, i.dst), ReadWord(t.mem, s.sp) = Value(s, i.dst)
    PROVE  DetailIsTrue(Recorded(s, i, t), size)
  <1> DEFINE e == Recorded(s, i, t)
             d == analyzeStackDetail(e)
  <1>1. e.before = s /\ e.instruction = i /\ e.after = t
    BY DEF Recorded
  <1>2. d.value # <<>> => (d.value[1] - ReadWord(t.mem, d.stack_address)) % Radix = 0
    BY PushedShown
  <1> HIDE DEF e, d
  <1>3. i.op \notin AluOpcodes /\ i.op \notin ConditionalJumps
    BY DEF AluOpcodes, Arithmetic, Logic, ConditionalJumps
  <1>4. ~analyzeMemoryDetail(e).active
    BY <1>1 DEF analyzeMemoryDetail, Inactive
  <1> QED
    BY <1>1, <1>2, <1>3, <1>4 DEF DetailIsTrue, d, e

\* The trace shows where control went, and a branch on flags without overflow
\* as taken if it was.
LEMMA FlowTrue ==
    ASSUME NEW n \in Nat, NEW s \in CPUs(n), NEW i, NEW t, NEW size,
           i.op \in ConditionalJumps \cup {"JMP", "CALL"},
           \/ /\ i.op \in ConditionalJumps => Taken(i.op, s.flags)
              /\ ExplicitTarget(i.dst) # <<>> => ExplicitTarget(i.dst) = <<t.pc>>
           \/ /\ i.op \in ConditionalJumps /\ ~Taken(i.op, s.flags)
              /\ t.pc = s.pc + size,
           i.op = "CALL" => t.mem \in Memories /\ s.sp + WordBytes <= MemEnd
    PROVE  DetailIsTrue(Recorded(s, i, t), size)
  <1> DEFINE e == Recorded(s, i, t)
             d == analyzeControlFlowDetail(e)
             taken == evaluateControlFlowCondition(i.op, s.flags)
  <1>1. e.before = s /\ e.instruction = i /\ e.after = t
    BY DEF Recorded
  <1>0. i.op = "CALL" =>
            LET k == analyzeStackDetail(e)
            IN k.value # <<>> => (k.value[1] - ReadWord(t.mem, k.stack_address)) % Radix = 0
    BY PushedShown
  <1> HIDE DEF e
  <1>2. i.op \in {"JE", "JNE", "JG", "JL", "JMP", "CALL"} /\ i.op \in FlowOpcodes
    BY DEF ConditionalJumps, FlowOpcodes
  <1>3. /\ s.flags.zero \in BOOLEAN /\ s.flags.sign \in BOOLEAN /\ s.flags.overflow \in BOOLEAN
    BY StateFields DEF FlagSets
  <1>4. (i.op \in ConditionalJumps /\ ~s.flags.overflow) => (taken <=> Taken(i.op, s.flags))
    BY <1>2, <1>3 DEF ConditionalJumps, Taken, evaluateControlFlowCondition,
                      signedGreaterThanFromFlags, signedLessThanFromFlags
  <1>5. i.op \in {"JMP", "CALL"} => taken
    BY DEF evaluateControlFlowCondition
  <1> HIDE DEF taken
  <1>6. /\ d.target = FlowTarget(e, taken) /\ d.taken = taken
        /\ d.fallthrough = IF taken THEN <<>> ELSE <<t.pc>>
    BY <1>1, <1>2 DEF analyzeControlFlowDetail, taken
  <1> HIDE DEF d
  <1>7. FlowTarget(e, taken) = IF ExplicitTarget(i.dst) # <<>> THEN ExplicitTarget(i.dst)
                               ELSE IF taken THEN <<t.pc>> ELSE <<>>
    BY <1>1, <1>2 DEF FlowTarget, ConditionalJumps
  <1>8. i.op \in {"JMP", "CALL"} => d.target = <<t.pc>>
    BY <1>5, <1>6, <1>7 DEF ConditionalJumps
  <1>9. (i.op \in ConditionalJumps /\ ~s.flags.overflow) =>
            IF d.taken THEN d.target = <<t.pc>> ELSE d.fallthrough = <<s.pc + size>>
    BY <1>4, <1>6, <1>7 DEF ConditionalJumps
  <1>10. i.op \notin AluOpcodes /\ i.op \notin {"PUSH", "POP", "RET"}
    BY <1>2 DEF AluOpcodes, Arithmetic, Logic
  <1>11. ~analyzeMemoryDetail(e).active
    BY <1>1, <1>2 DEF analyzeMemoryDetail, Inactive
  <1> QED
    BY <1>0, <1>1, <1>8, <1>9, <1>10, <1>11 DEF DetailIsTrue, d, e

\* What the trace looks at of the state an instruction leaves.
LEMMA MovedFields ==
    ASSUME NEW n \in Nat, NEW s \in CPUs(n), NEW r \in Registers, NEW x
    PROVE  LET u == updateZeroAndSign(SetReg(s, r, x), x)
           IN /\ Advanced(u).regs[r] = x /\ BinaryAdvanced(u).regs[r] = x
              /\ Advanced(u).mem = s.mem /\ BinaryAdvanced(u).mem = s.mem
              /\ Advanced(u).sp = s.sp /\ BinaryAdvanced(u).sp = s.sp
  BY DEF CPUs, CPUStates, SetReg, updateZeroAndSign, Advanced, BinaryAdvanced

LEMMA ComputedFields ==
    ASSUME NEW n \in Nat, NEW s \in CPUs(n), NEW r \in Registers, NEW x
    PROVE  LET u == applyALUResultToFlags(SetReg(s, r, x.value), x)
           IN Advanced(u).regs[r] = x.value /\ BinaryAdvanced(u).regs[r] = x.value
  BY DEF CPUs, CPUStates, SetReg, applyALUResultToFlags, Advanced, BinaryAdvanced

LEMMA StoredFields ==
    ASSUME NEW n \in Nat, NEW s \in CPUs(n), NEW x
    PROVE  LET u == updateZeroAndSign(s, x)
           IN Advanced(u).mem = s.mem /\ BinaryAdvanced(u).mem = s.mem
  BY DEF CPUs, CPUStates, updateZeroAndSign, Advanced, BinaryAdvanced

LEMMA PoppedFields ==
    ASSUME NEW n \in Nat, NEW s \in CPUs(n), NEW p
    PROVE  /\ Popped(s).sp = s.sp - WordBytes
           /\ [Popped(s) EXCEPT !.pc = p].pc = p
           /\ [Popped(s) EXCEPT !.pc = p].sp = s.sp - WordBytes
  BY DEF CPUs, CPUStates, Popped, MovedSp

\* A push that succeeds leaves its word at the old stack pointer.
LEMMA PushedFields ==
    ASSUME NEW n \in Nat, NEW s \in CPUs(n), CanPush(s), NEW x \in Int, x >= -(2 * Half), NEW p
    PROVE  /\ s.sp + WordBytes <= MemEnd /\ pushValue(s, x).mem \in Memories
           /\ Advanced(pushValue(s, x)).mem = pushValue(s, x).mem
           /\ BinaryAdvanced(pushValue(s, x)).mem = pushValue(s, x).mem
           /\ [pushValue(s, x) EXCEPT !.pc = p].mem = pushValue(s, x).mem
           /\ x \in Words => ReadWord(pushValue(s, x).mem, s.sp) = x
  <1>1. s.sp \in Nat /\ s.mem \in Memories
    BY StateFields
  <1>2. s.sp + WordBytes <= MemEnd
    BY <1>1, Layout DEF CanPush, SpInRange, Base, End
  <1>3. pushValue(s, x) \in CPUs(n)
    BY StackUpdates
  <1>4. pushValue(s, x).mem \in Memories
    BY <1>3, StateFields
  <1>5. pushValue(s, x).mem = WriteWord(s.mem, s.sp, x)
    BY DEF CPUs, CPUStates, pushValue, MovedSp
  <1>6. /\ Advanced(pushValue(s, x)).mem = pushValue(s, x).mem
        /\ BinaryAdvanced(pushValue(s, x)).mem = pushValue(s, x).mem
        /\ [pushValue(s, x) EXCEPT !.pc = p].mem = pushValue(s, x).mem
    <2> DEFINE u == pushValue(s, x)
    <2> HIDE DEF u
    <2>1. u \in CPUs(n)
      BY <1>3 DEF u
    <2>2. /\ Advanced(u).mem = u.mem /\ BinaryAdvanced(u).mem = u.mem
          /\ [u EXCEPT !.pc = p].mem = u.mem
      BY <2>1 DEF CPUs, CPUStates, Advanced, BinaryAdvanced
    <2> QED
      BY <2>2 DEF u
  <1>7. x \in Words => ReadWord(pushValue(s, x).mem, s.sp) = x
    BY <1>1, <1>2, <1>5, ReadWritten
  <1> QED
    BY <1>2, <1>4, <1>6, <1>7

LEMMA FlowFields ==
    ASSUME NEW n \in Nat, NEW s \in CPUs(n), NEW p, NEW x
    PROVE  /\ Advanced(s).pc = s.pc + 1 /\ BinaryAdvanced(s).pc = s.pc + InstructionSize
           /\ [s EXCEPT !.pc = p].pc = p
           /\ [pushValue(s, x) EXCEPT !.pc = p].pc = p
  BY DEF CPUs, CPUStates, Advanced, BinaryAdvanced, pushValue, MovedSp

\* The details of a step of the instruction list are what it did.
LEMMA LegacyDetail ==
    ASSUME NEW n \in Nat, n <= MaxWord, NEW s \in CPUs(n), Loaded,
           NEW i, i.op \in Opcodes, Readable(i.dst), Readable(i.src)
    PROVE  DetailIsTrue(Recorded(s, i, execute(s, i)), 1)
  <1> DEFINE t == execute(s, i)
  <1>0. t = Failed(s) => DetailIsTrue(Recorded(s, i, t), 1)
    BY FailedTrue
  <1>1. CASE Privileged(s, i.op)
    BY <1>0, <1>1, ExecuteIs
  <1>2. CASE ~Privileged(s, i.op) /\ i.op \in AluOpcodes
    <2>1. i.op \in Arithmetic => t = executeArithmetic(s, i)
      BY <1>2, ExecuteIs
    <2>2. i.op \in Logic => t = executeLogic(s, i)
      BY <1>2, ExecuteIs
    <2> HIDE DEF t
    <2> DEFINE r == Alu(i.op, s.regs[i.dst.v], Value(s, i.src))
    <2>3. \/ t = Failed(s)
          \/ /\ RegisterDst(i) /\ CanRead(s, i.src)
             /\ t = Advanced(applyALUResultToFlags(SetReg(s, i.dst.v, r.value), r))
      BY <1>2, <2>1, <2>2 DEF AluOpcodes, executeArithmetic, executeLogic
    <2> HIDE DEF r
    <2>4. CASE /\ RegisterDst(i) /\ CanRead(s, i.src)
               /\ t = Advanced(applyALUResultToFlags(SetReg(s, i.dst.v, r.value), r))
      <3>1. i.dst.type = "Register" /\ i.dst.v \in Registers
        BY <2>4 DEF RegisterDst, Readable
      <3>2. t.regs[i.dst.v] = r.value
        BY <2>4, <3>1, ComputedFields
      <3> QED
        BY <1>2, <2>4, <3>1, <3>2, AluTrue DEF r, t
    <2> QED
      BY <1>0, <2>3, <2>4 DEF t
  <1>3. CASE ~Privileged(s, i.op) /\ i.op = "LOAD"
    <2>1. t = executeLoad(s, i)
      BY <1>3, ExecuteIs
    <2> HIDE DEF t
    <2> DEFINE x == ReadData(s, Address(s, i.src))
    <2>2. \/ t = Failed(s)
          \/ /\ RegisterDst(i) /\ HasAddress(s, i.src) /\ CanReadData(s, Address(s, i.src))
             /\ t = Advanced(updateZeroAndSign(SetReg(s, i.dst.v, x), x))
      BY <2>1 DEF executeLoad
    <2> HIDE DEF x
    <2>3. CASE /\ RegisterDst(i) /\ HasAddress(s, i.src) /\ CanReadData(s, Address(s, i.src))
               /\ t = Advanced(updateZeroAndSign(SetReg(s, i.dst.v, x), x))
      <3>1. i.dst.type = "Register" /\ i.dst.v \in Registers
        BY <2>3 DEF RegisterDst, Readable
      <3>2. t.regs[i.dst.v] = x /\ t.mem = s.mem
        BY <2>3, <3>1, MovedFields
      <3> QED
        BY <1>3, <2>3, <3>1, <3>2, LoadTrue DEF x, t
    <2> QED
      BY <1>0, <2>2, <2>3 DEF t
  <1>4. CASE ~Privileged(s, i.op) /\ i.op = "STORE"
    <2>1. t = executeStore(s, i)
      BY <1>4, ExecuteIs
    <2> HIDE DEF t
    <2> DEFINE x == Value(s, i.src)
               a == Address(s, i.dst)
    <2>2. \/ t = Failed(s)
          \/ /\ HasAddress(s, i.dst) /\ CanRead(s, i.src) /\ CanWriteData(s, a)
             /\ t = Advanced(updateZeroAndSign(WriteData(s, a, x), x))
      BY <2>1 DEF executeStore
    <2>3. CASE /\ HasAddress(s, i.dst) /\ CanRead(s, i.src) /\ CanWriteData(s, a)
               /\ t = Advanced(updateZeroAndSign(WriteData(s, a, x), x))
      <3>1. a \in Nat /\ x \in Words
        BY <2>3, AddressType, ValueType
      <3>2. t.mem = WriteData(s, a, x).mem
        <4> HIDE DEF a, x
        <4>1. n + 1 \in Nat /\ WriteData(s, a, x) \in CPUs(n + 1)
          BY <3>1, WriteDataType
        <4> QED
          BY <2>3, <4>1, StoredFields
      <3> QED
        BY <1>4, <2>3, <3>2, StoreTrue DEF t
    <2> QED
      BY <1>0, <2>2, <2>3 DEF t
  <1>5. CASE ~Privileged(s, i.op) /\ i.op = "POP"
    <2>1. t = executePop(s, i)
      BY <1>5, ExecuteIs
    <2> HIDE DEF t
    <2> DEFINE x == peekValue(s)
    <2>2. \/ t = Failed(s)
          \/ /\ RegisterDst(i) /\ CanPop(s, 1)
             /\ t = Advanced(updateZeroAndSign(SetReg(Popped(s), i.dst.v, x), x))
      BY <2>1 DEF executePop
    <2> HIDE DEF x
    <2>3. CASE /\ RegisterDst(i) /\ CanPop(s, 1)
               /\ t = Advanced(updateZeroAndSign(SetReg(Popped(s), i.dst.v, x), x))
      <3>1. i.dst.type = "Register" /\ i.dst.v \in Registers
        BY <2>3 DEF RegisterDst, Readable
      <3>2. Popped(s) \in CPUs(n) /\ Popped(s).sp = s.sp - WordBytes
        BY <2>3, StackUpdates, PoppedFields
      <3>3. t.regs[i.dst.v] = x /\ t.sp = s.sp - WordBytes
        BY <2>3, <3>1, <3>2, MovedFields
      <3> QED
        BY <1>5, <2>3, <3>1, <3>3, StackTrue DEF x, t
    <2> QED
      BY <1>0, <2>2, <2>3 DEF t
  <1>6. CASE ~Privileged(s, i.op) /\ i.op = "RET"
    <2>1. t = executeRet(s, i)
      BY <1>6, ExecuteIs
    <2> HIDE DEF t
    <2>2. \/ t = Failed(s)
          \/ CanPop(s, 1) /\ t = [Popped(s) EXCEPT !.pc = peekValue(s)]
      BY <2>1 DEF executeRet
    <2>3. CASE CanPop(s, 1) /\ t = [Popped(s) EXCEPT !.pc = peekValue(s)]
      <3>1. t.pc = peekValue(s) /\ t.sp = s.sp - WordBytes
        BY <2>3, PoppedFields
      <3>2. /\ i.op \in {"POP", "RET"}
            /\ i.op = "POP" => i.dst.type = "Register" /\ t.regs[i.dst.v] = peekValue(s)
            /\ i.op = "RET" => t.pc = peekValue(s)
        BY <1>6, <3>1
      <3>3. DetailIsTrue(Recorded(s, i, t), 1)
        <4>1. CanPop(s, 1)
          BY <2>3
        <4> QED
          BY ONLY <3>1, <3>2, <4>1, StackTrue, n \in Nat, s \in CPUs(n)
      <3> QED
        BY <3>3 DEF t
    <2> QED
      BY <1>0, <2>2, <2>3 DEF t
  <1>9. CASE ~Privileged(s, i.op) /\ i.op = "PUSH"
    <2>1. t = executePush(s, i)
      BY <1>9, ExecuteIs
    <2> HIDE DEF t
    <2> DEFINE x == Value(s, i.dst)
    <2>2. \/ t = Failed(s)
          \/ CanRead(s, i.dst) /\ CanPush(s) /\ t = Advanced(pushValue(s, x))
      BY <2>1 DEF executePush
    <2>3. CASE CanRead(s, i.dst) /\ CanPush(s) /\ t = Advanced(pushValue(s, x))
      <3>1. x \in Words
        BY <2>3, ValueType
      <3>2. x \in Int /\ x >= -(2 * Half)
        BY <3>1, ByteFacts DEF Words, MinWord, MaxWord
      <3> HIDE DEF x
      <3>3. /\ t.mem \in Memories /\ s.sp + WordBytes <= MemEnd
            /\ ReadWord(t.mem, s.sp) = x
        BY <2>3, <3>1, <3>2, PushedFields
      <3> QED
        BY <1>9, <2>3, <3>3, PushTrue DEF x, t
    <2> QED
      BY <1>0, <2>2, <2>3 DEF t
  <1>7. CASE ~Privileged(s, i.op) /\ i.op \in ConditionalJumps \cup {"JMP", "CALL"}
    <2>1. /\ i.op = "JMP" => t = executeJmp(s, i)
          /\ i.op \in ConditionalJumps => t = executeBranch(s, i)
          /\ i.op = "CALL" => t = executeCall(s, i)
      BY <1>7, ExecuteIs
    <2> HIDE DEF t
    <2> DEFINE p == program.labels[i.dst.v]
    <2>2. \/ t = Failed(s)
          \/ /\ i.dst.type = "Label"
             /\ i.op \in ConditionalJumps => Taken(i.op, s.flags)
             /\ \/ i.op # "CALL" /\ t = [s EXCEPT !.pc = p]
                \/ CanPush(s) /\ t = [pushValue(s, s.pc + 1) EXCEPT !.pc = p]
          \/ i.op \in ConditionalJumps /\ ~Taken(i.op, s.flags) /\ t = Advanced(s)
      BY <1>7, <2>1 DEF executeJmp, executeBranch, executeCall, JumpTo
    <2> HIDE DEF p
    <2>3. CASE /\ i.dst.type = "Label"
               /\ i.op \in ConditionalJumps => Taken(i.op, s.flags)
               /\ \/ i.op # "CALL" /\ t = [s EXCEPT !.pc = p]
                  \/ CanPush(s) /\ t = [pushValue(s, s.pc + 1) EXCEPT !.pc = p]
      <3>1. ExplicitTarget(i.dst) = <<>>
        BY <2>3 DEF ExplicitTarget
      <3>3. i.op = "CALL" => t.mem \in Memories /\ s.sp + WordBytes <= MemEnd
        <4>1. s.pc + 1 \in Int /\ s.pc + 1 >= -(2 * Half)
          BY StateFields, ByteFacts
        <4>2. CanPush(s) => /\ s.sp + WordBytes <= MemEnd
                            /\ [pushValue(s, s.pc + 1) EXCEPT !.pc = p].mem \in Memories
          <5> SUFFICES ASSUME CanPush(s)
                       PROVE  /\ s.sp + WordBytes <= MemEnd
                              /\ [pushValue(s, s.pc + 1) EXCEPT !.pc = p].mem \in Memories
            OBVIOUS
          <5>1. /\ s.sp + WordBytes <= MemEnd /\ pushValue(s, s.pc + 1).mem \in Memories
                /\ [pushValue(s, s.pc + 1) EXCEPT !.pc = p].mem
                      = pushValue(s, s.pc + 1).mem
            BY <4>1, PushedFields
          <5> QED
            BY <5>1, Zenon
        <4>3. i.op = "CALL" => CanPush(s) /\ t = [pushValue(s, s.pc + 1) EXCEPT !.pc = p]
          BY <2>3
        <4> QED
          BY <4>2, <4>3, Zenon
      <3>2. DetailIsTrue(Recorded(s, i, t), 1)
        BY <1>7, <2>3, <3>1, <3>3, FlowTrue
      <3> QED
        BY <3>2 DEF t
    <2>4. CASE i.op \in ConditionalJumps /\ ~Taken(i.op, s.flags) /\ t = Advanced(s)
      <3>1. t.pc = s.pc + 1 /\ i.op # "CALL"
        BY <2>4, FlowFields DEF ConditionalJumps
      <3> QED
        BY <1>7, <2>4, <3>1, FlowTrue DEF t
    <2> QED
      BY <1>0, <2>2, <2>3, <2>4 DEF t
  <1>8. CASE i.op \notin Explained
    <2>1. Recorded(s, i, t).instruction.op \notin Explained
      BY <1>8 DEF Recorded
    <2> QED
      BY <2>1, OthersTrue
  <1> QED
    BY <1>1, <1>2, <1>3, <1>4, <1>5, <1>6, <1>7, <1>8, <1>9 DEF Explained

\* The traced instruction has the operands that the CPU used.
LEMMA TracedOperands ==
    ASSUME NEW s
    PROVE  LET i == decodeInstruction(Fetched(s))
               j == traceInstructionForCurrentBinaryPc(s)
           IN /\ j.op = i.op
              /\ i.dst.type \notin {"None", "CodeAddress"} => j.dst = i.dst
              /\ (i.dst.type # "None" /\ i.src.type \notin {"None", "CodeAddress"})
                    => j.src = i.src
              /\ i.dst.type = "CodeAddress" => j.dst = Immediate(CodeTarget(i.dst))
  <1> DEFINE i == decodeInstruction(Fetched(s))
             j == traceInstructionForCurrentBinaryPc(s)
             d == traceOperandFromEncoded(i.dst)
  <1>1. j = IF d = None THEN Instr0(i.op)
            ELSE Instr(i.op, d, traceOperandFromEncoded(i.src))
    BY DEF traceInstructionForCurrentBinaryPc
  <1> HIDE DEF i, j
  <1>2. /\ i.dst.type \notin {"None", "CodeAddress"} => d = i.dst
        /\ i.dst.type = "CodeAddress" => d = Immediate(CodeTarget(i.dst))
        /\ i.src.type \notin {"None", "CodeAddress"} => traceOperandFromEncoded(i.src) = i.src
    BY DEF traceOperandFromEncoded
  <1>3. None.type = "None" /\ \A x : Immediate(x).type = "Immediate"
    BY DEF None, Immediate
  <1> HIDE DEF d
  <1>4. i.dst.type # "None" => d # None
    <2>1. i.dst.type \notin {"None", "CodeAddress"} => d # None
      BY <1>2, <1>3
    <2>2. i.dst.type = "CodeAddress" => d # None
      BY <1>2, <1>3
    <2> QED
      BY <2>1, <2>2
  <1>5. i.dst.type # "None" => j = Instr(i.op, d, traceOperandFromEncoded(i.src))
    BY <1>1, <1>4
  <1>6. j.op = i.op
    BY <1>1 DEF Instr0, Instr
  <1>7. i.dst.type # "None" => j.dst = d /\ j.src = traceOperandFromEncoded(i.src)
    BY <1>5 DEF Instr
  <1>8. /\ i.dst.type \notin {"None", "CodeAddress"} => j.dst = i.dst
        /\ (i.dst.type # "None" /\ i.src.type \notin {"None", "CodeAddress"})
                    => j.src = i.src
        /\ i.dst.type = "CodeAddress" => j.dst = Immediate(CodeTarget(i.dst))
    BY <1>2, <1>7
  <1> QED
    BY <1>6, <1>8 DEF i, j

\* The details of a step of the binary form are what it did.
LEMMA BinaryDetail ==
    ASSUME NEW n \in Nat, n <= MaxWord, NEW s \in CPUs(n), Loaded, Fetches(s)
    PROVE  DetailIsTrue(Recorded(s, traceInstructionForCurrentBinaryPc(s),
                                 executeBinaryInstruction(s, decodeInstruction(Fetched(s)))),
                        InstructionSize)
  <1> DEFINE i == decodeInstruction(Fetched(s))
             j == traceInstructionForCurrentBinaryPc(s)
             t == executeBinaryInstruction(s, i)
             Goal == DetailIsTrue(Recorded(s, j, t), InstructionSize)
  <1> SUFFICES Goal
    OBVIOUS
  <1>a. /\ i.op \in Opcodes /\ Readable(i.dst) /\ Readable(i.src)
        /\ i.dst.v \in Words
    BY FetchType
  <1>b. /\ j.op = i.op
        /\ i.dst.type \notin {"None", "CodeAddress"} => j.dst = i.dst
        /\ (i.dst.type # "None" /\ i.src.type \notin {"None", "CodeAddress"})
              => j.src = i.src
        /\ i.dst.type = "CodeAddress" => j.dst = Immediate(CodeTarget(i.dst))
    BY TracedOperands
  <1> HIDE DEF i, j
  <1>0. t = Failed(s) => Goal
    BY FailedTrue
  <1>c. CanReadBinary(s, i.src) => CanRead(s, i.src) /\ i.src.type \notin {"None", "CodeAddress"}
    BY BinaryReads DEF CanReadBinary, HasBinaryAddress
  <1>d. /\ HasBinaryAddress(s, i.src)
             => HasAddress(s, i.src) /\ i.src.type \notin {"None", "CodeAddress"}
        /\ HasBinaryAddress(s, i.dst)
             => HasAddress(s, i.dst) /\ i.dst.type \notin {"None", "CodeAddress"}
    BY BinaryReads DEF HasBinaryAddress
  <1>e. BinaryRegisterDst(i) => /\ i.dst.type = "Register" /\ i.dst.v \in Registers
                                /\ i.dst.type \notin {"None", "CodeAddress"}
    BY DEF BinaryRegisterDst
  <1>1. CASE Privileged(s, i.op)
    BY <1>0, <1>1, ExecuteBinaryIs
  <1>2. CASE ~Privileged(s, i.op) /\ i.op \in AluOpcodes
    <2>1. i.op \in Arithmetic => t = BinaryArithmetic(s, i)
      BY <1>2, ExecuteBinaryIs
    <2>2. i.op \in Logic => t = BinaryLogic(s, i)
      BY <1>2, ExecuteBinaryIs
    <2> HIDE DEF t
    <2> DEFINE r == Alu(i.op, s.regs[i.dst.v], Value(s, i.src))
    <2>3. \/ t = Failed(s)
          \/ /\ BinaryRegisterDst(i) /\ CanReadBinary(s, i.src)
             /\ t = BinaryAdvanced(applyALUResultToFlags(SetReg(s, i.dst.v, r.value), r))
      BY <1>2, <2>1, <2>2 DEF AluOpcodes, BinaryArithmetic, BinaryLogic
    <2> HIDE DEF r
    <2>4. CASE /\ BinaryRegisterDst(i) /\ CanReadBinary(s, i.src)
               /\ t = BinaryAdvanced(applyALUResultToFlags(SetReg(s, i.dst.v, r.value), r))
      <3>1. j.dst = i.dst /\ j.src = i.src /\ CanRead(s, i.src)
        BY <1>b, <1>c, <1>e, <2>4
      <3>2. t.regs[i.dst.v] = r.value
        BY <1>e, <2>4, ComputedFields
      <3>3. t.regs[i.dst.v] = Alu(i.op, s.regs[i.dst.v], Value(s, i.src)).value
        BY <3>2 DEF r
      <3>4. i.dst.type = "Register"
        BY <1>e, <2>4
      <3> QED
        BY <1>2, <1>a, <1>b, <3>1, <3>3, <3>4, AluTrue
    <2> QED
      BY <1>0, <2>3, <2>4
  <1>3. CASE ~Privileged(s, i.op) /\ i.op = "LOAD"
    <2>1. t = BinaryLoad(s, i)
      BY <1>3, ExecuteBinaryIs
    <2> HIDE DEF t
    <2> DEFINE x == ReadData(s, Address(s, i.src))
    <2>2. \/ t = Failed(s)
          \/ /\ BinaryRegisterDst(i) /\ HasBinaryAddress(s, i.src)
             /\ CanReadData(s, Address(s, i.src))
             /\ t = BinaryAdvanced(updateZeroAndSign(SetReg(s, i.dst.v, x), x))
      BY <2>1 DEF BinaryLoad
    <2> HIDE DEF x
    <2>3. CASE /\ BinaryRegisterDst(i) /\ HasBinaryAddress(s, i.src)
               /\ CanReadData(s, Address(s, i.src))
               /\ t = BinaryAdvanced(updateZeroAndSign(SetReg(s, i.dst.v, x), x))
      <3>1. j.dst = i.dst /\ j.src = i.src /\ HasAddress(s, i.src)
        BY <1>b, <1>d, <1>e, <2>3
      <3>2. t.regs[i.dst.v] = x /\ t.mem = s.mem
        BY <1>e, <2>3, MovedFields
      <3>3. t.regs[i.dst.v] = ReadData(s, Address(s, i.src))
        BY <3>2 DEF x
      <3>4. i.dst.type = "Register" /\ CanReadData(s, Address(s, i.src))
        BY <1>e, <2>3
      <3> QED
        BY <1>3, <1>a, <1>b, <3>1, <3>2, <3>3, <3>4, LoadTrue
    <2> QED
      BY <1>0, <2>2, <2>3
  <1>4. CASE ~Privileged(s, i.op) /\ i.op = "STORE"
    <2>1. t = BinaryStore(s, i)
      BY <1>4, ExecuteBinaryIs
    <2> HIDE DEF t
    <2> DEFINE x == Value(s, i.src)
               a == Address(s, i.dst)
    <2>2. \/ t = Failed(s)
          \/ /\ HasBinaryAddress(s, i.dst) /\ CanReadBinary(s, i.src) /\ CanWriteData(s, a)
             /\ t = BinaryAdvanced(updateZeroAndSign(WriteData(s, a, x), x))
      BY <2>1 DEF BinaryStore
    <2>3. CASE /\ HasBinaryAddress(s, i.dst) /\ CanReadBinary(s, i.src) /\ CanWriteData(s, a)
               /\ t = BinaryAdvanced(updateZeroAndSign(WriteData(s, a, x), x))
      <3>0. /\ j.dst = i.dst /\ j.src = i.src
            /\ HasAddress(s, i.dst) /\ CanRead(s, i.src)
        BY <1>b, <1>c, <1>d, <2>3
      <3>1. a \in Nat /\ x \in Words
        BY <1>a, <3>0, AddressType, ValueType
      <3>2. t.mem = WriteData(s, a, x).mem
        <4> HIDE DEF a, x
        <4>1. n + 1 \in Nat /\ WriteData(s, a, x) \in CPUs(n + 1)
          BY <3>1, WriteDataType
        <4> QED
          BY <2>3, <4>1, StoredFields
      <3> QED
        BY <1>4, <1>a, <1>b, <2>3, <3>0, <3>2, StoreTrue
    <2> QED
      BY <1>0, <2>2, <2>3
  <1>5. CASE ~Privileged(s, i.op) /\ i.op = "POP"
    <2>1. t = BinaryPop(s, i)
      BY <1>5, ExecuteBinaryIs
    <2> HIDE DEF t
    <2> DEFINE x == peekValue(s)
    <2>2. \/ t = Failed(s)
          \/ /\ BinaryRegisterDst(i) /\ CanPop(s, 1)
             /\ t = BinaryAdvanced(updateZeroAndSign(SetReg(Popped(s), i.dst.v, x), x))
      BY <2>1 DEF BinaryPop
    <2> HIDE DEF x
    <2>3. CASE /\ BinaryRegisterDst(i) /\ CanPop(s, 1)
               /\ t = BinaryAdvanced(updateZeroAndSign(SetReg(Popped(s), i.dst.v, x), x))
      <3>1. j.dst = i.dst /\ j.dst.type = "Register" /\ CanPop(s, 1)
        BY <1>b, <1>e, <2>3
      <3>2. Popped(s) \in CPUs(n) /\ Popped(s).sp = s.sp - WordBytes
        BY <2>3, StackUpdates, PoppedFields
      <3>3. t.regs[i.dst.v] = x /\ t.sp = s.sp - WordBytes
        BY <1>e, <2>3, <3>2, MovedFields
      <3>4. /\ j.op \in {"POP", "RET"}
            /\ j.op = "POP" => j.dst.type = "Register" /\ t.regs[j.dst.v] = peekValue(s)
            /\ j.op = "RET" => t.pc = peekValue(s)
        BY <1>5, <1>b, <3>1, <3>3 DEF x
      <3> QED
        BY ONLY <3>1, <3>3, <3>4, StackTrue, n \in Nat, s \in CPUs(n)
    <2> QED
      BY <1>0, <2>2, <2>3
  <1>6. CASE ~Privileged(s, i.op) /\ i.op = "RET"
    <2>1. t = BinaryRet(s, i)
      BY <1>6, ExecuteBinaryIs
    <2> HIDE DEF t
    <2>2. \/ t = Failed(s)
          \/ CanPop(s, 1) /\ t = [Popped(s) EXCEPT !.pc = peekValue(s)]
      BY <2>1 DEF BinaryRet
    <2>3. CASE CanPop(s, 1) /\ t = [Popped(s) EXCEPT !.pc = peekValue(s)]
      <3>1. t.pc = peekValue(s) /\ t.sp = s.sp - WordBytes
        BY <2>3, PoppedFields
      <3>2. /\ j.op \in {"POP", "RET"}
            /\ j.op = "POP" => j.dst.type = "Register" /\ t.regs[j.dst.v] = peekValue(s)
            /\ j.op = "RET" => t.pc = peekValue(s)
        BY <1>6, <1>b, <3>1
      <3>3. CanPop(s, 1)
        BY <2>3
      <3> QED
        BY ONLY <3>1, <3>2, <3>3, StackTrue, n \in Nat, s \in CPUs(n)
    <2> QED
      BY <1>0, <2>2, <2>3
  <1>9. CASE ~Privileged(s, i.op) /\ i.op = "PUSH"
    <2>1. t = BinaryPush(s, i)
      BY <1>9, ExecuteBinaryIs
    <2> HIDE DEF t
    <2> DEFINE x == Value(s, i.dst)
    <2>2. \/ t = Failed(s)
          \/ CanReadBinary(s, i.dst) /\ CanPush(s) /\ t = BinaryAdvanced(pushValue(s, x))
      BY <2>1 DEF BinaryPush
    <2>3. CASE CanReadBinary(s, i.dst) /\ CanPush(s) /\ t = BinaryAdvanced(pushValue(s, x))
      <3>0. CanRead(s, i.dst) /\ j.dst = i.dst
        BY <1>b, <2>3, BinaryReads DEF CanReadBinary, HasBinaryAddress
      <3>1. x \in Words
        BY <1>a, <3>0, ValueType
      <3>2. x \in Int /\ x >= -(2 * Half)
        BY <3>1, ByteFacts DEF Words, MinWord, MaxWord
      <3> HIDE DEF x
      <3>3. /\ t.mem \in Memories /\ s.sp + WordBytes <= MemEnd
            /\ ReadWord(t.mem, s.sp) = x
        BY <2>3, <3>1, <3>2, PushedFields
      <3> QED
        BY <1>9, <1>a, <1>b, <3>0, <3>3, PushTrue DEF x
    <2> QED
      BY <1>0, <2>2, <2>3
  <1>7. CASE ~Privileged(s, i.op) /\ i.op \in ConditionalJumps \cup {"JMP", "CALL"}
    <2>1. /\ i.op \in ConditionalJumps \cup {"JMP"} => t = BinaryJump(s, i)
          /\ i.op = "CALL" => t = BinaryCall(s, i)
      BY <1>7, ExecuteBinaryIs
    <2> HIDE DEF t
    <2> DEFINE p == CodeTarget(i.dst)
    <2>2. \/ t = Failed(s)
          \/ /\ HasCodeTarget(i.dst)
             /\ i.op \in ConditionalJumps => Taken(i.op, s.flags)
             /\ \/ i.op # "CALL" /\ t = [s EXCEPT !.pc = p]
                \/ CanPush(s) /\ t = [pushValue(s, s.pc + InstructionSize) EXCEPT !.pc = p]
          \/ i.op \in ConditionalJumps /\ ~Taken(i.op, s.flags) /\ t = BinaryAdvanced(s)
      <3>1. "CALL" \notin ConditionalJumps
        BY DEF ConditionalJumps
      <3> QED
        BY <1>7, <2>1, <3>1 DEF BinaryJump, BinaryCall, BinaryJumpTo
    <2> HIDE DEF p
    <2>3. CASE /\ HasCodeTarget(i.dst)
               /\ i.op \in ConditionalJumps => Taken(i.op, s.flags)
               /\ \/ i.op # "CALL" /\ t = [s EXCEPT !.pc = p]
                  \/ CanPush(s) /\ t = [pushValue(s, s.pc + InstructionSize) EXCEPT !.pc = p]
      <3>1. t.pc = p
        <4>1. /\ [s EXCEPT !.pc = p].pc = p
              /\ [pushValue(s, s.pc + InstructionSize) EXCEPT !.pc = p].pc = p
          BY FlowFields
        <4> QED
          BY <2>3, <4>1
      <3>2. j.dst = Immediate(p)
        BY <1>b, <2>3 DEF HasCodeTarget, p
      <3>3. ExplicitTarget(j.dst) # <<>> => ExplicitTarget(j.dst) = <<t.pc>>
        BY <3>1, <3>2 DEF ExplicitTarget, Immediate
      <3>4. i.op = "CALL" => t.mem \in Memories /\ s.sp + WordBytes <= MemEnd
        <4>1. s.pc + InstructionSize \in Int /\ s.pc + InstructionSize >= -(2 * Half)
          BY StateFields, ByteFacts, Layout
        <4>2. CanPush(s) => /\ s.sp + WordBytes <= MemEnd
                            /\ [pushValue(s, s.pc + InstructionSize) EXCEPT !.pc = p].mem \in Memories
          <5> SUFFICES ASSUME CanPush(s)
                       PROVE  /\ s.sp + WordBytes <= MemEnd
                              /\ [pushValue(s, s.pc + InstructionSize) EXCEPT !.pc = p].mem \in Memories
            OBVIOUS
          <5>1. /\ s.sp + WordBytes <= MemEnd /\ pushValue(s, s.pc + InstructionSize).mem \in Memories
                /\ [pushValue(s, s.pc + InstructionSize) EXCEPT !.pc = p].mem
                      = pushValue(s, s.pc + InstructionSize).mem
            BY <4>1, PushedFields
          <5> QED
            BY <5>1, Zenon
        <4>3. i.op = "CALL" => CanPush(s) /\ t = [pushValue(s, s.pc + InstructionSize) EXCEPT !.pc = p]
          BY <2>3
        <4> QED
          BY <4>2, <4>3, Zenon
      <3> QED
        BY <1>7, <1>b, <2>3, <3>3, <3>4, FlowTrue
    <2>4. CASE i.op \in ConditionalJumps /\ ~Taken(i.op, s.flags) /\ t = BinaryAdvanced(s)
      <3>1. t.pc = s.pc + InstructionSize /\ i.op # "CALL"
        BY <2>4, FlowFields DEF ConditionalJumps
      <3> QED
        BY <1>7, <1>b, <2>4, <3>1, FlowTrue
    <2> QED
      BY <1>0, <2>2, <2>3, <2>4
  <1>8. CASE i.op \notin Explained
    <2>1. Recorded(s, j, t).instruction.op \notin Explained
      BY <1>8, <1>b DEF Recorded
    <2> QED
      BY <2>1, OthersTrue
  <1> QED
    BY <1>1, <1>2, <1>3, <1>4, <1>5, <1>6, <1>7, <1>8, <1>9 DEF Explained

-------------------------------------------------------------------------------
(* Sequences, and the fields of a printed line.                              *)

LEMMA RangeAppend ==
    ASSUME NEW T, NEW q \in Seq(T), NEW v \in T
    PROVE  Append(q, v) \in Seq(T) /\ Range(Append(q, v)) = Range(q) \cup {v}
  <1>1. Append(q, v) \in Seq(T)
    OBVIOUS
  <1>2. /\ DOMAIN q = 1 .. Len(q) /\ Len(q) \in Nat
        /\ DOMAIN Append(q, v) = 1 .. Len(q) + 1
        /\ \A k \in 1 .. Len(q) : Append(q, v)[k] = q[k]
        /\ Append(q, v)[Len(q) + 1] = v
    OBVIOUS
  <1>3. 1 .. Len(q) + 1 = (1 .. Len(q)) \cup {Len(q) + 1}
    BY <1>2
  <1> DEFINE a == Append(q, v)
  <1> HIDE DEF a
  <1>4. ASSUME NEW y \in Range(a)
        PROVE  y \in Range(q) \cup {v}
    <2>1. PICK k \in DOMAIN a : y = a[k]
      BY DEF Range
    <2> QED
      BY <1>2, <1>3, <2>1 DEF Range, a
  <1>5. ASSUME NEW y \in Range(q) \cup {v}
        PROVE  y \in Range(a)
    <2>1. CASE y = v
      BY <1>2, <1>3, <2>1 DEF Range, a
    <2>2. CASE y \in Range(q)
      <3>1. PICK k \in 1 .. Len(q) : y = q[k]
        BY <1>2, <2>2 DEF Range
      <3> QED
        BY <1>2, <1>3, <3>1 DEF Range, a
    <2> QED
      BY <2>1, <2>2
  <1>6. Range(a) = Range(q) \cup {v}
    BY <1>4, <1>5
  <1> QED
    BY <1>1, <1>6 DEF a

\* The step of Selected.
Keep(x, v, S) == IF v \in S THEN Append(x, v) ELSE x

LEMMA SelectedIs ==
    ASSUME NEW T, NEW s \in Seq(T), NEW S
    PROVE  \E w : /\ Selected(s, S) = w[Len(s)]
                  /\ w[0] = <<>>
                  /\ \A k \in 1 .. Len(s) : w[k] = Keep(w[k - 1], s[k], S)
  <1> DEFINE n == Len(s)
             P(h) == h = [k \in 0 .. n |-> IF k = 0 THEN <<>>
                                           ELSE IF s[k] \in S THEN Append(h[k - 1], s[k])
                                           ELSE h[k - 1]]
             G(k, x) == IF k \in 1 .. n THEN Keep(x, s[k], S) ELSE x
             g == [k \in Nat |-> [x \in Seq(T) |-> G(k, x)]]
             p == CHOOSE h : P(h)
  <1>0. n \in Nat
    OBVIOUS
  <1>1. Selected(s, S) = p[n]
    BY Zenon DEF Selected
  <1>2. \A k \in Nat, x \in Seq(T) : G(k, x) \in Seq(T)
    BY DEF Keep
  <1> HIDE DEF G, n
  <1>3. PICK f : Solves(f, Seq(T), <<>>, g)
    <2>1. IsStep(g, Seq(T)) /\ <<>> \in Seq(T)
      BY <1>2 DEF IsStep
    <2> HIDE DEF g
    <2> QED
      BY <2>1, Recursion, Zenon
  <1>4. \A k \in Nat \ {0} : f[k] = G(k, f[k - 1])
    <2>1. \A k \in Nat, x \in Seq(T) : g[k][x] = G(k, x)
      OBVIOUS
    <2>2. \A k \in Nat \ {0} : k - 1 \in Nat /\ f[k - 1] \in Seq(T)
      BY <1>3 DEF Solves
    <2> HIDE DEF g
    <2> QED
      BY <1>3, <2>1, <2>2 DEF Solves
  <1> DEFINE h == [k \in 0 .. n |-> f[k]]
  <1>5. \A k \in 0 .. n : h[k] = IF k = 0 THEN <<>>
                                 ELSE IF s[k] \in S THEN Append(h[k - 1], s[k])
                                 ELSE h[k - 1]
    <2> SUFFICES ASSUME NEW k \in 0 .. n, k # 0
                 PROVE  h[k] = IF s[k] \in S THEN Append(h[k - 1], s[k]) ELSE h[k - 1]
      BY <1>3 DEF Solves
    <2>1. k \in Nat \ {0} /\ k \in 1 .. n /\ k - 1 \in 0 .. n
      BY <1>0
    <2>2. h[k] = f[k] /\ h[k - 1] = f[k - 1]
      BY <2>1
    <2> HIDE DEF h
    <2> QED
      BY <1>4, <2>1, <2>2 DEF G, Keep
  <1>6. h = [k \in 0 .. n |-> h[k]]
    OBVIOUS
  <1> HIDE DEF h
  <1>7. P(h)
    BY <1>5, <1>6, Zenon
  <1>8. P(p)
    <2> HIDE DEF P
    <2> QED
      BY <1>7, Zenon
  <1> HIDE DEF p
  <1>9. p[0] = <<>> /\ \A k \in 1 .. n : p[k] = Keep(p[k - 1], s[k], S)
    <2>1. \A k \in 0 .. n : p[k] = IF k = 0 THEN <<>>
                                   ELSE IF s[k] \in S THEN Append(p[k - 1], s[k])
                                   ELSE p[k - 1]
      BY <1>8, Zenon
    <2>2. 0 \in 0 .. n /\ \A k \in 1 .. n : k \in 0 .. n /\ k # 0
      BY <1>0
    <2> HIDE DEF P
    <2> QED
      BY <2>1, <2>2 DEF Keep
  <1> QED
    BY <1>1, <1>9, Zenon DEF n

\* Selected keeps the members that are in the set, and no others.
LEMMA SelectedRange ==
    ASSUME NEW T, NEW s \in Seq(T), NEW S
    PROVE  Selected(s, S) \in Seq(T) /\ Range(Selected(s, S)) = Range(s) \cap S
  <1> DEFINE n == Len(s)
             Upto(k) == {s[j] : j \in 1 .. k}
  <1>0. n \in Nat /\ DOMAIN s = 1 .. n /\ \A k \in 1 .. n : s[k] \in T
    OBVIOUS
  <1>1. PICK w : /\ Selected(s, S) = w[n]
                 /\ w[0] = <<>>
                 /\ \A k \in 1 .. n : w[k] = Keep(w[k - 1], s[k], S)
    BY SelectedIs
  <1> HIDE DEF n
  <1> DEFINE I == {k \in Nat : k <= n => w[k] \in Seq(T) /\ Range(w[k]) = Upto(k) \cap S}
  <1>2. 0 \in I
    <2>1. Range(<<>>) = {} /\ Upto(0) = {} /\ <<>> \in Seq(T)
      BY DEF Range
    <2> QED
      BY <1>1, <2>1
  <1>3. ASSUME NEW k \in Nat, k \in I
        PROVE  k + 1 \in I
    <2> SUFFICES ASSUME k + 1 <= n
                 PROVE  w[k + 1] \in Seq(T) /\ Range(w[k + 1]) = Upto(k + 1) \cap S
      OBVIOUS
    <2>1. k + 1 \in 1 .. n /\ (k + 1) - 1 = k /\ k <= n
      BY <1>0
    <2>2. w[k] \in Seq(T) /\ Range(w[k]) = Upto(k) \cap S
      BY <1>3, <2>1
    <2>3. w[k + 1] = Keep(w[k], s[k + 1], S) /\ s[k + 1] \in T
      BY <1>0, <1>1, <2>1
    <2>4. Upto(k + 1) = Upto(k) \cup {s[k + 1]}
      <3>1. 1 .. k + 1 = (1 .. k) \cup {k + 1}
        OBVIOUS
      <3> QED
        BY <3>1
    <2> HIDE DEF Upto
    <2>5. CASE s[k + 1] \in S
      <3>1. w[k + 1] = Append(w[k], s[k + 1])
        BY <2>3, <2>5 DEF Keep
      <3>2. w[k + 1] \in Seq(T) /\ Range(w[k + 1]) = Range(w[k]) \cup {s[k + 1]}
        BY <2>2, <2>3, <3>1, RangeAppend
      <3> QED
        BY <2>2, <2>4, <2>5, <3>2
    <2>6. CASE s[k + 1] \notin S
      BY <2>2, <2>3, <2>4, <2>6 DEF Keep
    <2> QED
      BY <2>5, <2>6
  <1> HIDE DEF I
  <1>4. \A k \in Nat : k \in I
    BY <1>2, <1>3, Induction
  <1>5. w[n] \in Seq(T) /\ Range(w[n]) = Upto(n) \cap S
    <2> HIDE DEF Upto
    <2>1. n \in I /\ n <= n
      BY <1>0, <1>4
    <2> QED
      BY <2>1 DEF I
  <1>6. Upto(n) = Range(s)
    BY <1>0 DEF Range
  <1> QED
    BY <1>1, <1>5, <1>6

\* A line is a sequence, of fields of any kind.
IsSeq(s) == s \in Seq(Range(s))

LEMMA SeqIs ==
    ASSUME NEW T, NEW s \in Seq(T)
    PROVE  IsSeq(s)
  <1>1. DOMAIN s = 1 .. Len(s) /\ Len(s) \in Nat
    OBVIOUS
  <1>2. \A k \in 1 .. Len(s) : s[k] \in Range(s)
    BY <1>1 DEF Range
  <1>3. s = [k \in 1 .. Len(s) |-> s[k]]
    BY <1>1
  <1>4. s \in [1 .. Len(s) -> Range(s)]
    BY <1>2, <1>3
  <1> QED
    BY <1>1, <1>4, SequenceOf DEF IsSeq

LEMMA Mapped ==
    ASSUME NEW n \in Nat, NEW s, s = [k \in 1 .. n |-> s[k]]
    PROVE  IsSeq(s) /\ Len(s) = n /\ Range(s) = {s[k] : k \in 1 .. n}
  <1>1. DOMAIN s = 1 .. n
    OBVIOUS
  <1>2. Range(s) = {s[k] : k \in 1 .. n}
    BY <1>1 DEF Range
  <1>3. s \in [1 .. n -> Range(s)]
    BY <1>2
  <1> QED
    BY <1>2, <1>3, SequenceOf DEF IsSeq

LEMMA Joined ==
    ASSUME NEW s, NEW t, IsSeq(s), IsSeq(t)
    PROVE  /\ IsSeq(s \o t) /\ Range(s \o t) = Range(s) \cup Range(t)
           /\ Len(s) \in Nat /\ Len(t) \in Nat /\ Len(s \o t) = Len(s) + Len(t)
           /\ \A k \in 1 .. Len(s) : (s \o t)[k] = s[k]
           /\ \A k \in 1 .. Len(t) : (s \o t)[Len(s) + k] = t[k]
  <1> DEFINE T == Range(s) \cup Range(t)
             u == s \o t
  <1>1. s \in Seq(T) /\ t \in Seq(T)
    <2>1. s \in Seq(Range(s)) /\ t \in Seq(Range(t))
      BY DEF IsSeq
    <2> QED
      BY <2>1
  <1> HIDE DEF T
  <1>2. /\ u \in Seq(T) /\ Len(s) \in Nat /\ Len(t) \in Nat
        /\ Len(u) = Len(s) + Len(t)
        /\ DOMAIN s = 1 .. Len(s) /\ DOMAIN t = 1 .. Len(t)
        /\ DOMAIN u = 1 .. Len(s) + Len(t)
    BY <1>1
  <1>3. \A k \in 1 .. Len(s) : u[k] = s[k]
    BY <1>1
  <1>4. \A k \in 1 .. Len(t) : u[Len(s) + k] = t[k]
    BY <1>1
  <1>5. IsSeq(u)
    BY <1>2, SeqIs
  <1> HIDE DEF u
  <1>6. ASSUME NEW y \in Range(u)
        PROVE  y \in Range(s) \cup Range(t)
    <2>1. PICK k \in 1 .. Len(s) + Len(t) : y = u[k]
      BY <1>2 DEF Range
    <2>2. CASE k <= Len(s)
      <3>1. k \in 1 .. Len(s)
        BY <1>2, <2>2
      <3> QED
        BY <1>2, <1>3, <2>1, <3>1 DEF Range
    <2>3. CASE ~(k <= Len(s))
      <3>1. k - Len(s) \in 1 .. Len(t) /\ Len(s) + (k - Len(s)) = k
        BY <1>2, <2>3
      <3>2. u[k] = t[k - Len(s)]
        BY <1>4, <3>1
      <3> QED
        BY <1>2, <2>1, <3>1, <3>2 DEF Range
    <2> QED
      BY <2>2, <2>3
  <1>7. ASSUME NEW y \in Range(s)
        PROVE  y \in Range(u)
    <2>1. PICK k \in 1 .. Len(s) : y = s[k]
      BY <1>2 DEF Range
    <2>2. k \in 1 .. Len(s) + Len(t)
      BY <1>2
    <2> QED
      BY <1>2, <1>3, <2>1, <2>2 DEF Range
  <1>8. ASSUME NEW y \in Range(t)
        PROVE  y \in Range(u)
    <2>1. PICK k \in 1 .. Len(t) : y = t[k]
      BY <1>2 DEF Range
    <2>2. Len(s) + k \in 1 .. Len(s) + Len(t)
      BY <1>2
    <2> QED
      BY <1>2, <1>4, <2>1, <2>2 DEF Range
  <1>9. Range(u) = Range(s) \cup Range(t)
    BY <1>6, <1>7, <1>8
  <1> QED
    BY <1>2, <1>3, <1>4, <1>5, <1>9 DEF u

LEMMA Short ==
    /\ IsSeq(<<>>) /\ Range(<<>>) = {}
    /\ \A x : IsSeq(<<x>>) /\ Range(<<x>>) = {x} /\ Len(<<x>>) = 1
    /\ \A x, y : IsSeq(<<x, y>>) /\ Range(<<x, y>>) = {x, y}
    /\ \A x, y, z : IsSeq(<<x, y, z>>) /\ Range(<<x, y, z>>) = {x, y, z}
    /\ \A x, y, z, u : /\ IsSeq(<<x, y, z, u>>) /\ Range(<<x, y, z, u>>) = {x, y, z, u}
                       /\ Len(<<x, y, z, u>>) = 4
  <1>1. IsSeq(<<>>) /\ Range(<<>>) = {}
    BY DEF IsSeq, Range
  <1>2. \A x : Range(<<x>>) = {x}
    BY DEF Range
  <1>3. \A x, y : Range(<<x, y>>) = {x, y}
    <2>1. TAKE x, y
    <2>2. DOMAIN <<x, y>> = {1, 2}
      OBVIOUS
    <2> QED
      BY <2>2 DEF Range
  <1>4. \A x, y, z : Range(<<x, y, z>>) = {x, y, z}
    <2>1. TAKE x, y, z
    <2>2. DOMAIN <<x, y, z>> = {1, 2, 3}
      OBVIOUS
    <2> QED
      BY <2>2 DEF Range
  <1>5. \A x, y, z, u : Range(<<x, y, z, u>>) = {x, y, z, u}
    <2>1. TAKE x, y, z, u
    <2>2. DOMAIN <<x, y, z, u>> = {1, 2, 3, 4}
      OBVIOUS
    <2> QED
      BY <2>2 DEF Range
  <1>6. \A x : IsSeq(<<x>>)
    <2>1. TAKE x
    <2>2. <<x>> \in Seq({x})
      OBVIOUS
    <2> QED BY <2>2, SeqIs
  <1>7. \A x, y : IsSeq(<<x, y>>)
    <2>1. TAKE x, y
    <2>2. <<x, y>> \in Seq({x, y})
      OBVIOUS
    <2> QED BY <2>2, SeqIs
  <1>8. \A x, y, z : IsSeq(<<x, y, z>>)
    <2>1. TAKE x, y, z
    <2>2. <<x, y, z>> \in Seq({x, y, z})
      OBVIOUS
    <2> QED BY <2>2, SeqIs
  <1>9. \A x, y, z, u : IsSeq(<<x, y, z, u>>)
    <2>1. TAKE x, y, z, u
    <2>2. <<x, y, z, u>> \in Seq({x, y, z, u})
      OBVIOUS
    <2> QED BY <2>2, SeqIs
  <1>10. \A x : Len(<<x>>) = 1
    OBVIOUS
  <1>11. \A x, y, z, u : Len(<<x, y, z, u>>) = 4
    OBVIOUS
  <1> QED
    BY <1>1, <1>2, <1>3, <1>4, <1>5, <1>6, <1>7, <1>8, <1>9, <1>10, <1>11

-------------------------------------------------------------------------------
\* A line of which every field has one of these names.
Named(line, N) == IsSeq(line) /\ \A f \in Range(line) : f[1] \in N

LEMMA NamedParts ==
    ASSUME NEW N
    PROVE  /\ Named(<<>>, N)
           /\ \A s, t : Named(s, N) /\ Named(t, N) => Named(s \o t, N)
           /\ \A a, v : a \in N => Named(<<<<a, v>>>>, N)
           /\ \A a, v, w : a \in N => Named(<<<<a, v, w>>>>, N)
           /\ \A a, v : a \in N => Named(Optional(a, v), N)
  <1>1. Named(<<>>, N)
    BY Short DEF Named
  <1>2. ASSUME NEW s, NEW t, Named(s, N), Named(t, N) PROVE Named(s \o t, N)
    <2>1. IsSeq(s \o t) /\ Range(s \o t) = Range(s) \cup Range(t)
      BY <1>2, Joined DEF Named
    <2> QED
      BY <1>2, <2>1 DEF Named
  <1>3. ASSUME NEW a, NEW v, a \in N PROVE Named(<<<<a, v>>>>, N)
    <2>1. <<a, v>>[1] = a
      OBVIOUS
    <2> DEFINE f == <<a, v>>
    <2> HIDE DEF f
    <2>2. IsSeq(<<f>>) /\ Range(<<f>>) = {f}
      BY Short
    <2> QED
      BY <1>3, <2>1, <2>2 DEF Named, f
  <1>4. ASSUME NEW a, NEW v, NEW w, a \in N PROVE Named(<<<<a, v, w>>>>, N)
    <2>1. <<a, v, w>>[1] = a
      OBVIOUS
    <2> DEFINE f == <<a, v, w>>
    <2> HIDE DEF f
    <2>2. IsSeq(<<f>>) /\ Range(<<f>>) = {f}
      BY Short
    <2> QED
      BY <1>4, <2>1, <2>2 DEF Named, f
  <1>5. ASSUME NEW a, NEW v, a \in N PROVE Named(Optional(a, v), N)
    BY <1>1, <1>3, <1>5 DEF Optional
  <1> QED
    BY <1>1, <1>2, <1>3, <1>4, <1>5

DetailNames ==
    {"lhs", "rhs", "result", "address", "route", "value", "stack_address", "SP in stack",
     "return_address", "target", "from", "to", "taken", "fallthrough", "vector"}

LEMMA DetailsNamed ==
    ASSUME NEW e
    PROVE  Named(Details(e), DetailNames)
  <1> DEFINE N == DetailNames
  <1>0. /\ "lhs" \in N /\ "rhs" \in N /\ "result" \in N /\ "address" \in N /\ "route" \in N
        /\ "value" \in N /\ "stack_address" \in N /\ "SP in stack" \in N
        /\ "return_address" \in N /\ "target" \in N /\ "from" \in N /\ "to" \in N
        /\ "taken" \in N /\ "fallthrough" \in N /\ "vector" \in N
    BY DEF DetailNames
  <1> HIDE DEF N
  <1>a. Named(<<>>, N)
    BY NamedParts
  <1>b. \A s, t : Named(s, N) /\ Named(t, N) => Named(s \o t, N)
    BY NamedParts
  <1>c. \A a, v : a \in N => Named(<<<<a, v>>>>, N)
    BY NamedParts
  <1>d. \A a, v, w : a \in N => Named(<<<<a, v, w>>>>, N)
    BY NamedParts
  <1>e. \A a, v : a \in N => Named(Optional(a, v), N)
    BY NamedParts
  <1>1. Named(aluDetailString(e), N)
    <2> DEFINE d == analyzeAluDetail(e)
               x == Optional("lhs", d.lhs)
               y == Optional("rhs", d.rhs)
               z == Optional("result", d.result)
    <2>1. Named(x, N) /\ Named(y, N) /\ Named(z, N)
      BY <1>0, <1>e
    <2>2. aluDetailString(e) = IF ~d.active THEN <<>> ELSE x \o y \o z
      BY DEF aluDetailString
    <2> HIDE DEF x, y, z
    <2>3. Named(x \o y \o z, N)
      BY <1>b, <2>1
    <2> QED
      BY <1>a, <2>2, <2>3
  <1>2. Named(memoryDetailString(e), N)
    <2> DEFINE d == analyzeMemoryDetail(e)
               x == Optional("address", d.address)
               y == <<<<"route", d.route>>>>
               z == Optional("value", d.value)
    <2>1. Named(x, N) /\ Named(y, N) /\ Named(z, N)
      BY <1>0, <1>c, <1>e
    <2>2. memoryDetailString(e) = IF ~d.active THEN <<>> ELSE x \o y \o z
      BY DEF memoryDetailString
    <2> HIDE DEF x, y, z
    <2>3. Named(x \o y \o z, N)
      BY <1>b, <2>1
    <2> QED
      BY <1>a, <2>2, <2>3
  <1>3. Named(stackDetailString(e), N)
    <2> DEFINE d == analyzeStackDetail(e)
               x == <<<<"stack_address", d.stack_address>>>>
               m == <<<<"SP in stack", e.before.sp, e.after.sp>>>>
               y == IF e.before.sp = e.after.sp THEN <<>> ELSE m
               z == Optional("value", d.value)
               u == Optional("return_address", d.return_address)
               v == Optional("target", d.target)
    <2>1. Named(x, N) /\ Named(z, N) /\ Named(u, N) /\ Named(v, N) /\ Named(m, N)
      BY <1>0, <1>c, <1>d, <1>e
    <2>2. stackDetailString(e) = IF ~d.active THEN <<>> ELSE x \o y \o z \o u \o v
      BY DEF stackDetailString
    <2> HIDE DEF m
    <2>3. Named(y, N)
      BY <1>a, <2>1
    <2> HIDE DEF x, y, z, u, v
    <2>4. Named(x \o y \o z \o u \o v, N)
      BY <1>b, <2>1, <2>3
    <2> QED
      BY <1>a, <2>2, <2>4
  <1>4. Named(controlFlowDetailString(e), N)
    <2> DEFINE d == analyzeControlFlowDetail(e)
               f == <<"from", d.from_pc>>
               g == <<"to", d.to_pc>>
               h == <<"taken", d.taken>>
               x == <<f, g, h>>
               y == Optional("target", d.target)
               z == Optional("fallthrough", d.fallthrough)
               u == Optional("return_address", d.return_address)
               v == Optional("vector", d.vector)
    <2>1. Named(y, N) /\ Named(z, N) /\ Named(u, N) /\ Named(v, N)
      BY <1>0, <1>e
    <2>2. controlFlowDetailString(e) = IF ~d.active THEN <<>> ELSE x \o y \o z \o u \o v
      BY DEF controlFlowDetailString
    <2>3. f[1] \in N /\ g[1] \in N /\ h[1] \in N
      BY <1>0
    <2> HIDE DEF f, g, h
    <2>4. Named(x, N)
      <3>1. IsSeq(x) /\ Range(x) = {f, g, h}
        BY Short
      <3> QED
        BY <2>3, <3>1 DEF Named
    <2> HIDE DEF x, y, z, u, v
    <2>5. Named(x \o y \o z \o u \o v, N)
      BY <1>b, <2>1, <2>4
    <2> QED
      BY <1>a, <2>2, <2>5
  <1>5. Named(Details(e), N)
    BY <1>b, <1>1, <1>2, <1>3, <1>4 DEF Details
  <1> QED
    BY <1>5 DEF N

-------------------------------------------------------------------------------
(* What changed.                                                           *)

\* An event between two states of the machine.
IsEvent(e) == \E n \in Nat : e.before \in CPUs(n) /\ e.after \in CPUs(n)

LEMMA EventFields ==
    ASSUME NEW e, IsEvent(e)
    PROVE  /\ e.before.regs \in [Registers -> Words] /\ e.after.regs \in [Registers -> Words]
           /\ e.before.flags \in FlagSets /\ e.after.flags \in FlagSets
           /\ e.before.mem \in Memories /\ e.after.mem \in Memories
  BY StateFields DEF IsEvent

\* The lists of changes have what differs and nothing else.
LEMMA ChangedIs ==
    ASSUME NEW e
    PROVE  /\ changedRegisters(e) \in Seq(Registers)
           /\ Range(changedRegisters(e)) = {r \in Registers : e.before.regs[r] # e.after.regs[r]}
           /\ changedFlags(e) \in Seq(Range(FlagNames))
           /\ Range(changedFlags(e))
                = {f \in Range(FlagNames) : e.before.flags[f] # e.after.flags[f]}
           /\ changedMemory(e) \in Seq(0 .. MemEnd - 1)
           /\ Range(changedMemory(e)) = {a \in 0 .. MemEnd - 1 : e.before.mem[a] # e.after.mem[a]}
  <1>1. /\ changedRegisters(e) \in Seq(Registers)
        /\ Range(changedRegisters(e)) = {r \in Registers : e.before.regs[r] # e.after.regs[r]}
    <2> DEFINE q == [k \in 1 .. 8 |-> k - 1]
               S == {r \in Registers : e.before.regs[r] # e.after.regs[r]}
    <2>1. Registers = 0 .. 7
      BY DEF Registers
    <2>2. q \in [1 .. 8 -> Registers]
      BY <2>1
    <2>3. q \in Seq(Registers)
      <3> HIDE DEF q
      <3>1. 8 \in Nat
        OBVIOUS
      <3> QED
        BY <2>2, <3>1, SequenceOf
    <2>4. Registers \subseteq Range(q)
      <3>1. \A r \in Registers : r + 1 \in 1 .. 8 /\ (r + 1) - 1 = r
        BY <2>1
      <3> QED
        BY <3>1 DEF Range
    <2>5. changedRegisters(e) = Selected(q, S)
      BY DEF changedRegisters
    <2> HIDE DEF q, S
    <2>6. Selected(q, S) \in Seq(Registers) /\ Range(Selected(q, S)) = Range(q) \cap S
      BY <2>3, SelectedRange
    <2>7. S \subseteq Registers
      BY DEF S
    <2>8. Range(Selected(q, S)) = S
      BY <2>4, <2>6, <2>7
    <2> QED
      BY <2>5, <2>6, <2>8 DEF S
  <1>2. /\ changedFlags(e) \in Seq(Range(FlagNames))
        /\ Range(changedFlags(e))
             = {f \in Range(FlagNames) : e.before.flags[f] # e.after.flags[f]}
    <2> DEFINE S == {f \in Range(FlagNames) : e.before.flags[f] # e.after.flags[f]}
    <2>1. FlagNames \in Seq(Range(FlagNames))
      BY Short DEF FlagNames, IsSeq
    <2>2. changedFlags(e) = Selected(FlagNames, S)
      BY DEF changedFlags
    <2>3. S \subseteq Range(FlagNames)
      OBVIOUS
    <2> HIDE DEF S
    <2>4. /\ Selected(FlagNames, S) \in Seq(Range(FlagNames))
          /\ Range(Selected(FlagNames, S)) = Range(FlagNames) \cap S
      BY <2>1, SelectedRange
    <2>5. Range(Selected(FlagNames, S)) = S
      BY <2>3, <2>4
    <2> QED
      BY <2>2, <2>4, <2>5 DEF S
  <1>3. /\ changedMemory(e) \in Seq(0 .. MemEnd - 1)
        /\ Range(changedMemory(e)) = {a \in 0 .. MemEnd - 1 : e.before.mem[a] # e.after.mem[a]}
    <2> DEFINE q == [k \in 1 .. MemEnd |-> k - 1]
               A == 0 .. MemEnd - 1
               S == {a \in A : e.before.mem[a] # e.after.mem[a]}
    <2>1. MemEnd \in Nat
      BY Layout
    <2>2. q \in [1 .. MemEnd -> A]
      BY <2>1
    <2>3. A \subseteq Range(q)
      <3>1. \A a \in A : a + 1 \in 1 .. MemEnd /\ (a + 1) - 1 = a
        BY <2>1
      <3> QED
        BY <3>1 DEF Range
    <2>4. S \subseteq A
      OBVIOUS
    <2>5. changedMemory(e) = Selected(q, S)
      BY DEF changedMemory
    <2> HIDE DEF q, S, A
    <2>6. q \in Seq(A)
      BY <2>1, <2>2, SequenceOf
    <2>7. Selected(q, S) \in Seq(A) /\ Range(Selected(q, S)) = Range(q) \cap S
      BY <2>6, SelectedRange
    <2>8. Range(Selected(q, S)) = S
      BY <2>3, <2>4, <2>7
    <2> QED
      BY <2>5, <2>7, <2>8 DEF S, A
  <1> QED
    BY <1>1, <1>2, <1>3

\* The fields that print how the members of q changed from x to y.
Fields(name, q, x, y) == [k \in DOMAIN q |-> <<name, q[k], x[q[k]], y[q[k]]>>]

LEMMA FieldsAre ==
    ASSUME NEW T, NEW q \in Seq(T), NEW name, NEW x, NEW y
    PROVE  LET F == Fields(name, q, x, y)
           IN /\ IsSeq(F)
              /\ \A f \in Range(F) : \E r \in Range(q) : f = <<name, r, x[r], y[r]>>
              /\ \A r \in Range(q) : <<name, r, x[r], y[r]>> \in Range(F)
  <1> DEFINE F == Fields(name, q, x, y)
             G(r) == <<name, r, x[r], y[r]>>
  <1>1. DOMAIN q = 1 .. Len(q) /\ Len(q) \in Nat
    OBVIOUS
  <1>2. F = [k \in DOMAIN q |-> G(q[k])]
    BY DEF Fields
  <1> HIDE DEF F, G
  <1>3. F = [k \in 1 .. Len(q) |-> F[k]]
    BY <1>1, <1>2
  <1>4. IsSeq(F)
    BY <1>1, <1>3, Mapped
  <1>5. \A f \in Range(F) : \E r \in Range(q) : f = G(r)
    BY <1>2 DEF Range
  <1>6. \A r \in Range(q) : G(r) \in Range(F)
    BY <1>2 DEF Range
  <1> QED
    BY <1>4, <1>5, <1>6 DEF F, G

\* The names of a line's fields tell its parts from each other.
Only(line, name, part) ==
    /\ Range(part) \subseteq Range(line)
    /\ \A f \in Range(line) : f[1] = name => f \in Range(part)

\* Where two functions differ.
Differ(K, x, y) == {r \in K : x[r] # y[r]}

\* A part that has every change of its kind gives the new values.
LEMMA ReplayedIs ==
    ASSUME NEW T, NEW q \in Seq(T), NEW name, NEW x, NEW y, NEW K,
           Range(q) = Differ(K, x, y),
           NEW line, Only(line, name, Fields(name, q, x, y))
    PROVE  \A r \in K : Replayed(line, name, r, x[r]) = y[r]
  <1> SUFFICES ASSUME NEW r \in K
               PROVE  Replayed(line, name, r, x[r]) = y[r]
    OBVIOUS
  <1> DEFINE P == {f \in Range(line) : f[1] = name /\ f[2] = r}
             F == Fields(name, q, x, y)
  <1>0. \A c : <<name, c, x[c], y[c]>>[1] = name /\ <<name, c, x[c], y[c]>>[2] = c
               /\ <<name, c, x[c], y[c]>>[4] = y[c]
    OBVIOUS
  <1>1. \A f \in Range(F) : \E c \in Range(q) : f = <<name, c, x[c], y[c]>>
    BY FieldsAre
  <1>2. \A c \in Range(q) : <<name, c, x[c], y[c]>> \in Range(F)
    BY FieldsAre
  <1> HIDE DEF F
  <1>3. \A f \in P : f[4] = y[r]
    <2> TAKE f \in P
    <2>1. f \in Range(F) /\ f[2] = r
      BY DEF Only, F
    <2>2. PICK c \in Range(q) : f = <<name, c, x[c], y[c]>>
      BY <1>1, <2>1
    <2>3. c = r
      BY <1>0, <2>1, <2>2
    <2> QED
      BY <1>0, <2>2, <2>3
  <1>4. x[r] # y[r] => P # {}
    <2> SUFFICES ASSUME x[r] # y[r] PROVE P # {}
      OBVIOUS
    <2>1. r \in Range(q)
      BY DEF Differ
    <2>2. <<name, r, x[r], y[r]>> \in Range(line)
      BY <1>2, <2>1 DEF Only, F
    <2> QED
      BY <1>0, <2>2
  <1>5. Replayed(line, name, r, x[r]) = IF P = {} THEN x[r] ELSE (CHOOSE f \in P : TRUE)[4]
    BY DEF Replayed
  <1> HIDE DEF P
  <1>6. P # {} => (CHOOSE f \in P : TRUE) \in P
    OBVIOUS
  <1> QED
    BY <1>3, <1>4, <1>5, <1>6

LEMMA ChangedField ==
    ASSUME NEW name, NEW x, NEW y
    PROVE  /\ IsSeq(Changed(name, x, y))
           /\ Range(Changed(name, x, y)) = IF x = y THEN {} ELSE {<<name, x, y>>}
  <1> DEFINE f == <<name, x, y>>
  <1>1. Changed(name, x, y) = IF x = y THEN <<>> ELSE <<f>>
    BY DEF Changed
  <1> HIDE DEF f
  <1> QED
    BY <1>1, Short DEF f

LEMMA MovedIs ==
    ASSUME NEW name, NEW x, NEW y, NEW line, Only(line, name, Changed(name, x, y))
    PROVE  MovedTo(line, name, x) = y
  <1> DEFINE P == {f \in Range(line) : f[1] = name}
             c == <<name, x, y>>
  <1>1. c[1] = name /\ c[3] = y
    OBVIOUS
  <1>2. Range(Changed(name, x, y)) = IF x = y THEN {} ELSE {c}
    BY ChangedField
  <1> HIDE DEF c
  <1>3. \A f \in P : x # y /\ f = c
    BY <1>2 DEF Only
  <1>4. x # y => c \in P
    BY <1>1, <1>2 DEF Only
  <1>5. MovedTo(line, name, x) = IF P = {} THEN x ELSE (CHOOSE f \in P : TRUE)[3]
    BY DEF MovedTo
  <1> HIDE DEF P
  <1>6. P # {} => (CHOOSE f \in P : TRUE) \in P
    OBVIOUS
  <1> QED
    BY <1>1, <1>3, <1>4, <1>5, <1>6

-------------------------------------------------------------------------------
(* The datapath.                                                           *)

NodeNames ==
    {"PC", "InstructionMemory", "Decoder", "RegisterFile", "ALU", "Flags", "Writeback",
     "AddressUnit", "Memory/MMIO", "ControlUnit", "Stack", "SP", "InterruptController",
     "Memory"}

LEMMA OpcodeNodesType ==
    ASSUME NEW o
    PROVE  OpcodeNodes(o) \in Seq(NodeNames)
  <1> DEFINE N == NodeNames
  <1>1. /\ "PC" \in N /\ "RegisterFile" \in N /\ "ALU" \in N /\ "Flags" \in N
        /\ "Writeback" \in N /\ "AddressUnit" \in N /\ "Memory/MMIO" \in N
        /\ "ControlUnit" \in N /\ "Stack" \in N /\ "SP" \in N /\ "InterruptController" \in N
    BY DEF NodeNames
  <1> HIDE DEF N
  <1>2. /\ <<"RegisterFile", "ALU", "Flags", "Writeback">> \in Seq(N)
        /\ <<"RegisterFile", "ALU", "Flags">> \in Seq(N)
        /\ <<"RegisterFile", "Flags", "Writeback">> \in Seq(N)
        /\ <<"AddressUnit", "Memory/MMIO", "RegisterFile", "Flags", "Writeback">> \in Seq(N)
        /\ <<"AddressUnit", "RegisterFile", "Memory/MMIO", "Flags">> \in Seq(N)
        /\ <<"ControlUnit", "PC">> \in Seq(N)
        /\ <<"Flags", "ControlUnit", "PC">> \in Seq(N)
        /\ <<"RegisterFile", "Stack", "SP">> \in Seq(N)
        /\ <<"Stack", "SP", "RegisterFile", "Flags", "Writeback">> \in Seq(N)
        /\ <<"ControlUnit", "Stack", "PC">> \in Seq(N)
        /\ <<"Stack", "PC">> \in Seq(N)
        /\ <<"InterruptController", "Stack", "Flags", "PC">> \in Seq(N)
        /\ <<"Stack", "Flags", "PC">> \in Seq(N)
        /\ <<"InterruptController", "ControlUnit">> \in Seq(N)
        /\ <<"ControlUnit">> \in Seq(N)
    BY <1>1
  <1>3. OpcodeNodes(o) \in Seq(N)
    BY <1>2, Zenon DEF OpcodeNodes
  <1> QED
    BY <1>3 DEF N

\* The path names the registers, the flags and SP if they changed.
LEMMA PathShows ==
    ASSUME NEW e
    PROVE  LET path == Range(datapathNodes(e))
           IN /\ "RegisterFile" \notin path => changedRegisters(e) = <<>>
              /\ "Flags" \notin path => changedFlags(e) = <<>>
              /\ "SP" \notin path => e.before.sp = e.after.sp
  <1> DEFINE N == NodeNames
             a == IF changedRegisters(e) # <<>> THEN <<"RegisterFile">> ELSE <<>>
             b == IF changedFlags(e) # <<>> THEN <<"Flags">> ELSE <<>>
             c == IF changedMemory(e) # <<>> THEN <<"Memory">> ELSE <<>>
             d == IF e.before.sp # e.after.sp THEN <<"Stack", "SP">> ELSE <<>>
             p == IF e.before.pc # e.after.pc THEN <<"PC">> ELSE <<>>
             z == <<"PC", "InstructionMemory", "Decoder">>
             o == OpcodeNodes(e.instruction.op)
             y == addDatapathNodes(z, o)
             x == ChangedNodes(e)
  <1>1. /\ "PC" \in N /\ "RegisterFile" \in N /\ "Flags" \in N /\ "Memory" \in N
        /\ "Stack" \in N /\ "SP" \in N /\ "InstructionMemory" \in N /\ "Decoder" \in N
    BY DEF NodeNames
  <1>2. o \in Seq(N)
    BY OpcodeNodesType
  <1> HIDE DEF N, o
  <1>3. /\ a \in Seq(N) /\ b \in Seq(N) /\ c \in Seq(N) /\ d \in Seq(N) /\ p \in Seq(N)
        /\ z \in Seq(N)
    BY <1>1
  <1>4. /\ changedRegisters(e) # <<>> => "RegisterFile" \in Range(a)
        /\ changedFlags(e) # <<>> => "Flags" \in Range(b)
        /\ e.before.sp # e.after.sp => "SP" \in Range(d)
    BY Short
  <1>5. x = a \o b \o c \o d \o p
    BY DEF ChangedNodes
  <1>6. datapathNodes(e) = addDatapathNodes(y, x)
    BY DEF datapathNodes, o
  <1> HIDE DEF a, b, c, d, p, z, x
  <1>7. x \in Seq(N)
    BY <1>3, <1>5
  <1>8. Range(a) \subseteq Range(x) /\ Range(b) \subseteq Range(x) /\ Range(d) \subseteq Range(x)
    <2>0. IsSeq(a) /\ IsSeq(b) /\ IsSeq(c) /\ IsSeq(d) /\ IsSeq(p)
      BY <1>3, SeqIs
    <2>1. IsSeq(a \o b) /\ Range(a \o b) = Range(a) \cup Range(b)
      BY <2>0, Joined
    <2>2. IsSeq(a \o b \o c) /\ Range(a \o b \o c) = Range(a \o b) \cup Range(c)
      BY <2>0, <2>1, Joined
    <2>3. IsSeq(a \o b \o c \o d) /\ Range(a \o b \o c \o d) = Range(a \o b \o c) \cup Range(d)
      BY <2>0, <2>2, Joined
    <2>4. Range(x) = Range(a \o b \o c \o d) \cup Range(p)
      BY <1>5, <2>0, <2>3, Joined
    <2> QED
      BY <2>1, <2>2, <2>3, <2>4
  <1>9. ASSUME NEW path \in Seq(N), NEW nodes \in Seq(N)
        PROVE  /\ addDatapathNodes(path, nodes) \in Seq(N)
               /\ Range(nodes) \subseteq Range(addDatapathNodes(path, nodes))
    <2> DEFINE S == Range(nodes) \ Range(path)
               k == Selected(nodes, S)
    <2>1. k \in Seq(N) /\ Range(k) = Range(nodes) \cap S
      BY SelectedRange
    <2>2. addDatapathNodes(path, nodes) = path \o k
      BY DEF addDatapathNodes
    <2> HIDE DEF k
    <2>3. Range(path \o k) = Range(path) \cup Range(k)
      BY <2>1, SeqIs, Joined
    <2> QED
      BY <2>1, <2>2, <2>3
  <1>10. y \in Seq(N)
    BY <1>2, <1>3, <1>9
  <1> HIDE DEF y
  <1>11. Range(x) \subseteq Range(datapathNodes(e))
    BY <1>6, <1>7, <1>9, <1>10
  <1> QED
    BY <1>4, <1>8, <1>11

-------------------------------------------------------------------------------
(* The two printed lines.                                                    *)

\* The names of the fields that change nothing.
OtherNames == DetailNames \cup {"PC", "instruction", "action", "path", "Before", "After",
                                "ERROR", "NextPC"}

LEMMA OtherNamed ==
    ASSUME NEW e
    PROVE  /\ Named(Details(e), OtherNames)
           /\ \A x : Named(<<<<"NextPC", x>>>>, OtherNames)
           /\ Named(<<<<"ERROR", TRUE>>>>, OtherNames)
           /\ \A x, y : Named(<<<<"Before", x>>, <<"After", y>>>>, OtherNames)
           /\ \A x, y, z, u : Named(<<<<"PC", x>>, <<"instruction", y>>, <<"action", z>>,
                                      <<"path", u>>>>, OtherNames)
  <1> DEFINE N == OtherNames
  <1>1. Named(Details(e), N)
    BY DetailsNamed DEF Named, OtherNames
  <1>2. /\ "PC" \in N /\ "instruction" \in N /\ "action" \in N /\ "path" \in N
        /\ "Before" \in N /\ "After" \in N /\ "ERROR" \in N /\ "NextPC" \in N
    BY DEF OtherNames
  <1> HIDE DEF N
  <1>3. Named(<<<<"ERROR", TRUE>>>>, N) /\ \A x : Named(<<<<"NextPC", x>>>>, N)
    BY <1>2, NamedParts
  <1>4. ASSUME NEW x, NEW y PROVE Named(<<<<"Before", x>>, <<"After", y>>>>, N)
    <2> DEFINE f == <<"Before", x>>
               g == <<"After", y>>
    <2>1. f[1] \in N /\ g[1] \in N
      BY <1>2
    <2> HIDE DEF f, g
    <2>2. IsSeq(<<f, g>>) /\ Range(<<f, g>>) = {f, g}
      BY Short
    <2>3. Named(<<f, g>>, N)
      BY <2>1, <2>2 DEF Named
    <2> QED
      BY <2>3 DEF f, g
  <1>5. ASSUME NEW x, NEW y, NEW z, NEW u
        PROVE  Named(<<<<"PC", x>>, <<"instruction", y>>, <<"action", z>>, <<"path", u>>>>, N)
    <2> DEFINE f == <<"PC", x>>
               g == <<"instruction", y>>
               h == <<"action", z>>
               k == <<"path", u>>
    <2>1. f[1] \in N /\ g[1] \in N /\ h[1] \in N /\ k[1] \in N
      BY <1>2
    <2> HIDE DEF f, g, h, k
    <2>2. IsSeq(<<f, g, h, k>>) /\ Range(<<f, g, h, k>>) = {f, g, h, k}
      BY Short
    <2>3. Named(<<f, g, h, k>>, N)
      BY <2>1, <2>2 DEF Named
    <2> QED
      BY <2>3 DEF f, g, h, k
  <1> QED
    BY <1>1, <1>3, <1>4, <1>5 DEF N

RegisterFields(e) == Fields("register", changedRegisters(e), e.before.regs, e.after.regs)
FlagFields(e) == Fields("flag", changedFlags(e), e.before.flags, e.after.flags)
MemoryFields(e) == Fields("memory", changedMemory(e), e.before.mem, e.after.mem)

LEMMA PartsNamed ==
    ASSUME NEW e
    PROVE  /\ Named(RegisterFields(e), {"register"})
           /\ Named(FlagFields(e), {"flag"})
           /\ Named(MemoryFields(e), {"memory"})
           /\ Named(Changed("SP", e.before.sp, e.after.sp), {"SP"})
           /\ Named(Changed("halted", e.before.halted, e.after.halted), {"halted"})
           /\ ChangeFields(e) = RegisterFields(e) \o FlagFields(e)
  <1>1. \A T, name, x, y : \A q \in Seq(T) : Named(Fields(name, q, x, y), {name})
    <2> TAKE T, name, x, y
    <2> TAKE q \in Seq(T)
    <2> DEFINE F == Fields(name, q, x, y)
    <2>1. \A f \in Range(F) : \E r \in Range(q) : f = <<name, r, x[r], y[r]>>
      BY FieldsAre
    <2>2. IsSeq(F)
      BY FieldsAre
    <2>3. \A r : <<name, r, x[r], y[r]>>[1] = name
      OBVIOUS
    <2> HIDE DEF F
    <2>4. \A f \in Range(F) : f[1] = name
      BY <2>1, <2>3
    <2>5. Named(F, {name})
      BY <2>2, <2>4 DEF Named
    <2> QED
      BY <2>5 DEF F
  <1>2. \A name, x, y : Named(Changed(name, x, y), {name})
    <2> TAKE name, x, y
    <2>1. <<name, x, y>>[1] = name
      OBVIOUS
    <2>2. \A f \in Range(Changed(name, x, y)) : f = <<name, x, y>>
      BY ChangedField
    <2>3. IsSeq(Changed(name, x, y))
      BY ChangedField
    <2> QED
      BY <2>1, <2>2, <2>3 DEF Named
  <1>3. Named(RegisterFields(e), {"register"})
    BY <1>1, ChangedIs DEF RegisterFields
  <1>4. Named(FlagFields(e), {"flag"})
    BY <1>1, ChangedIs DEF FlagFields
  <1>5. Named(MemoryFields(e), {"memory"})
    BY <1>1, ChangedIs DEF MemoryFields
  <1>6. ChangeFields(e) = RegisterFields(e) \o FlagFields(e)
    BY Zenon DEF ChangeFields, RegisterFields, FlagFields, Fields
  <1> QED
    BY <1>2, <1>3, <1>4, <1>5, <1>6

\* Where a line is put together of parts with different names, each part is all
\* there is of its name.
LEMMA CompactParts ==
    ASSUME NEW e
    PROVE  LET line == toCompactString(e)
           IN /\ Only(line, "register", RegisterFields(e))
              /\ Only(line, "flag", FlagFields(e))
              /\ Only(line, "SP", Changed("SP", e.before.sp, e.after.sp))
              /\ Only(line, "halted", Changed("halted", e.before.halted, e.after.halted))
              /\ line[Len(line)] = <<"NextPC", e.after.pc>>
              /\ line[4][2] = datapathNodes(e)
  <1> DEFINE line == toCompactString(e)
             f == <<"PC", e.before.pc>>
             g == <<"instruction", e.instruction>>
             i == <<"action", actionOf(e.instruction.op)>>
             j == <<"path", datapathNodes(e)>>
             a == <<f, g, i, j>>
             d == Details(e)
             r == RegisterFields(e)
             l == FlagFields(e)
             c == ChangeFields(e)
             s == Changed("SP", e.before.sp, e.after.sp)
             h == Changed("halted", e.before.halted, e.after.halted)
             k == <<<<"ERROR", TRUE>>>>
             x == IF e.after.error THEN k ELSE <<>>
             m == <<"NextPC", e.after.pc>>
             z == <<m>>
             N == OtherNames
  <1>1. /\ Named(a, N) /\ Named(d, N) /\ Named(z, N) /\ Named(k, N)
    BY OtherNamed
  <1>2. /\ Named(r, {"register"}) /\ Named(l, {"flag"}) /\ Named(s, {"SP"})
        /\ Named(h, {"halted"}) /\ c = r \o l
    BY PartsNamed
  <1>3. j[2] = datapathNodes(e)
    OBVIOUS
  <1>4. line = a \o d \o c \o s \o h \o x \o z
    BY Zenon DEF toCompactString
  <1>5. /\ "register" \notin N /\ "flag" \notin N /\ "SP" \notin N /\ "halted" \notin N
    BY DEF OtherNames, DetailNames
  <1> HIDE DEF f, g, i, j, d, r, l, c, s, h, m, k, N, line
  <1>6. a[4] = j /\ Len(a) = 4 /\ z[1] = m /\ Len(z) = 1
    OBVIOUS
  <1>7. Named(x, N)
    BY <1>1, NamedParts
  <1> HIDE DEF a, x, z
  <1>8. /\ IsSeq(a) /\ IsSeq(d) /\ IsSeq(r) /\ IsSeq(l) /\ IsSeq(s) /\ IsSeq(h)
        /\ IsSeq(x) /\ IsSeq(z)
    BY <1>1, <1>2, <1>7 DEF Named
  <1>9. IsSeq(c) /\ Range(c) = Range(r) \cup Range(l)
    BY <1>2, <1>8, Joined
  <1> DEFINE u1 == a \o d
             u2 == u1 \o c
             u3 == u2 \o s
             u4 == u3 \o h
             u5 == u4 \o x
  <1>10. /\ IsSeq(u1) /\ Range(u1) = Range(a) \cup Range(d)
         /\ u1[4] = j /\ Len(u1) \in Nat /\ Len(u1) >= 4
    <2>1. 4 \in 1 .. Len(a)
      BY <1>6
    <2>2. u1[4] = a[4]
      BY <1>8, <2>1, Joined
    <2>3. IsSeq(u1) /\ Range(u1) = Range(a) \cup Range(d)
      BY <1>8, Joined
    <2>4. Len(d) \in Nat /\ Len(u1) = Len(a) + Len(d)
      BY <1>8, Joined
    <2> HIDE DEF u1
    <2> QED
      BY <1>6, <2>2, <2>3, <2>4
  <1> HIDE DEF u1
  <1>11. ASSUME NEW v, NEW w, IsSeq(v), IsSeq(w), v[4] = j, Len(v) \in Nat, Len(v) >= 4
         PROVE  /\ IsSeq(v \o w) /\ Range(v \o w) = Range(v) \cup Range(w)
                /\ (v \o w)[4] = j /\ Len(v \o w) \in Nat /\ Len(v \o w) >= 4
    <2>1. 4 \in 1 .. Len(v)
      BY <1>11
    <2>2. (v \o w)[4] = v[4]
      BY <1>11, <2>1, Joined
    <2>3. IsSeq(v \o w) /\ Range(v \o w) = Range(v) \cup Range(w)
      BY <1>11, Joined
    <2>4. Len(w) \in Nat /\ Len(v \o w) = Len(v) + Len(w)
      BY <1>11, Joined
    <2> QED
      BY <1>11, <2>2, <2>3, <2>4
  <1>12. /\ IsSeq(u2) /\ Range(u2) = Range(u1) \cup Range(c)
         /\ u2[4] = j /\ Len(u2) \in Nat /\ Len(u2) >= 4
    BY <1>9, <1>10, <1>11
  <1> HIDE DEF u2
  <1>13. /\ IsSeq(u3) /\ Range(u3) = Range(u2) \cup Range(s)
         /\ u3[4] = j /\ Len(u3) \in Nat /\ Len(u3) >= 4
    BY <1>8, <1>12, <1>11
  <1> HIDE DEF u3
  <1>14. /\ IsSeq(u4) /\ Range(u4) = Range(u3) \cup Range(h)
         /\ u4[4] = j /\ Len(u4) \in Nat /\ Len(u4) >= 4
    BY <1>8, <1>13, <1>11
  <1> HIDE DEF u4
  <1>15. /\ IsSeq(u5) /\ Range(u5) = Range(u4) \cup Range(x)
         /\ u5[4] = j /\ Len(u5) \in Nat /\ Len(u5) >= 4
    BY <1>8, <1>14, <1>11
  <1>16. line = u5 \o z
    BY <1>4 DEF u1, u2, u3, u4, u5
  <1> HIDE DEF u5
  <1>17. Range(line) = Range(u5) \cup Range(z) /\ line[4] = j
    BY <1>8, <1>15, <1>16, <1>11
  <1>18. line[Len(line)] = m
    <2>0. Len(line) = Len(u5) + Len(z)
      BY <1>8, <1>15, <1>16, Joined
    <2>1. Len(line) = Len(u5) + 1 /\ 1 \in 1 .. Len(z)
      BY <1>6, <2>0
    <2>2. line[Len(u5) + 1] = z[1]
      BY <1>8, <1>15, <1>16, <2>1, Joined
    <2> QED
      BY <1>6, <2>1, <2>2
  <1>19. Range(line) = Range(a) \cup Range(d) \cup Range(r) \cup Range(l) \cup Range(s)
                       \cup Range(h) \cup Range(x) \cup Range(z)
    BY <1>9, <1>10, <1>12, <1>13, <1>14, <1>15, <1>17
  <1>20. /\ \A y \in Range(a) \cup Range(d) \cup Range(x) \cup Range(z) : y[1] \in N
         /\ \A y \in Range(r) : y[1] = "register"
         /\ \A y \in Range(l) : y[1] = "flag"
         /\ \A y \in Range(s) : y[1] = "SP"
         /\ \A y \in Range(h) : y[1] = "halted"
    BY <1>1, <1>2, <1>7 DEF Named
  <1>21. Only(line, "register", r) /\ Only(line, "flag", l)
    BY <1>5, <1>19, <1>20 DEF Only
  <1>22. Only(line, "SP", s) /\ Only(line, "halted", h)
    BY <1>5, <1>19, <1>20 DEF Only
  <1>23. line[4][2] = datapathNodes(e)
    BY <1>3, <1>17
  <1> QED
    BY <1>18, <1>21, <1>22, <1>23 DEF line, r, l, s, h, m

LEMMA FullParts ==
    ASSUME NEW e
    PROVE  LET line == toFullString(e)
           IN /\ Only(line, "register", RegisterFields(e))
              /\ Only(line, "flag", FlagFields(e))
              /\ Only(line, "memory", MemoryFields(e))
              /\ Only(line, "SP", Changed("SP", e.before.sp, e.after.sp))
              /\ line[Len(line)] = <<"NextPC", e.after.pc>>
  <1> DEFINE line == toFullString(e)
             a == <<<<"PC", e.before.pc>>, <<"instruction", e.instruction>>,
                    <<"action", actionOf(e.instruction.op)>>, <<"path", datapathNodes(e)>>>>
             d == Details(e)
             b == <<<<"Before", summary(e.before)>>, <<"After", summary(e.after)>>>>
             r == RegisterFields(e)
             l == FlagFields(e)
             c == ChangeFields(e)
             h == MemoryFields(e)
             s == Changed("SP", e.before.sp, e.after.sp)
             m == <<"NextPC", e.after.pc>>
             z == <<m>>
             N == OtherNames
  <1>1. Named(a, N) /\ Named(d, N) /\ Named(z, N) /\ Named(b, N)
    BY OtherNamed
  <1>2. /\ Named(r, {"register"}) /\ Named(l, {"flag"}) /\ Named(s, {"SP"})
        /\ Named(h, {"memory"}) /\ c = r \o l
    BY PartsNamed
  <1>3. line = a \o d \o b \o c \o h \o s \o z
    BY Zenon DEF toFullString, MemoryFields, Fields
  <1>4. "register" \notin N /\ "flag" \notin N /\ "SP" \notin N /\ "memory" \notin N
    BY DEF OtherNames, DetailNames
  <1> HIDE DEF a, b, d, r, l, c, s, h, m, N, line
  <1>5. z[1] = m /\ Len(z) = 1
    OBVIOUS
  <1> HIDE DEF z
  <1>6. /\ IsSeq(a) /\ IsSeq(d) /\ IsSeq(b) /\ IsSeq(r) /\ IsSeq(l) /\ IsSeq(s) /\ IsSeq(h)
        /\ IsSeq(z)
    BY <1>1, <1>2 DEF Named
  <1>7. IsSeq(c) /\ Range(c) = Range(r) \cup Range(l)
    BY <1>2, <1>6, Joined
  <1> DEFINE u1 == a \o d
             u2 == u1 \o b
             u3 == u2 \o c
             u4 == u3 \o h
             u5 == u4 \o s
  <1>8. IsSeq(u1) /\ Range(u1) = Range(a) \cup Range(d)
    BY <1>6, Joined
  <1> HIDE DEF u1
  <1>9. IsSeq(u2) /\ Range(u2) = Range(u1) \cup Range(b)
    BY <1>6, <1>8, Joined
  <1> HIDE DEF u2
  <1>10. IsSeq(u3) /\ Range(u3) = Range(u2) \cup Range(c)
    BY <1>7, <1>9, Joined
  <1> HIDE DEF u3
  <1>11. IsSeq(u4) /\ Range(u4) = Range(u3) \cup Range(h)
    BY <1>6, <1>10, Joined
  <1> HIDE DEF u4
  <1>12. IsSeq(u5) /\ Range(u5) = Range(u4) \cup Range(s)
    BY <1>6, <1>11, Joined
  <1>13. line = u5 \o z
    BY <1>3 DEF u1, u2, u3, u4, u5
  <1> HIDE DEF u5
  <1>14. Range(line) = Range(u5) \cup Range(z)
    BY <1>6, <1>12, <1>13, Joined
  <1>15. line[Len(line)] = m
    <2>1. Len(line) = Len(u5) + Len(z)
      BY <1>6, <1>12, <1>13, Joined
    <2>2. Len(line) = Len(u5) + 1 /\ 1 \in 1 .. Len(z)
      BY <1>5, <2>1
    <2>3. line[Len(u5) + 1] = z[1]
      BY <1>6, <1>12, <1>13, <2>2, Joined
    <2> QED
      BY <1>5, <2>2, <2>3
  <1>16. Range(line) = Range(a) \cup Range(d) \cup Range(b) \cup Range(r) \cup Range(l)
                       \cup Range(h) \cup Range(s) \cup Range(z)
    BY <1>7, <1>8, <1>9, <1>10, <1>11, <1>12, <1>14
  <1>17. /\ \A y \in Range(a) \cup Range(d) \cup Range(b) \cup Range(z) : y[1] \in N
         /\ \A y \in Range(r) : y[1] = "register"
         /\ \A y \in Range(l) : y[1] = "flag"
         /\ \A y \in Range(s) : y[1] = "SP"
         /\ \A y \in Range(h) : y[1] = "memory"
    BY <1>1, <1>2 DEF Named
  <1>18. Only(line, "register", r) /\ Only(line, "flag", l)
    BY <1>4, <1>16, <1>17 DEF Only
  <1>19. Only(line, "SP", s) /\ Only(line, "memory", h)
    BY <1>4, <1>16, <1>17 DEF Only
  <1> QED
    BY <1>15, <1>18, <1>19 DEF line, r, l, s, h, m

\* The printed lines of any step from one state to another can be replayed.
LEMMA EventReplays ==
    ASSUME NEW e, IsEvent(e)
    PROVE  LineReplays(e)
  <1> DEFINE compact == toCompactString(e)
             full == toFullString(e)
             path == Range(compact[4][2])
  <1>1. ASSUME NEW line, Only(line, "register", RegisterFields(e)),
               Only(line, "flag", FlagFields(e)),
               Only(line, "SP", Changed("SP", e.before.sp, e.after.sp)),
               line[Len(line)] = <<"NextPC", e.after.pc>>
        PROVE  ReplaysRegisters(line, e)
    <2>1. \A r \in Registers : Replayed(line, "register", r, e.before.regs[r]) = e.after.regs[r]
      <3> DEFINE q == changedRegisters(e)
                 x == e.before.regs
                 y == e.after.regs
      <3>1. q \in Seq(Registers) /\ Range(q) = Differ(Registers, x, y)
        BY ChangedIs DEF Differ
      <3>2. Only(line, "register", Fields("register", q, x, y))
        BY <1>1 DEF RegisterFields
      <3> HIDE DEF q, x, y
      <3>3. \A k \in Registers : Replayed(line, "register", k, x[k]) = y[k]
        BY <3>1, <3>2, ReplayedIs
      <3> QED
        BY <3>3 DEF x, y
    <2>2. \A f \in Range(FlagNames) :
              Replayed(line, "flag", f, e.before.flags[f]) = e.after.flags[f]
      <3> DEFINE q == changedFlags(e)
                 x == e.before.flags
                 y == e.after.flags
      <3>1. q \in Seq(Range(FlagNames)) /\ Range(q) = Differ(Range(FlagNames), x, y)
        BY ChangedIs DEF Differ
      <3>2. Only(line, "flag", Fields("flag", q, x, y))
        BY <1>1 DEF FlagFields
      <3> HIDE DEF q, x, y
      <3>3. \A k \in Range(FlagNames) : Replayed(line, "flag", k, x[k]) = y[k]
        BY <3>1, <3>2, ReplayedIs
      <3> QED
        BY <3>3 DEF x, y
    <2>3. MovedTo(line, "SP", e.before.sp) = e.after.sp
      BY <1>1, MovedIs
    <2> QED
      BY <1>1, <2>1, <2>2, <2>3 DEF ReplaysRegisters
  <1>2. ReplaysRegisters(compact, e)
    BY <1>1, CompactParts
  <1>3. MovedTo(compact, "halted", e.before.halted) = e.after.halted
    BY CompactParts, MovedIs
  <1>4. ReplaysRegisters(full, e)
    BY <1>1, FullParts
  <1>5. \A a \in 0 .. MemEnd - 1 : Replayed(full, "memory", a, e.before.mem[a]) = e.after.mem[a]
    <2>1. Only(full, "memory", MemoryFields(e))
      BY FullParts
    <2> QED
      <3> DEFINE q == changedMemory(e)
                 x == e.before.mem
                 y == e.after.mem
                 K == 0 .. MemEnd - 1
      <3>1. q \in Seq(K) /\ Range(q) = Differ(K, x, y)
        BY ChangedIs DEF Differ
      <3>2. Only(full, "memory", Fields("memory", q, x, y))
        BY <2>1 DEF MemoryFields
      <3> HIDE DEF q, x, y, K, full
      <3>3. \A k \in K : Replayed(full, "memory", k, x[k]) = y[k]
        BY <3>1, <3>2, ReplayedIs
      <3> QED
        BY <3>3 DEF x, y, K, full
  <1>6. path = Range(datapathNodes(e))
    BY CompactParts
  <1>7. Range(<<>>) = {}
    BY Short
  <1>8. "RegisterFile" \notin path => e.after.regs = e.before.regs
    <2> SUFFICES ASSUME "RegisterFile" \notin path PROVE e.after.regs = e.before.regs
      OBVIOUS
    <2>1. changedRegisters(e) = <<>>
      BY <1>6, PathShows
    <2>2. {r \in Registers : e.before.regs[r] # e.after.regs[r]} = {}
      BY <1>7, <2>1, ChangedIs
    <2>3. \A r \in Registers : e.before.regs[r] = e.after.regs[r]
      BY <2>2
    <2>4. e.before.regs \in [Registers -> Words] /\ e.after.regs \in [Registers -> Words]
      BY EventFields
    <2> QED
      BY <2>3, <2>4
  <1>9. "Flags" \notin path => e.after.flags = e.before.flags
    <2> SUFFICES ASSUME "Flags" \notin path PROVE e.after.flags = e.before.flags
      OBVIOUS
    <2>1. changedFlags(e) = <<>>
      BY <1>6, PathShows
    <2>2. {f \in Range(FlagNames) : e.before.flags[f] # e.after.flags[f]} = {}
      BY <1>7, <2>1, ChangedIs
    <2>3. Range(FlagNames) = {"zero", "sign", "overflow", "carry"}
      BY Short DEF FlagNames
    <2>4. \A f \in {"zero", "sign", "overflow", "carry"} : e.before.flags[f] = e.after.flags[f]
      BY <2>2, <2>3
    <2>5. e.before.flags \in FlagSets /\ e.after.flags \in FlagSets
      BY EventFields
    <2> QED
      BY <2>4, <2>5 DEF FlagSets
  <1>10. "SP" \notin path => e.after.sp = e.before.sp
    BY <1>6, PathShows
  <1> QED
    BY <1>2, <1>3, <1>4, <1>5, <1>8, <1>9, <1>10, Zenon DEF LineReplays

-------------------------------------------------------------------------------
(* The trace of a run.                                                       *)

\* The machines as far as they have run.
MachinesTyped ==
    /\ Loaded
    /\ count \in 0 .. MaxSteps
    /\ legacy \in CPUs(count) /\ binary \in CPUs(count)

\* Each of the two last steps went from one state to another, and its details
\* are what it did.
EventsTrue ==
    /\ IsEvent(event.legacy) /\ DetailIsTrue(event.legacy, 1)
    /\ IsEvent(event.binary) /\ DetailIsTrue(event.binary, InstructionSize)

TraceInvariant == subject = "program" => MachinesTyped /\ EventsTrue

LEMMA RecordedIs ==
    ASSUME NEW n \in Nat, NEW s \in CPUs(n), NEW t \in CPUs(n), NEW i
    PROVE  IsEvent(Recorded(s, i, t))
  BY DEF IsEvent, Recorded

LEMMA InvalidTrue ==
    ASSUME NEW s, NEW t, NEW size
    PROVE  DetailIsTrue(Recorded(s, Instr0("Invalid"), t), size)
  <1>1. ~Succeeded(Recorded(s, Instr0("Invalid"), t))
    BY DEF Succeeded, Recorded, Instr0, Instr
  <1> QED
    BY <1>1, OthersTrue

LEMMA LegacyEvent ==
    ASSUME NEW n \in Nat, n <= MaxWord, NEW s \in CPUs(n), Loaded, ~s.halted
    PROVE  LET e == Recorded(s, LegacyInstruction(s), LegacyStep(s))
           IN IsEvent(e) /\ DetailIsTrue(e, 1)
  <1>1. LegacyStep(s) \in CPUs(n + 1) /\ s \in CPUs(n + 1) /\ n + 1 \in Nat
    BY StepTypes, StatesGrow
  <1>2. IsEvent(Recorded(s, LegacyInstruction(s), LegacyStep(s)))
    BY <1>1, RecordedIs
  <1>3. CASE LegacyFetches(s)
    <2> DEFINE i == program.code[s.pc + 1]
    <2>1. s.pc + 1 \in 1 .. Len(program.code)
      BY <1>3, StateFields, ProgramFacts DEF LegacyFetches
    <2>2. i.op \in Opcodes /\ Typed(i.dst) /\ Typed(i.src)
      BY <2>1, ProgramFacts
    <2>3. LegacyInstruction(s) = i /\ LegacyStep(s) = execute(s, i)
      BY <1>3 DEF LegacyInstruction, LegacyStep
    <2> HIDE DEF i
    <2>4. DetailIsTrue(Recorded(s, i, execute(s, i)), 1)
      BY <2>2, TypedReadable, LegacyDetail
    <2> QED
      BY <1>2, <2>3, <2>4
  <1>4. CASE ~LegacyFetches(s)
    <2>1. LegacyInstruction(s) = Instr0("Invalid")
      BY <1>4 DEF LegacyInstruction
    <2> QED
      BY <1>2, <2>1, InvalidTrue
  <1> QED
    BY <1>3, <1>4

LEMMA BinaryEvent ==
    ASSUME NEW n \in Nat, n <= MaxWord, NEW s \in CPUs(n), Loaded, ~s.halted
    PROVE  LET e == Recorded(s, TracedInstruction(s), BinaryStep(s))
           IN IsEvent(e) /\ DetailIsTrue(e, InstructionSize)
  <1>1. BinaryStep(s) \in CPUs(n + 1) /\ s \in CPUs(n + 1) /\ n + 1 \in Nat
    BY StepTypes, StatesGrow
  <1>2. IsEvent(Recorded(s, TracedInstruction(s), BinaryStep(s)))
    BY <1>1, RecordedIs
  <1>3. CASE Fetches(s)
    <2>1. /\ TracedInstruction(s) = traceInstructionForCurrentBinaryPc(s)
          /\ BinaryStep(s) = executeBinaryInstruction(s, decodeInstruction(Fetched(s)))
      BY <1>3 DEF TracedInstruction, BinaryStep
    <2> QED
      BY <1>2, <1>3, <2>1, BinaryDetail
  <1>4. CASE ~Fetches(s)
    <2>1. TracedInstruction(s) = Instr0("Invalid")
      BY <1>4 DEF TracedInstruction
    <2> QED
      BY <1>2, <2>1, InvalidTrue
  <1> QED
    BY <1>3, <1>4

LEMMA TraceInit ==
    ASSUME MCInit
    PROVE  TraceInvariant
  <1> SUFFICES ASSUME subject = "program" PROVE MachinesTyped /\ EventsTrue
    BY DEF TraceInvariant
  <1>1. Init
    BY DEF MCInit
  <1>2. Loaded /\ legacy \in CPUs(0) /\ binary \in CPUs(0) /\ count = 0
    BY <1>1, InitType DEF Init
  <1>3. MachinesTyped
    BY <1>2, Layout DEF MachinesTyped
  <1>4. /\ event.legacy = Recorded(legacy, Instr0("Invalid"), legacy)
        /\ event.binary = Recorded(binary, Instr0("Invalid"), binary)
    BY <1>1 DEF Init
  <1>5. IsEvent(event.legacy) /\ IsEvent(event.binary)
    <2>1. 0 \in Nat
      OBVIOUS
    <2> QED
      BY <1>2, <1>4, <2>1, RecordedIs
  <1>6. EventsTrue
    BY <1>4, <1>5, InvalidTrue DEF EventsTrue
  <1> QED
    BY <1>3, <1>6

LEMMA TraceStep ==
    ASSUME TraceInvariant, [MCNext]_<<subject, vars, aluVars>>
    PROVE  TraceInvariant'
  <1> SUFFICES ASSUME subject' = "program" PROVE (MachinesTyped /\ EventsTrue)'
    BY DEF TraceInvariant
  <1>0. subject = "program"
    BY DEF MCNext
  <1>1. MachinesTyped /\ EventsTrue
    BY <1>0 DEF TraceInvariant
  <1>2. CASE Step
    <2>1. /\ count \in Nat /\ count < MaxSteps /\ count' = count + 1 /\ program' = program
          /\ legacy' = LegacyStep(legacy) /\ binary' = BinaryStep(binary)
          /\ event' = [legacy |-> IF legacy.halted THEN event.legacy
                                  ELSE Recorded(legacy, LegacyInstruction(legacy), legacy'),
                       binary |-> IF binary.halted THEN event.binary
                                  ELSE Recorded(binary, TracedInstruction(binary), binary')]
      BY <1>1, <1>2 DEF MachinesTyped, Step
    <2>2. Loaded /\ legacy \in CPUs(count) /\ binary \in CPUs(count)
      BY <1>1 DEF MachinesTyped
    <2>3. count <= MaxWord /\ count + 1 \in 0 .. MaxSteps
      BY <2>1, Layout, StepsAssumption, ByteFacts DEF MaxWord
    <2>4. legacy' \in CPUs(count + 1) /\ binary' \in CPUs(count + 1)
      BY <2>1, <2>2, <2>3, StepTypes
    <2>5. MachinesTyped'
      BY <2>1, <2>2, <2>3, <2>4 DEF MachinesTyped, Loaded
    <2>6. /\ event'.legacy = IF legacy.halted THEN event.legacy
                             ELSE Recorded(legacy, LegacyInstruction(legacy), LegacyStep(legacy))
          /\ event'.binary = IF binary.halted THEN event.binary
                             ELSE Recorded(binary, TracedInstruction(binary), BinaryStep(binary))
      BY <2>1
    <2>7. IsEvent(event'.legacy) /\ DetailIsTrue(event'.legacy, 1)
      BY <1>1, <2>1, <2>2, <2>3, <2>6, LegacyEvent DEF EventsTrue
    <2>8. IsEvent(event'.binary) /\ DetailIsTrue(event'.binary, InstructionSize)
      BY <1>1, <2>1, <2>2, <2>3, <2>6, BinaryEvent DEF EventsTrue
    <2> QED
      BY <2>5, <2>7, <2>8 DEF EventsTrue
  <1>3. CASE Exhausted
    <2>1. /\ count \in Nat /\ legacy \in CPUs(count) /\ binary \in CPUs(count)
          /\ count' = count /\ program' = program /\ event' = event
          /\ legacy' \in {legacy, Failed(legacy)} /\ binary' \in {binary, Failed(binary)}
      BY <1>1, <1>3 DEF MachinesTyped, Exhausted
    <2>2. legacy' \in CPUs(count) /\ binary' \in CPUs(count)
      BY <2>1, SimpleUpdates
    <2>3. MachinesTyped'
      BY <1>1, <2>1, <2>2 DEF MachinesTyped, Loaded
    <2>4. EventsTrue'
      BY <1>1, <2>1 DEF EventsTrue
    <2> QED
      BY <2>3, <2>4
  <1>4. CASE UNCHANGED <<subject, vars, aluVars>>
    BY <1>1, <1>4 DEF vars, MachinesTyped, Loaded, EventsTrue
  <1> QED
    BY <1>0, <1>2, <1>3, <1>4 DEF MCNext, Next

\* Whatever the program, both CPUs stay typed and every event that CPU::step
\* records is of a step between two typed states and tells what it did.
THEOREM TraceInvariantHolds == MCSpec => []TraceInvariant
  BY TraceInit, TraceStep, PTL DEF MCSpec

\* In every run of every program, a printed trace line (toCompactString) and the
\* state before the step give registers, flags, stack pointer, program counter
\* and halt after it, the full form (toFullString) the memory too, and the
\* printed path leaves out nothing that changed.
THEOREM LinesCorrect == MCSpec => []LinesAlwaysReplay
  <1>1. TraceInvariant => LinesAlwaysReplay
    BY EventReplays DEF TraceInvariant, EventsTrue, LinesAlwaysReplay, LinesReplay
  <1> QED
    BY <1>1, TraceInvariantHolds, PTL

\* In every run of every program, the details that TraceEvent works out of the
\* two snapshots are what the CPU did: the ALU's result for the operands shown,
\* the word at the address shown, the value popped, the target jumped to, and,
\* on flags without overflow, whether a branch was taken.  The value shown of what
\* PUSH or CALL left on the stack has the lowest byte of the word (TracePush.cfg
\* shows that it is not the word).
THEOREM TraceCorrect == MCSpec => []TraceIsTrue
  <1>1. TraceInvariant => TraceIsTrue
    BY DEF TraceInvariant, EventsTrue, TraceIsTrue, DetailsAreTrue
  <1> QED
    BY <1>1, TraceInvariantHolds, PTL

-------------------------------------------------------------------------------
(* The decoder undoes the encoder.                                           *)

LEMMA LookupIs ==
    ASSUME NEW table, NEW row \in table, \A r \in table : r[1] = row[1] => r[2] = row[2]
    PROVE  row[1] \in DOMAIN Lookup(table) /\ Lookup(table)[row[1]] = row[2]
  <1> DEFINE P(r) == r \in table /\ r[1] = row[1]
             c == CHOOSE r \in table : r[1] = row[1]
  <1>1. c \in table /\ c[1] = row[1]
    OBVIOUS
  <1>2. row[1] \in DOMAIN Lookup(table)
    BY DEF Lookup
  <1>3. Lookup(table)[row[1]] = c[2]
    BY DEF Lookup
  <1> HIDE DEF c
  <1> QED
    BY <1>1, <1>2, <1>3

\* The decoder undoes what the encoder does to opcodes.
LEMMA OpcodesDecode ==
    ASSUME NEW o \in Opcodes
    PROVE  encodeOpcode[o] \in DOMAIN decodeOpcode /\ decodeOpcode[encodeOpcode[o]] = o
  <1> DEFINE table ==
           {<<0, "NOP">>, <<1, "HALT">>, <<16, "MOV">>, <<17, "LOAD">>, <<18, "STORE">>,
            <<32, "ADD">>, <<33, "SUB">>, <<34, "MUL">>, <<35, "DIV">>,
            <<48, "CMP">>, <<49, "TEST">>, <<64, "JMP">>, <<65, "JE">>, <<66, "JNE">>,
            <<67, "JG">>, <<68, "JL">>, <<80, "PUSH">>, <<81, "POP">>, <<82, "CALL">>,
            <<83, "RET">>, <<84, "IRET">>, <<96, "AND">>, <<97, "OR">>, <<98, "XOR">>,
            <<99, "NOT">>, <<112, "EI">>, <<113, "DI">>, <<114, "INT">>}
             Back(x) ==
               IF x = 0 THEN "NOP" ELSE IF x = 1 THEN "HALT" ELSE IF x = 16 THEN "MOV"
               ELSE IF x = 17 THEN "LOAD" ELSE IF x = 18 THEN "STORE"
               ELSE IF x = 32 THEN "ADD" ELSE IF x = 33 THEN "SUB" ELSE IF x = 34 THEN "MUL"
               ELSE IF x = 35 THEN "DIV" ELSE IF x = 48 THEN "CMP" ELSE IF x = 49 THEN "TEST"
               ELSE IF x = 64 THEN "JMP" ELSE IF x = 65 THEN "JE" ELSE IF x = 66 THEN "JNE"
               ELSE IF x = 67 THEN "JG" ELSE IF x = 68 THEN "JL" ELSE IF x = 80 THEN "PUSH"
               ELSE IF x = 81 THEN "POP" ELSE IF x = 82 THEN "CALL" ELSE IF x = 83 THEN "RET"
               ELSE IF x = 84 THEN "IRET" ELSE IF x = 96 THEN "AND" ELSE IF x = 97 THEN "OR"
               ELSE IF x = 98 THEN "XOR" ELSE IF x = 99 THEN "NOT" ELSE IF x = 112 THEN "EI"
               ELSE IF x = 113 THEN "DI" ELSE "INT"
             row == <<encodeOpcode[o], o>>
  <1>1. \A r \in table : r[2] = Back(r[1])
    OBVIOUS
  <1>2. o \in OpcodeNames
    BY OpcodesAre
  <1>3. row \in table
    BY <1>2 DEF OpcodeNames, encodeOpcode
  <1>4. decodeOpcode = Lookup(table)
    BY Zenon DEF decodeOpcode
  <1>5. row[1] = encodeOpcode[o] /\ row[2] = o
    OBVIOUS
  <1> HIDE DEF table, Back, row
  <1>6. \A r \in table : r[1] = row[1] => r[2] = row[2]
    BY <1>1, <1>3
  <1>7. row[1] \in DOMAIN Lookup(table) /\ Lookup(table)[row[1]] = row[2]
    BY <1>3, <1>6, LookupIs
  <1> QED
    BY <1>4, <1>5, <1>7

\* The type of an operand after encoding.
EncodedName(type) == IF type = "Label" THEN "CodeAddress" ELSE type

LEMMA TypesDecode ==
    ASSUME NEW t \in DOMAIN encodeType
    PROVE  /\ encodeType[t] \in DOMAIN decodeOperandType
           /\ decodeOperandType[encodeType[t]] = EncodedName(t)
  <1> DEFINE table ==
           {<<0, "None">>, <<1, "Register">>, <<2, "Immediate">>, <<3, "MemoryAddress">>,
            <<4, "CodeAddress">>, <<5, "RegisterIndirectAddress">>}
             Back(x) ==
               IF x = 0 THEN "None" ELSE IF x = 1 THEN "Register" ELSE IF x = 2 THEN "Immediate"
               ELSE IF x = 3 THEN "MemoryAddress" ELSE IF x = 4 THEN "CodeAddress"
               ELSE "RegisterIndirectAddress"
             row == <<encodeType[t], EncodedName(t)>>
  <1>1. \A r \in table : r[2] = Back(r[1])
    OBVIOUS
  <1>2. row \in table
    BY DEF encodeType, EncodedName
  <1>3. decodeOperandType = Lookup(table)
    BY Zenon DEF decodeOperandType
  <1>4. row[1] = encodeType[t] /\ row[2] = EncodedName(t)
    OBVIOUS
  <1> HIDE DEF table, Back, row
  <1>5. \A r \in table : r[1] = row[1] => r[2] = row[2]
    BY <1>1, <1>2
  <1>6. row[1] \in DOMAIN Lookup(table) /\ Lookup(table)[row[1]] = row[2]
    BY <1>2, <1>5, LookupIs
  <1> QED
    BY <1>3, <1>4, <1>6

\* Only the bytes of a word count.
LEMMA SameBytes ==
    ASSUME NEW f, NEW g, \A i \in 1 .. WordBytes : f[i] = g[i]
    PROVE  WordOf(f) = WordOf(g)
  <1> DEFINE d == [i \in 0 .. WordBytes - 1 |-> f[i + 1]]
             e == [i \in 0 .. WordBytes - 1 |-> g[i + 1]]
  <1>1. \A i \in 0 .. WordBytes - 1 : i + 1 \in 1 .. WordBytes
    BY ByteFacts
  <1>2. d = e
    BY <1>1
  <1> QED
    BY <1>2, Zenon DEF WordOf

\* An instruction as the decoder gives it back.
IsEncoded(j, i, labels) ==
    /\ j.op = i.op
    /\ j.dst = [type |-> EncodedName(i.dst.type), v |-> EncodePayload(i.dst, labels)]
    /\ j.src = [type |-> EncodedName(i.src.type), v |-> EncodePayload(i.src, labels)]

LEMMA Decoded ==
    ASSUME NEW i, NEW labels, i.op \in Opcodes, Typed(i.dst), Typed(i.src),
           EncodePayload(i.dst, labels) \in Words, EncodePayload(i.src, labels) \in Words,
           NEW b \in [1 .. InstructionSize -> Byte],
           \A k \in 1 .. InstructionSize : b[k] = encodeInstruction(i, labels)[k]
    PROVE  Decodable(b) /\ IsEncoded(decodeInstruction(b), i, labels)
  <1> DEFINE h == <<encodeOpcode[i.op], encodeType[i.dst.type], encodeType[i.src.type], 0>>
             p == EncodePayload(i.dst, labels)
             q == EncodePayload(i.src, labels)
             x == Bytes(p)
             y == Bytes(q)
             z == [k \in 1 .. ReservedTail |-> 0]
             W == WordBytes
  <1>1. /\ Len(h) = 4 /\ h \in Seq(Byte) /\ h[1] = encodeOpcode[i.op]
        /\ h[2] = encodeType[i.dst.type] /\ h[3] = encodeType[i.src.type] /\ h[4] = 0
    BY CodesAreBytes DEF Typed
  <1>2. x \in Seq(Byte) /\ Len(x) = W /\ y \in Seq(Byte) /\ Len(y) = W
    <2>1. \A w \in Words : w \in Int /\ w >= -(2 * Half)
      BY WordFacts
    <2> QED
      BY <2>1, BytesType
  <1>3. z \in Seq(Byte) /\ Len(z) = 4 /\ \A k \in 1 .. 4 : z[k] = 0
    <2>1. z \in [1 .. 4 -> Byte] /\ 4 \in Nat
      BY CodesAreBytes DEF ReservedTail
    <2>2. \A k \in 1 .. 4 : z[k] = 0
      BY DEF ReservedTail
    <2> HIDE DEF z
    <2>3. z \in Seq(Byte) /\ Len(z) = 4
      BY <2>1, SequenceOf
    <2> QED
      BY <2>2, <2>3
  <1>4. encodeInstruction(i, labels) = h \o x \o y \o z
    BY Zenon DEF encodeInstruction
  <1>5. W \in Nat \ {0} /\ InstructionSize = 8 + 2 * W /\ InstructionSize - ReservedTail = 4 + 2 * W
    BY ByteFacts DEF InstructionSize, ReservedTail
  <1> HIDE DEF h, x, y, z, p, q, W
  <1> DEFINE e == h \o x \o y \o z
  <1>6. /\ \A k \in 1 .. 4 : e[k] = h[k]
        /\ \A k \in 1 .. W : e[4 + k] = x[k]
        /\ \A k \in 1 .. W : e[4 + W + k] = y[k]
        /\ \A k \in 1 .. 4 : e[4 + 2 * W + k] = z[k]
    <2>1. IsSeq(h) /\ IsSeq(x) /\ IsSeq(y) /\ IsSeq(z)
      BY <1>1, <1>2, <1>3, SeqIs
    <2> DEFINE hx == h \o x
               hy == hx \o y
    <2>a. /\ IsSeq(hx) /\ Len(hx) = Len(h) + Len(x)
          /\ \A k \in 1 .. Len(h) : hx[k] = h[k]
          /\ \A k \in 1 .. Len(x) : hx[Len(h) + k] = x[k]
      BY <2>1, Joined
    <2> HIDE DEF hx
    <2>2. Len(hx) = 4 + W /\ \A k \in 1 .. 4 : hx[k] = h[k]
      BY <1>1, <1>2, <2>a
    <2>3. \A k \in 1 .. W : hx[4 + k] = x[k]
      BY <1>1, <1>2, <2>a
    <2>4. /\ IsSeq(hy) /\ Len(hy) = Len(hx) + Len(y)
          /\ \A k \in 1 .. Len(hx) : hy[k] = hx[k]
          /\ \A k \in 1 .. Len(y) : hy[Len(hx) + k] = y[k]
      <3>1. IsSeq(hx) /\ IsSeq(y)
        BY <2>1, <2>a
      <3> QED
        BY ONLY <3>1, Joined
    <2> HIDE DEF hy
    <2>5. Len(hy) = 4 + 2 * W
      BY <1>2, <1>5, <2>2, <2>4
    <2>6. \A k \in 1 .. 4 + W : hy[k] = hx[k]
      BY <2>2, <2>4
    <2>7. \A k \in 1 .. W : hy[4 + W + k] = y[k]
      BY <1>2, <2>2, <2>4
    <2>b. /\ \A k \in 1 .. Len(hy) : (hy \o z)[k] = hy[k]
          /\ \A k \in 1 .. Len(z) : (hy \o z)[Len(hy) + k] = z[k]
      BY <2>1, <2>4, Joined
    <2>8. \A k \in 1 .. 4 + 2 * W : (hy \o z)[k] = hy[k]
      BY <2>5, <2>b
    <2>9. \A k \in 1 .. 4 : (hy \o z)[4 + 2 * W + k] = z[k]
      BY <1>3, <2>5, <2>b
    <2>10. e = hy \o z
      BY DEF hy, hx
    <2> HIDE DEF e
    <2>11. \A k \in 1 .. 4 : e[k] = h[k]
      <3>1. \A k \in 1 .. 4 : k \in 1 .. 4 + 2 * W /\ k \in 1 .. 4 + W
        BY <1>5
      <3> QED
        BY <2>2, <2>6, <2>8, <2>10, <3>1
    <2>12. \A k \in 1 .. W : e[4 + k] = x[k]
      <3>1. \A k \in 1 .. W : 4 + k \in 1 .. 4 + 2 * W /\ 4 + k \in 1 .. 4 + W
        BY <1>5
      <3> QED
        BY <2>3, <2>6, <2>8, <2>10, <3>1
    <2>13. \A k \in 1 .. W : e[4 + W + k] = y[k]
      <3>1. \A k \in 1 .. W : 4 + W + k \in 1 .. 4 + 2 * W
        BY <1>5
      <3> QED
        BY <2>7, <2>8, <2>10, <3>1
    <2> QED
      BY <2>9, <2>10, <2>11, <2>12, <2>13
  <1>7. \A k \in 1 .. 8 + 2 * W : b[k] = e[k]
    BY <1>4, <1>5
  <1> HIDE DEF e
  <1>8. /\ b[1] = encodeOpcode[i.op] /\ b[2] = encodeType[i.dst.type]
        /\ b[3] = encodeType[i.src.type] /\ b[4] = 0
    <2>1. \A k \in 1 .. 4 : k \in 1 .. 8 + 2 * W
      BY <1>5
    <2>2. \A k \in 1 .. 4 : b[k] = h[k]
      BY <1>6, <1>7, <2>1
    <2> QED
      BY <1>1, <2>2
  <1>9. \A k \in 4 + 2 * W + 1 .. 8 + 2 * W : b[k] = 0
    <2> TAKE k \in 4 + 2 * W + 1 .. 8 + 2 * W
    <2>1. /\ k \in 1 .. 8 + 2 * W /\ k - (4 + 2 * W) \in 1 .. 4
          /\ 4 + 2 * W + (k - (4 + 2 * W)) = k
      BY <1>5
    <2>2. e[k] = z[k - (4 + 2 * W)]
      BY <1>6, <2>1
    <2> QED
      BY <1>3, <1>7, <2>1, <2>2
  <1>10. Decodable(b)
    <2>1. b[1] \in DOMAIN decodeOpcode
      BY <1>8, OpcodesDecode
    <2>2. b[2] \in DOMAIN decodeOperandType /\ b[3] \in DOMAIN decodeOperandType
      BY <1>8, TypesDecode DEF Typed
    <2> QED
      BY <1>5, <1>8, <1>9, <2>1, <2>2 DEF Decodable
  <1> DEFINE f == SubSeq(b, 5, 4 + W)
             g == SubSeq(b, 5 + W, 4 + 2 * W)
  <1>11. b \in Seq(Byte) /\ Len(b) = 8 + 2 * W
    BY <1>5, SequenceOf
  <1>12. WordOf(f) = p
    <2>1. \A k \in 1 .. W : f[k] = b[4 + k]
      BY <1>5, <1>11
    <2>2. \A k \in 1 .. W : 4 + k \in 1 .. 8 + 2 * W
      BY <1>5
    <2> HIDE DEF f
    <2>3. \A k \in 1 .. WordBytes : f[k] = x[k]
      BY <1>6, <1>7, <2>1, <2>2 DEF W
    <2>4. WordOf(f) = WordOf(x)
      BY <2>3, SameBytes
    <2>5. p \in Words
      BY DEF p
    <2> QED
      BY <2>4, <2>5, WordRoundTrip DEF x
  <1>13. WordOf(g) = q
    <2>1. \A k \in 1 .. W : g[k] = b[4 + W + k]
      BY <1>5, <1>11
    <2>2. \A k \in 1 .. W : 4 + W + k \in 1 .. 8 + 2 * W
      BY <1>5
    <2> HIDE DEF g
    <2>3. \A k \in 1 .. WordBytes : g[k] = y[k]
      BY <1>6, <1>7, <2>1, <2>2 DEF W
    <2>4. WordOf(g) = WordOf(y)
      BY <2>3, SameBytes
    <2>5. q \in Words
      BY DEF q
    <2> QED
      BY <2>4, <2>5, WordRoundTrip DEF y
  <1>14. /\ decodeInstruction(b).op = decodeOpcode[b[1]]
         /\ decodeInstruction(b).dst = [type |-> decodeOperandType[b[2]], v |-> WordOf(f)]
         /\ decodeInstruction(b).src = [type |-> decodeOperandType[b[3]], v |-> WordOf(g)]
    BY DEF decodeInstruction, Instr, W
  <1> HIDE DEF f, g
  <1>15. /\ decodeOpcode[b[1]] = i.op
         /\ decodeOperandType[b[2]] = EncodedName(i.dst.type)
         /\ decodeOperandType[b[3]] = EncodedName(i.src.type)
    BY <1>8, OpcodesDecode, TypesDecode DEF Typed
  <1>16. IsEncoded(decodeInstruction(b), i, labels)
    BY <1>12, <1>13, <1>14, <1>15 DEF IsEncoded, p, q
  <1> QED
    BY <1>10, <1>16

-------------------------------------------------------------------------------
(* The code in memory.                                                       *)

LEMMA QuotientIs ==
    ASSUME NEW d \in Nat \ {0}, NEW k \in Nat, NEW r \in 0 .. d - 1
    PROVE  (k * d + r) \div d = k /\ (k * d + r) % d = r
  OBVIOUS

\* Where the bytes of an instruction are in the image (encodeProgram).
LEMMA ImageAt ==
    ASSUME Loaded, NEW k \in 0 .. Len(program.code) - 1, NEW m \in 1 .. InstructionSize
    PROVE  /\ k * InstructionSize + m \in 1 .. Len(program.code) * InstructionSize
           /\ encodeProgram(program.code, program.labels)[k * InstructionSize + m] =
              encodeInstruction(program.code[k + 1], program.labels)[m]
  <1> DEFINE L == Len(program.code)
             S == InstructionSize
             e == [j \in 1 .. L |-> encodeInstruction(program.code[j], program.labels)]
             b == k * S + m
             f == [c \in 1 .. L * S |-> e[(c - 1) \div S + 1][((c - 1) % S) + 1]]
  <1>1. L \in Nat /\ S \in Nat \ {0} /\ k \in Nat /\ m \in Nat
    BY ProgramFacts, Layout
  <1>2. k * S \in Nat /\ k * S + S <= L * S
    <2>1. \A x, y \in Nat : x <= y => x * S <= y * S
      BY <1>1
    <2>2. (k + 1) * S = k * S + S /\ k + 1 \in Nat /\ k + 1 <= L
      BY <1>1
    <2> QED
      BY <1>1, <2>1, <2>2
  <1>3. b \in 1 .. L * S
    BY <1>1, <1>2
  <1>4. (b - 1) \div S = k /\ (b - 1) % S = m - 1
    <2>1. m - 1 \in 0 .. S - 1 /\ b - 1 = k * S + (m - 1)
      BY <1>1, <1>2
    <2> HIDE DEF S, b
    <2>2. (k * S + (m - 1)) \div S = k /\ (k * S + (m - 1)) % S = m - 1
      BY ONLY <1>1, <2>1, QuotientIs
    <2> QED
      BY ONLY <2>1, <2>2, Zenon
  <1>5. f[b] = e[(b - 1) \div S + 1][((b - 1) % S) + 1]
    <2> HIDE DEF e, b
    <2> QED
      BY <1>3
  <1>6. e[k + 1] = encodeInstruction(program.code[k + 1], program.labels)
    BY <1>1
  <1>7. encodeProgram(program.code, program.labels) = f
    BY DEF encodeProgram
  <1> HIDE DEF f, e, L, S
  <1>8. f[b] = e[k + 1][m]
    BY <1>1, <1>4, <1>5
  <1> QED
    BY <1>3, <1>6, <1>7, <1>8 DEF L, S

\* What the assembler gives.
LEMMA Assembled ==
    ASSUME Loaded
    PROVE  /\ MemEnd <= MaxWord
           /\ \A l \in DOMAIN program.labels : program.labels[l] \in 0 .. Len(program.code)
           /\ \A k \in 1 .. Len(program.code) : \A o \in {program.code[k].dst, program.code[k].src} :
                 o.type = "MemoryAddress" => o.v <= MaxWord
  <1>1. PICK family \in Programs : program \in family
    BY DEF Loaded
  <1>2. /\ MemEnd <= MaxWord
        /\ \A l \in DOMAIN program.labels : program.labels[l] <= Len(program.code)
        /\ \A k \in 1 .. Len(program.code) : \A o \in {program.code[k].dst, program.code[k].src} :
              o.type = "MemoryAddress" => o.v <= MaxWord
    BY <1>1, AssembledAssumption, Zenon
  <1>3. \A l \in DOMAIN program.labels : program.labels[l] \in Nat
    BY ProgramFacts
  <1>4. Len(program.code) \in Nat
    BY ProgramFacts
  <1>5. \A l \in DOMAIN program.labels : program.labels[l] \in 0 .. Len(program.code)
    BY <1>2, <1>3, <1>4
  <1> QED
    BY <1>2, <1>5

\* The address of the k-th instruction, from 0.
AddressOf(k) == CodeBase + k * InstructionSize

LEMMA CodeAddresses ==
    ASSUME Loaded, NEW k \in 0 .. Len(program.code)
    PROVE  /\ AddressOf(k) \in Nat /\ AddressOf(k) <= StackBase
           /\ k * InstructionSize \in Nat /\ k * InstructionSize <= MaxWord
           /\ isBinaryPcInCode(AddressOf(k)) <=> k < Len(program.code)
  <1> DEFINE L == Len(program.code)
             S == InstructionSize
  <1>1. L \in Nat /\ S \in Nat \ {0} /\ k \in Nat /\ k <= L
    BY ProgramFacts, Layout
  <1>2. L * S <= StackBase - CodeBase
    BY ProgramFacts
  <1>3. \A x, y \in Nat : x * S \in Nat /\ (x <= y => x * S <= y * S)
    BY <1>1
  <1>4. k * S \in Nat /\ L * S \in Nat /\ k * S <= L * S
    BY <1>1, <1>3
  <1>5. k < L => k * S + S <= L * S
    <2>1. (k + 1) * S = k * S + S /\ k + 1 \in Nat
      BY <1>1
    <2> QED
      BY <1>1, <1>3, <2>1
  <1>6. (k * S) % S = 0
    <2>1. 0 \in 0 .. S - 1 /\ k * S + 0 = k * S
      BY <1>1, <1>4
    <2> HIDE DEF S
    <2>2. (k * S + 0) % S = 0
      BY ONLY <1>1, <2>1, QuotientIs
    <2> QED
      BY <2>1, <2>2, Zenon
  <1>7. AddressOf(k) = CodeBase + k * S /\ CodeEnd = CodeBase + L * S
    BY DEF AddressOf, CodeEnd
  <1>8. StackBase <= MaxWord
    BY Assembled, Layout, ByteFacts DEF MaxWord
  <1>9. (AddressOf(k) - CodeBase) = k * S
    BY <1>4, <1>7, Layout
  <1> HIDE DEF L
  <1>10. isBinaryPcInCode(AddressOf(k)) <=>
           AddressOf(k) >= CodeBase /\ AddressOf(k) + S <= CodeBase + L * S
    BY <1>6, <1>7, <1>9 DEF isBinaryPcInCode
  <1> HIDE DEF S
  <1>11. isBinaryPcInCode(AddressOf(k)) <=> k * S + S <= L * S
    BY <1>1, <1>4, <1>7, <1>10, Layout
  <1>12. k * S + S <= L * S => k < L
    BY <1>1, <1>4
  <1>13. AddressOf(k) \in Nat /\ AddressOf(k) <= StackBase
    BY <1>2, <1>4, <1>7, Layout
  <1>14. k * S <= MaxWord
    BY <1>2, <1>4, <1>8, Layout, ByteFacts DEF MaxWord
  <1> QED
    BY <1>4, <1>5, <1>11, <1>12, <1>13, <1>14 DEF L, S

\* The code in memory is the program's.
CodeIntact(mem) ==
    \A b \in 1 .. Len(program.code) * InstructionSize :
        mem[CodeBase + b - 1] = encodeProgram(program.code, program.labels)[b]

LEMMA PayloadWords ==
    ASSUME Loaded, NEW k \in 1 .. Len(program.code),
           NEW o \in {program.code[k].dst, program.code[k].src}
    PROVE  /\ Typed(o) /\ EncodePayload(o, program.labels) \in Words
           /\ o.type \in {"Label", "MemoryAddress"} => EncodePayload(o, program.labels) >= 0
           /\ o.type = "Label" => program.labels[o.v] \in 0 .. Len(program.code)
  <1>1. Typed(o)
    BY ProgramFacts
  <1>2. o.type = "Label" => program.labels[o.v] \in 0 .. Len(program.code)
    BY ProgramFacts, Assembled DEF Encodable
  <1>3. CASE o.type = "Label"
    <2>1. EncodePayload(o, program.labels) = program.labels[o.v] * InstructionSize
      BY <1>3 DEF EncodePayload
    <2>2. /\ program.labels[o.v] * InstructionSize \in Nat
          /\ program.labels[o.v] * InstructionSize <= MaxWord
      BY <1>2, <1>3, CodeAddresses
    <2>3. \A x \in Nat : x >= 0
      OBVIOUS
    <2> QED
      BY <1>1, <1>2, <2>1, <2>2, <2>3, WordFacts
  <1>4. CASE o.type = "MemoryAddress"
    <2>1. EncodePayload(o, program.labels) = o.v /\ o.v \in Nat
      BY <1>1, <1>4 DEF EncodePayload, Typed
    <2>2. o.v <= MaxWord
      BY <1>4, Assembled
    <2>3. \A x \in Nat : x >= 0
      OBVIOUS
    <2> QED
      BY <1>1, <1>2, <2>1, <2>2, <2>3, WordFacts
  <1>5. CASE o.type \notin {"Label", "MemoryAddress"}
    <2>1. EncodePayload(o, program.labels) = o.v
      BY <1>5 DEF EncodePayload
    <2>2. \A r \in Registers : r \in Words
      <3>1. 7 <= MaxWord
        <4>1. k - 1 \in 0 .. Len(program.code) /\ k - 1 < Len(program.code)
          BY ProgramFacts
        <4>2. isBinaryPcInCode(AddressOf(k - 1)) /\ AddressOf(k - 1) \in Nat
          BY <4>1, CodeAddresses
        <4>3. CodeEnd <= StackBase
          <5>1. Len(program.code) * InstructionSize \in Nat
            BY ProgramFacts, Layout
          <5> QED
            BY <5>1, ProgramFacts, Layout DEF CodeEnd
        <4>4. AddressOf(k - 1) + InstructionSize <= CodeEnd /\ CodeEnd \in Nat
          <5>1. Len(program.code) * InstructionSize \in Nat
            BY ProgramFacts, Layout
          <5> QED
            BY <4>2, <5>1, Layout DEF isBinaryPcInCode, CodeEnd
        <4> QED
          BY <4>2, <4>3, <4>4, Layout, Assembled, ByteFacts DEF MaxWord
      <3> QED
        BY <3>1, WordFacts, ByteFacts DEF Registers, MaxWord
    <2>3. o.v \in Words
      BY <1>1, <1>5, <2>2, WordFacts DEF Typed, encodeType
    <2> QED
      BY <1>1, <1>2, <1>5, <2>1, <2>3
  <1> QED
    BY <1>3, <1>4, <1>5

-------------------------------------------------------------------------------
(* What the binary form fetches.                                             *)

\* The binary form fetches what the encoder made of the instruction.
LEMMA FetchesCode ==
    ASSUME Loaded, NEW n \in Nat, NEW t \in CPUs(n), CodeIntact(t.mem),
           NEW k \in 0 .. Len(program.code) - 1, t.pc = AddressOf(k)
    PROVE  /\ Fetches(t)
           /\ IsEncoded(decodeInstruction(Fetched(t)), program.code[k + 1], program.labels)
  <1> DEFINE i == program.code[k + 1]
             S == InstructionSize
             b == Fetched(t)
  <1>1. k + 1 \in 1 .. Len(program.code) /\ k \in 0 .. Len(program.code) /\ k < Len(program.code)
    BY ProgramFacts
  <1>2. /\ i.op \in Opcodes /\ Typed(i.dst) /\ Typed(i.src)
        /\ EncodePayload(i.dst, program.labels) \in Words
        /\ EncodePayload(i.src, program.labels) \in Words
    BY <1>1, ProgramFacts, PayloadWords
  <1>3. t.mem \in Memories /\ S \in Nat \ {0} /\ k * S \in Nat /\ CodeBase \in Nat
    BY <1>1, StateFields, Layout, CodeAddresses
  <1>4. isBinaryPcInCode(t.pc) /\ t.pc \in Nat
    BY <1>1, CodeAddresses
  <1>5. t.pc + S <= StackBase
    <2>1. Len(program.code) * InstructionSize \in Int
      BY ProgramFacts, Layout
    <2> QED
      BY <1>4, <2>1, ProgramFacts, Layout DEF isBinaryPcInCode, CodeEnd
  <1>6. \A m \in 1 .. S : t.pc + m - 1 \in 0 .. MemEnd - 1
    BY <1>3, <1>4, <1>5, Layout
  <1>7. b \in [1 .. S -> Byte] /\ \A m \in 1 .. S : b[m] = t.mem[t.pc + m - 1]
    BY <1>3, <1>6 DEF Fetched, ReadBytes, Memories
  <1>8. ASSUME NEW m \in 1 .. S
        PROVE  b[m] = encodeInstruction(i, program.labels)[m]
    <2> DEFINE c == k * S + m
    <2>1. c \in 1 .. Len(program.code) * S
      BY ImageAt
    <2>2. encodeProgram(program.code, program.labels)[c] = encodeInstruction(i, program.labels)[m]
      BY ImageAt
    <2>3. t.pc + m - 1 = CodeBase + c - 1
      BY <1>3 DEF AddressOf
    <2> HIDE DEF c, b, i
    <2>4. t.mem[CodeBase + c - 1] = encodeProgram(program.code, program.labels)[c]
      BY <2>1 DEF CodeIntact
    <2> QED
      BY <1>7, <2>2, <2>3, <2>4
  <1> HIDE DEF b, i
  <1>9. Decodable(b) /\ IsEncoded(decodeInstruction(b), i, program.labels)
    BY <1>2, <1>7, <1>8, Decoded
  <1>10. ASSUME NEW o \in {i.dst, i.src}, NEW p,
                p = [type |-> EncodedName(o.type), v |-> EncodePayload(o, program.labels)]
         PROVE  Traceable(p)
    <2>1. /\ Typed(o)
          /\ o.type \in {"Label", "MemoryAddress"} => EncodePayload(o, program.labels) >= 0
      BY <1>1, PayloadWords DEF i
    <2>2. p.type = EncodedName(o.type) /\ p.v = EncodePayload(o, program.labels)
      BY <1>10
    <2>3. o.type \in {"Register", "RegisterIndirectAddress"} =>
             EncodePayload(o, program.labels) \in Registers
      BY <2>1 DEF Typed, EncodePayload
    <2>4. o.type # "CodeAddress"
      BY <2>1 DEF Typed, encodeType
    <2> QED
      BY <2>1, <2>2, <2>3, <2>4 DEF Traceable, EncodedName
  <1>11. Traceable(decodeInstruction(b).dst) /\ Traceable(decodeInstruction(b).src)
    BY <1>9, <1>10 DEF IsEncoded
  <1> QED
    BY <1>4, <1>9, <1>11 DEF Fetches, ExecutableAddress, b, i

-------------------------------------------------------------------------------
(* Two CPUs that are alike read the same.                                    *)

\* Memory beside the code.
Outside == (0 .. CodeBase - 1) \cup (StackBase .. MemEnd - 1)

Beside(a) == a + WordBytes <= CodeBase \/ a >= StackBase

SameData(x, y) == \A a \in Outside : x[a] = y[a]

LEMMA SameReads ==
    ASSUME NEW x \in Memories, NEW y \in Memories, SameData(x, y),
           NEW a \in Nat, a + WordBytes <= MemEnd, Beside(a)
    PROVE  ReadWord(x, a) = ReadWord(y, a)
  <1>1. \A i \in 1 .. WordBytes : a + i - 1 \in Outside
    BY Layout DEF Outside, Beside
  <1>2. \A i \in 1 .. WordBytes : x[a + i - 1] = y[a + i - 1]
    BY <1>1 DEF SameData
  <1>3. ReadBytes(x, a, WordBytes) = ReadBytes(y, a, WordBytes)
    BY <1>2 DEF ReadBytes
  <1> QED
    BY <1>3 DEF ReadWord

LEMMA SameWrites ==
    ASSUME Loaded, NEW x \in Memories, NEW y \in Memories, SameData(x, y), CodeIntact(y),
           NEW a \in Nat, Beside(a), NEW w \in Words
    PROVE  SameData(WriteWord(x, a, w), WriteWord(y, a, w)) /\ CodeIntact(WriteWord(y, a, w))
  <1> DEFINE f == Bytes(w)
  <1>1. Len(f) = WordBytes
    BY WordFacts, BytesType
  <1>2. DOMAIN x = 0 .. MemEnd - 1 /\ DOMAIN y = 0 .. MemEnd - 1
    BY DEF Memories
  <1> HIDE DEF f
  <1>3. /\ \A b \in 0 .. MemEnd - 1 : WriteWord(x, a, w)[b] =
              IF b \in a .. a + WordBytes - 1 THEN f[b - a + 1] ELSE x[b]
        /\ \A b \in 0 .. MemEnd - 1 : WriteWord(y, a, w)[b] =
              IF b \in a .. a + WordBytes - 1 THEN f[b - a + 1] ELSE y[b]
    BY <1>1, <1>2 DEF WriteWord, WriteBytes, f
  <1>4. \A b \in Outside : b \in 0 .. MemEnd - 1
    BY Layout DEF Outside
  <1>5. SameData(WriteWord(x, a, w), WriteWord(y, a, w))
    BY <1>3, <1>4 DEF SameData
  <1>6. ASSUME NEW b \in 1 .. Len(program.code) * InstructionSize
        PROVE  WriteWord(y, a, w)[CodeBase + b - 1] = encodeProgram(program.code, program.labels)[b]
    <2>1. Len(program.code) * InstructionSize \in Nat
      BY ProgramFacts, Layout
    <2>2. b \in Nat /\ b >= 1 /\ b <= StackBase - CodeBase
      BY <2>1, ProgramFacts, Layout
    <2>3. CodeBase + b - 1 \in 0 .. MemEnd - 1 /\ CodeBase + b - 1 \notin a .. a + WordBytes - 1
      BY <2>2, Layout DEF Beside
    <2>4. y[CodeBase + b - 1] = encodeProgram(program.code, program.labels)[b]
      BY DEF CodeIntact
    <2> QED
      BY <1>3, <2>3, <2>4
  <1>7. CodeIntact(WriteWord(y, a, w))
    BY <1>6 DEF CodeIntact
  <1> QED
    BY <1>5, <1>7

\* The two CPUs but for their program counters; t has the code in memory.
Alike(s, t) ==
    /\ s.regs = t.regs /\ s.flags = t.flags /\ s.mode = t.mode
    /\ s.sp = t.sp /\ s.ksp = t.ksp /\ s.kstack = t.kstack
    /\ s.enabled = t.enabled /\ s.out = t.out
    /\ s.halted = t.halted /\ s.error = t.error
    /\ SameData(s.mem, t.mem) /\ CodeIntact(t.mem)

\* The data path (readDataMemory, writeDataMemory).
LEMMA DataAgrees ==
    ASSUME NEW n \in Nat, NEW s \in CPUs(n), NEW t \in CPUs(n), Alike(s, t), NEW a \in Nat
    PROVE  /\ CanReadData(s, a) <=> CanReadData(t, a)
           /\ CanWriteData(s, a) <=> CanWriteData(t, a)
           /\ CanReadData(s, a) /\ Beside(a) => ReadData(s, a) = ReadData(t, a)
  <1>1. s.mem \in Memories /\ t.mem \in Memories
    BY StateFields
  <1>2. InRange(s.mem, a, WordBytes) <=> a + WordBytes <= MemEnd
    BY <1>1, MemoryRange
  <1>3. InRange(t.mem, a, WordBytes) <=> a + WordBytes <= MemEnd
    BY <1>1, MemoryRange
  <1>4. DataAccess(s, a) <=> DataAccess(t, a)
    BY DEF DataAccess, Alike
  <1>5. CanReadData(s, a) <=> CanReadData(t, a)
    BY <1>2, <1>3, <1>4 DEF CanReadData
  <1>6. CanWriteData(s, a) <=> CanWriteData(t, a)
    BY <1>2, <1>3, <1>4 DEF CanWriteData
  <1>7. ASSUME CanReadData(s, a), Beside(a)
        PROVE  ReadData(s, a) = ReadData(t, a)
    <2>1. CASE HasDevice(a)
      BY <2>1 DEF ReadData, Alike
    <2>2. CASE ~HasDevice(a)
      <3>1. a + WordBytes <= MemEnd /\ SameData(s.mem, t.mem)
        BY <1>2, <1>7, <2>2 DEF CanReadData, Alike
      <3>2. ReadWord(s.mem, a) = ReadWord(t.mem, a)
        BY <1>1, <1>7, <3>1, SameReads
      <3> QED
        BY <2>2, <3>2 DEF ReadData
    <2> QED
      BY <2>1, <2>2
  <1> QED
    BY <1>5, <1>6, <1>7

\* An operand that is an address is not one in the code.
Clear(s, o) == HasAddress(s, o) => Beside(Address(s, o))

\* An operand and what the encoder made of it.
Encoded(o, p) == p = [type |-> EncodedName(o.type), v |-> EncodePayload(o, program.labels)]

LEMMA OperandAgrees ==
    ASSUME NEW n \in Nat, NEW s \in CPUs(n), NEW t \in CPUs(n), Alike(s, t),
           NEW o, NEW p, Typed(o), Encoded(o, p)
    PROVE  /\ p.type = "None" <=> o.type = "None"
           /\ p = None <=> o.type = "None"
           /\ HasBinaryAddress(t, p) <=> HasAddress(s, o)
           /\ HasAddress(s, o) => Address(t, p) = Address(s, o) /\ Address(s, o) \in Nat
           /\ CanReadBinary(t, p) <=> CanRead(s, o)
           /\ CanRead(s, o) /\ Clear(s, o) => Value(s, o) = Value(t, p)
  <1>1. /\ o.type \in {"None", "Register", "Immediate", "MemoryAddress", "Label",
                       "RegisterIndirectAddress"}
        /\ p.type = EncodedName(o.type) /\ p.v = EncodePayload(o, program.labels)
    BY DEF Typed, encodeType, Encoded
  <1>2. /\ o.type # "Label" => p.type = o.type /\ p.v = o.v
        /\ o.type = "Label" => p.type = "CodeAddress"
    BY <1>1 DEF EncodedName, EncodePayload
  <1>3. p.type = "None" <=> o.type = "None"
    BY <1>1, <1>2
  <1>4. p = None <=> o.type = "None"
    BY <1>1, <1>3 DEF Encoded, EncodedName, EncodePayload, None, Typed
  <1>5. s.regs = t.regs /\ s.regs \in [Registers -> Words]
    BY StateFields DEF Alike
  <1>6. HasBinaryAddress(t, p) <=> HasAddress(s, o)
    BY <1>1, <1>2, <1>5 DEF HasBinaryAddress, HasAddress, IsMemory, Address, Typed
  <1>7. HasAddress(s, o) => Address(t, p) = Address(s, o)
    BY <1>1, <1>2, <1>5 DEF HasAddress, IsMemory, Address
  <1>8. HasAddress(s, o) => Address(s, o) \in Nat
    BY TypedReadable, AddressType
  <1>9. HasAddress(s, o) =>
           /\ CanReadData(s, Address(s, o)) <=> CanReadData(t, Address(t, p))
           /\ CanReadData(s, Address(s, o)) /\ Beside(Address(s, o)) =>
                 ReadData(s, Address(s, o)) = ReadData(t, Address(t, p))
    BY <1>7, <1>8, DataAgrees
  <1>10. CanReadBinary(t, p) <=> CanRead(s, o)
    BY <1>1, <1>2, <1>6, <1>9 DEF CanReadBinary, CanRead, Typed
  <1>11. CanRead(s, o) /\ Clear(s, o) => Value(s, o) = Value(t, p)
    BY <1>1, <1>2, <1>5, <1>9 DEF CanRead, Value, Clear
  <1> QED
    BY <1>3, <1>4, <1>6, <1>7, <1>8, <1>10, <1>11

-------------------------------------------------------------------------------
(* Updates that keep two CPUs alike.                                         *)

\* The two CPUs are at the same instruction.
Agree(s, t) ==
    Alike(s, t) /\ s.pc \in 0 .. Len(program.code) /\ t.pc = AddressOf(s.pc)

\* Both are at an instruction that has a next one or the end behind it.
AtCode(s, t) == Agree(s, t) /\ s.pc < Len(program.code)

LEMMA CountersDiffer ==
    ASSUME NEW n \in Nat, NEW s \in CPUs(n), NEW t \in CPUs(n), Alike(s, t), NEW p, NEW q
    PROVE  LET u == [s EXCEPT !.pc = p]
               v == [t EXCEPT !.pc = q]
           IN Alike(u, v) /\ u.pc = p /\ v.pc = q
  BY DEF Alike, CPUs, CPUStates

LEMMA SimpleAgree ==
    ASSUME NEW n \in Nat, NEW s \in CPUs(n), NEW t \in CPUs(n), Alike(s, t)
    PROVE  /\ Alike(Failed(s), Failed(t)) /\ Failed(s).pc = s.pc /\ Failed(t).pc = t.pc
           /\ LET u == [s EXCEPT !.halted = TRUE]
                  v == [t EXCEPT !.halted = TRUE]
              IN Alike(u, v) /\ u.pc = s.pc /\ v.pc = t.pc
           /\ \A b \in BOOLEAN : LET u == [s EXCEPT !.enabled = b]
                                     v == [t EXCEPT !.enabled = b]
                                 IN Alike(u, v) /\ u.pc = s.pc /\ v.pc = t.pc
  <1>1. Alike(Failed(s), Failed(t)) /\ Failed(s).pc = s.pc /\ Failed(t).pc = t.pc
    BY DEF Alike, Failed, CPUs, CPUStates
  <1>3. LET u == [s EXCEPT !.halted = TRUE]
            v == [t EXCEPT !.halted = TRUE]
        IN Alike(u, v) /\ u.pc = s.pc /\ v.pc = t.pc
    BY DEF Alike, CPUs, CPUStates
  <1>4. ASSUME NEW b \in BOOLEAN
        PROVE  LET u == [s EXCEPT !.enabled = b]
                   v == [t EXCEPT !.enabled = b]
               IN Alike(u, v) /\ u.pc = s.pc /\ v.pc = t.pc
    BY DEF Alike, CPUs, CPUStates
  <1> QED
    BY <1>1, <1>3, <1>4

LEMMA ValuesAgree ==
    ASSUME NEW n \in Nat, NEW s \in CPUs(n), NEW t \in CPUs(n), Alike(s, t)
    PROVE  /\ \A r \in Registers, x \in Words :
                 LET u == SetReg(s, r, x)
                     v == SetReg(t, r, x)
                 IN Alike(u, v) /\ u.pc = s.pc /\ v.pc = t.pc
           /\ \A x \in Words :
                 LET u == updateZeroAndSign(s, x)
                     v == updateZeroAndSign(t, x)
                 IN Alike(u, v) /\ u.pc = s.pc /\ v.pc = t.pc
           /\ \A x \in Results :
                 LET u == applyALUResultToFlags(s, x)
                     v == applyALUResultToFlags(t, x)
                 IN Alike(u, v) /\ u.pc = s.pc /\ v.pc = t.pc
  <1>1. ASSUME NEW r \in Registers, NEW x \in Words
        PROVE  LET u == SetReg(s, r, x)
                   v == SetReg(t, r, x)
               IN Alike(u, v) /\ u.pc = s.pc /\ v.pc = t.pc
    BY DEF Alike, SetReg, CPUs, CPUStates
  <1>2. ASSUME NEW x \in Words
        PROVE  LET u == updateZeroAndSign(s, x)
                   v == updateZeroAndSign(t, x)
               IN Alike(u, v) /\ u.pc = s.pc /\ v.pc = t.pc
    BY DEF Alike, updateZeroAndSign, CPUs, CPUStates, FlagSets
  <1>3. ASSUME NEW x \in Results
        PROVE  LET u == applyALUResultToFlags(s, x)
                   v == applyALUResultToFlags(t, x)
               IN Alike(u, v) /\ u.pc = s.pc /\ v.pc = t.pc
    BY DEF Alike, applyALUResultToFlags, CPUs, CPUStates
  <1> QED
    BY <1>1, <1>2, <1>3

LEMMA MemoryAgrees ==
    ASSUME Loaded, NEW n \in Nat, NEW s \in CPUs(n), NEW t \in CPUs(n), Alike(s, t),
           NEW a \in Nat, Beside(a), NEW x \in Words
    PROVE  LET u == [s EXCEPT !.mem = WriteWord(s.mem, a, x)]
               v == [t EXCEPT !.mem = WriteWord(t.mem, a, x)]
           IN Alike(u, v) /\ u.pc = s.pc /\ v.pc = t.pc
  <1> DEFINE p == WriteWord(s.mem, a, x)
             q == WriteWord(t.mem, a, x)
  <1>1. s.mem \in Memories /\ t.mem \in Memories
    BY StateFields
  <1>2. SameData(s.mem, t.mem) /\ CodeIntact(t.mem)
    BY DEF Alike
  <1>3. SameData(p, q) /\ CodeIntact(q)
    BY <1>1, <1>2, SameWrites
  <1> HIDE DEF p, q
  <1>4. LET u == [s EXCEPT !.mem = p]
            v == [t EXCEPT !.mem = q]
        IN Alike(u, v) /\ u.pc = s.pc /\ v.pc = t.pc
    BY <1>3 DEF Alike, CPUs, CPUStates
  <1> QED
    BY <1>4 DEF p, q

LEMMA WritesAgree ==
    ASSUME Loaded, NEW n \in Nat, NEW s \in CPUs(n), NEW t \in CPUs(n), Alike(s, t),
           NEW a \in Nat, Beside(a), NEW x \in Words
    PROVE  LET u == WriteData(s, a, x)
               v == WriteData(t, a, x)
           IN Alike(u, v) /\ u.pc = s.pc /\ v.pc = t.pc
  <1>1. CASE HasDevice(a)
    <2>1. LET u == [s EXCEPT !.out = Append(s.out, x)]
              v == [t EXCEPT !.out = Append(t.out, x)]
          IN Alike(u, v) /\ u.pc = s.pc /\ v.pc = t.pc
      BY DEF Alike, CPUs, CPUStates
    <2> QED
      BY <1>1, <2>1 DEF WriteData
  <1>2. CASE ~HasDevice(a)
    BY <1>2, MemoryAgrees DEF WriteData
  <1> QED
    BY <1>1, <1>2

LEMMA StackAgrees ==
    ASSUME Loaded, NEW n \in Nat, NEW s \in CPUs(n), NEW t \in CPUs(n), Alike(s, t)
    PROVE  /\ CanPush(s) <=> CanPush(t)
           /\ CanPop(s, 1) <=> CanPop(t, 1)
           /\ CanPop(s, 1) => peekValue(s) = peekValue(t) /\ peekValue(s) \in Words
           /\ \A x \in Words : CanPush(s) =>
                 LET u == pushValue(s, x)
                     v == pushValue(t, x)
                 IN Alike(u, v) /\ u.pc = s.pc /\ v.pc = t.pc
           /\ LET u == Popped(s)
                  v == Popped(t)
              IN Alike(u, v) /\ u.pc = s.pc /\ v.pc = t.pc
  <1>1. Base(s) = Base(t) /\ End(s) = End(t) /\ s.sp = t.sp
    BY DEF Alike, Base, End
  <1>2. CanPush(s) <=> CanPush(t)
    BY <1>1 DEF CanPush
  <1>3. CanPop(s, 1) <=> CanPop(t, 1)
    BY <1>1 DEF CanPop
  <1>4. ASSUME CanPop(s, 1)
        PROVE  peekValue(s) = peekValue(t) /\ peekValue(s) \in Words
    <2>1. /\ s.sp - WordBytes \in Nat /\ (s.sp - WordBytes) + WordBytes <= MemEnd
          /\ peekValue(s) \in Words
      BY <1>4, PeekType
    <2>2. Beside(s.sp - WordBytes)
      BY <1>4, StateFields, Layout DEF CanPop, Base, SpInRange, Beside
    <2>3. s.mem \in Memories /\ t.mem \in Memories /\ SameData(s.mem, t.mem)
      BY StateFields DEF Alike
    <2>4. ReadWord(s.mem, s.sp - WordBytes) = ReadWord(t.mem, s.sp - WordBytes)
      BY <2>1, <2>2, <2>3, SameReads
    <2> QED
      BY <1>1, <2>1, <2>4 DEF peekValue
  <1>5. ASSUME NEW m \in CPUs(n), NEW k \in CPUs(n), Alike(m, k), NEW p \in Int
        PROVE  LET u == MovedSp(m, p)
                   v == MovedSp(k, p)
               IN Alike(u, v) /\ u.pc = m.pc /\ v.pc = k.pc
    BY <1>5 DEF Alike, MovedSp, CPUs, CPUStates
  <1>6. ASSUME NEW x \in Words, CanPush(s)
        PROVE  LET u == pushValue(s, x)
                   v == pushValue(t, x)
               IN Alike(u, v) /\ u.pc = s.pc /\ v.pc = t.pc
    <2> DEFINE m == [s EXCEPT !.mem = WriteWord(s.mem, s.sp, x)]
               k == [t EXCEPT !.mem = WriteWord(t.mem, s.sp, x)]
    <2>1. s.sp \in Nat /\ Beside(s.sp) /\ s.sp + WordBytes \in Int
      BY <1>6, StateFields, Layout DEF CanPush, Base, SpInRange, Beside
    <2>2. Alike(m, k) /\ m.pc = s.pc /\ k.pc = t.pc
      BY <2>1, MemoryAgrees
    <2>3. m \in CPUs(n) /\ k \in CPUs(n)
      BY <2>1, StateFields, WordFacts, WriteWordType, SimpleUpdates
    <2>4. /\ pushValue(s, x) = MovedSp(m, s.sp + WordBytes)
          /\ pushValue(t, x) = MovedSp(k, s.sp + WordBytes)
      BY <1>1 DEF pushValue
    <2> HIDE DEF m, k
    <2> QED
      BY <1>5, <2>1, <2>2, <2>3, <2>4
  <1>7. LET u == Popped(s)
            v == Popped(t)
        IN Alike(u, v) /\ u.pc = s.pc /\ v.pc = t.pc
    <2>1. s.sp - WordBytes \in Int
      BY StateFields, Layout
    <2> QED
      BY <1>1, <1>5, <2>1 DEF Popped
  <1> QED
    BY <1>2, <1>3, <1>4, <1>6, <1>7

\* The next instruction of the one is the next of the other.
LEMMA AdvanceAgrees ==
    ASSUME Loaded, NEW n \in Nat, NEW s \in CPUs(n), NEW t \in CPUs(n), AtCode(s, t),
           NEW u \in CPUs(n + 1), NEW v \in CPUs(n + 1), Alike(u, v), u.pc = s.pc, v.pc = t.pc
    PROVE  Agree(Advanced(u), BinaryAdvanced(v))
  <1>0. n + 1 \in Nat
    OBVIOUS
  <1>1. s.pc \in Nat /\ s.pc + 1 \in 0 .. Len(program.code) /\ s.pc \in 0 .. Len(program.code)
    BY ProgramFacts, StateFields DEF AtCode, Agree
  <1>2. t.pc + InstructionSize = AddressOf(s.pc + 1)
    <2>1. (s.pc + 1) * InstructionSize = s.pc * InstructionSize + InstructionSize
      BY <1>1, Layout
    <2>2. s.pc * InstructionSize \in Nat
      BY <1>1, Layout
    <2> QED
      BY <2>1, <2>2, Layout DEF AddressOf, AtCode, Agree
  <1> DEFINE p == s.pc + 1
             q == t.pc + InstructionSize
  <1>3. p \in Nat /\ q \in Nat
    BY <1>1, StateFields, Layout
  <1>4. Advanced(u) = [u EXCEPT !.pc = p] /\ BinaryAdvanced(v) = [v EXCEPT !.pc = q]
    BY DEF Advanced, BinaryAdvanced
  <1> HIDE DEF p, q
  <1>5. /\ Alike([u EXCEPT !.pc = p], [v EXCEPT !.pc = q])
        /\ [u EXCEPT !.pc = p].pc = p /\ [v EXCEPT !.pc = q].pc = q
    BY <1>0, CountersDiffer
  <1> QED
    BY <1>1, <1>2, <1>4, <1>5 DEF Agree, p, q

-------------------------------------------------------------------------------
(* What instructions leave in two CPUs that agree.                           *)

LEMMA MovesAgree ==
    ASSUME Loaded, NEW n \in Nat, NEW s \in CPUs(n), NEW t \in CPUs(n), AtCode(s, t),
           NEW r \in Registers, NEW x \in Words
    PROVE  Agree(Advanced(updateZeroAndSign(SetReg(s, r, x), x)),
                 BinaryAdvanced(updateZeroAndSign(SetReg(t, r, x), x)))
  <1> DEFINE a == SetReg(s, r, x)
             b == SetReg(t, r, x)
             u == updateZeroAndSign(a, x)
             v == updateZeroAndSign(b, x)
  <1>1. Alike(s, t)
    BY DEF AtCode, Agree
  <1>2. a \in CPUs(n) /\ b \in CPUs(n) /\ Alike(a, b) /\ a.pc = s.pc /\ b.pc = t.pc
    BY <1>1, FlagUpdates, ValuesAgree
  <1> HIDE DEF a, b
  <1>3. u \in CPUs(n) /\ v \in CPUs(n) /\ Alike(u, v) /\ u.pc = a.pc /\ v.pc = b.pc
    BY <1>2, FlagUpdates, ValuesAgree
  <1> HIDE DEF u, v
  <1>4. u \in CPUs(n + 1) /\ v \in CPUs(n + 1)
    BY <1>3, StatesGrow
  <1>5. Agree(Advanced(u), BinaryAdvanced(v))
    BY <1>2, <1>3, <1>4, AdvanceAgrees
  <1> QED
    BY <1>5 DEF u, v, a, b

LEMMA ComputesAgree ==
    ASSUME Loaded, NEW n \in Nat, NEW s \in CPUs(n), NEW t \in CPUs(n), AtCode(s, t),
           NEW r \in Registers, NEW x \in Results
    PROVE  /\ Agree(Advanced(applyALUResultToFlags(SetReg(s, r, x.value), x)),
                    BinaryAdvanced(applyALUResultToFlags(SetReg(t, r, x.value), x)))
           /\ Agree(Advanced(applyALUResultToFlags(s, x)),
                    BinaryAdvanced(applyALUResultToFlags(t, x)))
  <1>1. Alike(s, t)
    BY DEF AtCode, Agree
  <1>2. ASSUME NEW a \in CPUs(n), NEW b \in CPUs(n), Alike(a, b), a.pc = s.pc, b.pc = t.pc
        PROVE  Agree(Advanced(applyALUResultToFlags(a, x)),
                     BinaryAdvanced(applyALUResultToFlags(b, x)))
    <2> DEFINE u == applyALUResultToFlags(a, x)
               v == applyALUResultToFlags(b, x)
    <2>1. u \in CPUs(n) /\ v \in CPUs(n) /\ Alike(u, v) /\ u.pc = a.pc /\ v.pc = b.pc
      BY <1>2, FlagUpdates, ValuesAgree
    <2> HIDE DEF u, v
    <2>2. u \in CPUs(n + 1) /\ v \in CPUs(n + 1)
      BY <2>1, StatesGrow
    <2>3. Agree(Advanced(u), BinaryAdvanced(v))
      BY <1>2, <2>1, <2>2, AdvanceAgrees
    <2> QED
      BY <2>3 DEF u, v
  <1> DEFINE a == SetReg(s, r, x.value)
             b == SetReg(t, r, x.value)
  <1>3. x.value \in Words
    BY DEF Results
  <1>4. a \in CPUs(n) /\ b \in CPUs(n) /\ Alike(a, b) /\ a.pc = s.pc /\ b.pc = t.pc
    BY <1>1, <1>3, FlagUpdates, ValuesAgree
  <1> HIDE DEF a, b
  <1>5. Agree(Advanced(applyALUResultToFlags(a, x)), BinaryAdvanced(applyALUResultToFlags(b, x)))
    BY <1>2, <1>4
  <1> QED
    BY <1>1, <1>2, <1>5 DEF a, b

LEMMA StoresAgree ==
    ASSUME Loaded, NEW n \in Nat, NEW s \in CPUs(n), NEW t \in CPUs(n), AtCode(s, t),
           NEW c \in Nat, Beside(c), NEW x \in Words
    PROVE  Agree(Advanced(updateZeroAndSign(WriteData(s, c, x), x)),
                 BinaryAdvanced(updateZeroAndSign(WriteData(t, c, x), x)))
  <1> DEFINE a == WriteData(s, c, x)
             b == WriteData(t, c, x)
             u == updateZeroAndSign(a, x)
             v == updateZeroAndSign(b, x)
             m == n + 1
  <1>0. m \in Nat
    OBVIOUS
  <1>1. Alike(s, t)
    BY DEF AtCode, Agree
  <1>2. a \in CPUs(m) /\ b \in CPUs(m) /\ Alike(a, b) /\ a.pc = s.pc /\ b.pc = t.pc
    BY <1>1, WriteDataType, WritesAgree
  <1> HIDE DEF a, b, m
  <1>3. u \in CPUs(m) /\ v \in CPUs(m) /\ Alike(u, v) /\ u.pc = a.pc /\ v.pc = b.pc
    BY <1>0, <1>2, FlagUpdates, ValuesAgree
  <1> HIDE DEF u, v
  <1>5. Agree(Advanced(u), BinaryAdvanced(v))
    BY <1>2, <1>3, AdvanceAgrees DEF m
  <1> QED
    BY <1>5 DEF u, v, a, b

LEMMA PushesAgree ==
    ASSUME Loaded, NEW n \in Nat, NEW s \in CPUs(n), NEW t \in CPUs(n), AtCode(s, t),
           CanPush(s), NEW x \in Words
    PROVE  Agree(Advanced(pushValue(s, x)), BinaryAdvanced(pushValue(t, x)))
  <1> DEFINE u == pushValue(s, x)
             v == pushValue(t, x)
  <1>1. Alike(s, t)
    BY DEF AtCode, Agree
  <1>2. u \in CPUs(n) /\ v \in CPUs(n)
    BY WordFacts, StackUpdates
  <1>3. Alike(u, v) /\ u.pc = s.pc /\ v.pc = t.pc
    BY <1>1, StackAgrees
  <1> HIDE DEF u, v
  <1>4. u \in CPUs(n + 1) /\ v \in CPUs(n + 1)
    BY <1>2, StatesGrow
  <1>5. Agree(Advanced(u), BinaryAdvanced(v))
    BY <1>3, <1>4, AdvanceAgrees
  <1> QED
    BY <1>5 DEF u, v

LEMMA PopsAgree ==
    ASSUME Loaded, NEW n \in Nat, NEW s \in CPUs(n), NEW t \in CPUs(n), AtCode(s, t),
           CanPop(s, 1), NEW r \in Registers
    PROVE  Agree(Advanced(updateZeroAndSign(SetReg(Popped(s), r, peekValue(s)), peekValue(s))),
             BinaryAdvanced(updateZeroAndSign(SetReg(Popped(t), r, peekValue(t)), peekValue(t))))
  <1> DEFINE a == Popped(s)
             b == Popped(t)
             x == peekValue(s)
  <1>1. Alike(s, t)
    BY DEF AtCode, Agree
  <1>2. CanPop(t, 1) /\ peekValue(t) = x /\ x \in Words
    BY <1>1, StackAgrees
  <1>3. a \in CPUs(n) /\ b \in CPUs(n)
    BY <1>2, StackUpdates
  <1>4. Alike(a, b) /\ a.pc = s.pc /\ b.pc = t.pc
    BY <1>1, StackAgrees
  <1> HIDE DEF a, b, x
  <1>5. AtCode(a, b)
    BY <1>4 DEF AtCode, Agree
  <1>6. Agree(Advanced(updateZeroAndSign(SetReg(a, r, x), x)),
              BinaryAdvanced(updateZeroAndSign(SetReg(b, r, x), x)))
    BY <1>2, <1>3, <1>5, MovesAgree
  <1> QED
    BY <1>2, <1>6 DEF a, b, x

-------------------------------------------------------------------------------
(* Jumps, and operands.                                                      *)

\* The instruction list has jumped behind its end, and the binary form has
\* refused the jump: what they did so far agrees.
Stuck(s, t) ==
    /\ s.pc = Len(program.code) /\ t.halted
    /\ s.regs = t.regs /\ s.flags = t.flags /\ s.mode = t.mode
    /\ s.enabled = t.enabled /\ s.out = t.out
    /\ SameData(s.mem, t.mem)

InStep(s, t) == Agree(s, t) \/ Stuck(s, t)

LEMMA FailuresAgree ==
    ASSUME NEW n \in Nat, NEW s \in CPUs(n), NEW t \in CPUs(n), Agree(s, t)
    PROVE  Agree(Failed(s), Failed(t))
  BY SimpleAgree DEF Agree

LEMMA JumpsAgree ==
    ASSUME Loaded, NEW n \in Nat, NEW s \in CPUs(n), NEW t \in CPUs(n), AtCode(s, t),
           NEW o, NEW p, Typed(o), Encoded(o, p),
           o.type = "Label" => program.labels[o.v] \in 0 .. Len(program.code)
    PROVE  InStep(JumpTo(s, o), BinaryJumpTo(t, p))
  <1>0. Agree(s, t) /\ Alike(s, t) /\ s.mode = t.mode
    BY DEF AtCode, Agree, Alike
  <1>f. Agree(Failed(s), Failed(t))
    BY <1>0, FailuresAgree
  <1>1. CASE o.type # "Label"
    <2>1. p.type # "CodeAddress"
      BY <1>1 DEF Encoded, EncodedName, Typed, encodeType
    <2> QED
      BY <1>1, <1>f, <2>1 DEF JumpTo, BinaryJumpTo, HasCodeTarget, InStep
  <1>2. CASE o.type = "Label"
    <2> DEFINE l == program.labels[o.v]
    <2>1. l \in 0 .. Len(program.code) /\ l \in Nat /\ Len(program.code) \in Nat
      BY <1>2, ProgramFacts
    <2>2. p.type = "CodeAddress" /\ p.v = l * InstructionSize
      BY <1>2 DEF Encoded, EncodedName, EncodePayload
    <2>3. CodeTarget(p) = AddressOf(l)
      BY <2>2 DEF CodeTarget, AddressOf
    <2>4. /\ l * InstructionSize \in Nat /\ AddressOf(l) \in Nat
          /\ isBinaryPcInCode(AddressOf(l)) <=> l < Len(program.code)
      BY <2>1, CodeAddresses
    <2>5. HasCodeTarget(p) <=> l < Len(program.code)
      BY <2>2, <2>3, <2>4 DEF HasCodeTarget
    <2>6. l < Len(program.code) => ExecutableIndex(s.mode, l) /\ ExecutableAddress(t.mode, AddressOf(l))
      BY <2>1, <2>4 DEF ExecutableIndex, ExecutableAddress
    <2> DEFINE u == [s EXCEPT !.pc = l]
               v == [t EXCEPT !.pc = AddressOf(l)]
    <2>7. JumpTo(s, o) = IF ExecutableIndex(s.mode, l) THEN u ELSE Failed(s)
      BY <1>2 DEF JumpTo
    <2>8. l < Len(program.code) => BinaryJumpTo(t, p) = v
      BY <2>3, <2>5, <2>6 DEF BinaryJumpTo
    <2>9. ~(l < Len(program.code)) => BinaryJumpTo(t, p) = Failed(t)
      BY <2>5 DEF BinaryJumpTo
    <2>10. Alike(u, v) /\ u.pc = l /\ v.pc = AddressOf(l)
      <3> DEFINE q == AddressOf(l)
      <3> HIDE DEF l, q
      <3>1. LET x == [s EXCEPT !.pc = l]
                y == [t EXCEPT !.pc = q]
            IN Alike(x, y) /\ x.pc = l /\ y.pc = q
        BY <1>0 DEF Alike, CPUs, CPUStates
      <3> QED
        BY <3>1 DEF q
    <2>11. CASE l < Len(program.code)
      <3>1. Agree(u, v)
        BY <2>1, <2>10 DEF Agree
      <3> QED
        BY <2>6, <2>7, <2>8, <2>11, <3>1 DEF InStep
    <2>12. CASE ~(l < Len(program.code))
      <3>1. l = Len(program.code)
        BY <2>1, <2>12
      <3>2. Stuck(u, Failed(t))
        BY <1>0, <3>1 DEF Stuck, Failed, Alike, CPUs, CPUStates
      <3> QED
        BY <1>f, <2>7, <2>9, <2>12, <3>2 DEF InStep
    <2> QED
      BY <2>11, <2>12
  <1> QED
    BY <1>1, <1>2

\* What an instruction and its encoding have to have in common.
LEMMA InstructionAgrees ==
    ASSUME NEW n \in Nat, NEW s \in CPUs(n), NEW t \in CPUs(n), Alike(s, t),
           NEW i, NEW j, Typed(i.dst), Typed(i.src), Encoded(i.dst, j.dst), Encoded(i.src, j.src)
    PROVE  /\ NoOperand(i) <=> NoBinaryOperands(j)
           /\ SingleOperand(i) <=> SingleBinaryOperand(j)
           /\ TwoOperands(i) <=> TwoBinaryOperands(j)
           /\ RegisterDst(i) <=> BinaryRegisterDst(j)
           /\ RegisterDst(i) => /\ j.dst.v = i.dst.v /\ i.dst.v \in Registers
                                /\ s.regs[i.dst.v] \in Words
  <1>1. /\ j.dst.type = "None" <=> i.dst.type = "None"
        /\ j.dst = None <=> i.dst.type = "None"
    BY OperandAgrees
  <1>2. /\ j.src.type = "None" <=> i.src.type = "None"
        /\ j.src = None <=> i.src.type = "None"
    BY OperandAgrees
  <1>3. j.dst.type = EncodedName(i.dst.type) /\ j.dst.v = EncodePayload(i.dst, program.labels)
    BY DEF Encoded
  <1>4. s.regs \in [Registers -> Words]
    BY StateFields
  <1>5. RegisterDst(i) => /\ j.dst.v = i.dst.v /\ i.dst.v \in Registers
                          /\ s.regs[i.dst.v] \in Words
    BY <1>3, <1>4 DEF RegisterDst, EncodePayload, Typed
  <1>6. RegisterDst(i) <=> BinaryRegisterDst(j)
    BY <1>3, <1>5 DEF RegisterDst, BinaryRegisterDst, EncodedName
  <1> QED
    BY <1>1, <1>2, <1>5, <1>6
       DEF NoOperand, NoBinaryOperands, SingleOperand, SingleBinaryOperand, TwoOperands,
           TwoBinaryOperands

-------------------------------------------------------------------------------
(* One instruction in both forms.                                            *)

\* Opcodes that save or restore code addresses.
Linking == {"CALL", "RET", "INT", "IRET"}

\* One instruction, and its encoding, on CPUs that agree.
LEMMA ExecuteAgrees ==
    ASSUME Loaded, NEW n \in Nat, n <= MaxWord, NEW s \in CPUs(n), NEW t \in CPUs(n),
           AtCode(s, t), NEW i, NEW j, i.op \in Opcodes \ Linking, j.op = i.op,
           Typed(i.dst), Typed(i.src), Encoded(i.dst, j.dst), Encoded(i.src, j.src),
           i.dst.type = "None" \/ (Clear(s, i.dst) /\ Clear(s, i.src)),
           i.dst.type = "Label" => program.labels[i.dst.v] \in 0 .. Len(program.code)
    PROVE  InStep(execute(s, i), executeBinaryInstruction(t, j))
  <1>1. Agree(s, t) /\ Alike(s, t) /\ s.regs = t.regs /\ s.flags = t.flags /\ s.mode = t.mode
    BY DEF AtCode, Agree, Alike
  <1>2. Agree(Failed(s), Failed(t))
    BY <1>1, FailuresAgree
  <1>3. /\ NoOperand(i) <=> NoBinaryOperands(j)
        /\ SingleOperand(i) <=> SingleBinaryOperand(j)
        /\ TwoOperands(i) <=> TwoBinaryOperands(j)
        /\ RegisterDst(i) <=> BinaryRegisterDst(j)
    BY <1>1, InstructionAgrees
  <1>4. RegisterDst(i) => /\ j.dst.v = i.dst.v /\ i.dst.v \in Registers
                          /\ s.regs[i.dst.v] \in Words
    BY <1>1, InstructionAgrees
  <1>5. /\ HasBinaryAddress(t, j.dst) <=> HasAddress(s, i.dst)
        /\ HasAddress(s, i.dst) => Address(t, j.dst) = Address(s, i.dst) /\ Address(s, i.dst) \in Nat
        /\ CanReadBinary(t, j.dst) <=> CanRead(s, i.dst)
        /\ CanRead(s, i.dst) /\ Clear(s, i.dst) => Value(s, i.dst) = Value(t, j.dst)
    BY <1>1, OperandAgrees
  <1>6. /\ HasBinaryAddress(t, j.src) <=> HasAddress(s, i.src)
        /\ HasAddress(s, i.src) => Address(t, j.src) = Address(s, i.src) /\ Address(s, i.src) \in Nat
        /\ CanReadBinary(t, j.src) <=> CanRead(s, i.src)
        /\ CanRead(s, i.src) /\ Clear(s, i.src) => Value(s, i.src) = Value(t, j.src)
    BY <1>1, OperandAgrees
  <1>7. /\ CanRead(s, i.dst) => Value(s, i.dst) \in Words
        /\ CanRead(s, i.src) => Value(s, i.src) \in Words
    BY ValueType, TypedReadable
  <1>8. TwoOperands(i) \/ SingleOperand(i) => Clear(s, i.dst) /\ Clear(s, i.src)
    BY DEF TwoOperands, SingleOperand
  <1>9. Agree(executeMov(s, i), BinaryMov(t, j))
    <2>1. CASE TwoOperands(i) /\ RegisterDst(i) /\ CanRead(s, i.src)
      <3> DEFINE x == Value(s, i.src)
                 r == i.dst.v
      <3>1. x \in Words /\ r \in Registers /\ Value(t, j.src) = x /\ j.dst.v = r
        BY <1>4, <1>6, <1>7, <1>8, <2>1
      <3>2. executeMov(s, i) = Advanced(updateZeroAndSign(SetReg(s, r, x), x))
        BY <2>1 DEF executeMov
      <3>3. BinaryMov(t, j) = BinaryAdvanced(updateZeroAndSign(SetReg(t, r, x), x))
        BY <1>3, <1>6, <2>1, <3>1 DEF BinaryMov
      <3> HIDE DEF x, r
      <3> QED
        BY <3>1, <3>2, <3>3, MovesAgree
    <2>2. CASE ~(TwoOperands(i) /\ RegisterDst(i) /\ CanRead(s, i.src))
      BY <1>2, <1>3, <1>6, <2>2 DEF executeMov, BinaryMov
    <2> QED
      BY <2>1, <2>2
  <1>10. Agree(executeLoad(s, i), BinaryLoad(t, j))
    <2> DEFINE C == /\ TwoOperands(i) /\ RegisterDst(i)
                    /\ HasAddress(s, i.src) /\ CanReadData(s, Address(s, i.src))
               D == /\ TwoBinaryOperands(j) /\ BinaryRegisterDst(j)
                    /\ HasBinaryAddress(t, j.src) /\ CanReadData(t, Address(t, j.src))
    <2>0. C <=> D
      BY <1>1, <1>3, <1>6, DataAgrees
    <2>1. CASE C
      <3> DEFINE a == Address(s, i.src)
                 x == ReadData(s, a)
                 r == i.dst.v
      <3>1. a \in Nat /\ Beside(a) /\ Address(t, j.src) = a
        BY <1>6, <1>8, <2>1 DEF Clear
      <3>2. x \in Words /\ r \in Registers /\ ReadData(t, a) = x /\ j.dst.v = r
        BY <1>1, <1>4, <2>1, <3>1, DataAgrees, ReadDataType
      <3>3. executeLoad(s, i) = Advanced(updateZeroAndSign(SetReg(s, r, x), x))
        BY <2>1 DEF executeLoad
      <3>4. BinaryLoad(t, j) = BinaryAdvanced(updateZeroAndSign(SetReg(t, r, x), x))
        BY <2>0, <2>1, <3>1, <3>2 DEF BinaryLoad
      <3> HIDE DEF x, r, a
      <3> QED
        BY <3>2, <3>3, <3>4, MovesAgree
    <2>2. CASE ~C
      <3>1. executeLoad(s, i) = Failed(s)
        BY <2>2 DEF executeLoad
      <3>2. BinaryLoad(t, j) = Failed(t)
        BY <2>0, <2>2 DEF BinaryLoad
      <3> QED
        BY <1>2, <3>1, <3>2
    <2> QED
      BY <2>1, <2>2
  <1>11. Agree(executeStore(s, i), BinaryStore(t, j))
    <2> DEFINE C == /\ TwoOperands(i) /\ HasAddress(s, i.dst)
                    /\ CanRead(s, i.src) /\ CanWriteData(s, Address(s, i.dst))
               D == /\ TwoBinaryOperands(j) /\ HasBinaryAddress(t, j.dst)
                    /\ CanReadBinary(t, j.src) /\ CanWriteData(t, Address(t, j.dst))
    <2>0. C <=> D
      BY <1>1, <1>3, <1>5, <1>6, DataAgrees
    <2>1. CASE C
      <3> DEFINE a == Address(s, i.dst)
                 x == Value(s, i.src)
      <3>1. a \in Nat /\ Beside(a) /\ Address(t, j.dst) = a
        BY <1>5, <1>8, <2>1 DEF Clear
      <3>2. x \in Words /\ Value(t, j.src) = x
        BY <1>6, <1>7, <1>8, <2>1
      <3>3. executeStore(s, i) = Advanced(updateZeroAndSign(WriteData(s, a, x), x))
        BY <2>1 DEF executeStore
      <3>4. BinaryStore(t, j) = BinaryAdvanced(updateZeroAndSign(WriteData(t, a, x), x))
        BY <2>0, <2>1, <3>1, <3>2 DEF BinaryStore
      <3> HIDE DEF x, a
      <3> QED
        BY <3>1, <3>2, <3>3, <3>4, StoresAgree
    <2>2. CASE ~C
      <3>1. executeStore(s, i) = Failed(s)
        BY <2>2 DEF executeStore
      <3>2. BinaryStore(t, j) = Failed(t)
        BY <2>0, <2>2 DEF BinaryStore
      <3> QED
        BY <1>2, <3>1, <3>2
    <2> QED
      BY <2>1, <2>2
  <1> DEFINE Reads == TwoOperands(i) /\ RegisterDst(i) /\ CanRead(s, i.src)
             l == s.regs[i.dst.v]
             z == Value(s, i.src)
             w == Alu(i.op, l, z)
  <1>12. ASSUME Reads, i.op \in AluOpcodes, i.op = "DIV" => Divides(l, z)
         PROVE  Agree(Advanced(applyALUResultToFlags(SetReg(s, i.dst.v, w.value), w)),
                      BinaryAdvanced(applyALUResultToFlags(SetReg(t, i.dst.v, w.value), w)))
    <2>1. l \in Words /\ z \in Words /\ i.dst.v \in Registers
      BY <1>4, <1>7, <1>12
    <2> HIDE DEF l, z
    <2>2. w \in Results
      BY <1>12, <2>1, AluType
    <2> HIDE DEF w
    <2> QED
      BY <2>1, <2>2, ComputesAgree
  <1>13. Reads => Value(t, j.src) = z /\ j.dst.v = i.dst.v /\ t.regs[j.dst.v] = l
    BY <1>1, <1>4, <1>6, <1>8
  <1>14. i.op \in Arithmetic => Agree(executeArithmetic(s, i), BinaryArithmetic(t, j))
    <2> SUFFICES ASSUME i.op \in Arithmetic
                 PROVE  Agree(executeArithmetic(s, i), BinaryArithmetic(t, j))
      OBVIOUS
    <2> DEFINE C == Reads /\ (i.op = "DIV" => Divides(l, z))
    <2>1. executeArithmetic(s, i) =
            IF C THEN Advanced(applyALUResultToFlags(SetReg(s, i.dst.v, w.value), w)) ELSE Failed(s)
      BY DEF executeArithmetic
    <2>2. BinaryArithmetic(t, j) =
            IF C THEN BinaryAdvanced(applyALUResultToFlags(SetReg(t, i.dst.v, w.value), w))
                 ELSE Failed(t)
      <3>1. Reads <=> TwoBinaryOperands(j) /\ BinaryRegisterDst(j) /\ CanReadBinary(t, j.src)
        BY <1>3, <1>6
      <3> QED
        BY <1>13, <3>1 DEF BinaryArithmetic
    <2>3. i.op \in AluOpcodes
      BY DEF AluOpcodes
    <2> QED
      BY <1>2, <1>12, <2>1, <2>2, <2>3
  <1>15. i.op \in Logic => Agree(executeLogic(s, i), BinaryLogic(t, j))
    <2> SUFFICES ASSUME i.op \in Logic
                 PROVE  Agree(executeLogic(s, i), BinaryLogic(t, j))
      OBVIOUS
    <2>1. executeLogic(s, i) =
            IF Reads THEN Advanced(applyALUResultToFlags(SetReg(s, i.dst.v, w.value), w))
                     ELSE Failed(s)
      BY DEF executeLogic
    <2>2. BinaryLogic(t, j) =
            IF Reads THEN BinaryAdvanced(applyALUResultToFlags(SetReg(t, i.dst.v, w.value), w))
                     ELSE Failed(t)
      <3>1. Reads <=> TwoBinaryOperands(j) /\ BinaryRegisterDst(j) /\ CanReadBinary(t, j.src)
        BY <1>3, <1>6
      <3> QED
        BY <1>13, <3>1 DEF BinaryLogic
    <2>3. i.op \in AluOpcodes /\ i.op # "DIV"
      BY DEF AluOpcodes, Logic
    <2> QED
      BY <1>2, <1>12, <2>1, <2>2, <2>3
  <1> HIDE DEF Reads, l, z, w
  <1>16. i.op \in {"CMP", "TEST"} => Agree(executeCmp(s, i), BinaryCmp(t, j))
    <2> SUFFICES ASSUME i.op \in {"CMP", "TEST"} PROVE Agree(executeCmp(s, i), BinaryCmp(t, j))
      OBVIOUS
    <2>1. CASE TwoOperands(i) /\ CanRead(s, i.dst) /\ CanRead(s, i.src)
      <3> DEFINE x == Value(s, i.dst)
                 y == Value(s, i.src)
                 a == Alu(i.op, x, y)
      <3>1. x \in Words /\ y \in Words /\ Value(t, j.dst) = x /\ Value(t, j.src) = y
        BY <1>5, <1>6, <1>7, <1>8, <2>1
      <3>2. executeCmp(s, i) = Advanced(applyALUResultToFlags(s, a))
        BY <2>1 DEF executeCmp
      <3>3. BinaryCmp(t, j) = BinaryAdvanced(applyALUResultToFlags(t, a))
        BY <1>3, <1>5, <1>6, <2>1, <3>1 DEF BinaryCmp
      <3> HIDE DEF x, y
      <3>4. a \in Results /\ 0 \in Registers
        BY <3>1, AluType DEF Registers
      <3> HIDE DEF a
      <3> QED
        BY <3>2, <3>3, <3>4, ComputesAgree
    <2>2. CASE ~(TwoOperands(i) /\ CanRead(s, i.dst) /\ CanRead(s, i.src))
      BY <1>2, <1>3, <1>5, <1>6, <2>2 DEF executeCmp, BinaryCmp
    <2> QED
      BY <2>1, <2>2
  <1>17. i.op = "NOT" => Agree(executeNot(s, i), BinaryNot(t, j))
    <2>1. CASE SingleOperand(i) /\ RegisterDst(i)
      <3> DEFINE a == bitNot(s.regs[i.dst.v])
                 r == i.dst.v
      <3>1. Alu("NOT", s.regs[i.dst.v], s.regs[i.dst.v]) \in Results
        BY <1>4, <2>1, AluType
      <3>2. a \in Results /\ r \in Registers /\ j.dst.v = r
        BY <1>4, <2>1, <3>1 DEF Alu
      <3>3. executeNot(s, i) = Advanced(applyALUResultToFlags(SetReg(s, r, a.value), a))
        BY <2>1 DEF executeNot
      <3>4. BinaryNot(t, j) = BinaryAdvanced(applyALUResultToFlags(SetReg(t, r, a.value), a))
        BY <1>1, <1>3, <2>1, <3>2 DEF BinaryNot
      <3> HIDE DEF a, r
      <3> QED
        BY <3>2, <3>3, <3>4, ComputesAgree
    <2>2. CASE ~(SingleOperand(i) /\ RegisterDst(i))
      BY <1>2, <1>3, <2>2 DEF executeNot, BinaryNot
    <2> QED
      BY <2>1, <2>2
  <1>18. Agree(Advanced(s), BinaryAdvanced(t))
    <2>1. s \in CPUs(n + 1) /\ t \in CPUs(n + 1)
      BY StatesGrow
    <2> QED
      BY <1>1, <2>1, AdvanceAgrees
  <1>19. InStep(JumpTo(s, i.dst), BinaryJumpTo(t, j.dst))
    BY JumpsAgree
  <1>20. /\ i.op = "JMP" => InStep(executeJmp(s, i), BinaryJump(t, j))
         /\ i.op \in ConditionalJumps => InStep(executeBranch(s, i), BinaryJump(t, j))
    BY <1>1, <1>2, <1>3, <1>18, <1>19
       DEF executeJmp, executeBranch, BinaryJump, ConditionalJumps, InStep
  <1>21. Agree(executePush(s, i), BinaryPush(t, j))
    <2>0. CanPush(s) <=> CanPush(t)
      BY <1>1, StackAgrees
    <2>1. CASE SingleOperand(i) /\ CanRead(s, i.dst) /\ CanPush(s)
      <3> DEFINE x == Value(s, i.dst)
      <3>1. x \in Words /\ Value(t, j.dst) = x
        BY <1>5, <1>7, <1>8, <2>1
      <3>2. executePush(s, i) = Advanced(pushValue(s, x))
        BY <2>1 DEF executePush
      <3>3. BinaryPush(t, j) = BinaryAdvanced(pushValue(t, x))
        BY <1>3, <1>5, <2>0, <2>1, <3>1 DEF BinaryPush
      <3> HIDE DEF x
      <3> QED
        BY <2>1, <3>1, <3>2, <3>3, PushesAgree
    <2>2. CASE ~(SingleOperand(i) /\ CanRead(s, i.dst) /\ CanPush(s))
      BY <1>2, <1>3, <1>5, <2>0, <2>2 DEF executePush, BinaryPush
    <2> QED
      BY <2>1, <2>2
  <1>22. Agree(executePop(s, i), BinaryPop(t, j))
    <2>0. CanPop(s, 1) <=> CanPop(t, 1)
      BY <1>1, StackAgrees
    <2>1. CASE SingleOperand(i) /\ RegisterDst(i) /\ CanPop(s, 1)
      BY <1>3, <1>4, <2>0, <2>1, PopsAgree DEF executePop, BinaryPop
    <2>2. CASE ~(SingleOperand(i) /\ RegisterDst(i) /\ CanPop(s, 1))
      BY <1>2, <1>3, <2>0, <2>2 DEF executePop, BinaryPop
    <2> QED
      BY <2>1, <2>2
  <1>23. i.op \in {"NOP", "HALT"} => Agree(executePlain(s, i), BinaryPlain(t, j))
    <2>1. Agree([s EXCEPT !.halted = TRUE], [t EXCEPT !.halted = TRUE])
      BY <1>1, SimpleAgree DEF Agree
    <2> QED
      BY <1>2, <1>3, <1>18, <2>1 DEF executePlain, BinaryPlain
  <1>24. i.op \in {"EI", "DI"} => Agree(executeMask(s, i), BinaryMask(t, j))
    <2> DEFINE b == (i.op = "EI")
               u == [s EXCEPT !.enabled = b]
               v == [t EXCEPT !.enabled = b]
    <2>1. b \in BOOLEAN
      OBVIOUS
    <2>2. /\ executeMask(s, i) = IF NoOperand(i) THEN Advanced(u) ELSE Failed(s)
          /\ BinaryMask(t, j) = IF NoOperand(i) THEN BinaryAdvanced(v) ELSE Failed(t)
      BY <1>3 DEF executeMask, BinaryMask
    <2> HIDE DEF b
    <2>3. u \in CPUs(n) /\ v \in CPUs(n)
      BY <2>1, SimpleUpdates
    <2>4. Alike(u, v) /\ u.pc = s.pc /\ v.pc = t.pc
      BY <1>1, <2>1, SimpleAgree
    <2> HIDE DEF u, v
    <2>5. u \in CPUs(n + 1) /\ v \in CPUs(n + 1)
      BY <2>3, StatesGrow
    <2>6. Agree(Advanced(u), BinaryAdvanced(v))
      BY <2>4, <2>5, AdvanceAgrees
    <2> QED
      BY <1>2, <2>2, <2>6
  <1>25. Privileged(s, i.op) <=> Privileged(t, j.op)
    BY <1>1 DEF Privileged
  <1>26. CASE Privileged(s, i.op)
    <2>1. execute(s, i) = Failed(s)
      BY <1>26, ExecuteIs
    <2>2. executeBinaryInstruction(t, j) = Failed(t)
      BY <1>25, <1>26, ExecuteBinaryIs
    <2> QED
      BY <1>2, <2>1, <2>2 DEF InStep
  <1>27. CASE ~Privileged(s, i.op)
    <2> DEFINE u == execute(s, i)
               v == executeBinaryInstruction(t, j)
    <2>1. i.op \in {"MOV", "LOAD", "STORE", "JMP", "PUSH", "POP", "NOP", "HALT", "EI", "DI", "CMP",
                    "TEST", "NOT"}
          \/ i.op \in Arithmetic \/ i.op \in Logic \/ i.op \in ConditionalJumps
      BY OpcodesAre DEF OpcodeNames, Arithmetic, Logic, ConditionalJumps, Linking
    <2>2. /\ i.op = "MOV" => u = executeMov(s, i)
          /\ i.op = "LOAD" => u = executeLoad(s, i)
          /\ i.op = "STORE" => u = executeStore(s, i)
          /\ i.op \in Arithmetic => u = executeArithmetic(s, i)
          /\ i.op \in Logic => u = executeLogic(s, i)
          /\ i.op \in {"CMP", "TEST"} => u = executeCmp(s, i)
          /\ i.op = "NOT" => u = executeNot(s, i)
          /\ i.op = "JMP" => u = executeJmp(s, i)
          /\ i.op \in ConditionalJumps => u = executeBranch(s, i)
          /\ i.op = "PUSH" => u = executePush(s, i)
          /\ i.op = "POP" => u = executePop(s, i)
          /\ i.op \in {"NOP", "HALT"} => u = executePlain(s, i)
          /\ i.op \in {"EI", "DI"} => u = executeMask(s, i)
      BY <1>27, ExecuteIs
    <2>3. /\ i.op = "MOV" => v = BinaryMov(t, j)
          /\ i.op = "LOAD" => v = BinaryLoad(t, j)
          /\ i.op = "STORE" => v = BinaryStore(t, j)
          /\ i.op \in Arithmetic => v = BinaryArithmetic(t, j)
          /\ i.op \in Logic => v = BinaryLogic(t, j)
          /\ i.op \in {"CMP", "TEST"} => v = BinaryCmp(t, j)
          /\ i.op = "NOT" => v = BinaryNot(t, j)
          /\ i.op \in ConditionalJumps \cup {"JMP"} => v = BinaryJump(t, j)
          /\ i.op = "PUSH" => v = BinaryPush(t, j)
          /\ i.op = "POP" => v = BinaryPop(t, j)
          /\ i.op \in {"NOP", "HALT"} => v = BinaryPlain(t, j)
          /\ i.op \in {"EI", "DI"} => v = BinaryMask(t, j)
      BY <1>25, <1>27, ExecuteBinaryIs
    <2> HIDE DEF u, v
    <2>4. InStep(u, v)
      BY <1>9, <1>10, <1>11, <1>14, <1>15, <1>16, <1>17, <1>20, <1>21, <1>22, <1>23, <1>24,
         <2>1, <2>2, <2>3 DEF InStep
    <2> QED
      BY <2>4 DEF u, v
  <1> QED
    BY <1>26, <1>27

-------------------------------------------------------------------------------
(* The two forms of a program agree.                                         *)

\* The program saves and restores no code addresses.
Plain == \A k \in 1 .. Len(program.code) : program.code[k].op \notin Linking

\* An instruction that does not touch the code has clear operands.
LEMMA ClearOperands ==
    ASSUME Loaded, NEW n \in Nat, NEW s \in CPUs(n), NEW t \in CPUs(n), Alike(s, t), Fetches(t),
           NEW i, NEW j, j = decodeInstruction(Fetched(t)), Typed(i.dst), Typed(i.src),
           Encoded(i.dst, j.dst), Encoded(i.src, j.src),
           ~TouchesCode(t, TracedInstruction(t))
    PROVE  i.dst.type = "None" \/ (Clear(s, i.dst) /\ Clear(s, i.src))
  <1> SUFFICES ASSUME i.dst.type # "None"
               PROVE  Clear(s, i.dst) /\ Clear(s, i.src)
    OBVIOUS
  <1> DEFINE x == traceOperandFromEncoded(j.dst)
             y == traceOperandFromEncoded(j.src)
             e == TracedInstruction(t)
  <1>1. j.dst.type # "None"
    BY OperandAgrees
  <1>2. x # None
    BY <1>1 DEF traceOperandFromEncoded, None, Immediate
  <1>3. e.dst = x /\ e.src = y
    BY <1>2 DEF TracedInstruction, traceInstructionForCurrentBinaryPc, Instr
  <1>4. ASSUME NEW o \in {i.dst, i.src}, NEW p, Typed(o), Encoded(o, p),
               traceOperandFromEncoded(p) \in {e.dst, e.src}
        PROVE  Clear(s, o)
    <2> SUFFICES ASSUME HasAddress(s, o) PROVE Beside(Address(s, o))
      BY DEF Clear
    <2>1. HasBinaryAddress(t, p) /\ Address(t, p) = Address(s, o) /\ Address(s, o) \in Nat
      BY <1>4, OperandAgrees
    <2>2. p.type \in {"MemoryAddress", "RegisterIndirectAddress"}
      BY <2>1 DEF HasBinaryAddress
    <2>3. traceOperandFromEncoded(p) = p
      BY <2>2 DEF traceOperandFromEncoded
    <2>4. ~(Address(t, p) > CodeBase - WordBytes /\ Address(t, p) < StackBase)
      BY <1>4, <2>1, <2>3 DEF TouchesCode
    <2> QED
      BY <2>1, <2>4, Layout DEF Beside
  <1> QED
    BY <1>3, <1>4

\* A step keeps CPUs that agree in step.
LEMMA StepAgrees ==
    ASSUME Loaded, Plain, NEW n \in Nat, n <= MaxWord, NEW s \in CPUs(n), NEW t \in CPUs(n),
           Agree(s, t), ~TouchesCode(t, TracedInstruction(t))
    PROVE  InStep(LegacyStep(s), BinaryStep(t))
  <1>1. /\ Alike(s, t) /\ s.halted = t.halted /\ s.pc \in 0 .. Len(program.code)
        /\ t.pc = AddressOf(s.pc) /\ Len(program.code) \in Nat
    BY ProgramFacts DEF Agree, Alike
  <1>2. CASE s.halted
    BY <1>1, <1>2 DEF LegacyStep, BinaryStep, InStep
  <1>3. CASE ~s.halted /\ ~(s.pc < Len(program.code))
    <2>1. ~LegacyFetches(s)
      BY <1>1, <1>3 DEF LegacyFetches
    <2>2. ~Fetches(t)
      BY <1>1, <1>3, CodeAddresses DEF Fetches
    <2>3. Agree(Failed(s), Failed(t))
      BY FailuresAgree
    <2> QED
      BY <1>1, <1>3, <2>1, <2>2, <2>3 DEF LegacyStep, BinaryStep, InStep
  <1>4. CASE ~s.halted /\ s.pc < Len(program.code)
    <2> DEFINE i == program.code[s.pc + 1]
               j == decodeInstruction(Fetched(t))
    <2>1. s.pc \in 0 .. Len(program.code) - 1 /\ s.pc + 1 \in 1 .. Len(program.code)
      BY <1>1, <1>4
    <2>2. LegacyFetches(s)
      BY <2>1 DEF LegacyFetches, ExecutableIndex
    <2>3. CodeIntact(t.mem)
      BY <1>1 DEF Alike
    <2>4. Fetches(t) /\ IsEncoded(j, i, program.labels)
      BY <1>1, <2>1, <2>3, FetchesCode
    <2>5. /\ i.op \in Opcodes \ Linking /\ Typed(i.dst) /\ Typed(i.src)
          /\ i.dst.type = "Label" => program.labels[i.dst.v] \in 0 .. Len(program.code)
      BY <2>1, ProgramFacts, PayloadWords DEF Plain
    <2> HIDE DEF i, j
    <2>6. j.op = i.op /\ Encoded(i.dst, j.dst) /\ Encoded(i.src, j.src)
      BY <2>4 DEF IsEncoded, Encoded
    <2>7. i.dst.type = "None" \/ (Clear(s, i.dst) /\ Clear(s, i.src))
      BY <1>1, <2>4, <2>5, <2>6, ClearOperands DEF j
    <2>8. AtCode(s, t)
      BY <1>4 DEF AtCode
    <2>9. InStep(execute(s, i), executeBinaryInstruction(t, j))
      BY <2>5, <2>6, <2>7, <2>8, ExecuteAgrees
    <2>10. LegacyStep(s) = execute(s, i)
      BY <1>4, <2>2 DEF LegacyStep, i
    <2>11. BinaryStep(t) = executeBinaryInstruction(t, j)
      BY <1>1, <1>4, <2>4 DEF BinaryStep, j
    <2> QED
      BY <2>9, <2>10, <2>11
  <1> QED
    BY <1>2, <1>3, <1>4

LEMMA StuckStays ==
    ASSUME Loaded, NEW n \in Nat, NEW s \in CPUs(n), NEW t \in CPUs(n), Stuck(s, t)
    PROVE  Stuck(LegacyStep(s), BinaryStep(t)) /\ Stuck(Failed(s), t)
  <1>1. Stuck(Failed(s), t)
    BY DEF Stuck, Failed, CPUs, CPUStates
  <1>2. ~LegacyFetches(s)
    BY ProgramFacts DEF Stuck, LegacyFetches
  <1>3. LegacyStep(s) \in {s, Failed(s)}
    BY <1>2 DEF LegacyStep
  <1>4. BinaryStep(t) = t
    BY DEF BinaryStep, Stuck
  <1> QED
    BY <1>1, <1>3, <1>4

\* The image is as long as the code.
LEMMA ImageLength ==
    ASSUME Loaded
    PROVE  /\ encodeProgram(program.code, program.labels) \in Seq(Byte)
           /\ Len(encodeProgram(program.code, program.labels)) =
              Len(program.code) * InstructionSize
  <1> DEFINE f == encodeProgram(program.code, program.labels)
             m == Len(program.code) * InstructionSize
  <1>1. f \in Seq(Byte)
    BY ImageType
  <1>2. DOMAIN f = 1 .. m
    BY DEF encodeProgram
  <1>3. m \in Nat
    BY ProgramFacts, Layout
  <1> HIDE DEF f, m
  <1>4. Len(f) = m
    BY <1>1, <1>2, <1>3
  <1> QED
    BY <1>1, <1>4 DEF f, m

LEMMA InitAgrees ==
    ASSUME Init
    PROVE  Agree(legacy, binary)
  <1>1. Loaded /\ legacy = Reset(program.mode) /\ legacy \in CPUs(0)
    BY InitType DEF Init
  <1>2. PICK image \in {encodeProgram(program.code, program.labels)} :
           binary = [Reset(program.mode) EXCEPT !.mem = WriteBytes(@, CodeBase, image),
                                                !.pc = CodeBase]
    BY DEF Init
  <1> DEFINE m == WriteBytes(legacy.mem, CodeBase, image)
             L == Len(program.code) * InstructionSize
  <1>3. binary = [legacy EXCEPT !.mem = m, !.pc = CodeBase]
    BY <1>1, <1>2
  <1>4. Len(image) = L /\ L \in Nat /\ L <= StackBase - CodeBase
    BY <1>1, ImageLength, ProgramFacts, Layout
  <1>5. DOMAIN legacy.mem = 0 .. MemEnd - 1
    BY <1>1, StateFields DEF Memories
  <1>6. \A b \in 0 .. MemEnd - 1 :
           m[b] = IF b \in CodeBase .. CodeBase + L - 1 THEN image[b - CodeBase + 1] ELSE legacy.mem[b]
    BY <1>4, <1>5 DEF WriteBytes
  <1> HIDE DEF m, L
  <1>7. SameData(legacy.mem, m)
    <2>1. \A a \in Outside : a \in 0 .. MemEnd - 1 /\ a \notin CodeBase .. CodeBase + L - 1
      BY <1>4, Layout DEF Outside
    <2> QED
      BY <1>6, <2>1 DEF SameData
  <1>8. CodeIntact(m)
    <2>1. ASSUME NEW b \in 1 .. L
          PROVE  m[CodeBase + b - 1] = image[b]
      <3>1. /\ CodeBase + b - 1 \in 0 .. MemEnd - 1
            /\ CodeBase + b - 1 \in CodeBase .. CodeBase + L - 1
            /\ (CodeBase + b - 1) - CodeBase + 1 = b
        BY <1>4, Layout
      <3> QED
        BY <1>6, <3>1
    <2> QED
      BY <2>1 DEF CodeIntact, L
  <1>9. Alike(legacy, binary) /\ binary.pc = CodeBase
    BY <1>1, <1>3, <1>7, <1>8 DEF Alike, CPUs, CPUStates
  <1>10. legacy.pc = 0
    BY <1>1 DEF Reset
  <1>11. AddressOf(0) = CodeBase /\ 0 \in 0 .. Len(program.code)
    BY <1>1, ProgramFacts, Layout DEF AddressOf
  <1> QED
    BY <1>9, <1>10, <1>11 DEF Agree

\* The forms agree, or the one is behind the end, where the other is not.
FormsInvariant == subject = "program" => ((apart /\ Plain) => InStep(legacy, binary))

LEMMA FormsInit ==
    ASSUME MCInit
    PROVE  FormsInvariant
  BY InitAgrees DEF MCInit, FormsInvariant, InStep

LEMMA FormsStep ==
    ASSUME TraceInvariant, FormsInvariant, [MCNext]_<<subject, vars, aluVars>>
    PROVE  FormsInvariant'
  <1> SUFFICES ASSUME subject' = "program", apart', Plain'
               PROVE  InStep(legacy, binary)'
    BY DEF FormsInvariant
  <1>0. subject = "program"
    BY DEF MCNext
  <1>1. /\ Loaded /\ count \in Nat /\ count \in 0 .. MaxSteps
        /\ legacy \in CPUs(count) /\ binary \in CPUs(count)
    BY <1>0, Layout DEF TraceInvariant, MachinesTyped
  <1>2. CASE Step
    <2>1. /\ count < MaxSteps /\ program' = program /\ apart
          /\ legacy' = LegacyStep(legacy) /\ binary' = BinaryStep(binary)
          /\ ~TouchesCode(binary, TracedInstruction(binary))
      BY <1>2 DEF Step
    <2>2. Plain
      BY <2>1 DEF Plain
    <2>3. count <= MaxWord
      BY <1>1, <2>1, Layout, StepsAssumption, ByteFacts DEF MaxWord
    <2>4. InStep(legacy, binary)
      BY <1>0, <2>1, <2>2 DEF FormsInvariant
    <2>5. InStep(LegacyStep(legacy), BinaryStep(binary))
      BY <1>1, <2>1, <2>2, <2>3, <2>4, StepAgrees, StuckStays DEF InStep
    <2> QED
      BY <2>1, <2>5 DEF InStep, Agree, Alike, Stuck, CodeIntact
  <1>3. CASE Exhausted
    <2>1. /\ program' = program /\ apart' = apart
          /\ legacy' = IF legacy.halted THEN legacy ELSE Failed(legacy)
          /\ binary' = IF binary.halted THEN binary ELSE Failed(binary)
      BY <1>3 DEF Exhausted
    <2>2. InStep(legacy, binary)
      BY <1>0, <2>1 DEF FormsInvariant, Plain
    <2> DEFINE u == IF legacy.halted THEN legacy ELSE Failed(legacy)
               v == IF binary.halted THEN binary ELSE Failed(binary)
    <2>3. Agree(legacy, binary) => Agree(u, v)
      <3>1. Agree(legacy, binary) => legacy.halted = binary.halted
        BY DEF Agree, Alike
      <3> QED
        BY <1>1, <3>1, FailuresAgree
    <2>4. Stuck(legacy, binary) => Stuck(u, v)
      <3>1. Stuck(legacy, binary) => binary.halted
        BY DEF Stuck
      <3> QED
        BY <1>1, <3>1, StuckStays
    <2>5. InStep(u, v)
      BY <2>2, <2>3, <2>4 DEF InStep
    <2> HIDE DEF u, v
    <2>6. legacy' = u /\ binary' = v
      BY <2>1 DEF u, v
    <2> QED
      BY <2>1, <2>5, <2>6 DEF InStep, Agree, Alike, Stuck, CodeIntact
  <1>4. CASE UNCHANGED <<subject, vars, aluVars>>
    BY <1>0, <1>4 DEF vars, FormsInvariant, Plain, InStep, Agree, Alike, Stuck, CodeIntact
  <1> QED
    BY <1>0, <1>2, <1>3, <1>4 DEF MCNext, Next

\* What the invariant says of what can be seen.
LEMMA InStepShows ==
    ASSUME TraceInvariant, FormsInvariant, Plain, subject = "program"
    PROVE  FormsAgree
  <1> SUFFICES ASSUME apart
               PROVE  /\ \A r \in Registers : SameWord(legacy.regs[r], binary.regs[r])
                      /\ legacy.flags = binary.flags
                      /\ legacy.out = binary.out
                      /\ legacy.mode = binary.mode /\ legacy.enabled = binary.enabled
                      /\ \A a \in 0 .. CodeBase - 1 : legacy.mem[a] = binary.mem[a]
                      /\ \/ legacy.pc = Len(program.code)
                         \/ /\ SameStack(legacy, binary)
                            /\ legacy.sp = binary.sp /\ legacy.ksp = binary.ksp
                            /\ SameWord(legacy.pc, binary.pc)
                            /\ legacy.halted = binary.halted
                            /\ legacy.error = binary.error
    BY DEF FormsAgree
  <1>1. InStep(legacy, binary)
    BY DEF FormsInvariant
  <1>2. /\ legacy.regs = binary.regs /\ legacy.flags = binary.flags /\ legacy.out = binary.out
        /\ legacy.mode = binary.mode /\ legacy.enabled = binary.enabled
        /\ SameData(legacy.mem, binary.mem)
    BY <1>1 DEF InStep, Agree, Alike, Stuck
  <1>3. \A a \in 0 .. CodeBase - 1 : legacy.mem[a] = binary.mem[a]
    BY <1>2 DEF SameData, Outside
  <1>4. \A r \in Registers : SameWord(legacy.regs[r], binary.regs[r])
    BY <1>2 DEF SameWord
  <1>5. legacy.mem \in Memories /\ binary.mem \in Memories
    BY StateFields, Layout DEF TraceInvariant, MachinesTyped
  <1>6. SameStack(legacy, binary)
    <2>1. ASSUME NEW a \in StackBase .. MemEnd - WordBytes
          PROVE  ReadWord(legacy.mem, a) = ReadWord(binary.mem, a)
      <3>1. a \in Nat /\ a + WordBytes <= MemEnd /\ Beside(a)
        BY Layout DEF Beside
      <3> QED
        BY <1>2, <1>5, <3>1, SameReads
    <2> QED
      BY <2>1 DEF SameStack, SameWord
  <1>7. Agree(legacy, binary) =>
           /\ legacy.sp = binary.sp /\ legacy.ksp = binary.ksp
           /\ SameWord(legacy.pc, binary.pc)
           /\ legacy.halted = binary.halted
           /\ legacy.error = binary.error
    BY DEF Agree, Alike, SameWord, AddressOf
  <1>8. Stuck(legacy, binary) => legacy.pc = Len(program.code)
    BY DEF Stuck
  <1> QED
    BY <1>1, <1>2, <1>3, <1>4, <1>6, <1>7, <1>8 DEF InStep

\* In every run of every program that saves no code addresses (no CALL, RET, INT
\* or IRET), as long as it does not touch its code, the bytes that the encoder
\* makes of it do under executeBinaryInstruction what its instructions do under
\* execute.
THEOREM FormsCorrect == MCSpec => [](Plain => FormsAlwaysAgree)
  <1>1. MCInit => FormsInvariant
    BY FormsInit
  <1>2. TraceInvariant /\ FormsInvariant /\ [MCNext]_<<subject, vars, aluVars>> => FormsInvariant'
    BY FormsStep
  <1>3. TraceInvariant /\ FormsInvariant => (Plain => FormsAlwaysAgree)
    BY InStepShows DEF FormsAlwaysAgree
  <1> QED
    BY <1>1, <1>2, <1>3, TraceInvariantHolds, PTL DEF MCSpec

================================================================================
