--------------------------- MODULE MachineNumbers ---------------------------
(***************************************************************************)
(* What the x64 instructions the numeric templates use do to words, and    *)
(* the IEEE formats.  External to src/: the processor, as far as           *)
(* JitWriter.cpp and optemplates.asm use it.                               *)
(*                                                                         *)
(* Words are unsigned numbers of W bits (a C int, i32) or 2 * W (i64, a    *)
(* register).  Formats are scaled with W so that F32 reaches beyond every  *)
(* unsigned 2 * W bit integer, as a float reaches beyond 2^64, and has too *)
(* few digits for W bits, as a double has for 64.                          *)
(***************************************************************************)
EXTENDS Leb128

CONSTANTS
    F32, F64        \* records [mant, bias]: bits of mantissa, bias of the exponent

Types == {"i32", "i64", "f32", "f64"}
Bits(type) == IF type \in {"i32", "f32"} THEN W ELSE 2 * W
Format(type) == IF type = "f32" THEN F32 ELSE F64
Word == 0 .. 2^(2 * W) - 1

Low(x) == x % 2^W                               \* eax; writing it clears the upper half of rax
Signed(n, x) == IF x >= 2^(n - 1) THEN x - 2^n ELSE x
Abs(i) == IF i < 0 THEN -i ELSE i
BitLen(x) == Cardinality({k \in 0 .. 3 * W : 2^k <= x})

-----------------------------------------------------------------------------
(* Integers of n bits: instructions that compute what the opcode of the    *)
(* same name does.                                                         *)

Shl(n, a, k) == (a % 2^(n - k)) * 2^k
Sar(n, a, k) == (Signed(n, a) \div 2^k) % 2^n

Alu(op, n, a, b) ==
    LET k == b % n IN
    CASE op = "add" -> (a + b) % 2^n
      [] op = "sub" -> (a - b) % 2^n
      [] op = "mul" -> (Signed(n, a) * Signed(n, b)) % 2^n
      [] op = "and" -> a & b
      [] op = "or" -> a | b
      [] op = "xor" -> a ^^ b
      [] op = "shl" -> Shl(n, a, k)
      [] op = "shr_s" -> Sar(n, a, k)
      [] op = "shr_u" -> a \div 2^k
      [] op = "rotl" -> Shl(n, a, k) + a \div 2^(n - k)
      [] op = "rotr" -> Shl(n, a, n - k) + a \div 2^k

Count(op, n, a) ==
    LET ones == {k \in 0 .. n - 1 : (a \div 2^k) % 2 = 1} IN
    CASE op = "clz" -> n - BitLen(a)
      [] op = "ctz" -> IF ones = {} THEN n ELSE Min(ones)
      [] op = "popcnt" -> Cardinality(ones)

\* Division toward zero, as idiv and WebAssembly have it.
Quot(a, b) == IF (a < 0) = (b < 0) THEN Abs(a) \div Abs(b) ELSE -(Abs(a) \div Abs(b))
Rem(a, b) == a - b * Quot(a, b)

Holds(cond, a, b) ==
    CASE cond = "eq" -> a = b [] cond = "ne" -> a # b
      [] cond = "lt" -> a < b [] cond = "le" -> a <= b
      [] cond = "gt" -> a > b [] cond = "ge" -> a >= b

-----------------------------------------------------------------------------
(* Floats: a bit pattern x of format f, of n bits, is -1^neg * m * 2^e.    *)

Emin(f) == 1 - f.bias - f.mant
MaxField(f, n) == 2^(n - 1 - f.mant) - 1
Infinity(f, n) == MaxField(f, n) * 2^f.mant
Neg(n, x) == x >= 2^(n - 1)
Magnitude(n, x) == x % 2^(n - 1)
IsNaN(f, n, x) == Magnitude(n, x) > Infinity(f, n)
IsFinite(f, n, x) == Magnitude(n, x) < Infinity(f, n)

Mantissa(f, n, x) ==
    LET field == Magnitude(n, x) \div 2^f.mant
    IN  (x % 2^f.mant) + (IF field = 0 THEN 0 ELSE 2^f.mant)
Exponent(f, n, x) ==
    LET field == Magnitude(n, x) \div 2^f.mant
    IN  Emin(f) + (IF field = 0 THEN 0 ELSE field - 1)

\* The order of the patterns of the non-NaNs is the order of what they denote; -0 is 0.
Key(n, x) == IF Neg(n, x) THEN -Magnitude(n, x) ELSE x

\* m / 2^k to the nearest integer, ties to even.
Nearest(m, k) ==
    IF k <= 0 THEN m * 2^(-k)
    ELSE IF k > 3 * W THEN 0
    ELSE LET q == m \div 2^k
             twice == 2 * (m % 2^k)
         IN  IF twice > 2^k \/ (twice = 2^k /\ q % 2 = 1) THEN q + 1 ELSE q

\* The pattern nearest to -1^neg * m * 2^e.
Round(f, n, neg, m, e) ==
    LET ulp == Max({BitLen(m) - (f.mant + 1) + e, Emin(f)})
        pattern == (ulp - Emin(f)) * 2^f.mant + Nearest(m, ulp - e)
    IN  (IF neg THEN 2^(n - 1) ELSE 0) + Min({IF m = 0 THEN 0 ELSE pattern, Infinity(f, n)})

\* The integer part; 2^(3 * W) stands for everything beyond 2 * W bits.
Integral(f, n, x) ==
    LET e == Exponent(f, n, x)
        i == IF e > 2 * W THEN 2^(3 * W)
             ELSE IF e >= 0 THEN Mantissa(f, n, x) * 2^e
             ELSE IF -e > 2 * W THEN 0 ELSE Mantissa(f, n, x) \div 2^(-e)
    IN  IF Neg(n, x) THEN -i ELSE i

\* cvttss2si, cvttsd2si to k bits; the integer indefinite if it does not fit.
Cvtt(type, x, k) ==
    LET f == Format(type)
        n == Bits(type)
        i == Integral(f, n, x)
    IN  IF IsFinite(f, n, x) /\ i \in -(2^(k - 1)) .. 2^(k - 1) - 1 THEN i % 2^k ELSE 2^(k - 1)

\* cvtsi2ss, cvtsi2sd from an integer of either sign.
Cvtsi(type, i) == Round(Format(type), Bits(type), i < 0, Abs(i), 0)

\* cvtss2sd, cvtsd2ss: a NaN stays one and becomes quiet.
Cvt(dst, src, x) ==
    LET f == Format(src)    n == Bits(src)
        g == Format(dst)    m == Bits(dst)
        neg == Neg(n, x)
    IN  IF IsNaN(f, n, x) THEN Infinity(g, m) + 2^(g.mant - 1) + (IF neg THEN 2^(m - 1) ELSE 0)
        ELSE IF IsFinite(f, n, x) THEN Round(g, m, neg, Mantissa(f, n, x), Exponent(f, n, x))
        ELSE Infinity(g, m) + (IF neg THEN 2^(m - 1) ELSE 0)
=============================================================================
