------------------------------- MODULE Leb128 -------------------------------
(***************************************************************************)
(* The LEB128 readers of safe_access.cpp and the text and binary constants *)
(* of ExpressionService.cpp, on byte strings.                              *)
(*                                                                         *)
(* A byte is a number below 2^(G + 1): G bits of payload under the         *)
(* continuation bit.  The code has G = 7, a C int of W = 32 bits and words *)
(* of W and 2 * W; all three widths are parameters so that a reader can be *)
(* checked on every value.  A reader stops at a byte without continuation, *)
(* at its byte limit, and silently at the end of the buffer.               *)
(***************************************************************************)
EXTENDS Integers, SequencesExt, Bitwise

CONSTANTS
    W,      \* bits of a C int, and of an i32: 32
    G       \* payload bits of a byte: 7

ASSUME Leb128Assumption == W \in Nat \ {0} /\ G \in 1 .. W - 1

More == 2^G                                     \* 0x80
MaxBytes(n) == (n + G - 1) \div G               \* 5 and 10

\* The bytes a reader with a limit takes from the buffer.
Taken(bytes, limit) ==
    LET ends == {i \in 1 .. Len(bytes) : i = limit \/ bytes[i] < More}
    IN  IF ends = {} THEN bytes ELSE SubSeq(bytes, 1, Min(ends))

\* ret |= (byte & 0x7F) << shift, in n bits, over the bytes taken.
Payload(taken, n) ==
    FoldLeftDomain(LAMBDA ret, i : (ret + (taken[i] % More) * 2^(G * (i - 1))) % 2^n, 0, taken)

\* The last byte taken has its second highest bit set; there may be none.
Negative(taken) == taken # <<>> /\ (Last(taken) % More) >= More \div 2

ReadVarint32(bytes) ==
    LET taken == Taken(bytes, MaxBytes(W))
        shift == G * Len(taken)
    IN  IF shift < W /\ Negative(taken)
        THEN Payload(taken, W) | (2^W - 2^shift)
        ELSE Payload(taken, W)

\* ~0 << shift is a shift of an int: x64 takes the count modulo W, and the
\* result is sign-extended to 2 * W bits before it is or-ed in.
ReadVarint64(bytes) ==
    LET taken == Taken(bytes, MaxBytes(2 * W))
        shift == G * Len(taken)
    IN  IF shift < 2 * W /\ Negative(taken)
        THEN Payload(taken, 2 * W) | (2^(2 * W) - 2^(shift % W))
        ELSE Payload(taken, 2 * W)

-----------------------------------------------------------------------------
(* What the readers are meant to invert: value v in k bytes.               *)

Fits(v, k) == -(2^(G * k - 1)) <= v /\ v < 2^(G * k - 1)

Encode(v, k) ==
    LET u == v % 2^(G * k)
    IN  [i \in 1 .. k |-> ((u \div 2^(G * (i - 1))) % More) + (IF i < k THEN More ELSE 0)]

-----------------------------------------------------------------------------
(* Constants outside a function body, as a Variant's 64-bit val.           *)

SignExtend(x, n, m) == IF x >= 2^(n - 1) THEN x + 2^m - 2^n ELSE x

\* CbEatExpression: the conversion from varint32 to uint64_t extends the sign.
CbEatExpression(type, bytes) ==
    IF type = "i32" THEN SignExtend(ReadVarint32(bytes), W, 2 * W) ELSE ReadVarint64(bytes)

\* CchEatExpression: stoull wraps a negative number, and an i32 is then cut.
CchEatExpression(type, v) == IF type = "i32" THEN (v % 2^(2 * W)) % 2^W ELSE v % 2^(2 * W)
=============================================================================
