--------------------------- MODULE MCNumericCode ---------------------------
(***************************************************************************)
(* Instances of NumericCode for TLC: a C int of 8 bits, LEB128 bytes with  *)
(* 3 bits of payload, a float of 8 bits (5 of exponent, 2 of mantissa) and *)
(* a double of 16 (6 and 9).  The float reaches 2^17 and the double holds  *)
(* every int exactly, as they should; neither holds every 16-bit integer.  *)
(***************************************************************************)
EXTENDS NumericCode

Single == [mant |-> 2, bias |-> 13]
Double == [mant |-> 9, bias |-> 31]

\* Zero, one, the ends of both readings and their neighbours, and numbers halfway between two
\* floats of the range above 2^15, with and without a last bit that breaks the tie.
I32s == {0, 1, 2, 7, 9, 126, 127, 128, 129, 180, 254, 255}
I64s == {0, 1, 3, 9, 255, 256, 32767, 32768, 32769, 36864, 36865, 32801, 65279, 65535}

\* +-0, the least denormal, 1/2, 1, 1.25, -1, 3, 127, 128, -128, 2^15, the largest below 2^16,
\* 2^16, infinities, NaNs.
F32s == {Cvtsi("f32", i) : i \in {0, 1, -1, 3, 128, -128, 256, 32768, 57344, 65536}}
        \cup {1, 48, 53, 128, 124, 252, 126, 254}
F64s == {Cvtsi("f64", i) : i \in {0, 1, -1, 3, 127, 128, -128, -129, 255, 256, 32768, 32832, 65472, 65536}}
        \cup {1, 15360, 32768, 32256, 65024, 32512}

SampleValues == [type \in Types |->
    CASE type = "i32" -> I32s [] type = "i64" -> I64s [] type = "f32" -> F32s [] type = "f64" -> F64s]

\* The lengths of an i64.const that the reader handles: see the run numeric_i64_const.
SoundLengths == [type \in Ints |-> IF type = "i32" THEN 1 .. 3 ELSE {1, 2, 6}]
FourBytes == [type \in Ints |-> IF type = "i32" THEN {3} ELSE {4}]

InMemory == {0, 1, 33000, 65535, 43690}

GlobalVariables ==
    { [type |-> "i32", fMutable |-> TRUE, val |-> 255, length |-> 1],
      [type |-> "i32", fMutable |-> FALSE, val |-> 128, length |-> 3],
      [type |-> "i64", fMutable |-> TRUE, val |-> 65535, length |-> 2] }

OneGlobal == {[type |-> "i32", fMutable |-> TRUE, val |-> 1, length |-> 1]}
NoWords == {0}

\* i32.reinterpret_f32 is not in the passing run: see numeric_upper.
SafeReinterprets == {<<"f32", "i32">>, <<"f64", "i64">>, <<"i64", "f64">>}
IntOfFloat == {<<"i32", "f32">>}

Few == [type \in Types |-> IF type \in Ints THEN {1, 3} ELSE {}]
=============================================================================
