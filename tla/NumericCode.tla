----------------------------- MODULE NumericCode -----------------------------
(***************************************************************************)
(* The numbers a function computes: constants, arguments, globals, loads   *)
(* and the arithmetic, comparison and conversion templates of              *)
(* JitWriter.cpp, run on machine words beside WebAssembly's own reading of *)
(* the same instructions.                                                  *)
(*                                                                         *)
(* A value of any type sits in a 64-bit slot.  Nothing marks its type: an  *)
(* i32 is whatever the lower half says, and several templates read all of  *)
(* rax instead, trusting the last writer to have cleared the upper half.   *)
(* xmm0 outlives a template too, so what its upper half (`lane') was left  *)
(* with can reappear.                                                      *)
(*                                                                         *)
(* Abstractions.  Where operands live is StackCode's subject, addresses    *)
(* are LinearMemory's: here the stack is a sequence and a load reads any   *)
(* word.  The arithmetic of floats (addss and so on) is the processor's    *)
(* and left out, with the f64 comparisons, which StackCode has.            *)
(*                                                                         *)
(* A definition named X_Y is X with a deliberate error: the runs have to   *)
(* notice it.  No other definition uses one.                               *)
(***************************************************************************)
EXTENDS MachineNumbers

CONSTANTS
    Samples,        \* per type, the bit patterns the function's constants are taken from
    Words,          \* what a load finds in memory
    Lanes,          \* what xmm0's upper half may hold when the function is entered
    Globals,        \* global variables: records [type, fMutable, val, length] of their initialisers
    Lengths,        \* per integer type, the lengths of the encodings the module uses
    Reinterprets,   \* the pairs <<to, from>> of the reinterpretations it uses
    MaxOperands,    \* bound on the operand stack
    MaxLen          \* bound on the instructions

IntOps == {"add", "sub", "mul", "and", "or", "xor", "shl", "shr_s", "shr_u", "rotl", "rotr"}
Counts == {"clz", "ctz", "popcnt"}
Conds == {"eq", "ne", "lt", "le", "gt", "ge"}
Ints == {"i32", "i64"}
Floats == {"f32", "f64"}

ASSUME NumericCodeAssumption ==
    /\ W \in {8, 16, 32} /\ MaxLen \in Nat /\ MaxOperands \in Nat
    /\ Samples \in [Types -> SUBSET Word]
    /\ Words \subseteq Word /\ Lanes \subseteq 0 .. 2^W - 1
    /\ \A g \in Globals : g.type \in Ints /\ Fits(Signed(Bits(g.type), g.val), g.length)
    /\ Lengths \in [Ints -> SUBSET (1 .. 10)]
    /\ Reinterprets \subseteq Types \X Types

VARIABLES
    stack,      \* the operands: their type, what the machine has, what WebAssembly has
    lane,       \* the upper half of the lower 2 * W bits of xmm0
    glbl,       \* one global variable: an element of m_vecglbls, and its slot
    count,      \* instructions run
    stop        \* what ends the function: "#DE" on the machine, "trap" in WebAssembly, or
                \* "range" in WebAssembly only, for a float no integer is near to

vars == <<stack, lane, glbl, count, stop>>

Operand(type, word, val) == [type |-> type, word |-> word, val |-> val]
Top == Last(stack)
Rest == Front(stack)
Second == stack[Len(stack) - 1]
Rest2 == Front(Rest)
Has(types) ==
    /\ Len(stack) >= Len(types)
    /\ \A i \in 1 .. Len(types) : stack[Len(stack) - Len(types) + i].type = types[i]

Step ==
    /\ stop = {} /\ count < MaxLen
    /\ count' = count + 1

\* The instruction leaves one operand in place of those it took.
Leave(rest, type, word, val) ==
    /\ stack' = Append(rest, Operand(type, word, val))
    /\ UNCHANGED <<glbl, stop>>

Push(type, word, val) == Len(stack) < MaxOperands /\ Leave(stack, type, word, val)

-----------------------------------------------------------------------------
(* Where values come from.                                                 *)

PushC32(c) == Low(c)
PushC64(c) == c

\* i32.const and i64.const, from a signed LEB128 number of some length; f32.const, f64.const.
ConstBits(type, x, k) ==
    IF type \in Ints /\ Fits(Signed(Bits(type), x), k)
    THEN LET bytes == Encode(Signed(Bits(type), x), k)
         IN  IF type = "i32" THEN PushC32(ReadVarint32(bytes)) ELSE PushC64(ReadVarint64(bytes))
    ELSE x

Encodings(type, x) ==
    IF type \in Ints THEN {k \in Lengths[type] : Fits(Signed(Bits(type), x), k)} ELSE {0}

Const ==
    \E type \in Types : \E x \in Samples[type] : \E k \in Encodings(type, x) :
        /\ Step /\ Push(type, ConstBits(type, x, k), x)
        /\ UNCHANGED lane

\* An argument of an invoke in a script, where a number has a sign and any size.
Argument ==
    \E type \in Ints : \E x \in Samples[type] : \E v \in {x, Signed(Bits(type), x)} :
        /\ Step /\ Push(type, CchEatExpression(type, v), x)
        /\ UNCHANGED lane

LoadSigned(word, n) == Signed(n, word % 2^n)

\* cb bytes from memory: cases 1, 2 and 4 of LoadMem clear or extend, 8 is a whole register.
LoadMem(f64Dst, n, fSignExtend, word) ==
    IF ~fSignExtend THEN word % 2^n
    ELSE LoadSigned(word, n) % 2^(IF f64Dst THEN 2 * W ELSE W)

\* The loads the compiler knows: result, bits read, sign extended.
Loads ==
    { <<"i32", W, FALSE>>, <<"i64", W, FALSE>>, <<"f32", W, FALSE>>, <<"f64", 2 * W, FALSE>>,
      <<"i64", 2 * W, FALSE>>, <<"i64", W, TRUE>> }
    \cup (Ints \X {W \div 4, W \div 2} \X BOOLEAN)

Load ==
    \E l \in Loads : \E word \in Words :
        LET type == l[1]
            n == l[2]
            f64Dst == IF l[3] THEN type = "i64" ELSE n = 2 * W
        IN  /\ Step /\ Has(<<"i32">>)
            /\ Leave(Rest, type, LoadMem(f64Dst, n, l[3], word),
                     IF l[3] THEN LoadSigned(word, n) % 2^Bits(type) ELSE word % 2^n)
            /\ UNCHANGED lane

\* A mutable global is read from its slot, an immutable one is a constant of the code.
GetGlobal_WholeSlot(type, slot) == slot
GetGlobal(type, slot) == IF type \in {"i32", "f32"} THEN PushC32(slot) ELSE PushC64(slot)

ReadGlobal ==
    /\ Step /\ Push(glbl.type, GetGlobal(glbl.type, glbl.slot), glbl.val)
    /\ UNCHANGED lane

\* Four bytes of the slot, or eight.
SetGlobal(type, slot, rax) ==
    IF type \in {"i32", "f32"} THEN (slot - Low(slot)) + Low(rax) ELSE rax

WriteGlobal ==
    /\ Step /\ glbl.fMutable /\ Has(<<glbl.type>>)
    /\ glbl' = [glbl EXCEPT !.slot = SetGlobal(glbl.type, glbl.slot, Top.word), !.val = Top.val]
    /\ stack' = Rest
    /\ UNCHANGED <<lane, stop>>

-----------------------------------------------------------------------------
(* Integers.  Templates work on eax or rax; a write to eax clears the rest. *)

Lhs == Second.word      \* the operand under the top
Rhs == Top.word         \* rax

IntBinary ==
    \E type \in Ints : \E op \in IntOps :
        LET n == Bits(type) IN
        /\ Step /\ Has(<<type, type>>)
        /\ Leave(Rest2, type, Alu(op, n, Lhs % 2^n, Rhs % 2^n), Alu(op, n, Second.val, Top.val))
        /\ UNCHANGED lane

\* cmp rcx, rax; mov eax, 1; jcc; xor eax, eax.
Flag(b) == IF b THEN 1 ELSE 0
Compare(n, fSigned, cond, first, second) ==
    LET View(x) == IF fSigned THEN Signed(n, x % 2^n) ELSE x % 2^n
    IN  Flag(Holds(cond, View(first), View(second)))

IntCompare ==
    \E type \in Ints : \E cond \in Conds : \E fSigned \in BOOLEAN :
        LET n == Bits(type)
            Number(x) == IF fSigned THEN Signed(n, x) ELSE x
        IN  /\ Step /\ Has(<<type, type>>)
            /\ Leave(Rest2, "i32", Compare(n, fSigned, cond, Lhs, Rhs),
                     Flag(Holds(cond, Number(Second.val), Number(Top.val))))
            /\ UNCHANGED lane

IntUnary ==
    \E type \in Ints : \E op \in Counts \cup {"eqz"} :
        LET n == Bits(type)
            Of(x) == IF op = "eqz" THEN Flag(x = 0) ELSE Count(op, n, x)
        IN  /\ Step /\ Has(<<type>>)
            /\ Leave(Rest, IF op = "eqz" THEN "i32" ELSE type, Of(Rhs % 2^n), Of(Top.val))
            /\ UNCHANGED lane

\* idiv and div raise #DE on a zero divisor and on a quotient that does not fit.  A signed
\* remainder is taken by the divisor's absolute value (cdq; xor; sub), so that it always does.
DivResult(n, fSigned, fModulo, a, b) ==
    LET quotients == IF fSigned THEN -(2^(n - 1)) .. 2^(n - 1) - 1 ELSE 0 .. 2^n - 1
    IN  IF b = 0 \/ Quot(a, b) \notin quotients THEN {}
        ELSE {(IF fModulo THEN Rem(a, b) ELSE Quot(a, b)) % 2^n}

Div_NoAbs(n, fSigned, fModulo, first, second) ==
    LET View(x) == IF fSigned THEN Signed(n, x % 2^n) ELSE x % 2^n
    IN  DivResult(n, fSigned, fModulo, View(first), View(second))

Div(n, fSigned, fModulo, first, second) ==
    LET View(x) == IF fSigned THEN Signed(n, x % 2^n) ELSE x % 2^n
        divisor == IF fSigned /\ fModulo THEN View(Abs(View(second)) % 2^n) ELSE View(second)
    IN  DivResult(n, fSigned, fModulo, View(first), divisor)

\* WebAssembly: div traps on zero and on overflow, rem on zero only.
Division(n, fSigned, fModulo, a, b) ==
    IF b = 0 \/ (fSigned /\ ~fModulo /\ Quot(a, b) = 2^(n - 1)) THEN {}
    ELSE {(IF fModulo THEN Rem(a, b) ELSE Quot(a, b)) % 2^n}

IntDivide ==
    \E type \in Ints : \E fSigned, fModulo \in BOOLEAN :
        LET n == Bits(type)
            Number(x) == IF fSigned THEN Signed(n, x) ELSE x
            machine == Div(n, fSigned, fModulo, Lhs, Rhs)
            wasm == Division(n, fSigned, fModulo, Number(Second.val), Number(Top.val))
        IN  /\ Step /\ Has(<<type, type>>)
            /\ IF machine # {} /\ wasm # {}
               THEN Leave(Rest2, type, CHOOSE x \in machine : TRUE, CHOOSE x \in wasm : TRUE)
               ELSE /\ stop' = (IF machine = {} THEN {"#DE"} ELSE {})
                               \cup (IF wasm = {} THEN {"trap"} ELSE {})
                    /\ UNCHANGED <<stack, glbl>>
            /\ UNCHANGED lane

-----------------------------------------------------------------------------
(* Conversions.  Each template is what it does to rax and to xmm0.         *)

Xmm0(low) == lane * 2^W + low       \* a single written to xmm0 leaves the lane
Upper(x) == x \div 2^W

\* The 2^63 that F32ToU64Trunc and F64ToU64Trunc take out and put back.
Half == 2^(2 * W - 1)

\* ucomis; jae is not taken for a NaN.
ToU64Trunc(type, x) ==
    LET f == Format(type)
        n == Bits(type)
        i == Integral(f, n, x)
    IN  IF IsNaN(f, n, x) \/ Neg(n, x) \/ i < Half THEN Cvtt(type, x, 2 * W)
        ELSE (Cvtt(type, IF IsFinite(f, n, x) THEN Cvtsi(type, i - Half) ELSE x, 2 * W) + Half)
             % 2^(2 * W)

Truncated(dst, src, fSigned, rax) ==
    LET x == rax % 2^Bits(src) IN
    CASE fSigned -> Cvtt(src, x, Bits(dst))
      [] ~fSigned /\ dst = "i32" -> Low(Cvtt(src, x, 2 * W))
      [] OTHER -> ToU64Trunc(src, x)

\* U64ToF32 and U64ToF64 above 2^63: half of it rounded to odd, converted and doubled.
Doubled(type, x) ==
    LET f == Format(type) IN Round(f, Bits(type), FALSE, Mantissa(f, Bits(type), x),
                                   Exponent(f, Bits(type), x) + 1)
U64ToFloat_NotSticky(type, rax) ==
    IF rax < Half THEN Cvtsi(type, rax) ELSE Doubled(type, Cvtsi(type, rax \div 2))
U64ToFloat(type, rax) ==
    IF rax < Half THEN Cvtsi(type, rax)
    ELSE Doubled(type, Cvtsi(type, (rax \div 2) | (rax % 2)))

\* cvtsi2ss or cvtsi2sd of eax or rax: an unsigned i32 is converted as all of rax.
Converted(dst, src, fSigned, rax) ==
    CASE fSigned -> Cvtsi(dst, Signed(Bits(src), rax % 2^Bits(src)))
      [] ~fSigned /\ src = "i32" -> Cvtsi(dst, Signed(2 * W, rax))
      [] OTHER -> U64ToFloat(dst, rax)

\* movd eax, xmm0 clears the upper half of rax; U64ToF32 has movd rax, xmm0, or movq.
ConvertedWord(dst, src, fSigned, rax) ==
    LET x == Converted(dst, src, fSigned, rax) IN
    IF dst = "f32" /\ src = "i64" /\ ~fSigned THEN Xmm0(x) ELSE x

Truncate ==
    \E dst \in Ints : \E src \in Floats : \E fSigned \in BOOLEAN :
        LET f == Format(src)
            n == Bits(dst)
            i == Integral(f, Bits(src), Top.val)
            range == IF fSigned THEN -(2^(n - 1)) .. 2^(n - 1) - 1 ELSE 0 .. 2^n - 1
        IN  /\ Step /\ Has(<<src>>)
            /\ IF IsFinite(f, Bits(src), Top.val) /\ i \in range
               THEN Leave(Rest, dst, Truncated(dst, src, fSigned, Rhs), i % 2^n)
               ELSE /\ stop' = {"range"}    \* the machine goes on with some integer
                    /\ UNCHANGED <<stack, glbl>>
            /\ lane' = IF src = "f32" THEN 0
                       ELSE IF dst = "i64" /\ ~fSigned /\ ~Neg(2 * W, Rhs) /\ i >= Half
                            THEN Upper(Cvtsi("f64", i - Half))
                            ELSE Upper(Rhs)

ConvertInt ==
    \E dst \in Floats : \E src \in Ints : \E fSigned \in BOOLEAN :
        LET word == ConvertedWord(dst, src, fSigned, Rhs)
            i == IF fSigned THEN Signed(Bits(src), Top.val) ELSE Top.val
        IN  /\ Step /\ Has(<<src>>)
            /\ Leave(Rest, dst, word, Cvtsi(dst, i))
            /\ lane' = IF dst = "f64" THEN Upper(word) ELSE lane

\* f64.promote_f32: movd xmm0, eax and back; f32.demote_f64 keeps the double's upper half.
ConvertFloat ==
    \E dst \in Floats : \E src \in Floats \ {dst} :
        LET word == Cvt(dst, src, Rhs % 2^Bits(src)) IN
        /\ Step /\ Has(<<src>>)
        /\ Leave(Rest, dst, word, Cvt(dst, src, Top.val))
        /\ lane' = IF dst = "f64" THEN Upper(word) ELSE Upper(Rhs)

\* i64.extend_s, i64.extend_u (no code at all) and i32.wrap.
Resize ==
    /\ Step
    /\ \/ /\ Has(<<"i32">>)
          /\ \/ Leave(Rest, "i64", Signed(W, Low(Rhs)) % 2^(2 * W), Signed(W, Top.val) % 2^(2 * W))
             \/ Leave(Rest, "i64", Rhs, Top.val)
       \/ /\ Has(<<"i64">>)
          /\ Leave(Rest, "i32", Low(Rhs), Low(Top.val))
    /\ UNCHANGED lane

\* No code either.
Reinterpret ==
    \E p \in Reinterprets :
        /\ Step /\ Has(<<p[2]>>)
        /\ Leave(Rest, p[1], Rhs, Top.val)
        /\ UNCHANGED lane

FloatNeg ==
    \E type \in Floats :
        LET n == Bits(type)
            Flip(x) == (x + 2^(n - 1)) % 2^n
        IN  /\ Step /\ Has(<<type>>)
            /\ Leave(Rest, type, Flip(Rhs % 2^n), Flip(Top.val))
            /\ UNCHANGED lane

\* cmpss knows less, less or equal, equal and not equal: the others swap the operands.
CmpSs(imm, a, b) ==
    LET unordered == IsNaN(F32, W, a) \/ IsNaN(F32, W, b) IN
    CASE imm = 0 -> ~unordered /\ Key(W, a) = Key(W, b)
      [] imm = 1 -> ~unordered /\ Key(W, a) < Key(W, b)
      [] imm = 2 -> ~unordered /\ Key(W, a) <= Key(W, b)
      [] imm = 4 -> unordered \/ Key(W, a) # Key(W, b)

FloatCompare(cond, first, second) ==
    CASE cond = "lt" -> CmpSs(1, first, second) [] cond = "gt" -> CmpSs(1, second, first)
      [] cond = "le" -> CmpSs(2, first, second) [] cond = "ge" -> CmpSs(2, second, first)
      [] cond = "eq" -> CmpSs(0, first, second) [] cond = "ne" -> CmpSs(4, first, second)

SingleCompare ==
    \E cond \in Conds :
        LET nan == IsNaN(F32, W, Second.val) \/ IsNaN(F32, W, Top.val) IN
        /\ Step /\ Has(<<"f32", "f32">>)
        /\ Leave(Rest2, "i32", Flag(FloatCompare(cond, Low(Lhs), Low(Rhs))),
                 Flag(IF nan THEN cond = "ne" ELSE Holds(cond, Key(W, Second.val), Key(W, Top.val))))
        /\ lane' = 0

-----------------------------------------------------------------------------
(* The global starts as the Variant its initialiser expression gives.      *)
Global(g) ==
    [type |-> g.type, fMutable |-> g.fMutable, val |-> g.val,
     slot |-> CbEatExpression(g.type, Encode(Signed(Bits(g.type), g.val), g.length))]

Init ==
    /\ stack = <<>>
    /\ lane \in Lanes
    /\ glbl \in {Global(g) : g \in Globals}
    /\ count = 0
    /\ stop = {}

\* The function is as long as the run wants it, or was stopped.
Done == (stop # {} \/ count = MaxLen) /\ UNCHANGED vars

Next ==
    \/ Const \/ Argument \/ Load \/ ReadGlobal \/ WriteGlobal
    \/ IntBinary \/ IntCompare \/ IntUnary \/ IntDivide
    \/ Truncate \/ ConvertInt \/ ConvertFloat \/ Resize \/ Reinterpret
    \/ FloatNeg \/ SingleCompare \/ Done

Spec == Init /\ [][Next]_vars

-----------------------------------------------------------------------------
\* What the machine has of every operand's type is the number WebAssembly computes: through
\* constants of any length, the conversions of unsigned numbers the processor has no instruction
\* for, their rounding, and the halves of registers other templates left behind.
Computes ==
    \A i \in 1 .. Len(stack) : stack[i].word % 2^Bits(stack[i].type) = stack[i].val

\* The upper half of an i32 is zero.  i64.extend_u emits nothing and the unsigned conversions
\* read all of rax because of it, and so do the `test rax, rax' of if and br_if.
UpperZero == \A i \in 1 .. Len(stack) : stack[i].type = "i32" => stack[i].word < 2^W

\* The processor stops a division exactly when WebAssembly does.  (A conversion of a float out
\* of range is never stopped.)
DivisionStops == "#DE" \in stop <=> "trap" \in stop

=============================================================================
