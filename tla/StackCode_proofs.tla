-------------------------- MODULE StackCode_proofs --------------------------
(***************************************************************************)
(* What is proved of the compiler in StackCode: that it patches every      *)
(* branch.  Then the machine as one value, and what the templates of the   *)
(* opcodes without control flow do to the operands.                        *)
(***************************************************************************)
EXTENDS StackCode, SequenceTheorems, FiniteSetTheorems, TLAPS

-----------------------------------------------------------------------------
(* Sequences                                                               *)

LEMMA AppendFacts ==
  ASSUME NEW S, NEW s \in Seq(S), NEW e \in S
  PROVE  /\ Append(s, e) \in Seq(S)
         /\ Len(Append(s, e)) = Len(s) + 1
         /\ \A i \in 1 .. Len(s) : Append(s, e)[i] = s[i]
         /\ Append(s, e)[Len(s) + 1] = e
  OBVIOUS

LEMMA SplitIndex ==
  ASSUME NEW u, NEW s, NEW t, NEW m \in Nat, NEW n \in Nat,
         \A i \in 1 .. m + n : u[i] = IF i <= m THEN s[i] ELSE t[i - m]
  PROVE  /\ \A i \in 1 .. m : u[i] = s[i]
         /\ \A i \in 1 .. n : u[m + i] = t[i]
<1>1. \A i \in 1 .. m : u[i] = s[i]
  OBVIOUS
<1>2. \A i \in 1 .. n : u[m + i] = t[i]
  <2> TAKE i \in 1 .. n
  <2>1. m + i \in 1 .. m + n /\ ~(m + i <= m) /\ m + i - m = i
    OBVIOUS
  <2> QED  BY <2>1
<1> QED  BY <1>1, <1>2

LEMMA ConcatFacts ==
  ASSUME NEW S, NEW s \in Seq(S), NEW t \in Seq(S)
  PROVE  /\ s \o t \in Seq(S)
         /\ Len(s \o t) = Len(s) + Len(t)
         /\ \A i \in 1 .. Len(s) : (s \o t)[i] = s[i]
         /\ \A i \in 1 .. Len(t) : (s \o t)[Len(s) + i] = t[i]
<1>1. /\ s \o t \in Seq(S)
      /\ Len(s \o t) = Len(s) + Len(t)
      /\ \A i \in 1 .. Len(s) + Len(t) : (s \o t)[i] = IF i <= Len(s) THEN s[i] ELSE t[i - Len(s)]
  BY ConcatProperties
<1>2. Len(s) \in Nat /\ Len(t) \in Nat
  BY LenProperties
<1> DEFINE m == Len(s)
           n == Len(t)
           u == s \o t
<1> HIDE DEF m, n, u
<1>3. /\ \A i \in 1 .. m : u[i] = s[i]
      /\ \A i \in 1 .. n : u[m + i] = t[i]
  <2>1. m \in Nat /\ n \in Nat
    BY <1>2 DEF m, n
  <2>2. \A i \in 1 .. m + n : u[i] = IF i <= m THEN s[i] ELSE t[i - m]
    BY <1>1 DEF m, n, u
  <2> QED  BY <2>1, <2>2, SplitIndex
<1> QED  BY <1>1, <1>3 DEF m, n, u

LEMMA FrontFacts ==
  ASSUME NEW S, NEW s \in Seq(S), Len(s) >= 1
  PROVE  /\ Front(s) \in Seq(S)
         /\ Len(Front(s)) = Len(s) - 1
         /\ \A i \in 1 .. Len(s) - 1 : Front(s)[i] = s[i]
<1>1. Len(s) \in Nat /\ \A i \in 1 .. Len(s) - 1 : s[i] \in S
  BY ElementOfSeq, LenProperties
<1> DEFINE n == Len(s)
<1>2. n \in Nat /\ n >= 1
  BY <1>1
<1>3. /\ SubSeq(s, 1, n - 1) \in Seq(S)
      /\ Len(SubSeq(s, 1, n - 1)) = IF 1 <= n - 1 THEN n - 1 - 1 + 1 ELSE 0
      /\ \A i \in 1 .. n - 1 - 1 + 1 : SubSeq(s, 1, n - 1)[i] = s[1 + i - 1]
  BY <1>1, SubSeqProperties
<1>4. Front(s) = SubSeq(s, 1, n - 1)
  BY DEF Front
<1> HIDE DEF n
<1>5. Len(SubSeq(s, 1, n - 1)) = n - 1
  BY <1>2, <1>3
<1>6. \A i \in 1 .. n - 1 : SubSeq(s, 1, n - 1)[i] = s[i]
  BY <1>2, <1>3
<1> QED  BY <1>3, <1>4, <1>5, <1>6 DEF n

LEMMA SubSeqFacts ==
  ASSUME NEW S, NEW s \in Seq(S), NEW n \in 0 .. Len(s)
  PROVE  /\ SubSeq(s, 1, n) \in Seq(S)
         /\ Len(SubSeq(s, 1, n)) = n
         /\ \A i \in 1 .. n : SubSeq(s, 1, n)[i] = s[i]
<1>1. n \in Nat /\ \A i \in 1 .. n : s[i] \in S
  BY ElementOfSeq, LenProperties
<1>2. /\ SubSeq(s, 1, n) \in Seq(S)
      /\ Len(SubSeq(s, 1, n)) = IF 1 <= n THEN n - 1 + 1 ELSE 0
      /\ \A i \in 1 .. n - 1 + 1 : SubSeq(s, 1, n)[i] = s[1 + i - 1]
  BY <1>1, SubSeqProperties
<1>3. Len(SubSeq(s, 1, n)) = n
  BY <1>1, <1>2
<1>4. \A i \in 1 .. n : SubSeq(s, 1, n)[i] = s[i]
  BY <1>1, <1>2
<1> QED  BY <1>2, <1>3, <1>4

LEMMA SeqElements ==
  ASSUME NEW S, NEW n \in Nat, NEW f \in [1 .. n -> S]
  PROVE  f \in Seq(S) /\ Len(f) = n
  BY SeqDef, LenProperties

LEMMA Tuple1 ==
  ASSUME NEW S, NEW a \in S
  PROVE  <<a>> \in Seq(S) /\ Len(<<a>>) = 1 /\ <<a>>[1] = a
  OBVIOUS

LEMMA Tuple2 ==
  ASSUME NEW S, NEW a \in S, NEW b \in S
  PROVE  <<a, b>> \in Seq(S) /\ Len(<<a, b>>) = 2 /\ <<a, b>>[1] = a /\ <<a, b>>[2] = b
  OBVIOUS

LEMMA Tuple3 ==
  ASSUME NEW S, NEW a \in S, NEW b \in S, NEW c \in S
  PROVE  /\ <<a, b, c>> \in Seq(S) /\ Len(<<a, b, c>>) = 3
         /\ <<a, b, c>>[1] = a /\ <<a, b, c>>[2] = b /\ <<a, b, c>>[3] = c
  OBVIOUS

LEMMA Tuple5 ==
  ASSUME NEW S, NEW a \in S, NEW b \in S, NEW c \in S, NEW d \in S, NEW e \in S
  PROVE  <<a, b, c, d, e>> \in Seq(S)
  OBVIOUS

LEMMA RangeFacts ==
  ASSUME NEW S, NEW s \in Seq(S)
  PROVE  /\ Range(s) = {s[i] : i \in 1 .. Len(s)}
         /\ Range(s) \subseteq S
  BY RangeEquality, RangeOfSeq

-----------------------------------------------------------------------------
(* The types of the compiler's state                                       *)

\* What jumps, and what the other emitted instructions are.
Jumps == {"jmp", "jump if not", "enter if"}
StraightOps ==
    {"dbg", "expand", "contract", "push rdi", "pop rdi", "mov rax", "mov rax, local", "mov local, rax",
     "add rbx", "mov rcx, rax", "call", "call shim", "rep stos", "second", "second, swapped",
     "rax := F(rax, rcx)", "rax := F(rcx, rax)", "rax := F([rdi-8], rax)", "rax := F([rdi], rax)",
     "rax := F(rax, [rdi])", "add rdi", "xchg rax, [rdi]", "rax := G(rax)", "mov [rdi], rax",
     "rax := G([rdi])", "select", "add rsp", "ret"}

Entry == [dist : Nat, addr : Nat]
Instr == [op : StraightOps \cup Jumps \cup {"br table"}, n : Int, ts : Seq(Entry)]
Straight == [op : StraightOps, n : Int, ts : {<<>>}]

Bytecode == [op : PlainOps \cup {"block", "loop", "if", "else", "br", "br_if", "br_table", "return", "end"},
             n : Int, ts : Seq(Nat)]

OpenBlock == [kind : {"fn", "block", "loop", "if", "else"}, type : {"none", "empty_block", "value"},
              addr : Nat, rel : Seq(Nat), abs : SUBSET (Nat \X Nat), at : Nat, height : Int]

CompilerType ==
    /\ family \in Families
    /\ prog \in Seq(Bytecode)
    /\ code \in Seq(Instr)
    /\ blocks \in Seq(OpenBlock)
    /\ height \in Int

LEMMA EmptyTs == \A S : <<>> \in Seq(S) /\ Len(<<>>) = 0
  BY EmptySeq

LEMMA StraightIsInstr == Straight \subseteq Instr
<1>1. <<>> \in Seq(Entry)
  BY EmptyTs
<1> QED  BY <1>1 DEF Straight, Instr

LEMMA InsType ==
  ASSUME NEW op, NEW n \in Int
  PROVE  /\ op \in StraightOps => Ins(op, n) \in Straight
         /\ op \in StraightOps \cup Jumps => Ins(op, n) \in Instr
         /\ op \in PlainOps \cup {"block", "loop", "if", "else", "br", "br_if", "return", "end"} =>
               Ins(op, n) \in Bytecode
         /\ Ins(op, n).op = op /\ Ins(op, n).n = n /\ Ins(op, n).ts = <<>>
<1>1. <<>> \in Seq(Entry) /\ <<>> \in Seq(Nat)
  BY EmptyTs
<1> QED  BY <1>1 DEF Ins, Straight, Instr, Bytecode

\* The templates that are used by themselves, and every template of an opcode without control
\* flow, jump nowhere.
LEMMA FixedTemplates ==
  /\ _PushExpandStack \in Straight /\ _PopContractStack \in Straight
  /\ PushRdi \in Straight /\ PopRdi \in Straight
  /\ EnterBlock \in Seq(Straight) /\ Len(EnterBlock) = 2
<1>1. \A op \in StraightOps : Ins(op, 0) \in Straight
  BY InsType
<1>2. /\ _PushExpandStack \in Straight /\ _PopContractStack \in Straight
      /\ PushRdi \in Straight /\ PopRdi \in Straight
  BY <1>1 DEF _PushExpandStack, _PopContractStack, PushRdi, PopRdi, StraightOps
<1>3. EnterBlock \in Seq(Straight) /\ Len(EnterBlock) = 2
  BY <1>2, Tuple2 DEF EnterBlock
<1> QED  BY <1>2, <1>3

LEMMA LeaveBlockType ==
  ASSUME NEW b \in BOOLEAN
  PROVE  LeaveBlock(b) \in Seq(Straight) /\ Len(LeaveBlock(b)) = IF b THEN 1 ELSE 2
<1>1. <<PopRdi>> \in Seq(Straight) /\ Len(<<PopRdi>>) = 1
  BY FixedTemplates, Tuple1
<1>2. <<_PopContractStack>> \in Seq(Straight) /\ Len(<<_PopContractStack>>) = 1
  BY FixedTemplates, Tuple1
<1>3. <<>> \in Seq(Straight) /\ Len(<<>>) = 0
  BY EmptyTs
<1>4. CASE b
  BY <1>1, <1>3, <1>4, ConcatFacts DEF LeaveBlock
<1>5. CASE ~b
  BY <1>1, <1>2, <1>5, ConcatFacts DEF LeaveBlock
<1> QED  BY <1>4, <1>5

LEMMA FamilyFacts ==
  ASSUME family \in Families
  PROVE  /\ family.plain \subseteq PlainOps
         /\ M \in Nat \ {0} /\ MaxLen \in Nat
         /\ family.consts \subseteq Val
         /\ NArgs \in Nat /\ NLocals \in Nat /\ NArgs <= NLocals
         /\ FnArity \in {0, 1}
         /\ family.openers \subseteq {"block", "loop", "if"} \X {0, 1}
         /\ family.elses \subseteq {0, 1}
  BY StackCodeAssumption DEF M, MaxLen, Val, NArgs, NLocals, FnArity

LEMMA PlainInsFacts ==
  ASSUME family \in Families, NEW ins \in PlainIns
  PROVE  /\ ins \in Bytecode /\ ins.op \in PlainOps /\ ins.n \in Nat
         /\ Pops(ins) \in Nat /\ Pushes(ins) \in {0, 1}
<1>1. ins.op \in PlainOps /\ ins.n \in Nat /\ ins.ts = <<>>
      /\ ins = [op |-> ins.op, n |-> ins.n, ts |-> ins.ts]
  BY FamilyFacts DEF PlainIns, Val
<1>2. ins \in Bytecode
  <2>1. <<>> \in Seq(Nat)
    BY EmptyTs
  <2>2. [op |-> ins.op, n |-> ins.n, ts |-> ins.ts] \in Bytecode
    BY <1>1, <2>1 DEF Bytecode
  <2> QED  BY <1>1, <2>2
<1>3. Pops(ins) \in Nat
  BY DEF Pops
<1>4. ins.op \in {"call", "call_indirect"} => ins.n \in {0, 1}
  BY DEF PlainIns
<1>5. Pushes(ins) \in {0, 1}
  BY <1>4 DEF Pushes
<1> QED  BY <1>1, <1>2, <1>3, <1>5

LEMMA SetLocalType ==
  ASSUME NEW n \in Int
  PROVE  SetLocal(n, TRUE) \in Seq(Straight) /\ SetLocal(n, FALSE) \in Seq(Straight)
<1>1. Ins("mov local, rax", n) \in Straight
  BY InsType DEF StraightOps
<1>2. /\ <<Ins("mov local, rax", n)>> \in Seq(Straight)
      /\ <<_PopContractStack>> \in Seq(Straight) /\ <<>> \in Seq(Straight)
  BY <1>1, FixedTemplates, Tuple1, EmptyTs
<1> QED  BY <1>2, ConcatFacts DEF SetLocal

LEMMA CallType ==
  ASSUME family \in Families, NEW hasReturn \in BOOLEAN, NEW indirect \in BOOLEAN
  PROVE  CallIfn(hasReturn, indirect) \in Seq(Straight)
<1>1. NLocals \in Int /\ -NLocals \in Int
  BY FamilyFacts
<1>2. /\ Ins("add rbx", NLocals) \in Straight /\ Ins("add rbx", -NLocals) \in Straight
      /\ Ins("mov rcx, rax", 0) \in Straight
      /\ Ins("call", 0) \in Straight /\ Ins("call shim", 0) \in Straight
  <2>1. \A op \in StraightOps, n \in Int : Ins(op, n) \in Straight
    BY InsType
  <2>2. /\ "add rbx" \in StraightOps /\ "mov rcx, rax" \in StraightOps
        /\ "call" \in StraightOps /\ "call shim" \in StraightOps /\ 0 \in Int
    BY DEF StraightOps
  <2> QED  BY <1>1, <2>1, <2>2, Zenon
<1>3. SetLocal(1, TRUE) \in Seq(Straight) /\ SetLocal(0, TRUE) \in Seq(Straight)
  <2>1. \A n \in Int : SetLocal(n, TRUE) \in Seq(Straight)
    BY SetLocalType
  <2>2. 1 \in Int /\ 0 \in Int
    OBVIOUS
  <2> QED  BY <2>1, <2>2, Zenon
<1> DEFINE call == Ins(IF indirect THEN "call shim" ELSE "call", 0)
           a == <<Ins("add rbx", NLocals)>>
           b == IF indirect THEN <<Ins("mov rcx, rax", 0), _PopContractStack>> ELSE <<>>
           c == <<_PushExpandStack, PushRdi, call, PopRdi, Ins("add rbx", -NLocals)>>
           d == IF hasReturn THEN <<>> ELSE <<_PopContractStack>>
<1>4. call \in Straight
  BY <1>2
<1> HIDE DEF call
<1>5. a \in Seq(Straight) /\ b \in Seq(Straight) /\ c \in Seq(Straight) /\ d \in Seq(Straight)
  <2>1. a \in Seq(Straight)
    BY <1>2, Tuple1
  <2>2. b \in Seq(Straight)
    BY <1>2, FixedTemplates, Tuple2, EmptyTs
  <2>3. c \in Seq(Straight)
    BY <1>2, <1>4, FixedTemplates, Tuple5
  <2>4. d \in Seq(Straight)
    BY FixedTemplates, Tuple1, EmptyTs
  <2> QED  BY <2>1, <2>2, <2>3, <2>4
<1> HIDE DEF a, b, c, d
<1>6. a \o b \o SetLocal(1, TRUE) \o SetLocal(0, TRUE) \o c \o d \in Seq(Straight)
  <2>1. a \o b \in Seq(Straight)
    BY <1>5, ConcatFacts
  <2>2. a \o b \o SetLocal(1, TRUE) \in Seq(Straight)
    BY <2>1, <1>3, ConcatFacts
  <2>3. a \o b \o SetLocal(1, TRUE) \o SetLocal(0, TRUE) \in Seq(Straight)
    BY <2>2, <1>3, ConcatFacts
  <2>4. a \o b \o SetLocal(1, TRUE) \o SetLocal(0, TRUE) \o c \in Seq(Straight)
    BY <2>3, <1>5, ConcatFacts
  <2> QED  BY <2>4, <1>5, ConcatFacts
<1> QED  BY <1>6 DEF CallIfn, call, a, b, c, d

LEMMA TemplateType ==
  ASSUME family \in Families, NEW ins, ins.op \in PlainOps, ins.n \in Int
  PROVE  Template(ins) \in Seq(Straight)
<1>1. ins.op \in PlainOps /\ ins.n \in Int
  OBVIOUS
<1>2. \A op \in StraightOps : Ins(op, 0) \in Straight /\ Ins(op, ins.n) \in Straight /\ Ins(op, -1) \in Straight
  BY <1>1, InsType
<1>3. PushC(ins.n) \in Seq(Straight) /\ GetLocal(ins.n) \in Seq(Straight)
  BY <1>2, FixedTemplates, Tuple2 DEF PushC, GetLocal, StraightOps
<1>4. SetLocal(ins.n, TRUE) \in Seq(Straight) /\ SetLocal(ins.n, FALSE) \in Seq(Straight)
  BY <1>1, SetLocalType
<1>5. SwappedOp \in Seq(Straight) /\ UnswappedOp \in Seq(Straight)
  BY <1>2, Tuple2 DEF SwappedOp, UnswappedOp, StraightOps
<1>6. Mul \in Seq(Straight) /\ FloatOp \in Seq(Straight)
  BY <1>2, Tuple2 DEF Mul, FloatOp, StraightOps
<1>7. Div \in Seq(Straight) /\ Popcnt \in Seq(Straight)
  BY <1>2, Tuple2, Tuple3 DEF Div, Popcnt, StraightOps
<1>8. DoubleCompare \in Seq(Straight) /\ DoubleCompareSwapped \in Seq(Straight)
  BY <1>2, Tuple2 DEF DoubleCompare, DoubleCompareSwapped, StraightOps
<1>9. DoubleCompare \o DoubleCompareSwapped \in Seq(Straight)
  BY <1>8, ConcatFacts
<1>10. Convert \in Seq(Straight) /\ LoadMem \in Seq(Straight) /\ StoreMem \in Seq(Straight)
       /\ <<Ins("select", 0)>> \in Seq(Straight) /\ <<_PopContractStack>> \in Seq(Straight)
  BY <1>2, FixedTemplates, Tuple1 DEF Convert, LoadMem, StoreMem, StraightOps
<1>11. CallIfn(ins.n = 1, FALSE) \in Seq(Straight) /\ CallIfn(ins.n = 1, TRUE) \in Seq(Straight)
  BY CallType
<1> DEFINE P == Seq(Straight)
<1> HIDE DEF P
<1> QED  BY <1>1, <1>3, <1>4, <1>5, <1>6, <1>7, <1>8, <1>9, <1>10, <1>11
         DEF Template, PlainOps, Binary, Unary, P

-----------------------------------------------------------------------------
(* Fixups.  R holds the places of the jumps, and A the entries of the      *)
(* branch tables, that a block still has to patch.                         *)

RelOf(B) == UNION {Range(B[j].rel) : j \in 1 .. Len(B)}
AbsOf(B) == UNION {B[j].abs : j \in 1 .. Len(B)}

\* The instruction c at place i goes to a place up to m or is on a list.
AimedAt(c, i, m, R, A) ==
    /\ c.op \in Jumps => c.n \in 1 .. m \/ (c.n = 0 /\ i \in R)
    /\ \A k \in 1 .. Len(c.ts) : c.ts[k].addr \in 1 .. m \/ (c.ts[k].addr = 0 /\ <<i, k>> \in A)

\* So do the instructions s, the first of them after `off' others.
Aimed(s, off, m, R, A) == \A i \in 1 .. Len(s) : AimedAt(s[i], off + i, m, R, A)

LEMMA AimedConcat ==
  ASSUME NEW s \in Seq(Instr), NEW t \in Seq(Instr), NEW off \in Nat, NEW m \in Nat, NEW R, NEW A,
         Aimed(s, off, m, R, A), Aimed(t, off + Len(s), m, R, A)
  PROVE  /\ s \o t \in Seq(Instr)
         /\ Len(s \o t) = Len(s) + Len(t)
         /\ Aimed(s \o t, off, m, R, A)
<1>1. /\ s \o t \in Seq(Instr)
      /\ Len(s \o t) = Len(s) + Len(t)
      /\ \A i \in 1 .. Len(s) : (s \o t)[i] = s[i]
      /\ \A i \in 1 .. Len(t) : (s \o t)[Len(s) + i] = t[i]
  BY ConcatFacts
<1>2. Len(s) \in Nat /\ Len(t) \in Nat
  BY LenProperties
<1> DEFINE u == s \o t
<1> HIDE DEF u
<1>3. ASSUME NEW i \in 1 .. Len(u) PROVE AimedAt(u[i], off + i, m, R, A)
  <2>1. CASE i <= Len(s)
    <3>1. i \in 1 .. Len(s) /\ u[i] = s[i]
      BY <1>1, <1>2, <2>1 DEF u
    <3> QED  BY <3>1 DEF Aimed
  <2>2. CASE ~(i <= Len(s))
    <3> DEFINE k == i - Len(s)
    <3>1. k \in 1 .. Len(t) /\ i = Len(s) + k
      BY <1>1, <1>2, <2>2 DEF u
    <3> HIDE DEF k
    <3>2. u[i] = t[k]
      BY <1>1, <3>1 DEF u
    <3>3. AimedAt(t[k], off + Len(s) + k, m, R, A)
      BY <3>1 DEF Aimed
    <3>4. off + Len(s) + k = off + i
      BY <1>2, <3>1
    <3> QED  BY <3>2, <3>3, <3>4
  <2> QED  BY <2>1, <2>2
<1> QED  BY <1>1, <1>3 DEF Aimed, u

LEMMA AimedMonotonic ==
  ASSUME NEW s \in Seq(Instr), NEW off \in Nat, NEW m \in Nat, NEW R, NEW A, Aimed(s, off, m, R, A),
         NEW m1 \in Nat, NEW R1, NEW A1, m <= m1, R \subseteq R1, A \subseteq A1
  PROVE  Aimed(s, off, m1, R1, A1)
<1>1. 1 .. m \subseteq 1 .. m1
  OBVIOUS
<1> QED  BY <1>1 DEF Aimed, AimedAt

LEMMA AimedStraight ==
  ASSUME NEW s \in Seq(Straight), NEW off \in Nat, NEW m \in Nat, NEW R, NEW A
  PROVE  s \in Seq(Instr) /\ Aimed(s, off, m, R, A)
<1>1. s \in Seq(Instr)
  BY StraightIsInstr, SeqMonotonic
<1>2. ASSUME NEW i \in 1 .. Len(s) PROVE AimedAt(s[i], off + i, m, R, A)
  <2>1. s[i] \in Straight
    BY ElementOfSeq
  <2>2. s[i].op \notin Jumps /\ s[i].ts = <<>>
    BY <2>1 DEF Straight, StraightOps, Jumps
  <2>3. Len(s[i].ts) = 0
    BY <2>2, EmptyTs
  <2> QED  BY <2>2, <2>3 DEF AimedAt
<1> QED  BY <1>1, <1>2 DEF Aimed

LEMMA AimedOne ==
  ASSUME NEW c \in Instr, NEW off \in Nat, NEW m \in Nat, NEW R, NEW A, AimedAt(c, off + 1, m, R, A)
  PROVE  <<c>> \in Seq(Instr) /\ Len(<<c>>) = 1 /\ Aimed(<<c>>, off, m, R, A)
<1>1. <<c>> \in Seq(Instr) /\ Len(<<c>>) = 1 /\ <<c>>[1] = c
  BY Tuple1
<1> DEFINE s == <<c>>
<1> HIDE DEF s
<1>2. Aimed(s, off, m, R, A)
  <2>1. Len(s) = 1 /\ s[1] = c
    BY <1>1 DEF s
  <2> QED  BY <2>1 DEF Aimed
<1> QED  BY <1>1, <1>2 DEF s

LEMMA JumpAimed ==
  ASSUME NEW op \in Jumps, NEW n \in Nat, NEW i \in Nat, NEW m \in Nat, NEW R, NEW A,
         n \in 1 .. m \/ (n = 0 /\ i \in R)
  PROVE  Ins(op, n) \in Instr /\ AimedAt(Ins(op, n), i, m, R, A)
<1>1. /\ Ins(op, n) \in Instr
      /\ Ins(op, n).op = op /\ Ins(op, n).n = n /\ Ins(op, n).ts = <<>>
  BY InsType
<1>2. Len(<<>>) = 0
  BY EmptyTs
<1> QED  BY <1>1, <1>2 DEF AimedAt

LEMMA PatchAimed ==
  ASSUME NEW s \in Seq(Instr), NEW at, NEW m \in Nat, NEW target \in 1 .. m, NEW R, NEW A,
         Aimed(s, 0, m, R, A)
  PROVE  /\ Patch(s, at, target) \in Seq(Instr)
         /\ Len(Patch(s, at, target)) = Len(s)
         /\ Aimed(Patch(s, at, target), 0, m, R \ at, A)
<1> DEFINE n == Len(s)
           p == Patch(s, at, target)
<1>1. n \in Nat /\ \A i \in 1 .. n : s[i] \in Instr
  BY ElementOfSeq, LenProperties
<1>2. \A i \in 1 .. n : p[i] = IF i \in at THEN [s[i] EXCEPT !.n = target] ELSE s[i]
  BY DEF Patch
<1>3. ASSUME NEW i \in 1 .. n
      PROVE  p[i] \in Instr /\ AimedAt(p[i], i, m, R \ at, A)
  <2>1. s[i] \in Instr /\ target \in Int
    BY <1>1
  <2>2. AimedAt(s[i], 0 + i, m, R, A) /\ 0 + i = i
    BY <1>1 DEF Aimed
  <2>3. CASE i \in at
    <3>1. p[i] = [s[i] EXCEPT !.n = target]
      BY <1>2, <2>3
    <3>2. /\ [s[i] EXCEPT !.n = target] \in Instr
          /\ [s[i] EXCEPT !.n = target].n = target
          /\ [s[i] EXCEPT !.n = target].op = s[i].op
          /\ [s[i] EXCEPT !.n = target].ts = s[i].ts
      BY <2>1 DEF Instr
    <3> HIDE DEF p
    <3>3. p[i] \in Instr /\ p[i].n \in 1 .. m /\ p[i].ts = s[i].ts
      BY <3>1, <3>2
    <3> QED  BY <3>3, <2>2 DEF AimedAt
  <2>4. CASE i \notin at
    <3>1. p[i] = s[i]
      BY <1>2, <2>4
    <3> HIDE DEF p
    <3> QED  BY <2>1, <2>2, <2>4, <3>1 DEF AimedAt
  <2> QED  BY <2>3, <2>4
<1>4. p \in [1 .. n -> Instr]
  <2>1. p = [i \in 1 .. n |-> IF i \in at THEN [s[i] EXCEPT !.n = target] ELSE s[i]]
    BY DEF Patch
  <2> HIDE DEF p, n
  <2> QED  BY <2>1, <1>3, <1>2
<1>5. p \in Seq(Instr) /\ Len(p) = n
  BY <1>1, <1>4, SeqElements
<1>6. Aimed(p, 0, m, R \ at, A)
  <2> SUFFICES ASSUME NEW i \in 1 .. Len(p) PROVE AimedAt(p[i], 0 + i, m, R \ at, A)
    BY DEF Aimed
  <2> HIDE DEF p, n
  <2>1. i \in 1 .. n /\ 0 + i = i
    BY <1>1, <1>5
  <2>2. AimedAt(p[i], i, m, R \ at, A)
    BY <1>3, <2>1
  <2> QED  BY <2>1, <2>2
<1> QED  BY <1>5, <1>6

-----------------------------------------------------------------------------
(* The invariant that makes AllPatched inductive.  While the compiler runs *)
(* every jump and every table entry it has emitted goes to a place it has  *)
(* emitted, or to the next one, or is on the list of an open block; an `if'*)
(* whose else has not been seen still holds its own jz; and when the       *)
(* function is finished the lists are gone.                                *)

BlocksOK ==
    \A j \in 1 .. Len(blocks) :
        /\ blocks[j].addr <= Len(code) + 1
        /\ blocks[j].kind = "if" => Len(blocks[j].rel) >= 1

PatchInv ==
    /\ CompilerType
    /\ phase = "compile" =>
          /\ Len(blocks) >= 1
          /\ BlocksOK
          /\ Aimed(code, 0, Len(code) + 1, RelOf(blocks), AbsOf(blocks))
    /\ phase # "compile" => Aimed(code, 0, Len(code), {}, {})

LEMMA BlockType ==
  ASSUME NEW b \in OpenBlock
  PROVE  /\ b.addr \in Nat /\ b.rel \in Seq(Nat) /\ Len(b.rel) \in Nat
         /\ b.abs \subseteq Nat \X Nat /\ b.height \in Int /\ b.at \in Nat
         /\ Range(b.rel) \subseteq Nat
         /\ \A r \in Seq(Nat) : /\ [b EXCEPT !.rel = r] \in OpenBlock
                                /\ [b EXCEPT !.rel = r].rel = r
                                /\ [b EXCEPT !.rel = r].abs = b.abs
                                /\ [b EXCEPT !.rel = r].addr = b.addr
                                /\ [b EXCEPT !.rel = r].kind = b.kind
<1>1. b.addr \in Nat /\ b.rel \in Seq(Nat) /\ b.abs \subseteq Nat \X Nat /\ b.height \in Int /\ b.at \in Nat
  BY DEF OpenBlock
<1>2. Len(b.rel) \in Nat /\ Range(b.rel) \subseteq Nat
  BY <1>1, LenProperties, RangeFacts
<1>3. \A r \in Seq(Nat) : /\ [b EXCEPT !.rel = r] \in OpenBlock
                          /\ [b EXCEPT !.rel = r].rel = r
                          /\ [b EXCEPT !.rel = r].abs = b.abs
                          /\ [b EXCEPT !.rel = r].addr = b.addr
                          /\ [b EXCEPT !.rel = r].kind = b.kind
  BY DEF OpenBlock
<1> QED  BY <1>1, <1>2, <1>3

LEMMA ArityFacts ==
  ASSUME family \in Families, NEW b \in OpenBlock
  PROVE  Arity(b) \in {0, 1} /\ LabelArity(b) \in {0, 1}
  BY FamilyFacts DEF Arity, LabelArity

LEMMA TargetFacts ==
  ASSUME CompilerType, Len(blocks) >= 1, NEW d \in Depths
  PROVE  /\ Len(blocks) \in Nat /\ d \in Nat /\ Len(blocks) - d \in 1 .. Len(blocks)
         /\ Target(d) \in OpenBlock /\ Top \in OpenBlock
         /\ Top = blocks[Len(blocks)]
<1>1. blocks \in Seq(OpenBlock) /\ Len(blocks) \in Nat
  BY LenProperties DEF CompilerType
<1>2. d \in Nat /\ Len(blocks) - d \in 1 .. Len(blocks) /\ Len(blocks) \in 1 .. Len(blocks)
  BY <1>1 DEF Depths
<1>3. Top = blocks[Len(blocks)]
  BY DEF Top, Last
<1> QED  BY <1>1, <1>2, <1>3, ElementOfSeq DEF Target

\* Appending an instruction and its template.
LEMMA EmitAimed ==
  ASSUME PatchInv, phase = "compile",
         NEW ins \in Bytecode, NEW body \in Seq(Instr), Emit(ins, body),
         NEW R, NEW A, RelOf(blocks) \subseteq R, AbsOf(blocks) \subseteq A,
         Aimed(body, Len(code) + 1, Len(code) + Len(body) + 2, R, A)
  PROVE  /\ prog' \in Seq(Bytecode)
         /\ code' \in Seq(Instr)
         /\ Len(code) \in Nat
         /\ Len(code') = Len(code) + 1 + Len(body)
         /\ Aimed(code', 0, Len(code') + 1, R, A)
<1> USE DEF PatchInv, CompilerType
<1>1. prog \in Seq(Bytecode) /\ code \in Seq(Instr) /\ Len(prog) \in Nat /\ Len(code) \in Nat /\ Len(body) \in Nat
  BY LenProperties
<1>2. Aimed(code, 0, Len(code) + 1, RelOf(blocks), AbsOf(blocks))
  OBVIOUS
<1> HIDE DEF PatchInv, CompilerType
<1> DEFINE L == Len(code)
           m == L + Len(body) + 2
           dbg == <<Ins("dbg", Here)>>
<1>3. prog' = Append(prog, ins) /\ code' = code \o dbg \o body
  BY DEF Emit
<1>4. prog' \in Seq(Bytecode)
  BY <1>1, <1>3, AppendFacts
<1>5. m \in Nat /\ L + 1 <= m /\ L \in Nat
  BY <1>1
<1>6. Aimed(code, 0, m, R, A)
  BY <1>1, <1>2, <1>5, AimedMonotonic
<1>7. dbg \in Seq(Instr) /\ Len(dbg) = 1 /\ Aimed(dbg, L, m, R, A)
  <2>1. Here \in Int
    BY <1>1 DEF Here
  <2>2. Ins("dbg", Here) \in Straight
    BY <2>1, InsType DEF StraightOps
  <2>3. dbg \in Seq(Straight) /\ Len(dbg) = 1
    BY <2>2, Tuple1
  <2> HIDE DEF dbg, m, L
  <2> QED  BY <2>3, <1>5, AimedStraight
<1>8. /\ code \o dbg \in Seq(Instr) /\ Len(code \o dbg) = L + 1
      /\ Aimed(code \o dbg, 0, m, R, A)
  <2>1. Aimed(dbg, 0 + Len(code), m, R, A)
    BY <1>1, <1>7
  <2> HIDE DEF dbg, m
  <2> QED  BY <1>1, <1>5, <1>6, <1>7, <2>1, AimedConcat
<1>9. /\ code' \in Seq(Instr) /\ Len(code') = L + 1 + Len(body)
      /\ Aimed(code', 0, m, R, A)
  <2>1. Aimed(body, 0 + Len(code \o dbg), m, R, A)
    BY <1>1, <1>8
  <2> HIDE DEF dbg, m, L
  <2> QED  BY <1>3, <1>5, <1>8, <2>1, AimedConcat
<1>10. m = Len(code') + 1
  BY <1>1, <1>9
<1> HIDE DEF m
<1> QED  BY <1>1, <1>4, <1>9, <1>10

\* The step that follows when no block changes and the template jumps nowhere.
LEMMA StraightStep ==
  ASSUME PatchInv, phase = "compile", phase' = phase, family' = family, blocks' = blocks,
         NEW ins \in Bytecode, NEW body \in Seq(Straight), Emit(ins, body), height' \in Int
  PROVE  PatchInv'
<1> DEFINE R == RelOf(blocks)
           A == AbsOf(blocks)
<1>1. Len(code) \in Nat /\ Len(body) \in Nat
  BY LenProperties DEF PatchInv, CompilerType
<1>2. body \in Seq(Instr) /\ Aimed(body, Len(code) + 1, Len(code) + Len(body) + 2, R, A)
  <2>1. Len(code) + 1 \in Nat /\ Len(code) + Len(body) + 2 \in Nat
    BY <1>1
  <2> HIDE DEF R, A
  <2> QED  BY <2>1, AimedStraight
<1>3. /\ prog' \in Seq(Bytecode) /\ code' \in Seq(Instr)
      /\ Len(code') = Len(code) + 1 + Len(body)
      /\ Aimed(code', 0, Len(code') + 1, R, A)
  BY <1>2, EmitAimed
<1>4. CompilerType'
  BY <1>3 DEF PatchInv, CompilerType
<1>5. BlocksOK'
  <2>1. Len(code) + 1 <= Len(code') + 1
    BY <1>1, <1>3
  <2>2. \A j \in 1 .. Len(blocks) : blocks[j].addr \in Nat
    BY BlockType, ElementOfSeq DEF PatchInv, CompilerType
  <2> QED  BY <2>1, <2>2, <1>1, <1>3 DEF PatchInv, BlocksOK
<1> QED  BY <1>3, <1>4, <1>5 DEF PatchInv

LEMMA PlainStep ==
  ASSUME PatchInv, family' = family, NEW ins \in PlainIns, CompilePlain(ins)
  PROVE  PatchInv'
<1>1. phase = "compile" /\ phase' = phase /\ blocks' = blocks /\ Emit(ins, Template(ins))
  BY DEF CompilePlain, CanCompile
<1>2. family \in Families /\ height \in Int
  BY DEF PatchInv, CompilerType
<1>3. ins \in Bytecode /\ Template(ins) \in Seq(Straight)
  <2>1. ins \in Bytecode /\ ins.op \in PlainOps /\ ins.n \in Int
    BY <1>2, PlainInsFacts
  <2> QED  BY <1>2, <2>1, TemplateType
<1>4. height' \in Int
  <2>1. Pops(ins) \in Nat /\ Pushes(ins) \in {0, 1}
    BY <1>2, PlainInsFacts
  <2>2. height' = height - Pops(ins) + Pushes(ins)
    BY DEF CompilePlain
  <2> QED  BY <1>2, <2>1, <2>2
<1> QED  BY <1>1, <1>3, <1>4, StraightStep

LEMMA ReturnStep ==
  ASSUME PatchInv, family' = family, CompileReturn
  PROVE  PatchInv'
<1>1. phase = "compile" /\ phase' = phase /\ blocks' = blocks /\ height' = height
      /\ Emit(Ins("return", 0), <<Ins("add rsp", Len(blocks)), Ins("ret", 0)>>)
  BY DEF CompileReturn, CanCompile
<1>2. Len(blocks) \in Int /\ height \in Int
  BY LenProperties DEF PatchInv, CompilerType
<1>3. Ins("return", 0) \in Bytecode
  BY InsType
<1>4. <<Ins("add rsp", Len(blocks)), Ins("ret", 0)>> \in Seq(Straight)
  <2>1. \A op \in StraightOps, n \in Int : Ins(op, n) \in Straight
    BY InsType
  <2>2. "add rsp" \in StraightOps /\ "ret" \in StraightOps /\ 0 \in Int
    BY DEF StraightOps
  <2>3. Ins("add rsp", Len(blocks)) \in Straight /\ Ins("ret", 0) \in Straight
    BY <1>2, <2>1, <2>2, Zenon
  <2> QED  BY <2>3, Tuple2
<1> QED  BY <1>1, <1>2, <1>3, <1>4, StraightStep

\* Opening a block keeps the lists of the others.
LEMMA OpenKeeps ==
  ASSUME blocks \in Seq(OpenBlock), NEW b \in OpenBlock, blocks' = Append(blocks, b)
  PROVE  /\ blocks' \in Seq(OpenBlock) /\ Len(blocks') = Len(blocks) + 1 /\ Len(blocks) \in Nat
         /\ \A j \in 1 .. Len(blocks) : blocks'[j] = blocks[j]
         /\ blocks'[Len(blocks) + 1] = b
         /\ RelOf(blocks) \subseteq RelOf(blocks') /\ Range(b.rel) \subseteq RelOf(blocks')
         /\ AbsOf(blocks) \subseteq AbsOf(blocks')
<1>1. /\ blocks' \in Seq(OpenBlock) /\ Len(blocks') = Len(blocks) + 1
      /\ \A j \in 1 .. Len(blocks) : blocks'[j] = blocks[j]
      /\ blocks'[Len(blocks) + 1] = b
  BY AppendFacts
<1>2. Len(blocks) \in Nat
  BY LenProperties
<1>3. 1 .. Len(blocks) \subseteq 1 .. Len(blocks') /\ Len(blocks) + 1 \in 1 .. Len(blocks')
  BY <1>1, <1>2
<1>4. \A j \in 1 .. Len(blocks) : blocks[j].rel = blocks'[j].rel /\ blocks[j].abs = blocks'[j].abs
  BY <1>1
<1>5. Range(b.rel) \subseteq RelOf(blocks')
  BY <1>1, <1>3 DEF RelOf
<1> QED  BY <1>1, <1>2, <1>3, <1>4, <1>5 DEF RelOf, AbsOf

\* What every step that opens a block shows once its template is known to be on the lists.
LEMMA OpenStep ==
  ASSUME PatchInv, phase = "compile", phase' = phase, family' = family, height' \in Int,
         NEW b \in OpenBlock, blocks' = Append(blocks, b),
         NEW ins \in Bytecode, NEW body \in Seq(Instr), Emit(ins, body),
         Aimed(body, Len(code) + 1, Len(code) + Len(body) + 2, RelOf(blocks'), AbsOf(blocks')),
         b.addr <= Len(code) + Len(body) + 2, b.kind = "if" => Len(b.rel) >= 1
  PROVE  PatchInv'
<1>1. blocks \in Seq(OpenBlock) /\ Len(body) \in Nat
  BY LenProperties DEF PatchInv, CompilerType
<1>2. /\ blocks' \in Seq(OpenBlock) /\ Len(blocks') = Len(blocks) + 1 /\ Len(blocks) \in Nat
      /\ \A j \in 1 .. Len(blocks) : blocks'[j] = blocks[j]
      /\ blocks'[Len(blocks) + 1] = b
      /\ RelOf(blocks) \subseteq RelOf(blocks') /\ AbsOf(blocks) \subseteq AbsOf(blocks')
  BY <1>1, OpenKeeps
<1>3. /\ prog' \in Seq(Bytecode) /\ code' \in Seq(Instr) /\ Len(code) \in Nat
      /\ Len(code') = Len(code) + 1 + Len(body)
      /\ Aimed(code', 0, Len(code') + 1, RelOf(blocks'), AbsOf(blocks'))
  <2> DEFINE R == RelOf(blocks')
             A == AbsOf(blocks')
  <2>1. RelOf(blocks) \subseteq R /\ AbsOf(blocks) \subseteq A
        /\ Aimed(body, Len(code) + 1, Len(code) + Len(body) + 2, R, A)
    BY <1>2
  <2> HIDE DEF R, A
  <2>2. /\ prog' \in Seq(Bytecode) /\ code' \in Seq(Instr) /\ Len(code) \in Nat
        /\ Len(code') = Len(code) + 1 + Len(body)
        /\ Aimed(code', 0, Len(code') + 1, R, A)
    BY <2>1, EmitAimed
  <2> QED  BY <2>2 DEF R, A
<1>4. CompilerType'
  BY <1>2, <1>3 DEF PatchInv, CompilerType
<1>5. BlocksOK'
  <2> SUFFICES ASSUME NEW j \in 1 .. Len(blocks')
               PROVE  /\ blocks'[j].addr <= Len(code') + 1
                      /\ blocks'[j].kind = "if" => Len(blocks'[j].rel) >= 1
    BY DEF BlocksOK
  <2>1. CASE j \in 1 .. Len(blocks)
    <3>1. blocks'[j] = blocks[j] /\ blocks[j] \in OpenBlock
      BY <1>1, <1>2, <2>1, ElementOfSeq
    <3>2. blocks[j].addr \in Nat /\ blocks[j].addr <= Len(code) + 1
          /\ (blocks[j].kind = "if" => Len(blocks[j].rel) >= 1)
      BY <2>1, <3>1, BlockType DEF PatchInv, BlocksOK
    <3> QED  BY <1>1, <1>3, <3>1, <3>2
  <2>2. CASE j = Len(blocks) + 1
    <3>1. blocks'[j] = b
      BY <1>2, <2>2
    <3>2. b.addr <= Len(code') + 1
      BY <1>1, <1>3
    <3> QED  BY <3>1, <3>2
  <2> QED  BY <1>2, <2>1, <2>2
<1>6. Len(blocks') >= 1
  BY <1>2
<1> QED  BY <1>3, <1>4, <1>5, <1>6 DEF PatchInv

LEMMA BlockRecord ==
  ASSUME NEW kind \in {"fn", "block", "loop", "if", "else"}, NEW type \in {"none", "empty_block", "value"},
         NEW addr \in Nat, NEW rel \in Seq(Nat), NEW at \in Nat, NEW h \in Int
  PROVE  /\ Block(kind, type, addr, rel, at, h) \in OpenBlock
         /\ Block(kind, type, addr, rel, at, h).rel = rel
         /\ Block(kind, type, addr, rel, at, h).addr = addr
         /\ Block(kind, type, addr, rel, at, h).kind = kind
  BY DEF Block, OpenBlock

LEMMA BlockStep ==
  ASSUME PatchInv, family' = family, NEW kind \in {"block", "loop"}, NEW arity \in {0, 1},
         CompileBlock(kind, arity)
  PROVE  PatchInv'
<1> DEFINE addr == IF kind = "loop" THEN Cur ELSE 0
           type == TypeOf(arity)
           b == Block(kind, type, addr, <<>>, Here, height)
           ins == Ins(kind, arity)
<1>1. /\ phase = "compile" /\ phase' = phase /\ height' = height
      /\ blocks' = Append(blocks, b) /\ Emit(ins, EnterBlock)
  BY DEF CompileBlock, CanCompile
<1>2. Len(code) \in Nat /\ Len(prog) \in Nat /\ height \in Int
  BY LenProperties DEF PatchInv, CompilerType
<1>3. addr \in Nat /\ addr <= Len(code) + 2 /\ Here \in Nat
  BY <1>2 DEF Cur, Here
<1>4. type \in {"none", "empty_block", "value"}
  BY DEF TypeOf
<1>5. <<>> \in Seq(Nat)
  BY EmptyTs
<1> HIDE DEF addr, type
<1>6. b \in OpenBlock /\ b.addr = addr /\ b.kind = kind
  <2>1. kind \in {"fn", "block", "loop", "if", "else"}
    OBVIOUS
  <2> QED  BY <1>2, <1>3, <1>4, <1>5, <2>1 DEF Block, OpenBlock
<1>7. ins \in Bytecode
  BY InsType
<1>8. /\ EnterBlock \in Seq(Instr) /\ Len(EnterBlock) = 2
      /\ Aimed(EnterBlock, Len(code) + 1, Len(code) + Len(EnterBlock) + 2, RelOf(blocks'), AbsOf(blocks'))
  <2> DEFINE R == RelOf(blocks')
             A == AbsOf(blocks')
             o == Len(code) + 1
             m == Len(code) + Len(EnterBlock) + 2
  <2>1. EnterBlock \in Seq(Straight) /\ Len(EnterBlock) = 2
    BY FixedTemplates
  <2>2. o \in Nat /\ m \in Nat
    BY <1>2, <2>1
  <2> HIDE DEF R, A, o, m
  <2>3. EnterBlock \in Seq(Instr) /\ Aimed(EnterBlock, o, m, R, A)
    BY <2>1, <2>2, AimedStraight
  <2> QED  BY <2>1, <2>3 DEF R, A, o, m
<1> HIDE DEF b, ins
<1>9. b.addr <= Len(code) + Len(EnterBlock) + 2 /\ b.kind # "if"
  BY <1>2, <1>3, <1>6, <1>8
<1> QED  BY <1>1, <1>2, <1>6, <1>7, <1>8, <1>9, OpenStep

LEMMA IfStep ==
  ASSUME PatchInv, family' = family, NEW arity \in {0, 1}, CompileIf(arity)
  PROVE  PatchInv'
<1> DEFINE type == TypeOf(arity)
           rel == <<Cur>>
           b == Block("if", type, 0, rel, Here, height - 1)
           ins == Ins("if", arity)
           jz == <<Ins("enter if", 0)>>
           body == jz \o EnterBlock
           R == RelOf(blocks')
           A == AbsOf(blocks')
           L == Len(code)
<1>1. /\ phase = "compile" /\ phase' = phase /\ height' = height - 1
      /\ blocks' = Append(blocks, b) /\ Emit(ins, body)
  BY DEF CompileIf, CanCompile
<1>2. L \in Nat /\ Len(prog) \in Nat /\ height \in Int /\ blocks \in Seq(OpenBlock)
  BY LenProperties DEF PatchInv, CompilerType
<1>3. rel \in Seq(Nat) /\ Len(rel) = 1 /\ Cur \in Range(rel) /\ Here \in Nat
  <2>1. Cur \in Nat /\ Here \in Nat
    BY <1>2 DEF Cur, Here
  <2>2. rel \in Seq(Nat) /\ Len(rel) = 1 /\ rel[1] = Cur
    BY <2>1, Tuple1
  <2> HIDE DEF rel
  <2> QED  BY <2>1, <2>2, RangeFacts
<1>4. type \in {"none", "empty_block", "value"}
  BY DEF TypeOf
<1> HIDE DEF type, rel
<1>5. b \in OpenBlock /\ b.addr = 0 /\ b.rel = rel
  BY <1>2, <1>3, <1>4 DEF Block, OpenBlock
<1>6. ins \in Bytecode
  BY InsType
<1> HIDE DEF b, ins
<1>7. Cur \in R
  BY <1>1, <1>2, <1>3, <1>5, OpenKeeps
<1> HIDE DEF R, A
<1>8. body \in Seq(Instr) /\ Len(body) = 3 /\ Aimed(body, L + 1, L + 5, R, A)
  <2>1. L + 1 \in Nat /\ L + 5 \in Nat /\ L + 1 + 1 = Cur /\ L + 1 + 1 \in Nat
    BY <1>2 DEF Cur
  <2>2. \A op \in Jumps : L + 1 + 1 \in R =>
            Ins(op, 0) \in Instr /\ AimedAt(Ins(op, 0), L + 1 + 1, L + 5, R, A)
    <3>1. 0 \in Nat
      OBVIOUS
    <3> HIDE DEF L
    <3> QED  BY <2>1, <3>1, JumpAimed
  <2>3. Ins("enter if", 0) \in Instr /\ AimedAt(Ins("enter if", 0), L + 1 + 1, L + 5, R, A)
    BY <1>7, <2>1, <2>2 DEF Jumps
  <2> HIDE DEF L
  <2>4. jz \in Seq(Instr) /\ Len(jz) = 1 /\ Aimed(jz, L + 1, L + 5, R, A)
    BY <2>1, <2>3, AimedOne
  <2>5. EnterBlock \in Seq(Straight) /\ Len(EnterBlock) = 2
    BY FixedTemplates
  <2>6. L + 1 + Len(jz) \in Nat
    BY <2>1, <2>4
  <2>7. EnterBlock \in Seq(Instr) /\ Aimed(EnterBlock, L + 1 + Len(jz), L + 5, R, A)
    BY <2>1, <2>5, <2>6, AimedStraight
  <2> HIDE DEF jz
  <2>8. body \in Seq(Instr) /\ Len(body) = Len(jz) + Len(EnterBlock) /\ Aimed(body, L + 1, L + 5, R, A)
    BY <2>1, <2>4, <2>7, AimedConcat
  <2> QED  BY <2>4, <2>5, <2>8
<1> HIDE DEF body
<1>9. L + Len(body) + 2 = L + 5 /\ b.addr <= L + Len(body) + 2 /\ height' \in Int
  BY <1>1, <1>2, <1>5, <1>8
<1>10. Aimed(body, L + 1, L + Len(body) + 2, R, A)
  BY <1>8, <1>9
<1>11. b.kind = "if" => Len(b.rel) >= 1
  <2>1. Len(b.rel) = Len(rel) /\ Len(rel) = 1
    BY <1>3, <1>5, Zenon
  <2> QED  BY <2>1
<1>12. /\ Aimed(body, Len(code) + 1, Len(code) + Len(body) + 2, RelOf(blocks'), AbsOf(blocks'))
       /\ b.addr <= Len(code) + Len(body) + 2
  BY <1>9, <1>10 DEF R, A, L
<1> QED  BY <1>1, <1>5, <1>6, <1>8, <1>9, <1>11, <1>12, OpenStep

-----------------------------------------------------------------------------
(* Branches                                                                *)

\* A fixup is kept by the block that has to patch it.
LEMMA FixupFacts ==
  ASSUME CompilerType, Len(blocks) >= 1, NEW d \in Depths, NEW pos \in Nat, blocks' = AddFixup(d, pos)
  PROVE  /\ blocks' \in Seq(OpenBlock) /\ Len(blocks') = Len(blocks)
         /\ \A j \in 1 .. Len(blocks) :
               /\ blocks'[j].addr = blocks[j].addr /\ blocks'[j].kind = blocks[j].kind
               /\ blocks'[j].abs = blocks[j].abs
               /\ Len(blocks'[j].rel) >= Len(blocks[j].rel)
         /\ RelOf(blocks) \subseteq RelOf(blocks') /\ AbsOf(blocks) \subseteq AbsOf(blocks')
         /\ Target(d).addr \in Nat
         /\ Target(d).addr = 0 => pos \in RelOf(blocks')
<1>1. /\ Len(blocks) \in Nat /\ Len(blocks) - d \in 1 .. Len(blocks)
      /\ Target(d) \in OpenBlock /\ Target(d) = blocks[Len(blocks) - d]
      /\ blocks \in Seq(OpenBlock)
  BY TargetFacts DEF Target, CompilerType
<1> DEFINE t == Len(blocks) - d
           r == Append(blocks[t].rel, pos)
           b == [blocks[t] EXCEPT !.rel = r]
<1>2. \A j \in 1 .. Len(blocks) : /\ blocks[j] \in OpenBlock /\ blocks[j].rel \in Seq(Nat)
                                  /\ Len(blocks[j].rel) \in Nat /\ blocks[j].addr \in Nat
  BY <1>1, ElementOfSeq, BlockType
<1>3. CASE Target(d).addr # 0
  <2>1. blocks' = blocks
    BY <1>3 DEF AddFixup
  <2>2. \A j \in 1 .. Len(blocks) : Len(blocks[j].rel) >= Len(blocks[j].rel)
    BY <1>2
  <2> QED  BY <1>1, <1>2, <1>3, <2>1, <2>2
<1>4. CASE Target(d).addr = 0
  <2>1. blocks[t].rel \in Seq(Nat) /\ Len(blocks[t].rel) \in Nat /\ t \in 1 .. Len(blocks)
        /\ blocks[t] \in OpenBlock
    BY <1>1, <1>2
  <2>2. blocks' = [blocks EXCEPT ![t] = b]
    BY <1>4 DEF AddFixup
  <2>3. r \in Seq(Nat) /\ Len(r) = Len(blocks[t].rel) + 1
        /\ Range(blocks[t].rel) \subseteq Range(r) /\ pos \in Range(r)
    <3>1. /\ r \in Seq(Nat) /\ Len(r) = Len(blocks[t].rel) + 1
          /\ \A i \in 1 .. Len(blocks[t].rel) : r[i] = blocks[t].rel[i]
          /\ r[Len(blocks[t].rel) + 1] = pos
      BY <2>1, AppendFacts
    <3>2. 1 .. Len(blocks[t].rel) \subseteq 1 .. Len(r) /\ Len(blocks[t].rel) + 1 \in 1 .. Len(r)
      BY <2>1, <3>1
    <3> HIDE DEF r, t
    <3>3. Range(r) = {r[i] : i \in 1 .. Len(r)}
      BY <3>1, RangeFacts
    <3>4. Range(blocks[t].rel) = {blocks[t].rel[i] : i \in 1 .. Len(blocks[t].rel)}
      BY <2>1, RangeFacts
    <3> QED  BY <3>1, <3>2, <3>3, <3>4
  <2> HIDE DEF r
  <2>4. b \in OpenBlock /\ b.rel = r /\ b.addr = blocks[t].addr /\ b.kind = blocks[t].kind
        /\ b.abs = blocks[t].abs
    BY <2>1, <2>3, BlockType
  <2> HIDE DEF b, t
  <2>5. /\ blocks' \in Seq(OpenBlock) /\ Len(blocks') = Len(blocks)
        /\ \A j \in 1 .. Len(blocks) : blocks'[j] = IF j = t THEN b ELSE blocks[j]
    BY <1>1, <2>1, <2>2, <2>4, ExceptSeq
  <2>6. \A j \in 1 .. Len(blocks) : Range(blocks[j].rel) \subseteq Range(blocks'[j].rel)
                                    /\ blocks[j].abs = blocks'[j].abs
    BY <2>3, <2>4, <2>5
  <2>7. RelOf(blocks) \subseteq RelOf(blocks') /\ AbsOf(blocks) \subseteq AbsOf(blocks')
    BY <2>5, <2>6 DEF RelOf, AbsOf
  <2>8. pos \in RelOf(blocks')
    BY <2>1, <2>3, <2>4, <2>5 DEF RelOf
  <2>9. \A j \in 1 .. Len(blocks) : Len(blocks'[j].rel) >= Len(blocks[j].rel)
    BY <1>2, <2>1, <2>3, <2>4, <2>5
  <2> QED  BY <1>1, <1>2, <1>4, <2>1, <2>4, <2>5, <2>6, <2>7, <2>8, <2>9
<1> QED  BY <1>3, <1>4

LEMMA LeaveToType ==
  ASSUME CompilerType, Len(blocks) >= 1, NEW d \in Depths
  PROVE  LeaveTo(d) \in Seq(Straight) /\ Len(LeaveTo(d)) \in Nat
<1> DEFINE pops == [i \in 1 .. d |-> PopRdi]
           b == Target(d).type # "empty_block"
<1>1. d \in Nat /\ b \in BOOLEAN
  BY TargetFacts
<1>2. pops \in Seq(Straight)
  <2>1. pops \in [1 .. d -> Straight]
    BY FixedTemplates
  <2> HIDE DEF pops
  <2> QED  BY <1>1, <2>1, SeqElements
<1>3. LeaveBlock(b) \in Seq(Straight)
  <2> HIDE DEF b
  <2> QED  BY <1>1, LeaveBlockType
<1> HIDE DEF pops, b
<1>4. pops \o LeaveBlock(b) \in Seq(Straight)
  BY <1>2, <1>3, ConcatFacts
<1>5. LeaveTo(d) \in Seq(Straight)
  BY <1>4 DEF LeaveTo, pops, b
<1> QED  BY <1>5, LenProperties

\* What br and br_if show: the steps that append a fixup.
LEMMA FixupStep ==
  ASSUME PatchInv, phase = "compile", phase' = phase, family' = family, height' \in Int,
         NEW d \in Depths, NEW pos \in Nat, blocks' = AddFixup(d, pos),
         NEW ins \in Bytecode, NEW body \in Seq(Instr), Emit(ins, body),
         Aimed(body, Len(code) + 1, Len(code) + Len(body) + 2, RelOf(blocks'), AbsOf(blocks'))
  PROVE  PatchInv'
<1>1. CompilerType /\ Len(blocks) >= 1 /\ Len(body) \in Nat
  BY LenProperties DEF PatchInv
<1>2. /\ blocks' \in Seq(OpenBlock) /\ Len(blocks') = Len(blocks)
      /\ \A j \in 1 .. Len(blocks) :
            /\ blocks'[j].addr = blocks[j].addr /\ blocks'[j].kind = blocks[j].kind
            /\ blocks'[j].abs = blocks[j].abs
            /\ Len(blocks'[j].rel) >= Len(blocks[j].rel)
      /\ RelOf(blocks) \subseteq RelOf(blocks') /\ AbsOf(blocks) \subseteq AbsOf(blocks')
  BY <1>1, FixupFacts
<1>3. /\ prog' \in Seq(Bytecode) /\ code' \in Seq(Instr) /\ Len(code) \in Nat
      /\ Len(code') = Len(code) + 1 + Len(body)
      /\ Aimed(code', 0, Len(code') + 1, RelOf(blocks'), AbsOf(blocks'))
  <2> DEFINE R == RelOf(blocks')
             A == AbsOf(blocks')
  <2>1. RelOf(blocks) \subseteq R /\ AbsOf(blocks) \subseteq A
        /\ Aimed(body, Len(code) + 1, Len(code) + Len(body) + 2, R, A)
    BY <1>2
  <2> HIDE DEF R, A
  <2>2. /\ prog' \in Seq(Bytecode) /\ code' \in Seq(Instr) /\ Len(code) \in Nat
        /\ Len(code') = Len(code) + 1 + Len(body)
        /\ Aimed(code', 0, Len(code') + 1, R, A)
    BY <2>1, EmitAimed
  <2> QED  BY <2>2 DEF R, A
<1>4. CompilerType'
  BY <1>2, <1>3 DEF PatchInv, CompilerType
<1>5. BlocksOK'
  <2> SUFFICES ASSUME NEW j \in 1 .. Len(blocks)
               PROVE  /\ blocks'[j].addr <= Len(code') + 1
                      /\ blocks'[j].kind = "if" => Len(blocks'[j].rel) >= 1
    BY <1>2 DEF BlocksOK
  <2>1. /\ blocks[j].addr \in Nat /\ blocks[j].addr <= Len(code) + 1
        /\ blocks[j].kind = "if" => Len(blocks[j].rel) >= 1
        /\ Len(blocks[j].rel) \in Nat /\ Len(blocks'[j].rel) \in Nat
    <3>1. blocks[j] \in OpenBlock /\ blocks'[j] \in OpenBlock
      BY <1>1, <1>2, ElementOfSeq DEF CompilerType
    <3> QED  BY <3>1, BlockType DEF PatchInv, BlocksOK
  <2> QED  BY <1>1, <1>2, <1>3, <2>1
<1>6. Len(blocks') >= 1
  BY <1>1, <1>2
<1> QED  BY <1>3, <1>4, <1>5, <1>6 DEF PatchInv

\* The jump that ends a br or br_if, after `off' instructions.
LEMMA BranchAimed ==
  ASSUME PatchInv, phase = "compile", NEW d \in Depths, NEW off \in Nat, off >= Len(code) + 1,
         NEW m \in Nat, off + Len(LeaveTo(d)) + 1 <= m,
         blocks' = AddFixup(d, off + Len(LeaveTo(d)) + 1)
  PROVE  LET b == LeaveTo(d) \o <<Ins("jmp", Target(d).addr)>>
         IN  /\ b \in Seq(Instr) /\ Len(b) = Len(LeaveTo(d)) + 1
             /\ Aimed(b, off, m, RelOf(blocks'), AbsOf(blocks'))
<1> DEFINE l == LeaveTo(d)
           jmp == <<Ins("jmp", Target(d).addr)>>
           a == Target(d).addr
           R == RelOf(blocks')
           A == AbsOf(blocks')
           i == off + Len(l) + 1
<1>1. CompilerType /\ Len(blocks) >= 1 /\ Len(code) \in Nat
  BY LenProperties DEF PatchInv, CompilerType
<1>2. l \in Seq(Straight) /\ Len(l) \in Nat
  BY <1>1, LeaveToType
<1>3. i \in Nat /\ off + Len(l) \in Nat
  BY <1>2
<1>4. a \in Nat /\ (a = 0 => i \in R)
  BY <1>1, <1>3, FixupFacts
<1>5. a <= Len(code) + 1
  BY <1>1, TargetFacts DEF PatchInv, BlocksOK, Target
<1> HIDE DEF l, a, R, A
<1>6. a \in 1 .. m \/ (a = 0 /\ i \in R)
  BY <1>1, <1>2, <1>3, <1>4, <1>5 DEF l
<1>7. Ins("jmp", a) \in Instr /\ AimedAt(Ins("jmp", a), off + Len(l) + 1, m, R, A)
  <2>1. \A op \in Jumps : Ins(op, a) \in Instr /\ AimedAt(Ins(op, a), i, m, R, A)
    <3> HIDE DEF i
    <3> QED  BY <1>3, <1>4, <1>6, JumpAimed
  <2> QED  BY <2>1 DEF Jumps
<1>8. /\ <<Ins("jmp", a)>> \in Seq(Instr) /\ Len(<<Ins("jmp", a)>>) = 1
      /\ Aimed(<<Ins("jmp", a)>>, off + Len(l), m, R, A)
  BY <1>3, <1>7, AimedOne
<1>9. l \in Seq(Instr) /\ Aimed(l, off, m, R, A)
  BY <1>2, AimedStraight
<1> DEFINE j == <<Ins("jmp", a)>>
<1> HIDE DEF j
<1>10. /\ l \o j \in Seq(Instr) /\ Len(l \o j) = Len(l) + Len(j)
       /\ Aimed(l \o j, off, m, R, A)
  BY <1>8, <1>9, AimedConcat DEF j
<1>11. Len(j) = 1
  BY <1>8 DEF j
<1> QED  BY <1>10, <1>11 DEF l, j, a, R, A

LEMMA BrStep ==
  ASSUME PatchInv, family' = family, NEW d \in Depths, CompileBr(d)
  PROVE  PatchInv'
<1> DEFINE L == Len(code)
           body == LeaveTo(d) \o <<Ins("jmp", Target(d).addr)>>
           pos == L + 1 + Len(LeaveTo(d)) + 1
           ins == Ins("br", d)
<1>1. /\ phase = "compile" /\ phase' = phase /\ height' = height
      /\ Emit(ins, body) /\ blocks' = AddFixup(d, Cur + Len(LeaveTo(d)))
  BY DEF CompileBr, CanCompile
<1>2. /\ L \in Nat /\ Len(LeaveTo(d)) \in Nat /\ height \in Int /\ d \in Int
  BY LenProperties, LeaveToType, TargetFacts, <1>1 DEF PatchInv, CompilerType
<1>3. pos \in Nat /\ Cur + Len(LeaveTo(d)) = pos
  BY <1>2 DEF Cur
<1>4. ins \in Bytecode
  BY <1>2, InsType
<1> DEFINE m == L + (Len(LeaveTo(d)) + 1) + 2
           o == L + 1
<1>5. m \in Nat /\ o \in Nat /\ o >= L + 1 /\ o + Len(LeaveTo(d)) + 1 = pos /\ pos <= m
  BY <1>2
<1>6. blocks' = AddFixup(d, o + Len(LeaveTo(d)) + 1)
  BY <1>1, <1>3, <1>5
<1>7. /\ body \in Seq(Instr) /\ Len(body) = Len(LeaveTo(d)) + 1
      /\ Aimed(body, o, m, RelOf(blocks'), AbsOf(blocks'))
  <2> HIDE DEF m, o
  <2> QED  BY <1>1, <1>2, <1>5, <1>6, BranchAimed
<1>8. m = L + Len(body) + 2
  BY <1>7
<1>9. Aimed(body, L + 1, L + Len(body) + 2, RelOf(blocks'), AbsOf(blocks'))
  <2> HIDE DEF m, body
  <2> QED  BY <1>7, <1>8
<1> HIDE DEF body, ins
<1> QED  BY <1>1, <1>2, <1>3, <1>4, <1>7, <1>9, FixupStep

LEMMA BrIfStep ==
  ASSUME PatchInv, family' = family, NEW d \in Depths, CompileBrIf(d)
  PROVE  PatchInv'
<1> DEFINE L == Len(code)
           n == Len(LeaveTo(d))
           jump == Cur + 1 + n
           jz == <<Ins("jump if not", jump + 1)>>
           rest == LeaveTo(d) \o <<Ins("jmp", Target(d).addr)>>
           body == jz \o LeaveTo(d) \o <<Ins("jmp", Target(d).addr)>>
           ins == Ins("br_if", d)
           R == RelOf(blocks')
           A == AbsOf(blocks')
           m == L + n + 4
<1>1. /\ phase = "compile" /\ phase' = phase /\ height' = height - 1
      /\ Emit(ins, body) /\ blocks' = AddFixup(d, jump)
  BY DEF CompileBrIf, CanCompile
<1>2. /\ L \in Nat /\ n \in Nat /\ height \in Int /\ d \in Int /\ CompilerType /\ Len(blocks) >= 1
  <2>1. CompilerType /\ Len(blocks) >= 1
    BY <1>1 DEF PatchInv
  <2>2. L \in Nat /\ height \in Int
    BY <2>1, LenProperties DEF CompilerType
  <2> QED  BY <2>1, <2>2, LeaveToType, TargetFacts
<1>3. ins \in Bytecode /\ height' \in Int
  <2>1. ins \in Bytecode
    BY <1>2, InsType
  <2>2. height' = height - 1 /\ height \in Int
    BY <1>2 DEF CompileBrIf
  <2> QED  BY <2>1, <2>2
<1>4. /\ m \in Nat /\ jump \in Nat /\ jump = L + 2 + n + 1 /\ jump <= m /\ jump + 1 \in 1 .. m
      /\ L + 2 \in Nat /\ L + 2 >= L + 1 /\ L + 1 \in Nat /\ L + 1 + 1 \in Nat
  BY <1>2 DEF Cur
<1>5. /\ rest \in Seq(Instr) /\ Len(rest) = n + 1
      /\ Aimed(rest, L + 2, m, R, A)
  <2> DEFINE o == L + 2
  <2>1. o \in Nat /\ o >= Len(code) + 1 /\ blocks' = AddFixup(d, o + Len(LeaveTo(d)) + 1)
        /\ o + Len(LeaveTo(d)) + 1 <= m
    BY <1>1, <1>4
  <2> HIDE DEF o, m
  <2>2. /\ rest \in Seq(Instr) /\ Len(rest) = Len(LeaveTo(d)) + 1
        /\ Aimed(rest, o, m, RelOf(blocks'), AbsOf(blocks'))
    BY <1>1, <1>4, <2>1, BranchAimed
  <2> QED  BY <2>2 DEF o
<1>6. jz \in Seq(Instr) /\ Len(jz) = 1 /\ Aimed(jz, L + 1, m, R, A)
  <2> HIDE DEF R, A, m, jump, L
  <2>1. jump + 1 \in Nat
    BY <1>4
  <2>2. \A op \in Jumps : Ins(op, jump + 1) \in Instr /\ AimedAt(Ins(op, jump + 1), L + 1 + 1, m, R, A)
    BY <1>4, <2>1, JumpAimed
  <2>3. Ins("jump if not", jump + 1) \in Instr /\ AimedAt(Ins("jump if not", jump + 1), L + 1 + 1, m, R, A)
    BY <2>2 DEF Jumps
  <2> QED  BY <1>4, <2>3, AimedOne
<1>7. body = jz \o rest
  <2>1. LeaveTo(d) \in Seq(Instr) /\ <<Ins("jmp", Target(d).addr)>> \in Seq(Instr)
    <3>1. LeaveTo(d) \in Seq(Straight) /\ Target(d).addr \in Int
      BY <1>2, LeaveToType, FixupFacts, TargetFacts, BlockType
    <3>2. \A op \in Jumps : Ins(op, Target(d).addr) \in Instr
      BY <3>1, InsType
    <3>3. Ins("jmp", Target(d).addr) \in Instr
      BY <3>2 DEF Jumps
    <3> QED  BY <3>1, <3>3, StraightIsInstr, SeqMonotonic, Tuple1
  <2> DEFINE x == <<Ins("jmp", Target(d).addr)>>
             y == LeaveTo(d)
  <2> HIDE DEF x, y, jz
  <2>2. x \in Seq(Instr) /\ y \in Seq(Instr)
    BY <2>1 DEF x, y
  <2>3. \A s, t, u \in Seq(Instr) : (s \o t) \o u = s \o (t \o u)
    BY ConcatAssociative
  <2>4. (jz \o y) \o x = jz \o (y \o x)
    BY <1>6, <2>2, <2>3, Zenon
  <2> QED  BY <2>4 DEF x, y
<1> HIDE DEF jz, rest, body
<1>8. body \in Seq(Instr) /\ Len(body) = n + 2 /\ Aimed(body, L + 1, m, R, A)
  <2> HIDE DEF R, A, m
  <2>1. L + 1 + Len(jz) = L + 2
    BY <1>4, <1>6
  <2>2. /\ body \in Seq(Instr) /\ Len(body) = Len(jz) + Len(rest) /\ Aimed(body, L + 1, m, R, A)
    BY <1>4, <1>5, <1>6, <1>7, <2>1, AimedConcat
  <2> QED  BY <1>2, <1>5, <1>6, <2>2
<1>9. m = L + Len(body) + 2
  BY <1>2, <1>8
<1> HIDE DEF ins, m, jump
<1>10. Aimed(body, L + 1, L + Len(body) + 2, R, A)
  BY <1>8, <1>9
<1> QED  BY <1>1, <1>2, <1>3, <1>4, <1>8, <1>10, FixupStep

LEMMA TuplesConcat ==
  ASSUME NEW S, NEW s \in Seq(S), NEW a \in S, NEW b \in S
  PROVE  s \o <<a, b>> = s \o <<a>> \o <<b>>
<1>1. <<a>> \in Seq(S) /\ <<b>> \in Seq(S)
  BY Tuple1
<1>2. <<a, b>> = <<a>> \o <<b>>
  <2> DEFINE x == <<a>>
             y == <<b>>
             z == <<a, b>>
  <2>1. /\ x \in Seq(S) /\ Len(x) = 1 /\ x[1] = a
        /\ y \in Seq(S) /\ Len(y) = 1 /\ y[1] = b
        /\ z \in Seq(S) /\ Len(z) = 2 /\ z[1] = a /\ z[2] = b
    BY Tuple1, Tuple2
  <2> HIDE DEF x, y, z
  <2>0. x \in Seq(S) /\ y \in Seq(S)
    BY <2>1
  <2>5. /\ x \o y \in Seq(S) /\ Len(x \o y) = Len(x) + Len(y)
        /\ \A i \in 1 .. Len(x) : (x \o y)[i] = x[i]
        /\ \A i \in 1 .. Len(y) : (x \o y)[Len(x) + i] = y[i]
    BY <2>0, ConcatFacts
  <2>2. /\ x \o y \in Seq(S) /\ Len(x \o y) = 1 + 1
        /\ \A i \in 1 .. 1 : (x \o y)[i] = x[i]
        /\ \A i \in 1 .. 1 : (x \o y)[1 + i] = y[i]
    BY <2>1, <2>5
  <2> DEFINE w == x \o y
  <2> HIDE DEF w
  <2>3. w \in Seq(S) /\ Len(w) = 2 /\ w[1] = a /\ w[2] = b
    BY <2>1, <2>2 DEF w
  <2>4. z = w
    BY <2>1, <2>3, SeqEqual
  <2> QED  BY <2>4 DEF w, x, y, z
<1> DEFINE x == <<a>>
           y == <<b>>
<1> HIDE DEF x, y
<1>3. x \in Seq(S) /\ y \in Seq(S)
  BY <1>1 DEF x, y
<1>4. (s \o x) \o y = s \o (x \o y)
  BY <1>3, ConcatAssociative
<1> QED  BY <1>2, <1>4 DEF x, y

\* Every entry of a branch table goes back to a loop or is on the list of its block.
LEMMA BrTableStep ==
  ASSUME PatchInv, family' = family, NEW d \in Depths, NEW ts \in Seq(Depths), CompileBrTable(ts, d)
  PROVE  PatchInv'
<1> DEFINE L == Len(code)
           dist(i) == IF i = 1 THEN d ELSE ts[i - 1]
           entries == [i \in 1 .. Len(ts) + 1 |->
                          LET t == IF i = 1 THEN d ELSE ts[i - 1]
                          IN  [dist |-> t, addr |-> Target(t).addr]]
           at(k) == {i \in 1 .. Len(entries) : entries[i].dist = k /\ entries[i].addr = 0}
           c == [op |-> "br table", ts |-> entries,
                 n |-> IF Target(d).type # "empty_block" THEN 1 ELSE 0]
           ins == [op |-> "br_table", n |-> d, ts |-> ts]
           B(j) == [blocks[j] EXCEPT !.abs = @ \cup {<<Cur, i>> : i \in at(Len(blocks) - j)}]
           R == RelOf(blocks')
           A == AbsOf(blocks')
<1>1. /\ phase = "compile" /\ phase' = phase /\ height' = height
      /\ prog' = Append(prog, ins) /\ code' = code \o <<Ins("dbg", Here), c>>
      /\ blocks' = [j \in 1 .. Len(blocks) |-> B(j)]
  BY DEF CompileBrTable, CanCompile
<1>2. CompilerType /\ Len(blocks) >= 1 /\ BlocksOK
  BY <1>1 DEF PatchInv
<1>3. /\ L \in Nat /\ Len(prog) \in Nat /\ Len(blocks) \in Nat /\ Len(ts) \in Nat /\ height \in Int
      /\ code \in Seq(Instr) /\ blocks \in Seq(OpenBlock)
  BY <1>2, LenProperties DEF CompilerType
<1>4. \A t \in Depths : /\ t \in Nat /\ Len(blocks) - t \in 1 .. Len(blocks)
                        /\ Target(t).addr \in Nat /\ Target(t).addr <= L + 1
  <2> SUFFICES ASSUME NEW t \in Depths
               PROVE  /\ t \in Nat /\ Len(blocks) - t \in 1 .. Len(blocks)
                      /\ Target(t).addr \in Nat /\ Target(t).addr <= L + 1
    OBVIOUS
  <2>1. t \in Nat /\ Len(blocks) - t \in 1 .. Len(blocks) /\ Target(t) \in OpenBlock
    BY <1>2, TargetFacts
  <2>2. Target(t).addr \in Nat
    BY <2>1, BlockType
  <2>3. Target(t).addr <= L + 1
    BY <1>2, <2>1 DEF BlocksOK, Target
  <2> QED  BY <2>1, <2>2, <2>3
<1>5. \A i \in 1 .. Len(ts) + 1 :
         dist(i) \in Depths /\ entries[i] = [dist |-> dist(i), addr |-> Target(dist(i)).addr]
  <2> SUFFICES ASSUME NEW i \in 1 .. Len(ts) + 1 PROVE dist(i) \in Depths
    OBVIOUS
  <2>1. i # 1 => i - 1 \in 1 .. Len(ts)
    BY <1>3
  <2> QED  BY <2>1, ElementOfSeq
<1> HIDE DEF dist
<1>6. entries \in Seq(Entry) /\ Len(entries) = Len(ts) + 1
  <2>1. \A i \in 1 .. Len(ts) + 1 : entries[i] \in Entry
    BY <1>4, <1>5 DEF Entry
  <2>2. entries \in [1 .. Len(ts) + 1 -> Entry]
    <3> DEFINE e(i) == LET t == IF i = 1 THEN d ELSE ts[i - 1]
                       IN  [dist |-> t, addr |-> Target(t).addr]
    <3>1. entries = [i \in 1 .. Len(ts) + 1 |-> e(i)]
      OBVIOUS
    <3>2. \A i \in 1 .. Len(ts) + 1 : e(i) \in Entry
      BY <2>1
    <3> HIDE DEF entries, e
    <3> QED  BY <3>1, <3>2
  <2> HIDE DEF entries
  <2> QED  BY <1>3, <2>2, SeqElements
<1>7. c \in Instr /\ c.op = "br table" /\ c.ts = entries
  <2> HIDE DEF entries
  <2> QED  BY <1>6 DEF Instr
<1>8. ins \in Bytecode
  <2>1. d \in Nat
    BY <1>4
  <2>2. ts \in Seq(Nat)
    BY <1>4, SeqMonotonic
  <2> QED  BY <2>1, <2>2 DEF Bytecode
<1>9. \A j \in 1 .. Len(blocks) : \A i \in 1 .. Len(ts) + 1 :
         entries[i].dist = Len(blocks) - j /\ entries[i].addr = 0 => i \in at(Len(blocks) - j)
  BY <1>6
<1>10. \A k : at(k) \subseteq Nat
  BY <1>6
<1> HIDE DEF at
<1>11. ASSUME NEW j \in 1 .. Len(blocks)
       PROVE  /\ blocks'[j] = B(j) /\ B(j) \in OpenBlock /\ blocks[j] \in OpenBlock
              /\ B(j).rel = blocks[j].rel /\ B(j).addr = blocks[j].addr /\ B(j).kind = blocks[j].kind
              /\ B(j).abs = blocks[j].abs \cup {<<Cur, i>> : i \in at(Len(blocks) - j)}
  <2>1. blocks'[j] = B(j) /\ blocks[j] \in OpenBlock
    BY <1>1, <1>3, ElementOfSeq
  <2>2. {<<Cur, i>> : i \in at(Len(blocks) - j)} \subseteq Nat \X Nat
    BY <1>3, <1>10 DEF Cur
  <2> QED  BY <2>1, <2>2 DEF OpenBlock
<1>12. blocks' \in Seq(OpenBlock) /\ Len(blocks') = Len(blocks)
  <2>1. blocks' \in [1 .. Len(blocks) -> OpenBlock]
    <3>1. \A j \in 1 .. Len(blocks) : B(j) \in OpenBlock
      BY <1>11
    <3> HIDE DEF B
    <3> QED  BY <1>1, <3>1
  <2> QED  BY <1>3, <2>1, SeqElements
<1>13. /\ RelOf(blocks) \subseteq R /\ AbsOf(blocks) \subseteq A
       /\ \A j \in 1 .. Len(blocks) : \A i \in at(Len(blocks) - j) : <<Cur, i>> \in A
  <2> HIDE DEF B, at
  <2>1. \A j \in 1 .. Len(blocks) : blocks'[j].rel = blocks[j].rel
    BY <1>11
  <2>2. \A j \in 1 .. Len(blocks) :
           blocks'[j].abs = blocks[j].abs \cup {<<Cur, i>> : i \in at(Len(blocks) - j)}
    BY <1>11
  <2>3. RelOf(blocks) \subseteq R
    BY <1>12, <2>1 DEF RelOf
  <2>4. AbsOf(blocks) \subseteq A
    BY <1>12, <2>2 DEF AbsOf
  <2>5. \A j \in 1 .. Len(blocks) : \A i \in at(Len(blocks) - j) : <<Cur, i>> \in A
    BY <1>12, <2>2 DEF AbsOf
  <2> QED  BY <2>3, <2>4, <2>5
<1> HIDE DEF B, R, A
<1>14. AimedAt(c, L + 2, L + 3, R, A)
  <2>1. c.op \notin Jumps
    BY <1>7 DEF Jumps
  <2>2. ASSUME NEW k \in 1 .. Len(entries)
        PROVE  entries[k].addr \in 1 .. L + 3 \/ (entries[k].addr = 0 /\ <<L + 2, k>> \in A)
    <3>1. k \in 1 .. Len(ts) + 1
      BY <1>6
    <3>2. dist(k) \in Depths /\ entries[k].dist = dist(k) /\ entries[k].addr = Target(dist(k)).addr
      BY <1>5, <3>1
    <3> DEFINE a == entries[k].addr
               j == Len(blocks) - dist(k)
    <3>3. a \in Nat /\ a <= L + 1 /\ j \in 1 .. Len(blocks) /\ dist(k) = Len(blocks) - j
      <4>1. dist(k) \in Nat /\ Len(blocks) - dist(k) \in 1 .. Len(blocks)
            /\ Target(dist(k)).addr \in Nat /\ Target(dist(k)).addr <= L + 1
        BY <1>4, <3>2
      <4>2. dist(k) = Len(blocks) - (Len(blocks) - dist(k))
        BY <1>3, <4>1
      <4> QED  BY <3>2, <4>1, <4>2
    <3>4. CASE a = 0
      <4>1. k \in at(Len(blocks) - j)
        BY <1>9, <3>1, <3>2, <3>3, <3>4
      <4>2. <<Cur, k>> \in A
        BY <1>13, <3>3, <4>1
      <4> QED  BY <3>4, <4>2 DEF Cur
    <3>5. CASE a # 0
      BY <1>3, <3>3, <3>5
    <3> QED  BY <3>4, <3>5
  <2> HIDE DEF c, entries
  <2> QED  BY <1>7, <2>1, <2>2 DEF AimedAt
<1> HIDE DEF c, ins, entries
<1>15. Emit(ins, <<c>>)
  <2>1. Ins("dbg", Here) \in Instr
    <3>1. \A op \in StraightOps : Ins(op, Here) \in Instr
      BY <1>3, InsType DEF Here
    <3> QED  BY <3>1 DEF StraightOps
  <2>2. code \o <<Ins("dbg", Here), c>> = code \o <<Ins("dbg", Here)>> \o <<c>>
    <3>1. \A s \in Seq(Instr), a, b \in Instr : s \o <<a, b>> = s \o <<a>> \o <<b>>
      BY TuplesConcat
    <3> QED  BY <1>3, <1>7, <2>1, <3>1, Zenon
  <2> QED  BY <1>1, <2>2 DEF Emit
<1>16. <<c>> \in Seq(Instr) /\ Len(<<c>>) = 1 /\ Aimed(<<c>>, L + 1, L + 3, R, A)
  <2>1. L + 1 \in Nat /\ L + 3 \in Nat /\ L + 1 + 1 = L + 2
    BY <1>3
  <2> QED  BY <1>7, <1>14, <2>1, AimedOne
<1> DEFINE body == <<c>>
<1> HIDE DEF body
<1>17. /\ body \in Seq(Instr) /\ Len(body) = 1 /\ Emit(ins, body)
       /\ Aimed(body, L + 1, L + Len(body) + 2, R, A)
  <2>1. L + 1 + 2 = L + 3
    BY <1>3
  <2> QED  BY <1>15, <1>16, <2>1 DEF body
<1>18. /\ prog' \in Seq(Bytecode) /\ code' \in Seq(Instr)
       /\ Len(code') = L + 1 + Len(body)
       /\ Aimed(code', 0, Len(code') + 1, R, A)
  BY <1>1, <1>8, <1>13, <1>17, EmitAimed
<1>19. CompilerType'
  BY <1>1, <1>2, <1>12, <1>18 DEF CompilerType
<1>20. BlocksOK'
  <2> SUFFICES ASSUME NEW j \in 1 .. Len(blocks)
               PROVE  /\ blocks'[j].addr <= Len(code') + 1
                      /\ blocks'[j].kind = "if" => Len(blocks'[j].rel) >= 1
    BY <1>12 DEF BlocksOK
  <2>1. /\ blocks[j].addr \in Nat /\ blocks[j].addr <= L + 1
        /\ blocks[j].kind = "if" => Len(blocks[j].rel) >= 1
    BY <1>2, <1>11, BlockType DEF BlocksOK
  <2>2. /\ blocks'[j].addr = blocks[j].addr /\ blocks'[j].kind = blocks[j].kind
        /\ blocks'[j].rel = blocks[j].rel
    BY <1>11
  <2> QED  BY <1>3, <1>17, <1>18, <2>1, <2>2
<1> QED  BY <1>1, <1>2, <1>12, <1>18, <1>19, <1>20 DEF PatchInv, R, A

-----------------------------------------------------------------------------
(* else and end: the steps that patch                                      *)

\* Code that is followed by an instruction's `dbg' and a straight piece.
LEMMA LeaveAimed ==
  ASSUME PatchInv, phase = "compile", NEW piece \in Seq(Straight), NEW m \in Nat, NEW R, NEW A,
         RelOf(blocks) \subseteq R, AbsOf(blocks) \subseteq A, Len(code) + 1 <= m
  PROVE  LET c == code \o <<Ins("dbg", Here)>> \o piece
         IN  /\ c \in Seq(Instr) /\ Len(c) = Len(code) + 1 + Len(piece)
             /\ Aimed(c, 0, m, R, A)
<1> DEFINE L == Len(code)
           dbg == <<Ins("dbg", Here)>>
<1>1. /\ code \in Seq(Instr) /\ L \in Nat /\ Len(prog) \in Nat /\ Len(piece) \in Nat
      /\ Aimed(code, 0, L + 1, RelOf(blocks), AbsOf(blocks))
  BY LenProperties DEF PatchInv, CompilerType
<1>2. Aimed(code, 0, m, R, A)
  BY <1>1, AimedMonotonic
<1>3. dbg \in Seq(Straight) /\ Len(dbg) = 1
  <2>1. \A op \in StraightOps : Ins(op, Here) \in Straight
    BY <1>1, InsType DEF Here
  <2>2. Ins("dbg", Here) \in Straight
    BY <2>1 DEF StraightOps
  <2> QED  BY <2>2, Tuple1
<1> HIDE DEF dbg
<1>4. dbg \in Seq(Instr) /\ Aimed(dbg, 0 + L, m, R, A)
  <2>1. 0 + L \in Nat
    BY <1>1
  <2> QED  BY <1>3, <2>1, AimedStraight
<1>5. /\ code \o dbg \in Seq(Instr) /\ Len(code \o dbg) = L + Len(dbg)
      /\ Aimed(code \o dbg, 0, m, R, A)
  BY <1>1, <1>2, <1>4, AimedConcat
<1>6. piece \in Seq(Instr) /\ Aimed(piece, 0 + Len(code \o dbg), m, R, A)
  <2>1. 0 + Len(code \o dbg) \in Nat
    BY <1>1, <1>3, <1>5
  <2> QED  BY <2>1, AimedStraight
<1> DEFINE u == code \o dbg
<1>7. u \in Seq(Instr) /\ Len(u) = L + 1 /\ Aimed(u, 0, m, R, A) /\ Aimed(piece, 0 + Len(u), m, R, A)
  BY <1>3, <1>5, <1>6
<1> HIDE DEF u
<1>8. /\ u \o piece \in Seq(Instr) /\ Len(u \o piece) = Len(u) + Len(piece)
      /\ Aimed(u \o piece, 0, m, R, A)
  BY <1>6, <1>7, AimedConcat
<1> QED  BY <1>7, <1>8 DEF u, dbg

LEMMA TailAppendFacts ==
  ASSUME NEW s \in Seq(Nat), Len(s) >= 1, NEW x \in Nat
  PROVE  /\ Tail(Append(s, x)) \in Seq(Nat)
         /\ Head(s) \in Nat
         /\ (Range(s) \cup {x}) \ {Head(s)} \subseteq Range(Tail(Append(s, x)))
<1> DEFINE n == Len(s)
           a == Append(s, x)
           t == Tail(a)
<1>1. n \in Nat /\ s \in [1 .. n -> Nat]
  BY LenProperties
<1>2. /\ a \in Seq(Nat) /\ Len(a) = n + 1 /\ \A i \in 1 .. n : a[i] = s[i]
      /\ a[n + 1] = x
  BY AppendFacts
<1>3. a # <<>>
  <2>1. \A r \in Seq(Nat) : r = <<>> => Len(r) = 0
    BY EmptyTs
  <2> HIDE DEF a, n
  <2> QED  BY <1>1, <1>2, <2>1
<1> HIDE DEF a
<1>4. t \in Seq(Nat) /\ Len(t) = Len(a) - 1 /\ \A i \in 1 .. Len(t) : t[i] = a[i + 1]
  BY <1>2, <1>3, HeadTailProperties
<1>5. Head(s) = s[1]
  <2>1. 1 \in 1 .. Len(s) /\ Len(s) \in 1 .. Len(s)
    BY <1>1
  <2>2. Head(SubSeq(s, 1, Len(s))) = s[1]
    BY <2>1, HeadTailOfSubSeq
  <2>3. SubSeq(s, 1, Len(s)) = s
    BY SubSeqFull
  <2> QED  BY <2>2, <2>3, Zenon
<1> HIDE DEF n, t
<1>6. Len(t) = n
  BY <1>1, <1>2, <1>4
<1>7. x \in Range(t)
  <2>1. n \in 1 .. Len(t) /\ t[n] = a[n + 1]
    BY <1>1, <1>4, <1>6 DEF n
  <2>2. Range(t) = {t[i] : i \in 1 .. Len(t)}
    BY <1>4, RangeFacts
  <2> QED  BY <1>2, <2>1, <2>2
<1>8. ASSUME NEW y \in Range(s), y # s[1] PROVE y \in Range(t)
  <2>1. Range(s) = {s[i] : i \in 1 .. n}
    BY RangeFacts DEF n
  <2>2. PICK i \in 1 .. n : y = s[i]
    BY <2>1
  <2>3. i - 1 \in 1 .. Len(t) /\ i - 1 + 1 = i
    BY <1>1, <1>6, <1>8, <2>2
  <2>4. t[i - 1] = y
    BY <1>2, <1>4, <2>2, <2>3
  <2>5. Range(t) = {t[k] : k \in 1 .. Len(t)}
    BY <1>4, RangeFacts
  <2> QED  BY <2>3, <2>4, <2>5
<1>9. s[1] \in Nat
  BY <1>1 DEF n
<1> QED  BY <1>4, <1>5, <1>7, <1>8, <1>9 DEF t, a

LEMMA ElseStep ==
  ASSUME PatchInv, family' = family, CompileElse
  PROVE  PatchInv'
<1> DEFINE L == Len(code)
           n == Len(blocks)
           leave == LeaveBlock(TRUE)
           jump == Cur + Len(leave)
           part == code \o <<Ins("dbg", Here)>> \o leave
           jmp == <<Ins("jmp", 0)>>
           full == part \o jmp \o EnterBlock
           rel == Tail(Append(Top.rel, jump))
           R == RelOf(blocks) \cup {jump}
           A == AbsOf(blocks)
           m == L + 6
<1>1. /\ phase = "compile" /\ phase' = phase /\ Top.kind = "if"
      /\ prog' = Append(prog, Ins("else", 0))
      /\ code' = Patch(full, {Head(Top.rel)}, jump + 1)
      /\ blocks' = [blocks EXCEPT ![n].kind = "else", ![n].rel = rel]
      /\ height' = Top.height
  BY DEF CompileElse
<1>2. CompilerType /\ n >= 1 /\ BlocksOK
  BY <1>1 DEF PatchInv
<1>3. /\ L \in Nat /\ Len(prog) \in Nat /\ n \in Nat /\ n \in 1 .. n /\ blocks \in Seq(OpenBlock)
      /\ prog \in Seq(Bytecode)
  <2>1. code \in Seq(Instr) /\ blocks \in Seq(OpenBlock) /\ prog \in Seq(Bytecode)
    BY <1>2 DEF CompilerType
  <2>2. L \in Nat /\ Len(prog) \in Nat /\ n \in Nat
    BY <2>1, LenProperties
  <2> QED  BY <1>2, <2>1, <2>2
<1>4. leave \in Seq(Straight) /\ Len(leave) = 1 /\ jump = L + 3
  <2>1. TRUE \in BOOLEAN
    OBVIOUS
  <2>2. leave \in Seq(Straight) /\ Len(leave) = 1
    BY <2>1, LeaveBlockType
  <2>3. Cur = L + 2
    BY DEF Cur
  <2> HIDE DEF leave, L
  <2> QED  BY <1>3, <2>2, <2>3
<1>5. Top = blocks[n] /\ Top \in OpenBlock /\ Top.rel \in Seq(Nat) /\ Len(Top.rel) >= 1 /\ Top.height \in Int
  <2>1. Top = blocks[n]
    BY DEF Top, Last
  <2>2. Top \in OpenBlock
    BY <1>3, <2>1, ElementOfSeq
  <2> QED  BY <1>1, <1>2, <1>3, <2>1, <2>2, BlockType DEF BlocksOK
<1>6. rel \in Seq(Nat) /\ (Range(Top.rel) \cup {jump}) \ {Head(Top.rel)} \subseteq Range(rel)
  <2>1. jump \in Nat
    <3> HIDE DEF jump, L
    <3> QED  BY <1>3, <1>4
  <2> DEFINE r == Top.rel
  <2>2. r \in Seq(Nat) /\ Len(r) >= 1
    BY <1>5
  <2> HIDE DEF r, jump
  <2>3. Tail(Append(r, jump)) \in Seq(Nat) /\ (Range(r) \cup {jump}) \ {Head(r)} \subseteq Range(Tail(Append(r, jump)))
    BY <2>1, <2>2, TailAppendFacts
  <2> QED  BY <2>3 DEF r
<1> HIDE DEF rel, jump, leave, n, L
<1>7. part \in Seq(Instr) /\ Len(part) = L + 2 /\ Aimed(part, 0, m, R, A)
  <2>1. m \in Nat /\ Len(code) + 1 <= m /\ RelOf(blocks) \subseteq R /\ AbsOf(blocks) \subseteq A
    BY <1>3 DEF L
  <2> HIDE DEF m, R, A
  <2>2. part \in Seq(Instr) /\ Len(part) = L + 1 + Len(leave) /\ Aimed(part, 0, m, R, A)
    BY <1>1, <1>4, <2>1, LeaveAimed DEF L
  <2> QED  BY <1>3, <1>4, <2>2
<1>8. jmp \in Seq(Instr) /\ Len(jmp) = 1 /\ Aimed(jmp, L + 2, m, R, A)
  <2>1. m \in Nat /\ L + 2 \in Nat /\ L + 2 + 1 = jump /\ L + 2 + 1 \in Nat /\ L + 2 + 1 \in R
    BY <1>3, <1>4
  <2> HIDE DEF m, R, A
  <2>2. \A op \in Jumps : Ins(op, 0) \in Instr /\ AimedAt(Ins(op, 0), L + 2 + 1, m, R, A)
    <3>1. 0 \in Nat
      OBVIOUS
    <3> QED  BY <2>1, <3>1, JumpAimed
  <2>3. Ins("jmp", 0) \in Instr /\ AimedAt(Ins("jmp", 0), L + 2 + 1, m, R, A)
    BY <2>2 DEF Jumps
  <2> QED  BY <2>1, <2>3, AimedOne
<1>9. EnterBlock \in Seq(Instr) /\ Len(EnterBlock) = 2 /\ Aimed(EnterBlock, L + 3, m, R, A)
  <2>1. L + 3 \in Nat /\ m \in Nat
    BY <1>3
  <2> HIDE DEF m, R, A
  <2>2. EnterBlock \in Seq(Straight) /\ Len(EnterBlock) = 2
    BY FixedTemplates
  <2> QED  BY <2>1, <2>2, AimedStraight
<1>10. full \in Seq(Instr) /\ Len(full) = L + 5 /\ Aimed(full, 0, m, R, A)
  <2>1. 0 + Len(part) = L + 2 /\ m \in Nat /\ 0 + (L + 3) = L + 3
    BY <1>3, <1>7
  <2> HIDE DEF part, jmp, m, R, A
  <2> DEFINE u == part \o jmp
  <2>2. u \in Seq(Instr) /\ Len(u) = Len(part) + Len(jmp) /\ Aimed(u, 0, m, R, A)
    BY <1>7, <1>8, <2>1, AimedConcat
  <2> HIDE DEF u
  <2>3. Len(u) = L + 3
    BY <1>3, <1>7, <1>8, <2>2
  <2>4. /\ u \o EnterBlock \in Seq(Instr) /\ Len(u \o EnterBlock) = Len(u) + Len(EnterBlock)
        /\ Aimed(u \o EnterBlock, 0, m, R, A)
    BY <1>9, <2>1, <2>2, <2>3, AimedConcat
  <2>5. Len(u \o EnterBlock) = L + 5
    BY <1>3, <1>9, <2>3, <2>4
  <2> QED  BY <2>4, <2>5 DEF u
<1> HIDE DEF full
<1>11. /\ code' \in Seq(Instr) /\ Len(code') = L + 5
       /\ Aimed(code', 0, m, R \ {Head(Top.rel)}, A)
  <2>1. m \in Nat /\ jump + 1 \in 1 .. m
    BY <1>3, <1>4
  <2> HIDE DEF m, R, A
  <2> QED  BY <1>1, <1>10, <2>1, PatchAimed
<1> DEFINE b == [[Top EXCEPT !.kind = "else"] EXCEPT !.rel = rel]
<1>12. /\ b \in OpenBlock /\ b.rel = rel /\ b.abs = Top.abs /\ b.addr = Top.addr /\ b.kind = "else"
       /\ blocks' = [blocks EXCEPT ![n] = b]
  <2>1. b \in OpenBlock /\ b.rel = rel /\ b.abs = Top.abs /\ b.addr = Top.addr /\ b.kind = "else"
    BY <1>5, <1>6 DEF OpenBlock
  <2>2. DOMAIN blocks = 1 .. n
    BY <1>3, LenProperties DEF n
  <2>3. blocks' = [blocks EXCEPT ![n] = b]
    BY <1>1, <1>3, <1>5, <2>2
  <2> QED  BY <2>1, <2>3
<1> HIDE DEF b
<1>13. /\ blocks' \in Seq(OpenBlock) /\ Len(blocks') = n
       /\ \A j \in 1 .. n : blocks'[j] = IF j = n THEN b ELSE blocks[j]
  BY <1>3, <1>12, ExceptSeq DEF n
<1>14. R \ {Head(Top.rel)} \subseteq RelOf(blocks') /\ A \subseteq AbsOf(blocks')
  <2>1. \A j \in 1 .. n : Range(blocks[j].rel) \ {Head(Top.rel)} \subseteq Range(blocks'[j].rel)
    BY <1>5, <1>6, <1>12, <1>13
  <2>2. \A j \in 1 .. n : blocks[j].abs = blocks'[j].abs
    BY <1>5, <1>12, <1>13
  <2>3. {jump} \ {Head(Top.rel)} \subseteq Range(blocks'[n].rel)
    BY <1>3, <1>6, <1>12, <1>13
  <2>4. RelOf(blocks) = UNION {Range(blocks[j].rel) : j \in 1 .. n}
        /\ RelOf(blocks') = UNION {Range(blocks'[j].rel) : j \in 1 .. n}
    BY <1>13 DEF RelOf, n
  <2>5. AbsOf(blocks) = AbsOf(blocks')
    BY <1>13, <2>2 DEF AbsOf, n
  <2>6. R \ {Head(Top.rel)} \subseteq RelOf(blocks')
    BY <1>3, <2>1, <2>3, <2>4
  <2> QED  BY <2>5, <2>6
<1>15. Aimed(code', 0, Len(code') + 1, RelOf(blocks'), AbsOf(blocks'))
  <2> DEFINE R1 == R \ {Head(Top.rel)}
             R2 == RelOf(blocks')
             A2 == AbsOf(blocks')
  <2>1. R1 \subseteq R2 /\ A \subseteq A2 /\ m \in Nat /\ Len(code') + 1 = m /\ m <= m
    BY <1>3, <1>11, <1>14
  <2> HIDE DEF R1, R2, A2, A, m
  <2>2. Aimed(code', 0, m, R1, A)
    BY <1>11 DEF R1
  <2>3. Aimed(code', 0, m, R2, A2)
    BY <1>11, <2>1, <2>2, AimedMonotonic
  <2> QED  BY <2>1, <2>3 DEF R2, A2
<1>16. CompilerType'
  <2>1. prog' \in Seq(Bytecode)
    <3>1. Ins("else", 0) \in Bytecode
      BY InsType
    <3> QED  BY <1>1, <1>3, <3>1, AppendFacts
  <2> QED  BY <1>1, <1>2, <1>5, <1>11, <1>13, <2>1 DEF CompilerType
<1>17. BlocksOK'
  <2> SUFFICES ASSUME NEW j \in 1 .. n
               PROVE  /\ blocks'[j].addr <= Len(code') + 1
                      /\ blocks'[j].kind = "if" => Len(blocks'[j].rel) >= 1
    BY <1>13 DEF BlocksOK
  <2>1. blocks[j].addr \in Nat /\ blocks[j].addr <= L + 1
        /\ (blocks[j].kind = "if" => Len(blocks[j].rel) >= 1)
    <3>1. blocks[j] \in OpenBlock
      BY <1>3, ElementOfSeq DEF n
    <3> QED  BY <1>2, <3>1, BlockType DEF BlocksOK, n, L
  <2>2. blocks'[j].addr = blocks[j].addr
    BY <1>5, <1>12, <1>13
  <2>3. blocks'[j].kind = "if" => Len(blocks'[j].rel) >= 1
    BY <1>12, <1>13, <2>1
  <2> QED  BY <1>3, <1>11, <2>1, <2>2, <2>3
<1> QED  BY <1>1, <1>2, <1>13, <1>15, <1>16, <1>17 DEF PatchInv, n

LEMMA PatchTables ==
  ASSUME NEW s \in Seq(Instr), NEW at, NEW m \in Nat, NEW target \in 1 .. m, NEW R, NEW A,
         Aimed(s, 0, m, R, A)
  PROVE  LET all == [i \in 1 .. Len(s) |->
                       [s[i] EXCEPT !.ts = [k \in 1 .. Len(@) |->
                           IF <<i, k>> \in at THEN [@[k] EXCEPT !.addr = target] ELSE @[k]]]]
         IN  all \in Seq(Instr) /\ Len(all) = Len(s) /\ Aimed(all, 0, m, R, A \ at)
<1> DEFINE n == Len(s)
           T(i) == [k \in 1 .. Len(s[i].ts) |->
                      IF <<i, k>> \in at THEN [s[i].ts[k] EXCEPT !.addr = target] ELSE s[i].ts[k]]
           c(i) == [s[i] EXCEPT !.ts = T(i)]
           all == [i \in 1 .. n |-> c(i)]
<1>1. n \in Nat /\ \A i \in 1 .. n : s[i] \in Instr
  BY ElementOfSeq, LenProperties
<1>2. ASSUME NEW i \in 1 .. n
      PROVE  c(i) \in Instr /\ AimedAt(c(i), i, m, R, A \ at)
  <2>1. s[i] \in Instr /\ s[i].ts \in Seq(Entry)
    BY <1>1 DEF Instr
  <2>2. AimedAt(s[i], i, m, R, A)
    <3>1. AimedAt(s[i], 0 + i, m, R, A) /\ 0 + i = i
      BY <1>1 DEF Aimed
    <3> QED  BY <3>1
  <2> DEFINE t == s[i].ts
             e(k) == IF <<i, k>> \in at THEN [t[k] EXCEPT !.addr = target] ELSE t[k]
  <2>3. Len(t) \in Nat /\ \A k \in 1 .. Len(t) : t[k] \in Entry
    BY <2>1, ElementOfSeq, LenProperties
  <2>4. T(i) = [k \in 1 .. Len(t) |-> e(k)]
    OBVIOUS
  <2>5. \A k \in 1 .. Len(t) : e(k) \in Entry /\ (<<i, k>> \in at => e(k).addr = target)
                               /\ (<<i, k>> \notin at => e(k) = t[k])
    <3> HIDE DEF t
    <3> QED  BY <1>1, <2>3 DEF Entry
  <2> HIDE DEF e, t
  <2>6. T(i) \in Seq(Entry) /\ Len(T(i)) = Len(t)
    <3>1. T(i) \in [1 .. Len(t) -> Entry]
      BY <2>4, <2>5
    <3> HIDE DEF T
    <3> QED  BY <2>3, <3>1, SeqElements
  <2>7. \A k \in 1 .. Len(t) : T(i)[k] = e(k)
    BY <2>4
  <2> HIDE DEF T
  <2>8. c(i) \in Instr /\ c(i).op = s[i].op /\ c(i).n = s[i].n /\ c(i).ts = T(i)
    BY <2>1, <2>6 DEF Instr
  <2> HIDE DEF c
  <2>9. \A k \in 1 .. Len(t) : e(k).addr \in 1 .. m \/ (e(k).addr = 0 /\ <<i, k>> \in A \ at)
    BY <2>2, <2>5 DEF AimedAt, t
  <2> QED  BY <2>2, <2>6, <2>7, <2>8, <2>9 DEF AimedAt
<1>3. all \in Seq(Instr) /\ Len(all) = n /\ \A i \in 1 .. n : all[i] = c(i)
  <2>1. \A i \in 1 .. n : c(i) \in Instr
    BY <1>2
  <2>2. \A i \in 1 .. n : all[i] = c(i)
    OBVIOUS
  <2>3. all \in [1 .. n -> Instr]
    <3> HIDE DEF c
    <3> QED  BY <2>1
  <2> HIDE DEF all, n
  <2> QED  BY <1>1, <2>2, <2>3, SeqElements
<1>4. Aimed(all, 0, m, R, A \ at)
  <2> HIDE DEF all, n, c
  <2>1. ASSUME NEW i \in 1 .. Len(all) PROVE AimedAt(all[i], 0 + i, m, R, A \ at)
    <3>1. i \in 1 .. n /\ 0 + i = i /\ all[i] = c(i)
      BY <1>1, <1>3
    <3>2. AimedAt(c(i), i, m, R, A \ at)
      BY <1>2, <3>1
    <3> QED  BY <3>1, <3>2
  <2> QED  BY <2>1 DEF Aimed
<1>5. all = [i \in 1 .. Len(s) |->
               [s[i] EXCEPT !.ts = [k \in 1 .. Len(@) |->
                   IF <<i, k>> \in at THEN [@[k] EXCEPT !.addr = target] ELSE @[k]]]]
  BY Zenon
<1> HIDE DEF all
<1> QED  BY <1>3, <1>4, <1>5

LEMMA EndStep ==
  ASSUME PatchInv, family' = family, CompileEnd
  PROVE  PatchInv'
<1> DEFINE L == Len(code)
           n == Len(blocks)
           fn == n = 1
           leave == LeaveBlock(fn \/ Top.type # "empty_block")
           full == code \o <<Ins("dbg", Here)>> \o leave
           here == Len(full) + 1
           patched == Patch(full, Range(Top.rel), here)
           all == [i \in 1 .. Len(patched) |->
                      [patched[i] EXCEPT !.ts = [k \in 1 .. Len(@) |->
                          IF <<i, k>> \in Top.abs THEN [@[k] EXCEPT !.addr = here] ELSE @[k]]]]
           R == RelOf(blocks) \ Range(Top.rel)
           A == AbsOf(blocks) \ Top.abs
<1>1. /\ phase = "compile"
      /\ prog' = Append(prog, Ins("end", 0))
      /\ code' = IF fn THEN Append(all, Ins("ret", 0)) ELSE all
      /\ phase' = IF fn THEN "ready" ELSE phase
      /\ blocks' = Front(blocks)
      /\ height' = Top.height + Arity(Top)
  BY DEF CompileEnd
<1>2. CompilerType /\ n >= 1 /\ BlocksOK
  BY <1>1 DEF PatchInv
<1>3. /\ L \in Nat /\ n \in Nat /\ blocks \in Seq(OpenBlock) /\ prog \in Seq(Bytecode)
  <2>1. code \in Seq(Instr) /\ blocks \in Seq(OpenBlock) /\ prog \in Seq(Bytecode)
    BY <1>2 DEF CompilerType
  <2> QED  BY <2>1, LenProperties
<1>4. Top = blocks[n] /\ Top \in OpenBlock /\ height' \in Int
  <2>1. Top = blocks[n]
    BY DEF Top, Last
  <2>2. n \in 1 .. n
    BY <1>2, <1>3
  <2>3. Top \in OpenBlock
    BY <1>3, <2>1, <2>2, ElementOfSeq
  <2>4. Top.height \in Int /\ Arity(Top) \in {0, 1}
    BY <1>2, <2>3, BlockType, ArityFacts DEF CompilerType
  <2>5. height' = Top.height + Arity(Top)
    BY DEF CompileEnd
  <2>6. height' \in Int
    BY <2>4, <2>5
  <2> QED  BY <2>1, <2>3, <2>6
<1>5. leave \in Seq(Straight) /\ Len(leave) \in Nat
  <2> DEFINE v == fn \/ Top.type # "empty_block"
  <2>1. v \in BOOLEAN
    OBVIOUS
  <2> HIDE DEF v
  <2>2. LeaveBlock(v) \in Seq(Straight)
    BY <2>1, LeaveBlockType
  <2>3. leave \in Seq(Straight)
    BY <2>2 DEF v
  <2> HIDE DEF leave
  <2> QED  BY <2>3, LenProperties
<1> DEFINE m == L + Len(leave) + 2
<1> HIDE DEF leave, n, L, fn
<1>6. /\ full \in Seq(Instr) /\ Len(full) = L + 1 + Len(leave) /\ here = m /\ m \in Nat /\ here \in 1 .. m
      /\ Aimed(full, 0, m, RelOf(blocks), AbsOf(blocks))
  <2>1. m \in Nat /\ Len(code) + 1 <= m
    BY <1>3, <1>5 DEF L
  <2> HIDE DEF m
  <2>2. /\ full \in Seq(Instr) /\ Len(full) = L + 1 + Len(leave)
        /\ Aimed(full, 0, m, RelOf(blocks), AbsOf(blocks))
    BY <1>1, <1>5, <2>1, LeaveAimed DEF L
  <2> HIDE DEF full
  <2>3. here = m
    BY <1>3, <1>5, <2>2 DEF m
  <2>4. m \in 1 .. m
    BY <1>3, <1>5, <2>1 DEF m
  <2> QED  BY <2>1, <2>2, <2>3, <2>4
<1> HIDE DEF full, here
<1>7. /\ patched \in Seq(Instr) /\ Len(patched) = Len(full)
      /\ Aimed(patched, 0, m, R, AbsOf(blocks))
  <2> HIDE DEF m
  <2> QED  BY <1>6, PatchAimed
<1> HIDE DEF patched, m
<1>8. all \in Seq(Instr) /\ Len(all) = Len(patched) /\ Aimed(all, 0, m, R, A)
  <2> HIDE DEF R
  <2> QED  BY <1>6, <1>7, PatchTables
<1> HIDE DEF all
<1>9. prog' \in Seq(Bytecode)
  <2>1. Ins("end", 0) \in Bytecode
    BY InsType
  <2> QED  BY <1>1, <1>3, <2>1, AppendFacts
<1>10. /\ blocks' \in Seq(OpenBlock) /\ Len(blocks') = n - 1
       /\ \A j \in 1 .. n - 1 : blocks'[j] = blocks[j]
  BY <1>1, <1>2, <1>3, FrontFacts DEF n
<1>11. m = Len(all) + 1
  BY <1>3, <1>5, <1>6, <1>7, <1>8 DEF m
<1>12. R \subseteq RelOf(blocks') /\ A \subseteq AbsOf(blocks')
  <2>1. \A j \in 1 .. n : j = n \/ j \in 1 .. n - 1
    BY <1>3
  <2>2. RelOf(blocks) = UNION {Range(blocks[j].rel) : j \in 1 .. n}
        /\ AbsOf(blocks) = UNION {blocks[j].abs : j \in 1 .. n}
    BY DEF RelOf, AbsOf, n
  <2>3. R \subseteq RelOf(blocks')
    BY <1>4, <1>10, <2>1, <2>2 DEF RelOf
  <2>4. A \subseteq AbsOf(blocks')
    BY <1>4, <1>10, <2>1, <2>2 DEF AbsOf
  <2> QED  BY <2>3, <2>4
<1>13. CASE fn
  <2>1. Len(blocks') = 0
    BY <1>3, <1>10, <1>13 DEF fn
  <2>2. RelOf(blocks') = {} /\ AbsOf(blocks') = {}
    BY <2>1 DEF RelOf, AbsOf
  <2>3. R = {} /\ A = {}
    BY <1>12, <2>2
  <2>4. Aimed(all, 0, m, {}, {})
    BY <1>8, <2>3
  <2> DEFINE ret == <<Ins("ret", 0)>>
  <2>5. Ins("ret", 0) \in Straight
    <3>1. \A op \in StraightOps : Ins(op, 0) \in Straight
      BY InsType
    <3> QED  BY <3>1 DEF StraightOps
  <2>6. ret \in Seq(Straight) /\ Len(ret) = 1
    BY <2>5, Tuple1
  <2>7. code' = all \o ret
    <3>1. code' = Append(all, Ins("ret", 0)) /\ Ins("ret", 0) \in Instr
      BY <1>1, <1>13, <2>5, StraightIsInstr
    <3> QED  BY <1>8, <3>1, AppendIsConcat
  <2> HIDE DEF ret
  <2>8. Len(all) \in Nat /\ 0 + Len(all) \in Nat
    BY <1>8, LenProperties
  <2>9. ret \in Seq(Instr) /\ Aimed(ret, 0 + Len(all), m, {}, {})
    BY <1>6, <2>6, <2>8, AimedStraight
  <2>10. /\ code' \in Seq(Instr) /\ Len(code') = Len(all) + Len(ret)
         /\ Aimed(code', 0, m, {}, {})
    BY <1>6, <1>8, <2>4, <2>7, <2>9, AimedConcat
  <2>11. Len(code') = m
    BY <1>11, <2>6, <2>10
  <2>12. phase' # "compile"
    BY <1>1, <1>13
  <2>13. CompilerType'
    BY <1>2, <1>4, <1>9, <1>10, <2>10 DEF CompilerType
  <2> QED  BY <2>10, <2>11, <2>12, <2>13 DEF PatchInv
<1>14. CASE ~fn
  <2>1. code' = all /\ phase' = "compile"
    BY <1>1, <1>14
  <2>2. Len(blocks') >= 1
    BY <1>2, <1>3, <1>10, <1>14 DEF fn
  <2>3. Aimed(code', 0, Len(code') + 1, RelOf(blocks'), AbsOf(blocks'))
    <3> DEFINE R2 == RelOf(blocks')
               A2 == AbsOf(blocks')
    <3>1. R \subseteq R2 /\ A \subseteq A2 /\ m <= m
      BY <1>3, <1>5, <1>12 DEF m
    <3> HIDE DEF R, A, R2, A2
    <3>2. Aimed(all, 0, m, R2, A2)
      BY <1>6, <1>8, <3>1, AimedMonotonic
    <3> QED  BY <1>11, <2>1, <3>2 DEF R2, A2
  <2>4. CompilerType'
    BY <1>2, <1>4, <1>8, <1>9, <1>10, <2>1 DEF CompilerType
  <2>5. BlocksOK'
    <3> SUFFICES ASSUME NEW j \in 1 .. n - 1
                 PROVE  /\ blocks[j].addr <= Len(code') + 1
                        /\ blocks[j].kind = "if" => Len(blocks[j].rel) >= 1
      BY <1>10 DEF BlocksOK
    <3>1. j \in 1 .. n
      BY <1>3
    <3>2. blocks[j].addr \in Nat
      BY <1>3, <3>1, ElementOfSeq, BlockType DEF n
    <3>3. blocks[j].addr <= L + 1 /\ (blocks[j].kind = "if" => Len(blocks[j].rel) >= 1)
      BY <1>2, <3>1 DEF BlocksOK, n, L
    <3>4. Len(code') + 1 = L + Len(leave) + 2
      BY <1>11, <2>1 DEF m
    <3> QED  BY <1>3, <1>5, <3>2, <3>3, <3>4
  <2> QED  BY <2>1, <2>2, <2>3, <2>4, <2>5 DEF PatchInv
<1> QED  BY <1>13, <1>14

-----------------------------------------------------------------------------

LEMMA InitPatch == Init => PatchInv
<1> SUFFICES ASSUME Init PROVE PatchInv
  OBVIOUS
<1>1. /\ family \in Families /\ phase = "compile" /\ prog = <<>> /\ code = FnPrologue
      /\ blocks = <<Block("fn", "none", 0, <<>>, 0, 0)>> /\ height = 0
  BY DEF Init
<1> DEFINE b == Block("fn", "none", 0, <<>>, 0, 0)
<1>2. b \in OpenBlock /\ b.addr = 0 /\ b.kind # "if"
  <2>1. <<>> \in Seq(Nat)
    BY EmptyTs
  <2> QED  BY <2>1 DEF Block, OpenBlock
<1>3. <<b>> \in Seq(OpenBlock) /\ Len(<<b>>) = 1 /\ <<b>>[1] = b
  BY <1>2, Tuple1
<1> HIDE DEF b
<1>4. blocks \in Seq(OpenBlock) /\ Len(blocks) = 1 /\ blocks[1] = b
  BY <1>1, <1>3 DEF b
<1>5. FnPrologue \in Seq(Straight)
  <2>1. \A op \in StraightOps : Ins(op, 0) \in Straight
    BY InsType
  <2>2. Ins("rep stos", 0) \in Straight
    BY <2>1 DEF StraightOps
  <2>3. /\ <<Ins("rep stos", 0)>> \in Seq(Straight) /\ <<>> \in Seq(Straight)
        /\ <<_PushExpandStack, PushRdi>> \in Seq(Straight)
    BY <2>2, FixedTemplates, Tuple1, Tuple2, EmptyTs
  <2> QED  BY <2>3, ConcatFacts DEF FnPrologue
<1>6. code \in Seq(Instr) /\ Aimed(code, 0, Len(code) + 1, RelOf(blocks), AbsOf(blocks))
  <2> DEFINE R == RelOf(blocks)
             A == AbsOf(blocks)
             m == Len(code) + 1
  <2>1. m \in Nat /\ 0 \in Nat /\ code \in Seq(Straight)
    BY <1>1, <1>5, LenProperties
  <2> HIDE DEF R, A, m
  <2>2. code \in Seq(Instr) /\ Aimed(code, 0, m, R, A)
    BY <2>1, AimedStraight
  <2> QED  BY <2>2 DEF R, A, m
<1>7. CompilerType
  <2>1. prog \in Seq(Bytecode)
    BY <1>1, EmptyTs
  <2> QED  BY <1>1, <1>4, <1>6, <2>1 DEF CompilerType
<1>8. BlocksOK
  <2>1. Len(code) \in Nat
    BY <1>6, LenProperties
  <2> QED  BY <1>2, <1>4, <2>1 DEF BlocksOK
<1> QED  BY <1>1, <1>4, <1>6, <1>7, <1>8 DEF PatchInv

\* Whatever leaves the compiler's variables alone.
LEMMA OtherStep ==
  ASSUME PatchInv, UNCHANGED compiler, phase = "compile" <=> phase' = "compile"
  PROVE  PatchInv'
<1>1. /\ family' = family /\ prog' = prog /\ code' = code /\ blocks' = blocks /\ height' = height
  BY DEF compiler
<1>2. CompilerType' /\ (BlocksOK => BlocksOK')
  BY <1>1 DEF PatchInv, CompilerType, BlocksOK
<1> QED  BY <1>1, <1>2 DEF PatchInv

LEMMA RunKeepsCompiler ==
  ASSUME RunStep
  PROVE  UNCHANGED compiler /\ phase # "compile" /\ phase' # "compile"
<1> USE DEF Fetch, Proceed, Goto
<1>1. CASE Dbg  BY <1>1 DEF Dbg
<1>2. CASE PushExpandStack  BY <1>2 DEF PushExpandStack
<1>3. CASE PopContractStack  BY <1>3 DEF PopContractStack
<1>4. CASE PopSecondParam  BY <1>4 DEF PopSecondParam
<1>5. CASE Compute  BY <1>5 DEF Compute
<1>6. CASE Move  BY <1>6 DEF Move
<1>7. CASE RepStos  BY <1>7 DEF RepStos
<1>8. CASE Select  BY <1>8 DEF Select
<1>9. CASE PushRdiStep  BY <1>9 DEF PushRdiStep
<1>10. CASE PopRdiStep  BY <1>10 DEF PopRdiStep
<1>11. CASE Jmp  BY <1>11 DEF Jmp
<1>12. CASE JumpNIf  BY <1>12 DEF JumpNIf
<1>13. CASE EnterIF  BY <1>13 DEF EnterIF
<1>14. CASE BranchTable  BY <1>14 DEF BranchTable
<1>15. CASE AddRsp  BY <1>15 DEF AddRsp
<1>16. CASE Call  BY <1>16 DEF Call
<1>17. CASE Ret  BY <1>17 DEF Ret
<1> QED  BY <1>1, <1>2, <1>3, <1>4, <1>5, <1>6, <1>7, <1>8, <1>9, <1>10, <1>11, <1>12, <1>13, <1>14,
            <1>15, <1>16, <1>17 DEF RunStep

LEMMA CompileKeepsPatch ==
  ASSUME PatchInv, CompileStep
  PROVE  PatchInv'
<1>1. family' = family /\ family \in Families
  BY DEF CompileStep, PatchInv, CompilerType
<1>2. CASE \E ins \in PlainIns : CompilePlain(ins)
  BY <1>1, <1>2, PlainStep
<1>3. ASSUME NEW p \in family.openers, CompileBlock(p[1], p[2])
      PROVE  PatchInv'
  <2>1. p[2] \in {0, 1}
    BY <1>1, FamilyFacts
  <2>2. p[1] \in {"block", "loop"}
    BY <1>3 DEF CompileBlock
  <2> QED  BY <1>1, <1>3, <2>1, <2>2, BlockStep
<1>4. ASSUME NEW p \in family.openers, CompileIf(p[2])
      PROVE  PatchInv'
  <2>1. p[2] \in {0, 1}
    BY <1>1, FamilyFacts
  <2> QED  BY <1>1, <1>4, <2>1, IfStep
<1>5. CASE CompileElse
  BY <1>1, <1>5, ElseStep
<1>6. CASE CompileEnd
  BY <1>1, <1>6, EndStep
<1>7. CASE CompileReturn
  BY <1>1, <1>7, ReturnStep
<1>8. ASSUME NEW d \in Depths, CompileBr(d) PROVE PatchInv'
  BY <1>1, <1>8, BrStep
<1>9. ASSUME NEW d \in Depths, CompileBrIf(d) PROVE PatchInv'
  BY <1>1, <1>9, BrIfStep
<1>10. ASSUME NEW d \in Depths, NEW ts \in {<<t>> : t \in Depths}, CompileBrTable(ts, d) PROVE PatchInv'
  <2>1. PICK t \in Depths : ts = <<t>>
    OBVIOUS
  <2>2. ts \in Seq(Depths)
    BY <2>1, Tuple1
  <2> QED  BY <1>1, <1>10, <2>2, BrTableStep
<1> QED  BY <1>2, <1>3, <1>4, <1>5, <1>6, <1>7, <1>8, <1>9, <1>10 DEF CompileStep

LEMMA NextPatch ==
  ASSUME PatchInv, [Next]_vars
  PROVE  PatchInv'
<1>1. CASE CompileStep
  BY <1>1, CompileKeepsPatch
<1>2. ASSUME NEW args, Enter(args) PROVE PatchInv'
  BY <1>2, OtherStep DEF Enter
<1>3. CASE RunStep
  BY <1>3, RunKeepsCompiler, OtherStep
<1>4. CASE Stop
  <2>1. UNCHANGED compiler /\ phase' = phase
    BY <1>4 DEF Stop, vars
  <2> QED  BY <2>1, OtherStep
<1>5. CASE UNCHANGED vars
  <2>1. UNCHANGED compiler /\ phase' = phase
    BY <1>5 DEF vars
  <2> QED  BY <2>1, OtherStep
<1> QED  BY <1>1, <1>2, <1>3, <1>4, <1>5 DEF Next

LEMMA PatchImplies == PatchInv => AllPatched
<1> SUFFICES ASSUME PatchInv, phase = "ready", NEW i \in 1 .. Len(code)
             PROVE  /\ code[i].op \in {"jmp", "jump if not", "enter if"} => code[i].n \in 1 .. Len(code)
                    /\ \A k \in 1 .. Len(code[i].ts) : code[i].ts[k].addr \in 1 .. Len(code)
  BY DEF AllPatched
<1>1. AimedAt(code[i], 0 + i, Len(code), {}, {})
  BY DEF PatchInv, Aimed
<1> QED  BY <1>1 DEF AimedAt, Jumps

\* When the compiler is done, every branch of the function - br, br_if, br_table, the jz of an
\* if and the jmp over an else - goes to a place inside its code, however many blocks were open
\* around it and in whatever order they ended: no fixup of CompileFn is lost.
THEOREM EveryBranchPatched == Spec => []AllPatched
<1>1. Init => PatchInv
  BY InitPatch
<1>2. PatchInv /\ [Next]_vars => PatchInv'
  BY NextPatch
<1>3. PatchInv => AllPatched
  BY PatchImplies
<1> QED  BY <1>1, <1>2, <1>3, PTL DEF Spec

-----------------------------------------------------------------------------
(* The machine as one value, and what an instruction does to it.  A run    *)
(* goes from the `mov r12' of one instruction to that of the next, or to   *)
(* the ret, and never pops the return address on its way.                  *)

Core(p, a, cx, di, bx, m, lm, nat) ==
    [ip |-> p, rax |-> a, rcx |-> cx, rdi |-> di, rbx |-> bx, mem |-> m, lmem |-> lm, native |-> nat]
Current == Core(ip, rax, rcx, rdi, rbx, mem, lmem, native)

Diff(fam, a, b) == (a - b) % fam.m
SlotsOf(fam) == 0 .. Base + 2 * fam.len + 6
LocalsOf(fam) == 0 .. fam.locals + 1

\* Memory and locals after a call: the callee keeps what is under its arguments.
Kept(fam, m, d) == [j \in SlotsOf(fam) |-> IF j < d THEN m[j] ELSE Junk]
KeptLocals(fam, lm, b) == [j \in LocalsOf(fam) |-> IF j < b THEN lm[j] ELSE Junk]

Working == (StraightOps \ {"dbg", "ret"}) \cup Jumps \cup {"br table"}

\* After a conditional jump, a branch table.
Forked(i, x) ==
    Core(IF x.rax = 0 THEN i.n ELSE x.ip + 1, x.mem[x.rdi - 1], x.rcx, x.rdi - 1, x.rbx, x.mem, x.lmem, x.native)
Tabled(i, x) ==
    LET e == i.ts[IF x.rax < Len(i.ts) - 1 THEN x.rax + 2 ELSE 1]
        kept == Upto(x.native, Len(x.native) - e.dist)
    IN  Core(e.addr, IF i.n = 1 THEN x.mem[x.rdi - 1] ELSE x.mem[Last(kept) - 1], x.rcx,
             IF i.n = 1 THEN Last(kept) ELSE Last(kept) - 1, x.rbx, x.mem, x.lmem, Front(kept))

\* y comes after x, where the instruction is i; one conjunct for each template instruction.
Does(fam, i, x, y) ==
    LET next == x.ip + 1
        under == x.mem[x.rdi - 1]
        Sets(a) == y = Core(next, a, x.rcx, x.rdi, x.rbx, x.mem, x.lmem, x.native)
        Falls(a, cx, by) == y = Core(next, a, cx, x.rdi - by, x.rbx, x.mem, x.lmem, x.native)
        Writes(a) == y = Core(next, a, x.rcx, x.rdi, x.rbx, [x.mem EXCEPT ![x.rdi] = x.rax], x.lmem, x.native)
        Calls(a) == y = Core(next, a, Junk, x.rdi + 1, x.rbx,
                             Kept(fam, x.mem, x.rdi), KeptLocals(fam, x.lmem, x.rbx), x.native)
        Stack(p, di, nat) == y = Core(p, x.rax, x.rcx, di, x.rbx, x.mem, x.lmem, nat)
    IN  /\ i.op = "expand" =>
              y = Core(next, x.rax, x.rcx, x.rdi + 1, x.rbx, [x.mem EXCEPT ![x.rdi] = x.rax], x.lmem, x.native)
        /\ i.op = "contract" => Falls(under, x.rcx, 1)
        /\ i.op = "second" => Falls(x.rax, under, 1)
        /\ i.op = "second, swapped" => Falls(under, x.rax, 1)
        /\ i.op = "select" => Falls(x.mem[IF x.rax # 0 THEN x.rdi - 2 ELSE x.rdi - 1], x.rcx, 2)
        /\ i.op = "jump if not" => y = Forked(i, x)
        /\ i.op = "enter if" => y = Forked(i, x)
        /\ i.op = "br table" => y = Tabled(i, x)
        /\ i.op = "mov rax" => Sets(i.n)
        /\ i.op = "mov rax, local" => Sets(x.lmem[x.rbx + i.n])
        /\ i.op = "rax := G(rax)" => Sets(G(x.rax))
        /\ i.op = "rax := G([rdi])" => Sets(G(x.mem[x.rdi]))
        /\ i.op = "rax := F(rax, rcx)" => Sets(Diff(fam, x.rax, x.rcx))
        /\ i.op = "rax := F(rcx, rax)" => Sets(Diff(fam, x.rcx, x.rax))
        /\ i.op = "rax := F([rdi-8], rax)" => Sets(Diff(fam, under, x.rax))
        /\ i.op = "rax := F([rdi], rax)" => Sets(Diff(fam, x.mem[x.rdi], x.rax))
        /\ i.op = "rax := F(rax, [rdi])" => Sets(Diff(fam, x.rax, x.mem[x.rdi]))
        /\ i.op = "mov [rdi], rax" => Writes(x.rax)
        /\ i.op = "xchg rax, [rdi]" => Writes(x.mem[x.rdi])
        /\ i.op = "mov local, rax" =>
              y = Core(next, x.rax, x.rcx, x.rdi, x.rbx, x.mem, [x.lmem EXCEPT ![x.rbx + i.n] = x.rax], x.native)
        /\ i.op = "mov rcx, rax" => y = Core(next, x.rax, x.rax, x.rdi, x.rbx, x.mem, x.lmem, x.native)
        /\ i.op = "add rbx" => y = Core(next, x.rax, x.rcx, x.rdi, x.rbx + i.n, x.mem, x.lmem, x.native)
        /\ i.op = "rep stos" =>
              y = Core(next, 0, 0, x.rdi, x.rbx, x.mem,
                       [j \in LocalsOf(fam) |-> IF j \in x.rbx + fam.args .. x.rbx + fam.locals - 1 THEN 0 ELSE x.lmem[j]],
                       x.native)
        /\ i.op = "call" => Calls(Diff(fam, x.lmem[x.rbx], x.lmem[x.rbx + 1]))
        /\ i.op = "call shim" => Calls(Diff(fam, Diff(fam, x.lmem[x.rbx], x.lmem[x.rbx + 1]), x.rcx))
        /\ i.op = "add rdi" => Stack(next, x.rdi + i.n, x.native)
        /\ i.op = "push rdi" => Stack(next, x.rdi, Append(x.native, x.rdi))
        /\ i.op = "pop rdi" => Stack(next, Last(x.native), Front(x.native))
        /\ i.op = "jmp" => Stack(i.n, x.rdi, x.native)
        /\ i.op = "add rsp" => Stack(next, x.rdi, Upto(x.native, Len(x.native) - i.n))

Going(c, x) == c[x.ip].op \in Working /\ (c[x.ip].op = "pop rdi" => Last(x.native) # RetAddr)
Goes1(fam, c, x, y) == Going(c, x) /\ Does(fam, c[x.ip], x, y)

Runs(fam, c, x, y) ==
    \E n \in Nat : \E g : g[0] = x /\ g[n] = y /\ \A j \in 0 .. n - 1 : Goes1(fam, c, g[j], g[j + 1])

LEMMA RunsNot == ASSUME NEW fam, NEW c, NEW x PROVE Runs(fam, c, x, x)
<1> DEFINE g == [j \in {0} |-> x]
<1>1. g[0] = x /\ \A j \in 0 .. 0 - 1 : Goes1(fam, c, g[j], g[j + 1])
  OBVIOUS
<1> QED  BY <1>1 DEF Runs

LEMMA RunsOn ==
  ASSUME NEW fam, NEW c, NEW x, NEW y, NEW z, Runs(fam, c, x, y), Runs(fam, c, y, z)
  PROVE  Runs(fam, c, x, z)
<1>1. PICK n \in Nat : \E g : g[0] = x /\ g[n] = y /\ \A j \in 0 .. n - 1 : Goes1(fam, c, g[j], g[j + 1])
  BY DEF Runs
<1>11. PICK g : g[0] = x /\ g[n] = y /\ \A j \in 0 .. n - 1 : Goes1(fam, c, g[j], g[j + 1])
  BY <1>1
<1>2. PICK m \in Nat : \E h : h[0] = y /\ h[m] = z /\ \A j \in 0 .. m - 1 : Goes1(fam, c, h[j], h[j + 1])
  BY DEF Runs
<1>12. PICK h : h[0] = y /\ h[m] = z /\ \A j \in 0 .. m - 1 : Goes1(fam, c, h[j], h[j + 1])
  BY <1>2
<1> DEFINE k == [j \in 0 .. n + m |-> IF j <= n THEN g[j] ELSE h[j - n]]
<1>3. n + m \in Nat /\ 0 \in 0 .. n + m /\ n + m \in 0 .. n + m
  OBVIOUS
<1>4. \A j \in 0 .. n + m : k[j] = IF j <= n THEN g[j] ELSE h[j - n]
  OBVIOUS
<1> HIDE DEF k
<1>5. k[0] = x
  BY <1>11, <1>3, <1>4
<1>6. k[n + m] = z
  <2>1. CASE m = 0
    BY <1>11, <1>12, <1>3, <1>4, <2>1
  <2>2. CASE m # 0
    <3>1. ~(n + m <= n) /\ n + m - n = m
      BY <2>2
    <3> QED  BY <1>12, <1>3, <1>4, <3>1
  <2> QED  BY <2>1, <2>2
<1>7. ASSUME NEW j \in 0 .. n + m - 1 PROVE Goes1(fam, c, k[j], k[j + 1])
  <2>1. j \in 0 .. n + m /\ j + 1 \in 0 .. n + m
    OBVIOUS
  <2>2. k[j] = (IF j <= n THEN g[j] ELSE h[j - n]) /\ k[j + 1] = (IF j + 1 <= n THEN g[j + 1] ELSE h[j + 1 - n])
    BY <1>4, <2>1
  <2>3. CASE j < n
    <3>1. j \in 0 .. n - 1 /\ j <= n /\ j + 1 <= n
      BY <2>3
    <3> QED  BY <1>11, <2>2, <3>1
  <2>4. CASE j >= n
    <3>1. j - n \in 0 .. m - 1 /\ ~(j + 1 <= n) /\ j + 1 - n = (j - n) + 1
      BY <2>4
    <3>2. k[j] = h[j - n]
      <4>1. CASE j = n
        <5>1. j - n = 0 /\ j <= n
          BY <4>1
        <5> QED  BY <1>11, <1>12, <2>2, <4>1, <5>1
      <4>2. CASE j # n
        BY <2>2, <2>4, <4>2
      <4> QED  BY <4>1, <4>2
    <3> QED  BY <1>12, <2>2, <3>1, <3>2
  <2> QED  BY <2>3, <2>4
<1> QED  BY <1>3, <1>5, <1>6, <1>7 DEF Runs

LEMMA RunsOne ==
  ASSUME NEW fam, NEW c, NEW x, NEW y, Goes1(fam, c, x, y)
  PROVE  Runs(fam, c, x, y)
<1> DEFINE g == [j \in {0, 1} |-> IF j = 0 THEN x ELSE y]
<1>1. g[0] = x /\ g[1] = y /\ 1 \in Nat
  OBVIOUS
<1> HIDE DEF g
<1>2. \A j \in 0 .. 1 - 1 : j = 0 /\ j + 1 = 1
  OBVIOUS
<1>3. \A j \in 0 .. 1 - 1 : Goes1(fam, c, g[j], g[j + 1])
  BY <1>1, <1>2
<1> QED  BY <1>1, <1>3 DEF Runs

LEMMA DoesOne ==
  ASSUME NEW fam, NEW i, i.op \in Working, NEW x, NEW y, NEW z, Does(fam, i, x, y), Does(fam, i, x, z)
  PROVE  y = z
<1>1. CASE i.op = "expand"
  BY <1>1 DEF Does
<1>2. CASE i.op = "contract"
  BY <1>2 DEF Does
<1>3. CASE i.op = "second"
  BY <1>3 DEF Does
<1>4. CASE i.op = "second, swapped"
  BY <1>4 DEF Does
<1>5. CASE i.op = "select"
  BY <1>5 DEF Does
<1>6. CASE i.op = "jump if not"
  BY <1>6 DEF Does
<1>7. CASE i.op = "enter if"
  BY <1>7 DEF Does
<1>8. CASE i.op = "mov rax"
  BY <1>8 DEF Does
<1>9. CASE i.op = "mov rax, local"
  BY <1>9 DEF Does
<1>10. CASE i.op = "rax := G(rax)"
  BY <1>10 DEF Does
<1>11. CASE i.op = "rax := G([rdi])"
  BY <1>11 DEF Does
<1>12. CASE i.op = "rax := F(rax, rcx)"
  BY <1>12 DEF Does
<1>13. CASE i.op = "rax := F(rcx, rax)"
  BY <1>13 DEF Does
<1>14. CASE i.op = "rax := F([rdi-8], rax)"
  BY <1>14 DEF Does
<1>15. CASE i.op = "rax := F([rdi], rax)"
  BY <1>15 DEF Does
<1>16. CASE i.op = "rax := F(rax, [rdi])"
  BY <1>16 DEF Does
<1>17. CASE i.op = "mov [rdi], rax"
  BY <1>17 DEF Does
<1>18. CASE i.op = "xchg rax, [rdi]"
  BY <1>18 DEF Does
<1>19. CASE i.op = "mov local, rax"
  BY <1>19 DEF Does
<1>20. CASE i.op = "mov rcx, rax"
  BY <1>20 DEF Does
<1>21. CASE i.op = "add rbx"
  BY <1>21 DEF Does
<1>22. CASE i.op = "rep stos"
  BY <1>22 DEF Does
<1>23. CASE i.op = "call"
  BY <1>23 DEF Does
<1>24. CASE i.op = "call shim"
  BY <1>24 DEF Does
<1>25. CASE i.op = "add rdi"
  BY <1>25 DEF Does
<1>26. CASE i.op = "push rdi"
  BY <1>26 DEF Does
<1>27. CASE i.op = "pop rdi"
  BY <1>27 DEF Does
<1>28. CASE i.op = "jmp"
  BY <1>28 DEF Does
<1>29. CASE i.op = "add rsp"
  BY <1>29 DEF Does
<1>30. CASE i.op = "br table"
  BY <1>30 DEF Does
<1> QED  BY <1>1, <1>2, <1>3, <1>4, <1>5, <1>6, <1>7, <1>8, <1>9, <1>10, <1>11, <1>12, <1>13, <1>14, <1>15, <1>16, <1>17, <1>18, <1>19, <1>20, <1>21, <1>22, <1>23, <1>24, <1>25, <1>26, <1>27, <1>28, <1>29, <1>30 DEF Working, StraightOps, Jumps

\* A run that is not over goes on with the next instruction.
LEMMA RunsFirst ==
  ASSUME NEW fam, NEW c, NEW x, NEW y, Runs(fam, c, x, y)
  PROVE  x = y \/ (Going(c, x) /\ \A z : Does(fam, c[x.ip], x, z) => Runs(fam, c, z, y))
<1>1. PICK n \in Nat : \E g : g[0] = x /\ g[n] = y /\ \A j \in 0 .. n - 1 : Goes1(fam, c, g[j], g[j + 1])
  BY DEF Runs
<1>11. PICK g : g[0] = x /\ g[n] = y /\ \A j \in 0 .. n - 1 : Goes1(fam, c, g[j], g[j + 1])
  BY <1>1
<1>2. CASE n = 0
  BY <1>11, <1>2
<1>3. CASE n # 0
  <2>1. n - 1 \in Nat /\ 0 \in 0 .. n - 1 /\ 0 + 1 = 1 /\ (n - 1) + 1 = n /\ n - 1 \in 0 .. n - 1
    BY <1>3
  <2>2. Goes1(fam, c, x, g[1])
    BY <1>11, <2>1
  <2> DEFINE h == [j \in 0 .. n - 1 |-> g[j + 1]]
  <2>3. \A j \in 0 .. n - 1 : h[j] = g[j + 1]
    OBVIOUS
  <2> HIDE DEF h
  <2>4. \A j \in 0 .. (n - 1) - 1 : Goes1(fam, c, h[j], h[j + 1])
    <3> TAKE j \in 0 .. (n - 1) - 1
    <3>1. j \in 0 .. n - 1 /\ j + 1 \in 0 .. n - 1
      BY <2>1
    <3> QED  BY <1>11, <2>3, <3>1
  <2>5. h[0] = g[1] /\ h[n - 1] = y
    BY <1>11, <2>1, <2>3
  <2>6. Runs(fam, c, g[1], y)
    BY <2>1, <2>4, <2>5 DEF Runs
  <2>7. ASSUME NEW z, Does(fam, c[x.ip], x, z) PROVE Runs(fam, c, z, y)
    <3>1. z = g[1]
      BY <2>2, <2>7, DoesOne DEF Goes1, Going
    <3> QED  BY <2>6, <3>1
  <2> QED  BY <2>2, <2>7 DEF Goes1
<1> QED  BY <1>2, <1>3

-----------------------------------------------------------------------------
(* The actions of the machine are these steps.                             *)

LEMMA StepDoes ==
  ASSUME Going(code, Current), RunStep
  PROVE  Does(family, code[ip], Current, Current') /\ UNCHANGED <<phase, compiler, ref>>
<1> DEFINE x == Current
           i == code[ip]
           y == Current'
<1>1. /\ x.ip = ip /\ x.rax = rax /\ x.rcx = rcx /\ x.rdi = rdi /\ x.rbx = rbx /\ x.mem = mem /\ x.lmem = lmem
      /\ x.native = native
  BY DEF Current, Core
<1>2. y = Core(ip', rax', rcx', rdi', rbx', mem', lmem', native')
  BY DEF Current, Core
<1>3. i.op \in Working /\ (i.op = "pop rdi" => Last(native) # RetAddr)
  BY <1>1 DEF Going
<1>4. SlotsOf(family) = Slots /\ LocalsOf(family) = LocalSlots /\ NArgs = family.args /\ NLocals = family.locals
  BY DEF SlotsOf, Slots, LocalsOf, LocalSlots, MaxLen, NLocals, NArgs
<1>5. \A a, b : F(a, b) = Diff(family, a, b)
  BY DEF F, Diff, M
<1> SUFFICES Does(family, i, x, y) /\ UNCHANGED <<phase, compiler, ref>>
  OBVIOUS
<1> HIDE DEF x, y
<1>6. CASE Dbg \/ Ret
  BY <1>3, <1>6 DEF Dbg, Ret, Fetch, Working, StraightOps, Jumps
<1>7. CASE PushExpandStack
  BY <1>1, <1>2, <1>7 DEF PushExpandStack, Fetch, Proceed, Goto, Does, i
<1>8. CASE PopContractStack
  BY <1>1, <1>2, <1>8 DEF PopContractStack, Fetch, Proceed, Goto, Does, i
<1>9. CASE PopSecondParam
  <2>1. CASE i.op = "second"
    BY <1>1, <1>2, <1>9, <2>1 DEF PopSecondParam, Fetch, Proceed, Goto, Does
  <2>2. CASE i.op = "second, swapped"
    BY <1>1, <1>2, <1>9, <2>2 DEF PopSecondParam, Fetch, Proceed, Goto, Does
  <2> QED  BY <1>9, <2>1, <2>2 DEF PopSecondParam, Fetch
<1>10. CASE Compute
  <2>1. CASE Fetch("mov rax") /\ rax' = N
    BY <1>1, <1>2, <1>10, <2>1 DEF Compute, Fetch, Proceed, Goto, Does, N
  <2>2. CASE Fetch("mov rax, local") /\ rax' = lmem[rbx + N]
    BY <1>1, <1>2, <1>10, <2>2 DEF Compute, Fetch, Proceed, Goto, Does, N
  <2>3. CASE Fetch("rax := G(rax)") /\ rax' = G(rax)
    BY <1>1, <1>2, <1>10, <2>3 DEF Compute, Fetch, Proceed, Goto, Does
  <2>4. CASE Fetch("rax := G([rdi])") /\ rax' = G(mem[rdi])
    BY <1>1, <1>2, <1>10, <2>4 DEF Compute, Fetch, Proceed, Goto, Does
  <2>5. CASE Fetch("rax := F(rax, rcx)") /\ rax' = F(rax, rcx)
    BY <1>1, <1>2, <1>5, <1>10, <2>5 DEF Compute, Fetch, Proceed, Goto, Does
  <2>6. CASE Fetch("rax := F(rcx, rax)") /\ rax' = F(rcx, rax)
    BY <1>1, <1>2, <1>5, <1>10, <2>6 DEF Compute, Fetch, Proceed, Goto, Does
  <2>7. CASE Fetch("rax := F([rdi-8], rax)") /\ rax' = F(mem[rdi - 1], rax)
    BY <1>1, <1>2, <1>5, <1>10, <2>7 DEF Compute, Fetch, Proceed, Goto, Does
  <2>8. CASE Fetch("rax := F([rdi], rax)") /\ rax' = F(mem[rdi], rax)
    BY <1>1, <1>2, <1>5, <1>10, <2>8 DEF Compute, Fetch, Proceed, Goto, Does
  <2>9. CASE Fetch("rax := F(rax, [rdi])") /\ rax' = F(rax, mem[rdi])
    BY <1>1, <1>2, <1>5, <1>10, <2>9 DEF Compute, Fetch, Proceed, Goto, Does
  <2> QED  BY <1>10, <2>1, <2>2, <2>3, <2>4, <2>5, <2>6, <2>7, <2>8, <2>9 DEF Compute
<1>11. CASE Move
  <2>1. CASE Fetch("mov local, rax") /\ lmem' = [lmem EXCEPT ![rbx + N] = rax] /\ UNCHANGED <<rax, rcx, rdi, rbx, mem>>
    BY <1>1, <1>2, <1>11, <2>1 DEF Move, Fetch, Proceed, Goto, Does, N
  <2>2. CASE Fetch("mov [rdi], rax") /\ mem' = [mem EXCEPT ![rdi] = rax] /\ UNCHANGED <<rax, rcx, rdi, rbx, lmem>>
    BY <1>1, <1>2, <1>11, <2>2 DEF Move, Fetch, Proceed, Goto, Does
  <2>3. CASE /\ Fetch("xchg rax, [rdi]") /\ mem' = [mem EXCEPT ![rdi] = rax] /\ rax' = mem[rdi]
             /\ UNCHANGED <<rcx, rdi, rbx, lmem>>
    BY <1>1, <1>2, <1>11, <2>3 DEF Move, Fetch, Proceed, Goto, Does
  <2>4. CASE Fetch("mov rcx, rax") /\ rcx' = rax /\ UNCHANGED <<rax, rdi, rbx, mem, lmem>>
    BY <1>1, <1>2, <1>11, <2>4 DEF Move, Fetch, Proceed, Goto, Does
  <2>5. CASE Fetch("add rdi") /\ rdi' = rdi + N /\ UNCHANGED <<rax, rcx, rbx, mem, lmem>>
    BY <1>1, <1>2, <1>11, <2>5 DEF Move, Fetch, Proceed, Goto, Does, N
  <2>6. CASE Fetch("add rbx") /\ rbx' = rbx + N /\ UNCHANGED <<rax, rcx, rdi, mem, lmem>>
    BY <1>1, <1>2, <1>11, <2>6 DEF Move, Fetch, Proceed, Goto, Does, N
  <2> QED  BY <1>11, <2>1, <2>2, <2>3, <2>4, <2>5, <2>6 DEF Move
<1>12. CASE RepStos
  BY <1>1, <1>2, <1>4, <1>12 DEF RepStos, Fetch, Proceed, Goto, Does, i
<1>13. CASE Select
  BY <1>1, <1>2, <1>13 DEF Select, Fetch, Proceed, Goto, Does, i
<1>14. CASE PushRdiStep
  BY <1>1, <1>2, <1>14 DEF PushRdiStep, Fetch, Proceed, Goto, Does, i
<1>15. CASE PopRdiStep
  BY <1>1, <1>2, <1>3, <1>15 DEF PopRdiStep, Fetch, Proceed, Goto, Does, i
<1>16. CASE Jmp
  BY <1>1, <1>2, <1>16 DEF Jmp, Fetch, Proceed, Goto, Does, N, i
<1>17. CASE JumpNIf
  BY <1>1, <1>2, <1>17 DEF JumpNIf, Fetch, Proceed, Goto, Does, Forked, N, i
<1>18. CASE EnterIF
  BY <1>1, <1>2, <1>18 DEF EnterIF, Fetch, Proceed, Goto, Does, Forked, N, i
<1>19. CASE BranchTable
  BY <1>1, <1>2, <1>19 DEF BranchTable, Fetch, Proceed, Goto, Does, Tabled, N, i
<1>20. CASE AddRsp
  BY <1>1, <1>2, <1>20 DEF AddRsp, Fetch, Proceed, Goto, Does, N, i
<1>21. CASE Call
  <2>3. mem' = Kept(family, x.mem, x.rdi) /\ lmem' = KeptLocals(family, x.lmem, x.rbx)
    BY <1>1, <1>4, <1>21 DEF Call, Kept, KeptLocals
  <2>1. CASE i.op = "call"
    BY <1>1, <1>2, <1>4, <1>5, <1>21, <2>1, <2>3 DEF Call, Fetch, Proceed, Goto, Does
  <2>2. CASE i.op = "call shim"
    BY <1>1, <1>2, <1>4, <1>5, <1>21, <2>2, <2>3 DEF Call, Fetch, Proceed, Goto, Does
  <2> QED  BY <1>21, <2>1, <2>2 DEF Call, Fetch
<1> QED  BY <1>6, <1>7, <1>8, <1>9, <1>10, <1>11, <1>12, <1>13, <1>14, <1>15, <1>16, <1>17, <1>18, <1>19, <1>20, <1>21
         DEF RunStep

-----------------------------------------------------------------------------
(* The same steps, each by itself.                                         *)

LEMMA Go ==
  ASSUME NEW fam, NEW c, NEW p, NEW a, NEW cx, NEW di, NEW bx, NEW m, NEW lm, NEW nat,
         c[p].op \in Working, c[p].op = "pop rdi" => Last(nat) # RetAddr
  PROVE  LET x == Core(p, a, cx, di, bx, m, lm, nat)
         IN  /\ x.ip = p /\ x.rax = a /\ x.rcx = cx /\ x.rdi = di /\ x.rbx = bx /\ x.mem = m /\ x.lmem = lm
             /\ x.native = nat
             /\ \A y : Does(fam, c[p], x, y) => Runs(fam, c, x, y)
<1> DEFINE x == Core(p, a, cx, di, bx, m, lm, nat)
<1>1. /\ x.ip = p /\ x.rax = a /\ x.rcx = cx /\ x.rdi = di /\ x.rbx = bx /\ x.mem = m /\ x.lmem = lm
      /\ x.native = nat
  BY DEF Core
<1> HIDE DEF x
<1>2. \A y : Does(fam, c[p], x, y) => Runs(fam, c, x, y)
  BY <1>1, RunsOne DEF Goes1, Going
<1> QED  BY <1>1, <1>2 DEF x

LEMMA GoExpand ==
  ASSUME NEW fam, NEW c, NEW p, NEW a, NEW cx, NEW di, NEW bx, NEW m, NEW lm, NEW nat, c[p].op = "expand"
  PROVE  Runs(fam, c, Core(p, a, cx, di, bx, m, lm, nat),
                      Core(p + 1, a, cx, di + 1, bx, [m EXCEPT ![di] = a], lm, nat))
<1> DEFINE x == Core(p, a, cx, di, bx, m, lm, nat)
<1>1. c[p].op \in Working /\ (c[p].op = "pop rdi" => Last(nat) # RetAddr)
  BY DEF Working, StraightOps, Jumps
<1>2. /\ x.ip = p /\ x.rax = a /\ x.rcx = cx /\ x.rdi = di /\ x.rbx = bx /\ x.mem = m /\ x.lmem = lm
      /\ x.native = nat
      /\ \A y : Does(fam, c[p], x, y) => Runs(fam, c, x, y)
  BY <1>1, Go
<1> HIDE DEF x
<1> QED  BY <1>2, Zenon DEF Does, x

LEMMA GoContract ==
  ASSUME NEW fam, NEW c, NEW p, NEW a, NEW cx, NEW di, NEW bx, NEW m, NEW lm, NEW nat, c[p].op = "contract"
  PROVE  Runs(fam, c, Core(p, a, cx, di, bx, m, lm, nat),
                      Core(p + 1, m[di - 1], cx, di - 1, bx, m, lm, nat))
<1> DEFINE x == Core(p, a, cx, di, bx, m, lm, nat)
<1>1. c[p].op \in Working /\ (c[p].op = "pop rdi" => Last(nat) # RetAddr)
  BY DEF Working, StraightOps, Jumps
<1>2. /\ x.ip = p /\ x.rax = a /\ x.rcx = cx /\ x.rdi = di /\ x.rbx = bx /\ x.mem = m /\ x.lmem = lm
      /\ x.native = nat
      /\ \A y : Does(fam, c[p], x, y) => Runs(fam, c, x, y)
  BY <1>1, Go
<1> HIDE DEF x
<1> QED  BY <1>2, Zenon DEF Does, x

LEMMA GoSecond ==
  ASSUME NEW fam, NEW c, NEW p, NEW a, NEW cx, NEW di, NEW bx, NEW m, NEW lm, NEW nat, c[p].op = "second"
  PROVE  Runs(fam, c, Core(p, a, cx, di, bx, m, lm, nat),
                      Core(p + 1, a, m[di - 1], di - 1, bx, m, lm, nat))
<1> DEFINE x == Core(p, a, cx, di, bx, m, lm, nat)
<1>1. c[p].op \in Working /\ (c[p].op = "pop rdi" => Last(nat) # RetAddr)
  BY DEF Working, StraightOps, Jumps
<1>2. /\ x.ip = p /\ x.rax = a /\ x.rcx = cx /\ x.rdi = di /\ x.rbx = bx /\ x.mem = m /\ x.lmem = lm
      /\ x.native = nat
      /\ \A y : Does(fam, c[p], x, y) => Runs(fam, c, x, y)
  BY <1>1, Go
<1> HIDE DEF x
<1> QED  BY <1>2, Zenon DEF Does, x

LEMMA GoSwapped ==
  ASSUME NEW fam, NEW c, NEW p, NEW a, NEW cx, NEW di, NEW bx, NEW m, NEW lm, NEW nat, c[p].op = "second, swapped"
  PROVE  Runs(fam, c, Core(p, a, cx, di, bx, m, lm, nat),
                      Core(p + 1, m[di - 1], a, di - 1, bx, m, lm, nat))
<1> DEFINE x == Core(p, a, cx, di, bx, m, lm, nat)
<1>1. c[p].op \in Working /\ (c[p].op = "pop rdi" => Last(nat) # RetAddr)
  BY DEF Working, StraightOps, Jumps
<1>2. /\ x.ip = p /\ x.rax = a /\ x.rcx = cx /\ x.rdi = di /\ x.rbx = bx /\ x.mem = m /\ x.lmem = lm
      /\ x.native = nat
      /\ \A y : Does(fam, c[p], x, y) => Runs(fam, c, x, y)
  BY <1>1, Go
<1> HIDE DEF x
<1> QED  BY <1>2, Zenon DEF Does, x

LEMMA GoSelect ==
  ASSUME NEW fam, NEW c, NEW p, NEW a, NEW cx, NEW di, NEW bx, NEW m, NEW lm, NEW nat, c[p].op = "select"
  PROVE  Runs(fam, c, Core(p, a, cx, di, bx, m, lm, nat),
                      Core(p + 1, m[IF a # 0 THEN di - 2 ELSE di - 1], cx, di - 2, bx, m, lm, nat))
<1> DEFINE x == Core(p, a, cx, di, bx, m, lm, nat)
<1>1. c[p].op \in Working /\ (c[p].op = "pop rdi" => Last(nat) # RetAddr)
  BY DEF Working, StraightOps, Jumps
<1>2. /\ x.ip = p /\ x.rax = a /\ x.rcx = cx /\ x.rdi = di /\ x.rbx = bx /\ x.mem = m /\ x.lmem = lm
      /\ x.native = nat
      /\ \A y : Does(fam, c[p], x, y) => Runs(fam, c, x, y)
  BY <1>1, Go
<1> HIDE DEF x
<1> QED  BY <1>2, Zenon DEF Does, x

LEMMA GoMovRax ==
  ASSUME NEW fam, NEW c, NEW p, NEW a, NEW cx, NEW di, NEW bx, NEW m, NEW lm, NEW nat, c[p].op = "mov rax"
  PROVE  Runs(fam, c, Core(p, a, cx, di, bx, m, lm, nat),
                      Core(p + 1, c[p].n, cx, di, bx, m, lm, nat))
<1> DEFINE x == Core(p, a, cx, di, bx, m, lm, nat)
<1>1. c[p].op \in Working /\ (c[p].op = "pop rdi" => Last(nat) # RetAddr)
  BY DEF Working, StraightOps, Jumps
<1>2. /\ x.ip = p /\ x.rax = a /\ x.rcx = cx /\ x.rdi = di /\ x.rbx = bx /\ x.mem = m /\ x.lmem = lm
      /\ x.native = nat
      /\ \A y : Does(fam, c[p], x, y) => Runs(fam, c, x, y)
  BY <1>1, Go
<1> HIDE DEF x
<1> QED  BY <1>2, Zenon DEF Does, x

LEMMA GoGetLocal ==
  ASSUME NEW fam, NEW c, NEW p, NEW a, NEW cx, NEW di, NEW bx, NEW m, NEW lm, NEW nat, c[p].op = "mov rax, local"
  PROVE  Runs(fam, c, Core(p, a, cx, di, bx, m, lm, nat),
                      Core(p + 1, lm[bx + c[p].n], cx, di, bx, m, lm, nat))
<1> DEFINE x == Core(p, a, cx, di, bx, m, lm, nat)
<1>1. c[p].op \in Working /\ (c[p].op = "pop rdi" => Last(nat) # RetAddr)
  BY DEF Working, StraightOps, Jumps
<1>2. /\ x.ip = p /\ x.rax = a /\ x.rcx = cx /\ x.rdi = di /\ x.rbx = bx /\ x.mem = m /\ x.lmem = lm
      /\ x.native = nat
      /\ \A y : Does(fam, c[p], x, y) => Runs(fam, c, x, y)
  BY <1>1, Go
<1> HIDE DEF x
<1> QED  BY <1>2, Zenon DEF Does, x

LEMMA GoG ==
  ASSUME NEW fam, NEW c, NEW p, NEW a, NEW cx, NEW di, NEW bx, NEW m, NEW lm, NEW nat, c[p].op = "rax := G(rax)"
  PROVE  Runs(fam, c, Core(p, a, cx, di, bx, m, lm, nat),
                      Core(p + 1, G(a), cx, di, bx, m, lm, nat))
<1> DEFINE x == Core(p, a, cx, di, bx, m, lm, nat)
<1>1. c[p].op \in Working /\ (c[p].op = "pop rdi" => Last(nat) # RetAddr)
  BY DEF Working, StraightOps, Jumps
<1>2. /\ x.ip = p /\ x.rax = a /\ x.rcx = cx /\ x.rdi = di /\ x.rbx = bx /\ x.mem = m /\ x.lmem = lm
      /\ x.native = nat
      /\ \A y : Does(fam, c[p], x, y) => Runs(fam, c, x, y)
  BY <1>1, Go
<1> HIDE DEF x
<1> QED  BY <1>2, Zenon DEF Does, x

LEMMA GoGMem ==
  ASSUME NEW fam, NEW c, NEW p, NEW a, NEW cx, NEW di, NEW bx, NEW m, NEW lm, NEW nat, c[p].op = "rax := G([rdi])"
  PROVE  Runs(fam, c, Core(p, a, cx, di, bx, m, lm, nat),
                      Core(p + 1, G(m[di]), cx, di, bx, m, lm, nat))
<1> DEFINE x == Core(p, a, cx, di, bx, m, lm, nat)
<1>1. c[p].op \in Working /\ (c[p].op = "pop rdi" => Last(nat) # RetAddr)
  BY DEF Working, StraightOps, Jumps
<1>2. /\ x.ip = p /\ x.rax = a /\ x.rcx = cx /\ x.rdi = di /\ x.rbx = bx /\ x.mem = m /\ x.lmem = lm
      /\ x.native = nat
      /\ \A y : Does(fam, c[p], x, y) => Runs(fam, c, x, y)
  BY <1>1, Go
<1> HIDE DEF x
<1> QED  BY <1>2, Zenon DEF Does, x

LEMMA GoF ==
  ASSUME NEW fam, NEW c, NEW p, NEW a, NEW cx, NEW di, NEW bx, NEW m, NEW lm, NEW nat, c[p].op = "rax := F(rax, rcx)"
  PROVE  Runs(fam, c, Core(p, a, cx, di, bx, m, lm, nat),
                      Core(p + 1, Diff(fam, a, cx), cx, di, bx, m, lm, nat))
<1> DEFINE x == Core(p, a, cx, di, bx, m, lm, nat)
<1>1. c[p].op \in Working /\ (c[p].op = "pop rdi" => Last(nat) # RetAddr)
  BY DEF Working, StraightOps, Jumps
<1>2. /\ x.ip = p /\ x.rax = a /\ x.rcx = cx /\ x.rdi = di /\ x.rbx = bx /\ x.mem = m /\ x.lmem = lm
      /\ x.native = nat
      /\ \A y : Does(fam, c[p], x, y) => Runs(fam, c, x, y)
  BY <1>1, Go
<1> HIDE DEF x
<1> QED  BY <1>2, Zenon DEF Does, x

LEMMA GoFBack ==
  ASSUME NEW fam, NEW c, NEW p, NEW a, NEW cx, NEW di, NEW bx, NEW m, NEW lm, NEW nat, c[p].op = "rax := F(rcx, rax)"
  PROVE  Runs(fam, c, Core(p, a, cx, di, bx, m, lm, nat),
                      Core(p + 1, Diff(fam, cx, a), cx, di, bx, m, lm, nat))
<1> DEFINE x == Core(p, a, cx, di, bx, m, lm, nat)
<1>1. c[p].op \in Working /\ (c[p].op = "pop rdi" => Last(nat) # RetAddr)
  BY DEF Working, StraightOps, Jumps
<1>2. /\ x.ip = p /\ x.rax = a /\ x.rcx = cx /\ x.rdi = di /\ x.rbx = bx /\ x.mem = m /\ x.lmem = lm
      /\ x.native = nat
      /\ \A y : Does(fam, c[p], x, y) => Runs(fam, c, x, y)
  BY <1>1, Go
<1> HIDE DEF x
<1> QED  BY <1>2, Zenon DEF Does, x

LEMMA GoFBelow ==
  ASSUME NEW fam, NEW c, NEW p, NEW a, NEW cx, NEW di, NEW bx, NEW m, NEW lm, NEW nat, c[p].op = "rax := F([rdi-8], rax)"
  PROVE  Runs(fam, c, Core(p, a, cx, di, bx, m, lm, nat),
                      Core(p + 1, Diff(fam, m[di - 1], a), cx, di, bx, m, lm, nat))
<1> DEFINE x == Core(p, a, cx, di, bx, m, lm, nat)
<1>1. c[p].op \in Working /\ (c[p].op = "pop rdi" => Last(nat) # RetAddr)
  BY DEF Working, StraightOps, Jumps
<1>2. /\ x.ip = p /\ x.rax = a /\ x.rcx = cx /\ x.rdi = di /\ x.rbx = bx /\ x.mem = m /\ x.lmem = lm
      /\ x.native = nat
      /\ \A y : Does(fam, c[p], x, y) => Runs(fam, c, x, y)
  BY <1>1, Go
<1> HIDE DEF x
<1> QED  BY <1>2, Zenon DEF Does, x

LEMMA GoFMem ==
  ASSUME NEW fam, NEW c, NEW p, NEW a, NEW cx, NEW di, NEW bx, NEW m, NEW lm, NEW nat, c[p].op = "rax := F([rdi], rax)"
  PROVE  Runs(fam, c, Core(p, a, cx, di, bx, m, lm, nat),
                      Core(p + 1, Diff(fam, m[di], a), cx, di, bx, m, lm, nat))
<1> DEFINE x == Core(p, a, cx, di, bx, m, lm, nat)
<1>1. c[p].op \in Working /\ (c[p].op = "pop rdi" => Last(nat) # RetAddr)
  BY DEF Working, StraightOps, Jumps
<1>2. /\ x.ip = p /\ x.rax = a /\ x.rcx = cx /\ x.rdi = di /\ x.rbx = bx /\ x.mem = m /\ x.lmem = lm
      /\ x.native = nat
      /\ \A y : Does(fam, c[p], x, y) => Runs(fam, c, x, y)
  BY <1>1, Go
<1> HIDE DEF x
<1> QED  BY <1>2, Zenon DEF Does, x

LEMMA GoFMemBack ==
  ASSUME NEW fam, NEW c, NEW p, NEW a, NEW cx, NEW di, NEW bx, NEW m, NEW lm, NEW nat, c[p].op = "rax := F(rax, [rdi])"
  PROVE  Runs(fam, c, Core(p, a, cx, di, bx, m, lm, nat),
                      Core(p + 1, Diff(fam, a, m[di]), cx, di, bx, m, lm, nat))
<1> DEFINE x == Core(p, a, cx, di, bx, m, lm, nat)
<1>1. c[p].op \in Working /\ (c[p].op = "pop rdi" => Last(nat) # RetAddr)
  BY DEF Working, StraightOps, Jumps
<1>2. /\ x.ip = p /\ x.rax = a /\ x.rcx = cx /\ x.rdi = di /\ x.rbx = bx /\ x.mem = m /\ x.lmem = lm
      /\ x.native = nat
      /\ \A y : Does(fam, c[p], x, y) => Runs(fam, c, x, y)
  BY <1>1, Go
<1> HIDE DEF x
<1> QED  BY <1>2, Zenon DEF Does, x

LEMMA GoStore ==
  ASSUME NEW fam, NEW c, NEW p, NEW a, NEW cx, NEW di, NEW bx, NEW m, NEW lm, NEW nat, c[p].op = "mov [rdi], rax"
  PROVE  Runs(fam, c, Core(p, a, cx, di, bx, m, lm, nat),
                      Core(p + 1, a, cx, di, bx, [m EXCEPT ![di] = a], lm, nat))
<1> DEFINE x == Core(p, a, cx, di, bx, m, lm, nat)
<1>1. c[p].op \in Working /\ (c[p].op = "pop rdi" => Last(nat) # RetAddr)
  BY DEF Working, StraightOps, Jumps
<1>2. /\ x.ip = p /\ x.rax = a /\ x.rcx = cx /\ x.rdi = di /\ x.rbx = bx /\ x.mem = m /\ x.lmem = lm
      /\ x.native = nat
      /\ \A y : Does(fam, c[p], x, y) => Runs(fam, c, x, y)
  BY <1>1, Go
<1> HIDE DEF x
<1> QED  BY <1>2, Zenon DEF Does, x

LEMMA GoXchg ==
  ASSUME NEW fam, NEW c, NEW p, NEW a, NEW cx, NEW di, NEW bx, NEW m, NEW lm, NEW nat, c[p].op = "xchg rax, [rdi]"
  PROVE  Runs(fam, c, Core(p, a, cx, di, bx, m, lm, nat),
                      Core(p + 1, m[di], cx, di, bx, [m EXCEPT ![di] = a], lm, nat))
<1> DEFINE x == Core(p, a, cx, di, bx, m, lm, nat)
<1>1. c[p].op \in Working /\ (c[p].op = "pop rdi" => Last(nat) # RetAddr)
  BY DEF Working, StraightOps, Jumps
<1>2. /\ x.ip = p /\ x.rax = a /\ x.rcx = cx /\ x.rdi = di /\ x.rbx = bx /\ x.mem = m /\ x.lmem = lm
      /\ x.native = nat
      /\ \A y : Does(fam, c[p], x, y) => Runs(fam, c, x, y)
  BY <1>1, Go
<1> HIDE DEF x
<1> QED  BY <1>2, Zenon DEF Does, x

LEMMA GoSetLocal ==
  ASSUME NEW fam, NEW c, NEW p, NEW a, NEW cx, NEW di, NEW bx, NEW m, NEW lm, NEW nat, c[p].op = "mov local, rax"
  PROVE  Runs(fam, c, Core(p, a, cx, di, bx, m, lm, nat),
                      Core(p + 1, a, cx, di, bx, m, [lm EXCEPT ![bx + c[p].n] = a], nat))
<1> DEFINE x == Core(p, a, cx, di, bx, m, lm, nat)
<1>1. c[p].op \in Working /\ (c[p].op = "pop rdi" => Last(nat) # RetAddr)
  BY DEF Working, StraightOps, Jumps
<1>2. /\ x.ip = p /\ x.rax = a /\ x.rcx = cx /\ x.rdi = di /\ x.rbx = bx /\ x.mem = m /\ x.lmem = lm
      /\ x.native = nat
      /\ \A y : Does(fam, c[p], x, y) => Runs(fam, c, x, y)
  BY <1>1, Go
<1> HIDE DEF x
<1> QED  BY <1>2, Zenon DEF Does, x

LEMMA GoMovRcx ==
  ASSUME NEW fam, NEW c, NEW p, NEW a, NEW cx, NEW di, NEW bx, NEW m, NEW lm, NEW nat, c[p].op = "mov rcx, rax"
  PROVE  Runs(fam, c, Core(p, a, cx, di, bx, m, lm, nat),
                      Core(p + 1, a, a, di, bx, m, lm, nat))
<1> DEFINE x == Core(p, a, cx, di, bx, m, lm, nat)
<1>1. c[p].op \in Working /\ (c[p].op = "pop rdi" => Last(nat) # RetAddr)
  BY DEF Working, StraightOps, Jumps
<1>2. /\ x.ip = p /\ x.rax = a /\ x.rcx = cx /\ x.rdi = di /\ x.rbx = bx /\ x.mem = m /\ x.lmem = lm
      /\ x.native = nat
      /\ \A y : Does(fam, c[p], x, y) => Runs(fam, c, x, y)
  BY <1>1, Go
<1> HIDE DEF x
<1> QED  BY <1>2, Zenon DEF Does, x

LEMMA GoAddRbx ==
  ASSUME NEW fam, NEW c, NEW p, NEW a, NEW cx, NEW di, NEW bx, NEW m, NEW lm, NEW nat, c[p].op = "add rbx"
  PROVE  Runs(fam, c, Core(p, a, cx, di, bx, m, lm, nat),
                      Core(p + 1, a, cx, di, bx + c[p].n, m, lm, nat))
<1> DEFINE x == Core(p, a, cx, di, bx, m, lm, nat)
<1>1. c[p].op \in Working /\ (c[p].op = "pop rdi" => Last(nat) # RetAddr)
  BY DEF Working, StraightOps, Jumps
<1>2. /\ x.ip = p /\ x.rax = a /\ x.rcx = cx /\ x.rdi = di /\ x.rbx = bx /\ x.mem = m /\ x.lmem = lm
      /\ x.native = nat
      /\ \A y : Does(fam, c[p], x, y) => Runs(fam, c, x, y)
  BY <1>1, Go
<1> HIDE DEF x
<1> QED  BY <1>2, Zenon DEF Does, x

LEMMA GoRepStos ==
  ASSUME NEW fam, NEW c, NEW p, NEW a, NEW cx, NEW di, NEW bx, NEW m, NEW lm, NEW nat, c[p].op = "rep stos",
         NEW lm2, lm2 = [j \in LocalsOf(fam) |-> IF j \in bx + fam.args .. bx + fam.locals - 1 THEN 0 ELSE lm[j]]
  PROVE  Runs(fam, c, Core(p, a, cx, di, bx, m, lm, nat), Core(p + 1, 0, 0, di, bx, m, lm2, nat))
<1> DEFINE x == Core(p, a, cx, di, bx, m, lm, nat)
<1>1. c[p].op \in Working /\ (c[p].op = "pop rdi" => Last(nat) # RetAddr)
  BY DEF Working, StraightOps, Jumps
<1>2. /\ x.ip = p /\ x.rax = a /\ x.rcx = cx /\ x.rdi = di /\ x.rbx = bx /\ x.mem = m /\ x.lmem = lm
      /\ x.native = nat
      /\ \A y : Does(fam, c[p], x, y) => Runs(fam, c, x, y)
  BY <1>1, Go
<1> HIDE DEF x
<1> QED  BY <1>2, Zenon DEF Does, x

LEMMA GoCall ==
  ASSUME NEW fam, NEW c, NEW p, NEW a, NEW cx, NEW di, NEW bx, NEW m, NEW lm, NEW nat, c[p].op = "call"
  PROVE  Runs(fam, c, Core(p, a, cx, di, bx, m, lm, nat),
                      Core(p + 1, Diff(fam, lm[bx], lm[bx + 1]), Junk, di + 1, bx,
                            Kept(fam, m, di), KeptLocals(fam, lm, bx), nat))
<1> DEFINE x == Core(p, a, cx, di, bx, m, lm, nat)
<1>1. c[p].op \in Working /\ (c[p].op = "pop rdi" => Last(nat) # RetAddr)
  BY DEF Working, StraightOps, Jumps
<1>2. /\ x.ip = p /\ x.rax = a /\ x.rcx = cx /\ x.rdi = di /\ x.rbx = bx /\ x.mem = m /\ x.lmem = lm
      /\ x.native = nat
      /\ \A y : Does(fam, c[p], x, y) => Runs(fam, c, x, y)
  BY <1>1, Go
<1> HIDE DEF x
<1> QED  BY <1>2, Zenon DEF Does, x

LEMMA GoCallShim ==
  ASSUME NEW fam, NEW c, NEW p, NEW a, NEW cx, NEW di, NEW bx, NEW m, NEW lm, NEW nat, c[p].op = "call shim"
  PROVE  Runs(fam, c, Core(p, a, cx, di, bx, m, lm, nat),
                      Core(p + 1, Diff(fam, Diff(fam, lm[bx], lm[bx + 1]), cx), Junk, di + 1, bx,
                            Kept(fam, m, di), KeptLocals(fam, lm, bx), nat))
<1> DEFINE x == Core(p, a, cx, di, bx, m, lm, nat)
<1>1. c[p].op \in Working /\ (c[p].op = "pop rdi" => Last(nat) # RetAddr)
  BY DEF Working, StraightOps, Jumps
<1>2. /\ x.ip = p /\ x.rax = a /\ x.rcx = cx /\ x.rdi = di /\ x.rbx = bx /\ x.mem = m /\ x.lmem = lm
      /\ x.native = nat
      /\ \A y : Does(fam, c[p], x, y) => Runs(fam, c, x, y)
  BY <1>1, Go
<1> HIDE DEF x
<1> QED  BY <1>2, Zenon DEF Does, x

LEMMA GoAddRdi ==
  ASSUME NEW fam, NEW c, NEW p, NEW a, NEW cx, NEW di, NEW bx, NEW m, NEW lm, NEW nat, c[p].op = "add rdi"
  PROVE  Runs(fam, c, Core(p, a, cx, di, bx, m, lm, nat),
                      Core(p + 1, a, cx, di + c[p].n, bx, m, lm, nat))
<1> DEFINE x == Core(p, a, cx, di, bx, m, lm, nat)
<1>1. c[p].op \in Working /\ (c[p].op = "pop rdi" => Last(nat) # RetAddr)
  BY DEF Working, StraightOps, Jumps
<1>2. /\ x.ip = p /\ x.rax = a /\ x.rcx = cx /\ x.rdi = di /\ x.rbx = bx /\ x.mem = m /\ x.lmem = lm
      /\ x.native = nat
      /\ \A y : Does(fam, c[p], x, y) => Runs(fam, c, x, y)
  BY <1>1, Go
<1> HIDE DEF x
<1> QED  BY <1>2, Zenon DEF Does, x

LEMMA GoPushRdi ==
  ASSUME NEW fam, NEW c, NEW p, NEW a, NEW cx, NEW di, NEW bx, NEW m, NEW lm, NEW nat, c[p].op = "push rdi"
  PROVE  Runs(fam, c, Core(p, a, cx, di, bx, m, lm, nat),
                      Core(p + 1, a, cx, di, bx, m, lm, Append(nat, di)))
<1> DEFINE x == Core(p, a, cx, di, bx, m, lm, nat)
<1>1. c[p].op \in Working /\ (c[p].op = "pop rdi" => Last(nat) # RetAddr)
  BY DEF Working, StraightOps, Jumps
<1>2. /\ x.ip = p /\ x.rax = a /\ x.rcx = cx /\ x.rdi = di /\ x.rbx = bx /\ x.mem = m /\ x.lmem = lm
      /\ x.native = nat
      /\ \A y : Does(fam, c[p], x, y) => Runs(fam, c, x, y)
  BY <1>1, Go
<1> HIDE DEF x
<1> QED  BY <1>2, Zenon DEF Does, x

LEMMA GoPopRdi ==
  ASSUME NEW fam, NEW c, NEW p, NEW a, NEW cx, NEW di, NEW bx, NEW m, NEW lm, NEW nat, c[p].op = "pop rdi", Last(nat) # RetAddr
  PROVE  Runs(fam, c, Core(p, a, cx, di, bx, m, lm, nat),
                      Core(p + 1, a, cx, Last(nat), bx, m, lm, Front(nat)))
<1> DEFINE x == Core(p, a, cx, di, bx, m, lm, nat)
<1>1. c[p].op \in Working /\ (c[p].op = "pop rdi" => Last(nat) # RetAddr)
  BY DEF Working, StraightOps, Jumps
<1>2. /\ x.ip = p /\ x.rax = a /\ x.rcx = cx /\ x.rdi = di /\ x.rbx = bx /\ x.mem = m /\ x.lmem = lm
      /\ x.native = nat
      /\ \A y : Does(fam, c[p], x, y) => Runs(fam, c, x, y)
  BY <1>1, Go
<1> HIDE DEF x
<1> QED  BY <1>2, Zenon DEF Does, x

LEMMA GoJmp ==
  ASSUME NEW fam, NEW c, NEW p, NEW a, NEW cx, NEW di, NEW bx, NEW m, NEW lm, NEW nat, c[p].op = "jmp"
  PROVE  Runs(fam, c, Core(p, a, cx, di, bx, m, lm, nat),
                      Core(c[p].n, a, cx, di, bx, m, lm, nat))
<1> DEFINE x == Core(p, a, cx, di, bx, m, lm, nat)
<1>1. c[p].op \in Working /\ (c[p].op = "pop rdi" => Last(nat) # RetAddr)
  BY DEF Working, StraightOps, Jumps
<1>2. /\ x.ip = p /\ x.rax = a /\ x.rcx = cx /\ x.rdi = di /\ x.rbx = bx /\ x.mem = m /\ x.lmem = lm
      /\ x.native = nat
      /\ \A y : Does(fam, c[p], x, y) => Runs(fam, c, x, y)
  BY <1>1, Go
<1> HIDE DEF x
<1> QED  BY <1>2, Zenon DEF Does, x

LEMMA GoAddRsp ==
  ASSUME NEW fam, NEW c, NEW p, NEW a, NEW cx, NEW di, NEW bx, NEW m, NEW lm, NEW nat, c[p].op = "add rsp"
  PROVE  Runs(fam, c, Core(p, a, cx, di, bx, m, lm, nat),
                      Core(p + 1, a, cx, di, bx, m, lm, Upto(nat, Len(nat) - c[p].n)))
<1> DEFINE x == Core(p, a, cx, di, bx, m, lm, nat)
<1>1. c[p].op \in Working /\ (c[p].op = "pop rdi" => Last(nat) # RetAddr)
  BY DEF Working, StraightOps, Jumps
<1>2. /\ x.ip = p /\ x.rax = a /\ x.rcx = cx /\ x.rdi = di /\ x.rbx = bx /\ x.mem = m /\ x.lmem = lm
      /\ x.native = nat
      /\ \A y : Does(fam, c[p], x, y) => Runs(fam, c, x, y)
  BY <1>1, Go
<1> HIDE DEF x
<1> QED  BY <1>2, Zenon DEF Does, x

-----------------------------------------------------------------------------
(* What the templates do to the operands.  The machine x holds the place q *)
(* of its operand stack in rax or in memory.                               *)

\* A plain opcode as the validator admits it.
PlainOK(fam, ins) ==
    /\ ins.op \in fam.plain /\ ins.op \in PlainOps /\ ins.n \in Nat
    /\ ins.op = "const" => ins.n \in fam.consts
    /\ ins.op \in {"get_local", "set_local", "tee_local"} => ins.n < fam.locals
    /\ ins.op \in {"call", "call_indirect"} => ins.n \in {0, 1}

View(x, q) == IF q = x.rdi - Base THEN x.rax ELSE x.mem[Base + q]

Typed(fam, x) ==
    /\ x = Core(x.ip, x.rax, x.rcx, x.rdi, x.rbx, x.mem, x.lmem, x.native)
    /\ x.ip \in Nat /\ x.rax \in Nat /\ x.rdi \in Nat
    /\ x.mem \in [SlotsOf(fam) -> Nat] /\ x.lmem \in [LocalsOf(fam) -> Nat]

\* A template may start that takes p operands.
Ready(fam, x, p) ==
    /\ Typed(fam, x) /\ x.rbx = 0 /\ p \in Nat /\ fam.len \in Nat
    /\ x.rdi - p >= Base + 1 /\ x.rdi <= Base + fam.len + 1

\* y has the values q where x has p others on top.
Replaces(x, y, p, q) ==
    /\ y.rdi = x.rdi - p + Len(q) /\ y.native = x.native /\ y.rbx = 0
    /\ \A j \in 1 .. x.rdi - Base - p : View(y, j) = View(x, j)
    /\ \A j \in 1 .. Len(q) : View(y, x.rdi - Base - p + j) = q[j]

\* m has the first n places of x, lm the locals of lm2.
Under(x, m, n) == \A j \in 1 .. n : m[Base + j] = View(x, j)
SameLocals(fam, lm, lm2) == \A i \in 0 .. fam.locals - 1 : lm[i] = lm2[i]

\* Running from x replaces p operands by q, makes the locals lm, and ends `size' further on.
Yields(fam, c, x, p, q, lm, size) ==
    \E y : /\ Runs(fam, c, x, y) /\ Typed(fam, y) /\ y.ip = x.ip + size /\ Replaces(x, y, p, q)
           /\ SameLocals(fam, y.lmem, lm)

\* The code has the instructions s after p.
Has(c, p, s) == \A k \in 1 .. Len(s) : c[p + k] = s[k]

LEMMA CoreTyped ==
  ASSUME NEW fam, NEW p \in Nat, NEW a \in Nat, NEW cx, NEW di \in Nat, NEW bx, NEW m \in [SlotsOf(fam) -> Nat],
         NEW lm \in [LocalsOf(fam) -> Nat], NEW nat
  PROVE  Typed(fam, Core(p, a, cx, di, bx, m, lm, nat))
  BY DEF Typed, Core

LEMMA SlotsAre ==
  ASSUME NEW fam, NEW x, NEW p, Ready(fam, x, p)
  PROVE  /\ x.rdi \in SlotsOf(fam) /\ x.rdi - 1 \in SlotsOf(fam)
         /\ \A j \in 1 .. x.rdi - Base : Base + j \in SlotsOf(fam) /\ View(x, j) \in Nat
         /\ \A j \in 1 .. x.rdi - Base - 1 : View(x, j) = x.mem[Base + j]
         /\ View(x, x.rdi - Base) = x.rax
         /\ p \in 0 .. x.rdi - Base - 1 /\ x.rdi - Base - p \in Nat
<1>1. x.rdi \in SlotsOf(fam) /\ x.rdi - 1 \in SlotsOf(fam)
  <2>1. x.rdi \in Nat /\ p \in Nat /\ fam.len \in Nat /\ x.rdi - p >= 2 /\ x.rdi <= fam.len + 2
    BY DEF Ready, Typed, Base
  <2> QED  BY <2>1 DEF SlotsOf, Base
<1>2. \A j \in 1 .. x.rdi - Base : Base + j \in SlotsOf(fam)
  <2> DEFINE d == x.rdi
             n == fam.len
  <2>1. d \in Nat /\ n \in Nat /\ d <= 1 + n + 1
    BY DEF Ready, Typed, Base
  <2> HIDE DEF d, n
  <2>2. \A j \in 1 .. d - 1 : 1 + j \in 0 .. 1 + 2 * n + 6
    BY ONLY <2>1
  <2>3. SlotsOf(fam) = 0 .. 1 + 2 * n + 6 /\ Base = 1
    BY DEF SlotsOf, Base, n
  <2> QED  BY <2>2, <2>3 DEF d
<1>3. \A j \in 1 .. x.rdi - Base - 1 : View(x, j) = x.mem[Base + j]
  BY DEF Ready, Typed, View, Base
<1>4. View(x, x.rdi - Base) = x.rax
  BY DEF View
<1>5. \A j \in 1 .. x.rdi - Base : View(x, j) \in Nat
  BY <1>2 DEF View, Ready, Typed
<1> QED  BY <1>1, <1>2, <1>3, <1>4, <1>5 DEF Ready, Typed, Base

\* The place that is left on top is in rax, the others below it in memory.
LEMMA OneLeft ==
  ASSUME NEW fam, NEW x, NEW p, Ready(fam, x, p), NEW y, y.rdi = x.rdi - p + 1, y.native = x.native, y.rbx = 0,
         \A j \in 1 .. x.rdi - Base - p : y.mem[Base + j] = View(x, j)
  PROVE  Replaces(x, y, p, <<y.rax>>)
<1>1. x.rdi \in Nat /\ p \in Nat
  BY DEF Ready, Typed
<1>2. \A j \in 1 .. x.rdi - Base - p : j # y.rdi - Base
  BY <1>1 DEF Base
<1>3. y.rdi - Base = x.rdi - Base - p + 1
  BY <1>1 DEF Base
<1>4. Len(<<y.rax>>) = 1 /\ <<y.rax>>[1] = y.rax /\ \A j \in 1 .. 1 : j = 1
  OBVIOUS
<1> DEFINE q == <<y.rax>>
<1> HIDE DEF q
<1>5. Len(q) = 1 /\ q[1] = y.rax
  BY <1>4 DEF q
<1>6. \A j \in 1 .. x.rdi - Base - p : View(y, j) = View(x, j)
  BY <1>2 DEF View
<1>7. \A j \in 1 .. Len(q) : View(y, x.rdi - Base - p + j) = q[j]
  BY <1>3, <1>4, <1>5 DEF View
<1> QED  BY <1>5, <1>6, <1>7 DEF Replaces, q

LEMMA NoneLeft ==
  ASSUME NEW fam, NEW x, NEW p, Ready(fam, x, p), NEW y, y.rdi = x.rdi - p, y.native = x.native, y.rbx = 0,
         y.rax = View(x, x.rdi - Base - p), \A j \in 1 .. x.rdi - Base - p - 1 : y.mem[Base + j] = View(x, j)
  PROVE  Replaces(x, y, p, <<>>)
<1>1. x.rdi \in Nat /\ p \in Nat
  BY DEF Ready, Typed
<1>2. \A j \in 1 .. x.rdi - Base - p : j = x.rdi - Base - p \/ j \in 1 .. x.rdi - Base - p - 1
  BY <1>1 DEF Base
<1>3. y.rdi - Base = x.rdi - Base - p
  BY <1>1 DEF Base
<1>4. Len(<<>>) = 0 /\ \A j \in 1 .. 0 : FALSE
  OBVIOUS
<1>5. \A j \in 1 .. x.rdi - Base - p : View(y, j) = View(x, j)
  <2> TAKE j \in 1 .. x.rdi - Base - p
  <2>1. CASE j = x.rdi - Base - p
    BY <1>3, <2>1 DEF View
  <2>2. CASE j # x.rdi - Base - p
    BY <1>2, <1>3, <2>2 DEF View
  <2> QED  BY <2>1, <2>2
<1>6. y.rdi = x.rdi - p + 0
  BY <1>1
<1> DEFINE q == <<>>
<1> HIDE DEF q
<1>7. Len(q) = 0
  BY <1>4 DEF q
<1> QED  BY <1>4, <1>5, <1>6, <1>7 DEF Replaces, q

LEMMA OneYields ==
  ASSUME NEW fam, NEW c, NEW x, NEW p, Ready(fam, x, p), NEW p2 \in Nat, NEW v \in Nat, NEW cx, NEW di,
         NEW m \in [SlotsOf(fam) -> Nat], NEW lm \in [LocalsOf(fam) -> Nat], NEW size,
         Runs(fam, c, x, Core(p2, v, cx, di, 0, m, lm, x.native)), di = x.rdi - p + 1, p2 = x.ip + size,
         NEW n, n = x.rdi - Base - p, Under(x, m, n), NEW lm2, SameLocals(fam, lm, lm2)
  PROVE  Yields(fam, c, x, p, <<v>>, lm2, size)
<1> DEFINE y == Core(p2, v, cx, di, 0, m, lm, x.native)
<1>1. /\ y.ip = p2 /\ y.rax = v /\ y.rdi = di /\ y.rbx = 0 /\ y.mem = m /\ y.lmem = lm /\ y.native = x.native
  BY DEF Core
<1>2. Typed(fam, y)
  <2>1. di \in Nat
    BY DEF Ready, Typed, Base
  <2> QED  BY <2>1, CoreTyped
<1> HIDE DEF y
<1>3. Replaces(x, y, p, <<v>>)
  BY <1>1, OneLeft DEF Under
<1>4. Runs(fam, c, x, y) /\ SameLocals(fam, y.lmem, lm2)
  BY <1>1 DEF y
<1> QED  BY <1>1, <1>2, <1>3, <1>4 DEF Yields

LEMMA NoneYields ==
  ASSUME NEW fam, NEW c, NEW x, NEW p, Ready(fam, x, p), NEW p2 \in Nat, NEW cx, NEW di,
         NEW m \in [SlotsOf(fam) -> Nat], NEW lm \in [LocalsOf(fam) -> Nat], NEW size, NEW v,
         Runs(fam, c, x, Core(p2, v, cx, di, 0, m, lm, x.native)), di = x.rdi - p, p2 = x.ip + size,
         NEW n, n = x.rdi - Base - p, v = View(x, n), Under(x, m, n - 1), NEW lm2, SameLocals(fam, lm, lm2)
  PROVE  Yields(fam, c, x, p, <<>>, lm2, size)
<1> DEFINE y == Core(p2, v, cx, di, 0, m, lm, x.native)
<1>1. /\ y.ip = p2 /\ y.rax = v /\ y.rdi = di /\ y.rbx = 0 /\ y.mem = m /\ y.lmem = lm /\ y.native = x.native
  BY DEF Core
<1>2. Typed(fam, y)
  <2>1. di \in Nat /\ x.rdi - Base - p \in 1 .. x.rdi - Base
    BY DEF Ready, Typed, Base
  <2>2. v \in Nat
    BY <2>1, SlotsAre
  <2> QED  BY <2>1, <2>2, CoreTyped
<1> HIDE DEF y
<1>3. Replaces(x, y, p, <<>>)
  BY <1>1, NoneLeft DEF Under
<1>4. Runs(fam, c, x, y) /\ SameLocals(fam, y.lmem, lm2)
  BY <1>1 DEF y
<1> QED  BY <1>1, <1>2, <1>3, <1>4 DEF Yields

LEMMA HasOne ==
  ASSUME NEW c, NEW p, NEW u, Has(c, p, <<u>>)
  PROVE  c[p + 1] = u
<1>1. Len(<<u>>) = 1 /\ <<u>>[1] = u /\ 1 \in 1 .. 1
  OBVIOUS
<1> QED  BY <1>1 DEF Has

LEMMA HasTwo ==
  ASSUME NEW c, NEW p \in Nat, NEW u, NEW v, Has(c, p, <<u, v>>)
  PROVE  c[p + 1] = u /\ c[p + 1 + 1] = v
<1> DEFINE s == <<u, v>>
<1>1. Len(s) = 2 /\ s[1] = u /\ s[2] = v /\ 1 \in 1 .. 2 /\ 2 \in 1 .. 2 /\ p + 2 = p + 1 + 1
  OBVIOUS
<1> HIDE DEF s
<1>2. Has(c, p, s)
  BY DEF s
<1> QED  BY <1>1, <1>2 DEF Has

LEMMA HasThree ==
  ASSUME NEW c, NEW p \in Nat, NEW u, NEW v, NEW w, Has(c, p, <<u, v, w>>)
  PROVE  c[p + 1] = u /\ c[p + 1 + 1] = v /\ c[p + 1 + 1 + 1] = w
<1> DEFINE s == <<u, v, w>>
<1>1. Len(s) = 3 /\ s[1] = u /\ s[2] = v /\ s[3] = w /\ 1 \in 1 .. 3 /\ 2 \in 1 .. 3 /\ 3 \in 1 .. 3
      /\ p + 2 = p + 1 + 1 /\ p + 3 = p + 1 + 1 + 1
  OBVIOUS
<1> HIDE DEF s
<1>2. Has(c, p, s)
  BY DEF s
<1> QED  BY <1>1, <1>2 DEF Has

LEMMA InsFields == \A op, n : Ins(op, n).op = op /\ Ins(op, n).n = n
  BY DEF Ins

LEMMA ValuesOf ==
  ASSUME NEW fam, fam.m \in Nat \ {0}
  PROVE  /\ \A a, b \in Nat : Diff(fam, a, b) \in Nat
         /\ \A a : G(a) \in Nat
  BY DEF Diff, G

\* What is pushed goes to rax, what was there to memory.
Loads(i, x, v) ==
    \/ i.op = "mov rax" /\ v = i.n
    \/ i.op = "mov rax, local" /\ v = x.lmem[0 + i.n]

LEMMA PushYields ==
  ASSUME NEW fam, NEW c, NEW x, Ready(fam, x, 0), NEW p \in Nat, x.ip = p + 1, NEW v \in Nat,
         c[p + 1].op = "expand", Loads(c[p + 1 + 1], x, v)
  PROVE  Yields(fam, c, x, 0, <<v>>, x.lmem, 2)
<1> DEFINE a == x.rax
           cx == x.rcx
           di == x.rdi
           m == x.mem
           m2 == [m EXCEPT ![di] = a]
           lm == x.lmem
           nat == x.native
           y == Core(p + 1 + 1, a, cx, di + 1, 0, m2, lm, nat)
           z == Core(p + 1 + 1 + 1, v, cx, di + 1, 0, m2, lm, nat)
<1>1. x = Core(p + 1, a, cx, di, 0, m, lm, nat) /\ a \in Nat /\ di \in Nat /\ m \in [SlotsOf(fam) -> Nat]
      /\ lm \in [LocalsOf(fam) -> Nat]
  BY DEF Ready, Typed
<1>2. /\ di \in SlotsOf(fam) /\ View(x, di - Base) = a
      /\ \A j \in 1 .. di - Base : Base + j \in SlotsOf(fam)
      /\ \A j \in 1 .. di - Base - 1 : View(x, j) = m[Base + j]
  BY SlotsAre
<1> HIDE DEF a, cx, di, m, lm, nat
<1>13. di \in Nat /\ di - Base - 0 = di - Base /\ Base = 1
  BY <1>1 DEF Base
<1>4. Runs(fam, c, x, y)
  BY <1>1, GoExpand
<1>5. Runs(fam, c, y, z)
  <2> DEFINE i == c[p + 1 + 1]
  <2>1. CASE i.op = "mov rax" /\ v = i.n
    BY <2>1, GoMovRax
  <2>2. CASE i.op = "mov rax, local" /\ v = lm[0 + i.n]
    BY <2>2, GoGetLocal
  <2> QED  BY <2>1, <2>2 DEF Loads, lm
<1>6. Runs(fam, c, x, z)
  BY <1>4, <1>5, RunsOn
<1>7. m2 \in [SlotsOf(fam) -> Nat] /\ \A j \in SlotsOf(fam) : m2[j] = IF j = di THEN a ELSE m[j]
  BY <1>1, <1>2
<1>8. \A j \in 1 .. di - Base - 0 : m2[Base + j] = View(x, j)
  <2> SUFFICES ASSUME NEW j \in 1 .. di - Base PROVE m2[Base + j] = View(x, j)
    BY <1>13
  <2>1. m2[Base + j] = IF Base + j = di THEN a ELSE m[Base + j]
    BY <1>2, <1>7
  <2>2. j = di - Base \/ (j \in 1 .. di - Base - 1 /\ Base + j # di)
    BY <1>13
  <2>3. j = di - Base => Base + j = di
    BY <1>13
  <2> HIDE DEF m2
  <2> QED  BY <1>2, <2>1, <2>2, <2>3
<1>9. p + 1 + 1 + 1 \in Nat /\ p + 1 + 1 + 1 = x.ip + 2 /\ di + 1 = x.rdi - 0 + 1
  <2>1. x.ip = p + 1 /\ x.rdi \in Nat
    BY DEF Ready, Typed
  <2> QED  BY <2>1 DEF di
<1> DEFINE p2 == p + 1 + 1 + 1
           d2 == di + 1
           none == 0
<1>10. Runs(fam, c, x, Core(p2, v, cx, d2, 0, m2, lm, x.native))
  BY <1>6 DEF nat
<1>11. di - Base = x.rdi - Base - none /\ Under(x, m2, di - Base)
  BY <1>8, <1>13 DEF di, Under
<1>12. SameLocals(fam, lm, x.lmem)
  BY DEF lm, SameLocals
<1>14. Ready(fam, x, none) /\ d2 = x.rdi - none + 1 /\ p2 = x.ip + 2 /\ p2 \in Nat
  BY <1>9
<1> HIDE DEF m2, p2, d2, none
<1>15. Yields(fam, c, x, none, <<v>>, x.lmem, 2)
  BY ONLY <1>1, <1>7, <1>10, <1>11, <1>12, <1>14, OneYields, v \in Nat
<1> QED  BY <1>15 DEF none

\* The registers of a machine that is ready, and its places counted from the top.
LEMMA ReadyFacts ==
  ASSUME NEW fam, NEW x, NEW p, Ready(fam, x, p), NEW q, x.ip = q + 1
  PROVE  /\ x = Core(q + 1, x.rax, x.rcx, x.rdi, 0, x.mem, x.lmem, x.native)
         /\ x.rax \in Nat /\ x.rdi \in Nat /\ x.mem \in [SlotsOf(fam) -> Nat] /\ x.lmem \in [LocalsOf(fam) -> Nat]
         /\ Base = 1 /\ p \in Nat /\ x.rdi - p >= 2 /\ x.rdi \in SlotsOf(fam)
         /\ \A k \in 1 .. x.rdi - Base : /\ View(x, x.rdi - Base - k) = x.mem[x.rdi - k] /\ x.rdi - k \in SlotsOf(fam)
                                         /\ x.mem[x.rdi - k] \in Nat
         /\ View(x, x.rdi - Base) = x.rax
<1>1. /\ x = Core(q + 1, x.rax, x.rcx, x.rdi, 0, x.mem, x.lmem, x.native)
      /\ x.rax \in Nat /\ x.rdi \in Nat /\ x.mem \in [SlotsOf(fam) -> Nat] /\ x.lmem \in [LocalsOf(fam) -> Nat]
  BY DEF Ready, Typed
<1>21. Base = 1 /\ x.rdi >= 1 /\ x.rdi <= fam.len + 2 /\ fam.len \in Nat /\ p \in Nat /\ x.rdi - p >= 2
  BY <1>1 DEF Ready, Base
<1>22. x.rdi \in SlotsOf(fam) /\ SlotsOf(fam) = 0 .. 2 * fam.len + 7
  BY <1>1, <1>21 DEF SlotsOf
<1>2. Base = 1 /\ p \in Nat /\ x.rdi - p >= 2 /\ x.rdi \in SlotsOf(fam)
  BY <1>21, <1>22
<1>3. ASSUME NEW k \in 1 .. x.rdi - Base
      PROVE  /\ View(x, x.rdi - Base - k) = x.mem[x.rdi - k] /\ x.rdi - k \in SlotsOf(fam) /\ x.mem[x.rdi - k] \in Nat
  <2>1. Base + (x.rdi - Base - k) = x.rdi - k /\ x.rdi - Base - k # x.rdi - Base
    BY <1>1, <1>2
  <2> DEFINE di == x.rdi
             l == fam.len
  <2>3. di \in Nat /\ l \in Nat /\ di <= l + 2 /\ k \in 1 .. di - 1
    BY <1>1, <1>21
  <2> HIDE DEF di, l
  <2>4. di - k \in 0 .. 2 * l + 7
    BY <2>3
  <2>2. x.rdi - k \in SlotsOf(fam)
    BY <1>22, <2>4 DEF di, l
  <2> QED  BY <1>1, <2>1, <2>2 DEF View
<1>4. View(x, x.rdi - Base) = x.rax
  BY DEF View
<1> QED  BY <1>1, <1>2, <1>3, <1>4

LEMMA UnderSame ==
  ASSUME NEW fam, NEW x, NEW p, Ready(fam, x, p), p >= 1, NEW m, \A k \in SlotsOf(fam) : k < x.rdi - 1 => m[k] = x.mem[k],
         NEW n, n = x.rdi - Base - p
  PROVE  Under(x, m, n - 1) /\ (p >= 2 => Under(x, m, n))
<1>1. x.rdi \in Nat /\ p \in Nat /\ n = x.rdi - 1 - p
  BY DEF Ready, Typed, Base
<1>2. \A j \in 1 .. x.rdi - Base - 1 : Base + j \in SlotsOf(fam) /\ View(x, j) = x.mem[Base + j]
  <2>1. \A j \in 1 .. x.rdi - Base - 1 : j \in 1 .. x.rdi - Base
    BY <1>1 DEF Base
  <2> QED  BY <2>1, SlotsAre
<1>3. ASSUME NEW j \in 1 .. n, j < n \/ p >= 2 PROVE m[Base + j] = View(x, j)
  <2>1. j \in 1 .. x.rdi - Base - 1 /\ Base + j < x.rdi - 1
    BY <1>1, <1>3 DEF Base
  <2> QED  BY <1>2, <2>1
<1>4. \A j \in 1 .. n - 1 : j \in 1 .. n /\ j < n
  BY <1>1
<1> QED  BY <1>3, <1>4 DEF Under

LEMMA DropYields ==
  ASSUME NEW fam, NEW c, NEW x, Ready(fam, x, 1), NEW p \in Nat, x.ip = p + 1, c[p + 1].op = "contract"
  PROVE  Yields(fam, c, x, 1, <<>>, x.lmem, 1)
<1> DEFINE di == x.rdi
           m == x.mem
           n == di - Base - 1
           one == 1
           p2 == p + 1 + 1
           v == m[di - 1]
<1>1. /\ x = Core(p + 1, x.rax, x.rcx, di, 0, m, x.lmem, x.native) /\ di \in Nat /\ m \in [SlotsOf(fam) -> Nat]
      /\ x.lmem \in [LocalsOf(fam) -> Nat] /\ Base = 1 /\ di - 1 >= 2
      /\ \A k \in 1 .. di - Base : View(x, di - Base - k) = m[di - k]
  BY ReadyFacts
<1>2. Runs(fam, c, x, Core(p2, v, x.rcx, di - 1, 0, m, x.lmem, x.native))
  BY <1>1, GoContract
<1>3. v = View(x, n)
  <2>1. 1 \in 1 .. di - Base
    BY <1>1
  <2> QED  BY <1>1, <2>1
<1>4. Under(x, m, n - 1) /\ n = x.rdi - Base - one
  BY UnderSame
<1>5. p2 \in Nat /\ p2 = x.ip + 1 /\ di - 1 = x.rdi - one /\ Ready(fam, x, one) /\ SameLocals(fam, x.lmem, x.lmem)
  BY DEF SameLocals
<1> HIDE DEF p2, v, n, one
<1>6. Yields(fam, c, x, one, <<>>, x.lmem, 1)
  BY ONLY <1>1, <1>2, <1>3, <1>4, <1>5, NoneYields
<1> QED  BY <1>6 DEF one

LEMMA BinaryEnds ==
  ASSUME NEW fam, fam.m \in Nat \ {0}, NEW c, NEW x, Ready(fam, x, 2), NEW p2 \in Nat, NEW size, p2 = x.ip + size, NEW cx,
         NEW m \in [SlotsOf(fam) -> Nat], \A k \in SlotsOf(fam) : k < x.rdi - 1 => m[k] = x.mem[k],
         NEW d2, d2 = x.rdi - 1, NEW v, v = Diff(fam, x.mem[x.rdi - 1], x.rax),
         Runs(fam, c, x, Core(p2, v, cx, d2, 0, m, x.lmem, x.native))
  PROVE  Yields(fam, c, x, 2, <<v>>, x.lmem, size)
<1> DEFINE n == x.rdi - Base - 2
           two == 2
<1>1. x.rax \in Nat /\ x.rdi \in Nat /\ x.mem[x.rdi - 1] \in Nat /\ x.lmem \in [LocalsOf(fam) -> Nat]
  <2>1. 1 \in 1 .. x.rdi - Base
    BY DEF Ready, Typed, Base
  <2>2. x.ip = (x.ip - 1) + 1
    BY DEF Ready, Typed
  <2> QED  BY <2>1, <2>2, ReadyFacts
<1>2. v \in Nat
  BY <1>1, ValuesOf
<1>3. Under(x, m, n) /\ n = x.rdi - Base - two
  BY UnderSame
<1>4. d2 = x.rdi - two + 1 /\ Ready(fam, x, two) /\ SameLocals(fam, x.lmem, x.lmem)
  BY <1>1 DEF SameLocals
<1> HIDE DEF n, two
<1>5. Yields(fam, c, x, two, <<v>>, x.lmem, size)
  BY <1>1, <1>2, <1>3, <1>4, OneYields
<1> QED  BY <1>5 DEF two

\* The five ways of the binary operators to find their operands.
LEMMA SwappedYields ==
  ASSUME NEW fam, fam.m \in Nat \ {0}, NEW c, NEW x, Ready(fam, x, 2), NEW p \in Nat, x.ip = p + 1, Has(c, p, SwappedOp)
  PROVE  Yields(fam, c, x, 2, <<Diff(fam, x.mem[x.rdi - 1], x.rax)>>, x.lmem, 2)
<1> DEFINE a == x.rax
           cx == x.rcx
           di == x.rdi
           m == x.mem
           lm == x.lmem
           nat == x.native
           under == m[di - 1]
           v == Diff(fam, under, a)
           d2 == di - 1
           p1 == p + 1
           p2 == p + 1 + 1
           p3 == p + 1 + 1 + 1
<1>1. /\ x = Core(p1, a, cx, di, 0, m, lm, nat) /\ a \in Nat /\ di \in Nat /\ m \in [SlotsOf(fam) -> Nat]
      /\ di \in SlotsOf(fam)
  BY ReadyFacts
<1>2. di + -1 = d2 /\ p2 \in Nat /\ p3 \in Nat /\ p + 1 + 1 + 1 + 1 = p3 + 1
  BY <1>1
<1>3. c[p1].op = "second, swapped" /\ c[p2].op = "rax := F(rax, rcx)"
  <2>1. Has(c, p, <<Ins("second, swapped", 0), Ins("rax := F(rax, rcx)", 0)>>)
    BY DEF SwappedOp
  <2>2. c[p1] = Ins("second, swapped", 0) /\ c[p2] = Ins("rax := F(rax, rcx)", 0)
    BY <2>1, HasTwo
  <2> QED  BY <2>2, InsFields

<1>4. Runs(fam, c, x, Core(p3, v, a, d2, 0, m, lm, nat))
  <2>1. Runs(fam, c, x, Core(p2, under, a, d2, 0, m, lm, nat))
    BY <1>1, <1>3, GoSwapped
  <2>2. Runs(fam, c, Core(p2, under, a, d2, 0, m, lm, nat), Core(p3, v, a, d2, 0, m, lm, nat))
    BY <1>2, <1>3, GoF
  <2> QED  BY <2>1, <2>2, RunsOn
<1> HIDE DEF v, d2, under
<1>5. \A k \in SlotsOf(fam) : k < x.rdi - 1 => m[k] = x.mem[k]
  OBVIOUS
<1>6. Runs(fam, c, x, Core(p3, v, a, d2, 0, m, x.lmem, x.native)) /\ d2 = x.rdi - 1
      /\ v = Diff(fam, x.mem[x.rdi - 1], x.rax) /\ p3 = x.ip + 2 /\ p3 \in Nat /\ m \in [SlotsOf(fam) -> Nat]
  BY <1>1, <1>2, <1>4 DEF d2, v, under
<1> HIDE DEF p3, v, d2
<1>7. Yields(fam, c, x, 2, <<v>>, x.lmem, 2)
  BY <1>5, <1>6, BinaryEnds
<1> QED  BY <1>7 DEF v, d2, under


LEMMA UnswappedYields ==
  ASSUME NEW fam, fam.m \in Nat \ {0}, NEW c, NEW x, Ready(fam, x, 2), NEW p \in Nat, x.ip = p + 1, Has(c, p, UnswappedOp)
  PROVE  Yields(fam, c, x, 2, <<Diff(fam, x.mem[x.rdi - 1], x.rax)>>, x.lmem, 2)
<1> DEFINE a == x.rax
           cx == x.rcx
           di == x.rdi
           m == x.mem
           lm == x.lmem
           nat == x.native
           under == m[di - 1]
           v == Diff(fam, under, a)
           d2 == di - 1
           p1 == p + 1
           p2 == p + 1 + 1
           p3 == p + 1 + 1 + 1
<1>1. /\ x = Core(p1, a, cx, di, 0, m, lm, nat) /\ a \in Nat /\ di \in Nat /\ m \in [SlotsOf(fam) -> Nat]
      /\ di \in SlotsOf(fam)
  BY ReadyFacts
<1>2. di + -1 = d2 /\ p2 \in Nat /\ p3 \in Nat /\ p + 1 + 1 + 1 + 1 = p3 + 1
  BY <1>1
<1>3. c[p1].op = "second" /\ c[p2].op = "rax := F(rcx, rax)"
  <2>1. Has(c, p, <<Ins("second", 0), Ins("rax := F(rcx, rax)", 0)>>)
    BY DEF UnswappedOp
  <2>2. c[p1] = Ins("second", 0) /\ c[p2] = Ins("rax := F(rcx, rax)", 0)
    BY <2>1, HasTwo
  <2> QED  BY <2>2, InsFields

<1>4. Runs(fam, c, x, Core(p3, v, under, d2, 0, m, lm, nat))
  <2>1. Runs(fam, c, x, Core(p2, a, under, d2, 0, m, lm, nat))
    BY <1>1, <1>3, GoSecond
  <2>2. Runs(fam, c, Core(p2, a, under, d2, 0, m, lm, nat), Core(p3, v, under, d2, 0, m, lm, nat))
    BY <1>2, <1>3, GoFBack
  <2> QED  BY <2>1, <2>2, RunsOn
<1> HIDE DEF v, d2, under
<1>5. \A k \in SlotsOf(fam) : k < x.rdi - 1 => m[k] = x.mem[k]
  OBVIOUS
<1>6. Runs(fam, c, x, Core(p3, v, under, d2, 0, m, x.lmem, x.native)) /\ d2 = x.rdi - 1
      /\ v = Diff(fam, x.mem[x.rdi - 1], x.rax) /\ p3 = x.ip + 2 /\ p3 \in Nat /\ m \in [SlotsOf(fam) -> Nat]
  BY <1>1, <1>2, <1>4 DEF d2, v, under
<1> HIDE DEF p3, v, d2
<1>7. Yields(fam, c, x, 2, <<v>>, x.lmem, 2)
  BY <1>5, <1>6, BinaryEnds
<1> QED  BY <1>7 DEF v, d2, under


LEMMA MulYields ==
  ASSUME NEW fam, fam.m \in Nat \ {0}, NEW c, NEW x, Ready(fam, x, 2), NEW p \in Nat, x.ip = p + 1, Has(c, p, Mul)
  PROVE  Yields(fam, c, x, 2, <<Diff(fam, x.mem[x.rdi - 1], x.rax)>>, x.lmem, 2)
<1> DEFINE a == x.rax
           cx == x.rcx
           di == x.rdi
           m == x.mem
           lm == x.lmem
           nat == x.native
           under == m[di - 1]
           v == Diff(fam, under, a)
           d2 == di - 1
           p1 == p + 1
           p2 == p + 1 + 1
           p3 == p + 1 + 1 + 1
<1>1. /\ x = Core(p1, a, cx, di, 0, m, lm, nat) /\ a \in Nat /\ di \in Nat /\ m \in [SlotsOf(fam) -> Nat]
      /\ di \in SlotsOf(fam)
  BY ReadyFacts
<1>2. di + -1 = d2 /\ p2 \in Nat /\ p3 \in Nat /\ p + 1 + 1 + 1 + 1 = p3 + 1
  BY <1>1
<1>3. c[p1].op = "rax := F([rdi-8], rax)" /\ c[p2].op = "add rdi" /\ c[p2].n = -1
  <2>1. Has(c, p, <<Ins("rax := F([rdi-8], rax)", 0), Ins("add rdi", -1)>>)
    BY DEF Mul
  <2>2. c[p1] = Ins("rax := F([rdi-8], rax)", 0) /\ c[p2] = Ins("add rdi", -1)
    BY <2>1, HasTwo
  <2>3. Ins("add rdi", -1).op = "add rdi" /\ Ins("add rdi", -1).n = -1
    BY DEF Ins
  <2> QED  BY <2>2, <2>3, InsFields

<1>4. Runs(fam, c, x, Core(p3, v, cx, d2, 0, m, lm, nat))
  <2>1. Runs(fam, c, x, Core(p2, v, cx, di, 0, m, lm, nat))
    BY <1>1, <1>3, GoFBelow
  <2>2. Runs(fam, c, Core(p2, v, cx, di, 0, m, lm, nat), Core(p3, v, cx, d2, 0, m, lm, nat))
    BY <1>2, <1>3, GoAddRdi
  <2> QED  BY <2>1, <2>2, RunsOn
<1> HIDE DEF v, d2, under
<1>5. \A k \in SlotsOf(fam) : k < x.rdi - 1 => m[k] = x.mem[k]
  OBVIOUS
<1>6. Runs(fam, c, x, Core(p3, v, cx, d2, 0, m, x.lmem, x.native)) /\ d2 = x.rdi - 1
      /\ v = Diff(fam, x.mem[x.rdi - 1], x.rax) /\ p3 = x.ip + 2 /\ p3 \in Nat /\ m \in [SlotsOf(fam) -> Nat]
  BY <1>1, <1>2, <1>4 DEF d2, v, under
<1> HIDE DEF p3, v, d2
<1>7. Yields(fam, c, x, 2, <<v>>, x.lmem, 2)
  BY <1>5, <1>6, BinaryEnds
<1> QED  BY <1>7 DEF v, d2, under


LEMMA FloatYields ==
  ASSUME NEW fam, fam.m \in Nat \ {0}, NEW c, NEW x, Ready(fam, x, 2), NEW p \in Nat, x.ip = p + 1, Has(c, p, FloatOp)
  PROVE  Yields(fam, c, x, 2, <<Diff(fam, x.mem[x.rdi - 1], x.rax)>>, x.lmem, 2)
<1> DEFINE a == x.rax
           cx == x.rcx
           di == x.rdi
           m == x.mem
           lm == x.lmem
           nat == x.native
           under == m[di - 1]
           v == Diff(fam, under, a)
           d2 == di - 1
           p1 == p + 1
           p2 == p + 1 + 1
           p3 == p + 1 + 1 + 1
<1>1. /\ x = Core(p1, a, cx, di, 0, m, lm, nat) /\ a \in Nat /\ di \in Nat /\ m \in [SlotsOf(fam) -> Nat]
      /\ di \in SlotsOf(fam)
  BY ReadyFacts
<1>2. di + -1 = d2 /\ p2 \in Nat /\ p3 \in Nat /\ p + 1 + 1 + 1 + 1 = p3 + 1
  BY <1>1
<1>3. c[p1].op = "add rdi" /\ c[p1].n = -1 /\ c[p2].op = "rax := F([rdi], rax)"
  <2>1. Has(c, p, <<Ins("add rdi", -1), Ins("rax := F([rdi], rax)", 0)>>)
    BY DEF FloatOp
  <2>2. c[p1] = Ins("add rdi", -1) /\ c[p2] = Ins("rax := F([rdi], rax)", 0)
    BY <2>1, HasTwo
  <2>3. Ins("add rdi", -1).op = "add rdi" /\ Ins("add rdi", -1).n = -1
    BY DEF Ins
  <2> QED  BY <2>2, <2>3, InsFields

<1>4. Runs(fam, c, x, Core(p3, v, cx, d2, 0, m, lm, nat))
  <2>1. Runs(fam, c, x, Core(p2, a, cx, di + c[p1].n, 0, m, lm, nat))
    BY <1>1, <1>3, GoAddRdi
  <2>2. di + c[p1].n = d2
    BY <1>2, <1>3
  <2>3. Runs(fam, c, Core(p2, a, cx, d2, 0, m, lm, nat), Core(p3, v, cx, d2, 0, m, lm, nat))
    BY <1>3, GoFMem
  <2> QED  BY <2>1, <2>2, <2>3, RunsOn
<1> HIDE DEF v, d2, under
<1>5. \A k \in SlotsOf(fam) : k < x.rdi - 1 => m[k] = x.mem[k]
  OBVIOUS
<1>6. Runs(fam, c, x, Core(p3, v, cx, d2, 0, m, x.lmem, x.native)) /\ d2 = x.rdi - 1
      /\ v = Diff(fam, x.mem[x.rdi - 1], x.rax) /\ p3 = x.ip + 2 /\ p3 \in Nat /\ m \in [SlotsOf(fam) -> Nat]
  BY <1>1, <1>2, <1>4 DEF d2, v, under
<1> HIDE DEF p3, v, d2
<1>7. Yields(fam, c, x, 2, <<v>>, x.lmem, 2)
  BY <1>5, <1>6, BinaryEnds
<1> QED  BY <1>7 DEF v, d2, under


LEMMA DivYields ==
  ASSUME NEW fam, fam.m \in Nat \ {0}, NEW c, NEW x, Ready(fam, x, 2), NEW p \in Nat, x.ip = p + 1, Has(c, p, Div)
  PROVE  Yields(fam, c, x, 2, <<Diff(fam, x.mem[x.rdi - 1], x.rax)>>, x.lmem, 3)
<1> DEFINE a == x.rax
           cx == x.rcx
           di == x.rdi
           m == x.mem
           lm == x.lmem
           nat == x.native
           under == m[di - 1]
           v == Diff(fam, under, a)
           d2 == di - 1
           p1 == p + 1
           p2 == p + 1 + 1
           p3 == p + 1 + 1 + 1
           m2 == [m EXCEPT ![d2] = a]
           p4 == p + 1 + 1 + 1 + 1
<1>1. /\ x = Core(p1, a, cx, di, 0, m, lm, nat) /\ a \in Nat /\ di \in Nat /\ m \in [SlotsOf(fam) -> Nat]
      /\ di \in SlotsOf(fam)
  BY ReadyFacts
<1>2. di + -1 = d2 /\ p2 \in Nat /\ p3 \in Nat /\ p + 1 + 1 + 1 + 1 = p3 + 1
  BY <1>1
<1>3. c[p1].op = "add rdi" /\ c[p1].n = -1 /\ c[p2].op = "xchg rax, [rdi]" /\ c[p3].op = "rax := F(rax, [rdi])"
  <2>1. Has(c, p, <<Ins("add rdi", -1), Ins("xchg rax, [rdi]", 0), Ins("rax := F(rax, [rdi])", 0)>>)
    BY DEF Div
  <2>2. c[p1] = Ins("add rdi", -1) /\ c[p2] = Ins("xchg rax, [rdi]", 0) /\ c[p3] = Ins("rax := F(rax, [rdi])", 0)
    BY <2>1, HasThree
  <2>3. Ins("add rdi", -1).op = "add rdi" /\ Ins("add rdi", -1).n = -1
    BY DEF Ins
  <2> QED  BY <2>2, <2>3, InsFields

<1>31. d2 \in SlotsOf(fam) /\ m2[d2] = a
  <2>1. 1 \in 1 .. x.rdi - Base
    BY DEF Ready, Typed, Base
  <2> QED  BY <1>1, <2>1, ReadyFacts
<1>4. Runs(fam, c, x, Core(p4, v, cx, d2, 0, m2, lm, nat))
  <2>1. Runs(fam, c, x, Core(p2, a, cx, di + c[p1].n, 0, m, lm, nat))
    BY <1>1, <1>3, GoAddRdi
  <2>2. di + c[p1].n = d2
    BY <1>2, <1>3
  <2>3. Runs(fam, c, Core(p2, a, cx, d2, 0, m, lm, nat), Core(p3, under, cx, d2, 0, m2, lm, nat))
    BY <1>3, GoXchg
  <2>4. Runs(fam, c, Core(p3, under, cx, d2, 0, m2, lm, nat), Core(p4, Diff(fam, under, m2[d2]), cx, d2, 0, m2, lm, nat))
    BY <1>3, GoFMemBack
  <2> QED  BY <1>31, <2>1, <2>2, <2>3, <2>4, RunsOn
<1> HIDE DEF v, d2, under
<1>6. m2 \in [SlotsOf(fam) -> Nat]
  BY <1>1
<1>5. \A k \in SlotsOf(fam) : k < x.rdi - 1 => m2[k] = x.mem[k]
  BY <1>1 DEF d2
<1>7. Runs(fam, c, x, Core(p4, v, cx, d2, 0, m2, x.lmem, x.native)) /\ d2 = x.rdi - 1
      /\ v = Diff(fam, x.mem[x.rdi - 1], x.rax) /\ p4 = x.ip + 3 /\ p4 \in Nat /\ m2 \in [SlotsOf(fam) -> Nat]
  BY <1>1, <1>2, <1>4, <1>6 DEF d2, v, under
<1> HIDE DEF p4, v, d2
<1>8. Yields(fam, c, x, 2, <<v>>, x.lmem, 3)
  BY <1>5, <1>7, BinaryEnds
<1> QED  BY <1>8 DEF v, d2, under

IsG(c, k) == c[k].op = "rax := G(rax)"
Is(c, k, op) == c[k].op = op
SetsLocal(c, k, i) == c[k].op = "mov local, rax" /\ c[k].n = i

LEMMA ConvertYields ==
  ASSUME NEW fam, NEW c, NEW x, Ready(fam, x, 1), NEW p \in Nat, x.ip = p + 1, IsG(c, p + 1)
  PROVE  Yields(fam, c, x, 1, <<G(x.rax)>>, x.lmem, 1)
<1> DEFINE a == x.rax
           cx == x.rcx
           di == x.rdi
           m == x.mem
           lm == x.lmem
           nat == x.native
           one == 1
           n == di - Base - one
           p1 == p + 1
           p2 == p + 1 + 1
           p3 == p + 1 + 1 + 1
           v == G(a)
<1>10. x = Core(p1, a, cx, di, 0, m, lm, nat) /\ m \in [SlotsOf(fam) -> Nat] /\ lm \in [LocalsOf(fam) -> Nat]
  BY ReadyFacts
<1>1. a \in Nat /\ di \in Nat /\ di \in SlotsOf(fam) /\ Base = 1 
  BY ReadyFacts
<1>12. di >= 3
  BY <1>1 DEF Ready
<1>11. p2 \in Nat /\ p3 \in Nat
  OBVIOUS
<1>2. \A j \in 1 .. n : j \in 1 .. di - Base - 1 /\ Base + j < di
  BY <1>1, <1>12
<1>3. \A j \in 1 .. n : Base + j \in SlotsOf(fam) /\ View(x, j) = m[Base + j]
  <2>1. \A j \in 1 .. n : j \in 1 .. di - Base
    BY <1>1, <1>12
  <2> QED  BY <1>2, <2>1, SlotsAre
<1>4. Runs(fam, c, x, Core(p2, v, cx, di, 0, m, lm, nat))
  <2>1. Runs(fam, c, Core(p1, a, cx, di, 0, m, lm, nat), Core(p2, v, cx, di, 0, m, lm, nat))
    BY GoG DEF IsG
  <2> QED  BY <1>10, <2>1
<1>5. v \in Nat /\ SameLocals(fam, lm, lm) /\ p2 = x.ip + 1 /\ di = di - one + 1
  BY <1>1 DEF G, SameLocals
<1>6. Under(x, m, n) /\ m \in [SlotsOf(fam) -> Nat]
  BY <1>1, <1>10, <1>2, <1>3 DEF Under
<1> HIDE DEF v, p2, n, one
<1>7. Ready(fam, x, one) /\ n = x.rdi - Base - one
  BY DEF n, one
<1>8. Yields(fam, c, x, one, <<v>>, lm, 1)
  BY <1>1, <1>10, <1>11, <1>4, <1>5, <1>6, <1>7, OneYields
<1> QED  BY <1>8 DEF v, one

LEMMA PopcntYields ==
  ASSUME NEW fam, NEW c, NEW x, Ready(fam, x, 1), NEW p \in Nat, x.ip = p + 1, Has(c, p, Popcnt)
  PROVE  Yields(fam, c, x, 1, <<G(x.rax)>>, x.lmem, 2)
<1> DEFINE a == x.rax
           cx == x.rcx
           di == x.rdi
           m == x.mem
           lm == x.lmem
           nat == x.native
           one == 1
           n == di - Base - one
           p1 == p + 1
           p2 == p + 1 + 1
           p3 == p + 1 + 1 + 1
           m2 == [m EXCEPT ![di] = a]
           v == G(a)
<1>10. x = Core(p1, a, cx, di, 0, m, lm, nat) /\ m \in [SlotsOf(fam) -> Nat] /\ lm \in [LocalsOf(fam) -> Nat]
  BY ReadyFacts
<1>1. a \in Nat /\ di \in Nat /\ di \in SlotsOf(fam) /\ Base = 1 
  BY ReadyFacts
<1>12. di >= 3
  BY <1>1 DEF Ready
<1>11. p2 \in Nat /\ p3 \in Nat
  OBVIOUS
<1>2. \A j \in 1 .. n : j \in 1 .. di - Base - 1 /\ Base + j < di
  BY <1>1, <1>12
<1>3. \A j \in 1 .. n : Base + j \in SlotsOf(fam) /\ View(x, j) = m[Base + j]
  <2>1. \A j \in 1 .. n : j \in 1 .. di - Base
    BY <1>1, <1>12
  <2> QED  BY <1>2, <2>1, SlotsAre
<1>4. Runs(fam, c, x, Core(p3, v, cx, di, 0, m2, lm, nat))
  <2>1. Has(c, p, <<Ins("mov [rdi], rax", 0), Ins("rax := G([rdi])", 0)>>)
    BY DEF Popcnt
  <2>2. c[p1] = Ins("mov [rdi], rax", 0) /\ c[p2] = Ins("rax := G([rdi])", 0)
    BY <2>1, HasTwo
  <2>3. c[p1].op = "mov [rdi], rax" /\ c[p2].op = "rax := G([rdi])"
    BY <2>2, InsFields
  <2>7. Runs(fam, c, Core(p1, a, cx, di, 0, m, lm, nat), Core(p2, a, cx, di, 0, m2, lm, nat))
    BY <2>3, GoStore
  <2>4. Runs(fam, c, x, Core(p2, a, cx, di, 0, m2, lm, nat))
    BY <1>10, <2>7
  <2>5. Runs(fam, c, Core(p2, a, cx, di, 0, m2, lm, nat), Core(p3, G(m2[di]), cx, di, 0, m2, lm, nat))
    BY <2>3, GoGMem
  <2>6. m2[di] = a
    BY <1>1, <1>10
  <2> QED  BY <2>4, <2>5, <2>6, RunsOn
<1>5. v \in Nat /\ SameLocals(fam, lm, lm) /\ p3 = x.ip + 2 /\ di = di - one + 1
  BY <1>1 DEF G, SameLocals
<1>6. Under(x, m2, n) /\ m2 \in [SlotsOf(fam) -> Nat]
  BY <1>1, <1>10, <1>2, <1>3 DEF Under
<1> HIDE DEF v, p3, n, one, m2
<1>7. Ready(fam, x, one) /\ n = x.rdi - Base - one
  BY DEF n, one
<1>8. Yields(fam, c, x, one, <<v>>, lm, 2)
  BY <1>1, <1>10, <1>11, <1>4, <1>5, <1>6, <1>7, OneYields
<1> QED  BY <1>8 DEF v, one

LEMMA SelectYields ==
  ASSUME NEW fam, NEW c, NEW x, Ready(fam, x, 3), NEW p \in Nat, x.ip = p + 1, Is(c, p + 1, "select")
  PROVE  Yields(fam, c, x, 3, <<x.mem[IF x.rax # 0 THEN x.rdi - 2 ELSE x.rdi - 1]>>, x.lmem, 1)
<1> DEFINE a == x.rax
           cx == x.rcx
           di == x.rdi
           m == x.mem
           lm == x.lmem
           nat == x.native
           three == 3
           n == di - Base - three
           p1 == p + 1
           p2 == p + 1 + 1
           p3 == p + 1 + 1 + 1
           d2 == di - 2
           v == m[IF a # 0 THEN di - 2 ELSE di - 1]
<1>10. x = Core(p1, a, cx, di, 0, m, lm, nat) /\ m \in [SlotsOf(fam) -> Nat] /\ lm \in [LocalsOf(fam) -> Nat]
  BY ReadyFacts
<1>1. a \in Nat /\ di \in Nat /\ di \in SlotsOf(fam) /\ Base = 1 
  BY ReadyFacts
<1>12. di >= 5
  BY <1>1 DEF Ready
<1>11. p2 \in Nat /\ p3 \in Nat
  OBVIOUS
<1>2. \A j \in 1 .. n : j \in 1 .. di - Base - 1 /\ Base + j < di
  BY <1>1, <1>12
<1>3. \A j \in 1 .. n : Base + j \in SlotsOf(fam) /\ View(x, j) = m[Base + j]
  <2>1. \A j \in 1 .. n : j \in 1 .. di - Base
    BY <1>1, <1>12
  <2> QED  BY <1>2, <2>1, SlotsAre
<1>31. 1 \in 1 .. di - Base /\ 2 \in 1 .. di - Base
  BY <1>1, <1>12 DEF Ready
<1>32. m[di - 1] \in Nat /\ m[di - 2] \in Nat
  BY <1>31, ReadyFacts
<1>4. Runs(fam, c, x, Core(p2, v, cx, d2, 0, m, lm, nat))
  <2>1. Runs(fam, c, Core(p1, a, cx, di, 0, m, lm, nat), Core(p2, v, cx, d2, 0, m, lm, nat))
    BY GoSelect DEF Is
  <2> QED  BY <1>10, <2>1
<1>5. v \in Nat /\ SameLocals(fam, lm, lm) /\ p2 = x.ip + 1 /\ d2 = di - three + 1
  BY <1>1, <1>32 DEF SameLocals
<1>6. Under(x, m, n)
  BY <1>1, <1>10, <1>2, <1>3 DEF Under
<1> HIDE DEF v, p2, n, three, d2
<1>7. Ready(fam, x, three) /\ n = x.rdi - Base - three
  BY DEF n, three
<1>8. Yields(fam, c, x, three, <<v>>, lm, 1)
  BY <1>1, <1>10, <1>11, <1>4, <1>5, <1>6, <1>7, OneYields
<1> QED  BY <1>8 DEF v, three

LEMMA TeeYields ==
  ASSUME NEW fam, NEW c, NEW x, Ready(fam, x, 1), NEW p \in Nat, x.ip = p + 1, NEW i \in LocalsOf(fam),
         SetsLocal(c, p + 1, i)
  PROVE  Yields(fam, c, x, 1, <<x.rax>>, [x.lmem EXCEPT ![i] = x.rax], 1)
<1> DEFINE a == x.rax
           cx == x.rcx
           di == x.rdi
           m == x.mem
           lm == x.lmem
           nat == x.native
           one == 1
           n == di - Base - one
           p1 == p + 1
           p2 == p + 1 + 1
           p3 == p + 1 + 1 + 1
           lm2 == [lm EXCEPT ![i] = a]
<1>10. x = Core(p1, a, cx, di, 0, m, lm, nat) /\ m \in [SlotsOf(fam) -> Nat] /\ lm \in [LocalsOf(fam) -> Nat]
  BY ReadyFacts
<1>1. a \in Nat /\ di \in Nat /\ di \in SlotsOf(fam) /\ Base = 1 
  BY ReadyFacts
<1>12. di >= 3
  BY <1>1 DEF Ready
<1>11. p2 \in Nat /\ p3 \in Nat
  OBVIOUS
<1>2. \A j \in 1 .. n : j \in 1 .. di - Base - 1 /\ Base + j < di
  BY <1>1, <1>12
<1>3. \A j \in 1 .. n : Base + j \in SlotsOf(fam) /\ View(x, j) = m[Base + j]
  <2>1. \A j \in 1 .. n : j \in 1 .. di - Base
    BY <1>1, <1>12
  <2> QED  BY <1>2, <2>1, SlotsAre
<1>4. Runs(fam, c, x, Core(p2, a, cx, di, 0, m, lm2, nat))
  <2>7. Runs(fam, c, Core(p1, a, cx, di, 0, m, lm, nat), Core(p2, a, cx, di, 0, m, [lm EXCEPT ![0 + c[p1].n] = a], nat))
    BY GoSetLocal DEF SetsLocal
  <2>1. Runs(fam, c, x, Core(p2, a, cx, di, 0, m, [lm EXCEPT ![0 + c[p1].n] = a], nat))
    BY <1>10, <2>7
  <2>4. 0 + i = i
    BY DEF LocalsOf
  <2>2. 0 + c[p1].n = i
    BY <2>4 DEF SetsLocal
  <2> QED  BY <2>1, <2>2
<1>5. SameLocals(fam, lm2, lm2) /\ lm2 \in [LocalsOf(fam) -> Nat] /\ p2 = x.ip + 1 /\ di = di - one + 1
  BY <1>1, <1>10 DEF SameLocals
<1>6. Under(x, m, n)
  BY <1>1, <1>10, <1>2, <1>3 DEF Under
<1> HIDE DEF p2, n, one, lm2
<1>7. Ready(fam, x, one) /\ n = x.rdi - Base - one
  BY DEF n, one
<1>8. Yields(fam, c, x, one, <<a>>, lm2, 1)
  BY <1>1, <1>10, <1>11, <1>4, <1>5, <1>6, <1>7, OneYields
<1> QED  BY <1>8 DEF one, lm2

LEMMA SetYields ==
  ASSUME NEW fam, NEW c, NEW x, Ready(fam, x, 1), NEW p \in Nat, x.ip = p + 1, NEW i \in LocalsOf(fam),
         SetsLocal(c, p + 1, i), Is(c, p + 1 + 1, "contract")
  PROVE  Yields(fam, c, x, 1, <<>>, [x.lmem EXCEPT ![i] = x.rax], 2)
<1> DEFINE a == x.rax
           cx == x.rcx
           di == x.rdi
           m == x.mem
           lm == x.lmem
           nat == x.native
           one == 1
           n == di - Base - one
           p1 == p + 1
           p2 == p + 1 + 1
           p3 == p + 1 + 1 + 1
           lm2 == [lm EXCEPT ![i] = a]
           d2 == di - 1
           v == m[d2]
<1>10. x = Core(p1, a, cx, di, 0, m, lm, nat) /\ m \in [SlotsOf(fam) -> Nat] /\ lm \in [LocalsOf(fam) -> Nat]
  BY ReadyFacts
<1>1. a \in Nat /\ di \in Nat /\ di \in SlotsOf(fam) /\ Base = 1 
  BY ReadyFacts
<1>12. di >= 3
  BY <1>1 DEF Ready
<1>11. p2 \in Nat /\ p3 \in Nat
  OBVIOUS
<1>4. Runs(fam, c, x, Core(p3, v, cx, d2, 0, m, lm2, nat))
  <2>7. Runs(fam, c, Core(p1, a, cx, di, 0, m, lm, nat), Core(p2, a, cx, di, 0, m, [lm EXCEPT ![0 + c[p1].n] = a], nat))
    BY GoSetLocal DEF SetsLocal
  <2>1. Runs(fam, c, x, Core(p2, a, cx, di, 0, m, [lm EXCEPT ![0 + c[p1].n] = a], nat))
    BY <1>10, <2>7
  <2>4. 0 + i = i
    BY DEF LocalsOf
  <2>2. 0 + c[p1].n = i
    BY <2>4 DEF SetsLocal
  <2>3. Runs(fam, c, Core(p2, a, cx, di, 0, m, lm2, nat), Core(p3, v, cx, d2, 0, m, lm2, nat))
    BY GoContract DEF Is
  <2> QED  BY <2>1, <2>2, <2>3, RunsOn
<1>5. SameLocals(fam, lm2, lm2) /\ lm2 \in [LocalsOf(fam) -> Nat] /\ p3 = x.ip + 2 /\ d2 = di - one
  BY <1>1, <1>10 DEF SameLocals
<1>6. Under(x, m, n - 1) /\ n = x.rdi - Base - one
  BY <1>1, UnderSame
<1>7. v = View(x, n)
  <2>1. 1 \in 1 .. di - Base
    BY <1>1, <1>12 DEF Ready
  <2> QED  BY <2>1, ReadyFacts
<1> HIDE DEF p3, n, one, lm2, d2, v
<1>8. Ready(fam, x, one)
  BY DEF one
<1>9. Yields(fam, c, x, one, <<>>, lm2, 2)
  BY ONLY <1>1, <1>10, <1>11, <1>4, <1>5, <1>6, <1>7, <1>8, NoneYields
<1> QED  BY <1>9 DEF one, lm2

LEMMA HasConcat ==
  ASSUME NEW c, NEW p \in Nat, NEW s \in Seq(Straight), NEW t \in Seq(Straight), Has(c, p, s \o t)
  PROVE  Has(c, p, s) /\ Has(c, p + Len(s), t)
<1> DEFINE u == s \o t
           m == Len(s)
           n == Len(t)
<1>1. /\ Len(u) = m + n /\ m \in Nat /\ n \in Nat
      /\ \A i \in 1 .. m : u[i] = s[i]
      /\ \A i \in 1 .. n : u[m + i] = t[i]
  BY ConcatFacts, LenProperties
<1>2. \A k \in 1 .. Len(u) : c[p + k] = u[k]
  BY DEF Has
<1> HIDE DEF u, m, n
<1>3. \A i \in 1 .. m : c[p + i] = s[i]
  <2> TAKE i \in 1 .. m
  <2>1. i \in 1 .. Len(u)
    BY <1>1
  <2> QED  BY <1>1, <1>2, <2>1
<1>4. \A i \in 1 .. n : c[p + m + i] = t[i]
  <2> TAKE i \in 1 .. n
  <2>1. m + i \in 1 .. Len(u) /\ p + m + i = p + (m + i)
    BY <1>1
  <2> QED  BY <1>1, <1>2, <2>1
<1> QED  BY <1>3, <1>4 DEF Has, m, n

LEMMA HasFive ==
  ASSUME NEW c, NEW p \in Nat, NEW u, NEW v, NEW w, NEW y, NEW z, Has(c, p, <<u, v, w, y, z>>)
  PROVE  c[p + 1] = u /\ c[p + 2] = v /\ c[p + 3] = w /\ c[p + 4] = y /\ c[p + 5] = z
<1> DEFINE s == <<u, v, w, y, z>>
<1>1. Len(s) = 5 /\ s[1] = u /\ s[2] = v /\ s[3] = w /\ s[4] = y /\ s[5] = z
      /\ 1 \in 1 .. 5 /\ 2 \in 1 .. 5 /\ 3 \in 1 .. 5 /\ 4 \in 1 .. 5 /\ 5 \in 1 .. 5
  OBVIOUS
<1> HIDE DEF s
<1>2. Has(c, p, s)
  BY DEF s
<1> QED  BY <1>1, <1>2 DEF Has

\* A call from the moving of the arguments on.
Passes(c, q, indirect) ==
    /\ c[q + 1] = Ins("mov local, rax", 1) /\ c[q + 2] = _PopContractStack
    /\ c[q + 3] = Ins("mov local, rax", 0) /\ c[q + 4] = _PopContractStack
    /\ c[q + 5] = _PushExpandStack /\ c[q + 6] = PushRdi
    /\ c[q + 7] = Ins(IF indirect THEN "call shim" ELSE "call", 0)
    /\ c[q + 8] = PopRdi /\ c[q + 9] = Ins("add rbx", -NLocals)

CallSize(hasReturn, indirect) == (IF indirect THEN 12 ELSE 10) + (IF hasReturn THEN 0 ELSE 1)

ArgsAt(p, indirect) == p + (IF indirect THEN 3 ELSE 1)

LEMMA CallHas ==
  ASSUME family \in Families, NEW hasReturn \in BOOLEAN, NEW indirect \in BOOLEAN, NEW c, NEW p \in Nat,
         Has(c, p, CallIfn(hasReturn, indirect))
  PROVE  /\ c[p + 1] = Ins("add rbx", NLocals)
         /\ indirect => c[p + 2] = Ins("mov rcx, rax", 0) /\ c[p + 3] = _PopContractStack
         /\ Passes(c, ArgsAt(p, indirect), indirect)
         /\ ~hasReturn => c[ArgsAt(p, indirect) + 10] = _PopContractStack
         /\ Len(CallIfn(hasReturn, indirect)) = CallSize(hasReturn, indirect)
<1>1. NLocals \in Int /\ -NLocals \in Int
  BY FamilyFacts
<1>2. /\ Ins("add rbx", NLocals) \in Straight /\ Ins("add rbx", -NLocals) \in Straight
      /\ Ins("mov rcx, rax", 0) \in Straight /\ Ins("mov local, rax", 0) \in Straight /\ Ins("mov local, rax", 1) \in Straight
      /\ Ins("call", 0) \in Straight /\ Ins("call shim", 0) \in Straight
  <2>1. \A op \in StraightOps, n \in Int : Ins(op, n) \in Straight
    BY InsType
  <2>2. /\ "add rbx" \in StraightOps /\ "mov rcx, rax" \in StraightOps /\ "mov local, rax" \in StraightOps
        /\ "call" \in StraightOps /\ "call shim" \in StraightOps /\ 0 \in Int /\ 1 \in Int
    BY DEF StraightOps
  <2> QED  BY <1>1, <2>1, <2>2, Zenon
<1> DEFINE call == Ins(IF indirect THEN "call shim" ELSE "call", 0)
           a == <<Ins("add rbx", NLocals)>>
           b == IF indirect THEN <<Ins("mov rcx, rax", 0), _PopContractStack>> ELSE <<>>
           l1 == SetLocal(1, TRUE)
           l0 == SetLocal(0, TRUE)
           d == <<_PushExpandStack, PushRdi, call, PopRdi, Ins("add rbx", -NLocals)>>
           e == IF hasReturn THEN <<>> ELSE <<_PopContractStack>>
           nb == IF indirect THEN 2 ELSE 0
           q == ArgsAt(p, indirect)
           ne == IF hasReturn THEN 0 ELSE 1
<1>3. call \in Straight
  BY <1>2
<1> HIDE DEF call
<1>4. a \in Seq(Straight) /\ Len(a) = 1
  BY <1>2, Tuple1
<1>5. b \in Seq(Straight) /\ Len(b) = nb
  BY <1>2, FixedTemplates, Tuple2, EmptyTs
<1>6. /\ l1 = <<Ins("mov local, rax", 1)>> \o <<_PopContractStack>> /\ l1 \in Seq(Straight) /\ Len(l1) = 2
      /\ <<Ins("mov local, rax", 1)>> \in Seq(Straight) /\ Len(<<Ins("mov local, rax", 1)>>) = 1
  <2> DEFINE h == <<Ins("mov local, rax", 1)>>
             t == <<_PopContractStack>>
  <2>1. l1 = h \o t
    BY DEF SetLocal
  <2>2. <<Ins("mov local, rax", 1)>> \in Seq(Straight) /\ Len(<<Ins("mov local, rax", 1)>>) = 1
    BY <1>2, Tuple1
  <2>3. <<_PopContractStack>> \in Seq(Straight) /\ Len(<<_PopContractStack>>) = 1
    BY FixedTemplates, Tuple1
  <2>4. h \in Seq(Straight) /\ Len(h) = 1 /\ t \in Seq(Straight) /\ Len(t) = 1
    BY <2>2, <2>3
  <2>5. h \o t \in Seq(Straight) /\ Len(h \o t) = 2
    <3> HIDE DEF h, t
    <3>1. h \o t \in Seq(Straight) /\ Len(h \o t) = Len(h) + Len(t)
      BY <2>4, ConcatFacts
    <3> QED  BY <2>4, <3>1
  <2> QED  BY <2>1, <2>2, <2>3, <2>5
<1>7. /\ l0 = <<Ins("mov local, rax", 0)>> \o <<_PopContractStack>> /\ l0 \in Seq(Straight) /\ Len(l0) = 2
      /\ <<Ins("mov local, rax", 0)>> \in Seq(Straight) /\ Len(<<Ins("mov local, rax", 0)>>) = 1
      /\ <<_PopContractStack>> \in Seq(Straight)
  <2> DEFINE h == <<Ins("mov local, rax", 0)>>
             t == <<_PopContractStack>>
  <2>1. l0 = h \o t
    BY DEF SetLocal
  <2>2. <<Ins("mov local, rax", 0)>> \in Seq(Straight) /\ Len(<<Ins("mov local, rax", 0)>>) = 1
    BY <1>2, Tuple1
  <2>3. <<_PopContractStack>> \in Seq(Straight) /\ Len(<<_PopContractStack>>) = 1
    BY FixedTemplates, Tuple1
  <2>4. h \in Seq(Straight) /\ Len(h) = 1 /\ t \in Seq(Straight) /\ Len(t) = 1
    BY <2>2, <2>3
  <2>5. h \o t \in Seq(Straight) /\ Len(h \o t) = 2
    <3> HIDE DEF h, t
    <3>1. h \o t \in Seq(Straight) /\ Len(h \o t) = Len(h) + Len(t)
      BY <2>4, ConcatFacts
    <3> QED  BY <2>4, <3>1
  <2> QED  BY <2>1, <2>2, <2>3, <2>5
<1>8. d \in Seq(Straight) /\ Len(d) = 5
  BY <1>2, <1>3, FixedTemplates, Tuple5
<1>9. e \in Seq(Straight) /\ Len(e) = ne
  BY FixedTemplates, Tuple1, EmptyTs
<1>10. CallIfn(hasReturn, indirect) = a \o b \o l1 \o l0 \o d \o e
  BY DEF CallIfn, call
<1>11. nb \in {0, 2} /\ ne \in {0, 1}
  OBVIOUS
<1> DEFINE s2 == a \o b
           s3 == s2 \o l1
           s4 == s3 \o l0
           s5 == s4 \o d
<1> HIDE DEF a, b, l1, l0, d, e, nb, ne, s2, s3, s4, s5
<1>32. /\ nb \in Nat /\ ne \in Nat /\ 1 \in Nat /\ 2 \in Nat /\ 5 \in Nat /\ 1 + nb \in Nat /\ 3 + nb \in Nat /\ 5 + nb \in Nat
       /\ 10 + nb \in Nat /\ 3 + nb = 1 + nb + 2 /\ 5 + nb = 3 + nb + 2 /\ 10 + nb = 5 + nb + 5
  BY <1>11
<1>12. s2 \in Seq(Straight) /\ Len(s2) = 1 + nb
  <2>1. s2 \in Seq(Straight) /\ Len(s2) = Len(a) + Len(b)
    BY <1>4, <1>5, ConcatFacts DEF s2
  <2> QED  BY <1>32, <1>4, <1>5, <2>1
<1>13. s3 \in Seq(Straight) /\ Len(s3) = 3 + nb
  <2>1. s3 \in Seq(Straight) /\ Len(s3) = Len(s2) + Len(l1)
    BY <1>6, <1>12, ConcatFacts DEF s3
  <2> QED  BY <1>32, <1>6, <1>12, <2>1
<1>14. s4 \in Seq(Straight) /\ Len(s4) = 5 + nb
  <2>1. s4 \in Seq(Straight) /\ Len(s4) = Len(s3) + Len(l0)
    BY <1>7, <1>13, ConcatFacts DEF s4
  <2> QED  BY <1>32, <1>7, <1>13, <2>1
<1>15. s5 \in Seq(Straight) /\ Len(s5) = 10 + nb
  <2>1. s5 \in Seq(Straight) /\ Len(s5) = Len(s4) + Len(d)
    BY <1>8, <1>14, ConcatFacts DEF s5
  <2> QED  BY <1>32, <1>8, <1>14, <2>1
<1>16. Len(CallIfn(hasReturn, indirect)) = 10 + nb + ne
  <2>1. CallIfn(hasReturn, indirect) = s5 \o e
    BY <1>10 DEF s2, s3, s4, s5
  <2>2. Len(s5 \o e) = Len(s5) + Len(e)
    BY <1>9, <1>15, ConcatFacts
  <2> QED  BY <1>9, <1>32, <1>15, <2>1, <2>2
<1>17. Has(c, p, s5) /\ Has(c, p + Len(s5), e)
  <2>1. Has(c, p, s5 \o e)
    BY <1>10 DEF s2, s3, s4, s5
  <2> QED  BY <1>9, <1>15, <2>1, HasConcat
<1>18. Has(c, p, s4) /\ Has(c, p + Len(s4), d)
  BY <1>8, <1>14, <1>17, HasConcat DEF s5
<1>19. Has(c, p, s3) /\ Has(c, p + Len(s3), l0)
  BY <1>7, <1>13, <1>18, HasConcat DEF s4
<1>20. Has(c, p, s2) /\ Has(c, p + Len(s2), l1)
  BY <1>6, <1>12, <1>19, HasConcat DEF s3
<1>21. Has(c, p, a) /\ Has(c, p + Len(a), b)
  BY <1>4, <1>5, <1>20, HasConcat DEF s2
<1> DEFINE p1 == p + 1
<1>22. c[p + 1] = Ins("add rbx", NLocals)
  BY <1>21, HasOne DEF a
<1>23. indirect => c[p + 2] = Ins("mov rcx, rax", 0) /\ c[p + 3] = _PopContractStack
  <2> SUFFICES ASSUME indirect PROVE c[p + 2] = Ins("mov rcx, rax", 0) /\ c[p + 3] = _PopContractStack
    OBVIOUS
  <2>1. Has(c, p1, <<Ins("mov rcx, rax", 0), _PopContractStack>>) /\ p1 \in Nat
    <3>1. Has(c, p + 1, b)
      BY <1>4, <1>21
    <3>2. b = <<Ins("mov rcx, rax", 0), _PopContractStack>>
      BY DEF b
    <3>3. p + 1 \in Nat
      OBVIOUS
    <3> QED  BY <3>1, <3>2, <3>3
  <2>2. p1 + 1 = p + 2 /\ p1 + 1 + 1 = p + 3
    OBVIOUS
  <2> HIDE DEF p1
  <2>3. c[p1 + 1] = Ins("mov rcx, rax", 0) /\ c[p1 + 1 + 1] = _PopContractStack
    BY <2>1, HasTwo
  <2> QED  BY <2>2, <2>3
<1>24. q \in Nat /\ p + Len(s2) = q /\ p + Len(s3) = q + 2 /\ p + Len(s4) = q + 4 /\ p + Len(s5) = q + 9
  BY <1>12, <1>13, <1>14, <1>15 DEF nb, ArgsAt
<1> HIDE DEF q
<1>25. c[q + 1] = Ins("mov local, rax", 1) /\ c[q + 1 + 1] = _PopContractStack
  <2> DEFINE h == <<Ins("mov local, rax", 1)>>
             t == <<_PopContractStack>>
  <2>1. Has(c, q, h \o t) /\ h \in Seq(Straight) /\ t \in Seq(Straight) /\ Len(h) = 1
    BY <1>6, <1>7, <1>20, <1>24
  <2>2. Has(c, q, h) /\ Has(c, q + 1, t)
    <3> HIDE DEF h, t
    <3> QED  BY <1>24, <2>1, HasConcat
  <2> QED  BY <2>2, HasOne
<1>26. c[q + 2 + 1] = Ins("mov local, rax", 0) /\ c[q + 2 + 1 + 1] = _PopContractStack
  <2> DEFINE h == <<Ins("mov local, rax", 0)>>
             t == <<_PopContractStack>>
             q2 == q + 2
  <2>1. Has(c, q2, h \o t) /\ h \in Seq(Straight) /\ t \in Seq(Straight) /\ Len(h) = 1 /\ q2 \in Nat
    <3>1. Has(c, q2, l0)
      BY <1>19, <1>24
    <3>2. q2 \in Nat
      BY <1>24
    <3> QED  BY <1>7, <3>1, <3>2
  <2>2. Has(c, q2, h) /\ Has(c, q2 + 1, t)
    <3> HIDE DEF h, t, q2
    <3> QED  BY <2>1, HasConcat
  <2> QED  BY <2>2, HasOne
<1>27. LET q4 == q + 4
       IN  /\ c[q4 + 1] = _PushExpandStack /\ c[q4 + 2] = PushRdi /\ c[q4 + 3] = call /\ c[q4 + 4] = PopRdi
           /\ c[q4 + 5] = Ins("add rbx", -NLocals)
  <2> DEFINE q4 == q + 4
  <2>1. q4 \in Nat
    BY <1>24
  <2> DEFINE u == _PushExpandStack
             v == PushRdi
             y == PopRdi
             z == Ins("add rbx", -NLocals)
  <2>2. Has(c, q4, <<u, v, call, y, z>>)
    <3>1. Has(c, q4, d)
      BY <1>18, <1>24
    <3> QED  BY <3>1 DEF d
  <2> HIDE DEF q4, u, v, y, z
  <2>3. c[q4 + 1] = u /\ c[q4 + 2] = v /\ c[q4 + 3] = call /\ c[q4 + 4] = y /\ c[q4 + 5] = z
    BY <2>1, <2>2, HasFive
  <2> QED  BY <2>3 DEF q4, u, v, y, z
<1>28. ~hasReturn => c[q + 9 + 1] = _PopContractStack
  <2> SUFFICES ASSUME ~hasReturn PROVE c[q + 9 + 1] = _PopContractStack
    OBVIOUS
  <2>1. Has(c, q + 9, <<_PopContractStack>>)
    BY <1>17, <1>24 DEF e
  <2> QED  BY <2>1, HasOne
<1>29. /\ q + 1 + 1 = q + 2 /\ q + 2 + 1 = q + 3 /\ q + 2 + 1 + 1 = q + 4 /\ q + 4 + 1 = q + 5 /\ q + 4 + 2 = q + 6
       /\ q + 4 + 3 = q + 7 /\ q + 4 + 4 = q + 8 /\ q + 4 + 5 = q + 9 /\ q + 9 + 1 = q + 10
  BY <1>24
<1>30. Passes(c, q, indirect)
  BY <1>25, <1>26, <1>27, <1>29 DEF Passes, call
<1>31. 10 + nb + ne = CallSize(hasReturn, indirect)
  BY DEF nb, ne, CallSize
<1> QED  BY <1>16, <1>22, <1>23, <1>28, <1>29, <1>30, <1>31 DEF q

LEMMA AppendBack ==
  ASSUME NEW S, NEW s \in Seq(S), NEW e \in S
  PROVE  Last(Append(s, e)) = e /\ Front(Append(s, e)) = s /\ Append(s, e) \in Seq(S)
<1> DEFINE t == Append(s, e)
<1>1. t \in Seq(S) /\ Len(t) = Len(s) + 1 /\ t[Len(s) + 1] = e /\ \A i \in 1 .. Len(s) : t[i] = s[i]
  BY AppendProperties
<1>2. Len(s) \in Nat
  BY LenProperties
<1> HIDE DEF t
<1>3. Last(t) = e
  BY <1>1 DEF Last
<1>4. Front(t) \in Seq(S) /\ Len(Front(t)) = Len(s) /\ \A i \in 1 .. Len(s) : Front(t)[i] = t[i]
  <2>1. Len(t) >= 1 /\ Len(t) - 1 = Len(s)
    BY <1>1, <1>2
  <2> QED  BY <1>1, <2>1, FrontFacts
<1>5. Front(t) = s
  BY <1>1, <1>4, SeqEqual
<1> QED  BY <1>1, <1>3, <1>5 DEF t

\* The value a call leaves in rax, from the callee's locals and the index in rcx.
Called(fam, indirect, u, v, cx) == IF indirect THEN Diff(fam, Diff(fam, u, v), cx) ELSE Diff(fam, u, v)

Gets(lm2, lm, b, u, v) == lm2 = [[lm EXCEPT ![b + 1] = v] EXCEPT ![b + 0] = u]
Spilled(m, d) == [m EXCEPT ![d] = m[d]]

LEMMA RunsThree ==
  ASSUME NEW fam, NEW c, NEW w, NEW x, NEW y, NEW z, Runs(fam, c, w, x), Runs(fam, c, x, y), Runs(fam, c, y, z)
  PROVE  Runs(fam, c, w, z)
<1>1. Runs(fam, c, w, y)
  BY RunsOn
<1> QED  BY <1>1, RunsOn

LEMMA GoEither ==
  ASSUME NEW fam, NEW c, NEW p, NEW a, NEW cx, NEW di, NEW bx, NEW m, NEW lm, NEW nat, NEW indirect \in BOOLEAN,
         c[p].op = IF indirect THEN "call shim" ELSE "call"
  PROVE  Runs(fam, c, Core(p, a, cx, di, bx, m, lm, nat),
                      Core(p + 1, Called(fam, indirect, lm[bx], lm[bx + 1], cx), Junk, di + 1, bx, Kept(fam, m, di),
                           KeptLocals(fam, lm, bx), nat))
<1>1. CASE indirect
  <2>1. c[p].op = "call shim"
    BY <1>1
  <2>2. Called(fam, indirect, lm[bx], lm[bx + 1], cx) = Diff(fam, Diff(fam, lm[bx], lm[bx + 1]), cx)
    BY <1>1 DEF Called
  <2>3. Runs(fam, c, Core(p, a, cx, di, bx, m, lm, nat),
                      Core(p + 1, Diff(fam, Diff(fam, lm[bx], lm[bx + 1]), cx), Junk, di + 1, bx,
                            Kept(fam, m, di), KeptLocals(fam, lm, bx), nat))
    BY <2>1, GoCallShim, Zenon
  <2> QED  BY <2>2, <2>3
<1>2. CASE ~indirect
  <2>1. c[p].op = "call"
    BY <1>2
  <2>2. Called(fam, indirect, lm[bx], lm[bx + 1], cx) = Diff(fam, lm[bx], lm[bx + 1])
    BY <1>2 DEF Called
  <2>3. Runs(fam, c, Core(p, a, cx, di, bx, m, lm, nat),
                      Core(p + 1, Diff(fam, lm[bx], lm[bx + 1]), Junk, di + 1, bx,
                            Kept(fam, m, di), KeptLocals(fam, lm, bx), nat))
    BY <2>1, GoCall, Zenon
  <2> QED  BY <2>2, <2>3
<1> QED  BY <1>1, <1>2

LEMMA MovesRun ==
  ASSUME NEW fam, NEW c, NEW q \in Nat, NEW indirect \in BOOLEAN, Passes(c, q, indirect), NEW a, NEW cx, NEW di \in Nat, di >= 4,
         NEW m, NEW lm, NEW nat \in Seq(Nat), NLocals \in Nat, NEW lm2, Gets(lm2, lm, NLocals, m[di - 1], a)
  PROVE  Runs(fam, c, Core(q + 1, a, cx, di, NLocals, m, lm, nat),
                      Core(q + 10, Called(fam, indirect, lm2[NLocals], lm2[NLocals + 1], cx), Junk, di - 1, 0,
                           Kept(fam, Spilled(m, di - 2), di - 1), KeptLocals(fam, lm2, NLocals), nat))
<1> DEFINE nl == NLocals
           d1 == di - 1
           d2 == di - 2
           m2 == Spilled(m, d2)
           q1 == q + 1
           q2 == q + 2
           q3 == q + 3
           q4 == q + 4
           q5 == q + 5
           q6 == q + 6
           q7 == q + 7
           q8 == q + 8
           q9 == q + 9
           qq == q + 10
           lm1 == [lm EXCEPT ![nl + 1] = a]
           u == m[d1]
           w == m[d2]
           v == Called(fam, indirect, lm2[nl], lm2[nl + 1], cx)
           m3 == Kept(fam, m2, d1)
           lm3 == KeptLocals(fam, lm2, nl)
           nat2 == Append(nat, d1)
           back == Ins("add rbx", -nl)
           jump == Ins(IF indirect THEN "call shim" ELSE "call", 0)
<1>1. /\ q1 + 1 = q2 /\ q2 + 1 = q3 /\ q3 + 1 = q4 /\ q4 + 1 = q5 /\ q5 + 1 = q6 /\ q6 + 1 = q7 /\ q7 + 1 = q8
      /\ q8 + 1 = q9 /\ q9 + 1 = qq
  OBVIOUS
<1>2. d1 \in Nat /\ d2 \in Nat /\ di - 1 = d1 /\ d1 - 1 = d2 /\ d2 + 1 = d1 /\ d1 + 1 = di /\ d1 # 0
  OBVIOUS
<1>3. nl + -nl = 0 /\ nl + 0 = nl
  OBVIOUS
<1>4. lm2 = [lm1 EXCEPT ![nl + 0] = u]
  BY DEF Gets
<1>5. Last(nat2) = d1 /\ Front(nat2) = nat /\ Last(nat2) # RetAddr
  BY <1>2, AppendBack DEF RetAddr
<1>6. /\ c[q1].op = "mov local, rax" /\ c[q1].n = 1 /\ c[q2].op = "contract"
      /\ c[q3].op = "mov local, rax" /\ c[q3].n = 0 /\ c[q4].op = "contract"
      /\ c[q5].op = "expand" /\ c[q6].op = "push rdi" /\ c[q8].op = "pop rdi" /\ c[q9].op = "add rbx"
  <2>1. /\ c[q1] = Ins("mov local, rax", 1) /\ c[q2] = Ins("contract", 0) /\ c[q3] = Ins("mov local, rax", 0)
        /\ c[q4] = Ins("contract", 0) /\ c[q5] = Ins("expand", 0) /\ c[q6] = Ins("push rdi", 0)
        /\ c[q8] = Ins("pop rdi", 0) /\ c[q9] = back
    BY DEF Passes, _PopContractStack, _PushExpandStack, PushRdi, PopRdi
  <2>2. back.op = "add rbx"
    BY DEF Ins
  <2>3. Ins("mov local, rax", 1).n = 1 /\ Ins("mov local, rax", 0).n = 0
    BY DEF Ins
  <2> HIDE DEF back
  <2> QED  BY <2>1, <2>2, <2>3, InsFields
<1>7. c[q7].op = (IF indirect THEN "call shim" ELSE "call") /\ c[q9] = back /\ back.n = -nl
  <2>1. c[q7] = jump /\ c[q9] = back
    BY DEF Passes
  <2>2. back.n = -nl
    BY DEF Ins
  <2> QED  BY <2>1, <2>2, InsFields
<1>21. d1 - 1 = d2 /\ di - 1 = d1 /\ m2 = [m EXCEPT ![d2] = w]
  BY <1>2 DEF Spilled
<1> HIDE DEF m2, d1, d2, q1, q2, q3, q4, q5, q6, q7, q8, q9, qq, lm1, u, w, v, m3, lm3, nat2, back, jump, nl
<1>8. Runs(fam, c, Core(q1, a, cx, di, nl, m, lm, nat), Core(q2, a, cx, di, nl, m, lm1, nat))
  BY <1>1, <1>6, GoSetLocal DEF lm1
<1>9. Runs(fam, c, Core(q2, a, cx, di, nl, m, lm1, nat), Core(q3, u, cx, d1, nl, m, lm1, nat))
  BY <1>1, <1>2, <1>6, GoContract DEF u
<1>10. Runs(fam, c, Core(q3, u, cx, d1, nl, m, lm1, nat), Core(q4, u, cx, d1, nl, m, lm2, nat))
  <2>1. Runs(fam, c, Core(q3, u, cx, d1, nl, m, lm1, nat), Core(q3 + 1, u, cx, d1, nl, m, [lm1 EXCEPT ![nl + c[q3].n] = u], nat))
    BY <1>6, GoSetLocal
  <2>2. [lm1 EXCEPT ![nl + c[q3].n] = u] = lm2
    BY <1>4, <1>6
  <2> QED  BY <1>1, <2>1, <2>2
<1>11. Runs(fam, c, Core(q4, u, cx, d1, nl, m, lm2, nat), Core(q5, w, cx, d2, nl, m, lm2, nat))
  BY <1>1, <1>2, <1>6, GoContract DEF w
<1>12. Runs(fam, c, Core(q5, w, cx, d2, nl, m, lm2, nat), Core(q6, w, cx, d1, nl, m2, lm2, nat))
  <2>1. Runs(fam, c, Core(q5, w, cx, d2, nl, m, lm2, nat), Core(q5 + 1, w, cx, d2 + 1, nl, [m EXCEPT ![d2] = w], lm2, nat))
    BY <1>6, GoExpand
  <2> QED  BY <1>1, <1>2, <1>21, <2>1
<1>13. Runs(fam, c, Core(q6, w, cx, d1, nl, m2, lm2, nat), Core(q7, w, cx, d1, nl, m2, lm2, nat2))
  BY <1>1, <1>6, GoPushRdi DEF nat2
<1>14. Runs(fam, c, Core(q7, w, cx, d1, nl, m2, lm2, nat2), Core(q8, v, Junk, di, nl, m3, lm3, nat2))
  <2>1. Runs(fam, c, Core(q7, w, cx, d1, nl, m2, lm2, nat2),
                     Core(q7 + 1, Called(fam, indirect, lm2[nl], lm2[nl + 1], cx), Junk, d1 + 1, nl, Kept(fam, m2, d1),
                          KeptLocals(fam, lm2, nl), nat2))
    BY <1>7, GoEither
  <2> QED  BY <1>1, <1>2, <2>1 DEF m3, lm3, v
<1>15. Runs(fam, c, Core(q8, v, Junk, di, nl, m3, lm3, nat2), Core(q9, v, Junk, d1, nl, m3, lm3, nat))
  BY <1>1, <1>5, <1>6, GoPopRdi
<1>16. Runs(fam, c, Core(q9, v, Junk, d1, nl, m3, lm3, nat), Core(qq, v, Junk, d1, 0, m3, lm3, nat))
  <2>1. nl + c[q9].n = 0
    BY <1>3, <1>7
  <2>2. Runs(fam, c, Core(q9, v, Junk, d1, nl, m3, lm3, nat), Core(q9 + 1, v, Junk, d1, nl + c[q9].n, m3, lm3, nat))
    BY <1>6, GoAddRbx
  <2> QED  BY <1>1, <2>1, <2>2
<1>17. Runs(fam, c, Core(q1, a, cx, di, nl, m, lm, nat), Core(q4, u, cx, d1, nl, m, lm2, nat))
  BY <1>8, <1>9, <1>10, RunsThree
<1>18. Runs(fam, c, Core(q4, u, cx, d1, nl, m, lm2, nat), Core(q7, w, cx, d1, nl, m2, lm2, nat2))
  BY <1>11, <1>12, <1>13, RunsThree
<1>19. Runs(fam, c, Core(q7, w, cx, d1, nl, m2, lm2, nat2), Core(qq, v, Junk, d1, 0, m3, lm3, nat))
  BY <1>14, <1>15, <1>16, RunsThree
<1>20. Runs(fam, c, Core(q1, a, cx, di, nl, m, lm, nat), Core(qq, v, Junk, d1, 0, m3, lm3, nat))
  BY <1>17, <1>18, <1>19, RunsThree
<1> QED  BY <1>20 DEF q1, qq, nl, v, m3, lm3, m2, d1, d2

LEMMA CallMemory ==
  ASSUME family \in Families, NEW e \in Nat, e - 2 \in SlotsOf(family), NEW a \in Nat, NEW u \in Nat,
         NEW m \in [SlotsOf(family) -> Nat], NEW lm \in [LocalsOf(family) -> Nat], NEW lm2, Gets(lm2, lm, NLocals, u, a)
  PROVE  /\ lm2[NLocals] = u /\ lm2[NLocals + 1] = a
         /\ Kept(family, Spilled(m, e - 2), e - 1) \in [SlotsOf(family) -> Nat]
         /\ \A k \in SlotsOf(family) : k < e - 1 => Kept(family, Spilled(m, e - 2), e - 1)[k] = m[k]
         /\ KeptLocals(family, lm2, NLocals) \in [LocalsOf(family) -> Nat]
         /\ SameLocals(family, KeptLocals(family, lm2, NLocals), lm)
         /\ Junk \in Nat
<1> DEFINE nl == NLocals
           d1 == e - 1
           d2 == e - 2
           m2 == Spilled(m, d2)
           S == SlotsOf(family)
           L == LocalsOf(family)
           lm1 == [lm EXCEPT ![nl + 1] = a]
<1>1. nl \in Nat /\ family.locals = nl /\ Junk \in Nat
  BY FamilyFacts DEF NLocals, Junk
<1>2. L = 0 .. nl + 1
  BY <1>1 DEF LocalsOf
<1>3. nl \in L /\ nl + 1 \in L /\ nl # nl + 1 /\ nl + 0 = nl
  BY <1>1, <1>2
<1>4. lm1 \in [L -> Nat] /\ \A k \in L : lm1[k] = IF k = nl + 1 THEN a ELSE lm[k]
  BY <1>3
<1>5. lm2 = [lm1 EXCEPT ![nl] = u]
  BY <1>3 DEF Gets
<1> HIDE DEF lm1
<1>6. lm2 \in [L -> Nat] /\ \A k \in L : lm2[k] = IF k = nl THEN u ELSE lm1[k]
  BY <1>3, <1>4, <1>5
<1>7. lm2[nl] = u /\ lm2[nl + 1] = a
  BY <1>3, <1>4, <1>6
<1>8. m2 = m
  BY DEF Spilled
<1> HIDE DEF m2, S, L
<1>9. \A k \in S : Kept(family, m2, d1)[k] = IF k < d1 THEN m[k] ELSE Junk
  BY <1>8 DEF Kept, S
<1>10. Kept(family, m2, d1) \in [S -> Nat]
  BY <1>1, <1>8 DEF Kept, S
<1>11. KeptLocals(family, lm2, nl) \in [L -> Nat]
  BY <1>1, <1>6 DEF KeptLocals, L
<1>12. \A k \in 0 .. nl - 1 : KeptLocals(family, lm2, nl)[k] = lm[k]
  <2> TAKE k \in 0 .. nl - 1
  <2>1. k \in L /\ k < nl /\ k # nl /\ k # nl + 1
    BY <1>1, <1>2
  <2>2. KeptLocals(family, lm2, nl)[k] = lm2[k]
    BY <2>1 DEF KeptLocals, L
  <2> QED  BY <1>4, <1>6, <2>1, <2>2
<1> QED  BY <1>1, <1>7, <1>9, <1>10, <1>11, <1>12 DEF S, L, m2, SameLocals

\* The arguments of a call of ops operands are under e, and its template ends at q + 10.
ArgsEnd(x, ops, e, q, size) == e = x.rdi - ops + 2 /\ q + 10 = x.ip + size

LEMMA CallEnds ==
  ASSUME family \in Families, NEW indirect \in BOOLEAN, NEW c, NEW x, NEW ops \in Nat, ops >= 1, Ready(family, x, ops),
         NEW q \in Nat, Passes(c, q, indirect), NEW e \in Nat, NEW a \in Nat, NEW cx,
         x.native \in Seq(Nat),
         Runs(family, c, x, Core(q + 1, a, cx, e, NLocals, x.mem, x.lmem, x.native)),
         NEW size \in Nat, ArgsEnd(x, ops, e, q, size), Called(family, indirect, x.mem[e - 1], a, cx) \in Nat
  PROVE  /\ Yields(family, c, x, ops, <<Called(family, indirect, x.mem[e - 1], a, cx)>>, x.lmem, size)
         /\ Is(c, q + 10, "contract") => Yields(family, c, x, ops, <<>>, x.lmem, size + 1)
<1> DEFINE di == x.rdi
           d1 == e - 1
           d2 == e - 2
           u == x.mem[e - 1]
           n == di - Base - ops
           lm2 == [[x.lmem EXCEPT ![NLocals + 1] = a] EXCEPT ![NLocals + 0] = u]
           m2 == Kept(family, Spilled(x.mem, e - 2), e - 1)
           lm3 == KeptLocals(family, lm2, NLocals)
           v == Called(family, indirect, u, a, cx)
           p2 == q + 10
           p3 == p2 + 1
<1>21. /\ di \in Nat /\ di - ops >= Base + 1 /\ di <= Base + family.len + 1 /\ family.len \in Nat /\ x.ip \in Nat
       /\ x.mem \in [SlotsOf(family) -> Nat] /\ x.lmem \in [LocalsOf(family) -> Nat]
  BY DEF Ready, Typed
<1>22. Base = 1 /\ SlotsOf(family) = 0 .. Base + 2 * family.len + 6
  BY DEF Base, SlotsOf
<1>23. e = di - ops + 2
  BY DEF ArgsEnd
<1> HIDE DEF di
<1>2. /\ e >= 4 /\ d1 = di - ops + 1 /\ d2 = di - ops /\ d1 - 1 = d2 /\ n = d2 - 1 /\ n \in 1 .. di - Base - 1
      /\ d1 \in Nat /\ d2 \in Nat
  BY <1>21, <1>22, <1>23
<1>3. d1 \in SlotsOf(family) /\ d2 \in SlotsOf(family)
  <2> DEFINE l == family.len
  <2>1. l \in Nat /\ di <= l + 2 /\ d1 <= di /\ d2 <= di
    BY <1>21, <1>22, <1>2
  <2> HIDE DEF l, d1, d2
  <2>2. d1 \in 0 .. 1 + 2 * l + 6 /\ d2 \in 0 .. 1 + 2 * l + 6
    <3>1. d1 \in Nat /\ d2 \in Nat /\ di \in Nat
      BY <1>2, <1>21
    <3> QED  BY <2>1, <3>1
  <2> QED  BY <1>22, <2>2 DEF l
<1>1. /\ di \in Nat /\ Base = 1 /\ x.mem \in [SlotsOf(family) -> Nat] /\ x.lmem \in [LocalsOf(family) -> Nat]
  BY <1>21, <1>22
<1>4. u \in Nat
  BY <1>1, <1>3
<1>5. NLocals \in Nat
  BY FamilyFacts
<1>6. Gets(lm2, x.lmem, NLocals, u, a)
  BY DEF Gets
<1>7. /\ lm2[NLocals] = u /\ lm2[NLocals + 1] = a /\ Junk \in Nat
      /\ m2 \in [SlotsOf(family) -> Nat] /\ \A k \in SlotsOf(family) : k < e - 1 => m2[k] = x.mem[k]
      /\ lm3 \in [LocalsOf(family) -> Nat] /\ SameLocals(family, lm3, x.lmem)
  <2> DEFINE m == x.mem
             lm == x.lmem
  <2>1. e - 2 \in SlotsOf(family) /\ u \in Nat /\ m \in [SlotsOf(family) -> Nat] /\ lm \in [LocalsOf(family) -> Nat]
        /\ Gets(lm2, lm, NLocals, u, a)
    BY <1>1, <1>3, <1>4, <1>6
  <2> HIDE DEF u, lm2, m, lm
  <2>2. /\ lm2[NLocals] = u /\ lm2[NLocals + 1] = a
        /\ Kept(family, Spilled(m, e - 2), e - 1) \in [SlotsOf(family) -> Nat]
        /\ \A k \in SlotsOf(family) : k < e - 1 => Kept(family, Spilled(m, e - 2), e - 1)[k] = m[k]
        /\ KeptLocals(family, lm2, NLocals) \in [LocalsOf(family) -> Nat]
        /\ SameLocals(family, KeptLocals(family, lm2, NLocals), lm)
        /\ Junk \in Nat
    BY <2>1, CallMemory
  <2> QED  BY <2>2 DEF m, lm
<1>8. Runs(family, c, Core(q + 1, a, cx, e, NLocals, x.mem, x.lmem, x.native), Core(p2, v, Junk, d1, 0, m2, lm3, x.native))
  <2>1. Runs(family, c, Core(q + 1, a, cx, e, NLocals, x.mem, x.lmem, x.native),
                        Core(q + 10, Called(family, indirect, lm2[NLocals], lm2[NLocals + 1], cx), Junk, e - 1, 0, m2, lm3,
                             x.native))
    <3> HIDE DEF lm2
    <3> QED  BY <1>2, <1>5, <1>6, MovesRun
  <2> QED  BY <1>7, <2>1
<1>9. Runs(family, c, x, Core(p2, v, Junk, d1, 0, m2, lm3, x.native))
  BY <1>8, RunsOn
<1>10. \A j \in 1 .. n : m2[Base + j] = View(x, j)
  <2> TAKE j \in 1 .. n
  <2>1. Base + j < d1 /\ j \in 1 .. di - Base - 1 /\ j \in 1 .. di - Base
    <3>1. d2 \in Nat /\ d1 = d2 + 1 /\ n = d2 - 1 /\ Base = 1
      BY <1>1, <1>2
    <3>2. n \in 1 .. di - Base - 1
      BY <1>2
    <3>3. di \in Nat
      BY <1>1
    <3> HIDE DEF d1, d2, n, di
    <3>4. Base + j < d1
      BY <3>1
    <3> QED  BY <3>1, <3>2, <3>3, <3>4
  <2>2. Base + j \in SlotsOf(family) /\ View(x, j) = x.mem[Base + j]
    BY <2>1, SlotsAre DEF di
  <2> QED  BY <1>7, <2>1, <2>2
<1>11. Under(x, m2, n) /\ Under(x, m2, n - 1)
  <2>1. \A j \in 1 .. n - 1 : j \in 1 .. n
    BY <1>2
  <2> HIDE DEF m2, n
  <2> QED  BY <1>10, <2>1 DEF Under
<1>12. v \in Nat /\ p2 \in Nat /\ p3 \in Nat /\ p2 = x.ip + size /\ d1 = x.rdi - ops + 1 /\ n = x.rdi - Base - ops
  BY <1>2 DEF ArgsEnd, di
<1>13. p3 = x.ip + (size + 1)
  <2>1. x.ip \in Nat
    BY <1>21
  <2>2. p2 \in Nat /\ p2 = x.ip + size
    BY <1>12
  <2> DEFINE i == x.ip
  <2>3. i \in Nat /\ p2 = i + size
    BY <2>1, <2>2
  <2> HIDE DEF p2, i
  <2>4. p2 + 1 = i + (size + 1)
    BY <2>3
  <2> QED  BY <2>4 DEF i
<1> HIDE DEF v, p2, n, m2, lm3, d1, d2, p3
<1>14. Yields(family, c, x, ops, <<v>>, x.lmem, size)
  BY <1>7, <1>9, <1>11, <1>12, OneYields
<1>15. ASSUME Is(c, p2, "contract") PROVE Yields(family, c, x, ops, <<>>, x.lmem, size + 1)
  <2> DEFINE w == m2[d2]
             size2 == size + 1
  <2>1. Runs(family, c, Core(p2, v, Junk, d1, 0, m2, lm3, x.native), Core(p3, w, Junk, d2, 0, m2, lm3, x.native))
    BY <1>2, <1>15, GoContract DEF Is, p3
  <2>2. Runs(family, c, x, Core(p3, w, Junk, d2, 0, m2, lm3, x.native))
    BY <1>9, <2>1, RunsOn
  <2>3. w = View(x, n)
    <3>1. Base + n = d2 /\ n \in 1 .. n
      <4> HIDE DEF w
      <4> QED  BY <1>1, <1>2
    <3> QED  BY <1>10, <3>1
  <2>4. d2 = x.rdi - ops /\ p3 = x.ip + size2
    BY <1>2, <1>13 DEF di
  <2> HIDE DEF w, size2
  <2>5. Yields(family, c, x, ops, <<>>, x.lmem, size2)
    BY <1>7, <1>11, <1>12, <2>2, <2>3, <2>4, NoneYields
  <2> QED  BY <2>5 DEF size2
<1> QED  BY <1>14, <1>15 DEF v, p2

-----------------------------------------------------------------------------
(* Every template does what the direct reading does.                       *)

\* a are the p operands on top of x, the last one last.
Args(x, p, a) == \A j \in 1 .. p : a[j] = View(x, x.rdi - Base - p + j)

LEMMA ArgsAre ==
  ASSUME NEW fam, NEW x, NEW a
  PROVE  /\ Ready(fam, x, 1) /\ Args(x, 1, a) => a[1] = x.rax
         /\ Ready(fam, x, 2) /\ Args(x, 2, a) => a[1] = x.mem[x.rdi - 1] /\ a[2] = x.rax
         /\ Ready(fam, x, 3) /\ Args(x, 3, a) => a[1] = x.mem[x.rdi - 2] /\ a[2] = x.mem[x.rdi - 1] /\ a[3] = x.rax
<1> DEFINE n == x.rdi - Base
<1>1. ASSUME NEW p \in {1, 2, 3}, Ready(fam, x, p)
      PROVE  x.rdi \in Nat /\ n \in Nat /\ n >= p + 1 /\ View(x, n) = x.rax /\ x.rdi = Base + n
             /\ View(x, n - 1) = x.mem[x.rdi - 1] /\ (p # 1 => View(x, n - 2) = x.mem[x.rdi - 2])
  <2>1. x.rdi \in Nat /\ Base = 1 /\ x.rdi - p >= 2
    BY <1>1 DEF Ready, Typed, Base
  <2>2. n \in Nat /\ n >= p + 1 /\ x.rdi = Base + n
    BY <2>1
  <2>3. Base + (n - 1) = x.rdi - 1 /\ Base + (n - 2) = x.rdi - 2 /\ n - 1 # n /\ n - 2 # n
    BY <2>1
  <2> QED  BY <2>1, <2>2, <2>3 DEF View
<1>2. ASSUME Ready(fam, x, 1), Args(x, 1, a) PROVE a[1] = x.rax
  <2>1. n \in Nat /\ View(x, n) = x.rax
    BY <1>1, <1>2
  <2>2. 1 \in 1 .. 1 /\ n - 1 + 1 = n
    BY <2>1
  <2> HIDE DEF n
  <2>3. \A j \in 1 .. 1 : a[j] = View(x, n - 1 + j)
    BY <1>2 DEF Args, n
  <2> QED  BY <2>1, <2>2, <2>3
<1>3. ASSUME Ready(fam, x, 2), Args(x, 2, a) PROVE a[1] = x.mem[x.rdi - 1] /\ a[2] = x.rax
  <2>1. n \in Nat /\ View(x, n) = x.rax /\ View(x, n - 1) = x.mem[x.rdi - 1]
    BY <1>1, <1>3
  <2>2. 1 \in 1 .. 2 /\ 2 \in 1 .. 2 /\ n - 2 + 1 = n - 1 /\ n - 2 + 2 = n
    BY <2>1
  <2> HIDE DEF n
  <2>3. \A j \in 1 .. 2 : a[j] = View(x, n - 2 + j)
    BY <1>3 DEF Args, n
  <2>4. a[1] = View(x, n - 2 + 1) /\ a[2] = View(x, n - 2 + 2)
    BY <2>2, <2>3
  <2> QED  BY <2>1, <2>2, <2>4
<1>4. ASSUME Ready(fam, x, 3), Args(x, 3, a)
      PROVE  a[1] = x.mem[x.rdi - 2] /\ a[2] = x.mem[x.rdi - 1] /\ a[3] = x.rax
  <2>1. n \in Nat /\ View(x, n) = x.rax /\ View(x, n - 1) = x.mem[x.rdi - 1] /\ View(x, n - 2) = x.mem[x.rdi - 2]
    BY <1>1, <1>4
  <2>2. 1 \in 1 .. 3 /\ 2 \in 1 .. 3 /\ 3 \in 1 .. 3 /\ n - 3 + 1 = n - 2 /\ n - 3 + 2 = n - 1 /\ n - 3 + 3 = n
    BY <2>1
  <2> HIDE DEF n
  <2>3. \A j \in 1 .. 3 : a[j] = View(x, n - 3 + j)
    BY <1>4 DEF Args, n
  <2>4. a[1] = View(x, n - 3 + 1) /\ a[2] = View(x, n - 3 + 2) /\ a[3] = View(x, n - 3 + 3)
    BY <2>2, <2>3
  <2> QED  BY <2>1, <2>2, <2>4
<1> QED  BY <1>2, <1>3, <1>4

\* A call before the moving of the arguments.
Enters(c, p, indirect) ==
    /\ c[p + 1] = Ins("add rbx", NLocals)
    /\ indirect => c[p + 2] = Ins("mov rcx, rax", 0) /\ c[p + 3] = _PopContractStack

LEMMA CallStarts ==
  ASSUME family \in Families, NEW indirect \in BOOLEAN, NEW c, NEW p \in Nat, NEW a, NEW cx, NEW di \in Nat, NEW m, NEW lm, NEW nat,
         Enters(c, p, indirect)
  PROVE  Runs(family, c, Core(p + 1, a, cx, di, 0, m, lm, nat), IF indirect THEN Core(p + 4, m[di - 1], a, di - 1, NLocals, m, lm, nat)
                            ELSE Core(p + 2, a, cx, di, NLocals, m, lm, nat))
<1> DEFINE p1 == p + 1
           p2 == p + 2
           p3 == p + 3
           p4 == p + 4
           nl == NLocals
           load == Ins("add rbx", nl)
<1>1. p1 + 1 = p2 /\ p2 + 1 = p3 /\ p3 + 1 = p4
  OBVIOUS
<1>2. 0 + nl = nl
  <2>1. nl \in Nat
    BY FamilyFacts
  <2> HIDE DEF nl
  <2> QED  BY <2>1
<1>3. load.op = "add rbx" /\ load.n = nl
  BY InsFields
<1>4. c[p1] = load /\ (indirect => c[p2] = Ins("mov rcx, rax", 0) /\ c[p3] = Ins("contract", 0))
  BY DEF Enters, _PopContractStack
<1>5. indirect => c[p2].op = "mov rcx, rax" /\ c[p3].op = "contract"
  BY <1>4, InsFields
<1> HIDE DEF p1, p2, p3, p4, nl, load
<1>6. Runs(family, c, Core(p1, a, cx, di, 0, m, lm, nat), Core(p2, a, cx, di, nl, m, lm, nat))
  <2>1. Runs(family, c, Core(p1, a, cx, di, 0, m, lm, nat), Core(p1 + 1, a, cx, di, 0 + c[p1].n, m, lm, nat))
    BY <1>3, <1>4, GoAddRbx
  <2> QED  BY <1>1, <1>2, <1>3, <1>4, <2>1
<1>7. ASSUME indirect PROVE Runs(family, c, Core(p1, a, cx, di, 0, m, lm, nat), Core(p4, m[di - 1], a, di - 1, nl, m, lm, nat))
  <2>1. Runs(family, c, Core(p2, a, cx, di, nl, m, lm, nat), Core(p3, a, a, di, nl, m, lm, nat))
    BY <1>1, <1>5, <1>7, GoMovRcx
  <2>2. Runs(family, c, Core(p3, a, a, di, nl, m, lm, nat), Core(p4, m[di - 1], a, di - 1, nl, m, lm, nat))
    BY <1>1, <1>5, <1>7, GoContract
  <2>3. Runs(family, c, Core(p2, a, cx, di, nl, m, lm, nat), Core(p4, m[di - 1], a, di - 1, nl, m, lm, nat))
    BY <2>1, <2>2, RunsOn
  <2> QED  BY <1>6, <2>3, RunsOn
<1> QED  BY <1>6, <1>7 DEF p1, p4, p2, nl

\* The value of a call whose operands are a.
CallValue(indirect, a) == IF indirect THEN F(F(a[1], a[2]), a[3]) ELSE F(a[1], a[2])
CallOps(indirect) == IF indirect THEN 3 ELSE 2

LEMMA CallYields ==
  ASSUME family \in Families, NEW hasReturn \in BOOLEAN, NEW indirect \in BOOLEAN, NEW c, NEW x, Ready(family, x, CallOps(indirect)),
         NEW p \in Nat, x.ip = p + 1, x.native \in Seq(Nat), Has(c, p, CallIfn(hasReturn, indirect)),
         NEW a, Args(x, CallOps(indirect), a)
  PROVE  Yields(family, c, x, CallOps(indirect), IF hasReturn THEN <<CallValue(indirect, a)>> ELSE <<>>, x.lmem,
                CallSize(hasReturn, indirect))
<1> DEFINE di == x.rdi
           m == x.mem
           lm == x.lmem
           nat == x.native
           ops == CallOps(indirect)
           q == ArgsAt(p, indirect)
           e == IF indirect THEN di - 1 ELSE di
           u == IF indirect THEN m[di - 1] ELSE x.rax
           cx == IF indirect THEN x.rax ELSE x.rcx
           size == IF indirect THEN 12 ELSE 10
           w == Called(family, indirect, m[e - 1], u, cx)
<1>1. x = Core(p + 1, x.rax, x.rcx, di, 0, m, lm, nat) /\ x.rax \in Nat /\ di \in Nat /\ di - ops >= 2 /\ Base = 1
      /\ \A k \in 1 .. di - Base : m[di - k] \in Nat
  BY ReadyFacts
<1>2. /\ Enters(c, p, indirect)
      /\ Passes(c, q, indirect)
      /\ ~hasReturn => c[q + 10] = _PopContractStack
  BY CallHas DEF Enters
<1>3. Runs(family, c, x, IF indirect THEN Core(p + 4, m[di - 1], x.rax, di - 1, NLocals, m, lm, nat)
                         ELSE Core(p + 2, x.rax, x.rcx, di, NLocals, m, lm, nat))
  <2> HIDE DEF m, di, lm, nat
  <2> QED  BY <1>1, <1>2, CallStarts
<1>4. q + 1 = IF indirect THEN p + 4 ELSE p + 2
  BY DEF ArgsAt
<1>5. Runs(family, c, x, Core(q + 1, u, cx, e, NLocals, m, lm, nat))
  BY <1>3, <1>4
<1>6. ops \in Nat /\ ops >= 1 /\ (indirect => ops = 3) /\ (~indirect => ops = 2)
  BY DEF CallOps
<1>7. e \in Nat /\ u \in Nat /\ m[e - 1] \in Nat
  <2>1. CASE indirect
    <3>1. 1 \in 1 .. di - Base /\ 2 \in 1 .. di - Base /\ e - 1 = di - 2 /\ e \in Nat
      <4>1. ops = 3 /\ di \in Nat /\ di - ops >= 2 /\ Base = 1 /\ e = di - 1
        BY <1>1, <1>6, <2>1
      <4> HIDE DEF di, ops, e
      <4> QED  BY <4>1
    <3>2. m[di - 1] \in Nat /\ m[di - 2] \in Nat
      BY <1>1, <3>1
    <3> QED  BY <2>1, <3>1, <3>2
  <2>2. CASE ~indirect
    <3>1. 1 \in 1 .. di - Base /\ e \in Nat
      BY <1>1, <1>6, <2>2
    <3>2. m[di - 1] \in Nat
      BY <1>1, <3>1
    <3> QED  BY <1>1, <2>2, <3>1, <3>2
  <2> QED  BY <2>1, <2>2
<1>8. w = CallValue(indirect, a)
  <2>1. CASE indirect
    <3>1. Ready(family, x, 3) /\ Args(x, 3, a)
      BY <1>6, <2>1
    <3>2. a[1] = m[di - 2] /\ a[2] = m[di - 1] /\ a[3] = x.rax
      BY <3>1, ArgsAre
    <3>3. e - 1 = di - 2
      BY <1>1, <2>1
    <3> QED  BY <2>1, <3>2, <3>3 DEF Called, CallValue, Diff, F, M
  <2>2. CASE ~indirect
    <3>1. Ready(family, x, 2) /\ Args(x, 2, a)
      BY <1>6, <2>2
    <3>2. a[1] = m[di - 1] /\ a[2] = x.rax
      BY <3>1, ArgsAre
    <3> QED  BY <2>2, <3>2 DEF Called, CallValue, Diff, F, M
  <2> QED  BY <2>1, <2>2
<1>9. w \in Nat
  <2>1. family.m \in Nat \ {0}
    BY FamilyFacts DEF M
  <2>2. \A y, z \in Nat : Diff(family, y, z) \in Nat
    BY <2>1, ValuesOf
  <2> HIDE DEF e, u
  <2>3. Diff(family, m[e - 1], u) \in Nat
    BY <1>7, <2>2
  <2>4. indirect => cx \in Nat
    BY <1>1
  <2> QED  BY <2>2, <2>3, <2>4 DEF Called
<1>10. ArgsEnd(x, ops, e, q, size) /\ size \in Nat /\ q \in Nat
  <2>1. e = di - ops + 2
    BY <1>1, <1>6
  <2>2. q + 10 = (p + 1) + size /\ q \in Nat
    BY DEF ArgsAt
  <2> QED  BY <2>1, <2>2 DEF ArgsEnd
<1> HIDE DEF e, u, cx, size, q
<1>14. Runs(family, c, x, Core(q + 1, u, cx, e, NLocals, x.mem, x.lmem, x.native)) /\ w = Called(family, indirect, x.mem[e - 1], u, cx)
       /\ Ready(family, x, ops)
  BY <1>5 DEF ops
<1> HIDE DEF w, ops
<1>11. /\ Yields(family, c, x, ops, <<w>>, lm, size)
       /\ Is(c, q + 10, "contract") => Yields(family, c, x, ops, <<>>, lm, size + 1)
  BY <1>2, <1>6, <1>7, <1>9, <1>10, <1>14, CallEnds
<1>12. CASE hasReturn
  <2>1. CallSize(hasReturn, indirect) = size
    BY <1>12 DEF CallSize, size
  <2> QED  BY <1>8, <1>11, <1>12, <2>1 DEF ops
<1>13. CASE ~hasReturn
  <2>1. CallSize(hasReturn, indirect) = size + 1
    BY <1>13 DEF CallSize, size
  <2>2. Is(c, q + 10, "contract")
    BY <1>2, <1>13, InsFields DEF Is, _PopContractStack
  <2> QED  BY <1>11, <1>13, <2>1, <2>2 DEF ops
<1> QED  BY <1>12, <1>13

\* The locals after an opcode without control flow whose operands are a.
After(ins, a, lm) == IF ins.op \in {"set_local", "tee_local"} THEN [lm EXCEPT ![ins.n] = a[1]] ELSE lm

\* The locals of the direct reading, as far as the function has any.
Knows(fam, x, r) == \A i \in 0 .. fam.locals - 1 : r.locals[i] = x.lmem[i]

LEMMA BinaryYields ==
  ASSUME family \in Families, NEW ins, ins.op \in {"sub", "cmp", "farith", "div", "mul"}, NEW c, NEW x, Ready(family, x, 2),
         NEW p \in Nat, x.ip = p + 1, Has(c, p, Template(ins))
  PROVE  Yields(family, c, x, 2, <<Diff(family, x.mem[x.rdi - 1], x.rax)>>, x.lmem, Len(Template(ins)))
<1> DEFINE v == <<Diff(family, x.mem[x.rdi - 1], x.rax)>>
<1>1. family.m \in Nat \ {0}
  BY FamilyFacts DEF M
<1>2. CASE ins.op = "sub"
  <2>1. Template(ins) = SwappedOp
    BY <1>2 DEF Template
  <2>2. Len(SwappedOp) = 2
    BY DEF SwappedOp
  <2>3. Yields(family, c, x, 2, v, x.lmem, 2)
    BY <1>1, <2>1, SwappedYields
  <2> QED  BY <2>1, <2>2, <2>3
<1>3. CASE ins.op = "cmp"
  <2>1. Template(ins) = UnswappedOp
    BY <1>3 DEF Template
  <2>2. Len(UnswappedOp) = 2
    BY DEF UnswappedOp
  <2>3. Yields(family, c, x, 2, v, x.lmem, 2)
    BY <1>1, <2>1, UnswappedYields
  <2> QED  BY <2>1, <2>2, <2>3
<1>4. CASE ins.op = "mul"
  <2>1. Template(ins) = Mul
    BY <1>4 DEF Template
  <2>2. Len(Mul) = 2
    BY DEF Mul
  <2>3. Yields(family, c, x, 2, v, x.lmem, 2)
    BY <1>1, <2>1, MulYields
  <2> QED  BY <2>1, <2>2, <2>3
<1>5. CASE ins.op = "farith"
  <2>1. Template(ins) = FloatOp
    BY <1>5 DEF Template
  <2>2. Len(FloatOp) = 2
    BY DEF FloatOp
  <2>3. Yields(family, c, x, 2, v, x.lmem, 2)
    BY <1>1, <2>1, FloatYields
  <2> QED  BY <2>1, <2>2, <2>3
<1>6. CASE ins.op = "div"
  <2>1. Template(ins) = Div
    BY <1>6 DEF Template
  <2>2. Len(Div) = 3
    BY DEF Div
  <2>3. Yields(family, c, x, 2, v, x.lmem, 3)
    BY <1>1, <2>1, DivYields
  <2> QED  BY <2>1, <2>2, <2>3
<1> QED  BY <1>2, <1>3, <1>4, <1>5, <1>6

LEMMA UnaryYields ==
  ASSUME NEW ins, ins.op \in Unary, NEW c, NEW x, Ready(family, x, 1),
         NEW p \in Nat, x.ip = p + 1, Has(c, p, Template(ins))
  PROVE  Yields(family, c, x, 1, <<G(x.rax)>>, x.lmem, Len(Template(ins)))
<1> DEFINE v == <<G(x.rax)>>
           t == <<Ins("rax := G(rax)", 0)>>
<1>1. CASE ins.op \in {"eqz", "grow_memory", "load"}
  <2>1. Template(ins) = t
    BY <1>1 DEF Template, Convert, LoadMem
  <2>2. Len(t) = 1
    OBVIOUS
  <2>3. c[p + 1] = Ins("rax := G(rax)", 0)
    BY <2>1, HasOne
  <2>4. IsG(c, p + 1)
    BY <2>3, InsFields DEF IsG
  <2>5. Yields(family, c, x, 1, v, x.lmem, 1)
    BY <2>4, ConvertYields
  <2> QED  BY <2>1, <2>2, <2>5
<1>2. CASE ins.op = "popcnt"
  <2>1. Template(ins) = Popcnt
    BY <1>2 DEF Template
  <2>2. Len(Popcnt) = 2
    BY DEF Popcnt
  <2>3. Yields(family, c, x, 1, v, x.lmem, 2)
    BY <2>1, PopcntYields
  <2> QED  BY <2>1, <2>2, <2>3
<1> QED  BY <1>1, <1>2 DEF Unary

LEMMA Joined ==
  ASSUME NEW u, NEW v
  PROVE  <<u>> \o <<>> = <<u>> /\ <<u>> \o <<v>> = <<u, v>>
<1> DEFINE S == {u, v}
           one == <<u>>
           two == <<v>>
           both == <<u, v>>
<1>1. one \in Seq(S) /\ Len(one) = 1 /\ one[1] = u /\ two \in Seq(S) /\ Len(two) = 1 /\ two[1] = v
  BY Tuple1
<1>2. both \in Seq(S) /\ Len(both) = 2 /\ both[1] = u /\ both[2] = v
  BY Tuple2
<1>3. 1 \in 1 .. 1 /\ (\A i \in 1 .. 2 : i = 1 \/ i = 1 + 1) /\ 1 + 1 = 2
  OBVIOUS
<1> HIDE DEF S, one, two, both
<1>4. one \o <<>> = one
  BY <1>1, ConcatEmptySeq
<1>5. one \o two = both
  <2>1. /\ one \o two \in Seq(S) /\ Len(one \o two) = Len(one) + Len(two)
        /\ \A i \in 1 .. Len(one) : (one \o two)[i] = one[i]
        /\ \A i \in 1 .. Len(two) : (one \o two)[Len(one) + i] = two[i]
    <3>1. one \in Seq(S) /\ two \in Seq(S)
      BY <1>1
    <3> QED  BY ONLY <3>1, ConcatFacts
  <2> DEFINE s == one \o two
  <2> HIDE DEF s
  <2>2. s \in Seq(S) /\ Len(s) = 2 /\ s[1] = u /\ s[1 + 1] = v
    BY <1>1, <1>3, <2>1 DEF s
  <2>3. \A i \in 1 .. Len(s) : s[i] = both[i]
    BY <1>2, <1>3, <2>2
  <2>4. s = both
    BY <1>2, <2>2, <2>3, SeqEqual
  <2> QED  BY <2>4 DEF s
<1> QED  BY <1>4, <1>5 DEF one, two, both

LEMMA MoveYields ==
  ASSUME family \in Families, NEW ins, PlainOK(family, ins), NEW c, NEW x, NEW p \in Nat, x.ip = p + 1, Has(c, p, Template(ins)),
         NEW r, Knows(family, x, r)
  PROVE  /\ ins.op = "const" /\ Ready(family, x, 0) => Yields(family, c, x, 0, <<ins.n>>, x.lmem, Len(Template(ins)))
         /\ ins.op = "get_local" /\ Ready(family, x, 0) =>
               Yields(family, c, x, 0, <<r.locals[ins.n]>>, x.lmem, Len(Template(ins)))
         /\ ins.op = "drop" /\ Ready(family, x, 1) => Yields(family, c, x, 1, <<>>, x.lmem, Len(Template(ins)))
         /\ ins.op = "select" /\ Ready(family, x, 3) =>
               Yields(family, c, x, 3, <<x.mem[IF x.rax # 0 THEN x.rdi - 2 ELSE x.rdi - 1]>>, x.lmem, Len(Template(ins)))
         /\ ins.op = "tee_local" /\ Ready(family, x, 1) =>
               Yields(family, c, x, 1, <<x.rax>>, [x.lmem EXCEPT ![ins.n] = x.rax], Len(Template(ins)))
         /\ ins.op = "set_local" /\ Ready(family, x, 1) =>
               Yields(family, c, x, 1, <<>>, [x.lmem EXCEPT ![ins.n] = x.rax], Len(Template(ins)))
<1> DEFINE n == ins.n
           t == Template(ins)
           load == Ins("mov rax", n)
           get == Ins("mov rax, local", n)
           set == Ins("mov local, rax", n)
<1>1. n \in Nat
  BY DEF PlainOK
<1>2. ins.op \in {"get_local", "set_local", "tee_local"} =>
          n \in LocalsOf(family) /\ n \in 0 .. family.locals - 1
  <2>1. ins.op \in {"get_local", "set_local", "tee_local"} => n < NLocals
    BY DEF PlainOK, NLocals
  <2>2. NLocals \in Nat /\ family.locals = NLocals
    BY FamilyFacts DEF NLocals
  <2> HIDE DEF n
  <2> QED  BY <1>1, <2>1, <2>2 DEF LocalsOf
<1>3. /\ load.op = "mov rax" /\ load.n = n /\ get.op = "mov rax, local" /\ get.n = n
      /\ set.op = "mov local, rax" /\ set.n = n /\ _PushExpandStack.op = "expand" /\ _PopContractStack.op = "contract"
  BY InsFields DEF _PushExpandStack, _PopContractStack
<1>4. ASSUME ins.op = "const", Ready(family, x, 0) PROVE Yields(family, c, x, 0, <<n>>, x.lmem, Len(t))
  <2>1. t = <<_PushExpandStack, load>>
    BY <1>4 DEF Template, PushC
  <2> HIDE DEF load, n, t
  <2>2. Len(t) = 2
    BY <2>1
  <2>3. c[p + 1] = _PushExpandStack /\ c[p + 1 + 1] = load
    BY <2>1, HasTwo DEF t
  <2>4. c[p + 1].op = "expand" /\ Loads(c[p + 1 + 1], x, n)
    BY <1>3, <2>3 DEF Loads
  <2>5. Yields(family, c, x, 0, <<n>>, x.lmem, 2)
    BY <1>1, <1>4, <2>4, PushYields
  <2> QED  BY <2>2, <2>5
<1>5. ASSUME ins.op = "get_local", Ready(family, x, 0) PROVE Yields(family, c, x, 0, <<r.locals[n]>>, x.lmem, Len(t))
  <2> DEFINE v == x.lmem[n]
  <2>1. t = <<_PushExpandStack, get>>
    BY <1>5 DEF Template, GetLocal
  <2>6. 0 + n = n
    BY <1>1
  <2>7. v = r.locals[n]
    BY <1>2, <1>5 DEF Knows
  <2>8. v \in Nat
    BY <1>2, <1>5 DEF Ready, Typed
  <2> HIDE DEF get, n, t
  <2>2. Len(t) = 2
    BY <2>1
  <2>3. c[p + 1] = _PushExpandStack /\ c[p + 1 + 1] = get
    BY <2>1, HasTwo DEF t
  <2>4. c[p + 1].op = "expand" /\ Loads(c[p + 1 + 1], x, v)
    BY <1>3, <2>3, <2>6 DEF Loads
  <2> HIDE DEF v
  <2>5. Yields(family, c, x, 0, <<v>>, x.lmem, 2)
    BY <1>5, <2>4, <2>8, PushYields
  <2> QED  BY <2>2, <2>5, <2>7
<1>6. ASSUME ins.op = "drop", Ready(family, x, 1) PROVE Yields(family, c, x, 1, <<>>, x.lmem, Len(t))
  <2>1. t = <<_PopContractStack>>
    BY <1>6 DEF Template
  <2>2. Len(t) = 1
    BY <2>1
  <2> HIDE DEF t
  <2>3. c[p + 1] = _PopContractStack
    BY <2>1, HasOne DEF t
  <2>4. c[p + 1].op = "contract"
    BY <1>3, <2>3
  <2>5. Yields(family, c, x, 1, <<>>, x.lmem, 1)
    BY <1>6, <2>4, DropYields
  <2> QED  BY <2>2, <2>5
<1>7. ASSUME ins.op = "select", Ready(family, x, 3)
      PROVE  Yields(family, c, x, 3, <<x.mem[IF x.rax # 0 THEN x.rdi - 2 ELSE x.rdi - 1]>>, x.lmem, Len(t))
  <2>1. t = <<Ins("select", 0)>>
    BY <1>7 DEF Template
  <2>2. Len(t) = 1
    BY <2>1
  <2> HIDE DEF t
  <2>3. c[p + 1] = Ins("select", 0)
    BY <2>1, HasOne DEF t
  <2>4. Is(c, p + 1, "select")
    BY <2>3, InsFields DEF Is
  <2>5. Yields(family, c, x, 3, <<x.mem[IF x.rax # 0 THEN x.rdi - 2 ELSE x.rdi - 1]>>, x.lmem, 1)
    BY <1>7, <2>4, SelectYields
  <2> QED  BY <2>2, <2>5
<1>8. ASSUME ins.op = "tee_local", Ready(family, x, 1)
      PROVE  Yields(family, c, x, 1, <<x.rax>>, [x.lmem EXCEPT ![n] = x.rax], Len(t))
  <2>1. t = <<set>>
    <3>1. t = <<set>> \o <<>>
      BY <1>8 DEF Template, SetLocal
    <3> HIDE DEF t, set
    <3> QED  BY <3>1, Joined
  <2> HIDE DEF t, set, n
  <2>2. Len(t) = 1
    BY <2>1
  <2>3. c[p + 1] = set
    BY <2>1, HasOne DEF t
  <2>4. SetsLocal(c, p + 1, n)
    BY <1>3, <2>3 DEF SetsLocal
  <2>5. n \in LocalsOf(family)
    BY <1>2, <1>8
  <2>6. Yields(family, c, x, 1, <<x.rax>>, [x.lmem EXCEPT ![n] = x.rax], 1)
    BY <1>8, <2>4, <2>5, TeeYields
  <2> QED  BY <2>2, <2>6
<1>9. ASSUME ins.op = "set_local", Ready(family, x, 1)
      PROVE  Yields(family, c, x, 1, <<>>, [x.lmem EXCEPT ![n] = x.rax], Len(t))
  <2>1. t = <<set, _PopContractStack>>
    <3>1. t = <<set>> \o <<_PopContractStack>>
      BY <1>9 DEF Template, SetLocal
    <3> HIDE DEF t, set
    <3> QED  BY <3>1, Joined
  <2> HIDE DEF t, set, n
  <2>2. Len(t) = 2
    BY <2>1
  <2>3. c[p + 1] = set /\ c[p + 1 + 1] = _PopContractStack
    BY <2>1, HasTwo DEF t
  <2>4. SetsLocal(c, p + 1, n) /\ Is(c, p + 1 + 1, "contract")
    BY <1>3, <2>3 DEF SetsLocal, Is
  <2>5. n \in LocalsOf(family)
    BY <1>2, <1>9
  <2>6. Yields(family, c, x, 1, <<>>, [x.lmem EXCEPT ![n] = x.rax], 2)
    BY <1>9, <2>4, <2>5, SetYields DEF Is
  <2> QED  BY <2>2, <2>6
<1> QED  BY <1>4, <1>5, <1>6, <1>7, <1>8, <1>9

LEMMA OneTuple ==
  ASSUME NEW S, NEW a \in Seq(S), Len(a) = 1
  PROVE  a = <<a[1]>>
<1> DEFINE v == a[1]
           t == <<v>>
<1>1. v \in S
  BY ElementOfSeq
<1>2. t \in Seq(S) /\ Len(t) = 1 /\ t[1] = v
  BY <1>1, Tuple1
<1>3. \A i \in 1 .. 1 : i = 1
  OBVIOUS
<1> HIDE DEF t
<1>4. \A i \in 1 .. Len(a) : a[i] = t[i]
  BY <1>2, <1>3
<1>5. a = t
  BY <1>2, <1>4, SeqEqual
<1> QED  BY <1>5 DEF t

\* The template of an opcode without control flow takes its operands and leaves its result.
LEMMA PlainYields ==
  ASSUME family \in Families, NEW ins, PlainOK(family, ins), ins.op \notin {"store", "f64_eq", "f64_lt"}, NEW c, NEW x,
         Ready(family, x, Pops(ins)), NEW p \in Nat, x.ip = p + 1, x.native \in Seq(Nat), Has(c, p, Template(ins)),
         NEW r, Knows(family, x, r), NEW a \in Seq(Nat), Len(a) = Pops(ins), Args(x, Pops(ins), a)
  PROVE  Yields(family, c, x, Pops(ins), Result(ins, a, r), After(ins, a, x.lmem), Len(Template(ins)))
<1> DEFINE t == Template(ins)
           n == ins.n
           L == Len(t)
<1>1. /\ ins.op = "const" \/ ins.op = "get_local" => Pops(ins) = 0
      /\ ins.op \in {"drop", "set_local", "tee_local"} \cup Unary => Pops(ins) = 1
      /\ ins.op \in {"sub", "cmp", "farith", "div", "mul", "call"} => Pops(ins) = 2
      /\ ins.op \in {"select", "call_indirect"} => Pops(ins) = 3
  BY DEF Pops, Binary, Unary
<1>2. /\ ins.op \in {"sub", "cmp", "farith", "div", "mul"} => ins.op \in Binary
      /\ ins.op \in Binary => ins.op \notin {"const", "get_local", "tee_local", "set_local"}
      /\ ins.op \in Unary => ins.op \notin {"const", "get_local", "tee_local", "set_local"} \cup Binary
  BY DEF Binary, Unary
<1>3. CASE ins.op \in {"sub", "cmp", "farith", "div", "mul"}
  <2>1. Ready(family, x, 2) /\ Args(x, 2, a) /\ Pops(ins) = 2
    BY <1>1, <1>3
  <2>2. Yields(family, c, x, 2, <<Diff(family, x.mem[x.rdi - 1], x.rax)>>, x.lmem, L)
    BY <1>3, <2>1, BinaryYields
  <2>3. Result(ins, a, r) = <<F(a[1], a[2])>> /\ After(ins, a, x.lmem) = x.lmem
    BY <1>2, <1>3 DEF Result, After, Binary, Unary
  <2>4. a[1] = x.mem[x.rdi - 1] /\ a[2] = x.rax
    BY <2>1, ArgsAre
  <2>5. F(a[1], a[2]) = Diff(family, x.mem[x.rdi - 1], x.rax)
    BY <2>4 DEF F, Diff, M
  <2> QED  BY <2>1, <2>2, <2>3, <2>5
<1>4. CASE ins.op \in Unary
  <2>1. Ready(family, x, 1) /\ Args(x, 1, a) /\ Pops(ins) = 1
    BY <1>1, <1>4
  <2>2. Yields(family, c, x, 1, <<G(x.rax)>>, x.lmem, L)
    BY <1>4, <2>1, UnaryYields
  <2>3. Result(ins, a, r) = <<G(a[1])>> /\ After(ins, a, x.lmem) = x.lmem
    BY <1>2, <1>4 DEF Result, After, Binary, Unary
  <2>4. a[1] = x.rax
    BY <2>1, ArgsAre
  <2> QED  BY <2>1, <2>2, <2>3, <2>4
<1>5. CASE ins.op = "const"
  <2>1. Ready(family, x, 0) /\ Pops(ins) = 0
    BY <1>1, <1>5
  <2>2. Result(ins, a, r) = <<n>> /\ After(ins, a, x.lmem) = x.lmem
    BY <1>5 DEF Result, After, Binary, Unary
  <2> QED  BY <1>5, <2>1, <2>2, MoveYields
<1>6. CASE ins.op = "get_local"
  <2>1. Ready(family, x, 0) /\ Pops(ins) = 0
    BY <1>1, <1>6
  <2>2. Result(ins, a, r) = <<r.locals[n]>> /\ After(ins, a, x.lmem) = x.lmem
    BY <1>6 DEF Result, After, Binary, Unary
  <2> QED  BY <1>6, <2>1, <2>2, MoveYields
<1>7. CASE ins.op = "drop"
  <2>1. Ready(family, x, 1) /\ Pops(ins) = 1
    BY <1>1, <1>7
  <2>2. Result(ins, a, r) = <<>> /\ After(ins, a, x.lmem) = x.lmem
    BY <1>7 DEF Result, After, Binary, Unary
  <2> QED  BY <1>7, <2>1, <2>2, MoveYields
<1>8. CASE ins.op = "select"
  <2>1. Ready(family, x, 3) /\ Pops(ins) = 3 /\ Args(x, 3, a)
    BY <1>1, <1>8
  <2>2. a[1] = x.mem[x.rdi - 2] /\ a[2] = x.mem[x.rdi - 1] /\ a[3] = x.rax
    BY <2>1, ArgsAre
  <2>3. Result(ins, a, r) = (IF a[3] # 0 THEN <<a[1]>> ELSE <<a[2]>>) /\ After(ins, a, x.lmem) = x.lmem
    BY <1>8 DEF Result, After, Binary, Unary
  <2>4. Result(ins, a, r) = <<x.mem[IF x.rax # 0 THEN x.rdi - 2 ELSE x.rdi - 1]>>
    BY <2>2, <2>3
  <2>5. Yields(family, c, x, 3, <<x.mem[IF x.rax # 0 THEN x.rdi - 2 ELSE x.rdi - 1]>>, x.lmem, L)
    BY <1>8, <2>1, MoveYields
  <2> QED  BY <2>1, <2>3, <2>4, <2>5
<1>9. CASE ins.op = "tee_local"
  <2>1. Ready(family, x, 1) /\ Pops(ins) = 1 /\ Args(x, 1, a)
    BY <1>1, <1>9
  <2>2. a = <<a[1]>>
    <3>1. Len(a) = 1
      BY <2>1
    <3> QED  BY <3>1, OneTuple
  <2>3. a[1] = x.rax
    BY <2>1, ArgsAre
  <2>4. Result(ins, a, r) = a /\ After(ins, a, x.lmem) = [x.lmem EXCEPT ![n] = x.rax]
    BY <1>9, <2>3 DEF Result, After, Binary, Unary
  <2>5. Yields(family, c, x, 1, <<x.rax>>, [x.lmem EXCEPT ![n] = x.rax], L)
    BY <1>9, <2>1, MoveYields
  <2> QED  BY <2>1, <2>2, <2>3, <2>4, <2>5
<1>10. CASE ins.op = "set_local"
  <2>1. Ready(family, x, 1) /\ Pops(ins) = 1 /\ Args(x, 1, a)
    BY <1>1, <1>10
  <2>2. a[1] = x.rax
    BY <2>1, ArgsAre
  <2>3. Result(ins, a, r) = <<>> /\ After(ins, a, x.lmem) = [x.lmem EXCEPT ![n] = x.rax]
    BY <1>10, <2>2 DEF Result, After, Binary, Unary
  <2>4. Yields(family, c, x, 1, <<>>, [x.lmem EXCEPT ![n] = x.rax], L)
    BY <1>10, <2>1, MoveYields
  <2> QED  BY <2>1, <2>3, <2>4
<1>11. CASE ins.op = "call"
  <2> DEFINE f == ins.n = 1
  <2>1. Pops(ins) = CallOps(FALSE) /\ t = CallIfn(f, FALSE) /\ f \in BOOLEAN
    BY <1>1, <1>11 DEF CallOps, Template
  <2>2. L = CallSize(f, FALSE)
    BY <2>1, CallHas
  <2>3. Result(ins, a, r) = (IF f THEN <<CallValue(FALSE, a)>> ELSE <<>>) /\ After(ins, a, x.lmem) = x.lmem
    BY <1>11 DEF Result, After, CallValue, Binary, Unary
  <2> HIDE DEF f
  <2>4. Yields(family, c, x, CallOps(FALSE), IF f THEN <<CallValue(FALSE, a)>> ELSE <<>>, x.lmem, CallSize(f, FALSE))
    BY <2>1, CallYields
  <2> QED  BY <2>1, <2>2, <2>3, <2>4
<1>12. CASE ins.op = "call_indirect"
  <2> DEFINE f == ins.n = 1
  <2>1. Pops(ins) = CallOps(TRUE) /\ t = CallIfn(f, TRUE) /\ f \in BOOLEAN
    BY <1>1, <1>12 DEF CallOps, Template
  <2>2. L = CallSize(f, TRUE)
    BY <2>1, CallHas
  <2>3. Result(ins, a, r) = (IF f THEN <<CallValue(TRUE, a)>> ELSE <<>>) /\ After(ins, a, x.lmem) = x.lmem
    BY <1>12 DEF Result, After, CallValue, Binary, Unary
  <2> HIDE DEF f
  <2>4. Yields(family, c, x, CallOps(TRUE), IF f THEN <<CallValue(TRUE, a)>> ELSE <<>>, x.lmem, CallSize(f, TRUE))
    BY <2>1, CallYields
  <2> QED  BY <2>1, <2>2, <2>3, <2>4
<1>13. ins.op \in PlainOps
  BY DEF PlainOK
<1> QED  BY <1>3, <1>4, <1>5, <1>6, <1>7, <1>8, <1>9, <1>10, <1>11, <1>12, <1>13 DEF PlainOps, Binary
=============================================================================
