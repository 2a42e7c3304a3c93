------------------------------ MODULE StackCode ------------------------------
(***************************************************************************)
(* The code CompileFn emits for one function, and what that code does to   *)
(* the operand stack.                                                      *)
(*                                                                         *)
(* The compiler is one pass over the bytecode.  It keeps no record of how  *)
(* many operands are live: every template of JitWriter.cpp pushes and pops *)
(* through rax (the top), rdi (one past the rest) and memory, a block      *)
(* saves rdi on the native stack when it is entered, and a branch restores *)
(* it by popping.  Forward branches are patched when their block ends.     *)
(*                                                                         *)
(* The first phase compiles any valid function up to a length, one opcode  *)
(* handler at a time; the second runs the emitted code template by         *)
(* template beside a direct reading of the bytecode (`ref'), which steps   *)
(* whenever the machine passes the `mov r12, opcode' that _SetDbgReg puts  *)
(* in front of every instruction.                                          *)
(*                                                                         *)
(* Abstractions.  A value is a number below M; all binary operators are    *)
(* one non-commutative function and all unary ones another, since what the *)
(* templates differ in is where they find their operands.  Linear memory   *)
(* and globals are left out.  A callee is any code that keeps the calling  *)
(* convention and overwrites everything above its operands and locals.     *)
(* Unreachable code holds only the else or end that closes it.             *)
(*                                                                         *)
(* A definition named X_Y is X with a deliberate error: the runs have to   *)
(* notice it.  No other definition uses one.                               *)
(***************************************************************************)
EXTENDS Integers, SequencesExt

CONSTANT Families       \* the kinds of functions to compile, each a record of:
                        \*   len       bound on the instructions before the function's last end
                        \*   plain     the opcodes without control flow it may use
                        \*   openers   the pairs <<"block" | "loop" | "if", arity>> it may open
                        \*   elses     the arities of an if that may have an else
                        \*   branches  which of "br", "br_if", "br_table", "return" it may use
                        \*   consts    the constants it may push
                        \*   m         values are 0 .. m - 1
                        \*   args      cparams
                        \*   locals    clocals, the arguments included
                        \*   arity     whether it has a result: 0 or 1

VARIABLES
    family,     \* the kind of function being compiled
    phase,      \* "compile", "ready", "run", "done"; "crash" if a ret pops a saved rdi or vice versa
    prog,       \* the bytecode read so far
    code,       \* the code emitted so far
    blocks,     \* stackBlockTypeAddr with its two stacks of fixups
    height,     \* the number of operands here, known to the validator only
    live,       \* whether this point is reachable, likewise
    closes,     \* where the bytecode's else and end of each opener are, likewise
    ip, rax, rcx, rdi, rbx,
    mem,        \* m_vecoperand
    lmem,       \* m_veclocals
    native,     \* the native stack
    ref         \* the direct reading: pc, operands, labels, locals

MaxLen == family.len
M == family.m
NArgs == family.args
NLocals == family.locals
FnArity == family.arity

Val == 0 .. M - 1
Junk == M                       \* what nobody wrote
Base == 1                       \* where rdi is when the function is entered
Slots == 0 .. Base + 2 * MaxLen + 6
LocalSlots == 0 .. NLocals + 1
RetAddr == 0                    \* the native stack: a return address, else a saved rdi

F(a, b) == (a - b) % M          \* stands for every binary operator
G(a) == IF a = 0 THEN 1 ELSE 0  \* stands for every unary operator

Binary == {"sub", "cmp", "farith", "div", "mul", "f64_eq", "f64_lt"}
Unary == {"eqz", "popcnt", "load", "grow_memory"}

\* Operands taken and results left by the opcodes without control flow; a call takes two.
Pops(ins) ==
    CASE ins.op \in Binary \cup {"store", "call"} -> 2
      [] ins.op \in {"select", "call_indirect"} -> 3
      [] ins.op \in Unary \cup {"drop", "set_local", "tee_local"} -> 1
      [] OTHER -> 0
Pushes(ins) ==
    CASE ins.op \in {"drop", "set_local", "store"} -> 0
      [] ins.op \in {"call", "call_indirect"} -> ins.n
      [] OTHER -> 1

PlainOps ==
    Binary \cup Unary \cup {"const", "drop", "get_local", "set_local", "tee_local", "store", "select",
                           "call", "call_indirect"}

ASSUME StackCodeAssumption == \A f \in Families :
    /\ f.plain \subseteq PlainOps
    /\ f.m \in Nat \ {0} /\ f.consts \subseteq 0 .. f.m - 1
    /\ f.len \in Nat
    /\ f.args \in Nat /\ f.locals \in Nat /\ f.args <= f.locals
    /\ f.arity \in {0, 1}
    /\ f.openers \subseteq {"block", "loop", "if"} \X {0, 1}
    /\ f.elses \subseteq {0, 1}
    /\ f.branches \subseteq {"br", "br_if", "br_table", "return"}

-----------------------------------------------------------------------------
compiler == <<family, prog, code, blocks, height, live, closes>>
machine == <<ip, rax, rcx, rdi, rbx, mem, lmem, native>>
vars == <<phase, compiler, machine, ref>>

Ins(op, n) == [op |-> op, n |-> n, ts |-> <<>>]

-----------------------------------------------------------------------------
(* The templates: what JitWriter's member functions push into the plane.   *)

_PushExpandStack == Ins("expand", 0)
_PopContractStack == Ins("contract", 0)
PushRdi == Ins("push rdi", 0)
PopRdi == Ins("pop rdi", 0)

PushC(c) == <<_PushExpandStack, Ins("mov rax", c)>>
GetLocal(i) == <<_PushExpandStack, Ins("mov rax, local", i)>>
SetLocal(i, pop) ==
    <<Ins("mov local, rax", i)>> \o (IF pop THEN <<_PopContractStack>> ELSE <<>>)

EnterBlock == <<_PushExpandStack, PushRdi>>
LeaveBlock(hasReturn) == <<PopRdi>> \o (IF hasReturn THEN <<>> ELSE <<_PopContractStack>>)

\* The arguments move to the callee's locals, the operand under them to memory.
CallIfn(hasReturn, indirect) ==
    <<Ins("add rbx", NLocals)>>
    \o (IF indirect THEN <<Ins("mov rcx, rax", 0), _PopContractStack>> ELSE <<>>)
    \o SetLocal(1, TRUE) \o SetLocal(0, TRUE)
    \o <<_PushExpandStack, PushRdi, Ins(IF indirect THEN "call shim" ELSE "call", 0), PopRdi,
         Ins("add rbx", -NLocals)>>
    \o (IF hasReturn THEN <<>> ELSE <<_PopContractStack>>)

FnPrologue ==
    (IF NLocals > NArgs THEN <<Ins("rep stos", 0)>> ELSE <<>>) \o <<_PushExpandStack, PushRdi>>

\* The binary operators, by where they find their operands.  Subtraction, shifts and rotates;
\* the other integer operators and the integer comparisons; the products; the float operators
\* and comparisons; the divisions.  The comparisons of doubles read [rdi] before they pop, and
\* the case of f64_lt falls through into that of f64_gt.
SwappedOp == <<Ins("second, swapped", 0), Ins("rax := F(rax, rcx)", 0)>>
UnswappedOp == <<Ins("second", 0), Ins("rax := F(rcx, rax)", 0)>>
Mul == <<Ins("rax := F([rdi-8], rax)", 0), Ins("add rdi", -1)>>
FloatOp == <<Ins("add rdi", -1), Ins("rax := F([rdi], rax)", 0)>>
Div == <<Ins("add rdi", -1), Ins("xchg rax, [rdi]", 0), Ins("rax := F(rax, [rdi])", 0)>>
DoubleCompare == <<Ins("rax := F([rdi], rax)", 0), Ins("add rdi", -1)>>
DoubleCompareSwapped == <<Ins("rax := F(rax, [rdi])", 0), Ins("add rdi", -1)>>

\* The unary ones: the integer tests and all conversions work in rax, popcnt through [rdi].
Convert == <<Ins("rax := G(rax)", 0)>>
Popcnt == <<Ins("mov [rdi], rax", 0), Ins("rax := G([rdi])", 0)>>
LoadMem == <<Ins("rax := G(rax)", 0)>>
StoreMem == <<Ins("second", 0)>>

\* The opcodes without control flow.
Template(ins) ==
    CASE ins.op = "const" -> PushC(ins.n)
      [] ins.op = "drop" -> <<_PopContractStack>>
      [] ins.op = "get_local" -> GetLocal(ins.n)
      [] ins.op = "set_local" -> SetLocal(ins.n, TRUE)
      [] ins.op = "tee_local" -> SetLocal(ins.n, FALSE)
      [] ins.op = "sub" -> SwappedOp
      [] ins.op = "cmp" -> UnswappedOp
      [] ins.op = "mul" -> Mul
      [] ins.op = "farith" -> FloatOp
      [] ins.op = "div" -> Div
      [] ins.op = "f64_eq" -> DoubleCompare
      [] ins.op = "f64_lt" -> DoubleCompare \o DoubleCompareSwapped
      [] ins.op \in {"eqz", "grow_memory"} -> Convert
      [] ins.op = "popcnt" -> Popcnt
      [] ins.op = "load" -> LoadMem
      [] ins.op = "store" -> StoreMem
      [] ins.op = "select" -> <<Ins("select", 0)>>
      [] ins.op = "call" -> CallIfn(ins.n = 1, FALSE)
      [] ins.op = "call_indirect" -> CallIfn(ins.n = 1, TRUE)

PlainIns ==
    {ins \in [op : family.plain, n : family.consts \cup 0 .. NLocals \cup {0, 1}, ts : {<<>>}] :
        CASE ins.op = "const" -> ins.n \in family.consts
          [] ins.op \in {"get_local", "set_local", "tee_local"} -> ins.n < NLocals
          [] ins.op \in {"call", "call_indirect"} -> ins.n \in {0, 1}
          [] OTHER -> ins.n = 0}

-----------------------------------------------------------------------------
(* CompileFn's opcode loop                                                 *)

\* stackBlockTypeAddr starts with the function itself, of type none.  `addr' 0 is nullptr:
\* the branch has to be patched.
Block(kind, type, addr, rel, at, h) ==
    [kind |-> kind, type |-> type, addr |-> addr, rel |-> rel, abs |-> {}, at |-> at, height |-> h]
TypeOf(arity) == IF arity = 0 THEN "empty_block" ELSE "value"

Top == Last(blocks)
Target(d) == blocks[Len(blocks) - d]
Arity(b) == IF b.kind = "fn" THEN FnArity ELSE IF b.type = "value" THEN 1 ELSE 0
LabelArity(b) == IF b.kind = "loop" THEN 0 ELSE Arity(b)

\* Operands the current block may take.
Avail == height - Top.height

Here == Len(prog) + 1           \* the number of the instruction being compiled
Cur == Len(code) + 2            \* m_pexecPlaneCur when its handler starts

\* The handler of an instruction runs after _SetDbgReg.
Emit(ins, body) ==
    /\ prog' = Append(prog, ins)
    /\ code' = code \o <<Ins("dbg", Here)>> \o body

Patch(c, at, target) ==
    [i \in 1 .. Len(c) |-> IF i \in at THEN [c[i] EXCEPT !.n = target] ELSE c[i]]

CanCompile == phase = "compile" /\ live /\ Len(prog) < MaxLen

CompilePlain(ins) ==
    /\ CanCompile
    /\ Pops(ins) <= Avail
    /\ Emit(ins, Template(ins))
    /\ height' = height - Pops(ins) + Pushes(ins)
    /\ UNCHANGED <<phase, blocks, live, closes, machine, ref>>

\* block and loop: a loop's address is known, a block's is not.
CompileBlock(kind, arity) ==
    /\ CanCompile
    /\ kind \in {"block", "loop"}
    /\ Emit(Ins(kind, arity), EnterBlock)
    /\ blocks' = Append(blocks, Block(kind, TypeOf(arity), IF kind = "loop" THEN Cur ELSE 0,
                                      <<>>, Here, height))
    /\ UNCHANGED <<phase, height, live, closes, machine, ref>>

\* EnterIF: the jz is the first fixup of the block.
CompileIf(arity) ==
    /\ CanCompile
    /\ Avail >= 1
    /\ Emit(Ins("if", arity), <<Ins("enter if", 0)>> \o EnterBlock)
    /\ blocks' = Append(blocks, Block("if", TypeOf(arity), 0, <<Cur>>, Here, height - 1))
    /\ height' = height - 1
    /\ UNCHANGED <<phase, live, closes, machine, ref>>

\* The then arm jumps to the end; the first fixup, the jz, comes here.
CompileElse ==
    /\ phase = "compile"
    /\ Top.kind = "if" /\ Arity(Top) \in family.elses
    /\ live => Avail = Arity(Top)
    /\ LET leave == LeaveBlock(TRUE)
           jump == Cur + Len(leave)
           full == code \o <<Ins("dbg", Here)>> \o leave \o <<Ins("jmp", 0)>> \o EnterBlock
       IN  /\ prog' = Append(prog, Ins("else", 0))
           /\ code' = Patch(full, {Head(Top.rel)}, jump + 1)
           /\ blocks' = [blocks EXCEPT ![Len(blocks)].kind = "else",
                                       ![Len(blocks)].rel = Tail(Append(Top.rel, jump))]
    /\ height' = Top.height
    /\ live' = TRUE
    /\ closes' = [closes EXCEPT ![Top.at].els = Here]
    /\ UNCHANGED <<phase, machine, ref>>

LeaveTo_NeverContract(d) == [i \in 1 .. d + 1 |-> PopRdi]

\* Leaving d blocks and then the target, as br and br_if do.
LeaveTo(d) ==
    [i \in 1 .. d |-> PopRdi] \o LeaveBlock(Target(d).type # "empty_block")

AddFixup_BlocksOnly(d, pos) ==
    IF Target(d).kind = "block" THEN [blocks EXCEPT ![Len(blocks) - d].rel = Append(@, pos)] ELSE blocks

\* A jump emitted at `pos' to the block at depth d: patched at its end unless it is a loop.
AddFixup(d, pos) ==
    IF Target(d).addr = 0 THEN [blocks EXCEPT ![Len(blocks) - d].rel = Append(@, pos)] ELSE blocks

CompileBr(d) ==
    /\ CanCompile
    /\ Avail >= LabelArity(Target(d))
    /\ Emit(Ins("br", d), LeaveTo(d) \o <<Ins("jmp", Target(d).addr)>>)
    /\ blocks' = AddFixup(d, Cur + Len(LeaveTo(d)))
    /\ live' = FALSE
    /\ UNCHANGED <<phase, height, closes, machine, ref>>

\* JumpNIf skips the rest; its own fixup is resolved at once.
CompileBrIf(d) ==
    /\ CanCompile
    /\ Avail >= LabelArity(Target(d)) + 1
    /\ LET jump == Cur + 1 + Len(LeaveTo(d))
       IN  /\ Emit(Ins("br_if", d),
                   <<Ins("jump if not", jump + 1)>> \o LeaveTo(d) \o <<Ins("jmp", Target(d).addr)>>)
           /\ blocks' = AddFixup(d, jump)
    /\ height' = height - 1
    /\ UNCHANGED <<phase, live, closes, machine, ref>>

\* BranchTableParse: the default target first; fRetVal is taken from the default alone.
CompileBrTable(ts, d) ==
    /\ CanCompile
    /\ \A t \in Range(ts) : LabelArity(Target(t)) = LabelArity(Target(d))
    /\ Avail >= LabelArity(Target(d)) + 1
    /\ LET entries == [i \in 1 .. Len(ts) + 1 |->
                          LET t == IF i = 1 THEN d ELSE ts[i - 1]
                          IN  [dist |-> t, addr |-> Target(t).addr]]
           at(k) == {i \in 1 .. Len(entries) : entries[i].dist = k /\ entries[i].addr = 0}
       IN  /\ prog' = Append(prog, [op |-> "br_table", n |-> d, ts |-> ts])
           /\ code' = code \o <<Ins("dbg", Here),
                                [op |-> "br table", ts |-> entries,
                                 n |-> IF Target(d).type # "empty_block" THEN 1 ELSE 0]>>
           /\ blocks' = [j \in 1 .. Len(blocks) |->
                            [blocks[j] EXCEPT !.abs = @ \cup {<<Cur, i>> : i \in at(Len(blocks) - j)}]]
    /\ live' = FALSE
    /\ UNCHANGED <<phase, height, closes, machine, ref>>

CompileReturn_ForgetsFn ==
    /\ CanCompile
    /\ Avail >= FnArity
    /\ Emit(Ins("return", 0), <<Ins("add rsp", Len(blocks) - 1), Ins("ret", 0)>>)
    /\ live' = FALSE
    /\ UNCHANGED <<phase, blocks, height, closes, machine, ref>>

CompileReturn ==
    /\ CanCompile
    /\ Avail >= FnArity
    /\ Emit(Ins("return", 0), <<Ins("add rsp", Len(blocks)), Ins("ret", 0)>>)
    /\ live' = FALSE
    /\ UNCHANGED <<phase, blocks, height, closes, machine, ref>>

\* end: leave, then patch every branch to this block to come here, after the leaving.  The
\* function's own end is followed by FnEpilogue.
CompileEnd ==
    /\ phase = "compile"
    /\ live => Avail = Arity(Top)
    /\ Top.kind = "if" => Arity(Top) = 0
    /\ LET fn == Len(blocks) = 1
           full == code \o <<Ins("dbg", Here)>> \o LeaveBlock(fn \/ Top.type # "empty_block")
           here == Len(full) + 1
           patched == Patch(full, Range(Top.rel), here)
           all == [i \in 1 .. Len(patched) |->
                      [patched[i] EXCEPT !.ts = [k \in 1 .. Len(@) |->
                          IF <<i, k>> \in Top.abs THEN [@[k] EXCEPT !.addr = here] ELSE @[k]]]]
       IN  /\ prog' = Append(prog, Ins("end", 0))
           /\ code' = IF fn THEN Append(all, Ins("ret", 0)) ELSE all
           /\ phase' = IF fn THEN "ready" ELSE phase
    /\ blocks' = Front(blocks)
    /\ height' = Top.height + Arity(Top)
    /\ live' = TRUE
    /\ closes' = IF Top.at = 0 THEN closes ELSE [closes EXCEPT ![Top.at].end = Here]
    /\ UNCHANGED <<machine, ref>>

-----------------------------------------------------------------------------
(* The direct reading of the bytecode.  A label is an open block.          *)

Label(at, h) == [at |-> at, height |-> h]
EndOf(l) == IF l.at = 0 THEN Len(prog) ELSE closes[l.at].end
IsLoop(l) == l.at # 0 /\ prog[l.at].op = "loop"
Results(l) == IF l.at = 0 THEN FnArity ELSE prog[l.at].n
Upto(s, n) == SubSeq(s, 1, n)
LastN(s, n) == SubSeq(s, Len(s) - n + 1, Len(s))

\* Branching to the block at depth d, with the operands vs.
BranchTo(r, d, vs) ==
    LET l == r.labels[Len(r.labels) - d]
    IN  IF IsLoop(l)
        THEN [r EXCEPT !.pc = l.at + 1, !.labels = Upto(@, Len(@) - d), !.vals = Upto(vs, l.height)]
        ELSE [r EXCEPT !.pc = EndOf(l) + 1, !.labels = Upto(@, Len(@) - d - 1),
                       !.vals = Upto(vs, l.height) \o LastN(vs, Results(l))]

\* What an opcode without control flow leaves in place of its operands `a'.
Result(ins, a, r) ==
    CASE ins.op = "const" -> <<ins.n>>
      [] ins.op = "get_local" -> <<r.locals[ins.n]>>
      [] ins.op = "tee_local" -> a
      [] ins.op \in Binary -> <<F(a[1], a[2])>>
      [] ins.op \in Unary -> <<G(a[1])>>
      [] ins.op = "select" -> IF a[3] # 0 THEN <<a[1]>> ELSE <<a[2]>>
      [] ins.op = "call" -> IF ins.n = 1 THEN <<F(a[1], a[2])>> ELSE <<>>
      [] ins.op = "call_indirect" -> IF ins.n = 1 THEN <<F(F(a[1], a[2]), a[3])>> ELSE <<>>
      [] OTHER -> <<>>

ReadPlain(r, ins) ==
    LET a == LastN(r.vals, Pops(ins))
    IN  [r EXCEPT !.pc = @ + 1,
                  !.vals = Upto(@, Len(@) - Pops(ins)) \o Result(ins, a, r),
                  !.locals = IF ins.op \in {"set_local", "tee_local"}
                             THEN [@ EXCEPT ![ins.n] = a[1]] ELSE @]

ReadStep(r) ==
    LET ins == prog[r.pc]
        top == Last(r.vals)
        rest == Front(r.vals)
        label == Label(r.pc, Len(r.vals))
        next == [r EXCEPT !.pc = @ + 1]
    IN  CASE ins.op \in {"block", "loop"} -> [next EXCEPT !.labels = Append(@, label)]
          [] ins.op = "if" ->
               LET l == Label(r.pc, Len(rest))
                   in == [next EXCEPT !.labels = Append(@, l), !.vals = rest]
               IN  IF top # 0 THEN in
                   ELSE IF closes[r.pc].els # 0 THEN [in EXCEPT !.pc = closes[r.pc].els + 1]
                   ELSE [r EXCEPT !.pc = EndOf(l) + 1, !.vals = rest]
          [] ins.op \in {"else", "br"} -> BranchTo(r, ins.n, r.vals)
          [] ins.op = "br_if" ->
               IF top # 0 THEN BranchTo(r, ins.n, rest) ELSE [next EXCEPT !.vals = rest]
          [] ins.op = "br_table" ->
               BranchTo(r, IF top < Len(ins.ts) THEN ins.ts[top + 1] ELSE ins.n, rest)
          [] ins.op = "return" -> BranchTo(r, Len(r.labels) - 1, r.vals)
          [] ins.op = "end" -> [next EXCEPT !.labels = Front(@)]
          [] OTHER -> ReadPlain(r, ins)

-----------------------------------------------------------------------------
(* The machine.  `+1' on rdi and rbx is 8 bytes.                           *)

\* ExternCallFnASM enters the function; the operand and local stacks hold what earlier
\* calls left.
Enter(args) ==
    /\ phase = "ready"
    /\ phase' = "run"
    /\ lmem' = [i \in LocalSlots |-> IF i < NArgs THEN args[i] ELSE Junk]
    /\ ref' = [pc |-> 1, vals |-> <<>>, labels |-> <<Label(0, 0)>>,
               locals |-> [i \in 0 .. NLocals - 1 |-> IF i < NArgs THEN args[i] ELSE 0]]
    /\ UNCHANGED <<compiler, ip, rax, rcx, rdi, rbx, mem, native>>

Fetch(op) == phase = "run" /\ code[ip].op = op
N == code[ip].n
Goto(a) == ip' = a /\ UNCHANGED <<phase, compiler, ref>>
Proceed == Goto(ip + 1)

\* mov r12, opcode: the direct reading takes its step.
Dbg ==
    /\ Fetch("dbg")
    /\ ref' = ReadStep(ref)
    /\ ip' = ip + 1
    /\ UNCHANGED <<phase, compiler, rax, rcx, rdi, rbx, mem, lmem, native>>

PushExpandStack ==
    /\ Fetch("expand")
    /\ mem' = [mem EXCEPT ![rdi] = rax]
    /\ rdi' = rdi + 1
    /\ Proceed /\ UNCHANGED <<rax, rcx, rbx, lmem, native>>

PopContractStack ==
    /\ Fetch("contract")
    /\ rax' = mem[rdi - 1]
    /\ rdi' = rdi - 1
    /\ Proceed /\ UNCHANGED <<rcx, rbx, mem, lmem, native>>

PopSecondParam ==
    /\ \/ Fetch("second") /\ rcx' = mem[rdi - 1] /\ UNCHANGED rax
       \/ Fetch("second, swapped") /\ rcx' = rax /\ rax' = mem[rdi - 1]
    /\ rdi' = rdi - 1
    /\ Proceed /\ UNCHANGED <<rbx, mem, lmem, native>>

\* The instructions that only compute rax.
Compute ==
    /\ \/ Fetch("mov rax") /\ rax' = N
       \/ Fetch("mov rax, local") /\ rax' = lmem[rbx + N]
       \/ Fetch("rax := G(rax)") /\ rax' = G(rax)
       \/ Fetch("rax := G([rdi])") /\ rax' = G(mem[rdi])
       \/ Fetch("rax := F(rax, rcx)") /\ rax' = F(rax, rcx)
       \/ Fetch("rax := F(rcx, rax)") /\ rax' = F(rcx, rax)
       \/ Fetch("rax := F([rdi-8], rax)") /\ rax' = F(mem[rdi - 1], rax)
       \/ Fetch("rax := F([rdi], rax)") /\ rax' = F(mem[rdi], rax)
       \/ Fetch("rax := F(rax, [rdi])") /\ rax' = F(rax, mem[rdi])
    /\ Proceed /\ UNCHANGED <<rcx, rdi, rbx, mem, lmem, native>>

Move ==
    /\ \/ Fetch("mov local, rax") /\ lmem' = [lmem EXCEPT ![rbx + N] = rax]
                                  /\ UNCHANGED <<rax, rcx, rdi, rbx, mem>>
       \/ Fetch("mov [rdi], rax") /\ mem' = [mem EXCEPT ![rdi] = rax]
                                  /\ UNCHANGED <<rax, rcx, rdi, rbx, lmem>>
       \/ Fetch("xchg rax, [rdi]") /\ mem' = [mem EXCEPT ![rdi] = rax] /\ rax' = mem[rdi]
                                   /\ UNCHANGED <<rcx, rdi, rbx, lmem>>
       \/ Fetch("mov rcx, rax") /\ rcx' = rax /\ UNCHANGED <<rax, rdi, rbx, mem, lmem>>
       \/ Fetch("add rdi") /\ rdi' = rdi + N /\ UNCHANGED <<rax, rcx, rbx, mem, lmem>>
       \/ Fetch("add rbx") /\ rbx' = rbx + N /\ UNCHANGED <<rax, rcx, rdi, mem, lmem>>
    /\ Proceed /\ UNCHANGED native

\* FnPrologue clears the locals that are not arguments.
RepStos ==
    /\ Fetch("rep stos")
    /\ lmem' = [i \in LocalSlots |-> IF i \in rbx + NArgs .. rbx + NLocals - 1 THEN 0 ELSE lmem[i]]
    /\ rax' = 0 /\ rcx' = 0
    /\ Proceed /\ UNCHANGED <<rdi, rbx, mem, native>>

Select ==
    /\ Fetch("select")
    /\ rdi' = rdi - 2
    /\ rax' = mem[IF rax # 0 THEN rdi - 2 ELSE rdi - 1]
    /\ Proceed /\ UNCHANGED <<rcx, rbx, mem, lmem, native>>

PushRdiStep ==
    /\ Fetch("push rdi")
    /\ native' = Append(native, rdi)
    /\ Proceed /\ UNCHANGED <<rax, rcx, rdi, rbx, mem, lmem>>

\* pop rdi, unless it would pop a return address.
PopRdiStep ==
    /\ Fetch("pop rdi")
    /\ IF Last(native) # RetAddr
       THEN /\ rdi' = Last(native) /\ native' = Front(native)
            /\ Proceed /\ UNCHANGED <<rax, rcx, rbx, mem, lmem>>
       ELSE phase' = "crash" /\ UNCHANGED <<compiler, machine, ref>>

Jmp ==
    /\ Fetch("jmp")
    /\ Goto(N) /\ UNCHANGED <<rax, rcx, rdi, rbx, mem, lmem, native>>

JumpNIf ==
    /\ Fetch("jump if not")
    /\ rax' = mem[rdi - 1] /\ rdi' = rdi - 1
    /\ Goto(IF rax = 0 THEN N ELSE ip + 1) /\ UNCHANGED <<rcx, rbx, mem, lmem, native>>

EnterIF ==
    /\ Fetch("enter if")
    /\ rax' = mem[rdi - 1] /\ rdi' = rdi - 1
    /\ Goto(IF rax = 0 THEN N ELSE ip + 1) /\ UNCHANGED <<rcx, rbx, mem, lmem, native>>

\* BranchTable: drop the saved rdi's of the blocks that are left, take the target's.
BranchTable ==
    /\ Fetch("br table")
    /\ LET table == code[ip].ts
           e == table[IF rax < Len(table) - 1 THEN rax + 2 ELSE 1]
           kept == Upto(native, Len(native) - e.dist)
           saved == Last(kept)
       IN  /\ native' = Front(kept)
           /\ rdi' = IF N = 1 THEN saved ELSE saved - 1
           /\ rax' = IF N = 1 THEN mem[rdi - 1] ELSE mem[saved - 1]
           /\ Goto(e.addr)
    /\ UNCHANGED <<rcx, rbx, mem, lmem>>

AddRsp ==
    /\ Fetch("add rsp")
    /\ native' = Upto(native, Len(native) - N)
    /\ Proceed /\ UNCHANGED <<rax, rcx, rdi, rbx, mem, lmem>>

\* A callee finds its arguments at rbx, may use everything from rdi and past its arguments,
\* keeps rbx, and returns F of its arguments or nothing.
Call ==
    /\ \/ Fetch("call") /\ rax' = F(lmem[rbx], lmem[rbx + 1])
       \/ Fetch("call shim") /\ rax' = F(F(lmem[rbx], lmem[rbx + 1]), rcx)
    /\ rcx' = Junk
    /\ rdi' = rdi + 1
    /\ mem' = [i \in Slots |-> IF i < rdi THEN mem[i] ELSE Junk]
    /\ lmem' = [i \in LocalSlots |-> IF i < rbx THEN lmem[i] ELSE Junk]
    /\ Proceed /\ UNCHANGED <<rbx, native>>

\* ret, unless it would pop a saved rdi.
Ret ==
    /\ Fetch("ret")
    /\ phase' = IF Last(native) = RetAddr THEN "done" ELSE "crash"
    /\ UNCHANGED <<compiler, machine, ref>>

Init ==
    /\ family \in Families
    /\ phase = "compile"
    /\ prog = <<>>
    /\ code = FnPrologue
    /\ blocks = <<Block("fn", "none", 0, <<>>, 0, 0)>>
    /\ height = 0
    /\ live = TRUE
    /\ closes = [i \in 1 .. MaxLen |-> [els |-> 0, end |-> 0]]
    /\ ip = 1
    /\ rax = Junk /\ rcx = Junk
    /\ rdi = Base /\ rbx = 0
    /\ mem = [i \in Slots |-> Junk]
    /\ lmem = [i \in LocalSlots |-> Junk]
    /\ native = <<RetAddr>>
    /\ ref = <<>>

Depths == 0 .. Len(blocks) - 1

CompileStep ==
    /\ UNCHANGED family
    /\ \/ \E ins \in PlainIns : CompilePlain(ins)
       \/ \E p \in family.openers : CompileBlock(p[1], p[2]) \/ (p[1] = "if" /\ CompileIf(p[2]))
       \/ CompileElse
       \/ CompileEnd
       \/ \E d \in Depths :
             \/ "br" \in family.branches /\ CompileBr(d)
             \/ "br_if" \in family.branches /\ CompileBrIf(d)
             \/ "br_table" \in family.branches /\ \E ts \in {<<t>> : t \in Depths} : CompileBrTable(ts, d)
       \/ "return" \in family.branches /\ CompileReturn

RunStep ==
    \/ Dbg \/ PushExpandStack \/ PopContractStack \/ PopSecondParam \/ Compute \/ Move
    \/ RepStos \/ Select \/ PushRdiStep \/ PopRdiStep \/ Jmp \/ JumpNIf \/ EnterIF
    \/ BranchTable \/ AddRsp \/ Call \/ Ret

\* The run is over, or the bytecode may not get longer.
Stop ==
    /\ phase \in {"done", "crash"} \/ (phase = "compile" /\ Len(prog) >= MaxLen)
    /\ UNCHANGED vars

Next ==
    \/ CompileStep
    \/ \E args \in [0 .. NArgs - 1 -> Val] : Enter(args)
    \/ RunStep
    \/ Stop

Spec == Init /\ [][Next]_vars

-----------------------------------------------------------------------------
(* Properties                                                              *)

\* The functions whose code is right.  JitWriter finds the wrong operands in stores and in two
\* comparisons of doubles, leaves a loop and the then arm of an `if' as if they had a result when
\* they are of type value and empty_block, and br_table takes the function itself for a block
\* with a result.
CleanFamily(fam) ==
    /\ fam.plain \cap {"store", "f64_eq", "f64_lt"} = {}
    /\ <<"loop", 1>> \notin fam.openers /\ fam.elses \subseteq {1}
    /\ "br_table" \in fam.branches => fam.arity = 1
CleanFamilies == \A fam \in Families : CleanFamily(fam)

\* Every open block has one slot of its own below its operands: operand k of the direct
\* reading is at this place of the operand stack, the first place being rdi's at entry.
Place(k) == k + Cardinality({j \in 1 .. Len(ref.labels) : ref.labels[j].height < k})
Places == Len(ref.vals) + Len(ref.labels)

\* The operand at a place: rax holds the last one, memory the others.
At(p) == IF p = Places THEN rax ELSE mem[Base + p]

\* Between instructions rdi and the native stack are where the bytecode's operands and open
\* blocks put them: no instruction leaves an operand too many or too few.
Balanced ==
    Fetch("dbg") =>
        /\ ref.pc = N
        /\ rdi = Base + Places
        /\ native = <<RetAddr>> \o [j \in 1 .. Len(ref.labels) |-> Base + ref.labels[j].height + j]

\* Between instructions the machine holds exactly the operands, the locals and the block
\* entries that the bytecode means: what JitWriter.h calls a valid state, with the register
\* roles of optemplates.asm.
Represents ==
    /\ Balanced
    /\ Fetch("dbg") =>
          /\ \A k \in 1 .. Len(ref.vals) : At(Place(k)) = ref.vals[k]
          /\ rbx = 0
          /\ \A i \in 0 .. NLocals - 1 : lmem[i] = ref.locals[i]

\* The function returns to its caller when the bytecode does and with its result: whatever
\* blocks a branch or a return leaves, rsp is back at the return address.
ReturnsRight ==
    /\ phase # "crash"
    /\ phase = "done" => ref.pc = Len(prog) + 1 /\ (FnArity = 1 => rax = Last(ref.vals))

\* No branch of a finished function is left unpatched, however deep or early it was emitted.
AllPatched ==
    phase = "ready" =>
        \A i \in 1 .. Len(code) :
            /\ code[i].op \in {"jmp", "jump if not", "enter if"} => code[i].n \in 1 .. Len(code)
            /\ \A k \in 1 .. Len(code[i].ts) : code[i].ts[k].addr \in 1 .. Len(code)
=============================================================================
