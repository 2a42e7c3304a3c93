---------------------------- MODULE JitLifecycle ----------------------------
(***************************************************************************)
(* How JitWriter compiles functions on demand, links them through the      *)
(* vector table at the start of the executable plane, and runs them.       *)
(*                                                                         *)
(* Code is emitted by CompileFn (JitWriter.cpp) into one plane that only   *)
(* grows.  A direct call is `call [slot]' with no null check, so the whole *)
(* direct-call closure of a function has to be compiled before it runs; a  *)
(* call_indirect goes through CallIndirectShim (optemplates.asm), which    *)
(* re-enters the compiler in the middle of a run.  Pages are writable or   *)
(* executable, never both.                                                 *)
(*                                                                         *)
(* Abstractions.  A function body is the list of its instructions that     *)
(* change this state; branches are abstracted, so a running activation may *)
(* execute any instruction of its code, any number of times, or return.    *)
(* One instruction, one prologue and one epilogue each take one unit of    *)
(* the plane.                                                              *)
(*                                                                         *)
(* A definition named X_Y is X with a deliberate error: the runs have to   *)
(* notice it.  No other definition uses one.                               *)
(***************************************************************************)
EXTENDS Integers, FiniteSets, SequencesExt

CONSTANTS
    NFns,           \* m_cfn: the size of the function index space
    NImports,       \* m_vecimports.size(): the first functions are imports
    Body,           \* the instructions of every internal function (m_vecfn_code)
    FnType,         \* m_vecfn_entries, made canonical by LoadModule
    Table,          \* m_vecIndirectFnTable: function indices, possibly out of range
    Exports,        \* functions CallFunction can name
    PlaneSize,      \* room for code, in units
    MaxDepth,       \* bound on the activations of one call (the native stack)
    HostCatches     \* failures the embedder catches and then keeps the instance

Fn == 0 .. NFns - 1
IsImport(f) == f < NImports
Internal == {f \in Fn : ~IsImport(f)}

\* "call" names a function, "calli" a type; "helper" calls back into C++ (GrowMemoryOp) and
\* may throw there; "ud2" is an unreachable; "bad" makes CompileFn throw (an invalid opcode,
\* a call index out of range, a malformed immediate).
OpKinds == {"call", "calli", "helper", "ud2", "bad"}
Ops == [kind : OpKinds, arg : Nat]

ASSUME ConstantsAssumption ==
    /\ NFns \in Nat
    /\ NImports \in 0 .. NFns
    /\ Body \in [Internal -> Seq(Ops)]
    /\ \A f \in Internal : \A i \in 1 .. Len(Body[f]) :
           Body[f][i].kind = "call" => Body[f][i].arg \in Fn
    /\ FnType \in [Fn -> Nat]
    /\ Table \in Seq(Nat)
    /\ Exports \subseteq Fn
    /\ PlaneSize \in Nat
    /\ MaxDepth \in Nat
    /\ HostCatches \subseteq {"trap", "exception"}

-----------------------------------------------------------------------------
VARIABLES
    mode,       \* who has control
    slot,       \* the vector table: where each function's code is
    plane,      \* the executable plane
    cur,        \* m_pexecPlaneCur
    tableProt,  \* protection of the vector table's pages
    codeProt,   \* protection of the code pages
    comp,       \* the recursion of CompileFn, innermost last
    want,       \* the function to enter once comp is empty
    stack,      \* the activations of the running call, innermost last
    ecx         \* the function number WasmToC finds in rcx

vars == <<mode, slot, plane, cur, tableProt, codeProt, comp, want, stack, ecx>>

\* host: between calls.  compile: inside CompileFn.  run: inside ExternCallFnASM.
\* over: the process ended or the host dropped the instance.
\* wild: control left the compiled code.  fault: a write to a page that is not writable.
Modes == {"host", "compile", "run", "over", "wild", "fault"}

Null == 0                       \* an unfilled slot (the constructor's memset)
WasmToC == PlaneSize + 1        \* the import thunk, outside the plane
NoFn == NFns                    \* a register value that names no function

Unit(f, u) == [fn |-> f, unit |-> u]
Hlt == Unit(NoFn, 0)            \* the 0xF4 fill of LoadModule

\* Unit 0 of a function is its prologue, unit Epilogue(f) its final ret.
Epilogue(f) == Len(Body[f]) + 1

\* The unit u of f has been emitted where its slot says f's code is.
Emitted(f, u) ==
    /\ slot[f] + u \in 1 .. PlaneSize
    /\ plane[slot[f] + u] = Unit(f, u)

Complete(f) == slot[f] # Null /\ \A u \in 0 .. Epilogue(f) : Emitted(f, u)

CompFrame == [fn : Internal, unit : Nat, callees : Seq(Fn), k : Nat \ {0}]
NewFrame_SkipsFirst(f) == [fn |-> f, unit |-> 0, callees |-> <<>>, k |-> 2]
NewFrame(f) == [fn |-> f, unit |-> 0, callees |-> <<>>, k |-> 1]

TypeOK ==
    /\ mode \in Modes
    /\ slot \in [Fn -> 0 .. PlaneSize + 1]
    /\ \A f \in Fn : IsImport(f) => slot[f] = WasmToC
    /\ plane \in [1 .. PlaneSize -> [fn : 0 .. NFns, unit : Nat]]
    /\ cur \in 1 .. PlaneSize + 1
    /\ tableProt \in {"RW", "RO"}
    /\ codeProt \in {"RW", "RX"}
    /\ comp \in Seq(CompFrame)
    /\ want \in IF mode = "compile" THEN Internal ELSE 0 .. NFns
    /\ stack \in Seq(Fn)
    /\ ecx \in 0 .. NFns

Init ==
    /\ mode = "host"
    /\ slot = [f \in Fn |-> IF IsImport(f) THEN WasmToC ELSE Null]
    /\ plane = [a \in 1 .. PlaneSize |-> Hlt]
    /\ cur = 1
    /\ tableProt = "RW"
    /\ codeProt = "RW"
    /\ comp = <<>>
    /\ want = NoFn
    /\ stack = <<>>
    /\ ecx = NoFn

-----------------------------------------------------------------------------
(* Failures                                                                *)

\* What is left after the failure reached the embedder.
AfterFailure(kind) == IF kind \in HostCatches THEN "host" ELSE "over"

\* A C++ exception leaves CompileFn or a helper.  It unwinds every C++ frame; under a run
\* it also has to cross JIT and MASM frames, which carry no unwind data: the process may
\* end there.  Nothing on its way restores a page protection.
Throw ==
    /\ mode' \in IF stack = <<>> THEN {AfterFailure("exception")}
                                 ELSE {AfterFailure("exception"), "over"}
    /\ comp' = <<>>
    /\ stack' = <<>>
    /\ want' = NoFn
    /\ UNCHANGED <<slot, plane, cur, tableProt, codeProt, ecx>>

\* A write to a read-only page: the process dies on the spot.
Fault ==
    /\ mode' = "fault"
    /\ UNCHANGED <<slot, plane, cur, tableProt, codeProt, comp, want, stack, ecx>>

-----------------------------------------------------------------------------
(* Compiling                                                               *)

StartCompile_OneTooFar(f, frames) ==
    /\ slot' = [slot EXCEPT ![f] = cur + 1]
    /\ comp' = Append(frames, NewFrame(f))

\* The first thing CompileFn does: point f's slot at the code it is about to emit.
StartCompile(f, frames) ==
    /\ slot' = [slot EXCEPT ![f] = cur]
    /\ comp' = Append(frames, NewFrame(f))

\* SafePushCode's test.
Room == cur <= PlaneSize

\* The unit a CompileFn frame emits next is an instruction of this kind.
AtOp(c, kind) == c.unit \in 1 .. Len(Body[c.fn]) /\ Body[c.fn][c.unit].kind = kind

Advance_LaterOnly(c) ==
    [fn |-> c.fn, unit |-> c.unit + 1, k |-> c.k,
     callees |-> IF AtOp(c, "call") /\ Body[c.fn][c.unit].arg > c.fn
                 THEN Append(c.callees, Body[c.fn][c.unit].arg) ELSE c.callees]

\* The frame after its next unit: vecifnCompile collects the targets of direct calls.
Advance(c) ==
    [fn |-> c.fn, unit |-> c.unit + 1, k |-> c.k,
     callees |-> IF AtOp(c, "call") THEN Append(c.callees, Body[c.fn][c.unit].arg)
                                    ELSE c.callees]

\* One turn of CompileFn's opcode loop, or its prologue or epilogue.
Emit ==
    /\ mode = "compile" /\ comp # <<>>
    /\ LET c == Last(comp)
       IN  /\ c.unit <= Epilogue(c.fn)
           /\ Room /\ ~AtOp(c, "bad")
           /\ IF codeProt = "RW"
              THEN /\ plane' = [plane EXCEPT ![cur] = Unit(c.fn, c.unit)]
                   /\ cur' = cur + 1
                   /\ comp' = [comp EXCEPT ![Len(comp)] = Advance(c)]
                   /\ UNCHANGED <<mode, slot, tableProt, codeProt, want, stack, ecx>>
              ELSE Fault

\* The loop throws: no room in the plane, or a bad instruction.
EmitThrows ==
    /\ mode = "compile" /\ comp # <<>>
    /\ LET c == Last(comp)
       IN  /\ c.unit <= Epilogue(c.fn)
           /\ ~Room \/ AtOp(c, "bad")
    /\ Throw

NextCallee_Stuck(c) == c
NeedsCompile_Always(g) == ~IsImport(g)
NeedsCompile_OutsidePlane(g) == slot[g] \notin 1 .. PlaneSize

\* The loop over vecifnCompile moves on, and compiles only what has no slot yet.
NextCallee(c) == [c EXCEPT !.k = c.k + 1]
NeedsCompile(g) == slot[g] = Null

\* After the epilogue CompileFn walks vecifnCompile and compiles every callee whose slot is null.
Link ==
    /\ mode = "compile" /\ comp # <<>>
    /\ LET c == Last(comp)
           g == c.callees[c.k]
           rest == [comp EXCEPT ![Len(comp)] = NextCallee(c)]
       IN  /\ c.unit > Epilogue(c.fn)
           /\ c.k <= Len(c.callees)
           /\ IF ~NeedsCompile(g)
              THEN comp' = rest /\ UNCHANGED <<mode, slot>>
              ELSE IF tableProt = "RW"
                   THEN StartCompile(g, rest) /\ UNCHANGED mode
                   ELSE mode' = "fault" /\ UNCHANGED <<comp, slot>>
    /\ UNCHANGED <<plane, cur, tableProt, codeProt, want, stack, ecx>>

CompileReturn ==
    /\ mode = "compile" /\ comp # <<>>
    /\ LET c == Last(comp)
       IN  c.unit > Epilogue(c.fn) /\ c.k > Len(c.callees)
    /\ comp' = Front(comp)
    /\ UNCHANGED <<mode, slot, plane, cur, tableProt, codeProt, want, stack, ecx>>

-----------------------------------------------------------------------------
(* Entering and leaving compiled code                                      *)

ProtectForRuntime_TableOnly ==
    /\ tableProt' = "RO"
    /\ UNCHANGED codeProt

UnprotectRuntime_CodeOnly ==
    /\ codeProt' = "RW"
    /\ UNCHANGED tableProt

\* ProtectForRuntime protects the table, then the code: with no code emitted yet the second
\* VirtualProtect is given zero bytes and may fail, which throws.
ProtectForRuntime ==
    /\ tableProt' = "RO"
    /\ codeProt' = "RX"

ProtectFails ==
    /\ cur = 1
    /\ tableProt' = "RO"
    /\ UNCHANGED codeProt

UnprotectRuntime ==
    /\ tableProt' = "RW"
    /\ codeProt' = "RW"

\* ExternCallFn: compile if the slot is null, else protect and enter.
HostCall(f) ==
    /\ mode = "host"
    /\ slot[f] = Null
    /\ want' = f
    /\ IF tableProt = "RW"
       THEN mode' = "compile" /\ StartCompile(f, <<>>)
       ELSE mode' = "fault" /\ UNCHANGED <<slot, comp>>
    /\ UNCHANGED <<plane, cur, tableProt, codeProt, stack, ecx>>

\* ExternCallFnASM loads rcx with the control block, whatever the callee is.
HostEnter(f) ==
    /\ mode = "host"
    /\ slot[f] # Null
    /\ \/ /\ ProtectForRuntime
          /\ mode' = "run"
          /\ stack' = <<f>>
       \/ /\ ProtectFails
          /\ mode' = AfterFailure("exception")
          /\ UNCHANGED stack
    /\ ecx' = NoFn
    /\ UNCHANGED <<slot, plane, cur, comp, want>>

\* The compilation that ExternCallFn or the shim asked for is done: protect and enter.
EnterCompiled ==
    /\ mode = "compile" /\ comp = <<>>
    /\ ProtectForRuntime
    /\ mode' = IF slot[want] = Null THEN "wild" ELSE "run"
    /\ stack' = Append(stack, want)
    /\ want' = NoFn
    /\ ecx' = NoFn
    /\ UNCHANGED <<slot, plane, cur, comp>>

\* The innermost activation leaves: to its caller, or to ExternCallFn, which unprotects.
Leave ==
    /\ stack' = Front(stack)
    /\ IF Len(stack) = 1
       THEN mode' = "host" /\ UnprotectRuntime
       ELSE UNCHANGED <<mode, tableProt, codeProt>>
    /\ UNCHANGED <<slot, plane, cur, comp, want, ecx>>

\* jmp Trap: back to ExternCallFn with retV = 0, which unprotects and then throws.
Trap ==
    /\ stack' = <<>>
    /\ UnprotectRuntime
    /\ mode' = AfterFailure("trap")
    /\ UNCHANGED <<slot, plane, cur, comp, want, ecx>>

-----------------------------------------------------------------------------
(* Running: `f' is the innermost activation                                *)

InCode(f) ==
    /\ mode = "run"
    /\ f = Last(stack)
    /\ ~IsImport(f)

\* f executes its i-th instruction.
Executes(f, i) ==
    /\ InCode(f)
    /\ i \in 1 .. Len(Body[f])
    /\ Emitted(f, i)

Push(g) == stack' = Append(stack, g)

EcxForCall_Never(g) == NoFn

\* CallIfn loads the function number before it calls an import.
EcxForCall(g) == IF IsImport(g) THEN g ELSE NoFn

\* CallIfn, direct: `call [slot]', with ecx set for an import.
CallDirect(f, i) ==
    /\ Executes(f, i)
    /\ Body[f][i].kind = "call"
    /\ Len(stack) < MaxDepth
    /\ LET g == Body[f][i].arg
       IN  /\ ecx' = EcxForCall(g)
           /\ Push(g)
           /\ mode' = IF slot[g] = Null THEN "wild" ELSE "run"
    /\ UNCHANGED <<slot, plane, cur, tableProt, codeProt, comp, want>>

IndirectTarget_Untyped(t, idx, g) ==
    /\ idx < Len(Table)
    /\ g = Table[idx + 1]
    /\ g < NFns

\* The checks CallIndirectShim makes before it uses a table index.
IndirectTarget(t, idx, g) ==
    /\ idx < Len(Table)
    /\ g = Table[idx + 1]
    /\ g < NFns
    /\ FnType[g] = t

CallIndirectTraps(f, i, idx) ==
    /\ Executes(f, i)
    /\ Body[f][i].kind = "calli"
    /\ ~ \E g \in Fn : IndirectTarget(Body[f][i].arg, idx, g)
    /\ Trap

\* The slot is filled: jmp rax, with the function number still in rcx.
CallIndirectJumps(f, i, idx) ==
    /\ Executes(f, i)
    /\ Body[f][i].kind = "calli"
    /\ Len(stack) < MaxDepth
    /\ \E g \in Fn :
          /\ IndirectTarget(Body[f][i].arg, idx, g)
          /\ slot[g] # Null
          /\ Push(g)
          /\ ecx' = g
    /\ UNCHANGED <<mode, slot, plane, cur, tableProt, codeProt, comp, want>>

\* The slot is null: unprotect and compile, in the middle of the run.
CallIndirectCompiles(f, i, idx) ==
    /\ Executes(f, i)
    /\ Body[f][i].kind = "calli"
    /\ Len(stack) < MaxDepth
    /\ \E g \in Fn :
          /\ IndirectTarget(Body[f][i].arg, idx, g)
          /\ slot[g] = Null
          /\ UnprotectRuntime
          /\ mode' = "compile"
          /\ want' = g
          /\ StartCompile(g, <<>>)
    /\ UNCHANGED <<plane, cur, stack, ecx>>

\* A C++ helper throws; a helper that returns changes nothing here.
HelperThrows(f, i) ==
    /\ Executes(f, i)
    /\ Body[f][i].kind = "helper"
    /\ Throw

\* unreachable: ud2, which nothing in the process handles.
Unreachable(f, i) ==
    /\ Executes(f, i)
    /\ Body[f][i].kind = "ud2"
    /\ mode' = "over"
    /\ stack' = <<>>
    /\ UNCHANGED <<slot, plane, cur, tableProt, codeProt, comp, want, ecx>>

Return(f) ==
    /\ InCode(f)
    /\ Emitted(f, Epilogue(f))
    /\ Leave

\* Execution runs into a unit of f that was never emitted.
RunsOff(f) ==
    /\ InCode(f)
    /\ ~Complete(f)
    /\ mode' = "wild"
    /\ UNCHANGED <<slot, plane, cur, tableProt, codeProt, comp, want, stack, ecx>>

\* WasmToC and CReentryFn: the builtin runs and the thunk returns.  A function number that is
\* not this import's either names another import or fails CReentryFn's Verify, which throws.
ImportReturns ==
    /\ mode = "run"
    /\ IsImport(Last(stack))
    /\ Leave

ImportThrows ==
    /\ mode = "run"
    /\ IsImport(Last(stack))
    /\ ecx # Last(stack)
    /\ Throw

\* The process or the instance is gone.
Done ==
    /\ mode \in {"over", "wild", "fault"}
    /\ UNCHANGED vars

CompileStep == Emit \/ EmitThrows \/ Link \/ CompileReturn \/ EnterCompiled

RunStep ==
    \E f \in Internal :
        \/ Return(f)
        \/ RunsOff(f)
        \/ \E i \in 1 .. Len(Body[f]) :
              \/ CallDirect(f, i)
              \/ HelperThrows(f, i)
              \/ Unreachable(f, i)
              \/ \E idx \in 0 .. Len(Table) :
                    \/ CallIndirectTraps(f, i, idx)
                    \/ CallIndirectJumps(f, i, idx)
                    \/ CallIndirectCompiles(f, i, idx)

Next ==
    \/ \E f \in Exports : HostCall(f) \/ HostEnter(f)
    \/ CompileStep
    \/ RunStep
    \/ ImportReturns
    \/ ImportThrows
    \/ Done

Spec == Init /\ [][Next]_vars

\* The compiler is sequential C++ that nothing suspends: it keeps stepping.
FairSpec == Spec /\ WF_vars(CompileStep)

-----------------------------------------------------------------------------
(* Properties                                                              *)

\* Control never leaves compiled code: no `call [slot]' goes through a null slot (CallIfn has
\* no null check) and no activation runs into a unit that CompileFn has not emitted.
NoWildJump == mode # "wild"

\* CompileFn never writes a slot or code in a page that ProtectForRuntime sealed, although
\* the shim compiles in the middle of a run.
NoFault == mode # "fault"

\* While code runs, the code is not writable and neither is the vector table: whatever
\* mix of lazy compilations, returns and traps led here.
SealedWhileRunning == mode = "run" => codeProt = "RX" /\ tableProt = "RO"

\* In every state the program can continue from, a function with a slot that is not being
\* compiled is wholly and contiguously in the plane: nested compilations do not interleave
\* their code, although the slot is published before the first byte.
CodeIntact ==
    mode \in {"host", "compile", "run"} =>
        \A f \in Internal :
            slot[f] # Null /\ (\A j \in 1 .. Len(comp) : comp[j].fn # f) => Complete(f)

\* WasmToC is entered with the number of the import in ecx, as its comment expects.
EcxNamesImport ==
    mode = "run" /\ stack # <<>> /\ IsImport(Last(stack)) => ecx = Last(stack)

\* The argument behind them, part by part; Inductive holds when no embedder goes on after an
\* exception ("exception" \notin HostCatches).
Alive == mode \in {"host", "compile", "run"}

\* Who has control fixes the protections, the compiler's recursion and the activations.
ControlInv ==
    /\ mode \in {"host", "compile"} => tableProt = "RW" /\ codeProt = "RW"
    /\ SealedWhileRunning
    /\ mode \in {"host", "run"} => comp = <<>>
    /\ mode = "host" => stack = <<>>
    /\ mode = "run" => stack # <<>>
    /\ mode = "compile" => slot[want] # Null

\* Every unit of f up to u is in place.
EmittedUpTo(f, u) == slot[f] # Null /\ \A v \in 0 .. u - 1 : Emitted(f, v)

\* Only the innermost CompileFn is still emitting, at the cursor; the others are linking.
FrameGood(c, innermost) ==
    /\ c.unit <= Epilogue(c.fn) + 1
    /\ c.k <= Len(c.callees) + 1
    /\ EmittedUpTo(c.fn, c.unit)
    /\ c.unit <= Epilogue(c.fn) => innermost /\ slot[c.fn] + c.unit = cur

FrameOK(frames) == \A j \in 1 .. Len(frames) : FrameGood(frames[j], j = Len(frames))

\* Nothing is written past the cursor.
FreshInv == \A a \in 1 .. PlaneSize : a >= cur => plane[a] = Hlt

OnStack(frames, f) == \E j \in 1 .. Len(frames) : frames[j].fn = f

\* A frame of f has still to deal with its call of g, its i-th instruction.
Pending(frames, f, i, g) ==
    \E j \in 1 .. Len(frames) :
        /\ frames[j].fn = f
        /\ \/ frames[j].unit <= i
           \/ \E m \in frames[j].k .. Len(frames[j].callees) : frames[j].callees[m] = g

\* A published function is complete or on the compiler's recursion, and so is the target of
\* each of its direct calls, or a frame still has that target to compile.
ClosureOK(frames) ==
    \A f \in Internal :
        slot[f] # Null =>
            /\ Complete(f) \/ OnStack(frames, f)
            /\ \A i \in 1 .. Len(Body[f]) :
                  Body[f][i].kind = "call" =>
                      slot[Body[f][i].arg] # Null \/ Pending(frames, f, i, Body[f][i].arg)

\* Whatever is activated has a slot.
SlotInv == \A j \in 1 .. Len(stack) : slot[stack[j]] # Null

Inductive ==
    /\ NoWildJump
    /\ NoFault
    /\ ControlInv
    /\ Alive => FrameOK(comp) /\ FreshInv /\ ClosureOK(comp) /\ SlotInv

\* A slot that was filled keeps its address: code already emitted holds return addresses and
\* RIP-relative references to it, so no function is ever compiled twice.
SlotStable == [][\A f \in Fn : slot[f] # Null => slot'[f] = slot[f]]_vars

\* A compilation ends, by completing or by throwing, also for recursive call graphs.
CompileEnds == mode = "compile" ~> mode # "compile"

\* The abstract machine: the calls a program may make, with compilation invisible.
CallOp(f, i, g) ==
    \/ Body[f][i].kind = "call" /\ g = Body[f][i].arg
    \/ /\ Body[f][i].kind = "calli"
       /\ \E j \in 1 .. Len(Table) : Table[j] = g
       /\ FnType[g] = Body[f][i].arg

MayCall == {p \in Internal \X Fn : \E i \in 1 .. Len(Body[p[1]]) : CallOp(p[1], i, p[2])}

Status ==
    CASE mode = "host" -> "idle"
      [] mode = "compile" -> IF stack = <<>> THEN "idle" ELSE "active"
      [] mode = "run" -> "active"
      [] mode = "over" -> "over"
      [] OTHER -> mode

Calls == INSTANCE WasmCalls WITH Fn <- Fn, Entry <- Exports, MayCall <- MayCall,
                                 stack <- stack, status <- Status

\* JitLifecycle implements WasmCalls: compiling on demand, linking and protecting pages
\* are invisible to the program.
ImplementsWasmCalls == Calls!Spec
=============================================================================
