# wasm_jit: specifications

wasm_jit is a just-in-time compiler and runtime for WebAssembly on Windows x64: about
2700 lines of C++ that emit machine code (`JitWriter.cpp`), 280 lines of MASM that the
emitted code runs through (`optemplates.asm`), a module loader (`WasmContext.cpp`) and two
small hosts. This directory holds TLA+ models of it, the TLC instances that check them and
proofs that TLAPS checks. Line numbers are those of the files under
`src/webasmRT/webasmRT/` unless another path is given.

## 1. The system

| Part | State it keeps | Operations | What makes it correct |
|---|---|---|---|
| **JIT life cycle**: `JitWriter`'s constructor, `CompileFn`'s linking, `ExternCallFn`, `ProtectForRuntime`, `ExternCallFnASM`, `CallIndirectShim`, `WasmToC`, `Trap`, `CReentryFn`, `CompileFn` the callback | the executable plane with its cursor, the vector table of slots at its start, page protections, the recursion of `CompileFn`, the native stack | host call, compile, link, enter, call, call_indirect, return, trap, throw | no call through a null slot, no function half emitted, published or moved; pages never writable while they run; a trap leaves the instance usable |
| **Code generator**: the opcode switch and the templates | bytecode cursor, `stackBlockTypeAddr` and two stacks of fixups; at run time `rax`, `rdi`, `rbx`, the operand and local stacks | one handler per opcode | between any two instructions the registers hold the operands the bytecode means; every branch is patched and lands where its label is |
| **Function types** | `m_vecfn_types`, `m_vecfn_entries` | `load_fn_type`, `operator==`, `ITypeCanonicalFromIType`, the comparison in the shim | two integers are equal exactly when the signatures are |
| **Linear memory** | `initial_size` (32 bits, pages), `cbHeap` (64 bits, bytes), the reserved heap, `m_vecmem` | copy in on entry, out on return, `GrowMemory`, loads and stores | the program sees one memory that grows up to its maximum, with zeroed new pages |
| **Module loader** | the vectors of `WasmContext` | the header, `load_section` and one reader per section, `InitializeMemory`, `LinkImports`, the start function | types in range, imports first, memory as the segments say; a valid module whose start function returns loads, and which faults end in the exception the host catches |
| **Numeric templates** | `rax`, the upper half of `xmm0`, the slots of the globals | `Div`, `Convert`, shifts, comparisons, the unsigned conversions of `optemplates.asm` | the wasm result for every operand, boundary values included |
| **Initialiser expressions** | none | `CbEatExpression`, its text form | the constant, and the bytes consumed |
| **Buffer access, LEB128** | a cursor and a count | `safe_read_buffer`, `safe_copy_buffer`, 7- to 64-bit LEB128 | no read past the end, the right value or an exception |
| **Builtins** | none | three file-descriptor stubs | dispatch by name |
| **Test host** | the parser's mode stack, flags and nesting; three globals: the instance, the last result, the expected result | `main`'s loop over characters, `ProcessCommand`, `ProcessInvoke`, `RunProgram` | the parser stays in step with the script; each assertion compares what it is written with, in the module given last, and none is skipped |
| **Command line host** | none | `main` | opens a file, loads it, calls one export |

How they interact. A host loads a module (`LoadModule` runs the loader, then makes types
canonical) and calls exports through `JitWriter::ExternCallFn`. That compiles the function
if its slot is null (`CompileFn`, which recurses over direct callees), seals the pages and
enters the code through `ExternCallFnASM`. Compiled code calls back into C++ in four ways:
`CallIndirectShim` compiles a table entry met for the first time, `WasmToC` runs an import,
`GrowMemoryOp` grows the memory, and two numeric helpers. It leaves by returning or by
`Trap`, which restores the entry frame and reports 0. Everything runs on one thread, so the
hard behaviours are not races but *re-entrancy and order*: the compiler re-entered in the
middle of a run, recursion over a cyclic call graph, state published before it is complete,
values kept in two places, C++ exceptions thrown through frames that have no unwind data,
and a code generator that keeps no record of the operand stack it manipulates.
`PROJECT.json` lists these hazards at their lines.

## 2. The modules

| Module | Models |
|---|---|
| `WasmCalls` | abstract: a stack of activations that only follows calls the code may make |
| `JitLifecycle` | the life cycle; implements `WasmCalls` |
| `JitLifecycle_proofs` | its theorems |
| `StackCode`, `StackCode_proofs` | the code generator and the machine that runs its code, beside a direct reading of the bytecode; theorems, and lemmas about the machine and each template |
| `StackLayout_proofs` | theorems: what the bytecode says of each of its points and where the code of each instruction is, then the handlers against that layout |
| `StackRun_proofs` | theorems: what that code does, instruction by instruction, beside the direct reading |
| `FnTypes`, `FnTypes_proofs` | canonical types and the check of call_indirect; theorems |
| `WasmMemory` | abstract: the memory a program is promised |
| `LinearMemory`, `LinearMemory_proofs` | the size kept twice, growth, accesses; implements `WasmMemory`; theorems |
| `Leb128` | the LEB128 readers and the two forms of constant expressions, as operators on bytes |
| `MachineNumbers` | external: what the x64 instructions the templates use compute, and the float formats |
| `NumericCode` | the numbers: constants, globals, loads, arithmetic, conversions on machine words beside WebAssembly's |
| `Loader`, `Loader_proofs` | `LoadModule`: the header, the sections entry by entry, linking, the start function; theorems |
| `TestHost`, `TestHost_proofs` | the script reader of `testhost.cpp` and its commands; theorems |
| `MCJitLifecycle`, `MCStackCode`, `MCLinearMemory`, `MCNumericCode`, `MCLoader`, `MCTestHost` | values of the constants for TLC |

The modules compose by what they assume of each other rather than in one state space.
`Loader` says what a module is when it has loaded: function types in range and imports first
(what `JitLifecycle` and `FnTypes` take as constants), memory as the segments say (the `Data`
of `LinearMemory`). `StackCode` says where a template finds its operands, `NumericCode` what
it computes from them. `TestHost` takes each outcome of the loader and of a call as a choice
among the results those modules show to be possible.

A definition called `X_Y` is `X` with a deliberate error (`NeedsCompile_Always`); nothing
uses one, they document which mistake each property notices (`PROJECT.json`, "mutants").

### JitLifecycle

A function body is the list of the instructions that change this state: direct calls,
table calls, helpers that may throw, `unreachable`, and `bad` for anything `CompileFn`
refuses. One instruction, the prologue and the epilogue take one unit of the plane each.
Branches are abstracted: an activation may execute any of its instructions in any order
any number of times, or return.

| Variable | Code |
|---|---|
| `slot` | the vector table at the start of `m_pexecPlane` |
| `plane`, `cur` | the rest of it, `m_pexecPlaneCur` |
| `tableProt`, `codeProt` | what the two `VirtualProtect` calls last did |
| `comp` | the recursion of `CompileFn`: per frame the unit it emits next, `vecifnCompile` and where the loop over it is |
| `want` | the function `ExternCallFn` or the shim will enter |
| `stack`, `ecx` | activations on the native stack, the import number `WasmToC` finds |
| `mode` | who has control; `wild` and `fault` are the two ways to lose it |

`CompileFn` is five actions because its effects can be seen between them: the slot is
written first (`StartCompile`), then units are emitted (`Emit`, `EmitThrows`), then callees
are linked (`Link`), then it returns (`CompileReturn`). `CallIndirectShim` is three actions
for its three outcomes. `HostCatches` is a parameter for what an embedder of `CallFunction`
does: the failures it catches before it calls the same instance again. Neither host here
catches anything around a call (`testhost.cpp` catches what `LoadModule` throws, 174-182,
and drops the instance), which is `HostCatches = {}`; the runs take larger sets as well,
because `ExternCallFn` reports a trap by an exception that embedders are there to catch.

The refinement maps the state to the activations and to "idle", "active" or "over":
compiling, linking and protecting are stutters. A table call maps to a call of some
function of the right type in the table.

### StackCode

Two phases. First `Compile...` actions read *any* valid function up to `MaxLen`
instructions (only an `else` or `end` may go past that) and emit abstract machine
instructions, with the block stack and the fixups as in the code. `height`, `live` and
`closes` belong to the validator that decides which bytecode is valid and to the direct
reading; no handler emits anything according to them, as there is no such state in the
code. Then the machine runs what was emitted, one template step per action. `ref` is the
direct reading of the bytecode, with operands and labels; it advances when the machine
passes the `mov r12, opcode` that `_SetDbgReg` emits before every instruction, and the
invariants compare both at exactly that point. The map from one to the other (`Place`) is
the layout the templates agree on without writing it down: each open block owns one slot
below its operands, whose address is on the native stack.

Values are numbers below `M`; all binary operators are one non-commutative function,
because what the templates differ in is where their operands are (`SwappedOp`,
`UnswappedOp`, `Mul`, `FloatOp`, `Div`, `DoubleCompare`). The kind of function (its opcodes,
length, parameters) is the variable `family`, chosen in `Init` from the constant `Families`,
so that one run covers long functions of few opcodes and short ones of many. A callee overwrites everything
the convention lets it overwrite.

### FnTypes

The loop of `LoadModule` over all functions and the scan of `ITypeCanonicalFromIType`, one
turn per action. The scan compares with an index that it changes while it runs. A type
without a result keeps the `return_type` that `malloc` left there, so that field is
arbitrary.

### LinearMemory

One page holds one word, `P4G` stands for the 65536 pages of 4 GiB, and 32-bit
arithmetic is modulo `P4G`. A call may grow, load and store in any order and then return,
trap or throw. `InBounds` says whether the program stays inside its memory, which no
template checks.

### NumericCode, MachineNumbers, Leb128

A function is any sequence of instructions on an operand stack whose entries carry two
readings: `word`, the 64 bits in the machine, and `val`, the number WebAssembly has. Each
action is an opcode: the machine side is the template (what it reads of `rax`, `eax` and the
stack slot, in which width, signed or not, in which order), the other side the definition of
the opcode. `lane` is the upper half of the low 64 bits of `xmm0`, which some templates leave
behind and one returns. `stop` records who ends the function: the processor by #DE, or
WebAssembly by a trap.

Widths are scaled: `W` bits for an int, `2 * W` for a register, `G` bits of payload in a
LEB128 byte, and float formats whose proportions to the integers are those of the real ones
(a single reaches past every unsigned register and is too narrow for an int; a double holds
every int and not every register). The operators that are the same in the processor and in
WebAssembly (an addition) are written once, in `MachineNumbers`; what differs (division,
shifts of `~0`, unsigned conversions, truncation) is written twice, once from the code.

### Loader

`at` is the phase of `LoadModule`: `Heading` while the header is read, `Idle` between two
sections or the id of the one being read, `Linking`, `Starting` while `ExternCallFn` runs the
start function, `Over`. A section has one action per entry. A payload is the number of entries
it holds beside the number its count promises (`held` and `left`), which is what decides
between the end of a section, a Verify and a read past the end.

`result` tells the ways loading ends apart, because the test host catches only one of them:
`Exception` (Verify), an `int` (`fread_struct` in the header, `safe_read_buffer`), a `string`
(unknown section), `out_of_range` (`vector::at`), `bad_alloc` (a count, a length or a custom
section's wrapped `payload_len` too large for memory), `wild`, where memory that is not the
loader's is touched, and `crash`, where the process ends.

`wrong` is not state of the program: it collects what is wrong with the part of the file that
was read. Some of it a validator would object to (a header cut short or with a wrong magic
number, order, payload lengths, truncation inside a section, unknown sections, bytes that have
one permitted value and another one here, types, indices, names, limits, segments, bodies);
the rest are features not supported, things too large, a disk that fails, and a start function
that traps. The loader never looks at `wrong`; properties use it to say what they hold in
spite of.

The start function is the end of the loader and the beginning of the JIT. The actions named
`Start...` are the outcomes `JitLifecycle`, `StackCode` and `NumericCode` have for a host call: it
returns, and the size of a memory it has grown is written back; it traps, which is
`Verify(retV)` at 2718 of `JitWriter.cpp`, or divides by zero, which ends the process; it cannot
be compiled; it is an import, or has no body, or a body nothing has validated.

### TestHost

The input is a script: up to `MaxCommands` commands, each a sequence of characters with the
meaning a reader of the text format gives it. The actions are the branches of `main`'s loop
on one character, and those of `ProcessCommand` when a parenthesis closes. `given`, `asked`
and `checked` belong to the reader of the script and to the history of comparisons. A command
is `plain` if the host's simpler rules for strings and comments read it as the text format
does; the run has others as well, after which nothing is claimed.

## 3. The runs

| Run | Instance | Shows |
|---|---|---|
| `jit_run` | 7 functions: an import, a recursive pair, table entries of which one is out of range, one an import, one does not compile; 3 activations; a host that catches traps | type invariant, no wild jump or fault, sealed pages, intact code, import numbers, the inductive invariant, refinement of `WasmCalls` |
| `jit_bad` | a plane too small for the call graph, functions that do not compile, an exported import, a host that goes on after everything | no slot is ever rewritten; every compilation ends |
| `stack` | all functions of up to 6 instructions over block, loop, if, else, br, br_if, br_table, return, a constant, a local, a subtraction; up to 5 over 17 opcodes and a block | operands represented between all instructions, right return from any depth, every branch patched |
| `stack_if_else` | the smallest family with an if/else that shows it | violation, see 6 |
| `fn_types` | all modules with up to 3 types of up to 1 parameter over 2 value types, 2 functions, any call site | the check is exact; the inductive invariant |
| `mem_grow` | 5 pages for 4 GiB, initial 1, maximum 3, in-bounds program | fresh pages are zero, inductive invariant, refinement of `WasmMemory` |
| `mem_failures` | no maximum, traps and exceptions caught, accesses anywhere | the size stays in range and is never lost to a failure |
| `numeric` | `W` = 8, `G` = 3, up to 4 instructions and 2 operands from some sixty boundary values, three globals, a stale or clean `xmm0` | the machine has WebAssembly's number, i32s have a clean upper half, divisions stop when they should |
| `numeric_upper`, `numeric_i64_const` | the smallest instances of i32.reinterpret/f32, and of a long i64.const | violations, see 6 |
| `loader` | 2^32 is 8, a page is 2 bytes; seven kinds of modules of up to 6 sections, each with a header that may be cut or wrong | inductive invariant, types in range, imports first, memory kept, valid modules load, which refusals are Exceptions |
| `test_host` | scripts of 3 out of 50 commands with escapes, strings, comments, nested commands and a stray parenthesis | no stack of the reader runs empty, the parser stays in step, comparisons are the written ones, none is skipped, the current module runs |

Bounds and why they are enough:

- `PlaneSize`, `MaxDepth`. `jit_run` has room for its whole call graph and a depth at which
  a lazily compiled function calls another through the table; `jit_bad`'s plane fills up in
  the middle of a nested compilation. The theorems hold for all values.
- `MaxLen`, `M`, `Consts` in `Families`. Six instructions are enough for three nested blocks left by one
  branch, a br_table over two of them, a value carried out of two, a loop entered twice and
  an if with both arms. Two values distinguish the arms of a condition, three the operands
  of an operator.
- `MaxTypes` 3 is the least at which the scan can find an equal type, go on, and find an
  earlier one. `MaxParams` 1 has types that agree on parameters and differ in results and
  the reverse.
- `P4G` 4 or 5, with requests of 0, 1, 2 and 5 pages: the maximum, exactly 4 GiB, and more than
  4 GiB are each reached from several sizes.

- `W` 8 and `G` 3 are small enough to have every boundary among the samples and keep what
  matters of 32 and 7: a payload does not divide an int, so the last byte of an encoding is
  partial, and there are encodings on both sides of an int. Four instructions are a producer,
  a writer of `xmm0`, a conversion and a consumer of all of `rax`.
- `Numbers`, `Segments`, `Layouts`. Sizes 0, 1, 2 and 4 (= 4 GiB) and segments that are empty,
  inside, overlapping, at the end of the address space and past it. Modules about functions,
  tables and memory are separate layouts because their vectors do not meet before `Link`; where
  they do meet, a start function and the memory it grows, there is a layout with both. The
  theorems hold for all layouts.
- `MaxCommands` 3. `InStep` says that between commands the parser is in its initial state, so
  that only the three globals carry over: a module, an assertion and what may come between.

Deadlock is checked in every run; the actions `Done` and `Stop` are the explicit end states.

Fairness. Only `CompileEnds` needs any: weak fairness of `CompileStep`. The compiler is
sequential C++ on one thread that waits for nothing, so it takes its next step. Nothing is
assumed of running code, which may loop for ever.

## 4. What is proved

All proofs hold for every value of the constants that the named assumptions allow.

- **JitLifecycle.** `TypeCorrect` and `SlotsNeverMove` need nothing else. The others assume
  `"exception" \notin HostCatches`: no embedder calls an instance again after a C++
  exception. That is needed: `CompileFn` leaves a non-null slot in front of a partial body
  when it throws. `NoWildJump` is not inductive. The strengthening is `Inductive`:
  who has control fixes protections and stacks (`ControlInv`); each frame of the compiler
  has emitted its units contiguously and only the innermost is still emitting, at the cursor
  (`FrameOK`); nothing is written past the cursor (`FreshInv`); and the key part,
  `ClosureOK`: every function with a slot is complete or on the compiler's recursion, and
  every target of its direct calls has a slot *or is still pending in some frame*. When the
  recursion is empty nothing is pending, so the direct-call closure is complete, which is
  why `call [slot]` needs no null check. `LinkedBeforeRun` proves it; `NeverWild`,
  `PagesSealed`, `NeverFaults` and `CodeStaysIntact` follow. `Refinement` adds that the function
  to enter is one the caller may call and that `WasmCalls` takes a step or stutters for each
  action. `EcxRight` has an invariant of its own, `ImportInv`: an import calls nothing, so its
  activation is the innermost, and it was entered with its number. It holds with every
  embedder, and assumes that no export is an import, which section 6 shows to be needed.
- **FnTypes.** `ScanFindsFirst` proves the loop invariant (the index held is the lowest
  one seen with the signature asked for), and `CheckIsExact` that two such indices are equal
  exactly when the signatures are.
- **LinearMemory.** `InductiveHolds`, `SizesInRange` and `SizeNeverShrinks` hold with any
  host and any program. `StaysFresh` and `MemoryRefinement` assume `Safe`: an in-bounds
  program and a host that drops the instance after a failure. Both are needed: an access
  past the size may leave a non-zero word in a page that is not there yet, and so does a
  call that grows the memory, writes to the new page and then traps.

- **Loader.** `LoaderInductive` proves `Inductive` for every bound, page size, set of numbers,
  segments and layouts: the properties themselves strengthened by `InOrder` (while sections
  are in order the open one is the highest, only imports precede the function section, nothing
  was written before the data section) and `Accepted` (what is not in `wrong` did not happen:
  payloads hold what they promise, one memory export in range, a table at least as large as
  the file says, a memory below 4 GiB, also after the start function has grown it). `Link`
  keeps `EntriesTyped` because an equal type that comes no later is a type. `EveryEntryTyped`, `ImportsFirst`, `SegmentsKept`,
  `ValidModulesLoad` and `RefusalsCaught` follow. `ValidLoads` is of modules with nothing in
  `wrong`: valid, supported, and with a start function that does not trap (`(start 0)` with
  `unreachable` as its body is a valid module that ends in an Exception, with the fault `trap`).
  `RefusesWithException` is about the faults in `Refusable` and no others: a header that is cut
  short ends in an `int`, and one of a start function's ends is the end of the process. The
  proof has a step per action; only the actions of memory need arithmetic, with the 32-bit
  wrap of `offset + cb` in the open.
- **StackCode.** `EveryBranchPatched` proves `AllPatched` for every family of functions, so for
  functions of any length, nesting and mix of opcodes, a loop with a result and an else without
  one included. `AllPatched` speaks of finished code only; `PatchInv` is what holds in the
  middle: each jump and each entry of a branch table goes to a place that is emitted, or the
  next one to be, or it is on the list of fixups of an open block; an `if` without its else
  still has its `jz` first on its list (`BlocksOK`). Each handler has a lemma. The end of the
  function patches the last list when no block is left to hold another one.

  `EveryBranchAimed` says which place that is, for all functions again. Its invariant,
  `LaidOut`, is that two functions of the bytecode exist. `f[i]` is what a validator knows
  before instruction `i`: the open blocks, the height of the operand stack, whether the point
  can be reached (`FlowInv`: every instruction finds its operands, every block is left with
  what it promises, the stack is never deeper than the function is long). `st[i]` is where the
  code of instruction `i` starts (`CodeInv`): there the `mov r12`, then exactly what its
  handler emits, up to `st[i + 1]` (`Shape`). A `jmp`, a `jz` or a table entry holds `Goal`,
  the head of its loop, the else of its `if` or the end of its block; while `Goal` is not known
  the block it names, and no other block, has it on its list (`Goes`). So a fixup can neither
  be lost, nor patched twice, nor end on the list of another block: `CompileFn` keeps two stacks
  of lists (1453) in step with its blocks by hand, `else` takes the first entry out of the top
  one (1572), and branches push on a list further down (1601). The handlers that
  only append need that nothing behind them changes (`LaidOn`); `else` and `end` that of the
  code behind them only the entries of the closing block change, to the place that has just
  become known.

  `CodeRepresents` and `CodeReturns` say what the code does: `Represents` and `ReturnsRight` hold
  for functions of every length and nesting, from any values of the arguments and with callees
  that overwrite what they may. They assume `CleanFamilies`: no store, `f64_eq` or `f64_lt`, no
  loop with a result, no else of an `if` without one, and `br_table` only in functions with a
  result. Section 6 shows each of the others to be wrong; without the last one the two things
  that meet there would have to be excluded together, and a family cannot say that. TLC evaluates
  `SoundFamiliesClean`, that the families of `stack` are of this kind. The argument:

  - The machine is taken as one value (`Core`), a template step as a relation of two (`Does`)
    and a run of steps as a sequence of them (`Runs`); `Yields` has what each template without
    control flow does to the operands.
  - `Match` says from the inside out where things are: the top operand in `rax`, operand `k`
    under `c` open blocks at `Base + k + c`, one slot address per block on the native stack, the
    return address under them. `CountBelow` turns these places into those of `Place`.
  - `StepArrives`: started one past its `mov r12` with the operands of the bytecode in place,
    the code of each instruction runs, without stopping, to the `mov r12` of the instruction
    the direct reading goes to, with that reading's operands, blocks and locals, or returns
    if it returns. Where that is comes from `LaidOut`: `f[i]` is what the operands are like there,
    `Goal` is where a branch leads. This is where the number of saved `rdi`s that a branch pops, the copy of
    a result to its place and the reset of `rdi` have to be right at every depth.
  - In between two instructions the machine is somewhere on such a way, which is the invariant
    (`RunInv`: `OnTheWay`, `Untouched` before the function is entered). The machine is sequential,
    so its next step is the next one of the same way (`MachineGoes`), or it is at the end of
    the way and the reading goes on. `Match` says nothing of `rcx`, of what is above `rdi` and
    of what a callee has overwritten.
- **TestHost.** `StacksNeverEmpty` proves `NeverUnderflows` for every script, plain or not, of
  any number of commands. The strengthening, `ReaderInv`, is about `cblock`, which counts
  parentheses and is not the number of open commands: it runs ahead inside a module and
  behind after a stray parenthesis; but while `fNestCmd` is on or a name is read, every
  parenthesis counted has a frame, and that is what makes the pops safe.

They rest on `ConstantsAssumption`, `FnTypesAssumption`, `LinearMemoryAssumption`,
`LoaderAssumption` and `StackCodeAssumption` (the opcodes, arities and constants a family may
have), which TLC evaluates in the runs, and on what is said with each of them above. The assumption on memory excludes a module that declares 65536
pages from the start, for which the 32-bit product is 0.

## 5. What is only model-checked, and what is not modelled

Only model-checked: `CompileEnds`, which is liveness; `NumericCode`, which uses bitwise operators
and computes with powers of two and float formats; `InStep`, `ComparesWhatIsWritten`,
`NoCheckSkipped` and `RunsCurrentModule` of `TestHost`, which hold of the scripts in the run and
would need a grammar of scripts, so an induction over data, to be stated for all.

Not modelled, and why:

- Encodings of instructions: which bytes `SafePushCode` writes. The models say what a
  template is meant to do according to its comments *and* its bytes where both were read; a
  wrong byte is outside them.
- The rounding of float addition, subtraction, multiplication and division, which is one
  processor instruction each; f32 and f64 operators that are not implemented at all; the
  f64 comparisons in `NumericCode` (`StackCode` has where they find their operands).
- Alignment; addresses of loads in `NumericCode`; sizes of the operand and local stacks; `r12`,
  a debugging register that the calling convention says must be saved.
- In `Loader`: bytes of a number past the fifth in a section header (`safe_access.cpp` 14-19), what
  a start function stores (it is in the heap and not in `m_vecmem`), the maximum of a memory as
  a bound of its growth, and whether the body of a start function is its own if sections are
  out of order: that, like a body that is not valid, is the fault `bodies`. A start function
  that runs for ever is a behaviour that stays in `Starting`.
- `lzcnt` and `tzcnt` are taken to exist; on a processor without them they are `bsr` and
  `bsf`.
- The builtins and the command line host, which have no state, and build files, test data and
  tools.

## 6. Where the code departs from its documents

Shown by runs (`PROJECT.json`, "findings"):

1. `else` leaves the then arm as if the block always had a result (`JitWriter.cpp` 1568):
   `stack_if_else`.
2. `U64ToF32` returns the stale upper half of `xmm0`, while `i64.extend_u` relies on "the upper
   register should be zero regardless" (`optemplates.asm` 206, `JitWriter.cpp` 2512):
   `numeric_upper`.
3. `~0 << shift` sign-extends an `i64.const` by an int shift (`safe_access.cpp` 103): encodings
   of 5 to 9 bytes of negative numbers are misread. `numeric_i64_const`.

Seen while reading and not given a run of their own:

- An export that is an import is entered without its number in `rcx` (`optemplates.asm` 141
  and 57-68): `EcxNamesImport` fails in the instance of `jit_bad`.
- A branch back to a loop with a result keeps an operand the label does not take (1596), and
  `DoubleCompare` reads its first operand before it pops it (739): `Balanced` and `Represents`
  fail in families with such a loop, or with `f64_eq` among the plain opcodes.
- Loads and stores past the size of the memory do not trap (112); `mem_failures` has them.
- `StoreMem` pops the address and not the value (197); `f64_lt` has no `break` and also runs
  the code of `f64_gt` (1917). Adding `store` or `f64_lt` to `plain` of `VoidElse` in `MCStackCode`
  shows each as a violation of `Balanced`.
- A failed `CompileFn` leaves its slot filled (1456, 2628), and an exception under the shim
  leaves the pages as they were: `HostCatches` with "exception" makes `NoWildJump` and
  `NoFault` fail.
- The growth of a call that traps is lost, its stores are not (2718-2722). Growing to
  exactly 4 GiB throws instead of returning -1 (2749).
- `VirtualProtect` of zero bytes when nothing was compiled yet (2655).
- A table without a maximum is resized by an indeterminate number (`WasmContext.cpp` 88), and
  slots that no element segment fills are function 0. `offset + cb` of a data segment is a
  32-bit sum (268). Sections may come in any order, and the counts of functions and bodies are
  not compared; a body of no bytes is asked for its last one (165). A file that ends anywhere
  in a section loads without it (334). A declaration past the end of the payload reads as type
  0. A function exported as "memory" is taken for a memory (294). Of the ways loading fails
  only `Exception` is caught by the test host (180): a file that ends inside its header throws
  an `int` there (417). A custom section's name that is longer than its payload makes
  `payload_len` wrap (327). A start function that traps makes `LoadModule` throw although the
  module is valid, and one that divides by zero ends the process (447).
- `br_table` takes its arity from the default target and checks no depth (1127). It is taken
  from the block's type, which for the function itself is `none` and not `empty_block`: a
  br_table whose default leaves a function without result, and which has an entry for a block
  without result, leaves `rdi` one place too high there. No family of the runs has both. Signed
  remainder takes the absolute value of the divisor, which the least integer does not have (1365); the result is
  right all the same (`DivisionStops`, `Computes`). `CReentryFn` drops the result of the
  builtin.
- A division by zero raises #DE, which nothing handles, where a trap is reported otherwise;
  a truncation of a float that is out of range does not trap but gives some integer.
- Indices of `call_indirect` and the pointer of `wasm_write_fd` are used as 64 bits of an i32.
- The text form of a constant reads `-0x1` in base 10, that is as 0.
- Test host: a trap or a failed assertion is an exception nobody catches and ends the process;
  an `invoke` after a module that did not load goes through a null pointer; `CallFunction`
  takes any export for a function; a `;` inside a comment ends it, block comments are not
  known, so that a script with one may be passed over in silence up to its end and, in a
  release build, reported as success; a wat2wasm that takes more than 10 seconds may overwrite
  the file a later module is read from, which is why `RunsCurrentModule` assumes `late = {}`.

## 7. What could come next

1. `NumericCode` with functions in place of the bitwise operators, so that division, the i32
   comparisons and the upper halves can be proved for every width.
2. `TestHost` composed with `JitLifecycle` and `Loader` by instance instead of by outcomes.
