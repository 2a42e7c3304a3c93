----------------------------- MODULE WasmMemory -----------------------------
(***************************************************************************)
(* What a WebAssembly program is promised of its linear memory: it keeps   *)
(* its contents, it only grows, new pages are zero, and no access outside  *)
(* its size succeeds.  The state is what the program can observe; calls,   *)
(* traps and the host do not appear.  LinearMemory implements it.          *)
(***************************************************************************)
EXTENDS Integers

CONSTANTS
    Initial,        \* the size in pages a module declares
    Max,            \* the size it may not exceed
    Data,           \* the contents of the initial pages
    Word,           \* what a page can hold (one word stands for all)
    Requests        \* the page counts a program may ask for

VARIABLES
    size,           \* pages
    mem,            \* their contents
    out             \* the last operation that completed, its argument and its result

vars == <<size, mem, out>>

Out(op, arg, res) == [op |-> op, arg |-> arg, res |-> res]

Init ==
    /\ size = Initial
    /\ mem = [p \in 0 .. Initial - 1 |-> Data[p]]
    /\ out = Out("none", 0, 0)

Grow(d) ==
    /\ size + d <= Max
    /\ size' = size + d
    /\ mem' = [p \in 0 .. size + d - 1 |-> IF p < size THEN mem[p] ELSE 0]
    /\ out' = Out("grow", d, size)

GrowFails(d) ==
    /\ size + d > Max
    /\ out' = Out("grow", d, -1)
    /\ UNCHANGED <<size, mem>>

Load(a) ==
    /\ out' = Out("load", a, mem[a])
    /\ UNCHANGED <<size, mem>>

Store(a, v) ==
    /\ mem' = [mem EXCEPT ![a] = v]
    /\ out' = Out("store", a, v)
    /\ UNCHANGED size

Next ==
    \/ \E d \in Requests : Grow(d) \/ GrowFails(d)
    \/ \E a \in 0 .. size - 1 : Load(a) \/ \E v \in Word : Store(a, v)

Spec == Init /\ [][Next]_vars
=============================================================================
