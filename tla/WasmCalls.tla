----------------------------- MODULE WasmCalls -----------------------------
(***************************************************************************)
(* What a host sees of a loaded WebAssembly instance: a stack of function  *)
(* activations that only grows along the calls the module's code may make, *)
(* and an instance that is between calls, inside one, or over.  Nothing in *)
(* this module knows that functions are compiled while they run:           *)
(* JitLifecycle implements it.                                             *)
(***************************************************************************)
EXTENDS Naturals, SequencesExt

CONSTANTS
    Fn,             \* the function index space (imports first)
    Entry,          \* functions the host may invoke: the exported ones
    MayCall         \* the pairs <<f, g>> such that code of f has a call that may enter g

VARIABLES
    stack,          \* the activations, the innermost last
    status          \* "idle" between host calls, "active" in one, "over" after the instance is gone

vars == <<stack, status>>

TypeOK ==
    /\ stack \in Seq(Fn)
    /\ status \in {"idle", "active", "over"}

Init ==
    /\ stack = <<>>
    /\ status = "idle"

\* The host invokes an exported function.
Invoke(f) ==
    /\ status = "idle"
    /\ stack' = <<f>>
    /\ status' = "active"

\* The innermost activation calls g: directly, or through the table.
Call(g) ==
    /\ status = "active"
    /\ <<Last(stack), g>> \in MayCall
    /\ stack' = Append(stack, g)
    /\ UNCHANGED status

\* The innermost activation returns, to its caller or to the host.
Return ==
    /\ status = "active"
    /\ stack' = Front(stack)
    /\ status' = IF Len(stack) = 1 THEN "idle" ELSE "active"

\* A trap, or a host exception: the whole stack goes; the host keeps the instance or not.
Abort ==
    /\ status # "over"
    /\ stack' = <<>>
    /\ status' \in {"idle", "over"}

Next ==
    \/ \E f \in Entry : Invoke(f)
    \/ \E g \in Fn : Call(g)
    \/ Return
    \/ Abort

Spec == Init /\ [][Next]_vars
=============================================================================
