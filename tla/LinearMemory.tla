---------------------------- MODULE LinearMemory ----------------------------
(***************************************************************************)
(* The linear memory of an instance and its size, which is kept twice: in  *)
(* m_vecmem_types[0].initial_size, 32 bits, in pages, while the host has   *)
(* control, and in the control block's cbHeap, 64 bits, in bytes, while    *)
(* compiled code runs.  ExternCallFn copies one to the other on the way in *)
(* and back on the way out, unless the call trapped.  The heap itself is   *)
(* 4 GiB of committed pages from the first call on.                        *)
(*                                                                         *)
(* Abstractions.  Sizes and addresses are in pages, a page holds one word, *)
(* and P4G stands for the 65536 pages of 4 GiB.  A call may do any number  *)
(* of memory operations and then return, trap, or throw.                   *)
(*                                                                         *)
(* A definition named X_Y is X with a deliberate error: the runs have to   *)
(* notice it.  No other definition uses one.                               *)
(***************************************************************************)
EXTENDS Integers

CONSTANTS
    P4G,            \* pages in 4 GiB
    Initial,        \* initial_size as load_memory reads it
    HasMax,         \* fMaxSet
    Maximum,        \* maximum_size
    Data,           \* m_vecmem, zero where no data segment wrote
    Word,           \* what a page can hold
    Deltas,         \* the page counts the program asks for; 0 is current_memory
    Offsets,        \* the constant offsets of its accesses, in pages
    InBounds,       \* whether the program accesses only pages it has
    HostCatches     \* failures after which the host calls the instance again

\* cbMax
Limit == IF HasMax THEN Maximum ELSE P4G

Page == 0 .. P4G - 1

\* A valid module, smaller than 4 GiB: the initial size is within its own maximum, which
\* is at most 4 GiB, and the data segments are inside the initial memory.
ASSUME LinearMemoryAssumption ==
    /\ P4G \in Nat \ {0}
    /\ Initial \in 0 .. P4G - 1
    /\ HasMax \in BOOLEAN
    /\ Maximum \in 0 .. P4G
    /\ Initial <= Limit
    /\ 0 \in Word /\ Word \subseteq Nat
    /\ Data \in [Page -> Word]
    /\ \A p \in Page : p >= Initial => Data[p] = 0
    /\ Deltas \subseteq Nat
    /\ Offsets \subseteq Nat
    /\ InBounds \in BOOLEAN
    /\ HostCatches \subseteq {"trap", "exception"}

VARIABLES
    ctx,            \* who has control: "host", "run", or "over" when the instance is gone
    initial_size,   \* m_vecmem_types[0].initial_size
    cbHeap,         \* the control block's, in pages
    reserved,       \* m_pheap # nullptr
    heap,           \* the memory at m_pheap
    out             \* the last operation that completed, its argument and its result

vars == <<ctx, initial_size, cbHeap, reserved, heap, out>>

Out(op, arg, res) == [op |-> op, arg |-> arg, res |-> res]

TypeOK ==
    /\ ctx \in {"host", "run", "over"}
    /\ initial_size \in Nat
    /\ cbHeap \in Nat
    /\ reserved \in BOOLEAN
    /\ heap \in [Page -> Word]
    /\ out \in [op : {"none", "grow", "load", "store"}, arg : Nat, res : Nat \cup {-1}]

Init ==
    /\ ctx = "host"
    /\ initial_size = Initial
    /\ cbHeap = 0
    /\ reserved = FALSE
    /\ heap = [p \in Page |-> 0]
    /\ out = Out("none", 0, 0)

HeapAtEntry_Recopied == Data

\* m_pheap is reserved, and m_vecmem copied to it, once.
HeapAtEntry == IF reserved THEN heap ELSE Data

\* ExternCallFn: initial_size * (64 * 1024) is a 32-bit product.
HostCall ==
    /\ ctx = "host"
    /\ ctx' = "run"
    /\ reserved' = TRUE
    /\ heap' = HeapAtEntry
    /\ cbHeap' = initial_size % P4G
    /\ UNCHANGED <<initial_size, out>>

SizeAtReturn_Kept == initial_size
SizeAtReturn_LastPage == IF cbHeap > 0 THEN cbHeap - 1 ELSE initial_size

\* The size ExternCallFn writes back; without a memory, cbHeap is 0 and there is none.
SizeAtReturn == IF cbHeap > 0 THEN cbHeap ELSE initial_size

HostReturn ==
    /\ ctx = "run"
    /\ ctx' = "host"
    /\ initial_size' = SizeAtReturn
    /\ UNCHANGED <<cbHeap, reserved, heap, out>>

\* Verify(retV) throws before the size is written back.
Trap ==
    /\ ctx = "run"
    /\ ctx' = IF "trap" \in HostCatches THEN "host" ELSE "over"
    /\ UNCHANGED <<initial_size, cbHeap, reserved, heap, out>>

PastLimit_OldSize(d) == cbHeap > Limit

\* GrowMemory compares the size it would get.
PastLimit(d) == cbHeap + d > Limit

GrowRefused(d) ==
    /\ ctx = "run"
    /\ PastLimit(d)
    /\ out' = Out("grow", d, -1)
    /\ UNCHANGED <<ctx, initial_size, cbHeap, reserved, heap>>

TooBig_Off(n) == n > P4G

\* GrowMemory's Verify: a memory of 4 GiB does not fit the 32-bit product.
TooBig(n) == n >= P4G

\* The exception leaves GrowMemory through compiled frames, which may end the process.
GrowThrows(d) ==
    /\ ctx = "run"
    /\ ~PastLimit(d)
    /\ TooBig(cbHeap + d)
    /\ ctx' \in {"over"} \cup (IF "exception" \in HostCatches THEN {"host"} ELSE {})
    /\ UNCHANGED <<initial_size, cbHeap, reserved, heap, out>>

GrowMemory(d) ==
    /\ ctx = "run"
    /\ ~PastLimit(d)
    /\ ~TooBig(cbHeap + d)
    /\ cbHeap' = cbHeap + d
    /\ out' = Out("grow", d, cbHeap)
    /\ UNCHANGED <<ctx, initial_size, reserved, heap>>

\* `add eax, offset' keeps 32 bits.
Address(p, offset) == (p + offset) % P4G

\* No template compares an address with cbHeap.
LoadMem(p, offset) ==
    /\ ctx = "run"
    /\ InBounds => p + offset < cbHeap
    /\ out' = Out("load", p + offset, heap[Address(p, offset)])
    /\ UNCHANGED <<ctx, initial_size, cbHeap, reserved, heap>>

StoreMem(p, offset, v) ==
    /\ ctx = "run"
    /\ InBounds => p + offset < cbHeap
    /\ heap' = [heap EXCEPT ![Address(p, offset)] = v]
    /\ out' = Out("store", p + offset, v)
    /\ UNCHANGED <<ctx, initial_size, cbHeap, reserved>>

\* The instance is gone.
Done ==
    /\ ctx = "over"
    /\ UNCHANGED vars

Next ==
    \/ HostCall \/ HostReturn \/ Trap \/ Done
    \/ \E d \in Deltas : GrowRefused(d) \/ GrowThrows(d) \/ GrowMemory(d)
    \/ \E p \in Page, offset \in Offsets :
          LoadMem(p, offset) \/ \E v \in Word : StoreMem(p, offset, v)

Spec == Init /\ [][Next]_vars

-----------------------------------------------------------------------------
(* Properties                                                              *)

\* The size of the memory, wherever it is kept.
Size == IF ctx = "host" THEN initial_size ELSE cbHeap

\* The product ExternCallFn computes on the way in never wraps and the size never passes
\* the module's maximum, whatever sequence of calls, growths and failures came before.
SizeInRange ==
    /\ initial_size < P4G /\ initial_size <= Limit
    /\ cbHeap < P4G /\ cbHeap <= Limit

\* Even when the host goes on after traps and exceptions, the memory a call finds is no
\* smaller than the one an earlier call found or returned with.  (Not: than the one a call
\* that trapped had grown it to.  ExternCallFn writes the size back after Verify.)
NeverShrinks == [][initial_size' >= initial_size]_vars

\* Pages the program does not have yet are zero, so that growing need not clear them.
FreshZero == reserved => \A p \in Page : p >= Size => heap[p] = 0

\* While a call runs, cbHeap has grown from initial_size on.
Inductive ==
    /\ TypeOK
    /\ SizeInRange
    /\ ctx = "run" => cbHeap >= initial_size
    /\ ctx # "host" => reserved

Contents == [p \in 0 .. Size - 1 |-> IF reserved THEN heap[p] ELSE Data[p]]

Memory == INSTANCE WasmMemory WITH Max <- Limit, Requests <- Deltas,
                                 size <- Size, mem <- Contents

\* LinearMemory implements WasmMemory, for a program that stays inside its memory and a host
\* that drops the instance after a failure.
ImplementsWasmMemory == Memory!Spec
=============================================================================
