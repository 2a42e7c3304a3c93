------------------------ MODULE LinearMemory_proofs ------------------------
(***************************************************************************)
(* The size of the memory, and LinearMemory as an implementation of        *)
(* WasmMemory, for any memory size, maximum and program.  The range needs  *)
(* no assumption about failures; the implementation proof assumes that the *)
(* host drops an instance whose call failed and that the program stays     *)
(* inside its memory, which the code does not enforce.                     *)
(***************************************************************************)
EXTENDS LinearMemory, TLAPS

LEMMA ModSmall ==
    ASSUME NEW a \in Nat, NEW b \in Nat, a < b
    PROVE  a % b = a
  OBVIOUS

LEMMA LimitInRange == Limit \in 0 .. P4G /\ P4G \in Nat
  BY LinearMemoryAssumption DEF Limit

LEMMA InitInductive == Init => Inductive
<1> SUFFICES ASSUME Init PROVE Inductive
  OBVIOUS
<1>1. /\ Initial \in Nat /\ Initial < P4G /\ Initial <= Limit /\ 0 < P4G /\ 0 <= Limit
      /\ 0 \in Word
  BY LinearMemoryAssumption, LimitInRange
<1>2. heap \in [Page -> Word]
  BY <1>1 DEF Init
<1>3. out \in [op : {"none", "grow", "load", "store"}, arg : Nat, res : Nat \cup {-1}]
  BY DEF Init, Out
<1> QED BY <1>1, <1>2, <1>3 DEF Init, Inductive, TypeOK, SizeInRange

\* Entering: the product loses nothing, because the size is below 4 GiB.
LEMMA HostCallStep == Inductive /\ HostCall => Inductive' /\ cbHeap' = initial_size
<1> SUFFICES ASSUME Inductive, HostCall PROVE Inductive' /\ cbHeap' = initial_size
  OBVIOUS
<1>1. initial_size \in Nat /\ initial_size < P4G /\ P4G \in Nat
  BY LimitInRange DEF Inductive, TypeOK, SizeInRange
<1>2. cbHeap' = initial_size
  BY <1>1, ModSmall DEF HostCall
<1>3. heap' \in [Page -> Word]
  BY LinearMemoryAssumption DEF HostCall, HeapAtEntry, Inductive, TypeOK
<1> QED BY <1>1, <1>2, <1>3 DEF HostCall, Inductive, TypeOK, SizeInRange

\* Growing: the two tests of GrowMemory keep the size in range.
LEMMA GrowStep ==
    ASSUME Inductive, NEW d \in Deltas, GrowMemory(d)
    PROVE  Inductive'
<1>1. d \in Nat /\ P4G \in Nat /\ Limit \in Nat
  BY LinearMemoryAssumption, LimitInRange
<1>2. cbHeap' \in Nat /\ cbHeap' >= cbHeap /\ cbHeap' < P4G /\ cbHeap' <= Limit
  BY <1>1 DEF GrowMemory, PastLimit, TooBig, Inductive, TypeOK
<1>3. out' \in [op : {"none", "grow", "load", "store"}, arg : Nat, res : Nat \cup {-1}]
  BY <1>1 DEF GrowMemory, Out, Inductive, TypeOK
<1> QED BY <1>1, <1>2, <1>3 DEF GrowMemory, Inductive, TypeOK, SizeInRange

LEMMA AddressIsPage ==
    ASSUME NEW p \in Page, NEW offset \in Offsets
    PROVE  Address(p, offset) \in Page /\ p + offset \in Nat
  BY LinearMemoryAssumption DEF Address, Page

LEMMA AccessStep ==
    ASSUME Inductive, NEW p \in Page, NEW offset \in Offsets,
           LoadMem(p, offset) \/ \E v \in Word : StoreMem(p, offset, v)
    PROVE  Inductive'
<1>1. Address(p, offset) \in Page /\ p + offset \in Nat /\ Word \subseteq Nat
  BY AddressIsPage, LinearMemoryAssumption
<1>2. CASE LoadMem(p, offset)
  <2>1. heap[Address(p, offset)] \in Nat
    BY <1>1 DEF Inductive, TypeOK
  <2> QED BY <1>1, <1>2, <2>1 DEF LoadMem, Out, Inductive, TypeOK, SizeInRange
<1>3. ASSUME NEW v \in Word, StoreMem(p, offset, v) PROVE Inductive'
  BY <1>1, <1>3 DEF StoreMem, Out, Inductive, TypeOK, SizeInRange
<1> QED BY <1>2, <1>3

LEMMA NextInductive == Inductive /\ [Next]_vars => Inductive'
<1> SUFFICES ASSUME Inductive, [Next]_vars PROVE Inductive'
  OBVIOUS
<1>1. CASE HostCall
  BY <1>1, HostCallStep
<1>2. CASE HostReturn
  BY <1>2 DEF HostReturn, SizeAtReturn, Inductive, TypeOK, SizeInRange
<1>3. CASE Trap
  BY <1>3 DEF Trap, Inductive, TypeOK, SizeInRange
<1>4. CASE Done \/ UNCHANGED vars
  BY <1>4 DEF Done, vars, Inductive, TypeOK, SizeInRange
<1>5. ASSUME NEW d \in Deltas, GrowRefused(d) PROVE Inductive'
  BY <1>5, LinearMemoryAssumption DEF GrowRefused, Out, Inductive, TypeOK, SizeInRange
<1>6. ASSUME NEW d \in Deltas, GrowThrows(d) PROVE Inductive'
  BY <1>6 DEF GrowThrows, Inductive, TypeOK, SizeInRange
<1>7. ASSUME NEW d \in Deltas, GrowMemory(d) PROVE Inductive'
  BY <1>7, GrowStep
<1>8. ASSUME NEW p \in Page, NEW offset \in Offsets,
             LoadMem(p, offset) \/ \E v \in Word : StoreMem(p, offset, v)
      PROVE  Inductive'
  BY <1>8, AccessStep
<1> QED BY <1>1, <1>2, <1>3, <1>4, <1>5, <1>6, <1>7, <1>8 DEF Next

THEOREM InductiveHolds == Spec => []Inductive
<1>1. Init => Inductive
  BY InitInductive
<1>2. Inductive /\ [Next]_vars => Inductive'
  BY NextInductive
<1> QED BY <1>1, <1>2, PTL DEF Spec

\* ExternCallFn's 32-bit product never wraps and the maximum is never passed, also when
\* the host goes on after traps and exceptions.
THEOREM SizesInRange == Spec => []SizeInRange
<1>1. Inductive => SizeInRange
  BY DEF Inductive
<1> QED BY <1>1, InductiveHolds, PTL

\* The memory of an instance never shrinks from one call to the next, failures included.
THEOREM SizeNeverShrinks == Spec => NeverShrinks
<1>1. Inductive /\ [Next]_vars => [initial_size' >= initial_size]_vars
  <2> SUFFICES ASSUME Inductive, Next PROVE initial_size' >= initial_size
    OBVIOUS
  <2>1. initial_size \in Nat /\ cbHeap \in Nat /\ (ctx = "run" => cbHeap >= initial_size)
    BY DEF Inductive, TypeOK
  <2>2. HostReturn => initial_size' >= initial_size
    BY <2>1 DEF HostReturn, SizeAtReturn
  <2>3. ~HostReturn => initial_size' = initial_size
    BY DEF Next, HostCall, Trap, Done, vars, GrowRefused, GrowThrows, GrowMemory, LoadMem, StoreMem
  <2> QED BY <2>1, <2>2, <2>3
<1> QED BY <1>1, InductiveHolds, PTL DEF Spec, NeverShrinks

-----------------------------------------------------------------------------
(* The implementation proof.                                               *)

Safe == HostCatches = {} /\ InBounds = TRUE

\* Before the first call nothing happened to the memory; after it, what the program does not
\* have yet is zero.
FreshInv == FreshZero /\ (~reserved => initial_size = Initial)

LEMMA InitFresh == Init => FreshInv
  BY DEF Init, FreshInv, FreshZero

\* The three places a size moves between are the same size, when no failure is caught.
LEMMA SizeKept ==
    ASSUME Safe, Inductive,
           HostCall \/ HostReturn \/ Trap \/ \E d \in Deltas : GrowThrows(d)
    PROVE  Size' = Size
<1>1. CASE HostCall
  BY <1>1, HostCallStep DEF HostCall, Size
<1>2. CASE HostReturn
  <2>1. cbHeap \in Nat /\ initial_size \in Nat /\ cbHeap >= initial_size
    BY <1>2 DEF HostReturn, Inductive, TypeOK
  <2> QED BY <1>2, <2>1 DEF HostReturn, SizeAtReturn, Size
<1>3. CASE Trap \/ \E d \in Deltas : GrowThrows(d)
  BY <1>3 DEF Trap, GrowThrows, Size, Safe
<1> QED BY <1>1, <1>2, <1>3

\* Control moves between host and program: what the program sees does not change.
LEMMA ControlStep ==
    ASSUME Safe, Inductive, FreshInv,
           HostCall \/ HostReturn \/ Trap \/ \E d \in Deltas : GrowThrows(d)
    PROVE  FreshInv' /\ UNCHANGED <<Size, Contents, out>>
<1>1. Size' = Size
  BY SizeKept
<1>2. CASE HostCall
  <2>1. /\ reserved' = TRUE /\ out' = out /\ initial_size' = initial_size /\ ctx = "host"
        /\ heap' = IF reserved THEN heap ELSE Data
    BY <1>2 DEF HostCall, HeapAtEntry
  <2>2. Contents' = Contents
    BY <1>1, <2>1 DEF Contents
  <2>3. ASSUME NEW p \in Page, p >= Size PROVE heap'[p] = 0
    <3>1. CASE reserved
      BY <2>1, <2>3, <3>1 DEF FreshInv, FreshZero
    <3>2. CASE ~reserved
      BY <2>1, <2>3, <3>2, LinearMemoryAssumption DEF FreshInv, Size
    <3> QED BY <3>1, <3>2
  <2> QED BY <1>1, <2>1, <2>2, <2>3 DEF FreshInv, FreshZero
<1>3. CASE HostReturn \/ Trap \/ \E d \in Deltas : GrowThrows(d)
  <2>1. out' = out /\ heap' = heap /\ reserved' = reserved /\ ctx = "run"
    BY <1>3 DEF HostReturn, Trap, GrowThrows
  <2>2. reserved
    BY <2>1 DEF Inductive
  <2>3. Contents' = Contents
    BY <1>1, <2>1 DEF Contents
  <2> QED BY <1>1, <2>1, <2>2, <2>3 DEF FreshInv, FreshZero
<1> QED BY <1>2, <1>3

\* A growth the code grants is one WasmMemory grants, and its new pages are zero.
LEMMA GrowSimulates ==
    ASSUME Inductive, FreshInv, NEW d \in Deltas, GrowMemory(d)
    PROVE  FreshInv' /\ Memory!Grow(d)
<1>0. cbHeap \in Nat /\ d \in Nat /\ Limit \in Nat
  BY LinearMemoryAssumption, LimitInRange DEF Inductive, TypeOK
<1>1. /\ ctx = "run" /\ ctx' = ctx /\ heap' = heap /\ reserved' = reserved
      /\ cbHeap' = cbHeap + d /\ out' = Out("grow", d, cbHeap) /\ cbHeap + d <= Limit
      /\ ~(cbHeap + d >= P4G) /\ initial_size' = initial_size
  BY <1>0 DEF GrowMemory, PastLimit, TooBig
<1>2. cbHeap \in Nat /\ d \in Nat /\ P4G \in Nat /\ reserved
  BY <1>1, LinearMemoryAssumption DEF Inductive, TypeOK
<1>3. Size = cbHeap /\ Size' = cbHeap + d
  BY <1>1 DEF Size
<1>4. FreshInv'
  BY <1>1, <1>2, <1>3 DEF FreshInv, FreshZero, Page
<1>5. Contents' = [p \in 0 .. Size + d - 1 |-> IF p < Size THEN Contents[p] ELSE 0]
  <2>1. ASSUME NEW p \in 0 .. Size + d - 1
        PROVE  heap[p] = IF p < Size THEN Contents[p] ELSE 0
    <3>1. CASE p < Size
      BY <1>2, <1>3, <3>1 DEF Contents
    <3>2. CASE ~(p < Size)
      BY <1>1, <1>2, <1>3, <3>2 DEF FreshInv, FreshZero, Page
    <3> QED BY <3>1, <3>2
  <2>2. Contents' = [p \in 0 .. Size + d - 1 |-> heap[p]]
    BY <1>1, <1>2, <1>3 DEF Contents
  <2> QED BY <2>1, <2>2
<1> QED BY <1>1, <1>3, <1>4, <1>5 DEF Memory!Grow, Memory!Out, Out

\* A load or store inside the memory is one of WasmMemory's.
LEMMA AccessSimulates ==
    ASSUME Safe, Inductive, FreshInv, NEW p \in Page, NEW offset \in Offsets,
           LoadMem(p, offset) \/ \E v \in Word : StoreMem(p, offset, v)
    PROVE  FreshInv' /\ Memory!Next
<1> DEFINE a == p + offset
<1>1. /\ ctx = "run" /\ ctx' = ctx /\ reserved' = reserved /\ cbHeap' = cbHeap /\ a < cbHeap
      /\ initial_size' = initial_size
  BY DEF LoadMem, StoreMem, Safe
<1>2. cbHeap \in Nat /\ cbHeap < P4G /\ a \in Nat /\ P4G \in Nat /\ reserved
  BY <1>1, AddressIsPage, LinearMemoryAssumption DEF Inductive, TypeOK, SizeInRange
<1>3. Size = cbHeap /\ Size' = Size
  BY <1>1 DEF Size
<1>4. Address(p, offset) = a
  BY <1>1, <1>2, ModSmall DEF Address
<1>5. a \in 0 .. Size - 1 /\ a \in Page
  BY <1>1, <1>2, <1>3 DEF Page
<1> HIDE DEF a
<1>6. Contents = [q \in 0 .. Size - 1 |-> heap[q]] /\ Contents' = [q \in 0 .. Size - 1 |-> heap'[q]]
  BY <1>1, <1>2, <1>3 DEF Contents
<1>7. CASE LoadMem(p, offset)
  <2>1. heap' = heap /\ out' = Out("load", a, heap[a])
    BY <1>4, <1>7 DEF LoadMem, a
  <2>2. Contents' = Contents /\ Contents[a] = heap[a]
    BY <2>1, <1>5, <1>6
  <2>3. Memory!Load(a)
    BY <2>1, <2>2, <1>3 DEF Memory!Load, Memory!Out, Out
  <2>4. FreshInv'
    BY <1>1, <1>3, <2>1 DEF FreshInv, FreshZero
  <2> QED BY <1>5, <2>3, <2>4 DEF Memory!Next
<1>8. ASSUME NEW v \in Word, StoreMem(p, offset, v) PROVE FreshInv' /\ Memory!Next
  <2>1. heap' = [heap EXCEPT ![a] = v] /\ out' = Out("store", a, v)
    BY <1>4, <1>8 DEF StoreMem, a
  <2>2. heap \in [Page -> Word]
    BY DEF Inductive, TypeOK
  <2>3. \A q \in Page : heap'[q] = IF q = a THEN v ELSE heap[q]
    BY <2>1, <2>2
  <2>4. \A q \in 0 .. Size - 1 : q \in Page
    BY <1>2, <1>3 DEF Page
  <2>5. Contents' = [Contents EXCEPT ![a] = v]
    BY <1>5, <1>6, <2>3, <2>4
  <2>6. Memory!Store(a, v)
    BY <2>1, <2>5, <1>3 DEF Memory!Store, Memory!Out, Out
  <2>7. FreshInv'
    <3>1. \A q \in Page : q >= Size => q # a
      BY <1>5, <1>2, <1>3 DEF Page
    <3> QED BY <3>1, <1>1, <1>2, <1>3, <2>3 DEF FreshInv, FreshZero
  <2> QED BY <1>5, <2>6, <2>7 DEF Memory!Next
<1> QED BY <1>7, <1>8

\* Every step is a step of WasmMemory or invisible.
LEMMA StepSimulates ==
    ASSUME Safe, Inductive, FreshInv, [Next]_vars
    PROVE  FreshInv' /\ [Memory!Next]_(Memory!vars)
<1>1. CASE HostCall \/ HostReturn \/ Trap \/ \E d \in Deltas : GrowThrows(d)
  BY <1>1, ControlStep DEF Memory!vars
<1>2. CASE Done \/ UNCHANGED vars
  <2>1. UNCHANGED vars
    BY <1>2 DEF Done
  <2>2. UNCHANGED <<Size, Contents, out>> /\ FreshInv'
    BY <2>1 DEF vars, Size, Contents, FreshInv, FreshZero
  <2> QED BY <2>2 DEF Memory!vars
<1>3. ASSUME NEW d \in Deltas, GrowRefused(d) PROVE FreshInv' /\ Memory!Next
  <2>1. /\ ctx = "run" /\ cbHeap + d > Limit /\ out' = Out("grow", d, -1)
        /\ UNCHANGED <<ctx, initial_size, cbHeap, reserved, heap>>
    BY <1>3 DEF GrowRefused, PastLimit
  <2>2. Size = cbHeap /\ UNCHANGED <<Size, Contents>>
    BY <2>1 DEF Size, Contents
  <2>3. Memory!GrowFails(d)
    BY <2>1, <2>2 DEF Memory!GrowFails, Memory!Out, Out
  <2>4. FreshInv'
    BY <2>1, <2>2 DEF FreshInv, FreshZero
  <2> QED BY <2>3, <2>4 DEF Memory!Next
<1>4. ASSUME NEW d \in Deltas, GrowMemory(d) PROVE FreshInv' /\ Memory!Next
  BY <1>4, GrowSimulates DEF Memory!Next
<1>5. ASSUME NEW p \in Page, NEW offset \in Offsets,
             LoadMem(p, offset) \/ \E v \in Word : StoreMem(p, offset, v)
      PROVE  FreshInv' /\ Memory!Next
  BY <1>5, AccessSimulates
<1> QED BY <1>1, <1>2, <1>3, <1>4, <1>5 DEF Next

\* Pages a program does not have yet are zero.
THEOREM StaysFresh == ASSUME Safe PROVE Spec => []FreshZero
<1>1. Init => FreshInv
  BY InitFresh
<1>2. Inductive /\ FreshInv /\ [Next]_vars => FreshInv'
  BY StepSimulates
<1>3. FreshInv => FreshZero
  BY DEF FreshInv
<1> QED BY <1>1, <1>2, <1>3, InductiveHolds, PTL DEF Spec

\* LinearMemory implements WasmMemory for a program that stays inside its memory, under a
\* host that drops an instance whose call failed.
THEOREM MemoryRefinement == ASSUME Safe PROVE Spec => ImplementsWasmMemory
<1>1. Init => FreshInv /\ Memory!Init
  BY InitFresh DEF Init, Memory!Init, Memory!Out, Out, Size, Contents
<1>2. Inductive /\ FreshInv /\ [Next]_vars => FreshInv' /\ [Memory!Next]_(Memory!vars)
  BY StepSimulates
<1> QED BY <1>1, <1>2, InductiveHolds, PTL DEF Spec, ImplementsWasmMemory, Memory!Spec
=============================================================================
