------------------------------- MODULE FnTypes -------------------------------
(***************************************************************************)
(* Signature checks of call_indirect.  A module may list one signature     *)
(* several times; LoadModule replaces every function's type index by the   *)
(* first index with an equal type, CompileFn does the same with the index  *)
(* of a call_indirect, and CallIndirectShim then compares two integers.    *)
(* Both go through the downward scan of ITypeCanonicalFromIType, which     *)
(* changes the index it compares with while it runs.                       *)
(*                                                                         *)
(* A definition named X_Y is X with a deliberate error: the run has to     *)
(* notice it.  No other definition uses one.                               *)
(***************************************************************************)
EXTENDS Integers, Sequences

CONSTANTS
    ValueTypes,     \* i32, i64, f32, f64
    MaxParams,      \* bound on the parameters of a type
    MaxTypes,       \* bound on m_vecfn_types.size()
    NFns            \* m_vecfn_entries.size()

ASSUME FnTypesAssumption ==
    /\ ValueTypes # {}
    /\ MaxParams \in Nat
    /\ MaxTypes \in Nat \ {0}
    /\ NFns \in Nat

\* load_fn_type leaves return_type as malloc returned it when there is no result.
FunctionTypeEntry ==
    [fHasReturnValue : BOOLEAN, return_type : ValueTypes,
     rgparam_type : UNION {[1 .. n -> ValueTypes] : n \in 0 .. MaxParams}]

VARIABLES
    pc,         \* "entry": LoadModule's loop; "scan"; "loaded"; "site": CompileFn has its index; "failed"
    types,      \* m_vecfn_types
    declared,   \* m_vecfn_entries as the file has it
    entries,    \* m_vecfn_entries
    k,          \* the entry LoadModule is at; NFns once it is done
    origin,     \* the argument of ITypeCanonicalFromIType
    idx,        \* its local, in the end its result
    itrType     \* its iterator, as an index

file == <<types, declared>>
vars == <<pc, file, entries, k, origin, idx, itrType>>

Fn == 0 .. NFns - 1

Same_RawReturn(a, b) ==
    /\ a.fHasReturnValue = b.fHasReturnValue
    /\ a.return_type = b.return_type
    /\ Len(a.rgparam_type) = Len(b.rgparam_type)
    /\ \A i \in 1 .. Len(a.rgparam_type) : a.rgparam_type[i] = b.rgparam_type[i]

\* FunctionTypeEntry::operator==
Same(a, b) ==
    /\ a.fHasReturnValue = b.fHasReturnValue
    /\ a.fHasReturnValue => a.return_type = b.return_type
    /\ Len(a.rgparam_type) = Len(b.rgparam_type)
    /\ \A i \in 1 .. Len(a.rgparam_type) : a.rgparam_type[i] = b.rgparam_type[i]

Init ==
    /\ pc = "entry"
    /\ \E n \in 1 .. MaxTypes : types \in [0 .. n - 1 -> FunctionTypeEntry]
    /\ declared \in [Fn -> 0 .. MaxTypes]
    /\ entries = declared
    /\ k = 0
    /\ origin = 0 /\ idx = 0 /\ itrType = 0

\* Verify(idx < size), then the scan, unless idx is 0.
Canonicalise(t) ==
    /\ origin' = t
    /\ idx' = t
    /\ itrType' = t
    /\ pc' = IF t \in DOMAIN types THEN "scan" ELSE "failed"

NextEntry ==
    /\ pc = "entry"
    /\ k < NFns
    /\ Canonicalise(entries[k])
    /\ UNCHANGED <<file, entries, k>>

Loaded ==
    /\ pc = "entry"
    /\ k = NFns
    /\ pc' = "loaded"
    /\ UNCHANGED <<file, entries, k, origin, idx, itrType>>

Scan_NearestOnly ==
    /\ pc = "scan"
    /\ itrType > 0
    /\ itrType' = itrType - 1
    /\ idx' = IF idx = origin /\ Same(types[itrType - 1], types[idx]) THEN itrType - 1 ELSE idx
    /\ UNCHANGED <<pc, file, entries, k, origin>>

\* One turn of the do-while loop.
Scan ==
    /\ pc = "scan"
    /\ itrType > 0
    /\ itrType' = itrType - 1
    /\ idx' = IF Same(types[itrType - 1], types[idx]) THEN itrType - 1 ELSE idx
    /\ UNCHANGED <<pc, file, entries, k, origin>>

\* The result goes to m_vecfn_entries while LoadModule runs, later to the call site.
ScanReturns ==
    /\ pc = "scan"
    /\ itrType = 0
    /\ IF k < NFns
       THEN /\ entries' = [entries EXCEPT ![k] = idx]
            /\ k' = k + 1
            /\ pc' = "entry"
       ELSE /\ pc' = "site"
            /\ UNCHANGED <<entries, k>>
    /\ UNCHANGED <<file, origin, idx, itrType>>

\* CompileFn meets a call_indirect of type t.
CompileCallIndirect(t) ==
    /\ pc = "loaded"
    /\ Canonicalise(t)
    /\ UNCHANGED <<file, entries, k>>

\* LoadModule threw, or the site is compiled.
Stop ==
    /\ pc \in {"site", "failed"}
    /\ UNCHANGED vars

Next ==
    \/ NextEntry \/ Loaded \/ Scan \/ ScanReturns \/ Stop
    \/ \E t \in 0 .. MaxTypes : CompileCallIndirect(t)

Spec == Init /\ [][Next]_vars

\* CallIndirectShim's cmp: does a site whose type became `idx' accept function f?
Accepts(f) == entries[f] = idx

-----------------------------------------------------------------------------
(* Properties                                                              *)

\* What a type means.
Signature(t) ==
    [result |-> IF t.fHasReturnValue THEN <<t.return_type>> ELSE <<>>, params |-> t.rgparam_type]

\* The integer comparison of the shim accepts exactly the functions with the signature that
\* the call_indirect names, whichever of several equal types the file uses for each.
CheckExact ==
    pc = "site" =>
        \A f \in Fn : Accepts(f) <=> Signature(types[declared[f]]) = Signature(types[origin])

\* The argument behind it: what stands for a type is the first type with its signature.
SigAt(i) == Signature(types[i])
First(c, o) == c \in 0 .. o /\ SigAt(c) = SigAt(o) /\ \A j \in 0 .. c - 1 : SigAt(j) # SigAt(o)

TypeOK ==
    /\ pc \in {"entry", "scan", "loaded", "site", "failed"}
    /\ \E n \in 1 .. MaxTypes : types \in [0 .. n - 1 -> FunctionTypeEntry]
    /\ declared \in [Fn -> 0 .. MaxTypes]
    /\ entries \in [Fn -> 0 .. MaxTypes]
    /\ k \in 0 .. NFns
    /\ origin \in 0 .. MaxTypes
    /\ idx \in 0 .. MaxTypes
    /\ itrType \in 0 .. MaxTypes

\* During the scan idx is the lowest index from itrType on that has origin's signature.
Inductive ==
    /\ TypeOK
    /\ \A f \in Fn : IF f < k THEN declared[f] \in DOMAIN types /\ First(entries[f], declared[f])
                              ELSE entries[f] = declared[f]
    /\ pc \in {"loaded", "site"} => k = NFns
    /\ pc = "scan" =>
          /\ origin \in DOMAIN types
          /\ k < NFns => origin = declared[k]
          /\ itrType <= idx /\ idx <= origin
          /\ SigAt(idx) = SigAt(origin)
          /\ \A j \in itrType .. idx - 1 : SigAt(j) # SigAt(origin)
    /\ pc = "site" => origin \in DOMAIN types /\ First(idx, origin)
=============================================================================
