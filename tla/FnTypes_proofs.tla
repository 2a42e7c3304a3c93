--------------------------- MODULE FnTypes_proofs ---------------------------
(***************************************************************************)
(* CheckExact for any number of types, functions and parameters.  The      *)
(* invariant is FnTypes!Inductive: while the scan runs, idx is the lowest  *)
(* index it has seen with the signature it was asked about.                *)
(***************************************************************************)
EXTENDS FnTypes, TLAPS

\* operator== is equality of signatures: it ignores a return type nobody set.
LEMMA SameIsSignature ==
    ASSUME NEW a \in FunctionTypeEntry, NEW b \in FunctionTypeEntry
    PROVE  Same(a, b) <=> Signature(a) = Signature(b)
<1>1. PICK m \in Nat : a.rgparam_type \in [1 .. m -> ValueTypes]
  BY FnTypesAssumption DEF FunctionTypeEntry
<1>2. PICK n \in Nat : b.rgparam_type \in [1 .. n -> ValueTypes]
  BY FnTypesAssumption DEF FunctionTypeEntry
<1>3. Len(a.rgparam_type) = m /\ Len(b.rgparam_type) = n
  BY <1>1, <1>2
<1>4. a.rgparam_type = b.rgparam_type <=>
        /\ Len(a.rgparam_type) = Len(b.rgparam_type)
        /\ \A i \in 1 .. Len(a.rgparam_type) : a.rgparam_type[i] = b.rgparam_type[i]
  <2>1. ASSUME Len(a.rgparam_type) = Len(b.rgparam_type),
               \A i \in 1 .. Len(a.rgparam_type) : a.rgparam_type[i] = b.rgparam_type[i]
        PROVE  a.rgparam_type = b.rgparam_type
    BY <1>1, <1>2, <1>3, <2>1
  <2> QED BY <2>1
<1>5. (a.fHasReturnValue = b.fHasReturnValue /\ (a.fHasReturnValue => a.return_type = b.return_type))
        <=> (IF a.fHasReturnValue THEN <<a.return_type>> ELSE <<>>)
              = (IF b.fHasReturnValue THEN <<b.return_type>> ELSE <<>>)
  <2>1. a.fHasReturnValue \in BOOLEAN /\ b.fHasReturnValue \in BOOLEAN
    BY DEF FunctionTypeEntry
  <2>2. \A x, y : (<<x>> = <<y>> <=> x = y) /\ <<x>> # <<>>
    OBVIOUS
  <2> QED BY <2>1, <2>2
<1> QED BY <1>4, <1>5 DEF Same, Signature

\* The initial state: nothing canonicalised yet.
LEMMA InitInductive == Init => Inductive
  BY FnTypesAssumption DEF Init, Inductive, TypeOK, Fn

\* The first index of a signature is unique.
LEMMA FirstUnique ==
    ASSUME NEW c \in Nat, NEW o \in Nat, NEW d \in Nat, NEW p \in Nat,
           First(c, o), First(d, p), SigAt(o) = SigAt(p)
    PROVE  c = d
<1>1. ~(c < d)
  BY DEF First
<1>2. ~(d < c)
  BY DEF First
<1> QED BY <1>1, <1>2

\* One turn of the scan keeps idx the lowest match seen.
LEMMA ScanStep == Inductive /\ Scan => Inductive'
<1> SUFFICES ASSUME Inductive, Scan PROVE Inductive'
  OBVIOUS
<1> USE FnTypesAssumption
<1>1. /\ types' = types /\ declared' = declared /\ entries' = entries /\ k' = k /\ origin' = origin
      /\ pc = "scan" /\ pc' = "scan" /\ itrType > 0 /\ itrType' = itrType - 1
      /\ idx' = IF Same(types[itrType - 1], types[idx]) THEN itrType - 1 ELSE idx
  BY DEF Scan, file
<1>2. /\ itrType \in Nat /\ idx \in Nat /\ origin \in Nat /\ itrType <= idx /\ idx <= origin
      /\ origin <= MaxTypes
      /\ origin \in DOMAIN types
      /\ SigAt(idx) = SigAt(origin)
      /\ \A j \in itrType .. idx - 1 : SigAt(j) # SigAt(origin)
  BY <1>1 DEF Inductive, TypeOK
<1>3. PICK n \in 1 .. MaxTypes : types \in [0 .. n - 1 -> FunctionTypeEntry]
  BY DEF Inductive, TypeOK
<1>4. itrType - 1 \in 0 .. n - 1 /\ idx \in 0 .. n - 1
  BY <1>1, <1>2, <1>3
<1>5. Same(types[itrType - 1], types[idx]) <=> SigAt(itrType - 1) = SigAt(idx)
  BY <1>3, <1>4, SameIsSignature DEF SigAt
<1>6. /\ itrType' <= idx' /\ idx' <= origin /\ SigAt(idx') = SigAt(origin)
      /\ \A j \in itrType' .. idx' - 1 : SigAt(j) # SigAt(origin)
      /\ idx' \in Nat /\ itrType' \in Nat
  <2>1. CASE SigAt(itrType - 1) = SigAt(idx)
    <3>1. idx' = itrType - 1 /\ itrType' = itrType - 1
      BY <1>1, <1>5, <2>1
    <3>2. SigAt(idx') = SigAt(origin)
      BY <3>1, <1>2, <2>1
    <3>3. itrType' .. idx' - 1 = {}
      BY <3>1, <1>2
    <3> QED BY <3>1, <3>2, <3>3, <1>1, <1>2
  <2>2. CASE SigAt(itrType - 1) # SigAt(idx)
    <3>1. idx' = idx /\ itrType' = itrType - 1
      BY <1>1, <1>5, <2>2
    <3>2. ASSUME NEW j \in itrType - 1 .. idx - 1 PROVE SigAt(j) # SigAt(origin)
      <4>1. j = itrType - 1 \/ j \in itrType .. idx - 1
        BY <1>2
      <4> QED BY <4>1, <1>2, <2>2
    <3> QED BY <3>1, <3>2, <1>1, <1>2
  <2> QED BY <2>1, <2>2
<1>7. TypeOK'
  BY <1>1, <1>2, <1>6 DEF Inductive, TypeOK
<1>8. \A i : SigAt(i)' = Signature(types[i]')
  BY DEF SigAt
<1>9. /\ SigAt(idx)' = SigAt(idx') /\ SigAt(origin)' = SigAt(origin)
      /\ \A j : SigAt(j)' = SigAt(j)
  BY <1>1 DEF SigAt
<1>10. \A f \in Fn : IF f < k THEN declared[f] \in DOMAIN types /\ First(entries[f], declared[f])
                              ELSE entries[f] = declared[f]
  BY DEF Inductive
<1>11. (\A f \in Fn : IF f < k THEN declared[f] \in DOMAIN types /\ First(entries[f], declared[f])
                               ELSE entries[f] = declared[f])'
  BY <1>1, <1>10 DEF First, SigAt
<1>12. k < NFns => origin = declared[k]
  BY <1>1 DEF Inductive
<1> QED BY <1>1, <1>2, <1>6, <1>7, <1>9, <1>11, <1>12 DEF Inductive

\* The scan is over: its result is the first type with the signature it was asked about.
LEMMA ScanReturnsStep == Inductive /\ ScanReturns => Inductive'
<1> SUFFICES ASSUME Inductive, ScanReturns PROVE Inductive'
  OBVIOUS
<1> USE FnTypesAssumption
<1>1. /\ types' = types /\ declared' = declared /\ origin' = origin /\ idx' = idx
      /\ itrType' = itrType /\ pc = "scan" /\ itrType = 0
      /\ IF k < NFns
         THEN entries' = [entries EXCEPT ![k] = idx] /\ k' = k + 1 /\ pc' = "entry"
         ELSE pc' = "site" /\ entries' = entries /\ k' = k
  BY DEF ScanReturns, file
<1>2. /\ idx \in 0 .. MaxTypes /\ origin \in 0 .. MaxTypes /\ k \in 0 .. NFns
      /\ entries \in [Fn -> 0 .. MaxTypes]
  BY DEF Inductive, TypeOK
<1>3. First(idx, origin) /\ origin \in DOMAIN types
  BY <1>1, <1>2 DEF Inductive, First
<1>4. \A i : SigAt(i)' = SigAt(i)
  BY <1>1 DEF SigAt
<1>5. \A f \in Fn : IF f < k THEN declared[f] \in DOMAIN types /\ First(entries[f], declared[f])
                             ELSE entries[f] = declared[f]
  BY DEF Inductive
<1>6. TypeOK'
  <2>1. k' \in 0 .. NFns /\ entries' \in [Fn -> 0 .. MaxTypes]
    BY <1>1, <1>2
  <2>2. pc' \in {"entry", "site"}
    BY <1>1
  <2> QED BY <1>1, <1>2, <2>1, <2>2 DEF Inductive, TypeOK
<1>7. CASE k < NFns
  <2>1. ASSUME NEW f \in Fn, f < k + 1
        PROVE  declared[f] \in DOMAIN types /\ First(entries'[f], declared[f])
    <3>1. CASE f = k
      <4>1. entries'[f] = idx /\ origin = declared[f]
        BY <1>1, <1>2, <1>7, <3>1 DEF Inductive
      <4> QED BY <4>1, <1>3
    <3>2. CASE f # k
      <4>1. f < k /\ entries'[f] = entries[f]
        BY <1>1, <1>2, <1>7, <2>1, <3>2 DEF Fn
      <4> QED BY <4>1, <1>5
    <3> QED BY <3>1, <3>2
  <2>2. ASSUME NEW f \in Fn, ~(f < k + 1) PROVE entries'[f] = declared[f]
    <3>1. ~(f < k) /\ f # k
      BY <1>2, <2>2 DEF Fn
    <3>2. entries'[f] = entries[f]
      BY <1>1, <1>2, <1>7, <3>1
    <3> QED BY <3>1, <3>2, <1>5
  <2>3. (\A f \in Fn : IF f < k THEN declared[f] \in DOMAIN types /\ First(entries[f], declared[f])
                                ELSE entries[f] = declared[f])'
    BY <1>1, <1>7, <2>1, <2>2 DEF First, SigAt
  <2> QED BY <1>1, <1>6, <1>7, <2>3 DEF Inductive
<1>8. CASE ~(k < NFns)
  <2>1. k' = NFns /\ pc' = "site" /\ entries' = entries /\ k' = k
    BY <1>1, <1>2, <1>8
  <2>2. (\A f \in Fn : IF f < k THEN declared[f] \in DOMAIN types /\ First(entries[f], declared[f])
                                ELSE entries[f] = declared[f])'
    BY <1>1, <1>5, <2>1 DEF First, SigAt
  <2>3. First(idx, origin)'
    BY <1>1, <1>3 DEF First, SigAt
  <2> QED BY <1>1, <1>3, <1>6, <2>1, <2>2, <2>3 DEF Inductive
<1> QED BY <1>7, <1>8

\* Starting a scan: the range it has looked at is empty.
LEMMA CanonicaliseStep ==
    ASSUME NEW t \in 0 .. MaxTypes, Inductive, Canonicalise(t),
           UNCHANGED <<file, entries, k>>, k < NFns => t = declared[k]
    PROVE  Inductive'
<1> USE FnTypesAssumption
<1>1. /\ types' = types /\ declared' = declared /\ entries' = entries /\ k' = k
      /\ origin' = t /\ idx' = t /\ itrType' = t
      /\ pc' = IF t \in DOMAIN types THEN "scan" ELSE "failed"
  BY DEF Canonicalise, file
<1>2. TypeOK'
  BY <1>1 DEF Inductive, TypeOK
<1>3. (\A f \in Fn : IF f < k THEN declared[f] \in DOMAIN types /\ First(entries[f], declared[f])
                              ELSE entries[f] = declared[f])'
  BY <1>1 DEF Inductive, First, SigAt
<1>4. \A j \in t .. t - 1 : FALSE
  OBVIOUS
<1> QED BY <1>1, <1>2, <1>3, <1>4 DEF Inductive, SigAt

\* Every step preserves the invariant.
LEMMA NextInductive == Inductive /\ [Next]_vars => Inductive'
<1> SUFFICES ASSUME Inductive, [Next]_vars PROVE Inductive'
  OBVIOUS
<1> USE FnTypesAssumption
<1>1. CASE NextEntry
  <2>1. k \in 0 .. NFns /\ k < NFns /\ k \in Fn /\ entries[k] = declared[k]
        /\ entries[k] \in 0 .. MaxTypes
    BY <1>1 DEF NextEntry, Inductive, TypeOK, Fn
  <2> QED BY <1>1, <2>1, CanonicaliseStep DEF NextEntry
<1>2. CASE Loaded
  BY <1>2 DEF Loaded, Inductive, TypeOK, file, First, SigAt
<1>3. CASE Scan
  BY <1>3, ScanStep
<1>4. CASE ScanReturns
  BY <1>4, ScanReturnsStep
<1>5. CASE \E t \in 0 .. MaxTypes : CompileCallIndirect(t)
  <2>1. PICK t \in 0 .. MaxTypes : CompileCallIndirect(t)
    BY <1>5
  <2>2. k = NFns
    BY <2>1 DEF CompileCallIndirect, Inductive
  <2> QED BY <2>1, <2>2, CanonicaliseStep DEF CompileCallIndirect
<1>6. CASE Stop \/ UNCHANGED vars
  BY <1>6 DEF Stop, vars, file, Inductive, TypeOK, First, SigAt
<1> QED BY <1>1, <1>2, <1>3, <1>4, <1>5, <1>6 DEF Next

\* Whatever types a file lists, ITypeCanonicalFromIType returns the first equal one.
THEOREM ScanFindsFirst == Spec => []Inductive
<1>1. Init => Inductive
  BY InitInductive
<1>2. Inductive /\ [Next]_vars => Inductive'
  BY NextInductive
<1> QED BY <1>1, <1>2, PTL DEF Spec

\* The shim's integer comparison is exactly equality of signatures.
THEOREM CheckIsExact == Spec => []CheckExact
<1>1. Inductive => CheckExact
  <2> SUFFICES ASSUME Inductive, pc = "site", NEW f \in Fn
               PROVE  Accepts(f) <=> SigAt(declared[f]) = SigAt(origin)
    BY DEF CheckExact, SigAt
  <2> USE FnTypesAssumption
  <2>1. f < k /\ First(entries[f], declared[f]) /\ First(idx, origin)
    BY DEF Inductive, Fn
  <2>2. entries[f] \in Nat /\ declared[f] \in Nat /\ idx \in Nat /\ origin \in Nat
    BY DEF Inductive, TypeOK
  <2>3. Accepts(f) => SigAt(declared[f]) = SigAt(origin)
    BY <2>1 DEF Accepts, First
  <2>4. SigAt(declared[f]) = SigAt(origin) => Accepts(f)
    BY <2>1, <2>2, FirstUnique DEF Accepts
  <2> QED BY <2>3, <2>4
<1> QED BY <1>1, ScanFindsFirst, PTL
=============================================================================
