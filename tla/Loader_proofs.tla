---------------------------- MODULE Loader_proofs ----------------------------
(***************************************************************************)
(* What LoadModule guarantees of a module, for files of any size: the      *)
(* invariant Inductive of Loader, one lemma for each group of its actions, *)
(* and the properties of the run as its consequences.                      *)
(*                                                                         *)
(* Every action either ends loading, which FailStep covers (EndsStep when  *)
(* it does so because of a fault), or goes on;                             *)
(* the set `wrong' only grows, so that a property that holds under fewer   *)
(* faults is not lost by finding more of them.                             *)
(***************************************************************************)
EXTENDS Loader, TLAPS

LEMMA ModSmall ==
    ASSUME NEW a \in Nat, NEW b \in Nat, a < b
    PROVE  a % b = a
  OBVIOUS

LEMMA ModInRange ==
    ASSUME NEW a \in Nat
    PROVE  a % U32 \in Address
  BY LoaderAssumption DEF Address

LEMMA ElementOf ==
    ASSUME NEW S, NEW s \in Seq(S), NEW i \in 1 .. Len(s)
    PROVE  s[i] \in S
  OBVIOUS

LEMMA IdFacts ==
    /\ Section.Custom = 0 /\ Section.Type = 1 /\ Section.Import = 2 /\ Section.Function = 3
    /\ Section.Table = 4 /\ Section.Memory = 5 /\ Section.Global = 6 /\ Section.Export = 7
    /\ Section.Start = 8 /\ Section.Element = 9 /\ Section.Code = 10 /\ Section.Data = 11
    /\ Unknown = 12 /\ Ids = 0 .. 12 /\ Idle = -1 /\ Linking = -2 /\ Over = -3
    /\ Heading = -4 /\ Starting = -5
    /\ Counted = Ids \ {0, 8}
  BY DEF Section, Unknown, Ids, Idle, Linking, Over, Heading, Starting, Counted

LEMMA ZeroAddress == 0 \in Address
  BY LoaderAssumption DEF Address

LEMMA InitInductive == Init => Inductive
<1> SUFFICES ASSUME Init PROVE Inductive
  OBVIOUS
<1>1. TypeOK
  <2>1. fn_entries \in Seq([itype : Nat, import : BOOLEAN]) /\ mem_types \in Seq(Nat) /\ exports \in Seq(Nat)
    BY DEF Init
  <2>2. vecmem \in [Address -> Byte]
    BY DEF Init, Byte
  <2> QED BY <2>1, <2>2, ZeroAddress, IdFacts DEF Init, TypeOK, Results
<1>2. EntriesTyped /\ IndexSpace /\ ValidLoads /\ RefusesWithException
  BY DEF Init, EntriesTyped, IndexSpace, ValidLoads, RefusesWithException
<1>3. DataKept
  BY DEF Init, DataKept
<1>4. InOrder
  BY IdFacts DEF Init, InOrder
<1>5. Accepted
  BY IdFacts, LoaderAssumption DEF Init, Accepted, Declared
<1> QED BY <1>1, <1>2, <1>3, <1>4, <1>5 DEF Inductive

-----------------------------------------------------------------------------
(* The end of loading without an instance                                  *)

LEMMA FailStep ==
    ASSUME Inductive, NEW how \in Results, Fail(how),
           wrong \subseteq wrong', wrong' \subseteq Faults, wrong' # {},
           how = "Exception" \/ ~(wrong' \subseteq Refusable)
    PROVE  Inductive'
<1> USE DEF Fail, functions, memory
<1>1. TypeOK'
  BY IdFacts DEF Inductive, TypeOK
<1>2. EntriesTyped' /\ IndexSpace'
  BY DEF Inductive, EntriesTyped, IndexSpace
<1>3. DataKept'
  BY DEF Inductive, DataKept, Declared
<1>4. ValidLoads' /\ RefusesWithException'
  BY DEF Inductive, ValidLoads, RefusesWithException, Refusable
<1>5. InOrder'
  BY IdFacts DEF Inductive, InOrder
<1>6. Accepted'
  BY IdFacts DEF Inductive, Accepted, Declared
<1> QED BY <1>1, <1>2, <1>3, <1>4, <1>5, <1>6 DEF Inductive

LEMMA EndsStep ==
    ASSUME Inductive, NEW fault \in Faults, NEW hows \in SUBSET Results, Ends(fault, hows),
           hows = {"Exception"} \/ fault \notin Refusable
    PROVE  Inductive'
<1>1. PICK how \in hows : Fail(how)
  BY DEF Ends
<1>2. wrong \subseteq wrong' /\ wrong' \subseteq Faults /\ fault \in wrong'
  BY DEF Ends, Inductive, TypeOK
<1>3. how \in Results /\ wrong' # {} /\ (how = "Exception" \/ ~(wrong' \subseteq Refusable))
  BY <1>1, <1>2
<1> QED BY <1>1, <1>2, <1>3, FailStep

\* Control moves on, with more faults or none.
LEMMA ProceedStep ==
    ASSUME Inductive, NEW to \in {Idle, Linking}, Proceed(to),
           wrong \subseteq wrong', wrong' \subseteq Faults
    PROVE  Inductive'
<1> USE DEF Proceed, functions, memory
<1>1. TypeOK'
  BY IdFacts DEF Inductive, TypeOK
<1>2. EntriesTyped' /\ IndexSpace' /\ DataKept'
  BY DEF Inductive, EntriesTyped, IndexSpace, DataKept, Declared
<1>3. ValidLoads' /\ RefusesWithException'
  BY DEF Inductive, ValidLoads, RefusesWithException
<1>4. InOrder' /\ Accepted'
  BY IdFacts DEF Inductive, InOrder, Accepted, Declared
<1> QED BY <1>1, <1>2, <1>3, <1>4 DEF Inductive

LEMMA HeaderStep == Inductive /\ (ReadHeader \/ CutHeader \/ BadHeader \/ ReadFails) => Inductive'
<1> SUFFICES ASSUME Inductive, ReadHeader \/ CutHeader \/ BadHeader \/ ReadFails PROVE Inductive'
  OBVIOUS
<1>1. CASE ReadHeader
  BY <1>1, ProceedStep DEF ReadHeader, Inductive, TypeOK
<1>2. CASE CutHeader
  BY <1>2, EndsStep DEF CutHeader, Faults, Results, Refusable
<1>3. CASE BadHeader
  BY <1>3, EndsStep DEF BadHeader, Faults, Results
<1>4. CASE ReadFails
  BY <1>4, EndsStep DEF ReadFails, Faults, Results, Refusable
<1> QED BY <1>1, <1>2, <1>3, <1>4

-----------------------------------------------------------------------------
(* Sections                                                                *)

LEMMA OpenSectionStep ==
    ASSUME Inductive, NEW id \in Ids, NEW n \in layout.counts, NEW entries \in layout.counts,
           OpenSection(id, n, entries)
    PROVE  Inductive'
<1> USE DEF OpenSection, functions, memory
<1>0. n \in Nat /\ entries \in Nat
  BY LoaderAssumption DEF Inductive, TypeOK
<1>w. wrong \subseteq wrong' /\ wrong' \subseteq Faults
  BY DEF Inductive, TypeOK, Objects, Faults
<1>1. TypeOK'
  <2>1. at' \in Ids /\ read' \in Nat /\ left' \in Nat /\ held' \in Nat /\ sections' \in Nat /\ last' \in Ids
    BY <1>0 DEF Inductive, TypeOK
  <2> QED BY <1>w, <2>1 DEF Inductive, TypeOK
<1>2. EntriesTyped' /\ IndexSpace'
  BY <1>w DEF Inductive, EntriesTyped, IndexSpace
<1>3. DataKept'
  BY <1>w DEF Inductive, DataKept, Declared
<1>4. ValidLoads' /\ RefusesWithException'
  BY <1>w DEF Inductive, ValidLoads, RefusesWithException
<1>5. InOrder'
  BY <1>w, IdFacts DEF Inductive, InOrder, TypeOK, Objects
<1>6. Accepted'
  BY <1>w, IdFacts DEF Inductive, Accepted, Declared, Objects
<1> QED BY <1>1, <1>2, <1>3, <1>4, <1>5, <1>6 DEF Inductive

LEMMA EndOfFileStep == Inductive /\ (UnknownSection \/ EndOfFile \/ NameOverruns \/ OutOfMemory) => Inductive'
<1>1. ASSUME Inductive, UnknownSection PROVE Inductive'
  BY <1>1, EndsStep DEF UnknownSection, Results, Faults, Refusable
<1>2. ASSUME Inductive, EndOfFile PROVE Inductive'
  <2>1. wrong \subseteq wrong' /\ wrong' \subseteq Faults
    BY <1>2 DEF EndOfFile, Objects, Faults, Inductive, TypeOK
  <2> QED BY <1>2, <2>1, ProceedStep DEF EndOfFile
<1>3. ASSUME Inductive, NameOverruns PROVE Inductive'
  <2>1. CASE Ends("payload", {"bad_alloc"})
    BY <1>3, <2>1, EndsStep DEF Results, Faults, Refusable
  <2>2. CASE Proceed(Linking) /\ wrong' = wrong \cup {"payload"}
    BY <1>3, <2>2, ProceedStep DEF Faults, Inductive, TypeOK
  <2> QED BY <1>3, <2>1, <2>2 DEF NameOverruns
<1>4. ASSUME Inductive, OutOfMemory PROVE Inductive'
  BY <1>4, EndsStep DEF OutOfMemory, Results, Faults, Refusable
<1> QED BY <1>1, <1>2, <1>3, <1>4

\* A counted section whose entries and payload do not end together has a payload fault.
LEMMA CloseSectionStep == Inductive /\ CloseSection => Inductive'
<1> SUFFICES ASSUME Inductive, CloseSection PROVE Inductive'
  OBVIOUS
<1>1. CASE held > 0 /\ at \notin Unchecked
  <2>1. "payload" \in wrong
    BY <1>1, IdFacts DEF CloseSection, Inductive, Accepted, TypeOK, Unchecked
  <2> QED BY <1>1, <2>1, FailStep DEF CloseSection, Results, Refusable, Inductive, TypeOK
<1>2. CASE ~(held > 0 /\ at \notin Unchecked)
  <2> USE DEF functions, memory
  <2>0. /\ at' = Idle /\ read' = 0 /\ left' = 0 /\ held' = 0
        /\ UNCHANGED <<layout, sections, last, wrong, functions, table, memory, result>>
    BY <1>2 DEF CloseSection
  <2>1. TypeOK'
    BY <2>0, IdFacts DEF Inductive, TypeOK
  <2>2. EntriesTyped' /\ IndexSpace' /\ DataKept'
    BY <2>0 DEF Inductive, EntriesTyped, IndexSpace, DataKept, Declared
  <2>3. ValidLoads' /\ RefusesWithException'
    BY <2>0 DEF Inductive, ValidLoads, RefusesWithException
  <2>4. InOrder' /\ Accepted'
    BY <2>0, IdFacts DEF Inductive, InOrder, Accepted, Declared
  <2> QED BY <2>1, <2>2, <2>3, <2>4 DEF Inductive
<1> QED BY <1>1, <1>2

\* A function is appended: an import while the section is that of the imports, another while
\* it is that of the declarations.
LEMMA AppendStep ==
    ASSUME Inductive, NEW e \in [itype : Nat, import : BOOLEAN],
           fn_entries' = Append(fn_entries, e),
           e.itype < cfn_types,
           cimports' = cimports + (IF e.import THEN 1 ELSE 0),
           at = (IF e.import THEN Section.Import ELSE Section.Function),
           read' \in Nat, left' \in Nat, held' \in Nat,
           "payload" \in wrong \/ left' = held',
           UNCHANGED <<layout, at, sections, last, wrong, cfn_types, cfn_code, start, table,
                       mem_types, exports, cbmem, vecmem, image, result>>
    PROVE  Inductive'
<1>1. /\ fn_entries' \in Seq([itype : Nat, import : BOOLEAN])
      /\ Len(fn_entries) \in Nat /\ Len(fn_entries') = Len(fn_entries) + 1
      /\ fn_entries'[Len(fn_entries) + 1] = e
      /\ \A i \in 1 .. Len(fn_entries) : fn_entries'[i] = fn_entries[i]
  BY DEF Inductive, TypeOK
<1>2. cimports \in Nat /\ cfn_types \in Nat /\ cimports' \in Nat
  BY DEF Inductive, TypeOK
<1>3. TypeOK'
  BY <1>1, <1>2 DEF Inductive, TypeOK
<1>4. EntriesTyped'
  BY <1>1, <1>2 DEF Inductive, EntriesTyped
<1>5. IndexSpace'
  <2> SUFFICES ASSUME "order" \notin wrong, NEW i \in 1 .. Len(fn_entries) + 1
               PROVE  fn_entries'[i].import <=> i <= cimports'
    BY <1>1 DEF IndexSpace
  <2>1. cimports <= Len(fn_entries) /\ (e.import => cimports = Len(fn_entries))
    BY IdFacts DEF Inductive, InOrder
  <2>2. CASE i = Len(fn_entries) + 1
    BY <1>1, <1>2, <2>1, <2>2
  <2>3. CASE i # Len(fn_entries) + 1
    <3>1. i \in 1 .. Len(fn_entries) /\ (fn_entries[i].import <=> i <= cimports)
      BY <1>1, <2>3 DEF Inductive, IndexSpace
    <3> QED BY <1>1, <1>2, <2>1, <3>1
  <2> QED BY <2>2, <2>3
<1>6. DataKept' /\ ValidLoads' /\ RefusesWithException'
  BY DEF Inductive, DataKept, Declared, ValidLoads, RefusesWithException
<1>7. InOrder'
  BY <1>1, <1>2, IdFacts DEF Inductive, InOrder
<1>8. Accepted'
  BY DEF Inductive, Accepted, Declared
<1> QED BY <1>3, <1>4, <1>5, <1>6, <1>7, <1>8 DEF Inductive

LEMMA ReadPastEndStep == Inductive /\ ReadPastEnd => Inductive'
<1> SUFFICES ASSUME Inductive, ReadPastEnd PROVE Inductive'
  OBVIOUS
<1>0. "payload" \in wrong
  BY IdFacts DEF ReadPastEnd, Inductive, Accepted, TypeOK
<1>a. DEFINE Declares(itype) ==
          /\ at = Section.Function /\ itype < cfn_types
          /\ fn_entries' = Append(fn_entries, [itype |-> itype, import |-> FALSE])
          /\ read' = read + 1 /\ left' = left - 1
          /\ UNCHANGED <<layout, at, held, sections, last, cfn_types, cimports,
                         cfn_code, start, table, memory, result>>
<1>1. ASSUME NEW itype \in Numbers, Declares(itype) PROVE Inductive'
  <2> DEFINE e == [itype |-> itype, import |-> FALSE]
  <2>0. /\ fn_entries' = Append(fn_entries, e) /\ read' = read + 1 /\ left' = left - 1
        /\ left > 0 /\ held = 0 /\ itype \in Nat
        /\ UNCHANGED <<layout, at, held, sections, last, wrong, cfn_types, cimports,
                       cfn_code, start, table, memory, result>>
    BY <1>1, LoaderAssumption DEF ReadPastEnd, Address
  <2>1. e \in [itype : Nat, import : BOOLEAN] /\ e.itype = itype /\ e.import = FALSE
    BY <2>0
  <2>2. read' \in Nat /\ left' \in Nat /\ held' \in Nat /\ cimports \in Nat
    BY <2>0 DEF Inductive, TypeOK
  <2>3. /\ cimports' = cimports + (IF e.import THEN 1 ELSE 0)
        /\ at = (IF e.import THEN Section.Import ELSE Section.Function)
        /\ UNCHANGED <<layout, at, sections, last, wrong, cfn_types, cfn_code, start, table,
                       mem_types, exports, cbmem, vecmem, image, result>>
    BY <1>1, <2>0, <2>1, <2>2 DEF memory
  <2> HIDE DEF e
  <2>4. e.itype < cfn_types /\ fn_entries' = Append(fn_entries, e)
    BY <1>1, <2>0, <2>1
  <2> QED BY <1>0, <2>1, <2>2, <2>3, <2>4, AppendStep
<1>2. ASSUME NEW how \in {"Exception", "wild", "int"}, Fail(how) PROVE Inductive'
  <2>1. wrong' = wrong
    BY DEF ReadPastEnd
  <2> QED BY <1>0, <1>2, <2>1, FailStep DEF Results, Refusable, Inductive, TypeOK
<1>3. (\E itype \in Numbers : Declares(itype)) \/ (\E how \in {"Exception", "wild", "int"} : Fail(how))
  BY DEF ReadPastEnd
<1> QED BY <1>1, <1>2, <1>3

-----------------------------------------------------------------------------
(* Functions                                                               *)

LEMMA DeclareStep ==
    ASSUME Inductive, NEW itype \in Numbers, NEW import \in BOOLEAN,
           Entry(IF import THEN Section.Import ELSE Section.Function),
           Declare(itype, import)
    PROVE  Inductive'
<1>1. CASE itype < cfn_types
  <2> DEFINE e == [itype |-> itype, import |-> import]
  <2>1. e \in [itype : Nat, import : BOOLEAN] /\ e.itype = itype /\ e.import = import
    BY LoaderAssumption DEF Address
  <2>2. wrong' = wrong /\ TakeEntry /\ fn_entries' = Append(fn_entries, e)
    BY <1>1, LoaderAssumption DEF Declare, Objects, Inductive, TypeOK, Address
  <2>3. /\ read' \in Nat /\ left' \in Nat /\ held' \in Nat
        /\ "payload" \in wrong \/ left' = held'
    BY <2>2, IdFacts DEF TakeEntry, Entry, Inductive, TypeOK, Accepted
  <2>4. /\ cimports' = cimports + (IF e.import THEN 1 ELSE 0)
        /\ at = (IF e.import THEN Section.Import ELSE Section.Function)
        /\ UNCHANGED <<layout, at, sections, last, wrong, cfn_types, cfn_code, start, table,
                       mem_types, exports, cbmem, vecmem, image, result>>
    BY <1>1, <2>1, <2>2 DEF Declare, TakeEntry, Entry, memory
  <2>5. e.itype < cfn_types
    BY <1>1, <2>1
  <2> HIDE DEF e
  <2> QED BY <2>1, <2>2, <2>3, <2>4, <2>5, AppendStep
<1>2. CASE ~(itype < cfn_types)
  <2>1. itype >= cfn_types
    BY <1>2, LoaderAssumption DEF Inductive, TypeOK, Address
  <2>2. wrong' = wrong \cup {"type"} /\ Fail("Exception")
    BY <1>2, <2>1 DEF Declare, Objects
  <2> QED BY <2>2, FailStep DEF Results, Faults, Inductive, TypeOK
<1> QED BY <1>1, <1>2

\* An entry is read that the function index space, the table and memory do not depend on.
LEMMA TakeEntryStep ==
    ASSUME Inductive, NEW id \in Counted, Entry(id), TakeEntry,
           cfn_types' \in Nat, cfn_types' >= cfn_types, cfn_code' \in Nat,
           wrong \subseteq wrong', wrong' \subseteq Faults,
           UNCHANGED <<fn_entries, cimports, start, table, memory>>
    PROVE  Inductive'
<1> USE DEF memory
<1>1. /\ UNCHANGED <<layout, at, sections, last, result>>
      /\ read' \in Nat /\ left' \in Nat /\ held' \in Nat
      /\ left = held => left' = held'
  BY DEF TakeEntry, Entry, Inductive, TypeOK
<1>2. TypeOK'
  BY <1>1 DEF Inductive, TypeOK
<1>3. EntriesTyped'
  <2> SUFFICES ASSUME NEW i \in 1 .. Len(fn_entries) PROVE fn_entries[i].itype < cfn_types'
    BY DEF EntriesTyped
  <2>1. fn_entries \in Seq([itype : Nat, import : BOOLEAN]) /\ cfn_types \in Nat
    BY DEF Inductive, TypeOK
  <2>2. fn_entries[i] \in [itype : Nat, import : BOOLEAN]
    BY <2>1, ElementOf
  <2>3. fn_entries[i].itype \in Nat /\ fn_entries[i].itype < cfn_types
    BY <2>2 DEF Inductive, EntriesTyped
  <2> QED BY <2>1, <2>3
<1>4. IndexSpace' /\ DataKept' /\ ValidLoads' /\ RefusesWithException'
  BY <1>1 DEF Inductive, IndexSpace, DataKept, Declared, ValidLoads, RefusesWithException
<1>5. InOrder'
  BY <1>1, IdFacts DEF Inductive, InOrder
<1>6. Accepted'
  BY <1>1, IdFacts DEF Inductive, Accepted, Declared, Entry
<1> QED BY <1>2, <1>3, <1>4, <1>5, <1>6 DEF Inductive

LEMMA PlainEntryStep == Inductive /\ (LoadFnType \/ LoadCode \/ LoadGlobal) => Inductive'
<1> SUFFICES ASSUME Inductive, LoadFnType \/ LoadCode \/ LoadGlobal PROVE Inductive'
  OBVIOUS
<1>1. cfn_types \in Nat /\ cfn_code \in Nat
  BY DEF Inductive, TypeOK
<1>2. CASE LoadFnType
  <2>1. cfn_types' \in Nat /\ cfn_types' >= cfn_types /\ cfn_code' \in Nat
    BY <1>1, <1>2 DEF LoadFnType
  <2>2. wrong \subseteq wrong' /\ wrong' \subseteq Faults
    BY <1>2 DEF LoadFnType, Inductive, TypeOK
  <2> QED BY <1>2, <2>1, <2>2, TakeEntryStep, IdFacts DEF LoadFnType
<1>3. CASE LoadCode
  BY <1>1, <1>3, TakeEntryStep, IdFacts DEF LoadCode, Inductive, TypeOK
<1>4. CASE LoadGlobal
  <2>1. PICK id \in Counted : Entry(id)
    BY <1>4, IdFacts DEF LoadGlobal
  <2>2. TakeEntry /\ UNCHANGED <<wrong, cfn_types, cfn_code, fn_entries, cimports, start, table, memory>>
    BY <1>4 DEF LoadGlobal, functions
  <2> QED BY <1>1, <2>1, <2>2, TakeEntryStep DEF Inductive, TypeOK
<1> QED BY <1>2, <1>3, <1>4

LEMMA RefusedStep ==
    Inductive /\ (LoadImportOther \/ LoadBadBody \/ LoadMalformed \/ NoRoom \/ LinkFails) => Inductive'
<1> SUFFICES ASSUME Inductive, LoadImportOther \/ LoadBadBody \/ LoadMalformed \/ NoRoom \/ LinkFails
             PROVE  Inductive'
  OBVIOUS
<1>1. \/ \E fault \in {"unsupported", "malformed"} : Ends(fault, {"Exception"})
      \/ \E fault \in {"bodies", "size"}, hows \in SUBSET Results : Ends(fault, hows)
  BY DEF LoadImportOther, LoadBadBody, LoadMalformed, NoRoom, LinkFails, Results
<1> QED BY <1>1, EndsStep DEF Results, Faults, Refusable

LEMMA LoadStartStep == Inductive /\ LoadStart => Inductive'
<1> SUFFICES ASSUME Inductive, LoadStart PROVE Inductive'
  OBVIOUS
<1> USE DEF LoadStart, memory
<1>1. TypeOK'
  BY IdFacts DEF Inductive, TypeOK
<1>2. EntriesTyped' /\ IndexSpace' /\ DataKept' /\ ValidLoads' /\ RefusesWithException'
  BY DEF Inductive, EntriesTyped, IndexSpace, DataKept, Declared, ValidLoads, RefusesWithException
<1>3. InOrder' /\ Accepted'
  BY IdFacts DEF Inductive, InOrder, Accepted, Declared
<1> QED BY <1>1, <1>2, <1>3 DEF Inductive

-----------------------------------------------------------------------------
(* The table                                                               *)

\* The table has an initial part of the size the limits give, unless they are wrong.
LEMMA LoadTableStep == Inductive /\ LoadTable => Inductive'
<1> SUFFICES ASSUME Inductive, LoadTable PROVE Inductive'
  OBVIOUS
<1>1. PICK fMaxSet \in BOOLEAN, initial \in Numbers, maximum \in Numbers, size \in Numbers :
        /\ fMaxSet => size = maximum
        /\ wrong' = wrong \cup Objects("unsupported", ~fMaxSet)
                          \cup Objects("limits", read > 0 \/ (fMaxSet /\ initial > maximum))
        /\ IF read = 0
           THEN TakeEntry /\ table' = [size |-> size, initial |-> initial] /\ UNCHANGED <<functions, memory>>
           ELSE Fail("Exception")
  BY DEF LoadTable
<1>2. /\ initial \in Address /\ maximum \in Address /\ size \in Address
      /\ wrong \subseteq wrong' /\ wrong' \subseteq Faults /\ read \in Nat
  BY <1>1, LoaderAssumption DEF Objects, Faults, Inductive, TypeOK
<1>3. CASE read = 0
  <2>1. /\ UNCHANGED <<layout, at, sections, last, result, functions, memory>>
        /\ read' \in Nat /\ left' \in Nat /\ held' \in Nat
        /\ left = held => left' = held'
        /\ table' = [size |-> size, initial |-> initial]
    BY <1>1, <1>3 DEF TakeEntry, LoadTable, Entry, Inductive, TypeOK
  <2>2. wrong' \cap {"limits", "unsupported"} = {} => initial <= size
    BY <1>1, <1>2 DEF Objects, Address
  <2> USE DEF functions, memory
  <2>3. TypeOK'
    BY <1>2, <2>1 DEF Inductive, TypeOK
  <2>4. EntriesTyped' /\ IndexSpace' /\ DataKept' /\ ValidLoads' /\ RefusesWithException'
    BY <1>2, <2>1 DEF Inductive, EntriesTyped, IndexSpace, DataKept, Declared, ValidLoads, RefusesWithException
  <2>5. InOrder'
    BY <1>2, <2>1 DEF Inductive, InOrder
  <2>6. Accepted'
    BY <1>2, <2>1, <2>2, IdFacts DEF Inductive, Accepted, Declared
  <2> QED BY <2>3, <2>4, <2>5, <2>6 DEF Inductive
<1>4. CASE read # 0
  <2>1. "limits" \in wrong' /\ Fail("Exception")
    BY <1>1, <1>2, <1>4 DEF Objects
  <2> QED BY <1>2, <2>1, FailStep DEF Results, Refusable
<1> QED BY <1>3, <1>4

\* A segment inside the initial table is inside the vector, and its indices do not wrap.
LEMMA SegmentFits ==
    ASSUME Inductive, NEW first \in Address, NEW n \in Address,
           first + n <= table.initial, table.initial <= table.size
    PROVE  ElementFits(first, n, table.size)
<1>1. /\ table.initial \in Nat /\ table.size \in Nat /\ table.initial < U32
      /\ first \in Nat /\ n \in Nat /\ U32 \in Nat
  BY LoaderAssumption DEF Inductive, TypeOK, Address
<1>2. SUFFICES ASSUME NEW ielem \in 0 .. n - 1 PROVE (first + ielem) % U32 < table.size
  BY DEF ElementFits
<1>3. first + ielem \in Nat /\ first + ielem < U32 /\ first + ielem < table.size
  BY <1>1
<1>4. (first + ielem) % U32 = first + ielem
  BY <1>1, <1>3, ModSmall
<1> QED BY <1>3, <1>4

LEMMA LoadElementStep == Inductive /\ LoadElement => Inductive'
<1> SUFFICES ASSUME Inductive, LoadElement PROVE Inductive'
  OBVIOUS
<1>1. PICK segment \in Segments, ifn \in Numbers :
        /\ wrong' = wrong \cup Objects("segment", segment[1] + segment[2] > table.initial)
                          \cup Objects("index", segment[2] > 0 /\ ifn >= Len(fn_entries))
        /\ IF ElementFits(segment[1], segment[2], table.size)
           THEN TakeEntry /\ UNCHANGED <<functions, table, memory>>
           ELSE Fail("Exception")
  BY DEF LoadElement
<1>2. /\ segment[1] \in Address /\ segment[2] \in Address
      /\ wrong \subseteq wrong' /\ wrong' \subseteq Faults
  BY <1>1, LoaderAssumption DEF Objects, Faults, Inductive, TypeOK
<1>3. CASE ElementFits(segment[1], segment[2], table.size)
  <2>1. TakeEntry /\ UNCHANGED <<functions, table, memory>>
    BY <1>1, <1>3
  <2>2. cfn_types' \in Nat /\ cfn_types' >= cfn_types /\ cfn_code' \in Nat
    BY <2>1 DEF functions, Inductive, TypeOK
  <2> QED BY <1>2, <2>1, <2>2, TakeEntryStep, IdFacts DEF LoadElement, functions
<1>4. CASE ~ElementFits(segment[1], segment[2], table.size)
  <2>1. Fail("Exception")
    BY <1>1, <1>4
  <2>2. wrong' # {}
    <3>1. SUFFICES ASSUME wrong' = {} PROVE FALSE
      OBVIOUS
    <3>2. table.initial <= table.size
      BY <1>2, <3>1 DEF Inductive, Accepted
    <3>3. segment[1] + segment[2] <= table.initial
      <4>1. ~(segment[1] + segment[2] > table.initial)
        BY <1>1, <3>1 DEF Objects
      <4>2. segment[1] \in Nat /\ segment[2] \in Nat /\ table.initial \in Nat
        BY <1>2, LoaderAssumption DEF Inductive, TypeOK, Address
      <4> QED BY <4>1, <4>2
    <3> QED BY <1>2, <1>4, <3>2, <3>3, SegmentFits
  <2> QED BY <1>2, <2>1, <2>2, FailStep DEF Results
<1> QED BY <1>3, <1>4
-----------------------------------------------------------------------------
(* Memory                                                                  *)

\* The first memory is declared before there are data, if the sections are in order.
LEMMA LoadMemoryStep == Inductive /\ LoadMemory => Inductive'
<1> SUFFICES ASSUME Inductive, LoadMemory PROVE Inductive'
  OBVIOUS
<1>1. PICK initial \in Numbers :
        /\ mem_types' = Append(mem_types, initial)
        /\ wrong' = wrong \cup Objects("limits", mem_types # <<>> \/ initial * PageSize >= U32)
  BY DEF LoadMemory
<1>2. /\ initial \in Nat /\ PageSize \in Nat /\ U32 \in Nat /\ initial * PageSize \in Nat
      /\ mem_types \in Seq(Nat) /\ mem_types' \in Seq(Nat)
      /\ Len(mem_types') = Len(mem_types) + 1 /\ Len(mem_types) \in Nat
      /\ \A i \in 1 .. Len(mem_types) : mem_types'[i] = mem_types[i]
      /\ mem_types'[Len(mem_types) + 1] = initial
  BY <1>1, LoaderAssumption DEF Address, Inductive, TypeOK
<1>3. wrong \subseteq wrong' /\ wrong' \subseteq Faults
  BY <1>1 DEF Objects, Faults, Inductive, TypeOK
<1>4. /\ UNCHANGED <<layout, at, sections, last, result, functions, table, exports, cbmem, vecmem, image>>
      /\ read' \in Nat /\ left' \in Nat /\ held' \in Nat
      /\ left = held => left' = held'
      /\ at = Section.Memory
  BY DEF LoadMemory, TakeEntry, Entry, Inductive, TypeOK
<1> USE DEF functions
<1>5. mem_types # <<>> => Declared' = Declared
  <2>1. ASSUME mem_types # <<>> PROVE mem_types'[1] = mem_types[1] /\ mem_types' # <<>>
    <3>1. 1 \in 1 .. Len(mem_types)
      BY <1>2, <2>1
    <3>2. Len(mem_types') # 0
      BY <1>2
    <3> QED BY <1>2, <3>1, <3>2
  <2> QED BY <2>1 DEF Declared
<1>6. mem_types = <<>> => Declared' = initial * PageSize
  <2>1. ASSUME mem_types = <<>> PROVE mem_types'[1] = initial /\ mem_types' # <<>>
    BY <1>2, <2>1
  <2> QED BY <2>1 DEF Declared
<1>7. TypeOK'
  BY <1>2, <1>3, <1>4 DEF Inductive, TypeOK
<1>8. EntriesTyped' /\ IndexSpace' /\ ValidLoads' /\ RefusesWithException' /\ InOrder'
  BY <1>3, <1>4 DEF Inductive, EntriesTyped, IndexSpace, ValidLoads, RefusesWithException, InOrder
<1>9. DataKept'
  <2> SUFFICES ASSUME wrong' \cap {"order", "segment", "limits"} = {}
               PROVE  /\ vecmem' = image'
                      /\ \A a \in Address : image'[a] # 0 => a < cbmem' /\ a < Declared'
    BY DEF DataKept
  <2>1. \A a \in Address : image[a] = 0
    BY <1>3, <1>4, IdFacts DEF Inductive, InOrder
  <2> QED BY <1>3, <1>4, <2>1 DEF Inductive, DataKept
<1>10. Accepted'
  <2>1. "limits" \notin wrong' => Declared' < U32
    BY <1>1, <1>2, <1>3, <1>5, <1>6 DEF Inductive, Accepted, Objects
  <2>2. wrong' \cap {"index", "unsupported"} = {} =>
            \A i \in 1 .. Len(exports) : exports[i] < Len(mem_types')
    <3> SUFFICES ASSUME wrong' \cap {"index", "unsupported"} = {}, NEW i \in 1 .. Len(exports)
                 PROVE  exports[i] < Len(mem_types')
      OBVIOUS
    <3>1. exports[i] \in Nat
      BY ElementOf DEF Inductive, TypeOK
    <3>2. exports[i] < Len(mem_types)
      BY <1>3 DEF Inductive, Accepted
    <3> QED BY <1>2, <3>1, <3>2
  <2> QED BY <1>3, <1>4, <2>1, <2>2, IdFacts DEF Inductive, Accepted
<1> QED BY <1>7, <1>8, <1>9, <1>10 DEF Inductive

LEMMA LoadExportStep == Inductive /\ LoadExport => Inductive'
<1> SUFFICES ASSUME Inductive, LoadExport PROVE Inductive'
  OBVIOUS
<1>1. PICK named \in BOOLEAN, ofMemory \in BOOLEAN, index \in Numbers :
        /\ exports' = IF named THEN Append(exports, index) ELSE exports
        /\ wrong' = wrong \cup Objects("unsupported", named /\ ~ofMemory)
                          \cup Objects("name", named /\ exports # <<>>)
                          \cup Objects("index", ofMemory /\ index >= Len(mem_types))
  BY DEF LoadExport
<1>2. wrong \subseteq wrong' /\ wrong' \subseteq Faults
  BY <1>1 DEF Objects, Faults, Inductive, TypeOK
<1>3. /\ UNCHANGED <<layout, at, sections, last, result, functions, table, mem_types, cbmem, vecmem, image>>
      /\ read' \in Nat /\ left' \in Nat /\ held' \in Nat
      /\ left = held => left' = held'
  BY DEF LoadExport, TakeEntry, Entry, Inductive, TypeOK
<1>4. exports \in Seq(Nat) /\ index \in Nat /\ Len(mem_types) \in Nat
  BY LoaderAssumption DEF Address, Inductive, TypeOK
<1> USE DEF functions
<1>5. TypeOK'
  <2>1. exports' \in Seq(Nat)
    BY <1>1, <1>4
  <2> QED BY <1>2, <1>3, <2>1 DEF Inductive, TypeOK
<1>6. EntriesTyped' /\ IndexSpace' /\ DataKept' /\ ValidLoads' /\ RefusesWithException' /\ InOrder'
  BY <1>2, <1>3 DEF Inductive, EntriesTyped, IndexSpace, DataKept, Declared, ValidLoads,
                    RefusesWithException, InOrder
<1>7. Accepted'
  <2>1. CASE ~named
    BY <1>1, <1>2, <1>3, <2>1, IdFacts DEF Inductive, Accepted, Declared
  <2>2. CASE named
    <3>1. /\ exports' = Append(exports, index)
          /\ Len(exports') = Len(exports) + 1 /\ Len(exports) \in Nat
          /\ exports'[Len(exports) + 1] = index
          /\ \A i \in 1 .. Len(exports) : exports'[i] = exports[i]
      BY <1>1, <1>4, <2>2
    <3>2. "name" \notin wrong' => Len(exports') <= 1
      <4>1. "name" \notin wrong' => exports = <<>>
        BY <1>1, <2>2 DEF Objects
      <4> QED BY <3>1, <4>1
    <3>3. wrong' \cap {"index", "unsupported"} = {} => index < Len(mem_types)
      BY <1>1, <1>4, <2>2 DEF Objects
    <3>4. wrong' \cap {"index", "unsupported"} = {} =>
              \A i \in 1 .. Len(exports') : exports'[i] < Len(mem_types)
      BY <1>2, <3>1, <3>3 DEF Inductive, Accepted
    <3> QED BY <1>2, <1>3, <3>2, <3>4, IdFacts DEF Inductive, Accepted, Declared
  <2> QED BY <2>1, <2>2
<1> QED BY <1>5, <1>6, <1>7 DEF Inductive

\* InitializeMemory finds its export, and resizes a memory that holds no data yet.
LEMMA CloseExportsStep == Inductive /\ CloseExports => Inductive'
<1> SUFFICES ASSUME Inductive, CloseExports PROVE Inductive'
  OBVIOUS
<1> DEFINE bad == held > 0 \/ ~OnlyMemory \/ (exports # <<>> /\ MemoryExport >= Len(mem_types))
<1>0. /\ at = Section.Export /\ left = 0 /\ wrong' = wrong /\ held \in Nat
      /\ mem_types \in Seq(Nat) /\ exports \in Seq(Nat)
  BY DEF CloseExports, Inductive, TypeOK
<1>1. CASE bad
  <2>1. Fail("Exception")
    BY <1>1 DEF CloseExports
  <2>2. CASE held > 0
    <3>1. "payload" \in wrong
      BY <1>0, <2>2, IdFacts DEF Inductive, Accepted
    <3> QED BY <1>0, <2>1, <3>1, FailStep DEF Results, Inductive, TypeOK
  <2>3. CASE ~OnlyMemory
    <3>1. Len(exports) > 1
      BY <1>0, <2>3 DEF OnlyMemory
    <3>2. "name" \in wrong
      BY <1>0, <3>1 DEF Inductive, Accepted
    <3> QED BY <1>0, <2>1, <3>2, FailStep DEF Results, Inductive, TypeOK
  <2>4. CASE exports # <<>> /\ MemoryExport >= Len(mem_types)
    <3>1. Len(exports) \in 1 .. Len(exports) /\ exports[Len(exports)] \in Nat /\ Len(mem_types) \in Nat
      BY <1>0, <2>4
    <3>2. wrong \cap {"index", "unsupported"} # {}
      BY <2>4, <3>1 DEF Inductive, Accepted, MemoryExport
    <3> QED BY <1>0, <2>1, <3>2, FailStep DEF Results, Inductive, TypeOK
  <2> QED BY <1>1, <2>2, <2>3, <2>4
<1>2. CASE ~bad
  <2>1. /\ at' = Idle /\ read' = 0 /\ left' = 0 /\ held' = 0
        /\ cbmem' = IF exports = <<>> THEN cbmem ELSE (mem_types[MemoryExport + 1] * PageSize) % U32
        /\ vecmem' = IF exports = <<>> THEN vecmem ELSE Resized(cbmem')
        /\ UNCHANGED <<layout, sections, last, functions, table, mem_types, exports, image, result>>
    BY <1>2 DEF CloseExports
  <2>2. cbmem' \in Address
    <3>1. CASE exports = <<>>
      BY <2>1, <3>1 DEF Inductive, TypeOK
    <3>2. CASE exports # <<>>
      <4>0. Len(exports) \in 1 .. Len(exports) /\ exports[Len(exports)] \in Nat
        BY <1>0, <3>2
      <4>1. MemoryExport \in Nat /\ MemoryExport + 1 \in 1 .. Len(mem_types)
        BY <1>0, <1>2, <3>2, <4>0 DEF MemoryExport
      <4>2. mem_types[MemoryExport + 1] \in Nat
        BY <1>0, <4>1, ElementOf
      <4>3. mem_types[MemoryExport + 1] * PageSize \in Nat
        BY <4>2, LoaderAssumption
      <4> QED BY <2>1, <3>2, <4>3, ModInRange
    <3> QED BY <3>1, <3>2
  <2>3. vecmem' \in [Address -> Byte]
    BY <2>1 DEF Resized, Byte, Inductive, TypeOK
  <2> USE DEF functions
  <2>4. TypeOK'
    BY <1>0, <2>1, <2>2, <2>3, IdFacts DEF Inductive, TypeOK
  <2>5. EntriesTyped' /\ IndexSpace' /\ ValidLoads' /\ RefusesWithException'
    BY <1>0, <2>1 DEF Inductive, EntriesTyped, IndexSpace, ValidLoads, RefusesWithException
  <2>6. InOrder'
    BY <1>0, <2>1, IdFacts DEF Inductive, InOrder
  <2>7. Accepted'
    BY <1>0, <2>1, IdFacts DEF Inductive, Accepted, Declared
  <2>8. DataKept'
    <3> SUFFICES ASSUME wrong \cap {"order", "segment", "limits"} = {}
                 PROVE  /\ vecmem' = image'
                        /\ \A a \in Address : image'[a] # 0 => a < cbmem' /\ a < Declared'
      BY <1>0 DEF DataKept
    <3>1. \A a \in Address : image[a] = 0
      BY <1>0, IdFacts DEF Inductive, InOrder
    <3>2. vecmem = image
      BY DEF Inductive, DataKept
    <3>3. vecmem' = vecmem
      BY <2>1, <3>1, <3>2 DEF Resized, Inductive, TypeOK
    <3> QED BY <2>1, <3>1, <3>2, <3>3
  <2> QED BY <2>4, <2>5, <2>6, <2>7, <2>8 DEF Inductive
<1> QED BY <1>1, <1>2

\* A segment inside the declared memory ends where it says, and memory grows to hold it.
LEMMA SegmentEnds ==
    ASSUME Inductive, NEW offset \in Address, NEW cb \in Address,
           wrong \cap {"limits"} = {}, offset + cb <= Declared
    PROVE  /\ DataEnd(offset, cb) = offset + cb
           /\ offset + cb <= Grown(DataEnd(offset, cb))
<1>1. /\ offset \in Nat /\ cb \in Nat /\ U32 \in Nat /\ offset + cb \in Nat /\ cbmem \in Nat
  BY LoaderAssumption DEF Address, Inductive, TypeOK
<1>2. Declared \in Nat
  <2>1. CASE mem_types = <<>>
    BY <2>1 DEF Declared
  <2>2. CASE mem_types # <<>>
    <3>1. mem_types \in Seq(Nat) /\ 1 \in 1 .. Len(mem_types)
      BY <2>2 DEF Inductive, TypeOK
    <3>2. mem_types[1] \in Nat
      BY <3>1, ElementOf
    <3> QED BY <2>2, <3>2, LoaderAssumption DEF Declared
  <2> QED BY <2>1, <2>2
<1>3. offset + cb < U32
  BY <1>1, <1>2 DEF Inductive, Accepted
<1>4. DataEnd(offset, cb) = offset + cb
  BY <1>1, <1>3, ModSmall DEF DataEnd
<1> QED BY <1>1, <1>4 DEF Grown

LEMMA LoadDataStep == Inductive /\ LoadData => Inductive'
<1> SUFFICES ASSUME Inductive, LoadData PROVE Inductive'
  OBVIOUS
<1>1. PICK segment \in Segments, v \in Byte \ {0} :
        /\ wrong' = wrong \cup Objects("segment", segment[1] + segment[2] > Declared)
        /\ IF segment[2] > 0 /\ segment[1] + segment[2] > Grown(DataEnd(segment[1], segment[2]))
           THEN Fail("wild")
           ELSE /\ TakeEntry
                /\ cbmem' = Grown(DataEnd(segment[1], segment[2]))
                /\ vecmem' = Write(Resized(Grown(DataEnd(segment[1], segment[2]))), segment[1], segment[2], v)
                /\ image' = Write(image, segment[1], segment[2], v)
                /\ UNCHANGED <<functions, table, mem_types, exports>>
  BY DEF LoadData
<1> DEFINE offset == segment[1]
           cb == segment[2]
           size == Grown(DataEnd(offset, cb))
<1>2. /\ offset \in Address /\ cb \in Address
      /\ wrong \subseteq wrong' /\ wrong' \subseteq Faults
  BY <1>1, LoaderAssumption DEF Objects, Faults, Inductive, TypeOK
<1>3. offset \in Nat /\ cb \in Nat /\ offset + cb \in Nat /\ cbmem \in Address
  BY <1>2, LoaderAssumption DEF Address, Inductive, TypeOK
<1>4. wrong' \cap {"segment", "limits"} = {} => offset + cb <= size /\ offset + cb <= Declared
  <2> SUFFICES ASSUME wrong' \cap {"segment", "limits"} = {}
               PROVE  offset + cb <= size /\ offset + cb <= Declared
    OBVIOUS
  <2>1. ~(offset + cb > Declared)
    BY <1>1 DEF Objects
  <2>2. offset + cb <= Declared
    <3>1. Declared \in Nat
      BY LoaderAssumption, ElementOf DEF Declared, Inductive, TypeOK
    <3> QED BY <1>3, <2>1, <3>1
  <2> QED BY <1>2, <2>2, SegmentEnds
<1>5. size \in Address /\ cbmem <= size
  <2>1. DataEnd(offset, cb) \in Address
    BY <1>3, ModInRange DEF DataEnd
  <2> QED BY <1>3, <2>1, LoaderAssumption DEF Grown, Address
<1>6. CASE cb > 0 /\ offset + cb > size
  <2>1. Fail("wild")
    BY <1>1, <1>6
  <2>2. wrong' \cap {"segment", "limits"} # {}
    BY <1>3, <1>4, <1>5, <1>6, LoaderAssumption DEF Address
  <2> QED BY <1>2, <2>1, <2>2, FailStep DEF Results, Refusable
<1>7. CASE ~(cb > 0 /\ offset + cb > size)
  <2>1. /\ TakeEntry /\ cbmem' = size
        /\ vecmem' = Write(Resized(size), offset, cb, v)
        /\ image' = Write(image, offset, cb, v)
        /\ UNCHANGED <<functions, table, mem_types, exports>>
    BY <1>1, <1>7
  <2>2. /\ UNCHANGED <<layout, at, sections, last, result>>
        /\ read' \in Nat /\ left' \in Nat /\ held' \in Nat
        /\ left = held => left' = held'
        /\ at = Section.Data
    BY <2>1 DEF LoadData, TakeEntry, Entry, Inductive, TypeOK
  <2> HIDE DEF offset, cb, size
  <2> USE DEF functions
  <2>3. vecmem' \in [Address -> Byte] /\ image' \in [Address -> Byte]
    BY <2>1 DEF Write, Resized, Byte, Inductive, TypeOK
  <2>4. TypeOK'
    BY <1>2, <1>5, <2>1, <2>2, <2>3 DEF Inductive, TypeOK
  <2>5. EntriesTyped' /\ IndexSpace' /\ ValidLoads' /\ RefusesWithException'
    BY <1>2, <2>1, <2>2 DEF Inductive, EntriesTyped, IndexSpace, ValidLoads, RefusesWithException
  <2>6. InOrder'
    BY <1>2, <2>1, <2>2, IdFacts DEF Inductive, InOrder
  <2>7. Accepted'
    BY <1>2, <2>1, <2>2, IdFacts DEF Inductive, Accepted, Declared
  <2>8. DataKept'
    <3> SUFFICES ASSUME wrong' \cap {"order", "segment", "limits"} = {}
                 PROVE  /\ vecmem' = image'
                        /\ \A a \in Address : image'[a] # 0 => a < cbmem' /\ a < Declared'
      BY DEF DataKept
    <3>1. /\ vecmem = image
          /\ \A a \in Address : image[a] # 0 => a < cbmem /\ a < Declared
      BY <1>2 DEF Inductive, DataKept
    <3>2. Resized(size) = vecmem
      <4>1. \A a \in Address : ~(a < size) => vecmem[a] = 0
        BY <1>3, <1>5, <3>1, LoaderAssumption DEF Address
      <4> QED BY <4>1 DEF Resized, Inductive, TypeOK
    <3>3. Declared' = Declared
      BY <2>1 DEF Declared
    <3>4. ASSUME NEW a \in Address, image'[a] # 0 PROVE a < cbmem' /\ a < Declared'
      <4>1. CASE offset <= a /\ a < offset + cb
        <5>1. offset + cb <= size /\ offset + cb <= Declared
          BY <1>4 DEF offset, cb, size
        <5>2. Declared \in Nat
          BY LoaderAssumption, ElementOf DEF Declared, Inductive, TypeOK
        <5> QED BY <1>3, <1>5, <2>1, <3>3, <4>1, <5>1, <5>2, LoaderAssumption DEF Address
      <4>2. CASE ~(offset <= a /\ a < offset + cb)
        <5>1. image'[a] = image[a]
          BY <2>1, <4>2 DEF Write
        <5> QED BY <1>3, <1>5, <2>1, <3>1, <3>3, <3>4, <5>1, LoaderAssumption DEF Address
      <4> QED BY <4>1, <4>2
    <3> QED BY <2>1, <3>1, <3>2, <3>4
  <2> QED BY <2>4, <2>5, <2>6, <2>7, <2>8 DEF Inductive
<1> QED BY <1>6, <1>7

-----------------------------------------------------------------------------
(* The end of LoadModule                                                   *)

\* An equal type is a type: what the slots are made canonical to stays in range.
LEMMA LinkStep == Inductive /\ Link => Inductive'
<1> SUFFICES ASSUME Inductive, Link PROVE Inductive'
  OBVIOUS
<1>0. /\ fn_entries \in Seq([itype : Nat, import : BOOLEAN]) /\ Len(fn_entries) \in Nat
      /\ cfn_types \in Nat
  BY DEF Inductive, TypeOK
<1>1. \A i \in 1 .. Len(fn_entries) : fn_entries[i].itype \in 0 .. cfn_types - 1 /\ fn_entries[i].import \in BOOLEAN
  <2> SUFFICES ASSUME NEW i \in 1 .. Len(fn_entries)
               PROVE  fn_entries[i].itype \in 0 .. cfn_types - 1 /\ fn_entries[i].import \in BOOLEAN
    OBVIOUS
  <2>1. fn_entries[i] \in [itype : Nat, import : BOOLEAN]
    BY <1>0, ElementOf
  <2>2. fn_entries[i].itype < cfn_types
    BY DEF Inductive, EntriesTyped
  <2> QED BY <1>0, <2>1, <2>2
<1>2. PICK canonical \in Canonical :
          fn_entries' = [i \in 1 .. Len(fn_entries) |->
                            [itype |-> canonical[fn_entries[i].itype], import |-> fn_entries[i].import]]
  <2>1. ~ \E i \in 1 .. Len(fn_entries) : fn_entries[i].itype >= cfn_types
    BY <1>0, <1>1
  <2> QED BY <2>1 DEF Link
<1>3. /\ wrong' = wrong \cup Objects("bodies", cfn_code # Defined)
      /\ at' \in {Over, Starting} /\ result' \in {"loaded", result}
      /\ UNCHANGED <<layout, read, left, held, sections, last, cfn_types, cimports, cfn_code, start,
                     table, memory>>
  <2>1. ~ \E i \in 1 .. Len(fn_entries) : fn_entries[i].itype >= cfn_types
    BY <1>0, <1>1
  <2> QED BY <2>1 DEF Link
<1>4. wrong \subseteq wrong' /\ wrong' \subseteq Faults
  BY <1>3 DEF Objects, Faults, Inductive, TypeOK
<1>5. /\ fn_entries' \in Seq([itype : Nat, import : BOOLEAN]) /\ Len(fn_entries') = Len(fn_entries)
      /\ \A i \in 1 .. Len(fn_entries) :
            fn_entries'[i].itype \in 0 .. cfn_types - 1 /\ fn_entries'[i].import = fn_entries[i].import
  <2>1. canonical \in [0 .. cfn_types - 1 -> 0 .. cfn_types - 1]
    BY DEF Canonical
  <2>2. ASSUME NEW i \in 1 .. Len(fn_entries)
        PROVE  /\ canonical[fn_entries[i].itype] \in 0 .. cfn_types - 1
               /\ [itype |-> canonical[fn_entries[i].itype], import |-> fn_entries[i].import]
                      \in [itype : Nat, import : BOOLEAN]
    <3>1. fn_entries[i].itype \in 0 .. cfn_types - 1 /\ fn_entries[i].import \in BOOLEAN
      BY <1>1
    <3>2. canonical[fn_entries[i].itype] \in 0 .. cfn_types - 1
      BY <2>1, <3>1
    <3> QED BY <1>0, <3>1, <3>2
  <2> QED BY <1>0, <1>2, <2>2
<1> USE DEF memory
<1>6. TypeOK'
  <2>1. at' \in Ids \cup {Heading, Idle, Linking, Starting, Over} /\ result' \in Results
    BY <1>3 DEF Inductive, TypeOK, Results
  <2> QED BY <1>3, <1>4, <1>5, <2>1 DEF Inductive, TypeOK
<1>7. EntriesTyped'
  <2> SUFFICES ASSUME NEW i \in 1 .. Len(fn_entries) PROVE fn_entries'[i].itype < cfn_types
    BY <1>3, <1>5 DEF EntriesTyped
  <2>1. fn_entries'[i].itype \in 0 .. cfn_types - 1
    BY <1>5
  <2> QED BY <1>0, <2>1
<1>8. IndexSpace'
  BY <1>3, <1>4, <1>5 DEF Inductive, IndexSpace
<1>9. DataKept' /\ ValidLoads' /\ RefusesWithException'
  BY <1>3, <1>4 DEF Inductive, DataKept, Declared, ValidLoads, RefusesWithException
<1>10. InOrder' /\ Accepted'
  BY <1>3, <1>4, <1>5, IdFacts DEF Inductive, InOrder, Accepted, Declared
<1> QED BY <1>6, <1>7, <1>8, <1>9, <1>10 DEF Inductive

\* The start function does not return, because of a fault that is not among the refusable.
LEMMA StartEndsStep ==
    Inductive /\ (StartMissing \/ StartNoBody \/ StartImport \/ StartTraps \/ StartRefused \/ StartInvalid)
        => Inductive'
<1> SUFFICES ASSUME Inductive,
                    StartMissing \/ StartNoBody \/ StartImport \/ StartTraps \/ StartRefused \/ StartInvalid
             PROVE  Inductive'
  OBVIOUS
<1>1. \E fault \in {"index", "bodies", "unsupported", "trap"}, hows \in SUBSET Results : Ends(fault, hows)
  BY DEF StartMissing, StartNoBody, StartImport, StartTraps, StartRefused, StartInvalid, Results
<1> QED BY <1>1, EndsStep DEF Faults, Refusable

\* The size written back is no smaller than the one the memory was declared with.
LEMMA StartReturnsStep == Inductive /\ StartReturns => Inductive'
<1> SUFFICES ASSUME Inductive, StartReturns PROVE Inductive'
  OBVIOUS
<1>0. /\ mem_types \in Seq(Nat) /\ Len(mem_types) \in Nat
      /\ PageSize \in Nat /\ U32 \in Nat
  BY LoaderAssumption DEF Inductive, TypeOK
<1>1. PICK pages \in Address :
          /\ HeapSize <= pages * PageSize /\ pages * PageSize < U32
          /\ mem_types' = IF mem_types = <<>> \/ pages = 0 THEN mem_types ELSE [mem_types EXCEPT ![1] = pages]
  BY DEF StartReturns
<1>2. /\ at' = Over /\ result' = "loaded"
      /\ UNCHANGED <<layout, read, left, held, sections, last, wrong, functions, table, exports, cbmem,
                     vecmem, image>>
  BY DEF StartReturns
<1>3. mem_types' \in Seq(Nat) /\ Len(mem_types') = Len(mem_types)
  BY <1>0, <1>1 DEF Address
<1>4. "limits" \notin wrong => Declared <= Declared' /\ Declared' < U32
  <2> SUFFICES ASSUME "limits" \notin wrong PROVE Declared <= Declared' /\ Declared' < U32
    OBVIOUS
  <2>1. Declared \in Nat /\ Declared < U32
    <3>1. Declared \in Nat
      BY <1>0, ElementOf DEF Declared
    <3> QED BY <3>1 DEF Inductive, Accepted
  <2>2. CASE mem_types' = mem_types
    BY <1>0, <2>1, <2>2 DEF Declared
  <2>3. CASE mem_types' # mem_types
    <3>1. mem_types # <<>> /\ mem_types' = [mem_types EXCEPT ![1] = pages]
      BY <1>1, <2>3
    <3>2. 1 \in 1 .. Len(mem_types) /\ mem_types' # <<>> /\ mem_types'[1] = pages
      BY <1>0, <3>1
    <3>3. Declared' = pages * PageSize
      BY <3>2 DEF Declared
    <3>4. HeapSize = Declared % U32
      BY <3>1 DEF HeapSize, Declared
    <3>5. HeapSize = Declared
      BY <1>0, <2>1, <3>4, ModSmall
    <3> QED BY <1>1, <3>3, <3>5
  <2> QED BY <2>2, <2>3
<1> USE DEF functions
<1>5. TypeOK'
  BY <1>2, <1>3, IdFacts DEF Inductive, TypeOK, Results
<1>6. EntriesTyped' /\ IndexSpace' /\ ValidLoads' /\ RefusesWithException'
  BY <1>2 DEF Inductive, EntriesTyped, IndexSpace, ValidLoads, RefusesWithException
<1>7. DataKept'
  <2> SUFFICES ASSUME wrong \cap {"order", "segment", "limits"} = {}
               PROVE  /\ vecmem = image
                      /\ \A a \in Address : image[a] # 0 => a < cbmem /\ a < Declared'
    BY <1>2 DEF DataKept
  <2>1. /\ vecmem = image
        /\ \A a \in Address : image[a] # 0 => a < cbmem /\ a < Declared
    BY DEF Inductive, DataKept
  <2>2. Declared <= Declared' /\ Declared \in Nat /\ Declared' \in Nat
    <3>1. Declared \in Nat
      BY <1>0, ElementOf DEF Declared
    <3>2. Declared' \in Nat
      BY <1>0, <1>3, ElementOf DEF Declared
    <3> QED BY <1>4, <3>1, <3>2
  <2> QED BY <2>1, <2>2, LoaderAssumption DEF Address
<1>8. InOrder' /\ Accepted'
  BY <1>2, <1>3, <1>4, IdFacts DEF Inductive, InOrder, Accepted
<1> QED BY <1>5, <1>6, <1>7, <1>8 DEF Inductive

LEMMA StutterStep == Inductive /\ UNCHANGED vars => Inductive'
<1> SUFFICES ASSUME Inductive, UNCHANGED vars PROVE Inductive'
  OBVIOUS
<1> USE DEF vars, reader, functions, memory
<1>1. TypeOK' /\ EntriesTyped' /\ IndexSpace'
  BY DEF Inductive, TypeOK, EntriesTyped, IndexSpace
<1>2. DataKept' /\ ValidLoads' /\ RefusesWithException'
  BY DEF Inductive, DataKept, Declared, ValidLoads, RefusesWithException
<1>3. InOrder' /\ Accepted'
  BY DEF Inductive, InOrder, Accepted, Declared
<1> QED BY <1>1, <1>2, <1>3 DEF Inductive

LEMMA NextInductive == Inductive /\ [Next]_vars => Inductive'
<1> SUFFICES ASSUME Inductive, [Next]_vars PROVE Inductive'
  OBVIOUS
<1>1. ASSUME NEW id \in Ids, NEW n \in layout.counts, NEW entries \in layout.counts,
             OpenSection(id, n, entries)
      PROVE  Inductive'
  BY <1>1, OpenSectionStep
<1>h. CASE ReadHeader \/ CutHeader \/ BadHeader \/ ReadFails
  BY <1>h, HeaderStep
<1>2. CASE UnknownSection \/ EndOfFile \/ NameOverruns \/ OutOfMemory \/ CloseSection \/ ReadPastEnd
  BY <1>2, EndOfFileStep, CloseSectionStep, ReadPastEndStep
<1>3. CASE LoadFnType \/ LoadCode \/ LoadGlobal
  BY <1>3, PlainEntryStep
<1>4. CASE LoadFnDecl
  BY <1>4, DeclareStep DEF LoadFnDecl
<1>5. CASE LoadImportFn
  BY <1>5, DeclareStep DEF LoadImportFn
<1>6. CASE LoadImportOther \/ LoadBadBody \/ LoadMalformed \/ NoRoom \/ LinkFails
  BY <1>6, RefusedStep
<1>7. CASE LoadStart \/ LoadTable \/ LoadElement
  BY <1>7, LoadStartStep, LoadTableStep, LoadElementStep
<1>8. CASE LoadMemory \/ LoadExport \/ CloseExports \/ LoadData
  BY <1>8, LoadMemoryStep, LoadExportStep, CloseExportsStep, LoadDataStep
<1>9. CASE Link
  BY <1>9, LinkStep
<1>s. CASE StartMissing \/ StartNoBody \/ StartImport \/ StartTraps \/ StartRefused \/ StartInvalid
  BY <1>s, StartEndsStep
<1>t. CASE StartReturns
  BY <1>t, StartReturnsStep
<1>10. CASE Done \/ UNCHANGED vars
  BY <1>10, StutterStep DEF Done
<1> QED BY <1>1, <1>h, <1>2, <1>3, <1>4, <1>5, <1>6, <1>7, <1>8, <1>9, <1>s, <1>t, <1>10 DEF Next

-----------------------------------------------------------------------------
(* Theorems                                                                *)

\* What LoadModule has read agrees with itself as far as its checks go, and loading ends as
\* the faults of the file permit, for files of any size and any numbers in them, from the
\* header to the return of the start function.
THEOREM LoaderInductive == Spec => []Inductive
<1>1. Init => Inductive
  BY InitInductive
<1>2. Inductive /\ [Next]_vars => Inductive'
  BY NextInductive
<1> QED BY <1>1, <1>2, PTL DEF Spec

\* Every function accepted has its type: the indices that CompileFn, ExternCallFn and
\* ITypeCanonicalFromIType use are in range, whatever the file holds.
THEOREM EveryEntryTyped == Spec => []EntriesTyped
<1>1. Inductive => EntriesTyped
  BY DEF Inductive
<1> QED BY <1>1, LoaderInductive, PTL

\* The imports are the first functions when the sections come in order, which is how the
\* code generator tells an import from a function with a body.
THEOREM ImportsFirst == Spec => []IndexSpace
<1>1. Inductive => IndexSpace
  BY DEF Inductive
<1> QED BY <1>1, LoaderInductive, PTL

\* load_data and InitializeMemory leave the memory the segments describe, inside the
\* declared one, for any size of memory and segments below 4 GiB.
THEOREM SegmentsKept == Spec => []DataKept
<1>1. Inductive => DataKept
  BY DEF Inductive
<1> QED BY <1>1, LoaderInductive, PTL

\* A valid module that stays within what the loader and the compiler support is loaded, if its
\* start function neither traps nor is refused: with one, result is still "loading" while it
\* runs.
THEOREM ValidModulesLoad == Spec => []ValidLoads
<1>1. Inductive => ValidLoads
  BY DEF Inductive
<1> QED BY <1>1, LoaderInductive, PTL

\* A wrong magic number or version, disorder, an end inside a section that loses no body,
\* bytes other than the one permitted, types out of range and duplicate names never end loading
\* in another way than by the Exception the host catches.  A cut header does, and so may a
\* start function.
THEOREM RefusalsCaught == Spec => []RefusesWithException
<1>1. Inductive => RefusesWithException
  BY DEF Inductive
<1> QED BY <1>1, LoaderInductive, PTL
=============================================================================
