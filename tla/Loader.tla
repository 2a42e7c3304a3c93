------------------------------- MODULE Loader -------------------------------
(***************************************************************************)
(* LoadModule: the sections of a module, read one entry at a time into the *)
(* vectors of WasmContext, and the steps that turn them into an instance.  *)
(*                                                                         *)
(* The loader has no notion of a valid module.  It takes sections in any   *)
(* order and number and compares few of them with one another; some reads  *)
(* past the end of a payload give zero, others throw an int, an Exception  *)
(* or nothing at all.  `wrong' collects what WebAssembly, or this loader's *)
(* own limits, would object to in what has been read, so that a property   *)
(* can say which objections it survives.                                   *)
(*                                                                         *)
(* Abstractions.  A payload is the number of entries it holds beside the   *)
(* number its count promises; names, bodies, globals and signatures are    *)
(* left out where nothing below depends on them (signatures are compared   *)
(* in FnTypes, bodies compiled in StackCode, globals read in NumericCode). *)
(* Bytes of memory and of segments are counted in units of PageSize to a   *)
(* page, and U32 stands for 2^32.                                          *)
(*                                                                         *)
(* A definition named X_Y is X with a deliberate error: the runs have to   *)
(* notice it.  No other definition uses one.                               *)
(***************************************************************************)
EXTENDS Integers, Sequences

CONSTANTS
    U32,            \* a uint32_t is below this
    PageSize,       \* WASM_PAGE_SIZE
    Numbers,        \* the numbers a module may contain
    Segments,       \* the pairs <<start, length>> of its element and data segments
    Layouts         \* the kinds of modules: records of the section ids (ids) one may use, of how
                    \* many entries a section may promise or hold (counts), and of the most
                    \* sections there may be (bound)

Section == [Custom |-> 0, Type |-> 1, Import |-> 2, Function |-> 3, Table |-> 4, Memory |-> 5,
            Global |-> 6, Export |-> 7, Start |-> 8, Element |-> 9, Code |-> 10, Data |-> 11]
Unknown == 12
Ids == 0 .. Unknown

Address == 0 .. U32 - 1
Byte == 0 .. 2                  \* 0, and the contents of two kinds of segments

ASSUME LoaderAssumption ==
    /\ U32 \in Nat \ {0} /\ PageSize \in Nat \ {0}
    /\ Numbers \subseteq Address /\ 0 \in Numbers
    /\ Segments \subseteq Address \X Address
    /\ Layouts \subseteq [ids : SUBSET Ids, counts : SUBSET Nat, bound : Nat]

\* What can be wrong with a file.  "header": it ends inside the header; "truncated": inside a
\* section; "unreadable": fread fails before its end; "size": something in it is too large to
\* allocate; "malformed": a byte that has one permitted value has another; "trap": the start
\* function does not return.
Faults == {"header", "magic", "truncated", "unreadable", "size", "order", "payload", "section",
           "malformed", "type", "index", "name", "limits", "segment", "bodies", "unsupported", "trap"}

VARIABLES
    layout,         \* the kind of module this is
    at,             \* the section being read; Idle between two; Heading, Linking, Starting; Over
    read,           \* entries of it that were read
    left,           \* entries its count still promises
    held,           \* entries of which its payload still holds the last field of fixed width; a
                    \* number that is cut off behind it is read like any other
    sections,       \* how many sections were read
    last,           \* the highest id so far
    wrong,          \* the faults of what was read so far
    cfn_types,      \* m_vecfn_types.size()
    fn_entries,     \* m_vecfn_entries, each with whether the file has it as an import
    cimports,       \* m_vecimports.size()
    table,          \* m_vecIndirectFnTable.size(), and the initial size the file gives
    mem_types,      \* m_vecmem_types: their initial sizes
    exports,        \* m_vecexports: the indices of those named "memory"
    cfn_code,       \* m_vecfn_code.size()
    start,          \* m_ifnStart, or -1
    cbmem,          \* m_vecmem.size()
    vecmem,         \* its bytes, and 0 beyond them
    image,          \* what the data segments read so far say memory holds
    result          \* how LoadModule ended: "loading" until it has

reader == <<layout, at, read, left, held, sections, last>>
functions == <<cfn_types, fn_entries, cimports, cfn_code, start>>
memory == <<mem_types, exports, cbmem, vecmem, image>>
vars == <<reader, wrong, functions, table, memory, result>>

Idle == -1
Linking == -2
Over == -3
Heading == -4
Starting == -5

\* Verify throws Exception.  fread_struct and safe_read_buffer throw an int and load_section a
\* string, which the test host does not catch; vector::at throws std::out_of_range and a
\* resize std::bad_alloc.  "wild": memory that is not the loader's was read or written.
\* "crash": the process ends.
Results == {"loading", "loaded", "Exception", "int", "string", "out_of_range", "bad_alloc", "wild", "crash"}

Init ==
    /\ layout \in Layouts
    /\ at = Heading /\ read = 0 /\ left = 0 /\ held = 0 /\ sections = 0 /\ last = 0
    /\ wrong = {}
    /\ cfn_types = 0 /\ fn_entries = <<>> /\ cimports = 0 /\ cfn_code = 0 /\ start = -1
    /\ table = [size |-> 0, initial |-> 0]
    /\ mem_types = <<>> /\ exports = <<>> /\ cbmem = 0
    /\ vecmem = [a \in Address |-> 0] /\ image = vecmem
    /\ result = "loading"

-----------------------------------------------------------------------------
(* The file                                                                *)

Objects(fault, condition) == IF condition THEN {fault} ELSE {}

\* Loading ends without an instance.
Fail(how) ==
    /\ result' = how
    /\ at' = Over
    /\ UNCHANGED <<layout, read, left, held, sections, last, functions, table, memory>>

\* It does so in one of some ways, because of a fault.
Ends(fault, hows) ==
    /\ wrong' = wrong \cup {fault}
    /\ \E how \in hows : Fail(how)

\* Control moves on, and nothing else.
Proceed(to) ==
    /\ at' = to
    /\ UNCHANGED <<layout, read, left, held, sections, last, functions, table, memory, result>>

\* The header is read outside the try of load_section.
ReadHeader == at = Heading /\ Proceed(Idle) /\ UNCHANGED wrong
CutHeader == at = Heading /\ Ends("header", {"int"})
BadHeader == at = Heading /\ Ends("magic", {"Exception"})

\* fread fails before the end of the file: load_section throws its int on.
ReadFails == at \in {Heading, Idle} /\ Ends("unreadable", {"int"})

\* The file ends here, or anywhere in the next section: fread throws an int, and feof says
\* that this was a section boundary.
EndOfFile ==
    /\ at = Idle /\ Proceed(Linking)
    /\ \E cut \in BOOLEAN : wrong' = wrong \cup Objects("truncated", cut)

\* A length or a count is too large for vector::resize or reserve, or for a malloc whose result
\* is not looked at.
OutOfMemory == at \in Ids \cup {Idle} /\ Ends("size", {"bad_alloc", "crash"})

-----------------------------------------------------------------------------
(* Sections                                                                *)

\* load_section reads a header and its payload, and looks at the id.
OpenSection(id, n, entries) ==
    /\ at = Idle
    /\ sections < layout.bound
    /\ id \in layout.ids
    /\ at' = id /\ read' = 0 /\ left' = n /\ held' = entries
    /\ sections' = sections + 1
    /\ last' = IF id > last THEN id ELSE last
    /\ wrong' = wrong \cup Objects("order", id # Section.Custom /\ id <= last)
                      \cup Objects("payload", id \notin {Section.Custom, Section.Start} /\ n # entries)
    /\ UNCHANGED <<layout, functions, table, memory, result>>

\* The name of a custom section takes its bytes from the section's payload, and may take more:
\* payload_len wraps to almost 2^32, which is not to be had, or is the rest of the file.
NameOverruns ==
    /\ at = Idle /\ sections < layout.bound /\ Section.Custom \in layout.ids
    /\ \/ Ends("payload", {"bad_alloc"})
       \/ Proceed(Linking) /\ wrong' = wrong \cup {"payload"}

UnknownSection == at = Unknown /\ Ends("section", {"string"})

\* One entry is read and the section goes on.
Entry(id) == at = id /\ left > 0 /\ held > 0
TakeEntry ==
    /\ read' = read + 1 /\ left' = left - 1 /\ held' = held - 1
    /\ UNCHANGED <<layout, at, sections, last, result>>

\* Every entry was read.  Imports and data are the sections whose loaders do not verify that
\* nothing is left over; Start has no count.
Unchecked == {Section.Custom, Section.Import, Section.Start, Section.Data}

CloseSection ==
    /\ at \in Ids \ {Unknown, Section.Export, Section.Start}
    /\ left = 0 \/ at = Section.Custom
    /\ IF held > 0 /\ at \notin Unchecked
       THEN Fail("Exception") /\ UNCHANGED wrong
       ELSE /\ at' = Idle
            /\ read' = 0 /\ left' = 0 /\ held' = 0
            /\ UNCHANGED <<layout, sections, last, wrong, functions, table, memory, result>>

\* The payload ends before its count.  A varuint32 read there is 0, or what is there of it,
\* which is all that a function declaration reads; an empty body has no last byte to compare
\* with end; the other loaders come to a read of fixed width, some after verifying an index.
ReadPastEnd ==
    /\ at \in Ids \ {Unknown, Section.Custom, Section.Start}
    /\ left > 0 /\ held = 0
    /\ UNCHANGED wrong
    /\ \/ /\ at = Section.Function
          /\ \E itype \in Numbers :
                /\ itype < cfn_types
                /\ fn_entries' = Append(fn_entries, [itype |-> itype, import |-> FALSE])
          /\ read' = read + 1 /\ left' = left - 1
          /\ UNCHANGED <<layout, at, held, sections, last, cfn_types, cimports,
                         cfn_code, start, table, memory, result>>
       \/ at = Section.Function /\ (\E itype \in Numbers : itype >= cfn_types) /\ Fail("Exception")
       \/ at = Section.Code /\ Fail("wild")
       \/ at \in {Section.Code, Section.Element, Section.Data} /\ Fail("Exception")
       \/ at \notin {Section.Function, Section.Code} /\ Fail("int")

\* A byte with one permitted value has another: the form of a type, the element type of a
\* table, the index of a table or memory, the end of an initialiser, the type of an offset.  An
\* initialiser that is no constant, such as a get_global, is refused in the same way.
LoadMalformed ==
    /\ \E id \in {Section.Type, Section.Table, Section.Global, Section.Element, Section.Data} : Entry(id)
    /\ Ends("malformed", {"Exception"}) \/ (at \notin {Section.Type, Section.Table} /\ Ends("unsupported", {"Exception"}))

-----------------------------------------------------------------------------
(* Functions                                                               *)

LoadFnType ==
    /\ Entry(Section.Type) /\ TakeEntry
    /\ cfn_types' = cfn_types + 1
    /\ UNCHANGED <<wrong, fn_entries, cimports, cfn_code, start, table, memory>>

\* Without the Verify.
Declare_Unchecked(itype, import) ==
    /\ wrong' = wrong \cup Objects("type", itype >= cfn_types)
    /\ TakeEntry
    /\ fn_entries' = Append(fn_entries, [itype |-> itype, import |-> import])
    /\ cimports' = cimports + (IF import THEN 1 ELSE 0)
    /\ UNCHANGED <<cfn_types, cfn_code, start, table, memory>>

\* vector::at in the place of the Verify.
Declare_At(itype, import) ==
    IF itype < cfn_types
    THEN Declare_Unchecked(itype, import)
    ELSE wrong' = wrong \cup {"type"} /\ Fail("out_of_range")

\* Push, then Verify(back() < m_vecfn_types.size()).
Declare(itype, import) ==
    /\ wrong' = wrong \cup Objects("type", itype >= cfn_types)
    /\ IF itype < cfn_types
       THEN /\ TakeEntry
            /\ fn_entries' = Append(fn_entries, [itype |-> itype, import |-> import])
            /\ cimports' = cimports + (IF import THEN 1 ELSE 0)
            /\ UNCHANGED <<cfn_types, cfn_code, start, table, memory>>
       ELSE Fail("Exception")

LoadFnDecl == Entry(Section.Function) /\ \E itype \in Numbers : Declare(itype, FALSE)
LoadImportFn == Entry(Section.Import) /\ \E itype \in Numbers : Declare(itype, TRUE)

\* A table, a memory, a mutable global, or a module that is not env.
LoadImportOther == Entry(Section.Import) /\ Ends("unsupported", {"Exception"})

LoadCode ==
    /\ Entry(Section.Code) /\ TakeEntry
    /\ cfn_code' = cfn_code + 1
    /\ UNCHANGED <<wrong, cfn_types, fn_entries, cimports, start, table, memory>>

\* A body that does not end with end or is longer than the payload, whose locals are longer
\* than itself, or that has no bytes for vecbytecode.back().
LoadBadBody == Entry(Section.Code) /\ Ends("bodies", {"Exception", "int", "wild"})

LoadStart ==
    /\ at = Section.Start
    /\ start' \in Numbers
    /\ at' = Idle /\ read' = 0 /\ left' = 0 /\ held' = 0
    /\ UNCHANGED <<layout, sections, last, wrong, cfn_types, fn_entries, cimports, cfn_code,
                   table, memory, result>>

-----------------------------------------------------------------------------
(* The table                                                               *)

\* The vector gets the maximum size, or without a maximum whatever the limits' memory held.
LoadTable ==
    /\ Entry(Section.Table)
    /\ \E fMaxSet \in BOOLEAN : \E initial, maximum, size \in Numbers :
        /\ fMaxSet => size = maximum
        /\ wrong' = wrong \cup Objects("unsupported", ~fMaxSet)
                          \cup Objects("limits", read > 0 \/ (fMaxSet /\ initial > maximum))
        /\ IF read = 0
           THEN /\ TakeEntry
                /\ table' = [size |-> size, initial |-> initial]
                /\ UNCHANGED <<functions, memory>>
           ELSE Fail("Exception")

ElementFits_Strict(first, n, size) == first + n < size

\* Verify(idxStart + ielem < size), in 32 bits, for every element of the segment.
ElementFits(first, n, size) == \A ielem \in 0 .. n - 1 : (first + ielem) % U32 < size

LoadElement ==
    /\ Entry(Section.Element)
    /\ \E segment \in Segments : \E ifn \in Numbers :
        LET first == segment[1]
            n == segment[2]
        IN  /\ wrong' = wrong \cup Objects("segment", first + n > table.initial)
                              \cup Objects("index", n > 0 /\ ifn >= Len(fn_entries))
            /\ IF ElementFits(first, n, table.size)
               THEN TakeEntry /\ UNCHANGED <<functions, table, memory>>
               ELSE Fail("Exception")

-----------------------------------------------------------------------------
(* Memory                                                                  *)

Declared == IF mem_types = <<>> THEN 0 ELSE mem_types[1] * PageSize

LoadMemory ==
    /\ Entry(Section.Memory) /\ TakeEntry
    /\ \E initial \in Numbers :
        /\ mem_types' = Append(mem_types, initial)
        /\ wrong' = wrong \cup Objects("limits", mem_types # <<>> \/ initial * PageSize >= U32)
    /\ UNCHANGED <<functions, table, exports, cbmem, vecmem, image>>

\* vector::resize: the bytes past the old size are zero, those past the new one are gone.
Resized(n) == [a \in Address |-> IF a < n THEN vecmem[a] ELSE 0]

\* Only an export named "memory" matters to loading, whatever it exports.
LoadExport ==
    /\ Entry(Section.Export) /\ TakeEntry
    /\ \E named, ofMemory \in BOOLEAN : \E index \in Numbers :
        /\ exports' = IF named THEN Append(exports, index) ELSE exports
        /\ wrong' = wrong \cup Objects("unsupported", named /\ ~ofMemory)
                          \cup Objects("name", named /\ exports # <<>>)
                          \cup Objects("index", ofMemory /\ index >= Len(mem_types))
    /\ UNCHANGED <<functions, table, mem_types, cbmem, vecmem, image>>

\* InitializeMemory: an index that is -1 as an int is taken for no export found so far.
OnlyMemory == \A i \in 1 .. Len(exports) - 1 : exports[i] = U32 - 1
MemoryExport == exports[Len(exports)]

\* The end of the export section.
CloseExports ==
    /\ at = Section.Export /\ left = 0
    /\ UNCHANGED wrong
    /\ IF held > 0 \/ ~OnlyMemory \/ (exports # <<>> /\ MemoryExport >= Len(mem_types))
       THEN Fail("Exception")
       ELSE /\ at' = Idle /\ read' = 0 /\ left' = 0 /\ held' = 0
            /\ cbmem' = IF exports = <<>> THEN cbmem
                        ELSE (mem_types[MemoryExport + 1] * PageSize) % U32
            /\ vecmem' = IF exports = <<>> THEN vecmem ELSE Resized(cbmem')
            /\ UNCHANGED <<layout, sections, last, functions, table, mem_types, exports,
                           image, result>>

\* offset + cb is a 32-bit sum.
DataEnd(offset, cb) == (offset + cb) % U32

\* Memory is grown to hold the segment, past what the module declares if need be.
Grown_ToSegment(n) == n
Grown(n) == IF n > cbmem THEN n ELSE cbmem

Write(m, offset, cb, v) ==
    [a \in Address |-> IF offset <= a /\ a < offset + cb THEN v ELSE m[a]]

LoadData ==
    /\ Entry(Section.Data)
    /\ \E segment \in Segments : \E v \in Byte \ {0} :
        LET offset == segment[1]
            cb == segment[2]
            size == Grown(DataEnd(offset, cb))
        IN  /\ wrong' = wrong \cup Objects("segment", offset + cb > Declared)
            /\ IF cb > 0 /\ offset + cb > size
               THEN Fail("wild")
               ELSE /\ TakeEntry
                    /\ cbmem' = size
                    /\ vecmem' = Write(Resized(size), offset, cb, v)
                    /\ image' = Write(image, offset, cb, v)
                    /\ UNCHANGED <<functions, table, mem_types, exports>>

\* An imported global takes a place among the imports.
LoadGlobal_AsImport ==
    /\ Entry(Section.Global) \/ Entry(Section.Import)
    /\ TakeEntry
    /\ cimports' = cimports + (IF at = Section.Import THEN 1 ELSE 0)
    /\ UNCHANGED <<wrong, cfn_types, fn_entries, cfn_code, start, table, memory>>

\* A global variable, or an immutable one that is imported, meets nothing above.
LoadGlobal ==
    /\ Entry(Section.Global) \/ Entry(Section.Import)
    /\ TakeEntry
    /\ UNCHANGED <<wrong, functions, table, memory>>

-----------------------------------------------------------------------------
(* The end of LoadModule                                                   *)

\* The bodies a module needs: one for every function that is not an import.
Defined == Len(fn_entries) - cimports

\* The plane of 128 pages is not to be had, or too small for a slot per function and the
\* globals, which the constructor of JitWriter does not look at; or the stacks and the heap of
\* the start function are not to be had.
NoRoom == at \in {Linking, Starting} /\ Ends("size", {"bad_alloc", "Exception", "wild", "crash"})

\* LinkImports looks every name up, and may not find it.
LinkFails == at = Linking /\ cimports > 0 /\ Ends("unsupported", {"Exception"})

\* ITypeCanonicalFromIType, one type at a time: an equal type that does not come later.  Which
\* one it is depends on the signatures, see FnTypes.  The deliberate error is a scan that begins
\* past the type.
Canonical_PastOne ==
    {canonical \in [0 .. cfn_types - 1 -> 0 .. cfn_types] :
        \A itype \in 0 .. cfn_types - 1 : canonical[itype] <= itype + 1}
Canonical ==
    {canonical \in [0 .. cfn_types - 1 -> 0 .. cfn_types - 1] :
        \A itype \in 0 .. cfn_types - 1 : canonical[itype] <= itype /\ canonical[canonical[itype]] = canonical[itype]}

\* LoadModule makes every type canonical, which verifies it again, and is done if there is no
\* start function.
Link ==
    /\ at = Linking
    /\ wrong' = wrong \cup Objects("bodies", cfn_code # Defined)
    /\ IF \E i \in 1 .. Len(fn_entries) : fn_entries[i].itype >= cfn_types
       THEN Fail("Exception")
       ELSE /\ \E canonical \in Canonical :
                  fn_entries' = [i \in 1 .. Len(fn_entries) |->
                                    [itype |-> canonical[fn_entries[i].itype], import |-> fn_entries[i].import]]
            /\ IF start = -1 THEN at' = Over /\ result' = "loaded" ELSE at' = Starting /\ UNCHANGED result
            /\ UNCHANGED <<layout, read, left, held, sections, last, cfn_types, cimports, cfn_code, start,
                           table, memory>>

-----------------------------------------------------------------------------
(* ExternCallFn(m_ifnStart), the last thing LoadModule does.  A start      *)
(* function may also run for ever: then Starting is the last state.        *)

StartsWithBody == start >= cimports /\ start < Len(fn_entries) /\ start - cimports < cfn_code

\* at() checks the index; CompileFn takes the body for granted; an import has a slot, but there
\* is no code yet to be made executable, and its number is not in rcx (see JitLifecycle).
StartMissing == at = Starting /\ start >= Len(fn_entries) /\ Ends("index", {"out_of_range"})
StartNoBody == at = Starting /\ start < Len(fn_entries) /\ start - cimports >= cfn_code /\ Ends("bodies", {"wild"})
StartImport == at = Starting /\ start < cimports /\ start < Len(fn_entries)
               /\ Ends("unsupported", {"loaded", "Exception", "wild", "crash"})

\* Verify(retV) throws for a trap; a division by zero, and a stack that is exhausted, end the
\* process.
StartTraps == at = Starting /\ StartsWithBody /\ Ends("trap", {"Exception", "crash"})

\* CompileFn meets an opcode that is not implemented, or the end of the plane; GrowMemory comes
\* to 4 GiB.  Below JIT frames, which have no unwind data, a throw may end the process.
StartRefused == at = Starting /\ StartsWithBody /\ Ends("unsupported", {"Exception", "crash"})

\* Nothing validates a body, or a callee's, before it is compiled and run, nor whether it is the
\* body of this function, which it is not if an import follows a declaration.
StartInvalid ==
    at = Starting /\ StartsWithBody /\ Ends("bodies", {"Exception", "int", "out_of_range", "wild", "crash"})

\* ectl.cbHeap on the way in, a 32-bit product.
HeapSize == IF mem_types = <<>> THEN 0 ELSE (mem_types[1] * PageSize) % U32

\* The start function returns and the size of the memory, which may have grown, is written back
\* unless it is 0.  What was stored is in the heap, not in m_vecmem.
StartReturns ==
    /\ at = Starting /\ StartsWithBody
    /\ at' = Over /\ result' = "loaded"
    /\ \E pages \in Address :
          /\ HeapSize <= pages * PageSize /\ pages * PageSize < U32
          /\ mem_types' = IF mem_types = <<>> \/ pages = 0 THEN mem_types ELSE [mem_types EXCEPT ![1] = pages]
    /\ UNCHANGED <<layout, read, left, held, sections, last, wrong, functions, table, exports, cbmem, vecmem,
                   image>>

\* LoadModule is over.
Done == at = Over /\ UNCHANGED vars

Next ==
    \/ \E id \in Ids : \E n, entries \in layout.counts : OpenSection(id, n, entries)
    \/ ReadHeader \/ CutHeader \/ BadHeader \/ ReadFails \/ EndOfFile \/ OutOfMemory
    \/ NameOverruns \/ UnknownSection \/ CloseSection \/ ReadPastEnd \/ LoadMalformed
    \/ LoadFnType \/ LoadFnDecl \/ LoadImportFn \/ LoadImportOther \/ LoadCode \/ LoadBadBody \/ LoadStart
    \/ LoadTable \/ LoadElement \/ LoadMemory \/ LoadExport \/ CloseExports \/ LoadData
    \/ LoadGlobal \/ NoRoom \/ LinkFails \/ Link
    \/ StartMissing \/ StartNoBody \/ StartImport \/ StartTraps \/ StartRefused \/ StartInvalid \/ StartReturns
    \/ Done

Spec == Init /\ [][Next]_vars

-----------------------------------------------------------------------------
(* Properties                                                              *)

TypeOK ==
    /\ layout \in Layouts
    /\ at \in Ids \cup {Heading, Idle, Linking, Starting, Over}
    /\ read \in Nat /\ left \in Nat /\ held \in Nat /\ sections \in Nat /\ last \in Ids
    /\ wrong \subseteq Faults
    /\ cfn_types \in Nat /\ cimports \in Nat /\ cfn_code \in Nat /\ start \in Numbers \cup {-1}
    /\ fn_entries \in Seq([itype : Nat, import : BOOLEAN])
    /\ table \in [size : Address, initial : Address]
    /\ mem_types \in Seq(Nat) /\ exports \in Seq(Nat) /\ cbmem \in Address
    /\ vecmem \in [Address -> Byte] /\ image \in [Address -> Byte]
    /\ result \in Results

\* Whatever the file is, a function's type exists once the function was accepted: CompileFn,
\* ExternCallFn and ITypeCanonicalFromIType index m_vecfn_types with it.
EntriesTyped ==
    \A i \in 1 .. Len(fn_entries) : fn_entries[i].itype < cfn_types

\* If the sections come in order, the imports are the first functions.  CompileFn, CallIfn and
\* the constructor of JitWriter tell an import by its index being below m_vecimports.size(),
\* and find the body of another function by subtracting it; nothing checks the order.
IndexSpace ==
    "order" \notin wrong => \A i \in 1 .. Len(fn_entries) : fn_entries[i].import <=> i <= cimports

\* If the sections come in order and the segments fit, the memory the first call copies is
\* what the data segments say, later ones over earlier ones, inside the memory the module
\* declares and zero everywhere else, which is what LinearMemory assumes of it.
DataKept ==
    wrong \cap {"order", "segment", "limits"} = {} =>
        /\ vecmem = image
        /\ \A a \in Address : image[a] # 0 => a < cbmem /\ a < Declared

\* A valid module that uses only what the loader and the compiler support, and whose start
\* function does not trap, is loaded: no check refuses what WebAssembly permits.
ValidLoads == wrong = {} => result \in {"loading", "loaded"}

\* A wrong magic number or version, sections out of order, a file that ends inside a section
\* but has as many bodies as functions, bytes that must have one value and have another, types
\* out of range and names used twice: these are refused, if they are, with the Exception that
\* the test host's `catch (Exception)' handles.  Every other fault can end the process: a file
\* that ends inside its header throws an int, a start function that divides by zero is no trap.
Refusable == {"magic", "order", "truncated", "malformed", "type", "name"}
RefusesWithException ==
    wrong \subseteq Refusable => result \in {"loading", "loaded", "Exception"}

\* What the properties above rest on.
Counted == Ids \ {Section.Custom, Section.Start}

InOrder ==
    "order" \notin wrong =>
        /\ at > 0 => last = at
        /\ cimports <= Len(fn_entries)
        /\ last < Section.Function => Len(fn_entries) = cimports
        /\ last < Section.Data => \A a \in Address : image[a] = 0

Accepted ==
    /\ "payload" \notin wrong /\ at \in Counted => left = held
    /\ "name" \notin wrong => Len(exports) <= 1
    /\ wrong \cap {"index", "unsupported"} = {} =>
           \A i \in 1 .. Len(exports) : exports[i] < Len(mem_types)
    /\ wrong \cap {"limits", "unsupported"} = {} => table.initial <= table.size
    /\ "limits" \notin wrong => Declared < U32

Inductive ==
    /\ TypeOK /\ EntriesTyped /\ IndexSpace /\ DataKept /\ ValidLoads /\ RefusesWithException
    /\ InOrder /\ Accepted
=============================================================================
