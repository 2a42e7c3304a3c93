------------------------ MODULE JitLifecycle_proofs ------------------------
(***************************************************************************)
(* Proofs about JitLifecycle, for every function space, call graph, table, *)
(* plane size and stack depth.                                             *)
(***************************************************************************)
EXTENDS JitLifecycle, TLAPS, SequenceTheorems

\* Appending keeps the old elements in place and adds one.
LEMMA AppendFacts ==
  ASSUME NEW S, NEW s \in Seq(S), NEW e \in S
  PROVE  /\ Append(s, e) \in Seq(S)
         /\ Len(Append(s, e)) = Len(s) + 1
         /\ \A i \in 1 .. Len(s) : Append(s, e)[i] = s[i]
         /\ Append(s, e)[Len(s) + 1] = e
  OBVIOUS

\* A one-element sequence.
LEMMA SingletonFacts ==
  ASSUME NEW S, NEW e \in S
  PROVE  <<e>> \in Seq(S) /\ Len(<<e>>) = 1 /\ <<e>>[1] = e
  OBVIOUS

\* Front drops the last element and keeps the others in place.
LEMMA FrontFacts ==
  ASSUME NEW S, NEW s \in Seq(S)
  PROVE  /\ Front(s) \in Seq(S)
         /\ s # <<>> => Len(Front(s)) = Len(s) - 1
         /\ \A i \in 1 .. Len(s) - 1 : Front(s)[i] = s[i]
<1>1. Len(s) \in Nat /\ \A i \in 1 .. Len(s) - 1 : s[i] \in S
  BY ElementOfSeq
<1>2. /\ SubSeq(s, 1, Len(s) - 1) \in Seq(S)
      /\ Len(SubSeq(s, 1, Len(s) - 1)) = IF 1 <= Len(s) - 1 THEN Len(s) - 1 ELSE 0
      /\ \A i \in 1 .. Len(s) - 1 : SubSeq(s, 1, Len(s) - 1)[i] = s[i]
  BY <1>1, SubSeqProperties
<1>3. s # <<>> => Len(s) >= 1
  BY EmptySeq
<1>4. Front(s) = SubSeq(s, 1, Len(s) - 1)
  BY DEF Front
<1>5. Len(s) >= 1 => (IF 1 <= Len(s) - 1 THEN Len(s) - 1 ELSE 0) = Len(s) - 1
  <2> DEFINE n == Len(s)
  <2>1. n \in Nat
    BY <1>1
  <2> HIDE DEF n
  <2>2. n >= 1 => (IF 1 <= n - 1 THEN n - 1 ELSE 0) = n - 1
    BY <2>1
  <2> QED  BY <2>2 DEF n
<1>6. Front(s) \in Seq(S)
  BY <1>2, <1>4, Zenon
<1>7. s # <<>> => Len(Front(s)) = Len(s) - 1
  BY <1>2, <1>3, <1>4, <1>5, Zenon
<1>8. \A i \in 1 .. Len(s) - 1 : Front(s)[i] = s[i]
  BY <1>2, <1>4, Zenon
<1> QED  BY <1>6, <1>7, <1>8

\* The last element of a non-empty sequence, and its replacement.
LEMMA LastFacts ==
  ASSUME NEW S, NEW s \in Seq(S), s # <<>>
  PROVE  /\ Len(s) \in 1 .. Len(s)
         /\ Last(s) = s[Len(s)]
         /\ Last(s) \in S
         /\ \A e \in S : /\ [s EXCEPT ![Len(s)] = e] \in Seq(S)
                         /\ Len([s EXCEPT ![Len(s)] = e]) = Len(s)
                         /\ \A i \in 1 .. Len(s) :
                              [s EXCEPT ![Len(s)] = e][i] = IF i = Len(s) THEN e ELSE s[i]
<1>1. Len(s) \in 1 .. Len(s)
  BY EmptySeq
<1>2. s[Len(s)] \in S
  BY <1>1, ElementOfSeq
<1>3. ASSUME NEW e \in S
      PROVE  /\ [s EXCEPT ![Len(s)] = e] \in Seq(S)
             /\ Len([s EXCEPT ![Len(s)] = e]) = Len(s)
             /\ \A i \in 1 .. Len(s) :
                  [s EXCEPT ![Len(s)] = e][i] = IF i = Len(s) THEN e ELSE s[i]
  BY <1>1, ExceptSeq
<1> QED  BY <1>1, <1>2, <1>3 DEF Last

-----------------------------------------------------------------------------
(* Type correctness                                                        *)

\* The innermost CompileFn frame, and what its loop bodies make of it, are frames.
LEMMA FrameTypes ==
  ASSUME TypeOK, comp # <<>>
  PROVE  /\ Last(comp) \in CompFrame
         /\ Advance(Last(comp)) \in CompFrame
         /\ NextCallee(Last(comp)) \in CompFrame
         /\ \A g \in Internal : NewFrame(g) \in CompFrame
<1> DEFINE c == Last(comp)
<1>1. c \in CompFrame
  BY LastFacts DEF TypeOK
<1> HIDE DEF c
<1>2. Advance(c) \in CompFrame
  <2>1. CASE AtOp(c, "call")
    <3>1. Body[c.fn][c.unit].arg \in Fn
      BY <1>1, <2>1, ConstantsAssumption DEF AtOp, CompFrame
    <3>2. Append(c.callees, Body[c.fn][c.unit].arg) \in Seq(Fn)
      BY <1>1, <3>1, AppendFacts DEF CompFrame
    <3> QED  BY <1>1, <2>1, <3>2 DEF Advance, CompFrame
  <2>2. CASE ~AtOp(c, "call")
    BY <1>1, <2>2 DEF Advance, CompFrame
  <2> QED  BY <2>1, <2>2
<1>3. NextCallee(c) \in CompFrame
  BY <1>1 DEF NextCallee, CompFrame
<1>4. ASSUME NEW g \in Internal
      PROVE  NewFrame(g) \in CompFrame
  <2>1. <<>> \in Seq(Fn)
    BY EmptySeq
  <2> QED  BY <2>1 DEF NewFrame, CompFrame
<1> QED  BY <1>1, <1>2, <1>3, <1>4 DEF c

LEMMA InitTypeOK == Init => TypeOK
<1> SUFFICES ASSUME Init PROVE TypeOK
  OBVIOUS
<1>1. <<>> \in Seq(CompFrame) /\ <<>> \in Seq(Fn)
  BY EmptySeq
<1>2. plane \in [1 .. PlaneSize -> [fn : 0 .. NFns, unit : Nat]]
  BY ConstantsAssumption DEF Init, Hlt, Unit, NoFn
<1>3. slot \in [Fn -> 0 .. PlaneSize + 1]
  BY ConstantsAssumption DEF Init, WasmToC, Null
<1>4. cur \in 1 .. PlaneSize + 1 /\ NFns \in 0 .. NFns
  BY ConstantsAssumption DEF Init
<1> QED  BY <1>1, <1>2, <1>3, <1>4 DEF Init, TypeOK, Modes, NoFn

LEMMA NextTypeOK == TypeOK /\ [Next]_vars => TypeOK'
<1> SUFFICES ASSUME TypeOK, [Next]_vars PROVE TypeOK'
  OBVIOUS
<1> USE ConstantsAssumption
<1>a. /\ <<>> \in Seq(CompFrame) /\ <<>> \in Seq(Fn)
      /\ Internal \subseteq Fn /\ Fn \subseteq 0 .. NFns /\ NoFn \in 0 .. NFns /\ NoFn \notin Fn
      /\ \A g \in Fn : g \notin Internal => IsImport(g)
  BY EmptySeq DEF Fn, Internal, NoFn, IsImport
<1>b. \A kind : AfterFailure(kind) \in {"host", "over"}
  BY DEF AfterFailure
<1>c. ASSUME NEW g \in Internal, NEW frames \in Seq(CompFrame), StartCompile(g, frames)
      PROVE  /\ comp' \in Seq(CompFrame)
             /\ slot' \in [Fn -> 0 .. PlaneSize + 1]
             /\ \A f \in Fn : IsImport(f) => slot'[f] = WasmToC
  <2>1. NewFrame(g) \in CompFrame
    BY EmptySeq DEF NewFrame, CompFrame
  <2>2. comp' \in Seq(CompFrame)
    BY <1>c, <2>1, AppendFacts DEF StartCompile
  <2>3. cur \in 0 .. PlaneSize + 1
    BY DEF TypeOK
  <2> QED  BY <1>a, <1>c, <2>2, <2>3 DEF StartCompile, TypeOK, Internal
<1>d. ASSUME Throw PROVE TypeOK'
  BY <1>a, <1>b, <1>d DEF Throw, TypeOK, Modes
<1>e. ASSUME mode = "run", Leave PROVE TypeOK'
  <2>1. stack' \in Seq(Fn)
    BY <1>e, FrontFacts DEF Leave, TypeOK
  <2> QED  BY <1>e, <2>1 DEF Leave, TypeOK, Modes, UnprotectRuntime
<1>f. ASSUME mode = "run", Trap PROVE TypeOK'
  BY <1>a, <1>b, <1>f DEF Trap, TypeOK, Modes, UnprotectRuntime
<1>g. ASSUME NEW g \in Fn, slot[g] = Null PROVE g \in Internal
  BY <1>a, <1>g DEF TypeOK, Null, WasmToC
<1>h. ASSUME NEW g \in Fn, Push(g) PROVE stack' \in Seq(Fn)
  BY <1>h, AppendFacts DEF Push, TypeOK
<1>1. ASSUME NEW f \in Exports, HostCall(f) PROVE TypeOK'
  <2>1. f \in Internal
    BY <1>1, <1>g DEF HostCall
  <2>2. CASE tableProt = "RW"
    <3>1. StartCompile(f, <<>>)
      BY <1>1, <2>2 DEF HostCall
    <3> QED  BY <1>1, <1>a, <1>c, <2>1, <2>2, <3>1 DEF HostCall, TypeOK, Modes
  <2>3. CASE tableProt # "RW"
    BY <1>1, <2>1, <2>3, <1>a DEF HostCall, TypeOK, Modes
  <2> QED  BY <2>2, <2>3
<1>2. ASSUME NEW f \in Exports, HostEnter(f) PROVE TypeOK'
  <2>1. stack' \in Seq(Fn)
    <3>1. f \in Fn
      BY <1>2
    <3>2. stack' = <<f>> \/ stack' = stack
      BY <1>2 DEF HostEnter
    <3>3. stack \in Seq(Fn)
      BY DEF TypeOK
    <3>4. <<f>> \in Seq(Fn)
      BY <3>1, SingletonFacts
    <3> QED  BY <3>2, <3>3, <3>4
  <2> QED  BY <1>2, <1>a, <1>b, <2>1
           DEF HostEnter, TypeOK, Modes, ProtectForRuntime, ProtectFails
<1>3. ASSUME Emit PROVE TypeOK'
  <2> DEFINE c == Last(comp)
  <2>1. c \in CompFrame /\ Advance(c) \in CompFrame
    BY <1>3, FrameTypes DEF Emit
  <2>2. CASE codeProt = "RW"
    <3>1. comp' \in Seq(CompFrame)
      <4>1. comp' = [comp EXCEPT ![Len(comp)] = Advance(c)] /\ comp # <<>>
        BY <1>3, <2>2 DEF Emit
      <4>2. comp \in Seq(CompFrame)
        BY DEF TypeOK
      <4> HIDE DEF c
      <4> QED  BY <2>1, <4>1, <4>2, LastFacts
    <3>2. Unit(c.fn, c.unit) \in [fn : 0 .. NFns, unit : Nat]
      BY <1>a, <2>1 DEF Unit, CompFrame
    <3>3. cur \in 1 .. PlaneSize
      BY <1>3 DEF Emit, Room, TypeOK
    <3>4. plane' \in [1 .. PlaneSize -> [fn : 0 .. NFns, unit : Nat]] /\ cur' \in 1 .. PlaneSize + 1
      <4>1. plane' = [plane EXCEPT ![cur] = Unit(c.fn, c.unit)] /\ cur' = cur + 1
        BY <1>3, <2>2 DEF Emit
      <4>2. plane \in [1 .. PlaneSize -> [fn : 0 .. NFns, unit : Nat]]
        BY DEF TypeOK
      <4> QED  BY <3>2, <3>3, <4>1, <4>2
    <3> QED  BY <1>3, <2>2, <3>1, <3>4 DEF Emit, TypeOK
  <2>3. CASE codeProt # "RW"
    BY <1>3, <1>a, <2>3 DEF Emit, Fault, TypeOK, Modes
  <2> QED  BY <2>2, <2>3
<1>4. ASSUME EmitThrows PROVE TypeOK'
  BY <1>4, <1>d DEF EmitThrows
<1>5. ASSUME Link PROVE TypeOK'
  <2> DEFINE c == Last(comp)
             g == c.callees[c.k]
             rest == [comp EXCEPT ![Len(comp)] = NextCallee(c)]
  <2>1. c \in CompFrame /\ rest \in Seq(CompFrame)
    BY <1>5, FrameTypes, LastFacts DEF Link, TypeOK
  <2>2. g \in Fn
    BY <1>5, <2>1, ElementOfSeq DEF Link, CompFrame
  <2>3. CASE ~NeedsCompile(g)
    BY <1>5, <2>1, <2>3 DEF Link, TypeOK
  <2>4. CASE NeedsCompile(g) /\ tableProt = "RW"
    <3>1. g \in Internal
      BY <1>g, <2>2, <2>4 DEF NeedsCompile
    <3>2. StartCompile(g, rest)
      BY <1>5, <2>4 DEF Link
    <3> HIDE DEF rest, g
    <3>3. /\ comp' \in Seq(CompFrame)
          /\ slot' \in [Fn -> 0 .. PlaneSize + 1]
          /\ \A f \in Fn : IsImport(f) => slot'[f] = WasmToC
      BY <1>c, <2>1, <3>1, <3>2
    <3>4. UNCHANGED mode
      BY <1>5, <2>4 DEF Link, g
    <3> QED  BY <1>5, <3>3, <3>4 DEF Link, TypeOK
  <2>5. CASE NeedsCompile(g) /\ tableProt # "RW"
    BY <1>5, <1>a, <2>5 DEF Link, TypeOK, Modes
  <2> QED  BY <2>3, <2>4, <2>5
<1>6. ASSUME CompileReturn PROVE TypeOK'
  <2>1. comp' \in Seq(CompFrame)
    BY <1>6, FrontFacts DEF CompileReturn, TypeOK
  <2> QED  BY <1>6, <2>1 DEF CompileReturn, TypeOK
<1>7. ASSUME EnterCompiled PROVE TypeOK'
  <2>1. stack' \in Seq(Fn)
    BY <1>7, <1>a, AppendFacts DEF EnterCompiled, TypeOK
  <2> QED  BY <1>7, <1>a, <2>1 DEF EnterCompiled, TypeOK, Modes, ProtectForRuntime
<1>8. ASSUME NEW f \in Internal, NEW i \in 1 .. Len(Body[f]), CallDirect(f, i) PROVE TypeOK'
  <2> DEFINE g == Body[f][i].arg
  <2>1. g \in Fn
    BY <1>8 DEF CallDirect
  <2>2. stack' \in Seq(Fn)
    BY <1>8, <1>h, <2>1 DEF CallDirect
  <2>3. EcxForCall(g) \in 0 .. NFns
    BY <1>a, <2>1 DEF EcxForCall
  <2> QED  BY <1>8, <2>2, <2>3 DEF CallDirect, Executes, InCode, TypeOK, Modes
<1>9. ASSUME NEW f \in Internal, NEW i \in 1 .. Len(Body[f]), NEW idx \in 0 .. Len(Table),
             CallIndirectJumps(f, i, idx)
      PROVE TypeOK'
  <2>1. PICK g \in Fn : Push(g) /\ ecx' = g
    BY <1>9 DEF CallIndirectJumps
  <2>2. stack' \in Seq(Fn)
    BY <1>h, <2>1
  <2> QED  BY <1>9, <1>a, <2>1, <2>2 DEF CallIndirectJumps, TypeOK
<1>10. ASSUME NEW f \in Internal, NEW i \in 1 .. Len(Body[f]), NEW idx \in 0 .. Len(Table),
              CallIndirectCompiles(f, i, idx)
       PROVE TypeOK'
  <2>1. PICK g \in Fn : /\ slot[g] = Null /\ UnprotectRuntime /\ mode' = "compile"
                        /\ want' = g /\ StartCompile(g, <<>>)
    BY <1>10 DEF CallIndirectCompiles
  <2>2. g \in Internal
    BY <1>g, <2>1
  <2>3. /\ comp' \in Seq(CompFrame)
        /\ slot' \in [Fn -> 0 .. PlaneSize + 1]
        /\ \A h \in Fn : IsImport(h) => slot'[h] = WasmToC
    BY <1>a, <1>c, <2>1, <2>2
  <2> QED  BY <1>10, <2>1, <2>2, <2>3 DEF CallIndirectCompiles, UnprotectRuntime, TypeOK, Modes
<1>11. ASSUME NEW f \in Internal, NEW i \in 1 .. Len(Body[f]),
              \/ HelperThrows(f, i)
              \/ Unreachable(f, i)
              \/ \E idx \in 0 .. Len(Table) : CallIndirectTraps(f, i, idx)
       PROVE TypeOK'
  <2>1. CASE HelperThrows(f, i)
    BY <1>d, <2>1 DEF HelperThrows
  <2>2. CASE Unreachable(f, i)
    BY <1>a, <2>2 DEF Unreachable, Executes, InCode, TypeOK, Modes
  <2>3. CASE \E idx \in 0 .. Len(Table) : CallIndirectTraps(f, i, idx)
    BY <1>f, <2>3 DEF CallIndirectTraps, Executes, InCode
  <2> QED  BY <1>11, <2>1, <2>2, <2>3
<1>12. ASSUME NEW f \in Internal, Return(f) \/ RunsOff(f) PROVE TypeOK'
  <2>1. CASE Return(f)
    BY <1>e, <2>1 DEF Return, InCode
  <2>2. CASE RunsOff(f)
    BY <2>2 DEF RunsOff, InCode, TypeOK, Modes
  <2> QED  BY <1>12, <2>1, <2>2
<1>13. ASSUME ImportReturns \/ ImportThrows PROVE TypeOK'
  <2>1. CASE ImportReturns
    BY <1>e, <2>1 DEF ImportReturns
  <2>2. CASE ImportThrows
    BY <1>d, <2>2 DEF ImportThrows
  <2> QED  BY <1>13, <2>1, <2>2
<1>14. ASSUME Done \/ UNCHANGED vars PROVE TypeOK'
  BY <1>14 DEF Done, vars, TypeOK
<1> QED  BY <1>1, <1>2, <1>3, <1>4, <1>5, <1>6, <1>7, <1>8, <1>9, <1>10, <1>11, <1>12, <1>13, <1>14
         DEF Next, CompileStep, RunStep

\* Every reachable state is well typed, for every module and every plane size: in particular
\* the cursor stays within the plane and the import slots keep their thunk.
THEOREM TypeCorrect == Spec => []TypeOK
<1>1. Init => TypeOK
  BY InitTypeOK
<1>2. TypeOK /\ [Next]_vars => TypeOK'
  BY NextTypeOK
<1> QED  BY <1>1, <1>2, PTL DEF Spec

-----------------------------------------------------------------------------
(* The inductive invariant                                                 *)

\* What has been emitted stays: the only cell a step writes is the one at the cursor, which
\* still holds its hlt.
LEMMA EmittedKept ==
  ASSUME TypeOK, FreshInv, NEW f \in Internal, NEW u \in Nat, Emitted(f, u), slot'[f] = slot[f],
         \/ plane' = plane
         \/ \E x : plane' = [plane EXCEPT ![cur] = x]
  PROVE  Emitted(f, u)'
<1> USE ConstantsAssumption
<1>1. slot[f] + u \in 1 .. PlaneSize /\ plane[slot[f] + u] = Unit(f, u)
  BY DEF Emitted
<1>2. Unit(f, u) # Hlt
  BY DEF Unit, Hlt, NoFn, Internal, Fn
<1>3. slot[f] + u # cur
  BY <1>1, <1>2 DEF FreshInv, TypeOK
<1>4. plane'[slot[f] + u] = plane[slot[f] + u]
  BY <1>1, <1>3 DEF TypeOK
<1> QED  BY <1>1, <1>4 DEF Emitted

\* So do whole prefixes and whole functions.
LEMMA CodeKept ==
  ASSUME TypeOK, FreshInv, NEW f \in Internal, slot'[f] = slot[f],
         \/ plane' = plane
         \/ \E x : plane' = [plane EXCEPT ![cur] = x]
  PROVE  /\ \A u \in Nat : EmittedUpTo(f, u) => EmittedUpTo(f, u)'
         /\ Complete(f) => Complete(f)'
<1>1. \A u \in Nat : Emitted(f, u) => Emitted(f, u)'
  BY EmittedKept
<1>2. ASSUME NEW u \in Nat, EmittedUpTo(f, u) PROVE EmittedUpTo(f, u)'
  <2>1. \A v \in 0 .. u - 1 : v \in Nat
    BY <1>2
  <2> QED  BY <1>1, <1>2, <2>1 DEF EmittedUpTo
<1>3. ASSUME Complete(f) PROVE Complete(f)'
  <2>1. Epilogue(f) \in Nat
    BY ConstantsAssumption, LenProperties DEF Epilogue
  <2>2. \A v \in 0 .. Epilogue(f) : v \in Nat
    BY <2>1
  <2> QED  BY <1>1, <1>3, <2>2 DEF Complete, Epilogue
<1> QED  BY <1>2, <1>3

\* A frame that is linking stays as it is while another one starts or emits.
LEMMA LinkingKept ==
  ASSUME TypeOK, FreshInv, NEW c \in CompFrame, NEW top, NEW top2,
         FrameGood(c, top), c.unit > Epilogue(c.fn), slot'[c.fn] = slot[c.fn],
         \/ plane' = plane
         \/ \E x : plane' = [plane EXCEPT ![cur] = x]
  PROVE  FrameGood(c, top2)'
<1>1. c.fn \in Internal /\ c.unit \in Nat
  BY DEF CompFrame
<1>2. Epilogue(c.fn) \in Nat
  BY <1>1, ConstantsAssumption, LenProperties DEF Epilogue
<1>3. EmittedUpTo(c.fn, c.unit)'
  BY <1>1, CodeKept DEF FrameGood
<1>4. ~(c.unit <= Epilogue(c.fn))
  BY <1>1, <1>2
<1> QED  BY <1>3, <1>4 DEF FrameGood, Epilogue

\* ClosureOK, but for the calls of g.
ClosureBut(frames, g) ==
    \A f \in Internal :
        slot[f] # Null =>
            /\ Complete(f) \/ OnStack(frames, f)
            /\ \A i \in 1 .. Len(Body[f]) :
                  Body[f][i].kind = "call" =>
                      \/ slot[Body[f][i].arg] # Null \/ Body[f][i].arg = g
                      \/ Pending(frames, f, i, Body[f][i].arg)

\* Publishing g and pushing its frame on frames that are all linking.
LEMMA StartKeeps ==
  ASSUME TypeOK, NEW frames \in Seq(CompFrame), NEW g \in Internal, slot[g] = Null,
         FrameOK(frames), \A j \in 1 .. Len(frames) : frames[j].unit > Epilogue(frames[j].fn),
         FreshInv, ClosureBut(frames, g), SlotInv,
         StartCompile(g, frames), UNCHANGED <<plane, cur>>
  PROVE  /\ (FrameOK(comp) /\ FreshInv /\ ClosureOK(comp))'
         /\ \A f \in Fn : slot[f] # Null => slot'[f] = slot[f]
         /\ slot'[g] # Null
<1> USE ConstantsAssumption
<1>1. NewFrame(g) \in CompFrame
  BY EmptySeq DEF NewFrame, CompFrame
<1>2. /\ comp' \in Seq(CompFrame) /\ Len(comp') = Len(frames) + 1
      /\ \A j \in 1 .. Len(frames) : comp'[j] = frames[j]
      /\ comp'[Len(frames) + 1] = NewFrame(g)
      /\ Len(frames) \in Nat
  BY <1>1, AppendFacts, LenProperties DEF StartCompile
<1>3. /\ slot'[g] = cur /\ cur # Null
      /\ \A f \in Fn : f # g => slot'[f] = slot[f]
      /\ Internal \subseteq Fn
  BY DEF StartCompile, TypeOK, Null, Internal
<1>4. \A f \in Fn : slot[f] # Null => slot'[f] = slot[f]
  BY <1>3
<1>5. FreshInv'
  BY DEF FreshInv
<1>6. FrameOK(comp)'
  <2> SUFFICES ASSUME NEW j \in 1 .. Len(comp')
               PROVE  FrameGood(comp[j], j = Len(comp))'
    BY DEF FrameOK
  <2>1. CASE j \in 1 .. Len(frames)
    <3>1. PICK c \in CompFrame : c = frames[j] /\ comp'[j] = c
      BY <1>2, <2>1, ElementOfSeq
    <3>2. FrameGood(c, j = Len(frames)) /\ c.unit > Epilogue(c.fn)
      BY <2>1, <3>1 DEF FrameOK
    <3>3. slot'[c.fn] = slot[c.fn]
      BY <1>3, <1>4, <3>2 DEF FrameGood, EmittedUpTo, CompFrame
    <3>4. \A top2 : FrameGood(c, top2)'
      BY <3>2, <3>3, LinkingKept
    <3> QED  BY <3>1, <3>4 DEF FrameGood
  <2>2. CASE j = Len(frames) + 1
    <3>1. comp'[j] = NewFrame(g) /\ j = Len(comp')
      BY <1>2, <2>2
    <3>2. Epilogue(g) \in Nat
      BY LenProperties DEF Epilogue
    <3>3. EmittedUpTo(g, 0)'
      BY <1>3 DEF EmittedUpTo
    <3>4. cur \in Nat /\ cur' = cur /\ Len(<<>>) = 0
      BY EmptySeq DEF TypeOK
    <3>5. FrameGood(NewFrame(g), TRUE)'
      BY <1>3, <3>2, <3>3, <3>4 DEF NewFrame, FrameGood, Epilogue
    <3> QED  BY <3>1, <3>5
  <2> QED  BY <1>2, <2>1, <2>2
<1>7. \A f \in Fn : OnStack(frames, f) => OnStack(comp', f)
  BY <1>2 DEF OnStack
<1>8. \A f, i, h : Pending(frames, f, i, h) => Pending(comp', f, i, h)
  BY <1>2 DEF Pending
<1>9. ClosureOK(comp)'
  <2> SUFFICES ASSUME NEW f \in Internal, slot'[f] # Null
               PROVE  /\ Complete(f)' \/ OnStack(comp', f)
                      /\ \A i \in 1 .. Len(Body[f]) :
                            Body[f][i].kind = "call" =>
                                slot'[Body[f][i].arg] # Null \/ Pending(comp', f, i, Body[f][i].arg)
    BY DEF ClosureOK, OnStack, Pending
  <2>1. CASE f = g
    <3>1. comp'[Len(frames) + 1].fn = g /\ comp'[Len(frames) + 1].unit = 0
      BY <1>2 DEF NewFrame
    <3>2. Len(frames) + 1 \in 1 .. Len(comp')
      BY <1>2
    <3>3. \A i \in 1 .. Len(Body[f]) : 0 <= i
      OBVIOUS
    <3>4. OnStack(comp', f)
      BY <2>1, <3>1, <3>2 DEF OnStack
    <3>5. \A i \in 1 .. Len(Body[f]) : Pending(comp', f, i, Body[f][i].arg)
      BY <2>1, <3>1, <3>2, <3>3 DEF Pending
    <3> QED  BY <3>4, <3>5
  <2>2. CASE f # g
    <3>1. slot'[f] = slot[f] /\ slot[f] # Null
      BY <1>3, <2>2
    <3>2. Complete(f) => Complete(f)'
      BY <3>1, CodeKept
    <3>3. \A i \in 1 .. Len(Body[f]) : Body[f][i].kind = "call" => Body[f][i].arg \in Fn
      OBVIOUS
    <3> QED  BY <1>3, <1>4, <1>7, <1>8, <3>1, <3>2, <3>3 DEF ClosureBut
  <2> QED  BY <2>1, <2>2
<1> QED  BY <1>3, <1>4, <1>5, <1>6, <1>9

\* One unit of the innermost function.
LEMMA EmitKeeps ==
  ASSUME TypeOK, FrameOK(comp), FreshInv, ClosureOK(comp), Emit, codeProt = "RW"
  PROVE  (FrameOK(comp) /\ FreshInv /\ ClosureOK(comp))'
<1> USE ConstantsAssumption
<1> DEFINE n == Len(comp)
<1>1. PICK c \in CompFrame : /\ c = Last(comp) /\ c = comp[n] /\ n \in 1 .. n
                             /\ Advance(c) \in CompFrame
  BY FrameTypes, LastFacts DEF Emit, TypeOK
<1>2. /\ c.unit <= Epilogue(c.fn) /\ Room
      /\ plane' = [plane EXCEPT ![cur] = Unit(c.fn, c.unit)]
      /\ cur' = cur + 1 /\ slot' = slot
      /\ comp' = [comp EXCEPT ![n] = Advance(c)]
  BY <1>1 DEF Emit
<1>3. /\ comp' \in Seq(CompFrame) /\ Len(comp') = n
      /\ \A j \in 1 .. n : comp'[j] = IF j = n THEN Advance(c) ELSE comp[j]
  BY <1>1, <1>2, LastFacts DEF Emit, TypeOK
<1>4. cur \in 1 .. PlaneSize
  BY <1>2 DEF Room, TypeOK
<1>5. c.fn \in Internal /\ c.unit \in Nat /\ Epilogue(c.fn) \in Nat
  BY <1>1, LenProperties DEF CompFrame, Epilogue
<1>6. \A f \in Internal : slot'[f] = slot[f]
  BY <1>2
<1>7. \E x : plane' = [plane EXCEPT ![cur] = x]
  BY <1>2
<1>8. /\ EmittedUpTo(c.fn, c.unit) /\ c.k <= Len(c.callees) + 1
      /\ slot[c.fn] + c.unit = cur
      /\ \A j \in 1 .. n : j # n => FrameGood(comp[j], FALSE) /\ comp[j].unit > Epilogue(comp[j].fn)
  <2>1. FrameGood(c, n = n)
    BY <1>1 DEF FrameOK
  <2>2. ASSUME NEW j \in 1 .. n, j # n
        PROVE  FrameGood(comp[j], FALSE) /\ comp[j].unit > Epilogue(comp[j].fn)
    <3>1. FrameGood(comp[j], FALSE)
      BY <2>2 DEF FrameOK
    <3>2. comp[j] \in CompFrame
      BY ElementOfSeq DEF TypeOK
    <3>3. comp[j].unit \in Nat /\ Epilogue(comp[j].fn) \in Nat
      BY <3>2, LenProperties DEF CompFrame, Epilogue
    <3> QED  BY <3>1, <3>3 DEF FrameGood
  <2> QED  BY <1>2, <2>1, <2>2 DEF FrameGood
<1>9. FreshInv'
  <2> SUFFICES ASSUME NEW a \in 1 .. PlaneSize, a >= cur + 1 PROVE plane'[a] = Hlt
    BY <1>2 DEF FreshInv
  <2>1. a # cur /\ a >= cur
    BY <1>4
  <2>2. plane'[a] = plane[a]
    BY <1>2, <2>1 DEF TypeOK
  <2> QED  BY <2>1, <2>2 DEF FreshInv
<1>10. FrameOK(comp)'
  <2> SUFFICES ASSUME NEW j \in 1 .. n
               PROVE  FrameGood(comp[j], j = Len(comp))'
    BY <1>3 DEF FrameOK
  <2>1. CASE j # n
    <3>1. PICK d \in CompFrame : d = comp[j] /\ comp'[j] = d
      BY <1>3, <2>1, ElementOfSeq DEF TypeOK
    <3>2. FrameGood(d, FALSE) /\ d.unit > Epilogue(d.fn)
      BY <1>8, <2>1, <3>1
    <3>3. slot'[d.fn] = slot[d.fn]
      BY <1>2
    <3>4. \A top2 : FrameGood(d, top2)'
      BY <1>7, <3>2, <3>3, LinkingKept
    <3> QED  BY <3>1, <3>4
  <2>2. CASE j = n
    <3>1. PICK d \in CompFrame : d = Advance(c) /\ comp'[j] = d
      BY <1>1, <1>3, <2>2
    <3>2. d.fn = c.fn /\ d.unit = c.unit + 1 /\ d.k = c.k
      BY <3>1 DEF Advance
    <3>3. Len(c.callees) \in Nat /\ Len(d.callees) >= Len(c.callees) /\ Len(d.callees) \in Nat
      <4>1. CASE AtOp(c, "call")
        <5>1. Body[c.fn][c.unit].arg \in Fn
          BY <1>5, <4>1 DEF AtOp
        <5> QED  BY <1>1, <3>1, <4>1, <5>1, AppendFacts, LenProperties DEF Advance, CompFrame
      <4>2. CASE ~AtOp(c, "call")
        BY <1>1, <3>1, <4>2, LenProperties DEF Advance, CompFrame
      <4> QED  BY <4>1, <4>2
    <3>4. EmittedUpTo(c.fn, c.unit + 1)'
      <4>1. EmittedUpTo(c.fn, c.unit)'
        BY <1>5, <1>6, <1>7, <1>8, CodeKept
      <4>2. Emitted(c.fn, c.unit)'
        <5>1. slot'[c.fn] + c.unit = cur /\ slot'[c.fn] + c.unit \in 1 .. PlaneSize
          BY <1>4, <1>5, <1>6, <1>8
        <5>2. plane'[cur] = Unit(c.fn, c.unit)
          BY <1>2, <1>4 DEF TypeOK
        <5> QED  BY <5>1, <5>2 DEF Emitted, Unit
      <4>3. \A v \in 0 .. (c.unit + 1) - 1 : v \in 0 .. c.unit - 1 \/ v = c.unit
        BY <1>5
      <4> QED  BY <4>1, <4>2, <4>3 DEF EmittedUpTo
    <3>5. slot'[c.fn] + (c.unit + 1) = cur'
      <4>1. slot[c.fn] \in Int /\ cur \in Int
        BY <1>4, <1>5 DEF TypeOK, Internal
      <4>2. slot'[c.fn] = slot[c.fn] /\ cur' = cur + 1 /\ slot[c.fn] + c.unit = cur
        BY <1>2, <1>8
      <4>3. \A a, b, u \in Int : a + u = b => a + (u + 1) = b + 1
        OBVIOUS
      <4>4. c.unit \in Int
        BY <1>5
      <4>5. slot[c.fn] + (c.unit + 1) = cur + 1
        BY <4>1, <4>2, <4>3, <4>4, Zenon
      <4> QED  BY <4>2, <4>5, Zenon
    <3>6. d.unit <= Epilogue(d.fn) + 1 /\ d.k <= Len(d.callees) + 1
      <4>1. c.k \in Int /\ c.k <= Len(c.callees) + 1
        BY <1>1, <1>8 DEF CompFrame
      <4>2. d.k <= Len(d.callees) + 1
        BY <3>2, <3>3, <4>1
      <4>3. c.unit + 1 <= Epilogue(c.fn) + 1
        BY <1>2, <1>5
      <4> QED  BY <3>2, <4>2, <4>3
    <3>7. FrameGood(d, TRUE)'
      BY <3>2, <3>4, <3>5, <3>6 DEF FrameGood, Epilogue
    <3> QED  BY <1>3, <2>2, <3>1, <3>7
  <2> QED  BY <2>1, <2>2
<1>11. \A f : OnStack(comp, f) => OnStack(comp', f)
  <2>1. \A j \in 1 .. n : comp'[j].fn = comp[j].fn
    BY <1>1, <1>3 DEF Advance
  <2> QED  BY <1>3, <2>1 DEF OnStack
<1>12. ASSUME NEW f \in Internal, NEW i \in 1 .. Len(Body[f]), Body[f][i].kind = "call",
              Pending(comp, f, i, Body[f][i].arg)
       PROVE  Pending(comp', f, i, Body[f][i].arg)
  <2> DEFINE g == Body[f][i].arg
  <2>1. PICK j \in 1 .. n : /\ comp[j].fn = f
                            /\ \/ comp[j].unit <= i
                               \/ \E m \in comp[j].k .. Len(comp[j].callees) : comp[j].callees[m] = g
    BY <1>12 DEF Pending
  <2>2. CASE j # n
    <3>1. comp'[j] = comp[j] /\ j \in 1 .. Len(comp')
      BY <1>3, <2>2
    <3> QED  BY <2>1, <3>1 DEF Pending
  <2>3. CASE j = n
    <3>1. PICK d \in CompFrame : d = Advance(c) /\ comp'[j] = d /\ j \in 1 .. Len(comp')
      BY <1>1, <1>3, <2>3
    <3>2. d.fn = f /\ d.unit = c.unit + 1 /\ d.k = c.k /\ c.fn = f /\ c.k \in Nat
      BY <1>1, <2>1, <2>3, <3>1 DEF Advance, CompFrame
    <3>3. c.callees \in Seq(Fn) /\ Len(c.callees) \in Nat /\ i \in Nat
      BY <1>1, LenProperties DEF CompFrame
    <3>4. CASE c.unit <= i /\ c.unit # i
      <4>1. d.unit <= i
        BY <1>5, <3>2, <3>3, <3>4
      <4> QED  BY <3>1, <3>2, <4>1 DEF Pending
    <3>5. CASE c.unit = i
      <4>1. AtOp(c, "call")
        BY <1>12, <3>2, <3>5 DEF AtOp
      <4>2. g \in Fn /\ d.callees = Append(c.callees, g)
        BY <1>12, <3>1, <3>2, <3>5, <4>1 DEF Advance
      <4> HIDE DEF g
      <4>3. /\ Len(d.callees) = Len(c.callees) + 1
            /\ d.callees[Len(c.callees) + 1] = g
        BY <3>3, <4>2, AppendFacts
      <4>4. Len(c.callees) + 1 \in d.k .. Len(d.callees)
        BY <1>8, <3>2, <3>3, <4>3
      <4> QED  BY <3>1, <3>2, <4>3, <4>4 DEF Pending, g
    <3>6. CASE \E m \in c.k .. Len(c.callees) : c.callees[m] = g
      <4>1. PICK m \in c.k .. Len(c.callees) : c.callees[m] = g
        BY <3>6
      <4>2. m \in 1 .. Len(c.callees)
        BY <1>1, <3>2, <3>3 DEF CompFrame
      <4>3. m \in d.k .. Len(d.callees) /\ d.callees[m] = g
        <5>1. CASE AtOp(c, "call")
          <6>1. Body[c.fn][c.unit].arg \in Fn
            BY <1>5, <5>1 DEF AtOp
          <6>2. d.callees = Append(c.callees, Body[c.fn][c.unit].arg)
            BY <3>1, <5>1 DEF Advance
          <6> HIDE DEF g
          <6> QED  BY <3>2, <3>3, <4>1, <4>2, <6>1, <6>2, AppendFacts
        <5>2. CASE ~AtOp(c, "call")
          BY <3>1, <3>2, <4>1, <5>2 DEF Advance
        <5> QED  BY <5>1, <5>2
      <4> QED  BY <3>1, <3>2, <4>3 DEF Pending
    <3> QED  BY <1>1, <2>1, <2>3, <3>4, <3>5, <3>6
  <2> QED  BY <2>2, <2>3
<1>13. ClosureOK(comp)'
  <2> SUFFICES ASSUME NEW f \in Internal, slot'[f] # Null
               PROVE  /\ Complete(f)' \/ OnStack(comp', f)
                      /\ \A i \in 1 .. Len(Body[f]) :
                            Body[f][i].kind = "call" =>
                                slot'[Body[f][i].arg] # Null \/ Pending(comp', f, i, Body[f][i].arg)
    BY DEF ClosureOK, OnStack, Pending
  <2>1. Complete(f) => Complete(f)'
    BY <1>6, <1>7, CodeKept
  <2> QED  BY <1>2, <1>11, <1>12, <2>1 DEF ClosureOK
<1> QED  BY <1>9, <1>10, <1>13

\* A frame that is linking is past its epilogue.
LEMMA LinkingFrames ==
  ASSUME TypeOK, FrameOK(comp), comp # <<>>, Last(comp).unit > Epilogue(Last(comp).fn)
  PROVE  \A j \in 1 .. Len(comp) : /\ comp[j] \in CompFrame
                                   /\ comp[j].unit > Epilogue(comp[j].fn)
                                   /\ FrameGood(comp[j], FALSE)
<1> SUFFICES ASSUME NEW j \in 1 .. Len(comp)
             PROVE  /\ comp[j] \in CompFrame
                    /\ comp[j].unit > Epilogue(comp[j].fn)
                    /\ FrameGood(comp[j], FALSE)
  OBVIOUS
<1>1. PICK d \in CompFrame : d = comp[j]
  BY ElementOfSeq DEF TypeOK
<1>2. d.unit \in Nat /\ Epilogue(d.fn) \in Nat
  BY <1>1, ConstantsAssumption, LenProperties DEF CompFrame, Epilogue
<1>3. FrameGood(d, j = Len(comp))
  BY <1>1 DEF FrameOK
<1>4. d.unit > Epilogue(d.fn)
  <2>1. CASE j = Len(comp)
    BY <1>1, <2>1, LastFacts DEF TypeOK
  <2>2. CASE j # Len(comp)
    BY <1>2, <1>3, <2>2 DEF FrameGood
  <2> QED  BY <2>1, <2>2
<1>5. FrameGood(d, FALSE)
  BY <1>2, <1>3, <1>4 DEF FrameGood
<1> QED  BY <1>1, <1>4, <1>5

\* One turn of the loop over vecifnCompile.
LEMMA LinkKeeps ==
  ASSUME TypeOK, FrameOK(comp), FreshInv, ClosureOK(comp), SlotInv, Link, mode' # "fault"
  PROVE  /\ (FrameOK(comp) /\ FreshInv /\ ClosureOK(comp))'
         /\ \A f \in Fn : slot[f] # Null => slot'[f] = slot[f]
<1> USE ConstantsAssumption
<1> DEFINE n == Len(comp)
<1>1. PICK c \in CompFrame : /\ c = Last(comp) /\ c = comp[n] /\ n \in 1 .. n
                             /\ NextCallee(c) \in CompFrame
  BY FrameTypes, LastFacts DEF Link, TypeOK
<1>2. PICK rest : rest = [comp EXCEPT ![n] = NextCallee(c)]
  OBVIOUS
<1>3. /\ rest \in Seq(CompFrame) /\ Len(rest) = n
      /\ \A j \in 1 .. n : rest[j] = IF j = n THEN NextCallee(c) ELSE comp[j]
  BY <1>1, <1>2, LastFacts DEF Link, TypeOK
<1>4. PICK g : g = c.callees[c.k]
  OBVIOUS
<1>5. g \in Fn /\ c.k \in Nat \ {0} /\ c.k <= Len(c.callees) /\ Len(c.callees) \in Nat
  BY <1>1, <1>4, ElementOfSeq, LenProperties DEF Link, CompFrame
<1>6. \A j \in 1 .. n : /\ comp[j] \in CompFrame
                        /\ comp[j].unit > Epilogue(comp[j].fn)
                        /\ FrameGood(comp[j], FALSE)
  BY <1>1, LinkingFrames DEF Link
<1>7. /\ NextCallee(c).fn = c.fn /\ NextCallee(c).unit = c.unit
      /\ NextCallee(c).callees = c.callees /\ NextCallee(c).k = c.k + 1
  BY <1>1 DEF NextCallee, CompFrame
<1>8. \A j \in 1 .. n : FrameGood(rest[j], FALSE) /\ rest[j].unit > Epilogue(rest[j].fn)
  <2>1. FrameGood(c, FALSE) /\ c.unit > Epilogue(c.fn)
    BY <1>1, <1>6
  <2>2. NextCallee(c).k <= Len(NextCallee(c).callees) + 1
    BY <1>5, <1>7
  <2>3. FrameGood(NextCallee(c), FALSE)
    BY <1>7, <2>1, <2>2 DEF FrameGood
  <2> QED  BY <1>3, <1>6, <1>7, <2>1, <2>3
<1>9. FrameOK(rest)
  <2> SUFFICES ASSUME NEW j \in 1 .. Len(rest) PROVE FrameGood(rest[j], j = Len(rest))
    BY DEF FrameOK
  <2> QED  BY <1>3, <1>8 DEF FrameGood
<1>10. ClosureBut(rest, g)
  <2>1. \A f : OnStack(comp, f) => OnStack(rest, f)
    BY <1>1, <1>3, <1>7 DEF OnStack
  <2>2. ASSUME NEW f \in Internal, NEW i \in 1 .. Len(Body[f]), NEW h, h # g,
               Pending(comp, f, i, h)
        PROVE  Pending(rest, f, i, h)
    <3>1. PICK j \in 1 .. n : /\ comp[j].fn = f
                              /\ \/ comp[j].unit <= i
                                 \/ \E m \in comp[j].k .. Len(comp[j].callees) : comp[j].callees[m] = h
      BY <2>2 DEF Pending
    <3>2. CASE j # n
      BY <1>3, <3>1, <3>2 DEF Pending
    <3>3. CASE j = n
      <4>1. rest[j] = NextCallee(c) /\ comp[j] = c /\ j \in 1 .. Len(rest)
        BY <1>1, <1>3, <3>3
      <4>2. CASE c.unit <= i
        BY <1>7, <3>1, <4>1, <4>2 DEF Pending
      <4>3. CASE \E m \in c.k .. Len(c.callees) : c.callees[m] = h
        <5>1. PICK m \in c.k .. Len(c.callees) : c.callees[m] = h
          BY <4>3
        <5>2. m # c.k
          BY <1>4, <2>2, <5>1
        <5>3. m \in c.k + 1 .. Len(c.callees)
          BY <1>5, <5>1, <5>2
        <5> QED  BY <1>7, <3>1, <4>1, <5>1, <5>3 DEF Pending
      <4> QED  BY <3>1, <4>1, <4>2, <4>3
    <3> QED  BY <3>2, <3>3
  <2> QED  BY <2>1, <2>2 DEF ClosureOK, ClosureBut
<1>11. CASE ~NeedsCompile(g)
  <2>1. comp' = rest /\ UNCHANGED <<slot, plane, cur>>
    BY <1>1, <1>2, <1>4, <1>11 DEF Link
  <2>2. slot[g] # Null
    BY <1>11 DEF NeedsCompile
  <2>3. ClosureOK(rest)
    BY <1>10, <2>2 DEF ClosureBut, ClosureOK
  <2>4. FrameOK(comp)'
    BY <1>9, <2>1 DEF FrameOK, FrameGood, EmittedUpTo, Emitted, Unit, Epilogue
  <2>5. ClosureOK(comp)'
    <3> SUFFICES ASSUME NEW f \in Internal, slot'[f] # Null
                 PROVE  /\ Complete(f)' \/ OnStack(comp', f)
                        /\ \A i \in 1 .. Len(Body[f]) :
                              Body[f][i].kind = "call" =>
                                  slot'[Body[f][i].arg] # Null \/ Pending(comp', f, i, Body[f][i].arg)
      BY DEF ClosureOK, OnStack, Pending
    <3>1. Complete(f) => Complete(f)'
      BY <2>1 DEF Complete, Emitted, Unit, Epilogue
    <3> QED  BY <2>1, <2>3, <3>1 DEF ClosureOK
  <2> QED  BY <2>1, <2>4, <2>5 DEF FreshInv
<1>12. CASE NeedsCompile(g)
  <2>1. g \in Internal /\ slot[g] = Null
    BY <1>5, <1>12 DEF NeedsCompile, TypeOK, Null, WasmToC, Internal
  <2>2. StartCompile(g, rest) /\ UNCHANGED <<plane, cur>>
    BY <1>1, <1>2, <1>4, <1>12 DEF Link
  <2> QED  BY <1>3, <1>8, <1>9, <1>10, <2>1, <2>2, StartKeeps
<1> QED  BY <1>11, <1>12

\* CompileFn returns: its function is complete and owes nothing.
LEMMA CompileReturnKeeps ==
  ASSUME TypeOK, FrameOK(comp), FreshInv, ClosureOK(comp), CompileReturn
  PROVE  (FrameOK(comp) /\ FreshInv /\ ClosureOK(comp))'
<1> USE ConstantsAssumption
<1> DEFINE n == Len(comp)
<1>1. PICK c \in CompFrame : c = Last(comp) /\ c = comp[n] /\ n \in 1 .. n
  BY LastFacts DEF CompileReturn, TypeOK
<1>2. /\ Len(comp') = n - 1 /\ n \in Nat
      /\ \A j \in 1 .. n - 1 : comp'[j] = comp[j]
      /\ UNCHANGED <<slot, plane, cur>>
  BY FrontFacts, LenProperties DEF CompileReturn, TypeOK
<1>3. c.unit > Epilogue(c.fn) /\ c.k > Len(c.callees)
  BY <1>1 DEF CompileReturn
<1>4. \A j \in 1 .. n : /\ comp[j] \in CompFrame
                        /\ comp[j].unit > Epilogue(comp[j].fn)
                        /\ FrameGood(comp[j], FALSE)
  BY <1>1, LinkingFrames DEF CompileReturn
<1>5. c.unit \in Nat /\ Epilogue(c.fn) = Len(Body[c.fn]) + 1 /\ Len(Body[c.fn]) \in Nat
      /\ c.k \in Nat /\ Len(c.callees) \in Nat /\ c.fn \in Internal
  BY <1>1, LenProperties DEF CompFrame, Epilogue
<1>6. FrameOK(comp)'
  <2> SUFFICES ASSUME NEW j \in 1 .. n - 1 PROVE FrameGood(comp[j], j = Len(comp))'
    BY <1>2 DEF FrameOK
  <2>1. PICK d \in CompFrame : d = comp[j] /\ comp'[j] = d /\ d.unit > Epilogue(d.fn) /\ FrameGood(d, FALSE)
    <3>1. j \in 1 .. n
      BY <1>2
    <3>2. comp'[j] = comp[j]
      BY <1>2
    <3> QED  BY <1>4, <3>1, <3>2
  <2>2. FrameGood(d, FALSE)'
    BY <1>2, <2>1 DEF FrameGood, EmittedUpTo, Emitted, Unit, Epilogue
  <2> QED  BY <2>1, <2>2 DEF FrameGood
<1>7. Complete(c.fn)
  <2>1. EmittedUpTo(c.fn, c.unit)
    BY <1>1, <1>4 DEF FrameGood
  <2>2. \A v \in 0 .. Epilogue(c.fn) : v \in 0 .. c.unit - 1
    BY <1>3, <1>5
  <2> QED  BY <2>1, <2>2 DEF EmittedUpTo, Complete
<1>8. ASSUME NEW f \in Internal, OnStack(comp, f), f # c.fn PROVE OnStack(comp', f)
  <2>1. PICK j \in 1 .. n : comp[j].fn = f
    BY <1>8 DEF OnStack
  <2>2. j \in 1 .. n - 1
    BY <1>1, <1>2, <1>8, <2>1
  <2> QED  BY <1>2, <2>1, <2>2 DEF OnStack
<1>9. ASSUME NEW f \in Internal, NEW i \in 1 .. Len(Body[f]), NEW g, Pending(comp, f, i, g)
      PROVE  Pending(comp', f, i, g)
  <2>1. PICK j \in 1 .. n : /\ comp[j].fn = f
                            /\ \/ comp[j].unit <= i
                               \/ \E m \in comp[j].k .. Len(comp[j].callees) : comp[j].callees[m] = g
    BY <1>9 DEF Pending
  <2>2. j # n
    <3> SUFFICES ASSUME j = n PROVE FALSE
      OBVIOUS
    <3>1. f = c.fn /\ ~(c.unit <= i)
      BY <1>1, <1>3, <1>5, <2>1
    <3>2. ~ \E m \in c.k .. Len(c.callees) : TRUE
      BY <1>3, <1>5
    <3> QED  BY <1>1, <2>1, <3>1, <3>2
  <2>3. j \in 1 .. n - 1
    BY <1>2, <2>2
  <2> QED  BY <1>2, <2>1, <2>3 DEF Pending
<1>10. ClosureOK(comp)'
  <2> SUFFICES ASSUME NEW f \in Internal, slot'[f] # Null
               PROVE  /\ Complete(f)' \/ OnStack(comp', f)
                      /\ \A i \in 1 .. Len(Body[f]) :
                            Body[f][i].kind = "call" =>
                                slot'[Body[f][i].arg] # Null \/ Pending(comp', f, i, Body[f][i].arg)
    BY DEF ClosureOK, OnStack, Pending
  <2>1. Complete(f) => Complete(f)'
    BY <1>2 DEF Complete, Emitted, Unit, Epilogue
  <2> QED  BY <1>2, <1>7, <1>8, <1>9, <2>1 DEF ClosureOK
<1> QED  BY <1>2, <1>6, <1>10 DEF FreshInv

\* Steps that leave the code, the table and the compiler alone.
LEMMA CodeStatic ==
  ASSUME TypeOK, FrameOK(comp), FreshInv, ClosureOK(comp), UNCHANGED <<slot, plane, cur, comp>>
  PROVE  (FrameOK(comp) /\ FreshInv /\ ClosureOK(comp))'
<1>1. FrameOK(comp)'
  BY DEF FrameOK, FrameGood, EmittedUpTo, Emitted, Unit, Epilogue
<1>2. FreshInv'
  BY DEF FreshInv
<1>3. ClosureOK(comp)'
  <2> SUFFICES ASSUME NEW f \in Internal, slot'[f] # Null
               PROVE  /\ Complete(f)' \/ OnStack(comp', f)
                      /\ \A i \in 1 .. Len(Body[f]) :
                            Body[f][i].kind = "call" =>
                                slot'[Body[f][i].arg] # Null \/ Pending(comp', f, i, Body[f][i].arg)
    BY DEF ClosureOK, OnStack, Pending
  <2>1. Complete(f) => Complete(f)'
    BY DEF Complete, Emitted, Unit, Epilogue
  <2> QED  BY <2>1 DEF ClosureOK
<1> QED  BY <1>1, <1>2, <1>3

\* Pushing a function that has a slot, when no slot is lost.
LEMMA PushKeepsSlots ==
  ASSUME TypeOK, SlotInv, NEW g \in Fn, slot'[g] # Null, stack' = Append(stack, g), UNCHANGED slot
  PROVE  SlotInv' /\ stack' # <<>>
<1>1. /\ Len(stack') = Len(stack) + 1 /\ Len(stack) \in Nat
      /\ \A j \in 1 .. Len(stack) : stack'[j] = stack[j]
      /\ stack'[Len(stack) + 1] = g /\ stack' \in Seq(Fn)
  BY AppendFacts, LenProperties DEF TypeOK
<1>2. SlotInv'
  <2> SUFFICES ASSUME NEW j \in 1 .. Len(stack) + 1 PROVE slot'[stack'[j]] # Null
    BY <1>1 DEF SlotInv
  <2>1. CASE j = Len(stack) + 1
    BY <1>1, <2>1
  <2>2. CASE j \in 1 .. Len(stack)
    BY <1>1, <2>2 DEF SlotInv
  <2> QED  BY <1>1, <2>1, <2>2
<1>3. stack' # <<>>
  BY <1>1, EmptySeq
<1> QED  BY <1>2, <1>3

\* Without compilation under way every published function is complete, and so linked that
\* each of its direct calls finds a filled slot.
LEMMA ReadyToRun ==
  ASSUME TypeOK, ClosureOK(comp), comp = <<>>, NEW f \in Internal, slot[f] # Null
  PROVE  /\ Complete(f)
         /\ \A i \in 1 .. Len(Body[f]) : Body[f][i].kind = "call" => slot[Body[f][i].arg] # Null
<1>1. ~ \E j \in 1 .. Len(comp) : TRUE
  BY EmptySeq
<1>2. ~OnStack(comp, f) /\ \A i, g : ~Pending(comp, f, i, g)
  BY <1>1 DEF OnStack, Pending
<1> QED  BY <1>2 DEF ClosureOK

\* The activation that runs has a slot.
LEMMA TopHasSlot ==
  ASSUME TypeOK, SlotInv, stack # <<>>
  PROVE  Last(stack) \in Fn /\ slot[Last(stack)] # Null
  BY LastFacts DEF TypeOK, SlotInv

LEMMA InitInductive == Init => Inductive
<1> SUFFICES ASSUME Init PROVE Inductive
  OBVIOUS
<1>1. ~ (\E j \in 1 .. Len(comp) : TRUE) /\ ~ (\E j \in 1 .. Len(stack) : TRUE)
  BY EmptySeq DEF Init
<1>2. FrameOK(comp) /\ SlotInv
  BY <1>1 DEF FrameOK, SlotInv
<1>3. FreshInv
  BY DEF FreshInv, Init
<1>4. \A f \in Internal : slot[f] = Null
  BY DEF Init, Internal
<1>5. ClosureOK(comp)
  BY <1>4 DEF ClosureOK
<1> QED  BY <1>2, <1>3, <1>5 DEF Init, Inductive, NoWildJump, NoFault, ControlInv, SealedWhileRunning

\* Every step of the compiler keeps the invariant.
LEMMA CompileInductive ==
  ASSUME TypeOK, Inductive, "exception" \notin HostCatches, CompileStep
  PROVE  Inductive'
<1> USE ConstantsAssumption
<1>1. /\ mode = "compile" /\ tableProt = "RW" /\ codeProt = "RW" /\ slot[want] # Null
      /\ FrameOK(comp) /\ FreshInv /\ ClosureOK(comp) /\ SlotInv /\ want \in Internal
  BY DEF CompileStep, Emit, EmitThrows, Link, CompileReturn, EnterCompiled, Inductive, ControlInv,
         Alive, TypeOK
<1>2. CASE Emit
  <2>1. (FrameOK(comp) /\ FreshInv /\ ClosureOK(comp))'
    BY <1>1, <1>2, EmitKeeps
  <2>2. UNCHANGED <<mode, slot, tableProt, codeProt, want, stack>>
    BY <1>1, <1>2 DEF Emit
  <2>3. SlotInv'
    BY <1>1, <2>2 DEF SlotInv
  <2> QED  BY <1>1, <2>1, <2>2, <2>3
           DEF Inductive, NoWildJump, NoFault, ControlInv, SealedWhileRunning, Alive
<1>3. CASE EmitThrows
  <2>1. mode' = "over"
    BY <1>3 DEF EmitThrows, Throw, AfterFailure
  <2> QED  BY <2>1 DEF Inductive, NoWildJump, NoFault, ControlInv, SealedWhileRunning, Alive
<1>4. CASE Link
  <2>1. /\ mode' = mode /\ mode' # "fault"
        /\ UNCHANGED <<tableProt, codeProt, want, stack>>
    BY <1>1, <1>4 DEF Link
  <2>2. /\ (FrameOK(comp) /\ FreshInv /\ ClosureOK(comp))'
        /\ \A f \in Fn : slot[f] # Null => slot'[f] = slot[f]
    BY <1>1, <1>4, <2>1, LinkKeeps
  <2>3. SlotInv'
    <3>1. \A j \in 1 .. Len(stack) : stack[j] \in Fn
      BY ElementOfSeq DEF TypeOK
    <3> QED  BY <1>1, <2>1, <2>2, <3>1 DEF SlotInv
  <2>4. slot'[want] # Null
    BY <1>1, <2>2 DEF Internal
  <2> QED  BY <1>1, <2>1, <2>2, <2>3, <2>4
           DEF Inductive, NoWildJump, NoFault, ControlInv, SealedWhileRunning, Alive
<1>5. CASE CompileReturn
  <2>1. (FrameOK(comp) /\ FreshInv /\ ClosureOK(comp))'
    BY <1>1, <1>5, CompileReturnKeeps
  <2>2. UNCHANGED <<mode, slot, tableProt, codeProt, want, stack>>
    BY <1>5 DEF CompileReturn
  <2>3. SlotInv'
    BY <1>1, <2>2 DEF SlotInv
  <2> QED  BY <1>1, <2>1, <2>2, <2>3
           DEF Inductive, NoWildJump, NoFault, ControlInv, SealedWhileRunning, Alive
<1>6. CASE EnterCompiled
  <2>1. (FrameOK(comp) /\ FreshInv /\ ClosureOK(comp))'
    BY <1>1, <1>6, CodeStatic DEF EnterCompiled
  <2>2. SlotInv' /\ stack' # <<>>
    BY <1>1, <1>6, PushKeepsSlots DEF EnterCompiled, Internal
  <2>3. mode' = "run" /\ comp' = <<>> /\ codeProt' = "RX" /\ tableProt' = "RO"
    BY <1>1, <1>6 DEF EnterCompiled, ProtectForRuntime
  <2> QED  BY <2>1, <2>2, <2>3
           DEF Inductive, NoWildJump, NoFault, ControlInv, SealedWhileRunning, Alive
<1> QED  BY <1>2, <1>3, <1>4, <1>5, <1>6 DEF CompileStep

\* Publishing g with no compilation under way: a host call, or the shim in the middle of a run.
LEMMA FreshCompilation ==
  ASSUME TypeOK, FrameOK(comp), FreshInv, ClosureOK(comp), SlotInv, comp = <<>>,
         NEW g \in Internal, slot[g] = Null, StartCompile(g, <<>>), UNCHANGED <<plane, cur, stack>>
  PROVE  (FrameOK(comp) /\ FreshInv /\ ClosureOK(comp) /\ SlotInv)' /\ slot'[g] # Null
<1>1. <<>> \in Seq(CompFrame) /\ ~ \E j \in 1 .. Len(<<>>) : TRUE
  BY EmptySeq
<1>2. ClosureBut(<<>>, g)
  BY DEF ClosureOK, ClosureBut
<1>3. \A j \in 1 .. Len(<<>>) : <<>>[j].unit > Epilogue(<<>>[j].fn)
  BY <1>1
<1>4. /\ (FrameOK(comp) /\ FreshInv /\ ClosureOK(comp))'
      /\ \A f \in Fn : slot[f] # Null => slot'[f] = slot[f]
      /\ slot'[g] # Null
  BY <1>1, <1>2, <1>3, StartKeeps
<1>5. SlotInv'
  <2>1. \A j \in 1 .. Len(stack) : stack[j] \in Fn
    BY ElementOfSeq DEF TypeOK
  <2> QED  BY <1>4, <2>1 DEF SlotInv
<1> QED  BY <1>4, <1>5

\* Every step of the host and of running code keeps the invariant.
LEMMA RunInductive ==
  ASSUME TypeOK, Inductive, "exception" \notin HostCatches, [Next]_vars, ~CompileStep
  PROVE  Inductive'
<1> USE ConstantsAssumption
<1>a. ASSUME mode' \in {"over"} PROVE Inductive'
  BY <1>a DEF Inductive, NoWildJump, NoFault, ControlInv, SealedWhileRunning, Alive
<1>b. ASSUME Throw PROVE Inductive'
  BY <1>a, <1>b DEF Throw, AfterFailure
<1>c. mode = "host" => /\ comp = <<>> /\ stack = <<>> /\ tableProt = "RW" /\ codeProt = "RW"
                       /\ FrameOK(comp) /\ FreshInv /\ ClosureOK(comp) /\ SlotInv
  BY DEF Inductive, ControlInv, Alive
<1>d. mode = "run" => /\ comp = <<>> /\ stack # <<>> /\ tableProt = "RO" /\ codeProt = "RX"
                      /\ FrameOK(comp) /\ FreshInv /\ ClosureOK(comp) /\ SlotInv
  BY DEF Inductive, ControlInv, SealedWhileRunning, Alive
<1>e. ASSUME mode = "run", Leave PROVE Inductive'
  <2>1. (FrameOK(comp) /\ FreshInv /\ ClosureOK(comp))' /\ comp' = <<>>
    BY <1>d, <1>e, CodeStatic DEF Leave
  <2>2. /\ Front(stack) \in Seq(Fn) /\ Len(Front(stack)) = Len(stack) - 1
        /\ \A j \in 1 .. Len(stack) - 1 : Front(stack)[j] = stack[j]
        /\ Len(stack) \in Nat \ {0}
    BY <1>d, <1>e, FrontFacts, EmptySeq DEF TypeOK
  <2>3. stack' = Front(stack) /\ slot' = slot
    BY <1>e DEF Leave
  <2>4. SlotInv'
    <3>1. \A j \in 1 .. Len(stack) - 1 : j \in 1 .. Len(stack)
      BY <2>2
    <3> QED  BY <1>d, <1>e, <2>2, <2>3, <3>1 DEF SlotInv
  <2>5. CASE Len(stack) = 1
    <3>1. stack' = <<>>
      BY <2>2, <2>3, <2>5, EmptySeq
    <3>2. mode' = "host" /\ tableProt' = "RW" /\ codeProt' = "RW"
      BY <1>e, <2>5 DEF Leave, UnprotectRuntime
    <3> QED  BY <2>1, <2>4, <3>1, <3>2
             DEF Inductive, NoWildJump, NoFault, ControlInv, SealedWhileRunning, Alive
  <2>6. CASE Len(stack) # 1
    <3>1. stack' # <<>>
      BY <2>2, <2>3, <2>6, EmptySeq
    <3>2. mode' = "run" /\ tableProt' = "RO" /\ codeProt' = "RX"
      BY <1>d, <1>e, <2>6 DEF Leave
    <3> QED  BY <2>1, <2>4, <3>1, <3>2
             DEF Inductive, NoWildJump, NoFault, ControlInv, SealedWhileRunning, Alive
  <2> QED  BY <2>5, <2>6
<1>f. ASSUME mode = "run", Trap PROVE Inductive'
  <2>1. (FrameOK(comp) /\ FreshInv /\ ClosureOK(comp))' /\ comp' = <<>>
    BY <1>d, <1>f, CodeStatic DEF Trap
  <2>2. /\ stack' = <<>> /\ tableProt' = "RW" /\ codeProt' = "RW" /\ mode' \in {"host", "over"}
    BY <1>f DEF Trap, UnprotectRuntime, AfterFailure
  <2>3. SlotInv'
    BY <2>2, EmptySeq DEF SlotInv
  <2> QED  BY <2>1, <2>2, <2>3
           DEF Inductive, NoWildJump, NoFault, ControlInv, SealedWhileRunning, Alive
<1>g. ASSUME NEW g \in Fn, slot[g] = Null PROVE g \in Internal
  BY <1>g DEF TypeOK, Null, WasmToC, Internal
\* An activation that runs is complete, and its direct calls are linked.
<1>h. ASSUME NEW f \in Internal, InCode(f)
      PROVE  /\ mode = "run" /\ Complete(f)
             /\ \A i \in 1 .. Len(Body[f]) : Body[f][i].kind = "call" => slot[Body[f][i].arg] # Null
  BY <1>d, <1>h, TopHasSlot, ReadyToRun DEF InCode
<1>1. ASSUME NEW f \in Exports, HostCall(f) PROVE Inductive'
  <2>1. f \in Internal /\ mode = "host" /\ slot[f] = Null
    BY <1>1, <1>g DEF HostCall
  <2>2. /\ mode' = "compile" /\ StartCompile(f, <<>>) /\ want' = f
        /\ UNCHANGED <<plane, cur, tableProt, codeProt, stack>>
    BY <1>1, <1>c, <2>1 DEF HostCall
  <2>3. (FrameOK(comp) /\ FreshInv /\ ClosureOK(comp) /\ SlotInv)' /\ slot'[f] # Null
    BY <1>c, <2>1, <2>2, FreshCompilation
  <2> QED  BY <1>c, <2>1, <2>2, <2>3
           DEF Inductive, NoWildJump, NoFault, ControlInv, SealedWhileRunning, Alive
<1>2. ASSUME NEW f \in Exports, HostEnter(f) PROVE Inductive'
  <2>1. mode = "host" /\ f \in Fn /\ slot[f] # Null
    BY <1>2 DEF HostEnter
  <2>2. CASE mode' = "over"
    BY <1>a, <2>2
  <2>3. CASE mode' # "over"
    <3>1. /\ codeProt' = "RX" /\ tableProt' = "RO" /\ mode' = "run" /\ stack' = <<f>>
          /\ UNCHANGED <<slot, plane, cur, comp>>
      BY <1>2, <2>3 DEF HostEnter, ProtectForRuntime, ProtectFails, AfterFailure
    <3>2. (FrameOK(comp) /\ FreshInv /\ ClosureOK(comp))' /\ comp' = <<>>
      BY <1>c, <2>1, <3>1, CodeStatic
    <3>3. Len(stack') = 1 /\ stack'[1] = f /\ stack' \in Seq(Fn)
      BY <2>1, <3>1, SingletonFacts
    <3>4. SlotInv' /\ stack' # <<>>
      BY <2>1, <3>1, <3>3, EmptySeq DEF SlotInv
    <3> QED  BY <3>1, <3>2, <3>4
             DEF Inductive, NoWildJump, NoFault, ControlInv, SealedWhileRunning, Alive
  <2> QED  BY <2>2, <2>3
<1>3. ASSUME NEW f \in Internal, NEW i \in 1 .. Len(Body[f]), CallDirect(f, i) PROVE Inductive'
  <2> DEFINE g == Body[f][i].arg
  <2>1. mode = "run" /\ slot[g] # Null /\ g \in Fn
    BY <1>3, <1>h DEF CallDirect, Executes
  <2>2. /\ mode' = "run" /\ stack' = Append(stack, g)
        /\ UNCHANGED <<slot, plane, cur, tableProt, codeProt, comp>>
    BY <1>3, <2>1 DEF CallDirect, Push
  <2> HIDE DEF g
  <2>3. (FrameOK(comp) /\ FreshInv /\ ClosureOK(comp))'
    BY <1>d, <2>1, <2>2, CodeStatic
  <2>4. SlotInv' /\ stack' # <<>>
    BY <1>d, <2>1, <2>2, PushKeepsSlots
  <2> QED  BY <1>d, <2>1, <2>2, <2>3, <2>4
           DEF Inductive, NoWildJump, NoFault, ControlInv, SealedWhileRunning, Alive
<1>4. ASSUME NEW f \in Internal, NEW i \in 1 .. Len(Body[f]), NEW idx \in 0 .. Len(Table),
             CallIndirectJumps(f, i, idx)
      PROVE Inductive'
  <2>1. PICK g \in Fn : slot[g] # Null /\ stack' = Append(stack, g)
    BY <1>4 DEF CallIndirectJumps, Push
  <2>2. mode = "run" /\ UNCHANGED <<mode, slot, plane, cur, tableProt, codeProt, comp>>
    BY <1>4 DEF CallIndirectJumps, Executes, InCode
  <2>3. (FrameOK(comp) /\ FreshInv /\ ClosureOK(comp))'
    BY <1>d, <2>2, CodeStatic
  <2>4. SlotInv' /\ stack' # <<>>
    BY <1>d, <2>1, <2>2, PushKeepsSlots
  <2> QED  BY <1>d, <2>2, <2>3, <2>4
           DEF Inductive, NoWildJump, NoFault, ControlInv, SealedWhileRunning, Alive
<1>5. ASSUME NEW f \in Internal, NEW i \in 1 .. Len(Body[f]), NEW idx \in 0 .. Len(Table),
             CallIndirectCompiles(f, i, idx)
      PROVE Inductive'
  <2>1. PICK g \in Fn : /\ slot[g] = Null /\ UnprotectRuntime /\ mode' = "compile"
                        /\ want' = g /\ StartCompile(g, <<>>)
    BY <1>5 DEF CallIndirectCompiles
  <2>2. g \in Internal /\ mode = "run" /\ UNCHANGED <<plane, cur, stack>>
    BY <1>5, <1>g, <2>1 DEF CallIndirectCompiles, Executes, InCode
  <2>3. (FrameOK(comp) /\ FreshInv /\ ClosureOK(comp) /\ SlotInv)' /\ slot'[g] # Null
    BY <1>d, <2>1, <2>2, FreshCompilation
  <2> QED  BY <2>1, <2>3
           DEF UnprotectRuntime, Inductive, NoWildJump, NoFault, ControlInv, SealedWhileRunning, Alive
<1>6. ASSUME NEW f \in Internal, NEW i \in 1 .. Len(Body[f]),
             \/ HelperThrows(f, i)
             \/ Unreachable(f, i)
             \/ \E idx \in 0 .. Len(Table) : CallIndirectTraps(f, i, idx)
      PROVE Inductive'
  <2>1. CASE HelperThrows(f, i)
    BY <1>b, <2>1 DEF HelperThrows
  <2>2. CASE Unreachable(f, i)
    BY <1>a, <2>2 DEF Unreachable
  <2>3. CASE \E idx \in 0 .. Len(Table) : CallIndirectTraps(f, i, idx)
    BY <1>f, <2>3 DEF CallIndirectTraps, Executes, InCode
  <2> QED  BY <1>6, <2>1, <2>2, <2>3
<1>7. ASSUME NEW f \in Internal, Return(f) PROVE Inductive'
  BY <1>e, <1>7 DEF Return, InCode
<1>8. ASSUME NEW f \in Internal, RunsOff(f) PROVE Inductive'
  BY <1>h, <1>8 DEF RunsOff
<1>9. CASE ImportReturns
  BY <1>e, <1>9 DEF ImportReturns
<1>10. CASE ImportThrows
  BY <1>b, <1>10 DEF ImportThrows
<1>11. CASE Done \/ UNCHANGED vars
  <2>1. UNCHANGED vars
    BY <1>11 DEF Done
  <2>2. UNCHANGED <<mode, slot, plane, cur, tableProt, codeProt, comp, want, stack>>
    BY <2>1 DEF vars
  <2>3. Alive => (FrameOK(comp) /\ FreshInv /\ ClosureOK(comp))' /\ SlotInv'
    BY <2>2, CodeStatic DEF Inductive, SlotInv
  <2> QED  BY <2>2, <2>3 DEF Inductive, NoWildJump, NoFault, ControlInv, SealedWhileRunning, Alive
<1> QED  BY <1>1, <1>2, <1>3, <1>4, <1>5, <1>6, <1>7, <1>8, <1>9, <1>10, <1>11 DEF Next, RunStep

-----------------------------------------------------------------------------
(* The theorems.  None holds once an embedder goes on after an exception   *)
(* left CompileFn half done: JitWriter keeps the slot it published.        *)

\* With an embedder that survives at most traps, control never leaves compiled code, no
\* sealed page is written, and running code and its table are sealed -- whatever was
\* compiled lazily, in whatever order.
THEOREM LinkedBeforeRun ==
  ASSUME "exception" \notin HostCatches
  PROVE  Spec => []Inductive
<1>1. Init => TypeOK /\ Inductive
  BY InitTypeOK, InitInductive
<1>2. TypeOK /\ Inductive /\ [Next]_vars => (TypeOK /\ Inductive)'
  BY NextTypeOK, CompileInductive, RunInductive
<1> QED  BY <1>1, <1>2, PTL DEF Spec

\* No call goes through a null slot and no activation runs into code that was not emitted.
THEOREM NeverWild ==
  ASSUME "exception" \notin HostCatches
  PROVE  Spec => []NoWildJump
<1>1. Inductive => NoWildJump
  BY DEF Inductive
<1> QED  BY <1>1, LinkedBeforeRun, PTL

\* No write of the compiler hits a sealed page, and whatever runs is sealed.
THEOREM PagesSealed ==
  ASSUME "exception" \notin HostCatches
  PROVE  Spec => [](NoFault /\ SealedWhileRunning)
<1>1. Inductive => NoFault /\ SealedWhileRunning
  BY DEF Inductive, ControlInv
<1> QED  BY <1>1, LinkedBeforeRun, PTL

\* The compiler never writes to a page that was sealed.
THEOREM NeverFaults ==
  ASSUME "exception" \notin HostCatches
  PROVE  Spec => []NoFault
<1>1. Inductive => NoFault
  BY DEF Inductive
<1> QED  BY <1>1, LinkedBeforeRun, PTL

\* A published function is on the compiler's recursion or wholly in the plane.
THEOREM CodeStaysIntact ==
  ASSUME "exception" \notin HostCatches
  PROVE  Spec => []CodeIntact
<1>1. Inductive => CodeIntact
  BY DEF Inductive, Alive, ClosureOK, OnStack, CodeIntact
<1> QED  BY <1>1, LinkedBeforeRun, PTL

\* A filled slot keeps its address, with every embedder: CompileFn is only ever called on a
\* null slot.
THEOREM SlotsNeverMove == Spec => SlotStable
<1> DEFINE Stable == \A f \in Fn : slot[f] # Null => slot'[f] = slot[f]
<1>1. TypeOK /\ [Next]_vars => Stable
  <2> SUFFICES ASSUME TypeOK, [Next]_vars PROVE Stable
    OBVIOUS
  <2>1. ASSUME NEW g \in Fn, NEW frames, slot[g] = Null, StartCompile(g, frames) PROVE Stable
    BY <2>1 DEF StartCompile, TypeOK
  <2>2. ASSUME NEW f \in Exports, HostCall(f) PROVE Stable
    <3>1. f \in Fn /\ slot[f] = Null
      BY <2>2, ConstantsAssumption DEF HostCall
    <3> QED  BY <2>1, <2>2, <3>1 DEF HostCall
  <2>3. CASE Link
    <3> DEFINE c == Last(comp)
               g == c.callees[c.k]
    <3>1. c \in CompFrame
      BY <2>3, FrameTypes DEF Link
    <3>2. g \in Fn
      BY <2>3, <3>1, ElementOfSeq DEF Link, CompFrame
    <3>3. slot' = slot \/ (slot[g] = Null /\ \E frames : StartCompile(g, frames))
      BY <2>3 DEF Link, NeedsCompile
    <3> HIDE DEF g
    <3> QED  BY <2>1, <3>2, <3>3
  <2>4. ASSUME NEW f, NEW i, NEW idx, CallIndirectCompiles(f, i, idx) PROVE Stable
    BY <2>1, <2>4 DEF CallIndirectCompiles
  <2>5. ASSUME UNCHANGED slot PROVE Stable
    BY <2>5
  <2> QED  BY <2>2, <2>3, <2>4, <2>5
           DEF Next, CompileStep, RunStep, HostEnter, Emit, Fault, EmitThrows, Throw, CompileReturn,
               EnterCompiled, CallDirect, CallIndirectTraps, Trap, CallIndirectJumps, HelperThrows,
               Unreachable, Return, RunsOff, Leave, ImportReturns, ImportThrows, Done, vars
<1> QED  BY <1>1, TypeCorrect, PTL DEF Spec, SlotStable

-----------------------------------------------------------------------------
(* Refinement                                                              *)

\* The function whose compilation is awaited is one that the host, or the innermost
\* activation, may enter.
WantInv ==
    mode = "compile" =>
        /\ stack = <<>> => want \in Exports
        /\ stack # <<>> => <<Last(stack), want>> \in MayCall

LEMMA IndirectIsACall ==
  ASSUME NEW f \in Internal, NEW i \in 1 .. Len(Body[f]), Body[f][i].kind = "calli",
         NEW idx \in 0 .. Len(Table), NEW g \in Fn, IndirectTarget(Body[f][i].arg, idx, g)
  PROVE  <<f, g>> \in MayCall
<1>1. idx + 1 \in 1 .. Len(Table) /\ Table[idx + 1] = g /\ FnType[g] = Body[f][i].arg
  BY ConstantsAssumption, LenProperties DEF IndirectTarget
<1>2. CallOp(f, i, g)
  BY <1>1 DEF CallOp
<1> QED  BY <1>2 DEF MayCall

LEMMA WantKept == ASSUME TypeOK, Inductive, WantInv, [Next]_vars PROVE WantInv'
<1>1. ASSUME mode' # "compile" PROVE WantInv'
  BY <1>1 DEF WantInv
<1>2. ASSUME mode = "compile", UNCHANGED <<want, stack>> PROVE WantInv'
  BY <1>2 DEF WantInv, MayCall, CallOp
<1>3. ASSUME Throw PROVE WantInv'
  BY <1>1, <1>3 DEF Throw, AfterFailure
<1>4. ASSUME mode = "run", Leave \/ Trap PROVE WantInv'
  BY <1>1, <1>4 DEF Leave, Trap, AfterFailure
<1>5. ASSUME NEW f \in Exports, HostCall(f) \/ HostEnter(f) PROVE WantInv'
  <2>1. CASE HostEnter(f)
    BY <1>1, <2>1 DEF HostEnter, AfterFailure
  <2>2. CASE HostCall(f)
    BY <2>2 DEF HostCall, WantInv, Inductive, ControlInv
  <2> QED  BY <1>5, <2>1, <2>2
<1>6. ASSUME CompileStep PROVE WantInv'
  <2>1. CASE EnterCompiled
    BY <1>1, <2>1 DEF EnterCompiled
  <2>2. CASE ~EnterCompiled
    BY <1>2, <1>3, <1>6, <2>2 DEF CompileStep, Emit, Fault, EmitThrows, Link, CompileReturn
  <2> QED  BY <2>1, <2>2
<1>7. ASSUME NEW f \in Internal, NEW i \in 1 .. Len(Body[f]), NEW idx \in 0 .. Len(Table),
             CallIndirectCompiles(f, i, idx)
      PROVE  WantInv'
  <2>1. PICK g \in Fn : IndirectTarget(Body[f][i].arg, idx, g) /\ want' = g
    BY <1>7 DEF CallIndirectCompiles
  <2>2. stack' = stack /\ Last(stack) = f /\ stack # <<>> /\ Body[f][i].kind = "calli"
    BY <1>7 DEF CallIndirectCompiles, Executes, InCode, Inductive, ControlInv
  <2>3. <<f, g>> \in MayCall
    BY <2>1, <2>2, IndirectIsACall
  <2> QED  BY <2>1, <2>2, <2>3 DEF WantInv, MayCall, CallOp
<1>8. ASSUME RunStep PROVE WantInv'
  <2>1. PICK f \in Internal :
          \/ Return(f)
          \/ RunsOff(f)
          \/ \E i \in 1 .. Len(Body[f]) :
                \/ CallDirect(f, i)
                \/ HelperThrows(f, i)
                \/ Unreachable(f, i)
                \/ \E idx \in 0 .. Len(Table) :
                      \/ CallIndirectTraps(f, i, idx)
                      \/ CallIndirectJumps(f, i, idx)
                      \/ CallIndirectCompiles(f, i, idx)
    BY <1>8 DEF RunStep
  <2> QED  BY <1>1, <1>3, <1>4, <1>7, <2>1
           DEF Return, RunsOff, CallDirect, HelperThrows, Unreachable, CallIndirectTraps,
               CallIndirectJumps, Executes, InCode
<1>9. ASSUME ImportReturns \/ ImportThrows PROVE WantInv'
  BY <1>3, <1>4, <1>9 DEF ImportReturns, ImportThrows
<1>10. ASSUME Done \/ UNCHANGED vars PROVE WantInv'
  <2>1. UNCHANGED <<mode, want, stack>>
    BY <1>10 DEF Done, vars
  <2> QED  BY <2>1 DEF WantInv, MayCall, CallOp
<1> QED  BY <1>5, <1>6, <1>8, <1>9, <1>10 DEF Next

\* A step that pushes an activation along MayCall is the abstract call.
LEMMA PushIsCall ==
  ASSUME NEW g \in Fn, Status = "active", Status' = "active", <<Last(stack), g>> \in MayCall,
         stack' = Append(stack, g)
  PROVE  [Calls!Next]_Calls!vars
<1>1. Calls!Call(g)
  BY DEF Calls!Call, Calls!Last, Last
<1>2. Calls!Next
  BY <1>1 DEF Calls!Next
<1> QED  BY <1>2

\* A step that pops one is the abstract return.
LEMMA PopIsReturn ==
  ASSUME Status = "active", stack' = Front(stack),
         Status' = IF Len(stack) = 1 THEN "idle" ELSE "active"
  PROVE  [Calls!Next]_Calls!vars
<1>1. Calls!Return
  BY DEF Calls!Return, Calls!Front, Front
<1>2. Calls!Next
  BY <1>1 DEF Calls!Next
<1> QED  BY <1>2

\* One step of the just-in-time machine is one step of the abstract one, or invisible.
LEMMA StepRefines ==
  ASSUME TypeOK, Inductive, WantInv, "exception" \notin HostCatches, [Next]_vars
  PROVE  [Calls!Next]_Calls!vars
<1> USE ConstantsAssumption DEF Calls!vars
<1>0. MayCall' = MayCall
  BY DEF MayCall, CallOp
<1>1. ASSUME UNCHANGED <<mode, stack>> PROVE [Calls!Next]_Calls!vars
  BY <1>1 DEF Status
<1>2. ASSUME Status # "over", stack' = <<>>, Status' \in {"idle", "over"}
      PROVE  [Calls!Next]_Calls!vars
  BY <1>2 DEF Calls!Next, Calls!Abort
<1>3. ASSUME mode \in {"compile", "run"}, Throw PROVE [Calls!Next]_Calls!vars
  BY <1>2, <1>3 DEF Throw, Status, AfterFailure
<1>4. ASSUME mode = "run", Trap PROVE [Calls!Next]_Calls!vars
  BY <1>2, <1>4 DEF Trap, Status, AfterFailure
<1>5. ASSUME mode = "run", Leave PROVE [Calls!Next]_Calls!vars
  <2>1. Status = "active" /\ stack' = Front(stack)
    BY <1>5 DEF Leave, Status
  <2>2. CASE Len(stack) = 1
    <3>1. Status' = "idle"
      BY <1>5, <2>2 DEF Leave, Status
    <3> QED  BY <2>1, <2>2, <3>1, PopIsReturn
  <2>3. CASE Len(stack) # 1
    <3>1. Status' = "active"
      BY <1>5, <2>3 DEF Leave, Status
    <3> QED  BY <2>1, <2>3, <3>1, PopIsReturn
  <2> QED  BY <2>2, <2>3
<1>6. ASSUME NEW f \in Exports, HostCall(f) PROVE [Calls!Next]_Calls!vars
  BY <1>6 DEF HostCall, Status, Inductive, ControlInv, Alive
<1>7. ASSUME NEW f \in Exports, HostEnter(f) PROVE [Calls!Next]_Calls!vars
  <2>1. Status = "idle" /\ stack = <<>>
    BY <1>7 DEF HostEnter, Status, Inductive, ControlInv
  <2>2. CASE mode' = "run" /\ stack' = <<f>>
    BY <2>1, <2>2 DEF Status, Calls!Next, Calls!Invoke
  <2>3. CASE mode' = AfterFailure("exception") /\ UNCHANGED stack
    BY <1>2, <2>1, <2>3 DEF Status, AfterFailure
  <2> QED  BY <1>7, <2>2, <2>3 DEF HostEnter
<1>8. ASSUME CompileStep PROVE [Calls!Next]_Calls!vars
  <2>1. CASE EnterCompiled
    <3>1. /\ mode = "compile" /\ mode' = "run" /\ stack' = Append(stack, want) /\ want \in Fn
      BY <2>1 DEF EnterCompiled, Inductive, ControlInv, TypeOK, Internal
    <3>2. CASE stack = <<>>
      <4>1. want \in Exports /\ Status = "idle" /\ Status' = "active"
        BY <3>1, <3>2 DEF WantInv, Status
      <4>2. stack' = <<want>>
        BY <3>1, <3>2
      <4> QED  BY <4>1, <4>2 DEF Calls!Next, Calls!Invoke
    <3>3. CASE stack # <<>>
      <4>1. <<Last(stack), want>> \in MayCall /\ Status = "active" /\ Status' = "active"
        BY <3>1, <3>3 DEF WantInv, Status
      <4> QED  BY <3>1, <4>1, PushIsCall
    <3> QED  BY <3>2, <3>3
  <2>2. CASE Link
    BY <1>1, <2>2 DEF Link, Inductive, ControlInv
  <2>3. CASE Emit
    BY <1>1, <2>3 DEF Emit, Inductive, ControlInv
  <2>4. CASE EmitThrows
    BY <1>3, <2>4 DEF EmitThrows
  <2>5. CASE CompileReturn
    BY <1>1, <2>5 DEF CompileReturn
  <2> QED  BY <1>8, <2>1, <2>2, <2>3, <2>4, <2>5 DEF CompileStep
<1>9. ASSUME NEW f \in Internal, NEW i \in 1 .. Len(Body[f]), CallDirect(f, i)
      PROVE  [Calls!Next]_Calls!vars
  <2> DEFINE g == Body[f][i].arg
  <2>1. /\ mode = "run" /\ f = Last(stack) /\ g \in Fn /\ stack' = Append(stack, g)
        /\ stack # <<>> /\ Body[f][i].kind = "call"
    BY <1>9 DEF CallDirect, Executes, InCode, Push, Inductive, ControlInv
  <2>2. slot[g] # Null
    <3>1. slot[f] # Null
      BY <2>1, TopHasSlot DEF Inductive, Alive
    <3> QED  BY <2>1, <3>1, ReadyToRun DEF Inductive, Alive, ControlInv
  <2>3. mode' = "run"
    BY <1>9, <2>2 DEF CallDirect
  <2>4. <<f, g>> \in MayCall
    BY <2>1 DEF MayCall, CallOp
  <2>5. Status = "active" /\ Status' = "active"
    BY <2>1, <2>3 DEF Status
  <2> HIDE DEF g
  <2> QED  BY <2>1, <2>4, <2>5, PushIsCall
<1>10. ASSUME NEW f \in Internal, NEW i \in 1 .. Len(Body[f]), NEW idx \in 0 .. Len(Table),
              CallIndirectJumps(f, i, idx)
       PROVE  [Calls!Next]_Calls!vars
  <2>1. PICK g \in Fn : IndirectTarget(Body[f][i].arg, idx, g) /\ stack' = Append(stack, g)
    BY <1>10 DEF CallIndirectJumps, Push
  <2>2. mode = "run" /\ mode' = "run" /\ f = Last(stack) /\ Body[f][i].kind = "calli"
    BY <1>10 DEF CallIndirectJumps, Executes, InCode
  <2>3. <<f, g>> \in MayCall
    BY <2>1, <2>2, IndirectIsACall
  <2>4. Status = "active" /\ Status' = "active"
    BY <2>2 DEF Status
  <2> QED  BY <2>1, <2>2, <2>3, <2>4, PushIsCall
<1>11. ASSUME NEW f \in Internal, NEW i \in 1 .. Len(Body[f]), NEW idx \in 0 .. Len(Table),
              CallIndirectCompiles(f, i, idx)
       PROVE  [Calls!Next]_Calls!vars
  <2>1. mode = "run" /\ mode' = "compile" /\ stack' = stack /\ stack # <<>>
    BY <1>11 DEF CallIndirectCompiles, Executes, InCode, Inductive, ControlInv
  <2>2. Status = "active" /\ Status' = "active"
    BY <2>1 DEF Status
  <2> QED  BY <2>1, <2>2
<1>12. ASSUME NEW f \in Internal, NEW i \in 1 .. Len(Body[f]),
              \/ HelperThrows(f, i)
              \/ Unreachable(f, i)
              \/ \E idx \in 0 .. Len(Table) : CallIndirectTraps(f, i, idx)
       PROVE  [Calls!Next]_Calls!vars
  <2>1. CASE HelperThrows(f, i)
    BY <1>3, <2>1 DEF HelperThrows, Executes, InCode
  <2>2. CASE Unreachable(f, i)
    BY <1>2, <2>2 DEF Unreachable, Executes, InCode, Status
  <2>3. CASE \E idx \in 0 .. Len(Table) : CallIndirectTraps(f, i, idx)
    BY <1>4, <2>3 DEF CallIndirectTraps, Executes, InCode
  <2> QED  BY <1>12, <2>1, <2>2, <2>3
<1>13. ASSUME NEW f \in Internal, Return(f) \/ RunsOff(f) PROVE [Calls!Next]_Calls!vars
  <2>1. CASE Return(f)
    BY <1>5, <2>1 DEF Return, InCode
  <2>2. CASE RunsOff(f)
    <3>1. Complete(f)
      BY <2>2, TopHasSlot, ReadyToRun DEF RunsOff, InCode, Inductive, ControlInv, Alive
    <3> QED  BY <2>2, <3>1 DEF RunsOff
  <2> QED  BY <1>13, <2>1, <2>2
<1>14. ASSUME ImportReturns \/ ImportThrows PROVE [Calls!Next]_Calls!vars
  BY <1>3, <1>5, <1>14 DEF ImportReturns, ImportThrows
<1>15. ASSUME Done \/ UNCHANGED vars PROVE [Calls!Next]_Calls!vars
  BY <1>1, <1>15 DEF Done, vars
<1> QED  BY <1>6, <1>7, <1>8, <1>9, <1>10, <1>11, <1>12, <1>13, <1>14, <1>15 DEF Next, RunStep

\* On-demand compilation, linking and page protection are invisible: with an embedder that
\* survives at most traps, the just-in-time machine implements the machine of WasmCalls.
THEOREM Refinement ==
  ASSUME "exception" \notin HostCatches
  PROVE  Spec => ImplementsWasmCalls
<1>1. Init => Calls!Init
  BY DEF Init, Calls!Init, Status
<1>2. Init => WantInv
  BY DEF Init, WantInv
<1>3. TypeOK /\ Inductive /\ WantInv /\ [Next]_vars => WantInv'
  BY WantKept
<1>4. TypeOK /\ Inductive /\ WantInv /\ [Next]_vars => [Calls!Next]_Calls!vars
  BY StepRefines
<1> QED  BY <1>1, <1>2, <1>3, <1>4, TypeCorrect, LinkedBeforeRun, PTL
         DEF Spec, ImplementsWasmCalls, Calls!Spec

-----------------------------------------------------------------------------
(* Import numbers                                                          *)

\* Imports call nothing: an activation of one is the innermost, and was entered with its number.
ImportInv ==
    /\ mode = "host" => stack = <<>>
    /\ mode \in {"compile", "run"} =>
           \A j \in 1 .. Len(stack) :
               IsImport(stack[j]) => mode = "run" /\ j = Len(stack) /\ ecx = stack[j]

\* A step that pushes g on internal activations.
LEMMA PushKeepsImports ==
  ASSUME TypeOK, NEW g \in Fn, stack' = Append(stack, g), IsImport(g) => ecx' = g,
         mode' \in {"run", "wild"},
         \A j \in 1 .. Len(stack) : ~IsImport(stack[j])
  PROVE  ImportInv'
<1>1. stack \in Seq(Fn)
  BY DEF TypeOK
<1>2. /\ Len(stack') = Len(stack) + 1
      /\ \A j \in 1 .. Len(stack) : stack'[j] = stack[j]
      /\ stack'[Len(stack) + 1] = g
  BY <1>1, AppendFacts
<1>3. Len(stack) \in Nat
  BY <1>1, LenProperties
<1>4. ASSUME mode' = "run", NEW j \in 1 .. Len(stack'), IsImport(stack'[j])
      PROVE  j = Len(stack') /\ ecx' = stack'[j]
  <2>1. j \notin 1 .. Len(stack)
    BY <1>2, <1>4
  <2>2. j = Len(stack) + 1
    BY <1>2, <1>3, <2>1
  <2> QED  BY <1>2, <1>4, <2>2
<1> QED  BY <1>4 DEF ImportInv, IsImport

\* A running function is internal, and so are its callers.
LEMMA OnlyInternal ==
  ASSUME TypeOK, ImportInv, NEW f, InCode(f)
  PROVE  \A j \in 1 .. Len(stack) : ~IsImport(stack[j])
<1>1. SUFFICES ASSUME NEW j \in 1 .. Len(stack), IsImport(stack[j]) PROVE FALSE
  OBVIOUS
<1>2. j = Len(stack)
  BY <1>1 DEF ImportInv, InCode
<1>3. Last(stack) = stack[j]
  BY <1>2 DEF Last
<1> QED  BY <1>1, <1>3 DEF InCode

\* An activation returns to an internal function, or to the host.
LEMMA LeaveKeepsImports == ASSUME TypeOK, ImportInv, mode = "run", Leave PROVE ImportInv'
<1> DEFINE n == Len(stack)
<1>1. stack \in Seq(Fn) /\ n \in Nat
  BY LenProperties DEF TypeOK
<1>2. Len(<<>>) = 0
  BY EmptySeq
<1>3. n # 0 => stack # <<>>
  BY <1>2
<1>4. stack # <<>> => Len(Front(stack)) = n - 1
  BY <1>1, FrontFacts
<1>5. \A j \in 1 .. n - 1 : Front(stack)[j] = stack[j]
  BY <1>1, FrontFacts
<1>6. Front(stack) \in Seq(Fn)
  BY <1>1, FrontFacts
<1>7. n = 1 => mode' = "host" /\ stack' = Front(stack)
  BY DEF Leave
<1>8. n # 1 => mode' = mode /\ stack' = Front(stack)
  BY DEF Leave
<1>9. n = 0 => Len(Front(stack)) = 0
  BY <1>1, SubSeqProperties DEF Front
<1>10. mode \in {"compile", "run"} =>
          \A j \in 1 .. n : IsImport(stack[j]) => mode = "run" /\ j = n /\ ecx = stack[j]
  BY DEF ImportInv
<1> HIDE DEF n
<1>11. CASE n = 1
  <2>1. mode' = "host" /\ stack' \in Seq(Fn) /\ Len(stack') = 0
    BY <1>1, <1>3, <1>4, <1>6, <1>7, <1>11
  <2> QED  BY <2>1, EmptySeq DEF ImportInv
<1>12. CASE n = 0
  <2>1. mode' = "run" /\ Len(stack') = 0
    BY <1>1, <1>8, <1>9, <1>12
  <2> QED  BY <2>1 DEF ImportInv
<1>13. CASE n > 1
  <2>1. /\ mode' = "run"
        /\ Len(stack') = n - 1
        /\ \A j \in 1 .. n - 1 : stack'[j] = stack[j]
    BY <1>1, <1>3, <1>4, <1>5, <1>8, <1>13
  <2>2. \A j \in 1 .. n - 1 : ~IsImport(stack[j])
    BY <1>1, <1>10, <1>13
  <2> QED  BY <2>1, <2>2 DEF ImportInv, IsImport
<1>14. n = 0 \/ n = 1 \/ n > 1
  BY <1>1
<1> QED  BY <1>11, <1>12, <1>13, <1>14

LEMMA ImportsKept ==
  ASSUME \A f \in Exports : ~IsImport(f), TypeOK, ImportInv, [Next]_vars
  PROVE  ImportInv'
<1>1. ASSUME stack' = <<>>, mode' # "run" \/ Len(stack') = 0 PROVE ImportInv'
  BY <1>1 DEF ImportInv
<1>2. ASSUME mode' \in {"over", "wild", "fault"} PROVE ImportInv'
  BY <1>2 DEF ImportInv
<1>3. ASSUME Throw \/ Trap PROVE ImportInv'
  BY <1>1, <1>3 DEF Throw, Trap, AfterFailure
<1>4. ASSUME NEW f \in Exports, HostCall(f) \/ HostEnter(f) PROVE ImportInv'
  <2>1. f \in Fn /\ ~IsImport(f)
    BY <1>4, ConstantsAssumption
  <2>2. mode = "host" /\ stack = <<>>
    BY <1>4 DEF HostCall, HostEnter, ImportInv
  <2>3. CASE HostCall(f) \/ (HostEnter(f) /\ stack' = stack)
    BY <1>2, <2>2, <2>3 DEF HostCall, HostEnter, ImportInv, AfterFailure
  <2>4. CASE HostEnter(f) /\ stack' # stack
    <3>1. stack' = <<f>> /\ mode' = "run"
      BY <2>4 DEF HostEnter
    <3>2. Len(stack') = 1 /\ stack'[1] = f
      BY <3>1, <2>1, SingletonFacts
    <3> QED  BY <2>1, <3>1, <3>2 DEF ImportInv, IsImport
  <2> QED  BY <1>4, <2>3, <2>4
<1>5. ASSUME CompileStep PROVE ImportInv'
  <2>1. CASE EnterCompiled
    <3>1. want \in Internal /\ \A j \in 1 .. Len(stack) : ~IsImport(stack[j])
      BY <2>1 DEF EnterCompiled, TypeOK, ImportInv
    <3>2. want \in Fn /\ ~IsImport(want)
      BY <3>1 DEF Internal
    <3> QED  BY <2>1, <3>1, <3>2, PushKeepsImports DEF EnterCompiled
  <2>2. ASSUME mode = "compile", UNCHANGED <<mode, stack, ecx>> PROVE ImportInv'
    BY <2>2 DEF ImportInv, IsImport
  <2>3. CASE Emit
    BY <1>2, <2>2, <2>3 DEF Emit, Fault
  <2>4. CASE Link
    BY <1>2, <2>2, <2>4 DEF Link
  <2> QED  BY <1>3, <1>5, <2>1, <2>2, <2>3, <2>4 DEF CompileStep, EmitThrows, CompileReturn
<1>6. ASSUME NEW f \in Internal, NEW i \in 1 .. Len(Body[f]), CallDirect(f, i) PROVE ImportInv'
  <2>1. Body[f][i].arg \in Fn
    BY <1>6, ConstantsAssumption DEF CallDirect
  <2>2. \A j \in 1 .. Len(stack) : ~IsImport(stack[j])
    BY <1>6, OnlyInternal DEF CallDirect, Executes
  <2> QED  BY <1>6, <2>1, <2>2, PushKeepsImports DEF CallDirect, Push, EcxForCall
<1>7. ASSUME NEW f \in Internal, NEW i \in 1 .. Len(Body[f]), NEW idx,
             CallIndirectJumps(f, i, idx)
      PROVE  ImportInv'
  <2>1. PICK g \in Fn : stack' = Append(stack, g) /\ ecx' = g /\ mode' = "run"
    BY <1>7 DEF CallIndirectJumps, Push, Executes, InCode
  <2>2. \A j \in 1 .. Len(stack) : ~IsImport(stack[j])
    BY <1>7, OnlyInternal DEF CallIndirectJumps, Executes
  <2> QED  BY <2>1, <2>2, PushKeepsImports
<1>8. ASSUME NEW f \in Internal, NEW i \in 1 .. Len(Body[f]), NEW idx,
             CallIndirectCompiles(f, i, idx)
      PROVE  ImportInv'
  <2>1. \A j \in 1 .. Len(stack) : ~IsImport(stack[j])
    BY <1>8, OnlyInternal DEF CallIndirectCompiles, Executes
  <2>2. stack' = stack /\ mode' = "compile"
    BY <1>8 DEF CallIndirectCompiles
  <2> QED  BY <2>1, <2>2 DEF ImportInv, IsImport
<1>9. ASSUME RunStep PROVE ImportInv'
  <2>1. PICK f \in Internal :
          \/ Return(f)
          \/ RunsOff(f)
          \/ \E i \in 1 .. Len(Body[f]) :
                \/ CallDirect(f, i)
                \/ HelperThrows(f, i)
                \/ Unreachable(f, i)
                \/ \E idx \in 0 .. Len(Table) :
                      \/ CallIndirectTraps(f, i, idx)
                      \/ CallIndirectJumps(f, i, idx)
                      \/ CallIndirectCompiles(f, i, idx)
    BY <1>9 DEF RunStep
  <2>2. CASE Return(f)
    BY <2>2, LeaveKeepsImports DEF Return, InCode
  <2>3. CASE RunsOff(f) \/ \E i \in 1 .. Len(Body[f]) : Unreachable(f, i)
    BY <1>2, <2>3 DEF RunsOff, Unreachable
  <2> QED  BY <1>3, <1>6, <1>7, <1>8, <2>1, <2>2, <2>3 DEF HelperThrows, CallIndirectTraps
<1>10. ASSUME ImportReturns \/ ImportThrows PROVE ImportInv'
  BY <1>3, <1>10, LeaveKeepsImports DEF ImportReturns, ImportThrows
<1>11. ASSUME Done \/ UNCHANGED vars PROVE ImportInv'
  BY <1>11 DEF Done, vars, ImportInv, IsImport
<1> QED  BY <1>4, <1>5, <1>9, <1>10, <1>11 DEF Next

\* If no export is an import, WasmToC always finds the number of the import it was entered
\* for, with every embedder and every table.
THEOREM EcxRight ==
  ASSUME \A f \in Exports : ~IsImport(f)
  PROVE  Spec => []EcxNamesImport
<1>1. Init => ImportInv
  BY DEF Init, ImportInv
<1>2. TypeOK /\ ImportInv /\ [Next]_vars => ImportInv'
  BY ImportsKept
<1>3. TypeOK /\ ImportInv => EcxNamesImport
  <2> SUFFICES ASSUME TypeOK, ImportInv, mode = "run", stack # <<>>, IsImport(Last(stack))
               PROVE  ecx = Last(stack)
    BY DEF EcxNamesImport
  <2>1. Len(stack) \in 1 .. Len(stack) /\ Last(stack) = stack[Len(stack)]
    BY LastFacts DEF TypeOK
  <2> QED  BY <2>1 DEF ImportInv
<1> QED  BY <1>1, <1>2, <1>3, TypeCorrect, PTL DEF Spec
=============================================================================
