-------------------------- MODULE TestHost_proofs --------------------------
(***************************************************************************)
(* The reader's stacks never run empty, for every script.                  *)
(***************************************************************************)
EXTENDS TestHost, SequenceTheorems, TLAPS

Inside == {"Quote", "Comment", "Command"}
ModeStacks == {<<"Whitespace">>} \cup {<<"Whitespace", m>> : m \in Inside}

\* cblock may run ahead of the commands that are open, inside a module say, or behind, after a
\* parenthesis too many; but while fNestCmd is on or a name is read, every parenthesis it
\* counts has a frame.
ReaderInv ==
    /\ stackMode \in ModeStacks
    /\ cblock \in Int
    /\ \E S : frames \in Seq(S)
    /\ cblock >= 1 => Len(frames) >= 1
    /\ (fNestCmd \/ Last(stackMode) = "Command") => cblock >= 1 /\ Len(frames) >= cblock

\* The lengths of the sequences that frames becomes.
LEMMA FramesAppend ==
  ASSUME NEW f, NEW e, \E S : f \in Seq(S)
  PROVE  (\E S : Append(f, e) \in Seq(S)) /\ Len(Append(f, e)) = Len(f) + 1 /\ Len(f) \in Nat
<1>1. PICK S : f \in Seq(S)
  OBVIOUS
<1>2. f \in Seq(S \cup {e})
  BY <1>1, SeqMonotonic
<1> QED  BY <1>2, AppendProperties, LenProperties

LEMMA FramesFront ==
  ASSUME NEW f, \E S : f \in Seq(S), Len(f) >= 1
  PROVE  (\E S : Front(f) \in Seq(S)) /\ Len(Front(f)) = Len(f) - 1
<1>1. PICK S : f \in Seq(S)
  OBVIOUS
<1>2. Len(f) \in Nat /\ \A i \in 1 .. Len(f) - 1 : f[i] \in S
  BY <1>1, ElementOfSeq, LenProperties
<1> DEFINE len == Len(f)
<1>3. len \in Nat /\ len >= 1
  BY <1>2
<1>4. /\ SubSeq(f, 1, len - 1) \in Seq(S)
      /\ Len(SubSeq(f, 1, len - 1)) = IF 1 <= len - 1 THEN len - 1 - 1 + 1 ELSE 0
  BY <1>2, SubSeqProperties
<1>5. Front(f) = SubSeq(f, 1, len - 1)
  BY DEF Front
<1> HIDE DEF len
<1>6. Len(SubSeq(f, 1, len - 1)) = len - 1
  BY <1>3, <1>4
<1> QED  BY <1>4, <1>5, <1>6 DEF len

LEMMA FramesExcept ==
  ASSUME NEW f, NEW e, \E S : f \in Seq(S), Len(f) >= 1
  PROVE  LET g == [f EXCEPT ![Len(f)].name = e]
         IN  (\E S : g \in Seq(S)) /\ Len(g) = Len(f)
<1> DEFINE r == [f[Len(f)] EXCEPT !.name = e]
           len == Len(f)
<1>1. PICK S : f \in Seq(S)
  OBVIOUS
<1>2. f \in Seq(S \cup {r}) /\ len \in 1 .. Len(f)
  BY <1>1, SeqMonotonic, LenProperties
<1>3. [f EXCEPT ![len] = r] \in Seq(S \cup {r}) /\ Len([f EXCEPT ![len] = r]) = Len(f)
  <2> HIDE DEF r, len
  <2> QED  BY <1>2, ExceptSeq
<1> QED  BY <1>3

\* What Append does.
LEMMA AppendFacts ==
  ASSUME NEW S, NEW s \in Seq(S), NEW e \in S
  PROVE  /\ Append(s, e) \in Seq(S)
         /\ Len(Append(s, e)) = Len(s) + 1
         /\ \A i \in 1 .. Len(s) : Append(s, e)[i] = s[i]
         /\ Append(s, e)[Len(s) + 1] = e
  OBVIOUS

\* The mode under the top one, and a mode pushed on it.
LEMMA ModePush ==
  ASSUME NEW v, NEW m
  PROVE  /\ Append(<<v>>, m) = <<v, m>>
         /\ Front(<<v, m>>) = <<v>>
<1> DEFINE S == {v, m}
           w == <<v>>
           wm == <<v, m>>
<1>0. v \in S /\ m \in S
  OBVIOUS
<1>1. /\ w \in Seq(S) /\ Len(w) = 1 /\ w[1] = v
      /\ wm \in Seq(S) /\ Len(wm) = 2 /\ wm[1] = v /\ wm[2] = m
  <2> HIDE DEF S
  <2> QED  BY <1>0
<1> HIDE DEF S, w, wm
<1>2. Append(w, m) = wm
  <2>1. /\ Append(w, m) \in Seq(S) /\ Len(Append(w, m)) = Len(w) + 1
        /\ \A i \in 1 .. Len(w) : Append(w, m)[i] = w[i]
        /\ Append(w, m)[Len(w) + 1] = m
    BY <1>0, <1>1, AppendFacts
  <2>2. \A i \in 1 .. 2 : Append(w, m)[i] = wm[i]
    BY <1>1, <2>1
  <2> QED  BY <1>1, <2>1, <2>2, SeqEqual
<1>3. Front(wm) = w
  <2>1. \A i \in 1 .. 1 : wm[i] \in S
    BY <1>0, <1>1
  <2>2. /\ SubSeq(wm, 1, 1) \in Seq(S)
        /\ Len(SubSeq(wm, 1, 1)) = IF 1 <= 1 THEN 1 - 1 + 1 ELSE 0
        /\ \A i \in 1 .. 1 - 1 + 1 : SubSeq(wm, 1, 1)[i] = wm[1 + i - 1]
    BY <2>1, SubSeqProperties
  <2>3. Len(SubSeq(wm, 1, 1)) = 1 /\ \A i \in 1 .. 1 : SubSeq(wm, 1, 1)[i] = w[i]
    BY <1>1, <2>2
  <2>4. SubSeq(wm, 1, 1) = w
    BY <1>1, <2>2, <2>3, SeqEqual
  <2>5. Len(wm) - 1 = 1
    BY <1>1
  <2> QED  BY <2>4, <2>5 DEF Front
<1> QED  BY <1>2, <1>3 DEF w, wm

\* A name that ends leaves the reader between commands.
LEMMA ModeFacts ==
  ASSUME ReaderInv
  PROVE  /\ Modes \in ModeStacks
         /\ Mode = "Whitespace" => Modes = <<"Whitespace">>
         /\ Mode # "Whitespace" => Front(Modes) = <<"Whitespace">>
         /\ Mode = "Command" <=> Last(stackMode) = "Command" /\ ~Named
         /\ Nest => cblock >= 1 /\ Len(frames) >= cblock
<1>1. ASSUME NEW m \in Inside PROVE Front(<<"Whitespace", m>>) = <<"Whitespace">>
  BY ModePush DEF Inside
<1>2. ASSUME NEW m \in Inside PROVE Last(<<"Whitespace", m>>) = m
  BY DEF Last
<1>3. Last(<<"Whitespace">>) = "Whitespace"
  BY DEF Last
<1>4. CASE Named
  <2>1. Modes = <<"Whitespace">>
    BY <1>1, <1>2, <1>3, <1>4 DEF Modes, Named, ReaderInv, ModeStacks
  <2> QED  BY <2>1, <1>3, <1>4 DEF Mode, Named, ModeStacks, Nest, ReaderInv
<1>5. CASE ~Named
  <2>1. Modes = stackMode
    BY <1>5 DEF Modes
  <2> QED  BY <2>1, <1>1, <1>2, <1>3, <1>5 DEF Mode, ReaderInv, ModeStacks, Nest, Inside
<1> QED  BY <1>4, <1>5

\* A character that is skipped, or begins or ends a string or a comment.
LEMMA SkipKeeps ==
  ASSUME ReaderInv, frames' = frames, cblock' = cblock, fNestCmd' = Nest,
         stackMode' \in {<<"Whitespace">>, <<"Whitespace", "Quote">>, <<"Whitespace", "Comment">>}
  PROVE  ReaderInv'
<1>1. stackMode' \in ModeStacks /\ Last(stackMode') # "Command"
  BY DEF ModeStacks, Inside, Last
<1> QED  BY <1>1, ModeFacts DEF ReaderInv

LEMMA ProcessedKeeps ==
  ASSUME ReaderInv, Mode = "Whitespace", cblock = 1 \/ Nest, Processed
  PROVE  ReaderInv'
<1>1. stackMode' = <<"Whitespace">>
  BY ModeFacts DEF Processed
<1>2. stackMode' \in ModeStacks /\ Last(stackMode') # "Command"
  BY <1>1 DEF ModeStacks, Last
<1>3. /\ cblock >= 1 /\ Len(frames) >= 1
      /\ cblock # 1 => Len(frames) >= cblock
  BY ModeFacts DEF ReaderInv
<1>4. (\E S : frames' \in Seq(S)) /\ Len(frames') = Len(frames) - 1
  BY <1>3, FramesFront DEF ReaderInv, Processed
<1>5. Len(frames) \in Nat
  BY FramesAppend DEF ReaderInv
<1>6. cblock' = cblock - 1 /\ fNestCmd' = (Nest /\ cblock # 1)
  BY DEF Processed
<1>7. cblock' >= 1 => Len(frames') >= 1
  BY <1>3, <1>4, <1>5, <1>6 DEF ReaderInv
<1>8. fNestCmd' => cblock' >= 1 /\ Len(frames') >= cblock'
  <2> SUFFICES ASSUME fNestCmd' PROVE cblock' >= 1 /\ Len(frames') >= cblock'
    OBVIOUS
  <2>1. cblock # 1 /\ cblock \in Int
    BY <1>6 DEF ReaderInv
  <2> QED  BY <1>3, <1>4, <1>5, <1>6, <2>1
<1>9. cblock' \in Int
  BY <1>6 DEF ReaderInv
<1> QED  BY <1>2, <1>4, <1>7, <1>8, <1>9 DEF ReaderInv

LEMMA ReaderKept == ASSUME ReaderInv, [Next]_vars PROVE ReaderInv'
<1> DEFINE W == <<"Whitespace">>
<1>1. ASSUME UNCHANGED parser PROVE ReaderInv'
  BY <1>1 DEF parser, ReaderInv
<1>2. CASE NextCommand
  BY <1>1, <1>2 DEF NextCommand
<1>3. CASE Name
  <2>1. Len(frames) >= 1
    BY <1>3, ModeFacts DEF Name, ReaderInv
  <2>2. (\E S : frames' \in Seq(S)) /\ Len(frames') = Len(frames)
    BY <1>3, <2>1, FramesExcept DEF Name, ReaderInv
  <2> QED  BY <1>3, <2>2 DEF Name, ReaderInv
<1>4. CASE Quote
  <2>1. stackMode' \in {W, <<"Whitespace", "Quote">>}
    <3>1. Mode = "Quote" => Modes = <<"Whitespace", "Quote">>
      BY ModeFacts DEF ModeStacks, Inside, Mode, Last
    <3>2. Append(W, "Quote") = <<"Whitespace", "Quote">>
      BY ModePush
    <3> QED  BY <1>4, <3>1, <3>2, ModeFacts DEF Quote
  <2> QED  BY <1>4, <2>1, SkipKeeps DEF Quote
<1>5. CASE Comment
  <2>1. stackMode' \in {W, <<"Whitespace", "Comment">>}
    <3>1. Mode = "Comment" => Modes = <<"Whitespace", "Comment">>
      BY ModeFacts DEF ModeStacks, Inside, Mode, Last
    <3>2. Append(W, "Comment") = <<"Whitespace", "Comment">>
      BY ModePush
    <3> QED  BY <1>5, <3>1, <3>2, ModeFacts DEF Comment
  <2> QED  BY <1>5, <2>1, SkipKeeps DEF Comment
<1>6. CASE Other
  BY <1>6, ModeFacts, SkipKeeps DEF Other
<1>7. CASE Open
  <2>1. Modes = W
    BY <1>7, ModeFacts DEF Open
  <2>2. CASE cblock = 0 \/ Nest
    <3>0. /\ frames' = Append(frames, [name |-> "", start |-> Len(text) + 1])
          /\ stackMode' = Append(W, "Command")
      BY <1>7, <2>1, <2>2 DEF Open
    <3>1. /\ \E S : frames' \in Seq(S)
          /\ Len(frames') = Len(frames) + 1 /\ Len(frames) \in Nat
      BY <3>0, FramesAppend DEF ReaderInv
    <3>2. stackMode' = <<"Whitespace", "Command">>
      BY <3>0, ModePush
    <3>3. stackMode' \in ModeStacks
      BY <3>2 DEF ModeStacks, Inside
    <3>4. cblock' = cblock + 1 /\ fNestCmd' = Nest
      BY <1>7 DEF Open
    <3>5. cblock' >= 1 => Len(frames') >= 1
      BY <3>1
    <3>6. cblock' >= 1 /\ Len(frames') >= cblock'
      BY <2>2, <3>1, <3>4, ModeFacts DEF ReaderInv
    <3> QED  BY <3>1, <3>3, <3>4, <3>5, <3>6 DEF ReaderInv
  <2>3. CASE ~(cblock = 0 \/ Nest)
    <3>1. stackMode' = W /\ frames' = frames
      BY <1>7, <2>1, <2>3 DEF Open
    <3>2. stackMode' \in ModeStacks /\ Last(stackMode') # "Command"
      BY <3>1 DEF ModeStacks, Last
    <3> QED  BY <1>7, <2>3, <3>1, <3>2 DEF Open, ReaderInv
  <2> QED  BY <2>2, <2>3
<1>8. CASE CloseCounted
  <2>1. stackMode' = W /\ frames' = frames
    BY <1>8, ModeFacts DEF CloseCounted, Closes
  <2>2. stackMode' \in ModeStacks /\ Last(stackMode') # "Command"
    BY <2>1 DEF ModeStacks, Last
  <2> QED  BY <1>8, <2>1, <2>2 DEF CloseCounted, ReaderInv
<1>9. ASSUME NEW how, Stop(how) PROVE ReaderInv'
  BY <1>1, <1>9 DEF Stop
<1>10. CASE Module
  BY <1>9, <1>10, ProcessedKeeps DEF Module, Process, Closes
<1>11. CASE ProcessInvoke
  BY <1>9, <1>11, ProcessedKeeps DEF ProcessInvoke, Process, Closes
<1>12. CASE AssertReturn
  BY <1>9, <1>12, ProcessedKeeps DEF AssertReturn, Process, Closes
<1>13. CASE Unsupported
  BY <1>13, ProcessedKeeps DEF Unsupported, Process, Closes
<1>14. CASE Expected
  BY <1>9, <1>14, ProcessedKeeps DEF Expected, Process, Closes
<1>15. CASE EndOfFile
  BY <1>1, <1>15 DEF EndOfFile
<1>16. CASE Done \/ UNCHANGED vars
  BY <1>1, <1>16 DEF Done, vars
<1> QED  BY <1>2, <1>3, <1>4, <1>5, <1>6, <1>7, <1>8, <1>10, <1>11, <1>12, <1>13, <1>14,
            <1>15, <1>16 DEF Next

\* The reader never looks at or pops an empty stack, whatever characters the script has.
THEOREM StacksNeverEmpty == Spec => []NeverUnderflows
<1>1. Init => ReaderInv
  <2> SUFFICES ASSUME Init PROVE ReaderInv
    OBVIOUS
  <2>1. Last(<<"Whitespace">>) = "Whitespace"
    BY DEF Last
  <2>2. <<>> \in Seq({}) /\ Len(<<>>) = 0
    BY EmptySeq
  <2> QED  BY <2>1, <2>2 DEF Init, ReaderInv, ModeStacks
<1>2. ReaderInv /\ [Next]_vars => ReaderInv'
  BY ReaderKept
<1>3. ReaderInv => NeverUnderflows
  <2> SUFFICES ASSUME ReaderInv PROVE NeverUnderflows
    OBVIOUS
  <2>1. \A s \in ModeStacks : s # <<>>
    BY DEF ModeStacks
  <2>2. Len(<<>>) = 0
    BY EmptySeq
  <2>3. stackMode # <<>> /\ Modes # <<>>
    BY <2>1, ModeFacts DEF ReaderInv
  <2>4. cblock >= 1 => frames # <<>>
    BY <2>2 DEF ReaderInv
  <2>5. Last(stackMode) = "Command" \/ Nest => cblock >= 1
    BY ModeFacts DEF ReaderInv
  <2>6. cblock = 1 => cblock >= 1
    OBVIOUS
  <2> QED  BY <2>3, <2>4, <2>5, <2>6 DEF NeverUnderflows
<1> QED  BY <1>1, <1>2, <1>3, PTL DEF Spec
=============================================================================
