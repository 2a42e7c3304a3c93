------------------------- MODULE StackLayout_proofs -------------------------
(***************************************************************************)
(* What the compiler of StackCode leaves behind, for functions of every    *)
(* length: which blocks are open and how many operands are live before     *)
(* each instruction, where in the code its template is, and where each     *)
(* branch goes.                                                            *)
(***************************************************************************)
EXTENDS StackCode_proofs

-----------------------------------------------------------------------------
(* The flow of the bytecode.  f[i] is what the validator knows before      *)
(* instruction i: the open blocks as labels, the number of operands, and   *)
(* whether the point can be reached.  The operators take the bytecode pg   *)
(* and the family fam as parameters.                                       *)

Labels == [at : Nat, height : Nat]
Points == [labels : Seq(Labels), height : Nat, live : BOOLEAN]
Entered == [labels |-> <<Label(0, 0)>>, height |-> 0, live |-> TRUE]

Openers == {"block", "loop", "if"}
Nth(labels, d) == labels[Len(labels) - d]

\* The operands a block leaves, and those a branch to it takes.
Leaves(pg, fam, a) == IF a = 0 THEN fam.arity ELSE pg[a].n
Takes(pg, fam, a) == IF a # 0 /\ pg[a].op = "loop" THEN 0 ELSE Leaves(pg, fam, a)

\* The operands of the innermost block.
Spare(s) == s.height - Last(s.labels).height

\* A branch from s to the block at depth d that keeps `more' operands for itself.
Branches(pg, fam, s, d, more) ==
    d \in 0 .. Len(s.labels) - 1 /\ Spare(s) >= Takes(pg, fam, Nth(s.labels, d).at) + more

\* What instruction i makes of the point s before it.
Moves(pg, fam, i, s, t) ==
    LET ins == pg[i]
        top == Last(s.labels)
    IN  /\ Len(s.labels) >= 1
        /\ ins.op \in PlainOps =>
              /\ PlainOK(fam, ins) /\ s.live /\ t.live /\ t.labels = s.labels
              /\ Pops(ins) <= Spare(s) /\ t.height = s.height - Pops(ins) + Pushes(ins)
        /\ ins.op \in {"block", "loop"} =>
              s.live /\ t.live /\ t.labels = Append(s.labels, Label(i, s.height)) /\ t.height = s.height
        /\ ins.op = "if" =>
              /\ s.live /\ t.live /\ Spare(s) >= 1
              /\ t.labels = Append(s.labels, Label(i, s.height - 1)) /\ t.height = s.height - 1
        /\ ins.op = "else" =>
              /\ s.live => Spare(s) = Leaves(pg, fam, top.at)
              /\ t.live /\ t.labels = s.labels /\ t.height = top.height
              /\ top.at # 0 /\ Leaves(pg, fam, top.at) \in fam.elses /\ ins.n = 0 /\ pg[top.at].op = "if"
        /\ ins.op = "end" =>
              /\ s.live => Spare(s) = Leaves(pg, fam, top.at)
              /\ t.live /\ t.labels = Front(s.labels) /\ t.height = top.height + Leaves(pg, fam, top.at)
        /\ ins.op \in {"br", "br_if", "br_table", "return"} => s.live /\ t.labels = s.labels
        /\ ins.op = "br" => Branches(pg, fam, s, ins.n, 0)
        /\ ins.op = "br_if" => t.live /\ t.height = s.height - 1 /\ Branches(pg, fam, s, ins.n, 1)
        /\ ins.op = "br_table" =>
              /\ "br_table" \in fam.branches /\ Branches(pg, fam, s, ins.n, 1)
              /\ \A k \in 1 .. Len(ins.ts) :
                    /\ Branches(pg, fam, s, ins.ts[k], 1)
                    /\ Takes(pg, fam, Nth(s.labels, ins.ts[k]).at) = Takes(pg, fam, Nth(s.labels, ins.n).at)
        /\ ins.op = "return" => Spare(s) >= fam.arity

\* The labels before instruction i are those of the openers, each around the next.
Nested(pg, f, i) ==
    \A j \in 1 .. Len(f[i].labels) :
        LET l == f[i].labels[j]
        IN  /\ l.at < i /\ (l.at = 0 <=> j = 1)
            /\ l.at # 0 => pg[l.at].op \in Openers
            /\ SubSeq(f[i].labels, 1, j) = f[l.at + 1].labels
            /\ l.height <= f[i].height
            /\ \A k \in 1 .. j - 1 : f[i].labels[k].height <= l.height /\ f[i].labels[k].at < l.at

\* The operand stack is no deeper than the function is long.
Bounded(fam, f, i) ==
    f[i].height + Len(f[i].labels) <= i /\ f[i].height + Len(f[i].labels) <= fam.len + 1

\* The opener a, of a block that is still open if `a \in open': after its else the operands are as
\* after a, after its end as a block leaves them.
Closed(pg, fam, cl, open, f, a) ==
    /\ a <= fam.len /\ <<pg[a].op, pg[a].n>> \in fam.openers
    /\ cl[a].end = 0 => a \in open
    /\ cl[a].end # 0 =>
          /\ cl[a].end \in a + 1 .. Len(pg) /\ f[cl[a].end + 1].live
          /\ f[cl[a].end + 1].labels = Front(f[a + 1].labels)
          /\ f[cl[a].end + 1].height = Last(f[a + 1].labels).height + pg[a].n
          /\ pg[a].op = "if" /\ pg[a].n = 1 => cl[a].els # 0
    /\ cl[a].els # 0 =>
          /\ cl[a].els \in a + 1 .. Len(pg) /\ f[cl[a].els + 1].live
          /\ pg[cl[a].els].op = "else" /\ pg[a].op = "if"
          /\ f[cl[a].els + 1].labels = f[a + 1].labels
          /\ f[cl[a].els + 1].height = Last(f[a + 1].labels).height

Flows(pg, fam, cl, open, f) ==
    /\ f \in [1 .. Len(pg) + 1 -> Points]
    /\ cl \in [1 .. fam.len -> [els : Nat, end : Nat]]
    /\ f[1] = Entered
    /\ \A i \in 1 .. Len(pg) : Moves(pg, fam, i, f[i], f[i + 1])
    /\ \A i \in 1 .. Len(pg) + 1 : Nested(pg, f, i) /\ Bounded(fam, f, i)
    /\ \A a \in 1 .. Len(pg) : pg[a].op \in Openers => Closed(pg, fam, cl, open, f, a)
    /\ \A a \in 1 .. fam.len : a > Len(pg) => cl[a] = [els |-> 0, end |-> 0]

-----------------------------------------------------------------------------
(* Longer bytecode.                                                        *)

Extended(f, m, p) == [i \in 1 .. m + 2 |-> IF i = m + 2 THEN p ELSE f[i]]

\* h says of the first m points what f does.
Keeps(f, h, m) == \A i \in 1 .. m : h[i] = f[i]

LEMMA ExtendedFacts ==
  ASSUME NEW m \in Nat, NEW f \in [1 .. m + 1 -> Points], NEW p \in Points
  PROVE  /\ Extended(f, m, p) \in [1 .. m + 2 -> Points]
         /\ \A i \in 1 .. m + 1 : Extended(f, m, p)[i] = f[i]
         /\ Extended(f, m, p)[m + 2] = p
<1>1. Extended(f, m, p) \in [1 .. m + 2 -> Points]
  <2>1. \A i \in 1 .. m + 2 : i # m + 2 => i \in 1 .. m + 1
    OBVIOUS
  <2> QED  BY <2>1 DEF Extended
<1>2. \A i \in 1 .. m + 1 : i \in 1 .. m + 2 /\ i # m + 2
  OBVIOUS
<1>3. m + 2 \in 1 .. m + 2
  OBVIOUS
<1> QED  BY <1>1, <1>2, <1>3 DEF Extended

LEMMA PointFacts ==
  ASSUME NEW p \in Points
  PROVE  /\ p.labels \in Seq(Labels) /\ Len(p.labels) \in Nat /\ p.height \in Nat /\ p.live \in BOOLEAN
         /\ \A j \in 1 .. Len(p.labels) : /\ p.labels[j] \in Labels
                                          /\ p.labels[j].at \in Nat /\ p.labels[j].height \in Nat
         /\ Len(p.labels) >= 1 => Last(p.labels) = p.labels[Len(p.labels)]
<1>1. p.labels \in Seq(Labels) /\ p.height \in Nat /\ p.live \in BOOLEAN
  BY DEF Points
<1>2. \A j \in 1 .. Len(p.labels) : p.labels[j] \in Labels
  BY <1>1, ElementOfSeq
<1> QED  BY <1>1, <1>2, LenProperties DEF Labels, Last

\* What was said of the instructions so far is said of them in the longer bytecode.
LEMMA MovesKept ==
  ASSUME NEW pg, NEW pg2, NEW fam, NEW i \in Nat \ {0}, NEW s \in Points, NEW t,
         \A a \in 1 .. i : pg2[a] = pg[a],
         \A j \in 1 .. Len(s.labels) : s.labels[j].at < i,
         Moves(pg, fam, i, s, t)
  PROVE  Moves(pg2, fam, i, s, t)
<1>1. pg2[i] = pg[i]
  OBVIOUS
<1>2. \A j \in 1 .. Len(s.labels) : s.labels[j].at \in Nat
  BY PointFacts
<1>3. \A a \in Nat : a < i => /\ Leaves(pg2, fam, a) = Leaves(pg, fam, a)
                              /\ Takes(pg2, fam, a) = Takes(pg, fam, a)
                              /\ a # 0 => pg2[a] = pg[a]
  BY DEF Leaves, Takes
<1>4. Len(s.labels) \in Nat
  BY PointFacts
<1>5. Len(s.labels) >= 1 => Last(s.labels).at \in Nat /\ Last(s.labels).at < i
  BY <1>2, <1>4, PointFacts
<1>6. \A d, more : Branches(pg, fam, s, d, more) =>
            Branches(pg2, fam, s, d, more) /\ Takes(pg2, fam, Nth(s.labels, d).at) = Takes(pg, fam, Nth(s.labels, d).at)
  <2> SUFFICES ASSUME NEW d, NEW more, Branches(pg, fam, s, d, more)
               PROVE  Branches(pg2, fam, s, d, more)
                      /\ Takes(pg2, fam, Nth(s.labels, d).at) = Takes(pg, fam, Nth(s.labels, d).at)
    OBVIOUS
  <2>1. d \in 0 .. Len(s.labels) - 1
    BY DEF Branches
  <2>2. Len(s.labels) - d \in 1 .. Len(s.labels)
    BY <1>4, <2>1
  <2>3. Nth(s.labels, d).at \in Nat /\ Nth(s.labels, d).at < i
    BY <1>2, <2>2 DEF Nth
  <2> QED  BY <1>3, <2>3 DEF Branches
<1>7. Len(s.labels) >= 1
  BY DEF Moves
<1> QED  BY <1>1, <1>3, <1>5, <1>6, <1>7 DEF Moves

-----------------------------------------------------------------------------
(* One more instruction.                                                   *)

LEMMA AppendedProg ==
  ASSUME NEW pg \in Seq(Bytecode), NEW ins \in Bytecode, NEW pg2, pg2 = Append(pg, ins)
  PROVE  /\ pg2 \in Seq(Bytecode) /\ Len(pg) \in Nat /\ Len(pg2) = Len(pg) + 1
         /\ \A i \in 1 .. Len(pg) : pg2[i] = pg[i] /\ pg[i] \in Bytecode
         /\ pg2[Len(pg) + 1] = ins
<1>1. pg2 \in Seq(Bytecode) /\ Len(pg2) = Len(pg) + 1 /\ pg2[Len(pg) + 1] = ins
      /\ \A i \in 1 .. Len(pg) : pg2[i] = pg[i]
  BY AppendFacts
<1> QED  BY <1>1, LenProperties, ElementOfSeq

\* Points before the new instruction keep what Nested says of them.
LEMMA NestedKept ==
  ASSUME NEW pg, NEW pg2, NEW f, NEW h, NEW m \in Nat, NEW i \in 1 .. m,
         \A k \in 1 .. m : h[k] = f[k] /\ f[k] \in Points,
         \A k \in 1 .. m - 1 : pg2[k] = pg[k],
         Nested(pg, f, i)
  PROVE  Nested(pg2, h, i)
<1> SUFFICES ASSUME NEW j \in 1 .. Len(h[i].labels)
             PROVE  LET l == h[i].labels[j]
                    IN  /\ l.at < i /\ (l.at = 0 <=> j = 1)
                        /\ l.at # 0 => pg2[l.at].op \in Openers
                        /\ SubSeq(h[i].labels, 1, j) = h[l.at + 1].labels
                        /\ l.height <= h[i].height
                        /\ \A k \in 1 .. j - 1 : h[i].labels[k].height <= l.height /\ h[i].labels[k].at < l.at
  BY DEF Nested
<1>1. h[i] = f[i] /\ f[i] \in Points
  OBVIOUS
<1> DEFINE l == f[i].labels[j]
<1>2. /\ l.at < i /\ (l.at = 0 <=> j = 1)
      /\ l.at # 0 => pg[l.at].op \in Openers
      /\ SubSeq(f[i].labels, 1, j) = f[l.at + 1].labels
      /\ l.height <= f[i].height
      /\ \A k \in 1 .. j - 1 : f[i].labels[k].height <= l.height /\ f[i].labels[k].at < l.at
  BY <1>1 DEF Nested
<1>3. l.at \in Nat
  BY <1>1, PointFacts
<1>4. l.at + 1 \in 1 .. m /\ (l.at # 0 => l.at \in 1 .. m - 1)
  BY <1>2, <1>3
<1>5. h[l.at + 1] = f[l.at + 1] /\ (l.at # 0 => pg2[l.at] = pg[l.at])
  BY <1>4
<1> QED  BY <1>1, <1>2, <1>5

\* An opener whose else and end the new instruction is not.
LEMMA ClosedKept ==
  ASSUME NEW pg \in Seq(Bytecode), NEW pg2, NEW fam, NEW cl, NEW cl2, NEW open, NEW open2, NEW f, NEW h,
         NEW m \in Nat, Len(pg) = m, Len(pg2) = m + 1,
         \A k \in 1 .. m + 1 : h[k] = f[k],
         \A k \in 1 .. m : pg2[k] = pg[k],
         NEW a \in 1 .. m, cl2[a] = cl[a], cl[a].end \in Nat, cl[a].els \in Nat,
         a \in open => a \in open2,
         Closed(pg, fam, cl, open, f, a)
  PROVE  Closed(pg2, fam, cl2, open2, h, a)
<1>1. pg2[a] = pg[a] /\ h[a + 1] = f[a + 1]
  OBVIOUS
<1>2. cl[a].end # 0 => /\ cl[a].end \in a + 1 .. m + 1 
                       /\ h[cl[a].end + 1] = f[cl[a].end + 1]
  BY DEF Closed
<1>3. cl[a].els # 0 => /\ cl[a].els \in a + 1 .. m + 1 /\ pg2[cl[a].els] = pg[cl[a].els]
                       /\ h[cl[a].els + 1] = f[cl[a].els + 1]
  BY DEF Closed
<1> QED  BY <1>1, <1>2, <1>3 DEF Closed

\* What a handler has to show of the flow.
LEMMA FlowsOn ==
  ASSUME NEW pg \in Seq(Bytecode), NEW ins \in Bytecode, NEW pg2, pg2 = Append(pg, ins),
         NEW fam, NEW cl, NEW cl2, NEW open, NEW open2, NEW f, NEW h, NEW p \in Points,
         Flows(pg, fam, cl, open, f), fam.len \in Nat,
         h = Extended(f, Len(pg), p),
         cl2 \in [1 .. fam.len -> [els : Nat, end : Nat]],
         Moves(pg2, fam, Len(pg2), h[Len(pg2)], p),
         Nested(pg2, h, Len(pg2) + 1), Bounded(fam, h, Len(pg2) + 1),
         \A a \in 1 .. Len(pg) : pg[a].op \in Openers =>
            \/ cl2[a] = cl[a] /\ (a \in open => a \in open2)
            \/ Closed(pg2, fam, cl2, open2, h, a),
         ins.op \in Openers => Closed(pg2, fam, cl2, open2, h, Len(pg2)),
         \A a \in 1 .. fam.len : a > Len(pg) => cl2[a] = cl[a]
  PROVE  Flows(pg2, fam, cl2, open2, h)
<1> DEFINE m == Len(pg)
<1>1. /\ pg2 \in Seq(Bytecode) /\ m \in Nat /\ Len(pg2) = m + 1
      /\ \A i \in 1 .. m : pg2[i] = pg[i]
      /\ pg2[m + 1] = ins
  BY AppendedProg
<1>2. f \in [1 .. m + 1 -> Points]
  BY DEF Flows
<1>3. /\ h \in [1 .. m + 2 -> Points]
      /\ \A i \in 1 .. m + 1 : h[i] = f[i] /\ f[i] \in Points
      /\ h[m + 2] = p
  BY <1>1, <1>2, ExtendedFacts
<1> HIDE DEF m
<1>4. h[1] = Entered
  BY <1>1, <1>3 DEF Flows
<1>5. ASSUME NEW i \in 1 .. m + 1 PROVE Moves(pg2, fam, i, h[i], h[i + 1])
  <2>1. CASE i = m + 1
    BY <1>1, <1>3, <2>1
  <2>2. CASE i \in 1 .. m
    <3>1. Moves(pg, fam, i, f[i], f[i + 1]) /\ Nested(pg, f, i)
      BY <1>1, <2>2 DEF Flows, m
    <3>2. \A j \in 1 .. Len(f[i].labels) : f[i].labels[j].at < i
      BY <3>1 DEF Nested
    <3>3. h[i] = f[i] /\ h[i + 1] = f[i + 1] /\ f[i] \in Points
      BY <1>1, <1>3, <2>2
    <3>4. \A a \in 1 .. i : pg2[a] = pg[a]
      BY <1>1, <2>2
    <3>5. Moves(pg2, fam, i, f[i], f[i + 1])
      <4>1. i \in Nat \ {0}
        OBVIOUS
      <4> QED  BY <3>1, <3>2, <3>3, <3>4, <4>1, MovesKept
    <3> QED  BY <3>3, <3>5
  <2> QED  BY <1>1, <2>1, <2>2
<1>6. ASSUME NEW i \in 1 .. m + 2 PROVE Nested(pg2, h, i) /\ Bounded(fam, h, i)
  <2>1. CASE i = m + 2
    BY <1>1, <2>1
  <2>2. CASE i \in 1 .. m + 1
    <3>1. Nested(pg, f, i) /\ Bounded(fam, f, i)
      BY <1>1, <2>2 DEF Flows, m
    <3>2. Nested(pg2, h, i)
      <4> DEFINE q == m + 1
      <4>1. \A k \in 1 .. q : h[k] = f[k] /\ f[k] \in Points
        BY <1>3
      <4>2. \A k \in 1 .. q - 1 : pg2[k] = pg[k]
        BY <1>1
      <4>3. q \in Nat /\ i \in 1 .. q
        BY <1>1, <2>2
      <4> HIDE DEF q
      <4> QED  BY <3>1, <4>1, <4>2, <4>3, NestedKept
    <3>3. h[i] = f[i]
      BY <1>3, <2>2
    <3>4. Bounded(fam, h, i)
      BY <3>1, <3>3 DEF Bounded
    <3> QED  BY <3>2, <3>4
  <2> QED  BY <1>1, <2>1, <2>2
<1>7. ASSUME NEW a \in 1 .. m + 1, pg2[a].op \in Openers PROVE Closed(pg2, fam, cl2, open2, h, a)
  <2>1. CASE a = m + 1
    BY <1>1, <1>7, <2>1
  <2>2. CASE a \in 1 .. m
    <3>1. pg[a].op \in Openers
      BY <1>1, <1>7, <2>2
    <3>2. CASE cl2[a] = cl[a] /\ (a \in open => a \in open2)
      <4>1. Closed(pg, fam, cl, open, f, a)
        BY <2>2, <3>1 DEF Flows, m
      <4>2. cl[a].end \in Nat /\ cl[a].els \in Nat
        <5>1. a \in 1 .. fam.len
          BY <2>2, <4>1 DEF Closed
        <5> QED  BY <5>1 DEF Flows
      <4>3. Len(pg) = m
        BY DEF m
      <4> QED  BY <1>1, <1>3, <2>2, <3>2, <4>1, <4>2, <4>3, ClosedKept
    <3> QED  BY <2>2, <3>1, <3>2 DEF m
  <2> QED  BY <1>1, <2>1, <2>2
<1>8. ASSUME NEW a \in 1 .. fam.len, a > m + 1 PROVE cl2[a] = [els |-> 0, end |-> 0]
  <2>1. a > m
    BY <1>1, <1>8
  <2> QED  BY <2>1 DEF Flows, m
<1> QED  BY <1>1, <1>3, <1>4, <1>5, <1>6, <1>7, <1>8 DEF Flows

\* The labels of the point p after i = m + 1 instructions: as before, one more, or one less.
LEMMA NestedSame ==
  ASSUME NEW pg, NEW pg2, NEW f, NEW h, NEW m \in Nat, NEW p \in Points,
         \A k \in 1 .. m : h[k] = f[k] /\ f[k] \in Points, h[m + 1] = p,
         \A k \in 1 .. m - 1 : pg2[k] = pg[k], m >= 1,
         Nested(pg, f, m), Len(f[m].labels) >= 1,
         p.labels = f[m].labels, p.height >= Last(f[m].labels).height
  PROVE  Nested(pg2, h, m + 1)
<1> SUFFICES ASSUME NEW j \in 1 .. Len(p.labels)
             PROVE  LET l == p.labels[j]
                    IN  /\ l.at < m + 1 /\ (l.at = 0 <=> j = 1)
                        /\ l.at # 0 => pg2[l.at].op \in Openers
                        /\ SubSeq(p.labels, 1, j) = h[l.at + 1].labels
                        /\ l.height <= p.height
                        /\ \A k \in 1 .. j - 1 : p.labels[k].height <= l.height /\ p.labels[k].at < l.at
  BY DEF Nested
<1> DEFINE labels == f[m].labels
           l == labels[j]
           D == Len(labels)
<1>1. f[m] \in Points /\ D \in Nat /\ j \in 1 .. D
  BY PointFacts
<1>2. /\ l.at < m /\ (l.at = 0 <=> j = 1)
      /\ l.at # 0 => pg[l.at].op \in Openers
      /\ SubSeq(labels, 1, j) = f[l.at + 1].labels
      /\ \A k \in 1 .. j - 1 : labels[k].height <= l.height /\ labels[k].at < l.at
  BY <1>1 DEF Nested
<1>3. l.at \in Nat /\ l.height \in Nat /\ labels[D].height \in Nat /\ p.height \in Nat
  BY <1>1, PointFacts
<1>4. l.at + 1 \in 1 .. m /\ (l.at # 0 => l.at \in 1 .. m - 1) /\ l.at < m + 1
  <2>1. l.at < m /\ l.at \in Nat
    BY <1>2, <1>3
  <2> HIDE DEF l
  <2> QED  BY <2>1
<1>5. h[l.at + 1] = f[l.at + 1] /\ (l.at # 0 => pg2[l.at] = pg[l.at])
  BY <1>4
<1>6. l.height <= labels[D].height
  <2>1. CASE j = D
    BY <1>3, <2>1
  <2>2. CASE j # D
    <3>1. D \in 1 .. D /\ j \in 1 .. D - 1
      BY <1>1, <2>2
    <3> QED  BY <3>1 DEF Nested
  <2> QED  BY <2>1, <2>2
<1>7. l.height <= p.height
  BY <1>3, <1>6 DEF Last
<1>8. p.labels = labels /\ h[m + 1] = p
  OBVIOUS
<1> HIDE DEF labels
<1> QED  BY <1>2, <1>4, <1>5, <1>7, <1>8, Zenon

LEMMA NestedPush ==
  ASSUME NEW pg, NEW pg2, NEW f, NEW h, NEW m \in Nat, NEW p \in Points,
         \A k \in 1 .. m : h[k] = f[k] /\ f[k] \in Points, h[m + 1] = p,
         \A k \in 1 .. m - 1 : pg2[k] = pg[k], m >= 1, pg2[m].op \in Openers,
         Nested(pg, f, m), Len(f[m].labels) >= 1,
         p.labels = Append(f[m].labels, Label(m, p.height)), p.height >= Last(f[m].labels).height
  PROVE  Nested(pg2, h, m + 1)
<1> DEFINE labels == f[m].labels
           D == Len(labels)
           new == Label(m, p.height)
<1>1. f[m] \in Points /\ labels \in Seq(Labels) /\ D \in Nat /\ p.height \in Nat
  BY PointFacts
<1>2. new \in Labels /\ new.at = m /\ new.height = p.height
  BY <1>1 DEF Label, Labels
<1> HIDE DEF new
<1>3. /\ p.labels \in Seq(Labels) /\ Len(p.labels) = D + 1
      /\ \A i \in 1 .. D : p.labels[i] = labels[i]
      /\ p.labels[D + 1] = new
  <2>1. p.labels = Append(labels, new)
    BY DEF new
  <2> HIDE DEF labels
  <2> QED  BY <1>1, <1>2, <2>1, AppendFacts
<1> SUFFICES ASSUME NEW j \in 1 .. Len(p.labels)
             PROVE  LET l == p.labels[j]
                    IN  /\ l.at < m + 1 /\ (l.at = 0 <=> j = 1)
                        /\ l.at # 0 => pg2[l.at].op \in Openers
                        /\ SubSeq(p.labels, 1, j) = h[l.at + 1].labels
                        /\ l.height <= p.height
                        /\ \A k \in 1 .. j - 1 : p.labels[k].height <= l.height /\ p.labels[k].at < l.at
  BY DEF Nested
<1>4. \A k \in 1 .. D : /\ labels[k].at \in Nat /\ labels[k].height \in Nat /\ labels[k].at < m
                        /\ labels[k].height <= labels[D].height
  <2> SUFFICES ASSUME NEW k \in 1 .. D
               PROVE  /\ labels[k].at \in Nat /\ labels[k].height \in Nat /\ labels[k].at < m
                      /\ labels[k].height <= labels[D].height
    OBVIOUS
  <2>1. /\ labels[k].at \in Nat /\ labels[k].height \in Nat
    BY <1>1, PointFacts
  <2>2. labels[k].at < m
    BY DEF Nested
  <2>3. CASE k = D
    BY <2>1, <2>2, <2>3
  <2>4. CASE k # D
    <3>1. D \in 1 .. D /\ k \in 1 .. D - 1
      BY <1>1, <2>4
    <3>2. labels[k].height <= labels[D].height
      BY <3>1 DEF Nested
    <3> QED  BY <2>1, <2>2, <3>2
  <2> QED  BY <2>3, <2>4
<1>5. CASE j = D + 1
  <2>1. p.labels[j] = new /\ h[new.at + 1] = p
    BY <1>2, <1>3, <1>5
  <2>2. SubSeq(p.labels, 1, j) = p.labels
    <3> DEFINE q == p.labels
    <3>1. q \in Seq(Labels) /\ j = Len(q)
      BY <1>3, <1>5
    <3> HIDE DEF q
    <3>2. Len(q) \in 0 .. Len(q)
      BY <3>1, LenProperties
    <3>3. /\ SubSeq(q, 1, j) \in Seq(Labels) /\ Len(SubSeq(q, 1, j)) = j
          /\ \A i \in 1 .. j : SubSeq(q, 1, j)[i] = q[i]
      BY <3>1, <3>2, SubSeqFacts
    <3>4. SubSeq(q, 1, j) = q
      BY <3>1, <3>3, SeqEqual
    <3> QED  BY <3>4 DEF q
  <2>3. \A k \in 1 .. j - 1 : p.labels[k].height <= new.height /\ p.labels[k].at < new.at
    <3> SUFFICES ASSUME NEW k \in 1 .. j - 1
                 PROVE  p.labels[k].height <= new.height /\ p.labels[k].at < new.at
      OBVIOUS
    <3>1. k \in 1 .. D
      BY <1>1, <1>5
    <3>2. p.labels[k] = labels[k] /\ labels[D].height <= p.height /\ labels[D].height \in Nat
      <4>1. D \in 1 .. D
        BY <1>1
      <4> QED  BY <1>3, <1>4, <3>1, <4>1 DEF Last
    <3> QED  BY <1>1, <1>2, <1>4, <3>1, <3>2
  <2>4. new.at < m + 1 /\ new.at # 0 /\ j # 1
    BY <1>1, <1>2, <1>5
  <2>5. new.height <= p.height
    BY <1>1, <1>2
  <2>6. pg2[new.at].op \in Openers
    BY <1>2
  <2> QED  BY <2>1, <2>2, <2>3, <2>4, <2>5, <2>6, Zenon
<1>6. CASE j \in 1 .. D
  <2> DEFINE l == labels[j]
  <2>1. /\ l.at < m /\ (l.at = 0 <=> j = 1)
        /\ l.at # 0 => pg[l.at].op \in Openers
        /\ SubSeq(labels, 1, j) = f[l.at + 1].labels
        /\ \A k \in 1 .. j - 1 : labels[k].height <= l.height /\ labels[k].at < l.at
    BY <1>6 DEF Nested
  <2>2. p.labels[j] = l /\ l.at \in Nat
    BY <1>3, <1>4, <1>6
  <2>3. l.at + 1 \in 1 .. m /\ (l.at # 0 => l.at \in 1 .. m - 1) /\ l.at < m + 1
    BY <2>1, <2>2
  <2>4. h[l.at + 1] = f[l.at + 1] /\ (l.at # 0 => pg2[l.at] = pg[l.at])
    BY <2>3
  <2>5. SubSeq(p.labels, 1, j) = SubSeq(labels, 1, j)
    <3> DEFINE q == p.labels
               r == labels
    <3>1. q \in Seq(Labels) /\ r \in Seq(Labels) /\ j \in 0 .. Len(q) /\ j \in 0 .. Len(r)
          /\ \A i \in 1 .. j : q[i] = r[i]
      BY <1>1, <1>3, <1>6
    <3> HIDE DEF q, r
    <3>2. /\ SubSeq(q, 1, j) \in Seq(Labels) /\ Len(SubSeq(q, 1, j)) = j
          /\ \A i \in 1 .. j : SubSeq(q, 1, j)[i] = q[i]
      BY <3>1, SubSeqFacts
    <3>3. /\ SubSeq(r, 1, j) \in Seq(Labels) /\ Len(SubSeq(r, 1, j)) = j
          /\ \A i \in 1 .. j : SubSeq(r, 1, j)[i] = r[i]
      BY <3>1, SubSeqFacts
    <3>4. SubSeq(q, 1, j) = SubSeq(r, 1, j)
      BY <3>1, <3>2, <3>3, SeqEqual
    <3> QED  BY <3>4 DEF q, r
  <2>6. l.height <= p.height
    <3>1. D \in 1 .. D
      BY <1>1, <1>6
    <3>2. l.height <= labels[D].height /\ l.height \in Nat /\ labels[D].height \in Nat
      BY <1>4, <1>6, <3>1
    <3>3. labels[D].height <= p.height
      BY DEF Last
    <3> QED  BY <1>1, <3>2, <3>3
  <2>7. \A k \in 1 .. j - 1 : p.labels[k] = labels[k]
    BY <1>1, <1>3, <1>6
  <2> QED  BY <2>1, <2>2, <2>3, <2>4, <2>5, <2>6, <2>7
<1>7. j = D + 1 \/ j \in 1 .. D
  BY <1>1, <1>3
<1> QED  BY <1>5, <1>6, <1>7

LEMMA NestedPop ==
  ASSUME NEW pg, NEW pg2, NEW f, NEW h, NEW m \in Nat, NEW p \in Points,
         \A k \in 1 .. m : h[k] = f[k] /\ f[k] \in Points, h[m + 1] = p,
         \A k \in 1 .. m - 1 : pg2[k] = pg[k], m >= 1,
         Nested(pg, f, m), Len(f[m].labels) >= 1,
         p.labels = Front(f[m].labels), p.height >= Last(f[m].labels).height
  PROVE  Nested(pg2, h, m + 1)
<1> DEFINE labels == f[m].labels
           D == Len(labels)
<1>1. f[m] \in Points /\ labels \in Seq(Labels) /\ D \in Nat /\ D >= 1 /\ p.height \in Nat
  BY PointFacts
<1>2. /\ p.labels \in Seq(Labels) /\ Len(p.labels) = D - 1
      /\ \A i \in 1 .. D - 1 : p.labels[i] = labels[i]
  <2>1. p.labels = Front(labels) /\ Len(labels) >= 1
    OBVIOUS
  <2> HIDE DEF labels
  <2> QED  BY <1>1, <2>1, FrontFacts
<1> SUFFICES ASSUME NEW j \in 1 .. Len(p.labels)
             PROVE  LET l == p.labels[j]
                    IN  /\ l.at < m + 1 /\ (l.at = 0 <=> j = 1)
                        /\ l.at # 0 => pg2[l.at].op \in Openers
                        /\ SubSeq(p.labels, 1, j) = h[l.at + 1].labels
                        /\ l.height <= p.height
                        /\ \A k \in 1 .. j - 1 : p.labels[k].height <= l.height /\ p.labels[k].at < l.at
  BY DEF Nested
<1> DEFINE l == labels[j]
<1>3. j \in 1 .. D /\ j \in 1 .. D - 1 /\ D \in 1 .. D
  BY <1>1, <1>2
<1>4. /\ l.at < m /\ (l.at = 0 <=> j = 1)
      /\ l.at # 0 => pg[l.at].op \in Openers
      /\ SubSeq(labels, 1, j) = f[l.at + 1].labels
      /\ \A k \in 1 .. j - 1 : labels[k].height <= l.height /\ labels[k].at < l.at
      /\ l.height <= labels[D].height
  BY <1>3 DEF Nested
<1>5. p.labels[j] = l /\ l.at \in Nat /\ l.height \in Nat /\ labels[D].height \in Nat
  BY <1>1, <1>2, <1>3, PointFacts
<1>6. l.at + 1 \in 1 .. m /\ (l.at # 0 => l.at \in 1 .. m - 1) /\ l.at < m + 1
  <2>1. l.at < m /\ l.at \in Nat
    BY <1>4, <1>5
  <2> HIDE DEF l
  <2> QED  BY <2>1
<1>7. h[l.at + 1] = f[l.at + 1] /\ (l.at # 0 => pg2[l.at] = pg[l.at])
  BY <1>6
<1>8. SubSeq(p.labels, 1, j) = SubSeq(labels, 1, j)
  <2> DEFINE q == p.labels
             r == labels
  <2>1. q \in Seq(Labels) /\ r \in Seq(Labels) /\ j \in 0 .. Len(q) /\ j \in 0 .. Len(r)
        /\ \A i \in 1 .. j : q[i] = r[i]
    BY <1>1, <1>2, <1>3
  <2> HIDE DEF q, r
  <2>2. /\ SubSeq(q, 1, j) \in Seq(Labels) /\ Len(SubSeq(q, 1, j)) = j
        /\ \A i \in 1 .. j : SubSeq(q, 1, j)[i] = q[i]
    BY <2>1, SubSeqFacts
  <2>3. /\ SubSeq(r, 1, j) \in Seq(Labels) /\ Len(SubSeq(r, 1, j)) = j
        /\ \A i \in 1 .. j : SubSeq(r, 1, j)[i] = r[i]
    BY <2>1, SubSeqFacts
  <2>4. SubSeq(q, 1, j) = SubSeq(r, 1, j)
    BY <2>1, <2>2, <2>3, SeqEqual
  <2> QED  BY <2>4 DEF q, r
<1>9. l.height <= p.height
  BY <1>1, <1>4, <1>5 DEF Last
<1>10. \A k \in 1 .. j - 1 : p.labels[k] = labels[k]
  BY <1>1, <1>2, <1>3
<1> QED  BY <1>4, <1>5, <1>6, <1>7, <1>8, <1>9, <1>10

-----------------------------------------------------------------------------
(* The compiler's blocks and the validator's state are the last point.     *)

OpenAts == {blocks[j].at : j \in 1 .. Len(blocks)}
Now == [labels |-> [j \in 1 .. Len(blocks) |-> Label(blocks[j].at, blocks[j].height)],
        height |-> height, live |-> live]

\* The block b is that of its opener.
BlockIs(pg, cl, b) ==
    /\ b.at = 0 <=> b.kind = "fn"
    /\ b.at = 0 => b.type = "none"
    /\ b.at # 0 =>
          /\ b.at \in 1 .. Len(pg) /\ pg[b.at].op \in Openers /\ cl[b.at].end = 0
          /\ b.type = TypeOf(pg[b.at].n)
          /\ b.kind = IF pg[b.at].op = "if" /\ cl[b.at].els # 0 THEN "else" ELSE pg[b.at].op

FlowInv(f) ==
    /\ Flows(prog, family, closes, OpenAts, f)
    /\ \A j \in 1 .. Len(blocks) : BlockIs(prog, closes, blocks[j])
    /\ f[Len(prog) + 1] = Now
    /\ live \in BOOLEAN
    /\ phase # "compile" => blocks = <<>>

\* A block that stays open is unchanged by what happens to the others.
LEMMA BlockKept ==
  ASSUME NEW pg, NEW cl, NEW pg2, NEW cl2, NEW b, NEW c, BlockIs(pg, cl, b),
         c.at = b.at, c.type = b.type, c.kind = b.kind,
         b.at # 0 => b.at \in 1 .. Len(pg2) /\ pg2[b.at] = pg[b.at] /\ cl2[b.at] = cl[b.at]
  PROVE  BlockIs(pg2, cl2, c)
<1>1. CASE b.at = 0
  BY <1>1 DEF BlockIs
<1>2. CASE b.at # 0
  <2>1. /\ pg2[b.at] = pg[b.at] /\ cl2[b.at] = cl[b.at] /\ b.at \in 1 .. Len(pg2)
    BY <1>2
  <2>2. /\ b.kind # "fn" /\ pg[b.at].op \in Openers /\ cl[b.at].end = 0 /\ b.type = TypeOf(pg[b.at].n)
        /\ b.kind = IF pg[b.at].op = "if" /\ cl[b.at].els # 0 THEN "else" ELSE pg[b.at].op
    BY <1>2 DEF BlockIs
  <2> QED  BY <1>2, <2>1, <2>2 DEF BlockIs
<1> QED  BY <1>1, <1>2

LEMMA CurrentFacts ==
  ASSUME PatchInv, phase = "compile", NEW f, FlowInv(f)
  PROVE  /\ Len(prog) \in Nat /\ Len(blocks) \in Nat /\ Len(blocks) >= 1 /\ height \in Nat
         /\ f[Len(prog) + 1] = Now /\ Now \in Points
         /\ Now.height = height /\ Now.live = live /\ Len(Now.labels) = Len(blocks)
         /\ Last(Now.labels) = Label(Top.at, Top.height)
         /\ \A j \in 1 .. Len(blocks) :
               /\ Now.labels[j] = Label(blocks[j].at, blocks[j].height)
               /\ blocks[j].at \in 0 .. Len(prog) /\ blocks[j].height \in Nat
         /\ Spare(Now) = Avail /\ Top.height \in Nat /\ Top.height <= height
         /\ height + Len(blocks) <= Len(prog) + 1 /\ height + Len(blocks) <= MaxLen + 1
<1> DEFINE m == Len(prog)
           D == Len(blocks)
<1>1. m \in Nat /\ D \in Nat /\ D >= 1 /\ blocks \in Seq(OpenBlock)
  BY LenProperties DEF PatchInv, CompilerType
<1>2. /\ f \in [1 .. m + 1 -> Points] /\ f[m + 1] = Now
      /\ Nested(prog, f, m + 1) /\ Bounded(family, f, m + 1)
  <2>1. m + 1 \in 1 .. m + 1
    BY <1>1
  <2> QED  BY <2>1 DEF FlowInv, Flows
<1>3. Now \in Points
  BY <1>1, <1>2
<1>4. Now.height = height /\ Now.live = live
      /\ Now.labels = [j \in 1 .. D |-> Label(blocks[j].at, blocks[j].height)]
  BY DEF Now
<1>5. /\ Now.labels \in Seq(Labels) /\ height \in Nat
  BY <1>3, <1>4, PointFacts
<1>6. Len(Now.labels) = D
  <2> DEFINE q == Now.labels
  <2>1. q \in Seq(Labels) /\ DOMAIN q = 1 .. D
    BY <1>4, <1>5
  <2> HIDE DEF q
  <2>2. Len(q) \in Nat /\ DOMAIN q = 1 .. Len(q)
    BY <2>1, LenProperties
  <2>3. 1 .. D = 1 .. Len(q)
    BY <2>1, <2>2
  <2>4. D = Len(q)
    BY <1>1, <2>2, <2>3
  <2> QED  BY <2>4 DEF q
<1>7. ASSUME NEW j \in 1 .. D
      PROVE  /\ Now.labels[j] = Label(blocks[j].at, blocks[j].height)
             /\ blocks[j].at \in 0 .. m /\ blocks[j].height \in Nat /\ blocks[j].height <= height
  <2>1. Now.labels[j] = Label(blocks[j].at, blocks[j].height)
    BY <1>4
  <2>2. Now.labels[j].at = blocks[j].at /\ Now.labels[j].height = blocks[j].height
    BY <2>1 DEF Label
  <2>3. Now.labels[j].at \in Nat /\ Now.labels[j].height \in Nat
    BY <1>3, <1>6, PointFacts
  <2>4. Now.labels[j].at < m + 1 /\ Now.labels[j].height <= height
    BY <1>2, <1>4, <1>6 DEF Nested
  <2> QED  BY <1>1, <2>1, <2>2, <2>3, <2>4
<1>8. D \in 1 .. D /\ Top = blocks[D]
  BY <1>1 DEF Top, Last
<1>9. Last(Now.labels) = Label(Top.at, Top.height)
  BY <1>6, <1>7, <1>8 DEF Last
<1>10. Spare(Now) = Avail
  BY <1>4, <1>9 DEF Spare, Avail, Label
<1>11. height + D <= m + 1 /\ height + D <= MaxLen + 1
  BY <1>2, <1>4, <1>6 DEF Bounded, MaxLen
<1> QED  BY <1>1, <1>2, <1>3, <1>4, <1>5, <1>6, <1>7, <1>8, <1>9, <1>10, <1>11

\* Arities of the open blocks, and what a branch to one takes.
LEMMA ArityIs ==
  ASSUME PatchInv, phase = "compile", NEW f, FlowInv(f), NEW j \in 1 .. Len(blocks)
  PROVE  /\ Arity(blocks[j]) = Leaves(prog, family, blocks[j].at)
         /\ LabelArity(blocks[j]) = Takes(prog, family, blocks[j].at)
         /\ Leaves(prog, family, blocks[j].at) \in {0, 1}
<1> DEFINE b == blocks[j]
<1>1. BlockIs(prog, closes, b) /\ b.at \in 0 .. Len(prog) /\ family \in Families
  BY CurrentFacts DEF FlowInv, PatchInv, CompilerType
<1>2. CASE b.at = 0
  BY <1>1, <1>2, FamilyFacts DEF BlockIs, Arity, LabelArity, Leaves, Takes, FnArity
<1>3. CASE b.at # 0
  <2>1. /\ b.at \in 1 .. Len(prog) /\ prog[b.at].op \in Openers /\ b.type = TypeOf(prog[b.at].n)
        /\ b.kind = IF prog[b.at].op = "if" /\ closes[b.at].els # 0 THEN "else" ELSE prog[b.at].op
        /\ b.kind # "fn"
    BY <1>1, <1>3 DEF BlockIs
  <2>2. prog[b.at].n \in {0, 1}
    <3>1. Closed(prog, family, closes, OpenAts, f, b.at)
      BY <2>1 DEF FlowInv, Flows
    <3>2. <<prog[b.at].op, prog[b.at].n>> \in family.openers
      BY <3>1 DEF Closed
    <3>3. <<prog[b.at].op, prog[b.at].n>> \in {"block", "loop", "if"} \X {0, 1}
      BY <1>1, <3>2, FamilyFacts
    <3> QED  BY <3>3
  <2>3. b.kind = "loop" <=> prog[b.at].op = "loop"
    BY <2>1 DEF Openers
  <2>4. b.type = "value" <=> prog[b.at].n = 1
    BY <2>1, <2>2 DEF TypeOf
  <2> QED  BY <1>3, <2>1, <2>2, <2>3, <2>4 DEF Arity, LabelArity, Leaves, Takes
<1> QED  BY <1>2, <1>3

LEMMA BranchIs ==
  ASSUME PatchInv, phase = "compile", NEW f, FlowInv(f), NEW d \in Depths, NEW more \in Nat,
         Avail >= LabelArity(Target(d)) + more
  PROVE  /\ Branches(prog, family, Now, d, more)
         /\ Takes(prog, family, Nth(Now.labels, d).at) = LabelArity(Target(d))
         /\ Nth(Now.labels, d) = Label(Target(d).at, Target(d).height)
<1>1. d \in Nat /\ Len(blocks) - d \in 1 .. Len(blocks) /\ Target(d) = blocks[Len(blocks) - d]
      /\ d \in 0 .. Len(blocks) - 1
  BY CurrentFacts DEF Depths, Target
<1>2. Nth(Now.labels, d) = Label(Target(d).at, Target(d).height)
  BY <1>1, CurrentFacts DEF Nth
<1>3. Takes(prog, family, Nth(Now.labels, d).at) = LabelArity(Target(d))
  BY <1>1, <1>2, ArityIs DEF Label
<1> QED  BY <1>1, <1>2, <1>3, CurrentFacts DEF Branches

\* The blocks are the same but for their fixups.
SameOutline ==
    /\ Len(blocks') = Len(blocks)
    /\ \A j \in 1 .. Len(blocks) :
          /\ blocks'[j].at = blocks[j].at /\ blocks'[j].height = blocks[j].height
          /\ blocks'[j].kind = blocks[j].kind /\ blocks'[j].type = blocks[j].type

\* An instruction that opens and closes nothing.
LEMMA FlowSame ==
  ASSUME PatchInv, phase = "compile", NEW f, FlowInv(f),
         family' = family, closes' = closes, SameOutline, phase' = phase,
         NEW ins \in Bytecode, prog' = Append(prog, ins), ins.op \notin Openers,
         height' \in Nat, live' \in BOOLEAN, height' >= Top.height,
         height' + Len(blocks) <= Len(prog) + 2, height' + Len(blocks) <= MaxLen + 1,
         Moves(prog', family, Len(prog) + 1, Now, Now')
  PROVE  \E h : FlowInv(h)' /\ Keeps(f, h, Len(prog) + 1)
<1> DEFINE m == Len(prog)
<1>1. PICK h : h = Extended(f, m, Now')
  OBVIOUS
<1>2. /\ prog \in Seq(Bytecode) /\ prog' \in Seq(Bytecode) /\ m \in Nat /\ Len(prog') = m + 1
      /\ \A i \in 1 .. m : prog'[i] = prog[i]
      /\ prog'[m + 1] = ins
  BY AppendedProg DEF PatchInv, CompilerType
<1>3. Now'.labels = Now.labels /\ Now'.height = height' /\ Now'.live = live'
  <2>1. /\ Now'.labels = [j \in 1 .. Len(blocks') |-> Label(blocks'[j].at, blocks'[j].height)]
        /\ Now.labels = [j \in 1 .. Len(blocks) |-> Label(blocks[j].at, blocks[j].height)]
        /\ Now'.height = height' /\ Now'.live = live'
    BY DEF Now
  <2>2. \A j \in 1 .. Len(blocks) : Label(blocks'[j].at, blocks'[j].height) = Label(blocks[j].at, blocks[j].height)
    BY DEF SameOutline
  <2> QED  BY <2>1, <2>2 DEF SameOutline
<1>4. Now' \in Points
  <2>1. Now.labels \in Seq(Labels)
    BY CurrentFacts, PointFacts
  <2>2. Now' = [labels |-> Now'.labels, height |-> height', live |-> live']
    BY DEF Now
  <2> QED  BY <1>3, <2>1, <2>2 DEF Points
<1>5. f \in [1 .. m + 1 -> Points] /\ f[m + 1] = Now
  BY DEF FlowInv, Flows
<1>6. /\ h \in [1 .. m + 2 -> Points]
      /\ \A i \in 1 .. m + 1 : h[i] = f[i] /\ f[i] \in Points
      /\ h[m + 2] = Now'
  <2> DEFINE p == Now'
  <2>1. h = Extended(f, m, p) /\ p \in Points /\ m \in Nat /\ f \in [1 .. m + 1 -> Points]
    BY <1>1, <1>2, <1>4, <1>5
  <2> HIDE DEF p, m
  <2>2. /\ Extended(f, m, p) \in [1 .. m + 2 -> Points]
        /\ \A i \in 1 .. m + 1 : Extended(f, m, p)[i] = f[i]
        /\ Extended(f, m, p)[m + 2] = p
    BY <2>1, ExtendedFacts
  <2>3. \A i \in 1 .. m + 1 : f[i] \in Points
    BY <2>1
  <2> QED  BY <2>1, <2>2, <2>3 DEF p
<1>7. OpenAts' = OpenAts
  BY DEF OpenAts, SameOutline
<1>8. Nested(prog', h, m + 2)
  <2> DEFINE q == m + 1
             p == Now'
  <2>1. /\ \A k \in 1 .. q : h[k] = f[k] /\ f[k] \in Points
        /\ \A k \in 1 .. q - 1 : prog'[k] = prog[k]
        /\ q \in Nat /\ q >= 1 /\ q + 1 = m + 2
    BY <1>2, <1>6
  <2>2. Nested(prog, f, q)
    BY <2>1 DEF FlowInv, Flows
  <2>3. Len(f[q].labels) >= 1 /\ p.labels = f[q].labels /\ p.height >= Last(f[q].labels).height
    <3>1. f[q] = Now /\ Len(Now.labels) >= 1 /\ Last(Now.labels).height = Top.height
      BY <1>5, CurrentFacts DEF Label
    <3> QED  BY <1>3, <3>1
  <2>4. h[q + 1] = p /\ p \in Points
    BY <1>4, <1>6, <2>1
  <2> HIDE DEF q, p
  <2>5. Nested(prog', h, q + 1)
    BY <2>1, <2>2, <2>3, <2>4, NestedSame
  <2> QED  BY <2>1, <2>5
<1>9. Bounded(family, h, m + 2)
  <2>1. Len(Now.labels) = Len(blocks)
    BY CurrentFacts
  <2> QED  BY <1>3, <1>6, <2>1 DEF Bounded, MaxLen
<1>10. Flows(prog', family, closes, OpenAts, h)
  <2>1. Moves(prog', family, Len(prog'), h[Len(prog')], Now')
    <3>1. h[m + 1] = Now
      BY <1>2, <1>5, <1>6
    <3> QED  BY <1>2, <3>1
  <2>2. Nested(prog', h, Len(prog') + 1) /\ Bounded(family, h, Len(prog') + 1)
    <3>1. Len(prog') + 1 = m + 2
      BY <1>2
    <3> QED  BY <1>8, <1>9, <3>1
  <2>3. closes \in [1 .. family.len -> [els : Nat, end : Nat]] /\ Flows(prog, family, closes, OpenAts, f)
    BY DEF FlowInv, Flows
  <2>4. family.len \in Nat
    BY FamilyFacts DEF PatchInv, CompilerType, MaxLen
  <2> DEFINE p == Now'
             pg2 == prog'
  <2>5. /\ pg2 = Append(prog, ins) /\ p \in Points /\ h = Extended(f, Len(prog), p)
        /\ Moves(pg2, family, Len(pg2), h[Len(pg2)], p)
        /\ Nested(pg2, h, Len(pg2) + 1) /\ Bounded(family, h, Len(pg2) + 1)
    BY <1>1, <1>4, <2>1, <2>2
  <2> HIDE DEF p, pg2, m
  <2>6. Flows(pg2, family, closes, OpenAts, h)
    BY <1>2, <2>3, <2>4, <2>5, FlowsOn
  <2> QED  BY <2>6 DEF pg2
<1>11. \A j \in 1 .. Len(blocks') : BlockIs(prog', closes', blocks'[j])
  <2> SUFFICES ASSUME NEW j \in 1 .. Len(blocks) PROVE BlockIs(prog', closes, blocks'[j])
    BY DEF SameOutline
  <2>1. BlockIs(prog, closes, blocks[j])
    BY DEF FlowInv
  <2>2. blocks[j].at # 0 => blocks[j].at \in 1 .. m + 1 /\ prog'[blocks[j].at] = prog[blocks[j].at]
    BY <1>2, <2>1 DEF BlockIs
  <2> QED  BY <1>2, <2>1, <2>2 DEF BlockIs, SameOutline
<1>12. h[Len(prog') + 1] = Now'
  BY <1>2, <1>6
<1>13. FlowInv(h)'
  BY <1>7, <1>10, <1>11, <1>12 DEF FlowInv
<1> QED  BY <1>6, <1>13 DEF Keeps

\* What the handler of an instruction has to show.
LEMMA FlowNext ==
  ASSUME PatchInv, phase = "compile", NEW f, FlowInv(f), family' = family,
         NEW ins \in Bytecode, prog' = Append(prog, ins), Now' \in Points,
         NEW h, h = Extended(f, Len(prog), Now'),
         Nested(prog', h, Len(prog) + 2),
         height' + Len(Now'.labels) <= Len(prog) + 2, height' + Len(Now'.labels) <= MaxLen + 1,
         Moves(prog', family, Len(prog) + 1, Now, Now'),
         closes' \in [1 .. MaxLen -> [els : Nat, end : Nat]],
         \A a \in 1 .. MaxLen : a > Len(prog) => closes'[a] = closes[a],
         \A a \in 1 .. Len(prog) : prog[a].op \in Openers =>
            \/ closes'[a] = closes[a] /\ (a \in OpenAts => a \in OpenAts')
            \/ Closed(prog', family, closes', OpenAts', h, a),
         ins.op \in Openers => Closed(prog', family, closes', OpenAts', h, Len(prog) + 1),
         \A j \in 1 .. Len(blocks') : BlockIs(prog', closes', blocks'[j]),
         live' \in BOOLEAN, phase' # "compile" => blocks' = <<>>
  PROVE  FlowInv(h)'
<1> DEFINE m == Len(prog)
           p == Now'
           pg2 == prog'
           cl2 == closes'
           open2 == OpenAts'
<1>1. /\ prog \in Seq(Bytecode) /\ m \in Nat /\ Len(pg2) = m + 1
  BY AppendedProg DEF PatchInv, CompilerType
<1>2. m \in Nat /\ f \in [1 .. m + 1 -> Points]
  BY <1>1 DEF FlowInv, Flows
<1>3. h = Extended(f, m, p) /\ p \in Points
  OBVIOUS
<1>4. p.height = height'
  BY DEF Now
<1>5. Nested(pg2, h, m + 2) /\ Moves(pg2, family, m + 1, Now, p)
  OBVIOUS
<1>6. f[m + 1] = Now
  BY DEF FlowInv
<1>7. family.len \in Nat /\ family.len = MaxLen
  BY FamilyFacts DEF PatchInv, CompilerType, MaxLen
<1>8. Flows(prog, family, closes, OpenAts, f)
  BY DEF FlowInv
<1>9. pg2 = Append(prog, ins)
  OBVIOUS
<1>10. /\ cl2 \in [1 .. family.len -> [els : Nat, end : Nat]]
       /\ \A a \in 1 .. family.len : a > Len(prog) => cl2[a] = closes[a]
  BY <1>7
<1>11. p.height + Len(p.labels) <= m + 2 /\ p.height + Len(p.labels) <= family.len + 1
  BY <1>4, <1>7
<1>12. /\ \A a \in 1 .. Len(prog) : prog[a].op \in Openers =>
            \/ cl2[a] = closes[a] /\ (a \in OpenAts => a \in open2)
            \/ Closed(pg2, family, cl2, open2, h, a)
       /\ ins.op \in Openers => Closed(pg2, family, cl2, open2, h, m + 1)
  OBVIOUS
<1>13. \A j \in 1 .. Len(blocks') : BlockIs(pg2, cl2, blocks'[j])
  OBVIOUS
<1>14. Flows(pg2, family, cl2, open2, h)
  <2> HIDE DEF p, pg2, cl2, open2
  <2>1. /\ \A i \in 1 .. m + 1 : h[i] = f[i]
        /\ h[m + 2] = p
    <3> HIDE DEF m
    <3>1. /\ \A i \in 1 .. m + 1 : Extended(f, m, p)[i] = f[i]
          /\ Extended(f, m, p)[m + 2] = p
      BY <1>2, <1>3, ExtendedFacts
    <3> QED  BY <1>3, <3>1
  <2>2. Bounded(family, h, m + 2)
    BY <1>11, <2>1 DEF Bounded
  <2>3. Len(pg2) + 1 = m + 2 /\ Len(pg2) = m + 1 /\ h[m + 1] = Now
    BY <1>1, <1>2, <1>6, <2>1
  <2>4. Moves(pg2, family, Len(pg2), h[Len(pg2)], p)
    BY <1>5, <2>3
  <2>5. Nested(pg2, h, Len(pg2) + 1) /\ Bounded(family, h, Len(pg2) + 1)
    BY <1>5, <2>2, <2>3
  <2>6. ins.op \in Openers => Closed(pg2, family, cl2, open2, h, Len(pg2))
    BY <1>12, <2>3
  <2>7. h = Extended(f, Len(prog), p)
    BY <1>3
  <2> HIDE DEF m
  <2> QED  BY <1>1, <1>3, <1>7, <1>8, <1>9, <1>10, <1>12, <2>4, <2>5, <2>6, <2>7, FlowsOn
<1>15. h[Len(pg2) + 1] = p
  <2>1. h[m + 2] = p
    <3> HIDE DEF m, p
    <3>1. Extended(f, m, p)[m + 2] = p
      BY <1>2, <1>3, ExtendedFacts
    <3> QED  BY <1>3, <3>1
  <2> QED  BY <1>1, <2>1
<1> QED  BY <1>13, <1>14, <1>15 DEF FlowInv

\* The innermost block.
LEMMA TopFacts ==
  ASSUME PatchInv, phase = "compile", NEW f, FlowInv(f)
  PROVE  /\ BlockIs(prog, closes, Top) /\ Len(blocks) \in 1 .. Len(blocks) /\ Top = blocks[Len(blocks)]
         /\ Top.at = 0 <=> Len(blocks) = 1
         /\ \A j \in 1 .. Len(blocks) - 1 : blocks[j].at < Top.at
         /\ Top.at \in 0 .. Len(prog) /\ f[Top.at + 1].labels = Now.labels /\ f[Top.at + 1] \in Points
         /\ Arity(Top) = Leaves(prog, family, Top.at) /\ Arity(Top) \in {0, 1}
<1> DEFINE m == Len(prog)
           D == Len(blocks)
<1>1. D \in 1 .. D /\ Top = blocks[D] /\ m \in Nat /\ D \in Nat
  BY CurrentFacts DEF Top, Last
<1>2. BlockIs(prog, closes, Top)
  BY <1>1 DEF FlowInv
<1>3. /\ f[m + 1] = Now /\ Len(Now.labels) = D /\ Now \in Points
      /\ \A j \in 1 .. D : Now.labels[j].at = blocks[j].at
  <2>1. /\ f[m + 1] = Now /\ Len(Now.labels) = D /\ Now \in Points
        /\ \A j \in 1 .. D : Now.labels[j] = Label(blocks[j].at, blocks[j].height)
    BY CurrentFacts
  <2>2. \A x, y : Label(x, y).at = x
    BY DEF Label
  <2>3. \A j \in 1 .. D : Now.labels[j].at = blocks[j].at
    BY <2>1, <2>2
  <2> QED  BY <2>1, <2>3
<1>4. Nested(prog, f, m + 1) /\ f \in [1 .. m + 1 -> Points]
  <2>1. m + 1 \in 1 .. m + 1
    BY <1>1
  <2> QED  BY <2>1 DEF FlowInv, Flows
<1>5. /\ Top.at = 0 <=> D = 1
      /\ SubSeq(Now.labels, 1, D) = f[Top.at + 1].labels
      /\ \A k \in 1 .. D - 1 : Now.labels[k].at < Top.at
  BY <1>1, <1>3, <1>4 DEF Nested
<1>6. SubSeq(Now.labels, 1, D) = Now.labels
  <2> DEFINE q == Now.labels
  <2>1. q \in Seq(Labels) /\ D = Len(q)
    BY <1>3, PointFacts
  <2> HIDE DEF q
  <2>2. D \in 0 .. Len(q)
    BY <1>1, <2>1
  <2> HIDE DEF D
  <2>3. /\ SubSeq(q, 1, D) \in Seq(Labels) /\ Len(SubSeq(q, 1, D)) = D
        /\ \A i \in 1 .. D : SubSeq(q, 1, D)[i] = q[i]
    BY <2>1, <2>2, SubSeqFacts
  <2>4. SubSeq(q, 1, D) = q
    BY <2>1, <2>3, SeqEqual
  <2> QED  BY <2>4 DEF q
<1>7. Top.at \in 0 .. m
  BY <1>1, CurrentFacts
<1>8. \A k \in 1 .. D - 1 : blocks[k].at < Top.at
  <2>1. \A k \in 1 .. D - 1 : k \in 1 .. D
    BY <1>1
  <2> QED  BY <1>3, <1>5, <2>1
<1>9. f[Top.at + 1] \in Points
  BY <1>1, <1>4, <1>7
<1>10. Arity(Top) = Leaves(prog, family, Top.at) /\ Leaves(prog, family, Top.at) \in {0, 1}
  BY <1>1, ArityIs
<1> QED  BY <1>1, <1>2, <1>5, <1>6, <1>7, <1>8, <1>9, <1>10

\* block, loop and if.
LEMMA FlowPush ==
  ASSUME PatchInv, phase = "compile", NEW f, FlowInv(f), family' = family, closes' = closes, phase' = phase,
         NEW ins \in Bytecode, prog' = Append(prog, ins), <<ins.op, ins.n>> \in family.openers,
         Len(prog) < MaxLen,
         NEW b, blocks' = Append(blocks, b), b.at = Len(prog) + 1, b.height = height', b.kind = ins.op,
         b.type = TypeOf(ins.n),
         height' \in Nat, height' <= height, height' >= Top.height, live' \in BOOLEAN,
         Now'.labels = Append(Now.labels, Label(Len(prog) + 1, height')) =>
            Moves(prog', family, Len(prog) + 1, Now, Now')
  PROVE  \E h : FlowInv(h)' /\ Keeps(f, h, Len(prog) + 1)
<1> DEFINE m == Len(prog)
           D == Len(blocks)
           new == Label(m + 1, height')
<1>1. PICK h : h = Extended(f, m, Now')
  OBVIOUS
<1>2. /\ prog \in Seq(Bytecode) /\ prog' \in Seq(Bytecode) /\ m \in Nat /\ Len(prog') = m + 1
      /\ \A i \in 1 .. m : prog'[i] = prog[i]
      /\ prog'[m + 1] = ins
  BY AppendedProg DEF PatchInv, CompilerType
<1>3. /\ D \in Nat /\ D >= 1 /\ Len(blocks') = D + 1 /\ blocks'[D + 1] = b
      /\ \A j \in 1 .. D : blocks'[j] = blocks[j]
  <2>1. \E S : blocks \in Seq(S) /\ b \in S
    <3>1. blocks \in Seq(OpenBlock) /\ OpenBlock \subseteq OpenBlock \cup {b}
      BY DEF PatchInv, CompilerType
    <3> QED  BY <3>1, SeqMonotonic
  <2> QED  BY <2>1, AppendFacts, CurrentFacts
<1>4. Now \in Points /\ f[m + 1] = Now /\ Len(Now.labels) = D /\ Top.height \in Nat /\ height \in Nat
      /\ height + D <= m + 1 /\ \A j \in 1 .. D : Now.labels[j] = Label(blocks[j].at, blocks[j].height)
  BY CurrentFacts
<1>5. new \in Labels
  BY <1>2 DEF Label, Labels
<1>6. /\ Now'.height = height' /\ Now'.live = live'
      /\ Now'.labels = [j \in 1 .. D + 1 |-> IF j = D + 1 THEN new ELSE Now.labels[j]]
  <2>1. Now'.labels = [j \in 1 .. Len(blocks') |-> Label(blocks'[j].at, blocks'[j].height)]
        /\ Now'.height = height' /\ Now'.live = live'
    BY DEF Now
  <2>2. \A j \in 1 .. D + 1 : Label(blocks'[j].at, blocks'[j].height) = IF j = D + 1 THEN new ELSE Now.labels[j]
    <3> SUFFICES ASSUME NEW j \in 1 .. D + 1
                 PROVE  Label(blocks'[j].at, blocks'[j].height) = IF j = D + 1 THEN new ELSE Now.labels[j]
      OBVIOUS
    <3>1. CASE j = D + 1
      BY <1>3, <3>1
    <3>2. CASE j # D + 1
      <4>1. j \in 1 .. D
        BY <1>3, <3>2
      <4> QED  BY <1>3, <1>4, <3>2, <4>1
    <3> QED  BY <3>1, <3>2
  <2> QED  BY <1>3, <2>1, <2>2
<1>7. Now.labels \in Seq(Labels)
  BY <1>4, PointFacts
<1>8. Now'.labels = Append(Now.labels, new)
  <2> DEFINE q == Now.labels
             r == Now'.labels
  <2>1. q \in Seq(Labels) /\ Len(q) = D /\ r = [j \in 1 .. D + 1 |-> IF j = D + 1 THEN new ELSE q[j]]
    BY <1>4, <1>6, <1>7
  <2> HIDE DEF q, r, new, D
  <2>2. /\ Append(q, new) \in Seq(Labels) /\ Len(Append(q, new)) = D + 1
        /\ \A j \in 1 .. D : Append(q, new)[j] = q[j]
        /\ Append(q, new)[D + 1] = new
    BY <1>5, <2>1, AppendFacts
  <2>3. \A j \in 1 .. D + 1 : r[j] = Append(q, new)[j]
    <3> SUFFICES ASSUME NEW j \in 1 .. D + 1 PROVE r[j] = Append(q, new)[j]
      OBVIOUS
    <3>1. CASE j = D + 1
      BY <2>1, <2>2, <3>1
    <3>2. CASE j # D + 1
      <4>1. j \in 1 .. D
        BY <1>3, <3>2
      <4> QED  BY <2>1, <2>2, <3>2, <4>1
    <3> QED  BY <3>1, <3>2
  <2>4. r \in Seq(Labels) /\ Len(r) = D + 1
    <3>1. \A j \in 1 .. D + 1 : r[j] \in Labels
      <4> SUFFICES ASSUME NEW j \in 1 .. D + 1 PROVE r[j] \in Labels
        OBVIOUS
      <4>1. Append(q, new)[j] \in Labels
        BY <2>2, ElementOfSeq
      <4> QED  BY <2>3, <4>1
    <3>2. r = [j \in 1 .. D + 1 |-> r[j]]
      BY <2>1
    <3>3. D + 1 \in Nat
      BY <1>3
    <3> QED  BY <3>1, <3>2, <3>3
  <2> QED  BY <2>2, <2>3, <2>4, SeqEqual DEF q, r
<1>9. Now' \in Points
  <2>1. Append(Now.labels, new) \in Seq(Labels)
    <3> HIDE DEF new
    <3> QED  BY <1>5, <1>7, AppendFacts
  <2>2. Now' = [labels |-> Now'.labels, height |-> height', live |-> live']
    BY DEF Now
  <2> DEFINE lb == Now'.labels
             ht == height'
             lv == live'
  <2>3. lb \in Seq(Labels) /\ ht \in Nat /\ lv \in BOOLEAN /\ Now' = [labels |-> lb, height |-> ht, live |-> lv]
    BY <1>8, <2>1, <2>2
  <2> HIDE DEF lb, ht, lv
  <2> QED  BY <2>3 DEF Points
<1>99. /\ h[m + 2] = Now' /\ f[m + 1] = Now
       /\ \A i \in 1 .. m + 1 : h[i] = f[i] /\ f[i] \in Points
  <2> DEFINE p == Now'
  <2>1. f \in [1 .. m + 1 -> Points] /\ f[m + 1] = Now
    BY DEF FlowInv, Flows
  <2>2. h = Extended(f, m, p) /\ p \in Points /\ m \in Nat
    BY <1>1, <1>2, <1>9
  <2> HIDE DEF p, m
  <2>3. /\ \A i \in 1 .. m + 1 : Extended(f, m, p)[i] = f[i]
        /\ Extended(f, m, p)[m + 2] = p
    BY <2>1, <2>2, ExtendedFacts
  <2>4. \A i \in 1 .. m + 1 : f[i] \in Points
    BY <2>1
  <2> QED  BY <2>1, <2>2, <2>3, <2>4 DEF p
<1>10. Nested(prog', h, m + 2)
  <2> DEFINE q == m + 1
             p == Now'
  <2>1. /\ \A k \in 1 .. q : h[k] = f[k] /\ f[k] \in Points
        /\ \A k \in 1 .. q - 1 : prog'[k] = prog[k]
        /\ q \in Nat /\ q >= 1 /\ q + 1 = m + 2
    BY <1>2, <1>99
  <2>2. Nested(prog, f, q)
    BY <2>1 DEF FlowInv, Flows
  <2>3. Len(f[q].labels) >= 1 /\ p.labels = Append(f[q].labels, Label(q, p.height)) /\ p.height >= Last(f[q].labels).height
    <3>1. Len(Now.labels) >= 1 /\ Last(Now.labels).height = Top.height
      BY CurrentFacts DEF Label
    <3> QED  BY <1>6, <1>8, <1>99, <3>1
  <2>4. h[q + 1] = p /\ p \in Points /\ prog'[q].op \in Openers
    <3>1. <<ins.op, ins.n>> \in {"block", "loop", "if"} \X {0, 1}
      BY FamilyFacts DEF PatchInv, CompilerType
    <3>2. ins.op \in Openers
      BY <3>1 DEF Openers
    <3> QED  BY <1>2, <1>9, <1>99, <2>1, <3>2
  <2> HIDE DEF q, p
  <2>5. Nested(prog', h, q + 1)
    BY <2>1, <2>2, <2>3, <2>4, NestedPush
  <2> QED  BY <2>1, <2>5
<1>11. Len(Now'.labels) = D + 1
  <2>1. Len(Append(Now.labels, new)) = Len(Now.labels) + 1
    <3> HIDE DEF new
    <3> QED  BY <1>5, <1>7, AppendFacts
  <2> QED  BY <1>4, <1>8, <2>1
<1>12. OpenAts \subseteq OpenAts' /\ m + 1 \in OpenAts'
  <2>1. \A j \in 1 .. D : j \in 1 .. D + 1
    BY <1>3
  <2>2. OpenAts \subseteq OpenAts'
    BY <1>3, <2>1 DEF OpenAts
  <2>3. D + 1 \in 1 .. D + 1
    BY <1>3
  <2> QED  BY <1>3, <2>2, <2>3 DEF OpenAts
<1>13. closes \in [1 .. MaxLen -> [els : Nat, end : Nat]]
       /\ \A a \in 1 .. MaxLen : a > m => closes[a] = [els |-> 0, end |-> 0]
  BY DEF FlowInv, Flows, MaxLen
<1>14. MaxLen \in Nat /\ m + 1 \in 1 .. MaxLen
  BY <1>2, FamilyFacts DEF PatchInv, CompilerType, MaxLen
<1>15. closes[m + 1] = [els |-> 0, end |-> 0]
  BY <1>2, <1>13, <1>14
<1>16. Closed(prog', family, closes', OpenAts', h, m + 1)
  <2>1. prog'[m + 1] = ins /\ closes'[m + 1].end = 0 /\ closes'[m + 1].els = 0 /\ m + 1 <= family.len
    BY <1>2, <1>14, <1>15 DEF MaxLen
  <2> QED  BY <1>12, <2>1 DEF Closed
<1>17. \A j \in 1 .. Len(blocks') : BlockIs(prog', closes', blocks'[j])
  <2> SUFFICES ASSUME NEW j \in 1 .. D + 1 PROVE BlockIs(prog', closes, blocks'[j])
    BY <1>3
  <2>1. CASE j = D + 1
    <3>1. <<ins.op, ins.n>> \in {"block", "loop", "if"} \X {0, 1}
      BY FamilyFacts DEF PatchInv, CompilerType
    <3>2. ins.op \in Openers /\ ins.op # "fn"
      BY <3>1 DEF Openers
    <3>3. m + 1 # 0 /\ m + 1 \in 1 .. m + 1
      BY <1>2
    <3> QED  BY <1>2, <1>3, <1>15, <2>1, <3>2, <3>3 DEF BlockIs
  <2>2. CASE j # D + 1
    <3>1. j \in 1 .. D
      BY <1>3, <2>2
    <3>2. BlockIs(prog, closes, blocks[j])
      BY <3>1 DEF FlowInv
    <3>3. blocks[j].at # 0 => blocks[j].at \in 1 .. m + 1 /\ prog'[blocks[j].at] = prog[blocks[j].at]
      BY <1>2, <3>2 DEF BlockIs
    <3> QED  BY <1>2, <1>3, <3>1, <3>2, <3>3 DEF BlockIs
  <2> QED  BY <2>1, <2>2
<1>18. Moves(prog', family, m + 1, Now, Now')
  BY <1>8
<1>19. height' + (D + 1) <= m + 2 /\ height' + (D + 1) <= MaxLen + 1
  <2> DEFINE k == height'
  <2>1. /\ m < MaxLen /\ k \in Nat /\ k <= height /\ height \in Nat /\ m \in Nat /\ D \in Nat /\ MaxLen \in Nat
        /\ height + D <= m + 1
    BY <1>2, <1>3, <1>4, <1>14
  <2> HIDE DEF m, D, k
  <2>2. k + (D + 1) <= m + 2 /\ k + (D + 1) <= MaxLen + 1
    BY <2>1
  <2> QED  BY <2>2 DEF k
<1>20. FlowInv(h)'
  <2>1. \A a \in 1 .. Len(prog) : prog[a].op \in Openers => closes'[a] = closes[a] /\ (a \in OpenAts => a \in OpenAts')
    BY <1>12
  <2>2. /\ height' + Len(Now'.labels) <= Len(prog) + 2 /\ height' + Len(Now'.labels) <= MaxLen + 1
        /\ closes' \in [1 .. MaxLen -> [els : Nat, end : Nat]]
        /\ \A a \in 1 .. MaxLen : a > Len(prog) => closes'[a] = closes[a]
    BY <1>11, <1>13, <1>19
  <2> QED  BY <1>1, <1>9, <1>10, <1>16, <1>17, <1>18, <2>1, <2>2, FlowNext
<1> QED  BY <1>99, <1>20 DEF Keeps

\* end.
LEMMA FlowPop ==
  ASSUME PatchInv, phase = "compile", NEW f, FlowInv(f), family' = family,
         NEW ins \in Bytecode, prog' = Append(prog, ins), ins.op = "end",
         blocks' = Front(blocks), height' = Top.height + Arity(Top), live' = TRUE,
         live => Avail = Arity(Top), Top.kind = "if" => Arity(Top) = 0,
         closes' = IF Top.at = 0 THEN closes ELSE [closes EXCEPT ![Top.at].end = Here],
         phase' = IF Len(blocks) = 1 THEN "ready" ELSE phase
  PROVE  \E h : FlowInv(h)' /\ Keeps(f, h, Len(prog) + 1)
<1> DEFINE m == Len(prog)
           D == Len(blocks)
           a == Top.at
<1>1. PICK h : h = Extended(f, m, Now')
  OBVIOUS
<1>2. /\ prog \in Seq(Bytecode) /\ prog' \in Seq(Bytecode) /\ m \in Nat /\ Len(prog') = m + 1
      /\ \A i \in 1 .. m : prog'[i] = prog[i]
      /\ prog'[m + 1] = ins
  BY AppendedProg DEF PatchInv, CompilerType
<1>3. /\ D \in Nat /\ D >= 1 /\ Len(blocks') = D - 1
      /\ \A j \in 1 .. D - 1 : blocks'[j] = blocks[j]
  <2>1. blocks \in Seq(OpenBlock) /\ D \in Nat /\ D >= 1
    BY CurrentFacts DEF PatchInv, CompilerType
  <2> QED  BY <2>1, FrontFacts
<1>4. /\ Now \in Points /\ f[m + 1] = Now /\ Len(Now.labels) = D /\ Top.height \in Nat /\ height \in Nat
      /\ height + D <= m + 1 /\ height + D <= MaxLen + 1 /\ Top.height <= height
  BY CurrentFacts
<1>5. /\ \A j \in 1 .. D : Now.labels[j] = Label(blocks[j].at, blocks[j].height)
      /\ Now.live = live /\ Last(Now.labels) = Label(a, Top.height) /\ Spare(Now) = Avail
  BY CurrentFacts
<1>6. Now.labels \in Seq(Labels)
  BY <1>4, PointFacts
<1>7. /\ BlockIs(prog, closes, Top)
      /\ a = 0 <=> D = 1
      /\ \A j \in 1 .. D - 1 : blocks[j].at < a
      /\ a \in 0 .. m /\ f[a + 1].labels = Now.labels
      /\ Arity(Top) = Leaves(prog, family, a) /\ Arity(Top) \in {0, 1} /\ Top = blocks[D]
  BY TopFacts
<1>8. /\ Now'.height = height' /\ Now'.live = TRUE
      /\ Now'.labels = [j \in 1 .. D - 1 |-> Now.labels[j]]
  <2>1. Now'.labels = [j \in 1 .. Len(blocks') |-> Label(blocks'[j].at, blocks'[j].height)]
        /\ Now'.height = height' /\ Now'.live = live'
    BY DEF Now
  <2>2. \A j \in 1 .. D - 1 : Label(blocks'[j].at, blocks'[j].height) = Now.labels[j]
    <3>1. \A j \in 1 .. D - 1 : j \in 1 .. D
      BY <1>3
    <3> QED  BY <1>3, <1>5, <3>1
  <2> QED  BY <1>3, <2>1, <2>2
<1>9. /\ Now'.labels = Front(Now.labels) /\ Now'.labels \in Seq(Labels) /\ Len(Now'.labels) = D - 1
  <2> DEFINE q == Now.labels
             r == Now'.labels
  <2>1. q \in Seq(Labels) /\ Len(q) = D /\ r = [j \in 1 .. D - 1 |-> q[j]]
    BY <1>4, <1>6, <1>8
  <2> HIDE DEF q, r
  <2>2. /\ Front(q) \in Seq(Labels) /\ Len(Front(q)) = D - 1
        /\ \A j \in 1 .. D - 1 : Front(q)[j] = q[j]
    BY <1>3, <2>1, FrontFacts
  <2>3. r \in Seq(Labels) /\ Len(r) = D - 1
    <3>1. \A j \in 1 .. D - 1 : q[j] \in Labels
      <4>1. \A j \in 1 .. D - 1 : j \in 1 .. Len(q)
        BY <1>3, <2>1
      <4> QED  BY <2>1, <4>1, ElementOfSeq
    <3>2. D - 1 \in Nat
      BY <1>3
    <3>3. r \in [1 .. D - 1 -> Labels]
      BY <2>1, <3>1
    <3> QED  BY <3>2, <3>3, SeqElements
  <2>4. \A j \in 1 .. D - 1 : r[j] = Front(q)[j]
    BY <2>1, <2>2
  <2> QED  BY <2>2, <2>3, <2>4, SeqEqual DEF q, r
<1>10. height' \in Nat /\ height' + (D - 1) <= m + 1 /\ height' + (D - 1) <= MaxLen + 1 /\ height' >= Top.height
  <2> DEFINE k == Top.height
             r == Arity(Top)
  <2>1. MaxLen \in Nat
    BY FamilyFacts DEF PatchInv, CompilerType, MaxLen
  <2>2. /\ r \in {0, 1} /\ k \in Nat /\ k <= height /\ height + D <= m + 1 /\ height + D <= MaxLen + 1
        /\ height \in Nat /\ m \in Nat /\ D \in Nat /\ D >= 1 /\ height' = k + r
    BY <1>2, <1>3, <1>4, <1>7
  <2> HIDE DEF k, r, m, D
  <2>3. height' \in Nat /\ height' + (D - 1) <= m + 1 /\ height' + (D - 1) <= MaxLen + 1 /\ height' >= k
    BY <2>1, <2>2
  <2> QED  BY <2>3 DEF k
<1>11. Now' \in Points
  <2>1. Now' = [labels |-> Now'.labels, height |-> height', live |-> TRUE]
    BY DEF Now
  <2> DEFINE lb == Now'.labels
             ht == height'
  <2>2. lb \in Seq(Labels) /\ ht \in Nat /\ Now' = [labels |-> lb, height |-> ht, live |-> TRUE]
    BY <1>9, <1>10, <2>1
  <2> HIDE DEF lb, ht
  <2> QED  BY <2>2 DEF Points
<1>12. /\ h[m + 2] = Now'
       /\ \A i \in 1 .. m + 1 : h[i] = f[i] /\ f[i] \in Points
  <2> DEFINE p == Now'
  <2>1. f \in [1 .. m + 1 -> Points]
    BY DEF FlowInv, Flows
  <2>2. h = Extended(f, m, p) /\ p \in Points /\ m \in Nat
    BY <1>1, <1>2, <1>11
  <2> HIDE DEF p, m
  <2>3. /\ \A i \in 1 .. m + 1 : Extended(f, m, p)[i] = f[i]
        /\ Extended(f, m, p)[m + 2] = p
    BY <2>1, <2>2, ExtendedFacts
  <2>4. \A i \in 1 .. m + 1 : f[i] \in Points
    BY <2>1
  <2> QED  BY <2>2, <2>3, <2>4 DEF p
<1>13. Nested(prog', h, m + 2)
  <2> DEFINE q == m + 1
             p == Now'
  <2>1. /\ \A k \in 1 .. q : h[k] = f[k] /\ f[k] \in Points
        /\ \A k \in 1 .. q - 1 : prog'[k] = prog[k]
        /\ q \in Nat /\ q >= 1 /\ q + 1 = m + 2
    BY <1>2, <1>12
  <2>2. Nested(prog, f, q)
    BY <2>1 DEF FlowInv, Flows
  <2>3. Len(f[q].labels) >= 1 /\ p.labels = Front(f[q].labels) /\ p.height >= Last(f[q].labels).height
    <3>1. Last(Now.labels).height = Top.height
      BY <1>5 DEF Label
    <3> QED  BY <1>3, <1>4, <1>8, <1>9, <1>10, <3>1
  <2>4. h[q + 1] = p /\ p \in Points
    BY <1>11, <1>12, <2>1
  <2> HIDE DEF q, p
  <2>5. Nested(prog', h, q + 1)
    BY <2>1, <2>2, <2>3, <2>4, NestedPop
  <2> QED  BY <2>1, <2>5
<1>14. closes \in [1 .. MaxLen -> [els : Nat, end : Nat]]
  BY DEF FlowInv, Flows, MaxLen
<1>15. /\ a # 0 => /\ a \in 1 .. m /\ prog[a].op \in Openers /\ closes[a].end = 0
                   /\ Closed(prog, family, closes, OpenAts, f, a) /\ a \in 1 .. MaxLen
  <2>1. a # 0 => a \in 1 .. m /\ prog[a].op \in Openers /\ closes[a].end = 0
    BY <1>7 DEF BlockIs
  <2>2. a # 0 => Closed(prog, family, closes, OpenAts, f, a)
    BY <2>1 DEF FlowInv, Flows
  <2>3. a # 0 => a <= MaxLen
    BY <2>2 DEF Closed, MaxLen
  <2> QED  BY <2>1, <2>2, <2>3
<1>16. /\ closes' \in [1 .. MaxLen -> [els : Nat, end : Nat]]
       /\ \A b \in 1 .. MaxLen : b # a => closes'[b] = closes[b]
       /\ a # 0 => closes'[a].end = m + 1 /\ closes'[a].els = closes[a].els
  <2>1. CASE a = 0
    BY <1>14, <2>1
  <2>2. CASE a # 0
    <3> DEFINE r == [closes[a] EXCEPT !.end = m + 1]
    <3>1. closes' = [closes EXCEPT ![a] = r]
      BY <2>2 DEF Here
    <3>2. closes[a] \in [els : Nat, end : Nat] /\ a \in DOMAIN closes /\ m + 1 \in Nat
      BY <1>2, <1>14, <1>15, <2>2
    <3>3. r \in [els : Nat, end : Nat] /\ r.end = m + 1 /\ r.els = closes[a].els
      BY <3>2
    <3> HIDE DEF r, a
    <3> QED  BY <1>14, <3>1, <3>2, <3>3
  <2> QED  BY <2>1, <2>2
<1>17. \A b : b \in OpenAts /\ b # a => b \in OpenAts'
  <2> SUFFICES ASSUME NEW j \in 1 .. D, blocks[j].at # a PROVE blocks[j].at \in OpenAts'
    BY DEF OpenAts
  <2>1. j \in 1 .. D - 1
    BY <1>3, <1>7
  <2> QED  BY <1>3, <2>1 DEF OpenAts
<1>18. a # 0 => Closed(prog', family, closes', OpenAts', h, a)
  <2> SUFFICES ASSUME a # 0 PROVE Closed(prog', family, closes', OpenAts', h, a)
    OBVIOUS
  <2>1. /\ a \in 1 .. m /\ prog'[a] = prog[a] /\ h[a + 1] = f[a + 1] /\ m + 1 \in a + 1 .. m + 1 /\ m + 1 # 0
        /\ h[(m + 1) + 1] = Now'
    <3>1. a \in 1 .. m /\ m \in Nat
      BY <1>2, <1>15
    <3> HIDE DEF a, m
    <3>2. a + 1 \in 1 .. m + 1 /\ m + 1 \in a + 1 .. m + 1 /\ m + 1 # 0 /\ (m + 1) + 1 = m + 2
      BY <3>1
    <3> QED  BY <1>2, <1>12, <3>1, <3>2
  <2>2. Leaves(prog, family, a) = prog[a].n
    BY DEF Leaves
  <2>3. /\ Now'.labels = Front(h[a + 1].labels)
        /\ Now'.height = Last(h[a + 1].labels).height + prog[a].n
    <3>1. Last(Now.labels).height = Top.height
      BY <1>5 DEF Label
    <3> QED  BY <1>7, <1>8, <1>9, <2>1, <2>2, <3>1
  <2>4. prog[a].op = "if" /\ prog[a].n = 1 => closes[a].els # 0
    <3> SUFFICES ASSUME prog[a].op = "if", prog[a].n = 1, closes[a].els = 0 PROVE FALSE
      OBVIOUS
    <3>1. Top.kind = "if"
      BY <1>7 DEF BlockIs
    <3> QED  BY <1>7, <2>2, <3>1
  <2>5. closes[a].els # 0 =>
          /\ closes[a].els \in a + 1 .. m /\ prog'[closes[a].els] = prog[closes[a].els]
          /\ closes[a].els + 1 \in 1 .. m + 1
    BY <1>2, <1>15 DEF Closed
  <2>6. closes[a].els # 0 => closes[a].els \in a + 1 .. m + 1 /\ h[closes[a].els + 1] = f[closes[a].els + 1]
    BY <1>2, <1>12, <2>5
  <2>7. /\ a <= family.len /\ <<prog'[a].op, prog'[a].n>> \in family.openers
        /\ closes'[a].end # 0 /\ closes'[a].end = m + 1 /\ closes'[a].els = closes[a].els
    BY <1>15, <1>16, <2>1 DEF Closed
  <2>8. closes[a].els # 0 =>
          /\ f[closes[a].els + 1].live
          /\ prog[closes[a].els].op = "else" /\ prog[a].op = "if"
          /\ f[closes[a].els + 1].labels = f[a + 1].labels
          /\ f[closes[a].els + 1].height = Last(f[a + 1].labels).height
    BY <1>15 DEF Closed
  <2>9. closes[a].els # 0 =>
          /\ closes[a].els \in a + 1 .. m + 1 /\ h[closes[a].els + 1].live
          /\ prog'[closes[a].els].op = "else" /\ prog'[a].op = "if"
          /\ h[closes[a].els + 1].labels = h[a + 1].labels
          /\ h[closes[a].els + 1].height = Last(h[a + 1].labels).height
    BY <2>1, <2>5, <2>6, <2>8
  <2>10. Now'.live /\ Len(prog') = m + 1
    BY <1>2, <1>8
  <2> HIDE DEF a, m
  <2> QED  BY <2>1, <2>3, <2>4, <2>7, <2>9, <2>10 DEF Closed
<1>19. \A b \in 1 .. m : prog[b].op \in Openers =>
         \/ closes'[b] = closes[b] /\ (b \in OpenAts => b \in OpenAts')
         \/ Closed(prog', family, closes', OpenAts', h, b)
  <2> SUFFICES ASSUME NEW b \in 1 .. m, prog[b].op \in Openers
               PROVE  \/ closes'[b] = closes[b] /\ (b \in OpenAts => b \in OpenAts')
                      \/ Closed(prog', family, closes', OpenAts', h, b)
    OBVIOUS
  <2>1. b = a => a # 0
    BY <1>2
  <2>2. Closed(prog, family, closes, OpenAts, f, b)
    BY DEF FlowInv, Flows
  <2>3. b \in 1 .. MaxLen
    <3>1. MaxLen \in Nat /\ b <= MaxLen
      BY <2>2, FamilyFacts DEF PatchInv, CompilerType, MaxLen, Closed
    <3> QED  BY <1>2, <3>1
  <2> QED  BY <1>16, <1>17, <1>18, <2>1, <2>3
<1>20. \A j \in 1 .. Len(blocks') : BlockIs(prog', closes', blocks'[j])
  <2> SUFFICES ASSUME NEW j \in 1 .. D - 1 PROVE BlockIs(prog', closes', blocks'[j])
    BY <1>3
  <2>1. j \in 1 .. D
    BY <1>3
  <2>2. BlockIs(prog, closes, blocks[j])
    BY <2>1 DEF FlowInv
  <2>3. blocks[j].at # 0 => blocks[j].at \in 1 .. m + 1 /\ prog'[blocks[j].at] = prog[blocks[j].at]
    BY <1>2, <2>2 DEF BlockIs
  <2>4. blocks[j].at # a
    <3>1. blocks[j].at \in 0 .. m
      BY <2>1, CurrentFacts
    <3> QED  BY <1>2, <1>7, <3>1
  <2>5. blocks[j].at # 0 => closes'[blocks[j].at] = closes[blocks[j].at]
    <3> SUFFICES ASSUME blocks[j].at # 0 PROVE closes'[blocks[j].at] = closes[blocks[j].at]
      OBVIOUS
    <3> DEFINE b == blocks[j].at
    <3>1. b \in 1 .. m /\ prog[b].op \in Openers
      BY <2>2 DEF BlockIs
    <3>2. Closed(prog, family, closes, OpenAts, f, b)
      BY <3>1 DEF FlowInv, Flows
    <3>3. b \in 1 .. MaxLen
      <4>1. MaxLen \in Nat /\ b <= MaxLen
        BY <3>2, FamilyFacts DEF PatchInv, CompilerType, MaxLen, Closed
      <4> QED  BY <1>2, <3>1, <4>1
    <3> QED  BY <1>16, <2>4, <3>3
  <2>6. blocks'[j] = blocks[j] /\ Len(prog') = m + 1
    BY <1>2, <1>3
  <2> DEFINE b == blocks[j]
             c == blocks'[j]
  <2>7. /\ BlockIs(prog, closes, b) /\ c.at = b.at /\ c.type = b.type /\ c.kind = b.kind
        /\ b.at # 0 => b.at \in 1 .. Len(prog') /\ prog'[b.at] = prog[b.at] /\ closes'[b.at] = closes[b.at]
    BY <2>2, <2>3, <2>5, <2>6
  <2> HIDE DEF b, c
  <2> DEFINE pg2 == prog'
             cl2 == closes'
  <2> HIDE DEF pg2, cl2
  <2>8. b.at # 0 => b.at \in 1 .. Len(pg2) /\ pg2[b.at] = prog[b.at] /\ cl2[b.at] = closes[b.at]
    BY <2>7 DEF pg2, cl2
  <2>9. BlockIs(pg2, cl2, c)
    BY ONLY <2>7, <2>8, BlockKept
  <2> QED  BY <2>9 DEF c, pg2, cl2
<1>21. Moves(prog', family, m + 1, Now, Now')
  <2>1. Leaves(prog', family, a) = Arity(Top)
    <3>1. a # 0 => prog'[a] = prog[a]
      BY <1>2, <1>15
    <3> QED  BY <1>7, <3>1 DEF Leaves
  <2>2. /\ Len(Now.labels) >= 1 /\ Now.live => Spare(Now) = Leaves(prog', family, Last(Now.labels).at)
        /\ Now'.height = Last(Now.labels).height + Leaves(prog', family, Last(Now.labels).at)
    BY <1>3, <1>4, <1>5, <1>8, <2>1 DEF Label
  <2>3. "end" \notin PlainOps
    BY DEF PlainOps, Binary, Unary
  <2> QED  BY <1>2, <1>3, <1>4, <1>8, <1>9, <2>2, <2>3 DEF Moves
<1>22. FlowInv(h)'
  <2>1. phase' # "compile" => blocks' = <<>>
    <3> SUFFICES ASSUME Len(blocks) = 1 PROVE blocks' = <<>>
      OBVIOUS
    <3>1. blocks' \in Seq(OpenBlock) /\ Len(blocks') = 0
      <4>1. blocks \in Seq(OpenBlock)
        BY DEF PatchInv, CompilerType
      <4> QED  BY <1>3, <4>1, FrontFacts
    <3> QED  BY <3>1, EmptySeq
  <2>2. /\ height' + Len(Now'.labels) <= Len(prog) + 2 /\ height' + Len(Now'.labels) <= MaxLen + 1
    BY <1>9, <1>10, <1>2
  <2>3. \A b \in 1 .. MaxLen : b > Len(prog) => closes'[b] = closes[b]
    BY <1>7, <1>16
  <2>4. ins.op \notin Openers
    BY DEF Openers
  <2> QED  BY <1>1, <1>11, <1>13, <1>16, <1>19, <1>20, <1>21, <2>1, <2>2, <2>3, <2>4, FlowNext
<1> QED  BY <1>12, <1>22 DEF Keeps

\* Openers are at indices that closes has.
LEMMA OpenerIndex ==
  ASSUME PatchInv, NEW f, FlowInv(f), NEW b \in 1 .. Len(prog), prog[b].op \in Openers
  PROVE  b \in 1 .. MaxLen /\ Closed(prog, family, closes, OpenAts, f, b) /\ closes[b] \in [els : Nat, end : Nat]
<1>1. Closed(prog, family, closes, OpenAts, f, b)
  BY DEF FlowInv, Flows
<1>2. MaxLen \in Nat /\ b <= MaxLen
  BY <1>1, FamilyFacts DEF PatchInv, CompilerType, MaxLen, Closed
<1>3. Len(prog) \in Nat
  BY LenProperties DEF PatchInv, CompilerType
<1>4. b \in 1 .. MaxLen
  BY <1>2, <1>3
<1> QED  BY <1>1, <1>4 DEF FlowInv, Flows, MaxLen

\* else.
LEMMA FlowElse ==
  ASSUME PatchInv, phase = "compile", NEW f, FlowInv(f), family' = family, phase' = phase,
         NEW ins \in Bytecode, prog' = Append(prog, ins), ins.op = "else", ins.n = 0,
         Top.kind = "if", Arity(Top) \in family.elses, live => Avail = Arity(Top),
         height' = Top.height, live' = TRUE,
         Len(blocks') = Len(blocks), blocks'[Len(blocks)].kind = "else",
         \A j \in 1 .. Len(blocks) :
            /\ blocks'[j].at = blocks[j].at /\ blocks'[j].height = blocks[j].height
            /\ blocks'[j].type = blocks[j].type
            /\ j # Len(blocks) => blocks'[j].kind = blocks[j].kind,
         closes' = [closes EXCEPT ![Top.at].els = Here]
  PROVE  \E h : FlowInv(h)' /\ Keeps(f, h, Len(prog) + 1)
<1> DEFINE m == Len(prog)
           D == Len(blocks)
           a == Top.at
<1>1. PICK h : h = Extended(f, m, Now')
  OBVIOUS
<1>2. /\ prog \in Seq(Bytecode) /\ prog' \in Seq(Bytecode) /\ m \in Nat /\ Len(prog') = m + 1
      /\ \A i \in 1 .. m : prog'[i] = prog[i]
      /\ prog'[m + 1] = ins
  BY AppendedProg DEF PatchInv, CompilerType
<1>3. /\ Now \in Points /\ f[m + 1] = Now /\ Len(Now.labels) = D /\ Top.height \in Nat /\ height \in Nat
      /\ height + D <= m + 1 /\ height + D <= MaxLen + 1 /\ Top.height <= height /\ D \in Nat /\ D >= 1
  BY CurrentFacts
<1>4. /\ \A j \in 1 .. D : Now.labels[j] = Label(blocks[j].at, blocks[j].height)
      /\ Now.live = live /\ Last(Now.labels) = Label(a, Top.height) /\ Spare(Now) = Avail
  BY CurrentFacts
<1>5. /\ BlockIs(prog, closes, Top)
      /\ \A j \in 1 .. D - 1 : blocks[j].at < a
      /\ a \in 0 .. m /\ f[a + 1].labels = Now.labels
      /\ Arity(Top) = Leaves(prog, family, a) /\ Arity(Top) \in {0, 1} /\ Top = blocks[D]
  BY TopFacts
<1>6. a \in 1 .. m /\ prog[a].op = "if" /\ closes[a].end = 0
  <2>1. a # 0
    BY <1>5 DEF BlockIs
  <2>2. a \in 1 .. m /\ prog[a].op \in Openers /\ closes[a].end = 0
        /\ "if" = IF prog[a].op = "if" /\ closes[a].els # 0 THEN "else" ELSE prog[a].op
    BY <1>5, <2>1 DEF BlockIs
  <2> QED  BY <2>2
<1>7. a \in 1 .. MaxLen /\ Closed(prog, family, closes, OpenAts, f, a)
  BY <1>6, OpenerIndex DEF Openers
<1>8. /\ Now'.height = height' /\ Now'.live = TRUE /\ Now'.labels = Now.labels
  <2>1. /\ Now'.labels = [j \in 1 .. Len(blocks') |-> Label(blocks'[j].at, blocks'[j].height)]
        /\ Now.labels = [j \in 1 .. Len(blocks) |-> Label(blocks[j].at, blocks[j].height)]
        /\ Now'.height = height' /\ Now'.live = live'
    BY DEF Now
  <2>2. \A j \in 1 .. Len(blocks) : Label(blocks'[j].at, blocks'[j].height) = Label(blocks[j].at, blocks[j].height)
    OBVIOUS
  <2> QED  BY <2>1, <2>2
<1>9. Now' \in Points
  <2> DEFINE lb == Now'.labels
             ht == height'
  <2>1. lb \in Seq(Labels) /\ ht \in Nat /\ Now' = [labels |-> lb, height |-> ht, live |-> TRUE]
    <3>1. Now' = [labels |-> Now'.labels, height |-> height', live |-> TRUE]
      BY DEF Now
    <3>2. Now.labels \in Seq(Labels)
      BY <1>3, PointFacts
    <3> QED  BY <1>3, <1>8, <3>1, <3>2
  <2> HIDE DEF lb, ht
  <2> QED  BY <2>1 DEF Points
<1>10. /\ h[m + 2] = Now'
       /\ \A i \in 1 .. m + 1 : h[i] = f[i] /\ f[i] \in Points
  <2> DEFINE p == Now'
  <2>1. f \in [1 .. m + 1 -> Points]
    BY DEF FlowInv, Flows
  <2>2. h = Extended(f, m, p) /\ p \in Points /\ m \in Nat
    BY <1>1, <1>2, <1>9
  <2> HIDE DEF p, m
  <2>3. /\ \A i \in 1 .. m + 1 : Extended(f, m, p)[i] = f[i]
        /\ Extended(f, m, p)[m + 2] = p
    BY <2>1, <2>2, ExtendedFacts
  <2>4. \A i \in 1 .. m + 1 : f[i] \in Points
    BY <2>1
  <2> QED  BY <2>2, <2>3, <2>4 DEF p
<1>11. Nested(prog', h, m + 2)
  <2> DEFINE q == m + 1
             p == Now'
  <2>1. /\ \A k \in 1 .. q : h[k] = f[k] /\ f[k] \in Points
        /\ \A k \in 1 .. q - 1 : prog'[k] = prog[k]
        /\ q \in Nat /\ q >= 1 /\ q + 1 = m + 2
    BY <1>2, <1>10
  <2>2. Nested(prog, f, q)
    BY <2>1 DEF FlowInv, Flows
  <2>3. Len(f[q].labels) >= 1 /\ p.labels = f[q].labels /\ p.height >= Last(f[q].labels).height
    <3>1. Last(Now.labels).height = Top.height
      BY <1>4 DEF Label
    <3> QED  BY <1>3, <1>8, <3>1
  <2>4. h[q + 1] = p /\ p \in Points
    BY <1>9, <1>10, <2>1
  <2> HIDE DEF q, p
  <2>5. Nested(prog', h, q + 1)
    BY <2>1, <2>2, <2>3, <2>4, NestedSame
  <2> QED  BY <2>1, <2>5
<1>12. closes \in [1 .. MaxLen -> [els : Nat, end : Nat]]
  BY DEF FlowInv, Flows, MaxLen
<1>13. /\ closes' \in [1 .. MaxLen -> [els : Nat, end : Nat]]
       /\ \A b \in 1 .. MaxLen : b # a => closes'[b] = closes[b]
       /\ closes'[a].els = m + 1 /\ closes'[a].end = 0
  <2> DEFINE r == [closes[a] EXCEPT !.els = m + 1]
  <2>1. closes' = [closes EXCEPT ![a] = r]
    BY DEF Here
  <2>2. closes[a] \in [els : Nat, end : Nat] /\ a \in DOMAIN closes /\ m + 1 \in Nat
    BY <1>2, <1>7, <1>12
  <2>3. r \in [els : Nat, end : Nat] /\ r.els = m + 1 /\ r.end = closes[a].end
    BY <2>2
  <2>4. closes[a].end = 0
    BY <1>6
  <2> HIDE DEF r, a, m
  <2> QED  BY <1>12, <2>1, <2>2, <2>3, <2>4
<1>14. OpenAts' = OpenAts
  BY DEF OpenAts
<1>15. Closed(prog', family, closes', OpenAts', h, a)
  <2>1. /\ prog'[a] = prog[a] /\ h[a + 1] = f[a + 1] /\ m + 1 \in a + 1 .. m + 1 /\ m + 1 # 0
        /\ h[(m + 1) + 1] = Now' /\ prog'[m + 1].op = "else"
    <3> HIDE DEF a, m
    <3>1. a + 1 \in 1 .. m + 1 /\ m + 1 \in a + 1 .. m + 1 /\ m + 1 # 0 /\ (m + 1) + 1 = m + 2
      BY <1>2, <1>6
    <3> QED  BY <1>2, <1>6, <1>10, <3>1
  <2>2. Now'.labels = h[a + 1].labels /\ Now'.height = Last(h[a + 1].labels).height
    <3>1. Last(Now.labels).height = Top.height
      BY <1>4 DEF Label
    <3> QED  BY <1>5, <1>8, <2>1, <3>1
  <2>3. a <= family.len /\ <<prog'[a].op, prog'[a].n>> \in family.openers /\ a \in OpenAts'
    <3>1. a \in OpenAts
      BY <1>3, <1>5 DEF OpenAts
    <3> QED  BY <1>7, <1>14, <2>1, <3>1 DEF Closed
  <2>4. Now'.live /\ Len(prog') = m + 1
    BY <1>2, <1>8
  <2>5. prog'[a].op = "if"
    BY <1>6, <2>1
  <2> HIDE DEF a, m
  <2> QED  BY <1>13, <2>1, <2>2, <2>3, <2>4, <2>5 DEF Closed
<1>16. \A b \in 1 .. m : prog[b].op \in Openers =>
         \/ closes'[b] = closes[b] /\ (b \in OpenAts => b \in OpenAts')
         \/ Closed(prog', family, closes', OpenAts', h, b)
  <2>1. \A b \in 1 .. m : prog[b].op \in Openers => b \in 1 .. MaxLen
    BY OpenerIndex
  <2> QED  BY <1>13, <1>14, <1>15, <2>1
<1>17. \A j \in 1 .. Len(blocks') : BlockIs(prog', closes', blocks'[j])
  <2> SUFFICES ASSUME NEW j \in 1 .. D PROVE BlockIs(prog', closes', blocks'[j])
    OBVIOUS
  <2>1. BlockIs(prog, closes, blocks[j])
    BY DEF FlowInv
  <2>2. blocks[j].at # 0 => blocks[j].at \in 1 .. m + 1 /\ prog'[blocks[j].at] = prog[blocks[j].at]
    BY <1>2, <2>1 DEF BlockIs
  <2>3. CASE j = D
    <3>1. blocks'[D].at = a /\ blocks'[D].kind = "else" /\ blocks'[D].type = Top.type
      BY <1>5, <2>3
    <3>2. a # 0 /\ Top.type = TypeOf(prog[a].n) /\ a \in 1 .. m + 1 /\ prog'[a] = prog[a] /\ m + 1 # 0
      BY <1>2, <1>5, <1>6, <2>1, <2>2, <2>3 DEF BlockIs
    <3> HIDE DEF a, m
    <3> QED  BY <1>2, <1>6, <1>13, <2>3, <3>1, <3>2 DEF BlockIs, Openers
  <2>4. CASE j # D
    <3>1. j \in 1 .. D - 1 /\ blocks'[j].at = blocks[j].at /\ blocks'[j].type = blocks[j].type
          /\ blocks'[j].kind = blocks[j].kind
      BY <1>3, <2>4
    <3>2. blocks[j].at # a
      <4>1. blocks[j].at \in 0 .. m
        BY CurrentFacts
      <4> QED  BY <1>2, <1>5, <3>1, <4>1
    <3>3. blocks[j].at # 0 => closes'[blocks[j].at] = closes[blocks[j].at]
      <4>1. blocks[j].at # 0 => blocks[j].at \in 1 .. MaxLen
        BY <2>1, OpenerIndex DEF BlockIs
      <4> QED  BY <1>13, <3>2, <4>1
    <3> DEFINE b == blocks[j]
               c == blocks'[j]
    <3>4. /\ BlockIs(prog, closes, b) /\ c.at = b.at /\ c.type = b.type /\ c.kind = b.kind /\ Len(prog') = m + 1
          /\ b.at # 0 => b.at \in 1 .. m + 1 /\ prog'[b.at] = prog[b.at] /\ closes'[b.at] = closes[b.at]
      BY <1>2, <2>1, <2>2, <3>1, <3>3
    <3> HIDE DEF b, c, m, D
    <3>5. b.at # 0 => b.at \in 1 .. Len(prog') /\ prog'[b.at] = prog[b.at] /\ closes'[b.at] = closes[b.at]
      BY <3>4
    <3> DEFINE pg2 == prog'
               cl2 == closes'
    <3> HIDE DEF pg2, cl2
    <3>6. b.at # 0 => b.at \in 1 .. Len(pg2) /\ pg2[b.at] = prog[b.at] /\ cl2[b.at] = closes[b.at]
      BY <3>5 DEF pg2, cl2
    <3>7. BlockIs(pg2, cl2, c)
      BY ONLY <3>4, <3>6, BlockKept
    <3>8. BlockIs(prog', closes', c)
      BY <3>7 DEF pg2, cl2
    <3> QED  BY <3>8 DEF c
  <2> QED  BY <2>3, <2>4
<1>18. Moves(prog', family, m + 1, Now, Now')
  <2>1. Leaves(prog', family, a) = Arity(Top)
    <3>1. prog'[a] = prog[a]
      BY <1>2, <1>6
    <3> QED  BY <1>5, <3>1 DEF Leaves
  <2>2. /\ Len(Now.labels) >= 1 /\ Now.live => Spare(Now) = Leaves(prog', family, Last(Now.labels).at)
        /\ Now'.height = Last(Now.labels).height /\ Last(Now.labels).at = a
    BY <1>3, <1>4, <1>8, <2>1 DEF Label
  <2>3. "else" \notin PlainOps
    BY DEF PlainOps, Binary, Unary
  <2>4. a # 0 /\ prog'[a].op = "if"
    BY <1>2, <1>6
  <2> HIDE DEF a
  <2> QED  BY <1>2, <1>3, <1>8, <2>1, <2>2, <2>3, <2>4 DEF Moves
<1>19. FlowInv(h)'
  <2>1. /\ height' + Len(Now'.labels) <= Len(prog) + 2 /\ height' + Len(Now'.labels) <= MaxLen + 1
    <3> DEFINE k == Top.height
    <3>1. MaxLen \in Nat
      BY FamilyFacts DEF PatchInv, CompilerType, MaxLen
    <3>2. /\ k \in Nat /\ k <= height /\ height + D <= m + 1 /\ height + D <= MaxLen + 1 /\ height' = k
          /\ height \in Nat /\ m \in Nat /\ D \in Nat /\ Len(Now'.labels) = D
      BY <1>2, <1>3, <1>8
    <3> HIDE DEF k, m, D
    <3>3. k + D <= m + 2 /\ k + D <= MaxLen + 1
      BY <3>1, <3>2
    <3> QED  BY <3>2, <3>3 DEF m
  <2>2. \A b \in 1 .. MaxLen : b > Len(prog) => closes'[b] = closes[b]
    BY <1>6, <1>13
  <2>3. ins.op \notin Openers
    BY DEF Openers
  <2> QED  BY <1>1, <1>9, <1>11, <1>13, <1>16, <1>17, <1>18, <2>1, <2>2, <2>3, FlowNext
<1> QED  BY <1>10, <1>19 DEF Keeps

-----------------------------------------------------------------------------
(* The handlers.                                                           *)

LEMMA PlainFlows ==
  ASSUME PatchInv, NEW f, FlowInv(f), family' = family, NEW ins \in PlainIns, CompilePlain(ins)
  PROVE  \E h : FlowInv(h)' /\ Keeps(f, h, Len(prog) + 1)
<1>1. /\ phase = "compile" /\ live /\ Len(prog) < MaxLen /\ Pops(ins) <= Avail
      /\ prog' = Append(prog, ins) /\ height' = height - Pops(ins) + Pushes(ins)
      /\ phase' = phase /\ blocks' = blocks /\ live' = live /\ closes' = closes
  BY DEF CompilePlain, CanCompile, Emit
<1>2. family \in Families /\ ins \in Bytecode /\ ins.op \in PlainOps /\ ins.n \in Nat
      /\ Pops(ins) \in Nat /\ Pushes(ins) \in {0, 1}
  BY PlainInsFacts DEF PatchInv, CompilerType
<1>3. ins.op \in family.plain /\ PlainOK(family, ins)
  BY <1>2 DEF PlainIns, PlainOK, NLocals
<1>4. ins.op \notin Openers /\ ins.op \notin {"else", "end", "br", "br_if", "br_table", "return"}
  BY <1>2 DEF PlainOps, Binary, Unary, Openers
<1>5. /\ Len(prog) \in Nat /\ Len(blocks) \in Nat /\ height \in Nat /\ Now.height = height /\ Now.live = live
      /\ Len(Now.labels) >= 1 /\ Spare(Now) = Avail /\ Top.height \in Nat /\ Top.height <= height
      /\ height + Len(blocks) <= Len(prog) + 1 /\ height + Len(blocks) <= MaxLen + 1
  BY <1>1, CurrentFacts
<1>6. Now'.labels = Now.labels /\ Now'.height = height' /\ Now'.live = live
  BY <1>1 DEF Now
<1>7. prog'[Len(prog) + 1] = ins
  BY <1>1, <1>2, AppendedProg DEF PatchInv, CompilerType
<1>8. Moves(prog', family, Len(prog) + 1, Now, Now')
  BY <1>1, <1>2, <1>3, <1>4, <1>5, <1>6, <1>7 DEF Moves, Openers
<1>9. /\ height' \in Nat /\ height' >= Top.height
      /\ height' + Len(blocks) <= Len(prog) + 2 /\ height' + Len(blocks) <= MaxLen + 1
  <2> DEFINE k == Top.height
             u == Pops(ins)
             v == Pushes(ins)
             m == Len(prog)
             D == Len(blocks)
  <2>1. MaxLen \in Nat
    BY <1>2, FamilyFacts
  <2>2. /\ k \in Nat /\ u \in Nat /\ v \in {0, 1} /\ m \in Nat /\ D \in Nat /\ height \in Nat
        /\ u <= height - k /\ height' = height - u + v /\ height + D <= m + 1 /\ m < MaxLen
    BY <1>1, <1>2, <1>5 DEF Avail
  <2> HIDE DEF k, u, v, m, D
  <2>3. height' \in Nat /\ height' >= k /\ height' + D <= m + 2 /\ height' + D <= MaxLen + 1
    BY <2>1, <2>2
  <2> QED  BY <2>3 DEF k, m, D
<1>10. SameOutline
  BY <1>1 DEF SameOutline
<1>11. live' \in BOOLEAN
  BY <1>1 DEF FlowInv
<1> QED  BY <1>1, <1>2, <1>4, <1>8, <1>9, <1>10, <1>11, FlowSame

LEMMA OpenFlows ==
  ASSUME PatchInv, NEW f, FlowInv(f), family' = family,
         NEW kind, NEW arity, <<kind, arity>> \in family.openers, CompileBlock(kind, arity)
  PROVE  \E h : FlowInv(h)' /\ Keeps(f, h, Len(prog) + 1)
<1> DEFINE ins == Ins(kind, arity)
           b == Block(kind, TypeOf(arity), IF kind = "loop" THEN Cur ELSE 0, <<>>, Here, height)
<1>1. /\ phase = "compile" /\ live /\ Len(prog) < MaxLen /\ kind \in {"block", "loop"}
      /\ prog' = Append(prog, ins) /\ height' = height /\ blocks' = Append(blocks, b)
      /\ phase' = phase /\ live' = live /\ closes' = closes
  BY DEF CompileBlock, CanCompile, Emit
<1>2. /\ ins \in Bytecode /\ ins.op = kind /\ ins.n = arity
  <2>1. arity \in Int
    <3>1. <<kind, arity>> \in {"block", "loop", "if"} \X {0, 1}
      BY FamilyFacts DEF PatchInv, CompilerType
    <3> QED  BY <3>1
  <2>2. kind \in PlainOps \cup {"block", "loop", "if", "else", "br", "br_if", "return", "end"}
    BY <1>1
  <2> QED  BY <2>1, <2>2, InsType
<1>3. b.at = Len(prog) + 1 /\ b.height = height /\ b.kind = kind /\ b.type = TypeOf(arity)
  BY DEF Block, Here
<1>4. /\ Len(prog) \in Nat /\ height \in Nat /\ Now.height = height /\ Now.live = live
      /\ Len(Now.labels) >= 1 /\ Top.height <= height
  BY <1>1, CurrentFacts
<1>5. prog'[Len(prog) + 1] = ins
  BY <1>1, <1>2, AppendedProg DEF PatchInv, CompilerType
<1>6. kind \notin PlainOps
  BY <1>1 DEF PlainOps, Binary, Unary
<1>7. Now'.height = height' /\ Now'.live = live
  BY <1>1 DEF Now
<1>8. Now'.labels = Append(Now.labels, Label(Len(prog) + 1, height')) =>
        Moves(prog', family, Len(prog) + 1, Now, Now')
  <2> HIDE DEF ins
  <2> QED  BY <1>1, <1>2, <1>4, <1>5, <1>6, <1>7 DEF Moves
<1>9. live' \in BOOLEAN
  BY <1>1 DEF FlowInv
<1> HIDE DEF ins, b
<1> QED  BY <1>1, <1>2, <1>3, <1>4, <1>8, <1>9, FlowPush

LEMMA IfFlows ==
  ASSUME PatchInv, NEW f, FlowInv(f), family' = family,
         NEW arity, <<"if", arity>> \in family.openers, CompileIf(arity)
  PROVE  \E h : FlowInv(h)' /\ Keeps(f, h, Len(prog) + 1)
<1> DEFINE ins == Ins("if", arity)
           b == Block("if", TypeOf(arity), 0, <<Cur>>, Here, height - 1)
<1>1. /\ phase = "compile" /\ live /\ Len(prog) < MaxLen /\ Avail >= 1
      /\ prog' = Append(prog, ins) /\ height' = height - 1 /\ blocks' = Append(blocks, b)
      /\ phase' = phase /\ live' = live /\ closes' = closes
  BY DEF CompileIf, CanCompile, Emit
<1>2. /\ ins \in Bytecode /\ ins.op = "if" /\ ins.n = arity
  <2>1. arity \in Int
    <3>1. <<"if", arity>> \in {"block", "loop", "if"} \X {0, 1}
      BY FamilyFacts DEF PatchInv, CompilerType
    <3> QED  BY <3>1
  <2> QED  BY <2>1, InsType
<1>3. b.at = Len(prog) + 1 /\ b.height = height - 1 /\ b.kind = "if" /\ b.type = TypeOf(arity)
  BY DEF Block, Here
<1>4. /\ Len(prog) \in Nat /\ height \in Nat /\ Now.height = height /\ Now.live = live
      /\ Len(Now.labels) >= 1 /\ Top.height \in Nat /\ Spare(Now) = Avail
  BY <1>1, CurrentFacts
<1>5. prog'[Len(prog) + 1] = ins
  BY <1>1, <1>2, AppendedProg DEF PatchInv, CompilerType
<1>6. "if" \notin PlainOps
  BY DEF PlainOps, Binary, Unary
<1>7. Now'.height = height' /\ Now'.live = live
  BY <1>1 DEF Now
<1>8. Now'.labels = Append(Now.labels, Label(Len(prog) + 1, height')) =>
        Moves(prog', family, Len(prog) + 1, Now, Now')
  <2> HIDE DEF ins
  <2> QED  BY <1>1, <1>2, <1>4, <1>5, <1>6, <1>7 DEF Moves
<1>9. live' \in BOOLEAN
  BY <1>1 DEF FlowInv
<1>10. height' \in Nat /\ height' <= height /\ height' >= Top.height
  BY <1>1, <1>4 DEF Avail
<1> HIDE DEF ins, b
<1> QED  BY <1>1, <1>2, <1>3, <1>8, <1>9, <1>10, FlowPush

\* What the branches have in common: nothing is pushed.
LEMMA BranchFlows ==
  ASSUME PatchInv, phase = "compile", NEW f, FlowInv(f), family' = family, closes' = closes, SameOutline,
         phase' = phase, NEW ins \in Bytecode, prog' = Append(prog, ins),
         ins.op \in {"br", "br_if", "br_table", "return"},
         height' \in Nat, height' >= Top.height, height' <= height, live' \in BOOLEAN,
         Moves(prog', family, Len(prog) + 1, Now, Now')
  PROVE  \E h : FlowInv(h)' /\ Keeps(f, h, Len(prog) + 1)
<1>1. ins.op \notin Openers
  BY DEF Openers
<1>2. height' + Len(blocks) <= Len(prog) + 2 /\ height' + Len(blocks) <= MaxLen + 1
  <2> DEFINE m == Len(prog)
             D == Len(blocks)
  <2> DEFINE k == height'
  <2>1. /\ m \in Nat /\ D \in Nat /\ height \in Nat /\ MaxLen \in Nat /\ k \in Nat /\ k <= height
        /\ height + D <= m + 1 /\ height + D <= MaxLen + 1
    BY CurrentFacts, FamilyFacts DEF PatchInv, CompilerType
  <2> HIDE DEF m, D, k
  <2>2. k + D <= m + 2 /\ k + D <= MaxLen + 1
    BY <2>1
  <2> QED  BY <2>2 DEF m, D, k
<1> QED  BY <1>1, <1>2, FlowSame

\* A fixup is all that a branch adds to a block.
LEMMA FixupOutline ==
  ASSUME PatchInv, phase = "compile", NEW d \in Depths, NEW pos, blocks' = AddFixup(d, pos)
  PROVE  SameOutline
<1>1. Len(blocks) - d \in 1 .. Len(blocks) /\ blocks \in Seq(OpenBlock)
  BY TargetFacts DEF PatchInv, CompilerType
<1> DEFINE t == Len(blocks) - d
           b == [blocks[t] EXCEPT !.rel = Append(@, pos)]
<1>2. blocks' = IF Target(d).addr = 0 THEN [blocks EXCEPT ![t] = b] ELSE blocks
  BY DEF AddFixup
<1>3. blocks[t] \in OpenBlock
  BY <1>1, ElementOfSeq
<1>4. b.at = blocks[t].at /\ b.height = blocks[t].height /\ b.kind = blocks[t].kind /\ b.type = blocks[t].type
  BY <1>3 DEF OpenBlock
<1> HIDE DEF b, t
<1>5. DOMAIN blocks = 1 .. Len(blocks) /\ Len(blocks) \in Nat
  BY <1>1, LenProperties
<1>6. CASE Target(d).addr = 0
  <2>1. Len(blocks') = Len(blocks) /\ \A j \in 1 .. Len(blocks) : blocks'[j] = IF j = t THEN b ELSE blocks[j]
    <3>1. \E S : blocks \in Seq(S) /\ b \in S
      <4>1. blocks \in Seq(OpenBlock \cup {b})
        BY <1>1, SeqMonotonic
      <4> QED  BY <4>1
    <3>2. t \in 1 .. Len(blocks)
      BY <1>1 DEF t
    <3> QED  BY <1>2, <1>6, <3>1, <3>2, ExceptSeq
  <2> QED  BY <1>4, <2>1 DEF SameOutline
<1>7. CASE Target(d).addr # 0
  BY <1>2, <1>7 DEF SameOutline
<1> QED  BY <1>6, <1>7

LEMMA OutlineNow ==
  ASSUME SameOutline
  PROVE  Now'.labels = Now.labels /\ Now'.height = height' /\ Now'.live = live'
<1>1. /\ Now'.labels = [j \in 1 .. Len(blocks') |-> Label(blocks'[j].at, blocks'[j].height)]
      /\ Now.labels = [j \in 1 .. Len(blocks) |-> Label(blocks[j].at, blocks[j].height)]
      /\ Now'.height = height' /\ Now'.live = live'
  BY DEF Now
<1>2. \A j \in 1 .. Len(blocks) : Label(blocks'[j].at, blocks'[j].height) = Label(blocks[j].at, blocks[j].height)
  BY DEF SameOutline
<1> QED  BY <1>1, <1>2 DEF SameOutline

LEMMA BranchLater ==
  ASSUME PatchInv, phase = "compile", NEW f, FlowInv(f), NEW d \in Depths, NEW more \in Nat,
         Avail >= LabelArity(Target(d)) + more,
         NEW pg, \A i \in 1 .. Len(prog) : pg[i] = prog[i]
  PROVE  /\ Branches(pg, family, Now, d, more)
         /\ Takes(pg, family, Nth(Now.labels, d).at) = LabelArity(Target(d))
         /\ LabelArity(Target(d)) \in Nat
<1>1. /\ Branches(prog, family, Now, d, more)
      /\ Takes(prog, family, Nth(Now.labels, d).at) = LabelArity(Target(d))
      /\ Nth(Now.labels, d) = Label(Target(d).at, Target(d).height)
  BY BranchIs
<1>2. Target(d).at \in 0 .. Len(prog)
  <2>1. Len(blocks) - d \in 1 .. Len(blocks)
    BY TargetFacts DEF PatchInv
  <2> QED  BY <2>1, CurrentFacts DEF Target
<1>3. Nth(Now.labels, d).at = Target(d).at
  BY <1>1 DEF Label
<1>4. Takes(pg, family, Target(d).at) = Takes(prog, family, Target(d).at)
  <2>1. Target(d).at # 0 => Target(d).at \in 1 .. Len(prog)
    <3>1. Len(prog) \in Nat
      BY CurrentFacts
    <3> QED  BY <1>2, <3>1
  <2> QED  BY <2>1 DEF Takes, Leaves
<1>5. LabelArity(Target(d)) \in Nat
  <2>1. Target(d) \in OpenBlock
    BY TargetFacts DEF PatchInv
  <2>2. LabelArity(Target(d)) \in {0, 1}
    BY <2>1, ArityFacts DEF PatchInv, CompilerType
  <2> QED  BY <2>2
<1> QED  BY <1>1, <1>3, <1>4, <1>5 DEF Branches

LEMMA BrFlows ==
  ASSUME PatchInv, NEW f, FlowInv(f), family' = family, NEW d \in Depths, CompileBr(d)
  PROVE  \E h : FlowInv(h)' /\ Keeps(f, h, Len(prog) + 1)
<1> DEFINE ins == Ins("br", d)
<1>1. /\ phase = "compile" /\ live /\ Len(prog) < MaxLen /\ Avail >= LabelArity(Target(d))
      /\ prog' = Append(prog, ins) /\ height' = height
      /\ phase' = phase /\ live' = FALSE /\ closes' = closes
  BY DEF CompileBr, CanCompile, Emit
<1>2. SameOutline
  BY <1>1, FixupOutline DEF CompileBr
<1>3. ins \in Bytecode /\ ins.op = "br" /\ ins.n = d
  <2>1. d \in Int
    BY <1>1, TargetFacts DEF PatchInv
  <2> QED  BY <2>1, InsType
<1>4. prog'[Len(prog) + 1] = ins /\ \A i \in 1 .. Len(prog) : prog'[i] = prog[i]
  BY <1>1, <1>3, AppendedProg DEF PatchInv, CompilerType
<1>5. Branches(prog', family, Now, d, 0)
  <2> DEFINE pg == prog'
  <2>1. /\ 0 \in Nat /\ Avail >= LabelArity(Target(d)) + 0
        /\ \A i \in 1 .. Len(prog) : pg[i] = prog[i]
    <3>1. LabelArity(Target(d)) \in {0, 1}
      BY <1>1, TargetFacts, ArityFacts DEF PatchInv, CompilerType
    <3> QED  BY <1>1, <1>4, <3>1
  <2> HIDE DEF pg
  <2>2. Branches(pg, family, Now, d, 0)
    BY <1>1, <2>1, BranchLater
  <2> QED  BY <2>2 DEF pg
<1>6. Now'.labels = Now.labels /\ Now'.height = height /\ Now'.live = FALSE
  BY <1>1, <1>2, OutlineNow
<1>7. /\ height \in Nat /\ Now.height = height /\ Now.live = live
      /\ Len(Now.labels) >= 1 /\ Top.height \in Nat /\ Top.height <= height
  BY <1>1, CurrentFacts
<1>8. "br" \notin PlainOps
  BY DEF PlainOps, Binary, Unary
<1>9. Moves(prog', family, Len(prog) + 1, Now, Now')
  <2> HIDE DEF ins
  <2> QED  BY <1>1, <1>3, <1>4, <1>5, <1>6, <1>7, <1>8 DEF Moves
<1> HIDE DEF ins
<1>10. height' \in Nat /\ height' >= Top.height /\ height' <= height /\ live' \in BOOLEAN
  <2>1. height' = height /\ live' \in BOOLEAN
    BY <1>1
  <2>2. height \in Nat /\ Top.height \in Nat /\ Top.height <= height
    BY <1>7
  <2> DEFINE k == Top.height
  <2> HIDE DEF k
  <2>3. height >= k
    BY <2>2 DEF k
  <2>4. height <= height
    BY <2>2
  <2> QED  BY <2>1, <2>2, <2>3, <2>4 DEF k
<1> QED  BY <1>1, <1>2, <1>3, <1>9, <1>10, BranchFlows

LEMMA BrIfFlows ==
  ASSUME PatchInv, NEW f, FlowInv(f), family' = family, NEW d \in Depths, CompileBrIf(d)
  PROVE  \E h : FlowInv(h)' /\ Keeps(f, h, Len(prog) + 1)
<1> DEFINE ins == Ins("br_if", d)
<1>1. /\ phase = "compile" /\ live /\ Len(prog) < MaxLen /\ Avail >= LabelArity(Target(d)) + 1
      /\ prog' = Append(prog, ins) /\ height' = height - 1
      /\ phase' = phase /\ live' = live /\ closes' = closes
  BY DEF CompileBrIf, CanCompile, Emit
<1>2. SameOutline
  BY <1>1, FixupOutline DEF CompileBrIf
<1>3. ins \in Bytecode /\ ins.op = "br_if" /\ ins.n = d
  <2>1. d \in Int
    BY <1>1, TargetFacts DEF PatchInv
  <2> QED  BY <2>1, InsType
<1>4. prog'[Len(prog) + 1] = ins /\ \A i \in 1 .. Len(prog) : prog'[i] = prog[i]
  BY <1>1, <1>3, AppendedProg DEF PatchInv, CompilerType
<1>5. Branches(prog', family, Now, d, 1) /\ LabelArity(Target(d)) \in Nat
  <2> DEFINE pg == prog'
  <2>1. /\ 1 \in Nat
        /\ \A i \in 1 .. Len(prog) : pg[i] = prog[i]
    BY <1>4
  <2> HIDE DEF pg
  <2>2. Branches(pg, family, Now, d, 1) /\ LabelArity(Target(d)) \in Nat
    BY <1>1, <2>1, BranchLater
  <2> QED  BY <2>2 DEF pg
<1>6. Now'.labels = Now.labels /\ Now'.height = height - 1 /\ Now'.live = live
  BY <1>1, <1>2, OutlineNow
<1>7. /\ height \in Nat /\ Now.height = height /\ Now.live = live
      /\ Len(Now.labels) >= 1 /\ Top.height \in Nat /\ Top.height <= height
  BY <1>1, CurrentFacts
<1>8. "br_if" \notin PlainOps
  BY DEF PlainOps, Binary, Unary
<1>9. Moves(prog', family, Len(prog) + 1, Now, Now')
  <2> HIDE DEF ins
  <2> QED  BY <1>1, <1>3, <1>4, <1>5, <1>6, <1>7, <1>8 DEF Moves
<1>10. height' \in Nat /\ height' >= Top.height /\ height' <= height
  BY <1>1, <1>5, <1>7 DEF Avail
<1>11. live' \in BOOLEAN
  BY <1>1 DEF FlowInv
<1> HIDE DEF ins
<1> QED  BY <1>1, <1>2, <1>3, <1>9, <1>10, <1>11, BranchFlows

LEMMA BrTableFlows ==
  ASSUME PatchInv, NEW f, FlowInv(f), family' = family, NEW d \in Depths, NEW ts \in Seq(Depths),
         "br_table" \in family.branches, CompileBrTable(ts, d)
  PROVE  \E h : FlowInv(h)' /\ Keeps(f, h, Len(prog) + 1)
<1> DEFINE ins == [op |-> "br_table", n |-> d, ts |-> ts]
<1>1. /\ phase = "compile" /\ live /\ Len(prog) < MaxLen /\ Avail >= LabelArity(Target(d)) + 1
      /\ \A t \in Range(ts) : LabelArity(Target(t)) = LabelArity(Target(d))
      /\ prog' = Append(prog, ins) /\ height' = height
      /\ phase' = phase /\ live' = FALSE /\ closes' = closes
  BY DEF CompileBrTable, CanCompile
<1>2. SameOutline
  <2>1. blocks \in Seq(OpenBlock) /\ Len(blocks) \in Nat
    BY LenProperties DEF PatchInv, CompilerType
  <2>2. PICK W : blocks' = [j \in 1 .. Len(blocks) |-> [blocks[j] EXCEPT !.abs = @ \cup W[j]]]
    <3> DEFINE entries == [i \in 1 .. Len(ts) + 1 |->
                      LET t == IF i = 1 THEN d ELSE ts[i - 1]
                      IN  [dist |-> t, addr |-> Target(t).addr]]
               at(k) == {i \in 1 .. Len(entries) : entries[i].dist = k /\ entries[i].addr = 0}
               V == [j \in 1 .. Len(blocks) |-> {<<Cur, i>> : i \in at(Len(blocks) - j)}]
    <3>1. blocks' = [j \in 1 .. Len(blocks) |->
                        [blocks[j] EXCEPT !.abs = @ \cup {<<Cur, i>> : i \in at(Len(blocks) - j)}]]
      BY DEF CompileBrTable
    <3> HIDE DEF at
    <3>2. blocks' = [j \in 1 .. Len(blocks) |-> [blocks[j] EXCEPT !.abs = @ \cup V[j]]]
      BY <3>1
    <3> QED  BY <3>2
  <2>3. \A j \in 1 .. Len(blocks) : blocks[j] \in OpenBlock
    BY <2>1, ElementOfSeq
  <2>4. Len(blocks') = Len(blocks)
    <3> DEFINE r == blocks'
               D == Len(blocks)
    <3>1. r = [j \in 1 .. D |-> r[j]] /\ D \in Nat
      BY <2>1, <2>2
    <3> HIDE DEF r, D
    <3>2. Len(r) = D
      BY <3>1
    <3> QED  BY <3>2 DEF r, D
  <2> QED  BY <2>2, <2>3, <2>4 DEF SameOutline, OpenBlock
<1>3. ins \in Bytecode /\ ins.op = "br_table" /\ ins.n = d /\ ins.ts = ts
      /\ \A k \in 1 .. Len(ts) : ts[k] \in Depths /\ ts[k] \in Range(ts)
  <2>1. d \in Int
    BY <1>1, TargetFacts DEF PatchInv
  <2>2. ts \in Seq(Nat)
    <3>1. Depths \subseteq Nat
      BY DEF Depths
    <3> QED  BY <3>1, SeqMonotonic
  <2>3. \A k \in 1 .. Len(ts) : ts[k] \in Depths /\ ts[k] \in Range(ts)
    BY ElementOfSeq, RangeFacts
  <2> QED  BY <2>1, <2>2, <2>3 DEF Bytecode
<1>4. prog'[Len(prog) + 1] = ins /\ \A i \in 1 .. Len(prog) : prog'[i] = prog[i]
  <2> HIDE DEF ins
  <2> QED  BY <1>1, <1>3, AppendedProg DEF PatchInv, CompilerType
<1>5. \A t \in Depths : LabelArity(Target(t)) = LabelArity(Target(d)) =>
          /\ Branches(prog', family, Now, t, 1)
          /\ Takes(prog', family, Nth(Now.labels, t).at) = LabelArity(Target(d))
  <2> SUFFICES ASSUME NEW t \in Depths, LabelArity(Target(t)) = LabelArity(Target(d))
               PROVE  /\ Branches(prog', family, Now, t, 1)
                      /\ Takes(prog', family, Nth(Now.labels, t).at) = LabelArity(Target(d))
    OBVIOUS
  <2> DEFINE pg == prog'
  <2>1. /\ 1 \in Nat /\ Avail >= LabelArity(Target(t)) + 1
        /\ \A i \in 1 .. Len(prog) : pg[i] = prog[i]
    BY <1>1, <1>4
  <2> HIDE DEF pg
  <2>2. Branches(pg, family, Now, t, 1) /\ Takes(pg, family, Nth(Now.labels, t).at) = LabelArity(Target(t))
    BY <1>1, <2>1, BranchLater
  <2> QED  BY <2>2 DEF pg
<1>6. Now'.labels = Now.labels /\ Now'.height = height /\ Now'.live = FALSE
  BY <1>1, <1>2, OutlineNow
<1>7. /\ height \in Nat /\ Now.height = height /\ Now.live = live
      /\ Len(Now.labels) >= 1 /\ Top.height \in Nat /\ Top.height <= height
  BY <1>1, CurrentFacts
<1>8. "br_table" \notin PlainOps
  BY DEF PlainOps, Binary, Unary
<1>9. Moves(prog', family, Len(prog) + 1, Now, Now')
  <2>1. Branches(prog', family, Now, d, 1)
        /\ \A k \in 1 .. Len(ts) : /\ Branches(prog', family, Now, ts[k], 1)
                                   /\ Takes(prog', family, Nth(Now.labels, ts[k]).at)
                                        = Takes(prog', family, Nth(Now.labels, d).at)
    BY <1>1, <1>3, <1>5
  <2> HIDE DEF ins
  <2> QED  BY <1>1, <1>3, <1>4, <1>6, <1>7, <1>8, <2>1 DEF Moves
<1> HIDE DEF ins
<1>10. height' \in Nat /\ height' >= Top.height /\ height' <= height /\ live' \in BOOLEAN
  <2>1. height' = height /\ live' \in BOOLEAN
    BY <1>1
  <2>2. height \in Nat /\ Top.height \in Nat /\ Top.height <= height
    BY <1>7
  <2> DEFINE k == Top.height
  <2> HIDE DEF k
  <2>3. height >= k
    BY <2>2 DEF k
  <2>4. height <= height
    BY <2>2
  <2> QED  BY <2>1, <2>2, <2>3, <2>4 DEF k
<1> QED  BY <1>1, <1>2, <1>3, <1>9, <1>10, BranchFlows

LEMMA ReturnFlows ==
  ASSUME PatchInv, NEW f, FlowInv(f), family' = family, CompileReturn
  PROVE  \E h : FlowInv(h)' /\ Keeps(f, h, Len(prog) + 1)
<1> DEFINE ins == Ins("return", 0)
<1>1. /\ phase = "compile" /\ live /\ Len(prog) < MaxLen /\ Avail >= FnArity
      /\ prog' = Append(prog, ins) /\ height' = height
      /\ phase' = phase /\ live' = FALSE /\ closes' = closes /\ blocks' = blocks
  BY DEF CompileReturn, CanCompile, Emit
<1>2. SameOutline
  BY <1>1 DEF SameOutline
<1>3. ins \in Bytecode /\ ins.op = "return"
  BY InsType
<1>4. prog'[Len(prog) + 1] = ins
  BY <1>1, <1>3, AppendedProg DEF PatchInv, CompilerType
<1>5. Now'.labels = Now.labels /\ Now'.height = height /\ Now'.live = FALSE
  BY <1>1, <1>2, OutlineNow
<1>6. /\ height \in Nat /\ Now.height = height /\ Now.live = live /\ Spare(Now) = Avail
      /\ Len(Now.labels) >= 1 /\ Top.height \in Nat /\ Top.height <= height
  BY <1>1, CurrentFacts
<1>7. "return" \notin PlainOps
  BY DEF PlainOps, Binary, Unary
<1>8. Moves(prog', family, Len(prog) + 1, Now, Now')
  <2> HIDE DEF ins
  <2> QED  BY <1>1, <1>3, <1>4, <1>5, <1>6, <1>7 DEF Moves, FnArity
<1> HIDE DEF ins
<1>9. height' \in Nat /\ height' >= Top.height /\ height' <= height /\ live' \in BOOLEAN
  <2>1. height' = height /\ live' \in BOOLEAN
    BY <1>1
  <2>2. height \in Nat /\ Top.height \in Nat /\ Top.height <= height
    BY <1>6
  <2> DEFINE k == Top.height
  <2> HIDE DEF k
  <2>3. height >= k
    BY <2>2 DEF k
  <2>4. height <= height
    BY <2>2
  <2> QED  BY <2>1, <2>2, <2>3, <2>4 DEF k
<1> QED  BY <1>1, <1>2, <1>3, <1>8, <1>9, BranchFlows

LEMMA EndFlows ==
  ASSUME PatchInv, NEW f, FlowInv(f), family' = family, CompileEnd
  PROVE  \E h : FlowInv(h)' /\ Keeps(f, h, Len(prog) + 1)
<1> DEFINE ins == Ins("end", 0)
<1>1. ins \in Bytecode /\ ins.op = "end"
  BY InsType
<1>2. /\ phase = "compile" /\ prog' = Append(prog, ins)
      /\ blocks' = Front(blocks) /\ height' = Top.height + Arity(Top) /\ live' = TRUE
      /\ live => Avail = Arity(Top)
      /\ Top.kind = "if" => Arity(Top) = 0
      /\ closes' = IF Top.at = 0 THEN closes ELSE [closes EXCEPT ![Top.at].end = Here]
      /\ phase' = IF Len(blocks) = 1 THEN "ready" ELSE phase
  BY DEF CompileEnd
<1> HIDE DEF ins
<1> QED  BY <1>1, <1>2, FlowPop

LEMMA ElseFlows ==
  ASSUME PatchInv, NEW f, FlowInv(f), family' = family, CompileElse
  PROVE  \E h : FlowInv(h)' /\ Keeps(f, h, Len(prog) + 1)
<1> DEFINE ins == Ins("else", 0)
           jump == Cur + Len(LeaveBlock(TRUE))
           b == [Top EXCEPT !.kind = "else", !.rel = Tail(Append(Top.rel, jump))]
           D == Len(blocks)
<1>1. ins \in Bytecode /\ ins.op = "else" /\ ins.n = 0
  BY InsType
<1>2. /\ phase = "compile" /\ prog' = Append(prog, ins) /\ phase' = phase
      /\ Top.kind = "if" /\ Arity(Top) \in family.elses /\ height' = Top.height /\ live' = TRUE
      /\ live => Avail = Arity(Top)
      /\ closes' = [closes EXCEPT ![Top.at].els = Here]
      /\ blocks' = [blocks EXCEPT ![D].kind = "else", ![D].rel = Tail(Append(Top.rel, jump))]
  BY DEF CompileElse
<1>3. /\ D \in 1 .. D /\ Top = blocks[D] /\ blocks \in Seq(OpenBlock) /\ Top \in OpenBlock
  <2>1. /\ D \in 1 .. D /\ Top = blocks[D]
    BY <1>2, TopFacts
  <2> QED  BY <2>1, ElementOfSeq DEF PatchInv, CompilerType
<1>4. b.at = Top.at /\ b.height = Top.height /\ b.type = Top.type /\ b.kind = "else"
  BY <1>3 DEF OpenBlock
<1>5. DOMAIN blocks = 1 .. D /\ D \in Nat
  BY <1>3, LenProperties
<1>6. blocks' = [blocks EXCEPT ![D] = b]
  BY <1>2, <1>3, <1>5
<1> HIDE DEF b
<1>7. Len(blocks') = D /\ \A j \in 1 .. D : blocks'[j] = IF j = D THEN b ELSE blocks[j]
  <2>1. \E S : blocks \in Seq(S) /\ b \in S
    <3>1. blocks \in Seq(OpenBlock \cup {b})
      BY <1>3, SeqMonotonic
    <3> QED  BY <3>1
  <2> HIDE DEF D
  <2> QED  BY <1>3, <1>6, <2>1, ExceptSeq DEF D
<1>8. /\ blocks'[D].kind = "else"
      /\ \A j \in 1 .. D :
            /\ blocks'[j].at = blocks[j].at /\ blocks'[j].height = blocks[j].height
            /\ blocks'[j].type = blocks[j].type
            /\ j # D => blocks'[j].kind = blocks[j].kind
  BY <1>3, <1>4, <1>7
<1> HIDE DEF ins, jump
<1> QED  BY <1>1, <1>2, <1>7, <1>8, FlowElse

LEMMA InitFlows ==
  ASSUME Init
  PROVE  \E f : FlowInv(f) /\ f[1] = Entered
<1> DEFINE b == Block("fn", "none", 0, <<>>, 0, 0)
           g == [i \in 1 .. 1 |-> Entered]
<1>1. /\ family \in Families /\ phase = "compile" /\ prog = <<>> /\ height = 0 /\ live = TRUE
      /\ blocks = <<b>> /\ closes = [i \in 1 .. MaxLen |-> [els |-> 0, end |-> 0]]
  BY DEF Init
<1>2. b.at = 0 /\ b.height = 0 /\ b.kind = "fn" /\ b.type = "none"
  BY DEF Block
<1> HIDE DEF b
<1>3. Len(blocks) = 1 /\ blocks[1] = b
  BY <1>1
<1>4. Now = Entered
  <2>1. Now.labels = [j \in 1 .. 1 |-> Label(0, 0)]
    BY <1>2, <1>3 DEF Now
  <2>2. Now.labels = <<Label(0, 0)>>
    <3> DEFINE q == Now.labels
               l == Label(0, 0)
    <3>1. q = [j \in 1 .. 1 |-> l]
      BY <2>1
    <3> HIDE DEF q, l
    <3>2. q = <<l>>
      BY <3>1
    <3> QED  BY <3>2 DEF q, l
  <2> QED  BY <1>1, <2>2 DEF Now, Entered
<1>5. Len(prog) = 0
  BY <1>1
<1>6. <<Label(0, 0)>> \in Seq(Labels) /\ Len(<<Label(0, 0)>>) = 1 /\ <<Label(0, 0)>>[1] = Label(0, 0)
      /\ Label(0, 0).at = 0 /\ Label(0, 0).height = 0
  BY DEF Label, Labels
<1>7. Entered \in Points /\ Entered.labels = <<Label(0, 0)>> /\ Entered.height = 0
  BY <1>6 DEF Entered, Points
<1>8. g[1] = Entered /\ g \in [1 .. Len(prog) + 1 -> Points]
  BY <1>5, <1>7
<1>9. MaxLen \in Nat
  BY <1>1, FamilyFacts
<1>10. Nested(prog, g, 1)
  <2> DEFINE s == Entered.labels
             l0 == Label(0, 0)
  <2>1. s \in Seq(Labels) /\ Len(s) = 1 /\ s[1] = l0 /\ l0.at = 0 /\ l0.height = 0
    BY <1>6, <1>7
  <2>2. SubSeq(s, 1, 1) = s
    <3> HIDE DEF s, l0
    <3>1. /\ SubSeq(s, 1, 1) \in Seq(Labels) /\ Len(SubSeq(s, 1, 1)) = 1
          /\ \A i \in 1 .. 1 : SubSeq(s, 1, 1)[i] = s[i]
      BY <2>1, SubSeqFacts
    <3> QED  BY <2>1, <3>1, SeqEqual
  <2>3. g[1].labels = s /\ g[1].height = 0
    BY <1>7, <1>8
  <2>4. g[0 + 1].labels = s
    BY <2>3
  <2>5. 0 + 1 = 1 /\ \A j \in 1 .. Len(s) : j = 1
    BY <2>1
  <2> HIDE DEF s, l0, g
  <2> SUFFICES ASSUME NEW j \in 1 .. Len(g[1].labels)
               PROVE  LET l == g[1].labels[j]
                      IN  /\ l.at < 1 /\ (l.at = 0 <=> j = 1)
                          /\ l.at # 0 => prog[l.at].op \in Openers
                          /\ SubSeq(g[1].labels, 1, j) = g[l.at + 1].labels
                          /\ l.height <= g[1].height
                          /\ \A k \in 1 .. j - 1 : g[1].labels[k].height <= l.height /\ g[1].labels[k].at < l.at
    BY DEF Nested
  <2>6. j = 1 /\ g[1].labels[j] = l0
    BY <2>1, <2>3, <2>5
  <2>7. 0 < 1 /\ 0 <= 0 /\ 1 .. 1 - 1 = {}
    OBVIOUS
  <2> QED  BY <2>1, <2>2, <2>3, <2>4, <2>6, <2>7
<1>11. Bounded(family, g, 1)
  <2>1. g[1].height = 0 /\ Len(g[1].labels) = 1
    BY <1>6, <1>7, <1>8
  <2>2. 0 + 1 <= 1 /\ 0 + 1 <= MaxLen + 1
    BY <1>9
  <2> HIDE DEF g
  <2> QED  BY <2>1, <2>2 DEF Bounded, MaxLen
<1>12. Flows(prog, family, closes, OpenAts, g)
  <2>1. closes \in [1 .. family.len -> [els : Nat, end : Nat]]
        /\ \A a \in 1 .. family.len : closes[a] = [els |-> 0, end |-> 0]
    BY <1>1 DEF MaxLen
  <2>2. \A i \in 1 .. Len(prog) + 1 : Nested(prog, g, i) /\ Bounded(family, g, i)
    BY <1>5, <1>10, <1>11
  <2>3. 1 .. Len(prog) = {}
    BY <1>5
  <2> HIDE DEF g
  <2> QED  BY <1>8, <2>1, <2>2, <2>3 DEF Flows
<1>13. \A j \in 1 .. Len(blocks) : BlockIs(prog, closes, blocks[j])
  BY <1>2, <1>3 DEF BlockIs
<1>14. g[Len(prog) + 1] = Now
  BY <1>4, <1>5, <1>8
<1>15. FlowInv(g)
  <2> HIDE DEF g
  <2> QED  BY <1>1, <1>12, <1>13, <1>14 DEF FlowInv
<1> HIDE DEF g
<1> QED  BY <1>8, <1>15

-----------------------------------------------------------------------------

-----------------------------------------------------------------------------
(* The layout of the code.  st[i] is where the code of instruction i       *)
(* starts, with its `mov r12'.  Openers are named by their instruction,    *)
(* the function itself by 0.  cl is `closes', B the open blocks, ph the    *)
(* phase.                                                                  *)

LoopAt(pg, a) == a # 0 /\ pg[a].op = "loop"
Valued(pg, a) == a = 0 \/ pg[a].n = 1
Leaving(d, keep) == [i \in 1 .. d |-> PopRdi] \o LeaveBlock(keep)
Dist(ins, k) == IF k = 1 THEN ins.n ELSE ins.ts[k - 1]

\* What a block has to patch: <<p, 0>> is the jump at p, <<p, k>> entry k of the table at p.
Pend(b) == {<<p, 0>> : p \in Range(b.rel)} \cup b.abs

\* No block patches anything of the instruction at p, or at least not its operand.
Idle(B, p) == \A j \in 1 .. Len(B), k \in Nat : <<p, k>> \notin Pend(B[j])
Free(B, p) == \A j \in 1 .. Len(B) : <<p, 0>> \notin Pend(B[j])

\* The code has the instructions s after `off', and none of them waits for an address.
Fix(B, c, off, s) == \A k \in 1 .. Len(s) : c[off + k] = s[k] /\ Idle(B, off + k)

\* What is written to a jump `op' to the opener a, once it is known; 0 before.
Goal(pg, cl, st, ph, op, a) ==
    IF op = "enter if" /\ a # 0 /\ cl[a].els # 0 THEN st[cl[a].els] + 3
    ELSE IF LoopAt(pg, a) THEN st[a] + 1
    ELSE IF a = 0 THEN IF ph # "compile" THEN st[Len(pg) + 1] ELSE 0
    ELSE IF cl[a].end # 0 THEN st[cl[a].end + 1] ELSE 0

Written(c, p, k) == IF k = 0 THEN c[p].n ELSE c[p].ts[k].addr

\* The jump at p, or entry k of its table, goes to the opener a; while the place is not known
\* the block of a, and no other, will patch it.
Goes(pg, cl, B, c, st, ph, p, k, a) ==
    LET g == Goal(pg, cl, st, ph, c[p].op, a)
    IN  /\ g # 0 => Written(c, p, k) = g
        /\ \A j \in 1 .. Len(B) : <<p, k>> \in Pend(B[j]) <=> g = 0 /\ B[j].at = a

Jump(pg, cl, B, c, st, ph, p, op, a) == c[p].op = op /\ Goes(pg, cl, B, c, st, ph, p, 0, a)

\* The code of instruction i, where the labels labs are open and T is its template if it has one.
Shape(pg, cl, B, c, st, ph, labs, i, T) ==
    LET ins == pg[i]
        p == st[i]
        top == Last(labs).at
        a == Nth(labs, ins.n).at
        s == Leaving(ins.n, Valued(pg, a))
        l == LeaveBlock(Valued(pg, top))
    IN  /\ Fix(B, c, p - 1, <<Ins("dbg", i)>>)
        /\ ins.op \in PlainOps => Fix(B, c, p, T) /\ st[i + 1] = p + 1 + Len(T)
        /\ ins.op \in {"block", "loop"} => Fix(B, c, p, EnterBlock) /\ st[i + 1] = p + 3
        /\ ins.op = "if" =>
              /\ Jump(pg, cl, B, c, st, ph, p + 1, "enter if", i) /\ Fix(B, c, p + 1, EnterBlock)
              /\ st[i + 1] = p + 4
        /\ ins.op = "else" =>
              /\ Fix(B, c, p, <<PopRdi>>) /\ Jump(pg, cl, B, c, st, ph, p + 2, "jmp", top)
              /\ Fix(B, c, p + 2, EnterBlock) /\ st[i + 1] = p + 5
        /\ ins.op = "end" => Fix(B, c, p, l) /\ st[i + 1] = p + 1 + Len(l)
        /\ ins.op = "br" =>
              /\ Fix(B, c, p, s) /\ Jump(pg, cl, B, c, st, ph, p + Len(s) + 1, "jmp", a)
              /\ st[i + 1] = p + Len(s) + 2
        /\ ins.op = "br_if" =>
              /\ Fix(B, c, p, <<Ins("jump if not", p + Len(s) + 3)>>) /\ Fix(B, c, p + 1, s)
              /\ Jump(pg, cl, B, c, st, ph, p + Len(s) + 2, "jmp", a) /\ st[i + 1] = p + Len(s) + 3
        /\ ins.op = "br_table" =>
              /\ c[p + 1].op = "br table" /\ Free(B, p + 1)
              /\ c[p + 1].n = IF Valued(pg, a) THEN 1 ELSE 0
              /\ Len(c[p + 1].ts) = Len(ins.ts) + 1
              /\ \A k \in 1 .. Len(ins.ts) + 1 :
                    /\ c[p + 1].ts[k].dist = Dist(ins, k)
                    /\ Goes(pg, cl, B, c, st, ph, p + 1, k, Nth(labs, Dist(ins, k)).at)
              /\ st[i + 1] = p + 2
        /\ ins.op = "return" =>
              Fix(B, c, p, <<Ins("add rsp", Len(labs)), Ins("ret", 0)>>) /\ st[i + 1] = p + 3

\* What an open block knows of the code.
BlockCode(pg, c, st, b) ==
    /\ b.addr = IF LoopAt(pg, b.at) THEN st[b.at] + 1 ELSE 0
    /\ b.kind = "if" => /\ Len(b.rel) >= 1 /\ b.rel[1] = st[b.at] + 1
                        /\ \A k \in 2 .. Len(b.rel) : b.rel[k] # b.rel[1]
    /\ \A q \in Pend(b) : q[1] \in 1 .. Len(c)
    /\ \A q \in b.abs : q[2] \in 1 .. Len(c[q[1]].ts)

\* All of the code: the prologue pro, then the instructions; tp are their templates.
Laid(pg, cl, B, c, f, st, ph, pro, tp) ==
    /\ st \in [1 .. Len(pg) + 1 -> 1 .. Len(c) + 1]
    /\ Fix(B, c, 0, pro) /\ st[1] = Len(pro) + 1
    /\ \A i \in 1 .. Len(pg) : Shape(pg, cl, B, c, st, ph, f[i].labels, i, tp[i])
    /\ \A j \in 1 .. Len(B) : BlockCode(pg, c, st, B[j])

-----------------------------------------------------------------------------
(* Code that grew or was patched.  c2 has at p what c has, but for an      *)
(* address that a block of B was to patch.                                 *)

Alike(B, B2, c, c2, p) ==
    /\ Idle(B, p) => c2[p] = c[p] /\ Idle(B2, p)
    /\ Free(B, p) => c2[p].n = c[p].n /\ Free(B2, p)
    /\ c2[p].op = c[p].op /\ Len(c2[p].ts) = Len(c[p].ts)
    /\ \A k \in 1 .. Len(c[p].ts) : c2[p].ts[k].dist = c[p].ts[k].dist

AllAlike(B, B2, c, c2, L) == \A p \in 1 .. L : Alike(B, B2, c, c2, p)

\* Every jump up to L goes where it went, be it known or not.
Aiming(c, st, p, k, a) ==
    /\ c[p].op = "enter if" => p = st[a] + 1 /\ k = 0
    /\ k # 0 => k \in 1 .. Len(c[p].ts)
AllGo(pg, cl, B, c, st, ph, pg2, cl2, B2, c2, st2, ph2, L, A) ==
    \A p \in 1 .. L, k \in Nat, a \in A :
        Goes(pg, cl, B, c, st, ph, p, k, a) /\ Aiming(c, st, p, k, a) =>
            Goes(pg2, cl2, B2, c2, st2, ph2, p, k, a)

LEMMA FixKept ==
  ASSUME NEW B, NEW B2, NEW c, NEW c2, NEW L \in Nat, AllAlike(B, B2, c, c2, L),
         NEW off \in Nat, NEW s, Len(s) \in Nat, off + Len(s) <= L, Fix(B, c, off, s)
  PROVE  Fix(B2, c2, off, s)
<1> SUFFICES ASSUME NEW k \in 1 .. Len(s)
             PROVE  c2[off + k] = s[k] /\ Idle(B2, off + k)
  BY DEF Fix
<1>1. off + k \in 1 .. L
  OBVIOUS
<1>2. c[off + k] = s[k] /\ Idle(B, off + k)
  BY DEF Fix
<1> QED  BY <1>1, <1>2 DEF Alike, AllAlike

LEMMA LeavingFacts ==
  ASSUME NEW d \in Nat, NEW keep \in BOOLEAN
  PROVE  /\ Leaving(d, keep) \in Seq(Straight)
         /\ Len(Leaving(d, keep)) = d + IF keep THEN 1 ELSE 2
         /\ \A k \in 1 .. d + 1 : Leaving(d, keep)[k] = PopRdi
         /\ ~keep => Leaving(d, keep)[d + 2] = _PopContractStack
<1> DEFINE pops == [i \in 1 .. d |-> PopRdi]
           l == LeaveBlock(keep)
<1>1. pops \in Seq(Straight) /\ Len(pops) = d /\ \A k \in 1 .. d : pops[k] = PopRdi
  <2>1. pops \in [1 .. d -> Straight] /\ \A k \in 1 .. d : pops[k] = PopRdi
    BY FixedTemplates
  <2> HIDE DEF pops
  <2> QED  BY <2>1, SeqElements
<1>2. l \in Seq(Straight) /\ Len(l) = (IF keep THEN 1 ELSE 2) /\ l[1] = PopRdi /\ (~keep => l[2] = _PopContractStack)
  <2>1. l \in Seq(Straight) /\ Len(l) = IF keep THEN 1 ELSE 2
    BY LeaveBlockType
  <2>2. CASE keep
    <3>1. <<PopRdi>> \in Seq(Straight) /\ Len(<<PopRdi>>) = 1 /\ <<PopRdi>>[1] = PopRdi
      BY FixedTemplates, Tuple1
    <3>2. <<>> \in Seq(Straight)
      BY EmptyTs
    <3>3. (<<PopRdi>> \o <<>>)[1] = PopRdi
      <4> DEFINE u == <<PopRdi>>
                 v == <<>>
      <4>1. u \in Seq(Straight) /\ v \in Seq(Straight) /\ Len(u) = 1 /\ u[1] = PopRdi
        BY <3>1, <3>2
      <4> HIDE DEF u, v
      <4>2. \A i \in 1 .. Len(u) : (u \o v)[i] = u[i]
        BY <4>1, ConcatFacts
      <4>3. 1 \in 1 .. 1
        OBVIOUS
      <4>4. (u \o v)[1] = PopRdi
        BY <4>1, <4>2, <4>3
      <4> QED  BY <4>4 DEF u, v
    <3> QED  BY <2>1, <2>2, <3>3 DEF LeaveBlock
  <2>3. CASE ~keep
    <3> DEFINE u == <<PopRdi>>
               v == <<_PopContractStack>>
    <3>1. /\ u \in Seq(Straight) /\ Len(u) = 1 /\ u[1] = PopRdi
          /\ v \in Seq(Straight) /\ Len(v) = 1 /\ v[1] = _PopContractStack
      BY FixedTemplates, Tuple1
    <3>2. l = u \o v
      BY <2>3 DEF LeaveBlock
    <3> HIDE DEF u, v, l
    <3>3. /\ \A i \in 1 .. Len(u) : (u \o v)[i] = u[i]
          /\ \A i \in 1 .. Len(v) : (u \o v)[Len(u) + i] = v[i]
      BY <3>1, ConcatFacts
    <3>4. 1 \in 1 .. 1 /\ 1 + 1 = 2
      OBVIOUS
    <3>5. (u \o v)[1] = PopRdi /\ (u \o v)[1 + 1] = _PopContractStack
      BY <3>1, <3>3, <3>4
    <3> QED  BY <2>1, <3>2, <3>4, <3>5 DEF l
  <2> QED  BY <2>2, <2>3
<1>3. Leaving(d, keep) = pops \o l
  BY DEF Leaving
<1> HIDE DEF pops, l
<1>4. /\ pops \o l \in Seq(Straight) /\ Len(pops \o l) = Len(pops) + Len(l)
      /\ \A i \in 1 .. Len(pops) : (pops \o l)[i] = pops[i]
      /\ \A i \in 1 .. Len(l) : (pops \o l)[Len(pops) + i] = l[i]
  BY <1>1, <1>2, ConcatFacts
<1>5. (pops \o l)[d + 1] = PopRdi
  <2>1. 1 \in 1 .. Len(l)
    BY <1>2
  <2> QED  BY <1>1, <1>2, <1>4, <2>1
<1>6. ~keep => (pops \o l)[d + 2] = _PopContractStack
  <2>1. ~keep => 2 \in 1 .. Len(l)
    BY <1>2
  <2> QED  BY <1>1, <1>2, <1>4, <2>1
<1>7. \A k \in 1 .. d + 1 : (pops \o l)[k] = PopRdi
  <2>1. \A k \in 1 .. d + 1 : k = d + 1 \/ k \in 1 .. d
    OBVIOUS
  <2> QED  BY <1>1, <1>4, <1>5, <2>1
<1> QED  BY <1>1, <1>2, <1>3, <1>4, <1>6, <1>7

\* What was said of the code of an instruction is said of it in the new code.
LEMMA ShapeKept ==
  ASSUME NEW pg, NEW pg2, NEW cl, NEW cl2, NEW B, NEW B2, NEW c, NEW c2, NEW st, NEW st2, NEW ph, NEW ph2,
         NEW fam, NEW L \in Nat, NEW A \in SUBSET Nat, NEW i \in Nat \ {0}, NEW s \in Points, NEW t, NEW T,
         Moves(pg, fam, i, s, t), \A j \in 1 .. Len(s.labels) : s.labels[j].at < i /\ s.labels[j].at \in A,
         pg[i].op = "if" => i \in A,
         pg[i] \in Bytecode, \A a \in 1 .. i : pg2[a] = pg[a],
         st[i] \in Nat \ {0}, st[i + 1] \in 1 .. L + 1, st2[i] = st[i], st2[i + 1] = st[i + 1],
         Len(T) \in Nat,
         AllAlike(B, B2, c, c2, L), AllGo(pg, cl, B, c, st, ph, pg2, cl2, B2, c2, st2, ph2, L, A),
         Shape(pg, cl, B, c, st, ph, s.labels, i, T)
  PROVE  Shape(pg2, cl2, B2, c2, st2, ph2, s.labels, i, T)
<1> DEFINE ins == pg[i]
           labs == s.labels
           p == st[i]
           e == st[i + 1]
           top == Last(labs).at
           a == Nth(labs, ins.n).at
           w == Leaving(ins.n, Valued(pg, a))
           l == LeaveBlock(Valued(pg, top))
<1>1. pg2[i] = ins /\ ins \in Bytecode /\ p \in Nat /\ p >= 1 /\ e \in Nat /\ e <= L + 1
  OBVIOUS
<1>2. Len(labs) \in Nat /\ Len(labs) >= 1 /\ \A j \in 1 .. Len(labs) : labs[j].at \in A /\ labs[j].at < i
  <2>1. \A j \in 1 .. Len(labs) : labs[j].at \in Nat /\ labs[j].at < i
    BY PointFacts
  <2> QED  BY <2>1, PointFacts DEF Moves
<1>3. top \in A /\ top < i
  BY <1>2 DEF Last
<1>4. \A d \in 0 .. Len(labs) - 1 : Nth(labs, d).at \in A /\ Nth(labs, d).at < i
  <2> SUFFICES ASSUME NEW d \in 0 .. Len(labs) - 1 PROVE Nth(labs, d).at \in A /\ Nth(labs, d).at < i
    OBVIOUS
  <2>1. Len(labs) - d \in 1 .. Len(labs)
    BY <1>2
  <2> QED  BY <1>2, <2>1 DEF Nth
<1>5. \A x \in A : x < i => Valued(pg2, x) = Valued(pg, x)
  <2> SUFFICES ASSUME NEW x \in A, x < i PROVE Valued(pg2, x) = Valued(pg, x)
    OBVIOUS
  <2>1. x = 0 \/ x \in 1 .. i
    OBVIOUS
  <2> QED  BY <2>1 DEF Valued
<1>6. Valued(pg2, top) = Valued(pg, top) /\ Len(l) \in Nat
  <2>1. Valued(pg, top) \in BOOLEAN => Len(l) \in Nat
    BY LeaveBlockType, LenProperties
  <2> QED  BY <1>3, <1>5, <2>1 DEF Valued
<1>7. \A u : \A off \in Nat : Len(u) \in Nat /\ off + Len(u) <= L /\ Fix(B, c, off, u) => Fix(B2, c2, off, u)
  BY FixKept
<1>8. \A j : \A q \in 1 .. L, x \in A :
         Jump(pg, cl, B, c, st, ph, q, j, x) /\ (j # "enter if" \/ q = st[x] + 1) =>
            Jump(pg2, cl2, B2, c2, st2, ph2, q, j, x)
  BY DEF Jump, Alike, AllAlike, AllGo, Aiming
<1>9. /\ Fix(B, c, p - 1, <<Ins("dbg", i)>>)
      /\ ins.op \in PlainOps => Fix(B, c, p, T) /\ e = p + 1 + Len(T)
      /\ ins.op \in {"block", "loop"} => Fix(B, c, p, EnterBlock) /\ e = p + 3
      /\ ins.op = "if" =>
            /\ Jump(pg, cl, B, c, st, ph, p + 1, "enter if", i) /\ Fix(B, c, p + 1, EnterBlock)
            /\ e = p + 4
      /\ ins.op = "else" =>
            /\ Fix(B, c, p, <<PopRdi>>) /\ Jump(pg, cl, B, c, st, ph, p + 2, "jmp", top)
            /\ Fix(B, c, p + 2, EnterBlock) /\ e = p + 5
      /\ ins.op = "end" => Fix(B, c, p, l) /\ e = p + 1 + Len(l)
      /\ ins.op = "br" =>
            Fix(B, c, p, w) /\ Jump(pg, cl, B, c, st, ph, p + Len(w) + 1, "jmp", a) /\ e = p + Len(w) + 2
      /\ ins.op = "br_if" =>
            /\ Fix(B, c, p, <<Ins("jump if not", p + Len(w) + 3)>>) /\ Fix(B, c, p + 1, w)
            /\ Jump(pg, cl, B, c, st, ph, p + Len(w) + 2, "jmp", a) /\ e = p + Len(w) + 3
      /\ ins.op = "br_table" =>
            /\ c[p + 1].op = "br table" /\ Free(B, p + 1)
            /\ c[p + 1].n = IF Valued(pg, a) THEN 1 ELSE 0
            /\ Len(c[p + 1].ts) = Len(ins.ts) + 1
            /\ \A k \in 1 .. Len(ins.ts) + 1 :
                  /\ c[p + 1].ts[k].dist = Dist(ins, k)
                  /\ Goes(pg, cl, B, c, st, ph, p + 1, k, Nth(labs, Dist(ins, k)).at)
            /\ e = p + 2
      /\ ins.op = "return" => Fix(B, c, p, <<Ins("add rsp", Len(labs)), Ins("ret", 0)>>) /\ e = p + 3
  BY DEF Shape
<1>10. ins.op \in {"br", "br_if", "br_table"} =>
          /\ ins.n \in 0 .. Len(labs) - 1
          /\ a \in A /\ Valued(pg2, a) = Valued(pg, a) /\ Len(w) \in Nat
  <2> SUFFICES ASSUME ins.op \in {"br", "br_if", "br_table"}
               PROVE  /\ ins.n \in 0 .. Len(labs) - 1
                      /\ a \in A /\ Valued(pg2, a) = Valued(pg, a) /\ Len(w) \in Nat
    OBVIOUS
  <2>1. ins.n \in 0 .. Len(labs) - 1
    BY DEF Moves, Branches
  <2>2. a \in A /\ a < i
    BY <1>4, <2>1
  <2>3. ins.n \in Nat /\ Valued(pg, a) \in BOOLEAN
    BY <2>1 DEF Valued
  <2>4. Len(w) \in Nat
    BY <2>3, LeavingFacts, LenProperties
  <2> QED  BY <1>5, <2>1, <2>2, <2>4
<1>11. ins.op = "br_table" => \A k \in 1 .. Len(ins.ts) + 1 : Nth(labs, Dist(ins, k)).at \in A
  <2> SUFFICES ASSUME ins.op = "br_table", NEW k \in 1 .. Len(ins.ts) + 1
               PROVE  Nth(labs, Dist(ins, k)).at \in A
    OBVIOUS
  <2>1. Len(ins.ts) \in Nat
    BY LenProperties DEF Bytecode
  <2>2. k = 1 \/ k - 1 \in 1 .. Len(ins.ts)
    BY <2>1
  <2>3. Dist(ins, k) \in 0 .. Len(labs) - 1
    <3>1. \A x \in 1 .. Len(ins.ts) : ins.ts[x] \in 0 .. Len(labs) - 1
      BY DEF Moves, Branches
    <3> QED  BY <1>10, <2>2, <3>1 DEF Dist
  <2> QED  BY <1>4, <2>3
<1> HIDE DEF p, e, l, w, a, top, labs, ins
<1> USE <1>1
<1>12. Len(EnterBlock) = 2 /\ \A x : Len(<<x>>) = 1
  BY FixedTemplates
<1> DEFINE op == ins.op
           y == Len(T)
           z == Len(l)
           v == Len(w)
<1>27. /\ op \in PlainOps => e = p + 1 + y
       /\ op \in {"block", "loop"} => e = p + 3
       /\ op = "if" => e = p + 4
       /\ op = "else" => e = p + 5
       /\ op = "end" => e = p + 1 + z
       /\ op = "br" => e = p + v + 2
       /\ op = "br_if" => e = p + v + 3
       /\ op = "br_table" => e = p + 2
       /\ op = "return" => e = p + 3
  BY <1>9
<1>28. /\ y \in Nat /\ z \in Nat /\ (op \in {"br", "br_if"} => v \in Nat)
  BY <1>6, <1>10
<1>29. op \in PlainOps \cup {"block", "loop", "if", "else", "br", "br_if", "br_table", "return", "end"}
  BY DEF Bytecode
<1> HIDE DEF op, y, z, v
<1>30. /\ p \in 1 .. L /\ p - 1 \in Nat /\ p \in Nat
       /\ op \in PlainOps => p + y <= L
       /\ op \in {"block", "loop"} => p + 2 <= L
       /\ op = "if" => p + 1 \in 1 .. L /\ p + 1 + 2 <= L
       /\ op = "else" => p + 1 <= L /\ p + 2 \in 1 .. L /\ p + 2 + 2 <= L
       /\ op = "end" => p + z <= L
       /\ op = "br" => p + v <= L /\ p + v + 1 \in 1 .. L
       /\ op = "br_if" => p + 1 <= L /\ p + 1 + v <= L /\ p + v + 2 \in 1 .. L
       /\ op = "br_table" => p + 1 \in 1 .. L
       /\ op = "return" => p + 2 <= L
  <2>1. p \in Nat /\ p >= 1 /\ e \in Nat /\ e <= L + 1 /\ L \in Nat
    OBVIOUS
  <2>2. CASE op \in PlainOps
    BY <1>27, <1>28, <2>1, <2>2 DEF PlainOps, Binary, Unary
  <2>3. CASE op \in {"block", "loop", "if", "else", "br", "br_if", "br_table", "return", "end"}
    <3>1. op \notin PlainOps
      BY <2>3 DEF PlainOps, Binary, Unary
    <3>2. CASE op = "end"
      BY <1>27, <1>28, <2>1, <3>2
    <3>3. CASE op = "br"
      BY <1>27, <1>28, <2>1, <3>3
    <3>4. CASE op = "br_if"
      <4>1. e = p + v + 3 /\ v \in Nat
        BY <1>27, <1>28, <3>4
      <4> QED  BY <2>1, <3>1, <3>4, <4>1
    <3>5. CASE op \in {"block", "loop", "if", "else", "br_table", "return"}
      BY <1>27, <2>1, <3>1, <3>5
    <3> QED  BY <2>3, <3>2, <3>3, <3>4, <3>5
  <2> QED  BY <1>29, <2>2, <2>3
<1> USE DEF op, y, z, v
<1>31. p - 1 + 1 = p /\ p + 1 \in Nat /\ p + 2 \in Nat
  OBVIOUS
<1>32. 1 \in Nat /\ 2 \in Nat
  OBVIOUS
<1>13. \A u : \A off \in Nat, n \in Nat : Len(u) = n /\ off + n <= L /\ Fix(B, c, off, u) => Fix(B2, c2, off, u)
  BY <1>7
<1>14. Fix(B2, c2, p - 1, <<Ins("dbg", i)>>)
  <2>1. p - 1 + 1 <= L
    BY <1>30, <1>31
  <2>2. Fix(B, c, p - 1, <<Ins("dbg", i)>>) /\ Len(<<Ins("dbg", i)>>) = 1 /\ p - 1 \in Nat
    BY <1>9, <1>12, <1>30
  <2> QED  BY <1>12, <1>13, <2>1, <2>2, <1>32, Zenon
<1>15. op \in PlainOps => Fix(B2, c2, p, T)
  BY <1>9, <1>13, <1>28, <1>30, <1>32, Zenon
<1>16. op \in {"block", "loop"} => Fix(B2, c2, p, EnterBlock)
  <2>1. op \in {"block", "loop"} => Fix(B, c, p, EnterBlock) /\ p + 2 <= L
    BY <1>9, <1>30
  <2> QED  BY <1>12, <1>13, <1>30, <1>32, <2>1, Zenon
<1>17. op = "if" => Jump(pg2, cl2, B2, c2, st2, ph2, p + 1, "enter if", i) /\ Fix(B2, c2, p + 1, EnterBlock)
  <2>1. op = "if" => Jump(pg, cl, B, c, st, ph, p + 1, "enter if", i) /\ Fix(B, c, p + 1, EnterBlock)
    BY <1>9
  <2>2. op = "if" => p + 1 \in 1 .. L /\ p + 1 + 2 <= L
    BY <1>30
  <2>3. op = "if" => i \in A
    OBVIOUS
  <2>6. p + 1 = st[i] + 1
    BY DEF p
  <2> HIDE DEF op
  <2>4. op = "if" => Jump(pg2, cl2, B2, c2, st2, ph2, p + 1, "enter if", i)
    BY <1>8, <2>1, <2>2, <2>3, <2>6, Zenon
  <2>5. op = "if" => Fix(B2, c2, p + 1, EnterBlock)
    BY <1>12, <1>13, <1>31, <1>32, <2>1, <2>2, Zenon
  <2> QED  BY <2>4, <2>5
<1>18. op = "else" => /\ Fix(B2, c2, p, <<PopRdi>>) /\ Jump(pg2, cl2, B2, c2, st2, ph2, p + 2, "jmp", top)
                      /\ Fix(B2, c2, p + 2, EnterBlock)
  <2>1. op = "else" => /\ Fix(B, c, p, <<PopRdi>>) /\ Jump(pg, cl, B, c, st, ph, p + 2, "jmp", top)
                       /\ Fix(B, c, p + 2, EnterBlock)
    BY <1>9
  <2>2. op = "else" => p + 1 <= L /\ p + 2 \in 1 .. L /\ p + 2 + 2 <= L
    BY <1>30
  <2> HIDE DEF op
  <2>3. op = "else" => Jump(pg2, cl2, B2, c2, st2, ph2, p + 2, "jmp", top)
    BY <1>3, <1>8, <2>1, <2>2, Zenon
  <2>4. op = "else" => Fix(B2, c2, p + 2, EnterBlock)
    BY <1>12, <1>13, <1>31, <1>32, <2>1, <2>2, Zenon
  <2>5. op = "else" => Fix(B2, c2, p, <<PopRdi>>)
    BY <1>12, <1>13, <1>30, <1>32, <2>1, <2>2, Zenon
  <2> QED  BY <2>3, <2>4, <2>5
<1>19. op = "end" => Fix(B2, c2, p, l)
  BY <1>9, <1>13, <1>28, <1>30, <1>32, Zenon
<1>20. op = "br" => Fix(B2, c2, p, w) /\ Jump(pg2, cl2, B2, c2, st2, ph2, p + v + 1, "jmp", a)
  <2>1. op = "br" => Fix(B, c, p, w) /\ Jump(pg, cl, B, c, st, ph, p + v + 1, "jmp", a) /\ a \in A
    BY <1>9, <1>10
  <2>2. op = "br" => p + v <= L /\ p + v + 1 \in 1 .. L /\ v \in Nat /\ Len(w) = v
    BY <1>28, <1>30
  <2> HIDE DEF op, v
  <2>3. op = "br" => Jump(pg2, cl2, B2, c2, st2, ph2, p + v + 1, "jmp", a)
    BY <1>8, <2>1, <2>2, Zenon
  <2>4. op = "br" => Fix(B2, c2, p, w)
    BY <1>13, <1>30, <1>32, <2>1, <2>2, Zenon
  <2> QED  BY <2>3, <2>4
<1>21. op = "br_if" => /\ Fix(B2, c2, p, <<Ins("jump if not", p + v + 3)>>) /\ Fix(B2, c2, p + 1, w)
                       /\ Jump(pg2, cl2, B2, c2, st2, ph2, p + v + 2, "jmp", a)
  <2>1. op = "br_if" => /\ Fix(B, c, p, <<Ins("jump if not", p + v + 3)>>) /\ Fix(B, c, p + 1, w)
                        /\ Jump(pg, cl, B, c, st, ph, p + v + 2, "jmp", a) /\ a \in A
    BY <1>9, <1>10
  <2>2. op = "br_if" => p + 1 <= L /\ p + 1 + v <= L /\ p + v + 2 \in 1 .. L /\ v \in Nat /\ Len(w) = v
    BY <1>28, <1>30
  <2> HIDE DEF op, v
  <2>3. op = "br_if" => Jump(pg2, cl2, B2, c2, st2, ph2, p + v + 2, "jmp", a)
    BY <1>8, <2>1, <2>2, Zenon
  <2>4. op = "br_if" => Fix(B2, c2, p + 1, w)
    BY <1>13, <1>31, <1>32, <2>1, <2>2, Zenon
  <2>5. op = "br_if" => Fix(B2, c2, p, <<Ins("jump if not", p + v + 3)>>)
    BY <1>12, <1>13, <1>30, <1>32, <2>1, <2>2, Zenon
  <2> QED  BY <2>3, <2>4, <2>5
<1>22. op = "br_table" =>
            /\ c2[p + 1].op = "br table" /\ Free(B2, p + 1)
            /\ c2[p + 1].n = IF Valued(pg, a) THEN 1 ELSE 0
            /\ Len(c2[p + 1].ts) = Len(ins.ts) + 1
            /\ \A k \in 1 .. Len(ins.ts) + 1 :
                  /\ c2[p + 1].ts[k].dist = Dist(ins, k)
                  /\ Goes(pg2, cl2, B2, c2, st2, ph2, p + 1, k, Nth(labs, Dist(ins, k)).at)
  <2> SUFFICES ASSUME op = "br_table"
               PROVE  /\ c2[p + 1].op = "br table" /\ Free(B2, p + 1)
                      /\ c2[p + 1].n = IF Valued(pg, a) THEN 1 ELSE 0
                      /\ Len(c2[p + 1].ts) = Len(ins.ts) + 1
                      /\ \A k \in 1 .. Len(ins.ts) + 1 :
                            /\ c2[p + 1].ts[k].dist = Dist(ins, k)
                            /\ Goes(pg2, cl2, B2, c2, st2, ph2, p + 1, k, Nth(labs, Dist(ins, k)).at)
    OBVIOUS
  <2>1. p + 1 \in 1 .. L
    BY <1>30
  <2>2. Alike(B, B2, c, c2, p + 1)
    BY <2>1 DEF AllAlike
  <2>3. \A k \in 1 .. Len(ins.ts) + 1 : k \in Nat
    OBVIOUS
  <2>4. \A k \in 1 .. Len(ins.ts) + 1 : Goes(pg2, cl2, B2, c2, st2, ph2, p + 1, k, Nth(labs, Dist(ins, k)).at)
    BY <1>9, <1>11, <2>1, <2>3 DEF AllGo, Aiming
  <2> QED  BY <1>9, <2>2, <2>4 DEF Alike
<1>23. op = "return" => Fix(B2, c2, p, <<Ins("add rsp", Len(labs)), Ins("ret", 0)>>)
  <2>1. Len(<<Ins("add rsp", Len(labs)), Ins("ret", 0)>>) = 2
    OBVIOUS
  <2>2. op = "return" => Fix(B, c, p, <<Ins("add rsp", Len(labs)), Ins("ret", 0)>>) /\ p + 2 <= L
    BY <1>9, <1>30
  <2> QED  BY <1>13, <1>30, <1>32, <2>1, <2>2, Zenon
<1>24. /\ pg2[i] = ins /\ st2[i] = p /\ st2[i + 1] = e
       /\ Valued(pg2, top) = Valued(pg, top)
       /\ ins.op \in {"br", "br_if", "br_table"} => Valued(pg2, a) = Valued(pg, a)
  BY <1>6, <1>10 DEF p, e
<1> DEFINE w2 == Leaving(ins.n, Valued(pg2, a))
           l2 == LeaveBlock(Valued(pg2, top))
<1>25. l2 = l /\ (ins.op \in {"br", "br_if"} => w2 = w)
  BY <1>24 DEF l, w
<1> HIDE DEF w2, l2
<1>26. /\ ins.op = "br" =>
            /\ Fix(B2, c2, p, w2) /\ Jump(pg2, cl2, B2, c2, st2, ph2, p + Len(w2) + 1, "jmp", a)
            /\ e = p + Len(w2) + 2
       /\ ins.op = "br_if" =>
            /\ Fix(B2, c2, p, <<Ins("jump if not", p + Len(w2) + 3)>>) /\ Fix(B2, c2, p + 1, w2)
            /\ Jump(pg2, cl2, B2, c2, st2, ph2, p + Len(w2) + 2, "jmp", a) /\ e = p + Len(w2) + 3
       /\ ins.op = "end" => Fix(B2, c2, p, l2) /\ e = p + 1 + Len(l2)
       /\ ins.op = "br_table" => c2[p + 1].n = IF Valued(pg2, a) THEN 1 ELSE 0
  BY <1>19, <1>20, <1>21, <1>22, <1>24, <1>25, <1>27
<1> QED  BY <1>14, <1>15, <1>16, <1>17, <1>18, <1>22, <1>23, <1>24, <1>26, <1>27 DEF Shape, w2, l2, a, top, labs

\* The openers there are, with the function itself.
Aimable(pg) == {0} \cup {a \in 1 .. Len(pg) : pg[a].op \in Openers}

LEMMA ShapesKept ==
  ASSUME NEW pg \in Seq(Bytecode), NEW pg2, Keeps(pg, pg2, Len(pg)),
         NEW fam, NEW cl0, NEW open, NEW f, Flows(pg, fam, cl0, open, f),
         NEW cl, NEW cl2, NEW B, NEW B2, NEW c, NEW c2, NEW ph, NEW ph2, NEW L \in Nat,
         NEW st, NEW st2, \A i \in 1 .. Len(pg) + 1 : st[i] \in 1 .. L + 1, Keeps(st, st2, Len(pg) + 1),
         NEW tp, \A i \in 1 .. Len(pg) : Len(tp[i]) \in Nat,
         AllAlike(B, B2, c, c2, L), AllGo(pg, cl, B, c, st, ph, pg2, cl2, B2, c2, st2, ph2, L, Aimable(pg)),
         NEW i \in 1 .. Len(pg), Shape(pg, cl, B, c, st, ph, f[i].labels, i, tp[i])
  PROVE  Shape(pg2, cl2, B2, c2, st2, ph2, f[i].labels, i, tp[i])
<1> DEFINE m == Len(pg)
           A == Aimable(pg)
           u == f[i]
           v == f[i + 1]
           T == tp[i]
<1>1. m \in Nat /\ \A a \in 1 .. m : pg2[a] = pg[a] /\ pg[a] \in Bytecode
  BY LenProperties, ElementOfSeq DEF Keeps
<1>2. i \in 1 .. m + 1 /\ i + 1 \in 1 .. m + 1 /\ i \in Nat \ {0}
  BY <1>1
<1>3. u \in Points /\ Moves(pg, fam, i, u, v) /\ Nested(pg, f, i)
  BY <1>2 DEF Flows
<1>4. \A j \in 1 .. Len(u.labels) : u.labels[j].at < i /\ u.labels[j].at \in A
  <2> SUFFICES ASSUME NEW j \in 1 .. Len(u.labels) PROVE u.labels[j].at < i /\ u.labels[j].at \in A
    OBVIOUS
  <2>1. u.labels[j].at \in Nat
    BY <1>3, PointFacts
  <2>2. u.labels[j].at < i /\ (u.labels[j].at # 0 => pg[u.labels[j].at].op \in Openers)
    BY <1>3 DEF Nested
  <2> DEFINE x == u.labels[j].at
  <2>3. x \in Nat /\ x < i /\ m \in Nat /\ i \in 1 .. m
    BY <1>1, <2>1, <2>2
  <2> HIDE DEF x, m
  <2>4. x = 0 \/ x \in 1 .. m
    BY <2>3
  <2> QED  BY <2>2, <2>4 DEF Aimable, x, m
<1>5. pg[i].op = "if" => i \in A
  BY DEF Aimable, Openers
<1>6. A \in SUBSET Nat
  BY <1>1 DEF Aimable
<1>7. pg[i] \in Bytecode /\ \A a \in 1 .. i : pg2[a] = pg[a]
  BY <1>1
<1>8. /\ st[i] \in 1 .. L + 1 /\ st[i + 1] \in 1 .. L + 1 /\ st2[i] = st[i] /\ st2[i + 1] = st[i + 1]
  BY <1>2 DEF Keeps
<1>9. st[i] \in Nat \ {0}
  BY <1>8
<1>10. Len(T) \in Nat /\ Shape(pg, cl, B, c, st, ph, u.labels, i, T)
       /\ AllGo(pg, cl, B, c, st, ph, pg2, cl2, B2, c2, st2, ph2, L, A)
  OBVIOUS
<1> HIDE DEF u, v, T, m, A
<1>11. Shape(pg2, cl2, B2, c2, st2, ph2, u.labels, i, T)
  BY <1>2, <1>3, <1>4, <1>5, <1>6, <1>7, <1>8, <1>9, <1>10, ShapeKept
<1> QED  BY <1>11 DEF u, T

-----------------------------------------------------------------------------
(* One more instruction and its code.                                      *)

\* st2 is st with one place more.
Longer(st, st2, m, p) == st2 = Extended(st, m, p)

LEMMA GoalGrows ==
  ASSUME NEW pg \in Seq(Bytecode), NEW pg2, Keeps(pg, pg2, Len(pg)),
         NEW fam, NEW cl, NEW open, NEW f, Flows(pg, fam, cl, open, f), fam.len \in Nat,
         NEW st, NEW st2, Keeps(st, st2, Len(pg) + 1), NEW ph, ph = "compile",
         NEW op, NEW a \in Aimable(pg)
  PROVE  Goal(pg2, cl, st2, ph, op, a) = Goal(pg, cl, st, ph, op, a)
<1> DEFINE m == Len(pg)
<1>1. m \in Nat /\ \A i \in 1 .. m : pg2[i] = pg[i]
  BY LenProperties DEF Keeps
<1>2. CASE a = 0
  BY <1>2 DEF Goal, LoopAt
<1>3. CASE a # 0
  <2>1. a \in 1 .. m /\ pg[a].op \in Openers
    BY <1>3 DEF Aimable
  <2>2. Closed(pg, fam, cl, open, f, a)
    BY <2>1 DEF Flows
  <2>3. cl[a].end \in Nat /\ cl[a].els \in Nat
    <3>1. a \in 1 .. fam.len
      BY <1>1, <2>1, <2>2 DEF Closed
    <3> QED  BY <3>1 DEF Flows
  <2>4. /\ cl[a].end # 0 => cl[a].end \in a + 1 .. m
        /\ cl[a].els # 0 => cl[a].els \in a + 1 .. m
    BY <2>2 DEF Closed
  <2> DEFINE x == cl[a].end
             y == cl[a].els
  <2>5. x \in Nat /\ y \in Nat /\ (x # 0 => x \in a + 1 .. m) /\ (y # 0 => y \in a + 1 .. m) /\ a \in 1 .. m
    BY <2>1, <2>3, <2>4
  <2>6. pg2[a] = pg[a] /\ st2[a] = st[a]
    BY <1>1, <2>1 DEF Keeps
  <2> HIDE DEF x, y, m
  <2>7. (x # 0 => x + 1 \in 1 .. m + 1) /\ (y # 0 => y \in 1 .. m + 1)
    BY <1>1, <2>5
  <2>8. (x # 0 => st2[x + 1] = st[x + 1]) /\ (y # 0 => st2[y] = st[y])
    BY <2>7 DEF m, Keeps
  <2> QED  BY <1>3, <2>6, <2>8 DEF Goal, LoopAt, x, y
<1> QED  BY <1>2, <1>3

\* B2 says of the places up to L what B does; its other blocks, opened after the m instructions so
\* far, say nothing of them.
OldKept(B, B2, L) ==
    \A j \in 1 .. Len(B) :
        /\ B2[j].at = B[j].at
        /\ \A p \in 1 .. L, k \in Nat : <<p, k>> \in Pend(B2[j]) <=> <<p, k>> \in Pend(B[j])
NewApart(B, B2, L, m) ==
    \A j \in 1 .. Len(B2) : j > Len(B) =>
        B2[j].at > m /\ \A p \in 1 .. L, k \in Nat : <<p, k>> \notin Pend(B2[j])

BlocksCode(pg, c, st, B) == \A j \in 1 .. Len(B) : BlockCode(pg, c, st, B[j])
Sized(tp, m) == \A i \in 1 .. m : Len(tp[i]) \in Nat

\* What a handler has to show of the code.
LEMMA LaidGrows ==
  ASSUME NEW pg \in Seq(Bytecode), NEW pg2, Len(pg2) = Len(pg) + 1, Keeps(pg, pg2, Len(pg)),
         NEW fam, NEW cl, NEW open, NEW f, NEW h, Flows(pg, fam, cl, open, f), fam.len \in Nat,
         Keeps(f, h, Len(pg) + 1),
         NEW ph, ph = "compile",
         NEW c, NEW c2, Len(c) \in Nat, Len(c2) \in Nat, Len(c2) >= Len(c), Keeps(c, c2, Len(c)),
         NEW st, NEW st2, Longer(st, st2, Len(pg), Len(c2) + 1),
         NEW pro, Len(pro) \in Nat, NEW tp, NEW tp2,
         Keeps(tp, tp2, Len(pg)), Sized(tp, Len(pg)),
         NEW B, NEW B2, Len(B) \in Nat, Len(B2) \in Nat, Len(B2) >= Len(B),
         OldKept(B, B2, Len(c)), NewApart(B, B2, Len(c), Len(pg)),
         Laid(pg, cl, B, c, f, st, ph, pro, tp),
         Shape(pg2, cl, B2, c2, st2, ph, h[Len(pg) + 1].labels, Len(pg) + 1, tp2[Len(pg) + 1]),
         BlocksCode(pg2, c2, st2, B2)
  PROVE  Laid(pg2, cl, B2, c2, h, st2, ph, pro, tp2)
<1> USE DEF OldKept, NewApart, BlocksCode, Sized
<1>0. /\ \A p \in 1 .. Len(c) : c2[p] = c[p]
      /\ \A i \in 1 .. Len(pg) : tp2[i] = tp[i] /\ Len(tp[i]) \in Nat
  BY DEF Keeps
<1> USE <1>0
<1> DEFINE m == Len(pg)
           L == Len(c)
           A == Aimable(pg)
<1>1. m \in Nat /\ L \in Nat /\ Len(pg2) = m + 1 /\ \A i \in 1 .. m : pg2[i] = pg[i] /\ pg[i] \in Bytecode
  BY LenProperties, ElementOfSeq DEF Keeps
<1>2. /\ \A i \in 1 .. m + 1 : st2[i] = st[i] /\ st[i] \in 1 .. L + 1
      /\ st2 \in [1 .. Len(pg2) + 1 -> 1 .. Len(c2) + 1]
  <2>1. \A i \in 1 .. m + 1 : st[i] \in 1 .. L + 1
    BY DEF Laid
  <2>2. \A i \in 1 .. m + 1 : i \in 1 .. m + 2 /\ i # m + 2
    BY <1>1
  <2>3. \A i \in 1 .. m + 1 : st2[i] = st[i]
    BY <2>2 DEF Longer, Extended
  <2>4. \A i \in 1 .. m + 2 : i = m + 2 \/ i \in 1 .. m + 1
    BY <1>1
  <2>5. 1 .. L + 1 \subseteq 1 .. Len(c2) + 1 /\ Len(c2) + 1 \in 1 .. Len(c2) + 1 /\ Len(pg2) + 1 = m + 2
    BY <1>1
  <2> HIDE DEF m, L
  <2>6. \A i \in 1 .. m + 2 : (IF i = m + 2 THEN Len(c2) + 1 ELSE st[i]) \in 1 .. Len(c2) + 1
    BY <2>1, <2>4, <2>5
  <2>7. st2 \in [1 .. m + 2 -> 1 .. Len(c2) + 1]
    BY <2>6 DEF m, Longer, Extended
  <2> QED  BY <2>1, <2>3, <2>5, <2>7
<1>3. \A p \in 1 .. L : c2[p] = c[p] /\ (Idle(B, p) => Idle(B2, p)) /\ (Free(B, p) => Free(B2, p))
  <2> SUFFICES ASSUME NEW p \in 1 .. L
               PROVE  (Idle(B, p) => Idle(B2, p)) /\ (Free(B, p) => Free(B2, p))
    OBVIOUS
  <2>1. \A j \in 1 .. Len(B2) : j > Len(B) \/ j \in 1 .. Len(B)
    OBVIOUS
  <2> QED  BY <2>1 DEF Idle, Free
<1>4. AllAlike(B, B2, c, c2, L)
  BY <1>3 DEF Alike, AllAlike
<1>5. AllGo(pg, cl, B, c, st, ph, pg2, cl, B2, c2, st2, ph, L, A)
  <2> SUFFICES ASSUME NEW p \in 1 .. L, NEW k \in Nat, NEW a \in A, Goes(pg, cl, B, c, st, ph, p, k, a)
               PROVE  Goes(pg2, cl, B2, c2, st2, ph, p, k, a)
    BY DEF AllGo
  <2> DEFINE g == Goal(pg, cl, st, ph, c[p].op, a)
  <2>1. c2[p] = c[p]
    OBVIOUS
  <2>2. Goal(pg2, cl, st2, ph, c2[p].op, a) = g
    <3>1. Keeps(st, st2, Len(pg) + 1)
      BY <1>2 DEF Keeps
    <3> HIDE DEF m, L
    <3>2. \A o : Goal(pg2, cl, st2, ph, o, a) = Goal(pg, cl, st, ph, o, a)
      BY <3>1, GoalGrows
    <3> QED  BY <2>1, <3>2
  <2>3. /\ g # 0 => Written(c2, p, k) = g
        /\ \A j \in 1 .. Len(B) : <<p, k>> \in Pend(B[j]) <=> g = 0 /\ B[j].at = a
    BY <2>1 DEF Goes, Written
  <2> HIDE DEF g
  <2>4. \A j \in 1 .. Len(B2) : <<p, k>> \in Pend(B2[j]) <=> g = 0 /\ B2[j].at = a
    <3> SUFFICES ASSUME NEW j \in 1 .. Len(B2) PROVE <<p, k>> \in Pend(B2[j]) <=> g = 0 /\ B2[j].at = a
      OBVIOUS
    <3>1. CASE j \in 1 .. Len(B)
      BY <2>3, <3>1
    <3>2. CASE j > Len(B)
      <4>1. B2[j].at > m /\ <<p, k>> \notin Pend(B2[j])
        BY <3>2
      <4>2. a \in 0 .. m
        BY <1>1 DEF Aimable
      <4>3. B2[j].at # a
        BY <1>1, <4>1, <4>2
      <4> QED  BY <4>1, <4>3
    <3> QED  BY <3>1, <3>2
  <2> QED  BY <2>2, <2>3, <2>4 DEF Goes
<1>6. ASSUME NEW i \in 1 .. m PROVE Shape(pg2, cl, B2, c2, st2, ph, h[i].labels, i, tp2[i])
  <2>1. h[i] = f[i] /\ tp2[i] = tp[i]
    BY <1>1 DEF Keeps
  <2>2. Shape(pg, cl, B, c, st, ph, f[i].labels, i, tp[i])
    BY DEF Laid
  <2>3. Keeps(st, st2, Len(pg) + 1) /\ \A k \in 1 .. Len(pg) + 1 : st[k] \in 1 .. L + 1
    BY <1>2 DEF Keeps
  <2> HIDE DEF L
  <2>4. Shape(pg2, cl, B2, c2, st2, ph, f[i].labels, i, tp[i])
    BY <1>1, <1>4, <1>5, <2>2, <2>3, ShapesKept
  <2> QED  BY <2>1, <2>4
<1>7. \A i \in 1 .. Len(pg2) : Shape(pg2, cl, B2, c2, st2, ph, h[i].labels, i, tp2[i])
  <2>1. \A i \in 1 .. Len(pg2) : i = m + 1 \/ i \in 1 .. m
    BY <1>1
  <2> QED  BY <1>6, <2>1
<1>8. Fix(B2, c2, 0, pro) /\ st2[1] = Len(pro) + 1
  <2>1. Fix(B, c, 0, pro) /\ st[1] = Len(pro) + 1
    BY DEF Laid
  <2>2. st2[1] = st[1] /\ st[1] \in 1 .. L + 1
    <3>1. 1 \in 1 .. m + 1
      BY <1>1
    <3> QED  BY <1>2, <3>1
  <2>3. 0 \in Nat /\ 0 + Len(pro) <= L
    BY <1>1, <2>1, <2>2
  <2> HIDE DEF m, L
  <2>4. Fix(B2, c2, 0, pro)
    BY <1>1, <1>4, <2>1, <2>3, FixKept
  <2> QED  BY <2>1, <2>2, <2>4
<1> QED  BY <1>2, <1>7, <1>8 DEF Laid

-----------------------------------------------------------------------------
(* The handlers of the compiler against this layout: each one that emits   *)
(* code keeps the code laid out, and `else' and `end' patch the branches   *)
(* that wait for them.  The theorem is at the end.                         *)

\* The templates of the instructions so far.
Templates == [i \in 1 .. Len(prog) |-> IF prog[i].op \in PlainOps THEN Template(prog[i]) ELSE <<>>]

\* The code so far is laid out; the function's last instruction is a ret.
CodeInv(f, st) ==
    /\ Laid(prog, closes, blocks, code, f, st, phase, FnPrologue, Templates)
    /\ phase = "compile" => st[Len(prog) + 1] = Len(code) + 1
    /\ phase # "compile" => st[Len(prog) + 1] = Len(code) /\ code[Len(code)] = Ins("ret", 0)

LEMMA TemplatesGrow ==
  ASSUME PatchInv, family' = family, NEW ins \in Bytecode, prog' = Append(prog, ins)
  PROVE  /\ FnPrologue' = FnPrologue
         /\ \A i \in 1 .. Len(prog) : Templates'[i] = Templates[i]
         /\ Templates'[Len(prog) + 1] = IF ins.op \in PlainOps THEN Template(ins) ELSE <<>>
<1>1. FnPrologue' = FnPrologue
  BY DEF FnPrologue, NLocals, NArgs
<1>2. /\ Len(prog) \in Nat /\ Len(prog') = Len(prog) + 1
      /\ \A i \in 1 .. Len(prog) : prog'[i] = prog[i] 
      /\ prog'[Len(prog) + 1] = ins
  BY AppendedProg DEF PatchInv, CompilerType
<1>3. Templates' = [i \in 1 .. Len(prog') |-> IF prog'[i].op \in PlainOps THEN Template(prog'[i]) ELSE <<>>]
  BY DEF Templates, Template, CallIfn, NLocals
<1> QED  BY <1>1, <1>2, <1>3 DEF Templates

LEMMA TemplatesLen ==
  ASSUME PatchInv
  PROVE  /\ FnPrologue \in Seq(Straight) /\ Len(FnPrologue) \in Nat
         /\ \A i \in 1 .. Len(prog) : Templates[i] \in Seq(Straight) /\ Len(Templates[i]) \in Nat
<1>1. FnPrologue \in Seq(Straight)
  <2>1. \A op \in StraightOps : Ins(op, 0) \in Straight
    BY InsType
  <2>2. Ins("rep stos", 0) \in Straight
    BY <2>1 DEF StraightOps
  <2> DEFINE a == IF NLocals > NArgs THEN <<Ins("rep stos", 0)>> ELSE <<>>
             b == <<_PushExpandStack, PushRdi>>
  <2>3. a \in Seq(Straight) /\ b \in Seq(Straight)
    BY <2>2, FixedTemplates, Tuple1, Tuple2, EmptyTs
  <2> HIDE DEF a, b
  <2>4. a \o b \in Seq(Straight)
    BY <2>3, ConcatFacts
  <2> QED  BY <2>4 DEF FnPrologue, a, b
<1>2. ASSUME NEW i \in 1 .. Len(prog) PROVE Templates[i] \in Seq(Straight)
  <2>1. prog[i] \in Bytecode
    BY ElementOfSeq DEF PatchInv, CompilerType
  <2> DEFINE ins == prog[i]
  <2>2. ins.n \in Int
    BY <2>1 DEF Bytecode
  <2>3. Templates[i] = IF ins.op \in PlainOps THEN Template(ins) ELSE <<>>
    BY DEF Templates
  <2> HIDE DEF ins
  <2>4. ins.op \in PlainOps => Template(ins) \in Seq(Straight)
    BY <2>2, TemplateType DEF PatchInv, CompilerType
  <2> QED  BY <2>3, <2>4, EmptyTs
<1> QED  BY <1>1, <1>2, LenProperties

\* The code of one more instruction.
Pieced(body, c2) == c2 = code \o <<Ins("dbg", Here)>> \o body

LEMMA NewPiece ==
  ASSUME PatchInv, NEW body \in Seq(Instr), NEW c2, Pieced(body, c2)
  PROVE  /\ Len(code) \in Nat /\ Len(body) \in Nat /\ Len(c2) = Len(code) + 1 + Len(body)
         /\ c2 \in Seq(Instr)
         /\ \A p \in 1 .. Len(code) : c2[p] = code[p]
         /\ c2[Len(code) + 1] = Ins("dbg", Len(prog) + 1)
         /\ \A k \in 1 .. Len(body) : c2[Len(code) + 1 + k] = body[k]
<1> DEFINE d == Ins("dbg", Len(prog) + 1)
           u == <<d>>
<1>1. code \in Seq(Instr) /\ Len(code) \in Nat /\ Len(body) \in Nat /\ Len(prog) \in Nat
  BY LenProperties DEF PatchInv, CompilerType
<1>2. c2 = code \o u \o body
  BY DEF Pieced, Here
<1>3. u \in Seq(Instr) /\ Len(u) = 1 /\ u[1] = d
  <2>1. \A op \in StraightOps, n \in Int : Ins(op, n) \in Straight
    BY InsType
  <2>2. "dbg" \in StraightOps /\ Len(prog) + 1 \in Int
    BY <1>1 DEF StraightOps
  <2>3. d \in Instr
    BY <2>1, <2>2, StraightIsInstr
  <2> HIDE DEF d
  <2> QED  BY <2>3
<1> HIDE DEF u, d
<1>10. u \in Seq(Instr) /\ code \in Seq(Instr)
  BY <1>1, <1>3
<1>11. /\ code \o u \in Seq(Instr) /\ Len(code \o u) = Len(code) + Len(u)
       /\ \A p \in 1 .. Len(code) : (code \o u)[p] = code[p]
       /\ \A k \in 1 .. Len(u) : (code \o u)[Len(code) + k] = u[k]
  BY <1>10, ConcatFacts
<1>4. /\ code \o u \in Seq(Instr) /\ Len(code \o u) = Len(code) + 1
      /\ \A p \in 1 .. Len(code) : (code \o u)[p] = code[p]
      /\ \A k \in 1 .. 1 : (code \o u)[Len(code) + k] = u[k]
  BY <1>3, <1>11
<1> DEFINE v == code \o u
<1> HIDE DEF v
<1>5. v \in Seq(Instr) /\ Len(v) = Len(code) + 1 /\ c2 = v \o body
      /\ (\A p \in 1 .. Len(code) : v[p] = code[p]) /\ v[Len(code) + 1] = d
  <2>1. 1 \in 1 .. 1
    OBVIOUS
  <2> QED  BY <1>2, <1>3, <1>4, <2>1 DEF v
<1>6. /\ v \o body \in Seq(Instr) /\ Len(v \o body) = Len(v) + Len(body)
      /\ \A p \in 1 .. Len(v) : (v \o body)[p] = v[p]
      /\ \A k \in 1 .. Len(body) : (v \o body)[Len(v) + k] = body[k]
  <2>1. v \in Seq(Instr)
    BY <1>5
  <2> QED  BY <2>1, ConcatFacts
<1> DEFINE w == v \o body
<1> HIDE DEF w
<1>7. /\ w \in Seq(Instr) /\ Len(w) = Len(code) + 1 + Len(body) /\ c2 = w
      /\ \A p \in 1 .. Len(code) + 1 : w[p] = v[p]
      /\ \A k \in 1 .. Len(body) : w[Len(code) + 1 + k] = body[k]
  BY <1>1, <1>5, <1>6 DEF w
<1>8. \A p \in 1 .. Len(code) : p \in 1 .. Len(code) + 1
  BY <1>1
<1>9. Len(code) + 1 \in 1 .. Len(code) + 1
  BY <1>1
<1> QED  BY <1>1, <1>5, <1>7, <1>8, <1>9 DEF d

LEMMA NewCode ==
  ASSUME PatchInv, NEW ins, NEW body \in Seq(Instr), Emit(ins, body)
  PROVE  /\ Len(code) \in Nat /\ Len(body) \in Nat /\ Len(code') = Len(code) + 1 + Len(body)
         /\ code' \in Seq(Instr)
         /\ \A p \in 1 .. Len(code) : code'[p] = code[p]
         /\ code'[Len(code) + 1] = Ins("dbg", Len(prog) + 1)
         /\ \A k \in 1 .. Len(body) : code'[Len(code) + 1 + k] = body[k]
<1> DEFINE c2 == code'
<1>1. Pieced(body, c2)
  BY DEF Emit, Pieced
<1> HIDE DEF c2
<1> QED  BY <1>1, NewPiece DEF c2

\* What a handler adds to the open block b, b2 then: places after the first L instructions.
Grown(b, b2, c2, L) ==
    /\ b2.at = b.at /\ b2.addr = b.addr /\ b2.kind = b.kind
    /\ Len(b2.rel) >= Len(b.rel)
    /\ \A k \in 1 .. Len(b.rel) : b2.rel[k] = b.rel[k]
    /\ \A k \in 1 .. Len(b2.rel) : k > Len(b.rel) => b2.rel[k] \in L + 1 .. Len(c2)
    /\ b.abs \subseteq b2.abs
    /\ \A q \in b2.abs : q \in b.abs \/ (q[1] \in L + 1 .. Len(c2) /\ q[2] \in 1 .. Len(c2[q[1]].ts))

LEMMA PendFacts ==
  ASSUME NEW b \in OpenBlock
  PROVE  /\ Pend(b) \subseteq Nat \X Nat
         /\ \A p, k : <<p, k>> \in Pend(b) <=> (k = 0 /\ \E i \in 1 .. Len(b.rel) : b.rel[i] = p) \/ <<p, k>> \in b.abs
<1>1. b.rel \in Seq(Nat) /\ b.abs \subseteq Nat \X Nat /\ Range(b.rel) = {b.rel[i] : i \in 1 .. Len(b.rel)}
      /\ Range(b.rel) \subseteq Nat
  BY BlockType, RangeFacts
<1> DEFINE r == b.rel
           R == Range(r)
           A == b.abs
<1>2. Pend(b) = {<<p, 0>> : p \in R} \cup A
  BY DEF Pend
<1>3. R \subseteq Nat /\ A \subseteq Nat \X Nat /\ \A p : p \in R <=> \E i \in 1 .. Len(r) : r[i] = p
  BY <1>1
<1> HIDE DEF r, R, A
<1>4. \A p, k : <<p, k>> \in {<<q, 0>> : q \in R} <=> k = 0 /\ p \in R
  OBVIOUS
<1>5. {<<p, 0>> : p \in R} \subseteq Nat \X Nat
  BY <1>3
<1>6. Pend(b) \subseteq Nat \X Nat /\ \A p, k : <<p, k>> \in Pend(b) <=> (k = 0 /\ \E i \in 1 .. Len(r) : r[i] = p) \/ <<p, k>> \in A
  BY <1>2, <1>3, <1>4, <1>5
<1> QED  BY <1>6 DEF r, A

LEMMA GrownFacts ==
  ASSUME NEW b \in OpenBlock, NEW b2 \in OpenBlock, NEW pg, NEW pg2, NEW c, NEW c2, NEW st, NEW st2,
         Len(c) \in Nat, Len(c2) \in Nat, Len(c2) >= Len(c), \A p \in 1 .. Len(c) : c2[p] = c[p],
         Grown(b, b2, c2, Len(c)), BlockCode(pg, c, st, b),
         b.at # 0 => pg2[b.at] = pg[b.at] /\ st2[b.at] = st[b.at], b.kind = "if" => b.at # 0
  PROVE  /\ BlockCode(pg2, c2, st2, b2)
         /\ \A p \in 1 .. Len(c), k \in Nat : <<p, k>> \in Pend(b2) <=> <<p, k>> \in Pend(b)
<1> DEFINE L == Len(c)
           r == b.rel
           r2 == b2.rel
           n == Len(r)
           n2 == Len(r2)
<1>1. n \in Nat /\ n2 \in Nat /\ L \in Nat /\ n2 >= n
  BY BlockType DEF Grown
<1>2. \A i \in 1 .. n : r[i] \in 1 .. L
  <2> SUFFICES ASSUME NEW i \in 1 .. n PROVE r[i] \in 1 .. L
    OBVIOUS
  <2>1. <<r[i], 0>> \in Pend(b)
    BY PendFacts
  <2>2. <<r[i], 0>>[1] \in 1 .. L
    BY <2>1 DEF BlockCode
  <2> QED  BY <2>2
<1>3. \A q \in b.abs : q[1] \in 1 .. L /\ q[2] \in 1 .. Len(c[q[1]].ts)
  BY DEF BlockCode, Pend
<1>4. \A i \in 1 .. n2 : (i \in 1 .. n /\ r2[i] = r[i]) \/ (i \notin 1 .. n /\ r2[i] \in L + 1 .. Len(c2))
  <2>1. \A i \in 1 .. n2 : i \in 1 .. n \/ i > n
    BY <1>1
  <2>2. \A i \in 1 .. n : r2[i] = r[i]
    BY DEF Grown
  <2>3. \A i \in 1 .. n2 : i > n => r2[i] \in L + 1 .. Len(c2)
    BY DEF Grown
  <2> HIDE DEF r, r2, n, n2, L
  <2>4. \A i \in 1 .. n2 : i > n => i \notin 1 .. n
    BY <1>1
  <2> QED  BY <2>1, <2>2, <2>3, <2>4
<1>5. \A q \in b2.abs : q \in b.abs \/ (q[1] \in L + 1 .. Len(c2) /\ q[2] \in 1 .. Len(c2[q[1]].ts))
  BY DEF Grown
<1>6. b.abs \subseteq b2.abs
  BY DEF Grown
<1>7. 1 .. n \subseteq 1 .. n2
  BY <1>1
<1> HIDE DEF L, r, r2, n, n2
<1>8. \A p : \A k : <<p, k>> \in Pend(b2) <=> (k = 0 /\ \E i \in 1 .. n2 : r2[i] = p) \/ <<p, k>> \in b2.abs
  BY PendFacts DEF r2, n2
<1>9. \A p : \A k : <<p, k>> \in Pend(b) <=> (k = 0 /\ \E i \in 1 .. n : r[i] = p) \/ <<p, k>> \in b.abs
  BY PendFacts DEF r, n
<1>10. \A p \in 1 .. L : p \notin L + 1 .. Len(c2)
  BY <1>1 DEF L
<1>11. ASSUME NEW p \in 1 .. L, NEW k \in Nat PROVE <<p, k>> \in Pend(b2) <=> <<p, k>> \in Pend(b)
  <2>1. (\E i \in 1 .. n2 : r2[i] = p) <=> (\E i \in 1 .. n : r[i] = p)
    BY <1>4, <1>7, <1>10
  <2>2. <<p, k>> \in b2.abs <=> <<p, k>> \in b.abs
    BY <1>5, <1>6, <1>10
  <2> QED  BY <1>8, <1>9, <2>1, <2>2
<1>12. \A q \in b2.abs : q[1] \in 1 .. Len(c2) /\ q[2] \in 1 .. Len(c2[q[1]].ts)
  <2> SUFFICES ASSUME NEW q \in b2.abs PROVE q[1] \in 1 .. Len(c2) /\ q[2] \in 1 .. Len(c2[q[1]].ts)
    OBVIOUS
  <2>1. CASE q \in b.abs
    <3>1. q[1] \in 1 .. L /\ q[2] \in 1 .. Len(c[q[1]].ts)
      BY <1>3, <2>1
    <3>2. c2[q[1]] = c[q[1]]
      BY <3>1 DEF L
    <3>3. 1 .. L \subseteq 1 .. Len(c2)
      BY <1>1 DEF L
    <3> QED  BY <3>1, <3>2, <3>3
  <2>2. CASE q[1] \in L + 1 .. Len(c2) /\ q[2] \in 1 .. Len(c2[q[1]].ts)
    <3>1. L + 1 .. Len(c2) \subseteq 1 .. Len(c2)
      BY <1>1
    <3> QED  BY <2>2, <3>1
  <2> QED  BY <1>5, <2>1, <2>2
<1>13. \A q \in Pend(b2) : q[1] \in 1 .. Len(c2)
  <2> SUFFICES ASSUME NEW q \in Pend(b2) PROVE q[1] \in 1 .. Len(c2)
    OBVIOUS
  <2>1. q \in Nat \X Nat /\ q = <<q[1], q[2]>>
    BY PendFacts
  <2>2. q \in b2.abs \/ \E i \in 1 .. n2 : r2[i] = q[1]
    BY <1>8, <2>1
  <2>3. \A i \in 1 .. n2 : r2[i] \in 1 .. Len(c2)
    <3>1. L + 1 .. Len(c2) \subseteq 1 .. Len(c2) /\ 1 .. L \subseteq 1 .. Len(c2)
      BY <1>1 DEF L
    <3> QED  BY <1>2, <1>4, <3>1
  <2> QED  BY <1>12, <2>2, <2>3
<1>14. b2.kind = "if" => /\ n2 >= 1 /\ r2[1] = st2[b2.at] + 1
                         /\ \A k \in 2 .. n2 : r2[k] # r2[1]
  <2> SUFFICES ASSUME b2.kind = "if"
               PROVE  n2 >= 1 /\ r2[1] = st2[b2.at] + 1 /\ \A k \in 2 .. n2 : r2[k] # r2[1]
    OBVIOUS
  <2>1. b.kind = "if" /\ b2.at = b.at
    BY DEF Grown
  <2>2. n >= 1 /\ r[1] = st[b.at] + 1 /\ \A k \in 2 .. n : r[k] # r[1]
    BY <2>1 DEF BlockCode, r, n
  <2>3. 1 \in 1 .. n /\ \A k \in 2 .. n2 : k \in 1 .. n2 /\ (k \in 1 .. n => k \in 2 .. n)
    BY <1>1, <2>2
  <2>4. r2[1] = r[1] /\ r[1] \in 1 .. L
    BY <1>2, <1>4, <1>7, <2>3
  <2> QED  BY <1>1, <1>4, <1>10, <2>1, <2>2, <2>3, <2>4
<1>15. b2.addr = IF LoopAt(pg2, b2.at) THEN st2[b2.at] + 1 ELSE 0
  BY DEF Grown, BlockCode, LoopAt
<1> QED  BY <1>11, <1>12, <1>13, <1>14, <1>15 DEF BlockCode, L, r2, n2

\* What the handler of an instruction that closes nothing has to show.
LEMMA CodeGrows ==
  ASSUME PatchInv, PatchInv', phase = "compile", phase' = phase, family' = family, closes' = closes,
         NEW f, FlowInv(f), NEW h, Keeps(f, h, Len(prog) + 1), NEW st, CodeInv(f, st),
         NEW ins \in Bytecode, NEW body \in Seq(Instr), Emit(ins, body),
         NEW st2, Longer(st, st2, Len(prog), Len(code') + 1),
         Len(blocks') >= Len(blocks),
         \A j \in 1 .. Len(blocks) : Grown(blocks[j], blocks'[j], code', Len(code)),
         \A j \in 1 .. Len(blocks') : j > Len(blocks) =>
            /\ blocks'[j].at = Len(prog) + 1 /\ BlockCode(prog', code', st2, blocks'[j])
            /\ \A q \in Pend(blocks'[j]) : q[1] > Len(code),
         Shape(prog', closes, blocks', code', st2, phase, Now.labels, Len(prog) + 1, Templates'[Len(prog) + 1])
  PROVE  CodeInv(h, st2)'
<1> DEFINE pg2 == prog'
           c2 == code'
           B2 == blocks'
           tp2 == Templates'
           m == Len(prog)
           D == Len(blocks)
           n == m + 1
<1>1. /\ prog \in Seq(Bytecode) /\ m \in Nat /\ Len(pg2) = m + 1
      /\ \A i \in 1 .. m : pg2[i] = prog[i]
  BY AppendedProg DEF PatchInv, CompilerType, Emit
<1>2. /\ Len(code) \in Nat /\ Len(c2) \in Nat /\ Len(c2) >= Len(code) /\ \A p \in 1 .. Len(code) : c2[p] = code[p]
  <2>1. /\ Len(code) \in Nat /\ Len(body) \in Nat /\ Len(code') = Len(code) + 1 + Len(body)
        /\ \A p \in 1 .. Len(code) : code'[p] = code[p]
    BY NewCode
  <2> QED  BY <2>1
<1>3. /\ FnPrologue' = FnPrologue /\ \A i \in 1 .. m : tp2[i] = Templates[i] /\ Len(Templates[i]) \in Nat
      /\ Len(FnPrologue) \in Nat
  BY TemplatesGrow, TemplatesLen DEF Emit
<1>4. /\ D \in Nat /\ Len(B2) \in Nat /\ Len(B2) >= D
      /\ \A j \in 1 .. D : blocks[j] \in OpenBlock
      /\ \A j \in 1 .. Len(B2) : B2[j] \in OpenBlock
  BY LenProperties, ElementOfSeq DEF PatchInv, CompilerType
<1>5. Laid(prog, closes, blocks, code, f, st, phase, FnPrologue, Templates)
  BY DEF CodeInv
<1>6. Keeps(prog, pg2, m)
  BY <1>1 DEF Keeps
<1>7. Flows(prog, family, closes, OpenAts, f) /\ family.len \in Nat
  BY FamilyFacts DEF FlowInv, PatchInv, CompilerType, MaxLen
<1>8. h[n].labels = Now.labels
  <2>1. n \in 1 .. m + 1
    BY <1>1
  <2> QED  BY <2>1 DEF FlowInv, Keeps
<1>9. /\ \A i \in 1 .. m + 1 : st2[i] = st[i]
      /\ st2[m + 2] = Len(c2) + 1
  <2>1. \A i \in 1 .. m + 1 : i \in 1 .. m + 2 /\ i # m + 2
    BY <1>1
  <2>2. m + 2 \in 1 .. m + 2
    BY <1>1
  <2> QED  BY <2>1, <2>2 DEF Longer, Extended
<1>10. ASSUME NEW j \in 1 .. D
       PROVE  /\ BlockCode(pg2, c2, st2, B2[j]) /\ B2[j].at = blocks[j].at
              /\ \A p \in 1 .. Len(code), k \in Nat : <<p, k>> \in Pend(B2[j]) <=> <<p, k>> \in Pend(blocks[j])
  <2> DEFINE b == blocks[j]
             b2 == B2[j]
  <2>1. b \in OpenBlock /\ b2 \in OpenBlock /\ BlockIs(prog, closes, b)
    <3>1. j \in 1 .. Len(B2)
      BY <1>4
    <3> QED  BY <1>4, <3>1 DEF FlowInv
  <2>2. BlockCode(prog, code, st, b) /\ Grown(b, b2, c2, Len(code))
    BY DEF CodeInv, Laid
  <2>3. b.kind = "if" => b.at # 0
    BY <2>1 DEF BlockIs
  <2>4. b.at # 0 => pg2[b.at] = prog[b.at] /\ st2[b.at] = st[b.at]
    <3>1. b.at # 0 => b.at \in 1 .. m
      BY <2>1 DEF BlockIs
    <3> HIDE DEF b
    <3>2. b.at # 0 => b.at \in 1 .. m + 1
      BY <1>1, <3>1
    <3> QED  BY <1>1, <1>9, <3>1, <3>2
  <2> HIDE DEF b, b2, c2, pg2
  <2>5. /\ BlockCode(pg2, c2, st2, b2)
        /\ \A p \in 1 .. Len(code), k \in Nat : <<p, k>> \in Pend(b2) <=> <<p, k>> \in Pend(b)
    BY <1>2, <2>1, <2>2, <2>3, <2>4, GrownFacts
  <2> QED  BY <2>2, <2>5 DEF b, b2, Grown
<1>11. \A j \in 1 .. Len(B2) : j > D =>
          B2[j].at > m /\ \A p \in 1 .. Len(code), k \in Nat : <<p, k>> \notin Pend(B2[j])
  <2> SUFFICES ASSUME NEW j \in 1 .. Len(B2), j > D
               PROVE  B2[j].at > m /\ \A p \in 1 .. Len(code), k \in Nat : <<p, k>> \notin Pend(B2[j])
    OBVIOUS
  <2>1. B2[j].at = m + 1 /\ \A q \in Pend(B2[j]) : q[1] > Len(code)
    OBVIOUS
  <2>2. ASSUME NEW p \in 1 .. Len(code), NEW k \in Nat, <<p, k>> \in Pend(B2[j]) PROVE FALSE
    <3>1. <<p, k>>[1] > Len(code) /\ <<p, k>>[1] = p
      BY <2>1, <2>2
    <3> QED  BY <1>2, <3>1
  <2> QED  BY <1>1, <2>1, <2>2
<1>12. \A j \in 1 .. Len(B2) : BlockCode(pg2, c2, st2, B2[j])
  <2>1. \A j \in 1 .. Len(B2) : j \in 1 .. D \/ j > D
    BY <1>4
  <2> QED  BY <1>10, <2>1
<1>13. Shape(pg2, closes, B2, c2, st2, phase, h[n].labels, n, tp2[n])
  BY <1>8
<1>14. Longer(st, st2, m, Len(c2) + 1)
  OBVIOUS
<1> HIDE DEF c2, B2, tp2, pg2
<1>15. OldKept(blocks, B2, Len(code)) /\ NewApart(blocks, B2, Len(code), m) /\ BlocksCode(pg2, c2, st2, B2)
  BY <1>10, <1>11, <1>12 DEF OldKept, NewApart, BlocksCode
<1>18. Keeps(code, c2, Len(code)) /\ Keeps(Templates, tp2, m) /\ Sized(Templates, m)
  BY <1>2, <1>3 DEF Keeps, Sized
<1>16. Laid(pg2, closes, B2, c2, h, st2, phase, FnPrologue, tp2)
  <2>1. /\ prog \in Seq(Bytecode) /\ Len(pg2) = Len(prog) + 1
        /\ Len(code) \in Nat /\ Len(c2) \in Nat /\ Len(c2) >= Len(code) /\ Len(FnPrologue) \in Nat
        /\ Len(blocks) \in Nat /\ Len(B2) \in Nat /\ Len(B2) >= Len(blocks)
    BY <1>1, <1>2, <1>3, <1>4
  <2> QED  BY <2>1, <1>5, <1>6, <1>7, <1>13, <1>14, <1>15, <1>18, LaidGrows
<1>17. st2[Len(pg2) + 1] = Len(c2) + 1
  <2>1. Len(pg2) + 1 = m + 2
    BY <1>1
  <2> QED  BY <1>9, <2>1
<1> QED  BY <1>3, <1>16, <1>17 DEF CodeInv, pg2, c2, B2, tp2

-----------------------------------------------------------------------------
(* The handlers.                                                           *)

\* Where the new instruction's code starts and ends.
LEMMA NewPlaces ==
  ASSUME PatchInv, phase = "compile", NEW f, NEW st, CodeInv(f, st), NEW q, NEW st2, Longer(st, st2, Len(prog), q)
  PROVE  /\ Len(prog) \in Nat /\ Keeps(st, st2, Len(prog) + 1)
         /\ st2[Len(prog) + 1] = Len(code) + 1 /\ st2[Len(prog) + 2] = q
<1>1. Len(prog) \in Nat
  BY LenProperties DEF PatchInv, CompilerType
<1>2. \A i \in 1 .. Len(prog) + 1 : i \in 1 .. Len(prog) + 2 /\ i # Len(prog) + 2
  BY <1>1
<1>3. Len(prog) + 2 \in 1 .. Len(prog) + 2 /\ Len(prog) + 1 \in 1 .. Len(prog) + 1
  BY <1>1
<1>4. st[Len(prog) + 1] = Len(code) + 1
  BY DEF CodeInv
<1> QED  BY <1>1, <1>2, <1>3, <1>4 DEF Longer, Extended, Keeps

LEMMA IdleAbove ==
  ASSUME PatchInv, NEW f, NEW st, CodeInv(f, st), NEW p \in Nat, p > Len(code)
  PROVE  Idle(blocks, p)
<1> SUFFICES ASSUME NEW j \in 1 .. Len(blocks), NEW k \in Nat, <<p, k>> \in Pend(blocks[j]) PROVE FALSE
  BY DEF Idle
<1>1. BlockCode(prog, code, st, blocks[j])
  BY DEF CodeInv, Laid
<1>2. <<p, k>>[1] \in 1 .. Len(code)
  BY <1>1 DEF BlockCode
<1>3. Len(code) \in Nat
  BY LenProperties DEF PatchInv, CompilerType
<1> QED  BY <1>2, <1>3

LEMMA GrownSame ==
  ASSUME NEW b \in OpenBlock, NEW c2, NEW L
  PROVE  Grown(b, b, c2, L)
<1>1. Len(b.rel) \in Nat
  BY BlockType
<1>2. Len(b.rel) >= Len(b.rel) /\ \A k \in 1 .. Len(b.rel) : ~(k > Len(b.rel))
  BY <1>1
<1> QED  BY <1>2 DEF Grown

\* The code of an instruction is there.
LEMMA NewFixed ==
  ASSUME PatchInv, NEW ins, NEW body \in Seq(Instr), Emit(ins, body), NEW B,
         NEW off \in Nat, NEW s, Len(s) \in Nat, off + Len(s) <= Len(body),
         \A k \in 1 .. Len(s) : body[off + k] = s[k] /\ Idle(B, Len(code) + 1 + off + k)
  PROVE  Fix(B, code', Len(code) + 1 + off, s)
<1> SUFFICES ASSUME NEW k \in 1 .. Len(s) PROVE code'[Len(code) + 1 + off + k] = s[k]
  BY DEF Fix
<1>1. Len(code) \in Nat /\ Len(body) \in Nat /\ \A i \in 1 .. Len(body) : code'[Len(code) + 1 + i] = body[i]
  BY NewCode
<1>2. off + k \in 1 .. Len(body)
  BY <1>1
<1>3. code'[Len(code) + 1 + (off + k)] = body[off + k]
  BY <1>1, <1>2
<1>4. Len(code) + 1 + (off + k) = Len(code) + 1 + off + k
  BY <1>1
<1> QED  BY <1>3, <1>4

LEMMA NewDbg ==
  ASSUME PatchInv, NEW ins, NEW body \in Seq(Instr), Emit(ins, body), NEW B, Idle(B, Len(code) + 1)
  PROVE  Fix(B, code', Len(code) + 1 - 1, <<Ins("dbg", Len(prog) + 1)>>)
<1>1. Len(code) \in Nat /\ code'[Len(code) + 1] = Ins("dbg", Len(prog) + 1)
  BY NewCode
<1>2. Len(code) + 1 - 1 + 1 = Len(code) + 1
  BY <1>1
<1> DEFINE d == Ins("dbg", Len(prog) + 1)
<1> HIDE DEF d
<1>3. Len(<<d>>) = 1 /\ <<d>>[1] = d /\ \A k \in 1 .. 1 : k = 1
  OBVIOUS
<1> QED  BY <1>1, <1>2, <1>3 DEF Fix, d

\* The instructions whose code has no address in it.
Straightly(ins, body) ==
    \/ ins.op \in PlainOps /\ body = Template(ins)
    \/ ins.op = "return" /\ body = <<Ins("add rsp", Len(blocks)), Ins("ret", 0)>>

LEMMA StraightCode ==
  ASSUME PatchInv, PatchInv', phase = "compile", phase' = phase, family' = family, closes' = closes, blocks' = blocks,
         NEW f, FlowInv(f), NEW h, Keeps(f, h, Len(prog) + 1), NEW st, CodeInv(f, st),
         NEW ins \in Bytecode, NEW body \in Seq(Instr), Emit(ins, body),
         Straightly(ins, body)
  PROVE  \E st2 : CodeInv(h, st2)'
<1> DEFINE n == Len(prog) + 1
           p == Len(code) + 1
           c2 == code'
           pg2 == prog'
           tp2 == Templates'
           z == Len(body)
<1>1. PICK st2 : Longer(st, st2, Len(prog), Len(c2) + 1)
  BY DEF Longer
<1>2. Len(prog) \in Nat /\ st2[n] = p /\ st2[n + 1] = Len(c2) + 1
  <2>1. Len(prog) \in Nat /\ st2[Len(prog) + 1] = Len(code) + 1 /\ st2[Len(prog) + 2] = Len(c2) + 1
    <3> HIDE DEF c2
    <3> QED  BY <1>1, NewPlaces
  <2>2. n + 1 = Len(prog) + 2
    BY <2>1
  <2> QED  BY <2>1, <2>2
<1>3. /\ Len(code) \in Nat /\ z \in Nat /\ Len(c2) = p + z
  BY NewCode
<1>4. \A i \in Nat : i > Len(code) => Idle(blocks, i)
  BY IdleAbove
<1>5. Fix(blocks, c2, p - 1, <<Ins("dbg", n)>>)
  <2>1. Idle(blocks, p)
    BY <1>3, <1>4
  <2> QED  BY <2>1, NewDbg
<1>6. Fix(blocks, c2, p, body)
  <2>1. 0 \in Nat /\ 0 + Len(body) <= Len(body) /\ p + 0 = p
    BY <1>3
  <2>2. \A k \in 1 .. Len(body) : body[0 + k] = body[k] /\ Idle(blocks, p + 0 + k)
    <3>1. \A k \in 1 .. Len(body) : 0 + k = k /\ p + 0 + k \in Nat /\ p + 0 + k > Len(code)
      BY <1>3
    <3> QED  BY <1>4, <3>1
  <2>3. Fix(blocks, c2, p + 0, body)
    BY <1>3, <2>1, <2>2, NewFixed
  <2> QED  BY <2>1, <2>3
<1>7. pg2[n] = ins /\ tp2[n] = IF ins.op \in PlainOps THEN Template(ins) ELSE <<>>
  BY TemplatesGrow, AppendedProg DEF PatchInv, CompilerType, Emit
<1>8. Len(Now.labels) = Len(blocks)
  BY CurrentFacts
<1>9. Shape(pg2, closes, blocks, c2, st2, phase, Now.labels, n, tp2[n])
  <2>1. st2[n + 1] = p + 1 + z
    BY <1>2, <1>3
  <2>2. CASE ins.op \in PlainOps /\ body = Template(ins)
    <3>1. ins.op \notin {"block", "loop", "if", "else", "end", "br", "br_if", "br_table", "return"}
      BY <2>2 DEF PlainOps, Binary, Unary
    <3>2. tp2[n] = body
      BY <1>7, <2>2
    <3> HIDE DEF n, p, c2, pg2, tp2
    <3> QED  BY <1>2, <1>5, <1>6, <1>7, <2>1, <3>1, <3>2 DEF Shape, z
  <2>3. CASE ins.op = "return" /\ body = <<Ins("add rsp", Len(blocks)), Ins("ret", 0)>>
    <3>1. ins.op \notin PlainOps
      BY <2>3 DEF PlainOps, Binary, Unary
    <3>3. \A x, y : Len(<<x, y>>) = 2
      OBVIOUS
    <3>4. z = 2
      BY <2>3, <3>3
    <3>2. z = 2 /\ p + 1 + 2 = p + 3
      BY <1>3, <3>4
    <3> HIDE DEF n, p, c2, pg2, tp2, z
    <3> QED  BY <1>2, <1>5, <1>6, <1>7, <1>8, <2>1, <2>3, <3>1, <3>2 DEF Shape
  <2> QED  BY <2>2, <2>3 DEF Straightly
<1>10. \A j \in 1 .. Len(blocks) : Grown(blocks[j], blocks'[j], code', Len(code))
  BY GrownSame, ElementOfSeq DEF PatchInv, CompilerType
<1>11. Len(blocks') >= Len(blocks) /\ \A j \in 1 .. Len(blocks') : ~(j > Len(blocks))
  BY CurrentFacts
<1>12. CodeInv(h, st2)'
  <2>1. \A j \in 1 .. Len(blocks') : j > Len(blocks) =>
            /\ blocks'[j].at = Len(prog) + 1 /\ BlockCode(prog', code', st2, blocks'[j])
            /\ \A q \in Pend(blocks'[j]) : q[1] > Len(code)
    BY <1>11
  <2> QED  BY <1>1, <1>9, <1>10, <1>11, <2>1, CodeGrows
<1> QED  BY <1>12

LEMMA PlainCode ==
  ASSUME PatchInv, NEW f, FlowInv(f), NEW st, CodeInv(f, st), family' = family, NEW ins \in PlainIns, CompilePlain(ins)
  PROVE  \E h, st2 : FlowInv(h)' /\ CodeInv(h, st2)'
<1>1. PICK h : FlowInv(h)' /\ Keeps(f, h, Len(prog) + 1)
  BY PlainFlows
<1>2. PatchInv'
  BY PlainStep
<1>3. phase = "compile" /\ phase' = phase /\ closes' = closes /\ blocks' = blocks /\ Emit(ins, Template(ins))
  BY DEF CompilePlain, CanCompile
<1>4. ins \in Bytecode /\ ins.op \in PlainOps /\ ins.n \in Int
  BY PlainInsFacts DEF PatchInv, CompilerType
<1>5. Template(ins) \in Seq(Instr)
  BY <1>4, TemplateType, StraightIsInstr, SeqMonotonic DEF PatchInv, CompilerType
<1>6. Straightly(ins, Template(ins))
  BY <1>4 DEF Straightly
<1> DEFINE body == Template(ins)
<1> HIDE DEF body
<1>7. body \in Seq(Instr) /\ Emit(ins, body) /\ Straightly(ins, body)
  BY <1>3, <1>5, <1>6 DEF body
<1>8. \E st2 : CodeInv(h, st2)'
  BY <1>1, <1>2, <1>3, <1>4, <1>7, StraightCode
<1> QED  BY <1>1, <1>8

LEMMA ReturnCode ==
  ASSUME PatchInv, NEW f, FlowInv(f), NEW st, CodeInv(f, st), family' = family, CompileReturn
  PROVE  \E h, st2 : FlowInv(h)' /\ CodeInv(h, st2)'
<1> DEFINE ins == Ins("return", 0)
           body == <<Ins("add rsp", Len(blocks)), Ins("ret", 0)>>
<1>1. PICK h : FlowInv(h)' /\ Keeps(f, h, Len(prog) + 1)
  BY ReturnFlows
<1>2. PatchInv'
  BY ReturnStep
<1>3. phase = "compile" /\ phase' = phase /\ closes' = closes /\ blocks' = blocks /\ Emit(ins, body)
  BY DEF CompileReturn, CanCompile
<1>4. ins \in Bytecode /\ ins.op = "return"
  BY InsType
<1>5. body \in Seq(Instr)
  <2>1. Len(blocks) \in Int
    BY LenProperties DEF PatchInv, CompilerType
  <2>2. \A op \in StraightOps, n \in Int : Ins(op, n) \in Instr
    BY InsType, StraightIsInstr
  <2>3. "add rsp" \in StraightOps /\ "ret" \in StraightOps /\ 0 \in Int
    BY DEF StraightOps
  <2>4. Ins("add rsp", Len(blocks)) \in Instr /\ Ins("ret", 0) \in Instr
    BY <2>1, <2>2, <2>3, Zenon
  <2> QED  BY <2>4, Tuple2
<1>6. Straightly(ins, body)
  BY <1>4 DEF Straightly
<1> HIDE DEF body, ins
<1>7. \E st2 : CodeInv(h, st2)'
  BY <1>1, <1>2, <1>3, <1>4, <1>5, <1>6, StraightCode
<1> QED  BY <1>1, <1>7

\* A block, loop or if adds its block to the others.
LEMMA OpenedBlocks ==
  ASSUME PatchInv, NEW b \in OpenBlock, blocks' = Append(blocks, b), NEW c2
  PROVE  /\ Len(blocks) \in Nat /\ Len(blocks') = Len(blocks) + 1 /\ Len(blocks') >= Len(blocks)
         /\ \A j \in 1 .. Len(blocks) : blocks'[j] = blocks[j] /\ Grown(blocks[j], blocks'[j], c2, Len(code))
         /\ blocks'[Len(blocks) + 1] = b
         /\ \A j \in 1 .. Len(blocks') : j \in 1 .. Len(blocks) \/ j = Len(blocks) + 1
         /\ \A j \in 1 .. Len(blocks') : j > Len(blocks) => blocks'[j] = b
<1>1. /\ blocks \in Seq(OpenBlock) /\ Len(blocks) \in Nat /\ Len(blocks') = Len(blocks) + 1
      /\ \A j \in 1 .. Len(blocks) : blocks'[j] = blocks[j]
      /\ blocks'[Len(blocks) + 1] = b
  BY OpenKeeps DEF PatchInv, CompilerType
<1>2. \A j \in 1 .. Len(blocks) : blocks[j] \in OpenBlock
  BY <1>1, ElementOfSeq
<1>3. \A j \in 1 .. Len(blocks) + 1 : j \in 1 .. Len(blocks) \/ j = Len(blocks) + 1
  BY <1>1
<1>4. \A j \in 1 .. Len(blocks) : ~(j > Len(blocks))
  BY <1>1
<1>5. Len(blocks) + 1 >= Len(blocks)
  BY <1>1
<1>6. \A j \in 1 .. Len(blocks) : Grown(blocks[j], blocks'[j], c2, Len(code))
  BY <1>1, <1>2, GrownSame
<1> HIDE DEF Grown
<1> QED  BY <1>1, <1>3, <1>4, <1>5, <1>6

LEMMA OpenCode ==
  ASSUME PatchInv, NEW f, FlowInv(f), NEW st, CodeInv(f, st), family' = family,
         NEW kind, NEW arity, <<kind, arity>> \in family.openers, CompileBlock(kind, arity)
  PROVE  \E h, st2 : FlowInv(h)' /\ CodeInv(h, st2)'
<1> DEFINE n == Len(prog) + 1
           p == Len(code) + 1
           c2 == code'
           pg2 == prog'
           B2 == blocks'
           ins == Ins(kind, arity)
           b == Block(kind, TypeOf(arity), IF kind = "loop" THEN Cur ELSE 0, <<>>, Here, height)
<1>1. PICK h : FlowInv(h)' /\ Keeps(f, h, Len(prog) + 1)
  BY OpenFlows
<1>2. /\ phase = "compile" /\ phase' = phase /\ closes' = closes /\ kind \in {"block", "loop"}
      /\ blocks' = Append(blocks, b) /\ Emit(ins, EnterBlock) /\ height' = height
  BY DEF CompileBlock, CanCompile
<1>3. arity \in {0, 1}
  <2>1. <<kind, arity>> \in {"block", "loop", "if"} \X {0, 1}
    BY FamilyFacts DEF PatchInv, CompilerType
  <2> QED  BY <2>1
<1>4. PatchInv'
  BY <1>2, <1>3, BlockStep
<1>5. ins \in Bytecode /\ ins.op = kind /\ ins.n = arity
  BY <1>2, <1>3, InsType
<1>6. EnterBlock \in Seq(Instr) /\ Len(EnterBlock) = 2
  BY FixedTemplates, StraightIsInstr, SeqMonotonic
<1>7. Len(code) \in Nat /\ Len(c2) = p + 2 /\ Len(prog) \in Nat /\ height \in Nat
  <2>1. Len(code) \in Nat /\ Len(c2) = Len(code) + 1 + Len(EnterBlock)
    BY <1>2, <1>6, NewCode
  <2> QED  BY <1>2, <1>6, <2>1, CurrentFacts
<1>8. b \in OpenBlock /\ b.at = n /\ b.kind = kind /\ b.rel = <<>> /\ b.abs = {}
      /\ b.addr = IF kind = "loop" THEN p + 1 ELSE 0
  <2>1. <<>> \in Seq(Nat)
    BY EmptyTs
  <2>2. Cur = p + 1 /\ Cur \in Nat /\ Here = n /\ Here \in Nat
    BY <1>7 DEF Cur, Here
  <2>3. TypeOf(arity) \in {"none", "empty_block", "value"}
    BY DEF TypeOf
  <2>4. height \in Int
    BY <1>7
  <2> QED  BY <1>2, <2>1, <2>2, <2>3, <2>4 DEF Block, OpenBlock
<1> HIDE DEF b, ins
<1>9. Pend(b) = {}
  <2>1. Len(b.rel) = 0
    BY <1>8
  <2>2. Range(b.rel) = {}
    BY <1>8, <2>1, BlockType, RangeFacts
  <2> QED  BY <1>8, <2>2 DEF Pend
<1>10. PICK st2 : Longer(st, st2, Len(prog), Len(c2) + 1)
  BY DEF Longer
<1>11. st2[n] = p /\ st2[n + 1] = Len(c2) + 1
  <2>1. Len(prog) \in Nat /\ st2[Len(prog) + 1] = Len(code) + 1 /\ st2[Len(prog) + 2] = Len(c2) + 1
    <3> HIDE DEF c2
    <3> QED  BY <1>2, <1>10, NewPlaces
  <2>2. n + 1 = Len(prog) + 2
    BY <2>1
  <2> QED  BY <2>1, <2>2
<1>12. /\ Len(blocks) \in Nat /\ Len(B2) >= Len(blocks)
       /\ \A j \in 1 .. Len(blocks) : B2[j] = blocks[j] /\ Grown(blocks[j], B2[j], c2, Len(code))
       /\ \A j \in 1 .. Len(B2) : j \in 1 .. Len(blocks) \/ j = Len(blocks) + 1
       /\ \A j \in 1 .. Len(B2) : j > Len(blocks) => B2[j] = b
       /\ B2[Len(blocks) + 1] = b
  BY <1>2, <1>8, OpenedBlocks
<1>13. \A i \in Nat : i > Len(code) => Idle(B2, i)
  <2>1. \A i \in Nat : i > Len(code) => Idle(blocks, i)
    BY IdleAbove
  <2> HIDE DEF B2
  <2> QED  BY <1>9, <1>12, <2>1 DEF Idle
<1>14. Fix(B2, c2, p - 1, <<Ins("dbg", n)>>)
  <2>1. Idle(B2, p)
    BY <1>7, <1>13
  <2> QED  BY <1>2, <1>6, <2>1, NewDbg
<1>15. Fix(B2, c2, p, EnterBlock)
  <2>1. 0 \in Nat /\ 0 + Len(EnterBlock) <= Len(EnterBlock) /\ p + 0 = p /\ Len(EnterBlock) \in Nat
    BY <1>6, <1>7
  <2>2. \A k \in 1 .. Len(EnterBlock) : EnterBlock[0 + k] = EnterBlock[k] /\ Idle(B2, p + 0 + k)
    <3>1. \A k \in 1 .. Len(EnterBlock) : 0 + k = k /\ p + 0 + k \in Nat /\ p + 0 + k > Len(code)
      BY <1>6, <1>7
    <3> QED  BY <1>13, <3>1
  <2> HIDE DEF B2
  <2>3. Fix(B2, c2, p + 0, EnterBlock)
    BY <1>2, <1>6, <2>1, <2>2, NewFixed
  <2> QED  BY <2>1, <2>3
<1>16. pg2[n] = ins
  BY <1>2, <1>5, AppendedProg DEF PatchInv, CompilerType, Emit
<1>17. Shape(pg2, closes, B2, c2, st2, phase, Now.labels, n, Templates'[n])
  <2>1. ins.op \in {"block", "loop"} /\ ins.op \notin PlainOps
    BY <1>2, <1>5 DEF PlainOps, Binary, Unary
  <2>2. st2[n + 1] = p + 3
    BY <1>7, <1>11
  <2> DEFINE tp2 == Templates'
  <2> HIDE DEF n, p, c2, pg2, B2, tp2
  <2>3. Shape(pg2, closes, B2, c2, st2, phase, Now.labels, n, tp2[n])
    BY <1>11, <1>14, <1>15, <1>16, <2>1, <2>2 DEF Shape
  <2> QED  BY <2>3 DEF tp2
<1>18. BlockCode(pg2, c2, st2, b)
  <2>1. LoopAt(pg2, n) <=> kind = "loop"
    BY <1>5, <1>7, <1>16 DEF LoopAt
  <2> HIDE DEF n, p, c2, pg2
  <2> QED  BY <1>2, <1>8, <1>9, <1>11, <2>1 DEF BlockCode
<1>19. \A j \in 1 .. Len(B2) : j > Len(blocks) =>
          /\ B2[j].at = Len(prog) + 1 /\ BlockCode(pg2, c2, st2, B2[j])
          /\ \A q \in Pend(B2[j]) : q[1] > Len(code)
  <2> HIDE DEF c2, pg2, B2
  <2> QED  BY <1>8, <1>9, <1>12, <1>18
<1>20. CodeInv(h, st2)'
  BY <1>1, <1>2, <1>4, <1>5, <1>6, <1>10, <1>12, <1>17, <1>19, CodeGrows
<1> QED  BY <1>1, <1>20

LEMMA IfCode ==
  ASSUME PatchInv, NEW f, FlowInv(f), NEW st, CodeInv(f, st), family' = family,
         NEW arity, <<"if", arity>> \in family.openers, CompileIf(arity)
  PROVE  \E h, st2 : FlowInv(h)' /\ CodeInv(h, st2)'
<1> DEFINE n == Len(prog) + 1
           p == Len(code) + 1
           c2 == code'
           pg2 == prog'
           B2 == blocks'
           ins == Ins("if", arity)
           jz == Ins("enter if", 0)
           body == <<jz>> \o EnterBlock
           b == Block("if", TypeOf(arity), 0, <<Cur>>, Here, height - 1)
<1>1. PICK h : FlowInv(h)' /\ Keeps(f, h, Len(prog) + 1)
  BY IfFlows
<1>2. /\ phase = "compile" /\ phase' = phase /\ closes' = closes /\ Len(prog) < MaxLen /\ Avail >= 1
      /\ blocks' = Append(blocks, b) /\ Emit(ins, body) /\ height' = height - 1
  BY DEF CompileIf, CanCompile
<1>3. arity \in {0, 1}
  <2>1. <<"if", arity>> \in {"block", "loop", "if"} \X {0, 1}
    BY FamilyFacts DEF PatchInv, CompilerType
  <2> QED  BY <2>1
<1>4. PatchInv'
  BY <1>3, IfStep
<1>5. ins \in Bytecode /\ ins.op = "if" /\ ins.n = arity
  BY <1>3, InsType
<1>6. /\ body \in Seq(Instr) /\ Len(body) = 3 /\ body[1] = jz
      /\ \A k \in 1 .. Len(EnterBlock) : body[1 + k] = EnterBlock[k]
      /\ Len(EnterBlock) = 2 /\ jz.op = "enter if" /\ jz.n = 0
  <2> DEFINE u == <<jz>>
  <2>1. EnterBlock \in Seq(Instr) /\ Len(EnterBlock) = 2
    BY FixedTemplates, StraightIsInstr, SeqMonotonic
  <2>2. jz \in Instr /\ jz.op = "enter if" /\ jz.n = 0
    <3>1. \A op \in Jumps : Ins(op, 0) \in Instr
      BY InsType
    <3>2. \A op, m : Ins(op, m).op = op /\ Ins(op, m).n = m
      BY DEF Ins
    <3> QED  BY <3>1, <3>2 DEF Jumps
  <2> HIDE DEF jz
  <2>3. u \in Seq(Instr) /\ Len(u) = 1 /\ u[1] = jz
    BY <2>2, Tuple1
  <2> HIDE DEF u
  <2>4. u \in Seq(Instr) /\ EnterBlock \in Seq(Instr)
    BY <2>1, <2>3
  <2>5. /\ u \o EnterBlock \in Seq(Instr) /\ Len(u \o EnterBlock) = Len(u) + Len(EnterBlock)
        /\ \A i \in 1 .. Len(u) : (u \o EnterBlock)[i] = u[i]
        /\ \A i \in 1 .. Len(EnterBlock) : (u \o EnterBlock)[Len(u) + i] = EnterBlock[i]
    BY <2>4, ConcatFacts
  <2> DEFINE w == u \o EnterBlock
  <2> HIDE DEF w
  <2>6. w \in Seq(Instr) /\ Len(w) = 3 /\ w[1] = jz /\ \A k \in 1 .. Len(EnterBlock) : w[1 + k] = EnterBlock[k]
    <3>1. 1 \in 1 .. 1 /\ 1 + 2 = 3
      OBVIOUS
    <3> QED  BY <2>1, <2>3, <2>5, <3>1 DEF w
  <2> QED  BY <2>1, <2>2, <2>6 DEF w, u
<1> HIDE DEF body, jz
<1>30. body \in Seq(Instr) /\ Emit(ins, body)
  BY <1>2, <1>6
<1>31. Len(body) = 3 /\ Len(EnterBlock) = 2
  BY <1>6
<1>7. Len(code) \in Nat /\ Len(c2) = p + 3 /\ Len(prog) \in Nat /\ height \in Nat /\ height - 1 \in Int
  <2>1. Len(code) \in Nat /\ Len(c2) = Len(code) + 1 + Len(body)
    BY <1>30, NewCode
  <2>2. height \in Nat /\ Len(prog) \in Nat
    BY <1>2, CurrentFacts
  <2>3. height - 1 \in Int
    BY <2>2
  <2> QED  BY <1>31, <2>1, <2>2, <2>3
<1>8. b \in OpenBlock /\ b.at = n /\ b.kind = "if" /\ Len(b.rel) = 1 /\ b.rel[1] = p + 1 /\ b.abs = {} /\ b.addr = 0
  <2>2. Cur = p + 1 /\ Cur \in Nat /\ Here = n /\ Here \in Nat
    BY <1>7 DEF Cur, Here
  <2>1. <<Cur>> \in Seq(Nat) /\ Len(<<Cur>>) = 1 /\ <<Cur>>[1] = Cur
    BY <2>2, Tuple1
  <2>3. TypeOf(arity) \in {"none", "empty_block", "value"}
    BY DEF TypeOf
  <2> DEFINE r == <<Cur>>
  <2> HIDE DEF r
  <2>4. r \in Seq(Nat) /\ Len(r) = 1 /\ r[1] = p + 1
    BY <2>1, <2>2 DEF r
  <2>5. b = Block("if", TypeOf(arity), 0, r, Here, height - 1)
    BY DEF r
  <2>6. 0 \in Nat
    OBVIOUS
  <2> HIDE DEF n, p, b
  <2> QED  BY <1>7, <2>2, <2>3, <2>4, <2>5, <2>6 DEF Block, OpenBlock
<1> HIDE DEF b, ins
<1>9. \A i, k : <<i, k>> \in Pend(b) <=> k = 0 /\ i = p + 1
  <2>1. \A i, k : <<i, k>> \in Pend(b) <=> (k = 0 /\ \E j \in 1 .. Len(b.rel) : b.rel[j] = i) \/ <<i, k>> \in b.abs
    BY <1>8, PendFacts
  <2>2. \A j \in 1 .. 1 : j = 1
    OBVIOUS
  <2>3. 1 \in 1 .. 1
    OBVIOUS
  <2> HIDE DEF p
  <2> QED  BY <1>8, <2>1, <2>2, <2>3
<1>10. PICK st2 : Longer(st, st2, Len(prog), Len(c2) + 1)
  BY DEF Longer
<1>11. st2[n] = p /\ st2[n + 1] = Len(c2) + 1
  <2>1. Len(prog) \in Nat /\ st2[Len(prog) + 1] = Len(code) + 1 /\ st2[Len(prog) + 2] = Len(c2) + 1
    <3> HIDE DEF c2
    <3> QED  BY <1>2, <1>10, NewPlaces
  <2>2. n + 1 = Len(prog) + 2
    BY <2>1
  <2> QED  BY <2>1, <2>2
<1>12. /\ Len(blocks) \in Nat /\ Len(B2) >= Len(blocks)
       /\ \A j \in 1 .. Len(blocks) : B2[j] = blocks[j] /\ Grown(blocks[j], B2[j], c2, Len(code))
       /\ \A j \in 1 .. Len(B2) : j \in 1 .. Len(blocks) \/ j = Len(blocks) + 1
       /\ \A j \in 1 .. Len(B2) : j > Len(blocks) => B2[j] = b
       /\ B2[Len(blocks) + 1] = b
  BY <1>2, <1>8, OpenedBlocks
<1>20. \A i \in Nat : i > Len(code) => Idle(blocks, i)
  BY IdleAbove
<1>13. \A i \in Nat : i > Len(code) /\ i # p + 1 => Idle(B2, i)
  <2> HIDE DEF B2
  <2> QED  BY <1>9, <1>12, <1>20 DEF Idle
<1>14. Fix(B2, c2, p - 1, <<Ins("dbg", n)>>)
  <2>1. Idle(B2, p)
    BY <1>7, <1>13
  <2> QED  BY <1>30, <2>1, NewDbg
<1>15. Fix(B2, c2, p + 1, EnterBlock)
  <2>1. 1 \in Nat /\ 1 + Len(EnterBlock) <= Len(body) /\ Len(EnterBlock) \in Nat
    BY <1>31
  <2>2. \A k \in 1 .. Len(EnterBlock) : body[1 + k] = EnterBlock[k] /\ Idle(B2, p + 1 + k)
    <3>1. \A k \in 1 .. Len(EnterBlock) : p + 1 + k \in Nat /\ p + 1 + k > Len(code) /\ p + 1 + k # p + 1
      BY <1>7, <1>31
    <3> QED  BY <1>6, <1>13, <3>1
  <2> HIDE DEF B2
  <2> QED  BY <1>30, <2>1, <2>2, NewFixed
<1>16. pg2[n] = ins
  BY <1>2, <1>5, AppendedProg DEF PatchInv, CompilerType, Emit
<1>21. \A j \in 1 .. Len(B2) : <<p + 1, 0>> \in Pend(B2[j]) <=> B2[j].at = n
  <2> SUFFICES ASSUME NEW j \in 1 .. Len(B2) PROVE <<p + 1, 0>> \in Pend(B2[j]) <=> B2[j].at = n
    OBVIOUS
  <2>1. CASE j \in 1 .. Len(blocks)
    <3>1. B2[j] = blocks[j] /\ blocks[j].at \in 0 .. Len(prog)
      BY <1>2, <1>12, <2>1, CurrentFacts
    <3>2. p + 1 \in Nat /\ p + 1 > Len(code)
      BY <1>7
    <3>3. <<p + 1, 0>> \notin Pend(blocks[j])
      BY <1>20, <2>1, <3>2 DEF Idle
    <3>4. blocks[j].at # n
      BY <1>7, <3>1
    <3> QED  BY <3>1, <3>3, <3>4
  <2>2. CASE j = Len(blocks) + 1
    BY <1>8, <1>9, <1>12, <2>2
  <2> HIDE DEF B2, n, p
  <2> QED  BY <1>12, <2>1, <2>2
<1>22. closes[n].els = 0 /\ closes[n].end = 0
  <2>1. n \in 1 .. family.len /\ n > Len(prog)
    BY <1>2, <1>7, FamilyFacts DEF PatchInv, CompilerType, MaxLen
  <2>2. closes[n] = [els |-> 0, end |-> 0]
    BY <2>1 DEF FlowInv, Flows
  <2> QED  BY <2>2
<1>23. Jump(pg2, closes, B2, c2, st2, phase, p + 1, "enter if", n)
  <2>1. c2[p + 1] = jz
    <3>2. \A k \in 1 .. Len(body) : code'[Len(code) + 1 + k] = body[k]
      BY <1>30, NewCode
    <3>1. 1 \in 1 .. Len(body) /\ \A k \in 1 .. Len(body) : code'[Len(code) + 1 + k] = body[k]
      BY <1>31, <3>2
    <3> QED  BY <1>6, <3>1
  <2>2. ~LoopAt(pg2, n) /\ n # 0
    BY <1>5, <1>7, <1>16 DEF LoopAt
  <2> HIDE DEF n, c2, pg2, B2
  <2>3. Goal(pg2, closes, st2, phase, "enter if", n) = 0
    BY <1>22, <2>2 DEF Goal
  <2> QED  BY <1>6, <1>21, <2>1, <2>3 DEF Jump, Goes
<1>17. Shape(pg2, closes, B2, c2, st2, phase, Now.labels, n, Templates'[n])
  <2>1. ins.op = "if" /\ ins.op \notin PlainOps
    BY <1>5 DEF PlainOps, Binary, Unary
  <2>2. st2[n + 1] = p + 4
    BY <1>7, <1>11
  <2> DEFINE tp2 == Templates'
  <2> HIDE DEF n, p, c2, pg2, B2, tp2
  <2>3. Shape(pg2, closes, B2, c2, st2, phase, Now.labels, n, tp2[n])
    BY <1>11, <1>14, <1>15, <1>16, <1>23, <2>1, <2>2 DEF Shape
  <2> QED  BY <2>3 DEF tp2
<1>18. BlockCode(pg2, c2, st2, b)
  <2>1. ~LoopAt(pg2, n)
    BY <1>5, <1>7, <1>16 DEF LoopAt
  <2>2. \A q \in Pend(b) : q[1] \in 1 .. Len(c2)
    <3> SUFFICES ASSUME NEW q \in Pend(b) PROVE q[1] \in 1 .. Len(c2)
      OBVIOUS
    <3>1. q = <<q[1], q[2]>>
      BY <1>8, PendFacts
    <3>2. q[1] = p + 1
      BY <1>9, <3>1
    <3> QED  BY <1>7, <3>2
  <2>3. \A k \in 2 .. 1 : FALSE
    OBVIOUS
  <2>4. 1 >= 1
    OBVIOUS
  <2> HIDE DEF n, p, c2, pg2
  <2> QED  BY <1>8, <1>11, <2>1, <2>2, <2>3, <2>4 DEF BlockCode
<1>19. \A j \in 1 .. Len(B2) : j > Len(blocks) =>
          /\ B2[j].at = Len(prog) + 1 /\ BlockCode(pg2, c2, st2, B2[j])
          /\ \A q \in Pend(B2[j]) : q[1] > Len(code)
  <2>1. \A q \in Pend(b) : q[1] > Len(code)
    <3> SUFFICES ASSUME NEW q \in Pend(b) PROVE q[1] > Len(code)
      OBVIOUS
    <3>1. q = <<q[1], q[2]>>
      BY <1>8, PendFacts
    <3>2. q[1] = p + 1
      BY <1>9, <3>1
    <3> QED  BY <1>7, <3>2
  <2> HIDE DEF c2, pg2, B2
  <2> QED  BY <1>8, <1>12, <1>18, <2>1
<1>24. CodeInv(h, st2)'
  BY <1>1, <1>2, <1>4, <1>5, <1>6, <1>10, <1>12, <1>17, <1>19, CodeGrows
<1> QED  BY <1>1, <1>24

-----------------------------------------------------------------------------
(* The branches.                                                           *)

LEMMA AtsApart ==
  ASSUME PatchInv, phase = "compile", NEW f, FlowInv(f), NEW j \in 1 .. Len(blocks), NEW k \in 1 .. Len(blocks), j # k
  PROVE  blocks[j].at # blocks[k].at
<1>1. /\ Len(prog) \in Nat /\ Len(blocks) \in Nat /\ f[Len(prog) + 1] = Now /\ Len(Now.labels) = Len(blocks)
      /\ \A i \in 1 .. Len(blocks) : Now.labels[i].at = blocks[i].at /\ blocks[i].at \in Nat
  <2>1. \A x, y : Label(x, y).at = x
    BY DEF Label
  <2> QED  BY <2>1, CurrentFacts
<1>2. Nested(prog, f, Len(prog) + 1)
  <2>1. Len(prog) + 1 \in 1 .. Len(prog) + 1
    BY <1>1
  <2> QED  BY <2>1 DEF FlowInv, Flows
<1>3. \A i \in 1 .. Len(blocks) : \A x \in 1 .. i - 1 : Now.labels[x].at < Now.labels[i].at
  BY <1>1, <1>2 DEF Nested
<1>4. \A i \in 1 .. Len(blocks) : \A x \in 1 .. Len(blocks) : x < i => blocks[x].at < blocks[i].at
  <2> SUFFICES ASSUME NEW i \in 1 .. Len(blocks), NEW x \in 1 .. Len(blocks), x < i
               PROVE  blocks[x].at < blocks[i].at
    OBVIOUS
  <2>1. x \in 1 .. i - 1
    OBVIOUS
  <2> QED  BY <1>1, <1>3, <2>1
<1>5. j < k \/ k < j
  BY <1>1
<1>6. blocks[j].at \in Nat /\ blocks[k].at \in Nat
  BY <1>1
<1>7. blocks[j].at < blocks[k].at \/ blocks[k].at < blocks[j].at
  BY <1>4, <1>5
<1> QED  BY <1>6, <1>7

\* What a branch to an open block says and leaves.
LEMMA OpenTarget ==
  ASSUME PatchInv, phase = "compile", NEW f, FlowInv(f), NEW st, CodeInv(f, st),
         NEW pg2, Keeps(prog, pg2, Len(prog)), NEW st2, Keeps(st, st2, Len(prog) + 1),
         NEW j \in 1 .. Len(blocks)
  PROVE  /\ Valued(pg2, blocks[j].at) <=> blocks[j].type # "empty_block"
         /\ \A op : op # "enter if" => Goal(pg2, closes, st2, phase, op, blocks[j].at) = blocks[j].addr
<1> DEFINE b == blocks[j]
           a == b.at
<1>1. BlockIs(prog, closes, b) /\ BlockCode(prog, code, st, b)
  BY DEF FlowInv, CodeInv, Laid
<1>2. CASE a = 0
  <2>1. b.type = "none" /\ b.addr = 0
    BY <1>1, <1>2 DEF BlockIs, BlockCode, LoopAt
  <2> QED  BY <1>2, <2>1 DEF Valued, Goal, LoopAt
<1>3. CASE a # 0
  <2>1. a \in 1 .. Len(prog) /\ prog[a].op \in Openers /\ closes[a].end = 0 /\ b.type = TypeOf(prog[a].n)
    BY <1>1, <1>3 DEF BlockIs
  <2>2. prog[a].n \in {0, 1}
    <3>1. <<prog[a].op, prog[a].n>> \in family.openers
      BY <2>1, OpenerIndex DEF Closed
    <3>2. family.openers \subseteq {"block", "loop", "if"} \X {0, 1}
      BY FamilyFacts DEF PatchInv, CompilerType
    <3> QED  BY <3>1, <3>2
  <2>3. pg2[a] = prog[a]
    BY <2>1 DEF Keeps
  <2>4. st2[a] = st[a]
    <3>1. Len(prog) \in Nat
      BY CurrentFacts
    <3>2. a \in 1 .. Len(prog) + 1
      BY <2>1, <3>1
    <3> QED  BY <3>2 DEF Keeps
  <2>5. b.addr = IF LoopAt(prog, a) THEN st[a] + 1 ELSE 0
    BY <1>1 DEF BlockCode
  <2> HIDE DEF a, b
  <2>6. Valued(pg2, a) <=> b.type # "empty_block"
    BY <1>3, <2>1, <2>2, <2>3 DEF Valued, TypeOf
  <2>7. \A op : op # "enter if" => Goal(pg2, closes, st2, phase, op, a) = b.addr
    BY <1>3, <2>1, <2>3, <2>4, <2>5 DEF Goal, LoopAt
  <2> QED  BY <2>6, <2>7 DEF a, b
<1> QED  BY <1>2, <1>3

LEMMA LeavingIs ==
  ASSUME PatchInv, phase = "compile", NEW f, FlowInv(f), NEW st, CodeInv(f, st),
         NEW pg2, Keeps(prog, pg2, Len(prog)), NEW st2, Keeps(st, st2, Len(prog) + 1), NEW d \in Depths
  PROVE  /\ Len(blocks) - d \in 1 .. Len(blocks) /\ d \in Nat
         /\ Nth(Now.labels, d).at = Target(d).at /\ Target(d) = blocks[Len(blocks) - d]
         /\ Valued(pg2, Target(d).at) <=> Target(d).type # "empty_block"
         /\ Leaving(d, Valued(pg2, Target(d).at)) = LeaveTo(d)
         /\ \A op : op # "enter if" => Goal(pg2, closes, st2, phase, op, Target(d).at) = Target(d).addr
<1> DEFINE j == Len(blocks) - d
<1>1. /\ Len(blocks) \in Nat /\ Len(Now.labels) = Len(blocks)
      /\ \A i \in 1 .. Len(blocks) : Now.labels[i].at = blocks[i].at
  <2>1. \A x, y : Label(x, y).at = x
    BY DEF Label
  <2> QED  BY <2>1, CurrentFacts
<1>2. j \in 1 .. Len(blocks) /\ d \in Nat
  BY <1>1 DEF Depths
<1>3. Target(d) = blocks[j] /\ Nth(Now.labels, d).at = blocks[j].at
  BY <1>1, <1>2 DEF Target, Nth
<1> HIDE DEF j
<1>4. /\ Valued(pg2, blocks[j].at) <=> blocks[j].type # "empty_block"
      /\ \A op : op # "enter if" => Goal(pg2, closes, st2, phase, op, blocks[j].at) = blocks[j].addr
  BY <1>2, OpenTarget
<1>5. Leaving(d, Valued(pg2, Target(d).at)) = LeaveTo(d)
  <2>1. Valued(pg2, Target(d).at) = (Target(d).type # "empty_block")
    BY <1>3, <1>4 DEF Valued
  <2> QED  BY <2>1 DEF Leaving, LeaveTo
<1> QED  BY <1>2, <1>3, <1>4, <1>5 DEF j

\* A fixup is on the list of its target, if that has no address yet.
Fixed(d, pos, B2) == B2 = AddFixup(d, pos)

LEMMA FixupGrows ==
  ASSUME PatchInv, phase = "compile", NEW d \in Depths, NEW c2, Len(c2) \in Nat, Len(c2) > Len(code),
         NEW pos \in Len(code) + 1 .. Len(c2), NEW B2, Fixed(d, pos, B2)
  PROVE  /\ Len(B2) = Len(blocks)
         /\ \A j \in 1 .. Len(blocks) : Grown(blocks[j], B2[j], c2, Len(code))
         /\ \A j \in 1 .. Len(blocks) : \A i, k :
               <<i, k>> \in Pend(B2[j]) <=>
                  <<i, k>> \in Pend(blocks[j]) \/ (i = pos /\ k = 0 /\ j = Len(blocks) - d /\ Target(d).addr = 0)
<1> DEFINE t == Len(blocks) - d
           b == blocks[t]
           r == Append(b.rel, pos)
           b2 == [b EXCEPT !.rel = r]
<1>1. /\ blocks \in Seq(OpenBlock) /\ Len(code) \in Nat /\ Len(blocks) \in Nat
      /\ \A j \in 1 .. Len(blocks) : blocks[j] \in OpenBlock
  BY LenProperties, ElementOfSeq DEF PatchInv, CompilerType
<1>2. t \in 1 .. Len(blocks) /\ Target(d) = b
  BY TargetFacts DEF PatchInv, Target
<1>3. CASE Target(d).addr # 0
  <2>1. B2 = blocks
    BY <1>3 DEF AddFixup, Fixed
  <2>2. \A j \in 1 .. Len(blocks) : Grown(blocks[j], blocks[j], c2, Len(code))
    BY <1>1, GrownSame
  <2> QED  BY <1>3, <2>1, <2>2
<1>4. CASE Target(d).addr = 0
  <2>1. B2 = [blocks EXCEPT ![t] = b2]
    BY <1>4 DEF AddFixup, Fixed
  <2>2. b \in OpenBlock /\ b.rel \in Seq(Nat) /\ pos \in Nat
    BY <1>1, <1>2, BlockType
  <2> DEFINE s == b.rel
             n == Len(s)
  <2>3. r \in Seq(Nat) /\ Len(r) = n + 1 /\ n \in Nat /\ (\A i \in 1 .. n : r[i] = s[i]) /\ r[n + 1] = pos
    <3>1. s \in Seq(Nat) /\ pos \in Nat
      BY <2>2
    <3> HIDE DEF s
    <3>2. /\ Append(s, pos) \in Seq(Nat) /\ Len(Append(s, pos)) = n + 1
          /\ (\A i \in 1 .. n : Append(s, pos)[i] = s[i]) /\ Append(s, pos)[n + 1] = pos
      BY <3>1, AppendFacts
    <3> QED  BY <3>1, <3>2, LenProperties DEF s
  <2> HIDE DEF r
  <2>4. /\ b2 \in OpenBlock /\ b2.rel = r /\ b2.abs = b.abs /\ b2.addr = b.addr /\ b2.kind = b.kind
        /\ b2.at = b.at
    <3>1. b2 \in OpenBlock /\ b2.rel = r /\ b2.abs = b.abs /\ b2.addr = b.addr /\ b2.kind = b.kind
      BY <2>2, <2>3, BlockType
    <3>2. b2.at = b.at
      OBVIOUS
    <3> QED  BY <3>1, <3>2
  <2>5. \A j \in 1 .. Len(blocks) : B2[j] = IF j = t THEN b2 ELSE blocks[j]
    <3> HIDE DEF b2, t
    <3> QED  BY <1>1, <2>1
  <2>6. Len(B2) = Len(blocks)
    <3> HIDE DEF b2, t
    <3> QED  BY <1>1, <2>1
  <2> HIDE DEF b2, b, t
  <2>7. \A i \in 1 .. n + 1 : i = n + 1 \/ i \in 1 .. n
    BY <2>3
  <2>8. Grown(b, b2, c2, Len(code))
    <3>1. n + 1 >= n /\ \A i \in 1 .. n + 1 : i > n => i = n + 1
      BY <2>3
    <3> HIDE DEF n
    <3> QED  BY <2>3, <2>4, <3>1 DEF Grown, s, n
  <2>9. \A i, k : <<i, k>> \in Pend(b2) <=> <<i, k>> \in Pend(b) \/ (i = pos /\ k = 0)
    <3>1. \A i, k : <<i, k>> \in Pend(b2) <=> (k = 0 /\ \E x \in 1 .. n + 1 : r[x] = i) \/ <<i, k>> \in b.abs
      <4>1. \A i, k : <<i, k>> \in Pend(b2) <=> (k = 0 /\ \E x \in 1 .. Len(b2.rel) : b2.rel[x] = i) \/ <<i, k>> \in b2.abs
        BY <2>4, PendFacts
      <4> QED  BY <2>3, <2>4, <4>1
    <3>2. \A i, k : <<i, k>> \in Pend(b) <=> (k = 0 /\ \E x \in 1 .. n : s[x] = i) \/ <<i, k>> \in b.abs
      BY <2>2, PendFacts DEF s, n
    <3>3. 1 .. n \subseteq 1 .. n + 1 /\ n + 1 \in 1 .. n + 1
      BY <2>3
    <3> HIDE DEF n, s
    <3>4. \A i : (\E x \in 1 .. n + 1 : r[x] = i) <=> i = pos \/ \E x \in 1 .. n : s[x] = i
      BY <2>3, <2>7, <3>3
    <3> QED  BY <3>1, <3>2, <3>4
  <2>10. \A j \in 1 .. Len(blocks) : j # t => Grown(blocks[j], blocks[j], c2, Len(code))
    BY <1>1, GrownSame
  <2>11. \A j \in 1 .. Len(blocks) : Grown(blocks[j], B2[j], c2, Len(code))
    BY <2>5, <2>8, <2>10 DEF b
  <2>12. \A j \in 1 .. Len(blocks) : \A i, k :
               <<i, k>> \in Pend(B2[j]) <=> <<i, k>> \in Pend(blocks[j]) \/ (i = pos /\ k = 0 /\ j = t)
    BY <2>5, <2>9 DEF b
  <2> QED  BY <1>4, <2>6, <2>11, <2>12 DEF t
<1> QED  BY <1>3, <1>4

\* The jump of a br or br_if.
LEMMA BranchJump ==
  ASSUME PatchInv, phase = "compile", NEW f, FlowInv(f), NEW st, CodeInv(f, st),
         NEW pg2, Keeps(prog, pg2, Len(prog)), NEW st2, Keeps(st, st2, Len(prog) + 1), NEW d \in Depths,
         NEW c2, Len(c2) \in Nat, Len(c2) > Len(code), NEW pos \in Len(code) + 1 .. Len(c2),
         NEW B2, Fixed(d, pos, B2), c2[pos] = Ins("jmp", Target(d).addr)
  PROVE  /\ Len(B2) = Len(blocks)
         /\ \A j \in 1 .. Len(blocks) : Grown(blocks[j], B2[j], c2, Len(code))
         /\ \A i \in Nat : i > Len(code) /\ i # pos => Idle(B2, i)
         /\ Jump(pg2, closes, B2, c2, st2, phase, pos, "jmp", Target(d).at)
<1> DEFINE t == Len(blocks) - d
<1>1. /\ Len(B2) = Len(blocks)
      /\ \A j \in 1 .. Len(blocks) : Grown(blocks[j], B2[j], c2, Len(code))
      /\ \A j \in 1 .. Len(blocks) : \A i, k :
               <<i, k>> \in Pend(B2[j]) <=>
                  <<i, k>> \in Pend(blocks[j]) \/ (i = pos /\ k = 0 /\ j = t /\ Target(d).addr = 0)
  BY FixupGrows
<1>2. \A i \in Nat : i > Len(code) => Idle(blocks, i)
  BY IdleAbove
<1>3. pos \in Nat /\ pos > Len(code)
  BY LenProperties DEF PatchInv, CompilerType
<1>4. /\ t \in 1 .. Len(blocks) /\ Target(d) = blocks[t]
      /\ \A op : op # "enter if" => Goal(pg2, closes, st2, phase, op, Target(d).at) = Target(d).addr
  BY LeavingIs
<1> HIDE DEF t
<1>5. \A i \in Nat : i > Len(code) /\ i # pos => Idle(B2, i)
  BY <1>1, <1>2 DEF Idle
<1>6. \A j \in 1 .. Len(B2) : <<pos, 0>> \in Pend(B2[j]) <=> Target(d).addr = 0 /\ B2[j].at = Target(d).at
  <2> SUFFICES ASSUME NEW j \in 1 .. Len(blocks)
               PROVE  <<pos, 0>> \in Pend(B2[j]) <=> Target(d).addr = 0 /\ B2[j].at = Target(d).at
    BY <1>1
  <2>1. <<pos, 0>> \notin Pend(blocks[j])
    BY <1>2, <1>3 DEF Idle
  <2>2. <<pos, 0>> \in Pend(B2[j]) <=> j = t /\ Target(d).addr = 0
    BY <1>1, <2>1
  <2>3. B2[j].at = blocks[j].at
    BY <1>1 DEF Grown
  <2>4. j # t => blocks[j].at # blocks[t].at
    BY <1>4, AtsApart
  <2> QED  BY <1>4, <2>2, <2>3, <2>4
<1>7. Jump(pg2, closes, B2, c2, st2, phase, pos, "jmp", Target(d).at)
  <2>1. \A op, m : Ins(op, m).op = op /\ Ins(op, m).n = m
    BY DEF Ins
  <2>2. c2[pos].op = "jmp" /\ c2[pos].n = Target(d).addr
    BY <2>1
  <2>3. Goal(pg2, closes, st2, phase, c2[pos].op, Target(d).at) = Target(d).addr
    BY <1>4, <2>2
  <2> QED  BY <1>6, <2>2, <2>3 DEF Jump, Goes, Written
<1> QED  BY <1>1, <1>5, <1>7

LEMMA BrCode ==
  ASSUME PatchInv, NEW f, FlowInv(f), NEW st, CodeInv(f, st), family' = family, NEW d \in Depths, CompileBr(d)
  PROVE  \E h, st2 : FlowInv(h)' /\ CodeInv(h, st2)'
<1> DEFINE n == Len(prog) + 1
           p == Len(code) + 1
           c2 == code'
           pg2 == prog'
           B2 == blocks'
           ins == Ins("br", d)
           w == LeaveTo(d)
           jmp == Ins("jmp", Target(d).addr)
           body == w \o <<jmp>>
           a == Target(d).at
           v == Len(w)
<1>1. PICK h : FlowInv(h)' /\ Keeps(f, h, Len(prog) + 1)
  BY BrFlows
<1>2. /\ phase = "compile" /\ phase' = phase /\ closes' = closes
      /\ blocks' = AddFixup(d, Cur + v) /\ Emit(ins, body)
  BY DEF CompileBr, CanCompile
<1>3. PatchInv'
  BY BrStep
<1>4. CompilerType /\ Len(blocks) >= 1 /\ d \in Nat /\ Target(d).addr \in Nat
  <2>1. CompilerType /\ Len(blocks) >= 1
    BY <1>2 DEF PatchInv
  <2> QED  BY <2>1, TargetFacts, BlockType
<1>5. ins \in Bytecode /\ ins.op = "br" /\ ins.n = d
  BY <1>4, InsType
<1>6. w \in Seq(Instr) /\ v \in Nat
  BY <1>4, LeaveToType, StraightIsInstr, SeqMonotonic
<1>7. jmp \in Instr
  <2>1. \A op \in Jumps : Ins(op, Target(d).addr) \in Instr
    BY <1>4, InsType
  <2> QED  BY <2>1 DEF Jumps
<1> HIDE DEF w, jmp
<1>8. /\ body \in Seq(Instr) /\ Len(body) = v + 1 /\ body[v + 1] = jmp
      /\ \A k \in 1 .. v : body[k] = w[k]
  <2> DEFINE u == <<jmp>>
  <2>1. u \in Seq(Instr) /\ Len(u) = 1 /\ u[1] = jmp
    BY <1>7, Tuple1
  <2> HIDE DEF u
  <2>2. w \in Seq(Instr) /\ u \in Seq(Instr)
    BY <1>6, <2>1
  <2>3. /\ w \o u \in Seq(Instr) /\ Len(w \o u) = Len(w) + Len(u)
        /\ \A i \in 1 .. Len(w) : (w \o u)[i] = w[i]
        /\ \A i \in 1 .. Len(u) : (w \o u)[Len(w) + i] = u[i]
    BY <2>2, ConcatFacts
  <2>4. 1 \in 1 .. 1
    OBVIOUS
  <2> QED  BY <2>1, <2>3, <2>4 DEF u
<1> HIDE DEF body
<1>30. body \in Seq(Instr) /\ Emit(ins, body)
  BY <1>2, <1>8
<1>31. Len(body) = v + 1 /\ Len(w) = v
  BY <1>8
<1>9. Len(code) \in Nat /\ Len(c2) = p + v + 1 /\ Len(prog) \in Nat
  <2>1. Len(code) \in Nat /\ Len(c2) = Len(code) + 1 + Len(body)
    BY <1>30, NewCode
  <2>2. Len(prog) \in Nat
    BY <1>2, CurrentFacts
  <2> QED  BY <1>6, <1>31, <2>1, <2>2
<1>32. \A k \in 1 .. Len(body) : c2[p + k] = body[k]
  BY <1>30, NewCode
<1> HIDE DEF v
<1> DEFINE pos == p + v + 1
<1>10. pos \in Len(code) + 1 .. Len(c2) /\ Len(c2) \in Nat /\ Len(c2) > Len(code) /\ Cur + v = pos
  BY <1>6, <1>9 DEF Cur, v
<1>11. c2[pos] = jmp
  <2>1. v + 1 \in 1 .. Len(body) /\ p + (v + 1) = pos
    BY <1>6, <1>9, <1>31 DEF v
  <2> QED  BY <1>8, <1>32, <2>1
<1>12. Keeps(prog, pg2, Len(prog)) /\ pg2[n] = ins
  BY <1>2, <1>5, AppendedProg DEF PatchInv, CompilerType, Emit, Keeps
<1>13. PICK st2 : Longer(st, st2, Len(prog), Len(c2) + 1)
  BY DEF Longer
<1>14. st2[n] = p /\ st2[n + 1] = Len(c2) + 1 /\ Keeps(st, st2, n)
  <2>1. /\ Len(prog) \in Nat /\ st2[Len(prog) + 1] = Len(code) + 1 /\ st2[Len(prog) + 2] = Len(c2) + 1
        /\ Keeps(st, st2, Len(prog) + 1)
    <3> HIDE DEF c2
    <3> QED  BY <1>2, <1>13, NewPlaces
  <2>2. n + 1 = Len(prog) + 2
    BY <2>1
  <2> QED  BY <2>1, <2>2
<1>15. /\ Nth(Now.labels, d).at = a /\ Leaving(d, Valued(pg2, a)) = w
  <2> HIDE DEF pg2, n
  <2>1. Keeps(st, st2, Len(prog) + 1) /\ Keeps(prog, pg2, Len(prog))
    BY <1>12, <1>14 DEF n
  <2> QED  BY <1>2, <2>1, LeavingIs DEF w
<1>16. /\ Len(B2) = Len(blocks)
       /\ \A j \in 1 .. Len(blocks) : Grown(blocks[j], B2[j], c2, Len(code))
       /\ \A i \in Nat : i > Len(code) /\ i # pos => Idle(B2, i)
       /\ Jump(pg2, closes, B2, c2, st2, phase, pos, "jmp", a)
  <2>1. Fixed(d, pos, B2)
    BY <1>2, <1>10 DEF Fixed
  <2> HIDE DEF pg2, n, c2, pos, B2
  <2>2. Keeps(st, st2, Len(prog) + 1) /\ Keeps(prog, pg2, Len(prog)) /\ c2[pos] = Ins("jmp", Target(d).addr)
    BY <1>11, <1>12, <1>14 DEF n, jmp
  <2> QED  BY <1>2, <1>10, <2>1, <2>2, BranchJump
<1>17. Fix(B2, c2, p - 1, <<Ins("dbg", n)>>)
  <2>1. p \in Nat /\ p > Len(code) /\ p # pos
    BY <1>6, <1>9 DEF v
  <2>2. Idle(B2, p)
    BY <1>16, <2>1
  <2> QED  BY <1>30, <2>2, NewDbg
<1>18. Fix(B2, c2, p, w)
  <2>1. 0 \in Nat /\ 0 + Len(w) <= Len(body) /\ Len(w) \in Nat /\ p + 0 = p
    BY <1>6, <1>9, <1>31 DEF v
  <2>2. \A k \in 1 .. Len(w) : body[0 + k] = w[k] /\ Idle(B2, p + 0 + k)
    <3>1. \A k \in 1 .. v : 0 + k = k /\ p + 0 + k \in Nat /\ p + 0 + k > Len(code) /\ p + 0 + k # pos
      BY <1>6, <1>9 DEF v
    <3> QED  BY <1>8, <1>16, <1>31, <3>1
  <2> HIDE DEF B2
  <2>3. Fix(B2, c2, p + 0, w)
    BY <1>30, <2>1, <2>2, NewFixed
  <2> QED  BY <2>1, <2>3
<1>19. Shape(pg2, closes, B2, c2, st2, phase, Now.labels, n, Templates'[n])
  <2>1. ins.op \notin PlainOps
    BY <1>5 DEF PlainOps, Binary, Unary
  <2>2. st2[n + 1] = p + v + 2
    BY <1>6, <1>9, <1>14 DEF v
  <2> DEFINE tp2 == Templates'
  <2>3. Jump(pg2, closes, B2, c2, st2, phase, p + Len(w) + 1, "jmp", a)
    BY <1>16 DEF v
  <2>4. st2[n + 1] = p + Len(w) + 2
    BY <2>2 DEF v
  <2> HIDE DEF n, p, c2, pg2, B2, tp2, a, ins
  <2>5. Shape(pg2, closes, B2, c2, st2, phase, Now.labels, n, tp2[n])
    BY <1>5, <1>12, <1>14, <1>15, <1>17, <1>18, <2>1, <2>3, <2>4 DEF Shape
  <2> QED  BY <2>5 DEF tp2
<1>20. Len(B2) >= Len(blocks) /\ \A j \in 1 .. Len(B2) : ~(j > Len(blocks))
  <2>1. Len(blocks) \in Nat
    BY <1>2, CurrentFacts
  <2> QED  BY <1>16, <2>1
<1>21. CodeInv(h, st2)'
  <2>1. \A j \in 1 .. Len(blocks') : j > Len(blocks) =>
            /\ blocks'[j].at = Len(prog) + 1 /\ BlockCode(prog', code', st2, blocks'[j])
            /\ \A q \in Pend(blocks'[j]) : q[1] > Len(code)
    BY <1>20
  <2> QED  BY <1>1, <1>2, <1>3, <1>5, <1>30, <1>13, <1>16, <1>19, <1>20, <2>1, CodeGrows
<1> QED  BY <1>1, <1>21

LEMMA BrIfCode ==
  ASSUME PatchInv, NEW f, FlowInv(f), NEW st, CodeInv(f, st), family' = family, NEW d \in Depths, CompileBrIf(d)
  PROVE  \E h, st2 : FlowInv(h)' /\ CodeInv(h, st2)'
<1> DEFINE n == Len(prog) + 1
           p == Len(code) + 1
           c2 == code'
           pg2 == prog'
           B2 == blocks'
           ins == Ins("br_if", d)
           w == LeaveTo(d)
           jmp == Ins("jmp", Target(d).addr)
           a == Target(d).at
           v == Len(w)
           jz == Ins("jump if not", Cur + 1 + v + 1)
           body == <<jz>> \o w \o <<jmp>>
<1>1. PICK h : FlowInv(h)' /\ Keeps(f, h, Len(prog) + 1)
  BY BrIfFlows
<1>2. /\ phase = "compile" /\ phase' = phase /\ closes' = closes
      /\ blocks' = AddFixup(d, Cur + 1 + v) /\ Emit(ins, body)
  BY DEF CompileBrIf, CanCompile
<1>3. PatchInv'
  BY BrIfStep
<1>4. CompilerType /\ Len(blocks) >= 1 /\ d \in Nat /\ Target(d).addr \in Nat
  <2>1. CompilerType /\ Len(blocks) >= 1
    BY <1>2 DEF PatchInv
  <2> QED  BY <2>1, TargetFacts, BlockType
<1>5. ins \in Bytecode /\ ins.op = "br_if" /\ ins.n = d
  BY <1>4, InsType
<1>6. w \in Seq(Instr) /\ v \in Nat
  BY <1>4, LeaveToType, StraightIsInstr, SeqMonotonic
<1>7. jmp \in Instr /\ jz \in Instr /\ Cur = p + 1 /\ Len(code) \in Nat
  <2>1. Cur = p + 1 /\ Len(code) \in Nat
    BY <1>4, LenProperties DEF Cur, CompilerType
  <2>2. Cur + 1 + v + 1 \in Int
    BY <1>6, <2>1
  <2>3. \A op \in Jumps : Ins(op, Target(d).addr) \in Instr /\ Ins(op, Cur + 1 + v + 1) \in Instr
    BY <1>4, <2>2, InsType
  <2> QED  BY <2>1, <2>3 DEF Jumps
<1> HIDE DEF w, jmp, jz
<1>8. /\ body \in Seq(Instr) /\ Len(body) = v + 2 /\ body[1] = jz /\ body[v + 2] = jmp
      /\ \A k \in 1 .. v : body[1 + k] = w[k]
  <2> DEFINE t == <<jz>>
             u == <<jmp>>
  <2>1. u \in Seq(Instr) /\ Len(u) = 1 /\ u[1] = jmp /\ t \in Seq(Instr) /\ Len(t) = 1 /\ t[1] = jz
    BY <1>7, Tuple1
  <2> HIDE DEF t, u
  <2>2. w \in Seq(Instr) /\ t \in Seq(Instr)
    BY <1>6, <2>1
  <2>3. /\ t \o w \in Seq(Instr) /\ Len(t \o w) = Len(t) + Len(w)
        /\ \A i \in 1 .. Len(t) : (t \o w)[i] = t[i]
        /\ \A i \in 1 .. Len(w) : (t \o w)[Len(t) + i] = w[i]
    BY <2>2, ConcatFacts
  <2> DEFINE x == t \o w
  <2> HIDE DEF x
  <2>4. x \in Seq(Instr) /\ u \in Seq(Instr)
    BY <2>1, <2>3 DEF x
  <2>5. Len(x) = 1 + v /\ x[1] = jz /\ \A i \in 1 .. v : x[1 + i] = w[i]
    <3>1. 1 \in 1 .. 1
      OBVIOUS
    <3> QED  BY <2>1, <2>3, <3>1 DEF x
  <2>6. /\ x \o u \in Seq(Instr) /\ Len(x \o u) = Len(x) + Len(u)
        /\ \A i \in 1 .. Len(x) : (x \o u)[i] = x[i]
        /\ \A i \in 1 .. Len(u) : (x \o u)[Len(x) + i] = u[i]
    BY <2>4, ConcatFacts
  <2> DEFINE y == x \o u
  <2> HIDE DEF y
  <2>7. y \in Seq(Instr) /\ Len(y) = v + 2 /\ y[1] = jz /\ y[v + 2] = jmp /\ \A k \in 1 .. v : y[1 + k] = w[k]
    <3> HIDE DEF v
    <3>1. 1 \in 1 .. 1 /\ 1 \in 1 .. 1 + v /\ (\A k \in 1 .. v : 1 + k \in 1 .. 1 + v) /\ 1 + v + 1 = v + 2
      BY <1>6 DEF v
    <3>2. y[1 + v + 1] = jmp
      BY <2>1, <2>5, <2>6, <3>1 DEF y
    <3> QED  BY <2>1, <2>5, <2>6, <3>1, <3>2 DEF y
  <2> QED  BY <2>7 DEF y, x, t, u
<1> HIDE DEF body
<1>30. body \in Seq(Instr) /\ Emit(ins, body)
  BY <1>2, <1>8
<1>31. Len(body) = v + 2 /\ Len(w) = v
  BY <1>8
<1>9. Len(code) \in Nat /\ Len(c2) = p + v + 2 /\ Len(prog) \in Nat
  <2>1. Len(code) \in Nat /\ Len(c2) = Len(code) + 1 + Len(body)
    BY <1>30, NewCode
  <2>2. Len(prog) \in Nat
    BY <1>2, CurrentFacts
  <2> QED  BY <1>6, <1>31, <2>1, <2>2
<1>32. \A k \in 1 .. Len(body) : c2[p + k] = body[k]
  BY <1>30, NewCode
<1> HIDE DEF v
<1> DEFINE pos == p + v + 2
<1>10. pos \in Len(code) + 1 .. Len(c2) /\ Len(c2) \in Nat /\ Len(c2) > Len(code) /\ Cur + 1 + v = pos
  BY <1>6, <1>7, <1>9 DEF v
<1>11. c2[pos] = jmp
  <2>1. v + 2 \in 1 .. Len(body) /\ p + (v + 2) = pos
    BY <1>6, <1>9, <1>31 DEF v
  <2> QED  BY <1>8, <1>32, <2>1
<1>12. Keeps(prog, pg2, Len(prog)) /\ pg2[n] = ins
  BY <1>2, <1>5, AppendedProg DEF PatchInv, CompilerType, Emit, Keeps
<1>13. PICK st2 : Longer(st, st2, Len(prog), Len(c2) + 1)
  BY DEF Longer
<1>14. st2[n] = p /\ st2[n + 1] = Len(c2) + 1 /\ Keeps(st, st2, n)
  <2>1. /\ Len(prog) \in Nat /\ st2[Len(prog) + 1] = Len(code) + 1 /\ st2[Len(prog) + 2] = Len(c2) + 1
        /\ Keeps(st, st2, Len(prog) + 1)
    <3> HIDE DEF c2
    <3> QED  BY <1>2, <1>13, NewPlaces
  <2>2. n + 1 = Len(prog) + 2
    BY <2>1
  <2> QED  BY <2>1, <2>2
<1>15. /\ Nth(Now.labels, d).at = a /\ Leaving(d, Valued(pg2, a)) = w
  <2> HIDE DEF pg2, n
  <2>1. Keeps(st, st2, Len(prog) + 1) /\ Keeps(prog, pg2, Len(prog))
    BY <1>12, <1>14 DEF n
  <2> QED  BY <1>2, <2>1, LeavingIs DEF w
<1>16. /\ Len(B2) = Len(blocks)
       /\ \A j \in 1 .. Len(blocks) : Grown(blocks[j], B2[j], c2, Len(code))
       /\ \A i \in Nat : i > Len(code) /\ i # pos => Idle(B2, i)
       /\ Jump(pg2, closes, B2, c2, st2, phase, pos, "jmp", a)
  <2>1. Fixed(d, pos, B2)
    BY <1>2, <1>10 DEF Fixed
  <2> HIDE DEF pg2, n, c2, pos, B2
  <2>2. Keeps(st, st2, Len(prog) + 1) /\ Keeps(prog, pg2, Len(prog)) /\ c2[pos] = Ins("jmp", Target(d).addr)
    BY <1>11, <1>12, <1>14 DEF n, jmp
  <2> QED  BY <1>2, <1>10, <2>1, <2>2, BranchJump
<1>17. Fix(B2, c2, p - 1, <<Ins("dbg", n)>>)
  <2>1. p \in Nat /\ p > Len(code) /\ p # pos
    BY <1>6, <1>9 DEF v
  <2>2. Idle(B2, p)
    BY <1>16, <2>1
  <2> QED  BY <1>30, <2>2, NewDbg
<1>18. Fix(B2, c2, p + 1, w)
  <2>1. 1 \in Nat /\ 1 + Len(w) <= Len(body) /\ Len(w) \in Nat
    BY <1>6, <1>9, <1>31 DEF v
  <2>2. \A k \in 1 .. Len(w) : body[1 + k] = w[k] /\ Idle(B2, p + 1 + k)
    <3>1. \A k \in 1 .. v : p + 1 + k \in Nat /\ p + 1 + k > Len(code) /\ p + 1 + k # pos
      BY <1>6, <1>9 DEF v
    <3> QED  BY <1>8, <1>16, <1>31, <3>1
  <2> HIDE DEF B2
  <2> QED  BY <1>30, <2>1, <2>2, NewFixed
<1>22. Fix(B2, c2, p, <<jz>>)
  <2> DEFINE s == <<jz>>
  <2>1. Len(s) = 1 /\ s[1] = jz
    BY Tuple1
  <2> HIDE DEF s
  <2>2. 0 \in Nat /\ 0 + Len(s) <= Len(body) /\ Len(s) \in Nat /\ p + 0 = p
    BY <1>6, <1>9, <1>31, <2>1 DEF v
  <2>3. \A k \in 1 .. Len(s) : body[0 + k] = s[k] /\ Idle(B2, p + 0 + k)
    <3>1. \A k \in 1 .. 1 : k = 1 /\ 0 + k = k /\ p + 0 + k \in Nat /\ p + 0 + k > Len(code) /\ p + 0 + k # pos
      BY <1>6, <1>9 DEF v
    <3> QED  BY <1>8, <1>16, <2>1, <3>1
  <2> HIDE DEF B2
  <2>4. Fix(B2, c2, p + 0, s)
    BY <1>30, <2>2, <2>3, NewFixed
  <2> QED  BY <2>2, <2>4 DEF s
<1>19. Shape(pg2, closes, B2, c2, st2, phase, Now.labels, n, Templates'[n])
  <2>1. ins.op \notin PlainOps
    BY <1>5 DEF PlainOps, Binary, Unary
  <2>2. st2[n + 1] = p + v + 3
    BY <1>6, <1>9, <1>14 DEF v
  <2> DEFINE tp2 == Templates'
  <2>3. Jump(pg2, closes, B2, c2, st2, phase, p + Len(w) + 2, "jmp", a)
    BY <1>16 DEF v
  <2>4. st2[n + 1] = p + Len(w) + 3
    BY <2>2 DEF v
  <2>6. Fix(B2, c2, p, <<Ins("jump if not", p + Len(w) + 3)>>)
    <3>1. Cur + 1 + v + 1 = p + v + 3
      BY <1>6, <1>7 DEF v
    <3> QED  BY <1>22, <3>1 DEF jz, v
  <2> HIDE DEF n, p, c2, pg2, B2, tp2, a, ins
  <2>5. Shape(pg2, closes, B2, c2, st2, phase, Now.labels, n, tp2[n])
    BY <1>5, <1>12, <1>14, <1>15, <1>17, <1>18, <2>1, <2>3, <2>4, <2>6 DEF Shape
  <2> QED  BY <2>5 DEF tp2
<1>20. Len(B2) >= Len(blocks) /\ \A j \in 1 .. Len(B2) : ~(j > Len(blocks))
  <2>1. Len(blocks) \in Nat
    BY <1>2, CurrentFacts
  <2> QED  BY <1>16, <2>1
<1>21. CodeInv(h, st2)'
  <2>1. \A j \in 1 .. Len(blocks') : j > Len(blocks) =>
            /\ blocks'[j].at = Len(prog) + 1 /\ BlockCode(prog', code', st2, blocks'[j])
            /\ \A q \in Pend(blocks'[j]) : q[1] > Len(code)
    BY <1>20
  <2> QED  BY <1>1, <1>2, <1>3, <1>5, <1>30, <1>13, <1>16, <1>19, <1>20, <2>1, CodeGrows
<1> QED  BY <1>1, <1>21

\* The table of a br_table, and what it leaves with the open blocks.
TableIs(ins, c) ==
    /\ c.op = "br table" /\ c.n = (IF Target(ins.n).type # "empty_block" THEN 1 ELSE 0)
    /\ Len(c.ts) = Len(ins.ts) + 1
    /\ \A k \in 1 .. Len(ins.ts) + 1 :
          Dist(ins, k) \in Depths /\ c.ts[k] = [dist |-> Dist(ins, k), addr |-> Target(Dist(ins, k)).addr]
TableGrows(ins) ==
    \A j \in 1 .. Len(blocks) :
        /\ blocks'[j] \in OpenBlock
        /\ blocks'[j].at = blocks[j].at /\ blocks'[j].kind = blocks[j].kind
        /\ blocks'[j].rel = blocks[j].rel /\ blocks'[j].addr = blocks[j].addr
        /\ blocks'[j].abs = blocks[j].abs \cup
              {<<Cur, k>> : k \in {i \in 1 .. Len(ins.ts) + 1 :
                                     Dist(ins, i) = Len(blocks) - j /\ Target(Dist(ins, i)).addr = 0}}

TableIns(ins, d, ts) == ins = [op |-> "br_table", n |-> d, ts |-> ts]

LEMMA TableFacts ==
  ASSUME PatchInv, NEW d \in Depths, NEW ts \in Seq(Depths), CompileBrTable(ts, d),
         NEW ins, TableIns(ins, d, ts)
  PROVE  /\ ins \in Bytecode
         /\ Len(blocks') = Len(blocks) /\ TableGrows(ins)
         /\ \E c \in Instr : Emit(ins, <<c>>) /\ TableIs(ins, c)
<1> DEFINE L == Len(code)
           dist(i) == IF i = 1 THEN d ELSE ts[i - 1]
           entries == [i \in 1 .. Len(ts) + 1 |->
                          LET t == IF i = 1 THEN d ELSE ts[i - 1]
                          IN  [dist |-> t, addr |-> Target(t).addr]]
           at(k) == {i \in 1 .. Len(entries) : entries[i].dist = k /\ entries[i].addr = 0}
           c == [op |-> "br table", ts |-> entries,
                 n |-> IF Target(d).type # "empty_block" THEN 1 ELSE 0]
           B(j) == [blocks[j] EXCEPT !.abs = @ \cup {<<Cur, i>> : i \in at(Len(blocks) - j)}]
<1>1. /\ phase = "compile" /\ phase' = phase /\ height' = height
      /\ prog' = Append(prog, ins) /\ code' = code \o <<Ins("dbg", Here), c>>
      /\ blocks' = [j \in 1 .. Len(blocks) |-> B(j)]
  BY DEF CompileBrTable, CanCompile, TableIns
<1>2. CompilerType /\ Len(blocks) >= 1 /\ BlocksOK
  BY <1>1 DEF PatchInv
<1>3. /\ L \in Nat /\ Len(prog) \in Nat /\ Len(blocks) \in Nat /\ Len(ts) \in Nat /\ height \in Int
      /\ code \in Seq(Instr) /\ blocks \in Seq(OpenBlock)
  BY <1>2, LenProperties DEF CompilerType
<1>4. \A t \in Depths : /\ t \in Nat /\ Len(blocks) - t \in 1 .. Len(blocks)
                        /\ Target(t).addr \in Nat /\ Target(t).addr <= L + 1
  <2> SUFFICES ASSUME NEW t \in Depths
               PROVE  /\ t \in Nat /\ Len(blocks) - t \in 1 .. Len(blocks)
                      /\ Target(t).addr \in Nat /\ Target(t).addr <= L + 1
    OBVIOUS
  <2>1. t \in Nat /\ Len(blocks) - t \in 1 .. Len(blocks) /\ Target(t) \in OpenBlock
    BY <1>2, TargetFacts
  <2>2. Target(t).addr \in Nat
    BY <2>1, BlockType
  <2>3. Target(t).addr <= L + 1
    BY <1>2, <2>1 DEF BlocksOK, Target
  <2> QED  BY <2>1, <2>2, <2>3
<1>5. \A i \in 1 .. Len(ts) + 1 :
         dist(i) \in Depths /\ entries[i] = [dist |-> dist(i), addr |-> Target(dist(i)).addr]
  <2> SUFFICES ASSUME NEW i \in 1 .. Len(ts) + 1 PROVE dist(i) \in Depths
    OBVIOUS
  <2>1. i # 1 => i - 1 \in 1 .. Len(ts)
    BY <1>3
  <2> QED  BY <2>1, ElementOfSeq
<1> HIDE DEF dist
<1>6. entries \in Seq(Entry) /\ Len(entries) = Len(ts) + 1
  <2>1. \A i \in 1 .. Len(ts) + 1 : entries[i] \in Entry
    BY <1>4, <1>5 DEF Entry
  <2>2. entries \in [1 .. Len(ts) + 1 -> Entry]
    <3> DEFINE e(i) == LET t == IF i = 1 THEN d ELSE ts[i - 1]
                       IN  [dist |-> t, addr |-> Target(t).addr]
    <3>1. entries = [i \in 1 .. Len(ts) + 1 |-> e(i)]
      OBVIOUS
    <3>2. \A i \in 1 .. Len(ts) + 1 : e(i) \in Entry
      BY <2>1
    <3> HIDE DEF entries, e
    <3> QED  BY <3>1, <3>2
  <2> HIDE DEF entries
  <2> QED  BY <1>3, <2>2, SeqElements
<1>7. /\ c \in Instr /\ c.op = "br table" /\ c.ts = entries
      /\ c.n = (IF Target(d).type # "empty_block" THEN 1 ELSE 0)
  <2> HIDE DEF entries
  <2> QED  BY <1>6 DEF Instr
<1>8. ins \in Bytecode
  <2>1. d \in Nat
    BY <1>4
  <2>2. ts \in Seq(Nat)
    BY <1>4, SeqMonotonic
  <2> QED  BY <2>1, <2>2 DEF Bytecode, TableIns
<1>9. \A k : at(k) = {i \in 1 .. Len(ts) + 1 : dist(i) = k /\ Target(dist(i)).addr = 0}
  <2>1. Len(entries) = Len(ts) + 1
    BY <1>6
  <2>2. \A i \in 1 .. Len(ts) + 1 : entries[i].dist = dist(i) /\ entries[i].addr = Target(dist(i)).addr
    BY <1>5
  <2> HIDE DEF entries
  <2> QED  BY <2>1, <2>2
<1>10. \A k : at(k) \subseteq Nat
  BY <1>6
<1> HIDE DEF at
<1>11. ASSUME NEW j \in 1 .. Len(blocks)
       PROVE  /\ blocks'[j] = B(j) /\ B(j) \in OpenBlock /\ blocks[j] \in OpenBlock
              /\ B(j).rel = blocks[j].rel /\ B(j).addr = blocks[j].addr /\ B(j).kind = blocks[j].kind
              /\ B(j).at = blocks[j].at
              /\ B(j).abs = blocks[j].abs \cup {<<Cur, i>> : i \in at(Len(blocks) - j)}
  <2>1. blocks'[j] = B(j) /\ blocks[j] \in OpenBlock
    BY <1>1, <1>3, ElementOfSeq
  <2>2. {<<Cur, i>> : i \in at(Len(blocks) - j)} \subseteq Nat \X Nat
    BY <1>3, <1>10 DEF Cur
  <2> QED  BY <2>1, <2>2 DEF OpenBlock
<1>12. blocks' \in Seq(OpenBlock) /\ Len(blocks') = Len(blocks)
  <2>1. blocks' \in [1 .. Len(blocks) -> OpenBlock]
    <3>1. \A j \in 1 .. Len(blocks) : B(j) \in OpenBlock
      BY <1>11
    <3> HIDE DEF B
    <3> QED  BY <1>1, <3>1
  <2> QED  BY <1>3, <2>1, SeqElements
<1> DEFINE dd(i) == Dist(ins, i)
<1>14. ins.op = "br_table" /\ ins.n = d /\ ins.ts = ts
  BY DEF TableIns
<1>13. \A i : dd(i) = dist(i)
  BY <1>14 DEF Dist, dist
<1> HIDE DEF dist, B, c, entries, at
<1>15. Emit(ins, <<c>>)
  <2>1. Ins("dbg", Here) \in Instr
    <3>1. \A op \in StraightOps : Ins(op, Here) \in Instr
      BY <1>3, InsType DEF Here
    <3> QED  BY <3>1 DEF StraightOps
  <2>2. code \o <<Ins("dbg", Here), c>> = code \o <<Ins("dbg", Here)>> \o <<c>>
    <3>1. \A s \in Seq(Instr), a, b \in Instr : s \o <<a, b>> = s \o <<a>> \o <<b>>
      BY TuplesConcat
    <3> QED  BY <1>3, <1>7, <2>1, <3>1, Zenon
  <2> QED  BY <1>1, <2>2 DEF Emit
<1>16. TableIs(ins, c)
  BY <1>5, <1>6, <1>7, <1>13, <1>14 DEF TableIs
<1>17. TableGrows(ins)
  <2> SUFFICES ASSUME NEW j \in 1 .. Len(blocks)
               PROVE  /\ blocks'[j] \in OpenBlock
                      /\ blocks'[j].at = blocks[j].at /\ blocks'[j].kind = blocks[j].kind
                      /\ blocks'[j].rel = blocks[j].rel /\ blocks'[j].addr = blocks[j].addr
                      /\ blocks'[j].abs = blocks[j].abs \cup
                            {<<Cur, k>> : k \in {i \in 1 .. Len(ins.ts) + 1 :
                                Dist(ins, i) = Len(blocks) - j /\ Target(Dist(ins, i)).addr = 0}}
    BY DEF TableGrows
  <2>1. at(Len(blocks) - j) = {i \in 1 .. Len(ins.ts) + 1 :
                                Dist(ins, i) = Len(blocks) - j /\ Target(Dist(ins, i)).addr = 0}
    BY <1>9, <1>13, <1>14
  <2> QED  BY <1>11, <2>1
<1> QED  BY <1>7, <1>8, <1>12, <1>15, <1>16, <1>17

LEMMA BrTableCode ==
  ASSUME PatchInv, NEW f, FlowInv(f), NEW st, CodeInv(f, st), family' = family, NEW d \in Depths,
         NEW ts \in Seq(Depths), "br_table" \in family.branches, CompileBrTable(ts, d)
  PROVE  \E h, st2 : FlowInv(h)' /\ CodeInv(h, st2)'
<1> DEFINE n == Len(prog) + 1
           p == Len(code) + 1
           c2 == code'
           pg2 == prog'
           B2 == blocks'
           D == Len(blocks)
<1>1. PICK h : FlowInv(h)' /\ Keeps(f, h, Len(prog) + 1)
  BY BrTableFlows
<1>2. phase = "compile" /\ phase' = phase /\ closes' = closes
  BY DEF CompileBrTable, CanCompile
<1>3. PatchInv'
  BY BrTableStep
<1>4. PICK ins : TableIns(ins, d, ts)
  BY DEF TableIns
<1>5. ins.op = "br_table" /\ ins.n = d /\ ins.ts = ts
  BY <1>4 DEF TableIns
<1>6. ins \in Bytecode /\ Len(B2) = D /\ TableGrows(ins)
  BY <1>4, TableFacts
<1>7. PICK c \in Instr : Emit(ins, <<c>>) /\ TableIs(ins, c)
  BY <1>4, TableFacts
<1> DEFINE body == <<c>>
<1>8. body \in Seq(Instr) /\ Len(body) = 1 /\ body[1] = c
  BY Tuple1
<1> HIDE DEF body
<1>30. body \in Seq(Instr) /\ Emit(ins, body)
  BY <1>7, <1>8 DEF body
<1>9. Len(code) \in Nat /\ Len(c2) = p + 1 /\ Len(prog) \in Nat /\ D \in Nat /\ Len(ts) \in Nat
  <2>1. Len(code) \in Nat /\ Len(c2) = Len(code) + 1 + Len(body)
    BY <1>30, NewCode
  <2>2. Len(prog) \in Nat /\ Len(blocks) \in Nat
    BY <1>2, CurrentFacts
  <2> QED  BY <1>8, <2>1, <2>2, LenProperties
<1>10. c2[p + 1] = c
  <2>1. \A k \in 1 .. Len(body) : c2[p + k] = body[k]
    BY <1>30, NewCode
  <2>2. 1 \in 1 .. Len(body)
    BY <1>8
  <2> QED  BY <1>8, <2>1, <2>2
<1>11. Len(prog') = n /\ Keeps(prog, pg2, Len(prog)) /\ pg2[n] = ins
  BY <1>6, <1>30, AppendedProg DEF PatchInv, CompilerType, Emit, Keeps
<1>12. PICK st2 : Longer(st, st2, Len(prog), Len(c2) + 1)
  BY DEF Longer
<1>13. st2[n] = p /\ st2[n + 1] = Len(c2) + 1 /\ Keeps(st, st2, n)
  <2>1. /\ Len(prog) \in Nat /\ st2[Len(prog) + 1] = Len(code) + 1 /\ st2[Len(prog) + 2] = Len(c2) + 1
        /\ Keeps(st, st2, Len(prog) + 1)
    <3> HIDE DEF c2
    <3> QED  BY <1>2, <1>12, NewPlaces
  <2>2. n + 1 = Len(prog) + 2
    BY <2>1
  <2> QED  BY <2>1, <2>2
<1>14. \A t \in Depths : /\ D - t \in 1 .. D /\ t \in Nat
                         /\ Nth(Now.labels, t).at = Target(t).at /\ Target(t) = blocks[D - t]
                         /\ Valued(pg2, Target(t).at) <=> Target(t).type # "empty_block"
                         /\ Goal(pg2, closes, st2, phase, "br table", Target(t).at) = Target(t).addr
  <2> HIDE DEF pg2, n
  <2>1. Keeps(st, st2, Len(prog) + 1) /\ Keeps(prog, pg2, Len(prog))
    BY <1>11, <1>13 DEF n
  <2>2. \A t \in Depths : /\ D - t \in 1 .. D /\ t \in Nat
                          /\ Nth(Now.labels, t).at = Target(t).at /\ Target(t) = blocks[D - t]
                          /\ Valued(pg2, Target(t).at) <=> Target(t).type # "empty_block"
                          /\ \A op : op # "enter if" => Goal(pg2, closes, st2, phase, op, Target(t).at) = Target(t).addr
    BY <1>2, <2>1, LeavingIs
  <2>3. "br table" # "enter if"
    OBVIOUS
  <2> QED  BY <2>2, <2>3
<1>15. \A k \in 1 .. Len(ts) + 1 : Dist(ins, k) \in Depths /\ c.ts[k].dist = Dist(ins, k)
                                   /\ c.ts[k].addr = Target(Dist(ins, k)).addr
  <2>1. \A k \in 1 .. Len(ts) + 1 :
           Dist(ins, k) \in Depths /\ c.ts[k] = [dist |-> Dist(ins, k), addr |-> Target(Dist(ins, k)).addr]
    BY <1>5, <1>7, Zenon DEF TableIs
  <2> SUFFICES ASSUME NEW k \in 1 .. Len(ts) + 1
               PROVE  Dist(ins, k) \in Depths /\ c.ts[k].dist = Dist(ins, k)
                      /\ c.ts[k].addr = Target(Dist(ins, k)).addr
    OBVIOUS
  <2> DEFINE t == Dist(ins, k)
             g == Target(t).addr
  <2>2. t \in Depths /\ c.ts[k] = [dist |-> t, addr |-> g]
    BY <2>1
  <2> HIDE DEF t, g
  <2>3. t \in Depths /\ c.ts[k].dist = t /\ c.ts[k].addr = g
    BY <2>2
  <2> QED  BY <2>3 DEF t, g
<1>16. c.op = "br table" /\ Len(c.ts) = Len(ts) + 1 /\ c.n = (IF Target(d).type # "empty_block" THEN 1 ELSE 0)
  BY <1>5, <1>7 DEF TableIs
<1> DEFINE new(j) == {k \in 1 .. Len(ts) + 1 : Dist(ins, k) = D - j /\ Target(Dist(ins, k)).addr = 0}
<1>17. \A j \in 1 .. D : /\ B2[j] \in OpenBlock /\ blocks[j] \in OpenBlock
                         /\ B2[j].at = blocks[j].at /\ B2[j].kind = blocks[j].kind
                         /\ B2[j].rel = blocks[j].rel /\ B2[j].addr = blocks[j].addr
                         /\ B2[j].abs = blocks[j].abs \cup {<<p + 1, k>> : k \in new(j)}
  <2>1. Cur = p + 1
    BY <1>9 DEF Cur
  <2>2. \A j \in 1 .. D : blocks[j] \in OpenBlock
    BY ElementOfSeq DEF PatchInv, CompilerType
  <2> QED  BY <1>5, <1>6, <2>1, <2>2 DEF TableGrows
<1>18. \A j \in 1 .. D : new(j) \subseteq 1 .. Len(ts) + 1
  OBVIOUS
<1>19. ASSUME NEW j \in 1 .. D PROVE Grown(blocks[j], B2[j], c2, Len(code))
  <2>1. Len(blocks[j].rel) \in Nat
    BY <1>17, BlockType
  <2>2. Len(blocks[j].rel) >= Len(blocks[j].rel) /\ \A k \in 1 .. Len(blocks[j].rel) : ~(k > Len(blocks[j].rel))
    BY <2>1
  <2>3. p + 1 \in Len(code) + 1 .. Len(c2)
    BY <1>9
  <2>4. Len(c2[p + 1].ts) = Len(ts) + 1
    BY <1>10, <1>16
  <2>5. \A q \in {<<p + 1, k>> : k \in new(j)} : q[1] \in Len(code) + 1 .. Len(c2) /\ q[2] \in 1 .. Len(c2[q[1]].ts)
    <3> HIDE DEF new, c2, p
    <3> QED  BY <1>18, <2>3, <2>4
  <2> HIDE DEF new, c2, p, B2
  <2> QED  BY <1>17, <2>2, <2>5 DEF Grown
<1>20. \A i \in Nat : i > Len(code) => Idle(blocks, i)
  BY IdleAbove
<1>21. \A j \in 1 .. D : \A i, k : <<i, k>> \in Pend(B2[j]) <=> <<i, k>> \in Pend(blocks[j]) \/ (i = p + 1 /\ k \in new(j))
  <2> SUFFICES ASSUME NEW j \in 1 .. D
               PROVE  \A i, k : <<i, k>> \in Pend(B2[j]) <=> <<i, k>> \in Pend(blocks[j]) \/ (i = p + 1 /\ k \in new(j))
    OBVIOUS
  <2>1. \A i, k : <<i, k>> \in Pend(B2[j]) <=> (k = 0 /\ \E x \in 1 .. Len(B2[j].rel) : B2[j].rel[x] = i) \/ <<i, k>> \in B2[j].abs
    BY <1>17, PendFacts
  <2>2. \A i, k : <<i, k>> \in Pend(blocks[j]) <=>
            (k = 0 /\ \E x \in 1 .. Len(blocks[j].rel) : blocks[j].rel[x] = i) \/ <<i, k>> \in blocks[j].abs
    BY <1>17, PendFacts
  <2> DEFINE N2 == new(j)
             q == p + 1
  <2>3. B2[j].rel = blocks[j].rel /\ B2[j].abs = blocks[j].abs \cup {<<q, k>> : k \in N2}
    BY <1>17
  <2> HIDE DEF N2, q, B2
  <2>4. \A i, k : <<i, k>> \in B2[j].abs <=> <<i, k>> \in blocks[j].abs \/ (i = q /\ k \in N2)
    BY <2>3
  <2>5. \A i, k : <<i, k>> \in Pend(B2[j]) <=> <<i, k>> \in Pend(blocks[j]) \/ (i = q /\ k \in N2)
    BY <2>1, <2>2, <2>3, <2>4
  <2> QED  BY <2>5 DEF N2, q, B2
<1>22. \A j \in 1 .. D : \A k : <<p + 1, k>> \in Pend(B2[j]) => k \in new(j)
  <2>1. p + 1 \in Nat /\ p + 1 > Len(code)
    BY <1>9
  <2>2. \A j \in 1 .. D : blocks[j] \in OpenBlock
    BY <1>17
  <2>3. \A j \in 1 .. D : \A k : <<p + 1, k>> \notin Pend(blocks[j])
    <3> SUFFICES ASSUME NEW j \in 1 .. D, NEW k, <<p + 1, k>> \in Pend(blocks[j]) PROVE FALSE
      OBVIOUS
    <3>1. <<p + 1, k>> \in Nat \X Nat
      BY <2>2, PendFacts
    <3>2. k \in Nat
      BY <3>1
    <3> QED  BY <1>20, <2>1, <3>2 DEF Idle
  <2> HIDE DEF new, B2
  <2> QED  BY <1>21, <2>3
<1>23. Fix(B2, c2, p - 1, <<Ins("dbg", n)>>)
  <2>1. p \in Nat /\ p > Len(code) /\ p # p + 1
    BY <1>9
  <2> HIDE DEF B2, new
  <2>2. Idle(B2, p)
    BY <1>6, <1>20, <1>21, <2>1 DEF Idle, B2
  <2> QED  BY <1>30, <2>2, NewDbg
<1>24. Free(B2, p + 1)
  <2>1. \A j \in 1 .. D : 0 \notin new(j)
    OBVIOUS
  <2> HIDE DEF new, B2
  <2> QED  BY <1>6, <1>22, <2>1 DEF Free, B2
<1>25. ASSUME NEW k \in 1 .. Len(ts) + 1
       PROVE  Goes(pg2, closes, B2, c2, st2, phase, p + 1, k, Nth(Now.labels, Dist(ins, k)).at)
  <2> DEFINE t == Dist(ins, k)
             g == Target(t).addr
             a == Target(t).at
  <2>1. t \in Depths /\ c.ts[k].dist = t /\ c.ts[k].addr = g
    BY <1>15
  <2>2. D - t \in 1 .. D /\ t \in Nat /\ Nth(Now.labels, t).at = a /\ Target(t) = blocks[D - t]
        /\ Goal(pg2, closes, st2, phase, "br table", a) = g
    BY <1>14, <2>1
  <2>3. Written(c2, p + 1, k) = g
    <3>1. k # 0
      BY <1>9
    <3> QED  BY <1>10, <2>1, <3>1 DEF Written
  <2>4. ASSUME NEW j \in 1 .. D PROVE <<p + 1, k>> \in Pend(B2[j]) <=> g = 0 /\ B2[j].at = a
    <3>1. <<p + 1, k>> \in Pend(B2[j]) <=> k \in new(j)
      <4> HIDE DEF B2, new
      <4> QED  BY <1>21, <1>22
    <3>2. k \in new(j) <=> t = D - j /\ g = 0
      OBVIOUS
    <3>3. t = D - j <=> j = D - t
      <4>1. t \in Nat /\ D \in Nat
        BY <1>9, <2>2
      <4> HIDE DEF t, D
      <4> QED  BY <4>1
    <3>4. B2[j].at = blocks[j].at
      BY <1>17
    <3>5. j # D - t => blocks[j].at # blocks[D - t].at
      BY <1>2, <2>2, AtsApart
    <3> QED  BY <2>2, <3>1, <3>2, <3>3, <3>4, <3>5
  <2> HIDE DEF t, g, a, B2, pg2, c2, p, D
  <2>5. Goes(pg2, closes, B2, c2, st2, phase, p + 1, k, a)
    BY <1>6, <1>10, <1>16, <2>2, <2>3, <2>4 DEF Goes, D, c2, p, B2
  <2> QED  BY <2>2, <2>5 DEF t
<1> HIDE DEF new
<1>26. Shape(pg2, closes, B2, c2, st2, phase, Now.labels, n, Templates'[n])
  <2>1. ins.op \notin PlainOps
    BY <1>5 DEF PlainOps, Binary, Unary
  <2>2. st2[n + 1] = p + 2
    BY <1>9, <1>13
  <2>3. c2[p + 1].n = IF Valued(pg2, Nth(Now.labels, d).at) THEN 1 ELSE 0
    BY <1>10, <1>14, <1>16
  <2> DEFINE tp2 == Templates'
  <2> HIDE DEF n, p, c2, pg2, B2, tp2
  <2>4. Shape(pg2, closes, B2, c2, st2, phase, Now.labels, n, tp2[n])
    BY <1>5, <1>10, <1>11, <1>13, <1>15, <1>16, <1>23, <1>24, <1>25, <2>1, <2>2, <2>3 DEF Shape
  <2> QED  BY <2>4 DEF tp2
<1>27. Len(B2) >= Len(blocks) /\ \A j \in 1 .. Len(B2) : ~(j > Len(blocks))
  BY <1>6, <1>9
<1>28. CodeInv(h, st2)'
  <2>1. \A j \in 1 .. Len(blocks') : j > Len(blocks) =>
            /\ blocks'[j].at = Len(prog) + 1 /\ BlockCode(prog', code', st2, blocks'[j])
            /\ \A q \in Pend(blocks'[j]) : q[1] > Len(code)
    BY <1>27
  <2> QED  BY <1>1, <1>2, <1>3, <1>6, <1>30, <1>12, <1>19, <1>26, <1>27, <2>1, CodeGrows
<1> QED  BY <1>1, <1>28

-----------------------------------------------------------------------------

-----------------------------------------------------------------------------
(* else and end: the code is laid out with its branches as they were, then *)
(* some of them are patched.                                               *)

LEMMA LaidOn ==
  ASSUME PatchInv, phase = "compile", family' = family, NEW f, FlowInv(f), NEW h, Keeps(f, h, Len(prog) + 1),
         NEW st, CodeInv(f, st), NEW ins \in Bytecode, prog' = Append(prog, ins),
         NEW c2, Len(c2) \in Nat, Len(c2) >= Len(code), Keeps(code, c2, Len(code)),
         NEW st2, Longer(st, st2, Len(prog), Len(c2) + 1),
         NEW B2 \in Seq(OpenBlock), Len(B2) = Len(blocks),
         \A j \in 1 .. Len(blocks) : Grown(blocks[j], B2[j], c2, Len(code)),
         Shape(prog', closes, B2, c2, st2, phase, Now.labels, Len(prog) + 1, Templates'[Len(prog) + 1])
  PROVE  Laid(prog', closes, B2, c2, h, st2, phase, FnPrologue, Templates')
<1> DEFINE pg2 == prog'
           tp2 == Templates'
           m == Len(prog)
           D == Len(blocks)
           n == m + 1
<1>1. /\ prog \in Seq(Bytecode) /\ m \in Nat /\ Len(pg2) = m + 1
      /\ \A i \in 1 .. m : pg2[i] = prog[i]
  BY AppendedProg DEF PatchInv, CompilerType
<1>2. Len(code) \in Nat /\ \A p \in 1 .. Len(code) : c2[p] = code[p]
  BY LenProperties DEF PatchInv, CompilerType, Keeps
<1>3. /\ \A i \in 1 .. m : tp2[i] = Templates[i] /\ Len(Templates[i]) \in Nat
      /\ Len(FnPrologue) \in Nat
  BY TemplatesGrow, TemplatesLen
<1>4. /\ D \in Nat
      /\ \A j \in 1 .. D : blocks[j] \in OpenBlock
      /\ \A j \in 1 .. Len(B2) : B2[j] \in OpenBlock
  BY LenProperties, ElementOfSeq DEF PatchInv, CompilerType
<1>5. Laid(prog, closes, blocks, code, f, st, phase, FnPrologue, Templates)
  BY DEF CodeInv
<1>6. Keeps(prog, pg2, m)
  BY <1>1 DEF Keeps
<1>7. Flows(prog, family, closes, OpenAts, f) /\ family.len \in Nat
  BY FamilyFacts DEF FlowInv, PatchInv, CompilerType, MaxLen
<1>8. h[n].labels = Now.labels
  <2>1. n \in 1 .. m + 1
    BY <1>1
  <2> QED  BY <2>1 DEF FlowInv, Keeps
<1>9. \A i \in 1 .. m + 1 : st2[i] = st[i]
  <2>1. \A i \in 1 .. m + 1 : i \in 1 .. m + 2 /\ i # m + 2
    BY <1>1
  <2> QED  BY <2>1 DEF Longer, Extended
<1>10. ASSUME NEW j \in 1 .. D
       PROVE  /\ BlockCode(pg2, c2, st2, B2[j]) /\ B2[j].at = blocks[j].at
              /\ \A p \in 1 .. Len(code), k \in Nat : <<p, k>> \in Pend(B2[j]) <=> <<p, k>> \in Pend(blocks[j])
  <2> DEFINE b == blocks[j]
             b2 == B2[j]
  <2>1. b \in OpenBlock /\ b2 \in OpenBlock /\ BlockIs(prog, closes, b)
    BY <1>4 DEF FlowInv
  <2>2. BlockCode(prog, code, st, b) /\ Grown(b, b2, c2, Len(code))
    BY DEF CodeInv, Laid
  <2>3. b.kind = "if" => b.at # 0
    BY <2>1 DEF BlockIs
  <2>4. b.at # 0 => pg2[b.at] = prog[b.at] /\ st2[b.at] = st[b.at]
    <3>1. b.at # 0 => b.at \in 1 .. m
      BY <2>1 DEF BlockIs
    <3> HIDE DEF b
    <3>2. b.at # 0 => b.at \in 1 .. m + 1
      BY <1>1, <3>1
    <3> QED  BY <1>1, <1>9, <3>1, <3>2
  <2> HIDE DEF b, b2, pg2
  <2>5. /\ BlockCode(pg2, c2, st2, b2)
        /\ \A p \in 1 .. Len(code), k \in Nat : <<p, k>> \in Pend(b2) <=> <<p, k>> \in Pend(b)
    BY <1>2, <2>1, <2>2, <2>3, <2>4, GrownFacts
  <2> QED  BY <2>2, <2>5 DEF b, b2, Grown
<1>11. \A j \in 1 .. Len(B2) : ~(j > D)
  BY <1>4
<1>12. Shape(pg2, closes, B2, c2, st2, phase, h[n].labels, n, tp2[n])
  BY <1>8
<1> HIDE DEF tp2, pg2
<1>13. OldKept(blocks, B2, Len(code)) /\ NewApart(blocks, B2, Len(code), m) /\ BlocksCode(pg2, c2, st2, B2)
  BY <1>10, <1>11 DEF OldKept, NewApart, BlocksCode
<1>14. Keeps(code, c2, Len(code)) /\ Keeps(Templates, tp2, m) /\ Sized(Templates, m)
  BY <1>2, <1>3 DEF Keeps, Sized
<1>15. Laid(pg2, closes, B2, c2, h, st2, phase, FnPrologue, tp2)
  <2>1. /\ prog \in Seq(Bytecode) /\ Len(pg2) = Len(prog) + 1
        /\ Len(code) \in Nat /\ Len(c2) \in Nat /\ Len(c2) >= Len(code) /\ Len(FnPrologue) \in Nat
        /\ Len(blocks) \in Nat /\ Len(B2) \in Nat /\ Len(B2) >= Len(blocks)
    BY <1>1, <1>2, <1>3, <1>4
  <2> QED  BY <2>1, <1>5, <1>6, <1>7, <1>12, <1>13, <1>14, LaidGrows
<1> QED  BY <1>15 DEF pg2, tp2

\* Patching keeps the layout.
LEMMA Relaid ==
  ASSUME NEW pg \in Seq(Bytecode), NEW fam, NEW cl0, NEW open, NEW h, Flows(pg, fam, cl0, open, h),
         NEW cl, NEW cl2, NEW B, NEW B2, NEW c, NEW c2, NEW st, NEW ph, NEW ph2, NEW pro, NEW tp,
         Len(c) \in Nat, Len(c2) \in Nat, Len(c2) >= Len(c), Len(pro) \in Nat, Sized(tp, Len(pg)),
         Laid(pg, cl, B, c, h, st, ph, pro, tp),
         AllAlike(B, B2, c, c2, Len(c)),
         AllGo(pg, cl, B, c, st, ph, pg, cl2, B2, c2, st, ph2, Len(c), Aimable(pg)),
         BlocksCode(pg, c2, st, B2)
  PROVE  Laid(pg, cl2, B2, c2, h, st, ph2, pro, tp)
<1> DEFINE L == Len(c)
           m == Len(pg)
<1>1. L \in Nat /\ m \in Nat
  BY LenProperties
<1>2. /\ st \in [1 .. m + 1 -> 1 .. L + 1] /\ Fix(B, c, 0, pro) /\ st[1] = Len(pro) + 1
      /\ \A i \in 1 .. m : Shape(pg, cl, B, c, st, ph, h[i].labels, i, tp[i])
  BY DEF Laid
<1>3. Keeps(pg, pg, m) /\ Keeps(st, st, m + 1) /\ \A i \in 1 .. m + 1 : st[i] \in 1 .. L + 1
  BY <1>2 DEF Keeps
<1>4. \A i \in 1 .. m : Len(tp[i]) \in Nat
  BY DEF Sized
<1>5. ASSUME NEW i \in 1 .. m PROVE Shape(pg, cl2, B2, c2, st, ph2, h[i].labels, i, tp[i])
  <2>1. Shape(pg, cl, B, c, st, ph, h[i].labels, i, tp[i])
    BY <1>2
  <2> HIDE DEF L
  <2>2. AllAlike(B, B2, c, c2, L) /\ AllGo(pg, cl, B, c, st, ph, pg, cl2, B2, c2, st, ph2, L, Aimable(pg))
    BY DEF L
  <2> QED  BY <1>1, <1>3, <1>4, <2>1, <2>2, ShapesKept
<1>6. Fix(B2, c2, 0, pro)
  <2>1. 0 + Len(pro) <= L /\ 0 \in Nat
    <3>1. 1 \in 1 .. m + 1
      BY <1>1
    <3>2. st[1] \in 1 .. L + 1
      BY <1>2, <3>1
    <3> QED  BY <1>1, <1>2, <3>2
  <2> QED  BY <1>1, <1>2, <2>1, FixKept
<1>7. st \in [1 .. m + 1 -> 1 .. Len(c2) + 1]
  <2>1. 1 .. L + 1 \subseteq 1 .. Len(c2) + 1
    BY <1>1
  <2> QED  BY <1>2, <2>1
<1> QED  BY <1>2, <1>5, <1>6, <1>7 DEF Laid, BlocksCode

-----------------------------------------------------------------------------
(* Patching.                                                               *)

\* c2 is c with x written to the jumps and table entries of W, and maybe followed by more.
Patches(c, c2, W, x) ==
    /\ Len(c2) \in Nat /\ Len(c2) >= Len(c)
    /\ \A p \in 1 .. Len(c) :
          /\ c2[p].op = c[p].op /\ Len(c2[p].ts) = Len(c[p].ts)
          /\ c2[p].n = IF <<p, 0>> \in W THEN x ELSE c[p].n
          /\ \A k \in 1 .. Len(c[p].ts) :
                /\ c2[p].ts[k].dist = c[p].ts[k].dist
                /\ c2[p].ts[k].addr = IF <<p, k>> \in W THEN x ELSE c[p].ts[k].addr
          /\ (\A k \in Nat : <<p, k>> \notin W) => c2[p] = c[p]

LEMMA PatchWrites ==
  ASSUME NEW c \in Seq(Instr), NEW at, NEW x \in Nat, NEW W, \A p, k : <<p, k>> \in W <=> k = 0 /\ p \in at
  PROVE  Patches(c, Patch(c, at, x), W, x) /\ Len(Patch(c, at, x)) = Len(c)
<1> DEFINE n == Len(c)
           d == Patch(c, at, x)
<1>1. n \in Nat /\ \A i \in 1 .. n : c[i] \in Instr
  BY ElementOfSeq, LenProperties
<1>2. \A i \in 1 .. n : d[i] = IF i \in at THEN [c[i] EXCEPT !.n = x] ELSE c[i]
  BY DEF Patch
<1>3. Len(d) = n
  <2>1. DOMAIN d = 1 .. n
    BY DEF Patch
  <2>2. \A s : s \in Seq(Instr) => (DOMAIN s = 1 .. n => Len(s) = n)
    BY <1>1
  <2>3. d \in [1 .. n -> Instr]
    <3>1. \A i \in 1 .. n : [c[i] EXCEPT !.n = x] \in Instr
      <4>1. x \in Int
        OBVIOUS
      <4>2. \A e \in Instr : [e EXCEPT !.n = x] \in Instr
        BY <4>1 DEF Instr
      <4> QED  BY <1>1, <4>2
    <3>2. d = [i \in 1 .. n |-> IF i \in at THEN [c[i] EXCEPT !.n = x] ELSE c[i]]
      BY DEF Patch
    <3> HIDE DEF d, n
    <3> QED  BY <1>1, <3>1, <3>2
  <2> HIDE DEF d, n
  <2> QED  BY <1>1, <2>3, SeqElements
<1>4. ASSUME NEW p \in 1 .. n
      PROVE  /\ d[p].op = c[p].op /\ d[p].ts = c[p].ts
             /\ d[p].n = (IF p \in at THEN x ELSE c[p].n)
             /\ p \notin at => d[p] = c[p]
  <2>1. c[p] \in Instr
    BY <1>1
  <2>2. /\ [c[p] EXCEPT !.n = x].n = x
        /\ [c[p] EXCEPT !.n = x].op = c[p].op
        /\ [c[p] EXCEPT !.n = x].ts = c[p].ts
    BY <2>1 DEF Instr
  <2>3. d[p] = IF p \in at THEN [c[p] EXCEPT !.n = x] ELSE c[p]
    BY <1>2
  <2> HIDE DEF d
  <2> QED  BY <2>2, <2>3
<1> HIDE DEF d, n
<1>5. \A p \in 1 .. n : \A k \in 1 .. Len(c[p].ts) : <<p, k>> \notin W
  <2>1. \A i \in Nat : \A k \in 1 .. i : k # 0
    OBVIOUS
  <2>2. \A p \in 1 .. n : Len(c[p].ts) \in Nat
    BY <1>1, LenProperties DEF Instr
  <2> SUFFICES ASSUME NEW p \in 1 .. n, NEW k \in 1 .. Len(c[p].ts) PROVE <<p, k>> \notin W
    OBVIOUS
  <2>3. k # 0
    BY <2>1, <2>2
  <2> QED  BY <2>3
<1>6. n >= n
  BY <1>1
<1>7. 0 \in Nat
  OBVIOUS
<1> QED  BY <1>1, <1>3, <1>4, <1>5, <1>6, <1>7 DEF Patches, d, n

\* `end' writes to the jumps and to the table entries on the lists of the block b.
Rewritten(c, b, x, d, all) ==
    /\ d = Patch(c, Range(b.rel), x)
    /\ all = [i \in 1 .. Len(d) |->
                 [d[i] EXCEPT !.ts = [k \in 1 .. Len(@) |->
                     IF <<i, k>> \in b.abs THEN [@[k] EXCEPT !.addr = x] ELSE @[k]]]]

LEMMA TablesWrite ==
  ASSUME NEW c \in Seq(Instr), NEW b \in OpenBlock, NEW x \in Nat, \A q \in b.abs : q[2] # 0,
         NEW d, NEW all, Rewritten(c, b, x, d, all)
  PROVE  Patches(c, all, Pend(b), x) /\ Len(all) = Len(c) /\ all \in Seq(Instr)
<1> DEFINE n == Len(c)
           V == {<<p, 0>> : p \in Range(b.rel)}
           T(i) == [k \in 1 .. Len(d[i].ts) |->
                      IF <<i, k>> \in b.abs THEN [d[i].ts[k] EXCEPT !.addr = x] ELSE d[i].ts[k]]
<1>1. n \in Nat /\ \A i \in 1 .. n : c[i] \in Instr
  BY ElementOfSeq, LenProperties
<1>2. d \in Seq(Instr) /\ Len(d) = n
  <2>1. d = [i \in 1 .. n |-> IF i \in Range(b.rel) THEN [c[i] EXCEPT !.n = x] ELSE c[i]]
    BY DEF Patch, Rewritten
  <2>2. \A i \in 1 .. n : [c[i] EXCEPT !.n = x] \in Instr
    <3>1. x \in Int
      OBVIOUS
    <3>2. \A e \in Instr : [e EXCEPT !.n = x] \in Instr
      BY <3>1 DEF Instr
    <3> QED  BY <1>1, <3>2
  <2> HIDE DEF n
  <2>3. d \in [1 .. n -> Instr]
    BY <1>1, <2>1, <2>2
  <2> QED  BY <1>1, <2>3, SeqElements
<1>3. Patches(c, d, V, x)
  <2>1. \A p, k : <<p, k>> \in V <=> k = 0 /\ p \in Range(b.rel)
    OBVIOUS
  <2> HIDE DEF V
  <2>2. d = Patch(c, Range(b.rel), x)
    BY DEF Rewritten
  <2> QED  BY <2>1, <2>2, PatchWrites
<1>4. \A p, k : <<p, k>> \in Pend(b) <=> <<p, k>> \in V \/ <<p, k>> \in b.abs
  BY DEF Pend
<1>5. \A p, k : <<p, k>> \in V => k = 0
  OBVIOUS
<1>6. \A p : <<p, 0>> \notin b.abs
  <2>1. \A p : <<p, 0>>[2] = 0
    OBVIOUS
  <2> QED  BY <2>1
<1> HIDE DEF V
<1>7. ASSUME NEW p \in 1 .. n
      PROVE  /\ all[p].op = d[p].op /\ all[p].n = d[p].n /\ Len(all[p].ts) = Len(d[p].ts)
             /\ \A k \in 1 .. Len(d[p].ts) :
                   /\ all[p].ts[k].dist = d[p].ts[k].dist
                   /\ all[p].ts[k].addr = IF <<p, k>> \in b.abs THEN x ELSE d[p].ts[k].addr
             /\ (\A k \in Nat : <<p, k>> \notin b.abs) => all[p] = d[p]
             /\ all[p] \in Instr
  <2> DEFINE t == d[p].ts
             e(k) == IF <<p, k>> \in b.abs THEN [t[k] EXCEPT !.addr = x] ELSE t[k]
  <2>1. d[p] \in Instr /\ t \in Seq(Entry) /\ Len(t) \in Nat /\ \A k \in 1 .. Len(t) : t[k] \in Entry
    <3>1. d[p] \in Instr
      BY <1>1, <1>2, ElementOfSeq
    <3>2. d[p].ts \in Seq(Entry)
      BY <3>1 DEF Instr
    <3> QED  BY <3>1, <3>2, ElementOfSeq, LenProperties
  <2>2. T(p) = [k \in 1 .. Len(t) |-> e(k)]
    OBVIOUS
  <2>3. \A k \in 1 .. Len(t) : /\ e(k) \in Entry /\ e(k).dist = t[k].dist
                               /\ e(k).addr = (IF <<p, k>> \in b.abs THEN x ELSE t[k].addr)
                               /\ <<p, k>> \notin b.abs => e(k) = t[k]
    <3> HIDE DEF t
    <3> QED  BY <2>1 DEF Entry
  <2>4. all[p] = [d[p] EXCEPT !.ts = T(p)]
    BY <1>2 DEF Rewritten
  <2> HIDE DEF e, t
  <2>5. T(p) \in Seq(Entry) /\ Len(T(p)) = Len(t) /\ \A k \in 1 .. Len(t) : T(p)[k] = e(k)
    <3>1. T(p) \in [1 .. Len(t) -> Entry] /\ \A k \in 1 .. Len(t) : T(p)[k] = e(k)
      BY <2>2, <2>3
    <3> HIDE DEF T
    <3> QED  BY <2>1, <3>1, SeqElements
  <2> HIDE DEF T
  <2>6. all[p].op = d[p].op /\ all[p].n = d[p].n /\ all[p].ts = T(p) /\ all[p] \in Instr
    <3>1. /\ [d[p] EXCEPT !.ts = T(p)].op = d[p].op /\ [d[p] EXCEPT !.ts = T(p)].n = d[p].n
          /\ [d[p] EXCEPT !.ts = T(p)].ts = T(p) /\ [d[p] EXCEPT !.ts = T(p)] \in Instr
      BY <2>1, <2>5 DEF Instr
    <3> QED  BY <2>4, <3>1
  <2>7. (\A k \in Nat : <<p, k>> \notin b.abs) => all[p] = d[p]
    <3> SUFFICES ASSUME \A k \in Nat : <<p, k>> \notin b.abs PROVE all[p] = d[p]
      OBVIOUS
    <3>1. \A k \in 1 .. Len(t) : T(p)[k] = t[k]
      <4>1. \A k \in 1 .. Len(t) : k \in Nat
        BY <2>1
      <4> QED  BY <2>3, <2>5, <4>1
    <3>2. T(p) = t
      BY <2>1, <2>5, <3>1, SeqEqual DEF t
    <3>3. [d[p] EXCEPT !.ts = d[p].ts] = d[p]
      BY <2>1 DEF Instr
    <3> QED  BY <2>4, <3>2, <3>3 DEF t
  <2>8. \A k \in 1 .. Len(t) :
           /\ all[p].ts[k].dist = t[k].dist
           /\ all[p].ts[k].addr = IF <<p, k>> \in b.abs THEN x ELSE t[k].addr
    BY <2>3, <2>5, <2>6
  <2>9. Len(all[p].ts) = Len(t)
    BY <2>5, <2>6
  <2> QED  BY <2>6, <2>7, <2>8, <2>9 DEF t
<1>8. Len(all) = n /\ all \in Seq(Instr)
  <2>1. \A i \in 1 .. n : all[i] \in Instr
    BY <1>7
  <2>2. all = [i \in 1 .. n |-> all[i]]
    BY <1>2 DEF Rewritten
  <2> HIDE DEF n
  <2>3. all \in [1 .. n -> Instr]
    BY <2>1, <2>2
  <2> QED  BY <1>1, <2>3, SeqElements
<1> HIDE DEF T
<1>9. ASSUME NEW p \in 1 .. n
      PROVE  /\ all[p].op = c[p].op /\ Len(all[p].ts) = Len(c[p].ts)
             /\ all[p].n = (IF <<p, 0>> \in Pend(b) THEN x ELSE c[p].n)
             /\ \A k \in 1 .. Len(c[p].ts) :
                   /\ all[p].ts[k].dist = c[p].ts[k].dist
                   /\ all[p].ts[k].addr = IF <<p, k>> \in Pend(b) THEN x ELSE c[p].ts[k].addr
             /\ (\A k \in Nat : <<p, k>> \notin Pend(b)) => all[p] = c[p]
  <2>1. /\ d[p].op = c[p].op /\ Len(d[p].ts) = Len(c[p].ts)
        /\ d[p].n = (IF <<p, 0>> \in V THEN x ELSE c[p].n)
        /\ \A k \in 1 .. Len(c[p].ts) :
              /\ d[p].ts[k].dist = c[p].ts[k].dist
              /\ d[p].ts[k].addr = IF <<p, k>> \in V THEN x ELSE c[p].ts[k].addr
        /\ (\A k \in Nat : <<p, k>> \notin V) => d[p] = c[p]
    BY <1>3 DEF Patches
  <2>2. <<p, 0>> \in Pend(b) <=> <<p, 0>> \in V
    BY <1>4, <1>6
  <2>3. \A k \in 1 .. Len(c[p].ts) : <<p, k>> \notin V
    <3>1. \A i \in Nat : \A k \in 1 .. i : k # 0
      OBVIOUS
    <3>2. Len(c[p].ts) \in Nat
      BY <1>1, LenProperties DEF Instr
    <3> QED  BY <1>5, <3>1, <3>2
  <2>4. (\A k \in Nat : <<p, k>> \notin Pend(b)) =>
           (\A k \in Nat : <<p, k>> \notin V) /\ \A k \in Nat : <<p, k>> \notin b.abs
    BY <1>4
  <2>5. \A k \in 1 .. Len(c[p].ts) : <<p, k>> \in Pend(b) <=> <<p, k>> \in b.abs
    BY <1>4, <2>3
  <2>6. \A k \in 1 .. Len(c[p].ts) :
           /\ all[p].ts[k].dist = c[p].ts[k].dist
           /\ all[p].ts[k].addr = IF <<p, k>> \in Pend(b) THEN x ELSE c[p].ts[k].addr
    <3> SUFFICES ASSUME NEW k \in 1 .. Len(c[p].ts)
                 PROVE  /\ all[p].ts[k].dist = c[p].ts[k].dist
                        /\ all[p].ts[k].addr = IF <<p, k>> \in Pend(b) THEN x ELSE c[p].ts[k].addr
      OBVIOUS
    <3>1. d[p].ts[k].dist = c[p].ts[k].dist /\ d[p].ts[k].addr = c[p].ts[k].addr
      BY <2>1, <2>3
    <3>2. k \in 1 .. Len(d[p].ts)
      BY <2>1
    <3>3. /\ all[p].ts[k].dist = d[p].ts[k].dist
          /\ all[p].ts[k].addr = IF <<p, k>> \in b.abs THEN x ELSE d[p].ts[k].addr
      BY <1>7, <3>2
    <3>4. <<p, k>> \in Pend(b) <=> <<p, k>> \in b.abs
      BY <2>5
    <3> QED  BY <3>1, <3>3, <3>4
  <2>7. /\ all[p].op = d[p].op /\ all[p].n = d[p].n /\ Len(all[p].ts) = Len(d[p].ts)
        /\ (\A k \in Nat : <<p, k>> \notin b.abs) => all[p] = d[p]
    BY <1>7
  <2>8. (\A k \in Nat : <<p, k>> \notin Pend(b)) => all[p] = c[p]
    <3>1. (\A k \in Nat : <<p, k>> \notin V) => d[p] = c[p]
      BY <2>1, Zenon
    <3> QED  BY <2>4, <2>7, <3>1, Zenon
  <2>9. all[p].op = c[p].op /\ Len(all[p].ts) = Len(c[p].ts)
    BY <2>1, <2>7
  <2>10. all[p].n = IF <<p, 0>> \in Pend(b) THEN x ELSE c[p].n
    <3>1. d[p].n = IF <<p, 0>> \in V THEN x ELSE c[p].n
      BY <2>1, Zenon
    <3>2. all[p].n = d[p].n
      BY <2>7
    <3> QED  BY <2>2, <3>1, <3>2
  <2> QED  BY <2>6, <2>8, <2>9, <2>10, Zenon
<1>10. n >= n
  BY <1>1
<1> HIDE DEF n
<1>11. Len(c) = n
  BY DEF n
<1> QED  BY <1>1, <1>8, <1>9, <1>10, <1>11 DEF Patches

\* The function's own end is followed by a ret.
LEMMA PatchesThen ==
  ASSUME NEW c, Len(c) \in Nat, NEW d \in Seq(Instr), NEW W, NEW x, Patches(c, d, W, x), NEW ins \in Instr
  PROVE  Patches(c, Append(d, ins), W, x) /\ Len(Append(d, ins)) = Len(d) + 1 /\ Append(d, ins)[Len(d) + 1] = ins
<1> DEFINE e == Append(d, ins)
<1>1. Len(d) \in Nat /\ Len(e) = Len(d) + 1 /\ (\A i \in 1 .. Len(d) : e[i] = d[i]) /\ e[Len(d) + 1] = ins
  BY AppendFacts, LenProperties
<1> HIDE DEF e
<1>2. Len(d) >= Len(c)
  BY DEF Patches
<1>3. Len(e) \in Nat /\ Len(e) >= Len(c) /\ \A p \in 1 .. Len(c) : e[p] = d[p]
  BY <1>1, <1>2
<1> QED  BY <1>1, <1>3 DEF Patches, e

\* The block numbered d of B resolves W; the blocks of B2 wait for what is left.
Waits(B, B2, W, L, d) ==
    /\ d \in 1 .. Len(B)
    /\ \A p, k : <<p, k>> \in W => <<p, k>> \in Pend(B[d])
    /\ \A j \in 1 .. Len(B2) :
          /\ j \in 1 .. Len(B) /\ B2[j].at = B[j].at
          /\ \A p \in 1 .. L, k \in Nat : <<p, k>> \in Pend(B2[j]) => <<p, k>> \in Pend(B[j])

\* Entry k of the jump at p goes on to the opener a: its place g is as it was, or it has become
\* known and is the one written.
Resolved(B, B2, W, x, p, k, a, g, g2) ==
    \/ g2 = g /\ (g = 0 => \A j \in 1 .. Len(B2) : <<p, k>> \in Pend(B[j]) => <<p, k>> \in Pend(B2[j]))
    \/ /\ g = 0 /\ g2 = x
       /\ \E j \in 1 .. Len(B) : B[j].at = a /\ (<<p, k>> \in Pend(B[j]) => <<p, k>> \in W)
       /\ \A j \in 1 .. Len(B2) : B2[j].at = a => <<p, k>> \notin Pend(B2[j])

AllResolved(pg, cl, B, c, st, ph, cl2, B2, ph2, W, x, A) ==
    \A p \in 1 .. Len(c), k \in Nat, a \in A :
        Goes(pg, cl, B, c, st, ph, p, k, a) /\ Aiming(c, st, p, k, a) =>
            Resolved(B, B2, W, x, p, k, a,
                     Goal(pg, cl, st, ph, c[p].op, a), Goal(pg, cl2, st, ph2, c[p].op, a))

LEMMA PatchedGo ==
  ASSUME NEW pg, NEW cl, NEW B, NEW c, NEW st, NEW ph, NEW cl2, NEW B2, NEW c2, NEW ph2, NEW W,
         NEW x \in Nat \ {0}, NEW d, NEW A,
         Patches(c, c2, W, x), Waits(B, B2, W, Len(c), d), AllResolved(pg, cl, B, c, st, ph, cl2, B2, ph2, W, x, A)
  PROVE  /\ AllAlike(B, B2, c, c2, Len(c))
         /\ AllGo(pg, cl, B, c, st, ph, pg, cl2, B2, c2, st, ph2, Len(c), A)
<1>1. ASSUME NEW p \in 1 .. Len(c) PROVE Alike(B, B2, c, c2, p)
  <2>1. d \in 1 .. Len(B)
    BY DEF Waits
  <2>2. \A k : <<p, k>> \in W => <<p, k>> \in Pend(B[d])
    BY DEF Waits
  <2>3. \A j \in 1 .. Len(B2) : j \in 1 .. Len(B)
    BY DEF Waits
  <2>4. \A j \in 1 .. Len(B2), k \in Nat : <<p, k>> \in Pend(B2[j]) => <<p, k>> \in Pend(B[j])
    BY DEF Waits
  <2>5. (\A k \in Nat : <<p, k>> \notin W) => c2[p] = c[p]
    BY DEF Patches
  <2>6. <<p, 0>> \notin W => c2[p].n = c[p].n
    BY DEF Patches
  <2>7. /\ c2[p].op = c[p].op /\ Len(c2[p].ts) = Len(c[p].ts)
        /\ \A k \in 1 .. Len(c[p].ts) : c2[p].ts[k].dist = c[p].ts[k].dist
    BY DEF Patches
  <2>8. Idle(B, p) => c2[p] = c[p] /\ Idle(B2, p)
    BY <2>1, <2>2, <2>3, <2>4, <2>5 DEF Idle
  <2>9. Free(B, p) => c2[p].n = c[p].n /\ Free(B2, p)
    <3>1. 0 \in Nat
      OBVIOUS
    <3> QED  BY <2>1, <2>2, <2>3, <2>4, <2>6, <3>1 DEF Free
  <2> QED  BY <2>7, <2>8, <2>9 DEF Alike
<1>2. ASSUME NEW p \in 1 .. Len(c), NEW k \in Nat, NEW a \in A,
             Goes(pg, cl, B, c, st, ph, p, k, a), Aiming(c, st, p, k, a)
      PROVE  Goes(pg, cl2, B2, c2, st, ph2, p, k, a)
  <2> DEFINE g == Goal(pg, cl, st, ph, c[p].op, a)
             g2 == Goal(pg, cl2, st, ph2, c[p].op, a)
  <2>1. Resolved(B, B2, W, x, p, k, a, g, g2)
    BY <1>2 DEF AllResolved
  <2>2. c2[p].op = c[p].op
    BY DEF Patches
  <2>3. /\ g # 0 => Written(c, p, k) = g
        /\ \A j \in 1 .. Len(B) : <<p, k>> \in Pend(B[j]) <=> g = 0 /\ B[j].at = a
    BY <1>2 DEF Goes
  <2>4. Written(c2, p, k) = IF <<p, k>> \in W THEN x ELSE Written(c, p, k)
    <3>1. CASE k = 0
      <4>1. c2[p].n = IF <<p, 0>> \in W THEN x ELSE c[p].n
        BY DEF Patches
      <4> QED  BY <3>1, <4>1 DEF Written
    <3>2. CASE k # 0
      <4>1. k \in 1 .. Len(c[p].ts)
        BY <1>2, <3>2 DEF Aiming
      <4>2. c2[p].ts[k].addr = IF <<p, k>> \in W THEN x ELSE c[p].ts[k].addr
        BY <4>1 DEF Patches
      <4> QED  BY <3>2, <4>2 DEF Written
    <3> QED  BY <3>1, <3>2
  <2>5. Goal(pg, cl2, st, ph2, c2[p].op, a) = g2
    BY <2>2
  <2> HIDE DEF g, g2
  <2>6. d \in 1 .. Len(B) /\ (<<p, k>> \in W => <<p, k>> \in Pend(B[d]))
    BY DEF Waits
  <2>7. \A j \in 1 .. Len(B2) : j \in 1 .. Len(B) /\ B2[j].at = B[j].at
                                /\ (<<p, k>> \in Pend(B2[j]) => <<p, k>> \in Pend(B[j]))
    BY DEF Waits
  <2>8. /\ g2 # 0 => Written(c2, p, k) = g2
        /\ \A j \in 1 .. Len(B2) : <<p, k>> \in Pend(B2[j]) <=> g2 = 0 /\ B2[j].at = a
    <3>1. CASE g2 = g /\ (g = 0 => \A j \in 1 .. Len(B2) : <<p, k>> \in Pend(B[j]) => <<p, k>> \in Pend(B2[j]))
      BY <2>3, <2>4, <2>6, <2>7, <3>1
    <3>2. CASE /\ g = 0 /\ g2 = x
               /\ \E j \in 1 .. Len(B) : B[j].at = a /\ (<<p, k>> \in Pend(B[j]) => <<p, k>> \in W)
               /\ \A j \in 1 .. Len(B2) : B2[j].at = a => <<p, k>> \notin Pend(B2[j])
      <4>1. <<p, k>> \in W
        BY <2>3, <3>2
      <4> QED  BY <2>3, <2>4, <2>7, <3>2, <4>1
    <3> QED  BY <2>1, <3>1, <3>2 DEF Resolved
  <2> QED  BY <2>5, <2>8 DEF Goes
<1> QED  BY <1>1, <1>2 DEF AllAlike, AllGo

\* The end n of the opener `top' makes one place known, its else n another.
EndMarks(pg, cl, cl2, A, top, n, ph, ph2) ==
    /\ n # 0 /\ ph = "compile"
    /\ \A a \in A : a # 0 /\ a # top => cl2[a] = cl[a]
    /\ top # 0 => cl2[top].els = cl[top].els /\ cl2[top].end = n /\ cl[top].end = 0 /\ ph2 = ph
    /\ top = 0 => ph2 # "compile" /\ n = Len(pg)

Known(g, g2, a, top, x) == g2 = g \/ (a = top /\ g = 0 /\ g2 = x)

LEMMA EndGoal ==
  ASSUME NEW pg, NEW st, NEW cl, NEW cl2, NEW A, NEW top, NEW n, NEW ph, NEW ph2,
         EndMarks(pg, cl, cl2, A, top, n, ph, ph2), NEW op, NEW a \in A
  PROVE  Known(Goal(pg, cl, st, ph, op, a), Goal(pg, cl2, st, ph2, op, a), a, top, st[n + 1])
<1>1. CASE a = 0
  BY <1>1 DEF Goal, LoopAt, EndMarks, Known
<1>2. CASE a # 0 /\ a # top
  <2>1. cl2[a] = cl[a]
    BY <1>2 DEF EndMarks
  <2>2. top = 0 \/ ph2 = ph
    BY DEF EndMarks
  <2> QED  BY <1>2, <2>1, <2>2 DEF Goal, LoopAt, Known
<1>3. CASE a # 0 /\ a = top
  BY <1>3 DEF Goal, LoopAt, EndMarks, Known
<1> QED  BY <1>1, <1>2, <1>3

ElseMarks(pg, cl, cl2, A, top, n) ==
    /\ n # 0 /\ top # 0 /\ ~LoopAt(pg, top)
    /\ \A a \in A : a # 0 /\ a # top => cl2[a] = cl[a]
    /\ cl2[top].els = n /\ cl2[top].end = 0 /\ cl[top].els = 0 /\ cl[top].end = 0

ElseKnown(g, g2, op, a, top, x) ==
    \/ g2 = g /\ (a = top => op # "enter if")
    \/ a = top /\ op = "enter if" /\ g = 0 /\ g2 = x

LEMMA ElseGoal ==
  ASSUME NEW pg, NEW st, NEW cl, NEW cl2, NEW A, NEW top, NEW n, ElseMarks(pg, cl, cl2, A, top, n),
         NEW ph, NEW op, NEW a \in A
  PROVE  ElseKnown(Goal(pg, cl, st, ph, op, a), Goal(pg, cl2, st, ph, op, a), op, a, top, st[n] + 3)
<1>1. CASE a = 0
  BY <1>1 DEF Goal, LoopAt, ElseMarks, ElseKnown
<1>2. CASE a # 0 /\ a # top
  <2>1. cl2[a] = cl[a]
    BY <1>2 DEF ElseMarks
  <2> QED  BY <1>2, <2>1 DEF Goal, LoopAt, ElseKnown
<1>3. CASE a # 0 /\ a = top
  <2>1. CASE op = "enter if"
    BY <1>3, <2>1 DEF Goal, ElseMarks, ElseKnown
  <2>2. CASE op # "enter if"
    BY <1>3, <2>2 DEF Goal, ElseMarks, ElseKnown
  <2> QED  BY <1>3, <2>1, <2>2
<1> QED  BY <1>1, <1>2, <1>3

-----------------------------------------------------------------------------
(* end.                                                                    *)

LEMMA EndIs ==
  ASSUME CompileEnd
  PROVE  \E full, d, all :
            /\ Pieced(LeaveBlock(Len(blocks) = 1 \/ Top.type # "empty_block"), full)
            /\ Rewritten(full, Top, Len(full) + 1, d, all)
            /\ code' = IF Len(blocks) = 1 THEN Append(all, Ins("ret", 0)) ELSE all
<1> DEFINE leave == LeaveBlock(Len(blocks) = 1 \/ Top.type # "empty_block")
           full == code \o <<Ins("dbg", Here)>> \o leave
           d == Patch(full, Range(Top.rel), Len(full) + 1)
           all == [i \in 1 .. Len(d) |->
                     [d[i] EXCEPT !.ts = [k \in 1 .. Len(@) |->
                         IF <<i, k>> \in Top.abs THEN [@[k] EXCEPT !.addr = Len(full) + 1] ELSE @[k]]]]
<1>1. code' = IF Len(blocks) = 1 THEN Append(all, Ins("ret", 0)) ELSE all
  BY DEF CompileEnd
<1>2. Pieced(leave, full)
  BY DEF Pieced
<1>3. Rewritten(full, Top, Len(full) + 1, d, all)
  BY DEF Rewritten
<1> QED  BY <1>1, <1>2, <1>3

\* The code of an end before anything is patched.
LEMMA EndLaid ==
  ASSUME PatchInv, NEW f, FlowInv(f), NEW h, Keeps(f, h, Len(prog) + 1), NEW st, CodeInv(f, st), family' = family,
         phase = "compile", NEW ins \in Bytecode, ins.op = "end", prog' = Append(prog, ins),
         NEW full, Pieced(LeaveBlock(Len(blocks) = 1 \/ Top.type # "empty_block"), full)
  PROVE  /\ full \in Seq(Instr) /\ Len(full) \in Nat /\ Len(full) >= Len(code)
         /\ \E st2 : /\ Laid(prog', closes, blocks, full, h, st2, phase, FnPrologue, Templates')
                     /\ st2[Len(prog) + 2] = Len(full) + 1
<1> DEFINE n == Len(prog) + 1
           L == Len(code)
           p == L + 1
           v == Len(blocks) = 1 \/ Top.type # "empty_block"
           leave == LeaveBlock(v)
           pg2 == prog'
           top == Top.at
           z == Len(leave)
           tp2 == Templates'
<1>1. leave \in Seq(Instr) /\ z \in Nat
  <2>1. v \in BOOLEAN
    OBVIOUS
  <2> HIDE DEF v
  <2>2. leave \in Seq(Straight)
    BY <2>1, LeaveBlockType
  <2> HIDE DEF leave
  <2> QED  BY <2>2, StraightIsInstr, SeqMonotonic, LenProperties
<1>2. /\ L \in Nat /\ Len(full) = p + z /\ full \in Seq(Instr)
      /\ \A i \in 1 .. L : full[i] = code[i]
      /\ full[p] = Ins("dbg", n)
      /\ \A k \in 1 .. z : full[p + k] = leave[k]
  <2>1. Pieced(leave, full)
    OBVIOUS
  <2> HIDE DEF leave
  <2> QED  BY <1>1, <2>1, NewPiece
<1>3. /\ Len(prog) \in Nat /\ Len(blocks) \in 1 .. Len(blocks) /\ Top = blocks[Len(blocks)]
      /\ (top = 0 <=> Len(blocks) = 1) /\ Last(Now.labels).at = top
  <2>1. \A x, y : Label(x, y).at = x
    BY DEF Label
  <2> QED  BY <2>1, CurrentFacts, TopFacts
<1>4. PICK st2 : Longer(st, st2, Len(prog), Len(full) + 1)
  BY DEF Longer
<1>5. Keeps(st, st2, n) /\ st2[n] = p /\ st2[n + 1] = Len(full) + 1 /\ st2[Len(prog) + 2] = Len(full) + 1
  <2>1. /\ Keeps(st, st2, Len(prog) + 1) /\ st2[Len(prog) + 1] = Len(code) + 1
        /\ st2[Len(prog) + 2] = Len(full) + 1
    BY <1>4, NewPlaces
  <2>2. n + 1 = Len(prog) + 2
    BY <1>3
  <2> QED  BY <2>1, <2>2
<1>6. Keeps(prog, pg2, Len(prog)) /\ pg2[n] = ins
  BY AppendedProg DEF PatchInv, CompilerType, Keeps
<1>7. LeaveBlock(Valued(pg2, top)) = leave
  <2>1. Valued(pg2, top) <=> Top.type # "empty_block"
    <3> HIDE DEF pg2
    <3> QED  BY <1>3, <1>5, <1>6, OpenTarget
  <2>2. top = 0 => Valued(pg2, top)
    BY DEF Valued
  <2>3. Valued(pg2, top) = v
    BY <1>3, <2>1, <2>2 DEF Valued
  <2> QED  BY <2>3
<1>8. \A i \in Nat : i > L => Idle(blocks, i)
  BY IdleAbove
<1> HIDE DEF leave, v, z
<1>9. Fix(blocks, full, p - 1, <<Ins("dbg", n)>>)
  <2> DEFINE dbg == Ins("dbg", n)
  <2>1. Idle(blocks, p) /\ p - 1 + 1 = p
    BY <1>2, <1>8
  <2>2. full[p] = dbg
    BY <1>2
  <2> HIDE DEF dbg, p
  <2>3. Len(<<dbg>>) = 1 /\ <<dbg>>[1] = dbg /\ \A k \in 1 .. 1 : k = 1
    OBVIOUS
  <2> QED  BY <2>1, <2>2, <2>3 DEF Fix, dbg
<1>10. Fix(blocks, full, p, leave)
  <2>1. \A k \in 1 .. z : p + k \in Nat /\ p + k > L
    BY <1>1, <1>2
  <2> QED  BY <1>2, <1>8, <2>1 DEF Fix, z
<1>11. Shape(pg2, closes, blocks, full, st2, phase, Now.labels, n, tp2[n])
  <2>1. ins.op \notin PlainOps
    BY DEF PlainOps, Binary, Unary
  <2>2. st2[n + 1] = p + 1 + Len(leave)
    <3> HIDE DEF n
    <3> QED  BY <1>1, <1>2, <1>5 DEF z
  <2> HIDE DEF n, p, pg2, tp2, top
  <2> QED  BY <1>3, <1>5, <1>6, <1>7, <1>9, <1>10, <2>1, <2>2 DEF Shape
<1>12. Len(full) \in Nat /\ Len(full) >= Len(code) /\ Keeps(code, full, Len(code))
  BY <1>1, <1>2 DEF Keeps
<1>13. /\ blocks \in Seq(OpenBlock)
       /\ \A j \in 1 .. Len(blocks) : Grown(blocks[j], blocks[j], full, Len(code))
  BY GrownSame, ElementOfSeq DEF PatchInv, CompilerType
<1>14. Laid(prog', closes, blocks, full, h, st2, phase, FnPrologue, Templates')
  BY <1>4, <1>11, <1>12, <1>13, LaidOn
<1> QED  BY <1>2, <1>5, <1>12, <1>14

\* The blocks that are still open after the end of the last of them.
LEMMA ClosedBlocks ==
  ASSUME PatchInv, phase = "compile", NEW f, FlowInv(f), NEW st, NEW pg, NEW c, NEW c2, BlocksCode(pg, c, st, blocks),
         NEW W, W = Pend(Top), NEW x, Patches(c, c2, W, x), blocks' = Front(blocks)
  PROVE  /\ Len(blocks') = Len(blocks) - 1 /\ Len(blocks) - 1 \in Nat
         /\ \A j \in 1 .. Len(blocks') : j \in 1 .. Len(blocks) /\ blocks'[j] = blocks[j] /\ blocks[j].at # Top.at
         /\ BlocksCode(pg, c2, st, blocks')
         /\ Waits(blocks, blocks', W, Len(c), Len(blocks))
<1> DEFINE D == Len(blocks)
<1>1. blocks \in Seq(OpenBlock) /\ D \in Nat /\ D >= 1 /\ D \in 1 .. D /\ Top = blocks[D]
  BY CurrentFacts, TopFacts DEF PatchInv, CompilerType
<1>2. Len(blocks') = D - 1 /\ \A j \in 1 .. D - 1 : blocks'[j] = blocks[j]
  BY <1>1, FrontFacts
<1>3. \A j \in 1 .. D - 1 : j \in 1 .. D /\ j # D
  BY <1>1
<1>4. \A j \in 1 .. D - 1 : blocks[j].at # Top.at
  BY <1>1, <1>3, AtsApart
<1>5. ASSUME NEW j \in 1 .. D - 1 PROVE BlockCode(pg, c2, st, blocks[j])
  <2>1. BlockCode(pg, c, st, blocks[j])
    BY <1>3 DEF BlocksCode
  <2>2. Len(c2) >= Len(c) /\ Len(c2) \in Nat /\ \A p \in 1 .. Len(c) : Len(c2[p].ts) = Len(c[p].ts)
    BY DEF Patches
  <2>3. \A p \in 1 .. Len(c) : p \in 1 .. Len(c2)
    BY <2>2
  <2>4. \A q \in blocks[j].abs : q \in Pend(blocks[j])
    BY DEF Pend
  <2> QED  BY <2>1, <2>2, <2>3, <2>4 DEF BlockCode
<1>6. \A j \in 1 .. Len(blocks') : j \in 1 .. D /\ blocks'[j] = blocks[j] /\ blocks[j].at # Top.at
  BY <1>2, <1>3, <1>4
<1>7. BlocksCode(pg, c2, st, blocks')
  <2> SUFFICES ASSUME NEW j \in 1 .. D - 1 PROVE BlockCode(pg, c2, st, blocks'[j])
    BY <1>2 DEF BlocksCode
  <2> QED  BY <1>2, <1>5
<1>8. Waits(blocks, blocks', W, Len(c), D)
  <2>1. W = Pend(blocks[D]) /\ D \in 1 .. Len(blocks)
    BY <1>1
  <2> DEFINE B2 == blocks'
  <2> HIDE DEF D, B2
  <2>2. \A j \in 1 .. Len(B2) : j \in 1 .. Len(blocks) /\ B2[j] = blocks[j]
    BY <1>6 DEF B2, D
  <2>3. \A j \in 1 .. Len(B2) :
          /\ j \in 1 .. Len(blocks) /\ B2[j].at = blocks[j].at
          /\ \A p \in 1 .. Len(c), k \in Nat : <<p, k>> \in Pend(B2[j]) => <<p, k>> \in Pend(blocks[j])
    BY <2>2
  <2>4. Waits(blocks, B2, W, Len(c), D)
    BY ONLY <2>1, <2>3 DEF Waits
  <2> QED  BY <2>4 DEF B2
<1>9. Len(blocks') = D - 1 /\ D - 1 \in Nat
  BY <1>1, <1>2
<1> QED  BY <1>6, <1>7, <1>8, <1>9

LEMMA EndCode ==
  ASSUME PatchInv, NEW f, FlowInv(f), NEW st, CodeInv(f, st), family' = family, CompileEnd
  PROVE  \E h, st2 : FlowInv(h)' /\ CodeInv(h, st2)'
<1> DEFINE n == Len(prog) + 1
           ins == Ins("end", 0)
           pg2 == prog'
           c2 == code'
           B2 == blocks'
           cl2 == closes'
           ph2 == phase'
           tp2 == Templates'
           top == Top.at
           W == Pend(Top)
           fn == Len(blocks) = 1
           ret == Ins("ret", 0)
<1>1. PICK h : FlowInv(h)' /\ Keeps(f, h, Len(prog) + 1)
  BY EndFlows
<1>2. /\ phase = "compile" /\ prog' = Append(prog, ins) /\ blocks' = Front(blocks)
      /\ cl2 = (IF top = 0 THEN closes ELSE [closes EXCEPT ![top].end = Here])
      /\ ph2 = (IF fn THEN "ready" ELSE phase)
  BY DEF CompileEnd
<1>3. ins \in Bytecode /\ ins.op = "end"
  BY InsType
<1>4. PICK full, d, all :
         /\ Pieced(LeaveBlock(Len(blocks) = 1 \/ Top.type # "empty_block"), full)
         /\ Rewritten(full, Top, Len(full) + 1, d, all)
         /\ code' = IF Len(blocks) = 1 THEN Append(all, Ins("ret", 0)) ELSE all
  BY EndIs
<1> HIDE DEF ins
<1>5. /\ full \in Seq(Instr) /\ Len(full) \in Nat /\ Len(full) >= Len(code)
      /\ \E st2 : /\ Laid(prog', closes, blocks, full, h, st2, phase, FnPrologue, Templates')
                  /\ st2[Len(prog) + 2] = Len(full) + 1
  BY <1>1, <1>2, <1>3, <1>4, EndLaid
<1>6. PICK st2 : Laid(prog', closes, blocks, full, h, st2, phase, FnPrologue, Templates')
                 /\ st2[Len(prog) + 2] = Len(full) + 1
  BY <1>5
<1> DEFINE x == Len(full) + 1
<1>7. /\ Len(prog) \in Nat /\ Len(blocks) \in 1 .. Len(blocks) /\ Top = blocks[Len(blocks)] /\ Top \in OpenBlock
      /\ (top = 0 <=> fn) /\ top \in 0 .. Len(prog) /\ BlockIs(prog, closes, Top)
  <2>1. Len(prog) \in Nat /\ Len(blocks) \in 1 .. Len(blocks) /\ Top = blocks[Len(blocks)]
        /\ (top = 0 <=> fn) /\ top \in 0 .. Len(prog) /\ BlockIs(prog, closes, Top)
    BY <1>2, CurrentFacts, TopFacts
  <2> QED  BY <2>1, ElementOfSeq DEF PatchInv, CompilerType
<1>8. x \in Nat /\ x # 0 /\ x \in Nat \ {0}
  BY <1>5
<1>9. Patches(full, all, W, x) /\ Len(all) = Len(full) /\ all \in Seq(Instr)
  <2>1. \A q \in Top.abs : q[2] # 0
    <3>1. BlockCode(prog, code, st, Top)
      BY <1>7 DEF CodeInv, Laid
    <3>2. \A i : \A k \in 1 .. i : k # 0
      OBVIOUS
    <3> QED  BY <3>1, <3>2 DEF BlockCode
  <2> HIDE DEF x
  <2>2. Rewritten(full, Top, x, d, all)
    BY <1>4 DEF x
  <2> QED  BY <1>5, <1>7, <1>8, <2>1, <2>2, TablesWrite
<1>10. Patches(full, c2, W, x) /\ Len(c2) = (IF fn THEN x ELSE x - 1) /\ (fn => c2[x] = ret)
  <2>1. ret \in Instr
    <3>1. \A op \in StraightOps : Ins(op, 0) \in Instr
      BY InsType, StraightIsInstr
    <3> QED  BY <3>1 DEF StraightOps
  <2> HIDE DEF ret, W
  <2>2. CASE fn
    <3>1. c2 = Append(all, ret)
      BY <1>4, <2>2 DEF ret
    <3>2. Len(all) + 1 = x
      BY <1>9
    <3> HIDE DEF x, c2
    <3> QED  BY <1>5, <1>9, <2>1, <2>2, <3>1, <3>2, PatchesThen
  <2>3. CASE ~fn
    <3>1. c2 = all
      BY <1>4, <2>3
    <3>2. Len(all) = x - 1
      BY <1>5, <1>9
    <3> QED  BY <1>9, <2>3, <3>1, <3>2
  <2> QED  BY <2>2, <2>3
<1> HIDE DEF ret
<1>11. BlocksCode(pg2, full, st2, blocks) 
  BY <1>6 DEF Laid, BlocksCode
<1>12. /\ Len(B2) = Len(blocks) - 1 /\ Len(blocks) - 1 \in Nat
       /\ \A j \in 1 .. Len(B2) : j \in 1 .. Len(blocks) /\ B2[j] = blocks[j] /\ blocks[j].at # top
       /\ BlocksCode(pg2, c2, st2, B2)
       /\ Waits(blocks, B2, W, Len(full), Len(blocks))
  <2> HIDE DEF pg2, c2, x, W
  <2>1. W = Pend(Top)
    BY DEF W
  <2> QED  BY <1>2, <1>10, <1>11, <2>1, ClosedBlocks
<1>13. pg2 \in Seq(Bytecode) /\ Len(pg2) = n /\ Keeps(prog, pg2, Len(prog)) /\ pg2[n] = ins
  BY <1>2, <1>3, AppendedProg DEF PatchInv, CompilerType, Keeps
<1>14. /\ \A a \in Aimable(pg2) : a # 0 /\ a # top => cl2[a] = closes[a]
       /\ top # 0 => cl2[top].els = closes[top].els /\ cl2[top].end = n /\ closes[top].end = 0
  <2>1. \A a \in Aimable(pg2) : a # 0 => a \in 1 .. MaxLen
    <3> SUFFICES ASSUME NEW a \in Aimable(pg2), a # 0 PROVE a \in 1 .. MaxLen
      OBVIOUS
    <3>1. a \in 1 .. n /\ pg2[a].op \in Openers
      BY <1>13 DEF Aimable
    <3>2. a # n
      BY <1>3, <1>13, <3>1 DEF Openers
    <3>3. a \in 1 .. Len(prog)
      BY <1>7, <3>1, <3>2
    <3>4. prog[a].op \in Openers
      BY <1>13, <3>1, <3>3 DEF Keeps
    <3> QED  BY <3>3, <3>4, OpenerIndex
  <2>2. closes \in [1 .. MaxLen -> [els : Nat, end : Nat]]
    BY DEF FlowInv, Flows, MaxLen
  <2>3. ASSUME top # 0
        PROVE  top \in 1 .. MaxLen /\ closes[top].end = 0
    <3>1. top \in 1 .. Len(prog) /\ prog[top].op \in Openers /\ closes[top].end = 0
      BY <1>7, <2>3 DEF BlockIs
    <3> QED  BY <3>1, OpenerIndex
  <2>4. Here = n
    BY DEF Here
  <2> HIDE DEF top, n, cl2
  <2>5. CASE top = 0
    BY <1>2, <2>5
  <2>6. CASE top # 0
    <3>1. cl2 = [closes EXCEPT ![top].end = n]
      BY <1>2, <2>4, <2>6
    <3>2. closes[top] \in [els : Nat, end : Nat]
      BY <2>2, <2>3, <2>6
    <3>3. cl2[top] = [closes[top] EXCEPT !.end = n]
      BY <2>2, <2>3, <2>6, <3>1
    <3>4. cl2[top].els = closes[top].els /\ cl2[top].end = n
      BY <3>2, <3>3
    <3>5. \A a \in 1 .. MaxLen : a # top => cl2[a] = closes[a]
      BY <2>2, <3>1
    <3> QED  BY <2>1, <2>3, <2>6, <3>4, <3>5
  <2> QED  BY <2>5, <2>6
<1>15. AllResolved(pg2, closes, blocks, full, st2, phase, cl2, B2, ph2, W, x, Aimable(pg2))
  <2> DEFINE A == Aimable(pg2)
  <2>1. n # 0 /\ (top = 0 => ph2 # "compile" /\ n = Len(pg2)) /\ (top # 0 => ph2 = phase)
    BY <1>2, <1>7, <1>13
  <2>2. n + 1 = Len(prog) + 2
    BY <1>7
  <2>3. st2[n + 1] = x
    BY <1>6, <2>2
  <2>4. Len(blocks) \in 1 .. Len(blocks) /\ blocks[Len(blocks)].at = top /\ Pend(blocks[Len(blocks)]) = W
    BY <1>7
  <2>5. \A a \in A : a # 0 /\ a # top => cl2[a] = closes[a]
    BY <1>14
  <2>6. top # 0 => cl2[top].els = closes[top].els /\ cl2[top].end = n /\ closes[top].end = 0
    BY <1>14
  <2> HIDE DEF pg2, cl2, ph2, top, W, x, n, A
  <2>7. EndMarks(pg2, closes, cl2, A, top, n, phase, ph2)
    <3>1. phase = "compile"
      BY <1>2
    <3> QED  BY <2>1, <2>5, <2>6, <3>1 DEF EndMarks
  <2> SUFFICES ASSUME NEW p \in 1 .. Len(full), NEW k \in Nat, NEW a \in A
               PROVE  Resolved(blocks, B2, W, x, p, k, a, Goal(pg2, closes, st2, phase, full[p].op, a),
                               Goal(pg2, cl2, st2, ph2, full[p].op, a))
    BY DEF AllResolved, A
  <2> DEFINE g == Goal(pg2, closes, st2, phase, full[p].op, a)
             g2 == Goal(pg2, cl2, st2, ph2, full[p].op, a)
  <2>8. Known(g, g2, a, top, x)
    <3>1. Known(g, g2, a, top, st2[n + 1])
      BY <2>7, EndGoal
    <3> HIDE DEF g, g2
    <3> QED  BY <2>3, <3>1
  <2> HIDE DEF g, g2, B2
  <2>9. \A j \in 1 .. Len(B2) : B2[j] = blocks[j] /\ B2[j].at # top
    BY <1>12
  <2>10. Resolved(blocks, B2, W, x, p, k, a, g, g2)
    BY <2>4, <2>8, <2>9 DEF Resolved, Known
  <2> QED  BY <2>10 DEF g, g2
<1>16. /\ AllAlike(blocks, B2, full, c2, Len(full))
       /\ AllGo(pg2, closes, blocks, full, st2, phase, pg2, cl2, B2, c2, st2, ph2, Len(full), Aimable(pg2))
  <2> HIDE DEF pg2, cl2, ph2, W, x, c2, B2
  <2> QED  BY <1>8, <1>10, <1>12, <1>15, PatchedGo
<1>17. FnPrologue' = FnPrologue /\ Len(FnPrologue) \in Nat /\ Sized(tp2, Len(pg2))
  <2>1. /\ FnPrologue' = FnPrologue /\ Len(FnPrologue) \in Nat
        /\ \A i \in 1 .. Len(prog) : tp2[i] = Templates[i] /\ Len(Templates[i]) \in Nat
        /\ tp2[n] = IF ins.op \in PlainOps THEN Template(ins) ELSE <<>>
    BY <1>2, <1>3, TemplatesGrow, TemplatesLen
  <2>2. tp2[n] = <<>>
    BY <1>3, <2>1 DEF PlainOps, Binary, Unary
  <2>3. Len(tp2[n]) \in Nat
    BY <2>2
  <2>4. \A i \in 1 .. n : i = n \/ i \in 1 .. Len(prog)
    BY <1>7
  <2> HIDE DEF n, tp2, pg2
  <2> QED  BY <1>13, <2>1, <2>3, <2>4 DEF Sized
<1>18. Flows(pg2, family, cl2, OpenAts', h)
  BY <1>1 DEF FlowInv
<1>19. Laid(pg2, cl2, B2, c2, h, st2, ph2, FnPrologue, tp2)
  <2> DEFINE open == OpenAts'
  <2>1. Len(c2) \in Nat /\ Len(c2) >= Len(full)
    BY <1>10 DEF Patches
  <2>2. Laid(pg2, closes, blocks, full, h, st2, phase, FnPrologue, tp2)
    BY <1>6
  <2>3. Flows(pg2, family, cl2, open, h)
    BY <1>18
  <2> HIDE DEF pg2, cl2, ph2, c2, B2, tp2, open
  <2> QED  BY <1>5, <1>12, <1>13, <1>16, <1>17, <2>1, <2>2, <2>3, Relaid
<1>20. st2[Len(pg2) + 1] = x
  <2>1. Len(pg2) + 1 = Len(prog) + 2
    BY <1>7, <1>13
  <2> QED  BY <1>6, <2>1
<1>21. CodeInv(h, st2)'
  <2>1. CASE fn
    <3>1. ph2 # "compile" /\ Len(c2) = x /\ c2[Len(c2)] = ret
      BY <1>2, <1>10, <2>1
    <3> QED  BY <1>17, <1>19, <1>20, <3>1 DEF CodeInv, pg2, cl2, ph2, c2, B2, tp2, ret
  <2>2. CASE ~fn
    <3>1. ph2 = "compile" /\ Len(c2) + 1 = x
      BY <1>2, <1>8, <1>10, <2>2
    <3> QED  BY <1>17, <1>19, <1>20, <3>1 DEF CodeInv, pg2, cl2, ph2, c2, B2, tp2
  <2> QED  BY <2>1, <2>2
<1> QED  BY <1>1, <1>21

-----------------------------------------------------------------------------
(* else.                                                                   *)

\* The code of an else before the jz of the if is patched, and after.
ElseEmits(full) ==
    /\ full \in Seq(Instr) /\ Len(full) = Len(code) + 5
    /\ \A p \in 1 .. Len(code) : full[p] = code[p]
    /\ full[Len(code) + 1] = Ins("dbg", Len(prog) + 1)
    /\ full[Len(code) + 2] = PopRdi
    /\ full[Len(code) + 3] = Ins("jmp", 0)
    /\ \A k \in 1 .. 2 : full[Len(code) + 3 + k] = EnterBlock[k]
ElsePatches(full) == code' = Patch(full, {Head(Top.rel)}, Len(code) + 4)

LEMMA ElseIs ==
  ASSUME PatchInv, CompileElse
  PROVE  /\ \E full : ElseEmits(full) /\ ElsePatches(full)
         /\ blocks' = [blocks EXCEPT ![Len(blocks)].kind = "else",
                                     ![Len(blocks)].rel = Tail(Append(Top.rel, Len(code) + 3))]
         /\ Len(EnterBlock) = 2
<1> DEFINE L == Len(code)
           leave == LeaveBlock(TRUE)
           jmp == Ins("jmp", 0)
           part == code \o <<Ins("dbg", Here)>> \o leave
           two == part \o <<jmp>>
           full == two \o EnterBlock
<1>1. leave \in Seq(Instr) /\ Len(leave) = 1 /\ leave[1] = PopRdi
  <2>1. Leaving(0, TRUE) \in Seq(Straight) /\ Leaving(0, TRUE)[0 + 1] = PopRdi
    <3>1. TRUE \in BOOLEAN /\ 0 \in Nat /\ 0 + 1 \in 1 .. 0 + 1
      OBVIOUS
    <3> QED  BY <3>1, LeavingFacts
  <2>2. LeaveBlock(TRUE) = <<PopRdi>> \o <<>>
    BY DEF LeaveBlock
  <2> DEFINE u == <<PopRdi>>
             v == <<>>
  <2>3. u \in Seq(Instr) /\ v \in Seq(Instr) /\ Len(u) = 1 /\ u[1] = PopRdi /\ Len(v) = 0
    <3>1. PopRdi \in Instr
      BY FixedTemplates, StraightIsInstr
    <3> QED  BY <3>1, Tuple1, EmptyTs
  <2> HIDE DEF u, v
  <2>4. /\ u \o v \in Seq(Instr) /\ Len(u \o v) = Len(u) + Len(v)
        /\ \A i \in 1 .. Len(u) : (u \o v)[i] = u[i]
    <3>1. u \in Seq(Instr) /\ v \in Seq(Instr)
      BY <2>3
    <3> QED  BY <3>1, ConcatFacts
  <2>5. 1 \in 1 .. 1 /\ 1 + 0 = 1
    OBVIOUS
  <2>6. u \o v \in Seq(Instr) /\ Len(u \o v) = 1 /\ (u \o v)[1] = PopRdi
    BY <2>3, <2>4, <2>5
  <2>7. leave = u \o v
    BY <2>2 DEF u, v
  <2> QED  BY <2>6, <2>7
<1>2. jmp \in Instr
  <2>1. \A op \in Jumps : Ins(op, 0) \in Instr
    BY InsType
  <2> QED  BY <2>1 DEF Jumps
<1>3. Pieced(leave, part)
  BY DEF Pieced
<1> HIDE DEF leave, part, jmp
<1>4. /\ L \in Nat /\ Len(part) = L + 2 /\ part \in Seq(Instr)
      /\ \A p \in 1 .. L : part[p] = code[p]
      /\ part[L + 1] = Ins("dbg", Len(prog) + 1) /\ part[L + 2] = PopRdi
  <2>1. /\ Len(code) \in Nat /\ Len(part) = Len(code) + 1 + Len(leave) /\ part \in Seq(Instr)
        /\ \A p \in 1 .. Len(code) : part[p] = code[p]
        /\ part[Len(code) + 1] = Ins("dbg", Len(prog) + 1)
        /\ \A k \in 1 .. Len(leave) : part[Len(code) + 1 + k] = leave[k]
    BY <1>1, <1>3, NewPiece
  <2>2. L + 1 + 1 = L + 2 /\ 1 \in 1 .. 1
    BY <2>1
  <2> QED  BY <1>1, <2>1, <2>2
<1> HIDE DEF L
<1>5. /\ Len(two) = L + 3 /\ two \in Seq(Instr)
      /\ \A p \in 1 .. L + 2 : two[p] = part[p]
      /\ two[L + 3] = jmp
  <2> DEFINE u == <<jmp>>
  <2>1. u \in Seq(Instr) /\ Len(u) = 1 /\ u[1] = jmp
    BY <1>2, Tuple1
  <2> HIDE DEF u
  <2>2. /\ part \o u \in Seq(Instr) /\ Len(part \o u) = Len(part) + Len(u)
        /\ \A i \in 1 .. Len(part) : (part \o u)[i] = part[i]
        /\ \A i \in 1 .. Len(u) : (part \o u)[Len(part) + i] = u[i]
    <3>1. part \in Seq(Instr) /\ u \in Seq(Instr)
      BY <1>4, <2>1
    <3> QED  BY <3>1, ConcatFacts
  <2>3. 1 \in 1 .. 1 /\ L + 2 + 1 = L + 3
    BY <1>4
  <2>4. (part \o u)[Len(part) + 1] = jmp
    BY <2>1, <2>2, <2>3
  <2> QED  BY <1>4, <2>1, <2>2, <2>3, <2>4 DEF u
<1> HIDE DEF two
<1>6. EnterBlock \in Seq(Instr) /\ Len(EnterBlock) = 2
  BY FixedTemplates, StraightIsInstr, SeqMonotonic
<1>7. /\ Len(full) = L + 5 /\ full \in Seq(Instr)
      /\ \A p \in 1 .. L + 3 : full[p] = two[p]
      /\ \A k \in 1 .. 2 : full[L + 3 + k] = EnterBlock[k]
  <2>1. /\ full \in Seq(Instr) /\ Len(full) = Len(two) + Len(EnterBlock)
        /\ \A i \in 1 .. Len(two) : full[i] = two[i]
        /\ \A i \in 1 .. Len(EnterBlock) : full[Len(two) + i] = EnterBlock[i]
    <3>1. two \in Seq(Instr) /\ EnterBlock \in Seq(Instr)
      BY <1>5, <1>6
    <3> QED  BY <3>1, ConcatFacts
  <2>2. L + 3 + 2 = L + 5
    BY <1>4
  <2> HIDE DEF full
  <2> QED  BY <1>5, <1>6, <2>1, <2>2
<1>8. /\ code' = Patch(full, {Head(Top.rel)}, Cur + Len(leave) + 1)
      /\ blocks' = [blocks EXCEPT ![Len(blocks)].kind = "else",
                                  ![Len(blocks)].rel = Tail(Append(Top.rel, Cur + Len(leave)))]
  BY DEF CompileElse, leave, part, two, jmp
<1>9. Cur + Len(leave) + 1 = L + 4 /\ Cur + Len(leave) = L + 3
  <2>1. Cur = L + 2
    BY DEF Cur, L
  <2> HIDE DEF L
  <2> QED  BY <1>1, <1>4, <2>1
<1> HIDE DEF full
<1>10. /\ full[L + 1] = Ins("dbg", Len(prog) + 1) /\ full[L + 2] = PopRdi /\ full[L + 3] = jmp
       /\ \A p \in 1 .. L : full[p] = code[p]
  <2>1. \A p \in 1 .. L + 2 : p \in 1 .. L + 3
    BY <1>4
  <2>2. \A p \in 1 .. L : p \in 1 .. L + 2
    BY <1>4
  <2>3. L + 1 \in 1 .. L + 2 /\ L + 2 \in 1 .. L + 2 /\ L + 3 \in 1 .. L + 3
    BY <1>4
  <2> QED  BY <1>4, <1>5, <1>7, <2>1, <2>2, <2>3
<1>11. ElseEmits(full)
  BY <1>7, <1>10 DEF ElseEmits, L, jmp
<1>12. ElsePatches(full)
  BY <1>8, <1>9 DEF ElsePatches, L
<1>13. blocks' = [blocks EXCEPT ![Len(blocks)].kind = "else",
                                ![Len(blocks)].rel = Tail(Append(Top.rel, Len(code) + 3))]
  BY <1>8, <1>9 DEF L
<1> QED  BY <1>6, <1>11, <1>12, <1>13

\* The list r without its first element and with x after the last.
Shifted(r, x, q) == q = Tail(Append(r, x))
ShiftedRange(r, x, q) ==
    \A p : (\E i \in 1 .. Len(q) : q[i] = p) <=> p # r[1] /\ (p = x \/ \E i \in 1 .. Len(r) : r[i] = p)
FirstApart(r, x) == Len(r) >= 1 /\ x # r[1] /\ \A i \in 2 .. Len(r) : r[i] # r[1]

LEMMA ShiftedFacts ==
  ASSUME NEW r \in Seq(Nat), NEW x \in Nat, FirstApart(r, x), NEW q, Shifted(r, x, q)
  PROVE  q \in Seq(Nat) /\ Len(r) \in Nat /\ Len(q) = Len(r) /\ ShiftedRange(r, x, q)
<1> DEFINE n == Len(r)
           a == Append(r, x)
<1>1. n \in Nat /\ n >= 1
  BY LenProperties DEF FirstApart
<1>2. a \in Seq(Nat) /\ Len(a) = n + 1 /\ (\A i \in 1 .. n : a[i] = r[i]) /\ a[n + 1] = x
  BY AppendFacts
<1>3. a # <<>>
  <2>1. \A s \in Seq(Nat) : s = <<>> => Len(s) = 0
    BY EmptyTs
  <2> HIDE DEF a, n
  <2> QED  BY <1>1, <1>2, <2>1
<1>4. q = Tail(a)
  BY DEF Shifted
<1> HIDE DEF a
<1>5. q \in Seq(Nat) /\ Len(q) = Len(a) - 1 /\ \A i \in 1 .. Len(q) : q[i] = a[i + 1]
  BY <1>2, <1>3, <1>4, HeadTailProperties
<1> HIDE DEF n
<1>6. Len(q) = n
  BY <1>1, <1>2, <1>5
<1>7. ASSUME NEW p
      PROVE  (\E i \in 1 .. n : q[i] = p) <=> p # r[1] /\ (p = x \/ \E i \in 1 .. n : r[i] = p)
  <2>1. ASSUME NEW i \in 1 .. n, q[i] = p PROVE p # r[1] /\ (p = x \/ \E k \in 1 .. n : r[k] = p)
    <3>1. a[i + 1] = p
      BY <1>5, <1>6, <2>1
    <3>2. CASE i = n
      BY <1>2, <3>1, <3>2 DEF FirstApart
    <3>3. CASE i # n
      <4>1. i + 1 \in 2 .. n /\ i + 1 \in 1 .. n
        BY <1>1, <3>3
      <4>2. r[i + 1] = p
        BY <1>2, <3>1, <4>1
      <4>3. r[i + 1] # r[1]
        BY <4>1 DEF n, FirstApart
      <4> QED  BY <4>1, <4>2, <4>3
    <3> QED  BY <3>2, <3>3
  <2>2. ASSUME p = x PROVE \E i \in 1 .. n : q[i] = p
    <3>1. n \in 1 .. n
      BY <1>1
    <3> QED  BY <1>2, <1>5, <1>6, <2>2, <3>1
  <2>3. ASSUME p # r[1], NEW i \in 1 .. n, r[i] = p PROVE \E k \in 1 .. n : q[k] = p
    <3>1. i # 1
      BY <2>3
    <3>2. i - 1 \in 1 .. n /\ i - 1 + 1 = i
      BY <1>1, <3>1
    <3>3. q[i - 1] = a[i]
      BY <1>5, <1>6, <3>2
    <3> QED  BY <1>2, <2>3, <3>2, <3>3
  <2> QED  BY <2>1, <2>2, <2>3
<1>8. ShiftedRange(r, x, q)
  BY <1>6, <1>7 DEF ShiftedRange, n
<1> QED  BY <1>1, <1>5, <1>6, <1>8 DEF n

\* The open blocks: B1 has the jump over the else on the list of its if, blocks' has also taken
\* the jz off.
ElseLists(st, B1) ==
    /\ Fixed(0, Len(code) + 3, B1) /\ B1 \in Seq(OpenBlock) /\ Len(B1) = Len(blocks) /\ Len(blocks') = Len(blocks)
    /\ \A j \in 1 .. Len(blocks) : j # Len(blocks) => B1[j] = blocks[j] /\ blocks'[j] = blocks[j]
    /\ B1[Len(blocks)].at = Top.at /\ B1[Len(blocks)].abs = Top.abs
    /\ <<st[Top.at] + 1, 0>> \in Pend(B1[Len(blocks)])
    /\ LET b == blocks'[Len(blocks)]
       IN  /\ b \in OpenBlock /\ b.at = Top.at /\ b.kind = "else" /\ b.addr = Top.addr /\ b.abs = Top.abs
           /\ \A p, k : <<p, k>> \in Pend(b) <=>
                           <<p, k>> \in Pend(B1[Len(blocks)]) /\ ~(p = st[Top.at] + 1 /\ k = 0)

LEMMA ElseOpen ==
  ASSUME PatchInv, phase = "compile", NEW f, FlowInv(f), NEW st, CodeInv(f, st), Top.kind = "if",
         blocks' = [blocks EXCEPT ![Len(blocks)].kind = "else",
                                  ![Len(blocks)].rel = Tail(Append(Top.rel, Len(code) + 3))]
  PROVE  /\ \E B1 : ElseLists(st, B1)
         /\ Top.addr = 0 /\ Top.at \in 1 .. Len(prog) /\ Top.rel[1] = st[Top.at] + 1 /\ Head(Top.rel) = Top.rel[1]
         /\ Top.rel[1] \in 1 .. Len(code)
         /\ prog[Top.at].op = "if" /\ closes[Top.at].els = 0 /\ closes[Top.at].end = 0
<1> DEFINE D == Len(blocks)
           x == Len(code) + 3
           r == Top.rel
           a == Append(r, x)
           q == Tail(Append(r, x))
           b1 == [Top EXCEPT !.rel = a]
           b2 == [Top EXCEPT !.kind = "else", !.rel = q]
           B1 == [blocks EXCEPT ![D] = b1]
           B2 == blocks'
<1>1. /\ D \in 1 .. D /\ Top = blocks[D] /\ D \in Nat /\ blocks \in Seq(OpenBlock) /\ Top \in OpenBlock
      /\ Len(code) \in Nat /\ x \in Nat /\ BlockIs(prog, closes, Top) /\ BlockCode(prog, code, st, Top)
  <2>1. D \in 1 .. D /\ Top = blocks[D] /\ D \in Nat /\ BlockIs(prog, closes, Top)
    BY CurrentFacts, TopFacts
  <2>2. Len(code) \in Nat
    BY LenProperties DEF PatchInv, CompilerType
  <2>3. BlockCode(prog, code, st, Top)
    BY <2>1 DEF CodeInv, Laid
  <2>4. x \in Nat
    BY <2>2
  <2> QED  BY <2>1, <2>2, <2>3, <2>4, ElementOfSeq DEF PatchInv, CompilerType
<1>2. /\ Top.at # 0 /\ Top.at \in 1 .. Len(prog) /\ prog[Top.at].op = "if" /\ closes[Top.at].els = 0
      /\ closes[Top.at].end = 0
  <2>1. Top.at # 0
    BY <1>1 DEF BlockIs
  <2>2. "if" = IF prog[Top.at].op = "if" /\ closes[Top.at].els # 0 THEN "else" ELSE prog[Top.at].op
    BY <1>1, <2>1 DEF BlockIs
  <2> QED  BY <1>1, <2>1, <2>2 DEF BlockIs
<1>3. /\ Top.addr = 0
      /\ Len(r) >= 1 /\ r[1] = st[Top.at] + 1 /\ \A k \in 2 .. Len(r) : r[k] # r[1]
  BY <1>1, <1>2 DEF BlockCode, LoopAt
<1>4. r \in Seq(Nat) /\ Len(r) \in Nat /\ 1 \in 1 .. Len(r)
  <2>1. r \in Seq(Nat) /\ Len(r) \in Nat
    BY <1>1, BlockType
  <2> QED  BY <1>3, <2>1
<1>5. Head(r) = r[1]
  <2>1. Len(r) \in 1 .. Len(r)
    BY <1>3, <1>4
  <2> HIDE DEF r
  <2>2. Head(SubSeq(r, 1, Len(r))) = r[1]
    BY <1>4, <2>1, HeadTailOfSubSeq
  <2>3. SubSeq(r, 1, Len(r)) = r
    BY <1>4, SubSeqFull
  <2> QED  BY <2>2, <2>3, Zenon
<1>6. \A p, k : <<p, k>> \in Pend(Top) <=> (k = 0 /\ \E i \in 1 .. Len(r) : r[i] = p) \/ <<p, k>> \in Top.abs
  BY <1>1, PendFacts
<1>7. r[1] \in 1 .. Len(code)
  <2>1. <<r[1], 0>> \in Pend(Top)
    <3> HIDE DEF r
    <3> QED  BY <1>4, <1>6
  <2>2. <<r[1], 0>>[1] \in 1 .. Len(code)
    BY <1>1, <2>1 DEF BlockCode
  <2> QED  BY <2>2
<1>8. \A p, k : <<p, k>> \in Top.abs => k # 0
  <2>1. \A i : \A k \in 1 .. i : k # 0
    OBVIOUS
  <2>2. \A w \in Top.abs : w[2] # 0
    BY <1>1, <2>1 DEF BlockCode
  <2> SUFFICES ASSUME NEW p, NEW k, <<p, k>> \in Top.abs PROVE k # 0
    OBVIOUS
  <2>3. <<p, k>>[2] # 0
    BY <2>2
  <2> QED  BY <2>3
<1>9. x # r[1]
  BY <1>1, <1>7
<1>10. q \in Seq(Nat) /\ Len(q) = Len(r) /\ ShiftedRange(r, x, q)
  <2> HIDE DEF r, x
  <2>1. Shifted(r, x, q)
    BY DEF Shifted
  <2> HIDE DEF q
  <2>2. FirstApart(r, x)
    BY <1>3, <1>9 DEF r, FirstApart
  <2>3. x \in Nat
    BY <1>1
  <2> QED  BY <1>4, <2>1, <2>2, <2>3, ShiftedFacts
<1>11. a \in Seq(Nat)
  <2> HIDE DEF r, x
  <2>1. x \in Nat
    BY <1>1
  <2> QED  BY <1>4, <2>1, AppendFacts
<1> HIDE DEF q, a
<1>12. b1 \in OpenBlock /\ b1.at = Top.at /\ b1.abs = Top.abs
  <2>1. b1 \in OpenBlock /\ b1.abs = Top.abs
    BY <1>1, <1>11, BlockType
  <2>2. b1.at = Top.at
    BY <1>1 DEF OpenBlock
  <2> QED  BY <2>1, <2>2
<1>13. /\ b2 \in OpenBlock /\ b2.at = Top.at /\ b2.kind = "else" /\ b2.addr = Top.addr /\ b2.abs = Top.abs
       /\ b2.rel = q
  BY <1>1, <1>10 DEF OpenBlock
<1>14. B2 = [blocks EXCEPT ![D] = b2]
  <2>1. DOMAIN blocks = 1 .. D
    BY <1>1, LenProperties
  <2>2. blocks' = [blocks EXCEPT ![D].kind = "else", ![D].rel = q]
    BY DEF q, x, r
  <2> QED  BY <1>1, <2>1, <2>2
<1>15. Fixed(0, x, B1)
  <2>1. D - 0 = D
    BY <1>1
  <2>2. Target(0) = Top
    BY <1>1, <2>1 DEF Target
  <2>3. AddFixup(0, x) = [blocks EXCEPT ![D].rel = Append(@, x)]
    BY <1>3, <2>1, <2>2 DEF AddFixup
  <2>4. DOMAIN blocks = 1 .. D
    BY <1>1, LenProperties
  <2>5. [blocks EXCEPT ![D].rel = Append(@, x)] = B1
    BY <1>1, <2>4 DEF a, r
  <2> QED  BY <2>3, <2>5 DEF Fixed
<1> HIDE DEF b1, b2, D
<1>16. /\ B1 \in Seq(OpenBlock) /\ Len(B1) = D /\ \A j \in 1 .. D : B1[j] = IF j = D THEN b1 ELSE blocks[j]
  <2> HIDE DEF r, x
  <2> QED  BY <1>1, <1>12, ExceptSeq DEF D
<1>17. /\ Len(B2) = D /\ \A j \in 1 .. D : B2[j] = IF j = D THEN b2 ELSE blocks[j]
  <2> DEFINE E == [blocks EXCEPT ![D] = b2]
  <2>1. Len(E) = D /\ \A j \in 1 .. D : E[j] = IF j = D THEN b2 ELSE blocks[j]
    <3> HIDE DEF B2
    <3> QED  BY <1>1, <1>13, ExceptSeq DEF D
  <2>2. E = B2
    BY <1>14
  <2> HIDE DEF E, B2
  <2> QED  BY <2>1, <2>2
<1> HIDE DEF B1, B2
<1>18. \A p, k : <<p, k>> \in Pend(b1) <=> <<p, k>> \in Pend(Top) \/ (p = x /\ k = 0)
  <2>1. /\ 0 \in Depths /\ x \in Len(code) + 1 .. Len(code) + 5 /\ Len(code) + 5 \in Nat /\ Len(code) + 5 > Len(code)
        /\ D - 0 = D
    BY <1>1 DEF Depths, D
  <2>2. PICK c : Len(c) = Len(code) + 5
    <3> DEFINE s == [i \in 1 .. Len(code) + 5 |-> 0]
    <3>1. s \in [1 .. Len(code) + 5 -> {0}] /\ Len(code) + 5 \in Nat
      BY <2>1
    <3> HIDE DEF s
    <3>2. Len(s) = Len(code) + 5
      BY <3>1, SeqElements
    <3> QED  BY <3>2
  <2>3. \A j \in 1 .. Len(blocks) : \A i, k :
            <<i, k>> \in Pend(B1[j]) <=>
               <<i, k>> \in Pend(blocks[j]) \/ (i = x /\ k = 0 /\ j = Len(blocks) - 0 /\ Target(0).addr = 0)
    <3> HIDE DEF x
    <3>1. Len(c) \in Nat /\ Len(c) > Len(code) /\ x \in Len(code) + 1 .. Len(c)
      BY <2>1, <2>2
    <3> QED  BY <1>15, <2>1, <3>1, FixupGrows
  <2>4. Target(0) = Top
    BY <1>1, <2>1 DEF Target, D
  <2>5. B1[D] = b1
    BY <1>1, <1>16
  <2>6. D \in 1 .. Len(blocks) /\ D = Len(blocks) - 0
    BY <1>1, <2>1 DEF D
  <2> QED  BY <1>1, <1>3, <2>3, <2>4, <2>5, <2>6
<1>19. \A p, k : <<p, k>> \in Pend(b2) <=> (k = 0 /\ \E i \in 1 .. Len(q) : q[i] = p) \/ <<p, k>> \in Top.abs
  <2>1. \A p, k : <<p, k>> \in Pend(b2) <=> (k = 0 /\ \E i \in 1 .. Len(b2.rel) : b2.rel[i] = p) \/ <<p, k>> \in b2.abs
    BY <1>13, PendFacts
  <2> QED  BY <1>13, <2>1
<1>20. \A p, k : <<p, k>> \in Pend(b2) <=> <<p, k>> \in Pend(b1) /\ ~(p = r[1] /\ k = 0)
  <2> HIDE DEF x, r
  <2> QED  BY <1>6, <1>8, <1>9, <1>10, <1>18, <1>19 DEF ShiftedRange
<1>21. B1[D] = b1 /\ B2[D] = b2
  BY <1>1, <1>16, <1>17
<1>22. \A p, k : <<p, k>> \in Pend(b2) <=> <<p, k>> \in Pend(b1) /\ ~(p = st[Top.at] + 1 /\ k = 0)
  BY <1>3, <1>20
<1>24. <<st[Top.at] + 1, 0>> \in Pend(b1)
  <2>1. <<r[1], 0>> \in Pend(b1)
    <3> HIDE DEF r, x
    <3> QED  BY <1>4, <1>6, <1>18
  <2> QED  BY <1>3, <2>1
<1>23. ElseLists(st, B1)
  BY <1>24, <1>12, <1>13, <1>15, <1>16, <1>17, <1>21, <1>22 DEF ElseLists, D, x, B2
<1> QED  BY <1>2, <1>3, <1>5, <1>7, <1>23

\* The code of an else before anything is patched.
LEMMA ElseLaid ==
  ASSUME PatchInv, NEW f, FlowInv(f), NEW h, Keeps(f, h, Len(prog) + 1), NEW st, CodeInv(f, st), family' = family,
         phase = "compile", NEW ins \in Bytecode, ins.op = "else", prog' = Append(prog, ins),
         Top.addr = 0, Len(EnterBlock) = 2, NEW full, ElseEmits(full),
         NEW B1 \in Seq(OpenBlock), Fixed(0, Len(code) + 3, B1)
  PROVE  \E st2 : /\ Laid(prog', closes, B1, full, h, st2, phase, FnPrologue, Templates')
                  /\ Keeps(st, st2, Len(prog) + 1) /\ st2[Len(prog) + 1] = Len(code) + 1
                  /\ st2[Len(prog) + 2] = Len(full) + 1
<1> DEFINE n == Len(prog) + 1
           L == Len(code)
           p == L + 1
           pg2 == prog'
           top == Top.at
           tp2 == Templates'
           pos == L + 3
<1>1. /\ L \in Nat /\ Len(full) = p + 4 /\ full \in Seq(Instr)
      /\ \A i \in 1 .. L : full[i] = code[i]
      /\ full[p] = Ins("dbg", n) /\ full[p + 1] = PopRdi /\ full[pos] = Ins("jmp", 0)
      /\ \A k \in 1 .. 2 : full[pos + k] = EnterBlock[k]
  <2>1. L \in Nat
    BY LenProperties DEF PatchInv, CompilerType
  <2>2. L + 5 = p + 4 /\ L + 2 = p + 1
    BY <2>1
  <2> QED  BY <2>1, <2>2 DEF ElseEmits
<1>2. /\ Len(prog) \in Nat /\ Len(blocks) \in Nat /\ Len(blocks) \in 1 .. Len(blocks)
      /\ Top = blocks[Len(blocks)] /\ Last(Now.labels).at = top
  <2>1. \A x, y : Label(x, y).at = x
    BY DEF Label
  <2> QED  BY <2>1, CurrentFacts, TopFacts
<1>3. PICK st2 : Longer(st, st2, Len(prog), Len(full) + 1)
  BY DEF Longer
<1>4. Keeps(st, st2, n) /\ st2[n] = p /\ st2[n + 1] = Len(full) + 1 /\ st2[Len(prog) + 2] = Len(full) + 1
  <2>1. /\ Keeps(st, st2, Len(prog) + 1) /\ st2[Len(prog) + 1] = Len(code) + 1
        /\ st2[Len(prog) + 2] = Len(full) + 1
    BY <1>3, NewPlaces
  <2>2. n + 1 = Len(prog) + 2
    BY <1>2
  <2> QED  BY <2>1, <2>2
<1>5. Keeps(prog, pg2, Len(prog)) /\ pg2[n] = ins
  BY AppendedProg DEF PatchInv, CompilerType, Keeps
<1>6. 0 \in Depths /\ Len(blocks) - 0 = Len(blocks) /\ Target(0) = Top
  <2>1. 0 \in Depths /\ Len(blocks) - 0 = Len(blocks)
    BY <1>2 DEF Depths
  <2> QED  BY <1>2, <2>1 DEF Target
<1>7. pos \in L + 1 .. Len(full) /\ Len(full) \in Nat /\ Len(full) > L /\ Len(full) >= L /\ pos \in Nat
  BY <1>1
<1>8. /\ Len(B1) = Len(blocks)
      /\ \A j \in 1 .. Len(blocks) : Grown(blocks[j], B1[j], full, Len(code))
      /\ \A i \in Nat : i > Len(code) /\ i # pos => Idle(B1, i)
      /\ Jump(pg2, closes, B1, full, st2, phase, pos, "jmp", top)
  <2>1. /\ Len(full) \in Nat /\ Len(full) > Len(code) /\ pos \in Len(code) + 1 .. Len(full) /\ Fixed(0, pos, B1)
    BY <1>7
  <2>2. full[pos] = Ins("jmp", Target(0).addr)
    BY <1>1, <1>6
  <2>3. Keeps(prog, pg2, Len(prog)) /\ Keeps(st, st2, Len(prog) + 1)
    BY <1>4, <1>5
  <2> HIDE DEF pg2, pos
  <2>4. /\ Len(B1) = Len(blocks)
        /\ \A j \in 1 .. Len(blocks) : Grown(blocks[j], B1[j], full, Len(code))
        /\ \A i \in Nat : i > Len(code) /\ i # pos => Idle(B1, i)
        /\ Jump(pg2, closes, B1, full, st2, phase, pos, "jmp", Target(0).at)
    BY <1>6, <2>1, <2>2, <2>3, BranchJump
  <2> QED  BY <1>6, <2>4
<1>9. Fix(B1, full, p - 1, <<Ins("dbg", n)>>)
  <2> DEFINE dbg == Ins("dbg", n)
  <2>1. p - 1 + 1 = p /\ p \in Nat /\ p > Len(code) /\ p # pos
    BY <1>1
  <2>2. full[p] = dbg /\ Idle(B1, p)
    BY <1>1, <1>8, <2>1
  <2> HIDE DEF dbg, p
  <2>3. Len(<<dbg>>) = 1 /\ <<dbg>>[1] = dbg /\ \A k \in 1 .. 1 : k = 1
    OBVIOUS
  <2> QED  BY <2>1, <2>2, <2>3 DEF Fix, dbg
<1>10. Fix(B1, full, p, <<PopRdi>>)
  <2> DEFINE pop == PopRdi
  <2>1. p + 1 \in Nat /\ p + 1 > Len(code) /\ p + 1 # pos
    BY <1>1
  <2>2. full[p + 1] = pop /\ Idle(B1, p + 1)
    BY <1>1, <1>8, <2>1
  <2> HIDE DEF pop, p
  <2>3. Len(<<pop>>) = 1 /\ <<pop>>[1] = pop /\ \A k \in 1 .. 1 : k = 1
    OBVIOUS
  <2> QED  BY <2>2, <2>3 DEF Fix, pop
<1>11. Fix(B1, full, pos, EnterBlock)
  <2>1. \A k \in 1 .. 2 : pos + k \in Nat /\ pos + k > Len(code) /\ pos + k # pos
    BY <1>1
  <2> HIDE DEF pos
  <2> QED  BY <1>1, <1>8, <2>1 DEF Fix
<1>12. pos = p + 2
  BY <1>1
<1>13. Shape(pg2, closes, B1, full, st2, phase, Now.labels, n, tp2[n])
  <2>1. ins.op \notin PlainOps
    BY DEF PlainOps, Binary, Unary
  <2>2. st2[n + 1] = p + 5
    <3> HIDE DEF n
    <3> QED  BY <1>1, <1>4
  <2>3. Jump(pg2, closes, B1, full, st2, phase, p + 2, "jmp", top) /\ Fix(B1, full, p + 2, EnterBlock)
    BY <1>8, <1>11, <1>12
  <2> HIDE DEF n, p, pg2, tp2, top, pos
  <2> QED  BY <1>2, <1>4, <1>5, <1>9, <1>10, <2>1, <2>2, <2>3 DEF Shape
<1>14. Keeps(code, full, Len(code))
  BY <1>1 DEF Keeps
<1>15. Laid(prog', closes, B1, full, h, st2, phase, FnPrologue, Templates')
  BY <1>3, <1>7, <1>8, <1>13, <1>14, LaidOn
<1> QED  BY <1>4, <1>15

\* The open blocks once the jz of the if is patched.
LEMMA ElseBlocks ==
  ASSUME PatchInv, phase = "compile", NEW f, FlowInv(f), NEW st, NEW pg, NEW c, NEW c2, NEW st2, NEW W, NEW x,
         NEW B1, ElseLists(st, B1), BlocksCode(pg, c, st2, B1), Patches(c, c2, W, x), Top.addr = 0,
         ~LoopAt(pg, Top.at), \A p, k : <<p, k>> \in W <=> p = st[Top.at] + 1 /\ k = 0
  PROVE  /\ BlocksCode(pg, c2, st2, blocks')
         /\ Waits(B1, blocks', W, Len(c), Len(blocks))
<1> DEFINE D == Len(blocks)
           B2 == blocks'
<1>1. D \in 1 .. D /\ D \in Nat /\ Len(B1) = D /\ Len(B2) = D
  BY TopFacts, CurrentFacts DEF ElseLists
<1>2. /\ \A j \in 1 .. D : j # D => B2[j] = B1[j]
      /\ B1[D].at = Top.at /\ B1[D].abs = Top.abs /\ <<st[Top.at] + 1, 0>> \in Pend(B1[D])
      /\ B2[D] \in OpenBlock /\ B2[D].at = Top.at /\ B2[D].kind = "else" /\ B2[D].addr = 0 /\ B2[D].abs = Top.abs
      /\ \A p, k : <<p, k>> \in Pend(B2[D]) <=> <<p, k>> \in Pend(B1[D]) /\ ~(p = st[Top.at] + 1 /\ k = 0)
  BY DEF ElseLists
<1>3. Len(c2) >= Len(c) /\ Len(c2) \in Nat /\ \A p \in 1 .. Len(c) : Len(c2[p].ts) = Len(c[p].ts)
  BY DEF Patches
<1>4. \A p \in 1 .. Len(c) : p \in 1 .. Len(c2)
  BY <1>3
<1>5. ASSUME NEW j \in 1 .. D, j # D PROVE BlockCode(pg, c2, st2, B2[j])
  <2>1. BlockCode(pg, c, st2, B1[j])
    BY <1>1 DEF BlocksCode
  <2>2. \A q \in B1[j].abs : q \in Pend(B1[j])
    BY DEF Pend
  <2>3. B2[j] = B1[j]
    BY <1>2, <1>5
  <2> QED  BY <1>3, <1>4, <2>1, <2>2, <2>3 DEF BlockCode
<1>6. BlockCode(pg, c2, st2, B2[D])
  <2>1. BlockCode(pg, c, st2, B1[D])
    BY <1>1 DEF BlocksCode
  <2>2. ASSUME NEW q \in Pend(B2[D]) PROVE q \in Pend(B1[D])
    <3>1. q \in Nat \X Nat
      BY <1>2, PendFacts
    <3>2. q = <<q[1], q[2]>>
      BY <3>1
    <3>3. <<q[1], q[2]>> \in Pend(B2[D])
      BY <3>2
    <3>4. <<q[1], q[2]>> \in Pend(B1[D])
      BY <1>2, <3>3
    <3> QED  BY <3>2, <3>4
  <2>3. \A q \in Pend(B2[D]) : q[1] \in 1 .. Len(c2)
    BY <1>4, <2>1, <2>2 DEF BlockCode
  <2>4. \A q \in B2[D].abs : q[2] \in 1 .. Len(c2[q[1]].ts)
    <3> SUFFICES ASSUME NEW q \in B2[D].abs PROVE q[2] \in 1 .. Len(c2[q[1]].ts)
      OBVIOUS
    <3>1. q \in B1[D].abs
      BY <1>2
    <3>2. q \in Pend(B1[D])
      BY <3>1 DEF Pend
    <3>3. q[1] \in 1 .. Len(c) /\ q[2] \in 1 .. Len(c[q[1]].ts)
      BY <2>1, <3>1, <3>2 DEF BlockCode
    <3> QED  BY <1>3, <3>3
  <2>5. B2[D].kind # "if"
    BY <1>2
  <2> HIDE DEF B2
  <2> QED  BY <1>2, <2>3, <2>4, <2>5 DEF BlockCode
<1>7. BlocksCode(pg, c2, st2, B2)
  BY <1>1, <1>5, <1>6 DEF BlocksCode
<1>8. ASSUME NEW j \in 1 .. D
      PROVE  /\ B2[j].at = B1[j].at
             /\ \A p \in 1 .. Len(c), k \in Nat : <<p, k>> \in Pend(B2[j]) => <<p, k>> \in Pend(B1[j])
  <2>1. CASE j = D
    BY <1>2, <2>1
  <2>2. CASE j # D
    BY <1>2, <2>2
  <2> QED  BY <2>1, <2>2
<1>9. \A p, k : <<p, k>> \in W => <<p, k>> \in Pend(B1[D])
  BY <1>2
<1>10. Waits(B1, B2, W, Len(c), D)
  BY <1>1, <1>8, <1>9 DEF Waits
<1> QED  BY <1>7, <1>10

\* The jz at q0, and nothing else, leaves the list of the block numbered D, whose opener is top.
ElseTakes(B1, B2, D, W, top, q0) ==
    /\ D \in 1 .. Len(B1) /\ Len(B2) = Len(B1)
    /\ \A j \in 1 .. Len(B1) : j # D => B2[j] = B1[j] /\ B1[j].at # top
    /\ B1[D].at = top /\ B2[D].at = top
    /\ \A i, m : <<i, m>> \in Pend(B2[D]) <=> <<i, m>> \in Pend(B1[D]) /\ ~(i = q0 /\ m = 0)
    /\ \A i, m : <<i, m>> \in W <=> i = q0 /\ m = 0
ElseJump(B1, top, q0, p, k, a, g, op) ==
    /\ a = top /\ op = "enter if" => p = q0 /\ k = 0
    /\ p = q0 /\ k = 0 => op = "enter if"
    /\ \A j \in 1 .. Len(B1) : <<p, k>> \in Pend(B1[j]) <=> g = 0 /\ B1[j].at = a

LEMMA ElseResolved ==
  ASSUME NEW B1, NEW B2, NEW D, NEW W, NEW x, NEW p, NEW k, NEW a, NEW g, NEW g2, NEW op, NEW top, NEW q0,
         ElseKnown(g, g2, op, a, top, x), ElseTakes(B1, B2, D, W, top, q0), ElseJump(B1, top, q0, p, k, a, g, op)
  PROVE  Resolved(B1, B2, W, x, p, k, a, g, g2)
<1> USE DEF ElseTakes, ElseJump
<1>1. CASE g2 = g /\ (a = top => op # "enter if")
  <2>1. ASSUME g = 0, NEW j \in 1 .. Len(B2), <<p, k>> \in Pend(B1[j]) PROVE <<p, k>> \in Pend(B2[j])
    <3>1. CASE j = D
      <4>1. a = top
        BY <2>1, <3>1
      <4>2. ~(p = q0 /\ k = 0)
        BY <1>1, <4>1
      <4> QED  BY <2>1, <3>1, <4>2
    <3>2. CASE j # D
      BY <2>1, <3>2
    <3> QED  BY <3>1, <3>2
  <2> QED  BY <1>1, <2>1 DEF Resolved
<1>2. CASE a = top /\ op = "enter if" /\ g = 0 /\ g2 = x
  <2>1. p = q0 /\ k = 0 /\ <<p, k>> \in W /\ B1[D].at = a
    BY <1>2
  <2>2. \A j \in 1 .. Len(B2) : B2[j].at = a => <<p, k>> \notin Pend(B2[j])
    <3> SUFFICES ASSUME NEW j \in 1 .. Len(B2), B2[j].at = a PROVE <<p, k>> \notin Pend(B2[j])
      OBVIOUS
    <3>1. j = D
      BY <1>2
    <3> QED  BY <2>1, <3>1
  <2> QED  BY <1>2, <2>1, <2>2 DEF Resolved
<1> QED  BY <1>1, <1>2 DEF ElseKnown

LEMMA ElseCode ==
  ASSUME PatchInv, NEW f, FlowInv(f), NEW st, CodeInv(f, st), family' = family, CompileElse
  PROVE  \E h, st2 : FlowInv(h)' /\ CodeInv(h, st2)'
<1> DEFINE n == Len(prog) + 1
           ins == Ins("else", 0)
           D == Len(blocks)
           pg2 == prog'
           c2 == code'
           B2 == blocks'
           cl2 == closes'
           tp2 == Templates'
           top == Top.at
           q0 == st[Top.at] + 1
           W == {<<q0, 0>>}
           x == Len(code) + 4
<1>1. PICK h : FlowInv(h)' /\ Keeps(f, h, Len(prog) + 1)
  BY ElseFlows
<1>2. /\ phase = "compile" /\ phase' = phase /\ prog' = Append(prog, ins) /\ Top.kind = "if"
      /\ cl2 = [closes EXCEPT ![top].els = Here]
  BY DEF CompileElse
<1>3. ins \in Bytecode /\ ins.op = "else"
  BY InsType
<1>4. PICK full : ElseEmits(full) /\ ElsePatches(full)
  BY ElseIs
<1>5. /\ \E B1 : ElseLists(st, B1)
      /\ Top.addr = 0 /\ top \in 1 .. Len(prog) /\ Top.rel[1] = q0 /\ Head(Top.rel) = Top.rel[1]
      /\ Top.rel[1] \in 1 .. Len(code)
      /\ prog[top].op = "if" /\ closes[top].els = 0 /\ closes[top].end = 0
  BY <1>2, ElseIs, ElseOpen
<1>6. PICK B1 : ElseLists(st, B1)
  BY <1>5
<1> HIDE DEF ins
<1>7. \E st2 : /\ Laid(prog', closes, B1, full, h, st2, phase, FnPrologue, Templates')
               /\ Keeps(st, st2, Len(prog) + 1) /\ st2[Len(prog) + 1] = Len(code) + 1
               /\ st2[Len(prog) + 2] = Len(full) + 1
  <2>1. B1 \in Seq(OpenBlock) /\ Fixed(0, Len(code) + 3, B1)
    BY <1>6 DEF ElseLists
  <2>2. Len(EnterBlock) = 2
    BY ElseIs
  <2> QED  BY <1>1, <1>2, <1>3, <1>4, <1>5, <2>1, <2>2, ElseLaid
<1>8. PICK st2 : /\ Laid(prog', closes, B1, full, h, st2, phase, FnPrologue, Templates')
                 /\ Keeps(st, st2, Len(prog) + 1) /\ st2[Len(prog) + 1] = Len(code) + 1
                 /\ st2[Len(prog) + 2] = Len(full) + 1
  BY <1>7
<1>9. Len(prog) \in Nat /\ Len(code) \in Nat /\ Len(full) \in Nat /\ Len(full) = Len(code) + 5 /\ x \in Nat /\ x # 0
  <2>1. Len(prog) \in Nat /\ Len(code) \in Nat
    BY LenProperties DEF PatchInv, CompilerType
  <2>2. Len(full) = Len(code) + 5
    BY <1>4 DEF ElseEmits
  <2> QED  BY <2>1, <2>2
<1>10. Patches(full, c2, W, x) /\ Len(c2) = Len(full)
  <2> DEFINE at == {Head(Top.rel)}
  <2>1. c2 = Patch(full, at, x)
    BY <1>4 DEF ElsePatches
  <2>2. \A p, k : <<p, k>> \in W <=> k = 0 /\ p \in at
    BY <1>5
  <2>3. full \in Seq(Instr) /\ x \in Nat
    BY <1>4, <1>9 DEF ElseEmits
  <2> HIDE DEF at, W, c2, x
  <2>4. Patches(full, Patch(full, at, x), W, x) /\ Len(Patch(full, at, x)) = Len(full)
    BY <2>2, <2>3, PatchWrites
  <2> QED  BY <2>1, <2>4
<1>11. BlocksCode(pg2, full, st2, B1)
  BY <1>8 DEF Laid, BlocksCode
<1>12. /\ pg2 \in Seq(Bytecode) /\ Len(pg2) = n /\ Keeps(prog, pg2, Len(prog)) /\ pg2[n] = ins
  BY <1>2, <1>3, AppendedProg DEF PatchInv, CompilerType, Keeps
<1>13. pg2[top] = prog[top] /\ ~LoopAt(pg2, top) /\ top # 0 /\ st2[top] = st[top]
  <2>1. pg2[top] = prog[top]
    BY <1>5, <1>12 DEF Keeps
  <2>2. top \in 1 .. Len(prog) + 1 /\ top # 0
    BY <1>5, <1>9
  <2> QED  BY <1>5, <1>8, <2>1, <2>2 DEF LoopAt, Keeps
<1>14. BlocksCode(pg2, c2, st2, B2) /\ Waits(B1, B2, W, Len(full), D)
  <2>1. \A p, k : <<p, k>> \in W <=> p = st[Top.at] + 1 /\ k = 0
    OBVIOUS
  <2>2. ~LoopAt(pg2, Top.at)
    BY <1>13
  <2> HIDE DEF pg2, c2, W, x
  <2> QED  BY <1>2, <1>5, <1>6, <1>10, <1>11, <2>1, <2>2, ElseBlocks
<1>15. ElseMarks(pg2, closes, cl2, Aimable(pg2), top, n)
  <2>1. \A a \in Aimable(pg2) : a # 0 => a \in 1 .. MaxLen
    <3> SUFFICES ASSUME NEW a \in Aimable(pg2), a # 0 PROVE a \in 1 .. MaxLen
      OBVIOUS
    <3>1. a \in 1 .. n /\ pg2[a].op \in Openers
      BY <1>12 DEF Aimable
    <3>2. a # n
      BY <1>3, <1>12, <3>1 DEF Openers
    <3>3. a \in 1 .. Len(prog)
      BY <1>9, <3>1, <3>2
    <3>4. prog[a].op \in Openers
      BY <1>12, <3>1, <3>3 DEF Keeps
    <3> QED  BY <3>3, <3>4, OpenerIndex
  <2>2. closes \in [1 .. MaxLen -> [els : Nat, end : Nat]]
    BY DEF FlowInv, Flows, MaxLen
  <2>3. top \in 1 .. MaxLen
    <3>1. prog[top].op \in Openers
      BY <1>5 DEF Openers
    <3> QED  BY <1>5, <3>1, OpenerIndex
  <2>4. Here = n /\ n # 0
    BY <1>9 DEF Here
  <2>5. closes[top] \in [els : Nat, end : Nat]
    BY <2>2, <2>3
  <2> HIDE DEF top, n, cl2, pg2
  <2>6. cl2[top] = [closes[top] EXCEPT !.els = n]
    BY <1>2, <2>2, <2>3, <2>4
  <2>7. cl2[top].els = n /\ cl2[top].end = closes[top].end
    BY <2>5, <2>6
  <2>8. \A a \in 1 .. MaxLen : a # top => cl2[a] = closes[a]
    BY <1>2, <2>2
  <2>9. \A a \in Aimable(pg2) : a # 0 /\ a # top => cl2[a] = closes[a]
    BY <2>1, <2>8
  <2> QED  BY <1>5, <1>13, <2>4, <2>7, <2>9 DEF ElseMarks, top
<1>16. ElseTakes(B1, B2, D, W, top, q0)
  <2>1. D \in 1 .. Len(blocks)
    BY <1>2, TopFacts
  <2>2. /\ Len(B1) = D /\ Len(B2) = D /\ B1[D].at = top /\ B2[D].at = top
        /\ \A j \in 1 .. D : j # D => B1[j] = blocks[j] /\ B2[j] = blocks[j]
        /\ \A p, k : <<p, k>> \in Pend(B2[D]) <=> <<p, k>> \in Pend(B1[D]) /\ ~(p = q0 /\ k = 0)
    BY <1>6 DEF ElseLists
  <2>3. \A j \in 1 .. D : j # D => blocks[j].at # top
    <3>1. Top = blocks[D]
      BY <1>2, TopFacts
    <3> QED  BY <1>2, <2>1, <3>1, AtsApart
  <2>4. \A p, k : <<p, k>> \in W <=> p = q0 /\ k = 0
    OBVIOUS
  <2> HIDE DEF q0, W, B2, top
  <2> QED  BY <2>1, <2>2, <2>3, <2>4 DEF ElseTakes
<1>17. full[q0].op = "enter if"
  <2>1. top \in 1 .. Len(pg2)
    BY <1>5, <1>9, <1>12
  <2>2. Shape(pg2, closes, B1, full, st2, phase, h[top].labels, top, tp2[top])
    BY <1>8, <2>1 DEF Laid
  <2>3. pg2[top].op = "if"
    BY <1>5, <1>13
  <2>4. full[st2[top] + 1].op = "enter if"
    <3> HIDE DEF top, pg2, tp2
    <3> QED  BY <2>2, <2>3 DEF Shape, Jump
  <2> QED  BY <1>13, <2>4
<1>18. st2[n] + 3 = x
  BY <1>8, <1>9
<1>19. AllResolved(pg2, closes, B1, full, st2, phase, cl2, B2, phase, W, x, Aimable(pg2))
  <2> DEFINE A == Aimable(pg2)
  <2> HIDE DEF A
  <2> SUFFICES ASSUME NEW p \in 1 .. Len(full), NEW k \in Nat, NEW a \in A,
                      Goes(pg2, closes, B1, full, st2, phase, p, k, a), Aiming(full, st2, p, k, a)
               PROVE  Resolved(B1, B2, W, x, p, k, a, Goal(pg2, closes, st2, phase, full[p].op, a),
                               Goal(pg2, cl2, st2, phase, full[p].op, a))
    BY DEF AllResolved, A
  <2> DEFINE op == full[p].op
             g == Goal(pg2, closes, st2, phase, op, a)
             g2 == Goal(pg2, cl2, st2, phase, op, a)
  <2>1. ElseKnown(g, g2, op, a, top, x)
    <3> HIDE DEF op
    <3>1. ElseKnown(g, g2, op, a, top, st2[n] + 3)
      <4> HIDE DEF top, n, cl2, pg2
      <4>1. ElseMarks(pg2, closes, cl2, A, top, n)
        BY <1>15 DEF A
      <4> QED  BY <4>1, ElseGoal
    <3> HIDE DEF g, g2, x, n
    <3> QED  BY <1>18, <3>1
  <2>2. \A j \in 1 .. Len(B1) : <<p, k>> \in Pend(B1[j]) <=> g = 0 /\ B1[j].at = a
    BY DEF Goes
  <2>3. a = top /\ op = "enter if" => p = q0 /\ k = 0
    BY <1>13 DEF Aiming
  <2>4. p = q0 /\ k = 0 => op = "enter if"
    BY <1>17
  <2> HIDE DEF g, g2, op, x, top, W, B2, q0
  <2>5. ElseJump(B1, top, q0, p, k, a, g, op)
    BY <2>2, <2>3, <2>4 DEF ElseJump
  <2>6. Resolved(B1, B2, W, x, p, k, a, g, g2)
    BY <1>16, <2>1, <2>5, ElseResolved
  <2> QED  BY <2>6 DEF g, g2, op
<1>20. /\ AllAlike(B1, B2, full, c2, Len(full))
       /\ AllGo(pg2, closes, B1, full, st2, phase, pg2, cl2, B2, c2, st2, phase, Len(full), Aimable(pg2))
  <2>1. x \in Nat \ {0}
    BY <1>9
  <2> HIDE DEF pg2, cl2, W, x, c2, B2
  <2> QED  BY <1>10, <1>14, <1>19, <2>1, PatchedGo
<1>21. FnPrologue' = FnPrologue /\ Len(FnPrologue) \in Nat /\ Sized(tp2, Len(pg2))
  <2>1. /\ FnPrologue' = FnPrologue /\ Len(FnPrologue) \in Nat
        /\ \A i \in 1 .. Len(prog) : tp2[i] = Templates[i] /\ Len(Templates[i]) \in Nat
        /\ tp2[n] = IF ins.op \in PlainOps THEN Template(ins) ELSE <<>>
    BY <1>2, <1>3, TemplatesGrow, TemplatesLen
  <2>2. tp2[n] = <<>>
    BY <1>3, <2>1 DEF PlainOps, Binary, Unary
  <2>3. Len(tp2[n]) \in Nat
    BY <2>2
  <2>4. \A i \in 1 .. n : i = n \/ i \in 1 .. Len(prog)
    BY <1>9
  <2> HIDE DEF n, tp2, pg2
  <2> QED  BY <1>12, <2>1, <2>3, <2>4 DEF Sized
<1>22. Laid(pg2, cl2, B2, c2, h, st2, phase, FnPrologue, tp2)
  <2> DEFINE open == OpenAts'
  <2>1. Len(c2) \in Nat /\ Len(c2) >= Len(full)
    BY <1>10 DEF Patches
  <2>2. Laid(pg2, closes, B1, full, h, st2, phase, FnPrologue, tp2)
    BY <1>8
  <2>3. Flows(pg2, family, cl2, open, h)
    BY <1>1 DEF FlowInv
  <2> HIDE DEF pg2, cl2, c2, B2, tp2, open
  <2> QED  BY <1>9, <1>12, <1>14, <1>20, <1>21, <2>1, <2>2, <2>3, Relaid
<1>23. CodeInv(h, st2)'
  <2>1. st2[Len(pg2) + 1] = Len(c2) + 1
    <3>1. Len(pg2) + 1 = Len(prog) + 2
      BY <1>9, <1>12
    <3> QED  BY <1>8, <1>10, <3>1
  <2>2. phase' = phase /\ phase = "compile"
    BY <1>2
  <2> QED  BY <1>21, <1>22, <2>1, <2>2 DEF CodeInv, pg2, cl2, c2, B2, tp2
<1> QED  BY <1>1, <1>23

-----------------------------------------------------------------------------
(* All steps.                                                              *)

LEMMA InitCode ==
  ASSUME Init
  PROVE  \E f, st : FlowInv(f) /\ CodeInv(f, st)
<1> DEFINE b == Block("fn", "none", 0, <<>>, 0, 0)
           q == Len(FnPrologue) + 1
           st == [i \in 1 .. 1 |-> q]
<1>1. PICK f : FlowInv(f) /\ f[1] = Entered
  BY InitFlows
<1>2. PatchInv
  BY InitPatch
<1>3. phase = "compile" /\ prog = <<>> /\ code = FnPrologue /\ blocks = <<b>>
  BY DEF Init
<1>4. Len(prog) = 0 /\ Len(blocks) = 1 /\ blocks[1] = b
  <2> HIDE DEF b
  <2> QED  BY <1>3
<1>5. b.at = 0 /\ b.kind = "fn" /\ b.addr = 0 /\ Pend(b) = {} /\ b.abs = {}
  <2>1. b.at = 0 /\ b.kind = "fn" /\ b.addr = 0 /\ b.rel = <<>> /\ b.abs = {}
    BY DEF Block
  <2>2. Range(<<>>) = {}
    BY DEF Range
  <2> HIDE DEF b
  <2> QED  BY <2>1, <2>2 DEF Pend
<1>6. Len(FnPrologue) \in Nat /\ q \in Nat
  <2>1. Len(code) \in Nat
    BY <1>2, LenProperties DEF PatchInv, CompilerType
  <2> QED  BY <1>3, <2>1
<1> HIDE DEF b
<1>7. \A i : Idle(blocks, i)
  <2>1. \A j \in 1 .. 1 : j = 1
    OBVIOUS
  <2> QED  BY <1>4, <1>5, <2>1 DEF Idle
<1>8. Fix(blocks, code, 0, FnPrologue)
  <2>1. \A k \in 1 .. Len(FnPrologue) : 0 + k = k
    BY <1>6
  <2> QED  BY <1>3, <1>7, <2>1 DEF Fix
<1>9. BlockCode(prog, code, st, blocks[1])
  <2>1. ~LoopAt(prog, 0)
    BY DEF LoopAt
  <2> HIDE DEF st
  <2> QED  BY <1>4, <1>5, <2>1 DEF BlockCode
<1>10. st \in [1 .. Len(prog) + 1 -> 1 .. Len(code) + 1] /\ st[1] = q
  <2>1. q \in 1 .. Len(code) + 1 /\ 1 \in 1 .. 1
    BY <1>3, <1>6
  <2>2. 1 .. Len(prog) + 1 = 1 .. 1
    BY <1>4
  <2> QED  BY <2>1, <2>2
<1>11. Laid(prog, closes, blocks, code, f, st, phase, FnPrologue, Templates)
  <2>1. 1 .. Len(prog) = {} /\ \A j \in 1 .. Len(blocks) : j = 1
    BY <1>4
  <2> HIDE DEF st
  <2> QED  BY <1>8, <1>9, <1>10, <2>1 DEF Laid
<1>12. CodeInv(f, st)
  <2>1. st[Len(prog) + 1] = Len(code) + 1
    BY <1>3, <1>4, <1>10
  <2> HIDE DEF st
  <2> QED  BY <1>3, <1>11, <2>1 DEF CodeInv
<1> QED  BY <1>1, <1>12

\* A step that leaves the compiler alone.
LEMMA OtherCode ==
  ASSUME PatchInv, NEW f, FlowInv(f), NEW st, CodeInv(f, st),
         UNCHANGED compiler, phase = "compile" <=> phase' = "compile"
  PROVE  FlowInv(f)' /\ CodeInv(f, st)'
<1>1. /\ family' = family /\ prog' = prog /\ code' = code /\ blocks' = blocks /\ height' = height /\ live' = live
      /\ closes' = closes
  BY DEF compiler
<1>2. FlowInv(f)'
  <2>1. OpenAts' = OpenAts /\ Now' = Now
    BY <1>1 DEF OpenAts, Now
  <2> QED  BY <1>1, <2>1 DEF FlowInv
<1> DEFINE L == Len(code)
<1>3. L \in Nat /\ L >= L /\ prog \in Seq(Bytecode) /\ Len(FnPrologue) \in Nat /\ Sized(Templates, Len(prog))
  <2>1. L \in Nat
    BY LenProperties DEF PatchInv, CompilerType
  <2>2. Sized(Templates, Len(prog)) /\ Len(FnPrologue) \in Nat
    BY TemplatesLen DEF Sized
  <2> QED  BY <2>1, <2>2 DEF PatchInv, CompilerType
<1>4. FnPrologue' = FnPrologue /\ Templates' = Templates
  BY <1>1 DEF FnPrologue, NLocals, NArgs, Templates, Template, CallIfn, NLocals
<1>5. Laid(prog, closes, blocks, code, f, st, phase, FnPrologue, Templates)
  BY DEF CodeInv
<1> DEFINE ph2 == phase'
<1>6. \A op, a : Goal(prog, closes, st, ph2, op, a) = Goal(prog, closes, st, phase, op, a)
  <2>1. phase # "compile" <=> ph2 # "compile"
    OBVIOUS
  <2> HIDE DEF ph2
  <2> QED  BY <2>1 DEF Goal
<1>7. AllAlike(blocks, blocks, code, code, L)
  BY DEF AllAlike, Alike
<1>8. AllGo(prog, closes, blocks, code, st, phase, prog, closes, blocks, code, st, ph2, L, Aimable(prog))
  <2> HIDE DEF ph2
  <2> QED  BY <1>6 DEF AllGo, Goes
<1>9. BlocksCode(prog, code, st, blocks)
  BY <1>5 DEF Laid, BlocksCode
<1>10. Laid(prog, closes, blocks, code, f, st, ph2, FnPrologue, Templates)
  <2>1. Flows(prog, family, closes, OpenAts, f)
    BY DEF FlowInv
  <2> HIDE DEF ph2
  <2> QED  BY <1>3, <1>5, <1>7, <1>8, <1>9, <2>1, Relaid
<1>11. CodeInv(f, st)'
  BY <1>1, <1>4, <1>10 DEF CodeInv
<1> QED  BY <1>2, <1>11

LEMMA CompileKeepsCode ==
  ASSUME PatchInv, NEW f, FlowInv(f), NEW st, CodeInv(f, st), CompileStep
  PROVE  \E h, st2 : FlowInv(h)' /\ CodeInv(h, st2)'
<1>1. family' = family /\ family \in Families
  BY DEF CompileStep, PatchInv, CompilerType
<1>2. ASSUME NEW ins \in PlainIns, CompilePlain(ins) PROVE \E h, st2 : FlowInv(h)' /\ CodeInv(h, st2)'
  BY <1>1, <1>2, PlainCode
<1>3. ASSUME NEW p \in family.openers, CompileBlock(p[1], p[2])
      PROVE  \E h, st2 : FlowInv(h)' /\ CodeInv(h, st2)'
  <2>1. p = <<p[1], p[2]>>
    <3>1. p \in {"block", "loop", "if"} \X {0, 1}
      BY <1>1, FamilyFacts
    <3> QED  BY <3>1
  <2>2. <<p[1], p[2]>> \in family.openers
    BY <2>1
  <2> QED  BY <1>1, <1>3, <2>2, OpenCode
<1>4. ASSUME NEW p \in family.openers, p[1] = "if", CompileIf(p[2])
      PROVE  \E h, st2 : FlowInv(h)' /\ CodeInv(h, st2)'
  <2>1. p = <<p[1], p[2]>>
    <3>1. p \in {"block", "loop", "if"} \X {0, 1}
      BY <1>1, FamilyFacts
    <3> QED  BY <3>1
  <2>2. <<"if", p[2]>> \in family.openers
    BY <1>4, <2>1
  <2> QED  BY <1>1, <1>4, <2>2, IfCode
<1>5. CASE CompileElse
  BY <1>1, <1>5, ElseCode
<1>6. CASE CompileEnd
  BY <1>1, <1>6, EndCode
<1>7. CASE CompileReturn
  BY <1>1, <1>7, ReturnCode
<1>8. ASSUME NEW d \in Depths, CompileBr(d) PROVE \E h, st2 : FlowInv(h)' /\ CodeInv(h, st2)'
  BY <1>1, <1>8, BrCode
<1>9. ASSUME NEW d \in Depths, CompileBrIf(d) PROVE \E h, st2 : FlowInv(h)' /\ CodeInv(h, st2)'
  BY <1>1, <1>9, BrIfCode
<1>10. ASSUME NEW d \in Depths, NEW ts \in {<<t>> : t \in Depths}, "br_table" \in family.branches, CompileBrTable(ts, d)
       PROVE  \E h, st2 : FlowInv(h)' /\ CodeInv(h, st2)'
  <2>1. PICK t \in Depths : ts = <<t>>
    OBVIOUS
  <2>2. ts \in Seq(Depths)
    BY <2>1, Tuple1
  <2> QED  BY <1>1, <1>10, <2>2, BrTableCode
<1> QED  BY <1>2, <1>3, <1>4, <1>5, <1>6, <1>7, <1>8, <1>9, <1>10 DEF CompileStep

\* What the code compiled so far looks like.
LaidOut == \E f, st : FlowInv(f) /\ CodeInv(f, st)

LEMMA NextCode ==
  ASSUME PatchInv, LaidOut, [Next]_vars
  PROVE  LaidOut'
<1>1. PICK f, st : FlowInv(f) /\ CodeInv(f, st)
  BY DEF LaidOut
<1>2. CASE CompileStep
  BY <1>1, <1>2, CompileKeepsCode DEF LaidOut
<1>3. CASE UNCHANGED compiler /\ (phase = "compile" <=> phase' = "compile")
  BY <1>1, <1>3, OtherCode DEF LaidOut
<1>4. ASSUME NEW args, Enter(args) PROVE LaidOut'
  BY <1>3, <1>4 DEF Enter
<1>5. CASE RunStep
  BY <1>3, <1>5, RunKeepsCompiler
<1>6. CASE Stop
  BY <1>3, <1>6 DEF Stop, vars
<1>7. CASE UNCHANGED vars
  BY <1>3, <1>7 DEF vars
<1> QED  BY <1>2, <1>4, <1>5, <1>6, <1>7 DEF Next

\* Every function, however long and however its blocks nest, is laid out as its bytecode says: the
\* code of each instruction is its handler's, in the order of the bytecode, and each jump, jz and
\* table entry that CompileFn emits - for a br, br_if, br_table, if or else - goes to the end of
\* the block it names, to the else of its if or back to the head of its loop, as soon as that
\* place is known; until then its block, and no other, will patch it.  Before each instruction the
\* bytecode's open blocks and the height of its operand stack are known, as a validator has them.
THEOREM EveryBranchAimed == Spec => []LaidOut
<1>1. Init => PatchInv /\ LaidOut
  BY InitPatch, InitCode DEF LaidOut
<1>2. PatchInv /\ LaidOut /\ [Next]_vars => PatchInv' /\ LaidOut'
  BY NextPatch, NextCode
<1> QED  BY <1>1, <1>2, PTL DEF Spec
=============================================================================
