-------------------------- MODULE StackRun_proofs --------------------------
(***************************************************************************)
(* What the emitted code of StackCode does, for functions of every length: *)
(* at every instruction the machine holds the operands, the open blocks    *)
(* and the locals that the bytecode means, and it returns what the         *)
(* bytecode returns.                                                       *)
(*                                                                         *)
(* Of each instruction it is proved that the machine, started past its     *)
(* `mov r12', arrives where the direct reading's step leads (Arrives); the *)
(* invariant of a run is that it is on such a way.                         *)
(***************************************************************************)
EXTENDS StackLayout_proofs

-----------------------------------------------------------------------------
(* The machine between instructions: rdi and the native stack are where    *)
(* the open blocks labs and the operands vals put them, and each operand   *)
(* is at its place.                                                        *)

Saved(labs) == <<RetAddr>> \o [j \in 1 .. Len(labs) |-> Base + labs[j].height + j]

\* Operand k is above the slots of the labels up to c.
Above(labs, c, k) == labs[c].height < k /\ (c < Len(labs) => k <= labs[c + 1].height)
Shows(x, labs, vals) == \A c \in 1 .. Len(labs), k \in 1 .. Len(vals) : Above(labs, c, k) => View(x, k + c) = vals[k]

Match(labs, vals, x) ==
    /\ Typed(family, x) /\ x.rbx = 0
    /\ x.rdi = Base + Len(vals) + Len(labs)
    /\ x.native = Saved(labs)
    /\ Shows(x, labs, vals)

\* The labels are in order and there is room for them and h operands.
Tidy(labs, h) ==
    /\ h + Len(labs) <= family.len + 1
    /\ \A j \in 1 .. Len(labs) : labs[j].height <= h /\ \A k \in 1 .. j - 1 : labs[k].height <= labs[j].height

LEMMA LabelsAre ==
  ASSUME NEW labs \in Seq(Labels)
  PROVE  /\ Len(labs) \in Nat
         /\ \A j \in 1 .. Len(labs) : labs[j] \in Labels /\ labs[j].height \in Nat /\ labs[j].at \in Nat
<1>1. \A j \in 1 .. Len(labs) : labs[j] \in Labels
  BY ElementOfSeq
<1> QED  BY <1>1, LenProperties DEF Labels

LEMMA SavedFacts ==
  ASSUME NEW labs \in Seq(Labels)
  PROVE  /\ Saved(labs) \in Seq(Nat) /\ Len(Saved(labs)) = Len(labs) + 1
         /\ Saved(labs)[1] = RetAddr
         /\ \A j \in 1 .. Len(labs) : Saved(labs)[j + 1] = Base + labs[j].height + j /\ Saved(labs)[j + 1] # RetAddr
<1> DEFINE r == <<RetAddr>>
           s == [j \in 1 .. Len(labs) |-> Base + labs[j].height + j]
<1>1. Len(labs) \in Nat /\ \A j \in 1 .. Len(labs) : labs[j].height \in Nat
  BY LabelsAre
<1>2. r \in Seq(Nat) /\ Len(r) = 1 /\ r[1] = RetAddr
  BY DEF RetAddr
<1>3. \A j \in 1 .. Len(labs) : s[j] = Base + labs[j].height + j /\ s[j] \in Nat
  BY <1>1 DEF Base
<1>4. s \in Seq(Nat) /\ Len(s) = Len(labs)
  BY <1>1, <1>3
<1> HIDE DEF r, s
<1>5. /\ r \o s \in Seq(Nat) /\ Len(r \o s) = Len(r) + Len(s)
      /\ \A i \in 1 .. Len(r) : (r \o s)[i] = r[i]
      /\ \A i \in 1 .. Len(s) : (r \o s)[Len(r) + i] = s[i]
  <2>1. r \in Seq(Nat) /\ s \in Seq(Nat)
    BY <1>2, <1>4
  <2> QED  BY <2>1, ConcatFacts
<1>6. Saved(labs) = r \o s
  BY DEF Saved, r, s
<1>7. \A j \in 1 .. Len(labs) : Saved(labs)[j + 1] = s[j]
  <2> TAKE j \in 1 .. Len(labs)
  <2>1. Len(r) + j = j + 1
    BY <1>2
  <2> QED  BY <1>4, <1>5, <1>6, <2>1
<1>8. Saved(labs)[1] = RetAddr /\ Len(Saved(labs)) = Len(labs) + 1
  <2>1. 1 \in 1 .. Len(r) /\ Len(r) + Len(s) = Len(labs) + 1
    BY <1>1, <1>2, <1>4
  <2> QED  BY <1>2, <1>5, <1>6, <2>1
<1>9. \A j \in 1 .. Len(labs) : Base + labs[j].height + j # RetAddr
  BY <1>1 DEF Base, RetAddr
<1> QED  BY <1>3, <1>5, <1>6, <1>7, <1>8, <1>9

LEMMA SavedIs ==
  ASSUME NEW labs \in Seq(Labels), NEW s \in Seq(Nat), Len(s) = Len(labs) + 1, s[1] = RetAddr,
         \A j \in 1 .. Len(labs) : s[j + 1] = Base + labs[j].height + j
  PROVE  s = Saved(labs)
<1>1. /\ Saved(labs) \in Seq(Nat) /\ Len(Saved(labs)) = Len(labs) + 1 /\ Saved(labs)[1] = RetAddr
      /\ \A j \in 1 .. Len(labs) : Saved(labs)[j + 1] = Base + labs[j].height + j
  BY SavedFacts
<1>2. \A i \in 1 .. Len(s) : s[i] = Saved(labs)[i]
  <2> TAKE i \in 1 .. Len(s)
  <2>1. CASE i = 1
    BY <1>1, <2>1
  <2>2. CASE i # 1
    <3>1. Len(labs) \in Nat
      BY LabelsAre
    <3>2. i - 1 \in 1 .. Len(labs) /\ (i - 1) + 1 = i
      BY <2>2, <3>1
    <3> QED  BY <1>1, <3>2
  <2> QED  BY <2>1, <2>2
<1> QED  BY <1>1, <1>2, SeqEqual

LEMMA UptoFacts ==
  ASSUME NEW S, NEW s \in Seq(S), NEW k \in 0 .. Len(s)
  PROVE  /\ Upto(s, k) \in Seq(S) /\ Len(Upto(s, k)) = k /\ \A i \in 1 .. k : Upto(s, k)[i] = s[i]
<1>1. Len(s) \in Nat /\ k \in Nat
  BY LenProperties
<1> QED  BY <1>1 DEF Upto

LEMMA SavedUpto ==
  ASSUME NEW labs \in Seq(Labels), NEW k \in 0 .. Len(labs)
  PROVE  Upto(Saved(labs), k + 1) = Saved(Upto(labs, k))
<1> DEFINE l == Upto(labs, k)
           s == Upto(Saved(labs), k + 1)
<1>1. Len(labs) \in Nat /\ k + 1 \in 0 .. Len(Saved(labs)) /\ Saved(labs) \in Seq(Nat)
  <2>1. Len(labs) \in Nat /\ Len(Saved(labs)) = Len(labs) + 1 /\ Saved(labs) \in Seq(Nat)
    BY LabelsAre, SavedFacts
  <2> QED  BY <2>1
<1>2. l \in Seq(Labels) /\ Len(l) = k /\ \A i \in 1 .. k : l[i] = labs[i]
  BY UptoFacts
<1>3. s \in Seq(Nat) /\ Len(s) = k + 1 /\ \A i \in 1 .. k + 1 : s[i] = Saved(labs)[i]
  BY <1>1, UptoFacts
<1> HIDE DEF l, s
<1>4. s[1] = RetAddr
  <2>1. 1 \in 1 .. k + 1
    BY <1>1
  <2> QED  BY <1>3, <2>1, SavedFacts
<1>5. \A j \in 1 .. k : s[j + 1] = Base + l[j].height + j
  <2> TAKE j \in 1 .. k
  <2>1. j + 1 \in 1 .. k + 1 /\ j \in 1 .. Len(labs)
    BY <1>1
  <2>2. s[j + 1] = Saved(labs)[j + 1] /\ l[j] = labs[j]
    BY <1>2, <1>3, <2>1
  <2> QED  BY <2>1, <2>2, SavedFacts
<1>6. s = Saved(l)
  BY <1>2, <1>3, <1>4, <1>5, SavedIs
<1> QED  BY <1>6 DEF l, s

LEMMA SavedAppend ==
  ASSUME NEW labs \in Seq(Labels), NEW l \in Labels
  PROVE  Append(Saved(labs), Base + l.height + Len(labs) + 1) = Saved(Append(labs, l))
<1> DEFINE e == Base + l.height + Len(labs) + 1
           t == Append(labs, l)
           s == Append(Saved(labs), e)
           D == Len(labs)
<1>1. D \in Nat /\ l.height \in Nat /\ e \in Nat
  BY LabelsAre DEF Labels, Base
<1>2. t \in Seq(Labels) /\ Len(t) = D + 1 /\ t[D + 1] = l /\ \A j \in 1 .. D : t[j] = labs[j]
  BY AppendProperties
<1>3. Saved(labs) \in Seq(Nat) /\ Len(Saved(labs)) = D + 1
  BY SavedFacts
<1> HIDE DEF e, t
<1>4. s \in Seq(Nat) /\ Len(s) = D + 1 + 1 /\ s[D + 1 + 1] = e /\ \A i \in 1 .. D + 1 : s[i] = Saved(labs)[i]
  BY <1>1, <1>3, AppendProperties
<1> HIDE DEF s, D
<1>5. s[1] = RetAddr
  <2>1. 1 \in 1 .. D + 1
    BY <1>1
  <2> QED  BY <1>4, <2>1, SavedFacts
<1>6. \A j \in 1 .. D + 1 : s[j + 1] = Base + t[j].height + j
  <2> TAKE j \in 1 .. D + 1
  <2>1. CASE j = D + 1
    <3>1. e = Base + l.height + (D + 1)
      BY <1>1 DEF e, D, Base
    <3> QED  BY <1>2, <1>4, <2>1, <3>1
  <2>2. CASE j # D + 1
    <3>1. j \in 1 .. D /\ j + 1 \in 1 .. D + 1
      BY <1>1, <2>2
    <3>2. s[j + 1] = Saved(labs)[j + 1] /\ t[j] = labs[j]
      BY <1>2, <1>4, <3>1
    <3> QED  BY <3>1, <3>2, SavedFacts DEF D
  <2> QED  BY <2>1, <2>2
<1>7. s = Saved(t)
  <2>1. Len(s) = Len(t) + 1
    BY <1>2, <1>4
  <2>2. \A j \in 1 .. Len(t) : s[j + 1] = Base + t[j].height + j
    BY <1>2, <1>6
  <2> QED  BY <1>2, <1>4, <1>5, <2>1, <2>2, SavedIs
<1> QED  BY <1>7 DEF s, t, e, D

LEMMA MatchFacts ==
  ASSUME family \in Families, NEW labs \in Seq(Labels), NEW vals \in Seq(Nat), NEW x, Match(labs, vals, x),
         Tidy(labs, Len(vals))
  PROVE  /\ x = Core(x.ip, x.rax, x.rcx, x.rdi, 0, x.mem, x.lmem, Saved(labs))
         /\ x.rax \in Nat /\ x.rdi \in Nat /\ x.mem \in [SlotsOf(family) -> Nat] /\ x.lmem \in [LocalsOf(family) -> Nat]
         /\ Len(labs) \in Nat /\ Len(vals) \in Nat /\ family.len \in Nat
         /\ Len(vals) + Len(labs) <= family.len + 1
         /\ x.rdi = Len(vals) + Len(labs) + 1
         /\ \A q \in 0 .. Len(vals) + Len(labs) + 1 : Base + q \in SlotsOf(family)
         /\ \A q \in Nat : q < Len(vals) + Len(labs) => View(x, q) = x.mem[Base + q]
         /\ View(x, Len(vals) + Len(labs)) = x.rax
<1>1. Len(labs) \in Nat /\ Len(vals) \in Nat /\ family.len \in Nat
  <2>1. Len(labs) \in Nat
    BY LabelsAre
  <2>2. Len(vals) \in Nat
    BY LenProperties
  <2>3. family.len \in Nat
    BY FamilyFacts DEF MaxLen
  <2> QED  BY <2>1, <2>2, <2>3
<1>2. /\ x = Core(x.ip, x.rax, x.rcx, x.rdi, x.rbx, x.mem, x.lmem, x.native) /\ x.rbx = 0 /\ x.native = Saved(labs)
      /\ x.rax \in Nat /\ x.rdi \in Nat /\ x.mem \in [SlotsOf(family) -> Nat] /\ x.lmem \in [LocalsOf(family) -> Nat]
  BY DEF Match, Typed
<1>3. x.rdi = Len(vals) + Len(labs) + 1 /\ Len(vals) + Len(labs) <= family.len + 1
  BY <1>1 DEF Match, Tidy, Base
<1>4. \A q \in 0 .. Len(vals) + Len(labs) + 1 : Base + q \in SlotsOf(family)
  BY <1>1, <1>3 DEF SlotsOf, Base
<1>5. \A q \in Nat : q < Len(vals) + Len(labs) => View(x, q) = x.mem[Base + q]
  BY <1>1, <1>3 DEF View, Base
<1>6. View(x, Len(vals) + Len(labs)) = x.rax
  BY <1>1, <1>3 DEF View, Base
<1> QED  BY <1>1, <1>2, <1>3, <1>4, <1>5, <1>6

\* EnterBlock opens a block.
LEMMA EnterMatch ==
  ASSUME family \in Families, NEW labs \in Seq(Labels), NEW vals \in Seq(Nat), NEW x, Match(labs, vals, x),
         Tidy(labs, Len(vals)), NEW c, NEW p \in Nat, x.ip = p + 1, Has(c, p, EnterBlock), NEW at \in Nat
  PROVE  \E y : /\ Runs(family, c, x, y) /\ y.ip = p + 3 /\ y.lmem = x.lmem
                /\ Match(Append(labs, Label(at, Len(vals))), vals, y)
<1> DEFINE D == Len(labs)
           H == Len(vals)
           l == Label(at, H)
           labs2 == Append(labs, l)
           d2 == x.rdi + 1
           m2 == [x.mem EXCEPT ![x.rdi] = x.rax]
           nat2 == Append(Saved(labs), d2)
           y == Core(p + 1 + 1 + 1, x.rax, x.rcx, d2, 0, m2, x.lmem, nat2)
<1>1. /\ x = Core(x.ip, x.rax, x.rcx, x.rdi, 0, x.mem, x.lmem, Saved(labs))
      /\ x.rax \in Nat /\ x.rdi \in Nat /\ x.mem \in [SlotsOf(family) -> Nat] /\ x.lmem \in [LocalsOf(family) -> Nat]
      /\ D \in Nat /\ H \in Nat /\ family.len \in Nat
      /\ H + D <= family.len + 1
      /\ x.rdi = H + D + 1
      /\ \A q \in 0 .. H + D + 1 : Base + q \in SlotsOf(family)
      /\ \A q \in Nat : q < H + D => View(x, q) = x.mem[Base + q]
      /\ View(x, H + D) = x.rax
  BY MatchFacts
<1>2. c[p + 1].op = "expand" /\ c[p + 1 + 1].op = "push rdi"
  <2>1. c[p + 1] = _PushExpandStack /\ c[p + 1 + 1] = PushRdi
    BY HasTwo DEF EnterBlock
  <2> QED  BY <2>1, InsFields DEF _PushExpandStack, PushRdi
<1>3. l \in Labels /\ l.height = H
  BY <1>1 DEF Label, Labels
<1> HIDE DEF l
<1>4. labs2 \in Seq(Labels) /\ Len(labs2) = D + 1 /\ labs2[D + 1] = l /\ \A j \in 1 .. D : labs2[j] = labs[j]
  BY <1>3, AppendProperties
<1>5. nat2 = Saved(labs2)
  <2>1. Base + l.height + Len(labs) + 1 = d2
    BY <1>1, <1>3 DEF Base
  <2> QED  BY <1>3, <2>1, SavedAppend
<1>6. Runs(family, c, x, y)
  <2>1. Runs(family, c, Core(p + 1, x.rax, x.rcx, x.rdi, 0, x.mem, x.lmem, Saved(labs)),
                        Core(p + 1 + 1, x.rax, x.rcx, d2, 0, m2, x.lmem, Saved(labs)))
    BY <1>2, GoExpand
  <2>2. Runs(family, c, Core(p + 1 + 1, x.rax, x.rcx, d2, 0, m2, x.lmem, Saved(labs)), y)
    BY <1>2, GoPushRdi
  <2> HIDE DEF y, d2, m2
  <2>3. Runs(family, c, Core(p + 1, x.rax, x.rcx, x.rdi, 0, x.mem, x.lmem, Saved(labs)), y)
    BY <2>1, <2>2, RunsOn
  <2> QED  BY <1>1, <2>3
<1>7. /\ y.ip = p + 1 + 1 + 1 /\ y.rax = x.rax /\ y.rdi = d2 /\ y.rbx = 0 /\ y.mem = m2 /\ y.lmem = x.lmem
      /\ y.native = nat2
  BY DEF Core
<1>8. m2 \in [SlotsOf(family) -> Nat] /\ x.rdi \in SlotsOf(family) /\ d2 \in Nat /\ p + 1 + 1 + 1 \in Nat
      /\ p + 1 + 1 + 1 = p + 3 /\ d2 = H + D + 2
  <2>1. H + D \in 0 .. H + D + 1 /\ Base + (H + D) = x.rdi /\ x.rdi + 1 \in Nat /\ x.rdi + 1 = H + D + 2
    BY <1>1 DEF Base
  <2>2. x.rdi \in SlotsOf(family)
    BY <1>1, <2>1
  <2>3. p + 1 + 1 + 1 \in Nat /\ p + 1 + 1 + 1 = p + 3
    OBVIOUS
  <2> QED  BY <1>1, <2>1, <2>2, <2>3
<1>9. Typed(family, y)
  BY <1>1, <1>8, CoreTyped
<1>10. m2[x.rdi] = x.rax /\ \A k \in SlotsOf(family) : k # x.rdi => m2[k] = x.mem[k]
  BY <1>1, <1>8
<1> HIDE DEF y, m2, d2, nat2, labs2
<1>11. \A q \in 1 .. H + D : View(y, q) = View(x, q)
  <2> TAKE q \in 1 .. H + D
  <2>1. q # d2 - Base /\ q \in 0 .. H + D + 1 /\ q \in Nat /\ (q < H + D => Base + q # x.rdi) /\ (q = H + D => Base + q = x.rdi)
    BY <1>1, <1>8 DEF Base
  <2>2. View(y, q) = m2[Base + q] /\ Base + q \in SlotsOf(family)
    BY <1>1, <1>7, <2>1 DEF View
  <2>3. CASE q < H + D
    BY <1>1, <1>10, <2>1, <2>2, <2>3
  <2>4. CASE q = H + D
    BY <1>1, <1>10, <2>1, <2>2, <2>4
  <2>5. q < H + D \/ q = H + D
    <3>1. D \in Nat /\ H \in Nat
      BY <1>1
    <3> HIDE DEF D, H
    <3> QED  BY <3>1
  <2> QED  BY <2>3, <2>4, <2>5
<1>12. Shows(y, labs2, vals)
  <2> SUFFICES ASSUME NEW e \in 1 .. D + 1, NEW k \in 1 .. H, Above(labs2, e, k) PROVE View(y, k + e) = vals[k]
    BY <1>4 DEF Shows
  <2>1. e # D + 1
    BY <1>1, <1>3, <1>4 DEF Above
  <2>2. e \in 1 .. D /\ k + e \in 1 .. H + D
    <3>1. D \in Nat /\ H \in Nat
      BY <1>1
    <3> HIDE DEF D, H
    <3> QED  BY <2>1, <3>1
  <2>3. Above(labs, e, k)
    <3>1. labs2[e] = labs[e] /\ (e < D => labs2[e + 1] = labs[e + 1])
      <4>1. e < D => e + 1 \in 1 .. D
        BY <1>1
      <4> QED  BY <1>4, <2>2, <4>1
    <3>2. e < D => e < D + 1
      BY <1>1
    <3> QED  BY <1>4, <3>1, <3>2 DEF Above
  <2>4. View(x, k + e) = vals[k]
    BY <2>2, <2>3 DEF Match, Shows
  <2> QED  BY <1>11, <2>2, <2>4
<1>13. y.rdi = Base + H + (D + 1)
  BY <1>1, <1>7, <1>8 DEF Base
<1>14. Match(labs2, vals, y)
  BY <1>4, <1>5, <1>7, <1>9, <1>12, <1>13 DEF Match
<1> QED  BY <1>6, <1>7, <1>8, <1>14 DEF labs2, l

\* Pop rdi, n times, above the return address.
Popping(c, p, n) == \A k \in 1 .. n : c[p + k].op = "pop rdi"
Marked(s) == \A j \in 2 .. Len(s) : s[j] # RetAddr

LEMMA PopsRun ==
  ASSUME NEW fam, NEW c, NEW p \in Nat, NEW n \in Nat, n >= 1, NEW s \in Seq(Nat), n < Len(s),
         Popping(c, p, n), Marked(s),
         NEW a, NEW cx, NEW di, NEW bx, NEW m, NEW lm
  PROVE  Runs(fam, c, Core(p + 1, a, cx, di, bx, m, lm, s),
                      Core(p + 1 + n, a, cx, s[Len(s) - n + 1], bx, m, lm, Upto(s, Len(s) - n)))
<1> DEFINE L == Len(s)
           R(k) == IF k = 0 THEN di ELSE s[L - k + 1]
           g == [k \in 0 .. n |-> Core(p + 1 + k, a, cx, R(k), bx, m, lm, Upto(s, L - k))]
<1>1. L \in Nat /\ 0 \in 0 .. n /\ n \in 0 .. n
  BY LenProperties
<1>2. \A k \in 0 .. n : g[k] = Core(p + 1 + k, a, cx, R(k), bx, m, lm, Upto(s, L - k))
  OBVIOUS
<1>3. \A k \in 0 .. n : Upto(s, L - k) \in Seq(Nat) /\ Len(Upto(s, L - k)) = L - k /\ \A i \in 1 .. L - k : Upto(s, L - k)[i] = s[i]
  <2> TAKE k \in 0 .. n
  <2>1. L - k \in 0 .. Len(s)
    BY <1>1
  <2> QED  BY <2>1, UptoFacts
<1> HIDE DEF g
<1>4. g[0] = Core(p + 1, a, cx, di, bx, m, lm, s)
  <2>1. Upto(s, L) = s
    <3>1. Upto(s, L - 0) \in Seq(Nat) /\ Len(Upto(s, L - 0)) = L - 0 /\ \A i \in 1 .. L - 0 : Upto(s, L - 0)[i] = s[i]
      BY <1>1, <1>3
    <3>2. L - 0 = L
      BY <1>1
    <3> QED  BY <3>1, <3>2, SeqEqual
  <2>2. p + 1 + 0 = p + 1 /\ L - 0 = L /\ R(0) = di
    BY <1>1
  <2> HIDE DEF R
  <2> QED  BY <1>1, <1>2, <2>1, <2>2
<1>5. g[n] = Core(p + 1 + n, a, cx, s[L - n + 1], bx, m, lm, Upto(s, L - n))
  <2>1. R(n) = s[L - n + 1]
    <3>1. n # 0
      OBVIOUS
    <3> QED  BY <3>1
  <2> HIDE DEF R
  <2> QED  BY <1>1, <1>2, <2>1
<1>6. \A j \in 0 .. n - 1 : Goes1(fam, c, g[j], g[j + 1])
  <2> TAKE j \in 0 .. n - 1
  <2> DEFINE u == Upto(s, L - j)
  <2>1. /\ j \in 0 .. n /\ j + 1 \in 0 .. n /\ L - j \in 1 .. L - j /\ L - j \in 2 .. L /\ j + 1 \in 1 .. n
        /\ L - (j + 1) = L - j - 1 /\ L - (j + 1) + 1 = L - j /\ p + 1 + (j + 1) = p + 1 + j + 1 /\ p + (j + 1) = p + 1 + j
        /\ j + 1 # 0 /\ L - j - 1 \in Nat
    BY <1>1
  <2>2. u \in Seq(Nat) /\ Len(u) = L - j /\ \A i \in 1 .. L - j : u[i] = s[i]
    BY <1>3, <2>1
  <2>3. Last(u) = s[L - j] /\ s[L - j] # RetAddr
    BY <2>1, <2>2 DEF Last, Marked
  <2>4. Front(u) = Upto(s, L - (j + 1))
    <3> DEFINE v == Upto(s, L - (j + 1))
    <3>1. v \in Seq(Nat) /\ Len(v) = L - j - 1 /\ \A i \in 1 .. L - j - 1 : v[i] = s[i]
      BY <1>3, <2>1
    <3>2. Front(u) \in Seq(Nat) /\ Len(Front(u)) = L - j - 1 /\ \A i \in 1 .. L - j - 1 : Front(u)[i] = u[i]
      <4> HIDE DEF u
      <4>1. L - j \in Nat /\ L - j - 1 \in 0 .. L - j
        BY <2>1
      <4> QED  BY <2>2, <4>1, UptoFacts DEF Front, Upto
    <3>3. \A i \in 1 .. L - j - 1 : i \in 1 .. L - j
      BY <2>1
    <3> HIDE DEF u, v
    <3>4. \A i \in 1 .. L - j - 1 : Front(u)[i] = v[i]
      BY <2>2, <3>1, <3>2, <3>3
    <3>5. Front(u) = v
      BY <3>1, <3>2, <3>4, SeqEqual
    <3> QED  BY <3>5 DEF v
  <2>5. R(j + 1) = s[L - j]
    BY <2>1
  <2>6. g[j] = Core(p + 1 + j, a, cx, R(j), bx, m, lm, u)
    BY <1>2, <2>1
  <2>7. g[j + 1] = Core(p + 1 + j + 1, a, cx, Last(u), bx, m, lm, Front(u))
    <3> HIDE DEF R, u
    <3>1. g[j + 1] = Core(p + 1 + (j + 1), a, cx, R(j + 1), bx, m, lm, Upto(s, L - (j + 1)))
      BY <1>2, <2>1
    <3> QED  BY <2>1, <2>3, <2>4, <2>5, <3>1
  <2>8. c[p + 1 + j].op = "pop rdi"
    <3>1. c[p + (j + 1)].op = "pop rdi"
      BY <2>1 DEF Popping
    <3> QED  BY <2>1, <3>1
  <2> DEFINE x == Core(p + 1 + j, a, cx, R(j), bx, m, lm, u)
             y == Core(p + 1 + j + 1, a, cx, Last(u), bx, m, lm, Front(u))
  <2>9. /\ x.ip = p + 1 + j /\ x.rax = a /\ x.rcx = cx /\ x.rdi = R(j) /\ x.rbx = bx /\ x.mem = m /\ x.lmem = lm
        /\ x.native = u
    BY DEF Core
  <2>10. y = Core(x.ip + 1, x.rax, x.rcx, Last(x.native), x.rbx, x.mem, x.lmem, Front(x.native))
    <3> HIDE DEF x, R, u
    <3> QED  BY <2>9
  <2> HIDE DEF R, u, x, y
  <2>11. Does(fam, c[x.ip], x, y)
    BY <2>8, <2>9, <2>10 DEF Does
  <2>12. Going(c, x)
    BY <2>3, <2>8, <2>9 DEF Going, Working, StraightOps, Jumps
  <2> QED  BY <2>6, <2>7, <2>11, <2>12 DEF Goes1, x, y
<1> QED  BY <1>4, <1>5, <1>6 DEF Runs

-----------------------------------------------------------------------------
(* Leaving blocks: the innermost one and d around it.                      *)

Left(labs, d) == Upto(labs, Len(labs) - d - 1)

\* w is the first h values of vals, and more.
Starts(w, vals, h) == \A k \in 1 .. h : w[k] = vals[k]

LEMMA LeftFacts ==
  ASSUME family \in Families, NEW labs \in Seq(Labels), NEW h \in Nat, Tidy(labs, h), NEW d \in 0 .. Len(labs) - 1
  PROVE  /\ d \in Nat /\ Len(labs) \in Nat /\ Len(labs) - d \in 1 .. Len(labs) /\ Len(labs) - d - 1 \in 0 .. Len(labs)
         /\ Left(labs, d) \in Seq(Labels) /\ Len(Left(labs, d)) = Len(labs) - d - 1
         /\ \A j \in 1 .. Len(labs) - d - 1 : Left(labs, d)[j] = labs[j] /\ labs[j].height <= Nth(labs, d).height
         /\ Nth(labs, d) = labs[Len(labs) - d] /\ Nth(labs, d).height \in 0 .. h /\ Nth(labs, d).at \in Nat
         /\ \A n \in Nat : n <= h /\ n >= Nth(labs, d).height => Tidy(Left(labs, d), n)
<1> DEFINE D == Len(labs)
<1>1. D \in Nat /\ \A j \in 1 .. D : labs[j].height \in Nat /\ labs[j].at \in Nat
  BY LabelsAre
<1>2. d \in Nat /\ D - d \in 1 .. D /\ D - d - 1 \in 0 .. D
  BY <1>1
<1>3. Left(labs, d) \in Seq(Labels) /\ Len(Left(labs, d)) = D - d - 1 /\ \A j \in 1 .. D - d - 1 : Left(labs, d)[j] = labs[j]
  BY <1>2, UptoFacts DEF Left
<1>4. Nth(labs, d) = labs[D - d] /\ Nth(labs, d).height \in 0 .. h /\ Nth(labs, d).at \in Nat
  BY <1>1, <1>2 DEF Nth, Tidy
<1>5. \A j \in 1 .. D - d - 1 : j \in 1 .. D /\ j \in 1 .. (D - d) - 1 /\ \A k \in 1 .. j - 1 : k \in 1 .. D - d - 1
  BY <1>1, <1>2
<1>6. \A j \in 1 .. D - d - 1 : labs[j].height <= Nth(labs, d).height
  BY <1>2, <1>4, <1>5 DEF Tidy
<1> DEFINE labs2 == Left(labs, d)
           top == Nth(labs, d).height
<1>7. ASSUME NEW n \in Nat, n <= h, n >= top PROVE Tidy(labs2, n)
  <2> HIDE DEF labs2, top
  <2>1. n + Len(labs2) <= family.len + 1
    <3>1. family.len \in Nat /\ h + D <= family.len + 1
      BY FamilyFacts DEF MaxLen, Tidy
    <3>2. Len(labs2) = D - d - 1
      BY <1>3 DEF labs2
    <3> HIDE DEF D
    <3> QED  BY <1>1, <1>2, <1>7, <3>1, <3>2
  <2>2. ASSUME NEW j \in 1 .. D - d - 1 PROVE labs2[j].height <= n /\ \A k \in 1 .. j - 1 : labs2[k].height <= labs2[j].height
    <3>1. labs2[j] = labs[j] /\ j \in 1 .. D /\ \A k \in 1 .. j - 1 : labs2[k] = labs[k]
      BY <1>3, <1>5 DEF labs2
    <3>2. labs[j].height <= top /\ labs[j].height \in Nat /\ top \in Nat
      BY <1>1, <1>4, <1>5, <1>6 DEF top
    <3>3. labs[j].height <= n
      BY <1>7, <3>2
    <3>4. \A k \in 1 .. j - 1 : labs[k].height <= labs[j].height
      BY <3>1 DEF Tidy
    <3> QED  BY <3>1, <3>3, <3>4
  <2> QED  BY <1>3, <2>1, <2>2 DEF Tidy, labs2
<1> QED  BY <1>1, <1>2, <1>3, <1>4, <1>6, <1>7

\* The operands under those of the block that is left last stay in memory.
LEMMA UnderLeft ==
  ASSUME family \in Families, NEW labs \in Seq(Labels), NEW vals \in Seq(Nat), NEW x, Match(labs, vals, x),
         Tidy(labs, Len(vals)), NEW d \in 0 .. Len(labs) - 1,
         NEW e \in 1 .. Len(labs) - d - 1, NEW k \in Nat, k >= 1, k <= Nth(labs, d).height, Above(Left(labs, d), e, k)
  PROVE  x.mem[Base + (k + e)] = vals[k] /\ k + e \in Nat /\ k + e <= Nth(labs, d).height + (Len(labs) - d - 1)
<1> DEFINE D == Len(labs)
           H == Len(vals)
           h == Nth(labs, d).height
<1>1. H \in Nat
  BY LenProperties
<1>2. /\ d \in Nat /\ D \in Nat /\ D - d \in 1 .. D /\ Len(Left(labs, d)) = D - d - 1
      /\ \A j \in 1 .. D - d - 1 : Left(labs, d)[j] = labs[j]
      /\ Nth(labs, d) = labs[D - d] /\ h \in 0 .. H
  <2>1. /\ d \in Nat /\ D \in Nat /\ D - d \in 1 .. D /\ Len(Left(labs, d)) = D - d - 1
        /\ Nth(labs, d) = labs[D - d] /\ h \in 0 .. H
    BY <1>1, LeftFacts
  <2>2. \A j \in 1 .. D - d - 1 : Left(labs, d)[j] = labs[j]
    BY <1>1, LeftFacts
  <2> QED  BY <2>1, <2>2
<1>3. \A q \in Nat : q < H + D => View(x, q) = x.mem[Base + q]
  BY MatchFacts
<1>4. /\ e \in 1 .. D /\ e < D /\ k \in 1 .. H /\ k + e < H + D /\ k + e \in Nat /\ k + e <= h + (D - d - 1)
      /\ (e < D - d - 1 => e + 1 \in 1 .. D - d - 1) /\ (e = D - d - 1 => e + 1 = D - d) /\ (e < D - d - 1 \/ e = D - d - 1)
  <2>1. h \in Nat /\ h <= H /\ D - d - 1 < D /\ D \in Nat /\ d \in Nat /\ D - d \in 1 .. D
    BY <1>1, <1>2
  <2>2. k <= h /\ e \in 1 .. D - d - 1
    OBVIOUS
  <2> HIDE DEF h, D, H
  <2> QED  BY <1>1, <2>1, <2>2
<1>5. labs[e].height < k /\ k <= labs[e + 1].height
  <2>1. Left(labs, d)[e] = labs[e] /\ labs[e].height < k
    BY <1>2 DEF Above
  <2>2. CASE e < D - d - 1
    BY <1>2, <1>4, <2>1, <2>2 DEF Above
  <2>3. CASE e = D - d - 1
    <3>1. labs[e + 1] = Nth(labs, d)
      BY <1>2, <1>4, <2>3
    <3> QED  BY <2>1, <3>1
  <2> QED  BY <1>4, <2>2, <2>3
<1>6. View(x, k + e) = vals[k]
  BY <1>4, <1>5 DEF Match, Shows, Above
<1> QED  BY <1>3, <1>4, <1>6

\* Where the blocks have been left without a value, rax is loaded from memory.
LEMMA SettlesNone ==
  ASSUME family \in Families, NEW labs \in Seq(Labels), NEW vals \in Seq(Nat), NEW x, Match(labs, vals, x),
         Tidy(labs, Len(vals)), NEW d \in 0 .. Len(labs) - 1,
         NEW w \in Seq(Nat), Len(w) = Nth(labs, d).height, Starts(w, vals, Nth(labs, d).height),
         NEW p \in Nat, NEW cx
  PROVE  LET q == Base + (Nth(labs, d).height + (Len(labs) - d - 1))
         IN  Match(Left(labs, d), w, Core(p, x.mem[q], cx, q, 0, x.mem, x.lmem, Saved(Left(labs, d))))
<1> DEFINE D == Len(labs)
           H == Len(vals)
           h == Nth(labs, d).height
           labs2 == Left(labs, d)
           place == h + (D - d - 1)
           q == Base + place
           v == x.mem[q]
           y == Core(p, v, cx, q, 0, x.mem, x.lmem, Saved(labs2))
<1>1. H \in Nat /\ Len(w) = h /\ \A k \in 1 .. h : w[k] = vals[k]
  BY LenProperties DEF Starts
<1>2. d \in Nat /\ D \in Nat /\ D - d \in 1 .. D /\ labs2 \in Seq(Labels) /\ Len(labs2) = D - d - 1 /\ h \in 0 .. H
  BY <1>1, LeftFacts
<1>3. /\ x.mem \in [SlotsOf(family) -> Nat] /\ x.lmem \in [LocalsOf(family) -> Nat]
      /\ \A i \in 0 .. H + D + 1 : Base + i \in SlotsOf(family)
  BY MatchFacts
<1>4. place \in 0 .. H + D + 1 /\ place \in Nat /\ q \in Nat /\ q = Base + place /\ q = Base + h + (D - d - 1) /\ q - Base = place
  <2> HIDE DEF h, D, H
  <2> QED  BY <1>1, <1>2 DEF Base
<1>5. v \in Nat
  BY <1>3, <1>4
<1> HIDE DEF v, q
<1>6. Typed(family, y)
  BY <1>3, <1>4, <1>5, CoreTyped
<1>7. y.rax = v /\ y.rdi = q /\ y.rbx = 0 /\ y.mem = x.mem /\ y.native = Saved(labs2)
  BY DEF Core
<1> HIDE DEF y
<1>8. \A i : View(y, i) = x.mem[Base + i]
  BY <1>4, <1>7 DEF View, v
<1>9. Shows(y, labs2, w)
  <2> SUFFICES ASSUME NEW e \in 1 .. D - d - 1, NEW k \in 1 .. h, Above(labs2, e, k) PROVE View(y, k + e) = w[k]
    BY <1>1, <1>2 DEF Shows
  <2>1. k \in Nat /\ k >= 1 /\ k <= h
    BY <1>2
  <2>2. x.mem[Base + (k + e)] = vals[k]
    BY <2>1, UnderLeft
  <2> QED  BY <1>1, <1>8, <2>2
<1>10. y.rdi = Base + Len(w) + Len(labs2)
  BY <1>1, <1>2, <1>4, <1>7
<1>11. Match(labs2, w, y)
  BY <1>6, <1>7, <1>9, <1>10 DEF Match
<1> QED  BY <1>11 DEF y, v, q

\* Where they have been left with one, it is in rax.
LEMMA SettlesOne ==
  ASSUME family \in Families, NEW labs \in Seq(Labels), NEW vals \in Seq(Nat), NEW x, Match(labs, vals, x),
         Tidy(labs, Len(vals)), NEW d \in 0 .. Len(labs) - 1,
         NEW w \in Seq(Nat), Len(w) = Nth(labs, d).height + 1, Starts(w, vals, Nth(labs, d).height),
         NEW p \in Nat, NEW cx, NEW v \in Nat, Last(w) = v
  PROVE  Match(Left(labs, d), w, Core(p, v, cx, Base + (Nth(labs, d).height + (Len(labs) - d)), 0, x.mem, x.lmem,
                                      Saved(Left(labs, d))))
<1> DEFINE D == Len(labs)
           H == Len(vals)
           h == Nth(labs, d).height
           labs2 == Left(labs, d)
           place == h + (D - d)
           q == Base + place
           y == Core(p, v, cx, q, 0, x.mem, x.lmem, Saved(labs2))
<1>1. H \in Nat /\ Len(w) = h + 1 /\ (\A k \in 1 .. h : w[k] = vals[k]) /\ w[h + 1] = v
  BY LenProperties DEF Starts, Last
<1>2. /\ d \in Nat /\ D \in Nat /\ D - d \in 1 .. D /\ labs2 \in Seq(Labels) /\ Len(labs2) = D - d - 1 /\ h \in 0 .. H
      /\ \A j \in 1 .. D - d - 1 : labs2[j] = labs[j] /\ labs[j].height <= h
  BY <1>1, LeftFacts
<1>3. x.mem \in [SlotsOf(family) -> Nat] /\ x.lmem \in [LocalsOf(family) -> Nat]
  BY MatchFacts
<1>4. place \in Nat /\ q \in Nat /\ q = Base + (h + 1) + (D - d - 1) /\ q - Base = place
  <2> HIDE DEF h, D, H
  <2> QED  BY <1>1, <1>2 DEF Base
<1> HIDE DEF q
<1>5. Typed(family, y)
  BY <1>3, <1>4, CoreTyped
<1>6. y.rax = v /\ y.rdi = q /\ y.rbx = 0 /\ y.mem = x.mem /\ y.native = Saved(labs2)
  BY DEF Core
<1> HIDE DEF y
<1>7. View(y, place) = v /\ \A i : i # place => View(y, i) = x.mem[Base + i]
  BY <1>4, <1>6 DEF View
<1>8. Shows(y, labs2, w)
  <2> SUFFICES ASSUME NEW e \in 1 .. D - d - 1, NEW k \in 1 .. h + 1, Above(labs2, e, k) PROVE View(y, k + e) = w[k]
    BY <1>1, <1>2 DEF Shows
  <2>1. CASE k = h + 1
    <3>1. ASSUME e < D - d - 1 PROVE FALSE
      <4>1. e + 1 \in 1 .. D - d - 1
        BY <1>2, <3>1
      <4>2. labs2[e + 1].height <= h /\ labs2[e + 1].height \in Nat
        <5>1. labs2[e + 1] = labs[e + 1] /\ labs[e + 1].height <= h
          BY <1>2, <4>1
        <5>2. labs2[e + 1].height \in Nat
          BY <1>2, <4>1, LabelsAre
        <5> QED  BY <5>1, <5>2
      <4>3. k <= labs2[e + 1].height
        BY <1>2, <3>1 DEF Above
      <4>4. h \in Nat
        BY <1>2
      <4> HIDE DEF h
      <4> QED  BY <2>1, <4>2, <4>3, <4>4
    <3>4. h \in Nat /\ D \in Nat /\ d \in Nat /\ D - d \in 1 .. D /\ e \in 1 .. D - d - 1
      BY <1>2
    <3>2. e = D - d - 1
      <4> HIDE DEF D
      <4> QED  BY <3>1, <3>4
    <3>3. k + e = place
      <4> HIDE DEF h, D
      <4> QED  BY <2>1, <3>2, <3>4
    <3> QED  BY <1>1, <1>7, <2>1, <3>3
  <2>2. CASE k # h + 1
    <3>1. k \in Nat /\ k >= 1 /\ k <= h /\ k \in 1 .. h
      BY <1>2, <2>2
    <3>2. x.mem[Base + (k + e)] = vals[k] /\ k + e \in Nat /\ k + e <= h + (D - d - 1)
      BY <3>1, UnderLeft
    <3>3. k + e # place
      <4>1. h \in Nat /\ D \in Nat /\ d \in Nat
        BY <1>2
      <4>2. k + e \in Nat /\ k + e <= h + (D - d - 1)
        BY <3>2
      <4> DEFINE s == k + e
      <4> HIDE DEF h, D, s
      <4>3. s # h + (D - d)
        BY <4>1, <4>2 DEF s
      <4> QED  BY <4>3 DEF s
    <3> QED  BY <1>1, <1>7, <3>1, <3>2, <3>3
  <2> QED  BY <2>1, <2>2
<1>9. y.rdi = Base + Len(w) + Len(labs2)
  BY <1>1, <1>2, <1>4, <1>6
<1>10. Match(labs2, w, y)
  BY <1>5, <1>6, <1>8, <1>9 DEF Match
<1> QED  BY <1>10 DEF y, q

LEMMA LeavePops ==
  ASSUME family \in Families, NEW labs \in Seq(Labels), NEW vals \in Seq(Nat), NEW x, Match(labs, vals, x),
         Tidy(labs, Len(vals)), NEW d \in 0 .. Len(labs) - 1, NEW c, NEW p \in Nat, x.ip = p + 1, Popping(c, p, d + 1)
  PROVE  Runs(family, c, x, Core(p + 1 + (d + 1), x.rax, x.rcx, Base + (Nth(labs, d).height + (Len(labs) - d)), 0,
                                 x.mem, x.lmem, Saved(Left(labs, d))))
<1> DEFINE D == Len(labs)
           h == Nth(labs, d).height
           s == Saved(labs)
           n == d + 1
<1>1. x = Core(x.ip, x.rax, x.rcx, x.rdi, 0, x.mem, x.lmem, s)
  BY MatchFacts
<1>2. Len(vals) \in Nat
  BY LenProperties
<1>3. d \in Nat /\ D \in Nat /\ D - d \in 1 .. D /\ D - d - 1 \in 0 .. D /\ h \in Nat /\ Nth(labs, d) = labs[D - d]
  BY <1>2, LeftFacts
<1>4. s \in Seq(Nat) /\ Len(s) = D + 1 /\ \A j \in 1 .. D : s[j + 1] = Base + labs[j].height + j /\ s[j + 1] # RetAddr
  BY SavedFacts
<1>5. /\ n \in Nat /\ n >= 1 /\ n < D + 1 /\ D + 1 - n + 1 = (D - d) + 1 /\ D + 1 - n = (D - d - 1) + 1
      /\ \A j \in 2 .. D + 1 : j - 1 \in 1 .. D /\ (j - 1) + 1 = j
  <2> HIDE DEF D
  <2> QED  BY <1>3
<1>6. Marked(s)
  BY <1>4, <1>5 DEF Marked
<1> HIDE DEF s
<1>7. Upto(s, Len(s) - n) = Saved(Left(labs, d))
  <2>1. Upto(s, (D - d - 1) + 1) = Saved(Upto(labs, D - d - 1))
    BY <1>3, SavedUpto DEF s
  <2>2. Len(s) - n = (D - d - 1) + 1
    BY <1>4, <1>5
  <2> QED  BY <2>1, <2>2 DEF Left
<1>8. s[Len(s) - n + 1] = Base + (h + (D - d))
  <2>1. s[(D - d) + 1] = Base + h + (D - d)
    BY <1>3, <1>4
  <2>2. Len(s) - n + 1 = (D - d) + 1
    BY <1>4, <1>5
  <2>3. Base + h + (D - d) = Base + (h + (D - d))
    <3> HIDE DEF h, D
    <3> QED  BY <1>3 DEF Base
  <2> QED  BY <2>1, <2>2, <2>3
<1>9. n < Len(s)
  BY <1>4, <1>5
<1> DEFINE y == Core(p + 1 + n, x.rax, x.rcx, s[Len(s) - n + 1], 0, x.mem, x.lmem, Upto(s, Len(s) - n))
<1>10. Runs(family, c, Core(p + 1, x.rax, x.rcx, x.rdi, 0, x.mem, x.lmem, s), y)
  <2> HIDE DEF n
  <2>1. Popping(c, p, n)
    BY DEF n
  <2> QED  BY <1>4, <1>5, <1>6, <1>9, <2>1, PopsRun
<1> HIDE DEF y
<1>11. Runs(family, c, x, y)
  BY <1>1, <1>10
<1> QED  BY <1>7, <1>8, <1>11 DEF y

\* Leaving blocks keeps the operands under them, and one more if asked to.
LEMMA Leaves1 ==
  ASSUME family \in Families, NEW labs \in Seq(Labels), NEW vals \in Seq(Nat), NEW x, Match(labs, vals, x),
         Tidy(labs, Len(vals)), NEW d \in 0 .. Len(labs) - 1, NEW keep \in BOOLEAN,
         NEW c, NEW p \in Nat, x.ip = p + 1, Has(c, p, Leaving(d, keep)),
         NEW w \in Seq(Nat), Len(w) = Nth(labs, d).height + (IF keep THEN 1 ELSE 0), Starts(w, vals, Nth(labs, d).height),
         keep => Last(w) = Last(vals) /\ Last(labs).height < Len(vals)
  PROVE  \E y : /\ Runs(family, c, x, y) /\ y.ip = p + 1 + Len(Leaving(d, keep)) /\ y.lmem = x.lmem
                /\ Match(Left(labs, d), w, y)
<1> DEFINE D == Len(labs)
           H == Len(vals)
           h == Nth(labs, d).height
           s == Leaving(d, keep)
           p2 == p + 1 + (d + 1)
           place == h + (D - d - 1)
           top == h + (D - d)
           nat2 == Saved(Left(labs, d))
           y == Core(p2, x.rax, x.rcx, Base + top, 0, x.mem, x.lmem, nat2)
<1>1. H \in Nat
  BY LenProperties
<1>2. d \in Nat /\ D \in Nat /\ D - d \in 1 .. D /\ h \in Nat
  BY <1>1, LeftFacts
<1>3. /\ Len(s) = d + (IF keep THEN 1 ELSE 2) /\ (\A k \in 1 .. d + 1 : s[k] = PopRdi)
      /\ (~keep => s[d + 2] = _PopContractStack)
  BY <1>2, LeavingFacts
<1> HIDE DEF s
<1>4. Popping(c, p, d + 1)
  <2>1. \A k \in 1 .. d + 1 : k \in 1 .. Len(s)
    BY <1>2, <1>3
  <2>2. \A k \in 1 .. d + 1 : c[p + k] = PopRdi
    BY <1>3, <2>1 DEF Has, s
  <2>3. PopRdi.op = "pop rdi"
    BY InsFields DEF PopRdi
  <2> QED  BY <2>2, <2>3 DEF Popping
<1>5. Runs(family, c, x, y)
  BY <1>4, LeavePops
<1>6. p2 \in Nat /\ Base + top - 1 = Base + place /\ p2 = p + d + 2 /\ p2 + 1 \in Nat
  <2> HIDE DEF h, D
  <2> QED  BY <1>2 DEF Base
<1>7. CASE keep
  <2> DEFINE v == x.rax
  <2>1. v \in Nat
    BY MatchFacts
  <2>2. v = Last(vals)
    <3>5. Last(labs) = labs[D] /\ Last(vals) = vals[H] /\ D \in 1 .. D /\ labs[D].height < H
      BY <1>2, <1>7 DEF Last
    <3>6. labs[D].height \in Nat
      BY <3>5, LabelsAre
    <3>1. D \in 1 .. D /\ H \in 1 .. H /\ Last(labs) = labs[D] /\ Last(vals) = vals[H]
      BY <1>1, <3>5, <3>6
    <3>2. Above(labs, D, H)
      BY <1>1, <1>2, <3>1, <3>5 DEF Above
    <3>3. View(x, H + D) = vals[H]
      BY <3>1, <3>2 DEF Match, Shows
    <3>4. View(x, H + D) = x.rax
      BY MatchFacts
    <3> QED  BY <3>1, <3>3, <3>4
  <2>3. Len(w) = h + 1 /\ Last(w) = v
    BY <1>7, <2>2
  <2>4. Match(Left(labs, d), w, y)
    <3> HIDE DEF p2
    <3> QED  BY <1>6, <2>1, <2>3, SettlesOne
  <2>5. y.ip = p2 /\ y.lmem = x.lmem
    BY DEF Core
  <2>6. p2 = p + 1 + Len(s)
    BY <1>2, <1>3, <1>7
  <2> HIDE DEF y, p2, s
  <2> QED  BY <1>5, <2>4, <2>5, <2>6 DEF s
<1>8. CASE ~keep
  <2> DEFINE q == Base + place
             z == Core(p2 + 1, x.mem[q], x.rcx, q, 0, x.mem, x.lmem, nat2)
  <2>1. c[p2].op = "contract"
    <3>1. d + 2 \in 1 .. Len(s) /\ p + (d + 2) = p2
      BY <1>2, <1>3, <1>8
    <3>2. c[p + (d + 2)] = _PopContractStack
      BY <1>3, <1>8, <3>1 DEF Has, s
    <3>3. _PopContractStack.op = "contract"
      BY InsFields DEF _PopContractStack
    <3> QED  BY <3>1, <3>2, <3>3
  <2>2. Runs(family, c, y, z)
    <3> DEFINE e == Base + top
    <3>2. e - 1 = q
      <4> HIDE DEF h, D
      <4> QED  BY ONLY <1>2 DEF Base, e, q, top, place
    <3> HIDE DEF p2, nat2, e
    <3>1. Runs(family, c, Core(p2, x.rax, x.rcx, e, 0, x.mem, x.lmem, nat2),
                          Core(p2 + 1, x.mem[e - 1], x.rcx, e - 1, 0, x.mem, x.lmem, nat2))
      BY <2>1, GoContract
    <3> HIDE DEF q
    <3>3. Runs(family, c, Core(p2, x.rax, x.rcx, e, 0, x.mem, x.lmem, nat2), z)
      BY <3>1, <3>2
    <3> QED  BY <3>3 DEF e
  <2>3. Len(w) = h
    <3>1. Len(w) = h + 0
      BY <1>8
    <3> HIDE DEF h
    <3> QED  BY <1>2, <3>1
  <2>4. Match(Left(labs, d), w, z)
    <3> DEFINE p3 == p2 + 1
    <3>1. p3 \in Nat
      BY <1>6
    <3> HIDE DEF p3
    <3> QED  BY <2>3, <3>1, SettlesNone DEF p3
  <2>5. z.ip = p2 + 1 /\ z.lmem = x.lmem
    BY DEF Core
  <2>6. p2 + 1 = p + 1 + Len(s)
    BY <1>2, <1>3, <1>8
  <2> HIDE DEF y, z, p2, s
  <2>7. Runs(family, c, x, z)
    BY <1>5, <2>2, RunsOn
  <2> QED  BY <2>4, <2>5, <2>6, <2>7 DEF s
<1> QED  BY <1>7, <1>8

-----------------------------------------------------------------------------
(* The direct reading's operands.                                          *)

LEMMA LastNFacts ==
  ASSUME NEW S, NEW s \in Seq(S), NEW u \in 0 .. Len(s)
  PROVE  LastN(s, u) \in Seq(S) /\ Len(LastN(s, u)) = u /\ \A j \in 1 .. u : LastN(s, u)[j] = s[Len(s) - u + j]
<1> DEFINE L == Len(s)
<1>1. L \in Nat /\ u \in Nat
  BY LenProperties
<1>2. L - u + 1 \in 1 .. L + 1 /\ L - (L - u + 1) + 1 = u /\ \A j \in 1 .. u : (L - u + 1) + j - 1 = L - u + j
  BY <1>1
<1>3. \A i \in 1 .. L : s[i] \in S
  BY ElementOfSeq
<1> QED  BY <1>1, <1>2, <1>3 DEF LastN

\* What is left of vals under its last u operands, with q on top.
LEMMA OnTop ==
  ASSUME NEW vals \in Seq(Nat), NEW h \in 0 .. Len(vals), NEW q \in Seq(Nat)
  PROVE  /\ Upto(vals, h) \o q \in Seq(Nat) /\ Len(Upto(vals, h) \o q) = h + Len(q)
         /\ \A k \in 1 .. h : (Upto(vals, h) \o q)[k] = vals[k]
         /\ \A k \in 1 .. Len(q) : (Upto(vals, h) \o q)[h + k] = q[k]
<1> DEFINE s == Upto(vals, h)
<1>1. s \in Seq(Nat) /\ Len(s) = h /\ \A k \in 1 .. h : s[k] = vals[k]
  BY UptoFacts
<1> HIDE DEF s
<1>2. /\ s \o q \in Seq(Nat) /\ Len(s \o q) = Len(s) + Len(q)
      /\ \A i \in 1 .. Len(s) : (s \o q)[i] = s[i]
      /\ \A i \in 1 .. Len(q) : (s \o q)[Len(s) + i] = q[i]
  <2>1. s \in Seq(Nat) /\ q \in Seq(Nat)
    BY <1>1
  <2> QED  BY <2>1, ConcatFacts
<1> QED  BY <1>1, <1>2 DEF s

LEMMA ResultIs ==
  ASSUME family \in Families, NEW ins, PlainOK(family, ins), ins.op # "store", NEW r, r.locals \in [0 .. NLocals - 1 -> Nat],
         NEW a \in Seq(Nat), Len(a) = Pops(ins)
  PROVE  Result(ins, a, r) \in Seq(Nat) /\ Len(Result(ins, a, r)) = Pushes(ins)
<1>1. /\ \A v \in Nat : <<v>> \in Seq(Nat) /\ Len(<<v>>) = 1
      /\ <<>> \in Seq(Nat) /\ Len(<<>>) = 0
  OBVIOUS
<1>2. (\A u, v \in Nat : F(u, v) \in Nat) /\ (\A u : G(u) \in Nat)
  <2>1. M \in Nat \ {0}
    BY FamilyFacts
  <2> QED  BY <2>1 DEF F, G
<1>3. ins.op \in PlainOps /\ ins.n \in Nat
  BY DEF PlainOK
<1>4. \A k \in 1 .. Len(a) : a[k] \in Nat
  BY ElementOfSeq
<1>5. CASE ins.op \in Binary
  <2>1. Len(a) = 2 /\ Pushes(ins) = 1 /\ Result(ins, a, r) = <<F(a[1], a[2])>>
    <3>1. Len(a) = 2
      BY <1>5 DEF Pops, Binary, Unary
    <3>2. Pushes(ins) = 1
      BY <1>5 DEF Binary, Pushes
    <3>3. Result(ins, a, r) = <<F(a[1], a[2])>>
      BY <1>5 DEF Binary, Unary, Result
    <3> QED  BY <3>1, <3>2, <3>3
  <2> QED  BY <1>1, <1>2, <1>4, <2>1
<1>6. CASE ins.op \in Unary
  <2>1. Pushes(ins) = 1 /\ Result(ins, a, r) = <<G(a[1])>>
    BY <1>6 DEF Binary, Unary, Pushes, Result
  <2> QED  BY <1>1, <1>2, <2>1
<1>7. CASE ins.op = "const"
  <2>1. Pushes(ins) = 1 /\ Result(ins, a, r) = <<ins.n>>
    BY <1>7 DEF Pushes, Result, Binary, Unary
  <2> QED  BY <1>1, <1>3, <2>1
<1>8. CASE ins.op = "get_local"
  <2>1. Pushes(ins) = 1 /\ Result(ins, a, r) = <<r.locals[ins.n]>>
    BY <1>8 DEF Pushes, Result, Binary, Unary
  <2>2. ins.n \in 0 .. NLocals - 1
    <3>1. ins.n < NLocals /\ NLocals \in Nat
      BY <1>8, FamilyFacts DEF PlainOK, NLocals
    <3> QED  BY <1>3, <3>1
  <2>3. r.locals[ins.n] \in Nat
    BY <2>2
  <2> QED  BY <1>1, <2>1, <2>3
<1>9. CASE ins.op = "tee_local"
  BY <1>9 DEF Pops, Pushes, Result, Binary, Unary
<1>10. CASE ins.op = "select"
  <2>1. Len(a) = 3 /\ Pushes(ins) = 1 /\ Result(ins, a, r) = (IF a[3] # 0 THEN <<a[1]>> ELSE <<a[2]>>)
    BY <1>10 DEF Pops, Pushes, Result, Binary, Unary
  <2> QED  BY <1>1, <1>4, <2>1
<1>11. CASE ins.op \in {"call", "call_indirect"}
  <2>1. ins.n \in {0, 1} /\ Pushes(ins) = ins.n
    BY <1>11 DEF Pushes, PlainOK
  <2>2. CASE ins.op = "call"
    <3>1. Len(a) = 2 /\ Result(ins, a, r) = IF ins.n = 1 THEN <<F(a[1], a[2])>> ELSE <<>>
      BY <2>2 DEF Pops, Result, Binary, Unary
    <3>2. F(a[1], a[2]) \in Nat
      <4>1. a[1] \in Nat /\ a[2] \in Nat
        BY <1>4, <3>1
      <4> QED  BY <1>2, <4>1
    <3> QED  BY <1>1, <2>1, <3>1, <3>2
  <2>3. CASE ins.op = "call_indirect"
    <3>1. Len(a) = 3 /\ Result(ins, a, r) = IF ins.n = 1 THEN <<F(F(a[1], a[2]), a[3])>> ELSE <<>>
      BY <2>3 DEF Pops, Result, Binary, Unary
    <3>2. F(a[1], a[2]) \in Nat /\ F(F(a[1], a[2]), a[3]) \in Nat
      <4>1. a[1] \in Nat /\ a[2] \in Nat /\ a[3] \in Nat
        BY <1>4, <3>1
      <4>2. F(a[1], a[2]) \in Nat
        BY <1>2, <4>1
      <4> QED  BY <1>2, <4>1, <4>2
    <3> QED  BY <1>1, <2>1, <3>1, <3>2
  <2> QED  BY <1>11, <2>2, <2>3
<1>12. CASE ins.op \in {"drop", "set_local"}
  <2>1. Pushes(ins) = 0 /\ Result(ins, a, r) = <<>>
    BY <1>12 DEF Pushes, Result, Binary, Unary
  <2> QED  BY <1>1, <2>1
<1> QED  BY <1>3, <1>5, <1>6, <1>7, <1>8, <1>9, <1>10, <1>11, <1>12 DEF PlainOps

Readings == [pc : Nat, vals : Seq(Nat), labels : Seq(Labels), locals : [0 .. NLocals - 1 -> Nat]]

\* An opcode without control flow, as it is read: s follows r, whose last u operands are a, over h others.
ReadsAs(ins, r, u, a, h, s) ==
    /\ a \in Seq(Nat) /\ Len(a) = u /\ h \in 0 .. Len(r.vals)
    /\ \A j \in 1 .. u : a[j] = r.vals[h + j]
    /\ s \in Readings /\ s.pc = r.pc + 1 /\ s.labels = r.labels
    /\ Len(s.vals) = h + Pushes(ins) /\ Len(Result(ins, a, r)) = Pushes(ins) /\ Pushes(ins) \in Nat
    /\ \A k \in 1 .. h : s.vals[k] = r.vals[k]
    /\ \A k \in 1 .. Pushes(ins) : s.vals[h + k] = Result(ins, a, r)[k]
    /\ s.locals = IF ins.op \in {"set_local", "tee_local"} THEN [r.locals EXCEPT ![ins.n] = a[1]] ELSE r.locals

LEMMA ReadPlainIs ==
  ASSUME family \in Families, NEW ins, PlainOK(family, ins), ins.op # "store", NEW r \in Readings,
         NEW u, u = Pops(ins), u \in 0 .. Len(r.vals)
  PROVE  ReadsAs(ins, r, u, LastN(r.vals, u), Len(r.vals) - u, ReadPlain(r, ins))
<1> DEFINE a == LastN(r.vals, u)
           h == Len(r.vals) - u
           s == ReadPlain(r, ins)
           q == Result(ins, a, r)
           lc == IF ins.op \in {"set_local", "tee_local"} THEN [r.locals EXCEPT ![ins.n] = a[1]] ELSE r.locals
           w == Upto(r.vals, h) \o q
<1>1. /\ r.pc \in Nat /\ r.vals \in Seq(Nat) /\ r.labels \in Seq(Labels) /\ r.locals \in [0 .. NLocals - 1 -> Nat]
      /\ r = [pc |-> r.pc, vals |-> r.vals, labels |-> r.labels, locals |-> r.locals]
  BY DEF Readings
<1>2. Len(r.vals) \in Nat
  BY <1>1, LenProperties
<1>3. h \in 0 .. Len(r.vals) /\ u \in Nat
  BY <1>2
<1>4. a \in Seq(Nat) /\ Len(a) = u /\ \A j \in 1 .. u : a[j] = r.vals[h + j]
  BY <1>1, LastNFacts
<1>5. s = [pc |-> r.pc + 1, vals |-> w, labels |-> r.labels, locals |-> lc]
  <2>1. Pops(ins) = u
    OBVIOUS
  <2>2. s = [r EXCEPT !.pc = @ + 1, !.vals = Upto(@, Len(@) - u) \o Result(ins, LastN(r.vals, u), r),
                      !.locals = IF ins.op \in {"set_local", "tee_local"} THEN [@ EXCEPT ![ins.n] = LastN(r.vals, u)[1]] ELSE @]
    BY <2>1, Zenon DEF ReadPlain
  <2>3. s = [r EXCEPT !.pc = r.pc + 1, !.vals = w, !.locals = lc]
    BY <2>2, Zenon
  <2> HIDE DEF s, w, lc
  <2> QED  BY <1>1, <2>3
<1> HIDE DEF a, h, s, lc
<1>6. q \in Seq(Nat) /\ Len(q) = Pushes(ins)
  BY <1>1, <1>4, ResultIs
<1> HIDE DEF q
<1>7. /\ w \in Seq(Nat) /\ Len(w) = h + Len(q)
      /\ \A k \in 1 .. h : w[k] = r.vals[k]
      /\ \A k \in 1 .. Len(q) : w[h + k] = q[k]
  BY <1>1, <1>3, <1>6, OnTop
<1>8. lc \in [0 .. NLocals - 1 -> Nat]
  <2>1. CASE ins.op \in {"set_local", "tee_local"}
    <3>1. Pops(ins) = 1
      BY <2>1 DEF Pops, Binary, Unary
    <3>4. 1 \in 1 .. Len(a)
      BY <1>4, <3>1
    <3>2. a[1] \in Nat
      BY <1>4, <3>4, ElementOfSeq
    <3>3. lc = [r.locals EXCEPT ![ins.n] = a[1]]
      BY <2>1 DEF lc
    <3> QED  BY <1>1, <3>2, <3>3
  <2>2. CASE ins.op \notin {"set_local", "tee_local"}
    BY <1>1, <2>2 DEF lc
  <2> QED  BY <2>1, <2>2
<1> HIDE DEF w
<1>9. /\ s.pc = r.pc + 1 /\ s.vals = w /\ s.labels = r.labels /\ s.locals = lc
  BY <1>5
<1>10. s \in Readings
  BY <1>1, <1>5, <1>7, <1>8 DEF Readings
<1>11. Pushes(ins) \in Nat
  BY <1>6, LenProperties
<1>12. ReadsAs(ins, r, u, a, h, s)
  BY <1>3, <1>4, <1>6, <1>7, <1>9, <1>10, <1>11 DEF ReadsAs, q, lc
<1> QED  BY <1>12 DEF a, h, s

LEMMA ReadyWhen ==
  ASSUME family \in Families, NEW labs \in Seq(Labels), NEW vals \in Seq(Nat), NEW x, Match(labs, vals, x),
         Tidy(labs, Len(vals)), Len(labs) >= 1, NEW u \in Nat, Last(labs).height + u <= Len(vals)
  PROVE  /\ Ready(family, x, u) /\ u \in 0 .. Len(vals)
         /\ \A j \in 1 .. u : View(x, x.rdi - Base - u + j) = vals[Len(vals) - u + j]
<1> DEFINE D == Len(labs)
           H == Len(vals)
<1>1. D \in Nat /\ H \in Nat /\ family.len \in Nat /\ H + D <= family.len + 1 /\ x.rdi = H + D + 1
  BY MatchFacts
<1>2. Last(labs) = labs[D] /\ D \in 1 .. D /\ labs[D].height \in Nat
  BY <1>1, LabelsAre DEF Last
<1>3. u <= H
  BY <1>1, <1>2
<1>4. Ready(family, x, u)
  BY <1>1, <1>3 DEF Ready, Match, Base
<1>5. ASSUME NEW j \in 1 .. u PROVE View(x, x.rdi - Base - u + j) = vals[H - u + j]
  <2>1. H - u + j \in 1 .. H /\ labs[D].height < H - u + j /\ x.rdi - Base - u + j = (H - u + j) + D
    <3>1. labs[D].height + u <= H
      BY <1>2
    <3> HIDE DEF H, D
    <3> QED  BY <1>1, <1>2, <1>3, <3>1 DEF Base
  <2>2. Above(labs, D, H - u + j)
    BY <1>1, <2>1 DEF Above
  <2>3. View(x, (H - u + j) + D) = vals[H - u + j]
    BY <1>2, <2>1, <2>2 DEF Match, Shows
  <2> QED  BY <2>1, <2>3
<1> QED  BY <1>1, <1>3, <1>4, <1>5

\* New operands on top of what is left of the old.
LEMMA Replaced ==
  ASSUME family \in Families, NEW labs \in Seq(Labels), NEW vals \in Seq(Nat), NEW x, Match(labs, vals, x),
         Tidy(labs, Len(vals)), Len(labs) >= 1, NEW u \in Nat, Last(labs).height + u <= Len(vals),
         NEW q, Len(q) \in Nat, NEW y, Typed(family, y), Replaces(x, y, u, q),
         NEW w \in Seq(Nat), Len(w) = Len(vals) - u + Len(q), Starts(w, vals, Len(vals) - u),
         \A k \in 1 .. Len(q) : w[Len(vals) - u + k] = q[k]
  PROVE  Match(labs, w, y)
<1> DEFINE D == Len(labs)
           H == Len(vals)
           n == Len(q)
           h == H - u
<1>1. D \in Nat /\ H \in Nat /\ x.rdi = H + D + 1 /\ n \in Nat
  BY MatchFacts
<1>2. Last(labs) = labs[D] /\ D \in 1 .. D /\ labs[D].height \in Nat /\ labs[D].height <= h
  BY <1>1, LabelsAre DEF Last
<1>3. h \in Nat /\ h <= H
  BY <1>1, <1>2
<1>4. /\ y.rdi = x.rdi - u + n /\ y.native = x.native /\ y.rbx = 0
      /\ \A j \in 1 .. x.rdi - Base - u : View(y, j) = View(x, j)
      /\ \A j \in 1 .. n : View(y, x.rdi - Base - u + j) = q[j]
  BY DEF Replaces
<1>5. x.rdi - Base - u = h + D /\ x.rdi - u + n = Base + (h + n) + D
  BY <1>1, <1>3 DEF Base
<1>6. ASSUME NEW e \in 1 .. D, NEW k \in 1 .. h + n, Above(labs, e, k) PROVE View(y, k + e) = w[k]
  <2>1. CASE k <= h
    <3>1. k \in 1 .. h /\ k \in 1 .. H /\ k + e \in 1 .. h + D
      <4> HIDE DEF h, D, H, n
      <4> QED  BY <1>1, <1>3, <2>1
    <3>2. View(x, k + e) = vals[k]
      BY <1>6, <3>1 DEF Match, Shows
    <3>3. View(y, k + e) = View(x, k + e)
      <4>1. k + e \in 1 .. x.rdi - Base - u
        BY <1>5, <3>1
      <4> QED  BY <1>4, <4>1
    <3>4. w[k] = vals[k]
      BY <3>1 DEF Starts
    <3> QED  BY <3>2, <3>3, <3>4
  <2>2. CASE k > h
    <3>1. e = D
      <4>1. e < D => k <= labs[e + 1].height
        BY <1>6 DEF Above
      <4>2. e < D => e + 1 \in 1 .. D
        BY <1>1
      <4>3. e < D => labs[e + 1].height <= labs[D].height /\ labs[e + 1].height \in Nat
        <5>1. e < D => e + 1 = D \/ e + 1 \in 1 .. D - 1
          BY <1>1
        <5>2. e + 1 \in 1 .. D - 1 => labs[e + 1].height <= labs[D].height
          BY <1>2 DEF Tidy
        <5>3. e < D => labs[e + 1].height \in Nat
          BY <4>2, LabelsAre
        <5> QED  BY <1>2, <5>1, <5>2, <5>3
      <4>4. ~(e < D)
        <5> SUFFICES ASSUME e < D PROVE FALSE
          OBVIOUS
        <5> DEFINE b == labs[e + 1].height
                   t == labs[D].height
        <5>1. k <= b /\ b <= t /\ b \in Nat /\ t <= h /\ t \in Nat
          BY <1>2, <4>1, <4>3
        <5> HIDE DEF b, t, h, n
        <5> QED  BY <1>3, <2>2, <5>1
      <4> HIDE DEF D
      <4> QED  BY <1>1, <4>4
    <3> DEFINE j == k - h
    <3>2. j \in 1 .. n /\ k = h + j /\ k + e = h + D + j
      <4> HIDE DEF h, D, n
      <4> QED  BY <1>1, <1>3, <2>2, <3>1
    <3> HIDE DEF j
    <3>3. w[h + j] = q[j]
      BY <3>2
    <3>4. View(y, h + D + j) = q[j]
      <4>1. View(y, x.rdi - Base - u + j) = q[j]
        BY <1>4, <3>2
      <4> QED  BY <1>5, <4>1
    <3>5. w[k] = q[j] /\ View(y, k + e) = q[j]
      <4> HIDE DEF h, D
      <4> QED  BY <3>2, <3>3, <3>4
    <3> QED  BY <3>5
  <2> QED  BY <1>3, <2>1, <2>2
<1>7. Shows(y, labs, w)
  BY <1>6 DEF Shows
<1>8. y.rdi = Base + Len(w) + D
  BY <1>4, <1>5
<1> QED  BY <1>4, <1>7, <1>8 DEF Match

\* The template of an opcode without control flow takes the machine from its reading to the next.
LEMMA PlainMatch ==
  ASSUME family \in Families, NEW ins, PlainOK(family, ins), ins.op \notin {"store", "f64_eq", "f64_lt"},
         NEW r \in Readings, Len(r.labels) >= 1, Tidy(r.labels, Len(r.vals)), NEW x, Match(r.labels, r.vals, x),
         NEW u \in Nat, u = Pops(ins), Last(r.labels).height + u <= Len(r.vals), Knows(family, x, r),
         NEW c, NEW p \in Nat, x.ip = p + 1, Has(c, p, Template(ins))
  PROVE  LET s == ReadPlain(r, ins)
         IN  \E y : /\ Runs(family, c, x, y) /\ y.ip = x.ip + Len(Template(ins))
                    /\ Match(s.labels, s.vals, y) /\ Knows(family, y, s)
<1> DEFINE a == LastN(r.vals, u)
           s == ReadPlain(r, ins)
           q == Result(ins, a, r)
<1>1. r.vals \in Seq(Nat) /\ r.labels \in Seq(Labels) /\ r.locals \in [0 .. NLocals - 1 -> Nat]
  BY DEF Readings
<1> DEFINE vs == r.vals
           labs == r.labels
<1>0. /\ family \in Families /\ labs \in Seq(Labels) /\ vs \in Seq(Nat) /\ Match(labs, vs, x) /\ Tidy(labs, Len(vs))
      /\ Len(labs) >= 1 /\ u \in Nat /\ Last(labs).height + u <= Len(vs)
  BY <1>1
<1> HIDE DEF vs, labs
<1>2. /\ Ready(family, x, u) /\ u \in 0 .. Len(vs)
      /\ \A j \in 1 .. u : View(x, x.rdi - Base - u + j) = vs[Len(vs) - u + j]
  BY ONLY <1>0, ReadyWhen
<1>3. /\ a \in Seq(Nat) /\ Len(a) = u /\ (\A j \in 1 .. u : a[j] = r.vals[Len(r.vals) - u + j])
      /\ s \in Readings /\ s.pc = r.pc + 1 /\ s.labels = r.labels
      /\ Len(s.vals) = Len(r.vals) - u + Pushes(ins) /\ Len(q) = Pushes(ins) /\ Pushes(ins) \in Nat
      /\ \A k \in 1 .. Len(r.vals) - u : s.vals[k] = r.vals[k]
      /\ \A k \in 1 .. Pushes(ins) : s.vals[Len(r.vals) - u + k] = q[k]
      /\ s.locals = IF ins.op \in {"set_local", "tee_local"} THEN [r.locals EXCEPT ![ins.n] = a[1]] ELSE r.locals
  <2>1. /\ family \in Families /\ PlainOK(family, ins) /\ ins.op # "store" /\ r \in Readings
        /\ u = Pops(ins) /\ u \in 0 .. Len(r.vals)
    BY <1>2 DEF vs
  <2>2. ReadsAs(ins, r, u, a, Len(r.vals) - u, s)
    BY ONLY <2>1, ReadPlainIs DEF a, s
  <2> HIDE DEF a, s
  <2> QED  BY <2>2 DEF ReadsAs, q
<1> HIDE DEF a, s, q
<1>4. x.native \in Seq(Nat)
  BY <1>1, SavedFacts DEF Match
<1>5. Args(x, u, a)
  BY <1>2, <1>3 DEF Args, vs
<1>6. Yields(family, c, x, u, q, After(ins, a, x.lmem), Len(Template(ins)))
  BY <1>2, <1>3, <1>4, <1>5, PlainYields DEF q
<1>7. PICK y : /\ Runs(family, c, x, y) /\ Typed(family, y) /\ y.ip = x.ip + Len(Template(ins))
               /\ Replaces(x, y, u, q) /\ SameLocals(family, y.lmem, After(ins, a, x.lmem))
  BY <1>6 DEF Yields
<1>8. Match(s.labels, s.vals, y)
  <2>1. s.vals \in Seq(Nat) /\ Len(q) \in Nat /\ Len(s.vals) = Len(r.vals) - u + Len(q) /\ Starts(s.vals, r.vals, Len(r.vals) - u)
    BY <1>3 DEF Starts, Readings
  <2>2. \A k \in 1 .. Len(q) : s.vals[Len(r.vals) - u + k] = q[k]
    BY <1>3
  <2> DEFINE w == s.vals
  <2>3. /\ Len(q) \in Nat /\ Typed(family, y) /\ Replaces(x, y, u, q) /\ w \in Seq(Nat)
        /\ Len(w) = Len(vs) - u + Len(q) /\ Starts(w, vs, Len(vs) - u)
        /\ \A k \in 1 .. Len(q) : w[Len(vs) - u + k] = q[k]
    BY <1>7, <2>1, <2>2 DEF vs
  <2> HIDE DEF w
  <2>4. Match(labs, w, y)
    BY ONLY <1>0, <2>3, Replaced
  <2> QED  BY <1>3, <2>4 DEF w, labs
<1>9. Knows(family, y, s)
  <2> SUFFICES ASSUME NEW i \in 0 .. family.locals - 1 PROVE s.locals[i] = y.lmem[i]
    BY DEF Knows
  <2>1. r.locals[i] = x.lmem[i] /\ y.lmem[i] = After(ins, a, x.lmem)[i]
    BY <1>7 DEF Knows, SameLocals
  <2>2. CASE ins.op \in {"set_local", "tee_local"}
    <3>1. s.locals = [r.locals EXCEPT ![ins.n] = a[1]] /\ After(ins, a, x.lmem) = [x.lmem EXCEPT ![ins.n] = a[1]]
      BY <1>3, <2>2 DEF After
    <3>2. i \in 0 .. NLocals - 1 /\ x.lmem \in [LocalsOf(family) -> Nat] /\ i \in LocalsOf(family)
      <4>1. NLocals \in Nat
        BY FamilyFacts
      <4>2. x.lmem \in [LocalsOf(family) -> Nat]
        BY DEF Match, Typed
      <4> QED  BY <4>1, <4>2 DEF LocalsOf, NLocals
    <3> QED  BY <1>1, <2>1, <3>1, <3>2
  <2>3. CASE ins.op \notin {"set_local", "tee_local"}
    BY <1>3, <2>1, <2>3 DEF After
  <2> QED  BY <2>2, <2>3
<1> QED  BY <1>7, <1>8, <1>9 DEF s

\* The topmost operand is taken off.
LEMMA Dropped ==
  ASSUME family \in Families, NEW labs \in Seq(Labels), NEW vals \in Seq(Nat), NEW x, Match(labs, vals, x),
         Tidy(labs, Len(vals)), Len(labs) >= 1, Last(labs).height < Len(vals), NEW p \in Nat
  PROVE  /\ Match(labs, Front(vals), Core(p, x.mem[x.rdi - 1], x.rcx, x.rdi - 1, x.rbx, x.mem, x.lmem, x.native))
         /\ x.rax = Last(vals) /\ x.rax \in Nat
         /\ Front(vals) \in Seq(Nat) /\ Len(Front(vals)) = Len(vals) - 1 /\ Len(vals) \in Nat
         /\ \A k \in 1 .. Len(vals) - 1 : Front(vals)[k] = vals[k]
         /\ Len(vals) - 1 \in 0 .. Len(vals)
<1> DEFINE y == Core(p, x.mem[x.rdi - 1], x.rcx, x.rdi - 1, x.rbx, x.mem, x.lmem, x.native)
           H == Len(vals)
           w == Front(vals)
           one == 1
           q == <<>>
<1>1. H \in Nat /\ Last(labs).height \in Nat /\ H >= 1 /\ one \in Nat
  <2>1. H \in Nat /\ Len(labs) \in Nat
    BY LenProperties
  <2>2. Last(labs) = labs[Len(labs)] /\ Len(labs) \in 1 .. Len(labs)
    BY <2>1 DEF Last
  <2>3. Last(labs).height \in Nat
    BY <2>2, LabelsAre
  <2> QED  BY <2>1, <2>3
<1>2. one = 1
  OBVIOUS
<1> HIDE DEF one
<1>3. Last(labs).height + one <= Len(vals)
  BY <1>1, <1>2
<1>4. /\ Ready(family, x, one)
      /\ \A j \in 1 .. one : View(x, x.rdi - Base - one + j) = vals[Len(vals) - one + j]
  BY <1>1, <1>3, ReadyWhen
<1>5. w \in Seq(Nat) /\ Len(w) = H - 1 /\ \A k \in 1 .. H - 1 : w[k] = vals[k]
  <2>1. w = SubSeq(vals, 1, H - 1)
    BY DEF Front
  <2>2. H - 1 \in 0 .. H
    BY <1>1
  <2>3. w = Upto(vals, H - 1)
    BY <2>1 DEF Upto
  <2> HIDE DEF w
  <2> QED  BY <2>2, <2>3, UptoFacts
<1> HIDE DEF w
<1>6. /\ x.rdi - Base \in Nat /\ x.rdi - Base >= 1 /\ x.mem[x.rdi - 1] \in Nat /\ View(x, x.rdi - Base) = x.rax
      /\ x.rdi \in Nat /\ x.rdi - 1 \in Nat /\ x.rax \in Nat /\ x.rdi - Base - one \in Nat
      /\ \A j \in 1 .. x.rdi - Base - 1 : View(x, j) = x.mem[Base + j]
      /\ x.rdi - Base - one >= 1
  <2>1. /\ x.rdi \in SlotsOf(family) /\ x.rdi - 1 \in SlotsOf(family)
        /\ \A j \in 1 .. x.rdi - Base - 1 : View(x, j) = x.mem[Base + j]
        /\ View(x, x.rdi - Base) = x.rax
        /\ one \in 0 .. x.rdi - Base - 1 /\ x.rdi - Base - one \in Nat
    BY <1>4, SlotsAre
  <2>2. x.mem \in [SlotsOf(family) -> Nat] /\ x.rax \in Nat /\ x.rdi \in Nat
    BY DEF Match, Typed
  <2>3. x.rdi - 1 \in Nat
    BY <2>1 DEF SlotsOf
  <2>4. x.rdi - Base \in Nat /\ x.rdi - Base >= 1 /\ x.rdi - Base - one >= 1
    <3>1. 1 \in 0 .. x.rdi - 1 - 1
      BY <1>2, <2>1 DEF Base
    <3> QED  BY <1>2, <2>2, <3>1 DEF Base
  <2> QED  BY <2>1, <2>2, <2>3, <2>4
<1>7. x.rax = Last(vals)
  <2>1. 1 \in 1 .. one /\ x.rdi - Base - one + 1 = x.rdi - Base /\ Len(vals) - one + 1 = Len(vals)
    BY <1>1, <1>2, <1>6
  <2> QED  BY <1>4, <1>6, <2>1 DEF Last
<1>8. Typed(family, y)
  <2>1. x.mem \in [SlotsOf(family) -> Nat] /\ x.lmem \in [LocalsOf(family) -> Nat]
    BY DEF Match, Typed
  <2> QED  BY <1>6, <2>1, CoreTyped
<1>9. /\ y.rdi = x.rdi - 1 /\ y.native = x.native /\ y.rbx = x.rbx /\ y.rax = x.mem[x.rdi - 1] /\ y.mem = x.mem
  BY DEF Core
<1>10. x.rbx = 0
  BY DEF Match
<1> HIDE DEF y
<1>11. Replaces(x, y, one, <<>>)
  <2>1. y.rdi = x.rdi - one
    BY <1>2, <1>9
  <2>2. y.rax = View(x, x.rdi - Base - one)
    <3>1. x.rdi - Base - one \in 1 .. x.rdi - Base - 1 /\ Base + (x.rdi - Base - one) = x.rdi - 1
      <4> DEFINE e == x.rdi
      <4>1. e \in Nat /\ e - Base - one >= 1 /\ one = 1
        BY ONLY <1>2, <1>6, Zenon DEF e
      <4> HIDE DEF e
      <4>2. e - Base - one \in 1 .. e - Base - 1 /\ Base + (e - Base - one) = e - 1
        BY ONLY <4>1 DEF Base
      <4> QED  BY <4>2 DEF e
    <3>2. View(x, x.rdi - Base - one) = x.mem[Base + (x.rdi - Base - one)]
      BY <1>6, <3>1
    <3> QED  BY <1>9, <3>1, <3>2
  <2>3. \A j \in 1 .. x.rdi - Base - one - 1 : y.mem[Base + j] = View(x, j)
    <3> TAKE j \in 1 .. x.rdi - Base - one - 1
    <3>1. j \in 1 .. x.rdi - Base - 1
      BY <1>2, <1>6
    <3> QED  BY <1>6, <1>9, <3>1
  <2> QED  BY <1>4, <1>9, <1>10, <2>1, <2>2, <2>3, NoneLeft
<1>12. q = <<>> /\ Len(q) = 0 /\ Len(q) \in Nat
  OBVIOUS
<1>13. Replaces(x, y, one, q)
  BY <1>11, <1>12
<1> HIDE DEF q
<1>14. Len(w) = Len(vals) - one + Len(q) /\ Starts(w, vals, Len(vals) - one)
  <2>1. H - one = H - 1 /\ H - 1 + 0 = H - 1
    BY <1>1, <1>2
  <2> QED  BY <1>5, <1>12, <2>1 DEF Starts
<1>15. \A k \in 1 .. Len(q) : w[Len(vals) - one + k] = q[k]
  BY <1>12
<1>16. Match(labs, w, y)
  <2>1. /\ family \in Families /\ labs \in Seq(Labels) /\ vals \in Seq(Nat) /\ Match(labs, vals, x) /\ Tidy(labs, Len(vals))
        /\ Len(labs) >= 1 /\ one \in Nat /\ Last(labs).height + one <= Len(vals)
    BY <1>1, <1>3
  <2>2. /\ Len(q) \in Nat /\ Typed(family, y) /\ Replaces(x, y, one, q) /\ w \in Seq(Nat)
        /\ Len(w) = Len(vals) - one + Len(q) /\ Starts(w, vals, Len(vals) - one)
        /\ \A k \in 1 .. Len(q) : w[Len(vals) - one + k] = q[k]
    BY <1>5, <1>8, <1>12, <1>13, <1>14, <1>15
  <2> QED  BY ONLY <2>1, <2>2, Replaced
<1>17. H - 1 \in 0 .. H
  BY <1>1
<1> QED  BY <1>1, <1>5, <1>6, <1>7, <1>16, <1>17 DEF y, w

-----------------------------------------------------------------------------
(* A finished function: its points, its code and where its branches go.    *)

Compiled(f, st) == PatchInv /\ FlowInv(f) /\ CodeInv(f, st) /\ phase # "compile"

LEMMA FixHas ==
  ASSUME NEW B, NEW c, NEW off, NEW s, Fix(B, c, off, s)
  PROVE  Has(c, off, s)
  BY DEF Fix, Has

LEMMA PointIs ==
  ASSUME NEW f, NEW st, Compiled(f, st), NEW i \in 1 .. Len(prog) + 1
  PROVE  /\ Len(prog) \in Nat /\ family \in Families /\ i \in Nat
         /\ f[i] \in Points /\ f[i].labels \in Seq(Labels) /\ f[i].height \in Nat
         /\ Tidy(f[i].labels, f[i].height) /\ Nested(prog, f, i) /\ st[i] \in Nat /\ st[i] # 0
         /\ i <= Len(prog) =>
               /\ prog[i] \in Bytecode /\ i + 1 \in 1 .. Len(prog) + 1
               /\ Moves(prog, family, i, f[i], f[i + 1])
               /\ Shape(prog, closes, <<>>, code, st, phase, f[i].labels, i, Templates[i])
               /\ Len(f[i].labels) >= 1 /\ code[st[i]] = Ins("dbg", i)
<1>1. prog \in Seq(Bytecode) /\ family \in Families /\ Len(prog) \in Nat /\ blocks = <<>>
  <2>1. prog \in Seq(Bytecode) /\ family \in Families /\ blocks = <<>>
    BY DEF Compiled, PatchInv, CompilerType, FlowInv
  <2> QED  BY <2>1, LenProperties
<1>2. /\ f \in [1 .. Len(prog) + 1 -> Points]
      /\ \A k \in 1 .. Len(prog) : Moves(prog, family, k, f[k], f[k + 1])
      /\ \A k \in 1 .. Len(prog) + 1 : Nested(prog, f, k) /\ Bounded(family, f, k)
  BY DEF Compiled, FlowInv, Flows
<1>3. /\ st \in [1 .. Len(prog) + 1 -> 1 .. Len(code) + 1]
      /\ \A k \in 1 .. Len(prog) : Shape(prog, closes, <<>>, code, st, phase, f[k].labels, k, Templates[k])
  BY <1>1 DEF Compiled, CodeInv, Laid
<1>4. f[i] \in Points /\ f[i].labels \in Seq(Labels) /\ f[i].height \in Nat
  BY <1>2, PointFacts
<1>5. Tidy(f[i].labels, f[i].height)
  <2>1. f[i].height + Len(f[i].labels) <= family.len + 1
    BY <1>2 DEF Bounded
  <2>2. \A j \in 1 .. Len(f[i].labels) : /\ f[i].labels[j].height <= f[i].height
                                         /\ \A k \in 1 .. j - 1 : f[i].labels[k].height <= f[i].labels[j].height
    BY <1>2 DEF Nested
  <2> QED  BY <2>1, <2>2 DEF Tidy
<1>6. st[i] \in Nat /\ st[i] # 0
  <2>1. st[i] \in 1 .. Len(code) + 1
    BY <1>3
  <2> QED  BY <2>1
<1>7. ASSUME i <= Len(prog)
      PROVE  /\ prog[i] \in Bytecode /\ i + 1 \in 1 .. Len(prog) + 1
             /\ Moves(prog, family, i, f[i], f[i + 1])
             /\ Shape(prog, closes, <<>>, code, st, phase, f[i].labels, i, Templates[i])
             /\ Len(f[i].labels) >= 1 /\ code[st[i]] = Ins("dbg", i)
  <2>1. i \in 1 .. Len(prog) /\ i + 1 \in 1 .. Len(prog) + 1
    BY <1>1, <1>7
  <2>2. prog[i] \in Bytecode
    BY <1>1, <2>1, ElementOfSeq
  <2>3. Moves(prog, family, i, f[i], f[i + 1]) /\ Shape(prog, closes, <<>>, code, st, phase, f[i].labels, i, Templates[i])
    BY <1>2, <1>3, <2>1
  <2>4. Len(f[i].labels) >= 1
    BY <2>3 DEF Moves
  <2>5. code[st[i]] = Ins("dbg", i)
    <3> DEFINE p == st[i]
               d == Ins("dbg", i)
    <3>1. Fix(<<>>, code, p - 1, <<d>>)
      BY <2>3 DEF Shape
    <3> HIDE DEF p, d
    <3>2. code[p - 1 + 1] = d
      BY <3>1, FixHas, HasOne
    <3>3. p - 1 + 1 = p
      BY <1>6 DEF p
    <3>4. code[p] = d
      BY <3>2, <3>3
    <3> QED  BY <3>4 DEF p, d
  <2> QED  BY <2>1, <2>2, <2>3, <2>4, <2>5
<1> QED  BY <1>1, <1>2, <1>4, <1>5, <1>6, <1>7

LEMMA LastPoint ==
  ASSUME NEW f, NEW st, Compiled(f, st)
  PROVE  /\ f[Len(prog) + 1].labels = <<>> /\ Len(prog) >= 1 /\ f[1] = Entered
         /\ code[st[Len(prog) + 1]].op = "ret" /\ st[1] = Len(FnPrologue) + 1 /\ Has(code, 0, FnPrologue)
         /\ OpenAts = {}
         /\ \A a \in 1 .. Len(prog) : prog[a].op \in Openers => Closed(prog, family, closes, {}, f, a)
<1>1. prog \in Seq(Bytecode) /\ family \in Families /\ Len(prog) \in Nat /\ blocks = <<>>
  <2>1. prog \in Seq(Bytecode) /\ family \in Families /\ blocks = <<>>
    BY DEF Compiled, PatchInv, CompilerType, FlowInv
  <2> QED  BY <2>1, LenProperties
<1>2. Now.labels = <<>>
  BY <1>1 DEF Now
<1>3. f[Len(prog) + 1].labels = <<>>
  BY <1>2 DEF Compiled, FlowInv
<1>4. f[1] = Entered
  BY DEF Compiled, FlowInv, Flows
<1>5. Len(prog) >= 1
  <2>1. Entered.labels # <<>>
    BY DEF Entered
  <2>2. Len(prog) + 1 # 1
    BY <1>3, <1>4, <2>1
  <2> QED  BY <1>1, <2>2
<1>6. code[st[Len(prog) + 1]].op = "ret"
  BY InsFields DEF Compiled, CodeInv
<1>7. st[1] = Len(FnPrologue) + 1 /\ Has(code, 0, FnPrologue)
  BY FixHas DEF Compiled, CodeInv, Laid
<1>8. OpenAts = {}
  BY <1>1 DEF OpenAts
<1>9. \A a \in 1 .. Len(prog) : prog[a].op \in Openers => Closed(prog, family, closes, {}, f, a)
  BY <1>8 DEF Compiled, FlowInv, Flows
<1> QED  BY <1>3, <1>4, <1>5, <1>6, <1>7, <1>8, <1>9

\* What a label of instruction i is, from the outermost: the function, or an opener before i.
Inside(f, i, d, l) ==
    /\ l = Label(l.at, l.height) /\ l \in Labels /\ Len(f[i].labels) \in Nat /\ d \in Nat
    /\ Len(f[i].labels) - d \in 1 .. Len(f[i].labels)
    /\ l.at = 0 <=> d = Len(f[i].labels) - 1
    /\ l.at = 0 => l.height = 0
    /\ l.at # 0 =>
          /\ l.at \in 1 .. Len(prog) /\ l.at + 1 \in 1 .. Len(prog)
          /\ prog[l.at].op \in Openers /\ prog[l.at].n \in {0, 1} /\ <<prog[l.at].op, prog[l.at].n>> \in family.openers
          /\ f[l.at + 1].labels = Upto(f[i].labels, Len(f[i].labels) - d)
          /\ f[l.at + 1].live /\ f[l.at + 1].height = l.height
\* Where the block of the label ends.
Leads(f, i, d, l) ==
    /\ closes[l.at].end \in Nat /\ closes[l.at].end # 0 /\ closes[l.at].end + 1 \in 1 .. Len(prog)
    /\ f[closes[l.at].end + 1].live
    /\ f[closes[l.at].end + 1].labels = Left(f[i].labels, d)
    /\ f[closes[l.at].end + 1].height = l.height + prog[l.at].n

LEMMA LabelIs ==
  ASSUME NEW f, NEW st, Compiled(f, st), NEW i \in 1 .. Len(prog), NEW d \in 0 .. Len(f[i].labels) - 1,
         NEW l, l = Nth(f[i].labels, d)
  PROVE  Inside(f, i, d, l) /\ (l.at # 0 => Leads(f, i, d, l))
<1> DEFINE labs == f[i].labels
           j == Len(labs) - d
           a == l.at
<1>1. Len(prog) \in Nat /\ i \in 1 .. Len(prog) + 1 /\ i <= Len(prog) /\ i \in Nat
  <2>1. Len(prog) \in Nat
    BY LenProperties DEF Compiled, PatchInv, CompilerType
  <2> QED  BY <2>1
<1>2. family \in Families /\ labs \in Seq(Labels) /\ Nested(prog, f, i)
  BY <1>1, PointIs
<1>3. Len(labs) \in Nat /\ d \in Nat /\ j \in 1 .. Len(labs) /\ j \in Nat /\ l = labs[j] /\ l \in Labels
  <2>1. Len(labs) \in Nat
    BY <1>2, LenProperties
  <2>2. j \in 1 .. Len(labs) /\ j \in Nat /\ d \in Nat
    BY <2>1
  <2>3. l = labs[j]
    BY DEF Nth
  <2> QED  BY <1>2, <2>1, <2>2, <2>3, LabelsAre
<1>4. l = Label(l.at, l.height) /\ a \in Nat
  BY <1>3 DEF Labels, Label
<1>10. j >= 1 /\ j \in 1 .. j
  <2> HIDE DEF j
  <2> QED  BY <1>3
<1>5. /\ a < i /\ (a = 0 <=> j = 1) /\ (a # 0 => prog[a].op \in Openers)
      /\ Upto(labs, j) = f[a + 1].labels
  BY <1>2, <1>3 DEF Nested, Upto
<1>6. a = 0 <=> d = Len(labs) - 1
  BY <1>3, <1>5
<1>7. Upto(labs, j) \in Seq(Labels) /\ Len(Upto(labs, j)) = j /\ \A k \in 1 .. j : Upto(labs, j)[k] = labs[k]
  <2>1. j \in 0 .. Len(labs)
    BY <1>3
  <2> HIDE DEF labs, j
  <2> QED  BY <1>2, <2>1, UptoFacts
<1>8. a = 0 => l.height = 0
  <2> SUFFICES ASSUME a = 0 PROVE l.height = 0
    OBVIOUS
  <2>1. j = 1 /\ f[1] = Entered /\ f[a + 1] = f[1]
    BY <1>5, LastPoint
  <2>2. Upto(labs, 1) = <<Label(0, 0)>>
    BY <1>5, <2>1 DEF Entered
  <2>3. Upto(labs, 1)[1] = labs[1] /\ labs[1] = l
    BY <1>3, <1>7, <2>1
  <2>4. l = Label(0, 0)
    BY <2>2, <2>3
  <2> QED  BY <2>4 DEF Label
<1> DEFINE ends == closes[a].end
<1>9. ASSUME a # 0
      PROVE  /\ a \in 1 .. Len(prog) /\ a + 1 \in 1 .. Len(prog)
             /\ prog[a].op \in Openers /\ prog[a].n \in {0, 1} /\ <<prog[a].op, prog[a].n>> \in family.openers
             /\ f[a + 1].live /\ f[a + 1].height = l.height
             /\ Leads(f, i, d, l)
  <2>1. a \in 1 .. Len(prog) /\ a + 1 \in 1 .. Len(prog) /\ a \in 1 .. Len(prog) + 1 /\ a <= Len(prog) /\ a + 1 \in 1 .. Len(prog) + 1
    BY <1>1, <1>4, <1>5, <1>9
  <2>2. prog[a].op \in Openers /\ Closed(prog, family, closes, {}, f, a)
    BY <1>5, <1>9, <2>1, LastPoint
  <2>3. <<prog[a].op, prog[a].n>> \in family.openers /\ prog[a].n \in {0, 1}
    <3>1. <<prog[a].op, prog[a].n>> \in family.openers
      BY <2>2 DEF Closed
    <3>2. family.openers \subseteq {"block", "loop", "if"} \X {0, 1}
      BY <1>2, FamilyFacts
    <3> QED  BY <3>1, <3>2
  <2>4. PICK H \in Nat : f[a + 1].live /\ f[a + 1].height = H /\ f[a + 1].labels = Append(f[a].labels, Label(a, H))
    <3>1. Moves(prog, family, a, f[a], f[a + 1]) /\ f[a + 1].height \in Nat
      BY <2>1, PointIs
    <3>2. prog[a].op \in {"block", "loop", "if"}
      BY <2>2 DEF Openers
    <3>3. f[a + 1].live /\ f[a + 1].labels = Append(f[a].labels, Label(a, f[a + 1].height))
      BY <3>1, <3>2 DEF Moves
    <3> QED  BY <3>1, <3>3
  <2>5. l.height = H
    <3>1. f[a].labels \in Seq(Labels)
      BY <2>1, PointIs
    <3> DEFINE s == f[a].labels
               e == Label(a, H)
    <3>2. e \in Labels
      BY <1>4 DEF Label, Labels
    <3> HIDE DEF s, e
    <3>3. Len(s) \in Nat /\ Len(Append(s, e)) = Len(s) + 1 /\ Append(s, e)[Len(s) + 1] = e
      BY <3>1, <3>2, AppendFacts, LenProperties DEF s
    <3>4. Append(s, e) = Upto(labs, j)
      BY <1>5, <2>4 DEF s, e
    <3>5. Len(s) + 1 = j
      BY <1>7, <3>3, <3>4
    <3>6. Upto(labs, j)[j] = labs[j]
      <4> HIDE DEF j, labs
      <4> QED  BY <1>7, <1>10
    <3>7. l = e
      BY <1>3, <3>3, <3>4, <3>5, <3>6
    <3> QED  BY <3>7 DEF e, Label
  <2>6. closes[a] \in [els : Nat, end : Nat] /\ ends \in Nat
    <3>1. closes \in [1 .. family.len -> [els : Nat, end : Nat]]
      BY DEF Compiled, FlowInv, Flows
    <3>2. a \in 1 .. family.len
      <4>1. a <= family.len
        BY <2>2 DEF Closed
      <4>2. family.len \in Nat
        BY <1>2, FamilyFacts DEF MaxLen
      <4> QED  BY <2>1, <4>1, <4>2
    <3> QED  BY <3>1, <3>2
  <2>7. /\ ends # 0 /\ ends \in a + 1 .. Len(prog) /\ f[ends + 1].live
        /\ f[ends + 1].labels = Front(f[a + 1].labels)
        /\ f[ends + 1].height = Last(f[a + 1].labels).height + prog[a].n
    BY <2>2 DEF Closed
  <2>8. Front(Upto(labs, j)) = Left(labs, d)
    <3> DEFINE u == Upto(labs, j)
               v == Left(labs, d)
    <3>1. j - 1 \in 0 .. Len(labs) /\ Len(labs) - d - 1 = j - 1
      BY <1>3
    <3>2. v = Upto(labs, j - 1)
      BY <3>1 DEF Left
    <3>3. v \in Seq(Labels) /\ Len(v) = j - 1 /\ \A k \in 1 .. j - 1 : v[k] = labs[k]
      <4> HIDE DEF labs, j, v
      <4> QED  BY <1>2, <3>1, <3>2, UptoFacts
    <3> HIDE DEF u, v
    <3>4. u \in Seq(Labels) /\ Len(u) = j /\ \A k \in 1 .. j : u[k] = labs[k]
      BY <1>7 DEF u
    <3>5. Front(u) \in Seq(Labels) /\ Len(Front(u)) = j - 1 /\ \A k \in 1 .. j - 1 : Front(u)[k] = u[k]
      <4> HIDE DEF j
      <4>1. Len(u) >= 1
        BY <1>10, <3>4
      <4> QED  BY <3>4, <4>1, FrontFacts
    <3>6. \A k \in 1 .. j - 1 : Front(u)[k] = v[k]
      <4> TAKE k \in 1 .. j - 1
      <4>1. k \in 1 .. j
        BY <1>3
      <4> QED  BY <3>3, <3>4, <3>5, <4>1
    <3>7. Front(u) = v
      BY <3>3, <3>5, <3>6, SeqEqual
    <3> QED  BY <3>7 DEF u, v
  <2>9. Last(f[a + 1].labels).height = l.height
    <3>1. Last(Upto(labs, j)) = labs[j]
      <4> HIDE DEF j, labs
      <4> QED  BY <1>7, <1>10 DEF Last
    <3> QED  BY <1>3, <1>5, <3>1
  <2>10. ends + 1 \in 1 .. Len(prog)
    <3>1. ends # Len(prog)
      <4> SUFFICES ASSUME ends = Len(prog) PROVE FALSE
        OBVIOUS
      <4>1. Left(labs, d) = <<>>
        BY <1>5, <2>7, <2>8, LastPoint
      <4>2. Len(Left(labs, d)) = j - 1
        <5>1. j - 1 \in 0 .. Len(labs) /\ Len(labs) - d - 1 = j - 1
          BY <1>3
        <5>2. Left(labs, d) = Upto(labs, j - 1)
          BY <5>1 DEF Left
        <5> HIDE DEF labs, j
        <5> QED  BY <1>2, <5>1, <5>2, UptoFacts
      <4>3. j = 1
        BY <1>3, <4>1, <4>2
      <4> QED  BY <1>5, <1>9, <4>3
    <3> QED  BY <1>1, <2>1, <2>6, <2>7, <3>1
  <2>11. Leads(f, i, d, l)
    BY <1>5, <2>6, <2>7, <2>8, <2>9, <2>10 DEF Leads
  <2> QED  BY <2>1, <2>2, <2>3, <2>4, <2>5, <2>11
<1> QED  BY <1>3, <1>4, <1>5, <1>6, <1>8, <1>9 DEF Inside

\* Where a branch to the opener a goes, and what the code says of it.
Aim(st, a) ==
    IF LoopAt(prog, a) THEN st[a] + 1 ELSE IF a = 0 THEN st[Len(prog) + 1] ELSE st[closes[a].end + 1]

LEMMA AimIs ==
  ASSUME NEW f, NEW st, Compiled(f, st), NEW i \in 1 .. Len(prog), NEW d \in 0 .. Len(f[i].labels) - 1,
         NEW l, l = Nth(f[i].labels, d)
  PROVE  /\ Aim(st, l.at) \in Nat /\ Aim(st, l.at) # 0
         /\ \A op : op # "enter if" => Goal(prog, closes, st, phase, op, l.at) = Aim(st, l.at)
<1>1. Inside(f, i, d, l) /\ (l.at # 0 => Leads(f, i, d, l))
  BY LabelIs
<1>2. /\ Len(prog) \in Nat
      /\ \A k \in 1 .. Len(prog) + 1 : st[k] \in Nat /\ st[k] # 0
  <2>1. Len(prog) \in Nat
    BY LenProperties DEF Compiled, PatchInv, CompilerType
  <2> QED  BY <2>1, PointIs
<1>3. CASE LoopAt(prog, l.at)
  <2>1. l.at # 0 /\ Aim(st, l.at) = st[l.at] + 1
    BY <1>3 DEF LoopAt, Aim
  <2>2. l.at \in 1 .. Len(prog) + 1
    BY <1>1, <1>2, <2>1 DEF Inside
  <2>3. st[l.at] \in Nat /\ st[l.at] # 0
    BY <1>2, <2>2
  <2>4. prog[l.at].op = "loop"
    BY <1>3 DEF LoopAt
  <2>5. closes[l.at].els = 0
    <3>1. Closed(prog, family, closes, {}, f, l.at)
      BY <1>1, <2>1, <2>4, LastPoint DEF Inside
    <3> QED  BY <2>4, <3>1 DEF Closed
  <2> QED  BY <1>3, <2>1, <2>3, <2>5 DEF Goal
<1>4. CASE ~LoopAt(prog, l.at) /\ l.at = 0
  <2>1. Aim(st, l.at) = st[Len(prog) + 1] /\ Len(prog) + 1 \in 1 .. Len(prog) + 1
    BY <1>2, <1>4 DEF Aim
  <2> QED  BY <1>2, <1>4, <2>1 DEF Goal, Compiled
<1>5. CASE ~LoopAt(prog, l.at) /\ l.at # 0
  <2>1. Aim(st, l.at) = st[closes[l.at].end + 1] /\ closes[l.at].end # 0 /\ closes[l.at].end + 1 \in 1 .. Len(prog)
    BY <1>1, <1>5 DEF Aim, Leads
  <2>2. closes[l.at].end + 1 \in 1 .. Len(prog) + 1
    BY <1>2, <2>1
  <2> QED  BY <1>2, <1>5, <2>1, <2>2 DEF Goal
<1> QED  BY <1>3, <1>4, <1>5

LEMMA JumpsTo ==
  ASSUME NEW cl, NEW st, NEW p, NEW op, NEW a, NEW g, g # 0, Jump(prog, cl, <<>>, code, st, phase, p, op, a),
         Goal(prog, cl, st, phase, op, a) = g
  PROVE  code[p].op = op /\ code[p].n = g
  BY DEF Jump, Goes, Written

-----------------------------------------------------------------------------
(* Where a run from one instruction to the next arrives.                   *)

Stands(f, st, r, y) ==
    /\ r.pc \in 1 .. Len(prog) /\ y.ip = st[r.pc] /\ f[r.pc].live
    /\ r.labels = f[r.pc].labels /\ Len(r.vals) = f[r.pc].height
    /\ Match(r.labels, r.vals, y)
Returns(r, y) ==
    /\ r.pc = Len(prog) + 1 /\ code[y.ip].op = "ret" /\ y.native = <<RetAddr>>
    /\ FnArity = 1 => y.rax = Last(r.vals)
Arrived(f, st, r, y) ==
    /\ r \in Readings /\ Knows(family, y, r)
    /\ y = Core(y.ip, y.rax, y.rcx, y.rdi, y.rbx, y.mem, y.lmem, y.native)
    /\ Stands(f, st, r, y) \/ Returns(r, y)
Arrives(f, st, x, r) == \E y : Runs(family, code, x, y) /\ Arrived(f, st, r, y)

LEMMA ArrivesOn ==
  ASSUME NEW f, NEW st, NEW x, NEW y, NEW r, Runs(family, code, x, y), Arrives(f, st, y, r)
  PROVE  Arrives(f, st, x, r)
  BY RunsOn DEF Arrives

LEMMA StandsArrives ==
  ASSUME NEW f, NEW st, NEW y, NEW r \in Readings, Knows(family, y, r), Stands(f, st, r, y)
  PROVE  Arrives(f, st, y, r)
<1>1. y = Core(y.ip, y.rax, y.rcx, y.rdi, y.rbx, y.mem, y.lmem, y.native)
  BY DEF Stands, Match, Typed
<1>2. Runs(family, code, y, y)
  BY RunsNot
<1> QED  BY <1>1, <1>2 DEF Arrives, Arrived

\* A label and those around it.
LEMMA AppendLeft ==
  ASSUME NEW labs \in Seq(Labels), NEW d \in Nat, Len(labs) - d \in 1 .. Len(labs)
  PROVE  Append(Left(labs, d), Nth(labs, d)) = Upto(labs, Len(labs) - d) /\ Left(labs, d) \in Seq(Labels)
<1> DEFINE j == Len(labs) - d
           u == Left(labs, d)
           v == Upto(labs, j)
           e == labs[j]
           w == Append(u, e)
<1>1. Len(labs) \in Nat /\ j \in 1 .. Len(labs) /\ j - 1 \in 0 .. Len(labs) /\ j \in 0 .. Len(labs) /\ Len(labs) - d - 1 = j - 1
  <2>1. Len(labs) \in Nat
    BY LenProperties
  <2> QED  BY <2>1
<1>2. e \in Labels /\ u = Upto(labs, j - 1) /\ e = Nth(labs, d)
  BY <1>1, LabelsAre DEF Left, Nth
<1> HIDE DEF e, j
<1>3. u \in Seq(Labels) /\ Len(u) = j - 1 /\ \A k \in 1 .. j - 1 : u[k] = labs[k]
  BY <1>1, <1>2, UptoFacts
<1>4. v \in Seq(Labels) /\ Len(v) = j /\ \A k \in 1 .. j : v[k] = labs[k]
  BY <1>1, UptoFacts
<1> HIDE DEF u, v
<1>5. w \in Seq(Labels) /\ Len(w) = j - 1 + 1 /\ w[j - 1 + 1] = e /\ \A k \in 1 .. j - 1 : w[k] = u[k]
  BY <1>2, <1>3, AppendFacts
<1> HIDE DEF w
<1>6. \A k \in 1 .. j : w[k] = v[k]
  <2> TAKE k \in 1 .. j
  <2>1. k = j \/ k \in 1 .. j - 1
    BY <1>1
  <2>2. CASE k = j
    <3>1. j - 1 + 1 = j
      BY <1>1
    <3> QED  BY <1>4, <1>5, <2>2, <3>1 DEF e
  <2>3. CASE k \in 1 .. j - 1
    BY <1>3, <1>4, <1>5, <2>3
  <2> QED  BY <2>1, <2>2, <2>3
<1>7. w = v
  <2>1. j - 1 + 1 = j
    BY <1>1
  <2> QED  BY <1>4, <1>5, <1>6, <2>1, SeqEqual
<1> QED  BY <1>2, <1>3, <1>7 DEF w, u, v, e, j

\* What a branch finds at the opener it goes to: the end of a block, or a loop that it enters anew.
LEMMA Lands ==
  ASSUME NEW f, NEW st, Compiled(f, st), NEW i \in 1 .. Len(prog), NEW d \in 0 .. Len(f[i].labels) - 1,
         NEW l, l = Nth(f[i].labels, d), l.at # 0,
         NEW w \in Seq(Nat), Len(w) = l.height + Takes(prog, family, l.at), Len(w) <= f[i].height,
         NEW y, Match(Left(f[i].labels, d), w, y), y.ip = Aim(st, l.at),
         NEW r \in Readings, Knows(family, y, r), r.vals = w,
         r.pc = IF IsLoop(l) THEN l.at + 1 ELSE EndOf(l) + 1,
         r.labels = IF IsLoop(l) THEN Upto(f[i].labels, Len(f[i].labels) - d) ELSE Left(f[i].labels, d)
  PROVE  Arrives(f, st, y, r)
<1> DEFINE labs == f[i].labels
           a == l.at
           left == Left(labs, d)
<1>1. Inside(f, i, d, l) /\ Leads(f, i, d, l)
  BY LabelIs
<1>2. IsLoop(l) <=> LoopAt(prog, a)
  BY DEF IsLoop, LoopAt
<1>3. Len(prog) \in Nat /\ i \in 1 .. Len(prog) + 1
  <2>1. Len(prog) \in Nat
    BY LenProperties DEF Compiled, PatchInv, CompilerType
  <2> QED  BY <2>1
<1>4. labs \in Seq(Labels) /\ Tidy(labs, f[i].height) /\ f[i].height \in Nat /\ family \in Families
  BY <1>3, PointIs
<1>5. CASE ~LoopAt(prog, a)
  <2>1. r.pc = closes[a].end + 1 /\ r.labels = left
    BY <1>2, <1>5 DEF EndOf
  <2>2. y.ip = st[closes[a].end + 1]
    BY <1>5 DEF Aim
  <2>3. Takes(prog, family, a) = prog[a].n
    BY <1>5 DEF Takes, Leaves, LoopAt
  <2>4. Stands(f, st, r, y)
    <3>1. r.pc \in 1 .. Len(prog) /\ y.ip = st[r.pc] /\ f[r.pc].live /\ r.labels = f[r.pc].labels
      BY <1>1, <2>1, <2>2 DEF Leads
    <3>2. Len(r.vals) = f[r.pc].height
      BY <1>1, <2>1, <2>3 DEF Leads
    <3>3. Match(r.labels, r.vals, y)
      BY <2>1
    <3> QED  BY <3>1, <3>2, <3>3 DEF Stands
  <2> QED  BY <2>4, StandsArrives
<1>6. CASE LoopAt(prog, a)
  <2> DEFINE p == st[a]
  <2>1. r.pc = a + 1 /\ r.labels = Upto(labs, Len(labs) - d)
    BY <1>2, <1>6
  <2>2. y.ip = p + 1
    BY <1>6 DEF Aim
  <2>3. Takes(prog, family, a) = 0 /\ Len(w) = l.height
    <3>1. Takes(prog, family, a) = 0
      BY <1>6 DEF Takes, LoopAt
    <3>2. l.height \in Nat
      BY <1>1 DEF Inside, Labels
    <3> QED  BY <3>1, <3>2
  <2>4. p \in Nat /\ Has(code, p, EnterBlock) /\ st[a + 1] = p + 3 /\ a \in Nat
    <3>1. a \in 1 .. Len(prog) + 1 /\ a <= Len(prog) /\ a \in Nat
      BY <1>1, <1>3 DEF Inside
    <3>2. Shape(prog, closes, <<>>, code, st, phase, f[a].labels, a, Templates[a]) /\ p \in Nat
      BY <3>1, PointIs
    <3>3. prog[a].op = "loop"
      BY <1>6 DEF LoopAt
    <3>4. Fix(<<>>, code, p, EnterBlock) /\ st[a + 1] = p + 3
      BY <3>2, <3>3 DEF Shape
    <3> QED  BY <3>1, <3>2, <3>4, FixHas
  <2>5. left \in Seq(Labels) /\ Append(left, l) = Upto(labs, Len(labs) - d)
    <3>1. d \in Nat /\ Len(labs) - d \in 1 .. Len(labs)
      BY <1>1 DEF Inside
    <3> QED  BY <1>4, <3>1, AppendLeft
  <2>6. Tidy(left, Len(w))
    <3>1. \A n \in Nat : n <= f[i].height /\ n >= Nth(labs, d).height => Tidy(Left(labs, d), n)
      BY <1>4, LeftFacts
    <3>2. l.height \in Nat
      BY <1>1 DEF Inside, Labels
    <3>3. l.height <= f[i].height /\ l.height >= Nth(labs, d).height
      BY <2>3, <3>2
    <3> QED  BY <2>3, <3>1, <3>2, <3>3
  <2> HIDE DEF labs, left, p, a
  <2>7. PICK z : /\ Runs(family, code, y, z) /\ z.ip = p + 3 /\ z.lmem = y.lmem
                 /\ Match(Append(left, Label(a, Len(w))), w, z)
    <3>1. Match(left, w, y)
      BY DEF left, labs
    <3> QED  BY ONLY <1>4, <2>2, <2>4, <2>5, <2>6, <3>1, EnterMatch, w \in Seq(Nat)
  <2>8. Label(a, Len(w)) = l
    BY <1>1, <2>3 DEF Inside, a
  <2>9. Stands(f, st, r, z)
    <3>1. r.pc \in 1 .. Len(prog) /\ f[r.pc].live /\ r.labels = f[r.pc].labels /\ Len(r.vals) = f[r.pc].height
      BY <1>1, <2>1, <2>3 DEF Inside, a, labs
    <3>2. z.ip = st[r.pc]
      BY <2>1, <2>4, <2>7
    <3>3. Match(r.labels, r.vals, z)
      BY <2>1, <2>5, <2>7, <2>8
    <3> QED  BY <3>1, <3>2, <3>3 DEF Stands
  <2>10. Knows(family, z, r)
    BY <2>7 DEF Knows
  <2> QED  BY <2>7, <2>9, <2>10, StandsArrives, ArrivesOn
<1> QED  BY <1>5, <1>6

-----------------------------------------------------------------------------
(* Taking a branch.                                                        *)

\* w is the first h values of vs, and the last t of them on top.
Carries(vs, h, t, w) ==
    /\ w \in Seq(Nat) /\ Len(w) = h + t /\ Starts(w, vs, h)
    /\ t = 1 => Last(w) = Last(vs)

LEMMA CarriesIs ==
  ASSUME NEW vs \in Seq(Nat), NEW h \in Nat, NEW t \in {0, 1}, h + t <= Len(vs)
  PROVE  /\ Carries(vs, h, t, Upto(vs, h) \o LastN(vs, t))
         /\ t = 0 => Carries(vs, h, t, Upto(vs, h))
PROOF
  <1> DEFINE q == LastN(vs, t)
             w == Upto(vs, h) \o q
  <1>1. Len(vs) \in Nat /\ h \in 0 .. Len(vs) /\ t \in 0 .. Len(vs) /\ t \in Nat
    OBVIOUS
  <1>2. q \in Seq(Nat) /\ Len(q) = t /\ \A j \in 1 .. t : q[j] = vs[Len(vs) - t + j]
    BY <1>1, LastNFacts
  <1>3. /\ w \in Seq(Nat) /\ Len(w) = h + Len(q)
        /\ \A k \in 1 .. h : w[k] = vs[k]
        /\ \A k \in 1 .. Len(q) : w[h + k] = q[k]
    BY <1>1, <1>2, OnTop
  <1> HIDE DEF q, w
  <1>4. t = 1 => w[h + 1] = vs[Len(vs)]
    BY <1>1, <1>2, <1>3
  <1>5. t = 1 => Last(w) = Last(vs)
    BY <1>1, <1>2, <1>3, <1>4 DEF Last
  <1>6. Carries(vs, h, t, w)
    BY <1>1, <1>2, <1>3, <1>5 DEF Carries, Starts
  <1>7. t = 0 => Carries(vs, h, t, Upto(vs, h))
    BY <1>1, UptoFacts DEF Carries, Starts
  <1> QED BY <1>6, <1>7 DEF w, q

LEMMA BranchRecord ==
  ASSUME NEW r \in Readings, NEW a, NEW b, NEW c
  PROVE  [r EXCEPT !.pc = a, !.labels = b, !.vals = c] = [pc |-> a, vals |-> c, labels |-> b, locals |-> r.locals]
PROOF
  <1>1. PICK p, v, lb, lc : r = [pc |-> p, vals |-> v, labels |-> lb, locals |-> lc]
    BY DEF Readings
  <1>2. r.locals = lc
    BY <1>1
  <1>3. PICK r1 : r1 = [r EXCEPT !.pc = a]
    OBVIOUS
  <1>4. PICK r2 : r2 = [r1 EXCEPT !.labels = b]
    OBVIOUS
  <1>5. r1 = [pc |-> a, vals |-> v, labels |-> lb, locals |-> lc]
    BY ONLY <1>1, <1>3
  <1>6. r2 = [pc |-> a, vals |-> v, labels |-> b, locals |-> lc]
    BY ONLY <1>4, <1>5
  <1>7. [r2 EXCEPT !.vals = c] = [pc |-> a, vals |-> c, labels |-> b, locals |-> lc]
    BY ONLY <1>6
  <1>8. [r EXCEPT !.pc = a, !.labels = b, !.vals = c] = [r2 EXCEPT !.vals = c]
    BY <1>3, <1>4, Zenon
  <1> QED BY <1>2, <1>7, <1>8, Zenon

\* The reading s after a branch from r to the label l at depth d with the operands vs.
Branched(r, d, l, vs, s) ==
    /\ s \in Readings /\ s.locals = r.locals
    /\ Carries(vs, l.height, Takes(prog, family, l.at), s.vals)
    /\ s.pc = IF IsLoop(l) THEN l.at + 1 ELSE EndOf(l) + 1
    /\ s.labels = IF IsLoop(l) THEN Upto(r.labels, Len(r.labels) - d) ELSE Left(r.labels, d)

LEMMA BranchReads ==
  ASSUME NEW f, NEW st, Compiled(f, st), NEW i \in 1 .. Len(prog), NEW r \in Readings, r.labels = f[i].labels,
         NEW d \in 0 .. Len(f[i].labels) - 1, NEW l, l = Nth(f[i].labels, d),
         NEW vs \in Seq(Nat), l.height + Takes(prog, family, l.at) <= Len(vs)
  PROVE  Branched(r, d, l, vs, BranchTo(r, d, vs)) /\ Takes(prog, family, l.at) \in {0, 1}
PROOF
  <1> DEFINE L == Len(r.labels)
             t == Takes(prog, family, l.at)
  <1>1. Inside(f, i, d, l) /\ (l.at # 0 => Leads(f, i, d, l)) /\ Len(prog) \in Nat /\ family \in Families
    BY LabelIs, PointIs
  <1>2. /\ l.at \in Nat /\ l.height \in Nat /\ L \in Nat /\ d \in Nat /\ L - d \in 1 .. L /\ r.labels \in Seq(Labels)
        /\ l.at # 0 => prog[l.at].n \in {0, 1}
    BY <1>1 DEF Inside, Labels, Readings
  <1>3. family.arity \in {0, 1}
    BY <1>1, FamilyFacts DEF FnArity
  <1>4. t \in {0, 1} /\ (IsLoop(l) => t = 0) /\ (~IsLoop(l) => Results(l) = t)
    BY <1>2, <1>3 DEF Takes, Leaves, IsLoop, Results, FnArity
  <1>5. EndOf(l) \in Nat
    BY <1>1, <1>2 DEF EndOf, Leads
  <1>6. l = r.labels[Len(r.labels) - d]
    BY DEF Nth
  <1>7. Upto(r.labels, L - d) \in Seq(Labels) /\ Upto(r.labels, L - d - 1) \in Seq(Labels)
    <2>1. L - d \in 0 .. Len(r.labels) /\ L - d - 1 \in 0 .. Len(r.labels)
      BY <1>2
    <2> HIDE DEF L
    <2> QED BY <1>2, <2>1, UptoFacts
  <1>8. Carries(vs, l.height, t, Upto(vs, l.height) \o LastN(vs, t)) /\ (t = 0 => Carries(vs, l.height, t, Upto(vs, l.height)))
    BY <1>2, <1>4, CarriesIs
  <1>9. CASE IsLoop(l)
    <2>1. BranchTo(r, d, vs) = [r EXCEPT !.pc = l.at + 1, !.labels = Upto(r.labels, L - d), !.vals = Upto(vs, l.height)]
      BY <1>6, <1>9 DEF BranchTo
    <2>2. BranchTo(r, d, vs) = [pc |-> l.at + 1, vals |-> Upto(vs, l.height), labels |-> Upto(r.labels, L - d), locals |-> r.locals]
      BY ONLY <2>1, BranchRecord, r \in Readings
    <2>3. Upto(vs, l.height) \in Seq(Nat) /\ Carries(vs, l.height, t, Upto(vs, l.height))
      BY <1>8, <1>4, <1>9 DEF Carries
    <2>4. l.at + 1 \in Nat
      BY <1>2
    <2> HIDE DEF t, L
    <2>5. BranchTo(r, d, vs) \in Readings
      BY <2>2, <2>3, <2>4, <1>7 DEF Readings
    <2>6. Branched(r, d, l, vs, BranchTo(r, d, vs))
      BY <2>2, <2>3, <2>5, <1>9 DEF Branched, t, L
    <2> QED BY <2>6, <1>4 DEF t
  <1>10. CASE ~IsLoop(l)
    <2> DEFINE w == Upto(vs, l.height) \o LastN(vs, t)
    <2>1. BranchTo(r, d, vs) = [r EXCEPT !.pc = EndOf(l) + 1, !.labels = Upto(r.labels, L - d - 1), !.vals = w]
      BY <1>6, <1>10, <1>4 DEF BranchTo
    <2>2. BranchTo(r, d, vs) = [pc |-> EndOf(l) + 1, vals |-> w, labels |-> Upto(r.labels, L - d - 1), locals |-> r.locals]
      BY ONLY <2>1, BranchRecord, r \in Readings
    <2>3. w \in Seq(Nat) /\ Carries(vs, l.height, t, w)
      BY <1>8 DEF Carries
    <2>4. EndOf(l) + 1 \in Nat
      BY <1>5
    <2> HIDE DEF t, L, w
    <2>5. BranchTo(r, d, vs) \in Readings
      BY <2>2, <2>3, <2>4, <1>7 DEF Readings
    <2>6. Branched(r, d, l, vs, BranchTo(r, d, vs))
      BY <2>2, <2>3, <2>5, <1>10 DEF Branched, t, L, Left
    <2> QED BY <2>6, <1>4 DEF t
  <1> QED BY <1>9, <1>10

\* Match does not depend on where the machine is.
At2(p, x) == Core(p, x.rax, x.rcx, x.rdi, x.rbx, x.mem, x.lmem, x.native)

LEMMA MatchIp ==
  ASSUME NEW labs, NEW vals, NEW x, Match(labs, vals, x), NEW p \in Nat
  PROVE  Match(labs, vals, At2(p, x)) /\ At2(p, x).ip = p /\ At2(p, x).lmem = x.lmem
PROOF
  <1> DEFINE y == At2(p, x)
  <1>1. /\ y.ip = p /\ y.rax = x.rax /\ y.rcx = x.rcx /\ y.rdi = x.rdi /\ y.rbx = x.rbx /\ y.mem = x.mem
        /\ y.lmem = x.lmem /\ y.native = x.native
        /\ y = Core(y.ip, y.rax, y.rcx, y.rdi, y.rbx, y.mem, y.lmem, y.native)
    BY DEF At2, Core
  <1> HIDE DEF y
  <1>2. Typed(family, y)
    BY <1>1 DEF Match, Typed
  <1>3. \A q : View(y, q) = View(x, q)
    BY <1>1 DEF View
  <1>4. Shows(y, labs, vals)
    BY <1>3 DEF Match, Shows
  <1>5. Match(labs, vals, y)
    BY <1>1, <1>2, <1>4 DEF Match
  <1> QED BY <1>1, <1>5 DEF y

\* What a branch from instruction i finds: the operands vs are on the stack of x, above those of the
\* innermost block, and the code leaves d blocks and the label l after p, then jumps.
MayBranch(f, i, r, d, l, vs, x) ==
    /\ r \in Readings /\ r.labels = f[i].labels /\ l = Nth(f[i].labels, d) /\ d \in 0 .. Len(f[i].labels) - 1
    /\ vs \in Seq(Nat) /\ Len(vs) <= f[i].height /\ Tidy(r.labels, Len(vs))
    /\ Last(r.labels).height + Takes(prog, family, l.at) <= Len(vs)
    /\ Match(r.labels, vs, x) /\ Knows(family, x, r)

LEMMA BranchFacts ==
  ASSUME NEW f, NEW st, Compiled(f, st), NEW i \in 1 .. Len(prog), NEW r, NEW d, NEW l, NEW vs, NEW x,
         MayBranch(f, i, r, d, l, vs, x)
  PROVE  /\ Len(r.labels) \in Nat /\ Len(r.labels) >= 1 /\ d \in Nat /\ Len(vs) \in Nat /\ r.labels \in Seq(Labels)
         /\ Inside(f, i, d, l) /\ (l.at # 0 => Leads(f, i, d, l))
         /\ l.at \in Nat /\ l.height \in Nat /\ l.height <= Last(r.labels).height /\ Last(r.labels).height \in Nat
         /\ Takes(prog, family, l.at) \in {0, 1}
         /\ Branched(r, d, l, vs, BranchTo(r, d, vs))
         /\ family \in Families /\ Len(prog) \in Nat
PROOF
  <1>1. r \in Readings /\ r.labels = f[i].labels /\ l = Nth(f[i].labels, d) /\ d \in 0 .. Len(f[i].labels) - 1 /\ vs \in Seq(Nat)
    BY DEF MayBranch
  <1>2. Inside(f, i, d, l) /\ (l.at # 0 => Leads(f, i, d, l)) /\ Len(prog) \in Nat /\ family \in Families
    BY <1>1, LabelIs, PointIs
  <1>3. Len(r.labels) \in Nat /\ d \in Nat /\ Len(r.labels) - d \in 1 .. Len(r.labels) /\ l.at \in Nat /\ l.height \in Nat
    BY <1>1, <1>2 DEF Inside, Labels
  <1>4. r.labels \in Seq(Labels) /\ Len(r.labels) >= 1 /\ Len(vs) \in Nat
    BY <1>1, <1>3 DEF Readings
  <1>5. Last(r.labels) = r.labels[Len(r.labels)] /\ l = r.labels[Len(r.labels) - d]
    BY <1>1 DEF Last, Nth
  <1>6. Len(r.labels) \in 1 .. Len(r.labels)
    BY <1>3, <1>4
  <1>7. r.labels[Len(r.labels)] \in Labels
    BY <1>4, <1>6, ElementOfSeq
  <1>8. Last(r.labels).height \in Nat
    BY <1>5, <1>7 DEF Labels
  <1>9. \A k \in 1 .. Len(r.labels) - 1 : r.labels[k].height <= r.labels[Len(r.labels)].height
    BY <1>6 DEF MayBranch, Tidy
  <1>10. l.height <= Last(r.labels).height
    <2>1. CASE d = 0
      BY <2>1, <1>3, <1>5, <1>8
    <2>2. CASE d # 0
      <3>1. Len(r.labels) - d \in 1 .. Len(r.labels) - 1
        BY <2>2, <1>3
      <3> QED BY <3>1, <1>5, <1>9
    <2> QED BY <2>1, <2>2
  <1>11. Last(r.labels).height + Takes(prog, family, l.at) <= Len(vs)
    BY DEF MayBranch
  <1>12. Takes(prog, family, l.at) \in {0, 1}
    <2>1. family.arity \in {0, 1}
      BY <1>2, FamilyFacts DEF FnArity
    <2> QED BY <2>1, <1>2 DEF Takes, Leaves, Inside
  <1>13. l.height + Takes(prog, family, l.at) <= Len(vs)
    BY <1>3, <1>4, <1>8, <1>10, <1>11, <1>12
  <1>14. Branched(r, d, l, vs, BranchTo(r, d, vs))
    BY <1>1, <1>13, BranchReads
  <1> QED BY <1>1, <1>2, <1>3, <1>4, <1>8, <1>10, <1>12, <1>14

\* Once the blocks are left and the machine is at the branch's destination.
LEMMA BranchLands ==
  ASSUME NEW f, NEW st, Compiled(f, st), NEW i \in 1 .. Len(prog), NEW r, NEW d, NEW l, NEW vs, NEW x,
         MayBranch(f, i, r, d, l, vs, x), l.at # 0,
         NEW y, Match(Left(r.labels, d), BranchTo(r, d, vs).vals, y), y.ip = Aim(st, l.at), y.lmem = x.lmem
  PROVE  Arrives(f, st, y, BranchTo(r, d, vs))
PROOF
  <1> DEFINE s == BranchTo(r, d, vs)
             w == s.vals
             t == Takes(prog, family, l.at)
  <1>1. /\ Branched(r, d, l, vs, s) /\ t \in {0, 1} /\ l.height \in Nat /\ Len(vs) \in Nat
        /\ l.height <= Last(r.labels).height /\ Last(r.labels).height \in Nat
    BY BranchFacts
  <1>2. /\ r.labels = f[i].labels /\ l = Nth(f[i].labels, d) /\ d \in 0 .. Len(f[i].labels) - 1
        /\ Len(vs) <= f[i].height /\ Last(r.labels).height + t <= Len(vs) /\ Knows(family, x, r)
    BY DEF MayBranch
  <1>3. f[i].height \in Nat
    <2>1. i \in 1 .. Len(prog) + 1
      BY PointIs
    <2> QED BY <2>1, PointIs
  <1> HIDE DEF s
  <1>4. /\ s \in Readings /\ s.locals = r.locals /\ w \in Seq(Nat) /\ Len(w) = l.height + t
        /\ s.pc = IF IsLoop(l) THEN l.at + 1 ELSE EndOf(l) + 1
        /\ s.labels = IF IsLoop(l) THEN Upto(f[i].labels, Len(f[i].labels) - d) ELSE Left(f[i].labels, d)
    BY <1>1, <1>2 DEF Branched, Carries
  <1>5. Len(w) <= f[i].height
    BY <1>1, <1>2, <1>3, <1>4
  <1>6. Knows(family, y, s)
    BY <1>2, <1>4 DEF Knows
  <1>7. Match(Left(f[i].labels, d), w, y)
    BY <1>2 DEF s
  <1> HIDE DEF w, t
  <1>8. Len(w) = l.height + Takes(prog, family, l.at) /\ w \in Seq(Nat) /\ s.vals = w
    BY <1>4 DEF t, w
  <1> QED BY <1>2, <1>4, <1>5, <1>6, <1>7, <1>8, Lands DEF s

LEMMA BranchRuns ==
  ASSUME NEW f, NEW st, Compiled(f, st), CleanFamily(family), NEW i \in 1 .. Len(prog), NEW r, NEW d, NEW l, NEW vs, NEW x,
         MayBranch(f, i, r, d, l, vs, x),
         NEW p \in Nat, x.ip = p + 1, NEW keep \in BOOLEAN, keep <=> Valued(prog, l.at), Has(code, p, Leaving(d, keep)),
         NEW q, q = p + 1 + Len(Leaving(d, keep)), Jump(prog, closes, <<>>, code, st, phase, q, "jmp", l.at)
  PROVE  Arrives(f, st, x, BranchTo(r, d, vs))
PROOF
  <1> DEFINE s == BranchTo(r, d, vs)
             w == s.vals
             t == Takes(prog, family, l.at)
             h == Last(r.labels).height
             g == Aim(st, l.at)
  <1>1. /\ Branched(r, d, l, vs, s) /\ t \in {0, 1} /\ l.height \in Nat /\ Len(vs) \in Nat /\ l.at \in Nat
        /\ l.height <= h /\ h \in Nat /\ family \in Families /\ Inside(f, i, d, l) /\ Len(r.labels) >= 1 /\ d \in Nat
        /\ r.labels \in Seq(Labels) /\ Len(r.labels) \in Nat
    BY BranchFacts
  <1>2. /\ r.labels = f[i].labels /\ l = Nth(r.labels, d) /\ d \in 0 .. Len(r.labels) - 1 /\ r \in Readings
        /\ Len(vs) <= f[i].height /\ h + t <= Len(vs) /\ Knows(family, x, r) /\ vs \in Seq(Nat)
        /\ Match(r.labels, vs, x) /\ Tidy(r.labels, Len(vs))
    BY DEF MayBranch
  <1> HIDE DEF s
  <1>3. g \in Nat /\ g # 0 /\ Goal(prog, closes, st, phase, "jmp", l.at) = g
    BY <1>2, AimIs
  <1>4. code[q].op = "jmp" /\ code[q].n = g
    BY <1>3, JumpsTo
  <1>5. Carries(vs, l.height, t, w) /\ s \in Readings /\ s.locals = r.locals
    BY <1>1 DEF Branched
  <1>6. CASE l.at # 0
    <2>1. keep <=> t = 1
      <3>1. prog[l.at].n \in {0, 1} /\ <<prog[l.at].op, prog[l.at].n>> \in family.openers
        BY <1>1, <1>6 DEF Inside
      <3>2. prog[l.at].op = "loop" => prog[l.at].n = 0
        BY <3>1 DEF CleanFamily
      <3> QED BY <3>1, <3>2, <1>6 DEF Valued, Takes, Leaves
    <2>2. /\ w \in Seq(Nat) /\ Len(w) = Nth(r.labels, d).height + (IF keep THEN 1 ELSE 0) /\ Starts(w, vs, Nth(r.labels, d).height)
          /\ keep => Last(w) = Last(vs) /\ Last(r.labels).height < Len(vs)
      BY <2>1, <1>1, <1>2, <1>5 DEF Carries
    <2> HIDE DEF w, t, h, g
    <2>3. PICK y : /\ Runs(family, code, x, y) /\ y.ip = p + 1 + Len(Leaving(d, keep)) /\ y.lmem = x.lmem
                   /\ Match(Left(r.labels, d), w, y)
      <3>1. /\ family \in Families /\ r.labels \in Seq(Labels) /\ vs \in Seq(Nat) /\ Match(r.labels, vs, x)
            /\ Tidy(r.labels, Len(vs)) /\ d \in 0 .. Len(r.labels) - 1 /\ keep \in BOOLEAN /\ p \in Nat /\ x.ip = p + 1
            /\ Has(code, p, Leaving(d, keep)) /\ w \in Seq(Nat)
            /\ Len(w) = Nth(r.labels, d).height + (IF keep THEN 1 ELSE 0) /\ Starts(w, vs, Nth(r.labels, d).height)
            /\ keep => Last(w) = Last(vs) /\ Last(r.labels).height < Len(vs)
        BY <1>1, <1>2, <2>2
      <3> QED BY ONLY <3>1, Leaves1
    <2>4. y.ip = q /\ y = Core(y.ip, y.rax, y.rcx, y.rdi, y.rbx, y.mem, y.lmem, y.native)
      BY <2>3 DEF Match, Typed
    <2>5. y = At2(q, y)
      BY <2>4 DEF At2
    <2>6. Runs(family, code, At2(q, y), At2(g, y))
      BY <1>4, GoJmp DEF At2
    <2>7. Match(Left(r.labels, d), w, At2(g, y)) /\ At2(g, y).ip = g /\ At2(g, y).lmem = y.lmem
      BY <1>3, <2>3, MatchIp
    <2>8. At2(g, y).lmem = x.lmem
      BY <2>3, <2>7
    <2>9. Arrives(f, st, At2(g, y), s)
      BY <2>7, <2>8, <1>6, BranchLands DEF w, s, g
    <2>10. Runs(family, code, x, At2(g, y))
      BY <2>3, <2>5, <2>6, RunsOn
    <2> QED BY <2>9, <2>10, ArrivesOn DEF s
  <1>7. CASE l.at = 0
    <2> DEFINE e == Left(r.labels, d)
               z == Core(g, x.rax, x.rcx, Base + (Nth(r.labels, d).height + (Len(r.labels) - d)), 0, x.mem, x.lmem, Saved(e))
    <2>1. keep /\ t = family.arity /\ g = st[Len(prog) + 1] /\ ~IsLoop(l) /\ EndOf(l) = Len(prog)
      BY <1>7 DEF Valued, Takes, Leaves, Aim, LoopAt, IsLoop, EndOf
    <2>2. Len(Leaving(d, keep)) = d + 1 /\ \A k \in 1 .. d + 1 : Leaving(d, keep)[k] = PopRdi
      BY <1>1, <2>1, LeavingFacts
    <2>3. Popping(code, p, d + 1)
      <3>1. \A k \in 1 .. d + 1 : code[p + k] = PopRdi
        BY <2>2 DEF Has
      <3>2. PopRdi.op = "pop rdi"
        BY InsFields DEF PopRdi
      <3> QED BY <3>1, <3>2 DEF Popping
    <2>4. d = Len(r.labels) - 1
      BY <1>1, <1>2, <1>7 DEF Inside
    <2>5. e = <<>> /\ Saved(e) = <<RetAddr>>
      <3>1. Left(r.labels, d) \in Seq(Labels) /\ Len(Left(r.labels, d)) = Len(r.labels) - d - 1
        BY <1>1, <1>2, LeftFacts
      <3>2. e \in Seq(Labels) /\ Len(e) = 0
        BY <3>1, <2>4, <1>1
      <3>3. e = <<>>
        BY <3>2, EmptySeq
      <3>4. Saved(e) \in Seq(Nat) /\ Len(Saved(e)) = Len(e) + 1 /\ Saved(e)[1] = RetAddr
        BY <3>2, SavedFacts
      <3>5. Saved(e) = <<RetAddr>>
        BY <3>2, <3>4, OneTuple
      <3> QED BY <3>3, <3>5
    <2>6. Runs(family, code, x, Core(q, x.rax, x.rcx, Base + (Nth(r.labels, d).height + (Len(r.labels) - d)), 0, x.mem, x.lmem, Saved(e)))
      <3>1. p + 1 + (d + 1) = q
        BY <2>2, <1>1
      <3>2. Runs(family, code, x, Core(p + 1 + (d + 1), x.rax, x.rcx, Base + (Nth(r.labels, d).height + (Len(r.labels) - d)), 0,
                                 x.mem, x.lmem, Saved(Left(r.labels, d))))
        BY <1>1, <1>2, <2>3, LeavePops
      <3> QED BY <3>1, <3>2
    <2>7. Runs(family, code, x, z)
      <3>1. Runs(family, code, Core(q, x.rax, x.rcx, Base + (Nth(r.labels, d).height + (Len(r.labels) - d)), 0, x.mem, x.lmem, Saved(e)),
                  z)
        BY <1>4, GoJmp
      <3> HIDE DEF z
      <3> QED BY <2>6, <3>1, RunsOn
    <2>8. z.ip = g /\ z.rax = x.rax /\ z.lmem = x.lmem /\ z.native = Saved(e)
          /\ z = Core(z.ip, z.rax, z.rcx, z.rdi, z.rbx, z.mem, z.lmem, z.native)
      BY DEF Core
    <2> HIDE DEF z, e
    <2>9. FnArity = 1 => z.rax = Last(w)
      <3> SUFFICES ASSUME FnArity = 1 PROVE z.rax = Last(w)
        OBVIOUS
      <3>1. t = 1
        BY <2>1 DEF FnArity
      <3>2. h < Len(vs)
        BY <3>1, <1>1, <1>2
      <3>3. x.rax = Last(vs)
        <4> DEFINE zero == 0
        <4>1. zero \in Nat
          OBVIOUS
        <4> HIDE DEF zero
        <4> QED BY <4>1, <3>2, <1>1, <1>2, Dropped
      <3>4. Last(w) = Last(vs)
        BY <3>1, <1>5 DEF Carries
      <3> QED BY <2>8, <3>3, <3>4
    <2>10. code[z.ip].op = "ret"
      BY <2>1, <2>8, LastPoint
    <2>11. s.pc = Len(prog) + 1
      BY <1>1, <2>1 DEF Branched
    <2>12. Returns(s, z)
      BY <2>5, <2>8, <2>9, <2>10, <2>11 DEF Returns
    <2>13. Knows(family, z, s)
      BY <1>2, <1>5, <2>8 DEF Knows
    <2>14. Arrived(f, st, s, z)
      BY <1>5, <2>8, <2>12, <2>13 DEF Arrived
    <2> QED BY <2>7, <2>14 DEF Arrives, s
  <1> QED BY <1>6, <1>7

-----------------------------------------------------------------------------
(* The steps of the direct reading, one opcode at a time.                  *)

With(r, a, b, c) == [pc |-> a, vals |-> c, labels |-> b, locals |-> r.locals]

LEMMA WithFacts ==
  ASSUME NEW r, NEW a, NEW b, NEW c
  PROVE  /\ With(r, a, b, c).pc = a /\ With(r, a, b, c).labels = b /\ With(r, a, b, c).vals = c
         /\ With(r, a, b, c).locals = r.locals
         /\ r \in Readings /\ a \in Nat /\ b \in Seq(Labels) /\ c \in Seq(Nat) => With(r, a, b, c) \in Readings
  BY DEF With, Readings

LEMMA WithPc ==
  ASSUME NEW r \in Readings, NEW a
  PROVE  [r EXCEPT !.pc = a] = With(r, a, r.labels, r.vals)
PROOF
  <1>1. PICK p, v, lb, lc : r = [pc |-> p, vals |-> v, labels |-> lb, locals |-> lc]
    BY DEF Readings
  <1>2. r.pc = p /\ r.vals = v /\ r.labels = lb /\ r.locals = lc
    BY <1>1
  <1>3. [r EXCEPT !.pc = a] = [pc |-> a, vals |-> v, labels |-> lb, locals |-> lc]
    BY ONLY <1>1
  <1> QED BY <1>2, <1>3, Zenon DEF With

LEMMA WithPcVals ==
  ASSUME NEW r \in Readings, NEW a, NEW c
  PROVE  [r EXCEPT !.pc = a, !.vals = c] = With(r, a, r.labels, c)
PROOF
  <1>1. PICK n : n = [r EXCEPT !.pc = a]
    OBVIOUS
  <1>2. n = With(r, a, r.labels, r.vals)
    BY <1>1, WithPc
  <1>3. [n EXCEPT !.vals = c] = With(r, a, r.labels, c)
    BY ONLY <1>2 DEF With
  <1> QED BY <1>1, <1>3, Zenon

LEMMA WithPcLabels ==
  ASSUME NEW r \in Readings, NEW a, NEW b
  PROVE  [r EXCEPT !.pc = a, !.labels = b] = With(r, a, b, r.vals)
PROOF
  <1>1. PICK n : n = [r EXCEPT !.pc = a]
    OBVIOUS
  <1>2. n = With(r, a, r.labels, r.vals)
    BY <1>1, WithPc
  <1>3. [n EXCEPT !.labels = b] = With(r, a, b, r.vals)
    BY ONLY <1>2 DEF With
  <1> QED BY <1>1, <1>3, Zenon

Control == {"block", "loop", "if", "else", "br", "br_if", "br_table", "return", "end"}

LEMMA ReadStepIs ==
  ASSUME NEW r \in Readings, NEW ins, ins = prog[r.pc], NEW l, l = Label(r.pc, Len(Front(r.vals)))
  PROVE  /\ ins.op \in {"block", "loop"} =>
               ReadStep(r) = With(r, r.pc + 1, Append(r.labels, Label(r.pc, Len(r.vals))), r.vals)
         /\ ins.op = "if" /\ Last(r.vals) # 0 => ReadStep(r) = With(r, r.pc + 1, Append(r.labels, l), Front(r.vals))
         /\ ins.op = "if" /\ Last(r.vals) = 0 /\ closes[r.pc].els # 0 =>
               ReadStep(r) = With(r, closes[r.pc].els + 1, Append(r.labels, l), Front(r.vals))
         /\ ins.op = "if" /\ Last(r.vals) = 0 /\ closes[r.pc].els = 0 =>
               ReadStep(r) = With(r, EndOf(l) + 1, r.labels, Front(r.vals))
         /\ ins.op \in {"else", "br"} => ReadStep(r) = BranchTo(r, ins.n, r.vals)
         /\ ins.op = "br_if" =>
               ReadStep(r) = IF Last(r.vals) # 0 THEN BranchTo(r, ins.n, Front(r.vals))
                             ELSE With(r, r.pc + 1, r.labels, Front(r.vals))
         /\ ins.op = "br_table" =>
               ReadStep(r) = BranchTo(r, IF Last(r.vals) < Len(ins.ts) THEN ins.ts[Last(r.vals) + 1] ELSE ins.n, Front(r.vals))
         /\ ins.op = "return" => ReadStep(r) = BranchTo(r, Len(r.labels) - 1, r.vals)
         /\ ins.op = "end" => ReadStep(r) = With(r, r.pc + 1, Front(r.labels), r.vals)
         /\ ins.op \in PlainOps => ReadStep(r) = ReadPlain(r, ins)
PROOF
  <1> DEFINE n == [r EXCEPT !.pc = @ + 1]
             a == r.pc + 1
             fr == Front(r.vals)
             lb == Append(r.labels, Label(r.pc, Len(r.vals)))
             ll == Append(r.labels, l)
             fl == Front(r.labels)
             m == [n EXCEPT !.labels = Append(@, l), !.vals = Front(r.vals)]
             en == closes[r.pc].els + 1
             eo == EndOf(l) + 1
  <1>1. n = With(r, r.pc + 1, r.labels, r.vals)
    BY WithPc
  <1>2. n.labels = r.labels /\ n.vals = r.vals
    BY <1>1, WithFacts
  <1>a. ins.op \in {"block", "loop"} => ReadStep(r) = [r EXCEPT !.pc = a, !.labels = lb]
    <2>1. ins.op \in {"block", "loop"} => ReadStep(r) = [n EXCEPT !.labels = Append(n.labels, Label(r.pc, Len(r.vals)))]
      BY DEF ReadStep
    <2> QED BY <2>1, <1>2, Zenon
  <1>b. ins.op = "end" => ReadStep(r) = [r EXCEPT !.pc = a, !.labels = fl]
    <2>1. ins.op = "end" => ReadStep(r) = [n EXCEPT !.labels = Front(n.labels)]
      BY DEF ReadStep
    <2> QED BY <2>1, <1>2, Zenon
  <1>c. ins.op = "br_if" => ReadStep(r) = IF Last(r.vals) # 0 THEN BranchTo(r, ins.n, Front(r.vals)) ELSE [r EXCEPT !.pc = a, !.vals = fr]
    BY DEF ReadStep
  <1>d. m = [r EXCEPT !.pc = a, !.labels = ll, !.vals = fr]
    BY <1>2, Zenon
  <1>e. ins.op = "if" /\ Last(r.vals) # 0 => ReadStep(r) = m
    BY DEF ReadStep
  <1>f. ins.op = "if" /\ Last(r.vals) = 0 /\ closes[r.pc].els # 0 => ReadStep(r) = [m EXCEPT !.pc = en]
    BY DEF ReadStep
  <1>g. ins.op = "if" /\ Last(r.vals) = 0 /\ closes[r.pc].els = 0 => ReadStep(r) = [r EXCEPT !.pc = eo, !.vals = fr]
    BY DEF ReadStep
  <1> HIDE DEF n, a, fr, lb, ll, fl, m, en, eo
  <1>3. m = With(r, a, ll, fr)
    <2>1. [r EXCEPT !.pc = a, !.labels = ll, !.vals = fr] = With(r, a, ll, fr)
      <3>1. PICK k : k = [r EXCEPT !.pc = a, !.labels = ll]
        OBVIOUS
      <3>2. k = With(r, a, ll, r.vals)
        BY <3>1, WithPcLabels
      <3>3. [k EXCEPT !.vals = fr] = With(r, a, ll, fr)
        BY ONLY <3>2 DEF With
      <3> QED BY <3>1, <3>3, Zenon
    <2> QED BY <1>d, <2>1, Zenon
  <1>4. ins.op \in {"block", "loop"} =>
               ReadStep(r) = With(r, r.pc + 1, Append(r.labels, Label(r.pc, Len(r.vals))), r.vals)
    <2>1. [r EXCEPT !.pc = a, !.labels = lb] = With(r, a, lb, r.vals)
      BY WithPcLabels
    <2> QED BY <1>a, <2>1, Zenon DEF a, lb
  <1>5. ins.op = "if" /\ Last(r.vals) # 0 => ReadStep(r) = With(r, r.pc + 1, Append(r.labels, l), Front(r.vals))
    BY <1>e, <1>3, Zenon DEF a, ll, fr
  <1>6. ins.op = "if" /\ Last(r.vals) = 0 /\ closes[r.pc].els # 0 =>
               ReadStep(r) = With(r, closes[r.pc].els + 1, Append(r.labels, l), Front(r.vals))
    <2>1. [m EXCEPT !.pc = en] = With(r, en, ll, fr)
      BY ONLY <1>3 DEF With
    <2> QED BY <1>f, <2>1, Zenon DEF en, ll, fr
  <1>7. ins.op = "if" /\ Last(r.vals) = 0 /\ closes[r.pc].els = 0 =>
               ReadStep(r) = With(r, EndOf(l) + 1, r.labels, Front(r.vals))
    <2>1. [r EXCEPT !.pc = eo, !.vals = fr] = With(r, eo, r.labels, fr)
      BY WithPcVals
    <2> QED BY <1>g, <2>1, Zenon DEF eo, fr
  <1>8. ins.op = "br_if" =>
               ReadStep(r) = IF Last(r.vals) # 0 THEN BranchTo(r, ins.n, Front(r.vals))
                             ELSE With(r, r.pc + 1, r.labels, Front(r.vals))
    <2>1. [r EXCEPT !.pc = a, !.vals = fr] = With(r, a, r.labels, fr)
      BY WithPcVals
    <2> QED BY <1>c, <2>1, Zenon DEF a, fr
  <1>9. ins.op = "end" => ReadStep(r) = With(r, r.pc + 1, Front(r.labels), r.vals)
    <2>1. [r EXCEPT !.pc = a, !.labels = fl] = With(r, a, fl, r.vals)
      BY WithPcLabels
    <2> QED BY <1>b, <2>1, Zenon DEF a, fl
  <1>10. ins.op \in {"else", "br"} => ReadStep(r) = BranchTo(r, ins.n, r.vals)
    BY DEF ReadStep
  <1>11. /\ ins.op = "br_table" =>
               ReadStep(r) = BranchTo(r, IF Last(r.vals) < Len(ins.ts) THEN ins.ts[Last(r.vals) + 1] ELSE ins.n, Front(r.vals))
         /\ ins.op = "return" => ReadStep(r) = BranchTo(r, Len(r.labels) - 1, r.vals)
    BY DEF ReadStep
  <1>12. ins.op \in PlainOps => ReadStep(r) = ReadPlain(r, ins)
    <2>1. ins.op \in PlainOps => ins.op \notin Control
      BY DEF PlainOps, Binary, Unary, Control
    <2> QED BY <2>1 DEF ReadStep, Control
  <1> QED BY <1>4, <1>5, <1>6, <1>7, <1>8, <1>9, <1>10, <1>11, <1>12

-----------------------------------------------------------------------------
(* The instructions, one at a time: from past its `mov r12' the machine    *)
(* arrives where the direct reading's step leads.                          *)

Begins(f, st, r, x) ==
    /\ r \in Readings /\ r.pc \in 1 .. Len(prog) /\ f[r.pc].live
    /\ r.labels = f[r.pc].labels /\ Len(r.vals) = f[r.pc].height
    /\ Match(r.labels, r.vals, x) /\ Knows(family, x, r) /\ x.ip = st[r.pc] + 1

\* The instruction begins at p with the labels and operands of r.
Context(f, st, i, p, ins, r, x) ==
    /\ Len(prog) \in Nat /\ family \in Families /\ i \in 1 .. Len(prog) /\ i \in Nat /\ i + 1 \in 1 .. Len(prog) + 1
    /\ p \in Nat /\ p # 0 /\ p = st[i] /\ ins = prog[i] /\ ins \in Bytecode /\ r.pc = i /\ x.ip = p + 1
    /\ r.vals \in Seq(Nat) /\ Len(r.vals) \in Nat /\ Len(r.vals) = f[i].height /\ r.labels \in Seq(Labels)
    /\ r.labels = f[i].labels /\ Len(r.labels) \in Nat /\ Len(r.labels) >= 1 /\ Tidy(r.labels, Len(r.vals))
    /\ Last(r.labels) = r.labels[Len(r.labels)] /\ Last(r.labels) \in Labels /\ Last(r.labels).height \in Nat
    /\ Last(r.labels).height <= Len(r.vals) /\ Spare(f[i]) = Len(r.vals) - Last(r.labels).height
    /\ f[i].live

LEMMA BeginFacts ==
  ASSUME NEW f, NEW st, Compiled(f, st), NEW r, NEW x, Begins(f, st, r, x), NEW i, i = r.pc
  PROVE  /\ Context(f, st, i, st[i], prog[i], r, x)
         /\ Moves(prog, family, i, f[i], f[i + 1])
         /\ Shape(prog, closes, <<>>, code, st, phase, r.labels, i, Templates[i])
PROOF
  <1>1. /\ r \in Readings /\ i \in 1 .. Len(prog) /\ f[i].live /\ r.labels = f[i].labels /\ Len(r.vals) = f[i].height
        /\ x.ip = st[i] + 1
    BY DEF Begins
  <1>2. Len(prog) \in Nat
    <2> DEFINE n == Len(prog) + 1
    <2>1. i \in 1 .. Len(prog) + 1
      BY <1>1
    <2> QED BY <2>1, PointIs
  <1>3. i \in 1 .. Len(prog) + 1 /\ i <= Len(prog)
    BY <1>1, <1>2
  <1>4. /\ family \in Families /\ i \in Nat /\ f[i].labels \in Seq(Labels) /\ f[i].height \in Nat
        /\ Tidy(f[i].labels, f[i].height) /\ st[i] \in Nat /\ st[i] # 0
        /\ prog[i] \in Bytecode /\ i + 1 \in 1 .. Len(prog) + 1
        /\ Moves(prog, family, i, f[i], f[i + 1])
        /\ Shape(prog, closes, <<>>, code, st, phase, f[i].labels, i, Templates[i])
        /\ Len(f[i].labels) >= 1
    BY <1>3, PointIs
  <1>5. r.vals \in Seq(Nat) /\ Len(r.labels) \in Nat /\ Len(r.labels) >= 1
    BY <1>1, <1>4 DEF Readings
  <1>6. Last(r.labels) = r.labels[Len(r.labels)] /\ Len(r.labels) \in 1 .. Len(r.labels)
    BY <1>5 DEF Last
  <1>7. Last(r.labels) \in Labels
    BY <1>1, <1>4, <1>6, ElementOfSeq
  <1>8. Last(r.labels).height \in Nat
    BY <1>7 DEF Labels
  <1>9. r.labels[Len(r.labels)].height <= f[i].height
    BY <1>1, <1>4, <1>6 DEF Tidy
  <1>10. Spare(f[i]) = Len(r.vals) - Last(r.labels).height /\ Last(r.labels).height <= Len(r.vals)
    BY <1>1, <1>6, <1>9 DEF Spare
  <1>11. Context(f, st, i, st[i], prog[i], r, x)
    BY <1>1, <1>2, <1>4, <1>5, <1>6, <1>7, <1>8, <1>10 DEF Context
  <1> QED BY <1>1, <1>4, <1>11

LEMMA NextArrives ==
  ASSUME NEW f, NEW st, Compiled(f, st), NEW i \in 1 .. Len(prog) + 1, NEW s \in Readings, NEW y,
         s.pc = i, s.labels = f[i].labels, Len(s.labels) >= 1, Len(s.vals) = f[i].height, f[i].live,
         Match(s.labels, s.vals, y), Knows(family, y, s), y.ip = st[i]
  PROVE  Arrives(f, st, y, s)
PROOF
  <1>1. f[Len(prog) + 1].labels = <<>>
    BY LastPoint
  <1>2. i # Len(prog) + 1
    BY <1>1
  <1>3. Len(prog) \in Nat
    BY PointIs
  <1>4. i \in 1 .. Len(prog)
    BY <1>2, <1>3
  <1>5. Stands(f, st, s, y)
    BY <1>4 DEF Stands
  <1> QED BY <1>5, StandsArrives

LEMMA PlainArrives ==
  ASSUME NEW f, NEW st, Compiled(f, st), CleanFamily(family), NEW r, NEW x, Begins(f, st, r, x), prog[r.pc].op \in PlainOps
  PROVE  Arrives(f, st, x, ReadStep(r))
PROOF
  <1> DEFINE i == r.pc
             p == st[i]
             ins == prog[i]
             u == Pops(ins)
             s == ReadPlain(r, ins)
  <1>1. /\ Context(f, st, i, p, ins, r, x) /\ Moves(prog, family, i, f[i], f[i + 1])
        /\ Shape(prog, closes, <<>>, code, st, phase, r.labels, i, Templates[i])
    BY BeginFacts
  <1>2. r \in Readings /\ Match(r.labels, r.vals, x) /\ Knows(family, x, r) /\ ins.op \in PlainOps
    BY DEF Begins
  <1>3. ReadStep(r) = s
    BY <1>2, ReadStepIs
  <1> HIDE DEF i, p, ins, s
  <1>4. /\ PlainOK(family, ins) /\ f[i + 1].live /\ f[i + 1].labels = f[i].labels /\ u <= Spare(f[i])
        /\ f[i + 1].height = f[i].height - u + Pushes(ins)
    BY <1>1, <1>2 DEF Moves, Context
  <1>5. Fix(<<>>, code, p, Templates[i]) /\ st[i + 1] = p + 1 + Len(Templates[i])
    BY <1>1, <1>2 DEF Shape, Context
  <1>6. Templates[i] = Template(ins)
    BY <1>1, <1>2 DEF Templates, Context
  <1>7. Has(code, p, Template(ins))
    BY <1>5, <1>6, FixHas
  <1>8. ins.op \notin {"store", "f64_eq", "f64_lt"}
    BY <1>4 DEF PlainOK, CleanFamily
  <1>9. u \in Nat
    BY DEF Pops, Binary, Unary
  <1>10. /\ family \in Families /\ p \in Nat /\ x.ip = p + 1 /\ Len(r.labels) >= 1 /\ Tidy(r.labels, Len(r.vals))
         /\ Len(r.vals) \in Nat /\ Last(r.labels).height \in Nat /\ i + 1 \in 1 .. Len(prog) + 1 /\ r.pc = i
         /\ Len(r.vals) = f[i].height /\ r.labels = f[i].labels /\ Spare(f[i]) = Len(r.vals) - Last(r.labels).height
    BY <1>1 DEF Context
  <1>11. Last(r.labels).height + u <= Len(r.vals) /\ u \in 0 .. Len(r.vals)
    <2> HIDE DEF u
    <2> QED BY <1>4, <1>9, <1>10
  <1>12. ReadsAs(ins, r, u, LastN(r.vals, u), Len(r.vals) - u, s)
    BY <1>2, <1>4, <1>8, <1>10, <1>11, ReadPlainIs DEF s
  <1>13. PICK y : /\ Runs(family, code, x, y) /\ y.ip = x.ip + Len(Template(ins))
                  /\ Match(s.labels, s.vals, y) /\ Knows(family, y, s)
    <2>1. /\ family \in Families /\ PlainOK(family, ins) /\ ins.op \notin {"store", "f64_eq", "f64_lt"}
          /\ r \in Readings /\ Len(r.labels) >= 1 /\ Tidy(r.labels, Len(r.vals)) /\ Match(r.labels, r.vals, x)
          /\ u \in Nat /\ u = Pops(ins) /\ Last(r.labels).height + u <= Len(r.vals) /\ Knows(family, x, r)
          /\ p \in Nat /\ x.ip = p + 1 /\ Has(code, p, Template(ins))
      BY <1>2, <1>4, <1>7, <1>8, <1>9, <1>10, <1>11
    <2> HIDE DEF u
    <2>2. \E y : /\ Runs(family, code, x, y) /\ y.ip = x.ip + Len(Template(ins))
                 /\ Match(ReadPlain(r, ins).labels, ReadPlain(r, ins).vals, y) /\ Knows(family, y, ReadPlain(r, ins))
      BY ONLY <2>1, PlainMatch
    <2> QED BY <2>2 DEF s
  <1>14. /\ s \in Readings /\ s.pc = r.pc + 1 /\ s.labels = r.labels /\ Len(s.vals) = Len(r.vals) - u + Pushes(ins)
    BY <1>12 DEF ReadsAs
  <1>15. y.ip = st[i + 1]
    <2>1. y.ip = p + 1 + Len(Template(ins)) /\ st[i + 1] = p + 1 + Len(Template(ins))
      BY <1>5, <1>6, <1>10, <1>13
    <2> QED BY <2>1
  <1>16. /\ s.pc = i + 1 /\ s.labels = f[i + 1].labels /\ Len(s.labels) >= 1 /\ Len(s.vals) = f[i + 1].height
    BY <1>4, <1>10, <1>14
  <1>17. Arrives(f, st, y, s)
    BY <1>4, <1>10, <1>13, <1>14, <1>15, <1>16, NextArrives
  <1>18. Arrives(f, st, x, s)
    BY <1>13, <1>17, ArrivesOn
  <1> QED BY <1>3, <1>18

LEMMA BlockArrives ==
  ASSUME NEW f, NEW st, Compiled(f, st), NEW r, NEW x, Begins(f, st, r, x), prog[r.pc].op \in {"block", "loop"}
  PROVE  Arrives(f, st, x, ReadStep(r))
PROOF
  <1> DEFINE i == r.pc
             p == st[i]
             ins == prog[i]
             l == Label(i, Len(r.vals))
             s == With(r, i + 1, Append(r.labels, l), r.vals)
  <1>1. /\ Context(f, st, i, p, ins, r, x) /\ Moves(prog, family, i, f[i], f[i + 1])
        /\ Shape(prog, closes, <<>>, code, st, phase, r.labels, i, Templates[i])
    BY BeginFacts
  <1>2. r \in Readings /\ Match(r.labels, r.vals, x) /\ Knows(family, x, r) /\ ins.op \in {"block", "loop"}
    BY DEF Begins
  <1>3. ReadStep(r) = s
    BY <1>2, ReadStepIs
  <1> HIDE DEF i, p, ins
  <1>4. /\ family \in Families /\ p \in Nat /\ x.ip = p + 1 /\ Len(r.labels) >= 1 /\ Tidy(r.labels, Len(r.vals))
        /\ Len(r.vals) \in Nat /\ i + 1 \in 1 .. Len(prog) + 1 /\ r.pc = i /\ i \in Nat /\ Len(r.labels) \in Nat
        /\ Len(r.vals) = f[i].height /\ r.labels = f[i].labels /\ r.labels \in Seq(Labels) /\ r.vals \in Seq(Nat)
    BY <1>1 DEF Context
  <1>5. f[i + 1].live /\ f[i + 1].labels = Append(f[i].labels, Label(i, f[i].height)) /\ f[i + 1].height = f[i].height
    BY <1>1, <1>2 DEF Moves, Context
  <1>6. Fix(<<>>, code, p, EnterBlock) /\ st[i + 1] = p + 3
    BY <1>1, <1>2 DEF Shape, Context
  <1>7. Has(code, p, EnterBlock)
    BY <1>6, FixHas
  <1>8. PICK y : /\ Runs(family, code, x, y) /\ y.ip = p + 3 /\ y.lmem = x.lmem
                 /\ Match(Append(r.labels, Label(i, Len(r.vals))), r.vals, y)
    BY <1>2, <1>4, <1>7, EnterMatch
  <1>9. l \in Labels
    BY <1>4 DEF Label, Labels
  <1> HIDE DEF l
  <1>10. Append(r.labels, l) \in Seq(Labels) /\ Len(Append(r.labels, l)) >= 1
    BY <1>4, <1>9
  <1>11. i + 1 \in Nat
    BY <1>4
  <1>12. /\ s \in Readings /\ s.pc = i + 1 /\ s.labels = Append(r.labels, l) /\ s.vals = r.vals /\ s.locals = r.locals
    <2> DEFINE b == Append(r.labels, l)
               a == i + 1
               c == r.vals
    <2>1. r \in Readings /\ a \in Nat /\ b \in Seq(Labels) /\ c \in Seq(Nat)
      BY <1>2, <1>4, <1>10, <1>11
    <2> HIDE DEF a, b, c
    <2>2. /\ With(r, a, b, c) \in Readings /\ With(r, a, b, c).pc = a /\ With(r, a, b, c).labels = b
          /\ With(r, a, b, c).vals = c /\ With(r, a, b, c).locals = r.locals
      BY ONLY <2>1, WithFacts
    <2> QED BY <2>2, Zenon DEF a, b, c, s
  <1> HIDE DEF s
  <1>13. Knows(family, y, s)
    BY <1>2, <1>8, <1>12 DEF Knows
  <1>14. Match(s.labels, s.vals, y) /\ s.labels = f[i + 1].labels /\ Len(s.vals) = f[i + 1].height /\ y.ip = st[i + 1]
    BY <1>4, <1>5, <1>6, <1>8, <1>12 DEF l
  <1>15. Arrives(f, st, y, s)
    BY <1>4, <1>5, <1>10, <1>12, <1>13, <1>14, NextArrives
  <1> QED BY <1>3, <1>8, <1>15, ArrivesOn

\* The topmost operand is in rax.
LEMMA TopValue ==
  ASSUME family \in Families, NEW labs \in Seq(Labels), NEW vals \in Seq(Nat), NEW x, Match(labs, vals, x),
         Tidy(labs, Len(vals)), Len(labs) >= 1, Last(labs).height < Len(vals)
  PROVE  x.rax = Last(vals) /\ x.rax \in Nat
PROOF
  <1> DEFINE zero == 0
  <1>1. zero \in Nat
    OBVIOUS
  <1> HIDE DEF zero
  <1> QED BY <1>1, Dropped

LEMMA FnLeft ==
  ASSUME family \in Families, NEW labs \in Seq(Labels), NEW h \in Nat, Tidy(labs, h), NEW d, d = Len(labs) - 1, Len(labs) >= 1
  PROVE  Saved(Left(labs, d)) = <<RetAddr>>
PROOF
  <1> DEFINE e == Left(labs, d)
  <1>1. Len(labs) \in Nat /\ d \in 0 .. Len(labs) - 1
    OBVIOUS
  <1>2. e \in Seq(Labels) /\ Len(e) = Len(labs) - d - 1
    BY <1>1, LeftFacts
  <1> HIDE DEF e
  <1>3. Len(e) = 0
    BY <1>1, <1>2
  <1>4. Saved(e) \in Seq(Nat) /\ Len(Saved(e)) = Len(e) + 1 /\ Saved(e)[1] = RetAddr
    BY <1>2, SavedFacts
  <1>5. Saved(e) = <<RetAddr>>
    BY <1>3, <1>4, OneTuple
  <1> QED BY <1>5 DEF e

LEMMA HasLeave ==
  ASSUME NEW c, NEW p \in Nat, NEW keep \in BOOLEAN, Has(c, p, LeaveBlock(keep))
  PROVE  /\ Has(c, p, Leaving(0, keep)) /\ Len(Leaving(0, keep)) = Len(LeaveBlock(keep))
         /\ Len(LeaveBlock(keep)) = IF keep THEN 1 ELSE 2
PROOF
  <1> DEFINE zero == 0
  <1>0. zero \in Nat /\ zero = 0
    OBVIOUS
  <1> HIDE DEF zero
  <1>1. /\ Len(Leaving(zero, keep)) = zero + IF keep THEN 1 ELSE 2
        /\ \A k \in 1 .. zero + 1 : Leaving(zero, keep)[k] = PopRdi
        /\ ~keep => Leaving(zero, keep)[zero + 2] = _PopContractStack
    BY <1>0, LeavingFacts
  <1>2. Len(Leaving(0, keep)) = (IF keep THEN 1 ELSE 2) /\ Leaving(0, keep)[1] = PopRdi
        /\ (~keep => Leaving(0, keep)[2] = _PopContractStack)
    BY <1>0, <1>1
  <1>3. LeaveBlock(keep) = IF keep THEN <<PopRdi>> ELSE <<PopRdi, _PopContractStack>>
    BY Joined DEF LeaveBlock
  <1>4. c[p + 1] = PopRdi /\ (~keep => c[p + 2] = _PopContractStack)
    <2>1. CASE keep
      BY <2>1, <1>3, HasOne
    <2>2. CASE ~keep
      <3>1. Has(c, p, <<PopRdi, _PopContractStack>>)
        BY <2>2, <1>3
      <3>2. c[p + 1] = PopRdi /\ c[p + 1 + 1] = _PopContractStack
        BY <3>1, HasTwo
      <3> QED BY <3>2
    <2> QED BY <2>1, <2>2
  <1>5. Has(c, p, Leaving(0, keep))
    <2> SUFFICES ASSUME NEW k \in 1 .. Len(Leaving(0, keep)) PROVE c[p + k] = Leaving(0, keep)[k]
      BY DEF Has
    <2> DEFINE n == Len(Leaving(0, keep))
    <2>a. n = (IF keep THEN 1 ELSE 2) /\ k \in 1 .. n
      BY <1>2
    <2> HIDE DEF n
    <2>1. k = 1 \/ (k = 2 /\ ~keep)
      BY <2>a
    <2> QED BY <2>1, <1>2, <1>4
  <1>6. Len(LeaveBlock(keep)) = IF keep THEN 1 ELSE 2
    BY <1>3
  <1> QED BY <1>2, <1>5, <1>6

LEMMA BrArrives ==
  ASSUME NEW f, NEW st, Compiled(f, st), CleanFamily(family), NEW r, NEW x, Begins(f, st, r, x), prog[r.pc].op = "br"
  PROVE  Arrives(f, st, x, ReadStep(r))
PROOF
  <1> DEFINE i == r.pc
             p == st[i]
             ins == prog[i]
             d == ins.n
             l == Nth(f[i].labels, d)
             keep == Valued(prog, l.at)
             q == p + 1 + Len(Leaving(d, keep))
  <1>1. /\ Context(f, st, i, p, ins, r, x) /\ Moves(prog, family, i, f[i], f[i + 1])
        /\ Shape(prog, closes, <<>>, code, st, phase, r.labels, i, Templates[i])
    BY BeginFacts
  <1>2. r \in Readings /\ Match(r.labels, r.vals, x) /\ Knows(family, x, r) /\ ins.op = "br"
    BY DEF Begins
  <1>3. ReadStep(r) = BranchTo(r, d, r.vals)
    BY <1>2, ReadStepIs
  <1> HIDE DEF i, p, ins
  <1>4. /\ family \in Families /\ p \in Nat /\ x.ip = p + 1 /\ Len(r.labels) >= 1 /\ Tidy(r.labels, Len(r.vals))
        /\ Len(r.vals) \in Nat /\ i \in 1 .. Len(prog) /\ Len(r.labels) \in Nat /\ Last(r.labels).height \in Nat
        /\ Len(r.vals) = f[i].height /\ r.labels = f[i].labels /\ r.labels \in Seq(Labels) /\ r.vals \in Seq(Nat)
        /\ Spare(f[i]) = Len(r.vals) - Last(r.labels).height
    BY <1>1 DEF Context
  <1>5. Branches(prog, family, f[i], d, 0)
    BY <1>1, <1>2 DEF Moves, Context
  <1>6. d \in 0 .. Len(f[i].labels) - 1 /\ Spare(f[i]) >= Takes(prog, family, l.at) + 0
    BY <1>5 DEF Branches
  <1>7. /\ Fix(<<>>, code, p, Leaving(d, keep)) 
        /\ Jump(prog, closes, <<>>, code, st, phase, p + Len(Leaving(d, keep)) + 1, "jmp", l.at)
    BY <1>1, <1>2, <1>4 DEF Shape, Context
  <1>8. keep \in BOOLEAN
    BY DEF Valued
  <1> HIDE DEF l, keep, d
  <1>9. d \in Nat
    BY <1>4, <1>6
  <1>10. Len(Leaving(d, keep)) \in Nat
    BY <1>8, <1>9, LeavingFacts
  <1>11. p + Len(Leaving(d, keep)) + 1 = q
    BY <1>4, <1>10
  <1>12. Has(code, p, Leaving(d, keep))
    BY <1>7, FixHas
  <1>13. Takes(prog, family, l.at) \in {0, 1}
    <2>1. Inside(f, i, d, l)
      BY <1>4, <1>6, LabelIs DEF l
    <2>2. family.arity \in {0, 1}
      BY <1>4, FamilyFacts DEF FnArity
    <2> QED BY <2>1, <2>2 DEF Takes, Leaves, Inside
  <1>14. Last(r.labels).height + Takes(prog, family, l.at) <= Len(r.vals)
    BY <1>4, <1>6, <1>13
  <1>15. MayBranch(f, i, r, d, l, r.vals, x)
    BY <1>2, <1>4, <1>6, <1>14 DEF MayBranch, l
  <1>16. Jump(prog, closes, <<>>, code, st, phase, q, "jmp", l.at)
    BY <1>7, <1>11
  <1> HIDE DEF q
  <1>17. q = p + 1 + Len(Leaving(d, keep)) /\ (keep <=> Valued(prog, l.at))
    BY DEF q, keep
  <1>18. Arrives(f, st, x, BranchTo(r, d, r.vals))
    BY <1>4, <1>8, <1>12, <1>15, <1>16, <1>17, BranchRuns
  <1> QED BY <1>3, <1>18

LEMMA ReturnArrives ==
  ASSUME NEW f, NEW st, Compiled(f, st), NEW r, NEW x, Begins(f, st, r, x), prog[r.pc].op = "return"
  PROVE  Arrives(f, st, x, ReadStep(r))
PROOF
  <1> DEFINE i == r.pc
             p == st[i]
             ins == prog[i]
             n == Len(r.labels)
             d == n - 1
             l == Nth(f[i].labels, d)
             s == BranchTo(r, d, r.vals)
  <1>1. /\ Context(f, st, i, p, ins, r, x) /\ Moves(prog, family, i, f[i], f[i + 1])
        /\ Shape(prog, closes, <<>>, code, st, phase, r.labels, i, Templates[i])
    BY BeginFacts
  <1>2. r \in Readings /\ Match(r.labels, r.vals, x) /\ Knows(family, x, r) /\ ins.op = "return"
    BY DEF Begins
  <1>3. ReadStep(r) = s
    BY <1>2, ReadStepIs
  <1> HIDE DEF i, p, ins, s
  <1>4. /\ family \in Families /\ p \in Nat /\ x.ip = p + 1 /\ n >= 1 /\ Tidy(r.labels, Len(r.vals)) /\ n \in Nat
        /\ Len(r.vals) \in Nat /\ i \in 1 .. Len(prog) /\ Last(r.labels).height \in Nat
        /\ Len(r.vals) = f[i].height /\ r.labels = f[i].labels /\ r.labels \in Seq(Labels) /\ r.vals \in Seq(Nat)
        /\ Spare(f[i]) = Len(r.vals) - Last(r.labels).height
    BY <1>1 DEF Context
  <1>5. Spare(f[i]) >= family.arity /\ family.arity \in {0, 1}
    BY <1>1, <1>2, <1>4, FamilyFacts DEF Moves, Context, FnArity
  <1>6. Fix(<<>>, code, p, <<Ins("add rsp", n), Ins("ret", 0)>>)
    BY <1>1, <1>2, <1>4 DEF Shape, Context
  <1>7. code[p + 1] = Ins("add rsp", n) /\ code[p + 1 + 1] = Ins("ret", 0)
    <2> DEFINE u == Ins("add rsp", n)
               v == Ins("ret", 0)
    <2>1. Fix(<<>>, code, p, <<u, v>>) /\ p \in Nat
      BY <1>4, <1>6
    <2> HIDE DEF u, v
    <2>2. Has(code, p, <<u, v>>)
      BY <2>1, FixHas
    <2>3. code[p + 1] = u /\ code[p + 1 + 1] = v
      BY <2>1, <2>2, HasTwo
    <2> QED BY <2>3 DEF u, v
  <1>8. d \in 0 .. Len(f[i].labels) - 1
    BY <1>4
  <1>9. Inside(f, i, d, l)
    BY <1>4, <1>8, LabelIs
  <1>10. l.at = 0
    BY <1>4, <1>9 DEF Inside
  <1>11. Takes(prog, family, l.at) = family.arity /\ ~IsLoop(l) /\ EndOf(l) = Len(prog)
    BY <1>10 DEF Takes, Leaves, IsLoop, EndOf
  <1>12. Last(r.labels).height + Takes(prog, family, l.at) <= Len(r.vals)
    BY <1>4, <1>5, <1>11
  <1>13. MayBranch(f, i, r, d, l, r.vals, x)
    BY <1>2, <1>4, <1>8, <1>12 DEF MayBranch
  <1>14. Branched(r, d, l, r.vals, s)
    BY <1>4, <1>13, BranchFacts DEF s
  <1> HIDE DEF d, l
  <1>15. /\ x = Core(p + 1, x.rax, x.rcx, x.rdi, 0, x.mem, x.lmem, Saved(r.labels))
    BY <1>2, <1>4, MatchFacts
  <1>16. Upto(Saved(r.labels), Len(Saved(r.labels)) - n) = <<RetAddr>>
    <2>1. Saved(r.labels) \in Seq(Nat) /\ Len(Saved(r.labels)) = n + 1 /\ Saved(r.labels)[1] = RetAddr
      BY <1>4, SavedFacts
    <2> DEFINE sv == Saved(r.labels)
               one == 1
               u == Upto(sv, one)
    <2> HIDE DEF n, sv, one
    <2>2. one \in 0 .. Len(sv) /\ Len(sv) - n = one
      BY <1>4, <2>1 DEF sv, one
    <2>3. u \in Seq(Nat) /\ Len(u) = one /\ \A j \in 1 .. one : u[j] = sv[j]
      BY <2>1, <2>2, UptoFacts DEF sv
    <2> HIDE DEF u
    <2>4. u = <<u[1]>> /\ u[1] = RetAddr
      <3>1. u[1] = sv[1]
        BY <2>3 DEF one
      <3>2. u = <<u[1]>>
        BY <2>3, OneTuple DEF one
      <3> QED BY <3>1, <3>2, <2>1 DEF sv
    <2>5. Upto(sv, Len(sv) - n) = u
      BY <2>2 DEF u
    <2> QED BY <2>4, <2>5 DEF sv
  <1> DEFINE z == Core(p + 1 + 1, x.rax, x.rcx, x.rdi, 0, x.mem, x.lmem, <<RetAddr>>)
  <1>17. Runs(family, code, x, z)
    <2>1. code[p + 1].op = "add rsp" /\ code[p + 1].n = n
      <3>1. \A e, o, k : e = Ins(o, k) => e.op = o /\ e.n = k
        BY InsFields
      <3> DEFINE e == code[p + 1]
      <3>2. e = Ins("add rsp", n)
        BY <1>7
      <3> HIDE DEF n, e
      <3>3. e.op = "add rsp" /\ e.n = n
        BY <3>1, <3>2, Zenon
      <3> QED BY <3>3 DEF e
    <2> DEFINE sv == Saved(r.labels)
    <2> HIDE DEF sv, n
    <2>2. Runs(family, code, Core(p + 1, x.rax, x.rcx, x.rdi, 0, x.mem, x.lmem, sv),
                             Core(p + 1 + 1, x.rax, x.rcx, x.rdi, 0, x.mem, x.lmem, Upto(sv, Len(sv) - code[p + 1].n)))
      BY <2>1, GoAddRsp
    <2> QED BY <1>15, <1>16, <2>1, <2>2 DEF sv
  <1>18. /\ z.ip = p + 1 + 1 /\ z.rax = x.rax /\ z.lmem = x.lmem /\ z.native = <<RetAddr>>
         /\ z = Core(z.ip, z.rax, z.rcx, z.rdi, z.rbx, z.mem, z.lmem, z.native)
    BY DEF Core
  <1> HIDE DEF z
  <1>19. code[z.ip].op = "ret"
    BY <1>7, <1>18, InsFields
  <1>20. s \in Readings /\ s.locals = r.locals /\ Carries(r.vals, l.height, family.arity, s.vals) /\ s.pc = Len(prog) + 1
    BY <1>11, <1>14 DEF Branched
  <1>21. FnArity = 1 => z.rax = Last(s.vals)
    <2> SUFFICES ASSUME FnArity = 1 PROVE z.rax = Last(s.vals)
      OBVIOUS
    <2>1. family.arity = 1
      BY DEF FnArity
    <2>2. Last(r.labels).height < Len(r.vals)
      BY <2>1, <1>4, <1>5
    <2>3. x.rax = Last(r.vals)
      BY <1>2, <1>4, <2>2, TopValue
    <2>4. Last(s.vals) = Last(r.vals)
      BY <2>1, <1>20 DEF Carries
    <2> QED BY <1>18, <2>3, <2>4
  <1>22. Returns(s, z)
    BY <1>18, <1>19, <1>20, <1>21 DEF Returns
  <1>23. Knows(family, z, s)
    BY <1>2, <1>18, <1>20 DEF Knows
  <1>24. Arrived(f, st, s, z)
    BY <1>18, <1>20, <1>22, <1>23 DEF Arrived
  <1> QED BY <1>3, <1>17, <1>24 DEF Arrives

LEMMA EndArrives ==
  ASSUME NEW f, NEW st, Compiled(f, st), NEW r, NEW x, Begins(f, st, r, x), prog[r.pc].op = "end"
  PROVE  Arrives(f, st, x, ReadStep(r))
PROOF
  <1> DEFINE i == r.pc
             p == st[i]
             ins == prog[i]
             n == Len(r.labels)
             l == Last(r.labels)
             keep == Valued(prog, l.at)
             s == With(r, i + 1, Front(r.labels), r.vals)
             zero == 0
  <1>1. /\ Context(f, st, i, p, ins, r, x) /\ Moves(prog, family, i, f[i], f[i + 1])
        /\ Shape(prog, closes, <<>>, code, st, phase, r.labels, i, Templates[i])
    BY BeginFacts
  <1>2. r \in Readings /\ Match(r.labels, r.vals, x) /\ Knows(family, x, r) /\ ins.op = "end"
    BY DEF Begins
  <1>3. ReadStep(r) = s
    BY <1>2, ReadStepIs
  <1> HIDE DEF i, p, ins
  <1>4. /\ family \in Families /\ p \in Nat /\ x.ip = p + 1 /\ n >= 1 /\ Tidy(r.labels, Len(r.vals)) /\ n \in Nat
        /\ Len(r.vals) \in Nat /\ i \in 1 .. Len(prog) /\ Last(r.labels).height \in Nat /\ i \in Nat
        /\ Len(r.vals) = f[i].height /\ r.labels = f[i].labels /\ r.labels \in Seq(Labels) /\ r.vals \in Seq(Nat)
        /\ Spare(f[i]) = Len(r.vals) - l.height /\ l = r.labels[n] /\ f[i].live /\ i + 1 \in 1 .. Len(prog) + 1
        /\ Len(prog) \in Nat
    BY <1>1 DEF Context
  <1>5. /\ Spare(f[i]) = Leaves(prog, family, l.at) /\ f[i + 1].live /\ f[i + 1].labels = Front(f[i].labels)
        /\ f[i + 1].height = l.height + Leaves(prog, family, l.at)
    BY <1>1, <1>2, <1>4 DEF Moves, Context
  <1>6. Fix(<<>>, code, p, LeaveBlock(keep)) /\ st[i + 1] = p + 1 + Len(LeaveBlock(keep))
    BY <1>1, <1>2, <1>4 DEF Shape, Context
  <1>7. keep \in BOOLEAN
    BY DEF Valued
  <1>8. zero \in Nat /\ zero \in 0 .. n - 1 /\ zero \in 0 .. Len(f[i].labels) - 1 /\ n - zero = n
    BY <1>4
  <1>9. Nth(f[i].labels, zero) = l /\ Nth(r.labels, zero) = l
    BY <1>4, <1>8 DEF Nth
  <1> HIDE DEF zero
  <1>10. Inside(f, i, zero, l)
    BY <1>4, <1>8, <1>9, LabelIs
  <1>11. l.at = 0 <=> n = 1
    BY <1>4, <1>10 DEF Inside, zero
  <1>12. family.arity \in {0, 1}
    BY <1>4, FamilyFacts DEF FnArity
  <1>13. l.height \in Nat
    BY <1>4
  <1>14. Has(code, p, Leaving(zero, keep)) /\ Len(Leaving(zero, keep)) = Len(LeaveBlock(keep))
         /\ Len(LeaveBlock(keep)) = IF keep THEN 1 ELSE 2
    BY <1>4, <1>6, <1>7, FixHas, HasLeave DEF zero
  <1>15. Front(r.labels) = Left(r.labels, zero)
    BY <1>4, <1>8 DEF Front, Left, Upto
  <1>16. Left(r.labels, zero) \in Seq(Labels) /\ Len(Left(r.labels, zero)) = n - zero - 1
    <2>1. /\ family \in Families /\ r.labels \in Seq(Labels) /\ Len(r.vals) \in Nat /\ Tidy(r.labels, Len(r.vals))
          /\ zero \in 0 .. Len(r.labels) - 1
      BY <1>4, <1>8
    <2>2. /\ Left(r.labels, zero) \in Seq(Labels) /\ Len(Left(r.labels, zero)) = Len(r.labels) - zero - 1
      BY ONLY <2>1, LeftFacts
    <2> QED BY <2>2
  <1>17. s \in Readings /\ s.pc = i + 1 /\ s.labels = Left(r.labels, zero) /\ s.vals = r.vals /\ s.locals = r.locals
    <2> DEFINE b == Front(r.labels)
               a == i + 1
               c == r.vals
    <2>1. r \in Readings /\ a \in Nat /\ b \in Seq(Labels) /\ c \in Seq(Nat) /\ b = Left(r.labels, zero)
      BY <1>2, <1>4, <1>15, <1>16
    <2> HIDE DEF a, b, c
    <2>2. /\ With(r, a, b, c) \in Readings /\ With(r, a, b, c).pc = a /\ With(r, a, b, c).labels = b
          /\ With(r, a, b, c).vals = c /\ With(r, a, b, c).locals = r.locals
      BY ONLY <2>1, WithFacts
    <2>3. s = With(r, a, b, c)
      BY DEF a, b, c
    <2> HIDE DEF s
    <2> QED BY <2>1, <2>2, <2>3, Zenon DEF a, c
  <1>18. CASE n >= 2
    <2>1. l.at # 0
      BY <1>4, <1>11, <1>18
    <2>2. prog[l.at].n \in {0, 1}
      BY <2>1, <1>10 DEF Inside
    <2>3. Leaves(prog, family, l.at) = IF keep THEN 1 ELSE 0
      BY <2>1, <2>2 DEF Leaves, Valued
    <2> HIDE DEF keep, l, s, n
    <2>4. /\ Len(r.vals) = Nth(r.labels, zero).height + (IF keep THEN 1 ELSE 0) /\ Starts(r.vals, r.vals, Nth(r.labels, zero).height)
          /\ keep => Last(r.vals) = Last(r.vals) /\ l.height < Len(r.vals)
      BY <2>3, <1>4, <1>5, <1>9, <1>13 DEF Starts
    <2>5. PICK y : /\ Runs(family, code, x, y) /\ y.ip = p + 1 + Len(Leaving(zero, keep)) /\ y.lmem = x.lmem
                   /\ Match(Left(r.labels, zero), r.vals, y)
      <3>1. /\ family \in Families /\ r.labels \in Seq(Labels) /\ r.vals \in Seq(Nat) /\ Match(r.labels, r.vals, x)
            /\ Tidy(r.labels, Len(r.vals)) /\ zero \in 0 .. Len(r.labels) - 1 /\ keep \in BOOLEAN /\ p \in Nat /\ x.ip = p + 1
            /\ Has(code, p, Leaving(zero, keep))
            /\ Len(r.vals) = Nth(r.labels, zero).height + (IF keep THEN 1 ELSE 0) /\ Starts(r.vals, r.vals, Nth(r.labels, zero).height)
            /\ keep => Last(r.vals) = Last(r.vals) /\ Last(r.labels).height < Len(r.vals)
        BY <1>2, <1>4, <1>7, <1>8, <1>14, <2>4 DEF l, n
      <3> DEFINE w == r.vals
      <3>2. w \in Seq(Nat) /\ Len(w) = Nth(r.labels, zero).height + (IF keep THEN 1 ELSE 0) /\ Starts(w, r.vals, Nth(r.labels, zero).height)
            /\ (keep => Last(w) = Last(r.vals) /\ Last(r.labels).height < Len(r.vals)) /\ w = r.vals
        BY <3>1
      <3> HIDE DEF w
      <3>3. \E y : /\ Runs(family, code, x, y) /\ y.ip = p + 1 + Len(Leaving(zero, keep)) /\ y.lmem = x.lmem
                   /\ Match(Left(r.labels, zero), w, y)
        <4>1. /\ family \in Families /\ r.labels \in Seq(Labels) /\ r.vals \in Seq(Nat) /\ Match(r.labels, r.vals, x)
              /\ Tidy(r.labels, Len(r.vals)) /\ zero \in 0 .. Len(r.labels) - 1 /\ keep \in BOOLEAN /\ p \in Nat /\ x.ip = p + 1
              /\ Has(code, p, Leaving(zero, keep))
              /\ w \in Seq(Nat) /\ Len(w) = Nth(r.labels, zero).height + (IF keep THEN 1 ELSE 0)
              /\ Starts(w, r.vals, Nth(r.labels, zero).height)
              /\ keep => Last(w) = Last(r.vals) /\ Last(r.labels).height < Len(r.vals)
          BY <3>1, <3>2
        <4> QED BY ONLY <4>1, Leaves1
      <3> QED BY <3>2, <3>3
    <2>6. Knows(family, y, s)
      BY <1>2, <1>17, <2>5 DEF Knows
    <2>7. y.ip = st[i + 1]
      BY <1>6, <1>14, <2>5
    <2>8. Match(s.labels, s.vals, y) /\ Len(s.labels) >= 1 /\ s.labels = f[i + 1].labels /\ Len(s.vals) = f[i + 1].height
      <3>1. s.labels = f[i + 1].labels /\ Match(s.labels, s.vals, y)
        BY <1>4, <1>5, <1>15, <1>17, <2>5
      <3>2. Len(s.labels) >= 1
        BY <1>4, <1>16, <1>17, <1>18 DEF zero
      <3>3. Len(s.vals) = f[i + 1].height
        BY <1>4, <1>5, <1>13, <1>17
      <3> QED BY <3>1, <3>2, <3>3
    <2>9. Arrives(f, st, y, s)
      BY <1>4, <1>5, <1>17, <2>6, <2>7, <2>8, NextArrives
    <2>10. Arrives(f, st, x, s)
      BY <2>5, <2>9, ArrivesOn
    <2> QED BY <1>3, <2>10 DEF s, l, n
  <1>19. CASE n = 1
    <2>1. l.at = 0 /\ keep /\ Leaves(prog, family, l.at) = family.arity
      BY <1>11, <1>19 DEF Valued, Leaves
    <2> HIDE DEF keep, l, s
    <2>2. i + 1 = Len(prog) + 1
      <3> SUFFICES ASSUME i + 1 # Len(prog) + 1 PROVE FALSE
        OBVIOUS
      <3>1. i + 1 <= Len(prog)
        BY <1>4
      <3>2. Len(f[i + 1].labels) >= 1
        BY <1>4, <3>1, PointIs
      <3>3. Len(f[i + 1].labels) = 0
        BY <1>4, <1>5, <1>15, <1>16, <1>19 DEF zero
      <3> QED BY <3>2, <3>3
    <2> DEFINE e == Left(r.labels, zero)
               z == Core(p + 1 + (zero + 1), x.rax, x.rcx, Base + (Nth(r.labels, zero).height + (Len(r.labels) - zero)), 0, x.mem, x.lmem, Saved(e))
    <2>3. Popping(code, p, zero + 1)
      <3>1. \A k \in 1 .. zero + 1 : Leaving(zero, keep)[k] = PopRdi
        BY <1>7, <1>8, LeavingFacts
      <3>a. Len(Leaving(zero, keep)) = 1
        BY <1>14, <2>1
      <3>b. zero + 1 = 1
        BY DEF zero
      <3>2. \A k \in 1 .. zero + 1 : k \in 1 .. Len(Leaving(zero, keep))
        BY <3>a, <3>b
      <3>3. \A k \in 1 .. zero + 1 : code[p + k] = PopRdi
        BY <1>14, <3>1, <3>2 DEF Has
      <3>4. PopRdi.op = "pop rdi"
        BY InsFields DEF PopRdi
      <3> QED BY <3>3, <3>4 DEF Popping
    <2>4. Runs(family, code, x, z)
      BY <1>2, <1>4, <1>8, <2>3, LeavePops
    <2>5. Saved(e) = <<RetAddr>>
      <3>1. /\ family \in Families /\ r.labels \in Seq(Labels) /\ Len(r.vals) \in Nat /\ Tidy(r.labels, Len(r.vals))
            /\ zero = Len(r.labels) - 1 /\ Len(r.labels) >= 1
        BY <1>4, <1>19 DEF zero
      <3>2. Saved(Left(r.labels, zero)) = <<RetAddr>>
        BY ONLY <3>1, FnLeft
      <3> QED BY <3>2
    <2>6. z.ip = p + 1 + (zero + 1) /\ z.rax = x.rax /\ z.lmem = x.lmem /\ z.native = Saved(e)
          /\ z = Core(z.ip, z.rax, z.rcx, z.rdi, z.rbx, z.mem, z.lmem, z.native)
      BY DEF Core
    <2> HIDE DEF z, e
    <2>7. z.ip = st[Len(prog) + 1]
      BY <1>4, <1>6, <1>14, <2>1, <2>2, <2>6 DEF zero
    <2>8. code[z.ip].op = "ret"
      BY <2>7, LastPoint
    <2>9. FnArity = 1 => z.rax = Last(s.vals)
      <3> SUFFICES ASSUME FnArity = 1 PROVE z.rax = Last(s.vals)
        OBVIOUS
      <3>1. family.arity = 1
        BY DEF FnArity
      <3>2. Last(r.labels).height < Len(r.vals)
        BY <3>1, <2>1, <1>4, <1>5, <1>13 DEF l
      <3>3. x.rax = Last(r.vals)
        BY <1>2, <1>4, <3>2, TopValue
      <3> QED BY <1>17, <2>6, <3>3
    <2>10. Returns(s, z)
      BY <1>17, <2>2, <2>5, <2>6, <2>8, <2>9 DEF Returns
    <2>11. Knows(family, z, s)
      BY <1>2, <1>17, <2>6 DEF Knows
    <2>12. Arrived(f, st, s, z)
      BY <1>17, <2>6, <2>10, <2>11 DEF Arrived
    <2> QED BY <1>3, <2>4, <2>12 DEF Arrives, s
  <1>20. n = 1 \/ n >= 2
    <2>1. n \in Nat /\ n >= 1
      BY <1>4
    <2> HIDE DEF n
    <2> QED BY <2>1
  <1> QED BY <1>18, <1>19, <1>20

-----------------------------------------------------------------------------
(* if: both ways.                                                          *)

LEMMA ForkRuns ==
  ASSUME NEW x, NEW ins, ins = code[x.ip], ins.op = "jump if not" \/ ins.op = "enter if"
  PROVE  Runs(family, code, x, Forked(ins, x))
PROOF
  <1> DEFINE y == Forked(ins, x)
  <1>1. ins.op = "jump if not" \/ ins.op = "enter if"
    OBVIOUS
  <1>2. Does(family, ins, x, y)
    <2> HIDE DEF y
    <2>1. y = Forked(ins, x)
      BY DEF y
    <2>2. CASE ins.op = "jump if not"
      BY <2>1, <2>2 DEF Does
    <2>3. CASE ins.op = "enter if"
      BY <2>1, <2>3 DEF Does
    <2> QED BY <1>1, <2>2, <2>3
  <1>3. ins.op \in Working /\ ins.op # "pop rdi"
    BY <1>1 DEF Working, Jumps
  <1>4. Goes1(family, code, x, y)
    BY <1>2, <1>3 DEF Goes1, Going
  <1> HIDE DEF y
  <1>5. Runs(family, code, x, y)
    BY <1>4, RunsOne
  <1> QED BY <1>5 DEF y

LEMMA TidyLess ==
  ASSUME family \in Families, NEW labs \in Seq(Labels), NEW h \in Nat, Tidy(labs, h), Len(labs) >= 1,
         NEW n \in Nat, n <= h, Last(labs).height <= n
  PROVE  Tidy(labs, n)
PROOF
  <1>1. Len(labs) \in Nat /\ family.len \in Nat /\ \A j \in 1 .. Len(labs) : labs[j].height \in Nat
    BY LabelsAre, FamilyFacts DEF MaxLen
  <1>2. Last(labs) = labs[Len(labs)] /\ Len(labs) \in 1 .. Len(labs)
    BY <1>1 DEF Last
  <1>3. \A j \in 1 .. Len(labs) : labs[j].height <= Last(labs).height
    <2> TAKE j \in 1 .. Len(labs)
    <2>1. j = Len(labs) \/ j \in 1 .. Len(labs) - 1
      BY <1>1
    <2>2. Last(labs).height \in Nat
      BY <1>1, <1>2
    <2> QED BY <1>1, <1>2, <2>1, <2>2 DEF Tidy
  <1>4. n + Len(labs) <= family.len + 1
    BY <1>1 DEF Tidy
  <1>5. \A j \in 1 .. Len(labs) : labs[j].height <= n
    BY <1>1, <1>2, <1>3
  <1> QED BY <1>4, <1>5 DEF Tidy

\* A conditional jump takes the topmost operand off, whichever way it goes.
LEMMA Forks ==
  ASSUME family \in Families, NEW labs \in Seq(Labels), NEW vals \in Seq(Nat), NEW x, Match(labs, vals, x),
         Tidy(labs, Len(vals)), Len(labs) >= 1, Last(labs).height < Len(vals),
         NEW p \in Nat, x.ip = p, NEW e, e = code[p], e.op = "jump if not" \/ e.op = "enter if", NEW g \in Nat, e.n = g
  PROVE  \E y : /\ Runs(family, code, x, y) /\ y.ip = (IF Last(vals) = 0 THEN g ELSE p + 1) /\ y.lmem = x.lmem
                /\ Match(labs, Front(vals), y)
PROOF
  <1> DEFINE to == IF x.rax = 0 THEN g ELSE p + 1
             y == Core(to, x.mem[x.rdi - 1], x.rcx, x.rdi - 1, x.rbx, x.mem, x.lmem, x.native)
  <1>1. to \in Nat
    <2>1. p \in Nat
      OBVIOUS
    <2>2. g \in Nat
      OBVIOUS
    <2>3. p + 1 \in Nat
      BY ONLY <2>1
    <2> QED BY ONLY <2>2, <2>3
  <1>2. Runs(family, code, x, y)
    <2>a. e = code[x.ip] /\ (e.op = "jump if not" \/ e.op = "enter if") /\ e.n = g
      OBVIOUS
    <2>1. Runs(family, code, x, Forked(e, x))
      BY ONLY <2>a, ForkRuns
    <2>2. Forked(e, x) = y
      BY <2>a DEF Forked
    <2> QED BY <2>1, <2>2
  <1>3. y.ip = to /\ y.lmem = x.lmem
    BY DEF Core
  <1> HIDE DEF to
  <1>4. Match(labs, Front(vals), y) /\ x.rax = Last(vals)
    BY <1>1, Dropped
  <1>5. to = IF Last(vals) = 0 THEN g ELSE p + 1
    BY <1>4 DEF to
  <1> HIDE DEF y
  <1> QED BY <1>2, <1>3, <1>4, <1>5

\* The same, to be instantiated.
LEMMA ForksEach ==
  ASSUME family \in Families
  PROVE  \A lb \in Seq(Labels), vv \in Seq(Nat) : \A z :
           Match(lb, vv, z) /\ Tidy(lb, Len(vv)) /\ Len(lb) >= 1 /\ Last(lb).height < Len(vv) =>
             \A pp \in Nat, gg \in Nat : \A ee :
               z.ip = pp /\ ee = code[pp] /\ (ee.op = "jump if not" \/ ee.op = "enter if") /\ ee.n = gg =>
                 \E y : /\ Runs(family, code, z, y) /\ y.ip = (IF Last(vv) = 0 THEN gg ELSE pp + 1) /\ y.lmem = z.lmem
                        /\ Match(lb, Front(vv), y)
PROOF
  <1> TAKE lb \in Seq(Labels), vv \in Seq(Nat)
  <1> TAKE z
  <1> HAVE Match(lb, vv, z) /\ Tidy(lb, Len(vv)) /\ Len(lb) >= 1 /\ Last(lb).height < Len(vv)
  <1>1. /\ family \in Families /\ lb \in Seq(Labels) /\ vv \in Seq(Nat) /\ Match(lb, vv, z)
        /\ Tidy(lb, Len(vv)) /\ Len(lb) >= 1 /\ Last(lb).height < Len(vv)
    OBVIOUS
  <1> QED BY ONLY <1>1, Forks

\* A block that is opened after the operands w.
LEMMA OpenArrives ==
  ASSUME NEW f, NEW st, Compiled(f, st), NEW r \in Readings, NEW w \in Seq(Nat), NEW y, Match(r.labels, w, y),
         Tidy(r.labels, Len(w)), Knows(family, y, r), NEW q \in Nat, y.ip = q + 1, Has(code, q, EnterBlock),
         NEW at \in Nat, NEW j \in 1 .. Len(prog) + 1, st[j] = q + 3, f[j].live,
         NEW labs, labs = Append(r.labels, Label(at, Len(w))), f[j].labels = labs, f[j].height = Len(w)
  PROVE  Arrives(f, st, y, With(r, j, labs, w))
PROOF
  <1> DEFINE s == With(r, j, labs, w)
  <1>1. family \in Families /\ j \in Nat /\ Len(prog) \in Nat
    BY PointIs
  <1>2. r.labels \in Seq(Labels) /\ Len(r.labels) \in Nat /\ Len(w) \in Nat
    BY DEF Readings
  <1>3. PICK z : /\ Runs(family, code, y, z) /\ z.ip = q + 3 /\ z.lmem = y.lmem
                 /\ Match(Append(r.labels, Label(at, Len(w))), w, z)
    BY <1>1, <1>2, EnterMatch
  <1>4. labs \in Seq(Labels) /\ Len(labs) >= 1
    <2> DEFINE l == Label(at, Len(w))
    <2>1. l \in Labels
      BY <1>2 DEF Label, Labels
    <2> HIDE DEF l
    <2>2. labs = Append(r.labels, l)
      BY DEF l
    <2> QED BY <1>2, <2>1, <2>2
  <1>5. s \in Readings /\ s.pc = j /\ s.labels = labs /\ s.vals = w /\ s.locals = r.locals
    <2>1. r \in Readings /\ j \in Nat /\ labs \in Seq(Labels) /\ w \in Seq(Nat)
      BY <1>1, <1>4
    <2> QED BY ONLY <2>1, WithFacts
  <1> HIDE DEF s
  <1>6. Knows(family, z, s)
    BY <1>3, <1>5 DEF Knows
  <1>7. Match(s.labels, s.vals, z) /\ z.ip = st[j]
    BY <1>3, <1>5
  <1>8. Arrives(f, st, z, s)
    BY <1>4, <1>5, <1>6, <1>7, NextArrives
  <1> QED BY <1>3, <1>8, ArrivesOn DEF s

\* What the code says of the else and the end of an if.
IfEnds(f, st, i, g) ==
    LET e == closes[i].els
        n == closes[i].end
        labs == f[i + 1].labels
    IN  /\ e # 0 => /\ g = st[e] + 3 /\ st[e] \in Nat /\ e + 1 \in 1 .. Len(prog) + 1 /\ st[e + 1] = st[e] + 5
                    /\ Has(code, st[e] + 2, EnterBlock)
                    /\ f[e + 1].live /\ f[e + 1].labels = labs /\ f[e + 1].height = Last(labs).height
        /\ e = 0 => /\ g = st[n + 1] /\ n + 1 \in 1 .. Len(prog) + 1 /\ n \in Nat /\ prog[i].n = 0
                    /\ f[n + 1].live /\ f[n + 1].labels = Front(labs) /\ f[n + 1].height = Last(labs).height

LEMMA IfGoes ==
  ASSUME NEW f, NEW st, Compiled(f, st), NEW i \in 1 .. Len(prog), prog[i].op = "if",
         Jump(prog, closes, <<>>, code, st, phase, st[i] + 1, "enter if", i)
  PROVE  \E g \in Nat : code[st[i] + 1].op = "enter if" /\ code[st[i] + 1].n = g /\ IfEnds(f, st, i, g)
PROOF
  <1> DEFINE e == closes[i].els
             n == closes[i].end
             labs == f[i + 1].labels
             p == st[i]
             g == Goal(prog, closes, st, phase, "enter if", i)
  <1>1. Len(prog) \in Nat /\ i \in Nat /\ i # 0 /\ i \in 1 .. Len(prog) + 1 /\ i <= Len(prog) /\ i + 1 \in 1 .. Len(prog) + 1
    <2>1. Len(prog) \in Nat
      <3>1. CompilerType
        BY DEF Compiled, PatchInv
      <3>2. prog \in Seq(Bytecode)
        BY ONLY <3>1 DEF CompilerType
      <3> QED BY ONLY <3>2
    <2> DEFINE m == Len(prog)
    <2>2. m \in Nat /\ i \in 1 .. m
      BY <2>1
    <2> HIDE DEF m
    <2>3. m \in Nat /\ i \in Nat /\ i # 0 /\ i \in 1 .. m + 1 /\ i <= m /\ i + 1 \in 1 .. m + 1
      BY ONLY <2>2
    <2> QED BY <2>3 DEF m
  <1> HIDE DEF p, g, labs
  <1>2. Closed(prog, family, closes, {}, f, i)
    BY LastPoint DEF Openers
  <1>3. family \in Families /\ family.len \in Nat /\ family.openers \subseteq {"block", "loop", "if"} \X {0, 1}
    BY <1>1, PointIs, FamilyFacts DEF MaxLen
  <1>4. i \in 1 .. family.len /\ prog[i].n \in {0, 1}
    <2>1. i <= family.len /\ <<prog[i].op, prog[i].n>> \in family.openers
      BY <1>2 DEF Closed
    <2>2. i \in 1 .. family.len
      BY ONLY <1>1, <1>3, <2>1
    <2> QED BY <1>3, <2>1, <2>2
  <1>5. e \in Nat /\ n \in Nat
    <2>1. closes \in [1 .. family.len -> [els : Nat, end : Nat]]
      BY DEF Compiled, FlowInv, Flows
    <2> QED BY <1>4, <2>1
  <1> HIDE DEF e, n
  <1>6. n # 0 /\ n \in i + 1 .. Len(prog) /\ f[n + 1].live /\ f[n + 1].labels = Front(labs)
        /\ f[n + 1].height = Last(labs).height + prog[i].n /\ (prog[i].op = "if" /\ prog[i].n = 1 => e # 0)
    BY <1>2 DEF Closed, n, e, labs
  <1>7. e # 0 => /\ e \in i + 1 .. Len(prog) /\ f[e + 1].live /\ prog[e].op = "else" /\ f[e + 1].labels = labs
                 /\ f[e + 1].height = Last(labs).height
    BY <1>2 DEF Closed, e, labs
  <1>8. Moves(prog, family, i, f[i], f[i + 1])
    BY <1>1, PointIs
  <1>9. n + 1 \in 1 .. Len(prog) + 1 /\ (e # 0 => e \in 1 .. Len(prog) /\ e + 1 \in 1 .. Len(prog) + 1)
    BY ONLY <1>1, <1>5, <1>6, <1>7
  <1>10. st[n + 1] \in Nat /\ st[n + 1] # 0
    BY <1>9, PointIs
  <1>11. e # 0 => st[e] \in Nat /\ st[e] # 0 /\ st[e + 1] = st[e] + 5 /\ Has(code, st[e] + 2, EnterBlock)
    <2> SUFFICES ASSUME e # 0 PROVE st[e] \in Nat /\ st[e] # 0 /\ st[e + 1] = st[e] + 5 /\ Has(code, st[e] + 2, EnterBlock)
      OBVIOUS
    <2>9. e # 0
      OBVIOUS
    <2>0. e \in 1 .. Len(prog) /\ e \in 1 .. Len(prog) + 1
      BY ONLY <1>1, <1>9, <2>9
    <2>1. /\ st[e] \in Nat /\ st[e] # 0
          /\ e <= Len(prog) => Shape(prog, closes, <<>>, code, st, phase, f[e].labels, e, Templates[e])
      BY <2>0, PointIs
    <2>2. Shape(prog, closes, <<>>, code, st, phase, f[e].labels, e, Templates[e])
      <3>1. e <= Len(prog)
        BY ONLY <2>0, <1>1
      <3> QED BY <2>1, <3>1
    <2>3. Fix(<<>>, code, st[e] + 2, EnterBlock) /\ st[e + 1] = st[e] + 5
      BY <1>7, <2>2 DEF Shape
    <2>4. Has(code, st[e] + 2, EnterBlock)
      BY <2>3, FixHas
    <2> QED BY <2>1, <2>3, <2>4
  <1>12. g = IF e # 0 THEN st[e] + 3 ELSE st[n + 1]
    <2>1. ~LoopAt(prog, i)
      BY DEF LoopAt
    <2> QED BY <1>1, <1>6, <2>1 DEF Goal, e, n, g
  <1>13. g \in Nat /\ g # 0
    <2> DEFINE u == st[e]
               v == st[n + 1]
    <2>1. v \in Nat /\ v # 0 /\ (e # 0 => u \in Nat /\ u # 0) /\ g = (IF e # 0 THEN u + 3 ELSE v)
      BY <1>10, <1>11, <1>12
    <2> HIDE DEF u, v
    <2> QED BY ONLY <2>1
  <1>14. code[p + 1].op = "enter if" /\ code[p + 1].n = g
    BY <1>13, JumpsTo DEF g, p
  <1>15. e = 0 => prog[i].n = 0
    BY <1>4, <1>6
  <1>16. Last(labs).height \in Nat
    <2>1. labs = Append(f[i].labels, Label(i, f[i].height - 1)) /\ Spare(f[i]) >= 1
      BY <1>8 DEF Moves, labs
    <2>2. i + 1 \in 1 .. Len(prog) + 1 /\ i \in 1 .. Len(prog) + 1
      BY <1>1
    <2>3. labs \in Seq(Labels) /\ f[i].labels \in Seq(Labels)
      BY <2>2, PointIs DEF labs
    <2>4. Len(labs) >= 1
      <3> DEFINE l == Label(i, f[i].height - 1)
      <3> HIDE DEF l
      <3>1. labs = Append(f[i].labels, l)
        BY <2>1 DEF l
      <3> QED BY ONLY <2>3, <3>1
    <2>5. Last(labs) \in Labels
      BY ONLY <2>3, <2>4 DEF Last
    <2> QED BY <2>5 DEF Labels
  <1>17. e = 0 => f[n + 1].height = Last(labs).height
    <2> QED BY ONLY <1>6, <1>15, <1>16
  <1>18. IfEnds(f, st, i, g)
    BY <1>5, <1>6, <1>7, <1>9, <1>11, <1>12, <1>15, <1>17 DEF IfEnds, e, n, labs
  <1> QED BY <1>13, <1>14, <1>18 DEF p

LEMMA IfArrives ==
  ASSUME NEW f, NEW st, Compiled(f, st), NEW r, NEW x, Begins(f, st, r, x), prog[r.pc].op = "if"
  PROVE  Arrives(f, st, x, ReadStep(r))
PROOF
  <1> DEFINE i == r.pc
             p == st[i]
             ins == prog[i]
             w == Front(r.vals)
             m == Len(r.vals) - 1
             l == Label(i, m)
             labs == Append(r.labels, l)
             t == closes[i].els
             n == closes[i].end
  <1>1. /\ Context(f, st, i, p, ins, r, x) /\ Moves(prog, family, i, f[i], f[i + 1])
        /\ Shape(prog, closes, <<>>, code, st, phase, r.labels, i, Templates[i])
    BY BeginFacts
  <1>2. r \in Readings /\ Match(r.labels, r.vals, x) /\ Knows(family, x, r) /\ ins.op = "if"
    BY DEF Begins
  <1>3. \A u : u = Label(r.pc, Len(w)) =>
            /\ Last(r.vals) # 0 => ReadStep(r) = With(r, i + 1, Append(r.labels, u), w)
            /\ Last(r.vals) = 0 /\ t # 0 => ReadStep(r) = With(r, t + 1, Append(r.labels, u), w)
            /\ Last(r.vals) = 0 /\ t = 0 => ReadStep(r) = With(r, EndOf(u) + 1, r.labels, w)
    BY <1>2, ReadStepIs
  <1> HIDE DEF i, p, ins, t, n
  <1>4. /\ family \in Families /\ p \in Nat /\ x.ip = p + 1 /\ Len(r.labels) >= 1 /\ Tidy(r.labels, Len(r.vals))
        /\ Len(r.vals) \in Nat /\ i + 1 \in 1 .. Len(prog) + 1 /\ r.pc = i /\ i \in Nat /\ Len(r.labels) \in Nat
        /\ Len(r.vals) = f[i].height /\ r.labels = f[i].labels /\ r.labels \in Seq(Labels) /\ r.vals \in Seq(Nat)
        /\ Spare(f[i]) = Len(r.vals) - Last(r.labels).height /\ Last(r.labels).height \in Nat /\ i \in 1 .. Len(prog)
        /\ p = st[i]
    BY <1>1 DEF Context
  <1>5. /\ f[i + 1].live /\ f[i + 1].labels = labs /\ f[i + 1].height = m /\ Spare(f[i]) >= 1
    BY <1>1, <1>2, <1>4 DEF Moves, Context
  <1>6. /\ Jump(prog, closes, <<>>, code, st, phase, p + 1, "enter if", i) /\ Fix(<<>>, code, p + 1, EnterBlock)
        /\ st[i + 1] = p + 4
    BY <1>1, <1>2 DEF Shape, Context
  <1>7. Has(code, p + 1, EnterBlock)
    BY <1>6, FixHas
  <1>8. Last(r.labels).height < Len(r.vals) /\ m \in Nat /\ Last(r.labels).height <= m /\ m <= Len(r.vals)
    <2> DEFINE a == Len(r.vals)
               b == Last(r.labels).height
               c == Spare(f[i])
    <2>1. a \in Nat /\ b \in Nat /\ c = a - b /\ c >= 1
      BY <1>4, <1>5
    <2> HIDE DEF a, b, c
    <2>2. b < a /\ a - 1 \in Nat /\ b <= a - 1 /\ a - 1 <= a
      BY ONLY <2>1
    <2> QED BY ONLY <2>2 DEF a, b
  <1>9. w \in Seq(Nat) /\ Len(w) = m
    <2> DEFINE zero == 0
    <2>1. zero \in Nat
      OBVIOUS
    <2> HIDE DEF zero
    <2>2. /\ family \in Families /\ r.labels \in Seq(Labels) /\ r.vals \in Seq(Nat) /\ Match(r.labels, r.vals, x)
          /\ Tidy(r.labels, Len(r.vals)) /\ Len(r.labels) >= 1 /\ Last(r.labels).height < Len(r.vals)
      BY <1>2, <1>4, <1>8
    <2> QED BY ONLY <2>1, <2>2, Dropped
  <1>10. l = Label(r.pc, Len(w))
    BY <1>4, <1>9
  <1> HIDE DEF w, m
  <1>11. Tidy(r.labels, Len(w))
    BY ONLY <1>4, <1>8, <1>9, TidyLess
  <1>12. PICK g \in Nat : code[p + 1].op = "enter if" /\ code[p + 1].n = g /\ IfEnds(f, st, i, g)
    BY <1>2, <1>4, <1>6, IfGoes DEF ins
  <1>13. PICK y : /\ Runs(family, code, x, y) /\ y.ip = (IF Last(r.vals) = 0 THEN g ELSE p + 1 + 1) /\ y.lmem = x.lmem
                  /\ Match(r.labels, w, y)
    <2> DEFINE q == p + 1
    <2>1. /\ family \in Families /\ r.labels \in Seq(Labels) /\ r.vals \in Seq(Nat) /\ Match(r.labels, r.vals, x)
          /\ Tidy(r.labels, Len(r.vals)) /\ Len(r.labels) >= 1 /\ Last(r.labels).height < Len(r.vals)
      BY <1>2, <1>4, <1>8
    <2>a. q \in Nat /\ x.ip = q
      BY ONLY <1>4
    <2>b. code[q].op = "enter if" /\ g \in Nat /\ code[q].n = g
      BY <1>12
    <2> HIDE DEF q
    <2> DEFINE e == code[q]
    <2>2. q \in Nat /\ x.ip = q /\ e = code[q] /\ (e.op = "jump if not" \/ e.op = "enter if") /\ g \in Nat /\ e.n = g
      BY ONLY <2>a, <2>b
    <2> HIDE DEF e
    <2>3. \E y : /\ Runs(family, code, x, y) /\ y.ip = (IF Last(r.vals) = 0 THEN g ELSE q + 1) /\ y.lmem = x.lmem
                 /\ Match(r.labels, Front(r.vals), y)
      <3>1. \A lb \in Seq(Labels), vv \in Seq(Nat) : \A z :
              Match(lb, vv, z) /\ Tidy(lb, Len(vv)) /\ Len(lb) >= 1 /\ Last(lb).height < Len(vv) =>
                \A pp \in Nat, gg \in Nat : \A ee :
                  z.ip = pp /\ ee = code[pp] /\ (ee.op = "jump if not" \/ ee.op = "enter if") /\ ee.n = gg =>
                    \E y : /\ Runs(family, code, z, y) /\ y.ip = (IF Last(vv) = 0 THEN gg ELSE pp + 1) /\ y.lmem = z.lmem
                           /\ Match(lb, Front(vv), y)
        BY ONLY <2>1, ForksEach, Zenon
      <3> DEFINE lb == r.labels
                 vv == r.vals
      <3>2. /\ lb \in Seq(Labels) /\ vv \in Seq(Nat) /\ Match(lb, vv, x)
            /\ Tidy(lb, Len(vv)) /\ Len(lb) >= 1 /\ Last(lb).height < Len(vv)
        BY ONLY <2>1
      <3> HIDE DEF lb, vv
      <3>4. \A pp \in Nat, gg \in Nat : \A ee :
                  x.ip = pp /\ ee = code[pp] /\ (ee.op = "jump if not" \/ ee.op = "enter if") /\ ee.n = gg =>
                    \E y : /\ Runs(family, code, x, y) /\ y.ip = (IF Last(vv) = 0 THEN gg ELSE pp + 1) /\ y.lmem = x.lmem
                           /\ Match(lb, Front(vv), y)
        BY ONLY <3>1, <3>2, Zenon
      <3>3. \E y : /\ Runs(family, code, x, y) /\ y.ip = (IF Last(vv) = 0 THEN g ELSE q + 1) /\ y.lmem = x.lmem
                 /\ Match(lb, Front(vv), y)
        BY ONLY <2>2, <3>4, Zenon
      <3> QED BY <3>3 DEF lb, vv
    <2> QED BY <2>3 DEF w, q
  <1>14. Knows(family, y, r)
    BY <1>2, <1>13 DEF Knows
  <1>15. labs = Append(r.labels, Label(i, Len(w)))
    BY <1>4, <1>10
  <1> HIDE DEF labs
  <1>16. CASE Last(r.vals) # 0
    <2> DEFINE q == p + 1
               j == i + 1
    <2>a. /\ r \in Readings /\ w \in Seq(Nat) /\ Match(r.labels, w, y) /\ Tidy(r.labels, Len(w)) /\ Knows(family, y, r)
          /\ labs = Append(r.labels, Label(i, Len(w))) /\ i \in Nat
      BY <1>2, <1>4, <1>9, <1>11, <1>13, <1>14, <1>15
    <2>b. q \in Nat /\ st[j] = q + 3
      <3> DEFINE v == st[i + 1]
      <3>1. p \in Nat /\ v = p + 4
        BY <1>4, <1>6
      <3> HIDE DEF v
      <3>2. p + 1 \in Nat /\ v = p + 1 + 3
        BY ONLY <3>1
      <3> QED BY <3>2 DEF v
    <2>c. y.ip = q + 1
      BY <1>13, <1>16
    <2>d. Has(code, q, EnterBlock) /\ j \in 1 .. Len(prog) + 1
      BY <1>4, <1>7
    <2>e. f[j].live /\ f[j].labels = labs /\ f[j].height = Len(w)
      BY <1>5, <1>9 DEF labs
    <2> HIDE DEF q, j
    <2>2. Arrives(f, st, y, With(r, j, labs, w))
      BY <2>a, <2>b, <2>c, <2>d, <2>e, OpenArrives
    <2>3. ReadStep(r) = With(r, i + 1, labs, w)
      BY <1>3, <1>10, <1>16 DEF labs
    <2> QED BY <1>13, <2>2, <2>3, ArrivesOn DEF j
  <1>17. CASE Last(r.vals) = 0 /\ t # 0
    <2> DEFINE q == st[t] + 2
               j == t + 1
    <2>1. /\ g = st[t] + 3 /\ st[t] \in Nat /\ t + 1 \in 1 .. Len(prog) + 1 /\ st[t + 1] = st[t] + 5
          /\ Has(code, st[t] + 2, EnterBlock)
          /\ f[t + 1].live /\ f[t + 1].labels = f[i + 1].labels /\ f[t + 1].height = Last(f[i + 1].labels).height
      BY <1>12, <1>17 DEF IfEnds, t
    <2>2. Last(labs).height = m
      <3>1. l \in Labels /\ l.height = m
        BY <1>4, <1>8 DEF Label, Labels
      <3> HIDE DEF l
      <3>2. Last(Append(r.labels, l)) = l
        BY <1>4, <3>1, AppendBack
      <3> QED BY <3>1, <3>2 DEF labs
    <2>a. /\ r \in Readings /\ w \in Seq(Nat) /\ Match(r.labels, w, y) /\ Tidy(r.labels, Len(w)) /\ Knows(family, y, r)
          /\ labs = Append(r.labels, Label(i, Len(w))) /\ i \in Nat
      BY <1>2, <1>4, <1>9, <1>11, <1>13, <1>14, <1>15
    <2>b. q \in Nat /\ st[j] = q + 3 /\ g = q + 1
      BY ONLY <2>1
    <2>c. y.ip = q + 1
      BY <1>13, <1>17, <2>b
    <2>d. Has(code, q, EnterBlock) /\ j \in 1 .. Len(prog) + 1
      BY <2>1
    <2>e. f[j].live /\ f[j].labels = labs /\ f[j].height = Len(w)
      BY <1>5, <1>9, <2>1, <2>2 DEF labs
    <2> HIDE DEF q, j
    <2>4. Arrives(f, st, y, With(r, j, labs, w))
      BY <2>a, <2>b, <2>c, <2>d, <2>e, OpenArrives
    <2>5. ReadStep(r) = With(r, t + 1, labs, w)
      BY <1>3, <1>10, <1>17 DEF labs
    <2> QED BY <1>13, <2>4, <2>5, ArrivesOn DEF j
  <1>18. CASE Last(r.vals) = 0 /\ t = 0
    <2> DEFINE j == n + 1
               s == With(r, j, r.labels, w)
    <2>1. /\ g = st[n + 1] /\ n + 1 \in 1 .. Len(prog) + 1 /\ n \in Nat
          /\ f[n + 1].live /\ f[n + 1].labels = Front(f[i + 1].labels) /\ f[n + 1].height = Last(f[i + 1].labels).height
      BY <1>12, <1>18 DEF IfEnds, t, n
    <2>2. Last(labs).height = m /\ Front(labs) = r.labels
      <3>1. l \in Labels /\ l.height = m
        BY <1>4, <1>8 DEF Label, Labels
      <3> HIDE DEF l
      <3>2. Last(Append(r.labels, l)) = l /\ Front(Append(r.labels, l)) = r.labels
        BY <1>4, <3>1, AppendBack
      <3> QED BY <3>1, <3>2 DEF labs
    <2>3. EndOf(l) = n
      <3>1. l.at = i /\ i # 0
        BY <1>4 DEF Label
      <3> QED BY <3>1 DEF EndOf, n
    <2>4. ReadStep(r) = s
      BY <1>3, <1>10, <1>18, <2>3
    <2>5. j \in Nat
      BY <2>1
    <2>6. s \in Readings /\ s.pc = j /\ s.labels = r.labels /\ s.vals = w /\ s.locals = r.locals
      <3> HIDE DEF j
      <3>1. r \in Readings /\ j \in Nat /\ r.labels \in Seq(Labels) /\ w \in Seq(Nat)
        BY <1>2, <1>4, <1>9, <2>5
      <3>2. /\ With(r, j, r.labels, w) \in Readings /\ With(r, j, r.labels, w).pc = j
            /\ With(r, j, r.labels, w).labels = r.labels /\ With(r, j, r.labels, w).vals = w
            /\ With(r, j, r.labels, w).locals = r.locals
        BY ONLY <3>1, WithFacts
      <3> QED BY <3>2
    <2> HIDE DEF s
    <2>7. Knows(family, y, s)
      BY <1>14, <2>6 DEF Knows
    <2>8. /\ j \in 1 .. Len(prog) + 1 /\ s \in Readings /\ s.pc = j /\ s.labels = f[j].labels /\ Len(s.labels) >= 1
          /\ Len(s.vals) = f[j].height /\ f[j].live /\ Match(s.labels, s.vals, y) /\ Knows(family, y, s) /\ y.ip = st[j]
      BY <1>4, <1>5, <1>9, <1>13, <1>18, <2>1, <2>2, <2>6, <2>7
    <2> HIDE DEF j
    <2>9. Arrives(f, st, y, s)
      BY <2>8, NextArrives
    <2> QED BY <1>13, <2>4, <2>9, ArrivesOn
  <1> QED BY <1>16, <1>17, <1>18

-----------------------------------------------------------------------------
(* else and br_if.                                                         *)

LEMMA ElseArrives ==
  ASSUME NEW f, NEW st, Compiled(f, st), CleanFamily(family), NEW r, NEW x, Begins(f, st, r, x), prog[r.pc].op = "else"
  PROVE  Arrives(f, st, x, ReadStep(r))
PROOF
  <1> DEFINE i == r.pc
             p == st[i]
             ins == prog[i]
             d == ins.n
             l == Nth(f[i].labels, d)
             keep == TRUE
             q == p + 1 + Len(Leaving(d, keep))
  <1>1. /\ Context(f, st, i, p, ins, r, x) /\ Moves(prog, family, i, f[i], f[i + 1])
        /\ Shape(prog, closes, <<>>, code, st, phase, r.labels, i, Templates[i])
    BY BeginFacts
  <1>2. r \in Readings /\ Match(r.labels, r.vals, x) /\ Knows(family, x, r) /\ ins.op = "else"
    BY DEF Begins
  <1>3. ReadStep(r) = BranchTo(r, d, r.vals)
    BY <1>2, ReadStepIs
  <1> HIDE DEF i, p, ins
  <1>4. /\ family \in Families /\ p \in Nat /\ x.ip = p + 1 /\ Len(r.labels) >= 1 /\ Tidy(r.labels, Len(r.vals))
        /\ Len(r.vals) \in Nat /\ i \in 1 .. Len(prog) /\ Len(r.labels) \in Nat /\ Last(r.labels).height \in Nat
        /\ Len(r.vals) = f[i].height /\ r.labels = f[i].labels /\ r.labels \in Seq(Labels) /\ r.vals \in Seq(Nat)
        /\ Spare(f[i]) = Len(r.vals) - Last(r.labels).height /\ f[i].live /\ Last(r.labels) = r.labels[Len(r.labels)]
    BY <1>1 DEF Context
  <1>5. /\ d = 0 /\ Spare(f[i]) = Leaves(prog, family, Last(f[i].labels).at) /\ Last(f[i].labels).at # 0
        /\ Leaves(prog, family, Last(f[i].labels).at) \in family.elses /\ prog[Last(f[i].labels).at].op = "if"
    BY <1>1, <1>2, <1>4 DEF Moves, Context
  <1>6. l = Last(f[i].labels)
    BY <1>4, <1>5 DEF Nth
  <1>7. /\ Fix(<<>>, code, p, <<PopRdi>>)
        /\ Jump(prog, closes, <<>>, code, st, phase, p + 2, "jmp", Last(r.labels).at)
    BY <1>1, <1>2 DEF Shape, Context
  <1> HIDE DEF d, l
  <1>8. Leaves(prog, family, l.at) = 1
    BY <1>5, <1>6 DEF CleanFamily
  <1>9. Valued(prog, l.at) /\ Takes(prog, family, l.at) = 1
    BY <1>5, <1>6, <1>8 DEF Valued, Takes, Leaves
  <1>10. /\ d \in Nat /\ d \in 0 .. Len(f[i].labels) - 1 /\ Last(r.labels).height + Takes(prog, family, l.at) <= Len(r.vals)
    <2>1. d = 0 /\ Len(f[i].labels) \in Nat /\ Len(f[i].labels) >= 1
      BY <1>4, <1>5
    <2>2. d \in Nat /\ d \in 0 .. Len(f[i].labels) - 1
      BY ONLY <2>1
    <2> DEFINE b == Last(r.labels).height
               n == Len(r.vals)
               t == Takes(prog, family, l.at)
               sp == Spare(f[i])
    <2>3. b \in Nat /\ n \in Nat /\ t = 1 /\ sp = n - b /\ sp = 1
      BY <1>4, <1>5, <1>6, <1>8, <1>9
    <2> HIDE DEF b, n, t, sp
    <2>4. b + t <= n
      BY ONLY <2>3
    <2> QED BY <2>2, <2>4 DEF b, n, t
  <1>11. MayBranch(f, i, r, d, l, r.vals, x)
    BY <1>2, <1>4, <1>10 DEF MayBranch, l
  <1>12. keep \in BOOLEAN /\ (keep <=> Valued(prog, l.at))
    BY <1>9
  <1> HIDE DEF keep
  <1>13. Len(Leaving(d, keep)) = 1 /\ Has(code, p, Leaving(d, keep)) /\ q = p + 2
    <2>1. Len(Leaving(d, keep)) = d + IF keep THEN 1 ELSE 2
      BY <1>10, <1>12, LeavingFacts
    <2>2. Leaving(d, keep) \in Seq(Straight) /\ \A k \in 1 .. d + 1 : Leaving(d, keep)[k] = PopRdi
      BY <1>10, <1>12, LeavingFacts
    <2>3. Len(Leaving(d, keep)) = 1
      <3> DEFINE n == Len(Leaving(d, keep))
      <3>1. d = 0
        BY <1>5
      <3>2. keep
        BY DEF keep
      <3>3. n = d + 1
        BY <2>1, <3>2
      <3> HIDE DEF n
      <3>4. n = 1
        BY ONLY <3>1, <3>3
      <3> QED BY <3>4 DEF n
    <2>4. Leaving(d, keep)[1] = PopRdi
      BY <1>5, <2>2
    <2>5. code[p + 1] = PopRdi
      BY <1>7, FixHas, HasOne
    <2>6. Has(code, p, Leaving(d, keep))
      <3> SUFFICES ASSUME NEW k \in 1 .. Len(Leaving(d, keep)) PROVE code[p + k] = Leaving(d, keep)[k]
        BY DEF Has
      <3>1. k = 1
        BY <2>3
      <3> QED BY <2>4, <2>5, <3>1
    <2>7. q = p + 2
      BY ONLY <1>4, <2>3
    <2> QED BY <2>3, <2>6, <2>7
  <1>14. Jump(prog, closes, <<>>, code, st, phase, q, "jmp", l.at)
    BY <1>4, <1>6, <1>7, <1>13
  <1>15. q = p + 1 + Len(Leaving(d, keep))
    OBVIOUS
  <1> HIDE DEF q
  <1>16. Arrives(f, st, x, BranchTo(r, d, r.vals))
    BY <1>4, <1>11, <1>12, <1>13, <1>14, <1>15, BranchRuns
  <1> QED BY <1>3, <1>16

LEMMA BrIfArrives ==
  ASSUME NEW f, NEW st, Compiled(f, st), CleanFamily(family), NEW r, NEW x, Begins(f, st, r, x), prog[r.pc].op = "br_if"
  PROVE  Arrives(f, st, x, ReadStep(r))
PROOF
  <1> DEFINE i == r.pc
             p == st[i]
             ins == prog[i]
             d == ins.n
             l == Nth(f[i].labels, d)
             keep == Valued(prog, l.at)
             w == Front(r.vals)
             a == p + 1
             g == p + Len(Leaving(d, keep)) + 3
             s == With(r, i + 1, r.labels, w)
  <1>1. /\ Context(f, st, i, p, ins, r, x) /\ Moves(prog, family, i, f[i], f[i + 1])
        /\ Shape(prog, closes, <<>>, code, st, phase, r.labels, i, Templates[i])
    BY BeginFacts
  <1>2. r \in Readings /\ Match(r.labels, r.vals, x) /\ Knows(family, x, r) /\ ins.op = "br_if"
    BY DEF Begins
  <1>3. ReadStep(r) = IF Last(r.vals) # 0 THEN BranchTo(r, d, w) ELSE s
    BY <1>2, ReadStepIs
  <1> HIDE DEF i, p, ins
  <1>4. /\ family \in Families /\ p \in Nat /\ x.ip = p + 1 /\ Len(r.labels) >= 1 /\ Tidy(r.labels, Len(r.vals))
        /\ Len(r.vals) \in Nat /\ i \in 1 .. Len(prog) /\ Len(r.labels) \in Nat /\ Last(r.labels).height \in Nat
        /\ Len(r.vals) = f[i].height /\ r.labels = f[i].labels /\ r.labels \in Seq(Labels) /\ r.vals \in Seq(Nat)
        /\ Spare(f[i]) = Len(r.vals) - Last(r.labels).height /\ f[i].live /\ i \in Nat /\ i + 1 \in 1 .. Len(prog) + 1
    BY <1>1 DEF Context
  <1>5. Branches(prog, family, f[i], d, 1) /\ f[i + 1].live /\ f[i + 1].height = f[i].height - 1 /\ f[i + 1].labels = f[i].labels
    BY <1>1, <1>2 DEF Moves, Context
  <1>6. d \in 0 .. Len(f[i].labels) - 1 /\ Spare(f[i]) >= Takes(prog, family, l.at) + 1
    BY <1>5 DEF Branches
  <1>7. /\ Fix(<<>>, code, p, <<Ins("jump if not", g)>>) /\ Fix(<<>>, code, p + 1, Leaving(d, keep))
        /\ Jump(prog, closes, <<>>, code, st, phase, p + Len(Leaving(d, keep)) + 2, "jmp", l.at)
        /\ st[i + 1] = g
    BY <1>1, <1>2, <1>4 DEF Shape, Context
  <1>8. keep \in BOOLEAN
    BY DEF Valued
  <1> HIDE DEF l, keep, d
  <1>9. d \in Nat /\ Len(Leaving(d, keep)) \in Nat
    <2>1. d \in Nat
      BY <1>4, <1>6
    <2> QED BY <1>8, <2>1, LeavingFacts
  <1>10. Takes(prog, family, l.at) \in {0, 1}
    <2>1. Inside(f, i, d, l)
      BY <1>4, <1>6, LabelIs DEF l
    <2>2. family.arity \in {0, 1}
      BY <1>4, FamilyFacts DEF FnArity
    <2> QED BY <2>1, <2>2 DEF Takes, Leaves, Inside
  <1>11. Last(r.labels).height < Len(r.vals) /\ Last(r.labels).height + Takes(prog, family, l.at) <= Len(r.vals) - 1
         /\ Last(r.labels).height <= Len(r.vals) - 1 /\ Len(r.vals) - 1 \in Nat /\ Len(r.vals) - 1 <= Len(r.vals)
    <2> DEFINE b == Last(r.labels).height
               n == Len(r.vals)
               t == Takes(prog, family, l.at)
               sp == Spare(f[i])
    <2>1. b \in Nat /\ n \in Nat /\ t \in {0, 1} /\ sp = n - b /\ sp >= t + 1
      BY <1>4, <1>6, <1>10
    <2> HIDE DEF b, n, t, sp
    <2>2. b < n /\ b + t <= n - 1 /\ b <= n - 1 /\ n - 1 \in Nat /\ n - 1 <= n
      BY ONLY <2>1
    <2> QED BY <2>2 DEF b, n, t
  <1>12. w \in Seq(Nat) /\ Len(w) = Len(r.vals) - 1
    <2> DEFINE zero == 0
    <2>1. zero \in Nat
      OBVIOUS
    <2> HIDE DEF zero
    <2>2. /\ family \in Families /\ r.labels \in Seq(Labels) /\ r.vals \in Seq(Nat) /\ Match(r.labels, r.vals, x)
          /\ Tidy(r.labels, Len(r.vals)) /\ Len(r.labels) >= 1 /\ Last(r.labels).height < Len(r.vals)
      BY <1>2, <1>4, <1>11
    <2> QED BY ONLY <2>1, <2>2, Dropped
  <1> HIDE DEF w
  <1>13. Tidy(r.labels, Len(w))
    BY ONLY <1>4, <1>11, <1>12, TidyLess
  <1>14. g \in Nat /\ a \in Nat
    BY <1>4, <1>9
  <1>15. code[a].op = "jump if not" /\ code[a].n = g
    <2> HIDE DEF g
    <2>1. code[a] = Ins("jump if not", g)
      BY <1>7, FixHas, HasOne
    <2> QED BY <2>1, InsFields
  <1>16. PICK y : /\ Runs(family, code, x, y) /\ y.ip = (IF Last(r.vals) = 0 THEN g ELSE a + 1) /\ y.lmem = x.lmem
                  /\ Match(r.labels, w, y)
    <2> HIDE DEF a, g
    <2> DEFINE lb == r.labels
               vv == r.vals
               e == code[a]
    <2>1. /\ family \in Families /\ lb \in Seq(Labels) /\ vv \in Seq(Nat) /\ Match(lb, vv, x)
          /\ Tidy(lb, Len(vv)) /\ Len(lb) >= 1 /\ Last(lb).height < Len(vv)
      BY <1>2, <1>4, <1>11
    <2>2. a \in Nat /\ g \in Nat /\ x.ip = a /\ e = code[a] /\ (e.op = "jump if not" \/ e.op = "enter if") /\ e.n = g
      BY <1>4, <1>14, <1>15 DEF a
    <2> HIDE DEF lb, vv, e
    <2>3. \A pp \in Nat, gg \in Nat : \A ee :
                  x.ip = pp /\ ee = code[pp] /\ (ee.op = "jump if not" \/ ee.op = "enter if") /\ ee.n = gg =>
                    \E y : /\ Runs(family, code, x, y) /\ y.ip = (IF Last(vv) = 0 THEN gg ELSE pp + 1) /\ y.lmem = x.lmem
                           /\ Match(lb, Front(vv), y)
      BY ONLY <2>1, Forks
    <2>4. \E y : /\ Runs(family, code, x, y) /\ y.ip = (IF Last(vv) = 0 THEN g ELSE a + 1) /\ y.lmem = x.lmem
                 /\ Match(lb, Front(vv), y)
      BY ONLY <2>2, <2>3, Zenon
    <2> QED BY <2>4 DEF lb, vv, w
  <1>17. Knows(family, y, r)
    BY <1>2, <1>16 DEF Knows
  <1>18. CASE Last(r.vals) # 0
    <2> DEFINE q == a + 1 + Len(Leaving(d, keep))
    <2>1. MayBranch(f, i, r, d, l, w, y)
      <3>1. Len(w) <= f[i].height /\ Last(r.labels).height + Takes(prog, family, l.at) <= Len(w)
        BY <1>4, <1>11, <1>12
      <3> QED BY <1>2, <1>4, <1>6, <1>12, <1>13, <1>16, <1>17, <3>1 DEF MayBranch, l
    <2>2. keep \in BOOLEAN /\ (keep <=> Valued(prog, l.at))
      BY <1>8 DEF keep
    <2>3. Has(code, a, Leaving(d, keep))
      BY <1>7, FixHas
    <2>4. q = p + Len(Leaving(d, keep)) + 2
      BY ONLY <1>4, <1>9
    <2>5. Jump(prog, closes, <<>>, code, st, phase, q, "jmp", l.at)
      BY <1>7, <2>4
    <2>6. y.ip = a + 1 /\ q = a + 1 + Len(Leaving(d, keep))
      BY <1>16, <1>18
    <2> HIDE DEF q, a
    <2>7. Arrives(f, st, y, BranchTo(r, d, w))
      BY <1>4, <1>14, <2>1, <2>2, <2>3, <2>5, <2>6, BranchRuns
    <2> QED BY <1>3, <1>16, <1>18, <2>7, ArrivesOn
  <1>19. CASE Last(r.vals) = 0
    <2> DEFINE j == i + 1
    <2>1. s \in Readings /\ s.pc = j /\ s.labels = r.labels /\ s.vals = w /\ s.locals = r.locals
      <3>1. r \in Readings /\ j \in Nat /\ r.labels \in Seq(Labels) /\ w \in Seq(Nat)
        BY <1>2, <1>4, <1>12
      <3> HIDE DEF j
      <3>2. /\ With(r, j, r.labels, w) \in Readings /\ With(r, j, r.labels, w).pc = j
            /\ With(r, j, r.labels, w).labels = r.labels /\ With(r, j, r.labels, w).vals = w
            /\ With(r, j, r.labels, w).locals = r.locals
        BY ONLY <3>1, WithFacts
      <3> QED BY <3>2 DEF j
    <2> HIDE DEF s
    <2>2. Knows(family, y, s)
      BY <1>17, <2>1 DEF Knows
    <2>3. /\ j \in 1 .. Len(prog) + 1 /\ s \in Readings /\ s.pc = j /\ s.labels = f[j].labels /\ Len(s.labels) >= 1
          /\ Len(s.vals) = f[j].height /\ f[j].live /\ Match(s.labels, s.vals, y) /\ Knows(family, y, s) /\ y.ip = st[j]
      BY <1>4, <1>5, <1>7, <1>12, <1>16, <1>19, <2>1, <2>2
    <2> HIDE DEF j
    <2>4. Arrives(f, st, y, s)
      BY <2>3, NextArrives
    <2> QED BY <1>3, <1>16, <1>19, <2>4, ArrivesOn
  <1> QED BY <1>18, <1>19

-----------------------------------------------------------------------------
(* br_table.                                                               *)

LEMMA SavedLast ==
  ASSUME family \in Families, NEW labs \in Seq(Labels), NEW h \in Nat, Tidy(labs, h), NEW d \in 0 .. Len(labs) - 1,
         NEW kept, kept = Upto(Saved(labs), Len(Saved(labs)) - d)
  PROVE  Last(kept) = Base + Nth(labs, d).height + (Len(labs) - d) /\ Front(kept) = Saved(Left(labs, d))
PROOF
  <1> DEFINE n == Len(labs)
             sv == Saved(labs)
             j == n - d
             k == j - 1
  <1>1. n \in Nat /\ d \in Nat /\ j \in 1 .. n /\ k \in 0 .. n /\ Nth(labs, d) = labs[j]
    BY LeftFacts
  <1>2. sv \in Seq(Nat) /\ Len(sv) = n + 1 /\ \A u \in 1 .. n : sv[u + 1] = Base + labs[u].height + u
    BY SavedFacts
  <1> HIDE DEF sv, n, j, k
  <1>3. j + 1 \in 0 .. Len(sv) /\ Len(sv) - d = j + 1 /\ j + 1 \in 1 .. j + 1 /\ j + 1 >= 1 /\ j + 1 \in Nat
        /\ j \in 0 .. Len(sv) /\ k + 1 = j /\ j + 1 - 1 = j /\ j \in Nat
    BY ONLY <1>1, <1>2 DEF j, k
  <1>4. kept = Upto(sv, j + 1)
    BY <1>3 DEF sv
  <1>5. kept \in Seq(Nat) /\ Len(kept) = j + 1 /\ \A u \in 1 .. j + 1 : kept[u] = sv[u]
    BY ONLY <1>2, <1>3, <1>4, UptoFacts
  <1>6. Last(kept) = Base + labs[j].height + j
    BY ONLY <1>1, <1>2, <1>3, <1>5 DEF Last
  <1>7. Upto(sv, j) \in Seq(Nat) /\ Len(Upto(sv, j)) = j /\ \A u \in 1 .. j : Upto(sv, j)[u] = sv[u]
    BY ONLY <1>2, <1>3, UptoFacts
  <1>8. Front(kept) = Upto(sv, j)
    <2> DEFINE a == Front(kept)
               b == Upto(sv, j)
    <2>1. a \in Seq(Nat) /\ Len(a) = j /\ \A u \in 1 .. j : a[u] = kept[u]
      BY ONLY <1>3, <1>5 DEF Front
    <2>2. b \in Seq(Nat) /\ Len(b) = j /\ \A u \in 1 .. j : b[u] = sv[u]
      BY <1>7
    <2> HIDE DEF a, b
    <2>3. \A u \in 1 .. j : a[u] = b[u]
      <3> TAKE u \in 1 .. j
      <3>1. u \in 1 .. j + 1
        BY <1>3
      <3> QED BY <1>5, <2>1, <2>2, <3>1
    <2>4. a = b
      BY ONLY <1>3, <2>1, <2>2, <2>3
    <2> QED BY <2>4 DEF a, b
  <1>9. Upto(sv, k + 1) = Saved(Upto(labs, k))
    BY <1>1, SavedUpto DEF sv, n
  <1>10. Upto(labs, k) = Left(labs, d)
    BY DEF Left, k, j, n
  <1> QED BY <1>1, <1>3, <1>6, <1>8, <1>9, <1>10 DEF j, n

\* Where a br_table leaves the machine.
TableEnd(x, labs, d, h, k, g) ==
    LET q == Base + (h + (Len(labs) - d - 1))
        q1 == Base + (h + (Len(labs) - d))
    IN  IF k = 1 THEN Core(g, x.mem[x.rdi - 1], x.rcx, q1, 0, x.mem, x.lmem, Saved(Left(labs, d)))
                 ELSE Core(g, x.mem[q], x.rcx, q, 0, x.mem, x.lmem, Saved(Left(labs, d)))

\* The entry that the operand v selects.
Chosen(ins, v) == ins.ts[IF v < Len(ins.ts) - 1 THEN v + 2 ELSE 1]

LEMMA TableRuns ==
  ASSUME family \in Families, NEW labs \in Seq(Labels), NEW vals \in Seq(Nat), NEW x, Match(labs, vals, x),
         Tidy(labs, Len(vals)), NEW d \in 0 .. Len(labs) - 1, NEW ins, ins = code[x.ip], ins.op = "br table",
         NEW v, v = x.rax, NEW e, e = Chosen(ins, v), e.dist = d, NEW g, e.addr = g,
         NEW h, h = Nth(labs, d).height, NEW k, ins.n = k,
         NEW y, y = TableEnd(x, labs, d, h, k, g)
  PROVE  Runs(family, code, x, y)
PROOF
  <1> DEFINE kept == Upto(x.native, Len(x.native) - e.dist)
             q == Base + (Nth(labs, d).height + (Len(labs) - d - 1))
             q1 == Base + (Nth(labs, d).height + (Len(labs) - d))
  <1>0. /\ y = IF ins.n = 1 THEN Core(g, x.mem[x.rdi - 1], x.rcx, q1, 0, x.mem, x.lmem, Saved(Left(labs, d)))
                           ELSE Core(g, x.mem[q], x.rcx, q, 0, x.mem, x.lmem, Saved(Left(labs, d)))
        /\ e = ins.ts[IF x.rax < Len(ins.ts) - 1 THEN x.rax + 2 ELSE 1]
        /\ q = Base + (Nth(labs, d).height + (Len(labs) - d - 1))
        /\ q1 = Base + (Nth(labs, d).height + (Len(labs) - d))
    BY DEF TableEnd, Chosen
  <1> HIDE DEF q, q1
  <1>1. x.native = Saved(labs) /\ x.rbx = 0
    BY DEF Match
  <1>2. Last(kept) = Base + Nth(labs, d).height + (Len(labs) - d) /\ Front(kept) = Saved(Left(labs, d))
    <2>1. Len(vals) \in Nat
      <3>1. vals \in Seq(Nat)
        OBVIOUS
      <3> QED BY ONLY <3>1
    <2>2. kept = Upto(Saved(labs), Len(Saved(labs)) - d)
      BY <1>1
    <2> HIDE DEF kept
    <2> QED BY <2>1, <2>2, SavedLast
  <1>3. Last(kept) = q1 /\ Last(kept) - 1 = q
    <2> DEFINE hgt == Nth(labs, d).height
               n == Len(labs) - d
               z == Last(kept)
    <2>1. hgt \in Nat /\ n \in Nat /\ z = Base + hgt + n /\ q1 = Base + (hgt + n) /\ q = Base + (hgt + (n - 1)) /\ Base = 1
      <3>1. Len(vals) \in Nat
        <4>1. vals \in Seq(Nat)
          OBVIOUS
        <4> QED BY ONLY <4>1
      <3>2. Nth(labs, d).height \in 0 .. Len(vals) /\ Len(labs) - d \in 1 .. Len(labs) /\ Len(labs) \in Nat
        BY <3>1, LeftFacts
      <3>3. hgt \in Nat /\ n \in Nat /\ Base = 1
        BY ONLY <3>1, <3>2 DEF Base
      <3>4. z = Base + hgt + n
        BY <1>2
      <3>5. q1 = Base + (hgt + n)
        BY <1>0
      <3>6. q = Base + (hgt + (n - 1))
        BY <1>0
      <3> QED BY ONLY <3>3, <3>4, <3>5, <3>6
    <2> HIDE DEF hgt, n, z
    <2>2. z = q1 /\ z - 1 = q
      BY ONLY <2>1
    <2> QED BY <2>2 DEF z
  <1>4. Tabled(ins, x) = y
    <2> HIDE DEF kept
    <2>1. Tabled(ins, x) = Core(e.addr, IF ins.n = 1 THEN x.mem[x.rdi - 1] ELSE x.mem[Last(kept) - 1], x.rcx,
             IF ins.n = 1 THEN Last(kept) ELSE Last(kept) - 1, x.rbx, x.mem, x.lmem, Front(kept))
      BY <1>0 DEF Tabled, kept
    <2>2. Tabled(ins, x) = Core(g, IF ins.n = 1 THEN x.mem[x.rdi - 1] ELSE x.mem[q], x.rcx,
             IF ins.n = 1 THEN q1 ELSE q, 0, x.mem, x.lmem, Saved(Left(labs, d)))
      BY <1>1, <1>2, <1>3, <2>1
    <2>3. CASE ins.n = 1
      BY <1>0, <2>2, <2>3
    <2>4. CASE ins.n # 1
      BY <1>0, <2>2, <2>4
    <2> QED BY <2>3, <2>4
  <1> HIDE DEF kept
  <1>5. y = Tabled(ins, x)
    BY <1>4
  <1>6. Does(family, ins, x, y)
    BY <1>5 DEF Does
  <1>7. ins.op \in Working /\ ins.op # "pop rdi"
    BY DEF Working
  <1>8. Goes1(family, code, x, y)
    BY <1>6, <1>7 DEF Goes1, Going
  <1> QED BY ONLY <1>8, RunsOne

\* What the table says of the entry that the operand v selects.
TableSays(f, st, i, c, v, d) ==
    LET e == c.ts[IF v < Len(c.ts) - 1 THEN v + 2 ELSE 1]
        l == Nth(f[i].labels, d)
        l0 == Nth(f[i].labels, prog[i].n)
    IN  /\ c.op = "br table" /\ c.n = (IF Valued(prog, l0.at) THEN 1 ELSE 0)
        /\ e.dist = d /\ e.addr = Aim(st, l.at)
        /\ d = (IF v < Len(prog[i].ts) THEN prog[i].ts[v + 1] ELSE prog[i].n)
        /\ Branches(prog, family, f[i], d, 1) /\ prog[i].n \in 0 .. Len(f[i].labels) - 1
        /\ Takes(prog, family, l.at) = Takes(prog, family, l0.at)

LEMMA TableGoes ==
  ASSUME NEW f, NEW st, Compiled(f, st), NEW i \in 1 .. Len(prog), prog[i].op = "br_table", NEW v \in Nat,
         Moves(prog, family, i, f[i], f[i + 1]),
         Shape(prog, closes, <<>>, code, st, phase, f[i].labels, i, Templates[i]), prog[i] \in Bytecode
  PROVE  /\ \E d : TableSays(f, st, i, code[st[i] + 1], v, d)
         /\ "br_table" \in family.branches /\ st[i + 1] = st[i] + 2
PROOF
  <1> DEFINE p == st[i]
             ins == prog[i]
             c == code[p + 1]
             n == Len(ins.ts)
             d == IF v < n THEN ins.ts[v + 1] ELSE ins.n
             k == IF v < n THEN v + 2 ELSE 1
             labs == f[i].labels
             l == Nth(labs, d)
             l0 == Nth(labs, ins.n)
  <1>1. /\ "br_table" \in family.branches /\ Branches(prog, family, f[i], ins.n, 1)
        /\ \A u \in 1 .. n :
                    /\ Branches(prog, family, f[i], ins.ts[u], 1)
                    /\ Takes(prog, family, Nth(labs, ins.ts[u]).at) = Takes(prog, family, Nth(labs, ins.n).at)
    BY DEF Moves
  <1>2. /\ c.op = "br table" /\ c.n = (IF Valued(prog, l0.at) THEN 1 ELSE 0) /\ Len(c.ts) = n + 1 /\ st[i + 1] = p + 2
        /\ \A u \in 1 .. n + 1 : /\ c.ts[u].dist = Dist(ins, u)
                                 /\ Goes(prog, closes, <<>>, code, st, phase, p + 1, u, Nth(labs, Dist(ins, u)).at)
    BY DEF Shape
  <1>3. n \in Nat
    BY DEF Bytecode
  <1> HIDE DEF n, p, ins, c, labs
  <1>4. k \in 1 .. n + 1 /\ k \in Nat /\ k # 0 /\ (v < n => k # 1 /\ k - 1 = v + 1 /\ v + 1 \in 1 .. n) /\ (~(v < n) => k = 1)
    BY <1>3
  <1> HIDE DEF k
  <1>5. Dist(ins, k) = d
    BY <1>4 DEF Dist
  <1>6. Branches(prog, family, f[i], d, 1) /\ Takes(prog, family, l.at) = Takes(prog, family, l0.at)
    BY <1>1, <1>4
  <1> HIDE DEF d
  <1>7. c.ts[k].dist = d /\ Goes(prog, closes, <<>>, code, st, phase, p + 1, k, l.at)
    BY <1>2, <1>4, <1>5
  <1>8. d \in 0 .. Len(f[i].labels) - 1 /\ ins.n \in 0 .. Len(f[i].labels) - 1
    BY <1>1, <1>6 DEF Branches
  <1>9. Aim(st, l.at) # 0 /\ Goal(prog, closes, st, phase, "br table", l.at) = Aim(st, l.at)
    BY <1>8, AimIs DEF labs
  <1> HIDE DEF l, l0
  <1>10. Written(code, p + 1, k) = Aim(st, l.at)
    BY <1>2, <1>7, <1>9 DEF Goes, c
  <1>11. c.ts[k].addr = Aim(st, l.at)
    BY <1>4, <1>10 DEF Written, c
  <1>12. k = IF v < Len(c.ts) - 1 THEN v + 2 ELSE 1
    <2> DEFINE m == Len(c.ts)
    <2>1. m = n + 1
      BY <1>2
    <2> HIDE DEF m
    <2>2. m - 1 = n
      BY ONLY <2>1, <1>3
    <2> QED BY <2>2 DEF k, m
  <1>13. TableSays(f, st, i, code[st[i] + 1], v, d)
    <2>1. TableSays(f, st, i, c, v, d)
      <3> DEFINE e == c.ts[k]
      <3>1. e = c.ts[IF v < Len(c.ts) - 1 THEN v + 2 ELSE 1] /\ e.dist = d /\ e.addr = Aim(st, l.at)
        BY <1>7, <1>11, <1>12
      <3>2. d = IF v < Len(prog[i].ts) THEN prog[i].ts[v + 1] ELSE prog[i].n
        BY DEF d, n, ins
      <3> HIDE DEF e
      <3> QED BY <1>2, <1>6, <1>8, <3>1, <3>2 DEF TableSays, l, l0, labs, ins
    <2> QED BY <2>1 DEF c, p
  <1> QED BY <1>1, <1>2, <1>13 DEF p

\* After a br_table the operands are those under the block that is left last, and what it takes.
Settled(labs, d, w, x, y, g, k) ==
    /\ Match(Left(labs, d), w, y) /\ y.ip = g /\ y.lmem = x.lmem /\ y.native = Saved(Left(labs, d))
    /\ y = Core(y.ip, y.rax, y.rcx, y.rdi, y.rbx, y.mem, y.lmem, y.native)
    /\ k = 1 => y.rax = Last(w)

LEMMA TableMatch ==
  ASSUME family \in Families, NEW labs \in Seq(Labels), NEW vals \in Seq(Nat), NEW x, Match(labs, vals, x),
         Tidy(labs, Len(vals)), Len(labs) >= 1, Last(labs).height < Len(vals), NEW d \in 0 .. Len(labs) - 1,
         NEW h, h = Nth(labs, d).height, NEW t \in {0, 1}, Last(labs).height + t <= Len(vals) - 1,
         NEW w, Carries(Front(vals), h, t, w), NEW g \in Nat,
         NEW y, y = TableEnd(x, labs, d, h, t, g)
  PROVE  Settled(labs, d, w, x, y, g, t)
PROOF
  <1> DEFINE zero == 0
             cx == x.rcx
             q == Base + (h + (Len(labs) - d - 1))
             q1 == Base + (h + (Len(labs) - d))
             v == Front(vals)
             a == x.mem[x.rdi - 1]
             x1 == Core(zero, a, x.rcx, x.rdi - 1, x.rbx, x.mem, x.lmem, x.native)
  <1>1. zero \in Nat
    OBVIOUS
  <1> HIDE DEF zero
  <1>2. /\ Match(labs, v, x1) /\ v \in Seq(Nat) /\ Len(v) = Len(vals) - 1 /\ Len(vals) \in Nat
    BY <1>1, Dropped
  <1>3. x1.mem = x.mem /\ x1.lmem = x.lmem /\ x1.rax = a
    BY DEF Core
  <1>4. Last(labs).height \in Nat
    <2>1. Len(labs) \in 1 .. Len(labs) /\ Last(labs) = labs[Len(labs)]
      BY LabelsAre DEF Last
    <2> QED BY <2>1, LabelsAre
  <1> HIDE DEF v, a, x1
  <1>5. Last(labs).height <= Len(v) /\ Last(labs).height + t <= Len(v) /\ Len(v) \in Nat /\ Len(v) <= Len(vals)
    <2> DEFINE b == Last(labs).height
               n == Len(vals)
               m == Len(v)
    <2>1. b \in Nat /\ n \in Nat /\ m = n - 1 /\ b < n /\ b + t <= n - 1 /\ t \in {0, 1}
      BY <1>2, <1>4
    <2> HIDE DEF b, n, m
    <2>2. b <= m /\ b + t <= m /\ m \in Nat /\ m <= n
      BY ONLY <2>1
    <2> QED BY <2>2 DEF b, n, m
  <1>6. Tidy(labs, Len(v))
    BY <1>5, TidyLess
  <1>7. w \in Seq(Nat) /\ Len(w) = h + t /\ Starts(w, v, h) /\ (t = 1 => Last(w) = Last(v))
    BY DEF Carries, v
  <1>8. h \in Nat
    <2> DEFINE n == Len(vals)
    <2>1. family \in Families /\ labs \in Seq(Labels) /\ n \in Nat /\ Tidy(labs, n) /\ d \in 0 .. Len(labs) - 1
      BY <1>2
    <2> HIDE DEF n
    <2>2. Nth(labs, d).height \in 0 .. n
      BY ONLY <2>1, LeftFacts
    <2> QED BY <2>1, <2>2
  <1>9. CASE t = 1
    <2>1. y = Core(g, a, cx, q1, 0, x.mem, x.lmem, Saved(Left(labs, d)))
      BY <1>9 DEF a, TableEnd
    <2>2. Last(labs).height < Len(v)
      BY <1>4, <1>5, <1>9
    <2>3. x1.rax = Last(v) /\ x1.rax \in Nat
      BY <1>2, <1>6, <2>2, TopValue
    <2>4. a \in Nat /\ Last(w) = a
      BY <1>3, <1>7, <1>9, <2>3
    <2>5. Len(w) = h + 1
      BY <1>7, <1>9
    <2>6. Match(Left(labs, d), w, Core(g, a, cx, Base + (Nth(labs, d).height + (Len(labs) - d)), 0, x1.mem, x1.lmem, Saved(Left(labs, d))))
      BY <1>2, <1>6, <1>7, <2>4, <2>5, SettlesOne
    <2>7. Match(Left(labs, d), w, y)
      BY <1>3, <2>1, <2>6
    <2> QED BY <1>9, <2>1, <2>4, <2>7 DEF Core, Settled
  <1>10. CASE t = 0
    <2>1. y = Core(g, x.mem[q], cx, q, 0, x.mem, x.lmem, Saved(Left(labs, d)))
      BY <1>10 DEF TableEnd
    <2>2. Len(w) = h
      BY <1>7, <1>8, <1>10
    <2>3. Match(Left(labs, d), w, Core(g, x1.mem[q], cx, q, 0, x1.mem, x1.lmem, Saved(Left(labs, d))))
      BY <1>2, <1>6, <1>7, <2>2, SettlesNone
    <2>4. Match(Left(labs, d), w, y)
      BY <1>3, <2>1, <2>3
    <2> QED BY <1>10, <2>1, <2>4 DEF Core, Settled
  <1> QED BY <1>9, <1>10

\* The operand of a br_table is the number of values that its targets take.
LEMMA TableTakes ==
  ASSUME NEW f, NEW st, Compiled(f, st), CleanFamily(family), "br_table" \in family.branches, NEW i \in 1 .. Len(prog),
         NEW n \in 0 .. Len(f[i].labels) - 1, NEW l, l = Nth(f[i].labels, n)
  PROVE  Takes(prog, family, l.at) = IF Valued(prog, l.at) THEN 1 ELSE 0
PROOF
  <1>1. Inside(f, i, n, l)
    BY LabelIs
  <1>2. family.arity = 1 /\ <<"loop", 1>> \notin family.openers
    BY DEF CleanFamily
  <1>3. CASE l.at = 0
    BY <1>2, <1>3 DEF Takes, Leaves, Valued
  <1>4. CASE l.at # 0
    <2>1. prog[l.at].n \in {0, 1} /\ <<prog[l.at].op, prog[l.at].n>> \in family.openers
      BY <1>1, <1>4 DEF Inside
    <2>2. prog[l.at].op = "loop" => prog[l.at].n = 0
      BY <1>2, <2>1
    <2> QED BY <1>4, <2>1, <2>2 DEF Takes, Leaves, Valued
  <1> QED BY <1>3, <1>4

\* A branch out of the function arrives at its ret.
LEMMA FnLands ==
  ASSUME NEW f, NEW st, Compiled(f, st), NEW i \in 1 .. Len(prog), NEW r, NEW d, NEW l, NEW vs, NEW x,
         MayBranch(f, i, r, d, l, vs, x), l.at = 0,
         NEW y, y = Core(y.ip, y.rax, y.rcx, y.rdi, y.rbx, y.mem, y.lmem, y.native), y.ip = Aim(st, l.at), y.lmem = x.lmem,
         y.native = Saved(Left(r.labels, d)), NEW s, s = BranchTo(r, d, vs), FnArity = 1 => y.rax = Last(s.vals)
  PROVE  Arrives(f, st, y, s)
PROOF
  <1>1. /\ Len(r.labels) \in Nat /\ Len(r.labels) >= 1 /\ r.labels \in Seq(Labels) /\ Inside(f, i, d, l)
        /\ Branched(r, d, l, vs, s) /\ family \in Families /\ Len(vs) \in Nat
    BY BranchFacts
  <1>2. r.labels = f[i].labels /\ Tidy(r.labels, Len(vs)) /\ Knows(family, x, r)
    BY DEF MayBranch
  <1>3. d = Len(r.labels) - 1
    BY <1>1, <1>2 DEF Inside
  <1>4. Saved(Left(r.labels, d)) = <<RetAddr>>
    BY <1>1, <1>2, <1>3, FnLeft
  <1>5. ~IsLoop(l) /\ EndOf(l) = Len(prog) /\ Aim(st, l.at) = st[Len(prog) + 1]
    BY DEF IsLoop, EndOf, Aim, LoopAt
  <1>6. s \in Readings /\ s.locals = r.locals /\ s.pc = Len(prog) + 1
    BY <1>1, <1>5 DEF Branched
  <1>7. code[y.ip].op = "ret"
    BY <1>5, LastPoint
  <1>8. Returns(s, y)
    BY <1>4, <1>6, <1>7 DEF Returns
  <1>9. Knows(family, y, s)
    BY <1>2, <1>6 DEF Knows
  <1>10. Arrived(f, st, s, y)
    BY <1>6, <1>8, <1>9 DEF Arrived
  <1>11. Runs(family, code, y, y)
    BY RunsNot
  <1> QED BY <1>10, <1>11 DEF Arrives

LEMMA BrTableArrives ==
  ASSUME NEW f, NEW st, Compiled(f, st), CleanFamily(family), NEW r, NEW x, Begins(f, st, r, x), prog[r.pc].op = "br_table"
  PROVE  Arrives(f, st, x, ReadStep(r))
PROOF
  <1> DEFINE i == r.pc
             p == st[i]
             ins == prog[i]
             c == code[p + 1]
             w0 == Front(r.vals)
             v == Last(r.vals)
             zero == 0
  <1>1. /\ Context(f, st, i, p, ins, r, x) /\ Moves(prog, family, i, f[i], f[i + 1])
        /\ Shape(prog, closes, <<>>, code, st, phase, r.labels, i, Templates[i])
    BY BeginFacts
  <1>2. r \in Readings /\ Match(r.labels, r.vals, x) /\ Knows(family, x, r) /\ ins.op = "br_table"
    BY DEF Begins
  <1>3. ReadStep(r) = BranchTo(r, IF v < Len(ins.ts) THEN ins.ts[v + 1] ELSE ins.n, w0)
    BY <1>2, ReadStepIs
  <1>4. zero \in Nat
    OBVIOUS
  <1> HIDE DEF zero
  <1>5. /\ family \in Families /\ p \in Nat /\ x.ip = p + 1 /\ Len(r.labels) >= 1 /\ Tidy(r.labels, Len(r.vals))
        /\ Len(r.vals) \in Nat /\ i \in 1 .. Len(prog) /\ Len(r.labels) \in Nat /\ Last(r.labels).height \in Nat
        /\ Len(r.vals) = f[i].height /\ r.labels = f[i].labels /\ r.labels \in Seq(Labels) /\ r.vals \in Seq(Nat)
        /\ Spare(f[i]) = Len(r.vals) - Last(r.labels).height /\ ins \in Bytecode /\ ins = prog[i]
    BY <1>1 DEF Context
  <1> HIDE DEF i, p
  <1>6. Branches(prog, family, f[i], ins.n, 1)
    BY <1>1, <1>2 DEF Moves
  <1> DEFINE l0 == Nth(f[i].labels, ins.n)
             t == Takes(prog, family, l0.at)
             b == Last(r.labels).height
             n == Len(r.vals)
  <1>7. ins.n \in 0 .. Len(f[i].labels) - 1 /\ Spare(f[i]) >= t + 1
    BY <1>6 DEF Branches
  <1>8. Inside(f, i, ins.n, l0)
    BY <1>5, <1>7, LabelIs
  <1>9. t \in {0, 1}
    <2>1. family.arity \in {0, 1}
      BY <1>5, FamilyFacts DEF FnArity
    <2> HIDE DEF l0
    <2> QED BY <1>8, <2>1 DEF Takes, Leaves, Inside
  <1> HIDE DEF l0, t, w0, v
  <1>10. b < n /\ b + t <= n - 1
    <2> DEFINE sp == Spare(f[i])
    <2>1. b \in Nat /\ n \in Nat /\ t \in {0, 1} /\ sp = n - b /\ sp >= t + 1
      BY <1>5, <1>7, <1>9
    <2> HIDE DEF b, n, sp
    <2> QED BY ONLY <2>1
  <1>11. x.rax = v /\ v \in Nat /\ w0 \in Seq(Nat) /\ Len(w0) = n - 1
    <2>1. /\ family \in Families /\ r.labels \in Seq(Labels) /\ r.vals \in Seq(Nat) /\ Match(r.labels, r.vals, x)
          /\ Tidy(r.labels, Len(r.vals)) /\ Len(r.labels) >= 1 /\ Last(r.labels).height < Len(r.vals)
      BY <1>2, <1>5, <1>10
    <2>2. x.rax = Last(r.vals) /\ x.rax \in Nat /\ Front(r.vals) \in Seq(Nat) /\ Len(Front(r.vals)) = Len(r.vals) - 1
      BY ONLY <1>4, <2>1, Dropped
    <2> QED BY <2>2 DEF v, w0
  <1>12. (\E d : TableSays(f, st, i, c, v, d)) /\ "br_table" \in family.branches
    <2>1. /\ i \in 1 .. Len(prog) /\ prog[i].op = "br_table" /\ v \in Nat /\ Moves(prog, family, i, f[i], f[i + 1])
          /\ Shape(prog, closes, <<>>, code, st, phase, f[i].labels, i, Templates[i]) /\ prog[i] \in Bytecode
      BY <1>1, <1>2, <1>5, <1>11
    <2>2. (\E d : TableSays(f, st, i, code[st[i] + 1], v, d)) /\ "br_table" \in family.branches
      BY <2>1, TableGoes
    <2> QED BY <2>2 DEF p
  <1>13. PICK d : TableSays(f, st, i, c, v, d)
    BY <1>12
  <1> DEFINE l == Nth(f[i].labels, d)
             e == c.ts[IF v < Len(c.ts) - 1 THEN v + 2 ELSE 1]
             g == Aim(st, l.at)
             h == l.height
  <1>14. /\ c.op = "br table" /\ c.n = (IF Valued(prog, l0.at) THEN 1 ELSE 0) /\ e.dist = d /\ e.addr = g
         /\ d = (IF v < Len(ins.ts) THEN ins.ts[v + 1] ELSE ins.n)
         /\ Branches(prog, family, f[i], d, 1) /\ Takes(prog, family, l.at) = t
    BY <1>13 DEF TableSays, l0, t
  <1>15. d \in 0 .. Len(f[i].labels) - 1 /\ d \in 0 .. Len(r.labels) - 1
    BY <1>5, <1>14 DEF Branches
  <1>16. c.n = IF t = 1 THEN 1 ELSE 0
    <2>1. t = IF Valued(prog, l0.at) THEN 1 ELSE 0
      BY <1>5, <1>7, <1>12, TableTakes DEF t, l0
    <2> QED BY <1>14, <2>1
  <1>17. g \in Nat
    BY <1>5, <1>15, AimIs
  <1> HIDE DEF c, ins, l, g, e
  <1>18. h \in Nat /\ h = Nth(r.labels, d).height /\ Last(r.labels).height + Takes(prog, family, l.at) <= Len(w0)
         /\ Len(w0) \in Nat /\ Len(w0) <= f[i].height /\ Last(r.labels).height <= Len(w0) /\ Len(w0) <= Len(r.vals)
    <2>1. h \in Nat /\ h = Nth(r.labels, d).height
      <3> DEFINE labs == r.labels
                 hh == Len(r.vals)
      <3>1. family \in Families /\ labs \in Seq(Labels) /\ hh \in Nat /\ Tidy(labs, hh) /\ d \in 0 .. Len(labs) - 1
        BY <1>5, <1>15
      <3>2. l = Nth(labs, d)
        BY <1>5 DEF l
      <3> HIDE DEF labs, hh
      <3>3. Nth(labs, d).height \in 0 .. hh
        BY ONLY <3>1, LeftFacts
      <3> QED BY <3>1, <3>2, <3>3 DEF labs
    <2> DEFINE m == Len(w0)
    <2>2. b \in Nat /\ n \in Nat /\ t \in {0, 1} /\ m = n - 1 /\ b < n /\ b + t <= n - 1
      BY <1>5, <1>9, <1>10, <1>11
    <2> HIDE DEF b, n, m
    <2>3. b + t <= m /\ m \in Nat /\ m <= n /\ b <= m
      BY ONLY <2>2
    <2> QED BY <1>5, <1>14, <2>1, <2>3 DEF b, n, m
  <1>19. Tidy(r.labels, Len(w0))
    BY <1>5, <1>18, TidyLess
  <1> DEFINE a1 == x.mem[x.rdi - 1]
             x1 == Core(zero, a1, x.rcx, x.rdi - 1, x.rbx, x.mem, x.lmem, x.native)
             s == BranchTo(r, d, w0)
  <1>20. Match(r.labels, w0, x1)
    <2>1. /\ family \in Families /\ r.labels \in Seq(Labels) /\ r.vals \in Seq(Nat) /\ Match(r.labels, r.vals, x)
          /\ Tidy(r.labels, Len(r.vals)) /\ Len(r.labels) >= 1 /\ Last(r.labels).height < Len(r.vals)
      BY <1>2, <1>5, <1>10
    <2>2. Match(r.labels, Front(r.vals), x1)
      BY ONLY <1>4, <2>1, Dropped
    <2> QED BY <2>2 DEF w0
  <1>21. x1.lmem = x.lmem
    BY DEF Core
  <1> HIDE DEF x1, s, h
  <1>22. MayBranch(f, i, r, d, l, w0, x1)
    <2>1. Knows(family, x1, r)
      BY <1>2, <1>21 DEF Knows
    <2> QED BY <1>2, <1>5, <1>11, <1>15, <1>18, <1>19, <1>20, <2>1 DEF MayBranch, l
  <1>23. Branched(r, d, l, w0, s)
    BY <1>5, <1>22, BranchFacts DEF s
  <1> DEFINE y == TableEnd(x, r.labels, d, h, t, g)
  <1>24. Settled(r.labels, d, s.vals, x, y, g, t)
    <2>1. Carries(Front(r.vals), h, t, s.vals)
      BY <1>14, <1>23 DEF Branched, h, w0
    <2> DEFINE labs == r.labels
               vals == r.vals
               w == s.vals
    <2>2. /\ family \in Families /\ labs \in Seq(Labels) /\ vals \in Seq(Nat) /\ Match(labs, vals, x)
          /\ Tidy(labs, Len(vals)) /\ Len(labs) >= 1 /\ Last(labs).height < Len(vals) /\ d \in 0 .. Len(labs) - 1
          /\ h = Nth(labs, d).height /\ t \in {0, 1} /\ Last(labs).height + t <= Len(vals) - 1
          /\ Carries(Front(vals), h, t, w) /\ g \in Nat
          /\ y = TableEnd(x, labs, d, h, t, g)
      BY <1>2, <1>5, <1>9, <1>10, <1>15, <1>17, <1>18, <2>1
    <2> HIDE DEF labs, vals, w, y
    <2>3. Settled(labs, d, w, x, y, g, t)
      BY ONLY <2>2, TableMatch
    <2> QED BY <2>3 DEF labs, w
  <1>25. Runs(family, code, x, y)
    <2> DEFINE labs == r.labels
               vals == r.vals
    <2>1. code[x.ip] = c
      BY <1>5 DEF c
    <2>2. /\ family \in Families /\ labs \in Seq(Labels) /\ vals \in Seq(Nat) /\ Match(labs, vals, x)
          /\ Tidy(labs, Len(vals)) /\ d \in 0 .. Len(labs) - 1 /\ h = Nth(labs, d).height
      BY <1>2, <1>5, <1>15, <1>18
    <2>3. e = Chosen(c, v) /\ v = x.rax
      BY <1>11 DEF e, Chosen
    <2>4. c.n = t /\ c = code[x.ip] /\ c.op = "br table" /\ e.dist = d /\ e.addr = g
      BY <1>9, <1>14, <1>16, <2>1
    <2>5. y = TableEnd(x, labs, d, h, t, g)
      OBVIOUS
    <2> HIDE DEF labs, vals, y
    <2> QED BY ONLY <2>2, <2>3, <2>4, <2>5, TableRuns
  <1>26. /\ Match(Left(r.labels, d), s.vals, y) /\ y.ip = g /\ y.lmem = x.lmem /\ y.native = Saved(Left(r.labels, d))
         /\ y = Core(y.ip, y.rax, y.rcx, y.rdi, y.rbx, y.mem, y.lmem, y.native)
         /\ t = 1 => y.rax = Last(s.vals)
    <2> HIDE DEF y
    <2> QED BY <1>24 DEF Settled
  <1> HIDE DEF y
  <1>27. Arrives(f, st, y, s)
    <2>1. CASE l.at # 0
      BY <1>5, <1>21, <1>22, <1>26, <2>1, BranchLands DEF s, g
    <2>2. CASE l.at = 0
      <3>1. FnArity = 1 => y.rax = Last(s.vals)
        <4>1. t = FnArity
          BY <1>14, <2>2 DEF Takes, Leaves, FnArity
        <4> QED BY <1>26, <4>1
      <3>2. y.lmem = x1.lmem
        BY <1>21, <1>26
      <3> QED BY <1>5, <1>22, <1>26, <2>2, <3>1, <3>2, FnLands DEF s, g
    <2> QED BY <2>1, <2>2
  <1> QED BY <1>3, <1>14, <1>25, <1>27, ArrivesOn DEF s

\* Every instruction.
LEMMA StepArrives ==
  ASSUME NEW f, NEW st, Compiled(f, st), CleanFamily(family), NEW r, NEW x, Begins(f, st, r, x)
  PROVE  Arrives(f, st, x, ReadStep(r))
PROOF
  <1> DEFINE op == prog[r.pc].op
  <1>1. prog[r.pc] \in Bytecode
    BY BeginFacts DEF Context
  <1>2. op \in PlainOps \/ op \in {"block", "loop"} \/ op = "if" \/ op = "else" \/ op = "br" \/ op = "br_if"
        \/ op = "br_table" \/ op = "return" \/ op = "end"
    BY <1>1 DEF Bytecode
  <1>3. op \in PlainOps => Arrives(f, st, x, ReadStep(r))
    BY PlainArrives
  <1>4. op \in {"block", "loop"} => Arrives(f, st, x, ReadStep(r))
    BY BlockArrives
  <1>5. op = "if" => Arrives(f, st, x, ReadStep(r))
    BY IfArrives
  <1>6. op = "else" => Arrives(f, st, x, ReadStep(r))
    BY ElseArrives
  <1>7. op = "br" => Arrives(f, st, x, ReadStep(r))
    BY BrArrives
  <1>8. op = "br_if" => Arrives(f, st, x, ReadStep(r))
    BY BrIfArrives
  <1>9. op = "br_table" => Arrives(f, st, x, ReadStep(r))
    BY BrTableArrives
  <1>10. op = "return" => Arrives(f, st, x, ReadStep(r))
    BY ReturnArrives
  <1>11. op = "end" => Arrives(f, st, x, ReadStep(r))
    BY EndArrives
  <1> QED BY <1>2, <1>3, <1>4, <1>5, <1>6, <1>7, <1>8, <1>9, <1>10, <1>11

-----------------------------------------------------------------------------
(* From the entry of the function to its first instruction.                *)

\* What the caller leaves: the arguments in lm.
Started(lm) == Core(1, Junk, Junk, Base, 0, [k \in SlotsOf(family) |-> Junk], lm, <<RetAddr>>)
FirstReading(locals) == [pc |-> 1, vals |-> <<>>, labels |-> <<Label(0, 0)>>, locals |-> locals]

LEMMA NoLabels ==
  ASSUME family \in Families, NEW x, Typed(family, x), x.rbx = 0, x.rdi = Base, x.native = <<RetAddr>>
  PROVE  /\ <<>> \in Seq(Labels) /\ <<>> \in Seq(Nat) /\ Match(<<>>, <<>>, x) /\ Tidy(<<>>, Len(<<>>))
         /\ Append(<<>>, Label(0, Len(<<>>))) = <<Label(0, 0)>>
PROOF
  <1>1. <<>> \in Seq(Labels) /\ <<>> \in Seq(Nat) /\ Len(<<>>) = 0
    BY EmptyTs
  <1>2. Saved(<<>>) = <<RetAddr>>
    <2> DEFINE labs == <<>>
               s == <<RetAddr>>
    <2>1. labs \in Seq(Labels) /\ s \in Seq(Nat) /\ Len(s) = Len(labs) + 1 /\ s[1] = RetAddr
          /\ \A j \in 1 .. Len(labs) : s[j + 1] = Base + labs[j].height + j
      <3>1. \A j \in 1 .. 0 : FALSE
        OBVIOUS
      <3> QED BY <1>1, <3>1 DEF RetAddr
    <2> HIDE DEF labs, s
    <2>2. s = Saved(labs)
      BY ONLY <2>1, SavedIs
    <2> QED BY <2>2 DEF labs, s
  <1>3. Shows(x, <<>>, <<>>)
    BY <1>1 DEF Shows
  <1>4. x.rdi = Base + Len(<<>>) + Len(<<>>)
    BY <1>1 DEF Base
  <1>5. Match(<<>>, <<>>, x)
    BY <1>2, <1>3, <1>4 DEF Match
  <1>6. family.len \in Nat
    BY FamilyFacts DEF MaxLen
  <1>7. Tidy(<<>>, Len(<<>>))
    BY <1>1, <1>6 DEF Tidy
  <1>8. Append(<<>>, Label(0, Len(<<>>))) = <<Label(0, 0)>>
    BY <1>1
  <1> QED BY <1>1, <1>5, <1>7, <1>8

LEMMA PrologueHas ==
  ASSUME family \in Families, Has(code, 0, FnPrologue)
  PROVE  LET p == IF NLocals > NArgs THEN 1 ELSE 0
         IN  /\ Has(code, p, EnterBlock) /\ Len(FnPrologue) = p + 2
             /\ NLocals > NArgs => code[1].op = "rep stos"
PROOF
  <1> DEFINE u == Ins("rep stos", 0)
             b == NLocals > NArgs
             p == IF b THEN 1 ELSE 0
  <1>1. EnterBlock = <<_PushExpandStack, PushRdi>> /\ Len(EnterBlock) = 2
    BY DEF EnterBlock
  <1>2. FnPrologue = (IF b THEN <<u>> ELSE <<>>) \o EnterBlock
    BY DEF FnPrologue, EnterBlock
  <1>3. CASE b
    <2>1. /\ FnPrologue = <<u>> \o <<_PushExpandStack, PushRdi>>
      BY <1>1, <1>2, <1>3
    <2> DEFINE v == _PushExpandStack
               w == PushRdi
    <2> HIDE DEF u, v, w
    <2> DEFINE S == {u, v, w}
               one == <<u>>
               two == <<v, w>>
               both == one \o two
    <2>2. one \in Seq(S) /\ Len(one) = 1 /\ one[1] = u /\ two \in Seq(S) /\ Len(two) = 2 /\ two[1] = v /\ two[2] = w
      BY Tuple1, Tuple2
    <2>3. FnPrologue = both /\ EnterBlock = two
      BY <1>1, <2>1 DEF v, w
    <2> HIDE DEF S, one, two
    <2>4. /\ Len(both) = Len(one) + Len(two)
          /\ \A i \in 1 .. Len(one) : both[i] = one[i]
          /\ \A i \in 1 .. Len(two) : both[Len(one) + i] = two[i]
      <3>1. one \in Seq(S) /\ two \in Seq(S)
        BY <2>2
      <3> QED BY ONLY <3>1, ConcatFacts
    <2> HIDE DEF both
    <2>5. Len(both) = 3 /\ both[1] = one[1] /\ (\A i \in 1 .. 2 : both[1 + i] = two[i])
      BY <2>2, <2>4
    <2>6. \A k \in 1 .. 3 : code[k] = both[k]
      BY <2>3, <2>5 DEF Has
    <2>7. Has(code, 1, EnterBlock)
      <3>1. \A k \in 1 .. 2 : 1 + k \in 1 .. 3
        OBVIOUS
      <3>2. \A k \in 1 .. 2 : code[1 + k] = two[k]
        BY <2>5, <2>6, <3>1
      <3> QED BY <2>2, <2>3, <3>2 DEF Has
    <2>8. code[1] = u
      BY <2>2, <2>5, <2>6
    <2>9. code[1].op = "rep stos"
      BY <2>8, InsFields DEF u
    <2>10. p = 1 /\ Len(FnPrologue) = 3
      BY <1>3, <2>3, <2>5
    <2> HIDE DEF p, b
    <2>11. Has(code, p, EnterBlock) /\ Len(FnPrologue) = p + 2 /\ (b => code[1].op = "rep stos")
      <3>1. Has(code, p, EnterBlock)
        BY <2>7, <2>10
      <3>2. Len(FnPrologue) = p + 2
        BY <2>10
      <3> QED BY <3>1, <3>2, <2>9
    <2> QED BY <2>11 DEF p, b
  <1>4. CASE ~b
    <2>1. FnPrologue = EnterBlock
      BY <1>1, <1>2, <1>4
    <2>2. p = 0
      BY <1>4
    <2> HIDE DEF p, b
    <2>3. Has(code, p, EnterBlock) /\ Len(FnPrologue) = p + 2 /\ (b => code[1].op = "rep stos")
      <3>1. Has(code, p, EnterBlock)
        BY <2>1, <2>2
      <3>2. Len(FnPrologue) = p + 2
        BY <1>1, <2>1, <2>2
      <3> QED BY <3>1, <3>2, <1>4
    <2> QED BY <2>3 DEF p, b
  <1> QED BY <1>3, <1>4

LEMMA StartArrives ==
  ASSUME NEW f, NEW st, Compiled(f, st), NEW lm \in [LocalsOf(family) -> Nat], NEW locals \in [0 .. NLocals - 1 -> Nat],
         \A k \in 0 .. NLocals - 1 : locals[k] = IF k < NArgs THEN lm[k] ELSE 0
  PROVE  Arrives(f, st, Started(lm), FirstReading(locals))
PROOF
  <1> DEFINE b == NLocals > NArgs
             p == IF b THEN 1 ELSE 0
             m0 == [k \in SlotsOf(family) |-> Junk]
             na == <<RetAddr>>
             lm2 == [j \in LocalsOf(family) |-> IF j \in 0 + family.args .. 0 + family.locals - 1 THEN 0 ELSE lm[j]]
             z == IF b THEN Core(1 + 1, 0, 0, Base, 0, m0, lm2, na) ELSE Core(1, Junk, Junk, Base, 0, m0, lm, na)
             s == FirstReading(locals)
  <1>1. /\ f[1] = Entered /\ st[1] = Len(FnPrologue) + 1 /\ Has(code, 0, FnPrologue) /\ Len(prog) >= 1
    BY LastPoint
  <1>2. family \in Families /\ Len(prog) \in Nat
    <2>1. family \in Families /\ prog \in Seq(Bytecode)
      BY DEF Compiled, PatchInv, CompilerType
    <2> QED BY ONLY <2>1, LenProperties
  <1>3. Has(code, p, EnterBlock) /\ Len(FnPrologue) = p + 2 /\ (b => code[1].op = "rep stos") /\ p \in Nat
    BY <1>1, <1>2, PrologueHas
  <1>4. /\ M \in Nat /\ NArgs \in Nat /\ NLocals \in Nat /\ family.args = NArgs /\ family.locals = NLocals
        /\ Junk \in Nat /\ LocalsOf(family) = 0 .. NLocals + 1
    BY <1>2, FamilyFacts DEF NArgs, NLocals, Junk, LocalsOf
  <1>5. m0 \in [SlotsOf(family) -> Nat]
    BY <1>4
  <1>6. lm2 \in [LocalsOf(family) -> Nat] /\ \A j \in LocalsOf(family) : lm2[j] = IF j \in NArgs .. NLocals - 1 THEN 0 ELSE lm[j]
    <2> DEFINE A == 0 + family.args .. 0 + family.locals - 1
    <2>1. A = NArgs .. NLocals - 1
      BY <1>4
    <2> HIDE DEF A
    <2>2. lm2 = [j \in LocalsOf(family) |-> IF j \in A THEN 0 ELSE lm[j]]
      BY DEF A
    <2> HIDE DEF lm2
    <2> QED BY <2>1, <2>2
  <1>7. Runs(family, code, Started(lm), z)
    <2>1. Started(lm) = Core(1, Junk, Junk, Base, 0, m0, lm, na)
      BY DEF Started
    <2>2. CASE b
      <3>1. Runs(family, code, Core(1, Junk, Junk, Base, 0, m0, lm, na), Core(1 + 1, 0, 0, Base, 0, m0, lm2, na))
        <4> HIDE DEF m0, na
        <4> DEFINE one == 1
                   zero == 0
                   bs == Base
                   jk == Junk
        <4>1. code[one].op = "rep stos"
          BY <1>3, <2>2
        <4> HIDE DEF one, zero, bs, jk
        <4>3. lm2 = [j \in LocalsOf(family) |-> IF j \in zero + family.args .. zero + family.locals - 1 THEN 0 ELSE lm[j]]
          BY DEF zero
        <4> HIDE DEF lm2
        <4>2. Runs(family, code, Core(one, jk, jk, bs, zero, m0, lm, na), Core(one + 1, 0, 0, bs, zero, m0, lm2, na))
          BY ONLY <4>1, <4>3, GoRepStos
        <4> QED BY <4>2 DEF one, zero, bs, jk
      <3> QED BY <2>1, <2>2, <3>1
    <2>3. CASE ~b
      <3>1. Runs(family, code, Started(lm), Started(lm))
        BY RunsNot
      <3> QED BY <2>1, <2>3, <3>1
    <2> QED BY <2>2, <2>3
  <1>8. /\ z.ip = p + 1 /\ z.rbx = 0 /\ z.rdi = Base /\ z.native = na /\ z.lmem = (IF b THEN lm2 ELSE lm) /\ Typed(family, z)
    <2> HIDE DEF m0, lm2, na
    <2>1. Base \in Nat /\ 0 \in Nat /\ 1 \in Nat /\ 1 + 1 \in Nat
      BY DEF Base
    <2>2. CASE b
      <3> DEFINE ip2 == 1 + 1
                 zero == 0
      <3>1. z = Core(ip2, zero, zero, Base, zero, m0, lm2, na) /\ ip2 \in Nat /\ zero \in Nat /\ ip2 = p + 1 /\ zero = 0
        BY <2>1, <2>2
      <3> HIDE DEF z, ip2, zero
      <3>2. Typed(family, z)
        BY <1>5, <1>6, <2>1, <3>1, CoreTyped
      <3> QED BY <2>2, <3>1, <3>2 DEF Core
    <2>3. CASE ~b
      <3> DEFINE one == 1
                 zero == 0
      <3>1. z = Core(one, Junk, Junk, Base, zero, m0, lm, na) /\ one \in Nat /\ zero \in Nat /\ one = p + 1 /\ zero = 0
        BY <2>1, <2>3
      <3> HIDE DEF z, one, zero
      <3>2. Typed(family, z)
        BY <1>4, <1>5, <2>1, <3>1, CoreTyped
      <3> QED BY <2>3, <3>1, <3>2 DEF Core
    <2> QED BY <2>2, <2>3
  <1>9. \A k \in 0 .. NLocals - 1 : locals[k] = z.lmem[k]
    <2> SUFFICES ASSUME NEW k \in 0 .. NLocals - 1 PROVE locals[k] = z.lmem[k]
      OBVIOUS
    <2> HIDE DEF lm2, z
    <2>1. k \in LocalsOf(family) /\ k \in Nat
      BY <1>4
    <2>2. locals[k] = IF k < NArgs THEN lm[k] ELSE 0
      OBVIOUS
    <2>3. CASE b
      <3>1. lm2[k] = IF k \in NArgs .. NLocals - 1 THEN 0 ELSE lm[k]
        BY <1>6, <2>1
      <3>2. k \in NArgs .. NLocals - 1 <=> ~(k < NArgs)
        BY <1>4
      <3> QED BY <1>8, <2>2, <2>3, <3>1, <3>2
    <2>4. CASE ~b
      <3>1. k < NArgs
        BY <1>4, <2>4
      <3> QED BY <1>8, <2>2, <2>4, <3>1
    <2> QED BY <2>3, <2>4
  <1> HIDE DEF z, m0, lm2, p, b
  <1>10. /\ <<>> \in Seq(Labels) /\ <<>> \in Seq(Nat) /\ Match(<<>>, <<>>, z) /\ Tidy(<<>>, Len(<<>>))
         /\ Append(<<>>, Label(0, Len(<<>>))) = <<Label(0, 0)>>
    BY <1>2, <1>8, NoLabels
  <1>11. PICK y : /\ Runs(family, code, z, y) /\ y.ip = p + 3 /\ y.lmem = z.lmem
                  /\ Match(<<Label(0, 0)>>, <<>>, y)
    <2> DEFINE e == <<>>
               v == <<>>
               zero == 0
    <2>1. /\ family \in Families /\ e \in Seq(Labels) /\ v \in Seq(Nat) /\ Match(e, v, z) /\ Tidy(e, Len(v)) /\ p \in Nat
          /\ z.ip = p + 1 /\ Has(code, p, EnterBlock) /\ zero \in Nat
      BY <1>2, <1>3, <1>8, <1>10
    <2>2. Append(e, Label(zero, Len(v))) = <<Label(0, 0)>>
      BY <1>10
    <2> HIDE DEF e, v, zero
    <2>3. \E y : /\ Runs(family, code, z, y) /\ y.ip = p + 3 /\ y.lmem = z.lmem
                 /\ Match(Append(e, Label(zero, Len(v))), v, y)
      BY ONLY <2>1, EnterMatch
    <2> QED BY <2>2, <2>3 DEF v
  <1>12. /\ s.pc = 1 /\ s.vals = <<>> /\ s.labels = <<Label(0, 0)>> /\ s.locals = locals
    BY DEF FirstReading
  <1>13. s \in Readings
    <2>1. Label(0, 0) \in Labels
      BY DEF Label, Labels
    <2>2. <<Label(0, 0)>> \in Seq(Labels)
      <3> DEFINE l == Label(0, 0)
      <3> HIDE DEF l
      <3>1. l \in Labels
        BY <2>1 DEF l
      <3>2. <<l>> \in Seq(Labels)
        BY <3>1
      <3> QED BY <3>2 DEF l
    <2> QED BY <1>10, <2>2 DEF FirstReading, Readings
  <1> HIDE DEF s
  <1>14. Knows(family, y, s)
    BY <1>4, <1>9, <1>11, <1>12 DEF Knows
  <1>15. f[1].labels = <<Label(0, 0)>> /\ f[1].height = 0 /\ f[1].live
    BY <1>1 DEF Entered
  <1>16. Len(<<Label(0, 0)>>) = 1 /\ Len(<<>>) = 0
    OBVIOUS
  <1>17. p + 3 = st[1]
    <2> DEFINE n == Len(FnPrologue)
    <2>1. n = p + 2 /\ p \in Nat /\ st[1] = n + 1
      BY <1>1, <1>3
    <2> HIDE DEF n
    <2>2. n + 1 = p + 3
      BY ONLY <2>1
    <2> QED BY <2>1, <2>2
  <1>18. Arrives(f, st, y, s)
    <2> DEFINE one == 1
    <2>1. /\ one \in 1 .. Len(prog) + 1 /\ s \in Readings /\ s.pc = one /\ s.labels = f[one].labels /\ Len(s.labels) >= 1
          /\ Len(s.vals) = f[one].height /\ f[one].live /\ Match(s.labels, s.vals, y) /\ Knows(family, y, s) /\ y.ip = st[one]
      BY <1>1, <1>2, <1>11, <1>12, <1>13, <1>14, <1>15, <1>16, <1>17
    <2> HIDE DEF one
    <2> QED BY <2>1, NextArrives
  <1>19. Arrives(f, st, z, s)
    BY <1>11, <1>18, ArrivesOn
  <1> QED BY <1>7, <1>19, ArrivesOn DEF s

-----------------------------------------------------------------------------
(* The invariant of a run: the machine is on its way to where the direct   *)
(* reading stands.                                                         *)

\* What the function finds when it is entered.
Untouched ==
    Current = Core(1, Junk, Junk, Base, 0, [k \in SlotsOf(family) |-> Junk], [k \in LocalsOf(family) |-> Junk], <<RetAddr>>)

OnTheWay == \E f, st : FlowInv(f) /\ CodeInv(f, st) /\ Arrives(f, st, Current, ref)

RunInv ==
    /\ phase \in {"compile", "ready", "run", "done"}
    /\ phase \in {"compile", "ready"} => Untouched
    /\ phase = "run" => OnTheWay
    /\ phase = "done" => ref.pc = Len(prog) + 1 /\ (FnArity = 1 => rax = Last(ref.vals))

\* The machine does not depend on what the step leaves alone.
LEMMA ArrivesSame ==
  ASSUME UNCHANGED compiler, NEW f, NEW st, Arrives(f, st, Current', ref')
  PROVE  Arrives(f, st, Current, ref)'
PROOF
  <1>1. family' = family /\ prog' = prog /\ code' = code
    BY DEF compiler
  <1>2. Junk' = Junk
    BY <1>1 DEF Junk, M
  <1>3. \A fam, i, x, y : Does(fam, i, x, y)' <=> Does(fam, i, x, y)
    BY <1>2 DEF Does, Kept, KeptLocals
  <1>4. \A fam, c, x, y : Goes1(fam, c, x, y)' <=> Goes1(fam, c, x, y)
    BY <1>3 DEF Goes1
  <1>5. \A fam, c, x, y : Runs(fam, c, x, y)' <=> Runs(fam, c, x, y)
    <2> SUFFICES ASSUME NEW fam, NEW c, NEW x, NEW y PROVE Runs(fam, c, x, y)' <=> Runs(fam, c, x, y)
      OBVIOUS
    <2> QED BY <1>4, Zenon DEF Runs
  <1>6. \A r, y : Arrived(f, st, r, y)' <=> Arrived(f, st, r, y)
    <2> SUFFICES ASSUME NEW r, NEW y PROVE Arrived(f, st, r, y)' <=> Arrived(f, st, r, y)
      OBVIOUS
    <2>1. NLocals' = NLocals /\ FnArity' = FnArity
      BY <1>1 DEF NLocals, FnArity
    <2>2. \A labs, vals, x : Match(labs, vals, x)' <=> Match(labs, vals, x)
      BY <1>1, <1>2, <2>1 DEF Match, Typed, Shows, View
    <2>3. Knows(family, y, r)' <=> Knows(family, y, r)
      BY <1>1, <2>1 DEF Knows
    <2>4. (r \in Readings)' <=> r \in Readings
      BY <2>1 DEF Readings
    <2>5. Stands(f, st, r, y)' <=> Stands(f, st, r, y)
      BY <1>1, <2>2 DEF Stands
    <2>6. Returns(r, y)' <=> Returns(r, y)
      BY <1>1, <2>1 DEF Returns
    <2> QED BY <2>3, <2>4, <2>5, <2>6 DEF Arrived
  <1>7. PICK y : Runs(family, code, Current', y) /\ Arrived(f, st, ref', y)
    BY DEF Arrives
  <1>8. Runs(family, code, Current, y)'
    BY <1>1, <1>5, <1>7
  <1>9. Arrived(f, st, ref, y)'
    BY <1>6, <1>7
  <1> QED BY <1>8, <1>9 DEF Arrives

-----------------------------------------------------------------------------
(* The steps of a run.                                                     *)

LEMMA CompileQuiet ==
  ASSUME CompileStep
  PROVE  phase = "compile" /\ phase' \in {"compile", "ready"} /\ UNCHANGED <<family, machine, ref>>
PROOF
  <1>1. family' = family
    BY DEF CompileStep
  <1> SUFFICES phase = "compile" /\ phase' \in {"compile", "ready"} /\ UNCHANGED machine /\ UNCHANGED ref
    BY <1>1
  <1>2. ASSUME NEW ins \in PlainIns, CompilePlain(ins)
        PROVE  phase = "compile" /\ phase' \in {"compile", "ready"} /\ UNCHANGED machine /\ UNCHANGED ref
    BY <1>2 DEF CompilePlain, CanCompile
  <1>3. ASSUME NEW q \in family.openers, CompileBlock(q[1], q[2]) \/ CompileIf(q[2])
        PROVE  phase = "compile" /\ phase' \in {"compile", "ready"} /\ UNCHANGED machine /\ UNCHANGED ref
    BY <1>3 DEF CompileBlock, CompileIf, CanCompile
  <1>4. ASSUME CompileElse \/ CompileEnd \/ CompileReturn
        PROVE  phase = "compile" /\ phase' \in {"compile", "ready"} /\ UNCHANGED machine /\ UNCHANGED ref
    BY <1>4 DEF CompileElse, CompileEnd, CompileReturn, CanCompile
  <1>5. ASSUME NEW d \in Depths, CompileBr(d) \/ CompileBrIf(d) \/ \E ts \in {<<t>> : t \in Depths} : CompileBrTable(ts, d)
        PROVE  phase = "compile" /\ phase' \in {"compile", "ready"} /\ UNCHANGED machine /\ UNCHANGED ref
    BY <1>5 DEF CompileBr, CompileBrIf, CompileBrTable, CanCompile
  <1> QED BY <1>2, <1>3, <1>4, <1>5 DEF CompileStep

LEMMA EnterStarts ==
  ASSUME NEW f, NEW st, Compiled(f, st), NEW args \in [0 .. NArgs - 1 -> Val], Enter(args), Untouched
  PROVE  Arrives(f, st, Current', ref')
PROOF
  <1> DEFINE lm == lmem'
             locals == [i \in 0 .. NLocals - 1 |-> IF i < NArgs THEN args[i] ELSE 0]
             m0 == [k \in SlotsOf(family) |-> Junk]
             na == <<RetAddr>>
  <1>1. /\ lm = [i \in LocalSlots |-> IF i < NArgs THEN args[i] ELSE Junk]
        /\ ref' = FirstReading(locals)
        /\ ip' = ip /\ rax' = rax /\ rcx' = rcx /\ rdi' = rdi /\ rbx' = rbx /\ mem' = mem /\ native' = native
    BY DEF Enter, FirstReading
  <1>2. ip = 1 /\ rax = Junk /\ rcx = Junk /\ rdi = Base /\ rbx = 0 /\ mem = m0 /\ native = na
    BY DEF Untouched, Current, Core
  <1>3. family \in Families
    BY DEF Compiled, PatchInv, CompilerType
  <1>4. /\ NArgs \in Nat /\ NLocals \in Nat /\ NArgs <= NLocals /\ Junk \in Nat /\ Val \subseteq Nat
        /\ LocalsOf(family) = 0 .. NLocals + 1 /\ LocalSlots = 0 .. NLocals + 1
    BY <1>3, FamilyFacts DEF LocalsOf, LocalSlots, NLocals, NArgs, Junk, Val
  <1>5. \A i \in 0 .. NArgs - 1 : args[i] \in Nat
    BY <1>4
  <1>6. lm \in [LocalsOf(family) -> Nat]
    BY <1>1, <1>4, <1>5
  <1>7. locals \in [0 .. NLocals - 1 -> Nat]
    BY <1>4, <1>5
  <1>8. \A k \in 0 .. NLocals - 1 : locals[k] = IF k < NArgs THEN lm[k] ELSE 0
    BY <1>1, <1>4
  <1> HIDE DEF m0, na
  <1>9. Current' = Core(1, Junk, Junk, Base, 0, m0, lm, na)
    BY <1>1, <1>2 DEF Current
  <1>10. Current' = Started(lm)
    BY <1>9 DEF Started, m0, na
  <1> HIDE DEF lm, locals
  <1>11. Arrives(f, st, Started(lm), FirstReading(locals))
    BY <1>6, <1>7, <1>8, StartArrives
  <1> QED BY <1>1, <1>10, <1>11

LEMMA StandsDbg ==
  ASSUME NEW f, NEW st, Compiled(f, st), NEW r, NEW y, Stands(f, st, r, y)
  PROVE  code[y.ip] = Ins("dbg", r.pc) /\ code[y.ip].op = "dbg" /\ code[y.ip].n = r.pc /\ st[r.pc] \in Nat
PROOF
  <1> DEFINE i == r.pc
  <1>1. i \in 1 .. Len(prog) /\ y.ip = st[i]
    BY DEF Stands
  <1>2. Len(prog) \in Nat
    <2>1. prog \in Seq(Bytecode)
      BY DEF Compiled, PatchInv, CompilerType
    <2> QED BY ONLY <2>1, LenProperties
  <1> HIDE DEF i
  <1>3. i \in 1 .. Len(prog) + 1 /\ i <= Len(prog)
    BY <1>1, <1>2
  <1>4. code[st[i]] = Ins("dbg", i) /\ st[i] \in Nat
    BY <1>3, PointIs
  <1>5. Ins("dbg", i).op = "dbg" /\ Ins("dbg", i).n = i
    BY DEF Ins
  <1> QED BY <1>1, <1>4, <1>5 DEF i

\* Past a `mov r12' the direct reading has taken its step.
LEMMA DbgArrives ==
  ASSUME NEW f, NEW st, Compiled(f, st), CleanFamily(family), Arrived(f, st, ref, Current), Stands(f, st, ref, Current),
         RunStep
  PROVE  Arrives(f, st, Current', ref') /\ UNCHANGED <<phase, compiler>> /\ phase = "run"
PROOF
  <1>1. Current.ip = ip /\ Current.lmem = lmem
    BY DEF Current, Core
  <1>2. code[ip].op = "dbg" /\ st[ref.pc] \in Nat
    BY <1>1, StandsDbg
  <1>3. Dbg
    BY <1>2 DEF RunStep, Fetch, PushExpandStack, PopContractStack, PopSecondParam, Compute, Move, RepStos, Select,
                PushRdiStep, PopRdiStep, Jmp, JumpNIf, EnterIF, BranchTable, AddRsp, Call, Ret
  <1>4. /\ ref' = ReadStep(ref) /\ ip' = ip + 1 /\ phase = "run"
        /\ UNCHANGED <<phase, compiler, rax, rcx, rdi, rbx, mem, lmem, native>>
    BY <1>3 DEF Dbg, Fetch
  <1> DEFINE x == Current
             y == At2(st[ref.pc] + 1, x)
  <1>5. x.ip = st[ref.pc] /\ Match(ref.labels, ref.vals, x)
    BY DEF Stands
  <1>6. Current' = y
    BY <1>1, <1>4, <1>5 DEF Current, At2, Core
  <1>7. st[ref.pc] + 1 \in Nat
    BY <1>2
  <1>8. Match(ref.labels, ref.vals, y) /\ y.ip = st[ref.pc] + 1 /\ y.lmem = x.lmem
    <2> HIDE DEF x
    <2> DEFINE q == st[ref.pc] + 1
               labs == ref.labels
               vals == ref.vals
    <2>1. q \in Nat /\ Match(labs, vals, x)
      BY <1>5, <1>7
    <2> HIDE DEF q, labs, vals
    <2>2. Match(labs, vals, At2(q, x)) /\ At2(q, x).ip = q /\ At2(q, x).lmem = x.lmem
      BY ONLY <2>1, MatchIp
    <2> QED BY <2>2 DEF q, labs, vals
  <1> HIDE DEF y
  <1>9. ref \in Readings /\ Knows(family, y, ref)
    BY <1>8 DEF Arrived, Knows
  <1>10. Begins(f, st, ref, y)
    BY <1>8, <1>9 DEF Begins, Stands
  <1>11. Arrives(f, st, y, ReadStep(ref))
    BY <1>10, StepArrives
  <1> QED BY <1>4, <1>6, <1>11

LEMMA RetDone ==
  ASSUME Returns(ref, Current), RunStep
  PROVE  phase' = "done" /\ UNCHANGED <<compiler, machine, ref>>
PROOF
  <1>1. Current.ip = ip /\ Current.native = native
    BY DEF Current, Core
  <1>2. code[ip].op = "ret" /\ native = <<RetAddr>>
    BY <1>1 DEF Returns
  <1>3. Ret
    BY <1>2 DEF RunStep, Fetch, PushExpandStack, PopContractStack, PopSecondParam, Compute, Move, RepStos, Select,
                PushRdiStep, PopRdiStep, Jmp, JumpNIf, EnterIF, BranchTable, AddRsp, Call, Dbg
  <1>4. Last(native) = RetAddr
    BY <1>2 DEF Last
  <1> QED BY <1>3, <1>4 DEF Ret

LEMMA RunFetches ==
  ASSUME RunStep
  PROVE  phase = "run"
PROOF
  BY DEF RunStep, Fetch, Dbg, PushExpandStack, PopContractStack, PopSecondParam, Compute, Move, RepStos, Select,
         PushRdiStep, PopRdiStep, Jmp, JumpNIf, EnterIF, BranchTable, AddRsp, Call, Ret

\* A step of the machine brings it nearer to where the direct reading stands, or, if it is there,
\* the reading goes on.
LEMMA MachineGoes ==
  ASSUME PatchInv, CleanFamily(family), OnTheWay, RunStep
  PROVE  \/ phase' = "run" /\ OnTheWay'
         \/ phase' = "done" /\ UNCHANGED <<compiler, machine, ref>> /\ Returns(ref, Current)
PROOF
  <1>1. phase = "run"
    BY RunFetches
  <1>2. PICK f, st : FlowInv(f) /\ CodeInv(f, st) /\ Arrives(f, st, Current, ref)
    BY DEF OnTheWay
  <1>3. Compiled(f, st)
    BY <1>1, <1>2 DEF Compiled
  <1>4. PICK y : Runs(family, code, Current, y) /\ Arrived(f, st, ref, y)
    BY <1>2 DEF Arrives
  <1>5. ASSUME Arrives(f, st, Current', ref'), UNCHANGED compiler, phase' = "run"
        PROVE  OnTheWay'
    <2>1. FlowInv(f)' /\ CodeInv(f, st)'
      BY <1>1, <1>2, <1>5, OtherCode
    <2>2. Arrives(f, st, Current, ref)'
      BY <1>5, ArrivesSame
    <2> QED BY <2>1, <2>2 DEF OnTheWay
  <1>6. CASE Current # y
    <2>1. Going(code, Current) /\ \A z : Does(family, code[Current.ip], Current, z) => Runs(family, code, z, y)
      <3> DEFINE c == Current
      <3> HIDE DEF c
      <3>1. Runs(family, code, c, y) /\ c # y
        BY <1>4, <1>6 DEF c
      <3>2. Going(code, c) /\ \A z : Does(family, code[c.ip], c, z) => Runs(family, code, z, y)
        BY <3>1, RunsFirst
      <3> QED BY <3>2 DEF c
    <2>2. Does(family, code[ip], Current, Current') /\ UNCHANGED <<phase, compiler, ref>>
      BY <2>1, StepDoes
    <2>3. Current.ip = ip
      BY DEF Current, Core
    <2>4. Runs(family, code, Current', y)
      BY <2>1, <2>2, <2>3
    <2>5. Arrives(f, st, Current', ref')
      BY <1>4, <2>2, <2>4 DEF Arrives
    <2> QED BY <1>1, <1>5, <2>2, <2>5
  <1>7. CASE Current = y
    <2>1. Arrived(f, st, ref, Current)
      BY <1>4, <1>7
    <2>2. CASE Stands(f, st, ref, Current)
      <3>1. Arrives(f, st, Current', ref') /\ UNCHANGED <<phase, compiler>>
        BY <1>3, <2>1, <2>2, DbgArrives
      <3> QED BY <1>1, <1>5, <3>1
    <2>3. CASE Returns(ref, Current)
      BY <2>3, RetDone
    <2> QED BY <2>1, <2>2, <2>3 DEF Arrived
  <1> QED BY <1>6, <1>7

LEMMA InitRun ==
  ASSUME Init
  PROVE  RunInv
PROOF
  <1>1. SlotsOf(family) = Slots /\ LocalsOf(family) = LocalSlots
    BY DEF SlotsOf, Slots, LocalsOf, LocalSlots, MaxLen, NLocals
  <1>2. Untouched
    BY <1>1 DEF Init, Untouched, Current
  <1> QED BY <1>2 DEF Init, RunInv

LEMMA NextRun ==
  ASSUME PatchInv, LaidOut, CleanFamily(family), RunInv, [Next]_vars
  PROVE  RunInv'
PROOF
  <1>1. ASSUME UNCHANGED <<family, machine>>
        PROVE  Untouched' <=> Untouched
    <2>1. Current' = Current
      BY <1>1 DEF machine, Current
    <2>2. Junk' = Junk /\ SlotsOf(family)' = SlotsOf(family) /\ LocalsOf(family)' = LocalsOf(family)
      BY <1>1 DEF Junk, M, SlotsOf, LocalsOf
    <2> QED BY <2>1, <2>2 DEF Untouched
  <1>2. CASE CompileStep
    <2>1. phase = "compile" /\ phase' \in {"compile", "ready"} /\ UNCHANGED <<family, machine, ref>>
      BY <1>2, CompileQuiet
    <2> QED BY <1>1, <2>1 DEF RunInv
  <1>3. ASSUME NEW args \in [0 .. NArgs - 1 -> Val], Enter(args)
        PROVE  RunInv'
    <2>1. phase = "ready" /\ phase' = "run" /\ UNCHANGED compiler
      BY <1>3 DEF Enter
    <2>2. PICK f, st : FlowInv(f) /\ CodeInv(f, st)
      BY DEF LaidOut
    <2>3. Compiled(f, st)
      BY <2>1, <2>2 DEF Compiled
    <2>4. Arrives(f, st, Current', ref')
      BY <1>3, <2>1, <2>3, EnterStarts DEF RunInv
    <2>5. FlowInv(f)' /\ CodeInv(f, st)'
      BY <2>1, <2>2, OtherCode
    <2>6. Arrives(f, st, Current, ref)'
      BY <2>1, <2>4, ArrivesSame
    <2> QED BY <2>1, <2>5, <2>6 DEF RunInv, OnTheWay
  <1>4. CASE RunStep
    <2>1. phase = "run" /\ OnTheWay
      BY <1>4, RunFetches DEF RunInv
    <2>2. \/ phase' = "run" /\ OnTheWay'
          \/ phase' = "done" /\ UNCHANGED <<compiler, machine, ref>> /\ Returns(ref, Current)
      BY <1>4, <2>1, MachineGoes
    <2>3. CASE phase' = "run" /\ OnTheWay'
      BY <2>3 DEF RunInv
    <2>4. CASE phase' = "done" /\ UNCHANGED <<compiler, machine, ref>> /\ Returns(ref, Current)
      <3>1. ref.pc = Len(prog) + 1 /\ (FnArity = 1 => rax = Last(ref.vals))
        BY <2>4 DEF Returns, Current, Core
      <3>2. UNCHANGED <<prog, family, rax, ref>>
        BY <2>4 DEF compiler, machine
      <3> QED BY <2>4, <3>1, <3>2 DEF RunInv, FnArity
    <2> QED BY <2>2, <2>3, <2>4
  <1>5. CASE UNCHANGED vars
    <2>1. UNCHANGED <<phase, compiler, machine, ref>>
      BY <1>5 DEF vars
    <2>2. UNCHANGED family /\ UNCHANGED prog /\ UNCHANGED rax /\ UNCHANGED ref
      BY <2>1 DEF compiler, machine
    <2>3. phase = "run" => OnTheWay'
      <3> SUFFICES ASSUME phase = "run" PROVE OnTheWay'
        OBVIOUS
      <3>1. PICK f, st : FlowInv(f) /\ CodeInv(f, st) /\ Arrives(f, st, Current, ref)
        BY DEF OnTheWay, RunInv
      <3>2. FlowInv(f)' /\ CodeInv(f, st)'
        BY <2>1, <3>1, OtherCode
      <3>3. Current' = Current
        BY <2>1 DEF machine, Current
      <3>4. Arrives(f, st, Current, ref)'
        BY <2>1, <3>1, <3>3, ArrivesSame
      <3> QED BY <3>2, <3>4 DEF OnTheWay
    <2>4. phase \in {"compile", "ready"} => Untouched'
      BY <1>1, <2>1, <2>2 DEF RunInv
    <2>5. phase = "done" => (ref.pc = Len(prog) + 1 /\ (FnArity = 1 => rax = Last(ref.vals)))'
      BY <2>2 DEF RunInv, FnArity
    <2> QED BY <2>1, <2>3, <2>4, <2>5 DEF RunInv
  <1> QED BY <1>2, <1>3, <1>4, <1>5 DEF Next, Stop

-----------------------------------------------------------------------------
(* What the properties of StackCode say of where the machine stands.       *)

\* The labels under operand k are the first ones.
LEMMA CountBelow ==
  ASSUME NEW labs \in Seq(Labels), NEW h, Tidy(labs, h), NEW k \in Nat, k >= 1, Len(labs) >= 1, labs[1].height = 0,
         NEW S, S = {j \in 1 .. Len(labs) : labs[j].height < k}
  PROVE  Cardinality(S) \in 1 .. Len(labs) /\ Above(labs, Cardinality(S), k)
PROOF
  <1> DEFINE n == Len(labs)
             c == Cardinality(S)
  <1>1. n \in Nat /\ n >= 1 /\ \A j \in 1 .. n : labs[j].height \in Nat
    BY LabelsAre
  <1>2. \A j \in 1 .. n : \A i \in 1 .. j - 1 : labs[i].height <= labs[j].height
    BY DEF Tidy
  <1> HIDE DEF n
  <1>3. S \subseteq 1 .. n /\ \A j \in 1 .. n : j \in S <=> labs[j].height < k
    BY DEF n
  <1>4. IsFiniteSet(1 .. n) /\ Cardinality(1 .. n) = n
    <2> DEFINE one == 1
    <2>1. one \in Int /\ n \in Int
      BY <1>1
    <2> HIDE DEF one
    <2>2. IsFiniteSet(one .. n) /\ Cardinality(one .. n) = (IF one > n THEN 0 ELSE n - one + 1)
      BY ONLY <2>1, FS_Interval
    <2> QED BY <1>1, <2>2 DEF one
  <1>5. IsFiniteSet(S) /\ c <= n /\ c \in Nat
    <2> DEFINE U == 1 .. n
    <2>1. IsFiniteSet(U) /\ S \in SUBSET U /\ Cardinality(U) = n
      BY <1>3, <1>4
    <2> HIDE DEF U, c
    <2>2. IsFiniteSet(S) /\ Cardinality(S) <= Cardinality(U)
      BY ONLY <2>1, FS_Subset
    <2>3. Cardinality(S) \in Nat
      BY <2>2, FS_CardinalityType
    <2> QED BY <2>1, <2>2, <2>3 DEF c
  <1> HIDE DEF c
  <1>6. ASSUME NEW j \in S PROVE j \in 1 .. c
    <2>1. j \in 1 .. n /\ j \in Nat
      BY <1>1, <1>3
    <2>2. 1 .. j \subseteq S
      <3> SUFFICES ASSUME NEW i \in 1 .. j PROVE i \in S
        OBVIOUS
      <3>1. i \in 1 .. n /\ (i = j \/ i \in 1 .. j - 1)
        BY <1>1, <2>1
      <3>2. labs[i].height <= labs[j].height
        BY <1>1, <1>2, <2>1, <3>1
      <3>3. labs[j].height < k
        BY <1>3, <2>1
      <3>4. labs[i].height < k
        BY <1>1, <2>1, <3>1, <3>2, <3>3
      <3> QED BY <1>3, <3>1, <3>4
    <2>3. Cardinality(1 .. j) = j
      <3> DEFINE one == 1
      <3>1. one \in Int /\ j \in Int
        BY <2>1
      <3> HIDE DEF one
      <3>2. Cardinality(one .. j) = (IF one > j THEN 0 ELSE j - one + 1)
        BY ONLY <3>1, FS_Interval
      <3> QED BY <2>1, <3>2 DEF one
    <2>4. Cardinality(1 .. j) <= Cardinality(S)
      BY <1>5, <2>2, FS_Subset
    <2> QED BY <1>5, <2>1, <2>3, <2>4 DEF c
  <1>7. S = 1 .. c
    <2> DEFINE T == 1 .. c
    <2>1. IsFiniteSet(T) /\ Cardinality(T) = c
      <3> DEFINE one == 1
      <3>1. one \in Int /\ c \in Int
        BY <1>5
      <3> HIDE DEF one
      <3>2. IsFiniteSet(one .. c) /\ Cardinality(one .. c) = (IF one > c THEN 0 ELSE c - one + 1)
        BY ONLY <3>1, FS_Interval
      <3> QED BY <1>5, <3>2 DEF one
    <2>2. S \subseteq T
      BY <1>6
    <2> HIDE DEF T
    <2>3. Cardinality(S) = Cardinality(T)
      BY <2>1 DEF c
    <2>4. S = T
      BY <2>1, <2>2, <2>3, FS_Subset
    <2> QED BY <2>4 DEF T
  <1>8. 1 \in S
    BY <1>1, <1>3 DEF n
  <1>9. c >= 1
    BY <1>5, <1>7, <1>8
  <1>10. labs[c].height < k
    BY <1>3, <1>5, <1>7, <1>9
  <1>11. c < n => k <= labs[c + 1].height
    <2> SUFFICES ASSUME c < n PROVE k <= labs[c + 1].height
      OBVIOUS
    <2>1. c + 1 \in 1 .. n /\ c + 1 \notin S
      BY <1>1, <1>5, <1>7
    <2>2. ~(labs[c + 1].height < k) /\ labs[c + 1].height \in Nat
      BY <1>1, <1>3, <2>1
    <2> QED BY <2>2
  <1>12. c \in 1 .. n
    BY <1>1, <1>5, <1>9
  <1> QED BY <1>10, <1>11, <1>12 DEF Above, c, n

\* At a `mov r12' the machine has arrived.
LEMMA DbgStands ==
  ASSUME RunInv, PatchInv, Fetch("dbg")
  PROVE  \E f, st : Compiled(f, st) /\ Arrived(f, st, ref, Current) /\ Stands(f, st, ref, Current)
PROOF
  <1>1. phase = "run" /\ code[ip].op = "dbg"
    BY DEF Fetch
  <1>2. PICK f, st : FlowInv(f) /\ CodeInv(f, st) /\ Arrives(f, st, Current, ref)
    BY <1>1 DEF RunInv, OnTheWay
  <1>3. PICK y : Runs(family, code, Current, y) /\ Arrived(f, st, ref, y)
    BY <1>2 DEF Arrives
  <1>4. Current.ip = ip
    BY DEF Current, Core
  <1>5. Current = y
    <2> DEFINE c == Current
    <2>1. ~Going(code, c)
      BY <1>1, <1>4 DEF Going, Working, StraightOps, Jumps
    <2> HIDE DEF c
    <2>2. Runs(family, code, c, y)
      BY <1>3 DEF c
    <2>3. c = y
      BY <2>1, <2>2, RunsFirst
    <2> QED BY <2>3 DEF c
  <1>6. ~Returns(ref, Current)
    BY <1>1, <1>4 DEF Returns
  <1>7. Compiled(f, st)
    BY <1>1, <1>2 DEF Compiled
  <1> QED BY <1>3, <1>5, <1>6, <1>7 DEF Arrived

LEMMA RunRepresents ==
  ASSUME RunInv, PatchInv
  PROVE  Represents
PROOF
  <1> SUFFICES ASSUME Fetch("dbg")
               PROVE  /\ ref.pc = N /\ rdi = Base + Places
                      /\ native = <<RetAddr>> \o [j \in 1 .. Len(ref.labels) |-> Base + ref.labels[j].height + j]
                      /\ \A k \in 1 .. Len(ref.vals) : At(Place(k)) = ref.vals[k]
                      /\ rbx = 0
                      /\ \A i \in 0 .. NLocals - 1 : lmem[i] = ref.locals[i]
    BY DEF Represents, Balanced
  <1>1. PICK f, st : Compiled(f, st) /\ Arrived(f, st, ref, Current) /\ Stands(f, st, ref, Current)
    BY DbgStands
  <1> DEFINE labs == ref.labels
             vals == ref.vals
             x == Current
             i == ref.pc
  <1>2. x.ip = ip /\ x.rdi = rdi /\ x.native = native /\ x.rbx = rbx /\ x.lmem = lmem /\ x.mem = mem /\ x.rax = rax
    BY DEF Current, Core
  <1>3. code[ip].n = i
    BY <1>1, <1>2, StandsDbg
  <1>4. Match(labs, vals, x) /\ Knows(family, x, ref) /\ ref \in Readings
    BY <1>1 DEF Arrived, Stands
  <1>5. labs \in Seq(Labels) /\ vals \in Seq(Nat) /\ Len(labs) \in Nat /\ Len(vals) \in Nat
    <2>1. labs \in Seq(Labels) /\ vals \in Seq(Nat)
      BY <1>4 DEF Readings
    <2> HIDE DEF labs, vals
    <2> QED BY ONLY <2>1, LenProperties
  <1>6. i \in 1 .. Len(prog) /\ labs = f[i].labels /\ Len(vals) = f[i].height
    BY <1>1 DEF Stands
  <1>7. Tidy(labs, Len(vals)) /\ Len(labs) >= 1 /\ labs[1].height = 0
    <2>1. Len(prog) \in Nat
      <3>1. prog \in Seq(Bytecode)
        BY <1>1 DEF Compiled, PatchInv, CompilerType
      <3> QED BY ONLY <3>1, LenProperties
    <2> HIDE DEF i, labs, vals
    <2>2. i \in 1 .. Len(prog) + 1 /\ i <= Len(prog)
      BY <1>6, <2>1
    <2>3. Tidy(f[i].labels, f[i].height) /\ Len(f[i].labels) >= 1
      BY <1>1, <2>2, PointIs
    <2> DEFINE d == Len(f[i].labels) - 1
               l == Nth(f[i].labels, d)
    <2>4. d \in 0 .. Len(f[i].labels) - 1 /\ Len(f[i].labels) - d = 1
      BY <1>5, <1>6, <2>3
    <2>5. l = f[i].labels[1]
      BY <2>4 DEF Nth
    <2> HIDE DEF d, l
    <2>6. Inside(f, i, d, l)
      <3>1. l = Nth(f[i].labels, d)
        BY DEF l
      <3> QED BY <1>1, <1>6, <2>4, <3>1, LabelIs
    <2>7. l.height = 0
      BY <2>6 DEF Inside, d
    <2> QED BY <1>6, <2>3, <2>5, <2>7
  <1>8. rbx = 0 /\ rdi = Base + Len(vals) + Len(labs) /\ native = Saved(labs)
    BY <1>2, <1>4 DEF Match
  <1>9. Places = Len(vals) + Len(labs) /\ rdi = Base + Places /\ rdi - Base = Places
    <2>1. Places = Len(vals) + Len(labs)
      BY DEF Places
    <2> DEFINE a == Len(vals)
               b == Len(labs)
    <2>2. a \in Nat /\ b \in Nat /\ Base = 1 /\ rdi = Base + a + b /\ Places = a + b
      BY <1>5, <1>8, <2>1 DEF Base
    <2> HIDE DEF a, b
    <2>3. Places = a + b /\ rdi = Base + Places /\ rdi - Base = Places
      BY ONLY <2>2
    <2> QED BY <2>1, <2>3
  <1>10. ASSUME NEW k \in 1 .. Len(vals) PROVE At(Place(k)) = vals[k]
    <2> DEFINE S == {j \in 1 .. Len(labs) : labs[j].height < k}
               c == Cardinality(S)
    <2>1. Place(k) = k + c
      BY DEF Place
    <2>2. k \in Nat /\ k >= 1
      BY <1>5
    <2>3. c \in 1 .. Len(labs) /\ Above(labs, c, k)
      <3> DEFINE h == Len(vals)
      <3>1. labs \in Seq(Labels) /\ Tidy(labs, h) /\ k \in Nat /\ k >= 1 /\ Len(labs) >= 1 /\ labs[1].height = 0
            /\ S = {j \in 1 .. Len(labs) : labs[j].height < k}
        BY <1>5, <1>7, <2>2
      <3> HIDE DEF h, S, labs
      <3> QED BY ONLY <3>1, CountBelow DEF c
    <2> HIDE DEF c
    <2>4. View(x, k + c) = vals[k]
      <3>1. Shows(x, labs, vals)
        BY <1>4 DEF Match
      <3> HIDE DEF x, labs, vals
      <3> QED BY <2>3, <3>1 DEF Shows
    <2>5. View(x, k + c) = At(k + c)
      <3> HIDE DEF x
      <3> QED BY <1>2, <1>9 DEF View, At
    <2> QED BY <2>1, <2>4, <2>5
  <1>11. ASSUME NEW j \in 0 .. NLocals - 1 PROVE lmem[j] = ref.locals[j]
    BY <1>2, <1>4 DEF Knows, NLocals
  <1> QED BY <1>3, <1>8, <1>9, <1>10, <1>11 DEF N, Saved

-----------------------------------------------------------------------------
(* The theorems.                                                           *)

LEMMA RunAlways ==
  ASSUME CleanFamilies
  PROVE  Spec => [](PatchInv /\ RunInv)
PROOF
  <1>1. Init => PatchInv /\ LaidOut /\ RunInv
    BY InitPatch, InitCode, InitRun DEF LaidOut
  <1>2. PatchInv /\ LaidOut /\ RunInv /\ [Next]_vars => (PatchInv /\ LaidOut /\ RunInv)'
    <2> SUFFICES ASSUME PatchInv, LaidOut, RunInv, [Next]_vars PROVE (PatchInv /\ LaidOut /\ RunInv)'
      OBVIOUS
    <2>1. family \in Families
      BY DEF PatchInv, CompilerType
    <2>2. CleanFamily(family)
      BY <2>1 DEF CleanFamilies
    <2> QED BY <2>2, NextPatch, NextCode, NextRun
  <1> QED BY <1>1, <1>2, PTL DEF Spec

\* In every function of a clean family, of any length and nesting, at every `mov r12' that the
\* machine passes, rdi and the native stack are where the open blocks and the operands of the
\* bytecode put them, the last operand is in rax, each other one at its place in m_vecoperand,
\* rbx is back at the locals and each local has its value: no template and no branch of
\* JitWriter, taken or not, leaves an operand too many, too few, or at another place.
THEOREM CodeRepresents ==
  ASSUME CleanFamilies
  PROVE  Spec => []Represents
PROOF
  <1>1. PatchInv /\ RunInv => Represents
    BY RunRepresents
  <1> QED BY <1>1, RunAlways, PTL

\* Every function of a clean family that returns, by a return, by a branch out of all its blocks
\* or at its end, does so when the bytecode does, to its caller and with its result: the counts of
\* saved rdi's that br, br_table, return and end take off the native stack are right however
\* deep they are, and no ret pops a saved rdi and no pop the return address.
THEOREM CodeReturns ==
  ASSUME CleanFamilies
  PROVE  Spec => []ReturnsRight
PROOF
  <1>1. PatchInv /\ RunInv => ReturnsRight
    BY DEF RunInv, ReturnsRight
  <1> QED BY <1>1, RunAlways, PTL
=============================================================================
