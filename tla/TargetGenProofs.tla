-------------------------- MODULE TargetGenProofs --------------------------
(***************************************************************************)
(* Theorems about the instructions that are generated from the quads: where*)
(* jumps and returns lead, for any text, syntax errors included.           *)
(***************************************************************************)
EXTENDS TargetGen, QuadGenProofs

-----------------------------------------------------------------------------
(* What the parser writes: jumps where a quad has been reserved, and any   *)
(* quad behind the last one.                                               *)

Free(l)    == l \in DOMAIN quads => quads[l].op \in JumpOps
FreeLabels == {l \in Labels : Free(l)}
FreePairs  == {l \in Labels : l \in FreeLabels /\ l + 1 \in FreeLabels}

StacksIn(F, G) ==
  [break_stack : Seq(F), continue_stack : Seq(F),
   num_of_breaks_stack : Seq(Nat), num_of_continues_stack : Seq(Nat),
   for_start_stack : Seq(G), while_end_label_stack : Seq(F)]

(* Also after syntax errors, what is on the stacks has been reserved. *)
ReservedInv ==
  /\ if_label_stack \in Seq(FreeLabels) /\ else_label_stack \in Seq(FreeLabels)
  /\ loops \in StacksIn(FreeLabels, FreePairs)
  /\ function_loop_stack \in Seq(StacksIn(FreeLabels, FreePairs))

Marks == {"func_start", "func_end"}

(* Quads are kept but for the jumps, and what is written belongs to the     *)
(* current function, and is a jump or comes last.                          *)
JumpHere(x) == x.op \in JumpOps /\ x.in = Function

Kept ==
  \A l \in DOMAIN quads : quads[l].op \notin JumpOps =>
    l \in DOMAIN quads' /\ quads'[l] = quads[l]

Added(ops) ==
  \A l \in DOMAIN quads' :
    \/ l \in DOMAIN quads /\ quads'[l] = quads[l]
    \/ quads'[l].op \in JumpOps /\ quads'[l].in = Function
    \/ currQuad <= l /\ quads'[l].in = Function /\ quads'[l].op \in ops

Writes(ops) ==
  /\ currQuad' \in Nat /\ currQuad <= currQuad'
  /\ DOMAIN quads' \subseteq Upto(currQuad')
  /\ Kept /\ Added(ops)

(* A function that differs from quads in jumps that have been reserved. *)
Rewritten(q) ==
  /\ DOMAIN quads \subseteq DOMAIN q
  /\ \A l \in DOMAIN q : \/ l \in DOMAIN quads /\ q[l] = quads[l]
                         \/ Free(l) /\ JumpHere(q[l])

LEMMA Rewriting ==
  ASSUME NEW q, Rewritten(q), NEW p,
         \A l \in DOMAIN p : Free(l) /\ JumpHere(p[l])
  PROVE  Rewritten(p @@ q)
BY DEF Rewritten, @@

LEMMA RewritingOne ==
  ASSUME NEW q, Rewritten(q), NEW l, Free(l), NEW x, JumpHere(x)
  PROVE  Rewritten((l :> x) @@ q)
<1>1. DOMAIN (l :> x) = {l} /\ (l :> x)[l] = x
  BY OneFacts
<1>2. QED
  BY <1>1, Rewriting

LEMMA JumpIsJump == \A l : JumpHere(JumpTo(l)) /\ JumpHere(Quad("branch", l))
BY DEF JumpTo, Quad, JumpOps, JumpHere

LEMMA RewrittenWrites ==
  ASSUME TypeOK, TypeOK', Rewritten(quads'), currQuad <= currQuad', NEW ops
  PROVE  Writes(ops)
<1>1. currQuad' \in Nat /\ DOMAIN quads' \subseteq Upto(currQuad')
  <2>1. TypeOK => currQuad \in Nat /\ DOMAIN quads \subseteq Upto(currQuad)
    BY TypesOf DEF QuadsTyped
  <2>2. (TypeOK => currQuad \in Nat /\ DOMAIN quads \subseteq Upto(currQuad))'
    BY DEF TypeOK, Upto, Labels
  <2>3. QED
    BY <2>2
<1>2. Kept
  BY DEF Kept, Rewritten, Free
<1>3. Added(ops)
  BY DEF Added, Rewritten, Free, JumpHere
<1>4. QED
  BY <1>1, <1>2, <1>3 DEF Writes

LEMMA EmittedWrites ==
  ASSUME TypeOK, TypeOK', NEW k \in Nat, NEW s, Len(s) = k,
         quads' = Emitted(s), currQuad <= currQuad', NEW ops,
         \A i \in 1 .. k : s[i].in = Function /\ s[i].op \in ops \cup JumpOps
  PROVE  Writes(ops)
<1> DEFINE f == [l \in currQuad .. currQuad + k - 1 |-> s[l - currQuad + 1]]
<1>1. /\ currQuad \in Nat /\ DOMAIN quads \subseteq Upto(currQuad)
      /\ currQuad' \in Nat /\ DOMAIN quads' \subseteq Upto(currQuad')
  BY DEF TypeOK, Upto, Labels
<1>2. quads' = f @@ quads
  BY DEF Emitted
<1>3. \A l \in DOMAIN f :
        /\ currQuad <= l /\ l \notin DOMAIN quads
        /\ f[l].in = Function /\ f[l].op \in ops \cup JumpOps
  <2>1. \A l \in currQuad .. currQuad + k - 1 :
          currQuad <= l /\ l \notin Upto(currQuad) /\ l - currQuad + 1 \in 1 .. k
    BY <1>1 DEF Upto
  <2>2. QED
    BY <1>1, <2>1
<1> HIDE DEF f
<1>4. Kept
  BY <1>2, <1>3 DEF Kept, @@
<1>5. Added(ops)
  BY <1>2, <1>3 DEF Added, @@
<1>6. QED
  BY <1>1, <1>4, <1>5 DEF Writes

(* What is free stays free. *)
LEMMA StaysFree ==
  ASSUME TypeOK, NEW ops, Writes(ops)
  PROVE  FreeLabels \subseteq FreeLabels' /\ FreePairs \subseteq FreePairs'
<1>1. currQuad \in Nat /\ currQuad' \in Nat /\ currQuad <= currQuad'
  BY TypesOf DEF Writes
<1>2. Labels \subseteq Labels'
  <2>1. \A m, n \in Nat : m <= n => 0 .. m - 1 \subseteq 0 .. n - 1
    OBVIOUS
  <2>2. QED
    BY <1>1, <2>1 DEF Labels
<1>3. ASSUME NEW l \in FreeLabels PROVE l \in FreeLabels'
  <2>1. l \in Labels /\ Free(l) /\ ~(currQuad <= l)
    BY <1>1 DEF FreeLabels, Labels
  <2>2. Free(l)'
    BY <2>1 DEF Free, Writes, Added
  <2>3. QED
    BY <1>2, <2>1, <2>2 DEF FreeLabels
<1>4. QED
  BY <1>2, <1>3 DEF FreePairs

LEMMA StacksGrow ==
  ASSUME NEW F, NEW H, F \subseteq H, NEW G, NEW K, G \subseteq K
  PROVE  /\ \A s : s \in Seq(F) => s \in Seq(H)
         /\ StacksIn(F, G) \subseteq StacksIn(H, K)
         /\ \A s : s \in Seq(StacksIn(F, G)) => s \in Seq(StacksIn(H, K))
<1>1. \A s : s \in Seq(F) => s \in Seq(H)
  OBVIOUS
<1>2. \A s : s \in Seq(G) => s \in Seq(K)
  OBVIOUS
<1>3. StacksIn(F, G) \subseteq StacksIn(H, K)
  BY <1>1, <1>2 DEF StacksIn
<1>4. \A s : s \in Seq(StacksIn(F, G)) => s \in Seq(StacksIn(H, K))
  <2> DEFINE A == StacksIn(F, G)
             B == StacksIn(H, K)
  <2>1. A \subseteq B
    BY <1>3
  <2> HIDE DEF A, B
  <2>2. \A s : s \in Seq(A) => s \in Seq(B)
    BY <2>1
  <2>3. QED
    BY <2>2 DEF A, B
<1>5. QED
  BY <1>1, <1>3, <1>4

-----------------------------------------------------------------------------
(* What the steps of the parser write *)

Ordinary == {"plain", "and_or", "not", "ret"}
Calls    == {"param", "call", "getretval"}

LEMMA HeadFacts ==
  ASSUME NEW S, NEW s \in Seq(S), Len(s) > 0
  PROVE  Head(s) \in S /\ Tail(s) \in Seq(S)
OBVIOUS

LEMMA NothingWritten ==
  ASSUME TypeOK, TypeOK', UNCHANGED quads, currQuad <= currQuad', NEW ops
  PROVE  Writes(ops)
BY RewrittenWrites DEF Rewritten

LEMMA ExpressionsWrite ==
  ASSUME TypeOK, TypeOK', Expression \/ Logic \/ Relop \/ Return
  PROVE  Writes(Ordinary) /\ UNCHANGED stacks
<1>0. currQuad \in Nat
  BY TypesOf
<1> DEFINE Good(q) == q.in = Function /\ q.op \in Ordinary \cup JumpOps
<1>1. ASSUME NEW k \in Nat, NEW s, Len(s) = k, Emit(s), \A i \in 1 .. k : Good(s[i])
      PROVE  Writes(Ordinary) /\ UNCHANGED stacks
  <2>1. quads' = Emitted(s) /\ currQuad' = currQuad + k /\ UNCHANGED stacks
    BY <1>1 DEF Emit
  <2>2. currQuad <= currQuad'
    BY <1>0, <2>1
  <2>3. QED
    BY <1>1, <2>1, <2>2, EmittedWrites
<1>2. \A op \in Ordinary : Good(Quad(op, 0))
  BY DEF Quad
<1>3. Good(Plain)
  BY <1>2 DEF Plain, Ordinary
<1>4. \A l : Good(Quad("branch", l)) /\ Good(JumpTo(l))
  BY DEF Quad, JumpTo, JumpOps
<1> HIDE DEF Good
<1>5. ASSUME NEW op \in Ordinary, Emit(<<Quad(op, 0)>>)
      PROVE  Writes(Ordinary) /\ UNCHANGED stacks
  <2> DEFINE s == <<Quad(op, 0)>>
  <2>1. Len(s) = 1 /\ 1 \in Nat /\ \A i \in 1 .. 1 : Good(s[i])
    BY <1>2
  <2>2. Emit(s)
    BY <1>5
  <2> HIDE DEF s
  <2>3. QED
    BY <1>1, <2>1, <2>2
<1>6. CASE Expression
  BY <1>5, <1>6 DEF Expression, Expr, Plain, Ordinary
<1>7. CASE Logic
  BY <1>5, <1>7 DEF Logic, Expr, Ordinary
<1>8. CASE Return
  BY <1>5, <1>8 DEF Return, Ordinary
<1>9. CASE Relop
  <2> DEFINE s == <<Quad("branch", currQuad + 3), Plain, JumpTo(currQuad + 4), Plain>>
  <2>1. Len(s) = 4 /\ 4 \in Nat /\ \A i \in 1 .. 4 : Good(s[i])
    BY <1>3, <1>4
  <2>2. Emit(s)
    BY <1>9 DEF Relop, Expr
  <2> HIDE DEF s
  <2>3. QED
    BY <1>1, <2>1, <2>2
<1>10. QED
  BY <1>6, <1>7, <1>8, <1>9

(* The quads of a call come one after the other. *)
LEMMA CallWrites ==
  ASSUME TypeOK, TypeOK', Call
  PROVE  Writes(Calls) /\ UNCHANGED stacks
<1> DEFINE Good(q) == q.in = Function /\ q.op \in Calls \cup JumpOps
<1>1. ASSUME NEW k \in Nat, NEW s, Len(s) = k, Emit(s), \A i \in 1 .. k : Good(s[i])
      PROVE  Writes(Calls) /\ UNCHANGED stacks
  <2>1. quads' = Emitted(s) /\ currQuad' = currQuad + k /\ UNCHANGED stacks
    BY <1>1 DEF Emit
  <2>2. currQuad <= currQuad'
    BY <1>1, <2>1, TypesOf
  <2>3. QED
    BY <1>1, <2>1, <2>2, EmittedWrites
<1>2. Good(Quad("param", 0)) /\ Good(Quad("call", 0)) /\ Good(Quad("getretval", 0))
  BY DEF Quad, Calls
<1> HIDE DEF Good
<1>3. CASE Emit(<<Quad("call", 0), Quad("getretval", 0)>>)
  <2> DEFINE s == <<Quad("call", 0), Quad("getretval", 0)>>
  <2>1. Len(s) = 2 /\ 2 \in Nat /\ Emit(s) /\ \A i \in 1 .. 2 : Good(s[i])
    BY <1>2, <1>3
  <2> HIDE DEF s
  <2>2. QED
    BY <1>1, <2>1
<1>4. CASE Emit(<<Quad("param", 0), Quad("call", 0), Quad("getretval", 0)>>)
  <2> DEFINE s == <<Quad("param", 0), Quad("call", 0), Quad("getretval", 0)>>
  <2>1. Len(s) = 3 /\ 3 \in Nat /\ Emit(s) /\ \A i \in 1 .. 3 : Good(s[i])
    BY <1>2, <1>4
  <2> HIDE DEF s
  <2>2. QED
    BY <1>1, <2>1
<1>5. QED
  BY <1>3, <1>4 DEF Call, Expr

LEMMA TestWrites ==
  ASSUME TypeOK, TypeOK', quads' = Test, currQuad' = currQuad + 2
  PROVE  Writes(Ordinary)
<1> DEFINE s == <<Quad("branch", currQuad + 2)>>
<1>1. /\ Len(s) = 1 /\ 1 \in Nat /\ quads' = Emitted(s)
      /\ \A i \in 1 .. 1 : s[i].in = Function /\ s[i].op \in Ordinary \cup JumpOps
  BY DEF Test, Quad, JumpOps
<1>2. currQuad <= currQuad'
  BY TypesOf
<1> HIDE DEF s
<1>3. QED
  BY <1>1, <1>2, EmittedWrites

LEMMA FunctionsWrite ==
  ASSUME TypeOK, TypeOK', FuncHead \/ FuncEnd
  PROVE  Writes(Marks)
<1>1. currQuad <= currQuad'
  BY TypesOf DEF FuncHead, FuncEnd
<1>2. PICK x : /\ quads' = Emitted(<<x>>)
               /\ x.in = Function /\ x.op \in Marks
  BY DEF FuncHead, FuncEnd, Quad, Marks
<1> DEFINE s == <<x>>
<1>3. /\ Len(s) = 1 /\ 1 \in Nat /\ quads' = Emitted(s)
      /\ \A i \in 1 .. 1 : s[i].in = Function /\ s[i].op \in Marks
  BY <1>2
<1> HIDE DEF s
<1>4. QED
  BY <1>1, <1>3, EmittedWrites

(* The quads that the ends of statements write have been reserved. *)
LEMMA HeadsFree ==
  ASSUME ReservedInv
  PROVE  /\ Len(if_label_stack) > 0 => Free(Head(if_label_stack))
         /\ Len(else_label_stack) > 0 => Free(Head(else_label_stack))
         /\ Len(loops.while_end_label_stack) > 0 => Free(Head(loops.while_end_label_stack))
         /\ Len(loops.for_start_stack) > 0 =>
              /\ Free(Head(loops.for_start_stack))
              /\ Free(Head(loops.for_start_stack) + 1)
<1> DEFINE F == FreeLabels
           G == FreePairs
<1>1. \A l \in F : Free(l)
  BY DEF FreeLabels
<1>2. \A l \in G : Free(l) /\ Free(l + 1)
  BY <1>1 DEF FreePairs
<1>3. /\ if_label_stack \in Seq(F) /\ else_label_stack \in Seq(F)
      /\ loops.while_end_label_stack \in Seq(F) /\ loops.for_start_stack \in Seq(G)
  BY DEF ReservedInv, StacksIn
<1> HIDE DEF F, G
<1>4. QED
  BY <1>1, <1>2, <1>3, HeadFacts

LEMMA LastFree == TypeOK => Free(currQuad)
BY TypesOf DEF Free, QuadsTyped, Upto

LEMMA IfEndWrites ==
  ASSUME OpensInv, ReservedInv, TypeOK', IfEnd
  PROVE  Writes(Ordinary)
<1>1. /\ TypeOK /\ currQuad \in Nat /\ Len(if_label_stack) > 0
      /\ Innermost.at \in {"body", "else"}
  BY IfEndForms, IfThere DEF IfEnd, Expecting
<1>2. Rewritten(quads) /\ currQuad <= currQuad'
  BY <1>1 DEF Rewritten, IfEnd
<1>3. Free(Head(if_label_stack))
  BY <1>1, HeadsFree
<1>4. Rewritten(quads')
  <2>1. CASE Innermost.at = "body"
    BY <1>2, <1>3, <2>1, IfEndForms, JumpIsJump, RewritingOne
  <2>2. CASE Innermost.at = "else"
    <3> DEFINE i == Head(if_label_stack)
               e == Head(else_label_stack)
    <3>1. Free(i) /\ Free(e)
      BY <1>3, <2>2, HeadsFree, IfEndForms
    <3>2. quads' = ((i :> JumpTo(e + 1)) @@ (e :> JumpTo(currQuad))) @@ quads
      BY <2>2, IfEndForms
    <3> HIDE DEF i, e
    <3> DEFINE p == (i :> JumpTo(e + 1)) @@ (e :> JumpTo(currQuad))
    <3>3. \A l \in DOMAIN p : Free(l) /\ JumpHere(p[l])
      BY <3>1, JumpIsJump DEF @@, :>
    <3> HIDE DEF p
    <3>4. QED
      BY <1>2, <3>2, <3>3, Rewriting DEF p
  <2>3. QED
    BY <1>1, <2>1, <2>2
<1>5. QED
  BY <1>1, <1>2, <1>4, RewrittenWrites

LEMMA PatchedFree ==
  ASSUME NEW s \in Seq(FreeLabels), NEW k \in 0 .. Len(s), NEW l
  PROVE  \A q \in DOMAIN Patched(s, k, l) : Free(q) /\ JumpHere(Patched(s, k, l)[q])
<1> DEFINE F == FreeLabels
<1>1. \A q \in F : Free(q)
  BY DEF FreeLabels
<1>2. s \in Seq(F)
  OBVIOUS
<1> HIDE DEF F
<1>3. \A i \in 1 .. k : s[i] \in F
  BY <1>2
<1>4. QED
  BY <1>1, <1>3, JumpIsJump DEF Patched

LEMMA LoopEndsWrite ==
  ASSUME OpensInv, ReservedInv, NEW start, NEW jumps, Rewritten(jumps),
         Len(loops.num_of_breaks_stack) > 0, Len(loops.num_of_continues_stack) > 0
  PROVE  Rewritten(JumpsOut(jumps, start))
<1> DEFINE p == Patched(loops.break_stack, Breaks, currQuad + 1)
           c == Patched(loops.continue_stack, Continues, start)
<1>1. /\ Breaks \in 0 .. Len(loops.break_stack)
      /\ Continues \in 0 .. Len(loops.continue_stack)
      /\ loops.break_stack \in Seq(FreeLabels) /\ loops.continue_stack \in Seq(FreeLabels)
  BY BreaksFacts DEF OpensInv, ReservedInv, StacksIn
<1>2. \A q \in DOMAIN p : Free(q) /\ JumpHere(p[q])
  BY <1>1, PatchedFree
<1>3. \A q \in DOMAIN c : Free(q) /\ JumpHere(c[q])
  BY <1>1, PatchedFree
<1>4. JumpsOut(jumps, start) = (p @@ c) @@ jumps
  BY DEF JumpsOut
<1> HIDE DEF p, c
<1> DEFINE b == p @@ c
<1>5. \A q \in DOMAIN b : Free(q) /\ JumpHere(b[q])
  BY <1>2, <1>3 DEF @@
<1> HIDE DEF b
<1>6. QED
  BY <1>4, <1>5, Rewriting DEF b

(* Two jumps, written in front of what has been there. *)
LEMMA RewritingTwo ==
  ASSUME NEW i, Free(i), NEW x, JumpHere(x), NEW j, Free(j), NEW y, JumpHere(y)
  PROVE  Rewritten((i :> x) @@ (j :> y) @@ quads)
<1> DEFINE p == (i :> x) @@ (j :> y)
<1>1. \A l \in DOMAIN p : Free(l) /\ JumpHere(p[l])
  BY DEF @@, :>
<1>2. Rewritten(quads)
  BY DEF Rewritten
<1> HIDE DEF p
<1>3. QED
  BY <1>1, <1>2, Rewriting DEF p

LEMMA LoopsWrite ==
  ASSUME OpensInv, ReservedInv, TypeOK', WhileEnd \/ ForEnd \/ StepDone
  PROVE  Writes(Ordinary)
<1>1. TypeOK /\ currQuad \in Nat /\ currQuad <= currQuad' /\ Free(currQuad)
  BY TypesOf, LastFree DEF OpensInv, WhileEnd, ForEnd, StepDone
<1>2. Rewritten(quads')
  <2>1. CASE WhileEnd
    <3> DEFINE start == Head(while_start_label_stack)
               exit == Head(loops.while_end_label_stack)
    <3>1. /\ Len(loops.while_end_label_stack) > 0
          /\ Len(loops.num_of_breaks_stack) > 0 /\ Len(loops.num_of_continues_stack) > 0
      BY <2>1, WhileThere DEF WhileEnd
    <3>2. Free(exit)
      BY <3>1, HeadsFree
    <3>3. quads' = JumpsOut((currQuad :> JumpTo(start)) @@ (exit :> JumpTo(currQuad + 1))
                              @@ quads, start)
      BY <2>1 DEF WhileEnd
    <3> HIDE DEF start, exit
    <3>4. Rewritten((currQuad :> JumpTo(start)) @@ (exit :> JumpTo(currQuad + 1)) @@ quads)
      BY <1>1, <3>2, JumpIsJump, RewritingTwo
    <3>5. QED
      BY <3>1, <3>3, <3>4, LoopEndsWrite
  <2>2. CASE ForEnd
    <3> DEFINE start == Head(loops.for_start_stack)
    <3>1. /\ Len(loops.for_start_stack) > 0
          /\ Len(loops.num_of_breaks_stack) > 0 /\ Len(loops.num_of_continues_stack) > 0
      BY <1>1, <2>2, ForThere, CountersThere DEF ForEnd
    <3>2. Free(start + 1)
      BY <3>1, HeadsFree
    <3>3. quads' = JumpsOut((currQuad :> JumpTo(start + 2))
                              @@ ((start + 1) :> JumpTo(currQuad + 1)) @@ quads, start + 2)
      BY <2>2 DEF ForEnd
    <3> HIDE DEF start
    <3>4. Rewritten((currQuad :> JumpTo(start + 2))
                      @@ ((start + 1) :> JumpTo(currQuad + 1)) @@ quads)
      BY <1>1, <3>2, JumpIsJump, RewritingTwo
    <3>5. QED
      BY <3>1, <3>3, <3>4, LoopEndsWrite
  <2>3. CASE StepDone
    <3>1. Len(loops.for_start_stack) > 0
      BY <2>3, ForThere DEF StepDone
    <3>2. Free(Head(loops.for_start_stack))
      BY <3>1, HeadsFree
    <3>3. QED
      BY <1>1, <2>3, <3>2, JumpIsJump, RewritingTwo DEF StepDone
  <2>4. QED
    BY <2>1, <2>2, <2>3
<1>3. QED
  BY <1>1, <1>2, RewrittenWrites

-----------------------------------------------------------------------------
(* What is on the stacks has been reserved *)

LEMMA Sooner ==
  ASSUME TypeOK, ReservedInv, NEW ops, Writes(ops)
  PROVE  /\ if_label_stack \in Seq(FreeLabels') /\ else_label_stack \in Seq(FreeLabels')
         /\ loops \in StacksIn(FreeLabels', FreePairs')
         /\ function_loop_stack \in Seq(StacksIn(FreeLabels', FreePairs'))
<1>1. FreeLabels \subseteq FreeLabels' /\ FreePairs \subseteq FreePairs'
  BY StaysFree
<1>2. PICK F, G, H, K : /\ F = FreeLabels /\ G = FreePairs /\ H = FreeLabels' /\ K = FreePairs'
  OBVIOUS
<1>3. /\ if_label_stack \in Seq(F) /\ else_label_stack \in Seq(F)
      /\ loops \in StacksIn(F, G) /\ function_loop_stack \in Seq(StacksIn(F, G))
  BY <1>2 DEF ReservedInv
<1>4. F \subseteq H /\ G \subseteq K
  BY <1>1, <1>2
<1>5. /\ if_label_stack \in Seq(H) /\ else_label_stack \in Seq(H)
      /\ loops \in StacksIn(H, K) /\ function_loop_stack \in Seq(StacksIn(H, K))
  BY <1>3, <1>4, StacksGrow
<1>6. QED
  BY <1>2, <1>5

LEMMA Later ==
  ASSUME NEW F, NEW G, F = FreeLabels', G = FreePairs',
         if_label_stack' \in Seq(F), else_label_stack' \in Seq(F),
         loops' \in StacksIn(F, G), function_loop_stack' \in Seq(StacksIn(F, G))
  PROVE  ReservedInv'
BY DEF ReservedInv

LEMMA NewFree ==
  ASSUME NEW l \in Nat, currQuad' \in Nat, l < currQuad', l \notin DOMAIN quads'
  PROVE  l \in FreeLabels'
<1>1. l \in Labels'
  <2>1. \A m, n \in Nat : m < n => m \in 0 .. n - 1
    OBVIOUS
  <2>2. QED
    BY <2>1 DEF Labels
<1>2. Free(l)'
  BY DEF Free
<1>3. QED
  BY <1>1, <1>2 DEF FreeLabels

LEMMA ReservedSame ==
  ASSUME TypeOK, ReservedInv, NEW ops, Writes(ops),
         UNCHANGED <<if_label_stack, else_label_stack, loops, function_loop_stack>>
  PROVE  ReservedInv'
BY Sooner, Later

LEMMA PushIn ==
  ASSUME NEW S, NEW s \in Seq(S), NEW x \in S
  PROVE  Push(s, x) \in Seq(S)
BY PushFacts

LEMMA TestDomain ==
  ASSUME TypeOK, quads' = Test
  PROVE  currQuad \in Nat /\ currQuad + 1 \notin DOMAIN quads'
<1>1. currQuad \in Nat /\ DOMAIN quads \subseteq Upto(currQuad)
  BY TypesOf DEF QuadsTyped
<1>2. DOMAIN quads' = currQuad .. currQuad + Len(<<Quad("branch", currQuad + 2)>>) - 1
                        \cup DOMAIN quads
  BY DEF Test, Emitted, @@
<1>3. Len(<<Quad("branch", currQuad + 2)>>) = 1
  OBVIOUS
<1>4. \A n \in Nat : n + 1 \notin n .. n + 1 - 1 /\ n + 1 \notin Upto(n)
  BY DEF Upto
<1>5. QED
  BY <1>1, <1>2, <1>3, <1>4

LEMMA IfsReserve ==
  ASSUME OpensInv, ReservedInv, TypeOK', IfThen \/ IfElse \/ IfEnd
  PROVE  ReservedInv' /\ Writes(Ordinary) /\ UNCHANGED function_name_stack
<1>1. TypeOK /\ currQuad \in Nat /\ DOMAIN quads \subseteq Upto(currQuad)
  BY TypesOf DEF OpensInv, QuadsTyped
<1>2. Writes(Ordinary)
  <2>1. CASE IfThen
    BY <1>1, <2>1, TestWrites DEF IfThen
  <2>2. CASE IfElse
    BY <1>1, <2>2, NothingWritten DEF IfElse
  <2>3. QED
    BY <1>1, <2>1, <2>2, IfEndWrites
<1>3. PICK F, G : F = FreeLabels' /\ G = FreePairs'
  OBVIOUS
<1>4. /\ if_label_stack \in Seq(F) /\ else_label_stack \in Seq(F)
      /\ loops \in StacksIn(F, G) /\ function_loop_stack \in Seq(StacksIn(F, G))
  BY <1>1, <1>2, <1>3, Sooner
<1>5. UNCHANGED <<loops, function_loop_stack, function_name_stack>>
  BY DEF IfThen, IfElse, IfEnd
<1>6. if_label_stack' \in Seq(F) /\ else_label_stack' \in Seq(F)
  <2>1. CASE IfThen
    <3>1. currQuad + 1 \in F
      BY <1>1, <1>3, <2>1, TestDomain, NewFree DEF IfThen
    <3>2. QED
      BY <1>4, <2>1, <3>1, PushIn DEF IfThen
  <2>2. CASE IfElse
    <3>1. currQuad \notin DOMAIN quads' /\ currQuad < currQuad' /\ currQuad' \in Nat
      BY <1>1, <2>2 DEF IfElse, Upto
    <3>2. currQuad \in F
      BY <1>1, <1>3, <3>1, NewFree
    <3>3. QED
      BY <1>4, <2>2, <3>2, PushIn DEF IfElse
  <2>3. CASE IfEnd
    <3>1. Len(if_label_stack) > 0 /\ Innermost.at \in {"body", "else"}
      BY <2>3, IfThere DEF IfEnd, Expecting
    <3>2. if_label_stack' \in Seq(F)
      BY <1>4, <2>3, <3>1, HeadFacts DEF IfEnd
    <3>3. else_label_stack' \in Seq(F)
      <4>1. CASE Innermost.at = "body"
        BY <1>4, <2>3, <4>1, IfEndForms
      <4>2. CASE Innermost.at = "else"
        BY <1>4, <2>3, <4>2, IfEndForms, HeadFacts
      <4>3. QED
        BY <3>1, <4>1, <4>2
    <3>4. QED
      BY <3>2, <3>3
  <2>4. QED
    BY <2>1, <2>2, <2>3
<1>7. QED
  BY <1>2, <1>3, <1>4, <1>5, <1>6, Later

(* The counters of breaks and continues hold no labels. *)
LEMMA LoopsIn ==
  ASSUME NEW F, NEW G, loops \in StacksIn(F, G)
  PROVE  /\ loops.break_stack \in Seq(F) /\ loops.continue_stack \in Seq(F)
         /\ loops.num_of_breaks_stack \in Seq(Nat)
         /\ loops.num_of_continues_stack \in Seq(Nat)
         /\ loops.for_start_stack \in Seq(G) /\ loops.while_end_label_stack \in Seq(F)
BY DEF StacksIn

LEMMA LoopBodiesReserve ==
  ASSUME OpensInv, ReservedInv, TypeOK', WhileBody \/ ForCond \/ ForStep \/ Break \/ Continue
  PROVE  ReservedInv' /\ Writes(Ordinary) /\ UNCHANGED function_name_stack
<1>1. TypeOK /\ currQuad \in Nat /\ DOMAIN quads \subseteq Upto(currQuad)
  BY TypesOf DEF OpensInv, QuadsTyped
<1>2. Writes(Ordinary)
  <2>1. CASE WhileBody
    BY <1>1, <2>1, TestWrites DEF WhileBody
  <2>2. CASE ForCond \/ ForStep \/ Break \/ Continue
    <3>1. currQuad <= currQuad' /\ UNCHANGED quads
      BY <1>1, <2>2 DEF ForCond, ForStep, Break, Continue
    <3>2. QED
      BY <1>1, <3>1, NothingWritten
  <2>3. QED
    BY <2>1, <2>2
<1>3. PICK F, G : F = FreeLabels' /\ G = FreePairs'
  OBVIOUS
<1>4. /\ if_label_stack \in Seq(F) /\ else_label_stack \in Seq(F)
      /\ loops \in StacksIn(F, G) /\ function_loop_stack \in Seq(StacksIn(F, G))
  BY <1>1, <1>2, <1>3, Sooner
<1>5. UNCHANGED <<if_label_stack, else_label_stack, function_loop_stack, function_name_stack>>
  BY DEF WhileBody, ForCond, ForStep, Break, Continue
<1>6. loops' \in StacksIn(F, G)
  <2>0. /\ Push(loops.num_of_breaks_stack, 0) \in Seq(Nat)
        /\ Push(loops.num_of_continues_stack, 0) \in Seq(Nat)
    BY <1>1, CountersPushed
  <2>1. CASE WhileBody
    <3>1. currQuad + 1 \in F
      BY <1>1, <1>3, <2>1, TestDomain, NewFree DEF WhileBody
    <3>2. Push(loops.while_end_label_stack, currQuad + 1) \in Seq(F)
      BY <1>4, <3>1, LoopsIn, PushIn
    <3>3. QED
      BY <1>4, <2>0, <2>1, <3>2 DEF WhileBody, StacksIn
  <2>2. CASE ForCond
    BY <1>4, <2>0, <2>2 DEF ForCond, StacksIn
  <2>3. CASE ForStep
    <3>1. /\ currQuad \notin DOMAIN quads' /\ currQuad + 1 \notin DOMAIN quads'
          /\ currQuad < currQuad' /\ currQuad + 1 < currQuad' /\ currQuad' \in Nat
      BY <1>1, <2>3 DEF ForStep, Upto
    <3>2. currQuad \in FreeLabels' /\ currQuad + 1 \in FreeLabels'
      BY <1>1, <3>1, NewFree
    <3>3. currQuad \in Labels'
      BY <3>2 DEF FreeLabels
    <3>4. currQuad \in FreePairs'
      BY <3>2, <3>3 DEF FreePairs
    <3>5. Push(loops.for_start_stack, currQuad) \in Seq(G)
      BY <1>3, <1>4, <3>4, LoopsIn, PushIn
    <3>6. QED
      BY <1>4, <2>3, <3>5 DEF ForStep, StacksIn
  <2>4. CASE Break
    <3>1. currQuad \notin DOMAIN quads' /\ currQuad < currQuad' /\ currQuad' \in Nat
      BY <1>1, <2>4 DEF Break, Upto
    <3>2. currQuad \in F
      BY <1>1, <1>3, <3>1, NewFree
    <3>3. Push(loops.break_stack, currQuad) \in Seq(F)
      BY <1>4, <3>2, LoopsIn, PushIn
    <3>4. Increment(loops.num_of_breaks_stack) \in Seq(Nat)
      BY <1>1, <1>4, <2>4, CountersThere, LoopsIn, IncrementFacts DEF Break
    <3>5. QED
      BY <1>4, <2>4, <3>3, <3>4 DEF Break, StacksIn
  <2>5. CASE Continue
    <3>1. currQuad \notin DOMAIN quads' /\ currQuad < currQuad' /\ currQuad' \in Nat
      BY <1>1, <2>5 DEF Continue, Upto
    <3>2. currQuad \in F
      BY <1>1, <1>3, <3>1, NewFree
    <3>3. Push(loops.continue_stack, currQuad) \in Seq(F)
      BY <1>4, <3>2, LoopsIn, PushIn
    <3>4. Increment(loops.num_of_continues_stack) \in Seq(Nat)
      BY <1>1, <1>4, <2>5, CountersThere, LoopsIn, IncrementFacts DEF Continue
    <3>5. QED
      BY <1>4, <2>5, <3>3, <3>4 DEF Continue, StacksIn
  <2>6. QED
    BY <2>1, <2>2, <2>3, <2>4, <2>5
<1>7. QED
  BY <1>2, <1>3, <1>4, <1>5, <1>6, Later

LEMMA LoopEndsReserve ==
  ASSUME OpensInv, ReservedInv, TypeOK', WhileEnd \/ ForEnd \/ StepDone
  PROVE  ReservedInv' /\ Writes(Ordinary) /\ UNCHANGED function_name_stack
<1>1. TypeOK /\ currQuad \in Nat /\ currQuad <= currQuad
  BY TypesOf DEF OpensInv
<1>2. Writes(Ordinary)
  BY LoopsWrite
<1>3. PICK F, G : F = FreeLabels' /\ G = FreePairs'
  OBVIOUS
<1>4. /\ if_label_stack \in Seq(F) /\ else_label_stack \in Seq(F)
      /\ loops \in StacksIn(F, G) /\ function_loop_stack \in Seq(StacksIn(F, G))
  BY <1>1, <1>2, <1>3, Sooner
<1>5. UNCHANGED <<if_label_stack, else_label_stack, function_loop_stack, function_name_stack>>
  BY DEF WhileEnd, ForEnd, StepDone, stacks
<1>6. ASSUME WhileEnd \/ ForEnd PROVE CountsPopped \in StacksIn(F, G)
  <2>1. Len(loops.num_of_breaks_stack) > 0 /\ Len(loops.num_of_continues_stack) > 0
    BY <1>1, <1>6, CountersThere DEF WhileEnd, ForEnd, InWhile
  <2>2. /\ Drop(loops.break_stack, Breaks) \in Seq(F)
        /\ Drop(loops.continue_stack, Continues) \in Seq(F)
        /\ Tail(loops.num_of_breaks_stack) \in Seq(Nat)
        /\ Tail(loops.num_of_continues_stack) \in Seq(Nat)
    BY <1>1, <1>4, <2>1, LoopsIn, BreaksFacts, DropFacts, HeadFacts
  <2>3. CountsPopped =
              [break_stack |-> Drop(loops.break_stack, Breaks),
               continue_stack |-> Drop(loops.continue_stack, Continues),
               num_of_breaks_stack |-> Tail(loops.num_of_breaks_stack),
               num_of_continues_stack |-> Tail(loops.num_of_continues_stack),
               for_start_stack |-> loops.for_start_stack,
               while_end_label_stack |-> loops.while_end_label_stack]
    BY <1>1, <2>1, CountsPoppedTyped
  <2>4. QED
    BY <1>4, <2>2, <2>3, LoopsIn DEF StacksIn
<1>7. loops' \in StacksIn(F, G)
  <2>1. PICK r : r = CountsPopped
    OBVIOUS
  <2>2. CASE WhileEnd
    <3>1. r \in StacksIn(F, G)
      BY <1>6, <2>1, <2>2
    <3>2. /\ loops' = [r EXCEPT !.while_end_label_stack = Tail(@)]
          /\ r.while_end_label_stack = loops.while_end_label_stack
          /\ Len(loops.while_end_label_stack) > 0
      BY <1>1, <2>1, <2>2, WhileThere, CountsPoppedTyped DEF WhileEnd
    <3>3. Tail(loops.while_end_label_stack) \in Seq(F)
      BY <1>4, <3>2, LoopsIn, HeadFacts
    <3>4. QED
      BY <3>1, <3>2, <3>3 DEF StacksIn
  <2>3. CASE ForEnd
    <3>1. r \in StacksIn(F, G)
      BY <1>6, <2>1, <2>3
    <3>2. /\ loops' = [r EXCEPT !.for_start_stack = Tail(@)]
          /\ r.for_start_stack = loops.for_start_stack
          /\ Len(loops.for_start_stack) > 0
      BY <1>1, <2>1, <2>3, ForThere, CountersThere, CountsPoppedTyped DEF ForEnd
    <3>3. Tail(loops.for_start_stack) \in Seq(G)
      BY <1>4, <3>2, LoopsIn, HeadFacts
    <3>4. QED
      BY <3>1, <3>2, <3>3 DEF StacksIn
  <2>4. CASE StepDone
    BY <1>4, <2>4 DEF StepDone, stacks
  <2>5. QED
    BY <2>2, <2>3, <2>4
<1>8. QED
  BY <1>2, <1>3, <1>4, <1>5, <1>7, Later

LEMMA FunctionsReserve ==
  ASSUME OpensInv, ReservedInv, TypeOK', FuncHead \/ FuncEnd
  PROVE  ReservedInv' /\ Writes(Marks)
<1>1. TypeOK
  BY DEF OpensInv
<1>2. Writes(Marks)
  BY <1>1, FunctionsWrite
<1>3. PICK F, G : F = FreeLabels' /\ G = FreePairs'
  OBVIOUS
<1>4. /\ if_label_stack \in Seq(F) /\ else_label_stack \in Seq(F)
      /\ loops \in StacksIn(F, G) /\ function_loop_stack \in Seq(StacksIn(F, G))
  BY <1>1, <1>2, <1>3, Sooner
<1>5. UNCHANGED <<if_label_stack, else_label_stack>>
  BY DEF FuncHead, FuncEnd
<1>6. loops' \in StacksIn(F, G) /\ function_loop_stack' \in Seq(StacksIn(F, G))
  <2>0. PICK S : S = StacksIn(F, G)
    OBVIOUS
  <2>1. CASE FuncHead
    <3>1. NoLoops \in S
      BY <2>0 DEF NoLoops, StacksIn
    <3>2. QED
      BY <1>4, <2>0, <2>1, <3>1, PushIn DEF FuncHead
  <2>2. CASE FuncEnd
    <3>1. Len(function_loop_stack) > 0
      BY <2>2, FunctionThere DEF FuncEnd
    <3>2. QED
      BY <1>4, <2>0, <2>2, <3>1, HeadFacts DEF FuncEnd
  <2>3. QED
    BY <2>1, <2>2
<1>7. QED
  BY <1>2, <1>3, <1>4, <1>5, <1>6, Later

LEMMA OthersReserve ==
  ASSUME OpensInv, ReservedInv, TypeOK',
         \/ Expression \/ Logic \/ Relop \/ Return
         \/ IfBegin \/ WhileBegin \/ ForBegin \/ SyntaxError
  PROVE  ReservedInv' /\ Writes(Ordinary) /\ UNCHANGED function_name_stack
<1>1. TypeOK /\ currQuad \in Nat
  BY TypesOf DEF OpensInv
<1>2. CASE Expression \/ Logic \/ Relop \/ Return
  <2>1. Writes(Ordinary) /\ UNCHANGED stacks
    BY <1>1, <1>2, ExpressionsWrite
  <2>2. QED
    BY <1>1, <2>1, ReservedSame DEF stacks
<1>3. CASE IfBegin \/ WhileBegin \/ ForBegin \/ SyntaxError
  <2>1. /\ UNCHANGED <<quads, currQuad>>
        /\ UNCHANGED <<if_label_stack, else_label_stack, loops, function_loop_stack>>
        /\ UNCHANGED function_name_stack
    BY <1>3 DEF IfBegin, WhileBegin, ForBegin, SyntaxError, stacks
  <2>2. currQuad <= currQuad'
    BY <1>1, <2>1
  <2>3. Writes(Ordinary)
    BY <1>1, <2>1, <2>2, NothingWritten
  <2>4. QED
    BY <1>1, <2>1, <2>3, ReservedSame
<1>4. QED
  BY <1>2, <1>3

LEMMA CallReserves ==
  ASSUME OpensInv, ReservedInv, TypeOK', Call
  PROVE  ReservedInv' /\ Writes(Calls) /\ UNCHANGED function_name_stack
<1>1. TypeOK
  BY DEF OpensInv
<1>2. Writes(Calls) /\ UNCHANGED stacks
  BY <1>1, CallWrites
<1>3. QED
  BY <1>1, <1>2, ReservedSame DEF stacks

LEMMA ParserWrites ==
  ASSUME OpensInv, ReservedInv, ParseAny
  PROVE  /\ TypeOK' /\ ReservedInv'
         /\ \/ Writes(Ordinary) /\ UNCHANGED function_name_stack
            \/ Call /\ Writes(Calls) /\ UNCHANGED function_name_stack
            \/ FuncHead /\ Writes(Marks)
            \/ FuncEnd /\ Writes(Marks)
<1>1. TypeOK'
  BY TypeStep
<1>2. /\ FuncStart \/ FuncHeadError => FuncHead
      /\ ForBody \/ StepError => StepDone
  BY DEF FuncStart, FuncHeadError, ForBody, StepError
<1>3. QED
  BY <1>1, <1>2, OthersReserve, CallReserves, IfsReserve, LoopBodiesReserve, LoopEndsReserve,
     FunctionsReserve
  DEF ParseAny, Parse

LEMMA InitReserved == Init => ReservedInv
<1>1. ASSUME NEW S PROVE <<>> \in Seq(S)
  OBVIOUS
<1>2. QED
  BY <1>1 DEF Init, ReservedInv, NoLoops, StacksIn

-----------------------------------------------------------------------------
(* Functions are nested: nest[l] are those around quad l, the innermost    *)
(* first.                                                                  *)

InnermostOf(s) == IF s = <<>> THEN Main ELSE Head(s)

Nested(l, s, t) ==
  /\ l \in DOMAIN quads /\ quads[l].op = "func_start" => t = Push(s, l)
  /\ l \in DOMAIN quads /\ quads[l].op = "func_end" =>
       s # <<>> /\ quads[l].to = Head(s) /\ t = Tail(s)
  /\ (l \in DOMAIN quads => quads[l].op \notin Marks) => t = s
  /\ l \in DOMAIN quads /\ quads[l].op \notin JumpOps => quads[l].in = InnermostOf(s)

Nesting(nest) ==
  /\ \A l \in 0 .. currQuad : nest[l] \in Seq(Nat)
  /\ nest[0] = <<>> /\ nest[currQuad] = function_name_stack
  /\ \A l \in Labels : Nested(l, nest[l], nest[l + 1])

LEMMA StaysNested ==
  ASSUME TypeOK, NEW ops, Writes(ops), NEW l \in Labels, NEW s, NEW t, Nested(l, s, t)
  PROVE  Nested(l, s, t)'
<1>1. ~(currQuad <= l)
  BY TypesOf DEF Labels
<1>2. CASE l \in DOMAIN quads /\ quads[l].op \notin JumpOps
  BY <1>2 DEF Writes, Kept, Nested
<1>3. CASE ~(l \in DOMAIN quads /\ quads[l].op \notin JumpOps)
  <2>1. l \in DOMAIN quads' => quads'[l].op \in JumpOps
    BY <1>1, <1>3 DEF Writes, Added
  <2>2. t = s
    BY <1>3 DEF Nested, JumpOps, Marks
  <2>3. QED
    BY <2>1, <2>2 DEF Nested, JumpOps, Marks
<1>4. QED
  BY <1>2, <1>3

NamesTyped == currQuad \in Nat /\ function_name_stack \in Seq(Nat)

LEMMA NamesAreTyped == TypeOK => NamesTyped
<1>1. SUFFICES ASSUME TypeOK PROVE NamesTyped
  OBVIOUS
<1>2. currQuad \in Nat /\ function_name_stack \in Seq(Upto(currQuad))
  BY <1>1, TypesOf DEF LabelsTyped
<1>3. Upto(currQuad) \subseteq Nat
  BY <1>2 DEF Upto
<1>4. QED
  BY <1>2, <1>3 DEF NamesTyped

LEMMA NamesLater == TypeOK' => NamesTyped'
<1>1. TypeOK => NamesTyped
  BY NamesAreTyped
<1>2. QED
  BY <1>1, PTL

(* A step that adds quads between s and t. *)
AddedBetween(c, d, s, t) == \A l \in c .. d - 1 : Nested(l, s, t)'

Between(c, d, s, t) ==
  /\ c = currQuad /\ d = currQuad' /\ c <= d
  /\ s = function_name_stack /\ t = function_name_stack'

(* The new quads stand in t. *)
GoesTo(nest, n, c, d, t) ==
  /\ \A l \in 0 .. c : n[l] = nest[l]
  /\ \A l \in 0 .. d : c < l => n[l] = t

LEMMA NestGrows ==
  ASSUME TypeOK, TypeOK', NEW ops, Writes(ops), NEW nest, Nesting(nest),
         NEW c \in Nat, NEW d \in Nat, NEW s, NEW t, Between(c, d, s, t),
         s = t \/ d = c + 1,
         AddedBetween(c, d, s, t)
  PROVE  \E n : Nesting(n)' /\ GoesTo(nest, n, c, d, t)
<1>0. c <= d
  BY DEF Between
<1> DEFINE n == [l \in 0 .. d |-> IF l <= c THEN nest[l] ELSE t]
<1>1. /\ \A l \in 0 .. c : l \in 0 .. d /\ n[l] = nest[l]
      /\ \A l \in 0 .. d : ~(l \in 0 .. c) => n[l] = t
  BY <1>0
<1> HIDE DEF n
<1>2. s \in Seq(Nat) /\ t \in Seq(Nat)
  BY NamesAreTyped, NamesLater DEF NamesTyped, Between
<1>3. \A l \in 0 .. d : n[l] \in Seq(Nat)
  BY <1>1, <1>2 DEF Nesting, Between
<1>4. n[0] = <<>>
  BY <1>1 DEF Nesting
<1>5. nest[c] = s
  BY DEF Nesting, Between
<1>6. n[d] = t
  <2>1. CASE c = d
    <3>1. s = t
      BY <2>1
    <3>2. QED
      BY <1>1, <1>5, <2>1, <3>1
  <2>2. CASE c # d
    <3>1. d \in 0 .. d /\ d \notin 0 .. c
      BY <1>0, <2>2
    <3>2. QED
      BY <1>1, <3>1
  <2>3. QED
    BY <2>1, <2>2
<1>7. ASSUME NEW l \in 0 .. d - 1 PROVE Nested(l, n[l], n[l + 1])'
  <2>1. CASE l < c
    <3>1. l \in Labels /\ l \in 0 .. c /\ l + 1 \in 0 .. c
      BY <2>1 DEF Labels, Between
    <3>2. Nested(l, nest[l], nest[l + 1])
      BY <3>1 DEF Nesting
    <3>3. PICK x, y : x = nest[l] /\ y = nest[l + 1]
      OBVIOUS
    <3>4. Nested(l, x, y)'
      BY <3>1, <3>2, <3>3, StaysNested
    <3>5. QED
      BY <1>1, <3>1, <3>3, <3>4
  <2>2. CASE ~(l < c)
    <3>0. l \in Nat /\ l >= c /\ l < d
      BY <2>2
    <3>1. l \in c .. d - 1 /\ l + 1 \in 0 .. d /\ l + 1 \notin 0 .. c
      BY <3>0
    <3>2. n[l + 1] = t
      BY <1>1, <3>1
    <3>3. n[l] = s
      <4>1. CASE l = c
        BY <1>1, <1>5, <4>1
      <4>2. CASE l # c
        <5>1. l \in 0 .. d /\ l \notin 0 .. c /\ d # c + 1
          BY <3>0, <4>2
        <5>2. QED
          BY <1>1, <5>1
      <4>3. QED
        BY <4>1, <4>2
    <3>4. Nested(l, s, t)'
      BY <3>1 DEF AddedBetween
    <3>5. QED
      BY <3>2, <3>3, <3>4
  <2>3. QED
    BY <2>1, <2>2
<1>8. Nesting(n)'
  <2>1. \A l \in Labels' : l \in 0 .. d - 1
    BY DEF Labels, Between
  <2>2. QED
    BY <1>3, <1>4, <1>6, <1>7, <2>1 DEF Nesting, Between
<1>9. GoesTo(nest, n, c, d, t)
  <2>1. \A l \in 0 .. d : c < l => l \notin 0 .. c
    OBVIOUS
  <2>2. QED
    BY <1>1, <2>1 DEF GoesTo
<1>10. QED
  BY <1>8, <1>9

LEMMA NestKept ==
  ASSUME OpensInv, ReservedInv, ParseAny, NEW nest, Nesting(nest)
  PROVE  \E n : /\ Nesting(n)'
               /\ GoesTo(nest, n, currQuad, currQuad', function_name_stack')
<1>1. PICK s, t : s = function_name_stack /\ t = function_name_stack'
  OBVIOUS
<1>2. /\ TypeOK /\ TypeOK' /\ Function = InnermostOf(s)
      /\ DOMAIN quads \subseteq Upto(currQuad)
  BY <1>1, ParserWrites, TypesOf DEF OpensInv, Function, InnermostOf, QuadsTyped
<1>3. PICK c, d \in Nat : c = currQuad /\ d = currQuad' /\ c <= d
  BY <1>2, TypesOf, ParserWrites DEF Writes
<1>4. CASE (Writes(Ordinary) \/ Writes(Calls)) /\ UNCHANGED function_name_stack
  <2>1. s = t
    BY <1>1, <1>4
  <2>2. \A l \in c .. d - 1 : l \notin DOMAIN quads
    BY <1>2, <1>3 DEF Upto
  <2>3. \A l \in c .. d - 1 : Nested(l, s, t)'
    BY <1>2, <1>3, <1>4, <2>1, <2>2
    DEF Writes, Added, Nested, JumpOps, Marks, Ordinary, Calls
  <2>4. QED
    BY <1>1, <1>2, <1>3, <1>4, <2>1, <2>3, NestGrows DEF AddedBetween, Between
<1>5. CASE FuncHead /\ Writes(Marks)
  <2>1. d = c + 1 /\ t = Push(s, c)
    BY <1>1, <1>3, <1>5 DEF FuncHead
  <2>2. /\ c \in DOMAIN quads' /\ quads'[c].op = "func_start"
        /\ quads'[c].in = InnermostOf(s)
    BY <1>2, <1>3, <1>5 DEF FuncHead, Emitted, @@, Quad
  <2>3. \A l \in c .. d - 1 : l = c
    BY <2>1
  <2>4. Nested(c, s, t)'
    BY <2>1, <2>2 DEF Nested, Marks
  <2>5. AddedBetween(c, d, s, t)
    BY <2>3, <2>4 DEF AddedBetween
  <2>6. QED
    BY <1>1, <1>2, <1>3, <1>5, <2>1, <2>5, NestGrows DEF Between
<1>6. CASE FuncEnd /\ Writes(Marks)
  <2>1. d = c + 1 /\ t = Tail(s) /\ s # <<>>
    BY <1>1, <1>3, <1>6, FunctionThere DEF FuncEnd
  <2>2. /\ c \in DOMAIN quads' /\ quads'[c].op = "func_end"
        /\ quads'[c].to = Head(s) /\ quads'[c].in = InnermostOf(s)
    BY <1>1, <1>2, <1>3, <1>6 DEF FuncEnd, Emitted, @@, Quad
  <2>3. \A l \in c .. d - 1 : l = c
    BY <2>1
  <2>4. Nested(c, s, t)'
    BY <2>1, <2>2 DEF Nested, Marks
  <2>5. AddedBetween(c, d, s, t)
    BY <2>3, <2>4 DEF AddedBetween
  <2>6. QED
    BY <1>1, <1>2, <1>3, <1>6, <2>1, <2>5, NestGrows DEF Between
<1>7. QED
  BY <1>4, <1>5, <1>6, ParserWrites

LEMMA InitNested == Init => \E n : Nesting(n)
<1>1. SUFFICES ASSUME Init PROVE \E n : Nesting(n)
  OBVIOUS
<1> DEFINE n == [l \in {0} |-> <<>>]
<1>2. currQuad = 0 /\ function_name_stack = <<>> /\ quads = <<>>
  BY <1>1 DEF Init
<1>3. Labels = {} /\ 0 .. 0 = {0}
  BY <1>2 DEF Labels
<1>4. n[0] = <<>> /\ <<>> \in Seq(Nat)
  OBVIOUS
<1> HIDE DEF n
<1>5. Nesting(n)
  BY <1>2, <1>3, <1>4 DEF Nesting
<1>6. QED
  BY <1>5


-----------------------------------------------------------------------------
(* How the instructions of the first n quads are laid out, up to address h. *)

Size(op) == CASE op = "and_or" -> 5 [] op = "not" -> 4
              [] op \in {"ret", "func_start"} -> 2 [] OTHER -> 1

Offset(op) == IF op = "func_start" THEN 1 ELSE 0

Laid(Q, F, T, n, h) ==
  /\ DOMAIN F = Upto(n) /\ DOMAIN T = Upto(n) /\ Upto(n) \subseteq DOMAIN Q
  /\ \A q \in Upto(n) : /\ F[q] \in Nat /\ F[q] + Size(Q[q].op) <= h
                        /\ T[q] = F[q] + Offset(Q[q].op)
  /\ \A q, r \in Upto(n) : q < r => F[q] + Size(Q[q].op) <= F[r]

Enters(Q, F, n, a) == \E f \in Upto(n) : Q[f].op = "func_start" /\ a = F[f] + 1

InstrOps == JumpOps \cup {"plain", "param", "call", "getretval", "funcenter", "funcexit"}
Instrs   == [op : InstrOps, to : Nat, in : Nat \cup {Main}]

Coded(Q, F, I, n, h) ==
  /\ DOMAIN I = Upto(h)
  /\ \A a \in Upto(h) : I[a] \in Instrs /\ (I[a].op = "funcenter" <=> Enters(Q, F, n, a))

(* What has been noted is a jump. *)
Heads(Q, F, J, n) ==
  \A j \in J : \E q \in Upto(n) : Q[q].op \in JumpOps /\ j = <<F[q], Q[q].to>>

(* The jumps, before the incomplete ones are patched. *)
Jumping(Q, F, T, I, J, n) ==
  /\ \A q \in Upto(n) : Q[q].op \in JumpOps =>
       IF Q[q].to < q THEN I[F[q]].to = T[Q[q].to] ELSE <<F[q], Q[q].to>> \in J
  /\ Heads(Q, F, J, n)

Starts(Q, n) == {f \in Upto(n) : Q[f].op = "func_start"}
ReturnsOf(Q, n, f) == {q \in Upto(n) : Q[q].op = "ret" /\ Q[q].in = f}

ClosedBy(Q, F, I, n, f, e) ==
  /\ Q[e].op = "func_end" /\ Q[e].to = f
  /\ I[F[f]].to = F[e] + 1
  /\ \A q \in ReturnsOf(Q, n, f) : I[F[q] + 1].to = F[e]

(* A function is on the stack, or all that leads to its end does so. *)
Closing(Q, F, I, S, R, n) ==
  /\ DOMAIN R = Starts(Q, n) /\ S \in Seq(Starts(Q, n))
  /\ \A q \in Upto(n) : Q[q].op = "ret" => Q[q].in \in Starts(Q, n)
  /\ \A f \in Starts(Q, n) :
       /\ R[f] = {F[f]} \cup {F[q] + 1 : q \in ReturnsOf(Q, n, f)}
       /\ \/ \E i \in 1 .. Len(S) : S[i] = f
          \/ \E e \in Upto(n) : ClosedBy(Q, F, I, n, f, e)

LEMMA SizeFacts ==
  \A op : Size(op) \in Nat /\ Size(op) >= 1 /\ Offset(op) \in Nat /\ Offset(op) < Size(op)
BY DEF Size, Offset

LEMMA UptoNext ==
  ASSUME NEW n \in Nat
  PROVE  /\ Upto(n + 1) = Upto(n) \cup {n} /\ n \notin Upto(n)
         /\ \A q \in Upto(n) : q \in Nat /\ q < n
BY DEF Upto

LEMMA UptoWithin ==
  ASSUME NEW n \in Nat, NEW m \in Nat, n <= m
  PROVE  Upto(n) \subseteq Upto(m)
BY DEF Upto

Extended(F, n, e, G) == G = (n :> e) @@ F
Offsets(e, h, op)    == e = h + Offset(op)

LEMMA LaidNext ==
  ASSUME NEW Q, NEW F, NEW T, NEW n \in Nat, NEW h \in Nat, Laid(Q, F, T, n, h),
         n \in DOMAIN Q, NEW e, Offsets(e, h, Q[n].op),
         NEW G, Extended(F, n, h, G), NEW U, Extended(T, n, e, U)
  PROVE  /\ Laid(Q, G, U, n + 1, h + Size(Q[n].op))
         /\ G[n] = h /\ \A q \in Upto(n) : G[q] = F[q]
<1>1. /\ DOMAIN G = Upto(n) \cup {n} /\ DOMAIN U = Upto(n) \cup {n}
      /\ G[n] = h /\ U[n] = h + Offset(Q[n].op)
      /\ \A q \in Upto(n) : q # n => G[q] = F[q] /\ U[q] = T[q]
  BY DEF Laid, Extended, Offsets, @@, :>
<1>2. PICK k \in Nat : k = Size(Q[n].op) /\ k >= 1
  BY SizeFacts
<1>3. ASSUME NEW q \in Upto(n)
      PROVE  G[q] = F[q] /\ U[q] = T[q] /\ q \in Nat /\ q < n
  BY <1>1, <1>3, UptoNext
<1>4. ASSUME NEW q \in Upto(n + 1)
      PROVE  /\ G[q] \in Nat /\ G[q] + Size(Q[q].op) <= h + k
             /\ U[q] = G[q] + Offset(Q[q].op)
  <2>1. CASE q = n
    BY <1>1, <1>2, <2>1
  <2>2. CASE q # n
    <3>1. q \in Upto(n)
      BY <2>2, UptoNext
    <3>2. F[q] \in Nat /\ F[q] + Size(Q[q].op) <= h /\ T[q] = F[q] + Offset(Q[q].op)
      BY <3>1 DEF Laid
    <3>3. Size(Q[q].op) \in Nat
      BY SizeFacts
    <3>4. QED
      BY <1>2, <1>3, <3>1, <3>2, <3>3
  <2>3. QED
    BY <2>1, <2>2
<1>5. ASSUME NEW q \in Upto(n + 1), NEW r \in Upto(n + 1), q < r
      PROVE  G[q] + Size(Q[q].op) <= G[r]
  <2>1. q \in Upto(n)
    BY <1>5, UptoNext DEF Upto
  <2>2. CASE r = n
    BY <1>1, <1>3, <2>1, <2>2 DEF Laid
  <2>3. CASE r # n
    <3>1. r \in Upto(n)
      BY <2>3, UptoNext
    <3>2. QED
      BY <1>3, <1>5, <2>1, <3>1 DEF Laid
  <2>4. QED
    BY <2>2, <2>3
<1>6. Upto(n + 1) \subseteq DOMAIN Q
  BY UptoNext DEF Laid
<1>7. QED
  BY <1>1, <1>2, <1>3, <1>4, <1>5, <1>6, UptoNext DEF Laid

(* No two quads share an instruction. *)
LEMMA AddressesApart ==
  ASSUME NEW Q, NEW F, NEW T, NEW n \in Nat, NEW h \in Nat, Laid(Q, F, T, n, h),
         NEW q \in Upto(n), NEW r \in Upto(n),
         NEW i \in Nat, i < Size(Q[q].op), NEW j \in Nat, j < Size(Q[r].op),
         F[q] + i = F[r] + j
  PROVE  q = r /\ i = j
<1>1. q \in Nat /\ r \in Nat /\ F[q] \in Nat /\ F[r] \in Nat
  BY DEF Laid, Upto
<1>2. /\ q < r => F[q] + Size(Q[q].op) <= F[r]
      /\ r < q => F[r] + Size(Q[r].op) <= F[q]
  BY DEF Laid
<1>3. Size(Q[q].op) \in Nat /\ Size(Q[r].op) \in Nat
  BY SizeFacts
<1>4. QED
  BY <1>1, <1>2, <1>3

LEMMA AddressWithin ==
  ASSUME NEW Q, NEW F, NEW T, NEW n \in Nat, NEW h \in Nat, Laid(Q, F, T, n, h),
         NEW q \in Upto(n), NEW i \in Nat, i < Size(Q[q].op)
  PROVE  F[q] + i \in Upto(h) /\ F[q] \in Upto(h)
<1>1. F[q] \in Nat /\ Size(Q[q].op) \in Nat /\ F[q] + Size(Q[q].op) <= h
  BY SizeFacts DEF Laid
<1>2. QED
  BY <1>1 DEF Upto


-----------------------------------------------------------------------------
(* What the instructions of one more quad leave as it was *)

(* P are the instructions, in which the targets of some may have changed;  *)
(* those in s follow.                                                      *)
Block(h, k, s) == [a \in h .. h + k - 1 |-> s[a - h + 1]]

Patches(P, I, h) ==
  /\ DOMAIN P = DOMAIN I
  /\ \A a \in Upto(h) : P[a].op = I[a].op /\ P[a] \in Instrs

Suited(s, k, op) ==
  /\ k = Size(op)
  /\ \A i \in 1 .. k : /\ s[i] \in Instrs
                       /\ s[i].op = "funcenter" <=> op = "func_start" /\ i = 2

Extends(F, G, n) == \A q \in Upto(n) : G[q] = F[q]

LEMMA BlockFacts ==
  ASSUME NEW h \in Nat, NEW k \in Nat, NEW s, NEW P, DOMAIN P = Upto(h),
         NEW K, K = Block(h, k, s) @@ P
  PROVE  /\ DOMAIN K = Upto(h + k)
         /\ \A i \in 1 .. k : h + i - 1 \in Upto(h + k) /\ K[h + i - 1] = s[i]
         /\ \A a \in Upto(h) : a \in Upto(h + k) /\ K[a] = P[a]
         /\ \A a \in Upto(h + k) : a \in Upto(h) \/ \E i \in 1 .. k : a = h + i - 1
<1> DEFINE B == Block(h, k, s)
<1>1. DOMAIN B = h .. h + k - 1 /\ \A a \in h .. h + k - 1 : B[a] = s[a - h + 1]
  BY DEF Block
<1>2. /\ Upto(h + k) = (h .. h + k - 1) \cup Upto(h)
      /\ \A a \in Upto(h) : a \notin h .. h + k - 1
      /\ \A a \in h .. h + k - 1 : a - h + 1 \in 1 .. k /\ a = h + (a - h + 1) - 1
      /\ \A i \in 1 .. k : h + i - 1 \in h .. h + k - 1 /\ (h + i - 1) - h + 1 = i
  BY DEF Upto
<1> HIDE DEF B
<1>3. /\ DOMAIN K = DOMAIN B \cup DOMAIN P
      /\ \A a \in DOMAIN B : K[a] = B[a]
      /\ \A a \in DOMAIN P : a \notin DOMAIN B => K[a] = P[a]
  BY DEF B, @@
<1>4. ASSUME NEW i \in 1 .. k PROVE h + i - 1 \in Upto(h + k) /\ K[h + i - 1] = s[i]
  <2>1. PICK a \in h .. h + k - 1 : a = h + i - 1 /\ a - h + 1 = i
    BY <1>2
  <2>2. K[a] = s[a - h + 1] /\ a \in Upto(h + k)
    BY <1>1, <1>2, <1>3
  <2>3. QED
    BY <2>1, <2>2
<1>5. ASSUME NEW a \in Upto(h + k)
      PROVE  a \in Upto(h) \/ \E i \in 1 .. k : a = h + i - 1
  BY <1>2
<1>6. QED
  BY <1>1, <1>2, <1>3, <1>4, <1>5

LEMMA CodedNext ==
  ASSUME NEW Q, NEW F, NEW T, NEW n \in Nat, NEW h \in Nat, Laid(Q, F, T, n, h),
         NEW I, Coded(Q, F, I, n, h), NEW P, Patches(P, I, h),
         NEW k \in Nat, NEW s, Suited(s, k, Q[n].op),
         NEW G, Extends(F, G, n), G[n] = h, NEW K, K = Block(h, k, s) @@ P
  PROVE  Coded(Q, G, K, n + 1, h + k)
<1>1. /\ DOMAIN K = Upto(h + k)
      /\ \A i \in 1 .. k : h + i - 1 \in Upto(h + k) /\ K[h + i - 1] = s[i]
      /\ \A a \in Upto(h) : a \in Upto(h + k) /\ K[a] = P[a]
      /\ \A a \in Upto(h + k) : a \in Upto(h) \/ \E i \in 1 .. k : a = h + i - 1
  <2>1. DOMAIN P = Upto(h)
    BY DEF Patches, Coded
  <2>2. QED
    BY <2>1, BlockFacts, SMTT(30)
<1>2. ASSUME NEW a \in Upto(h)
      PROVE  K[a] \in Instrs /\ (K[a].op = "funcenter" <=> Enters(Q, G, n + 1, a))
  <2>1. K[a].op = I[a].op /\ K[a] \in Instrs
    BY <1>1 DEF Patches
  <2>2. K[a].op = "funcenter" <=> Enters(Q, F, n, a)
    BY <2>1 DEF Coded
  <2>3. a # h + 1
    BY DEF Upto
  <2>4. Enters(Q, F, n, a) <=> Enters(Q, G, n + 1, a)
    BY <2>3, UptoNext DEF Enters, Extends
  <2>5. QED
    BY <2>1, <2>2, <2>4
<1>3. ASSUME NEW i \in 1 .. k, NEW a, a = h + i - 1
      PROVE  K[a] \in Instrs /\ (K[a].op = "funcenter" <=> Enters(Q, G, n + 1, a))
  <2>1. K[a] \in Instrs
    BY <1>1, <1>3 DEF Suited
  <2>2. K[a].op = "funcenter" <=> Q[n].op = "func_start" /\ i = 2
    BY <1>1, <1>3 DEF Suited
  <2>3. ASSUME NEW f \in Upto(n), Q[f].op = "func_start" PROVE a # G[f] + 1
    <3>1. G[f] \in Nat /\ G[f] + 2 <= h
      BY <2>3 DEF Laid, Extends, Size
    <3>2. a >= h
      BY <1>3
    <3>3. a \in Nat
      BY <1>3
    <3>4. QED
      BY <3>1, <3>2, <3>3
  <2>4. i = 2 <=> a = h + 1
    BY <1>3
  <2>5. Enters(Q, G, n + 1, a) <=> Q[n].op = "func_start" /\ a = G[n] + 1
    BY <2>3, UptoNext DEF Enters
  <2>6. QED
    BY <2>1, <2>2, <2>4, <2>5
<1>4. QED
  BY <1>1, <1>2, <1>3 DEF Coded

LEMMA JumpingNext ==
  ASSUME NEW Q, NEW F, NEW T, NEW n \in Nat, NEW I, NEW J, Jumping(Q, F, T, I, J, n),
         \A q \in Upto(n + 1) : Q[q].to \in Nat,
         NEW G, Extends(F, G, n), NEW U, Extends(T, U, n), NEW K,
         \A q \in Upto(n) : Q[q].op \in JumpOps => K[F[q]].to = I[F[q]].to,
         NEW L,
         Q[n].op \notin JumpOps => L = J,
         Q[n].op \in JumpOps =>
           IF Q[n].to < n THEN K[G[n]].to = T[Q[n].to] /\ L = J
           ELSE L = J \cup {<<G[n], Q[n].to>>}
  PROVE  Jumping(Q, G, U, K, L, n + 1)
<1>1. J \subseteq L
  OBVIOUS
<1>2. ASSUME NEW q \in Upto(n + 1), Q[q].op \in JumpOps
      PROVE  IF Q[q].to < q THEN K[G[q]].to = U[Q[q].to] ELSE <<G[q], Q[q].to>> \in L
  <2>1. Q[q].to < q => Q[q].to \in Upto(n)
    BY DEF Upto
  <2>2. CASE q = n
    BY <1>2, <2>1, <2>2 DEF Extends
  <2>3. CASE q # n
    <3>1. q \in Upto(n)
      BY <2>3, UptoNext
    <3>2. IF Q[q].to < q THEN I[F[q]].to = T[Q[q].to] ELSE <<F[q], Q[q].to>> \in J
      BY <1>2, <3>1 DEF Jumping, Heads
    <3>3. QED
      BY <1>1, <1>2, <2>1, <3>1, <3>2 DEF Extends
  <2>4. QED
    BY <2>2, <2>3
<1>3. ASSUME NEW j \in L
      PROVE  \E q \in Upto(n + 1) : Q[q].op \in JumpOps /\ j = <<G[q], Q[q].to>>
  <2>1. CASE j \in J
    <3>1. PICK q \in Upto(n) : Q[q].op \in JumpOps /\ j = <<F[q], Q[q].to>>
      BY <2>1 DEF Jumping, Heads
    <3>2. G[q] = F[q] /\ q \in Upto(n + 1)
      BY UptoNext DEF Extends
    <3>3. QED
      BY <3>1, <3>2
  <2>2. CASE j \notin J
    <3>1. Q[n].op \in JumpOps /\ j = <<G[n], Q[n].to>>
      BY <1>3, <2>2
    <3>2. QED
      BY <3>1, UptoNext
  <2>3. QED
    BY <2>1, <2>2
<1>4. QED
  BY <1>2, <1>3 DEF Jumping, Heads


-----------------------------------------------------------------------------
(* Functions while they are translated *)

LEMMA StartsNext ==
  ASSUME NEW Q, NEW n \in Nat
  PROVE  /\ Q[n].op = "func_start" => Starts(Q, n + 1) = Starts(Q, n) \cup {n}
         /\ Q[n].op # "func_start" => Starts(Q, n + 1) = Starts(Q, n)
         /\ \A f : Q[n].op = "ret" /\ Q[n].in = f =>
              ReturnsOf(Q, n + 1, f) = ReturnsOf(Q, n, f) \cup {n}
         /\ \A f : ~(Q[n].op = "ret" /\ Q[n].in = f) =>
              ReturnsOf(Q, n + 1, f) = ReturnsOf(Q, n, f)
         /\ n \notin Starts(Q, n) /\ Starts(Q, n) \subseteq Upto(n)
         /\ \A f : ReturnsOf(Q, n, f) \subseteq Upto(n)
BY UptoNext DEF Starts, ReturnsOf

(* A function that is closed stays so if its jumps are left alone. *)
LEMMA StaysClosed ==
  ASSUME NEW Q, NEW F, NEW I, NEW n \in Nat, NEW f \in Starts(Q, n), NEW e \in Upto(n),
         ClosedBy(Q, F, I, n, f, e),
         ReturnsOf(Q, n + 1, f) = ReturnsOf(Q, n, f),
         NEW G, Extends(F, G, n), NEW K, K[F[f]].to = I[F[f]].to,
         \A q \in ReturnsOf(Q, n, f) : K[F[q] + 1].to = I[F[q] + 1].to
  PROVE  \E d \in Upto(n + 1) : ClosedBy(Q, G, K, n + 1, f, d)
<1>1. /\ Starts(Q, n) \subseteq Upto(n) /\ ReturnsOf(Q, n, f) \subseteq Upto(n)
      /\ e \in Upto(n + 1)
  BY StartsNext, UptoNext
<1>2. ClosedBy(Q, G, K, n + 1, f, e)
  BY <1>1 DEF ClosedBy, Extends
<1>3. QED
  BY <1>1, <1>2

(* The jumps of a function: none of them is at the address of another.     *)
Jumps(Q, F, n, f) == {F[f]} \cup {F[q] + 1 : q \in ReturnsOf(Q, n, f)}

LEMMA JumpsApart ==
  ASSUME NEW Q, NEW F, NEW T, NEW n \in Nat, NEW h \in Nat, Laid(Q, F, T, n, h),
         NEW f \in Starts(Q, n), NEW g \in Starts(Q, n), f # g
  PROVE  /\ F[g] \notin Jumps(Q, F, n, f)
         /\ \A q \in ReturnsOf(Q, n, g) : F[q] + 1 \notin Jumps(Q, F, n, f)
<1>1. \A q \in Upto(n) : F[q] \in Nat /\ F[q] + 0 = F[q] /\ Size(Q[q].op) >= 1
  BY SizeFacts DEF Laid
<1>2. /\ f \in Upto(n) /\ g \in Upto(n)
      /\ Q[f].op = "func_start" /\ Q[g].op = "func_start"
      /\ \A d : \A q \in ReturnsOf(Q, n, d) :
           q \in Upto(n) /\ Q[q].op = "ret" /\ Q[q].in = d /\ Size(Q[q].op) = 2
  BY DEF Starts, ReturnsOf, Size
<1>3. \A q \in Upto(n) : 0 < Size(Q[q].op)
  BY SizeFacts
<1>4. F[g] # F[f]
  <2>1. /\ F[f] \in Nat /\ F[g] \in Nat /\ f \in Nat /\ g \in Nat
        /\ Size(Q[f].op) = 2 /\ Size(Q[g].op) = 2
    BY <1>1, <1>2 DEF Size, Upto
  <2>2. (f < g => F[f] + 2 <= F[g]) /\ (g < f => F[g] + 2 <= F[f])
    BY <1>2, <2>1 DEF Laid
  <2>3. QED
    BY <2>1, <2>2
<1>5. \A d : \A q \in ReturnsOf(Q, n, d) : \A s \in Starts(Q, n) : F[q] + 1 # F[s]
  <2>1. SUFFICES ASSUME NEW d, NEW q \in ReturnsOf(Q, n, d), NEW s \in Starts(Q, n)
                 PROVE  F[q] + 1 # F[s] + 0
    BY <1>1 DEF Starts
  <2>2. s \in Upto(n) /\ 0 < Size(Q[s].op) /\ 1 < Size(Q[q].op)
    BY <1>2, <1>3 DEF Starts
  <2>3. QED
    BY <1>2, <2>2, AddressesApart
<1>6. \A q \in ReturnsOf(Q, n, g) : \A r \in ReturnsOf(Q, n, f) : F[q] + 1 # F[r] + 1
  <2>1. SUFFICES ASSUME NEW q \in ReturnsOf(Q, n, g), NEW r \in ReturnsOf(Q, n, f)
                 PROVE  F[q] + 1 # F[r] + 1
    OBVIOUS
  <2>2. 1 < Size(Q[q].op) /\ 1 < Size(Q[r].op) /\ q # r
    BY <1>2
  <2>3. QED
    BY <1>2, <2>2, AddressesApart
<1>7. QED
  BY <1>4, <1>5, <1>6 DEF Jumps

LEMMA SeqWithin ==
  ASSUME NEW A, NEW B, A \subseteq B, NEW s \in Seq(A)
  PROVE  s \in Seq(B)
OBVIOUS

LEMMA PushLarger ==
  ASSUME NEW A, NEW s \in Seq(A), NEW x
  PROVE  /\ Push(s, x) \in Seq(A \cup {x}) /\ Len(Push(s, x)) = Len(s) + 1
         /\ Push(s, x)[1] = x /\ \A i \in 1 .. Len(s) : Push(s, x)[i + 1] = s[i]
         /\ Len(s) \in Nat /\ 1 \in 1 .. Len(Push(s, x))
         /\ \A i \in 1 .. Len(s) : i + 1 \in 1 .. Len(Push(s, x))
<1>1. PICK B : B = A \cup {x}
  OBVIOUS
<1>2. s \in Seq(B) /\ x \in B
  BY <1>1, SeqWithin
<1>3. /\ Push(s, x) \in Seq(B) /\ Len(Push(s, x)) = Len(s) + 1
      /\ Push(s, x)[1] = x /\ \A i \in 1 .. Len(s) : Push(s, x)[i + 1] = s[i]
  BY <1>2, PushFacts
<1>4. QED
  BY <1>1, <1>3

(* A return stands in a function. *)
LEMMA NoReturnsAhead ==
  ASSUME NEW Q, NEW F, NEW I, NEW S, NEW R, NEW n \in Nat, Closing(Q, F, I, S, R, n)
  PROVE  ReturnsOf(Q, n, n) = {}
BY StartsNext DEF Closing, ReturnsOf

LEMMA JumpQuadsApart ==
  ASSUME NEW Q, NEW F, NEW T, NEW n \in Nat, NEW h \in Nat, Laid(Q, F, T, n, h),
         NEW f \in Starts(Q, n), NEW q \in Upto(n), Q[q].op \in JumpOps
  PROVE  F[q] \notin Jumps(Q, F, n, f)
<1>1. \A r \in Upto(n) : F[r] \in Nat /\ r \in Nat
  BY UptoNext DEF Laid
<1>2. /\ f \in Upto(n) /\ Size(Q[f].op) = 2 /\ Size(Q[q].op) = 1 /\ f # q
      /\ \A r \in ReturnsOf(Q, n, f) : r \in Upto(n) /\ Size(Q[r].op) = 2 /\ r # q
  BY DEF Starts, ReturnsOf, Size, JumpOps
<1>3. ASSUME NEW r \in Upto(n), Size(Q[r].op) = 2, r # q
      PROVE  F[q] # F[r] /\ F[q] # F[r] + 1
  <2>1. (q < r => F[q] + 1 <= F[r]) /\ (r < q => F[r] + 2 <= F[q])
    BY <1>2, <1>3 DEF Laid
  <2>2. QED
    BY <1>1, <1>3, <2>1
<1>4. QED
  BY <1>2, <1>3 DEF Jumps

LEMMA ClosingOther ==
  ASSUME NEW Q, NEW F, NEW I, NEW S, NEW R, NEW n \in Nat, Closing(Q, F, I, S, R, n),
         Q[n].op \notin {"func_start", "func_end", "ret"},
         NEW G, Extends(F, G, n), NEW K,
         \A f \in Starts(Q, n) : K[F[f]].to = I[F[f]].to,
         \A f : \A q \in ReturnsOf(Q, n, f) : K[F[q] + 1].to = I[F[q] + 1].to
  PROVE  Closing(Q, G, K, S, R, n + 1)
<1>1. /\ Starts(Q, n + 1) = Starts(Q, n) /\ Starts(Q, n) \subseteq Upto(n)
      /\ \A f : ReturnsOf(Q, n + 1, f) = ReturnsOf(Q, n, f)
      /\ \A f : ReturnsOf(Q, n, f) \subseteq Upto(n)
  BY StartsNext
<1>2. DOMAIN R = Starts(Q, n + 1) /\ S \in Seq(Starts(Q, n + 1))
  BY <1>1 DEF Closing
<1>3. ASSUME NEW f \in Starts(Q, n)
      PROVE  /\ R[f] = Jumps(Q, G, n + 1, f)
             /\ \/ \E i \in 1 .. Len(S) : S[i] = f
                \/ \E e \in Upto(n + 1) : ClosedBy(Q, G, K, n + 1, f, e)
  <2>1. R[f] = Jumps(Q, F, n, f)
    BY DEF Closing, Jumps
  <2>2. Jumps(Q, F, n, f) = Jumps(Q, G, n + 1, f)
    BY <1>1 DEF Jumps, Extends
  <2>3. CASE \E e \in Upto(n) : ClosedBy(Q, F, I, n, f, e)
    BY <1>1, <2>1, <2>2, <2>3, StaysClosed
  <2>4. QED
    BY <2>1, <2>2, <2>3 DEF Closing
<1>4. \A q \in Upto(n + 1) : Q[q].op = "ret" => Q[q].in \in Starts(Q, n + 1)
  BY <1>1, UptoNext DEF Closing
<1>5. QED
  BY <1>1, <1>2, <1>3, <1>4 DEF Closing, Jumps

LEMMA ClosingStart ==
  ASSUME NEW Q, NEW F, NEW I, NEW S, NEW R, NEW n \in Nat, Closing(Q, F, I, S, R, n),
         Q[n].op = "func_start",
         NEW G, Extends(F, G, n), NEW K,
         \A f \in Starts(Q, n) : K[F[f]].to = I[F[f]].to,
         \A f : \A q \in ReturnsOf(Q, n, f) : K[F[q] + 1].to = I[F[q] + 1].to,
         NEW W, W = (n :> {G[n]}) @@ R
  PROVE  Closing(Q, G, K, Push(S, n), W, n + 1)
<1>1. /\ Starts(Q, n + 1) = Starts(Q, n) \cup {n} /\ Starts(Q, n) \subseteq Upto(n)
      /\ \A f : ReturnsOf(Q, n + 1, f) = ReturnsOf(Q, n, f)
      /\ \A f : ReturnsOf(Q, n, f) \subseteq Upto(n)
      /\ n \notin Starts(Q, n)
  BY StartsNext
<1>2. /\ DOMAIN W = Starts(Q, n + 1) /\ W[n] = {G[n]}
      /\ \A f \in Starts(Q, n) : W[f] = R[f]
  BY <1>1 DEF Closing, @@, :>
<1>3. /\ Push(S, n) \in Seq(Starts(Q, n + 1)) /\ Len(Push(S, n)) = Len(S) + 1
      /\ Push(S, n)[1] = n /\ \A i \in 1 .. Len(S) : Push(S, n)[i + 1] = S[i]
      /\ Len(S) \in Nat
  <2>1. PICK A : A = Starts(Q, n)
    OBVIOUS
  <2>2. S \in Seq(A)
    BY <2>1 DEF Closing
  <2>3. /\ Push(S, n) \in Seq(A \cup {n}) /\ Len(Push(S, n)) = Len(S) + 1
        /\ Push(S, n)[1] = n /\ \A i \in 1 .. Len(S) : Push(S, n)[i + 1] = S[i]
        /\ Len(S) \in Nat
    BY <2>2, PushLarger
  <2>4. QED
    BY <1>1, <2>1, <2>3
<1>4. ASSUME NEW f \in Starts(Q, n)
      PROVE  /\ W[f] = Jumps(Q, G, n + 1, f)
             /\ \/ \E i \in 1 .. Len(Push(S, n)) : Push(S, n)[i] = f
                \/ \E e \in Upto(n + 1) : ClosedBy(Q, G, K, n + 1, f, e)
  <2>1. R[f] = Jumps(Q, F, n, f)
    BY DEF Closing, Jumps
  <2>2. Jumps(Q, F, n, f) = Jumps(Q, G, n + 1, f)
    BY <1>1 DEF Jumps, Extends
  <2>3. CASE \E e \in Upto(n) : ClosedBy(Q, F, I, n, f, e)
    <3>1. \E e \in Upto(n + 1) : ClosedBy(Q, G, K, n + 1, f, e)
      BY <1>1, <2>3, StaysClosed
    <3>2. QED
      BY <1>2, <2>1, <2>2, <3>1
  <2>4. CASE \E i \in 1 .. Len(S) : S[i] = f
    <3>1. PICK i \in 1 .. Len(S) : S[i] = f
      BY <2>4
    <3>2. i + 1 \in 1 .. Len(Push(S, n)) /\ Push(S, n)[i + 1] = f
      BY <1>3, <3>1
    <3>3. QED
      BY <1>2, <2>1, <2>2, <3>2
  <2>5. QED
    BY <2>3, <2>4 DEF Closing
<1>5. W[n] = Jumps(Q, G, n + 1, n)
  <2>1. ReturnsOf(Q, n + 1, n) = {}
    BY <1>1, NoReturnsAhead
  <2>2. QED
    BY <1>2, <2>1 DEF Jumps
<1>6. 1 \in 1 .. Len(Push(S, n))
  BY <1>3
<1>7. \A q \in Upto(n + 1) : Q[q].op = "ret" => Q[q].in \in Starts(Q, n + 1)
  BY <1>1, UptoNext DEF Closing
<1>8. QED
  BY <1>1, <1>2, <1>3, <1>4, <1>5, <1>6, <1>7 DEF Closing, Jumps

AddsReturn(R, f, a, W) == W = [R EXCEPT ![f] = @ \cup {a + 1}]

LEMMA ClosingReturn ==
  ASSUME NEW Q, NEW F, NEW I, NEW S, NEW R, NEW n \in Nat, Closing(Q, F, I, S, R, n),
         Q[n].op = "ret", S # <<>>, Q[n].in = Head(S),
         NEW G, Extends(F, G, n), NEW K,
         \A f \in Starts(Q, n) : K[F[f]].to = I[F[f]].to,
         \A f : \A q \in ReturnsOf(Q, n, f) : K[F[q] + 1].to = I[F[q] + 1].to,
         NEW W, AddsReturn(R, Head(S), G[n], W)
  PROVE  Closing(Q, G, K, S, W, n + 1)
<1>1. /\ Starts(Q, n + 1) = Starts(Q, n) /\ Starts(Q, n) \subseteq Upto(n)
      /\ ReturnsOf(Q, n + 1, Head(S)) = ReturnsOf(Q, n, Head(S)) \cup {n}
      /\ \A f : f # Head(S) => ReturnsOf(Q, n + 1, f) = ReturnsOf(Q, n, f)
      /\ \A f : ReturnsOf(Q, n, f) \subseteq Upto(n)
  BY StartsNext
<1>2. PICK A : A = Starts(Q, n)
  OBVIOUS
<1>3. DOMAIN R = A /\ S \in Seq(A)
  BY <1>2 DEF Closing
<1>4. Len(S) \in Nat /\ Len(S) > 0 /\ Head(S) \in A /\ Head(S) = S[1]
  BY <1>3
<1>5. /\ DOMAIN W = A /\ W[Head(S)] = R[Head(S)] \cup {G[n] + 1}
      /\ \A f \in A : f # Head(S) => W[f] = R[f]
  BY <1>3, <1>4 DEF AddsReturn
<1>6. ASSUME NEW f \in Starts(Q, n)
      PROVE  /\ W[f] = Jumps(Q, G, n + 1, f)
             /\ \/ \E i \in 1 .. Len(S) : S[i] = f
                \/ \E e \in Upto(n + 1) : ClosedBy(Q, G, K, n + 1, f, e)
  <2>1. R[f] = Jumps(Q, F, n, f)
    BY DEF Closing, Jumps
  <2>2. f \in Upto(n) /\ \A q \in ReturnsOf(Q, n, f) : q \in Upto(n)
    BY <1>1
  <2>3. CASE f = Head(S)
    <3>1. Jumps(Q, G, n + 1, f) = Jumps(Q, F, n, f) \cup {G[n] + 1}
      BY <1>1, <2>2, <2>3 DEF Jumps, Extends
    <3>2. 1 \in 1 .. Len(S)
      BY <1>4
    <3>3. QED
      BY <1>4, <1>5, <2>1, <2>3, <3>1, <3>2
  <2>4. CASE f # Head(S)
    <3>1. Jumps(Q, F, n, f) = Jumps(Q, G, n + 1, f)
      BY <1>1, <2>2, <2>4 DEF Jumps, Extends
    <3>2. W[f] = R[f]
      BY <1>2, <1>5, <2>4
    <3>3. CASE \E e \in Upto(n) : ClosedBy(Q, F, I, n, f, e)
      BY <1>1, <2>1, <2>4, <3>1, <3>2, <3>3, StaysClosed
    <3>4. QED
      BY <2>1, <3>1, <3>2, <3>3 DEF Closing
  <2>5. QED
    BY <2>3, <2>4
<1>7. \A q \in Upto(n + 1) : Q[q].op = "ret" => Q[q].in \in Starts(Q, n + 1)
  BY <1>1, <1>2, <1>4, UptoNext DEF Closing
<1>8. QED
  BY <1>1, <1>2, <1>3, <1>5, <1>6, <1>7 DEF Closing, Jumps

LEMMA ClosingEnd ==
  ASSUME NEW Q, NEW F, NEW T, NEW I, NEW S, NEW R, NEW n \in Nat, NEW h \in Nat,
         Laid(Q, F, T, n, h), Closing(Q, F, I, S, R, n),
         Q[n].op = "func_end", S # <<>>, Q[n].to = Head(S),
         NEW G, Extends(F, G, n), NEW K,
         K[F[Head(S)]].to = G[n] + 1,
         \A q \in ReturnsOf(Q, n, Head(S)) : K[F[q] + 1].to = G[n],
         \A f \in Starts(Q, n) :
           F[f] \notin Jumps(Q, F, n, Head(S)) => K[F[f]].to = I[F[f]].to,
         \A f : \A q \in ReturnsOf(Q, n, f) :
           F[q] + 1 \notin Jumps(Q, F, n, Head(S)) => K[F[q] + 1].to = I[F[q] + 1].to
  PROVE  Closing(Q, G, K, Tail(S), R, n + 1)
<1>1. /\ Starts(Q, n + 1) = Starts(Q, n) /\ Starts(Q, n) \subseteq Upto(n)
      /\ \A f : ReturnsOf(Q, n + 1, f) = ReturnsOf(Q, n, f)
      /\ \A f : ReturnsOf(Q, n, f) \subseteq Upto(n)
  BY StartsNext
<1>2. PICK A : A = Starts(Q, n)
  OBVIOUS
<1>3. DOMAIN R = A /\ S \in Seq(A)
  BY <1>2 DEF Closing
<1>4. /\ Len(S) \in Nat /\ Len(S) > 0 /\ Head(S) \in A /\ Head(S) = S[1]
      /\ Tail(S) \in Seq(A) /\ Len(Tail(S)) = Len(S) - 1
      /\ \A i \in 1 .. Len(S) - 1 : Tail(S)[i] = S[i + 1]
  BY <1>3
<1>5. ASSUME NEW f \in Starts(Q, n)
      PROVE  /\ R[f] = Jumps(Q, G, n + 1, f)
             /\ \/ \E i \in 1 .. Len(Tail(S)) : Tail(S)[i] = f
                \/ \E e \in Upto(n + 1) : ClosedBy(Q, G, K, n + 1, f, e)
  <2>1. R[f] = Jumps(Q, F, n, f)
    BY DEF Closing, Jumps
  <2>2. f \in Upto(n) /\ \A q \in ReturnsOf(Q, n, f) : q \in Upto(n)
    BY <1>1
  <2>3. Jumps(Q, F, n, f) = Jumps(Q, G, n + 1, f)
    BY <1>1, <2>2 DEF Jumps, Extends
  <2>4. CASE f = Head(S)
    <3>1. ClosedBy(Q, G, K, n + 1, f, n)
      BY <1>1, <2>2, <2>4 DEF ClosedBy, Extends
    <3>2. QED
      BY <2>1, <2>3, <3>1, UptoNext
  <2>5. CASE f # Head(S) /\ \E e \in Upto(n) : ClosedBy(Q, F, I, n, f, e)
    <3>1. /\ F[f] \notin Jumps(Q, F, n, Head(S))
          /\ \A q \in ReturnsOf(Q, n, f) : F[q] + 1 \notin Jumps(Q, F, n, Head(S))
      BY <1>2, <1>4, <2>5, JumpsApart
    <3>2. QED
      BY <1>1, <2>1, <2>3, <2>5, <3>1, StaysClosed
  <2>6. CASE f # Head(S) /\ \E i \in 1 .. Len(S) : S[i] = f
    <3>1. PICK i \in 1 .. Len(S) : S[i] = f
      BY <2>6
    <3>2. i # 1
      BY <1>4, <2>6, <3>1
    <3>3. PICK j \in 1 .. Len(S) - 1 : j + 1 = i
      <4>1. i - 1 \in 1 .. Len(S) - 1 /\ (i - 1) + 1 = i
        BY <1>4, <3>2
      <4>2. QED
        BY <4>1
    <3>4. Tail(S)[j] = f /\ j \in 1 .. Len(Tail(S))
      BY <1>4, <3>1, <3>3
    <3>5. QED
      BY <2>1, <2>3, <3>4
  <2>7. QED
    BY <2>4, <2>5, <2>6 DEF Closing
<1>6. \A q \in Upto(n + 1) : Q[q].op = "ret" => Q[q].in \in Starts(Q, n + 1)
  BY <1>1, UptoNext DEF Closing
<1>7. QED
  BY <1>1, <1>2, <1>3, <1>4, <1>5, <1>6 DEF Closing, Jumps


-----------------------------------------------------------------------------
(* The invariant of the generator *)

(* All jumps lead to their quads, or behind the last instruction. *)
Landed(Q, F, T, I, n, h) ==
  \A q \in Upto(n) : Q[q].op \in JumpOps =>
    I[F[q]].to = IF Q[q].to = n THEN h ELSE T[Q[q].to]

Generator ==
  /\ nextQuad \in 0 .. currQuad /\ currInstruction \in Nat
  /\ Laid(quads, first, taddress, nextQuad, currInstruction)
  /\ Coded(quads, first, instructions, nextQuad, currInstruction)
  /\ Closing(quads, first, instructions, func_stack, returnList, nextQuad)
  /\ DOMAIN t_address = Starts(quads, nextQuad)
  /\ Heads(quads, first, ij_head, nextQuad)
  /\ phase # "generated" =>
       Jumping(quads, first, taddress, instructions, ij_head, nextQuad)
  /\ phase = "generated" =>
       Landed(quads, first, taddress, instructions, nextQuad, currInstruction)

PhaseInv ==
  /\ phase \in {"parsing", "generating", "generated", "crashed"}
  /\ phase = "parsing" => nextQuad = 0 /\ ReservedInv
  /\ phase \in {"generating", "generated"} => open = <<>> \/ errors > 0
  /\ phase = "generated" => nextQuad = currQuad

(* func_stack holds the functions around the next quad. *)
StackInv == \E nest : Nesting(nest) /\ func_stack = nest[nextQuad]

GenInv == OpensInv /\ PhaseInv /\ Generator /\ StackInv

(* What t_emit does: the instructions in s, and P for those before. *)
Advanced(s, k, P) ==
  /\ nextQuad' = nextQuad + 1 /\ currInstruction' = currInstruction + k
  /\ Laid(quads, first', taddress', nextQuad + 1, currInstruction + k)
  /\ Coded(quads, first', instructions', nextQuad + 1, currInstruction + k)
  /\ Extends(first, first', nextQuad) /\ first'[nextQuad] = currInstruction
  /\ Extends(taddress, taddress', nextQuad)
  /\ \A a \in Upto(currInstruction) : instructions'[a] = P[a]
  /\ \A i \in 1 .. k : instructions'[currInstruction + i - 1] = s[i]
  /\ UNCHANGED <<vars, phase>>

LEMMA TypesInGenerator ==
  ASSUME GenInv
  PROVE  /\ nextQuad \in Nat /\ currQuad \in Nat /\ currInstruction \in Nat
         /\ nextQuad <= currQuad /\ DOMAIN quads \subseteq Upto(currQuad)
         /\ \A q \in DOMAIN quads : quads[q].to \in 0 .. currQuad
<1>1. currQuad \in Nat /\ QuadsTyped(quads, currQuad)
  BY TypesOf DEF GenInv, OpensInv
<1>2. nextQuad \in Nat /\ nextQuad <= currQuad /\ currInstruction \in Nat
  BY <1>1 DEF GenInv, Generator
<1>3. QED
  BY <1>1, <1>2 DEF QuadsTyped

LEMMA TEmitAdvances ==
  ASSUME GenInv, nextQuad \in DOMAIN quads,
         NEW s, NEW address, NEW P, TEmit(s, address, P),
         NEW k \in Nat, Len(s) = k, Suited(s, k, quads[nextQuad].op),
         address = currInstruction + Offset(quads[nextQuad].op),
         Patches(P, instructions, currInstruction)
  PROVE  Advanced(s, k, P)
<1>1. PICK n \in Nat : n = nextQuad
  BY TypesInGenerator
<1>2. PICK h \in Nat : h = currInstruction
  BY TypesInGenerator
<1>3. /\ Laid(quads, first, taddress, n, h) /\ Coded(quads, first, instructions, n, h)
      /\ n \in DOMAIN quads
  BY <1>1, <1>2 DEF GenInv, Generator
<1>4. /\ first' = (n :> h) @@ first
      /\ taddress' = (n :> h + Offset(quads[n].op)) @@ taddress
      /\ instructions' = Block(h, k, s) @@ P
      /\ nextQuad' = n + 1 /\ currInstruction' = h + k
      /\ UNCHANGED <<vars, phase>>
  BY <1>1, <1>2 DEF TEmit, Block
<1>5. Suited(s, k, quads[n].op) /\ k = Size(quads[n].op)
  BY <1>1 DEF Suited
<1>6. /\ Laid(quads, first', taddress', n + 1, h + k)
      /\ first'[n] = h /\ \A q \in Upto(n) : first'[q] = first[q]
  <2>1. PICK F, T, G, U : F = first /\ T = taddress /\ G = first' /\ U = taddress'
    OBVIOUS
  <2>2. Laid(quads, F, T, n, h) /\ n \in DOMAIN quads
    BY <1>3, <2>1
  <2>3. PICK e : Offsets(e, h, quads[n].op) /\ Extended(F, n, h, G) /\ Extended(T, n, e, U)
    BY <1>4, <2>1 DEF Offsets, Extended
  <2>4. /\ Laid(quads, G, U, n + 1, h + Size(quads[n].op))
        /\ G[n] = h /\ \A q \in Upto(n) : G[q] = F[q]
    BY <2>2, <2>3, LaidNext
  <2>5. QED
    BY <1>5, <2>1, <2>4
<1>7. \A q \in Upto(n) : taddress'[q] = taddress[q]
  <2>1. DOMAIN taddress = Upto(n)
    BY <1>3 DEF Laid
  <2>2. \A q \in Upto(n) : q # n /\ q \in DOMAIN taddress
    BY <2>1, UptoNext
  <2>3. PICK T, e : T = taddress /\ taddress' = (n :> e) @@ T
    BY <1>4
  <2>4. \A q \in DOMAIN T : q # n => taddress'[q] = T[q]
    BY <2>3 DEF @@, :>
  <2>5. QED
    BY <2>2, <2>3, <2>4
<1>8. Patches(P, instructions, h) /\ DOMAIN P = Upto(h)
  BY <1>2, <1>3 DEF Patches, Coded
<1>9. Coded(quads, first', instructions', n + 1, h + k)
  BY <1>3, <1>4, <1>5, <1>6, <1>8, CodedNext DEF Extends
<1>10. /\ \A i \in 1 .. k : instructions'[h + i - 1] = s[i]
       /\ \A a \in Upto(h) : instructions'[a] = P[a]
  BY <1>4, <1>8, BlockFacts
<1>11. QED
  BY <1>1, <1>2, <1>4, <1>6, <1>7, <1>9, <1>10 DEF Advanced, Extends

LEMMA OpensLater == OpensInv /\ UNCHANGED vars => OpensInv'
BY StutterOpens

LEMMA NestingSame ==
  ASSUME UNCHANGED vars, NEW nest, Nesting(nest)
  PROVE  Nesting(nest)'
BY DEF Nesting, Nested, Labels, vars, stacks

LEMMA AdvancedKeeps ==
  ASSUME GenInv, phase = "generating", nextQuad \in DOMAIN quads,
         NEW s, NEW k \in Nat, NEW P, Advanced(s, k, P),
         Jumping(quads, first', taddress', instructions', ij_head', nextQuad + 1),
         Closing(quads, first', instructions', func_stack', returnList', nextQuad + 1),
         DOMAIN t_address' = Starts(quads, nextQuad + 1),
         \A nest : Nesting(nest) /\ func_stack = nest[nextQuad]
                     => func_stack' = nest[nextQuad + 1]
  PROVE  GenInv'
<1>1. PICK n \in Nat : n = nextQuad /\ n < currQuad /\ currQuad \in Nat
  BY TypesInGenerator DEF Upto
<1>2. /\ UNCHANGED <<vars, phase>> /\ nextQuad' = n + 1
      /\ currInstruction' = currInstruction + k
      /\ UNCHANGED <<quads, currQuad, open, errors>>
  BY <1>1 DEF Advanced, vars
<1>3. OpensInv'
  BY <1>2, OpensLater DEF GenInv
<1>4. PhaseInv'
  BY <1>2 DEF PhaseInv, GenInv
<1>5. Generator'
  <2>1. nextQuad' \in 0 .. currQuad' /\ currInstruction' \in Nat
    BY <1>1, <1>2, TypesInGenerator
  <2>2. Heads(quads, first', ij_head', nextQuad + 1)
    BY DEF Jumping
  <2>3. QED
    BY <1>2, <2>1, <2>2 DEF Generator, Advanced
<1>6. StackInv'
  <2>1. PICK nest : Nesting(nest) /\ func_stack = nest[nextQuad]
    BY DEF GenInv, StackInv
  <2>2. Nesting(nest)'
    BY <1>2, <2>1, NestingSame
  <2>3. func_stack' = nest[nextQuad']
    BY <1>1, <1>2, <2>1
  <2>4. QED
    BY <2>2, <2>3 DEF StackInv
<1>7. QED
  BY <1>3, <1>4, <1>5, <1>6 DEF GenInv


-----------------------------------------------------------------------------
(* The generators *)

LEMMA NothingPatched ==
  ASSUME GenInv
  PROVE  Patches(instructions, instructions, currInstruction)
BY DEF GenInv, Generator, Coded, Patches

LEMMA InstrFields ==
  ASSUME GenInv, nextQuad \in DOMAIN quads
  PROVE  \A op \in InstrOps, to \in Nat :
           Instr(op, to) \in Instrs /\ Instr(op, to).op = op /\ Instr(op, to).to = to
<1>1. PICK e : e = quads[nextQuad].in /\ e \in Nat \cup {Main}
  <2>1. currQuad \in Nat /\ QuadsTyped(quads, currQuad)
    BY TypesOf DEF GenInv, OpensInv
  <2>2. quads[nextQuad].in \in Upto(currQuad) \cup {Main}
    BY <2>1 DEF QuadsTyped
  <2>3. Upto(currQuad) \subseteq Nat
    BY <2>1, UptoNext
  <2>4. QED
    BY <2>2, <2>3
<1>2. QED
  BY <1>1 DEF Instr, Instrs

(* Where the jumps of the quads are that have been translated. *)
LEMMA JumpAddresses ==
  ASSUME GenInv
  PROVE  /\ \A q \in Upto(nextQuad) : first[q] \in Upto(currInstruction)
         /\ \A f : \A q \in ReturnsOf(quads, nextQuad, f) :
              q \in Upto(nextQuad) /\ first[q] + 1 \in Upto(currInstruction)
<1>1. PICK n, h \in Nat : n = nextQuad /\ h = currInstruction
  BY TypesInGenerator
<1>2. Laid(quads, first, taddress, n, h)
  BY <1>1 DEF GenInv, Generator
<1>3. ASSUME NEW q \in Upto(n) PROVE first[q] \in Upto(h)
  <2>1. 0 \in Nat /\ 0 < Size(quads[q].op)
    BY SizeFacts
  <2>2. QED
    BY <1>2, <2>1, AddressWithin
<1>4. ASSUME NEW f, NEW q \in ReturnsOf(quads, n, f)
      PROVE  q \in Upto(n) /\ first[q] + 1 \in Upto(h)
  <2>1. q \in Upto(n) /\ 1 \in Nat /\ 1 < Size(quads[q].op)
    BY DEF ReturnsOf, Size
  <2>2. QED
    BY <1>2, <2>1, AddressWithin
<1>5. QED
  BY <1>1, <1>3, <1>4

LEMMA JumpsKept ==
  ASSUME GenInv, NEW s, NEW k \in Nat, Advanced(s, k, instructions)
  PROVE  /\ \A q \in Upto(nextQuad) : instructions'[first[q]].to = instructions[first[q]].to
         /\ \A f \in Starts(quads, nextQuad) :
              instructions'[first[f]].to = instructions[first[f]].to
         /\ \A f : \A q \in ReturnsOf(quads, nextQuad, f) :
              instructions'[first[q] + 1].to = instructions[first[q] + 1].to
BY JumpAddresses DEF Advanced, Starts

LEMMA TargetsTyped ==
  ASSUME GenInv, nextQuad \in DOMAIN quads
  PROVE  \A q \in Upto(nextQuad + 1) : quads[q].to \in Nat /\ q \in DOMAIN quads
<1>1. \A q \in DOMAIN quads : quads[q].to \in 0 .. currQuad
  BY TypesInGenerator
<1>2. Upto(nextQuad + 1) \subseteq DOMAIN quads
  <2>1. nextQuad \in Nat /\ Upto(nextQuad) \subseteq DOMAIN quads
    BY TypesInGenerator DEF GenInv, Generator, Laid
  <2>2. QED
    BY <2>1, UptoNext
<1>3. QED
  BY <1>1, <1>2

LEMMA JumpingOther ==
  ASSUME GenInv, phase = "generating", nextQuad \in DOMAIN quads,
         quads[nextQuad].op \notin JumpOps, UNCHANGED ij_head,
         NEW s, NEW k \in Nat, NEW P, Advanced(s, k, P),
         \A q \in Upto(nextQuad) : quads[q].op \in JumpOps =>
           P[first[q]].to = instructions[first[q]].to
  PROVE  Jumping(quads, first', taddress', instructions', ij_head', nextQuad + 1)
<1>1. Jumping(quads, first, taddress, instructions, ij_head, nextQuad)
  BY DEF GenInv, Generator
<1>2. /\ Extends(first, first', nextQuad) /\ Extends(taddress, taddress', nextQuad)
      /\ \A q \in Upto(nextQuad) : quads[q].op \in JumpOps =>
           instructions'[first[q]].to = instructions[first[q]].to
  BY JumpAddresses DEF Advanced
<1>3. nextQuad \in Nat /\ \A q \in Upto(nextQuad + 1) : quads[q].to \in Nat
  BY TypesInGenerator, TargetsTyped
<1>4. QED
  BY <1>1, <1>2, <1>3, JumpingNext

LEMMA ClosingSame ==
  ASSUME GenInv, nextQuad \in DOMAIN quads,
         quads[nextQuad].op \notin {"func_start", "func_end", "ret"},
         UNCHANGED <<func_stack, returnList, t_address>>,
         NEW s, NEW k \in Nat, Advanced(s, k, instructions)
  PROVE  /\ Closing(quads, first', instructions', func_stack', returnList', nextQuad + 1)
         /\ DOMAIN t_address' = Starts(quads, nextQuad + 1)
         /\ \A nest : Nesting(nest) /\ func_stack = nest[nextQuad]
                        => func_stack' = nest[nextQuad + 1]
<1>1. nextQuad \in Nat /\ Closing(quads, first, instructions, func_stack, returnList, nextQuad)
  BY TypesInGenerator DEF GenInv, Generator
<1>2. Extends(first, first', nextQuad)
  BY DEF Advanced
<1>3. Closing(quads, first', instructions', func_stack, returnList, nextQuad + 1)
  BY <1>1, <1>2, JumpsKept, ClosingOther
<1>4. DOMAIN t_address = Starts(quads, nextQuad + 1)
  BY <1>1, StartsNext DEF GenInv, Generator
<1>5. nextQuad \in Labels
  BY TypesInGenerator DEF Labels, Upto
<1>6. \A nest : Nesting(nest) => nest[nextQuad + 1] = nest[nextQuad]
  BY <1>5 DEF Nesting, Nested, Marks
<1>7. QED
  BY <1>3, <1>4, <1>6

(* Any instruction but FUNC_ENTER, none of which is a target of a jump. *)
LEMMA PlainSuited ==
  ASSUME NEW s, NEW op, op # "func_start",
         \A i \in 1 .. Size(op) : s[i] \in Instrs /\ s[i].op # "funcenter"
  PROVE  Suited(s, Size(op), op)
BY DEF Suited

LEMMA OtherKeeps ==
  ASSUME GenInv, phase = "generating", nextQuad \in DOMAIN quads,
         NEW op, quads[nextQuad].op = op,
         op \notin JumpOps \cup {"func_start", "func_end", "ret"},
         NEW s, Len(s) = Size(op), TEmit(s, currInstruction, instructions),
         \A i \in 1 .. Size(op) : s[i] \in Instrs /\ s[i].op # "funcenter",
         UNCHANGED <<ij_head, func_stack, returnList, t_address>>
  PROVE  GenInv'
<1>1. Suited(s, Size(op), op) /\ Size(op) \in Nat
  BY PlainSuited, SizeFacts
<1>2. currInstruction = currInstruction + Offset(op)
  BY TypesInGenerator DEF Offset
<1>3. Advanced(s, Size(op), instructions)
  BY <1>1, <1>2, NothingPatched, TEmitAdvances
<1>4. Jumping(quads, first', taddress', instructions', ij_head', nextQuad + 1)
  BY <1>1, <1>3, JumpingOther
<1>5. QED
  BY <1>1, <1>3, <1>4, ClosingSame, AdvancedKeeps

LEMMA GenerateOneKeeps == GenInv /\ GenerateOne => GenInv'
<1>1. SUFFICES ASSUME GenInv, GenerateOne PROVE GenInv'
  OBVIOUS
<1>2. PICK op \in {"plain", "param", "call", "getretval"} :
        /\ Generating(op) /\ TEmit(<<Instr(op, 0)>>, currInstruction, instructions)
        /\ UNCHANGED <<ij_head, func_stack, returnList, t_address>>
  BY <1>1 DEF GenerateOne, Here
<1>3. /\ phase = "generating" /\ nextQuad \in DOMAIN quads /\ quads[nextQuad].op = op
      /\ op \notin JumpOps \cup {"func_start", "func_end", "ret"} /\ Size(op) = 1
  BY <1>2 DEF Generating, JumpOps, Size
<1>4. PICK s : s = <<Instr(op, 0)>>
  OBVIOUS
<1>5. Len(s) = Size(op) /\ \A i \in 1 .. Size(op) : s[i] \in Instrs /\ s[i].op # "funcenter"
  <2>1. Instr(op, 0).op # "funcenter" /\ Instr(op, 0) \in Instrs
    BY <1>1, <1>3, InstrFields DEF InstrOps
  <2>2. QED
    BY <1>3, <1>4, <2>1
<1>6. QED
  BY <1>1, <1>2, <1>3, <1>4, <1>5, OtherKeeps

LEMMA GenerateLogicKeeps == GenInv /\ GenerateLogic => GenInv'
<1>1. SUFFICES ASSUME GenInv, GenerateLogic PROVE GenInv'
  OBVIOUS
<1>2. \A d \in {3, 4, 5} : currInstruction + d \in Nat
  BY <1>1, TypesInGenerator
<1>3. CASE Generating("and_or")
  <2>1. PICK s : s = <<Instr("branch", currInstruction + 4), Instr("branch", currInstruction + 4),
                   Instr("plain", 0), Instr("jump", currInstruction + 5), Instr("plain", 0)>>
    OBVIOUS
  <2>2. /\ phase = "generating" /\ nextQuad \in DOMAIN quads /\ quads[nextQuad].op = "and_or"
        /\ "and_or" \notin JumpOps \cup {"func_start", "func_end", "ret"}
        /\ Size("and_or") = 5
    BY <1>3 DEF Generating, JumpOps, Size
  <2>3. /\ UNCHANGED <<ij_head, func_stack, returnList, t_address>>
        /\ TEmit(s, currInstruction, instructions)
    BY <1>1, <1>3, <2>1, <2>2 DEF GenerateLogic, Here, Generating
  <2>4. /\ Len(s) = Size("and_or")
        /\ \A i \in 1 .. Size("and_or") : s[i] \in Instrs /\ s[i].op # "funcenter"
    <3>1. /\ Instr("branch", currInstruction + 4).op # "funcenter"
          /\ Instr("branch", currInstruction + 4) \in Instrs
          /\ Instr("jump", currInstruction + 5).op # "funcenter"
          /\ Instr("jump", currInstruction + 5) \in Instrs
          /\ Instr("plain", 0).op # "funcenter" /\ Instr("plain", 0) \in Instrs
      BY <1>1, <1>2, <2>2, InstrFields DEF InstrOps, JumpOps
    <3>2. QED
      BY <2>1, <2>2, <3>1
  <2>5. QED
    BY <1>1, <2>2, <2>3, <2>4, OtherKeeps
<1>4. CASE Generating("not")
  <2>1. PICK s : s = <<Instr("branch", currInstruction + 3), Instr("plain", 0),
                       Instr("jump", currInstruction + 4), Instr("plain", 0)>>
    OBVIOUS
  <2>2. /\ phase = "generating" /\ nextQuad \in DOMAIN quads /\ quads[nextQuad].op = "not"
        /\ "not" \notin JumpOps \cup {"func_start", "func_end", "ret"}
        /\ Size("not") = 4
    BY <1>4 DEF Generating, JumpOps, Size
  <2>3. /\ UNCHANGED <<ij_head, func_stack, returnList, t_address>>
        /\ TEmit(s, currInstruction, instructions)
    BY <1>1, <1>4, <2>1, <2>2 DEF GenerateLogic, Here, Generating
  <2>4. /\ Len(s) = Size("not")
        /\ \A i \in 1 .. Size("not") : s[i] \in Instrs /\ s[i].op # "funcenter"
    <3>1. /\ Instr("branch", currInstruction + 3).op # "funcenter"
          /\ Instr("branch", currInstruction + 3) \in Instrs
          /\ Instr("jump", currInstruction + 4).op # "funcenter"
          /\ Instr("jump", currInstruction + 4) \in Instrs
          /\ Instr("plain", 0).op # "funcenter" /\ Instr("plain", 0) \in Instrs
      BY <1>1, <1>2, <2>2, InstrFields DEF InstrOps, JumpOps
    <3>2. QED
      BY <2>1, <2>2, <3>1
  <2>5. QED
    BY <1>1, <2>2, <2>3, <2>4, OtherKeeps
<1>5. QED
  BY <1>1, <1>3, <1>4 DEF GenerateLogic


LEMMA GenerateJumpKeeps == GenInv /\ GenerateJump => GenInv'
<1>1. SUFFICES ASSUME GenInv, GenerateJump PROVE GenInv'
  OBVIOUS
<1>2. PICK op \in JumpOps :
        /\ Generating(op) /\ UNCHANGED <<func_stack, returnList, t_address>>
        /\ LET l == quads[nextQuad].to IN
           IF l < nextQuad
           THEN /\ TEmit(<<Instr(op, taddress[l])>>, currInstruction, instructions)
                /\ UNCHANGED ij_head
           ELSE /\ TEmit(<<Instr(op, 0)>>, currInstruction, instructions)
                /\ ij_head' = ij_head \cup {<<currInstruction, l>>}
  BY <1>1 DEF GenerateJump, Here
<1>3. /\ phase = "generating" /\ nextQuad \in DOMAIN quads /\ quads[nextQuad].op = op
      /\ op \notin {"func_start", "func_end", "ret"} /\ Size(op) = 1 /\ Offset(op) = 0
      /\ op # "funcenter"
  BY <1>2 DEF Generating, JumpOps, Size, Offset
<1>4. PICK l \in Nat : l = quads[nextQuad].to
  BY <1>1, <1>3, TypesInGenerator
<1>5. PICK h, n \in Nat : h = currInstruction /\ n = nextQuad
  BY <1>1, TypesInGenerator
<1>6. /\ Laid(quads, first, taddress, n, h)
      /\ Jumping(quads, first, taddress, instructions, ij_head, n)
  BY <1>1, <1>3, <1>5 DEF GenInv, Generator
<1>7. l < n => taddress[l] \in Nat
  <2>1. SUFFICES ASSUME l < n PROVE taddress[l] \in Nat
    OBVIOUS
  <2>2. l \in Upto(n) /\ Offset(quads[l].op) \in Nat
    BY <2>1, SizeFacts DEF Upto
  <2>3. first[l] \in Nat /\ taddress[l] = first[l] + Offset(quads[l].op)
    BY <1>6, <2>2 DEF Laid
  <2>4. QED
    BY <2>2, <2>3
<1>8. PICK to \in Nat :
        /\ TEmit(<<Instr(op, to)>>, currInstruction, instructions)
        /\ IF l < n THEN to = taddress[l] /\ UNCHANGED ij_head
                    ELSE ij_head' = ij_head \cup {<<h, l>>}
  BY <1>2, <1>4, <1>5, <1>7
<1>9. PICK s : s = <<Instr(op, to)>>
  OBVIOUS
<1>10. /\ Len(s) = 1 /\ s[1].to = to /\ Suited(s, 1, op)
       /\ TEmit(s, currInstruction, instructions)
  <2>1. Len(s) = 1 /\ s[1] = Instr(op, to) /\ \A i \in 1 .. 1 : i = 1
    BY <1>9
  <2>2. QED
    BY <1>1, <1>3, <1>8, <1>9, <2>1, InstrFields DEF Suited, InstrOps
<1>11. Advanced(s, 1, instructions)
  <2>1. 1 \in Nat /\ currInstruction = currInstruction + Offset(op)
    BY <1>3, <1>5
  <2>2. QED
    BY <1>1, <1>3, <1>10, <2>1, NothingPatched, TEmitAdvances
<1>12. Jumping(quads, first', taddress', instructions', ij_head', n + 1)
  <2>1. \A q \in Upto(n + 1) : quads[q].to \in Nat
    BY <1>1, <1>3, <1>5, TargetsTyped
  <2>2. Extends(first, first', n) /\ Extends(taddress, taddress', n) /\ first'[n] = h
    BY <1>5, <1>11 DEF Advanced
  <2>3. instructions'[h].to = to
    <3>1. instructions'[h + 1 - 1] = s[1]
      BY <1>5, <1>11 DEF Advanced
    <3>2. h + 1 - 1 = h
      OBVIOUS
    <3>3. QED
      BY <1>10, <3>1, <3>2
  <2>4. \A q \in Upto(n) : instructions'[first[q]].to = instructions[first[q]].to
    BY <1>1, <1>5, <1>11, JumpsKept
  <2>5. IF quads[n].to < n
        THEN instructions'[first'[n]].to = taddress[quads[n].to] /\ ij_head' = ij_head
        ELSE ij_head' = ij_head \cup {<<first'[n], quads[n].to>>}
    BY <1>4, <1>5, <1>8, <2>2, <2>3
  <2>6. quads[n].op \in JumpOps
    BY <1>2, <1>3, <1>5
  <2>7. QED
    BY <1>6, <2>1, <2>2, <2>4, <2>5, <2>6, JumpingNext
<1>13. QED
  <2>1. Jumping(quads, first', taddress', instructions', ij_head', nextQuad + 1)
    BY <1>5, <1>12
  <2>2. 1 \in Nat
    OBVIOUS
  <2>3. UNCHANGED <<func_stack, returnList, t_address>>
    BY <1>2
  <2>4. QED
    BY <1>1, <1>3, <1>11, <2>1, <2>2, <2>3, ClosingSame, AdvancedKeeps

LEMMA NestStep ==
  ASSUME GenInv, nextQuad \in DOMAIN quads
  PROVE  \A nest : Nesting(nest) =>
           Nested(nextQuad, nest[nextQuad], nest[nextQuad + 1])
<1>1. nextQuad \in Labels
  BY TypesInGenerator DEF Labels, Upto
<1>2. QED
  BY <1>1 DEF Nesting

LEMMA GenerateFuncStartKeeps == GenInv /\ GenerateFuncStart => GenInv'
<1>1. SUFFICES ASSUME GenInv, GenerateFuncStart PROVE GenInv'
  OBVIOUS
<1>2. PICK h, n \in Nat : h = currInstruction /\ n = nextQuad
  BY <1>1, TypesInGenerator
<1>3. PICK x : x = [Instr("funcenter", 0) EXCEPT !.in = n]
  OBVIOUS
<1>4. x.op = "funcenter" /\ x \in Instrs
  <2>1. nextQuad \in DOMAIN quads
    BY <1>1 DEF GenerateFuncStart, Generating
  <2>2. PICK y : y = Instr("funcenter", 0) /\ y \in Instrs /\ y.op = "funcenter"
    BY <1>1, <2>1, InstrFields DEF InstrOps
  <2>3. x = [y EXCEPT !.in = n]
    BY <1>3, <2>2
  <2>4. QED
    BY <2>2, <2>3 DEF Instrs
<1>5. PICK s : s = <<Instr("jump", 0), x>>
  OBVIOUS
<1>6. /\ phase = "generating" /\ nextQuad \in DOMAIN quads
      /\ quads[nextQuad].op = "func_start"
      /\ TEmit(s, h + 1, instructions)
      /\ t_address' = (n :> h + 1) @@ t_address
      /\ func_stack' = Push(func_stack, n)
      /\ returnList' = (n :> {h}) @@ returnList
      /\ UNCHANGED ij_head
  BY <1>1, <1>2, <1>3, <1>5 DEF GenerateFuncStart, Generating, Here
<1>7. Len(s) = 2 /\ Suited(s, 2, "func_start") /\ 2 \in Nat
  <2>1. Len(s) = 2 /\ s[1] = Instr("jump", 0) /\ s[2] = x
    BY <1>5
  <2>2. Instr("jump", 0).op # "funcenter" /\ Instr("jump", 0) \in Instrs
    BY <1>1, <1>6, InstrFields DEF InstrOps, JumpOps
  <2>3. \A i \in 1 .. 2 : i = 1 \/ i = 2
    OBVIOUS
  <2>4. QED
    BY <1>4, <2>1, <2>2, <2>3 DEF Suited, Size
<1>8. Advanced(s, 2, instructions)
  <2>1. h + 1 = currInstruction + Offset("func_start")
    BY <1>2 DEF Offset
  <2>2. QED
    BY <1>1, <1>6, <1>7, <2>1, NothingPatched, TEmitAdvances
<1>9. Jumping(quads, first', taddress', instructions', ij_head', nextQuad + 1)
  <2>1. quads[nextQuad].op \notin JumpOps
    BY <1>6 DEF JumpOps
  <2>2. QED
    BY <1>1, <1>6, <1>7, <1>8, <2>1, JumpingOther
<1>10. Closing(quads, first', instructions', func_stack', returnList', n + 1)
  <2>1. Closing(quads, first, instructions, func_stack, returnList, n)
    BY <1>1, <1>2 DEF GenInv, Generator
  <2>2. Extends(first, first', n) /\ first'[n] = h
    BY <1>2, <1>8 DEF Advanced
  <2>3. /\ \A f \in Starts(quads, n) : instructions'[first[f]].to = instructions[first[f]].to
        /\ \A f : \A q \in ReturnsOf(quads, n, f) :
             instructions'[first[q] + 1].to = instructions[first[q] + 1].to
    BY <1>1, <1>2, <1>7, <1>8, JumpsKept
  <2>4. returnList' = (n :> {first'[n]}) @@ returnList
    BY <1>6, <2>2
  <2>5. quads[n].op = "func_start"
    BY <1>2, <1>6
  <2>6. Closing(quads, first', instructions', Push(func_stack, n), returnList', n + 1)
    BY <2>1, <2>2, <2>3, <2>4, <2>5, ClosingStart
  <2>7. QED
    BY <1>6, <2>6
<1>11. DOMAIN t_address' = Starts(quads, n + 1)
  <2>1. DOMAIN t_address = Starts(quads, n) /\ quads[n].op = "func_start"
    BY <1>1, <1>2, <1>6 DEF GenInv, Generator
  <2>2. DOMAIN t_address' = {n} \cup DOMAIN t_address
    BY <1>6 DEF @@, :>
  <2>3. Starts(quads, n + 1) = Starts(quads, n) \cup {n}
    BY <2>1, StartsNext
  <2>4. QED
    BY <2>1, <2>2, <2>3
<1>12. \A nest : Nesting(nest) /\ func_stack = nest[nextQuad]
                   => func_stack' = nest[nextQuad + 1]
  BY <1>1, <1>2, <1>6, NestStep DEF Nested
<1>13. QED
  BY <1>1, <1>2, <1>6, <1>7, <1>8, <1>9, <1>10, <1>11, <1>12, AdvancedKeeps

LEMMA GenerateReturnKeeps == GenInv /\ GenerateReturn => GenInv'
<1>1. SUFFICES ASSUME GenInv, GenerateReturn PROVE GenInv'
  OBVIOUS
<1>2. PICK h, n \in Nat : h = currInstruction /\ n = nextQuad
  BY <1>1, TypesInGenerator
<1>3. PICK s : s = <<Instr("plain", 0), Instr("jump", 0)>>
  OBVIOUS
<1>4. /\ phase = "generating" /\ nextQuad \in DOMAIN quads
      /\ quads[nextQuad].op = "ret" /\ func_stack # <<>>
      /\ TEmit(s, h, instructions)
      /\ returnList' = [returnList EXCEPT ![Head(func_stack)] = @ \cup {h + 1}]
      /\ UNCHANGED <<ij_head, func_stack, t_address>>
  BY <1>1, <1>2, <1>3 DEF GenerateReturn, Generating, Here
<1>5. Len(s) = 2 /\ Suited(s, 2, "ret") /\ 2 \in Nat
  <2>1. Len(s) = 2 /\ s[1] = Instr("plain", 0) /\ s[2] = Instr("jump", 0)
    BY <1>3
  <2>2. /\ Instr("jump", 0).op # "funcenter" /\ Instr("jump", 0) \in Instrs
        /\ Instr("plain", 0).op # "funcenter" /\ Instr("plain", 0) \in Instrs
    BY <1>1, <1>4, InstrFields DEF InstrOps, JumpOps
  <2>3. \A i \in 1 .. 2 : i = 1 \/ i = 2
    OBVIOUS
  <2>4. QED
    BY <2>1, <2>2, <2>3 DEF Suited, Size
<1>6. Advanced(s, 2, instructions)
  <2>1. h = currInstruction + Offset("ret")
    BY <1>2 DEF Offset
  <2>2. QED
    BY <1>1, <1>4, <1>5, <2>1, NothingPatched, TEmitAdvances
<1>7. Jumping(quads, first', taddress', instructions', ij_head', nextQuad + 1)
  <2>1. quads[nextQuad].op \notin JumpOps
    BY <1>4 DEF JumpOps
  <2>2. QED
    BY <1>1, <1>4, <1>5, <1>6, <2>1, JumpingOther
<1>8. \A nest : Nesting(nest) /\ func_stack = nest[nextQuad]
                   => /\ func_stack' = nest[nextQuad + 1]
                      /\ quads[n].in = Head(func_stack)
  BY <1>1, <1>2, <1>4, NestStep DEF Nested, Marks, InnermostOf, JumpOps
<1>9. Closing(quads, first', instructions', func_stack', returnList', n + 1)
  <2>1. Closing(quads, first, instructions, func_stack, returnList, n)
    BY <1>1, <1>2 DEF GenInv, Generator
  <2>2. Extends(first, first', n) /\ first'[n] = h
    BY <1>2, <1>6 DEF Advanced
  <2>3. /\ \A f \in Starts(quads, n) : instructions'[first[f]].to = instructions[first[f]].to
        /\ \A f : \A q \in ReturnsOf(quads, n, f) :
             instructions'[first[q] + 1].to = instructions[first[q] + 1].to
    BY <1>1, <1>2, <1>5, <1>6, JumpsKept
  <2>4. AddsReturn(returnList, Head(func_stack), first'[n], returnList')
    BY <1>4, <2>2 DEF AddsReturn
  <2>5. quads[n].op = "ret" /\ quads[n].in = Head(func_stack)
    BY <1>1, <1>2, <1>4, <1>8 DEF GenInv, StackInv
  <2>6. Closing(quads, first', instructions', func_stack, returnList', n + 1)
    BY <1>4, <2>1, <2>2, <2>3, <2>4, <2>5, ClosingReturn
  <2>7. QED
    BY <1>4, <2>6
<1>10. DOMAIN t_address' = Starts(quads, n + 1)
  <2>1. DOMAIN t_address = Starts(quads, n) /\ quads[n].op = "ret"
    BY <1>1, <1>2, <1>4 DEF GenInv, Generator
  <2>2. Starts(quads, n + 1) = Starts(quads, n)
    BY <2>1, StartsNext
  <2>3. QED
    BY <1>4, <2>1, <2>2
<1>11. QED
  BY <1>1, <1>2, <1>4, <1>5, <1>6, <1>7, <1>8, <1>9, <1>10, AdvancedKeeps


LEMMA GenerateFuncEndKeeps == GenInv /\ GenerateFuncEnd => GenInv'
<1>1. SUFFICES ASSUME GenInv, GenerateFuncEnd PROVE GenInv'
  OBVIOUS
<1>2. PICK h, n \in Nat : h = currInstruction /\ n = nextQuad
  BY <1>1, TypesInGenerator
<1>3. PICK f : f = Head(func_stack)
  OBVIOUS
<1>4. PICK s, P : s = <<Instr("funcexit", 0)>> /\ P = PatchedToExit(returnList[f])
  OBVIOUS
<1>5. /\ phase = "generating" /\ nextQuad \in DOMAIN quads
      /\ quads[nextQuad].op = "func_end" /\ TEmit(s, h, P)
      /\ func_stack' = Tail(func_stack)
      /\ UNCHANGED <<ij_head, returnList, t_address>>
  BY <1>1, <1>2, <1>3, <1>4 DEF GenerateFuncEnd, Generating, Here
<1>6. /\ func_stack # <<>> /\ quads[n].to = f
      /\ \A nest : Nesting(nest) /\ func_stack = nest[nextQuad]
                     => func_stack' = nest[nextQuad + 1]
  <2>1. PICK nest : Nesting(nest) /\ func_stack = nest[nextQuad]
    BY <1>1 DEF GenInv, StackInv
  <2>2. func_stack # <<>> /\ quads[n].to = f
    BY <1>1, <1>2, <1>3, <1>5, <2>1, NestStep DEF Nested
  <2>3. QED
    BY <1>1, <1>2, <1>5, <2>2, NestStep DEF Nested
<1>7. /\ Laid(quads, first, taddress, n, h) /\ Coded(quads, first, instructions, n, h)
      /\ Closing(quads, first, instructions, func_stack, returnList, n)
  BY <1>1, <1>2 DEF GenInv, Generator
<1>8. PICK L : L = returnList[f] /\ L = Jumps(quads, first, n, f)
  <2>1. f \in Starts(quads, n)
    <3>1. PICK A : A = Starts(quads, n)
      OBVIOUS
    <3>2. func_stack \in Seq(A)
      BY <1>7, <3>1 DEF Closing
    <3>3. QED
      BY <1>3, <1>6, <3>1, <3>2
  <2>2. returnList[f] = Jumps(quads, first, n, f)
    BY <1>7, <2>1 DEF Closing, Jumps
  <2>3. QED
    BY <2>2
<1>9. f \in Starts(quads, n) /\ quads[f].op = "func_start"
  <2>1. PICK A : A = Starts(quads, n)
    OBVIOUS
  <2>2. func_stack \in Seq(A)
    BY <1>7, <2>1 DEF Closing
  <2>3. f \in A
    BY <1>3, <1>6, <2>2
  <2>4. QED
    BY <2>1, <2>3 DEF Starts
<1>10. /\ DOMAIN P = L \cup DOMAIN instructions
       /\ \A a \in L : /\ P[a].op = instructions[a].op /\ P[a] \in Instrs
                       /\ P[a].to = IF a < h - 1 /\ instructions[a + 1].op = "funcenter"
                                    THEN h + 1 ELSE h
       /\ \A a \in DOMAIN instructions : a \notin L => P[a] = instructions[a]
  <2>1. L \subseteq DOMAIN instructions
    <3>1. f \in Upto(n) /\ DOMAIN instructions = Upto(h)
      BY <1>7, <1>9 DEF Starts, Coded
    <3>2. QED
      BY <1>1, <1>2, <1>8, <3>1, JumpAddresses DEF Jumps
  <2>2. \A a \in DOMAIN instructions : instructions[a] \in Instrs
    BY <1>7 DEF Coded
  <2>3. PICK to : to = [a \in L |-> IF a < h - 1 /\ instructions[a + 1].op = "funcenter"
                                   THEN h + 1 ELSE h]
    OBVIOUS
  <2>4. \A a \in L : /\ to[a] \in Nat
                     /\ to[a] = IF a < h - 1 /\ instructions[a + 1].op = "funcenter"
                                THEN h + 1 ELSE h
    BY <2>3
  <2>5. P = [a \in L |-> [instructions[a] EXCEPT !.to = to[a]]] @@ instructions
    BY <1>2, <1>4, <1>8, <2>4 DEF PatchedToExit, Here
  <2>6. PICK M : M = [a \in L |-> [instructions[a] EXCEPT !.to = to[a]]]
    OBVIOUS
  <2>7. /\ DOMAIN M = L
        /\ \A a \in L : /\ M[a].op = instructions[a].op /\ M[a] \in Instrs
                        /\ M[a].to = to[a]
    BY <2>1, <2>2, <2>4, <2>6 DEF Instrs
  <2>8. /\ DOMAIN P = DOMAIN M \cup DOMAIN instructions
        /\ \A a \in DOMAIN M : P[a] = M[a]
        /\ \A a \in DOMAIN instructions : a \notin DOMAIN M => P[a] = instructions[a]
    BY <2>5, <2>6 DEF @@
  <2>9. QED
    BY <2>4, <2>7, <2>8
<1>11. Patches(P, instructions, h) /\ L \subseteq Upto(h)
  <2>1. L \subseteq Upto(h) /\ DOMAIN instructions = Upto(h)
    <3>1. f \in Upto(n) /\ DOMAIN instructions = Upto(h)
      BY <1>7, <1>9 DEF Starts, Coded
    <3>2. QED
      BY <1>1, <1>2, <1>8, <3>1, JumpAddresses DEF Jumps
  <2>2. \A a \in Upto(h) : instructions[a] \in Instrs
    BY <1>7 DEF Coded
  <2>3. DOMAIN P = DOMAIN instructions
    BY <1>10, <2>1
  <2>4. \A a \in Upto(h) : P[a].op = instructions[a].op /\ P[a] \in Instrs
    BY <1>10, <2>1, <2>2
  <2>5. QED
    BY <2>1, <2>3, <2>4 DEF Patches
<1>12. Len(s) = 1 /\ Suited(s, 1, "func_end") /\ 1 \in Nat
  <2>1. Len(s) = 1 /\ s[1] = Instr("funcexit", 0) /\ \A i \in 1 .. 1 : i = 1
    BY <1>4
  <2>2. Instr("funcexit", 0).op # "funcenter" /\ Instr("funcexit", 0) \in Instrs
    BY <1>1, <1>5, InstrFields DEF InstrOps, JumpOps
  <2>3. QED
    BY <2>1, <2>2 DEF Suited, Size
<1>13. Advanced(s, 1, P)
  <2>1. h = currInstruction + Offset("func_end")
    BY <1>2 DEF Offset
  <2>2. QED
    BY <1>1, <1>2, <1>5, <1>11, <1>12, <2>1, TEmitAdvances
<1>14. \A a \in Upto(h) : instructions'[a] = P[a]
  BY <1>2, <1>13 DEF Advanced
<1>15. Extends(first, first', n) /\ first'[n] = h
  BY <1>2, <1>13 DEF Advanced
(* The jump around the function is the one in front of a FUNC_ENTER. *)
<1>16. P[first[f]].to = h + 1
  <2>1. f \in Upto(n) /\ first[f] \in L
    BY <1>8, <1>9 DEF Starts, Jumps
  <2>2. first[f] \in Nat /\ first[f] + 2 <= h
    BY <1>7, <1>9, <2>1 DEF Laid, Size
  <2>3. first[f] + 1 \in Upto(h) /\ first[f] < h - 1
    BY <2>2 DEF Upto
  <2>4. Enters(quads, first, n, first[f] + 1)
    BY <1>9, <2>1 DEF Enters
  <2>5. instructions[first[f] + 1].op = "funcenter"
    BY <1>7, <2>3, <2>4 DEF Coded
  <2>6. QED
    BY <1>10, <2>1, <2>3, <2>5
<1>17. \A q \in ReturnsOf(quads, n, f) : P[first[q] + 1].to = h
  <2>1. SUFFICES ASSUME NEW q \in ReturnsOf(quads, n, f) PROVE P[first[q] + 1].to = h
    OBVIOUS
  <2>2. q \in Upto(n) /\ quads[q].op = "ret" /\ first[q] + 1 \in L
    BY <1>8 DEF ReturnsOf, Jumps
  <2>3. first[q] \in Nat /\ first[q] + 2 <= h /\ q \in Nat
    BY <1>7, <2>2, UptoNext DEF Laid, Size
  <2>4. SUFFICES ASSUME first[q] + 1 < h - 1, instructions[first[q] + 1 + 1].op = "funcenter"
                 PROVE  FALSE
    BY <1>10, <2>2
  <2>5. first[q] + 1 + 1 \in Upto(h)
    BY <2>3, <2>4 DEF Upto
  <2>6. PICK g \in Upto(n) : quads[g].op = "func_start" /\ first[q] + 1 + 1 = first[g] + 1
    BY <1>7, <2>4, <2>5 DEF Coded, Enters
  <2>7. first[g] \in Nat /\ g \in Nat /\ first[g] = first[q] + 1
    <3>1. first[g] \in Nat /\ g \in Nat
      BY <1>7, <2>6, UptoNext DEF Laid
    <3>2. QED
      BY <2>3, <2>6, <3>1
  <2>8. /\ q < g => first[q] + 2 <= first[g]
        /\ g < q => first[g] + 2 <= first[q]
    BY <1>7, <2>2, <2>6 DEF Laid, Size
  <2>9. q # g
    BY <2>2, <2>6
  <2>10. QED
    BY <2>3, <2>7, <2>8, <2>9
<1>18. Jumping(quads, first', taddress', instructions', ij_head', nextQuad + 1)
  <2>1. quads[nextQuad].op \notin JumpOps
    BY <1>5 DEF JumpOps
  <2>2. \A q \in Upto(n) : quads[q].op \in JumpOps =>
          P[first[q]].to = instructions[first[q]].to
    <3>1. SUFFICES ASSUME NEW q \in Upto(n), quads[q].op \in JumpOps
                   PROVE  P[first[q]].to = instructions[first[q]].to
      OBVIOUS
    <3>2. first[q] \notin L /\ first[q] \in Upto(h)
      BY <1>1, <1>2, <1>7, <1>8, <1>9, <3>1, JumpQuadsApart, JumpAddresses
    <3>3. QED
      BY <1>7, <1>10, <3>2 DEF Coded
  <2>3. QED
    BY <1>1, <1>2, <1>5, <1>12, <1>13, <2>1, <2>2, JumpingOther
<1>19. Closing(quads, first', instructions', func_stack', returnList', n + 1)
  <2>1. PICK S : S = func_stack
    OBVIOUS
  <2>2. /\ quads[n].op = "func_end" /\ S # <<>> /\ quads[n].to = Head(S)
        /\ L = Jumps(quads, first, n, Head(S)) /\ f = Head(S)
    BY <1>2, <1>3, <1>5, <1>6, <1>8, <2>1
  <2>3. PICK K : K = instructions' /\ \A a \in Upto(h) : K[a] = P[a]
    BY <1>14
  <2>4. /\ \A q \in Upto(n) : first[q] \in Upto(h)
        /\ \A g : \A q \in ReturnsOf(quads, n, g) : first[q] + 1 \in Upto(h)
    BY <1>1, <1>2, JumpAddresses
  <2>5. f \in Upto(n) /\ \A g \in Starts(quads, n) : g \in Upto(n)
    BY <1>9 DEF Starts
  <2>6. K[first[f]].to = h + 1
    BY <1>16, <2>3, <2>4, <2>5
  <2>7. \A q \in ReturnsOf(quads, n, f) : K[first[q] + 1].to = h
    BY <1>17, <2>3, <2>4
  <2>8. \A g \in Starts(quads, n) :
          first[g] \notin L => K[first[g]].to = instructions[first[g]].to
    BY <1>7, <1>10, <2>3, <2>4, <2>5 DEF Coded
  <2>9. \A g : \A q \in ReturnsOf(quads, n, g) :
          first[q] + 1 \notin L => K[first[q] + 1].to = instructions[first[q] + 1].to
    BY <1>7, <1>10, <2>3, <2>4 DEF Coded
  <2>10. PICK G : G = first' /\ Extends(first, G, n) /\ G[n] = h
    BY <1>15
  <2>11. Closing(quads, first, instructions, S, returnList, n)
    BY <1>7, <2>1
  <2>12. Closing(quads, G, K, Tail(S), returnList, n + 1)
    <3>1. K[first[Head(S)]].to = G[n] + 1
      BY <2>2, <2>6, <2>10
    <3>2. \A q \in ReturnsOf(quads, n, Head(S)) : K[first[q] + 1].to = G[n]
      BY <2>2, <2>7, <2>10
    <3>3. /\ \A g \in Starts(quads, n) : first[g] \notin Jumps(quads, first, n, Head(S))
                                          => K[first[g]].to = instructions[first[g]].to
          /\ \A g : \A q \in ReturnsOf(quads, n, g) :
               first[q] + 1 \notin Jumps(quads, first, n, Head(S))
                 => K[first[q] + 1].to = instructions[first[q] + 1].to
      BY <2>2, <2>8, <2>9
    <3>4. QED
      BY <1>7, <2>2, <2>10, <2>11, <3>1, <3>2, <3>3, ClosingEnd
  <2>13. QED
    BY <1>5, <2>1, <2>3, <2>10, <2>12
<1>20. DOMAIN t_address' = Starts(quads, n + 1)
  <2>1. DOMAIN t_address = Starts(quads, n) /\ quads[n].op = "func_end"
    BY <1>1, <1>2, <1>5 DEF GenInv, Generator
  <2>2. Starts(quads, n + 1) = Starts(quads, n)
    BY <2>1, StartsNext
  <2>3. QED
    BY <1>5, <2>1, <2>2
<1>21. QED
  BY <1>1, <1>2, <1>5, <1>6, <1>12, <1>13, <1>18, <1>19, <1>20, AdvancedKeeps

-----------------------------------------------------------------------------
(* The other steps *)

LEMMA CrashKeeps == GenInv /\ Crash => GenInv'
<1>1. SUFFICES ASSUME GenInv, Crash PROVE GenInv'
  OBVIOUS
<1>2. /\ UNCHANGED <<vars, nextQuad, instructions, currInstruction, taddress,
                      ij_head, func_stack, returnList, t_address, first>>
      /\ phase = "generating" /\ phase' = "crashed"
  BY <1>1 DEF Crash
<1>3. UNCHANGED <<quads, currQuad, open, errors>>
  BY <1>2 DEF vars
<1>4. OpensInv' /\ PhaseInv'
  BY <1>1, <1>2, <1>3, OpensLater DEF GenInv, PhaseInv
<1>5. Generator'
  BY <1>1, <1>2, <1>3 DEF GenInv, Generator
<1>6. StackInv'
  BY <1>1, <1>2, NestingSame DEF GenInv, StackInv
<1>7. QED
  BY <1>4, <1>5, <1>6 DEF GenInv

(* Where the parser leaves off: only TextBreaksOff counts an error. *)
LEMMA BrokenOff ==
  ASSUME OpensInv, UNCHANGED <<quads, currQuad, stacks, open, settled>>, errors' = errors + 1
  PROVE  OpensInv' /\ errors' > 0
<1>1. errors' \in Nat /\ errors' > 0 /\ errors' # 0
  BY TypesOf DEF OpensInv
<1>2. /\ UNCHANGED <<loops, function_loop_stack, while_start_label_stack,
                      for_expr_start_stack, if_label_stack, else_label_stack>>
      /\ UNCHANGED <<has_else_stack, function_name_stack>>
  BY DEF stacks
<1>3. TypeOK'
  BY <1>1, <1>2 DEF OpensInv, TypeOK, Labels, Frame, LoopStacks
<1>4. OpenInv'
  BY DEF OpensInv, OpenInv, Depths, At
<1>5. \A kind, phases : Having(kind, phases)' = Having(kind, phases)
  BY DEF Having, Depths, At
<1>6. Functions' = Functions
  BY <1>5 DEF Functions
<1>7. StacksInv'
  BY <1>1, <1>2, <1>5, <1>6 DEF OpensInv, StacksInv, Covers
<1>8. \A d, L : LevelInv(d, L) => LevelInv(d, L)'
  BY <1>1, <1>5, <1>6 DEF LevelInv, Covers, On, Level
<1>9. \A d : LoopsAt(d)' = LoopsAt(d)
  BY <1>2 DEF LoopsAt
<1>10. LevelsInv'
  BY <1>2, <1>6, <1>8, <1>9 DEF OpensInv, LevelsInv, HeadsKept
<1>11. QED
  BY <1>1, <1>3, <1>4, <1>7, <1>10 DEF OpensInv

LEMMA ParserEnds ==
  GenInv /\ (ParserCrash \/ StartGenerating \/ TextBreaksOff) => GenInv'
<1>1. SUFFICES ASSUME GenInv, ParserCrash \/ StartGenerating \/ TextBreaksOff PROVE GenInv'
  OBVIOUS
<1>2. /\ UNCHANGED <<nextQuad, instructions, currInstruction, taddress,
                      ij_head, func_stack, returnList, t_address, first>>
      /\ UNCHANGED <<quads, currQuad, stacks, open, settled>>
      /\ phase = "parsing" /\ phase' \in {"generating", "crashed"}
  BY <1>1 DEF ParserCrash, StartGenerating, TextBreaksOff, vars
<1>3. UNCHANGED function_name_stack
  BY <1>2 DEF stacks
<1>4. OpensInv' /\ (phase' = "generating" => open' = <<>> \/ errors' > 0)
  <2>1. CASE ParserCrash \/ StartGenerating
    BY <1>1, <2>1, OpensLater DEF ParserCrash, StartGenerating, GenInv, vars
  <2>2. CASE TextBreaksOff
    BY <1>1, <1>2, <2>2, BrokenOff DEF TextBreaksOff, GenInv
  <2>3. QED
    BY <1>1, <2>1, <2>2
<1>5. PhaseInv'
  BY <1>2, <1>4 DEF PhaseInv
<1>6. Generator'
  BY <1>1, <1>2 DEF GenInv, Generator
<1>7. \A n : Nesting(n) => Nesting(n)'
  BY <1>2, <1>3 DEF Nesting, Nested, Labels
<1>8. StackInv'
  BY <1>1, <1>2, <1>7 DEF GenInv, StackInv
<1>9. QED
  BY <1>4, <1>5, <1>6, <1>8 DEF GenInv

LEMMA StutterKeeps == GenInv /\ UNCHANGED tvars => GenInv'
<1>1. SUFFICES ASSUME GenInv, UNCHANGED tvars PROVE GenInv'
  OBVIOUS
<1>2. UNCHANGED vars /\ UNCHANGED gvars
  BY <1>1 DEF tvars
<1>3. UNCHANGED <<quads, currQuad, open, errors>>
  BY <1>2 DEF vars
<1>4. ReservedInv => ReservedInv'
  <2>1. UNCHANGED <<loops, function_loop_stack, if_label_stack, else_label_stack>>
    BY <1>2 DEF vars, stacks
  <2>2. QED
    BY <1>3, <2>1 DEF ReservedInv, FreeLabels, FreePairs, Free, Labels
<1>5. OpensInv' /\ PhaseInv'
  BY <1>1, <1>2, <1>3, <1>4, OpensLater DEF GenInv, PhaseInv, gvars
<1>6. Generator'
  BY <1>1, <1>2, <1>3 DEF GenInv, Generator, gvars
<1>7. StackInv'
  BY <1>1, <1>2, NestingSame DEF GenInv, StackInv, gvars
<1>8. QED
  BY <1>5, <1>6, <1>7 DEF GenInv

(* With no quad translated yet, the text may change. *)
LEMMA NothingTranslated ==
  ASSUME NEW Q, NEW P, NEW F, NEW T, NEW I, NEW J, NEW S, NEW R, NEW h
  PROVE  /\ Laid(Q, F, T, 0, h) => Laid(P, F, T, 0, h)
         /\ Coded(Q, F, I, 0, h) => Coded(P, F, I, 0, h)
         /\ Closing(Q, F, I, S, R, 0) => Closing(P, F, I, S, R, 0)
         /\ Starts(Q, 0) = Starts(P, 0)
         /\ Heads(Q, F, J, 0) => Heads(P, F, J, 0)
         /\ Jumping(Q, F, T, I, J, 0) => Jumping(P, F, T, I, J, 0)
<1>1. Upto(0) = {}
  BY DEF Upto
<1>2. Starts(Q, 0) = {} /\ Starts(P, 0) = {}
  BY <1>1 DEF Starts
<1>3. Closing(Q, F, I, S, R, 0) => Closing(P, F, I, S, R, 0)
  BY <1>1, <1>2 DEF Closing
<1>4. QED
  BY <1>1, <1>2, <1>3 DEF Laid, Coded, Heads, Jumping, Enters

LEMMA ParsingKeeps == GenInv /\ Parsing => GenInv'
<1>1. SUFFICES ASSUME GenInv, Parsing PROVE GenInv'
  OBVIOUS
<1>2. ParseAny /\ phase = "parsing" /\ nextQuad = 0 /\ OpensInv /\ ReservedInv
  BY <1>1 DEF Parsing, GenInv, PhaseInv
<1>3. UNCHANGED <<phase, nextQuad, instructions, currInstruction, taddress, ij_head,
                  func_stack, returnList, t_address, first>>
  BY <1>1 DEF Parsing, gvars
<1>4. OpensInv' /\ ReservedInv' /\ TypeOK'
  BY <1>2, OpensKept, ParserWrites
<1>5. PhaseInv'
  BY <1>2, <1>3, <1>4 DEF PhaseInv
<1>6. Generator'
  <2>1. nextQuad' \in 0 .. currQuad' /\ currInstruction' \in Nat
    <3>1. currQuad' \in Nat
      BY <1>4, NamesLater DEF NamesTyped
    <3>2. nextQuad' = 0 /\ currInstruction' \in Nat
      BY <1>1, <1>2, <1>3, TypesInGenerator
    <3>3. QED
      BY <3>1, <3>2
  <2>2. /\ Laid(quads, first, taddress, 0, currInstruction)
        /\ Coded(quads, first, instructions, 0, currInstruction)
        /\ Closing(quads, first, instructions, func_stack, returnList, 0)
        /\ DOMAIN t_address = Starts(quads, 0)
        /\ Heads(quads, first, ij_head, 0)
        /\ Jumping(quads, first, taddress, instructions, ij_head, 0)
    BY <1>1, <1>2 DEF GenInv, Generator
  <2>3. /\ Laid(quads', first, taddress, 0, currInstruction)
        /\ Coded(quads', first, instructions, 0, currInstruction)
        /\ Closing(quads', first, instructions, func_stack, returnList, 0)
        /\ DOMAIN t_address = Starts(quads', 0)
        /\ Heads(quads', first, ij_head, 0)
        /\ Jumping(quads', first, taddress, instructions, ij_head, 0)
    BY <2>2, NothingTranslated
  <2>4. QED
    BY <1>2, <1>3, <2>1, <2>3 DEF Generator
<1>7. StackInv'
  <2>1. PICK nest : Nesting(nest) /\ func_stack = nest[nextQuad]
    BY <1>1 DEF GenInv, StackInv
  <2>2. PICK m : Nesting(m)'
    BY <1>2, <2>1, NestKept
  <2>3. nest[0] = <<>> /\ m[0] = <<>>
    BY <2>1, <2>2 DEF Nesting
  <2>4. func_stack' = m[nextQuad']
    BY <1>2, <1>3, <2>1, <2>3
  <2>5. QED
    BY <2>2, <2>4 DEF StackInv
<1>8. QED
  BY <1>4, <1>5, <1>6, <1>7 DEF GenInv


-----------------------------------------------------------------------------
(* The incomplete jumps *)

LEMMA ClosingPatched ==
  ASSUME NEW Q, NEW F, NEW I, NEW S, NEW R, NEW n, Closing(Q, F, I, S, R, n),
         NEW K, \A f \in Starts(Q, n) : K[F[f]].to = I[F[f]].to,
         \A f : \A q \in ReturnsOf(Q, n, f) : K[F[q] + 1].to = I[F[q] + 1].to
  PROVE  Closing(Q, F, K, S, R, n)
<1>1. ASSUME NEW f \in Starts(Q, n), NEW e \in Upto(n), ClosedBy(Q, F, I, n, f, e)
      PROVE  ClosedBy(Q, F, K, n, f, e)
  BY <1>1 DEF ClosedBy
<1>2. QED
  BY <1>1 DEF Closing

(* An incomplete jump is that of one quad only. *)
LEMMA HeadsUnique ==
  ASSUME NEW Q, NEW F, NEW T, NEW n \in Nat, NEW h \in Nat, Laid(Q, F, T, n, h),
         NEW J, Heads(Q, F, J, n),
         NEW q \in Upto(n), NEW j \in J, j[1] = F[q]
  PROVE  j = <<F[q], Q[q].to>>
<1>1. PICK r \in Upto(n) : Q[r].op \in JumpOps /\ j = <<F[r], Q[r].to>>
  BY DEF Heads
<1>2. F[q] = F[r] /\ F[q] \in Nat /\ q \in Nat /\ r \in Nat
  BY <1>1, UptoNext DEF Laid
<1>3. /\ Size(Q[q].op) \in Nat /\ Size(Q[q].op) >= 1
      /\ Size(Q[r].op) \in Nat /\ Size(Q[r].op) >= 1
  BY SizeFacts
<1>4. /\ q < r => F[q] + Size(Q[q].op) <= F[r]
      /\ r < q => F[r] + Size(Q[r].op) <= F[q]
  BY DEF Laid
<1>5. q = r
  BY <1>2, <1>3, <1>4
<1>6. QED
  BY <1>1, <1>5

(* Where an incomplete jump will lead. *)
Target(T, n, h, l) == IF l = n THEN h ELSE T[l]

Within(Q, n) == \A q \in Upto(n) : Q[q].to \in 0 .. n

HeadAt(J, a) == CHOOSE j \in J : j[1] = a

Completed(K, I, J, T, n, h) ==
  K = [a \in {j[1] : j \in J} |->
         [I[a] EXCEPT !.to = Target(T, n, h, HeadAt(J, a)[2])]] @@ I

LeadTo(Q, F, T, I, J, K, n, h) ==
  /\ Coded(Q, F, K, n, h)
  /\ \A q \in Upto(n) : <<F[q], Q[q].to>> \in J => K[F[q]].to = Target(T, n, h, Q[q].to)
  /\ \A a \in Upto(h) : (\A j \in J : j[1] # a) => K[a] = I[a]

LEMMA JumpsCompleted ==
  ASSUME NEW Q, NEW F, NEW T, NEW n \in Nat, NEW h \in Nat, Laid(Q, F, T, n, h),
         NEW I, Coded(Q, F, I, n, h), NEW J, Heads(Q, F, J, n), Within(Q, n),
         NEW K, Completed(K, I, J, T, n, h)
  PROVE  LeadTo(Q, F, T, I, J, K, n, h)
<1> DEFINE A == {j[1] : j \in J}
           to(a) == Target(T, n, h, HeadAt(J, a)[2])
           M == [a \in A |-> [I[a] EXCEPT !.to = to(a)]]
<1>1. ASSUME NEW l \in 0 .. n PROVE Target(T, n, h, l) \in Nat
  <2>1. CASE l = n
    BY <2>1 DEF Target
  <2>2. CASE l # n
    <3>1. l \in Upto(n)
      BY <2>2 DEF Upto
    <3>2. T[l] = F[l] + Offset(Q[l].op) /\ F[l] \in Nat /\ Offset(Q[l].op) \in Nat
      BY <3>1, SizeFacts DEF Laid
    <3>3. QED
      BY <2>2, <3>2 DEF Target
  <2>3. QED
    BY <2>1, <2>2
<1>2. ASSUME NEW q \in Upto(n), F[q] \in A
      PROVE  to(F[q]) = Target(T, n, h, Q[q].to)
  <2>1. \E j \in J : j[1] = F[q]
    BY <1>2
  <2>2. HeadAt(J, F[q]) \in J /\ HeadAt(J, F[q])[1] = F[q]
    BY <2>1 DEF HeadAt
  <2>3. HeadAt(J, F[q]) = <<F[q], Q[q].to>>
    BY <2>2, HeadsUnique
  <2>4. QED
    BY <2>3
<1>3. \A a \in A : \E q \in Upto(n) : a = F[q] /\ Q[q].op \in JumpOps
  BY DEF Heads
<1>4. \A a \in A : a \in Upto(h) /\ to(a) \in Nat
  <2>1. SUFFICES ASSUME NEW a \in A PROVE a \in Upto(h) /\ to(a) \in Nat
    OBVIOUS
  <2>2. PICK q \in Upto(n) : a = F[q]
    BY <1>3
  <2>3. 0 \in Nat /\ 0 < Size(Q[q].op)
    BY SizeFacts
  <2>4. F[q] \in Upto(h)
    BY <2>3, AddressWithin
  <2>5. to(a) = Target(T, n, h, Q[q].to)
    BY <1>2, <2>2
  <2>6. Target(T, n, h, Q[q].to) \in Nat
    BY <1>1 DEF Within
  <2>7. QED
    BY <2>2, <2>4, <2>5, <2>6
<1>5. K = M @@ I
  BY DEF Completed
<1> HIDE DEF to
<1>6. /\ DOMAIN M = A
      /\ \A a \in A : /\ M[a] \in Instrs /\ M[a].op = I[a].op
                      /\ M[a].to = to(a)
  <2>1. \A a \in A : I[a] \in Instrs /\ to(a) \in Nat
    BY <1>4 DEF Coded
  <2>2. QED
    BY <2>1 DEF Instrs
<1> HIDE DEF M
<1>7. /\ DOMAIN K = A \cup DOMAIN I
      /\ \A a \in A : K[a] = M[a]
      /\ \A a \in DOMAIN I : a \notin A => K[a] = I[a]
  BY <1>5, <1>6 DEF @@
<1>8. Coded(Q, F, K, n, h)
  <2>1. DOMAIN K = Upto(h)
    BY <1>4, <1>7 DEF Coded
  <2>2. ASSUME NEW a \in Upto(h) PROVE K[a] \in Instrs /\ K[a].op = I[a].op
    BY <1>6, <1>7 DEF Coded
  <2>3. QED
    BY <2>1, <2>2 DEF Coded
<1>9. ASSUME NEW q \in Upto(n), <<F[q], Q[q].to>> \in J
      PROVE  K[F[q]].to = Target(T, n, h, Q[q].to)
  <2>1. F[q] \in A
    <3>1. <<F[q], Q[q].to>>[1] = F[q]
      OBVIOUS
    <3>2. QED
      BY <1>9, <3>1
  <2>2. QED
    BY <1>2, <1>6, <1>7, <2>1
<1>10. ASSUME NEW a \in Upto(h), \A j \in J : j[1] # a PROVE K[a] = I[a]
  BY <1>7, <1>10 DEF Coded
<1>11. QED
  BY <1>8, <1>9, <1>10 DEF LeadTo

LEMMA PatchKeeps == GenInv /\ PatchIncompleteJumps => GenInv'
<1>1. SUFFICES ASSUME GenInv, PatchIncompleteJumps PROVE GenInv'
  OBVIOUS
<1>2. PICK n, h \in Nat : n = nextQuad /\ h = currInstruction
  BY <1>1, TypesInGenerator
<1>3. PICK T, J, I, Q, F : T = taddress /\ J = ij_head /\ I = instructions /\ Q = quads /\ F = first
  OBVIOUS
<1>4. /\ phase = "generating" /\ phase' = "generated" /\ currQuad = n
      /\ UNCHANGED <<vars, nextQuad, currInstruction, taddress, ij_head,
                     func_stack, returnList, t_address, first>>
  BY <1>1, <1>2 DEF PatchIncompleteJumps
<1>5. Completed(instructions', I, J, T, n, h)
  BY <1>1, <1>2, <1>3, <1>4 DEF PatchIncompleteJumps, Completed, Target, HeadAt
<1>6. /\ Laid(Q, F, T, n, h) /\ Coded(Q, F, I, n, h) /\ Heads(Q, F, J, n)
      /\ Closing(Q, F, I, func_stack, returnList, n)
      /\ Jumping(Q, F, T, I, J, n)
      /\ DOMAIN t_address = Starts(Q, n)
  BY <1>1, <1>2, <1>3, <1>4 DEF GenInv, Generator
<1>7. \A q \in Upto(n) : Q[q].to \in 0 .. n
  <2>1. \A q \in DOMAIN quads : quads[q].to \in 0 .. currQuad
    BY <1>1, TypesInGenerator
  <2>2. Upto(n) \subseteq DOMAIN Q
    BY <1>6 DEF Laid
  <2>3. QED
    BY <1>3, <1>4, <2>1, <2>2
<1>8. PICK K : K = instructions'
  OBVIOUS
<1>9. /\ Coded(Q, F, K, n, h)
      /\ \A q \in Upto(n) : <<F[q], Q[q].to>> \in J => K[F[q]].to = Target(T, n, h, Q[q].to)
      /\ \A a \in Upto(h) : (\A j \in J : j[1] # a) => K[a] = I[a]
  <2>1. Within(Q, n) /\ Completed(K, I, J, T, n, h)
    BY <1>5, <1>7, <1>8 DEF Within
  <2>2. LeadTo(Q, F, T, I, J, K, n, h)
    BY <1>6, <2>1, JumpsCompleted
  <2>3. QED
    BY <2>2 DEF LeadTo
<1>10. /\ \A q \in Upto(n) : F[q] \in Upto(h)
       /\ \A f : \A q \in ReturnsOf(Q, n, f) : F[q] + 1 \in Upto(h)
  BY <1>1, <1>2, <1>3, JumpAddresses
<1>11. Landed(Q, F, T, K, n, h)
  <2>1. SUFFICES ASSUME NEW q \in Upto(n), Q[q].op \in JumpOps
                 PROVE  K[F[q]].to = Target(T, n, h, Q[q].to)
    BY DEF Landed, Target
  <2>2. CASE <<F[q], Q[q].to>> \in J
    BY <1>9, <2>2
  <2>3. CASE <<F[q], Q[q].to>> \notin J
    <3>1. Q[q].to < q /\ I[F[q]].to = T[Q[q].to]
      BY <1>6, <2>1, <2>3 DEF Jumping
    <3>2. \A j \in J : j[1] # F[q]
      <4>1. SUFFICES ASSUME NEW j \in J, j[1] = F[q] PROVE FALSE
        OBVIOUS
      <4>2. j = <<F[q], Q[q].to>>
        BY <1>6, <4>1, HeadsUnique
      <4>3. QED
        BY <2>3, <4>1, <4>2
    <3>3. K[F[q]] = I[F[q]]
      BY <1>9, <1>10, <3>2
    <3>4. Q[q].to # n
      BY <1>7, <3>1, UptoNext
    <3>5. QED
      BY <3>1, <3>3, <3>4 DEF Target
  <2>4. QED
    BY <2>2, <2>3
<1>12. Closing(Q, F, K, func_stack, returnList, n)
  <2>1. \A j \in J : \E q \in Upto(n) : Q[q].op \in JumpOps /\ j[1] = F[q]
    BY <1>6 DEF Heads
  <2>2. \A f \in Starts(Q, n) : \A j \in J : j[1] \notin Jumps(Q, F, n, f)
    BY <1>6, <2>1, JumpQuadsApart
  <2>3. \A f \in Starts(Q, n) : K[F[f]].to = I[F[f]].to
    <3>1. SUFFICES ASSUME NEW f \in Starts(Q, n) PROVE K[F[f]] = I[F[f]]
      OBVIOUS
    <3>2. F[f] \in Jumps(Q, F, n, f) /\ f \in Upto(n)
      BY DEF Jumps, Starts
    <3>3. QED
      BY <1>9, <1>10, <2>2, <3>2
  <2>4. ASSUME NEW f, NEW q \in ReturnsOf(Q, n, f) PROVE K[F[q] + 1].to = I[F[q] + 1].to
    <3>1. f \in Starts(Q, n)
      BY <1>6 DEF Closing, ReturnsOf
    <3>2. F[q] + 1 \in Jumps(Q, F, n, f)
      BY DEF Jumps
    <3>3. QED
      BY <1>9, <1>10, <2>2, <3>1, <3>2
  <2>5. QED
    BY <1>6, <2>3, <2>4, ClosingPatched
<1>13. UNCHANGED <<quads, currQuad, open, errors>>
  BY <1>4 DEF vars
<1>14. OpensInv' /\ PhaseInv'
  BY <1>1, <1>2, <1>4, <1>13, OpensLater DEF GenInv, PhaseInv
<1>15. Generator'
  <2>1. nextQuad' \in 0 .. currQuad' /\ currInstruction' \in Nat
    BY <1>1, <1>4, <1>13 DEF GenInv, Generator
  <2>2. QED
    BY <1>2, <1>3, <1>4, <1>6, <1>8, <1>9, <1>11, <1>12, <1>13, <2>1 DEF Generator
<1>16. StackInv'
  BY <1>1, <1>4, NestingSame DEF GenInv, StackInv
<1>17. QED
  BY <1>14, <1>15, <1>16 DEF GenInv


-----------------------------------------------------------------------------
(* The invariant holds *)

LEMMA InitGenerates == TInit => GenInv
<1>1. SUFFICES ASSUME TInit PROVE GenInv
  OBVIOUS
<1>2. /\ Init /\ phase = "parsing" /\ nextQuad = 0
      /\ instructions = <<>> /\ currInstruction = 0
      /\ taddress = <<>> /\ ij_head = {}
      /\ func_stack = <<>> /\ returnList = <<>> /\ t_address = <<>>
      /\ first = <<>>
  BY <1>1 DEF TInit
<1>3. OpensInv /\ ReservedInv
  BY <1>2, InitOpens, InitReserved
<1>4. PhaseInv
  BY <1>2, <1>3 DEF PhaseInv
<1>5. /\ Upto(0) = {} /\ DOMAIN <<>> = {} /\ 0 \in Nat
  BY DEF Upto
<1>6. Starts(quads, 0) = {} /\ \A S : <<>> \in Seq(S)
  BY <1>5 DEF Starts
<1>7. Generator
  <2>1. currQuad = 0 /\ 0 \in 0 .. 0
    BY <1>2 DEF Init
  <2>2. Laid(quads, first, taddress, 0, 0) /\ Coded(quads, first, instructions, 0, 0)
    BY <1>2, <1>5 DEF Laid, Coded
  <2>3. Closing(quads, first, instructions, func_stack, returnList, 0)
    BY <1>2, <1>5, <1>6 DEF Closing
  <2>4. /\ Heads(quads, first, ij_head, 0)
        /\ Jumping(quads, first, taddress, instructions, ij_head, 0)
    BY <1>2, <1>5 DEF Heads, Jumping
  <2>5. QED
    BY <1>2, <1>5, <1>6, <2>1, <2>2, <2>3, <2>4 DEF Generator
<1>8. StackInv
  <2>1. PICK nest : Nesting(nest)
    BY <1>2, InitNested
  <2>2. QED
    BY <1>2, <2>1 DEF Nesting, StackInv
<1>9. QED
  BY <1>3, <1>4, <1>7, <1>8 DEF GenInv

LEMMA GenInvariant == TSpec => []GenInv
<1>1. TInit => GenInv
  BY InitGenerates
<1>2. GenInv /\ [TNext]_tvars => GenInv'
  <2>1. GenInv /\ Ended => GenInv'
    BY StutterKeeps DEF Ended
  <2>2. QED
    BY <2>1, ParsingKeeps, ParserEnds, GenerateOneKeeps, GenerateLogicKeeps,
       GenerateJumpKeeps, GenerateFuncStartKeeps, GenerateFuncEndKeeps,
       GenerateReturnKeeps, CrashKeeps, PatchKeeps, StutterKeeps
    DEF TNext
<1>3. QED
  BY <1>1, <1>2, PTL DEF TSpec

-----------------------------------------------------------------------------
(* Theorems *)

LEMMA GeneratorTypes == GenInv => TTypeOK
<1>1. SUFFICES ASSUME GenInv PROVE TTypeOK
  OBVIOUS
<1>2. PICK n, h \in Nat : n = nextQuad /\ h = currInstruction
  BY <1>1, TypesInGenerator
<1>3. /\ Laid(quads, first, taddress, n, h) /\ Coded(quads, first, instructions, n, h)
      /\ Closing(quads, first, instructions, func_stack, returnList, n)
      /\ DOMAIN t_address = Starts(quads, n) /\ Heads(quads, first, ij_head, n)
      /\ nextQuad \in 0 .. currQuad /\ Addresses = Upto(h) /\ 0 .. nextQuad - 1 = Upto(n)
  BY <1>1, <1>2 DEF GenInv, Generator, Addresses, Upto
<1>4. phase \in {"parsing", "generating", "generated", "crashed"}
  BY <1>1 DEF GenInv, PhaseInv
<1>5. DOMAIN instructions = Addresses /\ \A a \in Addresses : instructions[a].to \in Nat
  BY <1>3 DEF Coded, Instrs
<1>6. DOMAIN taddress = 0 .. nextQuad - 1 /\ DOMAIN first = DOMAIN taddress
  BY <1>3 DEF Laid
<1>7. \A q \in DOMAIN taddress : taddress[q] \in Addresses
  <2>1. SUFFICES ASSUME NEW q \in Upto(n) PROVE taddress[q] \in Upto(h)
    BY <1>3, <1>6
  <2>2. Offset(quads[q].op) \in Nat /\ Offset(quads[q].op) < Size(quads[q].op)
    BY SizeFacts
  <2>3. first[q] + Offset(quads[q].op) \in Upto(h)
    BY <1>3, <2>2, AddressWithin
  <2>4. QED
    BY <1>3, <2>3 DEF Laid
<1>8. ij_head \subseteq Addresses \X (0 .. currQuad)
  <2>1. SUFFICES ASSUME NEW j \in ij_head PROVE j \in Addresses \X (0 .. currQuad)
    OBVIOUS
  <2>2. PICK q \in Upto(n) : j = <<first[q], quads[q].to>>
    BY <1>3 DEF Heads
  <2>3. first[q] \in Addresses
    BY <1>1, <1>2, <1>3, JumpAddresses
  <2>4. q \in DOMAIN quads
    BY <1>3 DEF Laid
  <2>5. quads[q].to \in 0 .. currQuad
    BY <1>1, <2>4, TypesInGenerator
  <2>6. QED
    BY <2>2, <2>3, <2>5
<1>9. func_stack \in Seq(DOMAIN t_address) /\ DOMAIN returnList = DOMAIN t_address
  BY <1>3 DEF Closing
<1>10. QED
  BY <1>3, <1>4, <1>5, <1>6, <1>7, <1>8, <1>9 DEF TTypeOK

(* The generator's arrays and lists hold what they are read for, whatever  *)
(* has been parsed: an address for every quad that has been translated, an *)
(* instruction for every incomplete jump, and on func_stack functions      *)
(* whose FUNC_START has been translated.                                   *)
THEOREM GeneratorTyped == TSpec => []TTypeOK
BY GenInvariant, GeneratorTypes, PTL

LEMMA JumpsAtQuads == GenInv => JumpsReachQuads
<1>1. SUFFICES ASSUME GenInv, Generated, NEW q \in JumpQuads, ~LeadsToFunction(q)
               PROVE  Reaches(q)
  BY DEF JumpsReachQuads
<1>2. PICK n, h \in Nat : n = nextQuad /\ h = currInstruction
  BY <1>1, TypesInGenerator
<1>3. /\ n = currQuad /\ DOMAIN quads = Upto(n)
      /\ Landed(quads, first, taddress, instructions, n, h)
      /\ Laid(quads, first, taddress, n, h)
  <2>1. n = currQuad /\ Landed(quads, first, taddress, instructions, n, h)
    BY <1>1, <1>2 DEF GenInv, Generator, PhaseInv, Generated
  <2>2. Laid(quads, first, taddress, n, h)
    BY <1>1, <1>2 DEF GenInv, Generator
  <2>3. DOMAIN quads \subseteq Upto(n)
    BY <1>1, <2>1, TypesInGenerator
  <2>4. QED
    BY <2>1, <2>2, <2>3 DEF Laid
<1>4. q \in Upto(n) /\ quads[q].op \in JumpOps /\ quads[q].to \in 0 .. n
  BY <1>1, <1>3, TypesInGenerator DEF JumpQuads
<1>5. instructions[first[q]].to = IF quads[q].to = n THEN h ELSE taddress[quads[q].to]
  BY <1>3, <1>4 DEF Landed
<1>6. CASE quads[q].to = n
  BY <1>2, <1>3, <1>5, <1>6 DEF Reaches, Begins
<1>7. CASE quads[q].to # n
  <2>1. quads[q].to \in Upto(n)
    BY <1>4, <1>7 DEF Upto
  <2>2. quads[quads[q].to].op # "func_start"
    BY <1>1, <1>3, <2>1 DEF LeadsToFunction
  <2>3. first[quads[q].to] \in Nat /\ taddress[quads[q].to] = first[quads[q].to] + 0
    BY <1>3, <2>1, <2>2 DEF Laid, Offset
  <2>4. taddress[quads[q].to] = first[quads[q].to]
    BY <2>3
  <2>5. QED
    BY <1>3, <1>5, <1>7, <2>4 DEF Reaches, Begins
<1>8. QED
  BY <1>6, <1>7

(* Every jump in the finished code leads to the instructions made from the *)
(* quad it leads to, or behind the last one, unless that quad is the       *)
(* FUNC_START of a function.  So it is for any text, and in whatever order *)
(* the jumps and their targets have been translated.                       *)
THEOREM JumpsReachTheirQuads == TSpec => []JumpsReachQuads
BY GenInvariant, JumpsAtQuads, PTL

LEMMA NoNamesLeft ==
  OpensInv /\ errors = 0 /\ open = <<>> => function_name_stack = <<>>
<1>1. SUFFICES ASSUME OpensInv, errors = 0, open = <<>> PROVE function_name_stack = <<>>
  OBVIOUS
<1>2. Functions = {}
  BY <1>1 DEF Functions, Having, Depths
<1>3. Cardinality(Functions) = Len(function_name_stack)
  BY <1>1 DEF OpensInv, StacksInv, Covers
<1>4. Len(function_name_stack) = 0
  BY <1>2, <1>3, FS_EmptySet
<1>5. function_name_stack \in Seq(Nat)
  BY <1>1, NamesAreTyped DEF OpensInv, NamesTyped
<1>6. QED
  BY <1>4, <1>5

LEMMA FunctionsAreClosed == GenInv => FunctionsClosed
<1>1. SUFFICES ASSUME GenInv, Generated PROVE FunctionsClosed
  BY DEF FunctionsClosed
<1>2. PICK n, h \in Nat : n = nextQuad /\ h = currInstruction
  BY <1>1, TypesInGenerator
<1>3. /\ n = currQuad /\ DOMAIN quads \subseteq Upto(n)
      /\ Closing(quads, first, instructions, func_stack, returnList, n)
      /\ DOMAIN t_address = Starts(quads, n)
      /\ Upto(n) \subseteq DOMAIN quads
  BY <1>1, <1>2, TypesInGenerator DEF GenInv, Generator, PhaseInv, Generated, Laid
<1>4. ASSUME errors = 0 PROVE NotLeft = {}
  <2>1. PICK nest : Nesting(nest) /\ func_stack = nest[currQuad]
    BY <1>1, <1>2, <1>3 DEF GenInv, StackInv
  <2>2. func_stack = function_name_stack
    BY <2>1 DEF Nesting
  <2>3. open = <<>> /\ OpensInv
    BY <1>1, <1>4 DEF GenInv, PhaseInv, Generated
  <2>4. func_stack = <<>>
    BY <1>4, <2>2, <2>3, NoNamesLeft
  <2>5. QED
    BY <2>4 DEF NotLeft
<1>5. ASSUME NEW f \in DOMAIN t_address \ NotLeft
      PROVE  \E e \in DOMAIN quads :
               LET exit == first[e] IN
               /\ quads[e].op = "func_end" /\ quads[e].to = f
               /\ instructions[first[f]].to = exit + 1
               /\ \A q \in DOMAIN quads : quads[q].op = "ret" /\ quads[q].in = f =>
                    instructions[first[q] + 1].to = exit
  <2>1. ~ \E i \in 1 .. Len(func_stack) : func_stack[i] = f
    BY <1>3, <1>5 DEF NotLeft, Closing
  <2>2. PICK e \in Upto(n) : ClosedBy(quads, first, instructions, n, f, e)
    BY <1>3, <1>5, <2>1 DEF Closing
  <2>3. QED
    BY <1>3, <2>2 DEF ClosedBy, ReturnsOf
<1>6. QED
  BY <1>4, <1>5 DEF FunctionsClosed

(* In the finished code every function that the generator has left has its*)
(* FUNC_EXIT, to which all its returns jump, those of functions inside of  *)
(* it excepted, and behind which the code goes on.  That is every function *)
(* of a text without syntax errors; of any other text, broken off or with  *)
(* the head of a function lost, it is all but those on func_stack.         *)
THEOREM FunctionsAreLeft == TSpec => []FunctionsClosed
BY GenInvariant, FunctionsAreClosed, PTL

(* The parser's stacks are never popped when they are empty, also where a  *)
(* text breaks off and the generator runs behind the parser; behind the    *)
(* lost head of a function only those hold that functions do not put aside.*)
THEOREM StacksHoldEntries == TSpec => []PopsNeverFail
<1>1. GenInv => PopsNeverFail
  BY EntriesThere DEF GenInv
<1>2. QED
  BY <1>1, GenInvariant, PTL


-----------------------------------------------------------------------------
(* What stops the generator *)

(* Generating leaves what the parser has made alone. *)
LEMMA OnlyParsing ==
  [TNext]_tvars => (Parsing \/ TextBreaksOff \/ UNCHANGED vars)
BY DEF TNext, ParserCrash, StartGenerating, Crash, PatchIncompleteJumps, Ended, GenerateOne,
       GenerateLogic, GenerateJump, GenerateFuncStart, GenerateFuncEnd, GenerateReturn,
       TEmit, tvars

LEMMA JumpsHold == TSpec => []JumpsInv
<1>1. TInit => JumpsInv
  BY JumpsBegin DEF TInit
<1>2. JumpsInv /\ [TNext]_tvars => JumpsInv'
  <2>1. SUFFICES ASSUME JumpsInv, [TNext]_tvars PROVE JumpsInv'
    OBVIOUS
  <2>2. CASE Parsing
    BY <2>1, <2>2, JumpsStep DEF Parsing
  <2>3. CASE UNCHANGED vars
    BY <2>1, <2>3, JumpsStep
  <2>4. CASE TextBreaksOff
    <3>1. OpensInv' /\ errors' > 0
      BY <2>1, <2>4, BrokenOff DEF JumpsInv, TextBreaksOff
    <3>2. errors' # 0
      BY <3>1
    <3>3. QED
      BY <3>1, <3>2 DEF JumpsInv, ChainInv, PromiseInv
  <2>5. QED
    BY <2>1, <2>2, <2>3, <2>4, OnlyParsing
<1>3. QED
  BY <1>1, <1>2, PTL DEF TSpec

(* What ParserCrash or Crash has found. *)
CrashInv ==
  phase = "crashed" =>
    \/ HeadLost /\ LoopFails
    \/ /\ nextQuad < currQuad /\ (open = <<>> \/ errors > 0)
       /\ \/ nextQuad \notin DOMAIN quads
          \/ nextQuad \in DOMAIN quads /\ quads[nextQuad].op = "ret" /\ func_stack = <<>>
          \/ nextQuad \in DOMAIN quads /\ quads[nextQuad].op = "func_start" /\ Reused

(* The parser's part of it is about its own state only. *)
LEMMA FailsStill == HeadLost /\ LoopFails /\ UNCHANGED vars => (HeadLost /\ LoopFails)'
<1> SUFFICES ASSUME HeadLost, LoopFails, UNCHANGED vars PROVE HeadLost' /\ LoopFails'
  OBVIOUS
<1>1. UNCHANGED <<open, loops, function_name_stack>>
  BY DEF vars, stacks
<1>2. open' = open /\ loops' = loops /\ function_name_stack' = function_name_stack
  BY <1>1
<1>3. HeadLost'
  BY <1>2 DEF HeadLost, Open
<1>4. LoopFails'
  BY <1>2 DEF LoopFails, Expecting, Innermost, InWhile, InFor, Counting, InBody, InHeader, InLoop
<1>5. QED
  BY <1>3, <1>4

LEMMA CrashFound == TSpec => []CrashInv
<1>1. TInit => CrashInv
  BY DEF TInit, CrashInv
<1>2. GenInv /\ CrashInv /\ [TNext]_tvars => CrashInv'
  <2>1. GenInv /\ Crash => CrashInv'
    BY DEF GenInv, PhaseInv, Crash, CrashInv, Generating, vars
  <2>2. CrashInv /\ UNCHANGED tvars => CrashInv'
    BY FailsStill DEF CrashInv, tvars, gvars, vars
  <2>3. Parsing \/ StartGenerating \/ TextBreaksOff \/ PatchIncompleteJumps
          => phase' # "crashed"
    BY DEF Parsing, StartGenerating, TextBreaksOff, PatchIncompleteJumps, gvars
  <2>6. GenInv /\ ParserCrash => CrashInv'
    <3>1. GenInv /\ ParserCrash => HeadLost /\ LoopFails /\ UNCHANGED vars
      BY FailsBehindLostHeads DEF GenInv, ParserCrash
    <3>2. QED
      BY <3>1, FailsStill DEF CrashInv
  <2>4. /\ GenerateOne \/ GenerateLogic \/ GenerateJump => phase' # "crashed"
        /\ GenerateFuncStart \/ GenerateFuncEnd \/ GenerateReturn => phase' # "crashed"
    BY DEF GenerateOne, GenerateLogic, GenerateJump, GenerateFuncStart, GenerateFuncEnd,
           GenerateReturn, TEmit, Generating
  <2>5. QED
    BY <2>1, <2>2, <2>3, <2>4, <2>6 DEF TNext, Ended, CrashInv
<1>3. QED
  BY <1>1, <1>2, GenInvariant, PTL DEF TSpec

(* Holes are left by syntax errors; a return with nothing on func_stack    *)
(* stands outside of all functions.                                        *)
LEMMA CrashReasons == GenInv /\ JumpsInv /\ CrashInv => CrashExplained
<1> SUFFICES ASSUME GenInv, JumpsInv, CrashInv, phase = "crashed", ~(HeadLost /\ LoopFails)
             PROVE  \/ errors > 0 /\ nextQuad \notin DOMAIN quads
                    \/ \E q \in DOMAIN quads : quads[q].op = "ret" /\ quads[q].in = Main
                    \/ Reused /\ nextQuad \in DOMAIN quads
                         /\ quads[nextQuad].op = "func_start"
  BY DEF CrashExplained
<1>1. /\ nextQuad \in Nat /\ currQuad \in Nat /\ nextQuad < currQuad
      /\ open = <<>> \/ errors > 0
  BY TypesInGenerator DEF CrashInv
<1>2. errors > 0 \/ nextQuad \in DOMAIN quads
  <2>1. errors \in Nat
    BY DEF GenInv, OpensInv, TypeOK
  <2>2. ASSUME errors = 0 PROVE nextQuad \in DOMAIN quads
    <3>1. DOMAIN quads = 0 .. currQuad - 1
      BY <1>1, <2>2, AllWritten DEF Complete
    <3>2. QED
      BY <1>1, <3>1
  <2>3. QED
    BY <2>1, <2>2
<1>3. CASE nextQuad \in DOMAIN quads /\ quads[nextQuad].op = "ret" /\ func_stack = <<>>
  <2>1. PICK nest : Nesting(nest) /\ func_stack = nest[nextQuad]
    BY DEF GenInv, StackInv
  <2>2. nextQuad \in Labels
    BY <1>1 DEF Labels
  <2>3. Nested(nextQuad, nest[nextQuad], nest[nextQuad + 1])
    BY <2>1, <2>2 DEF Nesting
  <2>4. quads[nextQuad].in = Main
    BY <1>3, <2>1, <2>3 DEF Nested, InnermostOf, JumpOps
  <2>5. QED
    BY <1>3, <2>4
<1>4. QED
  BY <1>2, <1>3 DEF CrashInv

(* The parser crashes at the end of a loop, at the step of a for, or at a  *)
(* break or a continue, and only when the head of a function has been lost.*)
(* The generator is stopped by nothing but a return outside of functions,  *)
(* a record in memory that has been in use, and, after a syntax error, a   *)
(* quad that was never written: in a text without errors it never comes to *)
(* one that the parser has left out.                                       *)
THEOREM CrashesAreExplained == TSpec => []CrashExplained
BY JumpsHold, GenInvariant, CrashFound, CrashReasons, PTL

-----------------------------------------------------------------------------
(***************************************************************************)
(* What the compiler makes of a text without syntax errors fulfils the     *)
(* contract that the machine takes for granted.  The parser's part: each   *)
(* jump leads to a place in the functions that it stands in, and the quads *)
(* of a call follow each other.  The generator's part: which instructions  *)
(* are those of which quad.  Both together: where control goes on from each*)
(* instruction of the finished code.                                       *)
(***************************************************************************)
(* Jumps stay in their function: where a statement stands, and where the   *)
(* jumps that it has promised and the places they lead to.                 *)

Back(x) == IF x.kind = "while" THEN x.start ELSE x.step

(* Label l of c stands in the functions t. *)
LiesIn(l, nest, t, c) == l \in 0 .. c /\ nest[l] = t

(* What the jumps lead to that x has promised. *)
Leading(x) ==
  CASE x.kind = "if" /\ x.at \in {"body", "else"} -> {"else", "end"}
    [] x.kind \in {"while", "for"} /\ x.at = "body" -> {"start", "end"}
    [] x.kind = "for" /\ x.at = "step" -> {"body", "end"}
    [] OTHER -> {}

Stepping(x) == x.at = "else" \/ (x.kind = "for" /\ x.at \in {"step", "body"})

Sits(x, nest, t, c) ==
  /\ LiesIn(x.start, nest, t, c)
  /\ Stepping(x) => LiesIn(x.step, nest, t, c)
  /\ \A j \in x.jumps : j[2] \in Leading(x) /\ j[1] < c /\ LiesIn(j[1], nest, t, c)
  /\ x.at = "step" => x.start < x.step
  /\ x.kind \in {"while", "for"} /\ x.at = "body" =>
       Back(x) < c /\ \A j \in x.jumps : j[2] = "start" => Back(x) < j[1]
  /\ x.at = "else" => \A j \in x.jumps : j[2] = "else" => j[1] < x.step

(* Around x are the functions s, inside of it t. *)
Stands(x, s, t, nest, c) ==
  IF x.kind = "function" THEN t # <<>> /\ s = Tail(t)
  ELSE s = t /\ Sits(x, nest, t, c)

(* M[p] are the functions around the statement at depth p; R are those now.*)
Located(M, n, f, nest, c, R) ==
  M[n] = R /\ \A p \in 0 .. n - 1 : Stands(f[p], M[p], M[p + 1], nest, c)

SameUpto(nest, m, c) == \A l \in 0 .. c : m[l] = nest[l]

LEMMA StandsLater ==
  ASSUME NEW nest, NEW m, NEW c \in Nat, NEW d \in Nat, c <= d, SameUpto(nest, m, c)
  PROVE  /\ \A x, s, t : Stands(x, s, t, nest, c) => Stands(x, s, t, m, d)
         /\ \A x, t : Sits(x, nest, t, c) => Sits(x, m, t, d)
<1>1. \A l \in Int : \A t : LiesIn(l, nest, t, c) => LiesIn(l, m, t, d)
  BY DEF LiesIn, SameUpto
<1>2. \A l, t : LiesIn(l, nest, t, c) => LiesIn(l, m, t, d) /\ l \in Int
  BY <1>1 DEF LiesIn
<1>3. \A l : l < c /\ l \in Int => l < d
  OBVIOUS
<1>4. ASSUME NEW x, NEW t, Sits(x, nest, t, c) PROVE Sits(x, m, t, d)
  <2>1. /\ LiesIn(x.start, m, t, d)
        /\ Stepping(x) => LiesIn(x.step, m, t, d)
    BY <1>2, <1>4 DEF Sits
  <2>2. \A j \in x.jumps : j[2] \in Leading(x) /\ j[1] < d /\ LiesIn(j[1], m, t, d)
    BY <1>2, <1>3, <1>4 DEF Sits
  <2>3. x.kind \in {"while", "for"} /\ x.at = "body" => Back(x) < d /\ Back(x) \in Int
    BY <1>2, <1>3, <1>4 DEF Sits, Back, Stepping
  <2>4. QED
    BY <1>4, <2>1, <2>2, <2>3 DEF Sits
<1>5. QED
  BY <1>4 DEF Stands

(* The statements stay, or one of them, at depth k, changes. *)
LEMMA LocatedStays ==
  ASSUME NEW nest, NEW m, NEW c \in Nat, NEW d \in Nat, c <= d, SameUpto(nest, m, c),
         NEW M, NEW n \in Nat, NEW f, NEW R, Located(M, n, f, nest, c, R),
         NEW g, NEW k, \A p \in 0 .. n - 1 : p # k => g[p] = f[p],
         k \in 0 .. n - 1 => Stands(g[k], M[k], M[k + 1], m, d)
  PROVE  Located(M, n, g, m, d, R)
BY StandsLater DEF Located

LEMMA LocatedPush ==
  ASSUME NEW nest, NEW m, NEW c \in Nat, NEW d \in Nat, c <= d, SameUpto(nest, m, c),
         NEW M, NEW n \in Nat, NEW f, NEW R, Located(M, n, f, nest, c, R),
         NEW g, Agree(f, g, n), NEW T, Stands(g[n], R, T, m, d)
  PROVE  \E K : Located(K, n + 1, g, m, d, T)
<1> DEFINE K == [p \in 0 .. n + 1 |-> IF p = n + 1 THEN T ELSE M[p]]
<1>1. K[n + 1] = T /\ K[n] = R /\ \A p \in 0 .. n : K[p] = M[p]
  BY DEF Located
<1> HIDE DEF K
<1>2. ASSUME NEW p \in 0 .. n PROVE Stands(g[p], K[p], K[p + 1], m, d)
  <2>1. CASE p = n
    BY <1>1, <2>1
  <2>2. CASE p # n
    <3>1. p \in 0 .. n - 1 /\ p + 1 \in 0 .. n /\ p \in 0 .. n
      BY <2>2
    <3>2. Stands(f[p], M[p], M[p + 1], nest, c) /\ g[p] = f[p]
      BY <3>1 DEF Located, Agree
    <3>3. Stands(g[p], M[p], M[p + 1], m, d)
      BY <3>2, StandsLater
    <3>4. QED
      BY <1>1, <3>1, <3>3
  <2>3. QED
    BY <2>1, <2>2
<1>3. Located(K, n + 1, g, m, d, T)
  BY <1>1, <1>2 DEF Located
<1>4. QED
  BY <1>3

LEMMA LocatedPop ==
  ASSUME NEW nest, NEW m, NEW c \in Nat, NEW d \in Nat, c <= d, SameUpto(nest, m, c),
         NEW M, NEW n \in Nat, NEW f, NEW R, Located(M, n + 1, f, nest, c, R),
         NEW g, Agree(f, g, n)
  PROVE  Located(M, n, g, m, d, M[n]) /\ Stands(f[n], M[n], R, nest, c)
<1>1. \A p \in 0 .. n - 1 : p \in 0 .. n
  OBVIOUS
<1>2. QED
  BY <1>1, StandsLater DEF Located, Agree


(* Around an open loop and all that is open inside of it are the same      *)
(* functions.                                                              *)
LEMMA LocatedAbove ==
  ASSUME NEW nest, NEW c, NEW M, NEW n \in Nat, NEW f, NEW R,
         Located(M, n, f, nest, c, R), NEW k, LoopAt(f, n, k)
  PROVE  M[k + 1] = R
<1> DEFINE B == {j \in 0 .. n - k - 1 : M[n - j] # R}
<1>1. k \in 0 .. n - 1 /\ \A p \in k + 1 .. n - 1 : f[p].kind = "if"
  BY DEF LoopAt
<1>2. SUFFICES ASSUME B # {} PROVE FALSE
  <2>1. SUFFICES ASSUME B = {} PROVE M[k + 1] = R
    OBVIOUS
  <2>2. n - k - 1 \in 0 .. n - k - 1 /\ n - (n - k - 1) = k + 1
    BY <1>1
  <2>3. QED
    BY <2>1, <2>2
<1>3. B \in SUBSET Nat
  OBVIOUS
<1>4. PICK j \in B : \A i \in B : j <= i
  BY <1>2, <1>3, LeastNumber
<1>5. j # 0
  BY <1>4 DEF Located
<1>6. PICK p : p = n - j
  OBVIOUS
<1>7. /\ p \in k + 1 .. n - 1 /\ p \in 0 .. n - 1 /\ j - 1 \in 0 .. n - k - 1
      /\ n - (j - 1) = p + 1 /\ ~(j <= j - 1)
  BY <1>1, <1>4, <1>5, <1>6
<1>8. M[p + 1] = R
  BY <1>4, <1>7
<1>9. Stands(f[p], M[p], M[p + 1], nest, c) /\ f[p].kind = "if"
  BY <1>1, <1>7 DEF Located
<1>10. M[p] = R
  BY <1>8, <1>9 DEF Stands
<1>11. QED
  BY <1>4, <1>6, <1>10

(* A jump is added to a loop. *)
LEMMA SitsGains ==
  ASSUME NEW m, NEW t, NEW c \in Nat, NEW d \in Nat, NEW x, NEW y, NEW where,
         x.kind \in {"while", "for"}, x.at = "body", where \in {"start", "end"},
         Sits(x, m, t, c), Sits(x, m, t, d), Gains(x, y, c, where),
         c < d, LiesIn(c, m, t, d)
  PROVE  Sits(y, m, t, d)
<1>1. /\ y.kind = x.kind /\ y.at = x.at /\ y.start = x.start /\ y.step = x.step
      /\ y.jumps = x.jumps \cup {<<c, where>>}
  BY DEF Gains
<1>2. Back(x) < c /\ Back(y) = Back(x) /\ Back(x) < d
  BY <1>1 DEF Sits, Back
<1>3. <<c, where>>[1] = c /\ <<c, where>>[2] = where
  OBVIOUS
<1>4. \A j \in y.jumps : j \in x.jumps \/ (j[1] = c /\ j[2] = where)
  BY <1>1, <1>3
<1>0. Leading(x) = {"start", "end"} /\ Leading(y) = {"start", "end"}
  BY <1>1 DEF Leading
<1>5. \A j \in y.jumps : j[2] \in Leading(y) /\ j[1] < d /\ LiesIn(j[1], m, t, d)
  BY <1>0, <1>4 DEF Sits
<1>6. \A j \in y.jumps : j[2] = "start" => Back(y) < j[1]
  BY <1>2, <1>4 DEF Sits
<1>7. Stepping(y) <=> Stepping(x)
  BY <1>1 DEF Stepping
<1>8. QED
  BY <1>1, <1>2, <1>5, <1>6, <1>7 DEF Sits

-----------------------------------------------------------------------------
(* Settled jumps *)

NoJump(l, Q) == l \in DOMAIN Q /\ Q[l].op \notin JumpOps

(* What has been settled and is a jump stays in its function, and never    *)
(* leads to itself.                                                        *)
Leaps(s, nest, Q, c) ==
  \A p \in s : \/ NoJump(p[1], Q)
               \/ /\ p[1] \in 0 .. c /\ p[2] \in 0 .. c
                  /\ nest[p[1]] = nest[p[2]] /\ p[1] # p[2]

Leaping(X, m, t, d) ==
  \A p \in X : LiesIn(p[1], m, t, d) /\ LiesIn(p[2], m, t, d) /\ p[1] # p[2]

LEMMA LeapsMore ==
  ASSUME NEW nest, NEW m, NEW c \in Nat, NEW d \in Nat, c <= d, SameUpto(nest, m, c),
         NEW Q, NEW R, \A l : NoJump(l, Q) => NoJump(l, R),
         NEW s, Leaps(s, nest, Q, c), NEW t,
         NEW X, (\A p \in X : NoJump(p[1], R)) \/ Leaping(X, m, t, d)
  PROVE  Leaps(s \cup X, m, R, d)
<1>1. \A l \in 0 .. c : l \in 0 .. d /\ m[l] = nest[l]
  BY DEF SameUpto
<1>2. QED
  BY <1>1 DEF Leaps, Leaping, LiesIn

-----------------------------------------------------------------------------
(* The steps of the parser *)

Locates(M, nest) ==
  /\ Located(M, Len(open), Frames, nest, currQuad, function_name_stack)
  /\ Leaps(settled, nest, quads, currQuad)

(* nest goes on as m. *)
Growing(nest, m) ==
  /\ currQuad \in Nat /\ currQuad' \in Nat /\ currQuad <= currQuad'
  /\ nest[currQuad] = function_name_stack /\ SameUpto(nest, m, currQuad)
  /\ \A l \in 0 .. currQuad' : currQuad < l => m[l] = function_name_stack'
  /\ \A l : NoJump(l, quads) => NoJump(l, quads')

LEMMA StepGrows ==
  ASSUME OpensInv, ReservedInv, ParseAny, NEW nest, Nesting(nest)
  PROVE  \E m : Nesting(m)' /\ Growing(nest, m)
<1>1. PICK m : /\ Nesting(m)'
               /\ GoesTo(nest, m, currQuad, currQuad', function_name_stack')
  BY NestKept
<1>2. PICK ops : Writes(ops)
  BY ParserWrites
<1>3. /\ currQuad \in Nat /\ currQuad' \in Nat /\ currQuad <= currQuad'
      /\ nest[currQuad] = function_name_stack
  BY <1>2, TypesOf DEF Writes, Nesting, OpensInv
<1>4. SameUpto(nest, m, currQuad)
  BY <1>1 DEF GoesTo, SameUpto
<1>5. \A l : NoJump(l, quads) => NoJump(l, quads')
  BY <1>2 DEF Writes, Kept, NoJump
<1>6. Growing(nest, m)
  BY <1>1, <1>3, <1>4, <1>5 DEF GoesTo, Growing
<1>7. QED
  BY <1>1, <1>6

(* What is to be shown of a step. *)
Placed(m) ==
  \E K : Located(K, Len(open'), Frames', m, currQuad', function_name_stack')

Settles(m) == Leaps(settled', m, quads', currQuad')

NewJumps(m) ==
  \A l \in DOMAIN quads' : quads'[l].op \in JumpOps =>
    \/ l \in DOMAIN quads
    \/ m[l] = function_name_stack /\ \E p \in settled' : p[1] = l

(* The functions stay. *)
LEMMA StaysHere ==
  ASSUME NEW nest, NEW m, Growing(nest, m), UNCHANGED function_name_stack
  PROVE  \A l \in currQuad .. currQuad' : LiesIn(l, m, function_name_stack, currQuad')
<1>1. ASSUME NEW l \in currQuad .. currQuad'
      PROVE  LiesIn(l, m, function_name_stack, currQuad')
  <2>1. l \in 0 .. currQuad' /\ ((l \in 0 .. currQuad /\ l = currQuad) \/ currQuad < l)
    BY DEF Growing
  <2>2. QED
    BY <2>1 DEF Growing, LiesIn, SameUpto
<1>2. QED
  BY <1>1

LEMMA PlacedStays ==
  ASSUME TypeOK, NEW nest, NEW m, Growing(nest, m), NEW M, Locates(M, nest),
         UNCHANGED <<open, function_name_stack>>
  PROVE  Placed(m)
<1>1. Frames' = Frames /\ Len(open') = Len(open) /\ Len(open) \in Nat
  BY LengthsGrow DEF Frames, Depths, At
<1>2. PICK n, f, R : n = Len(open) /\ f = Frames /\ R = function_name_stack
  OBVIOUS
<1>3. Located(M, n, f, nest, currQuad, R)
  BY <1>2 DEF Locates
<1>4. Located(M, n, f, m, currQuad', R)
  BY <1>1, <1>2, <1>3, StandsLater DEF Growing, Located
<1>5. QED
  BY <1>1, <1>2, <1>4 DEF Placed

LEMMA PlacedBegins ==
  ASSUME TypeOK, NEW nest, NEW m, Growing(nest, m), NEW M, Locates(M, nest),
         NEW x, open' = Push(open, x),
         Stands(x, function_name_stack, function_name_stack', m, currQuad')
  PROVE  Placed(m)
<1>1. PICK n, f, g, R, T :
        /\ n = Len(open) /\ f = Frames /\ g = Frames' /\ R = function_name_stack
        /\ T = function_name_stack'
  OBVIOUS
<1>2. Located(M, n, f, nest, currQuad, R) /\ n \in Nat
  BY <1>1, LengthsGrow DEF Locates
<1>3. Len(open') = n + 1 /\ Agree(f, g, n) /\ g[n] = x
  BY <1>1, FramesPushed
<1>4. Stands(g[n], R, T, m, currQuad')
  BY <1>1, <1>3
<1>5. \E K : Located(K, n + 1, g, m, currQuad', T)
  BY <1>2, <1>3, <1>4, LocatedPush DEF Growing
<1>6. QED
  BY <1>1, <1>3, <1>5 DEF Placed

LEMMA PlacedEnds ==
  ASSUME TypeOK, NEW nest, NEW m, Growing(nest, m), NEW M, Locates(M, nest),
         open # <<>>, open' = Tail(open),
         \/ Innermost.kind # "function" /\ UNCHANGED function_name_stack
         \/ Innermost.kind = "function" /\ function_name_stack' = Tail(function_name_stack)
  PROVE  Placed(m)
<1>1. PICK n : n = Len(open) - 1
  OBVIOUS
<1>2. PICK f, g, R : f = Frames /\ g = Frames' /\ R = function_name_stack
  OBVIOUS
<1>3. n \in Nat /\ Len(open) = n + 1 /\ f[n] = Innermost
  BY <1>1, <1>2, FramesTop
<1>4. Located(M, n + 1, f, nest, currQuad, R)
  BY <1>2, <1>3 DEF Locates
<1>5. Len(open') = n /\ Agree(f, g, n)
  BY <1>1, <1>2, FramesPopped
<1>6. Located(M, n, g, m, currQuad', M[n]) /\ Stands(f[n], M[n], R, nest, currQuad)
  BY <1>3, <1>4, <1>5, LocatedPop DEF Growing
<1>7. M[n] = function_name_stack'
  BY <1>2, <1>3, <1>6 DEF Stands
<1>8. QED
  BY <1>2, <1>5, <1>6, <1>7 DEF Placed

(* Where the innermost statement stands, before and after the step. *)
LEMMA InnermostSits ==
  ASSUME TypeOK, NEW nest, NEW m, Growing(nest, m), NEW M, Locates(M, nest),
         open # <<>>, Innermost.kind # "function"
  PROVE  /\ Sits(Innermost, nest, function_name_stack, currQuad)
         /\ Sits(Innermost, m, function_name_stack, currQuad')
         /\ Sits(Innermost, m, function_name_stack, currQuad)
<1>1. PICK n : n = Len(open) - 1
  OBVIOUS
<1>2. PICK f, R : f = Frames /\ R = function_name_stack
  OBVIOUS
<1>3. n \in Nat /\ Len(open) = n + 1 /\ f[n] = Innermost
  BY <1>1, <1>2, FramesTop
<1>4. Located(M, n + 1, f, nest, currQuad, R)
  BY <1>2, <1>3 DEF Locates
<1>5. n \in 0 .. (n + 1) - 1 /\ M[n + 1] = R
  BY <1>3, <1>4 DEF Located
<1>6. Stands(f[n], M[n], R, nest, currQuad)
  BY <1>4, <1>5 DEF Located
<1>7. Sits(f[n], nest, R, currQuad)
  BY <1>3, <1>6 DEF Stands
<1>8. Sits(f[n], m, R, currQuad') /\ Sits(f[n], m, R, currQuad)
  BY <1>7, StandsLater DEF Growing
<1>9. QED
  BY <1>2, <1>3, <1>7, <1>8

LEMMA PlacedGoes ==
  ASSUME TypeOK, NEW nest, NEW m, Growing(nest, m), NEW M, Locates(M, nest),
         open # <<>>, Innermost.kind # "function", UNCHANGED function_name_stack,
         NEW at, NEW start, NEW step, NEW jumps, open' = GoesOn(at, start, step, jumps),
         Sits([kind |-> Innermost.kind, at |-> at, start |-> start, step |-> step,
               jumps |-> jumps], m, function_name_stack, currQuad')
  PROVE  Placed(m)
<1>1. PICK n : n = Len(open) - 1
  OBVIOUS
<1>2. PICK f, g, R : f = Frames /\ g = Frames' /\ R = function_name_stack
  OBVIOUS
<1>3. n \in Nat /\ Len(open) = n + 1 /\ f[n] = Innermost
  BY <1>1, <1>2, FramesTop
<1>4. Located(M, n + 1, f, nest, currQuad, R)
  BY <1>2, <1>3 DEF Locates
<1>5. /\ Len(open') = n + 1 /\ Agree(f, g, n)
      /\ g[n] = [kind |-> Innermost.kind, at |-> at, start |-> start, step |-> step,
                 jumps |-> jumps]
  BY <1>1, <1>2, FramesGo
<1>6. M[n + 1] = R /\ n \in 0 .. (n + 1) - 1
  BY <1>3, <1>4 DEF Located
<1>7. Stands(f[n], M[n], R, nest, currQuad) /\ f[n].kind # "function"
  BY <1>3, <1>4, <1>6 DEF Located
<1>8. M[n] = R
  BY <1>7 DEF Stands
<1>9. g[n].kind # "function" /\ Sits(g[n], m, R, currQuad')
  BY <1>2, <1>5
<1>10. Stands(g[n], M[n], M[n + 1], m, currQuad')
  BY <1>6, <1>8, <1>9 DEF Stands
<1>11. \A p \in 0 .. (n + 1) - 1 : p # n => g[p] = f[p]
  BY <1>3, <1>5 DEF Agree
<1>12. n + 1 \in Nat /\ currQuad \in Nat /\ currQuad' \in Nat /\ currQuad <= currQuad'
       /\ SameUpto(nest, m, currQuad)
  BY <1>3 DEF Growing
<1>13. Located(M, n + 1, g, m, currQuad', R)
  BY <1>4, <1>10, <1>11, <1>12, LocatedStays
<1>14. QED
  BY <1>2, <1>5, <1>13 DEF Placed

LEMMA SettlesMore ==
  ASSUME NEW nest, NEW m, Growing(nest, m), NEW M, Locates(M, nest),
         NEW X, settled' = settled \cup X,
         \/ \A p \in X : NoJump(p[1], quads')
         \/ Leaping(X, m, function_name_stack, currQuad')
  PROVE  Settles(m)
BY LeapsMore DEF Growing, Locates, Settles

LEMMA SettlesSame ==
  ASSUME NEW nest, NEW m, Growing(nest, m), NEW M, Locates(M, nest), UNCHANGED settled
  PROVE  Settles(m)
<1>1. settled' = settled \cup {} /\ \A p \in {} : NoJump(p[1], quads')
  OBVIOUS
<1>2. QED
  BY <1>1, SettlesMore

-----------------------------------------------------------------------------
(* One step after the other *)

Fits(m) == Placed(m) /\ Settles(m) /\ NewJumps(m)

LEMMA NoNewJumps ==
  ASSUME TypeOK, NEW s, Len(s) \in Nat, quads' = Emitted(s),
         \A i \in 1 .. Len(s) : s[i].op \notin JumpOps, NEW m
  PROVE  NewJumps(m)
<1>1. currQuad \in Nat
  BY TypesOf
<1>2. PICK k \in Nat : k = Len(s)
  OBVIOUS
<1>3. /\ DOMAIN quads' = DOMAIN quads \cup (currQuad .. currQuad + k - 1)
      /\ \A l \in currQuad .. currQuad + k - 1 : quads'[l] = s[l - currQuad + 1]
  BY <1>2, EmittedFacts
<1>4. \A l \in currQuad .. currQuad + k - 1 : l - currQuad + 1 \in 1 .. k
  BY <1>1
<1>5. \A l \in currQuad .. currQuad + k - 1 : quads'[l].op \notin JumpOps
  BY <1>2, <1>3, <1>4
<1>6. QED
  BY <1>3, <1>5 DEF NewJumps

LEMMA SameQuads == \A m : UNCHANGED quads => NewJumps(m)
BY DEF NewJumps

LEMMA PairIs == \A a, b : <<a, b>>[1] = a /\ <<a, b>>[2] = b
OBVIOUS

LEMMA OpsAre ==
  \A op, l : Quad(op, l).op = op /\ Plain.op = "plain" /\ JumpTo(l).op = "jump"
BY DEF Quad, Plain, JumpTo

LEMMA EmitsFit ==
  ASSUME TypeOK, NEW nest, NEW m, Growing(nest, m), NEW M, Locates(M, nest),
         Expression \/ Logic \/ Call \/ Return
  PROVE  Fits(m)
<1>1. UNCHANGED <<open, function_name_stack, settled>>
  BY DEF Expression, Logic, Call, Return, Expr, Emit, stacks
<1>2. PICK s : quads' = Emitted(s) /\ Len(s) \in Nat
               /\ \A i \in 1 .. Len(s) : s[i].op \notin JumpOps
  <2>1. ASSUME NEW x, x.op \notin JumpOps, quads' = Emitted(<<x>>)
        PROVE  \E s : quads' = Emitted(s) /\ Len(s) \in Nat
                      /\ \A i \in 1 .. Len(s) : s[i].op \notin JumpOps
    <3>1. Len(<<x>>) = 1 /\ \A i \in 1 .. 1 : <<x>>[i] = x
      OBVIOUS
    <3>2. QED
      BY <2>1, <3>1
  <2>2. ASSUME NEW x, NEW y, x.op \notin JumpOps, y.op \notin JumpOps,
               quads' = Emitted(<<x, y>>)
        PROVE  \E s : quads' = Emitted(s) /\ Len(s) \in Nat
                      /\ \A i \in 1 .. Len(s) : s[i].op \notin JumpOps
    <3>1. Len(<<x, y>>) = 2 /\ \A i \in 1 .. 2 : <<x, y>>[i] = x \/ <<x, y>>[i] = y
      OBVIOUS
    <3>2. QED
      BY <2>2, <3>1
  <2>3. ASSUME NEW x, NEW y, NEW z, x.op \notin JumpOps, y.op \notin JumpOps,
               z.op \notin JumpOps, quads' = Emitted(<<x, y, z>>)
        PROVE  \E s : quads' = Emitted(s) /\ Len(s) \in Nat
                      /\ \A i \in 1 .. Len(s) : s[i].op \notin JumpOps
    <3>1. /\ Len(<<x, y, z>>) = 3
          /\ \A i \in 1 .. 3 : <<x, y, z>>[i] = x \/ <<x, y, z>>[i] = y \/ <<x, y, z>>[i] = z
      OBVIOUS
    <3>2. QED
      BY <2>3, <3>1
  <2>4. CASE Expression
    BY <2>1, <2>4, OpsAre DEF Expression, Expr, Emit, JumpOps
  <2>5. CASE Logic
    <3>1. PICK op \in {"and_or", "not"} : quads' = Emitted(<<Quad(op, 0)>>)
      BY <2>5 DEF Logic, Expr, Emit
    <3>2. Quad(op, 0).op \notin JumpOps
      BY OpsAre DEF JumpOps
    <3>3. QED
      BY <2>1, <3>1, <3>2
  <2>6. CASE Return
    BY <2>1, <2>6, OpsAre DEF Return, Emit, JumpOps
  <2>7. CASE Call
    <3>1. /\ Quad("param", 0).op \notin JumpOps /\ Quad("call", 0).op \notin JumpOps
          /\ Quad("getretval", 0).op \notin JumpOps
      BY OpsAre DEF JumpOps
    <3>2. \/ quads' = Emitted(<<Quad("call", 0), Quad("getretval", 0)>>)
          \/ quads' = Emitted(<<Quad("param", 0), Quad("call", 0), Quad("getretval", 0)>>)
      BY <2>7 DEF Call, Expr, Emit
    <3>3. QED
      BY <2>2, <2>3, <3>1, <3>2
  <2>8. QED
    BY <2>4, <2>5, <2>6, <2>7
<1>3. QED
  BY <1>1, <1>2, PlacedStays, SettlesSame, NoNewJumps DEF Fits

LEMMA RelopFits ==
  ASSUME TypeOK, NEW nest, NEW m, Growing(nest, m), NEW M, Locates(M, nest), Relop
  PROVE  Fits(m)
<1> DEFINE X == {<<currQuad, currQuad + 3>>, <<currQuad + 2, currQuad + 4>>}
           s == <<Quad("branch", currQuad + 3), Plain, JumpTo(currQuad + 4), Plain>>
<1>1. /\ UNCHANGED <<open, function_name_stack>> /\ settled' = settled \cup X
      /\ quads' = Emitted(s) /\ currQuad' = currQuad + Len(s)
  BY DEF Relop, Expr, Emit, stacks
<1>2. Len(s) = 4 /\ s[2] = Plain /\ s[4] = Plain
  OBVIOUS
<1>3. /\ \A p \in X : \/ p[1] = currQuad /\ p[2] = currQuad + 3
                      \/ p[1] = currQuad + 2 /\ p[2] = currQuad + 4
      /\ \E p \in X : p[1] = currQuad
      /\ \E p \in X : p[1] = currQuad + 2
  BY PairIs
<1> HIDE DEF X, s
<1>4. currQuad \in Nat /\ currQuad' = currQuad + 4
  BY <1>1, <1>2, TypesOf
<1>5. \A l \in currQuad .. currQuad + 4 : LiesIn(l, m, function_name_stack, currQuad')
  BY <1>1, <1>4, StaysHere
<1>6. Leaping(X, m, function_name_stack, currQuad')
  <2>1. /\ currQuad \in currQuad .. currQuad + 4 /\ currQuad + 3 \in currQuad .. currQuad + 4
        /\ currQuad + 2 \in currQuad .. currQuad + 4
        /\ currQuad + 4 \in currQuad .. currQuad + 4
        /\ currQuad # currQuad + 3 /\ currQuad + 2 # currQuad + 4
    BY <1>4
  <2>2. QED
    BY <1>3, <1>5, <2>1 DEF Leaping
<1>7. NewJumps(m)
  <2>1. /\ DOMAIN quads' = DOMAIN quads \cup (currQuad .. currQuad + 4 - 1)
        /\ \A l \in currQuad .. currQuad + 4 - 1 : quads'[l] = s[l - currQuad + 1]
    <3>1. PICK t : t = s
      OBVIOUS
    <3>2. Len(t) = 4 /\ Len(t) \in Nat /\ quads' = Emitted(t)
      BY <1>1, <1>2, <3>1
    <3>3. /\ DOMAIN Emitted(t) = DOMAIN quads \cup (currQuad .. currQuad + Len(t) - 1)
          /\ \A l \in currQuad .. currQuad + Len(t) - 1 : Emitted(t)[l] = t[l - currQuad + 1]
      BY <3>2, EmittedFacts
    <3>4. QED
      BY <3>1, <3>2, <3>3
  <2>2. \A l \in currQuad .. currQuad + 4 - 1 :
          /\ l \in currQuad .. currQuad + 4
          /\ \/ l = currQuad \/ l = currQuad + 2
             \/ l - currQuad + 1 = 2 \/ l - currQuad + 1 = 4
    BY <1>4
  <2>3. \A l \in currQuad .. currQuad + 4 - 1 : quads'[l].op \in JumpOps =>
          l = currQuad \/ l = currQuad + 2
    BY <1>2, <2>1, <2>2, OpsAre DEF JumpOps
  <2>4. \A l \in currQuad .. currQuad + 4 - 1 : m[l] = function_name_stack
    BY <1>5, <2>2 DEF LiesIn
  <2>5. QED
    BY <1>1, <1>3, <2>1, <2>3, <2>4 DEF NewJumps
<1>8. QED
  BY <1>1, <1>6, <1>7, PlacedStays, SettlesMore DEF Fits

LEMMA BeginsFit ==
  ASSUME TypeOK, NEW nest, NEW m, Growing(nest, m), NEW M, Locates(M, nest),
         IfBegin \/ WhileBegin \/ ForBegin
  PROVE  Fits(m)
<1>1. UNCHANGED <<quads, currQuad, function_name_stack, settled>>
  BY DEF IfBegin, WhileBegin, ForBegin, stacks
<1>2. PICK kind, at : /\ kind \in {"if", "while", "for"} /\ at \in {"cond", "init"}
                      /\ open' = Push(open, Opened(kind, at))
  BY DEF IfBegin, WhileBegin, ForBegin, LoopBegin
<1>3. PICK x : x = Opened(kind, at)
  OBVIOUS
<1>4. x.kind = kind /\ x.at = at /\ x.start = currQuad /\ x.jumps = {}
  BY <1>3 DEF Opened
<1>5. currQuad \in currQuad .. currQuad'
  BY DEF Growing
<1>6. LiesIn(x.start, m, function_name_stack, currQuad')
  BY <1>1, <1>4, <1>5, StaysHere
<1>7. ~Stepping(x)
  BY <1>2, <1>4 DEF Stepping
<1>8. Sits(x, m, function_name_stack, currQuad')
  BY <1>2, <1>4, <1>6, <1>7 DEF Sits
<1>9. Stands(x, function_name_stack, function_name_stack', m, currQuad')
  BY <1>1, <1>2, <1>4, <1>8 DEF Stands
<1>10. QED
  BY <1>1, <1>2, <1>3, <1>9, PlacedBegins, SettlesSame, SameQuads DEF Fits

LEMMA OneStill ==
  ASSUME TypeOK, NEW x, x.op \notin JumpOps, quads' = Emitted(<<x>>), NEW m
  PROVE  NewJumps(m) /\ NoJump(currQuad, quads')
<1>1. PICK s : s = <<x>>
  OBVIOUS
<1>2. Len(s) = 1 /\ \A i \in 1 .. 1 : s[i] = x
  BY <1>1
<1>3. NewJumps(m)
  BY <1>1, <1>2, NoNewJumps
<1>4. currQuad \in Nat
  BY TypesOf
<1>5. currQuad \in DOMAIN quads' /\ quads'[currQuad] = s[1]
  <2>1. /\ DOMAIN Emitted(s) = DOMAIN quads \cup (currQuad .. currQuad + Len(s) - 1)
        /\ \A l \in currQuad .. currQuad + Len(s) - 1 : Emitted(s)[l] = s[l - currQuad + 1]
    <3>1. Len(s) \in Nat
      BY <1>2
    <3>2. QED
      BY <3>1, EmittedFacts
  <2>2. currQuad \in currQuad .. currQuad + Len(s) - 1 /\ currQuad - currQuad + 1 = 1
    BY <1>2, <1>4
  <2>3. QED
    BY <1>1, <2>1, <2>2
<1>6. QED
  BY <1>2, <1>3, <1>5 DEF NoJump

LEMMA FuncStartFits ==
  ASSUME TypeOK, NEW nest, NEW m, Growing(nest, m), NEW M, Locates(M, nest), FuncStart
  PROVE  Fits(m)
<1>1. /\ UNCHANGED settled /\ open' = Push(open, Opened("function", "body"))
      /\ function_name_stack' = Push(function_name_stack, currQuad)
      /\ quads' = Emitted(<<Quad("func_start", currQuad)>>)
  BY DEF FuncStart, FuncHead
<1>2. PICK x : x = Opened("function", "body")
  OBVIOUS
<1>3. x.kind = "function"
  BY <1>2 DEF Opened
<1>4. function_name_stack' # <<>> /\ Tail(function_name_stack') = function_name_stack
  <2>1. currQuad \in Nat /\ function_name_stack \in Seq(Nat)
    BY NamesAreTyped DEF NamesTyped
  <2>2. QED
    BY <1>1, <2>1, PushFacts
<1>5. Stands(x, function_name_stack, function_name_stack', m, currQuad')
  BY <1>3, <1>4 DEF Stands
<1>6. NewJumps(m)
  BY <1>1, OneStill, OpsAre DEF JumpOps
<1>7. QED
  BY <1>1, <1>2, <1>5, <1>6, PlacedBegins, SettlesSame DEF Fits

LEMMA FuncEndFits ==
  ASSUME TypeOK, NEW nest, NEW m, Growing(nest, m), NEW M, Locates(M, nest), FuncEnd
  PROVE  Fits(m)
<1>1. /\ open # <<>> /\ open' = Tail(open) /\ Innermost.kind = "function"
      /\ function_name_stack' = Tail(function_name_stack)
      /\ quads' = Emitted(<<Quad("func_end", Head(function_name_stack))>>)
      /\ settled' = settled \cup {<<currQuad, Innermost.start>>}
  BY DEF FuncEnd, Expecting
<1>2. NewJumps(m) /\ NoJump(currQuad, quads')
  BY <1>1, OneStill, OpsAre DEF JumpOps
<1>3. \A p \in {<<currQuad, Innermost.start>>} : NoJump(p[1], quads')
  BY <1>2, PairIs
<1>4. Settles(m)
  BY <1>1, <1>3, SettlesMore
<1>5. QED
  BY <1>1, <1>2, <1>4, PlacedEnds DEF Fits

(* The statement goes on with one jump more, which it has reserved. *)
LEMMA SitsJoined ==
  ASSUME NEW x, NEW y, NEW m, NEW t, NEW d, Sits(x, m, t, d),
         y.kind = x.kind, y.start = x.start,
         NEW q, NEW where, y.jumps = x.jumps \cup {<<q, where>>},
         Leading(x) \subseteq Leading(y), where \in Leading(y), q < d, LiesIn(q, m, t, d),
         Stepping(y) => LiesIn(y.step, m, t, d),
         y.at # "step", ~(y.kind \in {"while", "for"} /\ y.at = "body"),
         y.at = "else" => where # "else" /\ \A j \in x.jumps : j[1] < y.step
  PROVE  Sits(y, m, t, d)
<1>1. \A j \in y.jumps : j \in x.jumps \/ (j[1] = q /\ j[2] = where)
  BY PairIs
<1>2. \A j \in y.jumps : j[2] \in Leading(y) /\ j[1] < d /\ LiesIn(j[1], m, t, d)
  BY <1>1 DEF Sits
<1>3. y.at = "else" => \A j \in y.jumps : j[2] = "else" => j[1] < y.step
  BY <1>1
<1>4. QED
  BY <1>2, <1>3 DEF Sits

LEMMA TestFits ==
  ASSUME TypeOK, NEW nest, NEW m, Growing(nest, m), NEW M, Locates(M, nest),
         quads' = Test, currQuad' = currQuad + 2,
         settled' = settled \cup {<<currQuad, currQuad + 2>>},
         UNCHANGED function_name_stack
  PROVE  Settles(m) /\ NewJumps(m)
<1> DEFINE X == {<<currQuad, currQuad + 2>>}
<1>1. PICK x, s : x = Quad("branch", currQuad + 2) /\ s = <<x>>
  OBVIOUS
<1>2. Len(s) = 1 /\ Len(s) \in Nat /\ quads' = Emitted(s)
  BY <1>1 DEF Test
<1>3. currQuad \in Nat
  BY TypesOf
<1>4. \A l \in currQuad .. currQuad + 2 : LiesIn(l, m, function_name_stack, currQuad')
  BY StaysHere
<1>5. (\A p \in X : p[1] = currQuad /\ p[2] = currQuad + 2) /\ \E p \in X : p[1] = currQuad
  BY PairIs
<1>6. settled' = settled \cup X
  OBVIOUS
<1> HIDE DEF X
<1>7. /\ currQuad \in currQuad .. currQuad + 2 /\ currQuad + 2 \in currQuad .. currQuad + 2
      /\ currQuad # currQuad + 2
  BY <1>3
<1>8. Leaping(X, m, function_name_stack, currQuad')
  BY <1>4, <1>5, <1>7 DEF Leaping
<1>9. NewJumps(m)
  <2>1. DOMAIN Emitted(s) = DOMAIN quads \cup (currQuad .. currQuad + Len(s) - 1)
    BY <1>2, EmittedFacts
  <2>2. \A l \in currQuad .. currQuad + Len(s) - 1 : l = currQuad
    BY <1>2, <1>3
  <2>3. m[currQuad] = function_name_stack
    BY <1>4, <1>7 DEF LiesIn
  <2>4. \E p \in settled' : p[1] = currQuad
    BY <1>5, <1>6
  <2>5. QED
    BY <1>2, <2>1, <2>2, <2>3, <2>4 DEF NewJumps
<1>10. QED
  BY <1>6, <1>8, <1>9, SettlesMore

LEMMA IfThenFits ==
  ASSUME TypeOK, NEW nest, NEW m, Growing(nest, m), NEW M, Locates(M, nest), IfThen
  PROVE  Fits(m)
<1>1. /\ open # <<>> /\ Innermost.kind = "if" /\ Innermost.at = "cond"
      /\ quads' = Test /\ currQuad' = currQuad + 2
      /\ settled' = settled \cup {<<currQuad, currQuad + 2>>}
      /\ UNCHANGED function_name_stack
  BY DEF IfThen, Expecting
<1>0. open' = [Promise(1, currQuad + 1, "else") EXCEPT ![1].at = "body"]
  BY DEF IfThen
<1>2. PICK x, J : x = Innermost /\ J = Innermost.jumps \cup {<<currQuad + 1, "else">>}
  OBVIOUS
<1>3. open' = GoesOn("body", x.start, x.step, J)
  BY <1>0, <1>1, <1>2, TestedAs
<1>4. Sits(x, m, function_name_stack, currQuad')
  BY <1>1, <1>2, InnermostSits
<1>5. PICK y : y = [kind |-> x.kind, at |-> "body", start |-> x.start, step |-> x.step,
                    jumps |-> J]
  OBVIOUS
<1>6. /\ y.kind = "if" /\ y.at = "body" /\ y.start = x.start
      /\ y.jumps = x.jumps \cup {<<currQuad + 1, "else">>}
  BY <1>1, <1>2, <1>5
<1>7. currQuad \in Nat /\ currQuad + 1 < currQuad' /\ currQuad + 1 \in currQuad .. currQuad'
  BY <1>1, TypesOf
<1>8. LiesIn(currQuad + 1, m, function_name_stack, currQuad')
  BY <1>1, <1>7, StaysHere
<1>9. Leading(x) = {} /\ Leading(y) = {"else", "end"} /\ ~Stepping(y)
  BY <1>1, <1>2, <1>6 DEF Leading, Stepping
<1>10. Sits(y, m, function_name_stack, currQuad')
  BY <1>1, <1>2, <1>4, <1>6, <1>7, <1>8, <1>9, SitsJoined
<1>11. Placed(m)
  BY <1>1, <1>2, <1>3, <1>5, <1>10, PlacedGoes
<1>12. QED
  BY <1>1, <1>11, TestFits DEF Fits

LEMMA WhileBodyFits ==
  ASSUME TypeOK, NEW nest, NEW m, Growing(nest, m), NEW M, Locates(M, nest), WhileBody
  PROVE  Fits(m)
<1>1. /\ open # <<>> /\ Innermost.kind = "while" /\ Innermost.at = "cond"
      /\ quads' = Test /\ currQuad' = currQuad + 2
      /\ settled' = settled \cup {<<currQuad, currQuad + 2>>}
      /\ UNCHANGED function_name_stack
  BY DEF WhileBody, Expecting
<1>0. open' = [Promise(1, currQuad + 1, "end") EXCEPT ![1].at = "body"]
  BY DEF WhileBody
<1>2. PICK x, J : x = Innermost /\ J = Innermost.jumps \cup {<<currQuad + 1, "end">>}
  OBVIOUS
<1>3. open' = GoesOn("body", x.start, x.step, J)
  BY <1>0, <1>1, <1>2, TestedAs
<1>4. /\ Sits(x, m, function_name_stack, currQuad')
      /\ Sits(x, m, function_name_stack, currQuad)
  BY <1>1, <1>2, InnermostSits
<1>5. PICK y : y = [kind |-> x.kind, at |-> "body", start |-> x.start, step |-> x.step,
                    jumps |-> J]
  OBVIOUS
<1>6. /\ y.kind = "while" /\ y.at = "body" /\ y.start = x.start
      /\ y.jumps = x.jumps \cup {<<currQuad + 1, "end">>}
  BY <1>1, <1>2, <1>5
<1>7. currQuad \in Nat /\ currQuad + 1 < currQuad' /\ currQuad + 1 \in currQuad .. currQuad'
  BY <1>1, TypesOf
<1>8. LiesIn(currQuad + 1, m, function_name_stack, currQuad')
  BY <1>1, <1>7, StaysHere
<1>9. Leading(x) = {} /\ Leading(y) = {"start", "end"} /\ ~Stepping(y)
  BY <1>1, <1>2, <1>6 DEF Leading, Stepping
<1>10. \A j \in y.jumps : j[1] = currQuad + 1 /\ j[2] = "end"
  BY <1>4, <1>6, <1>9, PairIs DEF Sits
<1>11. Back(y) = x.start /\ x.start \in 0 .. currQuad
  BY <1>4, <1>6 DEF Back, Sits, LiesIn
<1>12. Back(y) < currQuad' /\ "start" # "end"
  BY <1>1, <1>7, <1>11
<1>13. Sits(y, m, function_name_stack, currQuad')
  BY <1>4, <1>6, <1>7, <1>8, <1>9, <1>10, <1>12 DEF Sits
<1>14. Placed(m)
  BY <1>1, <1>2, <1>3, <1>5, <1>13, PlacedGoes
<1>15. QED
  BY <1>1, <1>14, TestFits DEF Fits

LEMMA IfElseFits ==
  ASSUME TypeOK, NEW nest, NEW m, Growing(nest, m), NEW M, Locates(M, nest), IfElse
  PROVE  Fits(m)
<1>1. /\ open # <<>> /\ Innermost.kind = "if" /\ Innermost.at = "body"
      /\ currQuad' = currQuad + 1
      /\ UNCHANGED <<quads, function_name_stack, settled>>
  BY DEF IfElse, Expecting
<1>2. PICK x, J : x = Innermost /\ J = Innermost.jumps \cup {<<currQuad, "end">>}
  OBVIOUS
<1>3. open' = GoesOn("else", x.start, currQuad + 1, J)
  BY <1>2, ElseForm
<1>4. /\ Sits(x, m, function_name_stack, currQuad')
      /\ Sits(x, m, function_name_stack, currQuad)
  BY <1>1, <1>2, InnermostSits
<1>5. PICK y : y = [kind |-> x.kind, at |-> "else", start |-> x.start, step |-> currQuad + 1,
                    jumps |-> J]
  OBVIOUS
<1>6. /\ y.kind = "if" /\ y.at = "else" /\ y.start = x.start /\ y.step = currQuad + 1
      /\ y.jumps = x.jumps \cup {<<currQuad, "end">>}
  BY <1>1, <1>2, <1>5
<1>7. /\ currQuad \in Nat /\ currQuad < currQuad' /\ currQuad \in currQuad .. currQuad'
      /\ currQuad + 1 \in currQuad .. currQuad'
  BY <1>1, TypesOf
<1>8. /\ LiesIn(currQuad, m, function_name_stack, currQuad')
      /\ LiesIn(currQuad + 1, m, function_name_stack, currQuad')
  BY <1>1, <1>7, StaysHere
<1>9. Leading(x) = {"else", "end"} /\ Leading(y) = {"else", "end"}
  BY <1>1, <1>2, <1>6 DEF Leading
<1>10. \A j \in x.jumps : j[1] < y.step
  <2>1. \A j \in x.jumps : j[1] \in 0 .. currQuad
    BY <1>4 DEF Sits, LiesIn
  <2>2. \A l \in 0 .. currQuad : l < currQuad + 1
    BY <1>7
  <2>3. QED
    BY <1>6, <2>1, <2>2
<1>11. Sits(y, m, function_name_stack, currQuad')
  BY <1>1, <1>2, <1>4, <1>6, <1>7, <1>8, <1>9, <1>10, SitsJoined
<1>12. Placed(m)
  BY <1>1, <1>2, <1>3, <1>5, <1>11, PlacedGoes
<1>13. QED
  BY <1>1, <1>12, SettlesSame, SameQuads DEF Fits

LEMMA ForCondFits ==
  ASSUME TypeOK, NEW nest, NEW m, Growing(nest, m), NEW M, Locates(M, nest), ForCond
  PROVE  Fits(m)
<1>1. /\ open # <<>> /\ Innermost.kind = "for" /\ Innermost.at = "init"
      /\ UNCHANGED <<quads, currQuad, function_name_stack, settled>>
  BY DEF ForCond, Expecting
<1>2. PICK x : x = Innermost
  OBVIOUS
<1>3. open' = GoesOn("cond", currQuad, x.step, x.jumps)
  BY <1>2, CondForm
<1>4. Sits(x, m, function_name_stack, currQuad')
  BY <1>1, <1>2, InnermostSits
<1>5. PICK y : y = [kind |-> x.kind, at |-> "cond", start |-> currQuad, step |-> x.step,
                    jumps |-> x.jumps]
  OBVIOUS
<1>6. y.kind = "for" /\ y.at = "cond" /\ y.start = currQuad /\ y.jumps = x.jumps
  BY <1>1, <1>2, <1>5
<1>7. LiesIn(currQuad, m, function_name_stack, currQuad')
  BY <1>1, StaysHere DEF Growing
<1>8. Leading(x) = {} /\ ~Stepping(y)
  BY <1>1, <1>2, <1>6 DEF Leading, Stepping
<1>9. \A j \in y.jumps : FALSE
  BY <1>4, <1>6, <1>8 DEF Sits
<1>10. Sits(y, m, function_name_stack, currQuad')
  BY <1>6, <1>7, <1>8, <1>9 DEF Sits
<1>11. Placed(m)
  BY <1>1, <1>2, <1>3, <1>5, <1>10, PlacedGoes
<1>12. QED
  BY <1>1, <1>11, SettlesSame, SameQuads DEF Fits

LEMMA ForStepFits ==
  ASSUME TypeOK, NEW nest, NEW m, Growing(nest, m), NEW M, Locates(M, nest), ForStep
  PROVE  Fits(m)
<1>1. /\ open # <<>> /\ Innermost.kind = "for" /\ Innermost.at = "cond"
      /\ currQuad' = currQuad + 2
      /\ UNCHANGED <<quads, function_name_stack, settled>>
  BY DEF ForStep, Expecting
<1>2. PICK x, J : x = Innermost /\ J = {<<currQuad, "body">>, <<currQuad + 1, "end">>}
  OBVIOUS
<1>3. open' = GoesOn("step", x.start, currQuad + 2, J)
  BY <1>2, StepForm
<1>4. /\ Sits(x, m, function_name_stack, currQuad')
      /\ Sits(x, m, function_name_stack, currQuad)
  BY <1>1, <1>2, InnermostSits
<1>5. PICK y : y = [kind |-> x.kind, at |-> "step", start |-> x.start, step |-> currQuad + 2,
                    jumps |-> J]
  OBVIOUS
<1>6. y.kind = "for" /\ y.at = "step" /\ y.start = x.start /\ y.step = currQuad + 2
  BY <1>1, <1>2, <1>5
<1>7. \A j \in y.jumps : \/ j[1] = currQuad /\ j[2] = "body"
                         \/ j[1] = currQuad + 1 /\ j[2] = "end"
  BY <1>2, <1>5, PairIs
<1>8. /\ currQuad \in Nat /\ currQuad < currQuad' /\ currQuad + 1 < currQuad'
      /\ currQuad \in currQuad .. currQuad' /\ currQuad + 1 \in currQuad .. currQuad'
      /\ currQuad + 2 \in currQuad .. currQuad'
  BY <1>1, TypesOf
<1>9. /\ LiesIn(currQuad, m, function_name_stack, currQuad')
      /\ LiesIn(currQuad + 1, m, function_name_stack, currQuad')
      /\ LiesIn(currQuad + 2, m, function_name_stack, currQuad')
  BY <1>1, <1>8, StaysHere
<1>10. Leading(y) = {"body", "end"}
  BY <1>6 DEF Leading
<1>11. x.start < currQuad + 2
  BY <1>4, <1>8 DEF Sits, LiesIn
<1>12. \A j \in y.jumps : j[2] \in Leading(y) /\ j[1] < currQuad'
                          /\ LiesIn(j[1], m, function_name_stack, currQuad')
  BY <1>7, <1>8, <1>9, <1>10
<1>13. Sits(y, m, function_name_stack, currQuad')
  BY <1>4, <1>6, <1>9, <1>11, <1>12 DEF Sits
<1>14. Placed(m)
  BY <1>1, <1>2, <1>3, <1>5, <1>13, PlacedGoes
<1>15. QED
  BY <1>1, <1>14, SettlesSame, SameQuads DEF Fits

-----------------------------------------------------------------------------
(* Statements write what they have promised *)

(* A quad that was left out and is there now is one that the innermost     *)
(* statement has promised, and promises no more.                           *)
LEMMA WrittenPromise ==
  ASSUME TypeOK, open # <<>>, AllPromised, AllPromised', NEW n, n = Len(open) - 1,
         Agree(Frames, Frames', n), Len(open') = n \/ Len(open') = n + 1,
         NEW l \in DOMAIN quads', l \notin DOMAIN quads, l < currQuad
  PROVE  \E w : /\ <<l, w>> \in Innermost.jumps
                /\ Len(open') = n + 1 => <<l, w>> \notin Frames'[n].jumps
<1>1. PICK f, g, Q, R, c, d, k :
        /\ f = Frames /\ g = Frames' /\ Q = quads /\ R = quads' /\ c = currQuad
        /\ d = currQuad' /\ k = Len(open')
  OBVIOUS
<1>2. n \in Nat /\ Len(open) = n + 1 /\ f[n] = Innermost
  BY <1>1, FramesTop
<1>3. c \in Nat /\ DOMAIN R \subseteq Upto(d)
  BY <1>1, TypesOf DEF AllPromised, Promises
<1>4. HolesPromised(f, n + 1, Q, c) /\ Unwritten(g, k, R, d)
  BY <1>1, <1>2 DEF AllPromised, Promises
<1>5. l \in Upto(c) /\ l \notin DOMAIN Q /\ l \in DOMAIN R
  BY <1>1, <1>3 DEF Upto
<1>6. PICK p \in 0 .. (n + 1) - 1 : \E w : <<l, w>> \in f[p].jumps
  BY <1>4, <1>5 DEF HolesPromised
<1>7. PICK w : <<l, w>> \in f[p].jumps
  BY <1>6
<1>8. p = n
  <2>1. SUFFICES ASSUME p # n PROVE FALSE
    OBVIOUS
  <2>2. p \in 0 .. n - 1 /\ p \in 0 .. k - 1
    BY <1>1, <1>2, <2>1
  <2>3. <<l, w>> \in g[p].jumps
    BY <1>1, <1>7, <2>2 DEF Agree
  <2>4. QED
    BY <1>4, <1>5, <2>2, <2>3 DEF Unwritten
<1>9. ASSUME k = n + 1 PROVE <<l, w>> \notin g[n].jumps
  <2>1. n \in 0 .. k - 1
    BY <1>2, <1>9
  <2>2. QED
    BY <1>4, <1>5, <2>1 DEF Unwritten
<1>10. QED
  BY <1>1, <1>2, <1>7, <1>8, <1>9

LEMMA SettleIs ==
  \A w, l : /\ \A p \in Settle(w, l) :
                 \E j \in Innermost.jumps : j[2] = w /\ p[1] = j[1] /\ p[2] = l
            /\ \A j \in Innermost.jumps : j[2] = w => \E p \in Settle(w, l) : p[1] = j[1]
<1>1. ASSUME NEW w, NEW l, NEW p \in Settle(w, l)
      PROVE  \E j \in Innermost.jumps : j[2] = w /\ p[1] = j[1] /\ p[2] = l
  BY <1>1, PairIs DEF Settle, Due
<1>2. ASSUME NEW w, NEW l, NEW j \in Innermost.jumps, j[2] = w
      PROVE  \E p \in Settle(w, l) : p[1] = j[1]
  <2>1. <<j[1], l>> \in Settle(w, l)
    BY <1>2 DEF Settle, Due
  <2>2. QED
    BY <2>1, PairIs
<1>3. QED
  BY <1>1, <1>2

(* Each jump that the statement does not go on to promise is due. *)
LEMMA NewJumpsDue ==
  ASSUME TypeOK, TypeOK', NEW nest, NEW m, Growing(nest, m), NEW M, Locates(M, nest),
         open # <<>>, Innermost.kind # "function", UNCHANGED function_name_stack,
         AllPromised, AllPromised', NEW n, n = Len(open) - 1,
         Agree(Frames, Frames', n), Len(open') = n \/ Len(open') = n + 1,
         \A j \in Innermost.jumps :
           \/ Len(open') = n + 1 /\ j \in Frames'[n].jumps
           \/ \E p \in settled' : p[1] = j[1],
         \/ UNCHANGED currQuad
         \/ currQuad' = currQuad + 1 /\ \E p \in settled' : p[1] = currQuad
  PROVE  NewJumps(m)
<1>1. SUFFICES ASSUME NEW l \in DOMAIN quads', l \notin DOMAIN quads
               PROVE  m[l] = function_name_stack /\ \E p \in settled' : p[1] = l
  BY DEF NewJumps
<1>2. currQuad \in Nat /\ l \in 0 .. currQuad' - 1
  BY TypesOf, LengthsGrow DEF TypeOK, Labels
<1>3. CASE l < currQuad
  <2>1. PICK w : /\ <<l, w>> \in Innermost.jumps
                 /\ Len(open') = n + 1 => <<l, w>> \notin Frames'[n].jumps
    BY <1>1, <1>3, WrittenPromise
  <2>2. \E p \in settled' : p[1] = l
    BY <2>1, PairIs
  <2>3. LiesIn(l, m, function_name_stack, currQuad)
    BY <2>1, PairIs, InnermostSits DEF Sits
  <2>4. QED
    BY <2>2, <2>3 DEF LiesIn
<1>4. CASE ~(l < currQuad)
  <2>1. l = currQuad /\ \E p \in settled' : p[1] = currQuad
    BY <1>2, <1>4
  <2>2. LiesIn(currQuad, m, function_name_stack, currQuad')
    BY <1>2, StaysHere DEF Growing
  <2>3. QED
    BY <2>1, <2>2 DEF LiesIn
<1>5. QED
  BY <1>3, <1>4

LEMMA IfEndFits ==
  ASSUME TypeOK, TypeOK', NEW nest, NEW m, Growing(nest, m), NEW M, Locates(M, nest),
         AllPromised, AllPromised', IfEnd
  PROVE  Fits(m)
<1> DEFINE l == IF Innermost.at = "else" THEN Innermost.step ELSE currQuad
           X == Settle("end", currQuad) \cup Settle("else", l)
<1>1. /\ open # <<>> /\ Innermost.kind = "if" /\ Innermost.at \in {"body", "else"}
      /\ open' = Tail(open) /\ UNCHANGED <<currQuad, function_name_stack>>
      /\ settled' = settled \cup X
  BY DEF IfEnd, Expecting
<1>2. PICK x : x = Innermost
  OBVIOUS
<1>3. Sits(x, m, function_name_stack, currQuad')
  BY <1>1, <1>2, InnermostSits
<1>4. Leading(x) = {"else", "end"}
  BY <1>1, <1>2 DEF Leading
<1>5. \A p \in X : \E j \in x.jumps : /\ p[1] = j[1]
                                      /\ \/ j[2] = "end" /\ p[2] = currQuad
                                         \/ j[2] = "else" /\ p[2] = l
  BY <1>2, SettleIs
<1>6. \A j \in x.jumps : \E p \in X : p[1] = j[1]
  BY <1>2, <1>3, <1>4, SettleIs DEF Sits
<1>7. LiesIn(currQuad, m, function_name_stack, currQuad')
  BY <1>1, StaysHere DEF Growing
<1>8. LiesIn(l, m, function_name_stack, currQuad')
  BY <1>2, <1>3, <1>7 DEF Sits, Stepping
<1>9. \A j \in x.jumps : /\ LiesIn(j[1], m, function_name_stack, currQuad')
                         /\ j[1] # currQuad
                         /\ j[2] = "else" => j[1] # l
  <2>1. \A j \in x.jumps : /\ LiesIn(j[1], m, function_name_stack, currQuad')
                           /\ j[1] < currQuad
    BY <1>1, <1>3 DEF Sits
  <2>2. x.at = "else" => \A j \in x.jumps : j[2] = "else" => j[1] < x.step
    BY <1>3 DEF Sits
  <2>3. l = IF x.at = "else" THEN x.step ELSE currQuad
    BY <1>2
  <2> HIDE DEF l, X
  <2>4. l \in Nat /\ currQuad \in Nat /\ \A j \in x.jumps : j[1] \in Nat
    BY <1>7, <1>8, <2>1 DEF LiesIn
  <2>5. \A j \in x.jumps : j[2] = "else" => j[1] < l
    BY <2>1, <2>2, <2>3
  <2>6. \A a, b \in Nat : a < b => a # b
    OBVIOUS
  <2>7. QED
    BY <2>1, <2>4, <2>5, <2>6
<1> HIDE DEF l, X
<1>10. Leaping(X, m, function_name_stack, currQuad')
  BY <1>5, <1>7, <1>8, <1>9 DEF Leaping
<1>11. PICK n : n = Len(open) - 1
  OBVIOUS
<1>12. Len(open') = n /\ Agree(Frames, Frames', n)
  BY <1>1, <1>11, FramesPopped
<1>13. \A j \in Innermost.jumps : \E p \in settled' : p[1] = j[1]
  BY <1>1, <1>2, <1>6
<1>14. NewJumps(m)
  BY <1>1, <1>11, <1>12, <1>13, NewJumpsDue
<1>15. QED
  BY <1>1, <1>10, <1>14, PlacedEnds, SettlesMore DEF Fits

LEMMA LoopEndFits ==
  ASSUME TypeOK, TypeOK', NEW nest, NEW m, Growing(nest, m), NEW M, Locates(M, nest),
         AllPromised, AllPromised',
         open # <<>>, Innermost.kind \in {"while", "for"}, Innermost.at = "body",
         open' = Tail(open), currQuad' = currQuad + 1, UNCHANGED function_name_stack,
         NEW back, back = Back(Innermost),
         settled' = settled \cup {<<currQuad, back>>}
                      \cup Settle("start", back) \cup Settle("end", currQuad + 1)
  PROVE  Fits(m)
<1> DEFINE X == {<<currQuad, back>>} \cup Settle("start", back)
                  \cup Settle("end", currQuad + 1)
<1>1. settled' = settled \cup X
  OBVIOUS
<1>2. PICK x : x = Innermost
  OBVIOUS
<1>3. /\ Sits(x, m, function_name_stack, currQuad')
      /\ Sits(x, m, function_name_stack, currQuad)
  BY <1>2, InnermostSits
<1>4. Leading(x) = {"start", "end"}
  BY <1>2 DEF Leading
<1>5. \A p \in X : \/ p[1] = currQuad /\ p[2] = back
                   \/ \E j \in x.jumps : /\ p[1] = j[1]
                                         /\ \/ j[2] = "start" /\ p[2] = back
                                            \/ j[2] = "end" /\ p[2] = currQuad + 1
  BY <1>2, SettleIs, PairIs
<1>6. (\A j \in x.jumps : \E p \in X : p[1] = j[1]) /\ \E p \in X : p[1] = currQuad
  <2>1. \A j \in x.jumps : j[2] = "start" \/ j[2] = "end"
    BY <1>3, <1>4 DEF Sits
  <2>2. \A j \in x.jumps : j[2] = "start" => \E p \in X : p[1] = j[1]
    BY <1>2, SettleIs
  <2>3. \A j \in x.jumps : j[2] = "end" => \E p \in X : p[1] = j[1]
    BY <1>2, SettleIs
  <2>4. <<currQuad, back>> \in X
    OBVIOUS
  <2>5. \E p \in X : p[1] = currQuad
    BY <2>4, PairIs
  <2>6. QED
    BY <2>1, <2>2, <2>3, <2>5
<1> HIDE DEF X
<1>7. /\ LiesIn(currQuad, m, function_name_stack, currQuad')
      /\ LiesIn(currQuad + 1, m, function_name_stack, currQuad')
  BY StaysHere DEF Growing
<1>8. LiesIn(back, m, function_name_stack, currQuad') /\ back < currQuad
  BY <1>2, <1>3 DEF Sits, Stepping, Back
<1>9. \A j \in x.jumps : /\ LiesIn(j[1], m, function_name_stack, currQuad')
                         /\ j[1] # currQuad + 1
                         /\ j[2] = "start" => j[1] # back
  <2>1. \A j \in x.jumps : /\ LiesIn(j[1], m, function_name_stack, currQuad')
                           /\ j[1] < currQuad + 1
                           /\ j[2] = "start" => back < j[1]
    BY <1>2, <1>3 DEF Sits
  <2>2. back \in Nat /\ currQuad + 1 \in Nat /\ \A j \in x.jumps : j[1] \in Nat
    BY <1>7, <1>8, <2>1 DEF LiesIn
  <2>3. \A a, b \in Nat : a < b => a # b /\ b # a
    OBVIOUS
  <2>4. QED
    BY <2>1, <2>2, <2>3
<1>10. currQuad # back
  BY <1>7, <1>8 DEF LiesIn
<1>11. Leaping(X, m, function_name_stack, currQuad')
  BY <1>5, <1>7, <1>8, <1>9, <1>10 DEF Leaping
<1>12. PICK n : n = Len(open) - 1
  OBVIOUS
<1>13. Len(open') = n /\ Agree(Frames, Frames', n)
  BY <1>12, FramesPopped
<1>14. (\A j \in Innermost.jumps : \E p \in settled' : p[1] = j[1])
       /\ \E p \in settled' : p[1] = currQuad
  BY <1>1, <1>2, <1>6
<1>15. NewJumps(m)
  BY <1>12, <1>13, <1>14, NewJumpsDue
<1>16. QED
  BY <1>1, <1>11, <1>15, PlacedEnds, SettlesMore DEF Fits

LEMMA LoopEndsFit ==
  ASSUME TypeOK, TypeOK', NEW nest, NEW m, Growing(nest, m), NEW M, Locates(M, nest),
         AllPromised, AllPromised', WhileEnd \/ ForEnd
  PROVE  Fits(m)
<1>1. CASE WhileEnd
  <2>1. /\ open # <<>> /\ Innermost.kind = "while" /\ Innermost.at = "body"
        /\ open' = Tail(open) /\ currQuad' = currQuad + 1 /\ UNCHANGED function_name_stack
        /\ settled' = settled \cup {<<currQuad, Innermost.start>>}
                  \cup Settle("start", Innermost.start) \cup Settle("end", currQuad + 1)
    BY <1>1 DEF WhileEnd, Expecting
  <2>2. Back(Innermost) = Innermost.start
    BY <2>1 DEF Back
  <2>3. QED
    BY <2>1, <2>2, LoopEndFits
<1>2. CASE ForEnd
  <2>1. /\ open # <<>> /\ Innermost.kind = "for" /\ Innermost.at = "body"
        /\ open' = Tail(open) /\ currQuad' = currQuad + 1 /\ UNCHANGED function_name_stack
        /\ settled' = settled \cup {<<currQuad, Innermost.step>>}
                  \cup Settle("start", Innermost.step) \cup Settle("end", currQuad + 1)
    BY <1>2 DEF ForEnd, Expecting
  <2>2. Back(Innermost) = Innermost.step
    BY <2>1 DEF Back
  <2>3. QED
    BY <2>1, <2>2, LoopEndFits
<1>3. QED
  BY <1>1, <1>2

LEMMA ForBodyFits ==
  ASSUME TypeOK, TypeOK', NEW nest, NEW m, Growing(nest, m), NEW M, Locates(M, nest),
         AllPromised, AllPromised', ForBody
  PROVE  Fits(m)
<1> DEFINE X == {<<currQuad, Innermost.start>>} \cup Settle("body", currQuad + 1)
<1>1. /\ open # <<>> /\ Innermost.kind = "for" /\ Innermost.at = "step"
      /\ currQuad' = currQuad + 1 /\ UNCHANGED function_name_stack
      /\ settled' = settled \cup X
  BY DEF ForBody, StepDone, Expecting, stacks
<1>2. PICK x, J : x = Innermost /\ J = {p \in Innermost.jumps : p[2] # "body"}
  OBVIOUS
<1>3. open' = GoesOn("body", x.start, x.step, J)
  BY <1>2, BodyForm
<1>4. /\ Sits(x, m, function_name_stack, currQuad')
      /\ Sits(x, m, function_name_stack, currQuad)
  BY <1>1, <1>2, InnermostSits
<1>5. PICK y : y = [kind |-> x.kind, at |-> "body", start |-> x.start, step |-> x.step,
                    jumps |-> J]
  OBVIOUS
<1>6. /\ y.kind = "for" /\ y.at = "body" /\ y.start = x.start /\ y.step = x.step
      /\ y.jumps = {p \in x.jumps : p[2] # "body"}
  BY <1>1, <1>2, <1>5
<1>7. Leading(x) = {"body", "end"} /\ Leading(y) = {"start", "end"} /\ Stepping(x)
  BY <1>1, <1>2, <1>6 DEF Leading, Stepping
<1>8. \A p \in X : \/ p[1] = currQuad /\ p[2] = x.start
                   \/ \E j \in x.jumps : p[1] = j[1] /\ p[2] = currQuad + 1
  BY <1>2, SettleIs, PairIs
<1>9. (\A j \in x.jumps : j[2] = "body" => \E p \in X : p[1] = j[1])
      /\ \E p \in X : p[1] = currQuad
  <2>1. \A j \in x.jumps : j[2] = "body" => \E p \in X : p[1] = j[1]
    BY <1>2, SettleIs
  <2>2. <<currQuad, Innermost.start>> \in X
    OBVIOUS
  <2>3. QED
    BY <2>1, <2>2, PairIs
<1> HIDE DEF X
<1>10. /\ LiesIn(currQuad, m, function_name_stack, currQuad')
       /\ LiesIn(currQuad + 1, m, function_name_stack, currQuad')
  BY <1>1, StaysHere DEF Growing
<1>11. LiesIn(x.start, m, function_name_stack, currQuad') /\ x.start # currQuad
  <2>1. /\ LiesIn(x.start, m, function_name_stack, currQuad') /\ x.start < x.step
        /\ x.step \in 0 .. currQuad
    BY <1>1, <1>2, <1>4, <1>7 DEF Sits, LiesIn
  <2>2. QED
    BY <1>10, <2>1 DEF LiesIn
<1>12. \A j \in x.jumps : /\ LiesIn(j[1], m, function_name_stack, currQuad')
                          /\ j[1] # currQuad + 1
  <2>1. \A j \in x.jumps : /\ LiesIn(j[1], m, function_name_stack, currQuad')
                           /\ j[1] \in 0 .. currQuad
    BY <1>4 DEF Sits, LiesIn
  <2>2. \A a \in 0 .. currQuad : a # currQuad + 1
    BY <1>10 DEF LiesIn
  <2>3. QED
    BY <2>1, <2>2
<1>13. Leaping(X, m, function_name_stack, currQuad')
  BY <1>8, <1>10, <1>11, <1>12 DEF Leaping
<1>14. PICK n : n = Len(open) - 1
  OBVIOUS
<1>15. Len(open') = n + 1 /\ Agree(Frames, Frames', n) /\ Frames'[n].jumps = J
  <2>1. PICK s, t : s = x.start /\ t = x.step
    OBVIOUS
  <2>2. open # <<>> /\ open' = GoesOn("body", s, t, J)
    BY <1>1, <1>3, <2>1
  <2>3. /\ Len(open') = n + 1 /\ Agree(Frames, Frames', n)
        /\ Frames'[n] = [kind |-> Innermost.kind, at |-> "body", start |-> s, step |-> t,
                         jumps |-> J]
    BY <1>14, <2>2, FramesGo
  <2>4. QED
    BY <2>3
<1>16. \A j \in Innermost.jumps : \/ Len(open') = n + 1 /\ j \in Frames'[n].jumps
                                  \/ \E p \in settled' : p[1] = j[1]
  BY <1>1, <1>2, <1>9, <1>15
<1>17. \E p \in settled' : p[1] = currQuad
  BY <1>1, <1>9
<1>18. NewJumps(m)
  BY <1>1, <1>14, <1>15, <1>16, <1>17, NewJumpsDue
<1>19. \A j \in y.jumps : j[2] = "end"
  BY <1>4, <1>6, <1>7 DEF Sits
<1>20. Back(y) = x.step /\ x.step \in 0 .. currQuad /\ currQuad \in Nat
  BY <1>4, <1>6, <1>7, <1>10 DEF Back, Sits, LiesIn
<1>21. Back(y) < currQuad' /\ "start" # "end"
  BY <1>1, <1>20
<1>22. Sits(y, m, function_name_stack, currQuad')
  BY <1>4, <1>6, <1>7, <1>19, <1>21 DEF Sits
<1>23. Placed(m)
  BY <1>1, <1>2, <1>3, <1>5, <1>22, PlacedGoes
<1>24. QED
  BY <1>1, <1>13, <1>18, <1>23, SettlesMore DEF Fits

(* break and continue promise a jump of the loop around them. *)
LEMMA BreaksFit ==
  ASSUME OpensInv, NEW nest, NEW m, Growing(nest, m), NEW M, Locates(M, nest),
         Break \/ Continue
  PROVE  Fits(m)
<1>1. /\ InBody /\ currQuad' = currQuad + 1
      /\ UNCHANGED <<quads, settled, function_name_stack>> /\ TypeOK
  BY DEF Break, Continue, OpensInv
<1>2. PICK where \in {"start", "end"} : Promised(where)
  BY DEF Break, Continue
<1>3. CASE LoopsHere = {}
  <2>1. UNCHANGED open
    BY <1>2, <1>3 DEF Promised
  <2>2. QED
    BY <1>1, <2>1, PlacedStays, SettlesSame, SameQuads DEF Fits
<1>4. CASE LoopsHere # {}
  <2>1. PICK k : k = Len(open) - ThisLoop
    OBVIOUS
  <2>2. ThisLoop \in DOMAIN open /\ LoopAt(Frames, Len(open), k)
    BY <1>1, <1>4, <2>1, LoopDepth
  <2>3. open' = Promise(ThisLoop, currQuad, where)
    BY <1>2, <1>4 DEF Promised
  <2>4. /\ Len(open') = Len(open) /\ k \in 0 .. Len(open) - 1
        /\ SameBut(Frames, Frames', Len(open), k)
        /\ Gains(Frames[k], Frames'[k], currQuad, where)
    BY <1>1, <2>1, <2>2, <2>3, PromisedForm
  <2>5. PICK n, f, g, c, d, R :
          /\ n = Len(open) /\ f = Frames /\ g = Frames' /\ c = currQuad /\ d = currQuad'
          /\ R = function_name_stack
    OBVIOUS
  <2>6. /\ n \in Nat /\ c \in Nat /\ d \in Nat /\ c < d /\ c <= d
        /\ SameUpto(nest, m, c) /\ Located(M, n, f, nest, c, R)
    BY <1>1, <2>5, LengthsGrow DEF Growing, Locates
  <2>7. k \in 0 .. n - 1 /\ SameBut(f, g, n, k) /\ Gains(f[k], g[k], c, where)
        /\ LoopAt(f, n, k)
    BY <2>2, <2>4, <2>5
  <2>8. M[k + 1] = R /\ f[k].kind \in {"while", "for"} /\ f[k].at = "body"
    BY <2>6, <2>7, LocatedAbove DEF LoopAt
  <2>9. M[k] = R /\ Sits(f[k], nest, R, c)
    BY <2>6, <2>7, <2>8 DEF Located, Stands
  <2>10. Sits(f[k], m, R, c) /\ Sits(f[k], m, R, d)
    BY <2>6, <2>9, StandsLater
  <2>11. LiesIn(c, m, R, d)
    BY <1>1, <2>5, <2>6, StaysHere
  <2>12. Sits(g[k], m, R, d)
    BY <2>6, <2>7, <2>8, <2>10, <2>11, SitsGains
  <2>13. g[k].kind # "function"
    BY <2>7, <2>8 DEF Gains
  <2>14. Stands(g[k], M[k], M[k + 1], m, d)
    BY <2>8, <2>9, <2>12, <2>13 DEF Stands
  <2>15. Located(M, n, g, m, d, R)
    BY <2>6, <2>7, <2>14, LocatedStays DEF SameBut
  <2>16. Placed(m)
    BY <1>1, <2>4, <2>5, <2>15 DEF Placed
  <2>17. QED
    BY <1>1, <2>16, SettlesSame, SameQuads DEF Fits
<1>5. QED
  BY <1>3, <1>4

-----------------------------------------------------------------------------
(* Jumps stay in their function *)

(* What is written is due, and of the function in which it stands. *)
Jumpers(nest) ==
  \A q \in DOMAIN quads : quads[q].op \in JumpOps =>
    quads[q].in = InnermostOf(nest[q]) /\ \E p \in settled : p[1] = q

PlaceInv ==
  errors = 0 =>
    \E nest, M : Nesting(nest) /\ Locates(M, nest) /\ Jumpers(nest)

LEMMA JumpersLater ==
  ASSUME TypeOK, NEW nest, NEW m, Growing(nest, m), Jumpers(nest),
         Stays(quads, quads'), NewJumps(m), settled \subseteq settled',
         \A l \in DOMAIN quads' : quads'[l].op \in JumpOps =>
           l \in DOMAIN quads \/ quads'[l].in = Function
  PROVE  Jumpers(m)'
<1>1. SUFFICES ASSUME NEW q \in DOMAIN quads', quads'[q].op \in JumpOps
               PROVE  quads'[q].in = InnermostOf(m[q]) /\ \E p \in settled' : p[1] = q
  BY DEF Jumpers, InnermostOf, Main
<1>2. CASE q \in DOMAIN quads
  <2>1. quads'[q] = quads[q] /\ q \in 0 .. currQuad
    BY <1>2, LengthsGrow DEF Stays
  <2>2. m[q] = nest[q]
    BY <2>1 DEF Growing, SameUpto
  <2>3. QED
    BY <1>1, <1>2, <2>1, <2>2 DEF Jumpers
<1>3. CASE q \notin DOMAIN quads
  <2>1. Function = InnermostOf(function_name_stack)
    BY DEF Function, InnermostOf
  <2>2. QED
    BY <1>1, <1>3, <2>1 DEF NewJumps
<1>4. QED
  BY <1>2, <1>3

LEMMA StepFits ==
  ASSUME OpensInv, TypeOK', ParseAny, errors = 0, AllPromised, AllPromised',
         NEW nest, NEW m, Growing(nest, m), NEW M, Locates(M, nest), errors' = 0
  PROVE  Fits(m)
<1>1. ~ Misread
  BY DEF Misread
<1>2. TypeOK
  BY DEF OpensInv
<1>3. QED
  BY <1>1, <1>2, EmitsFit, RelopFits, BeginsFit, FuncStartFits, FuncEndFits, IfThenFits,
     WhileBodyFits, IfElseFits, ForCondFits, ForStepFits, ForBodyFits, IfEndFits,
     LoopEndsFit, BreaksFit
  DEF ParseAny, Parse, SyntaxError, FuncHeadError, StepError

LEMMA SettledGrow == ParseAny => settled \subseteq settled'
BY DEF ParseAny, Parse, Expression, Logic, Relop, Call, Return, Expr, Emit,
   FuncStart, FuncEnd, IfBegin, IfThen, IfElse, IfEnd, WhileBegin, WhileBody, WhileEnd,
   ForBegin, ForCond, ForStep, ForBody, ForEnd, Break, Continue, SyntaxError,
   FuncHeadError, StepError, FuncHead, StepDone

LEMMA ErrorsGrow == OpensInv /\ ParseAny /\ errors' = 0 => errors = 0
<1> SUFFICES ASSUME OpensInv, ParseAny, errors' = 0 PROVE errors = 0
  OBVIOUS
<1>1. ~ Misread
  BY TypesOf DEF Misread, OpensInv
<1>2. QED
  BY <1>1 DEF ParseAny, SyntaxError, FuncHeadError, StepError, Parse, Expression, Logic, Relop, Call, Return, Expr, Emit,
     FuncStart, FuncEnd, IfBegin, IfThen, IfElse, IfEnd, WhileBegin, WhileBody, WhileEnd,
     ForBegin, ForCond, ForStep, ForBody, ForEnd, Break, Continue

LEMMA PlaceKept == JumpsInv /\ ReservedInv /\ PlaceInv /\ ParseAny => PlaceInv'
<1> SUFFICES ASSUME JumpsInv, ReservedInv, PlaceInv, ParseAny, errors' = 0
             PROVE  \E m, K : (Nesting(m) /\ Locates(K, m) /\ Jumpers(m))'
  BY DEF PlaceInv
<1>1. OpensInv /\ TypeOK /\ TypeOK' /\ errors = 0
  BY ErrorsGrow, TypeStep DEF JumpsInv, OpensInv
<1>2. AllPromised /\ AllPromised' /\ Stays(quads, quads')
  BY <1>1, PromiseKept DEF JumpsInv, PromiseInv, AllPromised
<1>3. PICK nest, M : Nesting(nest) /\ Locates(M, nest) /\ Jumpers(nest)
  BY <1>1 DEF PlaceInv
<1>4. PICK m : Nesting(m)' /\ Growing(nest, m)
  BY <1>1, <1>3, StepGrows
<1>5. Fits(m)
  BY <1>1, <1>2, <1>3, <1>4, StepFits
<1>6. PICK ops : Writes(ops) /\ ops \cap JumpOps = {}
  BY <1>1, ParserWrites DEF Ordinary, Calls, Marks, JumpOps
<1>7. \A l \in DOMAIN quads' : l \in DOMAIN quads \/ quads'[l].in = Function
  BY <1>6 DEF Writes, Added
<1>8. Jumpers(m)'
  BY <1>1, <1>2, <1>3, <1>4, <1>5, <1>7, SettledGrow, JumpersLater DEF Fits
<1>9. PICK K : Located(K, Len(open'), Frames', m, currQuad', function_name_stack')
  BY <1>5 DEF Fits, Placed
<1>10. Locates(K, m)'
  BY <1>5, <1>9 DEF Fits, Settles, Locates, Located, Leaps, Stands, Sits, LiesIn, NoJump,
     Stepping, Back, Leading
<1>11. QED
  BY <1>4, <1>8, <1>10

LEMMA InitPlaced == Init => PlaceInv
<1> SUFFICES ASSUME Init PROVE \E nest, M : Nesting(nest) /\ Locates(M, nest) /\ Jumpers(nest)
  BY DEF PlaceInv
<1>1. PICK nest : Nesting(nest)
  BY InitNested
<1>2. /\ open = <<>> /\ settled = {} /\ quads = <<>> /\ function_name_stack = <<>>
  BY DEF Init
<1> DEFINE M == [p \in {0} |-> <<>>]
<1>3. M[0] = <<>> /\ Len(open) = 0 /\ 0 .. 0 - 1 = {}
  BY <1>2
<1> HIDE DEF M
<1>4. Locates(M, nest)
  BY <1>2, <1>3 DEF Locates, Located, Leaps
<1>5. Jumpers(nest)
  BY <1>2 DEF Jumpers
<1>6. QED
  BY <1>1, <1>4, <1>5

LEMMA StutterPlaced == PlaceInv /\ UNCHANGED vars => PlaceInv'
<1> SUFFICES ASSUME PlaceInv, UNCHANGED vars, errors = 0
             PROVE  \E nest, M : (Nesting(nest) /\ Locates(M, nest) /\ Jumpers(nest))'
  BY DEF PlaceInv, vars
<1>1. PICK nest, M : Nesting(nest) /\ Locates(M, nest) /\ Jumpers(nest)
  BY DEF PlaceInv
<1>2. UNCHANGED <<open, quads, currQuad, settled, function_name_stack>>
  BY DEF vars, stacks
<1>3. Frames' = Frames
  BY <1>2 DEF Frames, Depths, At
<1>4. Locates(M, nest)' /\ Jumpers(nest)'
  BY <1>1, <1>2, <1>3 DEF Locates, Jumpers
<1>5. QED
  BY <1>1, <1>4, NestingSame

(* Where the jumps lead in a text without syntax errors. *)
JumpsIn(nest) ==
  \A q \in DOMAIN quads : quads[q].op \in JumpOps =>
    /\ quads[q].in = InnermostOf(nest[q])
    /\ quads[q].to \in 0 .. currQuad /\ quads[q].to # q
    /\ nest[quads[q].to] = nest[q]

LEMMA JumpsStay ==
  ASSUME JumpsInv, PlaceInv, errors = 0
  PROVE  \E nest : Nesting(nest) /\ JumpsIn(nest)
<1>1. PICK nest, M : Nesting(nest) /\ Locates(M, nest) /\ Jumpers(nest)
  BY DEF PlaceInv
<1>2. Led(settled, quads)
  BY DEF JumpsInv, PromiseInv
<1>3. ASSUME NEW q \in DOMAIN quads, quads[q].op \in JumpOps
      PROVE  /\ quads[q].in = InnermostOf(nest[q])
             /\ quads[q].to \in 0 .. currQuad /\ quads[q].to # q
             /\ nest[quads[q].to] = nest[q]
  <2>1. PICK p \in settled : p[1] = q
    BY <1>1, <1>3 DEF Jumpers
  <2>2. quads[q].to = p[2]
    BY <1>2, <2>1 DEF Led
  <2>3. ~NoJump(q, quads)
    BY <1>3 DEF NoJump
  <2>4. p[2] \in 0 .. currQuad /\ nest[q] = nest[p[2]] /\ q # p[2]
    BY <1>1, <2>1, <2>3 DEF Locates, Leaps
  <2>5. quads[q].in = InnermostOf(nest[q])
    BY <1>1, <1>3 DEF Jumpers
  <2>6. QED
    BY <2>2, <2>4, <2>5
<1>4. JumpsIn(nest)
  BY <1>3 DEF JumpsIn
<1>5. QED
  BY <1>1, <1>4

-----------------------------------------------------------------------------
(* The quads of a call follow each other *)

Calling(Q, q) ==
  /\ Q[q].op = "param" => q + 1 \in DOMAIN Q /\ Q[q + 1].op \in {"param", "call"}
  /\ Q[q].op = "call" => q + 1 \in DOMAIN Q /\ Q[q + 1].op = "getretval"

CallsInv == \A q \in DOMAIN quads : Calling(quads, q)

LEMMA CallingStays ==
  ASSUME Kept, NEW q \in DOMAIN quads, Calling(quads, q), q \in DOMAIN quads',
         quads'[q] = quads[q]
  PROVE  Calling(quads', q)
BY DEF Kept, Calling, JumpOps

LEMMA CallEmitted ==
  ASSUME TypeOK, NEW s, NEW k \in Nat, Len(s) = k, quads' = Emitted(s),
         \A i \in 1 .. k :
           /\ s[i].op = "param" => i < k /\ s[i + 1].op \in {"param", "call"}
           /\ s[i].op = "call" => i < k /\ s[i + 1].op = "getretval"
  PROVE  \A q \in DOMAIN quads' :
           \/ q \in DOMAIN quads /\ quads'[q] = quads[q]
           \/ Calling(quads', q)
<1>1. /\ DOMAIN quads' = DOMAIN quads \cup (currQuad .. currQuad + k - 1)
      /\ \A l \in currQuad .. currQuad + k - 1 : quads'[l] = s[l - currQuad + 1]
      /\ Stays(quads, quads')
  BY EmittedFacts
<1>2. currQuad \in Nat
  BY TypesOf
<1>3. ASSUME NEW q \in currQuad .. currQuad + k - 1
      PROVE  Calling(quads', q)
  <2>1. PICK i \in 1 .. k : i = q - currQuad + 1
    BY <1>2
  <2>2. quads'[q] = s[i]
    BY <1>1, <2>1
  <2>3. ASSUME i < k PROVE q + 1 \in DOMAIN quads' /\ quads'[q + 1] = s[i + 1]
    <3>1. PICK r : r = q + 1
      OBVIOUS
    <3>2. r \in currQuad .. currQuad + k - 1 /\ r - currQuad + 1 = i + 1
      BY <1>2, <2>1, <2>3, <3>1
    <3>3. r \in DOMAIN quads' /\ quads'[r] = s[i + 1]
      BY <1>1, <3>2
    <3>4. QED
      BY <3>1, <3>3
  <2>4. QED
    BY <2>2, <2>3 DEF Calling
<1>4. QED
  BY <1>1, <1>3 DEF Stays

LEMMA CallsKept == OpensInv /\ ReservedInv /\ CallsInv /\ ParseAny => CallsInv'
<1> SUFFICES ASSUME OpensInv, ReservedInv, CallsInv, ParseAny PROVE CallsInv'
  OBVIOUS
<1>1. TypeOK /\ TypeOK'
  BY TypeStep DEF OpensInv
<1>2. PICK ops : Writes(ops)
  BY ParserWrites
<1>3. Kept
  BY <1>2 DEF Writes
<1>4. SUFFICES \A q \in DOMAIN quads' : \/ q \in DOMAIN quads /\ quads'[q] = quads[q]
                                        \/ Calling(quads', q)
  BY <1>3, CallingStays DEF CallsInv
<1>5. CASE Writes(Ordinary) \/ Writes(Marks)
  BY <1>5 DEF Writes, Added, Ordinary, Marks, JumpOps, Calling
<1>6. CASE Call
  <2>1. CASE Emit(<<Quad("call", 0), Quad("getretval", 0)>>)
    <3> DEFINE s == <<Quad("call", 0), Quad("getretval", 0)>>
    <3>1. /\ Len(s) = 2 /\ 2 \in Nat /\ quads' = Emitted(s)
          /\ s[1].op = "call" /\ s[2].op = "getretval"
      BY <2>1 DEF Emit, Quad
    <3> HIDE DEF s
    <3>2. \A i \in 1 .. 2 : /\ s[i].op = "param" => i < 2 /\ s[i + 1].op \in {"param", "call"}
                            /\ s[i].op = "call" => i < 2 /\ s[i + 1].op = "getretval"
      <4>1. \A i \in 1 .. 2 : i = 1 \/ i = 2
        OBVIOUS
      <4>2. 1 < 2 /\ 1 + 1 = 2
        OBVIOUS
      <4>3. QED
        BY <3>1, <4>1, <4>2
    <3>3. QED
      BY <1>1, <3>1, <3>2, CallEmitted
  <2>2. CASE Emit(<<Quad("param", 0), Quad("call", 0), Quad("getretval", 0)>>)
    <3> DEFINE s == <<Quad("param", 0), Quad("call", 0), Quad("getretval", 0)>>
    <3>1. /\ Len(s) = 3 /\ 3 \in Nat /\ quads' = Emitted(s)
          /\ s[1].op = "param" /\ s[2].op = "call" /\ s[3].op = "getretval"
      BY <2>2 DEF Emit, Quad
    <3> HIDE DEF s
    <3>2. \A i \in 1 .. 3 : /\ s[i].op = "param" => i < 3 /\ s[i + 1].op \in {"param", "call"}
                            /\ s[i].op = "call" => i < 3 /\ s[i + 1].op = "getretval"
      <4>1. \A i \in 1 .. 3 : i = 1 \/ i = 2 \/ i = 3
        OBVIOUS
      <4>2. 1 < 3 /\ 1 + 1 = 2 /\ 2 < 3 /\ 2 + 1 = 3
        OBVIOUS
      <4>3. QED
        BY <3>1, <4>1, <4>2
    <3>3. QED
      BY <1>1, <3>1, <3>2, CallEmitted
  <2>3. QED
    BY <1>6, <2>1, <2>2 DEF Call, Expr
<1>7. QED
  BY <1>5, <1>6, ParserWrites

-----------------------------------------------------------------------------
(* The instructions of each quad, one after the other without a gap *)

Parts(op) ==
  CASE op = "and_or" -> <<"branch", "branch", "plain", "jump", "plain">>
    [] op = "not" -> <<"branch", "plain", "jump", "plain">>
    [] op = "ret" -> <<"plain", "jump">>
    [] op = "func_start" -> <<"jump", "funcenter">>
    [] op = "func_end" -> <<"funcexit">>
    [] OTHER -> <<op>>

LogicOps == {"and_or", "not"}

(* How far behind the first instruction the jumps of these lead. *)
Skip(op, i) == IF op = "and_or" THEN (IF i = 4 THEN 5 ELSE 4)
               ELSE (IF i = 3 THEN 4 ELSE 3)

(* x is instruction i of quad q, whose first one has address h. *)
Part(Q, q, h, i, x) ==
  /\ x.op = Parts(Q[q].op)[i]
  /\ x.in = IF Q[q].op = "func_start" /\ i = 2 THEN q ELSE Q[q].in
  /\ Q[q].op \in LogicOps /\ x.op \in JumpOps => x.to = h + Skip(Q[q].op, i)

Made(Q, F, I, q) == \A i \in 1 .. Size(Q[q].op) : Part(Q, q, F[q], i, I[F[q] + i - 1])

AllMade(Q, F, I, n) == \A q \in Upto(n) : Made(Q, F, I, q)

From(F, n, h, l) == IF l = n THEN h ELSE F[l]

Joining(Q, F, n, h) ==
  /\ From(F, n, h, 0) = 0
  /\ \A q \in Upto(n) : From(F, n, h, q + 1) = F[q] + Size(Q[q].op)

(* P differs from I in where the jumps in A lead. *)
Alike(P, I, h, A) ==
  /\ DOMAIN P = Upto(h)
  /\ \A a \in Upto(h) : /\ P[a].op = I[a].op /\ P[a].in = I[a].in
                        /\ a \notin A => P[a].to = I[a].to

(* None of them is one that leads to the same quad, or the next one. *)
Outward(Q, F, n, A) ==
  \A a \in A : \E q \in Upto(n) : \E i \in Nat :
    i < Size(Q[q].op) /\ a = F[q] + i /\ Q[q].op \notin LogicOps

LEMMA NotOutward ==
  ASSUME NEW Q, NEW F, NEW T, NEW n \in Nat, NEW h \in Nat, Laid(Q, F, T, n, h),
         NEW A, Outward(Q, F, n, A), NEW q \in Upto(n),
         NEW j \in Nat, j < Size(Q[q].op), F[q] + j \in A
  PROVE  Q[q].op \notin LogicOps
<1>1. PICK r \in Upto(n), k \in Nat :
        k < Size(Q[r].op) /\ F[q] + j = F[r] + k /\ Q[r].op \notin LogicOps
  BY DEF Outward
<1>2. q = r /\ j = k
  BY <1>1, AddressesApart, SMTT(30)
<1>3. QED
  BY <1>1, <1>2

LEMMA MadeAlike ==
  ASSUME NEW Q, NEW F, NEW T, NEW n \in Nat, NEW h \in Nat, Laid(Q, F, T, n, h),
         NEW P, NEW I, NEW A, Alike(P, I, h, A), Outward(Q, F, n, A), AllMade(Q, F, I, n)
  PROVE  AllMade(Q, F, P, n)
<1>1. SUFFICES ASSUME NEW q \in Upto(n), NEW i \in 1 .. Size(Q[q].op)
               PROVE  Part(Q, q, F[q], i, P[F[q] + i - 1])
  BY DEF AllMade, Made
<1>2. PICK j \in Nat : j = i - 1 /\ j < Size(Q[q].op)
  BY SizeFacts
<1>3. F[q] \in Nat /\ F[q] + j \in Upto(h)
  BY <1>2, AddressWithin DEF Laid
<1>4. F[q] + i - 1 = F[q] + j
  BY <1>2, <1>3, SizeFacts
<1>5. PICK a : a = F[q] + j
  OBVIOUS
<1>6. Part(Q, q, F[q], i, I[a])
  <2>1. Part(Q, q, F[q], i, I[F[q] + i - 1])
    BY <1>1 DEF AllMade, Made
  <2>2. QED
    BY <1>4, <1>5, <2>1
<1>7. Q[q].op \in LogicOps => a \notin A
  BY <1>2, <1>5, NotOutward
<1>8. /\ P[a].op = I[a].op /\ P[a].in = I[a].in
      /\ Q[q].op \in LogicOps => P[a].to = I[a].to
  BY <1>3, <1>5, <1>7 DEF Alike
<1>9. Part(Q, q, F[q], i, P[a])
  BY <1>6, <1>8 DEF Part
<1>10. QED
  BY <1>4, <1>5, <1>9

LEMMA MadeNext ==
  ASSUME NEW Q, NEW F, NEW T, NEW n \in Nat, NEW h \in Nat, Laid(Q, F, T, n, h),
         Joining(Q, F, n, h), NEW P, DOMAIN P = Upto(h), AllMade(Q, F, P, n),
         NEW k \in Nat, k = Size(Q[n].op), NEW s, NEW K, K = Block(h, k, s) @@ P,
         NEW G, G[n] = h, Extends(F, G, n),
         \A i \in 1 .. k : Part(Q, n, h, i, s[i])
  PROVE  Joining(Q, G, n + 1, h + k) /\ AllMade(Q, G, K, n + 1)
<1>1. /\ Upto(n + 1) = Upto(n) \cup {n} /\ n \notin Upto(n)
      /\ \A q \in Upto(n) : q \in Nat /\ q < n
  BY UptoNext
<1>2. /\ \A i \in 1 .. k : h + i - 1 \in Upto(h + k) /\ K[h + i - 1] = s[i]
      /\ \A a \in Upto(h) : K[a] = P[a]
  BY BlockFacts
<1>3. Made(Q, G, K, n)
  BY <1>2 DEF Made
<1>4. ASSUME NEW q \in Upto(n) PROVE Made(Q, G, K, q)
  <2>1. SUFFICES ASSUME NEW i \in 1 .. Size(Q[q].op)
                 PROVE  Part(Q, q, F[q], i, K[F[q] + i - 1])
    BY <1>4 DEF Made, Extends
  <2>2. PICK j \in Nat : j = i - 1 /\ j < Size(Q[q].op)
    BY SizeFacts
  <2>3. F[q] \in Nat /\ F[q] + j \in Upto(h)
    BY <1>4, <2>2, AddressWithin DEF Laid
  <2>4. F[q] + i - 1 = F[q] + j
    BY <2>2, <2>3, SizeFacts
  <2>5. K[F[q] + i - 1] = P[F[q] + i - 1]
    BY <1>2, <2>3, <2>4
  <2>6. Part(Q, q, F[q], i, P[F[q] + i - 1])
    BY <1>4 DEF AllMade, Made
  <2>7. QED
    BY <2>5, <2>6
<1>5. AllMade(Q, G, K, n + 1)
  BY <1>1, <1>3, <1>4 DEF AllMade
<1>6. From(G, n + 1, h + k, 0) = 0
  <2>1. CASE n = 0
    BY <2>1 DEF From, Joining
  <2>2. CASE n # 0
    <3>1. 0 \in Upto(n) /\ 0 # n + 1
      BY <2>2 DEF Upto
    <3>2. QED
      BY <2>2, <3>1 DEF From, Joining, Extends
  <2>3. QED
    BY <2>1, <2>2
<1>7. ASSUME NEW q \in Upto(n)
      PROVE  From(G, n + 1, h + k, q + 1) = G[q] + Size(Q[q].op)
  <2>1. From(F, n, h, q + 1) = F[q] + Size(Q[q].op) /\ G[q] = F[q]
    BY <1>7 DEF Joining, Extends
  <2>2. q + 1 # n + 1 /\ (q + 1 = n \/ q + 1 \in Upto(n))
    BY <1>1, <1>7 DEF Upto
  <2>3. From(G, n + 1, h + k, q + 1) = G[q + 1]
    BY <2>2 DEF From
  <2>4. CASE q + 1 = n
    BY <2>1, <2>3, <2>4 DEF From
  <2>5. CASE q + 1 # n
    BY <2>1, <2>2, <2>3, <2>5 DEF From, Extends
  <2>6. QED
    BY <2>4, <2>5
<1>8. From(G, n + 1, h + k, n + 1) = G[n] + Size(Q[n].op)
  BY DEF From
<1>9. Joining(Q, G, n + 1, h + k)
  BY <1>1, <1>6, <1>7, <1>8 DEF Joining
<1>10. QED
  BY <1>5, <1>9

Entries(Q, F, A, n) == \A f \in Starts(Q, n) : A[f] = F[f] + 1

BlockInv ==
  /\ Joining(quads, first, nextQuad, currInstruction)
  /\ AllMade(quads, first, instructions, nextQuad)
  /\ Entries(quads, first, t_address, nextQuad)


LEMMA ExtendedBy ==
  ASSUME NEW F, NEW n, n \notin DOMAIN F, NEW h, NEW G, G = (n :> h) @@ F
  PROVE  G[n] = h /\ \A q \in DOMAIN F : G[q] = F[q]
BY DEF @@, :>

LEMMA TEmitMakes ==
  ASSUME GenInv, BlockInv, nextQuad \in DOMAIN quads,
         NEW s, NEW address, NEW P, TEmit(s, address, P),
         Len(s) = Size(quads[nextQuad].op),
         NEW A, Alike(P, instructions, currInstruction, A),
         Outward(quads, first, nextQuad, A),
         \A i \in 1 .. Size(quads[nextQuad].op) :
           Part(quads, nextQuad, currInstruction, i, s[i]),
         Entries(quads, first', t_address', nextQuad + 1)
  PROVE  BlockInv'
<1>1. PICK Q, F, T, I, n, h :
        /\ Q = quads /\ F = first /\ T = taddress /\ I = instructions /\ n = nextQuad
        /\ h = currInstruction
  OBVIOUS
<1>2. n \in Nat /\ h \in Nat /\ Laid(Q, F, T, n, h)
  BY <1>1, TypesInGenerator DEF GenInv, Generator
<1>3. Joining(Q, F, n, h) /\ AllMade(Q, F, I, n)
  BY <1>1 DEF BlockInv
<1>4. DOMAIN P = Upto(h) /\ AllMade(Q, F, P, n)
  BY <1>1, <1>2, <1>3, MadeAlike DEF Alike
<1>5. PICK k \in Nat : k = Size(Q[n].op)
  BY SizeFacts
<1>6. PICK G, K : G = first' /\ K = instructions'
  OBVIOUS
<1>7. /\ UNCHANGED quads /\ nextQuad' = n + 1 /\ currInstruction' = h + k
      /\ K = Block(h, k, s) @@ P /\ G = (n :> h) @@ F
  BY <1>1, <1>5, <1>6 DEF TEmit, Block, vars
<1>8. G[n] = h /\ Extends(F, G, n)
  <2>1. DOMAIN F = Upto(n) /\ n \notin Upto(n)
    BY <1>2, UptoNext DEF Laid
  <2>2. QED
    BY <1>7, <2>1, ExtendedBy DEF Extends
<1>9. \A i \in 1 .. k : Part(Q, n, h, i, s[i])
  BY <1>1, <1>5
<1>10. Joining(Q, G, n + 1, h + k) /\ AllMade(Q, G, K, n + 1)
  BY <1>2, <1>3, <1>4, <1>5, <1>7, <1>8, <1>9, MadeNext
<1>11. Entries(quads', first', t_address', nextQuad')
  BY <1>1, <1>7
<1>12. QED
  BY <1>1, <1>6, <1>7, <1>10, <1>11 DEF BlockInv

(* No jump is patched. *)
LEMMA NothingOutward ==
  ASSUME GenInv
  PROVE  /\ Alike(instructions, instructions, currInstruction, {})
         /\ Outward(quads, first, nextQuad, {})
BY DEF GenInv, Generator, Coded, Alike, Outward

LEMMA EntriesSame ==
  ASSUME GenInv, BlockInv, quads[nextQuad].op # "func_start", UNCHANGED t_address,
         NEW G, Extends(first, G, nextQuad)
  PROVE  Entries(quads, G, t_address', nextQuad + 1)
<1>1. nextQuad \in Nat
  BY TypesInGenerator
<1>2. Starts(quads, nextQuad + 1) = Starts(quads, nextQuad)
  BY <1>1, StartsNext
<1>3. \A f \in Starts(quads, nextQuad) : f \in Upto(nextQuad)
  BY DEF Starts
<1>4. QED
  BY <1>2, <1>3 DEF BlockInv, Entries, Extends

(* s are the instructions of the next quad. *)
Renders(s, op) ==
  /\ Len(s) = Size(op)
  /\ \A i \in 1 .. Size(op) :
       /\ s[i].op = Parts(op)[i] /\ s[i].in = quads[nextQuad].in
       /\ op \in LogicOps /\ s[i].op \in JumpOps => s[i].to = currInstruction + Skip(op, i)

LEMMA OtherMakes ==
  ASSUME GenInv, BlockInv, nextQuad \in DOMAIN quads,
         NEW op, quads[nextQuad].op = op, op # "func_start",
         NEW s, Renders(s, op), NEW address, NEW P, TEmit(s, address, P),
         NEW A, Alike(P, instructions, currInstruction, A),
         Outward(quads, first, nextQuad, A), UNCHANGED t_address
  PROVE  BlockInv'
<1>1. PICK G, F, n, h : G = first' /\ F = first /\ n = nextQuad /\ h = currInstruction
  OBVIOUS
<1>2. n \in Nat /\ DOMAIN F = Upto(n) /\ n \notin Upto(n)
  <2>1. n \in Nat /\ DOMAIN F = Upto(n)
    BY <1>1, TypesInGenerator DEF GenInv, Generator, Laid
  <2>2. QED
    BY <2>1, UptoNext
<1>3. G = (n :> h) @@ F
  BY <1>1 DEF TEmit
<1>4. Extends(F, G, n)
  BY <1>2, <1>3, ExtendedBy DEF Extends
<1>5. Entries(quads, first', t_address', nextQuad + 1)
  BY <1>1, <1>4, EntriesSame
<1>6. \A i \in 1 .. Size(quads[nextQuad].op) :
        Part(quads, nextQuad, currInstruction, i, s[i])
  BY DEF Part, Renders
<1>7. Len(s) = Size(quads[nextQuad].op)
  BY DEF Renders
<1>8. QED
  BY <1>5, <1>6, <1>7, TEmitMakes

LEMMA UnpatchedMakes ==
  ASSUME GenInv, BlockInv, nextQuad \in DOMAIN quads,
         NEW op, quads[nextQuad].op = op, op # "func_start",
         NEW s, Renders(s, op), TEmit(s, currInstruction, instructions),
         UNCHANGED t_address
  PROVE  BlockInv'
<1>1. PICK P, A : /\ P = instructions /\ Alike(P, instructions, currInstruction, A)
                  /\ Outward(quads, first, nextQuad, A)
  BY NothingOutward
<1>2. PICK address : TEmit(s, address, P)
  BY <1>1
<1>3. QED
  BY <1>1, <1>2, OtherMakes

LEMMA InstrIs ==
  \A op, to : /\ Instr(op, to).op = op /\ Instr(op, to).to = to
              /\ Instr(op, to).in = quads[nextQuad].in
BY DEF Instr

LEMMA OneMakes == GenInv /\ BlockInv /\ GenerateOne => BlockInv'
<1>1. SUFFICES ASSUME GenInv, BlockInv, GenerateOne PROVE BlockInv'
  OBVIOUS
<1>2. PICK op \in {"plain", "param", "call", "getretval"} :
        /\ Generating(op) /\ TEmit(<<Instr(op, 0)>>, currInstruction, instructions)
        /\ UNCHANGED t_address
  BY <1>1 DEF GenerateOne, Here
<1>3. /\ nextQuad \in DOMAIN quads /\ quads[nextQuad].op = op
      /\ op # "func_start" /\ Size(op) = 1 /\ Parts(op) = <<op>> /\ op \notin LogicOps
  BY <1>2 DEF Generating, Size, Parts, LogicOps
<1>4. PICK s : s = <<Instr(op, 0)>> /\ TEmit(s, currInstruction, instructions)
  BY <1>2
<1>5. Renders(s, op)
  <2>1. \A i \in 1 .. 1 : i = 1
    OBVIOUS
  <2>2. QED
    BY <1>3, <1>4, <2>1, InstrIs DEF Renders
<1>6. QED
  BY <1>1, <1>2, <1>3, <1>4, <1>5, UnpatchedMakes

LEMMA JumpMakes == GenInv /\ BlockInv /\ GenerateJump => BlockInv'
<1>1. SUFFICES ASSUME GenInv, BlockInv, GenerateJump PROVE BlockInv'
  OBVIOUS
<1>2. PICK op \in JumpOps : \E to :
        /\ Generating(op) /\ TEmit(<<Instr(op, to)>>, currInstruction, instructions)
        /\ UNCHANGED t_address
  BY <1>1 DEF GenerateJump, Here
<1>3. /\ nextQuad \in DOMAIN quads /\ quads[nextQuad].op = op
      /\ op # "func_start" /\ Size(op) = 1 /\ Parts(op) = <<op>> /\ op \notin LogicOps
  BY <1>2 DEF Generating, Size, Parts, LogicOps, JumpOps
<1>4. PICK to, s : s = <<Instr(op, to)>> /\ TEmit(s, currInstruction, instructions)
  BY <1>2
<1>5. Renders(s, op)
  <2>1. \A i \in 1 .. 1 : i = 1
    OBVIOUS
  <2>2. QED
    BY <1>3, <1>4, <2>1, InstrIs DEF Renders
<1>6. QED
  BY <1>1, <1>2, <1>3, <1>4, <1>5, UnpatchedMakes

LEMMA LogicMakes == GenInv /\ BlockInv /\ GenerateLogic => BlockInv'
<1>1. SUFFICES ASSUME GenInv, BlockInv, GenerateLogic PROVE BlockInv'
  OBVIOUS
<1>2. PICK h : h = currInstruction
  OBVIOUS
<1>3. CASE Generating("and_or")
  <2>1. PICK s : s = <<Instr("branch", h + 4), Instr("branch", h + 4),
                       Instr("plain", 0), Instr("jump", h + 5), Instr("plain", 0)>>
    OBVIOUS
  <2>2. /\ nextQuad \in DOMAIN quads /\ quads[nextQuad].op = "and_or"
        /\ Size("and_or") = 5
        /\ Parts("and_or") = <<"branch", "branch", "plain", "jump", "plain">>
    BY <1>3 DEF Generating, Size, Parts
  <2>3. UNCHANGED t_address /\ TEmit(s, currInstruction, instructions)
    BY <1>1, <1>2, <1>3, <2>1, <2>2 DEF GenerateLogic, Here, Generating
  <2>4. /\ Len(s) = 5
        /\ s[1] = Instr("branch", h + 4) /\ s[2] = Instr("branch", h + 4)
        /\ s[3] = Instr("plain", 0) /\ s[4] = Instr("jump", h + 5) /\ s[5] = Instr("plain", 0)
    BY <2>1
  <2>5. \A i \in 1 .. 5 : i \in {1, 2, 3, 4, 5}
    OBVIOUS
  <2>6. \A i \in 1 .. 5 : s[i].op = Parts("and_or")[i] /\ s[i].in = quads[nextQuad].in
    BY <2>2, <2>4, <2>5, InstrIs
  <2>7. \A i \in 1 .. 5 : s[i].op \in JumpOps => s[i].to = h + Skip("and_or", i)
    BY <2>4, <2>5, InstrIs DEF JumpOps, Skip
  <2>8. Renders(s, "and_or")
    BY <1>2, <2>2, <2>4, <2>6, <2>7 DEF Renders
  <2>9. QED
    BY <1>1, <2>2, <2>3, <2>8, UnpatchedMakes
<1>4. CASE Generating("not")
  <2>1. PICK s : s = <<Instr("branch", h + 3), Instr("plain", 0),
                       Instr("jump", h + 4), Instr("plain", 0)>>
    OBVIOUS
  <2>2. /\ nextQuad \in DOMAIN quads /\ quads[nextQuad].op = "not"
        /\ Size("not") = 4
        /\ Parts("not") = <<"branch", "plain", "jump", "plain">>
    BY <1>4 DEF Generating, Size, Parts
  <2>3. UNCHANGED t_address /\ TEmit(s, currInstruction, instructions)
    BY <1>1, <1>2, <1>4, <2>1, <2>2 DEF GenerateLogic, Here, Generating
  <2>4. /\ Len(s) = 4
        /\ s[1] = Instr("branch", h + 3) /\ s[2] = Instr("plain", 0)
        /\ s[3] = Instr("jump", h + 4) /\ s[4] = Instr("plain", 0)
    BY <2>1
  <2>5. \A i \in 1 .. 4 : i \in {1, 2, 3, 4}
    OBVIOUS
  <2>6. \A i \in 1 .. 4 : s[i].op = Parts("not")[i] /\ s[i].in = quads[nextQuad].in
    BY <2>2, <2>4, <2>5, InstrIs
  <2>7. \A i \in 1 .. 4 : s[i].op \in JumpOps => s[i].to = h + Skip("not", i)
    BY <2>4, <2>5, InstrIs DEF JumpOps, Skip
  <2>8. Renders(s, "not")
    BY <1>2, <2>2, <2>4, <2>6, <2>7 DEF Renders
  <2>9. QED
    BY <1>1, <2>2, <2>3, <2>8, UnpatchedMakes
<1>5. QED
  BY <1>1, <1>3, <1>4 DEF GenerateLogic

LEMMA ReturnMakes == GenInv /\ BlockInv /\ GenerateReturn => BlockInv'
<1>1. SUFFICES ASSUME GenInv, BlockInv, GenerateReturn PROVE BlockInv'
  OBVIOUS
<1>2. PICK s : s = <<Instr("plain", 0), Instr("jump", 0)>>
  OBVIOUS
<1>3. /\ Generating("ret") /\ TEmit(s, currInstruction, instructions)
      /\ UNCHANGED t_address
  BY <1>1, <1>2 DEF GenerateReturn, Here
<1>4. /\ nextQuad \in DOMAIN quads /\ quads[nextQuad].op = "ret" /\ "ret" # "func_start"
      /\ Size("ret") = 2 /\ Parts("ret") = <<"plain", "jump">> /\ "ret" \notin LogicOps
  BY <1>3 DEF Generating, Size, Parts, LogicOps
<1>5. Renders(s, "ret")
  <2>1. \A i \in 1 .. 2 : i = 1 \/ i = 2
    OBVIOUS
  <2>2. s[1] = Instr("plain", 0) /\ s[2] = Instr("jump", 0) /\ Len(s) = 2
    BY <1>2
  <2>3. QED
    BY <1>4, <2>1, <2>2, InstrIs DEF Renders
<1>6. QED
  BY <1>1, <1>3, <1>4, <1>5, UnpatchedMakes

LEMMA FuncStartMakes == GenInv /\ BlockInv /\ GenerateFuncStart => BlockInv'
<1>1. SUFFICES ASSUME GenInv, BlockInv, GenerateFuncStart PROVE BlockInv'
  OBVIOUS
<1>2. PICK h, n \in Nat : h = currInstruction /\ n = nextQuad
  BY <1>1, TypesInGenerator
<1>3. PICK x : x = [Instr("funcenter", 0) EXCEPT !.in = n]
  OBVIOUS
<1>4. x.op = "funcenter" /\ x.in = n
  BY <1>3 DEF Instr
<1>5. PICK s : s = <<Instr("jump", 0), x>>
  OBVIOUS
<1>6. /\ nextQuad \in DOMAIN quads /\ quads[nextQuad].op = "func_start"
      /\ TEmit(s, h + 1, instructions)
      /\ t_address' = (n :> h + 1) @@ t_address
  BY <1>1, <1>2, <1>3, <1>5 DEF GenerateFuncStart, Generating, Here
<1>7. /\ Size("func_start") = 2 /\ Parts("func_start") = <<"jump", "funcenter">>
      /\ "func_start" \notin LogicOps
  BY DEF Size, Parts, LogicOps
<1>8. /\ Len(s) = 2
      /\ \A i \in 1 .. Size(quads[nextQuad].op) :
           Part(quads, nextQuad, currInstruction, i, s[i])
  <2>1. \A i \in 1 .. 2 : i = 1 \/ i = 2
    OBVIOUS
  <2>2. s[1] = Instr("jump", 0) /\ s[2] = x /\ Len(s) = 2
    BY <1>5
  <2>3. Part(quads, n, h, 1, s[1]) /\ Part(quads, n, h, 2, s[2])
    BY <1>2, <1>4, <1>6, <1>7, <2>2, InstrIs DEF Part
  <2>4. QED
    BY <1>2, <1>6, <1>7, <2>1, <2>2, <2>3
<1>9. PICK G, F, A, B : G = first' /\ F = first /\ A = t_address /\ B = t_address'
  OBVIOUS
<1>10. /\ n \notin Upto(n) /\ DOMAIN F = Upto(n) /\ DOMAIN A = Starts(quads, n)
       /\ \A f \in Starts(quads, n) : f \in Upto(n)
  <2>1. DOMAIN F = Upto(n) /\ DOMAIN A = Starts(quads, n)
    BY <1>1, <1>2, <1>9 DEF GenInv, Generator, Laid
  <2>2. QED
    BY <2>1, UptoNext DEF Starts
<1>11. G[n] = h /\ \A q \in Upto(n) : G[q] = F[q]
  <2>1. G = (n :> h) @@ F
    BY <1>2, <1>6, <1>9 DEF TEmit
  <2>2. QED
    BY <1>10, <2>1, ExtendedBy
<1>12. B[n] = h + 1 /\ \A f \in Starts(quads, n) : B[f] = A[f]
  <2>1. B = (n :> h + 1) @@ A /\ n \notin DOMAIN A
    BY <1>6, <1>9, <1>10
  <2>2. PICK k : k = h + 1
    OBVIOUS
  <2>3. B = (n :> k) @@ A
    BY <2>1, <2>2
  <2>4. QED
    BY <1>10, <2>1, <2>2, <2>3, ExtendedBy
<1>13. Entries(quads, G, B, n + 1)
  <2>1. Starts(quads, n + 1) = Starts(quads, n) \cup {n}
    BY <1>2, <1>6, StartsNext
  <2>2. \A f \in Starts(quads, n) : A[f] = F[f] + 1
    BY <1>1, <1>2, <1>9 DEF BlockInv, Entries
  <2>3. QED
    BY <1>10, <1>11, <1>12, <2>1, <2>2 DEF Entries
<1>14. Len(s) = Size(quads[nextQuad].op)
  BY <1>6, <1>7, <1>8
<1>15. Entries(quads, first', t_address', nextQuad + 1)
  BY <1>2, <1>9, <1>13
<1>16. QED
  BY <1>1, <1>6, <1>8, <1>14, <1>15, NothingOutward, TEmitMakes

(* The list of the function that ends. *)
LEMMA ListOfJumps ==
  ASSUME GenInv, nextQuad \in DOMAIN quads, quads[nextQuad].op = "func_end"
  PROVE  /\ Head(func_stack) \in Starts(quads, nextQuad)
         /\ returnList[Head(func_stack)]
              = Jumps(quads, first, nextQuad, Head(func_stack))
<1>1. PICK nest : Nesting(nest) /\ func_stack = nest[nextQuad]
  BY DEF GenInv, StackInv
<1>2. func_stack # <<>>
  BY <1>1, NestStep DEF Nested
<1>3. Closing(quads, first, instructions, func_stack, returnList, nextQuad)
  BY DEF GenInv, Generator
<1>4. PICK A : A = Starts(quads, nextQuad)
  OBVIOUS
<1>5. func_stack \in Seq(A)
  BY <1>3, <1>4 DEF Closing
<1>6. Head(func_stack) \in A
  BY <1>2, <1>5
<1>7. QED
  BY <1>3, <1>4, <1>6 DEF Closing, Jumps

LEMMA JumpsOutward ==
  ASSUME NEW Q, NEW F, NEW n, NEW f \in Starts(Q, n), \A q \in Upto(n) : F[q] \in Nat
  PROVE  Outward(Q, F, n, Jumps(Q, F, n, f))
<1>1. SUFFICES ASSUME NEW a \in Jumps(Q, F, n, f)
               PROVE  \E q \in Upto(n) : \E i \in Nat :
                        i < Size(Q[q].op) /\ a = F[q] + i /\ Q[q].op \notin LogicOps
  BY DEF Outward
<1>2. CASE a = F[f]
  <2>1. f \in Upto(n) /\ Q[f].op = "func_start"
    BY DEF Starts
  <2>2. 0 \in Nat /\ 0 < Size(Q[f].op) /\ a = F[f] + 0 /\ Q[f].op \notin LogicOps
    BY <1>2, <2>1, SizeFacts DEF LogicOps
  <2>3. QED
    BY <2>1, <2>2
<1>3. CASE \E q \in ReturnsOf(Q, n, f) : a = F[q] + 1
  <2>1. PICK q \in ReturnsOf(Q, n, f) : a = F[q] + 1
    BY <1>3
  <2>2. q \in Upto(n) /\ 1 \in Nat /\ 1 < Size(Q[q].op) /\ Q[q].op \notin LogicOps
    BY DEF ReturnsOf, Size, LogicOps
  <2>3. QED
    BY <2>1, <2>2
<1>4. QED
  BY <1>1, <1>2, <1>3 DEF Jumps

(* Instructions in which only the targets of some have been replaced. *)
LEMMA TargetsAlike ==
  ASSUME NEW I, NEW h, DOMAIN I = Upto(h), \A a \in Upto(h) : I[a] \in Instrs,
         NEW A, A \subseteq Upto(h), NEW to, NEW P,
         P = [a \in A |-> [I[a] EXCEPT !.to = to[a]]] @@ I
  PROVE  Alike(P, I, h, A)
<1>1. PICK M : M = [a \in A |-> [I[a] EXCEPT !.to = to[a]]]
  OBVIOUS
<1>2. DOMAIN M = A /\ \A a \in A : M[a].op = I[a].op /\ M[a].in = I[a].in
  BY <1>1 DEF Instrs
<1>3. P = M @@ I
  BY <1>1
<1>4. /\ DOMAIN P = A \cup DOMAIN I
      /\ \A a \in A : P[a] = M[a]
      /\ \A a \in DOMAIN I : a \notin A => P[a] = I[a]
  BY <1>2, <1>3 DEF @@
<1>5. QED
  BY <1>2, <1>4 DEF Alike

LEMMA FuncEndMakes == GenInv /\ BlockInv /\ GenerateFuncEnd => BlockInv'
<1>1. SUFFICES ASSUME GenInv, BlockInv, GenerateFuncEnd PROVE BlockInv'
  OBVIOUS
<1>2. PICK h, n \in Nat : h = currInstruction /\ n = nextQuad
  BY <1>1, TypesInGenerator
<1>3. PICK f : f = Head(func_stack)
  OBVIOUS
<1>4. PICK s, P : s = <<Instr("funcexit", 0)>> /\ P = PatchedToExit(returnList[f])
  OBVIOUS
<1>5. /\ nextQuad \in DOMAIN quads /\ quads[nextQuad].op = "func_end"
      /\ TEmit(s, h, P) /\ UNCHANGED t_address
  BY <1>1, <1>2, <1>3, <1>4 DEF GenerateFuncEnd, Generating, Here
<1>6. PICK L : L = returnList[f] /\ L = Jumps(quads, first, n, f) /\ f \in Starts(quads, n)
  BY <1>1, <1>2, <1>3, <1>5, ListOfJumps
<1>7. Laid(quads, first, taddress, n, h) /\ Coded(quads, first, instructions, n, h)
  BY <1>1, <1>2 DEF GenInv, Generator
<1>8. L \subseteq Upto(h)
  <2>1. f \in Upto(n)
    BY <1>6 DEF Starts
  <2>2. QED
    BY <1>1, <1>2, <1>6, <2>1, JumpAddresses DEF Jumps
<1>9. Alike(P, instructions, h, L)
  <2>1. PICK to : to = [a \in L |-> IF a < h - 1 /\ instructions[a + 1].op = "funcenter"
                                   THEN h + 1 ELSE h]
    OBVIOUS
  <2>2. P = [a \in L |-> [instructions[a] EXCEPT !.to = to[a]]] @@ instructions
    BY <1>2, <1>4, <1>6, <2>1 DEF PatchedToExit, Here
  <2>3. DOMAIN instructions = Upto(h) /\ \A a \in Upto(h) : instructions[a] \in Instrs
    BY <1>7 DEF Coded
  <2>4. QED
    BY <1>8, <2>2, <2>3, TargetsAlike
<1>10. Outward(quads, first, n, L)
  BY <1>6, <1>7, JumpsOutward DEF Laid
<1>11. Renders(s, "func_end")
  <2>1. /\ Size("func_end") = 1 /\ Parts("func_end") = <<"funcexit">>
        /\ "func_end" \notin LogicOps
    BY DEF Size, Parts, LogicOps
  <2>2. Len(s) = 1 /\ s[1] = Instr("funcexit", 0) /\ \A i \in 1 .. 1 : i = 1
    BY <1>4
  <2>3. QED
    BY <2>1, <2>2, InstrIs DEF Renders
<1>12. Alike(P, instructions, currInstruction, L) /\ Outward(quads, first, nextQuad, L)
  BY <1>2, <1>9, <1>10
<1>13. "func_end" # "func_start"
  OBVIOUS
<1>14. QED
  BY <1>1, <1>5, <1>11, <1>12, <1>13, OtherMakes

LEMMA PatchMakes == GenInv /\ BlockInv /\ PatchIncompleteJumps => BlockInv'
<1>1. SUFFICES ASSUME GenInv, BlockInv, PatchIncompleteJumps PROVE BlockInv'
  OBVIOUS
<1>2. PICK n, h \in Nat : n = nextQuad /\ h = currInstruction
  BY <1>1, TypesInGenerator
<1>3. PICK T, J, I, Q, F : T = taddress /\ J = ij_head /\ I = instructions /\ Q = quads /\ F = first
  OBVIOUS
<1>4. /\ currQuad = n /\ UNCHANGED quads
      /\ UNCHANGED <<nextQuad, currInstruction, t_address, first>>
  BY <1>1, <1>2 DEF PatchIncompleteJumps, vars
<1>5. Completed(instructions', I, J, T, n, h)
  BY <1>1, <1>2, <1>3, <1>4 DEF PatchIncompleteJumps, Completed, Target, HeadAt
<1>6. /\ Laid(Q, F, T, n, h) /\ Coded(Q, F, I, n, h) /\ Heads(Q, F, J, n)
  BY <1>1, <1>2, <1>3 DEF GenInv, Generator
<1>7. PICK A : A = {j[1] : j \in J}
  OBVIOUS
<1>8. \A a \in A : \E q \in Upto(n) : Q[q].op \in JumpOps /\ a = F[q]
  <2>1. SUFFICES ASSUME NEW j \in J PROVE \E q \in Upto(n) : Q[q].op \in JumpOps /\ j[1] = F[q]
    BY <1>7
  <2>2. PICK q \in Upto(n) : Q[q].op \in JumpOps /\ j = <<F[q], Q[q].to>>
    BY <1>6 DEF Heads
  <2>3. QED
    BY <2>2
<1>9. A \subseteq Upto(h)
  <2>1. \A q \in Upto(n) : F[q] \in Upto(h)
    BY <1>1, <1>2, <1>3, JumpAddresses
  <2>2. QED
    BY <1>8, <2>1
<1>10. PICK K : K = instructions'
  OBVIOUS
<1>11. Alike(K, I, h, A)
  <2>1. PICK to : to = [a \in A |-> Target(T, n, h, HeadAt(J, a)[2])]
    OBVIOUS
  <2>2. K = [a \in A |-> [I[a] EXCEPT !.to = to[a]]] @@ I
    BY <1>5, <1>7, <1>10, <2>1 DEF Completed
  <2>3. DOMAIN I = Upto(h) /\ \A a \in Upto(h) : I[a] \in Instrs
    BY <1>6 DEF Coded
  <2>4. QED
    BY <1>9, <2>2, <2>3, TargetsAlike
<1>12. Outward(Q, F, n, A)
  <2>1. SUFFICES ASSUME NEW a \in A
                 PROVE  \E q \in Upto(n) : \E i \in Nat :
                          i < Size(Q[q].op) /\ a = F[q] + i /\ Q[q].op \notin LogicOps
    BY DEF Outward
  <2>2. PICK q \in Upto(n) : Q[q].op \in JumpOps /\ a = F[q]
    BY <1>8
  <2>3. 0 \in Nat /\ 0 < Size(Q[q].op) /\ a = F[q] + 0 /\ Q[q].op \notin LogicOps
    BY <1>6, <2>2, SizeFacts DEF LogicOps, JumpOps, Laid
  <2>4. QED
    BY <2>3
<1>13. AllMade(Q, F, K, n)
  BY <1>1, <1>2, <1>3, <1>6, <1>11, <1>12, MadeAlike DEF BlockInv
<1>14. QED
  BY <1>1, <1>2, <1>3, <1>4, <1>10, <1>13 DEF BlockInv

LEMMA BlocksSame ==
  BlockInv /\ UNCHANGED <<quads, nextQuad, instructions, currInstruction, t_address, first>>
    => BlockInv'
BY DEF BlockInv

LEMMA ParsingMakes == GenInv /\ BlockInv /\ Parsing => BlockInv'
<1>1. SUFFICES ASSUME GenInv, BlockInv, Parsing PROVE BlockInv'
  OBVIOUS
<1>2. /\ nextQuad = 0
      /\ UNCHANGED <<nextQuad, instructions, currInstruction, t_address, first>>
  BY <1>1 DEF Parsing, GenInv, PhaseInv, gvars
<1>3. Upto(0) = {}
  BY DEF Upto
<1>4. QED
  BY <1>1, <1>2, <1>3 DEF BlockInv, Joining, AllMade, Entries, Starts

LEMMA InitMade == TInit => BlockInv
<1>1. Upto(0) = {}
  BY DEF Upto
<1>2. QED
  BY <1>1 DEF TInit, BlockInv, Joining, From, AllMade, Entries, Starts

LEMMA BlockInvariant == TSpec => []BlockInv
<1>1. GenInv /\ BlockInv /\ [TNext]_tvars => BlockInv'
  <2>1. /\ BlockInv /\ (ParserCrash \/ StartGenerating \/ TextBreaksOff) => BlockInv'
        /\ BlockInv /\ (Crash \/ Ended \/ UNCHANGED tvars) => BlockInv'
    BY BlocksSame
    DEF ParserCrash, StartGenerating, TextBreaksOff, Crash, Ended, tvars, gvars, vars
  <2>2. QED
    BY <2>1, ParsingMakes, OneMakes, LogicMakes, JumpMakes, FuncStartMakes, FuncEndMakes,
       ReturnMakes, PatchMakes
    DEF TNext
<1>2. QED
  BY <1>1, InitMade, GenInvariant, PTL DEF TSpec

-----------------------------------------------------------------------------
(* The finished code *)

(* N[l] are the functions around quad l. *)
NestOf(Q, N, n) ==
  /\ N[0] = <<>> /\ N[n] = <<>>
  /\ \A l \in Upto(n) :
       /\ N[l] \in Seq(Nat)
       /\ Q[l].op = "func_start" => N[l + 1] = Push(N[l], l)
       /\ Q[l].op = "func_end" =>
            N[l] # <<>> /\ Q[l].to = Head(N[l]) /\ N[l + 1] = Tail(N[l])
       /\ Q[l].op \notin Marks => N[l + 1] = N[l]
       /\ Q[l].in = InnermostOf(N[l])

LEMMA PushedIs ==
  ASSUME NEW s, s \in Seq(Nat), NEW k \in Nat, NEW t, t = Push(s, k)
  PROVE  t # <<>> /\ Head(t) = k /\ Tail(t) = s
<1>1. ASSUME NEW S, NEW r \in Seq(S), NEW x \in S
      PROVE  Push(r, x) # <<>> /\ Head(Push(r, x)) = x /\ Tail(Push(r, x)) = r
  BY DEF Push
<1>2. QED
  BY <1>1

(* The functions around the innermost one are those around its beginning. *)
Link(Q, N, l) == N[l] # <<>> => Head(N[l]) \in Starts(Q, l) /\ N[Head(N[l])] = Tail(N[l])

LEMMA Links ==
  ASSUME NEW Q, NEW N, NEW n \in Nat, NestOf(Q, N, n)
  PROVE  \A l \in 0 .. n : Link(Q, N, l)
<1>1. SUFFICES ASSUME NEW z \in 0 .. n, ~Link(Q, N, z) PROVE FALSE
  OBVIOUS
<1>2. PICK B : B = {l \in 0 .. n : ~Link(Q, N, l)}
  OBVIOUS
<1>3. B # {} /\ B \subseteq Nat
  BY <1>1, <1>2
<1>4. PICK l \in B : \A k \in B : l <= k
  BY <1>3, LeastNumber
<1>5. l \in 0 .. n /\ ~Link(Q, N, l) /\ \A k \in 0 .. n : k < l => Link(Q, N, k)
  BY <1>2, <1>4
<1>6. l # 0
  BY <1>5 DEF Link, NestOf
<1>7. PICK k \in Upto(n) : l = k + 1 /\ k \in Nat /\ k < l
  <2>1. l - 1 \in Upto(n) /\ l = (l - 1) + 1 /\ l - 1 \in Nat /\ l - 1 < l
    BY <1>5, <1>6 DEF Upto
  <2>2. QED
    BY <2>1
<1>8. Link(Q, N, k) /\ \A f \in Upto(k) : Link(Q, N, f)
  BY <1>5, <1>7 DEF Upto
<1>9. \A f \in Starts(Q, k) : f \in Upto(k) /\ f \in Starts(Q, l)
  BY <1>7, UptoNext DEF Starts
<1>10. CASE Q[k].op = "func_start"
  <2>1. N[l] = Push(N[k], k) /\ N[k] \in Seq(Nat)
    BY <1>7, <1>10 DEF NestOf
  <2>2. Head(N[l]) = k /\ Tail(N[l]) = N[k]
    BY <1>7, <2>1, PushedIs
  <2>3. k \in Starts(Q, l)
    BY <1>7, <1>10, UptoNext DEF Starts
  <2>4. QED
    BY <1>5, <2>2, <2>3 DEF Link
<1>11. CASE Q[k].op = "func_end"
  <2>1. N[l] = Tail(N[k]) /\ N[k] # <<>>
    BY <1>7, <1>11 DEF NestOf
  <2>2. PICK f \in Starts(Q, k) : f = Head(N[k]) /\ N[f] = Tail(N[k])
    BY <1>8, <2>1 DEF Link
  <2>3. Link(Q, N, f) /\ N[l] = N[f] /\ f \in Nat /\ f < l
    BY <1>7, <1>8, <1>9, <2>1, <2>2 DEF Upto
  <2>4. Starts(Q, f) \subseteq Starts(Q, l)
    BY <1>5, <2>3, UptoWithin DEF Starts
  <2>5. QED
    BY <1>5, <2>3, <2>4 DEF Link
<1>12. CASE Q[k].op \notin Marks
  <2>1. N[l] = N[k]
    BY <1>7, <1>12 DEF NestOf
  <2>2. QED
    BY <1>5, <1>8, <1>9, <2>1 DEF Link
<1>13. QED
  BY <1>10, <1>11, <1>12 DEF Marks

(* Every instruction is one of some quad. *)
LEMMA EveryAddress ==
  ASSUME NEW Q, NEW F, NEW T, NEW n \in Nat, NEW h \in Nat, Laid(Q, F, T, n, h),
         Joining(Q, F, n, h), NEW a \in Upto(h)
  PROVE  \E q \in Upto(n) : \E i \in 1 .. Size(Q[q].op) : a = F[q] + i - 1
<1>1. a \in Nat /\ a < h
  BY UptoNext
<1>2. \A l \in 0 .. n : From(F, n, h, l) \in Nat
  <2>1. \A l \in 0 .. n : l = n \/ l \in Upto(n)
    BY DEF Upto
  <2>2. QED
    BY <2>1 DEF From, Laid
<1>3. PICK B : B = {l \in 0 .. n : From(F, n, h, l) > a}
  OBVIOUS
<1>4. B # {} /\ B \subseteq Nat
  <2>1. n \in 0 .. n /\ From(F, n, h, n) = h
    BY DEF From
  <2>2. n \in B
    BY <1>1, <1>3, <2>1
  <2>3. QED
    BY <1>3, <2>2
<1>5. PICK l \in B : \A k \in B : l <= k
  BY <1>4, LeastNumber
<1>6. l # 0
  BY <1>1, <1>3, <1>5 DEF Joining
<1>7. PICK q \in Upto(n) : l = q + 1 /\ q \in 0 .. n /\ q < l /\ q # n
  <2>1. l - 1 \in Upto(n) /\ l = (l - 1) + 1 /\ l - 1 \in 0 .. n /\ l - 1 < l /\ l - 1 # n
    BY <1>3, <1>5, <1>6 DEF Upto
  <2>2. QED
    BY <2>1
<1>8. F[q] \in Nat /\ F[q] <= a
  <2>1. From(F, n, h, q) = F[q] /\ F[q] \in Nat
    BY <1>2, <1>7 DEF From
  <2>2. ~(l <= q)
    BY <1>7
  <2>3. QED
    BY <1>1, <1>3, <1>5, <1>7, <2>1, <2>2
<1>9. a < F[q] + Size(Q[q].op)
  <2>1. From(F, n, h, q + 1) = F[q] + Size(Q[q].op)
    BY DEF Joining
  <2>2. From(F, n, h, l) > a
    BY <1>3, <1>5
  <2>3. QED
    BY <1>7, <2>1, <2>2
<1>10. PICK i : i = a - F[q] + 1
  OBVIOUS
<1>11. PICK k \in Nat : k = Size(Q[q].op)
  BY SizeFacts
<1>12. i \in 1 .. k /\ a = F[q] + i - 1
  BY <1>1, <1>8, <1>9, <1>10, <1>11
<1>13. QED
  BY <1>11, <1>12

(* What the instructions of a quad are. *)
LEMMA PartsAre ==
  ASSUME NEW op, NEW i \in 1 .. Size(op), NEW p, p = Parts(op)[i]
  PROVE  /\ op \in {"param", "call", "getretval"} \cup JumpOps =>
              Size(op) = 1 /\ i = 1 /\ p = op
         /\ op \in LogicOps => p \in JumpOps \cup {"plain"}
         /\ op = "ret" => Size(op) = 2 /\ i \in 1 .. 2
                            /\ p = IF i = 1 THEN "plain" ELSE "jump"
         /\ op = "func_start" => Size(op) = 2 /\ i \in 1 .. 2
                                   /\ p = IF i = 1 THEN "jump" ELSE "funcenter"
         /\ op = "func_end" => Size(op) = 1 /\ i = 1 /\ p = "funcexit"
         /\ op \notin LogicOps \cup {"ret", "func_start", "func_end"} =>
              Size(op) = 1 /\ i = 1 /\ p = op
<1>1. CASE op = "and_or"
  <2>1. Size(op) = 5 /\ Parts(op) = <<"branch", "branch", "plain", "jump", "plain">>
    BY <1>1 DEF Size, Parts
  <2>2. i \in {1, 2, 3, 4, 5}
    BY <2>1
  <2>3. p \in JumpOps \cup {"plain"}
    BY <2>1, <2>2 DEF JumpOps
  <2>4. QED
    BY <1>1, <2>3 DEF LogicOps, JumpOps
<1>2. CASE op = "not"
  <2>1. Size(op) = 4 /\ Parts(op) = <<"branch", "plain", "jump", "plain">>
    BY <1>2 DEF Size, Parts
  <2>2. i \in {1, 2, 3, 4}
    BY <2>1
  <2>3. p \in JumpOps \cup {"plain"}
    BY <2>1, <2>2 DEF JumpOps
  <2>4. QED
    BY <1>2, <2>3 DEF LogicOps, JumpOps
<1>3. CASE op = "ret"
  <2>1. Size(op) = 2 /\ Parts(op) = <<"plain", "jump">>
    BY <1>3 DEF Size, Parts
  <2>2. i = 1 \/ i = 2
    BY <2>1
  <2>3. QED
    BY <1>3, <2>1, <2>2 DEF LogicOps, JumpOps
<1>4. CASE op = "func_start"
  <2>1. Size(op) = 2 /\ Parts(op) = <<"jump", "funcenter">>
    BY <1>4 DEF Size, Parts
  <2>2. i = 1 \/ i = 2
    BY <2>1
  <2>3. QED
    BY <1>4, <2>1, <2>2 DEF LogicOps, JumpOps
<1>5. CASE op = "func_end"
  <2>1. Size(op) = 1 /\ Parts(op) = <<"funcexit">>
    BY <1>5 DEF Size, Parts
  <2>2. i = 1
    BY <2>1
  <2>3. QED
    BY <1>5, <2>1, <2>2 DEF LogicOps, JumpOps
<1>6. CASE op \notin LogicOps \cup {"ret", "func_start", "func_end"}
  <2>1. Size(op) = 1 /\ Parts(op) = <<op>>
    BY <1>6 DEF Size, Parts, LogicOps
  <2>2. i = 1
    BY <2>1
  <2>3. p = op
    BY <2>1, <2>2
  <2>4. QED
    BY <1>6, <2>1, <2>2, <2>3
<1>7. QED
  BY <1>1, <1>2, <1>3, <1>4, <1>5, <1>6 DEF LogicOps

(* Where the jumps of the quads lead, when all have been patched. *)
LeadsOn(Q, F, I, N, n, h) ==
  /\ \A q \in Upto(n) : Q[q].op \in JumpOps =>
       \E l \in 0 .. n : l # q /\ N[l] = N[q] /\ I[F[q]].to = From(F, n, h, l)
  /\ \A f \in Starts(Q, n) : \E e \in Upto(n) : ClosedBy(Q, F, I, n, f, e)
  /\ \A q \in Upto(n) : Q[q].op = "ret" => Q[q].in \in Starts(Q, n)

(* The generator's results, for a text without syntax errors. *)
Finished(Q, F, T, I, A, N, n, h) ==
  /\ DOMAIN Q = Upto(n) /\ \A q \in Upto(n) : Q[q].op \in Ops
  /\ Laid(Q, F, T, n, h) /\ Coded(Q, F, I, n, h)
  /\ Joining(Q, F, n, h) /\ AllMade(Q, F, I, n)
  /\ DOMAIN A = Starts(Q, n) /\ Entries(Q, F, A, n)
  /\ NestOf(Q, N, n) /\ LeadsOn(Q, F, I, N, n, h)
  /\ \A q \in Upto(n) : Calling(Q, q)

(* The entry of a function, as the machine knows it. *)
EntryIn(A, h, f) == IF f = Main THEN h ELSE A[f]

(* As StaysIn: address a belongs to the function with entry o. *)
Remains(I, A, h, o, a) ==
  IF a = h THEN o = h
  ELSE a \in Upto(h) /\ I[a].op # "funcenter" /\ EntryIn(A, h, I[a].in) = o

(* Address a is that of instruction i of quad q. *)
InstrOf(Q, F, q, i, a) == i \in 1 .. Size(Q[q].op) /\ a = F[q] + i - 1

LEMMA OneOfQuad ==
  ASSUME NEW Q, NEW F, NEW T, NEW I, NEW A, NEW N, NEW n \in Nat, NEW h \in Nat,
         Finished(Q, F, T, I, A, N, n, h), NEW q \in Upto(n),
         NEW i, NEW a, InstrOf(Q, F, q, i, a)
  PROVE  /\ a \in Upto(h) /\ Part(Q, q, F[q], i, I[a])
         /\ F[q] \in Nat /\ i \in 1 .. Size(Q[q].op) /\ a = F[q] + i - 1
<1>1. PICK k \in Nat : k = Size(Q[q].op)
  BY SizeFacts
<1>2. i \in 1 .. k /\ a = F[q] + i - 1
  BY <1>1 DEF InstrOf
<1>3. Laid(Q, F, T, n, h) /\ F[q] \in Nat
  BY DEF Finished, Laid
<1>4. PICK j \in Nat : j = i - 1
  BY <1>2
<1>5. a = F[q] + j /\ j < Size(Q[q].op)
  BY <1>1, <1>2, <1>3, <1>4
<1>6. a \in Upto(h)
  <2>1. F[q] + j \in Upto(h)
    BY <1>3, <1>4, <1>5, AddressWithin
  <2>2. QED
    BY <1>5, <2>1
<1>7. Part(Q, q, F[q], i, I[a])
  BY <1>1, <1>2 DEF Finished, AllMade, Made
<1>8. QED
  BY <1>1, <1>2, <1>3, <1>6, <1>7

(* The quads around which nothing ends or begins. *)
LEMMA InnermostGoesOn ==
  ASSUME NEW Q, NEW N, NEW n \in Nat, NestOf(Q, N, n), NEW q \in Upto(n)
  PROVE  /\ Q[q].in = InnermostOf(N[q])
         /\ Q[q].op = "func_start" => InnermostOf(N[q + 1]) = q
         /\ Q[q].op \notin Marks => InnermostOf(N[q + 1]) = Q[q].in
<1>1. N[q] \in Seq(Nat) /\ Q[q].in = InnermostOf(N[q])
  BY DEF NestOf
<1>2. ASSUME Q[q].op = "func_start" PROVE InnermostOf(N[q + 1]) = q
  <2>1. N[q + 1] = Push(N[q], q) /\ q \in Nat
    BY <1>2, UptoNext DEF NestOf
  <2>2. N[q + 1] # <<>> /\ Head(N[q + 1]) = q
    BY <1>1, <2>1, PushedIs
  <2>3. QED
    BY <2>2 DEF InnermostOf
<1>3. ASSUME Q[q].op \notin Marks PROVE N[q + 1] = N[q]
  BY <1>3 DEF NestOf
<1>4. QED
  BY <1>1, <1>2, <1>3

(* A quad belongs to the main program, or to a function that has an entry. *)
LEMMA HasEntry ==
  ASSUME NEW Q, NEW F, NEW T, NEW I, NEW A, NEW N, NEW n \in Nat, NEW h \in Nat,
         Finished(Q, F, T, I, A, N, n, h), NEW l \in 0 .. n
  PROVE  \/ InnermostOf(N[l]) = Main
         \/ InnermostOf(N[l]) \in Starts(Q, n)
<1>1. Link(Q, N, l)
  BY Links DEF Finished
<1>2. l \in Nat /\ Starts(Q, l) \subseteq Starts(Q, n)
  BY UptoWithin DEF Starts
<1>3. QED
  BY <1>1, <1>2 DEF Link, InnermostOf

LEMMA EntryFacts ==
  ASSUME NEW Q, NEW F, NEW T, NEW I, NEW A, NEW N, NEW n \in Nat, NEW h \in Nat,
         Finished(Q, F, T, I, A, N, n, h), NEW f \in Starts(Q, n)
  PROVE  /\ f \in Upto(n) /\ Q[f].op = "func_start" /\ f \in Nat /\ f # Main
         /\ F[f] \in Nat /\ A[f] = F[f] + 1 /\ A[f] \in Upto(h) /\ A[f] # h
         /\ EntryIn(A, h, f) = A[f] /\ I[A[f]].op = "funcenter"
<1>1. f \in Upto(n) /\ Q[f].op = "func_start" /\ f \in Nat
  BY UptoNext DEF Starts
<1>2. f # Main
  BY <1>1 DEF Main
<1>3. F[f] \in Nat /\ A[f] = F[f] + 1
  BY <1>1 DEF Finished, Laid, Entries
<1>4. 1 \in Nat /\ 1 < Size(Q[f].op)
  BY <1>1 DEF Size
<1>5. A[f] \in Upto(h)
  <2>1. Laid(Q, F, T, n, h)
    BY DEF Finished
  <2>2. F[f] + 1 \in Upto(h)
    BY <1>1, <1>4, <2>1, AddressWithin
  <2>3. QED
    BY <1>3, <2>2
<1>6. A[f] # h
  BY <1>5, UptoNext
<1>7. Enters(Q, F, n, A[f])
  BY <1>1, <1>3 DEF Enters
<1>8. I[A[f]].op = "funcenter"
  BY <1>5, <1>7 DEF Finished, Coded
<1>9. QED
  BY <1>1, <1>2, <1>3, <1>5, <1>6, <1>8 DEF EntryIn

LEMMA FirstIsNoEntry ==
  ASSUME NEW Q, NEW F, NEW T, NEW n \in Nat, NEW h \in Nat, Laid(Q, F, T, n, h),
         NEW l \in Upto(n)
  PROVE  ~Enters(Q, F, n, F[l])
<1>1. SUFFICES ASSUME Enters(Q, F, n, F[l]) PROVE FALSE
  OBVIOUS
<1>2. PICK f \in Upto(n) : Q[f].op = "func_start" /\ F[l] = F[f] + 1
  BY <1>1 DEF Enters
<1>3. PICK i \in Nat, j \in Nat : i = 0 /\ j = 1
  OBVIOUS
<1>4. Size(Q[f].op) = 2
  BY <1>2 DEF Size
<1>5. i < Size(Q[l].op) /\ j < Size(Q[f].op)
  BY <1>3, <1>4, SizeFacts
<1>6. F[l] + i = F[f] + j
  BY <1>2, <1>3 DEF Laid
<1>7. l = f /\ i = j
  BY <1>3, <1>5, <1>6, AddressesApart
<1>8. QED
  BY <1>3, <1>7

(* Whoever goes on at the beginning of a quad stays in the function around *)
(* it.                                                                     *)
LEMMA BeginRemains ==
  ASSUME NEW Q, NEW F, NEW T, NEW I, NEW A, NEW N, NEW n \in Nat, NEW h \in Nat,
         Finished(Q, F, T, I, A, N, n, h), NEW l \in 0 .. n
  PROVE  Remains(I, A, h, EntryIn(A, h, InnermostOf(N[l])), From(F, n, h, l))
<1>1. CASE l = n
  <2>1. N[l] = <<>>
    BY <1>1 DEF Finished, NestOf
  <2>2. InnermostOf(N[l]) = Main /\ From(F, n, h, l) = h
    BY <1>1, <2>1 DEF InnermostOf, From
  <2>3. QED
    BY <2>2 DEF Remains, EntryIn
<1>2. CASE l # n
  <2>1. l \in Upto(n) /\ From(F, n, h, l) = F[l]
    BY <1>2 DEF Upto, From
  <2>2. 1 \in 1 .. Size(Q[l].op)
    BY SizeFacts
  <2>3. F[l] \in Nat
    BY <2>1 DEF Finished, Laid
  <2>4. InstrOf(Q, F, l, 1, F[l])
    BY <2>2, <2>3 DEF InstrOf
  <2>5. /\ F[l] \in Upto(h) /\ Part(Q, l, F[l], 1, I[F[l]])
        /\ F[l] \in Nat /\ 1 \in 1 .. Size(Q[l].op) /\ F[l] = F[l] + 1 - 1
    BY <2>1, <2>2, <2>4, OneOfQuad
  <2>6. I[F[l]].in = InnermostOf(N[l])
    BY <2>1, <2>5, InnermostGoesOn DEF Part, Finished
  <2>7. I[F[l]].op # "funcenter"
    <3>1. ~Enters(Q, F, n, F[l])
      BY <2>1, FirstIsNoEntry DEF Finished
    <3>2. QED
      BY <2>5, <3>1 DEF Finished, Coded
  <2>8. F[l] # h
    BY <2>5, UptoNext
  <2>9. QED
    BY <2>1, <2>5, <2>6, <2>7, <2>8 DEF Remains
<1>3. QED
  BY <1>1, <1>2

(* An instruction in the middle of a quad that is no function. *)
LEMMA InsideRemains ==
  ASSUME NEW Q, NEW F, NEW T, NEW I, NEW A, NEW N, NEW n \in Nat, NEW h \in Nat,
         Finished(Q, F, T, I, A, N, n, h), NEW q \in Upto(n), Q[q].op # "func_start",
         NEW i, NEW a, InstrOf(Q, F, q, i, a)
  PROVE  Remains(I, A, h, EntryIn(A, h, Q[q].in), a)
<1>1. /\ a \in Upto(h) /\ Part(Q, q, F[q], i, I[a])
      /\ F[q] \in Nat /\ i \in 1 .. Size(Q[q].op) /\ a = F[q] + i - 1
  BY OneOfQuad
<1>2. I[a].in = Q[q].in
  BY <1>1 DEF Part
<1>3. I[a].op # "funcenter"
  <2>1. i \in 1 .. Size(Q[q].op) /\ I[a].op = Parts(Q[q].op)[i]
    BY <1>1 DEF Part
  <2>2. Q[q].op \in Ops
    BY DEF Finished
  <2>3. Q[q].op # "funcenter"
    BY <2>2 DEF Ops, JumpOps
  <2>4. QED
    BY <2>1, <2>3, PartsAre DEF JumpOps, LogicOps
<1>4. a # h
  BY <1>1, UptoNext
<1>5. QED
  BY <1>1, <1>2, <1>3, <1>4 DEF Remains

(* All that an instruction belongs to has an entry. *)
LEMMA OwnerIs ==
  ASSUME NEW Q, NEW F, NEW T, NEW I, NEW A, NEW N, NEW n \in Nat, NEW h \in Nat,
         Finished(Q, F, T, I, A, N, n, h), NEW q \in Upto(n),
         NEW i, NEW a, InstrOf(Q, F, q, i, a)
  PROVE  I[a].in = Main \/ I[a].in \in Starts(Q, n)
<1>1. /\ a \in Upto(h) /\ Part(Q, q, F[q], i, I[a])
      /\ F[q] \in Nat /\ i \in 1 .. Size(Q[q].op) /\ a = F[q] + i - 1
  BY OneOfQuad
<1>2. (I[a].in = q /\ Q[q].op = "func_start") \/ I[a].in = Q[q].in
  BY <1>1 DEF Part
<1>3. Q[q].in = InnermostOf(N[q])
  BY InnermostGoesOn DEF Finished
<1>4. q \in 0 .. n
  BY DEF Upto
<1>5. Q[q].in = Main \/ Q[q].in \in Starts(Q, n)
  BY <1>3, <1>4, HasEntry
<1>6. QED
  BY <1>2, <1>5 DEF Starts

LEMMA EntryIsOwner ==
  ASSUME NEW Q, NEW F, NEW T, NEW I, NEW A, NEW N, NEW n \in Nat, NEW h \in Nat,
         Finished(Q, F, T, I, A, N, n, h), NEW f, f = Main \/ f \in Starts(Q, n)
  PROVE  \/ EntryIn(A, h, f) = h /\ f = Main
         \/ /\ EntryIn(A, h, f) \in {A[g] : g \in DOMAIN A}
            /\ EntryIn(A, h, f) # h /\ f # Main
<1>1. CASE f = Main
  BY <1>1 DEF EntryIn
<1>2. CASE f \in Starts(Q, n)
  <2>1. EntryIn(A, h, f) = A[f] /\ A[f] # h /\ f # Main
    BY <1>2, EntryFacts
  <2>2. f \in DOMAIN A
    BY <1>2 DEF Finished
  <2>3. QED
    BY <2>1, <2>2
<1>3. QED
  BY <1>1, <1>2

(* Behind the last instruction of a quad comes the next quad, or the end. *)
LEMMA NextBegins ==
  ASSUME NEW Q, NEW F, NEW T, NEW I, NEW A, NEW N, NEW n \in Nat, NEW h \in Nat,
         Finished(Q, F, T, I, A, N, n, h), NEW q \in Upto(n),
         NEW a, a = F[q] + Size(Q[q].op) - 1
  PROVE  /\ a + 1 = From(F, n, h, q + 1) /\ q + 1 \in 0 .. n
         /\ q + 1 \in Upto(n) => a + 1 = F[q + 1]
<1>1. F[q] \in Nat /\ Size(Q[q].op) \in Nat
  BY SizeFacts DEF Finished, Laid
<1>2. PICK k \in Nat : k = Size(Q[q].op)
  BY <1>1
<1>3. From(F, n, h, q + 1) = F[q] + k
  BY <1>2 DEF Finished, Joining
<1>4. a + 1 = F[q] + k
  BY <1>1, <1>2
<1>5. q + 1 \in 0 .. n
  BY DEF Upto
<1>6. q + 1 \in Upto(n) => q + 1 # n
  BY UptoNext
<1>7. QED
  BY <1>3, <1>4, <1>5, <1>6 DEF From

(* An instruction that is no jump and no FUNC_EXIT goes on in its function.*)
LEMMA FallsThrough ==
  ASSUME NEW Q, NEW F, NEW T, NEW I, NEW A, NEW N, NEW n \in Nat, NEW h \in Nat,
         Finished(Q, F, T, I, A, N, n, h), NEW q \in Upto(n),
         NEW i, NEW a, InstrOf(Q, F, q, i, a)
  PROVE  I[a].op \notin {"jump", "funcexit"} =>
           Remains(I, A, h, EntryIn(A, h, I[a].in), a + 1)
<1>1. /\ a \in Upto(h) /\ Part(Q, q, F[q], i, I[a])
      /\ F[q] \in Nat /\ i \in 1 .. Size(Q[q].op) /\ a = F[q] + i - 1
  BY OneOfQuad
<1>0. SUFFICES ASSUME I[a].op \notin {"jump", "funcexit"}
               PROVE  Remains(I, A, h, EntryIn(A, h, I[a].in), a + 1)
  OBVIOUS
<1>2. i \in 1 .. Size(Q[q].op) /\ I[a].op = Parts(Q[q].op)[i]
  BY <1>1 DEF Part
<1>3. PICK k \in Nat : k = Size(Q[q].op)
  BY SizeFacts
<1>4. Q[q].op = "func_start" => i = 2 /\ k = 2
  BY <1>0, <1>2, <1>3, PartsAre
<1>5. I[a].in = IF Q[q].op = "func_start" THEN q ELSE Q[q].in
  BY <1>1, <1>4 DEF Part
<1>6. Q[q].op # "func_end"
  BY <1>0, <1>2, PartsAre
<1>7. CASE i < k
  <2>1. i + 1 \in 1 .. k /\ a + 1 = F[q] + (i + 1) - 1
    BY <1>1, <1>3, <1>7
  <2>2. PICK j, b : j = i + 1 /\ b = a + 1
    OBVIOUS
  <2>3. Q[q].op # "func_start"
    BY <1>4, <1>7
  <2>4. InstrOf(Q, F, q, j, b)
    BY <1>3, <2>1, <2>2 DEF InstrOf
  <2>5. Remains(I, A, h, EntryIn(A, h, Q[q].in), b)
    BY <2>3, <2>4, InsideRemains
  <2>6. QED
    BY <1>5, <2>2, <2>3, <2>5
<1>8. CASE i = k
  <2>1. a = F[q] + Size(Q[q].op) - 1
    BY <1>1, <1>3, <1>8
  <2>2. a + 1 = From(F, n, h, q + 1) /\ q + 1 \in 0 .. n
    BY <2>1, NextBegins
  <2>3. InnermostOf(N[q + 1]) = I[a].in
    BY <1>5, <1>6, InnermostGoesOn DEF Finished, Marks
  <2>4. PICK l \in 0 .. n : l = q + 1
    BY <2>2
  <2>5. Remains(I, A, h, EntryIn(A, h, InnermostOf(N[l])), From(F, n, h, l))
    BY BeginRemains
  <2>6. QED
    BY <2>2, <2>3, <2>4, <2>5
<1>9. i < k \/ i = k
  BY <1>2, <1>3
<1>10. QED
  BY <1>7, <1>8, <1>9

(* So does one that jumps; and it does not jump to itself. *)
StaysAt(I, A, h, a) ==
  I[a].to # a /\ Remains(I, A, h, EntryIn(A, h, I[a].in), I[a].to)

LEMMA JumpQuadStays ==
  ASSUME NEW Q, NEW F, NEW T, NEW I, NEW A, NEW N, NEW n \in Nat, NEW h \in Nat,
         Finished(Q, F, T, I, A, N, n, h), NEW q \in Upto(n), Q[q].op \in JumpOps
  PROVE  StaysAt(I, A, h, F[q])
<1>1. PICK l \in 0 .. n : l # q /\ N[l] = N[q] /\ I[F[q]].to = From(F, n, h, l)
  BY DEF Finished, LeadsOn
<1>2. Remains(I, A, h, EntryIn(A, h, InnermostOf(N[l])), From(F, n, h, l))
  BY BeginRemains
<1>3. PICK i \in Nat : i = 1
  OBVIOUS
<1>4. Laid(Q, F, T, n, h) /\ F[q] \in Nat
  BY DEF Finished, Laid
<1>5. InstrOf(Q, F, q, i, F[q])
  BY <1>3, <1>4, SizeFacts DEF InstrOf
<1>6. /\ F[q] \in Upto(h) /\ Part(Q, q, F[q], i, I[F[q]])
      /\ F[q] \in Nat /\ i \in 1 .. Size(Q[q].op) /\ F[q] = F[q] + i - 1
  BY <1>5, OneOfQuad
<1>7. I[F[q]].in = Q[q].in /\ Q[q].in = InnermostOf(N[q])
  BY <1>6, InnermostGoesOn DEF Part, JumpOps, Finished
<1>8. From(F, n, h, l) # F[q]
  <2>1. CASE l = n
    BY <1>6, <2>1, UptoNext DEF From
  <2>2. CASE l # n
    <3>1. l \in Upto(n)
      BY <2>2 DEF Upto
    <3>2. SUFFICES ASSUME F[l] = F[q] PROVE FALSE
      BY <2>2 DEF From
    <3>3. PICK z \in Nat : z = 0
      OBVIOUS
    <3>4. z < Size(Q[q].op) /\ z < Size(Q[l].op)
      BY <3>3, SizeFacts
    <3>5. F[q] + z = F[l] + z
      BY <3>2
    <3>6. q = l /\ z = z
      BY <1>4, <3>1, <3>4, <3>5, AddressesApart
    <3>7. QED
      BY <1>1, <3>6
  <2>3. QED
    BY <2>1, <2>2
<1>9. QED
  BY <1>1, <1>2, <1>7, <1>8 DEF StaysAt

LEMMA LogicQuadStays ==
  ASSUME NEW Q, NEW F, NEW T, NEW I, NEW A, NEW N, NEW n \in Nat, NEW h \in Nat,
         Finished(Q, F, T, I, A, N, n, h), NEW q \in Upto(n), Q[q].op \in LogicOps,
         NEW i, NEW a, InstrOf(Q, F, q, i, a), I[a].op \in JumpOps
  PROVE  StaysAt(I, A, h, a)
<1>1. /\ a \in Upto(h) /\ Part(Q, q, F[q], i, I[a])
      /\ F[q] \in Nat /\ i \in 1 .. Size(Q[q].op) /\ a = F[q] + i - 1
  BY OneOfQuad
<1>2. I[a].to = F[q] + Skip(Q[q].op, i) /\ I[a].in = Q[q].in
  BY <1>1 DEF Part, LogicOps
<1>3. PICK k \in Nat, j \in Nat : k = Size(Q[q].op) /\ j = Skip(Q[q].op, i)
  BY SizeFacts DEF Skip
<1>4. j # i - 1 /\ j <= k
  <2>1. i \in 1 .. Size(Q[q].op) /\ I[a].op = Parts(Q[q].op)[i]
    BY <1>1 DEF Part
  <2>2. CASE Q[q].op = "and_or"
    <3>1. k = 5 /\ Parts(Q[q].op) = <<"branch", "branch", "plain", "jump", "plain">>
      BY <1>3, <2>2 DEF Size, Parts
    <3>2. i \in {1, 2, 3, 4, 5}
      BY <1>3, <2>1, <3>1
    <3>3. i # 5
      BY <2>1, <3>1 DEF JumpOps
    <3>4. j = IF i = 4 THEN 5 ELSE 4
      BY <1>3, <2>2 DEF Skip
    <3>5. QED
      BY <3>1, <3>2, <3>3, <3>4
  <2>3. CASE Q[q].op = "not"
    <3>1. k = 4 /\ Parts(Q[q].op) = <<"branch", "plain", "jump", "plain">>
      BY <1>3, <2>3 DEF Size, Parts
    <3>2. i \in {1, 2, 3, 4}
      BY <1>3, <2>1, <3>1
    <3>3. i # 4
      BY <2>1, <3>1 DEF JumpOps
    <3>4. j = IF i = 3 THEN 4 ELSE 3
      BY <1>3, <2>3 DEF Skip
    <3>5. QED
      BY <3>1, <3>2, <3>3, <3>4
  <2>4. QED
    BY <2>2, <2>3 DEF LogicOps
<1>5. I[a].to = F[q] + j /\ F[q] + j # a
  BY <1>1, <1>2, <1>3, <1>4
<1>6. Q[q].op # "func_start" /\ Q[q].op \notin Marks
  BY DEF LogicOps, Marks
<1>7. CASE j < k
  <2>1. PICK m, b : m = j + 1 /\ b = F[q] + j
    OBVIOUS
  <2>2. InstrOf(Q, F, q, m, b)
    BY <1>1, <1>3, <1>7, <2>1 DEF InstrOf
  <2>3. Remains(I, A, h, EntryIn(A, h, Q[q].in), b)
    BY <1>6, <2>2, InsideRemains
  <2>4. QED
    BY <1>2, <1>5, <2>1, <2>3 DEF StaysAt
<1>8. CASE j = k
  <2>1. PICK l \in 0 .. n : l = q + 1
    BY DEF Upto
  <2>2. F[q] + j = From(F, n, h, l)
    BY <1>3, <1>8, <2>1 DEF Finished, Joining
  <2>3. InnermostOf(N[l]) = Q[q].in
    BY <1>6, <2>1, InnermostGoesOn DEF Finished
  <2>4. Remains(I, A, h, EntryIn(A, h, InnermostOf(N[l])), From(F, n, h, l))
    BY BeginRemains
  <2>5. QED
    BY <1>2, <1>5, <2>2, <2>3, <2>4 DEF StaysAt
<1>9. QED
  BY <1>3, <1>4, <1>7, <1>8

(* A return jumps to the end of the function around it. *)
LEMMA ReturnStays ==
  ASSUME NEW Q, NEW F, NEW T, NEW I, NEW A, NEW N, NEW n \in Nat, NEW h \in Nat,
         Finished(Q, F, T, I, A, N, n, h), NEW q \in Upto(n), Q[q].op = "ret"
  PROVE  StaysAt(I, A, h, F[q] + 1)
<1>1. PICK f \in Starts(Q, n) : f = Q[q].in
  BY DEF Finished, LeadsOn
<1>2. PICK e \in Upto(n) : ClosedBy(Q, F, I, n, f, e)
  BY DEF Finished, LeadsOn
<1>3. I[F[q] + 1].to = F[e] /\ Q[e].op = "func_end" /\ Q[e].to = f
  BY <1>1, <1>2 DEF ClosedBy, ReturnsOf
<1>4. PICK i \in Nat, j \in Nat : i = 1 /\ j = 0
  OBVIOUS
<1>0. PICK a : a = F[q] + i
  OBVIOUS
<1>5. Laid(Q, F, T, n, h) /\ F[q] \in Nat
  BY DEF Finished, Laid
<1>6. Size(Q[q].op) = 2
  BY DEF Size
<1>7. I[a].in = f
  <2>1. PICK k \in Nat : k = i + 1
    BY <1>4
  <2>2. InstrOf(Q, F, q, k, a)
    BY <1>0, <1>4, <1>5, <1>6, <2>1 DEF InstrOf
  <2>3. /\ a \in Upto(h) /\ Part(Q, q, F[q], k, I[a])
        /\ F[q] \in Nat /\ k \in 1 .. Size(Q[q].op) /\ a = F[q] + k - 1
    BY <2>2, OneOfQuad
  <2>4. QED
    BY <1>1, <2>3 DEF Part
<1>8. InnermostOf(N[e]) = f
  BY <1>3 DEF Finished, NestOf, InnermostOf
<1>9. e \in 0 .. n /\ From(F, n, h, e) = F[e]
  BY UptoNext DEF Upto, From
<1>10. Remains(I, A, h, EntryIn(A, h, f), F[e])
  BY <1>8, <1>9, BeginRemains
<1>11. F[e] # a
  <2>1. SUFFICES ASSUME F[e] = a PROVE FALSE
    OBVIOUS
  <2>2. i < Size(Q[q].op) /\ j < Size(Q[e].op)
    BY <1>4, <1>6, SizeFacts
  <2>3. F[q] + i = F[e] + j
    BY <1>0, <1>4, <1>5, <2>1
  <2>4. q = e /\ i = j
    BY <1>5, <2>2, <2>3, AddressesApart
  <2>5. QED
    BY <1>4, <2>4
<1>12. a = F[q] + 1
  BY <1>0, <1>4
<1>13. QED
  BY <1>3, <1>7, <1>10, <1>11, <1>12 DEF StaysAt

(* The jump in front of a function leads to what follows its end. *)
LEMMA AroundStays ==
  ASSUME NEW Q, NEW F, NEW T, NEW I, NEW A, NEW N, NEW n \in Nat, NEW h \in Nat,
         Finished(Q, F, T, I, A, N, n, h), NEW q \in Upto(n), Q[q].op = "func_start"
  PROVE  StaysAt(I, A, h, F[q])
<1>1. PICK e \in Upto(n) : ClosedBy(Q, F, I, n, q, e)
  BY DEF Finished, LeadsOn, Starts
<1>2. I[F[q]].to = F[e] + 1 /\ Q[e].op = "func_end" /\ Q[e].to = q
  BY <1>1 DEF ClosedBy
<1>3. N[e] # <<>> /\ Head(N[e]) = q /\ N[e + 1] = Tail(N[e])
  BY <1>2 DEF Finished, NestOf
<1>4. e \in 0 .. n
  BY DEF Upto
<1>5. Link(Q, N, e)
  BY <1>4, Links DEF Finished
<1>6. q \in Starts(Q, e) /\ N[q] = Tail(N[e])
  BY <1>3, <1>5 DEF Link
<1>7. e \in Nat /\ q < e
  BY <1>4, <1>6, UptoNext DEF Starts
<1>8. PICK l \in 0 .. n : l = e + 1
  BY DEF Upto
<1>9. From(F, n, h, l) = F[e] + 1
  BY <1>2, <1>8 DEF Finished, Joining, Size
<1>10. Remains(I, A, h, EntryIn(A, h, InnermostOf(N[l])), From(F, n, h, l))
  BY BeginRemains
<1>11. InnermostOf(N[l]) = Q[q].in
  BY <1>3, <1>6, <1>8, InnermostGoesOn DEF Finished
<1>12. PICK i \in Nat : i = 1
  OBVIOUS
<1>13. F[q] \in Nat /\ F[e] \in Nat /\ F[q] <= F[e]
  <2>1. F[q] \in Nat /\ F[e] \in Nat /\ F[q] + Size(Q[q].op) <= F[e]
    BY <1>7 DEF Finished, Laid
  <2>2. QED
    BY <2>1, SizeFacts
<1>14. InstrOf(Q, F, q, i, F[q])
  BY <1>12, <1>13, SizeFacts DEF InstrOf
<1>15. I[F[q]].in = Q[q].in
  <2>1. /\ F[q] \in Upto(h) /\ Part(Q, q, F[q], i, I[F[q]])
        /\ F[q] \in Nat /\ i \in 1 .. Size(Q[q].op) /\ F[q] = F[q] + i - 1
    BY <1>14, OneOfQuad
  <2>2. i # 2
    BY <1>12
  <2>3. QED
    BY <2>1, <2>2 DEF Part
<1>16. I[F[q]].to # F[q]
  BY <1>2, <1>13
<1>17. QED
  BY <1>2, <1>9, <1>10, <1>11, <1>15, <1>16 DEF StaysAt

LEMMA JumpsStayInCode ==
  ASSUME NEW Q, NEW F, NEW T, NEW I, NEW A, NEW N, NEW n \in Nat, NEW h \in Nat,
         Finished(Q, F, T, I, A, N, n, h), NEW q \in Upto(n),
         NEW i, NEW a, InstrOf(Q, F, q, i, a), I[a].op \in JumpOps
  PROVE  StaysAt(I, A, h, a)
<1>1. /\ a \in Upto(h) /\ Part(Q, q, F[q], i, I[a])
      /\ F[q] \in Nat /\ i \in 1 .. Size(Q[q].op) /\ a = F[q] + i - 1
  BY OneOfQuad
<1>2. i \in 1 .. Size(Q[q].op) /\ I[a].op = Parts(Q[q].op)[i]
  BY <1>1 DEF Part
<1>3. CASE Q[q].op \in LogicOps
  BY <1>3, LogicQuadStays
<1>4. CASE Q[q].op = "ret"
  <2>1. i = 2
    BY <1>2, <1>4, PartsAre DEF JumpOps
  <2>2. a = F[q] + 1
    BY <1>1, <2>1
  <2>3. QED
    BY <1>4, <2>2, ReturnStays
<1>5. CASE Q[q].op = "func_start"
  <2>1. i = 1
    BY <1>2, <1>5, PartsAre DEF JumpOps
  <2>2. a = F[q]
    BY <1>1, <2>1
  <2>3. QED
    BY <1>5, <2>2, AroundStays
<1>6. Q[q].op # "func_end"
  BY <1>2, PartsAre DEF JumpOps
<1>7. CASE Q[q].op \notin LogicOps \cup {"ret", "func_start", "func_end"}
  <2>1. i = 1 /\ Q[q].op \in JumpOps
    BY <1>2, <1>7, PartsAre
  <2>2. a = F[q]
    BY <1>1, <2>1
  <2>3. QED
    BY <2>1, <2>2, JumpQuadStays
<1>8. QED
  BY <1>3, <1>4, <1>5, <1>6, <1>7

(* Only a function has a FUNC_EXIT. *)
LEMMA ExitIsInFunction ==
  ASSUME NEW Q, NEW F, NEW T, NEW I, NEW A, NEW N, NEW n \in Nat, NEW h \in Nat,
         Finished(Q, F, T, I, A, N, n, h), NEW q \in Upto(n),
         NEW i, NEW a, InstrOf(Q, F, q, i, a), I[a].op = "funcexit"
  PROVE  EntryIn(A, h, I[a].in) # h
<1>1. /\ a \in Upto(h) /\ Part(Q, q, F[q], i, I[a])
      /\ F[q] \in Nat /\ i \in 1 .. Size(Q[q].op) /\ a = F[q] + i - 1
  BY OneOfQuad
<1>2. /\ i \in 1 .. Size(Q[q].op) /\ I[a].op = Parts(Q[q].op)[i]
      /\ Q[q].op \in Ops
  BY <1>1 DEF Part, Finished
<1>3. Q[q].op = "func_end"
  BY <1>2, PartsAre DEF Ops, JumpOps, LogicOps
<1>4. I[a].in = InnermostOf(N[q])
  BY <1>1, <1>3, InnermostGoesOn DEF Part, Finished
<1>5. q \in Nat /\ q \in 0 .. n
  BY UptoNext DEF Upto
<1>6. Link(Q, N, q) /\ N[q] # <<>>
  BY <1>3, <1>5, Links DEF Finished, NestOf
<1>7. I[a].in \in Starts(Q, q)
  BY <1>4, <1>6 DEF Link, InnermostOf
<1>8. q <= n
  BY <1>5
<1>9. I[a].in \in Starts(Q, n)
  BY <1>5, <1>7, <1>8, UptoWithin DEF Starts
<1>10. QED
  BY <1>9, EntryFacts

(* The entries are where the FUNC_ENTERs are, each in its own function. *)
LEMMA EntersAreEntries ==
  ASSUME NEW Q, NEW F, NEW T, NEW I, NEW A, NEW N, NEW n \in Nat, NEW h \in Nat,
         Finished(Q, F, T, I, A, N, n, h), NEW a \in Upto(h)
  PROVE  /\ a \in {A[f] : f \in DOMAIN A} <=> I[a].op = "funcenter"
         /\ I[a].op = "funcenter" => EntryIn(A, h, I[a].in) = a
<1>1. I[a].op = "funcenter" <=> Enters(Q, F, n, a)
  BY DEF Finished, Coded
<1>2. DOMAIN A = Starts(Q, n) /\ \A f \in Starts(Q, n) : A[f] = F[f] + 1
  BY DEF Finished, Entries
<1>3. a \in {A[f] : f \in DOMAIN A} <=> Enters(Q, F, n, a)
  BY <1>2 DEF Enters, Starts
<1>4. ASSUME Enters(Q, F, n, a) PROVE EntryIn(A, h, I[a].in) = a
  <2>1. PICK f \in Starts(Q, n) : a = F[f] + 1
    BY <1>4 DEF Enters, Starts
  <2>2. /\ f \in Upto(n) /\ Q[f].op = "func_start" /\ F[f] \in Nat
        /\ A[f] = F[f] + 1 /\ EntryIn(A, h, f) = A[f]
    BY EntryFacts
  <2>3. PICK i : i = 2
    OBVIOUS
  <2>4. InstrOf(Q, F, f, i, a)
    BY <2>1, <2>2, <2>3 DEF Size, InstrOf
  <2>5. /\ a \in Upto(h) /\ Part(Q, f, F[f], i, I[a])
        /\ F[f] \in Nat /\ i \in 1 .. Size(Q[f].op) /\ a = F[f] + i - 1
    BY <2>2, <2>4, OneOfQuad
  <2>6. I[a].in = f
    BY <2>2, <2>3, <2>5 DEF Part
  <2>7. QED
    BY <2>1, <2>2, <2>6
<1>5. QED
  BY <1>1, <1>3, <1>4

(* The arguments of a call are pushed one after the other, then the        *)
(* function is called, then its result is fetched.                         *)
LEMMA CallsInCode ==
  ASSUME NEW Q, NEW F, NEW T, NEW I, NEW A, NEW N, NEW n \in Nat, NEW h \in Nat,
         Finished(Q, F, T, I, A, N, n, h), NEW q \in Upto(n),
         NEW i, NEW a, InstrOf(Q, F, q, i, a)
  PROVE  /\ I[a].op = "param" => a + 1 \in Upto(h) /\ I[a + 1].op \in {"param", "call"}
         /\ I[a].op = "call" => a + 1 \in Upto(h) /\ I[a + 1].op = "getretval"
<1>1. /\ a \in Upto(h) /\ Part(Q, q, F[q], i, I[a])
      /\ F[q] \in Nat /\ i \in 1 .. Size(Q[q].op) /\ a = F[q] + i - 1
  BY OneOfQuad
<1>2. i \in 1 .. Size(Q[q].op) /\ I[a].op = Parts(Q[q].op)[i]
  BY <1>1 DEF Part
<1>3. ASSUME I[a].op \in {"param", "call"}
      PROVE  Q[q].op = I[a].op /\ a = F[q] + Size(Q[q].op) - 1
  <2>1. Q[q].op = I[a].op /\ i = Size(Q[q].op)
    BY <1>2, <1>3, PartsAre DEF JumpOps
  <2>2. QED
    BY <1>1, <2>1
<1>4. ASSUME q + 1 \in Upto(n), Q[q + 1].op \in {"param", "call", "getretval"},
             a = F[q] + Size(Q[q].op) - 1
      PROVE  a + 1 \in Upto(h) /\ I[a + 1].op = Q[q + 1].op
  <2>1. PICK r, b : r = q + 1 /\ b = a + 1 /\ r \in Upto(n)
    BY <1>4
  <2>2. b = F[r]
    <3>1. /\ a + 1 = From(F, n, h, q + 1) /\ q + 1 \in 0 .. n
          /\ q + 1 \in Upto(n) => a + 1 = F[q + 1]
      BY <1>4, NextBegins
    <3>2. QED
      BY <1>4, <2>1, <3>1
  <2>3. PICK j \in Nat : j = 1
    OBVIOUS
  <2>4. F[r] \in Nat
    BY <2>1 DEF Finished, Laid
  <2>5. InstrOf(Q, F, r, j, b)
    BY <2>2, <2>3, <2>4, SizeFacts DEF InstrOf
  <2>6. /\ b \in Upto(h) /\ Part(Q, r, F[r], j, I[b])
        /\ F[r] \in Nat /\ j \in 1 .. Size(Q[r].op) /\ b = F[r] + j - 1
    BY <2>1, <2>5, OneOfQuad
  <2>7. I[b].op = Parts(Q[r].op)[j]
    BY <2>6 DEF Part
  <2>8. I[b].op = Q[r].op
    BY <1>4, <2>1, <2>6, <2>7, PartsAre
  <2>9. QED
    BY <2>1, <2>6, <2>8
<1>5. Calling(Q, q) /\ DOMAIN Q = Upto(n)
  BY DEF Finished
<1>6. QED
  BY <1>3, <1>4, <1>5 DEF Calling

-----------------------------------------------------------------------------
(* The generator ends with the finished code. *)
LEMMA NestIs ==
  ASSUME GenInv, NEW n \in Nat, n = currQuad, NEW Q, Q = quads, DOMAIN Q = Upto(n), open = <<>>,
         errors = 0, NEW N, Nesting(N), JumpsIn(N)
  PROVE  NestOf(Q, N, n)
<1>1. N[n] = <<>>
  <2>1. function_name_stack = <<>>
    BY NoNamesLeft DEF GenInv
  <2>2. QED
    BY <2>1 DEF Nesting
<1>2. ASSUME NEW l \in Upto(n)
      PROVE  /\ N[l] \in Seq(Nat)
             /\ Q[l].op = "func_start" => N[l + 1] = Push(N[l], l)
             /\ Q[l].op = "func_end" =>
                  N[l] # <<>> /\ Q[l].to = Head(N[l]) /\ N[l + 1] = Tail(N[l])
             /\ Q[l].op \notin Marks => N[l + 1] = N[l]
             /\ Q[l].in = InnermostOf(N[l])
  <2>1. l \in DOMAIN quads /\ l \in Labels /\ l \in 0 .. currQuad
    BY DEF Labels, Upto
  <2>2. N[l] \in Seq(Nat) /\ Nested(l, N[l], N[l + 1])
    BY <2>1 DEF Nesting
  <2>3. Q[l].in = InnermostOf(N[l])
    BY <2>1, <2>2 DEF Nested, JumpsIn
  <2>4. QED
    BY <2>1, <2>2, <2>3 DEF Nested
<1>3. N[0] = <<>>
  BY DEF Nesting
<1>4. QED
  BY <1>1, <1>2, <1>3 DEF NestOf

LEMMA LeadsAre ==
  ASSUME NEW Q, NEW F, NEW T, NEW I, NEW R, NEW N, NEW n \in Nat, NEW h \in Nat,
         Laid(Q, F, T, n, h), Landed(Q, F, T, I, n, h), Closing(Q, F, I, <<>>, R, n),
         \A q \in Upto(n) : Q[q].op \in JumpOps =>
           /\ Q[q].to \in 0 .. n /\ Q[q].to # q /\ N[Q[q].to] = N[q]
           /\ Q[q].to \in Upto(n) => Q[Q[q].to].op # "func_start"
  PROVE  LeadsOn(Q, F, I, N, n, h)
<1>1. ASSUME NEW q \in Upto(n), Q[q].op \in JumpOps
      PROVE  \E l \in 0 .. n : l # q /\ N[l] = N[q] /\ I[F[q]].to = From(F, n, h, l)
  <2>1. PICK l \in 0 .. n : /\ l = Q[q].to /\ l # q /\ N[l] = N[q]
                            /\ l \in Upto(n) => Q[l].op # "func_start"
    BY <1>1
  <2>2. I[F[q]].to = IF l = n THEN h ELSE T[l]
    BY <1>1, <2>1 DEF Landed
  <2>3. CASE l # n
    <3>1. l \in Upto(n)
      BY <2>3 DEF Upto
    <3>2. F[l] \in Nat /\ T[l] = F[l] + 0
      BY <2>1, <3>1 DEF Laid, Offset
    <3>3. I[F[q]].to = From(F, n, h, l)
      BY <2>2, <2>3, <3>2 DEF From
    <3>4. QED
      BY <2>1, <3>3
  <2>4. QED
    BY <2>1, <2>2, <2>3 DEF From
<1>2. QED
  BY <1>1 DEF LeadsOn, Closing

WellMade == /\ Generated /\ errors = 0
         /\ \A q \in JumpQuads : ~LeadsToFunction(q)

LEMMA GeneratorFinishes ==
  ASSUME GenInv, JumpsInv, PlaceInv, CallsInv, BlockInv, WellMade
  PROVE  \E N : Finished(quads, first, taddress, instructions, t_address, N,
                         nextQuad, currInstruction)
<1>1. PICK n, h \in Nat : n = nextQuad /\ h = currInstruction
  BY TypesInGenerator
<1>2. PICK Q, F, T, I, A : /\ Q = quads /\ F = first /\ T = taddress
                           /\ I = instructions /\ A = t_address
  OBVIOUS
<1>3. /\ n = currQuad /\ Laid(Q, F, T, n, h) /\ Coded(Q, F, I, n, h)
      /\ Landed(Q, F, T, I, n, h) /\ DOMAIN A = Starts(Q, n)
      /\ open = <<>> /\ errors = 0
  BY <1>1, <1>2 DEF GenInv, Generator, PhaseInv, WellMade, Generated
<1>4. DOMAIN Q = Upto(n) /\ \A q \in Upto(n) : Q[q].op \in Ops
  <2>1. QuadsTyped(Q, n)
    BY <1>2, <1>3, TypesOf DEF GenInv, OpensInv
  <2>2. Upto(n) \subseteq DOMAIN Q
    BY <1>3 DEF Laid
  <2>3. QED
    BY <2>1, <2>2 DEF QuadsTyped
<1>5. PICK N : Nesting(N) /\ JumpsIn(N)
  BY JumpsStay DEF WellMade
<1>6. NestOf(Q, N, n)
  BY <1>2, <1>3, <1>4, <1>5, NestIs
<1>7. Closing(Q, F, I, <<>>, returnList, n)
  <2>1. PICK nest : Nesting(nest) /\ func_stack = nest[currQuad]
    BY <1>1, <1>3 DEF GenInv, StackInv
  <2>2. func_stack = <<>>
    BY <1>3, <2>1, NoNamesLeft DEF Nesting, GenInv
  <2>3. QED
    BY <1>1, <1>2, <2>2 DEF GenInv, Generator
<1>8. ASSUME NEW q \in Upto(n), Q[q].op \in JumpOps
      PROVE  /\ Q[q].to \in 0 .. n /\ Q[q].to # q /\ N[Q[q].to] = N[q]
             /\ Q[q].to \in Upto(n) => Q[Q[q].to].op # "func_start"
  <2>1. q \in JumpQuads
    BY <1>2, <1>4, <1>8 DEF JumpQuads
  <2>2. ~LeadsToFunction(q)
    BY <2>1 DEF WellMade
  <2>3. QED
    BY <1>2, <1>3, <1>4, <1>5, <1>8, <2>2 DEF JumpsIn, LeadsToFunction
<1>9. LeadsOn(Q, F, I, N, n, h)
  BY <1>3, <1>7, <1>8, LeadsAre
<1>10. Joining(Q, F, n, h) /\ AllMade(Q, F, I, n) /\ Entries(Q, F, A, n)
  BY <1>1, <1>2 DEF BlockInv
<1>11. \A q \in Upto(n) : Calling(Q, q)
  BY <1>2, <1>4 DEF CallsInv
<1>12. Finished(Q, F, T, I, A, N, n, h)
  BY <1>3, <1>4, <1>6, <1>9, <1>10, <1>11 DEF Finished
<1>13. QED
  BY <1>1, <1>2, <1>12

-----------------------------------------------------------------------------
(* The machine's view of it *)

IsFinished(N) ==
  /\ Finished(quads, first, taddress, instructions, t_address, N, nextQuad, currInstruction)
  /\ nextQuad \in Nat /\ currInstruction \in Nat

LEMMA MachineIs ==
  ASSUME NEW a \in Addresses
  PROVE  /\ instructions[a].op = "plain" =>
              MachineCode[a].opcode = "effect" /\ MachineCode[a].result.type = "nil_a"
         /\ instructions[a].op = "param" =>
              MachineCode[a].opcode = "pusharg" /\ MachineCode[a].result.type = "nil_a"
         /\ instructions[a].op = "call" =>
              MachineCode[a].opcode = "call" /\ MachineCode[a].result.type = "nil_a"
         /\ instructions[a].op = "funcenter" =>
              MachineCode[a].opcode = "funcenter" /\ MachineCode[a].result.type = "nil_a"
         /\ instructions[a].op = "funcexit" =>
              MachineCode[a].opcode = "funcexit" /\ MachineCode[a].result.type = "nil_a"
         /\ instructions[a].op = "getretval" =>
              /\ MachineCode[a].opcode = "assign"
              /\ MachineCode[a].result.type = "global_a" /\ MachineCode[a].result.val = 0
         /\ instructions[a].op = "jump" =>
              /\ MachineCode[a].opcode = "jump"
              /\ MachineCode[a].result.val = instructions[a].to
         /\ instructions[a].op = "branch" =>
              /\ MachineCode[a].opcode = "branch"
              /\ MachineCode[a].result.val = instructions[a].to
         /\ MachineCode[a].arg1.type = "nil_a"
<1>1. ASSUME instructions[a].op = "plain"
      PROVE  MachineCode[a].opcode = "effect" /\ MachineCode[a].result.type = "nil_a"
  BY <1>1 DEF MachineCode, JumpOps, Nil
<1>2. ASSUME instructions[a].op = "param"
      PROVE  MachineCode[a].opcode = "pusharg" /\ MachineCode[a].result.type = "nil_a"
  BY <1>2 DEF MachineCode, JumpOps, Nil
<1>3. ASSUME instructions[a].op = "call"
      PROVE  MachineCode[a].opcode = "call" /\ MachineCode[a].result.type = "nil_a"
  BY <1>3 DEF MachineCode, JumpOps, Nil
<1>4. ASSUME instructions[a].op = "funcenter"
      PROVE  MachineCode[a].opcode = "funcenter" /\ MachineCode[a].result.type = "nil_a"
  BY <1>4 DEF MachineCode, JumpOps, Nil
<1>5. ASSUME instructions[a].op = "funcexit"
      PROVE  MachineCode[a].opcode = "funcexit" /\ MachineCode[a].result.type = "nil_a"
  BY <1>5 DEF MachineCode, JumpOps, Nil
<1>6. ASSUME instructions[a].op = "getretval"
      PROVE  /\ MachineCode[a].opcode = "assign"
             /\ MachineCode[a].result.type = "global_a" /\ MachineCode[a].result.val = 0
  BY <1>6 DEF MachineCode, JumpOps, Nil
<1>7. ASSUME instructions[a].op = "jump"
      PROVE  MachineCode[a].opcode = "jump" /\ MachineCode[a].result.val = instructions[a].to
  BY <1>7 DEF MachineCode, JumpOps, Nil
<1>8. ASSUME instructions[a].op = "branch"
      PROVE  MachineCode[a].opcode = "branch" /\ MachineCode[a].result.val = instructions[a].to
  BY <1>8 DEF MachineCode, JumpOps, Nil
<1>9. MachineCode[a].arg1.type = "nil_a"
  BY DEF MachineCode, Nil
<1>10. QED
  BY <1>1, <1>2, <1>3, <1>4, <1>5, <1>6, <1>7, <1>8, <1>9

LEMMA CodeIs ==
  ASSUME NEW N, IsFinished(N), NEW a \in Addresses, NEW x, x = MachineCode[a],
         NEW op, op = instructions[a].op
  PROVE  /\ a \in Upto(currInstruction)
         /\ x.opcode = "funcenter" <=> op = "funcenter"
         /\ x.opcode = "funcexit" <=> op = "funcexit"
         /\ x.opcode = "jump" <=> op = "jump"
         /\ x.opcode \in {"jump", "branch"} <=> op \in JumpOps
         /\ x.opcode = "pusharg" <=> op = "param"
         /\ x.opcode = "call" <=> op = "call"
         /\ x.opcode = "assign" <=> op = "getretval"
         /\ x.opcode # "data"
         /\ op \in JumpOps => x.result.val = instructions[a].to
         /\ op = "getretval" => x.result.type = "global_a" /\ x.result.val = 0
         /\ op \notin JumpOps \cup {"getretval"} => x.result.type = "nil_a"
         /\ x.arg1.type = "nil_a"
<1>1. a \in Upto(currInstruction)
  BY DEF Addresses, Upto
<1>2. op \in InstrOps
  BY <1>1 DEF IsFinished, Finished, Coded, Instrs
<1>3. QED
  BY <1>1, <1>2, MachineIs DEF InstrOps, JumpOps

LEMMA RemainsIs ==
  ASSUME NEW N, IsFinished(N), NEW f, NEW a,
         Remains(instructions, t_address, currInstruction, f, a)
  PROVE  Contract!StaysIn(f, a)
<1>1. CASE a = currInstruction
  BY <1>1 DEF Remains, Contract!StaysIn, Contract!Main
<1>2. CASE a # currInstruction
  <2>1. /\ a \in Upto(currInstruction) /\ instructions[a].op # "funcenter"
        /\ EntryIn(t_address, currInstruction, instructions[a].in) = f
    BY <1>2 DEF Remains
  <2>2. a \in Addresses /\ Entry(instructions[a].in) = f
    BY <2>1 DEF Addresses, Upto, Entry, EntryIn
  <2>3. a \notin {t_address[g] : g \in DOMAIN t_address}
    <3>1. PICK Q, F, T, I, A, n, h :
            /\ Q = quads /\ F = first /\ T = taddress /\ I = instructions
            /\ A = t_address /\ n = nextQuad /\ h = currInstruction
      OBVIOUS
    <3>2. n \in Nat /\ h \in Nat /\ Finished(Q, F, T, I, A, N, n, h) /\ a \in Upto(h)
      BY <2>1, <3>1 DEF IsFinished
    <3>3. /\ a \in {A[g] : g \in DOMAIN A} <=> I[a].op = "funcenter"
          /\ I[a].op = "funcenter" => EntryIn(A, h, I[a].in) = a
      BY <3>2, EntersAreEntries
    <3>4. QED
      BY <2>1, <3>1, <3>3
  <2>4. QED
    BY <1>2, <2>2, <2>3 DEF Contract!StaysIn, Contract!Address, Addresses, Contract!Functions
<1>3. QED
  BY <1>1, <1>2

LEMMA FulfilledAt ==
  ASSUME NEW N, IsFinished(N), NEW a \in Addresses
  PROVE  Contract!WellFormedAt(a)
<1>1. PICK h \in Nat, n \in Nat : h = currInstruction /\ n = nextQuad
  BY DEF IsFinished
<1>2. PICK Q, F, T, I, A : /\ Q = quads /\ F = first /\ T = taddress
                           /\ I = instructions /\ A = t_address
  OBVIOUS
<1>3. Finished(Q, F, T, I, A, N, n, h)
  BY <1>1, <1>2 DEF IsFinished
<1>4. a \in Upto(h) /\ a \in Nat
  BY <1>1 DEF Addresses, Upto
<1>5. PICK q \in Upto(n) : \E i : InstrOf(Q, F, q, i, a)
  <2>1. Laid(Q, F, T, n, h) /\ Joining(Q, F, n, h)
    BY <1>3 DEF Finished
  <2>2. PICK q \in Upto(n) : \E i \in 1 .. Size(Q[q].op) : a = F[q] + i - 1
    BY <1>4, <2>1, EveryAddress
  <2>3. QED
    BY <2>2 DEF InstrOf
<1>6. PICK i : InstrOf(Q, F, q, i, a)
  BY <1>5
<1>7. PICK op, o, x : op = I[a].op /\ o = EntryIn(A, h, I[a].in) /\ x = MachineCode[a]
  OBVIOUS
<1>8. /\ x.opcode = "funcenter" <=> op = "funcenter"
      /\ x.opcode = "funcexit" <=> op = "funcexit"
      /\ x.opcode = "jump" <=> op = "jump"
      /\ x.opcode \in {"jump", "branch"} <=> op \in JumpOps
      /\ x.opcode = "pusharg" <=> op = "param"
      /\ x.opcode = "call" <=> op = "call"
      /\ x.opcode = "assign" <=> op = "getretval"
      /\ x.opcode # "data"
      /\ op \in JumpOps => x.result.val = I[a].to
      /\ op = "getretval" => x.result.type = "global_a" /\ x.result.val = 0
      /\ op \notin JumpOps \cup {"getretval"} => x.result.type = "nil_a"
      /\ x.arg1.type = "nil_a"
  BY <1>2, <1>7, CodeIs
<1>9. Entry(I[a].in) = o
  BY <1>1, <1>2, <1>7 DEF Entry, EntryIn
<1>10. PICK E : E = {A[g] : g \in DOMAIN A}
  OBVIOUS
<1>11. (o = h) \/ (o \in E /\ o # h)
  <2>1. I[a].in = Main \/ I[a].in \in Starts(Q, n)
    BY <1>3, <1>6, OwnerIs
  <2>2. \/ EntryIn(A, h, I[a].in) = h /\ I[a].in = Main
        \/ /\ EntryIn(A, h, I[a].in) \in {A[g] : g \in DOMAIN A}
           /\ EntryIn(A, h, I[a].in) # h /\ I[a].in # Main
    BY <1>3, <2>1, EntryIsOwner
  <2>3. QED
    BY <1>7, <1>10, <2>2
<1>12. (a \in E <=> op = "funcenter") /\ (op = "funcenter" => o = a)
  <2>1. /\ a \in {A[f] : f \in DOMAIN A} <=> I[a].op = "funcenter"
        /\ I[a].op = "funcenter" => EntryIn(A, h, I[a].in) = a
    BY <1>3, <1>4, EntersAreEntries
  <2>2. QED
    BY <1>7, <1>10, <2>1
<1>13. op = "funcexit" => o # h
  BY <1>3, <1>6, <1>7, ExitIsInFunction
<1>14. op \in JumpOps => I[a].to # a /\ Contract!StaysIn(o, I[a].to)
  <2>1. SUFFICES ASSUME op \in JumpOps PROVE I[a].to # a /\ Contract!StaysIn(o, I[a].to)
    OBVIOUS
  <2>2. StaysAt(I, A, h, a)
    BY <1>3, <1>6, <1>7, <2>1, JumpsStayInCode
  <2>3. I[a].to # a /\ Remains(I, A, h, o, I[a].to)
    BY <1>7, <2>2 DEF StaysAt
  <2>4. QED
    BY <1>1, <1>2, <2>3, RemainsIs
<1>15. op \notin {"jump", "funcexit"} => Contract!StaysIn(o, a + 1)
  <2>1. op \notin {"jump", "funcexit"} => Remains(I, A, h, o, a + 1)
    BY <1>3, <1>6, <1>7, FallsThrough
  <2>2. QED
    BY <1>1, <1>2, <2>1, RemainsIs
<1>16. /\ op = "param" => a + 1 \in Addresses /\ MachineCode[a + 1].opcode \in {"pusharg", "call"}
       /\ op = "call" => a + 1 \in Addresses /\ MachineCode[a + 1].opcode = "assign"
  <2>1. /\ I[a].op = "param" => a + 1 \in Upto(h) /\ I[a + 1].op \in {"param", "call"}
        /\ I[a].op = "call" => a + 1 \in Upto(h) /\ I[a + 1].op = "getretval"
    BY <1>3, <1>6, CallsInCode
  <2>2. PICK b : b = a + 1
    OBVIOUS
  <2>3. b \in Upto(h) => b \in Addresses
    BY <1>1 DEF Addresses, Upto
  <2>4. ASSUME b \in Addresses, I[b].op \in {"param", "call", "getretval"}
        PROVE  /\ I[b].op = "param" => MachineCode[b].opcode = "pusharg"
               /\ I[b].op = "call" => MachineCode[b].opcode = "call"
               /\ I[b].op = "getretval" => MachineCode[b].opcode = "assign"
    BY <1>2, <2>4, CodeIs
  <2>5. QED
    BY <1>7, <2>1, <2>2, <2>3, <2>4
<1>17. PICK W, S : /\ W = [e \in Addresses |-> Entry(instructions[e].in)]
                   /\ S = [e \in {t_address[f] : f \in DOMAIN t_address} |-> 1]
  OBVIOUS
<1>18. W[a] = o /\ DOMAIN S = E /\ \A e \in E : S[e] = 1
  BY <1>2, <1>9, <1>10, <1>17
<1>19. /\ op \in {"getretval", "param", "call"} =>
             Contract!ArgFits(x.result, o) /\ x.result.type # "label_a"
       /\ op = "getretval" => x.result.type \notin Contract!ImmediateArgs
       /\ Contract!ArgFits(x.arg1, o)
  BY <1>8 DEF Contract!ArgFits, Contract!ImmediateArgs, JumpOps
<1>20. IF o = h THEN 1 <= 1 ELSE 1 <= S[o]
  BY <1>11, <1>18
<1>21. QED
  BY <1>1, <1>7, <1>8, <1>12, <1>13, <1>14, <1>15, <1>16, <1>17, <1>18, <1>19, <1>20
  DEF Contract!WellFormedAt, Contract!Functions, Contract!Main, Contract!Address, Addresses

LEMMA ContractFulfilled ==
  ASSUME NEW N, IsFinished(N)
  PROVE  Contract!WellFormedCode
<1>1. \A a \in Addresses : Contract!WellFormedAt(a)
  BY FulfilledAt
<1>2. 0 \in Addresses => Entry(instructions[0].in) = currInstruction
  <2>1. PICK Q, F, T, I, A, n, h :
          /\ Q = quads /\ F = first /\ T = taddress /\ I = instructions
          /\ A = t_address /\ n = nextQuad /\ h = currInstruction
    OBVIOUS
  <2>2. n \in Nat /\ h \in Nat /\ Finished(Q, F, T, I, A, N, n, h)
    BY <2>1 DEF IsFinished
  <2>3. PICK l \in 0 .. n : l = 0
    BY <2>2
  <2>4. Remains(I, A, h, EntryIn(A, h, InnermostOf(N[l])), From(F, n, h, l))
    BY <2>2, BeginRemains
  <2>5. From(F, n, h, l) = 0 /\ InnermostOf(N[l]) = Main
    BY <2>2, <2>3 DEF Finished, Joining, NestOf, InnermostOf
  <2>6. Remains(I, A, h, h, 0)
    BY <2>4, <2>5 DEF EntryIn
  <2>7. 0 \in Addresses => 0 # h
    BY <2>1, <2>2 DEF Addresses
  <2>8. QED
    BY <2>1, <2>6, <2>7 DEF Remains, Entry, EntryIn
<1>3. QED
  BY <1>1, <1>2 DEF Contract!WellFormedCode, Contract!Address, Addresses, Contract!Main

-----------------------------------------------------------------------------
(* The parser's part of it, behind which the generator runs *)

LEMMA InitCalls == Init => CallsInv
BY DEF Init, CallsInv

LEMMA StutterCalls == CallsInv /\ UNCHANGED vars => CallsInv'
BY DEF CallsInv, vars

LEMMA PlacedInvariant == TSpec => [](PlaceInv /\ CallsInv)
<1>1. TInit => PlaceInv /\ CallsInv
  BY InitPlaced, InitCalls DEF TInit
<1>2. GenInv /\ JumpsInv /\ PlaceInv /\ CallsInv /\ [TNext]_tvars => (PlaceInv /\ CallsInv)'
  <2>1. SUFFICES ASSUME GenInv, JumpsInv, PlaceInv, CallsInv, [TNext]_tvars
                 PROVE  (PlaceInv /\ CallsInv)'
    OBVIOUS
  <2>2. CASE UNCHANGED vars
    BY <2>1, <2>2, StutterPlaced, StutterCalls
  <2>3. CASE Parsing
    <3>1. ParseAny /\ ReservedInv /\ OpensInv
      BY <2>1, <2>3 DEF Parsing, GenInv, PhaseInv
    <3>2. QED
      BY <2>1, <3>1, PlaceKept, CallsKept
  <2>4. CASE TextBreaksOff
    <3>1. errors' > 0 /\ UNCHANGED quads
      BY <2>1, <2>4, BrokenOff DEF GenInv, TextBreaksOff
    <3>2. errors' # 0
      BY <3>1
    <3>3. QED
      BY <2>1, <3>1, <3>2 DEF PlaceInv, CallsInv
  <2>5. QED
    BY <2>1, <2>2, <2>3, <2>4, OnlyParsing
<1>3. QED
  BY <1>1, <1>2, JumpsHold, GenInvariant, PTL DEF TSpec

(* What the machine takes for granted about the code it runs, and never    *)
(* checks, holds for all that the compiler generates from a text without   *)
(* syntax errors in which no jump leads to a function: control stays in    *)
(* each function but for calls, the entries are those of functions, and the*)
(* quads of a call follow each other.                                      *)
THEOREM CodeIsWellFormed == TSpec => []CodeWellFormed
<1>1. GenInv /\ JumpsInv /\ PlaceInv /\ CallsInv /\ BlockInv => CodeWellFormed
  <2>1. SUFFICES ASSUME GenInv, JumpsInv, PlaceInv, CallsInv, BlockInv, WellMade
                 PROVE  Contract!WellFormedCode
    BY DEF CodeWellFormed, WellMade
  <2>2. PICK N : Finished(quads, first, taddress, instructions, t_address, N,
                          nextQuad, currInstruction)
    BY <2>1, GeneratorFinishes
  <2>3. IsFinished(N)
    BY <2>1, <2>2, TypesInGenerator DEF IsFinished
  <2>4. QED
    BY <2>3, ContractFulfilled
<1>2. QED
  BY <1>1, JumpsHold, GenInvariant, BlockInvariant, PlacedInvariant, PTL

=============================================================================
