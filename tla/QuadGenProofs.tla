--------------------------- MODULE QuadGenProofs ---------------------------
(***************************************************************************)
(* Theorems about the parser's stacks of labels and counters, for any      *)
(* number of quads, any nesting and any number of syntax errors.           *)
(***************************************************************************)
EXTENDS QuadGen, FiniteSetTheorems, WellFoundedInduction, TLAPS

-----------------------------------------------------------------------------
(* Sequences and functions *)

LEMMA PushFacts ==
  ASSUME NEW S, NEW s \in Seq(S), NEW x \in S
  PROVE  /\ Push(s, x) \in Seq(S) /\ Len(Push(s, x)) = Len(s) + 1
         /\ Push(s, x)[1] = x /\ Head(Push(s, x)) = x
         /\ \A i \in 1 .. Len(s) : Push(s, x)[i + 1] = s[i]
         /\ Push(s, x) # <<>> /\ Tail(Push(s, x)) = s
BY DEF Push

LEMMA TailFacts ==
  ASSUME NEW S, NEW s \in Seq(S), Len(s) > 0
  PROVE  /\ Head(s) \in S /\ Head(s) = s[1]
         /\ Tail(s) \in Seq(S) /\ Len(Tail(s)) = Len(s) - 1
         /\ \A i \in 1 .. Len(Tail(s)) : Tail(s)[i] = s[i + 1]
OBVIOUS

LEMMA DropFacts ==
  ASSUME NEW S, NEW s \in Seq(S), NEW n \in 0 .. Len(s)
  PROVE  /\ Drop(s, n) \in Seq(S) /\ Len(Drop(s, n)) = Len(s) - n
         /\ \A i \in 1 .. Len(s) - n : Drop(s, n)[i] = s[n + i]
BY DEF Drop

LEMMA AtMostFacts ==
  ASSUME NEW S, NEW s \in Seq(S), NEW n \in Nat
  PROVE  /\ AtMost(n, s) \in 0 .. Len(s)
         /\ n <= Len(s) => AtMost(n, s) = n
BY DEF AtMost

LEMMA WrittenFacts ==
  ASSUME NEW f, NEW g
  PROVE  /\ DOMAIN (f @@ g) = DOMAIN f \cup DOMAIN g
         /\ \A x \in DOMAIN f : (f @@ g)[x] = f[x]
         /\ \A x \in DOMAIN g : x \notin DOMAIN f => (f @@ g)[x] = g[x]
BY DEF @@

LEMMA OneFacts ==
  ASSUME NEW d, NEW e
  PROVE  DOMAIN (d :> e) = {d} /\ (d :> e)[d] = e
BY DEF :>

-----------------------------------------------------------------------------
(* Counting *)

LEMMA PartOfInterval ==
  ASSUME NEW n \in Nat, NEW T, T \subseteq 0 .. n
  PROVE  IsFiniteSet(T) /\ Cardinality(T) \in Nat
<1>1. IsFiniteSet(0 .. n)
  BY FS_Interval
<1>2. IsFiniteSet(T)
  BY <1>1, FS_Subset
<1>3. QED
  BY <1>2, FS_CardinalityType

LEMMA CountWith ==
  ASSUME NEW n \in Nat, NEW T, T \subseteq 0 .. n, NEW x, x \notin T
  PROVE  Cardinality(T \cup {x}) = Cardinality(T) + 1
BY PartOfInterval, FS_AddElement

LEMMA CountWithout ==
  ASSUME NEW n \in Nat, NEW T, T \subseteq 0 .. n, NEW x \in T
  PROVE  Cardinality(T \ {x}) = Cardinality(T) - 1
BY PartOfInterval, FS_RemoveElement

LEMMA CountOne ==
  ASSUME NEW n \in Nat, NEW T, T \subseteq 0 .. n
  PROVE  Cardinality(T) > 0 <=> T # {}
<1>1. IsFiniteSet(T) /\ Cardinality(T) \in Nat
  BY PartOfInterval
<1>2. Cardinality(T) = 0 <=> T = {}
  BY <1>1, FS_EmptySet
<1>3. Cardinality(T) > 0 <=> Cardinality(T) # 0
  BY <1>1
<1>4. QED
  BY <1>2, <1>3

LEMMA CountPart ==
  ASSUME NEW n \in Nat, NEW T, T \subseteq 0 .. n, NEW U, U \subseteq T
  PROVE  /\ Cardinality(U) <= Cardinality(T)
         /\ Cardinality(U) = Cardinality(T) => U = T
BY PartOfInterval, FS_Subset


-----------------------------------------------------------------------------
(* The types, for n quads.                                                 *)

Upto(n) == 0 .. n - 1

QuadsTyped(q, n) ==
  /\ DOMAIN q \subseteq Upto(n)
  /\ \A l \in DOMAIN q : q[l] \in [op : Ops, to : 0 .. n, in : Upto(n) \cup {Main}]

StacksOf(n) ==
  [break_stack : Seq(Upto(n)), continue_stack : Seq(Upto(n)),
   num_of_breaks_stack : Seq(Nat), num_of_continues_stack : Seq(Nat),
   for_start_stack : Seq(Upto(n)), while_end_label_stack : Seq(Upto(n))]

FramesOf(n) == [kind : Kinds, at : Phases, start : Nat, step : Nat,
                jumps : SUBSET (Upto(n) \X {"start", "end", "body", "else"})]

LabelsTyped(n) ==
  /\ while_start_label_stack \in Seq(0 .. n)
  /\ for_expr_start_stack \in Seq(0 .. n)
  /\ if_label_stack \in Seq(Upto(n)) /\ else_label_stack \in Seq(Upto(n))
  /\ has_else_stack \in Seq({0, 1})
  /\ function_name_stack \in Seq(Upto(n))

LEMMA TypesOf ==
  TypeOK <=> /\ currQuad \in Nat /\ errors \in Nat
             /\ QuadsTyped(quads, currQuad) /\ LabelsTyped(currQuad)
             /\ loops \in StacksOf(currQuad)
             /\ function_loop_stack \in Seq(StacksOf(currQuad))
             /\ open \in Seq(FramesOf(currQuad))
             /\ settled \subseteq Upto(currQuad) \X Nat
<1>1. /\ Labels = Upto(currQuad) /\ LoopStacks = StacksOf(currQuad)
      /\ Frame = FramesOf(currQuad)
  BY DEF Labels, LoopStacks, Frame, StacksOf, FramesOf, Upto
<1>2. QED
  BY <1>1 DEF TypeOK, QuadsTyped, LabelsTyped

(* What is typed for n quads is so for more. *)
LEMMA TypesGrow ==
  ASSUME NEW n \in Nat, NEW m \in Nat, n <= m
  PROVE  /\ Upto(n) \subseteq Upto(m)
         /\ StacksOf(n) \subseteq StacksOf(m) /\ FramesOf(n) \subseteq FramesOf(m)
         /\ \A q : QuadsTyped(q, n) => QuadsTyped(q, m)
         /\ LabelsTyped(n) => LabelsTyped(m)
<1>1. Upto(n) \subseteq Upto(m) /\ 0 .. n \subseteq 0 .. m
  BY DEF Upto
<1>2. \A s : s \in Seq(Upto(n)) => s \in Seq(Upto(m))
  BY <1>1
<1>3. StacksOf(n) \subseteq StacksOf(m)
  BY <1>2 DEF StacksOf
<1>4. FramesOf(n) \subseteq FramesOf(m)
  BY <1>1 DEF FramesOf
<1>5. ASSUME NEW q, QuadsTyped(q, n) PROVE QuadsTyped(q, m)
  BY <1>1, <1>5 DEF QuadsTyped
<1>6. ASSUME LabelsTyped(n) PROVE LabelsTyped(m)
  <2>1. \A s : s \in Seq(0 .. n) => s \in Seq(0 .. m)
    BY <1>1
  <2>2. QED
    BY <1>2, <1>6, <2>1 DEF LabelsTyped
<1>7. QED
  BY <1>1, <1>3, <1>4, <1>5, <1>6

-----------------------------------------------------------------------------
(* The invariant *)

(* Statements and functions by their depth: the outermost is at 0. *)
Depths == 0 .. Len(open) - 1
At(p) == open[Len(open) - p]

Having(kind, phases) == {p \in Depths : At(p).kind = kind /\ At(p).at \in phases}
Functions == Having("function", Phases)
Level(p)  == Cardinality(Functions \cap 0 .. p)
On(d, ps) == {p \in ps : Level(p) = d}

(* The stacks of the function on a level; level 0 is the program. *)
LoopsAt(d) ==
  IF d = Len(function_loop_stack) THEN loops
  ELSE function_loop_stack[Len(function_loop_stack) - d]

Begun(kind) == CASE kind = "if" -> {"cond", "body", "else"}
                 [] kind = "while" -> {"cond", "body"}
                 [] kind = "for" -> {"init", "cond", "step", "body"}
                 [] OTHER -> {"body"}

(* In a header only functions can begin. *)
OpenInv ==
  \A p \in Depths :
    /\ At(p).at \in Begun(At(p).kind)
    /\ At(p).at \in {"init", "cond", "step"} /\ p + 1 \in Depths
         => At(p + 1).kind = "function"

(* A syntax error leaves entries behind. *)
Covers(s, ps) ==
  /\ Cardinality(ps) <= Len(s)
  /\ errors = 0 => Cardinality(ps) = Len(s)

StacksInv ==
  /\ has_else_stack \in Seq({1})
  /\ Cardinality(Having("if", {"body", "else"})) = Len(if_label_stack)
  /\ Cardinality(Having("if", {"else"})) = Len(else_label_stack)
  /\ Cardinality(Having("if", {"else"})) = Len(has_else_stack)
  /\ Len(function_name_stack) = Len(function_loop_stack)
  /\ Covers(function_loop_stack, Functions)
  /\ Covers(while_start_label_stack, Having("while", Phases))
  /\ Covers(for_expr_start_stack, Having("for", Phases \ {"init"}))

LevelInv(d, L) ==
  LET n == Len(L.while_end_label_stack) + Len(L.for_start_stack)
             + Cardinality(On(d, Having("for", {"cond"})))
  IN
  /\ Cardinality(On(d, Having("while", {"body"}))) = Len(L.while_end_label_stack)
  /\ Covers(L.for_start_stack, On(d, Having("for", {"step", "body"})))
  /\ n <= Len(L.num_of_breaks_stack)
  /\ errors = 0 => n = Len(L.num_of_breaks_stack)
  /\ Len(L.num_of_breaks_stack) = Len(L.num_of_continues_stack)

(* No function has been forgotten behind its head. *)
HeadsKept == Cardinality(Functions) = Len(function_loop_stack)

LevelsInv ==
  HeadsKept => \A d \in 0 .. Len(function_loop_stack) : LevelInv(d, LoopsAt(d))

OpensInv == TypeOK /\ OpenInv /\ StacksInv /\ LevelsInv

-----------------------------------------------------------------------------
(* What is open *)

LEMMA DepthFacts ==
  ASSUME TypeOK
  PROVE  /\ Len(open) \in Nat /\ currQuad \in Nat
         /\ \A p \in Depths : /\ At(p) \in FramesOf(currQuad)
                              /\ At(p).kind \in Kinds /\ At(p).at \in Phases
         /\ \A kind, phases : Having(kind, phases) \subseteq 0 .. Len(open)
         /\ open # <<>> => /\ Len(open) - 1 \in Depths
                           /\ Innermost = At(Len(open) - 1)
                           /\ Head(open) = Innermost
<1>1. open \in Seq(FramesOf(currQuad)) /\ Len(open) \in Nat /\ currQuad \in Nat
  BY TypesOf
<1>2. ASSUME NEW p \in Depths PROVE At(p) \in FramesOf(currQuad)
  BY <1>1, <1>2 DEF Depths, At
<1>3. \A p \in Depths : At(p).kind \in Kinds /\ At(p).at \in Phases
  BY <1>2 DEF FramesOf
<1>4. \A kind, phases : Having(kind, phases) \subseteq 0 .. Len(open)
  BY <1>1 DEF Having, Depths
<1>5. ASSUME open # <<>>
      PROVE  /\ Len(open) - 1 \in Depths /\ Innermost = At(Len(open) - 1)
             /\ Head(open) = Innermost
  BY <1>1, <1>5 DEF Depths, At, Innermost
<1>6. QED
  BY <1>1, <1>2, <1>3, <1>4, <1>5

(* Functions are counted by their depth. *)
LEMMA LevelFacts ==
  ASSUME TypeOK
  PROVE  /\ Functions \subseteq 0 .. Len(open)
         /\ Cardinality(Functions) \in Nat
         /\ \A p \in Depths : /\ Level(p) \in 0 .. Cardinality(Functions)
                              /\ p = Len(open) - 1 => Level(p) = Cardinality(Functions)
<1>1. Functions \subseteq 0 .. Len(open) /\ Len(open) \in Nat
  BY DepthFacts DEF Functions
<1>2. Cardinality(Functions) \in Nat
  BY <1>1, PartOfInterval
<1>3. ASSUME NEW p \in Depths
      PROVE  Level(p) \in 0 .. Cardinality(Functions)
  <2>1. Functions \cap 0 .. p \subseteq Functions
    OBVIOUS
  <2>2. Functions \cap 0 .. p \subseteq 0 .. Len(open)
    BY <1>1
  <2>3. /\ Cardinality(Functions \cap 0 .. p) \in Nat
        /\ Cardinality(Functions \cap 0 .. p) <= Cardinality(Functions)
    BY <1>1, <2>1, <2>2, PartOfInterval, CountPart
  <2>4. QED
    BY <1>2, <2>3 DEF Level
<1>4. ASSUME NEW p \in Depths, p = Len(open) - 1
      PROVE  Level(p) = Cardinality(Functions)
  <2>1. Functions \subseteq 0 .. p
    BY <1>4 DEF Functions, Having, Depths
  <2>2. Functions \cap 0 .. p = Functions
    BY <2>1
  <2>3. QED
    BY <2>2 DEF Level
<1>5. QED
  BY <1>1, <1>2, <1>3, <1>4

(* A step changes only what is at depth m, the top before or after it. *)
Top(m) == IF Len(open) = m + 1 THEN <<At(m).kind, At(m).at>> ELSE <<"none", "none">>

TopChanges(m) ==
  /\ Len(open) \in {m, m + 1} /\ Len(open') \in {m, m + 1}
  /\ \A p \in 0 .. m - 1 : At(p)'.kind = At(p).kind /\ At(p)'.at = At(p).at

Is(top, kind, phases) == IF top[1] = kind /\ top[2] \in phases THEN 1 ELSE 0

LEMMA SetStep ==
  ASSUME NEW m \in Nat, NEW P, P \subseteq 0 .. m, NEW Q, Q \subseteq 0 .. m,
         P \ {m} = Q \ {m}
  PROVE  Cardinality(Q) = Cardinality(P) + (IF m \in Q THEN 1 ELSE 0)
                                         - (IF m \in P THEN 1 ELSE 0)
<1>p. Cardinality(P) \in Nat
  BY PartOfInterval
<1>q. Cardinality(Q) \in Nat
  BY PartOfInterval
<1>0. Cardinality(P) \in Nat /\ Cardinality(Q) \in Nat
  BY <1>p, <1>q
<1>1. CASE m \in P <=> m \in Q
  <2>1. P = Q
    BY <1>1
  <2>2. QED
    BY <1>0, <1>1, <2>1
<1>2. CASE m \in P /\ m \notin Q
  <2>1. Q = P \ {m}
    BY <1>2
  <2>2. Cardinality(Q) = Cardinality(P) - 1
    BY <1>0, <1>2, <2>1, CountWithout
  <2>3. QED
    BY <1>0, <1>2, <2>2
<1>3. CASE m \notin P /\ m \in Q
  <2>1. Q = P \cup {m}
    BY <1>3
  <2>2. Cardinality(Q) = Cardinality(P) + 1
    BY <1>0, <1>3, <2>1, CountWith
  <2>3. QED
    BY <1>0, <1>3, <2>2
<1>4. QED
  BY <1>1, <1>2, <1>3

LEMMA HavingStep ==
  ASSUME NEW m \in Nat, TopChanges(m), NEW kind, NEW phases, kind # "none"
  PROVE  /\ Having(kind, phases) \subseteq 0 .. m
         /\ Having(kind, phases)' \subseteq 0 .. m
         /\ Having(kind, phases)' \ {m} = Having(kind, phases) \ {m}
         /\ m \in Having(kind, phases) <=> Is(Top(m), kind, phases) = 1
         /\ m \in Having(kind, phases)' <=> Is(Top(m)', kind, phases) = 1
         /\ Cardinality(Having(kind, phases))' =
              Cardinality(Having(kind, phases)) + Is(Top(m)', kind, phases)
                                                - Is(Top(m), kind, phases)
<1> DEFINE P == Having(kind, phases)
<1>1. P \subseteq 0 .. m /\ P' \subseteq 0 .. m
  BY DEF TopChanges, Having, Depths
<1>2. P' \ {m} = P \ {m}
  BY DEF TopChanges, Having, Depths
<1>3. m \in P <=> Is(Top(m), kind, phases) = 1
  BY DEF TopChanges, Having, Depths, Is, Top
<1>4. m \in P' <=> Is(Top(m)', kind, phases) = 1
  BY DEF TopChanges, Having, Depths, Is, Top
<1>5. Is(Top(m), kind, phases) \in {0, 1} /\ Is(Top(m)', kind, phases) \in {0, 1}
  BY DEF Is
<1>6. Cardinality(P') = Cardinality(P) + (IF m \in P' THEN 1 ELSE 0)
                                       - (IF m \in P THEN 1 ELSE 0)
  <2> HIDE DEF P
  <2>1. QED
    BY <1>1, <1>2, SetStep
<1>7. (IF m \in P THEN 1 ELSE 0) = Is(Top(m), kind, phases)
  BY <1>3, <1>5
<1>8. (IF m \in P' THEN 1 ELSE 0) = Is(Top(m)', kind, phases)
  BY <1>4, <1>5
<1>9. QED
  BY <1>1, <1>2, <1>3, <1>4, <1>6, <1>7, <1>8


(* The levels of what is deeper do not change. *)
LEMMA LevelStep ==
  ASSUME NEW m \in Nat, TopChanges(m), NEW d, NEW kind, NEW phases, kind # "none"
  PROVE  /\ \A p \in 0 .. m - 1 : Level(p)' = Level(p)
         /\ On(d, Having(kind, phases)) \subseteq 0 .. m
         /\ On(d, Having(kind, phases))' \subseteq 0 .. m
         /\ On(d, Having(kind, phases))' \ {m} = On(d, Having(kind, phases)) \ {m}
<1>1. ASSUME NEW p \in 0 .. m - 1 PROVE Level(p)' = Level(p)
  <2>1. Functions' \ {m} = Functions \ {m}
    BY HavingStep DEF Functions
  <2>2. (Functions \cap 0 .. p)' = Functions \cap 0 .. p
    BY <1>1, <2>1
  <2>3. QED
    BY <2>2 DEF Level
<1>2. /\ Having(kind, phases) \subseteq 0 .. m /\ Having(kind, phases)' \subseteq 0 .. m
      /\ Having(kind, phases)' \ {m} = Having(kind, phases) \ {m}
  BY HavingStep
<1>3. /\ On(d, Having(kind, phases)) \subseteq 0 .. m
      /\ On(d, Having(kind, phases))' \subseteq 0 .. m
  BY <1>2 DEF On
<1>4. On(d, Having(kind, phases))' \ {m} = On(d, Having(kind, phases)) \ {m}
  <2>1. ASSUME NEW p \in 0 .. m, p # m
        PROVE  p \in On(d, Having(kind, phases))' <=> p \in On(d, Having(kind, phases))
    <3>1. p \in 0 .. m - 1
      BY <2>1
    <3>2. Level(p)' = Level(p)
      BY <1>1, <3>1
    <3>3. p \in Having(kind, phases)' <=> p \in Having(kind, phases)
      BY <1>2, <2>1
    <3>4. QED
      BY <3>2, <3>3 DEF On
  <2>2. QED
    BY <1>3, <2>1
<1>5. QED
  BY <1>1, <1>3, <1>4

LevelsKnown ==
  \A p \in Depths : p = Len(open) - 1 => Level(p) = Cardinality(Functions)

LEMMA LevelLater == TypeOK' => LevelsKnown'
<1>1. TypeOK => LevelsKnown
  BY LevelFacts DEF LevelsKnown
<1>2. QED
  BY <1>1, PTL

(* A step in one function. *)
LEMMA SameFunctions ==
  ASSUME NEW m \in Nat, TopChanges(m), Top(m)[1] # "function", Top(m)'[1] # "function"
  PROVE  Functions' = Functions
<1>1. m \notin Functions /\ m \notin Functions'
  BY HavingStep DEF Functions, Is
<1>2. Functions' \ {m} = Functions \ {m}
  BY HavingStep DEF Functions
<1>3. QED
  BY <1>1, <1>2

LEMMA OnStep ==
  ASSUME TypeOK, TypeOK', NEW m \in Nat, TopChanges(m),
         Top(m)[1] # "function", Top(m)'[1] # "function",
         NEW kind, kind # "none", kind # "function", NEW phases, NEW d
  PROVE  /\ Functions' = Functions
         /\ d # Cardinality(Functions) =>
              On(d, Having(kind, phases))' = On(d, Having(kind, phases))
         /\ d = Cardinality(Functions) =>
              Cardinality(On(d, Having(kind, phases)))' =
                Cardinality(On(d, Having(kind, phases)))
                  + Is(Top(m)', kind, phases) - Is(Top(m), kind, phases)
<1> DEFINE P == On(d, Having(kind, phases))
<1>1. Functions' = Functions
  BY SameFunctions
<1>2. /\ P \subseteq 0 .. m /\ P' \subseteq 0 .. m /\ P' \ {m} = P \ {m}
  BY LevelStep
<1>3. m \in P <=> Is(Top(m), kind, phases) = 1 /\ d = Cardinality(Functions)
  <2>1. CASE Len(open) = m + 1
    <3>1. m \in Depths /\ m = Len(open) - 1
      BY <2>1 DEF Depths
    <3>2. Level(m) = Cardinality(Functions)
      BY <3>1, LevelFacts
    <3>3. m \in Having(kind, phases) <=> Is(Top(m), kind, phases) = 1
      BY HavingStep
    <3>4. QED
      BY <3>2, <3>3 DEF On
  <2>2. CASE Len(open) # m + 1
    <3>1. m \notin Having(kind, phases)
      BY <2>2, HavingStep DEF Is, Top
    <3>2. ~ (Is(Top(m), kind, phases) = 1)
      BY <3>1, HavingStep
    <3>3. QED
      BY <3>1, <3>2 DEF On
  <2>3. QED
    BY <2>1, <2>2
<1>4. m \in P' <=> Is(Top(m)', kind, phases) = 1 /\ d = Cardinality(Functions)
  <2>1. CASE Len(open') = m + 1
    <3>1. (m \in Depths)' /\ (m = Len(open) - 1)'
      BY <2>1 DEF Depths
    <3>2. Level(m)' = Cardinality(Functions)'
      BY <3>1, LevelLater DEF LevelsKnown
    <3>3. m \in Having(kind, phases)' <=> Is(Top(m)', kind, phases) = 1
      BY HavingStep
    <3>4. QED
      BY <1>1, <3>2, <3>3 DEF On
  <2>2. CASE Len(open') # m + 1
    <3>1. m \notin Having(kind, phases)'
      BY <2>2, HavingStep DEF Is, Top
    <3>2. ~ (Is(Top(m)', kind, phases) = 1)
      BY <3>1, HavingStep
    <3>3. QED
      BY <3>1, <3>2 DEF On
  <2>3. QED
    BY <2>1, <2>2
<1>5. Is(Top(m), kind, phases) \in {0, 1} /\ Is(Top(m)', kind, phases) \in {0, 1}
  BY DEF Is
<1>6. ASSUME d # Cardinality(Functions) PROVE P' = P
  BY <1>2, <1>3, <1>4, <1>6
<1>7. ASSUME d = Cardinality(Functions)
      PROVE  Cardinality(P') = Cardinality(P) + Is(Top(m)', kind, phases)
                                              - Is(Top(m), kind, phases)
  <2> HIDE DEF P
  <2>1. Cardinality(P') = Cardinality(P) + (IF m \in P' THEN 1 ELSE 0)
                                         - (IF m \in P THEN 1 ELSE 0)
    BY <1>2, SetStep
  <2>2. (IF m \in P THEN 1 ELSE 0) = Is(Top(m), kind, phases)
    BY <1>3, <1>5, <1>7
  <2>3. (IF m \in P' THEN 1 ELSE 0) = Is(Top(m)', kind, phases)
    BY <1>4, <1>5, <1>7
  <2>4. QED
    BY <2>1, <2>2, <2>3
<1>8. QED
  BY <1>1, <1>6, <1>7


-----------------------------------------------------------------------------
(* What the innermost statement finds on the stacks *)

LEMMA InnermostCounted ==
  ASSUME TypeOK, open # <<>>, NEW kind, NEW phases,
         Innermost.kind = kind, Innermost.at \in phases
  PROVE  /\ Cardinality(Having(kind, phases)) > 0
         /\ Cardinality(On(Cardinality(Functions), Having(kind, phases))) > 0
<1> DEFINE p == Len(open) - 1
<1>1. p \in Depths /\ At(p) = Innermost /\ Len(open) \in Nat
  BY DepthFacts
<1>2. p \in Having(kind, phases)
  BY <1>1 DEF Having
<1>3. Level(p) = Cardinality(Functions)
  BY <1>1, LevelFacts
<1>4. p \in On(Cardinality(Functions), Having(kind, phases))
  BY <1>2, <1>3 DEF On
<1>5. /\ Having(kind, phases) \subseteq 0 .. Len(open)
      /\ On(Cardinality(Functions), Having(kind, phases)) \subseteq 0 .. Len(open)
  BY <1>1, DepthFacts DEF On
<1> HIDE DEF p
<1>6. Cardinality(Having(kind, phases)) > 0
  BY <1>1, <1>2, <1>5, CountOne
<1>7. Cardinality(On(Cardinality(Functions), Having(kind, phases))) > 0
  BY <1>1, <1>4, <1>5, CountOne
<1>8. QED
  BY <1>6, <1>7

(* The stacks of the current function. *)
LEMMA CurrentLoops ==
  ASSUME OpensInv, HeadsKept
  PROVE  LET F == Cardinality(Functions)
             n == Len(loops.while_end_label_stack) + Len(loops.for_start_stack)
                    + Cardinality(On(F, Having("for", {"cond"})))
         IN
         /\ F = Len(function_loop_stack) /\ F \in Nat
         /\ Cardinality(On(F, Having("while", {"body"}))) = Len(loops.while_end_label_stack)
         /\ Covers(loops.for_start_stack, On(F, Having("for", {"step", "body"})))
         /\ n <= Len(loops.num_of_breaks_stack)
         /\ errors = 0 => n = Len(loops.num_of_breaks_stack)
         /\ Len(loops.num_of_breaks_stack) = Len(loops.num_of_continues_stack)
         /\ Cardinality(On(F, Having("for", {"cond"}))) \in Nat
<1>1. /\ Cardinality(Functions) = Len(function_loop_stack)
      /\ Cardinality(Functions) \in Nat
  BY LevelFacts DEF OpensInv, HeadsKept
<1>2. LoopsAt(Cardinality(Functions)) = loops
  BY <1>1 DEF LoopsAt
<1>3. Cardinality(Functions) \in 0 .. Len(function_loop_stack)
  BY <1>1
<1>4. On(Cardinality(Functions), Having("for", {"cond"})) \subseteq 0 .. Len(open)
  BY DepthFacts DEF On, OpensInv
<1>5. Cardinality(On(Cardinality(Functions), Having("for", {"cond"}))) \in Nat
  BY <1>4, DepthFacts, PartOfInterval DEF OpensInv
<1>6. QED
  BY <1>1, <1>2, <1>3, <1>5 DEF OpensInv, LevelsInv, LevelInv

(* Without syntax errors no function is forgotten. *)
LEMMA AllHeadsKept == OpensInv /\ errors = 0 => HeadsKept
BY DEF OpensInv, StacksInv, Covers, HeadsKept

LEMMA LoopLengths ==
  ASSUME TypeOK
  PROVE  /\ Len(loops.while_end_label_stack) \in Nat
         /\ Len(loops.for_start_stack) \in Nat
         /\ Len(loops.num_of_breaks_stack) \in Nat
         /\ Len(loops.num_of_continues_stack) \in Nat
         /\ Len(loops.break_stack) \in Nat /\ Len(loops.continue_stack) \in Nat
<1>1. loops \in StacksOf(currQuad)
  BY TypesOf
<1>2. QED
  BY <1>1 DEF StacksOf

LEMMA CountersThere ==
  ASSUME TypeOK, Counting
  PROVE  /\ Len(loops.num_of_breaks_stack) > 0
         /\ Len(loops.num_of_continues_stack) > 0
<1>1. loops \in StacksOf(currQuad)
  BY TypesOf
<1>2. QED
  BY <1>1 DEF StacksOf, Counting

LEMMA IfThere ==
  ASSUME OpensInv, Expecting("if", "body") \/ Expecting("if", "else")
  PROVE  /\ Len(if_label_stack) > 0
         /\ Innermost.at = "else" => Len(else_label_stack) > 0 /\ Len(has_else_stack) > 0
BY InnermostCounted DEF OpensInv, StacksInv, Expecting

LEMMA WhileThere ==
  ASSUME OpensInv, Expecting("while", "body"), InWhile
  PROVE  /\ Len(while_start_label_stack) > 0
         /\ Len(loops.while_end_label_stack) > 0
         /\ Len(loops.num_of_breaks_stack) > 0
         /\ Len(loops.num_of_continues_stack) > 0
<1>1. Cardinality(Having("while", Phases)) > 0 /\ TypeOK
  BY InnermostCounted DEF OpensInv, Expecting, Phases
<1>2. Len(while_start_label_stack) \in Nat
  BY TypesOf, <1>1 DEF LabelsTyped
<1>3. Len(while_start_label_stack) > 0
  <2>1. Cardinality(Having("while", Phases)) \in Nat
    BY DepthFacts, PartOfInterval, <1>1
  <2>2. QED
    BY <1>1, <1>2, <2>1 DEF OpensInv, StacksInv, Covers
<1>4. Len(loops.while_end_label_stack) > 0
  <2>1. loops \in StacksOf(currQuad)
    BY <1>1, TypesOf
  <2>2. QED
    BY <2>1 DEF StacksOf, InWhile
<1>5. QED
  BY <1>1, <1>3, <1>4, CountersThere DEF InWhile

LEMMA ForThere ==
  ASSUME OpensInv, Expecting("for", "step") \/ Expecting("for", "body"), InFor
  PROVE  /\ Len(for_expr_start_stack) > 0
         /\ Len(loops.for_start_stack) > 0
<1>1. Cardinality(Having("for", Phases \ {"init"})) > 0
  BY InnermostCounted DEF OpensInv, Expecting, Phases
<1>2. Len(for_expr_start_stack) \in Nat /\ Len(loops.for_start_stack) \in Nat
  BY TypesOf, LoopLengths DEF LabelsTyped, OpensInv
<1>3. Cardinality(Having("for", Phases \ {"init"})) <= Len(for_expr_start_stack)
  BY DEF OpensInv, StacksInv, Covers
<1>4. Cardinality(Having("for", Phases \ {"init"})) \in Nat
  BY DepthFacts, PartOfInterval DEF OpensInv
<1>5. Len(loops.for_start_stack) > 0
  <2>1. loops \in StacksOf(currQuad)
    BY TypesOf DEF OpensInv
  <2>2. QED
    BY <2>1 DEF StacksOf, InFor
<1>6. QED
  BY <1>1, <1>2, <1>3, <1>4, <1>5

LEMMA FunctionThere ==
  ASSUME OpensInv, Expecting("function", "body")
  PROVE  Len(function_name_stack) > 0 /\ Len(function_loop_stack) > 0
<1>1. Cardinality(Functions) > 0 /\ TypeOK
  BY InnermostCounted DEF OpensInv, Expecting, Functions, Phases
<1>2. Cardinality(Functions) \in Nat /\ Len(function_loop_stack) \in Nat
  BY <1>1, LevelFacts, TypesOf
<1>3. QED
  BY <1>1, <1>2 DEF OpensInv, StacksInv, Covers


-----------------------------------------------------------------------------
(* Types are kept *)

QuadsOf(n) == [op : Ops, to : 0 .. n, in : Upto(n) \cup {Main}]

Typed ==
  /\ currQuad \in Nat /\ errors \in Nat
  /\ QuadsTyped(quads, currQuad) /\ LabelsTyped(currQuad)
  /\ loops \in StacksOf(currQuad)
  /\ function_loop_stack \in Seq(StacksOf(currQuad))
  /\ open \in Seq(FramesOf(currQuad))
  /\ settled \subseteq Upto(currQuad) \X Nat

LEMMA TypesLater == Typed' => TypeOK'
<1>1. Typed => TypeOK
  BY TypesOf DEF Typed
<1>2. QED
  BY <1>1, PTL

LEMMA FunctionTyped ==
  ASSUME TypeOK
  PROVE  Function \in Upto(currQuad) \cup {Main}
<1>1. function_name_stack \in Seq(Upto(currQuad))
  BY TypesOf DEF LabelsTyped
<1>2. CASE function_name_stack = <<>>
  BY <1>2 DEF Function
<1>3. CASE function_name_stack # <<>>
  <2>1. Head(function_name_stack) \in Upto(currQuad)
    BY <1>1, <1>3
  <2>2. QED
    BY <1>3, <2>1 DEF Function
<1>4. QED
  BY <1>2, <1>3

LEMMA QuadTyped ==
  ASSUME TypeOK, NEW n \in Nat, currQuad <= n, NEW op \in Ops, NEW to \in 0 .. n
  PROVE  Quad(op, to) \in QuadsOf(n)
<1>1. currQuad \in Nat
  BY TypesOf
<1>2. Function \in Upto(n) \cup {Main}
  BY <1>1, FunctionTyped, TypesGrow
<1>3. QED
  BY <1>2 DEF Quad, QuadsOf

LEMMA WrittenTyped ==
  ASSUME NEW n \in Nat, NEW f, QuadsTyped(f, n), NEW g, QuadsTyped(g, n)
  PROVE  QuadsTyped(f @@ g, n)
<1>1. DOMAIN (f @@ g) = DOMAIN f \cup DOMAIN g
  BY WrittenFacts
<1>2. ASSUME NEW l \in DOMAIN (f @@ g) PROVE (f @@ g)[l] \in QuadsOf(n)
  <2>1. CASE l \in DOMAIN f
    <3>1. (f @@ g)[l] = f[l]
      BY <2>1 DEF @@
    <3>2. QED
      BY <2>1, <3>1 DEF QuadsTyped, QuadsOf
  <2>2. CASE l \notin DOMAIN f
    <3>1. l \in DOMAIN g /\ (f @@ g)[l] = g[l]
      BY <1>1, <1>2, <2>2 DEF @@
    <3>2. QED
      BY <3>1 DEF QuadsTyped, QuadsOf
  <2>3. QED
    BY <2>1, <2>2
<1>3. DOMAIN (f @@ g) \subseteq Upto(n)
  BY <1>1 DEF QuadsTyped
<1>4. QED
  BY <1>2, <1>3 DEF QuadsTyped, QuadsOf

LEMMA OneTyped ==
  ASSUME NEW n \in Nat, NEW l \in Upto(n), NEW q \in QuadsOf(n)
  PROVE  QuadsTyped(l :> q, n)
BY DEF QuadsTyped, QuadsOf, :>

LEMMA PatchedTyped ==
  ASSUME TypeOK, NEW n \in Nat, currQuad <= n, NEW s \in Seq(Upto(currQuad)),
         NEW k \in 0 .. Len(s), NEW l \in 0 .. n
  PROVE  QuadsTyped(Patched(s, k, l), n)
<1>1. JumpTo(l) \in QuadsOf(n)
  BY QuadTyped DEF JumpTo, Ops, JumpOps
<1>2. Upto(currQuad) \subseteq Upto(n)
  BY TypesOf, TypesGrow
<1>3. {s[i] : i \in 1 .. k} \subseteq Upto(n)
  BY <1>2
<1>4. QED
  BY <1>1, <1>3 DEF Patched, QuadsTyped, QuadsOf

LEMMA EmittedWithin ==
  ASSUME TypeOK, NEW k \in Nat, NEW n \in Nat, currQuad + k <= n,
         NEW s \in Seq(QuadsOf(n)), Len(s) = k
  PROVE  QuadsTyped(Emitted(s), n)
<1> DEFINE f == [l \in currQuad .. currQuad + k - 1 |-> s[l - currQuad + 1]]
<1>1. currQuad \in Nat /\ currQuad <= n
  BY TypesOf
<1>2. QuadsTyped(quads, n)
  BY <1>1, TypesOf, TypesGrow
<1>3. QuadsTyped(f, n)
  <2>1. \A l \in currQuad .. currQuad + k - 1 :
          l - currQuad + 1 \in 1 .. k /\ l \in Upto(n)
    BY <1>1 DEF Upto
  <2>2. \A i \in 1 .. k : s[i] \in QuadsOf(n)
    OBVIOUS
  <2>3. QED
    BY <2>1, <2>2 DEF QuadsTyped, QuadsOf
<1>4. Emitted(s) = f @@ quads
  BY DEF Emitted
<1> HIDE DEF f
<1>5. QED
  BY <1>2, <1>3, <1>4, WrittenTyped

LEMMA EmittedTyped ==
  ASSUME TypeOK, NEW k \in Nat, NEW s \in Seq(QuadsOf(currQuad + k)), Len(s) = k
  PROVE  /\ QuadsTyped(Emitted(s), currQuad + k)
         /\ currQuad + k \in Nat /\ currQuad <= currQuad + k
<1>1. currQuad \in Nat /\ currQuad + k \in Nat /\ currQuad <= currQuad + k
  BY TypesOf
<1>2. QED
  BY <1>1, EmittedWithin

(* Everything stays typed when there are more quads. *)
LEMMA Grown ==
  ASSUME TypeOK, NEW n \in Nat, currQuad <= n
  PROVE  /\ currQuad \in Nat /\ errors \in Nat
         /\ QuadsTyped(quads, n)
         /\ while_start_label_stack \in Seq(0 .. n) /\ for_expr_start_stack \in Seq(0 .. n)
         /\ if_label_stack \in Seq(Upto(n)) /\ else_label_stack \in Seq(Upto(n))
         /\ has_else_stack \in Seq({0, 1}) /\ function_name_stack \in Seq(Upto(n))
         /\ loops \in StacksOf(n) /\ function_loop_stack \in Seq(StacksOf(n))
         /\ open \in Seq(FramesOf(n)) /\ settled \subseteq Upto(n) \X Nat
<1>1. /\ currQuad \in Nat /\ errors \in Nat
      /\ QuadsTyped(quads, currQuad) /\ LabelsTyped(currQuad)
      /\ loops \in StacksOf(currQuad)
      /\ function_loop_stack \in Seq(StacksOf(currQuad))
      /\ open \in Seq(FramesOf(currQuad))
      /\ settled \subseteq Upto(currQuad) \X Nat
  BY TypesOf
<1>2. /\ Upto(currQuad) \subseteq Upto(n)
      /\ StacksOf(currQuad) \subseteq StacksOf(n) /\ FramesOf(currQuad) \subseteq FramesOf(n)
      /\ QuadsTyped(quads, n) /\ LabelsTyped(n)
  BY <1>1, TypesGrow
<1>3. function_loop_stack \in Seq(StacksOf(n)) /\ open \in Seq(FramesOf(n))
  BY <1>1, <1>2
<1>4. loops \in StacksOf(n) /\ settled \subseteq Upto(n) \X Nat
  BY <1>1, <1>2
<1>5. QED
  BY <1>1, <1>2, <1>3, <1>4 DEF LabelsTyped

LEMMA EmitTypes ==
  ASSUME TypeOK, NEW k \in Nat, NEW s \in Seq(QuadsOf(currQuad + k)), Len(s) = k, Emit(s),
         settled' \subseteq Upto(currQuad + k) \X Nat
  PROVE  TypeOK'
<1> DEFINE n == currQuad + k
<1>1. QuadsTyped(Emitted(s), n) /\ n \in Nat /\ currQuad <= n
  BY EmittedTyped
<1>2. /\ quads' = Emitted(s) /\ currQuad' = n
      /\ UNCHANGED <<stacks, open, errors>>
  BY DEF Emit
<1>3. settled' \subseteq Upto(n) \X Nat
  OBVIOUS
<1> HIDE DEF n
<1>4. Typed'
  BY <1>1, <1>2, <1>3, Grown DEF Typed, LabelsTyped, stacks
<1>5. QED
  BY <1>4, TypesLater

LEMMA OneQuad ==
  ASSUME TypeOK, NEW op \in Ops, NEW to \in 0 .. currQuad + 1
  PROVE  /\ currQuad \in Nat /\ <<Quad(op, to)>> \in Seq(QuadsOf(currQuad + 1))
         /\ Len(<<Quad(op, to)>>) = 1
<1>1. currQuad \in Nat
  BY TypesOf
<1>2. Quad(op, to) \in QuadsOf(currQuad + 1)
  BY <1>1, QuadTyped
<1>3. QED
  BY <1>1, <1>2

(* A quad with an operand that is no label. *)
LEMMA OneOf ==
  ASSUME TypeOK, NEW op \in Ops, Emit(<<Quad(op, 0)>>), UNCHANGED settled
  PROVE  TypeOK'
<1>1. currQuad \in Nat
  BY TypesOf
<1>2. settled' \subseteq Upto(currQuad + 1) \X Nat
  BY <1>1, Grown
<1>3. <<Quad(op, 0)>> \in Seq(QuadsOf(currQuad + 1)) /\ Len(<<Quad(op, 0)>>) = 1
  BY <1>1, OneQuad
<1>4. QED
  BY <1>2, <1>3, EmitTypes

LEMMA ZeroQuads ==
  ASSUME TypeOK, NEW n \in Nat, currQuad <= n
  PROVE  \A op \in Ops : Quad(op, 0) \in QuadsOf(n)
<1>1. 0 \in 0 .. n
  OBVIOUS
<1>2. QED
  BY <1>1, QuadTyped

LEMMA ExpressionsTyped ==
  ASSUME TypeOK, Expression \/ Logic \/ Relop \/ Call \/ Return
  PROVE  TypeOK'
<1>0. currQuad \in Nat
  BY TypesOf
<1>1. CASE Expression
  BY <1>1, OneOf DEF Expression, Expr, Plain, Ops
<1>2. CASE Logic
  BY <1>2, OneOf DEF Logic, Expr, Ops
<1>3. CASE Return
  BY <1>3, OneOf DEF Return, Ops
<1>4. CASE Relop
  <2> DEFINE s == <<Quad("branch", currQuad + 3), Plain, JumpTo(currQuad + 4), Plain>>
             n == currQuad + 4
  <2>1. n \in Nat /\ currQuad <= n
    BY <1>0
  <2>2. /\ Quad("branch", currQuad + 3) \in QuadsOf(n) /\ Plain \in QuadsOf(n)
        /\ JumpTo(currQuad + 4) \in QuadsOf(n)
    BY <1>0, <2>1, QuadTyped DEF Plain, JumpTo, Ops, JumpOps
  <2>3. s \in Seq(QuadsOf(n)) /\ Len(s) = 4
    BY <2>2
  <2>4. settled' \subseteq Upto(n) \X Nat
    <3>1. settled \subseteq Upto(n) \X Nat
      BY <2>1, Grown
    <3>2. {<<currQuad, currQuad + 3>>, <<currQuad + 2, currQuad + 4>>} \subseteq Upto(n) \X Nat
      BY <1>0 DEF Upto
    <3>3. QED
      BY <1>4, <3>1, <3>2 DEF Relop
  <2>5. Emit(s)
    BY <1>4 DEF Relop, Expr
  <2> HIDE DEF s
  <2>6. QED
    BY <2>3, <2>4, <2>5, EmitTypes
<1>5. CASE Call
  <2>1. UNCHANGED settled
    BY <1>5 DEF Call
  <2>2. CASE Emit(<<Quad("call", 0), Quad("getretval", 0)>>)
    <3> DEFINE s == <<Quad("call", 0), Quad("getretval", 0)>>
               n == currQuad + 2
    <3>1. n \in Nat /\ currQuad <= n
      BY <1>0
    <3>2. Quad("call", 0) \in QuadsOf(n) /\ Quad("getretval", 0) \in QuadsOf(n)
      BY <3>1, ZeroQuads DEF Ops
    <3>3. s \in Seq(QuadsOf(n)) /\ Len(s) = 2
      BY <3>2
    <3>4. settled' \subseteq Upto(n) \X Nat
      BY <2>1, <3>1, Grown
    <3> HIDE DEF s
    <3>5. QED
      BY <2>2, <3>3, <3>4, EmitTypes DEF s
  <2>3. CASE Emit(<<Quad("param", 0), Quad("call", 0), Quad("getretval", 0)>>)
    <3> DEFINE s == <<Quad("param", 0), Quad("call", 0), Quad("getretval", 0)>>
               n == currQuad + 3
    <3>1. n \in Nat /\ currQuad <= n
      BY <1>0
    <3>2. /\ Quad("param", 0) \in QuadsOf(n) /\ Quad("call", 0) \in QuadsOf(n)
          /\ Quad("getretval", 0) \in QuadsOf(n)
      BY <3>1, ZeroQuads DEF Ops
    <3>3. s \in Seq(QuadsOf(n)) /\ Len(s) = 3
      BY <3>2
    <3>4. settled' \subseteq Upto(n) \X Nat
      BY <2>1, <3>1, Grown
    <3> HIDE DEF s
    <3>5. QED
      BY <2>3, <3>3, <3>4, EmitTypes DEF s
  <2>4. QED
    BY <1>5, <2>2, <2>3 DEF Call, Expr
<1>6. QED
  BY <1>1, <1>2, <1>3, <1>4, <1>5


Wheres == {"start", "end", "body", "else"}

LEMMA OpenedTyped ==
  ASSUME TypeOK, NEW n \in Nat, currQuad <= n, NEW kind \in Kinds, NEW at \in Phases
  PROVE  /\ Opened(kind, at) \in FramesOf(n)
         /\ Push(open, Opened(kind, at)) \in Seq(FramesOf(n))
<1>1. currQuad \in Nat /\ open \in Seq(FramesOf(n))
  BY Grown
<1>2. Opened(kind, at) \in FramesOf(n)
  BY <1>1 DEF Opened, FramesOf
<1> DEFINE S == FramesOf(n)
<1>3. Opened(kind, at) \in S /\ open \in Seq(S)
  BY <1>1, <1>2
<1> HIDE DEF S
<1>4. Push(open, Opened(kind, at)) \in Seq(S)
  BY <1>3, PushFacts
<1>5. QED
  BY <1>2, <1>4 DEF S

LEMMA InnermostTyped ==
  ASSUME TypeOK, open # <<>>, NEW n \in Nat, currQuad <= n
  PROVE  /\ Innermost \in FramesOf(n) /\ 1 \in DOMAIN open
         /\ Innermost.start \in Nat /\ Innermost.step \in Nat
         /\ Tail(open) \in Seq(FramesOf(n))
         /\ \A f \in FramesOf(n) : [open EXCEPT ![1] = f] \in Seq(FramesOf(n))
<1>1. open \in Seq(FramesOf(n))
  BY Grown
<1>2. 1 \in DOMAIN open /\ Innermost \in FramesOf(n)
  BY <1>1 DEF Innermost
<1>3. \A f \in FramesOf(n) : [open EXCEPT ![1] = f] \in Seq(FramesOf(n))
  BY <1>1
<1>4. Innermost.start \in Nat /\ Innermost.step \in Nat
  BY <1>2 DEF FramesOf
<1>5. Tail(open) \in Seq(FramesOf(n))
  BY <1>1
<1>6. QED
  BY <1>2, <1>3, <1>4, <1>5

LEMMA SettleTyped ==
  ASSUME TypeOK, open # <<>>, NEW where, NEW l \in Nat, NEW n \in Nat, currQuad <= n
  PROVE  Settle(where, l) \subseteq Upto(n) \X Nat
<1>1. Innermost \in FramesOf(n)
  BY InnermostTyped
<1>2. Innermost.jumps \subseteq Upto(n) \X Wheres
  BY <1>1 DEF FramesOf, Wheres
<1>3. Due(where) \subseteq Upto(n)
  BY <1>2 DEF Due
<1>4. QED
  BY <1>3 DEF Settle

(* The innermost statement goes on. *)
GoesOn(at, start, step, jumps) ==
  [open EXCEPT ![1] = [kind |-> Innermost.kind, at |-> at, start |-> start,
                       step |-> step, jumps |-> jumps]]

LEMMA GoesOnTyped ==
  ASSUME TypeOK, open # <<>>, NEW n \in Nat, currQuad <= n,
         NEW at \in Phases, NEW start \in Nat, NEW step \in Nat,
         NEW jumps, jumps \subseteq Upto(n) \X Wheres,
         open' = GoesOn(at, start, step, jumps)
  PROVE  open' \in Seq(FramesOf(n))
<1> DEFINE f == [kind |-> Innermost.kind, at |-> at, start |-> start,
                 step |-> step, jumps |-> jumps]
<1>1. Innermost.kind \in Kinds
  BY InnermostTyped DEF FramesOf
<1>2. f \in FramesOf(n)
  BY <1>1 DEF FramesOf, Wheres
<1> HIDE DEF f
<1>3. [open EXCEPT ![1] = f] \in Seq(FramesOf(n))
  BY <1>2, InnermostTyped
<1>4. QED
  BY <1>3 DEF f, GoesOn

(* What becomes of the innermost statement, field by field. *)
LEMMA InnermostFields ==
  ASSUME TypeOK, open # <<>>
  PROVE  /\ 1 \in DOMAIN open /\ Innermost = open[1]
         /\ Innermost \in FramesOf(currQuad)
         /\ open \in [DOMAIN open -> FramesOf(currQuad)]
         /\ Innermost = [kind |-> Innermost.kind, at |-> Innermost.at,
                         start |-> Innermost.start, step |-> Innermost.step,
                         jumps |-> Innermost.jumps]
<1>1. open \in Seq(FramesOf(currQuad)) /\ currQuad \in Nat
  BY TypesOf
<1>2. /\ 1 \in DOMAIN open /\ Innermost = open[1] /\ Innermost \in FramesOf(currQuad)
      /\ open \in [DOMAIN open -> FramesOf(currQuad)]
  BY <1>1 DEF Innermost
<1>3. Innermost = [kind |-> Innermost.kind, at |-> Innermost.at, start |-> Innermost.start,
                   step |-> Innermost.step, jumps |-> Innermost.jumps]
  BY <1>2 DEF FramesOf
<1>4. QED
  BY <1>2, <1>3

LEMMA PromiseForm ==
  ASSUME TypeOK, open # <<>>, NEW at, NEW q, NEW where
  PROVE  [Promise(1, q, where) EXCEPT ![1].at = at]
           = GoesOn(at, Innermost.start, Innermost.step, Innermost.jumps \cup {<<q, where>>})
<1> DEFINE new == [Promise(1, q, where) EXCEPT ![1].at = at]
<1>1. new = [open EXCEPT ![1] = new[1]]
  BY InnermostFields DEF Promise
<1>2. new[1] = [kind |-> Innermost.kind, at |-> at, start |-> Innermost.start,
             step |-> Innermost.step, jumps |-> Innermost.jumps \cup {<<q, where>>}]
  BY InnermostFields DEF Promise, FramesOf
<1> HIDE DEF new
<1>3. [open EXCEPT ![1] = new[1]] = [open EXCEPT ![1] = [kind |-> Innermost.kind, at |-> at, start |-> Innermost.start,
             step |-> Innermost.step, jumps |-> Innermost.jumps \cup {<<q, where>>}]]
  BY <1>2
<1>4. new = [open EXCEPT ![1] = [kind |-> Innermost.kind, at |-> at, start |-> Innermost.start,
             step |-> Innermost.step, jumps |-> Innermost.jumps \cup {<<q, where>>}]]
  BY <1>1, <1>3
<1>5. QED
  BY <1>4 DEF new, GoesOn

LEMMA ElseForm ==
  ASSUME TypeOK, IfElse
  PROVE  /\ open # <<>>
         /\ open' = GoesOn("else", Innermost.start, currQuad + 1,
                           Innermost.jumps \cup {<<currQuad, "end">>})
<1> DEFINE new == [open EXCEPT ![1].at = "else", ![1].step = currQuad + 1,
                         ![1].jumps = @ \cup {<<currQuad, "end">>}]
<1>1. open # <<>> /\ open' = new
  BY DEF IfElse, Expecting
<1>2. new = [open EXCEPT ![1] = new[1]]
  BY <1>1, InnermostFields
<1>3. new[1] = [kind |-> Innermost.kind, at |-> "else", start |-> Innermost.start,
             step |-> currQuad + 1, jumps |-> Innermost.jumps \cup {<<currQuad, "end">>}]
  BY <1>1, InnermostFields DEF FramesOf
<1> HIDE DEF new
<1>4. [open EXCEPT ![1] = new[1]] = [open EXCEPT ![1] = [kind |-> Innermost.kind, at |-> "else", start |-> Innermost.start,
             step |-> currQuad + 1, jumps |-> Innermost.jumps \cup {<<currQuad, "end">>}]]
  BY <1>3
<1>5. QED
  BY <1>1, <1>2, <1>4 DEF GoesOn

LEMMA CondForm ==
  ASSUME TypeOK, ForCond
  PROVE  /\ open # <<>>
         /\ open' = GoesOn("cond", currQuad, Innermost.step,
                           Innermost.jumps)
<1> DEFINE new == [open EXCEPT ![1].at = "cond", ![1].start = currQuad]
<1>1. open # <<>> /\ open' = new
  BY DEF ForCond, Expecting
<1>2. new = [open EXCEPT ![1] = new[1]]
  BY <1>1, InnermostFields
<1>3. new[1] = [kind |-> Innermost.kind, at |-> "cond", start |-> currQuad,
             step |-> Innermost.step, jumps |-> Innermost.jumps]
  BY <1>1, InnermostFields DEF FramesOf
<1> HIDE DEF new
<1>4. [open EXCEPT ![1] = new[1]] = [open EXCEPT ![1] = [kind |-> Innermost.kind, at |-> "cond", start |-> currQuad,
             step |-> Innermost.step, jumps |-> Innermost.jumps]]
  BY <1>3
<1>5. QED
  BY <1>1, <1>2, <1>4 DEF GoesOn

LEMMA StepForm ==
  ASSUME TypeOK, ForStep
  PROVE  /\ open # <<>>
         /\ open' = GoesOn("step", Innermost.start, currQuad + 2,
                           {<<currQuad, "body">>, <<currQuad + 1, "end">>})
<1> DEFINE new == [open EXCEPT ![1].at = "step", ![1].step = currQuad + 2,
                ![1].jumps = {<<currQuad, "body">>, <<currQuad + 1, "end">>}]
<1>1. open # <<>> /\ open' = new
  BY DEF ForStep, Expecting
<1>2. new = [open EXCEPT ![1] = new[1]]
  BY <1>1, InnermostFields
<1>3. new[1] = [kind |-> Innermost.kind, at |-> "step", start |-> Innermost.start,
             step |-> currQuad + 2, jumps |-> {<<currQuad, "body">>, <<currQuad + 1, "end">>}]
  BY <1>1, InnermostFields DEF FramesOf
<1> HIDE DEF new
<1>4. [open EXCEPT ![1] = new[1]] = [open EXCEPT ![1] = [kind |-> Innermost.kind, at |-> "step", start |-> Innermost.start,
             step |-> currQuad + 2, jumps |-> {<<currQuad, "body">>, <<currQuad + 1, "end">>}]]
  BY <1>3
<1>5. QED
  BY <1>1, <1>2, <1>4 DEF GoesOn

LEMMA BodyForm ==
  ASSUME TypeOK, ForBody
  PROVE  /\ open # <<>>
         /\ open' = GoesOn("body", Innermost.start, Innermost.step,
                           {p \in Innermost.jumps : p[2] # "body"})
<1> DEFINE new == [open EXCEPT ![1].at = "body",
                         ![1].jumps = {p \in @ : p[2] # "body"}]
<1>1. open # <<>> /\ open' = new
  BY DEF ForBody, StepDone, Expecting
<1>2. new = [open EXCEPT ![1] = new[1]]
  BY <1>1, InnermostFields
<1>3. new[1] = [kind |-> Innermost.kind, at |-> "body", start |-> Innermost.start,
             step |-> Innermost.step, jumps |-> {p \in Innermost.jumps : p[2] # "body"}]
  BY <1>1, InnermostFields DEF FramesOf
<1> HIDE DEF new
<1>4. [open EXCEPT ![1] = new[1]] = [open EXCEPT ![1] = [kind |-> Innermost.kind, at |-> "body", start |-> Innermost.start,
             step |-> Innermost.step, jumps |-> {p \in Innermost.jumps : p[2] # "body"}]]
  BY <1>3
<1>5. QED
  BY <1>1, <1>2, <1>4 DEF GoesOn

LEMMA FuncHeadTyped ==
  ASSUME TypeOK, FuncHead, open' \in Seq(FramesOf(currQuad + 1)), errors' \in Nat
  PROVE  TypeOK'
<1> DEFINE n == currQuad + 1
<1>0. currQuad \in Nat /\ n \in Nat /\ currQuad <= n /\ currQuad \in Upto(n)
  BY TypesOf DEF Upto
<1>1. currQuad \in 0 .. currQuad + 1
  BY <1>0
<1>2. <<Quad("func_start", currQuad)>> \in Seq(QuadsOf(n)) /\ Len(<<Quad("func_start", currQuad)>>) = 1
  BY <1>0, <1>1, OneQuad DEF Ops
<1>3. QuadsTyped(quads', n)
  BY <1>0, <1>2, EmittedTyped DEF FuncHead
<1>7. open' \in Seq(FramesOf(n))
  OBVIOUS
<1> HIDE DEF n
<1>4. function_loop_stack' \in Seq(StacksOf(n))
  <2> DEFINE S == StacksOf(n)
  <2>1. function_loop_stack \in Seq(S) /\ loops \in S
    BY <1>0, Grown
  <2> HIDE DEF S
  <2>2. Push(function_loop_stack, loops) \in Seq(S)
    BY <2>1, PushFacts
  <2>3. QED
    BY <2>2 DEF FuncHead, S
<1>5. loops' \in StacksOf(n)
  BY DEF FuncHead, NoLoops, StacksOf
<1>6. function_name_stack' \in Seq(Upto(n))
  <2> DEFINE S == Upto(n)
  <2>1. function_name_stack \in Seq(S) /\ currQuad \in S
    BY <1>0, Grown
  <2> HIDE DEF S
  <2>2. Push(function_name_stack, currQuad) \in Seq(S)
    BY <2>1, PushFacts
  <2>3. QED
    BY <2>2 DEF FuncHead, S
<1>8. Typed'
  BY <1>0, <1>3, <1>4, <1>5, <1>6, <1>7, Grown DEF Typed, LabelsTyped, FuncHead, n
<1>9. QED
  BY <1>8, TypesLater

LEMMA FunctionsTyped ==
  ASSUME OpensInv, FuncStart \/ FuncEnd
  PROVE  TypeOK'
<1> DEFINE n == currQuad + 1
<1>0. /\ TypeOK /\ currQuad \in Nat /\ n \in Nat /\ currQuad <= n /\ currQuad \in Upto(n)
      /\ errors \in Nat
  BY TypesOf DEF OpensInv, Upto
<1>1. CASE FuncStart
  <2>1. open' \in Seq(FramesOf(n))
    BY <1>0, <1>1, OpenedTyped DEF FuncStart, Kinds, Phases
  <2>2. QED
    BY <1>0, <1>1, <2>1, FuncHeadTyped DEF FuncStart
<1>2. CASE FuncEnd
  <2>0. /\ open # <<>> /\ Len(function_name_stack) > 0 /\ Len(function_loop_stack) > 0
    BY <1>2, FunctionThere DEF FuncEnd, Expecting
  <2>1. Head(function_name_stack) \in Upto(currQuad)
    <3>1. function_name_stack \in Seq(Upto(currQuad))
      BY <1>0, TypesOf DEF LabelsTyped
    <3>2. QED
      BY <2>0, <3>1
  <2>2. Head(function_name_stack) \in 0 .. currQuad + 1
    BY <1>0, <2>1 DEF Upto
  <2>3. /\ <<Quad("func_end", Head(function_name_stack))>> \in Seq(QuadsOf(n))
        /\ Len(<<Quad("func_end", Head(function_name_stack))>>) = 1
    BY <1>0, <2>2, OneQuad DEF Ops
  <2>4. QuadsTyped(quads', n)
    BY <1>0, <1>2, <2>3, EmittedTyped DEF FuncEnd
  <2> HIDE DEF n
  <2>5. function_loop_stack' \in Seq(StacksOf(n)) /\ loops' \in StacksOf(n)
    <3> DEFINE S == StacksOf(n)
    <3>1. function_loop_stack \in Seq(S)
      BY <1>0, Grown
    <3> HIDE DEF S
    <3>2. Head(function_loop_stack) \in S /\ Tail(function_loop_stack) \in Seq(S)
      BY <2>0, <3>1, TailFacts
    <3>3. QED
      BY <1>2, <3>2 DEF FuncEnd, S
  <2>6. function_name_stack' \in Seq(Upto(n))
    <3>1. function_name_stack \in Seq(Upto(n))
      BY <1>0, Grown
    <3>2. Tail(function_name_stack) \in Seq(Upto(n))
      BY <2>0, <3>1
    <3>3. QED
      BY <1>2, <3>2 DEF FuncEnd
  <2>7. open' \in Seq(FramesOf(n))
    BY <1>0, <1>2, <2>0, InnermostTyped DEF FuncEnd
  <2>8. settled' \subseteq Upto(n) \X Nat
    <3>1. Innermost.start \in Nat /\ settled \subseteq Upto(n) \X Nat
      BY <1>0, <2>0, InnermostTyped, Grown
    <3>2. QED
      BY <1>0, <1>2, <3>1 DEF FuncEnd
  <2>9. Typed'
    BY <1>0, <1>2, <2>4, <2>5, <2>6, <2>7, <2>8, Grown
    DEF Typed, LabelsTyped, FuncEnd, n
  <2>10. QED
    BY <2>9, TypesLater
<1>3. QED
  BY <1>1, <1>2

LEMMA TestTyped ==
  ASSUME TypeOK
  PROVE  QuadsTyped(Test, currQuad + 2)
<1>1. /\ currQuad \in Nat /\ currQuad + 2 \in Nat /\ currQuad + 2 \in 0 .. currQuad + 2
      /\ currQuad <= currQuad + 2 /\ currQuad + 1 <= currQuad + 2
  BY TypesOf
<1>2. Quad("branch", currQuad + 2) \in QuadsOf(currQuad + 2)
  BY <1>1, QuadTyped DEF Ops, JumpOps
<1>3. /\ <<Quad("branch", currQuad + 2)>> \in Seq(QuadsOf(currQuad + 2))
      /\ Len(<<Quad("branch", currQuad + 2)>>) = 1
  BY <1>2
<1>4. QED
  BY <1>1, <1>3, EmittedWithin DEF Test

(* The test of an if or while has been written.                            *)
LEMMA TestedTypes ==
  ASSUME TypeOK, open # <<>>, NEW where \in Wheres,
         open' = [Promise(1, currQuad + 1, where) EXCEPT ![1].at = "body"],
         settled' = settled \cup {<<currQuad, currQuad + 2>>}
  PROVE  /\ currQuad \in Nat /\ currQuad + 2 \in Nat /\ currQuad <= currQuad + 2
         /\ currQuad + 1 \in Upto(currQuad + 2)
         /\ open' \in Seq(FramesOf(currQuad + 2))
         /\ settled' \subseteq Upto(currQuad + 2) \X Nat
<1> DEFINE n == currQuad + 2
<1>1. /\ currQuad \in Nat /\ n \in Nat /\ currQuad <= n
      /\ currQuad + 1 \in Upto(n) /\ currQuad \in Upto(n)
  BY TypesOf DEF Upto
<1>2. settled' \subseteq Upto(n) \X Nat
  <2>1. settled \subseteq Upto(n) \X Nat
    BY <1>1, Grown
  <2>2. QED
    BY <1>1, <2>1
<1>3. open' \in Seq(FramesOf(n))
  <2>1. /\ Innermost.start \in Nat /\ Innermost.step \in Nat
        /\ Innermost \in FramesOf(n)
    BY <1>1, InnermostTyped
  <2>2. Innermost.jumps \subseteq Upto(n) \X Wheres
    BY <2>1 DEF FramesOf, Wheres
  <2>3. Innermost.jumps \cup {<<currQuad + 1, where>>} \subseteq Upto(n) \X Wheres
    BY <1>1, <2>2
  <2>4. open' = GoesOn("body", Innermost.start, Innermost.step,
                      Innermost.jumps \cup {<<currQuad + 1, where>>})
    BY PromiseForm, ZenonT(30)
  <2>5. "body" \in Phases
    BY DEF Phases
  <2> HIDE DEF n
  <2>6. QED
    BY <1>1, <2>1, <2>3, <2>4, <2>5, GoesOnTyped
<1>4. QED
  BY <1>1, <1>2, <1>3


LEMMA BeginsTyped ==
  ASSUME OpensInv, IfBegin \/ WhileBegin \/ ForBegin
  PROVE  TypeOK'
<1>0. TypeOK /\ currQuad \in Nat /\ currQuad <= currQuad
  BY TypesOf DEF OpensInv
<1>1. CASE IfBegin
  <2>1. open' \in Seq(FramesOf(currQuad))
    BY <1>0, <1>1, OpenedTyped DEF IfBegin, Kinds, Phases
  <2>2. Typed'
    BY <1>0, <1>1, <2>1, Grown DEF Typed, LabelsTyped, IfBegin, stacks
  <2>3. QED
    BY <2>2, TypesLater
<1>2. CASE ForBegin
  <2>1. open' \in Seq(FramesOf(currQuad))
    BY <1>0, <1>2, OpenedTyped DEF ForBegin, LoopBegin, Kinds, Phases
  <2>2. Typed'
    BY <1>0, <1>2, <2>1, Grown DEF Typed, LabelsTyped, ForBegin, stacks
  <2>3. QED
    BY <2>2, TypesLater
<1>3. CASE WhileBegin
  <2>1. open' \in Seq(FramesOf(currQuad))
    BY <1>0, <1>3, OpenedTyped DEF WhileBegin, LoopBegin, Kinds, Phases
  <2>2. while_start_label_stack' \in Seq(0 .. currQuad)
    <3> DEFINE S == 0 .. currQuad
    <3>1. while_start_label_stack \in Seq(S) /\ currQuad \in S
      BY <1>0, Grown
    <3> HIDE DEF S
    <3>2. Push(while_start_label_stack, currQuad) \in Seq(S)
      BY <3>1, PushFacts
    <3>3. QED
      BY <1>3, <3>2 DEF WhileBegin, S
  <2>3. Typed'
    BY <1>0, <1>3, <2>1, <2>2, Grown DEF Typed, LabelsTyped, WhileBegin
  <2>4. QED
    BY <2>3, TypesLater
<1>4. QED
  BY <1>1, <1>2, <1>3

LEMMA IfThenTyped ==
  ASSUME OpensInv, IfThen
  PROVE  TypeOK'
<1> DEFINE n == currQuad + 2
<1>1. /\ TypeOK /\ open # <<>> /\ "else" \in Wheres
      /\ open' = [Promise(1, currQuad + 1, "else") EXCEPT ![1].at = "body"]
      /\ settled' = settled \cup {<<currQuad, currQuad + 2>>}
  BY DEF OpensInv, IfThen, Expecting, Wheres
<1>2. /\ currQuad \in Nat /\ n \in Nat /\ currQuad <= n /\ currQuad + 1 \in Upto(n)
      /\ open' \in Seq(FramesOf(n)) /\ settled' \subseteq Upto(n) \X Nat
  BY <1>1, TestedTypes
<1>3. QuadsTyped(quads', n)
  BY <1>1, TestTyped DEF IfThen
<1> HIDE DEF n
<1>4. if_label_stack' \in Seq(Upto(n))
  <2> DEFINE S == Upto(n)
  <2>1. if_label_stack \in Seq(S) /\ currQuad + 1 \in S
    BY <1>1, <1>2, Grown
  <2> HIDE DEF S
  <2>2. Push(if_label_stack, currQuad + 1) \in Seq(S)
    BY <2>1, PushFacts
  <2>3. QED
    BY <2>2 DEF IfThen, S
<1>5. Typed'
  BY <1>1, <1>2, <1>3, <1>4, Grown DEF Typed, LabelsTyped, IfThen, n
<1>6. QED
  BY <1>5, TypesLater

LEMMA IfElseTyped ==
  ASSUME OpensInv, IfElse
  PROVE  TypeOK'
<1> DEFINE n == currQuad + 1
<1>1. TypeOK /\ open # <<>>
  BY DEF OpensInv, IfElse, Expecting
<1>2. currQuad \in Nat /\ n \in Nat /\ currQuad <= n /\ currQuad \in Upto(n)
  BY <1>1, TypesOf DEF Upto
<1>3. open' \in Seq(FramesOf(n))
  <2>1. Innermost.start \in Nat /\ Innermost \in FramesOf(n)
    BY <1>1, <1>2, InnermostTyped
  <2>2. Innermost.jumps \cup {<<currQuad, "end">>} \subseteq Upto(n) \X Wheres
    BY <1>2, <2>1 DEF FramesOf, Wheres
  <2>3. open' = GoesOn("else", Innermost.start, currQuad + 1,
                       Innermost.jumps \cup {<<currQuad, "end">>})
    BY <1>1, ElseForm
  <2>4. "else" \in Phases
    BY DEF Phases
  <2> HIDE DEF n
  <2>5. currQuad + 1 \in Nat
    BY <1>2
  <2>6. QED
    BY <1>1, <1>2, <2>1, <2>2, <2>3, <2>4, <2>5, GoesOnTyped
<1> HIDE DEF n
<1>4. else_label_stack' \in Seq(Upto(n))
  <2> DEFINE S == Upto(n)
  <2>1. else_label_stack \in Seq(S) /\ currQuad \in S
    BY <1>1, <1>2, Grown
  <2> HIDE DEF S
  <2>2. Push(else_label_stack, currQuad) \in Seq(S)
    BY <2>1, PushFacts
  <2>3. QED
    BY <2>2 DEF IfElse, S
<1>5. has_else_stack' \in Seq({0, 1})
  <2> DEFINE S == {0, 1}
  <2>1. has_else_stack \in Seq(S) /\ 1 \in S
    BY <1>1, <1>2, Grown
  <2> HIDE DEF S
  <2>2. Push(has_else_stack, 1) \in Seq(S)
    BY <2>1, PushFacts
  <2>3. QED
    BY <2>2 DEF IfElse, S
<1>6. Typed'
  BY <1>1, <1>2, <1>3, <1>4, <1>5, Grown DEF Typed, LabelsTyped, IfElse, n
<1>7. QED
  BY <1>6, TypesLater

(* Which quads the end of an if writes, and which entries it takes. *)
LEMMA IfEndForms ==
  ASSUME OpensInv, IfEnd
  PROVE  /\ TypeOK /\ open # <<>> /\ currQuad \in Nat
         /\ Head(if_label_stack) \in Upto(currQuad)
         /\ Innermost.at = "body" =>
              /\ quads' = (Head(if_label_stack) :> JumpTo(currQuad)) @@ quads
              /\ UNCHANGED <<else_label_stack, has_else_stack>>
         /\ Innermost.at = "else" =>
              /\ Head(else_label_stack) \in Upto(currQuad)
              /\ Len(else_label_stack) > 0 /\ Len(has_else_stack) > 0
              /\ quads' = (Head(if_label_stack) :> JumpTo(Head(else_label_stack) + 1))
                            @@ (Head(else_label_stack) :> JumpTo(currQuad)) @@ quads
              /\ else_label_stack' = Tail(else_label_stack)
              /\ has_else_stack' = Tail(has_else_stack)
<1>1. TypeOK /\ open # <<>> /\ currQuad \in Nat
  BY TypesOf DEF OpensInv, IfEnd, Expecting
<1>2. /\ Len(if_label_stack) > 0
      /\ Innermost.at = "else" => Len(else_label_stack) > 0 /\ Len(has_else_stack) > 0
  BY IfThere DEF IfEnd
<1>3. /\ if_label_stack \in Seq(Upto(currQuad)) /\ else_label_stack \in Seq(Upto(currQuad))
      /\ has_else_stack \in Seq({1}) /\ has_else_stack \in Seq({0, 1})
  BY <1>1, TypesOf DEF LabelsTyped, OpensInv, StacksInv
<1>4. Head(if_label_stack) \in Upto(currQuad)
  BY <1>2, <1>3
<1>5. CASE Innermost.at = "body"
  <2>1. Head(Push(has_else_stack, 0)) = 0 /\ Tail(Push(has_else_stack, 0)) = has_else_stack
    BY <1>3, PushFacts
  <2>2. QED
    BY <1>1, <1>4, <1>5, <2>1 DEF IfEnd
<1>6. CASE Innermost.at = "else"
  <2>1. Head(has_else_stack) = 1 /\ Head(else_label_stack) \in Upto(currQuad)
    BY <1>2, <1>3, <1>6
  <2>2. QED
    BY <1>1, <1>2, <1>4, <1>6, <2>1 DEF IfEnd
<1>7. QED
  BY <1>5, <1>6 DEF IfEnd, Expecting

LEMMA IfEndTyped ==
  ASSUME OpensInv, IfEnd
  PROVE  TypeOK'
<1>1. /\ TypeOK /\ open # <<>> /\ currQuad \in Nat /\ currQuad <= currQuad
      /\ Head(if_label_stack) \in Upto(currQuad)
  BY IfEndForms
<1>2. Innermost.at \in {"body", "else"} /\ Len(if_label_stack) > 0
  BY IfThere DEF IfEnd, Expecting
<1>3. QuadsTyped(quads, currQuad)
  BY <1>1, Grown
<1>4. JumpTo(currQuad) \in QuadsOf(currQuad)
  <2>1. currQuad \in 0 .. currQuad
    BY <1>1
  <2>2. QED
    BY <1>1, <2>1, QuadTyped DEF JumpTo, Ops, JumpOps
<1>5. QuadsTyped(quads', currQuad)
  <2>1. CASE Innermost.at = "body"
    BY <1>1, <1>3, <1>4, <2>1, IfEndForms, OneTyped, WrittenTyped
  <2>2. CASE Innermost.at = "else"
    <3>1. Head(else_label_stack) \in Upto(currQuad)
      BY <2>2, IfEndForms
    <3>2. Head(else_label_stack) + 1 \in 0 .. currQuad
      BY <1>1, <3>1 DEF Upto
    <3>3. JumpTo(Head(else_label_stack) + 1) \in QuadsOf(currQuad)
      BY <1>1, <3>2, QuadTyped DEF JumpTo, Ops, JumpOps
    <3>4. QuadsTyped(Head(else_label_stack) :> JumpTo(currQuad), currQuad)
      BY <1>1, <1>4, <3>1, OneTyped
    <3>5. QuadsTyped(Head(if_label_stack) :> JumpTo(Head(else_label_stack) + 1), currQuad)
      BY <1>1, <3>3, OneTyped
    <3>6. QuadsTyped((Head(if_label_stack) :> JumpTo(Head(else_label_stack) + 1))
                       @@ (Head(else_label_stack) :> JumpTo(currQuad)), currQuad)
      BY <1>1, <3>4, <3>5, WrittenTyped
    <3>7. QED
      BY <1>1, <1>3, <2>2, <3>6, IfEndForms, WrittenTyped
  <2>3. QED
    BY <1>2, <2>1, <2>2
<1>6. /\ if_label_stack' \in Seq(Upto(currQuad))
      /\ else_label_stack' \in Seq(Upto(currQuad))
      /\ has_else_stack' \in Seq({0, 1})
  <2>1. /\ if_label_stack \in Seq(Upto(currQuad)) /\ else_label_stack \in Seq(Upto(currQuad))
        /\ has_else_stack \in Seq({0, 1}) /\ Len(if_label_stack) > 0
    BY <1>1, <1>2, Grown
  <2>2. if_label_stack' \in Seq(Upto(currQuad))
    BY <2>1 DEF IfEnd
  <2>3. CASE Innermost.at = "body"
    BY <2>1, <2>2, <2>3, IfEndForms
  <2>4. CASE Innermost.at = "else"
    <3>1. /\ Len(else_label_stack) > 0 /\ Len(has_else_stack) > 0
          /\ else_label_stack' = Tail(else_label_stack)
          /\ has_else_stack' = Tail(has_else_stack)
      BY <2>4, IfEndForms
    <3>2. QED
      BY <2>1, <2>2, <3>1
  <2>5. QED
    BY <1>2, <2>3, <2>4
<1>7. open' \in Seq(FramesOf(currQuad))
  BY <1>1, InnermostTyped DEF IfEnd
<1>8. settled' \subseteq Upto(currQuad) \X Nat
  <2>1. settled \subseteq Upto(currQuad) \X Nat /\ Innermost.step \in Nat
    BY <1>1, Grown, InnermostTyped
  <2>2. Settle("end", currQuad) \subseteq Upto(currQuad) \X Nat
    BY <1>1, SettleTyped
  <2>3. \A l \in Nat : Settle("else", l) \subseteq Upto(currQuad) \X Nat
    BY <1>1, SettleTyped
  <2>4. (IF Innermost.at = "else" THEN Innermost.step ELSE currQuad) \in Nat
    BY <1>1, <2>1
  <2>5. QED
    BY <2>1, <2>2, <2>3, <2>4 DEF IfEnd
<1>9. Typed'
  BY <1>1, <1>5, <1>6, <1>7, <1>8, Grown DEF Typed, LabelsTyped, IfEnd
<1>10. QED
  BY <1>9, TypesLater


LEMMA LoopFields ==
  ASSUME TypeOK, NEW n \in Nat, currQuad <= n
  PROVE  /\ loops.break_stack \in Seq(Upto(n)) /\ loops.continue_stack \in Seq(Upto(n))
         /\ loops.num_of_breaks_stack \in Seq(Nat)
         /\ loops.num_of_continues_stack \in Seq(Nat)
         /\ loops.for_start_stack \in Seq(Upto(n))
         /\ loops.while_end_label_stack \in Seq(Upto(n))
         /\ loops = [break_stack |-> loops.break_stack,
                     continue_stack |-> loops.continue_stack,
                     num_of_breaks_stack |-> loops.num_of_breaks_stack,
                     num_of_continues_stack |-> loops.num_of_continues_stack,
                     for_start_stack |-> loops.for_start_stack,
                     while_end_label_stack |-> loops.while_end_label_stack]
<1>1. loops \in StacksOf(n)
  BY Grown
<1>2. QED
  BY <1>1 DEF StacksOf

(* Counters for a loop that begins. *)
LEMMA CountersPushed ==
  ASSUME TypeOK
  PROVE  /\ Push(loops.num_of_breaks_stack, 0) \in Seq(Nat)
         /\ Push(loops.num_of_continues_stack, 0) \in Seq(Nat)
         /\ Len(Push(loops.num_of_breaks_stack, 0)) = Len(loops.num_of_breaks_stack) + 1
         /\ Len(Push(loops.num_of_continues_stack, 0)) = Len(loops.num_of_continues_stack) + 1
<1>0. currQuad \in Nat /\ currQuad <= currQuad
  BY TypesOf
<1>1. /\ loops.num_of_breaks_stack \in Seq(Nat)
      /\ loops.num_of_continues_stack \in Seq(Nat)
  BY <1>0, LoopFields
<1> DEFINE a == loops.num_of_breaks_stack
           b == loops.num_of_continues_stack
<1> HIDE DEF a, b
<1>2. Push(a, 0) \in Seq(Nat) /\ Len(Push(a, 0)) = Len(a) + 1
  BY <1>1, PushFacts DEF a
<1>3. Push(b, 0) \in Seq(Nat) /\ Len(Push(b, 0)) = Len(b) + 1
  BY <1>1, PushFacts DEF b
<1>4. QED
  BY <1>2, <1>3 DEF a, b

LEMMA LabelPushed ==
  ASSUME NEW n \in Nat, NEW s \in Seq(Upto(n)), NEW l \in Upto(n)
  PROVE  Push(s, l) \in Seq(Upto(n)) /\ Len(Push(s, l)) = Len(s) + 1
<1> DEFINE S == Upto(n)
<1>1. s \in Seq(S) /\ l \in S
  OBVIOUS
<1> HIDE DEF S
<1>2. Push(s, l) \in Seq(S) /\ Len(Push(s, l)) = Len(s) + 1
  BY <1>1, PushFacts
<1>3. QED
  BY <1>2 DEF S

LEMMA WhileBodyTyped ==
  ASSUME OpensInv, WhileBody
  PROVE  TypeOK'
<1> DEFINE n == currQuad + 2
<1>1. /\ TypeOK /\ open # <<>> /\ "end" \in Wheres
      /\ open' = [Promise(1, currQuad + 1, "end") EXCEPT ![1].at = "body"]
      /\ settled' = settled \cup {<<currQuad, currQuad + 2>>}
  BY DEF OpensInv, WhileBody, Expecting, Wheres
<1>2. /\ currQuad \in Nat /\ n \in Nat /\ currQuad <= n /\ currQuad + 1 \in Upto(n)
      /\ open' \in Seq(FramesOf(n)) /\ settled' \subseteq Upto(n) \X Nat
  BY <1>1, TestedTypes
<1>3. QuadsTyped(quads', n)
  BY <1>1, TestTyped DEF WhileBody
<1> HIDE DEF n
<1>4. loops' \in StacksOf(n)
  <2>1. Push(loops.while_end_label_stack, currQuad + 1) \in Seq(Upto(n))
    BY <1>1, <1>2, LoopFields, LabelPushed
  <2>2. QED
    BY <1>1, <1>2, <2>1, LoopFields, CountersPushed DEF WhileBody, StacksOf
<1>5. Typed'
  BY <1>1, <1>2, <1>3, <1>4, Grown DEF Typed, LabelsTyped, WhileBody, n
<1>6. QED
  BY <1>5, TypesLater

LEMMA ForCondTyped ==
  ASSUME OpensInv, ForCond
  PROVE  TypeOK'
<1>1. TypeOK /\ open # <<>> /\ currQuad \in Nat /\ currQuad <= currQuad
  BY TypesOf DEF OpensInv, ForCond, Expecting
<1>2. open' \in Seq(FramesOf(currQuad))
  <2>1. Innermost.step \in Nat /\ Innermost \in FramesOf(currQuad)
    BY <1>1, InnermostTyped
  <2>2. Innermost.jumps \subseteq Upto(currQuad) \X Wheres
    BY <2>1 DEF FramesOf, Wheres
  <2>3. open' = GoesOn("cond", currQuad, Innermost.step, Innermost.jumps)
    BY <1>1, CondForm
  <2>4. "cond" \in Phases
    BY DEF Phases
  <2>5. QED
    BY <1>1, <2>1, <2>2, <2>3, <2>4, GoesOnTyped
<1>3. loops' \in StacksOf(currQuad)
  BY <1>1, LoopFields, CountersPushed DEF ForCond, StacksOf
<1>4. for_expr_start_stack' \in Seq(0 .. currQuad)
  <2> DEFINE S == 0 .. currQuad
  <2>1. for_expr_start_stack \in Seq(S) /\ currQuad \in S
    BY <1>1, Grown
  <2> HIDE DEF S
  <2>2. Push(for_expr_start_stack, currQuad) \in Seq(S)
    BY <2>1, PushFacts
  <2>3. QED
    BY <2>2 DEF ForCond, S
<1>5. Typed'
  BY <1>1, <1>2, <1>3, <1>4, Grown DEF Typed, LabelsTyped, ForCond
<1>6. QED
  BY <1>5, TypesLater

LEMMA ForStepTyped ==
  ASSUME OpensInv, ForStep
  PROVE  TypeOK'
<1> DEFINE n == currQuad + 2
<1>1. TypeOK /\ open # <<>>
  BY DEF OpensInv, ForStep, Expecting
<1>2. /\ currQuad \in Nat /\ n \in Nat /\ currQuad <= n
      /\ currQuad \in Upto(n) /\ currQuad + 1 \in Upto(n)
  BY <1>1, TypesOf DEF Upto
<1>3. open' \in Seq(FramesOf(n))
  <2>1. Innermost.start \in Nat
    BY <1>1, <1>2, InnermostTyped
  <2>2. {<<currQuad, "body">>, <<currQuad + 1, "end">>} \subseteq Upto(n) \X Wheres
    BY <1>2 DEF Wheres
  <2>3. open' = GoesOn("step", Innermost.start, currQuad + 2,
                       {<<currQuad, "body">>, <<currQuad + 1, "end">>})
    BY <1>1, StepForm
  <2>4. "step" \in Phases /\ currQuad + 2 \in Nat
    BY <1>2 DEF Phases
  <2> HIDE DEF n
  <2>5. QED
    BY <1>1, <1>2, <2>1, <2>2, <2>3, <2>4, GoesOnTyped
<1> HIDE DEF n
<1>4. loops' \in StacksOf(n)
  <2>1. Push(loops.for_start_stack, currQuad) \in Seq(Upto(n))
    BY <1>1, <1>2, LoopFields, LabelPushed
  <2>2. QED
    BY <1>1, <1>2, <2>1, LoopFields DEF ForStep, StacksOf
<1>5. Typed'
  BY <1>1, <1>2, <1>3, <1>4, Grown DEF Typed, LabelsTyped, ForStep, n
<1>6. QED
  BY <1>5, TypesLater

LEMMA StepDoneTyped ==
  ASSUME OpensInv, StepDone, open' \in Seq(FramesOf(currQuad + 1)), errors' \in Nat
  PROVE  TypeOK'
<1> DEFINE n == currQuad + 1
<1>1. /\ TypeOK /\ open # <<>>
      /\ Len(for_expr_start_stack) > 0 /\ Len(loops.for_start_stack) > 0
  BY ForThere DEF OpensInv, StepDone, Expecting
<1>2. currQuad \in Nat /\ n \in Nat /\ currQuad <= n /\ currQuad \in Upto(n)
  BY <1>1, TypesOf DEF Upto
<1>3. open' \in Seq(FramesOf(n))
  OBVIOUS
<1>4. QuadsTyped(quads', n)
  <2>1. for_expr_start_stack \in Seq(0 .. currQuad)
    BY <1>1, TypesOf DEF LabelsTyped
  <2>2. Head(for_expr_start_stack) \in 0 .. n
    <3> DEFINE S == 0 .. currQuad
    <3>0. for_expr_start_stack \in Seq(S) /\ Len(for_expr_start_stack) > 0
      BY <1>1, <2>1
    <3> HIDE DEF S
    <3>1. Head(for_expr_start_stack) \in S
      BY <3>0, TailFacts
    <3>2. QED
      BY <1>2, <3>1 DEF S
  <2>3. Head(loops.for_start_stack) \in Upto(n)
    BY <1>1, <1>2, LoopFields
  <2>4. JumpTo(Head(for_expr_start_stack)) \in QuadsOf(n)
    BY <1>1, <1>2, <2>2, QuadTyped DEF JumpTo, Ops, JumpOps
  <2>5. Quad("branch", currQuad + 1) \in QuadsOf(n)
    <3>1. currQuad + 1 \in 0 .. n
      BY <1>2
    <3>2. QED
      BY <1>1, <1>2, <3>1, QuadTyped DEF Ops, JumpOps
  <2> HIDE DEF n
  <2>6. QuadsTyped(currQuad :> JumpTo(Head(for_expr_start_stack)), n)
    BY <1>2, <2>4, OneTyped
  <2>7. QuadsTyped(Head(loops.for_start_stack) :> Quad("branch", currQuad + 1), n)
    BY <1>2, <2>3, <2>5, OneTyped
  <2>8. QuadsTyped(quads, n)
    BY <1>1, <1>2, Grown
  <2>9. QuadsTyped((currQuad :> JumpTo(Head(for_expr_start_stack)))
                     @@ (Head(loops.for_start_stack) :> Quad("branch", currQuad + 1)), n)
    BY <1>2, <2>6, <2>7, WrittenTyped
  <2>10. QED
    BY <1>2, <2>8, <2>9, WrittenTyped DEF StepDone
<1>5. settled' \subseteq Upto(n) \X Nat
  <2>1. Innermost.start \in Nat /\ settled \subseteq Upto(n) \X Nat
    BY <1>1, <1>2, InnermostTyped, Grown
  <2>2. Settle("body", currQuad + 1) \subseteq Upto(n) \X Nat
    BY <1>1, <1>2, SettleTyped
  <2>3. QED
    BY <1>2, <2>1, <2>2 DEF StepDone
<1> HIDE DEF n
<1>6. Typed'
  BY <1>1, <1>2, <1>3, <1>4, <1>5, Grown DEF Typed, LabelsTyped, StepDone, n, stacks
<1>7. QED
  BY <1>6, TypesLater

LEMMA ForBodyTyped ==
  ASSUME OpensInv, ForBody
  PROVE  TypeOK'
<1> DEFINE n == currQuad + 1
<1>1. TypeOK /\ open # <<>>
  BY DEF OpensInv, ForBody, StepDone, Expecting
<1>2. currQuad \in Nat /\ n \in Nat /\ currQuad <= n /\ errors \in Nat
  BY <1>1, TypesOf
<1>3. open' \in Seq(FramesOf(n))
  <2>1. /\ Innermost.start \in Nat /\ Innermost.step \in Nat
        /\ Innermost \in FramesOf(n)
    BY <1>1, <1>2, InnermostTyped
  <2>2. {p \in Innermost.jumps : p[2] # "body"} \subseteq Upto(n) \X Wheres
    BY <2>1 DEF FramesOf, Wheres
  <2>3. open' = GoesOn("body", Innermost.start, Innermost.step,
                       {p \in Innermost.jumps : p[2] # "body"})
    BY <1>1, BodyForm
  <2>4. "body" \in Phases
    BY DEF Phases
  <2> HIDE DEF n
  <2>5. QED
    BY <1>1, <1>2, <2>1, <2>2, <2>3, <2>4, GoesOnTyped
<1>4. QED
  BY <1>2, <1>3, StepDoneTyped DEF ForBody


-----------------------------------------------------------------------------
(* The end of a loop *)

LEMMA BreaksFacts ==
  ASSUME TypeOK, Len(loops.num_of_breaks_stack) > 0, Len(loops.num_of_continues_stack) > 0
  PROVE  /\ Head(loops.num_of_breaks_stack) \in Nat
         /\ Head(loops.num_of_continues_stack) \in Nat
         /\ Breaks \in 0 .. Len(loops.break_stack)
         /\ Continues \in 0 .. Len(loops.continue_stack)
         /\ Head(loops.num_of_breaks_stack) <= Len(loops.break_stack) =>
              Breaks = Head(loops.num_of_breaks_stack)
         /\ Head(loops.num_of_continues_stack) <= Len(loops.continue_stack) =>
              Continues = Head(loops.num_of_continues_stack)
<1>0. currQuad \in Nat /\ currQuad <= currQuad
  BY TypesOf
<1>1. /\ loops.break_stack \in Seq(Upto(currQuad)) /\ loops.continue_stack \in Seq(Upto(currQuad))
      /\ loops.num_of_breaks_stack \in Seq(Nat)
      /\ loops.num_of_continues_stack \in Seq(Nat)
  BY <1>0, LoopFields
<1>2. Head(loops.num_of_breaks_stack) \in Nat /\ Head(loops.num_of_continues_stack) \in Nat
  BY <1>1, SMTT(30)
<1> DEFINE a == Head(loops.num_of_breaks_stack)
           b == Head(loops.num_of_continues_stack)
           s == loops.break_stack
           t == loops.continue_stack
           S == Upto(currQuad)
<1>3. a \in Nat /\ b \in Nat /\ s \in Seq(S) /\ t \in Seq(S)
  BY <1>1, <1>2
<1> HIDE DEF a, b, s, t, S
<1>4. AtMost(a, s) \in 0 .. Len(s) /\ (a <= Len(s) => AtMost(a, s) = a)
  BY <1>3, AtMostFacts
<1>5. AtMost(b, t) \in 0 .. Len(t) /\ (b <= Len(t) => AtMost(b, t) = b)
  BY <1>3, AtMostFacts
<1>6. QED
  BY <1>2, <1>4, <1>5 DEF a, b, s, t, Breaks, Continues

(* The four stacks that the end of a loop writes. *)
LoopRecord(a, b, c, d, f, w) ==
  [break_stack |-> a, continue_stack |-> b, num_of_breaks_stack |-> c,
   num_of_continues_stack |-> d, for_start_stack |-> f, while_end_label_stack |-> w]

LEMMA LoopsWritten ==
  ASSUME TypeOK, NEW a1, NEW b1, NEW c1, NEW d1
  PROVE  [loops EXCEPT !.break_stack = a1, !.continue_stack = b1,
                       !.num_of_breaks_stack = c1, !.num_of_continues_stack = d1]
           = LoopRecord(a1, b1, c1, d1, loops.for_start_stack, loops.while_end_label_stack)
<1> DEFINE a == loops.break_stack
           b == loops.continue_stack
           c == loops.num_of_breaks_stack
           d == loops.num_of_continues_stack
           f == loops.for_start_stack
           w == loops.while_end_label_stack
<1>0. PICK r : r = loops
  OBVIOUS
<1>r. r = LoopRecord(a, b, c, d, f, w)
  <2>1. currQuad \in Nat /\ currQuad <= currQuad
    BY TypesOf
  <2>2. QED
    BY <1>0, <2>1, LoopFields DEF LoopRecord
<1> HIDE DEF a, b, c, d, f, w
<1>1. [LoopRecord(a, b, c, d, f, w) EXCEPT !.break_stack = a1]
        = LoopRecord(a1, b, c, d, f, w)
  BY DEF LoopRecord
<1>2. [LoopRecord(a1, b, c, d, f, w) EXCEPT !.continue_stack = b1]
        = LoopRecord(a1, b1, c, d, f, w)
  BY DEF LoopRecord
<1>3. [LoopRecord(a1, b1, c, d, f, w) EXCEPT !.num_of_breaks_stack = c1]
        = LoopRecord(a1, b1, c1, d, f, w)
  BY DEF LoopRecord
<1>4. [LoopRecord(a1, b1, c1, d, f, w) EXCEPT !.num_of_continues_stack = d1]
        = LoopRecord(a1, b1, c1, d1, f, w)
  BY DEF LoopRecord
<1>5. [r EXCEPT !.break_stack = a1, !.continue_stack = b1,
                !.num_of_breaks_stack = c1, !.num_of_continues_stack = d1]
           = [[[[r EXCEPT !.break_stack = a1] EXCEPT !.continue_stack = b1]
                 EXCEPT !.num_of_breaks_stack = c1] EXCEPT !.num_of_continues_stack = d1]
  BY Zenon
<1>6. [r EXCEPT !.break_stack = a1, !.continue_stack = b1,
                !.num_of_breaks_stack = c1, !.num_of_continues_stack = d1]
        = LoopRecord(a1, b1, c1, d1, f, w)
  BY <1>1, <1>2, <1>3, <1>4, <1>5, <1>r, Zenon
<1>7. QED
  BY <1>0, <1>6, Zenon DEF f, w

LEMMA CountsPoppedTyped ==
  ASSUME TypeOK, Len(loops.num_of_breaks_stack) > 0, Len(loops.num_of_continues_stack) > 0,
         NEW n \in Nat, currQuad <= n
  PROVE  /\ CountsPopped =
              [break_stack |-> Drop(loops.break_stack, Breaks),
               continue_stack |-> Drop(loops.continue_stack, Continues),
               num_of_breaks_stack |-> Tail(loops.num_of_breaks_stack),
               num_of_continues_stack |-> Tail(loops.num_of_continues_stack),
               for_start_stack |-> loops.for_start_stack,
               while_end_label_stack |-> loops.while_end_label_stack]
         /\ CountsPopped \in StacksOf(n)
<1>1. /\ loops.break_stack \in Seq(Upto(n)) /\ loops.continue_stack \in Seq(Upto(n))
      /\ loops.num_of_breaks_stack \in Seq(Nat)
      /\ loops.num_of_continues_stack \in Seq(Nat)
  BY LoopFields
<1>2. CountsPopped =
              [break_stack |-> Drop(loops.break_stack, Breaks),
               continue_stack |-> Drop(loops.continue_stack, Continues),
               num_of_breaks_stack |-> Tail(loops.num_of_breaks_stack),
               num_of_continues_stack |-> Tail(loops.num_of_continues_stack),
               for_start_stack |-> loops.for_start_stack,
               while_end_label_stack |-> loops.while_end_label_stack]
  <2>1. CountsPopped =
          [loops EXCEPT !.break_stack = Drop(loops.break_stack, Breaks),
                        !.continue_stack = Drop(loops.continue_stack, Continues),
                        !.num_of_breaks_stack = Tail(loops.num_of_breaks_stack),
                        !.num_of_continues_stack = Tail(loops.num_of_continues_stack)]
    BY DEF CountsPopped
  <2>2. QED
    BY <2>1, LoopsWritten, Zenon DEF LoopRecord
<1>3. /\ Drop(loops.break_stack, Breaks) \in Seq(Upto(n))
      /\ Drop(loops.continue_stack, Continues) \in Seq(Upto(n))
  <2> DEFINE S == Upto(n)
             s == loops.break_stack
             t == loops.continue_stack
  <2>1. /\ s \in Seq(S) /\ t \in Seq(S) /\ Breaks \in 0 .. Len(s) /\ Continues \in 0 .. Len(t)
    BY <1>1, BreaksFacts
  <2> HIDE DEF S, s, t
  <2>2. Drop(s, Breaks) \in Seq(S)
    BY <2>1, DropFacts
  <2>3. Drop(t, Continues) \in Seq(S)
    BY <2>1, DropFacts
  <2>4. QED
    BY <2>2, <2>3 DEF S, s, t
<1>4. /\ Tail(loops.num_of_breaks_stack) \in Seq(Nat)
      /\ Tail(loops.num_of_continues_stack) \in Seq(Nat)
  BY <1>1
<1>5. QED
  BY <1>2, <1>3, <1>4, LoopFields DEF StacksOf

LEMMA JumpsOutTyped ==
  ASSUME TypeOK, Len(loops.num_of_breaks_stack) > 0, Len(loops.num_of_continues_stack) > 0,
         NEW n \in Nat, currQuad + 1 <= n, NEW start \in 0 .. n,
         NEW jumps, QuadsTyped(jumps, n)
  PROVE  QuadsTyped(JumpsOut(jumps, start), n)
<1>0. currQuad \in Nat /\ currQuad <= n /\ currQuad <= currQuad /\ currQuad + 1 \in 0 .. n
  <2>1. currQuad \in Nat
    BY TypesOf
  <2>2. QED
    BY <2>1
<1>1. /\ loops.break_stack \in Seq(Upto(currQuad)) /\ loops.continue_stack \in Seq(Upto(currQuad))
      /\ Breaks \in 0 .. Len(loops.break_stack)
      /\ Continues \in 0 .. Len(loops.continue_stack)
  BY <1>0, LoopFields, BreaksFacts
<1>2. QuadsTyped(Patched(loops.break_stack, Breaks, currQuad + 1), n)
  BY <1>0, <1>1, PatchedTyped
<1>3. QuadsTyped(Patched(loops.continue_stack, Continues, start), n)
  BY <1>0, <1>1, PatchedTyped
<1>4. QuadsTyped(Patched(loops.break_stack, Breaks, currQuad + 1)
                   @@ Patched(loops.continue_stack, Continues, start), n)
  BY <1>2, <1>3, WrittenTyped
<1>5. QED
  BY <1>4, WrittenTyped DEF JumpsOut

LEMMA WhileEndTyped ==
  ASSUME OpensInv, WhileEnd
  PROVE  TypeOK'
<1> DEFINE n == currQuad + 1
           start == Head(while_start_label_stack)
           exit == Head(loops.while_end_label_stack)
<1>1. /\ TypeOK /\ open # <<>>
      /\ Len(while_start_label_stack) > 0 /\ Len(loops.while_end_label_stack) > 0
      /\ Len(loops.num_of_breaks_stack) > 0 /\ Len(loops.num_of_continues_stack) > 0
  BY WhileThere DEF OpensInv, WhileEnd, Expecting
<1>2. /\ currQuad \in Nat /\ n \in Nat /\ currQuad <= n /\ currQuad + 1 <= n
      /\ currQuad \in Upto(n)
  BY <1>1, TypesOf DEF Upto
<1>3. start \in 0 .. n
  <2> DEFINE S == 0 .. currQuad
  <2>1. while_start_label_stack \in Seq(S)
    BY <1>1, TypesOf DEF LabelsTyped
  <2> HIDE DEF S
  <2>2. start \in S
    BY <1>1, <2>1, TailFacts
  <2>3. QED
    BY <1>2, <2>2 DEF S
<1>4. exit \in Upto(n)
  BY <1>1, <1>2, LoopFields
<1>5. JumpTo(start) \in QuadsOf(n)
  BY <1>1, <1>2, <1>3, QuadTyped DEF JumpTo, Ops, JumpOps
<1>6. JumpTo(currQuad + 1) \in QuadsOf(n)
  <2>1. currQuad + 1 \in 0 .. n
    BY <1>2
  <2>2. QED
    BY <1>1, <1>2, <2>1, QuadTyped DEF JumpTo, Ops, JumpOps
<1> HIDE DEF n, start, exit
<1>7. QuadsTyped((currQuad :> JumpTo(start)) @@ (exit :> JumpTo(currQuad + 1)) @@ quads, n)
  <2>1. QuadsTyped(currQuad :> JumpTo(start), n)
    BY <1>2, <1>5, OneTyped
  <2>2. QuadsTyped(exit :> JumpTo(currQuad + 1), n)
    BY <1>2, <1>4, <1>6, OneTyped
  <2>3. QuadsTyped(quads, n)
    BY <1>1, <1>2, Grown
  <2>4. QuadsTyped((currQuad :> JumpTo(start)) @@ (exit :> JumpTo(currQuad + 1)), n)
    BY <1>2, <2>1, <2>2, WrittenTyped
  <2>5. QED
    BY <1>2, <2>3, <2>4, WrittenTyped
<1>8. QuadsTyped(quads', n)
  <2>1. quads' = JumpsOut((currQuad :> JumpTo(start)) @@ (exit :> JumpTo(currQuad + 1)) @@ quads, start)
    BY DEF WhileEnd, start, exit
  <2>2. QED
    BY <1>1, <1>2, <1>3, <1>7, <2>1, JumpsOutTyped
<1>9. loops' \in StacksOf(n)
  <2>1. CountsPopped \in StacksOf(n)
    BY <1>1, <1>2, CountsPoppedTyped
  <2>2. loops' = [CountsPopped EXCEPT !.while_end_label_stack = Tail(@)]
    BY DEF WhileEnd
  <2>3. CountsPopped.while_end_label_stack = loops.while_end_label_stack
    BY <1>1, <1>2, CountsPoppedTyped
  <2>4. Tail(loops.while_end_label_stack) \in Seq(Upto(n))
    BY <1>1, <1>2, LoopFields
  <2>5. QED
    BY <2>1, <2>2, <2>3, <2>4 DEF StacksOf
<1>10. while_start_label_stack' \in Seq(0 .. n)
  <2> DEFINE S == 0 .. n
  <2>1. while_start_label_stack \in Seq(S)
    BY <1>1, <1>2, Grown
  <2> HIDE DEF S
  <2>2. Tail(while_start_label_stack) \in Seq(S)
    BY <1>1, <2>1, TailFacts
  <2>3. QED
    BY <2>2 DEF WhileEnd, S
<1>11. open' \in Seq(FramesOf(n))
  BY <1>1, <1>2, InnermostTyped DEF WhileEnd
<1>12. settled' \subseteq Upto(n) \X Nat
  <2>1. Innermost.start \in Nat /\ settled \subseteq Upto(n) \X Nat
    BY <1>1, <1>2, InnermostTyped, Grown
  <2>2. \A where : \A l \in Nat : Settle(where, l) \subseteq Upto(n) \X Nat
    BY <1>1, <1>2, SettleTyped
  <2>3. /\ Settle("start", Innermost.start) \subseteq Upto(n) \X Nat
        /\ Settle("end", currQuad + 1) \subseteq Upto(n) \X Nat
    BY <1>2, <2>1, <2>2
  <2>4. QED
    BY <1>2, <2>1, <2>3 DEF WhileEnd
<1>13. Typed'
  BY <1>1, <1>2, <1>8, <1>9, <1>10, <1>11, <1>12, Grown
  DEF Typed, LabelsTyped, WhileEnd, n
<1>14. QED
  BY <1>13, TypesLater

LEMMA ForEndTyped ==
  ASSUME OpensInv, ForEnd
  PROVE  TypeOK'
<1> DEFINE n == currQuad + 1
           start == Head(loops.for_start_stack)
<1>1. /\ TypeOK /\ open # <<>>
      /\ Len(for_expr_start_stack) > 0 /\ Len(loops.for_start_stack) > 0
      /\ Len(loops.num_of_breaks_stack) > 0 /\ Len(loops.num_of_continues_stack) > 0
  BY ForThere, CountersThere DEF OpensInv, ForEnd, Expecting
<1>2. /\ currQuad \in Nat /\ n \in Nat /\ currQuad <= n /\ currQuad + 1 <= n
      /\ currQuad \in Upto(n) /\ currQuad <= currQuad
  BY <1>1, TypesOf DEF Upto
<1>3. start \in 0 .. currQuad - 1
  <2> DEFINE S == Upto(currQuad)
             s == loops.for_start_stack
  <2>1. s \in Seq(S) /\ Len(s) > 0
    BY <1>1, <1>2, LoopFields
  <2> HIDE DEF S, s
  <2>2. Head(s) \in S
    BY <2>1, TailFacts
  <2>3. QED
    BY <2>2 DEF S, s, Upto
<1>4. start + 1 \in Upto(n) /\ start + 2 \in 0 .. n
  BY <1>2, <1>3 DEF Upto
<1>5. JumpTo(start + 2) \in QuadsOf(n)
  BY <1>1, <1>2, <1>4, QuadTyped DEF JumpTo, Ops, JumpOps
<1>6. JumpTo(currQuad + 1) \in QuadsOf(n)
  <2>1. currQuad + 1 \in 0 .. n
    BY <1>2
  <2>2. QED
    BY <1>1, <1>2, <2>1, QuadTyped DEF JumpTo, Ops, JumpOps
<1> DEFINE jumps == (currQuad :> JumpTo(start + 2)) @@ ((start + 1) :> JumpTo(currQuad + 1))
                      @@ quads
<1>7. quads' = JumpsOut(jumps, start + 2)
  BY DEF ForEnd
<1>8. QuadsTyped(jumps, n)
  <2> HIDE DEF n, start
  <2>1. QuadsTyped(currQuad :> JumpTo(start + 2), n)
    BY <1>2, <1>5, OneTyped
  <2>2. QuadsTyped((start + 1) :> JumpTo(currQuad + 1), n)
    BY <1>2, <1>4, <1>6, OneTyped
  <2>3. QuadsTyped(quads, n)
    BY <1>1, <1>2, Grown
  <2>4. QuadsTyped((currQuad :> JumpTo(start + 2)) @@ ((start + 1) :> JumpTo(currQuad + 1)), n)
    BY <1>2, <2>1, <2>2, WrittenTyped
  <2>5. QED
    BY <1>2, <2>3, <2>4, WrittenTyped
<1> HIDE DEF n, start, jumps
<1>9. QuadsTyped(quads', n)
  BY <1>1, <1>2, <1>4, <1>7, <1>8, JumpsOutTyped
<1>10. loops' \in StacksOf(n)
  <2>1. CountsPopped \in StacksOf(n)
    BY <1>1, <1>2, CountsPoppedTyped
  <2>2. loops' = [CountsPopped EXCEPT !.for_start_stack = Tail(@)]
    BY DEF ForEnd
  <2>3. CountsPopped.for_start_stack = loops.for_start_stack
    BY <1>1, <1>2, CountsPoppedTyped
  <2>4. Tail(loops.for_start_stack) \in Seq(Upto(n))
    BY <1>1, <1>2, LoopFields
  <2>5. QED
    BY <2>1, <2>2, <2>3, <2>4 DEF StacksOf
<1>11. for_expr_start_stack' \in Seq(0 .. n)
  <2> DEFINE S == 0 .. n
  <2>1. for_expr_start_stack \in Seq(S)
    BY <1>1, <1>2, Grown
  <2> HIDE DEF S
  <2>2. Tail(for_expr_start_stack) \in Seq(S)
    BY <1>1, <2>1, TailFacts
  <2>3. QED
    BY <2>2 DEF ForEnd, S
<1>12. open' \in Seq(FramesOf(n))
  BY <1>1, <1>2, InnermostTyped DEF ForEnd
<1>13. settled' \subseteq Upto(n) \X Nat
  <2>1. Innermost.step \in Nat /\ settled \subseteq Upto(n) \X Nat
    BY <1>1, <1>2, InnermostTyped, Grown
  <2>2. \A where : \A l \in Nat : Settle(where, l) \subseteq Upto(n) \X Nat
    BY <1>1, <1>2, SettleTyped
  <2>3. /\ Settle("start", Innermost.step) \subseteq Upto(n) \X Nat
        /\ Settle("end", currQuad + 1) \subseteq Upto(n) \X Nat
    BY <1>2, <2>1, <2>2
  <2>4. QED
    BY <1>2, <2>1, <2>3 DEF ForEnd
<1>14. Typed'
  BY <1>1, <1>2, <1>9, <1>10, <1>11, <1>12, <1>13, Grown
  DEF Typed, LabelsTyped, ForEnd, n
<1>15. QED
  BY <1>14, TypesLater

-----------------------------------------------------------------------------
(* break, continue and syntax errors *)

(* A promise leaves the statements where they are. *)
LEMMA PromiseFacts ==
  ASSUME TypeOK, NEW n \in Nat, currQuad <= n, NEW i, NEW q \in Upto(n), NEW where \in Wheres
  PROVE  /\ Promise(i, q, where) \in Seq(FramesOf(n))
         /\ Len(Promise(i, q, where)) = Len(open)
         /\ \A j \in 1 .. Len(open) : /\ Promise(i, q, where)[j].kind = open[j].kind
                                      /\ Promise(i, q, where)[j].at = open[j].at
<1> DEFINE new == Promise(i, q, where)
           F == FramesOf(n)
<1>1. open \in Seq(F) /\ DOMAIN open = 1 .. Len(open) /\ Len(open) \in Nat
  BY Grown
<1>2. \A j \in DOMAIN open : j # i => new[j] = open[j]
  BY <1>1 DEF Promise
<1>3. ASSUME i \in DOMAIN open
      PROVE  /\ new[i] \in F
             /\ new[i].kind = open[i].kind /\ new[i].at = open[i].at
  <2>1. open[i] \in F
    BY <1>1, <1>3
  <2>2. new[i] = [open[i] EXCEPT !.jumps = @ \cup {<<q, where>>}]
    BY <1>1, <1>3 DEF Promise
  <2>3. PICK f : f = open[i]
    OBVIOUS
  <2>4. f \in F /\ new[i] = [f EXCEPT !.jumps = @ \cup {<<q, where>>}]
    BY <2>1, <2>2, <2>3
  <2>5. <<q, where>> \in Upto(n) \X {"start", "end", "body", "else"}
    BY DEF Wheres
  <2>6. f.jumps \cup {<<q, where>>} \subseteq Upto(n) \X {"start", "end", "body", "else"}
    BY <2>4, <2>5 DEF FramesOf
  <2> HIDE DEF new
  <2>7. new[i] = [kind |-> f.kind, at |-> f.at, start |-> f.start, step |-> f.step,
                  jumps |-> f.jumps \cup {<<q, where>>}]
    BY <2>4 DEF FramesOf
  <2>8. new[i] \in F
    BY <2>4, <2>6, <2>7 DEF FramesOf
  <2>9. QED
    BY <2>3, <2>7, <2>8
<1>4. DOMAIN new = DOMAIN open
  BY <1>1 DEF Promise
<1> HIDE DEF new, F
<1>5. \A j \in 1 .. Len(open) : new[j] \in F
  BY <1>1, <1>2, <1>3
<1>6. new = [j \in 1 .. Len(open) |-> new[j]]
  BY <1>1, <1>4, Zenon DEF new, Promise
<1>7. new \in Seq(F) /\ Len(new) = Len(open)
  BY <1>1, <1>5, <1>6
<1>8. \A j \in 1 .. Len(open) : new[j].kind = open[j].kind /\ new[j].at = open[j].at
  BY <1>1, <1>2, <1>3
<1>9. QED
  BY <1>7, <1>8 DEF new, F


LEMMA PromisedTyped ==
  ASSUME TypeOK, NEW where \in Wheres, Promised(where)
  PROVE  /\ open' \in Seq(FramesOf(currQuad + 1))
         /\ Len(open') = Len(open)
         /\ \A j \in 1 .. Len(open) : open'[j].kind = open[j].kind /\ open'[j].at = open[j].at
<1>1. /\ currQuad \in Nat /\ currQuad + 1 \in Nat /\ currQuad <= currQuad + 1
      /\ currQuad \in Upto(currQuad + 1)
  BY TypesOf DEF Upto
<1>2. CASE LoopsHere = {}
  <2>1. open' = open
    BY <1>2 DEF Promised
  <2>2. QED
    BY <1>1, <2>1, Grown
<1>3. CASE LoopsHere # {}
  <2>1. open' = Promise(ThisLoop, currQuad, where)
    BY <1>3 DEF Promised
  <2>2. QED
    BY <1>1, <2>1, PromiseFacts
<1>4. QED
  BY <1>2, <1>3

LEMMA IncrementFacts ==
  ASSUME NEW s \in Seq(Nat), Len(s) > 0
  PROVE  /\ Increment(s) \in Seq(Nat) /\ Len(Increment(s)) = Len(s)
         /\ Head(Increment(s)) = Head(s) + 1 /\ Tail(Increment(s)) = Tail(s)
BY SMTT(30) DEF Increment

LEMMA BreakTyped ==
  ASSUME OpensInv, Break
  PROVE  TypeOK'
<1> DEFINE n == currQuad + 1
<1>1. /\ TypeOK /\ Len(loops.num_of_breaks_stack) > 0
      /\ loops' = [loops EXCEPT !.break_stack = Push(@, currQuad),
                                !.num_of_breaks_stack = Increment(@)]
  BY CountersThere DEF OpensInv, Break
<1>2. /\ currQuad \in Nat /\ n \in Nat /\ currQuad <= n /\ currQuad \in Upto(n)
      /\ "end" \in Wheres
  BY <1>1, TypesOf DEF Upto, Wheres
<1>3. open' \in Seq(FramesOf(n))
  BY <1>1, <1>2, PromisedTyped DEF Break
<1> HIDE DEF n
<1>4. loops' \in StacksOf(n)
  <2>1. Push(loops.break_stack, currQuad) \in Seq(Upto(n))
    BY <1>1, <1>2, LoopFields, LabelPushed
  <2>2. Increment(loops.num_of_breaks_stack) \in Seq(Nat)
    BY <1>1, <1>2, LoopFields, IncrementFacts
  <2>3. loops \in StacksOf(n)
    BY <1>1, <1>2, Grown
  <2>4. QED
    BY <1>1, <2>1, <2>2, <2>3 DEF StacksOf
<1>5. Typed'
  BY <1>1, <1>2, <1>3, <1>4, Grown DEF Typed, LabelsTyped, Break, n
<1>6. QED
  BY <1>5, TypesLater

LEMMA ContinueTyped ==
  ASSUME OpensInv, Continue
  PROVE  TypeOK'
<1> DEFINE n == currQuad + 1
<1>1. /\ TypeOK /\ Len(loops.num_of_continues_stack) > 0
      /\ loops' = [loops EXCEPT !.continue_stack = Push(@, currQuad),
                                !.num_of_continues_stack = Increment(@)]
  BY CountersThere DEF OpensInv, Continue
<1>2. /\ currQuad \in Nat /\ n \in Nat /\ currQuad <= n /\ currQuad \in Upto(n)
      /\ "start" \in Wheres
  BY <1>1, TypesOf DEF Upto, Wheres
<1>3. open' \in Seq(FramesOf(n))
  BY <1>1, <1>2, PromisedTyped DEF Continue
<1> HIDE DEF n
<1>4. loops' \in StacksOf(n)
  <2>1. Push(loops.continue_stack, currQuad) \in Seq(Upto(n))
    BY <1>1, <1>2, LoopFields, LabelPushed
  <2>2. Increment(loops.num_of_continues_stack) \in Seq(Nat)
    BY <1>1, <1>2, LoopFields, IncrementFacts
  <2>3. loops \in StacksOf(n)
    BY <1>1, <1>2, Grown
  <2>4. QED
    BY <1>1, <2>1, <2>2, <2>3 DEF StacksOf
<1>5. Typed'
  BY <1>1, <1>2, <1>3, <1>4, Grown DEF Typed, LabelsTyped, Continue, n
<1>6. QED
  BY <1>5, TypesLater

LEMMA MisreadTyped ==
  ASSUME TypeOK, Misread, NEW n \in Nat, currQuad <= n
  PROVE  open' \in Seq(FramesOf(n)) /\ errors' \in Nat
<1>1. errors' \in Nat
  BY TypesOf DEF Misread
<1>2. CASE InHeader
  BY <1>1, <1>2, InnermostTyped DEF Misread, InHeader
<1>3. CASE ~ InHeader
  BY <1>1, <1>3, Grown DEF Misread
<1>4. QED
  BY <1>2, <1>3

LEMMA ErrorsTyped ==
  ASSUME OpensInv, SyntaxError \/ FuncHeadError \/ StepError
  PROVE  TypeOK'
<1> DEFINE n == currQuad + 1
<1>1. /\ TypeOK /\ currQuad \in Nat /\ currQuad <= currQuad
      /\ n \in Nat /\ currQuad <= n
  BY TypesOf DEF OpensInv
<1>2. Misread
  BY DEF SyntaxError, FuncHeadError, StepError
<1>3. CASE SyntaxError
  <2>1. open' \in Seq(FramesOf(currQuad)) /\ errors' \in Nat
    BY <1>1, <1>2, MisreadTyped
  <2>2. Typed'
    BY <1>1, <1>3, <2>1, Grown DEF Typed, LabelsTyped, SyntaxError, stacks
  <2>3. QED
    BY <2>2, TypesLater
<1>4. open' \in Seq(FramesOf(n)) /\ errors' \in Nat
  BY <1>1, <1>2, MisreadTyped
<1>5. CASE FuncHeadError
  BY <1>1, <1>4, <1>5, FuncHeadTyped DEF FuncHeadError
<1>6. CASE StepError
  BY <1>4, <1>6, StepDoneTyped DEF StepError
<1>7. QED
  BY <1>3, <1>5, <1>6

LEMMA TypeStep ==
  ASSUME OpensInv, ParseAny
  PROVE  TypeOK'
BY ExpressionsTyped, FunctionsTyped, BeginsTyped, IfThenTyped, IfElseTyped, IfEndTyped,
   WhileBodyTyped, WhileEndTyped, ForCondTyped, ForStepTyped, ForBodyTyped, ForEndTyped,
   BreakTyped, ContinueTyped, ErrorsTyped
DEF ParseAny, Parse, OpensInv



-----------------------------------------------------------------------------
(* What is open before and after a step *)

Nothing == <<"none", "none">>

LEMMA PushTop ==
  ASSUME TypeOK, NEW m, m = Len(open), NEW kind, NEW at, open' = Push(open, Opened(kind, at))
  PROVE  /\ m \in Nat /\ TopChanges(m) /\ Len(open') = m + 1
         /\ Top(m) = Nothing /\ Top(m)' = <<kind, at>>
<1> DEFINE S == FramesOf(currQuad) \cup {Opened(kind, at)}
           new == Opened(kind, at)
<1>1. open \in Seq(S) /\ m \in Nat /\ m = Len(open) /\ Opened(kind, at) \in S
  <2>1. open \in Seq(FramesOf(currQuad))
    BY TypesOf
  <2>2. QED
    BY <2>1
<1>2. /\ Len(open') = m + 1 /\ open'[1] = Opened(kind, at)
      /\ \A i \in 1 .. m : open'[i + 1] = open[i]
  <2> HIDE DEF S, new
  <2>1. new \in S /\ open' = Push(open, new) /\ open \in Seq(S)
    BY <1>1 DEF new
  <2>2. /\ Len(open') = Len(open) + 1 /\ open'[1] = new
        /\ \A i \in 1 .. Len(open) : open'[i + 1] = open[i]
    BY <2>1 DEF Push
  <2>3. QED
    BY <1>1, <2>2 DEF new
<1>3. \A p \in 0 .. m - 1 : At(p)' = At(p)
  BY <1>1, <1>2 DEF At
<1>4. At(m)' = Opened(kind, at)
  BY <1>1, <1>2 DEF At
<1>5. TopChanges(m)
  BY <1>1, <1>2, <1>3 DEF TopChanges
<1>6. Top(m) = Nothing
  BY <1>1 DEF Top, Nothing
<1>7. Top(m)' = <<kind, at>>
  BY <1>2, <1>4 DEF Top, Opened
<1>8. QED
  BY <1>1, <1>2, <1>5, <1>6, <1>7

LEMMA GoesOnTop ==
  ASSUME TypeOK, open # <<>>, NEW m, m = Len(open) - 1, NEW at, NEW start, NEW step, NEW jumps,
         open' = GoesOn(at, start, step, jumps)
  PROVE  /\ m \in Nat /\ TopChanges(m) /\ Len(open') = m + 1 /\ Len(open) = m + 1
         /\ Top(m) = <<Innermost.kind, Innermost.at>>
         /\ Top(m)' = <<Innermost.kind, at>>
<1>1. open \in Seq(FramesOf(currQuad)) /\ m \in Nat /\ Len(open) = m + 1
  <2>1. open \in Seq(FramesOf(currQuad))
    BY TypesOf
  <2>2. QED
    BY <2>1
<1>2. /\ Len(open') = m + 1
      /\ open'[1].kind = Innermost.kind /\ open'[1].at = at
      /\ \A i \in 2 .. m + 1 : open'[i] = open[i]
  BY <1>1 DEF GoesOn
<1>3. \A p \in 0 .. m - 1 : At(p)' = At(p)
  BY <1>1, <1>2 DEF At
<1>4. At(m)' = open'[1] /\ At(m) = Innermost
  BY <1>1, <1>2 DEF At, Innermost
<1>5. TopChanges(m)
  BY <1>1, <1>2, <1>3 DEF TopChanges
<1>6. Top(m) = <<Innermost.kind, Innermost.at>>
  BY <1>1, <1>4 DEF Top
<1>7. Top(m)' = <<Innermost.kind, at>>
  BY <1>2, <1>4 DEF Top
<1>8. QED
  BY <1>1, <1>2, <1>5, <1>6, <1>7

LEMMA PopTop ==
  ASSUME TypeOK, open # <<>>, NEW m, m = Len(open) - 1, open' = Tail(open)
  PROVE  /\ m \in Nat /\ TopChanges(m) /\ Len(open') = m /\ Len(open) = m + 1
         /\ Top(m) = <<Innermost.kind, Innermost.at>>
         /\ Top(m)' = Nothing
<1>1. open \in Seq(FramesOf(currQuad)) /\ m \in Nat /\ Len(open) = m + 1
  <2>1. open \in Seq(FramesOf(currQuad))
    BY TypesOf
  <2>2. QED
    BY <2>1
<1>2. Len(open') = m /\ \A i \in 1 .. m : open'[i] = open[i + 1]
  BY <1>1
<1>3. \A p \in 0 .. m - 1 : At(p)' = At(p)
  BY <1>1, <1>2 DEF At
<1>4. At(m) = Innermost
  BY <1>1 DEF At, Innermost
<1>5. TopChanges(m)
  BY <1>1, <1>2, <1>3 DEF TopChanges
<1>6. Top(m) = <<Innermost.kind, Innermost.at>>
  BY <1>1, <1>4 DEF Top
<1>7. Top(m)' = Nothing
  BY <1>1, <1>2 DEF Top, Nothing
<1>8. QED
  BY <1>1, <1>2, <1>5, <1>6, <1>7

LEMMA SameTop ==
  ASSUME TypeOK, NEW m, m = Len(open), Len(open') = Len(open),
         \A j \in 1 .. Len(open) : open'[j].kind = open[j].kind /\ open'[j].at = open[j].at
  PROVE  /\ m \in Nat /\ TopChanges(m) /\ Len(open') = m
         /\ Top(m) = Nothing /\ Top(m)' = Nothing
<1>1. m \in Nat
  BY DepthFacts
<1>2. \A p \in 0 .. m - 1 : At(p)'.kind = At(p).kind /\ At(p)'.at = At(p).at
  BY <1>1 DEF At
<1>3. TopChanges(m)
  BY <1>1, <1>2 DEF TopChanges
<1>4. Top(m) = Nothing /\ Top(m)' = Nothing
  BY <1>1 DEF Top, Nothing
<1>5. QED
  BY <1>1, <1>3, <1>4

-----------------------------------------------------------------------------
(* The invariant is kept, if each stack follows what is open *)

(* What begins in a header is a function. *)
LEMMA OpenStep ==
  ASSUME TypeOK, OpenInv, NEW m \in Nat, TopChanges(m), NEW kind, NEW at,
         Top(m)' = <<kind, at>>,
         \/ Len(open') = m
         \/ /\ at \in Begun(kind)
            /\ \/ kind = "function"
               \/ Len(open) = m + 1 /\ Innermost.kind = kind
               \/ Len(open) = m /\ InBody
  PROVE  OpenInv'
<1> DEFINE Header == {"init", "cond", "step"}
<1>1. SUFFICES ASSUME NEW p \in Depths'
               PROVE  /\ At(p)'.at \in Begun(At(p)'.kind)
                      /\ At(p)'.at \in Header /\ p + 1 \in Depths'
                           => At(p + 1)'.kind = "function"
  BY DEF OpenInv
<1>2. /\ Len(open') \in {m, m + 1} /\ Len(open) \in {m, m + 1} /\ p \in 0 .. m
      /\ p = m => Len(open') = m + 1
  BY DEF TopChanges, Depths
<1>3. Len(open') = m + 1 => At(m)'.kind = kind /\ At(m)'.at = at
  BY DEF Top
<1>4. CASE p = m
  <2>1. m + 1 \notin Depths'
    BY <1>2 DEF Depths
  <2>2. at \in Begun(kind)
    BY <1>2, <1>4
  <2>3. QED
    BY <1>2, <1>3, <1>4, <2>1, <2>2
<1>5. CASE p # m
  <2>1. p \in 0 .. m - 1 /\ p \in Depths /\ m - 1 \in Nat
    BY <1>2, <1>5 DEF Depths
  <2>2. At(p)'.kind = At(p).kind /\ At(p)'.at = At(p).at
    BY <2>1 DEF TopChanges
  <2>3. At(p).at \in Begun(At(p).kind)
    BY <2>1 DEF OpenInv
  <2>4. ASSUME At(p).at \in Header, p + 1 \in Depths'
        PROVE  At(p + 1)'.kind = "function"
    <3>1. CASE p + 1 # m
      <4>1. p + 1 \in 0 .. m - 1 /\ p + 1 \in Depths
        BY <1>2, <2>1, <3>1 DEF Depths
      <4>2. At(p + 1)'.kind = At(p + 1).kind
        BY <4>1 DEF TopChanges
      <4>3. QED
        BY <2>1, <2>4, <4>1, <4>2 DEF OpenInv
    <3>2. CASE p + 1 = m
      <4>1. Len(open') = m + 1
        BY <1>2, <2>1, <2>4, <3>2 DEF Depths
      <4>2. At(p + 1)'.kind = kind
        BY <1>3, <3>2, <4>1
      <4>3. CASE kind = "function"
        BY <4>2, <4>3
      <4>4. CASE Len(open) = m + 1 /\ Innermost.kind = kind
        <5>1. p + 1 \in Depths /\ At(p + 1) = Innermost
          BY <2>1, <3>2, <4>4 DEF Depths, At, Innermost
        <5>2. At(p + 1).kind = "function"
          BY <2>1, <2>4, <5>1 DEF OpenInv
        <5>3. QED
          BY <4>2, <4>4, <5>1, <5>2
      <4>5. CASE Len(open) = m /\ InBody
        <5>1. At(p) = Innermost /\ open # <<>>
          BY <2>1, <3>2, <4>5 DEF At, Innermost
        <5>2. QED
          BY <2>4, <4>5, <5>1 DEF InBody, InHeader
      <4>6. QED
        BY <1>2, <4>1, <4>3, <4>4, <4>5
    <3>3. QED
      BY <3>1, <3>2
  <2>5. QED
    BY <2>2, <2>3, <2>4
<1>6. QED
  BY <1>4, <1>5

(* An entry for each that is counted, or more after a syntax error. *)
Follows(old, new, change) ==
  /\ new >= old + change
  /\ errors' = 0 => errors = 0 /\ new = old + change

LEMMA CoversStep ==
  ASSUME NEW s, NEW ps, Covers(s, ps), Len(s) \in Nat, Cardinality(ps) \in Nat,
         NEW t, NEW qs, Len(t) \in Nat, NEW change \in Int,
         Cardinality(qs) = Cardinality(ps) + change, Follows(Len(s), Len(t), change)
  PROVE  /\ Cardinality(qs) <= Len(t)
         /\ errors' = 0 => Cardinality(qs) = Len(t)
BY DEF Covers, Follows


(* What a step adds to the count of those that are open. *)
Change(m, kind, phases) == Is(Top(m)', kind, phases) - Is(Top(m), kind, phases)

LEMMA ChangeFacts ==
  ASSUME TypeOK, TypeOK', NEW m \in Nat, TopChanges(m), NEW kind, NEW phases, kind # "none"
  PROVE  /\ Change(m, kind, phases) \in Int
         /\ Cardinality(Having(kind, phases)) \in Nat
         /\ Cardinality(Having(kind, phases))'
              = Cardinality(Having(kind, phases)) + Change(m, kind, phases)
<1>1. Having(kind, phases) \subseteq 0 .. m
  BY HavingStep
<1>2. Cardinality(Having(kind, phases)) \in Nat
  BY <1>1, PartOfInterval
<1>3. Is(Top(m)', kind, phases) \in {0, 1} /\ Is(Top(m), kind, phases) \in {0, 1}
  BY DEF Is
<1>4. Cardinality(Having(kind, phases))' =
        Cardinality(Having(kind, phases)) + Is(Top(m)', kind, phases)
                                          - Is(Top(m), kind, phases)
  BY HavingStep
<1>5. QED
  BY <1>2, <1>3, <1>4 DEF Change

LEMMA StackLengths ==
  ASSUME TypeOK
  PROVE  /\ Len(if_label_stack) \in Nat /\ Len(else_label_stack) \in Nat
         /\ Len(has_else_stack) \in Nat /\ Len(function_name_stack) \in Nat
         /\ Len(function_loop_stack) \in Nat /\ Len(while_start_label_stack) \in Nat
         /\ Len(for_expr_start_stack) \in Nat
BY TypesOf DEF LabelsTyped

LengthsKnown ==
  /\ Len(function_name_stack) \in Nat /\ Len(function_loop_stack) \in Nat
  /\ Len(while_start_label_stack) \in Nat /\ Len(for_expr_start_stack) \in Nat
  /\ Len(loops.while_end_label_stack) \in Nat /\ Len(loops.for_start_stack) \in Nat
  /\ Len(loops.num_of_breaks_stack) \in Nat /\ Len(loops.num_of_continues_stack) \in Nat

LEMMA LengthsLater == TypeOK' => LengthsKnown'
<1>1. TypeOK => LengthsKnown
  BY StackLengths, LoopLengths DEF LengthsKnown
<1>2. QED
  BY <1>1, PTL

Then == {"body", "else"}

StacksFollow(m) ==
  /\ has_else_stack' \in Seq({1})
  /\ Len(if_label_stack') = Len(if_label_stack) + Change(m, "if", Then)
  /\ Len(else_label_stack') = Len(else_label_stack) + Change(m, "if", {"else"})
  /\ Len(has_else_stack') = Len(has_else_stack) + Change(m, "if", {"else"})
  /\ Len(function_name_stack') - Len(function_name_stack)
       = Len(function_loop_stack') - Len(function_loop_stack)
  /\ Follows(Len(function_loop_stack), Len(function_loop_stack'),
             Change(m, "function", Phases))
  /\ Follows(Len(while_start_label_stack), Len(while_start_label_stack'),
             Change(m, "while", Phases))
  /\ Follows(Len(for_expr_start_stack), Len(for_expr_start_stack'),
             Change(m, "for", Phases \ {"init"}))

LEMMA StackStep ==
  ASSUME TypeOK, StacksInv, TypeOK', NEW m \in Nat, TopChanges(m), StacksFollow(m)
  PROVE  StacksInv'
<1>0. /\ has_else_stack' \in Seq({1})
      /\ Len(if_label_stack') = Len(if_label_stack) + Change(m, "if", Then)
      /\ Len(else_label_stack') = Len(else_label_stack) + Change(m, "if", {"else"})
      /\ Len(has_else_stack') = Len(has_else_stack) + Change(m, "if", {"else"})
      /\ Len(function_name_stack') - Len(function_name_stack)
           = Len(function_loop_stack') - Len(function_loop_stack)
      /\ Follows(Len(function_loop_stack), Len(function_loop_stack'),
                 Change(m, "function", Phases))
      /\ Follows(Len(while_start_label_stack), Len(while_start_label_stack'),
                 Change(m, "while", Phases))
      /\ Follows(Len(for_expr_start_stack), Len(for_expr_start_stack'),
                 Change(m, "for", Phases \ {"init"}))
  BY DEF StacksFollow
<1>1. Cardinality(Having("if", {"body", "else"}))' = Len(if_label_stack')
  BY <1>0, ChangeFacts DEF StacksInv, Then
<1>2. Cardinality(Having("if", {"else"}))' = Len(else_label_stack')
  BY <1>0, ChangeFacts DEF StacksInv
<1>3. Cardinality(Having("if", {"else"}))' = Len(has_else_stack')
  BY <1>0, ChangeFacts DEF StacksInv
<1>4. /\ Len(function_name_stack) \in Nat /\ Len(function_name_stack') \in Nat
      /\ Len(function_loop_stack) \in Nat /\ Len(function_loop_stack') \in Nat
      /\ Len(function_name_stack') = Len(function_loop_stack')
  BY <1>0, StackLengths, LengthsLater DEF LengthsKnown, StacksInv
<1>5. Covers(function_loop_stack, Functions)'
  <2>1. /\ Covers(function_loop_stack, Functions)
        /\ Change(m, "function", Phases) \in Int
        /\ Cardinality(Functions) \in Nat
        /\ Cardinality(Functions)'
             = Cardinality(Functions) + Change(m, "function", Phases)
    BY <1>0, ChangeFacts DEF StacksInv, Functions
  <2>2. /\ Cardinality(Functions) <= Len(function_loop_stack)
        /\ errors = 0 => Cardinality(Functions) = Len(function_loop_stack)
    BY <2>1 DEF Covers
  <2>3. /\ Len(function_loop_stack') >= Len(function_loop_stack) + Change(m, "function", Phases)
        /\ errors' = 0 => /\ errors = 0
                          /\ Len(function_loop_stack') = Len(function_loop_stack) + Change(m, "function", Phases)
    BY <1>0 DEF Follows
  <2>4. /\ Cardinality(Functions)' <= Len(function_loop_stack')
        /\ errors' = 0 => Cardinality(Functions)' = Len(function_loop_stack')
    BY <1>4, <2>1, <2>2, <2>3
  <2>5. QED
    BY <2>4 DEF Covers
<1>6. /\ Len(while_start_label_stack) \in Nat /\ Len(while_start_label_stack') \in Nat
      /\ Len(for_expr_start_stack) \in Nat /\ Len(for_expr_start_stack') \in Nat
  BY StackLengths, LengthsLater DEF LengthsKnown
<1>7. Covers(while_start_label_stack, Having("while", Phases))'
  <2>1. /\ Covers(while_start_label_stack, Having("while", Phases))
        /\ Change(m, "while", Phases) \in Int
        /\ Cardinality(Having("while", Phases)) \in Nat
        /\ Cardinality(Having("while", Phases))'
             = Cardinality(Having("while", Phases)) + Change(m, "while", Phases)
    BY <1>0, ChangeFacts DEF StacksInv
  <2>2. /\ Cardinality(Having("while", Phases)) <= Len(while_start_label_stack)
        /\ errors = 0 => Cardinality(Having("while", Phases)) = Len(while_start_label_stack)
    BY <2>1 DEF Covers
  <2>3. /\ Len(while_start_label_stack') >= Len(while_start_label_stack) + Change(m, "while", Phases)
        /\ errors' = 0 => /\ errors = 0
                          /\ Len(while_start_label_stack') = Len(while_start_label_stack) + Change(m, "while", Phases)
    BY <1>0 DEF Follows
  <2>4. /\ Cardinality(Having("while", Phases))' <= Len(while_start_label_stack')
        /\ errors' = 0 => Cardinality(Having("while", Phases))' = Len(while_start_label_stack')
    BY <1>6, <2>1, <2>2, <2>3
  <2>5. QED
    BY <2>4 DEF Covers
<1>8. Covers(for_expr_start_stack, Having("for", Phases \ {"init"}))'
  <2> DEFINE ph == Phases \ {"init"}
  <2>1. /\ Covers(for_expr_start_stack, Having("for", ph))
        /\ Change(m, "for", ph) \in Int
        /\ Cardinality(Having("for", ph)) \in Nat
        /\ Cardinality(Having("for", ph))'
             = Cardinality(Having("for", ph)) + Change(m, "for", ph)
    BY <1>0, ChangeFacts DEF StacksInv
  <2>2. /\ Cardinality(Having("for", ph)) <= Len(for_expr_start_stack)
        /\ errors = 0 => Cardinality(Having("for", ph)) = Len(for_expr_start_stack)
    BY <2>1 DEF Covers
  <2>3. /\ Len(for_expr_start_stack') >= Len(for_expr_start_stack) + Change(m, "for", ph)
        /\ errors' = 0 => /\ errors = 0
                          /\ Len(for_expr_start_stack') = Len(for_expr_start_stack) + Change(m, "for", ph)
    BY <1>0 DEF Follows
  <2>4. /\ Cardinality(Having("for", ph))' <= Len(for_expr_start_stack')
        /\ errors' = 0 => Cardinality(Having("for", ph))' = Len(for_expr_start_stack')
    BY <1>6, <2>1, <2>2, <2>3
  <2>5. QED
    BY <2>4 DEF Covers
<1>9. QED
  BY <1>0, <1>1, <1>2, <1>3, <1>4, <1>5, <1>7, <1>8 DEF StacksInv

(* The loops of the current function after a step in it. *)
LoopsFollow(m) ==
  /\ UNCHANGED function_loop_stack
  /\ errors' = 0 => errors = 0
  /\ Len(loops'.while_end_label_stack)
       = Len(loops.while_end_label_stack) + Change(m, "while", {"body"})
  /\ Follows(Len(loops.for_start_stack), Len(loops'.for_start_stack),
             Change(m, "for", {"step", "body"}))
  /\ Follows(Len(loops.num_of_breaks_stack), Len(loops'.num_of_breaks_stack),
             (Len(loops'.while_end_label_stack) - Len(loops.while_end_label_stack))
               + (Len(loops'.for_start_stack) - Len(loops.for_start_stack))
               + Change(m, "for", {"cond"}))
  /\ Len(loops'.num_of_breaks_stack) - Len(loops.num_of_breaks_stack)
       = Len(loops'.num_of_continues_stack) - Len(loops.num_of_continues_stack)

LEMMA LevelsStep ==
  ASSUME TypeOK, StacksInv, LevelsInv, TypeOK', NEW m \in Nat, TopChanges(m),
         Top(m)[1] # "function", Top(m)'[1] # "function", LoopsFollow(m)
  PROVE  LevelsInv'
<1>0. /\ UNCHANGED function_loop_stack
      /\ errors' = 0 => errors = 0
      /\ Len(loops'.while_end_label_stack)
           = Len(loops.while_end_label_stack) + Change(m, "while", {"body"})
      /\ Follows(Len(loops.for_start_stack), Len(loops'.for_start_stack),
                 Change(m, "for", {"step", "body"}))
      /\ Follows(Len(loops.num_of_breaks_stack), Len(loops'.num_of_breaks_stack),
                 (Len(loops'.while_end_label_stack) - Len(loops.while_end_label_stack))
                   + (Len(loops'.for_start_stack) - Len(loops.for_start_stack))
                   + Change(m, "for", {"cond"}))
      /\ Len(loops'.num_of_breaks_stack) - Len(loops.num_of_breaks_stack)
           = Len(loops'.num_of_continues_stack) - Len(loops.num_of_continues_stack)
  BY DEF LoopsFollow
<1> SUFFICES ASSUME HeadsKept'
             PROVE  \A d \in 0 .. Len(function_loop_stack') : LevelInv(d, LoopsAt(d))'
  BY DEF LevelsInv
<1>f. PICK F : F = Cardinality(Functions)
  OBVIOUS
<1>k. Functions' = Functions
  BY SameFunctions
<1>1. F = Len(function_loop_stack) /\ F = Len(function_loop_stack') /\ F \in Nat /\ HeadsKept
  BY <1>0, <1>f, <1>k, StackLengths DEF HeadsKept
<1>2. \A d : d # F => LoopsAt(d)' = LoopsAt(d)
  BY <1>0, <1>1 DEF LoopsAt
<1>3. LoopsAt(F) = loops /\ LoopsAt(F)' = loops'
  BY <1>1 DEF LoopsAt
<1>4. SUFFICES ASSUME NEW d \in 0 .. F PROVE LevelInv(d, LoopsAt(d))'
  BY <1>1
<1>5. LevelInv(d, LoopsAt(d))
  BY <1>1 DEF LevelsInv
<1>6. CASE d # F
  <2>1. /\ On(d, Having("while", {"body"}))' = On(d, Having("while", {"body"}))
        /\ On(d, Having("for", {"step", "body"}))' = On(d, Having("for", {"step", "body"}))
        /\ On(d, Having("for", {"cond"}))' = On(d, Having("for", {"cond"}))
    BY <1>f, <1>6, OnStep
  <2>2. PICK L : L = LoopsAt(d)
    OBVIOUS
  <2>3. LevelInv(d, L)
    BY <1>5, <2>2
  <2>4. LevelInv(d, L)'
    BY <1>0, <2>1, <2>3 DEF LevelInv, Covers
  <2>5. LoopsAt(d)' = L
    BY <1>2, <1>6, <2>2
  <2>6. QED
    BY <2>4, <2>5 DEF LevelInv
<1>7. CASE d = F
  <2> DEFINE W == On(F, Having("while", {"body"}))
             S == On(F, Having("for", {"step", "body"}))
             C == On(F, Having("for", {"cond"}))
  <2>1. /\ Cardinality(W') = Cardinality(W) + Change(m, "while", {"body"})
        /\ Cardinality(S') = Cardinality(S) + Change(m, "for", {"step", "body"})
        /\ Cardinality(C') = Cardinality(C) + Change(m, "for", {"cond"})
    <3>1. /\ Cardinality(W)' = Cardinality(W) + Is(Top(m)', "while", {"body"})
                                              - Is(Top(m), "while", {"body"})
          /\ Cardinality(S)' = Cardinality(S) + Is(Top(m)', "for", {"step", "body"})
                                              - Is(Top(m), "for", {"step", "body"})
          /\ Cardinality(C)' = Cardinality(C) + Is(Top(m)', "for", {"cond"})
                                              - Is(Top(m), "for", {"cond"})
      BY <1>f, OnStep
    <3>2. /\ Cardinality(W) \in Nat /\ Cardinality(S) \in Nat /\ Cardinality(C) \in Nat
      <4>1. W \subseteq 0 .. m /\ S \subseteq 0 .. m /\ C \subseteq 0 .. m
        BY LevelStep
      <4> HIDE DEF W, S, C
      <4>w. Cardinality(W) \in Nat
        BY <4>1, PartOfInterval
      <4>s. Cardinality(S) \in Nat
        BY <4>1, PartOfInterval
      <4>c. Cardinality(C) \in Nat
        BY <4>1, PartOfInterval
      <4>2. QED
        BY <4>w, <4>s, <4>c
    <3>3. \A kind, phases : /\ Is(Top(m)', kind, phases) \in {0, 1}
                            /\ Is(Top(m), kind, phases) \in {0, 1}
      BY DEF Is
    <3> HIDE DEF W, S, C
    <3>4. QED
      BY <3>1, <3>2, <3>3 DEF Change
  <2>2. /\ Cardinality(W) = Len(loops.while_end_label_stack)
        /\ Covers(loops.for_start_stack, S)
        /\ Len(loops.while_end_label_stack) + Len(loops.for_start_stack) + Cardinality(C)
             <= Len(loops.num_of_breaks_stack)
        /\ errors = 0 => Len(loops.while_end_label_stack) + Len(loops.for_start_stack)
                           + Cardinality(C) = Len(loops.num_of_breaks_stack)
        /\ Len(loops.num_of_breaks_stack) = Len(loops.num_of_continues_stack)
    BY <1>3, <1>5, <1>7 DEF LevelInv
  <2>3. /\ Len(loops.while_end_label_stack) \in Nat /\ Len(loops.for_start_stack) \in Nat
        /\ Len(loops.num_of_breaks_stack) \in Nat /\ Len(loops.num_of_continues_stack) \in Nat
    BY LoopLengths
  <2>4. /\ Len(loops'.while_end_label_stack) \in Nat /\ Len(loops'.for_start_stack) \in Nat
        /\ Len(loops'.num_of_breaks_stack) \in Nat
        /\ Len(loops'.num_of_continues_stack) \in Nat
    BY LengthsLater DEF LengthsKnown
  <2>5. LevelInv(d, LoopsAt(d))' <=>
          /\ Cardinality(W') = Len(loops'.while_end_label_stack)
          /\ Covers(loops.for_start_stack, S)'
          /\ Len(loops'.while_end_label_stack) + Len(loops'.for_start_stack) + Cardinality(C')
               <= Len(loops'.num_of_breaks_stack)
          /\ errors' = 0 => Len(loops'.while_end_label_stack) + Len(loops'.for_start_stack)
                             + Cardinality(C') = Len(loops'.num_of_breaks_stack)
          /\ Len(loops'.num_of_breaks_stack) = Len(loops'.num_of_continues_stack)
    BY <1>3, <1>7 DEF LevelInv
  <2>6. /\ Cardinality(W) \in Nat /\ Cardinality(S) \in Nat /\ Cardinality(C) \in Nat
        /\ Change(m, "for", {"step", "body"}) \in Int /\ Change(m, "for", {"cond"}) \in Int
    <3>1. W \subseteq 0 .. m /\ S \subseteq 0 .. m /\ C \subseteq 0 .. m
      BY LevelStep
    <3> HIDE DEF W, S, C
    <3>w. Cardinality(W) \in Nat
      BY <3>1, PartOfInterval
    <3>s. Cardinality(S) \in Nat
      BY <3>1, PartOfInterval
    <3>c. Cardinality(C) \in Nat
      BY <3>1, PartOfInterval
    <3>2. QED
      BY <3>w, <3>s, <3>c, ChangeFacts
  <2> HIDE DEF W, S, C
  <2>7. Covers(loops.for_start_stack, S)'
    BY <1>0, <2>1, <2>2, <2>3, <2>4, <2>6, CoversStep, SMTT(30) DEF Covers
  <2>8. Cardinality(W') = Len(loops'.while_end_label_stack)
    BY <1>0, <2>1, <2>2
  <2>9. \A w, f, c, b, w2, f2, b2 \in Nat : \A x \in Int :
           w + f + c <= b /\ b2 >= b + ((w2 - w) + (f2 - f) + x) => w2 + f2 + (c + x) <= b2
    OBVIOUS
  <2>10. Len(loops'.while_end_label_stack) + Len(loops'.for_start_stack) + Cardinality(C')
          <= Len(loops'.num_of_breaks_stack)
    <3> DEFINE x == Change(m, "for", {"cond"})
               c == Cardinality(C)
               w == Len(loops.while_end_label_stack)
               f == Len(loops.for_start_stack)
               b == Len(loops.num_of_breaks_stack)
               w2 == Len(loops'.while_end_label_stack)
               f2 == Len(loops'.for_start_stack)
               b2 == Len(loops'.num_of_breaks_stack)
    <3>1. w + f + c <= b /\ b2 >= b + ((w2 - w) + (f2 - f) + x)
      BY <1>0, <2>2 DEF Follows
    <3>2. w \in Nat /\ f \in Nat /\ c \in Nat /\ b \in Nat /\ w2 \in Nat /\ f2 \in Nat
          /\ b2 \in Nat /\ x \in Int
      BY <2>3, <2>4, <2>6
    <3> HIDE DEF x, c, w, f, b, w2, f2, b2
    <3>3. w2 + f2 + (c + x) <= b2
      BY <2>9, <3>1, <3>2
    <3>4. QED
      BY <2>1, <3>3 DEF x, c, w2, f2, b2
  <2>11. \A w, f, c, b, w2, f2, b2 \in Nat : \A x \in Int :
           w + f + c = b /\ b2 = b + ((w2 - w) + (f2 - f) + x) => w2 + f2 + (c + x) = b2
    OBVIOUS
  <2>12. ASSUME errors' = 0
         PROVE  Len(loops'.while_end_label_stack) + Len(loops'.for_start_stack)
                  + Cardinality(C') = Len(loops'.num_of_breaks_stack)
    <3> DEFINE x == Change(m, "for", {"cond"})
               c == Cardinality(C)
               w == Len(loops.while_end_label_stack)
               f == Len(loops.for_start_stack)
               b == Len(loops.num_of_breaks_stack)
               w2 == Len(loops'.while_end_label_stack)
               f2 == Len(loops'.for_start_stack)
               b2 == Len(loops'.num_of_breaks_stack)
    <3>1. w + f + c = b /\ b2 = b + ((w2 - w) + (f2 - f) + x)
      BY <1>0, <2>2, <2>12 DEF Follows
    <3>2. w \in Nat /\ f \in Nat /\ c \in Nat /\ b \in Nat /\ w2 \in Nat /\ f2 \in Nat
          /\ b2 \in Nat /\ x \in Int
      BY <2>3, <2>4, <2>6
    <3> HIDE DEF x, c, w, f, b, w2, f2, b2
    <3>3. w2 + f2 + (c + x) = b2
      BY <2>11, <3>1, <3>2
    <3>4. QED
      BY <2>1, <3>3 DEF x, c, w2, f2, b2
  <2>13. Len(loops'.num_of_breaks_stack) = Len(loops'.num_of_continues_stack)
    BY <1>0, <2>2, <2>3, <2>4
  <2>14. QED
    BY <2>5, <2>7, <2>8, <2>10, <2>12, <2>13
<1>8. QED
  BY <1>6, <1>7


(* A function that begins or ends changes nothing for the others. *)
LEMMA OnFunction ==
  ASSUME NEW m \in Nat, TopChanges(m),
         Top(m)[1] \in {"function", "none"}, Top(m)'[1] \in {"function", "none"},
         NEW kind, kind # "none", kind # "function", NEW phases
  PROVE  \A d : On(d, Having(kind, phases))' = On(d, Having(kind, phases))
<1>1. m \notin Having(kind, phases) /\ m \notin Having(kind, phases)'
  BY HavingStep DEF Is
<1>2. Having(kind, phases) \subseteq 0 .. m /\ Having(kind, phases)' = Having(kind, phases)
  BY <1>1, HavingStep
<1>3. \A p \in Having(kind, phases) : Level(p)' = Level(p)
  <2>1. \A p \in Having(kind, phases) : p \in 0 .. m - 1
    BY <1>1, <1>2
  <2>2. \A p \in 0 .. m - 1 : Level(p)' = Level(p)
    BY LevelStep
  <2>3. QED
    BY <2>1, <2>2
<1>4. QED
  BY <1>2, <1>3 DEF On

LEMMA LevelKept ==
  ASSUME NEW m \in Nat, TopChanges(m),
         Top(m)[1] \in {"function", "none"}, Top(m)'[1] \in {"function", "none"},
         UNCHANGED errors, NEW d, NEW L, LevelInv(d, L)
  PROVE  LevelInv(d, L)'
<1>1. /\ On(d, Having("while", {"body"}))' = On(d, Having("while", {"body"}))
      /\ On(d, Having("for", {"step", "body"}))' = On(d, Having("for", {"step", "body"}))
      /\ On(d, Having("for", {"cond"}))' = On(d, Having("for", {"cond"}))
  BY OnFunction
<1>2. QED
  BY <1>1 DEF LevelInv, Covers

LEMMA LevelsBegin ==
  ASSUME TypeOK, StacksInv, LevelsInv, TypeOK', FuncStart
  PROVE  LevelsInv'
<1> SUFFICES ASSUME HeadsKept'
             PROVE  \A d \in 0 .. Len(function_loop_stack') : LevelInv(d, LoopsAt(d))'
  BY DEF LevelsInv
<1>m. PICK m : m = Len(open)
  OBVIOUS
<1>f. PICK F : F = Cardinality(Functions)
  OBVIOUS
<1>1. /\ m \in Nat /\ TopChanges(m) /\ Top(m) = Nothing /\ Top(m)' = <<"function", "body">>
  BY <1>m, PushTop DEF FuncStart, FuncHead
<1>k. HeadsKept
  <2>1. Cardinality(Functions)' = Cardinality(Functions) + 1
    BY <1>1, ChangeFacts DEF Functions, Change, Is, Nothing, Phases
  <2>2. Len(function_loop_stack') = Len(function_loop_stack) + 1
    <3>1. function_loop_stack \in Seq(StacksOf(currQuad))
      BY TypesOf
    <3>2. QED
      BY <3>1 DEF FuncStart, FuncHead, Push
  <2>3. Cardinality(Functions) \in Nat /\ Len(function_loop_stack) \in Nat
    BY LevelFacts, StackLengths
  <2>4. Cardinality(Functions)' = Len(function_loop_stack)'
    BY Zenon DEF HeadsKept
  <2>5. Cardinality(Functions) = Len(function_loop_stack)
    BY <2>1, <2>2, <2>3, <2>4
  <2>6. QED
    BY <2>5, Zenon DEF HeadsKept
<1>2. /\ F = Len(function_loop_stack) /\ F \in Nat
      /\ function_loop_stack \in Seq(StacksOf(currQuad)) /\ loops \in StacksOf(currQuad)
      /\ function_loop_stack' = Push(function_loop_stack, loops)
      /\ loops' = NoLoops /\ errors' = errors
  BY <1>f, <1>k, StackLengths, TypesOf DEF HeadsKept, FuncStart, FuncHead
<1>3. /\ Len(function_loop_stack') = F + 1
      /\ function_loop_stack'[1] = loops
      /\ \A i \in 1 .. F : function_loop_stack'[i + 1] = function_loop_stack[i]
  BY <1>2 DEF Push
<1>4. \A d \in 0 .. F : LoopsAt(d)' = LoopsAt(d)
  <2>1. \A d \in 0 .. F : LoopsAt(d)' = function_loop_stack'[F + 1 - d]
    BY <1>2, <1>3 DEF LoopsAt
  <2>2. LoopsAt(F)' = LoopsAt(F)
    BY <1>2, <1>3, <2>1 DEF LoopsAt
  <2>3. \A d \in 0 .. F : d # F => function_loop_stack'[(F - d) + 1] = function_loop_stack[F - d]
    BY <1>2, <1>3
  <2>4. \A d \in 0 .. F : d # F => LoopsAt(d)' = LoopsAt(d)
    BY <1>2, <2>1, <2>3 DEF LoopsAt
  <2>5. QED
    BY <2>2, <2>4
<1>5. ASSUME NEW d \in 0 .. F PROVE LevelInv(d, LoopsAt(d))'
  <2>1. PICK L : L = LoopsAt(d)
    OBVIOUS
  <2>2. LevelInv(d, L)
    BY <1>2, <1>5, <1>k, <2>1 DEF LevelsInv
  <2>3. LevelInv(d, L)'
    BY <1>1, <1>2, <2>2, LevelKept DEF Nothing
  <2>4. LoopsAt(d)' = L
    BY <1>4, <2>1
  <2>5. QED
    BY <2>3, <2>4 DEF LevelInv
<1>6. LevelInv(F + 1, LoopsAt(F + 1))'
  <2>1. ASSUME NEW kind, kind # "none", kind # "function", NEW phases
        PROVE  On(F + 1, Having(kind, phases))' = {}
    <3>1. On(F + 1, Having(kind, phases))' = On(F + 1, Having(kind, phases))
      BY <1>1, <2>1, OnFunction DEF Nothing
    <3>2. \A p \in Depths : Level(p) \in 0 .. F
      BY <1>f, LevelFacts
    <3>3. \A p \in Depths : Level(p) # F + 1
      BY <1>2, <3>2
    <3>4. QED
      BY <3>1, <3>3 DEF On, Having
  <2>2. /\ On(F + 1, Having("while", {"body"}))' = {}
        /\ On(F + 1, Having("for", {"step", "body"}))' = {}
        /\ On(F + 1, Having("for", {"cond"}))' = {}
    BY <2>1
  <2>3. LoopsAt(F + 1)' = NoLoops
    BY <1>2, <1>3 DEF LoopsAt
  <2>4. LevelInv(F + 1, NoLoops)'
    <3>1. Cardinality({}) = 0
      BY FS_EmptySet
    <3>2. QED
      BY <2>2, <3>1 DEF LevelInv, Covers, NoLoops
  <2>5. QED
    BY <2>3, <2>4 DEF LevelInv
<1>7. QED
  BY <1>2, <1>3, <1>5, <1>6

LEMMA LevelsEnd ==
  ASSUME TypeOK, StacksInv, LevelsInv, TypeOK', FuncEnd
  PROVE  LevelsInv'
<1> SUFFICES ASSUME HeadsKept'
             PROVE  \A d \in 0 .. Len(function_loop_stack') : LevelInv(d, LoopsAt(d))'
  BY DEF LevelsInv
<1>m. PICK m : m = Len(open) - 1
  OBVIOUS
<1>f. PICK F : F = Cardinality(Functions)
  OBVIOUS
<1>1. /\ m \in Nat /\ TopChanges(m)
      /\ Top(m) = <<"function", "body">> /\ Top(m)' = Nothing
  BY <1>m, PopTop DEF FuncEnd, Expecting
<1>k. HeadsKept /\ Cardinality(Functions) > 0
  <2>1. Cardinality(Functions) > 0
    BY InnermostCounted DEF FuncEnd, Expecting, Functions, Phases
  <2>2. Cardinality(Functions)' = Cardinality(Functions) - 1
    BY <1>1, ChangeFacts DEF Functions, Change, Is, Nothing, Phases
  <2>3. Cardinality(Functions) \in Nat /\ Len(function_loop_stack) \in Nat
    BY LevelFacts, StackLengths
  <2>4. Len(function_loop_stack) > 0
    BY <2>1, <2>3 DEF StacksInv, Covers
  <2>5. Len(function_loop_stack') = Len(function_loop_stack) - 1
    <3>1. function_loop_stack \in Seq(StacksOf(currQuad))
      BY TypesOf
    <3>2. QED
      BY <2>4, <3>1 DEF FuncEnd
  <2>6. Cardinality(Functions)' = Len(function_loop_stack)'
    BY Zenon DEF HeadsKept
  <2>7. Cardinality(Functions) = Len(function_loop_stack)
    BY <2>2, <2>3, <2>5, <2>6
  <2>8. QED
    BY <2>1, <2>7, Zenon DEF HeadsKept
<1>2. /\ F = Len(function_loop_stack) /\ F \in Nat /\ F > 0
      /\ function_loop_stack \in Seq(StacksOf(currQuad))
      /\ function_loop_stack' = Tail(function_loop_stack)
      /\ loops' = Head(function_loop_stack) /\ errors' = errors
  BY <1>f, <1>k, StackLengths, TypesOf DEF HeadsKept, FuncEnd
<1>3. /\ Len(function_loop_stack') = F - 1 /\ loops' = function_loop_stack[1]
      /\ \A i \in 1 .. F - 1 : function_loop_stack'[i] = function_loop_stack[i + 1]
  BY <1>2
<1>4. \A d \in 0 .. F - 1 : LoopsAt(d)' = LoopsAt(d)
  <2>1. \A d \in 0 .. F - 1 : LoopsAt(d) = function_loop_stack[F - d]
    BY <1>2 DEF LoopsAt
  <2>2. LoopsAt(F - 1)' = LoopsAt(F - 1)
    BY <1>2, <1>3, <2>1 DEF LoopsAt
  <2>3. \A d \in 0 .. F - 1 : d # F - 1 =>
          function_loop_stack'[(F - 1) - d] = function_loop_stack[F - d]
    BY <1>2, <1>3
  <2>4. \A d \in 0 .. F - 1 : d # F - 1 => LoopsAt(d)' = LoopsAt(d)
    BY <1>2, <1>3, <2>1, <2>3 DEF LoopsAt
  <2>5. QED
    BY <2>2, <2>4
<1>5. ASSUME NEW d \in 0 .. F - 1 PROVE LevelInv(d, LoopsAt(d))'
  <2>1. PICK L : L = LoopsAt(d)
    OBVIOUS
  <2>2. LevelInv(d, L)
    BY <1>2, <1>5, <1>k, <2>1 DEF LevelsInv
  <2>3. LevelInv(d, L)'
    BY <1>1, <1>2, <2>2, LevelKept DEF Nothing
  <2>4. LoopsAt(d)' = L
    BY <1>4, <2>1
  <2>5. QED
    BY <2>3, <2>4 DEF LevelInv
<1>6. QED
  BY <1>2, <1>3, <1>5


-----------------------------------------------------------------------------
(* Each step keeps the invariant *)

(* The counts that the stacks follow. *)
Changes(m, then, else, function, while, for, end, start, cond) ==
  /\ Change(m, "if", Then) = then /\ Change(m, "if", {"else"}) = else
  /\ Change(m, "function", Phases) = function
  /\ Change(m, "while", Phases) = while /\ Change(m, "while", {"body"}) = end
  /\ Change(m, "for", Phases \ {"init"}) = for
  /\ Change(m, "for", {"step", "body"}) = start /\ Change(m, "for", {"cond"}) = cond

(* In one function, and but for syntax errors. *)
LEMMA StatementStep ==
  ASSUME OpensInv, TypeOK', NEW m \in Nat, TopChanges(m), NEW kind, NEW at,
         Top(m)' = <<kind, at>>, kind # "function", Top(m)[1] # "function",
         \/ Len(open') = m
         \/ /\ at \in Begun(kind)
            /\ \/ Len(open) = m + 1 /\ Innermost.kind = kind
               \/ Len(open) = m /\ InBody,
         StacksFollow(m), LoopsFollow(m)
  PROVE  OpensInv'
<1>1. TypeOK /\ OpenInv /\ StacksInv /\ LevelsInv
  BY DEF OpensInv
<1>2. OpenInv'
  BY <1>1, OpenStep
<1>3. StacksInv'
  BY <1>1, StackStep
<1>4. LevelsInv'
  BY <1>1, LevelsStep
<1>5. QED
  BY <1>2, <1>3, <1>4 DEF OpensInv

(* Nothing begins or ends, and the stacks are as long as before. *)
SameLengths ==
  /\ UNCHANGED <<function_loop_stack, while_start_label_stack, for_expr_start_stack,
                 if_label_stack, else_label_stack, has_else_stack,
                 function_name_stack, errors>>
  /\ Len(loops'.while_end_label_stack) = Len(loops.while_end_label_stack)
  /\ Len(loops'.for_start_stack) = Len(loops.for_start_stack)
  /\ Len(loops'.num_of_breaks_stack) = Len(loops.num_of_breaks_stack)
  /\ Len(loops'.num_of_continues_stack) = Len(loops.num_of_continues_stack)

LEMMA StayStep ==
  ASSUME OpensInv, TypeOK', Len(open') = Len(open),
         \A j \in 1 .. Len(open) : open'[j].kind = open[j].kind /\ open'[j].at = open[j].at,
         SameLengths
  PROVE  OpensInv'
<1>m. PICK m : m = Len(open)
  OBVIOUS
<1>1. TypeOK /\ has_else_stack \in Seq({1})
  BY DEF OpensInv, StacksInv
<1>2. /\ m \in Nat /\ TopChanges(m) /\ Len(open') = m
      /\ Top(m) = Nothing /\ Top(m)' = Nothing
  BY <1>1, <1>m, SameTop
<1>3. Changes(m, 0, 0, 0, 0, 0, 0, 0, 0)
  BY <1>2 DEF Changes, Change, Is, Nothing
<1>4. StacksFollow(m)
  <2>1. /\ if_label_stack' = if_label_stack /\ else_label_stack' = else_label_stack
        /\ has_else_stack' = has_else_stack /\ errors' = errors
        /\ function_name_stack' = function_name_stack
        /\ function_loop_stack' = function_loop_stack
        /\ while_start_label_stack' = while_start_label_stack
        /\ for_expr_start_stack' = for_expr_start_stack
    BY DEF SameLengths
  <2>2. QED
    BY <1>1, <1>3, <2>1, StackLengths DEF StacksFollow, Follows, Changes
<1>5. LoopsFollow(m)
  BY <1>1, <1>3, LoopLengths DEF LoopsFollow, SameLengths, Follows, Changes
<1>6. QED
  BY <1>2, <1>4, <1>5, StatementStep DEF Nothing

LEMMA ExpressionsKeep ==
  ASSUME OpensInv, TypeOK', Expression \/ Logic \/ Relop \/ Call \/ Return
  PROVE  OpensInv'
<1>1. UNCHANGED <<stacks, open, errors>>
  BY DEF Expression, Logic, Relop, Call, Return, Expr, Emit
<1>2. SameLengths
  BY <1>1 DEF SameLengths, stacks
<1>3. QED
  BY <1>1, <1>2, StayStep

LEMMA JumpsKeep ==
  ASSUME OpensInv, TypeOK', Break \/ Continue
  PROVE  OpensInv'
<1>1. /\ TypeOK /\ Len(loops.num_of_breaks_stack) > 0
      /\ Len(loops.num_of_continues_stack) > 0
      /\ currQuad \in Nat /\ currQuad <= currQuad
  BY CountersThere, TypesOf DEF OpensInv, Break, Continue
<1>2. /\ Len(open') = Len(open)
      /\ \A j \in 1 .. Len(open) : open'[j].kind = open[j].kind /\ open'[j].at = open[j].at
  <2>1. \E where \in Wheres : Promised(where)
    BY DEF Break, Continue, Wheres
  <2>2. QED
    BY <1>1, <2>1, PromisedTyped
<1>3. /\ Len(Increment(loops.num_of_breaks_stack)) = Len(loops.num_of_breaks_stack)
      /\ Len(Increment(loops.num_of_continues_stack)) = Len(loops.num_of_continues_stack)
  BY <1>1, LoopFields, IncrementFacts
<1>4. SameLengths
  <2>1. loops \in StacksOf(currQuad)
    BY <1>1, TypesOf
  <2>2. CASE Break
    BY <1>3, <2>1, <2>2 DEF Break, SameLengths, StacksOf
  <2>3. CASE Continue
    BY <1>3, <2>1, <2>3 DEF Continue, SameLengths, StacksOf
  <2>4. QED
    BY <2>2, <2>3
<1>5. QED
  BY <1>2, <1>4, StayStep

LEMMA BeginsKeep ==
  ASSUME OpensInv, TypeOK', IfBegin \/ WhileBegin \/ ForBegin
  PROVE  OpensInv'
<1>m. PICK m : m = Len(open)
  OBVIOUS
<1>1. TypeOK /\ has_else_stack \in Seq({1}) /\ InBody
  BY DEF OpensInv, StacksInv, IfBegin, WhileBegin, ForBegin, LoopBegin
<1>2. CASE IfBegin
  <2>1. /\ m \in Nat /\ TopChanges(m) /\ Top(m) = Nothing /\ Top(m)' = <<"if", "cond">>
    BY <1>1, <1>2, <1>m, PushTop DEF IfBegin
  <2>2. Changes(m, 0, 0, 0, 0, 0, 0, 0, 0)
    BY <2>1 DEF Changes, Change, Is, Nothing, Then, Phases
  <2>3. StacksFollow(m)
    BY <1>1, <1>2, <2>2, StackLengths DEF StacksFollow, IfBegin, stacks, Follows, Changes
  <2>4. LoopsFollow(m)
    BY <1>1, <1>2, <2>2, LoopLengths DEF LoopsFollow, IfBegin, stacks, Follows, Changes
  <2>5. QED
    BY <1>1, <1>m, <2>1, <2>3, <2>4, StatementStep DEF Nothing, Begun
<1>3. CASE WhileBegin
  <2>1. /\ m \in Nat /\ TopChanges(m) /\ Top(m) = Nothing /\ Top(m)' = <<"while", "cond">>
    BY <1>1, <1>3, <1>m, PushTop DEF WhileBegin, LoopBegin
  <2>2. Changes(m, 0, 0, 0, 1, 0, 0, 0, 0)
    BY <2>1 DEF Changes, Change, Is, Nothing, Then, Phases
  <2>3. Len(while_start_label_stack') = Len(while_start_label_stack) + 1
    <3>1. while_start_label_stack \in Seq(0 .. currQuad)
      BY <1>1, TypesOf DEF LabelsTyped
    <3>2. QED
      BY <1>3, <3>1 DEF WhileBegin, Push
  <2>4. StacksFollow(m)
    BY <1>1, <1>3, <2>2, <2>3, StackLengths DEF StacksFollow, WhileBegin, Follows, Changes
  <2>5. LoopsFollow(m)
    BY <1>1, <1>3, <2>2, LoopLengths DEF LoopsFollow, WhileBegin, Follows, Changes
  <2>6. QED
    BY <1>1, <1>m, <2>1, <2>4, <2>5, StatementStep DEF Nothing, Begun
<1>4. CASE ForBegin
  <2>1. /\ m \in Nat /\ TopChanges(m) /\ Top(m) = Nothing /\ Top(m)' = <<"for", "init">>
    BY <1>1, <1>4, <1>m, PushTop DEF ForBegin, LoopBegin
  <2>2. Changes(m, 0, 0, 0, 0, 0, 0, 0, 0)
    BY <2>1 DEF Changes, Change, Is, Nothing, Then, Phases
  <2>3. StacksFollow(m)
    BY <1>1, <1>4, <2>2, StackLengths DEF StacksFollow, ForBegin, stacks, Follows, Changes
  <2>4. LoopsFollow(m)
    BY <1>1, <1>4, <2>2, LoopLengths DEF LoopsFollow, ForBegin, stacks, Follows, Changes
  <2>5. QED
    BY <1>1, <1>m, <2>1, <2>3, <2>4, StatementStep DEF Nothing, Begun
<1>5. QED
  BY <1>2, <1>3, <1>4


LEMMA TestedForm ==
  ASSUME TypeOK, open # <<>>, NEW where,
         open' = [Promise(1, currQuad + 1, where) EXCEPT ![1].at = "body"]
  PROVE  \E start, step, jumps : open' = GoesOn("body", start, step, jumps)
<1>1. open' = GoesOn("body", Innermost.start, Innermost.step,
                     Innermost.jumps \cup {<<currQuad + 1, where>>})
  BY PromiseForm, ZenonT(30)
<1>2. QED
  BY <1>1

LEMMA IfThenKeeps ==
  ASSUME OpensInv, TypeOK', IfThen
  PROVE  OpensInv'
<1>m. PICK m : m = Len(open) - 1
  OBVIOUS
<1>1. /\ TypeOK /\ has_else_stack \in Seq({1}) /\ open # <<>>
      /\ Innermost.kind = "if" /\ Innermost.at = "cond"
  BY DEF OpensInv, StacksInv, IfThen, Expecting
<1>2. \E start, step, jumps : open' = GoesOn("body", start, step, jumps)
  <2>1. open' = [Promise(1, currQuad + 1, "else") EXCEPT ![1].at = "body"]
    BY DEF IfThen
  <2>2. QED
    BY <1>1, <2>1, TestedForm, Zenon
<1>3. /\ m \in Nat /\ TopChanges(m) /\ Len(open) = m + 1
      /\ Top(m) = <<"if", "cond">> /\ Top(m)' = <<"if", "body">>
  BY <1>1, <1>2, <1>m, GoesOnTop
<1>4. Changes(m, 1, 0, 0, 0, 0, 0, 0, 0)
  BY <1>3 DEF Changes, Change, Is, Then, Phases
<1>5. Len(if_label_stack') = Len(if_label_stack) + 1
  <2>1. if_label_stack \in Seq(Upto(currQuad))
    BY <1>1, TypesOf DEF LabelsTyped
  <2>2. QED
    BY <2>1 DEF IfThen, Push
<1>6. StacksFollow(m)
  BY <1>1, <1>4, <1>5, StackLengths DEF StacksFollow, IfThen, Follows, Changes
<1>7. LoopsFollow(m)
  BY <1>1, <1>4, LoopLengths DEF LoopsFollow, IfThen, Follows, Changes
<1>8. QED
  BY <1>1, <1>3, <1>6, <1>7, StatementStep DEF Begun

LEMMA IfElseKeeps ==
  ASSUME OpensInv, TypeOK', IfElse
  PROVE  OpensInv'
<1>m. PICK m : m = Len(open) - 1
  OBVIOUS
<1>1. /\ TypeOK /\ has_else_stack \in Seq({1}) /\ open # <<>>
      /\ Innermost.kind = "if" /\ Innermost.at = "body"
  BY DEF OpensInv, StacksInv, IfElse, Expecting
<1>2. \E start, step, jumps : open' = GoesOn("else", start, step, jumps)
  BY <1>1, ElseForm
<1>3. /\ m \in Nat /\ TopChanges(m) /\ Len(open) = m + 1
      /\ Top(m) = <<"if", "body">> /\ Top(m)' = <<"if", "else">>
  BY <1>1, <1>2, <1>m, GoesOnTop
<1>4. Changes(m, 0, 1, 0, 0, 0, 0, 0, 0)
  BY <1>3 DEF Changes, Change, Is, Then, Phases
<1>5. /\ Len(else_label_stack') = Len(else_label_stack) + 1
      /\ Len(has_else_stack') = Len(has_else_stack) + 1 /\ has_else_stack' \in Seq({1})
  <2>1. else_label_stack \in Seq(Upto(currQuad))
    BY <1>1, TypesOf DEF LabelsTyped
  <2>2. QED
    BY <1>1, <2>1 DEF IfElse, Push
<1>6. StacksFollow(m)
  BY <1>1, <1>4, <1>5, StackLengths DEF StacksFollow, IfElse, Follows, Changes
<1>7. LoopsFollow(m)
  BY <1>1, <1>4, LoopLengths DEF LoopsFollow, IfElse, Follows, Changes
<1>8. QED
  BY <1>1, <1>3, <1>6, <1>7, StatementStep DEF Begun

LEMMA IfEndKeeps ==
  ASSUME OpensInv, TypeOK', IfEnd
  PROVE  OpensInv'
<1>m. PICK m : m = Len(open) - 1
  OBVIOUS
<1>1. /\ TypeOK /\ has_else_stack \in Seq({1}) /\ open # <<>>
      /\ Innermost.kind = "if" /\ Innermost.at \in {"body", "else"}
      /\ Len(if_label_stack) > 0
  BY IfThere DEF OpensInv, StacksInv, IfEnd, Expecting
<1>2. /\ m \in Nat /\ TopChanges(m) /\ Len(open') = m
      /\ Top(m) = <<"if", Innermost.at>> /\ Top(m)' = Nothing
  BY <1>1, <1>m, PopTop DEF IfEnd
<1>3. Len(if_label_stack') = Len(if_label_stack) - 1
  <2>1. if_label_stack \in Seq(Upto(currQuad))
    BY <1>1, TypesOf DEF LabelsTyped
  <2>2. QED
    BY <1>1, <2>1 DEF IfEnd
<1>u. UNCHANGED <<loops, function_loop_stack, function_name_stack,
                  while_start_label_stack, for_expr_start_stack, errors>>
  BY DEF IfEnd
<1>4. CASE Innermost.at = "body"
  <2>1. Changes(m, -1, 0, 0, 0, 0, 0, 0, 0)
    BY <1>2, <1>4 DEF Changes, Change, Is, Nothing, Then, Phases
  <2>2. UNCHANGED <<else_label_stack, has_else_stack>>
    BY <1>4, IfEndForms
  <2>3. StacksFollow(m)
    BY <1>1, <1>3, <1>u, <2>1, <2>2, StackLengths DEF StacksFollow, Follows, Changes
  <2>4. LoopsFollow(m)
    BY <1>1, <1>u, <2>1, LoopLengths DEF LoopsFollow, Follows, Changes
  <2>5. QED
    BY <1>2, <2>3, <2>4, StatementStep DEF Nothing
<1>5. CASE Innermost.at = "else"
  <2>1. Changes(m, -1, -1, 0, 0, 0, 0, 0, 0)
    BY <1>2, <1>5 DEF Changes, Change, Is, Nothing, Then, Phases
  <2>2. /\ Len(else_label_stack) > 0 /\ Len(has_else_stack) > 0
        /\ else_label_stack' = Tail(else_label_stack)
        /\ has_else_stack' = Tail(has_else_stack)
    BY <1>5, IfEndForms
  <2>3. /\ Len(else_label_stack') = Len(else_label_stack) - 1
        /\ Len(has_else_stack') = Len(has_else_stack) - 1 /\ has_else_stack' \in Seq({1})
    <3>1. else_label_stack \in Seq(Upto(currQuad))
      BY <1>1, TypesOf DEF LabelsTyped
    <3>2. QED
      BY <1>1, <2>2, <3>1
  <2>4. StacksFollow(m)
    BY <1>1, <1>3, <1>u, <2>1, <2>3, StackLengths, SMTT(30) DEF StacksFollow, Follows, Changes
  <2>5. LoopsFollow(m)
    BY <1>1, <1>u, <2>1, LoopLengths DEF LoopsFollow, Follows, Changes
  <2>6. QED
    BY <1>2, <2>4, <2>5, StatementStep DEF Nothing
<1>6. QED
  BY <1>1, <1>4, <1>5

LEMMA WhileBodyKeeps ==
  ASSUME OpensInv, TypeOK', WhileBody
  PROVE  OpensInv'
<1>m. PICK m : m = Len(open) - 1
  OBVIOUS
<1>1. /\ TypeOK /\ has_else_stack \in Seq({1}) /\ open # <<>>
      /\ Innermost.kind = "while" /\ Innermost.at = "cond"
  BY DEF OpensInv, StacksInv, WhileBody, Expecting
<1>2. \E start, step, jumps : open' = GoesOn("body", start, step, jumps)
  <2>1. open' = [Promise(1, currQuad + 1, "end") EXCEPT ![1].at = "body"]
    BY DEF WhileBody
  <2>2. QED
    BY <1>1, <2>1, TestedForm, Zenon
<1>3. /\ m \in Nat /\ TopChanges(m) /\ Len(open) = m + 1
      /\ Top(m) = <<"while", "cond">> /\ Top(m)' = <<"while", "body">>
  BY <1>1, <1>2, <1>m, GoesOnTop
<1>4. Changes(m, 0, 0, 0, 0, 0, 1, 0, 0)
  BY <1>3 DEF Changes, Change, Is, Then, Phases
<1>5. /\ Len(loops'.while_end_label_stack) = Len(loops.while_end_label_stack) + 1
      /\ Len(loops'.num_of_breaks_stack) = Len(loops.num_of_breaks_stack) + 1
      /\ Len(loops'.num_of_continues_stack) = Len(loops.num_of_continues_stack) + 1
      /\ loops'.for_start_stack = loops.for_start_stack
  <2>1. loops \in StacksOf(currQuad)
    BY <1>1, TypesOf
  <2>2. /\ loops'.while_end_label_stack = Push(loops.while_end_label_stack, currQuad + 1)
        /\ loops'.num_of_breaks_stack = Push(loops.num_of_breaks_stack, 0)
        /\ loops'.num_of_continues_stack = Push(loops.num_of_continues_stack, 0)
        /\ loops'.for_start_stack = loops.for_start_stack
    BY <2>1 DEF WhileBody, StacksOf
  <2>3. Len(Push(loops.while_end_label_stack, currQuad + 1)) = Len(loops.while_end_label_stack) + 1
    BY <2>1 DEF StacksOf, Push
  <2>4. QED
    BY <1>1, <2>2, <2>3, CountersPushed
<1>6. StacksFollow(m)
  BY <1>1, <1>4, StackLengths DEF StacksFollow, WhileBody, Follows, Changes
<1>7. LoopsFollow(m)
  <2>1. UNCHANGED <<function_loop_stack, errors>>
    BY DEF WhileBody
  <2>2. /\ Len(loops.while_end_label_stack) \in Nat /\ Len(loops.for_start_stack) \in Nat
        /\ Len(loops.num_of_breaks_stack) \in Nat /\ Len(loops.num_of_continues_stack) \in Nat
    BY <1>1, LoopLengths
  <2>3. QED
    BY <1>4, <1>5, <2>1, <2>2 DEF LoopsFollow, Follows, Changes
<1>8. QED
  BY <1>1, <1>3, <1>6, <1>7, StatementStep DEF Begun

(* The end of a loop takes one counter of each. *)
LEMMA PoppedLengths ==
  ASSUME TypeOK, Len(loops.num_of_breaks_stack) > 0, Len(loops.num_of_continues_stack) > 0
  PROVE  /\ CountsPopped \in StacksOf(currQuad)
         /\ CountsPopped.while_end_label_stack = loops.while_end_label_stack
         /\ CountsPopped.for_start_stack = loops.for_start_stack
         /\ Len(CountsPopped.num_of_breaks_stack) = Len(loops.num_of_breaks_stack) - 1
         /\ Len(CountsPopped.num_of_continues_stack) = Len(loops.num_of_continues_stack) - 1
<1>1. currQuad \in Nat /\ currQuad <= currQuad
  BY TypesOf
<1>2. /\ CountsPopped \in StacksOf(currQuad)
      /\ CountsPopped.while_end_label_stack = loops.while_end_label_stack
      /\ CountsPopped.for_start_stack = loops.for_start_stack
      /\ CountsPopped.num_of_breaks_stack = Tail(loops.num_of_breaks_stack)
      /\ CountsPopped.num_of_continues_stack = Tail(loops.num_of_continues_stack)
  <2>1. PICK n \in Nat : n = currQuad
    BY <1>1
  <2>2. currQuad <= n
    BY <1>1, <2>1
  <2>3. CountsPopped \in StacksOf(n)
    BY <2>2, CountsPoppedTyped
  <2>4. CountsPopped =
              [break_stack |-> Drop(loops.break_stack, Breaks),
               continue_stack |-> Drop(loops.continue_stack, Continues),
               num_of_breaks_stack |-> Tail(loops.num_of_breaks_stack),
               num_of_continues_stack |-> Tail(loops.num_of_continues_stack),
               for_start_stack |-> loops.for_start_stack,
               while_end_label_stack |-> loops.while_end_label_stack]
    BY <2>2, CountsPoppedTyped
  <2>5. QED
    BY <2>1, <2>3, <2>4
<1>3. loops.num_of_breaks_stack \in Seq(Nat) /\ loops.num_of_continues_stack \in Seq(Nat)
  BY <1>1, LoopFields
<1>4. QED
  BY <1>2, <1>3

LEMMA WhileEndKeeps ==
  ASSUME OpensInv, TypeOK', WhileEnd
  PROVE  OpensInv'
<1>m. PICK m : m = Len(open) - 1
  OBVIOUS
<1>1. /\ TypeOK /\ has_else_stack \in Seq({1}) /\ open # <<>>
      /\ Innermost.kind = "while" /\ Innermost.at = "body"
      /\ Len(while_start_label_stack) > 0 /\ Len(loops.while_end_label_stack) > 0
      /\ Len(loops.num_of_breaks_stack) > 0 /\ Len(loops.num_of_continues_stack) > 0
  BY WhileThere DEF OpensInv, StacksInv, WhileEnd, Expecting
<1>2. /\ m \in Nat /\ TopChanges(m) /\ Len(open') = m
      /\ Top(m) = <<"while", "body">> /\ Top(m)' = Nothing
  BY <1>1, <1>m, PopTop DEF WhileEnd
<1>3. Changes(m, 0, 0, 0, -1, 0, -1, 0, 0)
  BY <1>2 DEF Changes, Change, Is, Nothing, Then, Phases
<1>4. Len(while_start_label_stack') = Len(while_start_label_stack) - 1
  <2>1. while_start_label_stack \in Seq(0 .. currQuad)
    BY <1>1, TypesOf DEF LabelsTyped
  <2>2. QED
    BY <1>1, <2>1 DEF WhileEnd
<1>5. /\ Len(loops'.while_end_label_stack) = Len(loops.while_end_label_stack) - 1
      /\ Len(loops'.num_of_breaks_stack) = Len(loops.num_of_breaks_stack) - 1
      /\ Len(loops'.num_of_continues_stack) = Len(loops.num_of_continues_stack) - 1
      /\ loops'.for_start_stack = loops.for_start_stack
  <2>1. PICK r : r = CountsPopped
    OBVIOUS
  <2>2. loops' = [r EXCEPT !.while_end_label_stack = Tail(@)]
    BY <2>1 DEF WhileEnd
  <2>3. /\ r \in StacksOf(currQuad)
        /\ r.while_end_label_stack = loops.while_end_label_stack
        /\ r.for_start_stack = loops.for_start_stack
        /\ Len(r.num_of_breaks_stack) = Len(loops.num_of_breaks_stack) - 1
        /\ Len(r.num_of_continues_stack) = Len(loops.num_of_continues_stack) - 1
    BY <1>1, <2>1, PoppedLengths
  <2>4. QED
    BY <1>1, <2>2, <2>3 DEF StacksOf
<1>6. StacksFollow(m)
  <2>1. UNCHANGED <<function_loop_stack, for_expr_start_stack, if_label_stack,
                    else_label_stack, has_else_stack, function_name_stack, errors>>
    BY DEF WhileEnd
  <2>2. QED
    BY <1>1, <1>3, <1>4, <2>1, StackLengths, SMTT(30) DEF StacksFollow, Follows, Changes
<1>7. LoopsFollow(m)
  <2>1. UNCHANGED <<function_loop_stack, errors>>
    BY DEF WhileEnd
  <2>2. /\ Len(loops.while_end_label_stack) \in Nat /\ Len(loops.for_start_stack) \in Nat
        /\ Len(loops.num_of_breaks_stack) \in Nat /\ Len(loops.num_of_continues_stack) \in Nat
    BY <1>1, LoopLengths
  <2>3. QED
    BY <1>3, <1>5, <2>1, <2>2, SMTT(40) DEF LoopsFollow, Follows, Changes
<1>8. QED
  BY <1>2, <1>6, <1>7, StatementStep DEF Nothing


LEMMA ForCondKeeps ==
  ASSUME OpensInv, TypeOK', ForCond
  PROVE  OpensInv'
<1>m. PICK m : m = Len(open) - 1
  OBVIOUS
<1>1. /\ TypeOK /\ has_else_stack \in Seq({1}) /\ open # <<>>
      /\ Innermost.kind = "for" /\ Innermost.at = "init"
  BY DEF OpensInv, StacksInv, ForCond, Expecting
<1>2. \E start, step, jumps : open' = GoesOn("cond", start, step, jumps)
  BY <1>1, CondForm
<1>3. /\ m \in Nat /\ TopChanges(m) /\ Len(open) = m + 1
      /\ Top(m) = <<"for", "init">> /\ Top(m)' = <<"for", "cond">>
  BY <1>1, <1>2, <1>m, GoesOnTop
<1>4. Changes(m, 0, 0, 0, 0, 1, 0, 0, 1)
  BY <1>3 DEF Changes, Change, Is, Then, Phases
<1>5. /\ Len(loops'.num_of_breaks_stack) = Len(loops.num_of_breaks_stack) + 1
      /\ Len(loops'.num_of_continues_stack) = Len(loops.num_of_continues_stack) + 1
      /\ loops'.for_start_stack = loops.for_start_stack
      /\ loops'.while_end_label_stack = loops.while_end_label_stack
  <2>1. loops \in StacksOf(currQuad)
    BY <1>1, TypesOf
  <2>2. /\ loops'.while_end_label_stack = loops.while_end_label_stack
        /\ loops'.num_of_breaks_stack = Push(loops.num_of_breaks_stack, 0)
        /\ loops'.num_of_continues_stack = Push(loops.num_of_continues_stack, 0)
        /\ loops'.for_start_stack = loops.for_start_stack
    BY <2>1 DEF ForCond, StacksOf
  <2>3. QED
    BY <1>1, <2>2, CountersPushed
<1>6. Len(for_expr_start_stack') = Len(for_expr_start_stack) + 1
  <2>1. for_expr_start_stack \in Seq(0 .. currQuad)
    BY <1>1, TypesOf DEF LabelsTyped
  <2>2. QED
    BY <2>1 DEF ForCond, Push
<1>7. StacksFollow(m)
  <2>1. UNCHANGED <<function_loop_stack, while_start_label_stack, if_label_stack,
                    else_label_stack, has_else_stack, function_name_stack, errors>>
    BY DEF ForCond
  <2>2. QED
    BY <1>1, <1>4, <1>6, <2>1, StackLengths DEF StacksFollow, Follows, Changes
<1>8. LoopsFollow(m)
  <2>1. UNCHANGED <<function_loop_stack, errors>>
    BY DEF ForCond
  <2>2. /\ Len(loops.while_end_label_stack) \in Nat /\ Len(loops.for_start_stack) \in Nat
        /\ Len(loops.num_of_breaks_stack) \in Nat /\ Len(loops.num_of_continues_stack) \in Nat
    BY <1>1, LoopLengths
  <2>3. QED
    BY <1>4, <1>5, <2>1, <2>2 DEF LoopsFollow, Follows, Changes
<1>9. QED
  BY <1>1, <1>3, <1>7, <1>8, StatementStep DEF Begun

LEMMA ForStepKeeps ==
  ASSUME OpensInv, TypeOK', ForStep
  PROVE  OpensInv'
<1>m. PICK m : m = Len(open) - 1
  OBVIOUS
<1>1. /\ TypeOK /\ has_else_stack \in Seq({1}) /\ open # <<>>
      /\ Innermost.kind = "for" /\ Innermost.at = "cond"
  BY DEF OpensInv, StacksInv, ForStep, Expecting
<1>2. \E start, step, jumps : open' = GoesOn("step", start, step, jumps)
  BY <1>1, StepForm
<1>3. /\ m \in Nat /\ TopChanges(m) /\ Len(open) = m + 1
      /\ Top(m) = <<"for", "cond">> /\ Top(m)' = <<"for", "step">>
  BY <1>1, <1>2, <1>m, GoesOnTop
<1>4. Changes(m, 0, 0, 0, 0, 0, 0, 1, -1)
  BY <1>3 DEF Changes, Change, Is, Then, Phases
<1>5. /\ Len(loops'.for_start_stack) = Len(loops.for_start_stack) + 1
      /\ loops'.num_of_breaks_stack = loops.num_of_breaks_stack
      /\ loops'.num_of_continues_stack = loops.num_of_continues_stack
      /\ loops'.while_end_label_stack = loops.while_end_label_stack
  <2>1. loops \in StacksOf(currQuad)
    BY <1>1, TypesOf
  <2>2. /\ loops'.while_end_label_stack = loops.while_end_label_stack
        /\ loops'.num_of_breaks_stack = loops.num_of_breaks_stack
        /\ loops'.num_of_continues_stack = loops.num_of_continues_stack
        /\ loops'.for_start_stack = Push(loops.for_start_stack, currQuad)
    BY <2>1 DEF ForStep, StacksOf
  <2>3. Len(Push(loops.for_start_stack, currQuad)) = Len(loops.for_start_stack) + 1
    BY <2>1 DEF StacksOf, Push
  <2>4. QED
    BY <2>2, <2>3
<1>6. StacksFollow(m)
  BY <1>1, <1>4, StackLengths DEF StacksFollow, ForStep, Follows, Changes
<1>7. LoopsFollow(m)
  <2>1. UNCHANGED <<function_loop_stack, errors>>
    BY DEF ForStep
  <2>2. /\ Len(loops.while_end_label_stack) \in Nat /\ Len(loops.for_start_stack) \in Nat
        /\ Len(loops.num_of_breaks_stack) \in Nat /\ Len(loops.num_of_continues_stack) \in Nat
    BY <1>1, LoopLengths
  <2>3. QED
    BY <1>4, <1>5, <2>1, <2>2 DEF LoopsFollow, Follows, Changes
<1>8. QED
  BY <1>1, <1>3, <1>6, <1>7, StatementStep DEF Begun

LEMMA ForBodyKeeps ==
  ASSUME OpensInv, TypeOK', ForBody
  PROVE  OpensInv'
<1>m. PICK m : m = Len(open) - 1
  OBVIOUS
<1>1. /\ TypeOK /\ has_else_stack \in Seq({1}) /\ open # <<>>
      /\ Innermost.kind = "for" /\ Innermost.at = "step"
  BY DEF OpensInv, StacksInv, ForBody, StepDone, Expecting
<1>2. \E start, step, jumps : open' = GoesOn("body", start, step, jumps)
  BY <1>1, BodyForm
<1>3. /\ m \in Nat /\ TopChanges(m) /\ Len(open) = m + 1
      /\ Top(m) = <<"for", "step">> /\ Top(m)' = <<"for", "body">>
  BY <1>1, <1>2, <1>m, GoesOnTop
<1>4. Changes(m, 0, 0, 0, 0, 0, 0, 0, 0)
  BY <1>3 DEF Changes, Change, Is, Then, Phases
<1>5. UNCHANGED <<stacks, errors>>
  BY DEF ForBody, StepDone
<1>6. StacksFollow(m)
  BY <1>1, <1>4, <1>5, StackLengths DEF StacksFollow, stacks, Follows, Changes
<1>7. LoopsFollow(m)
  BY <1>1, <1>4, <1>5, LoopLengths DEF LoopsFollow, stacks, Follows, Changes
<1>8. QED
  BY <1>1, <1>3, <1>6, <1>7, StatementStep DEF Begun

LEMMA ForEndKeeps ==
  ASSUME OpensInv, TypeOK', ForEnd
  PROVE  OpensInv'
<1>m. PICK m : m = Len(open) - 1
  OBVIOUS
<1>1. /\ TypeOK /\ has_else_stack \in Seq({1}) /\ open # <<>>
      /\ Innermost.kind = "for" /\ Innermost.at = "body"
      /\ Len(for_expr_start_stack) > 0 /\ Len(loops.for_start_stack) > 0
      /\ Len(loops.num_of_breaks_stack) > 0 /\ Len(loops.num_of_continues_stack) > 0
  BY ForThere, CountersThere DEF OpensInv, StacksInv, ForEnd, Expecting
<1>2. /\ m \in Nat /\ TopChanges(m) /\ Len(open') = m
      /\ Top(m) = <<"for", "body">> /\ Top(m)' = Nothing
  BY <1>1, <1>m, PopTop DEF ForEnd
<1>3. Changes(m, 0, 0, 0, 0, -1, 0, -1, 0)
  BY <1>2 DEF Changes, Change, Is, Nothing, Then, Phases
<1>4. Len(for_expr_start_stack') = Len(for_expr_start_stack) - 1
  <2>1. for_expr_start_stack \in Seq(0 .. currQuad)
    BY <1>1, TypesOf DEF LabelsTyped
  <2>2. QED
    BY <1>1, <2>1 DEF ForEnd
<1>5. /\ Len(loops'.for_start_stack) = Len(loops.for_start_stack) - 1
      /\ Len(loops'.num_of_breaks_stack) = Len(loops.num_of_breaks_stack) - 1
      /\ Len(loops'.num_of_continues_stack) = Len(loops.num_of_continues_stack) - 1
      /\ loops'.while_end_label_stack = loops.while_end_label_stack
  <2>1. PICK r : r = CountsPopped
    OBVIOUS
  <2>2. loops' = [r EXCEPT !.for_start_stack = Tail(@)]
    BY <2>1 DEF ForEnd
  <2>3. /\ r \in StacksOf(currQuad)
        /\ r.while_end_label_stack = loops.while_end_label_stack
        /\ r.for_start_stack = loops.for_start_stack
        /\ Len(r.num_of_breaks_stack) = Len(loops.num_of_breaks_stack) - 1
        /\ Len(r.num_of_continues_stack) = Len(loops.num_of_continues_stack) - 1
    BY <1>1, <2>1, PoppedLengths
  <2>4. QED
    BY <1>1, <2>2, <2>3 DEF StacksOf
<1>6. StacksFollow(m)
  <2>1. UNCHANGED <<function_loop_stack, while_start_label_stack, if_label_stack,
                    else_label_stack, has_else_stack, function_name_stack, errors>>
    BY DEF ForEnd
  <2>2. QED
    BY <1>1, <1>3, <1>4, <2>1, StackLengths, SMTT(30) DEF StacksFollow, Follows, Changes
<1>7. LoopsFollow(m)
  <2>1. UNCHANGED <<function_loop_stack, errors>>
    BY DEF ForEnd
  <2>2. /\ Len(loops.while_end_label_stack) \in Nat /\ Len(loops.for_start_stack) \in Nat
        /\ Len(loops.num_of_breaks_stack) \in Nat /\ Len(loops.num_of_continues_stack) \in Nat
    BY <1>1, LoopLengths
  <2>3. QED
    BY <1>3, <1>5, <2>1, <2>2 DEF LoopsFollow, Follows, Changes
<1>8. QED
  BY <1>2, <1>6, <1>7, StatementStep DEF Nothing

LEMMA FuncStartKeeps ==
  ASSUME OpensInv, TypeOK', FuncStart
  PROVE  OpensInv'
<1>m. PICK m : m = Len(open)
  OBVIOUS
<1>1. TypeOK /\ OpenInv /\ StacksInv /\ LevelsInv /\ has_else_stack \in Seq({1})
  BY DEF OpensInv, StacksInv
<1>2. /\ m \in Nat /\ TopChanges(m) /\ Top(m) = Nothing /\ Top(m)' = <<"function", "body">>
  BY <1>1, <1>m, PushTop DEF FuncStart, FuncHead
<1>3. Changes(m, 0, 0, 1, 0, 0, 0, 0, 0)
  BY <1>2 DEF Changes, Change, Is, Nothing, Then, Phases
<1>4. /\ Len(function_name_stack') = Len(function_name_stack) + 1
      /\ Len(function_loop_stack') = Len(function_loop_stack) + 1
  <2>1. /\ function_name_stack \in Seq(Upto(currQuad))
        /\ function_loop_stack \in Seq(StacksOf(currQuad))
    BY <1>1, TypesOf DEF LabelsTyped
  <2>2. QED
    BY <2>1 DEF FuncStart, FuncHead, Push
<1>5. StacksFollow(m)
  <2>1. UNCHANGED <<while_start_label_stack, for_expr_start_stack, if_label_stack,
                    else_label_stack, has_else_stack, errors>>
    BY DEF FuncStart, FuncHead
  <2>2. QED
    BY <1>1, <1>3, <1>4, <2>1, StackLengths DEF StacksFollow, Follows, Changes
<1>6. OpenInv'
  BY <1>1, <1>2, OpenStep DEF Begun
<1>7. StacksInv'
  BY <1>1, <1>2, <1>5, StackStep
<1>8. LevelsInv'
  BY <1>1, LevelsBegin
<1>9. QED
  BY <1>6, <1>7, <1>8 DEF OpensInv

LEMMA FuncEndKeeps ==
  ASSUME OpensInv, TypeOK', FuncEnd
  PROVE  OpensInv'
<1>m. PICK m : m = Len(open) - 1
  OBVIOUS
<1>1. /\ TypeOK /\ OpenInv /\ StacksInv /\ LevelsInv /\ has_else_stack \in Seq({1})
      /\ open # <<>> /\ Innermost.kind = "function" /\ Innermost.at = "body"
      /\ Len(function_name_stack) > 0 /\ Len(function_loop_stack) > 0
  BY FunctionThere DEF OpensInv, StacksInv, FuncEnd, Expecting
<1>2. /\ m \in Nat /\ TopChanges(m) /\ Len(open') = m
      /\ Top(m) = <<"function", "body">> /\ Top(m)' = Nothing
  BY <1>1, <1>m, PopTop DEF FuncEnd
<1>3. Changes(m, 0, 0, -1, 0, 0, 0, 0, 0)
  BY <1>2 DEF Changes, Change, Is, Nothing, Then, Phases
<1>4. /\ Len(function_name_stack') = Len(function_name_stack) - 1
      /\ Len(function_loop_stack') = Len(function_loop_stack) - 1
  <2>1. /\ function_name_stack \in Seq(Upto(currQuad))
        /\ function_loop_stack \in Seq(StacksOf(currQuad))
    BY <1>1, TypesOf DEF LabelsTyped
  <2>2. QED
    BY <1>1, <2>1 DEF FuncEnd
<1>5. StacksFollow(m)
  <2>1. UNCHANGED <<while_start_label_stack, for_expr_start_stack, if_label_stack,
                    else_label_stack, has_else_stack, errors>>
    BY DEF FuncEnd
  <2>2. QED
    BY <1>1, <1>3, <1>4, <2>1, StackLengths DEF StacksFollow, Follows, Changes
<1>6. OpenInv'
  BY <1>1, <1>2, OpenStep DEF Nothing
<1>7. StacksInv'
  BY <1>1, <1>2, <1>5, StackStep
<1>8. LevelsInv'
  BY <1>1, LevelsEnd
<1>9. QED
  BY <1>6, <1>7, <1>8 DEF OpensInv

(* What the forgotten statement has left on the stacks is too much from then on. *)
LEMMA ForgottenCounts ==
  ASSUME OpensInv, InHeader, NEW m \in Nat, Top(m) = <<Innermost.kind, Innermost.at>>,
         Top(m)' = Nothing
  PROVE  \E w, f, s, c \in {-1, 0} :
           Changes(m, 0, 0, 0, w, f, 0, s, c) /\ Top(m)[1] # "function"
<1>1. TypeOK /\ open # <<>> /\ Innermost.at \in {"init", "cond", "step"}
  BY DEF OpensInv, InHeader
<1>2. Top(m) = <<Innermost.kind, Innermost.at>> /\ Top(m)' = Nothing
  OBVIOUS
<1>3. Innermost.at \in Begun(Innermost.kind) /\ Innermost.kind \in Kinds
  BY <1>1, DepthFacts DEF OpensInv, OpenInv
<1>4. QED
  <2>1. CASE Innermost.kind = "if"
    <3>1. Top(m) = <<"if", "cond">>
      BY <1>1, <1>2, <1>3, <2>1 DEF Begun
    <3>2. Changes(m, 0, 0, 0, 0, 0, 0, 0, 0)
      BY <1>2, <3>1 DEF Changes, Change, Is, Nothing, Then, Phases
    <3>3. QED
      BY <3>1, <3>2
  <2>2. CASE Innermost.kind = "while"
    <3>1. Top(m) = <<"while", "cond">>
      BY <1>1, <1>2, <1>3, <2>2 DEF Begun
    <3>2. Changes(m, 0, 0, 0, -1, 0, 0, 0, 0)
      BY <1>2, <3>1 DEF Changes, Change, Is, Nothing, Then, Phases
    <3>3. QED
      BY <3>1, <3>2
  <2>3. CASE Innermost.kind = "for"
    <3>1. CASE Innermost.at = "init"
      <4>1. Changes(m, 0, 0, 0, 0, 0, 0, 0, 0)
        BY <1>2, <2>3, <3>1 DEF Changes, Change, Is, Nothing, Then, Phases
      <4>2. QED
        BY <1>2, <2>3, <4>1
    <3>2. CASE Innermost.at = "cond"
      <4>1. Changes(m, 0, 0, 0, 0, -1, 0, 0, -1)
        BY <1>2, <2>3, <3>2 DEF Changes, Change, Is, Nothing, Then, Phases
      <4>2. QED
        BY <1>2, <2>3, <4>1
    <3>3. CASE Innermost.at = "step"
      <4>1. Changes(m, 0, 0, 0, 0, -1, 0, -1, 0)
        BY <1>2, <2>3, <3>3 DEF Changes, Change, Is, Nothing, Then, Phases
      <4>2. QED
        BY <1>2, <2>3, <4>1
    <3>4. QED
      BY <1>1, <3>1, <3>2, <3>3
  <2>4. Innermost.kind # "function"
    BY <1>1, <1>3 DEF Begun
  <2>5. QED
    BY <1>3, <2>1, <2>2, <2>3, <2>4 DEF Kinds
(* Where a syntax error comes, no statement is open that was not before;   *)
(* the head of a function that has been lost is counted as one too much.   *)
LEMMA MisreadKeeps ==
  ASSUME OpensInv, TypeOK', Misread,
         UNCHANGED <<while_start_label_stack, for_expr_start_stack, if_label_stack,
                     else_label_stack, has_else_stack>>,
         \/ UNCHANGED <<loops, function_loop_stack, function_name_stack>>
         \/ /\ Len(function_loop_stack') = Len(function_loop_stack) + 1
            /\ Len(function_name_stack') = Len(function_name_stack) + 1
  PROVE  OpensInv'
<1>1. /\ TypeOK /\ OpenInv /\ StacksInv /\ LevelsInv /\ has_else_stack \in Seq({1})
      /\ errors' # 0
  BY TypesOf DEF OpensInv, StacksInv, Misread
<1>2. \E m \in Nat : \E w, f, s, c \in {-1, 0} :
        /\ TopChanges(m) /\ Len(open') = m /\ Top(m)' = Nothing
        /\ Changes(m, 0, 0, 0, w, f, 0, s, c) /\ Top(m)[1] # "function"
  <2>1. CASE InHeader
    <3>m. PICK m : m = Len(open) - 1
      OBVIOUS
    <3>1. open # <<>> /\ open' = Tail(open)
      BY <2>1 DEF Misread, InHeader
    <3>2. /\ m \in Nat /\ TopChanges(m) /\ Len(open') = m
          /\ Top(m) = <<Innermost.kind, Innermost.at>> /\ Top(m)' = Nothing
      BY <1>1, <3>m, <3>1, PopTop
    <3>3. \E w, f, s, c \in {-1, 0} :
            Changes(m, 0, 0, 0, w, f, 0, s, c) /\ Top(m)[1] # "function"
      BY <2>1, <3>2, ForgottenCounts
    <3>4. QED
      BY <3>2, <3>3
  <2>2. CASE ~ InHeader
    <3>m. PICK m : m = Len(open)
      OBVIOUS
    <3>1. open' = open
      BY <2>2 DEF Misread
    <3>2. /\ m \in Nat /\ TopChanges(m) /\ Len(open') = m
          /\ Top(m) = Nothing /\ Top(m)' = Nothing
      BY <1>1, <3>m, <3>1, SameTop
    <3>3. Changes(m, 0, 0, 0, 0, 0, 0, 0, 0)
      BY <3>2 DEF Changes, Change, Is, Nothing
    <3>4. QED
      BY <3>2, <3>3 DEF Nothing
  <2>3. QED
    BY <2>1, <2>2
<1>3. PICK m \in Nat : \E w, f, s, c \in {-1, 0} :
        /\ TopChanges(m) /\ Len(open') = m /\ Top(m)' = Nothing
        /\ Changes(m, 0, 0, 0, w, f, 0, s, c) /\ Top(m)[1] # "function"
  BY <1>2
<1>4. PICK w, f, s, c \in {-1, 0} :
        /\ TopChanges(m) /\ Len(open') = m /\ Top(m)' = Nothing
        /\ Changes(m, 0, 0, 0, w, f, 0, s, c) /\ Top(m)[1] # "function"
  BY <1>3
<1>5. OpenInv'
  BY <1>1, <1>4, OpenStep DEF Nothing
<1>6. CASE UNCHANGED <<loops, function_loop_stack, function_name_stack>>
  <2>1. StacksFollow(m)
    BY <1>1, <1>4, <1>6, StackLengths, SMTT(30) DEF StacksFollow, Follows, Changes
  <2>2. LoopsFollow(m)
    BY <1>1, <1>4, <1>6, LoopLengths, SMTT(30) DEF LoopsFollow, Follows, Changes
  <2>3. QED
    BY <1>4, <2>1, <2>2, StatementStep DEF Nothing
<1>7. CASE /\ Len(function_loop_stack') = Len(function_loop_stack) + 1
           /\ Len(function_name_stack') = Len(function_name_stack) + 1
  <2>1. StacksFollow(m)
    BY <1>1, <1>4, <1>7, StackLengths, SMTT(30) DEF StacksFollow, Follows, Changes
  <2>2. StacksInv'
    BY <1>1, <1>4, <2>1, StackStep
  <2>3. ~ HeadsKept'
    <3>1. Functions' = Functions
      BY <1>4, SameFunctions DEF Nothing
    <3>2. /\ Cardinality(Functions) \in Nat /\ Len(function_loop_stack) \in Nat
          /\ Cardinality(Functions) <= Len(function_loop_stack)
      BY <1>1, LevelFacts, StackLengths DEF StacksInv, Covers
    <3>3. QED
      BY <1>7, <3>1, <3>2 DEF HeadsKept
  <2>4. LevelsInv'
    BY <2>3 DEF LevelsInv
  <2>5. QED
    BY <1>5, <2>2, <2>4 DEF OpensInv
<1>8. QED
  BY <1>6, <1>7

LEMMA ErrorsKeep ==
  ASSUME OpensInv, TypeOK', SyntaxError \/ FuncHeadError \/ StepError
  PROVE  OpensInv'
<1>1. CASE SyntaxError
  BY <1>1, MisreadKeeps DEF SyntaxError, stacks
<1>2. CASE FuncHeadError
  <2>1. /\ function_name_stack \in Seq(Upto(currQuad))
        /\ function_loop_stack \in Seq(StacksOf(currQuad))
    BY TypesOf DEF LabelsTyped, OpensInv
  <2>2. /\ Len(function_loop_stack') = Len(function_loop_stack) + 1
        /\ Len(function_name_stack') = Len(function_name_stack) + 1
    BY <1>2, <2>1 DEF FuncHeadError, FuncHead, Push
  <2>3. QED
    BY <1>2, <2>2, MisreadKeeps DEF FuncHeadError, FuncHead
<1>3. CASE StepError
  BY <1>3, MisreadKeeps DEF StepError, StepDone, stacks
<1>4. QED
  BY <1>1, <1>2, <1>3


-----------------------------------------------------------------------------
(* Any text, syntax errors included *)

AnyText == Init /\ [][ParseAny]_vars

LEMMA SpecIsAnyText == Spec => AnyText
<1>1. [Next]_vars => [ParseAny]_vars
  BY DEF Next, ParseAny, Parsed
<1>2. QED
  BY <1>1, PTL DEF Spec, AnyText

LEMMA InitOpens == Init => OpensInv
<1> SUFFICES ASSUME Init PROVE OpensInv
  OBVIOUS
<1> USE DEF Init
<1>1. NoLoops \in StacksOf(currQuad)
  BY DEF NoLoops, StacksOf
<1>2. TypeOK
  <2>1. QuadsTyped(quads, currQuad)
    BY DEF QuadsTyped
  <2>2. LabelsTyped(currQuad)
    BY DEF LabelsTyped
  <2>3. QED
    BY <1>1, <2>1, <2>2, TypesOf
<1>3. Depths = {}
  BY DEF Depths
<1>4. OpenInv
  BY <1>3 DEF OpenInv
<1>5. \A kind, phases : Having(kind, phases) = {}
  BY <1>3 DEF Having
<1>6. Cardinality({}) = 0
  BY FS_EmptySet
<1>7. StacksInv
  <2>1. \A kind, phases : Cardinality(Having(kind, phases)) = 0
    BY <1>5, <1>6
  <2>2. Len(<<>>) = 0
    OBVIOUS
  <2> HIDE DEF Init
  <2>3. /\ has_else_stack = <<>> /\ if_label_stack = <<>> /\ else_label_stack = <<>>
        /\ function_name_stack = <<>> /\ function_loop_stack = <<>>
        /\ while_start_label_stack = <<>> /\ for_expr_start_stack = <<>>
    BY DEF Init
  <2>4. has_else_stack \in Seq({1})
    BY <2>3
  <2>5. /\ Covers(while_start_label_stack, Having("while", Phases))
        /\ Covers(for_expr_start_stack, Having("for", Phases \ {"init"}))
    BY <2>1, <2>2, <2>3 DEF Covers
  <2>6. QED
    BY <2>1, <2>2, <2>3, <2>4, <2>5 DEF StacksInv, Functions, Covers
<1>8. LevelsInv
  <2>1. SUFFICES LevelInv(0, NoLoops)
    BY DEF LevelsInv, LoopsAt
  <2>2. \A kind, phases : On(0, Having(kind, phases)) = {}
    BY <1>5 DEF On
  <2>3. \A kind, phases : Cardinality(On(0, Having(kind, phases))) = 0
    BY <1>6, <2>2
  <2>4. /\ Len(NoLoops.while_end_label_stack) = 0 /\ Len(NoLoops.for_start_stack) = 0
        /\ Len(NoLoops.num_of_breaks_stack) = 0 /\ Len(NoLoops.num_of_continues_stack) = 0
    BY DEF NoLoops
  <2>5. Covers(NoLoops.for_start_stack, On(0, Having("for", {"step", "body"})))
    BY <2>3, <2>4 DEF Covers
  <2>6. QED
    BY <2>3, <2>4, <2>5 DEF LevelInv
<1>9. QED
  BY <1>2, <1>4, <1>7, <1>8 DEF OpensInv

LEMMA StutterOpens == OpensInv /\ UNCHANGED vars => OpensInv'
<1> SUFFICES ASSUME OpensInv, UNCHANGED vars PROVE OpensInv'
  OBVIOUS
<1>1. Typed'
  <2>1. currQuad' = currQuad /\ TypeOK
    BY DEF vars, OpensInv
  <2>2. QED
    BY <2>1, TypesOf DEF vars, stacks, Typed, LabelsTyped
<1>2. TypeOK'
  BY <1>1, TypesLater
<1>3. SameLengths
  BY DEF SameLengths, vars, stacks
<1>4. UNCHANGED open
  BY DEF vars
<1>5. QED
  BY <1>2, <1>3, <1>4, StayStep

(* The inductive invariant: as many entries on each stack as there are     *)
(* statements that have put one there, function by function.               *)
LEMMA OpensKept == OpensInv /\ ParseAny => OpensInv'
<1> SUFFICES ASSUME OpensInv, ParseAny PROVE OpensInv'
  OBVIOUS
<1>1. TypeOK'
  BY TypeStep
<1>2. QED
  BY <1>1, ExpressionsKeep, JumpsKeep, BeginsKeep, IfThenKeeps, IfElseKeeps, IfEndKeeps,
     WhileBodyKeeps, WhileEndKeeps, ForCondKeeps, ForStepKeeps, ForBodyKeeps, ForEndKeeps,
     FuncStartKeeps, FuncEndKeeps, ErrorsKeep
  DEF ParseAny, Parse

LEMMA OpensInvariant == AnyText => []OpensInv
<1>1. Init => OpensInv
  BY InitOpens
<1>2. OpensInv /\ [ParseAny]_vars => OpensInv'
  BY OpensKept, StutterOpens
<1>3. QED
  BY <1>1, <1>2, PTL DEF AnyText

(* The stacks of the parser hold labels of quads that have been numbered,  *)
(* and no jump leads beyond the end of the quads.                          *)
THEOREM StacksTyped == AnyText => []TypeOK
<1>1. OpensInv => TypeOK
  BY DEF OpensInv
<1>2. QED
  BY <1>1, OpensInvariant, PTL

-----------------------------------------------------------------------------
(* Loops of this function *)

(* All functions are around a statement of the current one. *)
LEMMA CurrentLevel ==
  ASSUME TypeOK, NEW p \in Depths
  PROVE  Level(p) = Cardinality(Functions) <=> \A r \in Depths : r > p => At(r).kind # "function"
<1>1. /\ Functions \subseteq 0 .. Len(open) /\ Len(open) \in Nat
      /\ \A r \in Depths : At(r).at \in Phases
  BY LevelFacts, DepthFacts
<1>2. Functions \cap 0 .. p \subseteq Functions
  OBVIOUS
<1>3. Level(p) = Cardinality(Functions) <=> Functions \cap 0 .. p = Functions
  <2>1. ASSUME Level(p) = Cardinality(Functions) PROVE Functions \cap 0 .. p = Functions
    BY <1>1, <1>2, <2>1, CountPart DEF Level
  <2>2. ASSUME Functions \cap 0 .. p = Functions PROVE Level(p) = Cardinality(Functions)
    BY <2>2 DEF Level
  <2>3. QED
    BY <2>1, <2>2
<1>4. Functions \cap 0 .. p = Functions <=> \A r \in Functions : ~ (r > p)
  <2>1. \A r \in Functions : r \in 0 .. p <=> ~ (r > p)
    BY <1>1 DEF Depths
  <2>2. QED
    BY <2>1
<1>5. \A r : r \in Functions <=> r \in Depths /\ At(r).kind = "function"
  BY <1>1 DEF Functions, Having
<1>6. QED
  BY <1>3, <1>4, <1>5

LEMMA IndexDepth ==
  ASSUME TypeOK, NEW i \in DOMAIN open
  PROVE  /\ i \in 1 .. Len(open) /\ Len(open) - i \in Depths /\ At(Len(open) - i) = open[i]
         /\ \A j \in 1 .. i : /\ Len(open) - j \in Depths /\ At(Len(open) - j) = open[j]
                              /\ j # i => Len(open) - j > Len(open) - i
         /\ \A r \in Depths : r > Len(open) - i => Len(open) - r \in 1 .. i
<1>1. open \in Seq(FramesOf(currQuad))
  BY TypesOf
<1>2. Len(open) \in Nat /\ i \in 1 .. Len(open)
  BY <1>1
<1>3. QED
  BY <1>2 DEF Depths, At

LEMMA HereLevel ==
  ASSUME TypeOK, NEW i \in DOMAIN open
  PROVE  (\A j \in 1 .. i : open[j].kind # "function")
           <=> /\ Level(Len(open) - i) = Cardinality(Functions)
               /\ open[i].kind # "function"
<1> DEFINE p == Len(open) - i
<1>1. /\ i \in 1 .. Len(open) /\ Len(open) \in Nat
      /\ p \in Depths /\ At(p) = open[i]
      /\ \A j \in 1 .. i : /\ Len(open) - j \in Depths /\ At(Len(open) - j) = open[j]
                           /\ j # i => Len(open) - j > p
      /\ \A r \in Depths : r > p => Len(open) - r \in 1 .. i
  BY IndexDepth, DepthFacts
<1>2. Level(p) = Cardinality(Functions) <=> \A r \in Depths : r > p => At(r).kind # "function"
  BY <1>1, CurrentLevel
<1>3. ASSUME \A j \in 1 .. i : open[j].kind # "function", NEW r \in Depths, r > p
      PROVE  At(r).kind # "function"
  BY <1>1, <1>3 DEF At
<1>4. ASSUME \A r \in Depths : r > p => At(r).kind # "function", open[i].kind # "function",
             NEW j \in 1 .. i
      PROVE  open[j].kind # "function"
  BY <1>1, <1>4
<1>5. i \in 1 .. i
  BY <1>1
<1>6. QED
  BY <1>1, <1>2, <1>3, <1>4, <1>5


(* Who is counted is there, and who is there is counted. *)
LEMMA OnCounted ==
  ASSUME TypeOK, NEW d, NEW kind, NEW phases
  PROVE  /\ Cardinality(On(d, Having(kind, phases))) \in Nat
         /\ Cardinality(On(d, Having(kind, phases))) > 0 <=> On(d, Having(kind, phases)) # {}
<1>1. Len(open) \in Nat /\ On(d, Having(kind, phases)) \subseteq 0 .. Len(open)
  BY DepthFacts DEF On
<1>2. Cardinality(On(d, Having(kind, phases))) \in Nat
  BY <1>1, PartOfInterval
<1>3. Cardinality(On(d, Having(kind, phases))) > 0 <=> On(d, Having(kind, phases)) # {}
  BY <1>1, CountOne
<1>4. QED
  BY <1>2, <1>3

LEMMA BreaksAccepted ==
  ASSUME OpensInv, HeadsKept, NEW i \in LoopsHere
  PROVE  InLoop
<1> DEFINE p == Len(open) - i
           F == Cardinality(Functions)
<1>1. /\ TypeOK /\ i \in DOMAIN open /\ open[i].kind \in {"while", "for"}
      /\ open[i].at = "body" /\ \A j \in 1 .. i : open[j].kind # "function"
  BY DEF OpensInv, LoopsHere
<1>2. p \in Depths /\ At(p) = open[i] /\ Level(p) = F
  BY <1>1, IndexDepth, HereLevel
<1>3. CASE open[i].kind = "while"
  <2>1. p \in On(F, Having("while", {"body"}))
    BY <1>1, <1>2, <1>3 DEF On, Having
  <2>2. Len(loops.while_end_label_stack) > 0
    BY <1>1, <2>1, OnCounted, CurrentLoops
  <2>3. QED
    BY <2>2 DEF InLoop
<1>4. CASE open[i].kind = "for"
  <2>1. p \in On(F, Having("for", {"step", "body"}))
    BY <1>1, <1>2, <1>4 DEF On, Having
  <2> DEFINE S == On(F, Having("for", {"step", "body"}))
  <2>2. Cardinality(S) \in Nat /\ Cardinality(S) > 0
    BY <1>1, <2>1, OnCounted
  <2>3. Cardinality(S) <= Len(loops.for_start_stack)
    BY CurrentLoops DEF Covers
  <2>4. Len(loops.for_start_stack) \in Nat
    BY <1>1, LoopLengths
  <2> HIDE DEF S
  <2>5. Len(loops.for_start_stack) > 0
    BY <2>2, <2>3, <2>4
  <2>6. QED
    BY <2>5 DEF InLoop
<1>5. QED
  BY <1>1, <1>3, <1>4

(* A for whose step is being read is not around any statement. *)
LEMMA HeaderIsInnermost ==
  ASSUME OpensInv, InBody, NEW p \in Depths, Level(p) = Cardinality(Functions)
  PROVE  At(p).at \notin {"init", "cond", "step"}
<1>1. TypeOK /\ Len(open) \in Nat /\ p \in 0 .. Len(open) - 1
  BY DepthFacts DEF OpensInv, Depths
<1>2. SUFFICES ASSUME At(p).at \in {"init", "cond", "step"} PROVE FALSE
  OBVIOUS
<1>3. CASE p + 1 \in Depths
  <2>1. At(p + 1).kind = "function"
    BY <1>2, <1>3 DEF OpensInv, OpenInv
  <2>2. QED
    BY <1>1, <1>3, <2>1, CurrentLevel
<1>4. CASE p + 1 \notin Depths
  <2>1. p = Len(open) - 1 /\ open # <<>>
    BY <1>1, <1>4 DEF Depths
  <2>2. Innermost = At(p)
    BY <1>1, <2>1, DepthFacts
  <2>3. QED
    BY <1>2, <2>1, <2>2 DEF InBody, InHeader
<1>5. QED
  BY <1>3, <1>4

LEMMA BreaksJustified ==
  ASSUME OpensInv, InBody, InLoop, errors = 0
  PROVE  LoopsHere # {}
<1> DEFINE F == Cardinality(Functions)
           W == On(F, Having("while", {"body"}))
           S == On(F, Having("for", {"step", "body"}))
<1>1. /\ TypeOK /\ Len(loops.while_end_label_stack) \in Nat
      /\ Len(loops.for_start_stack) \in Nat
  BY LoopLengths DEF OpensInv
<1>2. /\ Cardinality(W) = Len(loops.while_end_label_stack)
      /\ Cardinality(S) = Len(loops.for_start_stack)
  BY AllHeadsKept, CurrentLoops DEF Covers
<1>3. \/ Len(loops.while_end_label_stack) > 0 \/ Len(loops.for_start_stack) > 0
  <2>1. currQuad \in Nat /\ currQuad <= currQuad
    BY <1>1, TypesOf
  <2>2. /\ loops.while_end_label_stack \in Seq(Upto(currQuad))
        /\ loops.for_start_stack \in Seq(Upto(currQuad))
    BY <1>1, <2>1, LoopFields
  <2>3. QED
    BY <2>2 DEF InLoop
<1>4. W # {} \/ S # {}
  BY <1>1, <1>2, <1>3, OnCounted
<1>5. PICK p \in Depths : /\ Level(p) = F /\ At(p).kind \in {"while", "for"}
                          /\ At(p).at \in {"step", "body"}
  BY <1>4 DEF On, Having
<1>6. At(p).at = "body"
  BY <1>5, HeaderIsInnermost
<1>7. open \in Seq(FramesOf(currQuad)) /\ Len(open) \in Nat
  BY <1>1, TypesOf
<1>8. PICK i : i = Len(open) - p
  OBVIOUS
<1>9. i \in DOMAIN open /\ Len(open) - i = p /\ open[i] = At(p)
  BY <1>5, <1>7, <1>8 DEF Depths, At
<1>10. \A j \in 1 .. i : open[j].kind # "function"
  BY <1>1, <1>5, <1>9, HereLevel
<1>11. i \in LoopsHere
  BY <1>5, <1>6, <1>9, <1>10 DEF LoopsHere
<1>12. QED
  BY <1>11

LEMMA DepthOf ==
  ASSUME TypeOK, NEW is, is \subseteq DOMAIN open, NEW ps,
         \A i \in is : Len(open) - i \in ps, ps \subseteq 0 .. Len(open)
  PROVE  Cardinality(is) <= Cardinality(ps)
<1> DEFINE n == Len(open)
           f == [i \in is |-> n - i]
           qs == {n - i : i \in is}
<1>1. n \in Nat /\ is \subseteq 1 .. n
  <2>1. open \in Seq(FramesOf(currQuad))
    BY TypesOf
  <2>2. QED
    BY <2>1
<1>2. IsFiniteSet(is)
  <2>1. is \subseteq 0 .. n
    BY <1>1
  <2>2. QED
    BY <1>1, <2>1, PartOfInterval
<1>3. f \in Bijection(is, qs)
  BY <1>1 DEF Bijection, Injection, Surjection, IsInjective
<1>4. Cardinality(qs) = Cardinality(is)
  <2>1. ExistsBijection(is, qs)
    BY <1>3 DEF ExistsBijection
  <2> HIDE DEF qs
  <2>2. QED
    BY <1>2, <2>1, FS_Bijection
<1>5. qs \subseteq ps /\ ps \subseteq 0 .. n
  OBVIOUS
<1>6. Cardinality(qs) <= Cardinality(ps)
  <2> HIDE DEF n, qs
  <2>1. QED
    BY <1>1, <1>5, CountPart
<1>7. QED
  BY <1>4, <1>6

LEMMA OpenIsCounted ==
  ASSUME TypeOK, NEW kind, NEW phases
  PROVE  /\ Cardinality(Open(kind, phases)) <= Cardinality(Having(kind, phases))
         /\ Cardinality(InThisFunction(Open(kind, phases)))
              <= Cardinality(On(Cardinality(Functions), Having(kind, phases)))
<1> DEFINE ps == Having(kind, phases)
           qs == On(Cardinality(Functions), ps)
<1>1. ps \subseteq 0 .. Len(open) /\ qs \subseteq 0 .. Len(open)
  BY DepthFacts DEF On
<1>2. Open(kind, phases) \subseteq DOMAIN open
  BY DEF Open
<1>3. \A i \in Open(kind, phases) : Len(open) - i \in ps
  BY IndexDepth DEF Open, Having
<1>4. InThisFunction(Open(kind, phases)) \subseteq DOMAIN open
  BY <1>2 DEF InThisFunction
<1>5. ASSUME NEW i \in InThisFunction(Open(kind, phases))
      PROVE  Len(open) - i \in qs
  <2>1. i \in Open(kind, phases) /\ i \in DOMAIN open
    BY <1>4 DEF InThisFunction
  <2>2. Level(Len(open) - i) = Cardinality(Functions)
    BY <2>1, HereLevel DEF InThisFunction
  <2>3. QED
    BY <1>3, <2>1, <2>2 DEF On
<1> HIDE DEF ps, qs
<1>6. Cardinality(Open(kind, phases)) <= Cardinality(ps)
  BY <1>1, <1>2, <1>3, DepthOf
<1>7. Cardinality(InThisFunction(Open(kind, phases))) <= Cardinality(qs)
  BY <1>1, <1>4, <1>5, DepthOf
<1>8. QED
  BY <1>6, <1>7 DEF ps, qs

LEMMA OpenCounts ==
  ASSUME TypeOK, NEW kind, NEW phases
  PROVE  /\ Cardinality(Open(kind, phases)) \in Nat
         /\ Cardinality(InThisFunction(Open(kind, phases))) \in Nat
         /\ Cardinality(Having(kind, phases)) \in Nat
         /\ Cardinality(On(Cardinality(Functions), Having(kind, phases))) \in Nat
<1>1. Len(open) \in Nat /\ DOMAIN open \subseteq 0 .. Len(open)
  <2>1. open \in Seq(FramesOf(currQuad))
    BY TypesOf
  <2>2. QED
    BY <2>1
<1>2. /\ Open(kind, phases) \subseteq 0 .. Len(open)
      /\ InThisFunction(Open(kind, phases)) \subseteq 0 .. Len(open)
      /\ Having(kind, phases) \subseteq 0 .. Len(open)
  BY <1>1, DepthFacts DEF Open, InThisFunction
<1>3. Cardinality(Open(kind, phases)) \in Nat
  BY <1>1, <1>2, PartOfInterval
<1>4. Cardinality(InThisFunction(Open(kind, phases))) \in Nat
  BY <1>1, <1>2, PartOfInterval
<1>5. Cardinality(Having(kind, phases)) \in Nat
  BY <1>1, <1>2, PartOfInterval
<1>6. QED
  BY <1>3, <1>4, <1>5, OnCounted

LEMMA LostOrHeadsKept == OpensInv /\ ~ HeadLost => HeadsKept
<1> SUFFICES ASSUME OpensInv, ~ HeadLost PROVE HeadsKept
  OBVIOUS
<1>1. /\ TypeOK /\ Cardinality(Functions) <= Len(function_loop_stack)
      /\ Len(function_name_stack) = Len(function_loop_stack)
  BY DEF OpensInv, StacksInv, Covers
<1>2. /\ Cardinality(Open("function", Phases)) \in Nat
      /\ Cardinality(Functions) \in Nat /\ Len(function_name_stack) \in Nat
      /\ Cardinality(Open("function", Phases)) <= Cardinality(Functions)
  BY <1>1, OpenCounts, OpenIsCounted, StackLengths DEF Functions
<1>3. Len(function_name_stack) <= Cardinality(Open("function", Phases))
  BY <1>2 DEF HeadLost
<1>4. QED
  BY <1>1, <1>2, <1>3 DEF HeadsKept

(* break and continue are accepted exactly inside of loops of the same     *)
(* function.  After a syntax error they may be accepted elsewhere, too; in *)
(* a loop they are refused only when the head of a function has been lost. *)
THEOREM BreaksBelongToLoops == AnyText => []BreakOnlyInLoops
<1>1. OpensInv => BreakOnlyInLoops
  BY BreaksAccepted, BreaksJustified, LostOrHeadsKept DEF BreakOnlyInLoops
<1>2. QED
  BY <1>1, OpensInvariant, PTL

-----------------------------------------------------------------------------
(* Entries for all that is open *)

LEMMA EntriesThere == OpensInv => PopsNeverFail
<1> SUFFICES ASSUME OpensInv PROVE PopsNeverFail
  OBVIOUS
<1> DEFINE F == Cardinality(Functions)
<1>1. TypeOK /\ StacksInv
  BY DEF OpensInv
<1>2. \A a, b, c \in Nat : a <= b /\ b <= c => a <= c
  OBVIOUS
<1>3. /\ Cardinality(Open("if", Then)) <= Len(if_label_stack)
      /\ Cardinality(Open("if", {"else"})) <= Len(else_label_stack)
      /\ Cardinality(Open("if", {"else"})) <= Len(has_else_stack)
  BY <1>1, OpenIsCounted DEF StacksInv, Then
<1>4. /\ Cardinality(Open("function", Phases)) <= Len(function_name_stack)
      /\ Cardinality(Open("function", Phases)) <= Len(function_loop_stack)
  <2>1. /\ Cardinality(Open("function", Phases)) <= Cardinality(Functions)
        /\ Cardinality(Functions) <= Len(function_loop_stack)
        /\ Len(function_name_stack) = Len(function_loop_stack)
    BY <1>1, OpenIsCounted DEF StacksInv, Covers, Functions
  <2>2. /\ Cardinality(Open("function", Phases)) \in Nat /\ Cardinality(Functions) \in Nat
        /\ Len(function_loop_stack) \in Nat
    BY <1>1, OpenCounts, StackLengths DEF Functions
  <2>3. QED
    BY <1>2, <2>1, <2>2
<1>5. Cardinality(Open("while", Phases)) <= Len(while_start_label_stack)
  <2>1. Cardinality(Open("while", Phases)) <= Cardinality(Having("while", Phases))
    BY <1>1, OpenIsCounted
  <2>2. Cardinality(Having("while", Phases)) <= Len(while_start_label_stack)
    BY <1>1 DEF StacksInv, Covers
  <2>3. QED
    BY <1>1, <1>2, <2>1, <2>2, OpenCounts, StackLengths
<1>6. Cardinality(Open("for", Phases \ {"init"})) <= Len(for_expr_start_stack)
  <2> DEFINE ph == Phases \ {"init"}
  <2>1. Cardinality(Open("for", ph)) <= Cardinality(Having("for", ph))
    BY <1>1, OpenIsCounted
  <2>2. Cardinality(Having("for", ph)) <= Len(for_expr_start_stack)
    BY <1>1 DEF StacksInv, Covers
  <2> HIDE DEF ph
  <2>3. Cardinality(Open("for", ph)) <= Len(for_expr_start_stack)
    BY <1>1, <1>2, <2>1, <2>2, OpenCounts, StackLengths
  <2>4. QED
    BY <2>3 DEF ph
<1>k. SUFFICES ASSUME HeadsKept
               PROVE  /\ Cardinality(InThisFunction(Open("while", {"body"})))
                           <= Len(loops.while_end_label_stack)
                      /\ Cardinality(InThisFunction(Open("for", {"step", "body"})))
                           <= Len(loops.for_start_stack)
                      /\ Len(loops.while_end_label_stack) + Len(loops.for_start_stack)
                           <= Len(loops.num_of_breaks_stack)
                      /\ Len(loops.num_of_breaks_stack) = Len(loops.num_of_continues_stack)
  BY <1>3, <1>4, <1>5, <1>6, LostOrHeadsKept DEF PopsNeverFail, Then
<1>7. Cardinality(InThisFunction(Open("while", {"body"}))) <= Len(loops.while_end_label_stack)
  <2>1. Cardinality(InThisFunction(Open("while", {"body"})))
          <= Cardinality(On(F, Having("while", {"body"})))
    BY <1>1, OpenIsCounted
  <2>2. Cardinality(On(F, Having("while", {"body"}))) = Len(loops.while_end_label_stack)
    BY <1>k, CurrentLoops
  <2>3. QED
    BY <2>1, <2>2
<1>8. Cardinality(InThisFunction(Open("for", {"step", "body"}))) <= Len(loops.for_start_stack)
  <2> DEFINE ph == {"step", "body"}
             S == On(F, Having("for", ph))
  <2>1. Cardinality(InThisFunction(Open("for", ph))) <= Cardinality(S)
    BY <1>1, OpenIsCounted
  <2>2. Cardinality(S) <= Len(loops.for_start_stack)
    BY <1>k, CurrentLoops DEF Covers
  <2>3. /\ Cardinality(InThisFunction(Open("for", ph))) \in Nat /\ Cardinality(S) \in Nat
        /\ Len(loops.for_start_stack) \in Nat
    BY <1>1, OpenCounts, LoopLengths
  <2> HIDE DEF S, ph
  <2>4. Cardinality(InThisFunction(Open("for", ph))) <= Len(loops.for_start_stack)
    BY <1>2, <2>1, <2>2, <2>3
  <2>5. QED
    BY <2>4 DEF ph
<1>9. /\ Len(loops.while_end_label_stack) + Len(loops.for_start_stack)
           <= Len(loops.num_of_breaks_stack)
      /\ Len(loops.num_of_breaks_stack) = Len(loops.num_of_continues_stack)
  <2>1. /\ Len(loops.while_end_label_stack) \in Nat /\ Len(loops.for_start_stack) \in Nat
        /\ Len(loops.num_of_breaks_stack) \in Nat
    BY <1>1, LoopLengths
  <2>2. PICK c \in Nat :
          Len(loops.while_end_label_stack) + Len(loops.for_start_stack) + c
            <= Len(loops.num_of_breaks_stack)
    BY <1>k, CurrentLoops
  <2>3. \A w, f, b \in Nat : w + f + c <= b => w + f <= b
    OBVIOUS
  <2>4. Len(loops.num_of_breaks_stack) = Len(loops.num_of_continues_stack)
    BY <1>k, CurrentLoops
  <2>5. QED
    BY <2>1, <2>2, <2>3, <2>4
<1>10. QED
  BY <1>7, <1>8, <1>9

(* The pops of the parser and the heads that it uses unchecked find the    *)
(* entry of their statement, whatever text is parsed and however many      *)
(* syntax errors it has, with one exception: the loops around a function   *)
(* that a syntax error behind its head has made the parser forget.         *)
THEOREM StacksNeverEmpty == AnyText => []PopsNeverFail
BY EntriesThere, OpensInvariant, PTL

LEMMA CountersKept ==
  ASSUME OpensInv, HeadsKept, InLoop
  PROVE  Counting
<1>1. /\ loops \in StacksOf(currQuad)
      /\ Len(loops.while_end_label_stack) \in Nat /\ Len(loops.for_start_stack) \in Nat
      /\ Len(loops.num_of_breaks_stack) \in Nat
  BY TypesOf, LoopLengths DEF OpensInv
<1>2. PICK c \in Nat :
        Len(loops.while_end_label_stack) + Len(loops.for_start_stack) + c
          <= Len(loops.num_of_breaks_stack)
  BY CurrentLoops
<1>3. Len(loops.num_of_breaks_stack) = Len(loops.num_of_continues_stack)
  BY CurrentLoops
<1>4. Len(loops.while_end_label_stack) > 0 \/ Len(loops.for_start_stack) > 0
  BY <1>1 DEF InLoop, StacksOf
<1>5. \A w, f, b \in Nat : (w > 0 \/ f > 0) /\ w + f + c <= b => b > 0
  OBVIOUS
<1>6. Len(loops.num_of_breaks_stack) > 0
  BY <1>1, <1>2, <1>4, <1>5
<1>7. loops.num_of_breaks_stack # <<>> /\ loops.num_of_continues_stack # <<>>
  <2>1. Len(<<>>) = 0
    OBVIOUS
  <2>2. QED
    BY <1>3, <1>6, <2>1
<1>8. QED
  BY <1>7 DEF Counting

(* The parser misses an entry only behind the lost head of a function.     *)
LEMMA FailsBehindLostHeads == OpensInv /\ LoopFails => HeadLost
<1> SUFFICES ASSUME OpensInv, LoopFails, ~ HeadLost PROVE FALSE
  OBVIOUS
<1> DEFINE F == Cardinality(Functions)
<1>1. HeadsKept /\ TypeOK
  BY LostOrHeadsKept DEF OpensInv
<1>2. ASSUME Expecting("while", "body") PROVE loops.while_end_label_stack # <<>>
  <2>1. Len(loops.while_end_label_stack) > 0
    BY <1>1, <1>2, InnermostCounted, CurrentLoops DEF OpensInv, Expecting
  <2>2. QED
    BY <2>1
<1>3. ASSUME Expecting("for", "step") \/ Expecting("for", "body")
      PROVE  loops.for_start_stack # <<>>
  <2> DEFINE S == On(F, Having("for", {"step", "body"}))
  <2>1. Cardinality(S) > 0
    BY <1>1, <1>3, InnermostCounted DEF Expecting
  <2>2. Cardinality(S) <= Len(loops.for_start_stack)
    BY <1>1, CurrentLoops DEF Covers
  <2>3. Cardinality(S) \in Nat /\ Len(loops.for_start_stack) \in Nat
    BY <1>1, OnCounted, LoopLengths
  <2> HIDE DEF S
  <2>4. Len(loops.for_start_stack) > 0
    BY <2>1, <2>2, <2>3
  <2>5. QED
    BY <2>4
<1>4. InLoop => Counting
  BY <1>1, CountersKept
<1>5. QED
  BY <1>2, <1>3, <1>4 DEF LoopFails, InWhile, InFor, InLoop

(* The same for the texts without errors that the runs of this module use. *)
THEOREM ParsedTexts == Spec => [](TypeOK /\ BreakOnlyInLoops /\ PopsNeverFail)
BY SpecIsAnyText, StacksTyped, BreaksBelongToLoops, StacksNeverEmpty, PTL

-----------------------------------------------------------------------------
(***************************************************************************)
(* Every jump leads to where its statement has promised, for any text      *)
(* without syntax errors.  The global stacks are taken apart statement by  *)
(* statement: for each one that is open there are the stacks as they were  *)
(* when it began, and what lies on top of them is its own.                 *)
(***************************************************************************)
(* The stacks of the parser as a value; saved are those that functions put *)
(* aside.                                                                  *)

Stacks(l, s, w, f, i, e, n) ==
  [loops |-> l, saved |-> s, whiles |-> w, fors |-> f, ifs |-> i, elses |-> e,
   names |-> n]

Now == Stacks(loops, function_loop_stack, while_start_label_stack,
              for_expr_start_stack, if_label_stack, else_label_stack,
              function_name_stack)

AnyLoops ==
  [break_stack : Seq(Nat), continue_stack : Seq(Nat),
   num_of_breaks_stack : Seq(Nat), num_of_continues_stack : Seq(Nat),
   for_start_stack : Seq(Nat), while_end_label_stack : Seq(Nat)]

AnyStacks ==
  [loops : AnyLoops, saved : Seq(AnyLoops), whiles : Seq(Nat), fors : Seq(Nat),
   ifs : Seq(Nat), elses : Seq(Nat), names : Seq(Nat)]

Frames == [p \in Depths |-> At(p)]

-----------------------------------------------------------------------------
(* What a statement has put on the stacks S to make them R, and what it    *)
(* has promised: the labels that are its own.                              *)

(* The innermost loop has counted no more than there is. *)
Counted(L) ==
  /\ Len(L.num_of_breaks_stack) > 0 /\ Len(L.num_of_continues_stack) > 0
  /\ Head(L.num_of_breaks_stack) <= Len(L.break_stack)
  /\ Head(L.num_of_continues_stack) <= Len(L.continue_stack)

NoneCounted(L) ==
  Head(L.num_of_breaks_stack) = 0 /\ Head(L.num_of_continues_stack) = 0

First(s, n, where) == {<<s[i], where>> : i \in 1 .. n}

Counts(L) ==
  First(L.break_stack, Head(L.num_of_breaks_stack), "end")
    \cup First(L.continue_stack, Head(L.num_of_continues_stack), "start")

(* L without what the innermost loop has counted. *)
Uncounted(L, f, w) ==
  LoopRecord(Drop(L.break_stack, Head(L.num_of_breaks_stack)),
             Drop(L.continue_stack, Head(L.num_of_continues_stack)),
             Tail(L.num_of_breaks_stack), Tail(L.num_of_continues_stack), f, w)

IfCond(S, x, R) == x.jumps = {} /\ S = R

IfBody(S, x, R) ==
  /\ Len(R.ifs) > 0 /\ x.jumps = {<<Head(R.ifs), "else">>}
  /\ S = Stacks(R.loops, R.saved, R.whiles, R.fors, Tail(R.ifs), R.elses, R.names)

IfOther(S, x, R) ==
  /\ Len(R.ifs) > 0 /\ Len(R.elses) > 0 /\ x.step = Head(R.elses) + 1
  /\ x.jumps = {<<Head(R.ifs), "else">>, <<Head(R.elses), "end">>}
  /\ S = Stacks(R.loops, R.saved, R.whiles, R.fors, Tail(R.ifs), Tail(R.elses), R.names)

WhileCond(S, x, R) ==
  /\ Len(R.whiles) > 0 /\ Head(R.whiles) = x.start /\ x.jumps = {}
  /\ S = Stacks(R.loops, R.saved, Tail(R.whiles), R.fors, R.ifs, R.elses, R.names)

WhileIn(S, x, R) ==
  LET L == R.loops IN
  /\ Len(R.whiles) > 0 /\ Head(R.whiles) = x.start
  /\ Counted(L) /\ Len(L.while_end_label_stack) > 0
  /\ x.jumps = {<<Head(L.while_end_label_stack), "end">>} \cup Counts(L)
  /\ S = Stacks(Uncounted(L, L.for_start_stack, Tail(L.while_end_label_stack)),
                R.saved, Tail(R.whiles), R.fors, R.ifs, R.elses, R.names)

ForInit(S, x, R) == x.jumps = {} /\ S = R

ForTest(S, x, R) ==
  LET L == R.loops IN
  /\ Len(R.fors) > 0 /\ Head(R.fors) = x.start /\ x.jumps = {}
  /\ Counted(L) /\ NoneCounted(L)
  /\ S = Stacks(Uncounted(L, L.for_start_stack, L.while_end_label_stack),
                R.saved, R.whiles, Tail(R.fors), R.ifs, R.elses, R.names)

(* From its step on, the two quads of the test are reserved. *)
ForLater(S, x, R) ==
  LET L == R.loops IN
  /\ Len(R.fors) > 0 /\ Head(R.fors) = x.start
  /\ Counted(L) /\ Len(L.for_start_stack) > 0
  /\ x.step = Head(L.for_start_stack) + 2
  /\ S = Stacks(Uncounted(L, Tail(L.for_start_stack), L.while_end_label_stack),
                R.saved, R.whiles, Tail(R.fors), R.ifs, R.elses, R.names)

ForNext(S, x, R) ==
  LET s == Head(R.loops.for_start_stack) IN
  /\ ForLater(S, x, R) /\ NoneCounted(R.loops)
  /\ x.jumps = {<<s, "body">>, <<s + 1, "end">>}

ForIn(S, x, R) ==
  /\ ForLater(S, x, R)
  /\ x.jumps = {<<Head(R.loops.for_start_stack) + 1, "end">>} \cup Counts(R.loops)

InFunction(S, x, R) ==
  /\ Len(R.names) > 0 /\ Head(R.names) = x.start /\ x.jumps = {}
  /\ Len(R.saved) > 0
  /\ S = Stacks(Head(R.saved), Tail(R.saved), R.whiles, R.fors, R.ifs, R.elses,
                Tail(R.names))

Around(S, x, R) ==
  \/ x.kind = "if" /\ x.at = "cond" /\ IfCond(S, x, R)
  \/ x.kind = "if" /\ x.at = "body" /\ IfBody(S, x, R)
  \/ x.kind = "if" /\ x.at = "else" /\ IfOther(S, x, R)
  \/ x.kind = "while" /\ x.at = "cond" /\ WhileCond(S, x, R)
  \/ x.kind = "while" /\ x.at = "body" /\ WhileIn(S, x, R)
  \/ x.kind = "for" /\ x.at = "init" /\ ForInit(S, x, R)
  \/ x.kind = "for" /\ x.at = "cond" /\ ForTest(S, x, R)
  \/ x.kind = "for" /\ x.at = "step" /\ ForNext(S, x, R)
  \/ x.kind = "for" /\ x.at = "body" /\ ForIn(S, x, R)
  \/ x.kind = "function" /\ x.at = "body" /\ InFunction(S, x, R)

-----------------------------------------------------------------------------
(* The invariant *)

(* H[p] are the stacks from before the statement at depth p; n statements  *)
(* are open, f says which, and R are the stacks now.                       *)
NoStacks == Stacks(NoLoops, <<>>, <<>>, <<>>, <<>>, <<>>, <<>>)

Chain(H, n, f, R) ==
  /\ H[0] = NoStacks /\ H[n] = R
  /\ \A p \in 0 .. n : H[p] \in AnyStacks
  /\ \A p \in 0 .. n - 1 : Around(H[p], f[p], H[p + 1])

Chained == \E H : Chain(H, Len(open), Frames, Now)

ChainInv == errors = 0 => Chained

(* What has been promised is not written yet, by one statement only, and   *)
(* nothing else has been left out.                                         *)
Unwritten(f, n, Q, c) ==
  \A p \in 0 .. n - 1 : \A q, w :
    <<q, w>> \in f[p].jumps => q \in Upto(c) /\ q \notin DOMAIN Q

PromisedOnce(f, n) ==
  \A p, r \in 0 .. n - 1 : \A q, v, w :
    <<q, v>> \in f[p].jumps /\ <<q, w>> \in f[r].jumps => p = r /\ v = w

HolesPromised(f, n, Q, c) ==
  \A q \in Upto(c) : q \notin DOMAIN Q =>
    \E p \in 0 .. n - 1 : \E w : <<q, w>> \in f[p].jumps

Promises(f, n, Q, c) ==
  /\ DOMAIN Q \subseteq Upto(c)
  /\ Unwritten(f, n, Q, c) /\ PromisedOnce(f, n) /\ HolesPromised(f, n, Q, c)

(* The jumps in s lead where they should. *)
Led(s, Q) == \A p \in s : p[1] \in DOMAIN Q /\ Q[p[1]].to = p[2]

PromiseInv ==
  errors = 0 => /\ Promises(Frames, Len(open), quads, currQuad)
                /\ Led(settled, quads)

-----------------------------------------------------------------------------
(* Chains *)

Agree(f, g, n) == \A p \in 0 .. n - 1 : g[p] = f[p]

LEMMA ChainPush ==
  ASSUME NEW H, NEW n \in Nat, NEW f, NEW R, Chain(H, n, f, R),
         NEW g, Agree(f, g, n), NEW S \in AnyStacks, Around(R, g[n], S)
  PROVE  \E K : Chain(K, n + 1, g, S)
<1> DEFINE K == [p \in 0 .. n + 1 |-> IF p = n + 1 THEN S ELSE H[p]]
<1>1. /\ K[0] = NoStacks /\ K[n + 1] = S /\ K[n] = R
      /\ \A p \in 0 .. n : K[p] = H[p]
  BY DEF Chain
<1>2. \A p \in 0 .. n + 1 : K[p] \in AnyStacks
  BY DEF Chain
<1> HIDE DEF K
<1>3. ASSUME NEW p \in 0 .. n PROVE Around(K[p], g[p], K[p + 1])
  <2>1. CASE p = n
    BY <1>1, <2>1
  <2>2. CASE p # n
    <3>1. p \in 0 .. n - 1 /\ p + 1 \in 0 .. n /\ p \in 0 .. n
      BY <2>2
    <3>2. Around(H[p], f[p], H[p + 1]) /\ g[p] = f[p]
      BY <3>1 DEF Chain, Agree
    <3>3. QED
      BY <1>1, <3>1, <3>2
  <2>3. QED
    BY <2>1, <2>2
<1>4. Chain(K, n + 1, g, S)
  BY <1>1, <1>2, <1>3 DEF Chain
<1>5. QED
  BY <1>4

LEMMA ChainPop ==
  ASSUME NEW H, NEW m \in Nat, NEW f, NEW R, Chain(H, m + 1, f, R),
         NEW g, Agree(f, g, m), NEW S, S = H[m]
  PROVE  Chain(H, m, g, S) /\ S \in AnyStacks
<1>1. \A p \in 0 .. m : H[p] \in AnyStacks
  BY DEF Chain
<1>2. ASSUME NEW p \in 0 .. m - 1 PROVE Around(H[p], g[p], H[p + 1])
  BY DEF Chain, Agree
<1>3. H[0] = NoStacks /\ m \in 0 .. m
  BY DEF Chain
<1>4. QED
  BY <1>1, <1>2, <1>3 DEF Chain

LEMMA ChainTop ==
  ASSUME NEW H, NEW m \in Nat, NEW f, NEW R, Chain(H, m + 1, f, R),
         NEW g, Agree(f, g, m), NEW S \in AnyStacks, Around(H[m], g[m], S)
  PROVE  \E K : Chain(K, m + 1, g, S)
<1>1. PICK M : M = H[m]
  OBVIOUS
<1>2. Chain(H, m, g, M)
  BY <1>1, ChainPop
<1>3. Agree(g, g, m)
  BY DEF Agree
<1>4. QED
  BY <1>1, <1>2, <1>3, ChainPush

(* What the innermost statement has put on the stacks. *)
LEMMA ChainEnd ==
  ASSUME NEW H, NEW m \in Nat, NEW f, NEW R, Chain(H, m + 1, f, R)
  PROVE  Around(H[m], f[m], R) /\ H[m] \in AnyStacks /\ R \in AnyStacks
BY DEF Chain

-----------------------------------------------------------------------------
(* Promises *)

(* The statements, n before and m after the step, keep their promises; the *)
(* one at depth k makes those in A.                                        *)
Promising(f, n, g, m, k, A) ==
  /\ m = n \/ m = n + 1
  /\ k \in 0 .. m - 1 \/ A = {}
  /\ \A p \in 0 .. m - 1 :
       g[p].jumps = (IF p < n THEN f[p].jumps ELSE {}) \cup (IF p = k THEN A ELSE {})

(* Each of the quads from c up to d is either promised or written. *)
Filled(Q, R, A, c, d) ==
  /\ \A a, b \in A : a[1] = b[1] => a = b
  /\ \A a \in A : a = <<a[1], a[2]>> /\ a[1] \in c .. d - 1
  /\ DOMAIN R = DOMAIN Q \cup {q \in c .. d - 1 : \A a \in A : a[1] # q}

LEMMA PromisesMade ==
  ASSUME NEW f, NEW n \in Nat, NEW Q, NEW c \in Nat, Promises(f, n, Q, c),
         NEW g, NEW m \in Nat, NEW k, NEW A, Promising(f, n, g, m, k, A),
         NEW d \in Nat, c <= d, NEW R, Filled(Q, R, A, c, d)
  PROVE  Promises(g, m, R, d)
<1>1. /\ DOMAIN Q \subseteq 0 .. c - 1
      /\ \A p \in 0 .. n - 1 : \A q, w :
           <<q, w>> \in f[p].jumps => q \in 0 .. c - 1 /\ q \notin DOMAIN Q
  BY DEF Promises, Unwritten, Upto
<1>2. \A p \in 0 .. m - 1 : \A q, w :
        <<q, w>> \in g[p].jumps =>
          \/ p \in 0 .. n - 1 /\ <<q, w>> \in f[p].jumps
          \/ p = k /\ <<q, w>> \in A
  BY DEF Promising
<1>3. \A q, w : <<q, w>> \in A => q \in c .. d - 1 /\ q \notin DOMAIN R
  <2>1. SUFFICES ASSUME NEW q, NEW w, <<q, w>> \in A
                 PROVE  q \in c .. d - 1 /\ q \notin DOMAIN R
    OBVIOUS
  <2>2. PICK a \in A : a = <<q, w>>
    BY <2>1
  <2>3. a[1] = q /\ a[1] \in c .. d - 1
    BY <2>2 DEF Filled
  <2>4. q \notin DOMAIN Q
    BY <1>1, <2>3
  <2>5. QED
    BY <2>3, <2>4 DEF Filled
<1>4. DOMAIN R \subseteq Upto(d)
  <2>1. \A q \in 0 .. c - 1 : q \in 0 .. d - 1
    OBVIOUS
  <2>2. QED
    BY <1>1, <2>1 DEF Filled, Upto
<1>5. Unwritten(g, m, R, d)
  <2> SUFFICES ASSUME NEW p \in 0 .. m - 1, NEW q, NEW w, <<q, w>> \in g[p].jumps
               PROVE  q \in Upto(d) /\ q \notin DOMAIN R
    BY DEF Unwritten
  <2>1. CASE p \in 0 .. n - 1 /\ <<q, w>> \in f[p].jumps
    <3>1. q \in 0 .. c - 1 /\ q \notin DOMAIN Q
      BY <1>1, <2>1
    <3>2. q \notin c .. d - 1 /\ q \in Upto(d)
      BY <3>1 DEF Upto
    <3>3. QED
      BY <3>1, <3>2 DEF Filled
  <2>2. CASE <<q, w>> \in A
    BY <1>3, <2>2 DEF Upto
  <2>3. QED
    BY <1>2, <2>1, <2>2
<1>6. PromisedOnce(g, m)
  <2> SUFFICES ASSUME NEW p \in 0 .. m - 1, NEW r \in 0 .. m - 1, NEW q, NEW v, NEW w,
                      <<q, v>> \in g[p].jumps, <<q, w>> \in g[r].jumps
               PROVE  p = r /\ v = w
    BY DEF PromisedOnce
  <2>1. CASE q \in c .. d - 1
    <3>1. q \notin 0 .. c - 1
      BY <2>1
    <3>2. p = k /\ <<q, v>> \in A /\ r = k /\ <<q, w>> \in A
      BY <1>1, <1>2, <3>1
    <3>3. <<q, v>> = <<q, w>>
      <4>1. PICK a \in A, b \in A : a = <<q, v>> /\ b = <<q, w>>
        BY <3>2
      <4>2. a[1] = b[1]
        BY <4>1
      <4>3. QED
        BY <4>1, <4>2 DEF Filled
    <3>4. QED
      BY <3>2, <3>3
  <2>2. CASE q \notin c .. d - 1
    <3>1. /\ p \in 0 .. n - 1 /\ <<q, v>> \in f[p].jumps
          /\ r \in 0 .. n - 1 /\ <<q, w>> \in f[r].jumps
      BY <1>2, <1>3, <2>2
    <3>2. QED
      BY <3>1 DEF Promises, Unwritten, PromisedOnce, HolesPromised
  <2>3. QED
    BY <2>1, <2>2
<1>7. HolesPromised(g, m, R, d)
  <2> SUFFICES ASSUME NEW q \in Upto(d), q \notin DOMAIN R
               PROVE  \E p \in 0 .. m - 1 : \E w : <<q, w>> \in g[p].jumps
    BY DEF HolesPromised
  <2>1. CASE q \in c .. d - 1
    <3>1. PICK a \in A : a[1] = q
      BY <2>1 DEF Filled
    <3>2. <<q, a[2]>> \in A /\ k \in 0 .. m - 1
      BY <3>1 DEF Filled, Promising
    <3>3. <<q, a[2]>> \in g[k].jumps
      BY <3>2 DEF Promising
    <3>4. QED
      BY <3>2, <3>3
  <2>2. CASE q \notin c .. d - 1
    <3>1. q \in Upto(c) /\ q \notin DOMAIN Q
      BY <2>2 DEF Upto, Filled
    <3>2. PICK p \in 0 .. n - 1 : \E w : <<q, w>> \in f[p].jumps
      BY <3>1 DEF Promises, Unwritten, PromisedOnce, HolesPromised
    <3>3. PICK w : <<q, w>> \in f[p].jumps
      BY <3>2
    <3>4. p \in 0 .. m - 1 /\ p < n
      BY <3>2 DEF Promising
    <3>5. <<q, w>> \in g[p].jumps
      BY <3>3, <3>4 DEF Promising
    <3>6. QED
      BY <3>4, <3>5
  <2>3. QED
    BY <2>1, <2>2
<1>8. QED
  BY <1>4, <1>5, <1>6, <1>7 DEF Promises

(* The statement on top has kept the promises in X, and ends or goes on    *)
(* without them.                                                           *)
Keeping(f, n, g, m, X) ==
  /\ n > 0 /\ X \subseteq f[n - 1].jumps
  /\ \A x \in f[n - 1].jumps : x = <<x[1], x[2]>>
  /\ \A p \in 0 .. n - 2 : g[p].jumps = f[p].jumps
  /\ \/ m = n - 1 /\ X = f[n - 1].jumps
     \/ m = n /\ g[n - 1].jumps = f[n - 1].jumps \ X

Writing(Q, R, X, c, d) ==
  DOMAIN R = DOMAIN Q \cup {x[1] : x \in X} \cup (c .. d - 1)

LEMMA PromisesKept ==
  ASSUME NEW f, NEW n \in Nat, NEW Q, NEW c \in Nat, Promises(f, n, Q, c),
         NEW g, NEW m \in Nat, NEW X, Keeping(f, n, g, m, X),
         NEW d \in Nat, c <= d, NEW R, Writing(Q, R, X, c, d)
  PROVE  Promises(g, m, R, d)
<1>1. /\ DOMAIN Q \subseteq 0 .. c - 1
      /\ \A p \in 0 .. n - 1 : \A q, w :
           <<q, w>> \in f[p].jumps => q \in 0 .. c - 1 /\ q \notin DOMAIN Q
  BY DEF Promises, Unwritten, Upto
<1>2. n - 1 \in 0 .. n - 1 /\ \A p \in 0 .. m - 1 : p \in 0 .. n - 1
  BY DEF Keeping
<1>3. \A p \in 0 .. m - 1 : \A q, w :
        <<q, w>> \in g[p].jumps => <<q, w>> \in f[p].jumps /\ <<q, w>> \notin X
  <2>1. SUFFICES ASSUME NEW p \in 0 .. m - 1, NEW q, NEW w, <<q, w>> \in g[p].jumps
                 PROVE  <<q, w>> \in f[p].jumps /\ <<q, w>> \notin X
    OBVIOUS
  <2>2. CASE p = n - 1
    <3>1. m = n
      BY <2>2 DEF Keeping
    <3>2. QED
      BY <2>1, <2>2, <3>1 DEF Keeping
  <2>3. CASE p # n - 1
    <3>1. p \in 0 .. n - 2 /\ p \in 0 .. n - 1
      BY <1>2, <2>3
    <3>2. <<q, w>> \in f[p].jumps
      BY <2>1, <3>1 DEF Keeping
    <3>3. <<q, w>> \notin f[n - 1].jumps
      BY <1>2, <2>3, <3>1, <3>2 DEF Promises, Unwritten, PromisedOnce, HolesPromised
    <3>4. QED
      BY <3>2, <3>3 DEF Keeping
  <2>4. QED
    BY <2>2, <2>3
<1>4. \A x \in X : x = <<x[1], x[2]>> /\ <<x[1], x[2]>> \in f[n - 1].jumps
  BY DEF Keeping
<1>5. DOMAIN R \subseteq Upto(d)
  <2>1. \A q \in 0 .. c - 1 : q \in 0 .. d - 1
    OBVIOUS
  <2>2. \A x \in X : x[1] \in 0 .. c - 1
    BY <1>1, <1>2, <1>4
  <2>3. \A q \in c .. d - 1 : q \in 0 .. d - 1
    OBVIOUS
  <2>4. QED
    BY <1>1, <2>1, <2>2, <2>3 DEF Writing, Upto
<1>6. Unwritten(g, m, R, d)
  <2> SUFFICES ASSUME NEW p \in 0 .. m - 1, NEW q, NEW w, <<q, w>> \in g[p].jumps
               PROVE  q \in Upto(d) /\ q \notin DOMAIN R
    BY DEF Unwritten
  <2>1. /\ <<q, w>> \in f[p].jumps /\ <<q, w>> \notin X /\ p \in 0 .. n - 1
        /\ q \in 0 .. c - 1 /\ q \notin DOMAIN Q
    BY <1>1, <1>2, <1>3
  <2>2. q \in Upto(d) /\ q \notin c .. d - 1
    BY <2>1 DEF Upto
  <2>3. ASSUME NEW x \in X, x[1] = q PROVE FALSE
    <3>1. <<q, x[2]>> \in f[n - 1].jumps /\ x = <<q, x[2]>>
      BY <1>4, <2>3
    <3>2. x[2] = w
      BY <1>2, <2>1, <3>1 DEF Promises, Unwritten, PromisedOnce, HolesPromised
    <3>3. QED
      BY <2>1, <2>3, <3>1, <3>2
  <2>4. QED
    BY <2>1, <2>2, <2>3 DEF Writing
<1>7. PromisedOnce(g, m)
  <2> SUFFICES ASSUME NEW p \in 0 .. m - 1, NEW r \in 0 .. m - 1, NEW q, NEW v, NEW w,
                      <<q, v>> \in g[p].jumps, <<q, w>> \in g[r].jumps
               PROVE  p = r /\ v = w
    BY DEF PromisedOnce
  <2>1. /\ <<q, v>> \in f[p].jumps /\ <<q, w>> \in f[r].jumps
        /\ p \in 0 .. n - 1 /\ r \in 0 .. n - 1
    BY <1>2, <1>3
  <2>2. QED
    BY <2>1 DEF Promises, Unwritten, PromisedOnce, HolesPromised
<1>8. HolesPromised(g, m, R, d)
  <2> SUFFICES ASSUME NEW q \in Upto(d), q \notin DOMAIN R
               PROVE  \E p \in 0 .. m - 1 : \E w : <<q, w>> \in g[p].jumps
    BY DEF HolesPromised
  <2>1. q \notin c .. d - 1 /\ q \notin DOMAIN Q /\ \A x \in X : x[1] # q
    BY DEF Writing
  <2>2. q \in Upto(c)
    BY <2>1 DEF Upto
  <2>3. PICK p \in 0 .. n - 1 : \E w : <<q, w>> \in f[p].jumps
    BY <2>1, <2>2 DEF Promises, Unwritten, PromisedOnce, HolesPromised
  <2>4. PICK w : <<q, w>> \in f[p].jumps
    BY <2>3
  <2>5. <<q, w>> \notin X
    BY <2>1
  <2>6. p \in 0 .. m - 1 /\ <<q, w>> \in g[p].jumps
    <3>1. CASE p = n - 1
      <4>1. m = n /\ g[n - 1].jumps = f[n - 1].jumps \ X
        BY <2>4, <2>5, <3>1 DEF Keeping
      <4>2. QED
        BY <2>4, <2>5, <3>1, <4>1
    <3>2. CASE p # n - 1
      <4>1. p \in 0 .. n - 2
        BY <3>2
      <4>2. g[p].jumps = f[p].jumps /\ p \in 0 .. m - 1
        BY <4>1 DEF Keeping
      <4>3. QED
        BY <2>4, <4>2
    <3>3. QED
      BY <3>1, <3>2
  <2>7. QED
    BY <2>6
<1>9. QED
  BY <1>5, <1>6, <1>7, <1>8 DEF Promises

(* What has been written stays. *)
Stays(Q, R) == \A q \in DOMAIN Q : q \in DOMAIN R /\ R[q] = Q[q]

LEMMA LedStays ==
  ASSUME NEW Q, NEW R, Stays(Q, R), NEW s, Led(s, Q), NEW X, Led(X, R)
  PROVE  Led(s \cup X, R)
BY DEF Led, Stays

-----------------------------------------------------------------------------
(* The statements and the stacks in a state of the parser *)

LEMMA FramesAre ==
  /\ DOMAIN Frames = Depths /\ \A p \in Depths : Frames[p] = At(p)
BY DEF Frames

LEMMA FramesPushed ==
  ASSUME TypeOK, NEW x, open' = Push(open, x)
  PROVE  /\ Len(open') = Len(open) + 1 /\ Agree(Frames, Frames', Len(open))
         /\ Frames'[Len(open)] = x
<1> DEFINE S == FramesOf(currQuad) \cup {x}
<1>1. open \in Seq(S) /\ x \in S /\ Len(open) \in Nat
  BY TypesOf
<1> HIDE DEF S
<1>2. /\ Len(open') = Len(open) + 1 /\ open'[1] = x
      /\ \A i \in 1 .. Len(open) : open'[i + 1] = open[i]
  BY <1>1 DEF Push
<1>3. ASSUME NEW p \in 0 .. Len(open) - 1 PROVE Frames'[p] = Frames[p]
  BY <1>1, <1>2 DEF Frames, Depths, At
<1>4. Frames'[Len(open)] = x
  BY <1>1, <1>2 DEF Frames, Depths, At
<1>5. QED
  BY <1>2, <1>3, <1>4 DEF Agree

LEMMA FramesTop ==
  ASSUME TypeOK, open # <<>>, NEW m, m = Len(open) - 1
  PROVE  m \in Nat /\ Len(open) = m + 1 /\ m \in Depths /\ Frames[m] = Innermost
BY DepthFacts DEF Frames, Depths

LEMMA FramesGo ==
  ASSUME TypeOK, open # <<>>, NEW m, m = Len(open) - 1, NEW at, NEW start, NEW step, NEW jumps,
         open' = GoesOn(at, start, step, jumps)
  PROVE  /\ Len(open') = m + 1 /\ Agree(Frames, Frames', m)
         /\ Frames'[m] = [kind |-> Innermost.kind, at |-> at, start |-> start,
                          step |-> step, jumps |-> jumps]
<1>1. open \in Seq(FramesOf(currQuad)) /\ m \in Nat /\ Len(open) = m + 1
  <2>1. open \in Seq(FramesOf(currQuad))
    BY TypesOf
  <2>2. QED
    BY <2>1
<1>2. /\ Len(open') = m + 1
      /\ open'[1] = [kind |-> Innermost.kind, at |-> at, start |-> start,
                     step |-> step, jumps |-> jumps]
      /\ \A i \in 2 .. m + 1 : open'[i] = open[i]
  BY <1>1 DEF GoesOn
<1>3. ASSUME NEW p \in 0 .. m - 1 PROVE Frames'[p] = Frames[p]
  <2>1. m + 1 - p \in 2 .. m + 1 /\ p \in 0 .. m
    BY <1>1
  <2>2. open'[m + 1 - p] = open[m + 1 - p]
    BY <1>2, <2>1
  <2>3. p \in Depths /\ p \in Depths'
    BY <1>1, <1>2, <2>1 DEF Depths
  <2>4. At(p)' = open'[m + 1 - p] /\ At(p) = open[m + 1 - p]
    BY <1>1, <1>2 DEF At
  <2>5. QED
    BY <2>2, <2>3, <2>4 DEF Frames
<1>4. Frames'[m] = open'[1]
  BY <1>1, <1>2 DEF Frames, Depths, At
<1>5. QED
  BY <1>2, <1>3, <1>4 DEF Agree

LEMMA FramesPopped ==
  ASSUME TypeOK, open # <<>>, NEW m, m = Len(open) - 1, open' = Tail(open)
  PROVE  Len(open') = m /\ Agree(Frames, Frames', m)
<1>1. open \in Seq(FramesOf(currQuad)) /\ m \in Nat /\ Len(open) = m + 1
  <2>1. open \in Seq(FramesOf(currQuad))
    BY TypesOf
  <2>2. QED
    BY <2>1
<1>2. Len(open') = m /\ \A i \in 1 .. m : open'[i] = open[i + 1]
  BY <1>1
<1>3. ASSUME NEW p \in 0 .. m - 1 PROVE Frames'[p] = Frames[p]
  BY <1>1, <1>2 DEF Frames, Depths, At
<1>4. QED
  BY <1>2, <1>3 DEF Agree

LEMMA LoopsAny ==
  ASSUME NEW n \in Nat
  PROVE  StacksOf(n) \subseteq AnyLoops
<1>1. Upto(n) \subseteq Nat
  BY DEF Upto
<1>2. \A s : s \in Seq(Upto(n)) => s \in Seq(Nat)
  BY <1>1
<1>3. QED
  BY <1>2 DEF StacksOf, AnyLoops

LEMMA SequencesOfNumbers ==
  ASSUME NEW S, \A x \in S : x \in Nat
  PROVE  Seq(S) \subseteq Seq(Nat)
<1>1. SUFFICES ASSUME NEW s \in Seq(S) PROVE s \in Seq(Nat)
  OBVIOUS
<1>2. Len(s) \in Nat /\ DOMAIN s = 1 .. Len(s) /\ \A i \in 1 .. Len(s) : s[i] \in Nat
  OBVIOUS
<1>3. s = [i \in 1 .. Len(s) |-> s[i]]
  BY <1>2
<1>4. QED
  BY <1>2, <1>3

LEMMA NowTyped == TypeOK => Now \in AnyStacks
<1> SUFFICES ASSUME TypeOK PROVE Now \in AnyStacks
  OBVIOUS
<1>1. /\ currQuad \in Nat /\ LabelsTyped(currQuad) /\ loops \in StacksOf(currQuad)
      /\ function_loop_stack \in Seq(StacksOf(currQuad))
  BY TypesOf
<1>2. /\ \A s : s \in Seq(Upto(currQuad)) => s \in Seq(Nat)
      /\ \A s : s \in Seq(0 .. currQuad) => s \in Seq(Nat)
  <2>1. \A n \in Nat : \A x \in 0 .. n : x \in Nat
    OBVIOUS
  <2>2. \A x \in Upto(currQuad) : x \in Nat
    BY <1>1 DEF Upto
  <2>3. \A S : (\A x \in S : x \in Nat) => Seq(S) \subseteq Seq(Nat)
    BY SequencesOfNumbers
  <2>4. QED
    BY <1>1, <2>1, <2>2, <2>3
<1>3. loops \in AnyLoops /\ function_loop_stack \in Seq(AnyLoops)
  BY <1>1, LoopsAny
<1>4. QED
  BY <1>1, <1>2, <1>3 DEF Now, Stacks, AnyStacks, LabelsTyped

LEMMA NowLater == TypeOK' => (Now \in AnyStacks)'
BY NowTyped, PTL

LEMMA StacksAre ==
  ASSUME NEW l, NEW s, NEW w, NEW f, NEW i, NEW e, NEW n
  PROVE  LET S == Stacks(l, s, w, f, i, e, n) IN
         /\ S.loops = l /\ S.saved = s /\ S.whiles = w /\ S.fors = f /\ S.ifs = i
         /\ S.elses = e /\ S.names = n
BY DEF Stacks

LEMMA SameSequence ==
  ASSUME NEW S, NEW s \in Seq(S), NEW t \in Seq(S), Len(s) = Len(t),
         \A i \in 1 .. Len(t) : s[i] = t[i]
  PROVE  s = t
OBVIOUS

LEMMA DropNone ==
  ASSUME NEW s \in Seq(Nat)
  PROVE  Drop(s, 0) = s
<1>1. Len(Drop(s, 0)) = Len(s) /\ \A i \in 1 .. Len(s) : Drop(s, 0)[i] = s[i]
  BY DEF Drop
<1>2. Drop(s, 0) \in Seq(Nat)
  BY DEF Drop
<1>3. PICK t \in Seq(Nat) : t = Drop(s, 0)
  BY <1>2
<1>4. t = s
  BY <1>1, <1>3, SameSequence
<1>5. QED
  BY <1>3, <1>4

LEMMA DropPushed ==
  ASSUME NEW s \in Seq(Nat), NEW q \in Nat, NEW h \in 0 .. Len(s)
  PROVE  Drop(Push(s, q), h + 1) = Drop(s, h)
<1>1. /\ Push(s, q) \in Seq(Nat) /\ Len(Push(s, q)) = Len(s) + 1
      /\ \A i \in 1 .. Len(s) : Push(s, q)[i + 1] = s[i]
  <2>1. PICK N : N = Nat
    OBVIOUS
  <2>2. s \in Seq(N) /\ q \in N
    BY <2>1
  <2>3. /\ Push(s, q) \in Seq(N) /\ Len(Push(s, q)) = Len(s) + 1
        /\ \A i \in 1 .. Len(s) : Push(s, q)[i + 1] = s[i]
    BY <2>2, PushFacts
  <2>4. QED
    BY <2>1, <2>3
<1>2. PICK t \in Seq(Nat) : t = Push(s, q)
  BY <1>1
<1>3. Len(t) = Len(s) + 1 /\ h + 1 \in 0 .. Len(t) /\ Len(s) \in Nat
  BY <1>1, <1>2
<1>4. /\ Drop(t, h + 1) \in Seq(Nat) /\ Len(Drop(t, h + 1)) = Len(t) - (h + 1)
      /\ \A i \in 1 .. Len(t) - (h + 1) : Drop(t, h + 1)[i] = t[h + 1 + i]
  BY <1>3, DropFacts
<1>5. /\ Drop(s, h) \in Seq(Nat) /\ Len(Drop(s, h)) = Len(s) - h
      /\ \A i \in 1 .. Len(s) - h : Drop(s, h)[i] = s[h + i]
  BY DropFacts
<1>6. \A i \in 1 .. Len(s) - h : Drop(t, h + 1)[i] = Drop(s, h)[i]
  <2>1. SUFFICES ASSUME NEW i \in 1 .. Len(s) - h PROVE Drop(t, h + 1)[i] = Drop(s, h)[i]
    OBVIOUS
  <2>2. h + i \in 1 .. Len(s) /\ h + 1 + i = (h + i) + 1 /\ i \in 1 .. Len(t) - (h + 1)
    BY <1>3
  <2>3. t[(h + i) + 1] = s[h + i]
    BY <1>1, <1>2, <2>2
  <2>4. QED
    BY <1>4, <1>5, <2>2, <2>3
<1>7. Len(Drop(t, h + 1)) = Len(Drop(s, h))
  BY <1>3, <1>4, <1>5
<1>8. Drop(t, h + 1) = Drop(s, h)
  BY <1>4, <1>5, <1>6, <1>7, SameSequence
<1>9. QED
  BY <1>2, <1>8

-----------------------------------------------------------------------------
(* Steps of a chain *)

(* While R become T, the innermost statement x goes on as y, or ends.      *)
Goes(x, y, R, T) == \A S \in AnyStacks : Around(S, x, R) => Around(S, y, T)
Ends(x, R, T)    == \A S \in AnyStacks : Around(S, x, R) => S = T

LEMMA ChainedBegins ==
  ASSUME TypeOK, TypeOK', Chained, NEW x, open' = Push(open, x), Around(Now, x, Now')
  PROVE  Chained'
<1>1. Now' \in AnyStacks
  BY NowLater
<1>2. /\ Len(open) \in Nat /\ Len(open') = Len(open) + 1
      /\ Agree(Frames, Frames', Len(open)) /\ Frames'[Len(open)] = x
  BY FramesPushed, DepthFacts
<1>3. PICK H : Chain(H, Len(open), Frames, Now)
  BY DEF Chained
<1>4. PICK n, f, R, g, S : n = Len(open) /\ f = Frames /\ R = Now /\ g = Frames' /\ S = Now'
  OBVIOUS
<1>5. /\ n \in Nat /\ Chain(H, n, f, R) /\ Agree(f, g, n) /\ S \in AnyStacks
      /\ Around(R, g[n], S)
  BY <1>1, <1>2, <1>3, <1>4
<1>6. \E K : Chain(K, n + 1, g, S)
  BY <1>5, ChainPush
<1>7. QED
  BY <1>2, <1>4, <1>6 DEF Chained

LEMMA ChainedGoes ==
  ASSUME TypeOK, TypeOK', Chained, open # <<>>, NEW at, NEW start, NEW step, NEW jumps,
         open' = GoesOn(at, start, step, jumps),
         Goes(Innermost, [kind |-> Innermost.kind, at |-> at, start |-> start,
                          step |-> step, jumps |-> jumps], Now, Now')
  PROVE  Chained'
<1> DEFINE m == Len(open) - 1
           y == [kind |-> Innermost.kind, at |-> at, start |-> start,
                 step |-> step, jumps |-> jumps]
<1>1. Now' \in AnyStacks
  BY NowLater
<1>2. /\ m \in Nat /\ Len(open) = m + 1 /\ Frames[m] = Innermost
  BY FramesTop
<1>3. Len(open') = m + 1 /\ Agree(Frames, Frames', m) /\ Frames'[m] = y
  BY FramesGo
<1>4. PICK H : Chain(H, m + 1, Frames, Now)
  BY <1>2 DEF Chained
<1>5. PICK k, f, R, g, S : k = m /\ f = Frames /\ R = Now /\ g = Frames' /\ S = Now'
  OBVIOUS
<1>6. /\ k \in Nat /\ Chain(H, k + 1, f, R) /\ Agree(f, g, k) /\ S \in AnyStacks
      /\ f[k] = Innermost /\ g[k] = y /\ Goes(Innermost, y, R, S)
  BY <1>1, <1>2, <1>3, <1>4, <1>5
<1> HIDE DEF m, y
<1>7. Around(H[k], f[k], R) /\ H[k] \in AnyStacks
  BY <1>6, ChainEnd
<1>8. Around(H[k], g[k], S)
  BY <1>6, <1>7 DEF Goes
<1>9. \E K : Chain(K, k + 1, g, S)
  BY <1>6, <1>8, ChainTop
<1>10. QED
  BY <1>3, <1>5, <1>9 DEF Chained

LEMMA ChainedEnds ==
  ASSUME TypeOK, Chained, open # <<>>, open' = Tail(open), Ends(Innermost, Now, Now')
  PROVE  Chained'
<1> DEFINE m == Len(open) - 1
<1>1. /\ m \in Nat /\ Len(open) = m + 1 /\ Frames[m] = Innermost
  BY FramesTop
<1>2. Len(open') = m /\ Agree(Frames, Frames', m)
  BY FramesPopped
<1>3. PICK H : Chain(H, m + 1, Frames, Now)
  BY <1>1 DEF Chained
<1>4. PICK k, f, R, g, S : k = m /\ f = Frames /\ R = Now /\ g = Frames' /\ S = Now'
  OBVIOUS
<1>5. /\ k \in Nat /\ Chain(H, k + 1, f, R) /\ Agree(f, g, k)
      /\ f[k] = Innermost /\ Ends(Innermost, R, S)
  BY <1>1, <1>2, <1>3, <1>4
<1> HIDE DEF m
<1>6. Around(H[k], f[k], R) /\ H[k] \in AnyStacks
  BY <1>5, ChainEnd
<1>7. S = H[k]
  BY <1>5, <1>6 DEF Ends
<1>8. Chain(H, k, g, S)
  BY <1>5, <1>7, ChainPop
<1>9. QED
  BY <1>2, <1>4, <1>8 DEF Chained

LEMMA ChainedStays ==
  ASSUME Chained, UNCHANGED <<open, stacks>>
  PROVE  Chained'
<1>1. Frames' = Frames /\ Now' = Now
  BY DEF Frames, Depths, At, Now, stacks
<1>2. PICK H : Chain(H, Len(open), Frames, Now)
  BY DEF Chained
<1>3. QED
  BY <1>1, <1>2 DEF Chained

LEMMA AroundIs ==
  ASSUME NEW S, NEW x, NEW R
  PROVE  /\ x.kind = "if" /\ x.at = "cond" => (Around(S, x, R) <=> IfCond(S, x, R))
         /\ x.kind = "if" /\ x.at = "body" => (Around(S, x, R) <=> IfBody(S, x, R))
         /\ x.kind = "if" /\ x.at = "else" => (Around(S, x, R) <=> IfOther(S, x, R))
         /\ x.kind = "while" /\ x.at = "cond" => (Around(S, x, R) <=> WhileCond(S, x, R))
         /\ x.kind = "while" /\ x.at = "body" => (Around(S, x, R) <=> WhileIn(S, x, R))
         /\ x.kind = "for" /\ x.at = "init" => (Around(S, x, R) <=> ForInit(S, x, R))
         /\ x.kind = "for" /\ x.at = "cond" => (Around(S, x, R) <=> ForTest(S, x, R))
         /\ x.kind = "for" /\ x.at = "step" => (Around(S, x, R) <=> ForNext(S, x, R))
         /\ x.kind = "for" /\ x.at = "body" => (Around(S, x, R) <=> ForIn(S, x, R))
         /\ x.kind = "function" /\ x.at = "body" => (Around(S, x, R) <=> InFunction(S, x, R))
BY DEF Around

(* The same for stacks that are given one by one. *)
LEMMA IfBodyIs ==
  ASSUME NEW S, NEW x, NEW l, NEW s, NEW w, NEW f, NEW i, NEW e, NEW n
  PROVE  IfBody(S, x, Stacks(l, s, w, f, i, e, n)) <=>
           /\ Len(i) > 0 /\ x.jumps = {<<Head(i), "else">>}
           /\ S = Stacks(l, s, w, f, Tail(i), e, n)
BY DEF IfBody, Stacks

LEMMA IfOtherIs ==
  ASSUME NEW S, NEW x, NEW l, NEW s, NEW w, NEW f, NEW i, NEW e, NEW n
  PROVE  IfOther(S, x, Stacks(l, s, w, f, i, e, n)) <=>
           /\ Len(i) > 0 /\ Len(e) > 0 /\ x.step = Head(e) + 1
           /\ x.jumps = {<<Head(i), "else">>, <<Head(e), "end">>}
           /\ S = Stacks(l, s, w, f, Tail(i), Tail(e), n)
BY DEF IfOther, Stacks

LEMMA WhileCondIs ==
  ASSUME NEW S, NEW x, NEW l, NEW s, NEW w, NEW f, NEW i, NEW e, NEW n
  PROVE  WhileCond(S, x, Stacks(l, s, w, f, i, e, n)) <=>
           /\ Len(w) > 0 /\ Head(w) = x.start /\ x.jumps = {}
           /\ S = Stacks(l, s, Tail(w), f, i, e, n)
BY DEF WhileCond, Stacks

LEMMA WhileInIs ==
  ASSUME NEW S, NEW x, NEW l, NEW s, NEW w, NEW f, NEW i, NEW e, NEW n
  PROVE  WhileIn(S, x, Stacks(l, s, w, f, i, e, n)) <=>
           /\ Len(w) > 0 /\ Head(w) = x.start
           /\ Counted(l) /\ Len(l.while_end_label_stack) > 0
           /\ x.jumps = {<<Head(l.while_end_label_stack), "end">>} \cup Counts(l)
           /\ S = Stacks(Uncounted(l, l.for_start_stack, Tail(l.while_end_label_stack)),
                         s, Tail(w), f, i, e, n)
BY DEF WhileIn, Stacks

LEMMA ForTestIs ==
  ASSUME NEW S, NEW x, NEW l, NEW s, NEW w, NEW f, NEW i, NEW e, NEW n
  PROVE  ForTest(S, x, Stacks(l, s, w, f, i, e, n)) <=>
           /\ Len(f) > 0 /\ Head(f) = x.start /\ x.jumps = {}
           /\ Counted(l) /\ NoneCounted(l)
           /\ S = Stacks(Uncounted(l, l.for_start_stack, l.while_end_label_stack),
                         s, w, Tail(f), i, e, n)
BY DEF ForTest, Stacks

LEMMA ForLaterIs ==
  ASSUME NEW S, NEW x, NEW l, NEW s, NEW w, NEW f, NEW i, NEW e, NEW n
  PROVE  ForLater(S, x, Stacks(l, s, w, f, i, e, n)) <=>
           /\ Len(f) > 0 /\ Head(f) = x.start
           /\ Counted(l) /\ Len(l.for_start_stack) > 0
           /\ x.step = Head(l.for_start_stack) + 2
           /\ S = Stacks(Uncounted(l, Tail(l.for_start_stack), l.while_end_label_stack),
                         s, w, Tail(f), i, e, n)
BY DEF ForLater, Stacks

LEMMA ForNextIs ==
  ASSUME NEW S, NEW x, NEW l, NEW s, NEW w, NEW f, NEW i, NEW e, NEW n
  PROVE  ForNext(S, x, Stacks(l, s, w, f, i, e, n)) <=>
           /\ ForLater(S, x, Stacks(l, s, w, f, i, e, n)) /\ NoneCounted(l)
           /\ x.jumps = {<<Head(l.for_start_stack), "body">>,
                         <<Head(l.for_start_stack) + 1, "end">>}
BY DEF ForNext, Stacks

LEMMA ForInIs ==
  ASSUME NEW S, NEW x, NEW l, NEW s, NEW w, NEW f, NEW i, NEW e, NEW n
  PROVE  ForIn(S, x, Stacks(l, s, w, f, i, e, n)) <=>
           /\ ForLater(S, x, Stacks(l, s, w, f, i, e, n))
           /\ x.jumps = {<<Head(l.for_start_stack) + 1, "end">>} \cup Counts(l)
BY DEF ForIn, Stacks

LEMMA InFunctionIs ==
  ASSUME NEW S, NEW x, NEW l, NEW s, NEW w, NEW f, NEW i, NEW e, NEW n
  PROVE  InFunction(S, x, Stacks(l, s, w, f, i, e, n)) <=>
           /\ Len(n) > 0 /\ Head(n) = x.start /\ x.jumps = {} /\ Len(s) > 0
           /\ S = Stacks(Head(s), Tail(s), w, f, i, e, Tail(n))
BY DEF InFunction, Stacks

(* t is s with x on top. *)
OnTop(t, x, s) == Len(t) > 0 /\ Head(t) = x /\ Tail(t) = s

LEMMA PushedOn ==
  ASSUME NEW S, NEW s \in Seq(S), NEW x \in S
  PROVE  OnTop(Push(s, x), x, s)
BY DEF OnTop, Push

(* What is put on the stacks of labels. *)
LEMMA LabelsPushed ==
  ASSUME TypeOK, NEW q \in Nat
  PROVE  /\ OnTop(Push(while_start_label_stack, q), q, while_start_label_stack)
         /\ OnTop(Push(for_expr_start_stack, q), q, for_expr_start_stack)
         /\ OnTop(Push(if_label_stack, q), q, if_label_stack)
         /\ OnTop(Push(else_label_stack, q), q, else_label_stack)
         /\ OnTop(Push(function_name_stack, q), q, function_name_stack)
         /\ OnTop(Push(function_loop_stack, loops), loops, function_loop_stack)
<1>1. /\ while_start_label_stack \in Seq(Nat) /\ for_expr_start_stack \in Seq(Nat)
      /\ if_label_stack \in Seq(Nat) /\ else_label_stack \in Seq(Nat)
      /\ function_name_stack \in Seq(Nat)
      /\ function_loop_stack \in Seq(AnyLoops) /\ loops \in AnyLoops
  BY NowTyped DEF Now, Stacks, AnyStacks
<1>2. PICK N : N = Nat
  OBVIOUS
<1>3. /\ while_start_label_stack \in Seq(N) /\ for_expr_start_stack \in Seq(N)
      /\ if_label_stack \in Seq(N) /\ else_label_stack \in Seq(N)
      /\ function_name_stack \in Seq(N) /\ q \in N
  BY <1>1, <1>2
<1>4. OnTop(Push(function_loop_stack, loops), loops, function_loop_stack)
  BY <1>1, PushedOn
<1>5. QED
  BY <1>3, <1>4, PushedOn

(* The test of an if or while has been written. *)
LEMMA TestedAs ==
  ASSUME TypeOK, open # <<>>, NEW where,
         open' = [Promise(1, currQuad + 1, where) EXCEPT ![1].at = "body"]
  PROVE  open' = GoesOn("body", Innermost.start, Innermost.step,
                        Innermost.jumps \cup {<<currQuad + 1, where>>})
BY PromiseForm, ZenonT(30)

(* Statements begin. *)
LEMMA BeginsChained ==
  ASSUME TypeOK, TypeOK', Chained, FuncStart \/ IfBegin \/ WhileBegin \/ ForBegin
  PROVE  Chained'
<1>1. currQuad \in Nat
  BY TypesOf
<1>2. CASE FuncStart
  <2> DEFINE x == Opened("function", "body")
  <2>1. open' = Push(open, x)
    BY <1>2 DEF FuncStart, FuncHead
  <2>2. x.kind = "function" /\ x.at = "body" /\ x.start = currQuad /\ x.jumps = {}
    BY DEF Opened
  <2>3. Now' = Stacks(NoLoops, Push(function_loop_stack, loops), while_start_label_stack,
                      for_expr_start_stack, if_label_stack, else_label_stack,
                      Push(function_name_stack, currQuad))
    BY <1>2 DEF FuncStart, FuncHead, Now
  <2> HIDE DEF x
  <2>4. InFunction(Now, x, Now')
    <3> DEFINE t == Push(function_loop_stack, loops)
               u == Push(function_name_stack, currQuad)
    <3>1. OnTop(t, loops, function_loop_stack) /\ OnTop(u, currQuad, function_name_stack)
      BY <1>1, LabelsPushed
    <3>2. /\ Len(t) > 0 /\ Head(t) = loops /\ Tail(t) = function_loop_stack
          /\ Len(u) > 0 /\ Head(u) = currQuad /\ Tail(u) = function_name_stack
      BY <3>1 DEF OnTop
    <3> HIDE DEF t, u
    <3>3. InFunction(Now, x, Stacks(NoLoops, t, while_start_label_stack,
                     for_expr_start_stack, if_label_stack, else_label_stack, u))
      BY <2>2, <3>2 DEF Now, InFunction, Stacks
    <3>4. QED
      BY <2>3, <3>3 DEF t, u
  <2>5. Around(Now, x, Now')
    BY <2>2, <2>4, AroundIs
  <2>6. QED
    BY <2>1, <2>5, ChainedBegins
<1>3. CASE IfBegin
  <2> DEFINE x == Opened("if", "cond")
  <2>1. open' = Push(open, x) /\ Now' = Now
    BY <1>3 DEF IfBegin, Now, stacks
  <2>2. x.kind = "if" /\ x.at = "cond" /\ x.jumps = {}
    BY DEF Opened
  <2> HIDE DEF x
  <2>3. Around(Now, x, Now')
    BY <2>1, <2>2, AroundIs DEF IfCond
  <2>4. QED
    BY <2>1, <2>3, ChainedBegins
<1>4. CASE WhileBegin
  <2> DEFINE x == Opened("while", "cond")
  <2>1. open' = Push(open, x)
    BY <1>4 DEF WhileBegin, LoopBegin
  <2>2. x.kind = "while" /\ x.at = "cond" /\ x.start = currQuad /\ x.jumps = {}
    BY DEF Opened
  <2>3. Now' = Stacks(loops, function_loop_stack, Push(while_start_label_stack, currQuad),
                      for_expr_start_stack, if_label_stack, else_label_stack,
                      function_name_stack)
    BY <1>4 DEF WhileBegin, Now
  <2> HIDE DEF x
  <2>4. WhileCond(Now, x, Now')
    <3> DEFINE t == Push(while_start_label_stack, currQuad)
    <3>1. OnTop(t, currQuad, while_start_label_stack)
      BY <1>1, LabelsPushed
    <3>2. Len(t) > 0 /\ Head(t) = currQuad /\ Tail(t) = while_start_label_stack
      BY <3>1 DEF OnTop
    <3> HIDE DEF t
    <3>3. WhileCond(Now, x, Stacks(loops, function_loop_stack, t, for_expr_start_stack,
                                   if_label_stack, else_label_stack, function_name_stack))
      BY <2>2, <3>2 DEF Now, WhileCond, Stacks
    <3>4. QED
      BY <2>3, <3>3 DEF t
  <2>5. Around(Now, x, Now')
    BY <2>2, <2>4, AroundIs
  <2>6. QED
    BY <2>1, <2>5, ChainedBegins
<1>5. CASE ForBegin
  <2> DEFINE x == Opened("for", "init")
  <2>1. open' = Push(open, x) /\ Now' = Now
    BY <1>5 DEF ForBegin, LoopBegin, Now, stacks
  <2>2. x.kind = "for" /\ x.at = "init" /\ x.jumps = {}
    BY DEF Opened
  <2> HIDE DEF x
  <2>3. Around(Now, x, Now')
    BY <2>1, <2>2, AroundIs DEF ForInit
  <2>4. QED
    BY <2>1, <2>3, ChainedBegins
<1>6. QED
  BY <1>2, <1>3, <1>4, <1>5

LEMMA IfThenChained ==
  ASSUME TypeOK, TypeOK', Chained, IfThen
  PROVE  Chained'
<1> DEFINE y == [kind |-> Innermost.kind, at |-> "body", start |-> Innermost.start,
                 step |-> Innermost.step, jumps |-> Innermost.jumps \cup {<<currQuad + 1, "else">>}]
<1>1. /\ open # <<>> /\ Innermost.kind = "if" /\ Innermost.at = "cond" /\ currQuad + 1 \in Nat
  BY TypesOf DEF IfThen, Expecting
<1>2. open' = GoesOn("body", Innermost.start, Innermost.step,
                     Innermost.jumps \cup {<<currQuad + 1, "else">>})
  BY <1>1, TestedAs DEF IfThen
<1>3. Now' = Stacks(loops, function_loop_stack, while_start_label_stack,
                    for_expr_start_stack, Push(if_label_stack, currQuad + 1),
                    else_label_stack, function_name_stack)
  BY DEF IfThen, Now
<1>4. y.kind = "if" /\ y.at = "body" /\ y.jumps = Innermost.jumps \cup {<<currQuad + 1, "else">>}
  BY <1>1
<1>5. Goes(Innermost, y, Now, Now')
  <2> SUFFICES ASSUME NEW S \in AnyStacks, Around(S, Innermost, Now)
               PROVE  Around(S, y, Now')
    BY DEF Goes
  <2>1. IfCond(S, Innermost, Now)
    BY <1>1, AroundIs
  <2>2. S = Now /\ Innermost.jumps = {}
    BY <2>1 DEF IfCond
  <2> HIDE DEF y
  <2>3. y.jumps = {<<currQuad + 1, "else">>}
    BY <1>4, <2>2
  <2>4. IfBody(S, y, Now')
    <3> DEFINE t == Push(if_label_stack, currQuad + 1)
    <3>1. OnTop(t, currQuad + 1, if_label_stack)
      BY <1>1, LabelsPushed
    <3>2. Len(t) > 0 /\ Head(t) = currQuad + 1 /\ Tail(t) = if_label_stack
      BY <3>1 DEF OnTop
    <3> HIDE DEF t
    <3>3. IfBody(S, y, Stacks(loops, function_loop_stack, while_start_label_stack,
                       for_expr_start_stack, t, else_label_stack, function_name_stack))
      BY <2>2, <2>3, <3>2 DEF Now, IfBody, Stacks
    <3>4. QED
      BY <1>3, <3>3 DEF t
  <2>5. QED
    BY <1>4, <2>4, AroundIs
<1>6. QED
  BY <1>1, <1>2, <1>5, ChainedGoes

LEMMA IfElseChained ==
  ASSUME TypeOK, TypeOK', Chained, IfElse
  PROVE  Chained'
<1> DEFINE y == [kind |-> Innermost.kind, at |-> "else", start |-> Innermost.start,
                 step |-> currQuad + 1, jumps |-> Innermost.jumps \cup {<<currQuad, "end">>}]
<1>1. /\ open # <<>> /\ Innermost.kind = "if" /\ Innermost.at = "body" /\ currQuad \in Nat
  BY TypesOf DEF IfElse, Expecting
<1>2. open' = GoesOn("else", Innermost.start, currQuad + 1,
                     Innermost.jumps \cup {<<currQuad, "end">>})
  BY ElseForm
<1>3. Now' = Stacks(loops, function_loop_stack, while_start_label_stack,
                    for_expr_start_stack, if_label_stack,
                    Push(else_label_stack, currQuad), function_name_stack)
  BY DEF IfElse, Now
<1>4. /\ y.kind = "if" /\ y.at = "else" /\ y.step = currQuad + 1
      /\ y.jumps = Innermost.jumps \cup {<<currQuad, "end">>}
  BY <1>1
<1>5. Goes(Innermost, y, Now, Now')
  <2> SUFFICES ASSUME NEW S \in AnyStacks, Around(S, Innermost, Now)
               PROVE  Around(S, y, Now')
    BY DEF Goes
  <2>1. IfBody(S, Innermost, Now)
    BY <1>1, AroundIs
  <2> HIDE DEF y
  <2>2. /\ Len(if_label_stack) > 0 /\ Innermost.jumps = {<<Head(if_label_stack), "else">>}
        /\ S = Stacks(loops, function_loop_stack, while_start_label_stack,
                      for_expr_start_stack, Tail(if_label_stack), else_label_stack,
                      function_name_stack)
    BY <2>1, IfBodyIs DEF Now
  <2>3. y.jumps = {<<Head(if_label_stack), "else">>, <<currQuad, "end">>}
    BY <1>4, <2>2
  <2>4. IfOther(S, y, Now')
    <3> DEFINE t == Push(else_label_stack, currQuad)
    <3>1. OnTop(t, currQuad, else_label_stack)
      BY <1>1, LabelsPushed
    <3>2. Len(t) > 0 /\ Head(t) = currQuad /\ Tail(t) = else_label_stack
      BY <3>1 DEF OnTop
    <3> HIDE DEF t
    <3>3. IfOther(S, y, Stacks(loops, function_loop_stack, while_start_label_stack,
                        for_expr_start_stack, if_label_stack, t, function_name_stack))
      BY <1>4, <2>2, <2>3, <3>2 DEF IfOther, Stacks
    <3>4. QED
      BY <1>3, <3>3 DEF t
  <2>5. QED
    BY <1>4, <2>4, AroundIs
<1>6. QED
  BY <1>1, <1>2, <1>5, ChainedGoes

-----------------------------------------------------------------------------
(* Loops *)

LEMMA LoopsAre ==
  ASSUME NEW a, NEW b, NEW c, NEW d, NEW f, NEW w
  PROVE  LET L == LoopRecord(a, b, c, d, f, w) IN
         /\ L.break_stack = a /\ L.continue_stack = b
         /\ L.num_of_breaks_stack = c /\ L.num_of_continues_stack = d
         /\ L.for_start_stack = f /\ L.while_end_label_stack = w
BY DEF LoopRecord

LEMMA LoopsOf ==
  ASSUME NEW L \in AnyLoops
  PROVE  /\ L = LoopRecord(L.break_stack, L.continue_stack, L.num_of_breaks_stack,
                           L.num_of_continues_stack, L.for_start_stack,
                           L.while_end_label_stack)
         /\ L.break_stack \in Seq(Nat) /\ L.continue_stack \in Seq(Nat)
         /\ L.num_of_breaks_stack \in Seq(Nat) /\ L.num_of_continues_stack \in Seq(Nat)
         /\ L.for_start_stack \in Seq(Nat) /\ L.while_end_label_stack \in Seq(Nat)
BY DEF AnyLoops, LoopRecord

(* L with the counters of one more loop. *)
OneMore(L, f, w) ==
  LoopRecord(L.break_stack, L.continue_stack, Push(L.num_of_breaks_stack, 0),
             Push(L.num_of_continues_stack, 0), f, w)

LEMMA OneMoreFacts ==
  ASSUME NEW L \in AnyLoops, NEW f, NEW w
  PROVE  LET T == OneMore(L, f, w) IN
         /\ T.for_start_stack = f /\ T.while_end_label_stack = w
         /\ Counted(T) /\ NoneCounted(T) /\ Counts(T) = {}
         /\ Uncounted(T, L.for_start_stack, L.while_end_label_stack) = L
<1> DEFINE T == OneMore(L, f, w)
           c == Push(L.num_of_breaks_stack, 0)
           d == Push(L.num_of_continues_stack, 0)
<1>1. /\ T.break_stack = L.break_stack /\ T.continue_stack = L.continue_stack
      /\ T.num_of_breaks_stack = c /\ T.num_of_continues_stack = d
      /\ T.for_start_stack = f /\ T.while_end_label_stack = w
  BY DEF OneMore, LoopRecord
<1>2. /\ OnTop(c, 0, L.num_of_breaks_stack) /\ OnTop(d, 0, L.num_of_continues_stack)
      /\ L.break_stack \in Seq(Nat) /\ L.continue_stack \in Seq(Nat)
  <2>1. PICK N : N = Nat
    OBVIOUS
  <2>2. /\ L.num_of_breaks_stack \in Seq(N) /\ L.num_of_continues_stack \in Seq(N)
        /\ 0 \in N
    BY <2>1, LoopsOf
  <2>3. QED
    BY <2>2, PushedOn, LoopsOf
<1> HIDE DEF T, c, d
<1>3. Head(c) = 0 /\ Head(d) = 0 /\ Len(c) > 0 /\ Len(d) > 0
  BY <1>2 DEF OnTop
<1>4. Counted(T) /\ NoneCounted(T)
  BY <1>1, <1>2, <1>3 DEF Counted, NoneCounted
<1>5. Counts(T) = {}
  <2>1. \A i : i \notin 1 .. 0
    OBVIOUS
  <2>2. QED
    BY <1>1, <1>3, <2>1 DEF Counts, First
<1>6. Uncounted(T, L.for_start_stack, L.while_end_label_stack) = L
  <2>1. Drop(L.break_stack, 0) = L.break_stack /\ Drop(L.continue_stack, 0) = L.continue_stack
    BY <1>2, DropNone
  <2>2. Tail(c) = L.num_of_breaks_stack /\ Tail(d) = L.num_of_continues_stack
    BY <1>2 DEF OnTop
  <2>3. QED
    BY <1>1, <1>3, <2>1, <2>2, LoopsOf DEF Uncounted
<1>7. QED
  BY <1>1, <1>4, <1>5, <1>6 DEF T

(* loops of a while that begins. *)
WithLabel(L, c, d, w) ==
  [L EXCEPT !.num_of_breaks_stack = c, !.num_of_continues_stack = d,
            !.while_end_label_stack = w]

LEMMA LoopsForWhile ==
  ASSUME NEW L \in AnyLoops, NEW c, NEW d, NEW w
  PROVE  WithLabel(L, c, d, w)
           = LoopRecord(L.break_stack, L.continue_stack, c, d, L.for_start_stack, w)
<1>1. PICK a, b, c1, d1, f, w1 :
        /\ L = LoopRecord(a, b, c1, d1, f, w1)
        /\ a = L.break_stack /\ b = L.continue_stack /\ f = L.for_start_stack
  BY LoopsOf
<1>2. [LoopRecord(a, b, c1, d1, f, w1) EXCEPT !.num_of_breaks_stack = c]
        = LoopRecord(a, b, c, d1, f, w1)
  BY DEF LoopRecord
<1>3. [LoopRecord(a, b, c, d1, f, w1) EXCEPT !.num_of_continues_stack = d]
        = LoopRecord(a, b, c, d, f, w1)
  BY DEF LoopRecord
<1>4. [LoopRecord(a, b, c, d, f, w1) EXCEPT !.while_end_label_stack = w]
        = LoopRecord(a, b, c, d, f, w)
  BY DEF LoopRecord
<1>5. [L EXCEPT !.num_of_breaks_stack = c, !.num_of_continues_stack = d,
                !.while_end_label_stack = w]
        = [[[L EXCEPT !.num_of_breaks_stack = c] EXCEPT !.num_of_continues_stack = d]
             EXCEPT !.while_end_label_stack = w]
  BY Zenon
<1>6. QED
  BY <1>1, <1>2, <1>3, <1>4, <1>5, Zenon DEF WithLabel

LEMMA LoopsForFor ==
  ASSUME NEW L \in AnyLoops, NEW c, NEW d
  PROVE  [L EXCEPT !.num_of_breaks_stack = c, !.num_of_continues_stack = d]
           = LoopRecord(L.break_stack, L.continue_stack, c, d, L.for_start_stack,
                        L.while_end_label_stack)
<1>1. PICK a, b, c1, d1, f, w :
        /\ L = LoopRecord(a, b, c1, d1, f, w)
        /\ a = L.break_stack /\ b = L.continue_stack /\ f = L.for_start_stack
        /\ w = L.while_end_label_stack
  BY LoopsOf
<1>2. [LoopRecord(a, b, c1, d1, f, w) EXCEPT !.num_of_breaks_stack = c]
        = LoopRecord(a, b, c, d1, f, w)
  BY DEF LoopRecord
<1>3. [LoopRecord(a, b, c, d1, f, w) EXCEPT !.num_of_continues_stack = d]
        = LoopRecord(a, b, c, d, f, w)
  BY DEF LoopRecord
<1>4. [L EXCEPT !.num_of_breaks_stack = c, !.num_of_continues_stack = d]
        = [[L EXCEPT !.num_of_breaks_stack = c] EXCEPT !.num_of_continues_stack = d]
  BY Zenon
<1>5. QED
  BY <1>1, <1>2, <1>3, <1>4, Zenon

LEMMA LoopsForStep ==
  ASSUME NEW L \in AnyLoops, NEW f
  PROVE  [L EXCEPT !.for_start_stack = f]
           = LoopRecord(L.break_stack, L.continue_stack, L.num_of_breaks_stack,
                        L.num_of_continues_stack, f, L.while_end_label_stack)
<1>1. PICK a, b, c, d, f1, w :
        /\ L = LoopRecord(a, b, c, d, f1, w)
        /\ a = L.break_stack /\ b = L.continue_stack /\ c = L.num_of_breaks_stack
        /\ d = L.num_of_continues_stack /\ w = L.while_end_label_stack
  BY LoopsOf
<1>2. [LoopRecord(a, b, c, d, f1, w) EXCEPT !.for_start_stack = f]
        = LoopRecord(a, b, c, d, f, w)
  BY DEF LoopRecord
<1>3. QED
  BY <1>1, <1>2, Zenon

LEMMA LoopsNow ==
  ASSUME TypeOK
  PROVE  /\ loops \in AnyLoops /\ currQuad \in Nat
         /\ \A q \in Nat : /\ OnTop(Push(loops.while_end_label_stack, q), q,
                                    loops.while_end_label_stack)
                           /\ OnTop(Push(loops.for_start_stack, q), q, loops.for_start_stack)
<1>1. loops \in AnyLoops /\ currQuad \in Nat
  BY NowTyped, TypesOf DEF Now, Stacks, AnyStacks
<1>2. PICK N : N = Nat
  OBVIOUS
<1>3. loops.while_end_label_stack \in Seq(N) /\ loops.for_start_stack \in Seq(N)
  BY <1>1, <1>2, LoopsOf
<1>4. \A q \in N : /\ OnTop(Push(loops.while_end_label_stack, q), q,
                            loops.while_end_label_stack)
                   /\ OnTop(Push(loops.for_start_stack, q), q, loops.for_start_stack)
  BY <1>3, PushedOn
<1>5. QED
  BY <1>1, <1>2, <1>4

LEMMA WhileBodyChained ==
  ASSUME TypeOK, TypeOK', Chained, WhileBody
  PROVE  Chained'
<1> DEFINE y == [kind |-> Innermost.kind, at |-> "body", start |-> Innermost.start,
                 step |-> Innermost.step, jumps |-> Innermost.jumps \cup {<<currQuad + 1, "end">>}]
           t == Push(loops.while_end_label_stack, currQuad + 1)
           L == OneMore(loops, loops.for_start_stack, t)
<1>1. /\ open # <<>> /\ Innermost.kind = "while" /\ Innermost.at = "cond"
      /\ currQuad + 1 \in Nat /\ loops \in AnyLoops
  BY LoopsNow DEF WhileBody, Expecting
<1>2. open' = GoesOn("body", Innermost.start, Innermost.step,
                     Innermost.jumps \cup {<<currQuad + 1, "end">>})
  BY <1>1, TestedAs DEF WhileBody
<1>3. loops' = L
  <2>1. loops' = WithLabel(loops, Push(loops.num_of_breaks_stack, 0),
                           Push(loops.num_of_continues_stack, 0), t)
    BY DEF WhileBody, WithLabel
  <2> HIDE DEF t
  <2>2. QED
    BY <1>1, <2>1, LoopsForWhile DEF OneMore
<1>4. Now' = Stacks(L, function_loop_stack, while_start_label_stack, for_expr_start_stack,
                    if_label_stack, else_label_stack, function_name_stack)
  BY <1>3 DEF WhileBody, Now
<1>5. /\ y.kind = "while" /\ y.at = "body" /\ y.start = Innermost.start
      /\ y.jumps = Innermost.jumps \cup {<<currQuad + 1, "end">>}
  BY <1>1
<1>6. Len(t) > 0 /\ Head(t) = currQuad + 1 /\ Tail(t) = loops.while_end_label_stack
  <2>1. OnTop(t, currQuad + 1, loops.while_end_label_stack)
    BY <1>1, LoopsNow
  <2>2. QED
    BY <2>1 DEF OnTop
<1>7. /\ L.for_start_stack = loops.for_start_stack /\ L.while_end_label_stack = t
      /\ Counted(L) /\ Counts(L) = {}
      /\ Uncounted(L, loops.for_start_stack, loops.while_end_label_stack) = loops
  BY <1>1, OneMoreFacts
<1>8. Goes(Innermost, y, Now, Now')
  <2> SUFFICES ASSUME NEW S \in AnyStacks, Around(S, Innermost, Now)
               PROVE  Around(S, y, Now')
    BY DEF Goes
  <2>1. WhileCond(S, Innermost, Now)
    BY <1>1, AroundIs
  <2> HIDE DEF y, t, L
  <2>2. /\ Len(while_start_label_stack) > 0
        /\ Head(while_start_label_stack) = Innermost.start /\ Innermost.jumps = {}
        /\ S = Stacks(loops, function_loop_stack, Tail(while_start_label_stack),
                      for_expr_start_stack, if_label_stack, else_label_stack,
                      function_name_stack)
    BY <2>1, WhileCondIs DEF Now
  <2>3. y.jumps = {<<Head(t), "end">>} \cup Counts(L)
    BY <1>5, <1>6, <1>7, <2>2
  <2>4. S = Stacks(Uncounted(L, L.for_start_stack, Tail(L.while_end_label_stack)),
                   function_loop_stack, Tail(while_start_label_stack),
                   for_expr_start_stack, if_label_stack, else_label_stack,
                   function_name_stack)
    BY <1>6, <1>7, <2>2
  <2>5. WhileIn(S, y, Stacks(L, function_loop_stack, while_start_label_stack,
                   for_expr_start_stack, if_label_stack, else_label_stack,
                   function_name_stack))
    BY <1>5, <1>6, <1>7, <2>2, <2>3, <2>4, WhileInIs
  <2>6. QED
    BY <1>4, <1>5, <2>5, AroundIs
<1> HIDE DEF L
<1>9. QED
  BY <1>1, <1>2, <1>8, ChainedGoes

LEMMA ForCondChained ==
  ASSUME TypeOK, TypeOK', Chained, ForCond
  PROVE  Chained'
<1> DEFINE y == [kind |-> Innermost.kind, at |-> "cond", start |-> currQuad,
                 step |-> Innermost.step, jumps |-> Innermost.jumps]
           t == Push(for_expr_start_stack, currQuad)
           L == OneMore(loops, loops.for_start_stack, loops.while_end_label_stack)
<1>1. /\ open # <<>> /\ Innermost.kind = "for" /\ Innermost.at = "init"
      /\ currQuad \in Nat /\ loops \in AnyLoops
  BY LoopsNow DEF ForCond, Expecting
<1>2. open' = GoesOn("cond", currQuad, Innermost.step, Innermost.jumps)
  BY CondForm
<1>3. loops' = L
  <2>1. loops' = [loops EXCEPT !.num_of_breaks_stack = Push(loops.num_of_breaks_stack, 0),
                               !.num_of_continues_stack = Push(loops.num_of_continues_stack, 0)]
    BY DEF ForCond
  <2>2. PICK R, c, d : /\ R = loops /\ c = Push(loops.num_of_breaks_stack, 0)
                       /\ d = Push(loops.num_of_continues_stack, 0)
    OBVIOUS
  <2>3. R \in AnyLoops
    BY <1>1, <2>2
  <2>4. [R EXCEPT !.num_of_breaks_stack = c, !.num_of_continues_stack = d]
          = LoopRecord(R.break_stack, R.continue_stack, c, d, R.for_start_stack,
                       R.while_end_label_stack)
    BY <2>3, LoopsForFor, Zenon
  <2>5. loops' = [R EXCEPT !.num_of_breaks_stack = c, !.num_of_continues_stack = d]
    BY <2>1, <2>2, Zenon
  <2>6. QED
    BY <2>2, <2>4, <2>5 DEF OneMore
<1>4. Now' = Stacks(L, function_loop_stack, while_start_label_stack, t,
                    if_label_stack, else_label_stack, function_name_stack)
  BY <1>3 DEF ForCond, Now
<1>5. /\ y.kind = "for" /\ y.at = "cond" /\ y.start = currQuad
      /\ y.jumps = Innermost.jumps
  BY <1>1
<1>6. Len(t) > 0 /\ Head(t) = currQuad /\ Tail(t) = for_expr_start_stack
  <2>1. OnTop(t, currQuad, for_expr_start_stack)
    BY <1>1, LabelsPushed
  <2>2. QED
    BY <2>1 DEF OnTop
<1>7. /\ L.for_start_stack = loops.for_start_stack
      /\ L.while_end_label_stack = loops.while_end_label_stack
      /\ Counted(L) /\ NoneCounted(L)
      /\ Uncounted(L, loops.for_start_stack, loops.while_end_label_stack) = loops
  BY <1>1, OneMoreFacts
<1>8. Goes(Innermost, y, Now, Now')
  <2> SUFFICES ASSUME NEW S \in AnyStacks, Around(S, Innermost, Now)
               PROVE  Around(S, y, Now')
    BY DEF Goes
  <2>1. ForInit(S, Innermost, Now)
    BY <1>1, AroundIs
  <2> HIDE DEF y, t, L
  <2>2. Innermost.jumps = {} /\ S = Now
    BY <2>1 DEF ForInit
  <2>3. S = Stacks(Uncounted(L, L.for_start_stack, L.while_end_label_stack),
                   function_loop_stack, while_start_label_stack, Tail(t),
                   if_label_stack, else_label_stack, function_name_stack)
    BY <1>6, <1>7, <2>2 DEF Now
  <2>4. ForTest(S, y, Stacks(L, function_loop_stack, while_start_label_stack, t,
                   if_label_stack, else_label_stack, function_name_stack))
    BY <1>5, <1>6, <1>7, <2>2, <2>3, ForTestIs
  <2>5. QED
    BY <1>4, <1>5, <2>4, AroundIs
<1> HIDE DEF L
<1>9. QED
  BY <1>1, <1>2, <1>8, ChainedGoes

LEMMA ForStepChained ==
  ASSUME TypeOK, TypeOK', Chained, ForStep
  PROVE  Chained'
<1> DEFINE y == [kind |-> Innermost.kind, at |-> "step", start |-> Innermost.start,
                 step |-> currQuad + 2,
                 jumps |-> {<<currQuad, "body">>, <<currQuad + 1, "end">>}]
           t == Push(loops.for_start_stack, currQuad)
           L == LoopRecord(loops.break_stack, loops.continue_stack,
                           loops.num_of_breaks_stack, loops.num_of_continues_stack,
                           t, loops.while_end_label_stack)
<1>1. /\ open # <<>> /\ Innermost.kind = "for" /\ Innermost.at = "cond"
      /\ currQuad \in Nat /\ loops \in AnyLoops
  BY LoopsNow DEF ForStep, Expecting
<1>2. open' = GoesOn("step", Innermost.start, currQuad + 2,
                     {<<currQuad, "body">>, <<currQuad + 1, "end">>})
  BY StepForm
<1>3. loops' = L
  <2>1. loops' = [loops EXCEPT !.for_start_stack = t]
    BY DEF ForStep
  <2> HIDE DEF t
  <2>2. PICK R, f : R = loops /\ f = t
    OBVIOUS
  <2>3. R \in AnyLoops
    BY <1>1, <2>2
  <2>4. [R EXCEPT !.for_start_stack = f]
          = LoopRecord(R.break_stack, R.continue_stack, R.num_of_breaks_stack,
                       R.num_of_continues_stack, f, R.while_end_label_stack)
    BY <2>3, LoopsForStep, Zenon
  <2>5. loops' = [R EXCEPT !.for_start_stack = f]
    BY <2>1, <2>2, Zenon
  <2>6. QED
    BY <2>2, <2>4, <2>5
<1>4. Now' = Stacks(L, function_loop_stack, while_start_label_stack, for_expr_start_stack,
                    if_label_stack, else_label_stack, function_name_stack)
  BY <1>3 DEF ForStep, Now
<1>5. /\ y.kind = "for" /\ y.at = "step" /\ y.start = Innermost.start
      /\ y.step = currQuad + 2
      /\ y.jumps = {<<currQuad, "body">>, <<currQuad + 1, "end">>}
  BY <1>1
<1>6. Len(t) > 0 /\ Head(t) = currQuad /\ Tail(t) = loops.for_start_stack
  <2>1. OnTop(t, currQuad, loops.for_start_stack)
    BY <1>1, LoopsNow
  <2>2. QED
    BY <2>1 DEF OnTop
<1>7. /\ L.break_stack = loops.break_stack /\ L.continue_stack = loops.continue_stack
      /\ L.num_of_breaks_stack = loops.num_of_breaks_stack
      /\ L.num_of_continues_stack = loops.num_of_continues_stack
      /\ L.for_start_stack = t /\ L.while_end_label_stack = loops.while_end_label_stack
  BY DEF LoopRecord
<1>8. Goes(Innermost, y, Now, Now')
  <2> SUFFICES ASSUME NEW S \in AnyStacks, Around(S, Innermost, Now)
               PROVE  Around(S, y, Now')
    BY DEF Goes
  <2>1. ForTest(S, Innermost, Now)
    BY <1>1, AroundIs
  <2> HIDE DEF y, t, L
  <2>2. /\ Len(for_expr_start_stack) > 0
        /\ Head(for_expr_start_stack) = Innermost.start
        /\ Counted(loops) /\ NoneCounted(loops)
        /\ S = Stacks(Uncounted(loops, loops.for_start_stack, loops.while_end_label_stack),
                      function_loop_stack, while_start_label_stack,
                      Tail(for_expr_start_stack), if_label_stack, else_label_stack,
                      function_name_stack)
    BY <2>1, ForTestIs DEF Now
  <2>3. Counted(L) /\ NoneCounted(L)
    BY <1>7, <2>2 DEF Counted, NoneCounted
  <2>4. Uncounted(L, Tail(L.for_start_stack), L.while_end_label_stack)
          = Uncounted(loops, loops.for_start_stack, loops.while_end_label_stack)
    BY <1>6, <1>7 DEF Uncounted
  <2>5. ForLater(S, y, Stacks(L, function_loop_stack, while_start_label_stack,
                   for_expr_start_stack, if_label_stack, else_label_stack,
                   function_name_stack))
    BY <1>5, <1>6, <1>7, <2>2, <2>3, <2>4, ForLaterIs
  <2>6. ForNext(S, y, Stacks(L, function_loop_stack, while_start_label_stack,
                   for_expr_start_stack, if_label_stack, else_label_stack,
                   function_name_stack))
    BY <1>5, <1>6, <1>7, <2>3, <2>5, ForNextIs
  <2>7. QED
    BY <1>4, <1>5, <2>6, AroundIs
<1> HIDE DEF L
<1>9. QED
  BY <1>1, <1>2, <1>8, ChainedGoes

LEMMA ForBodyChained ==
  ASSUME TypeOK, TypeOK', Chained, ForBody
  PROVE  Chained'
<1> DEFINE y == [kind |-> Innermost.kind, at |-> "body", start |-> Innermost.start,
                 step |-> Innermost.step, jumps |-> {p \in Innermost.jumps : p[2] # "body"}]
           s == Head(loops.for_start_stack)
<1>1. /\ open # <<>> /\ Innermost.kind = "for" /\ Innermost.at = "step"
  BY DEF ForBody, StepDone, Expecting
<1>2. open' = GoesOn("body", Innermost.start, Innermost.step,
                     {p \in Innermost.jumps : p[2] # "body"})
  BY BodyForm
<1>3. Now' = Now
  BY DEF ForBody, StepDone, Now, stacks
<1>4. /\ y.kind = "for" /\ y.at = "body" /\ y.start = Innermost.start
      /\ y.step = Innermost.step
      /\ y.jumps = {p \in Innermost.jumps : p[2] # "body"}
  BY <1>1
<1>5. Goes(Innermost, y, Now, Now')
  <2> SUFFICES ASSUME NEW S \in AnyStacks, Around(S, Innermost, Now)
               PROVE  Around(S, y, Now)
    BY <1>3 DEF Goes
  <2>1. ForNext(S, Innermost, Now)
    BY <1>1, AroundIs
  <2> HIDE DEF y
  <2>2. /\ ForLater(S, Innermost, Now) /\ NoneCounted(loops)
        /\ Innermost.jumps = {<<s, "body">>, <<s + 1, "end">>}
    BY <2>1, ForNextIs DEF Now
  <2>3. y.jumps = {<<s + 1, "end">>}
    <3> HIDE DEF s
    <3>1. <<s, "body">>[2] = "body" /\ <<s + 1, "end">>[2] = "end" /\ "end" # "body"
      OBVIOUS
    <3>2. \A p : p \in y.jumps <=> p = <<s + 1, "end">>
      BY <1>4, <2>2, <3>1
    <3>3. QED
      BY <3>2
  <2>4. Counts(loops) = {}
    <3>1. \A i : i \notin 1 .. 0
      OBVIOUS
    <3>2. QED
      BY <2>2, <3>1 DEF NoneCounted, Counts, First
  <2>5. ForLater(S, y, Now)
    BY <1>4, <2>2 DEF ForLater
  <2>6. ForIn(S, y, Now)
    BY <2>3, <2>4, <2>5, ForInIs DEF Now
  <2>7. QED
    BY <1>4, <2>6, AroundIs
<1>6. QED
  BY <1>1, <1>2, <1>5, ChainedGoes

-----------------------------------------------------------------------------
LEMMA FuncEndChained ==
  ASSUME OpensInv, Chained, FuncEnd
  PROVE  Chained'
<1>1. /\ TypeOK /\ open # <<>> /\ Innermost.kind = "function" /\ Innermost.at = "body"
      /\ open' = Tail(open)
  BY DEF OpensInv, FuncEnd, Expecting
<1>2. Now' = Stacks(Head(function_loop_stack), Tail(function_loop_stack),
                    while_start_label_stack, for_expr_start_stack, if_label_stack,
                    else_label_stack, Tail(function_name_stack))
  BY DEF FuncEnd, Now
<1>3. ASSUME NEW S \in AnyStacks, Around(S, Innermost, Now) PROVE S = Now'
  <2>1. InFunction(S, Innermost, Now)
    BY <1>1, <1>3, AroundIs
  <2>2. QED
    BY <1>2, <2>1, InFunctionIs DEF Now
<1>4. Ends(Innermost, Now, Now')
  BY <1>3 DEF Ends
<1>5. QED
  BY <1>1, <1>4, ChainedEnds

LEMMA IfEndChained ==
  ASSUME OpensInv, Chained, IfEnd
  PROVE  Chained'
<1>1. /\ TypeOK /\ open # <<>> /\ Innermost.kind = "if" /\ open' = Tail(open)
      /\ Innermost.at = "body" \/ Innermost.at = "else"
  BY DEF OpensInv, IfEnd, Expecting
<1>2. ASSUME NEW S \in AnyStacks, Around(S, Innermost, Now) PROVE S = Now'
  <2>1. CASE Innermost.at = "body"
    <3>1. Now' = Stacks(loops, function_loop_stack, while_start_label_stack,
                        for_expr_start_stack, Tail(if_label_stack), else_label_stack,
                        function_name_stack)
      BY <2>1, IfEndForms DEF IfEnd, Now
    <3>2. IfBody(S, Innermost, Now)
      BY <1>1, <1>2, <2>1, AroundIs
    <3>3. QED
      BY <3>1, <3>2, IfBodyIs DEF Now
  <2>2. CASE Innermost.at = "else"
    <3>1. Now' = Stacks(loops, function_loop_stack, while_start_label_stack,
                        for_expr_start_stack, Tail(if_label_stack), Tail(else_label_stack),
                        function_name_stack)
      BY <2>2, IfEndForms DEF IfEnd, Now
    <3>2. IfOther(S, Innermost, Now)
      BY <1>1, <1>2, <2>2, AroundIs
    <3>3. QED
      BY <3>1, <3>2, IfOtherIs DEF Now
  <2>3. QED
    BY <1>1, <2>1, <2>2
<1>3. Ends(Innermost, Now, Now')
  BY <1>2 DEF Ends
<1>4. QED
  BY <1>1, <1>3, ChainedEnds

(* The end of a loop takes back what this loop has counted. *)
LEMMA CountsPoppedIs ==
  ASSUME TypeOK, Counted(loops)
  PROVE  /\ Breaks = Head(loops.num_of_breaks_stack)
         /\ Continues = Head(loops.num_of_continues_stack)
         /\ CountsPopped = Uncounted(loops, loops.for_start_stack, loops.while_end_label_stack)
<1>1. /\ Len(loops.num_of_breaks_stack) > 0 /\ Len(loops.num_of_continues_stack) > 0
      /\ Head(loops.num_of_breaks_stack) <= Len(loops.break_stack)
      /\ Head(loops.num_of_continues_stack) <= Len(loops.continue_stack)
  BY DEF Counted
<1>2. /\ Breaks = Head(loops.num_of_breaks_stack)
      /\ Continues = Head(loops.num_of_continues_stack)
  BY <1>1, BreaksFacts
<1>3. CountsPopped = LoopRecord(Drop(loops.break_stack, Breaks),
                                Drop(loops.continue_stack, Continues),
                                Tail(loops.num_of_breaks_stack),
                                Tail(loops.num_of_continues_stack),
                                loops.for_start_stack, loops.while_end_label_stack)
  <2>1. currQuad \in Nat /\ currQuad <= currQuad
    BY TypesOf
  <2>2. QED
    BY <1>1, <2>1, CountsPoppedTyped DEF LoopRecord
<1>4. QED
  BY <1>2, <1>3 DEF Uncounted

(* The label of this loop is taken away, too. *)
WithoutLabel(L) == [L EXCEPT !.while_end_label_stack = Tail(L.while_end_label_stack)]
WithoutStart(L) == [L EXCEPT !.for_start_stack = Tail(L.for_start_stack)]

LEMMA UncountedTailed ==
  ASSUME NEW L, NEW f, NEW w
  PROVE  /\ WithoutLabel(Uncounted(L, f, w)) = Uncounted(L, f, Tail(w))
         /\ WithoutStart(Uncounted(L, f, w)) = Uncounted(L, Tail(f), w)
<1>1. PICK a, b, c, d :
        /\ a = Drop(L.break_stack, Head(L.num_of_breaks_stack))
        /\ b = Drop(L.continue_stack, Head(L.num_of_continues_stack))
        /\ c = Tail(L.num_of_breaks_stack) /\ d = Tail(L.num_of_continues_stack)
  OBVIOUS
<1>2. \A g, v : Uncounted(L, g, v) = LoopRecord(a, b, c, d, g, v)
  BY <1>1 DEF Uncounted
<1>3. PICK T : T = LoopRecord(a, b, c, d, f, w)
  OBVIOUS
<1>4. T.while_end_label_stack = w /\ T.for_start_stack = f
  BY <1>3 DEF LoopRecord
<1>5. /\ WithoutLabel(T) = LoopRecord(a, b, c, d, f, Tail(w))
      /\ WithoutStart(T) = LoopRecord(a, b, c, d, Tail(f), w)
  <2>1. PICK v, g : v = Tail(w) /\ g = Tail(f)
    OBVIOUS
  <2>2. [LoopRecord(a, b, c, d, f, w) EXCEPT !.while_end_label_stack = v]
          = LoopRecord(a, b, c, d, f, v)
    BY DEF LoopRecord
  <2>3. [LoopRecord(a, b, c, d, f, w) EXCEPT !.for_start_stack = g]
          = LoopRecord(a, b, c, d, g, w)
    BY DEF LoopRecord
  <2>4. WithoutLabel(T) = [T EXCEPT !.while_end_label_stack = v]
    BY <1>4, <2>1, Zenon DEF WithoutLabel
  <2>5. WithoutStart(T) = [T EXCEPT !.for_start_stack = g]
    BY <1>4, <2>1, Zenon DEF WithoutStart
  <2>6. QED
    BY <1>3, <2>1, <2>2, <2>3, <2>4, <2>5, Zenon
<1>6. QED
  BY <1>2, <1>3, <1>5

LEMMA WhileEndChained ==
  ASSUME OpensInv, Chained, WhileEnd
  PROVE  Chained'
<1>1. /\ TypeOK /\ open # <<>> /\ Innermost.kind = "while" /\ Innermost.at = "body"
      /\ open' = Tail(open)
  BY DEF OpensInv, WhileEnd, Expecting
<1>2. Now' = Stacks(loops', function_loop_stack, Tail(while_start_label_stack),
                    for_expr_start_stack, if_label_stack, else_label_stack,
                    function_name_stack)
  BY DEF WhileEnd, Now
<1>3. ASSUME NEW S \in AnyStacks, Around(S, Innermost, Now) PROVE S = Now'
  <2>1. WhileIn(S, Innermost, Now)
    BY <1>1, <1>3, AroundIs
  <2>2. /\ Counted(loops)
        /\ S = Stacks(Uncounted(loops, loops.for_start_stack,
                                Tail(loops.while_end_label_stack)),
                      function_loop_stack, Tail(while_start_label_stack),
                      for_expr_start_stack, if_label_stack, else_label_stack,
                      function_name_stack)
    BY <2>1, WhileInIs DEF Now
  <2>3. loops' = Uncounted(loops, loops.for_start_stack, Tail(loops.while_end_label_stack))
    <3>1. loops' = WithoutLabel(CountsPopped)
      BY DEF WhileEnd, WithoutLabel
    <3>2. CountsPopped = Uncounted(loops, loops.for_start_stack, loops.while_end_label_stack)
      BY <1>1, <2>2, CountsPoppedIs
    <3>3. QED
      BY <3>1, <3>2, UncountedTailed
  <2>4. QED
    BY <1>2, <2>2, <2>3
<1>4. Ends(Innermost, Now, Now')
  BY <1>3 DEF Ends
<1>5. QED
  BY <1>1, <1>4, ChainedEnds

LEMMA ForEndChained ==
  ASSUME OpensInv, Chained, ForEnd
  PROVE  Chained'
<1>1. /\ TypeOK /\ open # <<>> /\ Innermost.kind = "for" /\ Innermost.at = "body"
      /\ open' = Tail(open)
  BY DEF OpensInv, ForEnd, Expecting
<1>2. Now' = Stacks(loops', function_loop_stack, while_start_label_stack,
                    Tail(for_expr_start_stack), if_label_stack, else_label_stack,
                    function_name_stack)
  BY DEF ForEnd, Now
<1>3. ASSUME NEW S \in AnyStacks, Around(S, Innermost, Now) PROVE S = Now'
  <2>1. ForIn(S, Innermost, Now)
    BY <1>1, <1>3, AroundIs
  <2>2. ForLater(S, Innermost, Now)
    BY <2>1 DEF ForIn
  <2>3. /\ Counted(loops)
        /\ S = Stacks(Uncounted(loops, Tail(loops.for_start_stack),
                                loops.while_end_label_stack),
                      function_loop_stack, while_start_label_stack,
                      Tail(for_expr_start_stack), if_label_stack, else_label_stack,
                      function_name_stack)
    BY <2>2, ForLaterIs DEF Now
  <2>4. loops' = Uncounted(loops, Tail(loops.for_start_stack), loops.while_end_label_stack)
    <3>1. loops' = WithoutStart(CountsPopped)
      BY DEF ForEnd, WithoutStart
    <3>2. CountsPopped = Uncounted(loops, loops.for_start_stack, loops.while_end_label_stack)
      BY <1>1, <2>3, CountsPoppedIs
    <3>3. QED
      BY <3>1, <3>2, UncountedTailed
  <2>5. QED
    BY <1>2, <2>3, <2>4
<1>4. Ends(Innermost, Now, Now')
  BY <1>3 DEF Ends
<1>5. QED
  BY <1>1, <1>4, ChainedEnds

(* Nothing begins or ends. *)
LEMMA EmitsChained ==
  ASSUME Chained, Expression \/ Logic \/ Relop \/ Call \/ Return
  PROVE  Chained'
<1>1. UNCHANGED <<open, stacks>>
  BY DEF Expression, Logic, Relop, Call, Return, Expr, Emit
<1>2. QED
  BY <1>1, ChainedStays

-----------------------------------------------------------------------------
(* break and continue: the statements between a jump and its loop are ifs, *)
(* which have put nothing on the stacks of the loop.                       *)

LEMMA LeastNumber ==
  ASSUME NEW T \in SUBSET Nat, T # {}
  PROVE  \E x \in T : \A y \in T : x <= y
<1> DEFINE R == OpToRel(<, Nat)
<1>1. R = {p \in Nat \X Nat : p[1] < p[2]}
  BY Zenon DEF OpToRel
<1>2. PICK x \in T : \A y \in T : ~ (<<y, x>> \in R)
  BY NatLessThanWellFounded, WFMin
<1> HIDE DEF R
<1>3. ASSUME NEW y \in T PROVE x <= y
  <2>1. <<y, x>> \notin R /\ <<y, x>> \in Nat \X Nat
    BY <1>2
  <2>2. ~(y < x)
    BY <1>1, <2>1
  <2>3. QED
    BY <2>2
<1>4. QED
  BY <1>3

(* T is L with the jump q to where counted. *)
CountsMore(L, T, q, where) ==
  /\ T \in AnyLoops /\ Counted(T) /\ Counts(T) = Counts(L) \cup {<<q, where>>}
  /\ \A f, w : Uncounted(T, f, w) = Uncounted(L, f, w)
  /\ T.for_start_stack = L.for_start_stack
  /\ T.while_end_label_stack = L.while_end_label_stack

LEMMA FirstPushed ==
  ASSUME NEW s \in Seq(Nat), NEW q \in Nat, NEW h \in 0 .. Len(s), NEW where
  PROVE  First(Push(s, q), h + 1, where) = First(s, h, where) \cup {<<q, where>>}
<1>1. /\ Push(s, q) \in Seq(Nat) /\ Push(s, q)[1] = q /\ Len(s) \in Nat
      /\ \A i \in 1 .. Len(s) : Push(s, q)[i + 1] = s[i]
  <2>1. PICK N : N = Nat
    OBVIOUS
  <2>2. s \in Seq(N) /\ q \in N
    BY <2>1
  <2>3. /\ Push(s, q) \in Seq(N) /\ Push(s, q)[1] = q
        /\ \A i \in 1 .. Len(s) : Push(s, q)[i + 1] = s[i]
    BY <2>2, PushFacts
  <2>4. QED
    BY <2>1, <2>3
<1>2. PICK t : t = Push(s, q)
  OBVIOUS
<1>3. \A i \in 1 .. h : /\ i \in 1 .. Len(s) /\ i + 1 \in 1 .. h + 1 /\ t[i + 1] = s[i]
  BY <1>1, <1>2
<1>4. \A i \in 1 .. h + 1 : i = 1 \/ (i - 1 \in 1 .. h /\ t[i] = s[i - 1])
  <2>1. SUFFICES ASSUME NEW i \in 1 .. h + 1, i # 1 PROVE i - 1 \in 1 .. h /\ t[i] = s[i - 1]
    OBVIOUS
  <2>2. i - 1 \in 1 .. h /\ (i - 1) + 1 = i
    BY <2>1
  <2>3. QED
    BY <1>3, <2>2
<1>5. First(t, h + 1, where) \subseteq First(s, h, where) \cup {<<q, where>>}
  <2>1. ASSUME NEW i \in 1 .. h + 1
        PROVE  <<t[i], where>> \in First(s, h, where) \cup {<<q, where>>}
    <3>1. CASE i = 1
      BY <1>1, <1>2, <3>1
    <3>2. CASE i # 1
      <4>1. i - 1 \in 1 .. h /\ t[i] = s[i - 1]
        BY <1>4, <3>2
      <4>2. <<s[i - 1], where>> \in First(s, h, where)
        BY <4>1 DEF First
      <4>3. QED
        BY <4>1, <4>2
    <3>3. QED
      BY <3>1, <3>2
  <2>2. QED
    BY <2>1 DEF First
<1>6. <<q, where>> \in First(t, h + 1, where)
  <2>1. 1 \in 1 .. h + 1 /\ t[1] = q
    BY <1>1, <1>2
  <2>2. QED
    BY <2>1 DEF First
<1>7. First(s, h, where) \subseteq First(t, h + 1, where)
  BY <1>3 DEF First
<1>8. QED
  BY <1>2, <1>5, <1>6, <1>7

LEMMA BreakCounts ==
  ASSUME NEW L \in AnyLoops, Counted(L), NEW q \in Nat
  PROVE  CountsMore(L, LoopRecord(Push(L.break_stack, q), L.continue_stack,
                                Increment(L.num_of_breaks_stack),
                                L.num_of_continues_stack, L.for_start_stack,
                                L.while_end_label_stack), q, "end")
<1>1. PICK a, b, c, d, f, w :
        /\ a = L.break_stack /\ b = L.continue_stack /\ c = L.num_of_breaks_stack
        /\ d = L.num_of_continues_stack /\ f = L.for_start_stack
        /\ w = L.while_end_label_stack
  OBVIOUS
<1>2. /\ a \in Seq(Nat) /\ b \in Seq(Nat) /\ c \in Seq(Nat) /\ d \in Seq(Nat)
      /\ f \in Seq(Nat) /\ w \in Seq(Nat)
  BY <1>1, LoopsOf
<1>3. /\ Len(c) > 0 /\ Len(d) > 0 /\ Head(c) <= Len(a) /\ Head(d) <= Len(b)
  BY <1>1 DEF Counted
<1>4. Head(c) \in 0 .. Len(a) /\ Len(a) \in Nat
  <2>1. Head(c) \in Nat /\ Len(a) \in Nat
    BY <1>2, <1>3
  <2>2. QED
    BY <1>3, <2>1
<1>5. PICK h \in 0 .. Len(a) : h = Head(c)
  BY <1>4
<1>6. PICK i : i = Increment(c)
  OBVIOUS
<1>7. i \in Seq(Nat) /\ Len(i) > 0 /\ Head(i) = h + 1 /\ Tail(i) = Tail(c)
  BY <1>2, <1>3, <1>5, <1>6, IncrementFacts
<1>8. PICK p : p = Push(a, q)
  OBVIOUS
<1>9. /\ p \in Seq(Nat) /\ Len(p) = Len(a) + 1
      /\ Drop(p, h + 1) = Drop(a, h)
      /\ First(p, h + 1, "end") = First(a, h, "end") \cup {<<q, "end">>}
  <2>1. PICK N : N = Nat
    OBVIOUS
  <2>2. p \in Seq(N) /\ Len(p) = Len(a) + 1
    BY <1>2, <1>8, <2>1, PushFacts
  <2>3. Drop(p, h + 1) = Drop(a, h)
    BY <1>2, <1>8, DropPushed
  <2>4. First(p, h + 1, "end") = First(a, h, "end") \cup {<<q, "end">>}
    <3>1. PICK e : e = "end"
      OBVIOUS
    <3>2. First(Push(a, q), h + 1, e) = First(a, h, e) \cup {<<q, e>>}
      BY <1>2, FirstPushed
    <3>3. QED
      BY <1>8, <3>1, <3>2
  <2>5. QED
    BY <2>1, <2>2, <2>3, <2>4
<1>10. PICK T : T = LoopRecord(p, b, i, d, f, w)
  OBVIOUS
<1>11. /\ T.break_stack = p /\ T.continue_stack = b /\ T.num_of_breaks_stack = i
       /\ T.num_of_continues_stack = d /\ T.for_start_stack = f
       /\ T.while_end_label_stack = w
  BY <1>10, LoopsAre
<1>12. T \in AnyLoops
  BY <1>2, <1>7, <1>9, <1>10 DEF AnyLoops, LoopRecord
<1>13. Counted(T)
  BY <1>3, <1>4, <1>7, <1>9, <1>11 DEF Counted
<1>14. Counts(T) = Counts(L) \cup {<<q, "end">>}
  BY <1>1, <1>5, <1>7, <1>9, <1>11 DEF Counts
<1>15. \A f1, w1 : Uncounted(T, f1, w1) = Uncounted(L, f1, w1)
  BY <1>1, <1>5, <1>7, <1>9, <1>11 DEF Uncounted
<1>16. CountsMore(L, T, q, "end")
  BY <1>1, <1>11, <1>12, <1>13, <1>14, <1>15 DEF CountsMore
<1>17. QED
  BY <1>1, <1>6, <1>8, <1>10, <1>16

LEMMA ContinueCounts ==
  ASSUME NEW L \in AnyLoops, Counted(L), NEW q \in Nat
  PROVE  CountsMore(L, LoopRecord(L.break_stack, Push(L.continue_stack, q),
                                L.num_of_breaks_stack,
                                Increment(L.num_of_continues_stack), L.for_start_stack,
                                L.while_end_label_stack), q, "start")
<1>1. PICK a, b, c, d, f, w :
        /\ a = L.break_stack /\ b = L.continue_stack /\ c = L.num_of_breaks_stack
        /\ d = L.num_of_continues_stack /\ f = L.for_start_stack
        /\ w = L.while_end_label_stack
  OBVIOUS
<1>2. /\ a \in Seq(Nat) /\ b \in Seq(Nat) /\ c \in Seq(Nat) /\ d \in Seq(Nat)
      /\ f \in Seq(Nat) /\ w \in Seq(Nat)
  BY <1>1, LoopsOf
<1>3. /\ Len(c) > 0 /\ Len(d) > 0 /\ Head(c) <= Len(a) /\ Head(d) <= Len(b)
  BY <1>1 DEF Counted
<1>4. Head(d) \in 0 .. Len(b) /\ Len(b) \in Nat
  <2>1. Head(d) \in Nat /\ Len(b) \in Nat
    BY <1>2, <1>3
  <2>2. QED
    BY <1>3, <2>1
<1>5. PICK h \in 0 .. Len(b) : h = Head(d)
  BY <1>4
<1>6. PICK i : i = Increment(d)
  OBVIOUS
<1>7. i \in Seq(Nat) /\ Len(i) > 0 /\ Head(i) = h + 1 /\ Tail(i) = Tail(d)
  BY <1>2, <1>3, <1>5, <1>6, IncrementFacts
<1>8. PICK p : p = Push(b, q)
  OBVIOUS
<1>9. /\ p \in Seq(Nat) /\ Len(p) = Len(b) + 1
      /\ Drop(p, h + 1) = Drop(b, h)
      /\ First(p, h + 1, "start") = First(b, h, "start") \cup {<<q, "start">>}
  <2>1. PICK N : N = Nat
    OBVIOUS
  <2>2. p \in Seq(N) /\ Len(p) = Len(b) + 1
    BY <1>2, <1>8, <2>1, PushFacts
  <2>3. Drop(p, h + 1) = Drop(b, h)
    BY <1>2, <1>8, DropPushed
  <2>4. First(p, h + 1, "start") = First(b, h, "start") \cup {<<q, "start">>}
    <3>1. PICK e : e = "start"
      OBVIOUS
    <3>2. First(Push(b, q), h + 1, e) = First(b, h, e) \cup {<<q, e>>}
      BY <1>2, FirstPushed
    <3>3. QED
      BY <1>8, <3>1, <3>2
  <2>5. QED
    BY <2>1, <2>2, <2>3, <2>4
<1>10. PICK T : T = LoopRecord(a, p, c, i, f, w)
  OBVIOUS
<1>11. /\ T.break_stack = a /\ T.continue_stack = p /\ T.num_of_breaks_stack = c
       /\ T.num_of_continues_stack = i /\ T.for_start_stack = f
       /\ T.while_end_label_stack = w
  BY <1>10, LoopsAre
<1>12. T \in AnyLoops
  BY <1>2, <1>7, <1>9, <1>10 DEF AnyLoops, LoopRecord
<1>13. Counted(T)
  BY <1>3, <1>4, <1>7, <1>9, <1>11 DEF Counted
<1>14. Counts(T) = Counts(L) \cup {<<q, "start">>}
  BY <1>1, <1>5, <1>7, <1>9, <1>11 DEF Counts
<1>15. \A f1, w1 : Uncounted(T, f1, w1) = Uncounted(L, f1, w1)
  BY <1>1, <1>5, <1>7, <1>9, <1>11 DEF Uncounted
<1>16. CountsMore(L, T, q, "start")
  BY <1>1, <1>11, <1>12, <1>13, <1>14, <1>15 DEF CountsMore
<1>17. QED
  BY <1>1, <1>6, <1>8, <1>10, <1>16

(* S with other loops. *)
WithLoops(S, T) == Stacks(T, S.saved, S.whiles, S.fors, S.ifs, S.elses, S.names)

LEMMA WithLoopsTyped ==
  ASSUME NEW S \in AnyStacks, NEW T \in AnyLoops
  PROVE  WithLoops(S, T) \in AnyStacks
BY DEF WithLoops, Stacks, AnyStacks

LEMMA AroundIf ==
  ASSUME NEW S, NEW x, NEW R, x.kind = "if", Around(S, x, R)
  PROVE  S.loops = R.loops /\ \A T : Around(WithLoops(S, T), x, WithLoops(R, T))
<1>1. \/ x.at = "cond" /\ IfCond(S, x, R)
      \/ x.at = "body" /\ IfBody(S, x, R)
      \/ x.at = "else" /\ IfOther(S, x, R)
  BY DEF Around
<1>2. CASE x.at = "cond" /\ IfCond(S, x, R)
  <2>1. S = R /\ x.jumps = {}
    BY <1>2 DEF IfCond
  <2>2. ASSUME NEW T PROVE Around(WithLoops(S, T), x, WithLoops(R, T))
    BY <1>2, <2>1, AroundIs DEF IfCond
  <2>3. QED
    BY <2>1, <2>2
<1>3. CASE x.at = "body" /\ IfBody(S, x, R)
  <2>1. /\ Len(R.ifs) > 0 /\ x.jumps = {<<Head(R.ifs), "else">>}
        /\ S = Stacks(R.loops, R.saved, R.whiles, R.fors, Tail(R.ifs), R.elses, R.names)
    BY <1>3 DEF IfBody
  <2>2. /\ S.loops = R.loops /\ S.saved = R.saved /\ S.whiles = R.whiles
        /\ S.fors = R.fors /\ S.ifs = Tail(R.ifs) /\ S.elses = R.elses /\ S.names = R.names
    BY <2>1, StacksAre
  <2>3. ASSUME NEW T PROVE IfBody(WithLoops(S, T), x, WithLoops(R, T))
    BY <2>1, <2>2, IfBodyIs DEF WithLoops
  <2>4. ASSUME NEW T PROVE Around(WithLoops(S, T), x, WithLoops(R, T))
    BY <1>3, <2>3, AroundIs
  <2>5. QED
    BY <2>2, <2>4
<1>4. CASE x.at = "else" /\ IfOther(S, x, R)
  <2>1. /\ Len(R.ifs) > 0 /\ Len(R.elses) > 0 /\ x.step = Head(R.elses) + 1
        /\ x.jumps = {<<Head(R.ifs), "else">>, <<Head(R.elses), "end">>}
        /\ S = Stacks(R.loops, R.saved, R.whiles, R.fors, Tail(R.ifs), Tail(R.elses), R.names)
    BY <1>4 DEF IfOther
  <2>2. /\ S.loops = R.loops /\ S.saved = R.saved /\ S.whiles = R.whiles
        /\ S.fors = R.fors /\ S.ifs = Tail(R.ifs) /\ S.elses = Tail(R.elses)
        /\ S.names = R.names
    BY <2>1, StacksAre
  <2>3. ASSUME NEW T PROVE IfOther(WithLoops(S, T), x, WithLoops(R, T))
    BY <2>1, <2>2, IfOtherIs DEF WithLoops
  <2>4. ASSUME NEW T PROVE Around(WithLoops(S, T), x, WithLoops(R, T))
    BY <1>4, <2>3, AroundIs
  <2>5. QED
    BY <2>2, <2>4
<1>5. QED
  BY <1>1, <1>2, <1>3, <1>4

(* y is x with one more jump. *)
Gains(x, y, q, where) ==
  /\ y.kind = x.kind /\ y.at = x.at /\ y.start = x.start /\ y.step = x.step
  /\ y.jumps = x.jumps \cup {<<q, where>>}

LEMMA AroundLoop ==
  ASSUME NEW S, NEW x, NEW R, x.kind \in {"while", "for"}, x.at = "body", Around(S, x, R),
         NEW T, NEW q, NEW where, CountsMore(R.loops, T, q, where),
         NEW y, Gains(x, y, q, where)
  PROVE  Around(S, y, WithLoops(R, T))
<1>1. PICK L : L = R.loops
  OBVIOUS
<1>2. /\ Counted(T) /\ Counts(T) = Counts(L) \cup {<<q, where>>}
      /\ \A f, w : Uncounted(T, f, w) = Uncounted(L, f, w)
      /\ T.for_start_stack = L.for_start_stack
      /\ T.while_end_label_stack = L.while_end_label_stack
  BY <1>1 DEF CountsMore
<1>3. /\ y.kind = x.kind /\ y.at = x.at /\ y.start = x.start /\ y.step = x.step
      /\ y.jumps = x.jumps \cup {<<q, where>>}
  BY DEF Gains
<1>4. CASE x.kind = "while"
  <2>1. WhileIn(S, x, R)
    BY <1>4, AroundIs
  <2>2. /\ Len(R.whiles) > 0 /\ Head(R.whiles) = x.start
        /\ Len(L.while_end_label_stack) > 0
        /\ x.jumps = {<<Head(L.while_end_label_stack), "end">>} \cup Counts(L)
        /\ S = Stacks(Uncounted(L, L.for_start_stack, Tail(L.while_end_label_stack)),
                      R.saved, Tail(R.whiles), R.fors, R.ifs, R.elses, R.names)
    BY <1>1, <2>1 DEF WhileIn
  <2>3. y.jumps = {<<Head(T.while_end_label_stack), "end">>} \cup Counts(T)
    BY <1>2, <1>3, <2>2
  <2>4. S = Stacks(Uncounted(T, T.for_start_stack, Tail(T.while_end_label_stack)),
                   R.saved, Tail(R.whiles), R.fors, R.ifs, R.elses, R.names)
    BY <1>2, <2>2
  <2>5. WhileIn(S, y, WithLoops(R, T))
    BY <1>2, <1>3, <2>2, <2>3, <2>4, WhileInIs DEF WithLoops
  <2>6. QED
    BY <1>3, <1>4, <2>5, AroundIs
<1>5. CASE x.kind = "for"
  <2>1. ForIn(S, x, R)
    BY <1>5, AroundIs
  <2>2. /\ Len(R.fors) > 0 /\ Head(R.fors) = x.start
        /\ Len(L.for_start_stack) > 0 /\ x.step = Head(L.for_start_stack) + 2
        /\ x.jumps = {<<Head(L.for_start_stack) + 1, "end">>} \cup Counts(L)
        /\ S = Stacks(Uncounted(L, Tail(L.for_start_stack), L.while_end_label_stack),
                      R.saved, R.whiles, Tail(R.fors), R.ifs, R.elses, R.names)
    BY <1>1, <2>1 DEF ForIn, ForLater
  <2>3. y.jumps = {<<Head(T.for_start_stack) + 1, "end">>} \cup Counts(T)
    BY <1>2, <1>3, <2>2
  <2>4. S = Stacks(Uncounted(T, Tail(T.for_start_stack), T.while_end_label_stack),
                   R.saved, R.whiles, Tail(R.fors), R.ifs, R.elses, R.names)
    BY <1>2, <2>2
  <2>5. ForLater(S, y, WithLoops(R, T))
    BY <1>2, <1>3, <2>2, <2>4, ForLaterIs DEF WithLoops
  <2>6. ForIn(S, y, WithLoops(R, T))
    BY <2>3, <2>5, ForInIs DEF WithLoops
  <2>7. QED
    BY <1>3, <1>5, <2>6, AroundIs
<1>6. QED
  BY <1>4, <1>5

-----------------------------------------------------------------------------
(* The loop at depth k is the one that a jump out belongs to. *)
LoopAt(f, n, k) ==
  /\ k \in 0 .. n - 1 /\ f[k].kind \in {"while", "for"} /\ f[k].at = "body"
  /\ \A p \in k + 1 .. n - 1 : f[p].kind = "if"

SameBut(f, g, n, k) == \A p \in 0 .. n - 1 : p # k => g[p] = f[p]

LEMMA LoopsAbove ==
  ASSUME NEW H, NEW n \in Nat, NEW f, NEW R, Chain(H, n, f, R), NEW k, LoopAt(f, n, k)
  PROVE  \A p \in k + 1 .. n : H[p].loops = R.loops
<1> DEFINE B == {j \in 0 .. n - k - 1 : H[n - j].loops # R.loops}
<1>1. k \in 0 .. n - 1 /\ \A p \in k + 1 .. n - 1 : f[p].kind = "if"
  BY DEF LoopAt
<1>2. SUFFICES ASSUME B # {} PROVE FALSE
  <2>1. SUFFICES ASSUME B = {}, NEW p \in k + 1 .. n PROVE H[p].loops = R.loops
    OBVIOUS
  <2>2. n - p \in 0 .. n - k - 1 /\ n - (n - p) = p
    BY <1>1
  <2>3. QED
    BY <2>1, <2>2
<1>3. B \in SUBSET Nat
  OBVIOUS
<1>4. PICK j \in B : \A i \in B : j <= i
  BY <1>2, <1>3, LeastNumber
<1>5. j # 0
  BY <1>4 DEF Chain
<1>6. PICK p : p = n - j
  OBVIOUS
<1>7. /\ p \in k + 1 .. n - 1 /\ p \in 0 .. n - 1 /\ j - 1 \in 0 .. n - k - 1
      /\ n - (j - 1) = p + 1 /\ j - 1 < j
  BY <1>1, <1>4, <1>5, <1>6
<1>8. H[p + 1].loops = R.loops
  BY <1>4, <1>7
<1>9. Around(H[p], f[p], H[p + 1]) /\ f[p].kind = "if"
  BY <1>1, <1>7 DEF Chain
<1>10. PICK S, x, Q : S = H[p] /\ x = f[p] /\ Q = H[p + 1]
  OBVIOUS
<1>11. S.loops = Q.loops
  BY <1>9, <1>10, AroundIf
<1>12. QED
  BY <1>4, <1>6, <1>8, <1>10, <1>11

LEMMA ChainCounted ==
  ASSUME NEW H, NEW n \in Nat, NEW f, NEW R, Chain(H, n, f, R), NEW k, LoopAt(f, n, k)
  PROVE  Counted(R.loops) /\ R.loops \in AnyLoops
<1>1. k \in 0 .. n - 1 /\ f[k].kind \in {"while", "for"} /\ f[k].at = "body"
  BY DEF LoopAt
<1>2. Around(H[k], f[k], H[k + 1]) /\ R \in AnyStacks
  BY <1>1 DEF Chain
<1>3. H[k + 1].loops = R.loops
  <2>1. k + 1 \in k + 1 .. n
    BY <1>1
  <2>2. QED
    BY <2>1, LoopsAbove
<1>4. PICK S, x, Q : S = H[k] /\ x = f[k] /\ Q = H[k + 1]
  OBVIOUS
<1>5. WhileIn(S, x, Q) \/ ForIn(S, x, Q)
  BY <1>1, <1>2, <1>4, AroundIs
<1>6. Counted(Q.loops)
  BY <1>5 DEF WhileIn, ForIn, ForLater
<1>7. R.loops \in AnyLoops
  BY <1>2 DEF AnyStacks
<1>8. QED
  BY <1>3, <1>4, <1>6, <1>7

(* The jump q is counted for the loop at depth k. *)
LEMMA ChainCounts ==
  ASSUME NEW H, NEW n \in Nat, NEW f, NEW R, Chain(H, n, f, R), NEW k, LoopAt(f, n, k),
         NEW T, NEW q, NEW where, CountsMore(R.loops, T, q, where),
         NEW g, SameBut(f, g, n, k), Gains(f[k], g[k], q, where)
  PROVE  \E K : Chain(K, n, g, WithLoops(R, T))
<1> DEFINE K == [p \in 0 .. n |-> IF p <= k THEN H[p] ELSE WithLoops(H[p], T)]
<1>1. /\ k \in 0 .. n - 1 /\ f[k].kind \in {"while", "for"} /\ f[k].at = "body"
      /\ \A p \in k + 1 .. n - 1 : f[p].kind = "if"
  BY DEF LoopAt
<1>2. /\ H[0] = NoStacks /\ H[n] = R
      /\ \A p \in 0 .. n : H[p] \in AnyStacks
      /\ \A p \in 0 .. n - 1 : Around(H[p], f[p], H[p + 1])
  BY DEF Chain
<1>0. \A p \in k + 1 .. n : H[p].loops = R.loops
  BY LoopsAbove
<1>3. K[0] = NoStacks /\ K[n] = WithLoops(R, T)
  BY <1>1, <1>2
<1>4. T \in AnyLoops
  BY DEF CountsMore
<1>5. \A p \in 0 .. n : K[p] \in AnyStacks
  <2>1. \A S \in AnyStacks : WithLoops(S, T) \in AnyStacks
    BY <1>4, WithLoopsTyped
  <2>2. QED
    BY <1>2, <2>1
<1>6. \A p \in 0 .. n : K[p] = IF p <= k THEN H[p] ELSE WithLoops(H[p], T)
  OBVIOUS
<1> HIDE DEF K
<1>7. ASSUME NEW p \in 0 .. n - 1 PROVE Around(K[p], g[p], K[p + 1])
  <2>1. p \in 0 .. n /\ p + 1 \in 0 .. n /\ Around(H[p], f[p], H[p + 1])
    BY <1>2
  <2>2. CASE p < k
    <3>1. K[p] = H[p] /\ K[p + 1] = H[p + 1]
      BY <1>1, <1>6, <2>1, <2>2
    <3>2. g[p] = f[p]
      BY <1>1, <2>2 DEF SameBut
    <3>3. QED
      BY <2>1, <3>1, <3>2
  <2>3. CASE p = k
    <3>1. K[k] = H[k] /\ K[k + 1] = WithLoops(H[k + 1], T)
      BY <1>1, <1>6
    <3>2. H[k + 1].loops = R.loops
      <4>1. k + 1 \in k + 1 .. n
        BY <1>1
      <4>2. QED
        BY <1>0, <4>1
    <3>3. PICK S, x, y, Q : S = H[k] /\ x = f[k] /\ y = g[k] /\ Q = H[k + 1]
      OBVIOUS
    <3>4. /\ x.kind \in {"while", "for"} /\ x.at = "body" /\ Around(S, x, Q)
          /\ CountsMore(Q.loops, T, q, where) /\ Gains(x, y, q, where)
      BY <1>1, <2>1, <2>3, <3>2, <3>3
    <3>5. Around(S, y, WithLoops(Q, T))
      BY <3>4, AroundLoop
    <3>6. QED
      BY <2>3, <3>1, <3>3, <3>5
  <2>4. CASE p > k
    <3>1. K[p] = WithLoops(H[p], T) /\ K[p + 1] = WithLoops(H[p + 1], T)
      BY <1>1, <1>6, <2>1, <2>4
    <3>2. g[p] = f[p] /\ f[p].kind = "if"
      BY <1>1, <2>4 DEF SameBut
    <3>3. PICK S, x, Q : S = H[p] /\ x = f[p] /\ Q = H[p + 1]
      OBVIOUS
    <3>4. Around(WithLoops(S, T), x, WithLoops(Q, T))
      BY <2>1, <3>2, <3>3, AroundIf
    <3>5. QED
      BY <3>1, <3>2, <3>3, <3>4
  <2>5. QED
    BY <1>1, <2>2, <2>3, <2>4
<1>8. Chain(K, n, g, WithLoops(R, T))
  BY <1>3, <1>5, <1>7 DEF Chain
<1>9. QED
  BY <1>8

(* Where the loop of a break is. *)
LEMMA LoopDepth ==
  ASSUME OpensInv, InBody, LoopsHere # {}
  PROVE  /\ ThisLoop \in DOMAIN open
         /\ LoopAt(Frames, Len(open), Len(open) - ThisLoop)
<1>1. TypeOK /\ open \in Seq(FramesOf(currQuad)) /\ Len(open) \in Nat
  BY TypesOf DEF OpensInv
<1>2. LoopsHere \in SUBSET Nat
  BY <1>1 DEF LoopsHere
<1>3. ThisLoop \in LoopsHere /\ \A j \in LoopsHere : ThisLoop <= j
  BY <1>2, LeastNumber, Zenon DEF ThisLoop
<1>4. PICK i : i = ThisLoop
  OBVIOUS
<1>5. /\ i \in DOMAIN open /\ open[i].kind \in {"while", "for"} /\ open[i].at = "body"
      /\ \A j \in 1 .. i : open[j].kind # "function"
  BY <1>3, <1>4 DEF LoopsHere
<1>6. i \in 1 .. Len(open)
  BY <1>1, <1>5
<1>7. Len(open) - i \in Depths /\ At(Len(open) - i) = open[i]
  BY <1>1, <1>5, IndexDepth
<1>8. ASSUME NEW p \in Len(open) - i + 1 .. Len(open) - 1 PROVE Frames[p].kind = "if"
  <2>1. PICK j : j = Len(open) - p
    OBVIOUS
  <2>2. /\ j \in 1 .. Len(open) /\ j < i /\ Len(open) - j = p /\ p \in Depths
    BY <1>1, <1>6, <1>8, <2>1 DEF Depths
  <2>3. j \in DOMAIN open /\ At(p) = open[j]
    BY <1>1, <2>1, <2>2 DEF At
  <2>4. \A h \in 1 .. j : open[h].kind # "function"
    BY <1>5, <1>6, <2>2
  <2>5. Level(p) = Cardinality(Functions) /\ open[j].kind # "function"
    BY <1>1, <2>2, <2>3, <2>4, HereLevel
  <2>6. At(p).at \notin {"init", "cond", "step"} /\ At(p).at \in Begun(At(p).kind)
        /\ At(p).kind \in Kinds
    BY <1>1, <2>2, <2>5, HeaderIsInnermost, DepthFacts DEF OpensInv, OpenInv
  <2>7. j \notin LoopsHere
    <3>1. ASSUME j \in LoopsHere PROVE FALSE
      <4>1. i <= j
        BY <1>3, <1>4, <3>1
      <4>2. QED
        BY <1>6, <2>2, <4>1
    <3>2. QED
      BY <3>1
  <2>8. ~ (At(p).kind \in {"while", "for"} /\ At(p).at = "body")
    BY <2>3, <2>4, <2>7 DEF LoopsHere
  <2>9. At(p).kind # "while" /\ At(p).kind # "for"
    BY <2>6, <2>8 DEF Begun
  <2>10. At(p).kind = "if"
    BY <2>3, <2>5, <2>6, <2>9 DEF Kinds
  <2>11. QED
    BY <2>2, <2>10, FramesAre
<1>9. QED
  BY <1>4, <1>5, <1>7, <1>8, FramesAre DEF LoopAt, Depths

LEMMA PromisedForm ==
  ASSUME TypeOK, NEW i \in DOMAIN open, NEW q, NEW where, NEW k, k = Len(open) - i,
         open' = Promise(i, q, where)
  PROVE  /\ Len(open') = Len(open) /\ k \in 0 .. Len(open) - 1
         /\ SameBut(Frames, Frames', Len(open), k)
         /\ Gains(Frames[k], Frames'[k], q, where)
<1>1. /\ open \in Seq(FramesOf(currQuad)) /\ Len(open) \in Nat /\ i \in 1 .. Len(open)
      /\ DOMAIN open = 1 .. Len(open)
  <2>1. open \in Seq(FramesOf(currQuad))
    BY TypesOf
  <2>2. QED
    BY <2>1
<1>2. DOMAIN open' = DOMAIN open
  BY DEF Promise
<1>3. Len(open') = Len(open)
  <2>1. open' = [j \in 1 .. Len(open) |-> open'[j]]
    BY <1>1, <1>2, Zenon DEF Promise
  <2>2. QED
    BY <1>1, <2>1
<1>4. \A j \in DOMAIN open : j # i => open'[j] = open[j]
  BY <1>1 DEF Promise
<1>5. Gains(open[i], open'[i], q, where)
  <2>1. open'[i] = [open[i] EXCEPT !.jumps = @ \cup {<<q, where>>}]
    BY <1>1 DEF Promise
  <2>2. PICK f, g : f = open[i] /\ g = open'[i]
    OBVIOUS
  <2>3. f \in FramesOf(currQuad) /\ g = [f EXCEPT !.jumps = @ \cup {<<q, where>>}]
    BY <1>1, <2>1, <2>2
  <2>4. Gains(f, g, q, where)
    BY <2>3 DEF FramesOf, Gains
  <2>5. QED
    BY <2>2, <2>4
<1>6. k \in 0 .. Len(open) - 1 /\ Len(open) - k = i
  BY <1>1
<1>7. Depths' = Depths /\ \A p \in Depths : Frames[p] = open[Len(open) - p]
                                           /\ Frames'[p] = open'[Len(open) - p]
  BY <1>3 DEF Frames, Depths, At
<1>8. ASSUME NEW p \in 0 .. Len(open) - 1, p # k PROVE Frames'[p] = Frames[p]
  <2>1. p \in Depths /\ Len(open) - p \in DOMAIN open /\ Len(open) - p # i
    BY <1>1, <1>6, <1>8 DEF Depths
  <2>2. QED
    BY <1>4, <1>7, <2>1
<1>9. Gains(Frames[k], Frames'[k], q, where)
  BY <1>5, <1>6, <1>7 DEF Depths
<1>10. QED
  BY <1>3, <1>6, <1>8, <1>9 DEF SameBut

(* What break and continue do to the loops. *)
WithBreak(L, q) ==
  [L EXCEPT !.break_stack = Push(L.break_stack, q),
            !.num_of_breaks_stack = Increment(L.num_of_breaks_stack)]

WithContinue(L, q) ==
  [L EXCEPT !.continue_stack = Push(L.continue_stack, q),
            !.num_of_continues_stack = Increment(L.num_of_continues_stack)]

LEMMA JumpsRecorded ==
  ASSUME NEW L \in AnyLoops, NEW q
  PROVE  /\ WithBreak(L, q)
              = LoopRecord(Push(L.break_stack, q), L.continue_stack,
                           Increment(L.num_of_breaks_stack), L.num_of_continues_stack,
                           L.for_start_stack, L.while_end_label_stack)
         /\ WithContinue(L, q)
              = LoopRecord(L.break_stack, Push(L.continue_stack, q),
                           L.num_of_breaks_stack, Increment(L.num_of_continues_stack),
                           L.for_start_stack, L.while_end_label_stack)
<1>1. PICK a, b, c, d, f, w :
        /\ L = LoopRecord(a, b, c, d, f, w)
        /\ a = L.break_stack /\ b = L.continue_stack
        /\ c = L.num_of_breaks_stack /\ d = L.num_of_continues_stack
        /\ f = L.for_start_stack /\ w = L.while_end_label_stack
  BY LoopsOf
<1>2. PICK a1, b1, c1, d1 :
        /\ a1 = Push(a, q) /\ b1 = Push(b, q) /\ c1 = Increment(c) /\ d1 = Increment(d)
  OBVIOUS
<1>3. [LoopRecord(a, b, c, d, f, w) EXCEPT !.break_stack = a1]
        = LoopRecord(a1, b, c, d, f, w)
  BY DEF LoopRecord
<1>4. [LoopRecord(a1, b, c, d, f, w) EXCEPT !.num_of_breaks_stack = c1]
        = LoopRecord(a1, b, c1, d, f, w)
  BY DEF LoopRecord
<1>5. [LoopRecord(a, b, c, d, f, w) EXCEPT !.continue_stack = b1]
        = LoopRecord(a, b1, c, d, f, w)
  BY DEF LoopRecord
<1>6. [LoopRecord(a, b1, c, d, f, w) EXCEPT !.num_of_continues_stack = d1]
        = LoopRecord(a, b1, c, d1, f, w)
  BY DEF LoopRecord
<1>7. WithBreak(L, q) = [[L EXCEPT !.break_stack = a1] EXCEPT !.num_of_breaks_stack = c1]
  BY <1>1, <1>2, Zenon DEF WithBreak
<1>8. WithContinue(L, q)
        = [[L EXCEPT !.continue_stack = b1] EXCEPT !.num_of_continues_stack = d1]
  BY <1>1, <1>2, Zenon DEF WithContinue
<1>9. WithBreak(L, q) = LoopRecord(a1, b, c1, d, f, w)
  BY <1>1, <1>3, <1>4, <1>7, Zenon
<1>10. WithContinue(L, q) = LoopRecord(a, b1, c, d1, f, w)
  BY <1>1, <1>5, <1>6, <1>8, Zenon
<1>11. QED
  BY <1>1, <1>2, <1>9, <1>10

(* The jump currQuad is promised by its loop and counted for it. *)
LEMMA CountedChained ==
  ASSUME OpensInv, Chained, InBody, LoopsHere # {}, NEW where, Promised(where),
         Counted(loops) => CountsMore(loops, loops', currQuad, where),
         Now' = WithLoops(Now, loops')
  PROVE  Chained'
<1> DEFINE k == Len(open) - ThisLoop
<1>1. /\ ThisLoop \in DOMAIN open /\ LoopAt(Frames, Len(open), k) /\ TypeOK
      /\ Len(open) \in Nat
  BY LoopDepth, DepthFacts DEF OpensInv
<1>2. PICK i : i = ThisLoop
  OBVIOUS
<1>3. open' = Promise(i, currQuad, where)
  BY <1>2 DEF Promised
<1>4. /\ Len(open') = Len(open)
      /\ SameBut(Frames, Frames', Len(open), k)
      /\ Gains(Frames[k], Frames'[k], currQuad, where)
  BY <1>1, <1>2, <1>3, PromisedForm
<1>5. PICK H : Chain(H, Len(open), Frames, Now)
  BY DEF Chained
<1>6. Now.loops = loops
  BY DEF Now, Stacks
<1>7. PICK n, f, R, g, T, q, h : /\ n = Len(open) /\ f = Frames /\ R = Now /\ g = Frames'
                                 /\ T = loops' /\ q = currQuad /\ h = k
  OBVIOUS
<1>8. /\ n \in Nat /\ Chain(H, n, f, R) /\ LoopAt(f, n, h)
      /\ SameBut(f, g, n, h) /\ Gains(f[h], g[h], q, where)
  BY <1>1, <1>4, <1>5, <1>7
<1>9. Counted(R.loops)
  BY <1>8, ChainCounted
<1>10. CountsMore(R.loops, T, q, where)
  BY <1>6, <1>7, <1>9
<1>11. \E K : Chain(K, n, g, WithLoops(R, T))
  BY <1>8, <1>10, ChainCounts
<1>12. QED
  BY <1>4, <1>7, <1>11 DEF Chained

LEMMA BreaksChained ==
  ASSUME OpensInv, errors = 0, Chained, Break \/ Continue
  PROVE  Chained'
<1>1. /\ InBody /\ InLoop /\ LoopsHere # {} /\ loops \in AnyLoops /\ currQuad \in Nat
  BY BreaksJustified, LoopsNow DEF OpensInv, Break, Continue
<1>2. CASE Break
  <2>1. loops' = WithBreak(loops, currQuad)
    BY <1>2 DEF Break, WithBreak
  <2>2. Counted(loops) => CountsMore(loops, loops', currQuad, "end")
    BY <1>1, <2>1, JumpsRecorded, BreakCounts
  <2>3. Promised("end") /\ Now' = WithLoops(Now, loops')
    BY <1>2 DEF Break, Now, WithLoops, Stacks
  <2>4. QED
    BY <1>1, <2>2, <2>3, CountedChained
<1>3. CASE Continue
  <2>1. loops' = WithContinue(loops, currQuad)
    BY <1>3 DEF Continue, WithContinue
  <2>2. Counted(loops) => CountsMore(loops, loops', currQuad, "start")
    BY <1>1, <2>1, JumpsRecorded, ContinueCounts
  <2>3. Promised("start") /\ Now' = WithLoops(Now, loops')
    BY <1>3 DEF Continue, Now, WithLoops, Stacks
  <2>4. QED
    BY <1>1, <2>2, <2>3, CountedChained
<1>4. QED
  BY <1>2, <1>3

-----------------------------------------------------------------------------
(* The stacks can always be taken apart *)

LEMMA InitChained == Init => Chained
<1> SUFFICES ASSUME Init PROVE Chained
  OBVIOUS
<1> DEFINE H == [p \in 0 .. 0 |-> NoStacks]
<1>1. Len(open) = 0 /\ Now = NoStacks
  BY DEF Init, Now, NoStacks
<1>2. NoStacks \in AnyStacks
  BY DEF NoStacks, Stacks, AnyStacks, NoLoops, AnyLoops
<1>3. H[0] = NoStacks /\ \A p \in 0 .. 0 : H[p] \in AnyStacks
  BY <1>2
<1> HIDE DEF H
<1>4. Chain(H, 0, Frames, NoStacks)
  BY <1>3 DEF Chain
<1>5. QED
  BY <1>1, <1>4 DEF Chained

LEMMA ChainKept == OpensInv /\ ChainInv /\ ParseAny => ChainInv'
<1> SUFFICES ASSUME OpensInv, ChainInv, ParseAny, errors' = 0 PROVE Chained'
  BY DEF ChainInv
<1>1. ~ (SyntaxError \/ FuncHeadError \/ StepError)
  BY TypesOf DEF SyntaxError, FuncHeadError, StepError, Misread, OpensInv
<1>2. errors = 0
  BY <1>1 DEF ParseAny, Parse, Expression, Logic, Relop, Call, Return, Expr, Emit,
     FuncStart, FuncEnd, IfBegin, IfThen, IfElse, IfEnd, WhileBegin, WhileBody, WhileEnd,
     ForBegin, ForCond, ForStep, ForBody, ForEnd, Break, Continue
<1>3. Chained /\ TypeOK /\ TypeOK'
  BY <1>2, TypeStep DEF ChainInv, OpensInv
<1>4. QED
  BY <1>1, <1>2, <1>3, EmitsChained, BeginsChained, IfThenChained, IfElseChained,
     IfEndChained, WhileBodyChained, WhileEndChained, ForCondChained, ForStepChained,
     ForBodyChained, ForEndChained, FuncEndChained, BreaksChained
  DEF ParseAny, Parse

-----------------------------------------------------------------------------
(* Promises are made and kept *)

AllPromised == Promises(Frames, Len(open), quads, currQuad)
AllLed == Led(settled, quads)

LEMMA LengthsGrow ==
  ASSUME TypeOK
  PROVE  Len(open) \in Nat /\ currQuad \in Nat /\ DOMAIN quads \subseteq 0 .. currQuad - 1
BY TypesOf DEF QuadsTyped, Upto

LEMMA CountsLater == TypeOK' => (Len(open) \in Nat /\ currQuad \in Nat)'
<1>1. TypeOK => Len(open) \in Nat /\ currQuad \in Nat
  BY LengthsGrow
<1>2. QED
  BY <1>1, PTL

LEMMA MadePromises ==
  ASSUME TypeOK, TypeOK', AllPromised, NEW k, NEW A,
         Promising(Frames, Len(open), Frames', Len(open'), k, A),
         currQuad <= currQuad', Filled(quads, quads', A, currQuad, currQuad')
  PROVE  AllPromised'
<1>1. /\ Len(open) \in Nat /\ currQuad \in Nat /\ Len(open') \in Nat /\ currQuad' \in Nat
  BY LengthsGrow, CountsLater
<1>2. PICK f, n, Q, c, g, m, R, d :
        /\ f = Frames /\ n = Len(open) /\ Q = quads /\ c = currQuad
        /\ g = Frames' /\ m = Len(open') /\ R = quads' /\ d = currQuad'
  OBVIOUS
<1>3. /\ n \in Nat /\ m \in Nat /\ c \in Nat /\ d \in Nat /\ c <= d
      /\ Promises(f, n, Q, c) /\ Promising(f, n, g, m, k, A) /\ Filled(Q, R, A, c, d)
  BY <1>1, <1>2 DEF AllPromised
<1>4. Promises(g, m, R, d)
  BY <1>3, PromisesMade
<1>5. QED
  BY <1>2, <1>4 DEF AllPromised

LEMMA KeptPromises ==
  ASSUME TypeOK, TypeOK', AllPromised, NEW X,
         Keeping(Frames, Len(open), Frames', Len(open'), X),
         currQuad <= currQuad', Writing(quads, quads', X, currQuad, currQuad')
  PROVE  AllPromised'
<1>1. /\ Len(open) \in Nat /\ currQuad \in Nat /\ Len(open') \in Nat /\ currQuad' \in Nat
  BY LengthsGrow, CountsLater
<1>2. PICK f, n, Q, c, g, m, R, d :
        /\ f = Frames /\ n = Len(open) /\ Q = quads /\ c = currQuad
        /\ g = Frames' /\ m = Len(open') /\ R = quads' /\ d = currQuad'
  OBVIOUS
<1>3. /\ n \in Nat /\ m \in Nat /\ c \in Nat /\ d \in Nat /\ c <= d
      /\ Promises(f, n, Q, c) /\ Keeping(f, n, g, m, X) /\ Writing(Q, R, X, c, d)
  BY <1>1, <1>2 DEF AllPromised
<1>4. Promises(g, m, R, d)
  BY <1>3, PromisesKept
<1>5. QED
  BY <1>2, <1>4 DEF AllPromised

LEMMA StillLed ==
  ASSUME AllLed, Stays(quads, quads'), NEW X, settled' = settled \cup X, Led(X, quads')
  PROVE  AllLed'
<1>1. PICK Q, R, s : Q = quads /\ R = quads' /\ s = settled
  OBVIOUS
<1>2. Stays(Q, R) /\ Led(s, Q) /\ Led(X, R)
  BY <1>1 DEF AllLed
<1>3. Led(s \cup X, R)
  BY <1>2, LedStays
<1>4. QED
  BY <1>1, <1>3 DEF AllLed

LEMMA AllStays == \A Q : Stays(Q, Q)
BY DEF Stays

(* No statement begins or ends, and nothing is promised. *)
LEMMA SamePromising ==
  ASSUME TypeOK, UNCHANGED open
  PROVE  Promising(Frames, Len(open), Frames', Len(open'), 0, {})
<1>1. Frames' = Frames /\ Len(open) \in Nat
  BY LengthsGrow DEF Frames, Depths, At
<1>2. QED
  BY <1>1 DEF Promising

LEMMA NewPromising ==
  ASSUME TypeOK, NEW x, open' = Push(open, x), x.jumps = {}
  PROVE  Promising(Frames, Len(open), Frames', Len(open'), 0, {})
<1>1. /\ Len(open) \in Nat /\ Len(open') = Len(open) + 1
      /\ Agree(Frames, Frames', Len(open)) /\ Frames'[Len(open)] = x
  BY LengthsGrow, FramesPushed
<1>2. ASSUME NEW p \in 0 .. Len(open)
      PROVE  Frames'[p].jumps = IF p < Len(open) THEN Frames[p].jumps ELSE {}
  <2>1. CASE p = Len(open)
    <3>1. Frames'[p] = x /\ ~ (p < Len(open))
      BY <1>1, <2>1
    <3>2. QED
      BY <3>1
  <2>2. CASE p # Len(open)
    <3>1. p \in 0 .. Len(open) - 1 /\ p < Len(open)
      BY <1>1, <2>2
    <3>2. QED
      BY <1>1, <3>1 DEF Agree
  <2>3. QED
    BY <2>1, <2>2
<1>3. QED
  BY <1>1, <1>2 DEF Promising

Joined(J, A) == J = Innermost.jumps \cup A
Left(J, X)   == J = Innermost.jumps \ X

LEMMA InnermostPromising ==
  ASSUME TypeOK, open # <<>>, NEW at, NEW start, NEW step, NEW A,
         NEW J, Joined(J, A), open' = GoesOn(at, start, step, J)
  PROVE  Promising(Frames, Len(open), Frames', Len(open'), Len(open) - 1, A)
<1> DEFINE m == Len(open) - 1
<1>2. /\ m \in Nat /\ Len(open) = m + 1 /\ Frames[m] = Innermost
  BY FramesTop
<1> DEFINE y == [kind |-> Innermost.kind, at |-> at, start |-> start,
                 step |-> step, jumps |-> J]
<1>0. Len(open') = m + 1 /\ Agree(Frames, Frames', m) /\ Frames'[m] = y
  BY FramesGo
<1>3. /\ Len(open') = m + 1 /\ Agree(Frames, Frames', m)
      /\ Frames'[m].jumps = Innermost.jumps \cup A
  BY <1>0 DEF Joined
<1>1. m = Len(open) - 1
  OBVIOUS
<1> HIDE DEF m
<1>4. ASSUME NEW p \in 0 .. m
      PROVE  Frames'[p].jumps = Frames[p].jumps \cup (IF p = m THEN A ELSE {})
  <2>1. CASE p = m
    BY <1>2, <1>3, <2>1
  <2>2. CASE p # m
    <3>1. p \in 0 .. m - 1
      BY <1>2, <2>2
    <3>2. QED
      BY <1>3, <2>2, <3>1 DEF Agree
  <2>3. QED
    BY <2>1, <2>2
<1>5. Promising(Frames, m + 1, Frames', m + 1, m, A)
  <2>1. /\ m \in 0 .. (m + 1) - 1 /\ \A p \in 0 .. (m + 1) - 1 : p \in 0 .. m /\ p < m + 1
    BY <1>2
  <2>2. QED
    BY <1>4, <2>1 DEF Promising
<1>6. QED
  BY <1>1, <1>2, <1>3, <1>5

LEMMA LoopPromising ==
  ASSUME TypeOK, Len(open') = Len(open), NEW k \in 0 .. Len(open) - 1, NEW q, NEW where,
         SameBut(Frames, Frames', Len(open), k),
         Gains(Frames[k], Frames'[k], q, where)
  PROVE  Promising(Frames, Len(open), Frames', Len(open'), k, {<<q, where>>})
<1>1. PICK n : n = Len(open)
  OBVIOUS
<1>2. n \in Nat /\ Len(open') = n /\ k \in 0 .. n - 1
  BY <1>1, LengthsGrow
<1>3. ASSUME NEW p \in 0 .. n - 1
      PROVE  Frames'[p].jumps = Frames[p].jumps \cup (IF p = k THEN {<<q, where>>} ELSE {})
  <2>1. CASE p = k
    BY <2>1 DEF Gains
  <2>2. CASE p # k
    BY <1>1, <2>2 DEF SameBut
  <2>3. QED
    BY <2>1, <2>2
<1>4. QED
  BY <1>1, <1>2, <1>3 DEF Promising

(* The innermost statement ends, or goes on with fewer promises. *)
LEMMA InnermostPairs ==
  ASSUME TypeOK, open # <<>>
  PROVE  \A x \in Innermost.jumps : x = <<x[1], x[2]>> /\ x[1] \in 0 .. currQuad - 1
<1>1. Innermost \in FramesOf(currQuad)
  BY InnermostFields
<1>2. Innermost.jumps \subseteq Upto(currQuad) \X {"start", "end", "body", "else"}
  BY <1>1 DEF FramesOf
<1>3. QED
  BY <1>2 DEF Upto

LEMMA EndKeeping ==
  ASSUME TypeOK, open # <<>>, open' = Tail(open)
  PROVE  Keeping(Frames, Len(open), Frames', Len(open'), Innermost.jumps)
<1>1. PICK m : m = Len(open) - 1
  OBVIOUS
<1>2. /\ m \in Nat /\ Len(open) = m + 1 /\ Frames[m] = Innermost
  BY <1>1, FramesTop
<1>3. Len(open') = m /\ Agree(Frames, Frames', m)
  BY <1>1, FramesPopped
<1>4. \A x \in Innermost.jumps : x = <<x[1], x[2]>>
  BY InnermostPairs
<1>5. \A p \in 0 .. m - 1 : Frames'[p].jumps = Frames[p].jumps
  BY <1>3 DEF Agree
<1>6. Keeping(Frames, m + 1, Frames', m, Innermost.jumps)
  <2>1. (m + 1) - 1 = m /\ (m + 1) - 2 = m - 1 /\ m + 1 > 0
    BY <1>2
  <2>2. QED
    BY <1>2, <1>4, <1>5, <2>1 DEF Keeping
<1>7. QED
  BY <1>2, <1>3, <1>6

LEMMA GoesOnKeeping ==
  ASSUME TypeOK, open # <<>>, NEW at, NEW start, NEW step, NEW X,
         X \subseteq Innermost.jumps,
         NEW J, Left(J, X), open' = GoesOn(at, start, step, J)
  PROVE  Keeping(Frames, Len(open), Frames', Len(open'), X)
<1> DEFINE m == Len(open) - 1
<1>2. /\ m \in Nat /\ Len(open) = m + 1 /\ Frames[m] = Innermost
  BY FramesTop
<1> DEFINE y == [kind |-> Innermost.kind, at |-> at, start |-> start,
                 step |-> step, jumps |-> J]
<1>0. Len(open') = m + 1 /\ Agree(Frames, Frames', m) /\ Frames'[m] = y
  BY FramesGo
<1>3. /\ Len(open') = m + 1 /\ Agree(Frames, Frames', m)
      /\ Frames'[m].jumps = Innermost.jumps \ X
  BY <1>0 DEF Left
<1>1. m = Len(open) - 1
  OBVIOUS
<1> HIDE DEF m
<1>4. \A x \in Innermost.jumps : x = <<x[1], x[2]>>
  BY InnermostPairs
<1>5. \A p \in 0 .. m - 1 : Frames'[p].jumps = Frames[p].jumps
  BY <1>3 DEF Agree
<1>6. Keeping(Frames, m + 1, Frames', m + 1, X)
  <2>1. (m + 1) - 1 = m /\ (m + 1) - 2 = m - 1 /\ m + 1 > 0
    BY <1>2
  <2>2. QED
    BY <1>2, <1>3, <1>4, <1>5, <2>1 DEF Keeping
<1>7. QED
  BY <1>2, <1>3, <1>6

(* What the innermost statement has promised is not written. *)
LEMMA InnermostUnwritten ==
  ASSUME TypeOK, open # <<>>, AllPromised
  PROVE  /\ \A q, w : <<q, w>> \in Innermost.jumps =>
                        q \in 0 .. currQuad - 1 /\ q \notin DOMAIN quads
         /\ \A q, v, w : <<q, v>> \in Innermost.jumps /\ <<q, w>> \in Innermost.jumps => v = w
<1>1. PICK m : m = Len(open) - 1
  OBVIOUS
<1>2. /\ m \in 0 .. Len(open) - 1 /\ Frames[m] = Innermost
  BY <1>1, FramesTop DEF Depths
<1>3. QED
  BY <1>2 DEF AllPromised, Promises, Unwritten, PromisedOnce, Upto

(* Settle tells of jumps that are due. *)
Ready(jumps, where, R, l) ==
  \A q : <<q, where>> \in jumps => q \in DOMAIN R /\ R[q].to = l

LEMMA SettledLed ==
  ASSUME TypeOK, open # <<>>, NEW where, NEW l, NEW R, Ready(Innermost.jumps, where, R, l)
  PROVE  Led(Settle(where, l), R)
<1>1. ASSUME NEW q \in Due(where) PROVE <<q, where>> \in Innermost.jumps
  <2>1. PICK p \in Innermost.jumps : p[2] = where /\ p[1] = q
    BY DEF Due
  <2>2. p = <<p[1], p[2]>>
    BY InnermostPairs
  <2>3. QED
    BY <2>1, <2>2
<1>2. ASSUME NEW q \in Due(where) PROVE q \in DOMAIN R /\ R[q].to = l
  BY <1>1 DEF Ready
<1>3. QED
  BY <1>2 DEF Settle, Led

-----------------------------------------------------------------------------
(* Expressions, and the statements that begin and go on *)

LEMMA EmittedFacts ==
  ASSUME TypeOK, NEW s, Len(s) \in Nat
  PROVE  /\ DOMAIN Emitted(s) = DOMAIN quads \cup (currQuad .. currQuad + Len(s) - 1)
         /\ \A l \in currQuad .. currQuad + Len(s) - 1 : Emitted(s)[l] = s[l - currQuad + 1]
         /\ Stays(quads, Emitted(s))
<1>1. PICK c, Q, k : c = currQuad /\ Q = quads /\ k = Len(s)
  OBVIOUS
<1>2. c \in Nat /\ k \in Nat /\ DOMAIN Q \subseteq 0 .. c - 1
  BY <1>1, LengthsGrow
<1>3. PICK f : f = [l \in c .. c + k - 1 |-> s[l - c + 1]]
  OBVIOUS
<1>4. Emitted(s) = f @@ Q
  BY <1>1, <1>3 DEF Emitted
<1>5. DOMAIN f = c .. c + k - 1 /\ \A l \in c .. c + k - 1 : f[l] = s[l - c + 1]
  BY <1>3
<1>6. /\ DOMAIN (f @@ Q) = DOMAIN f \cup DOMAIN Q
      /\ \A x \in DOMAIN f : (f @@ Q)[x] = f[x]
      /\ \A x \in DOMAIN Q : x \notin DOMAIN f => (f @@ Q)[x] = Q[x]
  BY WrittenFacts
<1>7. \A x \in DOMAIN Q : x \notin DOMAIN f
  BY <1>2, <1>5
<1>8. Stays(Q, f @@ Q)
  BY <1>6, <1>7 DEF Stays
<1>9. QED
  BY <1>1, <1>4, <1>5, <1>6, <1>8

LEMMA EmittedFills ==
  ASSUME TypeOK, NEW s, Len(s) \in Nat,
         quads' = Emitted(s), currQuad' = currQuad + Len(s)
  PROVE  /\ Filled(quads, quads', {}, currQuad, currQuad') /\ currQuad <= currQuad'
         /\ Stays(quads, quads')
<1>1. currQuad \in Nat
  BY LengthsGrow
<1>2. /\ DOMAIN Emitted(s) = DOMAIN quads \cup (currQuad .. currQuad + Len(s) - 1)
      /\ Stays(quads, Emitted(s))
  BY EmittedFacts
<1>3. Filled(quads, quads', {}, currQuad, currQuad')
  <2>1. PICK a, b : a = currQuad /\ b = currQuad'
    OBVIOUS
  <2>2. {q \in a .. b - 1 : \A x \in {} : x[1] # q} = a .. b - 1
    OBVIOUS
  <2>3. b - 1 = currQuad + Len(s) - 1
    BY <1>1, <2>1
  <2>4. DOMAIN Emitted(s) = DOMAIN quads \cup (a .. b - 1)
    BY <1>2, <2>1, <2>3, Zenon
  <2>5. Filled(quads, Emitted(s), {}, a, b)
    BY <2>2, <2>4 DEF Filled
  <2>6. QED
    BY <2>1, <2>5
<1>4. QED
  BY <1>1, <1>2, <1>3

LEMMA EmitPromised ==
  ASSUME TypeOK, TypeOK', AllPromised, NEW s, Len(s) \in Nat, Emit(s)
  PROVE  AllPromised' /\ Stays(quads, quads')
<1>1. quads' = Emitted(s) /\ currQuad' = currQuad + Len(s) /\ UNCHANGED open
  BY DEF Emit
<1>2. /\ Filled(quads, quads', {}, currQuad, currQuad') /\ currQuad <= currQuad'
      /\ Stays(quads, quads')
  BY <1>1, EmittedFills
<1>3. Promising(Frames, Len(open), Frames', Len(open'), 0, {})
  BY <1>1, SamePromising
<1>4. QED
  BY <1>2, <1>3, MadePromises

LEMMA SameLed ==
  ASSUME AllLed, Stays(quads, quads'), UNCHANGED settled
  PROVE  AllLed'
BY DEF AllLed, Led, Stays

LEMMA EmitsPromised ==
  ASSUME TypeOK, TypeOK', AllPromised, AllLed,
         Expression \/ Logic \/ Relop \/ Call \/ Return
  PROVE  AllPromised' /\ AllLed' /\ Stays(quads, quads')
<1>1. CASE Expression
  <2>1. Emit(<<Plain>>) /\ Len(<<Plain>>) \in Nat /\ UNCHANGED settled
    BY <1>1 DEF Expression, Expr
  <2>2. QED
    BY <2>1, EmitPromised, SameLed
<1>2. CASE Logic
  <2>1. PICK op : Emit(<<Quad(op, 0)>>) /\ UNCHANGED settled
    BY <1>2 DEF Logic, Expr
  <2>2. Len(<<Quad(op, 0)>>) \in Nat
    OBVIOUS
  <2>3. QED
    BY <2>1, <2>2, EmitPromised, SameLed
<1>3. CASE Call
  <2>1. CASE Expr(<<Quad("call", 0), Quad("getretval", 0)>>)
    <3>1. /\ Emit(<<Quad("call", 0), Quad("getretval", 0)>>) /\ UNCHANGED settled
          /\ Len(<<Quad("call", 0), Quad("getretval", 0)>>) \in Nat
      BY <1>3, <2>1 DEF Call, Expr
    <3>2. QED
      BY <3>1, EmitPromised, SameLed
  <2>2. CASE Expr(<<Quad("param", 0), Quad("call", 0), Quad("getretval", 0)>>)
    <3>1. /\ Emit(<<Quad("param", 0), Quad("call", 0), Quad("getretval", 0)>>)
          /\ UNCHANGED settled
          /\ Len(<<Quad("param", 0), Quad("call", 0), Quad("getretval", 0)>>) \in Nat
      BY <1>3, <2>2 DEF Call, Expr
    <3>2. QED
      BY <3>1, EmitPromised, SameLed
  <2>3. QED
    BY <1>3, <2>1, <2>2 DEF Call
<1>4. CASE Return
  <2>1. Emit(<<Quad("ret", 0)>>) /\ Len(<<Quad("ret", 0)>>) \in Nat /\ UNCHANGED settled
    BY <1>4 DEF Return
  <2>2. QED
    BY <2>1, EmitPromised, SameLed
<1>5. CASE Relop
  <2> DEFINE s == <<Quad("branch", currQuad + 3), Plain, JumpTo(currQuad + 4), Plain>>
             X == {<<currQuad, currQuad + 3>>, <<currQuad + 2, currQuad + 4>>}
  <2>1. Emit(s) /\ Len(s) = 4 /\ Len(s) \in Nat /\ settled' = settled \cup X
    BY <1>5 DEF Relop, Expr
  <2>2. s[1].to = currQuad + 3 /\ s[3].to = currQuad + 4
    BY DEF Quad, JumpTo
  <2>3. currQuad \in Nat
    BY LengthsGrow
  <2> HIDE DEF s
  <2>4. AllPromised' /\ Stays(quads, quads')
    BY <2>1, EmitPromised
  <2>5. /\ DOMAIN Emitted(s) = DOMAIN quads \cup (currQuad .. currQuad + 4 - 1)
        /\ \A l \in currQuad .. currQuad + 4 - 1 : Emitted(s)[l] = s[l - currQuad + 1]
    <3>1. /\ DOMAIN Emitted(s) = DOMAIN quads \cup (currQuad .. currQuad + Len(s) - 1)
          /\ \A l \in currQuad .. currQuad + Len(s) - 1 :
               Emitted(s)[l] = s[l - currQuad + 1]
      BY <2>1, EmittedFacts
    <3>2. QED
      BY <2>1, <3>1
  <2>6. quads' = Emitted(s)
    BY <2>1 DEF Emit
  <2>7. /\ currQuad \in currQuad .. currQuad + 4 - 1 /\ currQuad - currQuad + 1 = 1
        /\ currQuad + 2 \in currQuad .. currQuad + 4 - 1 /\ currQuad + 2 - currQuad + 1 = 3
    BY <2>3
  <2>8. /\ currQuad \in DOMAIN quads' /\ quads'[currQuad].to = currQuad + 3
        /\ currQuad + 2 \in DOMAIN quads' /\ quads'[currQuad + 2].to = currQuad + 4
    BY <2>2, <2>5, <2>6, <2>7
  <2>9. Led(X, quads')
    BY <2>8 DEF Led
  <2> HIDE DEF X
  <2>10. QED
    BY <2>1, <2>4, <2>9, StillLed
<1>6. QED
  BY <1>1, <1>2, <1>3, <1>4, <1>5

LEMMA NothingFilled ==
  ASSUME TypeOK, UNCHANGED <<quads, currQuad>>
  PROVE  /\ Filled(quads, quads', {}, currQuad, currQuad') /\ currQuad <= currQuad'
         /\ Stays(quads, quads')
<1>1. currQuad \in Nat
  BY LengthsGrow
<1>2. currQuad .. currQuad - 1 = {}
  BY <1>1
<1>3. Filled(quads, quads, {}, currQuad, currQuad)
  BY <1>2 DEF Filled
<1>4. QED
  BY <1>1, <1>3, AllStays

LEMMA BeginsPromised ==
  ASSUME TypeOK, TypeOK', AllPromised, AllLed, FuncStart \/ IfBegin \/ WhileBegin \/ ForBegin
  PROVE  AllPromised' /\ AllLed' /\ Stays(quads, quads')
<1>1. PICK kind, at : open' = Push(open, Opened(kind, at)) /\ UNCHANGED settled
  BY DEF FuncStart, FuncHead, IfBegin, WhileBegin, ForBegin, LoopBegin
<1>2. Opened(kind, at).jumps = {}
  BY DEF Opened
<1>3. Promising(Frames, Len(open), Frames', Len(open'), 0, {})
  BY <1>1, <1>2, NewPromising
<1>4. /\ Filled(quads, quads', {}, currQuad, currQuad') /\ currQuad <= currQuad'
      /\ Stays(quads, quads')
  <2>1. CASE FuncStart
    <3>1. PICK q : quads' = Emitted(<<q>>) /\ currQuad' = currQuad + 1
      BY <2>1 DEF FuncStart, FuncHead
    <3>2. Len(<<q>>) = 1 /\ Len(<<q>>) \in Nat
      OBVIOUS
    <3>3. QED
      BY <3>1, <3>2, EmittedFills
  <2>2. CASE IfBegin \/ WhileBegin \/ ForBegin
    BY <2>2, NothingFilled DEF IfBegin, WhileBegin, ForBegin
  <2>3. QED
    BY <2>1, <2>2
<1>5. QED
  BY <1>1, <1>3, <1>4, MadePromises, SameLed

(* The test has been written, and the jump behind it is promised. *)
LEMMA TestPromised ==
  ASSUME TypeOK, TypeOK', AllPromised, AllLed, open # <<>>, NEW where,
         open' = [Promise(1, currQuad + 1, where) EXCEPT ![1].at = "body"],
         quads' = Test, currQuad' = currQuad + 2,
         settled' = settled \cup {<<currQuad, currQuad + 2>>}
  PROVE  AllPromised' /\ AllLed' /\ Stays(quads, quads')
<1> DEFINE s == <<Quad("branch", currQuad + 2)>>
           A == {<<currQuad + 1, where>>}
<1>1. currQuad \in Nat
  BY LengthsGrow
<1>2. Len(s) = 1 /\ Len(s) \in Nat /\ s[1].to = currQuad + 2 /\ quads' = Emitted(s)
  BY DEF Test, Quad
<1> HIDE DEF s
<1>3. /\ DOMAIN Emitted(s) = DOMAIN quads \cup (currQuad .. currQuad + 1 - 1)
      /\ \A l \in currQuad .. currQuad + 1 - 1 : Emitted(s)[l] = s[l - currQuad + 1]
      /\ Stays(quads, Emitted(s))
  <2>1. /\ DOMAIN Emitted(s) = DOMAIN quads \cup (currQuad .. currQuad + Len(s) - 1)
        /\ \A l \in currQuad .. currQuad + Len(s) - 1 : Emitted(s)[l] = s[l - currQuad + 1]
        /\ Stays(quads, Emitted(s))
    BY <1>2, EmittedFacts
  <2>2. QED
    BY <1>2, <2>1
<1>4. currQuad .. currQuad + 1 - 1 = {currQuad} /\ currQuad - currQuad + 1 = 1
  BY <1>1
<1>5. DOMAIN quads' = DOMAIN quads \cup {currQuad} /\ quads'[currQuad].to = currQuad + 2
  BY <1>2, <1>3, <1>4
<1>6. Filled(quads, quads', A, currQuad, currQuad')
  <2>1. \A q : q \in {r \in currQuad .. (currQuad + 2) - 1 : r # currQuad + 1} <=> q = currQuad
    BY <1>1
  <2>2. \A a : a \in A <=> a = <<currQuad + 1, where>>
    OBVIOUS
  <2>3. {q \in currQuad .. currQuad' - 1 : \A a \in A : a[1] # q} = {currQuad}
    BY <2>1, <2>2
  <2>4. currQuad + 1 \in currQuad .. currQuad' - 1
    BY <1>1
  <2>5. QED
    BY <1>5, <2>2, <2>3, <2>4 DEF Filled
<1>7. PICK J : J = Innermost.jumps \cup A
  OBVIOUS
<1>8. open' = GoesOn("body", Innermost.start, Innermost.step, J)
  BY <1>7, TestedAs
<1>9. Joined(J, A)
  BY <1>7 DEF Joined
<1> HIDE DEF A
<1>10. Promising(Frames, Len(open), Frames', Len(open'), Len(open) - 1, A)
  BY <1>8, <1>9, InnermostPromising
<1>11. AllPromised'
  BY <1>1, <1>6, <1>10, MadePromises
<1>12. Led({<<currQuad, currQuad + 2>>}, quads')
  BY <1>5 DEF Led
<1>13. QED
  BY <1>2, <1>3, <1>11, <1>12, StillLed

LEMMA TestsPromised ==
  ASSUME TypeOK, TypeOK', AllPromised, AllLed, IfThen \/ WhileBody
  PROVE  AllPromised' /\ AllLed' /\ Stays(quads, quads')
<1>1. open # <<>>
  BY DEF IfThen, WhileBody, Expecting
<1>2. QED
  BY <1>1, TestPromised DEF IfThen, WhileBody

(* A quad is reserved for a jump. *)
LEMMA OneReserved ==
  ASSUME TypeOK, UNCHANGED quads, currQuad' = currQuad + 1, NEW where
  PROVE  /\ Filled(quads, quads', {<<currQuad, where>>}, currQuad, currQuad')
         /\ currQuad <= currQuad' /\ Stays(quads, quads')
<1>1. PICK c, d, Q, A : c = currQuad /\ d = currQuad' /\ Q = quads /\ A = {<<c, where>>}
  OBVIOUS
<1>2. c \in Nat /\ d = c + 1
  BY <1>1, LengthsGrow
<1>3. {q \in c .. d - 1 : \A a \in A : a[1] # q} = {}
  <2>1. \A q \in c .. d - 1 : q = c
    BY <1>2
  <2>2. <<c, where>> \in A /\ <<c, where>>[1] = c
    BY <1>1
  <2>3. QED
    BY <2>1, <2>2
<1>4. Filled(Q, Q, A, c, d)
  <2>1. c \in c .. d - 1
    BY <1>2
  <2>2. \A a \in A : a = <<c, where>>
    BY <1>1
  <2>3. \A a \in A : a = <<a[1], a[2]>> /\ a[1] \in c .. d - 1
    BY <2>1, <2>2
  <2>4. \A a, b \in A : a[1] = b[1] => a = b
    BY <2>2
  <2>5. DOMAIN Q = DOMAIN Q \cup {q \in c .. d - 1 : \A a \in A : a[1] # q}
    BY <1>3
  <2>6. QED
    BY <2>3, <2>4, <2>5 DEF Filled
<1>5. QED
  BY <1>1, <1>2, <1>4, AllStays

LEMMA IfElsePromised ==
  ASSUME TypeOK, TypeOK', AllPromised, AllLed, IfElse
  PROVE  AllPromised' /\ AllLed' /\ Stays(quads, quads')
<1>1. /\ open # <<>> /\ UNCHANGED <<quads, settled>> /\ currQuad' = currQuad + 1
  BY DEF IfElse, Expecting
<1>2. PICK A, J : A = {<<currQuad, "end">>} /\ J = Innermost.jumps \cup A
  OBVIOUS
<1>3. open' = GoesOn("else", Innermost.start, currQuad + 1, J) /\ Joined(J, A)
  BY <1>2, ElseForm DEF Joined
<1>4. Promising(Frames, Len(open), Frames', Len(open'), Len(open) - 1, A)
  BY <1>1, <1>3, InnermostPromising
<1>5. /\ Filled(quads, quads', A, currQuad, currQuad') /\ currQuad <= currQuad'
      /\ Stays(quads, quads')
  BY <1>1, <1>2, OneReserved
<1>6. QED
  BY <1>1, <1>4, <1>5, MadePromises, SameLed

LEMMA ForCondPromised ==
  ASSUME TypeOK, TypeOK', AllPromised, AllLed, ForCond
  PROVE  AllPromised' /\ AllLed' /\ Stays(quads, quads')
<1>1. open # <<>> /\ UNCHANGED <<quads, currQuad, settled>>
  BY DEF ForCond, Expecting
<1>2. PICK A, J : A = {} /\ J = Innermost.jumps
  OBVIOUS
<1>3. open' = GoesOn("cond", currQuad, Innermost.step, J) /\ Joined(J, A)
  BY <1>2, CondForm DEF Joined
<1>4. Promising(Frames, Len(open), Frames', Len(open'), Len(open) - 1, A)
  BY <1>1, <1>3, InnermostPromising
<1>5. /\ Filled(quads, quads', A, currQuad, currQuad') /\ currQuad <= currQuad'
      /\ Stays(quads, quads')
  BY <1>1, <1>2, NothingFilled
<1>6. QED
  BY <1>1, <1>4, <1>5, MadePromises, SameLed

(* What the stacks say of the innermost statement. *)
LEMMA InnermostAround ==
  ASSUME TypeOK, Chained, open # <<>>
  PROVE  \E S : Around(S, Innermost, Now)
<1>1. PICK m : m = Len(open) - 1
  OBVIOUS
<1>2. m \in Nat /\ Len(open) = m + 1 /\ Frames[m] = Innermost
  BY <1>1, FramesTop
<1>3. PICK H : Chain(H, m + 1, Frames, Now)
  BY <1>2 DEF Chained
<1>4. PICK f, R, x : f = Frames /\ R = Now /\ x = Innermost
  OBVIOUS
<1>5. Around(H[m], f[m], R) /\ f[m] = x
  BY <1>2, <1>3, <1>4, ChainEnd
<1>6. QED
  BY <1>4, <1>5

LEMMA ForStepPromised ==
  ASSUME TypeOK, TypeOK', Chained, AllPromised, AllLed, ForStep
  PROVE  AllPromised' /\ AllLed' /\ Stays(quads, quads')
<1>1. /\ open # <<>> /\ Innermost.kind = "for" /\ Innermost.at = "cond"
      /\ UNCHANGED <<quads, settled>> /\ currQuad' = currQuad + 2 /\ currQuad \in Nat
  BY LengthsGrow DEF ForStep, Expecting
<1>2. Innermost.jumps = {}
  <2>1. PICK S : Around(S, Innermost, Now)
    BY <1>1, InnermostAround
  <2>2. ForTest(S, Innermost, Now)
    BY <1>1, <2>1, AroundIs
  <2>3. QED
    BY <2>2 DEF ForTest
<1>3. PICK A : A = {<<currQuad, "body">>, <<currQuad + 1, "end">>}
  OBVIOUS
<1>4. open' = GoesOn("step", Innermost.start, currQuad + 2, A) /\ Joined(A, A)
  BY <1>2, <1>3, StepForm DEF Joined
<1>5. Promising(Frames, Len(open), Frames', Len(open'), Len(open) - 1, A)
  BY <1>1, <1>4, InnermostPromising
<1>6. Filled(quads, quads', A, currQuad, currQuad')
  <2>1. PICK c, d, Q : c = currQuad /\ d = currQuad' /\ Q = quads
    OBVIOUS
  <2>2. c \in Nat /\ d = c + 2 /\ A = {<<c, "body">>, <<c + 1, "end">>}
    BY <1>1, <1>3, <2>1
  <2>3. \A a : a \in A <=> a = <<c, "body">> \/ a = <<c + 1, "end">>
    BY <2>2
  <2>4. \A q \in c .. d - 1 : q = c \/ q = c + 1
    BY <2>2
  <2>5. {q \in c .. d - 1 : \A a \in A : a[1] # q} = {}
    <3>1. ASSUME NEW q \in c .. d - 1 PROVE \E a \in A : a[1] = q
      <4>1. /\ <<c, "body">> \in A /\ <<c, "body">>[1] = c
            /\ <<c + 1, "end">> \in A /\ <<c + 1, "end">>[1] = c + 1
        BY <2>3
      <4>2. QED
        BY <2>4, <4>1
    <3>2. QED
      BY <3>1
  <2>6. c \in c .. d - 1 /\ c + 1 \in c .. d - 1 /\ c # c + 1
    BY <2>2
  <2>7. \A a \in A : a = <<a[1], a[2]>> /\ a[1] \in c .. d - 1
    BY <2>3, <2>6
  <2>8. \A a, b \in A : a[1] = b[1] => a = b
    BY <2>3, <2>6
  <2>9. Filled(Q, Q, A, c, d)
    BY <2>5, <2>7, <2>8 DEF Filled
  <2>10. QED
    BY <1>1, <2>1, <2>9
<1>7. currQuad <= currQuad' /\ Stays(quads, quads')
  BY <1>1, AllStays
<1>8. QED
  BY <1>1, <1>5, <1>6, <1>7, MadePromises, SameLed

LEMMA BreaksPromised ==
  ASSUME OpensInv, TypeOK', errors = 0, AllPromised, AllLed, Break \/ Continue
  PROVE  AllPromised' /\ AllLed' /\ Stays(quads, quads')
<1>1. TypeOK /\ InBody /\ LoopsHere # {}
  BY BreaksJustified DEF OpensInv, Break, Continue
<1>2. PICK where : Promised(where)
  BY DEF Break, Continue
<1>3. /\ UNCHANGED <<quads, settled>> /\ currQuad' = currQuad + 1
  BY DEF Break, Continue
<1>4. PICK i : i = ThisLoop
  OBVIOUS
<1>5. i \in DOMAIN open /\ open' = Promise(i, currQuad, where)
  BY <1>1, <1>2, <1>4, LoopDepth DEF Promised
<1> DEFINE k == Len(open) - i
<1>6. /\ Len(open') = Len(open) /\ k \in 0 .. Len(open) - 1
      /\ SameBut(Frames, Frames', Len(open), k)
      /\ Gains(Frames[k], Frames'[k], currQuad, where)
  BY <1>1, <1>5, PromisedForm
<1> HIDE DEF k
<1>7. Promising(Frames, Len(open), Frames', Len(open'), k, {<<currQuad, where>>})
  BY <1>1, <1>6, LoopPromising
<1>8. /\ Filled(quads, quads', {<<currQuad, where>>}, currQuad, currQuad')
      /\ currQuad <= currQuad' /\ Stays(quads, quads')
  BY <1>1, <1>3, OneReserved
<1>9. QED
  BY <1>1, <1>3, <1>7, <1>8, MadePromises, SameLed

-----------------------------------------------------------------------------
(* Statements end *)

WritesOne(Q, R, q, v) == q \notin DOMAIN Q /\ R = (q :> v) @@ Q
WritesBoth(Q, R, q, v, r, w) ==
  /\ q \notin DOMAIN Q /\ r \notin DOMAIN Q /\ q # r
  /\ R = ((q :> v) @@ (r :> w)) @@ Q

LEMMA OneWritten ==
  ASSUME NEW Q, NEW R, NEW q, NEW v, WritesOne(Q, R, q, v)
  PROVE  Stays(Q, R) /\ DOMAIN R = DOMAIN Q \cup {q} /\ R[q] = v
<1>1. PICK f : f = (q :> v)
  OBVIOUS
<1>2. DOMAIN f = {q} /\ f[q] = v
  BY <1>1, OneFacts
<1>3. /\ DOMAIN (f @@ Q) = DOMAIN f \cup DOMAIN Q
      /\ \A x \in DOMAIN f : (f @@ Q)[x] = f[x]
      /\ \A x \in DOMAIN Q : x \notin DOMAIN f => (f @@ Q)[x] = Q[x]
  BY WrittenFacts
<1>4. Stays(Q, f @@ Q)
  BY <1>2, <1>3 DEF Stays, WritesOne
<1>5. R = f @@ Q
  BY <1>1 DEF WritesOne
<1>6. QED
  BY <1>2, <1>3, <1>4, <1>5

LEMMA TwoWritten ==
  ASSUME NEW Q, NEW R, NEW q, NEW v, NEW r, NEW w, WritesBoth(Q, R, q, v, r, w)
  PROVE  Stays(Q, R) /\ DOMAIN R = DOMAIN Q \cup {q, r} /\ R[q] = v /\ R[r] = w
<1>1. PICK f, g : f = (q :> v) /\ g = (r :> w)
  OBVIOUS
<1>2. DOMAIN f = {q} /\ f[q] = v /\ DOMAIN g = {r} /\ g[r] = w
  BY <1>1, OneFacts
<1>3. PICK h : h = f @@ g
  OBVIOUS
<1>4. DOMAIN h = {q, r} /\ h[q] = v /\ h[r] = w
  <2>1. /\ DOMAIN (f @@ g) = DOMAIN f \cup DOMAIN g
        /\ \A x \in DOMAIN f : (f @@ g)[x] = f[x]
        /\ \A x \in DOMAIN g : x \notin DOMAIN f => (f @@ g)[x] = g[x]
    BY WrittenFacts
  <2>2. QED
    BY <1>2, <1>3, <2>1 DEF WritesBoth
<1>5. /\ DOMAIN (h @@ Q) = DOMAIN h \cup DOMAIN Q
      /\ \A x \in DOMAIN h : (h @@ Q)[x] = h[x]
      /\ \A x \in DOMAIN Q : x \notin DOMAIN h => (h @@ Q)[x] = Q[x]
  BY WrittenFacts
<1>6. Stays(Q, h @@ Q)
  BY <1>4, <1>5 DEF Stays, WritesBoth
<1>7. DOMAIN (h @@ Q) = DOMAIN Q \cup {q, r} /\ (h @@ Q)[q] = v /\ (h @@ Q)[r] = w
  BY <1>4, <1>5
<1>8. R = h @@ Q
  BY <1>1, <1>3 DEF WritesBoth
<1>9. QED
  BY <1>6, <1>7, <1>8

(* Where jumps lead. *)
LEMMA QuadsLead == \A op, l : Quad(op, l).to = l /\ JumpTo(l).to = l
BY DEF Quad, JumpTo

LEMMA FuncEndPromised ==
  ASSUME TypeOK, TypeOK', Chained, AllPromised, AllLed, FuncEnd
  PROVE  AllPromised' /\ AllLed' /\ Stays(quads, quads')
<1>1. /\ open # <<>> /\ Innermost.kind = "function" /\ Innermost.at = "body"
      /\ open' = Tail(open) /\ currQuad' = currQuad + 1 /\ currQuad \in Nat
      /\ settled' = settled \cup {<<currQuad, Innermost.start>>}
  BY LengthsGrow DEF FuncEnd, Expecting
<1>2. Head(function_name_stack) = Innermost.start /\ Innermost.jumps = {}
  <2>1. PICK S : Around(S, Innermost, Now)
    BY <1>1, InnermostAround
  <2>2. InFunction(S, Innermost, Now)
    BY <1>1, <2>1, AroundIs
  <2>3. QED
    BY <2>2, InFunctionIs DEF Now
<1> DEFINE s == <<Quad("func_end", Head(function_name_stack))>>
<1>3. quads' = Emitted(s) /\ Len(s) = 1 /\ Len(s) \in Nat /\ s[1].to = Innermost.start
  BY <1>2, QuadsLead DEF FuncEnd
<1> HIDE DEF s
<1>4. /\ DOMAIN quads' = DOMAIN quads \cup (currQuad .. currQuad + 1 - 1)
      /\ \A l \in currQuad .. currQuad + 1 - 1 : quads'[l] = s[l - currQuad + 1]
      /\ Stays(quads, quads')
  <2>1. /\ DOMAIN Emitted(s) = DOMAIN quads \cup (currQuad .. currQuad + Len(s) - 1)
        /\ \A l \in currQuad .. currQuad + Len(s) - 1 : Emitted(s)[l] = s[l - currQuad + 1]
        /\ Stays(quads, Emitted(s))
    BY <1>3, EmittedFacts
  <2>2. QED
    BY <1>3, <2>1
<1>5. currQuad \in currQuad .. currQuad + 1 - 1 /\ currQuad - currQuad + 1 = 1
  BY <1>1
<1>6. currQuad \in DOMAIN quads' /\ quads'[currQuad].to = Innermost.start
  BY <1>3, <1>4, <1>5
<1>7. Led({<<currQuad, Innermost.start>>}, quads')
  BY <1>6 DEF Led
<1>8. Writing(quads, quads', Innermost.jumps, currQuad, currQuad')
  BY <1>1, <1>2, <1>4 DEF Writing
<1>9. Keeping(Frames, Len(open), Frames', Len(open'), Innermost.jumps)
  BY <1>1, EndKeeping
<1>10. PICK X : X = Innermost.jumps
  OBVIOUS
<1>11. currQuad <= currQuad'
  BY <1>1
<1>12. AllPromised'
  BY <1>8, <1>9, <1>10, <1>11, KeptPromises
<1>13. QED
  BY <1>1, <1>4, <1>7, <1>12, StillLed

LEMMA IfEndPromised ==
  ASSUME OpensInv, TypeOK', Chained, AllPromised, AllLed, IfEnd
  PROVE  AllPromised' /\ AllLed' /\ Stays(quads, quads')
<1> DEFINE h == Head(if_label_stack)
           e == Head(else_label_stack)
<1>1. /\ TypeOK /\ open # <<>> /\ Innermost.kind = "if" /\ open' = Tail(open)
      /\ Innermost.at = "body" \/ Innermost.at = "else"
      /\ currQuad' = currQuad /\ currQuad \in Nat
  BY LengthsGrow DEF OpensInv, IfEnd, Expecting
<1>2. PICK S : Around(S, Innermost, Now)
  BY <1>1, InnermostAround
<1>3. PICK l : l = IF Innermost.at = "else" THEN Innermost.step ELSE currQuad
  OBVIOUS
<1>4. settled' = settled \cup (Settle("end", currQuad) \cup Settle("else", l))
  BY <1>3 DEF IfEnd
<1>5. /\ Stays(quads, quads')
      /\ Writing(quads, quads', Innermost.jumps, currQuad, currQuad')
      /\ Ready(Innermost.jumps, "end", quads', currQuad)
      /\ Ready(Innermost.jumps, "else", quads', l)
  <2>0. /\ \A q, w : <<q, w>> \in Innermost.jumps => q \notin DOMAIN quads
        /\ \A q, v, w : <<q, v>> \in Innermost.jumps /\ <<q, w>> \in Innermost.jumps => v = w
    BY <1>1, InnermostUnwritten
  <2>9. currQuad .. currQuad' - 1 = {}
    BY <1>1
  <2>1. CASE Innermost.at = "body"
    <3>1. IfBody(S, Innermost, Now)
      BY <1>1, <1>2, <2>1, AroundIs
    <3>2. Innermost.jumps = {<<h, "else">>}
      BY <3>1, IfBodyIs DEF Now
    <3>3. quads' = (h :> JumpTo(currQuad)) @@ quads
      BY <2>1, IfEndForms
    <3> HIDE DEF h, e
    <3>4. h \notin DOMAIN quads
      BY <2>0, <3>2
    <3>5. /\ Stays(quads, quads') /\ DOMAIN quads' = DOMAIN quads \cup {h}
          /\ quads'[h] = JumpTo(currQuad)
      <4>1. PICK Q, R, q, v : Q = quads /\ R = quads' /\ q = h /\ v = JumpTo(currQuad)
        OBVIOUS
      <4>2. WritesOne(Q, R, q, v)
        BY <3>3, <3>4, <4>1 DEF WritesOne
      <4>3. Stays(Q, R) /\ DOMAIN R = DOMAIN Q \cup {q} /\ R[q] = v
        BY <4>2, OneWritten
      <4>4. QED
        BY <4>1, <4>3
    <3>6. Writing(quads, quads', Innermost.jumps, currQuad, currQuad')
      BY <2>9, <3>2, <3>5 DEF Writing
    <3>7. \A q : /\ <<q, "end">> \notin Innermost.jumps
                 /\ <<q, "else">> \in Innermost.jumps => q = h
      BY <3>2
    <3>8. l = currQuad /\ quads'[h].to = currQuad /\ h \in DOMAIN quads'
      BY <1>3, <2>1, <3>5, QuadsLead
    <3>9. QED
      BY <3>5, <3>6, <3>7, <3>8 DEF Ready
  <2>2. CASE Innermost.at = "else"
    <3>1. IfOther(S, Innermost, Now)
      BY <1>1, <1>2, <2>2, AroundIs
    <3>2. Innermost.jumps = {<<h, "else">>, <<e, "end">>} /\ Innermost.step = e + 1
      BY <3>1, IfOtherIs DEF Now
    <3>3. quads' = ((h :> JumpTo(e + 1)) @@ (e :> JumpTo(currQuad))) @@ quads
      BY <2>2, IfEndForms
    <3> HIDE DEF h, e
    <3>4. h \notin DOMAIN quads /\ e \notin DOMAIN quads
      BY <2>0, <3>2
    <3>5. h # e
      BY <2>0, <3>2
    <3>7. /\ Stays(quads, quads') /\ DOMAIN quads' = DOMAIN quads \cup {h, e}
          /\ quads'[h] = JumpTo(e + 1) /\ quads'[e] = JumpTo(currQuad)
      <4>1. PICK Q, R, q, v, r, w :
              /\ Q = quads /\ R = quads' /\ q = h /\ v = JumpTo(e + 1)
              /\ r = e /\ w = JumpTo(currQuad)
        OBVIOUS
      <4>2. WritesBoth(Q, R, q, v, r, w)
        BY <3>3, <3>4, <3>5, <4>1 DEF WritesBoth
      <4>3. Stays(Q, R) /\ DOMAIN R = DOMAIN Q \cup {q, r} /\ R[q] = v /\ R[r] = w
        BY <4>2, TwoWritten
      <4>4. QED
        BY <4>1, <4>3
    <3>8. Writing(quads, quads', Innermost.jumps, currQuad, currQuad')
      <4>1. {x[1] : x \in Innermost.jumps} = {h, e}
        BY <3>2
      <4>2. QED
        BY <2>9, <3>7, <4>1 DEF Writing
    <3>9. \A q : /\ <<q, "end">> \in Innermost.jumps => q = e
                 /\ <<q, "else">> \in Innermost.jumps => q = h
      BY <3>2
    <3>10. /\ l = e + 1 /\ quads'[h].to = e + 1 /\ h \in DOMAIN quads'
           /\ quads'[e].to = currQuad /\ e \in DOMAIN quads'
      BY <1>3, <2>2, <3>2, <3>7, QuadsLead
    <3>11. QED
      BY <3>7, <3>8, <3>9, <3>10 DEF Ready
  <2>3. QED
    BY <1>1, <2>1, <2>2
<1> HIDE DEF h, e
<1>6. PICK a, b : a = "end" /\ b = "else"
  OBVIOUS
<1>7. Led(Settle(a, currQuad), quads') /\ Led(Settle(b, l), quads')
  BY <1>1, <1>5, <1>6, SettledLed
<1>8. PICK Y : Y = Settle("end", currQuad) \cup Settle("else", l)
  OBVIOUS
<1>9. Led(Y, quads') /\ settled' = settled \cup Y
  BY <1>4, <1>6, <1>7, <1>8 DEF Led
<1>10. AllLed'
  BY <1>5, <1>9, StillLed
<1>11. PICK X : X = Innermost.jumps
  OBVIOUS
<1>12. Keeping(Frames, Len(open), Frames', Len(open'), X) /\ currQuad <= currQuad'
  BY <1>1, <1>11, EndKeeping
<1>13. QED
  BY <1>1, <1>5, <1>10, <1>11, <1>12, KeptPromises

LEMMA ForBodyPromised ==
  ASSUME TypeOK, TypeOK', Chained, AllPromised, AllLed, ForBody
  PROVE  AllPromised' /\ AllLed' /\ Stays(quads, quads')
<1> DEFINE s == Head(loops.for_start_stack)
           a == Head(for_expr_start_stack)
<1>1. /\ open # <<>> /\ Innermost.kind = "for" /\ Innermost.at = "step"
      /\ currQuad' = currQuad + 1 /\ currQuad \in Nat
      /\ open' = GoesOn("body", Innermost.start, Innermost.step,
                        {p \in Innermost.jumps : p[2] # "body"})
  BY LengthsGrow, BodyForm DEF ForBody, StepDone, Expecting
<1>2. Innermost.jumps = {<<s, "body">>, <<s + 1, "end">>} /\ a = Innermost.start
  <2>1. PICK S : Around(S, Innermost, Now)
    BY <1>1, InnermostAround
  <2>2. ForNext(S, Innermost, Now)
    BY <1>1, <2>1, AroundIs
  <2>3. /\ Innermost.jumps = {<<s, "body">>, <<s + 1, "end">>}
        /\ ForLater(S, Innermost, Now)
    BY <2>2, ForNextIs DEF Now
  <2>4. a = Innermost.start
    BY <2>3, ForLaterIs DEF Now
  <2>5. QED
    BY <2>3, <2>4
<1>3. quads' = ((currQuad :> JumpTo(a)) @@ (s :> Quad("branch", currQuad + 1))) @@ quads
  BY DEF ForBody, StepDone
<1>4. settled' = settled \cup ({<<currQuad, a>>} \cup Settle("body", currQuad + 1))
  BY <1>2 DEF ForBody, StepDone
<1> HIDE DEF s, a
<1>5. /\ s \notin DOMAIN quads /\ s \in 0 .. currQuad - 1 /\ currQuad \notin DOMAIN quads
  <2>1. <<s, "body">> \in Innermost.jumps
    BY <1>2
  <2>2. s \notin DOMAIN quads /\ s \in 0 .. currQuad - 1
    BY <1>1, <2>1, InnermostUnwritten
  <2>3. currQuad \notin DOMAIN quads
    BY <1>1, LengthsGrow
  <2>4. QED
    BY <2>2, <2>3
<1>6. /\ Stays(quads, quads') /\ DOMAIN quads' = DOMAIN quads \cup {currQuad, s}
      /\ quads'[currQuad].to = a /\ quads'[s].to = currQuad + 1
  <2>1. PICK Q, R, q, v, r, w :
          /\ Q = quads /\ R = quads' /\ q = currQuad /\ v = JumpTo(a)
          /\ r = s /\ w = Quad("branch", currQuad + 1)
    OBVIOUS
  <2>2. q # r
    BY <1>1, <1>5, <2>1
  <2>3. WritesBoth(Q, R, q, v, r, w)
    BY <1>3, <1>5, <2>1, <2>2 DEF WritesBoth
  <2>4. Stays(Q, R) /\ DOMAIN R = DOMAIN Q \cup {q, r} /\ R[q] = v /\ R[r] = w
    BY <2>3, TwoWritten
  <2>5. v.to = a /\ w.to = currQuad + 1
    BY <2>1, QuadsLead
  <2>6. QED
    BY <2>1, <2>4, <2>5
<1>7. PICK X, J : X = {<<s, "body">>} /\ J = {p \in Innermost.jumps : p[2] # "body"}
  OBVIOUS
<1>8. X \subseteq Innermost.jumps /\ Left(J, X)
  <2>1. <<s, "body">>[2] = "body" /\ <<s + 1, "end">>[2] = "end" /\ "end" # "body"
    OBVIOUS
  <2>2. \A p : p \in J <=> p = <<s + 1, "end">>
    BY <1>2, <1>7, <2>1
  <2>3. \A p : p \in Innermost.jumps \ X <=> p = <<s + 1, "end">>
    BY <1>2, <1>7, <2>1
  <2>4. J = Innermost.jumps \ X
    BY <2>2, <2>3
  <2>5. QED
    BY <1>2, <1>7, <2>4 DEF Left
<1>9. Keeping(Frames, Len(open), Frames', Len(open'), X)
  <2>1. open' = GoesOn("body", Innermost.start, Innermost.step, J)
    BY <1>1, <1>7
  <2>2. QED
    BY <1>1, <1>8, <2>1, GoesOnKeeping
<1>10. Writing(quads, quads', X, currQuad, currQuad') /\ currQuad <= currQuad'
  <2>1. currQuad .. currQuad' - 1 = {currQuad}
    BY <1>1
  <2>2. {x[1] : x \in X} = {s}
    BY <1>7
  <2>3. currQuad <= currQuad'
    BY <1>1
  <2>4. QED
    BY <1>6, <2>1, <2>2, <2>3 DEF Writing
<1>11. AllPromised'
  BY <1>9, <1>10, KeptPromises
<1>12. Ready(Innermost.jumps, "body", quads', currQuad + 1)
  <2>1. \A q : <<q, "body">> \in Innermost.jumps => q = s
    BY <1>2
  <2>2. QED
    BY <1>6, <2>1 DEF Ready
<1>13. Led({<<currQuad, a>>} \cup Settle("body", currQuad + 1), quads')
  <2>1. PICK b : b = "body"
    OBVIOUS
  <2>2. Led(Settle(b, currQuad + 1), quads')
    BY <1>1, <1>12, <2>1, SettledLed
  <2>3. Led({<<currQuad, a>>}, quads')
    BY <1>6 DEF Led
  <2>4. QED
    BY <2>1, <2>2, <2>3 DEF Led
<1>14. QED
  BY <1>4, <1>6, <1>11, <1>13, StillLed

(* The end of a loop: the jump back, the one out of it, and the breaks and *)
(* the continues that the loop has counted.                                *)
Leads(P, D, l) == DOMAIN P = D /\ \A q \in D : P[q].to = l

LoopWrites(Q, R, P, S, c, v, e, w, B, C, l, back) ==
  /\ Leads(P, B, l) /\ Leads(S, C, back) /\ v.to = back /\ w.to = l
  /\ c \notin DOMAIN Q /\ e \notin DOMAIN Q /\ c # e
  /\ \A q \in B \cup C : q \notin DOMAIN Q /\ q # c
  /\ \A q \in C : q # e /\ q \notin B
  /\ R = (P @@ S) @@ (((c :> v) @@ (e :> w)) @@ Q)

LoopLeads(Q, R, c, e, B, C, l, back) ==
  /\ Stays(Q, R) /\ DOMAIN R = DOMAIN Q \cup {c, e} \cup B \cup C
  /\ R[c].to = back /\ R[e].to = l
  /\ \A q \in B : R[q].to = l
  /\ \A q \in C : R[q].to = back

LEMMA LoopWritten ==
  ASSUME NEW Q, NEW R, NEW P, NEW S, NEW c, NEW v, NEW e, NEW w, NEW B, NEW C, NEW l,
         NEW back, LoopWrites(Q, R, P, S, c, v, e, w, B, C, l, back)
  PROVE  LoopLeads(Q, R, c, e, B, C, l, back)
<1>1. PICK M, N : M = ((c :> v) @@ (e :> w)) @@ Q /\ N = P @@ S
  OBVIOUS
<1>2. WritesBoth(Q, M, c, v, e, w)
  BY <1>1 DEF LoopWrites, WritesBoth
<1>3. Stays(Q, M) /\ DOMAIN M = DOMAIN Q \cup {c, e} /\ M[c] = v /\ M[e] = w
  BY <1>2, TwoWritten
<1>4. /\ DOMAIN (P @@ S) = DOMAIN P \cup DOMAIN S
      /\ \A x \in DOMAIN P : (P @@ S)[x] = P[x]
      /\ \A x \in DOMAIN S : x \notin DOMAIN P => (P @@ S)[x] = S[x]
  BY WrittenFacts
<1>5. DOMAIN P = B /\ DOMAIN S = C
  BY DEF LoopWrites, Leads
<1>6. /\ DOMAIN N = B \cup C
      /\ \A q \in B : N[q].to = l
      /\ \A q \in C : N[q].to = back
  BY <1>1, <1>4, <1>5 DEF LoopWrites, Leads
<1>7. /\ DOMAIN (N @@ M) = DOMAIN N \cup DOMAIN M
      /\ \A x \in DOMAIN N : (N @@ M)[x] = N[x]
      /\ \A x \in DOMAIN M : x \notin DOMAIN N => (N @@ M)[x] = M[x]
  BY WrittenFacts
<1>8. R = N @@ M
  BY <1>1 DEF LoopWrites
<1>9. Stays(Q, R)
  BY <1>3, <1>6, <1>7, <1>8 DEF Stays, LoopWrites
<1>10. R[c].to = back
  <2>1. c \notin DOMAIN N /\ c \in DOMAIN M
    BY <1>3, <1>6 DEF LoopWrites
  <2>2. R[c] = v
    BY <1>3, <1>7, <1>8, <2>1
  <2>3. QED
    BY <2>2 DEF LoopWrites
<1>11. R[e].to = l
  <2>1. CASE e \in B
    BY <1>6, <1>7, <1>8, <2>1
  <2>2. CASE e \notin B
    <3>1. e \notin DOMAIN N /\ e \in DOMAIN M
      BY <1>3, <1>6, <2>2 DEF LoopWrites
    <3>2. R[e] = w
      BY <1>3, <1>7, <1>8, <3>1
    <3>3. QED
      BY <3>2 DEF LoopWrites
  <2>3. QED
    BY <2>1, <2>2
<1>12. /\ DOMAIN R = DOMAIN Q \cup {c, e} \cup B \cup C
       /\ \A q \in B : R[q].to = l
       /\ \A q \in C : R[q].to = back
  BY <1>3, <1>6, <1>7, <1>8
<1>13. QED
  BY <1>9, <1>10, <1>11, <1>12 DEF LoopLeads

LEMMA PatchedLeads ==
  ASSUME NEW s, NEW n, NEW l
  PROVE  Leads(Patched(s, n, l), {s[i] : i \in 1 .. n}, l)
BY QuadsLead DEF Patched, Leads

LoopJumps(J, e, s, h, t, k, B, C) ==
  /\ B = {s[i] : i \in 1 .. h} /\ C = {t[i] : i \in 1 .. k}
  /\ J = {<<e, "end">>} \cup (First(s, h, "end") \cup First(t, k, "start"))

LEMMA JumpsOfLoop ==
  ASSUME NEW J, NEW e, NEW s, NEW h, NEW t, NEW k, NEW B, NEW C,
         LoopJumps(J, e, s, h, t, k, B, C)
  PROVE  /\ \A q : <<q, "end">> \in J <=> q = e \/ q \in B
         /\ \A q : <<q, "start">> \in J <=> q \in C
         /\ {x[1] : x \in J} = {e} \cup B \cup C
<1>1. /\ \A q : <<q, "end">> \in First(s, h, "end") <=> q \in B
      /\ \A q : <<q, "start">> \in First(t, k, "start") <=> q \in C
      /\ \A q : <<q, "start">> \notin First(s, h, "end")
      /\ \A q : <<q, "end">> \notin First(t, k, "start")
      /\ \A x \in First(s, h, "end") : x[1] \in B
      /\ \A x \in First(t, k, "start") : x[1] \in C
  BY DEF First, LoopJumps
<1>2. /\ \A q : <<q, "end">> \in J <=> q = e \/ q \in B
      /\ \A q : <<q, "start">> \in J <=> q \in C
  BY <1>1 DEF LoopJumps
<1>3. \A x \in J : x[1] \in {e} \cup B \cup C
  BY <1>1 DEF LoopJumps
<1>4. ASSUME NEW q \in {e} \cup B \cup C PROVE \E x \in J : x[1] = q
  <2>1. <<q, "end">>[1] = q /\ <<q, "start">>[1] = q
    OBVIOUS
  <2>2. QED
    BY <1>2, <2>1
<1>5. QED
  BY <1>2, <1>3, <1>4

LoopEnds(e, back) ==
  /\ open # <<>> /\ open' = Tail(open) /\ currQuad' = currQuad + 1 /\ Counted(loops)
  /\ Innermost.jumps = {<<e, "end">>} \cup Counts(loops)
  /\ quads' = JumpsOut((currQuad :> JumpTo(back)) @@ (e :> JumpTo(currQuad + 1)) @@ quads,
                       back)
  /\ settled' = settled \cup {<<currQuad, back>>}
                  \cup Settle("start", back) \cup Settle("end", currQuad + 1)

LEMMA LoopPromised ==
  ASSUME TypeOK, TypeOK', AllPromised, AllLed, NEW e, NEW back, LoopEnds(e, back)
  PROVE  AllPromised' /\ AllLed' /\ Stays(quads, quads')
<1> DEFINE s == loops.break_stack
           t == loops.continue_stack
           h == Head(loops.num_of_breaks_stack)
           k == Head(loops.num_of_continues_stack)
<1>1. /\ open # <<>> /\ open' = Tail(open) /\ currQuad' = currQuad + 1 /\ currQuad \in Nat
      /\ Counted(loops)
  BY LengthsGrow DEF LoopEnds
<1>2. Breaks = h /\ Continues = k
  BY <1>1, CountsPoppedIs
<1>3. PICK B, C, J, l :
        /\ l = currQuad + 1
        /\ B = {s[i] : i \in 1 .. h} /\ C = {t[i] : i \in 1 .. k} /\ J = Innermost.jumps
  OBVIOUS
<1>4. /\ \A q : <<q, "end">> \in J <=> q = e \/ q \in B
      /\ \A q : <<q, "start">> \in J <=> q \in C
      /\ {x[1] : x \in J} = {e} \cup B \cup C
  <2>1. J = {<<e, "end">>} \cup (First(s, h, "end") \cup First(t, k, "start"))
    BY <1>3 DEF LoopEnds, Counts
  <2> HIDE DEF s, t, h, k
  <2>2. LoopJumps(J, e, s, h, t, k, B, C)
    BY <1>3, <2>1 DEF LoopJumps
  <2>3. QED
    BY <2>2, JumpsOfLoop
<1>5. /\ \A q, w : <<q, w>> \in J => q \in 0 .. currQuad - 1 /\ q \notin DOMAIN quads
      /\ \A q, v, w : <<q, v>> \in J /\ <<q, w>> \in J => v = w
  BY <1>1, <1>3, InnermostUnwritten
<1>6. /\ \A q \in B \cup C : q \notin DOMAIN quads /\ q # currQuad
      /\ \A q \in C : q # e /\ q \notin B
      /\ e \notin DOMAIN quads /\ currQuad # e /\ currQuad \notin DOMAIN quads
  <2>1. \A q \in 0 .. currQuad - 1 : q # currQuad
    BY <1>1
  <2>2. currQuad \notin DOMAIN quads
    BY <1>1, LengthsGrow
  <2>3. "end" # "start"
    OBVIOUS
  <2>4. \A q \in B \cup C : q \in 0 .. currQuad - 1 /\ q \notin DOMAIN quads
    BY <1>4, <1>5
  <2>5. e \in 0 .. currQuad - 1 /\ e \notin DOMAIN quads
    BY <1>4, <1>5
  <2>6. \A q \in C : q # e /\ q \notin B
    BY <1>4, <1>5, <2>3
  <2>7. QED
    BY <2>1, <2>2, <2>4, <2>5, <2>6
<1>7. PICK P, S, v, w :
        /\ P = Patched(s, h, l) /\ S = Patched(t, k, back)
        /\ v = JumpTo(back) /\ w = JumpTo(l)
  OBVIOUS
<1>8. Leads(P, B, l) /\ Leads(S, C, back) /\ v.to = back /\ w.to = l
  BY <1>3, <1>7, PatchedLeads, QuadsLead
<1>9. quads' = (P @@ S) @@ (((currQuad :> v) @@ (e :> w)) @@ quads)
  BY <1>2, <1>3, <1>7 DEF LoopEnds, JumpsOut
<1> HIDE DEF s, t, h, k
<1>10. /\ Stays(quads, quads') /\ DOMAIN quads' = DOMAIN quads \cup {currQuad, e} \cup B \cup C
       /\ quads'[currQuad].to = back /\ quads'[e].to = l
       /\ \A q \in B : quads'[q].to = l
       /\ \A q \in C : quads'[q].to = back
  <2>1. PICK Q, R, c : Q = quads /\ R = quads' /\ c = currQuad
    OBVIOUS
  <2>2. LoopWrites(Q, R, P, S, c, v, e, w, B, C, l, back)
    BY <1>6, <1>8, <1>9, <2>1 DEF LoopWrites
  <2>3. LoopLeads(Q, R, c, e, B, C, l, back)
    BY <2>2, LoopWritten
  <2>4. QED
    BY <2>1, <2>3 DEF LoopLeads
<1>11. Writing(quads, quads', J, currQuad, currQuad') /\ currQuad <= currQuad'
  <2>1. currQuad .. currQuad' - 1 = {currQuad} /\ currQuad <= currQuad'
    BY <1>1
  <2>2. QED
    BY <1>4, <1>10, <2>1 DEF Writing
<1>12. Keeping(Frames, Len(open), Frames', Len(open'), J)
  BY <1>1, <1>3, EndKeeping
<1>13. AllPromised'
  BY <1>11, <1>12, KeptPromises
<1>14. /\ Ready(Innermost.jumps, "end", quads', l)
       /\ Ready(Innermost.jumps, "start", quads', back)
  BY <1>3, <1>4, <1>10 DEF Ready
<1>15. PICK a, b : a = "end" /\ b = "start"
  OBVIOUS
<1>16. Led(Settle(a, l), quads') /\ Led(Settle(b, back), quads')
  BY <1>1, <1>14, <1>15, SettledLed
<1>17. Led({<<currQuad, back>>}, quads')
  BY <1>10 DEF Led
<1>18. PICK Y : Y = {<<currQuad, back>>} \cup Settle("start", back) \cup Settle("end", l)
  OBVIOUS
<1>19. settled' = settled \cup Y
  BY <1>3, <1>18 DEF LoopEnds
<1>20. Led(Y, quads')
  BY <1>15, <1>16, <1>17, <1>18 DEF Led
<1>21. QED
  BY <1>10, <1>13, <1>19, <1>20, StillLed

LEMMA WhileEndPromised ==
  ASSUME TypeOK, TypeOK', Chained, AllPromised, AllLed, WhileEnd
  PROVE  AllPromised' /\ AllLed' /\ Stays(quads, quads')
<1>1. open # <<>> /\ Innermost.kind = "while" /\ Innermost.at = "body"
  BY DEF WhileEnd, Expecting
<1>2. PICK S : Around(S, Innermost, Now)
  BY <1>1, InnermostAround
<1>3. WhileIn(S, Innermost, Now)
  BY <1>1, <1>2, AroundIs
<1>4. PICK e, back : e = Head(loops.while_end_label_stack) /\ back = Innermost.start
  OBVIOUS
<1>5. /\ Head(while_start_label_stack) = back /\ Counted(loops)
      /\ Innermost.jumps = {<<e, "end">>} \cup Counts(loops)
  BY <1>3, <1>4, WhileInIs DEF Now
<1>6. LoopEnds(e, back)
  BY <1>1, <1>4, <1>5 DEF WhileEnd, LoopEnds
<1>7. QED
  BY <1>6, LoopPromised

LEMMA ForEndPromised ==
  ASSUME TypeOK, TypeOK', Chained, AllPromised, AllLed, ForEnd
  PROVE  AllPromised' /\ AllLed' /\ Stays(quads, quads')
<1>1. open # <<>> /\ Innermost.kind = "for" /\ Innermost.at = "body"
  BY DEF ForEnd, Expecting
<1>2. PICK S : Around(S, Innermost, Now)
  BY <1>1, InnermostAround
<1>3. ForIn(S, Innermost, Now)
  BY <1>1, <1>2, AroundIs
<1>4. PICK e, back : e = Head(loops.for_start_stack) + 1 /\ back = Innermost.step
  OBVIOUS
<1>5. /\ Innermost.jumps = {<<e, "end">>} \cup Counts(loops)
      /\ ForLater(S, Innermost, Now)
  BY <1>3, <1>4, ForInIs DEF Now
<1>6. Head(loops.for_start_stack) + 2 = back /\ Counted(loops)
  BY <1>4, <1>5, ForLaterIs DEF Now
<1>7. LoopEnds(e, back)
  BY <1>1, <1>4, <1>5, <1>6 DEF ForEnd, LoopEnds
<1>8. QED
  BY <1>7, LoopPromised

-----------------------------------------------------------------------------
(* Every jump lands *)

JumpsInv == OpensInv /\ ChainInv /\ PromiseInv

LEMMA InitPromised == Init => PromiseInv
<1> SUFFICES ASSUME Init PROVE PromiseInv
  OBVIOUS
<1>1. /\ Len(open) = 0 /\ DOMAIN quads = {} /\ settled = {} /\ currQuad = 0
      /\ Upto(currQuad) = {} /\ 0 .. Len(open) - 1 = {}
  BY DEF Init, Upto
<1>2. Promises(Frames, Len(open), quads, currQuad)
  BY <1>1 DEF Promises, Unwritten, PromisedOnce, HolesPromised
<1>3. Led(settled, quads)
  BY <1>1 DEF Led
<1>4. QED
  BY <1>2, <1>3 DEF PromiseInv

(* What has been written is not written again. *)
LEMMA PromiseKept ==
  OpensInv /\ ChainInv /\ PromiseInv /\ ParseAny =>
    PromiseInv' /\ (errors' = 0 => Stays(quads, quads'))
<1> SUFFICES ASSUME OpensInv, ChainInv, PromiseInv, ParseAny, errors' = 0
             PROVE  AllPromised' /\ AllLed' /\ Stays(quads, quads')
  BY DEF PromiseInv, AllPromised, AllLed
<1>1. ~ (SyntaxError \/ FuncHeadError \/ StepError)
  BY TypesOf DEF SyntaxError, FuncHeadError, StepError, Misread, OpensInv
<1>2. errors = 0
  BY <1>1 DEF ParseAny, Parse, Expression, Logic, Relop, Call, Return, Expr, Emit,
     FuncStart, FuncEnd, IfBegin, IfThen, IfElse, IfEnd, WhileBegin, WhileBody, WhileEnd,
     ForBegin, ForCond, ForStep, ForBody, ForEnd, Break, Continue
<1>3. Chained /\ AllPromised /\ AllLed /\ TypeOK /\ TypeOK'
  BY <1>2, TypeStep DEF ChainInv, PromiseInv, AllPromised, AllLed, OpensInv
<1>4. QED
  BY <1>1, <1>2, <1>3, EmitsPromised, BeginsPromised, TestsPromised, IfElsePromised,
     IfEndPromised, WhileEndPromised, ForCondPromised, ForStepPromised, ForBodyPromised,
     ForEndPromised, FuncEndPromised, BreaksPromised
  DEF ParseAny, Parse

LEMMA StutterJumps == ChainInv /\ PromiseInv /\ UNCHANGED vars => ChainInv' /\ PromiseInv'
<1> SUFFICES ASSUME ChainInv, PromiseInv, UNCHANGED vars PROVE ChainInv' /\ PromiseInv'
  OBVIOUS
<1>1. UNCHANGED <<open, stacks>> /\ UNCHANGED <<quads, currQuad, errors, settled>>
  BY DEF vars
<1>2. ChainInv'
  BY <1>1, ChainedStays DEF ChainInv
<1>3. Frames' = Frames
  BY <1>1 DEF Frames, Depths, At
<1>4. QED
  BY <1>1, <1>2, <1>3 DEF PromiseInv

(* What is left out has been promised by a statement that is open. *)
LEMMA Land == OpensInv /\ PromiseInv => JumpsLand
<1> SUFFICES ASSUME OpensInv, PromiseInv, errors = 0
             PROVE  /\ \A p \in settled : p[1] \in DOMAIN quads /\ quads[p[1]].to = p[2]
                    /\ \A q \in Labels \ DOMAIN quads :
                         \E i \in DOMAIN open : q \in {p[1] : p \in open[i].jumps}
  BY DEF JumpsLand
<1>1. /\ HolesPromised(Frames, Len(open), quads, currQuad) /\ Led(settled, quads)
      /\ Len(open) \in Nat /\ DOMAIN open = 1 .. Len(open)
  BY LengthsGrow, TypesOf DEF PromiseInv, Promises, OpensInv
<1>2. ASSUME NEW q \in Labels \ DOMAIN quads
      PROVE  \E i \in DOMAIN open : q \in {p[1] : p \in open[i].jumps}
  <2>1. PICK d \in 0 .. Len(open) - 1 : \E w : <<q, w>> \in Frames[d].jumps
    BY <1>1 DEF HolesPromised, Labels, Upto
  <2>2. PICK w : <<q, w>> \in Frames[d].jumps
    BY <2>1
  <2>3. Frames[d] = open[Len(open) - d]
    BY FramesAre DEF Depths, At
  <2>4. Len(open) - d \in DOMAIN open
    BY <1>1
  <2>5. <<q, w>>[1] = q
    OBVIOUS
  <2>6. QED
    BY <2>2, <2>3, <2>4, <2>5
<1>3. QED
  BY <1>1, <1>2 DEF Led

LEMMA JumpsBegin == Init => JumpsInv
BY InitOpens, InitChained, InitPromised DEF ChainInv, JumpsInv

LEMMA JumpsStep == JumpsInv /\ [ParseAny]_vars => JumpsInv'
BY OpensKept, ChainKept, PromiseKept, StutterOpens, StutterJumps DEF JumpsInv

LEMMA JumpsInvariant == AnyText => []JumpsInv
BY JumpsBegin, JumpsStep, PTL DEF AnyText

(* Whatever the text, as long as it has no syntax errors: every jump that  *)
(* is due has been written and leads to where its statement promised, and  *)
(* a quad that is left out is one that an open statement has yet to write. *)
(* The ends of statements write the quads on top of the global stacks, as  *)
(* many as have been counted, and these are always their own.              *)
THEOREM EveryJumpLands == AnyText => []JumpsLand
<1>1. JumpsInv => JumpsLand
  BY Land DEF JumpsInv
<1>2. QED
  BY <1>1, JumpsInvariant, PTL

(* When the text ends no quad is missing. *)
Complete == errors = 0 /\ open = <<>> => DOMAIN quads = 0 .. currQuad - 1

LEMMA AllWritten == JumpsInv => Complete
<1> SUFFICES ASSUME JumpsInv, errors = 0, open = <<>>
             PROVE  DOMAIN quads = 0 .. currQuad - 1
  BY DEF Complete
<1>1. DOMAIN open = {}
  OBVIOUS
<1>2. DOMAIN quads \subseteq Labels
  BY DEF JumpsInv, OpensInv, TypeOK
<1>3. QED
  BY <1>1, <1>2, Land DEF JumpsLand, JumpsInv, Labels

(* After a text without syntax errors each quad up to currQuad has been    *)
(* written: the generator, which reads them all, finds none left out.      *)
THEOREM NothingIsLeftOut == AnyText => []Complete
BY AllWritten, JumpsInvariant, PTL

=============================================================================
