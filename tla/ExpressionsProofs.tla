------------------------- MODULE ExpressionsProofs -------------------------
(***************************************************************************)
(* What holds of the parser's expressions for every text: each operand has *)
(* its symbol or function, each open call and table its lists, functions   *)
(* begin once and before they are used.  Then what calls, tables and the   *)
(* functions of elements "()" are made of.                                 *)
(***************************************************************************)
EXTENDS Expressions, SequenceTheorems, FiniteSetTheorems, WellFoundedInduction, TLAPS

-----------------------------------------------------------------------------
(* Expressions and quads over the symbols and functions of a code *)

ExprTypes == {"number", "string", "var", "user", "lib"}

Ops == {"assign", "add", "uminus", "param", "call", "getretval", "newtable",
        "get_elem", "set_elem", "func_start", "func_end"}

(* Expressions that are operands as they stand. *)
PlainIn(c) ==
  {e \in [type : ExprTypes, val : Int, key : {<<>>}] :
     /\ e.type = "var" => e.val \in DOMAIN c.symbols
     /\ e.type = "user" => e.val \in DOMAIN c.functions}

VarIn(c)  == {e \in PlainIn(c) : e.type = "var"}
ItemIn(c) == [type : {"element"}, val : DOMAIN c.symbols, key : {<<k>> : k \in PlainIn(c)}]
ExprIn(c) == {None} \cup PlainIn(c) \cup ItemIn(c)
QuadIn(c) == [op : Ops, result : ExprIn(c), arg1 : ExprIn(c), arg2 : ExprIn(c)]

SymbolSet   == [name : Int, space : {"program", "local", "formal"}, in : Nat, offset : Nat]
FunctionSet == [formals : Nat, total_locals : Nat]

Starts(q, f) == q.op = "func_start" /\ q.result = User(f)

UsesFunction(q, f) == User(f) \in {q.result, q.arg1, q.arg2}

(* A function is an operand from its func_start on, which comes once.      *)
StartsOK(c) ==
  /\ \A i \in DOMAIN c.quads : \A f \in DOMAIN c.functions :
       UsesFunction(c.quads[i], f) => \E j \in 1 .. i : Starts(c.quads[j], f)
  /\ \A i \in DOMAIN c.quads :
       c.quads[i].op = "func_start" => /\ \E f \in DOMAIN c.functions : Starts(c.quads[i], f)
                                       /\ c.quads[i].arg1 = None /\ c.quads[i].arg2 = None
  /\ \A i, j \in DOMAIN c.quads :
       /\ c.quads[i].op = "func_start" /\ c.quads[j].op = "func_start"
       /\ c.quads[i].result = c.quads[j].result
       => i = j

AllStarted(c) ==
  \A f \in DOMAIN c.functions : \E j \in DOMAIN c.quads : Starts(c.quads[j], f)

Earlier(c, s) ==
  {i \in 1 .. s - 1 : /\ c.symbols[i].space = c.symbols[s].space
                      /\ c.symbols[i].in = c.symbols[s].in}

OffsetsOK(c) ==
  \A s \in DOMAIN c.symbols :
    /\ c.symbols[s].offset = Cardinality(Earlier(c, s))
    /\ c.symbols[s].space = "program" => c.symbols[s].in = 0

CodeIn(c) == [quads : Seq(QuadIn(c)), symbols : Seq(SymbolSet), functions : Seq(FunctionSet)]

CodeOK(c) == c \in CodeIn(c) /\ StartsOK(c) /\ AllStarted(c) /\ OffsetsOK(c)

(* More symbols and functions: expressions stay what they are.             *)
Grows(c, d) ==
  /\ DOMAIN c.symbols \subseteq DOMAIN d.symbols
  /\ DOMAIN c.functions \subseteq DOMAIN d.functions

LEMMA PlainGrows ==
  ASSUME NEW c, NEW d, Grows(c, d)
  PROVE  PlainIn(c) \subseteq PlainIn(d) /\ VarIn(c) \subseteq VarIn(d)
BY DEF PlainIn, VarIn, Grows

LEMMA ItemGrows ==
  ASSUME NEW c, NEW d, Grows(c, d)
  PROVE  ItemIn(c) \subseteq ItemIn(d)
<1>1. DOMAIN c.symbols \subseteq DOMAIN d.symbols
  BY DEF Grows
<1>2. {<<k>> : k \in PlainIn(c)} \subseteq {<<k>> : k \in PlainIn(d)}
  BY PlainGrows
<1>3. QED
  BY <1>1, <1>2 DEF ItemIn

LEMMA ExprGrows ==
  ASSUME NEW c, NEW d, Grows(c, d)
  PROVE  ExprIn(c) \subseteq ExprIn(d) /\ QuadIn(c) \subseteq QuadIn(d)
<1>1. ExprIn(c) \subseteq ExprIn(d)
  BY PlainGrows, ItemGrows, Zenon DEF ExprIn
<1>2. QED
  BY <1>1 DEF QuadIn

LEMMA GrowsTrans ==
  /\ \A c : Grows(c, c)
  /\ \A c, d, e : Grows(c, d) /\ Grows(d, e) => Grows(c, e)
BY DEF Grows

LEMMA SeqGrows ==
  ASSUME NEW c, NEW d, Grows(c, d)
  PROVE  /\ Seq(PlainIn(c)) \subseteq Seq(PlainIn(d))
         /\ Seq(Seq(PlainIn(c))) \subseteq Seq(Seq(PlainIn(d)))
         /\ Seq(QuadIn(c)) \subseteq Seq(QuadIn(d))
<1>1. PlainIn(c) \subseteq PlainIn(d) /\ QuadIn(c) \subseteq QuadIn(d)
  BY PlainGrows, ExprGrows
<1>2. Seq(PlainIn(c)) \subseteq Seq(PlainIn(d)) /\ Seq(QuadIn(c)) \subseteq Seq(QuadIn(d))
  BY <1>1, SeqMonotonic
<1>3. QED
  BY <1>2, SeqMonotonic

-----------------------------------------------------------------------------
(* What the operators on codes return *)

(* None and temporaries have types of their own.                           *)
LEMMA ExprFacts ==
  ASSUME NEW c
  PROVE  /\ None \notin PlainIn(c) /\ None \notin ItemIn(c) /\ None.type = "null"
         /\ \A e \in PlainIn(c) : e.type \in ExprTypes /\ e.type # "element"
         /\ \A e \in ItemIn(c) : e.type = "element" /\ e.key[1] \in PlainIn(c)
         /\ PlainIn(c) \subseteq ExprIn(c) /\ ItemIn(c) \subseteq ExprIn(c)
         /\ None \in ExprIn(c) /\ VarIn(c) \subseteq PlainIn(c)
         /\ \A e \in ExprIn(c) : e.type = "element" <=> e \in ItemIn(c)
<1>1. None.type = "null" /\ None.type \notin ExprTypes /\ None.type # "element"
  BY DEF None, Expr, ExprTypes
<1>2. \A e \in PlainIn(c) : e.type \in ExprTypes /\ e.type # "element"
  BY DEF PlainIn, ExprTypes
<1>3. \A e \in ItemIn(c) : e.type = "element" /\ e.key[1] \in PlainIn(c)
  BY DEF ItemIn
<1>4. PlainIn(c) \subseteq ExprIn(c) /\ ItemIn(c) \subseteq ExprIn(c)
      /\ None \in ExprIn(c) /\ VarIn(c) \subseteq PlainIn(c)
  BY DEF ExprIn, VarIn
<1>5. \A e \in ExprIn(c) : e.type = "element" <=> e \in ItemIn(c)
  BY <1>1, <1>2, <1>3 DEF ExprIn
<1>6. None \notin PlainIn(c) /\ None \notin ItemIn(c)
  BY <1>1, <1>2, <1>3
<1>7. QED
  BY <1>1, <1>2, <1>3, <1>4, <1>5, <1>6

LEMMA ExprKinds ==
  ASSUME NEW c
  PROVE  /\ \A s \in DOMAIN c.symbols : s \in Int => Var(s) \in VarIn(c)
         /\ \A f \in DOMAIN c.functions : f \in Int => User(f) \in PlainIn(c)
         /\ \A n \in Int : Num(n) \in PlainIn(c) /\ Str(n) \in PlainIn(c)
                          /\ Expr("lib", n) \in PlainIn(c)
BY DEF Var, User, Num, Str, Expr, VarIn, PlainIn, ExprTypes

LEMMA ItemKind ==
  ASSUME NEW c, NEW e \in VarIn(c), NEW k \in PlainIn(c)
  PROVE  Item(e, k) \in ItemIn(c)
BY DEF Item, ItemIn, VarIn, PlainIn

LEMMA QuadKind ==
  ASSUME NEW c, NEW op \in Ops, NEW r \in ExprIn(c), NEW a \in ExprIn(c),
         NEW b \in ExprIn(c)
  PROVE  Quad(op, r, a, b) \in QuadIn(c) /\ Quad(op, r, a, b).op = op
BY DEF Quad, QuadIn

LEMMA CodeFields ==
  ASSUME NEW c, CodeOK(c)
  PROVE  /\ c.quads \in Seq(QuadIn(c)) /\ c.symbols \in Seq(SymbolSet)
         /\ c.functions \in Seq(FunctionSet)
         /\ c = [quads |-> c.quads, symbols |-> c.symbols, functions |-> c.functions]
         /\ DOMAIN c.symbols = 1 .. Len(c.symbols) /\ Len(c.symbols) \in Nat
         /\ DOMAIN c.functions = 1 .. Len(c.functions) /\ Len(c.functions) \in Nat
         /\ DOMAIN c.quads = 1 .. Len(c.quads) /\ Len(c.quads) \in Nat
<1>1. c \in CodeIn(c)
  BY DEF CodeOK
<1>2. /\ c.quads \in Seq(QuadIn(c)) /\ c.symbols \in Seq(SymbolSet)
      /\ c.functions \in Seq(FunctionSet)
      /\ c = [quads |-> c.quads, symbols |-> c.symbols, functions |-> c.functions]
  BY <1>1 DEF CodeIn
<1>3. QED
  BY <1>2, LenProperties

LEMMA CodeUpdates ==
  ASSUME NEW A, NEW B, NEW C, NEW c \in [quads : A, symbols : B, functions : C], NEW x
  PROVE  /\ [c EXCEPT !.quads = x] =
              [quads |-> x, symbols |-> c.symbols, functions |-> c.functions]
         /\ [c EXCEPT !.symbols = x] =
              [quads |-> c.quads, symbols |-> x, functions |-> c.functions]
         /\ [c EXCEPT !.functions = x] =
              [quads |-> c.quads, symbols |-> c.symbols, functions |-> x]
OBVIOUS

LEMMA EmitCode ==
  ASSUME NEW c, CodeOK(c), NEW qs \in Seq(QuadIn(c)),
         \A i \in DOMAIN qs : qs[i].op # "func_start"
  PROVE  /\ CodeOK(Emit(c, qs)) /\ Grows(c, Emit(c, qs)) /\ Grows(Emit(c, qs), c)
         /\ Emit(c, qs).quads = c.quads \o qs
         /\ Emit(c, qs).symbols = c.symbols /\ Emit(c, qs).functions = c.functions
<1> DEFINE d == Emit(c, qs)
<1>1. /\ d.quads = c.quads \o qs /\ d.symbols = c.symbols /\ d.functions = c.functions
      /\ d = [quads |-> c.quads \o qs, symbols |-> c.symbols, functions |-> c.functions]
  <2>1. c \in [quads : Seq(QuadIn(c)), symbols : Seq(SymbolSet), functions : Seq(FunctionSet)]
    BY DEF CodeOK, CodeIn
  <2>2. d = [c EXCEPT !.quads = c.quads \o qs]
    BY Zenon DEF Emit
  <2>3. d = [quads |-> c.quads \o qs, symbols |-> c.symbols, functions |-> c.functions]
    BY <2>1, <2>2, CodeUpdates, Zenon
  <2>4. QED
    BY <2>3
<1> HIDE DEF d
<1>2. Grows(c, d) /\ Grows(d, c)
  BY <1>1 DEF Grows
<1>3. d.quads \in Seq(QuadIn(c))
  BY <1>1, CodeFields, ConcatProperties
<1>4. d \in CodeIn(d)
  <2>1. d.quads \in Seq(QuadIn(d))
    BY <1>2, <1>3, SeqGrows
  <2>2. QED
    BY <2>1, <1>1, CodeFields DEF CodeIn
<1>5. /\ Len(d.quads) = Len(c.quads) + Len(qs) /\ Len(c.quads) \in Nat /\ Len(qs) \in Nat
      /\ \A i \in 1 .. Len(c.quads) : d.quads[i] = c.quads[i]
      /\ \A i \in 1 .. Len(d.quads) : i > Len(c.quads) => /\ i - Len(c.quads) \in DOMAIN qs
                                                          /\ d.quads[i] = qs[i - Len(c.quads)]
      /\ DOMAIN d.quads = 1 .. Len(d.quads) /\ DOMAIN c.quads = 1 .. Len(c.quads)
  <2>1. c.quads \in Seq(QuadIn(c))
    BY CodeFields
  <2>2. DOMAIN qs = 1 .. Len(qs) /\ Len(qs) \in Nat /\ Len(c.quads) \in Nat
        /\ DOMAIN c.quads = 1 .. Len(c.quads)
    BY <2>1, LenProperties
  <2>3. DOMAIN d.quads = 1 .. Len(d.quads)
    BY <1>3, LenProperties
  <2>4. /\ Len(d.quads) = Len(c.quads) + Len(qs)
        /\ \A i \in 1 .. Len(c.quads) + Len(qs) :
             d.quads[i] = IF i <= Len(c.quads) THEN c.quads[i] ELSE qs[i - Len(c.quads)]
    BY <1>1, <2>1, ConcatProperties
  <2>5. QED
    BY <2>2, <2>3, <2>4
<1>6. \A i \in DOMAIN d.quads : d.quads[i].op = "func_start" => i \in 1 .. Len(c.quads)
  BY <1>5
<1>7. StartsOK(c) /\ AllStarted(c) /\ OffsetsOK(c)
  BY DEF CodeOK
<1>8. AllStarted(d)
  BY <1>1, <1>5, <1>7 DEF AllStarted
<1>9. OffsetsOK(d)
  BY <1>1, <1>7 DEF OffsetsOK, Earlier
<1>10. StartsOK(d)
  <2>1. ASSUME NEW i \in DOMAIN d.quads, NEW f \in DOMAIN d.functions,
               UsesFunction(d.quads[i], f)
        PROVE  \E j \in 1 .. i : Starts(d.quads[j], f)
    <3>1. CASE i \in 1 .. Len(c.quads)
      <4>1. PICK j \in 1 .. i : Starts(c.quads[j], f)
        BY <3>1, <2>1, <1>1, <1>5, <1>7 DEF StartsOK
      <4>2. d.quads[j] = c.quads[j]
        BY <3>1, <1>5
      <4>3. QED
        BY <4>1, <4>2
    <3>2. CASE i > Len(c.quads)
      <4>1. PICK j \in DOMAIN c.quads : Starts(c.quads[j], f)
        BY <1>1, <1>7 DEF AllStarted
      <4>2. d.quads[j] = c.quads[j] /\ j \in 1 .. i
        BY <3>2, <1>5
      <4>3. QED
        BY <4>1, <4>2
    <3>3. QED
      BY <3>1, <3>2, <1>5
  <2>2. ASSUME NEW i \in DOMAIN d.quads, d.quads[i].op = "func_start"
        PROVE  /\ \E f \in DOMAIN d.functions : Starts(d.quads[i], f)
               /\ d.quads[i].arg1 = None /\ d.quads[i].arg2 = None
    BY <2>2, <1>1, <1>5, <1>6, <1>7 DEF StartsOK
  <2>3. ASSUME NEW i \in DOMAIN d.quads, NEW j \in DOMAIN d.quads,
               d.quads[i].op = "func_start", d.quads[j].op = "func_start",
               d.quads[i].result = d.quads[j].result
        PROVE  i = j
    BY <2>3, <1>5, <1>6, <1>7 DEF StartsOK
  <2>4. QED
    BY <2>1, <2>2, <2>3 DEF StartsOK
<1>11. QED
  BY <1>1, <1>2, <1>4, <1>8, <1>9, <1>10 DEF CodeOK, d

(* d is c with one more symbol. *)
Declared(c, d, name, space, f) ==
  /\ CodeOK(d) /\ Grows(c, d)
  /\ d.quads = c.quads /\ d.functions = c.functions
  /\ Len(d.symbols) = Len(c.symbols) + 1
  /\ \A s \in DOMAIN c.symbols : d.symbols[s] = c.symbols[s]
  /\ Len(d.symbols) \in DOMAIN d.symbols
  /\ d.symbols[Len(d.symbols)].name = name
  /\ d.symbols[Len(d.symbols)].space = space /\ d.symbols[Len(d.symbols)].in = f

LEMMA DeclareCode ==
  ASSUME NEW c, CodeOK(c), NEW name \in Int, NEW space \in {"program", "local", "formal"},
         NEW f \in Nat, space = "program" => f = 0
  PROVE  Declared(c, Declare(c, name, space, f), name, space, f)
<1> DEFINE d == Declare(c, name, space, f)
           E == {i \in DOMAIN c.symbols : c.symbols[i].space = space /\ c.symbols[i].in = f}
           x == [name |-> name, space |-> space, in |-> f, offset |-> Cardinality(E)]
<1>1. /\ d.quads = c.quads /\ d.symbols = Append(c.symbols, x) /\ d.functions = c.functions
      /\ d = [quads |-> c.quads, symbols |-> Append(c.symbols, x), functions |-> c.functions]
  <2>1. c \in [quads : Seq(QuadIn(c)), symbols : Seq(SymbolSet), functions : Seq(FunctionSet)]
    BY DEF CodeOK, CodeIn
  <2>2. d = [c EXCEPT !.symbols = Append(c.symbols, x)]
    BY Zenon DEF Declare
  <2>3. d = [quads |-> c.quads, symbols |-> Append(c.symbols, x), functions |-> c.functions]
    BY <2>1, <2>2, CodeUpdates, Zenon
  <2>4. QED
    BY <2>3
<1>2. Cardinality(E) \in Nat
  <2>1. DOMAIN c.symbols = 1 .. Len(c.symbols) /\ Len(c.symbols) \in Nat
    BY CodeFields
  <2>2. IsFiniteSet(1 .. Len(c.symbols)) /\ E \subseteq 1 .. Len(c.symbols)
    BY <2>1, FS_Interval
  <2>3. QED
    BY <2>2, FS_Subset, FS_CardinalityType, Zenon
<1>3. x \in SymbolSet
  BY <1>2 DEF SymbolSet
<1>4. x.name = name /\ x.space = space /\ x.in = f /\ x.offset = Cardinality(E)
  OBVIOUS
<1> HIDE DEF d, x
<1>5. /\ d.symbols \in Seq(SymbolSet) /\ Len(d.symbols) = Len(c.symbols) + 1
      /\ \A s \in 1 .. Len(c.symbols) : d.symbols[s] = c.symbols[s]
      /\ d.symbols[Len(c.symbols) + 1] = x
      /\ DOMAIN d.symbols = 1 .. Len(c.symbols) + 1
      /\ DOMAIN c.symbols = 1 .. Len(c.symbols) /\ Len(c.symbols) \in Nat
  BY <1>1, <1>3, CodeFields, AppendProperties
<1>6. Grows(c, d)
  BY <1>1, <1>5 DEF Grows
<1>7. d \in CodeIn(d)
  <2>1. d.quads \in Seq(QuadIn(d))
    BY <1>1, <1>6, CodeFields, SeqGrows
  <2>2. QED
    BY <2>1, <1>1, <1>5, CodeFields DEF CodeIn
<1>8. StartsOK(d) /\ AllStarted(d)
  BY <1>1 DEF CodeOK, StartsOK, AllStarted
<1>9. OffsetsOK(d)
  <2>1. ASSUME NEW s \in DOMAIN d.symbols
        PROVE  /\ d.symbols[s].offset = Cardinality(Earlier(d, s))
               /\ d.symbols[s].space = "program" => d.symbols[s].in = 0
    <3>1. CASE s \in DOMAIN c.symbols
      <4>1. Earlier(d, s) = Earlier(c, s)
        <5>1. /\ s \in 1 .. Len(c.symbols) /\ d.symbols[s] = c.symbols[s]
              /\ \A i \in 1 .. s - 1 : d.symbols[i] = c.symbols[i]
          BY <3>1, <1>5
        <5> QED
          BY <5>1 DEF Earlier
      <4>2. QED
        BY <3>1, <4>1, <1>5 DEF CodeOK, OffsetsOK
    <3>2. CASE s = Len(c.symbols) + 1
      <4>1. Earlier(d, s) = E
        BY <3>2, <1>4, <1>5, SMTT(40) DEF Earlier
      <4>2. QED
        BY <3>2, <4>1, <1>4, <1>5
    <3>3. QED
      BY <3>1, <3>2, <1>5
  <2>2. QED
    BY <2>1 DEF OffsetsOK
<1>10. CodeOK(d)
  BY <1>7, <1>8, <1>9 DEF CodeOK
<1>11. QED
  BY <1>1, <1>4, <1>5, <1>6, <1>10 DEF Declared, d

InOK(c) == \A s \in DOMAIN c.symbols : c.symbols[s].in \in 0 .. Len(c.functions)

(* A code within a function; and one that continues it there.              *)
HereOK(c) == CodeOK(c) /\ InOK(c) /\ Function \in 0 .. Len(c.functions)

Continues(c, d) == HereOK(d) /\ Grows(c, d) /\ d.functions = c.functions

LEMMA ContinuesTrans ==
  /\ \A c : HereOK(c) => Continues(c, c)
  /\ \A c, d, e : Continues(c, d) /\ Continues(d, e) => Continues(c, e)
BY GrowsTrans DEF Continues

LEMMA EmitHere ==
  ASSUME NEW c, HereOK(c), NEW qs \in Seq(QuadIn(c)),
         \A i \in DOMAIN qs : qs[i].op # "func_start"
  PROVE  /\ Continues(c, Emit(c, qs)) /\ Grows(Emit(c, qs), c)
         /\ Emit(c, qs).quads = c.quads \o qs
         /\ Emit(c, qs).symbols = c.symbols
BY EmitCode DEF HereOK, InOK, Continues

LEMMA DeclareHereCode ==
  ASSUME NEW c, HereOK(c), NEW name \in Int
  PROVE  LET d == DeclareHere(c, name) IN
         /\ Continues(c, d) /\ d.quads = c.quads
         /\ Newest(d) \in VarIn(d)
<1> DEFINE d == DeclareHere(c, name)
           space == IF Function = 0 THEN "program" ELSE "local"
<1>1. space \in {"program", "local", "formal"} /\ (space = "program" => Function = 0)
  OBVIOUS
<1>2. CodeOK(c) /\ Function \in Nat /\ Function <= Len(c.functions) /\ InOK(c)
  BY DEF HereOK
<1>3. d = Declare(c, name, space, Function)
  BY DEF DeclareHere
<1> HIDE DEF d, space
<1>4. /\ CodeOK(d) /\ Grows(c, d)
      /\ d.quads = c.quads /\ d.functions = c.functions
      /\ Len(d.symbols) = Len(c.symbols) + 1
      /\ \A s \in DOMAIN c.symbols : d.symbols[s] = c.symbols[s]
      /\ Len(d.symbols) \in DOMAIN d.symbols
      /\ d.symbols[Len(d.symbols)].in = Function
  <2>1. Declared(c, d, name, space, Function)
    BY <1>1, <1>2, <1>3, DeclareCode
  <2>2. QED
    BY <2>1 DEF Declared
<1>5. Newest(d) \in VarIn(d)
  BY <1>4, CodeFields, ExprKinds DEF Newest
<1>6. InOK(d)
  <2>1. ASSUME NEW s \in DOMAIN d.symbols
        PROVE  d.symbols[s].in \in 0 .. Len(d.functions)
    <3>1. s \in DOMAIN c.symbols \/ s = Len(d.symbols)
      BY <1>2, <1>4, CodeFields
    <3>2. QED
      BY <3>1, <1>2, <1>4, CodeFields DEF InOK
  <2>2. QED
    BY <2>1 DEF InOK
<1>7. HereOK(d)
  BY <1>2, <1>4, <1>6, CodeFields DEF HereOK
<1>8. QED
  BY <1>4, <1>5, <1>7 DEF Continues, d

LEMMA NewTempCode ==
  ASSUME NEW c, HereOK(c)
  PROVE  /\ Continues(c, NewTemp(c)) /\ NewTemp(c).quads = c.quads
         /\ Newest(NewTemp(c)) \in VarIn(NewTemp(c))
<1>1. -(Len(c.symbols) + 1) \in Int
  BY CodeFields DEF HereOK
<1>2. QED
  BY <1>1, DeclareHereCode DEF NewTemp

(* A newest variable is one of whatever grows without new symbols.         *)
LEMMA OneQuad ==
  ASSUME NEW c, NEW q \in QuadIn(c)
  PROVE  /\ <<q>> \in Seq(QuadIn(c)) /\ DOMAIN <<q>> = {1} /\ <<q>>[1] = q
         /\ Len(<<q>>) = 1
OBVIOUS

LEMMA FetchCode ==
  ASSUME NEW c, HereOK(c), NEW e \in PlainIn(c) \cup ItemIn(c)
  PROVE  /\ Continues(c, Fetch(c, e))
         /\ Fetched(c, e) \in PlainIn(Fetch(c, e))
         /\ e \in VarIn(c) \cup ItemIn(c) => Fetched(c, e) \in VarIn(Fetch(c, e))
         /\ \/ Fetch(c, e).quads = c.quads
            \/ \E q \in QuadIn(Fetch(c, e)) :
                 q.op = "get_elem" /\ Fetch(c, e).quads = c.quads \o <<q>>
<1>1. CASE e.type # "element"
  <2>1. Fetch(c, e) = c /\ Fetched(c, e) = e /\ e \in PlainIn(c) /\ e \notin ItemIn(c)
    BY <1>1, ExprFacts DEF Fetch, Fetched
  <2>2. QED
    BY <2>1, ContinuesTrans
<1>2. CASE e.type = "element"
  <2> DEFINE d == NewTemp(c)
             q == Quad("get_elem", Newest(d), e, e.key[1])
  <2>1. e \in ItemIn(c) /\ e.key[1] \in PlainIn(c)
    BY <1>2, ExprFacts
  <2>2. Continues(c, d) /\ d.quads = c.quads /\ Newest(d) \in VarIn(d)
    BY NewTempCode
  <2>3. Grows(c, d) /\ HereOK(d)
    BY <2>2 DEF Continues
  <2>4. Fetch(c, e) = Emit(d, <<q>>)
    BY <1>2 DEF Fetch
  <2>5. Fetched(c, e) = Newest(Emit(d, <<q>>))
    BY <1>2, <2>4 DEF Fetched
  <2> HIDE DEF d
  <2>6. q \in QuadIn(d) /\ q.op = "get_elem"
    <3>1. Newest(d) \in ExprIn(d) /\ e \in ExprIn(d) /\ e.key[1] \in ExprIn(d)
      BY <2>1, <2>2, <2>3, PlainGrows, ItemGrows, ExprFacts
    <3>2. QED
      BY <3>1, QuadKind, SMTT(40) DEF Ops
  <2> HIDE DEF q
  <2>7. /\ Continues(d, Emit(d, <<q>>)) /\ Grows(Emit(d, <<q>>), d)
        /\ Emit(d, <<q>>).quads = d.quads \o <<q>>
        /\ Emit(d, <<q>>).symbols = d.symbols
    <3>1. <<q>> \in Seq(QuadIn(d)) /\ \A i \in DOMAIN <<q>> : <<q>>[i].op # "func_start"
      BY <2>6, OneQuad
    <3>2. QED
      BY <3>1, <2>3, EmitHere
  <2>8. Newest(Emit(d, <<q>>)) \in VarIn(Emit(d, <<q>>))
    <3>1. Newest(Emit(d, <<q>>)) = Newest(d)
      BY <2>7 DEF Newest
    <3>2. QED
      BY <3>1, <2>2, <2>7, PlainGrows DEF Continues
  <2>9. q \in QuadIn(Emit(d, <<q>>))
    BY <2>6, <2>7, ExprGrows DEF Continues
  <2>10. Continues(c, Emit(d, <<q>>))
    BY <2>2, <2>7, ContinuesTrans
  <2>11. Emit(d, <<q>>).quads = c.quads \o <<q>>
    BY <2>2, <2>7
  <2>12. Newest(Emit(d, <<q>>)) \in PlainIn(Emit(d, <<q>>))
    BY <2>8, ExprFacts
  <2>13. QED
    BY <2>4, <2>5, <2>6, <2>8, <2>9, <2>10, <2>11, <2>12
<1>3. QED
  BY <1>1, <1>2

-----------------------------------------------------------------------------
(* Sequences that grow and shrink at their front *)

LEMMA NatMin ==
  ASSUME NEW T \in SUBSET Nat, T # {}
  PROVE  \E x \in T : \A y \in T : x <= y
<1> DEFINE R == OpToRel(<, Nat)
<1>1. R = {p \in Nat \X Nat : p[1] < p[2]}
  BY Zenon DEF OpToRel
<1>2. PICK x \in T : \A y \in T : ~ (<<y, x>> \in R)
  BY NatLessThanWellFounded, WFMin
<1> HIDE DEF R
<1>3. ASSUME NEW y \in T PROVE x <= y
  <2>1. <<y, x>> \notin R /\ <<y, x>> \in Nat \X Nat
    BY <1>2
  <2>2. ~(y < x)
    BY <1>1, <2>1
  <2>3. QED
    BY <2>2
<1>4. QED
  BY <1>3

LEMMA MinFacts ==
  ASSUME NEW T \in SUBSET Nat, T # {}
  PROVE  Min(T) \in T /\ \A y \in T : Min(T) <= y
BY NatMin DEF Min

LEMMA PushFacts ==
  ASSUME NEW S, NEW o \in Seq(S), NEW x \in S
  PROVE  LET p == <<x>> \o o IN
         /\ p \in Seq(S) /\ Len(p) = Len(o) + 1 /\ p # <<>>
         /\ p[1] = x /\ Tail(p) = o
         /\ \A i \in 1 .. Len(o) : p[i + 1] = o[i]
         /\ \A i \in 2 .. Len(p) : i - 1 \in 1 .. Len(o) /\ p[i] = o[i - 1]
         /\ DOMAIN p = 1 .. Len(p) /\ Len(o) \in Nat /\ DOMAIN o = 1 .. Len(o)
OBVIOUS

LEMMA PopFacts ==
  ASSUME NEW S, NEW o \in Seq(S), o # <<>>
  PROVE  LET p == Tail(o) IN
         /\ p \in Seq(S) /\ Len(o) = Len(p) + 1 /\ Len(p) \in Nat /\ Len(o) \in Nat
         /\ \A i \in 1 .. Len(p) : p[i] = o[i + 1] /\ i + 1 \in 1 .. Len(o)
         /\ DOMAIN p = 1 .. Len(p) /\ DOMAIN o = 1 .. Len(o) /\ 1 \in 1 .. Len(o)
         /\ Head(o) = o[1] /\ o[1] \in S
OBVIOUS

-----------------------------------------------------------------------------
(* Positions among the contexts of some kinds *)

Ranked(o, K, i) == {j \in 1 .. i : o[j].kind \in K}
Rank(o, K, i)   == Cardinality(Ranked(o, K, i))
OneIf(b)        == IF b THEN 1 ELSE 0

LEMMA RankedFinite ==
  ASSUME NEW o, NEW K, NEW i \in Nat
  PROVE  /\ IsFiniteSet(Ranked(o, K, i)) /\ Rank(o, K, i) \in Nat /\ Rank(o, K, i) <= i
<1>1. IsFiniteSet(1 .. i) /\ Cardinality(1 .. i) = i
  BY FS_Interval
<1>2. Ranked(o, K, i) \subseteq 1 .. i
  BY DEF Ranked
<1>3. QED
  BY <1>1, <1>2, FS_Subset, FS_CardinalityType DEF Rank

LEMMA RankStep ==
  ASSUME NEW o, NEW K, NEW i \in Nat
  PROVE  /\ Rank(o, K, 0) = 0
         /\ Rank(o, K, i + 1) = Rank(o, K, i) + OneIf(o[i + 1].kind \in K)
<1>1. Ranked(o, K, 0) = {}
  BY DEF Ranked
<1>2. CASE o[i + 1].kind \in K
  <2>1. Ranked(o, K, i + 1) = Ranked(o, K, i) \cup {i + 1} /\ i + 1 \notin Ranked(o, K, i)
    BY <1>2 DEF Ranked
  <2>2. QED
    BY <1>1, <1>2, <2>1, RankedFinite, FS_AddElement, FS_EmptySet DEF Rank, OneIf
<1>3. CASE o[i + 1].kind \notin K
  <2>1. Ranked(o, K, i + 1) = Ranked(o, K, i)
    BY <1>3 DEF Ranked
  <2>2. QED
    BY <1>1, <1>3, <2>1, RankedFinite, FS_EmptySet DEF Rank, OneIf
<1>4. QED
  BY <1>2, <1>3

LEMMA RankMonotonic ==
  ASSUME NEW o, NEW K, NEW i \in Nat, NEW k \in Nat, i <= k
  PROVE  Rank(o, K, i) <= Rank(o, K, k)
<1>1. Ranked(o, K, i) \subseteq Ranked(o, K, k)
  BY DEF Ranked
<1>2. QED
  BY <1>1, RankedFinite, FS_Subset DEF Rank

LEMMA RankSame ==
  ASSUME NEW o, NEW p, NEW K, NEW i \in Nat, \A j \in 1 .. i : o[j].kind = p[j].kind
  PROVE  Rank(o, K, i) = Rank(p, K, i)
<1>1. Ranked(o, K, i) = Ranked(p, K, i)
  BY DEF Ranked
<1>2. QED
  BY <1>1 DEF Rank

(* The first of some kinds is number one, any other is not.                *)
LEMMA RankFirst ==
  ASSUME NEW o, NEW K, NEW i \in Nat \ {0}, o[i].kind \in K
  PROVE  /\ Rank(o, K, i) >= 1
         /\ (\A j \in 1 .. i - 1 : o[j].kind \notin K) => Rank(o, K, i) = 1
         /\ (\E j \in 1 .. i - 1 : o[j].kind \in K) => Rank(o, K, i) >= 2
<1>1. i - 1 \in Nat /\ (i - 1) + 1 = i
  OBVIOUS
<1>2. Rank(o, K, i) = Rank(o, K, i - 1) + 1 /\ Rank(o, K, i - 1) \in Nat
  BY <1>1, RankStep, RankedFinite DEF OneIf
<1>3. ASSUME \A j \in 1 .. i - 1 : o[j].kind \notin K
      PROVE  Rank(o, K, i - 1) = 0
  <2>1. Ranked(o, K, i - 1) = {}
    BY <1>3 DEF Ranked
  <2>2. QED
    BY <2>1, FS_EmptySet DEF Rank
<1>4. ASSUME NEW j \in 1 .. i - 1, o[j].kind \in K
      PROVE  Rank(o, K, i - 1) >= 1
  <2>1. Ranked(o, K, i - 1) # {}
    BY <1>4 DEF Ranked
  <2>2. QED
    BY <1>1, <2>1, RankedFinite, FS_EmptySet DEF Rank
<1>5. QED
  BY <1>2, <1>3, <1>4

LEMMA RankPush ==
  ASSUME NEW S, NEW o \in Seq(S), NEW x \in S, NEW K, NEW i \in 0 .. Len(o)
  PROVE  Rank(<<x>> \o o, K, i + 1) = Rank(o, K, i) + OneIf(x.kind \in K)
<1> DEFINE p == <<x>> \o o
           A == Ranked(o, K, i)
           B == {j \in 2 .. i + 1 : p[j].kind \in K}
           f == [j \in A |-> j + 1]
<1>1. /\ p[1] = x /\ \A j \in 1 .. Len(o) : p[j + 1] = o[j]
      /\ \A j \in 2 .. Len(o) + 1 : p[j] = o[j - 1]
  BY PushFacts
<1>2. i \in Nat /\ i <= Len(o) /\ Len(o) \in Nat
  OBVIOUS
<1> HIDE DEF p
<1>3. f \in Bijection(A, B)
  <2>1. f \in [A -> B]
    BY <1>1, <1>2 DEF Ranked
  <2>2. \A a, b \in A : f[a] = f[b] => a = b
    BY DEF Ranked
  <2>3. \A b \in B : \E a \in A : f[a] = b
    <3>1. ASSUME NEW b \in B PROVE b - 1 \in A /\ f[b - 1] = b
      BY <1>1, <1>2 DEF Ranked
    <3>2. QED
      BY <3>1
  <2>4. QED
    BY <2>1, <2>2, <2>3 DEF Bijection, Injection, Surjection, IsInjective
<1>4. IsFiniteSet(A) /\ Cardinality(A) \in Nat
  BY <1>2, RankedFinite DEF Rank
<1>5. IsFiniteSet(B) /\ Cardinality(B) = Cardinality(A)
  <2>1. ExistsBijection(A, B)
    BY <1>3 DEF ExistsBijection
  <2>2. QED
    BY <1>4, <2>1, FS_Bijection
<1>6. CASE x.kind \in K
  <2>1. Ranked(p, K, i + 1) = B \cup {1} /\ 1 \notin B
    BY <1>1, <1>2, <1>6 DEF Ranked
  <2>2. QED
    BY <1>4, <1>5, <1>6, <2>1, FS_AddElement DEF Rank, OneIf, p
<1>7. CASE x.kind \notin K
  <2>1. Ranked(p, K, i + 1) = B
    BY <1>1, <1>2, <1>7 DEF Ranked
  <2>2. Rank(p, K, i + 1) = Rank(o, K, i) /\ Rank(o, K, i) \in Nat
    BY <1>4, <1>5, <2>1, Zenon DEF Rank
  <2>3. QED
    BY <1>7, <2>2 DEF OneIf, p
<1>8. QED
  BY <1>6, <1>7

LEMMA RankPop ==
  ASSUME NEW S, NEW o \in Seq(S), o # <<>>, NEW K, NEW i \in 0 .. Len(o) - 1
  PROVE  Rank(o, K, i + 1) = Rank(Tail(o), K, i) + OneIf(o[1].kind \in K)
<1>1. Tail(o) \in Seq(S) /\ o[1] \in S /\ o = <<o[1]>> \o Tail(o) /\ Len(Tail(o)) = Len(o) - 1
  OBVIOUS
<1>2. i \in 0 .. Len(Tail(o))
  BY <1>1
<1>3. Rank(<<o[1]>> \o Tail(o), K, i + 1) = Rank(Tail(o), K, i) + OneIf(o[1].kind \in K)
  BY <1>1, <1>2, RankPush, Zenon
<1>4. QED
  BY <1>1, <1>3, Zenon

-----------------------------------------------------------------------------
(* Contexts and their lists *)

ListSet(P) == [param : Seq(Seq(P)), elist : Seq(Seq(P)), indexed : Seq(Seq(P)),
               values : Seq(Seq(P))]

(* A list for each call and each table that is open.                       *)
Sized(o, l, e) ==
  /\ Len(l.elist) = Len(l.indexed) /\ Len(l.elist) = Len(l.values)
  /\ Len(l.param) >= Rank(o, Calls, Len(o))
  /\ Len(l.elist) >= Rank(o, Tables, Len(o))
  /\ e = 0 => /\ Len(l.param) = Rank(o, Calls, Len(o))
              /\ Len(l.elist) = Rank(o, Tables, Len(o))

(* What a clean context consists of is what is in its list.                *)
OwnedAt(o, l, i) ==
  o[i].clean =>
    /\ o[i].kind = "call" => l.param[Rank(o, Calls, i)] = Reverse(o[i].own)
    /\ o[i].kind = "elist" => l.elist[Rank(o, Tables, i)] = o[i].own
    /\ o[i].kind = "indexed" => /\ l.indexed[Rank(o, Tables, i)] = o[i].keys
                                /\ l.values[Rank(o, Tables, i)] = o[i].own

ListsOK(o, l, e) ==
  /\ Sized(o, l, e)
  /\ \A i \in 1 .. Len(o) : OwnedAt(o, l, i)
  /\ e = 0 => \A i \in 1 .. Len(o) : o[i].kind = "indexed" => o[i].clean

LEMMA RankInLists ==
  ASSUME NEW S, NEW o \in Seq(S), NEW P, NEW l \in ListSet(P), NEW e, Sized(o, l, e),
         NEW i \in 1 .. Len(o)
  PROVE  /\ o[i].kind \in Calls => Rank(o, Calls, i) \in 1 .. Len(l.param)
         /\ o[i].kind \in Tables => /\ Rank(o, Tables, i) \in 1 .. Len(l.elist)
                                    /\ Rank(o, Tables, i) \in 1 .. Len(l.indexed)
                                    /\ Rank(o, Tables, i) \in 1 .. Len(l.values)
<1>1. i \in Nat \ {0} /\ i \in Nat /\ Len(o) \in Nat /\ i <= Len(o)
  OBVIOUS
<1>2. /\ Rank(o, Calls, i) <= Rank(o, Calls, Len(o))
      /\ Rank(o, Tables, i) <= Rank(o, Tables, Len(o))
      /\ Rank(o, Calls, i) \in Nat /\ Rank(o, Calls, Len(o)) \in Nat
      /\ Rank(o, Tables, i) \in Nat /\ Rank(o, Tables, Len(o)) \in Nat
  BY <1>1, RankMonotonic, RankedFinite
<1>3. /\ o[i].kind \in Calls => Rank(o, Calls, i) >= 1
      /\ o[i].kind \in Tables => Rank(o, Tables, i) >= 1
  BY <1>1, RankFirst
<1>4. Len(l.param) \in Nat /\ Len(l.elist) \in Nat
  BY LenProperties DEF ListSet
<1>5. QED
  BY <1>2, <1>3, <1>4 DEF Sized

(* Ranks when a context is opened.                                         *)
LEMMA PushRanks ==
  ASSUME NEW S, NEW o \in Seq(S), NEW x \in S, NEW K
  PROVE  /\ Rank(<<x>> \o o, K, 1) = OneIf(x.kind \in K)
         /\ \A i \in 1 .. Len(o) :
              Rank(<<x>> \o o, K, i + 1) = Rank(o, K, i) + OneIf(x.kind \in K)
         /\ Rank(<<x>> \o o, K, Len(<<x>> \o o)) = Rank(o, K, Len(o)) + OneIf(x.kind \in K)
<1>1. Len(<<x>> \o o) = Len(o) + 1 /\ Len(o) \in Nat /\ 0 \in 0 .. Len(o)
      /\ Len(o) \in 0 .. Len(o) /\ 1 .. Len(o) \subseteq 0 .. Len(o)
  BY PushFacts
<1>2. \A i \in 0 .. Len(o) :
        Rank(<<x>> \o o, K, i + 1) = Rank(o, K, i) + OneIf(x.kind \in K)
  BY RankPush
<1>3. Rank(o, K, 0) = 0 /\ OneIf(x.kind \in K) \in Nat
  BY RankStep DEF OneIf
<1>4. Rank(<<x>> \o o, K, 0 + 1) = Rank(o, K, 0) + OneIf(x.kind \in K)
  BY <1>1, <1>2
<1>5. Rank(<<x>> \o o, K, Len(o) + 1) = Rank(o, K, Len(o)) + OneIf(x.kind \in K)
  BY <1>1, <1>2
<1>6. QED
  BY <1>1, <1>2, <1>3, <1>4, <1>5

LEMMA PushOther ==
  ASSUME NEW S, NEW o \in Seq(S), NEW x \in S, x.kind \notin Calls \cup Tables,
         NEW P, NEW l \in ListSet(P), NEW e, ListsOK(o, l, e)
  PROVE  ListsOK(<<x>> \o o, l, e)
<1> DEFINE p == <<x>> \o o
<1>1. /\ Len(p) = Len(o) + 1 /\ Len(o) \in Nat /\ p[1] = x
      /\ \A i \in 2 .. Len(p) : i - 1 \in 1 .. Len(o) /\ p[i] = o[i - 1]
  BY PushFacts
<1>2. /\ \A i \in 1 .. Len(o) : /\ Rank(p, Calls, i + 1) = Rank(o, Calls, i)
                                /\ Rank(p, Tables, i + 1) = Rank(o, Tables, i)
      /\ Rank(p, Calls, Len(p)) = Rank(o, Calls, Len(o))
      /\ Rank(p, Tables, Len(p)) = Rank(o, Tables, Len(o))
  <2>1. OneIf(x.kind \in Calls) = 0 /\ OneIf(x.kind \in Tables) = 0
    BY DEF OneIf
  <2>2. \A K, i : i \in Nat => Rank(o, K, i) \in Nat
    BY RankedFinite
  <2>3. \A i \in 1 .. Len(o) : i \in Nat
    BY <1>1
  <2>4. /\ \A i \in 1 .. Len(o) : Rank(p, Calls, i + 1) = Rank(o, Calls, i) + 0
        /\ Rank(p, Calls, Len(p)) = Rank(o, Calls, Len(o)) + 0
    BY <2>1, PushRanks
  <2>5. /\ \A i \in 1 .. Len(o) : Rank(p, Tables, i + 1) = Rank(o, Tables, i) + 0
        /\ Rank(p, Tables, Len(p)) = Rank(o, Tables, Len(o)) + 0
    BY <2>1, PushRanks
  <2>6. QED
    BY <1>1, <2>2, <2>3, <2>4, <2>5
<1> HIDE DEF p
<1>3. Sized(p, l, e)
  BY <1>2 DEF ListsOK, Sized
<1>4. ASSUME NEW i \in 1 .. Len(p)
      PROVE  OwnedAt(p, l, i) /\ (e = 0 => (p[i].kind = "indexed" => p[i].clean))
  <2>1. CASE i = 1
    <3>1. p[i].kind \notin {"call", "elist", "indexed"}
      BY <1>1, <2>1 DEF Calls, Tables
    <3>2. QED
      BY <3>1 DEF OwnedAt
  <2>2. CASE i # 1
    <3>1. i - 1 \in 1 .. Len(o) /\ p[i] = o[i - 1] /\ (i - 1) + 1 = i
      BY <1>1, <2>2
    <3>2. Rank(p, Calls, i) = Rank(o, Calls, i - 1) /\ Rank(p, Tables, i) = Rank(o, Tables, i - 1)
      BY <1>2, <3>1
    <3>3. QED
      BY <3>1, <3>2 DEF ListsOK, OwnedAt
  <2>3. QED
    BY <2>1, <2>2
<1>5. QED
  BY <1>3, <1>4 DEF ListsOK, p

(* Ranks when a context is closed.                                         *)
LEMMA PopRanks ==
  ASSUME NEW S, NEW o \in Seq(S), o # <<>>, NEW K
  PROVE  /\ \A i \in 1 .. Len(Tail(o)) :
              Rank(o, K, i + 1) = Rank(Tail(o), K, i) + OneIf(o[1].kind \in K)
         /\ Rank(o, K, Len(o)) = Rank(Tail(o), K, Len(Tail(o))) + OneIf(o[1].kind \in K)
         /\ Rank(o, K, 1) = OneIf(o[1].kind \in K)
<1>1. /\ Len(o) = Len(Tail(o)) + 1 /\ Len(Tail(o)) \in Nat /\ 0 \in 0 .. Len(o) - 1
      /\ Len(Tail(o)) \in 0 .. Len(o) - 1 /\ 1 .. Len(Tail(o)) \subseteq 0 .. Len(o) - 1
  BY PopFacts
<1>2. \A i \in 0 .. Len(o) - 1 :
        Rank(o, K, i + 1) = Rank(Tail(o), K, i) + OneIf(o[1].kind \in K)
  BY RankPop
<1>3. Rank(Tail(o), K, 0) = 0 /\ OneIf(o[1].kind \in K) \in Nat
  BY RankStep DEF OneIf
<1>4. Rank(o, K, 0 + 1) = Rank(Tail(o), K, 0) + OneIf(o[1].kind \in K)
  BY <1>1, <1>2
<1>5. Rank(o, K, Len(Tail(o)) + 1) = Rank(Tail(o), K, Len(Tail(o))) + OneIf(o[1].kind \in K)
  BY <1>1, <1>2
<1>6. QED
  BY <1>1, <1>2, <1>3, <1>4, <1>5

LEMMA RankNats ==
  ASSUME NEW S, NEW o \in Seq(S)
  PROVE  /\ \A i \in 1 .. Len(o) : Rank(o, Calls, i) \in Nat /\ Rank(o, Tables, i) \in Nat
         /\ Rank(o, Calls, Len(o)) \in Nat /\ Rank(o, Tables, Len(o)) \in Nat
<1>1. Len(o) \in Nat /\ \A i \in 1 .. Len(o) : i \in Nat
  OBVIOUS
<1>2. QED
  BY <1>1, RankedFinite

LEMMA PopOther ==
  ASSUME NEW S, NEW o \in Seq(S), o # <<>>, o[1].kind \notin Calls \cup Tables,
         NEW P, NEW l \in ListSet(P), NEW e, ListsOK(o, l, e)
  PROVE  ListsOK(Tail(o), l, e)
<1> DEFINE p == Tail(o)
<1>1. /\ Len(o) = Len(p) + 1 /\ Len(p) \in Nat
      /\ \A i \in 1 .. Len(p) : p[i] = o[i + 1] /\ i + 1 \in 1 .. Len(o)
  BY PopFacts
<1>2. /\ \A i \in 1 .. Len(p) : /\ Rank(o, Calls, i + 1) = Rank(p, Calls, i)
                                /\ Rank(o, Tables, i + 1) = Rank(p, Tables, i)
      /\ Rank(p, Calls, Len(p)) = Rank(o, Calls, Len(o))
      /\ Rank(p, Tables, Len(p)) = Rank(o, Tables, Len(o))
  <2>1. OneIf(o[1].kind \in Calls) = 0 /\ OneIf(o[1].kind \in Tables) = 0
    BY DEF OneIf
  <2>2. p \in Seq(S)
    BY PopFacts
  <2>3. /\ \A i \in 1 .. Len(p) : Rank(p, Calls, i) \in Nat /\ Rank(p, Tables, i) \in Nat
        /\ Rank(p, Calls, Len(p)) \in Nat /\ Rank(p, Tables, Len(p)) \in Nat
    BY <2>2, RankNats
  <2>4. /\ \A i \in 1 .. Len(p) : Rank(o, Calls, i + 1) = Rank(p, Calls, i) + 0
        /\ Rank(o, Calls, Len(o)) = Rank(p, Calls, Len(p)) + 0
    BY <2>1, PopRanks
  <2>5. /\ \A i \in 1 .. Len(p) : Rank(o, Tables, i + 1) = Rank(p, Tables, i) + 0
        /\ Rank(o, Tables, Len(o)) = Rank(p, Tables, Len(p)) + 0
    BY <2>1, PopRanks
  <2>6. /\ \A i \in 1 .. Len(p) : Rank(o, Tables, i + 1) = Rank(p, Tables, i)
        /\ Rank(p, Tables, Len(p)) = Rank(o, Tables, Len(o))
    BY <2>3, <2>5
  <2>7. QED
    BY <2>3, <2>4, <2>6
<1> HIDE DEF p
<1>3. Sized(p, l, e)
  BY <1>2 DEF ListsOK, Sized
<1>4. ASSUME NEW i \in 1 .. Len(p)
      PROVE  OwnedAt(p, l, i) /\ (e = 0 => (p[i].kind = "indexed" => p[i].clean))
  BY <1>1, <1>2 DEF ListsOK, OwnedAt
<1>5. QED
  BY <1>3, <1>4 DEF ListsOK, p

(* A new list in front, and the first one gone.                            *)
LEMMA FrontFacts ==
  ASSUME NEW P, NEW s \in Seq(Seq(P))
  PROVE  /\ <<<<>>>> \o s \in Seq(Seq(P)) /\ Len(<<<<>>>> \o s) = Len(s) + 1
         /\ (<<<<>>>> \o s)[1] = <<>>
         /\ \A i \in 1 .. Len(s) : (<<<<>>>> \o s)[i + 1] = s[i]
         /\ Len(s) \in Nat
<1>1. <<>> \in Seq(P)
  OBVIOUS
<1>2. QED
  BY <1>1, PushFacts

LEMMA FourFields ==
  ASSUME NEW A, NEW B, NEW C, NEW D, NEW x, NEW y, NEW z,
         NEW l \in [param : A, elist : B, indexed : C, values : D]
  PROVE  /\ [l EXCEPT !.param = x] \in
              [param : {x}, elist : {l.elist}, indexed : {l.indexed}, values : {l.values}]
         /\ [l EXCEPT !.indexed = x] \in
              [param : {l.param}, elist : {l.elist}, indexed : {x}, values : {l.values}]
         /\ [l EXCEPT !.values = x] \in
              [param : {l.param}, elist : {l.elist}, indexed : {l.indexed}, values : {x}]
         /\ [l EXCEPT !.param = x, !.elist = y] \in
              [param : {x}, elist : {y}, indexed : {l.indexed}, values : {l.values}]
         /\ [l EXCEPT !.elist = x, !.indexed = y, !.values = z] \in
              [param : {l.param}, elist : {x}, indexed : {y}, values : {z}]
<1>1. [l EXCEPT !.param = x] \in
        [param : {x}, elist : {l.elist}, indexed : {l.indexed}, values : {l.values}]
  OBVIOUS
<1>2. [l EXCEPT !.indexed = x] \in
        [param : {l.param}, elist : {l.elist}, indexed : {x}, values : {l.values}]
  OBVIOUS
<1>3. [l EXCEPT !.values = x] \in
        [param : {l.param}, elist : {l.elist}, indexed : {l.indexed}, values : {x}]
  OBVIOUS
<1>4. [l EXCEPT !.param = x, !.elist = y] \in
        [param : {x}, elist : {y}, indexed : {l.indexed}, values : {l.values}]
  OBVIOUS
<1>5. [l EXCEPT !.elist = x, !.indexed = y, !.values = z] \in
        [param : {l.param}, elist : {x}, indexed : {y}, values : {z}]
  OBVIOUS
<1>6. QED
  BY <1>1, <1>2, <1>3, <1>4, <1>5, Zenon

LEMMA PushCall ==
  ASSUME NEW S, NEW o \in Seq(S), NEW x \in S, x.kind = "call", x.own = <<>>,
         NEW P, NEW l \in ListSet(P), NEW e, ListsOK(o, l, e)
  PROVE  /\ [l EXCEPT !.param = <<<<>>>> \o l.param] \in ListSet(P)
         /\ ListsOK(<<x>> \o o, [l EXCEPT !.param = <<<<>>>> \o l.param], e)
<1> DEFINE p == <<x>> \o o
           m == [l EXCEPT !.param = <<<<>>>> \o l.param]
<1>1. /\ Len(p) = Len(o) + 1 /\ Len(o) \in Nat /\ p[1] = x
      /\ \A i \in 2 .. Len(p) : i - 1 \in 1 .. Len(o) /\ p[i] = o[i - 1]
  BY PushFacts
<1>2. /\ \A i \in 1 .. Len(o) : /\ Rank(p, Calls, i + 1) = Rank(o, Calls, i) + 1
                                /\ Rank(p, Tables, i + 1) = Rank(o, Tables, i)
      /\ Rank(p, Calls, Len(p)) = Rank(o, Calls, Len(o)) + 1
      /\ Rank(p, Tables, Len(p)) = Rank(o, Tables, Len(o))
      /\ Rank(p, Calls, 1) = 1
      /\ Rank(o, Calls, Len(o)) \in Nat
  <2>1. OneIf(x.kind \in Calls) = 1 /\ OneIf(x.kind \in Tables) = 0
    BY DEF OneIf, Calls, Tables
  <2>2. o \in Seq(S)
    OBVIOUS
  <2>3. /\ \A i \in 1 .. Len(o) : Rank(o, Calls, i) \in Nat /\ Rank(o, Tables, i) \in Nat
        /\ Rank(o, Calls, Len(o)) \in Nat /\ Rank(o, Tables, Len(o)) \in Nat
    BY <2>2, RankNats
  <2>4. /\ \A i \in 1 .. Len(o) : Rank(p, Calls, i + 1) = Rank(o, Calls, i) + 1
        /\ Rank(p, Calls, Len(p)) = Rank(o, Calls, Len(o)) + 1
        /\ Rank(p, Calls, 1) = 1
    BY <2>1, PushRanks
  <2>5. /\ \A i \in 1 .. Len(o) : Rank(p, Tables, i + 1) = Rank(o, Tables, i) + 0
        /\ Rank(p, Tables, Len(p)) = Rank(o, Tables, Len(o)) + 0
    BY <2>1, PushRanks
  <2>6. /\ \A i \in 1 .. Len(o) : Rank(p, Tables, i + 1) = Rank(o, Tables, i)
        /\ Rank(p, Tables, Len(p)) = Rank(o, Tables, Len(o))
    BY <2>3, <2>5
  <2>7. QED
    BY <2>3, <2>4, <2>6
<1>3. l.param \in Seq(Seq(P))
  BY DEF ListSet
<1>4. m \in [param : {<<<<>>>> \o l.param}, elist : {l.elist}, indexed : {l.indexed},
            values : {l.values}]
  <2>1. l \in [param : Seq(Seq(P)), elist : Seq(Seq(P)), indexed : Seq(Seq(P)),
               values : Seq(Seq(P))]
    BY DEF ListSet
  <2>2. QED
    BY <2>1, FourFields
<1> HIDE DEF p, m
<1>5. /\ Len(m.param) = Len(l.param) + 1 /\ Len(l.param) \in Nat /\ m.param[1] = <<>>
      /\ \A i \in 1 .. Len(l.param) : m.param[i + 1] = l.param[i]
      /\ m.elist = l.elist /\ m.indexed = l.indexed /\ m.values = l.values
      /\ m.param \in Seq(Seq(P))
  <2>1. /\ m.param = <<<<>>>> \o l.param
        /\ m.elist = l.elist /\ m.indexed = l.indexed /\ m.values = l.values
    BY <1>4
  <2>2. QED
    BY <1>3, <2>1, FrontFacts
<1>6. m \in ListSet(P)
  BY <1>4, <1>5 DEF ListSet
<1>7. Sized(p, m, e)
  <2>1. Sized(o, l, e)
    BY DEF ListsOK
  <2>2. /\ Len(m.elist) = Len(m.indexed) /\ Len(m.elist) = Len(m.values)
        /\ Len(m.elist) >= Rank(p, Tables, Len(p))
        /\ e = 0 => Len(m.elist) = Rank(p, Tables, Len(p))
    BY <1>2, <1>5, <2>1 DEF Sized
  <2>3. /\ Len(m.param) >= Rank(p, Calls, Len(p))
        /\ e = 0 => Len(m.param) = Rank(p, Calls, Len(p))
    BY <1>2, <1>5, <2>1 DEF Sized
  <2>4. QED
    BY <2>2, <2>3 DEF Sized
<1>8. ASSUME NEW i \in 1 .. Len(p)
      PROVE  OwnedAt(p, m, i) /\ (e = 0 => (p[i].kind = "indexed" => p[i].clean))
  <2>1. CASE i = 1
    <3>1. p[i].kind = "call" /\ m.param[Rank(p, Calls, i)] = <<>> /\ Reverse(p[i].own) = <<>>
      BY <1>1, <1>2, <1>5, <2>1 DEF Reverse
    <3>2. QED
      BY <3>1 DEF OwnedAt
  <2>2. CASE i # 1
    <3>1. i - 1 \in 1 .. Len(o) /\ p[i] = o[i - 1] /\ (i - 1) + 1 = i
      BY <1>1, <2>2
    <3>2. /\ Rank(p, Calls, i) = Rank(o, Calls, i - 1) + 1
          /\ Rank(p, Tables, i) = Rank(o, Tables, i - 1)
      BY <1>2, <3>1
    <3>3. o[i - 1].kind = "call" => Rank(o, Calls, i - 1) \in 1 .. Len(l.param)
      BY <3>1, RankInLists DEF ListsOK, Calls
    <3>4. p[i].kind = "call" => m.param[Rank(p, Calls, i)] = l.param[Rank(o, Calls, i - 1)]
      BY <1>5, <3>1, <3>2, <3>3
    <3>5. QED
      BY <1>5, <3>1, <3>2, <3>4, ZenonT(60) DEF ListsOK, OwnedAt
  <2>3. QED
    BY <2>1, <2>2
<1>9. QED
  BY <1>6, <1>7, <1>8 DEF ListsOK, p, m

LEMMA PopCall ==
  ASSUME NEW S, NEW o \in Seq(S), o # <<>>, o[1].kind = "call",
         NEW P, NEW l \in ListSet(P), NEW e, ListsOK(o, l, e)
  PROVE  /\ [l EXCEPT !.param = Tail(l.param)] \in ListSet(P)
         /\ ListsOK(Tail(o), [l EXCEPT !.param = Tail(l.param)], e)
         /\ l.param # <<>> /\ Head(l.param) \in Seq(P)
         /\ o[1].clean => Head(l.param) = Reverse(o[1].own)
<1> DEFINE p == Tail(o)
           m == [l EXCEPT !.param = Tail(l.param)]
<1>1. /\ Len(o) = Len(p) + 1 /\ Len(p) \in Nat /\ 1 \in 1 .. Len(o)
      /\ \A i \in 1 .. Len(p) : p[i] = o[i + 1] /\ i + 1 \in 1 .. Len(o)
      /\ p \in Seq(S)
  BY PopFacts
<1>2. /\ \A i \in 1 .. Len(p) : /\ Rank(o, Calls, i + 1) = Rank(p, Calls, i) + 1
                                /\ Rank(o, Tables, i + 1) = Rank(p, Tables, i)
      /\ Rank(o, Calls, Len(o)) = Rank(p, Calls, Len(p)) + 1
      /\ Rank(p, Tables, Len(p)) = Rank(o, Tables, Len(o))
      /\ Rank(o, Calls, 1) = 1
      /\ Rank(p, Calls, Len(p)) \in Nat
      /\ \A i \in 1 .. Len(p) : Rank(p, Calls, i) \in Nat
  <2>1. OneIf(o[1].kind \in Calls) = 1 /\ OneIf(o[1].kind \in Tables) = 0
    BY DEF OneIf, Calls, Tables
  <2>2. p \in Seq(S)
    BY PopFacts
  <2>3. /\ \A i \in 1 .. Len(p) : Rank(p, Calls, i) \in Nat /\ Rank(p, Tables, i) \in Nat
        /\ Rank(p, Calls, Len(p)) \in Nat /\ Rank(p, Tables, Len(p)) \in Nat
    BY <2>2, RankNats
  <2>4. /\ \A i \in 1 .. Len(p) : Rank(o, Calls, i + 1) = Rank(p, Calls, i) + 1
        /\ Rank(o, Calls, Len(o)) = Rank(p, Calls, Len(p)) + 1
        /\ Rank(o, Calls, 1) = 1
    BY <2>1, PopRanks
  <2>5. /\ \A i \in 1 .. Len(p) : Rank(o, Tables, i + 1) = Rank(p, Tables, i) + 0
        /\ Rank(o, Tables, Len(o)) = Rank(p, Tables, Len(p)) + 0
    BY <2>1, PopRanks
  <2>6. /\ \A i \in 1 .. Len(p) : Rank(o, Tables, i + 1) = Rank(p, Tables, i)
        /\ Rank(p, Tables, Len(p)) = Rank(o, Tables, Len(o))
    BY <2>3, <2>5
  <2>7. QED
    BY <2>3, <2>4, <2>6
<1>3. l.param \in Seq(Seq(P)) /\ Len(l.param) \in Nat /\ Len(l.param) >= 1
  BY <1>2, LenProperties DEF ListSet, ListsOK, Sized
<1>4. m \in [param : {Tail(l.param)}, elist : {l.elist}, indexed : {l.indexed},
            values : {l.values}]
  <2>1. l \in [param : Seq(Seq(P)), elist : Seq(Seq(P)), indexed : Seq(Seq(P)),
               values : Seq(Seq(P))]
    BY DEF ListSet
  <2>2. QED
    BY <2>1, FourFields
<1> HIDE DEF p, m
<1>5. /\ Len(l.param) = Len(m.param) + 1 /\ Len(m.param) \in Nat
      /\ \A i \in 1 .. Len(m.param) : m.param[i] = l.param[i + 1]
      /\ m.elist = l.elist /\ m.indexed = l.indexed /\ m.values = l.values
      /\ m.param \in Seq(Seq(P))
  <2>1. /\ m.param = Tail(l.param)
        /\ m.elist = l.elist /\ m.indexed = l.indexed /\ m.values = l.values
    BY <1>4
  <2>2. l.param # <<>>
    BY <1>3
  <2>3. /\ Len(l.param) = Len(Tail(l.param)) + 1 /\ Len(Tail(l.param)) \in Nat
        /\ \A i \in 1 .. Len(Tail(l.param)) : Tail(l.param)[i] = l.param[i + 1]
        /\ Tail(l.param) \in Seq(Seq(P))
    BY <1>3, <2>2, PopFacts
  <2>4. QED
    BY <2>1, <2>3
<1>6. m \in ListSet(P)
  BY <1>4, <1>5 DEF ListSet
<1>7. Sized(p, m, e)
  <2>1. Sized(o, l, e)
    BY DEF ListsOK
  <2>2. /\ Len(m.elist) = Len(m.indexed) /\ Len(m.elist) = Len(m.values)
        /\ Len(m.elist) >= Rank(p, Tables, Len(p))
        /\ e = 0 => Len(m.elist) = Rank(p, Tables, Len(p))
    BY <1>2, <1>5, <2>1 DEF Sized
  <2>3. /\ Len(m.param) >= Rank(p, Calls, Len(p))
        /\ e = 0 => Len(m.param) = Rank(p, Calls, Len(p))
    BY <1>2, <1>5, <2>1 DEF Sized
  <2>4. QED
    BY <2>2, <2>3 DEF Sized
<1>8. ASSUME NEW i \in 1 .. Len(p)
      PROVE  OwnedAt(p, m, i) /\ (e = 0 => (p[i].kind = "indexed" => p[i].clean))
  <2>1. /\ p[i] = o[i + 1] /\ i + 1 \in 1 .. Len(o)
        /\ Rank(o, Calls, i + 1) = Rank(p, Calls, i) + 1
        /\ Rank(o, Tables, i + 1) = Rank(p, Tables, i)
        /\ Rank(p, Calls, i) \in Nat
    BY <1>1, <1>2
  <2>2. p[i].kind = "call" => Rank(p, Calls, i) \in 1 .. Len(m.param)
    BY <1>1, <1>6, <1>7, RankInLists DEF Calls
  <2>3. p[i].kind = "call" => m.param[Rank(p, Calls, i)] = l.param[Rank(o, Calls, i + 1)]
    BY <1>5, <2>1, <2>2
  <2>4. QED
    BY <1>5, <2>1, <2>3 DEF ListsOK, OwnedAt
<1>9. /\ l.param # <<>> /\ Head(l.param) = l.param[1] /\ Head(l.param) \in Seq(P)
  BY <1>3
<1>10. o[1].clean => Head(l.param) = Reverse(o[1].own)
  BY <1>1, <1>2, <1>9 DEF ListsOK, OwnedAt
<1>11. QED
  BY <1>6, <1>7, <1>8, <1>9, <1>10 DEF ListsOK, p, m

LEMMA PushTable ==
  ASSUME NEW S, NEW o \in Seq(S), NEW x \in S, x.kind \in Tables, x.own = <<>>, x.keys = <<>>,
         x.clean, NEW P, NEW l \in ListSet(P), NEW e, ListsOK(o, l, e)
  PROVE  LET m == [l EXCEPT !.elist = <<<<>>>> \o l.elist, !.indexed = <<<<>>>> \o l.indexed,
                            !.values = <<<<>>>> \o l.values] IN
         m \in ListSet(P) /\ ListsOK(<<x>> \o o, m, e)
<1> DEFINE p == <<x>> \o o
           m == [l EXCEPT !.elist = <<<<>>>> \o l.elist, !.indexed = <<<<>>>> \o l.indexed,
                          !.values = <<<<>>>> \o l.values]
<1>1. /\ Len(p) = Len(o) + 1 /\ Len(o) \in Nat /\ p[1] = x
      /\ \A i \in 2 .. Len(p) : i - 1 \in 1 .. Len(o) /\ p[i] = o[i - 1]
  BY PushFacts
<1>2. /\ \A i \in 1 .. Len(o) : /\ Rank(p, Calls, i + 1) = Rank(o, Calls, i)
                                /\ Rank(p, Tables, i + 1) = Rank(o, Tables, i) + 1
      /\ Rank(p, Calls, Len(p)) = Rank(o, Calls, Len(o))
      /\ Rank(p, Tables, Len(p)) = Rank(o, Tables, Len(o)) + 1
      /\ Rank(p, Tables, 1) = 1
      /\ Rank(o, Tables, Len(o)) \in Nat
  <2>1. OneIf(x.kind \in Calls) = 0 /\ OneIf(x.kind \in Tables) = 1
    BY DEF OneIf, Calls, Tables
  <2>3. /\ \A i \in 1 .. Len(o) : Rank(o, Calls, i) \in Nat /\ Rank(o, Tables, i) \in Nat
        /\ Rank(o, Calls, Len(o)) \in Nat /\ Rank(o, Tables, Len(o)) \in Nat
    BY RankNats
  <2>4. /\ \A i \in 1 .. Len(o) : Rank(p, Tables, i + 1) = Rank(o, Tables, i) + 1
        /\ Rank(p, Tables, Len(p)) = Rank(o, Tables, Len(o)) + 1
        /\ Rank(p, Tables, 1) = 1
    BY <2>1, PushRanks
  <2>5. /\ \A i \in 1 .. Len(o) : Rank(p, Calls, i + 1) = Rank(o, Calls, i) + 0
        /\ Rank(p, Calls, Len(p)) = Rank(o, Calls, Len(o)) + 0
    BY <2>1, PushRanks
  <2>6. /\ \A i \in 1 .. Len(o) : Rank(p, Calls, i + 1) = Rank(o, Calls, i)
        /\ Rank(p, Calls, Len(p)) = Rank(o, Calls, Len(o))
    BY <2>3, <2>5
  <2>7. QED
    BY <2>3, <2>4, <2>6
<1>3. /\ l \in [param : Seq(Seq(P)), elist : Seq(Seq(P)), indexed : Seq(Seq(P)),
               values : Seq(Seq(P))]
      /\ l.param \in Seq(Seq(P)) /\ l.elist \in Seq(Seq(P)) /\ l.indexed \in Seq(Seq(P))
      /\ l.values \in Seq(Seq(P))
  BY DEF ListSet
<1>4. m \in [param : {l.param}, elist : {<<<<>>>> \o l.elist}, indexed : {<<<<>>>> \o l.indexed},
            values : {<<<<>>>> \o l.values}]
  BY <1>3, FourFields
<1> HIDE DEF p, m
<1>5. /\ m.param = l.param /\ m.elist = <<<<>>>> \o l.elist
      /\ m.indexed = <<<<>>>> \o l.indexed /\ m.values = <<<<>>>> \o l.values
  BY <1>4
<1>6. /\ Len(m.elist) = Len(l.elist) + 1 /\ m.elist[1] = <<>>
      /\ \A i \in 1 .. Len(l.elist) : m.elist[i + 1] = l.elist[i]
      /\ m.elist \in Seq(Seq(P))
  BY <1>3, <1>5, FrontFacts
<1>7. /\ Len(m.indexed) = Len(l.indexed) + 1 /\ m.indexed[1] = <<>>
      /\ \A i \in 1 .. Len(l.indexed) : m.indexed[i + 1] = l.indexed[i]
      /\ m.indexed \in Seq(Seq(P))
  BY <1>3, <1>5, FrontFacts
<1>8. /\ Len(m.values) = Len(l.values) + 1 /\ m.values[1] = <<>>
      /\ \A i \in 1 .. Len(l.values) : m.values[i + 1] = l.values[i]
      /\ m.values \in Seq(Seq(P))
  BY <1>3, <1>5, FrontFacts
<1>9. m \in ListSet(P)
  BY <1>3, <1>4, <1>5, <1>6, <1>7, <1>8 DEF ListSet
<1>10. Sized(p, m, e)
  <2>1. Sized(o, l, e) /\ Len(l.elist) \in Nat
    BY <1>3, LenProperties DEF ListsOK
  <2>2. /\ Len(m.elist) = Len(m.indexed) /\ Len(m.elist) = Len(m.values)
        /\ Len(m.elist) >= Rank(p, Tables, Len(p))
        /\ e = 0 => Len(m.elist) = Rank(p, Tables, Len(p))
    BY <1>2, <1>6, <1>7, <1>8, <2>1 DEF Sized
  <2>3. /\ Len(m.param) >= Rank(p, Calls, Len(p))
        /\ e = 0 => Len(m.param) = Rank(p, Calls, Len(p))
    BY <1>2, <1>5, <2>1 DEF Sized
  <2>4. QED
    BY <2>2, <2>3 DEF Sized
<1>11. ASSUME NEW i \in 1 .. Len(p)
       PROVE  OwnedAt(p, m, i) /\ (e = 0 => (p[i].kind = "indexed" => p[i].clean))
  <2>1. CASE i = 1
    <3>1. /\ p[i].kind # "call" /\ p[i].own = <<>> /\ p[i].keys = <<>> /\ p[i].clean
          /\ Rank(p, Tables, i) = 1
      BY <1>1, <1>2, <2>1 DEF Tables
    <3>2. QED
      BY <1>6, <1>7, <1>8, <3>1 DEF OwnedAt
  <2>2. CASE i # 1
    <3>0. i \in 2 .. Len(p) /\ (i - 1) + 1 = i
      BY <2>2, <1>1
    <3>1. i - 1 \in 1 .. Len(o) /\ p[i] = o[i - 1] /\ (i - 1) + 1 = i
      BY <1>1, <3>0
    <3>2. /\ Rank(p, Calls, i) = Rank(o, Calls, i - 1)
          /\ Rank(p, Tables, i) = Rank(o, Tables, i - 1) + 1
      BY <1>2, <3>1
    <3>3. o[i - 1].kind \in {"elist", "indexed"} =>
            /\ Rank(o, Tables, i - 1) \in 1 .. Len(l.elist)
            /\ Rank(o, Tables, i - 1) \in 1 .. Len(l.indexed)
            /\ Rank(o, Tables, i - 1) \in 1 .. Len(l.values)
      BY <3>1, RankInLists DEF ListsOK, Tables
    <3>4. p[i].kind \in {"elist", "indexed"} =>
            /\ m.elist[Rank(p, Tables, i)] = l.elist[Rank(o, Tables, i - 1)]
            /\ m.indexed[Rank(p, Tables, i)] = l.indexed[Rank(o, Tables, i - 1)]
            /\ m.values[Rank(p, Tables, i)] = l.values[Rank(o, Tables, i - 1)]
      BY <1>6, <1>7, <1>8, <3>1, <3>2, <3>3, ZenonT(60)
    <3>5. QED
      BY <1>5, <3>1, <3>2, <3>4 DEF ListsOK, OwnedAt
  <2>3. QED
    BY <2>1, <2>2
<1>12. QED
  BY <1>9, <1>10, <1>11 DEF ListsOK, p, m

LEMMA PopTable ==
  ASSUME NEW S, NEW o \in Seq(S), o # <<>>, o[1].kind \in Tables,
         NEW P, NEW l \in ListSet(P), NEW e, ListsOK(o, l, e)
  PROVE  /\ LET m == [l EXCEPT !.elist = Tail(l.elist), !.indexed = Tail(l.indexed),
                               !.values = Tail(l.values)] IN
            m \in ListSet(P) /\ ListsOK(Tail(o), m, e)
         /\ Head(l.elist) \in Seq(P) /\ Head(l.indexed) \in Seq(P) /\ Head(l.values) \in Seq(P)
         /\ o[1].clean /\ o[1].kind = "elist" => Head(l.elist) = o[1].own
         /\ o[1].clean /\ o[1].kind = "indexed" =>
              Head(l.indexed) = o[1].keys /\ Head(l.values) = o[1].own
<1> DEFINE p == Tail(o)
           m == [l EXCEPT !.elist = Tail(l.elist), !.indexed = Tail(l.indexed),
                          !.values = Tail(l.values)]
<1>1. /\ Len(o) = Len(p) + 1 /\ Len(p) \in Nat /\ 1 \in 1 .. Len(o)
      /\ \A i \in 1 .. Len(p) : p[i] = o[i + 1] /\ i + 1 \in 1 .. Len(o)
      /\ p \in Seq(S)
  BY PopFacts
<1>2. /\ \A i \in 1 .. Len(p) : /\ Rank(o, Tables, i + 1) = Rank(p, Tables, i) + 1
                                /\ Rank(o, Calls, i + 1) = Rank(p, Calls, i)
      /\ Rank(o, Tables, Len(o)) = Rank(p, Tables, Len(p)) + 1
      /\ Rank(p, Calls, Len(p)) = Rank(o, Calls, Len(o))
      /\ Rank(o, Tables, 1) = 1
      /\ Rank(p, Tables, Len(p)) \in Nat
      /\ \A i \in 1 .. Len(p) : Rank(p, Tables, i) \in Nat
  <2>1. OneIf(o[1].kind \in Calls) = 0 /\ OneIf(o[1].kind \in Tables) = 1
    BY DEF OneIf, Calls, Tables
  <2>2. p \in Seq(S)
    BY PopFacts
  <2>3. /\ \A i \in 1 .. Len(p) : Rank(p, Calls, i) \in Nat /\ Rank(p, Tables, i) \in Nat
        /\ Rank(p, Calls, Len(p)) \in Nat /\ Rank(p, Tables, Len(p)) \in Nat
    BY <2>2, RankNats
  <2>4. /\ \A i \in 1 .. Len(p) : Rank(o, Tables, i + 1) = Rank(p, Tables, i) + 1
        /\ Rank(o, Tables, Len(o)) = Rank(p, Tables, Len(p)) + 1
        /\ Rank(o, Tables, 1) = 1
    BY <2>1, PopRanks
  <2>5. /\ \A i \in 1 .. Len(p) : Rank(o, Calls, i + 1) = Rank(p, Calls, i) + 0
        /\ Rank(o, Calls, Len(o)) = Rank(p, Calls, Len(p)) + 0
    BY <2>1, PopRanks
  <2>6. /\ \A i \in 1 .. Len(p) : Rank(o, Calls, i + 1) = Rank(p, Calls, i)
        /\ Rank(p, Calls, Len(p)) = Rank(o, Calls, Len(o))
    BY <2>3, <2>5
  <2>7. QED
    BY <2>3, <2>4, <2>6
<1>3. /\ l \in [param : Seq(Seq(P)), elist : Seq(Seq(P)), indexed : Seq(Seq(P)),
               values : Seq(Seq(P))]
      /\ l.param \in Seq(Seq(P)) /\ l.elist \in Seq(Seq(P)) /\ l.indexed \in Seq(Seq(P))
      /\ l.values \in Seq(Seq(P))
  BY DEF ListSet
<1>4. m \in [param : {l.param}, elist : {Tail(l.elist)}, indexed : {Tail(l.indexed)},
            values : {Tail(l.values)}]
  BY <1>3, FourFields
<1> HIDE DEF p, m
<1>5. /\ m.param = l.param /\ m.elist = Tail(l.elist)
      /\ m.indexed = Tail(l.indexed) /\ m.values = Tail(l.values)
  BY <1>4
<1>6. /\ Len(l.elist) \in Nat /\ Len(l.elist) >= 1
      /\ Len(l.indexed) = Len(l.elist) /\ Len(l.values) = Len(l.elist)
  BY <1>2, <1>3, LenProperties DEF ListsOK, Sized
<1>7. l.elist # <<>> /\ l.indexed # <<>> /\ l.values # <<>>
  BY <1>6
<1>8. /\ Len(l.elist) = Len(m.elist) + 1 /\ Len(m.elist) \in Nat
      /\ \A i \in 1 .. Len(m.elist) : m.elist[i] = l.elist[i + 1]
      /\ m.elist \in Seq(Seq(P)) /\ Head(l.elist) = l.elist[1] /\ Head(l.elist) \in Seq(P)
  BY <1>3, <1>5, <1>7, PopFacts
<1>9. /\ Len(l.indexed) = Len(m.indexed) + 1 /\ Len(m.indexed) \in Nat
      /\ \A i \in 1 .. Len(m.indexed) : m.indexed[i] = l.indexed[i + 1]
      /\ m.indexed \in Seq(Seq(P)) /\ Head(l.indexed) = l.indexed[1] /\ Head(l.indexed) \in Seq(P)
  BY <1>3, <1>5, <1>7, PopFacts
<1>10. /\ Len(l.values) = Len(m.values) + 1 /\ Len(m.values) \in Nat
       /\ \A i \in 1 .. Len(m.values) : m.values[i] = l.values[i + 1]
       /\ m.values \in Seq(Seq(P)) /\ Head(l.values) = l.values[1] /\ Head(l.values) \in Seq(P)
  BY <1>3, <1>5, <1>7, PopFacts
<1>11. m \in ListSet(P)
  BY <1>3, <1>4, <1>5, <1>8, <1>9, <1>10 DEF ListSet
<1>12. Sized(p, m, e)
  <2>1. Sized(o, l, e)
    BY DEF ListsOK
  <2>2. /\ Len(m.elist) = Len(m.indexed) /\ Len(m.elist) = Len(m.values)
        /\ Len(m.elist) >= Rank(p, Tables, Len(p))
        /\ e = 0 => Len(m.elist) = Rank(p, Tables, Len(p))
    <3>1. /\ Rank(o, Tables, Len(o)) = Rank(p, Tables, Len(p)) + 1
          /\ Rank(p, Tables, Len(p)) \in Nat
          /\ Len(l.elist) = Len(m.elist) + 1 /\ Len(m.elist) \in Nat
          /\ Len(l.indexed) = Len(m.indexed) + 1 /\ Len(m.indexed) \in Nat
          /\ Len(l.values) = Len(m.values) + 1 /\ Len(m.values) \in Nat
      BY <1>2, <1>8, <1>9, <1>10
    <3>2. /\ Len(l.elist) = Len(l.indexed) /\ Len(l.elist) = Len(l.values)
          /\ Len(l.elist) >= Rank(o, Tables, Len(o))
          /\ e = 0 => Len(l.elist) = Rank(o, Tables, Len(o))
      BY <2>1 DEF Sized
    <3>3. Len(m.elist) = Len(m.indexed)
      BY <3>1, <3>2, SMTT(40)
    <3>4. Len(m.elist) = Len(m.values)
      BY <3>1, <3>2, SMTT(40)
    <3>5. Len(m.elist) >= Rank(p, Tables, Len(p))
      BY <3>1, <3>2
    <3>6. e = 0 => Len(m.elist) = Rank(p, Tables, Len(p))
      BY <3>1, <3>2
    <3>7. QED
      BY <3>3, <3>4, <3>5, <3>6
  <2>3. /\ Len(m.param) >= Rank(p, Calls, Len(p))
        /\ e = 0 => Len(m.param) = Rank(p, Calls, Len(p))
    BY <1>2, <1>5, <2>1 DEF Sized
  <2>4. QED
    BY <2>2, <2>3 DEF Sized
<1>13. ASSUME NEW i \in 1 .. Len(p)
       PROVE  OwnedAt(p, m, i) /\ (e = 0 => (p[i].kind = "indexed" => p[i].clean))
  <2>1. /\ p[i] = o[i + 1] /\ i + 1 \in 1 .. Len(o)
        /\ Rank(o, Tables, i + 1) = Rank(p, Tables, i) + 1
        /\ Rank(o, Calls, i + 1) = Rank(p, Calls, i)
        /\ Rank(p, Tables, i) \in Nat
    BY <1>1, <1>2
  <2>2. p[i].kind \in {"elist", "indexed"} =>
          /\ Rank(p, Tables, i) \in 1 .. Len(m.elist)
          /\ Rank(p, Tables, i) \in 1 .. Len(m.indexed)
          /\ Rank(p, Tables, i) \in 1 .. Len(m.values)
    BY <1>1, <1>11, <1>12, RankInLists DEF Tables
  <2>3. p[i].kind \in {"elist", "indexed"} =>
          /\ m.elist[Rank(p, Tables, i)] = l.elist[Rank(o, Tables, i + 1)]
          /\ m.indexed[Rank(p, Tables, i)] = l.indexed[Rank(o, Tables, i + 1)]
          /\ m.values[Rank(p, Tables, i)] = l.values[Rank(o, Tables, i + 1)]
    BY <1>8, <1>9, <1>10, <2>1, <2>2
  <2>4. QED
    BY <1>5, <2>1, <2>3 DEF ListsOK, OwnedAt
<1>14. /\ o[1].clean /\ o[1].kind = "elist" => Head(l.elist) = o[1].own
       /\ o[1].clean /\ o[1].kind = "indexed" =>
            Head(l.indexed) = o[1].keys /\ Head(l.values) = o[1].own
  BY <1>1, <1>2, <1>8, <1>9, <1>10, ZenonT(60) DEF ListsOK, OwnedAt
<1>15. QED
  BY <1>8, <1>9, <1>10, <1>11, <1>12, <1>13, <1>14 DEF ListsOK, p, m

ContextSet(E, P) ==
  [kind : {"function", "index", "call index", "assign", "call", "elist", "indexed"},
   head : E, own : Seq(P), keys : Seq(P), clean : BOOLEAN]

(* t is s with another first list. *)
Topped(P, s, t, x) ==
  /\ t \in Seq(Seq(P)) /\ Len(t) = Len(s)
  /\ \A i \in 2 .. Len(s) : t[i] = s[i]
  /\ 1 \in 1 .. Len(s) => t[1] = x

LEMMA TopFacts ==
  ASSUME NEW P, NEW s \in Seq(Seq(P)), NEW v \in P
  PROVE  /\ Topped(P, s, TopPush(s, v), <<v>> \o s[1])
         /\ Topped(P, s, TopAppend(s, v), Append(s[1], v))
<1>1. CASE s = <<>>
  BY <1>1 DEF TopPush, TopAppend, Topped
<1>2. CASE s # <<>>
  <2>1. 1 \in 1 .. Len(s) /\ DOMAIN s = 1 .. Len(s) /\ s[1] \in Seq(P) /\ Len(s) \in Nat
    BY <1>2
  <2>2. <<v>> \o s[1] \in Seq(P) /\ Append(s[1], v) \in Seq(P)
    BY <2>1
  <2>3. /\ TopPush(s, v) = [s EXCEPT ![1] = <<v>> \o s[1]]
        /\ TopAppend(s, v) = [s EXCEPT ![1] = Append(s[1], v)]
    BY <1>2 DEF TopPush, TopAppend
  <2>4. ASSUME NEW x \in Seq(P)
        PROVE  Topped(P, s, [s EXCEPT ![1] = x], x)
    BY <2>1, ExceptSeq DEF Topped
  <2>5. QED
    BY <2>2, <2>3, <2>4
<1>3. QED
  BY <1>1, <1>2

LEMMA ReverseAppend ==
  ASSUME NEW P, NEW s \in Seq(P), NEW v \in P
  PROVE  Reverse(Append(s, v)) = <<v>> \o Reverse(s)
BY DEF Reverse

(* The innermost context changes. *)
LEMMA TopContext ==
  ASSUME NEW S, NEW o \in Seq(S), o # <<>>, NEW x \in S
  PROVE  /\ [o EXCEPT ![1] = x] \in Seq(S) /\ Len([o EXCEPT ![1] = x]) = Len(o)
         /\ [o EXCEPT ![1] = x][1] = x
         /\ \A i \in 2 .. Len(o) : [o EXCEPT ![1] = x][i] = o[i]
         /\ 1 \in 1 .. Len(o) /\ Len(o) \in Nat /\ o[1] \in S
<1>1. 1 \in 1 .. Len(o) /\ DOMAIN o = 1 .. Len(o) /\ Len(o) \in Nat /\ o[1] \in S
  OBVIOUS
<1>2. QED
  BY <1>1, ExceptSeq

LEMMA ContextUpdates ==
  ASSUME NEW E, NEW P, NEW x \in ContextSet(E, P), NEW v \in P
  PROVE  /\ [x EXCEPT !.own = Append(x.own, v)] \in
              {y \in ContextSet(E, P) : /\ y.own = Append(x.own, v) /\ y.kind = x.kind
                                       /\ y.head = x.head /\ y.keys = x.keys /\ y.clean = x.clean}
         /\ [x EXCEPT !.keys = Append(x.keys, v)] \in
              {y \in ContextSet(E, P) : /\ y.keys = Append(x.keys, v) /\ y.kind = x.kind
                                       /\ y.head = x.head /\ y.own = x.own /\ y.clean = x.clean}
<1>1. Append(x.own, v) \in Seq(P) /\ Append(x.keys, v) \in Seq(P)
  <2>1. x.own \in Seq(P) /\ x.keys \in Seq(P)
    BY DEF ContextSet
  <2>2. QED
    BY <2>1
<1>2. \A w \in Seq(P) : [x EXCEPT !.own = w] \in
        {y \in ContextSet(E, P) : /\ y.own = w /\ y.kind = x.kind
                                 /\ y.head = x.head /\ y.keys = x.keys /\ y.clean = x.clean}
  BY DEF ContextSet
<1>3. \A w \in Seq(P) : [x EXCEPT !.keys = w] \in
        {y \in ContextSet(E, P) : /\ y.keys = w /\ y.kind = x.kind
                                 /\ y.head = x.head /\ y.own = x.own /\ y.clean = x.clean}
  BY DEF ContextSet
<1>4. QED
  BY <1>1, <1>2, <1>3, Zenon

(* Contexts that are the same but for their elements and clean.            *)
SameShape(o, p) ==
  /\ Len(p) = Len(o)
  /\ \A i \in 1 .. Len(o) : p[i].kind = o[i].kind /\ p[i].head = o[i].head

LEMMA SameShapeRanks ==
  ASSUME NEW S, NEW o \in Seq(S), NEW p, SameShape(o, p)
  PROVE  \A K : \A i \in 1 .. Len(o) \cup {Len(o)} : Rank(p, K, i) = Rank(o, K, i)
<1>1. ASSUME NEW K, NEW i \in 1 .. Len(o) \cup {Len(o)}
      PROVE  Rank(p, K, i) = Rank(o, K, i)
  <2>1. i \in Nat /\ \A j \in 1 .. i : p[j].kind = o[j].kind
    BY DEF SameShape
  <2>2. QED
    BY <2>1, RankSame
<1>2. QED
  BY <1>1

LEMMA DisturbFacts ==
  ASSUME NEW E, NEW P, NEW o \in Seq(ContextSet(E, P)), NEW K
  PROVE  LET p == Disturb(o, K) IN
         /\ p \in Seq(ContextSet(E, P)) /\ SameShape(o, p)
         /\ \A i \in 1 .. Len(o) :
              /\ p[i].own = o[i].own /\ p[i].keys = o[i].keys
              /\ p[i].clean => o[i].clean
              /\ o[i].kind = "indexed" => p[i].clean = o[i].clean
              /\ /\ o[i].kind \in K /\ o[i].kind # "indexed"
                 /\ \A j \in 1 .. i - 1 : o[j].kind \notin K
                 => ~p[i].clean
              /\ o[i].kind \notin K => p[i].clean = o[i].clean
<1> DEFINE S == ContextSet(E, P)
           Hit(i) == o[i].kind \in K /\ \A j \in 1 .. i - 1 : o[j].kind \notin K
           b(i) == o[i].clean /\ o[i].kind = "indexed"
           y(i) == IF Hit(i) THEN [o[i] EXCEPT !.clean = b(i)] ELSE o[i]
           p == Disturb(o, K)
<1>1. p = [i \in 1 .. Len(o) |-> y(i)]
  BY DEF Disturb
<1>2. ASSUME NEW i \in 1 .. Len(o)
      PROVE  /\ y(i) \in S /\ y(i).kind = o[i].kind /\ y(i).head = o[i].head
             /\ y(i).own = o[i].own /\ y(i).keys = o[i].keys
             /\ y(i).clean = IF Hit(i) THEN b(i) ELSE o[i].clean
  <2>1. o[i] \in S
    OBVIOUS
  <2>2. b(i) \in BOOLEAN
    BY Zenon
  <2>3. LET z == [o[i] EXCEPT !.clean = b(i)] IN
        /\ z \in S /\ z.clean = b(i) /\ z.kind = o[i].kind /\ z.head = o[i].head
        /\ z.own = o[i].own /\ z.keys = o[i].keys
    <3> HIDE DEF b
    <3>1. QED
      BY <2>1, <2>2 DEF ContextSet
  <2>4. QED
    BY <2>1, <2>3, Zenon
<1>3. Len(o) \in Nat
  OBVIOUS
<1>4. \A i \in 1 .. Len(o) : p[i] = y(i)
  BY <1>1, Zenon
<1>5. p \in Seq(S) /\ Len(p) = Len(o)
  <2> HIDE DEF y, p
  <2>1. \A i \in 1 .. Len(o) : y(i) \in S
    BY <1>2
  <2>2. p \in [1 .. Len(o) -> S]
    BY <1>1, <2>1
  <2>3. QED
    BY <1>3, <2>2, LenProperties, IsASeq, SeqDef
<1> HIDE DEF p
<1>6. SameShape(o, p)
  <2> HIDE DEF y
  <2>1. QED
    BY <1>2, <1>4, <1>5 DEF SameShape
<1>7. ASSUME NEW i \in 1 .. Len(o)
      PROVE  /\ p[i].own = o[i].own /\ p[i].keys = o[i].keys
             /\ p[i].clean = IF Hit(i) THEN b(i) ELSE o[i].clean
  <2> HIDE DEF y, Hit, b
  <2>1. QED
    BY <1>2, <1>4
<1>8. ASSUME NEW i \in 1 .. Len(o)
      PROVE  /\ p[i].clean => o[i].clean
             /\ o[i].kind = "indexed" => p[i].clean = o[i].clean
             /\ /\ o[i].kind \in K /\ o[i].kind # "indexed"
                /\ \A j \in 1 .. i - 1 : o[j].kind \notin K
                => ~p[i].clean
             /\ o[i].kind \notin K => p[i].clean = o[i].clean
  <2>1. o[i].clean \in BOOLEAN
    <3>1. o[i] \in ContextSet(E, P)
      OBVIOUS
    <3>2. QED
      BY <3>1 DEF ContextSet
  <2>2. p[i].clean = IF Hit(i) THEN b(i) ELSE o[i].clean
    BY <1>7, Zenon
  <2>3. QED
    BY <2>1, <2>2, Zenon
<1>9. QED
  BY <1>5, <1>6, <1>7, <1>8 DEF p

LEMMA SizedSame ==
  ASSUME NEW S, NEW o \in Seq(S), NEW p, SameShape(o, p), NEW l, NEW m, NEW e, Sized(o, l, e),
         Len(m.param) = Len(l.param), Len(m.elist) = Len(l.elist),
         Len(m.indexed) = Len(l.indexed), Len(m.values) = Len(l.values)
  PROVE  Sized(p, m, e)
<1>1. /\ Rank(p, Calls, Len(o)) = Rank(o, Calls, Len(o))
      /\ Rank(p, Tables, Len(o)) = Rank(o, Tables, Len(o))
  BY SameShapeRanks
<1>2. Len(p) = Len(o)
  BY DEF SameShape
<1>3. QED
  BY <1>1, <1>2 DEF Sized

(* An element on top of the lists: of the innermost call or of the         *)
(* innermost table if that is the innermost context, of nothing otherwise. *)
ElementOf(o, p, v, kind, K) ==
  \A i \in 1 .. Len(o) : o[i].kind = kind /\ p[i].clean =>
    \/ i = 1 /\ p[i].own = Append(o[i].own, v)
    \/ p[i].own = o[i].own /\ \E j \in 1 .. i - 1 : o[j].kind \in K

LEMMA ElementLists ==
  ASSUME NEW E, NEW P, NEW o \in Seq(ContextSet(E, P)), NEW p, SameShape(o, p),
         NEW l \in ListSet(P), NEW e, NEW v \in P, ListsOK(o, l, e),
         \A i \in 1 .. Len(o) :
           /\ p[i].keys = o[i].keys /\ (p[i].clean => o[i].clean)
           /\ o[i].kind = "indexed" => p[i].own = o[i].own /\ p[i].clean = o[i].clean,
         ElementOf(o, p, v, "call", Calls), ElementOf(o, p, v, "elist", Tables)
  PROVE  LET m == [l EXCEPT !.param = TopPush(l.param, v), !.elist = TopAppend(l.elist, v)] IN
         m \in ListSet(P) /\ ListsOK(p, m, e)
<1> DEFINE S == ContextSet(E, P)
           m == [l EXCEPT !.param = TopPush(l.param, v), !.elist = TopAppend(l.elist, v)]
<1>1. /\ l \in [param : Seq(Seq(P)), elist : Seq(Seq(P)), indexed : Seq(Seq(P)),
               values : Seq(Seq(P))]
      /\ l.param \in Seq(Seq(P)) /\ l.elist \in Seq(Seq(P)) /\ l.indexed \in Seq(Seq(P))
      /\ l.values \in Seq(Seq(P))
  BY DEF ListSet
<1>2. m \in [param : {TopPush(l.param, v)}, elist : {TopAppend(l.elist, v)},
             indexed : {l.indexed}, values : {l.values}]
  BY <1>1, FourFields
<1> HIDE DEF m
<1>3. /\ m.param = TopPush(l.param, v) /\ m.elist = TopAppend(l.elist, v)
      /\ m.indexed = l.indexed /\ m.values = l.values
  BY <1>2
<1>4. /\ m.param \in Seq(Seq(P)) /\ Len(m.param) = Len(l.param)
      /\ \A i \in 2 .. Len(l.param) : m.param[i] = l.param[i]
      /\ 1 \in 1 .. Len(l.param) => m.param[1] = <<v>> \o l.param[1]
  <2>1. Topped(P, l.param, TopPush(l.param, v), <<v>> \o l.param[1])
    BY <1>1, TopFacts
  <2>2. QED
    BY <1>3, <2>1 DEF Topped
<1>5. /\ m.elist \in Seq(Seq(P)) /\ Len(m.elist) = Len(l.elist)
      /\ \A i \in 2 .. Len(l.elist) : m.elist[i] = l.elist[i]
      /\ 1 \in 1 .. Len(l.elist) => m.elist[1] = Append(l.elist[1], v)
  <2>1. Topped(P, l.elist, TopAppend(l.elist, v), Append(l.elist[1], v))
    BY <1>1, TopFacts
  <2>2. QED
    BY <1>3, <2>1 DEF Topped
<1>6. m \in ListSet(P)
  BY <1>1, <1>2, <1>3, <1>4, <1>5 DEF ListSet
<1>7. Sized(o, l, e)
  BY DEF ListsOK
<1>8. Sized(p, m, e)
  BY <1>3, <1>4, <1>5, <1>7, SizedSame
<1>9. ASSUME NEW i \in 1 .. Len(o)
      PROVE  OwnedAt(p, m, i) /\ (e = 0 => (p[i].kind = "indexed" => p[i].clean))
  <2>1. /\ Rank(p, Calls, i) = Rank(o, Calls, i) /\ Rank(p, Tables, i) = Rank(o, Tables, i)
        /\ p[i].kind = o[i].kind /\ i \in Nat \ {0}
    BY SameShapeRanks DEF SameShape
  <2>2. OwnedAt(o, l, i) /\ (e = 0 => (o[i].kind = "indexed" => o[i].clean))
    BY DEF ListsOK
  <2>3. o[i].own \in Seq(P)
    <3>1. o[i] \in S
      OBVIOUS
    <3>2. QED
      BY <3>1 DEF ContextSet
  <2>4. ASSUME p[i].clean, p[i].kind = "call"
        PROVE  m.param[Rank(p, Calls, i)] = Reverse(p[i].own)
    <3>1. /\ o[i].clean /\ o[i].kind \in Calls
          /\ l.param[Rank(o, Calls, i)] = Reverse(o[i].own)
      BY <2>1, <2>2, <2>4 DEF OwnedAt, Calls
    <3>2. Rank(o, Calls, i) \in 1 .. Len(l.param)
      BY <1>7, <3>1, RankInLists
    <3>3. CASE i = 1 /\ p[i].own = Append(o[i].own, v)
      <4>1. Rank(o, Calls, i) = 1
        BY <2>1, <3>1, <3>3, RankFirst
      <4>2. m.param[1] = <<v>> \o Reverse(o[i].own)
        BY <1>4, <3>1, <3>2, <4>1
      <4>3. Reverse(p[i].own) = <<v>> \o Reverse(o[i].own)
        BY <2>3, <3>3, ReverseAppend
      <4>4. QED
        BY <2>1, <4>1, <4>2, <4>3
    <3>4. CASE p[i].own = o[i].own /\ \E j \in 1 .. i - 1 : o[j].kind \in Calls
      <4>1. Rank(o, Calls, i) >= 2
        BY <2>1, <3>1, <3>4, RankFirst
      <4>2. Rank(o, Calls, i) \in 2 .. Len(l.param)
        BY <3>2, <4>1
      <4>3. QED
        BY <1>4, <2>1, <3>1, <3>4, <4>2
    <3>5. QED
      BY <2>1, <2>4, <3>3, <3>4 DEF ElementOf
  <2>5. ASSUME p[i].clean, p[i].kind = "elist"
        PROVE  m.elist[Rank(p, Tables, i)] = p[i].own
    <3>1. /\ o[i].clean /\ o[i].kind \in Tables
          /\ l.elist[Rank(o, Tables, i)] = o[i].own
      BY <2>1, <2>2, <2>5 DEF OwnedAt, Tables
    <3>2. Rank(o, Tables, i) \in 1 .. Len(l.elist)
      BY <1>7, <3>1, RankInLists
    <3>3. CASE i = 1 /\ p[i].own = Append(o[i].own, v)
      <4>1. Rank(o, Tables, i) = 1
        BY <2>1, <3>1, <3>3, RankFirst
      <4>2. QED
        BY <1>5, <2>1, <3>1, <3>2, <3>3, <4>1
    <3>4. CASE p[i].own = o[i].own /\ \E j \in 1 .. i - 1 : o[j].kind \in Tables
      <4>1. Rank(o, Tables, i) >= 2
        BY <2>1, <3>1, <3>4, RankFirst
      <4>2. Rank(o, Tables, i) \in 2 .. Len(l.elist)
        BY <3>2, <4>1
      <4>3. QED
        BY <1>5, <2>1, <3>1, <3>4, <4>2
    <3>5. QED
      BY <2>1, <2>5, <3>3, <3>4 DEF ElementOf
  <2>6. p[i].clean /\ p[i].kind = "indexed" =>
          /\ m.indexed[Rank(p, Tables, i)] = p[i].keys
          /\ m.values[Rank(p, Tables, i)] = p[i].own
    BY <1>3, <2>1, <2>2 DEF OwnedAt
  <2>7. e = 0 => (p[i].kind = "indexed" => p[i].clean)
    BY <2>1, <2>2
  <2>8. QED
    BY <2>4, <2>5, <2>6, <2>7 DEF OwnedAt
<1>10. Len(p) = Len(o)
  BY DEF SameShape
<1>11. QED
  BY <1>6, <1>8, <1>9, <1>10 DEF ListsOK, m

(* z is x with other elements. *)
Updated(E, P, x, z, own, keys) ==
  /\ z \in ContextSet(E, P) /\ z.own = own /\ z.keys = keys
  /\ z.kind = x.kind /\ z.head = x.head /\ z.clean = x.clean

LEMMA ContextUpdated ==
  ASSUME NEW E, NEW P, NEW x \in ContextSet(E, P), NEW v \in P
  PROVE  /\ Updated(E, P, x, [x EXCEPT !.own = Append(x.own, v)], Append(x.own, v), x.keys)
         /\ Updated(E, P, x, [x EXCEPT !.keys = Append(x.keys, v)], x.own, Append(x.keys, v))
<1>1. Append(x.own, v) \in Seq(P) /\ Append(x.keys, v) \in Seq(P)
  <2>1. x.own \in Seq(P) /\ x.keys \in Seq(P)
    BY DEF ContextSet
  <2>2. QED
    BY <2>1
<1>2. ASSUME NEW w \in Seq(P)
      PROVE  /\ Updated(E, P, x, [x EXCEPT !.own = w], w, x.keys)
             /\ Updated(E, P, x, [x EXCEPT !.keys = w], x.own, w)
  <2> DEFINE y == [x EXCEPT !.own = w]
             z == [x EXCEPT !.keys = w]
  <2>1. y \in {u \in ContextSet(E, P) : /\ u.own = w /\ u.kind = x.kind
                                        /\ u.head = x.head /\ u.keys = x.keys /\ u.clean = x.clean}
    BY DEF ContextSet
  <2>2. z \in {u \in ContextSet(E, P) : /\ u.keys = w /\ u.kind = x.kind
                                        /\ u.head = x.head /\ u.own = x.own /\ u.clean = x.clean}
    BY DEF ContextSet
  <2> HIDE DEF y, z
  <2>3. Updated(E, P, x, y, w, x.keys) /\ Updated(E, P, x, z, x.own, w)
    BY <2>1, <2>2 DEF Updated
  <2>4. QED
    BY <2>3 DEF y, z
<1>3. QED
  BY <1>1, <1>2

(* A key, or a value, of the innermost table.                              *)
LEMMA IndexedLists ==
  ASSUME NEW E, NEW P, NEW o \in Seq(ContextSet(E, P)), o # <<>>, o[1].kind = "indexed",
         NEW l \in ListSet(P), NEW e, NEW v \in P, ListsOK(o, l, e)
  PROVE  /\ [l EXCEPT !.indexed = TopAppend(l.indexed, v)] \in ListSet(P)
         /\ ListsOK([o EXCEPT ![1] = [o[1] EXCEPT !.keys = Append(o[1].keys, v)]],
                    [l EXCEPT !.indexed = TopAppend(l.indexed, v)], e)
         /\ [l EXCEPT !.values = TopAppend(l.values, v)] \in ListSet(P)
         /\ ListsOK([o EXCEPT ![1] = [o[1] EXCEPT !.own = Append(o[1].own, v)]],
                    [l EXCEPT !.values = TopAppend(l.values, v)], e)
<1> DEFINE S == ContextSet(E, P)
           x == [o[1] EXCEPT !.keys = Append(o[1].keys, v)]
           y == [o[1] EXCEPT !.own = Append(o[1].own, v)]
           p == [o EXCEPT ![1] = x]
           q == [o EXCEPT ![1] = y]
           m == [l EXCEPT !.indexed = TopAppend(l.indexed, v)]
           n == [l EXCEPT !.values = TopAppend(l.values, v)]
<1>1. /\ l \in [param : Seq(Seq(P)), elist : Seq(Seq(P)), indexed : Seq(Seq(P)),
               values : Seq(Seq(P))]
      /\ l.param \in Seq(Seq(P)) /\ l.elist \in Seq(Seq(P)) /\ l.indexed \in Seq(Seq(P))
      /\ l.values \in Seq(Seq(P))
  BY DEF ListSet
<1>2. /\ m \in [param : {l.param}, elist : {l.elist}, indexed : {TopAppend(l.indexed, v)},
                values : {l.values}]
      /\ n \in [param : {l.param}, elist : {l.elist}, indexed : {l.indexed},
                values : {TopAppend(l.values, v)}]
  BY <1>1, FourFields
<1>3. o[1] \in S /\ 1 \in 1 .. Len(o)
  OBVIOUS
<1>4. /\ x \in S /\ x.keys = Append(o[1].keys, v) /\ x.kind = o[1].kind /\ x.head = o[1].head
      /\ x.own = o[1].own /\ x.clean = o[1].clean
      /\ y \in S /\ y.own = Append(o[1].own, v) /\ y.kind = o[1].kind /\ y.head = o[1].head
      /\ y.keys = o[1].keys /\ y.clean = o[1].clean
  <2>1. /\ Updated(E, P, o[1], x, o[1].own, Append(o[1].keys, v))
        /\ Updated(E, P, o[1], y, Append(o[1].own, v), o[1].keys)
    BY <1>3, ContextUpdated
  <2> HIDE DEF x, y
  <2>2. QED
    BY <2>1 DEF Updated
<1> HIDE DEF x, y, m, n
<1>5. /\ Len(p) = Len(o) /\ p[1] = x /\ \A i \in 2 .. Len(o) : p[i] = o[i]
      /\ Len(q) = Len(o) /\ q[1] = y /\ \A i \in 2 .. Len(o) : q[i] = o[i]
      /\ Len(o) \in Nat
  BY <1>4, TopContext
<1> HIDE DEF p, q
<1>6. SameShape(o, p) /\ SameShape(o, q)
  <2>1. ASSUME NEW i \in 1 .. Len(o)
        PROVE  /\ p[i].kind = o[i].kind /\ p[i].head = o[i].head
               /\ q[i].kind = o[i].kind /\ q[i].head = o[i].head
    <3>1. i = 1 \/ i \in 2 .. Len(o)
      BY <1>5
    <3>2. QED
      BY <1>4, <1>5, <3>1
  <2>2. QED
    BY <1>5, <2>1 DEF SameShape
<1>7. /\ m.indexed = TopAppend(l.indexed, v) /\ m.values = l.values /\ m.param = l.param
      /\ m.elist = l.elist
      /\ n.values = TopAppend(l.values, v) /\ n.indexed = l.indexed /\ n.param = l.param
      /\ n.elist = l.elist
  BY <1>2
<1>8. /\ m.indexed \in Seq(Seq(P)) /\ Len(m.indexed) = Len(l.indexed)
      /\ \A i \in 2 .. Len(l.indexed) : m.indexed[i] = l.indexed[i]
      /\ 1 \in 1 .. Len(l.indexed) => m.indexed[1] = Append(l.indexed[1], v)
  <2>1. Topped(P, l.indexed, TopAppend(l.indexed, v), Append(l.indexed[1], v))
    BY <1>1, TopFacts
  <2>2. QED
    BY <1>7, <2>1 DEF Topped
<1>9. /\ n.values \in Seq(Seq(P)) /\ Len(n.values) = Len(l.values)
      /\ \A i \in 2 .. Len(l.values) : n.values[i] = l.values[i]
      /\ 1 \in 1 .. Len(l.values) => n.values[1] = Append(l.values[1], v)
  <2>1. Topped(P, l.values, TopAppend(l.values, v), Append(l.values[1], v))
    BY <1>1, TopFacts
  <2>2. QED
    BY <1>7, <2>1 DEF Topped
<1>10. m \in ListSet(P) /\ n \in ListSet(P)
  BY <1>1, <1>2, <1>7, <1>8, <1>9 DEF ListSet
<1>11. Sized(o, l, e)
  BY DEF ListsOK
<1>12. Sized(p, m, e) /\ Sized(q, n, e)
  BY <1>6, <1>7, <1>8, <1>9, <1>11, SizedSame
<1>13. ASSUME NEW i \in 1 .. Len(o)
       PROVE  /\ OwnedAt(p, m, i) /\ (e = 0 => (p[i].kind = "indexed" => p[i].clean))
              /\ OwnedAt(q, n, i) /\ (e = 0 => (q[i].kind = "indexed" => q[i].clean))
  <2>1. /\ Rank(p, Calls, i) = Rank(o, Calls, i) /\ Rank(p, Tables, i) = Rank(o, Tables, i)
        /\ Rank(q, Calls, i) = Rank(o, Calls, i) /\ Rank(q, Tables, i) = Rank(o, Tables, i)
        /\ i \in Nat \ {0}
    BY <1>6, SameShapeRanks
  <2>2. OwnedAt(o, l, i) /\ (e = 0 => (o[i].kind = "indexed" => o[i].clean))
    BY DEF ListsOK
  <2>3. o[i].kind \in Tables => /\ Rank(o, Tables, i) \in 1 .. Len(l.indexed)
                                /\ Rank(o, Tables, i) \in 1 .. Len(l.values)
    BY <1>11, RankInLists
  <2>4. CASE i = 1
    <3>1. Rank(o, Tables, i) = 1 /\ o[i].kind = "indexed"
      BY <2>1, <2>4, RankFirst DEF Tables
    <3>2. /\ m.indexed[1] = Append(l.indexed[1], v) /\ m.values[1] = l.values[1]
          /\ n.values[1] = Append(l.values[1], v) /\ n.indexed[1] = l.indexed[1]
      BY <1>7, <1>8, <1>9, <2>3, <3>1 DEF Tables
    <3>3. o[1].clean => l.indexed[1] = o[1].keys /\ l.values[1] = o[1].own
      BY <2>2, <2>4, <3>1 DEF OwnedAt
    <3>4. /\ p[1].kind = "indexed" /\ p[1].clean = o[1].clean
          /\ p[1].keys = Append(o[1].keys, v) /\ p[1].own = o[1].own
          /\ q[1].kind = "indexed" /\ q[1].clean = o[1].clean
          /\ q[1].own = Append(o[1].own, v) /\ q[1].keys = o[1].keys
      BY <1>4, <1>5
    <3>5. Rank(p, Tables, i) = 1 /\ Rank(q, Tables, i) = 1
      BY <2>1, <3>1
    <3>6. OwnedAt(p, m, i)
      BY <2>4, <3>2, <3>3, <3>4, <3>5 DEF OwnedAt
    <3>7. OwnedAt(q, n, i)
      BY <2>4, <3>2, <3>3, <3>4, <3>5 DEF OwnedAt
    <3>8. QED
      BY <2>2, <2>4, <3>4, <3>6, <3>7
  <2>5. CASE i # 1
    <3>1. p[i] = o[i] /\ q[i] = o[i] /\ 1 \in 1 .. i - 1 /\ o[1].kind \in Tables
      BY <1>5, <2>5 DEF Tables
    <3>2. o[i].kind \in Tables => /\ Rank(o, Tables, i) \in 2 .. Len(l.indexed)
                                  /\ Rank(o, Tables, i) \in 2 .. Len(l.values)
      <4>1. o[i].kind \in Tables => Rank(o, Tables, i) >= 2
        BY <2>1, <3>1, RankFirst
      <4>2. QED
        BY <2>3, <4>1
    <3>3. o[i].kind \in {"elist", "indexed"} =>
            /\ m.indexed[Rank(o, Tables, i)] = l.indexed[Rank(o, Tables, i)]
            /\ n.values[Rank(o, Tables, i)] = l.values[Rank(o, Tables, i)]
      BY <1>8, <1>9, <3>2 DEF Tables
    <3>4. QED
      BY <1>7, <2>1, <2>2, <3>1, <3>3 DEF OwnedAt
  <2>6. QED
    BY <2>4, <2>5
<1>14. QED
  BY <1>5, <1>10, <1>12, <1>13 DEF ListsOK, m, n, p, q, x, y

(* A suffix of the contexts has no more of any kind.                       *)
LEMMA RankSuffix ==
  ASSUME NEW o, NEW p, NEW n \in Nat, NEW m \in Nat, NEW d \in Nat, m + d <= n,
         \A i \in 1 .. m : p[i].kind = o[i + d].kind, NEW K
  PROVE  Rank(p, K, m) <= Rank(o, K, n)
<1> DEFINE A == Ranked(p, K, m)
           B == Ranked(o, K, n)
           f == [j \in A |-> j + d]
<1>1. \A j \in A : j \in Int /\ j + d \in B
  BY DEF Ranked
<1>2. f \in [A -> B]
  BY <1>1
<1>3. IsInjective(f)
  BY <1>1 DEF IsInjective
<1>4. f \in Injection(A, B)
  BY <1>2, <1>3 DEF Injection
<1>5. IsFiniteSet(B)
  BY RankedFinite
<1> HIDE DEF A, B, f
<1>6. Cardinality(A) <= Cardinality(B)
  BY <1>4, <1>5, FS_Injection
<1>7. QED
  BY <1>6 DEF Rank, A, B

LEMMA SuffixFacts ==
  ASSUME NEW S, NEW o \in Seq(S), NEW k \in 1 .. Len(o)
  PROVE  /\ SubSeq(o, k, Len(o)) \in Seq(S)
         /\ Len(SubSeq(o, k, Len(o))) = Len(o) - k + 1
         /\ \A i \in 1 .. Len(o) - k + 1 :
              SubSeq(o, k, Len(o))[i] = o[i + (k - 1)] /\ i + (k - 1) \in 1 .. Len(o)
OBVIOUS

(* p are contexts of o, from the k-th one, none of them clean.             *)
DroppedTo(E, P, o, p, k) ==
  /\ p \in Seq(ContextSet(E, P)) /\ Len(p) = Len(o) - k + 1
  /\ \A i \in 1 .. Len(p) :
       /\ i + (k - 1) \in 1 .. Len(o)
       /\ p[i].kind = o[i + (k - 1)].kind /\ p[i].head = o[i + (k - 1)].head
       /\ p[i].own = o[i + (k - 1)].own /\ p[i].keys = o[i + (k - 1)].keys
       /\ ~p[i].clean

LEMMA SeqOfFunction ==
  ASSUME NEW S, NEW n \in Nat, NEW p \in [1 .. n -> S]
  PROVE  p \in Seq(S) /\ Len(p) = n
OBVIOUS

LEMMA DropFacts ==
  ASSUME NEW E, NEW P, NEW o \in Seq(ContextSet(E, P)), NEW k \in 1 .. Len(o), NEW r,
         r = SubSeq(o, k, Len(o)), NEW p, DOMAIN p = DOMAIN r, p = [i \in DOMAIN p |-> p[i]],
         \A i \in DOMAIN r : p[i] = [r[i] EXCEPT !.clean = FALSE]
  PROVE  DroppedTo(E, P, o, p, k)
<1> DEFINE S == ContextSet(E, P)
<1>1. /\ r \in Seq(S) /\ Len(r) = Len(o) - k + 1 /\ DOMAIN r = 1 .. Len(r)
      /\ \A i \in 1 .. Len(r) : r[i] = o[i + (k - 1)] /\ i + (k - 1) \in 1 .. Len(o)
      /\ Len(r) \in Nat
  BY SuffixFacts
<1>2. \A x \in S : [x EXCEPT !.clean = FALSE] \in
        {y \in S : y.kind = x.kind /\ y.head = x.head /\ y.own = x.own /\ y.keys = x.keys
                   /\ y.clean = FALSE}
  BY DEF ContextSet
<1>3. ASSUME NEW i \in 1 .. Len(r)
      PROVE  /\ p[i] \in S /\ p[i].kind = r[i].kind /\ p[i].head = r[i].head
             /\ p[i].own = r[i].own /\ p[i].keys = r[i].keys /\ ~p[i].clean
  <2>0. r[i] \in S /\ i \in DOMAIN r
    <3> HIDE DEF S
    <3>1. QED
      BY <1>1
  <2>1. r[i] \in S /\ p[i] = [r[i] EXCEPT !.clean = FALSE]
    BY <2>0
  <2>2. p[i] \in {y \in S : /\ y.kind = r[i].kind /\ y.head = r[i].head /\ y.own = r[i].own
                            /\ y.keys = r[i].keys /\ y.clean = FALSE}
    BY <1>2, <2>1
  <2> HIDE DEF S
  <2>3. QED
    BY <2>2
<1>4. p \in Seq(S) /\ Len(p) = Len(r)
  <2>1. p = [i \in 1 .. Len(r) |-> p[i]] /\ DOMAIN p = 1 .. Len(r)
    BY <1>1
  <2> HIDE DEF S
  <2>2. p \in [1 .. Len(r) -> S]
    BY <1>3, <2>1
  <2>3. QED
    BY <1>1, <2>2, SeqOfFunction
<1>5. QED
  BY <1>1, <1>3, <1>4 DEF DroppedTo

LEMMA ErrorLists ==
  ASSUME NEW E, NEW P, NEW o \in Seq(ContextSet(E, P)), NEW k \in 1 .. Len(o), NEW p,
         DroppedTo(E, P, o, p, k), NEW l, NEW e, ListsOK(o, l, e), NEW f, f # 0,
         NEW Q, l \in ListSet(Q)
  PROVE  ListsOK(p, l, f)
<1>1. Len(p) \in Nat /\ Len(o) \in Nat /\ k - 1 \in Nat /\ Len(p) + (k - 1) <= Len(o)
  BY DEF DroppedTo
<1>2. \A i \in 1 .. Len(p) : p[i].kind = o[i + (k - 1)].kind /\ ~p[i].clean
  BY DEF DroppedTo
<1>3. /\ Rank(p, Calls, Len(p)) <= Rank(o, Calls, Len(o))
      /\ Rank(p, Tables, Len(p)) <= Rank(o, Tables, Len(o))
  BY <1>1, <1>2, RankSuffix
<1>4. /\ Rank(p, Calls, Len(p)) \in Nat /\ Rank(o, Calls, Len(o)) \in Nat
      /\ Rank(p, Tables, Len(p)) \in Nat /\ Rank(o, Tables, Len(o)) \in Nat
  BY <1>1, RankedFinite
<1>5. Sized(o, l, e)
  BY DEF ListsOK
<1>6. Len(l.param) \in Nat /\ Len(l.elist) \in Nat
  <2>1. l.param \in Seq(Seq(Q)) /\ l.elist \in Seq(Seq(Q))
    BY DEF ListSet
  <2>2. QED
    BY <2>1
<1>7. Sized(p, l, f)
  BY <1>3, <1>4, <1>5, <1>6 DEF Sized
<1>8. \A i \in 1 .. Len(p) : OwnedAt(p, l, i)
  BY <1>2 DEF OwnedAt
<1>9. QED
  BY <1>7, <1>8 DEF ListsOK

LEMMA NoneOpen ==
  ASSUME NEW P, NEW o, NEW l \in ListSet(P), NEW e, ListsOK(o, l, e), NEW f, f # 0
  PROVE  ListsOK(<<>>, l, f)
<1>1. Rank(<<>>, Calls, 0) = 0 /\ Rank(<<>>, Tables, 0) = 0 /\ Len(<<>>) = 0
  BY RankStep
<1>2. Len(l.param) \in Nat /\ Len(l.elist) \in Nat
  <2>1. l.param \in Seq(Seq(P)) /\ l.elist \in Seq(Seq(P))
    BY DEF ListSet
  <2>2. QED
    BY <2>1
<1>3. QED
  BY <1>1, <1>2 DEF ListsOK, Sized

-----------------------------------------------------------------------------
(* The invariant of the parser *)

Kinds == {"function", "index", "call index", "assign", "call", "elist", "indexed"}

Contexts(c) == ContextSet(ExprIn(c), PlainIn(c))

(* What may stand at the head of a construct; keys and values of a table.  *)
HeadOK(c, x) ==
  /\ x.kind = "function" => \E f \in DOMAIN c.functions : x.head = User(f)
  /\ x.kind \in {"index", "call index", "assign"} => x.head \in VarIn(c) \cup ItemIn(c)
  /\ x.kind = "call" => x.head \in PlainIn(c) \cup ItemIn(c)

KeysOK(x) == x.kind = "indexed" => Len(x.keys) \in {Len(x.own), Len(x.own) + 1}

OpenOK(c, o) ==
  /\ o \in Seq(Contexts(c))
  /\ \A i \in 1 .. Len(o) : HeadOK(c, o[i]) /\ KeysOK(o[i])

HaveOK(c, h, v) ==
  /\ h \in {"none", "lvalue", "call", "function", "expr"} /\ v \in ExprIn(c)
  /\ h \in {"expr", "function"} => v \in PlainIn(c)
  /\ h = "lvalue" => v \in VarIn(c) \cup ItemIn(c)
  /\ h = "call" => v \in VarIn(c)

ParserInv ==
  /\ CodeOK(code) /\ InOK(code)
  /\ OpenOK(code, open) /\ HaveOK(code, have, value)
  /\ lists \in ListSet(PlainIn(code)) /\ ListsOK(open, lists, errors)
  /\ functor \in BOOLEAN /\ hung \in BOOLEAN /\ strict \in BOOLEAN
  /\ errors \in Nat

LEMMA ContextsGrow ==
  ASSUME NEW c, NEW d, Grows(c, d)
  PROVE  /\ Contexts(c) \subseteq Contexts(d)
         /\ ListSet(PlainIn(c)) \subseteq ListSet(PlainIn(d))
<1>1. ExprIn(c) \subseteq ExprIn(d) /\ PlainIn(c) \subseteq PlainIn(d)
  BY ExprGrows, PlainGrows
<1>2. /\ Seq(PlainIn(c)) \subseteq Seq(PlainIn(d))
      /\ Seq(Seq(PlainIn(c))) \subseteq Seq(Seq(PlainIn(d)))
  BY SeqGrows
<1>3. QED
  BY <1>1, <1>2, Zenon DEF Contexts, ContextSet, ListSet

LEMMA OpenGrows ==
  ASSUME NEW c, NEW d, Grows(c, d), NEW o, OpenOK(c, o)
  PROVE  OpenOK(d, o)
<1>1. o \in Seq(Contexts(c)) /\ \A i \in 1 .. Len(o) : HeadOK(c, o[i]) /\ KeysOK(o[i])
  BY DEF OpenOK
<1>2. o \in Seq(Contexts(d))
  BY <1>1, ContextsGrow, SeqMonotonic
<1>3. /\ VarIn(c) \subseteq VarIn(d) /\ ItemIn(c) \subseteq ItemIn(d)
      /\ PlainIn(c) \subseteq PlainIn(d) /\ DOMAIN c.functions \subseteq DOMAIN d.functions
  BY PlainGrows, ItemGrows DEF Grows
<1>4. \A x : HeadOK(c, x) => HeadOK(d, x)
  BY <1>3 DEF HeadOK
<1>5. QED
  BY <1>1, <1>2, <1>4 DEF OpenOK

LEMMA HaveGrows ==
  ASSUME NEW c, NEW d, Grows(c, d), NEW h, NEW v, HaveOK(c, h, v)
  PROVE  HaveOK(d, h, v)
<1>1. /\ VarIn(c) \subseteq VarIn(d) /\ ItemIn(c) \subseteq ItemIn(d)
      /\ PlainIn(c) \subseteq PlainIn(d) /\ ExprIn(c) \subseteq ExprIn(d)
  BY PlainGrows, ItemGrows, ExprGrows
<1>2. QED
  BY <1>1 DEF HaveOK

(* What a step leaves alone is fine with the code that it makes.           *)
LEMMA Carry ==
  ASSUME ParserInv, NEW d, Grows(code, d)
  PROVE  OpenOK(d, open) /\ HaveOK(d, have, value) /\ lists \in ListSet(PlainIn(d))
BY OpenGrows, HaveGrows, ContextsGrow DEF ParserInv

LEMMA ContextIn ==
  ASSUME NEW c, NEW kind \in Kinds, NEW e \in ExprIn(c)
  PROVE  /\ Context(kind, e) \in Contexts(c)
         /\ Context(kind, e).kind = kind /\ Context(kind, e).head = e
         /\ Context(kind, e).own = <<>> /\ Context(kind, e).keys = <<>>
         /\ Context(kind, e).clean /\ KeysOK(Context(kind, e))
<1>1. <<>> \in Seq(PlainIn(c))
  OBVIOUS
<1>2. Context(kind, e) \in Contexts(c)
  BY <1>1 DEF Context, Contexts, ContextSet, Kinds
<1>3. QED
  BY <1>2 DEF Context, KeysOK

LEMMA OpenPush ==
  ASSUME NEW c, NEW o, OpenOK(c, o), NEW kind \in Kinds, NEW e \in ExprIn(c),
         HeadOK(c, Context(kind, e))
  PROVE  OpenOK(c, <<Context(kind, e)>> \o o)
<1> DEFINE x == Context(kind, e)
           p == <<x>> \o o
<1>1. x \in Contexts(c) /\ KeysOK(x) /\ HeadOK(c, x)
  BY ContextIn
<1>2. o \in Seq(Contexts(c)) /\ \A i \in 1 .. Len(o) : HeadOK(c, o[i]) /\ KeysOK(o[i])
  BY DEF OpenOK
<1> HIDE DEF x
<1>3. /\ p \in Seq(Contexts(c)) /\ Len(p) = Len(o) + 1 /\ Len(o) \in Nat /\ p[1] = x
      /\ \A i \in 2 .. Len(p) : i - 1 \in 1 .. Len(o) /\ p[i] = o[i - 1]
  BY <1>1, <1>2, PushFacts
<1> HIDE DEF p
<1>4. ASSUME NEW i \in 1 .. Len(p) PROVE HeadOK(c, p[i]) /\ KeysOK(p[i])
  <2>1. CASE i = 1
    BY <1>1, <1>3, <2>1
  <2>2. CASE i # 1
    <3>1. i \in 2 .. Len(p)
      BY <1>3, <2>2
    <3>2. QED
      BY <1>2, <1>3, <3>1
  <2>3. QED
    BY <2>1, <2>2
<1>5. OpenOK(c, p)
  BY <1>3, <1>4 DEF OpenOK
<1>6. QED
  BY <1>5 DEF p, x

LEMMA OpenPop ==
  ASSUME NEW c, NEW o, OpenOK(c, o), o # <<>>
  PROVE  OpenOK(c, Tail(o))
<1>1. o \in Seq(Contexts(c)) /\ \A i \in 1 .. Len(o) : HeadOK(c, o[i]) /\ KeysOK(o[i])
  BY DEF OpenOK
<1>2. /\ Tail(o) \in Seq(Contexts(c))
      /\ \A i \in 1 .. Len(Tail(o)) : Tail(o)[i] = o[i + 1] /\ i + 1 \in 1 .. Len(o)
  BY <1>1, PopFacts
<1>3. QED
  BY <1>1, <1>2 DEF OpenOK

(* The innermost context. *)
LEMMA InnermostFacts ==
  ASSUME ParserInv, NEW kind, In(kind)
  PROVE  /\ open # <<>> /\ open[1] = Innermost /\ Innermost.kind = kind
         /\ Innermost \in Contexts(code)
         /\ HeadOK(code, Innermost) /\ KeysOK(Innermost)
         /\ open \in Seq(Contexts(code)) /\ 1 \in 1 .. Len(open)
<1>1. /\ open \in Seq(Contexts(code))
      /\ \A i \in 1 .. Len(open) : HeadOK(code, open[i]) /\ KeysOK(open[i])
  BY DEF ParserInv, OpenOK
<1>2. open # <<>> /\ Innermost.kind = kind /\ open[1] = Innermost
  BY DEF In, Innermost
<1>3. 1 \in 1 .. Len(open) /\ open[1] \in Contexts(code)
  BY <1>1, <1>2
<1>4. QED
  BY <1>1, <1>2, <1>3

(* The function that is being read has been counted.                       *)
LEMMA HereFacts ==
  ASSUME ParserInv
  PROVE  /\ HereOK(code)
         /\ OpenFunctions # {} => /\ Min(OpenFunctions) \in 1 .. Len(open)
                                  /\ open[Min(OpenFunctions)].kind = "function"
<1>1. /\ open \in Seq(Contexts(code)) /\ CodeOK(code) /\ InOK(code)
      /\ \A i \in 1 .. Len(open) : HeadOK(code, open[i])
  BY DEF ParserInv, OpenOK
<1>2. DOMAIN open = 1 .. Len(open) /\ OpenFunctions \in SUBSET Nat
  BY <1>1 DEF OpenFunctions
<1>3. OpenFunctions # {} => Min(OpenFunctions) \in OpenFunctions
  BY <1>2, MinFacts
<1>4. OpenFunctions # {} => /\ Min(OpenFunctions) \in 1 .. Len(open)
                            /\ open[Min(OpenFunctions)].kind = "function"
  BY <1>2, <1>3 DEF OpenFunctions
<1>5. DOMAIN code.functions = 1 .. Len(code.functions) /\ Len(code.functions) \in Nat
  BY <1>1, CodeFields
<1>6. Function \in 0 .. Len(code.functions)
  <2>1. CASE OpenFunctions = {}
    BY <1>5, <2>1 DEF Function
  <2>2. CASE OpenFunctions # {}
    <3> DEFINE i == Min(OpenFunctions)
    <3>1. PICK f \in DOMAIN code.functions : open[i].head = User(f)
      BY <1>1, <1>4, <2>2 DEF HeadOK
    <3>2. Function = f
      BY <2>2, <3>1 DEF Function, User, Expr
    <3>3. QED
      BY <1>5, <3>2
  <2>3. QED
    BY <2>1, <2>2
<1>7. QED
  BY <1>1, <1>4, <1>6 DEF HereOK

-----------------------------------------------------------------------------
(* Steps that read an expression *)

LEMMA NextInv ==
  ASSUME CodeOK(code'), InOK(code'), OpenOK(code', open'), HaveOK(code', have', value'),
         lists' \in ListSet(PlainIn(code')), ListsOK(open', lists', errors'),
         functor' \in BOOLEAN, hung' \in BOOLEAN, strict' \in BOOLEAN, errors' \in Nat
  PROVE  ParserInv'
BY DEF ParserInv

LEMMA StrictBool ==
  ASSUME ParserInv, StayStrict
  PROVE  strict' \in BOOLEAN
BY DEF StayStrict, ParserInv

LEMMA ReadStep ==
  ASSUME ParserInv, StayStrict, Continues(code, code'), HaveOK(code', have', value'),
         UNCHANGED <<lists, functor, hung, open, errors>>
  PROVE  ParserInv'
<1>1. CodeOK(code') /\ InOK(code') /\ Grows(code, code')
  BY DEF Continues, HereOK
<1>2. OpenOK(code', open) /\ lists \in ListSet(PlainIn(code'))
  BY <1>1, Carry
<1>3. /\ functor \in BOOLEAN /\ hung \in BOOLEAN /\ errors \in Nat
      /\ ListsOK(open, lists, errors)
  BY DEF ParserInv
<1>4. strict' \in BOOLEAN
  BY StrictBool
<1>5. QED
  BY <1>1, <1>2, <1>3, <1>4, NextInv

LEMMA Unchanging ==
  ASSUME ParserInv, UNCHANGED code
  PROVE  Continues(code, code')
BY HereFacts, ContinuesTrans

LEMMA HavePlain ==
  ASSUME NEW c, NEW v \in PlainIn(c)
  PROVE  HaveOK(c, "expr", v) /\ HaveOK(c, "function", v)
BY ExprFacts DEF HaveOK

LEMMA HaveNone ==
  ASSUME NEW c
  PROVE  HaveOK(c, "none", None) /\ \A v \in ExprIn(c) : HaveOK(c, "none", v)
BY ExprFacts DEF HaveOK

LEMMA HaveVar ==
  ASSUME NEW c, NEW v
  PROVE  /\ v \in VarIn(c) => HaveOK(c, "lvalue", v) /\ HaveOK(c, "call", v) /\ HaveOK(c, "expr", v)
         /\ v \in ItemIn(c) => HaveOK(c, "lvalue", v)
BY ExprFacts DEF HaveOK

LEMMA LiteralPlain ==
  ASSUME NEW c
  PROVE  Literals \subseteq PlainIn(c)
<1>1. \A n \in Nat : Num(n) \in PlainIn(c) /\ Str(n) \in PlainIn(c)
  <2>1. \A n \in Nat : n \in Int
    OBVIOUS
  <2>2. QED
    BY <2>1, ExprKinds
<1>2. QED
  BY <1>1, ExpressionsAssumption

LEMMA ConstantInv ==
  ASSUME ParserInv, StayStrict, Constant
  PROVE  ParserInv'
<1>1. PICK e \in Literals : Have("expr", e)
  BY DEF Constant
<1>2. UNCHANGED <<code, lists, functor, hung, open, errors>>
  BY DEF Constant
<1>3. HaveOK(code', have', value')
  BY <1>1, LiteralPlain, HavePlain DEF Have
<1>4. QED
  BY <1>2, <1>3, Unchanging, ReadStep

LEMMA FunctionNameInv ==
  ASSUME ParserInv, StayStrict, FunctionName
  PROVE  ParserInv'
<1>1. UNCHANGED <<code, lists, functor, hung, open, errors>>
  BY DEF FunctionName
<1>2. CASE \E l \in Libs : Have("function", Expr("lib", l))
  <2>1. PICK l \in Libs : Have("function", Expr("lib", l))
    BY <1>2
  <2>2. l \in Int
    BY ExpressionsAssumption
  <2>3. HaveOK(code', have', value')
    BY <2>1, <2>2, ExprKinds, HavePlain DEF Have
  <2>4. QED
    BY <1>1, <2>3, Unchanging, ReadStep
<1>3. CASE \E f \in DOMAIN code.functions : Have("function", User(f))
  <2>1. PICK f \in DOMAIN code.functions : Have("function", User(f))
    BY <1>3
  <2>2. f \in Int
    BY CodeFields DEF ParserInv
  <2>3. User(f) \in PlainIn(code')
    BY <1>1, <2>2, ExprKinds
  <2>4. HaveOK(code', have', value')
    BY <2>1, <2>3, HavePlain DEF Have
  <2>5. QED
    BY <1>1, <2>4, Unchanging, ReadStep
<1>4. QED
  BY <1>2, <1>3 DEF FunctionName

LEMMA VariableInv ==
  ASSUME ParserInv, StayStrict, Variable
  PROVE  ParserInv'
<1>1. UNCHANGED <<lists, functor, hung, open, errors>>
  BY DEF Variable
<1>2. CASE \E s \in DOMAIN code.symbols : Have("lvalue", Var(s)) /\ UNCHANGED code
  <2>1. PICK s \in DOMAIN code.symbols : Have("lvalue", Var(s)) /\ UNCHANGED code
    BY <1>2
  <2>2. s \in Int
    BY CodeFields DEF ParserInv
  <2>3. Var(s) \in VarIn(code')
    BY <2>1, <2>2, ExprKinds
  <2>4. HaveOK(code', have', value')
    BY <2>1, <2>3, HaveVar DEF Have
  <2>5. QED
    BY <1>1, <2>1, <2>4, Unchanging, ReadStep
<1>3. CASE \E n \in Names : code' = DeclareHere(code, n) /\ Have("lvalue", Newest(code'))
  <2>1. PICK n \in Names : code' = DeclareHere(code, n) /\ Have("lvalue", Newest(code'))
    BY <1>3
  <2>2. n \in Int
    BY ExpressionsAssumption
  <2>3. Continues(code, code') /\ Newest(code') \in VarIn(code')
    BY <2>1, <2>2, HereFacts, DeclareHereCode
  <2>4. HaveOK(code', have', value')
    BY <2>1, <2>3, HaveVar DEF Have
  <2>5. QED
    BY <1>1, <2>3, <2>4, ReadStep
<1>4. QED
  BY <1>2, <1>3 DEF Variable

LEMMA TableReadValue ==
  ASSUME ParserInv
  PROVE  /\ TableRead => value \in VarIn(code) \cup ItemIn(code)
         /\ Has("lvalue") => value \in VarIn(code) \cup ItemIn(code)
         /\ Has("call") => value \in VarIn(code)
         /\ Has("expr") => value \in PlainIn(code)
         /\ Has("function") => value \in PlainIn(code)
         /\ value \in ExprIn(code)
BY DEF ParserInv, HaveOK, TableRead, Has

LEMMA MemberInv ==
  ASSUME ParserInv, StayStrict, Member
  PROVE  ParserInv'
<1>1. UNCHANGED <<lists, functor, hung, open, errors>> /\ code' = Fetch(code, value) /\ TableRead
  BY DEF Member
<1>2. PICK n \in Names : Have("lvalue", Item(Fetched(code, value), Str(n)))
  BY DEF Member
<1>3. value \in VarIn(code) \cup ItemIn(code)
  BY <1>1, TableReadValue
<1>4. value \in PlainIn(code) \cup ItemIn(code)
  BY <1>3, ExprFacts
<1>5. Continues(code, code') /\ Fetched(code, value) \in VarIn(code')
  BY <1>1, <1>3, <1>4, HereFacts, FetchCode
<1>6. Str(n) \in PlainIn(code')
  <2>1. n \in Int
    BY ExpressionsAssumption
  <2>2. QED
    BY <2>1, ExprKinds
<1>7. HaveOK(code', have', value')
  BY <1>2, <1>5, <1>6, ItemKind, HaveVar DEF Have
<1>8. QED
  BY <1>1, <1>5, <1>7, ReadStep

LEMMA PrimaryInv ==
  ASSUME ParserInv, StayStrict, Primary
  PROVE  ParserInv'
<1>1. /\ UNCHANGED <<lists, functor, hung, open, tokens, errors>> /\ code' = Fetch(code, value)
  BY DEF Primary
<1>2. /\ TableRead \/ Has("function")
      /\ Have("expr", Fetched(code, value))
  BY DEF Primary
<1>3. value \in PlainIn(code) \cup ItemIn(code)
  BY <1>2, TableReadValue, ExprFacts
<1>4. Continues(code, code') /\ Fetched(code, value) \in PlainIn(code')
  BY <1>1, <1>3, HereFacts, FetchCode
<1>5. HaveOK(code', have', value')
  BY <1>2, <1>4, HavePlain DEF Have
<1>6. QED
  BY <1>1, <1>4, <1>5, ReadStep

LEMMA StatementEndInv ==
  ASSUME ParserInv, StayStrict, StatementEnd
  PROVE  ParserInv'
<1>1. UNCHANGED <<code, lists, functor, hung, open, tokens, errors>> /\ HaveNothing
  BY DEF StatementEnd
<1>2. HaveOK(code', have', value')
  BY <1>1, HaveNone DEF HaveNothing, Have
<1>3. QED
  BY <1>1, <1>2, Unchanging, ReadStep

-----------------------------------------------------------------------------
(* Steps that emit *)

(* Quads that may be emitted anywhere. *)
Emittable(c, qs) == qs \in Seq(QuadIn(c)) /\ \A i \in DOMAIN qs : qs[i].op # "func_start"

LEMMA EmittableFacts ==
  ASSUME NEW c
  PROVE  /\ Emittable(c, <<>>)
         /\ \A q \in QuadIn(c) : q.op # "func_start" => Emittable(c, <<q>>)
         /\ \A p, q \in QuadIn(c) : p.op # "func_start" /\ q.op # "func_start" => Emittable(c, <<p, q>>)
         /\ \A r, s : Emittable(c, r) /\ Emittable(c, s) => Emittable(c, r \o s)
<1>1. ASSUME NEW r, NEW s, Emittable(c, r), Emittable(c, s)
      PROVE  Emittable(c, r \o s)
  <2> DEFINE Q == QuadIn(c)
  <2>1. /\ r \in Seq(Q) /\ s \in Seq(Q)
        /\ \A i \in DOMAIN r : r[i].op # "func_start"
        /\ \A i \in DOMAIN s : s[i].op # "func_start"
    BY <1>1 DEF Emittable
  <2> HIDE DEF Q
  <2>2. /\ r \o s \in Seq(Q) /\ DOMAIN (r \o s) = 1 .. Len(r) + Len(s)
        /\ \A i \in 1 .. Len(r) : (r \o s)[i] = r[i] /\ i \in DOMAIN r
        /\ \A i \in Len(r) + 1 .. Len(r) + Len(s) :
             (r \o s)[i] = s[i - Len(r)] /\ i - Len(r) \in DOMAIN s
        /\ Len(r) \in Nat /\ Len(s) \in Nat
    BY <2>1
  <2>3. ASSUME NEW i \in DOMAIN (r \o s) PROVE (r \o s)[i].op # "func_start"
    <3>1. i \in 1 .. Len(r) \/ i \in Len(r) + 1 .. Len(r) + Len(s)
      BY <2>2
    <3>2. QED
      BY <2>1, <2>2, <3>1
  <2>4. QED
    BY <2>2, <2>3 DEF Emittable, Q
<1>2. Emittable(c, <<>>)
  BY DEF Emittable
<1>3. ASSUME NEW q \in QuadIn(c), q.op # "func_start" PROVE Emittable(c, <<q>>)
  BY <1>3, OneQuad DEF Emittable
<1>4. ASSUME NEW p \in QuadIn(c), NEW q \in QuadIn(c), p.op # "func_start", q.op # "func_start"
      PROVE  Emittable(c, <<p, q>>)
  <2> DEFINE r == <<p, q>>
             Q == QuadIn(c)
  <2>1. p \in Q /\ q \in Q
    OBVIOUS
  <2> HIDE DEF Q
  <2>2. r \in Seq(Q) /\ DOMAIN r = {1, 2} /\ r[1] = p /\ r[2] = q
    BY <2>1
  <2> HIDE DEF r
  <2>3. \A i \in DOMAIN r : r[i].op # "func_start"
    BY <1>4, <2>2
  <2>4. Emittable(c, r)
    BY <2>2, <2>3 DEF Emittable, Q
  <2>5. QED
    BY <2>4 DEF r
<1>5. QED
  BY <1>1, <1>2, <1>3, <1>4

LEMMA EmitOn ==
  ASSUME NEW c, NEW d, Continues(c, d), NEW qs, Emittable(d, qs)
  PROVE  /\ Continues(c, Emit(d, qs)) /\ Grows(d, Emit(d, qs)) /\ Emit(d, qs).quads = d.quads \o qs
         /\ Emit(d, qs).symbols = d.symbols
<1>1. HereOK(d)
  BY DEF Continues
<1>2. Continues(d, Emit(d, qs)) /\ Emit(d, qs).quads = d.quads \o qs /\ Emit(d, qs).symbols = d.symbols
  BY <1>1, EmitHere DEF Emittable
<1>3. QED
  BY <1>2, ContinuesTrans DEF Continues

LEMMA TempOn ==
  ASSUME NEW c, NEW d, Continues(c, d)
  PROVE  /\ Continues(c, NewTemp(d)) /\ Grows(d, NewTemp(d)) /\ NewTemp(d).quads = d.quads
         /\ Newest(NewTemp(d)) \in VarIn(NewTemp(d))
<1>1. HereOK(d)
  BY DEF Continues
<1>2. Continues(d, NewTemp(d)) /\ NewTemp(d).quads = d.quads /\ Newest(NewTemp(d)) \in VarIn(NewTemp(d))
  BY <1>1, NewTempCode
<1>3. QED
  BY <1>2, ContinuesTrans DEF Continues

LEMMA FetchOn ==
  ASSUME NEW c, NEW d, Continues(c, d), NEW e \in PlainIn(d) \cup ItemIn(d)
  PROVE  /\ Continues(c, Fetch(d, e)) /\ Grows(d, Fetch(d, e))
         /\ Fetched(d, e) \in PlainIn(Fetch(d, e))
         /\ e \in VarIn(d) \cup ItemIn(d) => Fetched(d, e) \in VarIn(Fetch(d, e))
<1>1. HereOK(d)
  BY DEF Continues
<1>2. Continues(d, Fetch(d, e)) 
  BY <1>1, FetchCode
<1>3. QED
  BY <1>1, <1>2, FetchCode, ContinuesTrans DEF Continues

(* Expressions and quads of the code that a step has arrived at.           *)
LEMMA MoreExprs ==
  ASSUME NEW c, NEW d, Grows(c, d)
  PROVE  /\ PlainIn(c) \subseteq PlainIn(d) /\ VarIn(c) \subseteq VarIn(d)
         /\ ItemIn(c) \subseteq ItemIn(d) /\ ExprIn(c) \subseteq ExprIn(d)
         /\ \A qs : Emittable(c, qs) => Emittable(d, qs)
         /\ PlainIn(d) \subseteq ExprIn(d) /\ VarIn(d) \subseteq PlainIn(d)
         /\ ItemIn(d) \subseteq ExprIn(d)
<1>1. /\ PlainIn(c) \subseteq PlainIn(d) /\ VarIn(c) \subseteq VarIn(d)
      /\ ItemIn(c) \subseteq ItemIn(d) /\ ExprIn(c) \subseteq ExprIn(d)
      /\ Seq(QuadIn(c)) \subseteq Seq(QuadIn(d))
  BY PlainGrows, ItemGrows, ExprGrows, SeqGrows
<1>2. /\ PlainIn(d) \subseteq ExprIn(d) /\ VarIn(d) \subseteq PlainIn(d)
      /\ ItemIn(d) \subseteq ExprIn(d)
  BY ExprFacts
<1>3. \A qs : Emittable(c, qs) => Emittable(d, qs)
  BY <1>1 DEF Emittable
<1>4. QED
  BY <1>1, <1>2, <1>3

(* Quads of the ordinary generators. *)
LEMMA OrdinaryQuad ==
  ASSUME NEW c, NEW op \in Ops \ {"func_start"}, NEW r \in ExprIn(c), NEW a \in ExprIn(c),
         NEW b \in ExprIn(c)
  PROVE  /\ Quad(op, r, a, b) \in QuadIn(c) /\ Quad(op, r, a, b).op # "func_start"
         /\ Emittable(c, <<Quad(op, r, a, b)>>)
<1>1. Quad(op, r, a, b) \in QuadIn(c) /\ Quad(op, r, a, b).op # "func_start"
  BY QuadKind
<1>2. QED
  BY <1>1, EmittableFacts

LEMMA MinusInv ==
  ASSUME ParserInv, StayStrict, Minus
  PROVE  ParserInv'
<1> DEFINE c == NewTemp(code)
           q == Quad("uminus", Newest(c), value, None)
<1>1. /\ UNCHANGED <<lists, functor, hung, open, errors>> /\ Has("expr")
      /\ code' = c \/ code' = Emit(c, <<q>>)
      /\ Have("expr", Newest(c))
  BY DEF Minus
<1>2. Continues(code, code)
  BY HereFacts, ContinuesTrans
<1>3. Continues(code, c) /\ Grows(code, c) /\ Newest(c) \in VarIn(c)
  BY <1>2, TempOn
<1>4. value \in ExprIn(c) /\ Newest(c) \in ExprIn(c) /\ None \in ExprIn(c)
  BY <1>1, <1>3, TableReadValue, MoreExprs, ExprFacts
<1>5. Emittable(c, <<q>>)
  BY <1>4, OrdinaryQuad DEF Ops
<1> HIDE DEF c, q
<1>6. Continues(code, code') /\ Grows(c, code')
  BY <1>1, <1>3, <1>5, EmitOn, GrowsTrans
<1>7. Newest(c) \in VarIn(code')
  BY <1>3, <1>6, MoreExprs
<1>8. HaveOK(code', have', value')
  BY <1>1, <1>7, HaveVar DEF Have
<1>9. QED
  BY <1>1, <1>6, <1>8, ReadStep

LEMMA IncrementInv ==
  ASSUME ParserInv, StayStrict, Increment
  PROVE  ParserInv'
<1> DEFINE item  == value.type = "element"
           c     == Fetch(code, value)
           v     == Fetched(code, value)
           d     == NewTemp(c)
           keep  == Quad("assign", Newest(d), v, None)
           add   == Quad("add", v, v, Num(1))
           store == IF item THEN <<Quad("set_elem", v, value, value.key[1])>> ELSE <<>>
<1>1. UNCHANGED <<lists, functor, hung, open, errors>> /\ Has("lvalue")
  BY DEF Increment
<1>2. \/ code' = Emit(d, <<keep, add>> \o store) /\ Have("expr", Newest(d))
      \/ item /\ code' = Emit(c, <<add>> \o store) /\ Have("expr", v)
      \/ ~item /\ code' = Emit(d, <<add, keep>>) /\ Have("expr", Newest(d))
  BY DEF Increment
<1>3. value \in VarIn(code) \cup ItemIn(code)
  BY <1>1, TableReadValue
<1>4. Continues(code, code)
  BY HereFacts, ContinuesTrans
<1>5. Continues(code, c) /\ Grows(code, c) /\ v \in VarIn(c)
  BY <1>3, <1>4, FetchOn, ExprFacts
<1>6. Continues(code, d) /\ Grows(c, d) /\ Newest(d) \in VarIn(d)
  BY <1>5, TempOn
<1>7. add \in QuadIn(c) /\ add.op # "func_start" /\ Emittable(c, <<add>>)
  <2>1. v \in ExprIn(c) /\ Num(1) \in ExprIn(c)
    BY <1>5, ExprFacts, ExprKinds
  <2>2. QED
    BY <2>1, OrdinaryQuad DEF Ops
<1>8. Emittable(c, store)
  <2>1. CASE item
    <3>1. value \in ItemIn(code)
      BY <1>3, <2>1, ExprFacts
    <3>2. value \in ItemIn(c)
      BY <1>5, <3>1, MoreExprs
    <3>3. /\ value \in ExprIn(c) /\ value.key[1] \in ExprIn(c) /\ v \in ExprIn(c)
      BY <1>5, <3>2, ExprFacts
    <3>4. Emittable(c, <<Quad("set_elem", v, value, value.key[1])>>)
      BY <3>3, OrdinaryQuad DEF Ops
    <3>5. QED
      BY <2>1, <3>4
  <2>2. CASE ~item
    BY <2>2, EmittableFacts
  <2>3. QED
    BY <2>1, <2>2
<1>9. keep \in QuadIn(d) /\ keep.op # "func_start" /\ add \in QuadIn(d)
  <2>1. v \in ExprIn(d) /\ Newest(d) \in ExprIn(d) /\ None \in ExprIn(d)
    BY <1>5, <1>6, MoreExprs, ExprFacts
  <2>2. keep \in QuadIn(d) /\ keep.op # "func_start"
    BY <2>1, OrdinaryQuad DEF Ops
  <2>3. add \in QuadIn(d)
    BY <1>6, <1>7, ExprGrows
  <2>4. QED
    BY <2>2, <2>3
<1>10. Emittable(d, store)
  BY <1>6, <1>8, MoreExprs
<1> HIDE DEF c, v, d, keep, add, store, item
<1>11. Emittable(d, <<keep, add>> \o store) /\ Emittable(d, <<add, keep>>)
  BY <1>7, <1>9, <1>10, EmittableFacts
<1>12. Emittable(c, <<add>> \o store)
  BY <1>7, <1>8, EmittableFacts
<1>13. CASE code' \in {Emit(d, <<keep, add>> \o store), Emit(d, <<add, keep>>)} /\ Have("expr", Newest(d))
  <2>1. Continues(code, code') /\ Grows(d, code')
    BY <1>6, <1>11, <1>13, EmitOn
  <2>2. HaveOK(code', have', value')
    BY <1>6, <1>13, <2>1, MoreExprs, HaveVar DEF Have
  <2>3. QED
    BY <1>1, <2>1, <2>2, ReadStep
<1>14. CASE code' = Emit(c, <<add>> \o store) /\ Have("expr", v)
  <2>1. Continues(code, code') /\ Grows(c, code')
    BY <1>5, <1>12, <1>14, EmitOn
  <2>2. HaveOK(code', have', value')
    BY <1>5, <1>14, <2>1, MoreExprs, HaveVar DEF Have
  <2>3. QED
    BY <1>1, <2>1, <2>2, ReadStep
<1>15. QED
  BY <1>2, <1>13, <1>14

LEMMA HeadIn ==
  ASSUME NEW c, NEW kind \in Kinds, NEW e \in ExprIn(c),
         kind = "function" => \E f \in DOMAIN c.functions : e = User(f),
         kind \in {"index", "call index", "assign"} => e \in VarIn(c) \cup ItemIn(c),
         kind = "call" => e \in PlainIn(c) \cup ItemIn(c)
  PROVE  HeadOK(c, Context(kind, e))
<1> DEFINE x == Context(kind, e)
<1>1. x.kind = kind /\ x.head = e
  BY ContextIn, ZenonT(60)
<1> HIDE DEF x
<1>2. HeadOK(c, x)
  BY <1>1 DEF HeadOK
<1>3. QED
  BY <1>2 DEF x

LEMMA BeginStep ==
  ASSUME ParserInv, StayStrict, CodeOK(code'), InOK(code'), Grows(code, code'),
         NEW kind \in Kinds \ (Calls \cup Tables), NEW e \in ExprIn(code'),
         HeadOK(code', Context(kind, e)), open' = <<Context(kind, e)>> \o open,
         HaveOK(code', have', value'), functor' \in BOOLEAN, UNCHANGED <<lists, hung, errors>>
  PROVE  ParserInv'
<1> DEFINE x == Context(kind, e)
<1>1. OpenOK(code', open) /\ lists \in ListSet(PlainIn(code'))
  BY Carry
<1>2. OpenOK(code', open')
  BY <1>1, OpenPush
<1>3. x \in Contexts(code') /\ x.kind \notin Calls \cup Tables
  BY ContextIn
<1>4. open \in Seq(Contexts(code')) /\ ListsOK(open, lists, errors)
  BY <1>1 DEF OpenOK, ParserInv
<1> HIDE DEF x
<1>5. ListsOK(<<x>> \o open, lists, errors)
  BY <1>1, <1>3, <1>4, PushOther
<1>6. ListsOK(open', lists', errors')
  BY <1>5 DEF x
<1>7. strict' \in BOOLEAN /\ hung \in BOOLEAN /\ errors \in Nat
  BY StrictBool DEF ParserInv
<1>8. QED
  BY <1>1, <1>2, <1>6, <1>7, NextInv

LEMMA EndStep ==
  ASSUME ParserInv, StayStrict, CodeOK(code'), InOK(code'), Grows(code, code'),
         NEW kind \in Kinds \ (Calls \cup Tables), In(kind), open' = Tail(open),
         HaveOK(code', have', value'), functor' \in BOOLEAN, UNCHANGED <<lists, hung, errors>>
  PROVE  ParserInv'
<1>1. OpenOK(code', open) /\ lists \in ListSet(PlainIn(code'))
  BY Carry
<1>2. open # <<>> /\ open[1].kind \notin Calls \cup Tables
  BY InnermostFacts
<1>3. OpenOK(code', open')
  BY <1>1, <1>2, OpenPop
<1>4. open \in Seq(Contexts(code')) /\ ListsOK(open, lists, errors)
  BY <1>1 DEF OpenOK, ParserInv
<1>5. ListsOK(open', lists', errors')
  BY <1>1, <1>2, <1>4, PopOther
<1>6. strict' \in BOOLEAN /\ hung \in BOOLEAN /\ errors \in Nat
  BY StrictBool DEF ParserInv
<1>7. QED
  BY <1>1, <1>3, <1>5, <1>6, NextInv

LEMMA IndexBeginInv ==
  ASSUME ParserInv, StayStrict, IndexBegin
  PROVE  ParserInv'
<1> DEFINE kind == IF have = "call" THEN "call index" ELSE "index"
<1>1. /\ UNCHANGED <<code, lists, functor, hung, errors>> /\ TableRead
      /\ open' = <<Context(kind, value)>> \o open /\ HaveNothing
  BY DEF IndexBegin, Begin
<1>2. value \in VarIn(code) \cup ItemIn(code) /\ value \in ExprIn(code)
  BY <1>1, TableReadValue
<1>3. kind \in Kinds \ (Calls \cup Tables) /\ kind \in {"index", "call index"}
  BY DEF Kinds, Calls, Tables
<1> HIDE DEF kind
<1>4. HeadOK(code, Context(kind, value))
  BY <1>2, <1>3, HeadIn
<1>5. HaveOK(code', have', value')
  BY <1>1, HaveNone DEF HaveNothing, Have
<1>6. CodeOK(code') /\ InOK(code') /\ Grows(code, code') /\ functor' \in BOOLEAN
  BY <1>1, GrowsTrans DEF ParserInv
<1>7. QED
  BY <1>1, <1>2, <1>3, <1>4, <1>5, <1>6, BeginStep

LEMMA AssignBeginInv ==
  ASSUME ParserInv, StayStrict, AssignBegin
  PROVE  ParserInv'
<1>1. /\ UNCHANGED <<code, lists, functor, hung, errors>> /\ Has("lvalue")
      /\ open' = <<Context("assign", value)>> \o open /\ HaveNothing
  BY DEF AssignBegin, Begin
<1>2. value \in VarIn(code) \cup ItemIn(code) /\ value \in ExprIn(code)
  BY <1>1, TableReadValue
<1>3. "assign" \in Kinds \ (Calls \cup Tables)
  BY DEF Kinds, Calls, Tables
<1>4. HeadOK(code, Context("assign", value))
  BY <1>2, <1>3, HeadIn
<1>5. HaveOK(code', have', value')
  BY <1>1, HaveNone DEF HaveNothing, Have
<1>6. CodeOK(code') /\ InOK(code') /\ Grows(code, code') /\ functor' \in BOOLEAN
  BY <1>1, GrowsTrans DEF ParserInv
<1>7. QED
  BY <1>1, <1>2, <1>3, <1>4, <1>5, <1>6, BeginStep

(* Of ParserInv, what a step goes on from. *)
LEMMA ContinuesFields ==
  ASSUME NEW c, NEW d, Continues(c, d)
  PROVE  CodeOK(d) /\ InOK(d) /\ Grows(c, d)
BY DEF Continues, HereOK

LEMMA IndexEndInv ==
  ASSUME ParserInv, StayStrict, IndexEnd
  PROVE  ParserInv'
<1> DEFINE e == Innermost.head
<1>1. /\ UNCHANGED <<lists, hung, tokens, errors>> /\ Has("expr")
      /\ code' = Fetch(code, e) /\ Have("lvalue", Item(Fetched(code, e), value))
      /\ open' = Tail(open)
      /\ functor' = (functor \/ (In("index") /\ value = Parens))
  BY DEF IndexEnd, End
<1>2. PICK kind \in {"index", "call index"} : In(kind)
  BY DEF IndexEnd
<1>3. kind \in Kinds \ (Calls \cup Tables)
  BY DEF Kinds, Calls, Tables
<1>4. e \in VarIn(code) \cup ItemIn(code)
  BY <1>2, InnermostFacts DEF HeadOK
<1> HIDE DEF e
<1>5. Continues(code, code') /\ Fetched(code, e) \in VarIn(code') /\ value \in PlainIn(code')
  <2>1. Continues(code, code) /\ e \in PlainIn(code) \cup ItemIn(code)
    BY <1>4, HereFacts, ContinuesTrans, ExprFacts
  <2>2. Continues(code, code') /\ Fetched(code, e) \in VarIn(code') /\ Grows(code, code')
    BY <1>1, <1>4, <2>1, FetchOn
  <2>3. QED
    BY <1>1, <2>2, TableReadValue, MoreExprs
<1>6. HaveOK(code', have', value')
  BY <1>1, <1>5, ItemKind, HaveVar DEF Have
<1>7. functor' \in BOOLEAN
  BY <1>1 DEF ParserInv
<1>8. QED
  BY <1>1, <1>2, <1>3, <1>5, <1>6, <1>7, ContinuesFields, EndStep

LEMMA AssignEndInv ==
  ASSUME ParserInv, StayStrict, AssignEnd
  PROVE  ParserInv'
<1> DEFINE e == Innermost.head
           c == Emit(code, <<Quad("set_elem", value, e, e.key[1])>>)
           d == NewTemp(code)
           qs == <<Quad("assign", e, value, None), Quad("assign", Newest(d), e, None)>>
<1>1. /\ UNCHANGED <<lists, functor, hung, tokens, errors>> /\ Has("expr") /\ In("assign")
      /\ open' = Tail(open)
  BY DEF AssignEnd, End
<1>2. IF e.type = "element" THEN code' = Fetch(c, e) /\ Have("expr", Fetched(c, e))
      ELSE code' = Emit(d, qs) /\ Have("expr", Newest(d))
  BY DEF AssignEnd
<1>3. e \in VarIn(code) \cup ItemIn(code) /\ "assign" \in Kinds \ (Calls \cup Tables)
  BY <1>1, InnermostFacts DEF HeadOK, Kinds, Calls, Tables
<1>4. value \in PlainIn(code) /\ value \in ExprIn(code)
  BY <1>1, TableReadValue
<1> HIDE DEF e
<1>5. Continues(code, code)
  BY HereFacts, ContinuesTrans
<1>6. Continues(code, code') /\ HaveOK(code', have', value')
  <2>1. CASE e.type = "element"
    <3>1. e \in ItemIn(code) /\ e \in ExprIn(code) /\ e.key[1] \in ExprIn(code)
      BY <1>3, <2>1, ExprFacts
    <3>2. Emittable(code, <<Quad("set_elem", value, e, e.key[1])>>)
      BY <1>4, <3>1, OrdinaryQuad DEF Ops
    <3>3. Continues(code, c) /\ Grows(code, c)
      BY <1>5, <3>2, EmitOn
    <3> HIDE DEF c
    <3>4. e \in ItemIn(c)
      BY <3>1, <3>3, MoreExprs
    <3>5. Continues(code, Fetch(c, e)) /\ Fetched(c, e) \in PlainIn(Fetch(c, e))
      BY <3>3, <3>4, FetchOn
    <3>6. QED
      BY <1>2, <2>1, <3>5, HavePlain DEF Have
  <2>2. CASE e.type # "element"
    <3>1. Continues(code, d) /\ Grows(code, d) /\ Newest(d) \in VarIn(d)
      BY <1>5, TempOn
    <3>2. e \in ExprIn(d) /\ value \in ExprIn(d) /\ Newest(d) \in ExprIn(d) /\ None \in ExprIn(d)
      BY <1>3, <1>4, <3>1, MoreExprs, ExprFacts
    <3>3. Emittable(d, qs)
      BY <3>2, OrdinaryQuad, EmittableFacts DEF Ops
    <3> HIDE DEF d, qs
    <3>4. Continues(code, Emit(d, qs)) /\ Grows(d, Emit(d, qs))
      BY <3>1, <3>3, EmitOn
    <3>5. Newest(d) \in VarIn(Emit(d, qs))
      BY <3>1, <3>4, MoreExprs
    <3>6. QED
      BY <1>2, <2>2, <3>4, <3>5, HaveVar DEF Have
  <2>3. QED
    BY <2>1, <2>2
<1>7. functor' \in BOOLEAN
  BY <1>1 DEF ParserInv
<1>8. QED
  BY <1>1, <1>3, <1>6, <1>7, ContinuesFields, EndStep

LEMMA StillInv ==
  ASSUME ParserInv, StayStrict, UNCHANGED <<code, hung>>, OpenOK(code, open'),
         HaveOK(code, have', value'), lists' \in ListSet(PlainIn(code)),
         ListsOK(open', lists', errors'), functor' \in BOOLEAN, errors' \in Nat
  PROVE  ParserInv'
<1>1. CodeOK(code) /\ InOK(code) /\ hung \in BOOLEAN
  BY DEF ParserInv
<1>2. strict' \in BOOLEAN
  BY StrictBool
<1>3. QED
  BY <1>1, <1>2, NextInv

LEMMA CallBeginInv ==
  ASSUME ParserInv, StayStrict, CallBegin
  PROVE  ParserInv'
<1> DEFINE x == Context("call", value)
           P == PlainIn(code)
           S == Contexts(code)
<1>1. /\ UNCHANGED <<code, functor, hung, errors>>
      /\ TableRead \/ Has("function")
      /\ open' = <<x>> \o open /\ HaveNothing
      /\ lists' = [lists EXCEPT !.param = <<<<>>>> \o lists.param]
  BY DEF CallBegin, Begin
<1>2. value \in PlainIn(code) \cup ItemIn(code) /\ value \in ExprIn(code) /\ "call" \in Kinds
  BY <1>1, TableReadValue, ExprFacts DEF Kinds
<1>3. HeadOK(code, x)
  BY <1>2, HeadIn
<1>4. x \in S /\ x.kind = "call" /\ x.own = <<>>
  BY <1>2, ContextIn
<1>5. /\ open \in Seq(S) /\ lists \in ListSet(P) /\ ListsOK(open, lists, errors)
      /\ OpenOK(code, open) /\ CodeOK(code) /\ InOK(code)
  BY DEF ParserInv, OpenOK
<1>6. OpenOK(code, open')
  BY <1>1, <1>2, <1>3, <1>5, OpenPush
<1>7. HaveOK(code, have', value')
  BY <1>1, HaveNone DEF HaveNothing, Have
<1> HIDE DEF x, S, P
<1>8. lists' \in ListSet(P) /\ ListsOK(open', lists', errors)
  BY <1>1, <1>4, <1>5, PushCall
<1>9. ListsOK(open', lists', errors') /\ functor' \in BOOLEAN /\ errors' \in Nat
  BY <1>1, <1>8 DEF ParserInv
<1>10. HaveOK(code, have', value')
  BY <1>1, <1>7
<1>11. QED
  BY <1>1, <1>6, <1>8, <1>9, <1>10, StillInv DEF P

LEMMA TableBeginInv ==
  ASSUME ParserInv, StayStrict, TableBegin
  PROVE  ParserInv'
<1>1. PICK kind \in Tables : open' = <<Context(kind, None)>> \o open
  BY DEF TableBegin, Begin
<1> DEFINE x == Context(kind, None)
           P == PlainIn(code)
           S == Contexts(code)
<1>2. /\ UNCHANGED <<code, functor, hung, have, value, errors>>
      /\ lists' = [lists EXCEPT !.elist = <<<<>>>> \o lists.elist,
                                !.indexed = <<<<>>>> \o lists.indexed,
                                !.values = <<<<>>>> \o lists.values]
  BY DEF TableBegin
<1>3. None \in ExprIn(code) /\ kind \in Kinds \ {"function", "index", "call index", "assign", "call"}
  BY ExprFacts DEF Kinds, Tables
<1>4. HeadOK(code, x)
  BY <1>3, HeadIn
<1>5. x \in S /\ x.kind = kind /\ x.own = <<>> /\ x.keys = <<>> /\ x.clean
  BY <1>3, ContextIn, ZenonT(60)
<1>6. /\ open \in Seq(S) /\ lists \in ListSet(P) /\ ListsOK(open, lists, errors)
      /\ OpenOK(code, open) /\ CodeOK(code) /\ InOK(code) /\ HaveOK(code, have, value)
  BY DEF ParserInv, OpenOK
<1>7. OpenOK(code, open')
  BY <1>1, <1>3, <1>4, <1>6, OpenPush
<1> HIDE DEF x, S, P
<1>8. lists' \in ListSet(P) /\ ListsOK(<<x>> \o open, lists', errors)
  BY <1>2, <1>5, <1>6, PushTable
<1>9. ListsOK(open', lists', errors') /\ functor' \in BOOLEAN /\ errors' \in Nat
  BY <1>1, <1>2, <1>8 DEF ParserInv, x
<1>10. HaveOK(code, have', value')
  BY <1>2, <1>6
<1>11. QED
  BY <1>2, <1>7, <1>8, <1>9, <1>10, StillInv DEF P

LEMMA ParamsFacts ==
  ASSUME NEW c, NEW list \in Seq(PlainIn(c))
  PROVE  /\ Emittable(c, Params(list)) /\ Len(Params(list)) = Len(list)
         /\ \A i \in 1 .. Len(list) : Params(list)[i] = Quad("param", list[i], None, None)
<1> DEFINE P == PlainIn(c)
           p == Params(list)
<1>1. list \in Seq(P)
  OBVIOUS
<1> HIDE DEF P
<1>2. Len(list) \in Nat /\ DOMAIN list = 1 .. Len(list) /\ \A i \in 1 .. Len(list) : list[i] \in P
  BY <1>1
<1>3. \A i \in 1 .. Len(list) : p[i] = Quad("param", list[i], None, None)
  BY <1>2 DEF Params
<1>4. DOMAIN p = 1 .. Len(list) /\ p = [i \in 1 .. Len(list) |-> p[i]]
  BY <1>2 DEF Params
<1>5. ASSUME NEW i \in 1 .. Len(list) PROVE p[i] \in QuadIn(c) /\ p[i].op # "func_start"
  <2>1. list[i] \in ExprIn(c) /\ None \in ExprIn(c)
    BY <1>2, ExprFacts DEF P
  <2>2. QED
    BY <1>3, <2>1, OrdinaryQuad DEF Ops
<1> HIDE DEF p
<1>6. p \in [1 .. Len(list) -> QuadIn(c)]
  BY <1>4, <1>5
<1>7. p \in Seq(QuadIn(c)) /\ Len(p) = Len(list)
  BY <1>2, <1>6, SeqOfFunction
<1>8. Emittable(c, p)
  BY <1>4, <1>5, <1>7 DEF Emittable
<1>9. QED
  BY <1>3, <1>7, <1>8 DEF p

LEMMA SetElemsFacts ==
  ASSUME NEW c, NEW keys \in Seq(PlainIn(c)), NEW values \in Seq(PlainIn(c)),
         Len(keys) = Len(values), NEW t \in PlainIn(c)
  PROVE  Emittable(c, SetElems(t, keys, values))
<1> DEFINE P == PlainIn(c)
           p == SetElems(t, keys, values)
<1>1. keys \in Seq(P) /\ values \in Seq(P)
  OBVIOUS
<1> HIDE DEF P
<1>2. /\ Len(values) \in Nat /\ DOMAIN values = 1 .. Len(values)
      /\ \A i \in 1 .. Len(values) : values[i] \in P /\ keys[i] \in P
  BY <1>1
<1>3. /\ \A i \in 1 .. Len(values) : p[i] = Quad("set_elem", values[i], t, keys[i])
      /\ DOMAIN p = 1 .. Len(values) /\ p = [i \in 1 .. Len(values) |-> p[i]]
  BY <1>2 DEF SetElems
<1> HIDE DEF p
<1>4. ASSUME NEW i \in 1 .. Len(values) PROVE p[i] \in QuadIn(c) /\ p[i].op # "func_start"
  <2>1. values[i] \in ExprIn(c) /\ keys[i] \in ExprIn(c) /\ t \in ExprIn(c)
    BY <1>2, ExprFacts DEF P
  <2>2. "set_elem" \in Ops \ {"func_start"}
    BY DEF Ops
  <2>3. /\ Quad("set_elem", values[i], t, keys[i]) \in QuadIn(c)
        /\ Quad("set_elem", values[i], t, keys[i]).op # "func_start"
    BY <2>1, <2>2, OrdinaryQuad
  <2>4. QED
    BY <1>3, <2>3
<1>5. p \in [1 .. Len(values) -> QuadIn(c)]
  BY <1>3, <1>4
<1>6. p \in Seq(QuadIn(c)) /\ Len(p) = Len(values)
  BY <1>2, <1>5, SeqOfFunction
<1>7. Emittable(c, p)
  BY <1>3, <1>4, <1>6 DEF Emittable
<1>8. QED
  BY <1>7 DEF p

-----------------------------------------------------------------------------
(* Calls and tables end *)

(* qs are the quads of a call with these arguments.                        *)
CallQuads(Q, qs, list) ==
  \E pre \in Seq(Q) : \E q \in Q : \E r \in Q :
    /\ \A i \in DOMAIN pre : pre[i].op # "param"
    /\ q.op # "param" /\ r.op # "param"
    /\ qs = (pre \o Params(list)) \o (<<q>> \o <<r>>)

LEMMA FetchQuads ==
  ASSUME NEW c, HereOK(c), NEW e \in PlainIn(c) \cup ItemIn(c)
  PROVE  \E pre \in Seq(QuadIn(Fetch(c, e))) :
           /\ Fetch(c, e).quads = c.quads \o pre
           /\ \A i \in DOMAIN pre : pre[i].op # "param"
<1> DEFINE d == Fetch(c, e)
<1>1. \/ d.quads = c.quads
      \/ \E q \in QuadIn(d) : q.op = "get_elem" /\ d.quads = c.quads \o <<q>>
  BY FetchCode
<1>2. c.quads \in Seq(QuadIn(c))
  BY CodeFields DEF HereOK
<1> HIDE DEF d
<1>3. CASE d.quads = c.quads
  <2>1. c.quads \o <<>> = c.quads
    BY <1>2, ConcatEmptySeq
  <2>2. d.quads = c.quads \o <<>> /\ <<>> \in Seq(QuadIn(d)) /\ DOMAIN <<>> = {}
    BY <1>3, <2>1
  <2>3. QED
    BY <2>2 DEF d
<1>4. CASE \E q \in QuadIn(d) : q.op = "get_elem" /\ d.quads = c.quads \o <<q>>
  <2>1. PICK q \in QuadIn(d) : q.op = "get_elem" /\ d.quads = c.quads \o <<q>>
    BY <1>4
  <2>2. <<q>> \in Seq(QuadIn(d)) /\ \A i \in DOMAIN <<q>> : <<q>>[i].op # "param"
    BY <2>1, OneQuad
  <2>3. QED
    BY <2>1, <2>2 DEF d
<1>5. QED
  BY <1>1, <1>3, <1>4

LEMMA ThreeParts ==
  ASSUME NEW Q, NEW s \in Seq(Q), NEW t \in Seq(Q), NEW u \in Seq(Q)
  PROVE  (s \o t) \o u = s \o (t \o u) /\ s \o t \in Seq(Q)
OBVIOUS

FromLeft(a, b, c, d, e)  == ((a \o b) \o (c \o d)) \o e
FromRight(a, b, c, d, e) == a \o ((b \o c) \o (d \o e))

LEMMA ConcatFive ==
  ASSUME NEW Q, NEW a \in Seq(Q), NEW b \in Seq(Q), NEW c \in Seq(Q), NEW d \in Seq(Q),
         NEW e \in Seq(Q)
  PROVE  FromLeft(a, b, c, d, e) = FromRight(a, b, c, d, e)
<1> DEFINE x == a \o b
           y == c \o d
           z == d \o e
<1>1. x \in Seq(Q) /\ y \in Seq(Q) /\ z \in Seq(Q)
  BY ConcatProperties
<1>2. y \o e = c \o z
  BY ThreeParts, SMTT(40)
<1>3. c \o z \in Seq(Q)
  <2> HIDE DEF z
  <2>1. QED
    BY <1>1, ConcatProperties
<1>4. (x \o y) \o e = x \o (y \o e)
  <2> HIDE DEF x, y
  <2>1. QED
    BY <1>1
<1> DEFINE w == c \o z
<1>5. x \o w = a \o (b \o w)
  <2> HIDE DEF w
  <2>1. QED
    BY <1>3
<1>6. (b \o c) \o z = b \o w
  <2> HIDE DEF z
  <2>1. QED
    BY <1>1
<1>7. QED
  <2> HIDE DEF x, y, z
  <2>1. (x \o y) \o e = a \o ((b \o c) \o z)
    BY <1>2, <1>4, <1>5, <1>6
  <2>2. QED
    BY <2>1, Zenon DEF x, y, z, FromLeft, FromRight

(* The code of a call: d is what it is before getretval. *)
CallStep(list, d, c) ==
  /\ Continues(code, c) /\ Newest(d) \in VarIn(c)
  /\ \E qs \in Seq(QuadIn(c)) : c.quads = code.quads \o qs /\ CallQuads(QuadIn(c), qs, list)

LEMMA CallFacts ==
  ASSUME ParserInv, In("call"), NEW list \in Seq(PlainIn(code))
  PROVE  CallStep(list, CallCode(list),
           Emit(CallCode(list), <<Quad("getretval", Newest(CallCode(list)), None, None)>>))
<1> DEFINE e == Innermost.head
           f == Fetch(code, e)
           q == Quad("call", Fetched(code, e), None, None)
           g == Emit(f, Params(list) \o <<q>>)
           d == NewTemp(g)
           r == Quad("getretval", Newest(d), None, None)
           c == Emit(d, <<r>>)
<1>1. CallCode(list) = d
  BY DEF CallCode
<1>2. e \in PlainIn(code) \cup ItemIn(code)
  BY InnermostFacts DEF HeadOK
<1>3. HereOK(code) /\ Continues(code, code)
  BY HereFacts, ContinuesTrans
<1> HIDE DEF e
<1>4. /\ Continues(code, f) /\ Grows(code, f) /\ Fetched(code, e) \in PlainIn(f)
  BY <1>2, <1>3, FetchOn
<1>5. PICK pre \in Seq(QuadIn(f)) : /\ f.quads = code.quads \o pre
                                    /\ \A i \in DOMAIN pre : pre[i].op # "param"
  BY <1>2, <1>3, FetchQuads
<1>6. /\ q \in QuadIn(f) /\ Emittable(f, <<q>>)
  <2>1. Fetched(code, e) \in ExprIn(f) /\ None \in ExprIn(f)
    BY <1>4, ExprFacts
  <2>2. "call" \in Ops \ {"func_start"}
    BY DEF Ops
  <2>3. QED
    BY <2>1, <2>2, OrdinaryQuad
<1>7. list \in Seq(PlainIn(f)) /\ q.op = "call" /\ r.op = "getretval"
  <2>1. q.op = "call" /\ r.op = "getretval"
    BY DEF Quad
  <2>2. QED
    BY <1>4, <2>1, SeqGrows
<1> HIDE DEF f, q, r
<1>8. Emittable(f, Params(list)) /\ Emittable(f, Params(list) \o <<q>>)
  BY <1>6, <1>7, ParamsFacts, EmittableFacts
<1>9. /\ Continues(code, g) /\ Grows(f, g) /\ g.quads = f.quads \o (Params(list) \o <<q>>)
  BY <1>4, <1>8, EmitOn, ZenonT(60)
<1> HIDE DEF g
<1>10. /\ Continues(code, d) /\ Grows(g, d) /\ d.quads = g.quads /\ Newest(d) \in VarIn(d)
  BY <1>9, TempOn
<1> HIDE DEF d
<1>11. Emittable(d, <<r>>) /\ r \in QuadIn(d)
  <2>1. Newest(d) \in ExprIn(d) /\ None \in ExprIn(d)
    BY <1>10, ExprFacts
  <2>2. "getretval" \in Ops \ {"func_start"}
    BY DEF Ops
  <2>3. QED
    BY <2>1, <2>2, OrdinaryQuad DEF r
<1>12. Continues(code, c) /\ Grows(d, c) /\ c.quads = d.quads \o <<r>>
  BY <1>10, <1>11, EmitOn, ZenonT(60)
<1> HIDE DEF c
<1>13. Newest(d) \in VarIn(c)
  BY <1>10, <1>12, MoreExprs
<1>14. Grows(f, c) /\ Grows(code, c)
  BY <1>4, <1>9, <1>10, <1>12, GrowsTrans
<1> DEFINE Q == QuadIn(c)
<1>15. /\ q \in Q /\ r \in Q /\ pre \in Seq(Q) /\ Params(list) \in Seq(Q) /\ code.quads \in Seq(Q)
  <2>1. QuadIn(f) \subseteq QuadIn(c) /\ QuadIn(d) \subseteq QuadIn(c)
    BY <1>12, <1>14, ExprGrows
  <2>2. Seq(QuadIn(f)) \subseteq Seq(QuadIn(c)) /\ Seq(QuadIn(code)) \subseteq Seq(QuadIn(c))
    BY <1>14, SeqGrows
  <2>3. Params(list) \in Seq(QuadIn(f)) /\ code.quads \in Seq(QuadIn(code))
    BY <1>8, CodeFields DEF Emittable, ParserInv
  <2>4. QED
    BY <1>5, <1>6, <1>11, <2>1, <2>2, <2>3
<1> DEFINE qs == (pre \o Params(list)) \o (<<q>> \o <<r>>)
<1> HIDE DEF Q
<1>16. <<q>> \in Seq(Q) /\ <<r>> \in Seq(Q)
  BY <1>15
<1>17. c.quads = ((code.quads \o pre) \o (Params(list) \o <<q>>)) \o <<r>>
  BY <1>5, <1>9, <1>10, <1>12
<1>18. c.quads = code.quads \o qs
  <2>1. ((code.quads \o pre) \o (Params(list) \o <<q>>)) \o <<r>> = code.quads \o qs
    <3> DEFINE u == <<q>>
               v == <<r>>
               p == Params(list)
               o == code.quads
    <3>1. o \in Seq(Q) /\ pre \in Seq(Q) /\ p \in Seq(Q) /\ u \in Seq(Q) /\ v \in Seq(Q)
      BY <1>15, <1>16
    <3> HIDE DEF u, v, p, o
    <3>2. FromLeft(o, pre, p, u, v) = FromRight(o, pre, p, u, v)
      BY <3>1, ConcatFive
    <3>3. QED
      BY <3>2, Zenon DEF u, v, p, o, FromLeft, FromRight
  <2>2. QED
    BY <1>17, <2>1, Zenon
<1>19. qs \in Seq(Q)
  BY <1>15, <1>16, ConcatProperties
<1>20. CallQuads(Q, qs, list)
  BY <1>5, <1>7, <1>15 DEF CallQuads
<1>21. CallStep(list, d, c)
  BY <1>12, <1>13, <1>18, <1>19, <1>20 DEF CallStep, Q
<1>22. QED
  BY <1>1, <1>21 DEF c, r

LEMMA CallEndInv ==
  ASSUME ParserInv, StayStrict, CallEnd
  PROVE  /\ ParserInv' /\ Head(lists.param) \in Seq(PlainIn(code))
         /\ Innermost.clean => Head(lists.param) = Reverse(Innermost.own)
         /\ \E d : CallStep(Head(lists.param), d, code')
<1> DEFINE P == PlainIn(code)
           S == Contexts(code)
           list == Head(lists.param)
           d == CallCode(list)
<1>1. /\ In("call") /\ code' = Emit(d, <<Quad("getretval", Newest(d), None, None)>>)
      /\ have' = "call" /\ value' = Newest(d)
      /\ lists' = [lists EXCEPT !.param = Tail(lists.param)]
      /\ open' = Tail(open) /\ UNCHANGED <<functor, hung, tokens, errors>>
  BY DEF CallEnd, Have, End
<1>2. /\ open \in Seq(S) /\ lists \in ListSet(P) /\ ListsOK(open, lists, errors)
      /\ OpenOK(code, open) /\ CodeOK(code) /\ InOK(code)
  BY DEF ParserInv, OpenOK
<1>3. open # <<>> /\ open[1].kind = "call" /\ open[1] = Innermost
  BY <1>1, InnermostFacts
<1> HIDE DEF P, S
<1>4. /\ lists' \in ListSet(P) /\ ListsOK(Tail(open), lists', errors)
      /\ Head(lists.param) \in Seq(P)
      /\ open[1].clean => Head(lists.param) = Reverse(open[1].own)
  BY <1>1, <1>2, <1>3, PopCall
<1>5. CallStep(list, d, code')
  <2>1. CallStep(list, d, Emit(d, <<Quad("getretval", Newest(d), None, None)>>))
    BY <1>1, <1>4, CallFacts DEF P
  <2>2. QED
    BY <1>1, <2>1
<1> HIDE DEF d
<1>6. Continues(code, code') /\ Newest(d) \in VarIn(code')
  BY <1>5 DEF CallStep
<1>7. CodeOK(code') /\ InOK(code') /\ Grows(code, code')
  BY <1>6, ContinuesFields
<1>8. HaveOK(code', have', value')
  BY <1>1, <1>6, HaveVar
<1>9. OpenOK(code', open') /\ lists' \in ListSet(PlainIn(code'))
  <2>1. OpenOK(code', open)
    BY <1>7, Carry
  <2>2. ListSet(P) \subseteq ListSet(PlainIn(code'))
    BY <1>7, ContextsGrow DEF P
  <2>3. QED
    BY <1>1, <1>3, <1>4, <2>1, <2>2, OpenPop
<1>10. /\ ListsOK(open', lists', errors')
       /\ strict' \in BOOLEAN /\ functor' \in BOOLEAN /\ hung' \in BOOLEAN /\ errors' \in Nat
  BY <1>1, <1>4, StrictBool DEF ParserInv
<1>11. ParserInv'
  BY <1>7, <1>8, <1>9, <1>10, NextInv
<1>12. QED
  BY <1>3, <1>4, <1>5, <1>11 DEF P

(* What a table is made of. *)
TableKeys ==
  IF In("elist") THEN [i \in DOMAIN Head(lists.elist) |-> Num(i - 1)] ELSE Head(lists.indexed)
TableValues == IF In("elist") THEN Head(lists.elist) ELSE Head(lists.values)

NumberedKeys(list) == [i \in DOMAIN list |-> Num(i - 1)]

LEMMA NumbersFacts ==
  ASSUME NEW P, NEW list \in Seq(P), NEW c
  PROVE  NumberedKeys(list) \in Seq(PlainIn(c)) /\ Len(NumberedKeys(list)) = Len(list)
<1> DEFINE k == NumberedKeys(list)
<1>1. Len(list) \in Nat /\ DOMAIN list = 1 .. Len(list)
  OBVIOUS
<1>2. DOMAIN k = 1 .. Len(list) /\ k = [i \in 1 .. Len(list) |-> k[i]]
      /\ \A i \in 1 .. Len(list) : k[i] = Num(i - 1)
  BY <1>1 DEF NumberedKeys
<1>3. \A i \in 1 .. Len(list) : k[i] \in PlainIn(c)
  <2>1. \A i \in 1 .. Len(list) : i - 1 \in Int
    BY <1>1
  <2>2. QED
    BY <1>2, <2>1, ExprKinds
<1> HIDE DEF k
<1>4. k \in [1 .. Len(list) -> PlainIn(c)]
  BY <1>2, <1>3
<1>5. QED
  BY <1>1, <1>4, SeqOfFunction DEF k

(* The quads of a table that is not hung: t is the table.                  *)
TableQuads(t, keys, values) ==
  \E q \in QuadIn(code') : \E qs \in Seq(QuadIn(code')) :
    qs = SetElems(t, keys, values) /\ code'.quads = code.quads \o (<<q>> \o qs)

Emitted(c, d, e, qs) == Continues(c, e) /\ Grows(d, e) /\ e.quads = d.quads \o qs

LEMMA EmitMore ==
  ASSUME NEW c, NEW d, Continues(c, d), NEW qs, Emittable(d, qs)
  PROVE  Emitted(c, d, Emit(d, qs), qs)
BY EmitOn DEF Emitted

LEMMA TableEndInv ==
  ASSUME ParserInv, StayStrict, TableEnd
  PROVE  /\ ParserInv' /\ Grows(code, code')
         /\ hung' = (Len(TableKeys) # Len(TableValues))
         /\ ~hung' => TableQuads(value', TableKeys, TableValues)
         /\ Innermost.clean /\ In("elist") => Head(lists.elist) = Innermost.own
         /\ In("elist") => Len(TableKeys) = Len(TableValues)
         /\ Innermost.clean /\ In("indexed") =>
              /\ TableKeys = Innermost.keys /\ TableValues = Innermost.own
              /\ Len(TableKeys) = Len(TableValues)
<1> DEFINE P == PlainIn(code)
           S == Contexts(code)
           c == NewTemp(code)
           t == Newest(c)
           q == Quad("newtable", t, None, None)
           made == Emit(c, <<q>>)
<1>1. /\ In("elist") \/ (In("indexed") /\ KeyExpected)
      /\ hung' = (Len(TableKeys) # Len(TableValues))
      /\ code' = IF hung' THEN made ELSE Emit(made, SetElems(t, TableKeys, TableValues))
      /\ have' = "expr" /\ value' = t
      /\ lists' = [lists EXCEPT !.elist = Tail(lists.elist), !.indexed = Tail(lists.indexed),
                                !.values = Tail(lists.values)]
      /\ open' = Tail(open) /\ UNCHANGED <<functor, tokens, errors>>
  BY DEF TableEnd, Have, End, TableKeys, TableValues
<1>2. /\ open \in Seq(S) /\ lists \in ListSet(P) /\ ListsOK(open, lists, errors)
      /\ OpenOK(code, open) /\ CodeOK(code) /\ InOK(code)
  BY DEF ParserInv, OpenOK
<1>3. open # <<>> /\ open[1].kind \in Tables /\ open[1] = Innermost
  BY <1>1, InnermostFacts DEF Tables
<1> HIDE DEF P, S
<1>4. /\ lists' \in ListSet(P) /\ ListsOK(Tail(open), lists', errors)
      /\ Head(lists.elist) \in Seq(P) /\ Head(lists.indexed) \in Seq(P)
      /\ Head(lists.values) \in Seq(P)
      /\ open[1].clean /\ open[1].kind = "elist" => Head(lists.elist) = open[1].own
      /\ open[1].clean /\ open[1].kind = "indexed" =>
           Head(lists.indexed) = open[1].keys /\ Head(lists.values) = open[1].own
  BY <1>1, <1>2, <1>3, PopTable
<1>5. Continues(code, c) /\ Grows(code, c) /\ t \in VarIn(c) /\ c.quads = code.quads
  BY HereFacts, ContinuesTrans, TempOn
<1>6. q \in QuadIn(c) /\ Emittable(c, <<q>>)
  <2>1. t \in ExprIn(c) /\ None \in ExprIn(c)
    BY <1>5, ExprFacts
  <2>2. "newtable" \in Ops \ {"func_start"}
    BY DEF Ops
  <2>3. QED
    BY <2>1, <2>2, OrdinaryQuad
<1> HIDE DEF c, t, q
<1>7. Continues(code, made) /\ Grows(c, made) /\ made.quads = c.quads \o <<q>>
  BY <1>5, <1>6, EmitOn, ZenonT(60)
<1> HIDE DEF made
<1>8. /\ TableKeys \in Seq(PlainIn(made)) /\ TableValues \in Seq(PlainIn(made))
      /\ In("elist") => Len(TableKeys) = Len(TableValues)
  <2>1. Grows(code, made)
    BY <1>7, ContinuesFields
  <2>2. Seq(P) \subseteq Seq(PlainIn(made))
    BY <2>1, SeqGrows DEF P
  <2>3. CASE In("elist")
    <3>1. TableKeys = NumberedKeys(Head(lists.elist)) /\ TableValues = Head(lists.elist)
      BY <2>3 DEF TableKeys, TableValues, NumberedKeys
    <3>2. QED
      BY <1>4, <2>2, <3>1, NumbersFacts
  <2>4. CASE ~In("elist")
    <3>1. TableKeys = Head(lists.indexed) /\ TableValues = Head(lists.values)
      BY <2>4 DEF TableKeys, TableValues
    <3>2. QED
      BY <1>4, <2>2, <2>4, <3>1
  <2>5. QED
    BY <2>3, <2>4
<1> DEFINE es == SetElems(t, TableKeys, TableValues)
<1>9. ~hung' => Emittable(made, es)
  <2>1. t \in PlainIn(made)
    BY <1>5, <1>7, MoreExprs
  <2>2. QED
    BY <1>1, <1>8, <2>1, SetElemsFacts
<1> HIDE DEF es
<1>10. /\ Continues(code, code') /\ Grows(made, code')
       /\ ~hung' => code'.quads = made.quads \o es
  <2>1. CASE hung'
    BY <1>1, <1>7, <2>1, GrowsTrans
  <2>2. CASE ~hung'
    <3>1. code' = Emit(made, es)
      BY <1>1, <2>2 DEF es
    <3>2. Emittable(made, es)
      BY <1>9, <2>2
    <3>3. Emitted(code, made, Emit(made, es), es)
      BY <1>7, <3>2, EmitMore
    <3>4. QED
      BY <3>1, <3>3 DEF Emitted
  <2>3. QED
    BY <2>1, <2>2
<1>11. CodeOK(code') /\ InOK(code') /\ Grows(code, code') /\ Grows(c, code')
  BY <1>7, <1>10, ContinuesFields, GrowsTrans
<1>12. ~hung' => TableQuads(value', TableKeys, TableValues)
  <2> SUFFICES ASSUME ~hung' PROVE TableQuads(t, TableKeys, TableValues)
    BY <1>1
  <2> DEFINE Q == QuadIn(code')
  <2>1. q \in Q /\ es \in Seq(Q) /\ code.quads \in Seq(Q)
    <3>1. QuadIn(c) \subseteq Q /\ Seq(QuadIn(made)) \subseteq Seq(Q)
          /\ Seq(QuadIn(code)) \subseteq Seq(Q)
      BY <1>10, <1>11, ExprGrows, SeqGrows
    <3>2. code.quads \in Seq(QuadIn(code))
      BY <1>2, CodeFields
    <3>3. QED
      BY <1>6, <1>9, <3>1, <3>2 DEF Emittable
  <2> HIDE DEF Q
  <2> DEFINE o == code.quads
             u == <<q>>
  <2>2. u \in Seq(Q) /\ o \in Seq(Q)
    BY <2>1
  <2> HIDE DEF u, o
  <2>3. (o \o u) \o es = o \o (u \o es)
    BY <2>1, <2>2
  <2>4. code'.quads = (o \o u) \o es
    BY <1>5, <1>7, <1>10 DEF o, u
  <2>5. code'.quads = code.quads \o (<<q>> \o es)
    BY <2>3, <2>4, Zenon DEF o, u
  <2>6. QED
    BY <2>1, <2>5 DEF TableQuads, es, Q
<1>13. HaveOK(code', have', value')
  <2>1. t \in VarIn(code')
    BY <1>5, <1>11, MoreExprs
  <2>2. QED
    BY <1>1, <2>1, HaveVar
<1>14. OpenOK(code', open') /\ lists' \in ListSet(PlainIn(code'))
  <2>1. OpenOK(code', open)
    BY <1>11, Carry
  <2>2. ListSet(P) \subseteq ListSet(PlainIn(code'))
    BY <1>11, ContextsGrow DEF P
  <2>3. QED
    BY <1>1, <1>3, <1>4, <2>1, <2>2, OpenPop
<1>15. /\ ListsOK(open', lists', errors')
       /\ strict' \in BOOLEAN /\ functor' \in BOOLEAN /\ hung' \in BOOLEAN /\ errors' \in Nat
  BY <1>1, <1>4, StrictBool DEF ParserInv
<1>16. ParserInv'
  BY <1>11, <1>13, <1>14, <1>15, NextInv
<1>17. Innermost.clean /\ In("elist") => Head(lists.elist) = Innermost.own
  BY <1>3, <1>4 DEF In
<1>18. Innermost.clean /\ In("indexed") =>
         /\ TableKeys = Innermost.keys /\ TableValues = Innermost.own
         /\ Len(TableKeys) = Len(TableValues)
  BY <1>1, <1>3, <1>4 DEF In, TableKeys, TableValues, KeyExpected
<1>19. QED
  BY <1>1, <1>8, <1>11, <1>12, <1>16, <1>17, <1>18

-----------------------------------------------------------------------------
(* Elements *)

LEMMA OpenSame ==
  ASSUME NEW c, NEW o, OpenOK(c, o), NEW p \in Seq(Contexts(c)), SameShape(o, p),
         \A i \in 1 .. Len(p) : KeysOK(p[i])
  PROVE  OpenOK(c, p)
<1>1. \A i \in 1 .. Len(p) : HeadOK(c, p[i])
  BY DEF OpenOK, SameShape, HeadOK
<1>2. QED
  BY <1>1 DEF OpenOK

(* The innermost context has changed. *)
LEMMA TopChanged ==
  ASSUME NEW c, NEW o, OpenOK(c, o), o # <<>>, NEW x \in Contexts(c),
         x.kind = o[1].kind, x.head = o[1].head, KeysOK(x)
  PROVE  OpenOK(c, [o EXCEPT ![1] = x])
<1> DEFINE p == [o EXCEPT ![1] = x]
<1>1. o \in Seq(Contexts(c)) /\ \A i \in 1 .. Len(o) : KeysOK(o[i])
  BY DEF OpenOK
<1>2. /\ p \in Seq(Contexts(c)) /\ Len(p) = Len(o) /\ p[1] = x /\ Len(o) \in Nat
      /\ \A i \in 2 .. Len(o) : p[i] = o[i]
  BY <1>1, TopContext
<1> HIDE DEF p
<1>3. ASSUME NEW i \in 1 .. Len(o)
      PROVE  p[i].kind = o[i].kind /\ p[i].head = o[i].head /\ KeysOK(p[i])
  <2>1. i = 1 \/ i \in 2 .. Len(o)
    BY <1>2
  <2>2. QED
    BY <1>1, <1>2, <2>1
<1>4. SameShape(o, p)
  BY <1>2, <1>3 DEF SameShape
<1>5. OpenOK(c, p)
  BY <1>2, <1>3, <1>4, OpenSame
<1>6. QED
  BY <1>5 DEF p

LEMMA KeyInv ==
  ASSUME ParserInv, StayStrict, Key
  PROVE  ParserInv'
<1> DEFINE E == ExprIn(code)
           P == PlainIn(code)
           x == [open[1] EXCEPT !.keys = Append(open[1].keys, value)]
<1>1. /\ Has("expr") /\ In("indexed") /\ KeyExpected
      /\ lists' = [lists EXCEPT !.indexed = TopAppend(lists.indexed, value)]
      /\ open' = [open EXCEPT ![1] = x] /\ HaveNothing
      /\ functor' = (functor \/ value = Parens)
      /\ UNCHANGED <<code, hung, tokens, errors>>
  BY DEF Key
<1>2. /\ open \in Seq(ContextSet(E, P)) /\ lists \in ListSet(P) /\ ListsOK(open, lists, errors)
      /\ OpenOK(code, open)
  BY DEF ParserInv, OpenOK, Contexts
<1>3. /\ open # <<>> /\ open[1].kind = "indexed" /\ open[1] = Innermost
      /\ open[1] \in ContextSet(E, P)
  BY <1>1, InnermostFacts DEF Contexts
<1>4. value \in P
  BY <1>1, TableReadValue
<1>5. Updated(E, P, open[1], x, open[1].own, Append(open[1].keys, value))
  BY <1>3, <1>4, ContextUpdated
<1>6. open[1].keys \in Seq(P)
  BY <1>3 DEF ContextSet
<1>7. /\ lists' \in ListSet(P) /\ ListsOK(open', lists', errors)
  BY <1>1, <1>2, <1>3, <1>4, IndexedLists
<1> HIDE DEF x, E, P
<1>8. /\ x \in Contexts(code) /\ x.kind = open[1].kind /\ x.head = open[1].head
      /\ x.own = open[1].own /\ x.keys = Append(open[1].keys, value)
  BY <1>5 DEF Updated, Contexts, E, P
<1>9. Len(x.keys) = Len(open[1].keys) + 1
  BY <1>4, <1>6, <1>8
<1>10. KeysOK(x)
  BY <1>1, <1>3, <1>8, <1>9 DEF KeysOK, KeyExpected
<1>11. OpenOK(code, open')
  BY <1>1, <1>2, <1>3, <1>8, <1>10, TopChanged
<1>12. /\ ListsOK(open', lists', errors') /\ errors' \in Nat /\ functor' \in BOOLEAN
       /\ HaveOK(code, have', value')
  BY <1>1, <1>7, HaveNone DEF ParserInv, HaveNothing, Have
<1>13. QED
  BY <1>1, <1>7, <1>11, <1>12, StillInv DEF P

LEMMA ElementValueInv ==
  ASSUME ParserInv, StayStrict, ElementValue
  PROVE  ParserInv'
<1> DEFINE E == ExprIn(code)
           P == PlainIn(code)
           x == [open[1] EXCEPT !.own = Append(open[1].own, value)]
<1>1. /\ Has("expr") /\ In("indexed") /\ ~KeyExpected
      /\ lists' = [lists EXCEPT !.values = TopAppend(lists.values, value)]
      /\ open' = [open EXCEPT ![1] = x] /\ HaveNothing
      /\ UNCHANGED <<code, functor, hung, tokens, errors>>
  BY DEF ElementValue
<1>2. /\ open \in Seq(ContextSet(E, P)) /\ lists \in ListSet(P) /\ ListsOK(open, lists, errors)
      /\ OpenOK(code, open)
  BY DEF ParserInv, OpenOK, Contexts
<1>3. /\ open # <<>> /\ open[1].kind = "indexed" /\ open[1] = Innermost
      /\ open[1] \in ContextSet(E, P) /\ KeysOK(open[1])
  BY <1>1, InnermostFacts DEF Contexts
<1>4. value \in P
  BY <1>1, TableReadValue
<1>5. Updated(E, P, open[1], x, Append(open[1].own, value), open[1].keys)
  BY <1>3, <1>4, ContextUpdated
<1>6. open[1].own \in Seq(P)
  BY <1>3 DEF ContextSet
<1>7. /\ lists' \in ListSet(P) /\ ListsOK(open', lists', errors)
  BY <1>1, <1>2, <1>3, <1>4, IndexedLists
<1> HIDE DEF x, E, P
<1>8. /\ x \in Contexts(code) /\ x.kind = open[1].kind /\ x.head = open[1].head
      /\ x.keys = open[1].keys /\ x.own = Append(open[1].own, value)
  BY <1>5 DEF Updated, Contexts, E, P
<1>9. Len(x.own) = Len(open[1].own) + 1
  BY <1>4, <1>6, <1>8
<1>10. KeysOK(x)
  BY <1>1, <1>3, <1>8, <1>9 DEF KeysOK, KeyExpected
<1>11. OpenOK(code, open')
  BY <1>1, <1>2, <1>3, <1>8, <1>10, TopChanged
<1>12. /\ ListsOK(open', lists', errors') /\ errors' \in Nat /\ functor' \in BOOLEAN
       /\ HaveOK(code, have', value')
  BY <1>1, <1>7, HaveNone DEF ParserInv, HaveNothing, Have
<1>13. QED
  BY <1>1, <1>7, <1>11, <1>12, StillInv DEF P

(* What an element leaves of the contexts. *)
KeptAt(x, y) ==
  /\ y.kind = x.kind /\ y.head = x.head /\ y.keys = x.keys /\ (y.clean => x.clean)
  /\ x.kind = "indexed" => y.own = x.own /\ y.clean = x.clean

LEMMA ElementStep ==
  ASSUME ParserInv, StayStrict, Has("expr"), HaveNothing, UNCHANGED <<code, functor, hung, errors>>,
         lists' = [lists EXCEPT !.param = TopPush(lists.param, value),
                                !.elist = TopAppend(lists.elist, value)],
         open' \in Seq(Contexts(code)), Len(open') = Len(open),
         \A i \in 1 .. Len(open) : KeptAt(open[i], open'[i]),
         ElementOf(open, open', value, "call", Calls), ElementOf(open, open', value, "elist", Tables)
  PROVE  ParserInv'
<1> DEFINE E == ExprIn(code)
           P == PlainIn(code)
<1>1. /\ open \in Seq(ContextSet(E, P)) /\ lists \in ListSet(P) /\ ListsOK(open, lists, errors)
      /\ OpenOK(code, open) /\ \A i \in 1 .. Len(open) : KeysOK(open[i])
  BY DEF ParserInv, OpenOK, Contexts
<1>2. value \in P
  BY TableReadValue
<1>3. SameShape(open, open')
  BY DEF SameShape, KeptAt
<1>4. \A i \in 1 .. Len(open) :
           /\ open'[i].keys = open[i].keys /\ (open'[i].clean => open[i].clean)
           /\ open[i].kind = "indexed" => open'[i].own = open[i].own /\ open'[i].clean = open[i].clean
  BY DEF KeptAt
<1>5. /\ lists' \in ListSet(P) /\ ListsOK(open', lists', errors)
  BY <1>1, <1>2, <1>3, <1>4, ElementLists
<1>6. \A i \in 1 .. Len(open') : KeysOK(open'[i])
  BY <1>1 DEF KeysOK, KeptAt
<1>7. OpenOK(code, open')
  BY <1>1, <1>3, <1>6, OpenSame
<1>8. HaveOK(code, have', value') /\ functor' \in BOOLEAN /\ errors' \in Nat
  BY HaveNone DEF HaveNothing, Have, ParserInv
<1>9. QED
  BY <1>5, <1>7, <1>8, StillInv DEF P

(* p is o disturbed at the innermost context of the kinds K.               *)
DisturbedTo(o, p, K) ==
  /\ Len(p) = Len(o)
  /\ \A i \in 1 .. Len(o) :
       /\ KeptAt(o[i], p[i]) /\ p[i].own = o[i].own
       /\ /\ o[i].kind \in K /\ o[i].kind # "indexed"
          /\ \A j \in 1 .. i - 1 : o[j].kind \notin K
          => ~p[i].clean

LEMMA DisturbedContexts ==
  ASSUME NEW c, NEW o \in Seq(Contexts(c)), NEW K
  PROVE  Disturb(o, K) \in Seq(Contexts(c)) /\ DisturbedTo(o, Disturb(o, K), K)
<1> DEFINE p == Disturb(o, K)
<1>1. o \in Seq(ContextSet(ExprIn(c), PlainIn(c)))
  BY DEF Contexts
<1>2. /\ p \in Seq(ContextSet(ExprIn(c), PlainIn(c))) /\ SameShape(o, p)
      /\ \A i \in 1 .. Len(o) :
           /\ p[i].own = o[i].own /\ p[i].keys = o[i].keys
           /\ p[i].clean => o[i].clean
           /\ o[i].kind = "indexed" => p[i].clean = o[i].clean
           /\ /\ o[i].kind \in K /\ o[i].kind # "indexed"
              /\ \A j \in 1 .. i - 1 : o[j].kind \notin K
              => ~p[i].clean
  BY <1>1, DisturbFacts
<1> HIDE DEF p
<1>3. DisturbedTo(o, p, K)
  BY <1>2 DEF DisturbedTo, SameShape, KeptAt
<1>4. QED
  BY <1>2, <1>3 DEF p, Contexts

LEMMA KeptTrans ==
  ASSUME NEW x, NEW y, NEW z, KeptAt(x, y), KeptAt(y, z)
  PROVE  KeptAt(x, z)
BY DEF KeptAt

(* An element of the innermost construct, of kind "call" or "elist".       *)
OwnedBy(o, q, v) ==
  /\ Len(q) = Len(o) /\ KeptAt(o[1], q[1]) /\ q[1].own = Append(o[1].own, v)
  /\ \A i \in 2 .. Len(o) : q[i] = o[i]

LEMMA OwnTop ==
  ASSUME ParserInv, Has("expr"), NEW kind \in {"call", "elist"}, In(kind)
  PROVE  /\ [open EXCEPT ![1].own = Append(@, value)] \in Seq(Contexts(code))
         /\ OwnedBy(open, [open EXCEPT ![1].own = Append(@, value)], value)
<1> DEFINE x == [open[1] EXCEPT !.own = Append(open[1].own, value)]
           q == [open EXCEPT ![1] = x]
<1>1. open \in Seq(Contexts(code)) /\ open # <<>> /\ open[1] \in Contexts(code) /\ open[1].kind = kind
  BY InnermostFacts
<1>2. value \in PlainIn(code)
  BY TableReadValue
<1>3. Updated(ExprIn(code), PlainIn(code), open[1], x, Append(open[1].own, value), open[1].keys)
  BY <1>1, <1>2, ContextUpdated DEF Contexts
<1>4. [open EXCEPT ![1].own = Append(@, value)] = q
  OBVIOUS
<1> HIDE DEF x
<1>5. x \in Contexts(code) /\ KeptAt(open[1], x) /\ x.own = Append(open[1].own, value)
  BY <1>1, <1>3 DEF Updated, Contexts, KeptAt
<1>6. /\ q \in Seq(Contexts(code)) /\ Len(q) = Len(open) /\ q[1] = x
      /\ \A i \in 2 .. Len(open) : q[i] = open[i]
  BY <1>1, <1>5, TopContext
<1> HIDE DEF q
<1>7. OwnedBy(open, q, value)
  BY <1>5, <1>6 DEF OwnedBy
<1>8. QED
  BY <1>4, <1>6, <1>7

(* The innermost construct owns it, those of the other kind are disturbed. *)
LEMMA OwnElementOf ==
  ASSUME NEW S, NEW o \in Seq(S), o # <<>>, NEW q, NEW p, NEW v, NEW K, OwnedBy(o, q, v),
         DisturbedTo(q, p, K), \/ o[1].kind = "call" /\ K = Tables
                               \/ o[1].kind = "elist" /\ K = Calls
  PROVE  /\ Len(p) = Len(o) /\ \A i \in 1 .. Len(o) : KeptAt(o[i], p[i])
         /\ ElementOf(o, p, v, "call", Calls) /\ ElementOf(o, p, v, "elist", Tables)
<1>1. Len(o) \in Nat /\ 1 \in 1 .. Len(o) /\ Len(q) = Len(o) /\ Len(p) = Len(o)
  BY DEF OwnedBy, DisturbedTo
<1>2. ASSUME NEW i \in 1 .. Len(o)
      PROVE  /\ KeptAt(o[i], q[i]) /\ KeptAt(q[i], p[i])
             /\ i = 1 => p[i].own = Append(o[i].own, v)
             /\ i # 1 => p[i].own = o[i].own
             /\ q[i].kind = o[i].kind
  <2>1. i = 1 \/ i \in 2 .. Len(o)
    BY <1>1
  <2>2. KeptAt(o[i], q[i])
    BY <2>1 DEF OwnedBy, KeptAt
  <2>3. QED
    BY <1>1, <2>1, <2>2 DEF OwnedBy, DisturbedTo, KeptAt
<1>3. \A i \in 1 .. Len(o) : KeptAt(o[i], p[i])
  BY <1>2, KeptTrans
<1>4. ASSUME NEW i \in 1 .. Len(o), p[i].clean, o[i].kind \in K, o[i].kind # "indexed"
      PROVE  \E j \in 1 .. i - 1 : o[j].kind \in K
  <2>1. \E j \in 1 .. i - 1 : q[j].kind \in K
    BY <1>1, <1>2, <1>4 DEF DisturbedTo
  <2>2. \A j \in 1 .. i - 1 : j \in 1 .. Len(o)
    BY <1>1
  <2>3. QED
    BY <1>2, <2>1, <2>2
<1>0. /\ K = Tables => o[1].kind \in Calls
      /\ K = Calls => o[1].kind \in Tables
  <2>1. "call" \in Calls /\ "call" \notin Tables /\ "elist" \in Tables /\ "elist" \notin Calls
    BY DEF Calls, Tables
  <2>2. QED
    BY <2>1
<1>5. ElementOf(o, p, v, "call", Calls)
  <2> SUFFICES ASSUME NEW i \in 1 .. Len(o), o[i].kind = "call", p[i].clean
               PROVE  \/ i = 1 /\ p[i].own = Append(o[i].own, v)
                      \/ p[i].own = o[i].own /\ \E j \in 1 .. i - 1 : o[j].kind \in Calls
    BY DEF ElementOf
  <2>1. CASE i = 1
    BY <1>2, <2>1
  <2>2. CASE i # 1
    <3>1. CASE K = Tables
      <4>1. o[1].kind \in Calls /\ 1 \in 1 .. i - 1
        BY <1>0, <1>1, <2>2, <3>1
      <4>2. QED
        BY <1>2, <2>2, <4>1
    <3>2. CASE K = Calls
      BY <1>2, <1>4, <2>2, <3>2 DEF Calls
    <3>3. QED
      BY <3>1, <3>2
  <2>3. QED
    BY <2>1, <2>2
<1>6. ElementOf(o, p, v, "elist", Tables)
  <2> SUFFICES ASSUME NEW i \in 1 .. Len(o), o[i].kind = "elist", p[i].clean
               PROVE  \/ i = 1 /\ p[i].own = Append(o[i].own, v)
                      \/ p[i].own = o[i].own /\ \E j \in 1 .. i - 1 : o[j].kind \in Tables
    BY DEF ElementOf
  <2>1. CASE i = 1
    BY <1>2, <2>1
  <2>2. CASE i # 1
    <3>1. CASE K = Tables
      BY <1>2, <1>4, <2>2, <3>1 DEF Tables
    <3>2. CASE K = Calls
      <4>1. o[1].kind \in Tables /\ 1 \in 1 .. i - 1
        BY <1>0, <1>1, <2>2, <3>2
      <4>2. QED
        BY <1>2, <2>2, <4>1
    <3>3. QED
      BY <3>1, <3>2
  <2>3. QED
    BY <2>1, <2>2
<1>7. QED
  BY <1>1, <1>3, <1>5, <1>6

LEMMA StatementElement ==
  ASSUME NEW o, NEW q, NEW p, NEW v, DisturbedTo(o, q, Tables), DisturbedTo(q, p, Calls)
  PROVE  /\ Len(p) = Len(o) /\ \A i \in 1 .. Len(o) : KeptAt(o[i], p[i])
         /\ ElementOf(o, p, v, "call", Calls) /\ ElementOf(o, p, v, "elist", Tables)
<1>1. Len(q) = Len(o) /\ Len(p) = Len(o)
  BY DEF DisturbedTo
<1>2. ASSUME NEW i \in 1 .. Len(o)
      PROVE  /\ KeptAt(o[i], q[i]) /\ KeptAt(q[i], p[i]) /\ p[i].own = o[i].own
             /\ q[i].kind = o[i].kind /\ (p[i].clean => q[i].clean)
  BY <1>1 DEF DisturbedTo, KeptAt
<1>3. \A i \in 1 .. Len(o) : KeptAt(o[i], p[i])
  BY <1>2, KeptTrans
<1>4. ElementOf(o, p, v, "call", Calls)
  <2> SUFFICES ASSUME NEW i \in 1 .. Len(o), o[i].kind = "call", p[i].clean
               PROVE  p[i].own = o[i].own /\ \E j \in 1 .. i - 1 : o[j].kind \in Calls
    BY DEF ElementOf
  <2>1. q[i].kind \in Calls /\ q[i].kind # "indexed"
    BY <1>2 DEF Calls
  <2>2. \E j \in 1 .. i - 1 : q[j].kind \in Calls
    BY <1>1, <2>1 DEF DisturbedTo
  <2>3. \A j \in 1 .. i - 1 : j \in 1 .. Len(o)
    OBVIOUS
  <2>4. QED
    BY <1>2, <2>2, <2>3
<1>5. ElementOf(o, p, v, "elist", Tables)
  <2> SUFFICES ASSUME NEW i \in 1 .. Len(o), o[i].kind = "elist", p[i].clean
               PROVE  p[i].own = o[i].own /\ \E j \in 1 .. i - 1 : o[j].kind \in Tables
    BY DEF ElementOf
  <2>1. o[i].kind \in Tables /\ o[i].kind # "indexed" /\ q[i].clean
    BY <1>2 DEF Tables
  <2>2. \E j \in 1 .. i - 1 : o[j].kind \in Tables
    BY <2>1 DEF DisturbedTo
  <2>3. QED
    BY <1>2, <2>2
<1>6. QED
  BY <1>1, <1>3, <1>4, <1>5

LEMMA ElementInv ==
  ASSUME ParserInv, StayStrict, Element
  PROVE  /\ ParserInv' /\ Len(open') = Len(open) /\ open \in Seq(Contexts(code))
         /\ open' \in Seq(Contexts(code))
         /\ \A i \in 1 .. Len(open) : KeptAt(open[i], open'[i])
<1> DEFINE owned == [open EXCEPT ![1].own = Append(@, value)]
<1>1. /\ Has("expr") /\ HaveNothing /\ UNCHANGED <<code, functor, hung, errors>>
      /\ lists' = [lists EXCEPT !.param = TopPush(lists.param, value),
                                !.elist = TopAppend(lists.elist, value)]
  BY DEF Element
<1>2. open \in Seq(Contexts(code))
  BY DEF ParserInv, OpenOK
<1>3. \/ In("call") /\ open' = Disturb(owned, Tables)
      \/ In("elist") /\ open' = Disturb(owned, Calls)
      \/ open' = Disturb(Disturb(open, Tables), Calls)
  BY DEF Element
<1> HIDE DEF owned
<1>4. /\ open' \in Seq(Contexts(code)) /\ Len(open') = Len(open)
      /\ \A i \in 1 .. Len(open) : KeptAt(open[i], open'[i])
      /\ ElementOf(open, open', value, "call", Calls)
      /\ ElementOf(open, open', value, "elist", Tables)
  <2>1. CASE In("call") /\ open' = Disturb(owned, Tables)
    <3>1. owned \in Seq(Contexts(code)) /\ OwnedBy(open, owned, value)
      BY <1>1, <2>1, OwnTop DEF owned
    <3>2. open' \in Seq(Contexts(code)) /\ DisturbedTo(owned, open', Tables)
      BY <2>1, <3>1, DisturbedContexts
    <3>3. open # <<>> /\ open[1].kind = "call"
      BY <2>1, InnermostFacts
    <3>4. QED
      BY <1>2, <3>1, <3>2, <3>3, OwnElementOf
  <2>2. CASE In("elist") /\ open' = Disturb(owned, Calls)
    <3>1. owned \in Seq(Contexts(code)) /\ OwnedBy(open, owned, value)
      BY <1>1, <2>2, OwnTop DEF owned
    <3>2. open' \in Seq(Contexts(code)) /\ DisturbedTo(owned, open', Calls)
      BY <2>2, <3>1, DisturbedContexts
    <3>3. open # <<>> /\ open[1].kind = "elist"
      BY <2>2, InnermostFacts
    <3>4. QED
      BY <1>2, <3>1, <3>2, <3>3, OwnElementOf
  <2>3. CASE open' = Disturb(Disturb(open, Tables), Calls)
    <3> DEFINE q == Disturb(open, Tables)
    <3>1. q \in Seq(Contexts(code)) /\ DisturbedTo(open, q, Tables)
      BY <1>2, DisturbedContexts
    <3> HIDE DEF q
    <3>2. open' = Disturb(q, Calls)
      BY <2>3 DEF q
    <3>3. open' \in Seq(Contexts(code)) /\ DisturbedTo(q, open', Calls)
      BY <3>1, <3>2, DisturbedContexts
    <3>4. QED
      BY <3>1, <3>3, StatementElement
  <2>4. QED
    BY <1>3, <2>1, <2>2, <2>3
<1>5. QED
  BY <1>1, <1>2, <1>4, ElementStep

LEMMA SyntaxErrorInv ==
  ASSUME ParserInv, StayStrict, SyntaxError
  PROVE  /\ ParserInv'
         /\ open' = <<>> \/ open'[1].kind = "function"
<1> DEFINE S == Contexts(code)
           P == PlainIn(code)
           E == ExprIn(code)
           k == Min(OpenFunctions)
           rest == IF OpenFunctions = {} THEN <<>> ELSE SubSeq(open, k, Len(open))
<1>1. /\ errors' = errors + 1 /\ UNCHANGED <<code, lists, functor, hung, have, value, tokens>>
      /\ open' = [i \in DOMAIN rest |-> [rest[i] EXCEPT !.clean = FALSE]]
  BY DEF SyntaxError
<1>2. /\ open \in Seq(ContextSet(E, P)) /\ lists \in ListSet(P) /\ ListsOK(open, lists, errors)
      /\ OpenOK(code, open) /\ HaveOK(code, have, value) /\ errors \in Nat /\ functor \in BOOLEAN
      /\ \A i \in 1 .. Len(open) : HeadOK(code, open[i]) /\ KeysOK(open[i])
  BY DEF ParserInv, OpenOK, Contexts
<1>3. errors' # 0 /\ errors' \in Nat
  BY <1>1, <1>2
<1>4. /\ OpenOK(code, open') /\ ListsOK(open', lists, errors')
      /\ open' = <<>> \/ open'[1].kind = "function"
  <2>1. CASE OpenFunctions = {}
    <3>1. open' = <<>>
      BY <1>1, <2>1
    <3>2. ListsOK(<<>>, lists, errors')
      BY <1>2, <1>3, NoneOpen
    <3>3. OpenOK(code, <<>>)
      BY DEF OpenOK
    <3>4. QED
      BY <3>1, <3>2, <3>3
  <2>2. CASE OpenFunctions # {}
    <3>1. k \in 1 .. Len(open) /\ open[k].kind = "function"
      BY <2>2, HereFacts
    <3>2. rest = SubSeq(open, k, Len(open))
      BY <2>2
    <3> HIDE DEF rest, k
    <3>3. DroppedTo(E, P, open, open', k)
      <4>1. /\ DOMAIN open' = DOMAIN rest /\ open' = [i \in DOMAIN open' |-> open'[i]]
            /\ \A i \in DOMAIN rest : open'[i] = [rest[i] EXCEPT !.clean = FALSE]
        BY <1>1
      <4>2. QED
        BY <1>2, <3>1, <3>2, <4>1, DropFacts, ZenonT(60)
    <3>4. ListsOK(open', lists, errors')
      BY <1>2, <1>3, <3>1, <3>3, ErrorLists
    <3>5. open' \in Seq(S)
      BY <3>3 DEF DroppedTo, Contexts
    <3>6. ASSUME NEW i \in 1 .. Len(open') PROVE HeadOK(code, open'[i]) /\ KeysOK(open'[i])
      <4>1. /\ i + (k - 1) \in 1 .. Len(open)
            /\ open'[i].kind = open[i + (k - 1)].kind /\ open'[i].head = open[i + (k - 1)].head
            /\ open'[i].own = open[i + (k - 1)].own /\ open'[i].keys = open[i + (k - 1)].keys
        BY <3>3 DEF DroppedTo
      <4>2. HeadOK(code, open[i + (k - 1)]) /\ KeysOK(open[i + (k - 1)])
        BY <1>2, <4>1
      <4>3. QED
        BY <4>1, <4>2 DEF HeadOK, KeysOK
    <3>7. open'[1].kind = "function"
      <4>1. 1 \in 1 .. Len(open') /\ 1 + (k - 1) = k
        BY <3>1, <3>3 DEF DroppedTo
      <4>2. QED
        BY <3>1, <3>3, <4>1 DEF DroppedTo
    <3>8. QED
      BY <3>4, <3>5, <3>6, <3>7 DEF OpenOK
  <2>3. QED
    BY <2>1, <2>2
<1>5. HaveOK(code, have', value') /\ lists' \in ListSet(P) /\ ListsOK(open', lists', errors')
      /\ functor' \in BOOLEAN
  BY <1>1, <1>2, <1>4
<1>6. QED
  BY <1>1, <1>3, <1>4, <1>5, StillInv

-----------------------------------------------------------------------------
(* Functions begin and end *)

(* b is c with symbols of function f, "this" among them if t.              *)
Formed(c, b, f, t) ==
  /\ CodeOK(b) /\ Grows(c, b) /\ b.quads = c.quads /\ b.functions = c.functions
  /\ \A s \in DOMAIN b.symbols :
       (s \in DOMAIN c.symbols /\ b.symbols[s] = c.symbols[s]) \/ b.symbols[s].in = f
  /\ HasThis(b, f) <=> t

(* No symbol is in f yet. *)
Unformed(c, f) == f \in Nat \ {0} /\ \A s \in DOMAIN c.symbols : c.symbols[s].in # f

LEMMA NoFormals ==
  ASSUME NEW c, CodeOK(c), NEW f, Unformed(c, f)
  PROVE  Formed(c, c, f, FALSE)
BY GrowsTrans DEF Formed, Unformed, HasThis

LEMMA OneFormal ==
  ASSUME NEW c, NEW b, NEW f \in Nat, NEW t \in BOOLEAN, Formed(c, b, f, t), CodeOK(c),
         NEW n \in Int
  PROVE  Formed(c, Declare(b, n, "formal", f), f, t \/ n = This)
<1> DEFINE d == Declare(b, n, "formal", f)
<1>1. CodeOK(b) /\ Grows(c, b) /\ b.quads = c.quads /\ b.functions = c.functions
  BY DEF Formed
<1>2. Declared(b, d, n, "formal", f)
  BY <1>1, DeclareCode
<1> HIDE DEF d
<1>3. /\ CodeOK(d) /\ Grows(b, d) /\ d.quads = b.quads /\ d.functions = b.functions
      /\ Len(d.symbols) = Len(b.symbols) + 1
      /\ \A s \in DOMAIN b.symbols : d.symbols[s] = b.symbols[s]
      /\ d.symbols[Len(d.symbols)].name = n /\ d.symbols[Len(d.symbols)].in = f
  BY <1>2 DEF Declared
<1>4. DOMAIN d.symbols = DOMAIN b.symbols \cup {Len(d.symbols)}
  <2>1. /\ DOMAIN d.symbols = 1 .. Len(d.symbols) /\ DOMAIN b.symbols = 1 .. Len(b.symbols)
        /\ Len(b.symbols) \in Nat
    BY <1>1, <1>3, CodeFields
  <2>2. QED
    BY <1>3, <2>1
<1>5. \A s \in DOMAIN d.symbols :
        (s \in DOMAIN c.symbols /\ d.symbols[s] = c.symbols[s]) \/ d.symbols[s].in = f
  BY <1>3, <1>4 DEF Formed
<1>6. HasThis(d, f) <=> (HasThis(b, f) \/ n = This)
  BY <1>3, <1>4 DEF HasThis
<1>7. Grows(c, d)
  BY <1>1, <1>3, GrowsTrans
<1>8. Formed(c, d, f, t \/ n = This)
  BY <1>1, <1>3, <1>5, <1>6, <1>7 DEF Formed
<1>9. QED
  BY <1>8 DEF d

LEMMA IdListCode ==
  ASSUME CodeOK(code), NEW f, Unformed(code, f), NEW formals \in Formals, functor \in BOOLEAN
  PROVE  Formed(code, IdList(code, f, formals), f, functor /\ formals # <<>>)
<1> DEFINE this == IF functor THEN Declare(code, This, "formal", f) ELSE code
<1>1. f \in Nat /\ Formed(code, code, f, FALSE)
  BY NoFormals DEF Unformed
<1>2. This \in Int /\ This = 0
  BY DEF This
<1>3. Formed(code, this, f, functor)
  <2>1. CASE functor
    <3>1. Formed(code, Declare(code, This, "formal", f), f, FALSE \/ This = This)
      BY <1>1, <1>2, OneFormal
    <3>2. QED
      BY <2>1, <3>1
  <2>2. CASE ~functor
    BY <1>1, <2>2
  <2>3. QED
    BY <2>1, <2>2
<1> HIDE DEF this
<1>4. CASE formals = <<>>
  <2>1. IdList(code, f, formals) = code
    BY <1>4 DEF IdList
  <2>2. QED
    BY <1>1, <1>4, <2>1
<1>5. CASE formals # <<>>
  <2>1. PICK n \in Names : formals = <<n>>
    BY <1>5 DEF Formals
  <2>2. formals[1] = n /\ n \in Int /\ n # This
    BY <1>2, <2>1, ExpressionsAssumption
  <2>3. IdList(code, f, formals) = Declare(this, n, "formal", f)
    BY <1>5, <2>2, Zenon DEF IdList, this
  <2>4. Formed(code, Declare(this, n, "formal", f), f, functor \/ n = This)
    BY <1>1, <1>3, <2>2, OneFormal
  <2>5. (functor \/ n = This) = (functor /\ formals # <<>>)
    BY <1>5, <2>2
  <2>6. QED
    BY <2>3, <2>4, <2>5
<1>6. QED
  BY <1>4, <1>5

(* d is b with one more function, n formals, that has begun.               *)
Begun(b, d, n) ==
  /\ CodeOK(d) /\ Grows(b, d) /\ d.symbols = b.symbols
  /\ Len(d.functions) = Len(b.functions) + 1
  /\ d.functions[Len(d.functions)].formals = n

LEMMA BeginCode ==
  ASSUME NEW b, CodeOK(b), NEW f, f = Len(b.functions) + 1, NEW n \in Nat
  PROVE  Begun(b, Emit([b EXCEPT !.functions = Append(b.functions, [formals |-> n, total_locals |-> 0])],
                       <<Quad("func_start", User(f), None, None)>>), n)
<1> DEFINE q == Quad("func_start", User(f), None, None)
           x == [formals |-> n, total_locals |-> 0]
           c == [b EXCEPT !.functions = Append(b.functions, x)]
           d == Emit(c, <<q>>)
<1>1. /\ b \in [quads : Seq(QuadIn(b)), symbols : Seq(SymbolSet), functions : Seq(FunctionSet)]
      /\ b.quads \in Seq(QuadIn(b)) /\ b.symbols \in Seq(SymbolSet)
      /\ b.functions \in Seq(FunctionSet) /\ Len(b.functions) \in Nat
      /\ DOMAIN b.functions = 1 .. Len(b.functions)
      /\ DOMAIN b.quads = 1 .. Len(b.quads) /\ Len(b.quads) \in Nat
  BY CodeFields DEF CodeOK, CodeIn
<1>2. x \in FunctionSet /\ x.formals = n
  BY DEF FunctionSet
<1> HIDE DEF x
<1>3. /\ Append(b.functions, x) \in Seq(FunctionSet)
      /\ Len(Append(b.functions, x)) = f /\ Append(b.functions, x)[f] = x
  BY <1>1, <1>2, AppendProperties
<1>4. c = [quads |-> b.quads, symbols |-> b.symbols, functions |-> Append(b.functions, x)]
  <2> DEFINE y == Append(b.functions, x)
  <2>1. c = [b EXCEPT !.functions = y]
    OBVIOUS
  <2> HIDE DEF y, c
  <2>2. b \in [quads : Seq(QuadIn(b)), symbols : Seq(SymbolSet), functions : Seq(FunctionSet)]
    BY <1>1
  <2>3. c = [quads |-> b.quads, symbols |-> b.symbols, functions |-> y]
    BY <2>1, <2>2, CodeUpdates, Zenon
  <2>4. QED
    BY <2>3 DEF y
<1> HIDE DEF c
<1>5. c \in [quads : Seq(QuadIn(b)), symbols : Seq(SymbolSet), functions : Seq(FunctionSet)]
  BY <1>1, <1>3, <1>4
<1>6. d = [quads |-> c.quads \o <<q>>, symbols |-> c.symbols, functions |-> c.functions]
  <2>1. d = [c EXCEPT !.quads = c.quads \o <<q>>]
    BY Zenon DEF Emit
  <2>2. QED
    BY <1>5, <2>1, CodeUpdates, Zenon
<1>7. /\ d.quads = b.quads \o <<q>> /\ d.symbols = b.symbols
      /\ d.functions = Append(b.functions, x)
  <2>1. c.quads = b.quads /\ c.symbols = b.symbols /\ c.functions = Append(b.functions, x)
    BY <1>4
  <2>2. d.quads = c.quads \o <<q>> /\ d.symbols = c.symbols /\ d.functions = c.functions
    BY <1>6
  <2>3. QED
    BY <2>1, <2>2
<1>8. DOMAIN d.functions = 1 .. f /\ f \in Nat /\ f \in DOMAIN d.functions
      /\ DOMAIN b.functions = 1 .. f - 1 /\ Len(d.functions) = f
  <2>1. DOMAIN d.functions = 1 .. f
    BY <1>3, <1>7, LenProperties
  <2>2. QED
    BY <1>1, <1>3, <1>7, <2>1
<1>9. Grows(b, d)
  BY <1>1, <1>7, <1>8, SMTT(40) DEF Grows
<1> HIDE DEF d
<1>10. q \in QuadIn(d) /\ q.op = "func_start" /\ q.result = User(f) /\ q.arg1 = None /\ q.arg2 = None
  <2>1. User(f) \in ExprIn(d) /\ None \in ExprIn(d)
    BY <1>8, ExprKinds, ExprFacts
  <2>2. "func_start" \in Ops
    BY DEF Ops
  <2>3. QED
    BY <2>1, <2>2, QuadKind DEF Quad
<1> HIDE DEF q
<1>11. /\ d.quads \in Seq(QuadIn(d)) /\ Len(d.quads) = Len(b.quads) + 1
       /\ \A i \in 1 .. Len(b.quads) : d.quads[i] = b.quads[i]
       /\ d.quads[Len(b.quads) + 1] = q /\ DOMAIN d.quads = 1 .. Len(b.quads) + 1
  <2>1. b.quads \in Seq(QuadIn(d))
    BY <1>1, <1>9, SeqGrows
  <2> DEFINE Q == QuadIn(d)
  <2> HIDE DEF Q
  <2>2. b.quads \in Seq(Q) /\ q \in Q
    BY <1>10, <2>1 DEF Q
  <2>3. /\ b.quads \o <<q>> \in Seq(Q) /\ Len(b.quads \o <<q>>) = Len(b.quads) + 1
        /\ \A i \in 1 .. Len(b.quads) : (b.quads \o <<q>>)[i] = b.quads[i]
        /\ (b.quads \o <<q>>)[Len(b.quads) + 1] = q
        /\ DOMAIN (b.quads \o <<q>>) = 1 .. Len(b.quads) + 1
    BY <2>2
  <2>4. QED
    BY <1>7, <2>3 DEF Q
<1>12. d \in CodeIn(d)
  <2>1. d.functions \in Seq(FunctionSet) /\ d.symbols \in Seq(SymbolSet)
    BY <1>1, <1>3, <1>7
  <2>2. d = [quads |-> d.quads, symbols |-> d.symbols, functions |-> d.functions]
    BY <1>6
  <2>3. QED
    BY <1>11, <2>1, <2>2 DEF CodeIn
<1>13. StartsOK(b) /\ AllStarted(b) /\ OffsetsOK(b)
  BY DEF CodeOK
<1>14. OffsetsOK(d)
  <2>1. \A s : Earlier(d, s) = Earlier(b, s)
    BY <1>7 DEF Earlier
  <2>2. QED
    BY <1>7, <1>13, <2>1 DEF OffsetsOK
<1>15. \A i \in 1 .. Len(b.quads) : \A g : UsesFunction(b.quads[i], g) => g \in DOMAIN b.functions
  <2> SUFFICES ASSUME NEW i \in 1 .. Len(b.quads), NEW g, UsesFunction(b.quads[i], g)
               PROVE  g \in DOMAIN b.functions
    OBVIOUS
  <2>1. b.quads[i] \in QuadIn(b)
    BY <1>1
  <2>2. User(g) \in ExprIn(b)
    BY <2>1 DEF UsesFunction, QuadIn
  <2>3. User(g).type = "user" /\ User(g).val = g
    BY DEF User, Expr
  <2>4. User(g) \in PlainIn(b)
    <3>1. User(g) # None /\ User(g) \notin ItemIn(b)
      BY <2>3, ExprFacts
    <3>2. QED
      BY <2>2, <3>1 DEF ExprIn
  <2>5. QED
    BY <2>3, <2>4 DEF PlainIn
<1>16. AllStarted(d)
  <2> SUFFICES ASSUME NEW g \in DOMAIN d.functions
               PROVE  \E j \in DOMAIN d.quads : Starts(d.quads[j], g)
    BY DEF AllStarted
  <2>1. CASE g = f
    BY <1>1, <1>10, <1>11, <2>1 DEF Starts
  <2>2. CASE g \in DOMAIN b.functions
    <3>1. PICK j \in DOMAIN b.quads : Starts(b.quads[j], g)
      BY <1>13, <2>2 DEF AllStarted
    <3>2. j \in DOMAIN d.quads /\ d.quads[j] = b.quads[j]
      BY <1>1, <1>11
    <3>3. QED
      BY <3>1, <3>2
  <2>3. QED
    BY <1>8, <2>1, <2>2
<1>17. StartsOK(d)
  <2>1. ASSUME NEW i \in DOMAIN d.quads, NEW g \in DOMAIN d.functions, UsesFunction(d.quads[i], g)
        PROVE  \E j \in 1 .. i : Starts(d.quads[j], g)
    <3>1. CASE i \in 1 .. Len(b.quads)
      <4>1. d.quads[i] = b.quads[i]
        BY <1>11, <3>1
      <4>2. g \in DOMAIN b.functions
        BY <1>15, <2>1, <3>1, <4>1
      <4>3. PICK j \in 1 .. i : Starts(b.quads[j], g)
        BY <1>1, <1>13, <2>1, <3>1, <4>1, <4>2 DEF StartsOK
      <4>4. d.quads[j] = b.quads[j]
        BY <1>1, <1>11, <3>1
      <4>5. QED
        BY <4>3, <4>4
    <3>2. CASE i = Len(b.quads) + 1
      <4>1. d.quads[i] = q /\ i \in 1 .. i
        BY <1>1, <1>11, <3>2
      <4>2. User(g) = User(f)
        <5>1. User(g) # None
          BY DEF User, Expr, None
        <5>2. QED
          BY <1>10, <2>1, <4>1, <5>1 DEF UsesFunction
      <4>3. Starts(d.quads[i], g)
        BY <1>10, <4>1, <4>2 DEF Starts
      <4>4. QED
        BY <4>1, <4>3
    <3>3. QED
      BY <1>1, <1>11, <3>1, <3>2
  <2>2. ASSUME NEW i \in DOMAIN d.quads, d.quads[i].op = "func_start"
        PROVE  /\ \E g \in DOMAIN d.functions : Starts(d.quads[i], g)
               /\ d.quads[i].arg1 = None /\ d.quads[i].arg2 = None
    <3>1. CASE i \in 1 .. Len(b.quads)
      <4>1. d.quads[i] = b.quads[i] /\ i \in DOMAIN b.quads
        BY <1>1, <1>11, <3>1
      <4>2. QED
        BY <1>1, <1>8, <1>13, <2>2, <4>1 DEF StartsOK
    <3>2. CASE i = Len(b.quads) + 1
      BY <1>8, <1>10, <1>11, <3>2 DEF Starts
    <3>3. QED
      BY <1>1, <1>11, <3>1, <3>2
  <2>3. ASSUME NEW i \in 1 .. Len(b.quads), b.quads[i].op = "func_start"
        PROVE  b.quads[i].result # User(f)
    <3>1. PICK g \in DOMAIN b.functions : Starts(b.quads[i], g)
      BY <1>1, <1>13, <2>3 DEF StartsOK
    <3>2. b.quads[i].result = User(g) /\ g # f
      BY <1>8, <3>1 DEF Starts
    <3>3. QED
      BY <3>2 DEF User, Expr
  <2>4. ASSUME NEW i \in DOMAIN d.quads, NEW j \in DOMAIN d.quads,
               d.quads[i].op = "func_start", d.quads[j].op = "func_start",
               d.quads[i].result = d.quads[j].result
        PROVE  i = j
    <3>1. \A k \in DOMAIN d.quads : k \in 1 .. Len(b.quads) \/ k = Len(b.quads) + 1
      BY <1>1, <1>11
    <3>2. \A k \in 1 .. Len(b.quads) : d.quads[k] = b.quads[k] /\ k \in DOMAIN b.quads
      BY <1>1, <1>11
    <3>3. CASE i \in 1 .. Len(b.quads) /\ j \in 1 .. Len(b.quads)
      BY <1>13, <2>4, <3>2, <3>3 DEF StartsOK
    <3>4. CASE i = Len(b.quads) + 1 /\ j \in 1 .. Len(b.quads)
      BY <1>10, <1>11, <2>3, <2>4, <3>2, <3>4
    <3>5. CASE j = Len(b.quads) + 1 /\ i \in 1 .. Len(b.quads)
      BY <1>10, <1>11, <2>3, <2>4, <3>2, <3>5
    <3>6. QED
      BY <3>1, <3>3, <3>4, <3>5
  <2>5. QED
    BY <2>1, <2>2, <2>4 DEF StartsOK
<1>18. Begun(b, d, n)
  BY <1>2, <1>3, <1>7, <1>8, <1>9, <1>12, <1>14, <1>16, <1>17 DEF Begun, CodeOK
<1>19. QED
  BY <1>18 DEF d, c, q, x

(* What the beginning of a function makes of "this".                       *)
ThisGiven(formals) ==
  /\ functor' = (functor /\ formals = <<>>)
  /\ HasThis(code', Len(code'.functions)) <=> (functor /\ formals # <<>>)
  /\ Last(code'.functions).formals = Len(formals)

LEMMA FunctionBeginInv ==
  ASSUME ParserInv, StayStrict, FunctionBegin
  PROVE  /\ ParserInv' /\ Len(code'.functions) = Len(code.functions) + 1
         /\ open' # <<>> /\ open'[1].kind = "function"
         /\ \E formals \in Formals : ThisGiven(formals)
<1> DEFINE f == Len(code.functions) + 1
<1>1. PICK formals \in Formals :
        /\ code' = Emit([IdList(code, f, formals) EXCEPT !.functions =
                           Append(@, [formals |-> Len(formals), total_locals |-> 0])],
                        <<Quad("func_start", User(f), None, None)>>)
        /\ open' = <<Context("function", User(f))>> \o open
        /\ functor' = (functor /\ formals = <<>>)
  BY DEF FunctionBegin, Begin
<1>2. /\ UNCHANGED <<lists, hung, have, value, errors>> /\ CodeOK(code) /\ InOK(code)
      /\ functor \in BOOLEAN /\ HaveOK(code, have, value) /\ Len(code.functions) \in Nat
      /\ OpenOK(code, open)
  BY CodeFields DEF FunctionBegin, ParserInv
<1>3. Unformed(code, f)
  BY <1>2 DEF Unformed, InOK
<1> DEFINE b == IdList(code, f, formals)
<1>4. Formed(code, b, f, functor /\ formals # <<>>)
  BY <1>2, <1>3, IdListCode
<1> HIDE DEF b
<1>5. /\ CodeOK(b) /\ Grows(code, b) /\ b.functions = code.functions
      /\ f = Len(b.functions) + 1
  BY <1>4 DEF Formed
<1>6. Len(formals) \in Nat
  BY DEF Formals
<1>7. code' = Emit([b EXCEPT !.functions = Append(b.functions, [formals |-> Len(formals), total_locals |-> 0])],
                   <<Quad("func_start", User(f), None, None)>>)
  BY <1>1 DEF b
<1>8. Begun(b, code', Len(formals))
  BY <1>5, <1>6, <1>7, BeginCode
<1>9. /\ CodeOK(code') /\ Grows(b, code') /\ code'.symbols = b.symbols
      /\ Len(code'.functions) = f /\ code'.functions[f].formals = Len(formals)
  BY <1>5, <1>8 DEF Begun
<1>10. InOK(code')
  <2>1. ASSUME NEW s \in DOMAIN b.symbols PROVE b.symbols[s].in \in 0 .. f
    <3>1. (s \in DOMAIN code.symbols /\ b.symbols[s] = code.symbols[s]) \/ b.symbols[s].in = f
      BY <1>4 DEF Formed
    <3>2. \A r \in DOMAIN code.symbols : code.symbols[r].in \in 0 .. Len(code.functions)
      BY <1>2 DEF InOK
    <3>3. QED
      BY <1>2, <3>1, <3>2
  <2>2. QED
    BY <1>9, <2>1 DEF InOK
<1>11. HasThis(code', Len(code'.functions)) <=> (functor /\ formals # <<>>)
  <2>1. HasThis(code', f) <=> HasThis(b, f)
    BY <1>9 DEF HasThis
  <2>2. HasThis(b, f) <=> (functor /\ formals # <<>>)
    BY <1>4 DEF Formed
  <2>3. QED
    BY <1>9, <2>1, <2>2
<1>12. Last(code'.functions).formals = Len(formals)
  BY <1>9 DEF Last
<1>13. ThisGiven(formals)
  BY <1>1, <1>11, <1>12 DEF ThisGiven
<1>14. Grows(code, code')
  BY <1>5, <1>9, GrowsTrans
<1>15. f \in DOMAIN code'.functions /\ f \in Int
  <2>1. DOMAIN code'.functions = 1 .. Len(code'.functions)
    BY <1>9, CodeFields
  <2>2. QED
    BY <1>2, <1>9, <2>1
<1>16. User(f) \in PlainIn(code') /\ User(f) \in ExprIn(code')
  BY <1>15, ExprKinds, ExprFacts
<1>17. "function" \in Kinds \ (Calls \cup Tables) /\ "function" \in Kinds
  BY DEF Kinds, Calls, Tables
<1>18. HeadOK(code', Context("function", User(f)))
  BY <1>15, <1>16, <1>17, HeadIn
<1>19. HaveOK(code', have', value')
  BY <1>2, <1>14, HaveGrows
<1>20. functor' \in BOOLEAN
  BY <1>1, <1>2
<1> HIDE DEF f
<1>21. ParserInv'
  BY <1>1, <1>2, <1>9, <1>10, <1>14, <1>16, <1>17, <1>18, <1>19, <1>20, BeginStep
<1>22. open' # <<>> /\ open'[1].kind = "function"
  <2>1. Context("function", User(f)) \in Contexts(code') /\ Context("function", User(f)).kind = "function"
    BY <1>16, <1>17, ContextIn
  <2>2. open \in Seq(Contexts(code'))
    <3>1. OpenOK(code', open)
      BY <1>2, <1>14, OpenGrows
    <3>2. QED
      BY <3>1 DEF OpenOK
  <2>3. QED
    BY <1>1, <2>1, <2>2, PushFacts
<1>23. QED
  BY <1>9, <1>13, <1>21, <1>22 DEF f

-----------------------------------------------------------------------------
(* d is c with the locals of a function counted. *)
Counted(c, d) ==
  /\ CodeOK(d) /\ Grows(c, d) /\ d.quads = c.quads /\ d.symbols = c.symbols
  /\ Len(d.functions) = Len(c.functions)

LEMMA CountCode ==
  ASSUME NEW c, CodeOK(c), NEW f \in DOMAIN c.functions, NEW n \in Nat
  PROVE  Counted(c, [c EXCEPT !.functions[f].total_locals = n])
<1> DEFINE d == [c EXCEPT !.functions[f].total_locals = n]
           x == [c.functions[f] EXCEPT !.total_locals = n]
           y == [c.functions EXCEPT ![f] = x]
<1>1. /\ c \in [quads : Seq(QuadIn(c)), symbols : Seq(SymbolSet), functions : Seq(FunctionSet)]
      /\ c.functions \in Seq(FunctionSet) /\ Len(c.functions) \in Nat
      /\ DOMAIN c.functions = 1 .. Len(c.functions)
  BY CodeFields DEF CodeOK, CodeIn
<1>2. d = [c EXCEPT !.functions = y]
  BY <1>1
<1>3. c.functions[f] \in FunctionSet
  BY <1>1
<1>4. x \in FunctionSet
  BY <1>3 DEF FunctionSet
<1> HIDE DEF x
<1>5. y \in Seq(FunctionSet) /\ Len(y) = Len(c.functions) /\ DOMAIN y = DOMAIN c.functions
  BY <1>1, <1>4
<1> HIDE DEF y, d
<1>6. d = [quads |-> c.quads, symbols |-> c.symbols, functions |-> y]
  BY <1>1, <1>2, CodeUpdates, Zenon
<1>7. d.quads = c.quads /\ d.symbols = c.symbols /\ d.functions = y
  BY <1>6
<1>8. Grows(c, d) /\ Grows(d, c)
  BY <1>5, <1>7 DEF Grows
<1>9. CodeIn(d) = CodeIn(c)
  <2>1. QuadIn(c) = QuadIn(d)
    <3>1. QuadIn(c) \subseteq QuadIn(d)
      BY <1>8, ExprGrows
    <3>2. QuadIn(d) \subseteq QuadIn(c)
      BY <1>8, ExprGrows
    <3>3. QED
      BY <3>1, <3>2
  <2>2. QED
    BY <2>1 DEF CodeIn
<1>10. d \in CodeIn(c)
  <2>1. c.quads \in Seq(QuadIn(c)) /\ c.symbols \in Seq(SymbolSet)
    BY CodeFields
  <2>2. QED
    BY <1>5, <1>6, <2>1 DEF CodeIn
<1>11. StartsOK(d) /\ AllStarted(d)
  BY <1>5, <1>7 DEF CodeOK, StartsOK, AllStarted
<1>12. OffsetsOK(d)
  <2>1. \A s : Earlier(d, s) = Earlier(c, s)
    BY <1>7 DEF Earlier
  <2>2. QED
    BY <1>7, <2>1 DEF CodeOK, OffsetsOK
<1>13. Counted(c, d)
  BY <1>5, <1>7, <1>8, <1>9, <1>10, <1>11, <1>12 DEF Counted, CodeOK
<1>14. QED
  BY <1>13 DEF d

LEMMA FunctionEndInv ==
  ASSUME ParserInv, StayStrict, FunctionEnd
  PROVE  ParserInv' /\ Len(code'.functions) = Len(code.functions)
<1> DEFINE h == Innermost.head
           locals == {s \in DOMAIN code.symbols : /\ code.symbols[s].in = h.val
                                                  /\ code.symbols[s].space = "local"}
           n == Cardinality(locals)
           c == [code EXCEPT !.functions[h.val].total_locals = n]
<1>1. /\ code' = Emit(c, <<Quad("func_end", h, None, None)>>)
      /\ Have("function", h) \/ HaveNothing
      /\ In("function") /\ open' = Tail(open) /\ UNCHANGED <<lists, functor, hung, tokens, errors>>
  BY DEF FunctionEnd, End
<1>2. CodeOK(code) /\ InOK(code) /\ functor \in BOOLEAN
  BY DEF ParserInv
<1>3. PICK f \in DOMAIN code.functions : h = User(f)
  BY <1>1, InnermostFacts DEF HeadOK
<1>4. h.val = f /\ f \in Int
  BY <1>2, <1>3, CodeFields DEF User, Expr
<1>5. n \in Nat
  <2>1. DOMAIN code.symbols = 1 .. Len(code.symbols) /\ Len(code.symbols) \in Nat
    BY <1>2, CodeFields
  <2>2. IsFiniteSet(1 .. Len(code.symbols))
    BY <2>1, FS_Interval
  <2>3. IsFiniteSet(locals)
    BY <2>1, <2>2, FS_Subset
  <2>4. QED
    BY <2>3, FS_CardinalityType
<1> HIDE DEF n, h
<1>6. c = [code EXCEPT !.functions[f].total_locals = n]
  BY <1>4
<1> HIDE DEF c
<1>7. Counted(code, c)
  BY <1>2, <1>5, <1>6, CountCode
<1>8. /\ CodeOK(c) /\ Grows(code, c) /\ c.symbols = code.symbols
      /\ Len(c.functions) = Len(code.functions)
  BY <1>7 DEF Counted
<1>9. HereOK(c)
  BY <1>2, <1>8, HereFacts DEF HereOK, InOK
<1>10. h \in PlainIn(c) /\ h \in ExprIn(c) /\ None \in ExprIn(c)
  <2>1. f \in DOMAIN c.functions
    BY <1>8 DEF Grows
  <2>2. QED
    BY <1>3, <1>4, <2>1, ExprKinds, ExprFacts
<1>11. "func_end" \in Ops \ {"func_start"}
  BY DEF Ops
<1>12. Emittable(c, <<Quad("func_end", h, None, None)>>)
  BY <1>10, <1>11, OrdinaryQuad
<1>13. Continues(c, c)
  BY <1>9, ContinuesTrans
<1>14. Continues(c, code')
  BY <1>1, <1>12, <1>13, EmitOn
<1>15. CodeOK(code') /\ InOK(code') /\ Grows(code, code') /\ code'.functions = c.functions
  BY <1>8, <1>14, ContinuesFields, GrowsTrans DEF Continues
<1>16. h \in PlainIn(code')
  BY <1>10, <1>14, ContinuesFields, MoreExprs
<1>17. HaveOK(code', have', value')
  BY <1>1, <1>16, HavePlain, HaveNone DEF HaveNothing, Have
<1>18. "function" \in Kinds \ (Calls \cup Tables) /\ functor' \in BOOLEAN
  BY <1>1, <1>2 DEF Kinds, Calls, Tables
<1>19. ParserInv'
  BY <1>1, <1>15, <1>17, <1>18, EndStep
<1>20. QED
  BY <1>8, <1>15, <1>19

-----------------------------------------------------------------------------
(* "this": functor is set exactly when the value of an element "()" is due *)

StrictInv == strict => (functor <=> MemberDue)

(* What is emitted and declared leaves the functions alone.                *)
SameFunctions(c, d) ==
  {"quads", "symbols", "functions"} \subseteq DOMAIN d /\ d.functions = c.functions

LEMMA KeepFunctions ==
  ASSUME NEW c, {"quads", "symbols", "functions"} \subseteq DOMAIN c, NEW x
  PROVE  /\ SameFunctions(c, [c EXCEPT !.quads = x])
         /\ SameFunctions(c, [c EXCEPT !.symbols = x])
BY DEF SameFunctions

LEMMA EmitFunctions ==
  ASSUME NEW c, NEW d, SameFunctions(c, d), NEW qs
  PROVE  SameFunctions(c, Emit(d, qs))
<1>1. SameFunctions(d, [d EXCEPT !.quads = d.quads \o qs])
  BY KeepFunctions DEF SameFunctions
<1>2. Emit(d, qs) = [d EXCEPT !.quads = d.quads \o qs]
  BY Zenon DEF Emit
<1>3. QED
  BY <1>1, <1>2 DEF SameFunctions

LEMMA DeclareFunctions ==
  ASSUME NEW c, NEW d, SameFunctions(c, d), NEW n
  PROVE  SameFunctions(c, DeclareHere(d, n)) /\ SameFunctions(c, NewTemp(d))
<1>1. ASSUME NEW m, NEW space, NEW f
      PROVE  SameFunctions(c, Declare(d, m, space, f))
  <2> DEFINE x == [name |-> m, space |-> space, in |-> f,
                   offset |-> Cardinality({i \in DOMAIN d.symbols :
                      d.symbols[i].space = space /\ d.symbols[i].in = f})]
  <2>1. Declare(d, m, space, f) = [d EXCEPT !.symbols = Append(d.symbols, x)]
    BY Zenon DEF Declare
  <2> HIDE DEF x
  <2>2. SameFunctions(d, [d EXCEPT !.symbols = Append(d.symbols, x)])
    BY KeepFunctions DEF SameFunctions
  <2>3. QED
    BY <2>1, <2>2 DEF SameFunctions
<1>2. QED
  BY <1>1 DEF DeclareHere, NewTemp

LEMMA FetchFunctions ==
  ASSUME NEW c, NEW d, SameFunctions(c, d), NEW e
  PROVE  SameFunctions(c, Fetch(d, e))
<1>1. SameFunctions(c, NewTemp(d))
  BY DeclareFunctions
<1>2. \A qs : SameFunctions(c, Emit(NewTemp(d), qs))
  BY <1>1, EmitFunctions
<1>3. QED
  BY <1>2 DEF Fetch

LEMMA CodeFunctions ==
  ASSUME ParserInv
  PROVE  SameFunctions(code, code)
<1>1. code = [quads |-> code.quads, symbols |-> code.symbols, functions |-> code.functions]
  BY CodeFields DEF ParserInv
<1>2. DOMAIN code = {"quads", "symbols", "functions"}
  BY <1>1
<1>3. QED
  BY <1>2 DEF SameFunctions

(* Only the beginning of a function makes one.                             *)
LEMMA FunctionsStay ==
  ASSUME ParserInv, \/ Variable \/ Member \/ IndexEnd \/ Primary \/ AssignEnd \/ Increment
                    \/ Minus \/ CallEnd \/ TableEnd
  PROVE  SameFunctions(code, code')
<1>1. SameFunctions(code, code)
  BY CodeFunctions
<1>2. CASE Variable
  BY <1>1, <1>2, DeclareFunctions DEF Variable
<1>3. CASE Member
  BY <1>1, <1>3, FetchFunctions DEF Member
<1>4. CASE IndexEnd
  BY <1>1, <1>4, FetchFunctions DEF IndexEnd
<1>5. CASE Primary
  BY <1>1, <1>5, FetchFunctions DEF Primary
<1>6. CASE AssignEnd
  <2>1. \A qs : SameFunctions(code, Emit(code, qs)) /\ SameFunctions(code, Emit(NewTemp(code), qs))
    BY <1>1, EmitFunctions, DeclareFunctions
  <2>2. \A qs, e : SameFunctions(code, Fetch(Emit(code, qs), e))
    BY <2>1, FetchFunctions
  <2>3. PICK qs, e : code' \in {Fetch(Emit(code, qs), e), Emit(NewTemp(code), qs)}
    BY <1>6 DEF AssignEnd
  <2>4. QED
    BY <2>1, <2>2, <2>3
<1>7. CASE Increment
  <2>1. \A e : SameFunctions(code, Fetch(code, e))
    BY <1>1, FetchFunctions
  <2>2. \A e, qs : /\ SameFunctions(code, Emit(Fetch(code, e), qs))
                   /\ SameFunctions(code, Emit(NewTemp(Fetch(code, e)), qs))
    BY <2>1, EmitFunctions, DeclareFunctions
  <2>3. PICK e, qs : code' \in {Emit(Fetch(code, e), qs), Emit(NewTemp(Fetch(code, e)), qs)}
    BY <1>7, Zenon DEF Increment
  <2>4. QED
    BY <2>2, <2>3
<1>8. CASE Minus
  <2>1. SameFunctions(code, NewTemp(code)) /\ \A qs : SameFunctions(code, Emit(NewTemp(code), qs))
    BY <1>1, DeclareFunctions, EmitFunctions
  <2>2. PICK qs : code' \in {NewTemp(code), Emit(NewTemp(code), qs)}
    BY <1>8 DEF Minus
  <2>3. QED
    BY <2>1, <2>2
<1>9. CASE CallEnd
  <2>1. \A e, qs : SameFunctions(code, Emit(Fetch(code, e), qs))
    BY <1>1, FetchFunctions, EmitFunctions
  <2>2. \A list : SameFunctions(code, CallCode(list))
    BY <2>1, DeclareFunctions DEF CallCode
  <2>3. \A list, qs : SameFunctions(code, Emit(CallCode(list), qs))
    BY <2>2, EmitFunctions
  <2>4. QED
    BY <1>9, <2>3 DEF CallEnd
<1>10. CASE TableEnd
  <2>1. \A qs : SameFunctions(code, Emit(NewTemp(code), qs))
    BY <1>1, DeclareFunctions, EmitFunctions
  <2>2. \A qs, rs : SameFunctions(code, Emit(Emit(NewTemp(code), qs), rs))
    BY <2>1, EmitFunctions
  <2>3. PICK qs, rs : code' \in {Emit(NewTemp(code), qs), Emit(Emit(NewTemp(code), qs), rs)}
    BY <1>10, Zenon DEF TableEnd
  <2>4. QED
    BY <2>1, <2>2, <2>3
<1>11. QED
  BY <1>2, <1>3, <1>4, <1>5, <1>6, <1>7, <1>8, <1>9, <1>10

(* No value of "()" is due after these.                                    *)
LEMMA NotDue ==
  ASSUME \/ have' \in {"expr", "function", "call"}
         \/ have' = "none" /\ (open' = <<>> \/ open'[1].kind \notin {"indexed", "assign"})
  PROVE  ~MemberDue'
BY DEF MemberDue, In, Innermost

LEMMA StrictNotDue ==
  ASSUME StrictInv, StayStrict, ~MemberDue', code'.functions = code.functions,
         functor' = functor
  PROVE  StrictInv'
<1>1. ~FunctionHasBegun
  <2>1. Len(code'.functions) > Len(code.functions) => code'.functions # code.functions
    OBVIOUS
  <2>2. QED
    BY <2>1 DEF FunctionHasBegun
<1>2. strict' => strict /\ ~MemberDue
  BY <1>1 DEF StayStrict
<1>3. QED
  BY <1>2 DEF StrictInv

LEMMA KeyStrict ==
  ASSUME ParserInv, StrictInv, StayStrict, Key
  PROVE  StrictInv'
<1>1. /\ have = "expr" /\ In("indexed") /\ Len(Innermost.keys) = Len(Innermost.own)
      /\ open' = [open EXCEPT ![1].keys = Append(@, value)]
      /\ functor' = (functor \/ value = Parens) /\ have' = "none" /\ UNCHANGED code
  BY DEF Key, Has, KeyExpected, HaveNothing, Have
<1>2. /\ open # <<>> /\ open[1] = Innermost /\ Innermost.kind = "indexed"
      /\ Innermost \in Contexts(code) /\ open \in Seq(Contexts(code)) /\ 1 \in 1 .. Len(open)
  BY <1>1, InnermostFacts
<1>3. value \in PlainIn(code)
  BY <1>1 DEF ParserInv, HaveOK
<1>4. /\ Innermost.keys \in Seq(PlainIn(code)) /\ Innermost.own \in Seq(PlainIn(code))
      /\ Innermost \in [kind : Kinds, head : ExprIn(code), own : Seq(PlainIn(code)),
                        keys : Seq(PlainIn(code)), clean : BOOLEAN]
  BY <1>2 DEF Contexts, ContextSet, Kinds
<1> DEFINE x == [Innermost EXCEPT !.keys = Append(Innermost.keys, value)]
<1>5. x.kind = "indexed" /\ x.keys = Append(Innermost.keys, value) /\ x.own = Innermost.own
  BY <1>2, <1>4
<1>6. open' = [open EXCEPT ![1] = x]
  BY <1>1, <1>2
<1> HIDE DEF x
<1>7. open' # <<>> /\ open'[1] = x
  <2>1. Len(open') = Len(open) /\ open'[1] = x
    BY <1>2, <1>6
  <2>2. QED
    BY <1>2, <2>1
<1>8. /\ Len(x.keys) # Len(x.own) /\ Last(x.keys) = value
  <2>1. /\ Len(Append(Innermost.keys, value)) = Len(Innermost.keys) + 1
        /\ Len(Innermost.keys) \in Nat
        /\ Append(Innermost.keys, value)[Len(Innermost.keys) + 1] = value
    BY <1>3, <1>4
  <2>2. QED
    BY <1>1, <1>5, <2>1 DEF Last
<1>9. MemberDue' <=> value = Parens
  BY <1>1, <1>5, <1>7, <1>8 DEF MemberDue, In, Innermost, KeyExpected
<1>10. ~MemberDue
  BY <1>1 DEF MemberDue
<1>11. strict' => strict
  BY DEF StayStrict
<1>12. QED
  BY <1>1, <1>9, <1>10, <1>11 DEF StrictInv

LEMMA IndexEndStrict ==
  ASSUME ParserInv, StrictInv, StayStrict, IndexEnd
  PROVE  StrictInv'
<1>1. /\ have = "expr" /\ (In("index") \/ In("call index"))
      /\ functor' = (functor \/ (In("index") /\ value = Parens))
      /\ have' = "lvalue"
      /\ value' = Item(Fetched(code, Innermost.head), value)
  BY DEF IndexEnd, Has, Have
<1>2. value'.key = <<value>>
  BY <1>1 DEF Item
<1>3. MemberDue' <=> value = Parens
  <2>1. <<value>> = <<Parens>> <=> value = Parens
    OBVIOUS
  <2>2. have' = "lvalue"
    BY <1>1
  <2>3. MemberDue' <=> value'.key = <<Parens>>
    BY <2>2 DEF MemberDue
  <2>4. QED
    BY <1>2, <2>1, <2>3
<1>4. ~MemberDue
  BY <1>1 DEF MemberDue
<1>5. strict' => strict /\ ~(In("call index") /\ value = Parens)
  BY <1>1 DEF StayStrict
<1>6. QED
  BY <1>1, <1>3, <1>4, <1>5 DEF StrictInv

LEMMA AssignBeginStrict ==
  ASSUME ParserInv, StrictInv, StayStrict, AssignBegin
  PROVE  StrictInv'
<1>1. /\ have = "lvalue" /\ open' = <<Context("assign", value)>> \o open
      /\ have' = "none" /\ functor' = functor
  BY DEF AssignBegin, Has, Begin, HaveNothing, Have
<1>2. Context("assign", value).kind = "assign" /\ Context("assign", value).head = value
  BY DEF Context
<1>3. open' # <<>> /\ open'[1] = Context("assign", value)
  <2>1. open \in Seq(Contexts(code)) /\ value \in ExprIn(code)
    BY DEF ParserInv, OpenOK, HaveOK
  <2>2. "assign" \in Kinds
    BY DEF Kinds
  <2>3. Context("assign", value) \in Contexts(code)
    BY <2>1, <2>2, ContextIn
  <2>4. QED
    BY <1>1, <2>1, <2>3, PushFacts
<1>4. MemberDue' <=> value.key = <<Parens>>
  BY <1>1, <1>2, <1>3 DEF MemberDue, In, Innermost
<1>5. MemberDue <=> value.key = <<Parens>>
  BY <1>1 DEF MemberDue
<1>6. strict' => strict
  BY DEF StayStrict
<1>7. QED
  BY <1>1, <1>4, <1>5, <1>6 DEF StrictInv

LEMMA FunctionBeginStrict ==
  ASSUME ParserInv, StrictInv, StayStrict, FunctionBegin
  PROVE  /\ StrictInv'
         /\ strict' => (HasThis(code', Len(code'.functions)) <=> MemberDue)
<1>1. /\ Len(code'.functions) = Len(code.functions) + 1
      /\ open' # <<>> /\ open'[1].kind = "function"
  BY FunctionBeginInv
<1>2. PICK formals \in Formals : ThisGiven(formals)
  BY FunctionBeginInv
<1>3. have' = "none"
  BY DEF FunctionBegin, Expecting
<1>4. ~MemberDue'
  BY <1>1, <1>3, NotDue
<1>5. Len(formals) > 0 <=> formals # <<>>
  BY DEF Formals
<1>6. strict' => strict /\ (MemberDue => formals # <<>>)
  BY <1>2, <1>4, <1>5 DEF StayStrict, ThisGiven
<1>7. functor' = (functor /\ formals = <<>>)
  BY <1>2 DEF ThisGiven
<1>8. HasThis(code', Len(code'.functions)) <=> (functor /\ formals # <<>>)
  BY <1>2 DEF ThisGiven
<1>9. strict' => (functor <=> MemberDue)
  BY <1>6 DEF StrictInv
<1>10. StrictInv'
  BY <1>4, <1>6, <1>7, <1>9 DEF StrictInv
<1>11. QED
  BY <1>6, <1>8, <1>9, <1>10

(* The rest: no value of "()" is due afterwards.                           *)
LEMMA ReadStrict ==
  ASSUME ParserInv, StrictInv, StayStrict,
         \/ Constant \/ FunctionName \/ Variable \/ Member \/ Primary \/ AssignEnd
         \/ Increment \/ Minus \/ CallEnd \/ TableEnd
  PROVE  StrictInv'
<1>1. functor' = functor
  BY DEF Constant, FunctionName, Variable, Member, Primary, AssignEnd, Increment, Minus,
         CallEnd, TableEnd
<1>2. code'.functions = code.functions
  <2>1. CASE Constant \/ FunctionName
    BY <2>1 DEF Constant, FunctionName
  <2>2. CASE ~(Constant \/ FunctionName)
    BY <2>2, FunctionsStay DEF SameFunctions
  <2>3. QED
    BY <2>1, <2>2
<1>3. ~MemberDue'
  <2>1. CASE Variable
    <3>1. have' = "lvalue" /\ value'.key = <<>>
      BY <2>1 DEF Variable, Have, Var, Newest, Expr
    <3>2. QED
      BY <3>1 DEF MemberDue
  <2>2. CASE Member
    <3>1. PICK n \in Names : have' = "lvalue" /\ value' = Item(Fetched(code, value), Str(n))
      BY <2>2 DEF Member, Have
    <3>2. value'.key = <<Str(n)>>
      BY <3>1 DEF Item
    <3>3. Str(n) # Parens
      BY ExpressionsAssumption DEF Parens, Str, Expr
    <3>4. QED
      BY <3>1, <3>2, <3>3 DEF MemberDue
  <2>3. CASE ~Variable /\ ~Member
    <3>1. have' \in {"expr", "function", "call"}
      BY <2>3, Zenon DEF Constant, FunctionName, Primary, AssignEnd, Increment, Minus,
             CallEnd, TableEnd, Have
    <3>2. QED
      BY <3>1, NotDue
  <2>4. QED
    BY <2>1, <2>2, <2>3
<1>4. QED
  BY <1>1, <1>2, <1>3, StrictNotDue

LEMMA PushTop ==
  ASSUME NEW S, NEW o \in Seq(S), NEW y \in S
  PROVE  (<<y>> \o o)[1] = y
OBVIOUS

LEMMA BeginStrict ==
  ASSUME ParserInv, StrictInv, StayStrict, IndexBegin \/ CallBegin
  PROVE  StrictInv'
<1>1. PICK kind \in {"index", "call index", "call"} : open' = <<Context(kind, value)>> \o open
  BY DEF IndexBegin, CallBegin, Begin
<1>2. open \in Seq(Contexts(code)) /\ value \in ExprIn(code)
  BY DEF ParserInv, OpenOK, HaveOK
<1> DEFINE x == Context(kind, value)
<1>3. x \in Contexts(code) /\ x.kind = kind
  <2>1. kind \in Kinds
    BY DEF Kinds
  <2>2. QED
    BY <1>2, <2>1, ContextIn
<1>4. open'[1] = x
  <2>2. (<<x>> \o open)[1] = x
    BY <1>2, <1>3, PushTop
  <2>3. QED
    BY <1>1, <2>2
<1> HIDE DEF x
<1>5. have' = "none" /\ functor' = functor /\ code' = code
  BY DEF IndexBegin, CallBegin, HaveNothing, Have
<1>6. ~MemberDue'
  BY <1>3, <1>4, <1>5, NotDue
<1>7. QED
  BY <1>5, <1>6, StrictNotDue

LEMMA TableBeginStrict ==
  ASSUME ParserInv, StrictInv, StayStrict, TableBegin
  PROVE  StrictInv'
<1>1. PICK kind \in Tables : open' = <<Context(kind, None)>> \o open
  BY DEF TableBegin, Begin
<1>2. open \in Seq(Contexts(code)) /\ None \in ExprIn(code) /\ kind \in Kinds
  BY ExprFacts DEF ParserInv, OpenOK, Tables, Kinds
<1> DEFINE x == Context(kind, None)
<1>3. x \in Contexts(code) /\ x.kind = kind /\ x.own = <<>> /\ x.keys = <<>>
  BY <1>2, ContextIn
<1>4. open'[1] = x
  BY <1>1, <1>2, <1>3, PushFacts
<1> HIDE DEF x
<1>5. UNCHANGED <<have, functor, code>> /\ have = "none"
  BY DEF TableBegin, Expecting
<1>6. ~MemberDue'
  BY <1>3, <1>4, <1>5 DEF MemberDue, In, Innermost, KeyExpected, Tables
<1>7. QED
  BY <1>5, <1>6, StrictNotDue

LEMMA ElementValueStrict ==
  ASSUME ParserInv, StrictInv, StayStrict, ElementValue
  PROVE  StrictInv'
<1>1. /\ have = "expr" /\ In("indexed") /\ Len(Innermost.keys) # Len(Innermost.own)
      /\ open' = [open EXCEPT ![1].own = Append(@, value)]
      /\ functor' = functor /\ have' = "none" /\ UNCHANGED code
  BY DEF ElementValue, Has, KeyExpected, HaveNothing, Have
<1>2. /\ open # <<>> /\ open[1] = Innermost /\ Innermost.kind = "indexed" /\ KeysOK(Innermost)
      /\ Innermost \in Contexts(code) /\ open \in Seq(Contexts(code)) /\ 1 \in 1 .. Len(open)
  BY <1>1, InnermostFacts
<1>3. value \in PlainIn(code)
  BY <1>1 DEF ParserInv, HaveOK
<1>4. /\ Innermost.keys \in Seq(PlainIn(code)) /\ Innermost.own \in Seq(PlainIn(code))
      /\ Innermost \in [kind : Kinds, head : ExprIn(code), own : Seq(PlainIn(code)),
                        keys : Seq(PlainIn(code)), clean : BOOLEAN]
  BY <1>2 DEF Contexts, ContextSet, Kinds
<1> DEFINE x == [Innermost EXCEPT !.own = Append(Innermost.own, value)]
<1>5. x.kind = "indexed" /\ x.own = Append(Innermost.own, value) /\ x.keys = Innermost.keys
  BY <1>2, <1>4
<1>6. open' = [open EXCEPT ![1] = x]
  BY <1>1, <1>2
<1> HIDE DEF x
<1>7. open'[1] = x
  BY <1>2, <1>6
<1>8. Len(x.keys) = Len(x.own)
  <2>1. Len(Append(Innermost.own, value)) = Len(Innermost.own) + 1
    BY <1>3, <1>4
  <2>2. Len(Innermost.keys) = Len(Innermost.own) + 1
    BY <1>1, <1>2 DEF KeysOK
  <2>3. QED
    BY <1>5, <2>1, <2>2
<1>9. ~MemberDue'
  BY <1>1, <1>5, <1>7, <1>8 DEF MemberDue, In, Innermost, KeyExpected
<1>10. QED
  BY <1>1, <1>9, StrictNotDue

LEMMA ElementStrict ==
  ASSUME ParserInv, StrictInv, StayStrict, Element
  PROVE  StrictInv'
<1>1. have' = "none" /\ functor' = functor /\ code' = code
  BY DEF Element, HaveNothing, Have
<1>2. open = <<>> \/ open[1].kind \in {"call", "elist", "function"}
  BY DEF Element, In, Innermost, Statement
<1>3. /\ Len(open') = Len(open) /\ open \in Seq(Contexts(code)) /\ open' \in Seq(Contexts(code))
      /\ \A i \in 1 .. Len(open) : KeptAt(open[i], open'[i])
  BY ElementInv
<1>4. open' = <<>> \/ open'[1].kind \in {"call", "elist", "function"}
  <2>1. CASE open = <<>>
    <3>1. Len(open') = 0
      BY <1>3, <2>1
    <3>2. QED
      BY <1>3, <3>1
  <2>2. CASE open # <<>>
    <3>1. 1 \in 1 .. Len(open)
      BY <1>3, <2>2
    <3>2. open'[1].kind = open[1].kind
      BY <1>3, <3>1 DEF KeptAt
    <3>3. QED
      BY <1>2, <2>2, <3>2
  <2>3. QED
    BY <2>1, <2>2
<1>5. ~MemberDue'
  BY <1>1, <1>4, NotDue
<1>6. QED
  BY <1>1, <1>5, StrictNotDue

LEMMA StatementEndStrict ==
  ASSUME ParserInv, StrictInv, StayStrict, StatementEnd
  PROVE  StrictInv'
<1>1. /\ have' = "none" /\ UNCHANGED <<code, functor, open>>
      /\ open = <<>> \/ open[1].kind = "function"
  BY DEF StatementEnd, HaveNothing, Have, Statement
<1>2. ~MemberDue'
  BY <1>1, NotDue
<1>3. QED
  BY <1>1, <1>2, StrictNotDue

LEMMA SyntaxErrorStrict ==
  ASSUME ParserInv, StrictInv, StayStrict, SyntaxError
  PROVE  StrictInv'
<1>1. have' = "none" /\ UNCHANGED <<code, functor>>
  BY DEF SyntaxError, Expecting
<1>2. open' = <<>> \/ open'[1].kind = "function"
  BY SyntaxErrorInv
<1>3. ~MemberDue'
  BY <1>1, <1>2, NotDue
<1>4. QED
  BY <1>1, <1>3, StrictNotDue

LEMMA FunctionEndStrict ==
  ASSUME ParserInv, StrictInv, StayStrict, FunctionEnd
  PROVE  StrictInv'
<1>1. functor' = functor /\ open' = Tail(open)
  BY DEF FunctionEnd, End
<1>2. have' = "function" \/ (have' = "none" /\ (open' = <<>> \/ open'[1].kind = "function"))
  BY <1>1 DEF FunctionEnd, Have, HaveNothing, Statement
<1>3. ~MemberDue'
  BY <1>2, NotDue
<1>4. ~FunctionHasBegun
  <2>1. Len(code'.functions) = Len(code.functions) /\ Len(code.functions) \in Nat
    BY FunctionEndInv, CodeFields DEF ParserInv
  <2>2. QED
    BY <2>1 DEF FunctionHasBegun
<1>5. strict' => strict /\ ~MemberDue
  BY <1>3, <1>4 DEF StayStrict
<1>6. QED
  BY <1>1, <1>3, <1>5 DEF StrictInv

-----------------------------------------------------------------------------
(* A step of the parser *)

PInv == ParserInv /\ StrictInv

LEMMA ParseInit == Init => PInv
<1> SUFFICES ASSUME Init PROVE PInv
  OBVIOUS
<1>1. /\ code = [quads |-> <<>>, symbols |-> <<>>, functions |-> <<>>]
      /\ lists = [param |-> <<>>, elist |-> <<>>, indexed |-> <<>>, values |-> <<>>]
      /\ functor = FALSE /\ hung = FALSE /\ open = <<>> /\ have = "none" /\ value = None
      /\ errors = 0 /\ strict = TRUE
  BY DEF Init
<1>2. code.quads = <<>> /\ code.symbols = <<>> /\ code.functions = <<>>
  BY <1>1
<1>3. CodeOK(code)
  <2>1. code \in CodeIn(code)
    BY <1>1, <1>2 DEF CodeIn
  <2>2. StartsOK(code) /\ AllStarted(code) /\ OffsetsOK(code)
    BY <1>2 DEF StartsOK, AllStarted, OffsetsOK
  <2>3. QED
    BY <2>1, <2>2 DEF CodeOK
<1>4. InOK(code)
  BY <1>2 DEF InOK
<1>5. OpenOK(code, open) /\ HaveOK(code, have, value)
  BY <1>1, HaveNone DEF OpenOK
<1>6. lists \in ListSet(PlainIn(code))
  BY <1>1 DEF ListSet
<1>7. ListsOK(open, lists, errors)
  <2>1. /\ Rank(open, Calls, Len(open)) = 0 /\ Rank(open, Tables, Len(open)) = 0
        /\ Len(open) = 0
    BY <1>1, RankStep
  <2>2. /\ Len(lists.param) = 0 /\ Len(lists.elist) = 0 /\ Len(lists.indexed) = 0
        /\ Len(lists.values) = 0
    BY <1>1
  <2>3. QED
    BY <2>1, <2>2 DEF ListsOK, Sized
<1>8. ParserInv
  BY <1>1, <1>3, <1>4, <1>5, <1>6, <1>7 DEF ParserInv
<1>9. StrictInv
  BY <1>1 DEF StrictInv, MemberDue, In
<1>10. QED
  BY <1>8, <1>9 DEF PInv

LEMMA ParseStep ==
  ASSUME PInv, Parse
  PROVE  PInv'
<1>1. ParserInv /\ StrictInv /\ StayStrict
  BY DEF PInv, Parse
<1>2. ParserInv'
  <2>1. CASE Constant \/ FunctionName \/ Variable \/ Member
    BY <1>1, <2>1, ConstantInv, FunctionNameInv, VariableInv, MemberInv
  <2>2. CASE IndexBegin \/ IndexEnd \/ Primary \/ AssignBegin \/ AssignEnd
    BY <1>1, <2>2, IndexBeginInv, IndexEndInv, PrimaryInv, AssignBeginInv, AssignEndInv
  <2>3. CASE Increment \/ Minus \/ StatementEnd \/ Element \/ CallBegin \/ CallEnd
    BY <1>1, <2>3, IncrementInv, MinusInv, StatementEndInv, ElementInv, CallBeginInv, CallEndInv
  <2>4. CASE TableBegin \/ Key \/ ElementValue \/ TableEnd
    BY <1>1, <2>4, TableBeginInv, KeyInv, ElementValueInv, TableEndInv
  <2>5. CASE FunctionBegin \/ FunctionEnd \/ SyntaxError
    BY <1>1, <2>5, FunctionBeginInv, FunctionEndInv, SyntaxErrorInv
  <2>6. QED
    BY <2>1, <2>2, <2>3, <2>4, <2>5, Zenon DEF Parse
<1>3. StrictInv'
  <2>1. CASE \/ Constant \/ FunctionName \/ Variable \/ Member \/ Primary \/ AssignEnd
             \/ Increment \/ Minus \/ CallEnd \/ TableEnd
    BY <1>1, <2>1, ReadStrict
  <2>2. CASE IndexBegin \/ CallBegin
    BY <1>1, <2>2, BeginStrict
  <2>3. CASE IndexEnd \/ AssignBegin \/ StatementEnd \/ Element
    BY <1>1, <2>3, IndexEndStrict, AssignBeginStrict, StatementEndStrict, ElementStrict
  <2>4. CASE TableBegin \/ Key \/ ElementValue
    BY <1>1, <2>4, TableBeginStrict, KeyStrict, ElementValueStrict
  <2>5. CASE FunctionBegin \/ FunctionEnd \/ SyntaxError
    BY <1>1, <2>5, FunctionBeginStrict, FunctionEndStrict, SyntaxErrorStrict
  <2>6. QED
    BY <2>1, <2>2, <2>3, <2>4, <2>5, Zenon DEF Parse
<1>4. QED
  BY <1>2, <1>3 DEF PInv

LEMMA ParseStutters ==
  ASSUME PInv, UNCHANGED vars
  PROVE  PInv'
<1>1. UNCHANGED <<code, lists, functor, hung, open, have, value, tokens, errors, strict>>
  BY DEF vars
<1>2. ParserInv'
  BY <1>1 DEF PInv, ParserInv
<1>3. StrictInv'
  BY <1>1 DEF PInv, StrictInv, MemberDue, In, Innermost, KeyExpected
<1>4. QED
  BY <1>2, <1>3 DEF PInv

-----------------------------------------------------------------------------
(* Functions given this *)

LEMMA OthersBeginNone ==
  ASSUME ParserInv, Parse, ~FunctionBegin
  PROVE  ~FunctionHasBegun
<1>1. StayStrict
  BY DEF Parse
<1>2. Len(code.functions) \in Nat
  BY CodeFields DEF ParserInv
<1>3. CASE FunctionEnd
  <2>1. Len(code'.functions) = Len(code.functions)
    BY <1>1, <1>3, FunctionEndInv
  <2>2. QED
    BY <1>2, <2>1 DEF FunctionHasBegun
<1>4. CASE \/ Variable \/ Member \/ IndexEnd \/ Primary \/ AssignEnd \/ Increment
           \/ Minus \/ CallEnd \/ TableEnd
  <2>1. code'.functions = code.functions
    BY <1>4, FunctionsStay DEF SameFunctions
  <2>2. QED
    BY <1>2, <2>1 DEF FunctionHasBegun
<1>5. CASE \/ Constant \/ FunctionName \/ IndexBegin \/ AssignBegin \/ StatementEnd
           \/ Element \/ CallBegin \/ TableBegin \/ Key \/ ElementValue \/ SyntaxError
  <2>1. code' = code
    BY <1>5 DEF Constant, FunctionName, IndexBegin, AssignBegin, StatementEnd,
           Element, CallBegin, TableBegin, Key, ElementValue, SyntaxError
  <2>2. QED
    BY <1>2, <2>1 DEF FunctionHasBegun
<1>6. QED
  BY <1>3, <1>4, <1>5, Zenon DEF Parse

LEMMA ThisStep ==
  ASSUME PInv, Parse, FunctionHasBegun, strict'
  PROVE  HasThis(code', Len(code'.functions)) <=> MemberDue
<1>1. ParserInv /\ StrictInv /\ StayStrict /\ FunctionBegin
  BY OthersBeginNone DEF PInv, Parse
<1>2. QED
  BY <1>1, FunctionBeginStrict

-----------------------------------------------------------------------------
(* The elements of calls and of tables *)

(* A part of a sequence. *)
LEMMA PartOf ==
  ASSUME NEW S, NEW s \in Seq(S), NEW t \in Seq(S), NEW k \in Nat, k + Len(t) <= Len(s),
         \A i \in 1 .. Len(t) : s[k + i] = t[i]
  PROVE  SubSeq(s, k + 1, k + Len(t)) = t
<1> DEFINE p == SubSeq(s, k + 1, k + Len(t))
<1>1. Len(t) \in Nat /\ Len(s) \in Nat
  OBVIOUS
<1>2. \A i \in k + 1 .. k + Len(t) : s[i] \in S
  BY <1>1
<1>3. p \in Seq(S) /\ Len(p) = Len(t) /\ \A i \in 1 .. Len(t) : p[i] = s[k + i]
  <2>1. SubSeq(s, k + 1, k + Len(t)) \in Seq(S)
    BY <1>1, <1>2, SubSeqProperties
  <2>2. Len(SubSeq(s, k + 1, k + Len(t))) = Len(t)
    BY <1>1
  <2>3. \A i \in 1 .. Len(t) : SubSeq(s, k + 1, k + Len(t))[i] = s[k + i]
    BY <1>1
  <2>4. QED
    BY <2>1, <2>2, <2>3
<1> HIDE DEF p
<1>4. p = t
  BY <1>3, SeqEqual
<1>5. QED
  BY <1>4 DEF p

(* c is a, with b behind it. *)
Joined(S, a, b, c) ==
  /\ c \in Seq(S) /\ Len(c) = Len(a) + Len(b) /\ Len(a) \in Nat /\ Len(b) \in Nat
  /\ \A i \in 1 .. Len(a) : c[i] = a[i]
  /\ \A i \in 1 .. Len(b) : c[Len(a) + i] = b[i]

LEMMA ConcatParts ==
  ASSUME NEW S, NEW a \in Seq(S), NEW b \in Seq(S)
  PROVE  Joined(S, a, b, a \o b)
BY DEF Joined

LEMMA SuffixOf ==
  ASSUME NEW S, NEW a \in Seq(S), NEW b \in Seq(S)
  PROVE  SubSeq(a \o b, Len(a) + 1, Len(a \o b)) = b
<1> DEFINE c == a \o b
<1>1. Joined(S, a, b, c)
  BY ConcatParts
<1> HIDE DEF c
<1>2. /\ c \in Seq(S) /\ Len(c) = Len(a) + Len(b) /\ Len(a) \in Nat /\ Len(b) \in Nat
      /\ \A i \in 1 .. Len(b) : c[Len(a) + i] = b[i]
  BY <1>1 DEF Joined
<1>3. SubSeq(c, Len(a) + 1, Len(a) + Len(b)) = b
  BY <1>2, PartOf
<1>4. QED
  BY <1>2, <1>3 DEF c

(* The quads of a call, as the property reads them. *)
LEMMA CallOfOwn ==
  ASSUME NEW Q, NEW qs, NEW own, NEW list, CallQuads(Q, qs, list), Params(list) \in Seq(Q),
         Len(Params(list)) = Len(own), Len(own) \in Nat
  PROVE  LET n == Len(qs) - 2
             m == n - Len(own)
         IN /\ SubSeq(qs, m + 1, n) = Params(list)
            /\ \A i \in DOMAIN qs \ (m + 1 .. n) : qs[i].op # "param"
<1>1. PICK pre \in Seq(Q), q \in Q, r \in Q :
        /\ \A i \in DOMAIN pre : pre[i].op # "param"
        /\ q.op # "param" /\ r.op # "param"
        /\ qs = (pre \o Params(list)) \o (<<q>> \o <<r>>)
  BY DEF CallQuads
<1> DEFINE ps == Params(list)
           a  == pre \o ps
           b  == <<q>> \o <<r>>
<1>2. ps \in Seq(Q) /\ Len(ps) = Len(own)
  OBVIOUS
<1> HIDE DEF ps
<1>3. /\ a \in Seq(Q) /\ Len(a) = Len(pre) + Len(ps) /\ Len(pre) \in Nat /\ Len(ps) \in Nat
      /\ \A i \in 1 .. Len(pre) : a[i] = pre[i]
      /\ \A i \in 1 .. Len(ps) : a[Len(pre) + i] = ps[i]
  <2>1. Joined(Q, pre, ps, a)
    BY <1>2, ConcatParts
  <2> HIDE DEF a
  <2>2. QED
    BY <2>1 DEF Joined
<1> HIDE DEF a
<1>4. b \in Seq(Q) /\ Len(b) = 2 /\ b[1] = q /\ b[2] = r
  OBVIOUS
<1> HIDE DEF b
<1>5. qs = a \o b
  BY <1>1 DEF a, b, ps
<1>6. /\ qs \in Seq(Q) /\ Len(qs) = Len(a) + 2
      /\ \A i \in 1 .. Len(a) : qs[i] = a[i]
      /\ qs[Len(a) + 1] = q /\ qs[Len(a) + 2] = r
  <2>1. Joined(Q, a, b, qs)
    BY <1>3, <1>4, <1>5, ConcatParts
  <2>2. QED
    BY <1>4, <2>1 DEF Joined
<1>7. /\ Len(qs) - 2 = Len(pre) + Len(ps) /\ Len(qs) - 2 - Len(own) = Len(pre)
  BY <1>2, <1>3, <1>6
<1>8. SubSeq(qs, Len(pre) + 1, Len(pre) + Len(ps)) = ps
  <2>1. \A i \in 1 .. Len(ps) : qs[Len(pre) + i] = ps[i]
    BY <1>3, <1>6
  <2>2. QED
    BY <1>2, <1>3, <1>6, <2>1, PartOf
<1>9. \A i \in 1 .. Len(pre) : qs[i].op # "param"
  BY <1>1, <1>3, <1>6
<1>10. \A i \in DOMAIN qs \ (Len(pre) + 1 .. Len(pre) + Len(ps)) : qs[i].op # "param"
  <2> TAKE i \in DOMAIN qs \ (Len(pre) + 1 .. Len(pre) + Len(ps))
  <2>1. i \in 1 .. Len(pre) \/ i = Len(a) + 1 \/ i = Len(a) + 2
    BY <1>3, <1>6
  <2>2. QED
    BY <1>1, <1>6, <1>9, <2>1
<1>11. QED
  BY <1>7, <1>8, <1>10 DEF ps

(* Which action a construct ends by.                                       *)
LEMMA Closers ==
  ASSUME ParserInv, Parse, NEW kind, Closed(kind)
  PROVE  /\ kind = "call" => CallEnd
         /\ kind \in Tables => TableEnd
<1>1. In(kind) /\ errors' = errors /\ open' = Tail(open) /\ open # <<>> /\ Innermost.kind = kind
  BY DEF Closed, In
<1>2. open \in Seq(Contexts(code)) /\ errors \in Nat /\ StayStrict
  BY DEF ParserInv, OpenOK, Parse
<1>3. Len(open') = Len(open) - 1 /\ Len(open) \in Nat
  BY <1>1, <1>2
<1>4. ~(\/ Constant \/ FunctionName \/ Variable \/ Member \/ Primary \/ Increment \/ Minus
        \/ StatementEnd)
  <2>1. open' # open
    BY <1>3
  <2>2. QED
    BY <2>1 DEF Constant, FunctionName, Variable, Member, Primary, Increment, Minus, StatementEnd
<1>5. ~(IndexBegin \/ AssignBegin \/ CallBegin \/ TableBegin \/ FunctionBegin)
  <2>1. \A k, e : open' # <<Context(k, e)>> \o open
    <3>1. \A x : Len(<<x>> \o open) = Len(open) + 1
      BY <1>2
    <3>2. QED
      BY <1>3, <3>1
  <2>2. QED
    BY <2>1 DEF IndexBegin, AssignBegin, CallBegin, TableBegin, FunctionBegin, Begin
<1>6. ~(Key \/ ElementValue)
  <2>1. \A x : Len([open EXCEPT ![1] = x]) = Len(open)
    BY <1>2
  <2>2. ASSUME Key PROVE FALSE
    <3>1. \E x : open' = [open EXCEPT ![1] = x]
      BY <2>2 DEF Key
    <3>2. QED
      BY <1>3, <2>1, <3>1
  <2>3. ASSUME ElementValue PROVE FALSE
    <3>1. \E x : open' = [open EXCEPT ![1] = x]
      BY <2>3 DEF ElementValue
    <3>2. QED
      BY <1>3, <2>1, <3>1
  <2>4. QED
    BY <2>2, <2>3
<1>7. ~Element
  <2>1. ASSUME Element PROVE FALSE
    <3>1. Len(open') = Len(open)
      BY <1>2, <2>1, ElementInv
    <3>2. QED
      BY <1>3, <3>1
  <2>2. QED
    BY <2>1
<1>8. ~SyntaxError
  BY <1>1, <1>2 DEF SyntaxError
<1>9. IndexEnd \/ AssignEnd \/ CallEnd \/ TableEnd \/ FunctionEnd
  BY <1>4, <1>5, <1>6, <1>7, <1>8, Zenon DEF Parse
<1>10. /\ IndexEnd => kind \in {"index", "call index"}
       /\ AssignEnd => kind = "assign"
       /\ CallEnd => kind = "call"
       /\ TableEnd => kind \in {"elist", "indexed"}
       /\ FunctionEnd => kind = "function"
  BY <1>1 DEF IndexEnd, AssignEnd, CallEnd, TableEnd, FunctionEnd, In
<1>11. QED
  BY <1>9, <1>10 DEF Tables

(* No constructor is hung before the first syntax error.                   *)
LEMMA HungStep ==
  ASSUME ParserInv, Parse, hung'
  PROVE  errors > 0
<1>1. StayStrict /\ hung = FALSE
  BY DEF Parse, ParserInv, Constant, FunctionName, Variable, Member, IndexBegin, IndexEnd,
         Primary, AssignBegin, AssignEnd, Increment, Minus, StatementEnd, Element, CallBegin,
         CallEnd, TableBegin, Key, ElementValue, TableEnd, FunctionBegin, FunctionEnd,
         SyntaxError, TableRead, Has, Expecting, Parsing
<1>2. TableEnd
  BY <1>1 DEF Parse, Constant, FunctionName, Variable, Member, IndexBegin, IndexEnd,
         Primary, AssignBegin, AssignEnd, Increment, Minus, StatementEnd, Element, CallBegin,
         CallEnd, TableBegin, Key, ElementValue, FunctionBegin, FunctionEnd, SyntaxError
<1>3. Len(TableKeys) # Len(TableValues)
  BY <1>1, <1>2, TableEndInv
<1>4. In("elist") \/ In("indexed")
  BY <1>2 DEF TableEnd
<1>5. In("indexed") /\ ~Innermost.clean
  BY <1>1, <1>2, <1>3, <1>4, TableEndInv
<1>6. open[1] = Innermost /\ Innermost.kind = "indexed" /\ 1 \in 1 .. Len(open)
  BY <1>5, InnermostFacts
<1>7. errors = 0 => open[1].clean
  BY <1>6 DEF ParserInv, ListsOK
<1>8. errors \in Nat
  BY DEF ParserInv
<1>9. QED
  BY <1>5, <1>6, <1>7, <1>8

LEMMA CallStepQuads ==
  ASSUME ParserInv, NEW list, NEW d, CallStep(list, d, code')
  PROVE  CallQuads(QuadIn(code'), NewQuads, list)
<1>1. PICK qs \in Seq(QuadIn(code')) :
        code'.quads = code.quads \o qs /\ CallQuads(QuadIn(code'), qs, list)
  BY DEF CallStep
<1>2. Grows(code, code')
  BY ContinuesFields DEF CallStep
<1>3. code.quads \in Seq(QuadIn(code'))
  BY <1>2, SeqGrows, CodeFields DEF ParserInv
<1>4. SubSeq(code.quads \o qs, Len(code.quads) + 1, Len(code.quads \o qs)) = qs
  BY <1>3, SuffixOf
<1>5. NewQuads = qs
  BY <1>1, <1>4 DEF NewQuads
<1>6. QED
  BY <1>1, <1>5

LEMMA ReverseOf ==
  ASSUME NEW P, NEW s \in Seq(P)
  PROVE  Len(Reverse(s)) = Len(s) /\ Len(s) \in Nat
BY DEF Reverse

(* A call. *)
LEMMA OwnCall ==
  ASSUME ParserInv, Parse, Closed("call"), Innermost.clean
  PROVE  LET n == Len(NewQuads) - 2
             m == n - Len(Innermost.own)
         IN /\ SubSeq(NewQuads, m + 1, n) = Params(Reverse(Innermost.own))
            /\ \A i \in DOMAIN NewQuads \ (m + 1 .. n) : NewQuads[i].op # "param"
<1> DEFINE list == Head(lists.param)
           own  == Innermost.own
<1>1. CallEnd /\ StayStrict /\ In("call")
  BY Closers DEF Parse, Closed
<1>2. /\ ParserInv' /\ list \in Seq(PlainIn(code)) /\ list = Reverse(own)
      /\ \E d : CallStep(list, d, code')
  BY <1>1, CallEndInv
<1>3. own \in Seq(PlainIn(code))
  BY <1>1, InnermostFacts DEF Contexts, ContextSet
<1>4. Len(list) = Len(own) /\ Len(own) \in Nat
  BY <1>2, <1>3, ReverseOf
<1> HIDE DEF list, own
<1>5. PICK d : CallStep(list, d, code')
  BY <1>2
<1>6. Grows(code, code')
  BY <1>5, ContinuesFields DEF CallStep
<1>7. CallQuads(QuadIn(code'), NewQuads, list)
  BY <1>5, CallStepQuads
<1>8. list \in Seq(PlainIn(code'))
  BY <1>2, <1>6, SeqGrows
<1>9. Params(list) \in Seq(QuadIn(code')) /\ Len(Params(list)) = Len(own)
  BY <1>4, <1>8, ParamsFacts DEF Emittable
<1> HIDE DEF CallQuads, NewQuads
<1>10. LET n == Len(NewQuads) - 2
           m == n - Len(own)
       IN /\ SubSeq(NewQuads, m + 1, n) = Params(list)
          /\ \A i \in DOMAIN NewQuads \ (m + 1 .. n) : NewQuads[i].op # "param"
  BY <1>4, <1>7, <1>9, CallOfOwn
<1>11. QED
  BY <1>2, <1>10 DEF own

LEMMA TableQuadsTail ==
  ASSUME ParserInv, Grows(code, code'), NEW t, NEW keys, NEW values,
         TableQuads(t, keys, values)
  PROVE  Tail(NewQuads) = SetElems(t, keys, values)
<1>1. PICK q \in QuadIn(code'), qs \in Seq(QuadIn(code')) :
        qs = SetElems(t, keys, values) /\ code'.quads = code.quads \o (<<q>> \o qs)
  BY DEF TableQuads
<1>2. code.quads \in Seq(QuadIn(code'))
  BY SeqGrows, CodeFields DEF ParserInv
<1> DEFINE new == <<q>> \o qs
<1>3. new \in Seq(QuadIn(code')) /\ Tail(new) = qs
  BY PushFacts
<1> HIDE DEF new
<1>4. SubSeq(code.quads \o new, Len(code.quads) + 1, Len(code.quads \o new)) = new
  BY <1>2, <1>3, SuffixOf
<1>5. NewQuads = new
  BY <1>1, <1>4 DEF NewQuads, new
<1>6. QED
  BY <1>1, <1>3, <1>5

(* A table, without keys and with them. *)
LEMMA OwnTable ==
  ASSUME ParserInv, Parse, NEW kind \in Tables, Closed(kind), Innermost.clean
  PROVE  /\ kind = "elist" =>
              Tail(NewQuads) = SetElems(value', [i \in DOMAIN Innermost.own |-> Num(i - 1)],
                                        Innermost.own)
         /\ kind = "indexed" =>
              Tail(NewQuads) = SetElems(value', Innermost.keys, Innermost.own)
<1>1. TableEnd /\ StayStrict /\ In(kind) /\ Innermost.kind = kind
  BY Closers DEF Parse, Closed, In
<1>2. kind = "elist" \/ kind = "indexed"
  BY DEF Tables
<1>3. /\ hung' = (Len(TableKeys) # Len(TableValues)) /\ Grows(code, code')
      /\ ~hung' => TableQuads(value', TableKeys, TableValues)
      /\ In("elist") => Head(lists.elist) = Innermost.own
      /\ In("elist") => Len(TableKeys) = Len(TableValues)
      /\ In("indexed") => /\ TableKeys = Innermost.keys /\ TableValues = Innermost.own
                          /\ Len(TableKeys) = Len(TableValues)
  BY <1>1, TableEndInv
<1>4. TableQuads(value', TableKeys, TableValues)
  BY <1>1, <1>2, <1>3
<1>5. Tail(NewQuads) = SetElems(value', TableKeys, TableValues)
  BY <1>1, <1>4, <1>3, TableQuadsTail
<1>6. kind = "elist" => /\ TableKeys = [i \in DOMAIN Innermost.own |-> Num(i - 1)]
                        /\ TableValues = Innermost.own
  BY <1>1, <1>3 DEF TableKeys, TableValues
<1>7. QED
  BY <1>1, <1>3, <1>5, <1>6

=============================================================================
