------------------------- MODULE SymbolTableProofs -------------------------
(***************************************************************************)
(* Theorems about scopes, symbols and the places of variables, for any set *)
(* of names and any bounds on symbols, depth and blocks.                   *)
(***************************************************************************)
EXTENDS SymbolTable, FiniteSetTheorems, SequenceTheorems, WellFoundedInduction, TLAPS

-----------------------------------------------------------------------------
(* Sets of numbers, and sequences *)

LEMMA NatMin ==
  ASSUME NEW T \in SUBSET Nat, T # {}
  PROVE  \E x \in T : \A y \in T : x <= y
<1> DEFINE R == OpToRel(<, Nat)
<1>1. R = {p \in Nat \X Nat : p[1] < p[2]}
  BY Zenon DEF OpToRel
<1>2. PICK x \in T : \A y \in T : ~ (<<y, x>> \in R)
  BY NatLessThanWellFounded, WFMin
<1> HIDE DEF R
<1>3. ASSUME NEW y \in T PROVE x <= y
  <2>1. <<y, x>> \notin R /\ <<y, x>> \in Nat \X Nat
    BY <1>2
  <2>2. ~(y < x)
    BY <1>1, <2>1
  <2>3. QED
    BY <2>2
<1>4. QED
  BY <1>3

LEMMA MinFacts ==
  ASSUME NEW T \in SUBSET Nat, T # {}
  PROVE  Min(T) \in T /\ \A y \in T : Min(T) <= y
BY NatMin DEF Min

LEMMA MaxFacts ==
  ASSUME NEW n \in Int, NEW T, T \subseteq 0 .. n, T # {}
  PROVE  Max(T) \in T /\ \A y \in T : Max(T) >= y
<1> DEFINE D == {k \in Nat : n - k \in T}
<1>1. D \in SUBSET Nat
  OBVIOUS
<1>2. ASSUME NEW x \in T PROVE n - x \in D /\ x \in Int
  <2>1. x \in 0 .. n
    OBVIOUS
  <2>2. n - x \in Nat /\ n - (n - x) = x
    BY <2>1
  <2>3. QED
    BY <2>1, <2>2
<1>3. D # {}
  BY <1>2
<1>4. PICK d \in D : \A e \in D : d <= e
  BY <1>1, <1>3, NatMin
<1>5. d \in Nat /\ n - d \in T
  BY <1>4
<1>6. ASSUME NEW y \in T PROVE n - d >= y
  <2>1. d <= n - y /\ y \in Int
    BY <1>2, <1>4
  <2>2. QED
    BY <1>5, <2>1
<1>7. \E z \in T : \A y \in T : z >= y
  BY <1>5, <1>6
<1>8. QED
  BY <1>7 DEF Max

LEMMA PushFacts ==
  ASSUME NEW S, NEW s \in Seq(S), NEW x \in S
  PROVE  /\ Push(s, x) \in Seq(S) /\ Len(Push(s, x)) = Len(s) + 1
         /\ Push(s, x) # <<>> /\ Push(s, x)[1] = x
         /\ \A i \in 1 .. Len(s) + 1 : i # 1 => Push(s, x)[i] = s[i - 1]
<1>1. <<x>> \in Seq(S) /\ Len(<<x>>) = 1 /\ <<x>>[1] = x
  OBVIOUS
<1>2. Len(s) \in Nat
  OBVIOUS
<1>3. /\ Push(s, x) \in Seq(S) /\ Len(Push(s, x)) = 1 + Len(s)
      /\ \A i \in 1 .. 1 + Len(s) :
           Push(s, x)[i] = IF i <= 1 THEN <<x>>[i] ELSE s[i - 1]
  BY <1>1, ConcatProperties DEF Push
<1>4. Push(s, x)[1] = x /\ \A i \in 1 .. Len(s) + 1 : i # 1 => Push(s, x)[i] = s[i - 1]
  BY <1>1, <1>2, <1>3
<1>5. Push(s, x) # <<>>
  BY <1>2, <1>3
<1>6. QED
  BY <1>2, <1>3, <1>4, <1>5

LEMMA TailFacts ==
  ASSUME NEW S, NEW s \in Seq(S), s # <<>>
  PROVE  /\ Tail(s) \in Seq(S) /\ Len(Tail(s)) = Len(s) - 1
         /\ \A i \in 1 .. Len(s) - 1 : Tail(s)[i] = s[i + 1]
         /\ Head(s) = s[1] /\ s[1] \in S /\ Len(s) \in Nat /\ Len(s) > 0
<1>1. /\ Tail(s) \in Seq(S) /\ Len(Tail(s)) = Len(s) - 1
      /\ \A i \in 1 .. Len(s) - 1 : Tail(s)[i] = s[i + 1]
  BY HeadTailProperties
<1>2. Head(s) = s[1] /\ Len(s) \in Nat /\ Len(s) > 0
  BY EmptySeq
<1>3. s[1] \in S
  BY <1>2, ElementOfSeq
<1>4. QED
  BY <1>1, <1>2, <1>3

-----------------------------------------------------------------------------
(* The invariant *)

Kinds   == {"block", "params", "function", "ended"}
Labels  == Names \cup {""}
Entries == [kind : Kinds, name : Labels, id : Nat]

(* Blocks and functions by their depth: the outermost is at 0. *)
At(p) == open[Len(open) - p]

(* The open functions, innermost first, and then the program, which is 0.  *)
Fun(j) == IF j \in 1 .. Len(f_scopes_stack) THEN At(f_scopes_stack[j]).id ELSE 0

(* What is open is numbered in falling order, and only the innermost can   *)
(* be at its formals or at its end.                                        *)
OpenInv ==
  /\ open \in Seq(Entries)
  /\ begun \in 0 .. MaxBlocks
  /\ \A i \in 1 .. Len(open) : open[i].id \in 1 .. begun
  /\ \A i, j \in 1 .. Len(open) : i < j => open[i].id > open[j].id
  /\ \A i \in 1 .. Len(open) : open[i].kind \in {"params", "ended"} => i = 1
  /\ \A i \in 1 .. Len(open) : open[i].kind # "block" => open[i].name \in Names
  /\ current_scope = Len(open) /\ current_scope \in 0 .. MaxDepth

(* f_scopes_stack holds the depths of the functions that are open. *)
FunctionInv ==
  /\ f_scopes_stack \in Seq(Nat) /\ Len(f_scopes_stack) <= begun
  /\ \A j, k \in 1 .. Len(f_scopes_stack) :
       j < k => f_scopes_stack[j] > f_scopes_stack[k]
  /\ \A j \in 1 .. Len(f_scopes_stack) : f_scopes_stack[j] < Len(open)
  /\ \A p \in 0 .. Len(open) - 1 :
       At(p).kind # "block" <=>
         \E j \in 1 .. Len(f_scopes_stack) : f_scopes_stack[j] = p
  /\ in_function = (f_scopes_stack # <<>>)
  /\ in_function => function_scope = f_scopes_stack[Len(f_scopes_stack)]
  /\ function_scope \in -1 .. MaxDepth
  /\ scopeSpaceCounter =
       2 * Len(f_scopes_stack) + (IF InParams THEN 0 ELSE 1)

SymbolsInv ==
  /\ symbols \in Seq(Symbols) /\ Len(symbols) <= MaxSymbols
  /\ \A i \in 1 .. Len(symbols) : symbols[i].block <= begun /\ symbols[i].of <= begun
  /\ {programVarOffset, functionLocalOffset, formalArgOffset} \subseteq 0 .. Len(symbols)
  /\ scope_offset_stack \in Seq(0 .. Len(symbols))
  /\ Len(scope_offset_stack) = Len(f_scopes_stack)
  /\ error_flag \in BOOLEAN

BodySpace(n) == IF n = 0 THEN "PROGRAM_VAR" ELSE "FUNCTION_LOCAL"

(* The places that function n has used in a space lie below an offset. *)
Lie(n, space, offset) ==
  \A i \in 1 .. Len(symbols) :
    Holds(i) /\ symbols[i].of = n /\ symbols[i].space = space
      => symbols[i].offset < offset

(* The offset of the current space is above what the current function has  *)
(* used of it, those that are saved above what the functions around have.  *)
PlacesInv ==
  /\ Lie(Fun(1), currScopeSpace, currScopeOffset)
  /\ \A j \in 1 .. Len(scope_offset_stack) :
       Lie(Fun(j + 1), BodySpace(Fun(j + 1)), scope_offset_stack[j])
  /\ InParams => \A i \in 1 .. Len(symbols) :
       Holds(i) /\ symbols[i].of = Fun(1) => symbols[i].space = "FORMAL_ARG"
  /\ \A t \in total_locals :
       /\ t.of \in 1 .. begun /\ \A i \in 1 .. Len(open) : open[i].id # t.of
       /\ Lie(t.of, "FUNCTION_LOCAL", t.n)

IsOpen(b) == b = 0 \/ \E i \in 1 .. Len(open) : open[i].id = b

(* The block around the current one. *)
Outer == IF Len(open) > 1 THEN open[2].id ELSE 0

(* A scope holds the symbols of one block that is open, each name once,    *)
(* and what is open is not hidden.                                         *)
DeclaredInv ==
  /\ \A i \in 1 .. Len(symbols) :
       /\ symbols[i].block = 0 => symbols[i].scope = 0
       /\ \A p \in 0 .. Len(open) - 1 :
            At(p).id = symbols[i].block => symbols[i].scope = p + 1
       /\ IsOpen(symbols[i].block) => symbols[i].isActive
  /\ \A i, j \in 1 .. Len(symbols) :
       /\ symbols[i].name \in Names /\ symbols[j].name = symbols[i].name
       /\ symbols[j].block = symbols[i].block /\ IsOpen(symbols[i].block)
       => i = j
  /\ InParams => \A i \in 1 .. Len(symbols) :
       symbols[i].name = open[1].name => symbols[i].block # Outer
  /\ InParams /\ formalArgOffset = 0 =>
       \A i \in 1 .. Len(symbols) : symbols[i].block # open[1].id

TableInv == OpenInv /\ FunctionInv /\ SymbolsInv /\ PlacesInv /\ DeclaredInv

-----------------------------------------------------------------------------
(* The current place                                                       *)

LEMMA SpaceFacts ==
  ASSUME NEW n \in Nat
  PROVE  /\ SpaceOf(2 * n + 1) = IF n = 0 THEN "PROGRAM_VAR" ELSE "FUNCTION_LOCAL"
         /\ n > 0 => SpaceOf(2 * n) = "FORMAL_ARG"
<1>1. (2 * n + 1) % 2 = 1 /\ (2 * n) % 2 = 0
  OBVIOUS
<1>2. (2 * n + 1 = 1 <=> n = 0) /\ 2 * n # 1
  OBVIOUS
<1> DEFINE m == 2 * n + 1
<1>3. m % 2 # 0 /\ (m = 1 <=> n = 0)
  BY <1>1, <1>2
<1> HIDE DEF m
<1>4. SpaceOf(m) = IF n = 0 THEN "PROGRAM_VAR" ELSE "FUNCTION_LOCAL"
  BY <1>3 DEF SpaceOf
<1> DEFINE k == 2 * n
<1>5. k % 2 = 0 /\ k # 1
  BY <1>1, <1>2
<1> HIDE DEF k
<1>6. SpaceOf(k) = "FORMAL_ARG"
  BY <1>5 DEF SpaceOf
<1>7. QED
  BY <1>4, <1>6 DEF m, k

LEMMA OpenFacts ==
  ASSUME OpenInv
  PROVE  /\ Len(open) \in Nat /\ (open = <<>> <=> Len(open) = 0)
         /\ DOMAIN open = 1 .. Len(open)
         /\ \A i \in 1 .. Len(open) :
              /\ open[i] \in Entries /\ open[i].id \in Nat /\ open[i].kind \in Kinds
              /\ open[i] = At(Len(open) - i) /\ open[i].id # 0
         /\ \A p \in 0 .. Len(open) - 1 :
              /\ Len(open) - p \in 1 .. Len(open) /\ At(p) \in Entries
              /\ At(p) = open[Len(open) - p] /\ At(p).id \in 1 .. begun
         /\ \A p, q \in 0 .. Len(open) - 1 : At(p).id = At(q).id => p = q
<1>1. /\ Len(open) \in Nat /\ (open = <<>> <=> Len(open) = 0)
      /\ DOMAIN open = 1 .. Len(open)
  BY EmptySeq, LenProperties DEF OpenInv
<1>2. ASSUME NEW i \in 1 .. Len(open)
      PROVE  /\ open[i] \in Entries /\ open[i].id \in Nat /\ open[i].kind \in Kinds
             /\ open[i] = At(Len(open) - i) /\ open[i].id # 0
  <2>1. open[i] \in Entries
    BY ElementOfSeq DEF OpenInv
  <2>2. Len(open) - (Len(open) - i) = i
    BY <1>1
  <2>3. open[i] = At(Len(open) - i)
    BY <2>2 DEF At
  <2>4. open[i].id \in 1 .. begun
    BY DEF OpenInv
  <2>5. open[i].id \in Nat /\ open[i].kind \in Kinds
    BY <2>1 DEF Entries
  <2>6. QED
    BY <2>1, <2>3, <2>4, <2>5
<1>3. \A p \in 0 .. Len(open) - 1 : Len(open) - p \in 1 .. Len(open)
  BY <1>1
<1>4. ASSUME NEW p \in 0 .. Len(open) - 1
      PROVE  /\ At(p) \in Entries /\ At(p) = open[Len(open) - p]
             /\ At(p).id \in 1 .. begun
  BY <1>2, <1>3 DEF At, OpenInv
<1>5. ASSUME NEW p \in 0 .. Len(open) - 1, NEW q \in 0 .. Len(open) - 1,
             At(p).id = At(q).id
      PROVE  p = q
  <2> DEFINE i == Len(open) - p
             j == Len(open) - q
  <2>1. i \in 1 .. Len(open) /\ j \in 1 .. Len(open)
    BY <1>3
  <2>2. open[i].id = open[j].id /\ open[i].id \in Nat
    BY <1>2, <1>5, <2>1 DEF At
  <2> HIDE DEF i, j
  <2>3. (i < j => open[i].id > open[j].id) /\ (j < i => open[j].id > open[i].id)
    BY <2>1 DEF OpenInv
  <2>4. ~(i < j) /\ ~(j < i)
    BY <2>2, <2>3
  <2>5. i = j
    BY <1>1, <2>1, <2>4
  <2>6. QED
    BY <1>1, <2>5 DEF i, j
<1>6. QED
  BY <1>1, <1>2, <1>3, <1>4, <1>5

LEMMA FunFacts ==
  ASSUME OpenInv, FunctionInv
  PROVE  /\ Len(f_scopes_stack) \in Nat /\ (f_scopes_stack = <<>> <=> Len(f_scopes_stack) = 0)
         /\ \A j \in 1 .. Len(f_scopes_stack) :
              /\ f_scopes_stack[j] \in 0 .. Len(open) - 1
              /\ Fun(j) = At(f_scopes_stack[j]).id /\ Fun(j) \in 1 .. begun
              /\ At(f_scopes_stack[j]).kind # "block"
         /\ \A j : j \notin 1 .. Len(f_scopes_stack) => Fun(j) = 0
         /\ \A j, k \in Nat : Fun(j) = Fun(k) /\ Fun(j) # 0 => j = k
         /\ \A j, k \in 1 .. Len(f_scopes_stack) :
              f_scopes_stack[j] = f_scopes_stack[k] => j = k
<1>1. /\ Len(f_scopes_stack) \in Nat
      /\ f_scopes_stack = <<>> <=> Len(f_scopes_stack) = 0
  BY EmptySeq, LenProperties DEF FunctionInv
<1>2. ASSUME NEW j \in 1 .. Len(f_scopes_stack)
      PROVE  /\ f_scopes_stack[j] \in 0 .. Len(open) - 1
             /\ Fun(j) = At(f_scopes_stack[j]).id /\ Fun(j) \in 1 .. begun
             /\ At(f_scopes_stack[j]).kind # "block"
  <2>1. f_scopes_stack[j] \in Nat
    BY ElementOfSeq DEF FunctionInv
  <2>2. f_scopes_stack[j] \in 0 .. Len(open) - 1
    BY <2>1, OpenFacts DEF FunctionInv
  <2>3. QED
    BY <2>2, OpenFacts DEF Fun, FunctionInv
<1>3. \A j : j \notin 1 .. Len(f_scopes_stack) => Fun(j) = 0
  BY DEF Fun
<1>4. ASSUME NEW j \in 1 .. Len(f_scopes_stack), NEW k \in 1 .. Len(f_scopes_stack),
             f_scopes_stack[j] = f_scopes_stack[k]
      PROVE  j = k
  <2>1. ~(j < k) /\ ~(k < j)
    BY <1>2, <1>4, SMTT(30) DEF FunctionInv
  <2>2. QED
    BY <1>1, <2>1
<1>5. ASSUME NEW j \in Nat, NEW k \in Nat, Fun(j) = Fun(k), Fun(j) # 0
      PROVE  j = k
  <2>1. j \in 1 .. Len(f_scopes_stack) /\ k \in 1 .. Len(f_scopes_stack)
    BY <1>3, <1>5
  <2>2. PICK p \in 0 .. Len(open) - 1 : p = f_scopes_stack[j]
    BY <1>2, <2>1
  <2>3. PICK q \in 0 .. Len(open) - 1 : q = f_scopes_stack[k]
    BY <1>2, <2>1
  <2>4. At(p).id = At(q).id
    BY <1>2, <1>5, <2>1, <2>2, <2>3
  <2>5. p = q
    BY <2>4, OpenFacts
  <2>6. QED
    BY <1>4, <2>1, <2>2, <2>3, <2>5
<1>6. QED
  BY <1>1, <1>2, <1>3, <1>4, <1>5

(* The innermost function, when nothing is open within it. *)
LEMMA OnTop ==
  ASSUME OpenInv, FunctionInv, Here # "block"
  PROVE  /\ open # <<>> /\ Here = open[1].kind /\ 1 \in 1 .. Len(open)
         /\ 1 \in 1 .. Len(f_scopes_stack) /\ f_scopes_stack # <<>>
         /\ f_scopes_stack[1] = Len(open) - 1 /\ Fun(1) = open[1].id
<1>1. open # <<>> /\ Here = open[1].kind
  BY DEF Here
<1>2. Len(open) \in Nat /\ Len(open) > 0 /\ 1 \in 1 .. Len(open)
  BY <1>1, OpenFacts
<1> DEFINE p == Len(open) - 1
<1>3. p \in 0 .. Len(open) - 1 /\ At(p) = open[1]
  BY <1>2 DEF At
<1>4. PICK j \in 1 .. Len(f_scopes_stack) : f_scopes_stack[j] = p
  BY <1>1, <1>3 DEF FunctionInv
<1>5. 1 \in 1 .. Len(f_scopes_stack) /\ f_scopes_stack # <<>>
  BY <1>4, FunFacts
<1>6. f_scopes_stack[1] \in 0 .. Len(open) - 1 /\ f_scopes_stack[1] >= p
  <2>1. CASE j = 1
    BY <1>3, <1>4, <1>5, <2>1, FunFacts
  <2>2. CASE j # 1
    BY <1>3, <1>4, <1>5, <2>2, FunFacts DEF FunctionInv
  <2>3. QED
    BY <2>1, <2>2
<1>7. f_scopes_stack[1] = Len(open) - 1
  BY <1>2, <1>6
<1>8. QED
  BY <1>1, <1>2, <1>3, <1>5, <1>7, FunFacts

LEMMA CurrentSpace ==
  ASSUME OpenInv, FunctionInv
  PROVE  /\ InParams => Len(f_scopes_stack) > 0
         /\ Fun(1) = 0 <=> Len(f_scopes_stack) = 0
         /\ Fun(1) \in 0 .. begun
         /\ currScopeSpace = IF InParams THEN "FORMAL_ARG" ELSE BodySpace(Fun(1))
         /\ currScopeSpace \in Spaces
<1>1. InParams => Len(f_scopes_stack) > 0
  BY OnTop, FunFacts DEF InParams
<1>2. (Fun(1) = 0 <=> Len(f_scopes_stack) = 0) /\ Fun(1) \in 0 .. begun
  BY FunFacts DEF OpenInv
<1> DEFINE n == Len(f_scopes_stack)
<1>3. n \in Nat
  BY FunFacts
<1>4. scopeSpaceCounter = IF InParams THEN 2 * n ELSE 2 * n + 1
  BY <1>3 DEF FunctionInv
<1> HIDE DEF n
<1>5. currScopeSpace = IF InParams THEN SpaceOf(2 * n) ELSE SpaceOf(2 * n + 1)
  BY <1>4 DEF currScopeSpace
<1>6. currScopeSpace = IF InParams THEN "FORMAL_ARG" ELSE BodySpace(Fun(1))
  BY <1>1, <1>2, <1>3, <1>5, SpaceFacts DEF BodySpace, n
<1>7. QED
  BY <1>1, <1>2, <1>6 DEF BodySpace, Spaces

(* What the parser's stack says of the place is what parser.y counts. *)
LEMMA ReadingFacts ==
  ASSUME OpenInv, FunctionInv
  PROVE  /\ Functions(open) = {Len(open) - f_scopes_stack[j] : j \in 1 .. Len(f_scopes_stack)}
         /\ Functions(open) \subseteq 1 .. Len(open)
         /\ Functions(open) = {} <=> f_scopes_stack = <<>>
         /\ f_scopes_stack # <<>> =>
              /\ Min(Functions(open)) = Len(open) - f_scopes_stack[1]
              /\ Max(Functions(open)) = Len(open) - f_scopes_stack[Len(f_scopes_stack)]
         /\ Reading = Fun(1)
<1> DEFINE F == {Len(open) - f_scopes_stack[j] : j \in 1 .. Len(f_scopes_stack)}
           n == Len(f_scopes_stack)
<1>0. /\ n \in Nat /\ Len(open) \in Nat /\ (f_scopes_stack = <<>> <=> n = 0)
      /\ \A j \in 1 .. n : f_scopes_stack[j] \in 0 .. Len(open) - 1
                           /\ Len(open) - f_scopes_stack[j] \in 1 .. Len(open)
  BY FunFacts, OpenFacts
<1>1. Functions(open) = F
  <2>1. ASSUME NEW i \in Functions(open) PROVE i \in F
    <3>1. i \in 1 .. Len(open) /\ open[i].kind # "block"
      BY OpenFacts DEF Functions
    <3> DEFINE p == Len(open) - i
    <3>2. p \in 0 .. Len(open) - 1 /\ Len(open) - p = i
      BY <1>0, <3>1
    <3>3. PICK j \in 1 .. n : f_scopes_stack[j] = p
      BY <3>1, <3>2 DEF At, FunctionInv
    <3>4. QED
      BY <3>2, <3>3
  <2>2. ASSUME NEW j \in 1 .. n PROVE Len(open) - f_scopes_stack[j] \in Functions(open)
    BY <1>0, FunFacts, OpenFacts DEF Functions
  <2>3. QED
    BY <2>1, <2>2
<1>2. F \subseteq 1 .. Len(open) /\ (F = {} <=> n = 0)
  <2>1. F \subseteq 1 .. Len(open)
    BY <1>0
  <2>2. n = 0 => 1 .. n = {}
    BY <1>0
  <2>3. n # 0 => 1 \in 1 .. n
    BY <1>0
  <2>4. QED
    BY <2>1, <2>2, <2>3
<1>3. ASSUME n # 0
      PROVE  /\ Min(F) = Len(open) - f_scopes_stack[1]
             /\ Max(F) = Len(open) - f_scopes_stack[n]
  <2>1. 1 \in 1 .. n /\ n \in 1 .. n
    BY <1>0, <1>3
  <2>2. Min(F) \in F /\ \A y \in F : Min(F) <= y
    <3>1. F \in SUBSET Nat /\ F # {}
      BY <1>2, <1>3
    <3> HIDE DEF F
    <3>2. QED
      BY <3>1, MinFacts
  <2>3. Max(F) \in F /\ \A y \in F : Max(F) >= y
    <3>1. F \subseteq 0 .. Len(open) /\ F # {} /\ Len(open) \in Int
      BY <1>0, <1>2, <1>3
    <3> HIDE DEF F
    <3>2. QED
      BY <3>1, MaxFacts
  <2>4. \A j \in 1 .. n : f_scopes_stack[1] >= f_scopes_stack[j]
                          /\ f_scopes_stack[j] >= f_scopes_stack[n]
    <3> SUFFICES ASSUME NEW j \in 1 .. n
                 PROVE  f_scopes_stack[1] >= f_scopes_stack[j]
                        /\ f_scopes_stack[j] >= f_scopes_stack[n]
      OBVIOUS
    <3>1. /\ f_scopes_stack[1] \in Nat /\ f_scopes_stack[j] \in Nat
          /\ f_scopes_stack[n] \in Nat
      BY <1>0, <2>1
    <3>2. 1 < j => f_scopes_stack[1] > f_scopes_stack[j]
      BY <2>1 DEF FunctionInv
    <3>3. j < n => f_scopes_stack[j] > f_scopes_stack[n]
      BY <2>1 DEF FunctionInv
    <3>4. (1 < j \/ j = 1) /\ (j < n \/ j = n)
      BY <1>0
    <3>5. QED
      BY <3>1, <3>2, <3>3, <3>4
  <2>5. PICK j \in 1 .. n : Min(F) = Len(open) - f_scopes_stack[j]
    BY <2>2
  <2>6. PICK k \in 1 .. n : Max(F) = Len(open) - f_scopes_stack[k]
    BY <2>3
  <2>7. /\ Min(F) <= Len(open) - f_scopes_stack[1]
        /\ Max(F) >= Len(open) - f_scopes_stack[n]
    BY <2>1, <2>2, <2>3
  <2>8. /\ f_scopes_stack[1] >= f_scopes_stack[j] /\ f_scopes_stack[k] >= f_scopes_stack[n]
        /\ f_scopes_stack[1] \in Nat /\ f_scopes_stack[j] \in Nat
        /\ f_scopes_stack[k] \in Nat /\ f_scopes_stack[n] \in Nat
    BY <1>0, <2>1, <2>4, SMTT(30)
  <2>9. Len(open) \in Nat
    BY <1>0
  <2> HIDE DEF F, n
  <2>10. Min(F) = Len(open) - f_scopes_stack[1]
    BY <2>5, <2>7, <2>8, <2>9
  <2>11. Max(F) = Len(open) - f_scopes_stack[n]
    BY <2>6, <2>7, <2>8, <2>9
  <2>12. QED
    BY <2>10, <2>11
<1>4. Reading = Fun(1)
  <2>1. CASE n = 0
    BY <1>1, <1>2, <2>1, FunFacts DEF Reading
  <2>2. CASE n # 0
    <3>1. 1 \in 1 .. n
      BY <1>0, <2>2
    <3>2. Functions(open) # {} /\ Min(Functions(open)) = Len(open) - f_scopes_stack[1]
      <4> HIDE DEF F, n
      <4>1. QED
        BY <1>1, <1>2, <1>3, <2>2
    <3>3. Reading = open[Len(open) - f_scopes_stack[1]].id
      BY <3>2 DEF Reading
    <3>4. QED
      BY <3>1, <3>3, FunFacts DEF At
  <2>3. QED
    BY <2>1, <2>2
<1>5. QED
  BY <1>0, <1>1, <1>2, <1>3, <1>4

-----------------------------------------------------------------------------
(* Declarations *)

LEMMA SymbolFacts ==
  ASSUME SymbolsInv
  PROVE  /\ Len(symbols) \in Nat /\ DOMAIN symbols = 1 .. Len(symbols)
         /\ \A i \in 1 .. Len(symbols) : symbols[i] \in Symbols
         /\ currScopeOffset \in 0 .. Len(symbols)
         /\ MaxSymbols \in Nat
<1>1. Len(symbols) \in Nat /\ DOMAIN symbols = 1 .. Len(symbols)
  BY LenProperties DEF SymbolsInv
<1>2. \A i \in 1 .. Len(symbols) : symbols[i] \in Symbols
  BY ElementOfSeq DEF SymbolsInv
<1>3. currScopeSpace \in Spaces
  BY DEF currScopeSpace, SpaceOf, Spaces
<1>4. currScopeOffset \in {programVarOffset, functionLocalOffset, formalArgOffset}
  BY <1>3 DEF currScopeOffset, Spaces
<1>5. QED
  BY <1>1, <1>2, <1>4, SymbolTableAssumption DEF SymbolsInv

LEMMA LookFacts ==
  ASSUME SymbolsInv, NEW name, NEW scope
  PROVE  /\ LookScope(name, scope) \in 0 .. Len(symbols)
         /\ LookScope(name, scope) # 0 => LookScope(name, scope) \in Matches(name, scope)
         /\ LookScope(name, scope) # 0 <=> Matches(name, scope) # {}
         /\ Matches(name, scope) \subseteq 1 .. Len(symbols)
<1> DEFINE M == Matches(name, scope)
<1>1. M \subseteq 1 .. Len(symbols) /\ Len(symbols) \in Nat
  BY SymbolFacts DEF Matches
<1> HIDE DEF M
<1>2. CASE M = {}
  BY <1>1, <1>2 DEF LookScope, M
<1>3. CASE M # {}
  <2>1. M \in SUBSET Nat
    BY <1>1
  <2>2. Min(M) \in M
    BY <1>3, <2>1, MinFacts
  <2>3. Min(M) \in 1 .. Len(symbols)
    BY <1>1, <2>2
  <2>4. LookScope(name, scope) = Min(M)
    BY <1>3 DEF LookScope, M
  <2>5. QED
    BY <1>1, <1>3, <2>2, <2>3, <2>4 DEF M
<1>4. QED
  BY <1>2, <1>3

LEMMA BlockFacts ==
  ASSUME OpenInv
  PROVE  /\ Block \in 0 .. begun /\ IsOpen(Block) /\ (Block = 0 <=> open = <<>>)
         /\ Block = 0 => current_scope = 0
         /\ \A p \in 0 .. Len(open) - 1 : At(p).id = Block => p + 1 = current_scope
         /\ open # <<>> => /\ Block = open[1].id /\ Len(open) - 1 \in 0 .. Len(open) - 1
                           /\ At(Len(open) - 1) = open[1] /\ Block # Outer
<1>1. CASE open = <<>>
  BY <1>1, OpenFacts DEF Block, IsOpen, OpenInv
<1>2. CASE open # <<>>
  <2>1. 1 \in 1 .. Len(open) /\ Len(open) - 1 \in 0 .. Len(open) - 1 /\ Len(open) \in Nat
    BY <1>2, OpenFacts
  <2>2. At(Len(open) - 1) = open[1] /\ Block = open[1].id /\ Block \in 1 .. begun
    BY <1>2, <2>1, OpenFacts DEF Block, OpenInv
  <2>3. \A p \in 0 .. Len(open) - 1 : At(p).id = Block => p = Len(open) - 1
    BY <2>1, <2>2, OpenFacts
  <2>4. Block # Outer
    <3>1. CASE Len(open) > 1
      <4>1. 2 \in 1 .. Len(open) /\ open[1].id > open[2].id
        BY <2>1, <3>1 DEF OpenInv
      <4>2. open[1].id \in Nat /\ open[2].id \in Nat
        BY <2>1, <4>1, OpenFacts
      <4>3. QED
        BY <2>2, <3>1, <4>1, <4>2 DEF Outer
    <3>2. CASE ~(Len(open) > 1)
      BY <2>2, <3>2 DEF Outer
    <3>3. QED
      BY <3>1, <3>2
  <2>5. \A p \in 0 .. Len(open) - 1 : At(p).id = Block => p + 1 = current_scope
    BY <2>1, <2>3 DEF OpenInv
  <2>6. QED
    BY <1>2, <2>1, <2>2, <2>4, <2>5 DEF IsOpen
<1>3. QED
  BY <1>1, <1>2

(* A name that is not found in the current scope is not declared in the    *)
(* current block.                                                          *)
LEMMA NotDeclared ==
  ASSUME OpenInv, SymbolsInv, DeclaredInv, NEW name, LookScope(name, current_scope) = 0
  PROVE  \A i \in 1 .. Len(symbols) : symbols[i].name = name => symbols[i].block # Block
<1> SUFFICES ASSUME NEW i \in 1 .. Len(symbols), symbols[i].name = name,
                    symbols[i].block = Block
             PROVE  FALSE
  OBVIOUS
<1>1. symbols[i].isActive
  BY BlockFacts DEF DeclaredInv
<1>2. symbols[i].scope = current_scope
  BY BlockFacts DEF DeclaredInv
<1>3. i \in Matches(name, current_scope)
  BY <1>1, <1>2, SymbolFacts DEF Matches
<1>4. QED
  BY <1>3, LookFacts

LEMMA SameKeeps ==
  ASSUME TableInv, error_flag' \in BOOLEAN,
         UNCHANGED <<symbols, scopes, scopeSpaceCounter, offsets, open, begun, total_locals>>
  PROVE  TableInv'
<1>1. UNCHANGED <<current_scope, in_function, function_scope, f_scopes_stack,
                  programVarOffset, functionLocalOffset, formalArgOffset, scope_offset_stack>>
  BY DEF scopes, offsets
<1>2. Here' = Here /\ InParams' = InParams /\ \A p : At(p)' = At(p)
  BY DEF Here, InParams, At
<1>3. OpenInv' /\ FunctionInv' /\ SymbolsInv'
  BY <1>1, <1>2 DEF TableInv, OpenInv, FunctionInv, SymbolsInv
<1>4. /\ \A j : Fun(j)' = Fun(j)
      /\ \A n, space, offset : Lie(n, space, offset)' = Lie(n, space, offset)
      /\ currScopeSpace' = currScopeSpace /\ currScopeOffset' = currScopeOffset
  BY <1>1, <1>2 DEF Fun, Lie, Holds, currScopeSpace, currScopeOffset
<1>5. PlacesInv'
  BY <1>1, <1>2, <1>4 DEF TableInv, PlacesInv, Holds
<1>6. DeclaredInv'
  BY <1>1, <1>2 DEF TableInv, DeclaredInv, IsOpen, Outer
<1>7. QED
  BY <1>3, <1>5, <1>6 DEF TableInv

LEMMA DeclareKeeps ==
  ASSUME TableInv, NEW name \in Names \cup {"$temp"}, NEW type \in {"VAR_S", "TEMP_VAR_S"},
         Declare(Symbol(name, type)), NoChange, UNCHANGED error_flag,
         name \in Names =>
           \A i \in 1 .. Len(symbols) : symbols[i].name = name => symbols[i].block # Block
  PROVE  TableInv'
<1> DEFINE n == Len(symbols)
           c == currScopeOffset
           space == currScopeSpace
<1>1. /\ UNCHANGED <<current_scope, in_function, function_scope, f_scopes_stack,
                     scopeSpaceCounter, scope_offset_stack, open, begun, total_locals>>
      /\ OpenInv /\ FunctionInv /\ SymbolsInv /\ PlacesInv /\ DeclaredInv
  BY DEF TableInv, NoChange, scopes, Declare
<1>2. PICK s : s = Symbol(name, type)
  OBVIOUS
<1>3. /\ s.name = name /\ s.type = type /\ s.scope = current_scope /\ s.isActive = TRUE
      /\ s.space = space /\ s.offset = c /\ s.block = Block /\ s.of = Fun(1)
  BY <1>1, <1>2, ReadingFacts DEF Symbol
<1>4. s \in Symbols /\ n < MaxSymbols /\ n \in Nat /\ s.block <= begun /\ s.of <= begun
  <2>1. /\ current_scope \in 0 .. MaxDepth /\ space \in Spaces
        /\ c \in 0 .. MaxSymbols /\ n \in Nat
    <3>1. current_scope \in 0 .. MaxDepth
      BY <1>1 DEF OpenInv
    <3>2. space \in Spaces
      BY <1>1, CurrentSpace
    <3>3. c \in 0 .. n /\ n \in Nat /\ MaxSymbols \in Nat /\ n <= MaxSymbols
      BY <1>1, SymbolFacts DEF SymbolsInv
    <3> HIDE DEF c, n, space
    <3>4. c \in 0 .. MaxSymbols
      BY <3>3
    <3>5. QED
      BY <3>1, <3>2, <3>3, <3>4
  <2>2. /\ Block \in 0 .. MaxBlocks /\ Fun(1) \in 0 .. MaxBlocks
        /\ Block <= begun /\ Fun(1) <= begun
    BY <1>1, BlockFacts, CurrentSpace, SymbolTableAssumption DEF OpenInv
  <2>3. s \in Symbols
    BY <1>1, <1>2, <2>1, <2>2, ReadingFacts DEF Symbol, Symbols
  <2>4. QED
    BY <1>3, <2>1, <2>2, <2>3 DEF Declare
<1>5. /\ symbols' = Append(symbols, s) /\ symbols' \in Seq(Symbols) /\ Len(symbols') = n + 1
      /\ \A i \in 1 .. n : symbols'[i] = symbols[i]
      /\ symbols'[n + 1] = s
  BY <1>1, <1>2, <1>4 DEF Declare, SymbolsInv
<1>6. /\ Here' = Here /\ InParams' = InParams /\ \A p : At(p)' = At(p)
      /\ \A j : Fun(j)' = Fun(j)
      /\ currScopeSpace' = space /\ \A b : IsOpen(b)' = IsOpen(b)
      /\ Outer' = Outer
  BY <1>1 DEF Here, InParams, At, Fun, currScopeSpace, IsOpen, Outer
<1>7. /\ currScopeOffset' = c + 1 /\ c \in 0 .. n
      /\ \A x \in {programVarOffset', functionLocalOffset', formalArgOffset'} :
           x \in {programVarOffset, functionLocalOffset, formalArgOffset, c + 1}
      /\ space = "FORMAL_ARG" => formalArgOffset' = c + 1
  <2>1. space \in Spaces
    BY <1>1, CurrentSpace
  <2>2. SetOffset(space, c + 1)
    BY DEF Declare
  <2>3. c \in 0 .. n
    BY <1>1, SymbolFacts
  <2> HIDE DEF space, c
  <2>4. currScopeOffset' = c + 1
    BY <1>6, <2>1, <2>2 DEF SetOffset, currScopeOffset, Spaces
  <2>5. QED
    BY <2>2, <2>3, <2>4 DEF SetOffset
<1>8. OpenInv'
  BY <1>1 DEF OpenInv
<1>9. FunctionInv'
  BY <1>1, <1>6 DEF FunctionInv
<1> HIDE DEF n, c, space
<1>10. SymbolsInv'
  <2>1. \A i \in 1 .. n + 1 : symbols'[i].block <= begun /\ symbols'[i].of <= begun
    BY <1>1, <1>4, <1>5 DEF SymbolsInv, n
  <2>2. {programVarOffset', functionLocalOffset', formalArgOffset'} \subseteq 0 .. n + 1
    <3>1. {programVarOffset, functionLocalOffset, formalArgOffset} \subseteq 0 .. n
      BY <1>1 DEF SymbolsInv, n
    <3>2. \A x \in 0 .. n : x \in 0 .. n + 1
      BY <1>4
    <3>3. c + 1 \in 0 .. n + 1
      BY <1>4, <1>7
    <3>4. QED
      BY <1>7, <3>1, <3>2, <3>3
  <2>3. scope_offset_stack \in Seq(0 .. n + 1)
    <3>1. 0 .. n \subseteq 0 .. n + 1 /\ scope_offset_stack \in Seq(0 .. n)
      BY <1>1, <1>4 DEF SymbolsInv, n
    <3>2. QED
      BY <3>1, SeqMonotonic
  <2>4. n + 1 <= MaxSymbols
    BY <1>4, SymbolTableAssumption
  <2>5. QED
    BY <1>1, <1>5, <2>1, <2>2, <2>3, <2>4 DEF SymbolsInv
<1>11. \A i \in 1 .. n + 1 : i \in 1 .. n \/ i = n + 1
  BY <1>4
<1>12. ASSUME NEW m, NEW sp, NEW o, Lie(m, sp, o), m = Fun(1) /\ sp = space => c < o
       PROVE  Lie(m, sp, o)'
  <2> SUFFICES ASSUME NEW i \in 1 .. n + 1, Holds(i)', symbols'[i].of = m,
                      symbols'[i].space = sp
               PROVE  symbols'[i].offset < o
    BY <1>5 DEF Lie
  <2>1. CASE i \in 1 .. n
    BY <1>5, <1>12, <2>1 DEF Lie, Holds, n
  <2>2. CASE i = n + 1
    BY <1>3, <1>5, <1>12, <2>2
  <2>3. QED
    BY <1>11, <2>1, <2>2
<1>13. PlacesInv'
  <2>1. Lie(Fun(1), currScopeSpace, currScopeOffset)'
    <3>1. Lie(Fun(1), space, c)
      BY <1>1 DEF PlacesInv, space, c
    <3>2. Lie(Fun(1), space, c + 1)
      <4>1. \A i \in 1 .. n : symbols[i].offset \in Nat
        BY <1>1, SymbolFacts DEF Symbols, n
      <4>2. QED
        BY <1>7, <3>1, <4>1 DEF Lie, n
    <3>3. c < c + 1
      BY <1>7
    <3>4. PICK m, sp, o : m = Fun(1) /\ sp = space /\ o = c + 1
      OBVIOUS
    <3>5. Lie(m, sp, o)'
      BY <1>12, <3>2, <3>3, <3>4
    <3>6. m = Fun(1)' /\ sp = currScopeSpace' /\ o = currScopeOffset'
      BY <1>6, <1>7, <3>4
    <3>7. QED
      BY <3>5, <3>6
  <2>2. ASSUME NEW j \in 1 .. Len(scope_offset_stack)
        PROVE  Lie(Fun(j + 1), BodySpace(Fun(j + 1)), scope_offset_stack[j])'
    <3>1. PICK m, sp, o : m = Fun(j + 1) /\ sp = BodySpace(m) /\ o = scope_offset_stack[j]
      OBVIOUS
    <3>2. m # Fun(1)
      <4>1. Len(f_scopes_stack) \in Nat /\ Len(f_scopes_stack) > 0 /\ j \in Nat /\ j > 0
        BY <1>1, FunFacts DEF SymbolsInv
      <4>2. 1 \in 1 .. Len(f_scopes_stack) /\ j + 1 # 1 /\ j + 1 \in Nat /\ 1 \in Nat
        BY <4>1
      <4>3. Fun(1) # 0
        BY <1>1, <4>1, CurrentSpace
      <4>4. QED
        BY <1>1, <3>1, <4>2, <4>3, FunFacts
    <3>3. Lie(m, sp, o)
      BY <1>1, <3>1 DEF PlacesInv
    <3>4. Lie(m, sp, o)'
      BY <1>12, <3>2, <3>3
    <3>5. m = Fun(j + 1)' /\ sp = BodySpace(Fun(j + 1)') /\ o = scope_offset_stack'[j]
      BY <1>1, <1>6, <3>1
    <3>6. QED
      BY <3>4, <3>5 DEF BodySpace
  <2>3. ASSUME InParams, NEW i \in 1 .. n + 1, Holds(i)', symbols'[i].of = Fun(1)
        PROVE  symbols'[i].space = "FORMAL_ARG"
    <3>1. CASE i \in 1 .. n
      BY <1>1, <1>5, <2>3, <3>1 DEF PlacesInv, Holds, n
    <3>2. CASE i = n + 1
      BY <1>1, <1>3, <1>5, <2>3, <3>2, CurrentSpace DEF space
    <3>3. QED
      BY <1>11, <3>1, <3>2
  <2>4. ASSUME NEW t \in total_locals
        PROVE  Lie(t.of, "FUNCTION_LOCAL", t.n)'
    <3>1. PICK m, o : m = t.of /\ o = t.n
      OBVIOUS
    <3>2. Lie(m, "FUNCTION_LOCAL", o) /\ m # 0 /\ \A i \in 1 .. Len(open) : open[i].id # m
      BY <1>1, <3>1 DEF PlacesInv
    <3>3. m # Fun(1)
      <4>1. Fun(1) # 0 => \E i \in 1 .. Len(open) : open[i].id = Fun(1)
        <5> SUFFICES ASSUME Fun(1) # 0 PROVE \E i \in 1 .. Len(open) : open[i].id = Fun(1)
          OBVIOUS
        <5>1. 1 \in 1 .. Len(f_scopes_stack)
          BY DEF Fun
        <5>2. PICK p \in 0 .. Len(open) - 1 : p = f_scopes_stack[1]
          BY <1>1, <5>1, FunFacts
        <5>3. Len(open) - p \in 1 .. Len(open) /\ Fun(1) = open[Len(open) - p].id
          BY <1>1, <5>1, <5>2, FunFacts, OpenFacts
        <5>4. QED
          BY <5>3
      <4>2. QED
        BY <3>2, <4>1
    <3>4. Lie(m, "FUNCTION_LOCAL", o)'
      BY <1>12, <3>2, <3>3
    <3>5. QED
      BY <3>1, <3>4
  <2>5. \A t \in total_locals : t.of \in 1 .. begun /\ \A i \in 1 .. Len(open) : open[i].id # t.of
    BY <1>1 DEF PlacesInv
  <2>6. QED
    BY <1>1, <1>5, <1>6, <2>1, <2>2, <2>3, <2>4, <2>5 DEF PlacesInv
<1>14. DeclaredInv'
  <2>1. ASSUME NEW i \in 1 .. n + 1
        PROVE  /\ symbols'[i].block = 0 => symbols'[i].scope = 0
               /\ \A p \in 0 .. Len(open) - 1 :
                    At(p).id = symbols'[i].block => symbols'[i].scope = p + 1
               /\ IsOpen(symbols'[i].block) => symbols'[i].isActive
    <3>1. CASE i \in 1 .. n
      BY <1>1, <1>5, <3>1 DEF DeclaredInv, n
    <3>2. CASE i = n + 1
      BY <1>1, <1>3, <1>5, <3>2, BlockFacts
    <3>3. QED
      BY <1>11, <3>1, <3>2
  <2>2. ASSUME NEW i \in 1 .. n + 1, NEW j \in 1 .. n + 1,
               symbols'[i].name \in Names, symbols'[j].name = symbols'[i].name,
               symbols'[j].block = symbols'[i].block, IsOpen(symbols'[i].block)
        PROVE  i = j
    <3>1. CASE i \in 1 .. n /\ j \in 1 .. n
      BY <1>1, <1>5, <2>2, <3>1 DEF DeclaredInv, n
    <3>2. CASE i = n + 1 /\ j \in 1 .. n
      BY <1>3, <1>5, <2>2, <3>2 DEF n
    <3>3. CASE i \in 1 .. n /\ j = n + 1
      BY <1>3, <1>5, <2>2, <3>3 DEF n
    <3>4. QED
      BY <1>11, <3>1, <3>2, <3>3
  <2>3. ASSUME InParams, NEW i \in 1 .. n + 1, symbols'[i].name = open[1].name
        PROVE  symbols'[i].block # Outer
    <3>1. CASE i \in 1 .. n
      BY <1>1, <1>5, <2>3, <3>1 DEF DeclaredInv, n
    <3>2. CASE i = n + 1
      BY <1>1, <1>3, <1>5, <2>3, <3>2, OnTop, BlockFacts DEF InParams
    <3>3. QED
      BY <1>11, <3>1, <3>2
  <2>4. InParams => formalArgOffset' # 0
    BY <1>1, <1>7, CurrentSpace DEF space
  <2>5. QED
    BY <1>1, <1>5, <1>6, <2>1, <2>2, <2>3, <2>4 DEF DeclaredInv
<1>15. QED
  BY <1>8, <1>9, <1>10, <1>13, <1>14 DEF TableInv

-----------------------------------------------------------------------------
(* Blocks and functions that begin *)

SpaceKnown == currScopeSpace = IF InParams THEN "FORMAL_ARG" ELSE BodySpace(Fun(1))

LEMMA SpaceLater == OpenInv' /\ FunctionInv' => SpaceKnown'
<1>1. OpenInv /\ FunctionInv => SpaceKnown
  BY CurrentSpace DEF SpaceKnown
<1>2. QED
  BY <1>1, PTL

LEMMA Pushed ==
  ASSUME OpenInv, NEW kind \in {"block", "params"}, NEW name \in Labels,
         Here \in {"block", "function"}, kind = "params" => name \in Names,
         Begins(kind, name), current_scope' = current_scope + 1,
         current_scope < MaxDepth
  PROVE  /\ OpenInv' /\ Len(open') = Len(open) + 1 /\ begun' = begun + 1
         /\ open' # <<>> /\ Here' = kind
         /\ open'[1].id = begun + 1 /\ open'[1].name = name
         /\ \A p \in 0 .. Len(open) - 1 : At(p)' = At(p)
         /\ (\A d : d = Len(open) => At(d)' = open'[1]) /\ open'[1].kind = kind
         /\ \A i \in 1 .. Len(open) : open'[i + 1] = open[i]
         /\ \A b : b # begun + 1 => (IsOpen(b)' <=> IsOpen(b))
<1> DEFINE n == Len(open)
<1>1. PICK e : e = [kind |-> kind, name |-> name, id |-> begun + 1]
  OBVIOUS
<1>2. begun \in Nat /\ begun < MaxBlocks /\ MaxBlocks \in Nat /\ n \in Nat
  BY OpenFacts, SymbolTableAssumption DEF OpenInv, Begins
<1>3. e \in Entries /\ e.kind = kind /\ e.name = name /\ e.id = begun + 1
  BY <1>1, <1>2 DEF Entries, Kinds
<1>4. open' = Push(open, e) /\ begun' = begun + 1
  BY <1>1 DEF Begins
<1>5. /\ open' \in Seq(Entries) /\ Len(open') = n + 1 /\ open' # <<>> /\ open'[1] = e
      /\ \A i \in 1 .. n + 1 : i # 1 => open'[i] = open[i - 1]
  <2> DEFINE S == Entries
             o == open
  <2>1. o \in Seq(S) /\ e \in S
    BY <1>3 DEF OpenInv
  <2>2. /\ Push(o, e) \in Seq(S) /\ Len(Push(o, e)) = Len(o) + 1
        /\ Push(o, e) # <<>> /\ Push(o, e)[1] = e
        /\ \A i \in 1 .. Len(o) + 1 : i # 1 => Push(o, e)[i] = o[i - 1]
    <3> HIDE DEF S, o, n
    <3>1. QED
      BY <2>1, PushFacts
  <2>3. QED
    BY <1>4, <2>2
<1>6. ASSUME NEW i \in 1 .. n PROVE i + 1 \in 1 .. n + 1 /\ open'[i + 1] = open[i]
  <2>1. i + 1 \in 1 .. n + 1 /\ i + 1 # 1 /\ (i + 1) - 1 = i
    BY <1>2
  <2>2. QED
    BY <1>5, <2>1
<1> HIDE DEF n
<1>7. ASSUME NEW i \in 1 .. n + 1
      PROVE  i = 1 \/ (i - 1 \in 1 .. n /\ open'[i] = open[i - 1])
  BY <1>2, <1>5
<1>8. ASSUME NEW p \in 0 .. n - 1 PROVE At(p)' = At(p)
  <2>1. n - p \in 1 .. n /\ (n + 1) - p = (n - p) + 1
    BY <1>2
  <2>2. At(p)' = open'[(n - p) + 1]
    BY <1>5, <2>1 DEF At
  <2>3. QED
    BY <1>6, <2>1, <2>2 DEF At, n
<1>9. ASSUME NEW d, d = n PROVE At(d)' = e
  <2>1. (n + 1) - d = 1
    BY <1>2, <1>9
  <2>2. QED
    BY <1>5, <2>1 DEF At
<1>10. \A i \in 1 .. n : open[i].id \in 1 .. begun
  BY DEF OpenInv, n
<1>11. OpenInv'
  <2>1. begun' \in 0 .. MaxBlocks
    BY <1>2, <1>4
  <2>2. \A i \in 1 .. n + 1 : open'[i].id \in 1 .. begun + 1
    BY <1>2, <1>3, <1>5, <1>7, <1>10
  <2>3. ASSUME NEW i \in 1 .. n + 1, NEW j \in 1 .. n + 1, i < j
        PROVE  open'[i].id > open'[j].id
    <3>1. j - 1 \in 1 .. n /\ open'[j] = open[j - 1]
      BY <1>2, <1>7, <2>3
    <3>2. CASE i = 1
      BY <1>2, <1>3, <1>5, <1>10, <3>1, <3>2
    <3>3. CASE i # 1
      <4>1. i - 1 \in 1 .. n /\ open'[i] = open[i - 1] /\ i - 1 < j - 1
        BY <1>2, <1>7, <2>3, <3>3
      <4>2. QED
        BY <3>1, <4>1 DEF OpenInv, n
    <3>4. QED
      BY <3>2, <3>3
  <2>4. ASSUME NEW i \in 1 .. n + 1, i # 1
        PROVE  /\ open'[i].kind \notin {"params", "ended"}
               /\ open'[i].kind # "block" => open'[i].name \in Names
    <3>1. i - 1 \in 1 .. n /\ open'[i] = open[i - 1]
      BY <1>7, <2>4
    <3>2. open[i - 1].kind \notin {"params", "ended"}
      <4>1. CASE i - 1 = 1
        <5>1. open # <<>>
          BY <3>1, <4>1, OpenFacts DEF n
        <5>2. Here = open[1].kind
          BY <5>1 DEF Here
        <5>3. QED
          BY <4>1, <5>2
      <4>2. CASE i - 1 # 1
        BY <3>1, <4>2 DEF OpenInv, n
      <4>3. QED
        BY <4>1, <4>2
    <3>3. QED
      BY <3>1, <3>2 DEF OpenInv, n
  <2>5. current_scope' = n + 1 /\ current_scope' \in 0 .. MaxDepth
    BY <1>2, SymbolTableAssumption DEF OpenInv, n
  <2>6. \A i \in 1 .. n + 1 : open'[i].kind \in {"params", "ended"} => i = 1
    BY <2>4
  <2>7. \A i \in 1 .. n + 1 : open'[i].kind # "block" => open'[i].name \in Names
    BY <1>3, <1>5, <2>4
  <2>8. QED
    BY <1>4, <1>5, <2>1, <2>2, <2>3, <2>5, <2>6, <2>7 DEF OpenInv
<1>12. ASSUME NEW b, b # begun + 1 PROVE IsOpen(b)' <=> IsOpen(b)
  <2>1. (\E i \in 1 .. n + 1 : open'[i].id = b) <=> \E i \in 1 .. n : open[i].id = b
    <3>1. ASSUME NEW i \in 1 .. n + 1, open'[i].id = b
          PROVE  \E k \in 1 .. n : open[k].id = b
      BY <1>3, <1>5, <1>7, <1>12, <3>1
    <3>2. ASSUME NEW i \in 1 .. n, open[i].id = b
          PROVE  \E k \in 1 .. n + 1 : open'[k].id = b
      BY <1>6, <3>2
    <3>3. QED
      BY <3>1, <3>2
  <2>2. QED
    BY <1>5, <2>1 DEF IsOpen, n
<1>13. Here' = kind
  BY <1>3, <1>5 DEF Here
<1>14. QED
  BY <1>3, <1>4, <1>5, <1>6, <1>8, <1>9, <1>11, <1>12, <1>13 DEF n

(* What is there has other numbers than what begins. *)
LEMMA SymbolNumbers ==
  ASSUME OpenInv, SymbolsInv
  PROVE  \A i \in 1 .. Len(symbols) :
           /\ symbols[i].block \in Nat /\ symbols[i].block <= begun + 1
           /\ symbols[i].of \in Nat /\ symbols[i].of <= begun + 1
           /\ symbols[i].block # begun + 1 /\ symbols[i].of # begun + 1
<1> SUFFICES ASSUME NEW i \in 1 .. Len(symbols)
             PROVE  /\ symbols[i].block \in Nat /\ symbols[i].block <= begun + 1
                    /\ symbols[i].of \in Nat /\ symbols[i].of <= begun + 1
                    /\ symbols[i].block # begun + 1 /\ symbols[i].of # begun + 1
  OBVIOUS
<1>1. symbols[i].block \in Nat /\ symbols[i].of \in Nat
  BY SymbolFacts, SymbolTableAssumption DEF Symbols
<1>2. symbols[i].block <= begun /\ symbols[i].of <= begun
  BY DEF SymbolsInv
<1>3. begun \in Nat
  BY DEF OpenInv
<1>4. QED
  BY <1>1, <1>2, <1>3

LEMMA EndedNumbers ==
  ASSUME OpenInv, PlacesInv, Len(open') = Len(open) + 1, open'[1].id = begun + 1,
         \A i \in 1 .. Len(open) : open'[i + 1] = open[i]
  PROVE  \A t \in total_locals :
           t.of \in 1 .. begun + 1 /\ \A i \in 1 .. Len(open') : open'[i].id # t.of
<1> DEFINE n == Len(open)
<1> SUFFICES ASSUME NEW t \in total_locals
             PROVE  t.of \in 1 .. begun + 1 /\ \A i \in 1 .. n + 1 : open'[i].id # t.of
  OBVIOUS
<1>1. n \in Nat /\ begun \in Nat
  BY OpenFacts DEF OpenInv
<1>2. t.of \in 1 .. begun /\ \A i \in 1 .. n : open[i].id # t.of
  BY DEF PlacesInv
<1>3. t.of \in 1 .. begun + 1 /\ t.of # begun + 1
  BY <1>1, <1>2
<1> HIDE DEF n
<1>4. ASSUME NEW i \in 1 .. n + 1 PROVE open'[i].id # t.of
  <2>1. CASE i = 1
    BY <1>3, <2>1
  <2>2. CASE i # 1
    <3>1. i - 1 \in 1 .. n /\ i = (i - 1) + 1
      BY <1>1, <2>2
    <3>2. open'[i] = open[i - 1]
      BY <3>1 DEF n
    <3>3. QED
      BY <1>2, <3>1, <3>2
  <2>3. QED
    BY <2>1, <2>2
<1>5. QED
  BY <1>3, <1>4

LEMMA BlockBeginKeeps ==
  ASSUME TableInv, BlockBegin
  PROVE  TableInv'
<1> DEFINE n == Len(open)
<1>1. /\ OpenInv /\ FunctionInv /\ SymbolsInv /\ PlacesInv /\ DeclaredInv
      /\ Here \in {"block", "function"} /\ ~InParams
      /\ UNCHANGED <<symbols, in_function, function_scope, f_scopes_stack,
                     scopeSpaceCounter, programVarOffset, functionLocalOffset,
                     formalArgOffset, scope_offset_stack, total_locals, error_flag>>
  <2>1. /\ Here \in {"block", "function"} /\ Proceed
        /\ UNCHANGED <<symbols, in_function, function_scope, f_scopes_stack,
                       scopeSpaceCounter, offsets, total_locals>>
    BY Zenon DEF BlockBegin
  <2>2. QED
    BY <2>1 DEF TableInv, offsets, Proceed, InParams
<1>2. /\ OpenInv' /\ Len(open') = n + 1 /\ begun' = begun + 1
      /\ Here' = "block" /\ open'[1].kind = "block"
      /\ \A d : d = n => At(d)' = open'[1]
      /\ open'[1].id = begun + 1
      /\ \A p \in 0 .. n - 1 : At(p)' = At(p)
      /\ \A b : b # begun + 1 => (IsOpen(b)' <=> IsOpen(b))
      /\ \A i \in 1 .. n : open'[i + 1] = open[i]
  <2>1. PICK name \in Labels : Begins("block", name)
    BY Zenon DEF BlockBegin, Labels
  <2>2. current_scope < MaxDepth /\ current_scope' = current_scope + 1
    BY Zenon DEF BlockBegin
  <2>3. QED
    BY <1>1, <2>1, <2>2, Pushed
<1>3. ~InParams' /\ n \in Nat /\ begun \in Nat
  BY <1>1, <1>2, OpenFacts DEF InParams, OpenInv
<1> HIDE DEF n
<1>4. \A p \in 0 .. (n + 1) - 1 : p \in 0 .. n - 1 \/ p = n
  BY <1>3
<1>5. \A j \in 1 .. Len(f_scopes_stack) :
        f_scopes_stack[j] \in 0 .. n - 1 /\ f_scopes_stack[j] < n + 1 /\ f_scopes_stack[j] # n
  BY <1>1, <1>3, FunFacts DEF n
<1>6. FunctionInv'
  <2>1. ASSUME NEW p \in 0 .. (n + 1) - 1
        PROVE  At(p)'.kind # "block" <=>
                 \E j \in 1 .. Len(f_scopes_stack) : f_scopes_stack[j] = p
    <3>1. CASE p \in 0 .. n - 1
      BY <1>1, <1>2, <3>1 DEF FunctionInv, n
    <3>2. CASE p = n
      BY <1>2, <1>5, <3>2
    <3>3. QED
      BY <1>4, <3>1, <3>2
  <2>2. Len(f_scopes_stack) <= begun + 1
    BY <1>1, <1>3, FunFacts DEF FunctionInv
  <2>3. QED
    BY <1>1, <1>2, <1>3, <1>5, <2>1, <2>2 DEF FunctionInv
<1>7. SymbolsInv'
  BY <1>1, <1>2, SymbolNumbers DEF SymbolsInv
<1>8. \A j : Fun(j)' = Fun(j)
  BY <1>1, <1>2, <1>5 DEF Fun
<1>9. \A m, sp, o : Lie(m, sp, o)' <=> Lie(m, sp, o)
  BY <1>1 DEF Lie, Holds
<1>10. PlacesInv'
  <2>1. currScopeSpace' = currScopeSpace /\ currScopeOffset' = currScopeOffset
    BY <1>1 DEF currScopeSpace, currScopeOffset
  <2>2. \A t \in total_locals :
          t.of \in 1 .. begun + 1 /\ \A i \in 1 .. n + 1 : open'[i].id # t.of
    BY <1>1, <1>2, EndedNumbers DEF n
  <2>3. QED
    BY <1>1, <1>2, <1>3, <1>8, <1>9, <2>1, <2>2 DEF PlacesInv, BodySpace
<1>11. DeclaredInv'
  <2>1. \A i \in 1 .. Len(symbols) : symbols[i].block # begun + 1
    BY <1>1, SymbolNumbers
  <2>2. ASSUME NEW i \in 1 .. Len(symbols), NEW p \in 0 .. (n + 1) - 1,
               At(p)'.id = symbols[i].block
        PROVE  symbols[i].scope = p + 1
    <3>1. p # n
      BY <1>2, <2>1, <2>2
    <3>2. p \in 0 .. n - 1
      BY <1>4, <3>1
    <3>3. At(p).id = symbols[i].block
      BY <1>2, <2>2, <3>2
    <3>4. QED
      BY <1>1, <3>2, <3>3 DEF DeclaredInv, n
  <2>3. QED
    BY <1>1, <1>2, <1>3, <2>1, <2>2, SMTT(30) DEF DeclaredInv
<1>12. QED
  BY <1>2, <1>6, <1>7, <1>10, <1>11 DEF TableInv

(* A name that is not defined here is not declared in the current block.   *)
LEMMA NotRedefined ==
  ASSUME OpenInv, FunctionInv, SymbolsInv, DeclaredInv, NEW name, ~Redefined(name)
  PROVE  \A i \in 1 .. Len(symbols) : symbols[i].name = name => symbols[i].block # Block
<1>1. current_scope \in Nat
  BY DEF OpenInv
<1>2. LookScope(name, current_scope) = 0
  <2>1. CASE in_function
    <3>1. f_scopes_stack # <<>> /\ f_scopes_stack \in Seq(Nat)
      BY <2>1 DEF FunctionInv
    <3>2. Head(f_scopes_stack) = f_scopes_stack[1] /\ 1 \in 1 .. Len(f_scopes_stack)
      BY <3>1, TailFacts
    <3>3. f_scopes_stack[1] \in 0 .. Len(open) - 1
      BY <3>2, FunFacts
    <3>4. current_scope \in Head(f_scopes_stack) + 1 .. current_scope
      BY <1>1, <3>2, <3>3, OpenFacts DEF OpenInv
    <3>5. QED
      BY <2>1, <3>4 DEF Redefined, Found
  <2>2. CASE ~in_function
    <3>1. current_scope \in 0 .. current_scope
      BY <1>1
    <3>2. QED
      BY <2>2, <3>1 DEF Redefined, Found
  <2>3. QED
    BY <2>1, <2>2
<1>3. QED
  BY <1>2, NotDeclared

LEMMA FuncPrefixKeeps ==
  ASSUME TableInv, NEW name \in Names, FuncPrefix(name)
  PROVE  TableInv'
<1> DEFINE n == Len(open)
           m == Len(f_scopes_stack)
           f == f_scopes_stack
<1>1. /\ OpenInv /\ FunctionInv /\ SymbolsInv /\ PlacesInv /\ DeclaredInv
      /\ ~InParams /\ ~Redefined(name)
      /\ UNCHANGED <<symbols, programVarOffset, functionLocalOffset, total_locals, error_flag>>
      /\ f_scopes_stack' = Push(f, current_scope)
      /\ function_scope' = IF in_function THEN function_scope ELSE current_scope
      /\ in_function' = TRUE
      /\ scope_offset_stack' = Push(scope_offset_stack, currScopeOffset)
      /\ scopeSpaceCounter' = scopeSpaceCounter + 1 /\ formalArgOffset' = 0
  BY DEF TableInv, FuncPrefix, Proceed, InParams, Statements
<1>2. /\ OpenInv' /\ Len(open') = n + 1 /\ begun' = begun + 1
      /\ Here' = "params" /\ open'[1].kind = "params"
      /\ open'[1].id = begun + 1 /\ open'[1].name = name
      /\ \A d : d = n => At(d)' = open'[1]
      /\ \A p \in 0 .. n - 1 : At(p)' = At(p)
      /\ \A b : b # begun + 1 => (IsOpen(b)' <=> IsOpen(b))
      /\ \A i \in 1 .. n : open'[i + 1] = open[i]
  <2>1. Begins("params", name) /\ Here = "block" /\ current_scope' = current_scope + 1
        /\ current_scope + 1 < MaxDepth
    BY DEF FuncPrefix, Statements
  <2>2. current_scope < MaxDepth
    BY <1>1, <2>1, SymbolTableAssumption DEF OpenInv
  <2>3. name \in Labels
    BY Zenon DEF Labels
  <2>4. QED
    BY <1>1, <2>1, <2>2, <2>3, Pushed
<1>3. InParams' /\ n \in Nat /\ begun \in Nat /\ m \in Nat /\ current_scope = n
  BY <1>1, <1>2, OpenFacts, FunFacts DEF InParams, OpenInv
<1>4. /\ f' \in Seq(Nat) /\ Len(f') = m + 1 /\ f' # <<>> /\ f'[1] = n
      /\ \A j \in 1 .. m + 1 : j # 1 => f'[j] = f[j - 1]
  <2> DEFINE S == Nat
  <2>1. f \in Seq(S) /\ n \in S
    BY <1>1, <1>3 DEF FunctionInv
  <2>2. /\ Push(f, n) \in Seq(S) /\ Len(Push(f, n)) = Len(f) + 1
        /\ Push(f, n) # <<>> /\ Push(f, n)[1] = n
        /\ \A j \in 1 .. Len(f) + 1 : j # 1 => Push(f, n)[j] = f[j - 1]
    <3> HIDE DEF S, n, f
    <3>1. QED
      BY <2>1, PushFacts
  <2>3. QED
    BY <1>1, <1>3, <2>2
<1> HIDE DEF n, m
<1>5. ASSUME NEW j \in 1 .. m PROVE j + 1 \in 1 .. m + 1 /\ f'[j + 1] = f[j]
  <2>1. j + 1 \in 1 .. m + 1 /\ j + 1 # 1 /\ (j + 1) - 1 = j
    BY <1>3
  <2>2. QED
    BY <1>4, <2>1
<1>6. \A j \in 1 .. m + 1 : j = 1 \/ (j - 1 \in 1 .. m /\ f'[j] = f[j - 1])
  BY <1>3, <1>4
<1>7. \A j \in 1 .. m : f[j] \in 0 .. n - 1 /\ f[j] < n /\ f[j] # n
  BY <1>1, <1>3, FunFacts DEF n, m
<1>8. FunctionInv'
  <2>1. ASSUME NEW j \in 1 .. m + 1, NEW k \in 1 .. m + 1, j < k
        PROVE  f'[j] > f'[k]
    <3>1. k - 1 \in 1 .. m /\ f'[k] = f[k - 1]
      BY <1>3, <1>6, <2>1
    <3>2. CASE j = 1
      BY <1>4, <1>7, <3>1, <3>2
    <3>3. CASE j # 1
      <4>1. j - 1 \in 1 .. m /\ f'[j] = f[j - 1] /\ j - 1 < k - 1
        BY <1>3, <1>6, <2>1, <3>3
      <4>2. QED
        BY <1>1, <3>1, <4>1 DEF FunctionInv, m
    <3>4. QED
      BY <3>2, <3>3
  <2>2. ASSUME NEW j \in 1 .. m + 1 PROVE f'[j] < n + 1
    <3>1. CASE j = 1
      BY <1>3, <1>4, <3>1
    <3>2. CASE j # 1
      <4>1. PICK k \in 1 .. m : f'[j] = f[k]
        BY <1>6, <3>2
      <4>2. f[k] \in 0 .. n - 1
        BY <1>7
      <4>3. QED
        BY <1>3, <4>1, <4>2
    <3>3. QED
      BY <3>1, <3>2
  <2>3. ASSUME NEW p \in 0 .. (n + 1) - 1
        PROVE  At(p)'.kind # "block" <=> \E j \in 1 .. m + 1 : f'[j] = p
    <3>1. CASE p = n
      <4>1. 1 \in 1 .. m + 1
        BY <1>3
      <4>2. QED
        BY <1>2, <1>4, <3>1, <4>1
    <3>2. CASE p \in 0 .. n - 1
      <4>1. At(p)'.kind # "block" <=> \E j \in 1 .. m : f[j] = p
        BY <1>1, <1>2, <3>2 DEF FunctionInv, n, m
      <4>2. (\E j \in 1 .. m : f[j] = p) => \E j \in 1 .. m + 1 : f'[j] = p
        BY <1>5
      <4>3. ASSUME NEW j \in 1 .. m + 1, f'[j] = p PROVE \E k \in 1 .. m : f[k] = p
        <5>1. j # 1
          BY <1>3, <1>4, <3>2, <4>3
        <5>2. QED
          BY <1>6, <4>3, <5>1
      <4>4. QED
        BY <4>1, <4>2, <4>3
    <3>3. p = n \/ p \in 0 .. n - 1
      BY <1>3
    <3>4. QED
      BY <3>1, <3>2, <3>3
  <2>4. function_scope' = f'[m + 1] /\ function_scope' \in -1 .. MaxDepth
    <3>1. CASE in_function
      <4>1. m # 0 /\ function_scope = f[m]
        BY <1>1, <3>1, FunFacts DEF FunctionInv, m
      <4>2. m \in 1 .. m
        BY <1>3, <4>1
      <4>3. QED
        BY <1>1, <1>5, <3>1, <4>1, <4>2 DEF FunctionInv
    <3>2. CASE ~in_function
      <4>1. m = 0
        BY <1>1, <3>2, FunFacts DEF FunctionInv, m
      <4>2. function_scope' = n /\ n \in 0 .. MaxDepth /\ MaxDepth \in Nat
        BY <1>1, <1>3, <3>2, SymbolTableAssumption DEF OpenInv
      <4>3. m + 1 = 1
        BY <4>1
      <4>4. QED
        BY <1>4, <4>2, <4>3
    <3>3. QED
      BY <1>1, <3>1, <3>2 DEF FunctionInv
  <2>5. scopeSpaceCounter' = 2 * (m + 1) + 0 /\ m + 1 <= begun + 1
    BY <1>1, <1>3 DEF FunctionInv, m
  <2>6. QED
    BY <1>1, <1>2, <1>3, <1>4, <2>1, <2>2, <2>3, <2>4, <2>5, ZenonT(30) DEF FunctionInv
<1>9. /\ currScopeOffset \in 0 .. Len(symbols) /\ Len(symbols) \in Nat
      /\ scope_offset_stack \in Seq(0 .. Len(symbols)) /\ Len(scope_offset_stack) = m
  BY <1>1, SymbolFacts DEF SymbolsInv, m
<1>10. /\ scope_offset_stack' \in Seq(0 .. Len(symbols)) /\ Len(scope_offset_stack') = m + 1
       /\ scope_offset_stack'[1] = currScopeOffset
       /\ \A j \in 1 .. m + 1 : j # 1 => scope_offset_stack'[j] = scope_offset_stack[j - 1]
  <2> DEFINE g == scope_offset_stack
             S == 0 .. Len(symbols)
  <2>1. g \in Seq(S) /\ currScopeOffset \in S
    BY <1>9
  <2>2. /\ Push(g, currScopeOffset) \in Seq(S)
        /\ Len(Push(g, currScopeOffset)) = Len(g) + 1
        /\ Push(g, currScopeOffset)[1] = currScopeOffset
        /\ \A j \in 1 .. Len(g) + 1 : j # 1 => Push(g, currScopeOffset)[j] = g[j - 1]
    <3> HIDE DEF S, g
    <3>1. QED
      BY <2>1, PushFacts
  <2>3. QED
    BY <1>1, <1>9, <2>2
<1>11. SymbolsInv'
  <2>1. 0 \in 0 .. Len(symbols)
    BY <1>9
  <2>2. {programVarOffset, functionLocalOffset, 0} \subseteq 0 .. Len(symbols)
    BY <1>1, <2>1 DEF SymbolsInv
  <2>3. QED
    BY <1>1, <1>2, <1>4, <1>10, <2>2, SymbolNumbers DEF SymbolsInv
<1>12. /\ \A j \in 1 .. m + 1 : \A k : k = j + 1 => Fun(k)' = Fun(j)
       /\ Fun(1)' = begun + 1
  <2>1. 1 \in 1 .. m + 1
    BY <1>3
  <2>2. \A d : d = n => At(d)'.id = begun + 1
    BY <1>2
  <2>3. Fun(1)' = begun + 1
    BY <1>4, <2>1, <2>2 DEF Fun
  <2>4. ASSUME NEW j \in 1 .. m, NEW k, k = j + 1 PROVE Fun(k)' = Fun(j)
    <3>1. k \in 1 .. m + 1 /\ f'[k] = f[j] /\ f[j] \in 0 .. n - 1
      BY <1>5, <1>7, <2>4
    <3>2. PICK p \in 0 .. n - 1 : p = f[j]
      BY <3>1
    <3>3. Fun(k)' = At(p)'.id
      BY <1>4, <3>1, <3>2 DEF Fun
    <3>4. Fun(j) = At(p).id
      BY <3>2 DEF Fun, m
    <3>5. QED
      BY <1>2, <3>3, <3>4
  <2>5. ASSUME NEW j, j = m + 1, NEW k, k = j + 1 PROVE Fun(k)' = Fun(j)
    <3>1. j \notin 1 .. m /\ k \notin 1 .. m + 1
      BY <1>3, <2>5
    <3>2. QED
      BY <1>4, <3>1 DEF Fun, m
  <2>6. \A j \in 1 .. m + 1 : j \in 1 .. m \/ j = m + 1
    BY <1>3
  <2>7. QED
    BY <2>3, <2>4, <2>5, <2>6
<1>13. \A a, sp, o : Lie(a, sp, o)' <=> Lie(a, sp, o)
  BY <1>1 DEF Lie, Holds
<1>14. PlacesInv'
  <2>1. Lie(Fun(1), currScopeSpace, currScopeOffset)'
    <3>1. PICK a, sp, o : a = Fun(1)' /\ sp = currScopeSpace' /\ o = currScopeOffset'
      OBVIOUS
    <3>2. Lie(a, sp, o)
      BY <1>1, <1>12, <3>1, SymbolNumbers DEF Lie
    <3>3. QED
      BY <1>13, <3>1, <3>2
  <2>2. ASSUME NEW j \in 1 .. m + 1
        PROVE  Lie(Fun(j + 1), BodySpace(Fun(j + 1)), scope_offset_stack[j])'
    <3>1. PICK a, o, k : a = Fun(j) /\ o = scope_offset_stack'[j] /\ k = j + 1
      OBVIOUS
    <3>2. PICK sp : sp = BodySpace(a)
      OBVIOUS
    <3>3. Lie(a, sp, o)
      <4>1. CASE j = 1
        <5>1. currScopeSpace = BodySpace(Fun(1))
          BY <1>1, CurrentSpace
        <5>2. a = Fun(1) /\ sp = currScopeSpace /\ o = currScopeOffset
          BY <1>10, <3>1, <3>2, <4>1, <5>1
        <5>3. QED
          BY <1>1, <5>2 DEF PlacesInv
      <4>2. CASE j # 1
        <5>1. j - 1 \in 1 .. m /\ (j - 1) + 1 = j
          BY <1>3, <4>2
        <5>2. PICK l \in 1 .. m : l = j - 1
          BY <5>1
        <5>3. o = scope_offset_stack[l] /\ l + 1 = j
          BY <1>10, <3>1, <4>2, <5>1, <5>2
        <5>4. Lie(Fun(l + 1), BodySpace(Fun(l + 1)), scope_offset_stack[l])
          BY <1>1, <1>9 DEF PlacesInv
        <5>5. QED
          BY <3>1, <3>2, <5>3, <5>4
      <4>3. QED
        BY <4>1, <4>2
    <3>4. Lie(a, sp, o)'
      BY <1>13, <3>3
    <3>5. a = Fun(j + 1)' /\ sp = BodySpace(Fun(j + 1)') /\ o = scope_offset_stack'[j]
      BY <1>12, <3>1, <3>2
    <3>6. QED
      BY <3>4, <3>5 DEF BodySpace
  <2>3. \A i \in 1 .. Len(symbols') : symbols'[i].of # Fun(1)'
    BY <1>1, <1>12, SymbolNumbers
  <2>4. ASSUME NEW t \in total_locals
        PROVE  /\ t.of \in 1 .. begun + 1 /\ \A i \in 1 .. n + 1 : open'[i].id # t.of
               /\ Lie(t.of, "FUNCTION_LOCAL", t.n)'
    <3>1. t.of \in 1 .. begun + 1 /\ \A i \in 1 .. n + 1 : open'[i].id # t.of
      BY <1>1, <1>2, EndedNumbers DEF n
    <3>2. PICK a, o : a = t.of /\ o = t.n
      OBVIOUS
    <3>3. Lie(a, "FUNCTION_LOCAL", o)
      BY <1>1, <3>2 DEF PlacesInv
    <3>4. Lie(a, "FUNCTION_LOCAL", o)'
      BY <1>13, <3>3
    <3>5. QED
      BY <3>1, <3>2, <3>4
  <2>5. QED
    BY <1>1, <1>2, <1>10, <2>1, <2>2, <2>3, <2>4 DEF PlacesInv
<1>15. DeclaredInv'
  <2>1. \A i \in 1 .. Len(symbols) : symbols[i].block # begun + 1
    BY <1>1, SymbolNumbers
  <2>2. ASSUME NEW i \in 1 .. Len(symbols), NEW p \in 0 .. (n + 1) - 1,
               At(p)'.id = symbols[i].block
        PROVE  symbols[i].scope = p + 1
    <3>1. p # n
      BY <1>2, <2>1, <2>2
    <3>2. p \in 0 .. n - 1
      BY <1>3, <3>1
    <3>3. At(p).id = symbols[i].block
      BY <1>2, <2>2, <3>2
    <3>4. QED
      BY <1>1, <3>2, <3>3 DEF DeclaredInv, n
  <2>3. Outer' = Block
    <3>1. CASE n = 0
      <4>1. ~(n + 1 > 1) /\ open = <<>>
        BY <1>1, <3>1, OpenFacts DEF n
      <4>2. QED
        BY <1>2, <4>1 DEF Outer, Block
    <3>2. CASE n # 0
      <4>1. n + 1 > 1 /\ 1 \in 1 .. n /\ 1 + 1 = 2
        BY <1>3, <3>2
      <4>2. open'[2] = open[1] /\ open # <<>>
        BY <1>1, <1>2, <3>2, <4>1, OpenFacts DEF n
      <4>3. QED
        BY <1>2, <4>1, <4>2 DEF Outer, Block
    <3>3. QED
      BY <3>1, <3>2
  <2>4. \A i \in 1 .. Len(symbols) : symbols[i].name = name => symbols[i].block # Block
    BY <1>1, NotRedefined
  <2>5. QED
    BY <1>1, <1>2, <2>1, <2>2, <2>3, <2>4 DEF DeclaredInv
<1>16. QED
  BY <1>2, <1>8, <1>11, <1>14, <1>15 DEF TableInv

-----------------------------------------------------------------------------
(* Blocks and functions that end *)

(* hide changes nothing but isActive. *)
SameSymbols ==
  /\ symbols' \in Seq(Symbols) /\ Len(symbols') = Len(symbols)
  /\ \A i \in 1 .. Len(symbols) :
       /\ symbols'[i].name = symbols[i].name /\ symbols'[i].type = symbols[i].type
       /\ symbols'[i].scope = symbols[i].scope /\ symbols'[i].space = symbols[i].space
       /\ symbols'[i].offset = symbols[i].offset
       /\ symbols'[i].block = symbols[i].block /\ symbols'[i].of = symbols[i].of

LEMMA HiddenFacts ==
  ASSUME SymbolsInv, NEW scope, symbols' = Hidden(scope)
  PROVE  /\ SameSymbols
         /\ \A i \in 1 .. Len(symbols) :
              symbols[i].scope # scope => symbols'[i].isActive = symbols[i].isActive
<1> DEFINE n == Len(symbols)
<1>1. n \in Nat /\ DOMAIN symbols = 1 .. n /\ \A i \in 1 .. n : symbols[i] \in Symbols
  BY SymbolFacts
<1>2. symbols' = [i \in 1 .. n |->
                    IF symbols[i].scope = scope THEN [symbols[i] EXCEPT !.isActive = FALSE]
                    ELSE symbols[i]]
  BY <1>1 DEF Hidden
<1> HIDE DEF n
<1>3. ASSUME NEW i \in 1 .. n
      PROVE  /\ symbols'[i] \in Symbols
             /\ symbols[i].scope # scope => symbols'[i].isActive = symbols[i].isActive
             /\ symbols'[i].name = symbols[i].name /\ symbols'[i].type = symbols[i].type
             /\ symbols'[i].scope = symbols[i].scope /\ symbols'[i].space = symbols[i].space
             /\ symbols'[i].offset = symbols[i].offset
             /\ symbols'[i].block = symbols[i].block /\ symbols'[i].of = symbols[i].of
  <2>1. PICK s \in Symbols : s = symbols[i]
    BY <1>1
  <2>2. CASE s.scope = scope
    <3>1. symbols'[i] = [s EXCEPT !.isActive = FALSE]
      BY <1>2, <2>1, <2>2
    <3>2. [s EXCEPT !.isActive = FALSE] \in Symbols
      BY DEF Symbols
    <3>3. QED
      BY <2>1, <2>2, <3>1, <3>2 DEF Symbols
  <2>3. CASE s.scope # scope
    <3>1. symbols'[i] = s
      BY <1>2, <2>1, <2>3
    <3>2. QED
      BY <2>1, <3>1
  <2>4. QED
    BY <2>2, <2>3
<1>4. symbols' \in [1 .. n -> Symbols]
  BY <1>2, <1>3
<1>5. symbols' \in Seq(Symbols) /\ Len(symbols') = n
  BY <1>1, <1>4, SeqDef
<1>6. QED
  BY <1>3, <1>5 DEF SameSymbols, n

LEMMA SameLie ==
  ASSUME SymbolsInv, SameSymbols
  PROVE  /\ \A a, sp, o : Lie(a, sp, o)' <=> Lie(a, sp, o)
         /\ \A i \in 1 .. Len(symbols) : Holds(i)' <=> Holds(i)
BY DEF SameSymbols, Lie, Holds

(* The innermost entry goes; of the next one the kind may change. *)
Pops ==
  /\ open # <<>> /\ open' \in Seq(Entries) /\ Len(open') = Len(open) - 1
  /\ \A i \in 1 .. Len(open) - 1 :
       /\ open'[i].id = open[i + 1].id /\ open'[i].name = open[i + 1].name
       /\ open'[i].kind # "params"
       /\ open'[i].kind = "ended" => i = 1
       /\ open'[i].kind # "block" <=> open[i + 1].kind # "block"

LEMMA TailPops ==
  ASSUME OpenInv, open # <<>>,
         \/ open' = Tail(open)
         \/ Len(open) > 1 /\ open[2].kind = "function"
            /\ open' = [Tail(open) EXCEPT ![1].kind = "ended"]
  PROVE  Pops
<1> DEFINE n == Len(open)
<1>1. /\ Tail(open) \in Seq(Entries) /\ Len(Tail(open)) = n - 1
      /\ \A i \in 1 .. n - 1 : Tail(open)[i] = open[i + 1]
      /\ n \in Nat /\ n > 0
  <2>1. open \in Seq(Entries)
    BY DEF OpenInv
  <2>2. QED
    BY <2>1, TailFacts
<1>2. \A i \in 1 .. n - 1 : i + 1 \in 1 .. n /\ i + 1 # 1
  BY <1>1
<1>3. \A i \in 1 .. n - 1 : open[i + 1].kind \notin {"params", "ended"}
  BY <1>2 DEF OpenInv
<1>4. CASE open' = Tail(open)
  BY <1>1, <1>3, <1>4 DEF Pops
<1>5. CASE n > 1 /\ open[2].kind = "function"
           /\ open' = [Tail(open) EXCEPT ![1].kind = "ended"]
  <2>1. PICK t : t = Tail(open)
    OBVIOUS
  <2>2. 1 \in 1 .. n - 1 /\ 1 + 1 = 2 /\ 1 \in 1 .. Len(t)
    BY <1>1, <1>5, <2>1
  <2>3. t \in Seq(Entries) /\ Len(t) = n - 1 /\ t[1] = open[2] /\ t[1] \in Entries
    BY <1>1, <2>1, <2>2, ElementOfSeq
  <2>4. PICK e : e = [t[1] EXCEPT !.kind = "ended"]
    OBVIOUS
  <2>5. /\ e \in Entries /\ e.kind = "ended" /\ e.id = t[1].id /\ e.name = t[1].name
    BY <2>3, <2>4 DEF Entries, Kinds
  <2>6. open' = [t EXCEPT ![1] = e]
    BY <1>5, <2>1, <2>4
  <2>7. /\ open' \in Seq(Entries) /\ Len(open') = n - 1
        /\ \A i \in 1 .. n - 1 : open'[i] = IF i = 1 THEN e ELSE t[i]
    BY <2>2, <2>3, <2>5, <2>6, ExceptSeq
  <2>8. \A i \in 1 .. n - 1 :
          /\ open'[i].id = open[i + 1].id /\ open'[i].name = open[i + 1].name
          /\ open'[i].kind # "params"
          /\ open'[i].kind = "ended" => i = 1
          /\ open'[i].kind # "block" <=> open[i + 1].kind # "block"
    BY <1>1, <1>3, <1>5, <2>1, <2>2, <2>3, <2>5, <2>7
  <2>9. QED
    BY <2>7, <2>8 DEF Pops
<1>6. QED
  BY <1>4, <1>5

LEMMA Popped ==
  ASSUME OpenInv, Pops, current_scope' = current_scope - 1, begun' = begun
  PROVE  /\ OpenInv' /\ ~InParams' /\ current_scope > 0
         /\ \A p \in 0 .. Len(open) - 2 :
              At(p)'.id = At(p).id /\ (At(p)'.kind # "block" <=> At(p).kind # "block")
         /\ \A b : IsOpen(b)' => IsOpen(b) /\ b # open[1].id
<1> DEFINE n == Len(open)
<1>1. n \in Nat /\ n > 0 /\ Len(open') = n - 1 /\ n - 1 \in Nat
  BY OpenFacts DEF Pops
<1>2. \A i \in 1 .. n - 1 :
        /\ open'[i].id = open[i + 1].id /\ open'[i].name = open[i + 1].name
        /\ open'[i].kind # "params"
        /\ open'[i].kind = "ended" => i = 1
        /\ open'[i].kind # "block" <=> open[i + 1].kind # "block"
  BY DEF Pops
<1> HIDE DEF n
<1>3. \A i \in 1 .. n - 1 : i + 1 \in 1 .. n
  BY <1>1
<1>4. OpenInv'
  <2>1. \A i \in 1 .. n - 1 : open'[i].id \in 1 .. begun
    BY <1>2, <1>3 DEF OpenInv, n
  <2>2. ASSUME NEW i \in 1 .. n - 1, NEW j \in 1 .. n - 1, i < j
        PROVE  open'[i].id > open'[j].id
    <3>1. i + 1 < j + 1 /\ i + 1 \in 1 .. n /\ j + 1 \in 1 .. n
      BY <1>3, <2>2
    <3>2. QED
      BY <1>2, <3>1 DEF OpenInv, n
  <2>3. \A i \in 1 .. n - 1 : open'[i].kind # "block" => open'[i].name \in Names
    BY <1>2, <1>3 DEF OpenInv, n
  <2>4. current_scope' = n - 1 /\ current_scope' \in 0 .. MaxDepth
    <3>1. current_scope = n /\ current_scope \in 0 .. MaxDepth
      BY DEF OpenInv, n
    <3>2. QED
      BY <1>1, <3>1, SymbolTableAssumption
  <2>5. \A i \in 1 .. n - 1 : open'[i].kind \in {"params", "ended"} => i = 1
    BY <1>2
  <2>6. begun' \in 0 .. MaxBlocks /\ open' \in Seq(Entries)
    BY DEF OpenInv, Pops
  <2>7. QED
    BY <1>1, <2>1, <2>2, <2>3, <2>4, <2>5, <2>6 DEF OpenInv
<1>5. ~InParams'
  <2>1. CASE open' = <<>>
    BY <2>1 DEF InParams, Here
  <2>2. CASE open' # <<>>
    <3>1. n - 1 # 0
      BY <1>1, <2>2, EmptySeq DEF Pops
    <3>2. 1 \in 1 .. n - 1
      BY <1>1, <3>1
    <3>3. QED
      BY <1>2, <2>2, <3>2 DEF InParams, Here
  <2>3. QED
    BY <2>1, <2>2
<1>6. ASSUME NEW p \in 0 .. n - 2
      PROVE  At(p)'.id = At(p).id /\ (At(p)'.kind # "block" <=> At(p).kind # "block")
  <2>1. PICK i : i = (n - 1) - p
    OBVIOUS
  <2>2. i \in 1 .. n - 1 /\ i + 1 = n - p
    BY <1>1, <2>1
  <2>3. At(p)' = open'[i]
    BY <1>1, <2>1 DEF At
  <2>4. At(p) = open[i + 1]
    BY <2>2 DEF At, n
  <2>5. QED
    BY <1>2, <2>2, <2>3, <2>4
<1>7. ASSUME NEW b, IsOpen(b)' PROVE IsOpen(b) /\ b # open[1].id
  <2>1. 1 \in 1 .. n
    BY <1>1
  <2>2. CASE b = 0
    BY <2>1, <2>2, OpenFacts DEF IsOpen, n
  <2>3. CASE b # 0
    <3>1. PICK i \in 1 .. n - 1 : open'[i].id = b
      BY <1>1, <1>7, <2>3 DEF IsOpen
    <3>2. i + 1 \in 1 .. n /\ 1 < i + 1 /\ open[i + 1].id = b
      BY <1>2, <1>3, <3>1
    <3>3. open[1].id > open[i + 1].id
      BY <2>1, <3>2 DEF OpenInv, n
    <3>4. open[1].id \in Nat /\ open[i + 1].id \in Nat
      BY <2>1, <3>2, OpenFacts DEF n
    <3>5. b # open[1].id
      BY <3>2, <3>3, <3>4
    <3>6. QED
      BY <3>2, <3>5 DEF IsOpen, n
  <2>4. QED
    BY <2>2, <2>3
<1>8. current_scope > 0
  BY <1>1 DEF OpenInv, n
<1>9. QED
  BY <1>4, <1>5, <1>6, <1>7, <1>8 DEF n

(* The symbols of the blocks that stay open are not hidden. *)
LEMMA EndKeepsDeclared ==
  ASSUME TableInv, Pops, current_scope' = current_scope - 1, begun' = begun,
         symbols' = Hidden(current_scope)
  PROVE  DeclaredInv'
<1> DEFINE n == Len(open)
<1>1. OpenInv /\ SymbolsInv /\ DeclaredInv
  BY DEF TableInv
<1>2. /\ ~InParams' /\ current_scope > 0
      /\ \A p \in 0 .. n - 2 : At(p)'.id = At(p).id
      /\ \A b : IsOpen(b)' => IsOpen(b) /\ b # open[1].id
  BY <1>1, Popped
<1>3. /\ SameSymbols
      /\ \A i \in 1 .. Len(symbols) :
           symbols[i].scope # current_scope => symbols'[i].isActive = symbols[i].isActive
  BY <1>1, HiddenFacts
<1>4. n \in Nat /\ n > 0 /\ Len(open') = n - 1 /\ current_scope = n
  BY <1>1, OpenFacts DEF Pops, OpenInv
<1>5. ASSUME NEW i \in 1 .. Len(symbols)
      PROVE  /\ symbols[i].block = 0 => symbols[i].scope = 0
             /\ \A p \in 0 .. n - 1 : At(p).id = symbols[i].block => symbols[i].scope = p + 1
             /\ IsOpen(symbols[i].block) => symbols[i].isActive
  BY <1>1 DEF DeclaredInv
<1>6. \A i, j \in 1 .. Len(symbols) :
        /\ symbols[i].name \in Names /\ symbols[j].name = symbols[i].name
        /\ symbols[j].block = symbols[i].block /\ IsOpen(symbols[i].block)
        => i = j
  BY <1>1 DEF DeclaredInv
<1> HIDE DEF n
<1>7. ASSUME NEW i \in 1 .. Len(symbols)
      PROVE  /\ symbols[i].block = 0 => symbols[i].scope = 0
             /\ \A p \in 0 .. (n - 1) - 1 :
                  At(p)'.id = symbols[i].block => symbols[i].scope = p + 1
             /\ IsOpen(symbols[i].block)' => symbols'[i].isActive
  <2>1. \A p \in 0 .. (n - 1) - 1 : p \in 0 .. n - 2 /\ p \in 0 .. n - 1
    BY <1>4
  <2>2. \A p \in 0 .. (n - 1) - 1 : At(p)'.id = symbols[i].block => symbols[i].scope = p + 1
    BY <1>2, <1>5, <2>1
  <2>3. PICK b : b = symbols[i].block
    OBVIOUS
  <2>4. IsOpen(b)' => symbols'[i].isActive
    <3> SUFFICES ASSUME IsOpen(b)' PROVE symbols'[i].isActive
      OBVIOUS
    <3>1. IsOpen(b) /\ b # open[1].id
      BY <1>2
    <3>2. symbols[i].scope # current_scope
      <4>1. CASE b = 0
        <5>1. symbols[i].scope = 0
          BY <1>5, <2>3, <4>1
        <5>2. QED
          BY <1>4, <5>1
      <4>2. CASE b # 0
        <5>1. PICK k \in 1 .. n : open[k].id = b
          BY <3>1, <4>2 DEF IsOpen, n
        <5>2. k # 1
          BY <3>1, <5>1
        <5>3. PICK p : p = n - k
          OBVIOUS
        <5>4. p \in 0 .. n - 1 /\ p + 1 # n
          BY <1>4, <5>2, <5>3
        <5>5. At(p).id = b
          BY <1>1, <5>1, <5>3, OpenFacts DEF n
        <5>6. symbols[i].scope = p + 1
          BY <1>5, <2>3, <5>4, <5>5
        <5>7. QED
          BY <1>4, <5>4, <5>6
      <4>3. QED
        BY <4>1, <4>2
    <3>3. QED
      BY <1>3, <1>5, <2>3, <3>1, <3>2
  <2>5. IsOpen(symbols[i].block)' => symbols'[i].isActive
    <3>1. b = symbols'[i].block
      BY <1>3, <2>3 DEF SameSymbols
    <3>2. QED
      BY <2>4, <3>1 DEF IsOpen
  <2>6. QED
    BY <1>5, <2>2, <2>5
<1>8. ASSUME NEW i \in 1 .. Len(symbols), NEW j \in 1 .. Len(symbols),
             symbols'[i].name \in Names, symbols'[j].name = symbols'[i].name,
             symbols'[j].block = symbols'[i].block, IsOpen(symbols[i].block)'
      PROVE  i = j
  <2>1. PICK b : b = symbols'[i].block
    OBVIOUS
  <2>2. b = symbols[i].block /\ IsOpen(b)'
    BY <1>3, <1>8, <2>1 DEF SameSymbols, IsOpen
  <2>3. IsOpen(symbols[i].block)
    BY <1>2, <2>2
  <2>4. QED
    BY <1>3, <1>6, <1>8, <2>3 DEF SameSymbols
<1>9. QED
  BY <1>2, <1>3, <1>4, <1>7, <1>8 DEF DeclaredInv, SameSymbols

LEMMA BlockEndKeeps ==
  ASSUME TableInv, BlockEnd
  PROVE  TableInv'
<1> DEFINE n == Len(open)
           m == Len(f_scopes_stack)
           f == f_scopes_stack
<1>1. /\ OpenInv /\ FunctionInv /\ SymbolsInv /\ PlacesInv /\ DeclaredInv
      /\ open # <<>> /\ open[1].kind = "block" /\ symbols' = Hidden(current_scope)
      /\ current_scope' = current_scope - 1 /\ begun' = begun
      /\ in_function' = (in_function
                         /\ function_scope \notin {current_scope, current_scope - 1})
      /\ UNCHANGED <<function_scope, f_scopes_stack, scopeSpaceCounter,
                     programVarOffset, functionLocalOffset, formalArgOffset,
                     scope_offset_stack, total_locals, error_flag>>
  BY DEF TableInv, BlockEnd, offsets, Proceed
<1>2. Pops
  BY <1>1, TailPops DEF BlockEnd
<1>3. /\ OpenInv' /\ ~InParams' /\ Len(open') = n - 1
      /\ \A p \in 0 .. n - 2 :
           At(p)'.id = At(p).id /\ (At(p)'.kind # "block" <=> At(p).kind # "block")
      /\ SameSymbols
  BY <1>1, <1>2, Popped, HiddenFacts DEF Pops
<1>4. /\ n \in Nat /\ n > 0 /\ m \in Nat /\ ~InParams /\ current_scope = n
      /\ function_scope \in Int
  BY <1>1, OpenFacts, FunFacts DEF InParams, Here, OpenInv, FunctionInv
<1> HIDE DEF n, m
<1>5. ASSUME NEW j \in 1 .. m PROVE f[j] \in 0 .. n - 2 /\ f[j] < n - 1
  <2>1. f[j] \in 0 .. n - 1 /\ At(f[j]).kind # "block"
    BY <1>1, FunFacts DEF n, m
  <2>2. n - (n - 1) = 1
    BY <1>4
  <2>3. At(n - 1).kind = "block"
    BY <1>1, <2>2 DEF At, n
  <2>4. f[j] # n - 1
    BY <2>1, <2>3
  <2>5. QED
    BY <1>4, <2>1, <2>4
<1>6. in_function' = in_function
  <2>1. in_function => function_scope \notin {current_scope, current_scope - 1}
    <3> SUFFICES ASSUME in_function
                 PROVE  function_scope \notin {current_scope, current_scope - 1}
      OBVIOUS
    <3>1. m # 0 /\ function_scope = f[m]
      BY <1>1, FunFacts DEF FunctionInv, m
    <3>2. m \in 1 .. m
      BY <1>4, <3>1
    <3>3. function_scope \in 0 .. n - 2
      BY <1>5, <3>1, <3>2
    <3>4. QED
      BY <1>4, <3>3
  <2>2. in_function \in BOOLEAN
    BY <1>1 DEF FunctionInv
  <2>3. QED
    BY <1>1, <2>1, <2>2
<1>7. FunctionInv'
  <2>1. ASSUME NEW p \in 0 .. (n - 1) - 1
        PROVE  At(p)'.kind # "block" <=> \E j \in 1 .. m : f[j] = p
    <3>1. p \in 0 .. n - 2 /\ p \in 0 .. n - 1
      BY <1>4
    <3>2. QED
      BY <1>1, <1>3, <3>1 DEF FunctionInv, n, m
  <2>2. QED
    BY <1>1, <1>3, <1>4, <1>5, <1>6, <2>1 DEF FunctionInv, m
<1>8. SymbolsInv'
  BY <1>1, <1>3 DEF SymbolsInv, SameSymbols
<1>9. ASSUME NEW j PROVE Fun(j)' = Fun(j)
  <2>1. CASE j \in 1 .. m
    <3>1. PICK p \in 0 .. n - 2 : p = f[j]
      BY <1>5, <2>1
    <3>2. Fun(j) = At(p).id /\ Fun(j)' = At(p)'.id
      BY <1>1, <2>1, <3>1 DEF Fun, m
    <3>3. QED
      BY <1>3, <3>2
  <2>2. CASE j \notin 1 .. m
    BY <1>1, <2>2 DEF Fun, m
  <2>3. QED
    BY <2>1, <2>2
<1>10. \A a, sp, o : Lie(a, sp, o)' <=> Lie(a, sp, o)
  BY <1>1, <1>3, SameLie
<1>11. PlacesInv'
  <2>1. currScopeSpace' = currScopeSpace /\ currScopeOffset' = currScopeOffset
    BY <1>1 DEF currScopeSpace, currScopeOffset
  <2>2. ASSUME NEW t \in total_locals
        PROVE  t.of \in 1 .. begun /\ \A i \in 1 .. n - 1 : open'[i].id # t.of
    <3>1. t.of \in 1 .. begun /\ \A i \in 1 .. n : open[i].id # t.of
      BY <1>1 DEF PlacesInv, n
    <3>2. \A i \in 1 .. n - 1 : open'[i].id = open[i + 1].id /\ i + 1 \in 1 .. n
      BY <1>2, <1>4 DEF Pops, n
    <3>3. QED
      BY <3>1, <3>2
  <2>3. Lie(Fun(1), currScopeSpace, currScopeOffset)'
    <3>1. PICK a, sp, o : a = Fun(1) /\ sp = currScopeSpace /\ o = currScopeOffset
      OBVIOUS
    <3>2. Lie(a, sp, o)'
      BY <1>1, <1>10, <3>1 DEF PlacesInv
    <3>3. a = Fun(1)' /\ sp = currScopeSpace' /\ o = currScopeOffset'
      BY <1>9, <2>1, <3>1
    <3>4. QED
      BY <3>2, <3>3
  <2>4. ASSUME NEW j \in 1 .. Len(scope_offset_stack)
        PROVE  Lie(Fun(j + 1), BodySpace(Fun(j + 1)), scope_offset_stack[j])'
    <3>1. PICK a, o : a = Fun(j + 1) /\ o = scope_offset_stack[j]
      OBVIOUS
    <3>2. PICK sp : sp = BodySpace(a)
      OBVIOUS
    <3>3. Lie(a, sp, o)'
      BY <1>1, <1>10, <3>1, <3>2 DEF PlacesInv
    <3>4. a = Fun(j + 1)' /\ o = scope_offset_stack'[j] /\ sp = BodySpace(Fun(j + 1)')
      BY <1>1, <1>9, <3>1, <3>2
    <3>5. QED
      BY <3>3, <3>4 DEF BodySpace
  <2>5. ASSUME NEW t \in total_locals PROVE Lie(t.of, "FUNCTION_LOCAL", t.n)'
    <3>1. PICK a, o : a = t.of /\ o = t.n
      OBVIOUS
    <3>2. Lie(a, "FUNCTION_LOCAL", o)'
      BY <1>1, <1>10, <3>1 DEF PlacesInv
    <3>3. QED
      BY <3>1, <3>2
  <2>6. QED
    BY <1>1, <1>3, <2>2, <2>3, <2>4, <2>5 DEF PlacesInv
<1>12. DeclaredInv'
  BY <1>1, <1>2, EndKeepsDeclared
<1>13. QED
  BY <1>3, <1>7, <1>8, <1>11, <1>12 DEF TableInv

LEMMA FuncEndKeeps ==
  ASSUME TableInv, FuncEnd
  PROVE  TableInv'
<1> DEFINE n == Len(open)
           m == Len(f_scopes_stack)
           f == f_scopes_stack
           g == scope_offset_stack
<1>1. /\ OpenInv /\ FunctionInv /\ SymbolsInv /\ PlacesInv /\ DeclaredInv
      /\ Here = "ended" /\ Here # "block" /\ ~InParams
      /\ symbols' = Hidden(current_scope)
      /\ current_scope' = current_scope - 1 /\ begun' = begun
      /\ in_function' = (in_function /\ current_scope - 1 # function_scope)
      /\ f_scopes_stack' = Tail(f) /\ scope_offset_stack' = Tail(g)
      /\ SetOffset(SpaceOf(scopeSpaceCounter - 2), Head(g))
      /\ scopeSpaceCounter' = scopeSpaceCounter - 2
      /\ total_locals' = total_locals \cup {[of |-> open[1].id, n |-> currScopeOffset]}
      /\ open' = Tail(open)
      /\ UNCHANGED <<function_scope, error_flag>>
  BY DEF TableInv, FuncEnd, Ending, Proceed, SpaceAround, StillIn, InParams
<1>2. /\ open # <<>> /\ f # <<>> /\ f[1] = n - 1 /\ Fun(1) = open[1].id
      /\ 1 \in 1 .. m
  BY <1>1, OnTop
<1>3. Pops
  BY <1>1, <1>2, TailPops
<1>4. /\ OpenInv' /\ ~InParams' /\ Len(open') = n - 1
      /\ \A p \in 0 .. n - 2 :
           At(p)'.id = At(p).id /\ (At(p)'.kind # "block" <=> At(p).kind # "block")
      /\ SameSymbols
  BY <1>1, <1>3, Popped, HiddenFacts DEF Pops
<1>5. n \in Nat /\ n > 0 /\ m \in Nat /\ current_scope = n /\ begun \in Nat
  BY <1>1, <1>2, OpenFacts, FunFacts DEF OpenInv
<1>6. /\ f' \in Seq(Nat) /\ Len(f') = m - 1
      /\ \A j \in 1 .. m - 1 : f'[j] = f[j + 1]
  <2> DEFINE S == Nat
  <2>1. f \in Seq(S)
    BY <1>1 DEF FunctionInv
  <2>2. /\ Tail(f) \in Seq(S) /\ Len(Tail(f)) = Len(f) - 1
        /\ \A j \in 1 .. Len(f) - 1 : Tail(f)[j] = f[j + 1]
    <3> HIDE DEF S, f
    <3>1. QED
      BY <1>2, <2>1, TailFacts
  <2>3. QED
    BY <1>1, <2>2
<1>7. /\ g' \in Seq(0 .. Len(symbols)) /\ Len(g') = m - 1
      /\ \A j \in 1 .. m - 1 : g'[j] = g[j + 1]
      /\ Head(g) = g[1] /\ g[1] \in 0 .. Len(symbols) /\ Len(g) = m
  <2> DEFINE S == 0 .. Len(symbols)
  <2>1. g \in Seq(S) /\ Len(g) = m /\ g # <<>>
    BY <1>1, <1>2, <1>5, EmptySeq DEF SymbolsInv
  <2>2. /\ Tail(g) \in Seq(S) /\ Len(Tail(g)) = Len(g) - 1
        /\ \A j \in 1 .. Len(g) - 1 : Tail(g)[j] = g[j + 1]
        /\ Head(g) = g[1] /\ g[1] \in S
    <3> HIDE DEF S, g, m
    <3>1. QED
      BY <2>1, TailFacts
  <2>3. QED
    BY <1>1, <2>1, <2>2
<1> HIDE DEF n, m
<1>8. ASSUME NEW j \in 1 .. m - 1
      PROVE  /\ j + 1 \in 1 .. m /\ f[j + 1] \in 0 .. n - 2 /\ f[j + 1] < n - 1
             /\ f'[j] = f[j + 1]
  <2>1. j + 1 \in 1 .. m /\ 1 < j + 1 /\ j + 1 \in Nat
    BY <1>5
  <2>2. f[1] > f[j + 1] /\ f[j + 1] \in 0 .. n - 1
    BY <1>1, <1>2, <2>1, FunFacts DEF FunctionInv, m, n
  <2>3. QED
    BY <1>2, <1>5, <1>6, <2>1, <2>2
<1>9. in_function' = (f' # <<>>) /\ (in_function' => function_scope = f'[Len(f')])
  <2>1. in_function = TRUE /\ function_scope = f[m]
    BY <1>1, <1>2 DEF FunctionInv, m
  <2>2. f' # <<>> <=> m # 1
    BY <1>5, <1>6, EmptySeq
  <2>3. CASE m = 1
    BY <1>1, <1>2, <1>5, <2>1, <2>2, <2>3
  <2>4. CASE m # 1
    <3>1. m - 1 \in 1 .. m - 1 /\ (m - 1) + 1 = m
      BY <1>2, <1>5, <2>4
    <3>2. f'[m - 1] = f[m] /\ f[m] \in 0 .. n - 2
      BY <1>8, <3>1
    <3>3. n - 1 # f[m]
      BY <1>5, <3>2
    <3>4. QED
      BY <1>1, <1>5, <1>6, <2>1, <2>2, <2>4, <3>2, <3>3
  <2>5. QED
    BY <2>3, <2>4
<1>10. FunctionInv'
  <2>1. ASSUME NEW j \in 1 .. m - 1, NEW k \in 1 .. m - 1, j < k
        PROVE  f'[j] > f'[k]
    <3>1. j + 1 \in 1 .. m /\ k + 1 \in 1 .. m /\ j + 1 < k + 1
      BY <1>8, <2>1
    <3>2. QED
      BY <1>1, <1>8, <3>1 DEF FunctionInv, m
  <2>2. ASSUME NEW p \in 0 .. (n - 1) - 1
        PROVE  At(p)'.kind # "block" <=> \E j \in 1 .. m - 1 : f'[j] = p
    <3>1. p \in 0 .. n - 2 /\ p \in 0 .. n - 1 /\ p # n - 1
      BY <1>5
    <3>2. At(p)'.kind # "block" <=> \E j \in 1 .. m : f[j] = p
      BY <1>1, <1>4, <3>1 DEF FunctionInv, n, m
    <3>3. (\E j \in 1 .. m - 1 : f'[j] = p) => \E j \in 1 .. m : f[j] = p
      BY <1>8
    <3>4. ASSUME NEW j \in 1 .. m, f[j] = p PROVE \E k \in 1 .. m - 1 : f'[k] = p
      <4>1. j # 1
        BY <1>2, <3>1, <3>4
      <4>2. PICK k : k = j - 1
        OBVIOUS
      <4>3. k \in 1 .. m - 1 /\ k + 1 = j
        BY <1>5, <4>1, <4>2
      <4>4. QED
        BY <1>8, <3>4, <4>3
    <3>5. QED
      BY <3>2, <3>3, <3>4
  <2>3. scopeSpaceCounter' = 2 * (m - 1) + 1 /\ m - 1 <= begun
    BY <1>1, <1>5 DEF FunctionInv, m
  <2>4. function_scope' \in -1 .. MaxDepth
    BY <1>1 DEF FunctionInv
  <2>5. (in_function' => function_scope' = f'[Len(f')])
        /\ \A j \in 1 .. m - 1 : f'[j] < n - 1
    BY <1>1, <1>8, <1>9
  <2>6. ~InParams' /\ Len(f') = m - 1 /\ Len(open') = n - 1 /\ begun' = begun
        /\ f' \in Seq(Nat) /\ in_function' = (f' # <<>>)
    BY <1>1, <1>4, <1>6, <1>9
  <2>7. QED
    BY <2>1, <2>2, <2>3, <2>4, <2>5, <2>6 DEF FunctionInv
<1>11. SymbolsInv'
  <2>1. {programVarOffset', functionLocalOffset', formalArgOffset'}
          \subseteq {programVarOffset, functionLocalOffset, formalArgOffset, g[1]}
    BY <1>1, <1>7 DEF SetOffset
  <2>2. {programVarOffset, functionLocalOffset, formalArgOffset, g[1]}
          \subseteq 0 .. Len(symbols)
    BY <1>1, <1>7 DEF SymbolsInv
  <2>3. {programVarOffset', functionLocalOffset', formalArgOffset'} \subseteq 0 .. Len(symbols)
    BY <2>1, <2>2
  <2>4. QED
    BY <1>1, <1>4, <1>6, <1>7, <2>3 DEF SymbolsInv, SameSymbols
<1>12. ASSUME NEW j \in Nat, j > 0, NEW k, k = j + 1 PROVE Fun(j)' = Fun(k)
  <2>1. CASE j \in 1 .. m - 1
    <3>1. PICK p \in 0 .. n - 2 : p = f[k]
      BY <1>8, <1>12, <2>1
    <3>2. Fun(k) = At(p).id /\ Fun(j)' = At(p)'.id
      BY <1>6, <1>8, <1>12, <2>1, <3>1 DEF Fun, m
    <3>3. QED
      BY <1>4, <3>2
  <2>2. CASE j \notin 1 .. m - 1
    <3>1. k \notin 1 .. m
      BY <1>5, <1>12, <2>2
    <3>2. QED
      BY <1>6, <2>2, <3>1 DEF Fun, m
  <2>3. QED
    BY <2>1, <2>2
<1>13. \A a, sp, o : Lie(a, sp, o)' <=> Lie(a, sp, o)
  BY <1>1, <1>4, SameLie
<1>14. ASSUME NEW j \in 1 .. m, NEW a, NEW sp, NEW o,
              a = Fun(j)', sp = BodySpace(a), o = g[j]
       PROVE  Lie(a, sp, o)'
  <2>1. a = Fun(j + 1)
    BY <1>5, <1>12, <1>14
  <2>2. Lie(a, sp, o)
    BY <1>1, <1>7, <1>14, <2>1 DEF PlacesInv
  <2>3. QED
    BY <1>13, <2>2
<1>15. currScopeSpace' = BodySpace(Fun(1)') /\ currScopeOffset' = g[1]
  <2>1. currScopeSpace' = BodySpace(Fun(1)')
    BY <1>4, <1>10, SpaceLater DEF SpaceKnown, BodySpace
  <2>2. PICK sp : sp = currScopeSpace'
    OBVIOUS
  <2>3. sp \in {"PROGRAM_VAR", "FUNCTION_LOCAL"} /\ SetOffset(sp, g[1])
    BY <1>1, <1>7, <2>1, <2>2 DEF BodySpace, currScopeSpace
  <2>4. currScopeOffset' = g[1]
    BY <2>2, <2>3 DEF SetOffset, currScopeOffset
  <2>5. QED
    BY <2>1, <2>4
<1>16. PlacesInv'
  <2>1. Lie(Fun(1), currScopeSpace, currScopeOffset)'
    <3>1. PICK a, sp, o : a = Fun(1)' /\ sp = currScopeSpace' /\ o = currScopeOffset'
      OBVIOUS
    <3>2. Lie(a, sp, o)'
      BY <1>2, <1>14, <1>15, <3>1
    <3>3. QED
      BY <3>1, <3>2
  <2>2. ASSUME NEW j \in 1 .. m - 1
        PROVE  Lie(Fun(j + 1), BodySpace(Fun(j + 1)), scope_offset_stack[j])'
    <3>1. PICK k, a, o : k = j + 1 /\ a = Fun(k)' /\ o = g[k]
      OBVIOUS
    <3>2. PICK sp : sp = BodySpace(a)
      OBVIOUS
    <3>3. k \in 1 .. m
      BY <1>8, <3>1
    <3>4. Lie(a, sp, o)'
      BY <1>14, <3>1, <3>2, <3>3
    <3>5. a = Fun(j + 1)' /\ o = scope_offset_stack'[j] /\ sp = BodySpace(Fun(j + 1)')
      BY <1>7, <3>1, <3>2
    <3>6. QED
      BY <3>4, <3>5 DEF BodySpace
  <2>3. ASSUME NEW t \in total_locals'
        PROVE  /\ t.of \in 1 .. begun /\ \A i \in 1 .. n - 1 : open'[i].id # t.of
               /\ Lie(t.of, "FUNCTION_LOCAL", t.n)'
    <3>1. \A i \in 1 .. n - 1 :
            open'[i].id = open[i + 1].id /\ i + 1 \in 1 .. n /\ i + 1 # 1
      BY <1>3, <1>5 DEF Pops, n
    <3>2. PICK a, o : a = t.of /\ o = t.n
      OBVIOUS
    <3>3. CASE t \in total_locals
      <4>1. a \in 1 .. begun /\ (\A i \in 1 .. n : open[i].id # a)
            /\ Lie(a, "FUNCTION_LOCAL", o)
        BY <1>1, <3>2, <3>3 DEF PlacesInv, n
      <4>2. Lie(a, "FUNCTION_LOCAL", o)'
        BY <1>13, <4>1
      <4>3. QED
        BY <3>1, <3>2, <4>1, <4>2
    <3>4. CASE t = [of |-> open[1].id, n |-> currScopeOffset]
      <4>1. a = open[1].id /\ a = Fun(1) /\ o = currScopeOffset
        BY <1>2, <3>2, <3>4
      <4>2. currScopeSpace = "FUNCTION_LOCAL" /\ a \in 1 .. begun
        BY <1>1, <1>2, <4>1, CurrentSpace, FunFacts DEF BodySpace, m
      <4>3. Lie(a, "FUNCTION_LOCAL", o)
        BY <1>1, <4>1, <4>2 DEF PlacesInv
      <4>4. Lie(a, "FUNCTION_LOCAL", o)'
        BY <1>13, <4>3
      <4>5. ASSUME NEW i \in 1 .. n - 1 PROVE open'[i].id # a
        <5>1. PICK k \in 1 .. n : k = i + 1 /\ k > 1 /\ open'[i].id = open[k].id
          BY <1>5, <3>1
        <5>2. 1 \in 1 .. n
          BY <1>5
        <5>3. open[1].id > open[k].id
          BY <1>1, <5>1, <5>2 DEF OpenInv, n
        <5>4. open[1].id \in Nat /\ open[k].id \in Nat
          BY <1>1, <5>2, OpenFacts DEF n
        <5>5. QED
          BY <4>1, <5>1, <5>3, <5>4
      <4>6. QED
        BY <3>2, <4>2, <4>4, <4>5
    <3>5. QED
      BY <1>1, <3>3, <3>4
  <2>4. QED
    BY <1>1, <1>4, <1>7, <2>1, <2>2, <2>3 DEF PlacesInv
<1>17. DeclaredInv'
  BY <1>1, <1>3, EndKeepsDeclared
<1>18. QED
  BY <1>4, <1>10, <1>11, <1>16, <1>17 DEF TableInv

LEMMA FuncBodyKeeps ==
  ASSUME TableInv, FuncBody
  PROVE  TableInv'
<1> DEFINE n == Len(open)
           m == Len(f_scopes_stack)
           z == Len(symbols)
<1>1. PICK s : s = [Symbol(open[1].name, "PROGRAM_FUNCTION_S") EXCEPT
                      !.scope = current_scope - 1, !.block = Outer]
  OBVIOUS
<1>2. /\ OpenInv /\ FunctionInv /\ SymbolsInv /\ PlacesInv /\ DeclaredInv
      /\ InParams /\ Here # "block" /\ z < MaxSymbols
      /\ symbols' = Append(symbols, s)
      /\ scopeSpaceCounter' = scopeSpaceCounter + 1 /\ functionLocalOffset' = 0
      /\ open' = [open EXCEPT ![1].kind = "function"]
      /\ UNCHANGED <<current_scope, in_function, function_scope, f_scopes_stack,
                     programVarOffset, formalArgOffset, scope_offset_stack, begun,
                     total_locals, error_flag>>
  BY <1>1 DEF TableInv, FuncBody, Proceed, scopes, Outer, InParams
<1>3. /\ open # <<>> /\ 1 \in 1 .. n /\ f_scopes_stack # <<>> /\ 1 \in 1 .. m
      /\ f_scopes_stack[1] = n - 1 /\ Fun(1) = open[1].id /\ open[1].kind = "params"
  BY <1>2, OnTop DEF InParams
<1>4. /\ n \in Nat /\ m \in Nat /\ z \in Nat /\ current_scope = n
      /\ currScopeOffset \in 0 .. z /\ MaxSymbols \in Nat /\ z <= MaxSymbols
  BY <1>2, OpenFacts, FunFacts, SymbolFacts DEF OpenInv, SymbolsInv
<1> HIDE DEF n, m, z
<1>5. PICK e : e = [open[1] EXCEPT !.kind = "function"]
  OBVIOUS
<1>6. /\ e \in Entries /\ e.kind = "function" /\ e.id = open[1].id /\ e.name = open[1].name
  <2>1. open[1] \in Entries
    BY <1>2, <1>3, OpenFacts DEF n
  <2>2. QED
    BY <1>5, <2>1 DEF Entries, Kinds
<1>7. /\ open' \in Seq(Entries) /\ Len(open') = n
      /\ \A i \in 1 .. n : open'[i] = IF i = 1 THEN e ELSE open[i]
  <2>1. open \in Seq(Entries) /\ 1 \in 1 .. Len(open)
    BY <1>2, <1>3 DEF OpenInv, n
  <2>2. open' = [open EXCEPT ![1] = e]
    BY <1>2, <1>5
  <2>3. QED
    BY <1>6, <2>1, <2>2, ExceptSeq DEF n
<1>8. \A i \in 1 .. n :
        /\ open'[i].id = open[i].id /\ open'[i].name = open[i].name
        /\ open'[i].kind \notin {"params", "ended"}
        /\ open'[i].kind # "block" <=> open[i].kind # "block"
  <2>1. \A i \in 1 .. n : i # 1 => open[i].kind \notin {"params", "ended"}
    BY <1>2 DEF OpenInv, n
  <2>2. QED
    BY <1>3, <1>6, <1>7, <2>1
<1>9. OpenInv'
  BY <1>2, <1>7, <1>8 DEF OpenInv, n
<1>10. ~InParams'
  <2>1. open' # <<>> /\ open'[1].kind # "params"
    BY <1>3, <1>4, <1>7, <1>8, EmptySeq
  <2>2. QED
    BY <2>1 DEF InParams, Here
<1>11. ASSUME NEW p \in 0 .. n - 1
       PROVE  At(p)'.id = At(p).id /\ (At(p)'.kind # "block" <=> At(p).kind # "block")
  <2>1. PICK i : i = n - p
    OBVIOUS
  <2>2. i \in 1 .. n
    BY <1>4, <2>1
  <2>3. At(p)' = open'[i] /\ At(p) = open[i]
    BY <1>7, <2>1 DEF At, n
  <2>4. QED
    BY <1>8, <2>2, <2>3
<1>12. FunctionInv'
  <2>1. scopeSpaceCounter' = 2 * m + 1
    BY <1>2, <1>4 DEF FunctionInv, m
  <2>2. \A p \in 0 .. n - 1 :
          At(p)'.kind # "block" <=> \E j \in 1 .. m : f_scopes_stack[j] = p
    BY <1>2, <1>11 DEF FunctionInv, n, m
  <2>3. QED
    BY <1>2, <1>7, <1>10, <2>1, <2>2 DEF FunctionInv, n, m
<1>13. ASSUME NEW j PROVE Fun(j)' = Fun(j)
  <2>1. CASE j \in 1 .. m
    <3>1. PICK p \in 0 .. n - 1 : p = f_scopes_stack[j]
      BY <1>2, <2>1, FunFacts DEF n, m
    <3>2. Fun(j) = At(p).id /\ Fun(j)' = At(p)'.id
      BY <1>2, <2>1, <3>1 DEF Fun, m
    <3>3. QED
      BY <1>11, <3>2
  <2>2. CASE j \notin 1 .. m
    BY <1>2, <2>2 DEF Fun, m
  <2>3. QED
    BY <2>1, <2>2
<1>14. Outer \in 0 .. begun
  <2>1. CASE n > 1
    <3>1. 2 \in 1 .. n
      BY <1>4, <2>1
    <3>2. QED
      BY <1>2, <2>1, <3>1 DEF Outer, OpenInv, n
  <2>2. CASE ~(n > 1)
    BY <1>2, <2>2 DEF Outer, OpenInv, n
  <2>3. QED
    BY <2>1, <2>2
<1>15. /\ s.name = open[1].name /\ s.type = "PROGRAM_FUNCTION_S" /\ s.scope = n - 1
       /\ s.isActive = TRUE /\ s.block = Outer /\ s.of = Fun(1)
       /\ s.space = currScopeSpace /\ s.offset = currScopeOffset
  BY <1>1, <1>2, <1>4, ReadingFacts DEF Symbol
<1>16. s \in Symbols /\ s.block <= begun /\ s.of <= begun
  <2>1. open[1].name \in Names \cup {"$temp"}
    BY <1>2, <1>3 DEF OpenInv, n
  <2>2. n - 1 \in 0 .. MaxDepth
    BY <1>2, <1>3, <1>4, SymbolTableAssumption DEF OpenInv
  <2>3. currScopeSpace \in Spaces /\ Fun(1) \in 0 .. begun
    BY <1>2, CurrentSpace
  <2>4. currScopeOffset \in 0 .. MaxSymbols
    BY <1>4
  <2>5. Outer \in 0 .. MaxBlocks /\ Fun(1) \in 0 .. MaxBlocks
        /\ Outer <= begun /\ Fun(1) <= begun
    BY <1>2, <1>14, <2>3, SymbolTableAssumption DEF OpenInv
  <2>6. s = [name |-> open[1].name, type |-> "PROGRAM_FUNCTION_S", scope |-> n - 1,
             isActive |-> TRUE, space |-> currScopeSpace, offset |-> currScopeOffset,
             block |-> Outer, of |-> Fun(1)]
    BY <1>1, <1>2, <1>4, ReadingFacts DEF Symbol
  <2>7. s \in Symbols
    BY <2>1, <2>2, <2>3, <2>4, <2>5, <2>6 DEF Symbols
  <2>8. QED
    BY <1>15, <2>5, <2>7
<1>17. /\ symbols' \in Seq(Symbols) /\ Len(symbols') = z + 1
       /\ \A i \in 1 .. z : symbols'[i] = symbols[i]
       /\ symbols'[z + 1] = s
  BY <1>2, <1>16 DEF SymbolsInv, z
<1>18. \A i \in 1 .. z + 1 : i \in 1 .. z \/ i = z + 1
  BY <1>4
<1>19. SymbolsInv'
  <2>1. {programVarOffset', functionLocalOffset', formalArgOffset'} \subseteq 0 .. z + 1
    <3>1. {programVarOffset, formalArgOffset} \subseteq 0 .. z
      BY <1>2 DEF SymbolsInv, z
    <3>2. 0 .. z \subseteq 0 .. z + 1 /\ 0 \in 0 .. z + 1
      BY <1>4
    <3>3. QED
      BY <1>2, <3>1, <3>2
  <2>2. scope_offset_stack \in Seq(0 .. z + 1)
    <3>1. 0 .. z \subseteq 0 .. z + 1 /\ scope_offset_stack \in Seq(0 .. z)
      BY <1>2, <1>4 DEF SymbolsInv, z
    <3>2. QED
      BY <3>1, SeqMonotonic
  <2>3. z + 1 <= MaxSymbols
    BY <1>2, <1>4
  <2>4. \A i \in 1 .. z + 1 : symbols'[i].block <= begun /\ symbols'[i].of <= begun
    BY <1>2, <1>16, <1>17, <1>18 DEF SymbolsInv, z
  <2>5. QED
    BY <1>2, <1>17, <2>1, <2>2, <2>3, <2>4 DEF SymbolsInv
<1>20. \A a, sp, o : Lie(a, sp, o)' <=> Lie(a, sp, o)
  <2>1. \A i \in 1 .. z : Holds(i)' <=> Holds(i)
    BY <1>17 DEF Holds
  <2>2. \A i : i = z + 1 => ~Holds(i)'
    BY <1>15, <1>17 DEF Holds
  <2>3. ASSUME NEW a, NEW sp, NEW o, Lie(a, sp, o) PROVE Lie(a, sp, o)'
    <3> SUFFICES ASSUME NEW i \in 1 .. z + 1, Holds(i)', symbols'[i].of = a,
                        symbols'[i].space = sp
                 PROVE  symbols'[i].offset < o
      BY <1>17 DEF Lie
    <3>1. i \in 1 .. z
      BY <1>18, <2>2
    <3>2. QED
      BY <1>17, <2>1, <2>3, <3>1 DEF Lie, z
  <2>4. ASSUME NEW a, NEW sp, NEW o, Lie(a, sp, o)' PROVE Lie(a, sp, o)
    <3>1. \A i \in 1 .. z : i \in 1 .. z + 1
      BY <1>4
    <3>2. QED
      BY <1>17, <2>1, <2>4, <3>1 DEF Lie, z
  <2>5. QED
    BY <2>3, <2>4
<1>21. PlacesInv'
  <2>1. Lie(Fun(1), currScopeSpace, currScopeOffset)'
    <3>1. PICK a, sp, o : a = Fun(1) /\ sp = currScopeSpace' /\ o = currScopeOffset'
      OBVIOUS
    <3>2. a # 0
      BY <1>2, <1>3, <3>1, OpenFacts DEF n
    <3>3. sp = "FUNCTION_LOCAL"
      BY <1>9, <1>10, <1>12, <1>13, <3>1, <3>2, SpaceLater DEF SpaceKnown, BodySpace
    <3>4. Lie(a, sp, o)
      BY <1>2, <3>1, <3>3 DEF PlacesInv, Lie
    <3>5. QED
      BY <1>13, <1>20, <3>1, <3>4
  <2>2. ASSUME NEW j \in 1 .. Len(scope_offset_stack)
        PROVE  Lie(Fun(j + 1), BodySpace(Fun(j + 1)), scope_offset_stack[j])'
    <3>1. PICK a, o : a = Fun(j + 1) /\ o = scope_offset_stack[j]
      OBVIOUS
    <3>2. PICK sp : sp = BodySpace(a)
      OBVIOUS
    <3>3. Lie(a, sp, o)'
      BY <1>2, <1>20, <3>1, <3>2 DEF PlacesInv
    <3>4. a = Fun(j + 1)' /\ o = scope_offset_stack'[j] /\ sp = BodySpace(Fun(j + 1)')
      BY <1>2, <1>13, <3>1, <3>2
    <3>5. QED
      BY <3>3, <3>4 DEF BodySpace
  <2>3. ASSUME NEW t \in total_locals
        PROVE  /\ t.of \in 1 .. begun /\ \A i \in 1 .. n : open'[i].id # t.of
               /\ Lie(t.of, "FUNCTION_LOCAL", t.n)'
    <3>1. PICK a, o : a = t.of /\ o = t.n
      OBVIOUS
    <3>2. a \in 1 .. begun /\ (\A i \in 1 .. n : open[i].id # a)
          /\ Lie(a, "FUNCTION_LOCAL", o)
      BY <1>2, <3>1 DEF PlacesInv, n
    <3>3. Lie(a, "FUNCTION_LOCAL", o)'
      BY <1>20, <3>2
    <3>4. QED
      BY <1>8, <3>1, <3>2, <3>3
  <2>4. QED
    BY <1>2, <1>7, <1>10, <2>1, <2>2, <2>3 DEF PlacesInv
<1>22. \A b : IsOpen(b)' <=> IsOpen(b)
  BY <1>7, <1>8 DEF IsOpen, n
<1>23. DeclaredInv'
  <2>1. ASSUME NEW i \in 1 .. z + 1
        PROVE  /\ symbols'[i].block = 0 => symbols'[i].scope = 0
               /\ \A p \in 0 .. n - 1 :
                    At(p).id = symbols'[i].block => symbols'[i].scope = p + 1
               /\ IsOpen(symbols'[i].block) => symbols'[i].isActive
    <3>1. CASE i \in 1 .. z
      BY <1>2, <1>17, <3>1 DEF DeclaredInv, n, z
    <3>2. CASE i = z + 1
      <4>1. s.block = 0 => s.scope = 0
        <5>1. CASE n > 1
          <6>1. 2 \in 1 .. n
            BY <1>4, <5>1
          <6>2. Outer = open[2].id /\ open[2].id # 0
            BY <1>2, <5>1, <6>1, OpenFacts DEF Outer, n
          <6>3. QED
            BY <1>15, <6>2
        <5>2. CASE ~(n > 1)
          BY <1>3, <1>4, <1>15, <5>2
        <5>3. QED
          BY <5>1, <5>2
      <4>2. ASSUME NEW p \in 0 .. n - 1, At(p).id = s.block PROVE s.scope = p + 1
        <5>1. At(p).id # 0
          BY <1>2, OpenFacts DEF n
        <5>2. n > 1 /\ Outer = open[2].id
          BY <1>15, <4>2, <5>1 DEF Outer, n
        <5>3. PICK q : q = n - 2
          OBVIOUS
        <5>4. q \in 0 .. n - 1 /\ n - q = 2 /\ q + 1 = n - 1
          BY <1>4, <5>2, <5>3
        <5>5. At(q).id = At(p).id
          BY <1>15, <4>2, <5>2, <5>4 DEF At, n
        <5>6. p = q
          BY <1>2, <5>4, <5>5, OpenFacts DEF n
        <5>7. QED
          BY <1>15, <5>4, <5>6
      <4>3. QED
        BY <1>15, <1>17, <3>2, <4>1, <4>2
    <3>3. QED
      BY <1>18, <3>1, <3>2
  <2>2. \A i \in 1 .. z : symbols[i].name = s.name => symbols[i].block # s.block
    BY <1>2, <1>15 DEF DeclaredInv, z
  <2>3. ASSUME NEW i \in 1 .. z + 1, NEW j \in 1 .. z + 1,
               symbols'[i].name \in Names, symbols'[j].name = symbols'[i].name,
               symbols'[j].block = symbols'[i].block, IsOpen(symbols'[i].block)
        PROVE  i = j
    <3>1. CASE i \in 1 .. z /\ j \in 1 .. z
      BY <1>2, <1>17, <2>3, <3>1 DEF DeclaredInv, z
    <3>2. CASE i = z + 1 /\ j \in 1 .. z
      BY <1>17, <2>2, <2>3, <3>2
    <3>3. CASE i \in 1 .. z /\ j = z + 1
      BY <1>17, <2>2, <2>3, <3>3
    <3>4. QED
      BY <1>18, <3>1, <3>2, <3>3
  <2>4. \A i \in 1 .. z + 1 : \A p \in 0 .. n - 1 :
          At(p)'.id = symbols'[i].block => symbols'[i].scope = p + 1
    BY <1>11, <2>1
  <2>5. QED
    BY <1>7, <1>10, <1>17, <1>22, <2>1, <2>3, <2>4 DEF DeclaredInv
<1>24. QED
  BY <1>9, <1>12, <1>19, <1>21, <1>23 DEF TableInv

-----------------------------------------------------------------------------
(* Names *)

LEMMA FoundFacts ==
  ASSUME SymbolsInv, NEW name, NEW T \in SUBSET Nat
  PROVE  /\ Found(name, T) \in SUBSET Nat
         /\ Found(name, T) # {} =>
              /\ Min(Found(name, T)) \in T /\ LookScope(name, Min(Found(name, T))) # 0
              /\ \A y \in T : y < Min(Found(name, T)) => LookScope(name, y) = 0
<1> DEFINE F == Found(name, T)
<1>1. F \in SUBSET Nat /\ \A y \in T : LookScope(name, y) # 0 => y \in F
  BY DEF Found
<1>2. \A y \in F : y \in T /\ LookScope(name, y) # 0
  BY DEF Found
<1> HIDE DEF F
<1>3. ASSUME F # {}
      PROVE  /\ Min(F) \in T /\ LookScope(name, Min(F)) # 0
             /\ \A y \in T : y < Min(F) => LookScope(name, y) = 0
  <2>1. Min(F) \in F /\ \A y \in F : Min(F) <= y
    BY <1>1, <1>3, MinFacts
  <2>2. ASSUME NEW y \in T, y < Min(F) PROVE LookScope(name, y) = 0
    <3>1. y \in Nat /\ Min(F) \in Nat /\ ~(Min(F) <= y)
      <4>1. Min(F) \in Nat
        BY <1>1, <2>1
      <4>2. QED
        BY <2>2, <4>1
    <3>2. y \notin F
      BY <2>1, <3>1
    <3>3. QED
      BY <1>1, <3>2
  <2>3. QED
    BY <1>2, <2>1, <2>2
<1>4. QED
  BY <1>1, <1>3 DEF F

LEMMA FoundMax ==
  ASSUME SymbolsInv, NEW name, NEW k \in Int, Found(name, 0 .. k) # {}
  PROVE  /\ Max(Found(name, 0 .. k)) \in 0 .. k
         /\ LookScope(name, Max(Found(name, 0 .. k))) # 0
         /\ \A y \in 0 .. k : y > Max(Found(name, 0 .. k)) => LookScope(name, y) = 0
<1> DEFINE F == Found(name, 0 .. k)
<1>1. F \subseteq 0 .. k /\ \A y \in 0 .. k : LookScope(name, y) # 0 => y \in F
  BY DEF Found
<1>2. F # {} /\ \A y \in F : LookScope(name, y) # 0
  BY DEF Found
<1> HIDE DEF F
<1>3. Max(F) \in F /\ \A y \in F : Max(F) >= y
  BY <1>1, <1>2, MaxFacts
<1>4. ASSUME NEW y \in 0 .. k, y > Max(F) PROVE LookScope(name, y) = 0
  <2>1. y \in Int /\ Max(F) \in Int /\ ~(Max(F) >= y)
    <3>1. Max(F) \in 0 .. k
      BY <1>1, <1>3
    <3>2. QED
      BY <1>4, <3>1
  <2>2. y \notin F
    BY <1>3, <2>1
  <2>3. QED
    BY <1>1, <2>2
<1>5. QED
  BY <1>1, <1>2, <1>3, <1>4 DEF F

LEMMA LookupFacts ==
  ASSUME OpenInv, FunctionInv, SymbolsInv, NEW name
  PROVE  /\ Lookup(name) \in 0 .. Len(symbols)
         /\ Redefined(name) => Lookup(name) # 0
<1>1. CASE ~in_function
  <2>1. current_scope \in Int
    BY DEF OpenInv
  <2>2. QED
    BY <1>1, <2>1, FoundMax, LookFacts, SymbolFacts DEF Lookup, Redefined
<1>2. CASE in_function
  <2> DEFINE T == Head(f_scopes_stack) + 1 .. current_scope
             own    == Found(name, T)
             nested == {j \in function_scope + 1 .. current_scope - 2 :
                          IsFunction(LookScope(name, j))}
             global == Found(name, 0 .. function_scope)
  <2>1. T \in SUBSET Nat
    <3>1. f_scopes_stack # <<>> /\ f_scopes_stack \in Seq(Nat)
      BY <1>2 DEF FunctionInv
    <3>2. PICK h \in Nat : h = Head(f_scopes_stack)
      BY <3>1, EmptySeq
    <3>3. current_scope \in Nat
      BY DEF OpenInv
    <3>4. QED
      BY <3>2, <3>3
  <2>2. Lookup(name) = CASE own # {} -> LookScope(name, Min(own))
                         [] own = {} /\ global # {} -> LookScope(name, Max(global))
                         [] own = {} /\ global = {} /\ nested # {}
                              -> LookScope(name, Max(nested))
                         [] OTHER -> 0
    BY <1>2 DEF Lookup, InFunctionLookup
  <2>3. Redefined(name) <=> own # {}
    BY <1>2 DEF Redefined
  <2>4. own # {} => LookScope(name, Min(own)) # 0
    <3> HIDE DEF T
    <3>1. QED
      BY <2>1, FoundFacts
  <2> HIDE DEF own, nested, global
  <2>5. \A j : LookScope(name, j) \in 0 .. Len(symbols)
    BY LookFacts
  <2>6. 0 \in 0 .. Len(symbols)
    BY SymbolFacts
  <2>7. QED
    BY <2>2, <2>3, <2>4, <2>5, <2>6
<1>3. QED
  BY <1>1, <1>2

-----------------------------------------------------------------------------
(* The invariant *)

RefInv == ref.symbol \in 0 .. Len(symbols)

LEMMA InitTable ==
  ASSUME Init
  PROVE  TableInv /\ PlacesDistinct /\ RefInv
<1>1. /\ Len(symbols) = 0 /\ Len(open) = 0 /\ Len(f_scopes_stack) = 0
      /\ Len(scope_offset_stack) = 0 /\ Here = "block" /\ ~InParams
      /\ DOMAIN symbols = {} /\ 1 .. 0 = {} /\ 0 .. 0 - 1 = {}
  BY DEF Init, Here, InParams
<1>2. OpenInv
  BY <1>1, SymbolTableAssumption DEF Init, OpenInv
<1>3. FunctionInv
  <2>1. f_scopes_stack \in Seq(Nat) /\ f_scopes_stack = <<>>
    BY DEF Init
  <2>2. in_function = FALSE /\ function_scope = -1 /\ scopeSpaceCounter = 1 /\ begun = 0
    BY DEF Init
  <2>3. function_scope \in -1 .. MaxDepth
    BY <2>2, SymbolTableAssumption
  <2>4. scopeSpaceCounter = 2 * Len(f_scopes_stack) + (IF InParams THEN 0 ELSE 1)
    BY <1>1, <2>2
  <2>5. in_function = (f_scopes_stack # <<>>) /\ Len(f_scopes_stack) <= begun
    <3>1. Len(f_scopes_stack) <= begun
      BY <1>1, <2>2
    <3>2. (f_scopes_stack # <<>>) = FALSE
      BY <2>1
    <3>3. QED
      BY <2>2, <3>1, <3>2
  <2>6. 1 .. Len(f_scopes_stack) = {} /\ 0 .. Len(open) - 1 = {}
    BY <1>1
  <2>7. QED
    BY <2>1, <2>2, <2>3, <2>4, <2>5, <2>6 DEF FunctionInv
<1>4. SymbolsInv
  <2>1. symbols \in Seq(Symbols) /\ scope_offset_stack \in Seq(0 .. Len(symbols))
    BY DEF Init
  <2>2. programVarOffset = 0 /\ functionLocalOffset = 0 /\ formalArgOffset = 0
        /\ error_flag \in BOOLEAN /\ Len(scope_offset_stack) = Len(f_scopes_stack)
    BY <1>1 DEF Init
  <2>3. QED
    BY <1>1, <2>1, <2>2, SymbolTableAssumption DEF SymbolsInv
<1>5. PlacesInv
  BY <1>1 DEF Init, PlacesInv, Lie
<1>6. DeclaredInv
  BY <1>1 DEF Init, DeclaredInv
<1>7. PlacesDistinct /\ RefInv
  BY <1>1 DEF Init, PlacesDistinct, RefInv, NoRef
<1>8. QED
  BY <1>2, <1>3, <1>4, <1>5, <1>6, <1>7 DEF TableInv

(* A declaration keeps the places distinct: what the function has used of  *)
(* the space lies below the offset.                                        *)
LEMMA DeclareDistinct ==
  ASSUME TableInv, PlacesDistinct, NEW name, NEW type, Declare(Symbol(name, type))
  PROVE  PlacesDistinct'
<1> DEFINE z == Len(symbols)
<1>1. PICK s : s = Symbol(name, type)
  OBVIOUS
<1>2. s.of = Fun(1) /\ s.space = currScopeSpace /\ s.offset = currScopeOffset
  BY <1>1, ReadingFacts DEF Symbol, TableInv
<1>3. symbols' = Append(symbols, s) /\ symbols \in Seq(Symbols) /\ z \in Nat
      /\ DOMAIN symbols = 1 .. z
  BY <1>1, SymbolFacts DEF Declare, TableInv, SymbolsInv
<1>4. /\ DOMAIN symbols' = 1 .. z + 1 /\ symbols'[z + 1] = s
      /\ \A i \in 1 .. z : symbols'[i] = symbols[i]
  BY <1>3
<1> HIDE DEF z
<1>5. \A i \in 1 .. z :
        /\ Holds(i) /\ symbols[i].of = s.of /\ symbols[i].space = s.space
        => symbols[i].offset # s.offset
  <2>1. Lie(Fun(1), currScopeSpace, currScopeOffset)
    BY DEF TableInv, PlacesInv
  <2>2. \A i \in 1 .. z : symbols[i].offset \in Nat
    BY SymbolFacts, SymbolTableAssumption DEF TableInv, Symbols, z
  <2>3. currScopeOffset \in Nat
    BY SymbolFacts DEF TableInv
  <2>4. QED
    BY <1>2, <2>1, <2>2, <2>3 DEF Lie, z
<1>6. \A i \in 1 .. z : Holds(i)' <=> Holds(i)
  BY <1>4 DEF Holds
<1> SUFFICES ASSUME NEW i \in 1 .. z + 1, NEW j \in 1 .. z + 1, i # j, Holds(i)', Holds(j)',
                    symbols'[i].of = symbols'[j].of, symbols'[i].space = symbols'[j].space
             PROVE  symbols'[i].offset # symbols'[j].offset
  BY <1>4 DEF PlacesDistinct
<1>7. (i \in 1 .. z \/ i = z + 1) /\ (j \in 1 .. z \/ j = z + 1)
  BY <1>3
<1>8. CASE i \in 1 .. z /\ j \in 1 .. z
  BY <1>3, <1>4, <1>6, <1>8 DEF PlacesDistinct
<1>9. CASE i = z + 1 /\ j \in 1 .. z
  BY <1>4, <1>5, <1>6, <1>9
<1>10. CASE i \in 1 .. z /\ j = z + 1
  BY <1>4, <1>5, <1>6, <1>10
<1>11. QED
  BY <1>7, <1>8, <1>9, <1>10

LEMMA DeclareStep ==
  ASSUME TableInv, PlacesDistinct, NEW name \in Names \cup {"$temp"},
         NEW type \in {"VAR_S", "TEMP_VAR_S"},
         Declare(Symbol(name, type)), NoChange, UNCHANGED error_flag,
         name \in Names =>
           \A i \in 1 .. Len(symbols) : symbols[i].name = name => symbols[i].block # Block
  PROVE  TableInv' /\ PlacesDistinct' /\ Len(symbols') = Len(symbols) + 1
<1>1. TableInv'
  BY DeclareKeeps
<1>2. PlacesDistinct'
  BY DeclareDistinct
<1>3. Len(symbols') = Len(symbols) + 1
  BY DEF Declare, TableInv, SymbolsInv
<1>4. QED
  BY <1>1, <1>2, <1>3

LEMMA UseKeeps ==
  ASSUME TableInv, PlacesDistinct, NEW name \in Names, Use(name)
  PROVE  TableInv' /\ PlacesDistinct' /\ RefInv'
<1>1. OpenInv /\ FunctionInv /\ SymbolsInv /\ DeclaredInv /\ NoChange /\ UNCHANGED error_flag
  BY DEF TableInv, Use, Proceed
<1>2. CASE Lookup(name) # 0
  <2>1. Refer(name, Lookup(name)) /\ UNCHANGED <<symbols, offsets>>
    BY <1>2 DEF Use
  <2>2. error_flag' \in BOOLEAN
    BY <1>1 DEF SymbolsInv
  <2>3. TableInv'
    BY <1>1, <2>1, <2>2, SameKeeps DEF NoChange
  <2>4. PlacesDistinct'
    BY <2>1 DEF PlacesDistinct, Holds
  <2>5. RefInv'
    BY <1>1, <2>1, LookupFacts DEF Refer, RefInv
  <2>6. QED
    BY <2>3, <2>4, <2>5
<1>3. CASE Lookup(name) = 0
  <2>1. Declare(Symbol(name, "VAR_S")) /\ Refer(name, Len(symbols) + 1)
    BY <1>3 DEF Use
  <2>2. ~Redefined(name)
    BY <1>1, <1>3, LookupFacts
  <2>3. \A i \in 1 .. Len(symbols) : symbols[i].name = name => symbols[i].block # Block
    BY <1>1, <2>2, NotRedefined
  <2>4. TableInv' /\ PlacesDistinct' /\ Len(symbols') = Len(symbols) + 1
    BY <1>1, <2>1, <2>3, DeclareStep
  <2>5. RefInv'
    BY <1>1, <2>1, <2>4, SymbolFacts DEF Refer, RefInv
  <2>6. QED
    BY <2>4, <2>5
<1>4. QED
  BY <1>2, <1>3

LEMMA DeclarationKeeps ==
  ASSUME TableInv, PlacesDistinct, RefInv,
         \/ NewTemp
         \/ \E name \in Names : Local(name) \/ FirstParam(name) \/ NextParam(name)
  PROVE  TableInv' /\ PlacesDistinct' /\ RefInv'
<1>1. /\ OpenInv /\ FunctionInv /\ SymbolsInv /\ DeclaredInv /\ NoChange
      /\ UNCHANGED error_flag /\ ref' = NoRef
  BY DEF TableInv, NewTemp, Local, FirstParam, NextParam, Proceed
<1>2. Len(symbols') \in Nat => RefInv'
  BY <1>1 DEF RefInv, NoRef
<1>3. Len(symbols) \in Nat
  BY <1>1, SymbolFacts
<1>4. CASE NewTemp
  <2>1. Declare(Symbol("$temp", "TEMP_VAR_S")) /\ "$temp" \notin Names
    BY <1>4, SymbolTableAssumption DEF NewTemp
  <2>2. TableInv' /\ PlacesDistinct' /\ Len(symbols') = Len(symbols) + 1
    BY <1>1, <2>1, DeclareStep
  <2>3. QED
    BY <1>2, <1>3, <2>2
<1>5. ASSUME NEW name \in Names, Local(name) PROVE TableInv' /\ PlacesDistinct' /\ RefInv'
  <2>1. CASE LookScope(name, current_scope) # 0
    <3>1. UNCHANGED <<symbols, offsets>> /\ error_flag' \in BOOLEAN
      BY <1>1, <1>5, <2>1 DEF Local, SymbolsInv
    <3>2. TableInv'
      BY <1>1, <3>1, SameKeeps DEF NoChange
    <3>3. PlacesDistinct'
      BY <3>1 DEF PlacesDistinct, Holds
    <3>4. QED
      BY <1>2, <1>3, <3>1, <3>2, <3>3
  <2>2. CASE LookScope(name, current_scope) = 0
    <3>1. Declare(Symbol(name, "VAR_S"))
      BY <1>5, <2>2 DEF Local
    <3>2. \A i \in 1 .. Len(symbols) : symbols[i].name = name => symbols[i].block # Block
      BY <1>1, <2>2, NotDeclared
    <3>3. TableInv' /\ PlacesDistinct' /\ Len(symbols') = Len(symbols) + 1
      BY <1>1, <3>1, <3>2, DeclareStep
    <3>4. QED
      BY <1>2, <1>3, <3>3
  <2>3. QED
    BY <2>1, <2>2
<1>6. ASSUME NEW name \in Names, FirstParam(name) \/ NextParam(name)
      PROVE  TableInv' /\ PlacesDistinct' /\ RefInv'
  <2>1. Declare(Symbol(name, "VAR_S")) /\ InParams
    BY <1>6 DEF FirstParam, NextParam
  <2>2. \A i \in 1 .. Len(symbols) : symbols[i].name = name => symbols[i].block # Block
    <3>1. CASE FirstParam(name)
      <4>1. Block = open[1].id
        BY <1>1, <2>1, OnTop DEF Block, InParams
      <4>2. QED
        BY <1>1, <2>1, <3>1, <4>1 DEF FirstParam, DeclaredInv
    <3>2. CASE NextParam(name)
      BY <1>1, <3>2, NotDeclared DEF NextParam
    <3>3. QED
      BY <1>6, <3>1, <3>2
  <2>3. TableInv' /\ PlacesDistinct' /\ Len(symbols') = Len(symbols) + 1
    BY <1>1, <2>1, <2>2, DeclareStep
  <2>4. QED
    BY <1>2, <1>3, <2>3
<1>7. QED
  BY <1>4, <1>5, <1>6

(* Where no variable is declared, places stay distinct. *)
LEMMA BlocksDistinct ==
  ASSUME TableInv, PlacesDistinct,
         \/ SameSymbols
         \/ FuncBody
  PROVE  PlacesDistinct'
<1> DEFINE z == Len(symbols)
<1>1. symbols \in Seq(Symbols) /\ z \in Nat /\ DOMAIN symbols = 1 .. z
  BY SymbolFacts DEF TableInv, SymbolsInv
<1>2. CASE SameSymbols
  <2>1. DOMAIN symbols' = 1 .. z
    BY <1>2, LenProperties DEF SameSymbols
  <2>2. QED
    BY <1>1, <1>2, <2>1 DEF PlacesDistinct, SameSymbols, Holds
<1>3. CASE FuncBody
  <2>1. PICK s : symbols' = Append(symbols, s) /\ s.type = "PROGRAM_FUNCTION_S"
    <3>1. PICK b : symbols' = Append(symbols, [Symbol(open[1].name, "PROGRAM_FUNCTION_S") EXCEPT
                                                 !.scope = current_scope - 1, !.block = b])
      BY <1>3 DEF FuncBody
    <3>2. PICK s : s = [Symbol(open[1].name, "PROGRAM_FUNCTION_S") EXCEPT
                          !.scope = current_scope - 1, !.block = b]
      OBVIOUS
    <3>3. s.type = "PROGRAM_FUNCTION_S"
      BY <3>2 DEF Symbol
    <3>4. QED
      BY <3>1, <3>2, <3>3
  <2>2. /\ DOMAIN symbols' = 1 .. z + 1 /\ symbols'[z + 1] = s
        /\ \A i \in 1 .. z : symbols'[i] = symbols[i]
    BY <1>1, <2>1
  <2> HIDE DEF z
  <2>3. \A i : i = z + 1 => ~Holds(i)'
    BY <2>1, <2>2 DEF Holds
  <2>4. \A i \in 1 .. z + 1 : i \in 1 .. z \/ i = z + 1
    BY <1>1
  <2>5. \A i \in 1 .. z : Holds(i)' <=> Holds(i)
    BY <2>2 DEF Holds
  <2>6. \A i \in DOMAIN symbols' : Holds(i)' => i \in 1 .. z /\ Holds(i)
    BY <2>2, <2>3, <2>4, <2>5
  <2>7. QED
    BY <1>1, <2>2, <2>6 DEF PlacesDistinct
<1>4. QED
  BY <1>2, <1>3

LEMMA OtherKeeps ==
  ASSUME TableInv, PlacesDistinct, RefInv,
         \/ BlockBegin \/ BlockEnd \/ FuncBody \/ FuncEnd
         \/ \E name \in Names : FuncPrefix(name)
  PROVE  TableInv' /\ PlacesDistinct' /\ RefInv'
<1>1. SymbolsInv /\ symbols \in Seq(Symbols)
  BY DEF TableInv, SymbolsInv
<1>2. TableInv'
  BY BlockBeginKeeps, BlockEndKeeps, FuncBodyKeeps, FuncEndKeeps, FuncPrefixKeeps
<1>3. PlacesDistinct'
  <2>1. CASE BlockBegin \/ \E name \in Names : FuncPrefix(name)
    <3>1. UNCHANGED symbols
      <4>1. BlockBegin => UNCHANGED symbols
        BY Zenon DEF BlockBegin
      <4>2. (\E name \in Names : FuncPrefix(name)) => UNCHANGED symbols
        BY DEF FuncPrefix
      <4>3. QED
        BY <2>1, <4>1, <4>2
    <3>2. QED
      BY <1>1, <3>1, BlocksDistinct DEF SameSymbols
  <2>2. CASE BlockEnd \/ FuncEnd
    <3>1. symbols' = Hidden(current_scope)
      BY <2>2 DEF BlockEnd, FuncEnd, Ending
    <3>2. QED
      BY <1>1, <3>1, HiddenFacts, BlocksDistinct
  <2>3. CASE FuncBody
    BY <2>3, BlocksDistinct
  <2>4. QED
    BY <2>1, <2>2, <2>3
<1>4. RefInv'
  <2>1. ref' = NoRef
    <3>1. BlockBegin => ref' = NoRef
      BY Zenon DEF BlockBegin
    <3>2. QED
      BY <3>1 DEF BlockEnd, FuncBody, FuncEnd, Ending, FuncPrefix
  <2>2. Len(symbols') \in Nat
    BY <1>2, LenProperties DEF TableInv, SymbolsInv
  <2>3. QED
    BY <2>1, <2>2 DEF RefInv, NoRef
<1>5. QED
  BY <1>2, <1>3, <1>4

LEMMA TableStep ==
  TableInv /\ PlacesDistinct /\ RefInv /\ [Next]_vars
    => TableInv' /\ PlacesDistinct' /\ RefInv'
<1> SUFFICES ASSUME TableInv, PlacesDistinct, RefInv, [Next]_vars
             PROVE  TableInv' /\ PlacesDistinct' /\ RefInv'
  OBVIOUS
<1>1. ASSUME error_flag' \in BOOLEAN, ref' = ref \/ ref' = NoRef,
             UNCHANGED <<symbols, scopes, scopeSpaceCounter, offsets, open, begun,
                         total_locals>>
      PROVE  TableInv' /\ PlacesDistinct' /\ RefInv'
  <2>1. TableInv'
    BY <1>1, SameKeeps
  <2>2. PlacesDistinct'
    BY <1>1 DEF PlacesDistinct, Holds
  <2>3. Len(symbols) \in Nat
    BY SymbolFacts DEF TableInv
  <2>4. RefInv'
    BY <1>1, <2>3 DEF RefInv, NoRef
  <2>5. QED
    BY <2>1, <2>2, <2>4
<1>2. CASE LocalError \/ GlobalError \/ RedefinitionError
  BY <1>1, <1>2 DEF LocalError, GlobalError, RedefinitionError, Error
<1>3. CASE Stopped \/ UNCHANGED vars
  <2>1. error_flag \in BOOLEAN
    BY DEF TableInv, SymbolsInv
  <2>2. QED
    BY <1>1, <1>3, <2>1 DEF Stopped, vars
<1>4. CASE \E name \in Names : Use(name)
  BY <1>4, UseKeeps
<1>5. CASE NewTemp \/ \E name \in Names : Local(name) \/ FirstParam(name) \/ NextParam(name)
  BY <1>5, DeclarationKeeps
<1>6. CASE BlockBegin \/ BlockEnd \/ FuncBody \/ FuncEnd
           \/ \E name \in Names : FuncPrefix(name)
  BY <1>6, OtherKeeps
<1>7. QED
  BY <1>2, <1>3, <1>4, <1>5, <1>6 DEF Next

LEMMA TableInvariant == Spec => [](TableInv /\ PlacesDistinct /\ RefInv)
<1>1. Init => TableInv /\ PlacesDistinct /\ RefInv
  BY InitTable
<1>2. QED
  BY <1>1, TableStep, PTL DEF Spec

-----------------------------------------------------------------------------
(* What a name is taken for *)

(* Every declaration of the name is in a block that is open. *)
AllOpen(name) ==
  \A i \in 1 .. Len(symbols) : symbols[i].name = name => IsOpen(symbols[i].block)

(* The block of a scope, when it is open. *)
BlockAt(scope) == IF scope = 0 THEN 0 ELSE At(scope - 1).id

LEMMA BlockAtFacts ==
  ASSUME OpenInv
  PROVE  /\ \A s, t \in 0 .. current_scope : s <= t => BlockAt(s) <= BlockAt(t)
         /\ \A s \in 0 .. current_scope : BlockAt(s) \in Nat /\ IsOpen(BlockAt(s))
<1> DEFINE n == Len(open)
<1>1. n \in Nat /\ current_scope = n
  BY OpenFacts DEF OpenInv
<1>2. ASSUME NEW s \in 0 .. n, s # 0
      PROVE  /\ s - 1 \in 0 .. n - 1 /\ BlockAt(s) = At(s - 1).id
             /\ n - (s - 1) \in 1 .. n /\ BlockAt(s) = open[n - (s - 1)].id
             /\ BlockAt(s) \in Nat /\ IsOpen(BlockAt(s))
  <2>1. s - 1 \in 0 .. n - 1 /\ n - (s - 1) \in 1 .. n
    BY <1>1, <1>2
  <2>2. BlockAt(s) = open[n - (s - 1)].id /\ BlockAt(s) = At(s - 1).id
    BY <1>2 DEF BlockAt, At
  <2>3. open[n - (s - 1)].id \in Nat
    BY <2>1, OpenFacts
  <2>4. QED
    BY <2>1, <2>2, <2>3 DEF IsOpen
<1>3. BlockAt(0) = 0 /\ IsOpen(0)
  BY DEF BlockAt, IsOpen
<1> HIDE DEF n
<1>4. ASSUME NEW s \in 0 .. n, NEW t \in 0 .. n, s <= t
      PROVE  BlockAt(s) <= BlockAt(t)
  <2>1. CASE s = 0
    BY <1>2, <1>3, <2>1
  <2>2. CASE s # 0 /\ s = t
    BY <1>2, <2>2
  <2>3. CASE s # 0 /\ s # t
    <3>1. t # 0 /\ s < t
      BY <1>1, <1>4, <2>3
    <3>2. PICK i, j : i = n - (t - 1) /\ j = n - (s - 1)
      OBVIOUS
    <3>3. i < j /\ i \in 1 .. n /\ j \in 1 .. n
      BY <1>1, <1>2, <2>3, <3>1, <3>2
    <3>4. open[i].id > open[j].id
      BY <3>3 DEF OpenInv, n
    <3>5. BlockAt(s) = open[j].id /\ BlockAt(t) = open[i].id
          /\ BlockAt(s) \in Nat /\ BlockAt(t) \in Nat
      BY <1>2, <2>3, <3>1, <3>2
    <3>6. QED
      BY <3>4, <3>5
  <2>4. QED
    BY <2>1, <2>2, <2>3
<1>5. QED
  BY <1>1, <1>2, <1>3, <1>4 DEF n

(* Then a scope holds the name at most once, in the block that is open at  *)
(* that depth, and lookScope finds it.                                     *)
LEMMA OpenNames ==
  ASSUME TableInv, NEW name \in Names, AllOpen(name),
         NEW i \in 1 .. Len(symbols), symbols[i].name = name
  PROVE  /\ symbols[i].scope \in 0 .. current_scope
         /\ symbols[i].block = BlockAt(symbols[i].scope)
         /\ LookScope(name, symbols[i].scope) = i
<1>1. OpenInv /\ SymbolsInv /\ DeclaredInv
  BY DEF TableInv
<1>2. ASSUME NEW k \in 1 .. Len(symbols), symbols[k].name = name
      PROVE  /\ symbols[k].scope \in 0 .. current_scope
             /\ symbols[k].block = BlockAt(symbols[k].scope)
             /\ symbols[k].isActive /\ IsOpen(symbols[k].block)
  <2>1. IsOpen(symbols[k].block)
    BY <1>2 DEF AllOpen
  <2>2. symbols[k].isActive
    BY <1>1, <2>1 DEF DeclaredInv
  <2>3. CASE symbols[k].block = 0
    <3>1. symbols[k].scope = 0 /\ current_scope \in Nat
      BY <1>1, <2>3 DEF DeclaredInv, OpenInv
    <3>2. QED
      BY <2>1, <2>2, <2>3, <3>1 DEF BlockAt
  <2>4. CASE symbols[k].block # 0
    <3>1. PICK j \in 1 .. Len(open) : open[j].id = symbols[k].block
      BY <2>1, <2>4 DEF IsOpen
    <3>2. PICK p : p = Len(open) - j
      OBVIOUS
    <3>3. p \in 0 .. Len(open) - 1 /\ p + 1 \in 0 .. current_scope /\ p + 1 # 0
          /\ (p + 1) - 1 = p
      BY <1>1, <3>2, OpenFacts DEF OpenInv
    <3>4. At(p).id = symbols[k].block
      BY <1>1, <3>1, <3>2, OpenFacts
    <3>5. symbols[k].scope = p + 1
      BY <1>1, <3>3, <3>4 DEF DeclaredInv
    <3>6. QED
      BY <2>1, <2>2, <3>3, <3>4, <3>5 DEF BlockAt
  <2>5. QED
    BY <2>3, <2>4
<1>3. PICK s : s = symbols[i].scope
  OBVIOUS
<1>4. i \in Matches(name, s)
  BY <1>1, <1>2, <1>3, SymbolFacts DEF Matches
<1>5. PICK k : k = LookScope(name, s)
  OBVIOUS
<1>6. k \in Matches(name, s) /\ k \in 1 .. Len(symbols)
  BY <1>1, <1>4, <1>5, LookFacts
<1>7. symbols[k].name = name /\ symbols[k].scope = s
  BY <1>6 DEF Matches
<1>8. symbols[k].block = symbols[i].block
  BY <1>2, <1>3, <1>6, <1>7
<1>9. k = i
  BY <1>1, <1>2, <1>6, <1>7, <1>8 DEF DeclaredInv
<1>10. QED
  BY <1>2, <1>3, <1>5, <1>9

(* What lookScope finds in a scope. *)
LEMMA Looked ==
  ASSUME SymbolsInv, NEW name, NEW s, LookScope(name, s) # 0
  PROVE  /\ LookScope(name, s) \in 1 .. Len(symbols)
         /\ symbols[LookScope(name, s)].name = name
         /\ symbols[LookScope(name, s)].scope = s
<1>1. PICK k : k = LookScope(name, s)
  OBVIOUS
<1>2. k \in Matches(name, s) /\ k \in 1 .. Len(symbols)
  BY <1>1, LookFacts
<1>3. QED
  BY <1>1, <1>2 DEF Matches

(* The lookup takes a symbol that is visible, if there is one, and outside *)
(* of functions the innermost.                                             *)
Takes(name) ==
  /\ Lookup(name) = 0 => Visible(name) = {}
  /\ Lookup(name) # 0 => Lookup(name) \in Visible(name)

LEMMA ProgramTakes ==
  ASSUME TableInv, NEW name \in Names, AllOpen(name), ~in_function
  PROVE  /\ Takes(name)
         /\ \A j \in Visible(name) :
              Lookup(name) # 0 => symbols[j].block <= symbols[Lookup(name)].block
<1> DEFINE c == current_scope
           all == Found(name, 0 .. c)
<1>1. OpenInv /\ FunctionInv /\ SymbolsInv
  BY DEF TableInv
<1>2. c \in Nat /\ c \in Int
  BY <1>1 DEF OpenInv
<1>3. Lookup(name) = IF all = {} THEN 0 ELSE LookScope(name, Max(all))
  BY DEF Lookup
<1>4. all # {} => /\ Max(all) \in 0 .. c /\ LookScope(name, Max(all)) # 0
                  /\ \A y \in 0 .. c : y > Max(all) => LookScope(name, y) = 0
  BY <1>1, <1>2, FoundMax
<1>5. ASSUME NEW i \in 1 .. Len(symbols), symbols[i].name = name
      PROVE  i \in Visible(name)
  <2>1. IsOpen(symbols[i].block)
    BY <1>5 DEF AllOpen
  <2>2. Reading = 0
    <3>1. f_scopes_stack = <<>>
      BY <1>1 DEF FunctionInv
    <3>2. Fun(1) = 0
      BY <1>1, <3>1, CurrentSpace, FunFacts
    <3>3. QED
      BY <1>1, <3>2, ReadingFacts
  <2>3. symbols[i].block \in OwnBlocks \cup ProgramBlocks
    BY <1>1, <2>1, <2>2, OpenFacts DEF OwnBlocks, ProgramBlocks, Ids, IsOpen
  <2>4. QED
    BY <1>1, <1>5, <2>3, SymbolFacts DEF Visible
<1>6. \A i \in Visible(name) : i \in 1 .. Len(symbols) /\ symbols[i].name = name
  BY <1>1, SymbolFacts DEF Visible
<1>7. ASSUME NEW i \in 1 .. Len(symbols), symbols[i].name = name
      PROVE  symbols[i].scope \in all
  <2>1. symbols[i].scope \in 0 .. c /\ LookScope(name, symbols[i].scope) = i /\ i # 0
    BY <1>7, OpenNames
  <2>2. QED
    BY <2>1 DEF Found
<1>8. CASE all = {}
  BY <1>3, <1>6, <1>7, <1>8 DEF Takes
<1>9. CASE all # {}
  <2>1. PICK m : m = Max(all)
    OBVIOUS
  <2>2. PICK k : k = LookScope(name, m)
    OBVIOUS
  <2>3. Lookup(name) = k /\ k # 0 /\ m \in 0 .. c
    BY <1>3, <1>4, <1>9, <2>1, <2>2
  <2>4. k \in 1 .. Len(symbols) /\ symbols[k].name = name /\ symbols[k].scope = m
    BY <1>1, <2>2, <2>3, Looked
  <2>5. ASSUME NEW j \in Visible(name) PROVE symbols[j].block <= symbols[k].block
    <3>1. j \in 1 .. Len(symbols) /\ symbols[j].name = name
      BY <1>6
    <3>2. PICK s : s = symbols[j].scope
      OBVIOUS
    <3>3. s \in 0 .. c /\ LookScope(name, s) = j /\ symbols[j].block = BlockAt(s) /\ j # 0
      BY <3>1, <3>2, OpenNames
    <3>4. ~(s > m)
      BY <1>4, <1>9, <2>1, <3>3
    <3>5. s <= m
      BY <1>2, <2>3, <3>3, <3>4
    <3>6. symbols[k].block = BlockAt(m)
      BY <2>4, OpenNames
    <3>7. QED
      BY <1>1, <2>3, <3>3, <3>5, <3>6, BlockAtFacts
  <2>6. k \in Visible(name)
    BY <1>5, <2>4
  <2>7. QED
    BY <2>3, <2>5, <2>6 DEF Takes
<1>10. QED
  BY <1>8, <1>9

(* In a function: its own scopes, those around the outermost function, and *)
(* the functions in between.                                               *)
LEMMA FunctionScopes ==
  ASSUME OpenInv, FunctionInv, in_function, Statements, NEW s \in 0 .. current_scope
  PROVE  /\ f_scopes_stack # <<>> /\ Head(f_scopes_stack) = f_scopes_stack[1]
         /\ f_scopes_stack[1] \in 0 .. current_scope - 2
         /\ function_scope \in 0 .. current_scope - 2
         /\ s \in f_scopes_stack[1] + 1 .. current_scope <=> BlockAt(s) \in OwnBlocks
         /\ s \in 0 .. function_scope <=> BlockAt(s) \in ProgramBlocks
         /\ BlockAt(s) \in Ids(DOMAIN open) \cup {0}
<1> DEFINE n == Len(open)
           m == Len(f_scopes_stack)
           h == f_scopes_stack[1]
<1>1. /\ n \in Nat /\ m \in Nat /\ current_scope = n /\ f_scopes_stack # <<>>
      /\ m # 0 /\ f_scopes_stack \in Seq(Nat) /\ function_scope = f_scopes_stack[m]
  BY OpenFacts, FunFacts DEF OpenInv, FunctionInv
<1>2. 1 \in 1 .. m /\ m \in 1 .. m
  BY <1>1
<1>3. Head(f_scopes_stack) = h
  <2> DEFINE S == Nat
  <2>1. f_scopes_stack \in Seq(S)
    BY <1>1
  <2> HIDE DEF S
  <2>2. QED
    BY <1>1, <2>1, TailFacts
<1>4. h \in 0 .. n - 1 /\ function_scope \in 0 .. n - 1 /\ At(h).kind # "block"
  BY <1>1, <1>2, FunFacts
<1>5. h >= function_scope
  <2>1. 1 < m => f_scopes_stack[1] > f_scopes_stack[m]
    BY <1>2 DEF FunctionInv
  <2> HIDE DEF m
  <2>2. 1 < m \/ m = 1
    BY <1>1
  <2>3. QED
    BY <1>1, <1>4, <2>1, <2>2
<1>6. h \in 0 .. n - 2 /\ function_scope \in 0 .. n - 2
  <2>1. n > 0
    BY <1>1, <1>4
  <2>2. open # <<>> /\ n - (n - 1) = 1
    BY <1>1, <2>1, OpenFacts
  <2>3. At(n - 1).kind = "block"
    BY <2>2 DEF Statements, Here, At
  <2>4. h # n - 1
    BY <1>4, <2>3
  <2>5. QED
    BY <1>1, <1>4, <1>5, <2>4
<1>7. /\ Min(Functions(open)) = n - h /\ Max(Functions(open)) = n - function_scope
      /\ Functions(open) # {} /\ Reading # 0
      /\ n - function_scope \in Functions(open)
      /\ \A j \in Functions(open) : j <= n - function_scope
  <2>1. /\ Min(Functions(open)) = n - h /\ Max(Functions(open)) = n - function_scope
        /\ Functions(open) # {} /\ Functions(open) \subseteq 1 .. n
    BY <1>1, ReadingFacts
  <2>2. Reading # 0
    BY <1>1, ReadingFacts, CurrentSpace
  <2>3. /\ Max(Functions(open)) \in Functions(open)
        /\ \A j \in Functions(open) : Max(Functions(open)) >= j
    <3>1. n \in Int /\ Functions(open) \subseteq 0 .. n
      BY <1>1, <2>1
    <3> HIDE DEF n
    <3>2. QED
      BY <2>1, <3>1, MaxFacts
  <2>4. ASSUME NEW j \in Functions(open) PROVE j <= n - function_scope
    <3>1. n - function_scope >= j
      BY <2>1, <2>3
    <3>2. j \in Int /\ n - function_scope \in Int
      BY <1>1, <1>4, <2>1
    <3>3. QED
      BY <3>1, <3>2
  <2>5. QED
    BY <2>1, <2>2, <2>3, <2>4
<1>8. DOMAIN open = 1 .. n /\ \A i \in 1 .. n : open[i].id # 0
  BY OpenFacts
<1> HIDE DEF n, m, h
<1>9. s # 0 => BlockAt(s) = open[n - (s - 1)].id /\ n - (s - 1) \in 1 .. n
  BY <1>1 DEF BlockAt, At, n
<1>10. ASSUME NEW i \in 1 .. n, open[i].id = BlockAt(s) PROVE s # 0 /\ i = n - (s - 1)
  <2>1. s # 0
    BY <1>8, <1>10 DEF BlockAt
  <2>2. PICK j \in 1 .. n : j = n - (s - 1)
    BY <1>9, <2>1
  <2>3. open[i].id = open[j].id /\ open[i].id \in Nat
    BY <1>9, <1>10, <2>1, <2>2, OpenFacts DEF n
  <2>4. (i < j => open[i].id > open[j].id) /\ (j < i => open[j].id > open[i].id)
    BY DEF OpenInv, n
  <2>5. ~(i < j) /\ ~(j < i)
    BY <2>3, <2>4
  <2>6. i = j
    BY <1>1, <2>5
  <2>7. QED
    BY <2>1, <2>2, <2>6
<1>11. s \in h + 1 .. n <=> BlockAt(s) \in OwnBlocks
  <2>1. OwnBlocks = Ids(1 .. n - h)
    BY <1>7 DEF OwnBlocks
  <2>2. ASSUME s \in h + 1 .. n PROVE BlockAt(s) \in OwnBlocks
    <3>1. s # 0 /\ n - (s - 1) \in 1 .. n - h
      BY <1>1, <1>6, <2>2
    <3>2. QED
      BY <1>9, <2>1, <3>1 DEF Ids
  <2>3. ASSUME BlockAt(s) \in OwnBlocks PROVE s \in h + 1 .. n
    <3>1. PICK i \in 1 .. n - h : open[i].id = BlockAt(s)
      BY <2>1, <2>3 DEF Ids
    <3>2. i \in 1 .. n
      BY <1>1, <1>6
    <3>3. i = n - (s - 1)
      BY <1>10, <3>1, <3>2
    <3>4. QED
      BY <1>1, <1>6, <3>3
  <2>4. QED
    BY <2>2, <2>3
<1>12. BlockAt(s) \in ProgramBlocks => s \in 0 .. function_scope
  <2> SUFFICES ASSUME BlockAt(s) \in ProgramBlocks, s # 0 PROVE s \in 0 .. function_scope
    BY <1>6
  <2>1. BlockAt(s) # 0
    BY <1>8, <1>9
  <2>2. PICK i \in 1 .. n : open[i].id = BlockAt(s) /\ \A j \in Functions(open) : i > j
    BY <1>8, <2>1 DEF ProgramBlocks, Ids
  <2>3. i = n - (s - 1)
    BY <1>10, <2>2
  <2>4. i > n - function_scope
    BY <1>7, <2>2
  <2>5. QED
    BY <1>1, <1>6, <2>3, <2>4
<1>13. s \in 0 .. function_scope => BlockAt(s) \in ProgramBlocks
  <2> SUFFICES ASSUME s \in 0 .. function_scope, s # 0 PROVE BlockAt(s) \in ProgramBlocks
    BY DEF BlockAt, ProgramBlocks
  <2>1. PICK i : i = n - (s - 1)
    OBVIOUS
  <2>2. i \in 1 .. n /\ i > n - function_scope
    BY <1>1, <1>6, <2>1
  <2>3. \A j \in Functions(open) : i > j
    <3>1. \A j \in Functions(open) : j \in 1 .. n
      BY <1>8 DEF Functions
    <3>2. QED
      BY <1>1, <1>4, <1>7, <2>2, <3>1
  <2>4. QED
    BY <1>8, <1>9, <2>1, <2>2, <2>3 DEF ProgramBlocks, Ids
<1>14. BlockAt(s) \in Ids(DOMAIN open) \cup {0}
  <2>1. CASE s = 0
    BY <2>1 DEF BlockAt
  <2>2. CASE s # 0
    BY <1>8, <1>9, <2>2 DEF Ids
  <2>3. QED
    BY <2>1, <2>2
<1>15. QED
  BY <1>1, <1>3, <1>6, <1>11, <1>12, <1>13, <1>14 DEF h

LEMMA FunctionTakes ==
  ASSUME TableInv, NEW name \in Names, AllOpen(name), in_function, Statements
  PROVE  Takes(name)
<1> DEFINE c == current_scope
           h == f_scopes_stack[1]
           own    == Found(name, h + 1 .. c)
           nested == {j \in function_scope + 1 .. c - 2 : IsFunction(LookScope(name, j))}
           global == Found(name, 0 .. function_scope)
<1>1. OpenInv /\ FunctionInv /\ SymbolsInv
  BY DEF TableInv
<1>2. c \in Nat /\ 0 \in 0 .. c
  BY <1>1 DEF OpenInv
<1>3. /\ Head(f_scopes_stack) = h /\ h \in 0 .. c - 2 /\ function_scope \in 0 .. c - 2
  BY <1>1, <1>2, FunctionScopes
<1>4. Lookup(name) = CASE own # {} -> LookScope(name, Min(own))
                       [] own = {} /\ global # {} -> LookScope(name, Max(global))
                       [] own = {} /\ global = {} /\ nested # {}
                            -> LookScope(name, Max(nested))
                       [] OTHER -> 0
  BY <1>3 DEF Lookup, InFunctionLookup
<1>5. ASSUME NEW s \in 0 .. c
      PROVE  /\ s \in h + 1 .. c <=> BlockAt(s) \in OwnBlocks
             /\ s \in 0 .. function_scope <=> BlockAt(s) \in ProgramBlocks
             /\ BlockAt(s) \in Ids(DOMAIN open) \cup {0}
  BY <1>1, FunctionScopes
<1>6. own # {} => Min(own) \in h + 1 .. c /\ LookScope(name, Min(own)) # 0
  <2> DEFINE T == h + 1 .. c
  <2>1. T \in SUBSET Nat
    BY <1>2, <1>3
  <2> HIDE DEF T
  <2>2. Found(name, T) # {} => Min(Found(name, T)) \in T
                               /\ LookScope(name, Min(Found(name, T))) # 0
    BY <1>1, <2>1, FoundFacts
  <2>3. QED
    BY <2>2 DEF T
<1>7. global # {} => Max(global) \in 0 .. function_scope /\ LookScope(name, Max(global)) # 0
  <2>1. function_scope \in Int
    BY <1>2, <1>3
  <2>2. QED
    BY <1>1, <2>1, FoundMax
<1>8. nested # {} => Max(nested) \in 0 .. c - 2 /\ IsFunction(LookScope(name, Max(nested)))
  <2>1. nested \subseteq 0 .. c - 2 /\ c - 2 \in Int
    BY <1>2, <1>3
  <2>2. \A j \in nested : IsFunction(LookScope(name, j))
    OBVIOUS
  <2> HIDE DEF nested
  <2>3. nested # {} => Max(nested) \in nested
    BY <2>1, MaxFacts
  <2>4. QED
    BY <2>1, <2>2, <2>3
<1>9. \A i \in Visible(name) :
        /\ i \in 1 .. Len(symbols) /\ symbols[i].name = name
        /\ \/ symbols[i].block \in OwnBlocks \cup ProgramBlocks
           \/ IsFunction(i)
  BY <1>1, SymbolFacts DEF Visible
<1>10. ASSUME NEW i \in 1 .. Len(symbols), symbols[i].name = name
       PROVE  /\ symbols[i].scope \in 0 .. c
              /\ symbols[i].block = BlockAt(symbols[i].scope)
              /\ LookScope(name, symbols[i].scope) = i /\ i # 0
  BY <1>10, OpenNames
<1>11. ASSUME NEW i \in Visible(name) PROVE Lookup(name) # 0
  <2>1. PICK s : s = symbols[i].scope
    OBVIOUS
  <2>2. s \in 0 .. c /\ symbols[i].block = BlockAt(s) /\ LookScope(name, s) = i /\ i # 0
    BY <1>9, <1>10, <2>1
  <2>3. s \in h + 1 .. c => own # {}
    BY <2>2 DEF Found
  <2>4. s \in 0 .. function_scope => global # {}
    BY <2>2 DEF Found
  <2>5. s \notin h + 1 .. c /\ s \notin 0 .. function_scope => nested # {}
    <3> SUFFICES ASSUME s \notin h + 1 .. c, s \notin 0 .. function_scope
                 PROVE  nested # {}
      OBVIOUS
    <3>1. IsFunction(LookScope(name, s))
      BY <1>5, <1>9, <2>2
    <3>2. s \in function_scope + 1 .. c - 2
      BY <1>2, <1>3, <2>2
    <3>3. QED
      BY <3>1, <3>2
  <2>6. nested # {} => LookScope(name, Max(nested)) # 0
    BY <1>8 DEF IsFunction
  <2> HIDE DEF own, nested, global
  <2>7. own # {} \/ global # {} \/ nested # {}
    BY <2>3, <2>4, <2>5
  <2>8. QED
    BY <1>4, <1>6, <1>7, <2>6, <2>7
<1>12. ASSUME Lookup(name) # 0 PROVE Lookup(name) \in Visible(name)
  <2>1. PICK k : k = Lookup(name)
    OBVIOUS
  <2>2. \/ \E s \in h + 1 .. c : k = LookScope(name, s)
        \/ \E s \in 0 .. function_scope : k = LookScope(name, s)
        \/ \E s \in 0 .. c - 2 : k = LookScope(name, s) /\ IsFunction(k)
    <3> HIDE DEF own, nested, global
    <3>1. QED
      BY <1>4, <1>6, <1>7, <1>8, <1>12, <2>1
  <2>3. PICK s \in 0 .. c : /\ k = LookScope(name, s)
                            /\ s \in h + 1 .. c \/ s \in 0 .. function_scope \/ IsFunction(k)
    <3>1. /\ \A s \in h + 1 .. c : s \in 0 .. c
          /\ \A s \in 0 .. function_scope : s \in 0 .. c
          /\ \A s \in 0 .. c - 2 : s \in 0 .. c
      BY <1>2, <1>3
    <3>2. QED
      BY <2>2, <3>1
  <2>4. k \in 1 .. Len(symbols) /\ symbols[k].name = name /\ symbols[k].scope = s
    BY <1>1, <1>12, <2>1, <2>3, Looked
  <2>5. symbols[k].block = BlockAt(s)
    BY <1>10, <2>4
  <2>6. CASE s \in h + 1 .. c \/ s \in 0 .. function_scope
    BY <1>1, <1>5, <2>1, <2>4, <2>5, <2>6, SymbolFacts DEF Visible
  <2>7. CASE s \notin 0 .. function_scope /\ IsFunction(k)
    <3>1. BlockAt(s) \in Ids(DOMAIN open)
      <4>1. 0 \in 0 .. function_scope
        BY <1>3
      <4>2. s # 0
        BY <2>7, <4>1
      <4>3. BlockAt(s) # 0
        BY <1>1, <1>2, <1>3, <1>5, <2>7 DEF ProgramBlocks
      <4>4. QED
        BY <1>5, <4>3
    <3>2. QED
      BY <1>1, <2>1, <2>4, <2>5, <2>7, <3>1, SymbolFacts DEF Visible
  <2>8. QED
    BY <2>3, <2>6, <2>7
<1>13. QED
  BY <1>11, <1>12 DEF Takes

(* Unless a second visible declaration is in the way, the symbol that is   *)
(* taken is the innermost.                                                 *)
LEMMA TakesInnermost ==
  ASSUME TableInv, NEW name \in Names, AllOpen(name), Statements,
         ~(Reading # 0 /\ Cardinality(Visible(name)) > 1)
  PROVE  /\ Lookup(name) = 0 => Innermost(Visible(name)) = {}
         /\ Lookup(name) # 0 =>
              /\ Innermost(Visible(name)) # {}
              /\ \A i \in Innermost(Visible(name)) :
                   symbols[i].block = symbols[Lookup(name)].block
                   /\ i \in 1 .. Len(symbols) /\ symbols[i].name = name
              /\ Lookup(name) \in 1 .. Len(symbols) /\ symbols[Lookup(name)].name = name
<1> DEFINE k == Lookup(name)
<1>1. OpenInv /\ FunctionInv /\ SymbolsInv /\ in_function \in BOOLEAN
  BY DEF TableInv, FunctionInv
<1>2. Takes(name)
  BY <1>1, ProgramTakes, FunctionTakes
<1>3. Visible(name) \subseteq 1 .. Len(symbols)
      /\ \A i \in Visible(name) : symbols[i].name = name
  BY <1>1, SymbolFacts DEF Visible
<1>4. \A i \in 1 .. Len(symbols) : symbols[i].block \in Nat
  BY <1>1, SymbolFacts, SymbolTableAssumption DEF Symbols
<1>5. CASE k = 0
  BY <1>2, <1>5 DEF Takes, Innermost
<1>6. CASE k # 0
  <2>1. k \in Visible(name)
    BY <1>2, <1>6 DEF Takes
  <2>2. \A j \in Visible(name) : symbols[j].block <= symbols[k].block
    <3>1. CASE ~in_function
      BY <1>6, <3>1, ProgramTakes
    <3>2. CASE in_function
      <4>1. Reading # 0
        BY <1>1, <3>2, ReadingFacts, CurrentSpace, FunFacts DEF FunctionInv
      <4>2. Cardinality(Visible(name)) \in Nat /\ IsFiniteSet(Visible(name))
        <5>1. IsFiniteSet(1 .. Len(symbols))
          BY <1>1, SymbolFacts, FS_Interval
        <5>2. QED
          BY <1>3, <5>1, FS_Subset, FS_CardinalityType
      <4>3. ~(Cardinality(Visible(name)) > 1)
        BY <4>1
      <4>4. ASSUME NEW j \in Visible(name), j # k PROVE FALSE
        <5>1. {j, k} \subseteq Visible(name)
          BY <2>1, <4>4
        <5>2. Cardinality({j, k}) = 2
          <6>1. IsFiniteSet({k}) /\ Cardinality({k}) = 1 /\ j \notin {k}
            BY <4>4, FS_Singleton
          <6>2. Cardinality({k} \cup {j}) = Cardinality({k}) + 1
            BY <6>1, FS_AddElement
          <6>3. {j, k} = {k} \cup {j}
            OBVIOUS
          <6>4. QED
            BY <6>1, <6>2, <6>3
        <5>3. Cardinality({j, k}) <= Cardinality(Visible(name))
          BY <4>2, <5>1, FS_Subset
        <5>4. QED
          BY <4>2, <4>3, <5>2, <5>3
      <4>5. symbols[k].block <= symbols[k].block
        BY <1>3, <1>4, <2>1
      <4>6. QED
        BY <4>4, <4>5
    <3>3. QED
      BY <1>1, <3>1, <3>2
  <2>3. k \in Innermost(Visible(name))
    BY <2>1, <2>2 DEF Innermost
  <2>4. ASSUME NEW i \in Innermost(Visible(name))
        PROVE  symbols[i].block = symbols[k].block /\ i \in Visible(name)
    <3>1. i \in Visible(name) /\ symbols[k].block <= symbols[i].block
      BY <2>1, <2>4 DEF Innermost
    <3>2. symbols[i].block <= symbols[k].block
      BY <2>2, <3>1
    <3>3. symbols[i].block \in Nat /\ symbols[k].block \in Nat
      BY <1>3, <1>4, <2>1, <3>1
    <3>4. QED
      BY <3>1, <3>2, <3>3
  <2>5. QED
    BY <1>3, <1>6, <2>1, <2>3, <2>4
<1>7. QED
  BY <1>5, <1>6

LEMMA NamesStep ==
  TableInv /\ NamesResolve /\ [Next]_vars => NamesResolve'
<1> SUFFICES ASSUME TableInv, NamesResolve, [Next]_vars
             PROVE  NamesResolve'
  OBVIOUS
<1>1. CASE ref' = NoRef
  BY <1>1 DEF NamesResolve
<1>2. CASE UNCHANGED vars
  BY <1>2 DEF NamesResolve, Resolved, Place, Block, vars
<1>3. ASSUME NEW name \in Names, Use(name)
      PROVE  NamesResolve'
  <2>1. OpenInv /\ SymbolsInv /\ DeclaredInv /\ Statements /\ UNCHANGED open
    BY <1>3 DEF TableInv, Use, NoChange
  <2>2. PICK k : k = ref'.symbol
    OBVIOUS
  <2>3. /\ Refer(name, k)
        /\ Lookup(name) # 0 => k = Lookup(name) /\ symbols' = symbols
        /\ Lookup(name) = 0 => /\ k = Len(symbols) + 1
                               /\ symbols' = Append(symbols, Symbol(name, "VAR_S"))
    BY <1>3, <2>2 DEF Use, Refer, Declare
  <2> SUFFICES ASSUME ~ref'.closed, ~ref'.shadowed PROVE Resolved'
    BY DEF NamesResolve
  <2>4. AllOpen(name)
    <3>1. \A i \in 1 .. Len(symbols) :
            symbols[i].name = name => symbols[i].block \in Ids(DOMAIN open) \cup {0}
      BY <2>1, <2>3, SymbolFacts DEF Refer
    <3>2. QED
      BY <2>1, <3>1, OpenFacts DEF AllOpen, IsOpen, Ids
  <2>5. /\ ref'.meant = Innermost(Visible(name))
        /\ ~(Reading # 0 /\ Cardinality(Visible(name)) > 1)
    BY <2>3 DEF Refer
  <2>6. /\ Lookup(name) = 0 => ref'.meant = {}
        /\ Lookup(name) # 0 =>
             /\ ref'.meant # {}
             /\ \A i \in ref'.meant :
                  symbols[i].block = symbols[k].block
                  /\ i \in 1 .. Len(symbols) /\ symbols[i].name = name
             /\ k \in 1 .. Len(symbols) /\ symbols[k].name = name
    BY <2>1, <2>3, <2>4, <2>5, TakesInnermost
  <2>7. CASE Lookup(name) = 0
    <3>1. PICK s : s = Symbol(name, "VAR_S")
      OBVIOUS
    <3>2. s.block = Block
      BY <3>1 DEF Symbol
    <3>3. symbols'[k] = s
      BY <2>1, <2>3, <2>7, <3>1 DEF SymbolsInv
    <3>4. symbols'[ref'.symbol].block = Block'
      BY <2>1, <2>2, <3>2, <3>3 DEF Block
    <3>5. QED
      BY <2>6, <2>7, <3>4 DEF Resolved
  <2>8. CASE Lookup(name) # 0
    <3>1. \A i \in ref'.meant : i = k
      BY <2>1, <2>4, <2>6, <2>8 DEF DeclaredInv, AllOpen
    <3>2. \A i \in ref'.meant : Place(i)' = Place(ref.symbol)'
      BY <2>2, <3>1
    <3>3. QED
      BY <2>6, <2>8, <3>2 DEF Resolved
  <2>9. QED
    BY <2>7, <2>8
<1>4. \/ ref' = NoRef \/ UNCHANGED vars
      \/ \E name \in Names : Use(name)
  <2>1. BlockBegin => ref' = NoRef
    BY Zenon DEF BlockBegin
  <2>2. QED
    BY <2>1 DEF Next, Local, FuncPrefix, FirstParam, NextParam, LocalError, GlobalError,
                RedefinitionError, Error, NewTemp, BlockEnd, FuncBody, FuncEnd, Ending, Stopped
<1>5. QED
  BY <1>1, <1>2, <1>3, <1>4

-----------------------------------------------------------------------------
(* Theorems *)

(* As many entries of the parser's stack are functions as f_scopes_stack   *)
(* is long.                                                                *)
LEMMA FunctionsCounted ==
  ASSUME OpenInv, FunctionInv
  PROVE  Cardinality(Functions(open)) = Len(f_scopes_stack)
<1> DEFINE m == Len(f_scopes_stack)
           n == Len(open)
           b == [j \in 1 .. m |-> n - f_scopes_stack[j]]
<1>1. m \in Nat /\ n \in Nat /\ \A j \in 1 .. m : f_scopes_stack[j] \in 0 .. n - 1
  BY OpenFacts, FunFacts
<1>2. Functions(open) = {n - f_scopes_stack[j] : j \in 1 .. m}
  BY ReadingFacts
<1>3. ASSUME NEW j \in 1 .. m, NEW k \in 1 .. m, n - f_scopes_stack[j] = n - f_scopes_stack[k]
      PROVE  j = k
  <2>1. PICK p \in 0 .. n - 1 : p = f_scopes_stack[j]
    BY <1>1
  <2>2. PICK q \in 0 .. n - 1 : q = f_scopes_stack[k]
    BY <1>1
  <2>3. p = q
    BY <1>1, <1>3, <2>1, <2>2
  <2>4. QED
    BY <2>1, <2>2, <2>3, FunFacts
<1> HIDE DEF m, n
<1>4. b \in Bijection(1 .. m, Functions(open))
  BY <1>2, <1>3 DEF Bijection, Injection, Surjection, IsInjective
<1>5. IsFiniteSet(1 .. m) /\ Cardinality(1 .. m) = m
  BY <1>1, FS_Interval
<1>6. ExistsBijection(1 .. m, Functions(open))
  BY <1>4 DEF ExistsBijection
<1>7. Cardinality(Functions(open)) = Cardinality(1 .. m)
  BY <1>5, <1>6, FS_Bijection
<1>8. QED
  BY <1>5, <1>7 DEF m

(* Every variable keeps its type, and the stacks of symtable.c and of the  *)
(* parser are always as high as functions are open, though they are pushed *)
(* and popped at different rules.                                          *)
THEOREM SymbolTypes == Spec => []TypeOK
<1>1. TableInv /\ PlacesDistinct /\ RefInv => TypeOK
  <2> SUFFICES ASSUME TableInv, RefInv PROVE TypeOK
    OBVIOUS
  <2>1. OpenInv /\ FunctionInv /\ SymbolsInv
    BY DEF TableInv
  <2>2. \A i \in DOMAIN symbols : symbols[i] \in Symbols
    BY <2>1, SymbolFacts
  <2>3. current_scope \in 0 .. MaxDepth /\ begun \in 0 .. MaxBlocks
    BY <2>1 DEF OpenInv
  <2>4. function_scope \in -1 .. MaxDepth /\ in_function \in BOOLEAN /\ error_flag \in BOOLEAN
    BY <2>1 DEF FunctionInv, SymbolsInv
  <2>5. /\ Len(f_scopes_stack) = Cardinality(Functions(open))
        /\ Len(scope_offset_stack) = Cardinality(Functions(open))
    BY <2>1, FunctionsCounted DEF SymbolsInv
  <2>6. scopeSpaceCounter \in 1 .. 2 * MaxBlocks + 1
    <3>1. PICK m \in Nat : m = Len(f_scopes_stack)
      BY <2>1, FunFacts
    <3>2. m <= MaxBlocks /\ MaxBlocks \in Nat
      BY <2>1, <2>3, <3>1, SymbolTableAssumption DEF FunctionInv
    <3>3. InParams => m > 0
      BY <2>1, <3>1, CurrentSpace
    <3>4. scopeSpaceCounter = 2 * m + (IF InParams THEN 0 ELSE 1)
      BY <2>1, <3>1 DEF FunctionInv
    <3>5. scopeSpaceCounter = 2 * m \/ scopeSpaceCounter = 2 * m + 1
      BY <3>1, <3>4
    <3>6. ~InParams => scopeSpaceCounter = 2 * m + 1
      BY <3>4
    <3>7. QED
      BY <3>2, <3>3, <3>5, <3>6
  <2>7. {programVarOffset, functionLocalOffset, formalArgOffset} \subseteq 0 .. MaxSymbols
    <3>1. /\ {programVarOffset, functionLocalOffset, formalArgOffset} \subseteq 0 .. Len(symbols)
          /\ Len(symbols) <= MaxSymbols
      BY <2>1 DEF SymbolsInv
    <3>2. \A x \in 0 .. Len(symbols) : x \in 0 .. MaxSymbols
      BY <2>1, <3>1, SymbolFacts
    <3>3. QED
      BY <3>1, <3>2
  <2>8. QED
    BY <2>2, <2>3, <2>4, <2>5, <2>6, <2>7 DEF TypeOK, RefInv
<1>2. QED
  BY <1>1, TableInvariant, PTL

(* What parser.y counts at different rules, the depth, whether and where   *)
(* it is in a function and the scope space, agrees with the place in the   *)
(* text.                                                                   *)
THEOREM PlaceAgrees == Spec => []PlaceIsKnown
<1>1. TableInv /\ PlacesDistinct /\ RefInv => PlaceIsKnown
  <2> SUFFICES ASSUME OpenInv, FunctionInv PROVE PlaceIsKnown
    BY DEF TableInv
  <2>1. Reading # 0 <=> f_scopes_stack # <<>>
    BY ReadingFacts, CurrentSpace, FunFacts
  <2>2. in_function = (Reading # 0)
    BY <2>1 DEF FunctionInv
  <2>3. in_function => function_scope = Len(open) - Max(Functions(open))
    <3> SUFFICES ASSUME in_function
                 PROVE  function_scope = Len(open) - Max(Functions(open))
      OBVIOUS
    <3>1. PICK k : k = f_scopes_stack[Len(f_scopes_stack)]
      OBVIOUS
    <3>2. f_scopes_stack # <<>> /\ function_scope = k
      BY <3>1 DEF FunctionInv
    <3>3. Max(Functions(open)) = Len(open) - k
      BY <3>1, <3>2, ReadingFacts
    <3>4. k \in Int /\ Len(open) \in Nat
      <4>1. Len(f_scopes_stack) \in 1 .. Len(f_scopes_stack)
        BY <3>2, FunFacts
      <4>2. QED
        BY <3>1, <4>1, FunFacts, OpenFacts
    <3>5. QED
      BY <3>2, <3>3, <3>4
  <2>4. currScopeSpace = CASE Reading = 0 -> "PROGRAM_VAR"
                           [] InParams    -> "FORMAL_ARG"
                           [] OTHER       -> "FUNCTION_LOCAL"
    <3>1. currScopeSpace = IF InParams THEN "FORMAL_ARG" ELSE BodySpace(Reading)
      BY CurrentSpace, ReadingFacts
    <3>2. InParams => Reading # 0
      BY <2>1, CurrentSpace, FunFacts
    <3>3. QED
      BY <3>1, <3>2 DEF BodySpace
  <2>5. QED
    BY <2>2, <2>3, <2>4 DEF PlaceIsKnown, OpenInv
<1>2. QED
  BY <1>1, TableInvariant, PTL

(* Two variables or temporaries of one function never share a place, in    *)
(* whatever blocks of it they are declared and whatever functions are      *)
(* defined between them.                                                   *)
THEOREM PlacesNeverShared == Spec => []PlacesDistinct
BY TableInvariant, PTL

(* total_locals of a function that has ended makes room for every local    *)
(* variable of it, those of all its blocks included.                       *)
THEOREM LocalsHaveRoom == Spec => []LocalsFit
<1>1. TableInv /\ PlacesDistinct /\ RefInv => LocalsFit
  <2> SUFFICES ASSUME TableInv PROVE LocalsFit
    OBVIOUS
  <2>1. \A t \in total_locals : Lie(t.of, "FUNCTION_LOCAL", t.n)
    BY DEF TableInv, PlacesInv
  <2>2. DOMAIN symbols = 1 .. Len(symbols)
    BY SymbolFacts DEF TableInv
  <2>3. QED
    BY <2>1, <2>2 DEF LocalsFit, Lie
<1>2. QED
  BY <1>1, TableInvariant, PTL

(* A name is taken for the innermost declaration that is visible, or       *)
(* declares a variable of this block, unless a block that has ended        *)
(* declared it too or, in a function, two visible declarations have it.    *)
THEOREM NamesAreResolved == Spec => []NamesResolve
<1>1. Init => NamesResolve
  BY DEF Init, NamesResolve
<1>2. QED
  BY <1>1, NamesStep, TableInvariant, PTL DEF Spec

=============================================================================
