---------------------------- MODULE SymbolTable ----------------------------
(***************************************************************************)
(* Scopes, symbols and the places of variables: symtable.c, the scope      *)
(* spaces of definitions.c, and the rules of parser.y that use them.  A    *)
(* scope is a number, the depth of nesting, and all blocks of one depth    *)
(* share one list of symbols; hide marks the symbols of a block that ends. *)
(*                                                                         *)
(* open is the parser's own stack of blocks and functions.  It numbers     *)
(* them, which the code does not, so that properties can tell apart the    *)
(* blocks of one depth.                                                    *)
(***************************************************************************)
EXTENDS Integers, Sequences, FiniteSetsExt

CONSTANTS
  Names,       \* of variables and functions
  MaxSymbols,  \* bound: symbols in the table
  MaxDepth,    \* bound: current_scope
  MaxBlocks    \* bound: blocks and functions that begin

ASSUME SymbolTableAssumption ==
  /\ MaxSymbols \in Nat /\ MaxDepth \in Nat /\ MaxBlocks \in Nat
  /\ "$temp" \notin Names

VARIABLES
  symbols,        \* all symbols, in the order in which they were inserted
  current_scope, in_function, function_scope, f_scopes_stack,
  scopeSpaceCounter,
  programVarOffset, functionLocalOffset, formalArgOffset, scope_offset_stack,
  error_flag,
  open,           \* the innermost comes first
  begun,          \* how many blocks and functions have begun
  total_locals,   \* of the functions that have ended
  ref             \* history: what the name just read was taken for

offsets == <<programVarOffset, functionLocalOffset, formalArgOffset,
             scope_offset_stack>>
scopes == <<current_scope, in_function, function_scope, f_scopes_stack>>
vars == <<symbols, scopes, scopeSpaceCounter, offsets, error_flag, open, begun,
          total_locals, ref>>

Spaces == {"PROGRAM_VAR", "FORMAL_ARG", "FUNCTION_LOCAL"}

Push(s, x) == <<x>> \o s

NoRef == [symbol |-> 0]

-----------------------------------------------------------------------------
(* symtable.c *)

(* lookScope, as an index of symbols or 0: the first symbol of that name   *)
(* and scope; variables are found also when they are hidden.               *)
Matches(name, scope) ==
  {i \in DOMAIN symbols :
     /\ symbols[i].name = name /\ symbols[i].scope = scope
     /\ symbols[i].type = "VAR_S" \/ symbols[i].isActive}

LookScope(name, scope) ==
  IF Matches(name, scope) = {} THEN 0 ELSE Min(Matches(name, scope))

IsFunction(i) == i # 0 /\ symbols[i].type = "PROGRAM_FUNCTION_S"

Hidden(scope) ==
  [i \in DOMAIN symbols |->
     IF symbols[i].scope = scope THEN [symbols[i] EXCEPT !.isActive = FALSE]
     ELSE symbols[i]]

-----------------------------------------------------------------------------
(* definitions.c *)

SpaceOf(counter) ==
  CASE counter = 1 -> "PROGRAM_VAR"
    [] counter # 1 /\ counter % 2 = 0 -> "FORMAL_ARG"
    [] OTHER -> "FUNCTION_LOCAL"

currScopeSpace == SpaceOf(scopeSpaceCounter)

currScopeOffset ==
  CASE currScopeSpace = "PROGRAM_VAR"    -> programVarOffset
    [] currScopeSpace = "FUNCTION_LOCAL" -> functionLocalOffset
    [] currScopeSpace = "FORMAL_ARG"     -> formalArgOffset

SetOffset(space, n) ==
  /\ programVarOffset'    = IF space = "PROGRAM_VAR" THEN n ELSE programVarOffset
  /\ functionLocalOffset' = IF space = "FUNCTION_LOCAL" THEN n ELSE functionLocalOffset
  /\ formalArgOffset'     = IF space = "FORMAL_ARG" THEN n ELSE formalArgOffset

-----------------------------------------------------------------------------
(* Where the parser is *)

Here == IF open = <<>> THEN "block" ELSE open[1].kind

Statements == Here = "block"

(* The function whose text is read; 0 is the program. *)
Functions(o) == {i \in DOMAIN o : o[i].kind # "block"}
Reading == IF Functions(open) = {} THEN 0 ELSE open[Min(Functions(open))].id

Block == IF open = <<>> THEN 0 ELSE open[1].id

(* The symbol at the current place, in the current scope. *)
Symbol(name, type) ==
  [name |-> name, type |-> type, scope |-> current_scope, isActive |-> TRUE,
   space |-> currScopeSpace, offset |-> currScopeOffset,
   block |-> Block, of |-> Reading]

Declare(s) ==
  /\ Len(symbols) < MaxSymbols
  /\ symbols' = Append(symbols, s)
  /\ SetOffset(currScopeSpace, currScopeOffset + 1)
  /\ UNCHANGED scope_offset_stack

Proceed == ~error_flag /\ UNCHANGED error_flag

Error ==
  /\ ~error_flag /\ error_flag' = TRUE
  /\ ref' = NoRef
  /\ UNCHANGED <<symbols, scopes, scopeSpaceCounter, offsets, open, begun, total_locals>>

Init ==
  /\ symbols = <<>>
  /\ current_scope = 0 /\ in_function = FALSE /\ function_scope = -1
  /\ f_scopes_stack = <<>>
  /\ scopeSpaceCounter = 1
  /\ programVarOffset = 0 /\ functionLocalOffset = 0 /\ formalArgOffset = 0
  /\ scope_offset_stack = <<>>
  /\ error_flag = FALSE
  /\ open = <<>> /\ begun = 0 /\ total_locals = {} /\ ref = NoRef

-----------------------------------------------------------------------------
(* What a name is taken for *)

Found(name, scopeSet) == {j \in scopeSet : LookScope(name, j) # 0}

(* A wrong InFunctionLookup: the search goes outwards through all scopes,  *)
(* those of other functions included.                                      *)
LookupThroughFunctions(name) ==
  LET all == Found(name, 0 .. current_scope) IN
  IF all = {} THEN 0 ELSE LookScope(name, Max(all))

(* The search of lvalue goes outwards.  In the scopes of a function it goes*)
(* on after it has found the name, so that the outermost of them counts;   *)
(* and a function of the same name outside of the function counts more     *)
(* than one inside.                                                        *)
InFunctionLookup(name) ==
  LET own    == Found(name, Head(f_scopes_stack) + 1 .. current_scope)
      nested == {j \in function_scope + 1 .. current_scope - 2 :
                   IsFunction(LookScope(name, j))}
      global == Found(name, 0 .. function_scope)
  IN CASE own # {} -> LookScope(name, Min(own))
       [] own = {} /\ global # {} -> LookScope(name, Max(global))
       [] own = {} /\ global = {} /\ nested # {} -> LookScope(name, Max(nested))
       [] OTHER -> 0

Lookup(name) ==
  IF in_function THEN InFunctionLookup(name)
  ELSE LET all == Found(name, 0 .. current_scope) IN
       IF all = {} THEN 0 ELSE LookScope(name, Max(all))

(* The blocks whose variables may be used: those of this function, and     *)
(* those around the outermost function; of the functions in between only   *)
(* the functions are known.                                                *)
Ids(is) == {open[i].id : i \in is}

OwnBlocks == Ids(IF Reading = 0 THEN DOMAIN open ELSE 1 .. Min(Functions(open)))

ProgramBlocks ==
  {0} \cup Ids({i \in DOMAIN open : \A j \in Functions(open) : i > j})

Visible(name) ==
  {i \in DOMAIN symbols :
     /\ symbols[i].name = name
     /\ \/ symbols[i].block \in OwnBlocks \cup ProgramBlocks
        \/ symbols[i].block \in Ids(DOMAIN open) /\ IsFunction(i)}

(* Blocks are numbered as they begin: the innermost has the highest number.*)
Innermost(is) == {i \in is : \A j \in is : symbols[j].block <= symbols[i].block}

(* The history of a name that is taken for symbol i. *)
Refer(name, i) ==
  ref' = [symbol |-> i, meant |-> Innermost(Visible(name)),
          closed |-> \E j \in DOMAIN symbols :
                       /\ symbols[j].name = name
                       /\ symbols[j].block \notin Ids(DOMAIN open) \cup {0},
          shadowed |-> Reading # 0 /\ Cardinality(Visible(name)) > 1]

-----------------------------------------------------------------------------
(* Names in expressions *)

NoChange == UNCHANGED <<scopes, scopeSpaceCounter, open, begun, total_locals>>

(* ID, as an lvalue. *)
Use(name) ==
  /\ Statements /\ Proceed
  /\ IF Lookup(name) # 0
     THEN Refer(name, Lookup(name)) /\ UNCHANGED <<symbols, offsets>>
     ELSE Declare(Symbol(name, "VAR_S")) /\ Refer(name, Len(symbols) + 1)
  /\ NoChange

(* LOCAL ID *)
Local(name) ==
  /\ Statements /\ Proceed /\ current_scope > 0
  /\ IF LookScope(name, current_scope) # 0 THEN UNCHANGED <<symbols, offsets>>
     ELSE Declare(Symbol(name, "VAR_S"))
  /\ NoChange /\ ref' = NoRef

LocalError == Statements /\ current_scope = 0 /\ Error

(* GLOBAL ID: it changes nothing, unless there is no such symbol. *)
GlobalError == Statements /\ (\E name \in Names : LookScope(name, 0) = 0) /\ Error

(* new_temp: names of temporaries are never used again. *)
NewTemp ==
  /\ Statements /\ Proceed
  /\ Declare(Symbol("$temp", "TEMP_VAR_S"))
  /\ NoChange /\ ref' = NoRef

-----------------------------------------------------------------------------
(* Blocks and functions *)

Begins(kind, name) ==
  /\ begun < MaxBlocks /\ begun' = begun + 1
  /\ open' = Push(open, [kind |-> kind, name |-> name, id |-> begun + 1])

BlockBegin ==
  /\ Proceed /\ Here \in {"block", "function"}
  /\ current_scope < MaxDepth
  /\ current_scope' = current_scope + 1
  /\ Begins("block", "")
  /\ UNCHANGED <<symbols, in_function, function_scope, f_scopes_stack,
                 scopeSpaceCounter, offsets, total_locals>>
  /\ ref' = NoRef

BlockEnd ==
  /\ Proceed /\ open # <<>> /\ open[1].kind = "block"
  /\ symbols' = Hidden(current_scope)
  /\ current_scope' = current_scope - 1
  /\ in_function' = (in_function /\ function_scope \notin {current_scope, current_scope - 1})
  /\ open' = (IF Len(open) > 1 /\ open[2].kind = "function"
              THEN [Tail(open) EXCEPT ![1].kind = "ended"] ELSE Tail(open))
  /\ UNCHANGED <<function_scope, f_scopes_stack, scopeSpaceCounter, offsets,
                 begun, total_locals>>
  /\ ref' = NoRef

(* func_id: in a function only its own scopes are searched. *)
Redefined(name) ==
  IF in_function
  THEN Found(name, Head(f_scopes_stack) + 1 .. current_scope) # {}
  ELSE Found(name, 0 .. current_scope) # {}

RedefinitionError == Statements /\ (\E name \in Names : Redefined(name)) /\ Error

(* funprefix *)
FuncPrefix(name) ==
  /\ Statements /\ Proceed /\ ~Redefined(name)
  /\ current_scope + 1 < MaxDepth
  /\ f_scopes_stack' = Push(f_scopes_stack, current_scope)
  /\ function_scope' = IF in_function THEN function_scope ELSE current_scope
  /\ in_function' = TRUE
  /\ current_scope' = current_scope + 1
  /\ scope_offset_stack' = Push(scope_offset_stack, currScopeOffset)
  /\ scopeSpaceCounter' = scopeSpaceCounter + 1
  /\ formalArgOffset' = 0
  /\ Begins("params", name)
  /\ UNCHANGED <<symbols, programVarOffset, functionLocalOffset, total_locals>>
  /\ ref' = NoRef

InParams == Here = "params"

(* idlist: the first formal is inserted in any case. *)
FirstParam(name) ==
  /\ InParams /\ Proceed /\ formalArgOffset = 0
  /\ Declare(Symbol(name, "VAR_S"))
  /\ NoChange /\ ref' = NoRef

(* ids: one that is found, hidden or not, is reported and left out.        *)
NextParam(name) ==
  /\ InParams /\ Proceed /\ formalArgOffset > 0
  /\ LookScope(name, current_scope) = 0
  /\ Declare(Symbol(name, "VAR_S"))
  /\ NoChange /\ ref' = NoRef

(* Between the formals and the body the function becomes a symbol of the   *)
(* scope around it.                                                        *)
FuncBody ==
  /\ InParams /\ Proceed /\ Len(symbols) < MaxSymbols
  /\ symbols' = Append(symbols,
       [Symbol(open[1].name, "PROGRAM_FUNCTION_S") EXCEPT
          !.scope = current_scope - 1,
          !.block = IF Len(open) > 1 THEN open[2].id ELSE 0])
  /\ scopeSpaceCounter' = scopeSpaceCounter + 1
  /\ functionLocalOffset' = 0
  /\ open' = [open EXCEPT ![1].kind = "function"]
  /\ UNCHANGED <<scopes, programVarOffset, formalArgOffset, scope_offset_stack,
                 begun, total_locals>>
  /\ ref' = NoRef

(* The end of a function, after its block: its number of locals, the space *)
(* whose offset is restored, and what in_function and f_scopes_stack become*)
Ending(locals, space, in, stack) ==
  /\ Here = "ended" /\ Proceed
  /\ total_locals' = total_locals \cup {[of |-> open[1].id, n |-> locals]}
  /\ scopeSpaceCounter' = scopeSpaceCounter - 2
  /\ SetOffset(space, Head(scope_offset_stack))
  /\ scope_offset_stack' = Tail(scope_offset_stack)
  /\ symbols' = Hidden(current_scope)
  /\ current_scope' = current_scope - 1
  /\ in_function' = in
  /\ f_scopes_stack' = stack
  /\ open' = Tail(open)
  /\ ref' = NoRef /\ UNCHANGED <<function_scope, begun>>

SpaceAround == SpaceOf(scopeSpaceCounter - 2)
StillIn == in_function /\ current_scope - 1 # function_scope

(* A wrong FuncEnd: the offset is restored in the space of the formals. *)
FuncEndRestoresEarly ==
  Ending(currScopeOffset, SpaceOf(scopeSpaceCounter - 1), StillIn, Tail(f_scopes_stack))

(* A wrong FuncEnd: every function that ends leaves all functions. *)
FuncEndLeavesAll == Ending(currScopeOffset, SpaceAround, FALSE, Tail(f_scopes_stack))

(* A wrong FuncEnd: f_scopes_stack is popped at the outermost end only. *)
FuncEndKeepsScope ==
  Ending(currScopeOffset, SpaceAround, StillIn,
         IF StillIn THEN f_scopes_stack ELSE Tail(f_scopes_stack))

(* A wrong FuncEnd: the locals are counted when the offset is restored. *)
FuncEndCountsLate ==
  Ending(Head(scope_offset_stack), SpaceAround, StillIn, Tail(f_scopes_stack))

FuncEnd == Ending(currScopeOffset, SpaceAround, StillIn, Tail(f_scopes_stack))

(* The end of the text; after an error no code is written.  Where a bound  *)
(* is reached the model stops, too.                                        *)
Bounded == Len(symbols) = MaxSymbols \/ begun = MaxBlocks

Stopped ==
  /\ error_flag \/ Statements \/ Bounded
  /\ UNCHANGED vars

Next ==
  \/ \E name \in Names :
       \/ Use(name) \/ Local(name) \/ FuncPrefix(name)
       \/ FirstParam(name) \/ NextParam(name)
  \/ LocalError \/ GlobalError \/ RedefinitionError
  \/ NewTemp
  \/ BlockBegin \/ BlockEnd
  \/ FuncBody \/ FuncEnd
  \/ Stopped

Spec == Init /\ [][Next]_vars

-----------------------------------------------------------------------------
(* Properties *)

Symbols ==
  [name : Names \cup {"$temp"},
   type : {"VAR_S", "TEMP_VAR_S", "PROGRAM_FUNCTION_S"},
   scope : 0 .. MaxDepth, isActive : BOOLEAN, space : Spaces,
   offset : 0 .. MaxSymbols, block : 0 .. MaxBlocks, of : 0 .. MaxBlocks]

(* The types of the variables, and the lengths of the stacks of symtable.c *)
(* and of the parser, which push and pop at different rules.               *)
TypeOK ==
  /\ \A i \in DOMAIN symbols : symbols[i] \in Symbols
  /\ current_scope \in 0 .. MaxDepth /\ function_scope \in -1 .. MaxDepth
  /\ in_function \in BOOLEAN /\ error_flag \in BOOLEAN
  /\ scopeSpaceCounter \in 1 .. 2 * MaxBlocks + 1
  /\ {programVarOffset, functionLocalOffset, formalArgOffset} \subseteq 0 .. MaxSymbols
  /\ Len(f_scopes_stack) = Cardinality(Functions(open))
  /\ Len(scope_offset_stack) = Cardinality(Functions(open))
  /\ begun \in 0 .. MaxBlocks /\ ref.symbol \in 0 .. Len(symbols)

(* What parser.y counts, at different rules, agrees with the place in the  *)
(* text: the depth, whether it is in a function, where the outermost       *)
(* function stands, and the scope space.                                   *)
PlaceIsKnown ==
  /\ current_scope = Len(open)
  /\ in_function = (Reading # 0)
  /\ in_function => function_scope = Len(open) - Max(Functions(open))
  /\ currScopeSpace = CASE Reading = 0 -> "PROGRAM_VAR"
                        [] InParams    -> "FORMAL_ARG"
                        [] OTHER       -> "FUNCTION_LOCAL"

Holds(i) == symbols[i].type # "PROGRAM_FUNCTION_S"

(* Two variables or temporaries of one function never share a place, in    *)
(* whatever blocks of it they are declared and whatever functions are      *)
(* defined between them: the counters of definitions.c are saved and       *)
(* restored around them.                                                   *)
PlacesDistinct ==
  \A i, j \in DOMAIN symbols :
    i # j /\ Holds(i) /\ Holds(j) /\ symbols[i].of = symbols[j].of
          /\ symbols[i].space = symbols[j].space
      => symbols[i].offset # symbols[j].offset

(* execute_funcenter makes room for total_locals: every local variable of  *)
(* the function lies within, those of all its blocks included.             *)
LocalsFit ==
  \A t \in total_locals : \A i \in DOMAIN symbols :
    symbols[i].of = t.of /\ symbols[i].space = "FUNCTION_LOCAL" /\ Holds(i)
      => symbols[i].offset < t.n

Place(i) == <<symbols[i].type, symbols[i].space, symbols[i].offset>>

Resolved ==
  IF ref.meant = {} THEN symbols[ref.symbol].block = Block
  ELSE \A i \in ref.meant : Place(i) = Place(ref.symbol)

(* A name is taken for the innermost declaration that is visible, and      *)
(* declares a variable of this block where there is none: if no block or   *)
(* function that has ended declared that name, and, in a function, if no   *)
(* two visible declarations have it.                                       *)
NamesResolve ==
  ref # NoRef /\ ~ref.closed /\ ~ref.shadowed => Resolved

(* A name is looked up in "same scope && legal scopes" (parser.y:513) only:*)
(* what it is taken for is a function, or a variable of the program or of  *)
(* this function.  The code finds the variables of functions that have     *)
(* ended, too, as lookScope looks at isActive only of other symbols.       *)
LegalScopesOnly ==
  ref # NoRef => \/ IsFunction(ref.symbol)
                 \/ symbols[ref.symbol].of \in {0, Reading}

=============================================================================
