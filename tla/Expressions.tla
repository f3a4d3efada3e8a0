---------------------------- MODULE Expressions ----------------------------
(***************************************************************************)
(* Expressions: the actions of parser.y for lvalues, calls, table          *)
(* constructors and functions in expressions, with the quads they emit and *)
(* the symbols they need.  The text is left open: a step reads the next    *)
(* part of some expression.                                                *)
(*                                                                         *)
(* What belongs to a call or to a table is collected in global stacks of   *)
(* lists.  An element of a list is put on the innermost list of the calls  *)
(* and on the innermost one of the tables, whichever it belongs to;        *)
(* functions do not put the lists aside, and a syntax error leaves them as *)
(* they are.                                                               *)
(*                                                                         *)
(* open is bison's stack, innermost first: the constructs that have begun  *)
(* and not ended, each with what it consists of (own, keys), which the     *)
(* code does not know, and whether a list of it may have got anything else *)
(* (clean).                                                                *)
(***************************************************************************)
EXTENDS Integers, Sequences, FiniteSets, SequencesExt

CONSTANTS
  Literals,   \* the constants of the text: numbers and strings
  Libs,       \* library functions
  Names,      \* identifiers of the text, positive numbers
  MaxTokens,  \* bound: length of the text, ends of constructs not counted
  MaxOpen,    \* bound: nesting
  MaxErrors   \* bound: syntax errors

VARIABLES
  code,      \* quads; symbols, of variables and temporaries; functions
  lists,     \* the stacks elist_param_stack, elist_table_stack,
             \* indexed_table_stack, values_table_stack; the top comes first
  functor,
  hung,      \* the parser is in the loop of objectdef, for ever
  open,
  have,      \* what has been read: "none", "lvalue", "call", "function" (in
             \* parentheses, or by its name), or an "expr"
  value,     \* the semantic value of what has been read
  tokens, errors,
  strict     \* history: the value of each element "()" so far began with a
             \* function that has formals

vars == <<code, lists, functor, hung, open, have, value, tokens, errors, strict>>

-----------------------------------------------------------------------------
(* Expressions, symbols and quads *)

(* val: the number itself, the index of a symbol or of a function, the     *)
(* number that stands for a name or a string; key: of a table element.     *)
Expr(type, val) == [type |-> type, val |-> val, key |-> <<>>]
None       == Expr("null", 0)
Num(n)     == Expr("number", n)
Str(n)     == Expr("string", n)
Parens     == Str(0)                \* the string "()"
Var(s)     == Expr("var", s)
User(f)    == Expr("user", f)
Item(e, k) == [type |-> "element", val |-> e.val, key |-> <<k>>]

ASSUME ExpressionsAssumption ==
  /\ \A e \in Literals : e.val \in Nat /\ e \in {Num(e.val), Str(e.val)}
  /\ Libs \subseteq Nat /\ Names \subseteq Nat \ {0}
  /\ {MaxTokens, MaxOpen, MaxErrors} \subseteq Nat

This == 0   \* the name "this"; the names of temporaries are negative

Quad(op, result, arg1, arg2) ==
  [op |-> op, result |-> result, arg1 |-> arg1, arg2 |-> arg2]

(* The function that is being read, 0 in the main program.                 *)
OpenFunctions == {i \in DOMAIN open : open[i].kind = "function"}
Function == IF OpenFunctions = {} THEN 0 ELSE open[Min(OpenFunctions)].head.val

(* Offsets are dealt out in the order of insertion, see SymbolTable.       *)
Declare(c, name, space, f) ==
  [c EXCEPT !.symbols = Append(@,
     [name |-> name, space |-> space, in |-> f,
      offset |-> Cardinality({i \in DOMAIN @ : @[i].space = space /\ @[i].in = f})])]

DeclareHere(c, name) ==
  Declare(c, name, IF Function = 0 THEN "program" ELSE "local", Function)
NewTemp(c) == DeclareHere(c, -(Len(c.symbols) + 1))
Newest(c)  == Var(Len(c.symbols))

Emit(c, qs) == [c EXCEPT !.quads = @ \o qs]

(* emit_if_table_item: the code afterwards, and the expression.            *)
Fetch(c, e) ==
  IF e.type # "element" THEN c
  ELSE LET d == NewTemp(c) IN
       Emit(d, <<Quad("get_elem", Newest(d), e, e.key[1])>>)
Fetched(c, e) == IF e.type # "element" THEN e ELSE Newest(Fetch(c, e))

-----------------------------------------------------------------------------
(* Where the parser is *)

Context(kind, head) ==
  [kind |-> kind, head |-> head, own |-> <<>>, keys |-> <<>>, clean |-> TRUE]

Innermost == open[1]
In(kind)  == open # <<>> /\ Innermost.kind = kind
Statement(o) == o # <<>> => o[1].kind = "function"

Begin(kind, head) == Len(open) < MaxOpen /\ open' = <<Context(kind, head)>> \o open
End == open' = Tail(open)

Parsing   == ~hung
Expecting == Parsing /\ have = "none"
Has(kind) == Parsing /\ have = kind
ReadToken == tokens < MaxTokens /\ tokens' = tokens + 1

Have(kind, e) == have' = kind /\ value' = e
HaveNothing   == Have("none", None)

Init ==
  /\ code = [quads |-> <<>>, symbols |-> <<>>, functions |-> <<>>]
  /\ lists = [param |-> <<>>, elist |-> <<>>, indexed |-> <<>>, values |-> <<>>]
  /\ functor = FALSE /\ hung = FALSE
  /\ open = <<>> /\ have = "none" /\ value = None
  /\ tokens = 0 /\ errors = 0 /\ strict = TRUE

-----------------------------------------------------------------------------
(* Constants, names and lvalues *)

Constant ==
  /\ Expecting /\ ReadToken
  /\ \E e \in Literals : Have("expr", e)
  /\ UNCHANGED <<code, lists, functor, hung, open, errors>>

(* The name of a function; as a value or callee, not as a table.           *)
FunctionName ==
  /\ Expecting /\ ReadToken
  /\ \/ \E l \in Libs : Have("function", Expr("lib", l))
     \/ \E f \in DOMAIN code.functions : Have("function", User(f))
  /\ UNCHANGED <<code, lists, functor, hung, open, errors>>

(* Which variable a name denotes is for SymbolTable to say: here it is any *)
(* one that the place can address or, blocks being left out, one that is   *)
(* declared here and now, once for each name and function.                 *)
Addressable(s) == code.symbols[s].name >= 0 /\ code.symbols[s].in \in {0, Function}

Variable ==
  /\ Expecting /\ ReadToken
  /\ \/ \E s \in DOMAIN code.symbols :
          Addressable(s) /\ Have("lvalue", Var(s)) /\ UNCHANGED code
     \/ \E n \in Names :
          /\ \A s \in DOMAIN code.symbols :
               ~(code.symbols[s].name = n /\ code.symbols[s].in = Function)
          /\ code' = DeclareHere(code, n) /\ Have("lvalue", Newest(code'))
  /\ UNCHANGED <<lists, functor, hung, open, errors>>

TableRead == Has("lvalue") \/ Has("call")

(* lvalue.ID and call.ID                                                   *)
Member ==
  /\ TableRead /\ ReadToken
  /\ code' = Fetch(code, value)
  /\ \E n \in Names : Have("lvalue", Item(Fetched(code, value), Str(n)))
  /\ UNCHANGED <<lists, functor, hung, open, errors>>

(* lvalue[expr] and call[expr]; only the first looks for "()".             *)
IndexBegin ==
  /\ TableRead /\ ReadToken
  /\ Begin(IF have = "call" THEN "call index" ELSE "index", value) /\ HaveNothing
  /\ UNCHANGED <<code, lists, functor, hung, errors>>

IndexEnd ==
  /\ Has("expr") /\ (In("index") \/ In("call index"))
  /\ functor' = (functor \/ (In("index") /\ value = Parens))
  /\ code' = Fetch(code, Innermost.head)
  /\ Have("lvalue", Item(Fetched(code, Innermost.head), value))
  /\ End
  /\ UNCHANGED <<lists, hung, tokens, errors>>

(* term: primary                                                           *)
Primary ==
  /\ TableRead \/ Has("function")
  /\ code' = Fetch(code, value)
  /\ Have("expr", Fetched(code, value))
  /\ UNCHANGED <<lists, functor, hung, open, tokens, errors>>

AssignBegin ==
  /\ Has("lvalue") /\ ReadToken
  /\ Begin("assign", value) /\ HaveNothing
  /\ UNCHANGED <<code, lists, functor, hung, errors>>

AssignEnd ==
  /\ Has("expr") /\ In("assign")
  /\ LET target == Innermost.head IN
     IF target.type = "element"
     THEN LET c == Emit(code, <<Quad("set_elem", value, target, target.key[1])>>) IN
          code' = Fetch(c, target) /\ Have("expr", Fetched(c, target))
     ELSE LET c == NewTemp(code) IN
          /\ code' = Emit(c, <<Quad("assign", target, value, None),
                               Quad("assign", Newest(c), target, None)>>)
          /\ Have("expr", Newest(c))
  /\ End
  /\ UNCHANGED <<lists, functor, hung, tokens, errors>>

(* ++ and --, before (the new value) or behind (the old one) an lvalue.    *)
Increment ==
  /\ Has("lvalue") /\ ReadToken
  /\ LET item  == value.type = "element"
         c     == Fetch(code, value)
         v     == Fetched(code, value)
         d     == NewTemp(c)
         keep  == Quad("assign", Newest(d), v, None)
         add   == Quad("add", v, v, Num(1))
         store == IF item THEN <<Quad("set_elem", v, value, value.key[1])>> ELSE <<>>
     IN \/ code' = Emit(d, <<keep, add>> \o store) /\ Have("expr", Newest(d))
        \/ item /\ code' = Emit(c, <<add>> \o store) /\ Have("expr", v)
        \/ ~item /\ code' = Emit(d, <<add, keep>>) /\ Have("expr", Newest(d))
  /\ UNCHANGED <<lists, functor, hung, open, errors>>

(* - expr, for the operators.  Of anything but a number or a variable it   *)
(* is reported as an error: nothing is emitted, and compilation goes on.   *)
Minus ==
  /\ Has("expr") /\ ReadToken
  /\ LET c       == NewTemp(code)
         numeric == \/ value.type = "number"
                    \/ value.type = "var" /\ code.symbols[value.val].name >= 0
     IN /\ code' = IF numeric THEN Emit(c, <<Quad("uminus", Newest(c), value, None)>>)
                   ELSE c
        /\ Have("expr", Newest(c))
  /\ UNCHANGED <<lists, functor, hung, open, errors>>

(* An expression that is a statement.                                      *)
StatementEnd ==
  /\ Has("expr") /\ Statement(open) /\ HaveNothing
  /\ UNCHANGED <<code, lists, functor, hung, open, tokens, errors>>

-----------------------------------------------------------------------------
(* Lists of expressions: actual parameters *)

(* A wrong TopPush: the first element comes first.                         *)
TopPushBehind(s, e) == IF s = <<>> THEN s ELSE [s EXCEPT ![1] = Append(@, e)]

TopPush(s, e) == IF s = <<>> THEN s ELSE [s EXCEPT ![1] = <<e>> \o @]
TopAppend(s, e) == IF s = <<>> THEN s ELSE [s EXCEPT ![1] = Append(@, e)]

(* The list of the innermost construct of one of these kinds has got an    *)
(* element that is not its own; an indexed table does not use that list.   *)
Disturb(o, kinds) ==
  [i \in DOMAIN o |->
     IF o[i].kind \in kinds /\ \A j \in 1 .. i - 1 : o[j].kind \notin kinds
     THEN [o[i] EXCEPT !.clean = @ /\ o[i].kind = "indexed"] ELSE o[i]]

Calls  == {"call"}
Tables == {"elist", "indexed"}

(* elist and fun_param: of a call, a table, or the head of a for.          *)
Element ==
  /\ Has("expr")
  /\ lists' = [lists EXCEPT !.param = TopPush(@, value), !.elist = TopAppend(@, value)]
  /\ LET owned == [open EXCEPT ![1].own = Append(@, value)] IN
     \/ In("call") /\ open' = Disturb(owned, Tables)
     \/ In("elist") /\ open' = Disturb(owned, Calls)
     \/ Statement(open) /\ open' = Disturb(Disturb(open, Tables), Calls)
  /\ HaveNothing
  /\ UNCHANGED <<code, functor, hung, tokens, errors>>

CallBegin ==
  /\ TableRead \/ Has("function")
  /\ ReadToken /\ Begin("call", value) /\ HaveNothing
  /\ lists' = [lists EXCEPT !.param = <<<<>>>> \o @]
  /\ UNCHANGED <<code, functor, hung, errors>>

Params(list) == [i \in DOMAIN list |-> Quad("param", list[i], None, None)]

(* The callee is fetched when the arguments have been evaluated.           *)
CallCode(list) ==
  NewTemp(Emit(Fetch(code, Innermost.head),
    Params(list) \o <<Quad("call", Fetched(code, Innermost.head), None, None)>>))

(* A wrong CallEnd: the list is not popped.                                *)
CallEndKeepsList ==
  /\ Expecting /\ In("call")
  /\ LET c == CallCode(Head(lists.param)) IN
     /\ code' = Emit(c, <<Quad("getretval", Newest(c), None, None)>>)
     /\ Have("call", Newest(c))
  /\ End
  /\ UNCHANGED <<lists, functor, hung, tokens, errors>>

CallEnd ==
  /\ Expecting /\ In("call")
  /\ LET c == CallCode(Head(lists.param)) IN
     /\ code' = Emit(c, <<Quad("getretval", Newest(c), None, None)>>)
     /\ Have("call", Newest(c))
  /\ lists' = [lists EXCEPT !.param = Tail(@)]
  /\ End
  /\ UNCHANGED <<functor, hung, tokens, errors>>

-----------------------------------------------------------------------------
(* Table constructors: [ expr, .. ] and [ {key : value}, .. ]              *)

TableBegin ==
  /\ Expecting /\ ReadToken
  /\ \E kind \in Tables : Begin(kind, None)
  /\ lists' = [lists EXCEPT !.elist = <<<<>>>> \o @, !.indexed = <<<<>>>> \o @,
                            !.values = <<<<>>>> \o @]
  /\ UNCHANGED <<code, functor, hung, have, value, errors>>

KeyExpected == Len(Innermost.keys) = Len(Innermost.own)

(* A wrong Key: "()" is not looked for. *)
KeyUnnoticed ==
  /\ Has("expr") /\ In("indexed") /\ KeyExpected
  /\ lists' = [lists EXCEPT !.indexed = TopAppend(@, value)]
  /\ open' = [open EXCEPT ![1].keys = Append(@, value)]
  /\ HaveNothing
  /\ UNCHANGED <<code, functor, hung, tokens, errors>>

Key ==
  /\ Has("expr") /\ In("indexed") /\ KeyExpected
  /\ lists' = [lists EXCEPT !.indexed = TopAppend(@, value)]
  /\ open' = [open EXCEPT ![1].keys = Append(@, value)]
  /\ functor' = (functor \/ value = Parens)
  /\ HaveNothing
  /\ UNCHANGED <<code, hung, tokens, errors>>

ElementValue ==
  /\ Has("expr") /\ In("indexed") /\ ~KeyExpected
  /\ lists' = [lists EXCEPT !.values = TopAppend(@, value)]
  /\ open' = [open EXCEPT ![1].own = Append(@, value)]
  /\ HaveNothing
  /\ UNCHANGED <<code, functor, hung, tokens, errors>>

SetElems(table, keys, values) ==
  [i \in DOMAIN values |-> Quad("set_elem", values[i], table, keys[i])]

(* The loop over keys and values goes on until both lists have ended, and  *)
(* moves only when neither has.  A table without elements is an elist.     *)
TableEnd ==
  /\ Expecting
  /\ In("elist") \/ (In("indexed") /\ KeyExpected /\ Innermost.own # <<>>)
  /\ LET c      == NewTemp(code)
         made   == Emit(c, <<Quad("newtable", Newest(c), None, None)>>)
         elems  == Head(lists.elist)
         keys   == IF In("elist") THEN [i \in DOMAIN elems |-> Num(i - 1)]
                   ELSE Head(lists.indexed)
         values == IF In("elist") THEN elems ELSE Head(lists.values)
     IN /\ hung' = (Len(keys) # Len(values))
        /\ code' = IF hung' THEN made
                   ELSE Emit(made, SetElems(Newest(c), keys, values))
        /\ Have("expr", Newest(c))
  /\ lists' = [lists EXCEPT !.elist = Tail(@), !.indexed = Tail(@), !.values = Tail(@)]
  /\ End
  /\ UNCHANGED <<functor, tokens, errors>>

-----------------------------------------------------------------------------
(* Functions: a statement, or in parentheses an expression *)

Formals == {<<>>} \cup {<<n>> : n \in Names}

(* idlist: the formals of function f, and the one that the code adds.      *)
IdList(c, f, formals) ==
  LET this == IF functor THEN Declare(c, This, "formal", f) ELSE c
  IN IF formals = <<>> THEN c ELSE Declare(this, formals[1], "formal", f)

(* From FUNCTION to the beginning of the body.                             *)
FunctionBegin ==
  /\ Expecting
  /\ \E formals \in Formals :
       LET f == Len(code.functions) + 1
           c == [IdList(code, f, formals) EXCEPT !.functions = Append(@,
                   [formals |-> Len(formals), total_locals |-> 0])]
       IN /\ code' = Emit(c, <<Quad("func_start", User(f), None, None)>>)
          /\ Begin("function", User(f))
          /\ functor' = (functor /\ formals = <<>>)
          /\ tokens' = tokens + 1 + Len(formals) /\ tokens' <= MaxTokens
  /\ UNCHANGED <<lists, hung, have, value, errors>>

FunctionEnd ==
  /\ Expecting /\ In("function")
  /\ LET f      == Innermost.head
         locals == {s \in DOMAIN code.symbols : /\ code.symbols[s].in = f.val
                                                /\ code.symbols[s].space = "local"}
     IN /\ code' = Emit([code EXCEPT !.functions[f.val].total_locals = Cardinality(locals)],
                        <<Quad("func_end", f, None, None)>>)
        /\ Have("function", f) \/ (Statement(Tail(open)) /\ HaveNothing)
  /\ End
  /\ UNCHANGED <<lists, functor, hung, tokens, errors>>

-----------------------------------------------------------------------------
(* stmt: error, at a token that does not fit.  By then bison has made its  *)
(* default reductions: what has been read is in its list.  The constructs  *)
(* of the statement are dropped, up to the function in whose body it       *)
(* stands; the lists are not.                                              *)
SyntaxError ==
  /\ Expecting /\ ~Statement(open)
  /\ errors < MaxErrors /\ errors' = errors + 1
  /\ LET rest == IF OpenFunctions = {} THEN <<>>
                 ELSE SubSeq(open, Min(OpenFunctions), Len(open))
     IN open' = [i \in DOMAIN rest |-> [rest[i] EXCEPT !.clean = FALSE]]
  /\ UNCHANGED <<code, lists, functor, hung, have, value, tokens>>

-----------------------------------------------------------------------------
(* The value of an element "()" is due: after its key in a constructor, or *)
(* of an assignment to it.                                                 *)
MemberDue ==
  \/ have = "none" /\ In("indexed") /\ ~KeyExpected /\ Last(Innermost.keys) = Parens
  \/ have = "none" /\ In("assign") /\ Innermost.head.key = <<Parens>>
  \/ have = "lvalue" /\ value.key = <<Parens>>

FunctionHasBegun == Len(code'.functions) > Len(code.functions)

(* strict; the "()" of call["()"] is not noticed.                          *)
StayStrict ==
  strict' = /\ strict
            /\ MemberDue => \/ MemberDue'
                            \/ FunctionHasBegun /\ Last(code'.functions).formals > 0
            /\ ~(In("call index") /\ have = "expr" /\ value = Parens)

Parse ==
  /\ \/ Constant \/ FunctionName \/ Variable \/ Member \/ IndexBegin \/ IndexEnd
     \/ Primary \/ AssignBegin \/ AssignEnd \/ Increment \/ Minus \/ StatementEnd
     \/ Element \/ CallBegin \/ CallEnd
     \/ TableBegin \/ Key \/ ElementValue \/ TableEnd
     \/ FunctionBegin \/ FunctionEnd \/ SyntaxError
  /\ StayStrict

-----------------------------------------------------------------------------
(* Correctness *)

IsExpr(e) ==
  /\ e.type \in {"null", "number", "string", "var", "user", "lib", "element"}
  /\ e.type \in {"var", "element"} => e.val \in DOMAIN code.symbols
  /\ e.type = "user" => e.val \in DOMAIN code.functions

(* Expressions have symbols; there is a list for each call and table that  *)
(* is open, and no other before the first syntax error.                    *)
ParserTypeOK ==
  /\ \A i \in DOMAIN code.quads :
       LET q == code.quads[i] IN IsExpr(q.result) /\ IsExpr(q.arg1) /\ IsExpr(q.arg2)
  /\ {functor, hung, strict} \subseteq BOOLEAN
  /\ have \in {"none", "lvalue", "call", "function", "expr"} /\ IsExpr(value)
  /\ Len(lists.elist) = Len(lists.indexed) /\ Len(lists.elist) = Len(lists.values)
  /\ LET calls  == {i \in DOMAIN open : open[i].kind \in Calls}
         tables == {i \in DOMAIN open : open[i].kind \in Tables}
     IN /\ Len(lists.param) >= Cardinality(calls)
        /\ Len(lists.elist) >= Cardinality(tables)
        /\ errors = 0 => /\ Len(lists.param) = Cardinality(calls)
                         /\ Len(lists.elist) = Cardinality(tables)

Closed(kind) == In(kind) /\ errors' = errors /\ open' = Tail(open)

NewQuads == SubSeq(code'.quads, Len(code.quads) + 1, Len(code'.quads))

(* A call whose arguments contain neither tables without keys nor such     *)
(* lists in functions passes its own arguments, the last one first; such a *)
(* table has its own elements, numbered from 0, if no call is among them.  *)
(* A table with keys always has its own, and all constructors are done     *)
(* with, unless there was a syntax error.                                  *)
OwnElements ==
  [][ /\ hung' => errors > 0
      /\ Closed("call") /\ Innermost.clean =>
           LET n == Len(NewQuads) - 2
               m == n - Len(Innermost.own)
           IN /\ SubSeq(NewQuads, m + 1, n) = Params(Reverse(Innermost.own))
              /\ \A i \in DOMAIN NewQuads \ (m + 1 .. n) : NewQuads[i].op # "param"
      /\ Closed("elist") /\ Innermost.clean =>
           Tail(NewQuads) = SetElems(value', [i \in DOMAIN Innermost.own |-> Num(i - 1)],
                                     Innermost.own)
      /\ Closed("indexed") /\ Innermost.clean =>
           Tail(NewQuads) = SetElems(value', Innermost.keys, Innermost.own) ]_vars

HasThis(c, f) == \E s \in DOMAIN c.symbols : c.symbols[s].name = This /\ c.symbols[s].in = f

(* As long as the value of every element "()" begins with a function that  *)
(* has formals, those functions, and no others, are given this.            *)
ThisOfMembers ==
  [][FunctionHasBegun /\ strict' =>
       (HasThis(code', Len(code'.functions)) <=> MemberDue)]_vars

=============================================================================
