------------------------------ MODULE QuadGen ------------------------------
(***************************************************************************)
(* From statements to quads: the actions of parser.y that emit quads,      *)
(* reserve quads for jumps and write these later, when it is known where   *)
(* they lead.  Which program is compiled is left open: each step is what   *)
(* one rule of the grammar, or the part of a rule up to its next action,   *)
(* does to the global stacks.                                              *)
(*                                                                         *)
(* open is the parser's own stack, reduced to the statements and functions *)
(* that have begun and not ended.  It also records which jumps a statement *)
(* has promised, and to where.                                             *)
(***************************************************************************)
EXTENDS Integers, Sequences, FiniteSets

CONSTANTS
  MaxQuads,   \* bound: no statement begins beyond this number of quads
  MaxOpen,    \* bound: nesting of statements and functions
  MaxErrors,  \* bound: syntax errors
  MaxExprs    \* bound: no expression begins beyond this number of their quads

ASSUME QuadGenAssumption ==
  {MaxQuads, MaxOpen, MaxErrors, MaxExprs} \subseteq Nat

VARIABLES
  quads,      \* the quads that have been written, by their label
  currQuad,
  loops,      \* the stacks that a function puts aside, the top comes first
  function_loop_stack,
  while_start_label_stack, for_expr_start_stack,
  if_label_stack, else_label_stack, has_else_stack,
  function_name_stack,  \* functions, each by the label of its FUNC_START
  open,
  errors,
  settled     \* history: <<jump, label>> whose promise has come due

stacks == <<loops, function_loop_stack, while_start_label_stack,
            for_expr_start_stack, if_label_stack, else_label_stack,
            has_else_stack, function_name_stack>>
vars == <<quads, currQuad, stacks, open, errors, settled>>

NoLoops == [break_stack |-> <<>>, continue_stack |-> <<>>,
            num_of_breaks_stack |-> <<>>, num_of_continues_stack |-> <<>>,
            for_start_stack |-> <<>>, while_end_label_stack |-> <<>>]

(* As in module TLC, whose definitions the proofs cannot use. *)
f @@ g == [x \in DOMAIN f \cup DOMAIN g |-> IF x \in DOMAIN f THEN f[x] ELSE g[x]]
d :> e == [x \in {d} |-> e]

Push(s, x) == <<x>> \o s

Main == -1
Function == IF function_name_stack = <<>> THEN Main ELSE Head(function_name_stack)

(* A quad, with the function it stands in. *)
Quad(op, to) == [op |-> op, to |-> to, in |-> Function]
Plain  == Quad("plain", 0)
JumpTo(l) == Quad("jump", l)

JumpOps == {"jump", "branch"}
Ops == JumpOps \cup {"plain", "and_or", "not", "param", "call", "getretval",
                     "ret", "func_start", "func_end"}

-----------------------------------------------------------------------------
(* Where the parser is *)

Kinds  == {"if", "while", "for", "function"}
Phases == {"init", "cond", "step", "body", "else"}

Innermost == open[1]
InHeader  == open # <<>> /\ Innermost.at \in {"init", "cond", "step"}
InBody    == ~InHeader

Expecting(kind, at) == open # <<>> /\ Innermost.kind = kind /\ Innermost.at = at

(* The statement that began here: where its condition and its step, or its *)
(* else, stand, and the jumps it has promised.                             *)
Opened(kind, at) ==
  [kind |-> kind, at |-> at, start |-> currQuad, step |-> 0, jumps |-> {}]

(* The loop that a break or a continue belongs to, as an index of open;    *)
(* loops outside of the function do not count.                             *)
LoopsHere ==
  {i \in DOMAIN open : /\ open[i].kind \in {"while", "for"} /\ open[i].at = "body"
                       /\ \A j \in 1 .. i : open[j].kind # "function"}
ThisLoop == CHOOSE i \in LoopsHere : \A j \in LoopsHere : i <= j

Due(where) == {p[1] : p \in {q \in Innermost.jumps : q[2] = where}}
Settle(where, l) == {<<q, l>> : q \in Due(where)}

Promise(i, q, where) ==
  [open EXCEPT ![i].jumps = @ \cup {<<q, where>>}]

Bounded(n) == currQuad + n <= MaxQuads

-----------------------------------------------------------------------------
Init ==
  /\ quads = <<>> /\ currQuad = 0
  /\ loops = NoLoops /\ function_loop_stack = <<>>
  /\ while_start_label_stack = <<>> /\ for_expr_start_stack = <<>>
  /\ if_label_stack = <<>> /\ else_label_stack = <<>> /\ has_else_stack = <<>>
  /\ function_name_stack = <<>>
  /\ open = <<>> /\ errors = 0 /\ settled = {}

-----------------------------------------------------------------------------
(* Expressions *)

(* emit of the quads in s, one after the other.                            *)
Emitted(s) == [l \in currQuad .. currQuad + Len(s) - 1 |-> s[l - currQuad + 1]] @@ quads

Emit(s) ==
  /\ Bounded(Len(s))
  /\ quads' = Emitted(s)
  /\ currQuad' = currQuad + Len(s)
  /\ UNCHANGED <<stacks, open, errors>>

OfExpressions ==
  {q \in DOMAIN quads :
     quads[q].op \in {"plain", "and_or", "not", "param", "call", "getretval"}}

Expr(s) == Cardinality(OfExpressions) < MaxExprs /\ Emit(s)

(* Arithmetic, an assignment, an access to a table. *)
Expression == Expr(<<Plain>>) /\ UNCHANGED settled

Logic == UNCHANGED settled /\ \E op \in {"and_or", "not"} : Expr(<<Quad(op, 0)>>)

(* emit_relop: true when the comparison jumps over the assignment of false *)
Relop ==
  /\ Expr(<<Quad("branch", currQuad + 3), Plain, JumpTo(currQuad + 4), Plain>>)
  /\ settled' = settled \cup {<<currQuad, currQuad + 3>>, <<currQuad + 2, currQuad + 4>>}

(* The arguments have been evaluated; one of them is enough to stand for   *)
(* any number.                                                             *)
Call ==
  /\ UNCHANGED settled
  /\ \/ Expr(<<Quad("call", 0), Quad("getretval", 0)>>)
     \/ Expr(<<Quad("param", 0), Quad("call", 0), Quad("getretval", 0)>>)

-----------------------------------------------------------------------------
(* Functions, as statements or in an expression *)

(* The action of funcdef between the arguments and the block: bison takes  *)
(* it whatever token comes next.                                           *)
FuncHead ==
  /\ Bounded(1)
  /\ function_loop_stack' = Push(function_loop_stack, loops)
  /\ loops' = NoLoops
  /\ function_name_stack' = Push(function_name_stack, currQuad)
  /\ quads' = Emitted(<<Quad("func_start", currQuad)>>)
  /\ currQuad' = currQuad + 1
  /\ UNCHANGED <<while_start_label_stack, for_expr_start_stack, if_label_stack,
                 else_label_stack, has_else_stack, settled>>

FuncStart ==
  /\ FuncHead /\ Len(open) < MaxOpen
  /\ open' = Push(open, Opened("function", "body"))
  /\ UNCHANGED errors

(* A wrong FuncEnd: the stacks are not restored. *)
FuncEndKeepsLoops ==
  /\ Expecting("function", "body")
  /\ quads' = Emitted(<<Quad("func_end", Head(function_name_stack))>>)
  /\ currQuad' = currQuad + 1
  /\ function_name_stack' = Tail(function_name_stack)
  /\ function_loop_stack' = Tail(function_loop_stack)
  /\ open' = Tail(open)
  /\ settled' = settled \cup {<<currQuad, Innermost.start>>}
  /\ UNCHANGED <<while_start_label_stack, for_expr_start_stack, if_label_stack,
                 else_label_stack, has_else_stack, errors, loops>>

FuncEnd ==
  /\ Expecting("function", "body")
  /\ quads' = Emitted(<<Quad("func_end", Head(function_name_stack))>>)
  /\ currQuad' = currQuad + 1
  /\ function_name_stack' = Tail(function_name_stack)
  /\ loops' = Head(function_loop_stack)
  /\ function_loop_stack' = Tail(function_loop_stack)
  /\ open' = Tail(open)
  /\ settled' = settled \cup {<<currQuad, Innermost.start>>}
  /\ UNCHANGED <<while_start_label_stack, for_expr_start_stack, if_label_stack,
                 else_label_stack, has_else_stack, errors>>

Return ==
  /\ InBody
  /\ Emit(<<Quad("ret", 0)>>)
  /\ UNCHANGED settled

-----------------------------------------------------------------------------
(* if *)

IfBegin ==
  /\ InBody /\ Bounded(2) /\ Len(open) < MaxOpen
  /\ open' = Push(open, Opened("if", "cond"))
  /\ UNCHANGED <<quads, currQuad, stacks, errors, settled>>

(* IF_EQ to the statement behind it, and a quad for the jump around it.    *)
Test == Emitted(<<Quad("branch", currQuad + 2)>>)

IfThen ==
  /\ Expecting("if", "cond")
  /\ quads' = Test
  /\ if_label_stack' = Push(if_label_stack, currQuad + 1)
  /\ currQuad' = currQuad + 2
  /\ open' = [Promise(1, currQuad + 1, "else") EXCEPT ![1].at = "body"]
  /\ settled' = settled \cup {<<currQuad, currQuad + 2>>}
  /\ UNCHANGED <<loops, function_loop_stack, while_start_label_stack,
                 for_expr_start_stack, else_label_stack, has_else_stack,
                 function_name_stack, errors>>

IfElse ==
  /\ Expecting("if", "body") /\ Bounded(1)
  /\ has_else_stack' = Push(has_else_stack, 1)
  /\ else_label_stack' = Push(else_label_stack, currQuad)
  /\ currQuad' = currQuad + 1
  /\ open' = [open EXCEPT ![1].at = "else", ![1].step = currQuad + 1,
                          ![1].jumps = @ \cup {<<currQuad, "end">>}]
  /\ UNCHANGED <<quads, loops, function_loop_stack, while_start_label_stack,
                 for_expr_start_stack, if_label_stack, function_name_stack,
                 errors, settled>>

(* The end of the rule looks at has_else_stack, on which a missing else    *)
(* has just put a 0.                                                       *)
IfEnd ==
  /\ Expecting("if", "body") \/ Expecting("if", "else")
  /\ LET has == IF Innermost.at = "body" THEN Push(has_else_stack, 0)
                ELSE has_else_stack IN
     /\ quads' = IF Head(has) = 0
                 THEN (Head(if_label_stack) :> JumpTo(currQuad)) @@ quads
                 ELSE (Head(if_label_stack) :> JumpTo(Head(else_label_stack) + 1))
                      @@ (Head(else_label_stack) :> JumpTo(currQuad)) @@ quads
     /\ else_label_stack' = IF Head(has) = 0 THEN else_label_stack
                            ELSE Tail(else_label_stack)
     /\ has_else_stack' = Tail(has)
  /\ if_label_stack' = Tail(if_label_stack)
  /\ open' = Tail(open)
  /\ settled' = settled \cup Settle("end", currQuad) \cup
       Settle("else", IF Innermost.at = "else" THEN Innermost.step ELSE currQuad)
  /\ UNCHANGED <<currQuad, loops, function_loop_stack, while_start_label_stack,
                 for_expr_start_stack, function_name_stack, errors>>

-----------------------------------------------------------------------------
(* while and for *)

LoopBegin(kind, at) ==
  /\ InBody /\ Bounded(3) /\ Len(open) < MaxOpen
  /\ open' = Push(open, Opened(kind, at))

WhileBegin ==
  /\ LoopBegin("while", "cond")
  /\ while_start_label_stack' = Push(while_start_label_stack, currQuad)
  /\ UNCHANGED <<quads, currQuad, loops, function_loop_stack,
                 for_expr_start_stack, if_label_stack, else_label_stack,
                 has_else_stack, function_name_stack, errors, settled>>

(* A wrong WhileBody: the label is that of the quad behind the jump. *)
WhileBodyNext ==
  /\ Expecting("while", "cond")
  /\ loops' = [loops EXCEPT !.num_of_breaks_stack = Push(@, 0),
                            !.num_of_continues_stack = Push(@, 0),
                            !.while_end_label_stack = Push(@, currQuad + 2)]
  /\ quads' = Test
  /\ currQuad' = currQuad + 2
  /\ open' = [Promise(1, currQuad + 1, "end") EXCEPT ![1].at = "body"]
  /\ settled' = settled \cup {<<currQuad, currQuad + 2>>}
  /\ UNCHANGED <<function_loop_stack, while_start_label_stack,
                 for_expr_start_stack, if_label_stack, else_label_stack,
                 has_else_stack, function_name_stack, errors>>

WhileBody ==
  /\ Expecting("while", "cond")
  /\ loops' = [loops EXCEPT !.num_of_breaks_stack = Push(@, 0),
                            !.num_of_continues_stack = Push(@, 0),
                            !.while_end_label_stack = Push(@, currQuad + 1)]
  /\ quads' = Test
  /\ currQuad' = currQuad + 2
  /\ open' = [Promise(1, currQuad + 1, "end") EXCEPT ![1].at = "body"]
  /\ settled' = settled \cup {<<currQuad, currQuad + 2>>}
  /\ UNCHANGED <<function_loop_stack, while_start_label_stack,
                 for_expr_start_stack, if_label_stack, else_label_stack,
                 has_else_stack, function_name_stack, errors>>

(* The first n quads of a stack of reserved quads become jumps to l. *)
Patched(s, n, l) == [q \in {s[i] : i \in 1 .. n} |-> JumpTo(l)]

AtMost(n, s) == IF n <= Len(s) THEN n ELSE Len(s)

(* As many breaks and continues as this loop has counted. *)
Breaks    == AtMost(Head(loops.num_of_breaks_stack), loops.break_stack)
Continues == AtMost(Head(loops.num_of_continues_stack), loops.continue_stack)

Drop(s, n) == SubSeq(s, n + 1, Len(s))

(* The jump back has become quad currQuad; what follows is currQuad + 1.   *)
JumpsOut(jumps, start) ==
  Patched(loops.break_stack, Breaks, currQuad + 1)
    @@ Patched(loops.continue_stack, Continues, start) @@ jumps

CountsPopped ==
  [loops EXCEPT !.break_stack = Drop(@, Breaks),
                !.continue_stack = Drop(@, Continues),
                !.num_of_breaks_stack = Tail(@),
                !.num_of_continues_stack = Tail(@)]

(* The entries that the code uses without looking whether there are any.   *)
(* Where one is missing, the parser crashes: see LoopFails.                *)
Counting == loops.num_of_breaks_stack # <<>> /\ loops.num_of_continues_stack # <<>>
InWhile  == loops.while_end_label_stack # <<>> /\ Counting
InFor    == loops.for_start_stack # <<>>

(* A wrong WhileEnd: every pending break is taken for one of this loop. *)
WhileEndTakesAll ==
  /\ Expecting("while", "body") /\ InWhile
  /\ LET start == Head(while_start_label_stack) IN
     quads' = Patched(loops.break_stack, Len(loops.break_stack), currQuad + 1)
                @@ JumpsOut((currQuad :> JumpTo(start))
                         @@ (Head(loops.while_end_label_stack) :> JumpTo(currQuad + 1))
                         @@ quads, start)
  /\ currQuad' = currQuad + 1
  /\ loops' = [CountsPopped EXCEPT !.break_stack = <<>>,
                                   !.while_end_label_stack = Tail(@)]
  /\ while_start_label_stack' = Tail(while_start_label_stack)
  /\ open' = Tail(open)
  /\ settled' = settled \cup {<<currQuad, Innermost.start>>}
                  \cup Settle("start", Innermost.start) \cup Settle("end", currQuad + 1)
  /\ UNCHANGED <<function_loop_stack, for_expr_start_stack, if_label_stack,
                 else_label_stack, has_else_stack, function_name_stack, errors>>

WhileEnd ==
  /\ Expecting("while", "body") /\ InWhile
  /\ LET start == Head(while_start_label_stack) IN
     quads' = JumpsOut((currQuad :> JumpTo(start))
                         @@ (Head(loops.while_end_label_stack) :> JumpTo(currQuad + 1))
                         @@ quads, start)
  /\ currQuad' = currQuad + 1
  /\ loops' = [CountsPopped EXCEPT !.while_end_label_stack = Tail(@)]
  /\ while_start_label_stack' = Tail(while_start_label_stack)
  /\ open' = Tail(open)
  /\ settled' = settled \cup {<<currQuad, Innermost.start>>}
                  \cup Settle("start", Innermost.start) \cup Settle("end", currQuad + 1)
  /\ UNCHANGED <<function_loop_stack, for_expr_start_stack, if_label_stack,
                 else_label_stack, has_else_stack, function_name_stack, errors>>

ForBegin ==
  /\ LoopBegin("for", "init")
  /\ UNCHANGED <<quads, currQuad, stacks, errors, settled>>

ForCond ==
  /\ Expecting("for", "init")
  /\ loops' = [loops EXCEPT !.num_of_breaks_stack = Push(@, 0),
                            !.num_of_continues_stack = Push(@, 0)]
  /\ for_expr_start_stack' = Push(for_expr_start_stack, currQuad)
  /\ open' = [open EXCEPT ![1].at = "cond", ![1].start = currQuad]
  /\ UNCHANGED <<quads, currQuad, function_loop_stack, while_start_label_stack,
                 if_label_stack, else_label_stack, has_else_stack,
                 function_name_stack, errors, settled>>

(* Two quads are reserved: the test, and the jump out of the loop. *)
ForStep ==
  /\ Expecting("for", "cond")
  /\ loops' = [loops EXCEPT !.for_start_stack = Push(@, currQuad)]
  /\ currQuad' = currQuad + 2
  /\ open' = [open EXCEPT ![1].at = "step", ![1].step = currQuad + 2,
                ![1].jumps = {<<currQuad, "body">>, <<currQuad + 1, "end">>}]
  /\ UNCHANGED <<quads, function_loop_stack, while_start_label_stack,
                 for_expr_start_stack, if_label_stack, else_label_stack,
                 has_else_stack, function_name_stack, errors, settled>>

(* The action between the step and its parenthesis, which bison, too, takes*)
(* whatever comes next.                                                    *)
StepDone ==
  /\ Expecting("for", "step") /\ InFor
  /\ quads' = (currQuad :> JumpTo(Head(for_expr_start_stack)))
                @@ (Head(loops.for_start_stack) :> Quad("branch", currQuad + 1))
                @@ quads
  /\ currQuad' = currQuad + 1
  /\ settled' = settled \cup {<<currQuad, Innermost.start>>}
                  \cup Settle("body", currQuad + 1)
  /\ UNCHANGED stacks

ForBody ==
  /\ StepDone
  /\ open' = [open EXCEPT ![1].at = "body",
                          ![1].jumps = {p \in @ : p[2] # "body"}]
  /\ UNCHANGED errors

ForEnd ==
  /\ Expecting("for", "body") /\ InFor /\ Counting
  /\ LET start == Head(loops.for_start_stack) IN
     quads' = JumpsOut((currQuad :> JumpTo(start + 2))
                         @@ ((start + 1) :> JumpTo(currQuad + 1)) @@ quads, start + 2)
  /\ currQuad' = currQuad + 1
  /\ loops' = [CountsPopped EXCEPT !.for_start_stack = Tail(@)]
  /\ for_expr_start_stack' = Tail(for_expr_start_stack)
  /\ open' = Tail(open)
  /\ settled' = settled \cup {<<currQuad, Innermost.step>>}
                  \cup Settle("start", Innermost.step) \cup Settle("end", currQuad + 1)
  /\ UNCHANGED <<function_loop_stack, while_start_label_stack, if_label_stack,
                 else_label_stack, has_else_stack, function_name_stack, errors>>

InLoop == loops.for_start_stack # <<>> \/ loops.while_end_label_stack # <<>>

Increment(s) == <<Head(s) + 1>> \o Tail(s)

Promised(where) ==
  open' = IF LoopsHere = {} THEN open ELSE Promise(ThisLoop, currQuad, where)

(* A wrong Break: it is not counted. *)
BreakUncounted ==
  /\ InBody /\ InLoop /\ Counting /\ Bounded(1)
  /\ loops' = [loops EXCEPT !.break_stack = Push(@, currQuad)]
  /\ currQuad' = currQuad + 1
  /\ Promised("end")
  /\ UNCHANGED <<quads, function_loop_stack, while_start_label_stack,
                 for_expr_start_stack, if_label_stack, else_label_stack,
                 has_else_stack, function_name_stack, errors, settled>>

(* Outside of loops they are reported, and nothing else. *)
Break ==
  /\ InBody /\ InLoop /\ Counting /\ Bounded(1)
  /\ loops' = [loops EXCEPT !.break_stack = Push(@, currQuad),
                            !.num_of_breaks_stack = Increment(@)]
  /\ currQuad' = currQuad + 1
  /\ Promised("end")
  /\ UNCHANGED <<quads, function_loop_stack, while_start_label_stack,
                 for_expr_start_stack, if_label_stack, else_label_stack,
                 has_else_stack, function_name_stack, errors, settled>>

Continue ==
  /\ InBody /\ InLoop /\ Counting /\ Bounded(1)
  /\ loops' = [loops EXCEPT !.continue_stack = Push(@, currQuad),
                            !.num_of_continues_stack = Increment(@)]
  /\ currQuad' = currQuad + 1
  /\ Promised("start")
  /\ UNCHANGED <<quads, function_loop_stack, while_start_label_stack,
                 for_expr_start_stack, if_label_stack, else_label_stack,
                 has_else_stack, function_name_stack, errors, settled>>

-----------------------------------------------------------------------------
(* The parser reports a syntax error and goes on with the next statement,  *)
(* stmt: error.  It forgets the statement whose head it was reading, and   *)
(* the stacks keep what that statement has put there.                      *)
Misread ==
  /\ errors < MaxErrors
  /\ errors' = errors + 1
  /\ open' = IF InHeader THEN Tail(open) ELSE open

SyntaxError == InHeader /\ Misread /\ UNCHANGED <<quads, currQuad, stacks, settled>>

(* The error comes when an action has already been taken: behind the       *)
(* arguments of a function, which is forgotten with the head in which it   *)
(* may stand, or behind the step of a for.                                 *)
FuncHeadError == FuncHead /\ Misread
StepError     == StepDone /\ Misread

(* What the parser is about to do needs an entry that is not there: it     *)
(* follows a null pointer, or assert(head) of pop fails.                   *)
LoopFails ==
  \/ Expecting("while", "body") /\ ~InWhile
  \/ Expecting("for", "step") /\ ~InFor
  \/ Expecting("for", "body") /\ ~(InFor /\ Counting)
  \/ InBody /\ InLoop /\ ~Counting

(* The text may end wherever no statement has begun. *)
Parsed == open = <<>> /\ UNCHANGED vars

(* A text without syntax errors whose expressions are one quad each.       *)
Parse ==
  \/ Expression \/ FuncStart \/ FuncEnd \/ Return
  \/ IfBegin \/ IfThen \/ IfElse \/ IfEnd
  \/ WhileBegin \/ WhileBody \/ WhileEnd
  \/ ForBegin \/ ForCond \/ ForStep \/ ForBody \/ ForEnd
  \/ Break \/ Continue

(* Any text. *)
ParseAny ==
  \/ Parse \/ Logic \/ Relop \/ Call
  \/ SyntaxError \/ FuncHeadError \/ StepError

Next == Parse \/ Parsed

Spec == Init /\ [][Next]_vars

-----------------------------------------------------------------------------
(* Correctness *)

Labels == 0 .. currQuad - 1

LoopStacks ==
  [break_stack : Seq(Labels), continue_stack : Seq(Labels),
   num_of_breaks_stack : Seq(Nat), num_of_continues_stack : Seq(Nat),
   for_start_stack : Seq(Labels), while_end_label_stack : Seq(Labels)]

Frame == [kind : Kinds, at : Phases, start : Nat, step : Nat,
          jumps : SUBSET (Labels \X {"start", "end", "body", "else"})]

TypeOK ==
  /\ currQuad \in Nat
  /\ DOMAIN quads \subseteq Labels
  /\ \A q \in DOMAIN quads :
       quads[q] \in [op : Ops, to : 0 .. currQuad, in : Labels \cup {Main}]
  /\ loops \in LoopStacks /\ function_loop_stack \in Seq(LoopStacks)
  /\ while_start_label_stack \in Seq(0 .. currQuad)
  /\ for_expr_start_stack \in Seq(0 .. currQuad)
  /\ if_label_stack \in Seq(Labels) /\ else_label_stack \in Seq(Labels)
  /\ has_else_stack \in Seq({0, 1})
  /\ function_name_stack \in Seq(Labels)
  /\ open \in Seq(Frame)
  /\ errors \in Nat
  /\ settled \subseteq Labels \X Nat

(* Every jump leads to where its statement promised, from the moment that  *)
(* this place is known until the end, and a quad that has been left out    *)
(* and not written yet is one that an open statement will write: the       *)
(* global stacks, with counters in place of lists and with functions in    *)
(* between, never confuse two statements.  So it is in a text without      *)
(* syntax errors.                                                          *)
JumpsLand ==
  errors = 0 =>
    /\ \A p \in settled : p[1] \in DOMAIN quads /\ quads[p[1]].to = p[2]
    /\ \A q \in Labels \ DOMAIN quads :
         \E i \in DOMAIN open : q \in {p[1] : p \in open[i].jumps}

Open(kind, phases) == {i \in DOMAIN open : open[i].kind = kind /\ open[i].at \in phases}

InThisFunction(is) ==
  {i \in is : \A j \in 1 .. i : open[j].kind # "function"}

(* A function has been forgotten behind its head: its end will never bring *)
(* the loops back that its head has put aside.                             *)
HeadLost == Len(function_name_stack) > Cardinality(Open("function", Phases))

(* break and continue are accepted exactly inside of loops: loops outside  *)
(* of a function do not count for its body, and count again behind it.     *)
(* After a syntax error they may be accepted elsewhere, too, and after one *)
(* behind the head of a function refused in the loop around it.            *)
BreakOnlyInLoops ==
  InBody => /\ LoopsHere # {} => InLoop \/ HeadLost
            /\ errors = 0 /\ InLoop => LoopsHere # {}

(* assert(head) of pop, and the unchecked heads that break, continue and   *)
(* the ends of the loops use: after syntax errors, too, the stacks hold an *)
(* entry for each statement that is open, and more.  For the stacks that   *)
(* functions put aside this ends when the head of a function is lost, and  *)
(* only then.                                                              *)
PopsNeverFail ==
  LET Holds(s, is) == Cardinality(is) <= Len(s) IN
  /\ Holds(if_label_stack, Open("if", {"body", "else"}))
  /\ Holds(else_label_stack, Open("if", {"else"}))
  /\ Holds(has_else_stack, Open("if", {"else"}))
  /\ Holds(while_start_label_stack, Open("while", Phases))
  /\ Holds(for_expr_start_stack, Open("for", Phases \ {"init"}))
  /\ Holds(function_name_stack, Open("function", Phases))
  /\ Holds(function_loop_stack, Open("function", Phases))
  /\ HeadLost \/
       /\ Holds(loops.while_end_label_stack, InThisFunction(Open("while", {"body"})))
       /\ Holds(loops.for_start_stack, InThisFunction(Open("for", {"step", "body"})))
       /\ Len(loops.while_end_label_stack) + Len(loops.for_start_stack)
            <= Len(loops.num_of_breaks_stack)
       /\ Len(loops.num_of_breaks_stack) = Len(loops.num_of_continues_stack)

=============================================================================
