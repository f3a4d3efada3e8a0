----------------------------- MODULE TargetGen -----------------------------
(***************************************************************************)
(* From quads to instructions (target.c), behind the parser of QuadGen:    *)
(* generate_t calls one generator for each quad and patches the jumps that *)
(* lead forward when it has done them all.  Jumps out of a function are    *)
(* patched when its FUNC_END is reached.  Operands other than the targets  *)
(* of jumps are left out.                                                  *)
(***************************************************************************)
EXTENDS QuadGen

CONSTANT
  Reused  \* newRec may get memory that has been in use: returnList is not
          \* initialized; the first to be freed are the quads that expand moves

VARIABLES
  phase,        \* "parsing", "generating", "generated", or "crashed"
  nextQuad,     \* i of generate_t
  instructions, currInstruction,
  taddress,     \* of the quads that have been translated
  ij_head,      \* incomplete jumps: <<instrNo, iaddress>>
  func_stack,   \* functions, each by the label of its FUNC_START
  returnList,   \* function -> the jumps to its end
  t_address,    \* function -> the address of its FUNC_ENTER
  first         \* history: quad -> the first instruction made from it

gvars == <<phase, nextQuad, instructions, currInstruction, taddress, ij_head,
           func_stack, returnList, t_address, first>>
tvars == <<vars, gvars>>

TInit ==
  /\ Init
  /\ phase = "parsing" /\ nextQuad = 0
  /\ instructions = <<>> /\ currInstruction = 0
  /\ taddress = <<>> /\ ij_head = {}
  /\ func_stack = <<>> /\ returnList = <<>> /\ t_address = <<>>
  /\ first = <<>>

Parsing == phase = "parsing" /\ ParseAny /\ UNCHANGED gvars

(* The parser comes to the end of a loop that it does not know any more. *)
ParserCrash ==
  /\ phase = "parsing" /\ LoopFails
  /\ phase' = "crashed"
  /\ UNCHANGED <<vars, nextQuad, instructions, currInstruction, taddress,
                 ij_head, func_stack, returnList, t_address, first>>

(* main calls generate_t, also after syntax errors. *)
StartGenerating ==
  /\ phase = "parsing" /\ open = <<>>
  /\ phase' = "generating"
  /\ UNCHANGED <<vars, nextQuad, instructions, currInstruction, taddress,
                 ij_head, func_stack, returnList, t_address, first>>

(* So it does when the text breaks off: nobody looks at what yyparse       *)
(* returns.                                                                *)
TextBreaksOff ==
  /\ phase = "parsing" /\ open # <<>>
  /\ errors' = errors + 1
  /\ phase' = "generating"
  /\ UNCHANGED <<quads, currQuad, stacks, open, settled, nextQuad, instructions,
                 currInstruction, taddress, ij_head, func_stack, returnList,
                 t_address, first>>

-----------------------------------------------------------------------------
(* Generators *)

(* An instruction, with the function that it belongs to; to is the target  *)
(* of a jump, 0 as long as it is not known.                                *)
Instr(op, to) == [op |-> op, to |-> to, in |-> quads[nextQuad].in]

Generating(op) ==
  /\ phase = "generating" /\ nextQuad \in DOMAIN quads
  /\ quads[nextQuad].op = op

(* t_emit of the instructions in s; the first one, or another one, gets    *)
(* the address by which jumps find the quad.                               *)
TEmit(s, address, patched) ==
  /\ instructions' = [a \in currInstruction .. currInstruction + Len(s) - 1
                        |-> s[a - currInstruction + 1]] @@ patched
  /\ currInstruction' = currInstruction + Len(s)
  /\ taddress' = (nextQuad :> address) @@ taddress
  /\ first' = (nextQuad :> currInstruction) @@ first
  /\ nextQuad' = nextQuad + 1
  /\ UNCHANGED <<vars, phase>>

Here == currInstruction

(* generate; generate_PARAM, generate_CALL, generate_GETRETVAL *)
GenerateOne ==
  \E op \in {"plain", "param", "call", "getretval"} :
    /\ Generating(op)
    /\ TEmit(<<Instr(op, 0)>>, Here, instructions)
    /\ UNCHANGED <<ij_head, func_stack, returnList, t_address>>

(* generate_AND and generate_OR differ in the constants only. *)
GenerateLogic ==
  /\ \/ /\ Generating("and_or")
        /\ TEmit(<<Instr("branch", Here + 4), Instr("branch", Here + 4),
                   Instr("plain", 0), Instr("jump", Here + 5), Instr("plain", 0)>>,
                 Here, instructions)
     \/ /\ Generating("not")
        /\ TEmit(<<Instr("branch", Here + 3), Instr("plain", 0),
                   Instr("jump", Here + 4), Instr("plain", 0)>>, Here, instructions)
  /\ UNCHANGED <<ij_head, func_stack, returnList, t_address>>

(* A wrong GenerateJump: the incomplete jump is noted after t_emit. *)
GenerateJumpLate ==
  \E op \in JumpOps :
    /\ Generating(op)
    /\ LET l == quads[nextQuad].to IN
       IF l < nextQuad
       THEN /\ TEmit(<<Instr(op, taddress[l])>>, Here, instructions)
            /\ UNCHANGED ij_head
       ELSE /\ TEmit(<<Instr(op, 0)>>, Here, instructions)
            /\ ij_head' = ij_head \cup {<<currInstruction', l>>}
    /\ UNCHANGED <<func_stack, returnList, t_address>>

(* generate_relational: a quad that has been translated is found by its    *)
(* address, any other later.                                               *)
GenerateJump ==
  \E op \in JumpOps :
    /\ Generating(op)
    /\ LET l == quads[nextQuad].to IN
       IF l < nextQuad
       THEN /\ TEmit(<<Instr(op, taddress[l])>>, Here, instructions)
            /\ UNCHANGED ij_head
       ELSE /\ TEmit(<<Instr(op, 0)>>, Here, instructions)
            /\ ij_head' = ij_head \cup {<<Here, l>>}
    /\ UNCHANGED <<func_stack, returnList, t_address>>

(* A jump around the function comes first, and jumps to the quad go behind *)
(* it.                                                                     *)
GenerateFuncStart ==
  /\ Generating("func_start")
  /\ LET f == nextQuad IN
     /\ TEmit(<<Instr("jump", 0), [Instr("funcenter", 0) EXCEPT !.in = f]>>,
              Here + 1, instructions)
     /\ t_address' = (f :> Here + 1) @@ t_address
     /\ func_stack' = Push(func_stack, f)
     /\ returnList' = (f :> {Here}) @@ returnList
  /\ UNCHANGED ij_head

(* A wrong patch_instruction_label: all jumps lead to the end. *)
PatchedToEnd(list) ==
  [a \in list |-> [instructions[a] EXCEPT !.to = Here]] @@ instructions

(* patch_instruction_label: the jump in front of a FUNC_ENTER leads behind *)
(* the end of the function, the others to its end.                         *)
PatchedToExit(list) ==
  [a \in list |->
     [instructions[a] EXCEPT !.to =
        IF a < Here - 1 /\ instructions[a + 1].op = "funcenter" THEN Here + 1
        ELSE Here]] @@ instructions

GenerateFuncEnd ==
  /\ Generating("func_end")
  /\ TEmit(<<Instr("funcexit", 0)>>, Here, PatchedToExit(returnList[Head(func_stack)]))
  /\ func_stack' = Tail(func_stack)
  /\ UNCHANGED <<ij_head, returnList, t_address>>

(* A wrong GenerateReturn: the jump goes to the list of the outermost      *)
(* function.                                                               *)
GenerateReturnOutermost ==
  /\ Generating("ret") /\ func_stack # <<>>
  /\ TEmit(<<Instr("plain", 0), Instr("jump", 0)>>, Here, instructions)
  /\ returnList' = [returnList EXCEPT ![func_stack[Len(func_stack)]] = @ \cup {Here + 1}]
  /\ UNCHANGED <<ij_head, func_stack, t_address>>

GenerateReturn ==
  /\ Generating("ret") /\ func_stack # <<>>
  /\ TEmit(<<Instr("plain", 0), Instr("jump", 0)>>, Here, instructions)
  /\ returnList' = [returnList EXCEPT ![Head(func_stack)] = @ \cup {Here + 1}]
  /\ UNCHANGED <<ij_head, func_stack, t_address>>

(* func_stack->symbol with nothing on the stack: return outside of a       *)
(* function; or a quad that was never written; or a list that never was    *)
(* one.  What the process does from here on is not followed.               *)
Crash ==
  /\ phase = "generating" /\ nextQuad < currQuad
  /\ \/ nextQuad \notin DOMAIN quads
     \/ Generating("ret") /\ func_stack = <<>>
     \/ Generating("func_start") /\ Reused
  /\ phase' = "crashed"
  /\ UNCHANGED <<vars, nextQuad, instructions, currInstruction, taddress,
                 ij_head, func_stack, returnList, t_address, first>>

(* A wrong PatchIncompleteJumps: the end of the code is not provided for.  *)
PatchIncompleteToLast ==
  /\ phase = "generating" /\ nextQuad = currQuad
  /\ phase' = "generated"
  /\ instructions' =
       [a \in {j[1] : j \in ij_head} |->
          LET j == CHOOSE j \in ij_head : j[1] = a IN
          [instructions[a] EXCEPT !.to =
             IF j[2] = currQuad THEN taddress[currQuad - 1] ELSE taddress[j[2]]]]
         @@ instructions
  /\ UNCHANGED <<vars, nextQuad, currInstruction, taddress, ij_head,
                 func_stack, returnList, t_address, first>>

(* patch_incomplete_jumps *)
PatchIncompleteJumps ==
  /\ phase = "generating" /\ nextQuad = currQuad
  /\ phase' = "generated"
  /\ instructions' =
       [a \in {j[1] : j \in ij_head} |->
          LET j == CHOOSE j \in ij_head : j[1] = a IN
          [instructions[a] EXCEPT !.to =
             IF j[2] = currQuad THEN currInstruction ELSE taddress[j[2]]]]
         @@ instructions
  /\ UNCHANGED <<vars, nextQuad, currInstruction, taddress, ij_head,
                 func_stack, returnList, t_address, first>>

Ended == phase \in {"generated", "crashed"} /\ UNCHANGED tvars

TNext ==
  \/ Parsing \/ ParserCrash \/ StartGenerating \/ TextBreaksOff
  \/ GenerateOne \/ GenerateLogic \/ GenerateJump
  \/ GenerateFuncStart \/ GenerateFuncEnd \/ GenerateReturn
  \/ Crash \/ PatchIncompleteJumps \/ Ended

TSpec == TInit /\ [][TNext]_tvars

-----------------------------------------------------------------------------
(* Correctness *)

Addresses == 0 .. currInstruction - 1

TTypeOK ==
  /\ phase \in {"parsing", "generating", "generated", "crashed"}
  /\ nextQuad \in 0 .. currQuad
  /\ DOMAIN instructions = Addresses
  /\ \A a \in Addresses : instructions[a].to \in Nat
  /\ DOMAIN taddress = 0 .. nextQuad - 1 /\ DOMAIN first = DOMAIN taddress
  /\ \A q \in DOMAIN taddress : taddress[q] \in Addresses
  /\ ij_head \subseteq Addresses \X (0 .. currQuad)
  /\ func_stack \in Seq(DOMAIN t_address)
  /\ DOMAIN returnList = DOMAIN t_address

Generated == phase = "generated"

(* Where the instructions of quad l begin, or the code ends. *)
Begins(l) == IF l = currQuad THEN currInstruction ELSE first[l]

(* The jump of a quad begins the instructions that its target was made     *)
(* into.                                                                   *)
Reaches(q) == instructions[first[q]].to = Begins(quads[q].to)

JumpQuads == {q \in DOMAIN quads : quads[q].op \in JumpOps}

LeadsToFunction(q) ==
  quads[q].to \in DOMAIN quads /\ quads[quads[q].to].op = "func_start"

(* A jump lands on the first instruction of the quad it leads to.  The     *)
(* code does not keep this for a function, whose address is that of its    *)
(* FUNC_ENTER: there, and only there, the jump lands behind the one that   *)
(* leads around the function.                                              *)
JumpsReachQuads ==
  Generated => \A q \in JumpQuads : ~LeadsToFunction(q) => Reaches(q)

JumpsReachAllQuads == Generated => \A q \in JumpQuads : Reaches(q)

(* A return jumps to the FUNC_EXIT of the innermost function around it,    *)
(* and the code around a function goes on behind its FUNC_EXIT.  Functions *)
(* that the generator has not left at the end are none of a text without   *)
(* syntax errors; whatever the errors, all others are closed.              *)
NotLeft == {func_stack[i] : i \in DOMAIN func_stack}

FunctionsClosed ==
  Generated =>
    /\ errors = 0 => NotLeft = {}
    /\ \A f \in DOMAIN t_address \ NotLeft :
      \E e \in DOMAIN quads :
        LET exit == first[e] IN
        /\ quads[e].op = "func_end" /\ quads[e].to = f
        /\ instructions[first[f]].to = exit + 1
        /\ \A q \in DOMAIN quads : quads[q].op = "ret" /\ quads[q].in = f =>
             instructions[first[q] + 1].to = exit

(* What AvmFrames takes for granted about the code it runs, as far as jumps*)
(* and calls go.  Every local is one of a single temporary, every operand  *)
(* that is not a target a constant.                                        *)
Nil == [type |-> "nil_a", val |-> 0]

MachineCode ==
  LET opcode == [plain |-> "effect", param |-> "pusharg", call |-> "call",
                 getretval |-> "assign", jump |-> "jump", branch |-> "branch",
                 funcenter |-> "funcenter", funcexit |-> "funcexit"]
      result(i) == CASE i.op \in JumpOps -> [type |-> "label_a", val |-> i.to]
                     [] i.op = "getretval" -> [type |-> "global_a", val |-> 0]
                     [] OTHER -> Nil
  IN [a \in Addresses |-> [opcode |-> opcode[instructions[a].op],
                           result |-> result(instructions[a]), arg1 |-> Nil]]

Entry(f) == IF f = Main THEN currInstruction ELSE t_address[f]

Contract == INSTANCE AvmCode WITH
  Word <- 16, StackSize <- 8, Globals <- 1, DataCells <- {},
  CodeSize <- currInstruction, Code <- MachineCode,
  LocalSize <- [e \in {t_address[f] : f \in DOMAIN t_address} |-> 1],
  Owner <- [a \in Addresses |-> Entry(instructions[a].in)]

(* The code of a text without syntax errors and without a jump to a        *)
(* function fulfils the contract.                                          *)
CodeWellFormed ==
  Generated /\ errors = 0 /\ (\A q \in JumpQuads : ~LeadsToFunction(q))
    => Contract!WellFormedCode

(* The parser crashes in loops behind the lost head of a function only.    *)
(* Only a return outside of any function, a record in memory that has been *)
(* in use, or a hole that a syntax error has left, stops the generator.    *)
CrashExplained ==
  phase = "crashed" =>
    \/ HeadLost /\ LoopFails
    \/ errors > 0 /\ nextQuad \notin DOMAIN quads
    \/ \E q \in DOMAIN quads : quads[q].op = "ret" /\ quads[q].in = Main
    \/ Reused /\ nextQuad \in DOMAIN quads /\ quads[nextQuad].op = "func_start"

=============================================================================
