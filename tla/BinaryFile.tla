---------------------------- MODULE BinaryFile ----------------------------
(***************************************************************************)
(* The way of operands from an expression to the machine: make_operand of  *)
(* target.c with its tables of constants, functions and names; the binary  *)
(* file that the compiler writes; avm_read_binary of avm.c.                *)
(*                                                                         *)
(* Targets of jumps are left out, see TargetGen, and so is the magic       *)
(* number; instructions have the names of their quads.                     *)
(***************************************************************************)
EXTENDS Expressions

CONSTANT StackSize  \* AVM_STACKSIZE

ASSUME StackSizeAssumption == StackSize \in Nat

VARIABLES
  phase,   \* "parsing", "generating", "reading", "loaded", or "refused":
           \* there are more globals than the stack has cells
  nextQuad, \* i of generate_t, from 1
  target,  \* instructions, the tables, globals, t_address of functions
  file,    \* of the items that are written and read one by one
  avm      \* what the machine has read

bvars == <<vars, phase, nextQuad, target, file, avm>>

Empty == [instructions |-> <<>>, numConsts |-> <<>>, stringConsts |-> <<>>,
          userFuncs |-> <<>>, namedLibfuncs |-> <<>>, globals |-> 0]

BInit ==
  /\ Init
  /\ phase = "parsing" /\ nextQuad = 1
  /\ target = [instructions |-> <<>>, numConsts |-> <<>>, stringConsts |-> <<>>,
               userFuncs |-> <<>>, namedLibfuncs |-> <<>>, globals |-> 0,
               namedVarNames |-> {}, t_address |-> <<>>]
  /\ file = <<>> /\ avm = Empty

BParse == phase = "parsing" /\ Parse /\ UNCHANGED <<phase, nextQuad, target, file, avm>>

(* The parser does not return, or the bounded text ends halfway.           *)
NeverEnds ==
  /\ phase = "parsing" /\ (hung \/ tokens = MaxTokens)
  /\ UNCHANGED bvars

-----------------------------------------------------------------------------
(* Operands *)

Put(table, x)   == IF x \in Range(table) THEN table ELSE Append(table, x)
Place(table, x) == (CHOOSE i \in DOMAIN table : table[i] = x) - 1

(* add_user_functions: functions are told apart by their addresses.        *)
UserFunc(t, f) ==
  [id |-> f, address |-> t.t_address[f], localSize |-> code.functions[f].total_locals]

PutFunc(table, u) ==
  IF \E i \in DOMAIN table : table[i].address = u.address THEN table ELSE Append(table, u)
PlaceFunc(table, u) ==
  (CHOOSE i \in DOMAIN table : table[i].address = u.address) - 1

(* A wrong AddVarNames: temporaries are not counted.                       *)
AddVarNamesOfText(t, s) ==
  [t EXCEPT !.globals = IF s.space = "program" /\ s.name >= 0 /\ s.name \notin t.namedVarNames
                        THEN @ + 1 ELSE @,
            !.namedVarNames = @ \cup {s.name}]

(* add_var_names: globals counts those program variables whose name has    *)
(* not been seen before, of a formal or a local either.                    *)
AddVarNames(t, s) ==
  [t EXCEPT !.globals = IF s.space = "program" /\ s.name \notin t.namedVarNames
                        THEN @ + 1 ELSE @,
            !.namedVarNames = @ \cup {s.name}]

OfSymbol(e) == e.type \in {"var", "element"}

(* make_operand: the tables afterwards. *)
Note(t, e) ==
  CASE e.type = "number" -> [t EXCEPT !.numConsts = Put(@, e.val)]
    [] e.type = "string" -> [t EXCEPT !.stringConsts = Put(@, e.val)]
    [] e.type = "lib"    -> [t EXCEPT !.namedLibfuncs = Put(@, e.val)]
    [] e.type = "user"   -> [t EXCEPT !.userFuncs = PutFunc(@, UserFunc(t, e.val))]
    [] OfSymbol(e)       -> AddVarNames(t, code.symbols[e.val])
    [] e.type \in {"null", "retval"} -> t

(* make_operand: the operand, in tables that have been updated.  An absent *)
(* one is written as type and value -1, of the type one byte: 255, which   *)
(* is none of the types.                                                   *)
Operand(t, e) ==
  CASE e.type = "number" -> [type |-> "number", val |-> Place(t.numConsts, e.val)]
    [] e.type = "string" -> [type |-> "string", val |-> Place(t.stringConsts, e.val)]
    [] e.type = "lib"    -> [type |-> "lib", val |-> Place(t.namedLibfuncs, e.val)]
    [] e.type = "user"   -> [type |-> "user", val |-> PlaceFunc(t.userFuncs, UserFunc(t, e.val))]
    [] OfSymbol(e)       -> [type |-> code.symbols[e.val].space,
                             val  |-> code.symbols[e.val].offset]
    [] e.type = "retval" -> [type |-> "retval", val |-> 0]
    [] e.type = "null"   -> [type |-> "255", val |-> -1]

Retval == Expr("retval", 0)

(* The operands of an instruction: those of the quad, but for generators   *)
(* that add one.                                                           *)
Operands(q) ==
  CASE q.op = "getretval" -> <<q.result, Retval, None>>
    [] q.op = "uminus"    -> <<q.result, q.arg1, Num(-1)>>
    [] OTHER              -> <<q.result, q.arg1, q.arg2>>

(* generate, generate_PARAM, ..: t_emit of an instruction.                 *)
Translate(t, q) ==
  LET es == Operands(q)
      u  == Note(Note(Note(t, es[1]), es[2]), es[3])
  IN [u EXCEPT !.instructions = Append(@,
       <<q.op, Operand(u, es[1]), Operand(u, es[2]), Operand(u, es[3])>>)]

Entry(addresses, f, n) == [g \in DOMAIN addresses \cup {f} |-> IF g = f THEN n ELSE addresses[g]]

(* A wrong EnterFunction: the address is that of the jump.                 *)
EnterFunctionAtJump(t, f) ==
  [t EXCEPT !.instructions = Append(@, <<"jump", [type |-> "label", val |-> 0],
                                         Operand(t, None), Operand(t, None)>>),
            !.t_address = Entry(@, f, Len(t.instructions))]

(* generate_FUNCSTART: a jump around the function, whose address is that   *)
(* of the instruction after it.                                            *)
EnterFunction(t, f) ==
  [t EXCEPT !.instructions = Append(@, <<"jump", [type |-> "label", val |-> 0],
                                         Operand(t, None), Operand(t, None)>>),
            !.t_address = Entry(@, f, Len(t.instructions) + 1)]

(* One quad, by its generator.                                             *)
GenerateQuad(t, q) ==
  Translate(IF q.op = "func_start" THEN EnterFunction(t, q.result.val) ELSE t, q)

-----------------------------------------------------------------------------
(* The file *)

(* printInstructions, print_const_nums and so on: every table comes with   *)
(* its length.                                                             *)
WithLength(table) == <<Len(table)>> \o table

FileOf(t) ==
  <<t.globals>> \o WithLength(t.instructions) \o WithLength(t.numConsts)
    \o WithLength(t.stringConsts) \o WithLength(t.userFuncs)
    \o WithLength(t.namedLibfuncs)

(* main, when yyparse has returned: generate_t with its loop, and the      *)
(* functions that print.  Nobody looks at what yyparse returns, and so it  *)
(* is after syntax errors and wherever the text breaks off as well.  A     *)
(* function that has not ended goes on with the total_locals that its      *)
(* record holds by then: never set, and here 0.                            *)
StartGenerating ==
  /\ phase = "parsing" /\ Expecting
  /\ phase' = "generating"
  /\ UNCHANGED <<vars, nextQuad, target, file, avm>>

Generate ==
  /\ phase = "generating" /\ nextQuad \in DOMAIN code.quads
  /\ target' = GenerateQuad(target, code.quads[nextQuad])
  /\ nextQuad' = nextQuad + 1
  /\ UNCHANGED <<vars, phase, file, avm>>

Write ==
  /\ phase = "generating" /\ nextQuad > Len(code.quads)
  /\ file' = FileOf(target)
  /\ phase' = "reading"
  /\ UNCHANGED <<vars, nextQuad, target, avm>>

(* What fread finds from position p on: a table, and the position behind.  *)
TableAt(p) == SubSeq(file, p + 1, p + file[p])
Behind(p)  == p + file[p] + 1

Read ==
  /\ phase = "reading" /\ file[1] < StackSize
  /\ LET nums    == Behind(2)
         strings == Behind(nums)
         funcs   == Behind(strings)
         libs    == Behind(funcs)
     IN avm' = [globals |-> file[1], instructions |-> TableAt(2),
                numConsts |-> TableAt(nums), stringConsts |-> TableAt(strings),
                userFuncs |-> TableAt(funcs), namedLibfuncs |-> TableAt(libs)]
  /\ phase' = "loaded"
  /\ UNCHANGED <<vars, nextQuad, target, file>>

(* The machine refuses the file. *)
Refuse ==
  /\ phase = "reading" /\ file[1] >= StackSize
  /\ phase' = "refused"
  /\ UNCHANGED <<vars, nextQuad, target, file, avm>>

Finished == phase \in {"loaded", "refused"} /\ UNCHANGED bvars

Next ==
  \/ BParse \/ NeverEnds \/ StartGenerating \/ Generate \/ Write
  \/ Read \/ Refuse \/ Finished

Spec == BInit /\ [][Next]_bvars

-----------------------------------------------------------------------------
(* Correctness *)

(* The parser's types; phases in their order; tables without duplicates.   *)
TypeOK ==
  /\ ParserTypeOK
  /\ phase \in {"parsing", "generating", "reading", "loaded", "refused"}
  /\ nextQuad \in 1 .. Len(code.quads) + 1
  /\ IsInjective(target.numConsts) /\ IsInjective(target.stringConsts)
  /\ IsInjective(target.userFuncs) /\ IsInjective(target.namedLibfuncs)

(* What the machine makes of an operand: consts_getnumber and so on; of a  *)
(* function, what it finds about it by its address (avm_getfuncinfo), and  *)
(* what it executes there first.                                           *)
Meaning(op) ==
  CASE op.type = "number" -> Num(avm.numConsts[op.val + 1])
    [] op.type = "string" -> Str(avm.stringConsts[op.val + 1])
    [] op.type = "lib"    -> Expr("lib", avm.namedLibfuncs[op.val + 1])
    [] op.type = "user"   ->
         LET address == avm.userFuncs[op.val + 1].address
             info == CHOOSE u \in Range(avm.userFuncs) : u.address = address
             enter == avm.instructions[address + 1]
         IN [id |-> info.id, locals |-> info.localSize, enters |-> enter[1],
             as |-> avm.userFuncs[enter[2].val + 1].id]
    [] OTHER -> op

(* What the parser meant by an expression. *)
Meant(e) ==
  CASE e.type \in {"number", "string", "lib"} -> e
    [] e.type = "user" ->
         [id |-> e.val, locals |-> code.functions[e.val].total_locals,
          enters |-> "func_start", as |-> e.val]
    [] OTHER -> Operand(target, e)

(* The instruction that a quad becomes is its last one. *)
Address(i) == i + Cardinality({j \in 1 .. i : code.quads[j].op = "func_start"})

(* What has gone through the tables, the file and the machine's copies of  *)
(* them is what the parser has put into the quads: constants by value,     *)
(* functions with their entry and their number of locals, which is known   *)
(* only at their end, variables by their places.                           *)
FileMeansQuads ==
  phase = "loaded" =>
    /\ Len(avm.instructions) = Address(Len(code.quads))
    /\ \A i \in DOMAIN code.quads :
         LET instr == avm.instructions[Address(i)] IN
         /\ instr[1] = code.quads[i].op
         /\ \A n \in 1 .. 3 : Meaning(instr[n + 1]) = Meant(Operands(code.quads[i])[n])

Globals == {s \in Range(code.symbols) : s.space = "program"}

Used == {s \in DOMAIN code.symbols :
           \E q \in Range(code.quads) : \E e \in Range(Operands(q)) :
             OfSymbol(e) /\ e.val = s}

(* If every variable of the program is an operand, and none shares its     *)
(* name with another variable, the stack of the machine begins below all   *)
(* of them (avm_initstack).                                                *)
GlobalsReserved ==
  phase = "loaded" =>
    /\ avm.globals <= Cardinality(Globals)
    /\ /\ \A s \in DOMAIN code.symbols : code.symbols[s].space = "program" => s \in Used
       /\ \A r, s \in DOMAIN code.symbols :
            r # s /\ code.symbols[r].space = "program" =>
              code.symbols[r].name # code.symbols[s].name
       => \A i \in DOMAIN avm.instructions, n \in 2 .. 4 :
            avm.instructions[i][n].type = "program" =>
              avm.instructions[i][n].val < avm.globals

=============================================================================
