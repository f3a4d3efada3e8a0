------------------------------ MODULE AvmCode ------------------------------
(***************************************************************************)
(* The program that the virtual machine runs: what avm_read_binary leaves  *)
(* in code, userFuncs and globals.  Instructions keep their opcode and the *)
(* operands that decide where the machine goes and which cells it writes;  *)
(* opcodes that only differ in the value they compute are grouped:         *)
(*   data    VM_ADD .. VM_MOD, VM_NEWTABLE, VM_TABLE_GET_ELEM (the cell    *)
(*           of result receives some value)                                *)
(*   effect  VM_TABLE_SET_ELEM, VM_NOP (no cell of the machine changes)    *)
(*   branch  VM_JEQ .. VM_JGT (taken or not, or stopped by a type error)   *)
(*                                                                         *)
(* WellFormedCode is what the machine takes for granted about a program    *)
(* and never checks: it is the contract between the compiler (target.c)    *)
(* and the machine.  The second operand of an instruction is left out: arg1*)
(* stands for the one of the two that reaches further.                     *)
(***************************************************************************)
EXTENDS Integers

CONSTANTS
  Word,       \* 2 ^ (width of an unsigned): indices wrap at this value
  StackSize,  \* AVM_STACKSIZE
  Globals,    \* the globals word of the binary file
  CodeSize,   \* codeSize, also AVM_ENDING_PC
  Code,       \* code[0 .. codeSize - 1]
  LocalSize,  \* userFuncs: entry address -> localSize
  Owner,      \* the function an instruction belongs to, by its entry, or Main
  DataCells   \* the values that a data instruction or a library call yields

Address   == 0 .. CodeSize - 1
Functions == DOMAIN LocalSize
Main      == CodeSize   \* no instruction, hence no function, starts here

(* avm_memcell: val is the number, the entry address of a user function,   *)
(* the index of a library function, or the identity of a table.            *)
CellTypes == {"number_m", "string_m", "bool_m", "table_m", "userfunc_m",
              "libfunc_m", "nil_m", "undef_m"}
Cell == {c \in [type : CellTypes, val : Nat] :
           c.type = "userfunc_m" => c.val \in Functions}

Number(n) == [type |-> "number_m", val |-> n]
Undef     == [type |-> "undef_m", val |-> 0]
Nil       == [type |-> "nil_m", val |-> 0]

(* Indices into libFuncs[]: the two library functions that look at the     *)
(* frame of their caller, any other one, and a name that is not there, for *)
(* which get_lib_name_index returns no value.                              *)
LibTotalArguments == 0
LibArgument       == 1
LibOther          == 2
LibUnknown        == 3

(* vmarg: the operand is a stack cell, the retval register, a jump target  *)
(* or an immediate value.                                                  *)
StackArgs     == {"global_a", "local_a", "formal_a"}
ImmediateArgs == {"number_a", "string_a", "bool_a", "nil_a", "userfunc_a",
                  "libfunc_a"}
Arg == {a \in [type : StackArgs \cup ImmediateArgs \cup {"retval_a", "label_a"},
               val  : Nat] :
          a.type = "userfunc_a" => a.val \in Functions}

Opcodes == {"assign", "data", "effect", "jump", "branch", "pusharg", "call",
            "funcenter", "funcexit"}
Instruction == [opcode : Opcodes, result : Arg, arg1 : Arg]

-----------------------------------------------------------------------------

(* An operand names a cell that the function it stands in really has.      *)
ArgFits(a, f) ==
  /\ a.type = "global_a" => a.val < Globals
  /\ a.type = "local_a"  => f # Main /\ a.val < LocalSize[f]
  /\ a.type = "formal_a" => f # Main

(* Control stays in the function: only a call enters another one.          *)
StaysIn(f, a) == IF a = CodeSize THEN f = Main
                 ELSE a \in Address \ Functions /\ Owner[a] = f

WellFormedAt(a) ==
  LET i == Code[a] IN
  /\ a \in Functions <=> i.opcode = "funcenter"
  /\ i.opcode = "funcenter" => Owner[a] = a
  /\ i.opcode = "funcexit"  => Owner[a] # Main
  /\ i.opcode \in {"assign", "data", "pusharg", "call"} =>
       ArgFits(i.result, Owner[a]) /\ i.result.type # "label_a"
  /\ i.opcode \in {"assign", "data"} => i.result.type \notin ImmediateArgs
  /\ i.opcode \in {"assign", "data", "branch"} => ArgFits(i.arg1, Owner[a])
  /\ i.opcode \in {"jump", "branch"} =>
       i.result.val # a /\ StaysIn(Owner[a], i.result.val)
  /\ i.opcode \notin {"jump", "funcexit"} => StaysIn(Owner[a], a + 1)
  \* the PARAM quads of a call are emitted together, right before its CALL
  /\ i.opcode = "pusharg" =>
       a + 1 \in Address /\ Code[a + 1].opcode \in {"pusharg", "call"}
  \* and GETRETVAL right after it, into a temporary of the calling function
  /\ i.opcode = "call" =>
       /\ a + 1 \in Address /\ Code[a + 1].opcode = "assign"
       /\ IF Owner[a] = Main THEN 1 <= Globals ELSE 1 <= LocalSize[Owner[a]]

WellFormedCode == /\ 0 \in Address => Owner[0] = Main
                  /\ \A a \in Address : WellFormedAt(a)

ASSUME SizesAssumption ==
  /\ StackSize \in Nat /\ Globals \in Nat /\ Word \in Nat /\ CodeSize \in Nat
  /\ Globals < StackSize /\ StackSize <= Word

ASSUME CodeAssumption ==
  /\ Functions \subseteq Address
  /\ LocalSize \in [Functions -> 0 .. Word - StackSize]
  /\ Owner \in [Address -> Functions \cup {Main}]
  /\ Code \in [Address -> Instruction]
  /\ DataCells \subseteq Cell
  /\ WellFormedCode

=============================================================================
