-------------------------- MODULE AvmFramesProofs --------------------------
(***************************************************************************)
(* Theorems about the calling sequence, for every well-formed program, any *)
(* stack size and any number of globals: the frames, what a step may never *)
(* do to those of the functions that wait, what a function learns about its*)
(* own call, and that the calling sequence implements CallStack.           *)
(***************************************************************************)
EXTENDS AvmFrames, SequenceTheorems, TLAPS

(* What an executing instruction knows about its operands. *)
LEMMA OperandFacts ==
  ASSUME pc \in Address
  PROVE  /\ Code[pc] \in Instruction
         /\ Code[pc].opcode \in {"assign", "data", "pusharg", "call"} =>
              /\ Code[pc].result \in Arg
              /\ ArgFits(Code[pc].result, Owner[pc])
              /\ Code[pc].result.type # "label_a"
         /\ Code[pc].opcode = "assign" =>
              /\ Code[pc].arg1 \in Arg
              /\ ArgFits(Code[pc].arg1, Owner[pc])
         /\ Code[pc].opcode \in {"assign", "data"} =>
              Code[pc].result.type \in StackArgs \cup {"retval_a"}
         /\ Owner[pc] \in Functions \cup {Main}
<1>1. WellFormedAt(pc)
  BY CodeAssumption DEF WellFormedCode
<1>2. Code[pc] \in Instruction /\ Owner[pc] \in Functions \cup {Main}
  BY CodeAssumption
<1>3. Code[pc].result \in Arg /\ Code[pc].arg1 \in Arg
  BY <1>2 DEF Instruction
<1>4. QED
  BY <1>1, <1>2, <1>3 DEF WellFormedAt, Arg, StackArgs, ImmediateArgs

LEMMA SizesAreNat ==
  /\ StackSize \in Nat /\ Globals \in Nat /\ Word \in Nat /\ CodeSize \in Nat
  /\ Globals < StackSize /\ StackSize <= Word
  /\ MainTop \in Nat /\ EnvSize = 4
  /\ \A f \in Functions : f \in Nat /\ LocalSize[f] \in Nat
                          /\ LocalSize[f] <= Word - StackSize
BY SizesAssumption, CodeAssumption DEF MainTop, EnvSize, Address

LEMMA SizeFacts ==
  StackSize \in Nat /\ MainTop \in Nat /\ MainTop < StackSize /\ EnvSize = 4
BY SizesAssumption DEF MainTop, EnvSize

(* An operand that fits its function names a cell index. *)
LEMMA CellIndexIsNat ==
  ASSUME topsp \in Nat, NEW a \in Arg, NEW f \in Functions \cup {Main},
         ArgFits(a, f), a.type \in StackArgs
  PROVE  CellIndex(a) \in Nat
<1>1. a.val \in Nat
  BY DEF Arg
<1>2. CASE a.type = "global_a"
  <2>1. a.val < Globals
    BY <1>2 DEF ArgFits
  <2>2. CellIndex(a) = StackSize - 1 - a.val
    BY <1>2 DEF CellIndex
  <2>3. QED
    BY <1>1, <2>1, <2>2, SizesAreNat
<1>3. CASE a.type = "local_a"
  <2>1. f \in Functions /\ a.val < LocalSize[f]
    BY <1>3 DEF ArgFits
  <2>2. CellIndex(a) = Wrap(topsp - a.val)
    BY <1>3 DEF CellIndex
  <2>3. QED
    BY <1>1, <2>1, <2>2, SizesAreNat DEF Wrap
<1>4. CASE a.type = "formal_a"
  <2>1. CellIndex(a) = topsp + EnvSize + 1 + a.val
    BY <1>4 DEF CellIndex
  <2>2. QED
    BY <1>1, <2>1, SizesAreNat
<1>5. QED
  BY <1>2, <1>3, <1>4 DEF StackArgs

(* Numbers, nil and undef are cells. *)
LEMMA PlainCells ==
  /\ Nil \in Cell /\ Undef \in Cell
  /\ \A n \in Nat : Number(n) \in Cell
BY DEF Nil, Undef, Number, Cell, CellTypes

LEMMA CellFields ==
  ASSUME NEW c \in Cell
  PROVE  c.val \in Nat /\ (c.type = "userfunc_m" => c.val \in Functions)
BY DEF Cell

(* Evaluating an operand yields a cell. *)
LEMMA ValueIsCell ==
  ASSUME TypeOK, pc \in Address, NEW a \in Arg, a.type # "label_a",
         ArgFits(a, Owner[pc]),
         a.type \in StackArgs => CellIndex(a) < StackSize
  PROVE  Value(a) \in Cell
<1>1. CASE a.type \in StackArgs
  <2>1. CellIndex(a) \in Nat
    BY <1>1, CellIndexIsNat, OperandFacts DEF TypeOK
  <2>2. CellIndex(a) \in 0 .. StackSize - 1
    BY <2>1, <1>1, SizesAreNat
  <2>3. QED
    BY <1>1, <2>2 DEF Value, TypeOK
<1>2. CASE a.type = "retval_a"
  BY <1>2 DEF Value, TypeOK, StackArgs
<1>3. CASE a.type \in ImmediateArgs
  <2>1. Value(a) = [type |-> ImmediateType[a.type], val |-> a.val]
    BY <1>3 DEF Value, StackArgs, ImmediateArgs
  <2>2. ImmediateType[a.type] \in CellTypes
    BY <1>3 DEF ImmediateType, ImmediateArgs, CellTypes
  <2>3. a.val \in Nat /\ (a.type = "userfunc_a" => a.val \in Functions)
    BY DEF Arg
  <2>4. ImmediateType[a.type] = "userfunc_m" => a.type = "userfunc_a"
    BY <1>3 DEF ImmediateType, ImmediateArgs
  <2>5. QED
    BY <2>1, <2>2, <2>3, <2>4 DEF Cell
<1>4. QED
  BY <1>1, <1>2, <1>3 DEF Arg

(* What is true of an instruction that executes: its operands are cells,   *)
(* its destination and the free cell lie in the stack.                     *)
LEMMA ExecutingFacts ==
  ASSUME TypeOK, NEW op, Executing(op)
  PROVE  /\ Running /\ pc \in Address /\ Code[pc].opcode = op
         /\ op \in {"assign", "data"} =>
              \/ Code[pc].result.type = "retval_a"
              \/ /\ Code[pc].result.type \in StackArgs
                 /\ CellIndex(Code[pc].result) \in 0 .. StackSize - 1
         /\ op = "assign" /\ Code[pc].arg1.type # "label_a" =>
              Value(Code[pc].arg1) \in Cell
         /\ op \in {"pusharg", "call"} =>
              top \in 0 .. StackSize - 1 /\ Value(Code[pc].result) \in Cell
<1> DEFINE i == Code[pc]
<1>1. Running /\ pc \in Address /\ i.opcode = op /\ InStack(i)
  BY DEF Executing, Running
<1>2. \A a \in Operands(i) : a.type \in StackArgs => CellIndex(a) < StackSize
  BY <1>1 DEF InStack, Reached
<1>3. CASE op \in {"assign", "data"}
  <2>1. Operands(i) = {i.result, i.arg1}
    BY <1>1, <1>3 DEF Operands
  <2>2. i.result.type \in StackArgs => CellIndex(i.result) \in 0 .. StackSize - 1
    <3> SUFFICES ASSUME i.result.type \in StackArgs
                 PROVE  CellIndex(i.result) \in 0 .. StackSize - 1
      OBVIOUS
    <3>1. CellIndex(i.result) < StackSize
      BY <1>2, <2>1
    <3>2. i.result \in Arg /\ ArgFits(i.result, Owner[pc])
          /\ Owner[pc] \in Functions \cup {Main}
      BY <1>1, <1>3, OperandFacts
    <3>3. CellIndex(i.result) \in Nat
      BY <3>2, CellIndexIsNat DEF TypeOK
    <3>4. QED
      BY <3>1, <3>3, SizesAreNat
  <2>3. op = "assign" /\ i.arg1.type # "label_a" => Value(i.arg1) \in Cell
    <3> SUFFICES ASSUME op = "assign", i.arg1.type # "label_a"
                 PROVE  Value(i.arg1) \in Cell
      OBVIOUS
    <3>1. i.arg1.type \in StackArgs => CellIndex(i.arg1) < StackSize
      BY <1>2, <2>1
    <3>2. i.arg1 \in Arg /\ ArgFits(i.arg1, Owner[pc])
      BY <1>1, OperandFacts
    <3>3. QED
      BY <3>1, <3>2, <1>1, ValueIsCell
  <2>4. QED
    BY <1>1, <1>3, <2>2, <2>3, OperandFacts
<1>4. CASE op \in {"pusharg", "call"}
  <2>1. Operands(i) = {i.result}
    BY <1>1, <1>4 DEF Operands
  <2>2. top < StackSize
    BY <1>1, <1>4 DEF InStack, Reached
  <2>3. i.result \in Arg /\ ArgFits(i.result, Owner[pc]) /\ i.result.type # "label_a"
    BY <1>1, <1>4, OperandFacts
  <2>4. i.result.type \in StackArgs => CellIndex(i.result) < StackSize
    BY <1>2, <2>1
  <2>5. Value(i.result) \in Cell
    BY <1>1, <2>3, <2>4, ValueIsCell
  <2>6. QED
    BY <1>1, <1>4, <2>2, <2>5, SizesAreNat DEF TypeOK
<1>5. CASE op \notin {"assign", "data", "pusharg", "call"}
  BY <1>1, <1>5
<1>6. QED
  BY <1>3, <1>4, <1>5

(* Storing a cell keeps stack and retval what they are. *)
LEMMA StoreType ==
  ASSUME TypeOK, NEW a, NEW c \in Cell, Store(a, c),
         \/ a.type = "retval_a"
         \/ CellIndex(a) \in 0 .. StackSize - 1
  PROVE  /\ stack' \in [0 .. StackSize - 1 -> Cell]
         /\ retval' \in Cell
BY DEF Store, TypeOK

(* So does saving the environment. *)
LEMMA SaveEnvironmentType ==
  ASSUME NEW s \in [0 .. StackSize - 1 -> Cell], NEW t \in 0 .. StackSize - 1,
         NEW n \in Nat, pc \in Nat, topsp \in Nat
  PROVE  SaveEnvironment(s, t, n) \in [0 .. StackSize - 1 -> Cell]
<1>1. /\ Below(t, 1) \in 0 .. StackSize - 1
      /\ Below(t, 2) \in 0 .. StackSize - 1
      /\ Below(t, 3) \in 0 .. StackSize - 1
  BY SizesAreNat DEF Below
<1>2. /\ Number(n) \in Cell /\ Number(pc + 1) \in Cell
      /\ Number(Below(t, 2) + n + 2) \in Cell /\ Number(topsp) \in Cell
  BY <1>1, PlainCells, SizesAreNat
<1>3. QED
  BY <1>1, <1>2 DEF SaveEnvironment

LEMMA ReturnSequenceType ==
  ASSUME NEW s \in [0 .. StackSize - 1 -> Cell], NEW t \in Nat, NEW sp \in Nat,
         sp + 3 < StackSize
  PROVE  /\ ReturnSequence(s, t, sp).stack \in [0 .. StackSize - 1 -> Cell]
         /\ ReturnSequence(s, t, sp).top \in Nat
         /\ ReturnSequence(s, t, sp).topsp \in Nat
         /\ ReturnSequence(s, t, sp).pc \in Nat
<1>1. s[sp + 1] \in Cell /\ s[sp + 2] \in Cell /\ s[sp + 3] \in Cell
  BY SizesAreNat
<1>2. \A k \in 0 .. StackSize - 1 : s[k] \in Cell /\ Cleared(s[k]) \in Cell
  BY PlainCells DEF Cleared
<1>3. QED
  BY <1>1, <1>2, CellFields DEF ReturnSequence

-----------------------------------------------------------------------------
(* Type correctness *)

LEMMA BelowType ==
  ASSUME NEW t \in Nat, NEW n \in Nat
  PROVE  Below(t, n) \in Nat /\ StatusBelow(t, n) \in Statuses
BY DEF Below, StatusBelow, Statuses

LEMMA NewCallType ==
  ASSUME top \in Nat, totalActuals \in Nat, topsp \in Nat, pc \in Nat,
         NEW f \in Functions, NEW t \in Nat, NEW args \in Seq(Cell)
  PROVE  NewCall(f, t, args) \in Call
<1>1. Below(t, EnvSize) \in Nat
  BY BelowType, SizesAreNat
<1>2. top + totalActuals \in Nat /\ pc + 1 \in Nat
  OBVIOUS
<1>3. QED
  BY <1>1, <1>2 DEF NewCall, Call

LEMMA LibraryReturnsType ==
  ASSUME TypeOK, top \in 0 .. StackSize - 1, EnvSize <= top,
         NEW c \in Cell, LibraryReturns(c)
  PROVE  TypeOK'
<1> DEFINE sp == top - EnvSize
           s  == SaveEnvironment(stack, top, totalActuals)
           r  == ReturnSequence(s, sp, sp)
<1>1. s \in [0 .. StackSize - 1 -> Cell]
  BY SaveEnvironmentType DEF TypeOK
<1>2. sp \in Nat /\ sp + 3 < StackSize
  BY SizesAreNat
<1>3. /\ r.stack \in [0 .. StackSize - 1 -> Cell]
      /\ r.top \in Nat /\ r.topsp \in Nat /\ r.pc \in Nat
  BY <1>1, <1>2, ReturnSequenceType
<1>4. /\ retval' = c /\ stack' = r.stack /\ top' = r.top /\ topsp' = r.topsp
      /\ pc' = r.pc /\ totalActuals' = 0 /\ pending' = << >>
      /\ UNCHANGED <<status, calls, strayed>>
  BY DEF LibraryReturns
<1> HIDE DEF r
<1>5. QED
  BY <1>3, <1>4 DEF TypeOK

LEMMA TypeStep == TypeOK /\ [Next]_vars => TypeOK'
<1> SUFFICES ASSUME TypeOK, [Next]_vars PROVE TypeOK'
  OBVIOUS
<1> USE SizesAreNat
<1>1. CASE Assign
  <2>1. Store(Code[pc].result, Value(Code[pc].arg1))
    BY <1>1 DEF Assign
  <2>2. stack' \in [0 .. StackSize - 1 -> Cell] /\ retval' \in Cell
    BY <1>1, <2>1, ExecutingFacts, StoreType DEF Assign
  <2>3. QED
    BY <1>1, <2>2 DEF Assign, TypeOK, Missing
<1>2. CASE Compute
  <2>1. PICK c \in DataCells : Store(Code[pc].result, c)
    BY <1>2 DEF Compute
  <2>2. c \in Cell
    BY CodeAssumption
  <2>3. stack' \in [0 .. StackSize - 1 -> Cell] /\ retval' \in Cell
    BY <1>2, <2>1, <2>2, ExecutingFacts, StoreType DEF Compute
  <2>4. QED
    BY <1>2, <2>3 DEF Compute, TypeOK, Missing
<1>3. CASE Effect
  BY <1>3 DEF Effect, TypeOK
<1>4. CASE Jump
  <2>1. pc \in Address
    BY <1>4 DEF Jump, Executing
  <2>2. Code[pc].result.val \in Nat
    BY <2>1, OperandFacts DEF Instruction, Arg
  <2>3. QED
    BY <1>4, <2>2 DEF Jump, TypeOK
<1>5. CASE BranchNotTaken
  BY <1>5 DEF BranchNotTaken, TypeOK
<1>6. CASE TypeError
  <2>1. stack' \in [0 .. StackSize - 1 -> Cell] /\ retval' \in Cell
    <3>1. CASE /\ Code[pc].opcode = "data"
               /\ \E c \in DataCells \cup {Nil} : Store(Code[pc].result, c)
      <4>1. Executing("data")
        BY <1>6, <3>1 DEF TypeError, Executing
      <4>2. PICK c \in Cell : Store(Code[pc].result, c)
        BY <3>1, PlainCells, CodeAssumption
      <4>3. QED
        BY <4>1, <4>2, ExecutingFacts, StoreType
    <3>2. CASE UNCHANGED <<stack, retval>>
      BY <3>2 DEF TypeOK
    <3>3. QED
      BY <1>6, <3>1, <3>2 DEF TypeError
  <2>2. QED
    BY <1>6, <2>1 DEF TypeError, TypeOK, Statuses
<1>7. CASE PushArg
  <2>1. Value(Code[pc].result) \in Cell /\ top \in 0 .. StackSize - 1
    BY <1>7, ExecutingFacts DEF PushArg
  <2>2. QED
    BY <1>7, <2>1, BelowType DEF PushArg, TypeOK
<1>8. CASE CallUser
  <2>1. Callee \in Cell /\ top \in 0 .. StackSize - 1
    BY <1>8, ExecutingFacts DEF CallUser, Callee
  <2>2. Callee.val \in Functions /\ Callee.val \in Nat
    BY <1>8, <2>1, CellFields DEF CallUser
  <2>3. NewCall(Callee.val, top, pending) \in Call
    BY <2>2, NewCallType DEF TypeOK
  <2>4. stack' \in [0 .. StackSize - 1 -> Cell]
    BY <1>8, <2>1, SaveEnvironmentType DEF CallUser, TypeOK
  <2>5. QED
    BY <1>8, <2>1, <2>2, <2>3, <2>4, BelowType DEF CallUser, TypeOK
<1>9. CASE CallFunctor
  <2>1. Callee \in Cell /\ top \in 0 .. StackSize - 1
    BY <1>9, ExecutingFacts DEF CallFunctor, Callee
  <2>2. [stack EXCEPT ![top] = Callee] \in [0 .. StackSize - 1 -> Cell]
    BY <2>1 DEF TypeOK
  <2>3. Below(top, 1) \in 0 .. StackSize - 1
    BY <2>1 DEF Below
  <2>4. stack' \in [0 .. StackSize - 1 -> Cell]
    <3>1. totalActuals + 1 \in Nat /\ pc \in Nat /\ topsp \in Nat
      BY DEF TypeOK
    <3>2. SaveEnvironment([stack EXCEPT ![top] = Callee], Below(top, 1),
                          totalActuals + 1) \in [0 .. StackSize - 1 -> Cell]
      BY <2>2, <2>3, <3>1, SaveEnvironmentType
    <3>3. QED
      BY <1>9, <3>2 DEF CallFunctor
  <2>5. pending' \in Seq(Cell)
    BY <1>9, <2>1 DEF CallFunctor, TypeOK
  <2>6. \A f \in Functions : NewCall(f, Below(top, 1), pending') \in Call
    BY <2>3, <2>5, NewCallType DEF TypeOK
  <2>7. calls' \in Seq(Call) /\ pc' \in Nat /\ status' \in Statuses
    <3>1. CASE pc' = pc + 1 /\ status' = "finished" /\ UNCHANGED calls
      BY <3>1 DEF TypeOK, Statuses
    <3>2. ASSUME NEW f \in Functions, pc' = f,
                 status' = StatusBelow(top, EnvSize + 1),
                 calls' = Append(calls, NewCall(f, Below(top, 1), pending'))
          PROVE  calls' \in Seq(Call) /\ pc' \in Nat /\ status' \in Statuses
      <4>1. NewCall(f, Below(top, 1), pending') \in Call
        BY <2>6
      <4>2. calls' \in Seq(Call)
        BY <3>2, <4>1 DEF TypeOK
      <4>3. QED
        BY <3>2, <4>2, <2>1, BelowType
    <3>3. QED
      BY <1>9, <3>1, <3>2 DEF CallFunctor
  <2>8. QED
    <3>1. Below(top, EnvSize + 1) \in Nat
      BY <2>1, BelowType
    <3>2. /\ totalActuals' = totalActuals + 1 /\ top' = Below(top, EnvSize + 1)
          /\ UNCHANGED <<topsp, retval, strayed>>
      BY <1>9 DEF CallFunctor
    <3>3. QED
      BY <2>4, <2>5, <2>7, <3>1, <3>2 DEF TypeOK
<1>10. CASE CallFails
  <2>1. top \in 0 .. StackSize - 1
    BY <1>10, ExecutingFacts DEF CallFails
  <2>2. stack' \in [0 .. StackSize - 1 -> Cell]
    BY <1>10, <2>1, SaveEnvironmentType DEF CallFails, TypeOK
  <2>3. QED
    BY <1>10, <2>1, <2>2, BelowType DEF CallFails, TypeOK, Statuses
<1>11. CASE FuncEnter
  <2>1. pc \in Functions
    BY <1>11, CodeAssumption DEF FuncEnter, Executing, WellFormedCode, WellFormedAt
  <2>2. Wrap(top - LocalSize[pc]) \in Nat
    BY <2>1 DEF Wrap, TypeOK
  <2>3. QED
    BY <1>11, <2>2 DEF FuncEnter, TypeOK
<1>12. CASE FuncExit
  <2> DEFINE r == ReturnSequence(stack, top, topsp)
  <2>1. /\ r.stack \in [0 .. StackSize - 1 -> Cell]
        /\ r.top \in Nat /\ r.topsp \in Nat /\ r.pc \in Nat
    BY <1>12, ReturnSequenceType DEF FuncExit, ReturnInStack, TypeOK
  <2>2. SubSeq(calls, 1, Len(calls) - 1) \in Seq(Call)
    BY DEF TypeOK
  <2>3. /\ stack' = r.stack /\ top' = r.top /\ topsp' = r.topsp
        /\ pc' = IF r.pc = pc THEN pc + 1 ELSE r.pc
        /\ calls' = SubSeq(calls, 1, Len(calls) - 1)
        /\ UNCHANGED <<totalActuals, retval, status, pending, strayed>>
    BY <1>12 DEF FuncExit
  <2> HIDE DEF r
  <2>4. QED
    BY <2>1, <2>2, <2>3 DEF TypeOK
<1>13. CASE CallTotalArguments
  <2>1. top \in 0 .. StackSize - 1 /\ EnvSize <= top
    BY <1>13, ExecutingFacts DEF CallTotalArguments, LibraryCall, TypeOK
  <2>2. Saved \in [0 .. StackSize - 1 -> Cell]
    BY <2>1, SaveEnvironmentType DEF Saved, TypeOK
  <2>3. PICK c \in Cell : LibraryReturns(c)
    BY <1>13, <2>2, PlainCells DEF CallTotalArguments, TypeOK
  <2>4. QED
    BY <2>1, <2>3, LibraryReturnsType
<1>14. CASE CallArgument
  <2>1. top \in 0 .. StackSize - 1 /\ EnvSize <= top
    BY <1>14, ExecutingFacts DEF CallArgument, LibraryCall, TypeOK
  <2>2. PICK c \in Cell : LibraryReturns(c)
    <3>1. CASE LibraryReturns(Nil)
      BY <3>1, PlainCells
    <3>2. CASE ~LibraryReturns(Nil)
      <4>1. /\ top + 1 < StackSize /\ ArgumentIndex < StackSize
            /\ LibraryReturns(Saved[ArgumentIndex])
        BY <1>14, <3>2 DEF CallArgument, ArgumentInStack
      <4>2. stack[top + 1] \in Cell
        BY <2>1, <4>1 DEF TypeOK
      <4>3. ArgumentIndex \in Nat
        BY <4>2, CellFields DEF TypeOK, ArgumentIndex
      <4>4. Saved \in [0 .. StackSize - 1 -> Cell]
        BY <2>1, SaveEnvironmentType DEF Saved, TypeOK
      <4>5. QED
        BY <4>1, <4>3, <4>4
    <3>3. QED
      BY <3>1, <3>2
  <2>3. QED
    BY <2>1, <2>2, LibraryReturnsType
<1>15. CASE CallOther
  <2>1. top \in 0 .. StackSize - 1 /\ EnvSize <= top
    BY <1>15, ExecutingFacts DEF CallOther, LibraryCall, TypeOK
  <2>2. PICK c \in Cell : LibraryReturns(c)
    BY <1>15, CodeAssumption DEF CallOther, TypeOK
  <2>3. QED
    BY <2>1, <2>2, LibraryReturnsType
<1>16. CASE LibraryOverflow
  <2>1. top \in 0 .. StackSize - 1
    BY <1>16, ExecutingFacts DEF LibraryOverflow
  <2>2. stack' \in [0 .. StackSize - 1 -> Cell]
    BY <1>16, <2>1, SaveEnvironmentType DEF LibraryOverflow, Saved, TypeOK
  <2>3. QED
    BY <1>16, <2>2, CodeAssumption DEF LibraryOverflow, TypeOK, Statuses
<1>17. CASE EndOfCode
  BY <1>17 DEF EndOfCode, TypeOK, Statuses
<1>18. CASE WildAccess
  BY <1>18 DEF WildAccess, Stop, TypeOK, Statuses
<1>19. CASE AssertFails
  BY <1>19 DEF AssertFails, Stop, TypeOK, Statuses
<1>20. CASE Stopped \/ UNCHANGED vars
  BY <1>20 DEF Stopped, vars, TypeOK
<1>21. QED
  BY <1>1, <1>2, <1>3, <1>4, <1>5, <1>6, <1>7, <1>8, <1>9, <1>10, <1>11,
     <1>12, <1>13, <1>14, <1>15, <1>16, <1>17, <1>18, <1>19, <1>20 DEF Next

LEMMA TypeInit == Init => TypeOK
<1> SUFFICES ASSUME Init PROVE TypeOK
  OBVIOUS
<1>1. stack \in [0 .. StackSize - 1 -> Cell] /\ retval \in Cell
  BY PlainCells DEF Init
<1>2. calls \in Seq(Call) /\ pending \in Seq(Cell)
  BY DEF Init
<1>3. QED
  BY <1>1, <1>2, SizesAreNat DEF Init, TypeOK, Statuses

(* The cells, registers and history of the machine keep their types.       *)
THEOREM TypeCorrect == Spec => []TypeOK
BY TypeInit, TypeStep, PTL DEF Spec

-----------------------------------------------------------------------------
(* The calling sequence.  The invariant that is inductive is the conjunction*)
(* of the three parts below; each speaks of the states in which the machine *)
(* runs and no function has strayed.                                        *)

FrameInv == EnvironmentsIntact /\ RegistersMatch /\ ActualsInCells

Binding == Running /\ ~strayed

CallsIntact == \A k \in 1 .. Len(calls) : FrameIntact(k)

LEMMA WellFormedFacts ==
  ASSUME pc \in Address
  PROVE  /\ pc \in Functions <=> Code[pc].opcode = "funcenter"
         /\ pc \in Functions => Owner[pc] = pc
         /\ Code[pc].opcode = "funcexit" => Owner[pc] # Main
         /\ Code[pc].opcode \in {"jump", "branch"} =>
              /\ Code[pc].result.val # pc
              /\ StaysIn(Owner[pc], Code[pc].result.val)
         /\ Code[pc].opcode \notin {"jump", "funcexit"} => StaysIn(Owner[pc], pc + 1)
         /\ Code[pc].opcode = "pusharg" =>
              pc + 1 \in Address /\ Code[pc + 1].opcode \in {"pusharg", "call"}
         /\ Code[pc].opcode = "call" =>
              /\ pc + 1 \in Address /\ Code[pc + 1].opcode = "assign"
              /\ Owner[pc] # Main => 1 <= LocalSize[Owner[pc]]
         /\ pc # Main /\ CodeSize = Main
BY CodeAssumption, SizesAreNat DEF WellFormedCode, WellFormedAt, Main, Address

(* The frames of the active calls, by their cells. *)
LEMMA CallFacts ==
  ASSUME TypeOK, CallsIntact, NEW k \in 1 .. Len(calls)
  PROVE  /\ calls[k].fn \in Functions /\ calls[k].sp \in Nat
         /\ calls[k].top \in Nat /\ calls[k].topsp \in Nat
         /\ calls[k].pc \in Address /\ calls[k].args \in Seq(Cell)
         /\ Len(calls[k].args) \in Nat
         /\ calls[k].sp + 4 + Len(calls[k].args) = calls[k].top
         /\ calls[k].top <= MainTop
         /\ \A j \in 1 .. k - 1 : calls[k].top < calls[j].sp
<1>1. calls[k] \in Call
  BY DEF TypeOK
<1>2. /\ calls[k].fn \in Functions /\ calls[k].sp \in Nat
      /\ calls[k].top \in Nat /\ calls[k].topsp \in Nat
      /\ calls[k].args \in Seq(Cell)
  BY <1>1 DEF Call
<1>3. Len(calls[k].args) \in Nat
  BY <1>2
<1>4. /\ calls[k].sp + EnvSize + Len(calls[k].args) = calls[k].top
      /\ calls[k].top <= MainTop /\ calls[k].pc \in Address
      /\ \A j \in 1 .. k - 1 : calls[k].top < calls[j].sp
  BY DEF CallsIntact, FrameIntact
<1>5. QED
  BY <1>2, <1>3, <1>4, SizesAreNat

(* Frames are untouched by a step that writes none of their environments. *)
LEMMA FramesKept ==
  ASSUME TypeOK, CallsIntact, UNCHANGED calls,
         \A k \in 1 .. Len(calls) : \A m \in 1 .. 4 :
           stack'[calls[k].sp + m] = stack[calls[k].sp + m]
  PROVE  CallsIntact'
<1>1. \A k \in 1 .. Len(calls) : FrameIntact(k)
  BY DEF CallsIntact
<1>2. \A k \in 1 .. Len(calls) : FrameIntact(k)'
  BY <1>1, SizesAreNat DEF FrameIntact, Caller
<1>3. QED
  BY <1>2 DEF CallsIntact

(* Where the cell that an instruction writes lies while a function runs: in*)
(* the globals, among the locals of the function, or among its actuals.    *)
LEMMA StoreRange ==
  ASSUME TypeOK, CallsIntact, RegistersMatch, Binding, calls # << >>,
         Executing("assign") \/ Executing("data"),
         ~Missing(Code[pc].result), Code[pc].result.type \in StackArgs
  PROVE  LET x == CellIndex(Code[pc].result) IN
         /\ x \in 0 .. StackSize - 1
         /\ \/ x > MainTop \/ x <= Innermost.sp
            \/ Innermost.sp + 4 < x /\ x <= Innermost.top
<1> DEFINE a == Code[pc].result
           x  == CellIndex(a)
           v  == a.val
           sl == Innermost.sp
           tl == Innermost.top
           n  == Len(Innermost.args)
           ls == LocalSize[Innermost.fn]
<1> USE SizesAreNat
<1>0. pc \in Address /\ Code[pc].opcode \in {"assign", "data"}
  BY DEF Executing
<1>1. /\ ArgFits(a, Owner[pc]) /\ x \in 0 .. StackSize - 1
      /\ a.type \in StackArgs /\ v \in Nat
  BY <1>0, OperandFacts, ExecutingFacts DEF StackArgs, Arg
<1>2. /\ topsp = sl /\ Owner[pc] = Innermost.fn
  <2>1. ~Entering
    BY <1>0, WellFormedFacts DEF Entering
  <2>2. QED
    BY <1>0, <2>1 DEF RegistersMatch, Binding
<1>3. /\ sl \in Nat /\ tl \in Nat /\ n \in Nat /\ sl + 4 + n = tl
      /\ ls \in Nat /\ ls <= Word - StackSize
  <2>1. Len(calls) \in 1 .. Len(calls)
    BY DEF TypeOK
  <2>2. /\ sl \in Nat /\ tl \in Nat /\ n \in Nat /\ sl + 4 + n = tl
        /\ Innermost.fn \in Functions
    BY <2>1, CallFacts DEF Innermost
  <2>3. QED
    BY <2>2
<1>4. CASE a.type = "global_a"
  <2>1. x = StackSize - 1 - v /\ v < Globals
    BY <1>4, <1>1 DEF CellIndex, ArgFits
  <2> HIDE DEF x, v
  <2>2. x > MainTop
    BY <2>1, <1>1 DEF MainTop
  <2>3. QED
    BY <2>2, <1>1 DEF x
<1>5. CASE a.type = "local_a"
  <2>1. x = Wrap(sl - v) /\ v < ls
    BY <1>5, <1>1, <1>2 DEF CellIndex, ArgFits
  <2> HIDE DEF x, v, sl, ls
  <2>2. x <= sl
    BY <2>1, <1>1, <1>3 DEF Wrap
  <2>3. QED
    BY <2>2, <1>1 DEF x, sl
<1>6. CASE a.type = "formal_a"
  <2>1. x = sl + 4 + 1 + v
    BY <1>6, <1>2 DEF CellIndex, EnvSize
  <2>2. ~(v >= n)
    BY <1>6 DEF Missing
  <2> HIDE DEF x, v, sl, tl, n
  <2>3. sl + 4 < x /\ x <= tl
    BY <2>1, <2>2, <1>1, <1>3
  <2>4. QED
    BY <2>3, <1>1 DEF x, sl, tl
<1>7. QED
  BY <1>1, <1>4, <1>5, <1>6 DEF StackArgs

(* So it is in no environment.                                             *)
LEMMA StoreTarget ==
  ASSUME TypeOK, CallsIntact, RegistersMatch, Binding,
         Executing("assign") \/ Executing("data"),
         ~Missing(Code[pc].result), Code[pc].result.type \in StackArgs
  PROVE  \A k \in 1 .. Len(calls) : \A m \in 1 .. 4 :
           CellIndex(Code[pc].result) # calls[k].sp + m
<1> DEFINE x  == CellIndex(Code[pc].result)
<1> SUFFICES ASSUME NEW k \in 1 .. Len(calls), NEW m \in 1 .. 4
             PROVE  x # calls[k].sp + m
  OBVIOUS
<1> USE SizesAreNat
<1>l. PICK L \in Nat : L = Len(calls)
  BY DEF TypeOK
<1>1. L \in 1 .. L /\ calls # << >>
  BY <1>l DEF TypeOK
<1>2. /\ x \in 0 .. StackSize - 1
      /\ \/ x > MainTop \/ x <= calls[L].sp
         \/ calls[L].sp + 4 < x /\ x <= calls[L].top
  BY <1>1, <1>l, StoreRange DEF Innermost
<1> DEFINE sk == calls[k].sp
           sl == calls[L].sp
           tl == calls[L].top
<1>3. /\ sk \in Nat /\ sk + 4 <= MainTop
  <2>1. /\ sk \in Nat /\ calls[k].top \in Nat /\ calls[k].top <= MainTop
        /\ sk + 4 + Len(calls[k].args) = calls[k].top
        /\ Len(calls[k].args) \in Nat
    BY CallFacts
  <2> HIDE DEF sk
  <2>2. QED
    BY <2>1
<1>4. sl \in Nat /\ tl \in Nat /\ sl <= tl /\ (sk = sl \/ tl < sk)
  <2>1. \A j \in 1 .. L - 1 : tl < calls[j].sp
    BY <1>1, <1>l, CallFacts
  <2>2. sk = sl \/ tl < sk
    <3>1. k = L \/ k \in 1 .. L - 1
      BY <1>l
    <3>2. QED
      BY <2>1, <3>1
  <2>3. PICK n \in Nat : sl \in Nat /\ tl \in Nat /\ sl + 4 + n = tl
    BY <1>1, <1>l, CallFacts
  <2> HIDE DEF sk, sl, tl
  <2>4. sl <= tl
    BY <2>3
  <2>5. QED
    BY <2>2, <2>3, <2>4
<1>5. x \in Nat /\ (x > MainTop \/ x <= sl \/ (sl + 4 < x /\ x <= tl))
  BY <1>2
<1>6. m \in Nat /\ 1 <= m /\ m <= 4
  OBVIOUS
<1> HIDE DEF x, sk, sl, tl
<1>7. x # sk + m
  BY <1>3, <1>4, <1>5, <1>6
<1>8. QED
  BY <1>7 DEF sk

(* The free cell lies below every frame, and the actuals between them.     *)
LEMMA FreeCell ==
  ASSUME TypeOK, CallsIntact, RegistersMatch, Binding,
         Executing("pusharg") \/ Executing("call")
  PROVE  /\ ~Entering /\ pc \in Address /\ top \in 0 .. StackSize - 1
         /\ totalActuals = Len(pending)
         /\ Len(calls) \in Nat
         /\ calls = << >> =>
              topsp = 0 /\ top + totalActuals = MainTop /\ Owner[pc] = Main
         /\ calls # << >> =>
              /\ topsp = calls[Len(calls)].sp
              /\ top + totalActuals =
                   calls[Len(calls)].sp - LocalSize[calls[Len(calls)].fn]
              /\ Owner[pc] = calls[Len(calls)].fn
              /\ Owner[pc] \in Functions
         /\ top + totalActuals <= MainTop
         /\ \A k \in 1 .. Len(calls) : top + totalActuals <= calls[k].sp
<1> USE SizesAreNat
<1>1. pc \in Address /\ Code[pc].opcode \in {"pusharg", "call"}
      /\ top \in 0 .. StackSize - 1
  BY ExecutingFacts DEF Executing
<1>2. ~Entering
  BY <1>1, WellFormedFacts DEF Entering
<1>3. Len(calls) \in Nat /\ totalActuals \in Nat /\ (calls # << >> => Len(calls) \in 1 .. Len(calls))
  BY DEF TypeOK
<1>4. calls = << >> => topsp = 0 /\ top + totalActuals = MainTop /\ Owner[pc] = Main
  BY <1>1, <1>2 DEF RegistersMatch, Binding
<1>5. ASSUME calls # << >>
      PROVE  /\ topsp = calls[Len(calls)].sp
             /\ top + totalActuals =
                  calls[Len(calls)].sp - LocalSize[calls[Len(calls)].fn]
             /\ Owner[pc] = calls[Len(calls)].fn
             /\ Owner[pc] \in Functions
  <2> DEFINE c == calls[Len(calls)]
  <2>1. topsp = c.sp /\ top + totalActuals = Wrap(topsp - LocalSize[c.fn])
        /\ Owner[pc] = c.fn
        /\ (totalActuals > 0 => top + totalActuals < StackSize)
    BY <1>1, <1>2, <1>5 DEF RegistersMatch, Binding, Innermost
  <2>2. c.sp \in Nat /\ c.fn \in Functions
    BY <1>3, <1>5, CallFacts
  <2>3. top + totalActuals < StackSize
    BY <2>1, <1>1, <1>3
  <2>4. LocalSize[c.fn] \in Nat /\ LocalSize[c.fn] <= Word - StackSize
    BY <2>2
  <2> HIDE DEF c
  <2>5. top + totalActuals = c.sp - LocalSize[c.fn]
    BY <2>1, <2>2, <2>3, <2>4 DEF Wrap
  <2>6. QED
    BY <2>1, <2>2, <2>5 DEF c
<1>6. ASSUME NEW k \in 1 .. Len(calls)
      PROVE  top + totalActuals <= calls[k].sp /\ top + totalActuals <= MainTop
  <2> DEFINE c == calls[Len(calls)]
  <2>1. calls # << >> /\ Len(calls) \in 1 .. Len(calls)
    BY <1>6, <1>3
  <2>2. /\ c.sp \in Nat /\ c.top \in Nat /\ calls[k].sp \in Nat
        /\ c.sp <= c.top /\ c.top <= MainTop /\ c.fn \in Functions
        /\ k # Len(calls) => c.top < calls[k].sp
    <3>1. calls[k].sp \in Nat
      BY CallFacts
    <3>2. /\ c.sp \in Nat /\ c.top \in Nat /\ c.fn \in Functions
          /\ c.sp + 4 + Len(c.args) = c.top /\ Len(c.args) \in Nat
          /\ c.top <= MainTop
          /\ \A j \in 1 .. Len(calls) - 1 : c.top < calls[j].sp
      BY <2>1, CallFacts
    <3>3. k # Len(calls) => k \in 1 .. Len(calls) - 1
      BY <1>3
    <3>4. QED
      BY <3>1, <3>2, <3>3, SMTT(30)
  <2>3. top + totalActuals <= c.sp
    BY <1>5, <2>1, <2>2
  <2>4. QED
    BY <2>2, <2>3, <1>1, <1>3
<1>7. top + totalActuals <= MainTop
  BY <1>3, <1>4, <1>6
<1>8. totalActuals = Len(pending)
  BY <1>2 DEF RegistersMatch, Binding
<1>9. QED
  BY <1>1, <1>2, <1>3, <1>4, <1>5, <1>6, <1>7, <1>8

(* The registers of a machine that is not about to enter a function. *)
LEMMA RegisterFacts ==
  ASSUME TypeOK, FrameInv, Binding, ~Entering
  PROVE  /\ calls = << >> => topsp = 0 /\ top + totalActuals = MainTop
         /\ calls # << >> =>
              /\ topsp = Innermost.sp
              /\ top + totalActuals = Wrap(topsp - LocalSize[Innermost.fn])
              /\ Innermost.fn \in Functions
         /\ pc \in Address =>
              Owner[pc] = IF calls = << >> THEN Main ELSE Innermost.fn
         /\ totalActuals = Len(pending)
         /\ CallsIntact
<1>1. CallsIntact
  BY DEF FrameInv, Binding, EnvironmentsIntact, CallsIntact
<1>2. calls # << >> => Len(calls) \in 1 .. Len(calls)
  BY DEF TypeOK
<1>3. calls # << >> => Innermost.fn \in Functions
  BY <1>1, <1>2, CallFacts DEF Innermost
<1>4. QED
  BY <1>1, <1>3 DEF FrameInv, Binding, RegistersMatch

(* Main is no function: the end of the code is reached by the main program *)
(* alone.                                                                  *)
LEMMA StaysInFacts ==
  ASSUME NEW f, NEW a, StaysIn(f, a)
  PROVE  /\ a \notin Functions
         /\ a \in Address \/ (a = CodeSize /\ f = Main)
         /\ a \in Address => Owner[a] = f
BY CodeAssumption, SizesAreNat DEF StaysIn, Address

(* An instruction that moves to another one of its function and damages no *)
(* environment preserves the invariant.                                    *)
LEMMA StayInFunction ==
  ASSUME TypeOK, FrameInv, Binding, Binding', pc \in Address,
         Code[pc].opcode \notin {"pusharg", "call", "funcenter"},
         UNCHANGED <<top, topsp, totalActuals, calls, pending>>,
         StaysIn(Owner[pc], pc'),
         \A k \in 1 .. Len(calls) : \A m \in 1 .. 4 :
           stack'[calls[k].sp + m] = stack[calls[k].sp + m]
  PROVE  FrameInv'
<1>1. ~Entering
  BY WellFormedFacts DEF Entering
<1>2. ~Entering'
  BY StaysInFacts DEF Entering
<1>3. totalActuals = 0 /\ Len(pending) = 0
  <2>1. ~(totalActuals > 0)
    BY <1>1 DEF FrameInv, RegistersMatch, Binding
  <2>2. QED
    BY <2>1, <1>1, RegisterFacts DEF TypeOK
<1>4. CallsIntact'
  BY <1>1, RegisterFacts, FramesKept
<1>5. EnvironmentsIntact'
  BY <1>4 DEF EnvironmentsIntact, CallsIntact
<1>6. Innermost' = Innermost
  BY DEF Innermost
<1>7. /\ pc' \in Address => Owner[pc'] = IF calls = << >> THEN Main ELSE Innermost.fn
      /\ pc' \in Address \/ (pc' = CodeSize /\ calls = << >>)
  <2>1. calls # << >> => Owner[pc] # Main
    BY <1>1, RegisterFacts, WellFormedFacts, CodeAssumption, SizesAreNat
    DEF Main, Address
  <2>2. QED
    BY <2>1, <1>1, RegisterFacts, StaysInFacts
<1>8. RegistersMatch'
  BY <1>1, <1>2, <1>3, <1>6, <1>7, RegisterFacts DEF RegistersMatch
<1>9. ActualsInCells'
  BY <1>2, <1>3 DEF ActualsInCells
<1>10. QED
  BY <1>5, <1>8, <1>9 DEF FrameInv

(* An instruction that stores a value. *)
LEMMA StoreStep ==
  ASSUME TypeOK, FrameInv, Binding, Binding',
         Executing("assign") \/ Executing("data"),
         NEW c, Store(Code[pc].result, c),
         ~Missing(Code[pc].result),
         pc' = pc + 1,
         UNCHANGED <<top, topsp, totalActuals, calls, pending>>
  PROVE  FrameInv'
<1>1. pc \in Address /\ Code[pc].opcode \in {"assign", "data"}
  BY DEF Executing
<1>2. ~Entering
  BY <1>1, WellFormedFacts DEF Entering
<1>3. StaysIn(Owner[pc], pc')
  BY <1>1, WellFormedFacts
<1>4. ASSUME NEW k \in 1 .. Len(calls), NEW m \in 1 .. 4
      PROVE  stack'[calls[k].sp + m] = stack[calls[k].sp + m]
  <2>1. CASE Code[pc].result.type = "retval_a"
    BY <2>1 DEF Store
  <2>2. CASE Code[pc].result.type # "retval_a"
    <3>1. Code[pc].result.type \in StackArgs
      BY <1>1, <2>2, ExecutingFacts
    <3>2. CellIndex(Code[pc].result) # calls[k].sp + m
      BY <3>1, <1>2, RegisterFacts, StoreTarget DEF FrameInv
    <3>3. stack' = [stack EXCEPT ![CellIndex(Code[pc].result)] = c]
      BY <2>2 DEF Store
    <3>4. QED
      BY <3>2, <3>3 DEF TypeOK
  <2>3. QED
    BY <2>1, <2>2
<1>5. QED
  BY <1>1, <1>3, <1>4, StayInFunction

(* The four cells that a call saves below its actuals, and no other one.   *)
SavedIn(e, s, t, n) ==
  /\ e[t] = Number(n) /\ e[t - 1] = Number(pc + 1)
  /\ e[t - 2] = Number(t + n) /\ e[t - 3] = Number(topsp)
  /\ \A k \in 0 .. StackSize - 1 : (k > t \/ k < t - 3) => e[k] = s[k]
  /\ DOMAIN e = 0 .. StackSize - 1

LEMMA EnvironmentCells ==
  ASSUME NEW s \in [0 .. StackSize - 1 -> Cell], NEW t \in Nat, NEW n \in Nat,
         t < StackSize, EnvSize <= t
  PROVE  SavedIn(SaveEnvironment(s, t, n), s, t, n)
<1>1. Below(t, 1) = t - 1 /\ Below(t, 2) = t - 2 /\ Below(t, 3) = t - 3
  BY SizesAreNat DEF Below
<1>2. Below(t, 2) + n + 2 = t + n
  BY <1>1
<1>3. SaveEnvironment(s, t, n) =
        [s EXCEPT ![t] = Number(n), ![t - 1] = Number(pc + 1),
                  ![t - 2] = Number(t + n), ![t - 3] = Number(topsp)]
  BY <1>1, <1>2 DEF SaveEnvironment
<1>4. t \in 0 .. StackSize - 1 /\ t - 1 \in 0 .. StackSize - 1
      /\ t - 2 \in 0 .. StackSize - 1 /\ t - 3 \in 0 .. StackSize - 1
  BY SizesAreNat
<1>5. QED
  BY <1>3, <1>4 DEF SavedIn

(* A call is made below the frames of all active calls, the caller's last  *)
(* local included, and returns to the assignment that fetches its result.  *)
LEMMA CallSite ==
  ASSUME TypeOK, CallsIntact, RegistersMatch, Binding, Executing("call")
  PROVE  /\ pc + 1 \in Address /\ Code[pc + 1].opcode = "assign"
         /\ Owner[pc + 1] = Owner[pc]
         /\ \A k \in 1 .. Len(calls) : top + totalActuals < calls[k].sp
<1>l. PICK L \in Nat : L = Len(calls)
  BY DEF TypeOK
<1> DEFINE base == top + totalActuals
<1>1. /\ pc \in Address /\ ~Entering
      /\ calls # << >> =>
           /\ base = calls[L].sp - LocalSize[calls[L].fn]
           /\ Owner[pc] = calls[L].fn /\ Owner[pc] \in Functions
      /\ \A k \in 1 .. L : base <= calls[k].sp
  BY <1>l, FreeCell
<1>2. base \in Nat
  BY DEF TypeOK
<1>3. calls # << >> => L \in 1 .. L
  BY <1>l DEF TypeOK
<1>4. /\ pc + 1 \in Address /\ Code[pc + 1].opcode = "assign"
      /\ Owner[pc + 1] = Owner[pc]
      /\ Owner[pc] # Main => 1 <= LocalSize[Owner[pc]]
  <2>1. Code[pc].opcode = "call"
    BY DEF Executing
  <2>2. /\ pc + 1 \in Address /\ Code[pc + 1].opcode = "assign"
        /\ Owner[pc] # Main => 1 <= LocalSize[Owner[pc]]
        /\ StaysIn(Owner[pc], pc + 1)
    BY <1>1, <2>1, WellFormedFacts
  <2>3. QED
    BY <2>2, StaysInFacts
<1>5. \A g \in Functions : g # Main
  BY CodeAssumption, SizesAreNat DEF Main, Address
<1>6. calls # << >> => 1 <= LocalSize[calls[L].fn] /\ LocalSize[calls[L].fn] \in Nat
  BY <1>1, <1>4, <1>5, SizesAreNat
<1> HIDE DEF base
<1>7. \A k \in 1 .. L : base < calls[k].sp
  <2> SUFFICES ASSUME NEW k \in 1 .. L PROVE base < calls[k].sp
    OBVIOUS
  <2>1. calls # << >> /\ L \in 1 .. L
    BY <1>l, <1>3
  <2>2. calls[L].sp \in Nat /\ calls[L].top \in Nat /\ calls[L].sp <= calls[L].top
        /\ \A j \in 1 .. L - 1 : calls[L].top < calls[j].sp
    <3>1. /\ calls[L].sp \in Nat /\ calls[L].top \in Nat
          /\ Len(calls[L].args) \in Nat
          /\ calls[L].sp + 4 + Len(calls[L].args) = calls[L].top
          /\ \A j \in 1 .. L - 1 : calls[L].top < calls[j].sp
      BY <2>1, CallFacts, <1>l
    <3>2. QED
      BY <3>1
  <2>3. calls[k].sp \in Nat
    BY CallFacts, <1>l
  <2>4. base < calls[L].sp
    <3>1. base = calls[L].sp - LocalSize[calls[L].fn]
      BY <1>1, <2>1
    <3>2. QED
      BY <3>1, <1>6, <2>1, <2>2
  <2>5. k = L \/ calls[L].top < calls[k].sp
    <3>1. k = L \/ k \in 1 .. L - 1
      BY <1>l
    <3>2. QED
      BY <3>1, <2>2
  <2>6. QED
    BY <1>2, <2>2, <2>3, <2>4, <2>5
<1>8. QED
  BY <1>4, <1>7, <1>l DEF base

(* A call of f from the free cell t of s, with the actuals args in the     *)
(* cells above it: what CallUser and CallFunctor have in common.           *)
CallMade(f, s, t, args) ==
  /\ f \in Functions /\ s \in [0 .. StackSize - 1 -> Cell]
  /\ t \in Nat /\ args \in Seq(Cell)
  /\ EnvSize <= t /\ t <= top /\ t + Len(args) = top + totalActuals
  /\ \A k \in 0 .. StackSize - 1 : k > top => s[k] = stack[k]
  /\ \A j \in 1 .. Len(args) : s[top + totalActuals + 1 - j] = args[j]
  /\ stack' = SaveEnvironment(s, t, Len(args))
  /\ top' = t - 4 /\ pc' = f /\ topsp' = topsp
  /\ totalActuals' = Len(args) /\ pending' = args
  /\ calls' = Append(calls, NewCall(f, t, args))

LEMMA CallStep ==
  ASSUME TypeOK, FrameInv, Binding, Binding', Executing("call"),
         NEW f, NEW s, NEW t, NEW args, CallMade(f, s, t, args)
  PROVE  FrameInv'
<1>l. PICK L \in Nat : L = Len(calls)
  BY DEF TypeOK
<1> DEFINE base == top + totalActuals
           new == NewCall(f, t, args)
           n == Len(args)
<1> USE SizeFacts
<1>0. /\ n \in Nat /\ t \in Nat /\ EnvSize <= t /\ t <= top /\ t + n = base
      /\ stack' = SaveEnvironment(s, t, n)
  BY DEF CallMade
<1>1. RegistersMatch /\ CallsIntact
  BY DEF FrameInv, EnvironmentsIntact, CallsIntact, Binding
<1>2. /\ pc \in Address /\ L \in Nat /\ ~Entering
      /\ calls = << >> => topsp = 0 /\ base = MainTop /\ Owner[pc] = Main
      /\ calls # << >> =>
           /\ topsp = calls[L].sp
           /\ base = calls[L].sp - LocalSize[calls[L].fn]
           /\ Owner[pc] = calls[L].fn /\ Owner[pc] \in Functions
      /\ \A k \in 1 .. L : base <= calls[k].sp
  BY <1>1, <1>l, FreeCell
<1>3. /\ n \in Nat /\ base \in Nat /\ t + n = base /\ base <= MainTop
      /\ top \in Nat /\ top < StackSize /\ t \in Nat /\ 4 <= t /\ t <= top
      /\ top <= base
  <2>1. n \in Nat /\ base \in Nat /\ top \in Nat /\ top <= base
    BY DEF TypeOK
  <2>2. base <= MainTop /\ top < StackSize
    BY <1>1, <1>l, FreeCell
  <2>3. QED
    BY <1>0, <2>1, <2>2, SizeFacts
<1>4. /\ new.fn = f /\ new.sp = t - 4 /\ new.top = base /\ new.topsp = topsp
      /\ new.pc = pc + 1 /\ new.args = args
  BY <1>3 DEF NewCall, Below
<1>5. /\ Len(calls') = L + 1 /\ calls'[L + 1] = new
      /\ \A k \in 1 .. L : calls'[k] = calls[k]
  <2>1. new \in Call
    BY NewCallType DEF TypeOK, CallMade
  <2> HIDE DEF new
  <2>2. calls' = Append(calls, new) /\ calls \in Seq(Call)
    BY DEF new, TypeOK, CallMade
  <2>3. QED
    BY <2>1, <2>2, <1>l
<1>6. calls # << >> => L \in 1 .. L
  BY <1>l DEF TypeOK
<1>7. calls' # << >>
  BY <1>5, <1>2
<1>8. /\ pc + 1 \in Address /\ Code[pc + 1].opcode = "assign"
      /\ Owner[pc + 1] = Owner[pc]
  BY <1>1, CallSite
<1>9. /\ stack'[t] = Number(n) /\ stack'[t - 1] = Number(pc + 1)
      /\ stack'[t - 2] = Number(base) /\ stack'[t - 3] = Number(topsp)
      /\ \A k \in 0 .. StackSize - 1 : k > t => stack'[k] = s[k]
  <2>1. t < StackSize
    BY <1>3
  <2>2. s \in [0 .. StackSize - 1 -> Cell]
    BY DEF CallMade
  <2> HIDE DEF n, base
  <2>3. SavedIn(stack', s, t, n)
    BY <1>0, <2>1, <2>2, EnvironmentCells
  <2>4. QED
    BY <1>0, <2>3 DEF SavedIn
<1>10. \A k \in 0 .. StackSize - 1 : k > top => s[k] = stack[k]
  BY DEF CallMade
<1> HIDE DEF base, new, n
<1>13. \A k \in 1 .. L : base < calls[k].sp
  BY <1>1, <1>l, CallSite DEF base
<1>14. ASSUME NEW k \in 1 .. L PROVE FrameIntact(k)'
  <2>1. FrameIntact(k)
    BY <1>1, <1>l DEF CallsIntact
  <2>2. calls[k].sp \in Nat /\ calls[k].sp + 4 <= MainTop
    <3>1. calls[k].sp \in Nat /\ calls[k].top <= MainTop /\ calls[k].top \in Nat
          /\ calls[k].sp + 4 + Len(calls[k].args) = calls[k].top
          /\ Len(calls[k].args) \in Nat
      BY <1>1, CallFacts, <1>l
    <3>2. QED
      BY <3>1
  <2>3. base < calls[k].sp
    BY <1>13
  <2>4. \A m \in 1 .. 4 : stack'[calls[k].sp + m] = stack[calls[k].sp + m]
    <3> SUFFICES ASSUME NEW m \in 1 .. 4
                 PROVE  stack'[calls[k].sp + m] = stack[calls[k].sp + m]
      OBVIOUS
    <3> DEFINE x == calls[k].sp + m
    <3>1. x <= MainTop /\ x > base /\ x \in Nat
      BY <2>2, <2>3, <1>3
    <3> HIDE DEF x
    <3>2. x \in 0 .. StackSize - 1
      BY <3>1 DEF MainTop
    <3>3. x > top /\ x > t
      BY <3>1, <1>3
    <3>4. stack'[x] = stack[x]
      BY <3>2, <3>3, <1>9, <1>10
    <3>5. QED
      BY <3>4 DEF x
  <2>5. calls'[k] = calls[k]
    BY <1>5
  <2>6. Caller(k)' = Caller(k)
    <3>1. k = 1 \/ k - 1 \in 1 .. L
      BY <1>2
    <3>2. k = 1 \/ calls'[k - 1] = calls[k - 1]
      BY <3>1, <1>5
    <3>3. QED
      BY <3>2 DEF Caller
  <2>7. \A j \in 1 .. k - 1 : calls'[j] = calls[j]
    BY <1>2, <1>5
  <2>8. QED
    BY <2>1, <2>4, <2>5, <2>6, <2>7 DEF FrameIntact
<1>15. FrameIntact(L + 1)'
  <2>1. /\ new.top = Caller(L + 1)'.top /\ new.topsp = Caller(L + 1)'.topsp
        /\ Owner[new.pc] = Caller(L + 1)'.fn
    <3>1. CASE calls = << >>
      <4>1. L + 1 = 1
        BY <3>1, <1>l
      <4>2. QED
        BY <3>1, <4>1, <1>2, <1>4, <1>8 DEF Caller
    <3>2. CASE calls # << >>
      <4>1. L + 1 # 1 /\ (L + 1) - 1 = L
        BY <3>2, <1>2, <1>6
      <4>2. calls'[L] = calls[L]
        BY <3>2, <1>5, <1>6
      <4>3. QED
        BY <3>2, <4>1, <4>2, <1>2, <1>4, <1>8 DEF Caller
    <3>3. QED
      BY <3>1, <3>2
  <2>2. new.sp + EnvSize + Len(new.args) = new.top
    <3>1. Len(new.args) = n
      BY <1>4 DEF n
    <3>2. QED
      BY <3>1, <1>3, <1>4
  <2>3. \A j \in 1 .. L : new.top < calls'[j].sp
    BY <1>4, <1>5, <1>13
  <2>4. /\ stack'[new.sp + 4] = Number(Len(new.args))
        /\ stack'[new.sp + 3] = Number(new.pc)
        /\ stack'[new.sp + 2] = Number(new.top)
        /\ stack'[new.sp + 1] = Number(new.topsp)
    <3>1. new.sp + 4 = t /\ new.sp + 3 = t - 1 /\ new.sp + 2 = t - 2
          /\ new.sp + 1 = t - 3
      BY <1>3, <1>4
    <3>2. QED
      BY <3>1, <1>9, <1>4 DEF n
  <2>5. calls'[L + 1] = new /\ (L + 1) - 1 = L
    BY <1>2, <1>5
  <2>6. new.top <= MainTop /\ new.pc \in Address /\ Code[new.pc].opcode = "assign"
    BY <1>3, <1>4, <1>8
  <2>7. QED
    BY <2>1, <2>2, <2>3, <2>4, <2>5, <2>6 DEF FrameIntact
<1>16. EnvironmentsIntact'
  <2>1. \A k \in 1 .. L + 1 : k \in 1 .. L \/ k = L + 1
    BY <1>2
  <2>2. ASSUME NEW k \in 1 .. L + 1 PROVE FrameIntact(k)'
    <3>1. CASE k \in 1 .. L
      BY <3>1, <1>14
    <3>2. CASE k = L + 1
      BY <3>2, <1>15
    <3>3. QED
      BY <2>1, <3>1, <3>2
  <2>3. QED
    BY <2>2, <1>5 DEF EnvironmentsIntact
<1>17. f \in Address /\ Owner[f] = f /\ Entering'
  <2>1. f \in Functions /\ pc' = f
    BY DEF CallMade
  <2>2. f \in Address /\ Owner[f] = f
    BY <2>1, CodeAssumption DEF WellFormedCode, WellFormedAt
  <2>3. QED
    BY <2>1, <2>2 DEF Entering
<1>18. Innermost' = new
  BY <1>5 DEF Innermost
<1>19. RegistersMatch'
  BY <1>3, <1>4, <1>7, <1>17, <1>18 DEF RegistersMatch, CallMade, n
<1>20. ActualsInCells'
  <2>1. ASSUME NEW j \in 1 .. n PROVE stack'[base + 1 - j] = args[j]
    <3> DEFINE x == base + 1 - j
    <3>1. x \in Nat /\ x <= MainTop /\ x > t
      BY <1>3
    <3>2. x \in 0 .. StackSize - 1
      BY <3>1 DEF MainTop
    <3>3. s[x] = args[j]
      BY DEF base, n, CallMade
    <3> HIDE DEF x
    <3>4. stack'[x] = s[x]
      BY <3>1, <3>2, <1>9
    <3>5. QED
      BY <3>3, <3>4 DEF x
  <2>2. QED
    BY <2>1, <1>4, <1>17, <1>18 DEF ActualsInCells, CallMade, n
<1>21. QED
  BY <1>16, <1>19, <1>20 DEF FrameInv

(* Pushing an actual. *)
LEMMA PushArgStep ==
  ASSUME TypeOK, FrameInv, Binding, Binding', PushArg
  PROVE  FrameInv'
<1> DEFINE base == top + totalActuals
           v == Value(Code[pc].result)
<1> USE SizeFacts
<1>l. PICK L \in Nat : L = Len(calls)
  BY DEF TypeOK
<1>p. PICK n \in Nat : n = Len(pending)
  BY DEF TypeOK
<1>1. RegistersMatch /\ CallsIntact /\ Executing("pusharg")
  BY DEF FrameInv, EnvironmentsIntact, CallsIntact, Binding, PushArg
<1>2. /\ ~Entering /\ pc \in Address /\ top \in 0 .. StackSize - 1
      /\ totalActuals = n /\ base <= MainTop
      /\ calls = << >> => topsp = 0 /\ base = MainTop
      /\ calls # << >> => topsp = calls[L].sp
      /\ \A k \in 1 .. L : base <= calls[k].sp
  BY <1>1, <1>l, <1>p, FreeCell
<1>3. 1 <= top /\ top' = top - 1
  BY <1>2 DEF PushArg, Below, StatusBelow, Binding, Running
<1>4. totalActuals' = n + 1
  BY <1>2 DEF PushArg
<1>5. base' = base
  BY <1>2, <1>3, <1>4
<1>6. UNCHANGED <<topsp, calls>> /\ pc' = pc + 1 /\ stack' = [stack EXCEPT ![top] = v]
  BY DEF PushArg
<1>7. stack'[top] = v /\ \A k \in 0 .. StackSize - 1 : k # top => stack'[k] = stack[k]
  BY <1>2, <1>6 DEF TypeOK
<1>8. Code[pc].opcode = "pusharg"
  BY <1>1 DEF Executing
<1>9. /\ pc' \in Address /\ Code[pc'].opcode \in {"pusharg", "call"}
      /\ Owner[pc'] = Owner[pc] /\ ~Entering'
  <2>1. /\ pc' \in Address /\ Code[pc'].opcode \in {"pusharg", "call"}
        /\ StaysIn(Owner[pc], pc')
    BY <1>2, <1>6, <1>8, WellFormedFacts
  <2>2. QED
    BY <2>1, StaysInFacts DEF Entering
<1>10. /\ Len(pending') = n + 1 /\ pending'[n + 1] = v
       /\ \A j \in 1 .. n : pending'[j] = pending[j]
  <2>1. v \in Cell
    BY <1>1, ExecutingFacts
  <2> HIDE DEF v
  <2>2. pending' = Append(pending, v) /\ pending \in Seq(Cell)
    BY DEF PushArg, TypeOK, v
  <2>3. QED
    BY <2>1, <2>2, <1>p
<1> HIDE DEF v
<1>11. EnvironmentsIntact'
  <2>1. ASSUME NEW k \in 1 .. L, NEW m \in 1 .. 4
        PROVE  stack'[calls[k].sp + m] = stack[calls[k].sp + m]
    <3> DEFINE x == calls[k].sp + m
    <3>1. /\ calls[k].sp \in Nat /\ calls[k].top <= MainTop /\ calls[k].top \in Nat
          /\ calls[k].sp + 4 + Len(calls[k].args) = calls[k].top
          /\ Len(calls[k].args) \in Nat
      BY <1>1, <1>l, CallFacts
    <3>2. base <= calls[k].sp
      BY <1>2
    <3>3. top \in Nat /\ base \in Nat /\ top <= base
      BY <1>2
    <3>4. m \in Int /\ 1 <= m /\ m <= 4
      OBVIOUS
    <3> HIDE DEF base
    <3>5. calls[k].sp + 4 <= MainTop /\ calls[k].sp \in Nat
      BY <3>1
    <3>5a. x <= MainTop /\ x > top /\ x \in Nat
      BY <3>5, <3>2, <3>3, <3>4
    <3> HIDE DEF x
    <3>6. x \in 0 .. StackSize - 1 /\ x # top
      BY <3>3, <3>5a
    <3>7. stack'[x] = stack[x]
      BY <3>6, <1>7
    <3>8. QED
      BY <3>7 DEF x
  <2>2. CallsIntact'
    BY <2>1, <1>1, <1>6, <1>l, FramesKept
  <2>3. QED
    BY <2>2 DEF EnvironmentsIntact, CallsIntact
<1>12. Innermost' = Innermost
  BY <1>6 DEF Innermost
<1>13. RegistersMatch'
  <2>1. base' < StackSize
    BY <1>2, <1>5
  <2>2. totalActuals' = Len(pending')
    BY <1>4, <1>10
  <2>3. /\ calls = << >> => topsp = 0 /\ base = MainTop
        /\ calls # << >> => /\ topsp = Innermost.sp
                            /\ base = Wrap(topsp - LocalSize[Innermost.fn])
        /\ Owner[pc] = IF calls = << >> THEN Main ELSE Innermost.fn
    BY <1>2, RegisterFacts
  <2>4. QED
    BY <2>1, <2>2, <2>3, <1>5, <1>6, <1>9, <1>12 DEF RegistersMatch
<1>14. ActualsInCells'
  <2>1. \A j \in 1 .. n : stack[base + 1 - j] = pending[j]
    BY <1>2, <1>p DEF FrameInv, Binding, ActualsInCells
  <2>2. ASSUME NEW j \in 1 .. n + 1
        PROVE  stack'[base + 1 - j] = pending'[j]
    <3> DEFINE x == base + 1 - j
    <3>1. CASE j = n + 1
      BY <3>1, <1>2, <1>7, <1>10
    <3>2. CASE j \in 1 .. n
      <4>1. x \in Nat /\ x <= MainTop /\ x > top
        BY <3>2, <1>2
      <4>2. stack[x] = pending'[j]
        BY <3>2, <2>1, <1>10
      <4> HIDE DEF x
      <4>3. x \in 0 .. StackSize - 1 /\ x # top
        BY <4>1, <1>2
      <4>4. QED
        BY <4>2, <4>3, <1>7 DEF x
    <3>3. QED
      BY <3>1, <3>2
  <2>3. QED
    BY <2>2, <1>5, <1>9, <1>10 DEF ActualsInCells
<1>15. QED
  BY <1>11, <1>13, <1>14 DEF FrameInv

(* The two ways to call a user function. *)
LEMMA CallUserStep ==
  ASSUME TypeOK, FrameInv, Binding, Binding', CallUser
  PROVE  FrameInv'
<1> USE SizeFacts
<1>1. RegistersMatch /\ CallsIntact /\ Executing("call")
  BY DEF FrameInv, EnvironmentsIntact, CallsIntact, Binding, CallUser
<1>2. ~Entering /\ top \in 0 .. StackSize - 1 /\ totalActuals = Len(pending)
  BY <1>1, FreeCell
<1>3. EnvSize <= top
  BY <1>2 DEF CallUser, StatusBelow, Binding, Running
<1>4. Callee.val \in Functions
  BY <1>1, ExecutingFacts, CellFields DEF CallUser, Callee
<1>5. CallMade(Callee.val, stack, top, pending)
  <2>1. stack \in [0 .. StackSize - 1 -> Cell] /\ pending \in Seq(Cell)
    BY DEF TypeOK
  <2>2. \A j \in 1 .. Len(pending) : stack[top + totalActuals + 1 - j] = pending[j]
    BY <1>2 DEF FrameInv, Binding, ActualsInCells
  <2>3. top \in Nat /\ top <= top /\ top + Len(pending) = top + totalActuals
    BY <1>2
  <2>4. /\ stack' = SaveEnvironment(stack, top, Len(pending))
        /\ pc' = Callee.val /\ UNCHANGED <<topsp, pending>>
        /\ totalActuals' = Len(pending)
        /\ calls' = Append(calls, NewCall(Callee.val, top, pending))
    BY <1>2 DEF CallUser
  <2>5. top' = top - 4
    BY <1>2, <1>3 DEF CallUser, Below
  <2>6. QED
    BY <1>3, <1>4, <2>1, <2>2, <2>3, <2>4, <2>5 DEF CallMade
<1>6. QED
  BY <1>1, <1>5, CallStep

LEMMA CallFunctorStep ==
  ASSUME TypeOK, FrameInv, Binding, Binding', CallFunctor
  PROVE  FrameInv'
<1> DEFINE s == [stack EXCEPT ![top] = Callee]
           args == Append(pending, Callee)
<1> USE SizeFacts
<1>1. RegistersMatch /\ CallsIntact /\ Executing("call")
  BY DEF FrameInv, EnvironmentsIntact, CallsIntact, Binding, CallFunctor
<1>2. ~Entering /\ top \in 0 .. StackSize - 1 /\ totalActuals = Len(pending)
  BY <1>1, FreeCell
<1>3. PICK f \in Functions :
        /\ pc' = f /\ status' = StatusBelow(top, EnvSize + 1)
        /\ calls' = Append(calls, NewCall(f, Below(top, 1), pending'))
  BY DEF CallFunctor, Binding, Running
<1>4. EnvSize + 1 <= top
  BY <1>2, <1>3 DEF StatusBelow, Binding, Running
<1>5. Below(top, 1) = top - 1 /\ Below(top, EnvSize + 1) = top - 5
  BY <1>2, <1>4 DEF Below
<1>p. PICK n \in Nat : n = Len(pending)
  BY DEF TypeOK
<1>6. Callee \in Cell
  BY <1>1, ExecutingFacts DEF Callee
<1>7. /\ args \in Seq(Cell) /\ Len(args) = n + 1 /\ args[n + 1] = Callee
      /\ \A j \in 1 .. n : args[j] = pending[j]
  <2>1. pending \in Seq(Cell)
    BY DEF TypeOK
  <2>2. QED
    BY <1>6, <1>p, <2>1
<1>8. /\ s \in [0 .. StackSize - 1 -> Cell] /\ s[top] = Callee
      /\ \A k \in 0 .. StackSize - 1 : k # top => s[k] = stack[k]
  BY <1>2, <1>6 DEF TypeOK
<1>9. /\ stack' = SaveEnvironment(s, top - 1, n + 1) /\ totalActuals' = n + 1
      /\ pending' = args /\ topsp' = topsp /\ top' = top - 5
  BY <1>2, <1>5, <1>p DEF CallFunctor
<1> HIDE DEF s, args
<1>10. CallMade(f, s, top - 1, args)
  <2>1. \A j \in 1 .. n : stack[top + n + 1 - j] = pending[j]
    BY <1>2, <1>p DEF FrameInv, Binding, ActualsInCells
  <2>2. ASSUME NEW j \in 1 .. n + 1 PROVE s[top + n + 1 - j] = args[j]
    <3> DEFINE x == top + n + 1 - j
    <3>1. CASE j = n + 1
      BY <3>1, <1>2, <1>7, <1>8
    <3>2. CASE j \in 1 .. n
      <4>1. /\ x \in Nat /\ x > top /\ x <= top + n
        BY <3>2, <1>2
      <4>2. top + n <= MainTop
        BY <1>1, <1>2, <1>p, FreeCell
      <4>3. stack[x] = args[j]
        BY <3>2, <2>1, <1>7
      <4> HIDE DEF x
      <4>4. x \in 0 .. StackSize - 1 /\ x # top
        BY <4>1, <4>2, <1>2
      <4>5. QED
        BY <4>3, <4>4, <1>8 DEF x
    <3>3. QED
      BY <3>1, <3>2
  <2>3. /\ top - 1 \in Nat /\ EnvSize <= top - 1 /\ top - 1 <= top
        /\ top - 1 + Len(args) = top + totalActuals
    BY <1>2, <1>4, <1>7, <1>p
  <2>4. \A k \in 0 .. StackSize - 1 : k > top => s[k] = stack[k]
    BY <1>2, <1>8
  <2>5. top' = (top - 1) - 4
    BY <1>2, <1>9
  <2>6. \A j \in 1 .. Len(args) : s[top + totalActuals + 1 - j] = args[j]
    BY <1>2, <1>7, <1>p, <2>2
  <2>7. calls' = Append(calls, NewCall(f, top - 1, args)) /\ pc' = f
    BY <1>3, <1>5, <1>9
  <2>8. QED
    BY <1>7, <1>8, <1>9, <2>3, <2>4, <2>5, <2>6, <2>7 DEF CallMade
<1>11. QED
  BY <1>1, <1>10, CallStep

(* The callee takes over: its frame begins at the free cell. *)
LEMMA FuncEnterStep ==
  ASSUME TypeOK, FrameInv, Binding, Binding', FuncEnter
  PROVE  FrameInv'
<1>1. RegistersMatch /\ CallsIntact /\ Executing("funcenter")
  BY DEF FrameInv, EnvironmentsIntact, CallsIntact, Binding, FuncEnter
<1>2. pc \in Address /\ Code[pc].opcode = "funcenter" /\ pc' = pc + 1
  BY <1>1 DEF Executing, FuncEnter
<1>3. /\ pc \in Functions /\ Entering /\ Owner[pc] = pc
      /\ StaysIn(Owner[pc], pc') /\ pc # Main
  BY <1>2, WellFormedFacts DEF Entering
<1>4. ~Entering'
  BY <1>3, StaysInFacts DEF Entering
<1>5. calls # << >> /\ pc = Innermost.fn /\ top = Innermost.sp
  BY <1>1, <1>2, <1>3 DEF RegistersMatch, Binding
<1>6. CallsIntact'
  BY <1>1, FramesKept DEF FuncEnter
<1>7. EnvironmentsIntact'
  BY <1>6 DEF EnvironmentsIntact, CallsIntact
<1>8. UNCHANGED calls /\ Innermost' = Innermost
  BY DEF FuncEnter, Innermost
<1>9. /\ totalActuals' = 0 /\ Len(pending') = 0 /\ topsp' = Innermost.sp
      /\ top' = Wrap(topsp' - LocalSize[Innermost.fn]) /\ top' \in Nat
  <2>1. top' \in Nat
    BY TypeStep DEF Next, TypeOK
  <2>2. QED
    BY <2>1, <1>5 DEF FuncEnter
<1>10. top' + totalActuals' = top'
  BY <1>9
<1>11. pc' \in Address /\ Owner[pc'] = Innermost.fn
  BY <1>3, <1>5, StaysInFacts
<1>12. RegistersMatch'
  BY <1>4, <1>5, <1>8, <1>9, <1>10, <1>11 DEF RegistersMatch
<1>13. ActualsInCells'
  BY <1>4, <1>9 DEF ActualsInCells
<1>14. QED
  BY <1>7, <1>12, <1>13 DEF FrameInv

(* A return finds the caller's registers in the environment of its call.   *)
LEMMA ReturnRestores ==
  ASSUME TypeOK, FrameInv, Binding, FuncExit
  PROVE  /\ pc \in Address /\ Code[pc].opcode = "funcexit" /\ ~Entering
         /\ calls # << >> /\ Len(calls) \in 1 .. Len(calls)
         /\ topsp = Innermost.sp /\ totalActuals = 0 /\ Len(pending) = 0
         /\ top' = Innermost.top /\ topsp' = Innermost.topsp
         /\ pc' = Innermost.pc /\ pc' \in Address \ Functions
         /\ \A k \in 0 .. StackSize - 1 :
              k > Innermost.top + 1 => stack'[k] = stack[k]
<1> USE SizeFacts
<1>l. PICK L \in Nat : L = Len(calls)
  BY DEF TypeOK
<1>1. RegistersMatch /\ CallsIntact /\ Executing("funcexit")
  BY DEF FrameInv, EnvironmentsIntact, CallsIntact, Binding, FuncExit
<1>2. pc \in Address /\ Code[pc].opcode = "funcexit" /\ ~Entering /\ Owner[pc] # Main
  <2>1. pc \in Address /\ Code[pc].opcode = "funcexit"
    BY <1>1 DEF Executing
  <2>2. QED
    BY <2>1, WellFormedFacts DEF Entering
<1>3. calls # << >> /\ L \in 1 .. L /\ topsp = calls[L].sp
  <2>1. calls # << >>
    BY <1>2, RegisterFacts
  <2>2. QED
    BY <2>1, <1>2, <1>l, RegisterFacts DEF TypeOK, Innermost
<1>4. totalActuals = 0 /\ Len(pending) = 0
  <2>1. ~(totalActuals > 0)
    BY <1>1, <1>2 DEF RegistersMatch, Binding
  <2>2. QED
    BY <2>1, <1>2, RegisterFacts DEF TypeOK
<1> DEFINE c == calls[L]
<1>5. /\ c.top = Caller(L).top /\ c.topsp = Caller(L).topsp
      /\ c.pc \in Address /\ Owner[c.pc] = Caller(L).fn
      /\ Code[c.pc].opcode = "assign"
      /\ stack[c.sp + 3] = Number(c.pc) /\ stack[c.sp + 2] = Number(c.top)
      /\ stack[c.sp + 1] = Number(c.topsp)
  BY <1>1, <1>3, <1>l DEF CallsIntact, FrameIntact
<1>6. c.top \in Nat /\ c.top <= MainTop /\ c.sp \in Nat
      /\ \A j \in 1 .. L - 1 : c.top < calls[j].sp
  BY <1>1, <1>3, <1>l, CallFacts
<1>7. /\ top' = c.top /\ topsp' = c.topsp /\ pc' = c.pc
      /\ \A k \in 0 .. StackSize - 1 : k > c.top + 1 => stack'[k] = stack[k]
  <2> DEFINE r == ReturnSequence(stack, top, topsp)
  <2>1. /\ r.top = c.top /\ r.pc = c.pc /\ r.topsp = c.topsp
        /\ r.stack = [k \in DOMAIN stack |->
                        IF top < k /\ k <= c.top + 1 THEN Cleared(stack[k]) ELSE stack[k]]
    BY <1>3, <1>5 DEF ReturnSequence, Number
  <2> HIDE DEF c
  <2>2. /\ stack' = r.stack /\ top' = r.top /\ topsp' = r.topsp
        /\ pc' = IF r.pc = pc THEN pc + 1 ELSE r.pc
    BY DEF FuncExit
  <2>3. c.pc # pc
    BY <1>2, <1>5
  <2>4. DOMAIN stack = 0 .. StackSize - 1
    BY DEF TypeOK
  <2> HIDE DEF r
  <2>5. ASSUME NEW k \in 0 .. StackSize - 1, k > c.top + 1
        PROVE  stack'[k] = stack[k]
    <3>1. ~(k <= c.top + 1)
      BY <2>5, <1>6
    <3>2. QED
      BY <3>1, <2>1, <2>2, <2>4
  <2>6. QED
    BY <2>1, <2>2, <2>3, <2>5
<1>8. pc' \in Address \ Functions
  <2>1. pc' \in Address /\ Code[pc'].opcode = "assign"
    BY <1>5, <1>7 DEF c
  <2>2. QED
    BY <2>1, CodeAssumption DEF WellFormedCode, WellFormedAt
<1>9. QED
  BY <1>2, <1>3, <1>4, <1>7, <1>8, <1>l DEF Innermost, c

LEMMA FuncExitStep ==
  ASSUME TypeOK, FrameInv, Binding, Binding', FuncExit
  PROVE  FrameInv'
<1> USE SizeFacts
<1>l. PICK L \in Nat : L = Len(calls)
  BY DEF TypeOK
<1>1. RegistersMatch /\ CallsIntact
  BY DEF FrameInv, EnvironmentsIntact, CallsIntact, Binding
<1>3. calls # << >> /\ L \in 1 .. L /\ Innermost = calls[L]
  BY <1>l, ReturnRestores DEF Innermost
<1>4. totalActuals = 0 /\ pending' = pending /\ Len(pending) = 0 /\ totalActuals' = 0
  BY ReturnRestores DEF FuncExit
<1> DEFINE c == calls[L]
<1>5. /\ c.top = Caller(L).top /\ c.topsp = Caller(L).topsp
      /\ c.pc \in Address /\ Owner[c.pc] = Caller(L).fn
  BY <1>1, <1>3, <1>l DEF CallsIntact, FrameIntact
<1>6. c.top \in Nat /\ c.top <= MainTop /\ c.sp \in Nat
      /\ \A j \in 1 .. L - 1 : c.top < calls[j].sp
  BY <1>1, <1>3, <1>l, CallFacts
<1>7. /\ top' = c.top /\ topsp' = c.topsp /\ pc' = c.pc
      /\ \A k \in 0 .. StackSize - 1 : k > c.top + 1 => stack'[k] = stack[k]
  BY <1>3, ReturnRestores
<1>8. /\ Len(calls') = L - 1 /\ L - 1 \in Nat
      /\ \A k \in 1 .. L - 1 : calls'[k] = calls[k] /\ k \in 1 .. L
  BY <1>3, <1>l DEF FuncExit, TypeOK
<1> HIDE DEF c
<1>9. ASSUME NEW k \in 1 .. L - 1 PROVE FrameIntact(k)'
  <2>1. FrameIntact(k) /\ k \in 1 .. L
    BY <1>1, <1>8, <1>l DEF CallsIntact
  <2>2. ASSUME NEW m \in 1 .. 4
        PROVE  stack'[calls[k].sp + m] = stack[calls[k].sp + m]
    <3> DEFINE x == calls[k].sp + m
    <3>1. /\ calls[k].sp \in Nat /\ calls[k].top <= MainTop /\ calls[k].top \in Nat
          /\ calls[k].sp + 4 + Len(calls[k].args) = calls[k].top
          /\ Len(calls[k].args) \in Nat
      BY <1>1, <2>1, <1>l, CallFacts
    <3>2. calls[k].sp + 4 <= MainTop /\ calls[k].sp \in Nat
      BY <3>1
    <3>3. c.top < calls[k].sp /\ c.top \in Nat
      BY <1>6
    <3>4. m \in Int /\ 1 <= m /\ m <= 4
      OBVIOUS
    <3>5. x \in 0 .. StackSize - 1 /\ x > c.top + 1
      BY <3>2, <3>3, <3>4
    <3> HIDE DEF x
    <3>6. stack'[x] = stack[x]
      BY <3>5, <1>7
    <3>7. QED
      BY <3>6 DEF x
  <2>3. calls'[k] = calls[k]
    BY <1>8
  <2>4. Caller(k)' = Caller(k)
    <3>1. k = 1 \/ k - 1 \in 1 .. L - 1
      BY <1>8
    <3>2. k = 1 \/ calls'[k - 1] = calls[k - 1]
      BY <3>1, <1>8
    <3>3. QED
      BY <3>2 DEF Caller
  <2>5. \A j \in 1 .. k - 1 : calls'[j] = calls[j]
    BY <1>8
  <2>6. QED
    BY <2>1, <2>2, <2>3, <2>4, <2>5 DEF FrameIntact
<1>10. EnvironmentsIntact'
  BY <1>8, <1>9 DEF EnvironmentsIntact
<1>11. pc' \in Address /\ Owner[pc'] = Caller(L).fn /\ ~Entering'
  BY <1>5, <1>7, ReturnRestores DEF c, Entering
<1>12. RegistersMatch'
  <2>1. /\ topsp' = Caller(L).topsp /\ top' = Caller(L).top /\ top' \in Nat
    BY <1>5, <1>6, <1>7 DEF c
  <2>2. top' + totalActuals' = top'
    BY <2>1, <1>4
  <2>3. CASE L = 1
    <3>1. calls' = << >>
      <4>1. calls' \in Seq(Call)
        BY TypeStep DEF Next, TypeOK
      <4>2. QED
        BY <4>1, <2>3, <1>8
    <3>2. QED
      BY <3>1, <2>1, <2>2, <2>3, <1>4, <1>11 DEF RegistersMatch, Caller
  <2>4. CASE L # 1
    <3>1. L - 1 \in 1 .. L - 1 /\ L - 1 \in 1 .. L
      BY <2>4, <1>3
    <3>2. calls' # << >> /\ Innermost' = calls[L - 1]
      BY <3>1, <1>8 DEF Innermost
    <3>3. Caller(L) = [fn |-> calls[L - 1].fn, topsp |-> calls[L - 1].sp,
                       top |-> calls[L - 1].sp - LocalSize[calls[L - 1].fn]]
      BY <2>4 DEF Caller
    <3>4. calls[L - 1].sp \in Nat /\ calls[L - 1].fn \in Functions
      BY <1>1, <3>1, <1>l, CallFacts
    <3>5. top' = Wrap(topsp' - LocalSize[calls[L - 1].fn])
      <4> DEFINE p == calls[L - 1].sp
                 q == LocalSize[calls[L - 1].fn]
      <4>1. top' = p - q /\ topsp' = p /\ top' \in Nat
        BY <2>1, <3>3
      <4>2. p \in Nat /\ q \in Nat
        BY <3>4, SizesAreNat
      <4> HIDE DEF p, q
      <4>3. top' = Wrap(topsp' - q)
        BY <4>1, <4>2 DEF Wrap
      <4>4. QED
        BY <4>3 DEF q
    <3>6. topsp' = calls[L - 1].sp /\ Owner[pc'] = calls[L - 1].fn
      BY <2>1, <3>3, <1>11
    <3>7. QED
      BY <3>2, <3>5, <3>6, <2>2, <1>4, <1>11 DEF RegistersMatch
  <2>5. QED
    BY <2>3, <2>4
<1>13. ActualsInCells'
  BY <1>4, <1>11 DEF ActualsInCells
<1>14. QED
  BY <1>10, <1>12, <1>13 DEF FrameInv

(* A library function leaves its caller's registers as they were, and      *)
(* clears no cell that an environment occupies.                            *)
LEMMA LibraryRestores ==
  ASSUME TypeOK, FrameInv, Binding, Executing("call"),
         EnvSize <= top, NEW v, LibraryReturns(v)
  PROVE  /\ ~Entering /\ pc + 1 \in Address \ Functions
         /\ Owner[pc + 1] = Owner[pc]
         /\ top' = top + totalActuals /\ topsp' = topsp /\ pc' = pc + 1
         /\ \A k \in 0 .. StackSize - 1 :
              k > top + totalActuals + 1 => stack'[k] = stack[k]
<1> DEFINE base == top + totalActuals
           n == totalActuals
           e == SaveEnvironment(stack, top, totalActuals)
           sp == top - EnvSize
<1> USE SizeFacts
<1>l. PICK L \in Nat : L = Len(calls)
  BY DEF TypeOK
<1>1. RegistersMatch /\ CallsIntact
  BY DEF FrameInv, EnvironmentsIntact, CallsIntact, Binding
<1>2. /\ ~Entering /\ pc \in Address /\ top \in 0 .. StackSize - 1
      /\ base <= MainTop
      /\ calls = << >> => topsp = 0 /\ base = MainTop
      /\ calls # << >> => topsp = calls[L].sp
  BY <1>1, <1>l, FreeCell
<1>3. /\ pc + 1 \in Address /\ Code[pc + 1].opcode = "assign"
      /\ Owner[pc + 1] = Owner[pc]
      /\ \A k \in 1 .. L : base < calls[k].sp
  BY <1>1, <1>l, CallSite
<1>4. n \in Nat /\ base \in Nat /\ top \in Nat /\ top <= base /\ top < StackSize
  BY <1>2 DEF TypeOK
<1>5. SavedIn(e, stack, top, n)
  <2>1. stack \in [0 .. StackSize - 1 -> Cell]
    BY DEF TypeOK
  <2>2. QED
    BY <2>1, <1>4, EnvironmentCells
<1>6. /\ e[sp + 3] = Number(pc + 1) /\ e[sp + 2] = Number(base)
      /\ e[sp + 1] = Number(topsp)
      /\ \A k \in 0 .. StackSize - 1 : k > top => e[k] = stack[k]
      /\ DOMAIN e = 0 .. StackSize - 1
  <2>1. sp + 3 = top - 1 /\ sp + 2 = top - 2 /\ sp + 1 = top - 3
    BY <1>4
  <2> HIDE DEF e, sp
  <2>2. QED
    BY <2>1, <1>5 DEF SavedIn
<1> HIDE DEF e
<1>7. /\ top' = base /\ topsp' = topsp /\ pc' = pc + 1
      /\ \A k \in 0 .. StackSize - 1 : k > base + 1 => stack'[k] = stack[k]
  <2> DEFINE r == ReturnSequence(e, sp, sp)
  <2>1. stack' = r.stack /\ top' = r.top /\ topsp' = r.topsp /\ pc' = r.pc
    BY DEF LibraryReturns, e
  <2> HIDE DEF sp, base
  <2>2. /\ r.top = base /\ r.pc = pc + 1 /\ r.topsp = topsp
        /\ r.stack = [k \in DOMAIN e |->
                        IF sp < k /\ k <= base + 1 THEN Cleared(e[k]) ELSE e[k]]
    BY <1>6 DEF ReturnSequence, Number
  <2> HIDE DEF r
  <2>3. ASSUME NEW k \in 0 .. StackSize - 1, k > base + 1
        PROVE  stack'[k] = stack[k]
    <3>1. ~(k <= base + 1) /\ k > top
      BY <2>3, <1>4
    <3>2. stack'[k] = e[k]
      BY <3>1, <2>1, <2>2, <1>6
    <3>3. QED
      BY <3>1, <3>2, <1>6
  <2>4. QED
    BY <2>1, <2>2, <2>3
<1>8. pc + 1 \notin Functions
  BY <1>3, CodeAssumption DEF WellFormedCode, WellFormedAt
<1>9. QED
  BY <1>2, <1>3, <1>7, <1>8

LEMMA LibraryStep ==
  ASSUME TypeOK, FrameInv, Binding, Binding', Executing("call"),
         EnvSize <= top, NEW v, LibraryReturns(v)
  PROVE  FrameInv'
<1> DEFINE base == top + totalActuals
<1> USE SizeFacts
<1>l. PICK L \in Nat : L = Len(calls)
  BY DEF TypeOK
<1>1. RegistersMatch /\ CallsIntact
  BY DEF FrameInv, EnvironmentsIntact, CallsIntact, Binding
<1>2. /\ ~Entering /\ base <= MainTop /\ pc \in Address
      /\ calls = << >> => topsp = 0 /\ base = MainTop
      /\ calls # << >> => topsp = calls[L].sp
  BY <1>1, <1>l, FreeCell
<1>3. \A k \in 1 .. L : base < calls[k].sp
  BY <1>1, <1>l, CallSite
<1>4. base \in Nat
  BY DEF TypeOK
<1>7. /\ top' = base /\ topsp' = topsp /\ pc' = pc + 1
      /\ pc + 1 \in Address \ Functions /\ Owner[pc + 1] = Owner[pc]
      /\ \A k \in 0 .. StackSize - 1 : k > base + 1 => stack'[k] = stack[k]
  BY LibraryRestores
<1>8. totalActuals' = 0 /\ pending' = << >> /\ UNCHANGED calls
  BY DEF LibraryReturns
<1>9. Innermost' = Innermost
  BY <1>8 DEF Innermost
<1>10. EnvironmentsIntact'
  <2>1. ASSUME NEW k \in 1 .. L, NEW m \in 1 .. 4
        PROVE  stack'[calls[k].sp + m] = stack[calls[k].sp + m]
    <3> DEFINE x == calls[k].sp + m
    <3> HIDE DEF base
    <3>1. /\ calls[k].sp \in Nat /\ calls[k].top <= MainTop /\ calls[k].top \in Nat
          /\ calls[k].sp + 4 + Len(calls[k].args) = calls[k].top
          /\ Len(calls[k].args) \in Nat
      BY <1>1, <1>l, CallFacts
    <3>2. calls[k].sp + 4 <= MainTop /\ calls[k].sp \in Nat
      BY <3>1
    <3>3. base < calls[k].sp /\ base \in Nat
      BY <1>3, <1>4
    <3>4. m \in Int /\ 1 <= m /\ m <= 4
      OBVIOUS
    <3>5. x \in 0 .. StackSize - 1 /\ x > base + 1
      BY <3>2, <3>3, <3>4
    <3> HIDE DEF x
    <3>6. stack'[x] = stack[x]
      BY <3>5, <1>7
    <3>7. QED
      BY <3>6 DEF x
  <2>2. CallsIntact'
    BY <2>1, <1>1, <1>8, <1>l, FramesKept
  <2>3. QED
    BY <2>2 DEF EnvironmentsIntact, CallsIntact
<1>11. ~Entering' /\ pc' \in Address /\ Owner[pc'] = Owner[pc]
  BY <1>7 DEF Entering
<1>12. RegistersMatch'
  <2>1. top' + totalActuals' = base
    BY <1>4, <1>7, <1>8
  <2>2. /\ calls = << >> => topsp = 0 /\ base = MainTop
        /\ calls # << >> => /\ topsp = Innermost.sp
                            /\ base = Wrap(topsp - LocalSize[Innermost.fn])
        /\ Owner[pc] = IF calls = << >> THEN Main ELSE Innermost.fn
    BY <1>2, RegisterFacts
  <2>3. Len(pending') = 0 /\ ~(totalActuals' > 0) /\ totalActuals' = 0
    BY <1>8
  <2> HIDE DEF base
  <2>4. QED
    BY <2>1, <2>2, <2>3, <1>7, <1>8, <1>9, <1>11 DEF RegistersMatch
<1>13. ActualsInCells'
  BY <1>8, <1>11 DEF ActualsInCells
<1>14. QED
  BY <1>10, <1>12, <1>13 DEF FrameInv

LEMMA FrameInit == Init => FrameInv
<1> SUFFICES ASSUME Init PROVE FrameInv
  OBVIOUS
<1> USE SizesAreNat
<1>1. calls = << >> /\ pending = << >> /\ Len(calls) = 0 /\ Len(pending) = 0
  BY DEF Init
<1>2. 0 \in Address => 0 \notin Functions /\ Owner[0] = Main
  <2>1. 0 \in Address => Owner[0] = Main
    BY CodeAssumption DEF WellFormedCode
  <2>2. 0 \in Functions => 0 \in Address /\ Owner[0] = 0 /\ Main \notin Functions
    BY CodeAssumption DEF WellFormedCode, WellFormedAt, Main, Address
  <2>3. QED
    BY <2>1, <2>2
<1>3. 0 \in Address \/ 0 = CodeSize
  BY DEF Address
<1>4. ~Entering
  BY <1>2, CodeAssumption DEF Entering, Init
<1>5. EnvironmentsIntact
  BY <1>1 DEF EnvironmentsIntact
<1>6. RegistersMatch
  <2>1. /\ topsp = 0 /\ totalActuals = 0 /\ top + totalActuals = MainTop
    BY DEF Init
  <2>2. /\ pc \in Address => Owner[pc] = Main
        /\ pc \in Address \/ pc = CodeSize
    BY <1>2, <1>3 DEF Init
  <2>3. ~(totalActuals > 0) /\ totalActuals = Len(pending)
    BY <1>1, <2>1
  <2>4. QED
    BY <1>1, <1>4, <2>1, <2>2, <2>3 DEF RegistersMatch
<1>7. ActualsInCells
  BY <1>1, <1>4 DEF ActualsInCells
<1>8. QED
  BY <1>5, <1>6, <1>7 DEF FrameInv

(* Every step preserves the invariant.                                     *)
LEMMA FrameStep == TypeOK /\ FrameInv /\ [Next]_vars => FrameInv'
<1> SUFFICES ASSUME TypeOK, FrameInv, [Next]_vars PROVE FrameInv'
  OBVIOUS
<1>1. CASE ~Binding'
  BY <1>1 DEF FrameInv, EnvironmentsIntact, RegistersMatch, ActualsInCells, Binding
<1>2. CASE UNCHANGED vars
  BY <1>2 DEF vars, FrameInv, EnvironmentsIntact, RegistersMatch, ActualsInCells,
              FrameIntact, Caller, Innermost, Entering, Running
<1>3. CASE Binding' /\ Next
  <2>1. Binding \/ UNCHANGED vars
    BY <1>3 DEF Binding, Running, Next, Assign, Compute, Effect, Jump,
       BranchNotTaken, TypeError, PushArg, CallUser, CallFunctor, CallFails,
       FuncEnter, FuncExit, CallTotalArguments, CallArgument, CallOther,
       LibraryCall, LibraryReturns, LibraryOverflow, EndOfCode, WildAccess,
       AssertFails, Stop, Stopped, Executing
  <2>2. SUFFICES ASSUME Binding, Binding' PROVE FrameInv'
    BY <2>1, <1>2, <1>3
  <2>3. CASE Assign
    <3>1. ~Missing(Code[pc].result)
      BY <2>2, <2>3 DEF Assign, Binding
    <3>2. QED
      BY <2>2, <2>3, <3>1, StoreStep DEF Assign
  <2>4. CASE Compute
    <3>1. ~Missing(Code[pc].result)
      BY <2>2, <2>4 DEF Compute, Binding
    <3>2. PICK c \in DataCells : Store(Code[pc].result, c)
      BY <2>4 DEF Compute
    <3>3. QED
      BY <2>2, <2>4, <3>1, <3>2, StoreStep DEF Compute
  <2>5. CASE Effect \/ Jump \/ BranchNotTaken
    <3>1. pc \in Address /\ Code[pc].opcode \in {"effect", "jump", "branch"}
      BY <2>5 DEF Effect, Jump, BranchNotTaken, Executing
    <3>2. StaysIn(Owner[pc], pc')
      BY <2>5, <3>1, WellFormedFacts DEF Effect, Jump, BranchNotTaken, Executing
    <3>3. UNCHANGED <<stack, top, topsp, totalActuals, calls, pending>>
      BY <2>5 DEF Effect, Jump, BranchNotTaken
    <3>4. QED
      BY <2>2, <3>1, <3>2, <3>3, StayInFunction
  <2>6. CASE PushArg
    BY <2>2, <2>6, PushArgStep
  <2>7. CASE CallUser
    BY <2>2, <2>7, CallUserStep
  <2>8. CASE CallFunctor
    BY <2>2, <2>8, CallFunctorStep
  <2>9. CASE FuncEnter
    BY <2>2, <2>9, FuncEnterStep
  <2>10. CASE FuncExit
    BY <2>2, <2>10, FuncExitStep
  <2>11. CASE CallTotalArguments \/ CallArgument \/ CallOther
    <3>1. PICK v : LibraryReturns(v)
      BY <2>11 DEF CallTotalArguments, CallArgument, CallOther
    <3>2. Executing("call") /\ EnvSize <= top
      BY <2>11, SizeFacts DEF CallTotalArguments, CallArgument, CallOther,
         LibraryCall, TypeOK
    <3>3. QED
      BY <2>2, <3>1, <3>2, LibraryStep
  <2>12. CASE TypeError \/ CallFails \/ LibraryOverflow \/ EndOfCode \/ WildAccess
              \/ AssertFails \/ Stopped
    <3>1. ~Running' \/ ~Running
      BY <2>12 DEF TypeError, CallFails, LibraryOverflow, EndOfCode, WildAccess,
         AssertFails, Stop, Stopped, Running
    <3>2. QED
      BY <2>2, <3>1 DEF Binding
  <2>13. QED
    BY <1>3, <2>3, <2>4, <2>5, <2>6, <2>7, <2>8, <2>9, <2>10, <2>11, <2>12 DEF Next
<1>4. QED
  BY <1>1, <1>2, <1>3

LEMMA FrameInvariant == Spec => [](TypeOK /\ FrameInv)
<1>1. Spec => []TypeOK
  BY TypeCorrect
<1>2. Init => FrameInv
  BY FrameInit
<1>3. QED
  BY <1>1, <1>2, FrameStep, PTL DEF Spec

(* Whatever well-formed program runs, on a stack of whatever size, the     *)
(* environments of its active calls stay what the calls have saved, as     *)
(* long as no function assigns to a formal it got no actual for.           *)
THEOREM EnvironmentsSurvive == Spec => []EnvironmentsIntact
BY FrameInvariant, PTL DEF FrameInv

(* The registers delimit the frame of the function that runs, and pc stays *)
(* in its code.                                                            *)
THEOREM RegistersDelimitFrame == Spec => []RegistersMatch
BY FrameInvariant, PTL DEF FrameInv

(* What has been pushed for a call stays in its cells until the function   *)
(* is entered, whatever is evaluated between two pushes.                   *)
THEOREM ActualsStay == Spec => []ActualsInCells
BY FrameInvariant, PTL DEF FrameInv

(* A function that is entered finds in its i-th formal the i-th actual of  *)
(* the call that enters it.                                                *)
THEOREM FormalsBound == Spec => []FormalsAreActuals
<1>1. TypeOK /\ FrameInv => FormalsAreActuals
  <2> SUFFICES ASSUME TypeOK, FrameInv, Binding, Entering, calls # << >>,
                      NEW i \in 0 .. Len(Innermost.args) - 1
               PROVE  stack[top + EnvSize + 1 + i] =
                        Innermost.args[Len(Innermost.args) - i]
    BY DEF FormalsAreActuals, Binding
  <2> DEFINE c == Innermost
             n == Len(c.args)
  <2>1. /\ c.sp \in Nat /\ c.top \in Nat /\ n \in Nat /\ c.sp + 4 + n = c.top
    <3>1. Len(calls) \in 1 .. Len(calls) /\ CallsIntact
      BY DEF TypeOK, FrameInv, EnvironmentsIntact, CallsIntact, Binding
    <3>2. QED
      BY <3>1, CallFacts DEF Innermost
  <2>2. top = c.sp /\ totalActuals = n /\ totalActuals = Len(pending)
    BY DEF FrameInv, RegistersMatch, Binding
  <2>3. /\ pending = c.args
        /\ \A j \in 1 .. Len(pending) : stack[c.top + 1 - j] = pending[j]
    BY DEF FrameInv, ActualsInCells, Binding
  <2> HIDE DEF c
  <2>4. i \in Nat /\ n - i \in 1 .. n /\ c.top + 1 - (n - i) = top + 4 + 1 + i
    <3>1. i \in 0 .. n - 1
      BY DEF c
    <3>2. n \in Nat /\ c.sp + 4 + n = c.top /\ top = c.sp /\ c.sp \in Nat
      BY <2>1, <2>2
    <3> HIDE DEF n
    <3>3. i \in Nat /\ n - i \in 1 .. n
      BY <3>1, <3>2
    <3>4. c.top + 1 - (n - i) = top + 4 + 1 + i
      BY <3>2, <3>3
    <3>5. QED
      BY <3>3, <3>4
  <2>5. stack[c.top + 1 - (n - i)] = c.args[n - i]
    BY <2>3, <2>4
  <2>6. QED
    BY <2>4, <2>5, SizeFacts DEF c
<1>2. QED
  BY <1>1, FrameInvariant, PTL

-----------------------------------------------------------------------------
(* The frames of the callers *)

(* What the invariant says of the innermost call. *)
LEMMA InnermostFacts ==
  ASSUME TypeOK, FrameInv, Binding, calls # << >>
  PROVE  /\ CallsIntact /\ RegistersMatch
         /\ Len(calls) \in 1 .. Len(calls)
         /\ Innermost.sp \in Nat /\ Innermost.top \in Nat
         /\ Len(Innermost.args) \in Nat
         /\ Innermost.sp + 4 + Len(Innermost.args) = Innermost.top
         /\ Innermost.top <= MainTop
         /\ stack[Innermost.sp + 4] = Number(Len(Innermost.args))
<1>1. CallsIntact /\ RegistersMatch
  BY DEF FrameInv, EnvironmentsIntact, CallsIntact, Binding
<1>2. Len(calls) \in 1 .. Len(calls)
  BY DEF TypeOK
<1>3. stack[Innermost.sp + 4] = Number(Len(Innermost.args))
  BY <1>1, <1>2 DEF CallsIntact, FrameIntact, Innermost
<1>4. QED
  BY <1>1, <1>2, <1>3, CallFacts DEF Innermost

(* Saving an environment writes no cell above the free one. *)
LEMMA SavedBelow ==
  ASSUME NEW s \in [0 .. StackSize - 1 -> Cell], NEW t \in Nat, NEW n \in Nat,
         t < StackSize
  PROVE  \A k \in 0 .. StackSize - 1 : k > t => SaveEnvironment(s, t, n)[k] = s[k]
<1>1. /\ Below(t, 1) \in 0 .. t /\ Below(t, 2) \in 0 .. t
      /\ Below(t, 3) \in 0 .. t
  BY DEF Below
<1>2. QED
  BY <1>1, SizesAreNat DEF SaveEnvironment

(* A value that is stored goes to the frame of the function that runs, or  *)
(* to a global.                                                            *)
LEMMA StoreAboveFrame ==
  ASSUME TypeOK, FrameInv, Binding, calls # << >>,
         Executing("assign") \/ Executing("data"),
         ~Missing(Code[pc].result), NEW c, Store(Code[pc].result, c),
         NEW k \in Innermost.top + 1 .. MainTop
  PROVE  stack'[k] = stack[k]
<1> DEFINE a == Code[pc].result
           x == CellIndex(a)
<1>1. pc \in Address /\ a.type \in StackArgs \cup {"retval_a"}
  BY OperandFacts DEF Executing
<1>2. CASE a.type = "retval_a"
  BY <1>2 DEF Store
<1>3. CASE a.type \in StackArgs
  <2>1. /\ x \in 0 .. StackSize - 1
        /\ x > MainTop \/ x <= Innermost.sp \/ x <= Innermost.top
    BY <1>3, InnermostFacts, StoreRange
  <2>2. /\ Innermost.sp \in Nat /\ Innermost.top \in Nat
        /\ Innermost.sp <= Innermost.top
    <3>1. PICK n \in Nat : /\ Innermost.sp \in Nat /\ Innermost.top \in Nat
                           /\ Innermost.sp + 4 + n = Innermost.top
      BY InnermostFacts
    <3>2. QED
      BY <3>1
  <2>3. stack' = [stack EXCEPT ![x] = c]
    BY <1>3 DEF Store, StackArgs
  <2> HIDE DEF x
  <2>4. k # x
    BY <2>1, <2>2, SizeFacts
  <2>5. k \in 0 .. StackSize - 1
    BY <2>2, SizeFacts
  <2>6. QED
    BY <2>3, <2>4, <2>5 DEF TypeOK
<1>4. QED
  BY <1>1, <1>2, <1>3

(* The step that CallersUntouched speaks of. *)
CallersKept ==
  Running /\ ~strayed' /\ calls # << >> =>
    \A k \in Innermost.top + 1 .. MainTop :
      \/ stack'[k] = stack[k]
      \/ k = Innermost.top + 1 /\ Len(calls') < Len(calls)

(* A function that has strayed is never forgotten. *)
LEMMA StrayedForGood ==
  ASSUME [Next]_vars, ~strayed'
  PROVE  ~strayed
<1>1. CASE Assign
  BY <1>1 DEF Assign
<1>2. CASE Compute
  BY <1>2 DEF Compute
<1>3. CASE TypeError
  BY <1>3 DEF TypeError
<1>4. CASE \/ Effect \/ Jump \/ BranchNotTaken \/ PushArg \/ CallUser \/ CallFunctor
           \/ CallFails \/ FuncEnter \/ FuncExit
  BY <1>4 DEF Effect, Jump, BranchNotTaken, PushArg, CallUser, CallFunctor,
     CallFails, FuncEnter, FuncExit
<1>5. CASE CallTotalArguments \/ CallArgument \/ CallOther
  BY <1>5 DEF CallTotalArguments, CallArgument, CallOther, LibraryReturns
<1>6. CASE \/ LibraryOverflow \/ EndOfCode \/ WildAccess \/ AssertFails \/ Stopped
           \/ UNCHANGED vars
  BY <1>6 DEF LibraryOverflow, EndOfCode, WildAccess, AssertFails, Stop, Stopped,
     vars
<1>7. QED
  BY <1>1, <1>2, <1>3, <1>4, <1>5, <1>6 DEF Next

LEMMA CallersStep == TypeOK /\ FrameInv /\ [Next]_vars => CallersKept
<1> SUFFICES ASSUME TypeOK, FrameInv, [Next]_vars,
                    Running, ~strayed', calls # << >>,
                    NEW k \in Innermost.top + 1 .. MainTop
             PROVE  \/ stack'[k] = stack[k]
                    \/ k = Innermost.top + 1 /\ Len(calls') < Len(calls)
  BY DEF CallersKept
<1> USE SizeFacts
<1>1. Binding
  BY StrayedForGood DEF Binding
<1>2. /\ Innermost.sp \in Nat /\ Innermost.top \in Nat /\ k \in Nat
      /\ Innermost.sp < Innermost.top
      /\ k \in 0 .. StackSize - 1 /\ k > Innermost.top
  <2>1. PICK n \in Nat : /\ Innermost.sp \in Nat /\ Innermost.top \in Nat
                         /\ Innermost.sp + 4 + n = Innermost.top
    BY <1>1, InnermostFacts
  <2>2. QED
    BY <2>1
<1>3. CASE Assign
  <2>1. ~Missing(Code[pc].result)
    BY <1>3 DEF Assign
  <2>2. QED
    BY <1>1, <1>3, <2>1, StoreAboveFrame DEF Assign
<1>4. CASE Compute
  <2>1. ~Missing(Code[pc].result)
    BY <1>4 DEF Compute
  <2>2. QED
    BY <1>1, <1>4, <2>1, StoreAboveFrame DEF Compute
<1>5. CASE TypeError
  <2>1. CASE UNCHANGED stack
    BY <2>1
  <2>2. CASE \E c : Code[pc].opcode = "data" /\ Store(Code[pc].result, c)
    <3>1. Executing("data")
      BY <1>5, <2>2 DEF TypeError, Executing
    <3>2. ~Missing(Code[pc].result)
      BY <1>5, <2>2 DEF TypeError
    <3>3. QED
      BY <1>1, <2>2, <3>1, <3>2, StoreAboveFrame
  <2>3. QED
    BY <1>5, <2>1, <2>2 DEF TypeError
(* A call writes the free cell and those below it. *)
<1>6. ASSUME Executing("pusharg") \/ Executing("call")
      PROVE  top \in 0 .. StackSize - 1 /\ top + totalActuals < k /\ top < k
             /\ totalActuals \in Nat
  <2>1. /\ top \in 0 .. StackSize - 1
        /\ top + totalActuals <= calls[Len(calls)].sp
    BY <1>1, <1>6, InnermostFacts, FreeCell
  <2>2. totalActuals \in Nat
    BY DEF TypeOK
  <2>3. QED
    BY <1>2, <2>1, <2>2 DEF Innermost
<1>7. stack \in [0 .. StackSize - 1 -> Cell] /\ totalActuals \in Nat
  BY DEF TypeOK
<1>8. CASE PushArg
  <2>1. top \in 0 .. StackSize - 1 /\ top < k
    BY <1>6, <1>8 DEF PushArg
  <2>2. stack' = [stack EXCEPT ![top] = Value(Code[pc].result)]
    BY <1>8 DEF PushArg
  <2>3. QED
    BY <1>2, <1>7, <2>1, <2>2
<1>9. CASE CallUser \/ CallFails \/ LibraryOverflow
  <2>1. top \in 0 .. StackSize - 1 /\ top < k
    BY <1>6, <1>9 DEF CallUser, CallFails, LibraryOverflow
  <2>2. stack' = SaveEnvironment(stack, top, totalActuals)
    BY <1>9 DEF CallUser, CallFails, LibraryOverflow, Saved
  <2>3. QED
    BY <1>2, <1>7, <2>1, <2>2, SavedBelow
<1>10. CASE CallFunctor
  <2> DEFINE s == [stack EXCEPT ![top] = Callee]
  <2>1. top \in 0 .. StackSize - 1 /\ top < k
    BY <1>6, <1>10 DEF CallFunctor
  <2>2. stack' = SaveEnvironment(s, Below(top, 1), totalActuals + 1)
    BY <1>10 DEF CallFunctor
  <2>3. Callee \in Cell
    BY <1>10, ExecutingFacts DEF CallFunctor, Callee
  <2>4. s \in [0 .. StackSize - 1 -> Cell] /\ s[k] = stack[k]
    BY <1>2, <1>7, <2>1, <2>3
  <2>5. Below(top, 1) \in Nat /\ Below(top, 1) <= top /\ Below(top, 1) < StackSize
    BY <2>1 DEF Below
  <2>6. k > Below(top, 1) /\ totalActuals + 1 \in Nat
    BY <1>2, <1>7, <2>1, <2>5
  <2> HIDE DEF s
  <2>7. QED
    BY <1>2, <2>2, <2>4, <2>5, <2>6, SavedBelow
<1>11. CASE CallTotalArguments \/ CallArgument \/ CallOther
  <2>1. PICK v : LibraryReturns(v)
    BY <1>11 DEF CallTotalArguments, CallArgument, CallOther
  <2>2. Executing("call") /\ EnvSize <= top
    BY <1>11 DEF CallTotalArguments, CallArgument, CallOther, LibraryCall, TypeOK
  <2>3. top + totalActuals < Innermost.sp
    BY <1>1, <2>2, InnermostFacts, CallSite DEF Innermost
  <2>4. top + totalActuals \in Nat
    BY DEF TypeOK
  <2>5. k > top + totalActuals + 1
    BY <1>2, <2>3, <2>4
  <2>6. QED
    BY <1>1, <1>2, <2>1, <2>2, <2>5, LibraryRestores
<1>12. CASE FuncExit
  <2>1. CASE k > Innermost.top + 1
    BY <1>1, <1>2, <1>12, <2>1, ReturnRestores
  <2>2. CASE k = Innermost.top + 1
    <3>1. Len(calls') < Len(calls)
      BY <1>1, <1>12, ReturnRestores DEF FuncExit, TypeOK
    <3>2. QED
      BY <2>2, <3>1
  <2>3. QED
    BY <1>2, <2>1, <2>2
<1>13. CASE \/ Effect \/ Jump \/ BranchNotTaken \/ FuncEnter \/ EndOfCode
            \/ WildAccess \/ AssertFails \/ Stopped \/ UNCHANGED vars
  BY <1>13 DEF Effect, Jump, BranchNotTaken, FuncEnter, EndOfCode, WildAccess,
     AssertFails, Stop, Stopped, vars
<1>14. QED
  BY <1>3, <1>4, <1>5, <1>8, <1>9, <1>10, <1>11, <1>12, <1>13 DEF Next

(* Whatever a function does, and whatever is called from it, the locals,   *)
(* the environment and the actuals of the functions that wait for it stay  *)
(* as they are; its own return may clear one cell, the last local of the   *)
(* function it returns to.                                                 *)
THEOREM CallersAreUntouched == Spec => CallersUntouched
<1>1. TypeOK /\ FrameInv /\ [Next]_vars => [CallersKept]_vars
  BY CallersStep
<1>2. QED
  BY <1>1, FrameInvariant, PTL DEF Spec, CallersUntouched, CallersKept

-----------------------------------------------------------------------------
(* What a function is told about its own call *)

(* The step that ReflectionSeesCaller speaks of. *)
Reflection ==
  /\ (CallTotalArguments /\ ~strayed) =>
        retval' = IF calls = << >> THEN Nil ELSE Number(Len(Innermost.args))
  /\ (CallArgument /\ ~strayed /\ totalActuals = 1) =>
       LET i == stack[top + 1].val IN
       IF calls = << >> THEN retval' = Nil
       ELSE i < Len(Innermost.args) =>
              retval' = stack[Innermost.sp + EnvSize + 1 + i]

(* Where a library function that is called looks for its caller's frame.   *)
LEMMA CallerOfLibrary ==
  ASSUME TypeOK, FrameInv, Binding, NEW f, LibraryCall(f)
  PROVE  /\ calls = << >> => topsp = 0
         /\ calls # << >> =>
              /\ topsp = Innermost.sp /\ topsp # 0 /\ top < topsp
              /\ Saved[topsp + EnvSize] = Number(Len(Innermost.args))
         /\ \A k \in 0 .. StackSize - 1 : k > top => Saved[k] = stack[k]
<1> USE SizeFacts
<1>1. Executing("call") /\ RegistersMatch /\ CallsIntact
  BY DEF LibraryCall, FrameInv, EnvironmentsIntact, CallsIntact, Binding
<1>2. /\ top \in 0 .. StackSize - 1 /\ totalActuals \in Nat
      /\ calls = << >> => topsp = 0
      /\ calls # << >> => topsp = Innermost.sp
  BY <1>1, FreeCell DEF Innermost, TypeOK
<1>3. \A k \in 0 .. StackSize - 1 : k > top => Saved[k] = stack[k]
  BY <1>2, SavedBelow DEF TypeOK, Saved
<1>4. ASSUME calls # << >>
      PROVE  /\ topsp # 0 /\ top < topsp
             /\ Saved[topsp + EnvSize] = Number(Len(Innermost.args))
  <2>1. top + totalActuals < Innermost.sp
    BY <1>1, <1>4, InnermostFacts, CallSite DEF Innermost
  <2>2. PICK n \in Nat : /\ Innermost.sp \in Nat /\ Innermost.top \in Nat
                         /\ Innermost.sp + 4 + n = Innermost.top
                         /\ Innermost.top <= MainTop
    BY <1>4, InnermostFacts
  <2>3. topsp \in Nat /\ top < topsp /\ topsp + 4 \in 0 .. StackSize - 1
    BY <1>2, <1>4, <2>1, <2>2
  <2>4. Saved[topsp + 4] = stack[Innermost.sp + 4]
    BY <1>2, <1>3, <1>4, <2>3
  <2>5. QED
    BY <1>2, <1>4, <2>3, <2>4, InnermostFacts
<1>5. QED
  BY <1>2, <1>3, <1>4

LEMMA ReflectionStep == TypeOK /\ FrameInv => Reflection
<1> SUFFICES ASSUME TypeOK, FrameInv PROVE Reflection
  OBVIOUS
<1> USE SizeFacts
<1>1. ASSUME CallTotalArguments, ~strayed
      PROVE  retval' = IF calls = << >> THEN Nil ELSE Number(Len(Innermost.args))
  <2>1. Binding /\ LibraryCall(LibTotalArguments)
    BY <1>1 DEF CallTotalArguments, LibraryCall, Executing, Binding, Running
  <2>2. CASE calls = << >>
    <3>1. LibraryReturns(Nil)
      BY <1>1, <2>1, <2>2, CallerOfLibrary DEF CallTotalArguments
    <3>2. QED
      BY <2>2, <3>1 DEF LibraryReturns
  <2>3. CASE calls # << >>
    <3>1. LibraryReturns(Saved[topsp + EnvSize])
      BY <1>1, <2>1, <2>3, CallerOfLibrary DEF CallTotalArguments
    <3>2. retval' = Saved[topsp + EnvSize]
      BY <3>1 DEF LibraryReturns
    <3>3. QED
      BY <2>1, <2>3, <3>2, CallerOfLibrary
  <2>4. QED
    BY <2>2, <2>3
<1>2. ASSUME CallArgument, ~strayed, totalActuals = 1
      PROVE  LET i == stack[top + 1].val IN
             IF calls = << >> THEN retval' = Nil
             ELSE i < Len(Innermost.args) =>
                    retval' = stack[Innermost.sp + EnvSize + 1 + i]
  <2> DEFINE i == stack[top + 1].val
             x == topsp + EnvSize + 1 + i
  <2>1. Binding /\ LibraryCall(LibArgument)
    BY <1>2 DEF CallArgument, LibraryCall, Executing, Binding, Running
  <2>2. CASE calls = << >>
    <3>1. LibraryReturns(Nil)
      BY <1>2, <2>1, <2>2, CallerOfLibrary DEF CallArgument
    <3>2. QED
      BY <2>2, <3>1 DEF LibraryReturns
  <2>3. CASE calls # << >>
    <3>1. topsp = Innermost.sp /\ topsp # 0 /\ top < topsp
      BY <2>1, <2>3, CallerOfLibrary
    <3>2. /\ top + 1 < StackSize /\ x < StackSize
          /\ LibraryReturns(Saved[x])
      BY <1>2, <3>1 DEF CallArgument, ArgumentInStack, ArgumentIndex
    <3>3. top \in Nat /\ topsp \in Nat /\ i \in Nat
      <4>1. top + 1 \in 0 .. StackSize - 1
        BY <3>2 DEF TypeOK
      <4>2. stack[top + 1] \in Cell
        BY <4>1 DEF TypeOK
      <4>3. QED
        BY <4>2, CellFields DEF TypeOK
    <3>4. retval' = Saved[x]
      BY <3>2 DEF LibraryReturns
    <3>5. Saved[x] = stack[x]
      <4> HIDE DEF i
      <4>1. x \in 0 .. StackSize - 1 /\ x > top
        BY <3>1, <3>2, <3>3
      <4> HIDE DEF x
      <4>2. QED
        BY <2>1, <4>1, CallerOfLibrary
    <3>6. QED
      BY <2>3, <3>1, <3>4, <3>5
  <2>4. QED
    BY <2>2, <2>3
<1>3. QED
  BY <1>1, <1>2 DEF Reflection

(* totalarguments() and argument(i) answer about the call of the function  *)
(* they are called from, in every frame of every program, and answer nil   *)
(* in the main program.                                                    *)
THEOREM ReflectionIsSound == Spec => ReflectionSeesCaller
<1>1. TypeOK /\ FrameInv /\ [Next]_vars => [Reflection]_vars
  BY ReflectionStep
<1>2. QED
  BY <1>1, FrameInvariant, PTL DEF Spec, ReflectionSeesCaller, Reflection

-----------------------------------------------------------------------------
(* The calling sequence implements CallStack *)

(* What the machine shows of itself to CallStack. *)
FrameOf(t, sp, n, p) ==
  [top   |-> IF p \in Functions THEN Wrap(t - LocalSize[p]) ELSE t + n,
   topsp |-> IF p \in Functions THEN t ELSE sp,
   pc    |-> p]

Shown(c)    == [top |-> c.top, topsp |-> c.topsp, pc |-> c.pc]
SavedOf(cs) == [k \in 1 .. Len(cs) |-> Shown(cs[k])]

FrameShown == FrameOf(top, topsp, totalActuals, pc)
SavedShown == SavedOf(calls)

LEMMA FrameOfType ==
  ASSUME NEW t \in Nat, NEW sp \in Nat, NEW n \in Nat, NEW p \in Nat
  PROVE  FrameOf(t, sp, n, p) \in CS!Frame
<1>1. p \in Functions => Wrap(t - LocalSize[p]) \in Nat
  BY SizesAreNat DEF Wrap
<1>2. QED
  BY <1>1 DEF FrameOf, CS!Frame

LEMMA SavedOfType ==
  ASSUME NEW cs \in Seq(Call)
  PROVE  /\ SavedOf(cs) \in Seq(CS!Frame) /\ Len(SavedOf(cs)) = Len(cs)
         /\ \A k \in 1 .. Len(cs) : SavedOf(cs)[k] = Shown(cs[k])
<1>l. PICK L \in Nat : L = Len(cs)
  OBVIOUS
<1>1. \A k \in 1 .. L : cs[k] \in Call
  BY <1>l
<1>2. \A k \in 1 .. L : Shown(cs[k]) \in CS!Frame
  BY <1>1 DEF Shown, Call, CS!Frame
<1>3. SavedOf(cs) \in [1 .. L -> CS!Frame]
  BY <1>l, <1>2 DEF SavedOf
<1>4. SavedOf(cs) \in Seq(CS!Frame)
  BY <1>3, SeqDef
<1>5. Len(SavedOf(cs)) = L
  BY <1>3, <1>4, LenProperties
<1>6. QED
  BY <1>l, <1>4, <1>5 DEF SavedOf

(* A step that leaves the frame where it is and the calls as they are.     *)
LEMMA WorkShown ==
  ASSUME FrameShown'.top = FrameShown.top, FrameShown'.topsp = FrameShown.topsp,
         UNCHANGED calls, Binding'
  PROVE  CS!Work
<1>1. FrameShown' = [FrameShown EXCEPT !.pc = FrameShown'.pc]
  BY DEF FrameShown, FrameOf
<1>2. SavedShown' = SavedShown
  BY DEF SavedShown
<1>3. QED
  BY <1>1, <1>2 DEF CS!Work, FrameShown, FrameOf, SavedShown, SavedOf, Shown,
     Binding, Entering

(* A call of a user function. *)
LEMMA CallShown ==
  ASSUME TypeOK, TypeOK', FrameInv, Binding, Binding', Executing("call"),
         NEW f, NEW t, NEW args,
         calls' = Append(calls, NewCall(f, t, args))
  PROVE  CS!Call
<1> DEFINE new == NewCall(f, t, args)
<1>l. PICK L \in Nat : L = Len(calls)
  BY DEF TypeOK
<1>1. ~Entering
  BY FreeCell DEF FrameInv, EnvironmentsIntact, CallsIntact, Binding
<1>2. /\ Len(calls') = L + 1 /\ calls'[L + 1] = new
      /\ \A k \in 1 .. L : calls'[k] = calls[k]
  BY <1>l DEF TypeOK
<1>3. Shown(new) = [FrameShown EXCEPT !.pc = FrameShown.pc + 1]
  BY <1>1 DEF NewCall, Shown, FrameShown, FrameOf, Entering
<1> HIDE DEF new
<1>4. /\ FrameShown' \in CS!Frame
      /\ SavedShown \in Seq(CS!Frame) /\ Len(SavedShown) = L
      /\ \A k \in 1 .. L : SavedShown[k] = Shown(calls[k])
  BY <1>l, FrameOfType, SavedOfType DEF FrameShown, SavedShown, TypeOK
<1>5. /\ SavedShown' \in Seq(CS!Frame) /\ Len(SavedShown') = L + 1
      /\ \A k \in 1 .. L + 1 : SavedShown'[k] = Shown(calls'[k])
  BY <1>2, SavedOfType DEF SavedShown, TypeOK
<1>6. Shown(new) \in CS!Frame
  BY <1>2, <1>5, ElementOfSeq
<1>7. SavedShown' = Append(SavedShown, Shown(new))
  <2> DEFINE a == Append(SavedShown, Shown(new))
  <2>1. /\ a \in Seq(CS!Frame) /\ Len(a) = L + 1 /\ a[L + 1] = Shown(new)
        /\ \A k \in 1 .. L : a[k] = Shown(calls[k])
    BY <1>4, <1>6
  <2> HIDE DEF a
  <2>2. \A k \in 1 .. L + 1 : SavedShown'[k] = a[k]
    <3>1. \A k \in 1 .. L + 1 : k = L + 1 \/ k \in 1 .. L
      OBVIOUS
    <3>2. QED
      BY <1>2, <1>5, <2>1, <3>1
  <2>3. SavedShown' = a
    BY <1>5, <2>1, <2>2, SeqEqual
  <2>4. QED
    BY <2>3 DEF a
<1>8. QED
  BY <1>3, <1>4, <1>7 DEF CS!Call, FrameShown, FrameOf, SavedShown, SavedOf,
     Shown, Binding, Entering

(* A return. *)
LEMMA ReturnShown ==
  ASSUME TypeOK, TypeOK', FrameInv, Binding, Binding', FuncExit
  PROVE  CS!Return
<1>l. PICK L \in Nat : L = Len(calls)
  BY DEF TypeOK
<1>1. L \in 1 .. L /\ Innermost = calls[L] /\ totalActuals' = 0
  BY <1>l, ReturnRestores DEF Innermost, FuncExit
<1>2. FrameShown' = Shown(calls[L])
  <2>1. top' = calls[L].top /\ topsp' = calls[L].topsp /\ pc' = calls[L].pc
        /\ ~Entering'
    BY <1>1, ReturnRestores DEF Entering
  <2>2. top' + totalActuals' = calls[L].top
    BY <1>1, <2>1 DEF TypeOK
  <2>3. QED
    BY <2>1, <2>2 DEF FrameShown, FrameOf, Shown, Entering
<1>3. /\ SavedShown \in Seq(CS!Frame) /\ Len(SavedShown) = L
      /\ \A k \in 1 .. L : SavedShown[k] = Shown(calls[k])
  BY <1>l, SavedOfType DEF SavedShown, TypeOK
<1>4. /\ Len(calls') = L - 1 /\ L - 1 \in Nat
      /\ \A k \in 1 .. L - 1 : calls'[k] = calls[k] /\ k \in 1 .. L
  BY <1>1, <1>l DEF FuncExit, TypeOK
<1>5. /\ SavedShown' \in Seq(CS!Frame) /\ Len(SavedShown') = L - 1
      /\ \A k \in 1 .. L - 1 : SavedShown'[k] = Shown(calls'[k])
  BY <1>4, SavedOfType DEF SavedShown, TypeOK
<1>6. SavedShown' = SubSeq(SavedShown, 1, L - 1)
  <2> DEFINE a == SubSeq(SavedShown, 1, L - 1)
  <2>1. \A k \in 1 .. L - 1 : SavedShown[k] \in CS!Frame
    BY <1>3, <1>4, ElementOfSeq
  <2>2. /\ a \in Seq(CS!Frame) /\ Len(a) = L - 1
        /\ \A k \in 1 .. L - 1 : a[k] = SavedShown[k]
    <3>1. /\ a \in Seq(CS!Frame)
          /\ Len(a) = IF 1 <= L - 1 THEN (L - 1) - 1 + 1 ELSE 0
          /\ \A k \in 1 .. (L - 1) - 1 + 1 : a[k] = SavedShown[1 + k - 1]
      BY <1>4, <2>1, SubSeqProperties
    <3> HIDE DEF a
    <3>2. QED
      BY <1>4, <3>1
  <2> HIDE DEF a
  <2>3. \A k \in 1 .. L - 1 : SavedShown'[k] = a[k]
    BY <1>3, <1>4, <1>5, <2>2
  <2>4. SavedShown' = a
    BY <1>5, <2>2, <2>3, SeqEqual
  <2>5. QED
    BY <2>4 DEF a
<1>7. SavedShown # << >> /\ FrameShown' = SavedShown[Len(SavedShown)]
  BY <1>1, <1>2, <1>3
<1>8. QED
  BY <1>3, <1>6, <1>7 DEF CS!Return, FrameShown, FrameOf, SavedShown, SavedOf,
     Shown, Binding, Entering

(* Every step of the machine is one of CallStack, or none. *)
LEMMA StepShown ==
  TypeOK /\ TypeOK' /\ FrameInv /\ FrameInv' /\ [Next]_vars => [CS!Next]_CS!vars
<1> SUFFICES ASSUME TypeOK, TypeOK', FrameInv, FrameInv', [Next]_vars
             PROVE  [CS!Next]_CS!vars
  OBVIOUS
<1>1. CASE ~Binding'
  BY <1>1 DEF CS!Next, CS!Stop, Binding
<1>2. CASE UNCHANGED vars
  BY <1>2 DEF vars, CS!vars, Running, Entering
<1>3. CASE Next /\ Binding' /\ ~UNCHANGED vars
  <2>1. Binding
    <3>1. ~strayed
      BY <1>3, StrayedForGood DEF Binding
    <3>2. Running
      BY <1>3 DEF Running, Next, Assign, Compute, Effect, Jump,
       BranchNotTaken, TypeError, PushArg, CallUser, CallFunctor, CallFails,
       FuncEnter, FuncExit, CallTotalArguments, CallArgument, CallOther,
       LibraryCall, LibraryOverflow, EndOfCode, WildAccess,
       AssertFails, Stop, Stopped, Executing
    <3>3. QED
      BY <3>1, <3>2 DEF Binding
  <2>2. SUFFICES ASSUME Binding, Binding'
                 PROVE  CS!Work \/ CS!Call \/ CS!Return
    BY <1>3, <2>1 DEF CS!Next, Binding
  (* Instructions that are no call stay in the code of their function. *)
  <2>3. CASE Assign \/ Compute \/ Effect \/ Jump \/ BranchNotTaken
    <3>1. /\ pc \in Address
          /\ Code[pc].opcode \in {"assign", "data", "effect", "jump", "branch"}
          /\ UNCHANGED <<top, topsp, totalActuals, calls>>
      BY <2>3 DEF Assign, Compute, Effect, Jump, BranchNotTaken, Executing
    <3>2. ~Entering
      BY <3>1, WellFormedFacts DEF Entering
    <3>3. StaysIn(Owner[pc], pc')
      BY <2>3, <3>1, WellFormedFacts
      DEF Assign, Compute, Effect, Jump, BranchNotTaken, Executing
    <3>4. ~Entering'
      BY <3>3, StaysInFacts DEF Entering
    <3>5. QED
      BY <2>2, <3>1, <3>2, <3>4, WorkShown
      DEF FrameShown, FrameOf, Entering
  <2>4. CASE PushArg
    <3>1. /\ Executing("pusharg") /\ Code[pc].opcode = "pusharg" /\ pc \in Address
      BY <2>4 DEF PushArg, Executing
    <3>2. ~Entering /\ top \in 0 .. StackSize - 1
      BY <2>2, <3>1, FreeCell DEF FrameInv, EnvironmentsIntact, CallsIntact, Binding
    <3>3. 1 <= top /\ top' = top - 1
      BY <2>2, <2>4, <3>2, SizeFacts DEF PushArg, Below, StatusBelow, Binding, Running
    <3>4. ~Entering'
      BY <2>4, <3>1, WellFormedFacts, StaysInFacts DEF Entering, PushArg
    <3>5. top' + totalActuals' = top + totalActuals
      <4>1. totalActuals' = totalActuals + 1 /\ top \in Nat /\ totalActuals \in Nat
        BY <2>4 DEF PushArg, TypeOK
      <4>2. QED
        BY <3>3, <4>1
    <3>6. UNCHANGED <<topsp, calls>>
      BY <2>4 DEF PushArg
    <3>7. QED
      BY <2>2, <3>2, <3>4, <3>5, <3>6, WorkShown
      DEF FrameShown, FrameOf, Entering
  <2>5. CASE CallUser
    BY <2>2, <2>5, CallShown DEF CallUser
  <2>6. CASE CallFunctor
    <3>1. PICK f \in Functions :
            calls' = Append(calls, NewCall(f, Below(top, 1), pending'))
      BY <2>2, <2>6 DEF CallFunctor, Binding, Running
    <3>2. QED
      BY <2>2, <2>6, <3>1, CallShown DEF CallFunctor
  (* The frame a call has promised is the one that its function takes. *)
  <2>7. CASE FuncEnter
    <3>1. pc \in Address /\ Code[pc].opcode = "funcenter"
      BY <2>7 DEF FuncEnter, Executing
    <3>2. Entering /\ ~Entering'
      BY <2>7, <3>1, WellFormedFacts, StaysInFacts DEF Entering, FuncEnter
    <3>3. /\ top' = Wrap(top - LocalSize[pc]) /\ totalActuals' = 0 /\ topsp' = top
          /\ UNCHANGED calls
      BY <2>7 DEF FuncEnter
    <3>4. top' + totalActuals' = Wrap(top - LocalSize[pc])
      BY <3>3 DEF TypeOK
    <3>5. QED
      BY <2>2, <3>2, <3>3, <3>4, WorkShown
      DEF FrameShown, FrameOf, Entering
  <2>8. CASE FuncExit
    BY <2>2, <2>8, ReturnShown
  <2>9. CASE CallTotalArguments \/ CallArgument \/ CallOther
    <3>1. PICK v : LibraryReturns(v)
      BY <2>9 DEF CallTotalArguments, CallArgument, CallOther
    <3>2. Executing("call") /\ EnvSize <= top
      BY <2>9, SizeFacts DEF CallTotalArguments, CallArgument, CallOther,
         LibraryCall, TypeOK
    <3>3. /\ ~Entering /\ ~Entering' /\ topsp' = topsp
          /\ top' = top + totalActuals
      BY <2>2, <3>1, <3>2, LibraryRestores DEF Entering
    <3>4. totalActuals' = 0 /\ UNCHANGED calls
      BY <3>1 DEF LibraryReturns
    <3>5. top' + totalActuals' = top + totalActuals
      BY <3>3, <3>4 DEF TypeOK
    <3>6. QED
      BY <2>2, <3>3, <3>4, <3>5, WorkShown
      DEF FrameShown, FrameOf, Entering
  <2>10. CASE TypeError \/ CallFails \/ LibraryOverflow \/ EndOfCode \/ WildAccess
              \/ AssertFails \/ Stopped
    <3>1. ~Running' \/ ~Running
      BY <2>10 DEF TypeError, CallFails, LibraryOverflow, EndOfCode, WildAccess,
         AssertFails, Stop, Stopped, Running
    <3>2. QED
      BY <2>2, <3>1 DEF Binding
  <2>11. QED
    BY <1>3, <2>3, <2>4, <2>5, <2>6, <2>7, <2>8, <2>9, <2>10 DEF Next
<1>4. QED
  BY <1>1, <1>2, <1>3

LEMMA InitShown == Init => CS!Init
<1> SUFFICES ASSUME Init PROVE CS!Init
  OBVIOUS
<1>1. FrameShown \in CS!Frame
  BY TypeInit, FrameOfType DEF FrameShown, TypeOK
<1>2. calls = << >> /\ Running /\ ~strayed
  BY DEF Init, Running
<1>3. SavedShown = << >>
  BY <1>2 DEF SavedShown, SavedOf
<1>4. QED
  BY <1>1, <1>2, <1>3
  DEF CS!Init, FrameShown, FrameOf, SavedShown, SavedOf, Shown, Entering

(* Calls, on any stack, keep the promise of CallStack: a function that is  *)
(* returned to finds its own frame, and goes on behind its call.           *)
THEOREM CallsAreImplemented == Spec => ImplementsCallStack
<1>1. Init => CS!Init
  BY InitShown
<1>2. TypeOK /\ TypeOK' /\ FrameInv /\ FrameInv' /\ [Next]_vars
        => [CS!Next]_CS!vars
  BY StepShown
<1>3. QED
  BY <1>1, <1>2, FrameInvariant, PTL DEF Spec, ImplementsCallStack, CS!Spec

-----------------------------------------------------------------------------
(* The assertion of avm_get_envvalue *)

(* Only a program with globals calls anything: the main program keeps what *)
(* a call returns in one.                                                  *)
CallersHaveGlobals == Binding /\ calls # << >> => 1 <= Globals

LEMMA CallersHaveGlobalsStep ==
  TypeOK /\ FrameInv /\ CallersHaveGlobals /\ [Next]_vars => CallersHaveGlobals'
<1> SUFFICES ASSUME TypeOK, FrameInv, CallersHaveGlobals, [Next]_vars,
                    Binding', calls' # << >>
             PROVE  1 <= Globals
  BY DEF CallersHaveGlobals
<1>1. ~strayed
  BY StrayedForGood DEF Binding
<1>2. CASE UNCHANGED calls
  <2>1. CASE Running
    BY <1>1, <1>2, <2>1 DEF CallersHaveGlobals, Binding
  <2>2. CASE ~Running
    BY <2>2, <1>2 DEF Next, vars, Running, Binding, Assign, Compute, Effect, Jump,
       BranchNotTaken, TypeError, PushArg, CallUser, CallFunctor, CallFails,
       FuncEnter, FuncExit, CallTotalArguments, CallArgument, CallOther,
       LibraryCall, LibraryOverflow, EndOfCode, WildAccess,
       AssertFails, Stop, Stopped, Executing
  <2>3. QED
    BY <2>1, <2>2
<1>3. CASE CallUser \/ CallFunctor
  <2>1. Executing("call") /\ Binding
    BY <1>1, <1>3 DEF CallUser, CallFunctor, Executing, Binding, Running
  <2>2. CASE calls # << >>
    BY <2>1, <2>2 DEF CallersHaveGlobals
  <2>3. CASE calls = << >>
    <3>1. pc \in Address /\ Code[pc].opcode = "call" /\ Owner[pc] = Main
      BY <2>1, <2>3, FreeCell
      DEF Executing, FrameInv, EnvironmentsIntact, CallsIntact, Binding
    <3>2. WellFormedAt(pc)
      BY <3>1, CodeAssumption DEF WellFormedCode
    <3>3. QED
      BY <3>1, <3>2 DEF WellFormedAt
  <2>4. QED
    BY <2>2, <2>3
<1>4. CASE FuncExit
  <2>1. Binding
    BY <1>1, <1>4 DEF FuncExit, Executing, Binding, Running
  <2>2. QED
    BY <1>4, <2>1, ReturnRestores DEF CallersHaveGlobals
<1>5. QED
  <2>1. CASE CallTotalArguments \/ CallArgument \/ CallOther
    BY <2>1, <1>2 DEF CallTotalArguments, CallArgument, CallOther, LibraryReturns
  <2>2. QED
    BY <1>2, <1>3, <1>4, <2>1 DEF Next, vars, Assign, Compute, Effect, Jump,
       BranchNotTaken, TypeError, PushArg, CallFails, FuncEnter, LibraryOverflow,
       EndOfCode, WildAccess, AssertFails, Stop, Stopped

(* As long as no function has strayed, a function that is returned from    *)
(* has its environment: the assertion of avm_get_envvalue holds, and the   *)
(* cells that avm_memcellclear clears lie in the stack.                    *)
THEOREM EnvAssertUnlessStrayed == Spec => [](~strayed => EnvAssertHolds)
<1>1. Init => CallersHaveGlobals
  BY DEF Init, CallersHaveGlobals
<1>2. TypeOK /\ FrameInv /\ CallersHaveGlobals => (~strayed => EnvAssertHolds)
  <2> SUFFICES ASSUME TypeOK, FrameInv, CallersHaveGlobals, ~strayed,
                      Executing("funcexit")
               PROVE  ReturnInStack(top, topsp) /\ EnvReadable(stack, topsp)
    BY DEF EnvAssertHolds
  <2> DEFINE c == Innermost
  <2>1. Binding /\ pc \in Address /\ Code[pc].opcode = "funcexit"
    BY DEF Binding, Running, Executing
  <2>2. ~Entering /\ Owner[pc] # Main
    BY <2>1, WellFormedFacts DEF Entering
  <2>3. calls # << >> /\ topsp = c.sp
    BY <2>1, <2>2, RegisterFacts
  <2>4. /\ stack[c.sp + 3] = Number(c.pc) /\ stack[c.sp + 2] = Number(c.top)
        /\ stack[c.sp + 1] = Number(c.topsp)
    BY <2>1, <2>3, InnermostFacts DEF CallsIntact, FrameIntact, Innermost
  <2>5. PICK n \in Nat : /\ c.sp \in Nat /\ c.top \in Nat /\ c.top <= MainTop
                         /\ c.sp + 4 + n = c.top
    BY <2>1, <2>3, InnermostFacts
  <2>6. 1 <= Globals
    BY <2>1, <2>3 DEF CallersHaveGlobals
  <2> HIDE DEF c
  <2>7. c.top + 1 < StackSize /\ c.sp + 3 < StackSize
    BY <2>5, <2>6, SizesAssumption DEF MainTop
  <2>8. EnvReadable(stack, topsp)
    BY <2>3, <2>4 DEF EnvReadable, Number
  <2>9. stack[topsp + 2].val = c.top
    BY <2>3, <2>4 DEF Number
  <2>10. QED
    BY <2>3, <2>7, <2>8, <2>9 DEF ReturnInStack
<1>3. QED
  BY <1>1, <1>2, CallersHaveGlobalsStep, FrameInvariant, PTL DEF Spec

=============================================================================
