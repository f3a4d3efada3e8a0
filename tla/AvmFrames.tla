----------------------------- MODULE AvmFrames -----------------------------
(***************************************************************************)
(* The stack machine of avm.c and dispatcher.c: the cells of stack[], the  *)
(* registers top, topsp, pc, totalActuals and retval, and the calling      *)
(* sequence that user functions, functors and library functions share.     *)
(*                                                                         *)
(* The stack grows towards 0.  The globals lie at its high end; a frame is,*)
(* from its highest cell down, the actuals (the first one lowest), the     *)
(* four cells of the saved environment, and the locals:                    *)
(*                                                                         *)
(*   topsp+5 ..   actuals          topsp+4  their number                   *)
(*   topsp+3      return address   topsp+2  the caller's top               *)
(*   topsp+1      caller's topsp   .. topsp locals, topsp - i the i-th     *)
(*                                                                         *)
(* calls, pending and strayed are history variables: what the program has  *)
(* asked for, which the machine itself only keeps in its cells.            *)
(***************************************************************************)
EXTENDS AvmCode, Sequences

VARIABLES
  stack,         \* stack[0 .. AVM_STACKSIZE - 1]
  top,           \* the next free cell
  topsp,         \* the base of the frame that runs; 0 in the main program
  pc,
  totalActuals,  \* actuals pushed for the call that is being prepared
  retval,
  status,        \* "running", or how the machine stopped, see Statuses
  calls,         \* the user functions that run, innermost last
  pending,       \* the actuals pushed for the next call, in that order
  strayed        \* a function has assigned to a formal it got no actual for

vars == <<stack, top, topsp, pc, totalActuals, retval, status,
          calls, pending, strayed>>

EnvSize == 4                 \* AVM_STACKENV_SIZE
MainTop == StackSize - Globals - 1

(* finished: executionFinished = 1; aborted: an assert has failed;         *)
(* wild: stack[] was indexed outside of its bounds.                        *)
Statuses == {"running", "finished", "aborted", "wild"}

Call == [fn : Functions, sp : Nat, top : Nat, topsp : Nat, pc : Nat,
         args : Seq(Cell)]

TypeOK ==
  /\ stack \in [0 .. StackSize - 1 -> Cell]
  /\ top \in Nat /\ topsp \in Nat /\ pc \in Nat /\ totalActuals \in Nat
  /\ retval \in Cell
  /\ status \in Statuses
  /\ calls \in Seq(Call) /\ pending \in Seq(Cell)
  /\ strayed \in BOOLEAN

Init ==
  /\ stack = [k \in 0 .. StackSize - 1 |-> Undef]
  /\ top = MainTop
  /\ topsp = 0 /\ pc = 0 /\ totalActuals = 0
  /\ retval = Number(0)
  /\ status = "running"
  /\ calls = << >> /\ pending = << >> /\ strayed = FALSE

-----------------------------------------------------------------------------
(* Operands *)

(* A wrong Wrap: indices are not unsigned. *)
WrapForgotten(n) == n

Wrap(n) == IF n < 0 THEN n + Word ELSE n

(* A wrong CellIndex: the first formal is taken for the number of actuals. *)
CellIndexOneLow(arg) ==
  CASE arg.type = "global_a" -> StackSize - 1 - arg.val
    [] arg.type = "local_a"  -> Wrap(topsp - arg.val)
    [] arg.type = "formal_a" -> topsp + EnvSize + arg.val

CellIndex(arg) ==
  CASE arg.type = "global_a" -> StackSize - 1 - arg.val
    [] arg.type = "local_a"  -> Wrap(topsp - arg.val)
    [] arg.type = "formal_a" -> topsp + EnvSize + 1 + arg.val

ImmediateType ==
  [number_a |-> "number_m", string_a |-> "string_m", bool_a |-> "bool_m",
   nil_a |-> "nil_m", userfunc_a |-> "userfunc_m", libfunc_a |-> "libfunc_m"]

Value(arg) ==
  IF arg.type \in StackArgs THEN stack[CellIndex(arg)]
  ELSE IF arg.type = "retval_a" THEN retval
  ELSE [type |-> ImmediateType[arg.type], val |-> arg.val]

(* The cell that lv points to receives c. *)
Store(arg, c) ==
  IF arg.type = "retval_a"
  THEN retval' = c /\ UNCHANGED stack
  ELSE stack' = [stack EXCEPT ![CellIndex(arg)] = c] /\ UNCHANGED retval

Innermost == calls[Len(calls)]

(* An assignment to a formal lands beyond the actuals of the call. *)
Missing(arg) == arg.type = "formal_a" /\
                (calls = << >> \/ arg.val >= Len(Innermost.args))

Operands(i) ==
  CASE i.opcode \in {"assign", "data", "effect"} -> {i.result, i.arg1}
    [] i.opcode \in {"pusharg", "call"}          -> {i.result}
    [] i.opcode = "branch"                       -> {i.arg1}
    [] OTHER                                     -> {}

(* The cells an instruction reaches through its operands, and through top. *)
Reached(i) ==
  {CellIndex(a) : a \in {a \in Operands(i) : a.type \in StackArgs}}
    \cup (IF i.opcode \in {"pusharg", "call"} THEN {top} ELSE {})

InStack(i) == \A k \in Reached(i) : k < StackSize

Executing(op) ==
  /\ status = "running" /\ pc \in Address
  /\ Code[pc].opcode = op
  /\ InStack(Code[pc])

Running == status = "running"

-----------------------------------------------------------------------------
(* Instructions that stay in their function *)

(* A return without a value leaves arg1 a label, which is no operand.      *)
Assign ==
  /\ Executing("assign") /\ Code[pc].arg1.type # "label_a"
  /\ Store(Code[pc].result, Value(Code[pc].arg1))
  /\ strayed' = (strayed \/ Missing(Code[pc].result))
  /\ pc' = pc + 1
  /\ UNCHANGED <<top, topsp, totalActuals, status, calls, pending>>

Compute ==
  /\ Executing("data")
  /\ \E c \in DataCells : Store(Code[pc].result, c)
  /\ strayed' = (strayed \/ Missing(Code[pc].result))
  /\ pc' = pc + 1
  /\ UNCHANGED <<top, topsp, totalActuals, status, calls, pending>>

Effect ==
  /\ Executing("effect")
  /\ pc' = pc + 1
  /\ UNCHANGED <<stack, top, topsp, totalActuals, retval, status, calls,
                 pending, strayed>>

(* execute_cycle adds 1 to a pc that the instruction has not changed. *)
Jump ==
  /\ Executing("jump") \/ Executing("branch")
  /\ pc' = IF Code[pc].result.val = pc THEN pc + 1 ELSE Code[pc].result.val
  /\ UNCHANGED <<stack, top, topsp, totalActuals, retval, status, calls,
                 pending, strayed>>

BranchNotTaken ==
  /\ Executing("branch")
  /\ pc' = pc + 1
  /\ UNCHANGED <<stack, top, topsp, totalActuals, retval, status, calls,
                 pending, strayed>>

(* A type error stops the machine; VM_TABLE_GET_ELEM has stored nil before *)
(* it looks at the type of the table, VM_DIV stores what it has computed.  *)
TypeError ==
  /\ Executing("data") \/ Executing("effect") \/ Executing("branch")
  /\ status' = "finished"
  /\ \/ /\ Code[pc].opcode = "data"
        /\ \E c \in DataCells \cup {Nil} : Store(Code[pc].result, c)
     \/ UNCHANGED <<stack, retval>>
  /\ strayed' = (strayed \/ (Code[pc].opcode = "data" /\ Missing(Code[pc].result)))
  /\ pc' = pc + 1
  /\ UNCHANGED <<top, topsp, totalActuals, calls, pending>>

EndOfCode ==
  /\ Running /\ pc = CodeSize
  /\ status' = "finished"
  /\ UNCHANGED <<stack, top, topsp, pc, totalActuals, retval, calls, pending,
                 strayed>>

-----------------------------------------------------------------------------
(* Calls *)

(* avm_dec_top, n times: top stays at 0 and the machine is told to stop. *)
Below(t, n) == IF n <= t THEN t - n ELSE 0
StatusBelow(t, n) == IF n <= t THEN "running" ELSE "finished"

(* A wrong PushArg: the actual is stored once top has moved on. *)
PushArgTooLow ==
  /\ Executing("pusharg")
  /\ stack' = [stack EXCEPT ![Below(top, 1)] = Value(Code[pc].result)]
  /\ totalActuals' = totalActuals + 1
  /\ top' = Below(top, 1)
  /\ status' = StatusBelow(top, 1)
  /\ pending' = Append(pending, Value(Code[pc].result))
  /\ pc' = pc + 1
  /\ UNCHANGED <<topsp, retval, calls, strayed>>

PushArg ==
  /\ Executing("pusharg")
  /\ stack' = [stack EXCEPT ![top] = Value(Code[pc].result)]
  /\ totalActuals' = totalActuals + 1
  /\ top' = Below(top, 1)
  /\ status' = StatusBelow(top, 1)
  /\ pending' = Append(pending, Value(Code[pc].result))
  /\ pc' = pc + 1
  /\ UNCHANGED <<topsp, retval, calls, strayed>>

(* A wrong SaveEnvironment: the address of the call itself is saved. *)
SaveEnvironmentOfCall(s, t, n) ==
  [s EXCEPT ![t]           = Number(n),
            ![Below(t, 1)] = Number(pc),
            ![Below(t, 2)] = Number(Below(t, 2) + n + 2),
            ![Below(t, 3)] = Number(topsp)]

(* avm_callsaveenviroment with n actuals; the saved top is computed when   *)
(* two of the four cells have been pushed.                                 *)
SaveEnvironment(s, t, n) ==
  [s EXCEPT ![t]           = Number(n),
            ![Below(t, 1)] = Number(pc + 1),
            ![Below(t, 2)] = Number(Below(t, 2) + n + 2),
            ![Below(t, 3)] = Number(topsp)]

(* The cell is read before the environment is saved: it lies above top.    *)
Callee == Value(Code[pc].result)
NamesLibrary == Callee.type \in {"libfunc_m", "string_m"}

NewCall(f, t, args) ==
  [fn |-> f, sp |-> Below(t, EnvSize), top |-> top + totalActuals,
   topsp |-> topsp, pc |-> pc + 1, args |-> args]

CallUser ==
  /\ Executing("call") /\ Callee.type = "userfunc_m"
  /\ stack' = SaveEnvironment(stack, top, totalActuals)
  /\ top' = Below(top, EnvSize)
  /\ status' = StatusBelow(top, EnvSize)
  /\ pc' = Callee.val
  /\ calls' = Append(calls, NewCall(Callee.val, top, pending))
  /\ UNCHANGED <<topsp, totalActuals, retval, pending, strayed>>

(* A wrong CallFunctor: the table is pushed below the environment. *)
CallFunctorSwapped ==
  /\ Executing("call") /\ Callee.type = "table_m"
  /\ stack' = [SaveEnvironment(stack, top, totalActuals + 1) EXCEPT
                 ![Below(top, EnvSize)] = Callee]
  /\ totalActuals' = totalActuals + 1
  /\ pending' = Append(pending, Callee)
  /\ top' = Below(top, EnvSize + 1)
  /\ \/ \E f \in Functions :
          /\ pc' = f
          /\ status' = StatusBelow(top, EnvSize + 1)
          /\ calls' = Append(calls, NewCall(f, Below(top, 1), pending'))
     \/ pc' = pc + 1 /\ status' = "finished" /\ UNCHANGED calls
  /\ UNCHANGED <<topsp, retval, strayed>>

(* A table is pushed as the last actual, then called through its element   *)
(* "()", if that is a user function.                                       *)
CallFunctor ==
  /\ Executing("call") /\ Callee.type = "table_m"
  /\ stack' = SaveEnvironment([stack EXCEPT ![top] = Callee], Below(top, 1),
                              totalActuals + 1)
  /\ totalActuals' = totalActuals + 1
  /\ pending' = Append(pending, Callee)
  /\ top' = Below(top, EnvSize + 1)
  /\ \/ \E f \in Functions :
          /\ pc' = f
          /\ status' = StatusBelow(top, EnvSize + 1)
          /\ calls' = Append(calls, NewCall(f, Below(top, 1), pending'))
     \/ pc' = pc + 1 /\ status' = "finished" /\ UNCHANGED calls
  /\ UNCHANGED <<topsp, retval, strayed>>

CallFails ==
  /\ Executing("call")
  /\ \/ Callee.type \in {"number_m", "bool_m", "nil_m", "undef_m"}
     \/ NamesLibrary /\ Callee.val >= LibUnknown
  /\ stack' = SaveEnvironment(stack, top, totalActuals)
  /\ top' = Below(top, EnvSize)
  /\ status' = "finished"
  /\ pc' = pc + 1
  /\ UNCHANGED <<topsp, totalActuals, retval, calls, pending, strayed>>

(* A wrong FuncEnter: no cell is kept for the last local. *)
FuncEnterOneShort ==
  /\ Executing("funcenter")
  /\ totalActuals' = 0 /\ pending' = << >>
  /\ topsp' = top
  /\ top' = Wrap(top - (LocalSize[pc] - 1))
  /\ pc' = pc + 1
  /\ UNCHANGED <<stack, retval, status, calls, strayed>>

FuncEnter ==
  /\ Executing("funcenter")
  /\ totalActuals' = 0 /\ pending' = << >>
  /\ topsp' = top
  /\ top' = Wrap(top - LocalSize[pc])
  /\ pc' = pc + 1
  /\ UNCHANGED <<stack, retval, status, calls, strayed>>

-----------------------------------------------------------------------------
(* Return *)

(* avm_memcellclear, which leaves a table cell what it is. *)
Cleared(c) == IF c.type = "table_m" THEN c ELSE Undef

(* execute_funcexit from the registers t (top) and sp (topsp): the cells   *)
(* above t, up to and including the one above the restored top.            *)
ReturnSequence(s, t, sp) ==
  LET newTop == s[sp + 2].val IN
  [top   |-> newTop,
   pc    |-> s[sp + 3].val,
   topsp |-> s[sp + 1].val,
   stack |-> [k \in DOMAIN s |->
                IF t < k /\ k <= newTop + 1 THEN Cleared(s[k]) ELSE s[k]]]

(* The assertion of avm_get_envvalue for the three cells a return reads. *)
EnvReadable(s, sp) == \A k \in 1 .. 3 : s[sp + k].type = "number_m"

ReturnInStack(t, sp) ==
  /\ sp + 3 < StackSize
  /\ EnvReadable(stack, sp) /\ t <= stack[sp + 2].val =>
       stack[sp + 2].val + 1 < StackSize

(* A wrong FuncExit: one cell too many is cleared. *)
FuncExitClearsMore ==
  /\ Executing("funcexit")
  /\ ReturnInStack(top, topsp) /\ EnvReadable(stack, topsp)
  /\ LET r == ReturnSequence(stack, top, topsp) IN
       /\ stack' = [r.stack EXCEPT ![r.top + 2] = Cleared(@)]
       /\ top' = r.top /\ topsp' = r.topsp /\ pc' = r.pc
  /\ calls' = SubSeq(calls, 1, Len(calls) - 1)
  /\ UNCHANGED <<totalActuals, retval, status, pending, strayed>>

(* Another: the return address is read once topsp has been restored. *)
FuncExitReadsLate ==
  /\ Executing("funcexit")
  /\ ReturnInStack(top, topsp) /\ EnvReadable(stack, topsp)
  /\ LET r == ReturnSequence(stack, top, topsp) IN
       /\ stack' = r.stack /\ top' = r.top /\ topsp' = r.topsp
       /\ pc' = stack[r.topsp + 3].val
  /\ calls' = SubSeq(calls, 1, Len(calls) - 1)
  /\ UNCHANGED <<totalActuals, retval, status, pending, strayed>>

FuncExit ==
  /\ Executing("funcexit")
  /\ ReturnInStack(top, topsp) /\ EnvReadable(stack, topsp)
  /\ LET r == ReturnSequence(stack, top, topsp) IN
       /\ stack' = r.stack /\ top' = r.top /\ topsp' = r.topsp
       /\ pc' = IF r.pc = pc THEN pc + 1 ELSE r.pc
  /\ calls' = SubSeq(calls, 1, Len(calls) - 1)
  /\ UNCHANGED <<totalActuals, retval, status, pending, strayed>>

(* A wrong LibraryReturns: the number of actuals is not reset. *)
LibraryKeepsActuals(c) ==
  LET sp == top - EnvSize
      r  == ReturnSequence(SaveEnvironment(stack, top, totalActuals), sp, sp)
  IN /\ retval' = c
     /\ stack' = r.stack /\ top' = r.top /\ topsp' = r.topsp /\ pc' = r.pc
     /\ UNCHANGED <<totalActuals, pending, status, calls, strayed>>

(* avm_calllibfunc once the environment fits: the function runs in a frame *)
(* without locals, leaves c in retval and returns at once.                 *)
LibraryReturns(c) ==
  LET sp == top - EnvSize
      r  == ReturnSequence(SaveEnvironment(stack, top, totalActuals), sp, sp)
  IN /\ retval' = c
     /\ stack' = r.stack /\ top' = r.top /\ topsp' = r.topsp /\ pc' = r.pc
     /\ totalActuals' = 0 /\ pending' = << >>
     /\ UNCHANGED <<status, calls, strayed>>

(* An unknown name is looked up at whatever index is in the register: it   *)
(* calls any library function, or fails, or jumps anywhere.                *)
LibraryCall(f) ==
  /\ Executing("call") /\ NamesLibrary
  /\ Callee.val = f \/ Callee.val >= LibUnknown
  /\ top >= EnvSize

(* A wrong totalarguments(): it counts its own actuals. *)
CallTotalOfItself ==
  /\ LibraryCall(LibTotalArguments)
  /\ IF topsp = 0 THEN LibraryReturns(Nil)
     ELSE LibraryReturns(Number(totalActuals))

(* The stack that a library function sees. *)
Saved == SaveEnvironment(stack, top, totalActuals)

(* The number of actuals of the caller: topsp is the base of its frame.    *)
CallTotalArguments ==
  /\ LibraryCall(LibTotalArguments)
  /\ IF topsp = 0 THEN LibraryReturns(Nil)
     ELSE /\ topsp + EnvSize < StackSize
          /\ Saved[topsp + EnvSize].type = "number_m"
          /\ LibraryReturns(Saved[topsp + EnvSize])

(* The caller's actual whose number is the one actual of argument().       *)
ArgumentIndex == topsp + EnvSize + 1 + stack[top + 1].val
ArgumentInStack ==
  /\ top + 1 < StackSize
  /\ stack[top + 1].type = "number_m" => ArgumentIndex < StackSize

CallArgument ==
  /\ LibraryCall(LibArgument)
  /\ IF topsp = 0 \/ totalActuals # 1 THEN LibraryReturns(Nil)
     ELSE /\ ArgumentInStack /\ stack[top + 1].type = "number_m"
          /\ LibraryReturns(Saved[ArgumentIndex])

(* The others yield a value of their own, or leave retval as it is (print, *)
(* input with arguments, sqrt with a wrong number of them).                *)
CallOther ==
  /\ LibraryCall(LibOther)
  /\ \E c \in DataCells \cup {retval} : LibraryReturns(c)

(* The environment does not fit: avm_dec_top has told the machine to stop, *)
(* yet the library function still runs, on the frame that begins at 0, and *)
(* fails the assertion of avm_get_envvalue or leaves something in retval.  *)
LibraryOverflow ==
  /\ Executing("call") /\ top < EnvSize
  /\ NamesLibrary
  /\ stack' = Saved
  /\ top' = 0 /\ topsp' = 0 /\ totalActuals' = 0 /\ pending' = << >>
  /\ retval' \in DataCells \cup {retval}
  /\ status' \in {"finished", "aborted"}
  /\ pc' = pc + 1
  /\ UNCHANGED <<calls, strayed>>

-----------------------------------------------------------------------------
(* The machine stops outside of its own rules: with an access outside of   *)
(* stack[] or libFuncs[], or with a failed assertion.                      *)

Stop(how) ==
  /\ Running /\ status' = how
  /\ UNCHANGED <<stack, top, topsp, pc, totalActuals, retval, calls, pending,
                 strayed>>

WildAccess ==
  /\ \/ pc \in Address /\ ~InStack(Code[pc])
     \/ Executing("call") /\ NamesLibrary /\ Callee.val >= LibUnknown
     \/ Executing("funcexit") /\ ~ReturnInStack(top, topsp)
     \/ /\ LibraryCall(LibTotalArguments) /\ topsp # 0
        /\ topsp + EnvSize >= StackSize
     \/ /\ LibraryCall(LibArgument) /\ topsp # 0 /\ totalActuals = 1
        /\ ~ArgumentInStack
  /\ Stop("wild")

AssertFails ==
  /\ \/ pc > CodeSize
     \* a return without a value; an index that is nil, a modulo by zero; an
     \* actual of the wrong type for a library function
     \/ Executing("assign") /\ Code[pc].arg1.type = "label_a"
     \/ Executing("data") \/ Executing("effect")
     \/ LibraryCall(LibOther)
     \/ /\ Executing("funcexit") /\ ReturnInStack(top, topsp)
        /\ ~EnvReadable(stack, topsp)
     \/ /\ LibraryCall(LibTotalArguments) /\ topsp # 0
        /\ topsp + EnvSize < StackSize
        /\ Saved[topsp + EnvSize].type # "number_m"
     \/ /\ LibraryCall(LibArgument) /\ topsp # 0 /\ totalActuals = 1
        /\ ArgumentInStack /\ stack[top + 1].type # "number_m"
  /\ Stop("aborted")

Stopped == ~Running /\ UNCHANGED vars

Next ==
  \/ Assign \/ Compute \/ Effect \/ Jump \/ BranchNotTaken \/ TypeError
  \/ PushArg \/ CallUser \/ CallFunctor \/ CallFails \/ FuncEnter \/ FuncExit
  \/ CallTotalArguments \/ CallArgument \/ CallOther \/ LibraryOverflow
  \/ EndOfCode \/ WildAccess \/ AssertFails \/ Stopped

Spec == Init /\ [][Next]_vars

(* main() executes cycle after cycle until the machine has stopped. *)
FairSpec == Spec /\ WF_vars(Next)

-----------------------------------------------------------------------------
(* Correctness *)

Entering == pc \in Functions   \* called, VM_FUNC_ENTER not yet executed

(* The caller of the k-th call: its function, and its frame without the    *)
(* actuals it has pushed.                                                  *)
Caller(k) ==
  IF k = 1 THEN [fn |-> Main, topsp |-> 0, top |-> MainTop]
  ELSE [fn |-> calls[k - 1].fn, topsp |-> calls[k - 1].sp,
        top |-> calls[k - 1].sp - LocalSize[calls[k - 1].fn]]

(* The environment of every active call holds what its caller needs back,  *)
(* and its frame lies below the frames of all earlier calls.               *)
FrameIntact(k) ==
  LET c == calls[k] IN
  /\ c.sp + EnvSize + Len(c.args) = c.top
  /\ c.top = Caller(k).top /\ c.topsp = Caller(k).topsp
  /\ c.top <= MainTop
  /\ \A j \in 1 .. k - 1 : c.top < calls[j].sp
  /\ c.pc \in Address /\ Owner[c.pc] = Caller(k).fn
  /\ Code[c.pc].opcode = "assign"
  /\ stack[c.sp + 4] = Number(Len(c.args))
  /\ stack[c.sp + 3] = Number(c.pc)
  /\ stack[c.sp + 2] = Number(c.top)
  /\ stack[c.sp + 1] = Number(c.topsp)

(* The environments that calls have saved (callsaveenviroment) survive     *)
(* everything the callees do, until their return reads them: nothing but   *)
(* an assignment to a formal that got no actual can damage one.            *)
EnvironmentsIntact ==
  Running /\ ~strayed => \A k \in 1 .. Len(calls) : FrameIntact(k)

(* The registers delimit the frame of the innermost call.                  *)
RegistersMatch ==
  Running /\ ~strayed =>
    /\ IF calls = << >>
       THEN topsp = 0 /\ top + totalActuals = MainTop
       ELSE IF Entering
       THEN /\ pc = Innermost.fn /\ top = Innermost.sp
            /\ topsp = Innermost.topsp /\ totalActuals = Len(Innermost.args)
       ELSE /\ topsp = Innermost.sp
            /\ top + totalActuals = Wrap(topsp - LocalSize[Innermost.fn])
    /\ pc \in Address =>
         Owner[pc] = IF calls = << >> THEN Main ELSE Innermost.fn
    /\ pc \in Address \/ (pc = CodeSize /\ calls = << >>)
    /\ totalActuals = Len(pending)
    /\ totalActuals > 0 /\ ~Entering =>
         /\ Code[pc].opcode \in {"pusharg", "call"}
         /\ top + totalActuals < StackSize

(* The pushed actuals wait in the cells above top, last one lowest, until  *)
(* the function they are for has been entered.                             *)
ActualsInCells ==
  Running /\ ~strayed =>
    /\ Entering => pending = Innermost.args
    /\ LET base == IF Entering THEN Innermost.top ELSE top + totalActuals IN
       \A j \in 1 .. Len(pending) : stack[base + 1 - j] = pending[j]

(* When a function is entered its i-th formal operand is the cell of the   *)
(* actual pushed i-th from last, whatever calls were made since the first  *)
(* actual was evaluated.                                                   *)
FormalsAreActuals ==
  Running /\ ~strayed /\ Entering /\ calls # << >> =>
    \A i \in 0 .. Len(Innermost.args) - 1 :
      stack[top + EnvSize + 1 + i] = Innermost.args[Len(Innermost.args) - i]

(* totalarguments() and argument(i) tell a function about the call it runs *)
(* in, and give nil in the main program.                                   *)
ReflectionSeesCaller ==
  [][/\ (CallTotalArguments /\ ~strayed) =>
           retval' = IF calls = << >> THEN Nil ELSE Number(Len(Innermost.args))
     /\ (CallArgument /\ ~strayed /\ totalActuals = 1) =>
          LET i == stack[top + 1].val IN
          IF calls = << >> THEN retval' = Nil
          ELSE i < Len(Innermost.args) =>
                 retval' = stack[Innermost.sp + EnvSize + 1 + i]]_vars

(* A step leaves every cell of the frames of earlier calls alone.  A return*)
(* may clear one of them, the last local of the function it returns to.    *)
CallersUntouched ==
  [][Running /\ ~strayed' /\ calls # << >> =>
       \A k \in Innermost.top + 1 .. MainTop :
         \/ stack'[k] = stack[k]
         \/ k = Innermost.top + 1 /\ Len(calls') < Len(calls)]_vars

(* The calls of the machine keep the promise of CallStack, as long as no   *)
(* function strays: the frame a return restores is the caller's.           *)
CS == INSTANCE CallStack WITH
  live  <- Running /\ ~strayed,
  frame <- [top   |-> IF Entering THEN Wrap(top - LocalSize[pc])
                      ELSE top + totalActuals,
            topsp |-> IF Entering THEN top ELSE topsp,
            pc    |-> pc],
  saved <- [k \in 1 .. Len(calls) |->
              [top |-> calls[k].top, topsp |-> calls[k].topsp,
               pc  |-> calls[k].pc]]

ImplementsCallStack == CS!Spec

(* Every function that is returned from has a readable environment: the    *)
(* assertion of avm_get_envvalue does not fail.                            *)
EnvAssertHolds ==
  Executing("funcexit") => ReturnInStack(top, topsp) /\ EnvReadable(stack, topsp)

(* Recursion without end runs out of stack and stops the machine, unless a *)
(* function strays: it may overwrite where its caller goes on.             *)
MachineStops == <>(status # "running" \/ strayed)

=============================================================================
