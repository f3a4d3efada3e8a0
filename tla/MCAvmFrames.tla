---------------------------- MODULE MCAvmFrames ----------------------------
(***************************************************************************)
(* Programs for AvmFrames, as the compiler lays them out: a function body  *)
(* follows its guard jump, PARAMs come right before their CALL and         *)
(* GETRETVAL right after it.                                               *)
(***************************************************************************)
EXTENDS AvmFrames, TLC

(* Assembler *)
MCArg(t, v)      == [type |-> t, val |-> v]
MCNone           == MCArg("label_a", 0)
MCGlobal(v)      == MCArg("global_a", v)
MCLocal(v)       == MCArg("local_a", v)
MCFormal(v)      == MCArg("formal_a", v)
MCConst(v)       == MCArg("number_a", v)
MCUser(f)        == MCArg("userfunc_a", f)
MCLib(l)         == MCArg("libfunc_a", l)
MCRetval         == MCArg("retval_a", 0)
MCIns(op, r, a)  == [opcode |-> op, result |-> r, arg1 |-> a]
MCAssign(r, a)   == MCIns("assign", r, a)
MCGetRet(r)      == MCIns("assign", r, MCRetval)
MCData(r, a)     == MCIns("data", r, a)
MCJump(l)        == MCIns("jump", MCArg("label_a", l), MCNone)
MCBranch(l, a)   == MCIns("branch", MCArg("label_a", l), a)
MCPush(a)        == MCIns("pusharg", a, MCNone)
MCCall(a)        == MCIns("call", a, MCNone)
MCEnter(f)       == MCIns("funcenter", MCUser(f), MCNone)
MCExit(f)        == MCIns("funcexit", MCUser(f), MCNone)
MCEffect         == MCIns("effect", MCNone, MCNone)

MCLoad(program) == [a \in 0 .. Len(program) - 1 |-> program[a + 1]]

(***************************************************************************)
(* The main program runs one of two parts.                                 *)
(*                                                                         *)
(* f, entered at 2, looks at its own call through argument() and           *)
(* totalarguments(), then calls whatever the global g1 holds (itself, a    *)
(* functor, something that is not callable) with two actuals.  The main    *)
(* program calls it with two actuals as well.                              *)
(*                                                                         *)
(* The second part is about missing actuals, and recursion without a       *)
(* bound.  g, entered at 32, assigns to one of its formals 0 to 4.  h,     *)
(* entered at 46, has one local; it calls itself as long as a branch does  *)
(* not end that, with a call of a library function in each frame, or calls *)
(* g with at most one actual, so that the formals of g reach the local and *)
(* the environment of h.                                                   *)
(***************************************************************************)
MCProgram == <<
  (*  0 *) MCBranch(31, MCConst(0)),
  (*  1 *) MCJump(19),
  (*  2 *) MCEnter(2),
  (*  3 *) MCAssign(MCLocal(0), MCFormal(0)),
  (*  4 *) MCBranch(12, MCLocal(0)),
  (*  5 *) MCPush(MCLocal(0)),
  (*  6 *) MCCall(MCLib(LibArgument)),
  (*  7 *) MCGetRet(MCLocal(1)),
  (*  8 *) MCCall(MCLib(LibTotalArguments)),
  (*  9 *) MCGetRet(MCLocal(1)),
  (* 10 *) MCAssign(MCFormal(0), MCConst(0)),
  (* 11 *) MCJump(17),
  (* 12 *) MCData(MCLocal(1), MCGlobal(0)),
  (* 13 *) MCPush(MCFormal(0)),
  (* 14 *) MCPush(MCLocal(1)),
  (* 15 *) MCCall(MCGlobal(1)),
  (* 16 *) MCGetRet(MCLocal(1)),
  (* 17 *) MCAssign(MCRetval, MCLocal(1)),
  (* 18 *) MCExit(2),
  (* 19 *) MCData(MCGlobal(1), MCGlobal(0)),
  (* 20 *) MCEffect,
  (* 21 *) MCCall(MCLib(LibTotalArguments)),
  (* 22 *) MCGetRet(MCGlobal(0)),
  (* 23 *) MCPush(MCConst(0)),
  (* 24 *) MCCall(MCLib(LibOther)),
  (* 25 *) MCGetRet(MCGlobal(0)),
  (* 26 *) MCPush(MCConst(0)),
  (* 27 *) MCPush(MCConst(1)),
  (* 28 *) MCCall(MCUser(2)),
  (* 29 *) MCGetRet(MCGlobal(2)),
  (* 30 *) MCJump(66),
  (* 31 *) MCJump(45),
  (* 32 *) MCEnter(32),
  (* 33 *) MCData(MCLocal(0), MCGlobal(0)),
  (* 34 *) MCBranch(37, MCLocal(0)),
  (* 35 *) MCAssign(MCFormal(0), MCLocal(0)),
  (* 36 *) MCAssign(MCFormal(1), MCLocal(0)),
  (* 37 *) MCBranch(39, MCLocal(0)),
  (* 38 *) MCAssign(MCFormal(2), MCLocal(0)),
  (* 39 *) MCBranch(41, MCLocal(0)),
  (* 40 *) MCAssign(MCFormal(3), MCLocal(0)),
  (* 41 *) MCBranch(43, MCLocal(0)),
  (* 42 *) MCAssign(MCFormal(4), MCLocal(0)),
  (* 43 *) MCAssign(MCRetval, MCFormal(4)),
  (* 44 *) MCExit(32),
  (* 45 *) MCJump(61),
  (* 46 *) MCEnter(46),
  (* 47 *) MCCall(MCLib(LibTotalArguments)),
  (* 48 *) MCGetRet(MCLocal(0)),
  (* 49 *) MCBranch(56, MCLocal(0)),
  (* 50 *) MCPush(MCFormal(0)),
  (* 51 *) MCCall(MCUser(46)),
  (* 52 *) MCGetRet(MCLocal(0)),
  (* 53 *) MCBranch(60, MCLocal(0)),
  (* 54 *) MCAssign(MCRetval, MCNone),   \* return;
  (* 55 *) MCJump(60),
  (* 56 *) MCBranch(58, MCFormal(0)),
  (* 57 *) MCPush(MCFormal(0)),
  (* 58 *) MCCall(MCUser(32)),
  (* 59 *) MCGetRet(MCLocal(0)),
  (* 60 *) MCExit(46),
  (* 61 *) MCPush(MCConst(0)),
  (* 62 *) MCCall(MCUser(46)),
  (* 63 *) MCGetRet(MCGlobal(0)),
  (* 64 *) MCCall(MCLib(LibTotalArguments)),
  (* 65 *) MCGetRet(MCGlobal(0))>>

MCCodeSize  == Len(MCProgram)
MCCode      == MCLoad(MCProgram)
MCLocalSize == (2 :> 2) @@ (32 :> 1) @@ (46 :> 1)
MCOwner     == [a \in 0 .. MCCodeSize - 1 |->
                  IF a \in 2 .. 18 THEN 2
                  ELSE IF a \in 32 .. 44 THEN 32
                  ELSE IF a \in 46 .. 60 THEN 46 ELSE MCCodeSize]

(* 6 is a stack index and an address. *)
MCDataCells == {Number(0), Number(6),
                [type |-> "table_m", val |-> 0],
                [type |-> "userfunc_m", val |-> 2],
                [type |-> "string_m", val |-> LibUnknown]}

=============================================================================
