# alpha: a verification project

`src/` holds a compiler and a virtual machine for the language alpha: a
dynamically typed scripting language with functions, tables and functors. This
directory models the program in TLA+, checks the models with TLC and proves
theorems about them with TLAPS.

All line numbers are those of `src/`.

## 1. The system

    source --scanner.l--> tokens --parser.y--> quads --target.c--> binary file
                            |  symtable.c, definitions.c            |
                            +--- symbols, scopes, offsets           v
                                                     avm.c, dispatcher.c: the machine

Everything is sequential: one process, no threads, no signals. The compiler and
the machine are two programs that share nothing but the binary file. What is hard
in this code is therefore not interleaving but *long sequences of legal steps that
share mutable state*: cells of one stack that several calls read and write,
registers that every call has to leave as it found them, lists of jumps that
nested statements patch, counters of references.

| component | state | operations | interacts with | correct when |
|---|---|---|---|---|
| scanner (`scanner.l`) | comment depth, string buffer | one token | parser | tokens are the text's |
| parser, statements (`parser.y`) | loop and function nesting, break/continue/return lists | `emit`, `backpatch`, enter/leave loop and function | quads, symbols | every jump is patched, to its own statement |
| parser, expressions (`parser.y`, `definitions.c`) | temporaries; stacks of lists for calls and tables; `functor` | lvalues, members, calls, table constructors, functions in expressions | quads, symbols | a call passes its own arguments, a table gets its own elements |
| symbol table (`symtable.c`) | scopes, hash lists, `isActive` | insert, lookup, hide | parser | a name denotes the innermost visible symbol |
| scope spaces (`definitions.c` 61-140) | counters per space, stack of offsets | enter/exit scope space, current offset | symbol table | two live variables of one function never share an offset |
| quads (`definitions.c`) | `quads[]`, `currQuad` | `emit`, `nextquad` | target generator | labels are quad numbers |
| target generator (`target.c`) | `instructions[]`, `taddress` per quad, incomplete jumps, function stack | `generate_*`, `patch_*` | constant tables, binary file | every jump lands on its quad's instruction |
| constant tables, writer (`target.c`) | strings, numbers, user functions, names of library functions, number of globals | insert with reuse, write | machine | an operand means what the parser meant |
| loader (`avm.c` 795-927) | the machine's copies of these | read | machine | what is read is what was written |
| machine: stack and calls (`avm.c`) | `stack[]`, `top`, `topsp`, `pc`, `totalActuals`, `retval`, `executionFinished` | translate operand, save environment, library call, functor call | dispatcher, tables | a call gives its caller back its frame |
| machine: dispatcher (`dispatcher.c`) | none of its own | one `execute_*` per opcode | stack, tables | each instruction does its part |
| machine: tables (`avm.c`, `dispatcher.c`) | heap of tables with buckets, `refCounter` | new, get, set, incref, decref, destroy, copy | every cell that holds a table | the count is the number of holders |
| printing of tables (`dispatcher.c` 1023-1471) | `start`, `general`, `table_list` | `table_tostring`, by `print()` and by a warning | tables | lists and rings are followed once; `<index>` stands for a table around |
| library functions (`dispatcher.c`) | none | 12 functions called by name or index | stack, tables | they see their caller's frame and leave it alone |

What is hard, and where: `PROJECT.json` lists every hazard with its line.

* **Sequences of calls.** `avm_callsaveenviroment` (avm.c 283) stores four numbers
  below the actuals; the return (dispatcher.c 709) trusts them. Between the two any
  number of other calls, of three kinds, reuse the cells below.
* **Ordering.** The saved top is computed halfway through the pushes (avm.c 287); a
  functor is pushed as an actual before the environment; a return reads three cells
  of the frame that it then clears.
* **Limits.** `top` is unsigned; `avm_dec_top` tests for the end of the stack,
  `execute_funcenter` does not.
* **Stale state.** `totalActuals` lives from the first `VM_PUSHARG` to the entry of
  the callee; cells that are cleared keep their type when they hold a table; hidden
  symbols stay in the symbol table; lists of arguments stay on their stacks after a syntax
  error; `general` stays what a warning has made it.
* **Failure halfway.** A runtime error sets `executionFinished`, and what was
  begun goes on to its end.

## 2. Modules

    parser.y --statements--> QuadGen --EXTENDS--> TargetGen --INSTANCE--> AvmCode (contract)
       |  +-----expressions-> Expressions --EXTENDS--> BinaryFile            ^ EXTENDS
       +--symtable.c--------> SymbolTable           avm.c --------------> AvmFrames --refines--> CallStack
                                                       +----------------> AvmTables --refines--> TableMemory
                                           dispatcher.c 1023-1471 ------> TablePrint

| module | models | role |
|---|---|---|
| `AvmCode` | the program the machine runs: cells, operands, instructions (avm.h), and `WellFormedCode`, what the machine takes for granted about the compiler's output (target.c 439-551) | constants and assumptions |
| `AvmFrames` | the machine: avm.c 91-384, 929-980; dispatcher.c 14-99, 262-551, 590-996 | detailed specification and its properties |
| `CallStack` | what calls promise, whatever the machine does with its stack | abstract specification |
| `AvmTables` | tables, their elements and reference counts, destruction, the library functions that return tables: avm.c 107-167, 386-740; dispatcher.c 102-294, 902-990 | detailed specification |
| `TableMemory` | tables as a program sees them: nothing is counted, nothing goes away | abstract specification |
| `QuadGen` | statements and functions to quads: the rules of parser.y with their global stacks, `emit` | detailed specification |
| `TargetGen` | quads to instructions: target.c 358-814, `generate_t` | composes `QuadGen` with the generator; derives the contract of `AvmCode` |
| `SymbolTable` | scopes, lookup, hiding, places of variables: symtable.c, definitions.c 61-140, parser.y 512-721, 1029-1269, 1333-1379 | detailed specification |
| `Expressions` | expressions to quads: parser.y 156-273, 501-511, 728-1022, 1205-1379, and the helpers of definitions.c | detailed specification |
| `BinaryFile` | operands, constant tables, the file and its loading: target.c 142-382, 439-521, 929-1007; avm.c 777-786, 795-927 | composes `Expressions` with the generator, the file and the loader |
| `TablePrint` | printing of tables that may contain themselves: dispatcher.c 38-76, 945-955, 1023-1471 | detailed specification |
| `AvmFramesProofs` | theorems about `AvmFrames`: what calls keep; what they promise their callers (`CallStack`) | TLAPS |
| `AvmTablesProofs` | theorems about `AvmTables`: counts; what programs see (`TableMemory`) | TLAPS |
| `SymbolTableProofs`, `TablePrintProofs` | theorems about the module each is named for | TLAPS |
| `QuadGenProofs` | theorems about `QuadGen`: the parser's stacks; every jump leads to where its statement has promised | TLAPS |
| `TargetGenProofs` | theorems about `TargetGen`, with `QuadGenProofs` for the parser in front; the last one ties compiler and machine together: generated code fulfils the contract of `AvmCode` | TLAPS |
| `ExpressionsProofs` | lemmas about every step of `Expressions`: its invariant, and what calls, tables and members are made of | TLAPS |
| `BinaryFileProofs` | theorems about `BinaryFile`, from those lemmas: from the parser's operands to the machine's | TLAPS |
| `MC...` | `MCAvmFrames`: a program as the compiler lays it out; `MCTablePrint`: the heaps; the others: symmetry and small constants | instances for TLC |

### How AvmFrames corresponds to the code

The variables `stack`, `top`, `topsp`, `pc`, `totalActuals`, `retval` are the globals
of avm.c by the same names. `status` is `executionFinished` together with the two ways the
process can leave the machine's own rules: `"aborted"` (an `assert`) and `"wild"` (an
index outside `stack[]` or `libFuncs[]`, after which C promises nothing).

| action | code |
|---|---|
| `Assign`, `Compute`, `Effect` | `execute_assign`; the opcodes that store a computed value; those that change no cell |
| `Jump`, `BranchNotTaken`, `TypeError` | jumps and comparisons, and the errors these and the previous report |
| `PushArg` | `execute_pusharg` |
| `CallUser`, `CallFunctor`, `CallFails` | the cases of `execute_call` (645-689), `avm_call_functor` |
| `FuncEnter`, `FuncExit` | `execute_funcenter`, `execute_funcexit` |
| `CallTotalArguments`, `CallArgument`, `CallOther`, `LibraryOverflow` | `avm_calllibfunc` with the library function it runs, and with no room for its environment |
| `EndOfCode`, `Stopped` | the ways the loop of `main` (973) ends |
| `WildAccess`, `AssertFails` | what happens outside of the rules |

Each call is one action from the reading of the callee's cell to the new `pc`, because
`execute_cycle` runs it in one go. A library call includes its frame, its return sequence
and the reset of `totalActuals`.

Abstractions, and why they are sound for the properties:

* *Values.* A cell keeps its type and one number: the number itself (the machine stores
  its registers in number cells), a function's address, the identity of a table. Arithmetic,
  comparison and the library functions other than `argument` and `totalarguments` yield any
  member of `DataCells`.
* *Opcodes.* `data`, `effect` and `branch` stand for groups of opcodes that differ in the
  value they compute only. Any of them may report a type error.
* *arg2* is left out: `arg1` stands for the operand that reaches further.
* *Unknown names.* `get_lib_name_index` has no return statement for a name it does not
  know; the call then runs any library function, or none.
* *Tables* are identities here; their heap is `AvmTables`.
* *Word.* Indices are unsigned and wrap at `Word`, which is at least `StackSize`.

`calls`, `pending` and `strayed` are history variables: no guard of an action
depends on them. `calls` records what each active call was asked for, `pending` the actuals pushed for
the next one; `strayed` becomes true when a function assigns to a formal beyond the
actuals of its call, the one thing in the language that can damage another frame.

### How AvmTables corresponds to the code

A cell is a cell of `stack[]`, `retval`, or the key or value of an element of a table.
`holds` is the table in it or `Plain`; `refs` is `refCounter`; `buckets` the elements that exist.

`avm_assign` clears its destination first; clearing may destroy a table, which clears cells,
which may destroy others. `work` holds the cells that are still to be cleared and `after`
what the function that began does at the end: copy and count. `Clear` takes any cell of `work`:
the code has a fixed order (key before value, bucket after bucket, depth first), and every
order that it can have is among those. `Assign`, `NewTable`, `GetElem`, `SetElem`,
`Return` (of `execute_funcexit`), `ObjectCopy`, `ObjectMemberKeys`, `Argument` are the
instructions and library functions; `Overwrite` is a cell of an environment written over what lies below top.

* `avm_memcellclear` of a table drops a reference but leaves the cell a table (avm.c 163). Only
  the count tells that it has been cleared; `uncounted` remembers those cells.
* `avm_tabledestroy` forgets the elements outside of the first bucket (avm.c 437) with the references they
  have; `lost` counts these.
* `GetElem` clears its destination, looks the element up and assigns it; an absent one leaves nil (dispatcher.c 946-957). The destination
  is a temporary that is neither the table nor the index: temporaries are never reused (parser.y 119).
* An assignment whose source or destination was in a table that the clearing destroyed uses freed
  memory: status `"wild"`, not followed further.
* Left out: the `total` field; printing is `TablePrint`. `HashSize` 1 or 2 stands for `AVM_TABLE_HASHSIZE`.

### How QuadGen and TargetGen correspond to the code

Which program is compiled is left open. Each action is what one rule of the grammar, or the
part of a rule up to its next mid-rule action, does to the globals of parser.y. `open` is
bison's own stack, reduced to the statements that have begun; it also carries what each
statement has promised (this jump leads to the end of that loop), and `settled` the promises whose place
has become known. Both are compared with the code's bookkeeping, which is a dozen stacks
with counters, and are used in guards only to say which rule may come next.

Expressions are shapes: one plain quad, a logical operator, a comparison (`emit_relop`), a call. Their operands
are left out here (see `Expressions`), which is all that `TargetGen` leaves out too, so `taddress`, `ij_head`, `func_stack` and
the `returnList` of functions are there in full.

Syntax errors are `stmt: error` (parser.y 153): bison drops the statement, the globals keep what it has put there. There
are three cases, by what has been done when the error is found. `SyntaxError`: nothing new, the error is in the head of an
`if`, a `while` or a `for`. `FuncHeadError`: bison takes the action behind the arguments of a function (1207) by default, whatever
comes next, so an error in front of the block finds the stacks of loops put aside and FUNC_START emitted, and drops the function.
`StepError`: so it is with the action behind the step of a `for` (1472). Errors in a block or in an
expression statement touch none of these stacks. After `FuncHeadError` the loops around the function
have lost their labels (`HeadLost`): what they do next may follow a null pointer or fail `assert(head)` of `pop` (`LoopFails`; in `TargetGen`
the process ends there, `ParserCrash`).

Neither `yyerror` nor the end of the text in the middle of something sets `error_flag`, and `main` ignores what `yyparse` returns (1547),
so that code is generated all the same. `StartGenerating` is a text that has ended, `TextBreaksOff` one that breaks off with statements or functions
open (which counts as an error).

`Reused` says whether `newRec` may get memory that was in use: it leaves
`returnList` uninitialized (symtable.c 80), and `generate_FUNCSTART` appends to it.

`MachineCode` reads the generated instructions as a program of `AvmCode`, and
`CodeWellFormed` states `WellFormedCode` of it (proved in `TargetGenProofs`). This closes the control part of `CodeAssumption`:
that jumps stay in their function, that PARAM, CALL and GETRETVAL are adjacent, that functions
begin with FUNC_ENTER. The operands (that locals fit into their frame) are `LocalsFit` of `SymbolTable`.

### How SymbolTable corresponds to the code

`symbols` is the list of all hash lists in insertion order; a scope is a depth, as in the code, so
that blocks of one depth share a list. `open` numbers blocks and functions, which the code does not, and is
what lookups are compared with. `FuncPrefix`, `FirstParam`/`NextParam`, `FuncBody`, `BlockBegin`, `BlockEnd`,
`FuncEnd` are the parts of `funcdef`; `Use`, `Local`, `GlobalError` the rules of `lvalue`; `NewTemp` is `new_temp`. An error
that sets `error_flag` ends the behaviour, because `main` then exits without writing code. Left out: library
functions as symbols of scope 0, anonymous functions, and the formal `this` of functors.

### How Expressions and BinaryFile correspond to the code

An expression has a type and a value: the symbol, the function, the number that stands for a
constant; an element of a table has the symbol of the table and its index. `lists` are the stacks
`elist_param_stack`, `elist_table_stack`, `indexed_table_stack`, `values_table_stack`; `have` and
`value` are the semantic value on top of bison's stack, `open` the constructs below it. Rules with an action in
the middle are two or more steps, and so are rules with an expression inside (`CallBegin`,
`CallEnd`). What the text says is left open: `Constant`, `Variable`, ... each read something.

* `open` remembers what each construct consists of (`own`, `keys`), and `clean`, whether the lists
  have been mixed with those of another construct. Guards use `own` and `keys` only to say what may come next.
* Blocks and scopes are left out; which variable a name denotes is the business of `SymbolTable`. Arithmetic,
  comparison and logic are `Minus`: one operand, a new temporary, one quad. Unary minus on anything
  that is neither a number nor a variable emits nothing, as in the code.
* `SyntaxError` is possible where an expression is expected: with what else does not fit, bison
  first makes its default reductions. It drops the constructs of the statement and leaves the lists. The error between the arguments of a
  function and its block is left out here; `QuadGen` has it.
* `hung`: the loop of `objectdef` (parser.y 974) that does not end.

`BinaryFile` continues when the text has ended or breaks off where an expression is expected (a function without its end
has reserved no locals then). `StartGenerating` is the return of `yyparse`, `Generate` one round of
the loop of `generate_t` (`nextQuad` is its `i`), `Write` the functions that print. There is one operator per
function of target.c (`Note` and `Operand` are `make_operand`). `file` is a sequence of items rather than bytes, with the
lengths that are written; `Read` cuts it apart again by these. Jumps have no targets here
(`TargetGen`), and instructions the names of their quads. `Meant` is what the parser put into a
quad, `Meaning` what the machine makes of the operand that it reads.

### How TablePrint corresponds to the code

`path` is the C stack: the calls of `table_tostring` that have not returned, each with the element
it is at. `start`, `general`, `table_list` are the globals. An element is a key and a value; the
five loops over the five kinds of keys differ only in what they do with a key that is a table
(`tableIndexed`), so there are two cases. `BeginPrint` is a call from `print()`, which resets `start`
afterwards, or from the warning of `execute_tablegetelem`, which does not. `MaxDepth` is the depth
that the C stack has room for; to go beyond is `"exhausted"`. The text is left out, and
with it the buffer of 512 bytes.

## 3. What the runs check

| run | instance | shows |
|---|---|---|
| `frames` | `MCAvmFrames`: a function that reflects on its own call, then calls whatever a global holds (itself, a table, a number, a name); or recursion with a library call in each frame and a function that reads and writes formals 0 to 4 with at most one actual; `StackSize` 28, `Globals` 3, `Word` 64 | the invariants and action properties below, also where the stack ends in a call; that the calls implement `CallStack`; that the machine stops |
| `env_assert` (violation) | as `frames` | the assertion of avm.c:276 can fail |
| `tables` | two stack cells, two tables, two buckets and that of `true`, no miscounting library functions; at most 2 elements, 1 lost reference | counts are exact, the assertion on them holds, and the heap implements `TableMemory` |
| `tables_lib` | two stack cells, two tables, one bucket, all library functions; no lost references | counts are exact until a cell is cleared twice, and so long what is copied, and where to, outlives the clearing of the destination; destruction ends |
| `tables_copy` (violation) | one stack cell, two tables, `objectcopy` | the assertion of avm.c:394 can fail for a cell of the stack |
| `quads` | 8 quads, 3 nested statements, expressions of one quad | every jump leads where its statement promised |
| `target` | 5 quads, 3 nested statements, one expression of any shape, one syntax error, text that may break off | jumps reach their quads, functions that are left are closed, `WellFormedCode`; a statement finds its entry missing only behind the lost head of a function |
| `jump_into_function` (violation) | as `target` | a jump may enter a function without a call |
| `operands` | texts of 5 tokens, 3 nested constructs, one syntax error; a number, the string "()", a name, a library function; a stack of 4 cells | calls and tables get their own elements, and the machine reads what the parser meant |
| `table_print` | three tables: all heaps with up to two elements each whose keys are no tables, and all with up to two of any kind in one table and one in another; two prints or warnings, depth 5 | printing goes no deeper than it should, and `<index>` stands for a table around |
| `symbols` | two names, 4 symbols, depth 4, 4 blocks or functions | places do not collide and fit their frame; names resolve |
| `legal_scopes` (violation) | as `symbols` | a name may denote a variable of a function that has ended |

Properties:

* `TypeOK` - among others: registers never go below 0, which needs the wrap.
* `EnvironmentsIntact` - the environment of *every* active call, not only of the
  innermost one, holds what its caller needs back, and its frame lies below all earlier frames.
* `RegistersMatch` - `top`, `topsp`, `pc`, `totalActuals` delimit the frame of the innermost
  call, in each phase of a call (pushing, entering, running).
* `FormalsAreActuals`, `ActualsInCells` - actuals survive from their push to the entry
  of the callee and come out in the right order, the functor included.
* `ReflectionSeesCaller` - `totalarguments()` and `argument(i)` describe the call of
  the function that calls them.
* `CallersUntouched` - a step changes no cell of the frames of earlier calls, except
  one that a return may clear: the loop of `execute_funcexit` goes one cell past the
  caller's top, into its last local. The compiler makes this harmless: GETRETVAL follows each CALL
  and assigns to a temporary of the caller, so the caller has at least one local, and its
  last one is not yet in use. This is also why `WellFormedCode` asks for GETRETVAL.
* `ImplementsCallStack` - refinement: the registers and the stack of environments
  behave like a stack of frames.
* `MachineStops` - liveness, see below.
* `CountsExact` - `refCounter` is the number of cells that hold the table and have counted it, and of the
  references lost with their cell; in the middle of a destruction, too.
* `CountAssertHolds` - `assert(t->refCounter > 0)` of `avm_tabledecrefcounter`.
* `ImplementsMemory` - refinement: a program cannot tell that tables are counted and destroyed. The
  refinement mapping looks through `work` and `after`: what is about to be cleared is already gone,
  what is about to be stored already there.
* `SourcesRemain` - `avm_assign` clears the destination before it copies, and `execute_tablegetelem` before it looks up: the
  element that is copied, and the one it is copied to, must not go with what the clearing destroys. Reusing a temporary for its own element
  would break this (`GetElemReusing`). `StackCountAssertHolds` - `CountAssertHolds` for the cells of the stack only, where compiled code gets at a
  miscounted table again.
* `ClearingEnds` - destroying a table comes to an end, for tables in cycles and miscounted ones too.
* `JumpsLand`, `BreakOnlyInLoops` - the global stacks never confuse two statements; every
  reserved quad is written when its statement ends; loops outside of a function do not count in it.
* `PopsNeverFail` - after a syntax error, too, the stacks of labels have an entry for every statement that is open; the stacks that
  functions put aside only as long as no head of a function has been lost. `BreakOnlyInLoops` has the same premise: in a loop behind such a head
  a break is refused, whatever parser.y:1208 says of lists that are restored at the end.
* `FunctionsClosed` - the returns of a function jump to its FUNC_EXIT and the jump around it leads behind that, for all functions
  but those on `func_stack` at the end; there are none in a text without errors.
* `JumpsReachQuads`, `CodeWellFormed` - see section 2. `CrashExplained` - nothing stops compiler and
  generator but a loop behind a lost head, a return outside of functions, a quad that an error has left unwritten, or the uninitialized list.
* `OwnElements` - a call passes its own arguments, last one first, and a table has its own elements, unless
  tables without keys and calls stand in each other (or a syntax error has left lists behind); `objectdef` ends
  unless there was one. Calls in calls, tables in tables, and functions with whole statements in either are covered.
* `ThisOfMembers` - as long as the value of each element "()" begins with a function that has formals, exactly
  those functions get a formal `this`.
* `FileMeansQuads` - constants by value, functions by their entry, frame size and `FUNC_ENTER`, variables by their
  places: what the machine finds behind an operand is what the parser put into the quad. Relates five tables
  that are filled in the order of use, addresses that exist only after a function has been translated, and frame
  sizes that the parser knows only at its end.
* `GlobalsReserved` - the machine's stack begins below all global variables, if all are used and none shares its name (5.12).
* `ListIsEndOfPath`, `IndexMeansEnclosing`, `RepeatsOnlyIfForgotten` - `table_list` is always the end of the chain of
  tables being printed, although each return empties it; `<index>` is never put for a table that is not around, except
  after a warning (5.14); a table is printed inside of itself only if it has been forgotten or is a key.
* `ChainsArePrinted` - lists, rings and trees without branches are printed with no more nested calls than
  there are tables.
* `PlaceIsKnown` - depth, `in_function`, `function_scope` and scope space, which are kept by different
  rules, agree with the place in the text. `PlacesDistinct`, `LocalsFit` - no two variables of a function share a place, and
  `total_locals` covers them, with functions nested between them.
* `NamesResolve` - a name denotes the innermost visible declaration, except for the two flaws below (5.4, 5.8).

Every property has a mutant (`PROJECT.json`): a plausible bug in the code that TLC then
finds with the run's own bounds.

**Bounds.** `StackSize` 28 lets `frames` nest two calls and run out of stack in the
third, at each of the places where that is noticed; the stack of the program has 4096 cells (avm.h 9)
but no code depends on the size otherwise. `Word` 64 is more than twice any index in use, so
that a wrapped index is always outside `stack[]`, as with 2^32. `DataCells` has one value for
each way the machine looks at a cell: an index inside the stack, one outside, a
function, a table, an unknown name. The theorems below hold for every value.

`tables_lib` needs two variables besides `retval`, one to lose its table and one to be assigned to;
references that are overwritten uncleared, and the keys `true` and `false`, are left to `tables`. `tables` needs two tables for a table that contains another or both each other, two elements for a cycle, and two buckets for
one that is forgotten. 8 quads are two nested loops with a break in each,
followed to the end of the outer one, or a function with a loop in a loop. 5 quads
suffice for `target`, because the generator handles one quad after the other; three nested statements are a function in a loop in a function. 4 symbols and 4 blocks
are two functions, one in the other, with a variable each.

5 tokens (the ends of constructs are not counted) are `f(a, [b])`, a member function with a
formal and what follows it, or a function with an expression in a call; 3 nested constructs are
the least in which a call meets both kinds of lists or a function stands between. A stack of 4 cells is
small enough for the loader to refuse some of these texts. Two prints are what a stale
`general` takes, three tables and depth 5 a ring behind a branch that is entered twice.

**Fairness.** `FairSpec` of `AvmFrames` has weak fairness of `Next`: `main` (avm.c 973) executes cycle after
cycle until `executionFinished`. No single action gets fairness of its own. `MachineStops` is
checked for a program whose only loop is recursion; a program with a `while` need not stop.
`FairSpec` of `AvmTables` has weak fairness of the steps inside of one C call (`Clear`, `Finish`, `FinishClearing`,
`WildAssign`): a function that has begun runs on; nothing is assumed about what the program does next.

**Deadlock** is checked in every run: a machine that is not stopped always has a step, and so has a parser; where the
bounded text ends halfway, or the parser hangs, `NeverEnds` says so.

## 4. What is proved

Each theorem holds for every value of the module's constants that its named assumption allows; TLC evaluates these
assumptions in the runs. Four theorems have a hypothesis of their own, named with them.

### The machine: calls

`AvmFramesProofs`: for every program, stack size, word width and number of globals that
satisfy `SizesAssumption` and `CodeAssumption`.

| theorem | statement |
|---|---|
| `TypeCorrect` | `Spec => []TypeOK` |
| `EnvironmentsSurvive` | `Spec => []EnvironmentsIntact` |
| `RegistersDelimitFrame` | `Spec => []RegistersMatch` |
| `ActualsStay` | `Spec => []ActualsInCells` |
| `FormalsBound` | `Spec => []FormalsAreActuals` |
| `ReflectionIsSound` | `Spec => []ReflectionSeesCaller` |
| `CallersAreUntouched` | `Spec => CallersUntouched`, an action property |
| `CallsAreImplemented` | `Spec => ImplementsCallStack`, the refinement |
| `EnvAssertUnlessStrayed` | the assertion that `env_assert` refutes holds until a function assigns to a formal it got no actual for |

*Assumptions.* `SizesAssumption`: the globals fit into the stack and its size is at most
`Word`. `CodeAssumption`: the code is well typed and `WellFormedCode`: operands name cells that
their function has, control stays in a function, PARAMs come directly before their CALL and
GETRETVAL directly after it. These are the compiler's obligations; `CodeIsWellFormed`, below, proves
those about control. TLC evaluates them for the program of `frames`.

*Argument.* Of the properties up to `FormalsBound` only `TypeOK` is inductive alone. The invariant that is,
`TypeOK /\ FrameInv` with `FrameInv == EnvironmentsIntact /\ RegistersMatch /\ ActualsInCells`,
ties them together: a return restores the registers (`RegistersMatch`) because the environment of the
innermost call is whole, environments stay whole because every store goes to a cell
delimited by the registers, and the actuals stay in place because they lie between the two. The
frames are strictly nested (`c.top < calls[j].sp` for all earlier calls j): strictly, since a return clears one
cell above the top it restores, and only the temporary of GETRETVAL keeps that cell from being
an environment. The proof has one lemma per action that touches the stack; calls of all
kinds share the lemmas about `SaveEnvironment` and `ReturnSequence`.

The last four results of the table follow from this invariant action by action: a store stays above the frames of
the callers (`StoreAboveFrame`), the environment is written below them, and each step maps to a call, a return or
nothing of `CallStack`.

### The machine: tables

`AvmTablesProofs`: for any finite sets of stack cells, tables and keys and any number of buckets (`TablesAssumption`, which also says that `None` is no
record of what a function does at its end), with the library functions or without. The last three: when `Builtins = {}`, which is to say for programs that call none of
`objectcopy`, `objectmemberkeys` and `argument`. That hypothesis is necessary: `tables_copy` violates the assertion with them.

| theorem | statement |
|---|---|
| `TableTypes` | `Spec => []TypeOK` |
| `CountsAreExact` | `Spec => []CountsExact` |
| `CountAssert` | `Builtins = {} => (Spec => []CountAssertHolds)` |
| `SourcesOutliveClearing` | `Builtins = {} => (Spec => []SourcesRemain)` |
| `MemoryIsImplemented` | `Builtins = {} => (Spec => ImplementsMemory)`, the refinement |

*Argument.* `CountsExact` needs `TypeOK /\ CountInv`. `CountInv` says of the middle of a destruction what the code never
writes down: elements of tables that do not exist yet and elements that have been freed hold nothing (`OnlyCreated`, `FreedPlain`),
a cell of the stack is uncounted only while it is being assigned (`StackCounted`), what is left to clear is in a freed element or one the
assignment is about (`WorkPlaced`), and the destination is clear when the copy is made
(`DestCleared`, `UncountedIsTable`). Counting is by cardinalities of sets of cells: a step
adds or removes one holder (`FS_AddElement`, `FS_RemoveElement`), the destruction of a table moves the holders in its forgotten elements to `lost`.

For programs without those functions `Counted` says more: nothing is cleared twice, what is to be assigned
stays alive (`AssignmentSafe`: it is in a slot, or in an element of a table that is held on the stack, which has a reference
left), uncounted elements are those of dead tables, and keys that are tables are their own key. Then a cell that is
cleared has a reference to give back, and a step of the destruction changes no element of a table
that can be reached from a cell, so that it is a stutter of `TableMemory`. That the element which is copied is still there
(`EndsThere`) is the same argument: its table has a reference from the stack besides the one that is given back.

### The symbol table

`SymbolTableProofs`: for any set of names and any bounds.

| theorem | statement |
|---|---|
| `SymbolTypes` | `Spec => []TypeOK` |
| `PlaceAgrees` | `Spec => []PlaceIsKnown` |
| `PlacesNeverShared` | `Spec => []PlacesDistinct` |
| `LocalsHaveRoom` | `Spec => []LocalsFit` |
| `NamesAreResolved` | `Spec => []NamesResolve` |

*Argument.* The invariant is `OpenInv /\ FunctionInv /\ SymbolsInv /\ PlacesInv /\ DeclaredInv`. The first two tie the code's
counters to the place in the text: depths are positions in `open`, `f_scopes_stack` holds the depths of
the open functions, `scopeSpaceCounter` is twice their number, less one among the formals. `PlacesInv`: what a function has
used of a space lies below the current offset, or below the offset that was saved when another function
began in it; so the next place is new although functions in between use the same counter.
`DeclaredInv`: a depth has the symbols of one open block, each name once, and what is open is not hidden.
`NamesResolve` follows from it by an argument about the loop of `lvalue`, which goes outwards depth by depth and
stops at the first (outside of functions) or the last hit (inside): the hit is visible, or the premise names the
flaw (5.4, 5.8).

### Statements, quads and instructions

`QuadGenProofs` and `TargetGenProofs`: for any text of any length and nesting, with any number of syntax errors,
whatever `newRec` finds in its memory.

| theorem | statement |
|---|---|
| `StacksTyped`, `BreaksBelongToLoops`, `StacksNeverEmpty` | `TypeOK`, `BreakOnlyInLoops` and `PopsNeverFail` are invariants of any text (`ParseAny`) |
| `ParsedTexts` | the same for `Spec`, the texts without syntax errors |
| `EveryJumpLands` | `AnyText => []JumpsLand`, where `AnyText` is `Init /\ [][ParseAny]_vars` |
| `NothingIsLeftOut` | when a text without syntax errors ends, all quads up to `currQuad` have been written |
| `StacksHoldEntries` | `TSpec => []PopsNeverFail` |
| `GeneratorTyped` | `TSpec => []TTypeOK` |
| `JumpsReachTheirQuads` | `TSpec => []JumpsReachQuads` |
| `FunctionsAreLeft` | `TSpec => []FunctionsClosed` |
| `CrashesAreExplained` | `TSpec => []CrashExplained` |
| `CodeIsWellFormed` | `TSpec => []CodeWellFormed`: what `AvmFrames` assumes about control in the code |

*The parser.* `PopsNeverFail` compares the stacks of the innermost function with what is open in it, and says nothing of
the stacks that `FuncStart` put aside, which come back at `FuncEnd`. The invariant is
`OpensInv == TypeOK /\ OpenInv /\ StacksInv /\ LevelsInv`: each global stack has as many entries as statements are
open at the phase between its push and its pop, and the stacks of loops have, *on every level of functions*, as many
as that level has loops. A syntax error in a header leaves entries behind, therefore `Covers`: at least as many, and exactly as many
until the first error. A head that is lost has put away the stacks of its level, so that part holds while there is none (`HeadsKept`); what
`ForEnd` and the others find before they use it (`InFor`, `Counting`) is then their own.
`TypeOK` says that no jump leads beyond the end of the quads, which the generator relies on. Statements
are counted by their depth from the outside, since that does not change when others begin.

*Jumps.* That each stack has enough entries does not make them the right ones. `JumpsInv` adds two parts to `OpensInv`,
both for texts without syntax errors:

* `Chained`: for every open statement *there are* the stacks as they were when it began. They differ from those at the beginning of the
  next one, or from the stacks now, by what that statement has pushed, which depends on its kind and on how far it has been read
  (`Around`); and the labels it has promised are exactly those that it pushed. For a loop this speaks of counters: its breaks
  are the first `num_of_breaks` of `break_stack`. So a break inside of ifs changes the stacks before each of these ifs as
  well (`ChainCounts`), and a function is an entry that puts all stacks of loops away. A chain is a function of the depth, and a
  statement that begins or ends adds or takes away its last element (`ChainPush`, `ChainPop`).
* `Promises`: what is promised is not written, it is promised once, and nothing else has been left out. `Led`: what has been
  settled leads where it should. A step either reserves or writes the new quads (`MadePromises`) or writes those of the innermost
  statement (`KeptPromises`); which these are is read off the chain.

`Complete` follows at the end of a text without errors, when nothing is open: the generator's first test never fails. `CrashExplained` (`CrashInv`)
adds that the parser comes to `LoopFails` only behind a lost head, which is `PopsNeverFail` read the other way round. A text that breaks off
counts as one with an error, and `open` then stays as it is (`ParserEnds`).

*The generator.* The invariant is `GenInv == OpensInv /\ PhaseInv /\ Generator /\ StackInv`.

* While the parser runs, `ReservedInv`: what lies on its stacks are quads that have been left out or are jumps. So it
  overwrites nothing but jumps and otherwise appends (`ParserWrites`), also after syntax errors.
* `StackInv`: `func_stack` is the stack of functions around the next quad, which is a function of the finished
  quads (`Nesting`).
* `Laid`: each quad has as many instructions as its operator takes (`Size`), from `first` on, apart from those of all
  others; `taddress` is `first`, or one more for a FUNC_START. `Coded`: the instructions are typed, and a
  FUNC_ENTER stands nowhere but behind the jump around its function, which is how `patch_instruction_label`
  tells that jump from the returns.
* `Jumping`, `Heads`: a jump leads back to where its quad is, or is on the list of incomplete jumps with its quad's label.
  `Closing`: a function is on `func_stack`, or a FUNC_END of it has patched all its jumps; `returnList` has exactly the jump around it and
  its returns. `Landed`: after the last step all jumps lead where they should.

*The contract.* `CodeIsWellFormed` needs three more invariants.

* `PlaceInv`, of the parser without syntax errors: each label stands in some functions (`Nesting`), and *there is* for every
  open statement the functions around it, such that all labels it keeps and all it has promised lie in these (`Located`,
  `Sits`), and what is settled leads from a label to another with the same functions around both (`Leaps`). A break belongs to the
  innermost loop, and between the loop and the break are only ifs, hence no function (`LocatedAbove`). A jump never leads to itself: the bounds in
  `Sits` say which labels come before which. With `Led` of `JumpsInv` this gives `JumpsIn` for the finished quads.
* `CallsInv`, of any text: a PARAM is followed by a PARAM or CALL, a CALL by its GETRETVAL.
* `BlockInv`, of the generator: the instructions of quad q are those that its generator makes (`Made`: their opcodes,
  their function and, for the logical operators, where they lead), and quads follow each other without a gap (`Joining`).
  Patching changes targets only, and none of a logical operator (`Outward`).

`Finished` sums up what the generator ends with, and says nothing of how. From it alone follows, instruction by
instruction (`EveryAddress`), where control goes on: in the middle of a quad (`InsideRemains`), at the beginning of the next
(`FallsThrough`), or where the jump leads (`JumpQuadStays`, `LogicQuadStays`, `ReturnStays`, `AroundStays`); each of these
places belongs to the same function. Behind a FUNC_END are again the functions around its FUNC_START (`Links`). The last
step is the instance `Contract` of `AvmCode` itself (`FulfilledAt`), so that the formula proved here is the one that the theorems
about `AvmFrames` assume. The premise that no jump leads to a function is necessary: `jump_into_function` (5.3) shows what happens else.

The invariants of the generator are operators on plain functions, with lemmas that do not mention the state (`LaidNext`, `CodedNext`, `JumpingNext`,
`ClosingReturn`, ...), and one lemma per action that applies them. `@@` and `:>` are defined in `QuadGen`, as in the
module TLC, whose own definitions the provers cannot use.

### Expressions, operands and the binary file

`ExpressionsProofs` and `BinaryFileProofs`: for any constants, names and library functions, texts of any length and
nesting, any number of syntax errors and any size of the machine's stack (`ExpressionsAssumption`, `StackSizeAssumption`).

| theorem | statement |
|---|---|
| `FileInvariant` | `Spec => []FileInv`, the inductive invariant |
| `FileTypes` | `Spec => []TypeOK` |
| `FileKeepsMeaning` | `Spec => []FileMeansQuads` |
| `StackBehindGlobals` | `Spec => []GlobalsReserved` |
| `ElementsAreOwn` | `Spec => OwnElements`, an action property |
| `MembersHaveThis` | `Spec => ThisOfMembers`, an action property |

*The parser.* The invariant is `ParserInv /\ StrictInv`.

* `CodeOK`: every operand has its symbol or function (`CodeIn`); each function has exactly one `func_start`, and is an operand only
  from there on (`StartsOK`), which is what makes `t_address` known in time; the offset of a symbol is the number of earlier
  ones of its function and space (`OffsetsOK`).
* `ListsOK`: the stacks have a list for each open call, and for each open table; more than these after a syntax error. Constructs are counted from
  the outside (`Rank`), so that the list of a construct keeps its number while others come and go. What a clean construct
  consists of *is* its list (`OwnedAt`); a construct with keys is clean as long as there was no syntax error. An element that goes to two lists
  makes the innermost construct of the other kind unclean, and no other, since only the
  innermost list of each kind is reached (`DisturbedTo`).
* `StrictInv`: as long as the text is strict, `functor` is set exactly when the value of an element "()" is due. One lemma per
  action says what it makes of `MemberDue`.

`OwnElements` and `ThisOfMembers` follow step by step: a construct that ends takes the list with its number, and
the quads are read off the list (`CallQuads`, `TableQuads`).

*The generator.* `Translated(code, target, k)` says what the tables hold when k quads have been handled: each
instruction `Fits` the operands of its quad, functions have the addresses of their `func_start`, all tables are without
duplicates, `globals` is the number of names of globals seen (`GlobalsOK`). It is kept because `make_operand` only adds to
the tables (`Extends`), and an operand that fits keeps fitting when tables grow (`FitsStays`); variables that share their name can only make the count too small.
Since a `func_start` makes two instructions, the address of a quad is its number and the number of `func_start`s up to it
(`AddressOf`); these grow, so that functions have different addresses and `avm_getfuncinfo` finds the right one.
`Read` finds each table where the lengths in front of it say (`Staged`, `FileRead`).
`GlobalsReserved` is then a bound on cardinalities: the offset of a global is the number of globals before it, and if all are used under
names of their own, as many names have been counted.

### Printing

`TablePrintProofs`: for all heaps, any room on the C stack and any number of prints, from `TablePrintAssumption`.

| theorem | statement |
|---|---|
| `PrinterTypes` | `Spec => []TypeOK` |
| `ListOfOpenTables` | `Spec => []ListIsEndOfPath` |
| `IndexIsAround` | `Spec => []IndexMeansEnclosing` |
| `RepeatsAreForgotten` | `Spec => []RepeatsOnlyIfForgotten` |
| `ChainsEnd` | `Spec => []ChainsArePrinted`, if there are finitely many tables and no more than the C stack has room for |

*Argument.* The inductive invariant is `TypeOK /\ ListIsEndOfPath /\ GeneralIsOutermost`. A call of
`table_tostring` appends its table to the list and to the chain, and the end of one empties the list, so that
the list stays an end of the chain. That is not enough for `IndexMeansEnclosing`, because the first test is against `general`:
`GeneralIsOutermost` says that it is the outermost table unless a warning has been printed, and needs
`start` to be reset between two prints. One lemma per action; `Entered` is shared by the two that call `table_tostring`.
`RepeatsOnlyIfForgotten` needs, besides, that the list begins where the last nested table has ended (`ListFromForgotten`);
`ChainsArePrinted` that a chain whose tables have one nested table each has printed none of them yet (`ChainInv`): then
the tables of the path differ, and there are no more of them than tables.

### What stays with TLC, and why

* `MachineStops`, `ClearingEnds`: liveness is out of the prover's reach.
* The four properties of the violation runs are not theorems, because they do not hold (section 5). `EnvAssertUnlessStrayed` and
  `CountAssert` prove two of them under the conditions that they need.

All other properties of the passing runs, the two refinements and the action properties among them, are proved.

## 5. Findings

Each of these is a violation run:

1. `env_assert`: a function called with too few actuals may overwrite the environment of a caller.
2. `tables_copy`: `objectcopy` and `objectmemberkeys` return a table that nobody has counted. In
   `while(true){ objectcopy(y); typeof(1); }` the temporary of GETRETVAL counts it, `typeof` clears `retval` and takes that reference, the table is
   destroyed while the temporary holds it, and the next round fails the assertion. `x = objectcopy(y);` alone leaves a count of 3 (two
   temporaries and `x`), so that it takes three such clearings before `x` has lost its table.
3. `jump_into_function`: `generate_FUNCSTART` gives the quad the address of FUNC_ENTER, so
   that `if (c) ...` followed by a function definition runs the function's body when `c` is false.
4. `legal_scopes`: `lookScope` finds hidden variables: in `function f(x){} function g(y,x){print(x);}` the
   `x` of `g` is the `x` of `f`, and prints `y`.

Seen while modelling; the models behave like the code, and the properties say so in their premises:

5. `argument()` clears `retval` and assigns to it, which clears it again (dispatcher.c 270): a table that was
   there loses two references (`uncounted` in `CountsExact`).
6. `execute_funcenter` (dispatcher.c 705) subtracts from the unsigned `top` without the test of `avm_dec_top` (`"wild"` in `AvmFrames`).
7. `get_lib_name_index` (avm.c 929) returns no value for unknown names; `return;` (target.c 536) is an assignment of
   an operand that the machine cannot translate.
8. In a function, the loop of `lvalue` (parser.y 523) goes on after it has found a name: a formal hides
   a `local` of the same name (`shadowed` in `NamesResolve`).
9. A syntax error in the step of a `for` leaves two quads unwritten, and code is generated from them (`CrashExplained`). A text that
   breaks off inside of a function, or loses a function's head to an error, leaves FUNC_START without FUNC_END: the jump around the function and
   its returns are never patched (the jump leads to instruction 0), and its number of locals stays unset. `main` ignores what `yyparse`
   returns (parser.y 1547), so this code is written, too (premise of `FunctionsClosed`: functions that are left).
10. `return` outside of a function takes the head of an empty stack (target.c 540); `returnList` is used uninitialized (`CrashExplained`).
11. Elements go to every list that is open (parser.y 886-906): `f([1,2],3)` passes four arguments, and `[f(1,2)]` has the
   elements 1, 2 and the result. `functor` (parser.y 744) is not seen by `call["()"]`, and stays until a function with formals comes
   along (premises of `OwnElements` and `ThisOfMembers`).
12. `globals` is counted by names (target.c 148): a global that has the name of an earlier formal or local, or that no
   quad uses, is not counted, and its cell belongs to the machine's stack (premise of `GlobalsReserved`).
13. After a syntax error in a function inside a constructor with keys, the lists of keys and values may differ in length, and the
   loop at parser.y 974 never ends (`hung`). Syntax errors do not set `error_flag`: code is written all the same.
14. The warning of an absent element leaves `start` set (dispatcher.c 950): the next `print()` shows `<index>` for the table of that
   warning wherever it comes up. A table that is reached after a nested one has ended is no longer known
   (dispatcher.c 1379), so that a ring behind a branch is printed until the C stack ends. An element whose key and value
   are both tables is printed `<index>:<index>` when neither is known.
15. A syntax error between the arguments of a function and its block finds the stacks of loops already put aside (parser.y 1208-1236), and
   nothing brings them back: in `while(x){ function f() ; }` the end of the loop reads `while_end_label_stack->num` with NULL
   (parser.y 1437; `LoopFails`).
16. By reading only: `user_func_expand` (target.c 96) allocates pointers for functions that are stored by value;
   the loader (avm.c 799, 838, 873) reads one byte of each opcode and type, and strings without a terminator, into memory that it
   takes to be zero; `div_impl` (dispatcher.c 560) tests its numerator; `avm_tablenew` (avm.c 412) and `new_table_bucket` (avm.c 497)
   end without a return statement, and the models take what was built to be what is returned. A null operand is read as type 255, never as NULL (avm.c 809):
   `Operand` behaves like that.

## 6. Not modelled, and the plan

To model: the checks of types (`check_types`, definitions.c 236), which only decide whether the compiler stops; the remaining library
functions, whose results are any value here; scopes and expressions in one module, for which the names of
`Expressions` would be looked up by `SymbolTable`.

Left out for good: the scanner (a generated lexer), the wording of messages, the numerics of
`double`, the contents of strings, the sizes of allocations, files that the compiler has not written.
