----------------------------- MODULE AvmTables -----------------------------
(***************************************************************************)
(* Tables and their reference counts: avm_assign, avm_memcellclear,        *)
(* avm_tabledestroy and the instructions and library functions that use    *)
(* them.  A cell is a cell of stack[], the retval register, or the key or  *)
(* the value of an element of a table; what matters of its contents is the *)
(* table it holds, if any (everything else is Plain).                      *)
(*                                                                         *)
(* avm_memcellclear and avm_tabledestroy call each other.  That recursion  *)
(* is taken apart: work is the set of cells that are still to be cleared,  *)
(* after is what the function that began it does when it comes back.       *)
(*                                                                         *)
(* Which cells of the stack are in use is the concern of AvmFrames: here   *)
(* any of them may be assigned, and any may be overwritten as a free one.  *)
(***************************************************************************)
EXTENDS Integers, FiniteSets

CONSTANTS
  Stack,     \* cells of stack[]
  retval,    \* the register
  Tables,    \* the tables that a program creates, at most
  HashKeys,  \* numbers, standing for strings and user functions as well
  BoolKeys,  \* true, false
  HashSize,  \* AVM_TABLE_HASHSIZE
  Builtins,  \* of objectcopy, objectmemberkeys and argument, those in use
  MaxLost,   \* bound: references of a table that overwriting may lose
  MaxElements, \* bound: elements that exist at a time
  Plain,     \* no table
  None

Slots  == Stack \cup {retval}
Keys   == HashKeys \cup BoolKeys \cup Tables
KeyCell(t, k)   == <<t, k, "key">>
ValueCell(t, k) == <<t, k, "value">>
Elements == Tables \X Keys \X {"key", "value"}
Cells    == Slots \cup Elements

(* What avm_assign still has to do: copy from into dest, count the         *)
(* reference, and go on or stop; again: to begin with clearing dest anew.  *)
After == [dest : Cells, from : Cells \cup Tables \cup {Plain},
          again : BOOLEAN, status : {"running", "finished"}]

ASSUME TablesAssumption ==
  /\ IsFiniteSet(Stack) /\ IsFiniteSet(Tables)
  /\ IsFiniteSet(HashKeys) /\ IsFiniteSet(BoolKeys)
  /\ HashKeys \subseteq Nat /\ HashSize \in Nat \ {0} /\ MaxLost \in Nat
  /\ MaxElements \in Nat
  /\ HashKeys \cap BoolKeys = {} /\ (HashKeys \cup BoolKeys) \cap Tables = {}
  /\ Slots \cap Elements = {} /\ retval \notin Stack
  /\ Plain \notin Cells \cup Tables /\ Tables \cap Cells = {}
  /\ None \notin After

VARIABLES
  holds,     \* the table that a cell holds, or Plain
  buckets,   \* the elements that exist: <<table, key>>
  refs,      \* refCounter
  created,   \* the tables that avm_tablenew has returned
  work,
  after,
  status,    \* "running", or how the machine stopped
  uncounted, \* history: cells that hold a table they have no reference to
  lost,      \* history: references of a table whose cell is gone
  overdrawn  \* history: a cell has given back a reference it did not have

vars == <<holds, buckets, refs, created, work, after, status, uncounted,
          lost, overdrawn>>

TypeOK ==
  /\ holds \in [Cells -> Tables \cup {Plain}]
  /\ buckets \subseteq Tables \X Keys
  /\ refs \in [Tables -> Nat]
  /\ created \subseteq Tables
  /\ work \subseteq Cells
  /\ after \in After \cup {None} /\ (after = None => work = {})
  /\ status \in {"running", "finished", "aborted", "wild"}
  /\ uncounted \subseteq Cells
  /\ lost \in [Tables -> Nat]
  /\ overdrawn \in BOOLEAN

Init ==
  /\ holds = [c \in Cells |-> Plain]
  /\ buckets = {}
  /\ refs = [t \in Tables |-> 0] /\ lost = [t \in Tables |-> 0]
  /\ created = {}
  /\ work = {} /\ after = None
  /\ status = "running"
  /\ uncounted = {} /\ overdrawn = FALSE

-----------------------------------------------------------------------------
(* Cells *)

IsTable(c) == holds[c] # Plain

(* Key and value of element <<t, k>> when it exists. *)
CellsAt(b) == {KeyCell(b[1], b[2]), ValueCell(b[1], b[2])}

(* An element whose bucket has been freed, or is being freed. *)
Freed(c) == c \in Elements /\ <<c[1], c[2]>> \notin buckets

Read(from) == IF from \in Cells THEN holds[from] ELSE from

Incref(r, v) == IF v = Plain THEN r ELSE [r EXCEPT ![v] = @ + 1]

Holders(t) == {c \in Cells : holds[c] = t} \ uncounted

Idle == status = "running" /\ after = None

-----------------------------------------------------------------------------
(* avm_memcellclear *)

(* avm_tablebucketdestroy only ever looks at the first of its buckets,     *)
(* p[0], and forgets the others with what they hold.                       *)
InFirstBucket(b) == b[2] \in HashKeys => b[2] % HashSize = 0

OfTable(t)    == {b \in buckets : b[1] = t}
Walked(t)     == {b \in OfTable(t) : InFirstBucket(b)}
Forgotten(t)  == {b \in OfTable(t) : ~InFirstBucket(b)}
CellsOf(bs)   == UNION {CellsAt(b) : b \in bs}

(* The buckets of true and false are cleared but stay where they are. *)
Kept(t) == {b \in OfTable(t) : b[2] \in BoolKeys}

(* A wrong Destroy: the elements are freed without being cleared. *)
DestroyForgetsAll(c, t) ==
  /\ buckets' = buckets \ (OfTable(t) \ Kept(t))
  /\ work' = work \ {c}
  /\ holds' = [d \in Cells |->
                 IF d \in CellsOf(OfTable(t) \ Kept(t)) \/ (d = c /\ Freed(c))
                 THEN Plain ELSE holds[d]]
  /\ lost' = lost

(* avm_tabledestroy; c is the cell that held the last reference.           *)
Destroy(c, t) ==
  /\ buckets' = buckets \ (OfTable(t) \ Kept(t))
  /\ work' = (work \ {c}) \cup CellsOf(Walked(t))
  /\ holds' = [d \in Cells |->
                 IF d \in CellsOf(Forgotten(t)) \/ (d = c /\ Freed(c))
                 THEN Plain ELSE holds[d]]
  /\ lost' = [u \in Tables |->
                lost[u] + Cardinality(Holders(u) \cap CellsOf(Forgotten(t)))]

(* A wrong ClearCell: the assertion is not there. *)
ClearCellUnchecked(c) ==
  /\ status = "running" /\ c \in work /\ IsTable(c)
  /\ refs' = [refs EXCEPT ![holds[c]] = @ - 1]
  /\ overdrawn' = (overdrawn \/ c \in uncounted)
  /\ uncounted' = IF Freed(c) THEN uncounted \ {c} ELSE uncounted \cup {c}
  /\ work' = work \ {c}
  /\ holds' = IF Freed(c) THEN [holds EXCEPT ![c] = Plain] ELSE holds
  /\ UNCHANGED <<created, after, status, buckets, lost>>

(* The cells of one bucket list are cleared in its order, each with all it *)
(* sets off before the next; any order is allowed here.                    *)
ClearCell(c) ==
  /\ status = "running" /\ c \in work /\ IsTable(c)
  /\ refs[holds[c]] > 0
  /\ refs' = [refs EXCEPT ![holds[c]] = @ - 1]
  /\ overdrawn' = (overdrawn \/ c \in uncounted)
  \* a cell that is not freed keeps its type: it still looks like a table
  /\ uncounted' = (IF Freed(c) THEN uncounted \ {c} ELSE uncounted \cup {c})
                     \ (IF refs[holds[c]] = 1
                        THEN CellsOf(Forgotten(holds[c])) ELSE {})
  /\ IF refs[holds[c]] = 1 THEN Destroy(c, holds[c])
     ELSE /\ work' = work \ {c}
          /\ holds' = IF Freed(c) THEN [holds EXCEPT ![c] = Plain] ELSE holds
          /\ UNCHANGED <<buckets, lost>>
  /\ UNCHANGED <<created, after, status>>

ClearPlain(c) ==
  /\ status = "running" /\ c \in work /\ ~IsTable(c)
  /\ work' = work \ {c}
  /\ UNCHANGED <<holds, buckets, refs, created, after, status, uncounted,
                 lost, overdrawn>>

(* assert(t->refCounter > 0) *)
CountAssertFails(c) ==
  /\ status = "running" /\ c \in work /\ IsTable(c)
  /\ refs[holds[c]] = 0
  /\ status' = "aborted"
  /\ UNCHANGED <<holds, buckets, refs, created, work, after, uncounted, lost,
                 overdrawn>>

Clear == \E c \in work : ClearCell(c) \/ ClearPlain(c) \/ CountAssertFails(c)

-----------------------------------------------------------------------------
(* avm_assign *)

(* avm_memcellclear(dest), then the rest. *)
Begin(dest, from, again, then) ==
  /\ work' = {dest}
  /\ after' = [dest |-> dest, from |-> from, again |-> again, status |-> then]

(* The early returns of avm_assign. *)
SameContents(dest, from) ==
  dest = from \/ (holds[dest] # Plain /\ holds[dest] = Read(from))

(* The contents of from replace those of dest. *)
Store(dest, from) ==
  /\ holds' = [holds EXCEPT ![dest] = Read(from)]
  /\ refs' = Incref(refs, Read(from))
  /\ uncounted' = uncounted \ {dest}

(* A wrong Finish: the reference is not counted. *)
FinishUncounted ==
  /\ status = "running" /\ after # None /\ work = {}
  /\ ~after.again /\ ~Freed(after.dest) /\ ~Freed(after.from)
  /\ holds' = [holds EXCEPT ![after.dest] = Read(after.from)]
  /\ uncounted' = uncounted \ {after.dest}
  /\ after' = None /\ status' = after.status
  /\ UNCHANGED <<refs, buckets, created, work, lost, overdrawn>>

Finish ==
  /\ status = "running" /\ after # None /\ work = {}
  /\ ~after.again /\ ~Freed(after.dest) /\ ~Freed(after.from)
  /\ Store(after.dest, after.from)
  /\ after' = None /\ status' = after.status
  /\ UNCHANGED <<buckets, created, work, lost, overdrawn>>

(* A wrong FinishClearing: it forgets what it has done. *)
FinishClearingAgain ==
  /\ status = "running" /\ after # None /\ work = {} /\ after.again
  /\ Begin(after.dest, after.from, TRUE, after.status)
  /\ UNCHANGED <<holds, buckets, refs, created, status, uncounted, lost,
                 overdrawn>>

(* libfunc_argument calls avm_assign for a cell it has just cleared. *)
FinishClearing ==
  /\ status = "running" /\ after # None /\ work = {} /\ after.again
  /\ IF SameContents(after.dest, after.from)
     THEN after' = None /\ UNCHANGED work
     ELSE Begin(after.dest, after.from, FALSE, after.status)
  /\ UNCHANGED <<holds, buckets, refs, created, status, uncounted, lost,
                 overdrawn>>

(* The element that is assigned, or assigned to, has gone in the meantime: *)
(* freed, or forgotten.  What happens then is not followed any further.    *)
WildAssign ==
  /\ status = "running" /\ after # None /\ work = {} /\ ~after.again
  /\ Freed(after.dest) \/ Freed(after.from)
  /\ status' = "wild"
  /\ UNCHANGED <<holds, buckets, refs, created, work, after, uncounted, lost,
                 overdrawn>>

Assigning(dest, from) ==
  IF SameContents(dest, from) THEN UNCHANGED <<work, after>>
  ELSE Begin(dest, from, FALSE, "running")

-----------------------------------------------------------------------------
(* Instructions *)

(* execute_assign, execute_pusharg; from is Plain for a constant, and for  *)
(* what arithmetic and most library functions leave in their result.       *)
Assign(dest, from) ==
  /\ Idle
  /\ Assigning(dest, from)
  /\ UNCHANGED <<holds, buckets, refs, created, status, uncounted, lost,
                 overdrawn>>

NewTable(dest, t) ==
  /\ Idle /\ t \notin created
  /\ created' = created \cup {t}
  /\ Begin(dest, t, FALSE, "running")
  /\ UNCHANGED <<holds, buckets, refs, status, uncounted, lost, overdrawn>>

(* The key that an index operand denotes; nil and undefined values fail an *)
(* assertion.                                                              *)
IndexKeys(i) == IF i \in Stack THEN {holds[i]} \ {Plain} ELSE {i}

(* A wrong GetElem: the temporary that holds the table is taken again. *)
GetElemReusing(dest, s, i) ==
  /\ Idle /\ dest # i
  /\ IF IsTable(s)
     THEN \E k \in IndexKeys(i) :
            Begin(dest, IF <<holds[s], k>> \in buckets
                        THEN ValueCell(holds[s], k) ELSE Plain,
                  FALSE, "running")
     ELSE Begin(dest, Plain, FALSE, "finished")
  /\ UNCHANGED <<holds, buckets, refs, created, status, uncounted, lost,
                 overdrawn>>

(* dest, a temporary of its own, is cleared, then the element is looked up; *)
(* an absent one leaves nil and a warning.                                 *)
GetElem(dest, s, i) ==
  /\ Idle /\ dest \notin {s, i}
  /\ IF IsTable(s)
     THEN \E k \in IndexKeys(i) :
            Begin(dest, IF <<holds[s], k>> \in buckets
                        THEN ValueCell(holds[s], k) ELSE Plain,
                  FALSE, "running")
     ELSE Begin(dest, Plain, FALSE, "finished")
  /\ UNCHANGED <<holds, buckets, refs, created, status, uncounted, lost,
                 overdrawn>>

(* A wrong SetElem: a table that is a key is not counted. *)
SetElemKeyUncounted(s, i, from) ==
  /\ Idle /\ IsTable(s)
  /\ \E k \in IndexKeys(i) :
       LET t == holds[s] IN
       IF <<t, k>> \in buckets
       THEN /\ Assigning(ValueCell(t, k), from)
            /\ UNCHANGED <<holds, buckets, refs, uncounted>>
       ELSE /\ Cardinality(buckets) < MaxElements
            /\ buckets' = buckets \cup {<<t, k>>}
            /\ holds' = [holds EXCEPT
                 ![KeyCell(t, k)] = IF k \in Tables THEN k ELSE Plain,
                 ![ValueCell(t, k)] = Read(from)]
            /\ refs' = Incref(refs, Read(from))
            /\ uncounted' = uncounted \ CellsAt(<<t, k>>)
            /\ UNCHANGED <<work, after>>
  /\ UNCHANGED <<created, status, lost, overdrawn>>

(* avm_tablesetelem: a new element counts its key, too, when it is a table.*)
SetElem(s, i, from) ==
  /\ Idle /\ IsTable(s)
  /\ \E k \in IndexKeys(i) :
       LET t   == holds[s]
           key == IF k \in Tables THEN k ELSE Plain
       IN
       IF <<t, k>> \in buckets
       THEN /\ Assigning(ValueCell(t, k), from)
            /\ UNCHANGED <<holds, buckets, refs, uncounted>>
       ELSE /\ Cardinality(buckets) < MaxElements
            /\ buckets' = buckets \cup {<<t, k>>}
            /\ holds' = [holds EXCEPT ![KeyCell(t, k)]   = key,
                                      ![ValueCell(t, k)] = Read(from)]
            /\ refs' = Incref(Incref(refs, key), Read(from))
            /\ uncounted' = uncounted \ CellsAt(<<t, k>>)
            /\ UNCHANGED <<work, after>>
  /\ UNCHANGED <<created, status, lost, overdrawn>>

(* s is no table, or the index is nil or undefined. *)
Fails(how) ==
  /\ Idle /\ \E s \in Stack : ~IsTable(s)
  /\ status' = how
  /\ UNCHANGED <<holds, buckets, refs, created, work, after, uncounted, lost,
                 overdrawn>>

(* avm_push_envvalue writes over a free cell; input(), and a library       *)
(* function called with a wrong number of arguments, over retval.          *)
Overwrite(c) ==
  /\ Idle
  /\ IsTable(c) /\ c \notin uncounted => lost[holds[c]] < MaxLost
  /\ holds' = [holds EXCEPT ![c] = Plain]
  /\ lost' = IF c \in uncounted THEN lost ELSE Incref(lost, holds[c])
  /\ uncounted' = uncounted \ {c}
  /\ UNCHANGED <<buckets, refs, created, work, after, status, overdrawn>>

(* A wrong ReturnClears: a plain avm_memcellclear. *)
ReturnClearsUncounted(c) ==
  /\ Idle
  /\ Begin(c, c, TRUE, "running")
  /\ UNCHANGED <<holds, buckets, refs, created, status, uncounted, lost,
                 overdrawn>>

(* The loop of execute_funcexit: a table is counted once more and cleared, *)
(* which leaves the cell as it is, unless nothing was counted before.      *)
ReturnClears(c) ==
  /\ Idle
  /\ IF IsTable(c) /\ refs[holds[c]] = 0
     THEN /\ Destroy(c, holds[c])
          /\ after' = [dest |-> c, from |-> c, again |-> TRUE,
                       status |-> "running"]
          /\ uncounted' = uncounted \ CellsOf(Forgotten(holds[c]))
     ELSE UNCHANGED <<holds, buckets, work, after, lost, uncounted>>
  /\ UNCHANGED <<refs, created, status, overdrawn>>

-----------------------------------------------------------------------------
(* Library functions that return tables or other people's cells *)

ElementsOf(t) == {k \in Keys : <<t, k>> \in buckets}

(* A new table n with the elements e goes to retval: the table that retval *)
(* held is not given back, and the one it holds now is not counted.        *)
Return(n, e) ==
  /\ n \in Tables \ created /\ created' = created \cup {n}
  /\ IsTable(retval) /\ retval \notin uncounted => lost[holds[retval]] < MaxLost
  /\ buckets' = buckets \cup {<<n, k>> : k \in DOMAIN e}
  /\ Cardinality(buckets') <= MaxElements
  /\ holds' = [c \in Cells |->
       IF c = retval THEN n
       ELSE IF c \in {KeyCell(n, k) : k \in DOMAIN e \cap Tables} THEN c[2]
       ELSE IF c \in {ValueCell(n, k) : k \in DOMAIN e} THEN e[c[2]]
       ELSE holds[c]]
  /\ refs' = [u \in Tables |->
       refs[u] + Cardinality({k \in DOMAIN e : e[k] = u})
               + (IF u \in DOMAIN e THEN 1 ELSE 0)]
  /\ lost' = IF retval \in uncounted THEN lost ELSE Incref(lost, holds[retval])
  /\ uncounted' = uncounted \cup {retval}
  /\ UNCHANGED <<work, after, status, overdrawn>>

ObjectCopy(s, n) ==
  /\ Idle /\ "objectcopy" \in Builtins
  /\ IsTable(s)
  /\ Return(n, [k \in ElementsOf(holds[s]) |-> holds[ValueCell(holds[s], k)]])

(* The keys, numbered from 0: hash tables first, then tables, then booleans*)
ObjectMemberKeys(s, n) ==
  /\ Idle /\ "objectmemberkeys" \in Builtins
  /\ IsTable(s)
  /\ LET ks    == ElementsOf(holds[s])
         first == Cardinality(ks \cap HashKeys)
         last  == first + Cardinality(ks \cap Tables) - 1
     IN /\ 0 .. Cardinality(ks) - 1 \subseteq HashKeys
        /\ \E order \in [first .. last -> ks \cap Tables] :
             /\ \A k \in ks \cap Tables : \E i \in first .. last : order[i] = k
             /\ Return(n, [i \in 0 .. Cardinality(ks) - 1 |->
                             IF i \in first .. last THEN order[i] ELSE Plain])

(* Either of them with a wrong number of arguments. *)
EmptyResult(n) ==
  /\ Idle /\ Builtins \cap {"objectcopy", "objectmemberkeys"} # {}
  /\ Return(n, [k \in {} |-> Plain])

(* argument(): avm_assign clears retval a second time. *)
Argument(c) ==
  /\ Idle /\ "argument" \in Builtins
  /\ Begin(retval, c, TRUE, "running")
  /\ UNCHANGED <<holds, buckets, refs, created, status, uncounted, lost,
                 overdrawn>>

Stopped == status # "running" /\ UNCHANGED vars

Next ==
  \/ Clear \/ Finish \/ FinishClearing \/ WildAssign
  \/ \E c \in Slots : Overwrite(c) \/ \E f \in Stack \cup {retval, Plain} : Assign(c, f)
  \/ \E c \in Stack : ReturnClears(c) \/ Argument(c)
  \/ \E c \in Stack, t \in Tables : NewTable(c, t)
  \/ \E s \in Stack, i \in Stack \cup HashKeys \cup BoolKeys :
       \/ \E c \in Stack : GetElem(c, s, i)
       \/ \E f \in Stack \cup {Plain} : SetElem(s, i, f)
  \/ \E s \in Stack, n \in Tables : ObjectCopy(s, n) \/ ObjectMemberKeys(s, n)
  \/ \E n \in Tables : EmptyResult(n)
  \/ Fails("finished") \/ Fails("aborted")
  \/ Stopped

Spec == Init /\ [][Next]_vars

(* The functions that have begun run to their end. *)
FairSpec == Spec /\ WF_vars(Clear) /\ WF_vars(Finish) /\ WF_vars(FinishClearing)
                 /\ WF_vars(WildAssign)

-----------------------------------------------------------------------------
(* Correctness *)

(* refCounter is the number of cells that hold the table and have counted  *)
(* it, and of the references that were lost with their cell, in the middle *)
(* of a destruction as well, until a cell is cleared twice.                *)
CountsExact ==
  ~overdrawn => \A t \in Tables : refs[t] = Cardinality(Holders(t)) + lost[t]

(* assert(t->refCounter > 0) of avm_tabledecrefcounter does not fail.      *)
CountAssertHolds ==
  status = "running" => \A c \in work : IsTable(c) => refs[holds[c]] > 0

(* avm_assign clears before it copies, and so do the instructions that     *)
(* fetch an element.  What is to be copied, and where to, must outlive the *)
(* clearing, whatever table that destroys, until a cell is cleared twice.  *)
SourcesRemain == ~overdrawn => status # "wild"

(* The same assertion for the cells of the stack, the temporaries that     *)
(* GETRETVAL fills among them: the table of such a cell is counted when it *)
(* is assigned to and when a return clears it.                             *)
StackCountAssertHolds ==
  status = "running" =>
    \A c \in work \cap Stack : IsTable(c) => refs[holds[c]] > 0

(* Destroying a table, and all that it was the last to hold, comes to an   *)
(* end, also for tables that contain each other.                           *)
ClearingEnds == after # None ~> (after = None \/ status # "running")

(* Counting is invisible: as long as no cell is miscounted, every table    *)
(* that a variable leads to has its elements, whatever is being destroyed. *)
Afterwards(c) ==
  IF after # None /\ after.dest = c THEN Read(after.from) ELSE holds[c]

Contents == {<<b[1], b[2], Afterwards(ValueCell(b[1], b[2]))>> : b \in buckets}

AllOf == INSTANCE TableMemory WITH
  var <- [s \in Slots |-> Afterwards(s)], obj <- Contents

TM == INSTANCE TableMemory WITH
  var <- [s \in Slots |-> Afterwards(s)],
  obj <- AllOf!Visible([s \in Slots |-> Afterwards(s)], Contents)

ImplementsMemory == TM!Spec

=============================================================================
