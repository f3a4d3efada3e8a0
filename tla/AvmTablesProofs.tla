-------------------------- MODULE AvmTablesProofs --------------------------
(***************************************************************************)
(* Theorems about reference counting, for any finite numbers of stack      *)
(* cells, tables and keys, any hash size and any set of library functions. *)
(***************************************************************************)
EXTENDS AvmTables, FiniteSetTheorems, TLAPS

-----------------------------------------------------------------------------
(* Cells *)

LEMMA ElementFacts ==
  ASSUME NEW c \in Elements
  PROVE  /\ c[1] \in Tables /\ c[2] \in Keys /\ c[3] \in {"key", "value"}
         /\ c = <<c[1], c[2], c[3]>>
         /\ c \in Cells /\ c \notin Slots
         /\ c = KeyCell(c[1], c[2]) \/ c = ValueCell(c[1], c[2])
BY TablesAssumption DEF Elements, Cells, KeyCell, ValueCell

LEMMA ElementCells ==
  ASSUME NEW t \in Tables, NEW k \in Keys
  PROVE  /\ KeyCell(t, k) \in Elements /\ ValueCell(t, k) \in Elements
         /\ KeyCell(t, k) \in Cells /\ ValueCell(t, k) \in Cells
         /\ KeyCell(t, k) # ValueCell(t, k)
         /\ KeyCell(t, k)[1] = t /\ ValueCell(t, k)[1] = t
         /\ KeyCell(t, k)[2] = k /\ ValueCell(t, k)[2] = k
BY DEF Elements, Cells, KeyCell, ValueCell

LEMMA SlotFacts ==
  /\ Stack \subseteq Slots /\ retval \in Slots /\ Slots \subseteq Cells
  /\ \A c \in Slots : c \notin Elements
  /\ \A c \in Cells : c \in Slots \/ c \in Elements
BY TablesAssumption DEF Slots, Cells

LEMMA KeysFinite == IsFiniteSet(Keys)
<1>1. IsFiniteSet(HashKeys \cup BoolKeys)
  BY TablesAssumption, FS_Union
<1>2. QED
  BY <1>1, TablesAssumption, FS_Union DEF Keys

LEMMA CellsFinite == IsFiniteSet(Cells)
<1> DEFINE Kinds == {"key", "value"}
           Pairs == (Tables \X Keys) \X Kinds
           f     == [x \in Pairs |-> <<x[1][1], x[1][2], x[2]>>]
<1>1. IsFiniteSet(Kinds)
  <2>1. IsFiniteSet({"key"}) /\ IsFiniteSet({"value"})
    BY FS_Singleton
  <2>2. Kinds = {"key"} \cup {"value"}
    OBVIOUS
  <2>3. IsFiniteSet({"key"} \cup {"value"})
    BY <2>1, FS_Union
  <2>4. QED
    BY <2>2, <2>3
<1>2. IsFiniteSet(Tables \X Keys)
  BY KeysFinite, TablesAssumption, FS_Product
<1> HIDE DEF Kinds
<1>3. IsFiniteSet(Pairs)
  BY <1>1, <1>2, FS_Product
<1>4. f \in Surjection(Pairs, Elements)
  <2>1. \A x \in Pairs : f[x] \in Elements
    BY DEF Elements, Kinds
  <2>2. ASSUME NEW c \in Elements PROVE \E x \in Pairs : f[x] = c
    <3>1. <<<<c[1], c[2]>>, c[3]>> \in Pairs
      BY ElementFacts DEF Kinds
    <3>2. f[<<<<c[1], c[2]>>, c[3]>>] = c
      BY <3>1, ElementFacts
    <3>3. QED
      BY <3>1, <3>2
  <2> HIDE DEF Pairs
  <2>3. QED
    BY <2>1, <2>2 DEF Surjection
<1>5. IsFiniteSet(Elements)
  BY <1>3, <1>4, FS_Surjection
<1>6. IsFiniteSet(Slots)
  BY TablesAssumption, FS_AddElement DEF Slots
<1>7. QED
  BY <1>5, <1>6, FS_Union DEF Cells

LEMMA HoldersFinite ==
  ASSUME NEW u
  PROVE  /\ IsFiniteSet(Holders(u)) /\ Cardinality(Holders(u)) \in Nat
         /\ Holders(u) \subseteq Cells
<1>1. Holders(u) \subseteq Cells
  BY DEF Holders
<1>2. QED
  BY <1>1, CellsFinite, FS_Subset, FS_CardinalityType

-----------------------------------------------------------------------------
(* Types *)

LEMMA CellsOfTable ==
  ASSUME TypeOK, NEW bs, bs \subseteq buckets
  PROVE  /\ CellsOf(bs) \subseteq Elements
         /\ \A c \in Elements : c \in CellsOf(bs) <=> <<c[1], c[2]>> \in bs
<1>1. \A b \in bs : b[1] \in Tables /\ b[2] \in Keys /\ b = <<b[1], b[2]>>
  BY DEF TypeOK
<1>2. CellsOf(bs) \subseteq Elements
  BY <1>1, ElementCells DEF CellsOf, CellsAt
<1>3. ASSUME NEW c \in Elements, c \in CellsOf(bs)
      PROVE  <<c[1], c[2]>> \in bs
  <2>1. PICK b \in bs : c \in CellsAt(b)
    BY <1>3 DEF CellsOf
  <2>2. c[1] = b[1] /\ c[2] = b[2]
    BY <1>1, <2>1, ElementCells DEF CellsAt
  <2>3. QED
    BY <1>1, <2>2
<1>4. ASSUME NEW c \in Elements, <<c[1], c[2]>> \in bs
      PROVE  c \in CellsOf(bs)
  <2>1. c \in CellsAt(<<c[1], c[2]>>)
    BY ElementFacts DEF CellsAt
  <2>2. QED
    BY <1>4, <2>1 DEF CellsOf
<1>5. QED
  BY <1>2, <1>3, <1>4

LEMMA ReadType ==
  ASSUME TypeOK, NEW from \in Cells \cup Tables \cup {Plain}
  PROVE  Read(from) \in Tables \cup {Plain}
BY TablesAssumption DEF Read, TypeOK

LEMMA IncrefType ==
  ASSUME NEW r \in [Tables -> Nat], NEW v \in Tables \cup {Plain}
  PROVE  /\ Incref(r, v) \in [Tables -> Nat]
         /\ \A u \in Tables : Incref(r, v)[u] = IF u = v THEN r[u] + 1 ELSE r[u]
BY TablesAssumption DEF Incref

LEMMA BeginType ==
  ASSUME NEW dest \in Cells, NEW from \in Cells \cup Tables \cup {Plain},
         NEW again \in BOOLEAN, NEW then \in {"running", "finished"},
         Begin(dest, from, again, then)
  PROVE  /\ work' = {dest} /\ work' \subseteq Cells
         /\ after' \in After /\ after' # None
         /\ after'.dest = dest /\ after'.from = from
         /\ after'.again = again /\ after'.status = then
BY TablesAssumption DEF Begin, After

LEMMA DestroyType ==
  ASSUME TypeOK, NEW c \in Cells, NEW t \in Tables, Destroy(c, t)
  PROVE  /\ holds' \in [Cells -> Tables \cup {Plain}]
         /\ buckets' \subseteq Tables \X Keys
         /\ work' \subseteq Cells
         /\ lost' \in [Tables -> Nat]
<1>1. CellsOf(Walked(t)) \subseteq Elements
  BY CellsOfTable DEF Walked, OfTable
<1>2. \A u \in Tables :
        Cardinality(Holders(u) \cap CellsOf(Forgotten(t))) \in Nat
  BY HoldersFinite, FS_Intersection, FS_CardinalityType
<1>3. holds' \in [Cells -> Tables \cup {Plain}]
  BY DEF Destroy, TypeOK
<1>4. lost' \in [Tables -> Nat]
  BY <1>2 DEF Destroy, TypeOK
<1>5. QED
  BY <1>1, <1>3, <1>4 DEF Destroy, TypeOK, Cells

LEMMA ReturnType ==
  ASSUME TypeOK, NEW n \in Tables, NEW e, DOMAIN e \subseteq Keys,
         \A k \in DOMAIN e : e[k] \in Tables \cup {Plain}, Return(n, e)
  PROVE  TypeOK'
<1>1. holds' \in [Cells -> Tables \cup {Plain}]
  <2>1. ASSUME NEW k \in DOMAIN e \cap Tables PROVE KeyCell(n, k)[2] \in Tables
    BY <2>1, ElementCells
  <2>2. ASSUME NEW k \in DOMAIN e
        PROVE  e[ValueCell(n, k)[2]] \in Tables \cup {Plain}
    BY <2>2, ElementCells
  <2>3. \A c \in Cells : holds'[c] \in Tables \cup {Plain}
    BY <2>1, <2>2 DEF Return, TypeOK
  <2>4. QED
    BY <2>3 DEF Return
<1>2. refs' \in [Tables -> Nat]
  <2>1. IsFiniteSet(Cells)
    BY CellsFinite
  <2>2. ASSUME NEW u \in Tables
        PROVE  Cardinality({k \in DOMAIN e : e[k] = u}) \in Nat
    BY KeysFinite, FS_Subset, FS_CardinalityType
  <2>3. QED
    BY <2>2 DEF Return, TypeOK
<1>3. lost' \in [Tables -> Nat]
  BY IncrefType, SlotFacts DEF Return, TypeOK
<1>4. buckets' \subseteq Tables \X Keys
  BY DEF Return, TypeOK
<1>5. created' \subseteq Tables /\ uncounted' \subseteq Cells
  BY SlotFacts DEF Return, TypeOK
<1>6. UNCHANGED <<work, after, status, overdrawn>>
  BY DEF Return
<1>7. QED
  BY <1>1, <1>2, <1>3, <1>4, <1>5, <1>6 DEF TypeOK

LEMMA ClearType ==
  ASSUME TypeOK, NEW c \in work, ClearCell(c) \/ ClearPlain(c) \/ CountAssertFails(c)
  PROVE  TypeOK'
<1>1. c \in Cells
  BY DEF TypeOK
<1>2. CASE ClearCell(c)
  <2>1. holds[c] \in Tables /\ refs[holds[c]] \in Nat /\ refs[holds[c]] > 0
    BY <1>1, <1>2 DEF ClearCell, IsTable, TypeOK
  <2>2. refs' \in [Tables -> Nat]
    BY <1>2, <2>1 DEF ClearCell, TypeOK
  <2>3. uncounted' \subseteq Cells
    BY <1>1, <1>2 DEF ClearCell, TypeOK
  <2>4. overdrawn' \in BOOLEAN
    BY <1>2 DEF ClearCell, TypeOK
  <2>5. /\ holds' \in [Cells -> Tables \cup {Plain}]
        /\ buckets' \subseteq Tables \X Keys
        /\ work' \subseteq Cells
        /\ lost' \in [Tables -> Nat]
    <3>1. CASE refs[holds[c]] = 1
      BY <1>1, <1>2, <2>1, <3>1, DestroyType DEF ClearCell
    <3>2. CASE refs[holds[c]] # 1
      <4>1. /\ work' = work \ {c} /\ buckets' = buckets /\ lost' = lost
            /\ holds' = holds \/ holds' = [holds EXCEPT ![c] = Plain]
        BY <1>2, <3>2 DEF ClearCell
      <4>2. QED
        BY <1>1, <4>1 DEF TypeOK
    <3>3. QED
      BY <3>1, <3>2
  <2>6. created' = created /\ after' = after /\ status' = status /\ after # None
    BY <1>2 DEF ClearCell, TypeOK
  <2>7. QED
    BY <2>2, <2>3, <2>4, <2>5, <2>6 DEF TypeOK
<1>3. CASE ClearPlain(c)
  BY <1>3 DEF ClearPlain, TypeOK
<1>4. CASE CountAssertFails(c)
  BY <1>4 DEF CountAssertFails, TypeOK
<1>5. QED
  BY <1>2, <1>3, <1>4

LEMMA AfterType ==
  ASSUME TypeOK, after # None
  PROVE  /\ after.dest \in Cells /\ after.from \in Cells \cup Tables \cup {Plain}
         /\ after.again \in BOOLEAN /\ after.status \in {"running", "finished"}
         /\ Read(after.from) \in Tables \cup {Plain}
<1>1. after \in After
  BY DEF TypeOK
<1>2. after.from \in Cells \cup Tables \cup {Plain}
  BY <1>1 DEF After
<1>3. Read(after.from) \in Tables \cup {Plain}
  BY <1>2, ReadType
<1>4. QED
  BY <1>1, <1>3 DEF After

LEMMA BeginKeepsTypes ==
  ASSUME TypeOK, NEW dest \in Cells, NEW from \in Cells \cup Tables \cup {Plain},
         NEW again \in BOOLEAN, NEW then \in {"running", "finished"},
         Begin(dest, from, again, then), created' \subseteq Tables,
         UNCHANGED <<holds, buckets, refs, status, uncounted, lost, overdrawn>>
  PROVE  TypeOK'
BY BeginType DEF TypeOK

LEMMA FinishType ==
  ASSUME TypeOK, Finish \/ FinishClearing \/ WildAssign
  PROVE  TypeOK'
<1>1. after # None
  BY DEF Finish, FinishClearing, WildAssign
<1>2. CASE Finish
  <2>1. refs' \in [Tables -> Nat]
    BY <1>1, <1>2, AfterType, IncrefType DEF Finish, Store, TypeOK
  <2>2. holds' \in [Cells -> Tables \cup {Plain}]
    BY <1>1, <1>2, AfterType DEF Finish, Store, TypeOK
  <2>3. uncounted' \subseteq Cells
    BY <1>2 DEF Finish, Store, TypeOK
  <2>4. /\ after' = None /\ status' \in {"running", "finished"} /\ work' = work
        /\ work = {} /\ UNCHANGED <<buckets, created, lost, overdrawn>>
    BY <1>1, <1>2, AfterType DEF Finish
  <2>5. QED
    BY <2>1, <2>2, <2>3, <2>4 DEF TypeOK
<1>3. CASE FinishClearing
  <2>1. CASE SameContents(after.dest, after.from)
    BY <1>3, <2>1 DEF FinishClearing, TypeOK
  <2>2. CASE ~SameContents(after.dest, after.from)
    <3>1. Begin(after.dest, after.from, FALSE, after.status) /\ created' \subseteq Tables
          /\ UNCHANGED <<holds, buckets, refs, status, uncounted, lost, overdrawn>>
      BY <1>3, <2>2 DEF FinishClearing, TypeOK
    <3>2. QED
      BY <1>1, <3>1, AfterType, BeginKeepsTypes
  <2>3. QED
    BY <2>1, <2>2
<1>4. CASE WildAssign
  BY <1>4 DEF WildAssign, TypeOK
<1>5. QED
  BY <1>2, <1>3, <1>4

(* The key that an index stands for. *)
LEMMA IndexKeysType ==
  ASSUME TypeOK, NEW i \in Stack \cup HashKeys \cup BoolKeys, NEW k \in IndexKeys(i)
  PROVE  k \in Keys
<1>1. CASE i \in Stack
  BY <1>1, SlotFacts DEF IndexKeys, TypeOK, Keys
<1>2. CASE i \notin Stack
  BY <1>2 DEF IndexKeys, Keys
<1>3. QED
  BY <1>1, <1>2

(* An element that exists is assigned, a new one is filled. *)
AssignsElement(t, k, f) ==
  /\ <<t, k>> \in buckets
  /\ Assigning(ValueCell(t, k), f)
  /\ UNCHANGED <<holds, buckets, refs, uncounted>>

KeyOf(k) == IF k \in Tables THEN k ELSE Plain

AddsElement(t, k, f) ==
  /\ <<t, k>> \notin buckets
  /\ buckets' = buckets \cup {<<t, k>>}
  /\ holds' = [holds EXCEPT ![KeyCell(t, k)]   = KeyOf(k),
                            ![ValueCell(t, k)] = Read(f)]
  /\ refs' = Incref(Incref(refs, KeyOf(k)), Read(f))
  /\ uncounted' = uncounted \ CellsAt(<<t, k>>)
  /\ UNCHANGED <<work, after>>

LEMMA SetElemCases ==
  ASSUME TypeOK, NEW s \in Stack, NEW i \in Stack \cup HashKeys \cup BoolKeys,
         NEW f, SetElem(s, i, f)
  PROVE  /\ Idle /\ holds[s] \in Tables
         /\ UNCHANGED <<created, status, lost, overdrawn>>
         /\ \E k \in Keys :
              /\ k \in HashKeys \cup BoolKeys \/ \E c \in Stack : k = holds[c]
              /\ \/ AssignsElement(holds[s], k, f)
                 \/ AddsElement(holds[s], k, f)
<1> DEFINE t == holds[s]
<1>1. t \in Tables
  BY SlotFacts DEF SetElem, IsTable, TypeOK
<1>2. PICK k \in IndexKeys(i) :
       LET key == IF k \in Tables THEN k ELSE Plain
       IN
       IF <<t, k>> \in buckets
       THEN /\ Assigning(ValueCell(t, k), f)
            /\ UNCHANGED <<holds, buckets, refs, uncounted>>
       ELSE /\ Cardinality(buckets) < MaxElements
            /\ buckets' = buckets \cup {<<t, k>>}
            /\ holds' = [holds EXCEPT ![KeyCell(t, k)]   = key,
                                      ![ValueCell(t, k)] = Read(f)]
            /\ refs' = Incref(Incref(refs, key), Read(f))
            /\ uncounted' = uncounted \ CellsAt(<<t, k>>)
            /\ UNCHANGED <<work, after>>
  BY DEF SetElem
<1>3. Idle /\ UNCHANGED <<created, status, lost, overdrawn>>
  BY DEF SetElem
<1>4. k \in Keys
  BY IndexKeysType
<1>5. k \in HashKeys \cup BoolKeys \/ \E c \in Stack : k = holds[c]
  BY SlotFacts DEF IndexKeys
<1>6. AssignsElement(t, k, f) \/ AddsElement(t, k, f)
  BY <1>2 DEF AssignsElement, AddsElement, KeyOf
<1>7. QED
  BY <1>1, <1>3, <1>4, <1>5, <1>6

LEMMA SetElemType ==
  ASSUME TypeOK, NEW s \in Stack, NEW i \in Stack \cup HashKeys \cup BoolKeys,
         NEW f \in Stack \cup {Plain}, SetElem(s, i, f)
  PROVE  TypeOK'
<1> DEFINE t == holds[s]
<1>1. t \in Tables /\ UNCHANGED <<created, status, lost, overdrawn>>
      /\ f \in Cells \cup Tables \cup {Plain}
  BY SetElemCases, SlotFacts
<1>2. PICK k \in Keys : AssignsElement(t, k, f) \/ AddsElement(t, k, f)
  BY SetElemCases
<1>3. ValueCell(t, k) \in Cells /\ KeyCell(t, k) \in Cells
  BY <1>1, ElementCells
<1> HIDE DEF t
<1>4. CASE AssignsElement(t, k, f)
  <2>1. CASE SameContents(ValueCell(t, k), f)
    BY <1>1, <1>4, <2>1 DEF AssignsElement, Assigning, TypeOK
  <2>2. CASE ~SameContents(ValueCell(t, k), f)
    <3>1. Begin(ValueCell(t, k), f, FALSE, "running") /\ created' \subseteq Tables
          /\ UNCHANGED <<holds, buckets, refs, status, uncounted, lost, overdrawn>>
      BY <1>1, <1>4, <2>2 DEF AssignsElement, Assigning, TypeOK
    <3>2. QED
      BY <1>1, <1>3, <3>1, BeginKeepsTypes
  <2>3. QED
    BY <2>1, <2>2
<1>5. CASE AddsElement(t, k, f)
  <2>1. KeyOf(k) \in Tables \cup {Plain} /\ Read(f) \in Tables \cup {Plain}
    BY <1>1, ReadType DEF KeyOf
  <2>2. Incref(refs, KeyOf(k)) \in [Tables -> Nat]
    BY <2>1, IncrefType DEF TypeOK
  <2>3. refs' \in [Tables -> Nat]
    BY <1>5, <2>1, <2>2, IncrefType DEF AddsElement
  <2>4. holds' \in [Cells -> Tables \cup {Plain}]
    BY <1>5, <2>1 DEF AddsElement, TypeOK
  <2>5. /\ buckets' \subseteq Tables \X Keys /\ uncounted' \subseteq Cells
        /\ UNCHANGED <<work, after>>
    BY <1>1, <1>5 DEF AddsElement, TypeOK
  <2>6. QED
    BY <1>1, <2>3, <2>4, <2>5 DEF TypeOK
<1>6. QED
  BY <1>2, <1>4, <1>5

LEMMA InstructionType ==
  ASSUME TypeOK
  PROVE  /\ \A c \in Slots, f \in Stack \cup {retval, Plain} : Assign(c, f) => TypeOK'
         /\ \A c \in Stack, t \in Tables : NewTable(c, t) => TypeOK'
         /\ \A c \in Stack, s \in Stack, i \in Stack \cup HashKeys \cup BoolKeys :
              GetElem(c, s, i) => TypeOK'
         /\ \A c \in Stack : Argument(c) => TypeOK'
<1>1. ASSUME NEW c \in Slots, NEW f \in Stack \cup {retval, Plain}, Assign(c, f)
      PROVE  TypeOK'
  <2>1. CASE SameContents(c, f)
    BY <1>1, <2>1 DEF Assign, Assigning, TypeOK
  <2>2. CASE ~SameContents(c, f)
    <3>1. Begin(c, f, FALSE, "running") /\ created' \subseteq Tables
          /\ UNCHANGED <<holds, buckets, refs, status, uncounted, lost, overdrawn>>
      BY <1>1, <2>2 DEF Assign, Assigning, TypeOK
    <3>2. c \in Cells /\ f \in Cells \cup Tables \cup {Plain}
      BY SlotFacts
    <3>3. QED
      BY <3>1, <3>2, BeginKeepsTypes
  <2>3. QED
    BY <2>1, <2>2
<1>2. ASSUME NEW c \in Stack, NEW t \in Tables, NewTable(c, t)
      PROVE  TypeOK'
  <2>1. Begin(c, t, FALSE, "running") /\ created' \subseteq Tables
        /\ UNCHANGED <<holds, buckets, refs, status, uncounted, lost, overdrawn>>
    BY <1>2 DEF NewTable, TypeOK
  <2>2. c \in Cells
    BY SlotFacts
  <2>3. QED
    BY <2>1, <2>2, BeginKeepsTypes
<1>3. ASSUME NEW c \in Stack, NEW s \in Stack,
             NEW i \in Stack \cup HashKeys \cup BoolKeys, GetElem(c, s, i)
      PROVE  TypeOK'
  <2>1. created' \subseteq Tables
        /\ UNCHANGED <<holds, buckets, refs, status, uncounted, lost, overdrawn>>
    BY <1>3 DEF GetElem, TypeOK
  <2>2. c \in Cells
    BY SlotFacts
  <2>3. CASE IsTable(s)
    <3>1. PICK k \in IndexKeys(i) :
            \/ Begin(c, ValueCell(holds[s], k), FALSE, "running")
            \/ Begin(c, Plain, FALSE, "running")
      BY <1>3, <2>3 DEF GetElem
    <3>2. holds[s] \in Tables
      BY <2>3, SlotFacts DEF IsTable, TypeOK
    <3>3. ValueCell(holds[s], k) \in Cells
      BY <3>2, IndexKeysType, ElementCells
    <3>4. QED
      BY <2>1, <2>2, <3>1, <3>3, BeginKeepsTypes
  <2>4. CASE ~IsTable(s)
    BY <1>3, <2>1, <2>2, <2>4, BeginKeepsTypes DEF GetElem
  <2>5. QED
    BY <2>3, <2>4
<1>4. ASSUME NEW c \in Stack, Argument(c)
      PROVE  TypeOK'
  <2>1. Begin(retval, c, TRUE, "running") /\ created' \subseteq Tables
        /\ UNCHANGED <<holds, buckets, refs, status, uncounted, lost, overdrawn>>
    BY <1>4 DEF Argument, TypeOK
  <2>2. retval \in Cells /\ c \in Cells
    BY SlotFacts
  <2>3. QED
    BY <2>1, <2>2, BeginKeepsTypes
<1>5. QED
  BY <1>1, <1>2, <1>3, <1>4

LEMMA OverwriteType ==
  ASSUME TypeOK, NEW c \in Slots, Overwrite(c)
  PROVE  TypeOK'
<1>1. c \in Cells /\ holds[c] \in Tables \cup {Plain}
  BY SlotFacts DEF TypeOK
<1>2. lost' \in [Tables -> Nat]
  BY <1>1, IncrefType DEF Overwrite, TypeOK
<1>3. QED
  BY <1>1, <1>2 DEF Overwrite, TypeOK

LEMMA ReturnClearsType ==
  ASSUME TypeOK, NEW c \in Stack, ReturnClears(c)
  PROVE  TypeOK'
<1>1. c \in Cells
  BY SlotFacts
<1>2. CASE IsTable(c) /\ refs[holds[c]] = 0
  <2>1. holds[c] \in Tables
    BY <1>1, <1>2 DEF IsTable, TypeOK
  <2>2. Destroy(c, holds[c])
    BY <1>2 DEF ReturnClears
  <2>3. after' = [dest |-> c, from |-> c, again |-> TRUE, status |-> "running"]
    BY <1>2 DEF ReturnClears
  <2>4. after' \in After /\ after' # None
    <3>1. after' \in After
      BY <1>1, <2>3 DEF After
    <3>2. QED
      BY <3>1, TablesAssumption
  <2>5. uncounted' \subseteq Cells /\ UNCHANGED <<refs, created, status, overdrawn>>
    BY <1>2 DEF ReturnClears, TypeOK
  <2>6. QED
    BY <1>1, <2>1, <2>2, <2>4, <2>5, DestroyType DEF TypeOK
<1>3. CASE ~(IsTable(c) /\ refs[holds[c]] = 0)
  BY <1>3 DEF ReturnClears, TypeOK
<1>4. QED
  BY <1>2, <1>3

(* What the library functions put into a new table. *)
UsedKeys == {k \in Keys : \E t \in Tables : <<t, k>> \in buckets}

LEMMA LibraryReturns ==
  ASSUME TypeOK, NEW n \in Tables,
         \/ \E s \in Stack : ObjectCopy(s, n) \/ ObjectMemberKeys(s, n)
         \/ EmptyResult(n)
  PROVE  /\ Idle /\ Builtins # {}
         /\ \E e : /\ Return(n, e)
                   /\ DOMAIN e \subseteq HashKeys \cup UsedKeys
                   /\ \A k \in DOMAIN e :
                        \/ e[k] = Plain
                        \/ e[k] \in UsedKeys \cap Tables
                        \/ \E c \in Cells : e[k] = holds[c]
<1>1. ASSUME NEW s \in Stack, IsTable(s)
      PROVE  holds[s] \in Tables /\ ElementsOf(holds[s]) \subseteq UsedKeys
  BY <1>1, SlotFacts DEF IsTable, TypeOK, ElementsOf, UsedKeys
<1>2. ASSUME NEW s \in Stack, ObjectCopy(s, n)
      PROVE  \E e : /\ Return(n, e)
                    /\ DOMAIN e \subseteq UsedKeys
                    /\ \A k \in DOMAIN e : \E c \in Cells : e[k] = holds[c]
  <2> DEFINE e == [k \in ElementsOf(holds[s]) |-> holds[ValueCell(holds[s], k)]]
  <2>1. holds[s] \in Tables /\ DOMAIN e \subseteq UsedKeys
    BY <1>1, <1>2 DEF ObjectCopy
  <2>2. \A k \in DOMAIN e : \E c \in Cells : e[k] = holds[c]
    BY <2>1, ElementCells DEF UsedKeys
  <2>3. Return(n, e)
    BY <1>2 DEF ObjectCopy
  <2> HIDE DEF e
  <2>4. QED
    BY <2>1, <2>2, <2>3
<1>3. ASSUME NEW s \in Stack, ObjectMemberKeys(s, n)
      PROVE  \E e : /\ Return(n, e)
                    /\ DOMAIN e \subseteq HashKeys
                    /\ \A k \in DOMAIN e : e[k] \in (UsedKeys \cap Tables) \cup {Plain}
  <2> DEFINE ks    == ElementsOf(holds[s])
             first == Cardinality(ks \cap HashKeys)
             last  == first + Cardinality(ks \cap Tables) - 1
  <2>1. PICK order \in [first .. last -> ks \cap Tables] :
           Return(n, [i \in 0 .. Cardinality(ks) - 1 |->
                        IF i \in first .. last THEN order[i] ELSE Plain])
    BY <1>3 DEF ObjectMemberKeys
  <2>2. 0 .. Cardinality(ks) - 1 \subseteq HashKeys /\ ks \subseteq UsedKeys
    BY <1>1, <1>3 DEF ObjectMemberKeys
  <2> HIDE DEF ks, first, last
  <2> DEFINE e == [i \in 0 .. Cardinality(ks) - 1 |->
                     IF i \in first .. last THEN order[i] ELSE Plain]
  <2>3. DOMAIN e \subseteq HashKeys
    BY <2>2
  <2>4. \A k \in DOMAIN e : e[k] \in (UsedKeys \cap Tables) \cup {Plain}
    BY <2>2
  <2>5. Return(n, e)
    BY <2>1
  <2> HIDE DEF e
  <2>6. QED
    BY <2>3, <2>4, <2>5
<1>4. ASSUME EmptyResult(n)
      PROVE  \E e : Return(n, e) /\ DOMAIN e = {}
  <2> DEFINE e == [k \in {} |-> Plain]
  <2>1. Return(n, e)
    BY <1>4 DEF EmptyResult
  <2>2. DOMAIN e = {}
    OBVIOUS
  <2> HIDE DEF e
  <2>3. QED
    BY <2>1, <2>2
<1>5. Idle /\ Builtins # {}
  BY DEF ObjectCopy, ObjectMemberKeys, EmptyResult
<1>6. QED
  BY <1>2, <1>3, <1>4, <1>5

LEMMA LibraryType ==
  ASSUME TypeOK, NEW n \in Tables,
         \/ \E s \in Stack : ObjectCopy(s, n) \/ ObjectMemberKeys(s, n)
         \/ EmptyResult(n)
  PROVE  TypeOK'
<1>1. PICK e : /\ Return(n, e)
               /\ DOMAIN e \subseteq HashKeys \cup UsedKeys
               /\ \A k \in DOMAIN e :
                    \/ e[k] = Plain
                    \/ e[k] \in UsedKeys \cap Tables
                    \/ \E c \in Cells : e[k] = holds[c]
  BY LibraryReturns
<1>2. DOMAIN e \subseteq Keys
  BY <1>1 DEF Keys, UsedKeys
<1>3. \A k \in DOMAIN e : e[k] \in Tables \cup {Plain}
  BY <1>1 DEF TypeOK
<1>4. QED
  BY <1>1, <1>2, <1>3, ReturnType

LEMMA TypeStep == TypeOK /\ [Next]_vars => TypeOK'
<1> SUFFICES ASSUME TypeOK, [Next]_vars PROVE TypeOK'
  OBVIOUS
<1>1. CASE Clear
  BY <1>1, ClearType DEF Clear
<1>2. CASE Finish \/ FinishClearing \/ WildAssign
  BY <1>2, FinishType
<1>3. ASSUME NEW c \in Slots,
             Overwrite(c) \/ \E f \in Stack \cup {retval, Plain} : Assign(c, f)
      PROVE  TypeOK'
  BY <1>3, OverwriteType, InstructionType
<1>4. ASSUME NEW c \in Stack, ReturnClears(c) \/ Argument(c)
      PROVE  TypeOK'
  BY <1>4, ReturnClearsType, InstructionType
<1>5. ASSUME NEW c \in Stack, NEW t \in Tables, NewTable(c, t)
      PROVE  TypeOK'
  BY <1>5, InstructionType
<1>6. ASSUME NEW s \in Stack, NEW i \in Stack \cup HashKeys \cup BoolKeys,
             \/ \E c \in Stack : GetElem(c, s, i)
             \/ \E f \in Stack \cup {Plain} : SetElem(s, i, f)
      PROVE  TypeOK'
  BY <1>6, InstructionType, SetElemType
<1>7. ASSUME NEW n \in Tables,
             \/ \E s \in Stack : ObjectCopy(s, n) \/ ObjectMemberKeys(s, n)
             \/ EmptyResult(n)
      PROVE  TypeOK'
  BY <1>7, LibraryType
<1>8. CASE Fails("finished") \/ Fails("aborted")
  BY <1>8 DEF Fails, TypeOK
<1>9. CASE Stopped \/ UNCHANGED vars
  BY <1>9 DEF Stopped, vars, TypeOK
<1>10. QED
  BY <1>1, <1>2, <1>3, <1>4, <1>5, <1>6, <1>7, <1>8, <1>9 DEF Next

(* The cells, the elements and the counters keep their types, with any     *)
(* number of tables and whatever library functions a program calls.        *)
THEOREM TableTypes == Spec => []TypeOK
<1>1. ASSUME Init PROVE TypeOK
  <2>1. overdrawn \in BOOLEAN
    BY <1>1 DEF Init
  <2>2. /\ holds \in [Cells -> Tables \cup {Plain}]
        /\ refs \in [Tables -> Nat] /\ lost \in [Tables -> Nat]
    BY <1>1 DEF Init
  <2>3. QED
    BY <1>1, <2>1, <2>2 DEF Init, TypeOK
<1>2. QED
  BY <1>1, TypeStep, PTL DEF Spec

-----------------------------------------------------------------------------
(* Where references are.                                                   *)

(* Only tables that avm_tablenew has returned are held, or are keys.       *)
OnlyCreated ==
  /\ buckets \subseteq created \X (HashKeys \cup BoolKeys \cup created)
  /\ \A c \in Cells : holds[c] \in created \cup {Plain}
  /\ after # None => after.from \in Cells \cup created \cup {Plain}

(* What has been freed, and cleared, holds nothing. *)
FreedPlain ==
  \A c \in Elements :
    Freed(c) /\ c \notin work => holds[c] = Plain /\ c \notin uncounted

(* A cell of the stack is without its reference only while it is assigned, *)
(* and elements are not cleared twice.                                     *)
StackCounted ==
  /\ \A s \in Stack :
       s \in uncounted \/ s \in work => after # None /\ after.dest = s /\ ~after.again
  /\ after # None /\ after.again => after.dest \in Slots

HeldOnStack(t) ==
  \E s \in Stack : s \notin uncounted /\ s \notin work /\ holds[s] = t

(* What is being cleared belongs to a freed element, or to one of true or  *)
(* false, or is the element that is assigned, of a table on the stack.     *)
WorkPlaced ==
  \A c \in work : c \in Elements /\ ~Freed(c) =>
    c[2] \in BoolKeys \/ (c = after.dest /\ HeldOnStack(c[1]))

(* The destination has been cleared when it is assigned. *)
DestCleared ==
  after # None /\ ~after.again /\ after.dest \notin work =>
    holds[after.dest] = Plain \/ after.dest \in uncounted \/ Freed(after.dest)

(* A cell that misses a reference still looks like a table. *)
UncountedIsTable == \A c \in uncounted : IsTable(c)

CountInv ==
  /\ OnlyCreated /\ FreedPlain /\ StackCounted /\ WorkPlaced /\ DestCleared
  /\ UncountedIsTable

LEMMA DestroyFacts ==
  ASSUME TypeOK, NEW c \in Cells, NEW t \in Tables, Destroy(c, t)
  PROVE  /\ CellsOf(Forgotten(t)) \subseteq Elements
         /\ CellsOf(Walked(t)) \subseteq Elements
         /\ holds' = [d \in Cells |->
                        IF d \in CellsOf(Forgotten(t)) \/ (d = c /\ Freed(c))
                        THEN Plain ELSE holds[d]]
         /\ work' = (work \ {c}) \cup CellsOf(Walked(t))
         /\ buckets' \subseteq buckets
         /\ \A d \in Elements : Freed(d) => Freed(d)'
         /\ \A d \in Elements : Freed(d)' /\ ~Freed(d) =>
              d \in CellsOf(Forgotten(t)) \/ d \in CellsOf(Walked(t))
         /\ \A d \in CellsOf(Walked(t)) :
              d[1] = t /\ ~Freed(d) /\ (~Freed(d)' => d[2] \in BoolKeys)
         /\ \A d \in CellsOf(Forgotten(t)) :
              d[1] = t /\ ~Freed(d) /\ d[2] \notin BoolKeys
<1>1. /\ Forgotten(t) \subseteq buckets /\ Walked(t) \subseteq buckets
      /\ OfTable(t) = Forgotten(t) \cup Walked(t)
      /\ \A b \in Forgotten(t) \cup Walked(t) : b[1] = t
      /\ \A b \in Walked(t) : b \in buckets' => b[2] \in BoolKeys
      /\ \A b \in Forgotten(t) : b[2] \notin BoolKeys
  BY TablesAssumption
  DEF Destroy, Forgotten, Walked, OfTable, Kept, InFirstBucket
<1>2. \A d \in Elements :
        /\ d \in CellsOf(Forgotten(t)) <=> <<d[1], d[2]>> \in Forgotten(t)
        /\ d \in CellsOf(Walked(t)) <=> <<d[1], d[2]>> \in Walked(t)
  BY <1>1, CellsOfTable
<1>3. CellsOf(Forgotten(t)) \subseteq Elements /\ CellsOf(Walked(t)) \subseteq Elements
  BY <1>1, CellsOfTable
<1>4. \A b \in buckets : b \in buckets' \/ b \in OfTable(t)
  BY DEF Destroy
<1>5. buckets' \subseteq buckets
  BY DEF Destroy
<1>6. \A d \in Elements : Freed(d)' /\ ~Freed(d) =>
              d \in CellsOf(Forgotten(t)) \/ d \in CellsOf(Walked(t))
  BY <1>1, <1>2, <1>4 DEF Freed
<1>7. \A d \in CellsOf(Walked(t)) :
              d[1] = t /\ ~Freed(d) /\ (~Freed(d)' => d[2] \in BoolKeys)
  <2> SUFFICES ASSUME NEW d \in CellsOf(Walked(t))
               PROVE  d[1] = t /\ ~Freed(d) /\ (~Freed(d)' => d[2] \in BoolKeys)
    OBVIOUS
  <2> DEFINE b == <<d[1], d[2]>>
  <2>1. b = <<d[1], d[2]>> /\ b[1] = d[1] /\ b[2] = d[2]
    OBVIOUS
  <2>2. d \in Elements /\ b \in Walked(t)
    BY <1>2, <1>3
  <2> HIDE DEF b
  <2>3. QED
    BY <1>1, <2>1, <2>2 DEF Freed
<1>8. \A d \in CellsOf(Forgotten(t)) :
              d[1] = t /\ ~Freed(d) /\ d[2] \notin BoolKeys
  <2> SUFFICES ASSUME NEW d \in CellsOf(Forgotten(t))
               PROVE  d[1] = t /\ ~Freed(d) /\ d[2] \notin BoolKeys
    OBVIOUS
  <2> DEFINE b == <<d[1], d[2]>>
  <2>1. b = <<d[1], d[2]>> /\ b[1] = d[1] /\ b[2] = d[2]
    OBVIOUS
  <2>2. d \in Elements /\ b \in Forgotten(t)
    BY <1>2, <1>3
  <2> HIDE DEF b
  <2>3. QED
    BY <1>1, <2>1, <2>2 DEF Freed
<1>9. \A d \in Elements : Freed(d) => Freed(d)'
  BY <1>5 DEF Freed
<1>10. /\ holds' = [d \in Cells |->
                        IF d \in CellsOf(Forgotten(t)) \/ (d = c /\ Freed(c))
                        THEN Plain ELSE holds[d]]
       /\ work' = (work \ {c}) \cup CellsOf(Walked(t))
  BY DEF Destroy
<1>11. QED
  BY <1>3, <1>5, <1>6, <1>7, <1>8, <1>9, <1>10

(* What clearing a cell does to the others. *)
LEMMA ClearFacts ==
  ASSUME TypeOK, NEW c \in work, ClearCell(c)
  PROVE  /\ c \in Cells /\ holds[c] \in Tables /\ after # None
         /\ UNCHANGED <<created, after, status>>
         /\ buckets' \subseteq buckets
         /\ \A d \in Elements : Freed(d) => Freed(d)'
         /\ \A d \in Cells : holds'[d] = holds[d] \/ holds'[d] = Plain
         /\ \A d \in Slots : holds'[d] = holds[d]
         /\ \A d \in Cells : d # c /\ d \in uncounted' => d \in uncounted
         /\ \A d \in Cells : d \in uncounted' => holds'[d] = holds[d]
         /\ \A d \in Cells : d # c /\ d \in uncounted =>
              d \in uncounted' \/ (d \in Elements /\ holds'[d] = Plain)
         /\ \A d \in Elements : d # c /\ d \in work' =>
              d \in work \/ (~Freed(d) /\ (~Freed(d)' => d[2] \in BoolKeys))
         /\ \A d \in Cells : d # c /\ d \in work => d \in work'
         /\ \A d \in Slots : d \in work' => d \in work /\ d # c
         /\ c \in work' => c \in Elements /\ (~Freed(c)' => c[2] \in BoolKeys)
         /\ Freed(c) /\ c \notin work' => holds'[c] = Plain /\ c \notin uncounted'
         /\ ~Freed(c) => c \in uncounted' \/ (c \in Elements /\ holds'[c] = Plain)
         /\ \A d \in Elements : Freed(d)' /\ ~Freed(d) /\ d \notin work' =>
              holds'[d] = Plain /\ d \notin uncounted'
<1>1. c \in Cells /\ holds[c] \in Tables /\ after # None
  BY DEF ClearCell, IsTable, TypeOK
<1>2. UNCHANGED <<created, after, status>>
  BY DEF ClearCell
<1>3. uncounted' = (IF Freed(c) THEN uncounted \ {c} ELSE uncounted \cup {c})
                     \ (IF refs[holds[c]] = 1
                        THEN CellsOf(Forgotten(holds[c])) ELSE {})
  BY DEF ClearCell
<1>4. CASE refs[holds[c]] # 1
  <2>1. /\ work' = work \ {c} /\ buckets' = buckets
        /\ holds' = IF Freed(c) THEN [holds EXCEPT ![c] = Plain] ELSE holds
        /\ uncounted' = IF Freed(c) THEN uncounted \ {c} ELSE uncounted \cup {c}
    BY <1>3, <1>4 DEF ClearCell
  <2>2. \A d \in Elements : Freed(d) <=> Freed(d)'
    BY <2>1 DEF Freed
  <2>3. \A d \in Cells : holds'[d] = IF d = c /\ Freed(c) THEN Plain ELSE holds[d]
    BY <2>1 DEF TypeOK
  <2>4. \A d \in Slots : ~Freed(d)
    BY SlotFacts DEF Freed
  <2>5. QED
    BY <1>1, <1>2, <2>1, <2>2, <2>3, <2>4, SlotFacts
<1>5. CASE refs[holds[c]] = 1
  <2> DEFINE t == holds[c]
             F == CellsOf(Forgotten(t))
             W == CellsOf(Walked(t))
  <2>1. Destroy(c, t)
    BY <1>5 DEF ClearCell
  <2>2. uncounted' = (IF Freed(c) THEN uncounted \ {c} ELSE uncounted \cup {c}) \ F
    BY <1>3, <1>5
  <2>3. /\ F \subseteq Elements /\ W \subseteq Elements
        /\ work' = (work \ {c}) \cup W /\ buckets' \subseteq buckets
        /\ \A d \in Elements : Freed(d) => Freed(d)'
        /\ \A d \in Elements : Freed(d)' /\ ~Freed(d) => d \in F \/ d \in W
        /\ \A d \in W : ~Freed(d) /\ (~Freed(d)' => d[2] \in BoolKeys)
    BY <1>1, <2>1, DestroyFacts
  <2>4. \A d \in Cells :
          holds'[d] = IF d \in F \/ (d = c /\ Freed(c)) THEN Plain ELSE holds[d]
    BY <1>1, <2>1, DestroyFacts
  <2>5. \A d \in Slots : ~Freed(d)
    BY SlotFacts DEF Freed
  <2> HIDE DEF F, W, t
  <2>6. \A d \in Elements : d \in Cells
    BY DEF Cells
  <2>7. QED
    BY <1>1, <1>2, <2>2, <2>3, <2>4, <2>5, <2>6, SlotFacts
<1>6. QED
  BY <1>4, <1>5

LEMMA ClearKeepsPlaces ==
  ASSUME TypeOK, CountInv, NEW c \in work, ClearCell(c)
  PROVE  CountInv'
<1>1. OnlyCreated'
  <2>1. /\ UNCHANGED <<created, after>> /\ buckets' \subseteq buckets
        /\ \A d \in Cells : holds'[d] = holds[d] \/ holds'[d] = Plain
    BY ClearFacts
  <2>2. QED
    BY <2>1 DEF CountInv, OnlyCreated
<1>2. FreedPlain'
  <2> SUFFICES ASSUME NEW d \in Elements, Freed(d)', d \notin work'
               PROVE  holds'[d] = Plain /\ d \notin uncounted'
    BY DEF FreedPlain
  <2>1. d \in Cells
    BY ElementFacts
  <2>2. CASE Freed(d) /\ d = c
    BY <2>2, ClearFacts
  <2>3. CASE Freed(d) /\ d # c
    <3>1. d \notin work
      BY <2>1, <2>3, ClearFacts
    <3>2. holds[d] = Plain /\ d \notin uncounted
      BY <2>3, <3>1 DEF CountInv, FreedPlain
    <3>3. QED
      BY <2>1, <2>3, <3>2, ClearFacts
  <2>4. CASE ~Freed(d)
    BY <2>4, ClearFacts
  <2>5. QED
    BY <2>2, <2>3, <2>4
<1>3. StackCounted'
  <2>1. after' = after
    BY ClearFacts
  <2>2. ASSUME NEW s \in Stack, s \in uncounted' \/ s \in work'
        PROVE  s \in uncounted \/ s \in work
    BY <2>2, SlotFacts, ClearFacts
  <2>3. QED
    BY <2>1, <2>2 DEF CountInv, StackCounted
<1>4. WorkPlaced'
  <2>1. ASSUME NEW t, HeldOnStack(t) PROVE HeldOnStack(t)'
    <3>1. PICK s \in Stack : s \notin uncounted /\ s \notin work /\ holds[s] = t
      BY <2>1 DEF HeldOnStack
    <3>2. s \notin uncounted' /\ s \notin work' /\ holds'[s] = t
      BY <3>1, SlotFacts, ClearFacts
    <3>3. QED
      BY <3>2 DEF HeldOnStack
  <2>2. ASSUME NEW d \in work', d \in Elements, ~Freed(d)'
        PROVE  d[2] \in BoolKeys \/ (d = after'.dest /\ HeldOnStack(d[1])')
    <3>1. CASE d = c
      BY <2>2, <3>1, ClearFacts
    <3>2. CASE d # c /\ d \in work
      <4>1. ~Freed(d) /\ after' = after
        BY <2>2, ClearFacts
      <4>2. d[2] \in BoolKeys \/ (d = after.dest /\ HeldOnStack(d[1]))
        BY <2>2, <3>2, <4>1 DEF CountInv, WorkPlaced
      <4>3. QED
        BY <2>1, <4>1, <4>2
    <3>3. CASE d # c /\ d \notin work
      BY <2>2, <3>3, ClearFacts
    <3>4. QED
      BY <3>1, <3>2, <3>3
  <2>3. QED
    BY <2>2 DEF WorkPlaced
<1>5. DestCleared'
  <2>1. after' = after /\ after # None
    BY ClearFacts
  <2> SUFFICES ASSUME ~after.again, after.dest \notin work'
               PROVE  \/ holds'[after.dest] = Plain \/ after.dest \in uncounted'
                      \/ Freed(after.dest)'
    BY <2>1 DEF DestCleared
  <2>2. after.dest \in Cells
    BY <2>1, AfterType
  <2>3. CASE after.dest = c
    <3>1. CASE Freed(c)
      BY <2>3, <3>1, ClearFacts
    <3>2. CASE ~Freed(c)
      BY <2>3, <3>2, ClearFacts
    <3>3. QED
      BY <3>1, <3>2
  <2>4. CASE after.dest # c
    <3>1. after.dest \notin work
      BY <2>2, <2>4, ClearFacts
    <3>2. \/ holds[after.dest] = Plain \/ after.dest \in uncounted
          \/ Freed(after.dest)
      BY <2>1, <3>1 DEF CountInv, DestCleared
    <3>3. CASE Freed(after.dest)
      <4>1. after.dest \in Elements
        BY <3>3 DEF Freed
      <4>2. QED
        BY <3>3, <4>1, ClearFacts
    <3>4. CASE holds[after.dest] = Plain
      BY <2>2, <3>4, ClearFacts
    <3>5. CASE after.dest \in uncounted
      BY <2>2, <2>4, <3>5, ClearFacts
    <3>6. QED
      BY <3>2, <3>3, <3>4, <3>5
  <2>5. QED
    BY <2>3, <2>4
<1>6. UncountedIsTable'
  <2> SUFFICES ASSUME NEW d \in uncounted' PROVE holds'[d] # Plain
    BY DEF UncountedIsTable, IsTable
  <2>1. d \in Cells
    BY ClearType DEF TypeOK
  <2>2. holds'[d] = holds[d] /\ (d = c \/ d \in uncounted)
    BY <2>1, ClearFacts
  <2>3. QED
    BY <2>2, ClearFacts, TablesAssumption DEF CountInv, UncountedIsTable, IsTable
<1>7. QED
  BY <1>1, <1>2, <1>3, <1>4, <1>5, <1>6 DEF CountInv

(* An assignment begins; an element is assigned only in a table that a     *)
(* cell of the stack holds.                                                *)
LEMMA BeginKeepsPlaces ==
  ASSUME TypeOK, CountInv, work = {},
         after = None \/ after.again,
         NEW dest \in Cells, NEW from \in Cells \cup created' \cup {Plain},
         NEW again \in BOOLEAN, NEW then \in {"running", "finished"},
         Begin(dest, from, again, then), again => dest = retval,
         dest \in Elements => HeldOnStack(dest[1]),
         created \subseteq created', created' \subseteq Tables,
         UNCHANGED <<holds, buckets, uncounted>>
  PROVE  CountInv'
<1>1. /\ work' = {dest} /\ after' # None
      /\ after'.dest = dest /\ after'.from = from /\ after'.again = again
  BY BeginType
<1>2. OnlyCreated'
  BY <1>1 DEF CountInv, OnlyCreated
<1>3. FreedPlain'
  BY DEF CountInv, FreedPlain, Freed
<1>4. StackCounted'
  <2>1. \A s \in Stack : s \notin uncounted
    BY DEF CountInv, StackCounted
  <2>2. \A s \in Stack : s # retval
    BY TablesAssumption
  <2>3. QED
    BY <1>1, <2>1, <2>2, SlotFacts DEF StackCounted
<1>5. WorkPlaced'
  <2>1. ASSUME dest \in Elements PROVE HeldOnStack(dest[1])'
    <3>1. PICK s \in Stack : s \notin uncounted /\ holds[s] = dest[1]
      BY <2>1 DEF HeldOnStack
    <3>2. s \notin work'
      BY <1>1, <2>1, SlotFacts
    <3>3. QED
      BY <3>1, <3>2 DEF HeldOnStack
  <2>2. QED
    BY <1>1, <2>1 DEF WorkPlaced
<1>6. DestCleared'
  BY <1>1 DEF DestCleared
<1>7. UncountedIsTable'
  BY DEF CountInv, UncountedIsTable, IsTable
<1>8. QED
  BY <1>2, <1>3, <1>4, <1>5, <1>6, <1>7 DEF CountInv

LEMMA FinishKeepsPlaces ==
  ASSUME TypeOK, CountInv, Finish \/ FinishClearing \/ WildAssign
  PROVE  CountInv'
<1>1. after # None /\ work = {} /\ after.dest \in Cells
  BY AfterType DEF Finish, FinishClearing, WildAssign
<1>2. CASE Finish
  <2>1. Read(after.from) \in created \cup {Plain}
    BY <1>1, AfterType, TablesAssumption DEF CountInv, OnlyCreated, Read, TypeOK
  <2>2. /\ holds' = [holds EXCEPT ![after.dest] = Read(after.from)]
        /\ uncounted' = uncounted \ {after.dest} /\ ~Freed(after.dest)
        /\ after' = None /\ UNCHANGED <<buckets, created, work>>
    BY <1>2 DEF Finish, Store
  <2>3. OnlyCreated'
    BY <2>1, <2>2 DEF CountInv, OnlyCreated, TypeOK
  <2>4. FreedPlain'
    BY <2>2 DEF CountInv, FreedPlain, Freed, TypeOK
  <2>5. StackCounted' /\ WorkPlaced' /\ DestCleared'
    BY <1>1, <2>2 DEF CountInv, StackCounted, WorkPlaced, DestCleared
  <2>6. UncountedIsTable'
    BY <2>2 DEF CountInv, UncountedIsTable, IsTable, TypeOK
  <2>7. QED
    BY <2>3, <2>4, <2>5, <2>6 DEF CountInv
<1>3. CASE FinishClearing
  <2>1. after.again /\ after.dest \in Slots /\ after.dest \notin Elements
    BY <1>1, <1>3, SlotFacts DEF FinishClearing, CountInv, StackCounted
  <2>2. UNCHANGED <<holds, buckets, created, uncounted>>
    BY <1>3 DEF FinishClearing
  <2>3. CASE SameContents(after.dest, after.from)
    <3>1. after' = None /\ work' = work
      BY <1>3, <2>3 DEF FinishClearing
    <3>2. QED
      BY <1>1, <2>1, <2>2, <3>1
      DEF CountInv, OnlyCreated, FreedPlain, Freed, StackCounted, WorkPlaced, DestCleared,
          UncountedIsTable, IsTable
  <2>4. CASE ~SameContents(after.dest, after.from)
    <3>1. Begin(after.dest, after.from, FALSE, after.status)
      BY <1>3, <2>4 DEF FinishClearing
    <3>2. after.from \in Cells \cup created' \cup {Plain}
          /\ after.status \in {"running", "finished"}
      BY <1>1, <2>2, AfterType DEF CountInv, OnlyCreated
    <3>3. created \subseteq created' /\ created' \subseteq Tables
      BY <2>2 DEF TypeOK
    <3>4. QED
      BY <1>1, <2>1, <2>2, <3>1, <3>2, <3>3, BeginKeepsPlaces
  <2>5. QED
    BY <2>3, <2>4
<1>4. CASE WildAssign
  BY <1>4 DEF WildAssign, CountInv, OnlyCreated, FreedPlain, Freed, StackCounted,
              WorkPlaced, HeldOnStack, DestCleared, UncountedIsTable, IsTable
<1>5. QED
  BY <1>2, <1>3, <1>4

LEMMA AssigningKeepsPlaces ==
  ASSUME TypeOK, CountInv, after = None,
         NEW dest \in Cells, NEW from \in Cells \cup created \cup {Plain},
         dest \in Elements => HeldOnStack(dest[1]),
         Assigning(dest, from), UNCHANGED <<holds, buckets, created, uncounted>>
  PROVE  CountInv'
<1>1. created \subseteq created' /\ created' \subseteq Tables /\ work = {}
  BY DEF TypeOK
<1>2. CASE SameContents(dest, from)
  BY <1>2 DEF Assigning, CountInv, OnlyCreated, FreedPlain, Freed, StackCounted,
              WorkPlaced, HeldOnStack, DestCleared, UncountedIsTable, IsTable
<1>3. CASE ~SameContents(dest, from)
  <2>1. Begin(dest, from, FALSE, "running")
    BY <1>3 DEF Assigning
  <2>2. QED
    BY <1>1, <2>1, BeginKeepsPlaces
<1>4. QED
  BY <1>2, <1>3

LEMMA IdleFacts ==
  ASSUME TypeOK, CountInv, Idle
  PROVE  /\ after = None /\ work = {} /\ status = "running"
         /\ \A s \in Stack : s \notin uncounted /\ (IsTable(s) => HeldOnStack(holds[s]))
BY DEF Idle, TypeOK, CountInv, StackCounted, HeldOnStack

LEMMA SetElemKeepsPlaces ==
  ASSUME TypeOK, CountInv, NEW s \in Stack,
         NEW i \in Stack \cup HashKeys \cup BoolKeys,
         NEW f \in Stack \cup {Plain}, SetElem(s, i, f)
  PROVE  CountInv'
<1> DEFINE t == holds[s]
<1>1. /\ Idle /\ t \in Tables /\ UNCHANGED <<created, status, lost, overdrawn>>
      /\ f \in Cells \cup created \cup {Plain}
  BY SetElemCases, SlotFacts
<1>2. PICK k \in Keys :
        /\ k \in HashKeys \cup BoolKeys \/ \E c \in Stack : k = holds[c]
        /\ AssignsElement(t, k, f) \/ AddsElement(t, k, f)
  BY SetElemCases
<1>3. t \in created /\ HeldOnStack(t)
  BY <1>1, IdleFacts, SlotFacts, TablesAssumption
  DEF CountInv, OnlyCreated, IsTable, Cells
<1> HIDE DEF t
<1>4. k \in HashKeys \cup BoolKeys \cup created
  BY <1>2, SlotFacts, TablesAssumption DEF CountInv, OnlyCreated, Keys, Cells
<1>5. /\ ValueCell(t, k) \in Elements /\ KeyCell(t, k) \in Elements
      /\ ValueCell(t, k) \in Cells /\ KeyCell(t, k) \in Cells
      /\ ValueCell(t, k)[1] = t /\ KeyCell(t, k)[1] = t
      /\ ValueCell(t, k)[2] = k /\ KeyCell(t, k)[2] = k
  BY <1>1, ElementCells
<1>6. CASE AssignsElement(t, k, f)
  <2>1. Assigning(ValueCell(t, k), f) /\ UNCHANGED <<holds, buckets, uncounted>>
    BY <1>6 DEF AssignsElement
  <2>2. QED
    BY <1>1, <1>3, <1>5, <2>1, AssigningKeepsPlaces DEF Idle
<1>7. CASE AddsElement(t, k, f)
  <2>1. /\ buckets' = buckets \cup {<<t, k>>}
        /\ holds' = [holds EXCEPT ![KeyCell(t, k)] = KeyOf(k),
                                  ![ValueCell(t, k)] = Read(f)]
        /\ uncounted' = uncounted \ CellsAt(<<t, k>>)
        /\ UNCHANGED <<work, after, created>>
    BY <1>1, <1>7 DEF AddsElement
  <2>2. KeyOf(k) \in created \cup {Plain} /\ Read(f) \in created \cup {Plain}
    <3>1. KeyOf(k) \in created \cup {Plain}
      BY <1>4, TablesAssumption DEF KeyOf
    <3>2. Read(f) \in created \cup {Plain}
      BY SlotFacts DEF Read, CountInv, OnlyCreated
    <3>3. QED
      BY <3>1, <3>2
  <2>3. OnlyCreated'
    BY <1>3, <1>4, <2>1, <2>2 DEF CountInv, OnlyCreated, TypeOK
  <2>4. FreedPlain'
    <3> SUFFICES ASSUME NEW d \in Elements, Freed(d)', d \notin work'
                 PROVE  holds'[d] = Plain /\ d \notin uncounted'
      BY DEF FreedPlain
    <3>1. <<d[1], d[2]>> # <<t, k>> /\ Freed(d)
      BY <2>1 DEF Freed
    <3>2. d # KeyCell(t, k) /\ d # ValueCell(t, k) /\ d \in Cells
      BY <1>5, <3>1, ElementFacts
    <3>3. holds[d] = Plain /\ d \notin uncounted
      BY <2>1, <3>1 DEF CountInv, FreedPlain
    <3>4. QED
      BY <2>1, <3>2, <3>3 DEF TypeOK
  <2>5. StackCounted' /\ WorkPlaced' /\ DestCleared'
    BY <1>1, <2>1, IdleFacts DEF StackCounted, WorkPlaced, DestCleared
  <2>6. UncountedIsTable'
    <3> SUFFICES ASSUME NEW d \in uncounted' PROVE holds'[d] = holds[d]
      BY <2>1 DEF CountInv, UncountedIsTable, IsTable
    <3>1. d \in Cells /\ d # KeyCell(t, k) /\ d # ValueCell(t, k)
      BY <1>5, <2>1 DEF CellsAt, KeyCell, ValueCell, TypeOK
    <3>2. QED
      BY <2>1, <3>1 DEF TypeOK
  <2>7. QED
    BY <2>3, <2>4, <2>5, <2>6 DEF CountInv
<1>8. QED
  BY <1>2, <1>6, <1>7

LEMMA InstructionKeepsPlaces ==
  ASSUME TypeOK, CountInv
  PROVE  /\ \A c \in Slots, f \in Stack \cup {retval, Plain} : Assign(c, f) => CountInv'
         /\ \A c \in Stack, t \in Tables : NewTable(c, t) => CountInv'
         /\ \A c \in Stack, s \in Stack, i \in Stack \cup HashKeys \cup BoolKeys :
              GetElem(c, s, i) => CountInv'
         /\ \A c \in Stack : Argument(c) => CountInv'
<1>1. ASSUME NEW c \in Slots, NEW f \in Stack \cup {retval, Plain}, Assign(c, f)
      PROVE  CountInv'
  <2>1. /\ Idle /\ Assigning(c, f)
        /\ UNCHANGED <<holds, buckets, created, uncounted>>
    BY <1>1 DEF Assign
  <2>2. c \in Cells /\ c \notin Elements /\ f \in Cells \cup created \cup {Plain}
    BY SlotFacts
  <2>3. QED
    BY <2>1, <2>2, IdleFacts, AssigningKeepsPlaces
<1>2. ASSUME NEW c \in Stack, NEW t \in Tables, NewTable(c, t)
      PROVE  CountInv'
  <2>1. Idle /\ created' = created \cup {t} /\ Begin(c, t, FALSE, "running")
        /\ UNCHANGED <<holds, buckets, uncounted>>
    BY <1>2 DEF NewTable
  <2>2. c \in Cells /\ c \notin Elements /\ t \in Cells \cup created' \cup {Plain}
        /\ created \subseteq created' /\ created' \subseteq Tables
    BY <2>1, SlotFacts DEF TypeOK
  <2>3. QED
    BY <2>1, <2>2, IdleFacts, BeginKeepsPlaces
<1>3. ASSUME NEW c \in Stack, NEW s \in Stack,
             NEW i \in Stack \cup HashKeys \cup BoolKeys, GetElem(c, s, i)
      PROVE  CountInv'
  <2>1. Idle /\ UNCHANGED <<holds, buckets, created, uncounted>>
    BY <1>3 DEF GetElem
  <2>2. c \in Cells /\ c \notin Elements
        /\ created \subseteq created' /\ created' \subseteq Tables
    BY <2>1, SlotFacts DEF TypeOK
  <2>3. CASE IsTable(s)
    <3>1. PICK k \in IndexKeys(i) :
            \/ Begin(c, ValueCell(holds[s], k), FALSE, "running")
            \/ Begin(c, Plain, FALSE, "running")
      BY <1>3, <2>3 DEF GetElem
    <3>2. holds[s] \in Tables
      BY <2>3, SlotFacts DEF IsTable, TypeOK
    <3>3. ValueCell(holds[s], k) \in Cells
      BY <3>2, IndexKeysType, ElementCells
    <3>4. QED
      BY <2>1, <2>2, <3>1, <3>3, IdleFacts, BeginKeepsPlaces
  <2>4. CASE ~IsTable(s)
    <3>1. Begin(c, Plain, FALSE, "finished")
      BY <1>3, <2>4 DEF GetElem
    <3>2. QED
      BY <2>1, <2>2, <3>1, IdleFacts, BeginKeepsPlaces
  <2>5. QED
    BY <2>3, <2>4
<1>4. ASSUME NEW c \in Stack, Argument(c)
      PROVE  CountInv'
  <2>1. Idle /\ Begin(retval, c, TRUE, "running")
        /\ UNCHANGED <<holds, buckets, created, uncounted>>
    BY <1>4 DEF Argument
  <2>2. retval \in Cells /\ retval \notin Elements /\ c \in Cells
        /\ created \subseteq created' /\ created' \subseteq Tables
    BY <2>1, SlotFacts DEF TypeOK
  <2>3. QED
    BY <2>1, <2>2, IdleFacts, BeginKeepsPlaces
<1>5. QED
  BY <1>1, <1>2, <1>3, <1>4

LEMMA OverwriteKeepsPlaces ==
  ASSUME TypeOK, CountInv, NEW c \in Slots, Overwrite(c)
  PROVE  CountInv'
<1>1. /\ Idle /\ holds' = [holds EXCEPT ![c] = Plain]
      /\ uncounted' = uncounted \ {c}
      /\ UNCHANGED <<buckets, created, work, after>>
  BY DEF Overwrite
<1>2. OnlyCreated' /\ FreedPlain'
  BY <1>1 DEF CountInv, OnlyCreated, FreedPlain, Freed, TypeOK
<1>3. StackCounted' /\ WorkPlaced' /\ DestCleared'
  BY <1>1, IdleFacts DEF StackCounted, WorkPlaced, DestCleared
<1>4. UncountedIsTable'
  BY <1>1 DEF CountInv, UncountedIsTable, IsTable, TypeOK
<1>5. QED
  BY <1>2, <1>3, <1>4 DEF CountInv

LEMMA ReturnClearsKeepsPlaces ==
  ASSUME TypeOK, CountInv, NEW c \in Stack, ReturnClears(c)
  PROVE  CountInv'
<1>1. Idle /\ c \in Cells /\ c \in Slots /\ ~Freed(c) /\ created' = created
  BY SlotFacts DEF ReturnClears, Freed
<1>2. CASE IsTable(c) /\ refs[holds[c]] = 0
  <2> DEFINE t == holds[c]
             F == CellsOf(Forgotten(t))
             W == CellsOf(Walked(t))
  <2>1. t \in Tables
    BY <1>1, <1>2 DEF IsTable, TypeOK
  <2>2. Destroy(c, t) /\ uncounted' = uncounted \ F
    BY <1>2 DEF ReturnClears
  <2>3. after' = [dest |-> c, from |-> c, again |-> TRUE, status |-> "running"]
    BY <1>2 DEF ReturnClears
  <2>4. /\ after'.dest = c /\ after'.from = c /\ after'.again
    BY <2>3
  <2>5. after' # None
    <3>1. after' \in After
      BY <1>1, <2>3 DEF After
    <3>2. QED
      BY <3>1, TablesAssumption
  <2>6. /\ F \subseteq Elements /\ W \subseteq Elements
        /\ holds' = [d \in Cells |-> IF d \in F \/ (d = c /\ Freed(c))
                                     THEN Plain ELSE holds[d]]
        /\ work' = (work \ {c}) \cup W
        /\ buckets' \subseteq buckets
        /\ \A d \in Elements : Freed(d)' /\ ~Freed(d) => d \in F \/ d \in W
        /\ \A d \in W : ~Freed(d)' => d[2] \in BoolKeys
    BY <1>1, <2>1, <2>2, DestroyFacts
  <2> HIDE DEF t, F, W
  <2>7. OnlyCreated'
    BY <1>1, <2>4, <2>6 DEF CountInv, OnlyCreated
  <2>8. FreedPlain'
    <3> SUFFICES ASSUME NEW d \in Elements, Freed(d)', d \notin work'
                 PROVE  holds'[d] = Plain /\ d \notin uncounted'
      BY DEF FreedPlain
    <3>1. d \in Cells
      BY ElementFacts
    <3>2. CASE d \in F
      BY <2>2, <2>6, <3>1, <3>2
    <3>3. CASE d \notin F
      <4>1. Freed(d) /\ d \notin work
        BY <1>1, <2>6, <3>3, IdleFacts
      <4>2. holds[d] = Plain /\ d \notin uncounted
        BY <4>1 DEF CountInv, FreedPlain
      <4>3. QED
        BY <2>2, <2>6, <3>1, <4>2
    <3>4. QED
      BY <3>2, <3>3
  <2>9. StackCounted'
    BY <1>1, <2>2, <2>4, <2>5, <2>6, IdleFacts, SlotFacts DEF StackCounted
  <2>10. WorkPlaced'
    BY <1>1, <2>6, IdleFacts DEF WorkPlaced
  <2>11. DestCleared'
    BY <2>4 DEF DestCleared
  <2>12. UncountedIsTable'
    BY <1>1, <2>2, <2>6 DEF CountInv, UncountedIsTable, IsTable, TypeOK
  <2>13. QED
    BY <2>7, <2>8, <2>9, <2>10, <2>11, <2>12 DEF CountInv
<1>3. CASE ~(IsTable(c) /\ refs[holds[c]] = 0)
  BY <1>1, <1>3 DEF ReturnClears, CountInv, OnlyCreated, FreedPlain, Freed,
                    StackCounted, WorkPlaced, HeldOnStack, DestCleared,
                    UncountedIsTable, IsTable
<1>4. QED
  BY <1>2, <1>3

LEMMA ReturnKeepsPlaces ==
  ASSUME TypeOK, CountInv, Idle, NEW n \in Tables, NEW e,
         DOMAIN e \subseteq HashKeys \cup BoolKeys \cup created,
         \A k \in DOMAIN e : e[k] \in created \cup {Plain}, Return(n, e)
  PROVE  CountInv'
<1>1. /\ n \notin created /\ created' = created \cup {n}
      /\ buckets' = buckets \cup {<<n, k>> : k \in DOMAIN e}
      /\ uncounted' = uncounted \cup {retval}
      /\ UNCHANGED <<work, after, status, overdrawn>>
  BY DEF Return
<1>2. \A c \in Cells : holds'[c] =
        IF c = retval THEN n
        ELSE IF c \in {KeyCell(n, k) : k \in DOMAIN e \cap Tables} THEN c[2]
        ELSE IF c \in {ValueCell(n, k) : k \in DOMAIN e} THEN e[c[2]]
        ELSE holds[c]
  BY DEF Return
<1>3. \A k \in DOMAIN e : k \in Keys /\ (k \in Tables => k \in created)
  BY TablesAssumption DEF Keys, TypeOK
<1>4. \A k \in DOMAIN e : KeyCell(n, k)[2] = k /\ ValueCell(n, k)[2] = k
                          /\ KeyCell(n, k)[1] = n /\ ValueCell(n, k)[1] = n
  BY <1>3, ElementCells
<1>5. OnlyCreated'
  <2>1. \A c \in Cells : holds'[c] \in created' \cup {Plain}
    BY <1>1, <1>2, <1>3, <1>4 DEF CountInv, OnlyCreated
  <2>2. buckets' \subseteq created' \X (HashKeys \cup BoolKeys \cup created')
    BY <1>1 DEF CountInv, OnlyCreated
  <2>3. QED
    BY <1>1, <2>1, <2>2, IdleFacts DEF OnlyCreated
<1>6. FreedPlain'
  <2> SUFFICES ASSUME NEW d \in Elements, Freed(d)', d \notin work'
               PROVE  holds'[d] = Plain /\ d \notin uncounted'
    BY DEF FreedPlain
  <2>1. d \in Cells /\ d # retval
    BY ElementFacts, SlotFacts
  <2>2. Freed(d) /\ \A k \in DOMAIN e : <<d[1], d[2]>> # <<n, k>>
    BY <1>1 DEF Freed
  <2>3. \A k \in DOMAIN e : d # KeyCell(n, k) /\ d # ValueCell(n, k)
    BY <1>4, <2>2
  <2>4. holds[d] = Plain /\ d \notin uncounted
    BY <1>1, <2>2 DEF CountInv, FreedPlain
  <2>5. holds'[d] = holds[d]
    BY <1>2, <2>1, <2>3
  <2>6. QED
    BY <1>1, <2>1, <2>4, <2>5
<1>7. StackCounted' /\ WorkPlaced' /\ DestCleared'
  <2>1. \A s \in Stack : s # retval
    BY TablesAssumption
  <2>2. QED
    BY <1>1, <2>1, IdleFacts DEF StackCounted, WorkPlaced, DestCleared
<1>8. UncountedIsTable'
  <2> SUFFICES ASSUME NEW d \in uncounted' PROVE holds'[d] # Plain
    BY DEF UncountedIsTable, IsTable
  <2>1. CASE d = retval
    BY <1>2, <2>1, SlotFacts, TablesAssumption
  <2>2. CASE d # retval
    <3>1. d \in uncounted /\ d \in Cells
      BY <1>1, <2>2 DEF TypeOK
    <3>2. ASSUME NEW k \in DOMAIN e PROVE d # KeyCell(n, k) /\ d # ValueCell(n, k)
      <4>1. /\ KeyCell(n, k) \in Elements /\ ValueCell(n, k) \in Elements
            /\ KeyCell(n, k)[1] = n /\ ValueCell(n, k)[1] = n
        BY <1>3, <3>2, ElementCells
      <4>2. Freed(KeyCell(n, k)) /\ Freed(ValueCell(n, k))
        BY <1>1, <4>1 DEF Freed, CountInv, OnlyCreated
      <4>3. QED
        BY <3>1, <4>1, <4>2, IdleFacts DEF CountInv, FreedPlain
    <3>3. holds'[d] = holds[d]
      BY <1>2, <2>2, <3>1, <3>2
    <3>4. QED
      BY <3>1, <3>3 DEF CountInv, UncountedIsTable, IsTable
  <2>3. QED
    BY <2>1, <2>2
<1>9. QED
  BY <1>5, <1>6, <1>7, <1>8 DEF CountInv

(* What the library functions return, with the invariant. *)
LEMMA LibraryFacts ==
  ASSUME TypeOK, CountInv, NEW n \in Tables,
         \/ \E s \in Stack : ObjectCopy(s, n) \/ ObjectMemberKeys(s, n)
         \/ EmptyResult(n)
  PROVE  /\ Idle /\ Builtins # {}
         /\ \E e : /\ Return(n, e)
                   /\ DOMAIN e \subseteq HashKeys \cup BoolKeys \cup created
                   /\ \A k \in DOMAIN e : e[k] \in created \cup {Plain}
<1>1. PICK e : /\ Return(n, e)
               /\ DOMAIN e \subseteq HashKeys \cup UsedKeys
               /\ \A k \in DOMAIN e :
                    \/ e[k] = Plain
                    \/ e[k] \in UsedKeys \cap Tables
                    \/ \E c \in Cells : e[k] = holds[c]
  BY LibraryReturns
<1>2. UsedKeys \subseteq HashKeys \cup BoolKeys \cup created
  BY DEF UsedKeys, CountInv, OnlyCreated
<1>3. UsedKeys \cap Tables \subseteq created
  BY <1>2, TablesAssumption
<1>4. \A k \in DOMAIN e : e[k] \in created \cup {Plain}
  BY <1>1, <1>3 DEF CountInv, OnlyCreated
<1>5. QED
  BY <1>1, <1>2, <1>4, LibraryReturns

LEMMA PlacesStep == TypeOK /\ CountInv /\ [Next]_vars => CountInv'
<1> SUFFICES ASSUME TypeOK, CountInv, [Next]_vars PROVE CountInv'
  OBVIOUS
<1>1. ASSUME NEW c \in work, ClearCell(c) \/ ClearPlain(c) \/ CountAssertFails(c)
      PROVE  CountInv'
  <2>1. CASE ClearPlain(c)
    <3>1. /\ c \in Cells /\ holds[c] = Plain /\ work' = work \ {c}
          /\ UNCHANGED <<holds, buckets, created, after, uncounted>>
      BY <2>1 DEF ClearPlain, IsTable, TypeOK
    <3>2. OnlyCreated'
      BY <3>1 DEF CountInv, OnlyCreated
    <3>3. StackCounted'
      BY <3>1 DEF CountInv, StackCounted
    <3>4. \A t : HeldOnStack(t) => HeldOnStack(t)'
      BY <3>1 DEF HeldOnStack
    <3>5. WorkPlaced'
      BY <3>1, <3>4 DEF CountInv, WorkPlaced, Freed
    <3>6. DestCleared'
      BY <3>1 DEF CountInv, DestCleared, Freed
    <3>7. FreedPlain'
      BY <3>1 DEF CountInv, FreedPlain, Freed, UncountedIsTable, IsTable
    <3>8. UncountedIsTable'
      BY <3>1 DEF CountInv, UncountedIsTable, IsTable
    <3>9. QED
      BY <3>2, <3>3, <3>5, <3>6, <3>7, <3>8 DEF CountInv
  <2>2. CASE CountAssertFails(c)
    BY <2>2 DEF CountAssertFails, CountInv, OnlyCreated, FreedPlain, Freed,
                StackCounted, WorkPlaced, HeldOnStack, DestCleared,
                UncountedIsTable, IsTable
  <2>3. QED
    BY <1>1, <2>1, <2>2, ClearKeepsPlaces
<1>2. CASE Finish \/ FinishClearing \/ WildAssign
  BY <1>2, FinishKeepsPlaces
<1>3. ASSUME NEW c \in Slots,
             Overwrite(c) \/ \E f \in Stack \cup {retval, Plain} : Assign(c, f)
      PROVE  CountInv'
  BY <1>3, OverwriteKeepsPlaces, InstructionKeepsPlaces
<1>4. ASSUME NEW c \in Stack, ReturnClears(c) \/ Argument(c)
      PROVE  CountInv'
  BY <1>4, ReturnClearsKeepsPlaces, InstructionKeepsPlaces
<1>5. ASSUME NEW c \in Stack, NEW t \in Tables, NewTable(c, t)
      PROVE  CountInv'
  BY <1>5, InstructionKeepsPlaces
<1>6. ASSUME NEW s \in Stack, NEW i \in Stack \cup HashKeys \cup BoolKeys,
             \/ \E c \in Stack : GetElem(c, s, i)
             \/ \E f \in Stack \cup {Plain} : SetElem(s, i, f)
      PROVE  CountInv'
  BY <1>6, InstructionKeepsPlaces, SetElemKeepsPlaces
<1>7. ASSUME NEW n \in Tables,
             \/ \E s \in Stack : ObjectCopy(s, n) \/ ObjectMemberKeys(s, n)
             \/ EmptyResult(n)
      PROVE  CountInv'
  BY <1>7, LibraryFacts, ReturnKeepsPlaces
<1>8. CASE Fails("finished") \/ Fails("aborted") \/ Stopped \/ UNCHANGED vars
  BY <1>8 DEF Fails, Stopped, vars, CountInv, OnlyCreated, FreedPlain, Freed,
              StackCounted, WorkPlaced, HeldOnStack, DestCleared,
                UncountedIsTable, IsTable
<1>9. QED
  BY <1>1, <1>2, <1>3, <1>4, <1>5, <1>6, <1>7, <1>8 DEF Next, Clear

-----------------------------------------------------------------------------
(* Counting.                                                               *)

LEMMA Without ==
  ASSUME NEW S, IsFiniteSet(S), NEW F
  PROVE  /\ Cardinality(S) \in Nat /\ Cardinality(S \ F) \in Nat
         /\ Cardinality(S \cap F) \in Nat
         /\ Cardinality(S \ F) + Cardinality(S \cap F) = Cardinality(S)
<1>1. Cardinality(S \ F) = Cardinality(S) - Cardinality(S \cap F)
  BY FS_Difference
<1>2. IsFiniteSet(S \ F) /\ IsFiniteSet(S \cap F)
  BY FS_Difference, FS_Intersection
<1>3. /\ Cardinality(S) \in Nat /\ Cardinality(S \ F) \in Nat
      /\ Cardinality(S \cap F) \in Nat
  BY <1>2, FS_CardinalityType
<1>4. QED
  BY <1>1, <1>3

LEMMA TwoHolders ==
  ASSUME NEW u, NEW c \in Holders(u), NEW d \in Holders(u), c # d
  PROVE  Cardinality(Holders(u)) >= 2
<1>1. IsFiniteSet({c}) /\ Cardinality({c}) = 1 /\ d \notin {c}
  BY FS_Singleton
<1>2. Cardinality({c} \cup {d}) = Cardinality({c}) + 1
  BY <1>1, FS_AddElement
<1>3. {c} \cup {d} \subseteq Holders(u)
  OBVIOUS
<1>4. Cardinality({c} \cup {d}) <= Cardinality(Holders(u))
  BY <1>3, HoldersFinite, FS_Subset
<1>5. QED
  BY <1>1, <1>2, <1>4, HoldersFinite

LEMMA OneHolder ==
  ASSUME NEW u, NEW c \in Holders(u)
  PROVE  Cardinality(Holders(u)) >= 1
<1>1. IsFiniteSet(Holders(u)) /\ Cardinality(Holders(u)) \in Nat
  BY HoldersFinite
<1>2. Cardinality(Holders(u)) # 0
  BY <1>1, FS_EmptySet
<1>3. QED
  BY <1>1, <1>2

(* Clearing a cell that has its reference. *)
LEMMA ClearCounts ==
  ASSUME TypeOK, CountInv, CountsExact, NEW c \in work, ClearCell(c), ~overdrawn'
  PROVE  \A u \in Tables : refs'[u] = Cardinality(Holders(u)') + lost'[u]
<1> DEFINE t == holds[c]
           F == CellsOf(Forgotten(t))
<1>1. c \in Cells /\ t \in Tables
  BY ClearFacts
<1>2. c \notin uncounted /\ ~overdrawn
  BY DEF ClearCell
<1>3. c \in Holders(t) /\ \A u : c \in Holders(u) => u = t
  BY <1>1, <1>2 DEF Holders
<1>4. \A u \in Tables :
        /\ refs[u] = Cardinality(Holders(u)) + lost[u]
        /\ refs[u] \in Nat /\ lost[u] \in Nat /\ Cardinality(Holders(u)) \in Nat
        /\ refs'[u] = IF u = t THEN refs[u] - 1 ELSE refs[u]
  BY <1>1, <1>2, HoldersFinite DEF CountsExact, ClearCell, TypeOK
<1>5. \A u \in Tables : Cardinality(Holders(u) \ {c}) =
        IF u = t THEN Cardinality(Holders(u)) - 1 ELSE Cardinality(Holders(u))
  BY <1>3, HoldersFinite, FS_RemoveElement
<1>6. CASE refs[t] # 1
  <2>1. /\ lost' = lost
        /\ holds' = IF Freed(c) THEN [holds EXCEPT ![c] = Plain] ELSE holds
        /\ uncounted' = IF Freed(c) THEN uncounted \ {c} ELSE uncounted \cup {c}
    BY <1>6 DEF ClearCell
  <2> HIDE DEF t
  <2>2. \A u \in Tables : Holders(u)' = Holders(u) \ {c}
    BY <1>1, <2>1, TablesAssumption DEF Holders, TypeOK
  <2>3. QED
    BY <1>4, <1>5, <2>1, <2>2
<1>7. CASE refs[t] = 1
  <2>1. Destroy(c, t) /\ uncounted' =
          (IF Freed(c) THEN uncounted \ {c} ELSE uncounted \cup {c}) \ F
    BY <1>7 DEF ClearCell
  <2>2. /\ holds' = [d \in Cells |-> IF d \in F \/ (d = c /\ Freed(c))
                                     THEN Plain ELSE holds[d]]
        /\ \A d \in F : d \in Elements /\ d[1] = t /\ ~Freed(d) /\ d[2] \notin BoolKeys
        /\ \A u \in Tables : lost'[u] = lost[u] + Cardinality(Holders(u) \cap F)
    BY <1>1, <2>1, DestroyFacts DEF Destroy
  <2>3. c \notin F
    <3> SUFFICES ASSUME c \in F PROVE FALSE
      OBVIOUS
    <3>1. c = after.dest /\ HeldOnStack(t)
      BY <2>2 DEF CountInv, WorkPlaced
    <3>2. PICK s \in Stack : s \notin uncounted /\ holds[s] = t
      BY <3>1 DEF HeldOnStack
    <3>3. s \in Holders(t) /\ s # c
      BY <2>2, <3>2, SlotFacts DEF Holders
    <3>4. Cardinality(Holders(t)) >= 2
      BY <1>3, <3>3, TwoHolders
    <3>5. QED
      BY <1>1, <1>4, <1>7, <3>4
  <2> HIDE DEF t, F
  <2>4. \A u \in Tables : Holders(u)' = (Holders(u) \ {c}) \ F
    <3> SUFFICES ASSUME NEW u \in Tables, NEW d
                 PROVE  d \in Holders(u)' <=> d \in (Holders(u) \ {c}) \ F
      OBVIOUS
    <3>1. d \in Holders(u)' <=> d \in Cells /\ holds'[d] = u /\ d \notin uncounted'
      BY DEF Holders
    <3>2. u # Plain
      BY TablesAssumption
    <3>3. CASE d \in F
      BY <2>2, <3>1, <3>2, <3>3
    <3>4. CASE d = c
      BY <1>1, <2>1, <2>2, <2>3, <3>1, <3>2, <3>4
    <3>5. CASE d \notin F /\ d # c
      BY <2>1, <2>2, <3>1, <3>5 DEF Holders
    <3>6. QED
      BY <3>3, <3>4, <3>5
  <2>5. ASSUME NEW u \in Tables
        PROVE  refs'[u] = Cardinality(Holders(u)') + lost'[u]
    <3> DEFINE H == Holders(u) \ {c}
    <3>1. IsFiniteSet(H)
      BY HoldersFinite, FS_RemoveElement
    <3>2. H \cap F = Holders(u) \cap F
      BY <2>3
    <3>3. Holders(u)' = H \ F
      BY <2>4
    <3>4. Cardinality(H) =
            IF u = t THEN Cardinality(Holders(u)) - 1 ELSE Cardinality(Holders(u))
      BY <1>5
    <3> HIDE DEF H
    <3>5. Cardinality(H \ F) + Cardinality(H \cap F) = Cardinality(H)
          /\ Cardinality(H \ F) \in Nat /\ Cardinality(H \cap F) \in Nat
      BY <3>1, Without
    <3>6. lost'[u] = lost[u] + Cardinality(H \cap F)
      BY <2>2, <3>2
    <3>7. QED
      BY <1>4, <3>3, <3>4, <3>5, <3>6
  <2>6. QED
    BY <2>5
<1>8. QED
  BY <1>6, <1>7

(* A counted reference is written into a cell that had none.               *)
LEMMA FinishCounts ==
  ASSUME TypeOK, CountInv, CountsExact, Finish, ~overdrawn
  PROVE  \A u \in Tables : refs'[u] = Cardinality(Holders(u)') + lost'[u]
<1> DEFINE d == after.dest
           v == Read(after.from)
<1>1. d \in Cells /\ v \in Tables \cup {Plain} /\ ~after.again /\ ~Freed(d)
      /\ work = {} /\ after # None
  BY AfterType DEF Finish
<1>2. /\ holds' = [holds EXCEPT ![d] = v] /\ refs' = Incref(refs, v)
      /\ uncounted' = uncounted \ {d} /\ lost' = lost
  BY DEF Finish, Store
<1>3. holds[d] = Plain \/ d \in uncounted
  BY <1>1 DEF CountInv, DestCleared
<1> HIDE DEF d, v
<1> SUFFICES ASSUME NEW u \in Tables
             PROVE  refs'[u] = Cardinality(Holders(u)') + lost'[u]
  OBVIOUS
<1>4. u # Plain /\ d \notin Holders(u)
  BY <1>3, TablesAssumption DEF Holders
<1>5. Holders(u)' = IF u = v THEN Holders(u) \cup {d} ELSE Holders(u)
  BY <1>1, <1>2, <1>4 DEF Holders, TypeOK
<1>6. Cardinality(Holders(u)') =
        IF u = v THEN Cardinality(Holders(u)) + 1 ELSE Cardinality(Holders(u))
  BY <1>4, <1>5, HoldersFinite, FS_AddElement
<1>7. refs'[u] = IF u = v THEN refs[u] + 1 ELSE refs[u]
  BY <1>1, <1>2, IncrefType DEF TypeOK
<1>8. /\ refs[u] = Cardinality(Holders(u)) + lost[u]
      /\ lost[u] \in Nat /\ Cardinality(Holders(u)) \in Nat
  BY HoldersFinite DEF CountsExact, TypeOK
<1>9. QED
  BY <1>2, <1>6, <1>7, <1>8

LEMMA AddsCounts ==
  ASSUME TypeOK, CountInv, CountsExact, Idle, ~overdrawn,
         NEW t \in Tables, NEW k \in Keys, NEW f \in Stack \cup {Plain},
         AddsElement(t, k, f), lost' = lost
  PROVE  \A u \in Tables : refs'[u] = Cardinality(Holders(u)') + lost'[u]
<1> DEFINE K == KeyCell(t, k)
           V == ValueCell(t, k)
           x == KeyOf(k)
           y == Read(f)
<1>1. /\ K \in Elements /\ V \in Elements /\ K \in Cells /\ V \in Cells /\ K # V
      /\ CellsAt(<<t, k>>) = {K, V}
  BY ElementCells DEF CellsAt
<1>2. Freed(K) /\ Freed(V)
  BY <1>1, ElementCells DEF Freed, AddsElement
<1>3. holds[K] = Plain /\ holds[V] = Plain
  BY <1>1, <1>2, IdleFacts DEF CountInv, FreedPlain
<1>4. x \in Tables \cup {Plain} /\ y \in Tables \cup {Plain}
  BY SlotFacts, ReadType DEF KeyOf
<1>5. /\ holds' = [holds EXCEPT ![K] = x, ![V] = y]
      /\ uncounted' = uncounted \ {K, V}
      /\ refs' = Incref(Incref(refs, x), y)
  BY <1>1 DEF AddsElement
<1> HIDE DEF K, V, x, y
<1> SUFFICES ASSUME NEW u \in Tables
             PROVE  refs'[u] = Cardinality(Holders(u)') + lost'[u]
  OBVIOUS
<1> DEFINE H == IF u = x THEN Holders(u) \cup {K} ELSE Holders(u)
<1>6. u # Plain /\ K \notin Holders(u) /\ V \notin H
  BY <1>1, <1>3, TablesAssumption DEF Holders
<1>7. Holders(u)' = IF u = y THEN H \cup {V} ELSE H
  BY <1>1, <1>3, <1>5, <1>6 DEF Holders, TypeOK
<1>8. IsFiniteSet(H) /\ Cardinality(H) =
        IF u = x THEN Cardinality(Holders(u)) + 1 ELSE Cardinality(Holders(u))
  BY <1>6, HoldersFinite, FS_AddElement
<1> HIDE DEF H
<1>9. Cardinality(Holders(u)') =
        IF u = y THEN Cardinality(H) + 1 ELSE Cardinality(H)
  BY <1>6, <1>7, <1>8, FS_AddElement
<1>10. Incref(refs, x) \in [Tables -> Nat]
       /\ Incref(refs, x)[u] = IF u = x THEN refs[u] + 1 ELSE refs[u]
  BY <1>4, IncrefType DEF TypeOK
<1>11. refs'[u] = IF u = y THEN Incref(refs, x)[u] + 1 ELSE Incref(refs, x)[u]
  BY <1>4, <1>5, <1>10, IncrefType
<1>12. /\ refs[u] = Cardinality(Holders(u)) + lost[u]
       /\ lost[u] \in Nat /\ Cardinality(Holders(u)) \in Nat
  BY HoldersFinite DEF CountsExact, TypeOK
<1>13. QED
  BY <1>8, <1>9, <1>10, <1>11, <1>12

LEMMA OverwriteCounts ==
  ASSUME TypeOK, CountsExact, ~overdrawn, NEW c \in Slots, Overwrite(c)
  PROVE  \A u \in Tables : refs'[u] = Cardinality(Holders(u)') + lost'[u]
<1>1. /\ holds' = [holds EXCEPT ![c] = Plain]
      /\ lost' = IF c \in uncounted THEN lost ELSE Incref(lost, holds[c])
      /\ uncounted' = uncounted \ {c} /\ refs' = refs
  BY DEF Overwrite
<1>2. c \in Cells /\ holds[c] \in Tables \cup {Plain}
  BY SlotFacts DEF TypeOK
<1> SUFFICES ASSUME NEW u \in Tables
             PROVE  refs'[u] = Cardinality(Holders(u)') + lost'[u]
  OBVIOUS
<1>3. Holders(u)' = Holders(u) \ {c}
  BY <1>1, <1>2, TablesAssumption DEF Holders, TypeOK
<1>4. Cardinality(Holders(u)') =
        IF c \in Holders(u) THEN Cardinality(Holders(u)) - 1
        ELSE Cardinality(Holders(u))
  BY <1>3, HoldersFinite, FS_RemoveElement
<1>5. lost'[u] = IF c \in Holders(u) THEN lost[u] + 1 ELSE lost[u]
  BY <1>1, <1>2, IncrefType DEF Holders, TypeOK
<1>6. /\ refs[u] = Cardinality(Holders(u)) + lost[u]
      /\ lost[u] \in Nat /\ Cardinality(Holders(u)) \in Nat
  BY HoldersFinite DEF CountsExact, TypeOK
<1>7. QED
  BY <1>1, <1>4, <1>5, <1>6

(* A table that a library function returns: its keys and values are        *)
(* counted, it itself is not, nor is the table that retval held.           *)
LEMMA ReturnCounts ==
  ASSUME TypeOK, CountInv, CountsExact, Idle, ~overdrawn, NEW n \in Tables, NEW e,
         DOMAIN e \subseteq HashKeys \cup BoolKeys \cup created,
         \A k \in DOMAIN e : e[k] \in created \cup {Plain}, Return(n, e)
  PROVE  \A u \in Tables : refs'[u] = Cardinality(Holders(u)') + lost'[u]
<1> SUFFICES ASSUME NEW u \in Tables
             PROVE  refs'[u] = Cardinality(Holders(u)') + lost'[u]
  OBVIOUS
<1> DEFINE D == {k \in DOMAIN e : e[k] = u}
           V == {ValueCell(n, k) : k \in D}
           K == IF u \in DOMAIN e THEN {KeyCell(n, u)} ELSE {}
           H == Holders(u) \ {retval}
<1>1. /\ n \notin created
      /\ refs'[u] = refs[u] + Cardinality(D) + (IF u \in DOMAIN e THEN 1 ELSE 0)
      /\ lost' = IF retval \in uncounted THEN lost ELSE Incref(lost, holds[retval])
      /\ uncounted' = uncounted \cup {retval}
  BY DEF Return
<1>2. \A c \in Cells : holds'[c] =
        IF c = retval THEN n
        ELSE IF c \in {KeyCell(n, k) : k \in DOMAIN e \cap Tables} THEN c[2]
        ELSE IF c \in {ValueCell(n, k) : k \in DOMAIN e} THEN e[c[2]]
        ELSE holds[c]
  BY DEF Return
<1>3. DOMAIN e \subseteq Keys /\ u # Plain
  BY TablesAssumption DEF Keys, TypeOK
<1>4. \A k \in DOMAIN e :
        /\ KeyCell(n, k) \in Cells /\ ValueCell(n, k) \in Cells
        /\ KeyCell(n, k) # retval /\ ValueCell(n, k) # retval
        /\ KeyCell(n, k)[2] = k /\ ValueCell(n, k)[2] = k
        /\ holds[KeyCell(n, k)] = Plain /\ holds[ValueCell(n, k)] = Plain
        /\ KeyCell(n, k) \notin uncounted /\ ValueCell(n, k) \notin uncounted
  <2> SUFFICES ASSUME NEW c \in Elements, c[1] = n
               PROVE  c \in Cells /\ c # retval /\ holds[c] = Plain /\ c \notin uncounted
    BY <1>3, ElementCells
  <2>1. Freed(c)
    BY <1>1 DEF Freed, CountInv, OnlyCreated
  <2>2. QED
    BY <2>1, ElementFacts, SlotFacts, IdleFacts DEF CountInv, FreedPlain
<1>5. \A k, l \in DOMAIN e : KeyCell(n, k) # ValueCell(n, l)
  BY DEF KeyCell, ValueCell
<1>6. K \cap V = {} /\ H \cap (K \cup V) = {}
  <2>1. K \cap V = {}
    BY <1>5
  <2>2. \A c \in K \cup V : holds[c] = Plain
    BY <1>4
  <2>3. QED
    BY <1>3, <2>1, <2>2 DEF Holders
<1>7. Holders(u)' = H \cup (K \cup V)
  <2> SUFFICES ASSUME NEW c
               PROVE  c \in Holders(u)' <=> c \in H \cup (K \cup V)
    OBVIOUS
  <2>1. c \in Holders(u)' <=>
          c \in Cells /\ holds'[c] = u /\ c \notin uncounted /\ c # retval
    BY <1>1 DEF Holders
  <2>2. c \in H <=> c \in Cells /\ holds[c] = u /\ c \notin uncounted /\ c # retval
    BY DEF Holders
  <2>3. ASSUME NEW k \in DOMAIN e, c = KeyCell(n, k)
        PROVE  c \in Holders(u)' <=> c \in H \cup (K \cup V)
    <3>1. CASE k \in Tables
      <4>1. holds'[c] = k
        BY <1>2, <1>4, <2>3, <3>1
      <4>2. c \in Holders(u)' <=> k = u
        BY <1>4, <2>1, <2>3, <4>1
      <4>3. c \notin H /\ c \notin V
        BY <1>3, <1>4, <1>5, <2>2, <2>3
      <4>4. c \in K <=> k = u
        BY <1>4, <2>3
      <4>5. QED
        BY <4>2, <4>3, <4>4
    <3>2. CASE k \notin Tables
      <4>1. holds'[c] = Plain
        <5>1. c \notin {KeyCell(n, l) : l \in DOMAIN e \cap Tables}
          BY <1>4, <2>3, <3>2
        <5>2. c \notin {ValueCell(n, l) : l \in DOMAIN e}
          BY <1>5, <2>3
        <5>3. QED
          BY <1>2, <1>4, <2>3, <5>1, <5>2
      <4>2. c \notin H /\ c \notin V /\ c \notin K
        BY <1>3, <1>4, <1>5, <2>2, <2>3, <3>2
      <4>3. QED
        BY <1>3, <2>1, <4>1, <4>2
    <3>3. QED
      BY <3>1, <3>2
  <2>4. ASSUME NEW k \in DOMAIN e, c = ValueCell(n, k)
        PROVE  c \in Holders(u)' <=> c \in H \cup (K \cup V)
    <3>1. c \notin {KeyCell(n, l) : l \in DOMAIN e \cap Tables}
      BY <1>5, <2>4
    <3>2. holds'[c] = e[k]
      BY <1>2, <1>4, <2>4, <3>1
    <3>3. c \in Holders(u)' <=> e[k] = u
      BY <1>4, <2>1, <2>4, <3>2
    <3>4. c \notin H /\ c \notin K
      BY <1>3, <1>4, <1>5, <2>2, <2>4
    <3>5. c \in V <=> e[k] = u
      BY <1>4, <2>4
    <3>6. QED
      BY <3>3, <3>4, <3>5
  <2>5. ASSUME \A k \in DOMAIN e : c # KeyCell(n, k) /\ c # ValueCell(n, k)
        PROVE  c \in Holders(u)' <=> c \in H \cup (K \cup V)
    <3>1. c \notin K /\ c \notin V
      BY <2>5
    <3>2. c \in Cells /\ c # retval => holds'[c] = holds[c]
      BY <1>2, <2>5
    <3>3. QED
      BY <2>1, <2>2, <3>1, <3>2
  <2>6. QED
    BY <2>3, <2>4, <2>5
<1>8. IsFiniteSet(V) /\ Cardinality(V) = Cardinality(D) /\ Cardinality(D) \in Nat
  <2>1. IsFiniteSet(D)
    BY <1>3, KeysFinite, FS_Subset
  <2> DEFINE g == [k \in D |-> ValueCell(n, k)]
  <2>2. g \in Bijection(D, V)
    <3>1. \A k, l \in D : g[k] = g[l] => k = l
      BY <1>4
    <3>2. g \in [D -> V] /\ \A c \in V : \E k \in D : g[k] = c
      OBVIOUS
    <3> HIDE DEF g, V, D
    <3>3. QED
      BY <3>1, <3>2 DEF Bijection, Injection, Surjection, IsInjective
  <2>3. ExistsBijection(D, V)
    BY <2>2 DEF ExistsBijection
  <2> HIDE DEF V, D
  <2>4. QED
    BY <2>1, <2>3, FS_Bijection, FS_CardinalityType
<1>9. IsFiniteSet(K) /\ Cardinality(K) = IF u \in DOMAIN e THEN 1 ELSE 0
  BY FS_Singleton, FS_EmptySet
<1>10. IsFiniteSet(H) /\ Cardinality(H) =
         IF retval \in Holders(u) THEN Cardinality(Holders(u)) - 1
         ELSE Cardinality(Holders(u))
  BY HoldersFinite, FS_RemoveElement
<1>11. lost'[u] = IF retval \in Holders(u) THEN lost[u] + 1 ELSE lost[u]
  <2>1. retval \in Cells /\ holds[retval] \in Tables \cup {Plain}
    BY SlotFacts DEF TypeOK
  <2>2. QED
    BY <1>1, <2>1, IncrefType DEF Holders, TypeOK
<1> HIDE DEF D, K, V, H
<1>12. IsFiniteSet(K \cup V)
       /\ Cardinality(K \cup V) = Cardinality(K) + Cardinality(V)
  <2>1. Cardinality(K \cup V) = Cardinality(K) + Cardinality(V) - Cardinality({})
        /\ IsFiniteSet(K \cup V)
    BY <1>6, <1>8, <1>9, FS_Union
  <2>2. QED
    BY <1>8, <1>9, <2>1, FS_EmptySet
<1>13. Cardinality(H \cup (K \cup V)) = Cardinality(H) + Cardinality(K \cup V)
  <2>1. Cardinality(H \cup (K \cup V)) =
          Cardinality(H) + Cardinality(K \cup V) - Cardinality({})
    BY <1>6, <1>10, <1>12, FS_Union
  <2>2. Cardinality({}) = 0 /\ Cardinality(H) \in Nat /\ Cardinality(K \cup V) \in Nat
    BY <1>10, <1>12, FS_EmptySet, FS_CardinalityType
  <2>3. QED
    BY <2>1, <2>2
<1>14. /\ refs[u] = Cardinality(Holders(u)) + lost[u]
       /\ lost[u] \in Nat /\ Cardinality(Holders(u)) \in Nat
  BY HoldersFinite DEF CountsExact, TypeOK
<1>15. QED
  BY <1>1, <1>7, <1>8, <1>9, <1>10, <1>11, <1>12, <1>13, <1>14

LEMMA CountsStep == TypeOK /\ CountInv /\ CountsExact /\ [Next]_vars => CountsExact'
<1> DEFINE Exact == \A u \in Tables : refs'[u] = Cardinality(Holders(u)') + lost'[u]
<1> SUFFICES ASSUME TypeOK, CountInv, CountsExact, [Next]_vars, ~overdrawn'
             PROVE  Exact
  BY DEF CountsExact
<1>1. ASSUME UNCHANGED <<holds, refs, uncounted, lost, overdrawn>> PROVE Exact
  BY <1>1 DEF CountsExact, Holders
<1>2. ASSUME NEW c \in work, ClearCell(c) \/ ClearPlain(c) \/ CountAssertFails(c)
      PROVE  Exact
  <2>1. CASE ClearCell(c)
    BY <2>1, ClearCounts
  <2>2. CASE ClearPlain(c) \/ CountAssertFails(c)
    BY <1>1, <2>2 DEF ClearPlain, CountAssertFails
  <2>3. QED
    BY <1>2, <2>1, <2>2
<1>3. CASE Finish
  <2>1. ~overdrawn
    BY <1>3 DEF Finish
  <2>2. QED
    BY <1>3, <2>1, FinishCounts
<1>4. CASE FinishClearing \/ WildAssign
  BY <1>1, <1>4 DEF FinishClearing, WildAssign
<1>5. ASSUME NEW c \in Slots, Overwrite(c) PROVE Exact
  <2>1. ~overdrawn
    BY <1>5 DEF Overwrite
  <2>2. QED
    BY <1>5, <2>1, OverwriteCounts
<1>6. ASSUME NEW c \in Stack, ReturnClears(c) PROVE Exact
  <2>1. ~overdrawn /\ Idle
    BY <1>6 DEF ReturnClears
  <2>2. CASE IsTable(c) /\ refs[holds[c]] = 0
    <3>1. c \notin uncounted /\ c \in Cells /\ holds[c] \in Tables
      BY <2>1, <2>2, IdleFacts, SlotFacts DEF IsTable, TypeOK
    <3>2. c \in Holders(holds[c])
      BY <3>1 DEF Holders
    <3>3. Cardinality(Holders(holds[c])) >= 1 /\ Cardinality(Holders(holds[c])) \in Nat
      BY <3>2, OneHolder, HoldersFinite
    <3>4. refs[holds[c]] = Cardinality(Holders(holds[c])) + lost[holds[c]]
          /\ lost[holds[c]] \in Nat
      BY <2>1, <3>1 DEF CountsExact, TypeOK
    <3>5. QED
      BY <2>2, <3>3, <3>4
  <2>3. CASE ~(IsTable(c) /\ refs[holds[c]] = 0)
    <3>1. UNCHANGED <<holds, refs, uncounted, lost, overdrawn>>
      BY <1>6, <2>3 DEF ReturnClears
    <3>2. QED
      BY <1>1, <3>1
  <2>4. QED
    BY <2>2, <2>3
<1>7. ASSUME NEW s \in Stack, NEW i \in Stack \cup HashKeys \cup BoolKeys,
             NEW f \in Stack \cup {Plain}, SetElem(s, i, f)
      PROVE  Exact
  <2>1. /\ Idle /\ holds[s] \in Tables /\ lost' = lost /\ overdrawn' = overdrawn
    BY <1>7, SetElemCases
  <2>2. PICK k \in Keys :
          AssignsElement(holds[s], k, f) \/ AddsElement(holds[s], k, f)
    BY <1>7, SetElemCases
  <2>3. CASE AssignsElement(holds[s], k, f)
    BY <1>1, <2>1, <2>3 DEF AssignsElement
  <2>4. CASE AddsElement(holds[s], k, f)
    BY <2>1, <2>4, AddsCounts
  <2>5. QED
    BY <2>2, <2>3, <2>4
<1>8. ASSUME NEW n \in Tables,
             \/ \E s \in Stack : ObjectCopy(s, n) \/ ObjectMemberKeys(s, n)
             \/ EmptyResult(n)
      PROVE  Exact
  <2>1. Idle
    BY <1>8, LibraryFacts
  <2>2. PICK e : /\ Return(n, e)
                 /\ DOMAIN e \subseteq HashKeys \cup BoolKeys \cup created
                 /\ \A k \in DOMAIN e : e[k] \in created \cup {Plain}
    BY <1>8, LibraryFacts
  <2>3. ~overdrawn
    BY <2>2 DEF Return
  <2>4. QED
    BY <2>1, <2>2, <2>3, ReturnCounts
<1>9. ASSUME NEW c \in Slots, NEW f \in Stack \cup {retval, Plain}, Assign(c, f)
      PROVE  Exact
  BY <1>1, <1>9 DEF Assign
<1>10. ASSUME NEW c \in Stack, Argument(c) PROVE Exact
  BY <1>1, <1>10 DEF Argument
<1>11. ASSUME NEW c \in Stack, NEW t \in Tables, NewTable(c, t) PROVE Exact
  BY <1>1, <1>11 DEF NewTable
<1>12. ASSUME NEW c \in Stack, NEW s \in Stack,
              NEW i \in Stack \cup HashKeys \cup BoolKeys, GetElem(c, s, i)
       PROVE  Exact
  BY <1>1, <1>12 DEF GetElem
<1>13. CASE Fails("finished") \/ Fails("aborted") \/ Stopped \/ UNCHANGED vars
  BY <1>1, <1>13 DEF Fails, Stopped, vars
<1> HIDE DEF Exact
<1>14. CASE Clear
  BY <1>2, <1>14 DEF Clear
<1>15. ASSUME NEW c \in Slots,
              Overwrite(c) \/ \E f \in Stack \cup {retval, Plain} : Assign(c, f)
       PROVE  Exact
  BY <1>5, <1>9, <1>15
<1>16. ASSUME NEW s \in Stack, NEW i \in Stack \cup HashKeys \cup BoolKeys,
              \/ \E c \in Stack : GetElem(c, s, i)
              \/ \E f \in Stack \cup {Plain} : SetElem(s, i, f)
       PROVE  Exact
  BY <1>7, <1>12, <1>16
<1>17. QED
  BY <1>3, <1>4, <1>6, <1>8, <1>10, <1>11, <1>13, <1>14, <1>15, <1>16 DEF Next

LEMMA CountInvariant == Spec => [](TypeOK /\ CountInv /\ CountsExact)
<1>1. ASSUME Init PROVE CountInv
  <2>1. OnlyCreated /\ FreedPlain
    BY <1>1 DEF Init, OnlyCreated, FreedPlain, Cells
  <2>2. StackCounted /\ WorkPlaced /\ DestCleared /\ UncountedIsTable
    BY <1>1 DEF Init, StackCounted, WorkPlaced, DestCleared, UncountedIsTable
  <2>3. QED
    BY <2>1, <2>2 DEF CountInv
<1>2. ASSUME Init PROVE CountsExact
  <2>1. ASSUME NEW u \in Tables PROVE refs[u] = Cardinality(Holders(u)) + lost[u]
    <3>1. Holders(u) = {} /\ refs[u] = 0 /\ lost[u] = 0
      BY <1>2, TablesAssumption DEF Init, Holders
    <3>2. QED
      BY <3>1, FS_EmptySet
  <2>2. QED
    BY <2>1 DEF CountsExact
<1>3. QED
  BY <1>1, <1>2, TableTypes, PlacesStep, CountsStep, PTL DEF Spec

(* In every state, in the middle of nested destructions too, refCounter is *)
(* the number of cells that hold the table and have counted it, and of the *)
(* references that were lost with their cells, until a cell is cleared     *)
(* that had no reference to give back.                                     *)
THEOREM CountsAreExact == Spec => []CountsExact
BY CountInvariant, PTL

-----------------------------------------------------------------------------
(* What programs see of it when they call none of objectcopy,              *)
(* objectmemberkeys and argument: the assertion of avm_tabledecrefcounter  *)
(* holds, and AvmTables implements TableMemory.                            *)

-----------------------------------------------------------------------------
(* Nothing is miscounted.                                                  *)

(* A table that has been destroyed: no reference to it is left. *)
Dead(t) ==
  /\ t \in created /\ refs[t] = 0
  /\ after # None => Read(after.from) # t

(* What is assigned stays: it is in another slot, in an element of a table *)
(* that is held on the stack, or a new table that is not held yet.         *)
AssignmentSafe ==
  after # None =>
    /\ ~after.again
    /\ after.from \in Cells =>
         /\ after.from # after.dest
         /\ after.from \in Slots \/ HeldOnStack(after.from[1])
    /\ after.from \in Tables => \A c \in Cells : holds[c] # after.from
    /\ after.dest \in Elements =>
         /\ HeldOnStack(after.dest[1])
         /\ after.dest = ValueCell(after.dest[1], after.dest[2])

SlotsCounted ==
  \A s \in Slots : s \in uncounted \/ s \in work => after # None /\ after.dest = s

ElementsCounted ==
  \A c \in Elements :
    c \in uncounted \/ c \in work => (after # None /\ after.dest = c) \/ Dead(c[1])

KeysHeld ==
  \A t \in Tables, k \in Tables :
    <<t, k>> \in buckets => holds[KeyCell(t, k)] = k

Counted ==
  /\ ~overdrawn /\ work \cap uncounted = {}
  /\ AssignmentSafe /\ SlotsCounted /\ ElementsCounted /\ KeysHeld

TableInv == TypeOK /\ CountInv /\ CountsExact

LEMMA RefsOfHolder ==
  ASSUME TableInv, Counted, NEW t \in Tables, NEW c \in Cells,
         c \notin uncounted, holds[c] = t
  PROVE  /\ refs[t] \in Nat /\ refs[t] > 0
         /\ \A d \in Cells : d # c /\ d \notin uncounted /\ holds[d] = t => refs[t] > 1
<1>1. /\ refs[t] = Cardinality(Holders(t)) + lost[t]
      /\ lost[t] \in Nat /\ Cardinality(Holders(t)) \in Nat /\ refs[t] \in Nat
  BY HoldersFinite DEF TableInv, Counted, CountsExact, TypeOK
<1>2. c \in Holders(t)
  BY DEF Holders
<1>3. Cardinality(Holders(t)) >= 1
  BY <1>2, OneHolder
<1>4. ASSUME NEW d \in Cells, d # c, d \notin uncounted, holds[d] = t
      PROVE  refs[t] > 1
  <2>1. d \in Holders(t)
    BY <1>4 DEF Holders
  <2>2. Cardinality(Holders(t)) >= 2
    BY <1>2, <1>4, <2>1, TwoHolders
  <2>3. QED
    BY <1>1, <2>2
<1>5. QED
  BY <1>1, <1>3, <1>4

LEMMA StackAlive ==
  ASSUME TableInv, Counted, NEW t \in Tables, HeldOnStack(t)
  PROVE  refs[t] \in Nat /\ refs[t] > 0 /\ ~Dead(t)
<1>1. PICK s \in Stack : s \notin uncounted /\ holds[s] = t
  BY DEF HeldOnStack
<1>2. QED
  BY <1>1, SlotFacts, RefsOfHolder DEF Dead

(* assert(t->refCounter > 0) *)
LEMMA WorkCounted ==
  ASSUME TableInv, Counted, NEW c \in work, IsTable(c)
  PROVE  /\ c \in Cells /\ c \notin uncounted /\ holds[c] \in Tables
         /\ refs[holds[c]] \in Nat /\ refs[holds[c]] > 0
<1>1. c \in Cells /\ c \notin uncounted /\ holds[c] \in Tables
  BY DEF TableInv, TypeOK, Counted, IsTable
<1>2. QED
  BY <1>1, RefsOfHolder

(* What the table that is destroyed has in common with no other. *)
LEMMA ClearChanges ==
  ASSUME TypeOK, NEW c \in work, ClearCell(c)
  PROVE  /\ \A d \in Elements : (d \in work' /\ d \notin work) \/ (d = c /\ d \in work') =>
              ~Freed(d) /\ d[1] = holds[c] /\ refs[holds[c]] = 1
         /\ \A b \in buckets : b \in buckets' \/ (b[1] = holds[c] /\ refs[holds[c]] = 1)
         /\ \A d \in Cells : \/ holds'[d] = holds[d]
                             \/ d = c /\ Freed(c)
                             \/ d \in Elements /\ Freed(d)' /\ d[1] = holds[c]
                                /\ refs[holds[c]] = 1
         /\ \A u \in Tables : refs'[u] = IF u = holds[c] THEN refs[u] - 1 ELSE refs[u]
         /\ overdrawn' = (overdrawn \/ c \in uncounted)
<1>1. c \in Cells /\ holds[c] \in Tables
  BY ClearFacts
<1>2. /\ \A u \in Tables : refs'[u] = IF u = holds[c] THEN refs[u] - 1 ELSE refs[u]
      /\ overdrawn' = (overdrawn \/ c \in uncounted)
  BY DEF ClearCell, TypeOK
<1>3. CASE refs[holds[c]] # 1
  <2>1. /\ work' = work \ {c} /\ buckets' = buckets
        /\ holds' = IF Freed(c) THEN [holds EXCEPT ![c] = Plain] ELSE holds
    BY <1>3 DEF ClearCell
  <2>2. \A d \in Cells : holds'[d] = holds[d] \/ (d = c /\ Freed(c))
    BY <2>1 DEF TypeOK
  <2>3. QED
    BY <1>2, <2>1, <2>2
<1>4. CASE refs[holds[c]] = 1
  <2> DEFINE t == holds[c]
             F == CellsOf(Forgotten(t))
             W == CellsOf(Walked(t))
  <2>1. Destroy(c, t)
    BY <1>4 DEF ClearCell
  <2>2. /\ holds' = [d \in Cells |-> IF d \in F \/ (d = c /\ Freed(c))
                                     THEN Plain ELSE holds[d]]
        /\ work' = (work \ {c}) \cup W
        /\ \A d \in W : d[1] = t /\ ~Freed(d)
        /\ \A d \in F : d[1] = t /\ ~Freed(d) /\ d \in Elements /\ d[2] \notin BoolKeys
    BY <1>1, <2>1, DestroyFacts
  <2>3. \A b \in buckets : b \in buckets' \/ b[1] = t
    BY <2>1 DEF Destroy, OfTable
  <2>4. \A d \in F : Freed(d)'
    <3> SUFFICES ASSUME NEW d \in F PROVE Freed(d)'
      OBVIOUS
    <3> DEFINE b == <<d[1], d[2]>>
    <3>1. b[1] = d[1] /\ b[2] = d[2] /\ d \in Elements
      BY <2>2
    <3>2. b \in OfTable(t)
      BY <2>2 DEF Freed, OfTable
    <3>3. b \notin Kept(t)
      BY <2>2, <3>1 DEF Kept
    <3>4. b \notin buckets'
      BY <2>1, <3>2, <3>3 DEF Destroy
    <3>5. QED
      BY <3>1, <3>4 DEF Freed
  <2> HIDE DEF t, F, W
  <2>5. QED
    BY <1>2, <1>4, <2>2, <2>3, <2>4 DEF t
<1>5. QED
  BY <1>3, <1>4

LEMMA StackKept ==
  ASSUME TypeOK, NEW c \in work, ClearCell(c) \/ ClearPlain(c)
  PROVE  \A t : HeldOnStack(t) => HeldOnStack(t)'
<1> SUFFICES ASSUME NEW t, HeldOnStack(t) PROVE HeldOnStack(t)'
  OBVIOUS
<1>1. PICK s \in Stack : s \notin uncounted /\ s \notin work /\ holds[s] = t
  BY DEF HeldOnStack
<1>2. s \notin uncounted' /\ s \notin work' /\ holds'[s] = t
  <2>1. CASE ClearCell(c)
    BY <1>1, <2>1, SlotFacts, ClearFacts
  <2>2. CASE ClearPlain(c)
    BY <1>1, <2>2 DEF ClearPlain
  <2>3. QED
    BY <2>1, <2>2
<1>3. QED
  BY <1>2 DEF HeldOnStack

(* What is assigned is not touched while the destination is cleared.       *)
LEMMA SourceKept ==
  ASSUME TableInv, Counted, NEW c \in work, ClearCell(c)
  PROVE  Read(after.from)' = Read(after.from)
<1>1. after' = after /\ after # None /\ c \in Cells /\ holds[c] \in Tables
  BY ClearFacts DEF TableInv
<1>2. CASE after.from \notin Cells
  BY <1>1, <1>2 DEF Read
<1>3. CASE after.from \in Slots
  BY <1>1, <1>3, SlotFacts, ClearFacts DEF Read, TableInv
<1>4. CASE after.from \in Elements
  <2> DEFINE d == after.from
             x == d[1]
  <2>1. d \in Cells /\ x \in Tables
    BY <1>4, ElementFacts
  <2>2. d # after.dest /\ HeldOnStack(x)
    BY <1>1, <1>4, <2>1, SlotFacts DEF Counted, AssignmentSafe
  <2>3. ~Dead(x) /\ d \notin work /\ d # c
    BY <1>1, <1>4, <2>1, <2>2, StackAlive DEF Counted, ElementsCounted
  <2>4. CASE x = holds[c] /\ refs[holds[c]] = 1
    <3>1. PICK s \in Stack : s \notin uncounted /\ s \notin work /\ holds[s] = x
      BY <2>2 DEF HeldOnStack
    <3>2. s # c /\ c \notin uncounted /\ s \in Cells
      BY <3>1, SlotFacts DEF Counted
    <3>3. refs[x] > 1
      BY <1>1, <2>1, <2>4, <3>1, <3>2, RefsOfHolder
    <3>4. QED
      BY <2>4, <3>3
  <2>5. CASE ~(x = holds[c] /\ refs[holds[c]] = 1)
    <3>1. holds'[d] = holds[d]
      BY <2>1, <2>3, <2>5, ClearChanges DEF TableInv
    <3>2. QED
      BY <1>1, <2>1, <3>1 DEF Read
  <2>6. QED
    BY <2>4, <2>5
<1>5. QED
  BY <1>2, <1>3, <1>4, SlotFacts

(* The cells of a table whose last reference is given back: none of them   *)
(* has been cleared, or is about to be, or is assigned.                    *)
LEMMA LastReference ==
  ASSUME TableInv, Counted, NEW c \in work, ClearCell(c), refs[holds[c]] = 1,
         NEW d \in Elements, d[1] = holds[c]
  PROVE  d \notin uncounted /\ d \notin work
<1> DEFINE t == holds[c]
<1>1. t \in Tables /\ c \in Cells /\ c \notin uncounted /\ after # None
  BY ClearFacts DEF TableInv, Counted
<1>2. ~HeldOnStack(t)
  <2> SUFFICES ASSUME HeldOnStack(t) PROVE FALSE
    OBVIOUS
  <2>1. PICK s \in Stack : s \notin uncounted /\ s \notin work /\ holds[s] = t
    BY DEF HeldOnStack
  <2>2. refs[t] > 1
    BY <1>1, <2>1, SlotFacts, RefsOfHolder
  <2>3. QED
    BY <2>2
<1>3. after.dest # d
  BY <1>1, <1>2 DEF Counted, AssignmentSafe
<1>4. ~Dead(d[1])
  BY DEF Dead
<1>5. QED
  BY <1>3, <1>4 DEF Counted, ElementsCounted

(* The table that gives back its last reference is destroyed for good.     *)
LEMMA LastIsDead ==
  ASSUME TableInv, Counted, NEW c \in work, ClearCell(c), refs[holds[c]] = 1
  PROVE  \A x : x = holds[c] => Dead(x)'
<1> DEFINE t == holds[c]
<1>0. /\ t \in Tables /\ c \in Cells /\ c \notin uncounted /\ after # None
      /\ UNCHANGED <<created, after, status>> /\ t \in created
  BY ClearFacts, TablesAssumption
  DEF TableInv, Counted, CountInv, OnlyCreated, Cells
<1> SUFFICES ASSUME NEW x, x = t PROVE Dead(x)'
  OBVIOUS
<1>1. refs'[x] = 0
  BY <1>0, ClearChanges DEF TableInv
<1>2. Read(after.from) # t
  <2> SUFFICES ASSUME Read(after.from) = t PROVE FALSE
    OBVIOUS
  <2> DEFINE d == after.from
  <2>1. CASE d \notin Cells
    <3>1. d = t
      BY <2>1 DEF Read
    <3>2. QED
      BY <1>0, <3>1 DEF Counted, AssignmentSafe
  <2>2. CASE d \in Cells
    <3>1. holds[d] = t /\ d # after.dest
      BY <1>0, <2>2 DEF Read, Counted, AssignmentSafe
    <3>2. d \notin uncounted /\ d \notin work
      <4>1. CASE d \in Slots
        BY <3>1, <4>1 DEF Counted, SlotsCounted
      <4>2. CASE d \in Elements
        <5>1. d[1] \in Tables /\ HeldOnStack(d[1])
          BY <1>0, <2>2, <4>2, ElementFacts DEF Counted, AssignmentSafe
        <5>2. ~Dead(d[1])
          BY <5>1, StackAlive
        <5>3. QED
          BY <3>1, <4>2, <5>2 DEF Counted, ElementsCounted
      <4>3. QED
        BY <2>2, <4>1, <4>2, SlotFacts
    <3>3. refs[t] > 1
      BY <1>0, <2>2, <3>1, <3>2, RefsOfHolder
    <3>4. QED
      BY <3>3
  <2>3. QED
    BY <2>1, <2>2
<1>3. Read(after.from)' # x
  BY <1>2, SourceKept
<1>4. QED
  BY <1>0, <1>1, <1>3 DEF Dead


LEMMA ClearStaysCounted ==
  ASSUME TableInv, Counted, NEW c \in work, ClearCell(c)
  PROVE  Counted'
<1> DEFINE t == holds[c]
<1>1. /\ t \in Tables /\ c \in Cells /\ c \notin uncounted /\ after # None
      /\ UNCHANGED <<created, after, status>> /\ t \in created
  BY ClearFacts, TablesAssumption
  DEF TableInv, Counted, CountInv, OnlyCreated, Cells
<1>2. ~overdrawn'
  BY <1>1, ClearChanges DEF TableInv, Counted
<1>3. refs[t] \in Nat /\ refs[t] > 0
  BY <1>1, RefsOfHolder
<1>4. \A d \in Elements : d \in work' =>
        (d \in work /\ d # c) \/ (d[1] = t /\ refs[t] = 1 /\ d \notin uncounted /\ d # c)
  <2> SUFFICES ASSUME NEW d \in Elements, d \in work', d \notin work \/ d = c
               PROVE  d[1] = t /\ refs[t] = 1 /\ d \notin uncounted /\ d # c
    OBVIOUS
  <2>1. d[1] = t /\ refs[t] = 1
    BY ClearChanges DEF TableInv
  <2>2. d \notin uncounted /\ d \notin work
    BY <2>1, LastReference
  <2>3. QED
    BY <2>1, <2>2
<1>5. \A d \in Slots : d \in work' => d \in work /\ d # c
  BY ClearFacts DEF TableInv
<1>6. \A d \in uncounted' : d \in Cells /\ (d = c \/ d \in uncounted)
  BY ClearFacts, ClearType DEF TableInv, TypeOK
<1>7. work' \cap uncounted' = {}
  <2> SUFFICES ASSUME NEW d \in work', d \in uncounted' PROVE FALSE
    OBVIOUS
  <2>1. d \in Slots \/ d \in Elements
    BY <1>6, SlotFacts
  <2>2. QED
    BY <1>4, <1>5, <1>6, <2>1 DEF Counted
<1>8. AssignmentSafe'
  <2>1. \A x : HeldOnStack(x) => HeldOnStack(x)'
    BY StackKept DEF TableInv
  <2>2. \A d \in Cells : holds'[d] = holds[d] \/ holds'[d] = Plain
    BY ClearFacts DEF TableInv
  <2>3. Plain \notin Tables
    BY TablesAssumption
  <2>4. QED
    BY <1>1, <2>1, <2>2, <2>3 DEF Counted, AssignmentSafe
<1>9. SlotsCounted'
  BY <1>1, <1>5, <1>6 DEF Counted, SlotsCounted
<1>10. \A x : Dead(x) => Dead(x)'
  <2>1. ASSUME NEW x, Dead(x) PROVE x \in Tables /\ x # t
    BY <1>3, <2>1 DEF Dead, TableInv, TypeOK
  <2>2. \A x \in Tables : x # t => refs'[x] = refs[x]
    BY ClearChanges DEF TableInv
  <2>3. QED
    BY <1>1, <2>1, <2>2, SourceKept DEF Dead
<1>11. \A x : x = t /\ refs[t] = 1 => Dead(x)'
  BY LastIsDead
<1>12. ElementsCounted'
  <2> SUFFICES ASSUME NEW d \in Elements, d \in uncounted' \/ d \in work'
               PROVE  after.dest = d \/ Dead(d[1])'
    BY <1>1 DEF ElementsCounted
  <2>1. CASE d \in uncounted \/ d \in work
    BY <1>10, <2>1 DEF Counted, ElementsCounted
  <2>2. CASE d \notin uncounted /\ d \notin work
    BY <1>4, <1>6, <1>11, <2>2
  <2>3. QED
    BY <2>1, <2>2
<1>13. KeysHeld'
  <2> SUFFICES ASSUME NEW u \in Tables, NEW k \in Tables, <<u, k>> \in buckets'
               PROVE  holds'[KeyCell(u, k)] = k
    BY DEF KeysHeld
  <2> DEFINE d == KeyCell(u, k)
  <2>1. k \in Keys
    BY DEF Keys
  <2>2. d \in Elements /\ d \in Cells /\ d[1] = u /\ d[2] = k
    BY <2>1, ElementCells
  <2>3. <<u, k>> \in buckets
    BY ClearFacts DEF TableInv
  <2>4. ~Freed(d) /\ ~Freed(d)'
    BY <2>2, <2>3 DEF Freed
  <2>5. holds[d] = k
    BY <2>3 DEF Counted, KeysHeld
  <2> HIDE DEF d
  <2>6. holds'[d] = holds[d]
    BY <2>2, <2>4, ClearChanges DEF TableInv
  <2>7. QED
    BY <2>5, <2>6 DEF d
<1>14. QED
  BY <1>2, <1>7, <1>8, <1>9, <1>12, <1>13 DEF Counted

LEMMA OtherClearsStayCounted ==
  ASSUME TableInv, Counted, NEW c \in work, ClearPlain(c) \/ CountAssertFails(c)
  PROVE  Counted'
<1>1. /\ work' \subseteq work
      /\ UNCHANGED <<holds, buckets, refs, created, after, uncounted, overdrawn>>
  BY DEF ClearPlain, CountAssertFails
<1>2. \A x : HeldOnStack(x) => HeldOnStack(x)'
  BY <1>1 DEF HeldOnStack
<1>3. \A x : Dead(x) => Dead(x)'
  BY <1>1 DEF Dead, Read
<1>4. AssignmentSafe'
  BY <1>1, <1>2 DEF Counted, AssignmentSafe
<1>5. SlotsCounted' /\ ElementsCounted' /\ KeysHeld'
  BY <1>1, <1>3 DEF Counted, SlotsCounted, ElementsCounted, KeysHeld
<1>6. QED
  BY <1>1, <1>4, <1>5 DEF Counted

LEMMA FinishStaysCounted ==
  ASSUME TableInv, Counted, Finish \/ FinishClearing \/ WildAssign
  PROVE  Counted'
<1>1. after # None /\ after.dest \in Cells /\ ~after.again /\ work = {}
  BY AfterType
  DEF Finish, FinishClearing, WildAssign, TableInv, Counted, AssignmentSafe
<1>2. CASE WildAssign
  BY <1>2 DEF WildAssign, Counted, AssignmentSafe, HeldOnStack, SlotsCounted,
              ElementsCounted, Dead, Read, KeysHeld
<1>3. CASE Finish
  <2> DEFINE v == Read(after.from)
             d == after.dest
  <2>1. /\ holds' = [holds EXCEPT ![d] = v] /\ refs' = Incref(refs, v)
        /\ uncounted' = uncounted \ {d} /\ after' = None
        /\ UNCHANGED <<buckets, created, work, overdrawn>>
    BY <1>3 DEF Finish, Store
  <2>2. v \in Tables \cup {Plain}
    BY <1>1, AfterType DEF TableInv
  <2>3. \A x : Dead(x) => Dead(x)'
    <3>1. ASSUME NEW x, Dead(x) PROVE x \in Tables /\ x # v
      BY <1>1, <3>1 DEF Dead, TableInv, TypeOK
    <3>2. \A x \in Tables : x # v => refs'[x] = refs[x]
      BY <2>1, <2>2, IncrefType DEF TableInv, TypeOK
    <3>3. QED
      BY <2>1, <3>1, <3>2 DEF Dead
  <2>4. SlotsCounted'
    BY <1>1, <2>1 DEF Counted, SlotsCounted
  <2>5. ElementsCounted'
    BY <1>1, <2>1, <2>3 DEF Counted, ElementsCounted
  <2>6. KeysHeld'
    <3> SUFFICES ASSUME NEW u \in Tables, NEW k \in Tables, <<u, k>> \in buckets
                 PROVE  holds'[KeyCell(u, k)] = k
      BY <2>1 DEF KeysHeld
    <3>1. KeyCell(u, k) \in Elements /\ KeyCell(u, k) \in Cells
      BY ElementCells DEF Keys
    <3>2. d # KeyCell(u, k)
      BY <1>1, <3>1 DEF Counted, AssignmentSafe, KeyCell, ValueCell
    <3>3. QED
      BY <2>1, <3>1, <3>2 DEF Counted, KeysHeld, TableInv, TypeOK
  <2>7. AssignmentSafe'
    BY <2>1 DEF AssignmentSafe
  <2>8. QED
    BY <1>1, <2>1, <2>4, <2>5, <2>6, <2>7 DEF Counted
<1>4. CASE FinishClearing
  BY <1>1, <1>4 DEF FinishClearing
<1>5. QED
  BY <1>2, <1>3, <1>4

(* An assignment begins; the tables whose elements it reads and writes are *)
(* on the stack, not only in the cell that is cleared.                     *)
LEMMA BeginStaysCounted ==
  ASSUME TableInv, Counted, Idle, NEW dest \in Cells,
         NEW from \in Cells \cup created' \cup {Plain},
         NEW then \in {"running", "finished"}, Begin(dest, from, FALSE, then),
         from # dest, from \in Tables => from \notin created,
         from \in Elements => \E s \in Stack : s # dest /\ holds[s] = from[1],
         dest \in Elements => /\ \E s \in Stack : holds[s] = dest[1]
                              /\ dest = ValueCell(dest[1], dest[2]),
         created \subseteq created', created' \subseteq Tables,
         UNCHANGED <<holds, buckets, refs, uncounted, overdrawn>>
  PROVE  Counted'
<1>1. /\ work' = {dest} /\ after' # None /\ after'.dest = dest
      /\ after'.from = from /\ ~after'.again
  BY BeginType, ZenonT(30)
<1>2. after = None /\ work = {} /\ \A s \in Slots : s \notin uncounted
  BY IdleFacts DEF TableInv, Counted, SlotsCounted
<1>3. ASSUME NEW d \in Elements, \E s \in Stack : holds[s] = d[1]
      PROVE  d \notin uncounted
  <2>1. d[1] \in Tables /\ HeldOnStack(d[1])
    BY <1>2, <1>3, ElementFacts, SlotFacts DEF HeldOnStack
  <2>2. ~Dead(d[1])
    BY <2>1, StackAlive
  <2>3. QED
    BY <1>2, <2>2 DEF Counted, ElementsCounted
<1>4. dest \notin uncounted
  BY <1>2, <1>3, SlotFacts
<1>5. ASSUME NEW x, NEW s \in Stack, s # dest, holds[s] = x
      PROVE  HeldOnStack(x)'
  <2>1. s \notin uncounted' /\ s \notin work'
    BY <1>1, <1>2, <1>5, SlotFacts
  <2>2. QED
    BY <1>5, <2>1 DEF HeldOnStack
<1>6. \A x : Dead(x) => Dead(x)'
  <2> SUFFICES ASSUME NEW x, Dead(x) PROVE Dead(x)'
    OBVIOUS
  <2>1. x \in Tables /\ x \in created /\ refs[x] = 0 /\ x # Plain
    BY TablesAssumption DEF Dead, TableInv, TypeOK
  <2>2. Read(from) # x
    <3>1. CASE from \in Cells
      <4>1. from \notin uncounted
        BY <1>2, <1>3, <3>1, SlotFacts
      <4>2. holds[from] # x
        BY <2>1, <3>1, <4>1, RefsOfHolder
      <4>3. QED
        BY <3>1, <4>2 DEF Read
    <3>2. CASE from \notin Cells
      BY <2>1, <3>2 DEF Read
    <3>3. QED
      BY <3>1, <3>2
  <2>3. QED
    BY <1>1, <2>1, <2>2 DEF Dead, Read
<1>7. ElementsCounted'
  BY <1>1, <1>2, <1>6 DEF Counted, ElementsCounted
<1>8. SlotsCounted'
  BY <1>1, <1>2 DEF SlotsCounted
<1>9. KeysHeld'
  BY DEF Counted, KeysHeld
<1>10. AssignmentSafe'
  <2>1. from \in Cells => from \in Slots \/ HeldOnStack(from[1])'
    BY <1>5, SlotFacts
  <2>2. from \in Tables => \A c \in Cells : holds[c] # from
    BY TablesAssumption DEF TableInv, CountInv, OnlyCreated
  <2>3. dest \in Elements => HeldOnStack(dest[1])'
    BY <1>5, SlotFacts
  <2>4. QED
    BY <1>1, <2>1, <2>2, <2>3 DEF AssignmentSafe
<1>11. QED
  BY <1>1, <1>2, <1>4, <1>7, <1>8, <1>9, <1>10 DEF Counted

LEMMA AssigningStaysCounted ==
  ASSUME TableInv, Counted, Idle, NEW dest \in Cells,
         NEW from \in Slots \cup {Plain}, Assigning(dest, from),
         dest \in Elements => /\ \E s \in Stack : holds[s] = dest[1]
                              /\ dest = ValueCell(dest[1], dest[2]),
         UNCHANGED <<holds, buckets, refs, created, uncounted, overdrawn>>
  PROVE  Counted'
<1>1. CASE SameContents(dest, from)
  BY <1>1 DEF Assigning, Counted, AssignmentSafe, HeldOnStack, SlotsCounted,
              ElementsCounted, Dead, Read, KeysHeld
<1>2. CASE ~SameContents(dest, from)
  <2>1. Begin(dest, from, FALSE, "running") /\ from # dest
    BY <1>2 DEF Assigning, SameContents
  <2>2. /\ from \in Cells \cup created' \cup {Plain} /\ from \notin Tables
        /\ from \notin Elements
    BY SlotFacts, TablesAssumption DEF Cells
  <2>3. created \subseteq created' /\ created' \subseteq Tables
    BY DEF TableInv, TypeOK
  <2>4. QED
    BY <2>1, <2>2, <2>3, BeginStaysCounted
<1>3. QED
  BY <1>1, <1>2

LEMMA SetElemStaysCounted ==
  ASSUME TableInv, Counted, NEW s \in Stack,
         NEW i \in Stack \cup HashKeys \cup BoolKeys,
         NEW f \in Stack \cup {Plain}, SetElem(s, i, f)
  PROVE  Counted'
<1>0. TypeOK
  BY DEF TableInv
<1>1. PICK t \in Tables : t = holds[s]
  BY <1>0, SetElemCases
<1>2. PICK k \in Keys :
        /\ k \in HashKeys \cup BoolKeys \/ \E c \in Stack : k = holds[c]
        /\ AssignsElement(t, k, f) \/ AddsElement(t, k, f)
  BY <1>0, <1>1, SetElemCases
<1>3. Idle /\ UNCHANGED <<created, status, lost, overdrawn>>
  BY <1>0, SetElemCases
<1>4. /\ ValueCell(t, k) \in Elements /\ KeyCell(t, k) \in Elements
      /\ ValueCell(t, k) \in Cells /\ KeyCell(t, k) \in Cells
      /\ ValueCell(t, k)[1] = t /\ ValueCell(t, k)[2] = k
      /\ KeyCell(t, k) # ValueCell(t, k)
  BY ElementCells
<1>5. CASE AssignsElement(t, k, f)
  <2>1. Assigning(ValueCell(t, k), f)
        /\ UNCHANGED <<holds, buckets, refs, created, uncounted, overdrawn>>
    BY <1>3, <1>5 DEF AssignsElement
  <2>2. f \in Slots \cup {Plain}
    BY SlotFacts
  <2>3. QED
    BY <1>1, <1>3, <1>4, <2>1, <2>2, AssigningStaysCounted
<1>6. CASE AddsElement(t, k, f)
  <2> DEFINE x == KeyOf(k)
             y == Read(f)
  <2>1. /\ buckets' = buckets \cup {<<t, k>>}
        /\ holds' = [holds EXCEPT ![KeyCell(t, k)] = x, ![ValueCell(t, k)] = y]
        /\ refs' = Incref(Incref(refs, x), y)
        /\ uncounted' \subseteq uncounted
        /\ UNCHANGED <<work, after, created, overdrawn>>
    BY <1>3, <1>6 DEF AddsElement
  <2>2. /\ after = None /\ work = {}
        /\ \A c \in Slots : c \notin uncounted
    BY <1>3, IdleFacts DEF TableInv, Counted, SlotsCounted
  <2>3. /\ x \in Tables \cup {Plain} /\ y \in Tables \cup {Plain}
        /\ x # Plain => \E c \in Slots : holds[c] = x
        /\ y # Plain => \E c \in Slots : holds[c] = y
    <3>1. x \in Tables \cup {Plain} /\ (x # Plain => \E c \in Slots : holds[c] = x)
      BY <1>2, SlotFacts, TablesAssumption DEF KeyOf
    <3>2. y \in Tables \cup {Plain} /\ (y # Plain => \E c \in Slots : holds[c] = y)
      BY <1>0, SlotFacts, ReadType, TablesAssumption DEF Read
    <3>3. QED
      BY <3>1, <3>2
  <2> HIDE DEF x, y
  <2>4. \A u : Dead(u) => Dead(u)'
    <3> SUFFICES ASSUME NEW u, Dead(u) PROVE Dead(u)'
      OBVIOUS
    <3>1. u \in Tables /\ refs[u] = 0
      BY DEF Dead, TableInv, TypeOK
    <3>2. \A c \in Slots : holds[c] # u
      <4> SUFFICES ASSUME NEW c \in Slots, holds[c] = u PROVE FALSE
        OBVIOUS
      <4>1. c \in Cells /\ c \notin uncounted
        BY <2>2, SlotFacts
      <4>2. QED
        BY <3>1, <4>1, RefsOfHolder
    <3>3. u # Plain
      BY <3>1, TablesAssumption
    <3>4. u # x /\ u # y
      BY <2>3, <3>2, <3>3
    <3>5. /\ Incref(refs, x) \in [Tables -> Nat] /\ Incref(refs, x)[u] = refs[u]
      BY <1>0, <2>3, <3>1, <3>4, IncrefType DEF TypeOK
    <3>6. refs'[u] = refs[u]
      BY <2>1, <2>3, <3>1, <3>4, <3>5, IncrefType
    <3>7. QED
      BY <2>1, <2>2, <3>6 DEF Dead
  <2>5. KeysHeld'
    <3> SUFFICES ASSUME NEW u \in Tables, NEW l \in Tables, <<u, l>> \in buckets'
                 PROVE  holds'[KeyCell(u, l)] = l
      BY DEF KeysHeld
    <3>1. KeyCell(u, l) \in Cells /\ KeyCell(u, l) # ValueCell(t, k)
      BY ElementCells DEF Keys, KeyCell, ValueCell
    <3>2. CASE u = t /\ l = k
      BY <1>0, <1>4, <2>1, <3>1, <3>2 DEF KeyOf, x, TypeOK
    <3>3. CASE ~(u = t /\ l = k)
      <4>1. KeyCell(u, l) # KeyCell(t, k) /\ <<u, l>> \in buckets
        BY <2>1, <3>3 DEF KeyCell
      <4>2. holds[KeyCell(u, l)] = l
        BY <4>1 DEF Counted, KeysHeld
      <4>3. QED
        BY <1>0, <2>1, <3>1, <4>1, <4>2 DEF TypeOK
    <3>4. QED
      BY <3>2, <3>3
  <2>6. AssignmentSafe' /\ SlotsCounted'
    BY <2>1, <2>2 DEF AssignmentSafe, SlotsCounted
  <2>7. ElementsCounted'
    BY <2>1, <2>2, <2>4 DEF Counted, ElementsCounted
  <2>8. QED
    BY <2>1, <2>2, <2>5, <2>6, <2>7 DEF Counted
<1>7. QED
  BY <1>2, <1>5, <1>6

LEMMA GetElemStaysCounted ==
  ASSUME TableInv, Counted, NEW c \in Stack, NEW s \in Stack,
         NEW i \in Stack \cup HashKeys \cup BoolKeys, GetElem(c, s, i)
  PROVE  Counted'
<1>1. /\ Idle /\ c # s /\ c \in Cells /\ c \notin Elements /\ s \in Cells /\ TypeOK
      /\ UNCHANGED <<holds, buckets, refs, created, status, uncounted, lost, overdrawn>>
  BY SlotFacts DEF GetElem, TableInv
<1>2. created \subseteq created' /\ created' \subseteq Tables
  BY <1>1 DEF TypeOK
<1>p. ASSUME Begin(c, Plain, FALSE, "running") \/ Begin(c, Plain, FALSE, "finished")
      PROVE  Counted'
  <2>1. Plain \in Cells \cup created' \cup {Plain} /\ Plain # c
        /\ Plain \notin Tables /\ Plain \notin Elements
    BY <1>1, TablesAssumption DEF Cells
  <2>2. QED
    BY <1>1, <1>2, <1>p, <2>1, BeginStaysCounted
<1>3. CASE IsTable(s)
  <2>1. PICK k \in IndexKeys(i) :
          \/ Begin(c, ValueCell(holds[s], k), FALSE, "running")
          \/ Begin(c, Plain, FALSE, "running")
    BY <1>3 DEF GetElem
  <2>2. holds[s] \in Tables /\ k \in Keys
    BY <1>1, <1>3, IndexKeysType DEF IsTable, TypeOK
  <2> DEFINE d == ValueCell(holds[s], k)
  <2>3. /\ d \in Elements /\ d \in Cells /\ d[1] = holds[s]
        /\ d \notin Tables /\ d # c
    BY <1>1, <2>2, ElementCells, TablesAssumption
  <2>4. d \in Cells \cup created' \cup {Plain}
        /\ \E x \in Stack : x # c /\ holds[x] = d[1]
    BY <1>1, <2>3
  <2>5. Begin(c, d, FALSE, "running") \/ Begin(c, Plain, FALSE, "running")
    BY <2>1
  <2> HIDE DEF d
  <2>6. CASE Begin(c, d, FALSE, "running")
    BY <1>1, <1>2, <2>3, <2>4, <2>6, BeginStaysCounted
  <2>7. QED
    BY <1>p, <2>5, <2>6
<1>4. CASE ~IsTable(s)
  <2>1. Begin(c, Plain, FALSE, "finished")
    BY <1>4 DEF GetElem
  <2>2. QED
    BY <1>p, <2>1
<1>5. QED
  BY <1>3, <1>4

LEMMA NewTableStaysCounted ==
  ASSUME TableInv, Counted, NEW c \in Stack, NEW t \in Tables, NewTable(c, t)
  PROVE  Counted'
<1>1. /\ Idle /\ t \notin created /\ created' = created \cup {t}
      /\ Begin(c, t, FALSE, "running") /\ c \in Cells /\ c \notin Elements
      /\ UNCHANGED <<holds, buckets, refs, uncounted, overdrawn>>
  BY SlotFacts DEF NewTable
<1>2. created \subseteq created' /\ created' \subseteq Tables
  BY <1>1 DEF TableInv, TypeOK
<1>3. t \in Cells \cup created' \cup {Plain} /\ t # c /\ t \notin Elements
  BY <1>1, TablesAssumption DEF Cells
<1>4. QED
  BY <1>1, <1>2, <1>3, BeginStaysCounted

LEMMA OverwriteStaysCounted ==
  ASSUME TableInv, Counted, NEW c \in Slots, Overwrite(c)
  PROVE  Counted'
<1>1. /\ holds' = [holds EXCEPT ![c] = Plain] /\ uncounted' = uncounted \ {c}
      /\ UNCHANGED <<buckets, refs, created, work, after, overdrawn>>
      /\ after = None /\ holds \in [Cells -> Tables \cup {Plain}]
  BY DEF Overwrite, Idle, TableInv, TypeOK
<1>2. \A x : Dead(x) => Dead(x)'
  BY <1>1 DEF Dead
<1>3. AssignmentSafe' /\ SlotsCounted' /\ ElementsCounted'
  BY <1>1, <1>2 DEF Counted, AssignmentSafe, SlotsCounted, ElementsCounted
<1>4. KeysHeld'
  <2> SUFFICES ASSUME NEW u \in Tables, NEW k \in Tables, <<u, k>> \in buckets
               PROVE  holds'[KeyCell(u, k)] = k
    BY <1>1 DEF KeysHeld
  <2>1. KeyCell(u, k) \in Cells /\ KeyCell(u, k) # c
    BY ElementCells, SlotFacts DEF Keys
  <2>2. QED
    BY <1>1, <2>1 DEF Counted, KeysHeld
<1>5. QED
  BY <1>1, <1>3, <1>4 DEF Counted

(* The loop of execute_funcexit changes nothing: what is on the stack is   *)
(* counted.                                                                *)
LEMMA ReturnClearsNothing ==
  ASSUME TableInv, Counted, NEW c \in Stack, ReturnClears(c)
  PROVE  UNCHANGED vars
<1>1. c \in Cells /\ c \notin uncounted /\ TypeOK
  BY IdleFacts, SlotFacts DEF ReturnClears, TableInv
<1>2. IsTable(c) => holds[c] \in Tables
  BY <1>1 DEF IsTable, TypeOK
<1>3. ~(IsTable(c) /\ refs[holds[c]] = 0)
  BY <1>1, <1>2, RefsOfHolder
<1>4. QED
  BY <1>3 DEF ReturnClears, vars

LEMMA StutterStaysCounted ==
  ASSUME Counted, UNCHANGED <<holds, buckets, refs, created, work, after,
                              uncounted, overdrawn>>
  PROVE  Counted'
BY DEF Counted, AssignmentSafe, HeldOnStack, SlotsCounted, ElementsCounted, Dead,
       Read, KeysHeld

LEMMA CountedStep ==
  ASSUME Builtins = {}, TableInv, Counted, [Next]_vars
  PROVE  Counted'
<1>1. CASE Clear
  BY <1>1, ClearStaysCounted, OtherClearsStayCounted DEF Clear
<1>2. CASE Finish \/ FinishClearing \/ WildAssign
  BY <1>2, FinishStaysCounted
<1>3. ASSUME NEW c \in Slots, Overwrite(c) PROVE Counted'
  BY <1>3, OverwriteStaysCounted
<1>4. ASSUME NEW c \in Slots, NEW f \in Stack \cup {retval, Plain}, Assign(c, f)
      PROVE  Counted'
  <2>1. f \in Slots \cup {Plain} /\ c \in Cells /\ c \notin Elements
    BY SlotFacts
  <2>2. Idle /\ Assigning(c, f)
        /\ UNCHANGED <<holds, buckets, refs, created, uncounted, overdrawn>>
    BY <1>4 DEF Assign
  <2>3. QED
    BY <2>1, <2>2, AssigningStaysCounted
<1>5. ASSUME NEW c \in Stack, ReturnClears(c) PROVE Counted'
  <2>1. UNCHANGED vars
    BY <1>5, ReturnClearsNothing
  <2>2. QED
    BY <2>1, StutterStaysCounted DEF vars
<1>6. ASSUME NEW c \in Stack, Argument(c) PROVE Counted'
  BY <1>6 DEF Argument
<1>7. ASSUME NEW c \in Stack, NEW t \in Tables, NewTable(c, t) PROVE Counted'
  BY <1>7, NewTableStaysCounted
<1>8. ASSUME NEW s \in Stack, NEW i \in Stack \cup HashKeys \cup BoolKeys,
             \/ \E c \in Stack : GetElem(c, s, i)
             \/ \E f \in Stack \cup {Plain} : SetElem(s, i, f)
      PROVE  Counted'
  BY <1>8, GetElemStaysCounted, SetElemStaysCounted
<1>9. ASSUME NEW n \in Tables,
             \/ \E s \in Stack : ObjectCopy(s, n) \/ ObjectMemberKeys(s, n)
             \/ EmptyResult(n)
      PROVE  Counted'
  BY <1>9, LibraryReturns DEF TableInv
<1>10. CASE Fails("finished") \/ Fails("aborted") \/ Stopped \/ UNCHANGED vars
  <2>1. UNCHANGED <<holds, buckets, refs, created, work, after, uncounted, overdrawn>>
    BY <1>10 DEF Fails, Stopped, vars
  <2>2. QED
    BY <2>1, StutterStaysCounted
<1>11. QED
  BY <1>1, <1>2, <1>3, <1>4, <1>5, <1>6, <1>7, <1>8, <1>9, <1>10 DEF Next

LEMMA NothingMiscounted ==
  ASSUME Builtins = {}
  PROVE  Spec => [](TableInv /\ Counted)
<1>1. Init => Counted
  BY DEF Init, Counted, AssignmentSafe, SlotsCounted, ElementsCounted, KeysHeld
<1>2. TableInv /\ Counted /\ [Next]_vars => Counted'
  BY CountedStep
<1>3. TypeOK /\ CountInv /\ CountsExact <=> TableInv
  BY DEF TableInv
<1>4. QED
  BY <1>1, <1>2, <1>3, CountInvariant, PTL DEF Spec

(* assert(t->refCounter > 0) of avm_tabledecrefcounter does not fail in a  *)
(* program that calls none of objectcopy, objectmemberkeys and argument.   *)
THEOREM CountAssert ==
  ASSUME Builtins = {}
  PROVE  Spec => []CountAssertHolds
<1>1. TableInv /\ Counted => CountAssertHolds
  BY WorkCounted DEF CountAssertHolds
<1>2. QED
  BY <1>1, NothingMiscounted, PTL

(* What an assignment needs is there. *)
EndsThere == after # None => ~Freed(after.dest) /\ ~Freed(after.from)

LEMMA StackElementKept ==
  ASSUME TableInv, Counted, NEW c \in work, ClearCell(c),
         NEW d \in Elements, HeldOnStack(d[1]), ~Freed(d)
  PROVE  ~Freed(d)'
<1>1. d[1] \in Tables /\ <<d[1], d[2]>> \in buckets
  BY ElementFacts DEF Freed
<1>2. c \in Cells /\ c \notin uncounted
  BY ClearFacts DEF TableInv, Counted
<1>3. ~(d[1] = holds[c] /\ refs[holds[c]] = 1)
  <2>1. PICK s \in Stack : s \notin uncounted /\ s \notin work /\ holds[s] = d[1]
    BY DEF HeldOnStack
  <2>2. holds[c] = d[1] => refs[d[1]] > 1
    BY <1>1, <1>2, <2>1, SlotFacts, RefsOfHolder
  <2>3. QED
    BY <2>2
<1>4. <<d[1], d[2]>> \in buckets'
  <2> DEFINE b == <<d[1], d[2]>>
  <2>1. b \in buckets /\ b[1] = d[1]
    BY <1>1
  <2> HIDE DEF b
  <2>2. b \in buckets'
    BY <1>3, <2>1, ClearChanges DEF TableInv
  <2>3. QED
    BY <2>2 DEF b
<1>5. QED
  BY <1>4 DEF Freed

LEMMA EndsStayThere ==
  ASSUME Builtins = {}, TableInv, Counted, SourcesRemain, EndsThere, [Next]_vars
  PROVE  SourcesRemain' /\ EndsThere'
<1>1. status # "wild" /\ ~overdrawn
  BY DEF SourcesRemain, Counted
<1>2. ASSUME UNCHANGED <<after, buckets>>, status' = status \/ status' \in {"aborted", "finished"}
      PROVE  SourcesRemain' /\ EndsThere'
  BY <1>1, <1>2 DEF SourcesRemain, EndsThere, Freed
<1>3. ASSUME NEW d, NEW f, NEW g \in BOOLEAN, NEW r, Begin(d, f, g, r), status' = status,
             buckets' = buckets, ~Freed(d), ~Freed(f)
      PROVE  SourcesRemain' /\ EndsThere'
  BY <1>1, <1>3 DEF Begin, SourcesRemain, EndsThere, Freed
<1>4. ASSUME NEW c \in work, ClearCell(c)
      PROVE  SourcesRemain' /\ EndsThere'
  <2>1. UNCHANGED <<after, status>> /\ after # None
    BY <1>4, ClearFacts DEF TableInv
  <2>2. ~Freed(after.dest)'
    <3>1. CASE after.dest \in Elements
      BY <1>4, <2>1, <3>1, StackElementKept DEF EndsThere, Counted, AssignmentSafe
    <3>2. QED
      BY <2>1, <3>1 DEF Freed
  <2>3. ~Freed(after.from)'
    <3>1. CASE after.from \in Elements
      BY <1>4, <2>1, <3>1, ElementFacts, SlotFacts, StackElementKept
      DEF EndsThere, Counted, AssignmentSafe, Cells
    <3>2. QED
      BY <2>1, <3>1 DEF Freed
  <2>4. QED
    BY <1>1, <2>1, <2>2, <2>3 DEF SourcesRemain, EndsThere
<1>5. ASSUME NEW c \in work, ClearPlain(c) \/ CountAssertFails(c)
      PROVE  SourcesRemain' /\ EndsThere'
  BY <1>2, <1>5 DEF ClearPlain, CountAssertFails
<1>6. CASE Finish
  <2>1. after' = None /\ status' = after.status /\ after \in After
    BY <1>6 DEF Finish, TableInv, TypeOK
  <2>2. QED
    BY <2>1 DEF After, SourcesRemain, EndsThere
<1>7. CASE FinishClearing \/ WildAssign
  BY <1>7 DEF FinishClearing, WildAssign, EndsThere, Counted, AssignmentSafe
<1>8. ASSUME NEW dest, NEW from \in Slots \cup {Plain}, ~Freed(dest),
             Assigning(dest, from), status' = status, buckets' = buckets
      PROVE  SourcesRemain' /\ EndsThere'
  <2>1. ~Freed(from)
    BY TablesAssumption DEF Freed, Cells
  <2>2. QED
    BY <1>2, <1>3, <1>8, <2>1 DEF Assigning
<1>9. ASSUME NEW c \in Slots,
             Overwrite(c) \/ \E f \in Stack \cup {retval, Plain} : Assign(c, f)
      PROVE  SourcesRemain' /\ EndsThere'
  <2>1. CASE Overwrite(c)
    BY <1>2, <2>1 DEF Overwrite
  <2>2. ~Freed(c)
    BY SlotFacts DEF Freed
  <2>3. ASSUME NEW f \in Stack \cup {retval, Plain}, Assign(c, f)
        PROVE  SourcesRemain' /\ EndsThere'
    BY <1>8, <2>2, <2>3 DEF Assign, Slots
  <2>4. QED
    BY <1>9, <2>1, <2>3
<1>10. ASSUME NEW c \in Stack, ReturnClears(c) \/ Argument(c)
       PROVE  SourcesRemain' /\ EndsThere'
  <2>1. CASE ReturnClears(c)
    BY <1>2, <2>1, ReturnClearsNothing DEF vars
  <2>2. QED
    BY <1>10, <2>1 DEF Argument
<1>11. ASSUME NEW c \in Stack, NEW t \in Tables, NewTable(c, t)
       PROVE  SourcesRemain' /\ EndsThere'
  <2>1. ~Freed(c) /\ ~Freed(t)
    BY SlotFacts, TablesAssumption DEF Freed, Cells
  <2>2. QED
    BY <1>3, <1>11, <2>1 DEF NewTable
<1>12. ASSUME NEW s \in Stack, NEW i \in Stack \cup HashKeys \cup BoolKeys,
              NEW c \in Stack, GetElem(c, s, i)
       PROVE  SourcesRemain' /\ EndsThere'
  <2>1. ~Freed(c) /\ ~Freed(Plain) /\ status' = status /\ buckets' = buckets
    BY <1>12, SlotFacts, TablesAssumption DEF GetElem, Freed, Cells
  <2>2. CASE Begin(c, Plain, FALSE, "running") \/ Begin(c, Plain, FALSE, "finished")
    BY <1>3, <2>1, <2>2
  <2>3. CASE \E k : /\ <<holds[s], k>> \in buckets
                   /\ Begin(c, ValueCell(holds[s], k), FALSE, "running")
    <3>1. PICK k : /\ <<holds[s], k>> \in buckets
                   /\ Begin(c, ValueCell(holds[s], k), FALSE, "running")
      BY <2>3
    <3>2. ~Freed(ValueCell(holds[s], k))
      BY <3>1 DEF Freed, ValueCell
    <3>3. QED
      BY <1>3, <2>1, <3>1, <3>2
  <2>4. QED
    BY <1>12, <2>2, <2>3 DEF GetElem
<1>13. ASSUME NEW s \in Stack, NEW i \in Stack \cup HashKeys \cup BoolKeys,
              NEW f \in Stack \cup {Plain}, SetElem(s, i, f)
       PROVE  SourcesRemain' /\ EndsThere'
  <2>1. status' = status /\ after = None
    BY <1>13 DEF SetElem, Idle
  <2>2. PICK k : \/ /\ <<holds[s], k>> \in buckets
                    /\ Assigning(ValueCell(holds[s], k), f)
                    /\ buckets' = buckets
                 \/ UNCHANGED after
    BY <1>13 DEF SetElem
  <2>3. CASE UNCHANGED after
    BY <1>1, <2>1, <2>3 DEF SourcesRemain, EndsThere
  <2>4. ~(UNCHANGED after) => ~Freed(ValueCell(holds[s], k))
    BY <2>2 DEF Freed, ValueCell
  <2>5. QED
    BY <1>8, <2>1, <2>2, <2>3, <2>4 DEF Slots
<1>14. ASSUME NEW n \in Tables,
              \/ \E s \in Stack : ObjectCopy(s, n) \/ ObjectMemberKeys(s, n)
              \/ EmptyResult(n)
       PROVE  SourcesRemain' /\ EndsThere'
  BY <1>14, LibraryReturns DEF TableInv
<1>15. CASE Fails("finished") \/ Fails("aborted") \/ Stopped \/ UNCHANGED vars
  BY <1>2, <1>15 DEF Fails, Stopped, vars
<1>16. QED
  BY <1>4, <1>5, <1>6, <1>7, <1>9, <1>10, <1>11, <1>12, <1>13, <1>14, <1>15
  DEF Next, Clear

(* What is to be copied, and the element that it is copied to, outlive the *)
(* clearing of the destination, whatever tables that destroys, in a        *)
(* program that calls none of objectcopy, objectmemberkeys and argument.   *)
THEOREM SourcesOutliveClearing ==
  ASSUME Builtins = {}
  PROVE  Spec => []SourcesRemain
<1>1. Init => SourcesRemain /\ EndsThere
  BY DEF Init, SourcesRemain, EndsThere
<1>2. TableInv /\ Counted /\ SourcesRemain /\ EndsThere /\ [Next]_vars =>
        SourcesRemain' /\ EndsThere'
  BY EndsStayThere
<1>3. QED
  BY <1>1, <1>2, NothingMiscounted, PTL DEF Spec

-----------------------------------------------------------------------------
(* What variables lead to.                                                 *)

Closed(v, o, R) ==
  /\ \A s \in Slots : v[s] \in Tables => v[s] \in R
  /\ \A e \in o : e[1] \in R => {e[2], e[3]} \cap Tables \subseteq R

Reach(v, o) == {t \in Tables : \A R \in SUBSET Tables : Closed(v, o, R) => t \in R}

Vis(v, o) == {e \in o : e[1] \in Reach(v, o)}

LEMMA ReachIsReachable ==
  ASSUME NEW v, NEW o
  PROVE  /\ AllOf!Reachable(v, o) = Reach(v, o) /\ TM!Reachable(v, o) = Reach(v, o)
         /\ AllOf!Visible(v, o) = Vis(v, o) /\ TM!Visible(v, o) = Vis(v, o)
BY DEF AllOf!Reachable, TM!Reachable, AllOf!Visible, TM!Visible, Reach, Vis, Closed

LEMMA ReachLeast ==
  ASSUME NEW v, NEW o
  PROVE  /\ Reach(v, o) \subseteq Tables
         /\ Closed(v, o, Reach(v, o))
         /\ \A R \in SUBSET Tables : Closed(v, o, R) => Reach(v, o) \subseteq R
<1>1. ASSUME NEW s \in Slots, v[s] \in Tables PROVE v[s] \in Reach(v, o)
  BY <1>1 DEF Reach, Closed
<1>2. ASSUME NEW e \in o, e[1] \in Reach(v, o)
      PROVE  {e[2], e[3]} \cap Tables \subseteq Reach(v, o)
  <2> SUFFICES ASSUME NEW u \in {e[2], e[3]} \cap Tables, NEW R \in SUBSET Tables,
                      Closed(v, o, R)
               PROVE  u \in R
    BY DEF Reach
  <2>1. e[1] \in R
    BY <1>2 DEF Reach
  <2>2. QED
    BY <2>1 DEF Closed
<1>3. QED
  BY <1>1, <1>2 DEF Reach, Closed

(* What is out of reach does not matter. *)
LEMMA SameReach ==
  ASSUME NEW v, NEW o, NEW q, \A e : e[1] \in Reach(v, o) => (e \in o <=> e \in q)
  PROVE  Reach(v, q) = Reach(v, o) /\ Vis(v, q) = Vis(v, o)
<1>1. Closed(v, q, Reach(v, o))
  BY ReachLeast DEF Closed
<1>2. Reach(v, q) \subseteq Reach(v, o)
  BY <1>1, ReachLeast
<1>3. Closed(v, o, Reach(v, q))
  <2>1. Closed(v, q, Reach(v, q))
    BY ReachLeast
  <2>2. QED
    BY <1>2, <2>1 DEF Closed
<1>4. Reach(v, q) = Reach(v, o)
  BY <1>2, <1>3, ReachLeast
<1>5. QED
  BY <1>4 DEF Vis

LEMMA VisibleIsEnough ==
  ASSUME NEW v, NEW o
  PROVE  Reach(v, Vis(v, o)) = Reach(v, o) /\ Vis(v, Vis(v, o)) = Vis(v, o)
<1>1. \A e : e[1] \in Reach(v, o) => (e \in o <=> e \in Vis(v, o))
  BY DEF Vis
<1>2. QED
  BY <1>1, SameReach

(* No element of a table is there. *)
Empty(t, o) == \A e \in o : e[1] # t

(* The variables w hold only what v leads to, or empty tables. *)
Leads(v, o, w) ==
  \A s \in Slots : w[s] \in Tables => w[s] \in Reach(v, o) \/ Empty(w[s], o)

LEMMA WriteVisible ==
  ASSUME NEW v, NEW o, NEW w, Leads(v, o, w)
  PROVE  Vis(w, Vis(v, o)) = Vis(w, o)
<1> DEFINE R == Reach(v, o) \cup {u \in Tables : Empty(u, o)}
<1>1. Closed(v, o, Reach(v, o)) /\ Reach(v, o) \subseteq Tables
  BY ReachLeast
<1>2. Closed(w, o, R)
  BY <1>1 DEF Closed, Empty, Leads
<1>3. Reach(w, o) \subseteq R
  BY <1>1, <1>2, ReachLeast
<1>4. \A e : e[1] \in Reach(w, o) => (e \in o <=> e \in Vis(v, o))
  BY <1>1, <1>3 DEF Vis, Empty
<1>5. QED
  BY <1>4, SameReach

(* Element k of t is set to x. *)
With(o, t, k, x) == {e \in o : ~(e[1] = t /\ e[2] = k)} \cup {<<t, k, x>>}

LEMMA SetVisible ==
  ASSUME NEW v, NEW o, NEW t, NEW k, NEW x,
         {t, k, x} \cap Tables \subseteq Reach(v, o)
  PROVE  Vis(v, With(Vis(v, o), t, k, x)) = Vis(v, With(o, t, k, x))
<1>1. Closed(v, o, Reach(v, o)) /\ Reach(v, o) \subseteq Tables
  BY ReachLeast
<1>2. Closed(v, With(o, t, k, x), Reach(v, o))
  BY <1>1 DEF Closed, With
<1>3. Reach(v, With(o, t, k, x)) \subseteq Reach(v, o)
  BY <1>1, <1>2, ReachLeast
<1>4. \A e : e[1] \in Reach(v, With(o, t, k, x)) =>
        (e \in With(o, t, k, x) <=> e \in With(Vis(v, o), t, k, x))
  BY <1>3 DEF Vis, With
<1>5. QED
  BY <1>4, SameReach

-----------------------------------------------------------------------------
(* AvmTables implements TableMemory.                                       *)

Variables == [s \in Slots |-> Afterwards(s)]

Alive == {t \in created : ~Dead(t)}

ReachAlive == Reach(Variables, Contents) \subseteq Alive

(* Nothing that a program can reach has been destroyed. *)
LEMMA ReachableAlive == TableInv /\ Counted => ReachAlive
<1> SUFFICES ASSUME TableInv, Counted PROVE ReachAlive
  OBVIOUS
<1>0. TypeOK
  BY DEF TableInv
<1>1. Alive \subseteq Tables
  BY <1>0 DEF Alive, TypeOK
<1>2. ASSUME NEW c \in Cells, holds[c] \in Tables, c \notin uncounted
      PROVE  holds[c] \in Alive
  <2>1. holds[c] \in created
    BY <1>2, TablesAssumption DEF TableInv, CountInv, OnlyCreated
  <2>2. refs[holds[c]] \in Nat /\ refs[holds[c]] > 0
    BY <1>2, RefsOfHolder
  <2>3. QED
    BY <2>1, <2>2 DEF Alive, Dead
<1>3. ASSUME NEW c \in Cells, Afterwards(c) \in Tables,
             c \notin uncounted \/ (after # None /\ after.dest = c)
      PROVE  Afterwards(c) \in Alive
  <2>1. CASE after # None /\ after.dest = c
    <3>1. Afterwards(c) = Read(after.from)
      BY <2>1 DEF Afterwards
    <3>2. Read(after.from) \in created
      BY <1>3, <2>1, <3>1, TablesAssumption DEF TableInv, CountInv, OnlyCreated, Read
    <3>3. QED
      BY <2>1, <3>1, <3>2 DEF Alive, Dead
  <2>2. CASE ~(after # None /\ after.dest = c)
    <3>1. Afterwards(c) = holds[c] /\ c \notin uncounted
      BY <1>3, <2>2 DEF Afterwards
    <3>2. QED
      BY <1>2, <1>3, <3>1
  <2>3. QED
    BY <2>1, <2>2
<1>4. ASSUME NEW s \in Slots, Variables[s] \in Tables PROVE Variables[s] \in Alive
  <2>1. Variables[s] = Afterwards(s) /\ s \in Cells
    BY SlotFacts DEF Variables
  <2>2. s \notin uncounted \/ (after # None /\ after.dest = s)
    BY DEF Counted, SlotsCounted
  <2>3. QED
    BY <1>3, <1>4, <2>1, <2>2
<1>5. ASSUME NEW e \in Contents, e[1] \in Alive
      PROVE  {e[2], e[3]} \cap Tables \subseteq Alive
  <2>1. PICK b \in buckets : e = <<b[1], b[2], Afterwards(ValueCell(b[1], b[2]))>>
    BY DEF Contents
  <2>2. PICK t \in Tables, k \in Keys : b = <<t, k>>
    BY <1>0 DEF TypeOK
  <2>3. e[1] = t /\ e[2] = k /\ e[3] = Afterwards(ValueCell(t, k)) /\ <<t, k>> \in buckets
    BY <2>1, <2>2
  <2>4. /\ ValueCell(t, k) \in Elements /\ KeyCell(t, k) \in Elements
        /\ ValueCell(t, k) \in Cells /\ KeyCell(t, k) \in Cells
        /\ ValueCell(t, k)[1] = t /\ KeyCell(t, k)[1] = t
    BY ElementCells
  <2>5. ~Dead(t)
    BY <1>5, <2>3 DEF Alive
  <2>6. k \in Tables => k \in Alive
    <3> SUFFICES ASSUME k \in Tables PROVE k \in Alive
      OBVIOUS
    <3>1. holds[KeyCell(t, k)] = k
      BY <2>3 DEF Counted, KeysHeld
    <3>2. KeyCell(t, k) \notin uncounted
      BY <2>4, <2>5 DEF Counted, ElementsCounted, AssignmentSafe, KeyCell, ValueCell
    <3>3. QED
      BY <1>2, <2>4, <3>1, <3>2
  <2>7. Afterwards(ValueCell(t, k)) \in Tables => Afterwards(ValueCell(t, k)) \in Alive
    BY <1>3, <2>4, <2>5 DEF Counted, ElementsCounted
  <2>8. QED
    BY <2>3, <2>6, <2>7
<1>6. Closed(Variables, Contents, Alive)
  BY <1>4, <1>5 DEF Closed
<1>7. QED
  BY <1>1, <1>6, ReachLeast DEF ReachAlive

(* A step as TableMemory sees it. *)
Changes(v, q) ==
  \/ v = Variables /\ Vis(v, q) = Vis(Variables, Contents)
  \/ \E s \in Slots, x \in Tables \cup {Plain} :
       /\ v = [Variables EXCEPT ![s] = x]
       /\ Vis(v, q) = Vis(v, Vis(Variables, Contents))
  \/ \E t \in Tables, k \in Keys, x \in Tables \cup {Plain} :
       /\ {t, k, x} \cap Tables \subseteq Reach(Variables, Contents)
       /\ v = Variables
       /\ Vis(v, q) = Vis(v, With(Vis(Variables, Contents), t, k, x))

LEMMA WriteSlot ==
  ASSUME NEW s \in Slots, NEW x \in Tables \cup {Plain}, NEW v,
         v = [Variables EXCEPT ![s] = x],
         x \in Tables => \/ x \in Reach(Variables, Contents)
                         \/ Empty(x, Contents)
  PROVE  Changes(v, Contents)
<1>1. \A c \in Slots : Variables[c] \in Tables => Variables[c] \in Reach(Variables, Contents)
  BY ReachLeast DEF Closed
<1>2. \A c \in Slots : v[c] = x \/ v[c] = Variables[c]
  BY DEF Variables
<1>3. Leads(Variables, Contents, v)
  BY <1>1, <1>2 DEF Leads
<1>4. Vis(v, Vis(Variables, Contents)) = Vis(v, Contents)
  BY <1>3, WriteVisible
<1>5. QED
  BY <1>4 DEF Changes

(* The contents of cells as long as nothing is assigned. *)
LEMMA IdleContents ==
  ASSUME TableInv, Counted, Idle
  PROVE  /\ Variables = [s \in Slots |-> holds[s]]
         /\ \A s \in Slots : holds[s] \in Tables => holds[s] \in Reach(Variables, Contents)
         /\ \A b \in buckets : /\ b = <<b[1], b[2]>> /\ b[1] \in created /\ b[2] \in Keys
                               /\ b[1] \in Tables
                               /\ <<b[1], b[2], holds[ValueCell(b[1], b[2])]>> \in Contents
         /\ Contents = {<<b[1], b[2], holds[ValueCell(b[1], b[2])]>> : b \in buckets}
<1>1. \A c : Afterwards(c) = holds[c]
  BY DEF Afterwards, Idle
<1>2. Variables = [s \in Slots |-> holds[s]]
  BY <1>1 DEF Variables
<1>3. Contents = {<<b[1], b[2], holds[ValueCell(b[1], b[2])]>> : b \in buckets}
  BY <1>1 DEF Contents
<1>4. \A b \in buckets : b = <<b[1], b[2]>> /\ b[1] \in created /\ b[2] \in Keys /\ b[1] \in Tables
  BY DEF TableInv, TypeOK, CountInv, OnlyCreated
<1>5. \A s \in Slots : holds[s] \in Tables => holds[s] \in Reach(Variables, Contents)
  BY <1>2, ReachLeast DEF Closed
<1>6. QED
  BY <1>2, <1>3, <1>4, <1>5

(* Clearing changes nothing that a program can reach. *)
LEMMA ClearIsInvisible ==
  ASSUME TableInv, Counted, ReachAlive', Counted', NEW c \in work, ClearCell(c) \/ ClearPlain(c)
  PROVE  Changes(Variables', Contents')
<1>0. TypeOK
  BY DEF TableInv
<1>1. CASE ClearPlain(c)
  <2>1. UNCHANGED <<holds, buckets, after>>
    BY <1>1 DEF ClearPlain
  <2>2. Variables' = Variables /\ Contents' = Contents
    BY <2>1 DEF Variables, Contents, Afterwards, Read
  <2>3. QED
    BY <2>2 DEF Changes
<1>2. CASE ClearCell(c)
  <2>1. /\ UNCHANGED <<created, after, status>> /\ c \in Cells /\ holds[c] \in Tables
        /\ \A d \in Slots : holds'[d] = holds[d]
        /\ Read(after.from)' = Read(after.from)
        /\ buckets' \subseteq buckets
    BY <1>0, <1>2, ClearFacts, SourceKept
  <2>2. \A d : holds'[d] = holds[d] => Afterwards(d)' = Afterwards(d)
    BY <2>1 DEF Afterwards
  <2>3. Variables' = Variables
    BY <2>1, <2>2 DEF Variables
  <2>4. ASSUME NEW u, u \in Reach(Variables', Contents')
        PROVE  u \in Tables /\ u \in created /\ ~Dead(u)'
    BY <2>1, <2>4, <1>0 DEF ReachAlive, Alive, TypeOK
  <2>5. ASSUME NEW u, u \in Reach(Variables', Contents')
        PROVE  ~(u = holds[c] /\ refs[holds[c]] = 1)
    BY <1>2, <2>4, <2>5, LastIsDead
  <2>6. ASSUME NEW b \in buckets, b[1] \in Reach(Variables', Contents')
        PROVE  /\ b \in buckets'
               /\ Afterwards(ValueCell(b[1], b[2]))' = Afterwards(ValueCell(b[1], b[2]))
    <3>1. PICK t \in Tables, k \in Keys : b = <<t, k>>
      BY <1>0 DEF TypeOK
    <3>2. b[1] = t /\ b[2] = k /\ t \in Reach(Variables', Contents') /\ <<t, k>> \in buckets
      BY <2>6, <3>1
    <3>3. ~(t = holds[c] /\ refs[holds[c]] = 1)
      BY <2>5, <3>2
    <3>4. b \in buckets'
      BY <1>0, <1>2, <3>2, <3>3, ClearChanges
    <3> DEFINE d == ValueCell(t, k)
    <3>5. d \in Elements /\ d \in Cells /\ d[1] = t /\ d[2] = k
      BY ElementCells
    <3>6. ~Freed(d)
      BY <3>2, <3>5 DEF Freed
    <3> HIDE DEF d
    <3>7. holds'[d] = holds[d]
      BY <1>0, <1>2, <3>3, <3>5, <3>6, ClearChanges
    <3>8. QED
      BY <2>2, <3>2, <3>4, <3>7 DEF d
  <2>7. ASSUME NEW e, e[1] \in Reach(Variables', Contents')
        PROVE  e \in Contents' <=> e \in Contents
    <3>1. ASSUME e \in Contents' PROVE e \in Contents
      <4>1. PICK b \in buckets' : e = <<b[1], b[2], Afterwards(ValueCell(b[1], b[2]))'>>
        BY <3>1 DEF Contents
      <4>2. b \in buckets /\ b[1] \in Reach(Variables', Contents')
        BY <2>1, <2>7, <4>1
      <4>3. e = <<b[1], b[2], Afterwards(ValueCell(b[1], b[2]))>>
        BY <2>6, <4>1, <4>2
      <4>4. QED
        BY <4>2, <4>3 DEF Contents
    <3>2. ASSUME e \in Contents PROVE e \in Contents'
      <4>1. PICK b \in buckets : e = <<b[1], b[2], Afterwards(ValueCell(b[1], b[2]))>>
        BY <3>2 DEF Contents
      <4>2. b[1] \in Reach(Variables', Contents')
        BY <2>7, <4>1
      <4>3. /\ e = <<b[1], b[2], Afterwards(ValueCell(b[1], b[2]))'>>
            /\ b \in buckets'
        BY <2>6, <4>1, <4>2
      <4>4. QED
        BY <4>3 DEF Contents
    <3>3. QED
      BY <3>1, <3>2
  <2>8. Vis(Variables', Contents) = Vis(Variables', Contents')
    BY <2>7, SameReach
  <2>9. QED
    BY <2>3, <2>8 DEF Changes
<1>3. QED
  BY <1>1, <1>2

LEMMA FinishIsInvisible ==
  ASSUME TableInv, Counted, Finish \/ FinishClearing \/ WildAssign
  PROVE  Changes(Variables', Contents')
<1>1. after # None /\ after.dest \in Cells /\ ~after.again /\ TypeOK
  BY AfterType
  DEF Finish, FinishClearing, WildAssign, TableInv, Counted, AssignmentSafe
<1>2. CASE WildAssign
  <2>1. UNCHANGED <<holds, buckets, after>>
    BY <1>2 DEF WildAssign
  <2>2. Variables' = Variables /\ Contents' = Contents
    BY <2>1 DEF Variables, Contents, Afterwards, Read
  <2>3. QED
    BY <2>2 DEF Changes
<1>3. CASE Finish
  <2>1. /\ holds' = [holds EXCEPT ![after.dest] = Read(after.from)]
        /\ after' = None /\ buckets' = buckets
    BY <1>3 DEF Finish, Store
  <2>2. \A c \in Cells : Afterwards(c)' = Afterwards(c)
    BY <1>1, <2>1 DEF Afterwards, TypeOK
  <2>3. Variables' = Variables
    BY <2>2, SlotFacts DEF Variables
  <2>4. \A b \in buckets : Afterwards(ValueCell(b[1], b[2]))' = Afterwards(ValueCell(b[1], b[2]))
    BY <1>1, <2>2, ElementCells DEF TypeOK
  <2>5. Contents' = Contents
    BY <2>1, <2>4 DEF Contents
  <2>6. QED
    BY <2>3, <2>5 DEF Changes
<1>4. CASE FinishClearing
  BY <1>1, <1>4 DEF FinishClearing
<1>5. QED
  BY <1>2, <1>3, <1>4

LEMMA StutterIsInvisible ==
  ASSUME UNCHANGED <<holds, buckets, after>>
  PROVE  Changes(Variables', Contents')
<1>1. Variables' = Variables /\ Contents' = Contents
  BY DEF Variables, Contents, Afterwards, Read
<1>2. QED
  BY <1>1 DEF Changes

(* The beginning of an assignment to a variable is the assignment. *)
LEMMA BeginWrites ==
  ASSUME TableInv, Counted, Idle, NEW dest \in Slots,
         NEW from \in Cells \cup Tables \cup {Plain},
         NEW then \in {"running", "finished"}, Begin(dest, from, FALSE, then),
         UNCHANGED <<holds, buckets>>,
         Read(from) \in Tables => \/ Read(from) \in Reach(Variables, Contents)
                                  \/ Empty(Read(from), Contents)
  PROVE  Changes(Variables', Contents')
<1>0. TypeOK /\ dest \in Cells
  BY SlotFacts DEF TableInv
<1>1. /\ after' # None /\ after'.dest = dest /\ after'.from = from /\ after = None
  BY <1>0, BeginType DEF Idle
<1>2. \A c : Afterwards(c) = holds[c]
  BY <1>1 DEF Afterwards
<1>3. \A c : Afterwards(c)' = IF c = dest THEN Read(from) ELSE holds[c]
  BY <1>1 DEF Afterwards, Read
<1>4. Variables' = [Variables EXCEPT ![dest] = Read(from)]
  BY <1>2, <1>3 DEF Variables
<1>5. \A b \in buckets : Afterwards(ValueCell(b[1], b[2]))' = Afterwards(ValueCell(b[1], b[2]))
  BY <1>0, <1>2, <1>3, ElementCells, SlotFacts DEF TypeOK
<1>6. Contents' = Contents
  BY <1>5 DEF Contents
<1>7. Read(from) \in Tables \cup {Plain}
  BY <1>0, ReadType
<1>8. QED
  BY <1>4, <1>6, <1>7, WriteSlot

LEMMA SetChanges ==
  ASSUME NEW t \in Tables, NEW k \in Keys, NEW x \in Tables \cup {Plain},
         {t, k, x} \cap Tables \subseteq Reach(Variables, Contents)
  PROVE  Changes(Variables, With(Contents, t, k, x))
<1>1. Vis(Variables, With(Vis(Variables, Contents), t, k, x)) =
        Vis(Variables, With(Contents, t, k, x))
  BY SetVisible
<1>2. QED
  BY <1>1 DEF Changes

LEMMA AssignIsWrite ==
  ASSUME TableInv, Counted, NEW c \in Slots, NEW f \in Stack \cup {retval, Plain},
         Assign(c, f)
  PROVE  Changes(Variables', Contents')
<1>1. /\ Idle /\ Assigning(c, f) /\ UNCHANGED <<holds, buckets>>
      /\ f \in Cells \cup Tables \cup {Plain}
  BY SlotFacts DEF Assign
<1>2. CASE SameContents(c, f)
  BY <1>1, <1>2, StutterIsInvisible DEF Assigning
<1>3. CASE ~SameContents(c, f)
  <2>1. Begin(c, f, FALSE, "running")
    BY <1>1, <1>3 DEF Assigning
  <2>2. Read(f) \in Tables => Read(f) \in Reach(Variables, Contents)
    BY <1>1, IdleContents, SlotFacts, TablesAssumption DEF Read
  <2>3. QED
    BY <1>1, <2>1, <2>2, BeginWrites
<1>4. QED
  BY <1>2, <1>3

LEMMA NewTableIsWrite ==
  ASSUME TableInv, Counted, NEW c \in Stack, NEW t \in Tables, NewTable(c, t)
  PROVE  Changes(Variables', Contents')
<1>1. /\ Idle /\ t \notin created /\ Begin(c, t, FALSE, "running")
      /\ UNCHANGED <<holds, buckets>> /\ c \in Slots
  BY SlotFacts DEF NewTable
<1>2. Read(t) = t
  BY TablesAssumption DEF Read
<1>3. Empty(t, Contents)
  <2> SUFFICES ASSUME NEW e \in Contents, e[1] = t PROVE FALSE
    BY DEF Empty
  <2>1. PICK b \in buckets : e = <<b[1], b[2], holds[ValueCell(b[1], b[2])]>>
    BY <1>1, IdleContents
  <2>2. b[1] \in created
    BY <1>1, IdleContents
  <2>3. QED
    BY <1>1, <2>1, <2>2
<1>4. QED
  BY <1>1, <1>2, <1>3, BeginWrites

LEMMA GetElemIsWrite ==
  ASSUME TableInv, Counted, NEW c \in Stack, NEW s \in Stack,
         NEW i \in Stack \cup HashKeys \cup BoolKeys, GetElem(c, s, i)
  PROVE  Changes(Variables', Contents')
<1>1. Idle /\ UNCHANGED <<holds, buckets>> /\ c \in Slots /\ s \in Slots /\ s \in Cells
      /\ TypeOK /\ work = {}
  BY SlotFacts, IdleFacts DEF GetElem, TableInv
<1>p. ASSUME Begin(c, Plain, FALSE, "running") \/ Begin(c, Plain, FALSE, "finished")
      PROVE  Changes(Variables', Contents')
  <2>1. Read(Plain) = Plain /\ Plain \notin Tables
    BY TablesAssumption DEF Read
  <2>2. QED
    BY <1>1, <1>p, <2>1, BeginWrites
<1>2. CASE IsTable(s)
  <2>1. PICK k \in IndexKeys(i) :
          \/ Begin(c, ValueCell(holds[s], k), FALSE, "running")
          \/ Begin(c, Plain, FALSE, "running")
    BY <1>2 DEF GetElem
  <2>2. PICK t \in Tables : t = holds[s]
    BY <1>1, <1>2 DEF IsTable, TypeOK
  <2>3. k \in Keys
    BY <1>1, IndexKeysType
  <2> DEFINE d == ValueCell(t, k)
  <2>4. d \in Elements /\ d \in Cells /\ d[1] = t /\ d[2] = k
    BY <2>3, ElementCells
  <2>5. Read(d) = holds[d]
    BY <2>4 DEF Read
  <2>6. holds[d] \in Tables => holds[d] \in Reach(Variables, Contents)
    <3>1. CASE <<t, k>> \in buckets
      <4>1. t \in Reach(Variables, Contents)
        BY <1>1, <2>2, IdleContents
      <4>2. <<t, k, holds[d]>> \in Contents
        BY <1>1, <3>1, IdleContents
      <4>3. \A e \in Contents : e[1] \in Reach(Variables, Contents) =>
              {e[2], e[3]} \cap Tables \subseteq Reach(Variables, Contents)
        BY ReachLeast DEF Closed
      <4> HIDE DEF d
      <4>4. {k, holds[d]} \cap Tables \subseteq Reach(Variables, Contents)
        BY <4>1, <4>2, <4>3
      <4>5. QED
        BY <4>4
    <3>2. CASE <<t, k>> \notin buckets
      <4>1. Freed(d)
        BY <2>4, <3>2 DEF Freed
      <4>2. holds[d] = Plain
        BY <1>1, <2>4, <4>1 DEF TableInv, CountInv, FreedPlain
      <4>3. QED
        BY <4>2, TablesAssumption
    <3>3. QED
      BY <3>1, <3>2
  <2>7. Begin(c, d, FALSE, "running") \/ Begin(c, Plain, FALSE, "running")
    BY <2>1, <2>2
  <2> HIDE DEF d
  <2>8. CASE Begin(c, d, FALSE, "running")
    BY <1>1, <2>4, <2>5, <2>6, <2>8, BeginWrites
  <2>9. QED
    BY <1>p, <2>7, <2>8
<1>3. CASE ~IsTable(s)
  <2>1. Begin(c, Plain, FALSE, "finished")
    BY <1>3 DEF GetElem
  <2>2. QED
    BY <1>p, <2>1
<1>4. QED
  BY <1>2, <1>3

LEMMA OverwriteIsWrite ==
  ASSUME TableInv, Counted, NEW c \in Slots, Overwrite(c)
  PROVE  Changes(Variables', Contents')
<1>1. /\ holds' = [holds EXCEPT ![c] = Plain] /\ UNCHANGED <<buckets, after>>
      /\ after = None /\ Idle /\ TypeOK /\ c \in Cells
  BY SlotFacts DEF Overwrite, Idle, TableInv
<1>2. (\A d : Afterwards(d) = holds[d]) /\ \A d : Afterwards(d)' = holds'[d]
  BY <1>1 DEF Afterwards
<1>3. Variables' = [Variables EXCEPT ![c] = Plain]
  BY <1>1, <1>2, SlotFacts DEF Variables, TypeOK
<1>4. \A b \in buckets : holds'[ValueCell(b[1], b[2])] = holds[ValueCell(b[1], b[2])]
  BY <1>1, ElementCells, SlotFacts DEF TypeOK
<1>5. Contents' = Contents
  BY <1>1, <1>2, <1>4 DEF Contents
<1>6. QED
  BY <1>3, <1>5, WriteSlot, TablesAssumption

LEMMA SetElemIsSet ==
  ASSUME TableInv, Counted, NEW s \in Stack,
         NEW i \in Stack \cup HashKeys \cup BoolKeys,
         NEW f \in Stack \cup {Plain}, SetElem(s, i, f)
  PROVE  Changes(Variables', Contents')
<1>0. TypeOK
  BY DEF TableInv
<1>1. PICK t \in Tables : t = holds[s]
  BY <1>0, SetElemCases
<1>2. PICK k \in Keys :
        /\ k \in HashKeys \cup BoolKeys \/ \E c \in Stack : k = holds[c]
        /\ AssignsElement(t, k, f) \/ AddsElement(t, k, f)
  BY <1>0, <1>1, SetElemCases
<1>3. Idle /\ after = None
  BY <1>0, SetElemCases DEF Idle
<1>4. PICK x \in Tables \cup {Plain} : x = Read(f)
  BY <1>0, SlotFacts, ReadType
<1>5. {t, k, x} \cap Tables \subseteq Reach(Variables, Contents)
  <2>1. t \in Reach(Variables, Contents)
    BY <1>1, <1>3, IdleContents, SlotFacts
  <2>2. k \in Tables => k \in Reach(Variables, Contents)
    BY <1>2, <1>3, IdleContents, SlotFacts, TablesAssumption
  <2>3. x \in Tables => x \in Reach(Variables, Contents)
    BY <1>3, <1>4, IdleContents, SlotFacts, TablesAssumption DEF Read
  <2>4. QED
    BY <2>1, <2>2, <2>3
<1> DEFINE d == ValueCell(t, k)
<1>6. /\ d \in Elements /\ d \in Cells /\ d[1] = t /\ d[2] = k
      /\ \A u, l : ValueCell(u, l) = d => u = t /\ l = k
      /\ \A u, l : ValueCell(u, l) # KeyCell(t, k)
      /\ KeyCell(t, k) \in Elements /\ KeyCell(t, k) \in Cells
  BY ElementCells DEF ValueCell, KeyCell
<1> HIDE DEF d
<1>7. \A c : Afterwards(c) = holds[c]
  BY <1>3 DEF Afterwards
<1>8. ASSUME Variables' = Variables, <<t, k>> \in buckets',
             \A b : b # <<t, k>> => (b \in buckets' <=> b \in buckets),
             Afterwards(d)' = x,
             \A b \in buckets : b # <<t, k>> =>
               Afterwards(ValueCell(b[1], b[2]))' = holds[ValueCell(b[1], b[2])]
      PROVE  Changes(Variables', Contents')
  <2>1. \A b \in buckets : \E u \in Tables, l \in Keys : b = <<u, l>>
    BY <1>0 DEF TypeOK
  <2>2. Contents = {<<b[1], b[2], holds[ValueCell(b[1], b[2])]>> : b \in buckets}
    BY <1>3, IdleContents
  <2>3. Contents' = {<<b[1], b[2], Afterwards(ValueCell(b[1], b[2]))'>> : b \in buckets'}
    BY DEF Contents
  <2> DEFINE q == With(Contents, t, k, x)
  <2>4. \A e : e \in q <=> (e \in Contents /\ ~(e[1] = t /\ e[2] = k)) \/ e = <<t, k, x>>
    BY DEF With
  <2> HIDE DEF q
  <2>5. ASSUME NEW e \in Contents' PROVE e \in q
    <3>1. PICK b \in buckets' : e = <<b[1], b[2], Afterwards(ValueCell(b[1], b[2]))'>>
      BY <2>3
    <3>2. CASE b = <<t, k>>
      BY <1>8, <2>4, <3>1, <3>2 DEF d
    <3>3. CASE b # <<t, k>>
      <4>1. PICK u \in Tables, l \in Keys : b = <<u, l>>
        BY <1>8, <2>1, <3>3
      <4>2. b[1] = u /\ b[2] = l /\ ~(u = t /\ l = k)
        BY <3>3, <4>1
      <4>3. b \in buckets /\ e = <<b[1], b[2], holds[ValueCell(b[1], b[2])]>>
        BY <1>8, <3>1, <3>3
      <4>4. e \in Contents /\ e[1] = u /\ e[2] = l
        BY <2>2, <4>2, <4>3
      <4>5. QED
        BY <2>4, <4>2, <4>4
    <3>4. QED
      BY <3>2, <3>3
  <2>6. ASSUME NEW e \in q PROVE e \in Contents'
    <3>1. CASE e = <<t, k, x>>
      <4> DEFINE b == <<t, k>>
      <4>1. b[1] = t /\ b[2] = k /\ b \in buckets'
        BY <1>8
      <4> HIDE DEF b
      <4>2. <<b[1], b[2], Afterwards(ValueCell(b[1], b[2]))'>> = e
        BY <1>8, <3>1, <4>1 DEF d
      <4>3. QED
        BY <2>3, <4>1, <4>2
    <3>2. CASE e \in Contents /\ ~(e[1] = t /\ e[2] = k)
      <4>1. PICK b \in buckets : e = <<b[1], b[2], holds[ValueCell(b[1], b[2])]>>
        BY <2>2, <3>2
      <4>2. b # <<t, k>>
        BY <3>2, <4>1
      <4>3. b \in buckets' /\ e = <<b[1], b[2], Afterwards(ValueCell(b[1], b[2]))'>>
        BY <1>8, <4>1, <4>2
      <4>4. QED
        BY <2>3, <4>3
    <3>3. QED
      BY <2>4, <3>1, <3>2
  <2>7. Contents' = q
    BY <2>5, <2>6
  <2>8. Changes(Variables, q)
    BY <1>5, SetChanges DEF q
  <2>9. QED
    BY <1>8, <2>7, <2>8
<1>9. CASE AssignsElement(t, k, f)
  <2>1. /\ <<t, k>> \in buckets /\ Assigning(d, f)
        /\ UNCHANGED <<holds, buckets, refs, uncounted>>
    BY <1>9 DEF AssignsElement, d
  <2>2. CASE SameContents(d, f)
    BY <2>1, <2>2, StutterIsInvisible DEF Assigning
  <2>3. CASE ~SameContents(d, f)
    <3>1. after' # None /\ after'.dest = d /\ after'.from = f
      BY <1>6, <2>1, <2>3, BeginType, SlotFacts DEF Assigning
    <3>2. \A c : Afterwards(c)' = IF c = d THEN x ELSE holds[c]
      BY <1>4, <2>1, <3>1 DEF Afterwards, Read
    <3>3. Variables' = Variables
      BY <1>6, <1>7, <3>2, SlotFacts DEF Variables
    <3>4. \A b \in buckets : b # <<t, k>> => ValueCell(b[1], b[2]) # d
      BY <1>0, <1>6 DEF TypeOK
    <3>5. QED
      BY <1>8, <2>1, <3>2, <3>3, <3>4
  <2>4. QED
    BY <2>2, <2>3
<1>10. CASE AddsElement(t, k, f)
  <2>1. /\ <<t, k>> \notin buckets /\ buckets' = buckets \cup {<<t, k>>}
        /\ holds' = [holds EXCEPT ![KeyCell(t, k)] = KeyOf(k), ![d] = x]
        /\ after' = None
    BY <1>3, <1>4, <1>10 DEF AddsElement, d
  <2>2. \A c : Afterwards(c)' = holds'[c]
    BY <2>1 DEF Afterwards
  <2>3. Variables' = Variables
    BY <1>0, <1>6, <1>7, <2>1, <2>2, SlotFacts DEF Variables, TypeOK
  <2>4. holds'[d] = x
    BY <1>0, <1>6, <2>1 DEF TypeOK
  <2>5. \A b \in buckets : b # <<t, k>> =>
          holds'[ValueCell(b[1], b[2])] = holds[ValueCell(b[1], b[2])]
    <3> SUFFICES ASSUME NEW b \in buckets, b # <<t, k>>
                 PROVE  holds'[ValueCell(b[1], b[2])] = holds[ValueCell(b[1], b[2])]
      OBVIOUS
    <3>1. PICK u \in Tables, l \in Keys : b = <<u, l>> /\ b[1] = u /\ b[2] = l
      BY <1>0 DEF TypeOK
    <3>2. ValueCell(u, l) \in Cells /\ ValueCell(u, l) # d /\ ValueCell(u, l) # KeyCell(t, k)
      BY <1>6, <3>1, ElementCells
    <3>3. QED
      BY <1>0, <2>1, <3>1, <3>2 DEF TypeOK
  <2>6. QED
    BY <1>8, <2>1, <2>2, <2>3, <2>4, <2>5
<1>11. QED
  BY <1>2, <1>9, <1>10

LEMMA StepIsChange ==
  ASSUME Builtins = {}, TableInv, Counted, Counted', ReachAlive', [Next]_vars
  PROVE  Changes(Variables', Contents')
<1>1. CASE Clear
  <2>1. PICK c \in work : ClearCell(c) \/ ClearPlain(c) \/ CountAssertFails(c)
    BY <1>1 DEF Clear
  <2>2. CASE CountAssertFails(c)
    BY <2>2, StutterIsInvisible DEF CountAssertFails
  <2>3. QED
    BY <2>1, <2>2, ClearIsInvisible
<1>2. CASE Finish \/ FinishClearing \/ WildAssign
  BY <1>2, FinishIsInvisible
<1>3. ASSUME NEW c \in Slots,
             Overwrite(c) \/ \E f \in Stack \cup {retval, Plain} : Assign(c, f)
      PROVE  Changes(Variables', Contents')
  BY <1>3, OverwriteIsWrite, AssignIsWrite
<1>4. ASSUME NEW c \in Stack, ReturnClears(c) \/ Argument(c)
      PROVE  Changes(Variables', Contents')
  <2>1. ReturnClears(c)
    BY <1>4 DEF Argument
  <2>2. UNCHANGED vars
    BY <2>1, ReturnClearsNothing
  <2>3. QED
    BY <2>2, StutterIsInvisible DEF vars
<1>5. ASSUME NEW c \in Stack, NEW t \in Tables, NewTable(c, t)
      PROVE  Changes(Variables', Contents')
  BY <1>5, NewTableIsWrite
<1>6. ASSUME NEW s \in Stack, NEW i \in Stack \cup HashKeys \cup BoolKeys,
             \/ \E c \in Stack : GetElem(c, s, i)
             \/ \E f \in Stack \cup {Plain} : SetElem(s, i, f)
      PROVE  Changes(Variables', Contents')
  BY <1>6, GetElemIsWrite, SetElemIsSet
<1>7. ASSUME NEW n \in Tables,
             \/ \E s \in Stack : ObjectCopy(s, n) \/ ObjectMemberKeys(s, n)
             \/ EmptyResult(n)
      PROVE  Changes(Variables', Contents')
  BY <1>7, LibraryReturns DEF TableInv
<1>8. CASE Fails("finished") \/ Fails("aborted") \/ Stopped \/ UNCHANGED vars
  <2>1. UNCHANGED <<holds, buckets, after>>
    BY <1>8 DEF Fails, Stopped, vars
  <2>2. QED
    BY <2>1, StutterIsInvisible
<1>9. QED
  BY <1>1, <1>2, <1>3, <1>4, <1>5, <1>6, <1>7, <1>8 DEF Next

LEMMA ChangeIsMemoryStep ==
  ASSUME Changes(Variables', Contents')
  PROVE  [TM!Next]_TM!vars
<1>1. Reach(Variables, Vis(Variables, Contents)) = Reach(Variables, Contents)
  BY VisibleIsEnough
<1>2. CASE Variables' = Variables
           /\ Vis(Variables', Contents') = Vis(Variables, Contents)
  BY <1>2, ReachIsReachable DEF TM!vars, Variables
<1>3. ASSUME NEW s \in Slots, NEW x \in Tables \cup {Plain},
             Variables' = [Variables EXCEPT ![s] = x],
             Vis(Variables', Contents') = Vis(Variables', Vis(Variables, Contents))
      PROVE  TM!Next
  <2>1. TM!Write(s, x)
    BY <1>3, ReachIsReachable DEF TM!Write, Variables
  <2>2. QED
    BY <2>1 DEF TM!Next
<1>4. ASSUME NEW t \in Tables, NEW k \in Keys, NEW x \in Tables \cup {Plain},
             {t, k, x} \cap Tables \subseteq Reach(Variables, Contents),
             Variables' = Variables,
             Vis(Variables', Contents') =
               Vis(Variables', With(Vis(Variables, Contents), t, k, x))
      PROVE  TM!Next
  <2>1. TM!Set(t, k, x)
    BY <1>1, <1>4, ReachIsReachable DEF TM!Set, Variables, With
  <2>2. QED
    BY <2>1 DEF TM!Next
<1>5. QED
  BY <1>2, <1>3, <1>4 DEF Changes

(* Counting is invisible: in a program that calls none of objectcopy,      *)
(* objectmemberkeys and argument every table that a variable leads to has  *)
(* the elements that were last set, whatever avm_tabledestroy destroys.    *)
THEOREM MemoryIsImplemented ==
  ASSUME Builtins = {}
  PROVE  Spec => ImplementsMemory
<1>1. Init => TM!Init
  <2> SUFFICES ASSUME Init PROVE TM!Init
    OBVIOUS
  <2>1. Variables = [s \in Slots |-> Plain] /\ Contents = {}
    BY SlotFacts DEF Init, Variables, Contents, Afterwards
  <2>2. Vis(Variables, Contents) = {}
    BY <2>1 DEF Vis
  <2>3. QED
    BY <2>1, <2>2, ReachIsReachable DEF TM!Init, Variables
<1>2. TableInv /\ Counted /\ Counted' /\ ReachAlive' /\ [Next]_vars => [TM!Next]_TM!vars
  BY StepIsChange, ChangeIsMemoryStep
<1>3. QED
  BY <1>1, <1>2, NothingMiscounted, ReachableAlive, PTL DEF Spec, ImplementsMemory, TM!Spec

=============================================================================
