-------------------------- MODULE TablePrintProofs --------------------------
(***************************************************************************)
(* What is printed for "<index>", for all tables whatever they contain,    *)
(* any depth of the C stack and any number of prints.                      *)
(***************************************************************************)
EXTENDS TablePrint, SequenceTheorems, FiniteSetTheorems, TLAPS

(* The table with which printing has started is the outermost one, unless  *)
(* a warning was printed before.  Between two prints start is reset.       *)
GeneralIsOutermost ==
  /\ Printing => start
  /\ Printing /\ ~warned => general = path[1].table
  /\ ~Printing /\ ~warned => ~start

IndInv == TypeOK /\ ListIsEndOfPath /\ GeneralIsOutermost

Frame == [table : Tables, next : Nat \ {0}, nested : BOOLEAN]

-----------------------------------------------------------------------------
(* Elements of a table are keys and values that are tables or Plain.       *)
LEMMA HereIsElement ==
  ASSUME TypeOK, Visit
  PROVE  /\ Here \in Element
         /\ Current \in Tables
<1>1. path \in Seq(Frame) /\ Len(path) \in 1 .. Len(path)
  BY DEF TypeOK, Frame, Visit, Running, Printing
<1>2. Top \in Frame
  BY <1>1 DEF Top
<1>3. Current \in Tables /\ Top.next \in Nat \ {0}
  BY <1>2 DEF Current, Frame
<1>4. contents[Current] \in Seq(Element)
  BY <1>3, TablePrintAssumption DEF TypeOK
<1>5. Top.next \in 1 .. Len(contents[Current])
  BY <1>3, <1>4 DEF Visit, AtEnd
<1>6. QED
  BY <1>3, <1>4, <1>5 DEF Here

(* What is printed inside of an element is one of its tables.              *)
LEMMA NestedIsTable ==
  ASSUME TypeOK, Visit, Rendered(Here).nested # Null
  PROVE  Rendered(Here).nested \in Tables
<1>1. Here.key \in Tables \cup {Plain} /\ Here.value \in Tables \cup {Plain}
  BY HereIsElement DEF Element
<1>2. CASE Here.key = Plain /\ Here.value = Plain
  BY <1>2 DEF Rendered
<1>3. CASE Here.key = Plain /\ Here.value # Plain
  BY <1>1, <1>3 DEF Rendered
<1>4. CASE Here.key # Plain /\ Here.value = Plain
  BY <1>1, <1>4 DEF Rendered
<1>5. CASE Here.key # Plain /\ Here.value # Plain
  BY <1>1, <1>5 DEF Rendered
<1>6. QED
  BY <1>2, <1>3, <1>4, <1>5

-----------------------------------------------------------------------------
(* A call of table_tostring that has begun is the last one on the stack    *)
(* and in the list.                                                        *)
LEMMA Entered ==
  ASSUME IndInv, NEW t \in Tables, Len(path) < MaxDepth, Enter(t, path)
  PROVE  /\ path' \in Seq(Frame) /\ table_list' \in Seq(Tables)
         /\ ListIsEndOfPath'
         /\ Printing'
         /\ Printing => path'[1] = path[1]
         /\ ~Printing => path'[1].table = t
<1> DEFINE new == [table |-> t, next |-> 1, nested |-> FALSE]
<1>1. /\ path' = Append(path, new)
      /\ table_list' = Append(table_list, t)
  BY DEF Enter
<1>2. path \in Seq(Frame) /\ table_list \in Seq(Tables) /\ new \in Frame
  BY DEF IndInv, TypeOK, Frame
<1>3. /\ path' \in Seq(Frame) /\ Len(path') = Len(path) + 1
      /\ table_list' \in Seq(Tables) /\ Len(table_list') = Len(table_list) + 1
  BY <1>1, <1>2
<1>4. ListIsEndOfPath'
  <2> DEFINE n == Len(path) - Len(table_list)
  <2>1. n \in Nat /\ Len(path') - Len(table_list') = n
    BY <1>2, <1>3 DEF IndInv, ListIsEndOfPath
  <2>2. ASSUME NEW i \in 1 .. Len(table_list')
        PROVE  table_list'[i] = path'[n + i].table
    <3>1. CASE i \in 1 .. Len(table_list)
      <4>1. table_list[i] = path[n + i].table /\ n + i \in 1 .. Len(path)
        BY <1>2, <2>1, <3>1 DEF IndInv, ListIsEndOfPath
      <4>2. QED
        BY <1>1, <1>2, <3>1, <4>1
    <3>2. CASE i = Len(table_list) + 1
      <4>1. n + i = Len(path) + 1
        BY <1>2, <3>2
      <4>2. QED
        BY <1>1, <1>2, <3>2, <4>1
    <3>3. QED
      BY <1>2, <1>3, <3>1, <3>2
  <2> HIDE DEF n
  <2>3. QED
    BY <2>1, <2>2 DEF ListIsEndOfPath
<1>5. /\ path' # << >>
      /\ path # << >> => path'[1] = path[1]
      /\ path = << >> => path'[1].table = t
  BY <1>1, <1>2
<1>6. QED
  BY <1>3, <1>4, <1>5 DEF Printing

LEMMA InitInv == Init => IndInv
<1> SUFFICES ASSUME Init PROVE IndInv
  OBVIOUS
<1>1. TypeOK
  <2>1. contents \in Heaps /\ prints \in Nat
    BY DEF Init
  <2>2. start = FALSE /\ warned = FALSE
    BY DEF Init
  <2>3. general = Null /\ caller = "print" /\ status = "running"
    BY DEF Init
  <2>4. table_list \in Seq(Tables) /\ path \in Seq(Frame)
    BY DEF Init
  <2>5. QED
    BY <2>1, <2>2, <2>3, <2>4 DEF TypeOK, Frame
<1>2. ListIsEndOfPath
  BY DEF Init, ListIsEndOfPath
<1>3. GeneralIsOutermost
  BY DEF Init, GeneralIsOutermost, Printing
<1>4. QED
  BY <1>1, <1>2, <1>3 DEF IndInv

LEMMA BeginPrintInv ==
  ASSUME IndInv, NEW t \in Tables, BeginPrint(t)
  PROVE  IndInv'
<1>1. path = << >> /\ Len(path) = 0 /\ 0 < MaxDepth
  BY TablePrintAssumption DEF BeginPrint, CanPrint, Printing
<1>2. Enter(t, path) /\ Len(path) < MaxDepth
  BY <1>1 DEF BeginPrint
<1>3. /\ path' \in Seq(Frame) /\ table_list' \in Seq(Tables)
      /\ ListIsEndOfPath'
      /\ Printing' /\ path'[1].table = t
  BY <1>1, <1>2, Entered DEF Printing
<1>4. start' = TRUE /\ general' = (IF start THEN general ELSE t) /\ status' = status
  BY <1>2 DEF Enter
<1>5. TypeOK'
  <2>1. contents' \in Heaps /\ prints' \in Nat /\ status' = status
    BY <1>4 DEF IndInv, TypeOK, BeginPrint, CanPrint
  <2>2. general' \in Tables /\ start' = TRUE
    BY <1>4 DEF IndInv, TypeOK
  <2>3. warned' = warned /\ caller' \in {"print", "warning"}
    BY DEF BeginPrint
  <2>4. general' # Null
    BY <2>2, TablePrintAssumption
  <2>5. QED
    BY <1>3, <2>1, <2>2, <2>3, <2>4 DEF IndInv, TypeOK, Frame
<1>6. GeneralIsOutermost'
  <2>1. ~warned => ~start
    BY <1>1 DEF IndInv, GeneralIsOutermost, Printing
  <2>2. warned' = warned
    BY DEF BeginPrint
  <2>3. QED
    BY <1>3, <1>4, <2>1, <2>2 DEF GeneralIsOutermost
<1>7. QED
  BY <1>3, <1>5, <1>6 DEF IndInv

LEMMA PrintPlainInv ==
  ASSUME IndInv, PrintPlain
  PROVE  IndInv'
<1>1. TypeOK'
  <2>1. prints' \in Nat
    BY DEF IndInv, TypeOK, PrintPlain, CanPrint
  <2>2. start' = FALSE /\ warned' = FALSE
    BY DEF PrintPlain
  <2>3. /\ contents' = contents /\ general' = general /\ caller' = caller
        /\ table_list' = table_list /\ path' = path /\ status' = status
    BY DEF PrintPlain
  <2>4. QED
    BY <2>1, <2>2, <2>3 DEF IndInv, TypeOK
<1>2. ListIsEndOfPath'
  BY DEF IndInv, ListIsEndOfPath, PrintPlain
<1>3. GeneralIsOutermost'
  BY DEF GeneralIsOutermost, PrintPlain, CanPrint, Printing
<1>4. QED
  BY <1>1, <1>2, <1>3 DEF IndInv

LEMMA PrintElementInv ==
  ASSUME IndInv, PrintElement
  PROVE  IndInv'
<1>1. /\ path \in Seq(Frame) /\ Len(path) \in 1 .. Len(path)
      /\ path' = [path EXCEPT ![Len(path)].next = @ + 1]
  BY DEF IndInv, TypeOK, Frame, PrintElement, NextElement, Visit, Running, Printing
<1>2. /\ path' \in Seq(Frame) /\ Len(path') = Len(path)
      /\ \A i \in 1 .. Len(path) : path'[i].table = path[i].table
  <2>1. path[Len(path)] \in Frame
    BY <1>1
  <2>2. [path[Len(path)] EXCEPT !.next = @ + 1] \in Frame
    BY <2>1 DEF Frame
  <2>3. QED
    BY <1>1, <2>1, <2>2 DEF Frame
<1>3. TypeOK'
  BY <1>2 DEF IndInv, TypeOK, Frame, PrintElement
<1>4. ListIsEndOfPath'
  <2>1. table_list' = table_list /\ table_list \in Seq(Tables)
    BY DEF PrintElement, IndInv, TypeOK
  <2>2. QED
    BY <1>1, <1>2, <2>1 DEF IndInv, ListIsEndOfPath
<1>5. GeneralIsOutermost'
  BY <1>1, <1>2 DEF IndInv, GeneralIsOutermost, PrintElement, Printing, Visit, Running
<1>6. QED
  BY <1>3, <1>4, <1>5 DEF IndInv

LEMMA PrintNestedInv ==
  ASSUME IndInv, PrintNested
  PROVE  IndInv'
<1> DEFINE t == Rendered(Here).nested
<1>1. Visit /\ t \in Tables /\ Enter(t, path)
  BY NestedIsTable DEF IndInv, PrintNested
<1>2. Printing /\ start
  BY <1>1 DEF IndInv, GeneralIsOutermost, Visit, Running
<1> HIDE DEF t
<1>3. /\ contents' = contents /\ caller' = caller
      /\ warned' = warned /\ prints' = prints
  BY DEF PrintNested
<1>4. CASE Len(path) < MaxDepth
  <2>1. /\ path' \in Seq(Frame) /\ table_list' \in Seq(Tables)
        /\ ListIsEndOfPath' /\ Printing' /\ path'[1] = path[1]
    BY <1>1, <1>2, <1>4, Entered
  <2>2. start' = TRUE /\ general' = general /\ status' = status
    BY <1>1, <1>2, <1>4 DEF Enter
  <2>3. TypeOK'
    BY <1>2, <1>3, <2>1, <2>2 DEF IndInv, TypeOK, Frame
  <2>4. GeneralIsOutermost'
    BY <1>2, <1>3, <2>1, <2>2 DEF IndInv, GeneralIsOutermost
  <2>5. QED
    BY <2>1, <2>3, <2>4 DEF IndInv
<1>5. CASE ~(Len(path) < MaxDepth)
  <2>1. status' = "exhausted" /\ UNCHANGED printing
    BY <1>1, <1>5 DEF Enter
  <2>2. QED
    BY <1>3, <2>1 DEF IndInv, TypeOK, ListIsEndOfPath, GeneralIsOutermost, Printing, printing
<1>6. QED
  BY <1>4, <1>5

LEMMA EndTableInv ==
  ASSUME IndInv, EndTable
  PROVE  IndInv'
<1> DEFINE n == Len(path) - 1
<1>1. /\ path \in Seq(Frame) /\ Len(path) \in Nat \ {0} /\ n \in Nat
      /\ Printing /\ start /\ table_list' = << >>
  BY DEF IndInv, TypeOK, GeneralIsOutermost, Frame, EndTable, Running, Printing
<1>2. /\ Callers \in Seq(Frame) /\ Len(Callers) = n
      /\ \A i \in 1 .. n : Callers[i] = path[i]
  <2>1. \A i \in 1 .. n : path[i] \in Frame
    BY <1>1
  <2>2. Callers = SubSeq(path, 1, n) /\ n \in Int /\ 1 \in Int
    BY <1>1 DEF Callers
  <2> HIDE DEF n
  <2>3. /\ Callers \in Seq(Frame) /\ Len(Callers) = (IF 1 <= n THEN n - 1 + 1 ELSE 0)
        /\ \A i \in 1 .. n - 1 + 1 : Callers[i] = path[1 + i - 1]
    BY <2>1, <2>2, SubSeqProperties
  <2>4. QED
    BY <1>1, <2>3
<1> HIDE DEF n
<1>3. CASE Outermost
  <2>1. path' = << >> /\ start' = (start /\ caller # "print")
        /\ warned' = (caller = "warning")
    BY <1>3 DEF EndTable, Return, Restart
  <2>2. TypeOK'
    <3>1. /\ contents' = contents /\ general' = general /\ caller' = caller
          /\ prints' = prints /\ status' = status
      BY DEF EndTable
    <3>2. path' \in Seq(Frame) /\ table_list' \in Seq(Tables)
      BY <1>1, <2>1
    <3>3. start' \in BOOLEAN /\ warned' \in BOOLEAN /\ (start' => general # Null)
      BY <1>1, <2>1 DEF IndInv, TypeOK
    <3>4. QED
      BY <3>1, <3>2, <3>3 DEF IndInv, TypeOK, Frame
  <2>3. ListIsEndOfPath'
    BY <1>1, <2>1 DEF ListIsEndOfPath
  <2>4. GeneralIsOutermost'
    BY <2>1 DEF IndInv, TypeOK, GeneralIsOutermost, Printing
  <2>5. QED
    BY <2>2, <2>3, <2>4 DEF IndInv
<1>4. CASE ~Outermost
  <2> DEFINE last == [table |-> Callers[n].table, next |-> Callers[n].next + 1,
                      nested |-> TRUE]
  <2>1. /\ path' = [Callers EXCEPT ![n] = last]
        /\ n \in 1 .. n
    BY <1>1, <1>2, <1>4 DEF EndTable, Return, Outermost
  <2>2. /\ path' \in Seq(Frame) /\ Len(path') = n
        /\ path'[1].table = path[1].table
    <3>1. Callers[n] \in Frame /\ Callers[1] \in Frame
      BY <1>2, <2>1
    <3>2. last \in Frame
      BY <3>1 DEF Frame
    <3>3. last.table = Callers[n].table
      OBVIOUS
    <3> HIDE DEF last
    <3>4. path' \in Seq(Frame) /\ Len(path') = n
      BY <1>2, <2>1, <3>2, ExceptSeq
    <3>5. path'[1].table = Callers[1].table /\ Callers[1] = path[1]
      BY <1>2, <2>1, <3>3
    <3>6. QED
      BY <3>4, <3>5
  <2>3. start' = start /\ warned' = warned
    BY <1>1, <1>4 DEF EndTable, Restart, IndInv, TypeOK
  <2>4. TypeOK'
    BY <1>1, <2>2, <2>3 DEF IndInv, TypeOK, Frame, EndTable
  <2>5. ListIsEndOfPath'
    BY <1>1, <2>2 DEF ListIsEndOfPath
  <2>6. GeneralIsOutermost'
    <3>1. path' # << >>
      BY <2>1, <2>2
    <3>2. general' = general
      BY DEF EndTable
    <3>3. QED
      BY <1>1, <2>2, <2>3, <3>1, <3>2 DEF IndInv, GeneralIsOutermost, Printing
  <2>7. QED
    BY <2>4, <2>5, <2>6 DEF IndInv
<1>5. QED
  BY <1>3, <1>4

LEMMA NextInv == IndInv /\ [Next]_vars => IndInv'
<1> SUFFICES ASSUME IndInv, [Next]_vars PROVE IndInv'
  OBVIOUS
<1>1. CASE UNCHANGED vars
  BY <1>1 DEF IndInv, TypeOK, ListIsEndOfPath, GeneralIsOutermost, Printing, vars, printing
<1>2. ASSUME NEW t \in Tables, BeginPrint(t) PROVE IndInv'
  BY <1>2, BeginPrintInv
<1>3. CASE PrintPlain
  BY <1>3, PrintPlainInv
<1>4. CASE PrintElement
  BY <1>4, PrintElementInv
<1>5. CASE PrintNested
  BY <1>5, PrintNestedInv
<1>6. CASE EndTable
  BY <1>6, EndTableInv
<1>7. CASE Stopped
  BY <1>7, <1>1 DEF Stopped
<1>8. QED
  BY <1>1, <1>2, <1>3, <1>4, <1>5, <1>6, <1>7 DEF Next, Step

LEMMA Invariant == Spec => []IndInv
BY InitInv, NextInv, PTL DEF Spec

-----------------------------------------------------------------------------
(* The globals of the printer keep their types; printing that has begun    *)
(* has a first table.                                                      *)
THEOREM PrinterTypes == Spec => []TypeOK
BY Invariant, PTL DEF IndInv

(* Although the end of every nested table empties table_list, the list is  *)
(* never anything but the innermost tables that are being printed.         *)
THEOREM ListOfOpenTables == Spec => []ListIsEndOfPath
BY Invariant, PTL DEF IndInv

(* "<index>" is never put for a table that is not being printed around it, *)
(* but for the table of a warning before, and in elements of two tables.   *)
THEOREM IndexIsAround == Spec => []IndexMeansEnclosing
<1>1. IndInv => IndexMeansEnclosing
  <2> SUFFICES ASSUME IndInv, Visit, ~BothTables(Here),
                      NEW t \in Rendered(Here).index
               PROVE  OnPath(t) \/ (warned /\ t = general)
    BY DEF IndexMeansEnclosing
  <2>1. path \in Seq(Frame) /\ Len(path) \in 1 .. Len(path) /\ 1 \in 1 .. Len(path)
    BY DEF IndInv, TypeOK, Frame, Visit, Running, Printing
  <2>2. OnPath(Current)
    BY <2>1 DEF OnPath, Current, Top
  <2>3. OnPath(general) \/ warned
    BY <2>1 DEF IndInv, GeneralIsOutermost, OnPath, Visit, Running
  <2>4. check_preced(t) => OnPath(t)
    <3> SUFFICES ASSUME NEW i \in 1 .. Len(table_list) - 1, table_list[i] = t
                 PROVE  OnPath(t)
      BY DEF check_preced
    <3> DEFINE k == Len(path) - Len(table_list) + i
    <3>1. table_list \in Seq(Tables)
      BY DEF IndInv, TypeOK
    <3>2. k \in 1 .. Len(path) /\ path[k].table = t
      BY <2>1, <3>1 DEF IndInv, ListIsEndOfPath
    <3>3. QED
      BY <2>1, <3>2 DEF OnPath
  <2>5. t \in {general, Current} \/ check_preced(t)
    <3>1. CASE Here.key = Plain /\ Here.value = Plain
      BY <3>1 DEF Rendered
    <3>2. CASE Here.key = Plain /\ Here.value # Plain
      BY <3>2 DEF Rendered, Known
    <3>3. CASE Here.key # Plain /\ Here.value = Plain
      BY <3>3 DEF Rendered
    <3>4. QED
      BY <3>1, <3>2, <3>3 DEF BothTables
  <2>6. QED
    BY <2>2, <2>3, <2>4, <2>5
<1>2. QED
  BY <1>1, Invariant, PTL

-----------------------------------------------------------------------------
(* What the steps do to path. *)

LEMMA RunningPath ==
  ASSUME IndInv, Running
  PROVE  /\ path \in Seq(Frame) /\ Len(path) \in Nat
         /\ Len(path) \in 1 .. Len(path) /\ DOMAIN path = 1 .. Len(path)
         /\ \A i \in 1 .. Len(path) : path[i] \in Frame
<1>1. path \in Seq(Frame) /\ path # << >>
  BY DEF IndInv, TypeOK, Frame, Running, Printing
<1>2. QED
  BY <1>1

LEMMA ElementPath ==
  ASSUME IndInv, PrintElement
  PROVE  LET L == Len(path) IN
         /\ Len(path') = L /\ DOMAIN path' = 1 .. L
         /\ \A i \in 1 .. L - 1 : path'[i] = path[i]
         /\ path'[L] = [table |-> path[L].table, next |-> path[L].next + 1,
                        nested |-> path[L].nested]
<1>l. PICK L \in Nat : L = Len(path)
  BY DEF IndInv, TypeOK
<1> DEFINE new == [table |-> path[L].table, next |-> path[L].next + 1,
                   nested |-> path[L].nested]
<1>1. /\ path \in Seq(Frame) /\ L \in 1 .. Len(path) /\ path[L] \in Frame
      /\ DOMAIN path = 1 .. L
  BY <1>l, RunningPath DEF PrintElement, Visit
<1>2. [path[L] EXCEPT !.next = @ + 1] = new /\ new \in Frame
  BY <1>1 DEF Frame
<1>3. path' = [path EXCEPT ![L] = new]
  BY <1>l, <1>2 DEF PrintElement, NextElement
<1> HIDE DEF new
<1>4. /\ path' \in Seq(Frame) /\ Len(path') = L
      /\ \A i \in 1 .. L : path'[i] = IF i = L THEN new ELSE path[i]
  BY <1>l, <1>1, <1>2, <1>3, ExceptSeq
<1>5. QED
  BY <1>l, <1>1, <1>4 DEF new

LEMMA NestedPath ==
  ASSUME IndInv, PrintNested, Len(path) < MaxDepth
  PROVE  LET L == Len(path) IN
         /\ Len(path') = L + 1 /\ DOMAIN path' = 1 .. L + 1
         /\ \A i \in 1 .. L : path'[i] = path[i]
         /\ path'[L + 1] = [table |-> Rendered(Here).nested, next |-> 1,
                            nested |-> FALSE]
         /\ Len(table_list') = Len(table_list) + 1
<1> DEFINE new == [table |-> Rendered(Here).nested, next |-> 1, nested |-> FALSE]
<1>1. Rendered(Here).nested \in Tables
  BY NestedIsTable DEF IndInv, PrintNested
<1>2. new \in Frame
  BY <1>1 DEF Frame
<1>3. /\ path' = Append(path, new)
      /\ table_list' = Append(table_list, Rendered(Here).nested)
  BY DEF PrintNested, Enter
<1> HIDE DEF new
<1>4. path \in Seq(Frame) /\ table_list \in Seq(Tables)
  BY DEF IndInv, TypeOK, Frame
<1>5. /\ Len(path') = Len(path) + 1 /\ path' \in Seq(Frame)
      /\ path'[Len(path) + 1] = new
      /\ \A k \in 1 .. Len(path) : path'[k] = path[k]
      /\ Len(table_list') = Len(table_list) + 1
  BY <1>1, <1>2, <1>3, <1>4
<1>6. QED
  BY <1>5 DEF new

LEMMA EndPath ==
  ASSUME IndInv, EndTable
  PROVE  \E n \in Nat :
           /\ n = Len(path) - 1
           /\ Len(path') = n /\ DOMAIN path' = 1 .. n
           /\ \A i \in 1 .. n - 1 : path'[i] = path[i]
           /\ n > 0 => path'[n] = [table |-> path[n].table,
                                   next |-> path[n].next + 1, nested |-> TRUE]
           /\ Len(table_list') = 0
<1>l. PICK L \in Nat : L = Len(path) /\ L \in 1 .. L
  BY RunningPath DEF EndTable
<1>n. PICK n \in Nat : n = L - 1
  BY <1>l
<1>1. /\ path \in Seq(Frame) /\ \A i \in 1 .. n : path[i] \in Frame
  BY <1>l, <1>n, RunningPath DEF EndTable
<1>0. Len(table_list') = 0
  BY DEF EndTable
<1>2. /\ Callers \in Seq(Frame) /\ Len(Callers) = n
      /\ \A i \in 1 .. n : Callers[i] = path[i]
  <2>1. Callers = SubSeq(path, 1, n)
    BY <1>l, <1>n DEF Callers
  <2>2. /\ Callers \in Seq(Frame) /\ Len(Callers) = (IF 1 <= n THEN n - 1 + 1 ELSE 0)
        /\ \A i \in 1 .. n - 1 + 1 : Callers[i] = path[1 + i - 1]
    BY <1>1, <2>1, SubSeqProperties
  <2>3. QED
    BY <2>2
<1>3. /\ Len(path') = n /\ DOMAIN path' = 1 .. n
      /\ \A i \in 1 .. n - 1 : path'[i] = path[i]
      /\ n > 0 => path'[n] = [table |-> path[n].table,
                              next |-> path[n].next + 1, nested |-> TRUE]
  <2>1. CASE Outermost
    <3>1. path' = << >> /\ n = 0
      BY <1>2, <2>1 DEF EndTable, Return, Outermost
    <3>2. Len(path') = 0 /\ DOMAIN path' = 1 .. 0
      BY <3>1
    <3>3. QED
      BY <3>1, <3>2
  <2>2. CASE ~Outermost
    <3> DEFINE last == [table |-> Callers[n].table, next |-> Callers[n].next + 1,
                        nested |-> TRUE]
    <3>1. n \in 1 .. n
      BY <1>2, <2>2 DEF Outermost
    <3>2. path' = [Callers EXCEPT ![n] = last]
      BY <1>2, <2>2 DEF EndTable, Return
    <3>3. Callers[n] \in Frame
      BY <1>1, <1>2, <3>1
    <3>4. last \in Frame
      BY <3>3 DEF Frame
    <3>5. last = [table |-> path[n].table, next |-> path[n].next + 1, nested |-> TRUE]
      BY <1>2, <3>1
    <3> HIDE DEF last
    <3>6. /\ path' \in Seq(Frame) /\ Len(path') = n
          /\ \A i \in 1 .. n : path'[i] = IF i = n THEN last ELSE Callers[i]
      BY <1>2, <3>1, <3>2, <3>4, ExceptSeq
    <3>7. DOMAIN path' = 1 .. n
      BY <3>6, LenProperties
    <3>8. QED
      BY <1>2, <3>1, <3>5, <3>6, <3>7
  <2>3. QED
    BY <2>1, <2>2
<1>4. QED
  BY <1>0, <1>l, <1>n, <1>3

-----------------------------------------------------------------------------
(* Tables that are printed inside of themselves.                           *)

(* The list begins where the last nested table has ended: what path holds  *)
(* before that has been forgotten.                                         *)
ListFromForgotten ==
  LET n == Len(path) - Len(table_list) IN n > 0 => path[n].nested

RepeatInv == ListFromForgotten /\ RepeatsOnlyIfForgotten

(* A table that is being printed is printed again only in a forgotten one. *)
LEMMA NestedAgain ==
  ASSUME IndInv, ListFromForgotten, PrintNested,
         NEW i \in 1 .. Len(path), path[i].table = Rendered(Here).nested
  PROVE  \E m \in i .. Len(path) : path[m].nested \/ ByKey(m)
<1>l. PICK L \in Nat : L = Len(path)
  BY DEF IndInv, TypeOK
<1> DEFINE n == L - Len(table_list)
<1>1. L \in 1 .. L /\ Visit /\ Here \in Element
  BY <1>l, RunningPath, HereIsElement DEF PrintNested, Visit, IndInv
<1>2. CASE Here.key # Plain
  <2>1. ByKey(L)
    BY <1>l, <1>2 DEF ByKey, Here, Current, Top
  <2>2. QED
    BY <1>l, <1>1, <2>1
<1>3. CASE Here.key = Plain /\ i <= n
  <2>1. n \in i .. L /\ n > 0
    BY <1>l, <1>1, <1>3 DEF IndInv, TypeOK
  <2>2. path[n].nested
    BY <1>l, <2>1 DEF ListFromForgotten
  <2>3. QED
    BY <1>l, <2>1, <2>2
<1>4. CASE Here.key = Plain /\ ~(i <= n)
  <2>1. Here.value # Plain /\ ~Known(Here.value) /\ Rendered(Here).nested = Here.value
    BY <1>4 DEF Rendered, PrintNested
  <2>2. CASE i = L
    BY <1>l, <2>1, <2>2 DEF Known, Current, Top
  <2>3. CASE i # L
    <3>1. /\ i - n \in 1 .. Len(table_list) - 1 /\ n + (i - n) = i
          /\ \A k \in 1 .. Len(table_list) : table_list[k] = path[n + k].table
      BY <1>l, <1>4, <2>3 DEF IndInv, TypeOK, ListIsEndOfPath
    <3>2. table_list[i - n] = path[i].table
      BY <3>1
    <3>3. QED
      BY <2>1, <3>1, <3>2 DEF Known, check_preced
  <2>4. QED
    BY <2>2, <2>3
<1>5. QED
  BY <1>1, <1>2, <1>3, <1>4 DEF IndInv, TypeOK

(* Path grows or shrinks at its end: what it holds before stays.           *)
LEMMA RepeatsStay ==
  ASSUME RepeatsOnlyIfForgotten, NEW n \in Nat, DOMAIN path' = 1 .. n,
         1 .. n \subseteq DOMAIN path, contents' = contents,
         \A i \in 1 .. n : path'[i].table = path[i].table,
         \A i \in 1 .. n - 1 : path'[i] = path[i]
  PROVE  RepeatsOnlyIfForgotten'
<1> SUFFICES ASSUME NEW i \in 1 .. n, NEW j \in 1 .. n, i < j,
                    path'[i].table = path'[j].table
             PROVE  \E m \in i .. j - 1 : path'[m].nested \/ ByKey(m)'
  BY DEF RepeatsOnlyIfForgotten, Repeats
<1>1. PICK m \in i .. j - 1 : path[m].nested \/ ByKey(m)
  BY DEF RepeatsOnlyIfForgotten, Repeats
<1>2. path'[m] = path[m]
  OBVIOUS
<1>3. QED
  BY <1>1, <1>2 DEF ByKey

LEMMA RepeatStep == IndInv /\ RepeatInv /\ [Next]_vars => RepeatInv'
<1> SUFFICES ASSUME IndInv, RepeatInv, [Next]_vars PROVE RepeatInv'
  OBVIOUS
<1>l. PICK L \in Nat : L = Len(path)
  BY DEF IndInv, TypeOK
<1>p. path \in Seq(Frame) /\ table_list \in Seq(Tables) /\ DOMAIN path = 1 .. L
  BY <1>l DEF IndInv, TypeOK, Frame
<1>1. CASE UNCHANGED <<contents, path, table_list>>
  BY <1>1 DEF RepeatInv, ListFromForgotten, RepeatsOnlyIfForgotten, Repeats, ByKey
<1>2. ASSUME NEW t \in Tables, BeginPrint(t) PROVE RepeatInv'
  <2>1. L = 0 /\ Len(table_list) = 0 /\ 0 < MaxDepth
    BY <1>l, <1>p, <1>2, TablePrintAssumption
    DEF BeginPrint, CanPrint, Printing, IndInv, ListIsEndOfPath
  <2>2. path' = Append(<<>>, [table |-> t, next |-> 1, nested |-> FALSE])
        /\ table_list' = Append(table_list, t)
    BY <1>2, <2>1 DEF BeginPrint, Enter
  <2>3. Len(path') = 1 /\ DOMAIN path' = 1 .. 1
    BY <2>2
  <2>4. Len(table_list') = 1
    BY <1>p, <2>1, <2>2
  <2>5. QED
    BY <2>3, <2>4 DEF RepeatInv, ListFromForgotten, RepeatsOnlyIfForgotten, Repeats
<1>3. CASE PrintElement
  <2>1. /\ Len(path') = L /\ DOMAIN path' = 1 .. L /\ L \in 1 .. L
        /\ \A i \in 1 .. L - 1 : path'[i] = path[i]
        /\ path'[L].table = path[L].table /\ path'[L].nested = path[L].nested
        /\ contents' = contents /\ table_list' = table_list
    BY <1>l, <1>3, ElementPath, RunningPath DEF PrintElement, Visit
  <2>2. \A i \in 1 .. L : path'[i].table = path[i].table
                          /\ path'[i].nested = path[i].nested
    BY <2>1
  <2>3. RepeatsOnlyIfForgotten'
    BY <1>p, <2>1, <2>2, RepeatsStay DEF RepeatInv
  <2>4. ListFromForgotten'
    BY <1>l, <1>p, <2>1, <2>2 DEF RepeatInv, ListFromForgotten
  <2>5. QED
    BY <2>3, <2>4 DEF RepeatInv
<1>4. CASE PrintNested
  <2>1. CASE ~(Len(path) < MaxDepth)
    BY <1>1, <1>4, <2>1 DEF PrintNested, Enter, printing
  <2>2. CASE Len(path) < MaxDepth
    <3>1. /\ Len(path') = L + 1 /\ DOMAIN path' = 1 .. L + 1
          /\ \A i \in 1 .. L : path'[i] = path[i]
          /\ path'[L + 1].table = Rendered(Here).nested
          /\ Len(table_list') = Len(table_list) + 1
          /\ contents' = contents
      BY <1>l, <1>4, <2>2, NestedPath DEF PrintNested
    <3>2. ASSUME NEW i \in 1 .. L + 1, NEW j \in 1 .. L + 1, i < j,
                 path'[i].table = path'[j].table
          PROVE  \E m \in i .. j - 1 : path'[m].nested \/ ByKey(m)'
      <4>1. i \in 1 .. L /\ path'[i] = path[i]
        BY <3>1, <3>2
      <4>2. PICK m \in i .. j - 1 : m \in 1 .. L /\ (path[m].nested \/ ByKey(m))
        <5>1. CASE j = L + 1
          <6>1. path[i].table = Rendered(Here).nested
            BY <3>1, <3>2, <4>1, <5>1
          <6>2. PICK m \in i .. L : path[m].nested \/ ByKey(m)
            BY <1>4, <1>l, <4>1, <6>1, NestedAgain DEF RepeatInv
          <6>3. m \in i .. j - 1 /\ m \in 1 .. L
            BY <5>1
          <6>4. QED
            BY <6>2, <6>3
        <5>2. CASE j # L + 1
          <6>1. j \in 1 .. L /\ path'[j] = path[j]
            BY <3>1, <5>2
          <6>2. PICK m \in i .. j - 1 : path[m].nested \/ ByKey(m)
            BY <1>p, <3>2, <4>1, <6>1 DEF RepeatInv, RepeatsOnlyIfForgotten, Repeats
          <6>3. m \in 1 .. L
            BY <6>1
          <6>4. QED
            BY <6>2, <6>3
        <5>3. QED
          BY <5>1, <5>2
      <4>3. path'[m] = path[m]
        BY <3>1, <4>2
      <4>4. QED
        BY <3>1, <4>2, <4>3 DEF ByKey
    <3>3. RepeatsOnlyIfForgotten'
      BY <3>1, <3>2 DEF RepeatsOnlyIfForgotten, Repeats
    <3>4. ListFromForgotten'
      <4> DEFINE n == L - Len(table_list)
      <4>1. Len(path') - Len(table_list') = n /\ n \in Nat /\ n <= L
        BY <1>l, <1>p, <3>1 DEF IndInv, ListIsEndOfPath
      <4>2. n > 0 => path[n].nested /\ path'[n] = path[n]
        BY <1>l, <3>1, <4>1 DEF RepeatInv, ListFromForgotten
      <4> HIDE DEF n
      <4>3. QED
        BY <4>1, <4>2 DEF ListFromForgotten
    <3>5. QED
      BY <3>3, <3>4 DEF RepeatInv
  <2>3. QED
    BY <2>1, <2>2
<1>5. CASE EndTable
  <2>1. PICK n \in Nat :
          /\ n = L - 1
          /\ Len(path') = n /\ DOMAIN path' = 1 .. n
          /\ \A i \in 1 .. n - 1 : path'[i] = path[i]
          /\ n > 0 => path'[n] = [table |-> path[n].table,
                                  next |-> path[n].next + 1, nested |-> TRUE]
          /\ Len(table_list') = 0 /\ contents' = contents
    BY <1>l, <1>5, EndPath DEF EndTable
  <2>2. n > 0 => path'[n].table = path[n].table /\ path'[n].nested
    BY <2>1
  <2>3. \A i \in 1 .. n : path'[i].table = path[i].table
    BY <2>1, <2>2
  <2>4. 1 .. n \subseteq DOMAIN path
    BY <1>p, <2>1
  <2>5. RepeatsOnlyIfForgotten'
    BY <2>1, <2>3, <2>4, RepeatsStay DEF RepeatInv
  <2>6. ListFromForgotten'
    BY <2>1, <2>2 DEF ListFromForgotten
  <2>7. QED
    BY <2>5, <2>6 DEF RepeatInv
<1>6. CASE PrintPlain \/ Stopped \/ UNCHANGED vars
  BY <1>1, <1>6 DEF PrintPlain, Stopped, vars, printing
<1>7. QED
  BY <1>2, <1>3, <1>4, <1>5, <1>6 DEF Next, Step

LEMMA RepeatInvariant == Spec => [](IndInv /\ RepeatInv)
<1>1. Init => RepeatInv
  BY DEF Init, RepeatInv, ListFromForgotten, RepeatsOnlyIfForgotten, Repeats
<1>2. QED
  BY <1>1, Invariant, RepeatStep, PTL DEF Spec

(* Whatever the tables contain, one is printed inside of itself only when  *)
(* one nested in it or deeper has ended in between, or by way of a key.    *)
THEOREM RepeatsAreForgotten == Spec => []RepeatsOnlyIfForgotten
BY RepeatInvariant, PTL DEF RepeatInv

-----------------------------------------------------------------------------
(* Tables without branches and without tables for keys.                    *)

(* The element that is printed inside of the m-th call. *)
Waiting(m) ==
  /\ ~path[m].nested
  /\ path[m].next \in DOMAIN contents[path[m].table]
  /\ contents[path[m].table][path[m].next].value # Plain

(* The one table of a chain is before the element that is next, once it    *)
(* has been printed.                                                       *)
ChainInv ==
  Chains =>
    /\ \A m \in 1 .. Len(path) - 1 : Waiting(m)
    /\ Printing /\ Top.nested =>
         \A k \in DOMAIN contents[Current] :
           contents[Current][k].value # Plain => k < Top.next

LEMMA OneTable ==
  ASSUME TypeOK, Chains, NEW t \in Tables,
         NEW i \in DOMAIN contents[t], contents[t][i].value # Plain,
         NEW j \in DOMAIN contents[t], contents[t][j].value # Plain
  PROVE  i = j
<1> DEFINE S == {k \in DOMAIN contents[t] : contents[t][k].value # Plain}
<1>1. contents[t] \in Seq(Element)
  BY TablePrintAssumption DEF TypeOK
<1>2. PICK n \in Nat : DOMAIN contents[t] = 1 .. n
  BY <1>1
<1>3. IsFiniteSet(1 .. n)
  BY FS_Interval
<1>4. IsFiniteSet(S)
  BY <1>2, <1>3, FS_Subset
<1>5. Cardinality(S) <= 1
  BY DEF Chains
<1>6. i \in S /\ j \in S
  OBVIOUS
<1> HIDE DEF S
<1>7. IsFiniteSet({i}) /\ Cardinality({i}) = 1
  BY FS_Singleton
<1>8. ASSUME j # i PROVE Cardinality({i} \cup {j}) = 2
  <2>1. j \notin {i}
    BY <1>8
  <2>2. Cardinality({i} \cup {j}) = Cardinality({i}) + 1
    BY <1>7, <2>1, FS_AddElement
  <2>3. QED
    BY <1>7, <2>2
<1>9. Cardinality({i} \cup {j}) <= Cardinality(S) /\ Cardinality(S) \in Nat
  BY <1>4, <1>6, FS_Subset, FS_CardinalityType
<1>10. QED
  BY <1>5, <1>8, <1>9

(* The element that is visited has one table at most, and it is its value. *)
LEMMA ChainNested ==
  ASSUME IndInv, Chains, PrintNested
  PROVE  /\ Here.key = Plain /\ Here.value # Plain
         /\ Top.next \in DOMAIN contents[Current] /\ Current \in Tables
<1>1. Visit /\ Rendered(Here).nested # Null
  BY DEF PrintNested
<1>2. /\ path \in Seq(Frame) /\ Len(path) \in 1 .. Len(path)
  BY <1>1, RunningPath DEF Visit
<1>3. Top \in Frame
  BY <1>2 DEF Top
<1>4. Current \in Tables /\ Top.next \in Nat \ {0}
  BY <1>3 DEF Current, Frame
<1>5. contents[Current] \in Seq(Element)
  BY <1>4, TablePrintAssumption DEF IndInv, TypeOK
<1>6. Top.next \in DOMAIN contents[Current]
  BY <1>1, <1>4, <1>5 DEF Visit, AtEnd
<1>7. Here.key = Plain
  BY <1>4, <1>6 DEF Chains, Here
<1>8. Here.value # Plain
  BY <1>1, <1>7 DEF Rendered
<1>9. QED
  BY <1>4, <1>6, <1>7, <1>8

(* A table of a chain is nested in another one only once.                  *)
LEMMA ChainTop ==
  ASSUME IndInv, ChainInv, Chains, PrintNested
  PROVE  ~Top.nested /\ Waiting(Len(path))
<1>1. /\ Here.key = Plain /\ Here.value # Plain
      /\ Top.next \in DOMAIN contents[Current] /\ Current \in Tables
  BY ChainNested
<1>2. Printing
  BY DEF PrintNested, Visit, Running
<1>3. Top.next \in Nat
  <2>1. Top \in Frame
    BY RunningPath DEF PrintNested, Visit, Top
  <2>2. QED
    BY <2>1 DEF Frame
<1>4. ~Top.nested
  BY <1>1, <1>2, <1>3 DEF ChainInv, Here
<1>5. QED
  BY <1>1, <1>4 DEF Waiting, Here, Current, Top

LEMMA ChainStep == IndInv /\ ChainInv /\ [Next]_vars => ChainInv'
<1> SUFFICES ASSUME IndInv, ChainInv, [Next]_vars PROVE ChainInv'
  OBVIOUS
<1>l. PICK L \in Nat : L = Len(path)
  BY DEF IndInv, TypeOK
<1>0. contents' = contents
  BY DEF Next, vars, BeginPrint, PrintPlain, Step, PrintElement, PrintNested,
     EndTable, Stopped
<1> SUFFICES ASSUME Chains
             PROVE  /\ \A m \in 1 .. Len(path') - 1 : Waiting(m)'
                    /\ Printing' /\ Top'.nested =>
                         \A k \in DOMAIN contents[Current'] :
                           contents[Current'][k].value # Plain => k < Top'.next
  BY <1>0 DEF ChainInv, Chains
<1>w. /\ \A m \in 1 .. L - 1 : Waiting(m)
      /\ Printing /\ Top.nested =>
           \A k \in DOMAIN contents[Current] :
             contents[Current][k].value # Plain => k < Top.next
  BY <1>l DEF ChainInv
<1>1. CASE UNCHANGED path
  BY <1>0, <1>1, <1>l, <1>w DEF Waiting, Printing, Top, Current
<1>2. ASSUME NEW t \in Tables, BeginPrint(t) PROVE ChainInv'
  <2>1. path' = Append(<<>>, [table |-> t, next |-> 1, nested |-> FALSE])
    BY <1>2, TablePrintAssumption DEF BeginPrint, Enter
  <2>2. Len(path') = 1 /\ path'[1].nested = FALSE
    BY <2>1
  <2>3. ~(Top'.nested)
    BY <2>2 DEF Top
  <2>4. QED
    BY <2>2, <2>3 DEF ChainInv
<1>3. CASE PrintElement
  <2>1. /\ Len(path') = L /\ L \in 1 .. L
        /\ \A i \in 1 .. L - 1 : path'[i] = path[i]
        /\ path'[L] = [table |-> path[L].table, next |-> path[L].next + 1,
                       nested |-> path[L].nested]
        /\ path[L] \in Frame
    BY <1>l, <1>3, ElementPath, RunningPath DEF PrintElement, Visit
  <2>2. \A m \in 1 .. L - 1 : Waiting(m)'
    BY <1>0, <1>w, <2>1 DEF Waiting
  <2>3. /\ Top' = path'[L] /\ Top = path[L] /\ Current' = Current /\ Printing
        /\ Top'.next = Top.next + 1 /\ Top'.nested = Top.nested /\ Top.next \in Nat
    BY <1>l, <1>3, <2>1 DEF Top, Current, Frame, PrintElement, Visit, Running
  <2>4. ASSUME Top'.nested, NEW k \in DOMAIN contents[Current'],
               contents[Current'][k].value # Plain
        PROVE  k < Top'.next
    <3>1. k < Top.next
      BY <1>w, <2>3, <2>4
    <3>2. k \in Nat
      <4>1. Current \in Tables
        BY <2>1, <2>3 DEF Current, Frame
      <4>2. contents[Current] \in Seq(Element)
        BY <4>1, TablePrintAssumption DEF IndInv, TypeOK
      <4>3. QED
        BY <2>3, <2>4, <4>2
    <3>3. QED
      BY <2>3, <3>1, <3>2
  <2>5. QED
    BY <2>1, <2>2, <2>4
<1>4. CASE PrintNested
  <2>1. CASE ~(Len(path) < MaxDepth)
    BY <1>1, <1>4, <2>1 DEF PrintNested, Enter, printing
  <2>2. CASE Len(path) < MaxDepth
    <3>1. /\ Len(path') = L + 1 /\ \A i \in 1 .. L : path'[i] = path[i]
          /\ path'[L + 1].nested = FALSE
      BY <1>l, <1>4, <2>2, NestedPath
    <3>2. Waiting(L)
      BY <1>l, <1>4, ChainTop
    <3>3. \A m \in 1 .. L : Waiting(m)
      BY <1>w, <3>2
    <3>4. \A m \in 1 .. L : Waiting(m)'
      BY <1>0, <3>1, <3>3 DEF Waiting
    <3>5. ~(Top'.nested)
      BY <3>1 DEF Top
    <3>6. QED
      BY <3>1, <3>4, <3>5
  <2>3. QED
    BY <2>1, <2>2
<1>5. CASE EndTable
  <2>1. PICK n \in Nat :
          /\ n = L - 1
          /\ Len(path') = n
          /\ \A i \in 1 .. n - 1 : path'[i] = path[i]
          /\ n > 0 => path'[n] = [table |-> path[n].table,
                                  next |-> path[n].next + 1, nested |-> TRUE]
    BY <1>l, <1>5, EndPath DEF EndTable
  <2>2. \A m \in 1 .. n - 1 : Waiting(m)'
    BY <1>0, <1>w, <2>1 DEF Waiting
  <2>3. ASSUME Printing', NEW k \in DOMAIN contents[Current'],
               contents[Current'][k].value # Plain
        PROVE  k < Top'.next
    <3>1. n > 0 /\ n \in 1 .. n
      <4>1. path' \in Seq(Frame) /\ path' # << >>
        BY <2>3, NextInv DEF IndInv, TypeOK, Frame, Printing
      <4>2. QED
        BY <2>1, <4>1
    <3>2. /\ Current' = path[n].table /\ Top'.next = path[n].next + 1
          /\ path[n] \in Frame
      BY <1>l, <1>5, <2>1, <3>1, RunningPath DEF Current, Top, EndTable
    <3>3. Waiting(n) /\ path[n].table \in Tables /\ path[n].next \in Nat
      BY <1>w, <2>1, <3>1, <3>2 DEF Frame
    <3>4. k = path[n].next
      BY <2>3, <3>2, <3>3, OneTable DEF Waiting, IndInv
    <3>5. QED
      BY <3>2, <3>3, <3>4
  <2>4. QED
    BY <2>1, <2>2, <2>3
<1>6. CASE PrintPlain \/ Stopped \/ UNCHANGED vars
  BY <1>1, <1>6 DEF PrintPlain, Stopped, vars, printing
<1>7. QED
  BY <1>0, <1>2, <1>3, <1>4, <1>5, <1>6 DEF Next, Step, ChainInv, Chains

(* No table of a chain is printed inside of itself.                        *)
LEMMA ChainDistinct ==
  ASSUME IndInv, RepeatInv, ChainInv, Chains
  PROVE  /\ \A i, j \in 1 .. Len(path) : i < j => path[i].table # path[j].table
         /\ PrintNested =>
              \A i \in 1 .. Len(path) : path[i].table # Rendered(Here).nested
<1>l. PICK L \in Nat : L = Len(path) /\ DOMAIN path = 1 .. L
  BY DEF IndInv, TypeOK
<1>1. \A m \in 1 .. L - 1 : Waiting(m) /\ path[m].table \in Tables
  <2>1. path \in Seq(Frame)
    BY DEF IndInv, TypeOK, Frame
  <2>2. \A m \in 1 .. L : path[m] \in Frame
    BY <1>l, <2>1
  <2>3. \A m \in 1 .. L : path[m].table \in Tables
    BY <2>2 DEF Frame
  <2>4. \A m \in 1 .. L - 1 : Waiting(m)
    BY <1>l DEF ChainInv
  <2>5. QED
    BY <2>3, <2>4
<1>2. \A m \in 1 .. L - 1 : ~path[m].nested /\ ~ByKey(m)
  BY <1>1 DEF Waiting, ByKey, Chains
<1>3. ASSUME NEW i \in 1 .. L, NEW j \in 1 .. L, i < j
      PROVE  path[i].table # path[j].table
  <2>1. \A m \in i .. j - 1 : m \in 1 .. L - 1
    BY <1>3
  <2>2. QED
    BY <1>l, <1>2, <1>3, <2>1 DEF RepeatInv, RepeatsOnlyIfForgotten, Repeats
<1>4. ASSUME PrintNested, NEW i \in 1 .. L
      PROVE  path[i].table # Rendered(Here).nested
  <2>1. ~path[L].nested /\ ~ByKey(L)
    <3>1. ~Top.nested /\ Here.key = Plain
      BY <1>4, ChainTop, ChainNested
    <3>2. QED
      BY <1>l, <3>1 DEF ByKey, Here, Current, Top
  <2>2. \A m \in i .. L : m = L \/ m \in 1 .. L - 1
    OBVIOUS
  <2>3. QED
    BY <1>l, <1>2, <1>4, <2>1, <2>2, NestedAgain DEF RepeatInv
<1>5. QED
  BY <1>l, <1>3, <1>4

LEMMA Pigeons ==
  ASSUME IsFiniteSet(Tables), NEW n \in Nat, NEW f \in [1 .. n -> Tables],
         \A i, j \in 1 .. n : i < j => f[i] # f[j]
  PROVE  n <= Cardinality(Tables)
<1>1. IsFiniteSet(1 .. n) /\ Cardinality(1 .. n) = n
  BY FS_Interval
<1>2. Cardinality(Tables) \in Nat
  BY FS_CardinalityType
<1>3. SUFFICES ASSUME Cardinality(Tables) < n PROVE FALSE
  BY <1>2
<1>4. PICK x \in 1 .. n, y \in 1 .. n : x # y /\ f[x] = f[y]
  BY <1>1, <1>3, FS_PigeonHole
<1>5. x < y \/ y < x
  BY <1>4
<1>6. QED
  BY <1>4, <1>5

(* So the calls of table_tostring are no more than there are tables.       *)
LEMMA ChainFits ==
  ASSUME IndInv, RepeatInv, ChainInv, Chains, IsFiniteSet(Tables)
  PROVE  /\ Len(path) <= Cardinality(Tables)
         /\ PrintNested => Len(path) + 1 <= Cardinality(Tables)
<1>l. PICK L \in Nat : L = Len(path)
  BY DEF IndInv, TypeOK
<1>1. \A i \in 1 .. L : path[i].table \in Tables
  <2>1. path \in Seq(Frame)
    BY DEF IndInv, TypeOK, Frame
  <2>2. \A i \in 1 .. L : path[i] \in Frame
    BY <1>l, <2>1
  <2>3. QED
    BY <2>2 DEF Frame
<1>2. L <= Cardinality(Tables)
  <2> DEFINE f == [i \in 1 .. L |-> path[i].table]
  <2>1. f \in [1 .. L -> Tables]
    BY <1>1
  <2>2. \A i, j \in 1 .. L : i < j => f[i] # f[j]
    BY <1>l, ChainDistinct
  <2> HIDE DEF f
  <2>3. QED
    BY <2>1, <2>2, Pigeons
<1>3. ASSUME PrintNested
      PROVE  L + 1 <= Cardinality(Tables)
  <2> DEFINE t == Rendered(Here).nested
             f == [i \in 1 .. L + 1 |-> IF i = L + 1 THEN t ELSE path[i].table]
  <2>1. t \in Tables
    BY <1>3, NestedIsTable DEF IndInv, PrintNested
  <2>2. f \in [1 .. L + 1 -> Tables]
    BY <1>1, <2>1
  <2>3. /\ \A i, j \in 1 .. L : i < j => path[i].table # path[j].table
        /\ \A i \in 1 .. L : path[i].table # t
    BY <1>l, <1>3, ChainDistinct
  <2> HIDE DEF t
  <2>4. \A i, j \in 1 .. L + 1 : i < j => f[i] # f[j]
    BY <2>3
  <2> HIDE DEF f
  <2>5. QED
    BY <2>2, <2>4, Pigeons
<1>4. QED
  BY <1>l, <1>2, <1>3

(* Lists, rings and trees without branches are printed to their end, on a  *)
(* C stack with room for one call of table_tostring for each table.        *)
THEOREM ChainsEnd ==
  ASSUME IsFiniteSet(Tables), Cardinality(Tables) <= MaxDepth
  PROVE  Spec => []ChainsArePrinted
<1> DEFINE Goes == Chains => status = "running"
<1>1. Init => ChainInv /\ Goes
  BY DEF Init, ChainInv, Printing
<1>2. IndInv /\ RepeatInv /\ ChainInv /\ Goes /\ [Next]_vars => Goes'
  <2> SUFFICES ASSUME IndInv, RepeatInv, ChainInv, Goes, [Next]_vars, Chains'
               PROVE  status' = "running"
    OBVIOUS
  <2>1. contents' = contents
    BY DEF Next, vars, BeginPrint, PrintPlain, Step, PrintElement, PrintNested,
       EndTable, Stopped
  <2>2. Chains /\ status = "running"
    BY <2>1 DEF Chains
  <2>3. CASE UNCHANGED status
    BY <2>2, <2>3
  <2>4. ASSUME NEW t \in Tables, BeginPrint(t) PROVE status' = "running"
    BY <2>2, <2>4, TablePrintAssumption DEF BeginPrint, Enter
  <2>5. CASE PrintNested
    <3>1. Len(path) < MaxDepth
      <4>1. Len(path) + 1 <= Cardinality(Tables)
        BY <2>2, <2>5, ChainFits
      <4>2. Cardinality(Tables) \in Nat /\ MaxDepth \in Nat /\ Len(path) \in Nat
        BY FS_CardinalityType, TablePrintAssumption DEF IndInv, TypeOK
      <4>3. QED
        BY <4>1, <4>2
    <3>2. QED
      BY <2>2, <2>5, <3>1 DEF PrintNested, Enter
  <2>6. QED
    BY <2>3, <2>4, <2>5 DEF Next, Step, PrintPlain, PrintElement, EndTable, Stopped,
       vars
<1>3. IndInv /\ RepeatInv /\ ChainInv /\ Goes => ChainsArePrinted
  BY ChainFits DEF ChainsArePrinted
<1>4. QED
  BY <1>1, <1>2, <1>3, RepeatInvariant, ChainStep, PTL DEF Spec

=============================================================================
