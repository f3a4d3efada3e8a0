----------------------------- MODULE TablePrint -----------------------------
(***************************************************************************)
(* Printing tables (table_tostring of dispatcher.c).  A table may contain  *)
(* itself; an element that is a table is therefore not always printed: it  *)
(* is replaced by "<index>" when it is                                     *)
(*    - the table whose element it is,                                     *)
(*    - general, the table with which printing has started, or             *)
(*    - on a list of the tables that are being printed, table_list.        *)
(* A table is printed by print(), after which printing starts anew, or in  *)
(* a warning that it has no such element, after which it does not.  The    *)
(* list is emptied whenever any table ends, nested or not.                 *)
(*                                                                         *)
(* What tables contain does not change while they are printed; here it     *)
(* does not change between one print and the next either.  An element is a *)
(* key and a value, each a table or Plain, that is, anything else.  path   *)
(* is the C stack: the calls of table_tostring that have not returned.     *)
(***************************************************************************)
EXTENDS Integers, Sequences, FiniteSets

CONSTANTS
  Tables,
  Plain,     \* a key or a value that is no table
  Null,      \* no table
  Heaps,     \* what the tables may contain: their elements, as they are visited
  MaxDepth,  \* bound: calls of table_tostring that the C stack has room for
  MaxPrints  \* bound: values that the program prints, warnings included

Element == [key : Tables \cup {Plain}, value : Tables \cup {Plain}]

ASSUME TablePrintAssumption ==
  /\ Plain \notin Tables /\ Null \notin Tables /\ Plain # Null
  /\ Heaps \subseteq [Tables -> Seq(Element)]
  /\ MaxDepth \in Nat \ {0} /\ MaxPrints \in Nat

VARIABLES
  contents,    \* table -> its elements
  start,
  general,
  table_list,  \* the list behind table_list_head
  path,        \* outermost first: the table, its next element, and a history
               \* variable: whether a table has been printed inside of it
  caller,      \* of the outermost table_tostring: "print" or "warning"
  warned,      \* history: a warning has printed a table after the last print()
  prints,      \* values that have been printed, or have begun to be
  status       \* "running", or "exhausted": the C stack has ended

printing == <<start, general, table_list, path>>
vars     == <<contents, printing, caller, warned, prints, status>>

Init ==
  /\ contents \in Heaps
  /\ start = FALSE /\ general = Null /\ table_list = <<>> /\ path = <<>>
  /\ caller = "print" /\ warned = FALSE /\ prints = 0 /\ status = "running"

-----------------------------------------------------------------------------

Printing == path # <<>>
Top      == path[Len(path)]
Current  == Top.table
AtEnd    == Top.next > Len(contents[Current])
Here     == contents[Current][Top.next]

(* All of the list counts but its last table, which is the current one.    *)
check_preced(t) ==
  \E i \in 1 .. Len(table_list) - 1 : table_list[i] = t

(* A wrong Known: the list is not looked at. *)
KnownDirect(t) == t = general \/ t = Current

(* An element with any other key. *)
Known(t) == t = general \/ t = Current \/ check_preced(t)

(* Two tables, a before b, of an element of tableIndexed.                  *)
Only(a, b) ==
  \/ a = general /\ b # general
  \/ a = Current /\ b # Current
  \/ check_preced(a) /\ ~check_preced(b)

(* A wrong Rendered: an element without a table is taken for one.          *)
RenderedUnchecked(e) ==
  IF e.key = Plain
  THEN [index |-> {}, nested |-> e.value] ELSE [index |-> {e.key}, nested |-> Null]

(* What an element is made into: the tables that "<index>" stands for, and *)
(* the one that is printed inside, or Null.                                *)
Rendered(e) ==
  LET Text(index, nested) == [index |-> index, nested |-> nested] IN
  CASE e.key = Plain /\ e.value = Plain -> Text({}, Null)
    [] e.key = Plain /\ e.value # Plain ->
         IF Known(e.value) THEN Text({e.value}, Null) ELSE Text({}, e.value)
    [] e.key # Plain /\ e.value = Plain ->
         IF e.key \in {general, Current} THEN Text({e.key}, Null)
         ELSE Text({}, e.key)
    [] e.key # Plain /\ e.value # Plain ->
         IF Only(e.value, e.key) THEN Text({e.value}, e.key)
         ELSE IF Only(e.key, e.value) THEN Text({e.key}, e.value)
         ELSE Text({e.key, e.value}, Null)

-----------------------------------------------------------------------------
(* table_tostring, from its entry on. *)
Enter(t, callers) ==
  IF Len(callers) < MaxDepth
  THEN /\ path' = Append(callers, [table |-> t, next |-> 1, nested |-> FALSE])
       /\ start' = TRUE
       /\ general' = IF start THEN general ELSE t
       /\ table_list' = Append(table_list, t)
       /\ UNCHANGED status
  ELSE status' = "exhausted" /\ UNCHANGED printing

CanPrint == ~Printing /\ prints < MaxPrints /\ prints' = prints + 1

(* The program prints a table, or reads an element that is not there (the  *)
(* table, and then the index if it is a table, are printed).               *)
BeginPrint(t) ==
  /\ CanPrint
  /\ caller' \in {"print", "warning"}
  /\ Enter(t, <<>>)
  /\ UNCHANGED <<contents, warned>>

(* The program prints anything else. *)
PrintPlain ==
  /\ CanPrint
  /\ start' = FALSE /\ warned' = FALSE
  /\ UNCHANGED <<contents, general, table_list, path, caller, status>>

Running == status = "running" /\ Printing

Visit == Running /\ ~AtEnd

NextElement == [path EXCEPT ![Len(path)].next = @ + 1]

(* An element without a table, or with one that "<index>" stands for. *)
PrintElement ==
  /\ Visit /\ Rendered(Here).nested = Null
  /\ path' = NextElement
  /\ UNCHANGED <<contents, start, general, table_list, caller, warned, prints, status>>

PrintNested ==
  /\ Visit /\ Rendered(Here).nested # Null
  /\ Enter(Rendered(Here).nested, path)
  /\ UNCHANGED <<contents, caller, warned, prints>>

Callers   == SubSeq(path, 1, Len(path) - 1)
Outermost == Callers = <<>>

(* The caller goes on with its next element. *)
Return ==
  path' = IF Outermost THEN <<>>
          ELSE [Callers EXCEPT ![Len(Callers)] =
                  [table |-> @.table, next |-> @.next + 1, nested |-> TRUE]]

(* A wrong Restart: nobody does. *)
RestartNever == UNCHANGED start

(* print() resets start, a warning does not. *)
Restart == start' = (start /\ ~(Outermost /\ caller = "print"))

(* A wrong EndTable: the list is kept. *)
EndTableKeepsList ==
  /\ Running /\ AtEnd
  /\ Return /\ Restart
  /\ warned' = IF Outermost THEN caller = "warning" ELSE warned
  /\ UNCHANGED <<contents, general, table_list, caller, prints, status>>

(* reset_table_list, and back to the caller. *)
EndTable ==
  /\ Running /\ AtEnd
  /\ Return /\ Restart
  /\ warned' = IF Outermost THEN caller = "warning" ELSE warned
  /\ table_list' = <<>>
  /\ UNCHANGED <<contents, general, caller, prints, status>>

(* All has been printed, or the process has died. *)
Stopped ==
  /\ status = "exhausted" \/ (~Printing /\ prints = MaxPrints)
  /\ UNCHANGED vars

Step == PrintElement \/ PrintNested \/ EndTable

Next == (\E t \in Tables : BeginPrint(t)) \/ PrintPlain \/ Step \/ Stopped

Spec == Init /\ [][Next]_vars

-----------------------------------------------------------------------------
(* Correctness *)

TypeOK ==
  /\ contents \in Heaps
  /\ start \in BOOLEAN /\ warned \in BOOLEAN
  /\ general \in Tables \cup {Null} /\ (start => general # Null)
  /\ caller \in {"print", "warning"}
  /\ table_list \in Seq(Tables)
  /\ path \in Seq([table : Tables, next : Nat \ {0}, nested : BOOLEAN])
  /\ prints \in Nat
  /\ status \in {"running", "exhausted"}

OnPath(t) == \E i \in DOMAIN path : path[i].table = t

(* The list is made of the innermost tables that are being printed: it     *)
(* never holds one whose printing has ended, which would then be left out  *)
(* of the text, and never one twice more than the calls do.                *)
ListIsEndOfPath ==
  LET n == Len(path) - Len(table_list) IN
  /\ n >= 0
  /\ \A i \in 1 .. Len(table_list) : table_list[i] = path[n + i].table

BothTables(e) == e.key # Plain /\ e.value # Plain

(* "<index>" stands for a table that is being printed around it; after a   *)
(* warning, also for the table of the first one since the last print(),    *)
(* and in an element whose key and value are both tables it may stand for  *)
(* one that is printed nowhere.                                            *)
IndexMeansEnclosing ==
  Visit /\ ~BothTables(Here) =>
    \A t \in Rendered(Here).index : OnPath(t) \/ (warned /\ t = general)

(* A table is printed inside of itself only when a table nested in it or   *)
(* deeper has ended in between, so that it has been forgotten, or by way   *)
(* of a key.                                                               *)
Repeats(i, j) == i < j /\ path[i].table = path[j].table

ByKey(i) == contents[path[i].table][path[i].next].key # Plain

RepeatsOnlyIfForgotten ==
  \A i, j \in DOMAIN path :
    Repeats(i, j) => \E m \in i .. j - 1 : path[m].nested \/ ByKey(m)

(* Tables in which printing nests at most once, and never through a key:   *)
(* a list, a ring, a tree without branches.                                *)
Chains ==
  \A t \in Tables :
    /\ \A i \in DOMAIN contents[t] : contents[t][i].key = Plain
    /\ Cardinality({i \in DOMAIN contents[t] : contents[t][i].value # Plain}) <= 1

(* The C stack suffices for such tables, rings included, whatever has been *)
(* printed before: calls of table_tostring are nested no deeper than there *)
(* are tables.                                                             *)
ChainsArePrinted ==
  Chains => /\ status = "running"
            /\ Len(path) <= Cardinality(Tables)

=============================================================================
