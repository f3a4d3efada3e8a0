---------------------------- MODULE MCTablePrint ----------------------------
(***************************************************************************)
(* All heaps of three tables with up to two elements each that have no     *)
(* table for a key, and all in which one table has up to two elements of   *)
(* any kind and another has one.                                           *)
(***************************************************************************)
EXTENDS TablePrint, TLC

CONSTANTS t1, t2, t3

MCUpTo2(S) == {<<>>} \cup {<<e>> : e \in S} \cup {<<e, f>> : e, f \in S}

MCPlainKeys == [Tables -> MCUpTo2([key : {Plain}, value : Tables])]

MCAny == [key : {t1, t2, Plain}, value : {t1, t2, Plain}]
MCTableKeys ==
  {(t1 :> a) @@ (t2 :> b) @@ (t3 :> <<>>) :
     a \in MCUpTo2(MCAny), b \in {<<>>} \cup {<<e>> : e \in MCAny}}

MCHeaps == MCPlainKeys \cup MCTableKeys

=============================================================================
