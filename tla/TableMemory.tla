---------------------------- MODULE TableMemory ----------------------------
(***************************************************************************)
(* Tables as a program sees them: a table that a variable leads to has the *)
(* elements that were last set, and no table ever goes away.  Nothing is   *)
(* counted or destroyed.  Of a table that no variable leads to nothing is  *)
(* kept, because no program can tell.                                      *)
(***************************************************************************)
EXTENDS FiniteSets

CONSTANTS Slots, Tables, Keys, Plain

VARIABLES
  var,  \* the table each slot holds, or Plain
  obj   \* the elements: <<table, key, value>>

(* The tables that the slots hold, and the keys and values of these, and   *)
(* so on: the least set that is closed.                                    *)
Reachable(v, o) ==
  {t \in Tables :
     \A R \in SUBSET Tables :
       /\ \A s \in Slots : v[s] \in Tables => v[s] \in R
       /\ \A e \in o : e[1] \in R => {e[2], e[3]} \cap Tables \subseteq R
       => t \in R}

Visible(v, o) == {e \in o : e[1] \in Reachable(v, o)}

Init == var = [s \in Slots |-> Plain] /\ obj = {}

(* A variable receives a table, a new one perhaps, or something else. *)
Write(s, x) ==
  /\ var' = [var EXCEPT ![s] = x]
  /\ obj' = Visible(var', obj)

Set(t, k, x) ==
  /\ {t, k, x} \cap Tables \subseteq Reachable(var, obj)
  /\ obj' = Visible(var, {e \in obj : ~(e[1] = t /\ e[2] = k)} \cup {<<t, k, x>>})
  /\ UNCHANGED var

Next ==
  \/ \E s \in Slots, x \in Tables \cup {Plain} : Write(s, x)
  \/ \E t \in Tables, k \in Keys, x \in Tables \cup {Plain} : Set(t, k, x)

vars == <<var, obj>>

Spec == Init /\ [][Next]_vars

=============================================================================
