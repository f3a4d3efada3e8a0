-------------------------- MODULE BinaryFileProofs --------------------------
(***************************************************************************)
(* From the parser's operands to the machine's: the tables of the target   *)
(* grow quad by quad, and operands that are there keep their meaning; the  *)
(* file is read back as it was written; globals are counted.               *)
(***************************************************************************)
EXTENDS BinaryFile, ExpressionsProofs

-----------------------------------------------------------------------------
(* Tables without duplicates that grow *)

Prefix(s, u) == Len(s) <= Len(u) /\ \A i \in 1 .. Len(s) : u[i] = s[i]

(* u is s, with x in it. *)
Entered(S, s, u, x) ==
  u \in Seq(S) /\ IsInjective(u) /\ Prefix(s, u) /\ x \in Range(u)

LEMMA PutFacts ==
  ASSUME NEW S, NEW s \in Seq(S), IsInjective(s), NEW x \in S
  PROVE  Entered(S, s, Put(s, x), x)
<1>1. DOMAIN s = 1 .. Len(s) /\ Len(s) \in Nat
  OBVIOUS
<1>2. CASE x \in Range(s)
  BY <1>1, <1>2 DEF Put, Entered, Prefix
<1>3. CASE x \notin Range(s)
  <2> DEFINE u == Append(s, x)
  <2>1. /\ u \in Seq(S) /\ Len(u) = Len(s) + 1 /\ u[Len(s) + 1] = x
        /\ \A i \in 1 .. Len(s) : u[i] = s[i]
        /\ DOMAIN u = 1 .. Len(s) + 1
    BY <1>1
  <2> HIDE DEF u
  <2>2. \A i \in 1 .. Len(s) : s[i] # x
    BY <1>1, <1>3 DEF Range
  <2>3. IsInjective(u)
    <3> SUFFICES ASSUME NEW i \in 1 .. Len(s) + 1, NEW j \in 1 .. Len(s) + 1, u[i] = u[j]
                 PROVE  i = j
      BY <2>1 DEF IsInjective
    <3>1. CASE i \in 1 .. Len(s) /\ j \in 1 .. Len(s)
      BY <1>1, <2>1, <3>1 DEF IsInjective
    <3>2. CASE i = Len(s) + 1 /\ j \in 1 .. Len(s)
      BY <2>1, <2>2, <3>2
    <3>3. CASE i \in 1 .. Len(s) /\ j = Len(s) + 1
      BY <2>1, <2>2, <3>3
    <3>4. QED
      BY <1>1, <3>1, <3>2, <3>3
  <2>4. x \in Range(u)
    BY <1>1, <2>1 DEF Range
  <2>5. Prefix(s, u)
    BY <1>1, <2>1 DEF Prefix
  <2>6. Put(s, x) = u
    BY <1>3 DEF Put, u
  <2>7. QED
    BY <2>1, <2>3, <2>4, <2>5, <2>6 DEF Entered
<1>4. QED
  BY <1>2, <1>3

LEMMA PlaceFacts ==
  ASSUME NEW S, NEW s \in Seq(S), NEW x \in Range(s)
  PROVE  Place(s, x) \in Int /\ Place(s, x) + 1 \in 1 .. Len(s) /\ s[Place(s, x) + 1] = x
<1>1. \E i \in DOMAIN s : s[i] = x
  BY DEF Range
<1> DEFINE i == CHOOSE i \in DOMAIN s : s[i] = x
<1>2. i \in DOMAIN s /\ s[i] = x
  BY <1>1
<1> HIDE DEF i
<1>3. i \in 1 .. Len(s) /\ Len(s) \in Nat
  BY <1>2
<1>4. Place(s, x) = i - 1
  BY DEF Place, i
<1>5. QED
  BY <1>2, <1>3, <1>4

(* The table of functions, which are told apart by their addresses.        *)
FuncSet == [id : Int, address : Nat, localSize : Nat]

Apart(s) == \A i, j \in 1 .. Len(s) : s[i].address = s[j].address => i = j

AddressIn(s, a) == \E i \in 1 .. Len(s) : s[i].address = a

FuncEntered(s, u, x) ==
  /\ u \in Seq(FuncSet) /\ Apart(u) /\ Prefix(s, u) /\ AddressIn(u, x.address)
  /\ \A i \in 1 .. Len(u) : i \in 1 .. Len(s) \/ u[i] = x

LEMMA PutFuncFacts ==
  ASSUME NEW s \in Seq(FuncSet), Apart(s), NEW x \in FuncSet
  PROVE  FuncEntered(s, PutFunc(s, x), x)
<1>1. DOMAIN s = 1 .. Len(s) /\ Len(s) \in Nat
  OBVIOUS
<1>2. CASE \E i \in DOMAIN s : s[i].address = x.address
  BY <1>1, <1>2 DEF PutFunc, FuncEntered, Prefix, AddressIn
<1>3. CASE ~\E i \in DOMAIN s : s[i].address = x.address
  <2> DEFINE u == Append(s, x)
  <2>1. /\ u \in Seq(FuncSet) /\ Len(u) = Len(s) + 1 /\ u[Len(s) + 1] = x
        /\ \A i \in 1 .. Len(s) : u[i] = s[i]
    BY <1>1
  <2> HIDE DEF u
  <2>2. \A i \in 1 .. Len(s) : s[i].address # x.address
    BY <1>1, <1>3
  <2>3. Apart(u)
    <3> SUFFICES ASSUME NEW i \in 1 .. Len(s) + 1, NEW j \in 1 .. Len(s) + 1,
                        u[i].address = u[j].address
                 PROVE  i = j
      BY <2>1 DEF Apart
    <3>1. CASE i \in 1 .. Len(s) /\ j \in 1 .. Len(s)
      BY <1>1, <2>1, <3>1 DEF Apart
    <3>2. CASE i = Len(s) + 1 /\ j \in 1 .. Len(s)
      BY <2>1, <2>2, <3>2
    <3>3. CASE i \in 1 .. Len(s) /\ j = Len(s) + 1
      BY <2>1, <2>2, <3>3
    <3>4. QED
      BY <1>1, <3>1, <3>2, <3>3
  <2>4. AddressIn(u, x.address) /\ Prefix(s, u)
    BY <1>1, <2>1 DEF AddressIn, Prefix
  <2>5. \A i \in 1 .. Len(u) : i \in 1 .. Len(s) \/ u[i] = x
    BY <1>1, <2>1
  <2>6. PutFunc(s, x) = u
    BY <1>3 DEF PutFunc, u
  <2>7. QED
    BY <2>1, <2>3, <2>4, <2>5, <2>6 DEF FuncEntered
<1>4. QED
  BY <1>2, <1>3

LEMMA PlaceFuncFacts ==
  ASSUME NEW s \in Seq(FuncSet), NEW x, AddressIn(s, x.address)
  PROVE  /\ PlaceFunc(s, x) \in Int /\ PlaceFunc(s, x) + 1 \in 1 .. Len(s)
         /\ s[PlaceFunc(s, x) + 1].address = x.address
<1>1. \E i \in DOMAIN s : s[i].address = x.address
  BY DEF AddressIn
<1> DEFINE i == CHOOSE i \in DOMAIN s : s[i].address = x.address
<1>2. i \in DOMAIN s /\ s[i].address = x.address
  BY <1>1
<1> HIDE DEF i
<1>3. i \in 1 .. Len(s) /\ Len(s) \in Nat
  BY <1>2
<1>4. PlaceFunc(s, x) = i - 1
  BY DEF PlaceFunc, i
<1>5. QED
  BY <1>2, <1>3, <1>4

-----------------------------------------------------------------------------
(* What the tables of the target hold *)

OperandTypes ==
  {"number", "string", "lib", "user", "program", "local", "formal", "retval", "255", "label"}
OperandSet == [type : OperandTypes, val : Int]
Instrs     == (Ops \cup {"jump"}) \X OperandSet \X OperandSet \X OperandSet
Addresses  == UNION {[D -> Nat] : D \in SUBSET Int}

TargetSet ==
  [instructions : Seq(Instrs), numConsts : Seq(Int), stringConsts : Seq(Int),
   userFuncs : Seq(FuncSet), namedLibfuncs : Seq(Int), globals : Nat,
   namedVarNames : SUBSET Int, t_address : Addresses]

FuncOK(c, t, x) ==
  /\ x.id \in DOMAIN t.t_address /\ x.address = t.t_address[x.id]
  /\ x.localSize = c.functions[x.id].total_locals

TablesOK(c, t) ==
  /\ t \in TargetSet
  /\ IsInjective(t.numConsts) /\ IsInjective(t.stringConsts) /\ IsInjective(t.namedLibfuncs)
  /\ Apart(t.userFuncs)
  /\ \A i \in 1 .. Len(t.userFuncs) : FuncOK(c, t, t.userFuncs[i])

(* Functions begin at different addresses. *)
StartsApart(t) ==
  \A f, g \in DOMAIN t.t_address : t.t_address[f] = t.t_address[g] => f = g

Extends(t, u) ==
  /\ Prefix(t.numConsts, u.numConsts) /\ Prefix(t.stringConsts, u.stringConsts)
  /\ Prefix(t.userFuncs, u.userFuncs) /\ Prefix(t.namedLibfuncs, u.namedLibfuncs)
  /\ t.namedVarNames \subseteq u.namedVarNames
  /\ DOMAIN t.t_address \subseteq DOMAIN u.t_address
  /\ \A f \in DOMAIN t.t_address : u.t_address[f] = t.t_address[f]

OperandIn(c) == ExprIn(c) \cup {Retval}

(* e has an entry. *)
NotedIn(c, t, e) ==
  /\ e.type = "number" => e.val \in Range(t.numConsts)
  /\ e.type = "string" => e.val \in Range(t.stringConsts)
  /\ e.type = "lib" => e.val \in Range(t.namedLibfuncs)
  /\ e.type = "user" => /\ e.val \in DOMAIN t.t_address
                        /\ AddressIn(t.userFuncs, t.t_address[e.val])
  /\ OfSymbol(e) => c.symbols[e.val].name \in t.namedVarNames

(* op stands for e. *)
Fits(c, t, e, op) ==
  /\ e.type = "number" => /\ op.type = "number" /\ op.val + 1 \in 1 .. Len(t.numConsts)
                          /\ t.numConsts[op.val + 1] = e.val
  /\ e.type = "string" => /\ op.type = "string" /\ op.val + 1 \in 1 .. Len(t.stringConsts)
                          /\ t.stringConsts[op.val + 1] = e.val
  /\ e.type = "lib" => /\ op.type = "lib" /\ op.val + 1 \in 1 .. Len(t.namedLibfuncs)
                       /\ t.namedLibfuncs[op.val + 1] = e.val
  /\ e.type = "user" => /\ op.type = "user" /\ op.val + 1 \in 1 .. Len(t.userFuncs)
                        /\ t.userFuncs[op.val + 1].id = e.val
  /\ OfSymbol(e) => /\ op = [type |-> c.symbols[e.val].space, val |-> c.symbols[e.val].offset]
                    /\ c.symbols[e.val].name \in t.namedVarNames
  /\ e.type = "retval" => op = [type |-> "retval", val |-> 0]
  /\ e.type = "null" => op = [type |-> "255", val |-> -1]

(* Variables are counted when their name is new. *)
CountedIn(c, t, u) ==
  \/ u.globals = t.globals /\ u.namedVarNames = t.namedVarNames
  \/ \E s \in DOMAIN c.symbols :
       /\ u.namedVarNames = t.namedVarNames \cup {c.symbols[s].name}
       /\ u.globals = IF c.symbols[s].space = "program" /\ c.symbols[s].name \notin t.namedVarNames
                      THEN t.globals + 1 ELSE t.globals

NoteStep(c, t, u, e) ==
  /\ TablesOK(c, u) /\ Extends(t, u) /\ NotedIn(c, u, e) /\ CountedIn(c, t, u)
  /\ u.instructions = t.instructions /\ u.t_address = t.t_address

LEMMA PrefixSame ==
  ASSUME NEW s, Len(s) \in Nat
  PROVE  Prefix(s, s)
BY DEF Prefix

LEMMA PrefixTrans ==
  ASSUME NEW s, NEW t, NEW u, Prefix(s, t), Prefix(t, u), Len(s) \in Nat, Len(t) \in Nat,
         Len(u) \in Nat
  PROVE  Prefix(s, u)
<1>1. Len(s) <= Len(t) /\ Len(t) <= Len(u)
  BY DEF Prefix
<1>2. ASSUME NEW i \in 1 .. Len(s) PROVE u[i] = s[i]
  BY <1>1 DEF Prefix
<1>3. QED
  BY <1>1, <1>2 DEF Prefix

LEMMA PrefixAt ==
  ASSUME NEW s, NEW u, Prefix(s, u), Len(s) \in Nat, Len(u) \in Nat
  PROVE  \A i : i \in 1 .. Len(s) => i \in 1 .. Len(u) /\ u[i] = s[i]
BY DEF Prefix

LEMMA TargetTypes ==
  ASSUME NEW t \in TargetSet
  PROVE  /\ t.instructions \in Seq(Instrs) /\ t.numConsts \in Seq(Int)
         /\ t.stringConsts \in Seq(Int) /\ t.userFuncs \in Seq(FuncSet)
         /\ t.namedLibfuncs \in Seq(Int) /\ t.globals \in Nat
         /\ t.namedVarNames \in SUBSET Int /\ t.t_address \in Addresses
         /\ Len(t.instructions) \in Nat /\ Len(t.numConsts) \in Nat
         /\ Len(t.stringConsts) \in Nat /\ Len(t.userFuncs) \in Nat
         /\ Len(t.namedLibfuncs) \in Nat
         /\ \A f \in DOMAIN t.t_address : f \in Int /\ t.t_address[f] \in Nat
<1>1. /\ t.instructions \in Seq(Instrs) /\ t.numConsts \in Seq(Int)
      /\ t.stringConsts \in Seq(Int) /\ t.userFuncs \in Seq(FuncSet)
      /\ t.namedLibfuncs \in Seq(Int) /\ t.globals \in Nat
      /\ t.namedVarNames \in SUBSET Int /\ t.t_address \in Addresses
  BY DEF TargetSet
<1>2. /\ Len(t.instructions) \in Nat /\ Len(t.numConsts) \in Nat
      /\ Len(t.stringConsts) \in Nat /\ Len(t.userFuncs) \in Nat
      /\ Len(t.namedLibfuncs) \in Nat
  BY <1>1
<1>3. PICK D \in SUBSET Int : t.t_address \in [D -> Nat]
  BY <1>1 DEF Addresses
<1>4. QED
  BY <1>1, <1>2, <1>3

LEMMA ExtendsOrder ==
  ASSUME NEW t \in TargetSet, NEW u \in TargetSet, NEW v \in TargetSet
  PROVE  Extends(t, t) /\ (Extends(t, u) /\ Extends(u, v) => Extends(t, v))
<1>1. Extends(t, t)
  BY TargetTypes, PrefixSame, PrefixTrans DEF Extends
<1>2. ASSUME Extends(t, u), Extends(u, v) PROVE Extends(t, v)
  <2>1. Prefix(t.numConsts, v.numConsts) /\ Prefix(t.stringConsts, v.stringConsts)
    BY <1>2, TargetTypes, PrefixSame, PrefixTrans DEF Extends
  <2>2. Prefix(t.userFuncs, v.userFuncs) /\ Prefix(t.namedLibfuncs, v.namedLibfuncs)
    BY <1>2, TargetTypes, PrefixSame, PrefixTrans DEF Extends
  <2>3. /\ t.namedVarNames \subseteq v.namedVarNames
        /\ DOMAIN t.t_address \subseteq DOMAIN v.t_address
        /\ \A f \in DOMAIN t.t_address : v.t_address[f] = t.t_address[f]
    BY <1>2 DEF Extends
  <2>4. QED
    BY <2>1, <2>2, <2>3 DEF Extends
<1>3. QED
  BY <1>1, <1>2

LEMMA RangeGrows ==
  ASSUME NEW S, NEW s \in Seq(S), NEW u \in Seq(S), Prefix(s, u)
  PROVE  Range(s) \subseteq Range(u)
BY DEF Range, Prefix

LEMMA NotedStays ==
  ASSUME NEW c, NEW t \in TargetSet, NEW u \in TargetSet, Extends(t, u), NEW e, NotedIn(c, t, e)
  PROVE  NotedIn(c, u, e)
<1>1. /\ Range(t.numConsts) \subseteq Range(u.numConsts)
      /\ Range(t.stringConsts) \subseteq Range(u.stringConsts)
      /\ Range(t.namedLibfuncs) \subseteq Range(u.namedLibfuncs)
  BY TargetTypes, RangeGrows DEF Extends
<1>2. \A a : AddressIn(t.userFuncs, a) => AddressIn(u.userFuncs, a)
  <2>1. Prefix(t.userFuncs, u.userFuncs) /\ Len(t.userFuncs) \in Nat /\ Len(u.userFuncs) \in Nat
    BY TargetTypes DEF Extends
  <2>2. QED
    BY <2>1 DEF Prefix, AddressIn
<1>3. /\ DOMAIN t.t_address \subseteq DOMAIN u.t_address
      /\ \A f \in DOMAIN t.t_address : u.t_address[f] = t.t_address[f]
      /\ t.namedVarNames \subseteq u.namedVarNames
  BY DEF Extends
<1>4. QED
  BY <1>1, <1>2, <1>3 DEF NotedIn

(* An operand stands for its expression, however the tables grow.         *)
LEMMA FitsStays ==
  ASSUME NEW c, NEW t \in TargetSet, NEW u \in TargetSet, Extends(t, u), NEW e, NEW op,
         Fits(c, t, e, op)
  PROVE  Fits(c, u, e, op)
<1>1. /\ \A i : i \in 1 .. Len(t.numConsts) =>
              i \in 1 .. Len(u.numConsts) /\ u.numConsts[i] = t.numConsts[i]
      /\ \A i : i \in 1 .. Len(t.stringConsts) =>
              i \in 1 .. Len(u.stringConsts) /\ u.stringConsts[i] = t.stringConsts[i]
  <2>1. Prefix(t.numConsts, u.numConsts) /\ Prefix(t.stringConsts, u.stringConsts)
    BY DEF Extends
  <2>2. /\ Len(t.numConsts) \in Nat /\ Len(u.numConsts) \in Nat
        /\ Len(t.stringConsts) \in Nat /\ Len(u.stringConsts) \in Nat
    BY TargetTypes
  <2>3. QED
    BY <2>1, <2>2, PrefixAt
<1>2. /\ \A i : i \in 1 .. Len(t.userFuncs) =>
              i \in 1 .. Len(u.userFuncs) /\ u.userFuncs[i] = t.userFuncs[i]
      /\ \A i : i \in 1 .. Len(t.namedLibfuncs) =>
              i \in 1 .. Len(u.namedLibfuncs) /\ u.namedLibfuncs[i] = t.namedLibfuncs[i]
  <2>1. Prefix(t.userFuncs, u.userFuncs) /\ Prefix(t.namedLibfuncs, u.namedLibfuncs)
    BY DEF Extends
  <2>2. /\ Len(t.userFuncs) \in Nat /\ Len(u.userFuncs) \in Nat
        /\ Len(t.namedLibfuncs) \in Nat /\ Len(u.namedLibfuncs) \in Nat
    BY TargetTypes
  <2>3. QED
    BY <2>1, <2>2, PrefixAt
<1>3. t.namedVarNames \subseteq u.namedVarNames
  BY DEF Extends
<1>4. e.type = "number" => /\ op.type = "number" /\ op.val + 1 \in 1 .. Len(u.numConsts)
                           /\ u.numConsts[op.val + 1] = e.val
  BY <1>1 DEF Fits
<1>5. e.type = "string" => /\ op.type = "string" /\ op.val + 1 \in 1 .. Len(u.stringConsts)
                           /\ u.stringConsts[op.val + 1] = e.val
  BY <1>1 DEF Fits
<1>6. e.type = "lib" => /\ op.type = "lib" /\ op.val + 1 \in 1 .. Len(u.namedLibfuncs)
                        /\ u.namedLibfuncs[op.val + 1] = e.val
  BY <1>2 DEF Fits
<1>7. e.type = "user" => /\ op.type = "user" /\ op.val + 1 \in 1 .. Len(u.userFuncs)
                         /\ u.userFuncs[op.val + 1].id = e.val
  BY <1>2 DEF Fits
<1>8. OfSymbol(e) => c.symbols[e.val].name \in u.namedVarNames
  BY <1>3 DEF Fits
<1>9. QED
  BY <1>4, <1>5, <1>6, <1>7, <1>8 DEF Fits

(* What an update of some tables leaves alone. *)
RestOf(t, u, F) ==
  /\ u \in TargetSet
  /\ "instructions" \notin F => u.instructions = t.instructions
  /\ "numConsts" \notin F => u.numConsts = t.numConsts
  /\ "stringConsts" \notin F => u.stringConsts = t.stringConsts
  /\ "userFuncs" \notin F => u.userFuncs = t.userFuncs
  /\ "namedLibfuncs" \notin F => u.namedLibfuncs = t.namedLibfuncs
  /\ "globals" \notin F => u.globals = t.globals
  /\ "namedVarNames" \notin F => u.namedVarNames = t.namedVarNames
  /\ "t_address" \notin F => u.t_address = t.t_address

LEMMA TargetUpdates ==
  ASSUME NEW t \in TargetSet
  PROVE  /\ \A x \in Seq(Int) : /\ RestOf(t, [t EXCEPT !.numConsts = x], {"numConsts"})
                                /\ [t EXCEPT !.numConsts = x].numConsts = x
         /\ \A x \in Seq(Int) : /\ RestOf(t, [t EXCEPT !.stringConsts = x], {"stringConsts"})
                                /\ [t EXCEPT !.stringConsts = x].stringConsts = x
         /\ \A x \in Seq(Int) : /\ RestOf(t, [t EXCEPT !.namedLibfuncs = x], {"namedLibfuncs"})
                                /\ [t EXCEPT !.namedLibfuncs = x].namedLibfuncs = x
         /\ \A x \in Seq(FuncSet) : /\ RestOf(t, [t EXCEPT !.userFuncs = x], {"userFuncs"})
                                    /\ [t EXCEPT !.userFuncs = x].userFuncs = x
         /\ \A x \in Seq(Instrs) : /\ RestOf(t, [t EXCEPT !.instructions = x], {"instructions"})
                                   /\ [t EXCEPT !.instructions = x].instructions = x
<1>1. ASSUME NEW x \in Seq(Int)
      PROVE  /\ RestOf(t, [t EXCEPT !.numConsts = x], {"numConsts"})
             /\ [t EXCEPT !.numConsts = x].numConsts = x
  <2> DEFINE u == [t EXCEPT !.numConsts = x]
  <2>1. u \in TargetSet /\ u.numConsts = x
    BY DEF TargetSet
  <2>2. /\ u.stringConsts = t.stringConsts /\ u.namedLibfuncs = t.namedLibfuncs
        /\ u.userFuncs = t.userFuncs /\ u.instructions = t.instructions
        /\ u.globals = t.globals /\ u.namedVarNames = t.namedVarNames
        /\ u.t_address = t.t_address
    BY DEF TargetSet
  <2>3. QED
    BY <2>1, <2>2 DEF RestOf
<1>2. ASSUME NEW x \in Seq(Int)
      PROVE  /\ RestOf(t, [t EXCEPT !.stringConsts = x], {"stringConsts"})
             /\ [t EXCEPT !.stringConsts = x].stringConsts = x
  <2> DEFINE u == [t EXCEPT !.stringConsts = x]
  <2>1. u \in TargetSet /\ u.stringConsts = x
    BY DEF TargetSet
  <2>2. /\ u.numConsts = t.numConsts /\ u.namedLibfuncs = t.namedLibfuncs
        /\ u.userFuncs = t.userFuncs /\ u.instructions = t.instructions
        /\ u.globals = t.globals /\ u.namedVarNames = t.namedVarNames
        /\ u.t_address = t.t_address
    BY DEF TargetSet
  <2>3. QED
    BY <2>1, <2>2 DEF RestOf
<1>3. ASSUME NEW x \in Seq(Int)
      PROVE  /\ RestOf(t, [t EXCEPT !.namedLibfuncs = x], {"namedLibfuncs"})
             /\ [t EXCEPT !.namedLibfuncs = x].namedLibfuncs = x
  <2> DEFINE u == [t EXCEPT !.namedLibfuncs = x]
  <2>1. u \in TargetSet /\ u.namedLibfuncs = x
    BY DEF TargetSet
  <2>2. /\ u.numConsts = t.numConsts /\ u.stringConsts = t.stringConsts
        /\ u.userFuncs = t.userFuncs /\ u.instructions = t.instructions
        /\ u.globals = t.globals /\ u.namedVarNames = t.namedVarNames
        /\ u.t_address = t.t_address
    BY DEF TargetSet
  <2>3. QED
    BY <2>1, <2>2 DEF RestOf
<1>4. ASSUME NEW x \in Seq(FuncSet)
      PROVE  /\ RestOf(t, [t EXCEPT !.userFuncs = x], {"userFuncs"})
             /\ [t EXCEPT !.userFuncs = x].userFuncs = x
  <2> DEFINE u == [t EXCEPT !.userFuncs = x]
  <2>1. u \in TargetSet /\ u.userFuncs = x
    BY DEF TargetSet
  <2>2. /\ u.numConsts = t.numConsts /\ u.stringConsts = t.stringConsts
        /\ u.namedLibfuncs = t.namedLibfuncs /\ u.instructions = t.instructions
        /\ u.globals = t.globals /\ u.namedVarNames = t.namedVarNames
        /\ u.t_address = t.t_address
    BY DEF TargetSet
  <2>3. QED
    BY <2>1, <2>2 DEF RestOf
<1>5. ASSUME NEW x \in Seq(Instrs)
      PROVE  /\ RestOf(t, [t EXCEPT !.instructions = x], {"instructions"})
             /\ [t EXCEPT !.instructions = x].instructions = x
  <2> DEFINE u == [t EXCEPT !.instructions = x]
  <2>1. u \in TargetSet /\ u.instructions = x
    BY DEF TargetSet
  <2>2. /\ u.numConsts = t.numConsts /\ u.stringConsts = t.stringConsts
        /\ u.namedLibfuncs = t.namedLibfuncs /\ u.userFuncs = t.userFuncs
        /\ u.globals = t.globals /\ u.namedVarNames = t.namedVarNames
        /\ u.t_address = t.t_address
    BY DEF TargetSet
  <2>3. QED
    BY <2>1, <2>2 DEF RestOf
<1>6. QED
  BY <1>1, <1>2, <1>3, <1>4, <1>5

(* Another number of globals and other names. *)
GlobalsSet(t, g, n) == [t EXCEPT !.globals = g, !.namedVarNames = n]

LEMMA GlobalsUpdate ==
  ASSUME NEW t \in TargetSet, NEW g \in Nat, NEW n \in SUBSET Int, NEW u,
         u = GlobalsSet(t, g, n)
  PROVE  RestOf(t, u, {"globals", "namedVarNames"}) /\ u.globals = g /\ u.namedVarNames = n
<1> USE DEF GlobalsSet
<1>1. u \in TargetSet /\ u.globals = g /\ u.namedVarNames = n
  BY DEF TargetSet
<1>2. /\ u.numConsts = t.numConsts /\ u.stringConsts = t.stringConsts
      /\ u.namedLibfuncs = t.namedLibfuncs /\ u.userFuncs = t.userFuncs
      /\ u.instructions = t.instructions /\ u.t_address = t.t_address
  BY DEF TargetSet
<1>3. QED
  BY <1>1, <1>2 DEF RestOf

(* Another instruction and other addresses. *)
AddressesSet(t, x, a) == [t EXCEPT !.instructions = x, !.t_address = a]

LEMMA AddressUpdate ==
  ASSUME NEW t \in TargetSet, NEW x \in Seq(Instrs), NEW a \in Addresses, NEW u,
         u = AddressesSet(t, x, a)
  PROVE  RestOf(t, u, {"instructions", "t_address"}) /\ u.instructions = x /\ u.t_address = a
<1> USE DEF AddressesSet
<1>1. u \in TargetSet /\ u.instructions = x /\ u.t_address = a
  BY DEF TargetSet
<1>2. /\ u.numConsts = t.numConsts /\ u.stringConsts = t.stringConsts
      /\ u.namedLibfuncs = t.namedLibfuncs /\ u.userFuncs = t.userFuncs
      /\ u.globals = t.globals /\ u.namedVarNames = t.namedVarNames
  BY DEF TargetSet
<1>3. QED
  BY <1>1, <1>2 DEF RestOf

-----------------------------------------------------------------------------
(* make_operand *)

LEMMA OperandKinds ==
  ASSUME NEW c, CodeOK(c), NEW e \in OperandIn(c)
  PROVE  /\ e.type \in {"number", "string", "lib", "user", "var", "element", "null", "retval"}
         /\ e.val \in Int
         /\ e.type = "user" => e.val \in DOMAIN c.functions
         /\ OfSymbol(e) => e.val \in DOMAIN c.symbols /\ c.symbols[e.val] \in SymbolSet
         /\ e.type \in {"number", "string", "lib", "user"} => e \in PlainIn(c)
<1>1. /\ c.symbols \in Seq(SymbolSet) /\ DOMAIN c.symbols = 1 .. Len(c.symbols)
      /\ Len(c.symbols) \in Nat
  BY CodeFields
<1>2. CASE e \in PlainIn(c)
  BY <1>1, <1>2 DEF PlainIn, ExprTypes, OfSymbol
<1>3. CASE e \in ItemIn(c)
  <2>1. e.type = "element" /\ e.val \in DOMAIN c.symbols
    BY <1>3 DEF ItemIn
  <2>2. QED
    BY <1>1, <2>1 DEF OfSymbol
<1>4. CASE e \in {None, Retval}
  BY <1>4 DEF None, Retval, Expr, OfSymbol
<1>5. QED
  BY <1>2, <1>3, <1>4 DEF OperandIn, ExprIn

(* Tables that a table has been added to are fine. *)
LEMMA StepFields ==
  ASSUME NEW c, NEW t, NEW u, TablesOK(c, t), u \in TargetSet,
         u.instructions = t.instructions, u.t_address = t.t_address,
         IsInjective(u.numConsts), Prefix(t.numConsts, u.numConsts),
         IsInjective(u.stringConsts), Prefix(t.stringConsts, u.stringConsts),
         IsInjective(u.namedLibfuncs), Prefix(t.namedLibfuncs, u.namedLibfuncs),
         Apart(u.userFuncs), Prefix(t.userFuncs, u.userFuncs),
         \A i \in 1 .. Len(u.userFuncs) : i \in 1 .. Len(t.userFuncs) \/ FuncOK(c, u, u.userFuncs[i]),
         t.namedVarNames \subseteq u.namedVarNames
  PROVE  TablesOK(c, u) /\ Extends(t, u)
<1>1. ASSUME NEW i \in 1 .. Len(u.userFuncs) PROVE FuncOK(c, u, u.userFuncs[i])
  <2>1. CASE i \in 1 .. Len(t.userFuncs)
    <3>1. u.userFuncs[i] = t.userFuncs[i] /\ FuncOK(c, t, t.userFuncs[i])
      BY <2>1 DEF Prefix, TablesOK
    <3>2. QED
      BY <3>1 DEF FuncOK
  <2>2. QED
    BY <2>1
<1>2. QED
  BY <1>1 DEF TablesOK, Extends

(* The tables as they are. *)
LEMMA TablesHere ==
  ASSUME NEW c, NEW t, TablesOK(c, t)
  PROVE  /\ t \in TargetSet /\ IsInjective(t.numConsts) /\ IsInjective(t.stringConsts)
         /\ IsInjective(t.namedLibfuncs) /\ Apart(t.userFuncs)
         /\ Prefix(t.numConsts, t.numConsts) /\ Prefix(t.stringConsts, t.stringConsts)
         /\ Prefix(t.namedLibfuncs, t.namedLibfuncs) /\ Prefix(t.userFuncs, t.userFuncs)
BY TargetTypes, PrefixSame DEF TablesOK

LEMMA NoteNumber ==
  ASSUME NEW c, NEW t, TablesOK(c, t), NEW e, e.type = "number", e.val \in Int
  PROVE  NoteStep(c, t, Note(t, e), e)
<1> DEFINE x == Put(t.numConsts, e.val)
           u == [t EXCEPT !.numConsts = x]
<1>1. Entered(Int, t.numConsts, x, e.val)
  BY TablesHere, TargetTypes, PutFacts
<1> HIDE DEF x
<1>2. RestOf(t, u, {"numConsts"}) /\ u.numConsts = x
  BY <1>1, TablesHere, TargetUpdates DEF Entered
<1>3. Note(t, e) = u
  BY DEF Note, OfSymbol, x
<1> HIDE DEF u
<1>4. /\ u \in TargetSet /\ u.instructions = t.instructions /\ u.stringConsts = t.stringConsts
      /\ u.userFuncs = t.userFuncs /\ u.namedLibfuncs = t.namedLibfuncs /\ u.globals = t.globals
      /\ u.namedVarNames = t.namedVarNames /\ u.t_address = t.t_address
  BY <1>2 DEF RestOf
<1>5. IsInjective(u.numConsts) /\ Prefix(t.numConsts, u.numConsts) /\ e.val \in Range(u.numConsts)
  BY <1>1, <1>2 DEF Entered
<1>6. TablesOK(c, u) /\ Extends(t, u)
  BY <1>4, <1>5, TablesHere, StepFields
<1>7. NotedIn(c, u, e)
  BY <1>5 DEF NotedIn, OfSymbol
<1>8. NoteStep(c, t, u, e)
  BY <1>4, <1>6, <1>7 DEF NoteStep, CountedIn
<1>9. QED
  BY <1>3, <1>8

LEMMA NoteString ==
  ASSUME NEW c, NEW t, TablesOK(c, t), NEW e, e.type = "string", e.val \in Int
  PROVE  NoteStep(c, t, Note(t, e), e)
<1> DEFINE x == Put(t.stringConsts, e.val)
           u == [t EXCEPT !.stringConsts = x]
<1>1. Entered(Int, t.stringConsts, x, e.val)
  BY TablesHere, TargetTypes, PutFacts
<1> HIDE DEF x
<1>2. RestOf(t, u, {"stringConsts"}) /\ u.stringConsts = x
  BY <1>1, TablesHere, TargetUpdates DEF Entered
<1>3. Note(t, e) = u
  BY DEF Note, OfSymbol, x
<1> HIDE DEF u
<1>4. /\ u \in TargetSet /\ u.instructions = t.instructions /\ u.numConsts = t.numConsts
      /\ u.userFuncs = t.userFuncs /\ u.namedLibfuncs = t.namedLibfuncs /\ u.globals = t.globals
      /\ u.namedVarNames = t.namedVarNames /\ u.t_address = t.t_address
  BY <1>2 DEF RestOf
<1>5. /\ IsInjective(u.stringConsts) /\ Prefix(t.stringConsts, u.stringConsts)
      /\ e.val \in Range(u.stringConsts)
  BY <1>1, <1>2 DEF Entered
<1>6. TablesOK(c, u) /\ Extends(t, u)
  BY <1>4, <1>5, TablesHere, StepFields
<1>7. NotedIn(c, u, e)
  BY <1>5 DEF NotedIn, OfSymbol
<1>8. NoteStep(c, t, u, e)
  BY <1>4, <1>6, <1>7 DEF NoteStep, CountedIn
<1>9. QED
  BY <1>3, <1>8

LEMMA NoteLib ==
  ASSUME NEW c, NEW t, TablesOK(c, t), NEW e, e.type = "lib", e.val \in Int
  PROVE  NoteStep(c, t, Note(t, e), e)
<1> DEFINE x == Put(t.namedLibfuncs, e.val)
           u == [t EXCEPT !.namedLibfuncs = x]
<1>1. Entered(Int, t.namedLibfuncs, x, e.val)
  BY TablesHere, TargetTypes, PutFacts
<1> HIDE DEF x
<1>2. RestOf(t, u, {"namedLibfuncs"}) /\ u.namedLibfuncs = x
  BY <1>1, TablesHere, TargetUpdates DEF Entered
<1>3. Note(t, e) = u
  BY DEF Note, OfSymbol, x
<1> HIDE DEF u
<1>4. /\ u \in TargetSet /\ u.instructions = t.instructions /\ u.numConsts = t.numConsts
      /\ u.userFuncs = t.userFuncs /\ u.stringConsts = t.stringConsts /\ u.globals = t.globals
      /\ u.namedVarNames = t.namedVarNames /\ u.t_address = t.t_address
  BY <1>2 DEF RestOf
<1>5. /\ IsInjective(u.namedLibfuncs) /\ Prefix(t.namedLibfuncs, u.namedLibfuncs)
      /\ e.val \in Range(u.namedLibfuncs)
  BY <1>1, <1>2 DEF Entered
<1>6. TablesOK(c, u) /\ Extends(t, u)
  BY <1>4, <1>5, TablesHere, StepFields
<1>7. NotedIn(c, u, e)
  BY <1>5 DEF NotedIn, OfSymbol
<1>8. NoteStep(c, t, u, e)
  BY <1>4, <1>6, <1>7 DEF NoteStep, CountedIn
<1>9. QED
  BY <1>3, <1>8

LEMMA NoteUser ==
  ASSUME CodeOK(code), NEW t, TablesOK(code, t), NEW e, e.type = "user",
         e.val \in DOMAIN code.functions, e.val \in DOMAIN t.t_address
  PROVE  NoteStep(code, t, Note(t, e), e)
<1> DEFINE f == UserFunc(t, e.val)
           x == PutFunc(t.userFuncs, f)
           u == [t EXCEPT !.userFuncs = x]
<1>1. f \in FuncSet /\ FuncOK(code, t, f) /\ f.address = t.t_address[e.val]
  <2>1. code.functions[e.val] \in FunctionSet
    BY CodeFields
  <2>2. code.functions[e.val].total_locals \in Nat
    BY <2>1 DEF FunctionSet
  <2>3. e.val \in Int /\ t.t_address[e.val] \in Nat
    BY TargetTypes, TablesHere
  <2>4. QED
    BY <2>2, <2>3 DEF UserFunc, FuncSet, FuncOK
<1>2. Note(t, e) = u
  BY DEF Note, OfSymbol
<1> HIDE DEF f
<1>3. FuncEntered(t.userFuncs, x, f)
  BY <1>1, TablesHere, TargetTypes, PutFuncFacts
<1> HIDE DEF x
<1>4. RestOf(t, u, {"userFuncs"}) /\ u.userFuncs = x
  BY <1>3, TablesHere, TargetUpdates DEF FuncEntered
<1> HIDE DEF u
<1>5. /\ u \in TargetSet /\ u.instructions = t.instructions /\ u.numConsts = t.numConsts
      /\ u.namedLibfuncs = t.namedLibfuncs /\ u.stringConsts = t.stringConsts /\ u.globals = t.globals
      /\ u.namedVarNames = t.namedVarNames /\ u.t_address = t.t_address
  BY <1>4 DEF RestOf
<1>6. /\ Apart(u.userFuncs) /\ Prefix(t.userFuncs, u.userFuncs) /\ AddressIn(u.userFuncs, f.address)
      /\ \A i \in 1 .. Len(u.userFuncs) : i \in 1 .. Len(t.userFuncs) \/ u.userFuncs[i] = f
  BY <1>3, <1>4 DEF FuncEntered
<1>7. FuncOK(code, u, f)
  BY <1>1, <1>5 DEF FuncOK
<1>8. TablesOK(code, u) /\ Extends(t, u)
  BY <1>5, <1>6, <1>7, TablesHere, StepFields
<1>9. NotedIn(code, u, e)
  BY <1>1, <1>5, <1>6 DEF NotedIn, OfSymbol
<1>10. NoteStep(code, t, u, e)
  BY <1>5, <1>8, <1>9 DEF NoteStep, CountedIn
<1>11. QED
  BY <1>2, <1>10

LEMMA NoteSymbol ==
  ASSUME CodeOK(code), NEW t, TablesOK(code, t), NEW e, OfSymbol(e),
         e.val \in DOMAIN code.symbols, code.symbols[e.val] \in SymbolSet
  PROVE  NoteStep(code, t, Note(t, e), e)
<1> DEFINE s == code.symbols[e.val]
           g == IF s.space = "program" /\ s.name \notin t.namedVarNames
                THEN t.globals + 1 ELSE t.globals
           n == t.namedVarNames \cup {s.name}
           u == GlobalsSet(t, g, n)
<1>1. s.name \in Int
  BY DEF SymbolSet
<1>2a. g \in Nat
  BY TargetTypes, TablesHere
<1>2b. n \in SUBSET Int
  BY <1>1, TargetTypes, TablesHere
<1>2. g \in Nat /\ n \in SUBSET Int
  BY <1>2a, <1>2b
<1>3. Note(t, e) = AddVarNames(t, s)
  BY DEF Note, OfSymbol
<1>4. AddVarNames(t, s) = u
  BY DEF AddVarNames, GlobalsSet
<1> HIDE DEF g, n
<1>5. RestOf(t, u, {"globals", "namedVarNames"}) /\ u.globals = g /\ u.namedVarNames = n
  <2>1. t \in TargetSet
    BY TablesHere
  <2>2. QED
    BY <1>2a, <1>2b, <2>1, GlobalsUpdate
<1> HIDE DEF u
<1>6. /\ u \in TargetSet /\ u.instructions = t.instructions /\ u.numConsts = t.numConsts
      /\ u.namedLibfuncs = t.namedLibfuncs /\ u.stringConsts = t.stringConsts
      /\ u.userFuncs = t.userFuncs /\ u.t_address = t.t_address
  BY <1>5 DEF RestOf
<1>7. t.namedVarNames \subseteq u.namedVarNames /\ s.name \in u.namedVarNames
  BY <1>5 DEF n
<1>8. CountedIn(code, t, u)
  BY <1>5 DEF CountedIn, g, n
<1>9. TablesOK(code, u) /\ Extends(t, u)
  <2>1. \A i \in 1 .. Len(u.userFuncs) : i \in 1 .. Len(t.userFuncs)
    BY <1>6
  <2>2. QED
    BY <1>6, <1>7, <2>1, TablesHere, StepFields
<1>10. NotedIn(code, u, e)
  BY <1>7 DEF NotedIn, OfSymbol
<1>11. NoteStep(code, t, u, e)
  BY <1>6, <1>8, <1>9, <1>10 DEF NoteStep
<1>12. QED
  BY <1>3, <1>4, <1>11

LEMMA NoteNothing ==
  ASSUME NEW c, NEW t, TablesOK(c, t), NEW e, e.type \in {"null", "retval"}
  PROVE  NoteStep(c, t, Note(t, e), e)
<1>1. Note(t, e) = t
  BY DEF Note, OfSymbol
<1>2. Extends(t, t)
  BY TablesHere, ExtendsOrder
<1>3. NotedIn(c, t, e)
  BY DEF NotedIn, OfSymbol
<1>4. QED
  BY <1>1, <1>2, <1>3 DEF NoteStep, CountedIn

LEMMA NoteFacts ==
  ASSUME CodeOK(code), NEW t, TablesOK(code, t), NEW e \in OperandIn(code),
         e.type = "user" => e.val \in DOMAIN t.t_address
  PROVE  NoteStep(code, t, Note(t, e), e)
<1>1. /\ e.type \in {"number", "string", "lib", "user", "var", "element", "null", "retval"}
      /\ e.val \in Int
      /\ e.type = "user" => e.val \in DOMAIN code.functions
      /\ OfSymbol(e) => e.val \in DOMAIN code.symbols /\ code.symbols[e.val] \in SymbolSet
  BY OperandKinds
<1>2. CASE e.type = "number"
  BY <1>1, <1>2, NoteNumber
<1>3. CASE e.type = "string"
  BY <1>1, <1>3, NoteString
<1>4. CASE e.type = "lib"
  BY <1>1, <1>4, NoteLib
<1>5. CASE e.type = "user"
  BY <1>1, <1>5, NoteUser
<1>6. CASE e.type \in {"var", "element"}
  <2>1. OfSymbol(e)
    BY <1>6 DEF OfSymbol
  <2>2. QED
    BY <1>1, <2>1, NoteSymbol
<1>7. CASE e.type \in {"null", "retval"}
  BY <1>7, NoteNothing
<1>8. QED
  BY <1>1, <1>2, <1>3, <1>4, <1>5, <1>6, <1>7

(* What make_operand returns stands for the expression.                   *)
LEMMA OperandFits ==
  ASSUME CodeOK(code), NEW t, TablesOK(code, t), NEW e \in OperandIn(code), NotedIn(code, t, e),
         StartsApart(t)
  PROVE  Fits(code, t, e, Operand(t, e)) /\ Operand(t, e) \in OperandSet
<1> DEFINE op == Operand(t, e)
<1>1. /\ e.type \in {"number", "string", "lib", "user", "var", "element", "null", "retval"}
      /\ OfSymbol(e) => e.val \in DOMAIN code.symbols /\ code.symbols[e.val] \in SymbolSet
  BY OperandKinds
<1>2. CASE e.type = "number"
  <2>1. op = [type |-> "number", val |-> Place(t.numConsts, e.val)]
    BY <1>2 DEF Operand, OfSymbol
  <2>2. e.val \in Range(t.numConsts)
    BY <1>2 DEF NotedIn
  <2>3. /\ Place(t.numConsts, e.val) \in Int
        /\ Place(t.numConsts, e.val) + 1 \in 1 .. Len(t.numConsts)
        /\ t.numConsts[Place(t.numConsts, e.val) + 1] = e.val
    BY <2>2, TablesHere, TargetTypes, PlaceFacts
  <2>4. QED
    BY <1>2, <2>1, <2>3 DEF Fits, OfSymbol, OperandSet, OperandTypes
<1>3. CASE e.type = "string"
  <2>1. op = [type |-> "string", val |-> Place(t.stringConsts, e.val)]
    BY <1>3 DEF Operand, OfSymbol
  <2>2. e.val \in Range(t.stringConsts)
    BY <1>3 DEF NotedIn
  <2>3. /\ Place(t.stringConsts, e.val) \in Int
        /\ Place(t.stringConsts, e.val) + 1 \in 1 .. Len(t.stringConsts)
        /\ t.stringConsts[Place(t.stringConsts, e.val) + 1] = e.val
    BY <2>2, TablesHere, TargetTypes, PlaceFacts
  <2>4. QED
    BY <1>3, <2>1, <2>3 DEF Fits, OfSymbol, OperandSet, OperandTypes
<1>4. CASE e.type = "lib"
  <2>1. op = [type |-> "lib", val |-> Place(t.namedLibfuncs, e.val)]
    BY <1>4 DEF Operand, OfSymbol
  <2>2. e.val \in Range(t.namedLibfuncs)
    BY <1>4 DEF NotedIn
  <2>3. /\ Place(t.namedLibfuncs, e.val) \in Int
        /\ Place(t.namedLibfuncs, e.val) + 1 \in 1 .. Len(t.namedLibfuncs)
        /\ t.namedLibfuncs[Place(t.namedLibfuncs, e.val) + 1] = e.val
    BY <2>2, TablesHere, TargetTypes, PlaceFacts
  <2>4. QED
    BY <1>4, <2>1, <2>3 DEF Fits, OfSymbol, OperandSet, OperandTypes
<1>5. CASE e.type = "user"
  <2> DEFINE f == UserFunc(t, e.val)
             p == PlaceFunc(t.userFuncs, f)
  <2>1. op = [type |-> "user", val |-> p]
    BY <1>5 DEF Operand, OfSymbol
  <2>2. e.val \in DOMAIN t.t_address /\ AddressIn(t.userFuncs, t.t_address[e.val])
    BY <1>5 DEF NotedIn
  <2>3. f.address = t.t_address[e.val]
    BY DEF UserFunc
  <2> HIDE DEF f
  <2>4. /\ p \in Int /\ p + 1 \in 1 .. Len(t.userFuncs)
        /\ t.userFuncs[p + 1].address = f.address
    BY <2>2, <2>3, TablesHere, TargetTypes, PlaceFuncFacts
  <2> HIDE DEF p
  <2>5. FuncOK(code, t, t.userFuncs[p + 1])
    BY <2>4 DEF TablesOK
  <2>6. t.userFuncs[p + 1].id = e.val
    BY <2>2, <2>3, <2>4, <2>5 DEF FuncOK, StartsApart
  <2>7. QED
    BY <1>5, <2>1, <2>4, <2>6 DEF Fits, OfSymbol, OperandSet, OperandTypes
<1>6. CASE e.type \in {"var", "element"}
  <2>1. OfSymbol(e)
    BY <1>6 DEF OfSymbol
  <2>2. op = [type |-> code.symbols[e.val].space, val |-> code.symbols[e.val].offset]
    BY <1>6, <2>1 DEF Operand
  <2>3. code.symbols[e.val].name \in t.namedVarNames
    BY <2>1 DEF NotedIn
  <2>4. code.symbols[e.val].space \in OperandTypes /\ code.symbols[e.val].offset \in Int
    BY <1>1, <2>1 DEF SymbolSet, OperandTypes
  <2>5. QED
    BY <1>6, <2>2, <2>3, <2>4 DEF Fits, OperandSet
<1>7. CASE e.type = "retval"
  <2>1. op = [type |-> "retval", val |-> 0]
    BY <1>7 DEF Operand, OfSymbol
  <2>2. QED
    BY <1>7, <2>1 DEF Fits, OfSymbol, OperandSet, OperandTypes
<1>8. CASE e.type = "null"
  <2>1. op = [type |-> "255", val |-> -1]
    BY <1>8 DEF Operand, OfSymbol
  <2>2. QED
    BY <1>8, <2>1 DEF Fits, OfSymbol, OperandSet, OperandTypes
<1>9. QED
  BY <1>1, <1>2, <1>3, <1>4, <1>5, <1>6, <1>7, <1>8

-----------------------------------------------------------------------------
(* Addresses of quads *)

Jumps(c, k)     == {j \in 1 .. k : c.quads[j].op = "func_start"}
AddressOf(c, k) == k + Cardinality(Jumps(c, k))

LEMMA JumpsFinite ==
  ASSUME NEW c, NEW k \in Nat
  PROVE  IsFiniteSet(Jumps(c, k)) /\ Cardinality(Jumps(c, k)) \in Nat /\ AddressOf(c, k) \in Nat
<1>1. IsFiniteSet(1 .. k)
  BY FS_Interval
<1>2. Jumps(c, k) \subseteq 1 .. k
  BY DEF Jumps
<1>3. IsFiniteSet(Jumps(c, k)) /\ Cardinality(Jumps(c, k)) \in Nat
  BY <1>1, <1>2, FS_Subset, FS_CardinalityType
<1>4. QED
  BY <1>3 DEF AddressOf

LEMMA AddressNone ==
  ASSUME NEW c
  PROVE  AddressOf(c, 0) = 0
<1>1. Jumps(c, 0) = {}
  BY DEF Jumps
<1>2. QED
  BY <1>1, FS_EmptySet DEF AddressOf

LEMMA AddressStep ==
  ASSUME NEW c, NEW k \in Nat
  PROVE  AddressOf(c, k + 1) = AddressOf(c, k) + (IF c.quads[k + 1].op = "func_start" THEN 2 ELSE 1)
<1>1. IsFiniteSet(Jumps(c, k)) /\ Cardinality(Jumps(c, k)) \in Nat
  BY JumpsFinite
<1>2. CASE c.quads[k + 1].op = "func_start"
  <2>1. Jumps(c, k + 1) = Jumps(c, k) \cup {k + 1} /\ k + 1 \notin Jumps(c, k)
    BY <1>2 DEF Jumps
  <2>2. Cardinality(Jumps(c, k + 1)) = Cardinality(Jumps(c, k)) + 1
    BY <1>1, <2>1, FS_AddElement
  <2>3. QED
    BY <1>1, <1>2, <2>2 DEF AddressOf
<1>3. CASE c.quads[k + 1].op # "func_start"
  <2>1. Jumps(c, k + 1) = Jumps(c, k)
    BY <1>3 DEF Jumps
  <2>2. QED
    BY <1>1, <1>3, <2>1 DEF AddressOf
<1>4. QED
  BY <1>2, <1>3

LEMMA AddressGrows ==
  ASSUME NEW c, NEW i \in Nat, NEW k \in Nat, i <= k
  PROVE  AddressOf(c, i) + (k - i) <= AddressOf(c, k)
<1>1. Jumps(c, i) \subseteq Jumps(c, k)
  BY DEF Jumps
<1>2. Cardinality(Jumps(c, i)) <= Cardinality(Jumps(c, k))
  BY <1>1, JumpsFinite, FS_Subset
<1>3. Cardinality(Jumps(c, i)) \in Nat /\ Cardinality(Jumps(c, k)) \in Nat
  BY JumpsFinite
<1>4. QED
  BY <1>2, <1>3 DEF AddressOf

LEMMA AddressAbove ==
  ASSUME NEW c, NEW i \in Nat, NEW k \in Nat, 1 <= i, i <= k
  PROVE  AddressOf(c, i) \in 1 .. AddressOf(c, k) /\ AddressOf(c, k) \in Nat
<1>1. AddressOf(c, i) \in Nat /\ AddressOf(c, k) \in Nat /\ AddressOf(c, 0) = 0
  BY JumpsFinite, AddressNone
<1>2. AddressOf(c, 0) + (i - 0) <= AddressOf(c, i)
  BY AddressGrows
<1>3. AddressOf(c, i) + (k - i) <= AddressOf(c, k)
  BY AddressGrows
<1>4. QED
  BY <1>1, <1>2, <1>3

(* The jump before a function has the address before it.                   *)
LEMMA AddressesDiffer ==
  ASSUME NEW c, NEW i \in Nat, NEW k \in Nat, 1 <= i, 1 <= k, AddressOf(c, i) = AddressOf(c, k)
  PROVE  i = k
<1>1. AddressOf(c, i) \in Nat /\ AddressOf(c, k) \in Nat
  BY JumpsFinite
<1>2. CASE i <= k
  BY <1>1, <1>2, AddressGrows
<1>3. CASE k <= i
  <2>1. AddressOf(c, k) + (i - k) <= AddressOf(c, i)
    BY <1>3, AddressGrows
  <2>2. QED
    BY <1>1, <1>3, <2>1
<1>4. QED
  BY <1>2, <1>3

-----------------------------------------------------------------------------
(* The globals that are counted *)

ProgramSymbols(c) == {s \in DOMAIN c.symbols : c.symbols[s].space = "program"}
ProgramNames(c)   == {c.symbols[s].name : s \in ProgramSymbols(c)}
Seen(c, t)        == t.namedVarNames \cap ProgramNames(c)

NamesApart(c) ==
  \A r, s \in DOMAIN c.symbols :
    r # s /\ c.symbols[r].space = "program" => c.symbols[r].name # c.symbols[s].name

GlobalsOK(c, t) ==
  /\ t.globals <= Cardinality(Seen(c, t))
  /\ NamesApart(c) => t.globals = Cardinality(Seen(c, t))

LEMMA NamesFinite ==
  ASSUME NEW c, CodeOK(c)
  PROVE  /\ IsFiniteSet(ProgramSymbols(c)) /\ IsFiniteSet(ProgramNames(c))
         /\ Cardinality(ProgramNames(c)) \in Nat
<1> DEFINE P == ProgramSymbols(c)
           f == [s \in P |-> c.symbols[s].name]
<1>1. IsFiniteSet(P)
  <2>1. P \subseteq 1 .. Len(c.symbols) /\ Len(c.symbols) \in Nat
    BY CodeFields DEF ProgramSymbols
  <2>2. IsFiniteSet(1 .. Len(c.symbols))
    BY <2>1, FS_Interval
  <2>3. QED
    BY <2>1, <2>2, FS_Subset
<1>2. f \in Surjection(P, ProgramNames(c))
  BY DEF Surjection, ProgramNames
<1>3. IsFiniteSet(ProgramNames(c))
  BY <1>1, <1>2, FS_Surjection
<1>4. QED
  BY <1>1, <1>3, FS_CardinalityType

LEMMA SeenFinite ==
  ASSUME NEW c, CodeOK(c), NEW t
  PROVE  /\ IsFiniteSet(Seen(c, t)) /\ Cardinality(Seen(c, t)) \in Nat
         /\ Cardinality(Seen(c, t)) <= Cardinality(ProgramNames(c))
<1>1. Seen(c, t) \subseteq ProgramNames(c)
  BY DEF Seen
<1>2. IsFiniteSet(Seen(c, t)) /\ Cardinality(Seen(c, t)) <= Cardinality(ProgramNames(c))
  BY <1>1, NamesFinite, FS_Subset
<1>3. QED
  BY <1>2, FS_CardinalityType

(* One more name is counted, if it is new.                                *)
LEMMA CountStep ==
  ASSUME NEW c, CodeOK(c), NEW t \in TargetSet, NEW u \in TargetSet, CountedIn(c, t, u),
         GlobalsOK(c, t)
  PROVE  GlobalsOK(c, u)
<1>1. /\ IsFiniteSet(Seen(c, t)) /\ Cardinality(Seen(c, t)) \in Nat
      /\ IsFiniteSet(Seen(c, u)) /\ Cardinality(Seen(c, u)) \in Nat
  BY SeenFinite
<1>2. t.globals \in Nat /\ u.globals \in Nat
  BY TargetTypes
<1>3. CASE u.globals = t.globals /\ u.namedVarNames = t.namedVarNames
  BY <1>3 DEF GlobalsOK, Seen
<1>4. ASSUME NEW s \in DOMAIN c.symbols,
             u.namedVarNames = t.namedVarNames \cup {c.symbols[s].name},
             u.globals = IF c.symbols[s].space = "program" /\ c.symbols[s].name \notin t.namedVarNames
                         THEN t.globals + 1 ELSE t.globals
      PROVE  GlobalsOK(c, u)
  <2> DEFINE n == c.symbols[s].name
  <2>1. CASE n \in t.namedVarNames
    <3>1. Seen(c, u) = Seen(c, t) /\ u.globals = t.globals
      BY <1>4, <2>1 DEF Seen
    <3>2. QED
      BY <3>1 DEF GlobalsOK
  <2>2. CASE n \notin t.namedVarNames /\ c.symbols[s].space = "program"
    <3>1. n \in ProgramNames(c)
      BY <2>2 DEF ProgramNames, ProgramSymbols
    <3>2. Seen(c, u) = Seen(c, t) \cup {n} /\ n \notin Seen(c, t)
      BY <1>4, <2>2, <3>1 DEF Seen
    <3>3. Cardinality(Seen(c, u)) = Cardinality(Seen(c, t)) + 1
      BY <1>1, <3>2, FS_AddElement
    <3>4. u.globals = t.globals + 1
      BY <1>4, <2>2
    <3>5. QED
      BY <1>1, <1>2, <3>3, <3>4 DEF GlobalsOK
  <2>3. CASE n \notin t.namedVarNames /\ c.symbols[s].space # "program"
    <3>1. Seen(c, t) \subseteq Seen(c, u) /\ u.globals = t.globals
      BY <1>4, <2>3 DEF Seen
    <3>2. Cardinality(Seen(c, t)) <= Cardinality(Seen(c, u))
      BY <1>1, <3>1, FS_Subset
    <3>3. NamesApart(c) => n \notin ProgramNames(c)
      BY <2>3 DEF NamesApart, ProgramNames, ProgramSymbols
    <3>4. NamesApart(c) => Seen(c, u) = Seen(c, t)
      BY <1>4, <3>3 DEF Seen
    <3>5. QED
      BY <1>1, <1>2, <3>1, <3>2, <3>4 DEF GlobalsOK
  <2>4. QED
    BY <2>1, <2>2, <2>3
<1>5. QED
  BY <1>3, <1>4 DEF CountedIn

(* The offset of a variable of the program is below their number, if each  *)
(* has a name of its own.                                                  *)
LEMMA OffsetBelow ==
  ASSUME NEW c, CodeOK(c), NamesApart(c), NEW s \in ProgramSymbols(c)
  PROVE  c.symbols[s].offset < Cardinality(ProgramNames(c))
<1> DEFINE E == Earlier(c, s)
           D == E \cup {s}
           f == [i \in D |-> c.symbols[i].name]
<1>1. DOMAIN c.symbols = 1 .. Len(c.symbols) /\ Len(c.symbols) \in Nat /\ OffsetsOK(c)
  BY CodeFields DEF CodeOK
<1>2. s \in 1 .. Len(c.symbols) /\ c.symbols[s].space = "program"
  BY <1>1 DEF ProgramSymbols
<1>3. c.symbols[s].offset = Cardinality(E)
  BY <1>1, <1>2 DEF OffsetsOK
<1>4. E \subseteq ProgramSymbols(c) /\ s \notin E
  BY <1>1, <1>2 DEF Earlier, ProgramSymbols
<1>5. D \subseteq ProgramSymbols(c)
  BY <1>4
<1>6. IsFiniteSet(E)
  BY <1>4, NamesFinite, FS_Subset
<1>7. Cardinality(D) = Cardinality(E) + 1 /\ Cardinality(E) \in Nat
  BY <1>4, <1>6, FS_AddElement, FS_CardinalityType
<1>8. f \in Injection(D, ProgramNames(c))
  <2>1. f \in [D -> ProgramNames(c)]
    BY <1>5 DEF ProgramNames
  <2>2. \A i, j \in D : f[i] = f[j] => i = j
    BY <1>5 DEF NamesApart, ProgramSymbols
  <2>3. QED
    BY <2>1, <2>2 DEF Injection, IsInjective
<1>9. Cardinality(D) <= Cardinality(ProgramNames(c))
  BY <1>8, NamesFinite, FS_Injection
<1>10. QED
  BY <1>3, <1>7, <1>9, NamesFinite

-----------------------------------------------------------------------------
(* What has been generated of the first k quads *)

(* Functions have the addresses of their first instructions.               *)
EntriesOK(c, t, k) ==
  /\ \A f \in DOMAIN t.t_address :
       \E j \in 1 .. k : Starts(c.quads[j], f) /\ t.t_address[f] = AddressOf(c, j) - 1
  /\ \A j \in 1 .. k : c.quads[j].op = "func_start" => c.quads[j].result.val \in DOMAIN t.t_address

InstrFits(c, t, q, instr) ==
  /\ instr[1] = q.op
  /\ Fits(c, t, Operands(q)[1], instr[2]) /\ Fits(c, t, Operands(q)[2], instr[3])
  /\ Fits(c, t, Operands(q)[3], instr[4])

(* An operand is a variable of the program that has been noted.            *)
ProgramOK(c, t, op) ==
  op.type = "program" =>
    \E s \in ProgramSymbols(c) : c.symbols[s].offset = op.val /\ c.symbols[s].name \in t.namedVarNames

ProgramsOK(c, t, instr) ==
  ProgramOK(c, t, instr[2]) /\ ProgramOK(c, t, instr[3]) /\ ProgramOK(c, t, instr[4])

(* Nothing but the entry in t_address depends on whether a jump precedes.  *)
Generated(c, t, k) ==
  /\ TablesOK(c, t) /\ GlobalsOK(c, t)
  /\ \A i \in 1 .. k : InstrFits(c, t, c.quads[i], t.instructions[AddressOf(c, i)])
  /\ \A i \in 1 .. Len(t.instructions) : ProgramsOK(c, t, t.instructions[i])

Translated(c, t, k) ==
  Generated(c, t, k) /\ EntriesOK(c, t, k) /\ Len(t.instructions) = AddressOf(c, k)

Ready(c, t, k) ==
  Generated(c, t, k) /\ EntriesOK(c, t, k + 1) /\ Len(t.instructions) = AddressOf(c, k + 1) - 1

LEMMA EntriesApart ==
  ASSUME NEW c, NEW t, NEW k \in Nat, EntriesOK(c, t, k)
  PROVE  StartsApart(t)
<1> SUFFICES ASSUME NEW f \in DOMAIN t.t_address, NEW g \in DOMAIN t.t_address,
                    t.t_address[f] = t.t_address[g]
             PROVE  f = g
  BY DEF StartsApart
<1>1. PICK i \in 1 .. k : Starts(c.quads[i], f) /\ t.t_address[f] = AddressOf(c, i) - 1
  BY DEF EntriesOK
<1>2. PICK j \in 1 .. k : Starts(c.quads[j], g) /\ t.t_address[g] = AddressOf(c, j) - 1
  BY DEF EntriesOK
<1>3. AddressOf(c, i) \in Nat /\ AddressOf(c, j) \in Nat
  BY JumpsFinite
<1>4. AddressOf(c, i) = AddressOf(c, j)
  <2> DEFINE a == AddressOf(c, i)
             b == AddressOf(c, j)
  <2>1. a - 1 = b - 1 /\ a \in Nat /\ b \in Nat
    BY <1>1, <1>2, <1>3
  <2> HIDE DEF a, b
  <2>2. a = b
    BY <2>1
  <2>3. QED
    BY <2>2 DEF a, b
<1>5. i = j
  BY <1>4, AddressesDiffer
<1>6. User(f) = User(g)
  BY <1>1, <1>2, <1>5 DEF Starts
<1>7. User(f).val = f /\ User(g).val = g
  BY DEF User, Expr
<1>8. QED
  BY <1>6, <1>7

LEMMA QuadFacts ==
  ASSUME NEW c, CodeOK(c), NEW i \in DOMAIN c.quads
  PROVE  /\ c.quads[i] \in QuadIn(c) /\ c.quads[i].op \in Ops
         /\ \A n \in 1 .. 3 : Operands(c.quads[i])[n] \in OperandIn(c)
         /\ c.quads[i].op = "func_start" =>
              /\ c.quads[i].result.val \in DOMAIN c.functions
              /\ Starts(c.quads[i], c.quads[i].result.val)
         /\ i \in Nat /\ i - 1 \in Nat /\ i \in 1 .. Len(c.quads)
<1> DEFINE q == c.quads[i]
<1>1. q \in QuadIn(c) /\ i \in 1 .. Len(c.quads) /\ Len(c.quads) \in Nat
  BY CodeFields
<1>2. q.op \in Ops /\ q.result \in ExprIn(c) /\ q.arg1 \in ExprIn(c) /\ q.arg2 \in ExprIn(c)
  BY <1>1 DEF QuadIn
<1>3. Num(-1) \in ExprIn(c) /\ None \in ExprIn(c)
  <2>1. -1 \in Int
    OBVIOUS
  <2>2. QED
    BY <2>1, ExprKinds, ExprFacts
<1>4. ASSUME NEW n \in 1 .. 3 PROVE Operands(q)[n] \in OperandIn(c)
  <2>1. n = 1 \/ n = 2 \/ n = 3
    OBVIOUS
  <2>2. CASE q.op = "getretval"
    BY <1>2, <1>3, <2>1, <2>2 DEF Operands, OperandIn
  <2>3. CASE q.op = "uminus"
    BY <1>2, <1>3, <2>1, <2>3 DEF Operands, OperandIn
  <2>4. CASE q.op # "getretval" /\ q.op # "uminus"
    BY <1>2, <1>3, <2>1, <2>4 DEF Operands, OperandIn
  <2>5. QED
    BY <2>2, <2>3, <2>4
<1>5. ASSUME q.op = "func_start"
      PROVE  q.result.val \in DOMAIN c.functions /\ Starts(q, q.result.val)
  <2>1. PICK f \in DOMAIN c.functions : Starts(q, f)
    BY <1>5 DEF CodeOK, StartsOK
  <2>2. q.result.val = f
    BY <2>1 DEF Starts, User, Expr
  <2>3. QED
    BY <2>1, <2>2
<1>6. QED
  BY <1>1, <1>2, <1>4, <1>5

LEMMA FitsProgram ==
  ASSUME NEW c, CodeOK(c), NEW t, NEW e \in OperandIn(c), NEW op, Fits(c, t, e, op)
  PROVE  ProgramOK(c, t, op)
<1>1. /\ e.type \in {"number", "string", "lib", "user", "var", "element", "null", "retval"}
      /\ OfSymbol(e) => e.val \in DOMAIN c.symbols /\ c.symbols[e.val] \in SymbolSet
  BY OperandKinds
<1>2. CASE OfSymbol(e)
  <2>1. op.type = c.symbols[e.val].space /\ op.val = c.symbols[e.val].offset
        /\ c.symbols[e.val].name \in t.namedVarNames
    BY <1>2 DEF Fits
  <2>2. QED
    BY <1>1, <1>2, <2>1 DEF ProgramOK, ProgramSymbols
<1>3. CASE e.type \in {"number", "string", "lib", "user", "null", "retval"}
  <2>1. op.type # "program"
    BY <1>3 DEF Fits
  <2>2. QED
    BY <2>1 DEF ProgramOK
<1>4. QED
  BY <1>1, <1>2, <1>3 DEF OfSymbol

(* Tables that have more in them stand for the same. *)
LEMMA InstrFitsStays ==
  ASSUME NEW c, NEW t \in TargetSet, NEW u \in TargetSet, Extends(t, u)
  PROVE  /\ \A q, instr : InstrFits(c, t, q, instr) => InstrFits(c, u, q, instr)
         /\ \A instr : ProgramsOK(c, t, instr) => ProgramsOK(c, u, instr)
<1>1. \A e, op : Fits(c, t, e, op) => Fits(c, u, e, op)
  BY FitsStays
<1>2. \A op : ProgramOK(c, t, op) => ProgramOK(c, u, op)
  BY DEF Extends, ProgramOK
<1>3. QED
  BY <1>1, <1>2 DEF InstrFits, ProgramsOK

LEMMA GeneratedStays ==
  ASSUME NEW c, NEW t, NEW u, NEW k \in Nat, Generated(c, t, k), TablesOK(c, u), GlobalsOK(c, u),
         Extends(t, u), NEW n \in Nat, n = Len(t.instructions), 
         \A i \in 1 .. n : u.instructions[i] = t.instructions[i],
         AddressOf(c, k) <= n,
         \A i \in 1 .. Len(u.instructions) : i \in 1 .. n \/ ProgramsOK(c, u, u.instructions[i])
  PROVE  Generated(c, u, k)
<1>1. t \in TargetSet /\ u \in TargetSet
  BY DEF TablesOK, Generated
<1>2. ASSUME NEW i \in 1 .. k
      PROVE  InstrFits(c, u, c.quads[i], u.instructions[AddressOf(c, i)])
  <2>1. AddressOf(c, i) \in 1 .. n
    <3>1. AddressOf(c, i) \in 1 .. AddressOf(c, k) /\ AddressOf(c, k) \in Nat
      BY AddressAbove
    <3>2. QED
      BY <3>1
  <2>2. InstrFits(c, t, c.quads[i], t.instructions[AddressOf(c, i)])
    BY DEF Generated
  <2>3. InstrFits(c, u, c.quads[i], t.instructions[AddressOf(c, i)])
    BY <1>1, <2>2, InstrFitsStays
  <2>4. u.instructions[AddressOf(c, i)] = t.instructions[AddressOf(c, i)]
    BY <2>1
  <2>5. QED
    BY <2>3, <2>4
<1>3. ASSUME NEW i \in 1 .. Len(u.instructions) PROVE ProgramsOK(c, u, u.instructions[i])
  <2>1. CASE i \in 1 .. n
    <3>1. ProgramsOK(c, t, t.instructions[i]) /\ u.instructions[i] = t.instructions[i]
      BY <2>1 DEF Generated
    <3>2. QED
      BY <1>1, <3>1, InstrFitsStays
  <2>2. QED
    BY <2>1
<1>4. QED
  BY <1>2, <1>3 DEF Generated

-----------------------------------------------------------------------------
(* One quad *)

(* generate_FUNCSTART: the jump around the function. *)
JumpAround == <<"jump", [type |-> "label", val |-> 0], [type |-> "255", val |-> -1],
                [type |-> "255", val |-> -1]>>

LEMMA JumpFacts ==
  ASSUME NEW c, NEW t
  PROVE  JumpAround \in Instrs /\ ProgramsOK(c, t, JumpAround) /\ Operand(t, None) = [type |-> "255", val |-> -1]
<1>1. None.type = "null"
  BY DEF None, Expr
<1>2. Operand(t, None) = [type |-> "255", val |-> -1]
  BY <1>1 DEF Operand, OfSymbol
<1>3. [type |-> "label", val |-> 0] \in OperandSet /\ [type |-> "255", val |-> -1] \in OperandSet
  BY DEF OperandSet, OperandTypes
<1>4. JumpAround \in Instrs
  BY <1>3 DEF JumpAround, Instrs
<1>5. /\ JumpAround[2] = [type |-> "label", val |-> 0] /\ JumpAround[3] = [type |-> "255", val |-> -1]
      /\ JumpAround[4] = [type |-> "255", val |-> -1]
  BY DEF JumpAround
<1>6. ProgramsOK(c, t, JumpAround)
  BY <1>5 DEF ProgramsOK, ProgramOK
<1>7. QED
  BY <1>2, <1>4, <1>6

LEMMA EntryFacts ==
  ASSUME NEW a \in Addresses, NEW f \in Int, NEW n \in Nat
  PROVE  /\ Entry(a, f, n) \in Addresses /\ DOMAIN Entry(a, f, n) = DOMAIN a \cup {f}
         /\ Entry(a, f, n)[f] = n
         /\ \A g \in DOMAIN a : g # f => Entry(a, f, n)[g] = a[g]
<1>1. PICK D \in SUBSET Int : a \in [D -> Nat]
  BY DEF Addresses
<1> DEFINE b == [g \in D \cup {f} |-> IF g = f THEN n ELSE a[g]]
<1>2. Entry(a, f, n) = b
  BY <1>1 DEF Entry
<1>3. b \in [D \cup {f} -> Nat]
  BY <1>1
<1>4. D \cup {f} \in SUBSET Int
  BY <1>1
<1>5. b \in Addresses
  BY <1>3, <1>4 DEF Addresses
<1>6. DOMAIN b = DOMAIN a \cup {f} /\ b[f] = n /\ \A g \in DOMAIN a : g # f => b[g] = a[g]
  BY <1>1
<1>7. QED
  BY <1>2, <1>5, <1>6

NewEntry(t, u, f, n) ==
  /\ DOMAIN u.t_address = DOMAIN t.t_address \cup {f} /\ u.t_address[f] = n
  /\ \A g \in DOMAIN t.t_address : g # f => u.t_address[g] = t.t_address[g]

(* generate_FUNCSTART, before the instruction of the function. *)
LEMMA EnterTables ==
  ASSUME NEW c, NEW t, TablesOK(c, t), GlobalsOK(c, t), NEW f \in Int, f \notin DOMAIN t.t_address,
         NEW u, u = EnterFunction(t, f)
  PROVE  /\ TablesOK(c, u) /\ GlobalsOK(c, u) /\ Extends(t, u)
         /\ NewEntry(t, u, f, Len(t.instructions) + 1)
         /\ u.instructions = Append(t.instructions, JumpAround)
<1> DEFINE n == Len(t.instructions) + 1
           x == Append(t.instructions, JumpAround)
           a == Entry(t.t_address, f, n)
<1>1. /\ t \in TargetSet /\ t.instructions \in Seq(Instrs) /\ n \in Nat /\ t.t_address \in Addresses
      /\ Len(t.userFuncs) \in Nat
  BY TargetTypes DEF TablesOK
<1>2. Operand(t, None) = [type |-> "255", val |-> -1] /\ JumpAround \in Instrs
  BY JumpFacts
<1>3. u = AddressesSet(t, x, a)
  BY <1>2 DEF EnterFunction, AddressesSet, JumpAround, Entry
<1>4. x \in Seq(Instrs)
  BY <1>1, <1>2
<1> HIDE DEF n, x
<1>5. /\ a \in Addresses /\ DOMAIN a = DOMAIN t.t_address \cup {f} /\ a[f] = n
      /\ \A g \in DOMAIN t.t_address : a[g] = t.t_address[g]
  <2> DEFINE old == t.t_address
  <2>1. old \in Addresses /\ f \notin DOMAIN old
    BY <1>1
  <2> HIDE DEF old
  <2>2. /\ Entry(old, f, n) \in Addresses /\ DOMAIN Entry(old, f, n) = DOMAIN old \cup {f}
        /\ Entry(old, f, n)[f] = n
        /\ \A g \in DOMAIN old : g # f => Entry(old, f, n)[g] = old[g]
    BY <1>1, <2>1, EntryFacts, ZenonT(60)
  <2>3. QED
    BY <2>1, <2>2 DEF old, a
<1> HIDE DEF a
<1>6. RestOf(t, u, {"instructions", "t_address"}) /\ u.instructions = x /\ u.t_address = a
  BY <1>1, <1>3, <1>4, <1>5, AddressUpdate
<1>7. /\ u \in TargetSet /\ u.numConsts = t.numConsts /\ u.stringConsts = t.stringConsts
      /\ u.namedLibfuncs = t.namedLibfuncs /\ u.userFuncs = t.userFuncs
      /\ u.globals = t.globals /\ u.namedVarNames = t.namedVarNames
  BY <1>6 DEF RestOf
<1>8. Extends(t, u)
  BY <1>5, <1>6, <1>7, TablesHere DEF Extends
<1>9. GlobalsOK(c, u)
  BY <1>7 DEF GlobalsOK, Seen
<1>10. TablesOK(c, u)
  <2>1. ASSUME NEW i \in 1 .. Len(u.userFuncs) PROVE FuncOK(c, u, u.userFuncs[i])
    <3>1. FuncOK(c, t, t.userFuncs[i]) /\ u.userFuncs[i] = t.userFuncs[i]
      BY <1>7 DEF TablesOK
    <3>2. QED
      BY <1>5, <1>6, <3>1 DEF FuncOK
  <2>2. QED
    BY <1>7, <2>1, TablesHere DEF TablesOK
<1>11. NewEntry(t, u, f, n)
  BY <1>5, <1>6 DEF NewEntry
<1>12. QED
  BY <1>6, <1>8, <1>9, <1>10, <1>11 DEF x, n

StartAt(c, i, f) ==
  /\ i \in DOMAIN c.quads /\ c.quads[i].op = "func_start" /\ c.quads[i].result.val = f

LEMMA EntryStep ==
  ASSUME NEW c, CodeOK(c), NEW t, NEW u, NEW k \in Nat, NEW f, StartAt(c, k + 1, f),
         EntriesOK(c, t, k), NewEntry(t, u, f, AddressOf(c, k) + 1)
  PROVE  EntriesOK(c, u, k + 1)
<1>1. f \in Int /\ Starts(c.quads[k + 1], f) /\ c.quads[k + 1].op = "func_start"
      /\ c.quads[k + 1].result.val = f
  BY QuadFacts, CodeFields DEF StartAt
<1>2. AddressOf(c, k) \in Nat /\ AddressOf(c, k + 1) = AddressOf(c, k) + 2
  BY <1>1, AddressStep, JumpsFinite
<1>3. /\ DOMAIN u.t_address = DOMAIN t.t_address \cup {f}
      /\ u.t_address[f] = AddressOf(c, k) + 1
      /\ \A g \in DOMAIN t.t_address : g # f => u.t_address[g] = t.t_address[g]
  BY DEF NewEntry
<1>4. ASSUME NEW g \in DOMAIN u.t_address
      PROVE  \E j \in 1 .. k + 1 : Starts(c.quads[j], g) /\ u.t_address[g] = AddressOf(c, j) - 1
  <2>1. CASE g = f
    <3>1. AddressOf(c, k) + 1 = AddressOf(c, k + 1) - 1
      BY <1>2
    <3>2. Starts(c.quads[k + 1], g) /\ u.t_address[g] = AddressOf(c, k + 1) - 1
      BY <1>1, <1>3, <2>1, <3>1
    <3>3. QED
      BY <3>2
  <2>2. CASE g # f
    <3>1. g \in DOMAIN t.t_address /\ u.t_address[g] = t.t_address[g]
      BY <1>3, <2>2
    <3>2. PICK j \in 1 .. k : Starts(c.quads[j], g) /\ t.t_address[g] = AddressOf(c, j) - 1
      BY <3>1 DEF EntriesOK
    <3>3. QED
      BY <3>1, <3>2
  <2>3. QED
    BY <2>1, <2>2
<1>5. ASSUME NEW j \in 1 .. k + 1, c.quads[j].op = "func_start"
      PROVE  c.quads[j].result.val \in DOMAIN u.t_address
  <2>1. CASE j = k + 1
    BY <1>1, <1>3, <2>1
  <2>2. CASE j \in 1 .. k
    BY <1>3, <1>5, <2>2 DEF EntriesOK
  <2>3. QED
    BY <2>1, <2>2
<1>6. QED
  BY <1>4, <1>5 DEF EntriesOK

(* A function has not been entered before its func_start. *)
LEMMA NotEntered ==
  ASSUME NEW c, CodeOK(c), NEW t, NEW k \in Nat, k + 1 \in DOMAIN c.quads, EntriesOK(c, t, k),
         c.quads[k + 1].op = "func_start"
  PROVE  c.quads[k + 1].result.val \notin DOMAIN t.t_address
<1> DEFINE f == c.quads[k + 1].result.val
<1> SUFFICES ASSUME f \in DOMAIN t.t_address PROVE FALSE
  OBVIOUS
<1>1. PICK j \in 1 .. k : Starts(c.quads[j], f)
  BY DEF EntriesOK
<1>2. Starts(c.quads[k + 1], f) /\ k + 1 \in 1 .. Len(c.quads) /\ Len(c.quads) \in Nat
  BY QuadFacts, CodeFields
<1>3. j \in DOMAIN c.quads
  BY <1>2, CodeFields
<1>4. c.quads[j].op = "func_start" /\ c.quads[j].result = c.quads[k + 1].result
  BY <1>1, <1>2 DEF Starts
<1>5. j = k + 1
  BY <1>3, <1>4 DEF CodeOK, StartsOK
<1>6. QED
  BY <1>5

LEMMA AppendFacts ==
  ASSUME NEW S, NEW s \in Seq(S), NEW x \in S, NEW u, u = Append(s, x)
  PROVE  /\ u \in Seq(S) /\ Len(u) = Len(s) + 1 /\ Len(s) \in Nat /\ u[Len(s) + 1] = x
         /\ \A i \in 1 .. Len(s) : u[i] = s[i]
OBVIOUS

(* Where a function starts, its jump and its entry come first.            *)
LEMMA ReadyStep ==
  ASSUME NEW c, CodeOK(c), NEW t, NEW k \in Nat, k + 1 \in DOMAIN c.quads, Translated(c, t, k),
         NEW q, q = c.quads[k + 1], NEW u,
         u = IF q.op = "func_start" THEN EnterFunction(t, q.result.val) ELSE t
  PROVE  Ready(c, u, k)
<1>1. /\ Generated(c, t, k) /\ EntriesOK(c, t, k) /\ Len(t.instructions) = AddressOf(c, k)
      /\ TablesOK(c, t) /\ GlobalsOK(c, t) /\ t \in TargetSet
  BY DEF Translated, Generated, TablesOK
<1>2. AddressOf(c, k) \in Nat
  BY JumpsFinite
<1>3. CASE q.op = "func_start"
  <2> DEFINE f == q.result.val
  <2>1. f \in Int /\ f \notin DOMAIN t.t_address
    BY <1>1, <1>3, QuadFacts, CodeFields, NotEntered
  <2>2. u = EnterFunction(t, f)
    BY <1>3
  <2>3. /\ TablesOK(c, u) /\ GlobalsOK(c, u) /\ Extends(t, u)
        /\ NewEntry(t, u, f, Len(t.instructions) + 1)
        /\ u.instructions = Append(t.instructions, JumpAround)
    BY <1>1, <2>1, <2>2, EnterTables
  <2>4. /\ t.instructions \in Seq(Instrs) /\ t.t_address \in Addresses /\ JumpAround \in Instrs
        /\ ProgramsOK(c, u, JumpAround)
    BY <1>1, TargetTypes, JumpFacts
  <2>5. EntriesOK(c, u, k + 1)
    BY <1>1, <1>3, <2>3, <2>4, EntryStep DEF StartAt
  <2>6. /\ Len(u.instructions) = AddressOf(c, k) + 1
        /\ \A i \in 1 .. AddressOf(c, k) : u.instructions[i] = t.instructions[i]
        /\ u.instructions[AddressOf(c, k) + 1] = JumpAround
    <3> DEFINE s == t.instructions
               v == u.instructions
    <3>1. s \in Seq(Instrs) /\ JumpAround \in Instrs /\ v = Append(s, JumpAround)
      BY <2>3, <2>4
    <3>2. Len(s) = AddressOf(c, k)
      BY <1>1
    <3> HIDE DEF s, v
    <3>3. /\ Len(v) = Len(s) + 1 /\ v[Len(s) + 1] = JumpAround
          /\ \A i \in 1 .. Len(s) : v[i] = s[i]
      BY <3>1, AppendFacts
    <3>4. /\ Len(v) = AddressOf(c, k) + 1 /\ v[AddressOf(c, k) + 1] = JumpAround
          /\ \A i \in 1 .. AddressOf(c, k) : v[i] = s[i]
      BY <3>2, <3>3
    <3>5. QED
      BY <3>4 DEF s, v
  <2>7. \A i \in 1 .. Len(u.instructions) :
          i \in 1 .. AddressOf(c, k) \/ ProgramsOK(c, u, u.instructions[i])
    <3> DEFINE n == AddressOf(c, k)
               v == u.instructions
    <3>1. n \in Nat /\ Len(v) = n + 1 /\ v[n + 1] = JumpAround
      BY <1>2, <2>6
    <3> HIDE DEF n
    <3>2. \A i \in 1 .. Len(v) : i \in 1 .. n \/ i = n + 1
      BY <3>1
    <3>3. QED
      BY <2>4, <3>1, <3>2 DEF n, v
  <2>8. Generated(c, u, k)
    <3> DEFINE n == Len(t.instructions)
    <3>1. n \in Nat /\ AddressOf(c, k) <= n
      BY <1>1, <1>2
    <3>2. \A i \in 1 .. n : u.instructions[i] = t.instructions[i]
      BY <1>1, <2>6
    <3>3. \A i \in 1 .. Len(u.instructions) : i \in 1 .. n \/ ProgramsOK(c, u, u.instructions[i])
      BY <1>1, <2>7
    <3>4. QED
      BY <1>1, <2>3, <3>1, <3>2, <3>3, GeneratedStays
  <2>9. Len(u.instructions) = AddressOf(c, k + 1) - 1
    BY <1>2, <1>3, <2>6, AddressStep, SMTT(40)
  <2>10. QED
    BY <2>5, <2>8, <2>9 DEF Ready
<1>4. CASE q.op # "func_start"
  <2>1. u = t /\ AddressOf(c, k + 1) = AddressOf(c, k) + 1
    BY <1>4, AddressStep
  <2>2. EntriesOK(c, t, k + 1)
    <3>1. \A f \in DOMAIN t.t_address :
            \E j \in 1 .. k + 1 : Starts(c.quads[j], f) /\ t.t_address[f] = AddressOf(c, j) - 1
      BY <1>1 DEF EntriesOK
    <3>2. \A j \in 1 .. k + 1 : c.quads[j].op = "func_start" => j \in 1 .. k
      BY <1>4
    <3>3. QED
      BY <1>1, <3>1, <3>2 DEF EntriesOK
  <2>3. QED
    BY <1>1, <1>2, <2>1, <2>2 DEF Ready
<1>5. QED
  BY <1>3, <1>4

-----------------------------------------------------------------------------
(* Functions that are operands have been entered before. *)
LEMMA UserEntered ==
  ASSUME NEW c, CodeOK(c), NEW t, NEW i \in DOMAIN c.quads, EntriesOK(c, t, i),
         NEW n \in 1 .. 3, Operands(c.quads[i])[n].type = "user"
  PROVE  Operands(c.quads[i])[n].val \in DOMAIN t.t_address
<1> DEFINE q == c.quads[i]
           e == Operands(q)[n]
           f == e.val
<1>1. /\ e \in OperandIn(c) /\ q \in QuadIn(c)
  BY QuadFacts
<1>2. f \in DOMAIN c.functions /\ e \in PlainIn(c)
  BY <1>1, OperandKinds
<1>3. e = User(f)
  BY <1>2 DEF PlainIn, User, Expr
<1>4. e \in {q.result, q.arg1, q.arg2}
  <2>1. Retval.type # "user" /\ Num(-1).type # "user" /\ None.type # "user"
        /\ (n = 1 \/ n = 2 \/ n = 3)
    BY DEF Retval, Num, None, Expr
  <2>2. CASE q.op = "getretval"
    BY <2>1, <2>2 DEF Operands
  <2>3. CASE q.op = "uminus"
    BY <2>1, <2>3 DEF Operands
  <2>4. CASE q.op # "getretval" /\ q.op # "uminus"
    BY <2>1, <2>4 DEF Operands
  <2>5. QED
    BY <2>2, <2>3, <2>4
<1> HIDE DEF e, f
<1>5. UsesFunction(q, f)
  BY <1>3, <1>4 DEF UsesFunction
<1>6. PICK j \in 1 .. i : Starts(c.quads[j], f)
  BY <1>2, <1>5 DEF CodeOK, StartsOK
<1>7. c.quads[j].op = "func_start" /\ c.quads[j].result.val = f
  BY <1>6 DEF Starts, User, Expr
<1>8. f \in DOMAIN t.t_address
  BY <1>7 DEF EntriesOK
<1>9. QED
  BY <1>8 DEF e, f

(* An operand that has what its entry needs. *)
Usable(c, t, e) ==
  e \in OperandIn(c) /\ (e.type = "user" => e.val \in DOMAIN t.t_address)

LEMMA UsableNoted ==
  ASSUME CodeOK(code), NEW t, TablesOK(code, t), NEW e, Usable(code, t, e), NEW u, u = Note(t, e)
  PROVE  NoteStep(code, t, u, e)
BY NoteFacts DEF Usable

(* Three operands. *)
LEMMA NotesFacts ==
  ASSUME CodeOK(code), NEW t, TablesOK(code, t), GlobalsOK(code, t),
         NEW e1, Usable(code, t, e1), NEW e2, Usable(code, t, e2), NEW e3, Usable(code, t, e3),
         NEW u, u = Note(Note(Note(t, e1), e2), e3)
  PROVE  /\ TablesOK(code, u) /\ GlobalsOK(code, u) /\ Extends(t, u)
         /\ NotedIn(code, u, e1) /\ NotedIn(code, u, e2) /\ NotedIn(code, u, e3)
         /\ u.instructions = t.instructions /\ u.t_address = t.t_address
<1> DEFINE a == Note(t, e1)
           b == Note(a, e2)
<1>1. NoteStep(code, t, a, e1)
  BY UsableNoted
<1> HIDE DEF a
<1>2. TablesOK(code, a) /\ a.t_address = t.t_address
  BY <1>1 DEF NoteStep
<1>3. NoteStep(code, a, b, e2)
  BY <1>2, UsableNoted DEF Usable
<1>4. u = Note(b, e3)
  BY DEF a
<1> HIDE DEF b
<1>5. TablesOK(code, b) /\ b.t_address = t.t_address
  BY <1>2, <1>3 DEF NoteStep
<1>6. NoteStep(code, b, u, e3)
  BY <1>4, <1>5, UsableNoted DEF Usable
<1>7. t \in TargetSet /\ a \in TargetSet /\ b \in TargetSet /\ u \in TargetSet
  BY <1>1, <1>3, <1>6 DEF NoteStep, TablesOK
<1>8. Extends(t, a) /\ Extends(a, b) /\ Extends(b, u)
  BY <1>1, <1>3, <1>6 DEF NoteStep
<1>9. Extends(a, u) /\ Extends(t, u)
  BY <1>7, <1>8, ExtendsOrder
<1>10. NotedIn(code, u, e1) /\ NotedIn(code, u, e2) /\ NotedIn(code, u, e3)
  <2>1. NotedIn(code, a, e1) /\ NotedIn(code, b, e2) /\ NotedIn(code, u, e3)
    BY <1>1, <1>3, <1>6 DEF NoteStep
  <2>2. QED
    BY <1>7, <1>8, <1>9, <2>1, NotedStays
<1>11. GlobalsOK(code, u)
  <2>1. CountedIn(code, t, a) /\ CountedIn(code, a, b) /\ CountedIn(code, b, u)
    BY <1>1, <1>3, <1>6 DEF NoteStep
  <2>2. GlobalsOK(code, a)
    BY <1>7, <2>1, CountStep
  <2>3. GlobalsOK(code, b)
    BY <1>7, <2>1, <2>2, CountStep
  <2>4. QED
    BY <1>7, <2>1, <2>3, CountStep
<1>12. u.instructions = t.instructions /\ u.t_address = t.t_address
  BY <1>1, <1>3, <1>6 DEF NoteStep
<1>13. TablesOK(code, u)
  BY <1>6 DEF NoteStep
<1>14. QED
  BY <1>9, <1>10, <1>11, <1>12, <1>13

(* One more instruction: the tables stay. *)
LEMMA EmitFacts ==
  ASSUME NEW c, NEW u, TablesOK(c, u), GlobalsOK(c, u), NEW x \in Seq(Instrs), NEW w,
         w = [u EXCEPT !.instructions = x]
  PROVE  TablesOK(c, w) /\ GlobalsOK(c, w) /\ Extends(u, w) /\ w.instructions = x
         /\ w.t_address = u.t_address
<1>1. u \in TargetSet
  BY TablesHere
<1>2. RestOf(u, w, {"instructions"}) /\ w.instructions = x
  BY <1>1, TargetUpdates
<1>3. /\ w \in TargetSet /\ w.numConsts = u.numConsts /\ w.stringConsts = u.stringConsts
      /\ w.namedLibfuncs = u.namedLibfuncs /\ w.userFuncs = u.userFuncs
      /\ w.globals = u.globals /\ w.namedVarNames = u.namedVarNames /\ w.t_address = u.t_address
  BY <1>2 DEF RestOf
<1>4. Extends(u, w)
  BY <1>3, TablesHere DEF Extends
<1>5. GlobalsOK(c, w)
  BY <1>3 DEF GlobalsOK, Seen
<1>6. TablesOK(c, w)
  <2>1. ASSUME NEW i \in 1 .. Len(w.userFuncs) PROVE FuncOK(c, w, w.userFuncs[i])
    <3>1. FuncOK(c, u, u.userFuncs[i]) /\ w.userFuncs[i] = u.userFuncs[i]
      BY <1>3 DEF TablesOK
    <3>2. QED
      BY <1>3, <3>1 DEF FuncOK
  <2>2. QED
    BY <1>3, <2>1, TablesHere DEF TablesOK
<1>7. QED
  BY <1>2, <1>3, <1>4, <1>5, <1>6

LEMMA EntriesStay ==
  ASSUME NEW c, NEW t, NEW u, NEW k, EntriesOK(c, t, k), u.t_address = t.t_address
  PROVE  EntriesOK(c, u, k)
BY DEF EntriesOK

(* The instruction of a quad. *)
InstrOf(u, q) ==
  <<q.op, Operand(u, Operands(q)[1]), Operand(u, Operands(q)[2]), Operand(u, Operands(q)[3])>>

LEMMA InstrFacts ==
  ASSUME CodeOK(code), NEW u, TablesOK(code, u), StartsApart(u), NEW q, q.op \in Ops,
         \A n \in 1 .. 3 : Operands(q)[n] \in OperandIn(code),
         NotedIn(code, u, Operands(q)[1]), NotedIn(code, u, Operands(q)[2]),
         NotedIn(code, u, Operands(q)[3])
  PROVE  /\ InstrOf(u, q) \in Instrs /\ InstrFits(code, u, q, InstrOf(u, q))
         /\ ProgramsOK(code, u, InstrOf(u, q))
<1> DEFINE e1 == Operands(q)[1]
           e2 == Operands(q)[2]
           e3 == Operands(q)[3]
           instr == InstrOf(u, q)
<1>1. e1 \in OperandIn(code) /\ e2 \in OperandIn(code) /\ e3 \in OperandIn(code)
  OBVIOUS
<1>2. /\ instr = <<q.op, Operand(u, e1), Operand(u, e2), Operand(u, e3)>>
  BY DEF InstrOf
<1>3. /\ NotedIn(code, u, e1) /\ NotedIn(code, u, e2) /\ NotedIn(code, u, e3)
  OBVIOUS
<1>4. instr[1] = q.op /\ instr[2] = Operand(u, e1) /\ instr[3] = Operand(u, e2)
      /\ instr[4] = Operand(u, e3)
  BY <1>2
<1>5. InstrFits(code, u, q, instr)
        <=> instr[1] = q.op /\ Fits(code, u, e1, instr[2]) /\ Fits(code, u, e2, instr[3])
            /\ Fits(code, u, e3, instr[4])
  BY DEF InstrFits
<1> HIDE DEF e1, e2, e3, instr
<1>6. /\ Fits(code, u, e1, Operand(u, e1)) /\ Fits(code, u, e2, Operand(u, e2))
      /\ Fits(code, u, e3, Operand(u, e3))
      /\ Operand(u, e1) \in OperandSet /\ Operand(u, e2) \in OperandSet
      /\ Operand(u, e3) \in OperandSet
  BY <1>1, <1>3, OperandFits
<1>7. ProgramsOK(code, u, instr)
  BY <1>1, <1>4, <1>6, FitsProgram DEF ProgramsOK
<1>8. instr \in Instrs
  BY <1>2, <1>6 DEF Instrs
<1>9. QED
  BY <1>4, <1>5, <1>6, <1>7, <1>8 DEF instr

(* A quad becomes an instruction, with its operands entered before.       *)
LEMMA TranslateStep ==
  ASSUME CodeOK(code), NEW t, NEW k \in Nat, NEW i, i = k + 1, i \in DOMAIN code.quads,
         Ready(code, t, k), NEW q, q = code.quads[i], NEW w, w = Translate(t, q)
  PROVE  Translated(code, w, i)
<1> DEFINE e1 == Operands(q)[1]
           e2 == Operands(q)[2]
           e3 == Operands(q)[3]
           u == Note(Note(Note(t, e1), e2), e3)
           instr == InstrOf(u, q)
           s == t.instructions
           x == Append(s, instr)
<1>1. /\ Generated(code, t, k) /\ EntriesOK(code, t, i) /\ TablesOK(code, t) /\ GlobalsOK(code, t)
      /\ Len(s) = AddressOf(code, i) - 1
  BY DEF Ready, Generated
<1>2. /\ AddressOf(code, i) \in Nat /\ AddressOf(code, k) \in Nat
      /\ AddressOf(code, k) + 1 <= AddressOf(code, i)
  <2>1. i \in Nat /\ k <= i /\ i - k = 1
    OBVIOUS
  <2>2. AddressOf(code, k) + (i - k) <= AddressOf(code, i)
    BY <2>1, AddressGrows
  <2>3. AddressOf(code, i) \in Nat /\ AddressOf(code, k) \in Nat
    BY <2>1, JumpsFinite
  <2>4. QED
    BY <2>1, <2>2, <2>3
<1>3. \A n \in 1 .. 3 : /\ Operands(q)[n] \in OperandIn(code)
                        /\ Operands(q)[n].type = "user" => Operands(q)[n].val \in DOMAIN t.t_address
  BY <1>1, QuadFacts, UserEntered
<1>4. Usable(code, t, e1) /\ Usable(code, t, e2) /\ Usable(code, t, e3)
  BY <1>3 DEF Usable
<1>5. w = [u EXCEPT !.instructions = Append(@, instr)]
  BY DEF Translate, InstrOf
<1>6. /\ TablesOK(code, u) /\ GlobalsOK(code, u) /\ Extends(t, u)
      /\ NotedIn(code, u, e1) /\ NotedIn(code, u, e2) /\ NotedIn(code, u, e3)
      /\ u.instructions = s /\ u.t_address = t.t_address
  <2>1. u = Note(Note(Note(t, e1), e2), e3)
    OBVIOUS
  <2> HIDE DEF e1, e2, e3, u, s
  <2>2. /\ TablesOK(code, u) /\ GlobalsOK(code, u) /\ Extends(t, u)
        /\ NotedIn(code, u, e1) /\ NotedIn(code, u, e2) /\ NotedIn(code, u, e3)
        /\ u.instructions = t.instructions /\ u.t_address = t.t_address
    <3>1. TablesOK(code, t) /\ GlobalsOK(code, t)
      BY <1>1
    <3>2. QED
      BY <1>4, <2>1, <3>1, NotesFacts
  <2>3. QED
    BY <2>2 DEF s
<1> HIDE DEF u
<1>7. StartsApart(u)
  <2>1. EntriesOK(code, u, i) /\ i \in Nat
    BY <1>1, <1>6, EntriesStay
  <2>2. QED
    BY <2>1, EntriesApart
<1>8. instr \in Instrs /\ InstrFits(code, u, q, instr) /\ ProgramsOK(code, u, instr)
  BY <1>3, <1>6, <1>7, QuadFacts, InstrFacts
<1> HIDE DEF instr, e1, e2, e3
<1>9. s \in Seq(Instrs)
  BY <1>1, TablesHere, TargetTypes
<1>10. w = [u EXCEPT !.instructions = x]
  BY <1>5, <1>6
<1> HIDE DEF s
<1>11. /\ x \in Seq(Instrs) /\ Len(x) = Len(s) + 1 /\ x[Len(s) + 1] = instr /\ Len(s) \in Nat
       /\ \A j \in 1 .. Len(s) : x[j] = s[j]
  BY <1>8, <1>9, AppendFacts
<1> HIDE DEF x
<1>12. /\ TablesOK(code, w) /\ GlobalsOK(code, w) /\ Extends(u, w) /\ w.instructions = x
       /\ w.t_address = u.t_address
  BY <1>6, <1>10, <1>11, EmitFacts
<1>13. t \in TargetSet /\ u \in TargetSet /\ w \in TargetSet
  BY <1>1, <1>6, <1>12, TablesHere
<1>14. Extends(t, w)
  BY <1>6, <1>12, <1>13, ExtendsOrder
<1>15. InstrFits(code, w, q, instr) /\ ProgramsOK(code, w, instr)
  BY <1>8, <1>12, <1>13, InstrFitsStays
<1>16. Len(x) = AddressOf(code, i) /\ x[AddressOf(code, i)] = instr
  BY <1>1, <1>2, <1>11
<1>17. Generated(code, w, k)
  <2>1. Len(s) = Len(t.instructions) /\ AddressOf(code, k) <= Len(s)
    BY <1>1, <1>2 DEF s
  <2>2. \A j \in 1 .. Len(s) : w.instructions[j] = t.instructions[j]
    BY <1>11, <1>12 DEF s
  <2>3. \A j \in 1 .. Len(w.instructions) : j \in 1 .. Len(s) \/ ProgramsOK(code, w, w.instructions[j])
    BY <1>11, <1>12, <1>15
  <2>4. QED
    BY <1>1, <1>11, <1>12, <1>14, <2>1, <2>2, <2>3, GeneratedStays
<1>18. Generated(code, w, i)
  <2>1. ASSUME NEW j \in 1 .. i
        PROVE  InstrFits(code, w, code.quads[j], w.instructions[AddressOf(code, j)])
    <3>1. CASE j = i
      BY <1>12, <1>15, <1>16, <3>1
    <3>2. CASE j \in 1 .. k
      BY <1>17, <3>2 DEF Generated
    <3>3. QED
      BY <3>1, <3>2
  <2>2. QED
    BY <1>17, <2>1 DEF Generated
<1>19. EntriesOK(code, w, i)
  BY <1>1, <1>6, <1>12, EntriesStay
<1>20. QED
  BY <1>12, <1>16, <1>18, <1>19 DEF Translated

-----------------------------------------------------------------------------
(* The file *)

(* d is a, with the table b and its length behind it. *)
Staged(S, a, b, d) ==
  /\ d \in Seq(S) /\ Len(a) \in Nat /\ Len(b) \in Nat /\ Len(d) = Len(a) + 1 + Len(b)
  /\ Prefix(a, d) /\ d[Len(a) + 1] = Len(b)
  /\ \A i \in 1 .. Len(b) : d[Len(a) + 1 + i] = b[i]

LEMMA StageFacts ==
  ASSUME NEW S, Nat \subseteq S, NEW a \in Seq(S), NEW b \in Seq(S), NEW d, d = a \o WithLength(b)
  PROVE  Staged(S, a, b, d)
<1> DEFINE n == Len(b)
           w == WithLength(b)
<1>1. n \in Nat /\ n \in S
  OBVIOUS
<1>2. <<n>> \in Seq(S) /\ Len(<<n>>) = 1 /\ <<n>>[1] = n
  BY <1>1
<1>3. w = <<n>> \o b
  BY DEF WithLength
<1> HIDE DEF n, w
<1>4. Joined(S, <<n>>, b, w)
  BY <1>2, <1>3, ConcatParts
<1>5. w \in Seq(S) /\ Len(w) = 1 + Len(b)
  BY <1>2, <1>4 DEF Joined
<1>6. w[1] = n /\ \A i \in 1 .. Len(b) : w[1 + i] = b[i]
  <2>1. \A i \in 1 .. 1 : w[i] = <<n>>[i]
    BY <1>2, <1>4 DEF Joined
  <2>2. \A i \in 1 .. Len(b) : w[1 + i] = b[i]
    BY <1>2, <1>4 DEF Joined
  <2>3. QED
    BY <1>2, <2>1, <2>2
<1>7. Joined(S, a, w, d)
  BY <1>5, ConcatParts DEF w
<1>8. d \in Seq(S) /\ Len(d) = Len(a) + Len(w) /\ Len(a) \in Nat /\ Len(w) \in Nat
  BY <1>7 DEF Joined
<1>9. Len(d) = Len(a) + 1 + Len(b) /\ Len(b) \in Nat
  BY <1>1, <1>5, <1>8 DEF n
<1>10. Prefix(a, d)
  BY <1>7, <1>8 DEF Joined, Prefix
<1>11. d[Len(a) + 1] = n
  <2>1. 1 \in 1 .. Len(w)
    BY <1>5, <1>9
  <2>2. d[Len(a) + 1] = w[1]
    BY <1>7, <2>1 DEF Joined
  <2>3. QED
    BY <1>6, <2>2
<1>12. ASSUME NEW i \in 1 .. Len(b) PROVE d[Len(a) + 1 + i] = b[i]
  <2>1. 1 + i \in 1 .. Len(w) /\ Len(a) + 1 + i = Len(a) + (1 + i)
    BY <1>5, <1>8, <1>9
  <2>2. d[Len(a) + (1 + i)] = w[1 + i]
    BY <1>7, <2>1 DEF Joined
  <2>3. QED
    BY <1>6, <2>1, <2>2
<1>13. QED
  BY <1>8, <1>9, <1>10, <1>11, <1>12 DEF Staged, n

(* What is read of a table from the position of its length on. *)
LEMMA StageRead ==
  ASSUME NEW S, NEW a, NEW b \in Seq(S), NEW d, Staged(S, a, b, d), NEW s \in Seq(S), Prefix(d, s)
  PROVE  /\ s[Len(a) + 1] = Len(b)
         /\ SubSeq(s, Len(a) + 1 + 1, Len(a) + 1 + Len(b)) = b
<1>1. /\ Len(a) \in Nat /\ Len(b) \in Nat /\ Len(d) = Len(a) + 1 + Len(b) /\ Len(s) \in Nat
      /\ d[Len(a) + 1] = Len(b) /\ \A i \in 1 .. Len(b) : d[Len(a) + 1 + i] = b[i]
  BY DEF Staged
<1>2. Len(d) <= Len(s) /\ \A i \in 1 .. Len(d) : s[i] = d[i]
  BY DEF Prefix
<1>3. s[Len(a) + 1] = Len(b)
  <2>1. Len(a) + 1 \in 1 .. Len(d)
    BY <1>1
  <2>2. QED
    BY <1>1, <1>2, <2>1
<1> DEFINE k == Len(a) + 1
<1>4. k \in Nat /\ k + Len(b) <= Len(s)
  BY <1>1, <1>2
<1>5. ASSUME NEW i \in 1 .. Len(b) PROVE s[k + i] = b[i]
  <2>1. k + i \in 1 .. Len(d)
    BY <1>1
  <2>2. QED
    BY <1>1, <1>2, <2>1
<1> HIDE DEF k
<1>6. SubSeq(s, k + 1, k + Len(b)) = b
  BY <1>4, <1>5, PartOf
<1>7. QED
  BY <1>3, <1>6 DEF k

(* The file in stages. *)
Items == Int \cup Instrs \cup FuncSet

TablesIn(t) ==
  [globals |-> t.globals, instructions |-> t.instructions, numConsts |-> t.numConsts,
   stringConsts |-> t.stringConsts, userFuncs |-> t.userFuncs, namedLibfuncs |-> t.namedLibfuncs]

LEMMA ItemTables ==
  ASSUME NEW t \in TargetSet
  PROVE  /\ t.instructions \in Seq(Items) /\ t.numConsts \in Seq(Items)
         /\ t.stringConsts \in Seq(Items) /\ t.userFuncs \in Seq(Items)
         /\ t.namedLibfuncs \in Seq(Items) /\ <<t.globals>> \in Seq(Items)
         /\ Nat \subseteq Items
<1>1. Int \subseteq Items /\ Instrs \subseteq Items /\ FuncSet \subseteq Items
  BY Zenon DEF Items
<1>2. /\ Seq(Int) \subseteq Seq(Items) /\ Seq(Instrs) \subseteq Seq(Items)
      /\ Seq(FuncSet) \subseteq Seq(Items)
  BY <1>1, SeqMonotonic
<1>3. Nat \subseteq Items
  BY <1>1
<1>4. <<t.globals>> \in Seq(Items)
  BY <1>3, TargetTypes
<1>5. QED
  BY <1>2, <1>3, <1>4, TargetTypes

LEMMA PrefixChain ==
  ASSUME NEW S, NEW a, NEW b, NEW d, Staged(S, a, b, d), NEW s \in Seq(S), Prefix(d, s),
         a \in Seq(S)
  PROVE  Prefix(a, s)
<1>1. Prefix(a, d) /\ Len(a) \in Nat /\ Len(d) \in Nat /\ Len(s) \in Nat
  BY DEF Staged
<1>2. QED
  BY <1>1, PrefixTrans

(* What Read finds: the tables that have been written. *)
TableFrom(s, p)  == SubSeq(s, p + 1, p + s[p])
BehindIn(s, p)   == p + s[p] + 1

(* What is read are the tables that were written.                         *)
LEMMA FileRead ==
  ASSUME NEW t \in TargetSet, NEW s, s = FileOf(t)
  PROVE  /\ s[1] = t.globals /\ TableFrom(s, 2) = t.instructions
         /\ TableFrom(s, BehindIn(s, 2)) = t.numConsts
         /\ TableFrom(s, BehindIn(s, BehindIn(s, 2))) = t.stringConsts
         /\ TableFrom(s, BehindIn(s, BehindIn(s, BehindIn(s, 2)))) = t.userFuncs
         /\ TableFrom(s, BehindIn(s, BehindIn(s, BehindIn(s, BehindIn(s, 2))))) = t.namedLibfuncs
<1> DEFINE S  == Items
           b1 == t.instructions
           b2 == t.numConsts
           b3 == t.stringConsts
           b4 == t.userFuncs
           b5 == t.namedLibfuncs
           a0 == <<t.globals>>
           a1 == a0 \o WithLength(b1)
           a2 == a1 \o WithLength(b2)
           a3 == a2 \o WithLength(b3)
           a4 == a3 \o WithLength(b4)
           a5 == a4 \o WithLength(b5)
<1>1. /\ b1 \in Seq(S) /\ b2 \in Seq(S) /\ b3 \in Seq(S) /\ b4 \in Seq(S) /\ b5 \in Seq(S)
      /\ a0 \in Seq(S) /\ Nat \subseteq S
  BY ItemTables
<1>2. Len(a0) = 1 /\ a0[1] = t.globals
  OBVIOUS
<1>3. s = a5
  BY DEF FileOf
<1> HIDE DEF S, b1, b2, b3, b4, b5, a0
<1>4. Staged(S, a0, b1, a1)
  BY <1>1, StageFacts
<1> HIDE DEF a1
<1>5. a1 \in Seq(S)
  BY <1>4 DEF Staged
<1>6. Staged(S, a1, b2, a2)
  BY <1>1, <1>5, StageFacts
<1> HIDE DEF a2
<1>7. a2 \in Seq(S)
  BY <1>6 DEF Staged
<1>8. Staged(S, a2, b3, a3)
  BY <1>1, <1>7, StageFacts
<1> HIDE DEF a3
<1>9. a3 \in Seq(S)
  BY <1>8 DEF Staged
<1>10. Staged(S, a3, b4, a4)
  BY <1>1, <1>9, StageFacts
<1> HIDE DEF a4
<1>11. a4 \in Seq(S)
  BY <1>10 DEF Staged
<1>12. Staged(S, a4, b5, a5)
  BY <1>1, <1>11, StageFacts
<1> HIDE DEF a5
<1>13. s \in Seq(S) /\ Len(s) \in Nat
  BY <1>3, <1>12 DEF Staged
<1>14. Prefix(a5, s)
  BY <1>3, <1>13, PrefixSame
<1>15. Prefix(a4, s)
  BY <1>11, <1>12, <1>13, <1>14, PrefixChain
<1>16. Prefix(a3, s)
  BY <1>9, <1>10, <1>13, <1>15, PrefixChain
<1>17. Prefix(a2, s)
  BY <1>7, <1>8, <1>13, <1>16, PrefixChain
<1>18. Prefix(a1, s)
  BY <1>5, <1>6, <1>13, <1>17, PrefixChain
<1>19. Prefix(a0, s)
  BY <1>1, <1>4, <1>13, <1>18, PrefixChain
<1>20. s[1] = t.globals
  BY <1>2, <1>19 DEF Prefix
<1>21. Len(a0) + 1 = 2
  BY <1>2
<1>22. s[Len(a0) + 1] = Len(b1) /\ SubSeq(s, Len(a0) + 1 + 1, Len(a0) + 1 + Len(b1)) = b1
  BY <1>1, <1>4, <1>13, <1>18, StageRead
<1>23. s[Len(a1) + 1] = Len(b2) /\ SubSeq(s, Len(a1) + 1 + 1, Len(a1) + 1 + Len(b2)) = b2
  BY <1>1, <1>6, <1>13, <1>17, StageRead
<1>24. s[Len(a2) + 1] = Len(b3) /\ SubSeq(s, Len(a2) + 1 + 1, Len(a2) + 1 + Len(b3)) = b3
  BY <1>1, <1>8, <1>13, <1>16, StageRead
<1>25. s[Len(a3) + 1] = Len(b4) /\ SubSeq(s, Len(a3) + 1 + 1, Len(a3) + 1 + Len(b4)) = b4
  BY <1>1, <1>10, <1>13, <1>15, StageRead
<1>26. s[Len(a4) + 1] = Len(b5) /\ SubSeq(s, Len(a4) + 1 + 1, Len(a4) + 1 + Len(b5)) = b5
  BY <1>1, <1>12, <1>13, <1>14, StageRead
<1>27. /\ TableFrom(s, Len(a0) + 1) = b1 /\ TableFrom(s, Len(a1) + 1) = b2
       /\ TableFrom(s, Len(a2) + 1) = b3 /\ TableFrom(s, Len(a3) + 1) = b4
       /\ TableFrom(s, Len(a4) + 1) = b5
  BY <1>22, <1>23, <1>24, <1>25, <1>26, Zenon DEF TableFrom
<1>28. /\ Len(a1) = Len(a0) + 1 + Len(b1) /\ Len(a2) = Len(a1) + 1 + Len(b2)
       /\ Len(a3) = Len(a2) + 1 + Len(b3) /\ Len(a4) = Len(a3) + 1 + Len(b4)
  BY <1>4, <1>6, <1>8, <1>10 DEF Staged
<1>29. /\ BehindIn(s, Len(a0) + 1) = Len(a1) + 1 /\ BehindIn(s, Len(a1) + 1) = Len(a2) + 1
       /\ BehindIn(s, Len(a2) + 1) = Len(a3) + 1 /\ BehindIn(s, Len(a3) + 1) = Len(a4) + 1
  BY <1>22, <1>23, <1>24, <1>25, <1>28, Zenon DEF BehindIn
<1>30. QED
  BY <1>20, <1>21, <1>27, <1>29, Zenon DEF b1, b2, b3, b4, b5

-----------------------------------------------------------------------------
(* The inductive invariant *)

NoTarget ==
  [instructions |-> <<>>, numConsts |-> <<>>, stringConsts |-> <<>>, userFuncs |-> <<>>,
   namedLibfuncs |-> <<>>, globals |-> 0, namedVarNames |-> {}, t_address |-> <<>>]

Phases == {"parsing", "generating", "reading", "loaded", "refused"}

FileInv ==
  /\ PInv
  /\ phase \in Phases /\ nextQuad \in 1 .. Len(code.quads) + 1
  /\ phase = "parsing" => target = NoTarget /\ nextQuad = 1
  /\ phase # "parsing" => Translated(code, target, nextQuad - 1)
  /\ phase \in {"reading", "loaded", "refused"} =>
       nextQuad = Len(code.quads) + 1 /\ file = FileOf(target)
  /\ phase = "loaded" => avm = TablesIn(target)

LEMMA NothingTranslated ==
  ASSUME NEW c, CodeOK(c)
  PROVE  NoTarget \in TargetSet /\ Translated(c, NoTarget, 0)
<1> DEFINE t == NoTarget
<1>1. /\ t.instructions = <<>> /\ t.numConsts = <<>> /\ t.stringConsts = <<>>
      /\ t.userFuncs = <<>> /\ t.namedLibfuncs = <<>> /\ t.globals = 0
      /\ t.namedVarNames = {} /\ t.t_address = <<>>
  BY DEF NoTarget
<1>2. <<>> \in Addresses
  <2>1. DOMAIN <<>> = {} /\ <<>> \in [{} -> Nat]
    OBVIOUS
  <2>2. {} \in SUBSET Int
    OBVIOUS
  <2>3. QED
    BY <2>1, <2>2 DEF Addresses
<1>3. t \in TargetSet
  BY <1>2 DEF NoTarget, TargetSet
<1> HIDE DEF t
<1>4. TablesOK(c, t)
  BY <1>1, <1>3 DEF TablesOK, IsInjective, Apart
<1>5. GlobalsOK(c, t)
  <2>1. Seen(c, t) = {}
    BY <1>1 DEF Seen
  <2>2. QED
    BY <1>1, <2>1, FS_EmptySet DEF GlobalsOK
<1>6. EntriesOK(c, t, 0)
  BY <1>1 DEF EntriesOK
<1>7. Generated(c, t, 0)
  BY <1>1, <1>4, <1>5 DEF Generated
<1>8. Len(t.instructions) = AddressOf(c, 0)
  BY <1>1, AddressNone
<1>9. QED
  BY <1>3, <1>6, <1>7, <1>8 DEF Translated, t

LEMMA FileInit == BInit => FileInv
<1> SUFFICES ASSUME BInit PROVE FileInv
  OBVIOUS
<1>1. PInv
  BY ParseInit DEF BInit
<1>2. phase = "parsing" /\ nextQuad = 1 /\ target = NoTarget
  BY DEF BInit, NoTarget
<1>3. Len(code.quads) \in Nat
  BY <1>1, CodeFields DEF PInv, ParserInv
<1>4. QED
  BY <1>1, <1>2, <1>3 DEF FileInv, Phases

LEMMA CodeHere ==
  ASSUME PInv
  PROVE  CodeOK(code) /\ Len(code.quads) \in Nat /\ DOMAIN code.quads = 1 .. Len(code.quads)
BY CodeFields DEF PInv, ParserInv

LEMMA BParseInv ==
  ASSUME FileInv, BParse
  PROVE  FileInv'
<1>1. PInv'
  BY ParseStep DEF FileInv, BParse
<1>2. phase' = "parsing" /\ target' = NoTarget /\ nextQuad' = 1
  BY DEF FileInv, BParse
<1>3. Len(code'.quads) \in Nat
  <2>1. CodeOK(code')
    BY <1>1 DEF PInv, ParserInv
  <2>2. QED
    BY <2>1, CodeFields
<1>4. QED
  BY <1>1, <1>2, <1>3 DEF FileInv, Phases

LEMMA StartGeneratingInv ==
  ASSUME FileInv, StartGenerating
  PROVE  FileInv'
<1>1. PInv' /\ code' = code
  BY ParseStutters DEF FileInv, StartGenerating, vars
<1>2. phase' = "generating" /\ target' = NoTarget /\ nextQuad' = 1
  BY DEF FileInv, StartGenerating
<1>3. Translated(code, NoTarget, 0) /\ Len(code.quads) \in Nat
  BY CodeHere, NothingTranslated DEF FileInv
<1>4. Translated(code', target', nextQuad' - 1)
  BY <1>1, <1>2, <1>3
<1>5. nextQuad' \in 1 .. Len(code'.quads) + 1
  BY <1>1, <1>2, <1>3
<1>6. QED
  BY <1>1, <1>2, <1>4, <1>5 DEF FileInv, Phases

LEMMA GenerateInv ==
  ASSUME FileInv, Generate
  PROVE  FileInv'
<1> DEFINE q == code.quads[nextQuad]
           k == nextQuad - 1
           u == IF q.op = "func_start" THEN EnterFunction(target, q.result.val) ELSE target
<1>1. PInv' /\ code' = code /\ phase' = "generating" /\ phase = "generating"
  BY ParseStutters DEF FileInv, Generate, vars
<1>2. /\ nextQuad \in DOMAIN code.quads /\ nextQuad' = nextQuad + 1
      /\ target' = Translate(u, q)
  BY DEF Generate, GenerateQuad
<1>3. /\ CodeOK(code) /\ Len(code.quads) \in Nat /\ nextQuad \in 1 .. Len(code.quads)
      /\ k \in Nat /\ nextQuad = k + 1
  BY <1>2, CodeHere DEF FileInv
<1>4. Translated(code, target, k)
  BY <1>1 DEF FileInv
<1>5. Ready(code, u, k)
  BY <1>2, <1>3, <1>4, ReadyStep
<1> HIDE DEF u
<1>6. Translated(code, target', nextQuad)
  BY <1>2, <1>3, <1>5, TranslateStep
<1>7. nextQuad' - 1 = nextQuad /\ nextQuad' \in 1 .. Len(code.quads) + 1
  BY <1>2, <1>3
<1>8. Translated(code', target', nextQuad' - 1) /\ nextQuad' \in 1 .. Len(code'.quads) + 1
  BY <1>1, <1>6, <1>7
<1>9. QED
  BY <1>1, <1>8 DEF FileInv, Phases

LEMMA WriteInv ==
  ASSUME FileInv, Write
  PROVE  FileInv'
<1>1. PInv' /\ code' = code /\ target' = target /\ nextQuad' = nextQuad
  BY ParseStutters DEF FileInv, Write, vars
<1>2. phase = "generating" /\ phase' = "reading" /\ file' = FileOf(target)
  BY DEF Write
<1>3. nextQuad = Len(code.quads) + 1
  BY CodeHere DEF FileInv, Write
<1>4. file' = FileOf(target')
  BY <1>1, <1>2
<1>5. Translated(code', target', nextQuad' - 1) /\ nextQuad' \in 1 .. Len(code'.quads) + 1
  BY <1>1, <1>2 DEF FileInv
<1>6. nextQuad' = Len(code'.quads) + 1
  BY <1>1, <1>3
<1>7. QED
  BY <1>1, <1>2, <1>4, <1>5, <1>6 DEF FileInv, Phases

LEMMA ReadInv ==
  ASSUME FileInv, Read
  PROVE  FileInv'
<1>1. /\ PInv' /\ code' = code /\ target' = target /\ nextQuad' = nextQuad /\ file' = file
  BY ParseStutters DEF FileInv, Read, vars
<1>2. phase = "reading" /\ phase' = "loaded" /\ file = FileOf(target)
  BY DEF FileInv, Read
<1>3. target \in TargetSet
  BY <1>2, TablesHere DEF FileInv, Translated, Generated
<1>4. /\ file[1] = target.globals /\ TableFrom(file, 2) = target.instructions
      /\ TableFrom(file, BehindIn(file, 2)) = target.numConsts
      /\ TableFrom(file, BehindIn(file, BehindIn(file, 2))) = target.stringConsts
      /\ TableFrom(file, BehindIn(file, BehindIn(file, BehindIn(file, 2)))) = target.userFuncs
      /\ TableFrom(file, BehindIn(file, BehindIn(file, BehindIn(file, BehindIn(file, 2)))))
           = target.namedLibfuncs
  BY <1>2, <1>3, FileRead
<1>5. (\A p : TableAt(p) = TableFrom(file, p)) /\ (\A p : Behind(p) = BehindIn(file, p))
  BY Zenon DEF TableAt, TableFrom, Behind, BehindIn
<1>6. avm' = [globals |-> file[1], instructions |-> TableAt(2),
              numConsts |-> TableAt(Behind(2)), stringConsts |-> TableAt(Behind(Behind(2))),
              userFuncs |-> TableAt(Behind(Behind(Behind(2)))),
              namedLibfuncs |-> TableAt(Behind(Behind(Behind(Behind(2)))))]
  BY Zenon DEF Read
<1>7. avm' = TablesIn(target)
  BY <1>4, <1>5, <1>6, Zenon DEF TablesIn
<1>8. avm' = TablesIn(target') /\ file' = FileOf(target')
  BY <1>1, <1>2, <1>7
<1>9. /\ Translated(code', target', nextQuad' - 1) /\ nextQuad' \in 1 .. Len(code'.quads) + 1
      /\ nextQuad' = Len(code'.quads) + 1
  BY <1>1, <1>2 DEF FileInv
<1>10. QED
  BY <1>1, <1>2, <1>8, <1>9 DEF FileInv, Phases

LEMMA RefuseInv ==
  ASSUME FileInv, Refuse
  PROVE  FileInv'
<1>1. /\ PInv' /\ code' = code /\ target' = target /\ nextQuad' = nextQuad /\ file' = file
  BY ParseStutters DEF FileInv, Refuse, vars
<1>2. phase = "reading" /\ phase' = "refused"
  BY DEF Refuse
<1>3. /\ Translated(code', target', nextQuad' - 1) /\ nextQuad' \in 1 .. Len(code'.quads) + 1
      /\ nextQuad' = Len(code'.quads) + 1 /\ file' = FileOf(target')
  BY <1>1, <1>2 DEF FileInv
<1>4. QED
  BY <1>1, <1>2, <1>3 DEF FileInv, Phases

LEMMA FileStutters ==
  ASSUME FileInv, UNCHANGED bvars
  PROVE  FileInv'
<1>1. UNCHANGED vars /\ phase' = phase /\ nextQuad' = nextQuad /\ target' = target
      /\ file' = file /\ avm' = avm
  BY DEF bvars
<1>2. PInv' /\ code' = code
  BY <1>1, ParseStutters DEF FileInv, vars
<1>3. QED
  BY <1>1, <1>2 DEF FileInv

LEMMA FileStep ==
  ASSUME FileInv, [Next]_bvars
  PROVE  FileInv'
<1>1. CASE BParse
  BY <1>1, BParseInv
<1>2. CASE NeverEnds \/ Finished \/ UNCHANGED bvars
  BY <1>2, FileStutters DEF NeverEnds, Finished
<1>3. CASE StartGenerating
  BY <1>3, StartGeneratingInv
<1>4. CASE Generate
  BY <1>4, GenerateInv
<1>5. CASE Write
  BY <1>5, WriteInv
<1>6. CASE Read
  BY <1>6, ReadInv
<1>7. CASE Refuse
  BY <1>7, RefuseInv
<1>8. QED
  BY <1>1, <1>2, <1>3, <1>4, <1>5, <1>6, <1>7, Zenon DEF Next

-----------------------------------------------------------------------------
(* What the machine makes of operands *)

LEMMA LoadedFacts ==
  ASSUME FileInv, phase = "loaded", NEW k, k = Len(code.quads)
  PROVE  /\ CodeOK(code) /\ k \in Nat /\ Translated(code, target, k) /\ target \in TargetSet
         /\ avm.instructions = target.instructions /\ avm.numConsts = target.numConsts
         /\ avm.stringConsts = target.stringConsts /\ avm.userFuncs = target.userFuncs
         /\ avm.namedLibfuncs = target.namedLibfuncs /\ avm.globals = target.globals
<1>1. CodeOK(code) /\ k \in Nat
  BY CodeHere DEF FileInv
<1>2. Translated(code, target, nextQuad - 1) /\ nextQuad = k + 1 /\ avm = TablesIn(target)
  BY DEF FileInv
<1>3. nextQuad - 1 = k
  BY <1>1, <1>2
<1>4. Translated(code, target, k)
  BY <1>2, <1>3
<1>5. target \in TargetSet
  BY <1>4, TablesHere DEF Translated, Generated
<1>6. /\ avm.instructions = target.instructions /\ avm.numConsts = target.numConsts
      /\ avm.stringConsts = target.stringConsts /\ avm.userFuncs = target.userFuncs
      /\ avm.namedLibfuncs = target.namedLibfuncs /\ avm.globals = target.globals
  BY <1>2 DEF TablesIn
<1>7. QED
  BY <1>1, <1>4, <1>5, <1>6

(* The entry with an address. *)
LEMMA FuncInfo ==
  ASSUME NEW s \in Seq(FuncSet), Apart(s), NEW i \in 1 .. Len(s)
  PROVE  (CHOOSE u \in Range(s) : u.address = s[i].address) = s[i]
<1> DEFINE u == CHOOSE u \in Range(s) : u.address = s[i].address
<1>1. s[i] \in Range(s)
  BY DEF Range
<1>2. u \in Range(s) /\ u.address = s[i].address
  BY <1>1
<1> HIDE DEF u
<1>3. PICK j \in 1 .. Len(s) : u = s[j]
  BY <1>2 DEF Range
<1>4. j = i
  BY <1>2, <1>3 DEF Apart
<1>5. u = s[i]
  BY <1>3, <1>4
<1>6. QED
  BY <1>5 DEF u

(* At a is the func_start of f. *)
EnterOf(t, a, f) ==
  /\ t.instructions[a + 1][1] = "func_start"
  /\ t.userFuncs[t.instructions[a + 1][2].val + 1].id = f

LEMMA StartFits ==
  ASSUME NEW c, CodeOK(c), NEW t, NEW k, k = Len(c.quads), Translated(c, t, k), NEW f,
         f \in DOMAIN t.t_address, NEW address, address = t.t_address[f]
  PROVE  EnterOf(t, address, f)
<1> DEFINE enter == t.instructions[t.t_address[f] + 1]
<1>1. k \in Nat /\ DOMAIN c.quads = 1 .. k
  BY CodeFields
<1>2. PICK j \in 1 .. k : Starts(c.quads[j], f) /\ t.t_address[f] = AddressOf(c, j) - 1
  BY DEF Translated, EntriesOK
<1>3. t.t_address[f] + 1 = AddressOf(c, j)
  <2>1. j \in Nat
    BY <1>1
  <2>2. AddressOf(c, j) \in Nat
    BY <2>1, JumpsFinite
  <2> DEFINE a == AddressOf(c, j)
             b == t.t_address[f]
  <2>3. b = a - 1 /\ a \in Nat
    BY <1>2, <2>2
  <2> HIDE DEF a, b
  <2>4. b + 1 = a
    BY <2>3
  <2>5. QED
    BY <2>4 DEF a, b
<1>4. enter = t.instructions[AddressOf(c, j)]
  BY <1>3
<1> HIDE DEF enter
<1>5. InstrFits(c, t, c.quads[j], enter)
  BY <1>4 DEF Translated, Generated
<1>6. c.quads[j].op = "func_start" /\ c.quads[j].result = User(f)
  BY <1>2 DEF Starts
<1>7. Operands(c.quads[j])[1] = User(f)
  BY <1>6 DEF Operands
<1>8. enter[1] = "func_start" /\ Fits(c, t, User(f), enter[2])
  BY <1>5, <1>6, <1>7 DEF InstrFits
<1>9. User(f).type = "user" /\ User(f).val = f
  BY DEF User, Expr
<1>10. t.userFuncs[enter[2].val + 1].id = f
  BY <1>8, <1>9 DEF Fits
<1>11. QED
  BY <1>8, <1>10 DEF enter, EnterOf

(* What fits is read as what was meant, once all is translated.           *)
LEMMA MeaningFits ==
  ASSUME FileInv, phase = "loaded", NEW e \in OperandIn(code), NEW op, Fits(code, target, e, op)
  PROVE  Meaning(op) = Meant(e)
<1> DEFINE k == Len(code.quads)
           t == target
<1>1. /\ CodeOK(code) /\ k \in Nat /\ Translated(code, t, k) /\ t \in TargetSet
      /\ avm.instructions = t.instructions /\ avm.numConsts = t.numConsts
      /\ avm.stringConsts = t.stringConsts /\ avm.userFuncs = t.userFuncs
      /\ avm.namedLibfuncs = t.namedLibfuncs /\ TablesOK(code, t)
  BY LoadedFacts DEF Translated, Generated
<1> HIDE DEF k, t
<1>2. /\ e.type \in {"number", "string", "lib", "user", "var", "element", "null", "retval"}
      /\ OfSymbol(e) => e.val \in DOMAIN code.symbols /\ code.symbols[e.val] \in SymbolSet
      /\ e.type \in {"number", "string", "lib", "user"} => e \in PlainIn(code)
  BY <1>1, OperandKinds
<1>3. Fits(code, t, e, op)
  BY DEF t
<1>4. CASE e.type = "number"
  <2>1. op.type = "number" /\ t.numConsts[op.val + 1] = e.val
    BY <1>3, <1>4 DEF Fits
  <2>2. Meaning(op) = Num(e.val)
    BY <1>1, <2>1 DEF Meaning
  <2>3. e = Num(e.val)
    BY <1>2, <1>4 DEF PlainIn, Num, Expr
  <2>4. QED
    BY <1>4, <2>2, <2>3 DEF Meant
<1>5. CASE e.type = "string"
  <2>1. op.type = "string" /\ t.stringConsts[op.val + 1] = e.val
    BY <1>3, <1>5 DEF Fits
  <2>2. Meaning(op) = Str(e.val)
    BY <1>1, <2>1 DEF Meaning
  <2>3. e = Str(e.val)
    BY <1>2, <1>5 DEF PlainIn, Str, Expr
  <2>4. QED
    BY <1>5, <2>2, <2>3 DEF Meant
<1>6. CASE e.type = "lib"
  <2>1. op.type = "lib" /\ t.namedLibfuncs[op.val + 1] = e.val
    BY <1>3, <1>6 DEF Fits
  <2>2. Meaning(op) = Expr("lib", e.val)
    BY <1>1, <2>1 DEF Meaning
  <2>3. e = Expr("lib", e.val)
    BY <1>2, <1>6 DEF PlainIn, Expr
  <2>4. QED
    BY <1>6, <2>2, <2>3 DEF Meant
<1>7. CASE e.type = "user"
  <2> DEFINE v == op.val + 1
             f == e.val
             x == t.userFuncs[v]
             address == x.address
             info == CHOOSE u \in Range(t.userFuncs) : u.address = address
             enter == t.instructions[address + 1]
  <2>1. op.type = "user" /\ v \in 1 .. Len(t.userFuncs) /\ x.id = f
    BY <1>3, <1>7 DEF Fits
  <2>2. FuncOK(code, t, x) /\ Apart(t.userFuncs) /\ t.userFuncs \in Seq(FuncSet)
    BY <1>1, <2>1, TargetTypes DEF TablesOK
  <2>3. f \in DOMAIN t.t_address /\ x.address = t.t_address[f]
        /\ x.localSize = code.functions[f].total_locals
    BY <2>1, <2>2 DEF FuncOK
  <2>4. info = x
    BY <2>1, <2>2, FuncInfo
  <2>5. enter[1] = "func_start" /\ t.userFuncs[enter[2].val + 1].id = f
    <3>1. k = Len(code.quads)
      BY DEF k
    <3>2. f \in DOMAIN t.t_address /\ address = t.t_address[f]
      BY <2>3
    <3> HIDE DEF x, address, f
    <3>3. EnterOf(t, address, f)
      BY <1>1, <3>1, <3>2, StartFits
    <3>4. QED
      BY <3>3 DEF EnterOf
  <2>6. Meaning(op) = [id |-> info.id, locals |-> info.localSize, enters |-> enter[1],
                       as |-> t.userFuncs[enter[2].val + 1].id]
    BY <1>1, <2>1 DEF Meaning
  <2>7. Meant(e) = [id |-> f, locals |-> code.functions[f].total_locals,
                    enters |-> "func_start", as |-> f]
    BY <1>7 DEF Meant
  <2> HIDE DEF info, enter, x, address
  <2>8. QED
    BY <2>1, <2>3, <2>4, <2>5, <2>6, <2>7
<1>8. CASE e.type \in {"var", "element"}
  <2>1. OfSymbol(e)
    BY <1>8 DEF OfSymbol
  <2>2. op = [type |-> code.symbols[e.val].space, val |-> code.symbols[e.val].offset]
    BY <1>3, <2>1 DEF Fits
  <2>3. code.symbols[e.val].space \in {"program", "local", "formal"}
    BY <1>2, <2>1 DEF SymbolSet
  <2>4. Meaning(op) = op
    BY <2>2, <2>3 DEF Meaning
  <2>5. Meant(e) = Operand(target, e)
    BY <1>8 DEF Meant
  <2>6. Operand(target, e) = op
    BY <1>8, <2>1, <2>2 DEF Operand
  <2>7. QED
    BY <2>4, <2>5, <2>6
<1>9. CASE e.type = "retval"
  <2>1. op = [type |-> "retval", val |-> 0]
    BY <1>3, <1>9 DEF Fits
  <2>2. Meaning(op) = op
    BY <2>1 DEF Meaning
  <2>3. Meant(e) = Operand(target, e) /\ Operand(target, e) = op
    BY <1>9, <2>1 DEF Meant, Operand, OfSymbol
  <2>4. QED
    BY <2>2, <2>3
<1>10. CASE e.type = "null"
  <2>1. op = [type |-> "255", val |-> -1]
    BY <1>3, <1>10 DEF Fits
  <2>2. Meaning(op) = op
    BY <2>1 DEF Meaning
  <2>3. Meant(e) = Operand(target, e) /\ Operand(target, e) = op
    BY <1>10, <2>1 DEF Meant, Operand, OfSymbol
  <2>4. QED
    BY <2>2, <2>3
<1>11. QED
  BY <1>2, <1>4, <1>5, <1>6, <1>7, <1>8, <1>9, <1>10

LEMMA AddressSame ==
  ASSUME NEW i
  PROVE  Address(i) = AddressOf(code, i)
BY DEF Address, AddressOf, Jumps

LEMMA FileMeans ==
  ASSUME FileInv
  PROVE  FileMeansQuads
<1> SUFFICES ASSUME phase = "loaded"
             PROVE  /\ Len(avm.instructions) = Address(Len(code.quads))
                    /\ \A i \in DOMAIN code.quads :
                         LET instr == avm.instructions[Address(i)] IN
                         /\ instr[1] = code.quads[i].op
                         /\ \A n \in 1 .. 3 : Meaning(instr[n + 1]) = Meant(Operands(code.quads[i])[n])
  BY DEF FileMeansQuads
<1> DEFINE k == Len(code.quads)
<1>1. /\ CodeOK(code) /\ k \in Nat /\ Translated(code, target, k)
      /\ avm.instructions = target.instructions
  BY LoadedFacts
<1>2. Len(avm.instructions) = Address(k)
  BY <1>1, AddressSame DEF Translated
<1>3. ASSUME NEW i \in DOMAIN code.quads
      PROVE  LET instr == avm.instructions[Address(i)] IN
             /\ instr[1] = code.quads[i].op
             /\ \A n \in 1 .. 3 : Meaning(instr[n + 1]) = Meant(Operands(code.quads[i])[n])
  <2> DEFINE instr == avm.instructions[Address(i)]
             q == code.quads[i]
  <2>1. i \in 1 .. k
    BY <1>1, CodeFields
  <2>2. InstrFits(code, target, q, instr)
    BY <1>1, <2>1, AddressSame DEF Translated, Generated
  <2>3. /\ Operands(q)[1] \in OperandIn(code) /\ Operands(q)[2] \in OperandIn(code)
        /\ Operands(q)[3] \in OperandIn(code)
    BY <1>1, QuadFacts
  <2> HIDE DEF instr, q
  <2>4. /\ Meaning(instr[2]) = Meant(Operands(q)[1]) /\ Meaning(instr[3]) = Meant(Operands(q)[2])
        /\ Meaning(instr[4]) = Meant(Operands(q)[3])
    BY <2>2, <2>3, MeaningFits DEF InstrFits
  <2>5. \A n \in 1 .. 3 : Meaning(instr[n + 1]) = Meant(Operands(q)[n])
    <3> TAKE n \in 1 .. 3
    <3>1. CASE n = 1
      BY <2>4, <3>1
    <3>2. CASE n = 2
      BY <2>4, <3>2
    <3>3. CASE n = 3
      BY <2>4, <3>3
    <3>4. QED
      BY <3>1, <3>2, <3>3
  <2>6. instr[1] = q.op
    BY <2>2 DEF InstrFits
  <2>7. QED
    BY <2>5, <2>6 DEF instr, q
<1>4. QED
  BY <1>2, <1>3

-----------------------------------------------------------------------------
(* Globals *)

LEMMA GlobalsBound ==
  ASSUME CodeOK(code)
  PROVE  Cardinality(ProgramNames(code)) <= Cardinality(Globals)
<1> DEFINE P == ProgramSymbols(code)
           f == [s \in P |-> code.symbols[s]]
           g == [x \in Globals |-> x.name]
<1>1. f \in Surjection(P, Globals)
  <2>1. f \in [P -> Globals]
    BY DEF Globals, ProgramSymbols, Range
  <2>2. \A x \in Globals : \E s \in P : f[s] = x
    BY DEF Globals, ProgramSymbols, Range
  <2>3. QED
    BY <2>1, <2>2 DEF Surjection
<1>2. IsFiniteSet(Globals)
  BY <1>1, NamesFinite, FS_Surjection
<1>3. g \in Surjection(Globals, ProgramNames(code))
  <2>1. g \in [Globals -> ProgramNames(code)]
    BY DEF Globals, ProgramNames, ProgramSymbols, Range
  <2>2. \A n \in ProgramNames(code) : \E x \in Globals : g[x] = n
    BY DEF Globals, ProgramNames, ProgramSymbols, Range
  <2>3. QED
    BY <2>1, <2>2 DEF Surjection
<1>4. QED
  BY <1>2, <1>3, FS_Surjection

LEMMA UsedSeen ==
  ASSUME FileInv, phase = "loaded", NEW s \in Used
  PROVE  code.symbols[s].name \in target.namedVarNames
<1> DEFINE k == Len(code.quads)
<1>1. CodeOK(code) /\ k \in Nat /\ Translated(code, target, k) /\ DOMAIN code.quads = 1 .. k
  BY LoadedFacts, CodeFields
<1>2. PICK q \in Range(code.quads) : \E e \in Range(Operands(q)) : OfSymbol(e) /\ e.val = s
  BY DEF Used
<1>3. PICK i \in 1 .. k : q = code.quads[i]
  BY <1>1, <1>2 DEF Range
<1>4. PICK e \in Range(Operands(q)) : OfSymbol(e) /\ e.val = s
  BY <1>2
<1>5. e = Operands(q)[1] \/ e = Operands(q)[2] \/ e = Operands(q)[3]
  <2>1. DOMAIN Operands(q) = 1 .. 3
    BY DEF Operands
  <2>2. PICK n \in 1 .. 3 : e = Operands(q)[n]
    BY <1>4, <2>1 DEF Range
  <2>3. n = 1 \/ n = 2 \/ n = 3
    OBVIOUS
  <2>4. QED
    BY <2>2, <2>3
<1>6. \E op : Fits(code, target, e, op)
  <2>1. InstrFits(code, target, q, target.instructions[AddressOf(code, i)])
    BY <1>1, <1>3 DEF Translated, Generated
  <2>2. QED
    BY <1>5, <2>1 DEF InstrFits
<1>7. QED
  BY <1>4, <1>6 DEF Fits

LEMMA Reserved ==
  ASSUME FileInv
  PROVE  GlobalsReserved
<1> DEFINE k == Len(code.quads)
           m == Cardinality(ProgramNames(code))
           AllUsed == \A s \in DOMAIN code.symbols : code.symbols[s].space = "program" => s \in Used
<1> SUFFICES ASSUME phase = "loaded"
             PROVE  /\ avm.globals <= Cardinality(Globals)
                    /\ AllUsed /\ NamesApart(code) =>
                         \A i \in DOMAIN avm.instructions, n \in 2 .. 4 :
                           avm.instructions[i][n].type = "program" =>
                             avm.instructions[i][n].val < avm.globals
  BY DEF GlobalsReserved, NamesApart
<1>1. /\ CodeOK(code) /\ Translated(code, target, k) /\ target \in TargetSet
      /\ avm.instructions = target.instructions /\ avm.globals = target.globals
      /\ GlobalsOK(code, target)
  BY LoadedFacts DEF Translated, Generated
<1>2. m \in Nat /\ avm.globals \in Nat /\ Cardinality(Globals) \in Int
  <2>1. m \in Nat /\ avm.globals \in Nat
    BY <1>1, NamesFinite, TargetTypes
  <2>2. IsFiniteSet(Globals)
    <3>1. Globals \subseteq Range(code.symbols)
      BY DEF Globals
    <3>2. IsFiniteSet(Range(code.symbols))
      <4>1. code.symbols \in Seq(SymbolSet) /\ Len(code.symbols) \in Nat
            /\ DOMAIN code.symbols = 1 .. Len(code.symbols)
        BY <1>1, CodeFields
      <4>2. code.symbols \in Surjection(1 .. Len(code.symbols), Range(code.symbols))
        BY <4>1 DEF Surjection, Range
      <4>3. QED
        BY <4>1, <4>2, FS_Interval, FS_Surjection
    <3>3. QED
      BY <3>1, <3>2, FS_Subset
  <2>3. Cardinality(Globals) \in Nat
    BY <2>2, FS_CardinalityType
  <2>4. QED
    BY <2>1, <2>3
<1>3. avm.globals <= Cardinality(Globals)
  <2>1. /\ target.globals <= Cardinality(Seen(code, target))
        /\ Cardinality(Seen(code, target)) <= m /\ Cardinality(Seen(code, target)) \in Nat
    BY <1>1, SeenFinite DEF GlobalsOK
  <2>2. m <= Cardinality(Globals)
    BY <1>1, GlobalsBound
  <2>3. QED
    BY <1>1, <1>2, <2>1, <2>2
<1>4. ASSUME AllUsed, NamesApart(code), NEW i \in DOMAIN avm.instructions, NEW n \in 2 .. 4,
             avm.instructions[i][n].type = "program"
      PROVE  avm.instructions[i][n].val < avm.globals
  <2> DEFINE op == avm.instructions[i][n]
  <2>1. i \in 1 .. Len(target.instructions)
    BY <1>1, TargetTypes
  <2>2. ProgramsOK(code, target, avm.instructions[i])
    BY <1>1, <2>1 DEF Translated, Generated
  <2>3. n = 2 \/ n = 3 \/ n = 4
    OBVIOUS
  <2>4. ProgramOK(code, target, op)
    BY <2>2, <2>3 DEF ProgramsOK
  <2>5. PICK s \in ProgramSymbols(code) : code.symbols[s].offset = op.val
    BY <1>4, <2>4 DEF ProgramOK
  <2>6. code.symbols[s].offset < m
    BY <1>1, <1>4, OffsetBelow
  <2>7. Seen(code, target) = ProgramNames(code)
    <3>1. ASSUME NEW r \in ProgramSymbols(code)
          PROVE  code.symbols[r].name \in target.namedVarNames
      <4>1. r \in Used
        BY <1>4 DEF ProgramSymbols
      <4>2. QED
        BY <4>1, UsedSeen
    <3>2. QED
      BY <3>1 DEF Seen, ProgramNames
  <2>8. avm.globals = m
    BY <1>1, <1>4, <2>7 DEF GlobalsOK
  <2>9. QED
    BY <2>5, <2>6, <2>8
<1>5. QED
  BY <1>3, <1>4

-----------------------------------------------------------------------------
(* Types *)

LEMMA ExprOfCode ==
  ASSUME CodeOK(code), NEW e \in ExprIn(code)
  PROVE  IsExpr(e)
<1>1. /\ e.type \in {"number", "string", "lib", "user", "var", "element", "null", "retval"}
      /\ e.type = "user" => e.val \in DOMAIN code.functions
      /\ OfSymbol(e) => e.val \in DOMAIN code.symbols
  BY OperandKinds DEF OperandIn
<1>2. e.type # "retval"
  BY DEF ExprIn, PlainIn, ItemIn, ExprTypes, None, Expr
<1>3. QED
  BY <1>1, <1>2 DEF IsExpr, OfSymbol

LEMMA ParserTypes ==
  ASSUME PInv
  PROVE  ParserTypeOK
<1>1. /\ CodeOK(code) /\ OpenOK(code, open) /\ HaveOK(code, have, value)
      /\ ListsOK(open, lists, errors)
      /\ functor \in BOOLEAN /\ hung \in BOOLEAN /\ strict \in BOOLEAN
  BY DEF PInv, ParserInv
<1>2. ASSUME NEW i \in DOMAIN code.quads
      PROVE  /\ IsExpr(code.quads[i].result) /\ IsExpr(code.quads[i].arg1)
             /\ IsExpr(code.quads[i].arg2)
  <2>1. code.quads[i] \in QuadIn(code)
    BY <1>1, CodeFields
  <2>2. /\ code.quads[i].result \in ExprIn(code) /\ code.quads[i].arg1 \in ExprIn(code)
        /\ code.quads[i].arg2 \in ExprIn(code)
    BY <2>1 DEF QuadIn
  <2>3. QED
    BY <1>1, <2>2, ExprOfCode
<1>3. have \in {"none", "lvalue", "call", "function", "expr"} /\ IsExpr(value)
  BY <1>1, ExprOfCode DEF HaveOK
<1>4. DOMAIN open = 1 .. Len(open)
  BY <1>1 DEF OpenOK
<1>5. \A K : Cardinality({i \in DOMAIN open : open[i].kind \in K}) = Rank(open, K, Len(open))
  BY <1>4 DEF Rank, Ranked
<1>6. Sized(open, lists, errors)
  BY <1>1 DEF ListsOK
<1>7. QED
  BY <1>1, <1>2, <1>3, <1>5, <1>6 DEF ParserTypeOK, Sized

LEMMA Types ==
  ASSUME FileInv
  PROVE  TypeOK
<1>1. ParserTypeOK
  BY ParserTypes DEF FileInv
<1>2. target \in TargetSet /\ IsInjective(target.numConsts) /\ IsInjective(target.stringConsts)
      /\ IsInjective(target.namedLibfuncs) /\ Apart(target.userFuncs)
  <2>1. CASE phase = "parsing"
    <3>1. target = NoTarget /\ CodeOK(code)
      BY <2>1, CodeHere DEF FileInv
    <3>2. TablesOK(code, target)
      BY <3>1, NothingTranslated DEF Translated, Generated
    <3>3. QED
      BY <3>2, TablesHere
  <2>2. CASE phase # "parsing"
    BY <2>2, TablesHere DEF FileInv, Translated, Generated
  <2>3. QED
    BY <2>1, <2>2
<1>3. IsInjective(target.userFuncs)
  <2> DEFINE s == target.userFuncs
  <2>1. DOMAIN s = 1 .. Len(s) /\ Apart(s)
    BY <1>2, TargetTypes
  <2>2. QED
    BY <2>1 DEF IsInjective, Apart
<1>4. QED
  BY <1>1, <1>2, <1>3 DEF TypeOK, FileInv, Phases

-----------------------------------------------------------------------------
(* The properties *)

(* For every text, with any number of syntax errors, the tables of the    *)
(* target hold what the quads so far need, the file is what the tables    *)
(* were, and the machine has read these tables from it.                   *)
THEOREM FileInvariant == Spec => []FileInv
<1>1. FileInv /\ [Next]_bvars => FileInv'
  BY FileStep
<1>2. QED
  BY FileInit, <1>1, PTL DEF Spec

(* The parser's lists are as many as its open calls and tables, also      *)
(* when functions stand in their elements, and no constant table ever has *)
(* a duplicate: consts_newnumber, add_user_functions and so on find what  *)
(* is there.                                                              *)
THEOREM FileTypes == Spec => []TypeOK
<1>1. FileInv => TypeOK
  BY Types
<1>2. QED
  BY <1>1, FileInvariant, PTL

(* Whatever the text, each operand of the loaded program is for the       *)
(* machine what the parser put into the quad: constants by value,         *)
(* functions by their entry and their number of locals, variables by      *)
(* their places (make_operand, print_..., avm_read_binary).               *)
THEOREM FileKeepsMeaning == Spec => []FileMeansQuads
<1>1. FileInv => FileMeansQuads
  BY FileMeans
<1>2. QED
  BY <1>1, FileInvariant, PTL

(* add_var_names counts no more globals than there are, and all of them   *)
(* if each is used and none shares its name: then avm_initstack puts the  *)
(* stack below the last of them.                                          *)
THEOREM StackBehindGlobals == Spec => []GlobalsReserved
<1>1. FileInv => GlobalsReserved
  BY Reserved
<1>2. QED
  BY <1>1, FileInvariant, PTL

(* Every other step leaves the parser as it is.                           *)
LEMMA ParseOrNot ==
  ASSUME [Next]_bvars
  PROVE  Parse \/ UNCHANGED vars
BY DEF Next, BParse, NeverEnds, StartGenerating, Generate, Write, Read, Refuse, Finished, bvars

(* A call passes its own arguments, the last one first, a table gets its  *)
(* own elements, numbered or under their own keys, however they are       *)
(* nested, unless the stacks of lists have mixed them; and objectdef ends *)
(* unless there was a syntax error.                                       *)
THEOREM ElementsAreOwn == Spec => OwnElements
<1> DEFINE Own ==
      /\ hung' => errors > 0
      /\ Closed("call") /\ Innermost.clean =>
           LET n == Len(NewQuads) - 2
               m == n - Len(Innermost.own)
           IN /\ SubSeq(NewQuads, m + 1, n) = Params(Reverse(Innermost.own))
              /\ \A i \in DOMAIN NewQuads \ (m + 1 .. n) : NewQuads[i].op # "param"
      /\ Closed("elist") /\ Innermost.clean =>
           Tail(NewQuads) = SetElems(value', [i \in DOMAIN Innermost.own |-> Num(i - 1)],
                                     Innermost.own)
      /\ Closed("indexed") /\ Innermost.clean =>
           Tail(NewQuads) = SetElems(value', Innermost.keys, Innermost.own)
<1>1. ASSUME FileInv, Parse PROVE Own
  <2>1. ParserInv
    BY <1>1 DEF FileInv, PInv
  <2>2. hung' => errors > 0
    BY <1>1, <2>1, HungStep
  <2>3. ASSUME Closed("call"), Innermost.clean
        PROVE  LET n == Len(NewQuads) - 2
                   m == n - Len(Innermost.own)
               IN /\ SubSeq(NewQuads, m + 1, n) = Params(Reverse(Innermost.own))
                  /\ \A i \in DOMAIN NewQuads \ (m + 1 .. n) : NewQuads[i].op # "param"
    BY <1>1, <2>1, <2>3, OwnCall
  <2>4. "elist" \in Tables /\ "indexed" \in Tables
    BY DEF Tables
  <2>5. ASSUME Closed("elist"), Innermost.clean
        PROVE  Tail(NewQuads) = SetElems(value', [i \in DOMAIN Innermost.own |-> Num(i - 1)],
                                         Innermost.own)
    BY <1>1, <2>1, <2>4, <2>5, OwnTable
  <2>6. ASSUME Closed("indexed"), Innermost.clean
        PROVE  Tail(NewQuads) = SetElems(value', Innermost.keys, Innermost.own)
    BY <1>1, <2>1, <2>4, <2>6, OwnTable
  <2>7. QED
    BY <2>2, <2>3, <2>5, <2>6
<1>2. FileInv /\ [Next]_bvars => [Own]_vars
  BY <1>1, ParseOrNot
<1>3. QED
  BY <1>2, FileInvariant, PTL DEF OwnElements, Spec

(* The flag functor, set at elements "()" and reset when a function with  *)
(* formals begins, gives this to the functions that are such elements and *)
(* to no others, whatever stands between flag and function, as long as    *)
(* every such element begins with a function that has formals.            *)
THEOREM MembersHaveThis == Spec => ThisOfMembers
<1> DEFINE This2 == FunctionHasBegun /\ strict' =>
                      (HasThis(code', Len(code'.functions)) <=> MemberDue)
<1>1. ASSUME FileInv, Parse PROVE This2
  BY <1>1, ThisStep DEF FileInv
<1>2. FileInv /\ [Next]_bvars => [This2]_vars
  BY <1>1, ParseOrNot
<1>3. QED
  BY <1>2, FileInvariant, PTL DEF ThisOfMembers, Spec

=============================================================================
