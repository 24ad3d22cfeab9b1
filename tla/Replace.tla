------------------------------- MODULE Replace -------------------------------
(***************************************************************************)
(* Which constants of the syntax tree arg_should_be_modded                 *)
(* (src/src/replace_int.cc) takes for which macro, over the numbers of     *)
(* src/tmpconst.h, as pure operators.                                      *)
(*                                                                         *)
(* gcc folds X, -X or ~X in the promoted type of __tmpcosmo_X and converts *)
(* the result to the type its context asks for; the plugin sees an         *)
(* INTEGER_CST and the records of the list.                                *)
(*                                                                         *)
(* A macro is named by its magic number: no two are equal.                 *)
(***************************************************************************)
EXTENDS SubuList

CONSTANTS
  Macros,     \* the macros of the source: a subset of MagicNumbers
  Modulus     \* type -> 2^width; those from int on may be scaled down

Types  == {"short", "ushort", "int", "uint", "long", "ulong"}
Signed == {"short", "int", "long"}

(* src/tmpconst.h: all numbers are even.  The opposites of the unsigned    *)
(* ones are numbers of the signed ones.                                    *)
SignedMagic == {v \in -15824158..-15823504 : v % 2 = 0} \ {-15823996}
BaudMagic   == {v \in 15823504..15823558 : v % 2 = 0}
InetMagic   == {58236}

MagicNumbers == SignedMagic \cup BaudMagic \cup InetMagic

TypeOf(m) == IF m \in SignedMagic THEN "int"
             ELSE IF m \in BaudMagic THEN "uint" ELSE "ushort"

Half(t) == Modulus[t] \div 2

ASSUME MacrosAssumption == Macros \subseteq MagicNumbers
ASSUME ModulusAssumption ==
  /\ Modulus \in [Types -> {n \in Nat : n % 2 = 0}]
  /\ \A t \in {"short", "ushort"} : Modulus[t] = 65536
  /\ \A t \in Types \ {"short", "ushort"} : Modulus[t] >= 67108864

-----------------------------------------------------------------------------
Ops == {"plain", "minus", "not"}

Apply(o, v) == CASE o = "plain" -> v [] o = "minus" -> -v [] o = "not" -> -v - 1

(* gcc's arithmetic: wrap around to the type. *)
Convert(v, t) == IF t \in Signed THEN ((v + Half(t)) % Modulus[t]) - Half(t)
                                 ELSE v % Modulus[t]

Promoted(t) == IF t \in {"short", "ushort"} THEN "int" ELSE t

Folded(m, o, t) == Convert(Convert(Apply(o, m), Promoted(TypeOf(m))), t)

(* arg_should_be_modded on an INTEGER_CST of type t and value v, and a     *)
(* record of macro n: the kind of the replacement, or "none".  Equality is *)
(* that of the values, whatever the types (tree_int_cst_equal); negation   *)
(* and complement are those of 64 bits.                                    *)
Fits64(v) == -Half("long") <= v /\ v < Half("long")

Kind_Off(v, n) ==        \* fault: the complement is off by one
  IF v = n THEN "plain"
  ELSE IF Fits64(v) /\ n = -v THEN "minus"
  ELSE IF Fits64(v) /\ n = -v - 2 THEN "not" ELSE "none"

Kind_NoMinus(v, n) ==    \* fault: -X is not looked for
  IF v = n THEN "plain"
  ELSE IF Fits64(v) /\ n = -v - 1 THEN "not" ELSE "none"

Kind(v, n) ==
  IF v = n THEN "plain"
  ELSE IF Fits64(v) /\ n = -v THEN "minus"
  ELSE IF Fits64(v) /\ n = -v - 1 THEN "not" ELSE "none"

(* The elements of an initializer: an integer constant (and what it comes  *)
(* from: the macro, what the source does to it, the type of the element),  *)
(* a nested constructor, anything else.                                    *)
Elements == [kind : {"cst"}, macro : Macros, op : Ops, type : Types]
              \cup [kind : {"ctor", "other"}]

Cst(m, o, t) == [kind |-> "cst", macro |-> m, op |-> o, type |-> t]
Ctor         == [kind |-> "ctor"]
Other        == [kind |-> "other"]

Value(e) == Folded(e.macro, e.op, e.type)

(* The loop over the records: the first that the value agrees with. *)
Agreeing(v, l) == FirstElem(l, LAMBDA n : Kind(v, n.name) # "none")

=============================================================================
