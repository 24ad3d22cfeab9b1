------------------------------ MODULE SwitchSem ------------------------------
(***************************************************************************)
(* What a switch of the C source means (src/src/ifswitch/README.md,        *)
(* "Outline of the problem"): the condition is evaluated once, control     *)
(* goes to a label whose value it has, or to default, or behind the        *)
(* switch, falls through from label to label, and a break goes behind the  *)
(* switch, however deep it is.                                             *)
(*                                                                         *)
(* A body is the sequence of its labels, statements and breaks in textual  *)
(* order.  Since control in a body only goes forward, it does not matter   *)
(* what the nested statements are, only how deep a break lies in them.     *)
(***************************************************************************)
EXTENDS Integers, Sequences

CONSTANTS
  Bodies,     \* the switches considered
  Values,     \* what the condition may evaluate to
  Meaning,    \* from magic numbers to the run-time values of their variables
  NULL

VARIABLES
  body,       \* the switch
  mode,       \* "cond": not entered; "body"; "after": left
  at,         \* the item of the body control is at
  x           \* the value of the condition

vars == <<body, mode, at, x>>

(* depth 0: in the switch's own list of statements; 1: in a block of it;   *)
(* 2: anywhere deeper, as in an if statement, so that it may be skipped.   *)
Kinds == {"case", "range", "default", "stmt", "break"}
Item == [kind : Kinds, low : Int, high : Int, depth : 0..2]

(* The value a label has at run time. *)
Real(v) == IF v \in DOMAIN Meaning THEN Meaning[v] ELSE v

Labels(b)   == {i \in DOMAIN b : b[i].kind \in {"case", "range"}}
Defaults(b) == {i \in DOMAIN b : b[i].kind = "default"}

Matching(b, v) ==
  {i \in Labels(b) : Real(b[i].low) <= v /\ v <= Real(b[i].high)}

Init ==
  /\ body \in Bodies
  /\ mode = "cond"
  /\ at = 0
  /\ x = NULL

(* Two labels that differ for the compiler may have the same value at run  *)
(* time; then C promises nothing, and either is right.                     *)
Dispatch(v) ==
  /\ mode = "cond"
  /\ x' = v
  /\ \/ /\ mode' = "body"
        /\ at' \in Matching(body, v)
     \/ /\ Matching(body, v) = {}
        /\ mode' = "body"
        /\ at' \in Defaults(body)
     \/ /\ Matching(body, v) = {}
        /\ Defaults(body) = {}
        /\ mode' = "after"
        /\ at' = 0
  /\ UNCHANGED body

(* Control passes a label or a statement, or a break that is not reached. *)
Pass ==
  /\ mode = "body"
  /\ at \in DOMAIN body
  /\ body[at].kind = "break" => body[at].depth = 2
  /\ at' = at + 1
  /\ UNCHANGED <<body, mode, x>>

Leave ==
  /\ mode = "body"
  /\ at \in DOMAIN body => body[at].kind = "break"
  /\ mode' = "after"
  /\ at' = 0
  /\ UNCHANGED <<body, x>>

Next ==
  \/ \E v \in Values : Dispatch(v)
  \/ Pass
  \/ Leave
  \/ mode = "after" /\ UNCHANGED vars

Spec == Init /\ [][Next]_vars

(* The switch is entered, and statements end. *)
FairSpec == Spec /\ WF_vars(Next)

=============================================================================
