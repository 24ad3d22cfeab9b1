----------------------------- MODULE MCIfSwitch -----------------------------
(* Instances of IfSwitch for TLC: all bodies up to a length. *)
EXTENDS IfSwitch, SequencesExt

CONSTANT MaxLen      \* bound: items of a body

(* Two macros, 8 and 9, that may have the same value, or that of a label. *)
SomeMeaning == 8 :> 1 @@ 9 :> 3

It(kind, low, high, depth) ==
  [kind |-> kind, low |-> low, high |-> high, depth |-> depth]

ShallowItems ==
  {It("case", 8, 8, 0), It("case", 9, 9, 0), It("case", 1, 1, 0),
   It("range", 2, 3, 0), It("default", 0, 0, 0),
   It("stmt", 0, 0, 0), It("break", 0, 0, 0), It("break", 0, 0, 1)}

ItemsOf(b) == {b[i] : i \in DOMAIN b}

BodiesOf(items) == {b \in BoundedSeq(items, MaxLen) : WellFormed(b)}

ShallowBodies == BodiesOf(ShallowItems)
DeepBodies    == BodiesOf(ShallowItems \cup {It("break", 0, 0, 2)})
=============================================================================
