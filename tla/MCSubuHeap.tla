----------------------------- MODULE MCSubuHeap -----------------------------
(* Instances of SubuHeap for TLC. *)
EXTENDS SubuHeap

CONSTANT ONE           \* the macro

At(l, c) == [line |-> l, col |-> c]

(* Two records on one line, one of them for an earlier column, and a third. *)
SomeRecords ==
  {[use |-> 0, loc |-> l, name |-> ONE] : l \in {At(1, 2), At(2, 1), At(2, 5)}}

SomeStarts == {At(1, 9), At(2, 3), MAX_LOCATION_T}
=============================================================================
