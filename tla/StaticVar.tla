------------------------------ MODULE StaticVar ------------------------------
(***************************************************************************)
(* What a C program may expect of its initialised variables of static      *)
(* storage duration: they have the value of the initialiser from the       *)
(* start, and then the last value that the program wrote.                  *)
(***************************************************************************)
CONSTANTS
  Cells,      \* the integers in these variables
  Values,
  Real,       \* cell -> the run-time value of the macro it is initialised with
  NULL

VARIABLES
  cell,       \* their values
  last        \* the program's last access, <<"read" or "write", cell, value>>

vars == <<cell, last>>

Init == cell = Real /\ last = NULL

Read(c) == last' = <<"read", c, cell[c]>> /\ UNCHANGED cell

Write(c, v) ==
  /\ cell' = [cell EXCEPT ![c] = v]
  /\ last' = <<"write", c, v>>

Next == \E c \in Cells : Read(c) \/ \E v \in Values : Write(c, v)

Spec == Init /\ [][Next]_vars

=============================================================================
