----------------------------- MODULE FirstMatch -----------------------------
(***************************************************************************)
(* What searching an initializer promises: as long as a record is left     *)
(* that belongs to it, the first of the constants that agree with any      *)
(* record is replaced, once, and uses the first record up that it agrees   *)
(* with; and the search ends only when there is none.  How the constants   *)
(* are nested makes no difference.                                         *)
(*                                                                         *)
(* A record belongs to it if it is before the bound.  Once none is left,   *)
(* the search may still replace constants, in any order.                   *)
(***************************************************************************)
EXTENDS Replace

VARIABLES
  ctor,     \* the elements: elt, and how they are nested
  list,     \* the records
  bound,    \* a location
  subs,     \* what was replaced: an element's number and a record
  done      \* whether the search is over

vars == <<ctor, list, bound, subs, done>>

-----------------------------------------------------------------------------
UsedUp == list.count = 0 \/ Before2(bound, list.start)

Replaced == {s.at : s \in subs}

Agrees(i) ==
  /\ ctor[i].elt.kind = "cst" /\ i \notin Replaced
  /\ Agreeing(Value(ctor[i].elt), list) # {}

NoneAgrees == \A i \in DOMAIN ctor : ~ Agrees(i)

Init ==
  /\ subs = {}
  /\ done \in BOOLEAN
  /\ done => UsedUp \/ NoneAgrees

Substitute ==
  /\ ~ done
  /\ \E i \in DOMAIN ctor :
       /\ Agrees(i)
       /\ UsedUp \/ \A j \in 1..(i - 1) : ~ Agrees(j)
       /\ \E pos \in Agreeing(Value(ctor[i].elt), list) :
            /\ list' = RemoveElem(list, pos)
            /\ subs' = subs \cup {[at |-> i, node |-> list.head[pos]]}
  /\ done' \in BOOLEAN
  /\ done' => UsedUp' \/ NoneAgrees'
  /\ UNCHANGED <<ctor, bound>>

Finish ==
  /\ ~ done
  /\ UsedUp \/ NoneAgrees
  /\ done' = TRUE
  /\ UNCHANGED <<ctor, list, bound, subs>>

Next == Substitute \/ Finish

Spec == Init /\ [][Next]_vars

=============================================================================
