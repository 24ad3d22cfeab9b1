------------------------------ MODULE SubuList ------------------------------
(***************************************************************************)
(* The list of recorded macro uses of src/src/subcontext.cc, as pure       *)
(* operators on its value: the nodes in list order, and the three fields   *)
(* (start, end, count) that recount_subu_list caches.  What a function of  *)
(* the source returns through a pointer argument is here the set of        *)
(* positions it may return: empty when the function returns 0.             *)
(*                                                                         *)
(* The pointers themselves (allocation, relinking, freeing) are the        *)
(* subject of SubuHeap.                                                    *)
(***************************************************************************)
EXTENDS Integers, Sequences

CONSTANT
  MAX_LOCATION_T   \* gcc's largest location_t, used as "no bound"

(* A location_t as the plugin looks at it: LOCATION_LINE, LOCATION_COLUMN. *)
Location == [line : Nat, col : Nat]

ASSUME MaxIsNoLocation == MAX_LOCATION_T \notin Location

(* The location_t 0 of an empty list. *)
NoLocation == [line |-> 0, col |-> 0]

Approx(x, y)  == x.line = y.line
Before(x, y)  == x.line <= y.line
After(x, y)   == x.line >= y.line
Before2(x, y) == x.line < y.line \/ (x.line = y.line /\ x.col <= y.col)

(* A node: the use it stands for, its location, the recorded macro name. *)
Node(Names) == [use : Nat, loc : Location, name : Names]

Nodes(list) == {list.head[i] : i \in DOMAIN list.head}
UsesIn(list) == {n.use : n \in Nodes(list)}

-----------------------------------------------------------------------------

(* recount_subu_list: start and end are a smallest and a largest location  *)
(* (of several that are equal up to the column the loop keeps the last);   *)
(* an empty list ends with start = end = 0.                                *)
Recount(head) ==
  LET locs == {head[i].loc : i \in DOMAIN head}
  IN  [head  |-> head,
       start |-> IF locs = {} THEN NoLocation
                 ELSE CHOOSE l \in locs : \A k \in locs : Before2(l, k),
       end   |-> IF locs = {} THEN NoLocation
                 ELSE CHOOSE l \in locs : \A k \in locs : Before2(k, l),
       count |-> Len(head)]

EmptyList == Recount(<<>>)

(* add_subu_elem appends; remove_subu_elem unlinks the i-th node. *)
AddElem(list, node) == Recount(Append(list.head, node))

RemoveElem_NoRecount(list, i) ==   \* fault: the bounds are not refreshed
  [list EXCEPT !.head = SubSeq(@, 1, i - 1) \o SubSeq(@, i + 1, Len(@))]

RemoveElem_Pop(list, i) ==         \* fault: pop_subu_list instead
  Recount(Tail(list.head))

RemoveElem(list, i) ==
  Recount(SubSeq(list.head, 1, i - 1)
            \o SubSeq(list.head, i + 1, Len(list.head)))

(* The first node that satisfies Test, in list order. *)
FirstElem(list, Test(_)) ==
  {i \in DOMAIN list.head :
     /\ Test(list.head[i])
     /\ \A j \in DOMAIN list.head : j < i => ~ Test(list.head[j])}

(* get_subu_elem: the first node on the line of loc. *)
GetElem(list, loc) == FirstElem(list, LAMBDA n : Approx(n.loc, loc))

(* get_subu_elem2: the first node between the lines of a range. *)
GetElem2(list, start, finish) ==
  FirstElem(list, LAMBDA n : Before(start, n.loc) /\ After(finish, n.loc))

(* valid_subu_bounds and check_loc_in_bound: the tests on the cached       *)
(* bounds by which check_usage (src/src/ast.cc) skips most expressions.    *)
ValidBounds_Within(list, start, finish) ==   \* fault: only the second test
  Before(start, list.end) /\ After(start, list.start)

ValidBounds(list, start, finish) ==
  \/ Before(list.start, finish) /\ After(list.start, start)
  \/ Before(start, list.end) /\ After(start, list.start)

LocInBound(list, loc) == Before(list.start, loc) /\ After(list.end, loc)

(* check_empty_subu_list: the nodes it reports.  The list survives only    *)
(* when there is none; otherwise all of it is cleared.                     *)
Reported_NoMax(list, start) ==     \* fault: MAX_LOCATION_T not special
  {n \in Nodes(list) : start # MAX_LOCATION_T /\ Before2(n.loc, start)}

Reported(list, start) ==
  {n \in Nodes(list) : start = MAX_LOCATION_T \/ Before2(n.loc, start)}

CheckEmpty_Always(list, start) ==  \* fault: clears without an error too
  EmptyList

CheckEmpty_NoClear(list, start) == \* fault: reports and keeps the nodes
  list

CheckEmpty(list, start) ==
  IF Reported(list, start) = {} THEN list ELSE EmptyList

=============================================================================
