----------------------------- MODULE RecordList -----------------------------
(***************************************************************************)
(* The list of records as its clients see it: the value of SubuList, and   *)
(* the functions of src/src/subcontext.cc that change it as single steps.  *)
(***************************************************************************)
EXTENDS SubuList

CONSTANTS
  Records,     \* the nodes there may be: members of Node(...)
  Starts,      \* where a check may be asked for
  NULL

VARIABLE list  \* NULL when it has been deleted

Init == list = EmptyList

Add(n)    == list' = AddElem(list, n)
Remove(i) == list' = RemoveElem(list, i)
Check(s)  == list' = CheckEmpty(list, s)
Delete    == list' = NULL

Next ==
  /\ list # NULL
  /\ \/ \E n \in Records : Add(n)
     \/ \E i \in DOMAIN list.head : Remove(i)
     \/ \E s \in Starts : Check(s)
     \/ Delete

Spec == Init /\ [][Next]_list

=============================================================================
