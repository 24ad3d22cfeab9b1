------------------------------ MODULE SubuHeap ------------------------------
(***************************************************************************)
(* The list of records in memory (src/src/subcontext.cc): nodes that are   *)
(* allocated, linked, unlinked and freed, by loops over pointers.  Each    *)
(* step is one iteration of a loop, or what comes before or behind it.     *)
(*                                                                         *)
(* SubuList, on which the other modules rest, has the same functions on    *)
(* sequences; that the loops compute them is ImplementsList.               *)
(***************************************************************************)
EXTENDS SubuList, FiniteSets, SequencesExt

CONSTANTS
  Addresses,   \* bound: what malloc may return
  Records, Starts, NULL

ASSUME RecordsAssumption == \A n \in Records : n.use \in Nat /\ n.loc \in Location
ASSUME AddressesAssumption == IsFiniteSet(Addresses)

SubuNode       == [val : Records, next : Addresses \cup {NULL}]
ListOf(Heads) == [head : Heads, start : Location, end : Location, count : Nat]

(* NULL is neither an address nor what one points to. *)
ASSUME NullAssumption ==
  /\ NULL \notin Addresses
  /\ NULL \notin SubuNode
  /\ NULL \notin ListOf(Addresses \cup {NULL})
  /\ NULL \notin ListOf(Seq(Records))

VARIABLES
  heap,    \* address -> a node [val, next], or NULL when it is free
  mods,    \* ctx->mods: a list [head, start, end, count], or NULL
  pc,      \* "idle", or the loop that runs
  it,      \* the loop's pointer
  prev,    \* remove_subu_elem: the node before it
  arg,     \* the parameter: a pointer to a node, or a location
  acc,     \* recount_subu_list: s, e and i; check_empty_subu_list: errcount
  cleanup, \* whether the call is one of cleanup_context
  fault,   \* a pointer that is not to a node was followed or freed
  before   \* history: the list's value when the function was called

vars == <<heap, mods, pc, it, prev, arg, acc, cleanup, fault, before>>

-----------------------------------------------------------------------------
Allocated == {a \in Addresses : heap[a] # NULL}

(* s are the nodes one meets from a on, up to the end of the list. *)
NodeAt(s, i) == IF i \in DOMAIN s THEN s[i] ELSE NULL

Linked(a, s) ==
  /\ a = NodeAt(s, 1)
  /\ \A i \in DOMAIN s : s[i] \in Allocated /\ heap[s[i]].next = NodeAt(s, i + 1)

Orders   == SeqOf(Addresses, Cardinality(Addresses))
Chain(a) == CHOOSE s \in Orders : Linked(a, s)

Values(s) == [i \in DOMAIN s |-> heap[s[i]].val]

Value ==
  IF mods = NULL THEN NULL
  ELSE [head  |-> Values(Chain(mods.head)),
        start |-> mods.start, end |-> mods.end, count |-> mods.count]

(* Pointers are followed with care: what a wrong one gives is a fault. *)
Deref(a)  == IF a \in Allocated THEN heap[a].next ELSE NULL
Follow(a) == fault' = (fault \/ a \notin Allocated)

DeleteSubu(a) ==
  /\ heap' = [heap EXCEPT ![a] = NULL]
  /\ Follow(a)

(* construct_context, init_subu_list *)
Init ==
  /\ heap = [a \in Addresses |-> NULL]
  /\ mods = [head |-> NULL, start |-> NoLocation, end |-> NoLocation, count |-> 0]
  /\ pc = "idle"
  /\ it = NULL /\ prev = NULL /\ arg = NULL /\ acc = NULL
  /\ cleanup = FALSE
  /\ fault = FALSE
  /\ before = NULL

Called == pc = "idle" /\ mods # NULL /\ before' = Value

(* The call of recount_subu_list at a function's end. *)
Recounting_Stale(head) ==  \* fault: s, e and i are not initialised
  pc' = "recount" /\ it' = head /\ UNCHANGED acc

Recounting(head) ==
  /\ pc' = "recount"
  /\ it' = head
  /\ acc' = [s |-> MAX_LOCATION_T, e |-> NoLocation, i |-> 0]

-----------------------------------------------------------------------------
(* add_context_subu: build_subu and add_subu_elem *)
AddContextSubu(n, a) ==
  /\ Called
  /\ a \notin Allocated
  /\ heap' = [heap EXCEPT ![a] = [val |-> n, next |-> NULL]]
  /\ IF mods.head = NULL
       THEN mods' = [mods EXCEPT !.head = a] /\ Recounting(a) /\ UNCHANGED arg
       ELSE pc' = "add" /\ it' = mods.head /\ arg' = a /\ UNCHANGED <<mods, acc>>
  /\ UNCHANGED <<prev, cleanup, fault>>

AddStep ==
  /\ pc = "add"
  /\ Follow(it)
  /\ IF Deref(it) # NULL
       THEN it' = Deref(it) /\ UNCHANGED <<heap, pc, acc>>
       ELSE /\ heap' = [heap EXCEPT ![it].next = arg, ![arg].next = NULL]
            /\ Recounting(mods.head)
  /\ UNCHANGED <<mods, prev, arg, cleanup, before>>

RecountElem_Last(n) ==     \* fault: the last node's location is the start
  [s |-> n.loc, e |-> IF Before2(acc.e, n.loc) THEN n.loc ELSE acc.e,
   i |-> acc.i + 1]

RecountElem(n) ==
  [s |-> IF acc.s = MAX_LOCATION_T \/ Before2(n.loc, acc.s) THEN n.loc ELSE acc.s,
   e |-> IF Before2(acc.e, n.loc) THEN n.loc ELSE acc.e,
   i |-> acc.i + 1]

RecountStep ==
  /\ pc = "recount"
  /\ IF it # NULL
       THEN /\ Follow(it)
            /\ acc' = IF it \in Allocated THEN RecountElem(heap[it].val) ELSE acc
            /\ it' = Deref(it)
            /\ UNCHANGED <<mods, pc>>
       ELSE /\ mods' = [mods EXCEPT
                 !.start = IF acc.s = MAX_LOCATION_T \/ Before2(acc.e, acc.s)
                             THEN acc.e ELSE acc.s,
                 !.end = acc.e, !.count = acc.i]
            /\ pc' = "idle" /\ acc' = NULL
            /\ UNCHANGED <<it, fault>>
  /\ UNCHANGED <<heap, prev, arg, cleanup, before>>

RemoveHead_Keep(node) ==   \* fault: the list keeps its freed first node
  DeleteSubu(node) /\ UNCHANGED mods

RemoveHead(node) ==
  /\ mods' = [mods EXCEPT !.head = heap[node].next]
  /\ DeleteSubu(node)

(* remove_subu_elem with a node that get_subu_elem has found. *)
RemoveSubuElem(node) ==
  /\ Called
  /\ node \in Allocated
  /\ arg' = node
  /\ IF mods.head = node
       THEN RemoveHead(node) /\ Recounting(mods'.head) /\ UNCHANGED prev
       ELSE /\ pc' = "remove"
            /\ prev' = mods.head
            /\ it' = heap[mods.head].next
            /\ UNCHANGED <<heap, mods, acc, fault>>
  /\ UNCHANGED cleanup

Unlink_Keep(p, a) ==       \* fault: the node is not freed
  /\ heap' = [heap EXCEPT ![p].next = Deref(a)]
  /\ Follow(a)

Unlink(p, a) ==
  /\ heap' = [heap EXCEPT ![p].next = Deref(a), ![a] = NULL]
  /\ Follow(a)

RemoveStep_Stay ==         \* fault: the loop does not go on
  /\ pc = "remove"
  /\ IF it = arg THEN Unlink(prev, it) /\ Recounting(mods.head) /\ UNCHANGED prev
     ELSE UNCHANGED <<heap, fault, prev, it, pc, acc>>
  /\ UNCHANGED <<mods, arg, cleanup, before>>

RemoveStep ==
  /\ pc = "remove"
  /\ CASE it = NULL -> Recounting(mods.head) /\ UNCHANGED <<heap, fault, prev>>
       [] it = arg  -> Unlink(prev, it) /\ Recounting(mods.head) /\ UNCHANGED prev
       [] OTHER     -> /\ prev' = it /\ it' = Deref(it) /\ Follow(it)
                       /\ UNCHANGED <<heap, pc, acc>>
  /\ UNCHANGED <<mods, arg, cleanup, before>>

(* check_context_clear (what it does to ctx->active is in Portcosmo) and   *)
(* cleanup_context, which goes on to delete the list.                      *)
Check(start) ==
  /\ Called
  /\ pc' = "check"
  /\ it' = mods.head
  /\ arg' = start
  /\ acc' = 0
  /\ UNCHANGED <<heap, mods, prev, fault>>

CheckContextClear(start) == Check(start) /\ UNCHANGED cleanup

CleanupContext == Check(MAX_LOCATION_T) /\ cleanup' = TRUE

(* The end of check_empty_subu_list, or of clear_subu_list. *)
Checked == pc' = IF cleanup THEN "delete" ELSE "idle"

CheckStep ==
  /\ pc = "check"
  /\ IF it # NULL
       THEN /\ Follow(it)
            /\ acc' = IF it \in Allocated /\ (arg = MAX_LOCATION_T
                                               \/ Before2(heap[it].val.loc, arg))
                        THEN acc + 1 ELSE acc
            /\ it' = Deref(it)
            /\ UNCHANGED pc
       ELSE /\ IF acc # 0 THEN pc' = "clear" ELSE Checked
            /\ it' = mods.head
            /\ acc' = NULL
            /\ UNCHANGED fault
  /\ UNCHANGED <<heap, mods, prev, arg, cleanup, before>>

(* clear_subu_list: the pointer goes on before the node is freed. *)
ClearElem ==
  /\ it' = Deref(it)
  /\ DeleteSubu(it)

(* delete_subu_list clears the list, too, and frees it. *)
ClearStep ==
  /\ pc \in {"clear", "delete"}
  /\ IF it # NULL
       THEN ClearElem /\ UNCHANGED <<mods, pc>>
       ELSE /\ IF pc = "clear"
                 THEN /\ mods' = [head |-> NULL, start |-> NoLocation,
                                   end |-> NoLocation, count |-> 0]
                      /\ Checked
                 ELSE mods' = NULL /\ pc' = "idle"
            /\ UNCHANGED <<heap, it, fault>>
  /\ UNCHANGED <<prev, arg, acc, cleanup, before>>

Step == AddStep \/ RecountStep \/ RemoveStep \/ CheckStep \/ ClearStep

Terminated == pc = "idle" /\ mods = NULL /\ UNCHANGED vars

Next ==
  \/ \E n \in Records, a \in Addresses : AddContextSubu(n, a)
  \/ \E a \in Addresses : RemoveSubuElem(a)
  \/ \E s \in Starts : CheckContextClear(s)
  \/ CleanupContext
  \/ Step
  \/ Terminated

(* A function that was called runs on. *)
Spec == Init /\ [][Next]_vars /\ WF_vars(Step)

-----------------------------------------------------------------------------
TypeOK ==
  /\ heap \in [Addresses -> SubuNode \cup {NULL}]
  /\ mods \in ListOf(Addresses \cup {NULL}) \cup {NULL}
  /\ pc \in {"idle", "add", "recount", "remove", "check", "clear", "delete"}
  /\ pc = "recount" => acc \in [s : Location \cup {MAX_LOCATION_T}, e : Location, i : Nat]
  /\ pc = "check" => acc \in Nat
  /\ {it, prev} \subseteq Addresses \cup {NULL}
  /\ fault \in BOOLEAN /\ cleanup \in BOOLEAN

(* No pointer is followed, and none is freed, whose node has been freed. *)
NoFault == ~ fault

(* Between two functions the nodes that are allocated are those of the     *)
(* list; when it has been deleted there are none (comment at               *)
(* src/src/subcontext.h:20-21: "at the end of compilation (ie              *)
(* PLUGIN_FINISH), there should be no subu_nodes allocated").              *)
NoLeak ==
  pc = "idle" =>
    \E s \in Orders :
      /\ mods = NULL => s = <<>>
      /\ mods # NULL => Linked(mods.head, s)
      /\ Allocated = Range(s)

(* Every loop ends. *)
LoopsEnd == pc # "idle" ~> pc = "idle"

(* The functions do to the list what SubuList says of its value, all at    *)
(* once when they return.                                                  *)
List == INSTANCE RecordList WITH list <- IF pc = "idle" THEN Value ELSE before

ImplementsList == List!Spec

=============================================================================
