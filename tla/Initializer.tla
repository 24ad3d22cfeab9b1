----------------------------- MODULE Initializer -----------------------------
(***************************************************************************)
(* The search of an initializer for the constants of recorded uses:        *)
(* set_values_based_on_ctor (src/src/initstruct/common.cc), for globals    *)
(* and statics, and modify_local_struct_ctor (src/src/initstruct/local.cc),*)
(* for automatic variables.  The two loop alike over a tree of nested      *)
(* constructors, calling themselves, until the first record of the list is *)
(* behind a bound or nothing is found.  The first adds assignments, leaves *)
(* the elements as they are, and starts again behind the one just found.   *)
(* The second overwrites the element, and starts again from the first.     *)
(*                                                                         *)
(* Portcosmo takes the outcome for granted: that when the search is over   *)
(* no element agrees with a record (its DeclEnd).                          *)
(***************************************************************************)
EXTENDS Replace

CONSTANT
  Searches   \* the searches considered, in groups: initializers, lists, and
             \* where the search has to stop

(* An initializer is the sequence of its elements in the order of the text *)
(* that gcc would print (a designated one has the order of the type, not   *)
(* of the source).  A constructor is followed by its own elements, up to   *)
(* last; up is the constructor an element lies in, 0 the initializer.      *)
LastOf(c, i) == IF i = 0 THEN Len(c) ELSE c[i].last

Nested(c) ==
  \A i \in DOMAIN c :
    /\ c[i].up \in 0..(i - 1) /\ c[i].last \in i..Len(c)
    /\ c[i].elt.kind = "ctor" \/ c[i].last = i
    /\ c[i].up = 0 \/ c[c[i].up].elt.kind = "ctor"
    /\ c[i].last <= LastOf(c, c[i].up)
    /\ \A j \in (c[i].up + 1)..(i - 1) : c[j].last < i

ASSUME SearchesAssumption ==
  \A s \in Searches :
    /\ \A c \in s.ctors : Nested(c) /\ c \in Seq([elt : Elements, up : Nat, last : Nat])
    /\ \A l \in s.lists : l.head \in Seq(Node(Macros)) /\ l = Recount(l.head)
    /\ s.bounds \subseteq Location

VARIABLES
  ctor,     \* the initializer
  list,     \* ctx->mods
  bound,    \* the parameter bound
  local,    \* which of the two functions: modify_local_struct_ctor?
  in,       \* the parameter ctor of the call that runs
  at,       \* the element its loop looks at; behind the last when it returns
  subs      \* history: the elements replaced, and by which record

vars == <<ctor, list, bound, local, in, at, subs>>

-----------------------------------------------------------------------------
Behind(c) == LastOf(ctor, c) + 1

(* The while loop of the call for constructor c: with list l, the elements *)
(* from i on are looked at, or the call returns.                           *)
Round(l, c, i) ==
  IF l.count > 0 /\ Before2(l.start, bound) THEN i ELSE Behind(c)

(* The callers: for statics, for globals up to the last record at least,   *)
(* for automatic variables.                                                *)
SetValuesBasedOnCtor(b) == ~ local /\ bound = b

UpdateGlobalDecls(b) ==
  ~ local /\ bound = IF Before2(list.end, b) THEN b ELSE list.end

ModifyLocalStructCtor(b) == local /\ bound = b

Init ==
  /\ \E s \in Searches :
       /\ ctor \in s.ctors /\ list \in s.lists /\ local \in BOOLEAN
       /\ \E b \in s.bounds :
            SetValuesBasedOnCtor(b) \/ UpdateGlobalDecls(b) \/ ModifyLocalStructCtor(b)
  /\ in = 0 /\ at = Round(list, 0, 1)
  /\ subs = {}

(* The element is not an INTEGER_CST any more. *)
Overwritten(i) == \E s \in subs : s.at = i

Hits(elt) ==
  IF elt.kind = "cst" /\ ~ (local /\ Overwritten(at))
    THEN Agreeing(Value(elt), list) ELSE {}

Looking == at < Behind(in)

PassOver ==
  /\ Looking
  /\ ctor[at].elt.kind # "ctor" /\ Hits(ctor[at].elt) = {}
  /\ at' = at + 1
  /\ UNCHANGED <<ctor, list, bound, local, in, subs>>

Again_All == in + 1           \* fault: iprev is forgotten

Again == IF local THEN in + 1 ELSE at + 1

Substitute ==
  /\ Looking
  /\ \E pos \in Hits(ctor[at].elt) :
       /\ list' = RemoveElem(list, pos)
       /\ subs' = subs \cup {[at |-> at, node |-> list.head[pos]]}
  /\ at' = Round(list', in, Again)
  /\ UNCHANGED <<ctor, bound, local, in>>

(* An element that is a constructor: the function calls itself. *)
Call ==
  /\ Looking
  /\ ctor[at].elt.kind = "ctor"
  /\ in' = at
  /\ at' = Round(list, at, at + 1)
  /\ UNCHANGED <<ctor, list, bound, local, subs>>

(* After a nested constructor the functions may return at once. *)
Stop_Always == TRUE           \* fault: what follows is not looked at

Stop == list.count = 0 \/ (local /\ Before2(bound, list.start))

Return ==
  /\ at = Behind(in) /\ in # 0
  /\ in' = ctor[in].up
  /\ at' = IF Stop THEN Behind(in') ELSE at
  /\ UNCHANGED <<ctor, list, bound, local, subs>>

Done == in = 0 /\ at = Behind(0)

Terminated == Done /\ UNCHANGED vars

Next == PassOver \/ Substitute \/ Call \/ Return \/ Terminated

Spec == Init /\ [][Next]_vars

-----------------------------------------------------------------------------
TypeOK ==
  /\ ctor \in Seq([elt : Elements, up : Nat, last : Nat]) /\ Nested(ctor)
  /\ list.head \in Seq(Node(Macros)) /\ list = Recount(list.head)
  /\ bound \in Location /\ local \in BOOLEAN
  /\ in \in 0..Len(ctor) /\ at \in (in + 1)..Behind(in)
  /\ in # 0 => ctor[in].elt.kind = "ctor"
  /\ subs \subseteq [at : DOMAIN ctor, node : Node(Macros)]

Search == INSTANCE FirstMatch WITH done <- Done

(* The nested loops, whichever way they start again, replace the first     *)
(* constant that agrees with a record, as long as there is one: none is    *)
(* left out, and none is replaced twice (comment at                        *)
(* src/src/initstruct/global.cc:42-46: "it will figure out where the       *)
(* substitutions are").                                                    *)
ImplementsFirstMatch == Search!Spec

(* Whatever the bound, the search ends only when every record before it is *)
(* used up, or no constant left agrees with a record left.                 *)
UsedUp == list.count = 0 \/ Before2(bound, list.start)

Remaining ==
  {i \in DOMAIN ctor : ctor[i].elt.kind = "cst" /\ ~ Overwritten(i)}

Exhausted ==
  Done => UsedUp \/ \A i \in Remaining : Agreeing(Value(ctor[i].elt), list) = {}

(* Every constant that is replaced becomes the variable of the macro it    *)
(* comes from, and what the source does to it is done to the variable      *)
(* (README.md:63-66: "substitutes the appropriate `extern` variable name   *)
(* in the location where the macro was used"), whatever records are tried  *)
(* first, in whatever order the elements are, and whatever type the        *)
(* constant was converted to.                                              *)
OwnRecord ==
  \A s \in subs :
    LET elt == ctor[s.at].elt
    IN  elt.macro = s.node.name /\ elt.op = Kind(Value(elt), s.node.name)

(* X, -X and ~X of a signed or promoted macro are found wherever the       *)
(* element is signed and as wide as an int, while the macro has a record.  *)
(* (An unsigned element has its constant found only if that is positive;   *)
(* otherwise the record stays, and is reported.)                           *)
Recognised ==
  Done => UsedUp \/ \A i \in Remaining :
    LET elt == ctor[i].elt
    IN  elt.type \in {"int", "long"} /\ elt.macro \notin BaudMagic
          => \A n \in Nodes(list) : n.name # elt.macro

=============================================================================
