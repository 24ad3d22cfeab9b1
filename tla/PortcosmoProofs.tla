--------------------------- MODULE PortcosmoProofs ---------------------------
(* Theorems about Portcosmo, for every value of its constants.             *)
EXTENDS Portcosmo, SubuListProofs, TLAPS, SequenceTheorems, FiniteSetTheorems

-----------------------------------------------------------------------------
(* Lemmas about the list.                                                  *)

(* Recounting any sequence of nodes makes a well-formed list with exactly  *)
(* these nodes in this order (recount_subu_list).                          *)
LEMMA RecountOK ==
  ASSUME NEW head \in Seq(Node(Names))
  PROVE  /\ ListOK(Recount(head))
         /\ Recount(head).head = head
         /\ Recount(head).count = Len(head)
<1>1. Recount(head).head = head /\ Recount(head).count = Len(head)
  BY DEF Recount
<1> QED BY <1>1 DEF ListOK

LEMMA EmptyListOK == ListOK(EmptyList) /\ EmptyList.head = << >>
<1>1. << >> \in Seq(Node(Names))
  OBVIOUS
<1> QED BY <1>1, RecountOK DEF EmptyList

(* add_subu_elem keeps the list well formed and adds just the node. *)
LEMMA AddElemOK ==
  ASSUME NEW list, ListOK(list), NEW n \in Node(Names)
  PROVE  /\ ListOK(AddElem(list, n))
         /\ AddElem(list, n).head = Append(list.head, n)
<1>1. Append(list.head, n) \in Seq(Node(Names))
  BY DEF ListOK
<1> QED BY <1>1, RecountOK DEF AddElem

(* remove_subu_elem keeps the list well formed: what is left is the list   *)
(* without position i.                                                     *)
LEMMA RemoveElemOK ==
  ASSUME NEW list, ListOK(list), NEW i \in DOMAIN list.head
  PROVE  LET h == list.head
             r == RemoveElem(list, i).head
         IN  /\ ListOK(RemoveElem(list, i))
             /\ Len(h) \in Nat
             /\ DOMAIN h = 1..Len(h)
             /\ Len(r) = Len(h) - 1
             /\ DOMAIN r = 1..(Len(h) - 1)
             /\ \A j \in 1..(Len(h) - 1) :
                  r[j] = IF j < i THEN h[j] ELSE h[j + 1]
<1> DEFINE h == list.head
           a == SubSeq(h, 1, i - 1)
           b == SubSeq(h, i + 1, Len(h))
<1>1. h \in Seq(Node(Names)) /\ i \in 1..Len(h) /\ Len(h) \in Nat
       /\ DOMAIN h = 1..Len(h)
  BY DEF ListOK
<1>2. /\ a \in Seq(Node(Names)) /\ Len(a) = i - 1
      /\ \A j \in 1..(i - 1) : a[j] = h[j]
  BY <1>1
<1>3. /\ b \in Seq(Node(Names)) /\ Len(b) = Len(h) - i
      /\ \A j \in 1..(Len(h) - i) : b[j] = h[i + j]
  BY <1>1
<1>5. RemoveElem(list, i) = Recount(a \o b)
  BY DEF RemoveElem
<1> HIDE DEF a, b
<1>4. /\ a \o b \in Seq(Node(Names))
      /\ Len(a \o b) = Len(h) - 1
      /\ \A j \in 1..(Len(h) - 1) :
           (a \o b)[j] = IF j < i THEN h[j] ELSE h[j + 1]
  <2>1. /\ a \o b \in Seq(Node(Names)) /\ Len(a \o b) = Len(a) + Len(b)
        /\ \A k \in 1 .. Len(a) + Len(b) :
             (a \o b)[k] = IF k <= Len(a) THEN a[k] ELSE b[k - Len(a)]
    BY <1>2, <1>3, ConcatProperties
  <2>2. Len(a \o b) = Len(h) - 1
    BY <2>1, <1>1, <1>2, <1>3
  <2>3. ASSUME NEW j \in 1..(Len(h) - 1)
        PROVE  (a \o b)[j] = IF j < i THEN h[j] ELSE h[j + 1]
    <3>1. (a \o b)[j] = IF j <= Len(a) THEN a[j] ELSE b[j - Len(a)]
      BY <2>1, <2>2
    <3>2. CASE j < i
      BY <3>1, <3>2, <1>1, <1>2
    <3>3. CASE ~ (j < i)
      <4>1. j - (i - 1) \in 1..(Len(h) - i) /\ i + (j - (i - 1)) = j + 1
        BY <3>3, <1>1
      <4>2. ~ (j <= Len(a)) /\ j - Len(a) = j - (i - 1)
        BY <3>3, <1>1, <1>2
      <4> QED BY <3>1, <3>3, <4>1, <4>2, <1>3
    <3> QED BY <3>2, <3>3
  <2> QED BY <2>1, <2>2, <2>3
<1>6. ListOK(Recount(a \o b)) /\ Recount(a \o b).head = a \o b
  BY <1>4, RecountOK
<1>7. DOMAIN (a \o b) = 1..(Len(h) - 1)
  BY <1>4
<1> QED BY <1>1, <1>4, <1>5, <1>6, <1>7

(* What check_empty_subu_list leaves is well formed. *)
LEMMA CheckEmptyOK ==
  ASSUME NEW list, ListOK(list), NEW start
  PROVE  ListOK(CheckEmpty(list, start))
BY EmptyListOK DEF CheckEmpty

(* The nodes of a list are nodes, and the records it reports too. *)
LEMMA NodesType ==
  ASSUME NEW list, ListOK(list), NEW start
  PROVE  /\ Nodes(list) \subseteq Node(Names)
         /\ Reported(list, start) \subseteq Nodes(list)
         /\ DOMAIN list.head = 1..Len(list.head)
         /\ list.count = Len(list.head)
         /\ Len(list.head) \in Nat
         /\ \A i \in DOMAIN list.head : list.head[i] \in Node(Names)
<1>1. list.head \in Seq(Node(Names)) /\ list = Recount(list.head)
  BY DEF ListOK
<1>2. list.count = Len(list.head)
  BY <1>1, RecountOK
<1> QED BY <1>1, <1>2 DEF Nodes, Reported

-----------------------------------------------------------------------------
(* Type correctness.                                                       *)

(* check_context_clear preserves the types of what it changes. *)
LEMMA ClearRecordsType ==
  ASSUME NEW list, ListOK(list), NEW start, ClearRecords(list, start),
         failed \in BOOLEAN, reported \subseteq Nat, dropped \subseteq Nat
  PROVE  /\ ListOK(mods')
         /\ failed' \in BOOLEAN
         /\ reported' \subseteq Nat
         /\ dropped' \subseteq Nat
<1>1. \A n \in Nodes(list) : n.use \in Nat
  BY NodesType DEF Node
<1>2. Reported(list, start) \subseteq Nodes(list)
  BY NodesType
<1>3. {n.use : n \in Reported(list, start)} \subseteq Nat
  BY <1>1, <1>2
<1>4. {n.use : n \in Nodes(list) \ Reported(list, start)} \subseteq Nat
  BY <1>1
<1> QED BY <1>3, <1>4, CheckEmptyOK DEF ClearRecords

(* A substitution made by a record of the list is a substitution. *)
LEMMA SubstType ==
  ASSUME ListOK(mods), NEW s \in Site,
         NEW i \in DOMAIN mods.head, NEW kind \in Kinds
  PROVE  Subst(s, i, kind) \in Substitution
BY NodesType DEF Subst, Substitution

(* get_subu_elem and its companions return positions of the list. *)
LEMMA FoundInList ==
  ASSUME NEW list, NEW loc, NEW finish
  PROVE  /\ GetElem(list, loc) \subseteq DOMAIN list.head
         /\ GetElem2(list, loc, finish) \subseteq DOMAIN list.head
BY DEF GetElem, GetElem2, FirstElem

LEMMA ElementInList ==
  ASSUME NEW s
  PROVE  ElementRecord(s) \subseteq DOMAIN mods.head
BY DEF ElementRecord, FirstElem

(* TypeOK is an invariant: every step leaves a list whose cached bounds    *)
(* and count agree with its nodes, and variables of their types.           *)
THEOREM TypeCorrect == Spec => []TypeOK
<1>1. Init => TypeOK
  <2> SUFFICES ASSUME Init PROVE TypeOK
    OBVIOUS
  <2>1. given \in Hooks
    BY DEF Init
  <2>2. define \in {"none", "ours", "other"} /\ used \in {"none", "ours", "other"}
    BY HostAssumption DEF Init
  <2>3. serial \in 0..MaxUses
    BY BoundAssumption DEF Init
  <2> QED BY <2>1, <2>2, <2>3 DEF Init, TypeOK, Phases, Allocated
<1>2. TypeOK /\ [Next]_vars => TypeOK'
  <2> SUFFICES ASSUME TypeOK, [Next]_vars PROVE TypeOK'
    OBVIOUS
  <2> USE DEF TypeOK, Allocated, Phases, hooks, counters, verdict
  <2>0. /\ failed \in BOOLEAN /\ reported \subseteq Nat /\ dropped \subseteq Nat
        /\ tree \subseteq Site /\ kept \subseteq Site /\ left \subseteq Site
    OBVIOUS
  <2>1. CASE PluginInit
    BY <2>1, EmptyListOK DEF PluginInit
  <2>2. CASE HandleStartTu
    BY <2>2 DEF HandleStartTu, InstallHook
  <2>3. ASSUME NEW d \in Definition, CheckMacroDefine(d) PROVE TypeOK'
    BY <2>3 DEF CheckMacroDefine, InstallHook
  <2>4. ASSUME NEW d \in defs, NEW loc \in Locations, NEW c \in Copies,
               NEW shape \in Shapes, NEW hit \in Names \cup {NULL},
               MacroUse(d, loc, c, hit, shape)
        PROVE  TypeOK'
    <3> DEFINE new == {[use |-> serial', copy |-> k, macro |-> d.arg,
                        hit |-> hit, shape |-> shape] : k \in 1..c}
    <3>1. serial' \in 0..MaxUses /\ serial' \in Nat
      BY <2>4, BoundAssumption DEF MacroUse
    <3>2. d.arg \in Names
      BY DEF Definition
    <3>3. new \subseteq Site
      BY <3>1, <3>2, SourceAssumption DEF Site
    <3>4. tree' \subseteq Site
      BY <2>4, <3>3 DEF MacroUse
    <3>5. [use |-> serial', loc |-> loc, name |-> d.arg] \in Node(Names)
      BY <3>1, <3>2, LocationAssumption DEF Node
    <3>6. ListOK(AddElem(mods, [use |-> serial', loc |-> loc, name |-> d.arg]))
      BY <2>4, <3>5, AddElemOK DEF MacroUse
    <3>7. /\ phase' = phase /\ phase = "parse" /\ ListOK(mods')
          /\ active' \in {0, 1} /\ failed' \in BOOLEAN /\ recorded' \subseteq Nat
      BY <2>4, <3>1, <3>6 DEF MacroUse, CheckMacroUse
    <3> QED BY <2>4, <3>1, <3>4, <3>7 DEF MacroUse
  <2>5. ASSUME NEW hit \in Names, NEW shape \in Shapes \ {"unfolded"},
               Literal(hit, shape)
        PROVE  TypeOK'
    <3>1. serial' \in 0..MaxUses /\ serial' \in Nat
      BY <2>5, BoundAssumption DEF Literal
    <3>2. tree' \subseteq Site
      BY <2>5, <3>1, SourceAssumption DEF Literal, Site
    <3> QED BY <2>5, <3>1, <3>2 DEF Literal
  <2>6. CASE OtherUnit
    BY <2>6 DEF OtherUnit, Leave
  <2>7. CASE DeclTooEarly
    BY <2>7 DEF DeclTooEarly, Leave
  <2>8. ASSUME NEW s \in SiteOrNull, NEW readonly \in BOOLEAN,
               DeclScalar(s, readonly)
        PROVE  TypeOK'
    <3>0. ListOK(mods) /\ mods.count \in Nat
      BY <2>8, NodesType DEF DeclScalar
    <3>1. CASE ClearContext(mods, MAX_LOCATION_T) /\ Leave(tree) /\ done' = done
      <4>1. ClearRecords(mods, MAX_LOCATION_T) /\ active' \in {0, 1}
        BY <3>1 DEF ClearContext
      <4>2. /\ ListOK(mods') /\ failed' \in BOOLEAN
            /\ reported' \subseteq Nat /\ dropped' \subseteq Nat
        BY <2>0, <3>0, <4>1, ClearRecordsType
      <4> QED BY <2>8, <3>0, <3>1, <4>1, <4>2 DEF DeclScalar, Leave
    <3>2. ASSUME s # NULL, NEW i \in GetElem(mods, mods.start),
                 ClearContext(RemoveElem(mods, i), MAX_LOCATION_T),
                 Leave(tree \ {s}),
                 done' = done \cup {Subst(s, i, "global")}
          PROVE  TypeOK'
      <4>0. i \in DOMAIN mods.head /\ s \in tree /\ "global" \in Kinds
        BY <3>2, FoundInList DEF SiteOrNull, Kinds
      <4>1. ListOK(RemoveElem(mods, i))
        BY <3>0, <4>0, RemoveElemOK
      <4>2. /\ ClearRecords(RemoveElem(mods, i), MAX_LOCATION_T)
            /\ active' \in {0, 1}
        BY <3>2 DEF ClearContext
      <4>3. /\ ListOK(mods') /\ failed' \in BOOLEAN
            /\ reported' \subseteq Nat /\ dropped' \subseteq Nat
        BY <2>0, <4>1, <4>2, ClearRecordsType
      <4>4. done' \subseteq Substitution
        BY <2>0, <3>0, <3>2, <4>0, SubstType
      <4> QED BY <2>8, <3>0, <3>2, <4>2, <4>3, <4>4 DEF DeclScalar, Leave
    <3> QED BY <2>8, <3>1, <3>2 DEF DeclScalar
  <2>9. CASE DeclAggregate
    <3>1. mods.count \in Nat
      BY <2>9, NodesType DEF DeclAggregate
    <3> QED BY <2>9, <3>1 DEF DeclAggregate
  <2>10. ASSUME NEW s \in tree, SetValue(s) PROVE TypeOK'
    <3>1. PICK i \in ElementRecord(s) :
            /\ mods' = RemoveElem(mods, i)
            /\ done' = done \cup {Subst(s, i, "global")}
      BY <2>10 DEF SetValue
    <3>2. ListOK(mods) /\ i \in DOMAIN mods.head /\ "global" \in Kinds
      BY <2>10, <3>1, ElementInList DEF SetValue, Kinds
    <3>3. ListOK(RemoveElem(mods, i)) /\ Subst(s, i, "global") \in Substitution
      BY <2>0, <3>2, RemoveElemOK, SubstType
    <3> QED BY <2>10, <3>1, <3>2, <3>3 DEF SetValue
  <2>11. CASE DeclEnd
    <3>1. ClearRecords(mods, MAX_LOCATION_T) /\ active' \in {0, 1} /\ ListOK(mods)
      BY <2>11 DEF DeclEnd, ClearContext
    <3>2. /\ ListOK(mods') /\ failed' \in BOOLEAN
          /\ reported' \subseteq Nat /\ dropped' \subseteq Nat
      BY <2>0, <3>1, ClearRecordsType
    <3> QED BY <2>11, <3>1, <3>2 DEF DeclEnd, Leave
  <2>12. CASE HandlePreGenericize
    BY <2>12 DEF HandlePreGenericize
  <2>13. ASSUME NEW s \in tree, NEW loc \in Locations, NEW finish \in Locations,
                CheckExpr(s, loc, finish)
         PROVE  TypeOK'
    <3>1. PICK i \in FindUse(loc, finish) :
            /\ mods' = RemoveElem(mods, i)
            /\ done' = done \cup {Subst(s, i, "sub")}
      BY <2>13 DEF CheckExpr
    <3>2. ListOK(mods) /\ i \in DOMAIN mods.head /\ "sub" \in Kinds
      BY <2>13, <3>1, FoundInList DEF CheckExpr, FindUse, Kinds
    <3>3. ListOK(RemoveElem(mods, i)) /\ Subst(s, i, "sub") \in Substitution
      BY <2>0, <3>2, RemoveElemOK, SubstType
    <3> QED BY <2>13, <3>1, <3>2, <3>3 DEF CheckExpr
  <2>14. ASSUME NEW s \in tree, NEW loc \in Locations, NEW finish \in Locations,
                CheckDecl(s, loc, finish)
         PROVE  TypeOK'
    <3>1. CASE RefuseConst
      BY <2>14, <3>1 DEF CheckDecl, RefuseConst
    <3>2. ASSUME NEW i \in FindUse(loc, finish), NEW kind \in {"init", "kept", "lost"},
                 mods' = RemoveElem(mods, i),
                 done' = done \cup {Subst(s, i, kind)},
                 tree' \subseteq tree,
                 kept' \subseteq kept \cup {s}, initcount' = initcount + 1,
                 UNCHANGED <<active, verdict>>
          PROVE  TypeOK'
      <4>1. ListOK(mods) /\ i \in DOMAIN mods.head /\ kind \in Kinds
        BY <2>14, <3>2, FoundInList DEF CheckDecl, FindUse, Kinds
      <4>2. ListOK(RemoveElem(mods, i)) /\ Subst(s, i, kind) \in Substitution
        BY <2>0, <4>1, RemoveElemOK, SubstType
      <4> QED BY <2>14, <3>2, <4>1, <4>2 DEF CheckDecl
    <3> QED BY <2>14, <3>1, <3>2 DEF CheckDecl
  <2>14a. ASSUME NEW s \in kept, NEW loc \in Locations, NEW finish \in Locations,
                 CheckKept(s, loc, finish)
          PROVE  TypeOK'
    <3>1. PICK i \in FindUse(loc, finish) :
            /\ mods' = RemoveElem(mods, i)
            /\ done' = done \cup {Subst(s, i, "init")}
      BY <2>14a DEF CheckKept
    <3>2. ListOK(mods) /\ i \in DOMAIN mods.head /\ "init" \in Kinds /\ s \in Site
      BY <2>14a, <2>0, <3>1, FoundInList DEF CheckKept, FindUse, Kinds
    <3>3. ListOK(RemoveElem(mods, i)) /\ Subst(s, i, "init") \in Substitution
      BY <2>0, <3>2, RemoveElemOK, SubstType
    <3> QED BY <2>14a, <3>1, <3>2, <3>3 DEF CheckKept
  <2>15. ASSUME NEW s \in tree, NEW loc \in Locations, RetryInt(s, loc)
         PROVE  TypeOK'
    <3>1. CASE RefuseConst
      BY <2>15, <3>1 DEF RetryInt, MissedDecl, RefuseConst
    <3>2. ASSUME NEW i \in GetElem(mods, mods.start),
                 ClearContext(RemoveElem(mods, i), loc),
                 done' = done \cup {Subst(s, i, "init")},
                 tree' = tree \ {s},
                 initcount' = initcount + 1
          PROVE  TypeOK'
      <4>1. ListOK(mods) /\ i \in DOMAIN mods.head /\ "init" \in Kinds
        BY <2>15, <3>2, FoundInList DEF RetryInt, MissedDecl, Kinds
      <4>2. ListOK(RemoveElem(mods, i)) /\ Subst(s, i, "init") \in Substitution
        BY <2>0, <4>1, RemoveElemOK, SubstType
      <4>3. ClearRecords(RemoveElem(mods, i), loc) /\ active' \in {0, 1}
        BY <3>2 DEF ClearContext
      <4>4. /\ ListOK(mods') /\ failed' \in BOOLEAN
            /\ reported' \subseteq Nat /\ dropped' \subseteq Nat
        BY <2>0, <4>2, <4>3, ClearRecordsType
      <4> QED BY <2>15, <3>2, <4>2, <4>3, <4>4 DEF RetryInt, MissedDecl
    <3> QED BY <2>15, <3>1, <3>2 DEF RetryInt
  <2>16. ASSUME NEW s \in tree, NEW loc \in Locations, RetryElement(s, loc)
         PROVE  TypeOK'
    <3>1. PICK i \in ElementRecord(s) :
            /\ mods' = RemoveElem(mods, i)
            /\ done' = done \cup {Subst(s, i, "init")}
      BY <2>16 DEF RetryElement
    <3>2. ListOK(mods) /\ i \in DOMAIN mods.head /\ "init" \in Kinds
      BY <2>16, <3>1, ElementInList DEF RetryElement, MissedDecl, Kinds
    <3>3. ListOK(RemoveElem(mods, i)) /\ Subst(s, i, "init") \in Substitution
      BY <2>0, <3>2, RemoveElemOK, SubstType
    <3> QED BY <2>16, <3>1, <3>2, <3>3 DEF RetryElement, MissedDecl
  <2>17. CASE RetryEnd
    <3>1. ClearRecords(mods, bound) /\ active' \in {0, 1} /\ ListOK(mods)
      BY <2>17 DEF RetryEnd, ClearContext
    <3>2. /\ ListOK(mods') /\ failed' \in BOOLEAN
          /\ reported' \subseteq Nat /\ dropped' \subseteq Nat
      BY <2>0, <3>1, ClearRecordsType
    <3> QED BY <2>17, <3>1, <3>2 DEF RetryEnd
  <2>18. ASSUME NEW s \in tree, NEW loc \in Locations, NEW e \in BOOLEAN,
                CaseLabel(s, loc, e)
         PROVE  TypeOK'
    <3>1. PICK i \in GetElem(mods, loc) :
            /\ mods' = RemoveElem(mods, i)
            /\ done' = done \cup {Subst(s, i, "case")}
      BY <2>18 DEF CaseLabel
    <3>2. ListOK(mods) /\ i \in DOMAIN mods.head /\ "case" \in Kinds
      BY <2>18, <3>1, FoundInList DEF CaseLabel, Kinds
    <3>3. ListOK(RemoveElem(mods, i)) /\ Subst(s, i, "case") \in Substitution
      BY <2>0, <3>2, RemoveElemOK, SubstType
    <3> QED BY <2>18, <3>1, <3>2, <3>3 DEF CaseLabel
  <2>19. CASE SwitchEnd
    BY <2>19 DEF SwitchEnd
  <2>20. CASE WalkEnd
    <3>1. ClearRecords(mods, MAX_LOCATION_T) /\ active' \in {0, 1} /\ ListOK(mods)
      BY <2>20 DEF WalkEnd, ClearContext
    <3>2. /\ ListOK(mods') /\ failed' \in BOOLEAN
          /\ reported' \subseteq Nat /\ dropped' \subseteq Nat
      BY <2>0, <3>1, ClearRecordsType
    <3> QED BY <2>20, <3>1, <3>2 DEF WalkEnd, Leave
  <2>21. CASE HandleFinishTu
    <3>1. ClearRecords(mods, MAX_LOCATION_T) /\ ListOK(mods)
      BY <2>21 DEF HandleFinishTu
    <3>2. /\ ListOK(mods') /\ failed' \in BOOLEAN
          /\ reported' \subseteq Nat /\ dropped' \subseteq Nat
      BY <2>0, <3>1, ClearRecordsType
    <3> QED BY <2>21, <3>1, <3>2 DEF HandleFinishTu, RemoveHook
  <2>22. CASE HandleFinish
    <3> DEFINE errors == Reported(mods, MAX_LOCATION_T)
    <3>1. ListOK(mods)
      BY <2>22 DEF HandleFinish
    <3>2. \A n \in errors : n.use \in Nat
      BY <3>1, NodesType DEF Node
    <3>3. reported' \subseteq Nat
      BY <2>22, <3>2 DEF HandleFinish
    <3>4. note' \in Note
      BY <2>22 DEF HandleFinish, Note
    <3>5. failed' \in BOOLEAN /\ active' \in {0, 1}
      BY <2>22 DEF HandleFinish
    <3> QED BY <2>22, <3>3, <3>4, <3>5 DEF HandleFinish
  <2>23. CASE UNCHANGED vars
    BY <2>23 DEF vars
  <2> QED
    BY <2>1, <2>2, <2>3, <2>4, <2>5, <2>6, <2>7, <2>8, <2>9, <2>10, <2>11,
       <2>12, <2>13, <2>14, <2>14a, <2>15, <2>16, <2>17, <2>18, <2>19, <2>20,
       <2>21, <2>22, <2>23
    DEF Next, Preprocess, Declare, Walk, Terminated
<1> QED BY <1>1, <1>2, PTL DEF Spec

(* FilterComplete is an invariant: the filter of check_usage, which looks  *)
(* at the cached bounds only, never hides a record from the walk.          *)
THEOREM FilterCorrect == Spec => []FilterComplete
<1>1. TypeOK => FilterComplete
  <2>1. SUFFICES ASSUME TypeOK, Allocated,
                        NEW loc \in Locations, NEW finish \in Locations,
                        FindUse(loc, finish) # {}
                 PROVE  ValidBounds(mods, loc, finish) \/ LocInBound(mods, loc)
    BY DEF FilterComplete
  <2>2. /\ mods.head \in Seq(Node(Names)) /\ mods = Recount(mods.head)
        /\ loc \in Location /\ finish \in Location
    BY <2>1, LocationAssumption DEF TypeOK, ListOK
  <2>3. \/ GetElem(Recount(mods.head), loc) # {}
        \/ GetElem2(Recount(mods.head), loc, finish) # {}
    BY <2>1, <2>2 DEF FindUse
  <2>4. \/ ValidBounds(Recount(mods.head), loc, finish)
        \/ LocInBound(Recount(mods.head), loc)
    BY <2>2, <2>3, FilterPasses
  <2> QED BY <2>2, <2>4
<1> QED BY <1>1, TypeCorrect, PTL

-----------------------------------------------------------------------------
(* Every recorded use is in exactly one place.                             *)

(* Accounting, as a relation between the list and the records of what      *)
(* became of the other uses.                                               *)
Distinct(list) ==
  \A i, j \in DOMAIN list.head : list.head[i].use = list.head[j].use => i = j

UsesOf(substs) == {d.node.use : d \in substs}

Acc(list, rec, substs, rep, drop, error) ==
  /\ rec = UsesIn(list) \cup UsesOf(substs) \cup rep \cup drop
  /\ UsesIn(list) \cap (UsesOf(substs) \cup rep \cup drop) = {}
  /\ UsesOf(substs) \cap (rep \cup drop) = {}
  /\ rep \cap drop = {}
  /\ \A d, e \in substs : d.node.use = e.node.use => d = e
  /\ Distinct(list)
  /\ drop # {} => rep # {}
  /\ rep # {} => error

CurrentList == IF Allocated THEN mods ELSE EmptyList

LEMMA NoUses == UsesIn(EmptyList) = {} /\ Nodes(EmptyList) = {} /\ Distinct(EmptyList)
<1>1. DOMAIN EmptyList.head = {}
  BY EmptyListOK
<1>2. Nodes(EmptyList) = {}
  BY <1>1 DEF Nodes
<1> QED BY <1>1, <1>2 DEF UsesIn, Distinct

LEMMA AccountingIsAcc ==
  Accounting <=> /\ recorded \subseteq 1..serial
                 /\ Acc(CurrentList, recorded, done, reported, dropped, failed)
<1>1. PendingUses = UsesIn(CurrentList)
  BY NoUses DEF PendingUses, CurrentList
<1>2. Distinct(CurrentList) <=>
        (Allocated => \A i, j \in DOMAIN mods.head :
                        mods.head[i].use = mods.head[j].use => i = j)
  BY NoUses DEF CurrentList, Distinct
<1> QED BY <1>1, <1>2 DEF Accounting, Acc, Substituted, UsesOf

-----------------------------------------------------------------------------
(* The three things that happen to a list.                                 *)

(* A new use is recorded. *)
LEMMA AddUses ==
  ASSUME NEW list, ListOK(list), NEW n \in Node(Names)
  PROVE  /\ Nodes(AddElem(list, n)) = Nodes(list) \cup {n}
         /\ UsesIn(AddElem(list, n)) = UsesIn(list) \cup {n.use}
         /\ Distinct(list) /\ n.use \notin UsesIn(list) => Distinct(AddElem(list, n))
<1> DEFINE h == list.head
           g == Append(h, n)
<1>1. /\ h \in Seq(Node(Names)) /\ Len(h) \in Nat /\ DOMAIN h = 1..Len(h)
      /\ AddElem(list, n).head = g
  BY AddElemOK DEF ListOK
<1>2. /\ DOMAIN g = 1..(Len(h) + 1)
      /\ \A i \in 1..Len(h) : g[i] = h[i]
      /\ g[Len(h) + 1] = n
  BY <1>1
<1> HIDE DEF g
<1>3. {g[i] : i \in DOMAIN g} = {h[i] : i \in DOMAIN h} \cup {n}
  <2>1. ASSUME NEW i \in DOMAIN g PROVE g[i] \in {h[k] : k \in DOMAIN h} \cup {n}
    <3>1. CASE i \in 1..Len(h)
      BY <3>1, <1>1, <1>2
    <3>2. CASE i = Len(h) + 1
      BY <3>2, <1>2
    <3> QED BY <3>1, <3>2, <1>1, <1>2
  <2>2. ASSUME NEW i \in DOMAIN h PROVE h[i] \in {g[k] : k \in DOMAIN g}
    BY <1>1, <1>2
  <2>3. n \in {g[k] : k \in DOMAIN g}
    BY <1>1, <1>2
  <2> QED BY <2>1, <2>2, <2>3
<1>4. Nodes(AddElem(list, n)) = Nodes(list) \cup {n}
  BY <1>1, <1>3 DEF Nodes
<1>5. UsesIn(AddElem(list, n)) = UsesIn(list) \cup {n.use}
  BY <1>4 DEF UsesIn
<1>6. ASSUME Distinct(list), n.use \notin UsesIn(list),
             NEW i \in DOMAIN g, NEW j \in DOMAIN g, g[i].use = g[j].use
      PROVE  i = j
  <2>1. \A k \in 1..Len(h) : h[k].use \in UsesIn(list)
    BY <1>1 DEF UsesIn, Nodes
  <2>2. CASE i \in 1..Len(h) /\ j \in 1..Len(h)
    BY <2>2, <1>1, <1>2, <1>6 DEF Distinct
  <2>3. CASE i = Len(h) + 1 /\ j \in 1..Len(h)
    BY <2>1, <2>3, <1>2, <1>6
  <2>4. CASE i \in 1..Len(h) /\ j = Len(h) + 1
    BY <2>1, <2>4, <1>2, <1>6
  <2> QED BY <2>2, <2>3, <2>4, <1>1, <1>2
<1> QED BY <1>1, <1>4, <1>5, <1>6 DEF Distinct

(* A record is removed: in a list without repetitions, its node and its    *)
(* use are gone, and every other one stays.                                *)
LEMMA RemoveUses ==
  ASSUME NEW list, ListOK(list), Distinct(list), NEW i \in DOMAIN list.head
  PROVE  /\ Nodes(RemoveElem(list, i)) = Nodes(list) \ {list.head[i]}
         /\ UsesIn(RemoveElem(list, i)) = UsesIn(list) \ {list.head[i].use}
         /\ Distinct(RemoveElem(list, i))
<1> DEFINE h == list.head
           r == RemoveElem(list, i).head
<1>1. /\ Len(h) \in Nat /\ DOMAIN h = 1..Len(h)
      /\ DOMAIN r = 1..(Len(h) - 1)
      /\ \A j \in 1..(Len(h) - 1) : r[j] = IF j < i THEN h[j] ELSE h[j + 1]
  BY RemoveElemOK
<1> HIDE DEF r
<1>2. ASSUME NEW j \in DOMAIN r
      PROVE  \E k \in DOMAIN h : k # i /\ r[j] = h[k]
                                 /\ k = IF j < i THEN j ELSE j + 1
  <2>1. CASE j < i
    BY <2>1, <1>1
  <2>2. CASE ~ (j < i)
    BY <2>2, <1>1
  <2> QED BY <2>1, <2>2
<1>3. ASSUME NEW k \in DOMAIN h, k # i
      PROVE  \E j \in DOMAIN r : r[j] = h[k]
  <2>1. CASE k < i
    <3>1. k \in DOMAIN r /\ r[k] = h[k]
      BY <2>1, <1>1
    <3> QED BY <3>1
  <2>2. CASE ~ (k < i)
    <3>1. k - 1 \in DOMAIN r /\ r[k - 1] = h[k]
      BY <2>2, <1>1, <1>3
    <3> QED BY <3>1
  <2> QED BY <2>1, <2>2
<1>4. \A k \in DOMAIN h : h[k].use = h[i].use => k = i
  BY DEF Distinct
<1>5. {r[j] : j \in DOMAIN r} = {h[k] : k \in DOMAIN h} \ {h[i]}
  <2>1. ASSUME NEW j \in DOMAIN r
        PROVE  r[j] \in {h[k] : k \in DOMAIN h} \ {h[i]}
    BY <1>2, <1>4
  <2>2. ASSUME NEW k \in DOMAIN h, h[k] # h[i]
        PROVE  h[k] \in {r[j] : j \in DOMAIN r}
    BY <1>3, <2>2
  <2> QED BY <2>1, <2>2
<1>6. Nodes(RemoveElem(list, i)) = Nodes(list) \ {list.head[i]}
  BY <1>5 DEF Nodes, r
<1>7. \A n \in Nodes(list) : n.use = h[i].use => n = h[i]
  BY <1>4 DEF Nodes
<1>8. UsesIn(RemoveElem(list, i)) = UsesIn(list) \ {list.head[i].use}
  BY <1>6, <1>7 DEF UsesIn
<1>9. ASSUME NEW j \in DOMAIN r, NEW l \in DOMAIN r, r[j].use = r[l].use
      PROVE  j = l
  <2>1. PICK k \in DOMAIN h : r[j] = h[k] /\ k = IF j < i THEN j ELSE j + 1
    BY <1>2
  <2>2. PICK m \in DOMAIN h : r[l] = h[m] /\ m = IF l < i THEN l ELSE l + 1
    BY <1>2
  <2>3. k = m
    BY <1>9, <2>1, <2>2 DEF Distinct
  <2> QED BY <2>1, <2>2, <2>3, <1>1
<1> QED BY <1>6, <1>8, <1>9 DEF Distinct, r
(* The invariant is kept by recording a new use, ... *)
LEMMA AccAdd ==
  ASSUME NEW list, ListOK(list), NEW n \in Node(Names),
         NEW rec, NEW substs, NEW rep, NEW drop, NEW error,
         Acc(list, rec, substs, rep, drop, error), n.use \notin rec
  PROVE  Acc(AddElem(list, n), rec \cup {n.use}, substs, rep, drop, error)
<1>1. UsesIn(AddElem(list, n)) = UsesIn(list) \cup {n.use}
  BY AddUses
<1>2. Distinct(AddElem(list, n))
  BY AddUses DEF Acc
<1> QED BY <1>1, <1>2 DEF Acc

(* ... by a substitution that uses up the record it was made by, ... *)
LEMMA AccSubst ==
  ASSUME NEW list, ListOK(list), NEW i \in DOMAIN list.head,
         NEW rec, NEW substs, NEW rep, NEW drop, NEW error,
         Acc(list, rec, substs, rep, drop, error),
         NEW d, d.node = list.head[i]
  PROVE  Acc(RemoveElem(list, i), rec, substs \cup {d}, rep, drop, error)
<1> DEFINE u == list.head[i].use
<1>1. /\ UsesIn(RemoveElem(list, i)) = UsesIn(list) \ {u}
      /\ Distinct(RemoveElem(list, i))
  BY RemoveUses DEF Acc
<1>2. u \in UsesIn(list) /\ d.node.use = u
  BY DEF UsesIn, Nodes
<1>3. UsesOf(substs \cup {d}) = UsesOf(substs) \cup {u}
  BY <1>2 DEF UsesOf
<1>4. \A e \in substs : e.node.use # u
  BY <1>2 DEF Acc, UsesOf
<1> QED BY <1>1, <1>2, <1>3, <1>4 DEF Acc

(* ... and by check_context_clear, which leaves the list alone, or reports *)
(* some of it and drops the rest.                                          *)
LEMMA AccClear ==
  ASSUME NEW list, ListOK(list), NEW start, NEW rec, NEW substs,
         failed \in BOOLEAN,
         Acc(list, rec, substs, reported, dropped, failed),
         ClearRecords(list, start)
  PROVE  Acc(mods', rec, substs, reported', dropped', failed')
<1> DEFINE errors == Reported(list, start)
           R == {n.use : n \in errors}
           D == {n.use : n \in Nodes(list) \ errors}
<1>1. errors \subseteq Nodes(list)
  BY NodesType
<1>2. CASE errors = {}
  BY <1>2 DEF ClearRecords, CheckEmpty
<1>3. CASE errors # {}
  <2>1. mods' = EmptyList /\ UsesIn(mods') = {} /\ Distinct(mods')
    BY <1>3, NoUses DEF ClearRecords, CheckEmpty
  <2>2. R \cup D = UsesIn(list) /\ R # {}
    BY <1>1, <1>3 DEF UsesIn
  <2>3. R \cap D = {}
    <3>1. \A n, m \in Nodes(list) : n.use = m.use => n = m
      BY DEF Acc, Distinct, Nodes
    <3> QED BY <3>1, <1>1
  <2>4. reported' = reported \cup R /\ dropped' = dropped \cup D /\ failed'
    BY <1>3 DEF ClearRecords
  <2> HIDE DEF R, D, errors
  <2> QED BY <2>1, <2>2, <2>3, <2>4 DEF Acc
<1> QED BY <1>2, <1>3

(* What a step that touches neither the list nor the history keeps. *)
LEMMA AccSame ==
  ASSUME Acc(mods, recorded, done, reported, dropped, failed),
         UNCHANGED <<mods, recorded, done, reported, dropped>>,
         failed => failed'
  PROVE  Acc(mods', recorded', done', reported', dropped', failed')
BY DEF Acc

-----------------------------------------------------------------------------
(* Accounting is an invariant: at every moment each recorded use is        *)
(* pending, substituted once, reported, or dropped with an error.          *)
THEOREM AccountingCorrect == Spec => []Accounting
<1> DEFINE Ac == Acc(mods, recorded, done, reported, dropped, failed)
           Inv == /\ recorded \subseteq 1..serial
                  /\ Acc(CurrentList, recorded, done, reported, dropped, failed)
<1>1. Init => Inv
  <2>1. Acc(EmptyList, {}, {}, {}, {}, FALSE)
    BY NoUses DEF Acc, UsesOf
  <2> QED BY <2>1 DEF Init, CurrentList, Allocated
<1>2. TypeOK /\ Inv /\ [Next]_vars => Inv'
  <2> SUFFICES ASSUME TypeOK, Inv, [Next]_vars PROVE Inv'
    OBVIOUS
  <2>0. /\ serial \in Nat /\ failed \in BOOLEAN
        /\ Allocated => ListOK(mods) /\ Ac
    BY BoundAssumption DEF TypeOK, CurrentList
  <2> USE DEF hooks, counters, verdict
  <2>a. ASSUME Allocated', recorded' \subseteq 1..serial',
               Acc(mods', recorded', done', reported', dropped', failed')
        PROVE  Inv'
    BY <2>a DEF CurrentList
  <2>b. ASSUME NEW i \in DOMAIN mods.head, NEW s, NEW kind, Allocated
        PROVE  Acc(RemoveElem(mods, i), recorded, done \cup {Subst(s, i, kind)},
                   reported, dropped, failed)
    BY <2>b, <2>0, AccSubst DEF Subst
  <2>1. CASE PluginInit
    <3>1. Acc(EmptyList, recorded, done, reported, dropped, failed)
      BY <2>1 DEF PluginInit, CurrentList, Allocated
    <3>2. Acc(EmptyList, recorded, done, reported, dropped, failed')
      BY <2>1, <3>1 DEF PluginInit, Acc
    <3> QED BY <2>1, <3>2 DEF PluginInit, CurrentList, Allocated
  <2>2. CASE HandleStartTu
    BY <2>2 DEF HandleStartTu, CurrentList, Allocated
  <2>3. ASSUME NEW d \in Definition, CheckMacroDefine(d) PROVE Inv'
    BY <2>3 DEF CheckMacroDefine, CurrentList, Allocated
  <2>4. ASSUME NEW d \in defs, NEW loc \in Locations, NEW c \in Copies,
               NEW shape \in Shapes, NEW hit \in Names \cup {NULL},
               MacroUse(d, loc, c, hit, shape)
        PROVE  Inv'
    <3> DEFINE n == [use |-> serial', loc |-> loc, name |-> d.arg]
    <3>1. /\ Allocated /\ Allocated' /\ serial' = serial + 1
          /\ UNCHANGED <<done, reported, dropped>>
      BY <2>4 DEF MacroUse, Allocated
    <3>2. CASE mods' = AddElem(mods, n) /\ recorded' = recorded \cup {serial'}
               /\ UNCHANGED <<active, failed>>
      <4>1. n \in Node(Names) /\ n.use = serial' /\ n.use \notin recorded
        BY <2>0, <3>1, LocationAssumption DEF Node, TypeOK, Definition
      <4>2. Acc(mods', recorded', done, reported, dropped, failed)
        BY <2>0, <3>1, <3>2, <4>1, AccAdd
      <4>3. recorded' \subseteq 1..serial'
        BY <2>0, <3>1, <3>2
      <4> QED BY <2>a, <3>1, <3>2, <4>2, <4>3
    <3>3. CASE UNCHANGED <<mods, recorded>> /\ (failed => failed')
      <4>1. Acc(mods', recorded', done', reported', dropped', failed')
        BY <2>0, <3>1, <3>3, AccSame
      <4>2. recorded' \subseteq 1..serial'
        BY <2>0, <3>1, <3>3
      <4> QED BY <2>a, <3>1, <4>1, <4>2
    <3> QED BY <2>4, <3>2, <3>3 DEF MacroUse, CheckMacroUse
  <2>5. ASSUME NEW hit \in Names, NEW shape \in Shapes \ {"unfolded"},
               Literal(hit, shape)
        PROVE  Inv'
    BY <2>5, <2>0 DEF Literal, CurrentList, Allocated
  <2>6. CASE OtherUnit
    BY <2>6 DEF OtherUnit, Leave, CurrentList, Allocated
  <2>7. CASE DeclTooEarly
    <3>1. Allocated /\ Allocated' /\ failed' /\ recorded' \subseteq 1..serial'
      BY <2>7 DEF DeclTooEarly, Leave, Allocated
    <3>2. Acc(mods', recorded', done', reported', dropped', failed')
      BY <2>7, <2>0, <3>1, AccSame DEF DeclTooEarly
    <3> QED BY <2>a, <3>1, <3>2
  <2>8. ASSUME NEW s \in SiteOrNull, NEW readonly \in BOOLEAN,
               DeclScalar(s, readonly)
        PROVE  Inv'
    <3>1. /\ Allocated /\ recorded' = recorded /\ recorded' \subseteq 1..serial'
          /\ Allocated'
      BY <2>8 DEF DeclScalar, Leave, Allocated
    <3>2. CASE ClearContext(mods, MAX_LOCATION_T) /\ done' = done
      BY <2>0, <2>a, <3>1, <3>2, AccClear DEF ClearContext
    <3>3. ASSUME NEW i \in GetElem(mods, mods.start),
                 ClearContext(RemoveElem(mods, i), MAX_LOCATION_T),
                 done' = done \cup {Subst(s, i, "global")}
          PROVE  Inv'
      <4>1. i \in DOMAIN mods.head
        BY FoundInList
      <4>2. ListOK(RemoveElem(mods, i))
        BY <2>0, <3>1, <4>1, RemoveElemOK
      <4> QED BY <2>0, <2>a, <2>b, <3>1, <3>3, <4>1, <4>2, AccClear DEF ClearContext
    <3> QED BY <2>8, <3>2, <3>3 DEF DeclScalar
  <2>9. CASE DeclAggregate
    BY <2>9 DEF DeclAggregate, CurrentList, Allocated
  <2>10. ASSUME NEW s \in tree, SetValue(s) PROVE Inv'
    <3>1. PICK i \in ElementRecord(s) :
            /\ mods' = RemoveElem(mods, i)
            /\ done' = done \cup {Subst(s, i, "global")}
      BY <2>10 DEF SetValue
    <3>2. /\ Allocated /\ Allocated' /\ recorded' \subseteq 1..serial'
          /\ i \in DOMAIN mods.head
      BY <2>10, <3>1, ElementInList DEF SetValue, Allocated
    <3> QED BY <2>10, <2>a, <2>b, <3>1, <3>2 DEF SetValue
  <2>11. CASE DeclEnd
    <3>1. Allocated /\ Allocated' /\ recorded' \subseteq 1..serial'
      BY <2>11 DEF DeclEnd, Leave, Allocated
    <3> QED BY <2>11, <2>0, <2>a, <3>1, AccClear DEF DeclEnd, ClearContext
  <2>12. CASE HandlePreGenericize
    BY <2>12 DEF HandlePreGenericize, CurrentList, Allocated
  <2>13. ASSUME NEW s \in tree, NEW loc \in Locations, NEW finish \in Locations,
                CheckExpr(s, loc, finish)
         PROVE  Inv'
    <3>1. PICK i \in FindUse(loc, finish) :
            /\ mods' = RemoveElem(mods, i)
            /\ done' = done \cup {Subst(s, i, "sub")}
      BY <2>13 DEF CheckExpr
    <3>2. /\ Allocated /\ Allocated' /\ recorded' \subseteq 1..serial'
          /\ i \in DOMAIN mods.head
      BY <2>13, <3>1, FoundInList DEF CheckExpr, FindUse, Allocated
    <3> QED BY <2>13, <2>a, <2>b, <3>1, <3>2 DEF CheckExpr
  <2>14. ASSUME NEW s \in tree, NEW loc \in Locations, NEW finish \in Locations,
                CheckDecl(s, loc, finish)
         PROVE  Inv'
    <3>1. Allocated /\ Allocated' /\ recorded' = recorded
          /\ recorded' \subseteq 1..serial'
      BY <2>14 DEF CheckDecl, Allocated
    <3>2. CASE RefuseConst
      BY <3>1, <3>2, <2>0, <2>a, AccSame DEF RefuseConst
    <3>3. ASSUME NEW i \in FindUse(loc, finish), NEW kind,
                 mods' = RemoveElem(mods, i),
                 done' = done \cup {Subst(s, i, kind)},
                 UNCHANGED <<active, verdict>>
          PROVE  Inv'
      <4>1. i \in DOMAIN mods.head
        BY FoundInList DEF FindUse
      <4> QED BY <2>a, <2>b, <3>1, <3>3, <4>1
    <3> QED BY <2>14, <3>2, <3>3 DEF CheckDecl
  <2>14a. ASSUME NEW s \in kept, NEW loc \in Locations, NEW finish \in Locations,
                 CheckKept(s, loc, finish)
          PROVE  Inv'
    <3>1. PICK i \in FindUse(loc, finish) :
            /\ mods' = RemoveElem(mods, i)
            /\ done' = done \cup {Subst(s, i, "init")}
      BY <2>14a DEF CheckKept
    <3>2. /\ Allocated /\ Allocated' /\ recorded' \subseteq 1..serial'
          /\ i \in DOMAIN mods.head
      BY <2>14a, <3>1, FoundInList DEF CheckKept, FindUse, Allocated
    <3> QED BY <2>14a, <2>a, <2>b, <3>1, <3>2 DEF CheckKept
  <2>15. ASSUME NEW s \in tree, NEW loc \in Locations, RetryInt(s, loc)
         PROVE  Inv'
    <3>1. Allocated /\ Allocated' /\ recorded' = recorded
          /\ recorded' \subseteq 1..serial'
      BY <2>15 DEF RetryInt, MissedDecl, Allocated
    <3>2. CASE RefuseConst
      BY <3>1, <3>2, <2>0, <2>a, AccSame DEF RefuseConst
    <3>3. ASSUME NEW i \in GetElem(mods, mods.start),
                 ClearContext(RemoveElem(mods, i), loc),
                 done' = done \cup {Subst(s, i, "init")}
          PROVE  Inv'
      <4>1. i \in DOMAIN mods.head
        BY FoundInList
      <4>2. ListOK(RemoveElem(mods, i))
        BY <2>0, <3>1, <4>1, RemoveElemOK
      <4> QED BY <2>0, <2>a, <2>b, <3>1, <3>3, <4>1, <4>2, AccClear DEF ClearContext
    <3> QED BY <2>15, <3>2, <3>3 DEF RetryInt
  <2>16. ASSUME NEW s \in tree, NEW loc \in Locations, RetryElement(s, loc)
         PROVE  Inv'
    <3>1. PICK i \in ElementRecord(s) :
            /\ mods' = RemoveElem(mods, i)
            /\ done' = done \cup {Subst(s, i, "init")}
      BY <2>16 DEF RetryElement
    <3>2. /\ Allocated /\ Allocated' /\ recorded' \subseteq 1..serial'
          /\ i \in DOMAIN mods.head
      BY <2>16, <3>1, ElementInList DEF RetryElement, MissedDecl, Allocated
    <3> QED BY <2>16, <2>a, <2>b, <3>1, <3>2 DEF RetryElement
  <2>17. CASE RetryEnd
    <3>1. Allocated /\ Allocated' /\ recorded' \subseteq 1..serial'
      BY <2>17 DEF RetryEnd, Allocated
    <3> QED BY <2>17, <2>0, <2>a, <3>1, AccClear DEF RetryEnd, ClearContext
  <2>18. ASSUME NEW s \in tree, NEW loc \in Locations, NEW e \in BOOLEAN,
                CaseLabel(s, loc, e)
         PROVE  Inv'
    <3>1. PICK i \in GetElem(mods, loc) :
            /\ mods' = RemoveElem(mods, i)
            /\ done' = done \cup {Subst(s, i, "case")}
      BY <2>18 DEF CaseLabel
    <3>2. /\ Allocated /\ Allocated' /\ recorded' \subseteq 1..serial'
          /\ i \in DOMAIN mods.head
      BY <2>18, <3>1, FoundInList DEF CaseLabel, Allocated
    <3> QED BY <2>18, <2>a, <2>b, <3>1, <3>2 DEF CaseLabel
  <2>19. CASE SwitchEnd
    BY <2>19 DEF SwitchEnd, CurrentList, Allocated
  <2>20. CASE WalkEnd
    <3>1. Allocated /\ Allocated' /\ recorded' \subseteq 1..serial'
      BY <2>20 DEF WalkEnd, Leave, Allocated
    <3> QED BY <2>20, <2>0, <2>a, <3>1, AccClear DEF WalkEnd, ClearContext
  <2>21. CASE HandleFinishTu
    <3>1. Allocated /\ Allocated' /\ recorded' \subseteq 1..serial'
      BY <2>21 DEF HandleFinishTu, Allocated
    <3> QED BY <2>21, <2>0, <2>a, <3>1, AccClear DEF HandleFinishTu
  <2>22. CASE HandleFinish
    <3> DEFINE R == {n.use : n \in Reported(mods, MAX_LOCATION_T)}
    <3>1. Allocated /\ ~ Allocated' /\ recorded' \subseteq 1..serial'
      BY <2>22 DEF HandleFinish, Allocated
    <3>2. Reported(mods, MAX_LOCATION_T) = Nodes(mods)
      BY DEF Reported
    <3>3. R = UsesIn(mods)
      BY <3>2 DEF UsesIn
    <3>4. /\ reported' = reported \cup R
          /\ failed' = (failed \/ R # {})
          /\ UNCHANGED <<recorded, done, dropped>>
      BY <2>22 DEF HandleFinish
    <3> HIDE DEF R
    <3>5. Acc(EmptyList, recorded', done', reported', dropped', failed')
      BY <2>0, <3>1, <3>3, <3>4, NoUses DEF Acc
    <3> QED BY <3>1, <3>5 DEF CurrentList
  <2>23. CASE UNCHANGED vars
    BY <2>23 DEF vars, CurrentList, Allocated
  <2> QED
    BY <2>1, <2>2, <2>3, <2>4, <2>5, <2>6, <2>7, <2>8, <2>9, <2>10, <2>11,
       <2>12, <2>13, <2>14, <2>14a, <2>15, <2>16, <2>17, <2>18, <2>19, <2>20,
       <2>21, <2>22, <2>23
    DEF Next, Preprocess, Declare, Walk, Terminated
<1>3. Inv => Accounting
  BY AccountingIsAcc
<1> QED BY <1>1, <1>2, <1>3, TypeCorrect, PTL DEF Spec

=============================================================================
