----------------------------- MODULE SoundProofs -----------------------------
(* What a whole compilation promises, for every value of the constants:    *)
(* recording is on whenever it must be, the hooks are given back, and no   *)
(* magic number of a macro survives if the source is CleanSource; whatever *)
(* the source is, the final notes count right, and the steps are those of  *)
(* MacroLedger.  All but the hooks rest on Accounting.                     *)
EXTENDS PortcosmoProofs

-----------------------------------------------------------------------------
(* The hooks.                                                              *)

(* A hook holds what it held, or ours if it was free. *)
HookInv ==
  LET held(h, g) == h = g \/ (h = "ours" /\ g = "none")
  IN  /\ held(define, given[1])
      /\ held(used, given[2])
      /\ given \in {"none", "other"} \X {"none", "other"}
      /\ phase = "unit_done" =>
           /\ define = given[1] /\ used = given[2]
           /\ actually = "identity" /\ active = 0

(* HooksRestored is an invariant, whoever held the hooks before. *)
THEOREM HooksCorrect == Spec => []HooksRestored
<1>1. Init => HookInv
  BY HostAssumption DEF Init, HookInv
<1>2. HookInv /\ [Next]_vars => HookInv'
  <2> SUFFICES ASSUME HookInv, [Next]_vars PROVE HookInv'
    OBVIOUS
  <2> USE DEF HookInv, hooks
  <2>1. CASE HandleStartTu
    BY <2>1 DEF HandleStartTu, InstallHook
  <2>2. ASSUME NEW d \in Definition, CheckMacroDefine(d) PROVE HookInv'
    BY <2>2 DEF CheckMacroDefine, InstallHook
  <2>3. CASE HandleFinishTu
    BY <2>3 DEF HandleFinishTu, RemoveHook
  <2>4. ASSUME UNCHANGED hooks, phase' # "unit_done" PROVE HookInv'
    BY <2>4
  <2>5. PluginInit \/ HandleFinish => UNCHANGED hooks /\ phase' # "unit_done"
    BY DEF PluginInit, HandleFinish
  <2>6. (\E d \in defs, loc \in Locations, c \in Copies, shape \in Shapes,
           hit \in Names \cup {NULL} : MacroUse(d, loc, c, hit, shape))
        \/ (\E hit \in Names, shape \in Shapes \ {"unfolded"} : Literal(hit, shape))
          => UNCHANGED hooks /\ phase' # "unit_done"
    BY DEF MacroUse, Literal
  <2>7. Declare => UNCHANGED hooks /\ phase' # "unit_done"
    BY DEF Declare, OtherUnit, DeclTooEarly, DeclScalar, DeclAggregate,
           SetValue, DeclEnd, Leave
  <2>8. Walk => UNCHANGED hooks /\ phase' # "unit_done"
    BY DEF Walk, HandlePreGenericize, CheckExpr, CheckDecl, CheckKept, RetryInt,
           MissedDecl, RetryElement, RetryEnd, CaseLabel,
           SwitchEnd, WalkEnd, Leave
  <2>9. CASE UNCHANGED vars
    BY <2>9 DEF vars
  <2> QED BY <2>1, <2>2, <2>3, <2>4, <2>5, <2>6, <2>7, <2>8, <2>9
          DEF Next, Preprocess, Terminated
<1>3. HookInv => HooksRestored
  BY DEF HookInv, HooksRestored
<1> QED BY <1>1, <1>2, <1>3, PTL DEF Spec

-----------------------------------------------------------------------------
(* Recording.                                                              *)

Mentioned == \E d \in defs : Mentions(d)

(* While nobody else holds a hook: ours is installed once the unit has     *)
(* started, and the one for uses whenever a handler can have been entered. *)
RecordingInv ==
  /\ define \in {"none", "ours"} /\ used \in {"none", "ours"}
  /\ phase \in {"start", "loaded"} =>
       defs = {} /\ active = 0 /\ actually = "foreign"
  /\ actually = "tmp" => lang = "C"
  /\ Parsing /\ lang = "C" => define = "ours"
  /\ Parsing /\ active = 1 => used = "ours"
  /\ phase \in {"decl", "walk", "retry"} => used = "ours"
  /\ Parsing /\ lang = "C" /\ ~ failed /\ Mentioned => active = 1

(* check_context_clear leaves active = 1, or an error. *)
LEMMA ClearActive ==
  ASSUME NEW list, NEW start, ClearContext(list, start)
  PROVE  active' \in {0, 1} /\ (active' = 1 \/ failed') /\ (failed => failed')
BY DEF ClearContext, ClearRecords

(* RecordingInv is an invariant when the hooks are free. *)
LEMMA RecordingInvariant ==
  ASSUME Hooks = {<<"none", "none">>}
  PROVE  Spec => []RecordingInv
<1>1. Init => RecordingInv
  BY DEF Init, RecordingInv, Parsing
<1>2. TypeOK /\ RecordingInv /\ [Next]_vars => RecordingInv'
  <2> SUFFICES ASSUME TypeOK, RecordingInv, [Next]_vars PROVE RecordingInv'
    OBVIOUS
  <2>0. active \in {0, 1} /\ lang \in {"C", "ASM"}
    BY HostAssumption DEF TypeOK
  <2> USE DEF RecordingInv, Parsing, Mentioned, hooks
  (* A step inside or at the end of a handler. *)
  <2>a. ASSUME Parsing, used = "ours", UNCHANGED hooks, active' \in {0, 1},
               active' = 1 \/ failed' \/ (active' = active /\ failed' = failed),
               phase' \in {"parse", "decl", "walk", "retry"}
        PROVE  RecordingInv'
    BY <2>a, <2>0
  <2>1. CASE PluginInit
    BY <2>1 DEF PluginInit
  <2>2. CASE HandleStartTu
    BY <2>2, <2>0 DEF HandleStartTu, InstallHook
  <2>3. ASSUME NEW d \in Definition, CheckMacroDefine(d) PROVE RecordingInv'
    <3>1. CASE define = "ours" /\ active = 0 /\ Mentions(d)
      BY <2>3, <3>1 DEF CheckMacroDefine, InstallHook
    <3>2. CASE ~ (define = "ours" /\ active = 0 /\ Mentions(d))
      <4>1. /\ UNCHANGED <<active, used, define, actually, lang, failed, phase>>
            /\ phase = "parse" /\ defs' = defs \cup {d}
        BY <2>3, <3>2 DEF CheckMacroDefine, verdict
      <4>2. Mentioned' => Mentioned \/ Mentions(d)
        BY <4>1
      <4>3. lang = "C" /\ ~ failed /\ Mentioned' => active = 1
        BY <4>1, <4>2, <3>2, <2>0
      <4> QED BY <4>1, <4>3
    <3> QED BY <3>1, <3>2
  <2>4. ASSUME NEW d \in defs, NEW loc \in Locations, NEW c \in Copies,
               NEW shape \in Shapes, NEW hit \in Names \cup {NULL},
               MacroUse(d, loc, c, hit, shape)
        PROVE  RecordingInv'
    BY <2>4 DEF MacroUse, CheckMacroUse
  <2>5. ASSUME NEW hit \in Names, NEW shape \in Shapes \ {"unfolded"},
               Literal(hit, shape)
        PROVE  RecordingInv'
    BY <2>5 DEF Literal, verdict
  <2>6. CASE OtherUnit
    BY <2>6 DEF OtherUnit, Leave, verdict
  <2>7. CASE DeclTooEarly
    BY <2>7, <2>0, <2>a DEF DeclTooEarly, Leave, Pending
  <2>8. ASSUME NEW s \in SiteOrNull, NEW readonly \in BOOLEAN,
               DeclScalar(s, readonly)
        PROVE  RecordingInv'
    <3>1. PICK list : ClearContext(list, MAX_LOCATION_T)
      BY <2>8 DEF DeclScalar
    <3>2. used = "ours" /\ Parsing /\ UNCHANGED hooks /\ phase' = "parse"
      BY <2>8, <2>0 DEF DeclScalar, Pending, Leave
    <3> QED BY <2>a, <3>1, <3>2, ClearActive
  <2>9. CASE DeclAggregate
    BY <2>9, <2>0, <2>a DEF DeclAggregate, Pending, verdict
  <2>10. ASSUME NEW s \in tree, SetValue(s) PROVE RecordingInv'
    BY <2>10, <2>0, <2>a DEF SetValue, verdict
  <2>11. CASE DeclEnd
    BY <2>11, <2>a, ClearActive DEF DeclEnd, Leave
  <2>12. CASE HandlePreGenericize
    BY <2>12, <2>0, <2>a DEF HandlePreGenericize, Pending, verdict
  <2>13. ASSUME NEW s \in tree, NEW loc \in Locations, NEW finish \in Locations,
                CheckExpr(s, loc, finish)
         PROVE  RecordingInv'
    BY <2>13, <2>0, <2>a DEF CheckExpr, verdict
  <2>14. ASSUME NEW s \in tree, NEW loc \in Locations, NEW finish \in Locations,
                CheckDecl(s, loc, finish)
         PROVE  RecordingInv'
    BY <2>14, <2>0, <2>a DEF CheckDecl, RefuseConst, verdict
  <2>14a. ASSUME NEW s \in kept, NEW loc \in Locations, NEW finish \in Locations,
                 CheckKept(s, loc, finish)
          PROVE  RecordingInv'
    BY <2>14a, <2>0, <2>a DEF CheckKept, verdict
  <2>15. ASSUME NEW s \in tree, NEW loc \in Locations, RetryInt(s, loc)
         PROVE  RecordingInv'
    <3>1. \/ RefuseConst
          \/ \E list : ClearContext(list, loc)
      BY <2>15 DEF RetryInt
    <3>2. used = "ours" /\ Parsing /\ UNCHANGED hooks /\ phase' = "walk"
      BY <2>15 DEF RetryInt, MissedDecl
    <3> QED BY <2>a, <3>1, <3>2, ClearActive DEF RefuseConst
  <2>16. ASSUME NEW s \in tree, NEW loc \in Locations, RetryElement(s, loc)
         PROVE  RecordingInv'
    BY <2>16, <2>0, <2>a DEF RetryElement, MissedDecl, verdict
  <2>17. CASE RetryEnd
    BY <2>17, <2>a, ClearActive DEF RetryEnd
  <2>18. ASSUME NEW s \in tree, NEW loc \in Locations, NEW e \in BOOLEAN,
                CaseLabel(s, loc, e)
         PROVE  RecordingInv'
    BY <2>18, <2>0, <2>a DEF CaseLabel, verdict
  <2>19. CASE SwitchEnd
    BY <2>19, <2>0, <2>a DEF SwitchEnd, verdict
  <2>20. CASE WalkEnd
    BY <2>20, <2>a, ClearActive DEF WalkEnd, Leave
  <2>21. CASE HandleFinishTu
    BY <2>21 DEF HandleFinishTu, RemoveHook
  <2>22. CASE HandleFinish
    BY <2>22 DEF HandleFinish
  <2>23. CASE UNCHANGED vars
    BY <2>23 DEF vars, verdict
  <2> QED
    BY <2>1, <2>2, <2>3, <2>4, <2>5, <2>6, <2>7, <2>8, <2>9, <2>10, <2>11,
       <2>12, <2>13, <2>14, <2>14a, <2>15, <2>16, <2>17, <2>18, <2>19, <2>20,
       <2>21, <2>22, <2>23
    DEF Next, Preprocess, Declare, Walk, Terminated
<1> QED BY <1>1, <1>2, TypeCorrect, PTL DEF Spec

(* RecordingOn is an invariant when the hooks are free: no error, and a    *)
(* definition seen, mean that uses are being recorded.                     *)
THEOREM RecordingCorrect ==
  ASSUME Hooks = {<<"none", "none">>}
  PROVE  Spec => []RecordingOn
<1>1. TypeOK /\ RecordingInv => RecordingOn
  BY DEF RecordingInv, RecordingOn, Mentioned
<1> QED BY <1>1, TypeCorrect, RecordingInvariant, PTL
-----------------------------------------------------------------------------
(* Counting: the records of every macro are at least as many as its        *)
(* constants that are still in the tree.                                   *)

SitesOf(sites, m)  == {s \in sites : s.macro = m}
RecordsOf(list, m) == {n \in Nodes(list) : n.name = m}

Cover(list, sites) ==
  \A m \in Names : Cardinality(SitesOf(sites, m)) <= Cardinality(RecordsOf(list, m))

LEMMA RecordsFinite ==
  ASSUME NEW list, ListOK(list), NEW m
  PROVE  IsFiniteSet(Nodes(list)) /\ IsFiniteSet(RecordsOf(list, m))
<1>1. IsFiniteSet(DOMAIN list.head)
  BY NodesType, FS_Interval
<1>2. IsFiniteSet(Nodes(list))
  <2>1. list.head \in [DOMAIN list.head -> Nodes(list)]
    BY DEF ListOK, Nodes
  <2>2. list.head \in Surjection(DOMAIN list.head, Nodes(list))
    BY <2>1 DEF Surjection, Nodes
  <2> QED BY <1>1, <2>2, FS_Surjection
<1> QED BY <1>2, FS_Subset DEF RecordsOf

(* Fewer constants are covered by the same records. *)
LEMMA CoverSubset ==
  ASSUME NEW list, ListOK(list), NEW sites, IsFiniteSet(sites),
         Cover(list, sites), NEW sub \in SUBSET sites
  PROVE  Cover(list, sub)
<1> SUFFICES ASSUME NEW m \in Names
             PROVE  Cardinality(SitesOf(sub, m)) <= Cardinality(RecordsOf(list, m))
  BY DEF Cover
<1>1. SitesOf(sub, m) \subseteq SitesOf(sites, m) /\ SitesOf(sites, m) \subseteq sites
  BY DEF SitesOf
<1>2. IsFiniteSet(SitesOf(sites, m)) /\ IsFiniteSet(SitesOf(sub, m))
  BY <1>1, FS_Subset
<1>3. Cardinality(SitesOf(sub, m)) <= Cardinality(SitesOf(sites, m))
  BY <1>1, <1>2, FS_Subset
<1>4. Cardinality(SitesOf(sub, m)) \in Nat /\ Cardinality(SitesOf(sites, m)) \in Nat
       /\ Cardinality(RecordsOf(list, m)) \in Nat
  BY <1>2, RecordsFinite, FS_CardinalityType
<1> QED BY <1>3, <1>4 DEF Cover

(* A use adds one record, and at most one constant of the same macro. *)
LEMMA CoverAdd ==
  ASSUME NEW list, ListOK(list), NEW sites, IsFiniteSet(sites),
         Cover(list, sites), NEW n \in Node(Names), n.use \notin UsesIn(list),
         NEW s, s.macro = n.name
  PROVE  Cover(AddElem(list, n), sites \cup {s})
<1> SUFFICES ASSUME NEW m \in Names
             PROVE  Cardinality(SitesOf(sites \cup {s}, m))
                      <= Cardinality(RecordsOf(AddElem(list, n), m))
  BY DEF Cover
<1>1. /\ IsFiniteSet(SitesOf(sites, m)) /\ IsFiniteSet(RecordsOf(list, m))
      /\ Cardinality(SitesOf(sites, m)) \in Nat
      /\ Cardinality(RecordsOf(list, m)) \in Nat
  BY RecordsFinite, FS_Subset, FS_CardinalityType DEF SitesOf
<1>2. Cardinality(SitesOf(sites, m)) <= Cardinality(RecordsOf(list, m))
  BY DEF Cover
<1>3. Nodes(AddElem(list, n)) = Nodes(list) \cup {n} /\ n \notin Nodes(list)
  BY AddUses DEF UsesIn
<1>4. CASE n.name = m
  <2>1. /\ RecordsOf(AddElem(list, n), m) = RecordsOf(list, m) \cup {n}
        /\ n \notin RecordsOf(list, m)
    BY <1>3, <1>4 DEF RecordsOf
  <2>2. Cardinality(RecordsOf(AddElem(list, n), m)) = Cardinality(RecordsOf(list, m)) + 1
    BY <1>1, <2>1, FS_AddElement
  <2>3. SitesOf(sites \cup {s}, m) = SitesOf(sites, m) \cup {s}
    BY <1>4 DEF SitesOf
  <2>4. \/ Cardinality(SitesOf(sites \cup {s}, m)) = Cardinality(SitesOf(sites, m))
        \/ Cardinality(SitesOf(sites \cup {s}, m)) = Cardinality(SitesOf(sites, m)) + 1
    BY <1>1, <2>3, FS_AddElement
  <2> QED BY <1>1, <1>2, <2>2, <2>4
<1>5. CASE n.name # m
  <2>1. RecordsOf(AddElem(list, n), m) = RecordsOf(list, m)
    BY <1>3, <1>5 DEF RecordsOf
  <2>2. SitesOf(sites \cup {s}, m) = SitesOf(sites, m)
    BY <1>5 DEF SitesOf
  <2> QED BY <1>2, <2>1, <2>2
<1> QED BY <1>4, <1>5

(* A substitution takes one record and one constant of the same macro. *)
LEMMA CoverSubst ==
  ASSUME NEW list, ListOK(list), Distinct(list), NEW i \in DOMAIN list.head,
         NEW sites, IsFiniteSet(sites), Cover(list, sites),
         NEW s \in sites, s.macro = list.head[i].name
  PROVE  Cover(RemoveElem(list, i), sites \ {s})
<1> DEFINE n == list.head[i]
<1> SUFFICES ASSUME NEW m \in Names
             PROVE  Cardinality(SitesOf(sites \ {s}, m))
                      <= Cardinality(RecordsOf(RemoveElem(list, i), m))
  BY DEF Cover
<1>1. /\ IsFiniteSet(SitesOf(sites, m)) /\ IsFiniteSet(RecordsOf(list, m))
      /\ Cardinality(SitesOf(sites, m)) \in Nat
      /\ Cardinality(RecordsOf(list, m)) \in Nat
  BY RecordsFinite, FS_Subset, FS_CardinalityType DEF SitesOf
<1>2. Cardinality(SitesOf(sites, m)) <= Cardinality(RecordsOf(list, m))
  BY DEF Cover
<1>3. Nodes(RemoveElem(list, i)) = Nodes(list) \ {n} /\ n \in Nodes(list)
  BY RemoveUses DEF Nodes
<1>4. CASE n.name = m
  <2>1. /\ RecordsOf(RemoveElem(list, i), m) = RecordsOf(list, m) \ {n}
        /\ n \in RecordsOf(list, m)
    BY <1>3, <1>4 DEF RecordsOf
  <2>2. Cardinality(RecordsOf(RemoveElem(list, i), m)) = Cardinality(RecordsOf(list, m)) - 1
    BY <1>1, <2>1, FS_RemoveElement
  <2>3. SitesOf(sites \ {s}, m) = SitesOf(sites, m) \ {s} /\ s \in SitesOf(sites, m)
    BY <1>4 DEF SitesOf
  <2>4. Cardinality(SitesOf(sites \ {s}, m)) = Cardinality(SitesOf(sites, m)) - 1
    BY <1>1, <2>3, FS_RemoveElement
  <2> QED BY <1>1, <1>2, <2>2, <2>4
<1>5. CASE n.name # m
  <2>1. RecordsOf(RemoveElem(list, i), m) = RecordsOf(list, m)
    BY <1>3, <1>5 DEF RecordsOf
  <2>2. SitesOf(sites \ {s}, m) = SitesOf(sites, m)
    BY <1>5 DEF SitesOf
  <2> QED BY <1>2, <2>1, <2>2
<1> QED BY <1>4, <1>5

(* No record, no constant. *)
LEMMA CoverEmpty ==
  ASSUME NEW list, Nodes(list) = {}, NEW sites, IsFiniteSet(sites),
         Cover(list, sites), \A s \in sites : s.macro \in Names
  PROVE  sites = {}
<1> SUFFICES ASSUME NEW s \in sites PROVE FALSE
  OBVIOUS
<1> DEFINE T == SitesOf(sites, s.macro)
<1>1. IsFiniteSet(T) /\ s \in T /\ T # {}
  BY FS_Subset DEF SitesOf
<1>2. RecordsOf(list, s.macro) = {}
  BY DEF RecordsOf
<1>3. Cardinality(T) <= 0
  BY <1>2, FS_EmptySet DEF Cover
<1> HIDE DEF T
<1>4. Cardinality(T) \in Nat /\ Cardinality(T) # 0
  BY <1>1, FS_EmptySet, FS_CardinalityType
<1> QED BY <1>3, <1>4

-----------------------------------------------------------------------------
(* Soundness.                                                              *)

Sites == tree \cup left

(* The constants still in the tree are fresh enough to be told apart, each *)
(* is read as its own macro or not at all, and the records cover them.     *)
(* No static is kept to be visited again: that would take a second record  *)
(* for one constant, and leave the constant of that record uncovered.      *)
SoundInv ==
  /\ IsFiniteSet(Sites)
  /\ tree \cap left = {} /\ kept = {}
  /\ \A s \in Sites : s.use \in 1..serial /\ s.macro \in Names
                                         /\ s.hit \in {s.macro, NULL}
  /\ \A d \in done : d.site.macro = d.node.name
  /\ phase = "start" => Sites = {}
  /\ Allocated /\ ~ failed => Cover(mods, Sites)
  /\ phase = "end" /\ ~ failed => Sites = {}

(* SoundInv is an invariant: a use adds a record with its constant, a      *)
(* substitution removes both, and a check that finds a record fails.       *)
LEMMA SoundInvariant ==
  ASSUME CleanSource
  PROVE  Spec => []SoundInv
<1> DEFINE Known == TypeOK /\ Accounting /\ RecordingInv
<1>1. Init => SoundInv
  BY FS_EmptySet DEF Init, SoundInv, Sites, Allocated
<1>2. Known /\ SoundInv /\ [Next]_vars => SoundInv'
  <2> SUFFICES ASSUME TypeOK, Accounting, RecordingInv, SoundInv, [Next]_vars
               PROVE  SoundInv'
    OBVIOUS
  <2>0. /\ serial \in Nat /\ failed \in BOOLEAN /\ tree \subseteq Site
        /\ Allocated => ListOK(mods) /\ Distinct(mods)
        /\ IsFiniteSet(Sites) /\ recorded \subseteq 1..serial
    BY BoundAssumption DEF TypeOK, Accounting, Distinct, SoundInv
  <2>1. /\ NULL \notin Names /\ Copies \subseteq {0, 1}
        /\ \A r \in Readings : r[2] \in {r[1], NULL}
        /\ "nospace" \notin Forms /\ Quirks = {}
    BY NamesAssumption DEF CleanSource
  (* Steps that leave no new constant in the tree. *)
  <2>a. ASSUME Sites' \subseteq Sites, tree' \cap left' = {}, kept' = {},
               serial' = serial, phase' # "start",
               \A d \in done' : d.site.macro = d.node.name,
               Allocated' /\ ~ failed' => Cover(mods', Sites'),
               phase' = "end" /\ ~ failed' => Sites' = {}
        PROVE  SoundInv'
    <3>1. IsFiniteSet(Sites')
      BY <2>0, <2>a, FS_Subset
    <3> QED BY <2>a, <3>1 DEF SoundInv
  (* Sites move from tree to left, records stay. *)
  <2>b. ASSUME Allocated, Allocated', Sites' \subseteq Sites, tree' \cap left' = {},
               kept' = {}, UNCHANGED <<serial, mods, done>>, failed => failed'
        PROVE  SoundInv'
    <3>1. ~ failed' => Cover(mods', Sites')
      BY <2>0, <2>b, CoverSubset DEF SoundInv
    <3> QED BY <2>a, <2>b, <3>1 DEF SoundInv, Allocated
  (* A substitution, as a relation between the values before and after. *)
  <2>c. ASSUME Allocated, NEW s \in tree, NEW i \in DOMAIN mods.head,
               s.hit = mods.head[i].name
        PROVE  /\ s.macro = mods.head[i].name
               /\ \A kind : \A d \in done \cup {Subst(s, i, kind)} :
                              d.site.macro = d.node.name
               /\ ~ failed => Cover(RemoveElem(mods, i), Sites \ {s})
               /\ ListOK(RemoveElem(mods, i))
    <3>1. mods.head[i].name \in Names /\ s \in Sites
      BY <2>0, <2>c, NodesType DEF Node, Sites
    <3>2. s.macro = mods.head[i].name
      BY <2>1, <2>c, <3>1 DEF SoundInv
    <3>3. ~ failed => Cover(RemoveElem(mods, i), Sites \ {s})
      BY <2>0, <2>c, <3>1, <3>2, CoverSubst DEF SoundInv
    <3>4. ListOK(RemoveElem(mods, i))
      BY <2>0, <2>c, RemoveElemOK
    <3> QED BY <3>2, <3>3, <3>4 DEF SoundInv, Subst
  (* A substitution in the middle of a handler. *)
  <2>d. ASSUME Allocated, Allocated', NEW s \in tree, NEW i \in DOMAIN mods.head,
               s.hit = mods.head[i].name, NEW kind,
               mods' = RemoveElem(mods, i),
               done' = done \cup {Subst(s, i, kind)},
               tree' = tree \ {s}, left' = left, kept' = {},
               UNCHANGED <<serial, failed>>
        PROVE  SoundInv'
    <3>1. Sites' = Sites \ {s} /\ tree' \cap left' = {}
      BY <2>d DEF SoundInv, Sites
    <3> QED BY <2>a, <2>c, <2>d, <3>1 DEF Allocated
  (* A substitution followed by a check. *)
  <2>e. ASSUME Allocated, Allocated', NEW s \in tree, NEW i \in DOMAIN mods.head,
               s.hit = mods.head[i].name, NEW kind, NEW start,
               ClearContext(RemoveElem(mods, i), start),
               done' = done \cup {Subst(s, i, kind)},
               Sites' = Sites \ {s}, tree' \cap left' = {}, kept' = {},
               serial' = serial
        PROVE  SoundInv'
    <3>1. ~ failed' => ~ failed /\ mods' = RemoveElem(mods, i)
      BY <2>e DEF ClearContext, ClearRecords, CheckEmpty
    <3> QED BY <2>a, <2>c, <2>e, <3>1 DEF Allocated
  (* A check. *)
  <2>f. ASSUME Allocated, Allocated', NEW start, ClearRecords(mods, start),
               Sites' \subseteq Sites, tree' \cap left' = {}, kept' = {},
               UNCHANGED <<serial, done>>
        PROVE  SoundInv'
    <3>1. ~ failed' => ~ failed /\ mods' = mods
      BY <2>f DEF ClearRecords, CheckEmpty
    <3>2. ~ failed' => Cover(mods', Sites')
      BY <2>0, <2>f, <3>1, CoverSubset DEF SoundInv
    <3> QED BY <2>a, <2>f, <3>2 DEF SoundInv, Allocated
  (* The end of a declaration or function. *)
  <2>g. ASSUME NEW rest \in SUBSET tree, Leave(rest)
        PROVE  Sites' = rest \cup left /\ Sites' \subseteq Sites /\ tree' \cap left' = {}
               /\ kept' = {} /\ Allocated'
    BY <2>g DEF Leave, Sites, Allocated
  <2>h. kept = {}
    BY DEF SoundInv
  <2> USE DEF verdict
  <2>2. CASE PluginInit
    <3>1. Sites' = {} /\ done' = done /\ tree' \cap left' = {} /\ kept' = {}
          /\ serial' = serial /\ phase' \in {"refused", "loaded"}
      BY <2>2 DEF PluginInit, SoundInv, Sites
    <3>2. Allocated' => Cover(mods', {})
      <4>1. \A m : SitesOf({}, m) = {}
        BY DEF SitesOf
      <4>2. Allocated' => ListOK(mods')
        BY <2>2, EmptyListOK DEF PluginInit, Allocated
      <4>3. Allocated' => \A m : Cardinality(RecordsOf(mods', m)) \in Nat
        BY <4>2, RecordsFinite, FS_CardinalityType
      <4> QED BY <4>1, <4>3, FS_EmptySet DEF Cover
    <3> QED BY <2>a, <3>1, <3>2 DEF SoundInv
  <2>3. CASE HandleStartTu
    BY <2>3, <2>b, <2>h DEF HandleStartTu, Allocated, SoundInv, Sites
  <2>4. ASSUME NEW d \in Definition, CheckMacroDefine(d) PROVE SoundInv'
    BY <2>4, <2>b, <2>h DEF CheckMacroDefine, Allocated, SoundInv, Sites
  <2>5. ASSUME NEW d \in defs, NEW loc \in Locations, NEW c \in Copies,
               NEW shape \in Shapes, NEW hit \in Names \cup {NULL},
               <<d.arg, hit>> \in Readings, MacroUse(d, loc, c, hit, shape)
        PROVE  SoundInv'
    <3> DEFINE n == [use |-> serial', loc |-> loc, name |-> d.arg]
               s == [use |-> serial', copy |-> 1, macro |-> d.arg,
                     hit |-> hit, shape |-> shape]
    <3>1. /\ phase = "parse" /\ Allocated /\ Allocated' /\ phase' = phase
          /\ serial' = serial + 1 /\ UNCHANGED <<done, kept, left>>
      BY <2>5 DEF MacroUse, Allocated
    <3>2. tree' = tree \/ (tree' = tree \cup {s} /\ c = 1 /\ actually = "tmp")
      <4>1. CASE c = 0
        BY <4>1, <2>5 DEF MacroUse
      <4>2. CASE c = 1
        BY <4>2, <2>5 DEF MacroUse
      <4> QED BY <4>1, <4>2, <2>1
    <3>3. /\ d.arg \in Names /\ d.form \in Forms /\ Mentions(d) /\ Mentioned
          /\ hit \in {d.arg, NULL}
      BY <2>1, <2>5 DEF TypeOK, Definition, Mentions, Mentioned
    <3>4. s.use \in 1..serial' /\ s.macro \in Names /\ s.hit \in {s.macro, NULL}
          /\ s \notin Sites
      BY <2>0, <3>1, <3>3 DEF SoundInv
    <3>5. /\ IsFiniteSet(Sites') /\ tree' \cap left' = {}
          /\ \A t \in Sites' : t.use \in 1..serial' /\ t.macro \in Names
                                                 /\ t.hit \in {t.macro, NULL}
      <4>1. Sites' = Sites \/ Sites' = Sites \cup {s}
        BY <3>1, <3>2 DEF Sites
      <4>2. IsFiniteSet(Sites')
        BY <4>1, <2>0, FS_AddElement
      <4>3. tree' \cap left' = {}
        BY <3>1, <3>2, <3>4 DEF SoundInv, Sites
      <4>4. \A t \in Sites : t.use \in 1..serial'
        BY <2>0, <3>1 DEF SoundInv
      <4> QED BY <4>1, <4>2, <4>3, <4>4, <3>4 DEF SoundInv
    <3>6. ~ failed' => Cover(mods', Sites')
      <4>1. SUFFICES ASSUME ~ failed' PROVE Cover(mods', Sites')
        OBVIOUS
      <4>2. ~ failed /\ Cover(mods, Sites)
        BY <2>5, <3>1, <4>1 DEF MacroUse, CheckMacroUse, SoundInv
      <4>3. CASE tree' = tree /\ mods' = mods
        BY <4>2, <4>3, <3>1 DEF Sites
      <4>4. CASE mods' = AddElem(mods, n)
        <5>1. n \in Node(Names) /\ n.use \notin UsesIn(mods)
          <6>1. n.use \notin recorded /\ UsesIn(mods) \subseteq recorded
            BY <2>0, <3>1 DEF Accounting, PendingUses
          <6> QED BY <6>1, <2>0, <3>1, <3>3, LocationAssumption DEF Node
        <5>2. Cover(AddElem(mods, n), Sites \cup {s})
          BY <2>0, <3>1, <4>2, <5>1, CoverAdd
        <5>3. Sites' \subseteq Sites \cup {s} /\ IsFiniteSet(Sites \cup {s})
          BY <3>1, <3>2, <2>0, FS_AddElement DEF Sites
        <5>4. ListOK(AddElem(mods, n))
          BY <2>0, <3>1, <5>1, AddElemOK
        <5> QED BY <4>4, <5>2, <5>3, <5>4, CoverSubset
      <4>5. CASE mods' = mods /\ tree' # tree
        <5>1. c = 1 /\ lang = "C"
          BY <3>2, <4>5 DEF RecordingInv
        <5>2. active = 1 /\ used = "ours" /\ loc.col # 0
          BY <2>5, <2>1, <3>1, <3>3, <4>2, <5>1 DEF RecordingInv, Parsing, MacroUse
        <5>3. mods' = AddElem(mods, n)
          BY <2>5, <3>3, <4>1, <5>2 DEF MacroUse, CheckMacroUse
        <5> QED BY <4>4, <5>3
      <4> QED BY <4>3, <4>4, <4>5, <2>5 DEF MacroUse, CheckMacroUse
    <3> QED BY <3>1, <3>5, <3>6 DEF SoundInv, Allocated
  <2>6. ASSUME NEW hit \in Names, <<NULL, hit>> \in Readings PROVE FALSE
    BY <2>1, <2>6
  <2>7. CASE OtherUnit
    BY <2>7, <2>b, <2>g DEF OtherUnit, Allocated
  <2>8. CASE DeclTooEarly
    BY <2>8, <2>b, <2>g DEF DeclTooEarly, Allocated
  <2>9. ASSUME NEW s \in SiteOrNull, NEW readonly \in BOOLEAN,
               DeclScalar(s, readonly)
        PROVE  SoundInv'
    <3>1. phase = "parse" /\ Allocated /\ serial' = serial
      BY <2>9 DEF DeclScalar, Allocated
    <3>2. CASE ClearContext(mods, MAX_LOCATION_T) /\ Leave(tree) /\ done' = done
      BY <2>f, <2>g, <3>1, <3>2 DEF ClearContext
    <3>3. ASSUME NEW i \in GetElem(mods, mods.start), MagicEqual(s, mods.head[i]),
                 s # NULL,
                 ClearContext(RemoveElem(mods, i), MAX_LOCATION_T),
                 Leave(tree \ {s}),
                 done' = done \cup {Subst(s, i, "global")}
          PROVE  SoundInv'
      <4>1. s \in tree /\ i \in DOMAIN mods.head /\ s.hit = mods.head[i].name
        BY <3>3, FoundInList DEF SiteOrNull, MagicEqual
      <4>2. Sites' = Sites \ {s} /\ tree' \cap left' = {} /\ kept' = {} /\ Allocated'
        BY <3>3, <4>1, <2>g DEF Sites, SoundInv
      <4> QED BY <2>e, <3>1, <3>3, <4>1, <4>2
    <3> QED BY <2>9, <3>2, <3>3 DEF DeclScalar
  <2>10. CASE DeclAggregate
    BY <2>10, <2>b, <2>h DEF DeclAggregate, Allocated, SoundInv, Sites
  <2>11. ASSUME NEW s \in tree, SetValue(s) PROVE SoundInv'
    <3>1. PICK i \in ElementRecord(s) :
            /\ mods' = RemoveElem(mods, i)
            /\ done' = done \cup {Subst(s, i, "global")}
      BY <2>11 DEF SetValue
    <3>2. i \in DOMAIN mods.head /\ s.hit = mods.head[i].name
      BY <3>1, ElementInList
         DEF ElementRecord, FirstElem, ElementModded, ShouldBeModded
    <3> QED BY <2>11, <3>1, <3>2, <2>d, <2>h DEF SetValue, Allocated
  <2>12. CASE DeclEnd
    BY <2>12, <2>f, <2>g DEF DeclEnd, ClearContext, Allocated
  <2>13. CASE HandlePreGenericize
    BY <2>13, <2>b, <2>h DEF HandlePreGenericize, Allocated, SoundInv, Sites
  <2>14. ASSUME NEW s \in tree, NEW loc \in Locations, NEW finish \in Locations,
                CheckExpr(s, loc, finish)
         PROVE  SoundInv'
    <3>1. PICK i \in FindUse(loc, finish) :
            /\ ShouldBeModded(s, mods.head[i])
            /\ mods' = RemoveElem(mods, i)
            /\ done' = done \cup {Subst(s, i, "sub")}
      BY <2>14 DEF CheckExpr
    <3>2. i \in DOMAIN mods.head /\ s.hit = mods.head[i].name
      BY <3>1, FoundInList DEF FindUse, ShouldBeModded
    <3> QED BY <2>14, <3>1, <3>2, <2>d, <2>h DEF CheckExpr, Allocated
  <2>15. ASSUME NEW s \in tree, NEW loc \in Locations, NEW finish \in Locations,
                CheckDecl(s, loc, finish)
         PROVE  SoundInv'
    <3>0. Allocated /\ Allocated' /\ UNCHANGED <<serial, left>>
      BY <2>15 DEF CheckDecl, Allocated
    <3>1. CASE RefuseConst /\ UNCHANGED kept
      BY <3>0, <3>1, <2>b, <2>h DEF RefuseConst, SoundInv, Sites
    <3>2. ASSUME NEW i \in FindUse(loc, finish), ShouldBeModded(s, mods.head[i]),
                 mods' = RemoveElem(mods, i),
                 done' = done \cup {Subst(s, i, "init")},
                 tree' = tree \ {s}, UNCHANGED <<kept, failed>>
          PROVE  SoundInv'
      <4>1. i \in DOMAIN mods.head /\ s.hit = mods.head[i].name
        BY <3>2, FoundInList DEF FindUse, ShouldBeModded
      <4> QED BY <3>0, <3>2, <4>1, <2>d, <2>h
    <3> QED BY <2>15, <2>1, <3>1, <3>2 DEF CheckDecl
  <2>15a. ASSUME NEW s \in kept PROVE FALSE
    BY <2>15a DEF SoundInv
  <2>16. ASSUME NEW s \in tree, NEW loc \in Locations, RetryInt(s, loc)
         PROVE  SoundInv'
    <3>0. Allocated /\ Allocated' /\ UNCHANGED <<serial, kept, left>>
      BY <2>16 DEF RetryInt, MissedDecl, Allocated
    <3>1. CASE RefuseConst
      BY <3>0, <3>1, <2>b, <2>h DEF RefuseConst, SoundInv, Sites
    <3>2. ASSUME NEW i \in GetElem(mods, mods.start), ShouldBeModded(s, mods.head[i]),
                 ClearContext(RemoveElem(mods, i), loc),
                 done' = done \cup {Subst(s, i, "init")},
                 tree' = tree \ {s}
          PROVE  SoundInv'
      <4>1. i \in DOMAIN mods.head /\ s.hit = mods.head[i].name
        BY <3>2, FoundInList DEF ShouldBeModded
      <4>2. Sites' = Sites \ {s} /\ tree' \cap left' = {}
        BY <3>0, <3>2 DEF Sites, SoundInv
      <4> QED BY <3>0, <3>2, <4>1, <4>2, <2>e, <2>h
    <3> QED BY <2>16, <3>1, <3>2 DEF RetryInt
  <2>17. ASSUME NEW s \in tree, NEW loc \in Locations, RetryElement(s, loc)
         PROVE  SoundInv'
    <3>1. PICK i \in ElementRecord(s) :
            /\ mods' = RemoveElem(mods, i)
            /\ done' = done \cup {Subst(s, i, "init")}
      BY <2>17 DEF RetryElement
    <3>2. i \in DOMAIN mods.head /\ s.hit = mods.head[i].name
      BY <3>1, ElementInList
         DEF ElementRecord, FirstElem, ElementModded, ShouldBeModded
    <3> QED BY <2>17, <3>1, <3>2, <2>d, <2>h DEF RetryElement, MissedDecl, Allocated
  <2>18. CASE RetryEnd
    BY <2>18, <2>f, <2>h DEF RetryEnd, ClearContext, Allocated, SoundInv, Sites
  <2>19. ASSUME NEW s \in tree, NEW loc \in Locations, NEW e \in BOOLEAN,
                CaseLabel(s, loc, e)
         PROVE  SoundInv'
    <3>1. PICK i \in GetElem(mods, loc) :
            /\ ElementModded(s, mods.head[i])
            /\ mods' = RemoveElem(mods, i)
            /\ done' = done \cup {Subst(s, i, "case")}
      BY <2>19 DEF CaseLabel
    <3>2. i \in DOMAIN mods.head /\ s.hit = mods.head[i].name
      BY <3>1, FoundInList DEF ElementModded, ShouldBeModded
    <3> QED BY <2>19, <3>1, <3>2, <2>d, <2>h DEF CaseLabel, Allocated
  <2>20. CASE SwitchEnd
    BY <2>20, <2>b, <2>h DEF SwitchEnd, Allocated, SoundInv, Sites
  <2>21. CASE WalkEnd
    BY <2>21, <2>f, <2>g DEF WalkEnd, ClearContext, Allocated
  <2>22. CASE HandleFinishTu
    <3>1. Sites' = Sites /\ tree' \cap left' = {} /\ Allocated /\ Allocated'
      BY <2>22 DEF HandleFinishTu, Sites, Allocated
    <3> QED BY <2>22, <3>1, <2>f, <2>h DEF HandleFinishTu
  <2>23. CASE HandleFinish
    <3>1. /\ Sites' = Sites /\ tree' \cap left' = {} /\ Allocated /\ ~ Allocated'
          /\ UNCHANGED <<serial, kept, done>> /\ phase' = "end"
      BY <2>23 DEF HandleFinish, Sites, Allocated
    <3>2. ~ failed' => ~ failed /\ Nodes(mods) = {}
      BY <2>23 DEF HandleFinish, Reported
    <3>3. ~ failed' => Sites' = {}
      BY <2>0, <3>1, <3>2, CoverEmpty DEF SoundInv
    <3> QED BY <2>a, <3>1, <3>3 DEF SoundInv
  <2>24. CASE UNCHANGED vars
    BY <2>24 DEF vars, SoundInv, Sites, Allocated
  <2> QED
    BY <2>2, <2>3, <2>4, <2>5, <2>6, <2>7, <2>8, <2>9, <2>10, <2>11, <2>12,
       <2>13, <2>14, <2>15, <2>15a, <2>16, <2>17, <2>18, <2>19, <2>20, <2>21,
       <2>22, <2>23, <2>24
    DEF Next, Preprocess, Declare, Walk, Terminated
<1>3. Spec => []RecordingInv
  BY RecordingInvariant DEF CleanSource
<1> QED BY <1>1, <1>2, <1>3, TypeCorrect, AccountingCorrect, PTL DEF Spec

(* Sound is an invariant for a clean source: when the compilation ends     *)
(* without an error, no constant of a macro is left, and each was replaced *)
(* by its own variable.  A clean source has no quirk: it is not enough for *)
(* { static int v = X; f(); } g(X); on one line, where g keeps its magic   *)
(* number and nothing is reported.                                         *)
THEOREM SoundCorrect ==
  ASSUME CleanSource
  PROVE  Spec => []Sound
<1>1. SoundInv => Sound
  BY DEF SoundInv, Sound, Sites
<1> QED BY <1>1, SoundInvariant, PTL


-----------------------------------------------------------------------------
(* The counters.                                                           *)

Counted == done \ CaseSubsts

(* CountersAgree, for every phase: handle_decl has counted the records of  *)
(* an aggregate before it replaces them.                                   *)
CountInv ==
  /\ IsFiniteSet(Counted)
  /\ ~ failed =>
       /\ phase \notin {"decl", "end"} =>
            initcount + subcount = Cardinality(Counted)
       /\ phase = "decl" =>
            initcount + subcount = Cardinality(Counted) + mods.count
       /\ phase = "end" => note.inits + note.subs = Cardinality(Counted)

(* The record a substitution uses up is pending, so it is not one that was *)
(* made before: unless it is that of a case label, one more is counted.    *)
LEMMA CountSubst ==
  ASSUME TypeOK, Accounting, Allocated, IsFiniteSet(Counted),
         NEW i \in DOMAIN mods.head, NEW s, NEW kind,
         done' = done \cup {Subst(s, i, kind)}
  PROVE  /\ Cardinality(Counted) \in Nat
         /\ IsFiniteSet(Counted')
         /\ Cardinality(Counted') = IF kind = "case" THEN Cardinality(Counted)
                                    ELSE Cardinality(Counted) + 1
<1> DEFINE d == Subst(s, i, kind)
<1>1. d.kind = kind /\ d.node = mods.head[i]
  BY DEF Subst
<1>2. d \notin done
  <2>1. d.node.use \in PendingUses
    BY <1>1 DEF PendingUses, UsesIn, Nodes
  <2> QED BY <2>1 DEF Accounting, Substituted
<1> HIDE DEF d
<1>3. Counted' = IF kind = "case" THEN Counted ELSE Counted \cup {d}
  BY <1>1, <1>2 DEF Counted, CaseSubsts, d
<1>4. d \notin Counted
  BY <1>2 DEF Counted
<1>5. /\ Cardinality(Counted) \in Nat
      /\ IsFiniteSet(Counted \cup {d})
      /\ Cardinality(Counted \cup {d}) = Cardinality(Counted) + 1
  BY <1>4, FS_AddElement, FS_CardinalityType
<1> QED BY <1>3, <1>5

(* A check of the whole list that raises no error has found it empty. *)
LEMMA ClearedEmpty ==
  ASSUME NEW list, ListOK(list), ClearRecords(list, MAX_LOCATION_T), ~ failed'
  PROVE  list.count = 0 /\ mods' = list
<1>1. Reported(list, MAX_LOCATION_T) = {} /\ mods' = list
  BY DEF ClearRecords, CheckEmpty
<1>2. Nodes(list) = {}
  BY <1>1 DEF Reported
<1>3. DOMAIN list.head = {}
  BY <1>2 DEF Nodes
<1>4. list.count \in Nat /\ DOMAIN list.head = 1..list.count
  BY NodesType
<1>5. 1 \notin 1..list.count
  BY <1>3, <1>4
<1> QED BY <1>1, <1>4, <1>5

(* Removing a record makes the list one shorter. *)
LEMMA RemoveCount ==
  ASSUME NEW list, ListOK(list), NEW i \in DOMAIN list.head
  PROVE  /\ ListOK(RemoveElem(list, i))
         /\ list.count \in Nat
         /\ RemoveElem(list, i).count = list.count - 1
<1>1. ListOK(RemoveElem(list, i)) /\ Len(RemoveElem(list, i).head) = Len(list.head) - 1
  BY RemoveElemOK
<1> QED BY <1>1, NodesType

-----------------------------------------------------------------------------
(* A compilation that has met no error reports as many replacements as it  *)
(* made: handle_decl counts all records before it looks for any, the walk  *)
(* counts each after it is replaced, and the two agree.                    *)
THEOREM CountersCorrect == Spec => []CountersAgree
<1>1. Init => CountInv
  <2> SUFFICES ASSUME Init PROVE CountInv
    OBVIOUS
  <2>1. Counted = {}
    BY DEF Init, Counted
  <2>2. IsFiniteSet(Counted) /\ Cardinality(Counted) = 0
    BY <2>1, FS_EmptySet
  <2> QED BY <2>2 DEF Init, CountInv
<1>2. TypeOK /\ Accounting /\ CountInv /\ [Next]_vars => CountInv'
  <2> SUFFICES ASSUME TypeOK, Accounting, CountInv, [Next]_vars PROVE CountInv'
    OBVIOUS
  <2>0. /\ initcount \in Nat /\ subcount \in Nat /\ switchcount \in Nat
        /\ failed \in BOOLEAN
        /\ Allocated => ListOK(mods)
        /\ IsFiniteSet(Counted) /\ Cardinality(Counted) \in Nat
    BY FS_CardinalityType DEF TypeOK, CountInv
  <2> USE DEF hooks, counters, verdict
  <2>s. done' = done => Counted' = Counted
    BY DEF Counted, CaseSubsts
  <2>a. ASSUME UNCHANGED <<done, initcount, subcount>>, failed => failed',
               phase \notin {"decl", "end"}, phase' \notin {"decl", "end"}
        PROVE  CountInv'
    BY <2>a, <2>s, <2>0 DEF CountInv
  <2>b. ASSUME NEW list, ClearRecords(list, MAX_LOCATION_T), ListOK(list)
        PROVE  (failed => failed') /\ (~ failed' => list.count = 0)
    BY <2>b, ClearedEmpty DEF ClearRecords
  <2>c. ASSUME NEW i \in DOMAIN mods.head, NEW s, NEW kind, Allocated,
               done' = done \cup {Subst(s, i, kind)}
        PROVE  /\ IsFiniteSet(Counted')
               /\ Cardinality(Counted') = IF kind = "case" THEN Cardinality(Counted)
                                          ELSE Cardinality(Counted) + 1
    BY <2>c, <2>0, CountSubst
  <2>1. CASE PluginInit
    BY <2>1, <2>a DEF PluginInit
  <2>2. CASE HandleStartTu
    BY <2>2, <2>a DEF HandleStartTu
  <2>3. ASSUME NEW d \in Definition, CheckMacroDefine(d) PROVE CountInv'
    BY <2>3, <2>a DEF CheckMacroDefine
  <2>4. ASSUME NEW d \in defs, NEW loc \in Locations, NEW c \in Copies,
               NEW shape \in Shapes, NEW hit \in Names \cup {NULL},
               MacroUse(d, loc, c, hit, shape)
        PROVE  CountInv'
    BY <2>4, <2>a DEF MacroUse, CheckMacroUse
  <2>5. ASSUME NEW hit \in Names, NEW shape \in Shapes \ {"unfolded"},
               Literal(hit, shape)
        PROVE  CountInv'
    BY <2>5, <2>a DEF Literal
  <2>6. CASE OtherUnit
    BY <2>6, <2>a DEF OtherUnit, Leave
  <2>7. CASE DeclTooEarly
    BY <2>7, <2>a DEF DeclTooEarly, Leave
  <2>8. ASSUME NEW s \in SiteOrNull, NEW readonly \in BOOLEAN,
               DeclScalar(s, readonly)
        PROVE  CountInv'
    <3>1. /\ Allocated /\ phase = "parse" /\ phase' = "parse"
          /\ initcount' = initcount + mods.count /\ subcount' = subcount
      BY <2>8 DEF DeclScalar, Leave, Allocated
    <3>2. CASE ClearContext(mods, MAX_LOCATION_T) /\ done' = done
      BY <2>0, <2>s, <2>b, <3>1, <3>2 DEF ClearContext, CountInv
    <3>3. ASSUME NEW i \in GetElem(mods, mods.start),
                 ClearContext(RemoveElem(mods, i), MAX_LOCATION_T),
                 done' = done \cup {Subst(s, i, "global")}
          PROVE  CountInv'
      <4>1. i \in DOMAIN mods.head
        BY FoundInList
      <4>2. /\ (failed => failed') /\ (~ failed' => RemoveElem(mods, i).count = 0)
            /\ mods.count \in Nat
            /\ RemoveElem(mods, i).count = mods.count - 1
        BY <2>0, <2>b, <3>1, <3>3, <4>1, RemoveCount DEF ClearContext
      <4>3. IsFiniteSet(Counted') /\ Cardinality(Counted') = Cardinality(Counted) + 1
        BY <2>c, <3>1, <3>3, <4>1
      <4> QED BY <2>0, <3>1, <4>2, <4>3 DEF CountInv
    <3> QED BY <2>8, <3>2, <3>3 DEF DeclScalar
  <2>9. CASE DeclAggregate
    <3>1. Allocated /\ phase = "parse" /\ mods.count \in Nat
      BY <2>9, <2>0, NodesType DEF DeclAggregate, Allocated
    <3> QED BY <2>9, <2>0, <2>s, <3>1 DEF DeclAggregate, CountInv
  <2>10. ASSUME NEW s \in tree, SetValue(s) PROVE CountInv'
    <3>1. PICK i \in ElementRecord(s) :
            /\ mods' = RemoveElem(mods, i)
            /\ done' = done \cup {Subst(s, i, "global")}
      BY <2>10 DEF SetValue
    <3>2. Allocated /\ i \in DOMAIN mods.head
      BY <2>10, <3>1, ElementInList DEF SetValue, Allocated
    <3>3. IsFiniteSet(Counted') /\ Cardinality(Counted') = Cardinality(Counted) + 1
      BY <2>c, <3>1, <3>2
    <3>4. mods.count \in Nat /\ mods'.count = mods.count - 1
      BY <2>0, <3>1, <3>2, RemoveCount
    <3> QED BY <2>10, <2>0, <3>3, <3>4 DEF SetValue, CountInv
  <2>11. CASE DeclEnd
    <3>1. Allocated /\ (failed => failed') /\ (~ failed' => mods.count = 0)
      BY <2>11, <2>0, <2>b DEF DeclEnd, ClearContext, Allocated
    <3> QED BY <2>11, <2>0, <2>s, <3>1 DEF DeclEnd, Leave, CountInv
  <2>12. CASE HandlePreGenericize
    BY <2>12, <2>a DEF HandlePreGenericize
  <2>13. ASSUME NEW s \in tree, NEW loc \in Locations, NEW finish \in Locations,
                CheckExpr(s, loc, finish)
         PROVE  CountInv'
    <3>1. PICK i \in FindUse(loc, finish) : done' = done \cup {Subst(s, i, "sub")}
      BY <2>13 DEF CheckExpr
    <3>2. Allocated /\ i \in DOMAIN mods.head
      BY <2>13, <3>1, FoundInList DEF CheckExpr, FindUse, Allocated
    <3>3. IsFiniteSet(Counted') /\ Cardinality(Counted') = Cardinality(Counted) + 1
      BY <2>c, <3>1, <3>2
    <3> QED BY <2>13, <2>0, <3>3 DEF CheckExpr, CountInv
  <2>14. ASSUME NEW s \in tree, NEW loc \in Locations, NEW finish \in Locations,
                CheckDecl(s, loc, finish)
         PROVE  CountInv'
    <3>1. /\ Allocated /\ phase = "walk" /\ phase' = "walk" /\ subcount' = subcount
      BY <2>14 DEF CheckDecl, Allocated
    <3>2. CASE RefuseConst
      BY <3>1, <3>2, <2>a DEF RefuseConst
    <3>3. ASSUME NEW i \in FindUse(loc, finish), NEW kind \in {"init", "kept", "lost"},
                 done' = done \cup {Subst(s, i, kind)},
                 initcount' = initcount + 1, UNCHANGED failed
          PROVE  CountInv'
      <4>1. i \in DOMAIN mods.head
        BY FoundInList DEF FindUse
      <4>2. IsFiniteSet(Counted') /\ Cardinality(Counted') = Cardinality(Counted) + 1
        BY <2>c, <3>1, <3>3, <4>1
      <4> QED BY <2>0, <3>1, <3>3, <4>2 DEF CountInv
    <3> QED BY <2>14, <3>2, <3>3 DEF CheckDecl
  <2>14a. ASSUME NEW s \in kept, NEW loc \in Locations, NEW finish \in Locations,
                 CheckKept(s, loc, finish)
          PROVE  CountInv'
    <3>1. PICK i \in FindUse(loc, finish) : done' = done \cup {Subst(s, i, "init")}
      BY <2>14a DEF CheckKept
    <3>2. Allocated /\ i \in DOMAIN mods.head
      BY <2>14a, <3>1, FoundInList DEF CheckKept, FindUse, Allocated
    <3>3. IsFiniteSet(Counted') /\ Cardinality(Counted') = Cardinality(Counted) + 1
      BY <2>c, <3>1, <3>2
    <3> QED BY <2>14a, <2>0, <3>3 DEF CheckKept, CountInv
  <2>15. ASSUME NEW s \in tree, NEW loc \in Locations, RetryInt(s, loc)
         PROVE  CountInv'
    <3>1. /\ Allocated /\ phase = "walk" /\ phase' = "walk" /\ subcount' = subcount
      BY <2>15 DEF RetryInt, MissedDecl, Allocated
    <3>2. CASE RefuseConst
      BY <3>1, <3>2, <2>a DEF RefuseConst
    <3>3. ASSUME NEW i \in GetElem(mods, mods.start),
                 ClearContext(RemoveElem(mods, i), loc),
                 done' = done \cup {Subst(s, i, "init")}, initcount' = initcount + 1
          PROVE  CountInv'
      <4>1. i \in DOMAIN mods.head /\ (failed => failed')
        BY <3>3, FoundInList DEF ClearContext, ClearRecords
      <4>2. IsFiniteSet(Counted') /\ Cardinality(Counted') = Cardinality(Counted) + 1
        BY <2>c, <3>1, <3>3, <4>1
      <4> QED BY <2>0, <3>1, <3>3, <4>1, <4>2 DEF CountInv
    <3> QED BY <2>15, <3>2, <3>3 DEF RetryInt
  <2>16. ASSUME NEW s \in tree, NEW loc \in Locations, RetryElement(s, loc)
         PROVE  CountInv'
    <3>1. PICK i \in ElementRecord(s) : done' = done \cup {Subst(s, i, "init")}
      BY <2>16 DEF RetryElement
    <3>2. /\ Allocated /\ i \in DOMAIN mods.head
          /\ phase \in {"walk", "retry"} /\ phase' = "retry"
      BY <2>16, <3>1, ElementInList DEF RetryElement, MissedDecl, Allocated
    <3>3. IsFiniteSet(Counted') /\ Cardinality(Counted') = Cardinality(Counted) + 1
      BY <2>c, <3>1, <3>2
    <3> QED BY <2>16, <2>0, <3>2, <3>3 DEF RetryElement, CountInv
  <2>17. CASE RetryEnd
    BY <2>17, <2>a DEF RetryEnd, ClearContext, ClearRecords
  <2>18. ASSUME NEW s \in tree, NEW loc \in Locations, NEW e \in BOOLEAN,
                CaseLabel(s, loc, e)
         PROVE  CountInv'
    <3>1. PICK i \in GetElem(mods, loc) : done' = done \cup {Subst(s, i, "case")}
      BY <2>18 DEF CaseLabel
    <3>2. Allocated /\ i \in DOMAIN mods.head
      BY <2>18, <3>1, FoundInList DEF CaseLabel, Allocated
    <3>3. IsFiniteSet(Counted') /\ Cardinality(Counted') = Cardinality(Counted)
      BY <2>c, <3>1, <3>2
    <3> QED BY <2>18, <2>0, <3>3 DEF CaseLabel, CountInv
  <2>19. CASE SwitchEnd
    BY <2>19, <2>a DEF SwitchEnd
  <2>20. CASE WalkEnd
    BY <2>20, <2>a DEF WalkEnd, Leave, ClearContext, ClearRecords
  <2>21. CASE HandleFinishTu
    BY <2>21, <2>a DEF HandleFinishTu, ClearRecords
  <2>22. CASE HandleFinish
    BY <2>22, <2>0, <2>s DEF HandleFinish, CountInv
  <2>23. CASE UNCHANGED vars
    BY <2>23, <2>0, <2>s DEF vars, CountInv
  <2> QED
    BY <2>1, <2>2, <2>3, <2>4, <2>5, <2>6, <2>7, <2>8, <2>9, <2>10, <2>11,
       <2>12, <2>13, <2>14, <2>14a, <2>15, <2>16, <2>17, <2>18, <2>19, <2>20,
       <2>21, <2>22, <2>23
    DEF Next, Preprocess, Declare, Walk, Terminated
<1>3. CountInv => CountersAgree
  BY DEF CountInv, CountersAgree, Counted
<1> QED BY <1>1, <1>2, <1>3, TypeCorrect, AccountingCorrect, PTL DEF Spec

-----------------------------------------------------------------------------
(* The refinement.  A state of the ledger is a map from the uses to what   *)
(* became of them; it is read off four sets.                               *)

StatusMap(P, S, R, D) ==
  [u \in 1..MaxUses |-> CASE u \in P -> "pending"
                          [] u \in S -> "substituted"
                          [] u \in R -> "reported"
                          [] u \in D -> "dropped"
                          [] OTHER   -> "unseen"]

Apart(P, S, R, D) ==
  /\ P \subseteq 1..MaxUses
  /\ P \cap (S \cup R \cup D) = {}
  /\ S \cap (R \cup D) = {}
  /\ R \cap D = {}

CurrentMap == StatusMap(PendingUses, Substituted, reported, dropped)

LEMMA MapIsStatus == CurrentMap = [u \in 1..MaxUses |-> Status(u)]
BY DEF CurrentMap, StatusMap, Status

(* A use that was in none of the sets is recorded, ... *)
LEMMA MapRecord ==
  ASSUME NEW P, NEW S, NEW R, NEW D, NEW u \in 1..MaxUses,
         u \notin P \cup S \cup R \cup D
  PROVE  /\ StatusMap(P, S, R, D)[u] = "unseen"
         /\ StatusMap(P \cup {u}, S, R, D)
              = [StatusMap(P, S, R, D) EXCEPT ![u] = "pending"]
<1> DEFINE f == StatusMap(P, S, R, D)
           g == StatusMap(P \cup {u}, S, R, D)
<1>1. /\ DOMAIN f = 1..MaxUses /\ DOMAIN g = 1..MaxUses
      /\ f = [v \in 1..MaxUses |-> f[v]] /\ g = [v \in 1..MaxUses |-> g[v]]
  BY DEF StatusMap
<1>2. f[u] = "unseen" /\ g[u] = "pending"
  BY DEF StatusMap
<1>3. ASSUME NEW v \in 1..MaxUses, v # u PROVE g[v] = f[v]
  BY <1>3 DEF StatusMap
<1> HIDE DEF f, g
<1>4. g = [f EXCEPT ![u] = "pending"]
  BY <1>1, <1>2, <1>3
<1> QED BY <1>2, <1>4 DEF f, g

(* ... one that is pending is substituted, ... *)
LEMMA MapSubst ==
  ASSUME NEW P, NEW S, NEW R, NEW D, Apart(P, S, R, D), NEW u \in P
  PROVE  /\ StatusMap(P, S, R, D)[u] = "pending"
         /\ StatusMap(P \ {u}, S \cup {u}, R, D)
              = [StatusMap(P, S, R, D) EXCEPT ![u] = "substituted"]
<1> DEFINE f == StatusMap(P, S, R, D)
           g == StatusMap(P \ {u}, S \cup {u}, R, D)
<1>1. /\ DOMAIN f = 1..MaxUses /\ DOMAIN g = 1..MaxUses
      /\ f = [v \in 1..MaxUses |-> f[v]] /\ g = [v \in 1..MaxUses |-> g[v]]
  BY DEF StatusMap
<1>2. f[u] = "pending" /\ g[u] = "substituted"
  BY DEF StatusMap, Apart
<1>3. ASSUME NEW v \in 1..MaxUses, v # u PROVE g[v] = f[v]
  <2>1. CASE v \in P
    BY <1>3, <2>1 DEF StatusMap, Apart
  <2>2. CASE v \notin P
    BY <1>3, <2>2 DEF StatusMap, Apart
  <2> QED BY <2>1, <2>2
<1> HIDE DEF f, g
<1>4. g = [f EXCEPT ![u] = "substituted"]
  BY <1>1, <1>2, <1>3
<1> QED BY <1>2, <1>4 DEF f, g

ReportMap(f, P, sub, bad) ==
  [u \in 1..MaxUses |-> CASE u \in sub                -> "substituted"
                          [] u \in bad                -> "reported"
                          [] u \in P \ (sub \cup bad) -> "dropped"
                          [] OTHER                    -> f[u]]

Divided(P, sub, bad) == sub \subseteq P /\ bad \subseteq P /\ sub \cap bad = {}

(* ... or all that are pending are substituted, reported or dropped.       *)
LEMMA MapReport ==
  ASSUME NEW P, NEW S, NEW R, NEW D, Apart(P, S, R, D),
         NEW sub, NEW bad, Divided(P, sub, bad)
  PROVE  StatusMap({}, S \cup sub, R \cup bad, D \cup (P \ (sub \cup bad)))
           = ReportMap(StatusMap(P, S, R, D), P, sub, bad)
<1>1. ASSUME NEW u \in 1..MaxUses
      PROVE  StatusMap({}, S \cup sub, R \cup bad, D \cup (P \ (sub \cup bad)))[u]
               = ReportMap(StatusMap(P, S, R, D), P, sub, bad)[u]
  <2>1. CASE u \in sub
    BY <2>1 DEF StatusMap, ReportMap, Apart, Divided
  <2>2. CASE u \in bad
    BY <2>2 DEF StatusMap, ReportMap, Apart, Divided
  <2>3. CASE u \in P \ (sub \cup bad)
    BY <2>3 DEF StatusMap, ReportMap, Apart, Divided
  <2>4. CASE u \notin P
    BY <2>4 DEF StatusMap, ReportMap, Apart, Divided
  <2> QED BY <2>1, <2>2, <2>3, <2>4
<1> QED BY <1>1 DEF StatusMap, ReportMap, Apart, Divided

-----------------------------------------------------------------------------
(* The steps of the ledger, in terms of these sets.                        *)

LedgerStep == [Ledger!Next]_(Ledger!vars)

LEMMA StutterStep ==
  ASSUME UNCHANGED <<PendingUses, Substituted, reported, dropped, failed>>,
         phase # "end", phase' # "end"
  PROVE  LedgerStep
<1>1. CurrentMap' = CurrentMap
  BY DEF CurrentMap
<1> QED BY <1>1, MapIsStatus DEF LedgerStep, Ledger!vars, Status

LEMMA FailStep ==
  ASSUME UNCHANGED <<PendingUses, Substituted, reported, dropped>>, failed' = TRUE,
         phase # "end", phase' # "end"
  PROVE  LedgerStep
BY DEF LedgerStep, Ledger!Next, Ledger!Fail, Status

LEMMA RecordStep ==
  ASSUME NEW u \in 1..MaxUses,
         u \notin PendingUses \cup Substituted \cup reported \cup dropped,
         PendingUses' = PendingUses \cup {u},
         UNCHANGED <<Substituted, reported, dropped, failed>>,
         phase # "end", phase' # "end"
  PROVE  LedgerStep
<1>1. /\ CurrentMap[u] = "unseen"
      /\ CurrentMap' = [CurrentMap EXCEPT ![u] = "pending"]
  BY MapRecord DEF CurrentMap
<1>2. CurrentMap' = [v \in 1..MaxUses |-> Status(v)']
  BY DEF CurrentMap, StatusMap, Status
<1>3. Ledger!Record(u)
  BY <1>1, <1>2, MapIsStatus DEF Ledger!Record
<1> QED BY <1>3 DEF LedgerStep, Ledger!Next

LEMMA SubstituteStep ==
  ASSUME NEW u \in PendingUses, PendingUses \subseteq 1..MaxUses, Accounting,
         PendingUses' = PendingUses \ {u}, Substituted' = Substituted \cup {u},
         UNCHANGED <<reported, dropped, failed>>, phase # "end", phase' # "end"
  PROVE  LedgerStep
<1>0. Apart(PendingUses, Substituted, reported, dropped)
  BY DEF Accounting, Apart
<1>1. /\ CurrentMap[u] = "pending"
      /\ CurrentMap' = [CurrentMap EXCEPT ![u] = "substituted"]
  <2>1. /\ CurrentMap[u] = "pending"
        /\ StatusMap(PendingUses \ {u}, Substituted \cup {u}, reported, dropped)
             = [CurrentMap EXCEPT ![u] = "substituted"]
    BY <1>0, MapSubst DEF CurrentMap
  <2>2. CurrentMap' = StatusMap(PendingUses \ {u}, Substituted \cup {u},
                                reported, dropped)
    BY DEF CurrentMap
  <2> QED BY <2>1, <2>2
<1>2. CurrentMap' = [v \in 1..MaxUses |-> Status(v)']
  BY DEF CurrentMap, StatusMap, Status
<1>3. Ledger!Substitute(u)
  BY <1>1, <1>2, MapIsStatus DEF Ledger!Substitute
<1> QED BY <1>3 DEF LedgerStep, Ledger!Next

LEMMA ReportStep ==
  ASSUME Accounting, PendingUses \subseteq 1..MaxUses,
         NEW sub \in SUBSET PendingUses, NEW bad \in SUBSET PendingUses,
         sub \cap bad = {}, bad # {}, sub = {} \/ \E u : sub = {u},
         PendingUses' = {}, Substituted' = Substituted \cup sub,
         reported' = reported \cup bad,
         dropped' = dropped \cup (PendingUses \ (sub \cup bad)),
         failed' = TRUE, phase # "end"
  PROVE  LedgerStep
<1>0. Apart(PendingUses, Substituted, reported, dropped)
  BY DEF Accounting, Apart
<1>a. PendingUses = {u \in 1..MaxUses : CurrentMap[u] = "pending"}
  BY <1>0 DEF CurrentMap, StatusMap, Apart
<1>1. CurrentMap' = ReportMap(CurrentMap, PendingUses, sub, bad)
  <2> DEFINE after == StatusMap({}, Substituted \cup sub, reported \cup bad,
                                dropped \cup (PendingUses \ (sub \cup bad)))
  <2>1. Divided(PendingUses, sub, bad)
    BY DEF Divided
  <2>3. after = ReportMap(CurrentMap, PendingUses, sub, bad)
    BY <1>0, <2>1, MapReport DEF CurrentMap
  <2>2. CurrentMap' = after
    BY DEF CurrentMap
  <2> QED BY <2>2, <2>3
<1>2. CurrentMap' = [v \in 1..MaxUses |-> Status(v)']
  BY DEF CurrentMap, StatusMap, Status
<1>3. Ledger!Pending = PendingUses
  BY <1>a, MapIsStatus DEF Ledger!Pending
<1>4. \E u \in 1..MaxUses : sub \subseteq {u}
  OBVIOUS
<1>5. Ledger!Report(sub, bad)
  BY <1>1, <1>2, <1>3, <1>4, MapIsStatus DEF Ledger!Report, ReportMap
<1> QED BY <1>3, <1>5 DEF LedgerStep, Ledger!Next

(* check_context_clear after at most one substitution. *)
LEMMA ClearStep ==
  ASSUME Accounting, failed \in BOOLEAN, PendingUses \subseteq 1..MaxUses,
         Allocated, Allocated',
         NEW sub \in SUBSET PendingUses, sub = {} \/ \E u : sub = {u},
         NEW list, ListOK(list), Distinct(list), UsesIn(list) = PendingUses \ sub,
         Substituted' = Substituted \cup sub,
         NEW start, ClearRecords(list, start)
  PROVE  LedgerStep
<1> DEFINE errors == Reported(list, start)
           R == {n.use : n \in errors}
           D == {n.use : n \in Nodes(list) \ errors}
<1>1. /\ errors \subseteq Nodes(list) /\ phase # "end" /\ phase' # "end"
      /\ PendingUses' = UsesIn(mods')
  BY NodesType DEF Allocated, PendingUses
<1>2. CASE errors = {}
  <2>1. /\ mods' = list
        /\ UNCHANGED <<reported, dropped, failed>>
    BY <1>2 DEF ClearRecords, CheckEmpty
  <2>2. CASE sub = {}
    <3>1. UNCHANGED <<PendingUses, Substituted, reported, dropped, failed>>
      BY <1>1, <2>1, <2>2
    <3> QED BY <1>1, <3>1, StutterStep
  <2>3. ASSUME NEW u, sub = {u} PROVE LedgerStep
    BY <1>1, <2>1, <2>3, SubstituteStep
  <2> QED BY <2>2, <2>3
<1>3. CASE errors # {}
  <2>1. PendingUses' = {}
    BY <1>1, <1>3, NoUses DEF ClearRecords, CheckEmpty
  <2>2. R \cup D = UsesIn(list) /\ R # {}
    BY <1>1, <1>3 DEF UsesIn
  <2>3. R \cap D = {}
    <3>1. \A n, m \in Nodes(list) : n.use = m.use => n = m
      BY DEF Distinct, Nodes
    <3> QED BY <3>1, <1>1
  <2>4. reported' = reported \cup R /\ dropped' = dropped \cup D /\ failed' = TRUE
    BY <1>3 DEF ClearRecords
  <2> HIDE DEF R, D, errors
  <2>5. /\ R \in SUBSET PendingUses /\ sub \cap R = {}
        /\ D = PendingUses \ (sub \cup R)
    BY <2>2, <2>3
  <2> QED BY <1>1, <2>1, <2>2, <2>4, <2>5, ReportStep
<1> QED BY <1>2, <1>3

(* A step that changes nothing of the record of uses. *)
LEMMA QuietStep ==
  ASSUME Allocated, Allocated',
         UNCHANGED <<mods, done, reported, dropped>>, failed' = failed \/ failed' = TRUE
  PROVE  LedgerStep
<1>1. UNCHANGED <<PendingUses, Substituted, reported, dropped>>
  BY DEF PendingUses, Substituted
<1> QED BY <1>1, StutterStep, FailStep DEF Allocated

(* A substitution by the i-th record. *)
LEMMA SubstSets ==
  ASSUME Accounting, Allocated, ListOK(mods), NEW i \in DOMAIN mods.head,
         NEW s, NEW kind, done' = done \cup {Subst(s, i, kind)}
  PROVE  LET u == mods.head[i].use
         IN  /\ u \in PendingUses
             /\ Substituted' = Substituted \cup {u}
             /\ ListOK(RemoveElem(mods, i))
             /\ Distinct(RemoveElem(mods, i))
             /\ UsesIn(RemoveElem(mods, i)) = PendingUses \ {u}
<1>1. Distinct(mods) /\ PendingUses = UsesIn(mods)
  BY DEF Accounting, Distinct, PendingUses
<1>2. mods.head[i].use \in PendingUses
  BY <1>1 DEF UsesIn, Nodes
<1>3. Substituted' = Substituted \cup {mods.head[i].use}
  <2> DEFINE d == Subst(s, i, kind)
  <2>1. d.node.use = mods.head[i].use
    BY DEF Subst
  <2> HIDE DEF d
  <2>2. Substituted' = Substituted \cup {d.node.use}
    BY DEF Substituted, d
  <2> QED BY <2>1, <2>2
<1>4. ListOK(RemoveElem(mods, i))
  BY RemoveElemOK
<1>5. /\ Distinct(RemoveElem(mods, i))
      /\ UsesIn(RemoveElem(mods, i)) = PendingUses \ {mods.head[i].use}
  BY <1>1, RemoveUses
<1> QED BY <1>2, <1>3, <1>4, <1>5

LEMMA SubstStep ==
  ASSUME Accounting, PendingUses \subseteq 1..MaxUses, Allocated, Allocated',
         ListOK(mods), NEW i \in DOMAIN mods.head, NEW s, NEW kind,
         done' = done \cup {Subst(s, i, kind)}, mods' = RemoveElem(mods, i),
         UNCHANGED verdict
  PROVE  LedgerStep
<1>1. /\ mods.head[i].use \in PendingUses
      /\ Substituted' = Substituted \cup {mods.head[i].use}
      /\ UsesIn(RemoveElem(mods, i)) = PendingUses \ {mods.head[i].use}
  BY SubstSets
<1>2. PendingUses' = UsesIn(RemoveElem(mods, i))
  BY DEF PendingUses
<1> QED BY <1>1, <1>2, SubstituteStep DEF verdict, Allocated

LEMMA SubstClearStep ==
  ASSUME Accounting, PendingUses \subseteq 1..MaxUses, Allocated, Allocated',
         ListOK(mods), failed \in BOOLEAN,
         NEW i \in DOMAIN mods.head, NEW s, NEW kind, NEW start,
         done' = done \cup {Subst(s, i, kind)},
         ClearRecords(RemoveElem(mods, i), start)
  PROVE  LedgerStep
<1> DEFINE u == mods.head[i].use
<1>1. /\ u \in PendingUses
      /\ Substituted' = Substituted \cup {u}
      /\ ListOK(RemoveElem(mods, i)) /\ Distinct(RemoveElem(mods, i))
      /\ UsesIn(RemoveElem(mods, i)) = PendingUses \ {u}
  BY SubstSets
<1> HIDE DEF u
<1> QED BY <1>1, ClearStep

LEMMA WholeClearStep ==
  ASSUME Accounting, PendingUses \subseteq 1..MaxUses, Allocated, Allocated',
         ListOK(mods), failed \in BOOLEAN, done' = done, NEW start,
         ClearRecords(mods, start)
  PROVE  LedgerStep
<1>1. /\ Distinct(mods) /\ UsesIn(mods) = PendingUses \ {}
      /\ Substituted' = Substituted \cup {}
  BY DEF Accounting, Distinct, PendingUses, Substituted
<1> QED BY <1>1, ClearStep

-----------------------------------------------------------------------------
(* The plugin keeps its promise: every step of a compilation records one   *)
(* use, substitutes one, raises an error that settles all that are         *)
(* pending, fails otherwise, ends with nothing pending, or changes nothing *)
(* the ledger tells (README.md:63-66 of the repository).                   *)
THEOREM LedgerCorrect == Spec => ImplementsLedger
<1>1. Init => Ledger!Init
  <2> SUFFICES ASSUME Init PROVE Ledger!Init
    OBVIOUS
  <2>1. /\ PendingUses = {} /\ Substituted = {} /\ reported = {} /\ dropped = {}
        /\ failed = FALSE /\ phase = "start"
    BY DEF Init, PendingUses, Substituted, Allocated
  <2> QED BY <2>1 DEF Ledger!Init, Status
<1>2. TypeOK /\ Accounting /\ [Next]_vars => LedgerStep
  <2> SUFFICES ASSUME TypeOK, Accounting, [Next]_vars PROVE LedgerStep
    OBVIOUS
  <2>0. /\ failed \in BOOLEAN /\ serial \in 0..MaxUses /\ MaxUses \in Nat
        /\ Allocated => ListOK(mods)
        /\ PendingUses \subseteq 1..MaxUses
    BY BoundAssumption DEF TypeOK, Accounting
  <2> USE DEF hooks, counters, verdict
  <2>1. CASE PluginInit
    <3>1. UNCHANGED <<PendingUses, Substituted, reported, dropped>>
      BY <2>1, NoUses DEF PluginInit, PendingUses, Substituted, Allocated
    <3>2. /\ phase # "end" /\ phase' # "end"
          /\ failed' = failed \/ failed' = TRUE
      BY <2>1 DEF PluginInit
    <3> QED BY <3>1, <3>2, StutterStep, FailStep
  <2>2. CASE HandleStartTu
    BY <2>2, QuietStep DEF HandleStartTu, Allocated
  <2>3. ASSUME NEW d \in Definition, CheckMacroDefine(d) PROVE LedgerStep
    BY <2>3, QuietStep DEF CheckMacroDefine, Allocated
  <2>4. ASSUME NEW d \in defs, NEW loc \in Locations, NEW c \in Copies,
               NEW shape \in Shapes, NEW hit \in Names \cup {NULL},
               MacroUse(d, loc, c, hit, shape)
        PROVE  LedgerStep
    <3> DEFINE n == [use |-> serial', loc |-> loc, name |-> d.arg]
    <3>1. /\ Allocated /\ Allocated' /\ serial' = serial + 1
          /\ serial' \in 1..MaxUses
          /\ UNCHANGED <<done, reported, dropped>>
      BY <2>4, <2>0 DEF MacroUse, Allocated
    <3>2. CASE mods' = AddElem(mods, n) /\ UNCHANGED failed
      <4>1. n \in Node(Names) /\ n.use = serial'
        BY <2>0, <3>1, LocationAssumption DEF Node, TypeOK, Definition
      <4>2. PendingUses' = PendingUses \cup {serial'}
        BY <2>0, <3>1, <3>2, <4>1, AddUses DEF PendingUses
      <4>3. serial' \notin PendingUses \cup Substituted \cup reported \cup dropped
        BY <2>0, <3>1 DEF Accounting
      <4>4. UNCHANGED <<Substituted, reported, dropped, failed>>
        BY <3>1, <3>2 DEF Substituted
      <4>5. phase # "end" /\ phase' # "end"
        BY <3>1 DEF Allocated
      <4> HIDE DEF n
      <4> QED BY <3>1, <4>2, <4>3, <4>4, <4>5, RecordStep
    <3>3. CASE UNCHANGED mods /\ (failed' = failed \/ failed' = TRUE)
      BY <3>1, <3>3, QuietStep
    <3> QED BY <2>4, <3>2, <3>3 DEF MacroUse, CheckMacroUse
  <2>5. ASSUME NEW hit \in Names, NEW shape \in Shapes \ {"unfolded"},
               Literal(hit, shape)
        PROVE  LedgerStep
    BY <2>5, QuietStep DEF Literal, Allocated
  <2>6. CASE OtherUnit
    BY <2>6, QuietStep DEF OtherUnit, Leave, Allocated
  <2>7. CASE DeclTooEarly
    BY <2>7, QuietStep DEF DeclTooEarly, Leave, Allocated
  <2>8. ASSUME NEW s \in SiteOrNull, NEW readonly \in BOOLEAN,
               DeclScalar(s, readonly)
        PROVE  LedgerStep
    <3>1. Allocated /\ Allocated'
      BY <2>8 DEF DeclScalar, Leave, Allocated
    <3>2. CASE ClearContext(mods, MAX_LOCATION_T) /\ done' = done
      BY <2>0, <3>1, <3>2, WholeClearStep DEF ClearContext
    <3>3. ASSUME NEW i \in GetElem(mods, mods.start),
                 ClearContext(RemoveElem(mods, i), MAX_LOCATION_T),
                 done' = done \cup {Subst(s, i, "global")}
          PROVE  LedgerStep
      <4>1. i \in DOMAIN mods.head
        BY FoundInList
      <4> QED BY <2>0, <3>1, <3>3, <4>1, SubstClearStep DEF ClearContext
    <3> QED BY <2>8, <3>2, <3>3 DEF DeclScalar
  <2>9. CASE DeclAggregate
    BY <2>9, QuietStep DEF DeclAggregate, Allocated
  <2>10. ASSUME NEW s \in tree, SetValue(s) PROVE LedgerStep
    <3>1. PICK i \in ElementRecord(s) :
            /\ mods' = RemoveElem(mods, i)
            /\ done' = done \cup {Subst(s, i, "global")}
      BY <2>10 DEF SetValue
    <3>2. Allocated /\ Allocated' /\ i \in DOMAIN mods.head /\ UNCHANGED verdict
      BY <2>10, <3>1, ElementInList DEF SetValue, Allocated
    <3> QED BY <2>0, <3>1, <3>2, SubstStep
  <2>11. CASE DeclEnd
    BY <2>11, <2>0, WholeClearStep DEF DeclEnd, Leave, Allocated, ClearContext
  <2>12. CASE HandlePreGenericize
    BY <2>12, QuietStep DEF HandlePreGenericize, Allocated
  <2>13. ASSUME NEW s \in tree, NEW loc \in Locations, NEW finish \in Locations,
                CheckExpr(s, loc, finish)
         PROVE  LedgerStep
    <3>1. PICK i \in FindUse(loc, finish) :
            /\ mods' = RemoveElem(mods, i)
            /\ done' = done \cup {Subst(s, i, "sub")}
      BY <2>13 DEF CheckExpr
    <3>2. Allocated /\ Allocated' /\ i \in DOMAIN mods.head /\ UNCHANGED verdict
      BY <2>13, <3>1, FoundInList DEF CheckExpr, FindUse, Allocated
    <3> QED BY <2>0, <3>1, <3>2, SubstStep
  <2>14. ASSUME NEW s \in tree, NEW loc \in Locations, NEW finish \in Locations,
                CheckDecl(s, loc, finish)
         PROVE  LedgerStep
    <3>1. Allocated /\ Allocated'
      BY <2>14 DEF CheckDecl, Allocated
    <3>2. CASE RefuseConst
      BY <3>1, <3>2, QuietStep DEF RefuseConst
    <3>3. ASSUME NEW i \in FindUse(loc, finish), NEW kind,
                 mods' = RemoveElem(mods, i),
                 done' = done \cup {Subst(s, i, kind)},
                 UNCHANGED <<active, verdict>>
          PROVE  LedgerStep
      <4>1. i \in DOMAIN mods.head /\ UNCHANGED verdict
        BY <3>3, FoundInList DEF FindUse
      <4> QED BY <2>0, <3>1, <3>3, <4>1, SubstStep
    <3> QED BY <2>14, <3>2, <3>3 DEF CheckDecl
  <2>14a. ASSUME NEW s \in kept, NEW loc \in Locations, NEW finish \in Locations,
                 CheckKept(s, loc, finish)
          PROVE  LedgerStep
    <3>1. PICK i \in FindUse(loc, finish) :
            /\ mods' = RemoveElem(mods, i)
            /\ done' = done \cup {Subst(s, i, "init")}
      BY <2>14a DEF CheckKept
    <3>2. Allocated /\ Allocated' /\ i \in DOMAIN mods.head /\ UNCHANGED verdict
      BY <2>14a, <3>1, FoundInList DEF CheckKept, FindUse, Allocated
    <3> QED BY <2>0, <3>1, <3>2, SubstStep
  <2>15. ASSUME NEW s \in tree, NEW loc \in Locations, RetryInt(s, loc)
         PROVE  LedgerStep
    <3>1. Allocated /\ Allocated'
      BY <2>15 DEF RetryInt, MissedDecl, Allocated
    <3>2. CASE RefuseConst
      BY <3>1, <3>2, QuietStep DEF RefuseConst
    <3>3. ASSUME NEW i \in GetElem(mods, mods.start),
                 ClearContext(RemoveElem(mods, i), loc),
                 done' = done \cup {Subst(s, i, "init")}
          PROVE  LedgerStep
      <4>1. i \in DOMAIN mods.head
        BY FoundInList
      <4> QED BY <2>0, <3>1, <3>3, <4>1, SubstClearStep DEF ClearContext
    <3> QED BY <2>15, <3>2, <3>3 DEF RetryInt
  <2>16. ASSUME NEW s \in tree, NEW loc \in Locations, RetryElement(s, loc)
         PROVE  LedgerStep
    <3>1. PICK i \in ElementRecord(s) :
            /\ mods' = RemoveElem(mods, i)
            /\ done' = done \cup {Subst(s, i, "init")}
      BY <2>16 DEF RetryElement
    <3>2. Allocated /\ Allocated' /\ i \in DOMAIN mods.head /\ UNCHANGED verdict
      BY <2>16, <3>1, ElementInList DEF RetryElement, MissedDecl, Allocated
    <3> QED BY <2>0, <3>1, <3>2, SubstStep
  <2>17. CASE RetryEnd
    BY <2>17, <2>0, WholeClearStep DEF RetryEnd, Allocated, ClearContext
  <2>18. ASSUME NEW s \in tree, NEW loc \in Locations, NEW e \in BOOLEAN,
                CaseLabel(s, loc, e)
         PROVE  LedgerStep
    <3>1. PICK i \in GetElem(mods, loc) :
            /\ mods' = RemoveElem(mods, i)
            /\ done' = done \cup {Subst(s, i, "case")}
      BY <2>18 DEF CaseLabel
    <3>2. Allocated /\ Allocated' /\ i \in DOMAIN mods.head /\ UNCHANGED verdict
      BY <2>18, <3>1, FoundInList DEF CaseLabel, Allocated
    <3> QED BY <2>0, <3>1, <3>2, SubstStep
  <2>19. CASE SwitchEnd
    BY <2>19, QuietStep DEF SwitchEnd, Allocated
  <2>20. CASE WalkEnd
    BY <2>20, <2>0, WholeClearStep DEF WalkEnd, Leave, Allocated, ClearContext
  <2>21. CASE HandleFinishTu
    BY <2>21, <2>0, WholeClearStep DEF HandleFinishTu, Allocated
  <2>22. CASE HandleFinish
    <3> DEFINE R == {n.use : n \in Reported(mods, MAX_LOCATION_T)}
    <3>1. Allocated /\ ~ Allocated' /\ phase # "end" /\ phase' = "end"
      BY <2>22 DEF HandleFinish, Allocated
    <3>2. R = PendingUses
      BY <3>1 DEF Reported, PendingUses, UsesIn
    <3>3. /\ reported' = reported \cup R
          /\ failed' = (failed \/ R # {})
          /\ UNCHANGED <<done, dropped>>
      BY <2>22 DEF HandleFinish
    <3> HIDE DEF R
    <3>4. PendingUses' = {} /\ Substituted' = Substituted
      BY <3>1, <3>3 DEF PendingUses, Substituted
    <3>5. CASE R = {}
      <4>1. UNCHANGED <<PendingUses, Substituted, reported, dropped, failed>>
        BY <2>0, <3>2, <3>3, <3>4, <3>5
      <4>2. CurrentMap' = CurrentMap
        BY <4>1 DEF CurrentMap
      <4>3. CurrentMap' = [v \in 1..MaxUses |-> Status(v)']
        BY DEF CurrentMap, StatusMap, Status
      <4>4. Ledger!Pending = {}
        BY <3>2, <3>5 DEF Ledger!Pending, Status
      <4>5. Ledger!Finish
        BY <3>1, <4>1, <4>2, <4>3, <4>4, MapIsStatus DEF Ledger!Finish
      <4> QED BY <3>1, <4>5 DEF LedgerStep, Ledger!Next
    <3>6. CASE R # {}
      <4>1. dropped' = dropped \cup (PendingUses \ ({} \cup R)) /\ failed' = TRUE
            /\ Substituted' = Substituted \cup {}
        BY <3>2, <3>3, <3>4, <3>6
      <4> QED BY <2>0, <3>1, <3>2, <3>3, <3>4, <3>6, <4>1, ReportStep
    <3> QED BY <3>5, <3>6
  <2>23. CASE UNCHANGED vars
    BY <2>23 DEF vars, LedgerStep, Ledger!vars, Status, PendingUses, Substituted,
                 Allocated
  <2> QED
    BY <2>1, <2>2, <2>3, <2>4, <2>5, <2>6, <2>7, <2>8, <2>9, <2>10, <2>11,
       <2>12, <2>13, <2>14, <2>14a, <2>15, <2>16, <2>17, <2>18, <2>19, <2>20,
       <2>21, <2>22, <2>23
    DEF Next, Preprocess, Declare, Walk, Terminated
<1> QED
  BY <1>1, <1>2, TypeCorrect, AccountingCorrect, PTL
  DEF Spec, ImplementsLedger, Ledger!Spec, LedgerStep

=============================================================================
