------------------------------ MODULE Portcosmo ------------------------------
(***************************************************************************)
(* The life of the plugin in one run of the compiler: from plugin_init to  *)
(* PLUGIN_FINISH, through the callbacks gcc makes.                         *)
(*                                                                         *)
(*   - the preprocessor's hooks record every use of a macro of the form    *)
(*     #define X ACTUALLY(X) in the list ctx->mods (src/src/macro.cc);     *)
(*   - what the use leaves in the syntax tree is the magic number of X,    *)
(*     a "site" of this model;                                             *)
(*   - PLUGIN_FINISH_DECL and PLUGIN_PRE_GENERICIZE look for the sites of  *)
(*     the declaration or function just parsed, replace each by the        *)
(*     variable X, and delete the record that led to it;                   *)
(*   - what is left in the list when the handler is done is an error.      *)
(*                                                                         *)
(* A location is compared, never produced, so it is any member of a        *)
(* constant set: lines restart in every header, and a record's line need   *)
(* not be related to the lines of the records before it.                   *)
(*                                                                         *)
(* Variables marked "history" are not in the program.                      *)
(***************************************************************************)
EXTENDS SubuList, FiniteSets

CONSTANTS
  Names,       \* the constants X that are defined as ACTUALLY(X)
  NULL,
  Locations,   \* where macros are used and expressions start and end
  MaxUses,     \* bound: macro uses and colliding literals in the source
  Forms,       \* forms of the definitions met, a subset of AllForms
  Copies,      \* how many constants one use leaves in the tree
  Shapes,      \* how those constants look, a subset of AllShapes
  Readings,    \* <<origin, X>>: a constant from origin equals X's magic number
  Hooks,       \* <<define, used>>: the preprocessor's hooks before the plugin
  Langs,       \* "C", "ASM"
  Quirks       \* unusual sources, a subset of AllQuirks

(* Forms of a definition that mentions ACTUALLY(X):                        *)
(*   "exact"      #define X ACTUALLY(X)                                    *)
(*   "longer"     #define X_SUFFIX ACTUALLY(X)                             *)
(*   "unrelated"  #define Y ACTUALLY(X), X not a prefix of Y               *)
(*   "nospace"    #define X (ACTUALLY(X))                                  *)
AllForms == {"exact", "longer", "unrelated", "nospace"}

(* Shapes of a constant in the tree: the magic number; its negation or     *)
(* complement; a conversion of the variable __tmpcosmo_X, not folded.      *)
AllShapes == {"plain", "negated", "unfolded"}

(* "block_static"   a block may be just { static int v = X; } on a line    *)
(* "static_again"   when the walk comes to the declaration of a static     *)
(*                  integer of a block, a record of another use of its     *)
(*                  macro may be in reach: { static int v = X; f(); } g(X) *)
(* "columns_lost"   gcc has run out of column numbers (line-map.h), so the *)
(*                  location of an expansion has column 0                  *)
AllQuirks == {"block_static", "static_again", "columns_lost"}

ASSUME NamesAssumption    == NULL \notin Names
ASSUME LocationAssumption == Locations \subseteq Location
ASSUME BoundAssumption    == MaxUses \in Nat
ASSUME SourceAssumption   ==
  /\ Forms \subseteq AllForms
  /\ Copies \subseteq Nat
  /\ Shapes \subseteq AllShapes
  /\ Readings \subseteq (Names \cup {NULL}) \X (Names \cup {NULL})
  /\ Quirks \subseteq AllQuirks
ASSUME HostAssumption     ==
  /\ Hooks \subseteq {"none", "other"} \X {"none", "other"}
  /\ Langs \subseteq {"C", "ASM"}

VARIABLES
  phase,        \* which callback is running, see Phases
  lang,         \* cpp_options.lang
  define,       \* cpp_callbacks.define: "none", "ours", "other"
  used,         \* cpp_callbacks.used
  given,        \* history: the hooks as the plugin found them
  actually,     \* the macro ACTUALLY: "foreign", "tmp", "identity"
  defs,         \* definitions seen that mention ACTUALLY
  active,       \* SubContext.active
  mods,         \* SubContext.mods
  switchcount,  \* SubContext.switchcount
  initcount,    \* SubContext.initcount
  subcount,     \* SubContext.subcount
  open,         \* rewritten switches whose own walk has not returned
  bound,        \* the bound of a build_modded_declaration in progress
  serial,       \* number of macro uses and colliding literals so far
  tree,         \* sites of the declaration or function being parsed
  kept,         \* static integers the walk replaced but will visit again
  left,         \* sites of finished ones, never substituted
  recorded,     \* history: the uses that got a record
  done,         \* history: the substitutions made
  reported,     \* history: the uses reported by error_at
  dropped,      \* history: the uses cleared without a report of their own
  failed,       \* an error was raised: the compilation fails
  note          \* the counts of the final notes

hooks    == <<define, used, given, actually, defs, lang>>
counters == <<switchcount, initcount, subcount>>
verdict  == <<reported, dropped, failed>>
vars == <<phase, hooks, active, mods, counters, open, bound, serial, tree,
          kept, left, recorded, done, verdict, note>>

Phases == {"start", "refused", "loaded", "parse", "decl", "walk", "retry",
           "unit_done", "end"}

-----------------------------------------------------------------------------
(* Sites: a constant of the tree, the use it comes from (its copies are    *)
(* numbered), the macro it stands for (NULL: a literal of the source), and *)
(* the macro it would be taken for (NULL: none, because it was folded with *)
(* other constants or is not in a place where the plugin looks).           *)

Site == [use : Nat, copy : Nat, macro : Names \cup {NULL},
         hit : Names \cup {NULL}, shape : AllShapes]

(* arg_should_be_modded *)
ShouldBeModded(s, node) == s.hit = node.name

(* tree_int_cst_equal with the magic number, as in check_magic_equal *)
MagicEqual(s, node) == s.hit = node.name /\ s.shape = "plain"

(* The elements of an initializer are considered when they are INTEGER_CST *)
ElementModded(s, node) == ShouldBeModded(s, node) /\ s.shape # "unfolded"

(* One substitution: which site, by which record, in which way. *)
Kinds == {"global", "init", "sub", "case", "lost", "kept"}
Substitution == [site : Site, node : Node(Names), kind : Kinds]

Subst(s, i, kind) == [site |-> s, node |-> mods.head[i], kind |-> kind]

-----------------------------------------------------------------------------
(* check_context_clear(ctx, start): check_empty_subu_list reports, and     *)
(* after any report clears everything; active becomes the outcome.         *)
ClearRecords(list, start) ==
  LET errors == Reported(list, start)
  IN  /\ mods' = CheckEmpty(list, start)
      /\ failed' = (failed \/ errors # {})
      /\ reported' = reported \cup {n.use : n \in errors}
      /\ dropped' = IF errors = {} THEN dropped
                    ELSE dropped \cup {n.use : n \in Nodes(list) \ errors}

ClearContext_Errcount(list, start) ==   \* fault: active is the error count
  /\ ClearRecords(list, start)
  /\ active' = IF Reported(list, start) = {} THEN 0 ELSE 1

ClearContext(list, start) ==
  /\ ClearRecords(list, start)
  /\ active' = IF Reported(list, start) = {} THEN 1 ELSE 0

(* The handler of a declaration or function returns; the sites it did not  *)
(* replace are never visited again.                                        *)
Leave(unsubstituted) ==
  /\ phase' = "parse"
  /\ left' = left \cup unsubstituted
  /\ tree' = {} /\ kept' = {}

-----------------------------------------------------------------------------
Init ==
  /\ phase = "start"
  /\ lang \in Langs
  /\ given \in Hooks
  /\ define = given[1] /\ used = given[2]
  /\ actually = "foreign"
  /\ defs = {}
  /\ active = 0
  /\ mods = NULL
  /\ switchcount = 0 /\ initcount = 0 /\ subcount = 0
  /\ open = 0
  /\ bound = NULL
  /\ serial = 0
  /\ tree = {} /\ kept = {} /\ left = {}
  /\ recorded = {} /\ done = {} /\ reported = {} /\ dropped = {}
  /\ failed = FALSE
  /\ note = NULL

(* The plugin takes a hook of the preprocessor only if it is free, and     *)
(* gives up only its own.                                                  *)
InstallHook(h) == IF h = "none" THEN "ours" ELSE h

RemoveHook_Any(h) == "none"        \* fault: removes whatever is there

RemoveHook(h) == IF h = "ours" THEN "none" ELSE h

(* plugin_init: a gcc of another version is refused, which gcc reports; *)
(* otherwise construct_context, and the callbacks are registered.       *)
PluginInit ==
  /\ phase = "start"
  /\ \/ /\ phase' = "refused"
        /\ failed' = TRUE
        /\ UNCHANGED mods
     \/ /\ phase' = "loaded"
        /\ mods' = EmptyList
        /\ UNCHANGED failed
  /\ UNCHANGED <<hooks, active, counters, open, bound, serial, tree, kept,
                 left, recorded, done, reported, dropped, note>>

(* handle_start_tu, activate_macro_check *)
HandleStartTu ==
  /\ phase = "loaded"
  /\ phase' = "parse"
  /\ IF lang = "ASM"
       THEN UNCHANGED <<actually, define>>
       ELSE /\ actually' = "tmp"
            /\ define' = InstallHook(define)
  /\ UNCHANGED <<used, given, defs, lang, active, mods, counters, open, bound,
                 serial, tree, kept, left, recorded, done, verdict, note>>

-----------------------------------------------------------------------------
(* Preprocessing. *)

Definition == [arg : Names, form : Forms]

(* strstr(defn, " ACTUALLY("): the space is part of what is looked for *)
Mentions(d) == d.form # "nospace"

(* strncmp: the argument is a prefix of the macro's name *)
ArgIsPrefix(d) == d.form \in {"exact", "longer"}

(* check_macro_define *)
CheckMacroDefine(d) ==
  /\ phase = "parse"
  /\ defs' = defs \cup {d}
  /\ IF define = "ours" /\ active = 0 /\ Mentions(d)
       THEN /\ active' = 1
            /\ used' = InstallHook(used)
       ELSE UNCHANGED <<active, used>>
  /\ UNCHANGED <<phase, lang, define, given, actually, mods, counters, open,
                 bound, serial, tree, kept, left, recorded, done, verdict,
                 note>>

(* check_macro_use; column 0 is taken for an #ifdef *)
CheckMacroUse(d, loc) ==
  LET considered == active = 1 /\ loc.col # 0 /\ Mentions(d)
  IN  \/ /\ considered /\ ArgIsPrefix(d)
         /\ mods' = AddElem(mods, [use |-> serial', loc |-> loc, name |-> d.arg])
         /\ recorded' = recorded \cup {serial'}
         /\ UNCHANGED <<active, failed>>
      \/ /\ considered /\ ~ ArgIsPrefix(d)
         /\ active' = 0
         /\ failed' = TRUE
         /\ UNCHANGED <<mods, recorded>>
      \/ /\ ~ considered
         /\ UNCHANGED <<active, mods, recorded, failed>>

(* The source uses a macro that mentions ACTUALLY: the hook runs, and the  *)
(* expansion reaches the parser, which may keep several copies of it (the  *)
(* argument of another macro is expanded, and recorded, once) or none.  An *)
(* #ifdef or #ifndef runs the hook with column 0 and expands nothing.      *)
MacroUse(d, loc, copies, hit, shape) ==
  /\ phase = "parse"
  /\ serial < MaxUses
  /\ loc.col = 0 /\ copies > 0 => "columns_lost" \in Quirks
  /\ serial' = serial + 1
  /\ tree' = IF actually # "tmp" THEN tree
             ELSE tree \cup
               {[use |-> serial', copy |-> k, macro |-> d.arg, hit |-> hit,
                 shape |-> shape] : k \in 1..copies}
  /\ IF used = "ours" THEN CheckMacroUse(d, loc)
                      ELSE UNCHANGED <<active, mods, recorded, failed>>
  /\ UNCHANGED <<phase, hooks, counters, open, bound, kept, left, done,
                 reported, dropped, note>>

(* The source has a literal whose value is that of a magic number. *)
Literal(hit, shape) ==
  /\ phase = "parse"
  /\ serial < MaxUses
  /\ serial' = serial + 1
  /\ tree' = tree \cup {[use |-> serial', copy |-> 0, macro |-> NULL,
                         hit |-> hit, shape |-> shape]}
  /\ UNCHANGED <<phase, hooks, active, mods, counters, open, bound, kept,
                 left, recorded, done, verdict, note>>

-----------------------------------------------------------------------------
(* The end of something the handlers return from at once: a declaration    *)
(* without initializer, a type, a prototype, or anything when the plugin   *)
(* is not active or has no record.                                         *)
OtherUnit ==
  /\ phase = "parse"
  /\ tree # {}
  /\ Leave(tree)
  /\ UNCHANGED <<hooks, active, mods, counters, open, bound, serial, recorded,
                 done, verdict, note>>

Pending == active # 0 /\ mods.count > 0

(* handle_decl for an extern declaration with initializer, or a variable   *)
(* of tmpconst.h.                                                          *)
DeclTooEarly ==
  /\ phase = "parse"
  /\ Pending
  /\ active' = 0
  /\ failed' = TRUE
  /\ Leave(tree)
  /\ UNCHANGED <<hooks, mods, counters, open, bound, serial, recorded, done,
                 reported, dropped, note>>

(* handle_decl for a global scalar initialised by site s (NULL: by         *)
(* something that is not an integer constant).  Only the first record on   *)
(* the line of the smallest recorded location is tried.  A const variable  *)
(* is an error and keeps its record, as if the value had not been found.   *)
DeclScalar(s, readonly) ==
  LET tried == IF s = NULL \/ readonly THEN {}
               ELSE {i \in GetElem(mods, mods.start) :
                       MagicEqual(s, mods.head[i])}
  IN  /\ phase = "parse"
      /\ Pending
      /\ initcount' = initcount + mods.count
      /\ \/ /\ tried = {}
            /\ ClearContext(mods, MAX_LOCATION_T)
            /\ Leave(tree)
            /\ UNCHANGED done
         \/ \E i \in tried :
              /\ ClearContext(RemoveElem(mods, i), MAX_LOCATION_T)
              /\ Leave(tree \ {s})
              /\ done' = done \cup {Subst(s, i, "global")}
      /\ UNCHANGED <<hooks, switchcount, subcount, open, bound, serial,
                     recorded, note>>

(* handle_decl for a global struct or array: set_values_based_on_ctor.     *)
DeclAggregate ==
  /\ phase = "parse"
  /\ Pending
  /\ phase' = "decl"
  /\ initcount' = initcount + mods.count
  /\ UNCHANGED <<hooks, active, mods, switchcount, subcount, open, bound,
                 serial, tree, kept, left, recorded, done, verdict, note>>

(* An element of the initializer takes the first record it agrees with. *)
ElementRecord(s) == FirstElem(mods, LAMBDA n : ElementModded(s, n))

SomeElement == \E s \in tree : ElementRecord(s) # {}

SetValue(s) ==
  /\ phase = "decl"
  /\ \E i \in ElementRecord(s) :
       /\ mods' = RemoveElem(mods, i)
       /\ done' = done \cup {Subst(s, i, "global")}
  /\ tree' = tree \ {s}
  /\ UNCHANGED <<phase, hooks, active, counters, open, bound, serial, kept,
                 left, recorded, verdict, note>>

(* handle_decl returns when no further element is found. *)
DeclEnd ==
  /\ phase = "decl"
  /\ ~ SomeElement
  /\ ClearContext(mods, MAX_LOCATION_T)
  /\ Leave(tree)
  /\ UNCHANGED <<hooks, counters, open, bound, serial, recorded, done, note>>

-----------------------------------------------------------------------------
(* handle_pre_genericize: the walk over the body of a function.  Which     *)
(* expressions hold which sites is left open: an expression has a location *)
(* loc and ends at some finish, and finds its record by these.             *)
HandlePreGenericize_Counts ==   \* fault: counts ahead, as handle_decl does
  /\ phase = "parse"
  /\ Pending
  /\ phase' = "walk"
  /\ initcount' = initcount + mods.count
  /\ UNCHANGED <<hooks, active, mods, switchcount, subcount, open, bound,
                 serial, tree, kept, left, recorded, done, verdict, note>>

HandlePreGenericize ==
  /\ phase = "parse"
  /\ Pending
  /\ phase' = "walk"
  /\ UNCHANGED <<hooks, active, mods, counters, open, bound, serial, tree, kept,
                 left, recorded, done, verdict, note>>

(* get_subu_elem(loc) || get_subu_elem2(rng) *)
FindUse(loc, finish) ==
  IF GetElem(mods, loc) # {} THEN GetElem(mods, loc)
  ELSE GetElem2(mods, loc, finish)

(* check_expr: an operand or a call's argument is replaced.  The loops of  *)
(* check_expr go on when an earlier step set active to 0.                  *)
CheckExpr(s, loc, finish) ==
  /\ phase = "walk"
  /\ \E i \in FindUse(loc, finish) :
       /\ ShouldBeModded(s, mods.head[i])
       /\ mods' = RemoveElem(mods, i)
       /\ done' = done \cup {Subst(s, i, "sub")}
  /\ tree' = tree \ {s}
  /\ subcount' = subcount + 1
  /\ UNCHANGED <<phase, hooks, active, switchcount, initcount, open, bound,
                 serial, kept, left, recorded, verdict, note>>

(* build_modded_int_declaration for a local const: refused. *)
RefuseConst ==
  /\ active' = 0
  /\ failed' = TRUE
  /\ UNCHANGED <<mods, done, tree, initcount, reported, dropped>>

(* check_expr on a DECL_EXPR of integer type.  What a static one is        *)
(* replaced by begins with the declaration itself and its magic number.    *)
(* If check_expr came to it from its block, the walk will visit it as      *)
(* well ("kept").  A block that is nothing but a static declaration has no *)
(* statement list; the if statement built for the static is then stored in *)
(* a local variable of check_expr and lost ("lost").                       *)
CheckDecl(s, loc, finish) ==
  /\ phase = "walk"
  /\ \E i \in FindUse(loc, finish) :
       /\ ShouldBeModded(s, mods.head[i])
       /\ \/ RefuseConst /\ UNCHANGED kept
          \/ \E kind \in {"init", "kept", "lost"} :
               /\ kind = "kept" => "static_again" \in Quirks
               /\ kind = "lost" => "block_static" \in Quirks
               /\ mods' = RemoveElem(mods, i)
               /\ done' = done \cup {Subst(s, i, kind)}
               /\ tree' = IF kind = "lost" THEN tree ELSE tree \ {s}
               /\ kept' = IF kind = "kept" THEN kept \cup {s} ELSE kept
               /\ initcount' = initcount + 1
               /\ UNCHANGED <<active, verdict>>
  /\ UNCHANGED <<phase, hooks, switchcount, subcount, open, bound, serial,
                 left, recorded, note>>

(* ... when the walk comes to it after it was replaced in its block: a     *)
(* record of another use goes for the same magic number.  walk_tree visits *)
(* no tree twice, so this is the last time.                                *)
CheckKept(s, loc, finish) ==
  /\ phase = "walk"
  /\ \E i \in FindUse(loc, finish) :
       /\ ShouldBeModded(s, mods.head[i])
       /\ mods' = RemoveElem(mods, i)
       /\ done' = done \cup {Subst(s, i, "init")}
  /\ kept' = kept \ {s}
  /\ initcount' = initcount + 1
  /\ UNCHANGED <<phase, hooks, active, switchcount, subcount, open, bound,
                 serial, tree, left, recorded, verdict, note>>

(* check_usage at an expression that starts at loc, after a declaration    *)
(* kept in ctx->prev: a record before loc must be that declaration's.      *)
MissedDecl(loc) ==
  /\ phase = "walk"
  /\ Pending
  /\ Before2(mods.start, loc)

(* ... of an integer: the first record on the list's first line is tried,  *)
(* and after a substitution nothing may be left before loc.  A static one  *)
(* is not kept for this: it got into ctx->prev when it was visited.  One   *)
(* that is kept is not tried: its guard takes its place in ctx->prev.      *)
RetryInt(s, loc) ==
  /\ MissedDecl(loc)
  /\ \E i \in GetElem(mods, mods.start) :
       /\ ShouldBeModded(s, mods.head[i])
       /\ \/ RefuseConst
          \/ /\ ClearContext(RemoveElem(mods, i), loc)
             /\ done' = done \cup {Subst(s, i, "init")}
             /\ tree' = tree \ {s}
             /\ initcount' = initcount + 1
  /\ UNCHANGED <<phase, hooks, switchcount, subcount, open, bound, serial,
                 kept, left, recorded, note>>

(* ... of a struct or an array: set_values_based_on_ctor for a static one, *)
(* modify_local_struct_ctor for an automatic one.  Its elements are some   *)
(* of the function's; the loop goes on while records precede the bound.    *)
RetryElement(s, loc) ==
  /\ \/ MissedDecl(loc)
     \/ phase = "retry" /\ bound = loc /\ Before2(mods.start, loc)
  /\ phase' = "retry"
  /\ bound' = loc
  /\ \E i \in ElementRecord(s) :
       /\ mods' = RemoveElem(mods, i)
       /\ done' = done \cup {Subst(s, i, "init")}
  /\ tree' = tree \ {s}
  /\ initcount' = initcount + 1
  /\ UNCHANGED <<hooks, active, switchcount, subcount, open, serial, kept, left,
                 recorded, verdict, note>>

RetryEnd ==
  /\ phase = "retry"
  /\ phase' = "walk"
  /\ bound' = NULL
  /\ ClearContext(mods, bound)
  /\ UNCHANGED <<hooks, counters, open, serial, tree, kept, left, recorded,
                 done, note>>

(* build_modded_switch_stmt, modded_case_label: a switch is rewritten when *)
(* it has a label on a line with a record, and the first record of the     *)
(* line is the label's.  Its labels are not counted as substitutions.      *)
(* Like check_expr this comes after the test of active, which a declared   *)
(* const refused at the same statement may have cleared.                   *)
CaseLabel(s, loc, entering) ==
  /\ phase = "walk"
  /\ entering \/ open > 0
  /\ \E i \in GetElem(mods, loc) :
       /\ ElementModded(s, mods.head[i])
       /\ mods' = RemoveElem(mods, i)
       /\ done' = done \cup {Subst(s, i, "case")}
  /\ tree' = tree \ {s}
  /\ open' = IF entering THEN open + 1 ELSE open
  /\ UNCHANGED <<phase, hooks, active, counters, bound, serial, kept, left,
                 recorded, verdict, note>>

(* The walk over the rewritten switch is finished. *)
SwitchEnd_Again ==   \* fault: the switch is found, and walked, again
  /\ phase = "walk"
  /\ open > 0
  /\ UNCHANGED vars

SwitchEnd ==
  /\ phase = "walk"
  /\ open > 0
  /\ open' = open - 1
  /\ switchcount' = switchcount + 1
  /\ UNCHANGED <<phase, hooks, active, mods, initcount, subcount, bound,
                 serial, tree, kept, left, recorded, done, verdict, note>>

(* The walk is over. *)
WalkEnd ==
  /\ phase = "walk"
  /\ open = 0
  /\ ClearContext(mods, MAX_LOCATION_T)
  /\ Leave(tree)
  /\ UNCHANGED <<hooks, counters, open, bound, serial, recorded, done, note>>

-----------------------------------------------------------------------------
(* handle_finish_tu, deactivate_macro_check *)
HandleFinishTu ==
  /\ phase = "parse"
  /\ ClearRecords(mods, MAX_LOCATION_T)
  /\ phase' = "unit_done"
  /\ define' = RemoveHook(define)
  /\ used' = RemoveHook(used)
  /\ active' = 0
  /\ actually' = "identity"
  /\ left' = left \cup tree
  /\ tree' = {}
  /\ UNCHANGED <<lang, given, defs, counters, open, bound, serial, kept,
                 recorded, done, note>>

(* handle_finish, cleanup_context.  PLUGIN_FINISH_UNIT does not precede it *)
(* when gcc stops after the parser (errors, -fsyntax-only).                *)
HandleFinish ==
  /\ phase \in {"parse", "unit_done"}
  /\ LET errors == Reported(mods, MAX_LOCATION_T)
     IN  /\ failed' = (failed \/ errors # {})
         /\ reported' = reported \cup {n.use : n \in errors}
         /\ active' = IF errors = {} THEN 1 ELSE 0
  /\ mods' = NULL
  /\ phase' = "end"
  /\ note' = [switches |-> switchcount, inits |-> initcount, subs |-> subcount]
  /\ switchcount' = 0 /\ initcount' = 0 /\ subcount' = 0
  /\ left' = left \cup tree
  /\ tree' = {}
  /\ UNCHANGED <<hooks, open, bound, serial, kept, recorded, done, dropped>>

Terminated == phase \in {"end", "refused"} /\ UNCHANGED vars

-----------------------------------------------------------------------------
SiteOrNull == tree \cup {NULL}

Preprocess ==
  \/ \E d \in Definition : CheckMacroDefine(d)
  \/ \E d \in defs, loc \in Locations, c \in Copies, shape \in Shapes,
        hit \in Names \cup {NULL} :
       <<d.arg, hit>> \in Readings /\ MacroUse(d, loc, c, hit, shape)
  \/ \E hit \in Names, shape \in Shapes \ {"unfolded"} :
       <<NULL, hit>> \in Readings /\ Literal(hit, shape)

Declare ==
  \/ OtherUnit
  \/ DeclTooEarly
  \/ \E s \in SiteOrNull, readonly \in BOOLEAN : DeclScalar(s, readonly)
  \/ DeclAggregate
  \/ \E s \in tree : SetValue(s)
  \/ DeclEnd

Walk ==
  \/ HandlePreGenericize
  \/ \E s \in tree, loc, finish \in Locations : CheckExpr(s, loc, finish)
  \/ \E s \in tree, loc, finish \in Locations : CheckDecl(s, loc, finish)
  \/ \E s \in kept, loc, finish \in Locations : CheckKept(s, loc, finish)
  \/ \E s \in tree, loc \in Locations : RetryInt(s, loc)
  \/ \E s \in tree, loc \in Locations : RetryElement(s, loc)
  \/ RetryEnd
  \/ \E s \in tree, loc \in Locations, e \in BOOLEAN : CaseLabel(s, loc, e)
  \/ SwitchEnd
  \/ WalkEnd

Next ==
  \/ PluginInit
  \/ HandleStartTu
  \/ Preprocess
  \/ Declare
  \/ Walk
  \/ HandleFinishTu
  \/ HandleFinish
  \/ Terminated

Spec == Init /\ [][Next]_vars

(* The source is finite and the compiler keeps going: it parses, walks,    *)
(* and at last finishes.                                                   *)
Fairness ==
  /\ WF_vars(Next)
  /\ SF_vars(HandleFinishTu \/ HandleFinish)

FairSpec == Spec /\ Fairness

-----------------------------------------------------------------------------
(* Type invariant. *)

(* ctx->mods is allocated: after plugin_init, until cleanup_context. *)
Allocated == phase \notin {"start", "refused", "end"}

ListOK(list) ==
  /\ list.head \in Seq(Node(Names))
  /\ list = Recount(list.head)

Note == [switches : Nat, inits : Nat, subs : Nat]

(* Every variable has its type; the fields that recount_subu_list caches   *)
(* agree with the nodes (src/src/subcontext.cc:53-73).                     *)
TypeOK ==
  /\ phase \in Phases
  /\ lang \in Langs
  /\ define \in {"none", "ours", "other"}
  /\ used \in {"none", "ours", "other"}
  /\ given \in Hooks
  /\ actually \in {"foreign", "tmp", "identity"}
  /\ defs \subseteq Definition
  /\ active \in {0, 1}
  /\ IF Allocated THEN ListOK(mods) ELSE mods = NULL
  /\ switchcount \in Nat /\ initcount \in Nat /\ subcount \in Nat
  /\ open \in Nat
  /\ IF phase = "retry" THEN bound \in Locations ELSE bound = NULL
  /\ serial \in 0..MaxUses
  /\ tree \subseteq Site /\ left \subseteq Site
  /\ IF phase \in {"walk", "retry"} THEN kept \subseteq Site ELSE kept = {}
  /\ recorded \subseteq Nat /\ reported \subseteq Nat /\ dropped \subseteq Nat
  /\ done \subseteq Substitution
  /\ failed \in BOOLEAN
  /\ IF phase = "end" THEN note \in Note ELSE note = NULL

-----------------------------------------------------------------------------
(* Safety. *)

PendingUses == IF Allocated THEN UsesIn(mods) ELSE {}
Substituted == {d.node.use : d \in done}

(* Every recorded use is in exactly one place: still in the list, or used  *)
(* up by exactly one substitution, or reported, or dropped by the same     *)
(* check that reported another (check_empty_subu_list,                     *)
(* src/src/subcontext.cc:182-198).  No record is lost, used twice, or      *)
(* dropped without an error.                                               *)
Accounting ==
  /\ recorded \subseteq 1..serial
  /\ recorded = PendingUses \cup Substituted \cup reported \cup dropped
  /\ PendingUses \cap (Substituted \cup reported \cup dropped) = {}
  /\ Substituted \cap (reported \cup dropped) = {}
  /\ reported \cap dropped = {}
  /\ \A d, e \in done : d.node.use = e.node.use => d = e
  /\ Allocated => \A i, j \in DOMAIN mods.head :
                     mods.head[i].use = mods.head[j].use => i = j
  /\ dropped # {} => reported # {}
  /\ reported # {} => failed

Parsing == phase \in {"parse", "decl", "walk", "retry"}

(* Once a definition with ` ACTUALLY(` has been met, uses are recorded as  *)
(* long as no error was raised: the plugin is active and its hook is the   *)
(* one installed.  This is also the comment on SubContext.active ("if      *)
(* zero, it means we haven't started or something went wrong somewhere",   *)
(* src/src/subcontext.h:61-62), and README.md:52 ("activates upon finding  *)
(* a ` ACTUALLY(`").  active is written in seven places, once by every     *)
(* check_context_clear.                                                    *)
RecordingOn ==
  Parsing /\ lang = "C" /\ ~ failed /\ (\E d \in defs : Mentions(d))
    => active = 1 /\ used = "ours"

(* The plugin leaves the preprocessor as it found it at the end of the     *)
(* unit: its hooks are gone, those of others are untouched, and ACTUALLY   *)
(* is the identity (deactivate_macro_check, src/src/macro.cc:94-108).      *)
HooksRestored ==
  phase = "unit_done" =>
    /\ <<define, used>> = given
    /\ actually = "identity"
    /\ active = 0

CaseSubsts == {d \in done : d.kind = "case"}

(* The counts of the final notes: every substitution but that of a case    *)
(* label is counted once, although handle_decl counts before it looks and  *)
(* the walk counts after (src/src/initstruct/global.cc:121,                *)
(* src/src/ast.cc:31,66,107, src/src/initstruct/local.cc:273).             *)
CountersAgree ==
  ~ failed =>
    LET counted == Cardinality(done \ CaseSubsts)
    IN  /\ phase \in {"parse", "walk", "retry", "unit_done"} =>
             initcount + subcount = counted
        /\ phase = "decl" => initcount + subcount = counted + mods.count
        /\ phase = "end" => note.inits + note.subs = counted

(* The tests on the cached bounds by which check_usage skips expressions   *)
(* (src/src/ast.cc:243-244) hide no record: whatever the walk finds        *)
(* through FindUse passes one of them.  This is why FindUse alone is the   *)
(* guard of CheckExpr and CheckDecl.  The bounds are written by six        *)
(* functions, and go wrong when one of them does not recount.              *)
FilterComplete ==
  Allocated =>
    \A loc, finish \in Locations :
      FindUse(loc, finish) # {} =>
        ValidBounds(mods, loc, finish) \/ LocInBound(mods, loc)

(* A compilation that ends without an error has replaced every magic       *)
(* number that came from a macro, each by the macro's own variable, and    *)
(* has replaced nothing else (README.md:63-75), if it is a CleanSource.    *)
Sound ==
  phase = "end" /\ ~ failed =>
    /\ \A s \in left : s.macro = NULL
    /\ \A d \in done : d.site.macro = d.node.name

(* ... which holds for the sources the plugin is meant for: each use       *)
(* leaves at most one constant, no value collides with a magic number of   *)
(* another origin, the definitions have the documented form, nobody else   *)
(* holds the hooks, and none of AllQuirks happens.  No condition can go:   *)
(* Sound is false of a source with one static integer in a block and       *)
(* another use of its macro in reach of it ("static_again"), and of one    *)
(* with a block that is only a static ("block_static").                    *)
CleanSource ==
  /\ Copies \subseteq {0, 1}
  /\ \A r \in Readings : r[2] \in {r[1], NULL}
  /\ "nospace" \notin Forms
  /\ Hooks = {<<"none", "none">>}
  /\ Quirks = {}

-----------------------------------------------------------------------------
(* Liveness: every recorded use is settled, one way or the other.          *)
Settles == \A u \in 1..MaxUses : u \in PendingUses ~> u \notin PendingUses

-----------------------------------------------------------------------------
(* The plugin keeps the promise of MacroLedger. *)

Status(u) ==
  CASE u \in PendingUses -> "pending"
    [] u \in Substituted -> "substituted"
    [] u \in reported    -> "reported"
    [] u \in dropped     -> "dropped"
    [] OTHER             -> "unseen"

Ledger == INSTANCE MacroLedger
            WITH Uses     <- 1..MaxUses,
                 status   <- [u \in 1..MaxUses |-> Status(u)],
                 finished <- phase = "end"

(* Every step of the plugin is a step of the ledger, or changes nothing    *)
(* the ledger tells.                                                       *)
ImplementsLedger == Ledger!Spec

=============================================================================
