------------------------------- MODULE AstWalk -------------------------------
(***************************************************************************)
(* The walk over a function body, step by step: handle_pre_genericize,     *)
(* check_usage and check_expr (src/src/ast.cc) with the declarations of    *)
(* src/src/initstruct/local.cc.  Portcosmo lets the walk find any constant *)
(* near a record; here is what it really looks at, in which order, and     *)
(* what becomes of ctx->prev.                                              *)
(***************************************************************************)
EXTENDS FunctionBody

VARIABLES
  body,       \* DECL_SAVED_TREE
  pos,        \* the node that is visited
  step,       \* where check_usage is: "prev" at its beginning, "retry" in the
              \* loop over ctx->prev, "clear" behind it, "usage" in the rest,
              \* "expr" in check_expr
  calls,      \* the calls that run, of check_expr or for ctx->prev: the node,
              \* which operand its loop is at, and found
  mods,       \* SubContext.mods
  active,     \* SubContext.active
  prev,       \* SubContext.prev: a node, or NULL
  listed,     \* nodes whose place in the tree holds a statement list now
  left,       \* constants <<node, index>> of macros, not yet substituted
  failed,     \* an error was raised
  crashed     \* undefined behaviour: a null or a wrong tree is looked into

tree == <<mods, listed, left>>
vars == <<body, pos, step, calls, tree, active, prev, failed, crashed>>

At(j) == body.nodes[j]

(* handle_pre_genericize: prev is reset. *)
Init ==
  /\ body \in Bodies
  /\ pos = 1 /\ step = "prev" /\ calls = <<>>
  /\ mods = Recount(body.records)
  /\ active = 1
  /\ prev = NULL
  /\ listed = {}
  /\ left = Consts(body)
  /\ failed = FALSE /\ crashed = FALSE

-----------------------------------------------------------------------------
FindUse(loc, finish) ==
  IF GetElem(mods, loc) # {} THEN GetElem(mods, loc) ELSE GetElem2(mods, loc, finish)

(* check_context_clear *)
Clear(start) ==
  LET bad == Reported(mods, start) # {}
  IN  /\ mods' = CheckEmpty(mods, start)
      /\ active' = IF bad THEN 0 ELSE 1
      /\ failed' = (failed \/ bad)

(* Record k is used up for constant i of node j. *)
Substitute(j, i, k) ==
  /\ mods' = RemoveElem(mods, k)
  /\ left' = left \ {<<j, i>>}

(* build_modded_int_declaration, with a record or none.  A variable with   *)
(* no initial value, or no record, is looked into all the same.            *)
NullTree(n, use) ==
  n.type = "int" /\ (n.init # <<>> => n.init[1] # EXPR /\ use = {})

(* arg_should_be_modded on DECL_INITIAL: an automatic variable's is no     *)
(* constant any more once it was replaced.                                 *)
InitAgrees(j, k) ==
  /\ At(j).type = "int" /\ At(j).init # <<>> /\ At(j).init[1] = mods.head[k].name
  /\ At(j).static \/ <<j, 1>> \in left

Fixed(j, use) == ~ At(j).const /\ \E k \in use : InitAgrees(j, k)

(* With inPlace the pointer to the declaration is that of its place in the *)
(* tree; otherwise what a static one is replaced by is lost.               *)
IntDeclaration(j, use, inPlace) ==
  \/ /\ NullTree(At(j), use)
     /\ crashed' = TRUE
     /\ UNCHANGED <<tree, active, failed>>
  \/ /\ ~ NullTree(At(j), use)
     /\ \A k \in use : ~ InitAgrees(j, k)
     /\ UNCHANGED <<tree, active, failed, crashed>>
  \/ /\ At(j).const
     /\ \E k \in use : InitAgrees(j, k)
     /\ active' = 0 /\ failed' = TRUE
     /\ UNCHANGED <<tree, crashed>>
  \/ /\ ~ At(j).const
     /\ \E k \in use :
          /\ InitAgrees(j, k)
          /\ IF At(j).static /\ ~ inPlace
               THEN mods' = RemoveElem(mods, k) /\ left' = left
               ELSE Substitute(j, 1, k)
     /\ listed' = IF At(j).static /\ inPlace THEN listed \cup {j} ELSE listed
     /\ UNCHANGED <<active, failed, crashed>>

-----------------------------------------------------------------------------
Visiting == pos \in DOMAIN body.nodes /\ ~ crashed

NextVisit == pos' = pos + 1 /\ step' = "prev"

(* The rest of the walk is idle: it stops at once at every node. *)
Skip ==
  /\ Visiting /\ step = "prev"
  /\ active = 0 \/ mods.count = 0
  /\ NextVisit
  /\ UNCHANGED <<body, calls, tree, active, prev, failed, crashed>>

Begins == Visiting /\ step = "prev" /\ active # 0 /\ mods.count > 0

(* A record before this node belongs to the declaration in ctx->prev. *)
Missed == prev # NULL /\ Before2(mods.start, At(pos).loc)

NoneMissed ==
  /\ Begins /\ ~ Missed
  /\ step' = "usage"
  /\ UNCHANGED <<body, pos, calls, tree, active, prev, failed, crashed>>

(* build_modded_declaration on what is no declaration any more *)
RetryStale ==
  /\ Begins /\ Missed
  /\ prev \in listed
  /\ crashed' = TRUE
  /\ UNCHANGED <<body, pos, step, calls, tree, active, prev, failed>>

RetryInt ==
  /\ Begins /\ Missed
  /\ prev \notin listed /\ At(prev).type = "int"
  /\ LET use == GetElem(mods, mods.start)
     IN  /\ IntDeclaration(prev, use, TRUE)
         /\ step' = IF Fixed(prev, use) THEN "clear" ELSE "usage"
  /\ UNCHANGED <<body, pos, calls, prev>>

RetryAggregate ==
  /\ Begins /\ Missed
  /\ prev \notin listed /\ At(prev).type # "int"
  /\ step' = "retry"
  /\ calls' = <<[node |-> prev, at |-> 1, found |-> FALSE]>>
  /\ UNCHANGED <<body, pos, tree, active, prev, failed, crashed>>

(* modify_local_struct_ctor and set_values_based_on_ctor replace the first *)
(* element that agrees with a record, as FirstMatch has it.                *)
Agreeing(i) ==
  IF <<prev, i>> \in left
    THEN FirstElem(mods, LAMBDA n : At(prev).init[i] = n.name) ELSE {}

Searching ==
  /\ mods.count > 0 /\ Before2(mods.start, At(pos).loc)
  /\ \E i \in DOMAIN At(prev).init : Agreeing(i) # {}

RetryElement ==
  /\ Visiting /\ step = "retry"
  /\ Searching
  /\ \E i \in DOMAIN At(prev).init : \E k \in Agreeing(i) :
       /\ \A h \in 1..(i - 1) : Agreeing(h) = {}
       /\ Substitute(prev, i, k)
  /\ calls' = [calls EXCEPT ![1].found = TRUE]
  /\ UNCHANGED <<body, pos, step, listed, active, prev, failed, crashed>>

(* The place of a static aggregate is overwritten whether or not anything  *)
(* was found.                                                              *)
RetryEnd ==
  /\ Visiting /\ step = "retry"
  /\ ~ Searching
  /\ listed' = IF At(prev).static THEN listed \cup {prev} ELSE listed
  /\ step' = IF calls[1].found THEN "clear" ELSE "usage"
  /\ calls' = <<>>
  /\ UNCHANGED <<body, pos, mods, left, active, prev, failed, crashed>>

RetryFound_Keep ==       \* fault: prev is kept when it was found
  /\ Visiting /\ step = "clear"
  /\ Clear(At(pos).loc)
  /\ step' = "usage"
  /\ UNCHANGED <<body, pos, calls, listed, left, prev, crashed>>

RetryFound ==
  /\ Visiting /\ step = "clear"
  /\ prev' = NULL
  /\ Clear(At(pos).loc)
  /\ step' = "usage"
  /\ UNCHANGED <<body, pos, calls, listed, left, crashed>>

-----------------------------------------------------------------------------
(* Whether a declaration is kept in ctx->prev. *)
Near_19(n) == mods.start.line - n.loc.line < 19   \* fault: one line less

Near(n) == mods.start.line - n.loc.line < 20

Kept_NoInit(n) ==        \* fault: a declaration without initialiser is kept
  n.kind = "decl" /\ (n.type = "aggregate" \/ (n.type = "int" /\ Near(n)))

Kept(n) ==
  /\ n.kind = "decl" /\ n.init # <<>>
  /\ n.type = "aggregate" \/ (n.type = "int" /\ Near(n))

(* The nodes for which check_usage returns without looking for a record. *)
Returns(n) ==
  \/ n.kind = "control"
  \/ n.kind = "decl" /\ n.type = "pointer"
  \/ n.kind = "decl" /\ n.type = "aggregate" /\ n.init # <<>>

HasUse(n) ==
  /\ ~ Returns(n)
  /\ ValidBounds(mods, n.loc, n.finish) \/ LocInBound(mods, n.loc)
  /\ FindUse(n.loc, n.finish) # {}

(* If a declaration was replaced with its block, its guard is visited next *)
(* and takes its place in ctx->prev: a variable without constants.         *)
CheckUsage ==
  /\ Visiting /\ step = "usage"
  /\ prev' = IF ~ Kept(At(pos)) THEN prev ELSE IF pos \in listed THEN NULL ELSE pos
  /\ \/ /\ HasUse(At(pos))
        /\ step' = "expr"
        /\ calls' = <<[node |-> pos, at |-> 1, found |-> FALSE]>>
        /\ pos' = pos
     \/ /\ ~ HasUse(At(pos))
        /\ NextVisit
        /\ calls' = calls
  /\ UNCHANGED <<body, tree, active, failed, crashed>>

-----------------------------------------------------------------------------
(* check_expr: the call that runs, what it looks at, its caller.           *)
Top    == calls[Len(calls)]
Caller == calls[Len(calls) - 1]
Callers == SubSeq(calls, 1, Len(calls) - 1)

InExpr == Visiting /\ step = "expr"

(* The record the while loop has found.  It stays the same while nothing   *)
(* is substituted.                                                         *)
Use == FindUse(At(pos).loc, At(pos).finish)

(* A call returns; when it has found something, the loop over operands     *)
(* starts again, and the loop over statements goes on.                     *)
Resumed(call, found) ==
  [node  |-> call.node,
   at    |-> IF found /\ At(call.node).kind # "block" THEN 1 ELSE call.at + 1,
   found |-> call.found \/ found]

Return(found) ==
  IF Len(calls) = 1
    THEN calls' = <<>> /\ NextVisit
    ELSE /\ calls' = [Callers EXCEPT ![Len(calls) - 1] = Resumed(@, found)]
         /\ UNCHANGED <<pos, step>>

(* The pointer to a declaration is to its place in the tree but for a      *)
(* block of nothing else.                                                  *)
InPlace == Len(calls) = 1 \/ (At(Caller.node).kind = "block" /\ Len(At(Caller.node).ops) # 1)

ExprDecl ==
  /\ InExpr /\ At(Top.node).kind = "decl"
  /\ IntDeclaration(Top.node, Use, InPlace)
  /\ prev' = IF Fixed(Top.node, Use) THEN NULL ELSE prev
  /\ Return(Fixed(Top.node, Use))
  /\ UNCHANGED body

Looking ==
  /\ InExpr /\ At(Top.node).kind # "decl"
  /\ At(Top.node).kind = "block" \/ Use # {}
  /\ Top.at \in DOMAIN At(Top.node).ops

Operand == At(Top.node).ops[Top.at]

(* A constant that is a statement by itself is no expression (EXPR_P). *)
LeafAgrees ==
  /\ At(Top.node).kind # "block"
  /\ Operand[1] = "leaf" /\ <<Top.node, Top.at>> \in left
  /\ \E k \in Use : Operand[2] = mods.head[k].name

(* A declaration that was replaced is a statement list in its block. *)
Called ==
  /\ Operand[1] = "node"
  /\ ~ (Operand[2] \in listed /\ Len(At(Top.node).ops) # 1)

ExprLeaf ==
  /\ Looking /\ LeafAgrees
  /\ \E k \in Use : Substitute(Top.node, Top.at, k)
  /\ calls' = [calls EXCEPT ![Len(calls)] = [node |-> @.node, at |-> 1, found |-> TRUE]]
  /\ UNCHANGED <<body, pos, step, listed, active, prev, failed, crashed>>

ExprCall ==
  /\ Looking /\ Called
  /\ calls' = Append(calls, [node |-> Operand[2], at |-> 1, found |-> FALSE])
  /\ UNCHANGED <<body, pos, step, tree, active, prev, failed, crashed>>

ExprPass ==
  /\ Looking /\ ~ LeafAgrees /\ ~ Called
  /\ calls' = [calls EXCEPT ![Len(calls)].at = @ + 1]
  /\ UNCHANGED <<body, pos, step, tree, active, prev, failed, crashed>>

ExprEnd ==
  /\ InExpr /\ At(Top.node).kind # "decl" /\ ~ Looking
  /\ Return(Top.found)
  /\ UNCHANGED <<body, tree, active, prev, failed, crashed>>

-----------------------------------------------------------------------------
(* The walk is over: check_context_clear(ctx, MAX_LOCATION_T). *)
Finish ==
  /\ pos = Len(body.nodes) + 1
  /\ ~ crashed
  /\ pos' = pos + 1
  /\ Clear(MAX_LOCATION_T)
  /\ UNCHANGED <<body, step, calls, prev, listed, left, crashed>>

Terminated == (crashed \/ pos = Len(body.nodes) + 2) /\ UNCHANGED vars

Retry == RetryStale \/ RetryInt \/ RetryAggregate \/ RetryElement \/ RetryEnd \/ RetryFound

CheckExpr == ExprDecl \/ ExprLeaf \/ ExprCall \/ ExprPass \/ ExprEnd

Next ==
  \/ Skip
  \/ NoneMissed \/ Retry
  \/ CheckUsage \/ CheckExpr
  \/ Finish
  \/ Terminated

Spec == Init /\ [][Next]_vars

-----------------------------------------------------------------------------
Over == pos = Len(body.nodes) + 2 /\ ~ crashed

TypeOK ==
  /\ pos \in 1..Len(body.nodes) + 2
  /\ step \in {"prev", "retry", "clear", "usage", "expr"}
  /\ calls \in Seq([node : DOMAIN body.nodes, at : Nat, found : BOOLEAN])
  /\ step = "retry" => Len(calls) = 1 /\ calls[1].node = prev /\ prev # NULL
  /\ step = "expr" => Len(calls) > 0 /\ calls[1].node = pos
  /\ step \notin {"retry", "expr"} => calls = <<>>
  /\ \A i \in 2..Len(calls) :    \* for an operand of the caller's
       LET c == calls[i - 1]
       IN  /\ c.at \in DOMAIN At(c.node).ops
           /\ At(c.node).ops[c.at] = <<"node", calls[i].node>>
  /\ mods.head \in Seq(Node(Names)) /\ mods = Recount(mods.head)
  /\ active \in {0, 1}
  /\ prev # NULL => /\ prev \in DOMAIN body.nodes /\ At(prev).kind = "decl"
                    /\ prev < pos \/ (prev = pos /\ step = "expr")
  /\ listed \subseteq {j \in DOMAIN body.nodes : At(j).kind = "decl" /\ At(j).static}
  /\ left \subseteq Consts(body)
  /\ failed \in BOOLEAN /\ crashed \in BOOLEAN

(* A walk that ends without an error has substituted every constant of a   *)
(* macro, whatever could not be found, was folded or was skipped on the    *)
(* way (README.md:74-75: the plugin "errors out ... if it is unable to     *)
(* confirm all the macro usage records were substituted").                 *)
Loud == Over /\ ~ failed => left = {}

(* In a plain body no record is taken for missing: the retry at the next   *)
(* node, the 20 lines and the order of the walk are enough to find them    *)
(* all (README.md:63-66).                                                  *)
AllFound == Over /\ Plain(body) => ~ failed

(* The declaration kept in ctx->prev is still a declaration when a node    *)
(* behind a record is visited (comment at src/src/ast.cc:149-152: "the     *)
(* decl_expr that we have stored in ctx->prev").                           *)
PrevIsDecl == Begins /\ Missed /\ Plain(body) => prev \notin listed

(* The walk of a plain body looks into no null or wrong tree.  (Comment at *)
(* src/src/ast.cc:229-231: a deterministic failure "is better than         *)
(* crashing randomly because we tried to DECL_INITIAL some variable which  *)
(* had no macro substitutions near it".)                                   *)
NoCrash == crashed => ~ Plain(body)

(* The comment at src/src/ast.cc:145-148: when ctx->prev is tried again,   *)
(* "vloc <= ctx->mods->start <= rng.m_start".                              *)
RetryOrder ==
  [][Begins /\ Missed /\ Plain(body) => Before2(At(prev).loc, mods.start)]_vars

=============================================================================
