---------------------------- MODULE FunctionBody ----------------------------
(***************************************************************************)
(* A function body as the plugin's walk sees it, and which bodies the      *)
(* plugin is meant for.                                                    *)
(*                                                                         *)
(* A body is the sequence of its nodes in the order in which gcc's         *)
(* walk_tree visits them, which is not that of the source: a block's       *)
(* initialisers come before its statements, the condition of a do loop     *)
(* before its body.  (The nodes without a location, and those the plugin   *)
(* builds itself, are visited too: nothing happens there.)                 *)
(***************************************************************************)
EXTENDS SubuList, FiniteSets

CONSTANTS
  Names,      \* the macros
  NULL,
  Bodies      \* the functions considered: [nodes, records, from]

(* Nodes:                                                                  *)
(*   "decl"     DECL_EXPR of type "int", "aggregate" or "pointer".  init   *)
(*              has its constants, none if there is no initialiser         *)
(*   "block"    BIND_EXPR; ops are its statements                          *)
(*   "control"  IF_STMT, FOR_STMT, WHILE_STMT, DO_STMT; ops are expressions*)
(*              and blocks                                                 *)
(*   "expr"     any other expression with its operands                     *)
(* An operand is <<"node", j>>, a node further on, or <<"leaf", m>>, a     *)
(* constant: that of macro m, or a different one (NULL).  An init that is  *)
(* not a constant is EXPR.                                                 *)
EXPR == "expr"

Operands == ({"node"} \X Nat) \cup ({"leaf"} \X (Names \cup {NULL}))

TreeNode ==
  [kind : {"decl"}, type : {"int", "aggregate", "pointer"}, static : BOOLEAN,
   const : BOOLEAN, init : Seq(Names \cup {NULL, EXPR}), ops : Seq(Operands),
   loc : Location, finish : Location]
  \cup
  [kind : {"block", "control", "expr"}, ops : Seq(Operands),
   loc : Location, finish : Location]

(* The constants of a body that stand for a macro: a node, and which of    *)
(* its initial values or operands.                                         *)
Given(n, i) == IF n.kind = "decl" THEN n.init[i]
               ELSE IF n.ops[i][1] = "leaf" THEN n.ops[i][2] ELSE NULL

Places(n) == IF n.kind = "decl" THEN DOMAIN n.init ELSE DOMAIN n.ops

Consts(b) ==
  UNION {{<<j, i>> : i \in {i \in Places(b.nodes[j]) : Given(b.nodes[j], i) \in Names}}
         : j \in DOMAIN b.nodes}

ConstsOf(b, m)  == {s \in Consts(b) : Given(b.nodes[s[1]], s[2]) = m}
RecordsOf(b, m) == {i \in DOMAIN b.records : b.records[i].name = m}

ASSUME NamesAssumption == {NULL, EXPR} \cap Names = {} /\ NULL \notin Nat

(* Operands are visited later than what they are operands of.  Every       *)
(* constant of a macro comes from a recorded use of its own.               *)
ASSUME BodiesAssumption ==
  \A b \in Bodies :
    /\ b.nodes \in Seq(TreeNode) /\ b.records \in Seq(Node(Names))
    /\ \A j \in DOMAIN b.nodes : \A i \in DOMAIN b.nodes[j].ops :
         b.nodes[j].ops[i][1] = "node" => b.nodes[j].ops[i][2] \in (j + 1)..Len(b.nodes)
    /\ \A m \in Names :
         /\ IsFiniteSet(ConstsOf(b, m))
         /\ Cardinality(ConstsOf(b, m)) <= Cardinality(RecordsOf(b, m))

-----------------------------------------------------------------------------
(* Plain bodies.                                                           *)
(*                                                                         *)
(* The uses are numbered as they are recorded.  b.from[j] says what the    *)
(* source has of them in node j: for each of its initial values or         *)
(* operands the number of the first use in it or behind it, and at last    *)
(* that of the first use behind the node.  It is <<>> for a statement that *)
(* is spread over lines, or whose parts are not in the source's order.     *)

Marked(b, j) == b.from[j] # <<>>
Starts(b, j) == b.from[j][1]
Ends(b, j)   == b.from[j][Len(b.from[j])]

Items(n) == IF n.kind = "decl" THEN n.init ELSE n.ops

SubNode(n, i) == n.kind # "decl" /\ n.ops[i][1] = "node"

(* The uses are in the node in the order in which it is searched. *)
Ordered(b, j) ==
  LET n == b.nodes[j]
      f == b.from[j]
  IN  /\ n.kind # "control"
      /\ DOMAIN f = 1..(Len(Items(n)) + 1)
      /\ \A h, i \in DOMAIN f : h <= i => f[h] <= f[i]
      /\ \A i \in Places(n) :
           \/ /\ Given(n, i) \in Names
              /\ f[i] \in DOMAIN b.records /\ b.records[f[i]].name = Given(n, i)
              /\ f[i + 1] = f[i] + 1
           \/ /\ SubNode(n, i) /\ Marked(b, n.ops[i][2])
              /\ f[i] = Starts(b, n.ops[i][2]) /\ f[i + 1] = Ends(b, n.ops[i][2])
           \/ /\ Given(n, i) \notin Names /\ ~ SubNode(n, i)
              /\ f[i + 1] = f[i]

(* Use u is in node j. *)
Holds(b, j, u) ==
  /\ Marked(b, j)
  /\ IF b.nodes[j].kind = "decl"
       THEN \E i \in DOMAIN b.nodes[j].init :
              b.nodes[j].init[i] \in Names /\ b.from[j][i] = u
       ELSE Starts(b, j) <= u /\ u < Ends(b, j)

Uses(b, j) == {u \in DOMAIN b.records : Holds(b, j, u)}

(* A use has left one constant. *)
OneSite(b) ==
  \A j, k \in DOMAIN b.nodes :
    \A i \in Places(b.nodes[j]) : \A h \in Places(b.nodes[k]) :
      /\ Marked(b, j) /\ Given(b.nodes[j], i) \in Names
      /\ Marked(b, k) /\ Given(b.nodes[k], h) \in Names
      /\ b.from[j][i] = b.from[k][h]
      => j = k /\ i = h

(* A visit of node j looks at use u: it is on the lines of the node. *)
Reaches(b, j, u) ==
  LET n == b.nodes[j]
      l == b.records[u].loc
  IN  Approx(l, n.loc) \/ (Before(n.loc, l) /\ After(n.finish, l))

(* It is in a node that is visited before. *)
Earlier(b, j, u) == \E k \in 1..(j - 1) : Holds(b, k, u)

(* A visit of node j looks at all of its uses, and at no other before them. *)
InReach(b, j) ==
  \A u \in Uses(b, j) :
    /\ Reaches(b, j, u)
    /\ \A v \in 1..(u - 1) : Reaches(b, j, v) => Holds(b, j, v) \/ Earlier(b, j, v)

(* It looks at no use. *)
Quiet(b, j) == \A u \in DOMAIN b.records : Reaches(b, j, u) => Earlier(b, j, u)

(* When the node after declaration j is visited, no use is before it but   *)
(* for those of the declaration, and these are.                            *)
Due(b, j) ==
  /\ j < Len(b.nodes)
  /\ \A u \in DOMAIN b.records :
       IF Holds(b, j, u) THEN Before2(b.records[u].loc, b.nodes[j + 1].loc)
       ELSE Before2(b.records[u].loc, b.nodes[j + 1].loc) => Earlier(b, j, u)

PlainExpr(b, j) ==
  LET n == b.nodes[j]
  IN  /\ Marked(b, j) /\ InReach(b, j)
      /\ \A i \in DOMAIN n.ops : SubNode(n, i) => b.nodes[n.ops[i][2]].kind = "expr"

(* In a block with a use on its line: an integer, whose initial value is   *)
(* no literal.  A static one is visited twice.                             *)
PlainInBlock(b, p, j) ==
  LET n == b.nodes[j]
  IN  /\ n.type = "int" /\ n.init # <<>> /\ n.init[1] \in Names \cup {EXPR}
      /\ n.static /\ n.init[1] \in Names =>
           /\ Len(b.nodes[p].ops) # 1
           /\ \A u \in DOMAIN b.records :
                Reaches(b, j, u) /\ b.records[u].name = n.init[1] =>
                  Holds(b, j, u) \/ Earlier(b, j, u)

(* There is no use on a block's line, or all of the block is on it.  No    *)
(* statement is a macro alone.                                             *)
PlainBlock(b, j) ==
  LET n == b.nodes[j]
  IN  IF ~ Marked(b, j) THEN Quiet(b, j)
      ELSE /\ InReach(b, j)
           /\ \A i \in DOMAIN n.ops :
                \/ Given(n, i) \notin Names /\ ~ SubNode(n, i)
                \/ /\ SubNode(n, i)
                   /\ \/ b.nodes[n.ops[i][2]].kind \in {"expr", "block"}
                      \/ /\ b.nodes[n.ops[i][2]].kind = "decl"
                         /\ PlainInBlock(b, j, n.ops[i][2])
           /\ \A k \in 1..(j - 1) : Uses(b, k) \cap Uses(b, j) # {} =>
                b.nodes[k].kind = "block" /\ Uses(b, j) \subseteq Uses(b, k)

(* A declaration is behind what comes before it.  Its uses are on its line *)
(* or, not too far from it, before the next node.                          *)
PlainDecl(b, j) ==
  LET n == b.nodes[j]
  IN  /\ Marked(b, j)
      /\ Uses(b, j) # {} =>
           \/ n.type = "int" /\ ~ n.const /\ InReach(b, j)
           \/ /\ n.type = "int" /\ ~ n.const /\ Due(b, j)
              /\ b.records[Starts(b, j)].loc.line - n.loc.line < 20
           \/ n.type = "aggregate" /\ Due(b, j)
      /\ n.type = "int" => Len(n.init) <= 1
      /\ n.type = "int" /\ n.init = <<>> => Quiet(b, j)
      /\ n.type = "aggregate" /\ n.static /\ n.init # <<>> => Uses(b, j) # {}
      /\ n.init # <<>> => \A u \in DOMAIN b.records :
                            Before2(n.loc, b.records[u].loc) \/ Earlier(b, j, u)

PlainNode(b, j) ==
  LET kind == b.nodes[j].kind
  IN  /\ Marked(b, j) => Ordered(b, j)
      /\ kind = "expr" => PlainExpr(b, j)
      /\ kind = "block" => PlainBlock(b, j)
      /\ kind = "decl" => PlainDecl(b, j)

(* What the plugin is meant for: every use is in an expression or a        *)
(* declaration as a constant of its own, and those are laid out such that  *)
(* the next use on their lines is theirs.                                  *)
Plain(b) ==
  /\ b.from \in [DOMAIN b.nodes -> Seq(Nat)]
  /\ \A u \in DOMAIN b.records :
       /\ b.records[u].use = u
       /\ \A v \in 1..u : Before2(b.records[v].loc, b.records[u].loc)
       /\ \E j \in DOMAIN b.nodes : Holds(b, j, u)
  /\ OneSite(b)
  /\ \A j \in DOMAIN b.nodes : PlainNode(b, j)

=============================================================================
