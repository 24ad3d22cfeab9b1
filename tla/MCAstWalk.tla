------------------------------ MODULE MCAstWalk ------------------------------
(***************************************************************************)
(* Instances of AstWalk for TLC: functions of up to MaxParts statements,   *)
(* laid out one after the other on lines of their own.                     *)
(***************************************************************************)
EXTENDS AstWalk, SequencesExt

CONSTANTS
  ONE, TWO,      \* macros
  MaxParts       \* bound: statements of a function, besides its return

L(l, c) == [line |-> l, col |-> c]

DeclAt(type, l, c, static, init) ==
  [kind |-> "decl", type |-> type, static |-> static, const |-> FALSE,
   init |-> init, ops |-> <<>>, loc |-> L(l, c), finish |-> L(l, c)]

Decl(type, l, static, init) == DeclAt(type, l, 3, static, init)

Node_(kind, loc, finish, ops) ==
  [kind |-> kind, loc |-> loc, finish |-> finish, ops |-> ops]

Expr(l, c, ops)    == Node_("expr", L(l, c), L(l, c + 8), ops)
Block(l, c, ops)   == Node_("block", L(l, c), L(l, c), ops)
Control(l, ops)    == Node_("control", L(l, 1), L(l, 1), ops)
Leaf(m)            == <<"leaf", m>>
Sub(j)             == <<"node", j>>      \* counted from the part's first node
Rec(l, c, m)       == <<L(l, c), m>>

(* A statement of the source from line l on: the nodes that are visited    *)
(* with the block's variables, those visited with its statements (the      *)
(* first is the statement), the records and the number of lines.           *)
Part(hoisted, nodes, recs, lines) ==
  [hoisted |-> hoisted, nodes |-> nodes, recs |-> recs, lines |-> lines]

(* type v = X; with X some lines further on *)
Declare(type, static, gap, init, l) ==
  Part(<<>>, <<Decl(type, l, static, init)>>,
       [i \in DOMAIN SelectSeq(init, LAMBDA m : m \in Names) |->
          Rec(l + gap, 5 + i, SelectSeq(init, LAMBDA m : m \in Names)[i])],
       gap + 1)

(* int v = g(X); *)
DeclareCall(m, l) ==
  Part(<<Expr(l, 5, <<Leaf(m)>>)>>, <<Decl("int", l, FALSE, <<EXPR>>)>>,
       <<Rec(l, 7, m)>>, 1)

(* f(7, X); *)
Call(m, l) == Part(<<>>, <<Expr(l, 1, <<Leaf(NULL), Leaf(m)>>)>>, <<Rec(l, 3, m)>>, 1)

(* f(X, g(Y)) over two lines *)
Nested(m, n, l) ==
  Part(<<>>, <<Node_("expr", L(l, 1), L(l + 1, 9), <<Leaf(m), Sub(2)>>),
               Expr(l + 1, 2, <<Leaf(n)>>)>>,
       <<Rec(l, 3, m), Rec(l + 1, 4, n)>>, 2)

(* do { f(X); g(); } while (a && b == Y); *)
DoWhile(m, n, l) ==
  Part(<<>>, <<Control(l, <<Sub(2), Sub(4)>>),
               Expr(l + 3, 10, <<Leaf(NULL), Sub(3)>>),
               Node_("expr", L(l + 3, 15), L(l + 3, 18), <<Leaf(n)>>),
               Block(l, 4, <<Sub(5), Sub(6)>>),
               Expr(l + 1, 1, <<Leaf(m)>>), Expr(l + 2, 1, <<Leaf(NULL)>>)>>,
       <<Rec(l + 1, 3, m), Rec(l + 3, 17, n)>>, 4)

(* for (i = 0; i < X; i++) f(Y); *)
ForLoop(m, n, l) ==
  Part(<<>>, <<Control(l, <<Sub(2), Sub(3), Sub(4), Sub(5)>>),
               Expr(l, 6, <<Leaf(NULL)>>), Expr(l, 13, <<Leaf(m)>>),
               Expr(l, 20, <<Leaf(NULL)>>), Expr(l + 1, 3, <<Leaf(n)>>)>>,
       <<Rec(l, 17, m), Rec(l + 1, 5, n)>>, 2)

(* { int v = g(X); static int w = ... Y; } *)
InBlock(m, n, l) ==
  Part(<<>>, <<Block(l, 1, <<Sub(3), Sub(4), Sub(5)>>), Expr(l + 1, 5, <<Leaf(m)>>),
               Decl("int", l + 1, FALSE, <<EXPR>>), Decl("int", l + 2, TRUE, <<n>>),
               Expr(l + 4, 1, <<Leaf(NULL)>>)>>,
       <<Rec(l + 1, 7, m), Rec(l + 3, 1, n)>>, 5)

(* { { static int v = X; f(); } } g(Y); and, if it is not in two blocks,   *)
(* { static int v = X; f(); } g(Y);                                        *)
StaticInBlock(m, n, two, l) ==
  LET outer == IF two THEN <<Block(l, 1, <<Sub(2), Sub(5)>>)>> ELSE <<>>
      k     == Len(outer)
  IN  Part(<<>>, outer \o
           <<Block(l, 2, <<Sub(k + 2), Sub(k + 3)>>), Decl("int", l, TRUE, <<m>>),
             Expr(l, 20, <<Leaf(NULL)>>)>>
           \o (IF two THEN <<Expr(l, 30, <<Leaf(NULL)>>)>> ELSE <<>>)
           \o <<Expr(l, 40, <<Leaf(n)>>)>>,
           <<Rec(l, 15, m), Rec(l, 42, n)>>, 1)

(* { f(X); int v = Y; { g(); static int w = X; } } h(Y); *)
Braces(m, n, l) ==
  Part(<<>>, <<Block(l, 1, <<Sub(2), Sub(3), Sub(4)>>), Expr(l, 3, <<Leaf(m)>>),
               DeclAt("int", l, 20, FALSE, <<n>>), Block(l, 40, <<Sub(5), Sub(6)>>),
               Expr(l, 42, <<Leaf(NULL)>>), DeclAt("int", l, 60, TRUE, <<m>>),
               Expr(l, 80, <<Leaf(n)>>)>>,
       <<Rec(l, 5, m), Rec(l, 30, n), Rec(l, 70, m), Rec(l, 82, n)>>, 1)

(* f(X); g(Y); *)
TwoCalls(m, n, l) ==
  Part(<<>>, <<Expr(l, 1, <<Leaf(m)>>), Expr(l, 11, <<Leaf(n)>>)>>,
       <<Rec(l, 3, m), Rec(l, 13, n)>>, 1)

(* int v = X, w = g(Y); *)
TwoDecls(m, n, l) ==
  Part(<<Expr(l, 15, <<Leaf(n)>>)>>,
       <<Decl("int", l, FALSE, <<m>>), Decl("int", l, FALSE, <<EXPR>>)>>,
       <<Rec(l, 5, m), Rec(l, 17, n)>>, 1)

(* g(X + 42): the constant is folded and cannot be found *)
Folded(m, l) == Part(<<>>, <<Expr(l, 1, <<Leaf(NULL)>>)>>, <<Rec(l, 3, m)>>, 1)

(* int i, j = X; *)
Pair(m, l) ==
  Part(<<>>, <<Decl("int", l, FALSE, <<>>), Decl("int", l, FALSE, <<m>>)>>,
       <<Rec(l, 9, m)>>, 1)

(* const int v = X; *)
Constant(m, l) ==
  Part(<<>>, <<[Decl("int", l, FALSE, <<m>>) EXCEPT !.const = TRUE]>>, <<Rec(l, 5, m)>>, 1)

(* { int i = X; int j = 5; } *)
OneLine(m, l) ==
  Part(<<>>, <<Block(l, 1, <<Sub(2), Sub(3)>>), Decl("int", l, FALSE, <<m>>),
               DeclAt("int", l, 15, FALSE, <<NULL>>)>>,
       <<Rec(l, 5, m)>>, 1)

PlainParts(l) ==
  {Declare("int", s, gap, <<m>>, l) :
     s \in BOOLEAN, gap \in {0, 1, 19}, m \in {ONE}}
  \cup {Declare("aggregate", s, gap, <<ONE, NULL, TWO>>, l) :
          s \in BOOLEAN, gap \in {0, 1}}
  \cup {Declare("int", FALSE, 0, <<>>, l), Declare("pointer", FALSE, 0, <<NULL>>, l),
        Declare("aggregate", FALSE, 0, <<NULL, NULL>>, l)}
  \cup {DeclareCall(TWO, l), Call(ONE, l), Nested(ONE, TWO, l), Nested(ONE, ONE, l),
        DoWhile(ONE, TWO, l), ForLoop(TWO, ONE, l), InBlock(ONE, TWO, l),
        StaticInBlock(ONE, TWO, TRUE, l), Braces(ONE, TWO, l), TwoCalls(ONE, TWO, l)}

OddParts(l) ==
  {Declare("aggregate", TRUE, 0, <<NULL, NULL>>, l),
   Folded(ONE, l), Constant(ONE, l), Pair(ONE, l), OneLine(ONE, l),
   TwoDecls(ONE, TWO, l)}

-----------------------------------------------------------------------------
(* A function from its parts: a block, the initialisers, the statements    *)
(* and a return. *)
Shift(n, by) ==
  [n EXCEPT !.ops = [i \in DOMAIN @ |->
                       IF @[i][1] = "node" THEN Sub(@[i][2] + by) ELSE @[i]]]

(* A function so far. *)
Start == [hoisted |-> <<>>, nodes |-> <<>>, recs |-> <<>>, line |-> 2]

Join(f, part) ==
  [hoisted |-> f.hoisted \o part.hoisted,
   nodes   |-> f.nodes \o [i \in DOMAIN part.nodes |->
                             Shift(part.nodes[i], Len(f.nodes))],
   recs    |-> f.recs \o part.recs,
   line    |-> f.line + part.lines]

RECURSIVE UpTo(_, _)
UpTo(n, parts) ==
  IF n = 0 THEN {Start}
  ELSE LET fs == UpTo(n - 1, parts)
       IN  fs \cup UNION {{Join(f, p) : p \in parts[f.line]} : f \in fs}

(* The number of uses in operand or initial value i of node j. *)
RECURSIVE Size(_, _, _)
Size(nodes, j, i) ==
  IF Given(nodes[j], i) \in Names THEN 1
  ELSE IF SubNode(nodes[j], i)
    THEN LET k == nodes[j].ops[i][2]
         IN  FoldLeftDomain(LAMBDA sum, h : sum + Size(nodes, k, h), 0, Items(nodes[k]))
    ELSE 0

(* All of node j is on its line. *)
RECURSIVE OneLiner(_, _)
OneLiner(nodes, j) ==
  \A i \in DOMAIN nodes[j].ops : SubNode(nodes[j], i) =>
    LET k == nodes[j].ops[i][2]
    IN  nodes[k].loc.line = nodes[j].loc.line /\ OneLiner(nodes, k)

(* The first use in node j is the first behind its location. *)
From(nodes, records, j) ==
  LET n     == nodes[j]
      first == 1 + Cardinality({u \in DOMAIN records : ~ Before2(n.loc, records[u].loc)})
  IN  IF n.kind = "control" \/ (n.kind = "block" /\ ~ OneLiner(nodes, j)) THEN <<>>
      ELSE FoldLeftDomain(LAMBDA from, i : Append(from, Last(from) + Size(nodes, j, i)),
                          <<first>>, Items(n))

(* The function's own block is on a line of its own. *)
Function(f) ==
  LET h       == Len(f.hoisted)
      all     == f.nodes \o <<Expr(f.line, 1, <<Leaf(NULL)>>)>>
      nodes   == <<Block(1, 1, <<>>)>> \o f.hoisted
                   \o [i \in DOMAIN all |-> Shift(all[i], 1 + h)]
      records == [i \in DOMAIN f.recs |-> [use |-> i, loc |-> f.recs[i][1],
                                           name |-> f.recs[i][2]]]
  IN  [nodes |-> nodes, records |-> records,
       from  |-> [j \in DOMAIN nodes |-> From(nodes, records, j)]]

Lines == 2..(2 + 20 * MaxParts)

FunctionsOf(parts) == {Function(f) : f \in UpTo(MaxParts, parts)}

AnyFunctions == FunctionsOf([l \in Lines |-> PlainParts(l) \cup OddParts(l)])

(* A static in a block, behind which its macro is used again. *)
StaticFunctions == FunctionsOf([l \in Lines |-> {StaticInBlock(ONE, ONE, FALSE, l)}])

(* The functions of statements the plugin is meant for are plain. *)
ASSUME PlainFunctions ==
  \A b \in FunctionsOf([l \in Lines |-> PlainParts(l)]) : Plain(b)

=============================================================================
