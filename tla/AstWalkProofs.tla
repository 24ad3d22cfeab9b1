---------------------------- MODULE AstWalkProofs ----------------------------
(***************************************************************************)
(* The walk over a function body misses no constant without an error, for  *)
(* any body, and none at all, without a crash, for a plain one: of any     *)
(* length and depth, with any number of macros and records.                *)
(***************************************************************************)
EXTENDS AstWalk, SubuListProofs, FiniteSetTheorems

-----------------------------------------------------------------------------
(* The parts of TypeOK.                                                    *)

Call == [node : DOMAIN body.nodes, at : Nat, found : BOOLEAN]

ListOK == mods.head \in Seq(Node(Names)) /\ mods = Recount(mods.head)

StepOK ==
  /\ step \in {"prev", "retry", "clear", "usage", "expr"}
  /\ step = "retry" => Len(calls) = 1 /\ calls[1].node = prev /\ prev # NULL
  /\ step = "expr" => Len(calls) > 0 /\ calls[1].node = pos
  /\ step \notin {"retry", "expr"} => calls = <<>>

Chain ==
  \A i \in 2..Len(calls) :
    LET c == calls[i - 1]
    IN  /\ c.at \in DOMAIN At(c.node).ops
        /\ At(c.node).ops[c.at] = <<"node", calls[i].node>>

PrevOK ==
  prev # NULL => /\ prev \in DOMAIN body.nodes /\ At(prev).kind = "decl"
                 /\ prev < pos \/ (prev = pos /\ step = "expr")

TreeOK ==
  /\ listed \subseteq {j \in DOMAIN body.nodes : At(j).kind = "decl" /\ At(j).static}
  /\ left \subseteq Consts(body)

(* The body stays the same. *)
WalkInv == body \in Bodies /\ TypeOK

LEMMA Parts ==
  TypeOK <=> /\ pos \in 1..Len(body.nodes) + 2
             /\ calls \in Seq(Call) /\ StepOK /\ Chain
             /\ ListOK /\ PrevOK /\ TreeOK
             /\ active \in {0, 1} /\ failed \in BOOLEAN /\ crashed \in BOOLEAN
BY DEF TypeOK, Call, ListOK, StepOK, Chain, PrevOK, TreeOK

LEMMA NodesAre ==
  ASSUME body \in Bodies
  PROVE  /\ body.nodes \in Seq(TreeNode) /\ body.records \in Seq(Node(Names))
         /\ Len(body.nodes) \in Nat /\ DOMAIN body.nodes = 1..Len(body.nodes)
         /\ \A j \in DOMAIN body.nodes :
              /\ At(j) \in TreeNode /\ At(j).loc \in Location /\ At(j).finish \in Location
              /\ At(j).ops \in Seq(Operands)
              /\ \A i \in DOMAIN At(j).ops :
                   At(j).ops[i][1] = "node" => At(j).ops[i][2] \in DOMAIN body.nodes
<1>1. /\ body.nodes \in Seq(TreeNode) /\ body.records \in Seq(Node(Names))
      /\ \A j \in DOMAIN body.nodes : \A i \in DOMAIN body.nodes[j].ops :
           body.nodes[j].ops[i][1] = "node"
             => body.nodes[j].ops[i][2] \in (j + 1)..Len(body.nodes)
  BY BodiesAssumption
<1>2. Len(body.nodes) \in Nat /\ DOMAIN body.nodes = 1..Len(body.nodes)
  BY <1>1
<1>3. ASSUME NEW j \in DOMAIN body.nodes
      PROVE  /\ At(j) \in TreeNode /\ At(j).loc \in Location /\ At(j).finish \in Location
             /\ At(j).ops \in Seq(Operands)
  <2>1. At(j) \in TreeNode
    BY <1>1, <1>2, ElementOfSeq DEF At
  <2> QED BY <2>1 DEF TreeNode
<1>4. ASSUME NEW j \in DOMAIN body.nodes, NEW i \in DOMAIN At(j).ops,
             At(j).ops[i][1] = "node"
      PROVE  At(j).ops[i][2] \in DOMAIN body.nodes
  <2>1. At(j).ops[i][2] \in (j + 1)..Len(body.nodes) /\ j \in Nat /\ j > 0
    BY <1>1, <1>2, <1>4 DEF At
  <2> QED BY <2>1, <1>2
<1> QED BY <1>1, <1>2, <1>3, <1>4

(* What is found is a record of the list. *)
LEMMA FoundIsRecord ==
  /\ \A loc, finish : FindUse(loc, finish) \subseteq DOMAIN mods.head
  /\ \A loc : GetElem(mods, loc) \subseteq DOMAIN mods.head
  /\ \A i : Agreeing(i) \subseteq DOMAIN mods.head
  /\ \A i : \A k \in Agreeing(i) :
       <<prev, i>> \in left /\ At(prev).init[i] = mods.head[k].name
BY DEF FindUse, GetElem, GetElem2, Agreeing, FirstElem

-----------------------------------------------------------------------------
(* What the parts of a step do to the list and the tree.                   *)

LEMMA ClearTypes ==
  ASSUME NEW start, ListOK, failed \in BOOLEAN, Clear(start)
  PROVE  ListOK' /\ active' \in {0, 1} /\ failed' \in BOOLEAN
<1>1. mods' = mods \/ mods' = Recount(<<>>)
  BY DEF Clear, CheckEmpty, EmptyList
<1>2. Recount(<<>>).head = <<>> /\ <<>> \in Seq(Node(Names))
  BY DEF Recount
<1>3. ListOK'
  BY <1>1, <1>2 DEF ListOK
<1> QED BY <1>3 DEF Clear

LEMMA RemoveTypes ==
  ASSUME ListOK, NEW k \in DOMAIN mods.head, mods' = RemoveElem(mods, k)
  PROVE  ListOK'
BY RemoveIs DEF ListOK

LEMMA DeclarationTypes ==
  ASSUME ListOK, failed \in BOOLEAN, crashed \in BOOLEAN, active \in {0, 1},
         NEW j, NEW use, use \subseteq DOMAIN mods.head, NEW inPlace,
         IntDeclaration(j, use, inPlace)
  PROVE  /\ ListOK' /\ active' \in {0, 1} /\ failed' \in BOOLEAN /\ crashed' \in BOOLEAN
         /\ left' \subseteq left
         /\ listed' = listed \/ (At(j).static /\ listed' = listed \cup {j})
<1>1. CASE UNCHANGED tree
  <2>1. mods' = mods /\ left' = left /\ listed' = listed
    BY <1>1 DEF tree
  <2>2. ListOK'
    BY <2>1 DEF ListOK
  <2>3. active' \in {0, 1} /\ failed' \in BOOLEAN /\ crashed' \in BOOLEAN
    BY DEF IntDeclaration
  <2> QED BY <2>1, <2>2, <2>3
<1>2. ASSUME NEW k \in use,
             \/ mods' = RemoveElem(mods, k) /\ left' = left
             \/ Substitute(j, 1, k),
             listed' = IF At(j).static /\ inPlace THEN listed \cup {j} ELSE listed,
             UNCHANGED <<active, failed, crashed>>
      PROVE  /\ ListOK' /\ active' \in {0, 1} /\ failed' \in BOOLEAN /\ crashed' \in BOOLEAN
             /\ left' \subseteq left
             /\ listed' = listed \/ (At(j).static /\ listed' = listed \cup {j})
  <2>1. mods' = RemoveElem(mods, k) /\ left' \subseteq left
    BY <1>2 DEF Substitute
  <2>2. ListOK'
    BY <2>1, RemoveTypes
  <2> QED BY <1>2, <2>1, <2>2
<1> QED BY <1>1, <1>2 DEF IntDeclaration

(* A call returns to its caller, or check_expr is over. *)
LEMMA ReturnTypes ==
  ASSUME body \in Bodies, TypeOK, InExpr, NEW found \in BOOLEAN, Return(found), body' = body
  PROVE  /\ (calls \in Seq(Call))' /\ StepOK' /\ Chain'
         /\ \/ pos' = pos + 1 /\ step' = "prev"
            \/ pos' = pos /\ step' = step
<1> DEFINE n == Len(calls)
<1>0. /\ calls \in Seq(Call) /\ n \in Nat /\ n > 0 /\ calls[1].node = pos /\ Chain
      /\ step = "expr"
  BY Parts DEF InExpr, StepOK
<1>1. CASE n = 1
  <2>1. calls' = <<>> /\ pos' = pos + 1 /\ step' = "prev"
    BY <1>1 DEF Return, NextVisit
  <2> QED BY <2>1 DEF StepOK, Chain
<1>2. CASE n # 1
  <2> DEFINE s == Callers
             c == Resumed(s[n - 1], found)
  <2>1. /\ s \in Seq(Call) /\ Len(s) = n - 1
        /\ \A i \in 1..(n - 1) : s[i] = calls[i]
    <3>1. \A i \in 1..(n - 1) : calls[i] \in Call
      BY <1>0
    <3>2. /\ s \in Seq(Call) /\ Len(s) = IF 1 <= n - 1 THEN n - 1 - 1 + 1 ELSE 0
          /\ \A i \in 1..(n - 1 - 1 + 1) : s[i] = calls[1 + i - 1]
      BY <1>0, <3>1, SubSeqProperties DEF Callers
    <3> HIDE DEF s, n
    <3> QED BY <1>0, <1>2, <3>2
  <2>2. calls' = [s EXCEPT ![n - 1] = c] /\ pos' = pos /\ step' = step
    BY <1>2 DEF Return
  <2> HIDE DEF s
  <2>3. s[n - 1] \in Call /\ n - 1 \in 1..Len(s)
    BY <2>1, <1>0, <1>2
  <2>4. c \in Call /\ c.node = s[n - 1].node
    <3> DEFINE b == s[n - 1]
    <3>1. b.node \in DOMAIN body.nodes /\ b.at \in Nat /\ b.found \in BOOLEAN
      BY <2>3 DEF Call
    <3> HIDE DEF b
    <3>2. (b.found \/ found) \in BOOLEAN
      OBVIOUS
    <3>3. c = [node  |-> b.node,
               at    |-> IF found /\ At(b.node).kind # "block" THEN 1 ELSE b.at + 1,
               found |-> b.found \/ found]
      BY DEF Resumed, b
    <3> QED BY <3>1, <3>2, <3>3 DEF Call, b
  <2> HIDE DEF c
  <2>5. /\ calls' \in Seq(Call) /\ Len(calls') = n - 1
        /\ \A i \in 1..(n - 1) : calls'[i] = IF i = n - 1 THEN c ELSE s[i]
    BY <2>1, <2>2, <2>3, <2>4, ExceptSeq
  <2>6. /\ \A i \in 1..(n - 1) : calls'[i].node = calls[i].node
        /\ \A i \in 1..(n - 2) : calls'[i] = calls[i]
    BY <2>1, <2>3, <2>4, <2>5, <1>0
  <2>7. StepOK'
    <3>1. Len(calls') > 0 /\ calls'[1].node = pos'
      BY <1>0, <1>2, <2>2, <2>5, <2>6
    <3> QED BY <3>1, <2>2, <1>0 DEF StepOK
  <2>8. Chain'
    <3>1. ASSUME NEW i \in 2..(n - 1)
          PROVE  /\ calls'[i - 1] = calls[i - 1] /\ calls'[i].node = calls[i].node
                 /\ i \in 2..n
      BY <2>6, <1>0
    <3> QED BY <3>1, <2>5, <1>0 DEF Chain, At
  <2> QED BY <2>2, <2>5, <2>7, <2>8 DEF Call
<1> QED BY <1>1, <1>2

-----------------------------------------------------------------------------
(* Every step keeps the types.                                             *)

LEMMA TypesInit ==
  ASSUME Init
  PROVE  TypeOK
<1>1. Recount(body.records).head = body.records
  BY DEF Recount
<1>2. body.nodes \in Seq(TreeNode) /\ body.records \in Seq(Node(Names)) /\ Len(body.nodes) \in Nat
  BY NodesAre DEF Init
<1>3. ListOK
  BY <1>1, <1>2 DEF Init, ListOK
<1>4. calls \in Seq(Call) /\ StepOK /\ Chain /\ PrevOK /\ TreeOK
  BY DEF Init, StepOK, Chain, PrevOK, TreeOK
<1>5. pos = 1 /\ active = 1 /\ failed = FALSE /\ crashed = FALSE
  BY DEF Init
<1>6. pos \in 1..Len(body.nodes) + 2 /\ active \in {0, 1}
  BY <1>2, <1>5
<1>7. failed \in BOOLEAN /\ crashed \in BOOLEAN
  BY <1>5
<1> QED BY <1>3, <1>4, <1>6, <1>7, Parts

(* What the parts of TypeOK depend on. *)
LEMMA Stays ==
  ASSUME body' = body
  PROVE  /\ UNCHANGED mods /\ ListOK => ListOK'
         /\ UNCHANGED <<listed, left>> /\ TreeOK => TreeOK'
         /\ UNCHANGED <<calls, step, prev, pos>> /\ StepOK => StepOK'
         /\ UNCHANGED calls /\ Chain => Chain'
         /\ UNCHANGED <<prev, pos, step>> /\ PrevOK => PrevOK'
         /\ UNCHANGED calls /\ calls \in Seq(Call) => (calls \in Seq(Call))'
         /\ calls = <<>> => Chain
         /\ calls' = <<>> => Chain' /\ (calls \in Seq(Call))'
         /\ \A j : At(j)' = At(j)
<1>1. \A j : At(j)' = At(j)
  BY DEF At
<1>2. /\ UNCHANGED mods /\ ListOK => ListOK'
      /\ UNCHANGED <<calls, step, prev, pos>> /\ StepOK => StepOK'
      /\ UNCHANGED calls /\ calls \in Seq(Call) => (calls \in Seq(Call))'
  BY DEF ListOK, StepOK, Call
<1>3. UNCHANGED <<listed, left>> /\ TreeOK => TreeOK'
  BY DEF TreeOK, At, Consts
<1>4. UNCHANGED <<prev, pos, step>> /\ PrevOK => PrevOK'
  BY DEF PrevOK, At
<1>5. UNCHANGED calls /\ Chain => Chain'
  BY DEF Chain, At
<1>6. ASSUME calls = <<>> PROVE Chain
  BY <1>6 DEF Chain
<1>7. ASSUME calls' = <<>> PROVE Chain' /\ (calls \in Seq(Call))'
  BY <1>7 DEF Chain
<1> QED BY <1>1, <1>2, <1>3, <1>4, <1>5, <1>6, <1>7

LEMMA TypesPrimed ==
  TypeOK' <=> /\ (pos \in 1..Len(body.nodes) + 2)'
              /\ (calls \in Seq(Call))' /\ StepOK' /\ Chain'
              /\ ListOK' /\ PrevOK' /\ TreeOK'
              /\ active' \in {0, 1} /\ failed' \in BOOLEAN /\ crashed' \in BOOLEAN
BY DEF TypeOK, Call, ListOK, StepOK, Chain, PrevOK, TreeOK

LEMMA PosMoves ==
  ASSUME body \in Bodies, TypeOK, body' = body, Visiting, pos' = pos \/ pos' = pos + 1
  PROVE  (pos \in 1..Len(body.nodes) + 2)'
BY NodesAre, Parts DEF Visiting

(* prev is behind the node that is visited. *)
LEMMA PrevMoves ==
  ASSUME body \in Bodies, TypeOK, body' = body, Visiting,
         \/ prev' = NULL
         \/ prev' = prev /\ (pos' = pos + 1 \/ (pos' = pos /\ (step' = step \/ step # "expr")))
  PROVE  PrevOK'
<1>1. pos \in Nat /\ DOMAIN body.nodes \subseteq Nat
  BY NodesAre, Parts
<1> QED BY <1>1, Parts DEF PrevOK, At

LEMMA PrevTypes ==
  ASSUME body \in Bodies, TypeOK, NoneMissed \/ RetryStale \/ RetryInt \/ RetryAggregate
  PROVE  TypeOK' /\ body' = body
<1>1. body' = body /\ pos' = pos /\ prev' = prev /\ Visiting /\ step = "prev" /\ calls = <<>>
  BY Parts DEF NoneMissed, RetryStale, RetryInt, RetryAggregate, Begins, StepOK
<1>2. (pos \in 1..Len(body.nodes) + 2)'
  BY <1>1, PosMoves
<1>3. CASE RetryInt
  <2> DEFINE use == GetElem(mods, mods.start)
  <2>1. /\ IntDeclaration(prev, use, TRUE) /\ calls' = calls
        /\ step' \in {"clear", "usage"} /\ use \subseteq DOMAIN mods.head
        /\ prev \in DOMAIN body.nodes /\ At(prev).kind = "decl"
    BY <1>3, FoundIsRecord, Parts DEF RetryInt, Begins, Missed, PrevOK
  <2>2. /\ ListOK' /\ active' \in {0, 1} /\ failed' \in BOOLEAN /\ crashed' \in BOOLEAN
        /\ left' \subseteq left
        /\ listed' = listed \/ (At(prev).static /\ listed' = listed \cup {prev})
    BY <2>1, Parts, DeclarationTypes
  <2>3. TreeOK'
    BY <2>1, <2>2, <1>1, Parts DEF TreeOK, At, Consts
  <2>4. StepOK' /\ Chain' /\ PrevOK' /\ (calls \in Seq(Call))'
    BY <2>1, <1>1, Stays, PrevMoves, Parts DEF StepOK
  <2> QED BY <2>2, <2>3, <2>4, <1>1, <1>2, TypesPrimed
<1>4. CASE NoneMissed \/ RetryStale \/ RetryAggregate
  <2>1. UNCHANGED tree /\ active' = active /\ failed' = failed /\ crashed' \in BOOLEAN
    BY <1>4, Parts DEF NoneMissed, RetryStale, RetryAggregate
  <2>2. ListOK' /\ TreeOK'
    BY <2>1, <1>1, Stays, Parts DEF tree
  <2>3. PrevOK'
    BY <1>1, PrevMoves
  <2>4. CASE RetryAggregate
    <3>1. /\ calls' = <<[node |-> prev, at |-> 1, found |-> FALSE]>> /\ step' = "retry"
          /\ prev # NULL /\ prev \in DOMAIN body.nodes
      BY <2>4, Parts DEF RetryAggregate, Missed, PrevOK
    <3>2. calls' \in Seq(Call) /\ Len(calls') = 1 /\ calls'[1].node = prev
      BY <3>1 DEF Call
    <3>3. StepOK' /\ Chain' /\ (calls \in Seq(Call))'
      BY <3>1, <3>2, <1>1 DEF StepOK, Chain, Call
    <3> QED BY <3>3, <2>1, <2>2, <2>3, <1>1, <1>2, TypesPrimed, Parts
  <2>5. CASE NoneMissed \/ RetryStale
    <3>1. calls' = calls /\ step' \in {"usage", "prev"}
      BY <2>5, <1>1 DEF NoneMissed, RetryStale
    <3>2. StepOK' /\ Chain' /\ (calls \in Seq(Call))'
      BY <3>1, <1>1, Stays DEF StepOK
    <3> QED BY <3>2, <2>1, <2>2, <2>3, <1>1, <1>2, TypesPrimed, Parts
  <2> QED BY <2>4, <2>5, <1>4
<1> QED BY <1>3, <1>4

LEMMA RetryTypes ==
  ASSUME body \in Bodies, TypeOK, RetryElement \/ RetryEnd \/ RetryFound
  PROVE  TypeOK' /\ body' = body
<1>1. body' = body /\ pos' = pos /\ (prev' = prev \/ prev' = NULL) /\ Visiting /\ step # "expr"
  BY DEF RetryElement, RetryEnd, RetryFound
<1>2. (pos \in 1..Len(body.nodes) + 2)' /\ PrevOK'
  <2>1. step # "expr" /\ pos' = pos
    BY <1>1
  <2> QED BY <1>1, <2>1, PosMoves, PrevMoves
<1>3. CASE RetryElement
  <2>1. PICK i \in DOMAIN At(prev).init : \E k \in Agreeing(i) : Substitute(prev, i, k)
    BY <1>3 DEF RetryElement
  <2>k. PICK k \in Agreeing(i) : Substitute(prev, i, k)
    BY <2>1
  <2>2. mods' = RemoveElem(mods, k) /\ left' \subseteq left /\ k \in DOMAIN mods.head
    BY <2>k, FoundIsRecord DEF Substitute
  <2>3. ListOK'
    BY <2>2, Parts, RemoveTypes
  <2>4. TreeOK'
    BY <2>2, <1>1, <1>3, Parts DEF TreeOK, At, Consts, RetryElement
  <2>5. /\ calls \in Seq(Call) /\ Len(calls) = 1 /\ calls[1].node = prev /\ prev # NULL
        /\ step' = step /\ step = "retry" /\ prev' = prev
    BY <1>3, Parts DEF StepOK, RetryElement
  <2> DEFINE c == calls[1]
             d == [c EXCEPT !.found = TRUE]
  <2>6. c \in Call
    BY <2>5
  <2>7. d \in Call /\ d.node = c.node
    <3> HIDE DEF c
    <3> QED BY <2>6 DEF Call
  <2>8. calls' = [calls EXCEPT ![1] = d]
    BY <1>3 DEF RetryElement
  <2> HIDE DEF d
  <2>9. calls' \in Seq(Call) /\ Len(calls') = 1 /\ calls'[1].node = prev
    <3> DEFINE s == calls
    <3>1. s \in Seq(Call) /\ 1 \in 1..Len(s) /\ d \in Call
      BY <2>5, <2>7
    <3> HIDE DEF s
    <3>2. /\ [s EXCEPT ![1] = d] \in Seq(Call) /\ Len([s EXCEPT ![1] = d]) = Len(s)
          /\ [s EXCEPT ![1] = d][1] = d
      BY <3>1, ExceptSeq
    <3> QED BY <2>5, <2>7, <2>8, <3>2 DEF s
  <2>10. StepOK' /\ Chain' /\ (calls \in Seq(Call))'
    BY <2>5, <2>9, <1>1 DEF StepOK, Chain, Call
  <2>11. active' \in {0, 1} /\ failed' \in BOOLEAN /\ crashed' \in BOOLEAN
    BY <1>3, Parts DEF RetryElement
  <2> QED BY <1>1, <1>2, <2>3, <2>4, <2>10, <2>11, TypesPrimed
<1>4. CASE RetryEnd
  <2>1. /\ calls' = <<>> /\ step' \in {"clear", "usage"} /\ mods' = mods /\ left' = left
        /\ listed' = listed \/ (At(prev).static /\ listed' = listed \cup {prev})
        /\ prev \in DOMAIN body.nodes /\ At(prev).kind = "decl"
    BY <1>4, Parts DEF RetryEnd, StepOK, PrevOK
  <2>2. TreeOK'
    BY <2>1, <1>1, Parts DEF TreeOK, At, Consts
  <2>3. StepOK' /\ Chain' /\ ListOK' /\ (calls \in Seq(Call))'
    BY <2>1, <1>1, Stays, Parts DEF StepOK
  <2>4. active' \in {0, 1} /\ failed' \in BOOLEAN /\ crashed' \in BOOLEAN
    BY <1>4, Parts DEF RetryEnd
  <2> QED BY <1>1, <1>2, <2>2, <2>3, <2>4, TypesPrimed
<1>5. CASE RetryFound
  <2>1. Clear(At(pos).loc) /\ calls' = calls /\ calls = <<>> /\ step' = "usage"
    BY <1>5, Parts DEF RetryFound, StepOK
  <2>2. ListOK' /\ active' \in {0, 1} /\ failed' \in BOOLEAN
    BY <2>1, Parts, ClearTypes
  <2>3. TreeOK' /\ StepOK' /\ Chain' /\ (calls \in Seq(Call))' /\ crashed' \in BOOLEAN
    BY <2>1, <1>1, <1>5, Stays, Parts DEF StepOK, RetryFound
  <2> QED BY <1>1, <1>2, <2>2, <2>3, TypesPrimed
<1> QED BY <1>3, <1>4, <1>5

LEMMA UsageTypes ==
  ASSUME body \in Bodies, TypeOK, Skip \/ CheckUsage
  PROVE  TypeOK' /\ body' = body
<1>1. /\ body' = body /\ UNCHANGED <<tree, active, failed, crashed>> /\ Visiting
      /\ step \in {"prev", "usage"} /\ calls = <<>> /\ pos \in Nat /\ pos \in DOMAIN body.nodes
  <2>1. pos \in DOMAIN body.nodes => pos \in Nat
    BY NodesAre
  <2> QED BY <2>1, Parts DEF Skip, CheckUsage, StepOK, Visiting
<1>2. ListOK' /\ TreeOK' /\ active' \in {0, 1} /\ failed' \in BOOLEAN /\ crashed' \in BOOLEAN
  BY <1>1, Stays, Parts DEF tree
<1>3. CASE pos' = pos + 1 /\ step' = "prev" /\ calls' = calls
  <2>1. StepOK' /\ Chain' /\ (calls \in Seq(Call))'
    BY <1>1, <1>3, Stays DEF StepOK
  <2>2. PrevOK'
    <3>1. prev' = prev \/ prev' = NULL
            \/ (prev' = pos /\ At(pos).kind = "decl")
      BY DEF Skip, CheckUsage, Kept
    <3>2. CASE prev' = pos /\ At(pos).kind = "decl"
      BY <3>2, <1>1, <1>3 DEF PrevOK, At
    <3> QED BY <3>1, <3>2, <1>1, <1>3, PrevMoves
  <2> QED BY <2>1, <2>2, <1>1, <1>2, <1>3, PosMoves, TypesPrimed
<1>4. CASE CheckUsage /\ HasUse(At(pos))
  <2>1. /\ step' = "expr" /\ pos' = pos /\ step = "usage"
        /\ calls' = <<[node |-> pos, at |-> 1, found |-> FALSE]>>
        /\ prev' = prev \/ prev' = NULL \/ (prev' = pos /\ At(pos).kind = "decl")
    BY <1>4 DEF CheckUsage, Kept
  <2>2. calls' \in Seq(Call) /\ Len(calls') = 1 /\ calls'[1].node = pos
    BY <1>1, <2>1 DEF Call
  <2>3. StepOK' /\ Chain' /\ (calls \in Seq(Call))'
    BY <2>1, <2>2, <1>1 DEF StepOK, Chain, Call
  <2>4. PrevOK'
    <3>1. CASE prev' = pos /\ At(pos).kind = "decl"
      BY <3>1, <1>1, <2>1 DEF PrevOK, At
    <3> QED BY <3>1, <1>1, <2>1, PrevMoves
  <2> QED BY <2>1, <2>3, <2>4, <1>1, <1>2, PosMoves, TypesPrimed
<1> QED BY <1>3, <1>4 DEF Skip, CheckUsage, NextVisit

LEMMA TopIs ==
  ASSUME TypeOK, InExpr
  PROVE  /\ calls \in Seq(Call) /\ Len(calls) \in Nat /\ Len(calls) > 0
         /\ calls[1].node = pos /\ Len(calls) \in 1..Len(calls)
         /\ Top \in Call /\ Top.node \in DOMAIN body.nodes
         /\ step = "expr" /\ Visiting
<1>1. /\ calls \in Seq(Call) /\ Len(calls) \in Nat /\ Len(calls) > 0
      /\ calls[1].node = pos
  BY Parts DEF InExpr, StepOK
<1>2. Top \in Call
  BY <1>1 DEF Top
<1> QED BY <1>1, <1>2 DEF Call, InExpr

(* The call on top goes on. *)
LEMMA TopChanges ==
  ASSUME TypeOK, InExpr, NEW d \in Call, d.node = Top.node,
         calls' = [calls EXCEPT ![Len(calls)] = d],
         body' = body, step' = step, pos' = pos
  PROVE  (calls \in Seq(Call))' /\ StepOK' /\ Chain'
<1> DEFINE n == Len(calls)
           s == calls
<1>1. /\ s \in Seq(Call) /\ n \in Nat /\ n > 0 /\ s[1].node = pos /\ step = "expr"
      /\ n \in 1..Len(s) /\ Top = s[n] /\ Chain
  BY TopIs, Parts DEF Top
<1> HIDE DEF n, s
<1>2. /\ [s EXCEPT ![n] = d] \in Seq(Call) /\ Len([s EXCEPT ![n] = d]) = Len(s)
      /\ \A i \in 1..Len(s) : [s EXCEPT ![n] = d][i] = IF i = n THEN d ELSE s[i]
  BY <1>1, ExceptSeq
<1>3. /\ calls' \in Seq(Call) /\ Len(calls') = n
      /\ \A i \in 1..n : calls'[i] = IF i = n THEN d ELSE calls[i]
  BY <1>2 DEF n, s
<1>4. \A i \in 1..n : calls'[i].node = calls[i].node
  BY <1>1, <1>3 DEF s
<1>5. StepOK'
  BY <1>1, <1>3, <1>4 DEF StepOK, s
<1>6. Chain'
  <2>1. ASSUME NEW i \in 2..n
        PROVE  calls'[i - 1] = calls[i - 1] /\ calls'[i].node = calls[i].node /\ i - 1 \in 1..n
    BY <1>1, <1>3, <1>4
  <2> QED BY <2>1, <1>1, <1>3 DEF Chain, At, n
<1> QED BY <1>3, <1>5, <1>6 DEF Call

LEMMA ExprTypes ==
  ASSUME body \in Bodies, TypeOK, ExprLeaf \/ ExprCall \/ ExprPass
  PROVE  TypeOK' /\ body' = body
<1>1. /\ body' = body /\ pos' = pos /\ step' = step /\ prev' = prev /\ Visiting /\ InExpr
      /\ UNCHANGED <<listed, active, failed, crashed>> /\ Looking
      /\ Top.at \in DOMAIN At(Top.node).ops
  BY DEF ExprLeaf, ExprCall, ExprPass, Looking, InExpr, tree
<1>2. (pos \in 1..Len(body.nodes) + 2)' /\ PrevOK'
  BY <1>1, PosMoves, PrevMoves
<1>3. active' \in {0, 1} /\ failed' \in BOOLEAN /\ crashed' \in BOOLEAN
  BY <1>1, Parts
<1>4. CASE ExprLeaf
  <2>1. PICK k \in Use : Substitute(Top.node, Top.at, k)
    BY <1>4 DEF ExprLeaf
  <2>2. ListOK' /\ left' \subseteq left
    BY <2>1, FoundIsRecord, RemoveTypes, Parts DEF Substitute, Use
  <2>3. TreeOK'
    BY <2>2, <1>1, Parts DEF TreeOK, At, Consts
  <2> DEFINE d == [node |-> Top.node, at |-> 1, found |-> TRUE]
  <2>4. d \in Call /\ d.node = Top.node
    BY <1>1, TopIs DEF Call
  <2>5. calls' = [calls EXCEPT ![Len(calls)] = d]
    BY <1>4 DEF ExprLeaf, Top
  <2> HIDE DEF d
  <2> QED BY <2>2, <2>3, <2>4, <2>5, <1>1, <1>2, <1>3, TopChanges, TypesPrimed
<1>5. CASE ExprPass
  <2>1. UNCHANGED tree
    BY <1>5 DEF ExprPass
  <2>2. ListOK' /\ TreeOK'
    BY <2>1, <1>1, Stays, Parts DEF tree
  <2> DEFINE c == calls[Len(calls)]
             d == [c EXCEPT !.at = @ + 1]
  <2>3. d \in Call /\ d.node = Top.node
    <3>1. c \in Call /\ c = Top
      BY <1>1, TopIs DEF Top
    <3> HIDE DEF c
    <3> QED BY <3>1 DEF Call
  <2>4. calls' = [calls EXCEPT ![Len(calls)] = d]
    BY <1>5 DEF ExprPass
  <2> HIDE DEF d
  <2> QED BY <2>2, <2>3, <2>4, <1>1, <1>2, <1>3, TopChanges, TypesPrimed
<1>6. CASE ExprCall
  <2>1. UNCHANGED tree
    BY <1>6 DEF ExprCall
  <2>2. ListOK' /\ TreeOK'
    BY <2>1, <1>1, Stays, Parts DEF tree
  <2> DEFINE n == Len(calls)
             s == calls
             o == Operand[2]
             d == [node |-> o, at |-> 1, found |-> FALSE]
  <2>3. Operand \in Operands /\ Operand[1] = "node"
    <3>1. At(Top.node).ops \in Seq(Operands)
      BY <1>1, TopIs, NodesAre
    <3> QED BY <3>1, <1>1, <1>6 DEF ExprCall, Called, Operand
  <2>4. Operand = <<"node", o>>
    BY <2>3 DEF Operands
  <2>5. o \in DOMAIN body.nodes
    BY <2>3, <1>1, TopIs, NodesAre DEF Operand
  <2>6. s \in Seq(Call) /\ d \in Call /\ n \in Nat /\ n > 0 /\ s[1].node = pos /\ step = "expr"
        /\ Chain /\ Len(s) = n
    BY <2>5, <1>1, TopIs, Parts DEF Call
  <2>7. calls' = Append(s, d)
    BY <1>6 DEF ExprCall
  <2>8. Top = s[n]
    BY DEF Top
  <2>9. d.node = o
    OBVIOUS
  <2> HIDE DEF d, s, n, o
  <2>10. /\ calls' \in Seq(Call) /\ Len(calls') = n + 1
         /\ \A i \in 1..n : calls'[i] = s[i]
         /\ calls'[n + 1] = d
    BY <2>6, <2>7, AppendProperties
  <2>11. StepOK'
    BY <2>6, <2>10, <1>1 DEF StepOK
  <2>12. Chain'
    <3>1. ASSUME NEW i \in 2..n
          PROVE  /\ calls'[i - 1] = calls[i - 1] /\ calls'[i] = calls[i]
                 /\ i - 1 \in 1..n /\ i \in 2..Len(calls)
      BY <2>6, <2>10 DEF s, n
    <3>2. calls'[n] = Top /\ calls'[n + 1].node = o
      BY <2>6, <2>8, <2>9, <2>10
    <3>3. At(Top.node).ops[Top.at] = <<"node", o>>
      BY <2>4 DEF Operand
    <3>4. ASSUME NEW i \in 2..(n + 1)
          PROVE  /\ calls'[i - 1].at \in DOMAIN At(calls'[i - 1].node).ops
                 /\ At(calls'[i - 1].node).ops[calls'[i - 1].at] = <<"node", calls'[i].node>>
      <4>1. CASE i \in 2..n
        BY <4>1, <3>1, <2>6 DEF Chain
      <4>2. CASE i = n + 1
        <5>1. calls'[i - 1] = Top
          BY <4>2, <3>2, <2>6
        <5> QED BY <4>2, <5>1, <3>2, <3>3, <1>1
      <4> QED BY <4>1, <4>2, <2>6
    <3> QED BY <3>4, <2>10, <1>1 DEF Chain, At
  <2> QED BY <2>2, <2>10, <2>11, <2>12, <1>1, <1>2, <1>3, TypesPrimed DEF Call
<1> QED BY <1>4, <1>5, <1>6

LEMMA EndTypes ==
  ASSUME body \in Bodies, TypeOK, ExprDecl \/ ExprEnd
  PROVE  TypeOK' /\ body' = body
<1>1. /\ body' = body /\ Visiting /\ InExpr /\ (prev' = prev \/ prev' = NULL)
      /\ \E found \in BOOLEAN : Return(found)
  <2>1. CASE ExprDecl
    <3>1. Fixed(Top.node, Use) \in BOOLEAN
      BY DEF Fixed
    <3> QED BY <2>1, <3>1 DEF ExprDecl, InExpr
  <2>2. CASE ExprEnd
    <3>1. Top.found \in BOOLEAN
      BY <2>2, TopIs DEF ExprEnd, Call
    <3> QED BY <2>2, <3>1 DEF ExprEnd, InExpr
  <2> QED BY <2>1, <2>2
<1>2. /\ (calls \in Seq(Call))' /\ StepOK' /\ Chain'
      /\ pos' = pos + 1 \/ (pos' = pos /\ step' = step)
  BY <1>1, ReturnTypes
<1>3. (pos \in 1..Len(body.nodes) + 2)' /\ PrevOK'
  BY <1>1, <1>2, PosMoves, PrevMoves
<1>4. CASE ExprDecl
  <2>1. /\ IntDeclaration(Top.node, Use, InPlace) /\ Use \subseteq DOMAIN mods.head
        /\ Top.node \in DOMAIN body.nodes /\ At(Top.node).kind = "decl"
    BY <1>4, TopIs, FoundIsRecord DEF ExprDecl, Use
  <2>2. /\ ListOK' /\ active' \in {0, 1} /\ failed' \in BOOLEAN /\ crashed' \in BOOLEAN
        /\ left' \subseteq left
        /\ listed' = listed \/ (At(Top.node).static /\ listed' = listed \cup {Top.node})
    BY <2>1, Parts, DeclarationTypes
  <2>3. TreeOK'
    BY <2>1, <2>2, <1>1, Parts DEF TreeOK, At, Consts
  <2> QED BY <2>2, <2>3, <1>1, <1>2, <1>3, TypesPrimed
<1>5. CASE ExprEnd
  <2>1. UNCHANGED <<tree, active, failed, crashed>>
    BY <1>5 DEF ExprEnd
  <2>2. ListOK' /\ TreeOK' /\ active' \in {0, 1} /\ failed' \in BOOLEAN /\ crashed' \in BOOLEAN
    BY <2>1, <1>1, Stays, Parts DEF tree
  <2> QED BY <2>2, <1>1, <1>2, <1>3, TypesPrimed
<1> QED BY <1>4, <1>5

LEMMA FinishTypes ==
  ASSUME body \in Bodies, TypeOK, Finish
  PROVE  TypeOK' /\ body' = body
<1>1. /\ body' = body /\ pos' = pos + 1 /\ pos = Len(body.nodes) + 1
      /\ UNCHANGED <<step, calls, prev, listed, left, crashed>> /\ Clear(MAX_LOCATION_T)
      /\ Len(body.nodes) \in Nat
  BY NodesAre DEF Finish
<1>2. step # "expr"
  <2>1. SUFFICES ASSUME step = "expr" PROVE FALSE
    OBVIOUS
  <2>2. calls \in Seq(Call) /\ Len(calls) > 0 /\ calls[1].node = pos
    BY <2>1, Parts DEF StepOK
  <2>3. calls[1] \in Call
    BY <2>2
  <2>4. pos \in DOMAIN body.nodes
    BY <2>2, <2>3 DEF Call
  <2> QED BY <2>4, <1>1, NodesAre
<1>3. /\ ListOK' /\ active' \in {0, 1} /\ failed' \in BOOLEAN /\ crashed' \in BOOLEAN
      /\ TreeOK' /\ Chain' /\ (calls \in Seq(Call))'
  BY <1>1, ClearTypes, Stays, Parts
<1>4. StepOK' /\ (pos \in 1..Len(body.nodes) + 2)'
  BY <1>1, <1>2, Parts DEF StepOK
<1>5. PrevOK'
  <2>1. prev # NULL => prev \in Nat
    BY NodesAre, Parts DEF PrevOK
  <2> QED BY <2>1, <1>1, <1>2, Parts DEF PrevOK, At
<1> QED BY <1>1, <1>3, <1>4, <1>5, TypesPrimed

LEMMA TypesStep ==
  ASSUME WalkInv, [Next]_vars
  PROVE  WalkInv'
<1>1. CASE UNCHANGED vars
  <2>1. UNCHANGED <<body, pos, step, calls, tree, active, prev, failed, crashed>>
    BY <1>1 DEF vars
  <2>2. TypeOK'
    BY <2>1, Stays, Parts, TypesPrimed DEF tree, WalkInv
  <2> QED BY <2>1, <2>2 DEF WalkInv
<1>2. CASE Next
  <2>1. CASE Skip \/ CheckUsage
    BY <2>1, UsageTypes DEF WalkInv
  <2>2. CASE NoneMissed \/ RetryStale \/ RetryInt \/ RetryAggregate
    BY <2>2, PrevTypes DEF WalkInv
  <2>3. CASE RetryElement \/ RetryEnd \/ RetryFound
    BY <2>3, RetryTypes DEF WalkInv
  <2>4. CASE ExprLeaf \/ ExprCall \/ ExprPass
    BY <2>4, ExprTypes DEF WalkInv
  <2>5. CASE ExprDecl \/ ExprEnd
    BY <2>5, EndTypes DEF WalkInv
  <2>6. CASE Finish
    BY <2>6, FinishTypes DEF WalkInv
  <2>7. CASE Terminated
    BY <2>7, <1>1 DEF Terminated
  <2> QED BY <1>2, <2>1, <2>2, <2>3, <2>4, <2>5, <2>6, <2>7 DEF Next, Retry, CheckExpr
<1> QED BY <1>1, <1>2

(* The walk of any function keeps its types: the calls of check_expr that  *)
(* run are always for operands of one another, the first is for the node   *)
(* that is visited, and ctx->prev is a declaration visited before (or the  *)
(* one that is examined, src/src/ast.cc:169-218).                          *)
THEOREM WalkTypes == Spec => []TypeOK
<1>1. Init => WalkInv
  BY TypesInit DEF WalkInv, Init
<1>2. WalkInv /\ [Next]_vars => WalkInv'
  BY TypesStep
<1>3. WalkInv => TypeOK
  BY DEF WalkInv
<1> QED BY <1>1, <1>2, <1>3, PTL DEF Spec

-----------------------------------------------------------------------------
(* There are always as many records of a macro as constants that stand for *)
(* it: each constant can be given a record of its own.                     *)

MacroIn(b, s) == Given(b.nodes[s[1]], s[2])

Covers(f, head, sites, b) ==
  /\ f \in [sites -> DOMAIN head]
  /\ \A s \in sites : head[f[s]].name = MacroIn(b, s)
  /\ \A s, t \in sites : f[s] = f[t] => s = t

Covered(head, sites, b) == \E f : Covers(f, head, sites, b)

LEMMA FewerInjects ==
  ASSUME NEW S, NEW T, IsFiniteSet(S), IsFiniteSet(T), Cardinality(S) <= Cardinality(T)
  PROVE  \E f \in [S -> T] : \A s, t \in S : f[s] = f[t] => s = t
<1> DEFINE m == Cardinality(S)
           n == Cardinality(T)
<1>1. m \in Nat /\ n \in Nat /\ m <= n
      /\ ExistsBijection(1..m, S) /\ ExistsBijection(1..n, T)
  BY FS_CardinalityType
<1>2. PICK g : g \in Bijection(1..m, S)
  BY <1>1 DEF ExistsBijection
<1>3. PICK h : h \in Bijection(1..n, T)
  BY <1>1 DEF ExistsBijection
<1>4. /\ \A s \in S : \E i \in 1..m : g[i] = s
      /\ h \in [1..n -> T]
      /\ \A i, j \in 1..n : h[i] = h[j] => i = j
  BY <1>2, <1>3 DEF Bijection, Injection, Surjection, IsInjective
<1> HIDE DEF m, n
<1> DEFINE at(s) == CHOOSE i \in 1..m : g[i] = s
           f == [s \in S |-> h[at(s)]]
<1>5. \A s \in S : at(s) \in 1..m /\ g[at(s)] = s
  BY <1>4
<1>6. \A s \in S : at(s) \in 1..n
  BY <1>1, <1>5
<1> HIDE DEF at
<1>7. f \in [S -> T] /\ \A s \in S : f[s] = h[at(s)]
  BY <1>4, <1>6
<1>8. ASSUME NEW s \in S, NEW t \in S, f[s] = f[t] PROVE s = t
  <2>1. at(s) = at(t)
    BY <1>4, <1>6, <1>7, <1>8
  <2> QED BY <2>1, <1>5
<1> QED BY <1>7, <1>8

LEMMA CoveredAtFirst ==
  ASSUME NEW b \in Bodies
  PROVE  Covered(b.records, Consts(b), b)
<1> DEFINE S(m) == ConstsOf(b, m)
           T(m) == RecordsOf(b, m)
           Fits(g, m) == g \in [S(m) -> T(m)] /\ \A s, t \in S(m) : g[s] = g[t] => s = t
           G(m) == CHOOSE g : Fits(g, m)
           f == [s \in Consts(b) |-> G(MacroIn(b, s))[s]]
<1>1. ASSUME NEW m \in Names
      PROVE  Fits(G(m), m)
  <2>1. IsFiniteSet(S(m)) /\ Cardinality(S(m)) <= Cardinality(T(m))
    BY BodiesAssumption
  <2>2. IsFiniteSet(T(m))
    <3>1. DOMAIN b.records = 1..Len(b.records) /\ Len(b.records) \in Nat
      BY BodiesAssumption
    <3>2. IsFiniteSet(DOMAIN b.records)
      BY <3>1, FS_Interval
    <3> QED BY <3>2, FS_Subset DEF RecordsOf
  <2>3. \E g : Fits(g, m)
    BY <2>1, <2>2, FewerInjects
  <2> QED BY <2>3
<1>2. ASSUME NEW s \in Consts(b)
      PROVE  /\ MacroIn(b, s) \in Names /\ s \in S(MacroIn(b, s))
             /\ \A m : s \in S(m) => MacroIn(b, s) = m
  BY DEF Consts, ConstsOf, MacroIn
<1> HIDE DEF G
<1>3. ASSUME NEW s \in Consts(b)
      PROVE  f[s] \in DOMAIN b.records /\ b.records[f[s]].name = MacroIn(b, s)
  <2>1. f[s] \in T(MacroIn(b, s))
    BY <1>1, <1>2
  <2> QED BY <2>1 DEF RecordsOf
<1>4. ASSUME NEW s \in Consts(b), NEW t \in Consts(b), f[s] = f[t]
      PROVE  s = t
  <2> DEFINE m == MacroIn(b, s)
  <2>1. m = MacroIn(b, t)
    BY <1>3, <1>4
  <2>2. s \in S(m) /\ t \in S(m) /\ m \in Names /\ f[s] = G(m)[s] /\ f[t] = G(m)[t]
    BY <1>2, <2>1
  <2> HIDE DEF m, f
  <2> QED BY <2>2, <1>1, <1>4
<1>5. f \in [Consts(b) -> DOMAIN b.records]
  BY <1>3
<1> QED BY <1>3, <1>4, <1>5 DEF Covered, Covers

LEMMA CoveredRemove ==
  ASSUME NEW l, l.head \in Seq(Node(Names)), NEW k \in DOMAIN l.head,
         NEW b, NEW sites, NEW s \in sites, MacroIn(b, s) = l.head[k].name,
         Covered(l.head, sites, b)
  PROVE  Covered(RemoveElem(l, k).head, sites \ {s}, b)
<1> DEFINE h == l.head
           r == RemoveElem(l, k).head
           rest == sites \ {s}
<1>1. PICK f : Covers(f, h, sites, b)
  BY DEF Covered
<1>2. /\ DOMAIN r = 1..(Len(h) - 1) /\ Len(h) \in Nat /\ DOMAIN h = 1..Len(h)
      /\ \A j \in 1..(Len(h) - 1) : r[j] = IF j < k THEN h[j] ELSE h[j + 1]
  BY RemoveShifts
<1> HIDE DEF r, h
<1> DEFINE q(t) == IF f[t] = k THEN f[s] ELSE f[t]
           g == [t \in rest |-> IF q(t) < k THEN q(t) ELSE q(t) - 1]
<1>3. ASSUME NEW t \in rest
      PROVE  q(t) \in DOMAIN h /\ q(t) # k /\ h[q(t)].name = MacroIn(b, t)
  <2>1. t \in sites /\ t # s /\ f[t] # f[s]
    BY <1>1 DEF Covers
  <2>2. f[t] \in DOMAIN h /\ f[s] \in DOMAIN h /\ h[f[t]].name = MacroIn(b, t)
        /\ h[f[s]].name = h[k].name
    BY <2>1, <1>1 DEF Covers, h
  <2> QED BY <2>1, <2>2
<1>4. ASSUME NEW t \in rest, NEW u \in rest, q(t) = q(u)
      PROVE  t = u
  <2>1. t \in sites /\ u \in sites /\ f[t] # f[s] /\ f[u] # f[s]
    BY <1>1 DEF Covers
  <2>2. f[t] = f[u]
    BY <2>1, <1>4
  <2> QED BY <2>1, <2>2, <1>1 DEF Covers
<1> HIDE DEF q
<1>5. k \in 1..Len(h)
  BY <1>2 DEF h
<1>6. ASSUME NEW t \in rest
      PROVE  g[t] \in DOMAIN r /\ r[g[t]].name = MacroIn(b, t)
  <2>1. q(t) \in 1..Len(h) /\ q(t) # k
    BY <1>2, <1>3
  <2>2. CASE q(t) < k
    <3>1. g[t] = q(t) /\ g[t] \in 1..(Len(h) - 1)
      BY <2>1, <2>2, <1>2, <1>5
    <3>2. r[g[t]] = h[q(t)]
      BY <3>1, <2>2, <1>2
    <3> QED BY <3>1, <3>2, <1>2, <1>3
  <2>3. CASE ~ (q(t) < k)
    <3>1. g[t] = q(t) - 1 /\ g[t] \in 1..(Len(h) - 1) /\ ~ (g[t] < k) /\ g[t] + 1 = q(t)
      BY <2>1, <2>3, <1>2, <1>5
    <3>2. r[g[t]] = h[q(t)]
      BY <3>1, <1>2
    <3> QED BY <3>1, <3>2, <1>2, <1>3
  <2> QED BY <2>2, <2>3
<1>7. ASSUME NEW t \in rest, NEW u \in rest, g[t] = g[u]
      PROVE  t = u
  <2>1. q(t) \in 1..Len(h) /\ q(t) # k /\ q(u) \in 1..Len(h) /\ q(u) # k
    BY <1>2, <1>3
  <2>2. (IF q(t) < k THEN q(t) ELSE q(t) - 1) = (IF q(u) < k THEN q(u) ELSE q(u) - 1)
    BY <1>7
  <2>3. q(t) = q(u)
    BY <2>1, <2>2, <1>2, <1>5
  <2> QED BY <2>3, <1>4
<1>8. g \in [rest -> DOMAIN r]
  BY <1>6
<1> QED BY <1>6, <1>7, <1>8 DEF Covered, Covers, r

-----------------------------------------------------------------------------
(* A static variable is visited twice when it is in a block.  That does no *)
(* harm if its block has other statements, where its place in the tree can *)
(* be replaced, and if no second record of its macro is there to be found. *)
(* (Without this, run static_twice finds a constant that is lost.)         *)

StaticMacro(b, j) ==
  LET n == b.nodes[j]
  IN  n.kind = "decl" /\ n.type = "int" /\ n.static /\ n.init # <<>> /\ n.init[1] \in Names

Inner(b, j) ==
  \E p \in DOMAIN b.nodes : \E i \in DOMAIN b.nodes[p].ops :
    b.nodes[p].ops[i] = <<"node", j>>

(* At most one record is of macro m. *)
Single(head, m) ==
  \A h, k \in DOMAIN head : head[h].name = m /\ head[k].name = m => h = k

StaticsApart(b) ==
  \A p \in DOMAIN b.nodes : \A i \in DOMAIN b.nodes[p].ops : \A j \in DOMAIN b.nodes :
    b.nodes[p].ops[i] = <<"node", j>> /\ StaticMacro(b, j) =>
      /\ b.nodes[p].kind = "block" /\ Len(b.nodes[p].ops) # 1
      /\ Single(b.records, b.nodes[j].init[1])

LEMMA SingleRemove ==
  ASSUME NEW S, NEW l, l.head \in Seq(S), NEW k \in DOMAIN l.head, NEW m,
         Single(l.head, m)
  PROVE  /\ Single(RemoveElem(l, k).head, m)
         /\ l.head[k].name = m =>
              \A j \in DOMAIN RemoveElem(l, k).head : RemoveElem(l, k).head[j].name # m
<1> DEFINE h == l.head
           r == RemoveElem(l, k).head
           old(j) == IF j < k THEN j ELSE j + 1
<1>1. /\ DOMAIN r = 1..(Len(h) - 1) /\ Len(h) \in Nat /\ DOMAIN h = 1..Len(h)
      /\ \A j \in 1..(Len(h) - 1) : r[j] = IF j < k THEN h[j] ELSE h[j + 1]
  BY RemoveShifts
<1>2. k \in 1..Len(h) /\ Single(h, m)
  BY <1>1
<1> HIDE DEF r, h
<1>3. ASSUME NEW j \in DOMAIN r
      PROVE  old(j) \in DOMAIN h /\ old(j) # k /\ r[j] = h[old(j)]
  BY <1>1, <1>2
<1>4. ASSUME NEW i \in DOMAIN r, NEW j \in DOMAIN r, r[i].name = m, r[j].name = m
      PROVE  i = j
  <2>1. old(i) = old(j)
    BY <1>2, <1>3, <1>4 DEF Single
  <2> QED BY <2>1, <1>1, <1>2
<1>5. ASSUME h[k].name = m, NEW j \in DOMAIN r PROVE r[j].name # m
  BY <1>1, <1>2, <1>3, <1>5 DEF Single
<1> QED BY <1>4, <1>5 DEF Single, r, h

(* No record is of macro m. *)
None(head, m) == \A k \in DOMAIN head : head[k].name # m

LEMMA NoneRemove ==
  ASSUME NEW S, NEW l, l.head \in Seq(S), NEW k \in DOMAIN l.head, NEW m,
         None(l.head, m)
  PROVE  None(RemoveElem(l, k).head, m)
<1>1. ASSUME NEW j \in DOMAIN RemoveElem(l, k).head
      PROVE  RemoveElem(l, k).head[j].name # m
  <2>1. \E i \in DOMAIN l.head : RemoveElem(l, k).head[j] = l.head[i]
    BY RecordsStay
  <2> QED BY <2>1 DEF None
<1> QED BY <1>1 DEF None

-----------------------------------------------------------------------------
(* The inductive invariant of Loud.                                        *)

(* Every constant left has a record of its own. *)
Provided == failed \/ Covered(mods.head, left, body)

(* A static that was not replaced has its constant still. *)
Fresh ==
  \A j \in DOMAIN body.nodes : StaticMacro(body, j) /\ j \notin listed => <<j, 1>> \in left

(* A static in a block has one record, and none once it was replaced: its  *)
(* second visit finds nothing.                                             *)
Once ==
  \A j \in DOMAIN body.nodes : Inner(body, j) /\ StaticMacro(body, j) =>
    /\ Single(mods.head, body.nodes[j].init[1])
    /\ j \in listed => None(mods.head, body.nodes[j].init[1])

(* What was replaced is not visited again, but for what is in a block. *)
Passed == \A j \in listed : j < pos \/ Inner(body, j)

InAggregate == step = "retry" => At(prev).type # "int"

LoudInv == Provided /\ Fresh /\ Once /\ Passed /\ InAggregate /\ Loud

(* A record is used up for a constant: alone, or with the static that has  *)
(* it.                                                                     *)
LEMMA SubstituteLoud ==
  ASSUME WalkInv, body' = body, Provided, Fresh, Once,
         NEW j \in DOMAIN body.nodes, NEW i, NEW k \in DOMAIN mods.head,
         <<j, i>> \in left, Given(At(j), i) = mods.head[k].name,
         Substitute(j, i, k), failed' = failed,
         \/ listed' = listed /\ ~ (StaticMacro(body, j) /\ i = 1)
         \/ listed' = listed \cup {j} /\ i = 1
  PROVE  Provided' /\ Fresh' /\ Once'
<1> DEFINE r == RemoveElem(mods, k).head
<1>1. mods'.head = r /\ left' = left \ {<<j, i>>} /\ mods.head \in Seq(Node(Names))
  BY Parts DEF Substitute, WalkInv, ListOK
<1>2. Provided'
  <2>1. MacroIn(body, <<j, i>>) = mods.head[k].name
    BY DEF MacroIn, At
  <2>2. Covered(mods.head, left, body) => Covered(r, left \ {<<j, i>>}, body)
    BY <2>1, <1>1, CoveredRemove
  <2> QED BY <2>2, <1>1 DEF Provided
<1>3. Fresh'
  <2>1. ASSUME NEW h \in DOMAIN body.nodes, StaticMacro(body, h), h \notin listed'
        PROVE  <<h, 1>> \in left'
    <3>1. <<h, 1>> \in left
      BY <2>1 DEF Fresh
    <3>2. <<h, 1>> # <<j, i>>
      BY <2>1
    <3> QED BY <3>1, <3>2, <1>1
  <2> QED BY <2>1 DEF Fresh
<1>4. Once'
  <2>1. ASSUME NEW h \in DOMAIN body.nodes, Inner(body, h), StaticMacro(body, h)
        PROVE  /\ Single(r, body.nodes[h].init[1])
               /\ h \in listed' => None(r, body.nodes[h].init[1])
    <3> DEFINE m == body.nodes[h].init[1]
    <3>1. Single(mods.head, m) /\ (h \in listed => None(mods.head, m))
      BY <2>1 DEF Once
    <3>2. /\ Single(r, m)
          /\ mods.head[k].name = m => None(r, m)
      BY <3>1, <1>1, SingleRemove DEF None
    <3>3. h \in listed => None(r, m)
      BY <3>1, <1>1, NoneRemove
    <3>4. ASSUME h \in listed', h \notin listed
          PROVE  None(r, m)
      <4>1. h = j
        BY <3>4
      <4>2. mods.head[k].name = m
        BY <4>1, <2>1, <3>4 DEF StaticMacro, Given, At
      <4> QED BY <4>2, <3>2
    <3> QED BY <3>2, <3>3, <3>4
  <2> QED BY <2>1, <1>1 DEF Once
<1> QED BY <1>2, <1>3, <1>4

(* Nothing happens to the list and the tree but for an error. *)
LEMMA UntouchedLoud ==
  ASSUME WalkInv, body' = body, Provided, Fresh, Once,
         UNCHANGED tree, failed' = TRUE \/ failed' = failed
  PROVE  Provided' /\ Fresh' /\ Once'
<1>1. mods' = mods /\ listed' = listed /\ left' = left
  BY DEF tree
<1>2. Provided'
  BY <1>1 DEF Provided
<1>3. Fresh' /\ Once'
  BY <1>1 DEF Fresh, Once
<1> QED BY <1>2, <1>3

LEMMA ClearLoud ==
  ASSUME WalkInv, body' = body, Provided, Fresh, Once,
         NEW start, Clear(start), UNCHANGED <<listed, left>>
  PROVE  Provided' /\ Fresh' /\ Once'
<1>1. CASE Reported(mods, start) = {}
  <2>1. mods' = mods /\ failed' = failed
    BY <1>1, Parts DEF Clear, CheckEmpty, WalkInv
  <2> QED BY <2>1, UntouchedLoud DEF tree
<1>2. CASE Reported(mods, start) # {}
  <2>1. failed' = TRUE /\ mods' = Recount(<<>>)
    BY <1>2, Parts DEF Clear, CheckEmpty, EmptyList, WalkInv
  <2>2. mods'.head = <<>> /\ DOMAIN mods'.head = {}
    BY <2>1 DEF Recount
  <2>3. Once'
    BY <2>2 DEF Once, Single, None
  <2>4. Fresh' /\ Provided'
    BY <2>1 DEF Fresh, Provided
  <2> QED BY <2>3, <2>4
<1> QED BY <1>1, <1>2

LEMMA DeclarationLoud ==
  ASSUME WalkInv, body' = body, Provided, Fresh, Once,
         NEW j \in DOMAIN body.nodes, At(j).kind = "decl",
         NEW use, use \subseteq DOMAIN mods.head, NEW inPlace,
         IntDeclaration(j, use, inPlace),
         StaticMacro(body, j) =>
           inPlace /\ (j \in listed => None(mods.head, body.nodes[j].init[1]))
  PROVE  Provided' /\ Fresh' /\ Once'
<1>1. CASE UNCHANGED tree
  <2>1. failed' = TRUE \/ failed' = failed
    BY DEF IntDeclaration
  <2> QED BY <2>1, <1>1, UntouchedLoud
<1>2. ASSUME NEW k \in use, InitAgrees(j, k),
             IF At(j).static /\ ~ inPlace
               THEN mods' = RemoveElem(mods, k) /\ left' = left
               ELSE Substitute(j, 1, k),
             listed' = IF At(j).static /\ inPlace THEN listed \cup {j} ELSE listed,
             failed' = failed
      PROVE  Provided' /\ Fresh' /\ Once'
  <2>1. /\ k \in DOMAIN mods.head /\ At(j).type = "int" /\ At(j).init # <<>>
        /\ At(j).init[1] = mods.head[k].name /\ (At(j).static \/ <<j, 1>> \in left)
    BY <1>2 DEF InitAgrees
  <2>2. mods.head[k].name \in Names
    <3>1. mods.head \in Seq(Node(Names))
      BY Parts DEF WalkInv, ListOK
    <3>2. mods.head[k] \in Node(Names)
      BY <2>1, <3>1
    <3> QED BY <3>2 DEF Node
  <2>3. At(j).static => StaticMacro(body, j)
    BY <2>1, <2>2 DEF StaticMacro, At
  <2>4. At(j).static => inPlace /\ j \notin listed
    BY <2>1, <2>3 DEF None, At
  <2>5. <<j, 1>> \in left
    BY <2>1, <2>3, <2>4 DEF Fresh
  <2>6. Substitute(j, 1, k) /\ Given(At(j), 1) = mods.head[k].name
    BY <1>2, <2>1, <2>4 DEF Given
  <2>7. \/ listed' = listed /\ ~ StaticMacro(body, j)
        \/ listed' = listed \cup {j}
    BY <1>2, <2>4 DEF StaticMacro, At
  <2> QED BY <1>2, <2>1, <2>5, <2>6, <2>7, SubstituteLoud
<1> QED BY <1>1, <1>2 DEF IntDeclaration

-----------------------------------------------------------------------------
(* Every step keeps it.                                                    *)

LEMMA LoudInit ==
  ASSUME Init, StaticsApart(body)
  PROVE  LoudInv
<1>1. Recount(body.records).head = body.records
  BY DEF Recount
<1>2. Provided
  BY <1>1, CoveredAtFirst DEF Init, Provided
<1>3. Fresh
  <2>1. ASSUME NEW j \in DOMAIN body.nodes, StaticMacro(body, j)
        PROVE  <<j, 1>> \in Consts(body)
    <3> DEFINE n == body.nodes[j]
    <3>1. n \in TreeNode /\ n.kind = "decl" /\ n.init # <<>> /\ n.init[1] \in Names
      BY <2>1, NodesAre DEF Init, StaticMacro, At
    <3>2. n.init \in Seq(Names \cup {NULL, EXPR})
      BY <3>1 DEF TreeNode
    <3>3. 1 \in Places(n) /\ Given(n, 1) \in Names
      BY <3>1, <3>2 DEF Places, Given
    <3> QED BY <3>3 DEF Consts
  <2> QED BY <2>1 DEF Init, Fresh
<1>4. Once
  <2>1. mods.head = body.records /\ listed = {}
    BY <1>1 DEF Init
  <2>2. ASSUME NEW j \in DOMAIN body.nodes, Inner(body, j), StaticMacro(body, j)
        PROVE  Single(body.records, body.nodes[j].init[1])
    BY <2>2 DEF Inner, StaticsApart
  <2> QED BY <2>1, <2>2 DEF Once
<1>5. Passed /\ InAggregate
  BY DEF Init, Passed, InAggregate
<1>6. Loud
  <2>1. pos = 1 /\ Len(body.nodes) \in Nat
    BY NodesAre DEF Init
  <2> QED BY <2>1 DEF Loud, Over
<1> QED BY <1>2, <1>3, <1>4, <1>5, <1>6 DEF LoudInv

(* While nodes are visited, what remains to be shown. *)
LEMMA VisitingLoud ==
  ASSUME WalkInv, body' = body, Visiting, Passed, pos' = pos \/ pos' = pos + 1
  PROVE  /\ Loud'
         /\ listed' = listed => Passed'
         /\ \A j : listed' = listed \cup {j} /\ (j < pos' \/ Inner(body, j)) => Passed'
<1>1. pos \in Nat /\ pos <= Len(body.nodes) /\ Len(body.nodes) \in Nat
      /\ listed \subseteq Nat
  BY NodesAre, Parts DEF Visiting, WalkInv, TreeOK
<1>2. Loud'
  BY <1>1 DEF Loud, Over
<1>3. \A j \in listed : j < pos' \/ Inner(body, j)
  BY <1>1 DEF Passed
<1> QED BY <1>2, <1>3 DEF Passed

LEMMA IdleLoud ==
  ASSUME WalkInv, LoudInv,
         Skip \/ NoneMissed \/ RetryStale \/ RetryAggregate \/ CheckUsage
           \/ ExprCall \/ ExprPass \/ ExprEnd
  PROVE  LoudInv'
<1>1. /\ body' = body /\ Visiting /\ UNCHANGED tree /\ failed' = failed
      /\ pos' = pos \/ pos' = pos + 1
  BY DEF Skip, NoneMissed, RetryStale, RetryAggregate, CheckUsage, ExprCall, ExprPass,
         ExprEnd, Begins, InExpr, Looking, Return, NextVisit
<1>2. Provided' /\ Fresh' /\ Once'
  BY <1>1, UntouchedLoud DEF LoudInv
<1>3. listed' = listed
  BY <1>1 DEF tree
<1>4. Passed' /\ Loud'
  BY <1>1, <1>3, VisitingLoud DEF LoudInv
<1>5. InAggregate'
  <2>1. CASE RetryAggregate
    BY <2>1 DEF RetryAggregate, InAggregate, At
  <2>2. CASE ~ RetryAggregate
    <3>1. step' # "retry"
      BY <2>2, Parts DEF Skip, NoneMissed, RetryStale, CheckUsage, ExprCall, ExprPass,
         ExprEnd, Begins, InExpr, Looking, Return, NextVisit, WalkInv
    <3> QED BY <3>1 DEF InAggregate
  <2> QED BY <2>1, <2>2
<1> QED BY <1>2, <1>4, <1>5 DEF LoudInv

LEMMA RetryLoud ==
  ASSUME WalkInv, LoudInv, RetryInt \/ RetryElement \/ RetryEnd \/ RetryFound
  PROVE  LoudInv'
<1>1. /\ body' = body /\ Visiting /\ pos' = pos
  BY DEF RetryInt, RetryElement, RetryEnd, RetryFound, Begins
<1>2. ListOK /\ body \in Bodies /\ StepOK /\ PrevOK
  BY Parts DEF WalkInv
<1>3. CASE RetryInt
  <2> DEFINE use == GetElem(mods, mods.start)
  <2>1. /\ IntDeclaration(prev, use, TRUE) /\ prev \notin listed /\ step' # "retry"
        /\ prev \in DOMAIN body.nodes /\ At(prev).kind = "decl" /\ prev < pos
    BY <1>2, <1>3 DEF RetryInt, Begins, Missed, PrevOK
  <2>2. use \subseteq DOMAIN mods.head
    BY FoundIsRecord
  <2> HIDE DEF use
  <2>3. Provided' /\ Fresh' /\ Once'
    BY <2>1, <2>2, <1>1, DeclarationLoud DEF LoudInv
  <2>4. listed' = listed \/ listed' = listed \cup {prev}
    BY <2>1, <2>2, Parts, DeclarationTypes DEF WalkInv
  <2>5. Passed' /\ Loud'
    BY <2>1, <2>4, <1>1, VisitingLoud DEF LoudInv
  <2> QED BY <2>1, <2>3, <2>5 DEF LoudInv, InAggregate
<1>4. CASE RetryElement
  <2>1. PICK i \in DOMAIN At(prev).init : \E k \in Agreeing(i) : Substitute(prev, i, k)
    BY <1>4 DEF RetryElement
  <2>2. PICK k \in Agreeing(i) : Substitute(prev, i, k)
    BY <2>1
  <2>3. /\ prev \in DOMAIN body.nodes /\ At(prev).kind = "decl" /\ At(prev).type # "int"
        /\ listed' = listed /\ failed' = failed /\ step' = step /\ prev' = prev
    BY <1>2, <1>4 DEF RetryElement, LoudInv, InAggregate, StepOK, PrevOK
  <2>4. /\ k \in DOMAIN mods.head /\ <<prev, i>> \in left
        /\ Given(At(prev), i) = mods.head[k].name
    BY <2>3, FoundIsRecord DEF Given
  <2>5. ~ StaticMacro(body, prev)
    BY <2>3 DEF StaticMacro, At
  <2>6. Provided' /\ Fresh' /\ Once'
    BY <2>2, <2>3, <2>4, <2>5, <1>1, SubstituteLoud DEF LoudInv
  <2>7. Passed' /\ Loud'
    BY <2>3, <1>1, VisitingLoud DEF LoudInv
  <2> QED BY <2>3, <2>6, <2>7, <1>1 DEF LoudInv, InAggregate, At
<1>5. CASE RetryEnd
  <2>1. /\ prev \in DOMAIN body.nodes /\ At(prev).type # "int" /\ prev < pos
        /\ listed' = listed \/ listed' = listed \cup {prev}
        /\ mods' = mods /\ left' = left /\ failed' = failed /\ step' # "retry"
    BY <1>2, <1>5 DEF RetryEnd, LoudInv, InAggregate, StepOK, PrevOK
  <2>2. ~ StaticMacro(body, prev)
    BY <2>1 DEF StaticMacro, At
  <2>3. Provided' /\ Fresh'
    BY <2>1, <1>1 DEF LoudInv, Provided, Fresh
  <2>4. \A j : StaticMacro(body, j) /\ j \in listed' => j \in listed
    BY <2>1, <2>2
  <2>5. Once'
    BY <2>1, <2>4, <1>1 DEF LoudInv, Once
  <2>6. Passed' /\ Loud'
    BY <2>1, <1>1, VisitingLoud DEF LoudInv
  <2> QED BY <2>1, <2>3, <2>5, <2>6 DEF LoudInv, InAggregate
<1>6. CASE RetryFound
  <2>1. Clear(At(pos).loc) /\ UNCHANGED <<listed, left>> /\ step' # "retry"
    BY <1>6 DEF RetryFound
  <2>2. Provided' /\ Fresh' /\ Once'
    BY <2>1, <1>1, ClearLoud DEF LoudInv
  <2>3. Passed' /\ Loud'
    BY <2>1, <1>1, VisitingLoud DEF LoudInv
  <2> QED BY <2>1, <2>2, <2>3 DEF LoudInv, InAggregate
<1> QED BY <1>3, <1>4, <1>5, <1>6

LEMMA ExprLoud ==
  ASSUME WalkInv, StaticsApart(body), LoudInv, ExprDecl \/ ExprLeaf
  PROVE  LoudInv'
<1>1. /\ body' = body /\ Visiting /\ InExpr /\ body \in Bodies /\ TypeOK
      /\ ListOK /\ Chain
  BY Parts DEF ExprDecl, ExprLeaf, Looking, InExpr, WalkInv
<1>2. /\ calls \in Seq(Call) /\ Len(calls) \in Nat /\ Len(calls) > 0 /\ calls[1].node = pos
      /\ Top.node \in DOMAIN body.nodes /\ step = "expr" /\ pos \in Nat
  BY <1>1, TopIs, NodesAre DEF Visiting
<1>3. CASE ExprLeaf
  <2>1. PICK k \in Use : Operand[2] = mods.head[k].name
    BY <1>3 DEF ExprLeaf, LeafAgrees
  <2>2. PICK h \in Use : Substitute(Top.node, Top.at, h)
    BY <1>3 DEF ExprLeaf
  <2>3. h = k
    <3>1. h \in DOMAIN mods.head /\ k \in DOMAIN mods.head /\ DOMAIN mods.head \subseteq Nat
      BY <2>1, <2>2, <1>1, FoundIsRecord DEF Use, ListOK
    <3>2. ~ (h < k) /\ ~ (k < h)
      BY <2>1, <2>2, <3>1 DEF Use, FindUse, GetElem, GetElem2, FirstElem
    <3> QED BY <3>1, <3>2
  <2>4. /\ Operand[1] = "leaf" /\ <<Top.node, Top.at>> \in left /\ At(Top.node).kind # "decl"
        /\ listed' = listed /\ failed' = failed /\ step' = step /\ pos' = pos
    BY <1>3 DEF ExprLeaf, LeafAgrees, Looking
  <2>5. Given(At(Top.node), Top.at) = mods.head[k].name
    BY <2>1, <2>4 DEF Given, Operand
  <2>6. ~ StaticMacro(body, Top.node)
    BY <2>4 DEF StaticMacro, At
  <2>7. k \in DOMAIN mods.head
    BY <2>1, FoundIsRecord DEF Use
  <2>8. Provided' /\ Fresh' /\ Once'
    BY <2>2, <2>3, <2>4, <2>5, <2>6, <2>7, <1>1, <1>2, SubstituteLoud DEF LoudInv
  <2>9. Passed' /\ Loud'
    BY <2>4, <1>1, VisitingLoud DEF LoudInv
  <2> QED BY <2>4, <2>8, <2>9, <1>2 DEF LoudInv, InAggregate
<1>4. CASE ExprDecl
  <2> DEFINE j == Top.node
  <2>1. /\ IntDeclaration(j, Use, InPlace) /\ At(j).kind = "decl"
        /\ Use \subseteq DOMAIN mods.head /\ Return(Fixed(j, Use))
    BY <1>4, FoundIsRecord DEF ExprDecl, Use
  <2>2. \/ pos' = pos + 1 /\ step' = "prev"
        \/ pos' = pos /\ step' = step
    BY <2>1 DEF Return, NextVisit
  <2>3. ASSUME Len(calls) = 1
        PROVE  /\ StaticMacro(body, j) =>
                    InPlace /\ (j \in listed => None(mods.head, body.nodes[j].init[1]))
               /\ j < pos' \/ Inner(body, j)
    <3>1. j = pos /\ pos' = pos + 1 /\ InPlace
      BY <2>1, <2>3, <1>2 DEF Top, Return, NextVisit, InPlace
    <3>2. j \in listed => Inner(body, j)
      BY <3>1, <1>2 DEF LoudInv, Passed
    <3>3. StaticMacro(body, j) /\ j \in listed => None(mods.head, body.nodes[j].init[1])
      BY <3>2, <1>2 DEF LoudInv, Once
    <3>4. j < pos'
      BY <3>1, <1>2
    <3> QED BY <3>1, <3>3, <3>4
  <2>4. ASSUME Len(calls) # 1
        PROVE  /\ StaticMacro(body, j) =>
                    InPlace /\ (j \in listed => None(mods.head, body.nodes[j].init[1]))
               /\ j < pos' \/ Inner(body, j)
    <3> DEFINE n == Len(calls)
               c == Caller
    <3>0. c = calls[n - 1] /\ calls[n].node = j /\ n \in Nat /\ n > 0 /\ n # 1
      BY <2>4, <1>2 DEF Caller, Top
    <3>1. n \in 2..n /\ n - 1 \in 1..n /\ c = calls[n - 1] /\ calls[n].node = j
      <4> HIDE DEF n, c, j
      <4> QED BY <3>0
    <3>2. c.at \in DOMAIN At(c.node).ops /\ At(c.node).ops[c.at] = <<"node", j>>
      BY <3>1, <1>1 DEF Chain
    <3>3. c.node \in DOMAIN body.nodes
      <4>1. c \in Call
        BY <3>1, <1>2
      <4> QED BY <4>1 DEF Call
    <3>4. Inner(body, j)
      BY <3>2, <3>3 DEF Inner, At
    <3>5. StaticMacro(body, j) => InPlace
      BY <3>2, <3>3, <1>2 DEF StaticsApart, InPlace, At
    <3>6. StaticMacro(body, j) /\ j \in listed => None(mods.head, body.nodes[j].init[1])
      BY <3>4, <1>2 DEF LoudInv, Once
    <3> QED BY <3>4, <3>5, <3>6
  <2>5. /\ StaticMacro(body, j) =>
             InPlace /\ (j \in listed => None(mods.head, body.nodes[j].init[1]))
        /\ j < pos' \/ Inner(body, j)
    BY <2>3, <2>4
  <2>6. j \in DOMAIN body.nodes
    BY <1>2
  <2> HIDE DEF j
  <2>7. Provided' /\ Fresh' /\ Once'
    BY <2>1, <2>5, <2>6, <1>1, DeclarationLoud DEF LoudInv
  <2>8. listed' = listed \/ listed' = listed \cup {j}
    BY <2>1, <1>1, Parts, DeclarationTypes
  <2>9. Passed' /\ Loud'
    BY <2>2, <2>5, <2>8, <1>1, VisitingLoud DEF LoudInv
  <2> QED BY <2>2, <2>7, <2>9, <1>2 DEF LoudInv, InAggregate
<1> QED BY <1>3, <1>4

LEMMA FinishLoud ==
  ASSUME WalkInv, LoudInv, Finish
  PROVE  LoudInv'
<1>1. /\ body' = body /\ pos' = pos + 1 /\ pos = Len(body.nodes) + 1 /\ step' = step
      /\ prev' = prev /\ listed' = listed /\ left' = left /\ Clear(MAX_LOCATION_T)
      /\ Len(body.nodes) \in Nat
  BY NodesAre DEF Finish, WalkInv
<1>2. Provided' /\ Fresh' /\ Once'
  BY <1>1, ClearLoud DEF LoudInv
<1>3. Passed' /\ InAggregate'
  <2>1. listed \subseteq Nat
    BY NodesAre, Parts DEF WalkInv, TreeOK
  <2>2. \A j \in listed : j < pos' \/ Inner(body, j)
    BY <2>1, <1>1 DEF LoudInv, Passed
  <2>3. InAggregate'
    BY <1>1 DEF LoudInv, InAggregate, At
  <2> QED BY <2>2, <2>3, <1>1 DEF Passed
<1>4. Loud'
  <2>1. SUFFICES ASSUME ~ failed' PROVE left' = {}
    BY DEF Loud
  <2>2. Nodes(mods) = {} /\ failed = failed'
    BY <2>1, <1>1, Parts DEF Clear, Reported, WalkInv
  <2>3. DOMAIN mods.head = {}
    BY <2>2 DEF Nodes
  <2>4. PICK f : f \in [left -> DOMAIN mods.head]
    BY <2>1, <2>2 DEF LoudInv, Provided, Covered, Covers
  <2> QED BY <2>3, <2>4, <1>1
<1> QED BY <1>2, <1>3, <1>4 DEF LoudInv

LEMMA LoudStep ==
  ASSUME WalkInv, StaticsApart(body), LoudInv, [Next]_vars
  PROVE  LoudInv'
<1>1. CASE UNCHANGED vars
  <2>1. UNCHANGED <<body, pos, step, calls, mods, listed, left, active, prev, failed, crashed>>
    BY <1>1 DEF vars, tree
  <2>2. Provided' /\ Fresh' /\ Once'
    BY <2>1, UntouchedLoud DEF LoudInv, tree
  <2> QED BY <2>1, <2>2 DEF LoudInv, Passed, InAggregate, Loud, Over, At
<1>2. CASE Next
  <2>1. CASE Skip \/ NoneMissed \/ RetryStale \/ RetryAggregate \/ CheckUsage
               \/ ExprCall \/ ExprPass \/ ExprEnd
    BY <2>1, IdleLoud
  <2>2. CASE RetryInt \/ RetryElement \/ RetryEnd \/ RetryFound
    BY <2>2, RetryLoud
  <2>3. CASE ExprDecl \/ ExprLeaf
    BY <2>3, ExprLoud
  <2>4. CASE Finish
    BY <2>4, FinishLoud
  <2>5. CASE Terminated
    BY <2>5, <1>1 DEF Terminated
  <2> QED BY <1>2, <2>1, <2>2, <2>3, <2>4, <2>5 DEF Next, Retry, CheckExpr
<1> QED BY <1>1, <1>2

(* The walk of a function ends with an error or has substituted every      *)
(* constant of a macro (README.md:74-75), whatever the function and        *)
(* however its constants and records are laid out, as long as a static     *)
(* variable in a block with a macro is not alone there and its macro is    *)
(* used only once.  Run static_twice shows that this is needed.            *)
THEOREM LoudCorrect == Spec => [](StaticsApart(body) => Loud)
<1> DEFINE Inv == WalkInv /\ (StaticsApart(body) => LoudInv)
<1>1. Init => Inv
  BY TypesInit, LoudInit DEF WalkInv, Init
<1>2. Inv /\ [Next]_vars => Inv'
  <2> SUFFICES ASSUME Inv, [Next]_vars PROVE Inv'
    OBVIOUS
  <2>1. WalkInv'
    BY TypesStep
  <2>2. body' = body
    BY UsageTypes, PrevTypes, RetryTypes, ExprTypes, EndTypes, FinishTypes
       DEF WalkInv, vars, Next, Retry, CheckExpr, Terminated
  <2>3. StaticsApart(body)' => LoudInv'
    BY <2>2, LoudStep
  <2> QED BY <2>1, <2>3
<1>3. Inv => (StaticsApart(body) => Loud)
  BY DEF LoudInv
<1> QED BY <1>1, <1>2, <1>3, PTL DEF Spec

-----------------------------------------------------------------------------
(* Plain bodies: the uses in a node.                                       *)

LEMMA BodyIs ==
  ASSUME NEW b \in Bodies
  PROVE  /\ b.nodes \in Seq(TreeNode) /\ b.records \in Seq(Node(Names))
         /\ Len(b.nodes) \in Nat /\ DOMAIN b.nodes = 1..Len(b.nodes)
         /\ Len(b.records) \in Nat /\ DOMAIN b.records = 1..Len(b.records)
         /\ \A u \in DOMAIN b.records : b.records[u].loc \in Location
         /\ \A j \in DOMAIN b.nodes :
              /\ b.nodes[j] \in TreeNode
              /\ b.nodes[j].loc \in Location /\ b.nodes[j].finish \in Location
              /\ b.nodes[j].ops \in Seq(Operands)
              /\ b.nodes[j].kind = "decl" =>
                   /\ b.nodes[j].init \in Seq(Names \cup {NULL, EXPR})
                   /\ b.nodes[j].type \in {"int", "aggregate", "pointer"}
              /\ b.nodes[j].kind \in {"decl", "block", "control", "expr"}
              /\ \A i \in DOMAIN b.nodes[j].ops :
                   b.nodes[j].ops[i][1] = "node"
                     => b.nodes[j].ops[i][2] \in DOMAIN b.nodes /\ b.nodes[j].ops[i][2] > j
<1>1. /\ b.nodes \in Seq(TreeNode) /\ b.records \in Seq(Node(Names))
      /\ \A j \in DOMAIN b.nodes : \A i \in DOMAIN b.nodes[j].ops :
           b.nodes[j].ops[i][1] = "node"
             => b.nodes[j].ops[i][2] \in (j + 1)..Len(b.nodes)
  BY BodiesAssumption
<1>2. /\ Len(b.nodes) \in Nat /\ DOMAIN b.nodes = 1..Len(b.nodes)
      /\ Len(b.records) \in Nat /\ DOMAIN b.records = 1..Len(b.records)
  BY <1>1
<1>3. ASSUME NEW u \in DOMAIN b.records PROVE b.records[u].loc \in Location
  <2>1. b.records[u] \in Node(Names)
    BY <1>1, <1>2, ElementOfSeq
  <2> QED BY <2>1 DEF Node
<1>4. ASSUME NEW j \in DOMAIN b.nodes
      PROVE  /\ b.nodes[j] \in TreeNode
             /\ b.nodes[j].loc \in Location /\ b.nodes[j].finish \in Location
             /\ b.nodes[j].ops \in Seq(Operands)
             /\ b.nodes[j].kind = "decl" =>
                   /\ b.nodes[j].init \in Seq(Names \cup {NULL, EXPR})
                   /\ b.nodes[j].type \in {"int", "aggregate", "pointer"}
             /\ b.nodes[j].kind \in {"decl", "block", "control", "expr"}
  <2>1. b.nodes[j] \in TreeNode
    BY <1>1, <1>2, ElementOfSeq
  <2> QED BY <2>1 DEF TreeNode
<1>5. ASSUME NEW j \in DOMAIN b.nodes, NEW i \in DOMAIN b.nodes[j].ops,
             b.nodes[j].ops[i][1] = "node"
      PROVE  b.nodes[j].ops[i][2] \in DOMAIN b.nodes /\ b.nodes[j].ops[i][2] > j
  <2>1. b.nodes[j].ops[i][2] \in (j + 1)..Len(b.nodes) /\ j \in Nat /\ j > 0
    BY <1>1, <1>2, <1>5
  <2> QED BY <2>1, <1>2
<1> QED BY <1>1, <1>2, <1>3, <1>4, <1>5

(* The ghost numbers of a node rise. *)
LEMMA NumbersRise ==
  ASSUME NEW b \in Bodies, Plain(b), NEW j \in DOMAIN b.nodes, Marked(b, j)
  PROVE  /\ b.nodes[j].kind \in {"decl", "block", "expr"} /\ Ordered(b, j)
         /\ Len(Items(b.nodes[j])) \in Nat
         /\ DOMAIN Items(b.nodes[j]) = 1..Len(Items(b.nodes[j]))
         /\ Places(b.nodes[j]) = 1..Len(Items(b.nodes[j]))
         /\ DOMAIN b.from[j] = 1..(Len(Items(b.nodes[j])) + 1)
         /\ Len(b.from[j]) = Len(Items(b.nodes[j])) + 1
         /\ \A i \in DOMAIN b.from[j] :
              /\ b.from[j][i] \in Nat
              /\ Starts(b, j) <= b.from[j][i] /\ b.from[j][i] <= Ends(b, j)
         /\ \A h, i \in DOMAIN b.from[j] : h <= i => b.from[j][h] <= b.from[j][i]
         /\ Starts(b, j) \in Nat /\ Ends(b, j) \in Nat
<1> DEFINE n == b.nodes[j]
           f == b.from[j]
<1>1. /\ Ordered(b, j) /\ f \in Seq(Nat)
  BY DEF Plain, PlainNode
<1>2. n.kind \in {"decl", "block", "expr"}
  BY <1>1, BodyIs DEF Ordered
<1>3. n.ops \in Seq(Operands) /\ (n.kind = "decl" => n.init \in Seq(Names \cup {NULL, EXPR}))
  BY BodyIs
<1>4. /\ Len(Items(n)) \in Nat /\ DOMAIN Items(n) = 1..Len(Items(n))
      /\ Places(n) = 1..Len(Items(n))
  BY <1>3 DEF Items, Places
<1>5. /\ DOMAIN f = 1..(Len(Items(n)) + 1)
      /\ \A h, i \in DOMAIN f : h <= i => f[h] <= f[i]
  BY <1>1 DEF Ordered
<1> HIDE DEF n
<1>6. Len(f) = Len(Items(n)) + 1
  <2>1. Len(f) \in Nat /\ DOMAIN f = 1..Len(f)
    BY <1>1
  <2> QED BY <2>1, <1>4, <1>5
<1>7. 1 \in DOMAIN f /\ Len(f) \in DOMAIN f
  BY <1>4, <1>5, <1>6
<1>8. \A i \in DOMAIN f : f[i] \in Nat /\ 1 <= i /\ i <= Len(f)
  <2>1. \A i \in DOMAIN f : 1 <= i /\ i <= Len(f)
    BY <1>4, <1>5, <1>6
  <2> QED BY <2>1, <1>1
<1>9. \A i \in DOMAIN f : f[1] <= f[i] /\ f[i] <= f[Len(f)]
  BY <1>5, <1>7, <1>8
<1> QED BY <1>1, <1>2, <1>4, <1>5, <1>6, <1>7, <1>8, <1>9 DEF Starts, Ends, n

(* A macro's constant has a use of its own, an operand that is a node has  *)
(* the uses in it, another has none.                                       *)
LEMMA LeafUse ==
  ASSUME NEW b \in Bodies, Plain(b), NEW j \in DOMAIN b.nodes, Marked(b, j),
         NEW i \in Places(b.nodes[j]), Given(b.nodes[j], i) \in Names
  PROVE  /\ b.from[j][i] \in DOMAIN b.records
         /\ b.records[b.from[j][i]].name = Given(b.nodes[j], i)
         /\ b.from[j][i + 1] = b.from[j][i] + 1
         /\ i \in DOMAIN b.from[j] /\ i + 1 \in DOMAIN b.from[j]
         /\ Holds(b, j, b.from[j][i])
<1> DEFINE n == b.nodes[j]
           f == b.from[j]
<1>1. /\ Ordered(b, j) /\ Places(n) = 1..Len(Items(n)) /\ Len(Items(n)) \in Nat
      /\ DOMAIN f = 1..(Len(Items(n)) + 1)
      /\ \A h \in DOMAIN f : f[h] \in Nat /\ Starts(b, j) <= f[h] /\ f[h] <= Ends(b, j)
      /\ Starts(b, j) \in Nat /\ Ends(b, j) \in Nat
  BY NumbersRise
<1>2. ~ SubNode(n, i)
  <2>1. CASE n.kind = "decl"
    BY <2>1 DEF SubNode
  <2>2. CASE n.kind # "decl"
    <3>1. n.ops[i][1] = "leaf"
      BY <2>2, NamesAssumption DEF Given
    <3> QED BY <3>1, <2>2 DEF SubNode
  <2> QED BY <2>1, <2>2
<1>3. /\ f[i] \in DOMAIN b.records /\ b.records[f[i]].name = Given(n, i)
      /\ f[i + 1] = f[i] + 1
  BY <1>1, <1>2 DEF Ordered
<1>4. i \in DOMAIN f /\ i + 1 \in DOMAIN f
  <2> HIDE DEF n, f
  <2>1. i \in 1..Len(Items(n))
    BY <1>1 DEF n
  <2> QED BY <2>1, <1>1
<1>5. Starts(b, j) <= f[i] /\ f[i] < Ends(b, j)
  <2>1. /\ f[i] \in Nat /\ f[i + 1] \in Nat /\ Starts(b, j) <= f[i]
        /\ f[i + 1] <= Ends(b, j) /\ Ends(b, j) \in Nat
    BY <1>1, <1>4
  <2> HIDE DEF f
  <2> QED BY <2>1, <1>3 DEF f
<1>6. n.kind = "decl" => i \in DOMAIN n.init /\ n.init[i] \in Names
  BY DEF Given, Places
<1> QED BY <1>3, <1>4, <1>5, <1>6 DEF Holds

LEMMA NodeUse ==
  ASSUME NEW b \in Bodies, Plain(b), NEW j \in DOMAIN b.nodes, Marked(b, j),
         NEW i \in Places(b.nodes[j]), SubNode(b.nodes[j], i)
  PROVE  /\ b.nodes[j].ops[i][2] \in DOMAIN b.nodes /\ b.nodes[j].ops[i][2] > j
         /\ Marked(b, b.nodes[j].ops[i][2])
         /\ b.from[j][i] = Starts(b, b.nodes[j].ops[i][2])
         /\ b.from[j][i + 1] = Ends(b, b.nodes[j].ops[i][2])
<1>1. Given(b.nodes[j], i) \notin Names
  <2>1. b.nodes[j].ops[i][1] # "leaf"
    BY DEF SubNode
  <2> QED BY <2>1, NamesAssumption DEF SubNode, Given
<1>2. Ordered(b, j)
  BY NumbersRise
<1>3. i \in DOMAIN b.nodes[j].ops /\ b.nodes[j].ops[i][1] = "node"
  BY DEF SubNode, Places
<1> QED BY <1>1, <1>2, <1>3, BodyIs DEF Ordered

LEMMA NoUse ==
  ASSUME NEW b \in Bodies, Plain(b), NEW j \in DOMAIN b.nodes, Marked(b, j),
         NEW i \in Places(b.nodes[j]), Given(b.nodes[j], i) \notin Names,
         ~ SubNode(b.nodes[j], i)
  PROVE  b.from[j][i + 1] = b.from[j][i]
BY NumbersRise DEF Ordered

(* The uses are recorded in the order of their locations. *)
LEMMA UsesSorted ==
  ASSUME NEW b \in Bodies, Plain(b), NEW u \in DOMAIN b.records, NEW v \in DOMAIN b.records,
         u <= v
  PROVE  Before2(b.records[u].loc, b.records[v].loc)
<1>1. u \in 1..v
  BY BodyIs
<1> QED BY <1>1 DEF Plain

(* A use of a declaration is that of one of its initial values; an integer *)
(* has one.                                                                *)
LEMMA DeclUse ==
  ASSUME NEW b \in Bodies, Plain(b), NEW j \in DOMAIN b.nodes, b.nodes[j].kind = "decl"
  PROVE  /\ Marked(b, j)
         /\ \A u : Holds(b, j, u) =>
              \E i \in Places(b.nodes[j]) : Given(b.nodes[j], i) \in Names /\ b.from[j][i] = u
         /\ b.nodes[j].type = "int" /\ b.nodes[j].init # <<>> =>
              /\ Places(b.nodes[j]) = {1}
              /\ Given(b.nodes[j], 1) = b.nodes[j].init[1]
              /\ \A u : Holds(b, j, u) <=> b.nodes[j].init[1] \in Names /\ b.from[j][1] = u
<1>1. PlainDecl(b, j)
  BY DEF Plain, PlainNode
<1>2. Marked(b, j) /\ (b.nodes[j].type = "int" => Len(b.nodes[j].init) <= 1)
  BY <1>1 DEF PlainDecl
<1>3. \A u : Holds(b, j, u) =>
        \E i \in Places(b.nodes[j]) : Given(b.nodes[j], i) \in Names /\ b.from[j][i] = u
  BY DEF Holds, Places, Given
<1>4. ASSUME b.nodes[j].type = "int", b.nodes[j].init # <<>>
      PROVE  Places(b.nodes[j]) = {1} /\ Given(b.nodes[j], 1) = b.nodes[j].init[1]
  <2>1. b.nodes[j].init \in Seq(Names \cup {NULL, EXPR})
    BY BodyIs
  <2>2. Len(b.nodes[j].init) # 0
    BY <2>1, <1>4, EmptySeq
  <2>3. Len(b.nodes[j].init) = 1
    <3>1. Len(b.nodes[j].init) \in Nat
      BY <2>1
    <3>2. Len(b.nodes[j].init) <= 1
      BY <1>2, <1>4
    <3> DEFINE n == Len(b.nodes[j].init)
    <3>3. n \in Nat /\ n # 0 /\ n <= 1
      BY <3>1, <3>2, <2>2
    <3> HIDE DEF n
    <3>4. n = 1
      BY <3>3
    <3> QED BY <3>4 DEF n
  <2>4. DOMAIN b.nodes[j].init = 1..1
    BY <2>1, <2>3
  <2> QED BY <2>4 DEF Places, Given
<1>5. ASSUME b.nodes[j].type = "int", b.nodes[j].init # <<>>, NEW u
      PROVE  Holds(b, j, u) <=> b.nodes[j].init[1] \in Names /\ b.from[j][1] = u
  <2>1. DOMAIN b.nodes[j].init = {1}
    BY <1>4, <1>5 DEF Places
  <2> QED BY <2>1, <1>2 DEF Holds
<1> QED BY <1>2, <1>3, <1>4, <1>5

-----------------------------------------------------------------------------
(* The walk of a plain body: the uses that are left, in their order.       *)

Left == UsesIn(mods)

Gone(k) == \A u \in Left : ~ Holds(body, k, u)

(* The list has records of the body, in their order. *)
Subset ==
  /\ \A k \in DOMAIN mods.head :
       /\ mods.head[k].use \in DOMAIN body.records
       /\ mods.head[k] = body.records[mods.head[k].use]
  /\ \A h, k \in DOMAIN mods.head : h < k => mods.head[h].use < mods.head[k].use

LEMMA LeftIs ==
  ASSUME body \in Bodies, ListOK, Subset
  PROVE  /\ \A k \in DOMAIN mods.head : mods.head[k].use \in Left
         /\ \A u \in Left :
              /\ u \in DOMAIN body.records /\ u \in Nat
              /\ \E k \in DOMAIN mods.head : mods.head[k].use = u /\ mods.head[k] = body.records[u]
         /\ \A h, k \in DOMAIN mods.head :
              /\ h \in Nat /\ mods.head[h].use \in Nat
              /\ mods.head[h].use <= mods.head[k].use <=> h <= k
         /\ DOMAIN mods.head = 1..Len(mods.head) /\ Len(mods.head) \in Nat
         /\ mods.count = Len(mods.head)
         /\ mods.count > 0 <=> Left # {}
<1>1. \A k \in DOMAIN mods.head : mods.head[k].use \in Left
  BY DEF Left, UsesIn, Nodes
<1>2. \A u \in Left : \E k \in DOMAIN mods.head : mods.head[k].use = u
  BY DEF Left, UsesIn, Nodes
<1>3. DOMAIN mods.head = 1..Len(mods.head) /\ Len(mods.head) \in Nat
  BY DEF ListOK
<1>4. \A k \in DOMAIN mods.head : mods.head[k].use \in Nat /\ k \in Nat
  BY BodyIs, <1>3 DEF Subset
<1>5. ASSUME NEW h \in DOMAIN mods.head, NEW k \in DOMAIN mods.head
      PROVE  mods.head[h].use <= mods.head[k].use <=> h <= k
  <2>1. /\ h < k => mods.head[h].use < mods.head[k].use
        /\ k < h => mods.head[k].use < mods.head[h].use
    BY DEF Subset
  <2>2. h \in Nat /\ k \in Nat /\ mods.head[h].use \in Nat /\ mods.head[k].use \in Nat
    BY <1>4
  <2> QED BY <2>1, <2>2
<1>6. mods.count = Len(mods.head)
  <2>1. mods = Recount(mods.head)
    BY DEF ListOK
  <2> QED BY <2>1 DEF Recount
<1>7. mods.count > 0 <=> Left # {}
  BY <1>1, <1>2, <1>3, <1>6
<1> QED BY <1>1, <1>2, <1>3, <1>4, <1>5, <1>6, <1>7, BodyIs DEF Subset

LEMMA FirstExists ==
  ASSUME body \in Bodies, ListOK, Subset, NEW T, T \subseteq DOMAIN mods.head, T # {}
  PROVE  \E k \in T : \A h \in DOMAIN mods.head : h < k => h \notin T
<1>1. T \subseteq Nat
  BY LeftIs
<1>2. PICK k \in T : \A h \in T : k <= h
  BY <1>1, LeastNatural
<1> QED BY <1>1, <1>2, LeftIs

(* What the visit of a node finds is the first use on its lines. *)
LEMMA UseIs ==
  ASSUME body \in Bodies, Plain(body), ListOK, Subset, NEW j \in DOMAIN body.nodes
  PROVE  LET found == FindUse(At(j).loc, At(j).finish)
         IN  /\ \A k \in found :
                  /\ k \in DOMAIN mods.head
                  /\ Reaches(body, j, mods.head[k].use)
                  /\ \A v \in Left : Reaches(body, j, v) => mods.head[k].use <= v
             /\ \A v \in Left : Reaches(body, j, v) => found # {}
<1> DEFINE n == body.nodes[j]
           on == {k \in DOMAIN mods.head : Approx(mods.head[k].loc, n.loc)}
           in == {k \in DOMAIN mods.head :
                    Before(n.loc, mods.head[k].loc) /\ After(n.finish, mods.head[k].loc)}
           found == FindUse(n.loc, n.finish)
<1>1. /\ \A k \in GetElem(mods, n.loc) :
           k \in on /\ \A h \in DOMAIN mods.head : h < k => h \notin on
      /\ \A k \in on :
           (\A h \in DOMAIN mods.head : h < k => h \notin on) => k \in GetElem(mods, n.loc)
  BY DEF GetElem, FirstElem
<1>2. /\ \A k \in GetElem2(mods, n.loc, n.finish) :
           k \in in /\ \A h \in DOMAIN mods.head : h < k => h \notin in
      /\ \A k \in in :
           (\A h \in DOMAIN mods.head : h < k => h \notin in)
             => k \in GetElem2(mods, n.loc, n.finish)
  BY DEF GetElem2, FirstElem
<1>3. ASSUME NEW k \in DOMAIN mods.head
      PROVE  Reaches(body, j, mods.head[k].use) <=> k \in on \/ k \in in
  BY DEF Subset, Reaches
<1>4. GetElem(mods, n.loc) = {} => on = {}
  <2>1. SUFFICES ASSUME on # {} PROVE GetElem(mods, n.loc) # {}
    OBVIOUS
  <2>2. on \subseteq DOMAIN mods.head
    OBVIOUS
  <2> HIDE DEF on
  <2> QED BY <2>1, <2>2, <1>1, FirstExists
<1>5. GetElem2(mods, n.loc, n.finish) = {} => in = {}
  <2>1. SUFFICES ASSUME in # {} PROVE GetElem2(mods, n.loc, n.finish) # {}
    OBVIOUS
  <2>2. in \subseteq DOMAIN mods.head
    OBVIOUS
  <2> HIDE DEF in
  <2> QED BY <2>1, <2>2, <1>2, FirstExists
<1>6. found = IF GetElem(mods, n.loc) # {} THEN GetElem(mods, n.loc)
                ELSE GetElem2(mods, n.loc, n.finish)
  BY DEF FindUse
<1>7. \A k \in DOMAIN mods.head : mods.head[k].loc \in Location
  BY BodyIs DEF Subset
<1>8. n.loc \in Location /\ n.finish \in Location
  BY BodyIs
<1>9. ASSUME NEW k \in found, NEW h \in DOMAIN mods.head, h \in on \/ h \in in
      PROVE  k \in DOMAIN mods.head /\ (k \in on \/ k \in in) /\ k <= h
  <2>1. k \in DOMAIN mods.head /\ k \in Nat /\ h \in Nat
    BY <1>1, <1>2, <1>6, <1>9, LeftIs
  <2>2. CASE k \in GetElem(mods, n.loc)
    <3>1. k \in on
      BY <2>2, <1>1
    <3>2. SUFFICES ASSUME h < k PROVE FALSE
      BY <2>1, <3>1
    <3>3. h \notin on
      BY <2>2, <3>2, <1>1
    <3>4. h \in in
      BY <3>3, <1>9
    <3>5. Before2(mods.head[h].loc, mods.head[k].loc)
      <4>1. mods.head[h].use <= mods.head[k].use
        BY <3>2, <2>1, LeftIs
      <4> QED BY <4>1, <2>1, UsesSorted DEF Subset
    <3>6. /\ mods.head[k].loc.line = n.loc.line
          /\ n.loc.line <= mods.head[h].loc.line /\ mods.head[h].loc.line # n.loc.line
      BY <3>1, <3>3, <3>4 DEF Approx, Before
    <3>7. mods.head[h].loc.line <= mods.head[k].loc.line
      BY <3>5, <1>7, <2>1 DEF Before2, Location
    <3>8. mods.head[h].loc.line \in Nat /\ n.loc.line \in Nat
      BY <1>7, <1>8 DEF Location
    <3> QED BY <3>6, <3>7, <3>8
  <2>3. CASE k \notin GetElem(mods, n.loc)
    <3>1. GetElem(mods, n.loc) = {} /\ k \in GetElem2(mods, n.loc, n.finish)
      BY <2>3, <1>6, <1>9
    <3>2. h \in in
      BY <3>1, <1>4, <1>9
    <3>3. ~ (h < k)
      BY <3>1, <3>2, <1>2
    <3> QED BY <3>1, <3>3, <1>2, <2>1
  <2> QED BY <2>2, <2>3
<1>10. ASSUME NEW k \in found
       PROVE  k \in DOMAIN mods.head /\ (k \in on \/ k \in in)
  BY <1>1, <1>2, <1>6, <1>10
<1>11. ASSUME NEW v \in Left, Reaches(body, j, v)
       PROVE  \E h \in DOMAIN mods.head : mods.head[h].use = v /\ (h \in on \/ h \in in)
  BY <1>3, <1>11, LeftIs
<1>12. ASSUME NEW v \in Left, Reaches(body, j, v)
       PROVE  found # {}
  BY <1>11, <1>12, <1>4, <1>5, <1>6
<1>13. ASSUME NEW k \in found, NEW v \in Left, Reaches(body, j, v)
       PROVE  mods.head[k].use <= v
  <2>1. PICK h \in DOMAIN mods.head : mods.head[h].use = v /\ (h \in on \/ h \in in)
    BY <1>11, <1>13
  <2>2. k <= h /\ k \in DOMAIN mods.head
    BY <2>1, <1>9
  <2> QED BY <2>1, <2>2, LeftIs
<1>14. At(j) = n
  BY DEF At
<1> HIDE DEF on, in, found
<1>15. \A k \in found : k \in DOMAIN mods.head /\ Reaches(body, j, mods.head[k].use)
  BY <1>3, <1>10
<1> QED BY <1>12, <1>13, <1>14, <1>15 DEF found

(* The first record is where the list starts, and the first on its line. *)
LEMMA StartIs ==
  ASSUME body \in Bodies, Plain(body), ListOK, Subset, Left # {}
  PROVE  /\ 1 \in DOMAIN mods.head
         /\ mods.start = mods.head[1].loc
         /\ GetElem(mods, mods.start) = {1}
         /\ \A u \in Left : mods.head[1].use <= u /\ Before2(mods.start, body.records[u].loc)
<1>1. 1 \in DOMAIN mods.head
  BY LeftIs
<1>2. mods = Recount(mods.head) /\ mods.head \in Seq(Node(Names))
  BY DEF ListOK
<1>3. /\ mods.start \in Location /\ \E k \in DOMAIN mods.head : mods.start = mods.head[k].loc
      /\ \A k \in DOMAIN mods.head : Before2(mods.start, mods.head[k].loc)
      /\ mods.head[1].loc \in Location
  <2> DEFINE head == mods.head
  <2>1. \A k \in DOMAIN head : /\ head[k].loc \in Location
         /\ Recount(head).start \in Location
         /\ Before2(Recount(head).start, head[k].loc)
         /\ \E i \in DOMAIN head : Recount(head).start = head[i].loc
    BY <1>2, BoundsEnclose
  <2>2. mods.start = Recount(mods.head).start
    BY <1>2
  <2> QED BY <2>1, <2>2, <1>1
<1>4. \A k \in DOMAIN mods.head : Before2(mods.head[1].loc, mods.head[k].loc)
                                 /\ mods.head[1].use <= mods.head[k].use
  <2>1. ASSUME NEW k \in DOMAIN mods.head PROVE mods.head[1].use <= mods.head[k].use
    BY <1>1, LeftIs
  <2> QED BY <2>1, <1>1, UsesSorted DEF Subset
<1>5. mods.start = mods.head[1].loc
  <2>1. Before2(mods.start, mods.head[1].loc) /\ Before2(mods.head[1].loc, mods.start)
    BY <1>1, <1>3, <1>4
  <2> DEFINE l == mods.start
             m == mods.head[1].loc
  <2>2. l \in Location /\ m \in Location /\ Before2(l, m) /\ Before2(m, l)
    BY <2>1, <1>3
  <2> HIDE DEF l, m
  <2>3. l.line = m.line /\ l.col = m.col
    BY <2>2 DEF Before2, Location
  <2>4. l = m
    BY <2>2, <2>3 DEF Location
  <2> QED BY <2>4 DEF l, m
<1>6. GetElem(mods, mods.start) = {1}
  <2>1. Approx(mods.head[1].loc, mods.start)
    BY <1>5 DEF Approx
  <2>2. \A k \in DOMAIN mods.head : k \in Nat /\ 1 <= k
    BY LeftIs
  <2> QED BY <2>1, <2>2, <1>1 DEF GetElem, FirstElem
<1>7. \A u \in Left : mods.head[1].use <= u /\ Before2(mods.start, body.records[u].loc)
  BY <1>3, <1>4, LeftIs
<1> QED BY <1>1, <1>5, <1>6, <1>7

(* Removing a record. *)
LEMMA LeftRemoved ==
  ASSUME body \in Bodies, body' = body, ListOK, Subset,
         NEW k \in DOMAIN mods.head, mods' = RemoveElem(mods, k)
  PROVE  Subset' /\ Left' = Left \ {mods.head[k].use}
<1> DEFINE n == Len(mods.head)
           head == mods.head
<1>1. /\ DOMAIN mods'.head = 1..(n - 1)
      /\ \A i \in 1..(n - 1) : mods'.head[i] = IF i < k THEN head[i] ELSE head[i + 1]
  BY RemoveShifts DEF ListOK
<1>2. DOMAIN head = 1..n /\ n \in Nat /\ k \in 1..n
  BY LeftIs
<1>3. \A h, i \in DOMAIN head : head[h].use <= head[i].use <=> h <= i
  BY LeftIs
<1>4. \A i \in DOMAIN head : head[i].use \in Nat
  BY LeftIs
<1> HIDE DEF n
<1> DEFINE old(i) == IF i < k THEN i ELSE i + 1
<1>5. \A i \in 1..(n - 1) : old(i) \in 1..n /\ old(i) # k /\ mods'.head[i] = head[old(i)]
  BY <1>1, <1>2
<1>6. \A h, i \in 1..(n - 1) : h < i => old(h) < old(i)
  BY <1>2
<1>7. \A m \in 1..n : m # k => \E i \in 1..(n - 1) : old(i) = m
  <2>1. ASSUME NEW m \in 1..n, m < k PROVE m \in 1..(n - 1) /\ old(m) = m
    BY <2>1, <1>2
  <2>2. ASSUME NEW m \in 1..n, m > k PROVE m - 1 \in 1..(n - 1) /\ old(m - 1) = m
    BY <2>2, <1>2
  <2>3. ASSUME NEW m \in 1..n, m # k PROVE m < k \/ m > k
    BY <2>3, <1>2
  <2> HIDE DEF old
  <2> QED BY <2>1, <2>2, <2>3
<1> HIDE DEF old
<1>8. Subset'
  <2>1. ASSUME NEW i \in DOMAIN mods'.head
        PROVE  /\ mods'.head[i].use \in DOMAIN body'.records
               /\ mods'.head[i] = body'.records[mods'.head[i].use]
    BY <1>1, <1>2, <1>5 DEF Subset
  <2>2. ASSUME NEW h \in DOMAIN mods'.head, NEW i \in DOMAIN mods'.head, h < i
        PROVE  mods'.head[h].use < mods'.head[i].use
    <3>1. /\ old(h) \in DOMAIN head /\ old(i) \in DOMAIN head /\ old(h) < old(i)
          /\ mods'.head[h] = head[old(h)] /\ mods'.head[i] = head[old(i)]
      BY <2>2, <1>1, <1>2, <1>5, <1>6
    <3> QED BY <3>1 DEF Subset
  <2> QED BY <2>1, <2>2 DEF Subset
<1>9. Left' = {head[old(i)].use : i \in 1..(n - 1)}
  <2>1. Left' = {mods'.head[i].use : i \in DOMAIN mods'.head}
    BY DEF Left, UsesIn, Nodes
  <2> QED BY <2>1, <1>1, <1>5
<1>10. Left = {head[i].use : i \in 1..n}
  BY <1>2 DEF Left, UsesIn, Nodes
<1>11. \A i \in 1..n : head[i].use = head[k].use => i = k
  <2>1. SUFFICES ASSUME NEW i \in 1..n, head[i].use = head[k].use PROVE i = k
    OBVIOUS
  <2>2. head[i].use <= head[k].use /\ head[k].use <= head[i].use
    BY <2>1, <1>2, <1>4
  <2>3. i <= k /\ k <= i /\ i \in Nat /\ k \in Nat
    BY <2>2, <1>2, <1>3
  <2> QED BY <2>3
<1>12. ASSUME NEW u PROVE u \in Left' <=> u \in Left \ {head[k].use}
  <2>1. ASSUME u \in Left' PROVE u \in Left \ {head[k].use}
    BY <2>1, <1>5, <1>9, <1>10, <1>11
  <2>2. ASSUME u \in Left \ {head[k].use} PROVE u \in Left'
    <3>1. PICK m \in 1..n : u = head[m].use /\ m # k
      BY <2>2, <1>10
    <3> QED BY <3>1, <1>7, <1>9
  <2> QED BY <2>1, <2>2
<1> QED BY <1>8, <1>12

LEMMA LeftStays ==
  ASSUME mods' = mods, body' = body
  PROVE  Left' = Left /\ (Subset => Subset') /\ \A k : Gone(k)' <=> Gone(k)
BY DEF Left, Subset, Gone

-----------------------------------------------------------------------------
(* The inductive invariant.                                                *)

(* A constant is left exactly if its use is. *)
Mates ==
  \A j \in DOMAIN body.nodes : \A i \in Places(At(j)) :
    Marked(body, j) /\ Given(At(j), i) \in Names =>
      (<<j, i>> \in left <=> body.from[j][i] \in Left)

StaticInt(n) == n.kind = "decl" /\ n.type = "int" /\ n.static /\ n.init # <<>>

StaticAggregate(n) ==
  n.kind = "decl" /\ n.type = "aggregate" /\ n.static /\ n.init # <<>>

(* A static variable with a macro is replaced exactly if its use is gone. *)
Replaced ==
  \A j \in DOMAIN body.nodes :
    StaticInt(At(j)) /\ At(j).init[1] \in Names =>
      (j \in listed <=> body.from[j][1] \notin Left)

TreeInv == Subset /\ Mates /\ Replaced

(* No other use of its macro is looked at when declaration j is visited. *)
Secluded(j) ==
  \A u \in DOMAIN body.records :
    Reaches(body, j, u) /\ body.records[u].name = At(j).init[1] =>
      Holds(body, j, u) \/ Earlier(body, j, u)

Again ==
  \A j \in listed : j >= pos =>
    At(j).type = "int" /\ (StaticInt(At(j)) => Secluded(j))

(* All uses of node k are left. *)
Whole(k) == \A u \in DOMAIN body.records : Holds(body, k, u) => u \in Left

Aggregates ==
  \A k \in DOMAIN body.nodes : k >= pos /\ StaticAggregate(At(k)) => Whole(k)

Past(k) == k < pos \/ (k = pos /\ step = "expr")

(* The visit of a block finds all of its uses or, in a block that was      *)
(* searched before, none.                                                  *)
Blocks ==
  \A k \in DOMAIN body.nodes : Marked(body, k) /\ At(k).kind = "block" /\ ~ Past(k) =>
    \/ Whole(k)
    \/ \E h \in DOMAIN body.nodes :
         Past(h) /\ \A u \in DOMAIN body.records : Holds(body, k, u) => Holds(body, h, u)

AheadInv == Again /\ Aggregates /\ Blocks

(* There was something to substitute in the declaration in ctx->prev. *)
Found == step = "clear" \/ (step = "retry" /\ calls[1].found)

PrevKept ==
  /\ step = "retry" => At(prev).type # "int"
  /\ prev # NULL =>
       /\ step # "clear" => prev \notin listed
       /\ At(prev).init # <<>> /\ At(prev).type # "pointer"
       /\ StaticAggregate(At(prev)) /\ ~ Found => ~ Gone(prev)

(* The uses in the nodes visited are gone but for those of the last, if it *)
(* is a declaration that is tried again.                                   *)
Done ==
  \A k \in DOMAIN body.nodes : k < pos =>
    \/ Gone(k)
    \/ /\ step \in {"prev", "retry"} /\ prev # NULL
       /\ k = pos - 1 /\ prev = k /\ Due(body, k)

Cleared == Found => prev # NULL /\ prev = pos - 1 /\ Due(body, prev)

BehindInv ==
  PrevKept /\ Done /\ Cleared /\ (step # "prev" => pos \in DOMAIN body.nodes)

(* The calls of check_expr are for nodes inside of one another. *)
Frames ==
  /\ \A i \in DOMAIN calls :
       /\ Marked(body, calls[i].node)
       /\ calls[i].at \in DOMAIN body.from[calls[i].node]
       /\ At(calls[i].node).kind = "decl" => i = Len(calls) /\ calls[i].at = 1
  /\ \A i, h \in DOMAIN calls : i < h =>
       /\ body.from[calls[i].node][calls[i].at] <= Starts(body, calls[h].node)
       /\ Ends(body, calls[h].node) <= body.from[calls[i].node][calls[i].at + 1]

(* No use is left before the operand that is looked at. *)
Searched ==
  At(pos).kind # "decl" =>
    \A u \in Left : ~ (Starts(body, pos) <= u /\ u < body.from[Top.node][Top.at])

DeclFound ==
  At(pos).kind = "decl" =>
    /\ Use # {} /\ ~ Returns(At(pos))
    /\ Gone(pos) \/ prev = pos \/ InReach(body, pos)

(* What a block's loop has not come to. *)
Behind(i) ==
  LET c == calls[i]
  IN  body.from[c.node][IF i = Len(calls) THEN c.at ELSE c.at + 1]

BlockFound ==
  At(pos).kind # "decl" =>
    \/ Use # {} /\ Gone(pos)
    \/ \A i \in DOMAIN calls : At(calls[i].node).kind # "expr" =>
         \A u \in DOMAIN body.records :
           Behind(i) <= u /\ u < Ends(body, pos) => u \in Left

(* A declaration that was replaced is not looked at again, but for one that *)
(* is all of its block.                                                    *)
InItsPlace == Len(calls) > 1 /\ Top.node \in listed => Len(At(Caller.node).ops) = 1

ExprInv == step = "expr" => Frames /\ Searched /\ DeclFound /\ BlockFound /\ InItsPlace

PlainInv ==
  /\ ~ failed /\ ~ crashed /\ active = 1
  /\ TreeInv /\ AheadInv /\ BehindInv /\ ExprInv

(* What the steps start from. *)
PlainState == WalkInv /\ Plain(body) /\ PlainInv

-----------------------------------------------------------------------------
(* What a substitution does to the list and the tree, and a step without.  *)

LEMMA TreeTakes ==
  ASSUME PlainState, body' = body, NEW j \in DOMAIN body.nodes, Marked(body, j),
         NEW i \in Places(At(j)), Given(At(j), i) \in Names,
         NEW k \in DOMAIN mods.head, mods.head[k].use = body.from[j][i],
         Substitute(j, i, k),
         listed' = IF StaticInt(At(j)) THEN listed \cup {j} ELSE listed
  PROVE  TreeInv' /\ Left' = Left \ {body.from[j][i]}
<1> DEFINE u == body.from[j][i]
<1>1. /\ body \in Bodies /\ ListOK /\ Subset /\ Mates /\ Replaced /\ Plain(body)
  BY Parts DEF PlainState, WalkInv, PlainInv, TreeInv
<1>2. Subset' /\ Left' = Left \ {u}
  BY <1>1, LeftRemoved DEF Substitute
<1>3. ASSUME NEW h \in DOMAIN body.nodes, NEW g \in Places(At(h)), Marked(body, h),
             Given(At(h), g) \in Names, body.from[h][g] = u
      PROVE  h = j /\ g = i
  BY <1>1, <1>3 DEF Plain, OneSite, At
<1> HIDE DEF u
<1>4. left' = left \ {<<j, i>>}
  BY DEF Substitute
<1>5. ASSUME NEW h \in DOMAIN body.nodes, NEW g \in Places(At(h)), Marked(body, h),
             Given(At(h), g) \in Names
      PROVE  <<h, g>> \in left' <=> body.from[h][g] \in Left'
  <2>1. <<h, g>> \in left <=> body.from[h][g] \in Left
    BY <1>1, <1>5 DEF Mates
  <2>2. <<h, g>> = <<j, i>> <=> body.from[h][g] = u
    BY <1>3, <1>5 DEF u
  <2> QED BY <2>1, <2>2, <1>2, <1>4
<1>6. Mates'
  BY <1>5 DEF Mates, At
<1>7. ASSUME NEW h \in DOMAIN body.nodes, StaticInt(At(h)), At(h).init[1] \in Names
      PROVE  h \in listed' <=> body.from[h][1] \notin Left'
  <2>1. h \in listed <=> body.from[h][1] \notin Left
    BY <1>1, <1>7 DEF Replaced
  <2>2. Marked(body, h) /\ Places(At(h)) = {1} /\ Given(At(h), 1) \in Names
    BY <1>1, <1>7, DeclUse DEF StaticInt, At
  <2>3. h = j <=> body.from[h][1] = u
    BY <2>2, <1>3 DEF u
  <2>4. h \in listed' <=> h \in listed \/ h = j
    BY <1>7
  <2> QED BY <2>1, <2>3, <2>4, <1>2
<1>8. Replaced'
  BY <1>7 DEF Replaced, At, StaticInt
<1> QED BY <1>2, <1>6, <1>8 DEF TreeInv, u

LEMMA TreeStays ==
  ASSUME PlainState, body' = body, UNCHANGED <<mods, left>>,
         \/ listed' = listed
         \/ \E j : listed' = listed \cup {j} /\ ~ StaticInt(At(j))
  PROVE  TreeInv' /\ Left' = Left
<1>1. Subset /\ Mates /\ Replaced
  BY DEF PlainState, PlainInv, TreeInv
<1>2. Subset' /\ Left' = Left
  BY <1>1, LeftStays
<1>3. Mates'
  BY <1>1, <1>2 DEF Mates, At
<1>4. ASSUME NEW h \in DOMAIN body.nodes, StaticInt(At(h)) PROVE h \in listed' <=> h \in listed
  BY <1>4
<1>5. Replaced'
  BY <1>1, <1>2, <1>4 DEF Replaced, At, StaticInt
<1> QED BY <1>2, <1>3, <1>5 DEF TreeInv

(* The walk goes on, and in a node or behind it. *)
Onward == \/ pos' = pos /\ (step = "expr" => step' = "expr")
          \/ pos' = pos + 1

LEMMA PastStays ==
  ASSUME PlainState, Onward, NEW k \in DOMAIN body.nodes
  PROVE  Past(k) => Past(k)'
<1>1. pos \in Nat /\ k \in Nat
  BY Parts, NodesAre DEF PlainState, WalkInv
<1> QED BY <1>1 DEF Past, Onward

LEMMA AheadStays ==
  ASSUME PlainState, body' = body, Onward, Left' = Left,
         \A j \in listed' : j \in listed \/ (j \in Nat /\ j < pos')
  PROVE  AheadInv'
<1>1. pos \in Nat /\ pos' \in Nat /\ pos' >= pos /\ DOMAIN body.nodes \subseteq Nat
      /\ listed \subseteq Nat
  BY Parts, NodesAre DEF PlainState, WalkInv, Onward, TreeOK
<1>2. Again'
  <2>1. ASSUME NEW j \in listed', (j >= pos)'
        PROVE  At(j).type = "int" /\ (StaticInt(At(j)) => Secluded(j))
    <3>1. j >= pos' /\ (j \in listed \/ (j \in Nat /\ j < pos'))
      BY <2>1
    <3>2. j \in listed
      BY <3>1, <1>1
    <3>3. j >= pos
      BY <3>1, <3>2, <1>1
    <3> QED BY <3>2, <3>3, <2>1 DEF PlainState, PlainInv, AheadInv, Again
  <2> QED BY <2>1 DEF Again, Secluded, At, StaticInt
<1>3. Aggregates'
  <2>1. ASSUME NEW k \in DOMAIN body.nodes, (k >= pos)', StaticAggregate(At(k))
        PROVE  Whole(k)
    BY <2>1, <1>1 DEF PlainState, PlainInv, AheadInv, Aggregates
  <2> QED BY <2>1 DEF Aggregates, Whole, At, StaticAggregate
<1>4. Blocks'
  <2>1. ASSUME NEW k \in DOMAIN body.nodes, Marked(body, k), At(k).kind = "block", ~ Past(k)'
        PROVE  \/ Whole(k)
               \/ \E h \in DOMAIN body.nodes :
                    Past(h)' /\ \A u \in DOMAIN body.records :
                                  Holds(body, k, u) => Holds(body, h, u)
    <3>1. ~ Past(k)
      BY <2>1, PastStays
    <3> QED BY <2>1, <3>1, PastStays DEF PlainState, PlainInv, AheadInv, Blocks
  <2> QED BY <2>1 DEF Blocks, Whole, At
<1> QED BY <1>2, <1>3, <1>4 DEF AheadInv

(* A use of a node that is visited, or was, is gone. *)
LEMMA AheadTakes ==
  ASSUME PlainState, body' = body, Onward,
         NEW j \in DOMAIN body.nodes, Marked(body, j),
         NEW i \in Places(At(j)), Given(At(j), i) \in Names,
         Left' = Left \ {body.from[j][i]},
         j < pos' \/ ~ StaticAggregate(At(j)),
         NEW p \in DOMAIN body.nodes, Past(p)', Holds(body, p, body.from[j][i]),
         listed' = listed \/ listed' = listed \cup {j},
         \/ j < pos'
         \/ listed' = listed
         \/ At(j).type = "int" /\ (StaticInt(At(j)) => Secluded(j))
  PROVE  AheadInv'
<1> DEFINE u == body.from[j][i]
<1>1. /\ pos \in Nat /\ pos' \in Nat /\ pos' >= pos /\ DOMAIN body.nodes \subseteq Nat
      /\ body \in Bodies /\ Plain(body) /\ p \in Nat /\ listed \subseteq Nat
  BY Parts, NodesAre DEF PlainState, WalkInv, Onward, TreeOK
<1>2. Again'
  <2>1. ASSUME NEW h \in listed', (h >= pos)'
        PROVE  At(h).type = "int" /\ (StaticInt(At(h)) => Secluded(h))
    <3>1. CASE h \in listed
      <4>1. h >= pos
        BY <2>1, <3>1, <1>1
      <4> QED BY <4>1, <3>1, <2>1 DEF PlainState, PlainInv, AheadInv, Again
    <3>2. CASE h = j /\ listed' # listed
      <4>1. ~ (j < pos')
        <5>1. j >= pos' /\ j \in Nat
          BY <3>2, <2>1, <1>1
        <5> QED BY <5>1, <1>1
      <4> QED BY <4>1, <3>2, <2>1
    <3> QED BY <3>1, <3>2
  <2> QED BY <2>1 DEF Again, Secluded, At, StaticInt
<1>3. Aggregates'
  <2>1. ASSUME NEW k \in DOMAIN body.nodes, (k >= pos)', StaticAggregate(At(k)),
               NEW v \in DOMAIN body.records, Holds(body, k, v)
        PROVE  v \in Left'
    <3>1. v \in Left
      BY <2>1, <1>1 DEF PlainState, PlainInv, AheadInv, Aggregates, Whole
    <3>2. PICK g \in Places(At(k)) : Given(At(k), g) \in Names /\ body.from[k][g] = v
      BY <2>1, <1>1, DeclUse DEF StaticAggregate, At
    <3>3. Marked(body, k)
      BY <2>1, <1>1, DeclUse DEF StaticAggregate, At
    <3>4. v = u => k = j
      BY <3>2, <3>3, <1>1 DEF Plain, OneSite, At
    <3>5. k # j
      BY <2>1, <1>1
    <3> QED BY <3>1, <3>4, <3>5
  <2> QED BY <2>1 DEF Aggregates, Whole, At, StaticAggregate
<1>4. Blocks'
  <2>1. ASSUME NEW k \in DOMAIN body.nodes, Marked(body, k), At(k).kind = "block", ~ Past(k)'
        PROVE  \/ \A v \in DOMAIN body.records : Holds(body, k, v) => v \in Left'
               \/ \E h \in DOMAIN body.nodes :
                    Past(h)' /\ \A v \in DOMAIN body.records :
                                  Holds(body, k, v) => Holds(body, h, v)
    <3>1. CASE ~ Whole(k)
      <4>1. ~ Past(k)
        BY <2>1, PastStays
      <4> QED BY <2>1, <3>1, <4>1, PastStays DEF PlainState, PlainInv, AheadInv, Blocks
    <3>2. CASE Whole(k) /\ ~ Holds(body, k, u)
      BY <3>2 DEF Whole
    <3>3. CASE Holds(body, k, u)
      <4>1. p \in 1..(k - 1)
        <5>1. k \in Nat /\ p > 0
          BY <1>1, NodesAre
        <5> QED BY <5>1, <2>1, <1>1 DEF Past
      <4>2. u \in Uses(body, p) \cap Uses(body, k)
        BY <3>3, <1>1, LeafUse DEF Uses, At
      <4>3. Uses(body, k) \subseteq Uses(body, p)
        <5>1. PlainBlock(body, k)
          BY <2>1, <1>1 DEF Plain, PlainNode, At
        <5> QED BY <5>1, <4>1, <4>2, <2>1 DEF PlainBlock
      <4> QED BY <4>3 DEF Uses
    <3> QED BY <3>1, <3>2, <3>3
  <2> QED BY <2>1 DEF Blocks, Whole, At
<1> QED BY <1>2, <1>3, <1>4 DEF AheadInv

-----------------------------------------------------------------------------
(* The steps before check_expr.                                            *)

LEMMA StateIs ==
  ASSUME PlainState
  PROVE  /\ body \in Bodies /\ Plain(body) /\ TypeOK /\ ListOK /\ StepOK /\ PrevOK
         /\ PlainInv /\ TreeInv /\ AheadInv /\ BehindInv /\ ExprInv
         /\ Subset /\ Mates /\ Replaced /\ PrevKept /\ Done /\ Cleared
         /\ pos \in Nat /\ pos > 0 /\ DOMAIN body.nodes \subseteq Nat
         /\ DOMAIN body.nodes = 1..Len(body.nodes) /\ Len(body.nodes) \in Nat
         /\ listed \subseteq DOMAIN body.nodes
         /\ Left \subseteq DOMAIN body.records /\ DOMAIN body.records \subseteq Nat
         /\ failed = FALSE /\ crashed = FALSE /\ active = 1
<1>1. /\ body \in Bodies /\ Plain(body) /\ TypeOK /\ ListOK /\ StepOK /\ PrevOK
      /\ PlainInv /\ TreeInv /\ AheadInv /\ BehindInv /\ ExprInv
      /\ Subset /\ Mates /\ Replaced /\ PrevKept /\ Done /\ Cleared
  BY Parts DEF PlainState, WalkInv, PlainInv, TreeInv, BehindInv
<1>2. pos \in Nat /\ pos > 0 /\ listed \subseteq DOMAIN body.nodes
      /\ failed \in BOOLEAN /\ crashed \in BOOLEAN
  BY <1>1, Parts, NodesAre DEF TreeOK
<1>3. ~ failed /\ ~ crashed /\ active = 1
  BY <1>1 DEF PlainInv
<1>4. failed = FALSE /\ crashed = FALSE
  BY <1>2, <1>3
<1>5. /\ DOMAIN body.nodes \subseteq Nat
      /\ DOMAIN body.nodes = 1..Len(body.nodes) /\ Len(body.nodes) \in Nat
      /\ Left \subseteq DOMAIN body.records /\ DOMAIN body.records \subseteq Nat
  BY <1>1, BodyIs, LeftIs
<1> QED BY <1>1, <1>2, <1>3, <1>4, <1>5

(* ctx->prev is a declaration visited before. *)
LEMMA PrevIs ==
  ASSUME PlainState, prev # NULL
  PROVE  /\ prev \in DOMAIN body.nodes /\ At(prev).kind = "decl" /\ PlainDecl(body, prev)
         /\ Marked(body, prev) /\ At(prev).init # <<>> /\ At(prev).type \in {"int", "aggregate"}
         /\ step # "expr" => prev < pos
<1>1. prev \in DOMAIN body.nodes /\ At(prev).kind = "decl" /\ (step # "expr" => prev < pos)
  BY StateIs DEF PrevOK
<1>2. PlainDecl(body, prev)
  BY <1>1, StateIs DEF Plain, PlainNode, At
<1>3. At(prev).init # <<>> /\ At(prev).type # "pointer"
  BY StateIs DEF PrevKept
<1>4. At(prev).type \in {"int", "aggregate", "pointer"}
  BY <1>1, StateIs, BodyIs DEF At
<1> QED BY <1>1, <1>2, <1>3, <1>4 DEF PlainDecl

(* What is left is in no node before one that nothing is left behind of. *)
LEMMA NoneEarlier ==
  ASSUME PlainState, NEW j \in DOMAIN body.nodes,
         \A k \in DOMAIN body.nodes : k < j => Gone(k)
  PROVE  \A u \in Left : ~ Earlier(body, j, u)
<1>1. \A k \in 1..(j - 1) : k \in DOMAIN body.nodes /\ k < j
  BY StateIs
<1> QED BY <1>1 DEF Earlier, Gone

(* The uses that a retry is for. *)
LEMMA Pending ==
  ASSUME PlainState, step \in {"prev", "retry"}
  PROVE  /\ \A k \in DOMAIN body.nodes : k < pos /\ k # prev => Gone(k)
         /\ prev # NULL => \A u \in Left : ~ Earlier(body, prev, u)
         /\ prev # NULL /\ ~ Gone(prev) /\ pos \in DOMAIN body.nodes =>
              /\ prev = pos - 1 /\ Due(body, prev)
              /\ \A u \in Left :
                   Before2(body.records[u].loc, At(pos).loc) <=> Holds(body, prev, u)
<1>1. \A k \in DOMAIN body.nodes : k < pos /\ k # prev => Gone(k)
  BY StateIs DEF Done
<1>2. ASSUME prev # NULL
      PROVE  \A u \in Left : ~ Earlier(body, prev, u)
  <2>1. prev \in DOMAIN body.nodes /\ prev < pos /\ prev \in Nat /\ pos \in Nat
    BY <1>2, PrevIs, StateIs
  <2>2. \A k \in DOMAIN body.nodes : k < prev => Gone(k)
    <3>1. ASSUME NEW k \in DOMAIN body.nodes, k < prev PROVE k < pos /\ k # prev
      BY <3>1, <2>1, StateIs
    <3> QED BY <3>1, <1>1
  <2> QED BY <2>1, <2>2, NoneEarlier
<1>3. ASSUME prev # NULL, ~ Gone(prev), pos \in DOMAIN body.nodes
      PROVE  /\ prev = pos - 1 /\ Due(body, prev)
             /\ \A u \in Left :
                   Before2(body.records[u].loc, At(pos).loc) <=> Holds(body, prev, u)
  <2>1. prev \in DOMAIN body.nodes /\ prev < pos
    BY <1>3, PrevIs
  <2>2. prev = pos - 1 /\ Due(body, prev)
    BY <2>1, <1>3, StateIs DEF Done
  <2>3. prev + 1 = pos
    BY <2>1, <2>2, StateIs
  <2>4. ASSUME NEW u \in Left
        PROVE  Before2(body.records[u].loc, At(pos).loc) <=> Holds(body, prev, u)
    <3>1. ~ Earlier(body, prev, u)
      BY <1>2, <1>3
    <3>2. u \in DOMAIN body.records
      BY StateIs
    <3> QED BY <2>2, <2>3, <3>1, <3>2 DEF Due, At
  <2> QED BY <2>2, <2>4
<1> QED BY <1>1, <1>2, <1>3

LEMMA BeforeGone ==
  ASSUME PlainState, step \notin {"prev", "retry"}
  PROVE  /\ \A k \in DOMAIN body.nodes : k < pos => Gone(k)
         /\ pos \in DOMAIN body.nodes
         /\ \A u \in Left : ~ Earlier(body, pos, u)
<1>1. \A k \in DOMAIN body.nodes : k < pos => Gone(k)
  BY StateIs DEF Done
<1>2. pos \in DOMAIN body.nodes
  BY StateIs DEF BehindInv
<1> QED BY <1>1, <1>2, NoneEarlier

(* A use of ctx->prev that is left is that of a constant that is left. *)
LEMMA HeldBy ==
  ASSUME PlainState, prev # NULL, NEW u \in Left, Holds(body, prev, u)
  PROVE  \E i \in DOMAIN At(prev).init :
           /\ i \in Places(At(prev)) /\ Given(At(prev), i) \in Names
           /\ Given(At(prev), i) = At(prev).init[i]
           /\ body.from[prev][i] = u /\ <<prev, i>> \in left
           /\ body.records[u].name = At(prev).init[i]
<1>1. prev \in DOMAIN body.nodes /\ At(prev).kind = "decl" /\ Marked(body, prev)
  BY PrevIs
<1>2. PICK i \in Places(At(prev)) : Given(At(prev), i) \in Names /\ body.from[prev][i] = u
  BY <1>1, StateIs, DeclUse DEF At
<1>3. <<prev, i>> \in left
  BY <1>1, <1>2, StateIs DEF Mates
<1>4. i \in DOMAIN At(prev).init /\ Given(At(prev), i) = At(prev).init[i]
  BY <1>1, <1>2 DEF Places, Given
<1>5. body.records[u].name = Given(At(prev), i)
  BY <1>1, <1>2, StateIs, LeafUse DEF At
<1> QED BY <1>2, <1>3, <1>4, <1>5

(* The conclusion of a step, from its parts. *)
LEMMA PlainNext ==
  ASSUME PlainState, body' = body, UNCHANGED <<active, failed, crashed>>,
         TreeInv', AheadInv', BehindInv', ExprInv'
  PROVE  PlainInv'
BY DEF PlainState, PlainInv

LEMMA SkipPlain ==
  ASSUME PlainState, Skip
  PROVE  PlainInv'
<1>1. /\ body' = body /\ UNCHANGED <<tree, active, failed, crashed>> /\ prev' = prev
      /\ step = "prev" /\ step' = "prev" /\ pos' = pos + 1 /\ pos \in DOMAIN body.nodes
  BY DEF Skip, NextVisit, Visiting
<1>2. Left = {}
  BY StateIs, LeftIs DEF Skip
<1>3. TreeInv' /\ Left' = Left
  BY <1>1, TreeStays DEF tree
<1>4. AheadInv'
  BY <1>1, <1>3, AheadStays DEF Onward, tree
<1>5. BehindInv'
  <2>1. PrevKept'
    <3>1. prev # NULL => prev \notin listed /\ At(prev).init # <<>> /\ At(prev).type # "pointer"
                         /\ ~ StaticAggregate(At(prev))
      BY <1>1, <1>2, StateIs DEF PrevKept, Gone, Found
    <3> QED BY <3>1, <1>1 DEF PrevKept, At, StaticAggregate, tree
  <2>2. Done' /\ Cleared'
    BY <1>1, <1>2, <1>3 DEF Done, Gone, Cleared, Found
  <2> QED BY <2>1, <2>2, <1>1 DEF BehindInv
<1>6. ExprInv'
  BY <1>1 DEF ExprInv
<1> QED BY <1>1, <1>3, <1>4, <1>5, <1>6, PlainNext

(* If nothing is missed, no use of ctx->prev is left. *)
LEMMA NotMissed ==
  ASSUME PlainState, Begins, ~ Missed
  PROVE  \A k \in DOMAIN body.nodes : k < pos => Gone(k)
<1>1. step = "prev" /\ pos \in DOMAIN body.nodes
  BY DEF Begins, Visiting
<1>2. SUFFICES ASSUME prev # NULL, ~ Gone(prev) PROVE FALSE
  <2>1. prev # NULL => prev \in DOMAIN body.nodes
    BY PrevIs
  <2>2. ASSUME prev = NULL, NEW k \in DOMAIN body.nodes, k < pos PROVE Gone(k)
    BY <2>2, <1>1, StateIs DEF Done
  <2> QED BY <1>1, <1>2, <2>2, Pending
<1>3. PICK u \in Left : Holds(body, prev, u)
  BY <1>2 DEF Gone
<1>4. Before2(body.records[u].loc, At(pos).loc)
  BY <1>1, <1>2, <1>3, Pending
<1>5. Before2(mods.start, body.records[u].loc) /\ mods.start \in Location
  <2>1. /\ mods.start = mods.head[1].loc /\ 1 \in DOMAIN mods.head
        /\ \A v \in Left : Before2(mods.start, body.records[v].loc)
    BY <1>3, StateIs, StartIs
  <2>2. mods.head[1].loc \in Location
    BY <2>1, StateIs, BodyIs DEF Subset
  <2> QED BY <2>1, <2>2
<1>6. body.records[u].loc \in Location /\ At(pos).loc \in Location
  BY <1>1, StateIs, BodyIs DEF At
<1>7. Before2(mods.start, At(pos).loc)
  BY <1>4, <1>5, <1>6, Before2Order
<1> QED BY <1>2, <1>7 DEF Missed

(* check_usage goes on without a change. *)
LEMMA ToUsage ==
  ASSUME PlainState, body' = body, step \in {"prev", "retry"}, step' = "usage", pos' = pos,
         prev' = prev, Left' = Left, listed' = listed, pos \in DOMAIN body.nodes,
         \A k \in DOMAIN body.nodes : k < pos => Gone(k), ~ Found
  PROVE  BehindInv' /\ ExprInv'
<1>1. prev # NULL => prev \in DOMAIN body.nodes /\ prev < pos
  BY PrevIs
<1>2. prev # NULL => /\ prev \notin listed /\ At(prev).init # <<>> /\ At(prev).type # "pointer"
                     /\ ~ StaticAggregate(At(prev))
  BY <1>1, StateIs DEF PrevKept, Found
<1>3. PrevKept'
  BY <1>2 DEF PrevKept, At, StaticAggregate
<1>4. Done' /\ Cleared'
  BY DEF Done, Cleared, Found, Gone
<1> QED BY <1>3, <1>4 DEF BehindInv, ExprInv

LEMMA NoneMissedPlain ==
  ASSUME PlainState, NoneMissed
  PROVE  PlainInv'
<1>1. /\ body' = body /\ UNCHANGED <<tree, active, failed, crashed>> /\ prev' = prev
      /\ step = "prev" /\ step' = "usage" /\ pos' = pos /\ pos \in DOMAIN body.nodes
  BY DEF NoneMissed, Begins, Visiting
<1>2. TreeInv' /\ Left' = Left /\ listed' = listed
  BY <1>1, TreeStays DEF tree
<1>3. AheadInv'
  BY <1>1, <1>2, AheadStays DEF Onward
<1>4. BehindInv' /\ ExprInv'
  BY <1>1, <1>2, NotMissed, ToUsage DEF NoneMissed, Found
<1> QED BY <1>1, <1>2, <1>3, <1>4, PlainNext

(* build_modded_int_declaration with a record looks into no null tree. *)
LEMMA DeclarationIs ==
  ASSUME NEW j, NEW k, NEW inPlace, IntDeclaration(j, {k}, inPlace), At(j).init # <<>>
  PROVE  \/ ~ InitAgrees(j, k) /\ ~ Fixed(j, {k}) /\ UNCHANGED <<tree, active, failed, crashed>>
         \/ InitAgrees(j, k) /\ At(j).const
         \/ /\ InitAgrees(j, k) /\ Fixed(j, {k}) /\ UNCHANGED <<active, failed, crashed>>
            /\ At(j).static => (inPlace => Substitute(j, 1, k))
            /\ ~ At(j).static => Substitute(j, 1, k)
            /\ listed' = IF At(j).static /\ inPlace THEN listed \cup {j} ELSE listed
<1>1. ~ NullTree(At(j), {k})
  BY DEF NullTree
<1> QED BY <1>1 DEF IntDeclaration, Fixed

LEMMA RetryStalePlain ==
  ASSUME PlainState, RetryStale
  PROVE  PlainInv'
BY StateIs DEF RetryStale, Begins, Missed, PrevKept

LEMMA RetryIntPlain ==
  ASSUME PlainState, RetryInt
  PROVE  PlainInv'
<1>1. /\ body' = body /\ prev' = prev /\ pos' = pos /\ pos \in DOMAIN body.nodes
      /\ step = "prev" /\ prev # NULL /\ mods.count > 0
      /\ Before2(mods.start, At(pos).loc)
      /\ prev \notin listed /\ At(prev).type = "int"
  BY DEF RetryInt, Begins, Visiting, Missed
<1>2. Left # {}
  BY <1>1, StateIs, LeftIs
<1>3. /\ 1 \in DOMAIN mods.head /\ mods.start = mods.head[1].loc
      /\ GetElem(mods, mods.start) = {1}
  BY <1>2, StateIs, StartIs
<1>4. /\ IntDeclaration(prev, {1}, TRUE)
      /\ step' = IF Fixed(prev, {1}) THEN "clear" ELSE "usage"
  BY <1>3 DEF RetryInt
<1>5. /\ prev \in DOMAIN body.nodes /\ At(prev).kind = "decl" /\ PlainDecl(body, prev)
      /\ Marked(body, prev) /\ At(prev).init # <<>> /\ prev < pos
  BY <1>1, PrevIs
<1>6. /\ Places(At(prev)) = {1} /\ Given(At(prev), 1) = At(prev).init[1]
      /\ \A u : Holds(body, prev, u) <=> At(prev).init[1] \in Names /\ body.from[prev][1] = u
  BY <1>1, <1>5, StateIs, DeclUse DEF At
<1>7. /\ mods.head[1].use \in Left /\ mods.head[1] = body.records[mods.head[1].use]
      /\ mods.head[1].name \in Names
  <2>1. mods.head[1] \in Node(Names)
    BY <1>3, StateIs, ElementOfSeq DEF ListOK
  <2> QED BY <2>1, <1>3, StateIs, LeftIs DEF Node, Subset
<1>8. CASE Gone(prev)
  <2>1. ~ InitAgrees(prev, 1)
    <3>1. SUFFICES ASSUME InitAgrees(prev, 1) PROVE FALSE
      OBVIOUS
    <3>2. At(prev).init[1] \in Names /\ Given(At(prev), 1) \in Names
      BY <3>1, <1>6, <1>7 DEF InitAgrees
    <3>3. body.from[prev][1] \notin Left
      BY <3>2, <1>6, <1>8 DEF Gone
    <3>4. <<prev, 1>> \notin left
      BY <3>2, <3>3, <1>5, <1>6, StateIs DEF Mates
    <3>5. StaticInt(At(prev))
      BY <3>1, <3>4, <1>5 DEF InitAgrees, StaticInt
    <3>6. prev \in listed
      BY <3>2, <3>3, <3>5, <1>5, StateIs DEF Replaced
    <3> QED BY <3>6, <1>1
  <2>2. ~ Fixed(prev, {1}) /\ UNCHANGED <<tree, active, failed, crashed>>
    BY <2>1, <1>4, <1>5, DeclarationIs
  <2>3. TreeInv' /\ Left' = Left /\ listed' = listed
    BY <2>2, <1>1, TreeStays DEF tree
  <2>4. AheadInv'
    BY <2>3, <1>1, AheadStays DEF Onward
  <2>5. \A k \in DOMAIN body.nodes : k < pos => Gone(k)
    BY <1>1, <1>8, Pending
  <2>6. BehindInv' /\ ExprInv'
    BY <2>2, <2>3, <2>5, <1>1, <1>4, ToUsage DEF Found
  <2> QED BY <2>2, <2>3, <2>4, <2>6, <1>1, PlainNext
<1>9. CASE ~ Gone(prev)
  <2>1. prev = pos - 1 /\ Due(body, prev) /\ Holds(body, prev, mods.head[1].use)
    BY <1>1, <1>3, <1>7, <1>9, Pending
  <2>2. /\ At(prev).init[1] \in Names /\ body.from[prev][1] = mods.head[1].use
        /\ <<prev, 1>> \in left /\ mods.head[1].name = At(prev).init[1]
    <3>1. PICK i \in DOMAIN At(prev).init :
            /\ i \in Places(At(prev)) /\ <<prev, i>> \in left
            /\ body.records[mods.head[1].use].name = At(prev).init[i]
      BY <2>1, <1>1, <1>7, HeldBy
    <3>2. i = 1
      BY <3>1, <1>6
    <3> QED BY <3>1, <3>2, <2>1, <1>6, <1>7
  <2>3. InitAgrees(prev, 1)
    BY <2>2, <1>1, <1>5 DEF InitAgrees
  <2>4. ~ At(prev).const
    <3>1. mods.head[1].use \in Uses(body, prev)
      BY <2>1, <1>7, StateIs DEF Uses
    <3> QED BY <3>1, <1>1, <1>5 DEF PlainDecl, At
  <2>5. /\ Fixed(prev, {1}) /\ UNCHANGED <<active, failed, crashed>>
        /\ Substitute(prev, 1, 1)
        /\ listed' = IF At(prev).static THEN listed \cup {prev} ELSE listed
    BY <2>3, <2>4, <1>4, <1>5, DeclarationIs
  <2>6. listed' = IF StaticInt(At(prev)) THEN listed \cup {prev} ELSE listed
    BY <2>5, <1>1, <1>5 DEF StaticInt
  <2>7. TreeInv' /\ Left' = Left \ {body.from[prev][1]}
    <3>1. 1 \in Places(At(prev)) /\ Given(At(prev), 1) \in Names
      BY <2>2, <1>6
    <3>2. body' = body /\ prev \in DOMAIN body.nodes /\ Marked(body, prev)
          /\ 1 \in DOMAIN mods.head /\ mods.head[1].use = body.from[prev][1]
      BY <2>2, <1>1, <1>3, <1>5
    <3> QED BY <3>1, <3>2, <2>5, <2>6, TreeTakes
  <2>8. step' = "clear"
    BY <2>5, <1>4
  <2>9. AheadInv'
    <3>1. Past(prev)' /\ prev < pos'
      BY <1>1, <1>5 DEF Past
    <3> QED BY <3>1, <2>1, <2>2, <2>6, <2>7, <1>1, <1>5, <1>6, AheadTakes DEF Onward
  <2>10. BehindInv' /\ ExprInv'
    <3>1. PrevKept'
      BY <2>8, <1>1, <1>5 DEF PrevKept, Found, At
    <3>2. ASSUME NEW k \in DOMAIN body.nodes, k < pos PROVE Gone(k)'
      <4>1. CASE k = prev
        BY <4>1, <2>7, <1>1, <1>6 DEF Gone
      <4>2. CASE k # prev
        BY <4>2, <3>2, <2>7, <1>1, Pending DEF Gone
      <4> QED BY <4>1, <4>2
    <3>3. Done' /\ Cleared'
      BY <3>2, <2>1, <2>8, <1>1 DEF Done, Cleared, Found
    <3> QED BY <3>1, <3>3, <2>8, <1>1 DEF BehindInv, ExprInv
  <2> QED BY <2>5, <2>7, <2>9, <2>10, <1>1, PlainNext
<1> QED BY <1>8, <1>9

LEMMA RetryAggregatePlain ==
  ASSUME PlainState, RetryAggregate
  PROVE  PlainInv'
<1>1. /\ body' = body /\ UNCHANGED <<tree, active, failed, crashed>> /\ prev' = prev
      /\ step = "prev" /\ step' = "retry" /\ pos' = pos /\ pos \in DOMAIN body.nodes
      /\ calls' = <<[node |-> prev, at |-> 1, found |-> FALSE]>>
      /\ prev # NULL /\ At(prev).type # "int"
  BY DEF RetryAggregate, Begins, Visiting, Missed
<1>2. TreeInv' /\ Left' = Left /\ listed' = listed
  BY <1>1, TreeStays DEF tree
<1>3. AheadInv'
  BY <1>1, <1>2, AheadStays DEF Onward
<1>4. ~ Found' /\ ~ Found
  BY <1>1 DEF Found
<1>5. PrevKept'
  BY <1>1, <1>2, <1>4, StateIs DEF PrevKept, Gone, At, StaticAggregate
<1>6. Done' /\ Cleared'
  BY <1>1, <1>2, <1>4, StateIs DEF Done, Cleared, Gone
<1> QED BY <1>1, <1>2, <1>3, <1>5, <1>6, PlainNext DEF BehindInv, ExprInv

(* The search of an aggregate gives an element its own record. *)
LEMMA ElementFindsOwn ==
  ASSUME PlainState, step = "retry", pos \in DOMAIN body.nodes,
         NEW i \in DOMAIN At(prev).init, NEW k \in Agreeing(i),
         \A h \in 1..(i - 1) : Agreeing(h) = {}
  PROVE  /\ k \in DOMAIN mods.head /\ mods.head[k].use = body.from[prev][i]
         /\ i \in Places(At(prev)) /\ Given(At(prev), i) \in Names
         /\ Holds(body, prev, body.from[prev][i]) /\ ~ Gone(prev)
<1>1. /\ prev # NULL /\ prev \in DOMAIN body.nodes /\ At(prev).kind = "decl"
      /\ Marked(body, prev)
  BY StateIs, PrevIs DEF StepOK
<1>2. /\ k \in DOMAIN mods.head /\ <<prev, i>> \in left
      /\ At(prev).init[i] = mods.head[k].name
      /\ \A h \in DOMAIN mods.head : h < k => At(prev).init[i] # mods.head[h].name
  BY DEF Agreeing, FirstElem
<1>3. mods.head[k].name \in Names
  <2>1. mods.head[k] \in Node(Names)
    BY <1>2, StateIs, ElementOfSeq DEF ListOK
  <2> QED BY <2>1 DEF Node
<1>4. i \in Places(At(prev)) /\ Given(At(prev), i) = At(prev).init[i]
      /\ Given(At(prev), i) \in Names
  BY <1>1, <1>2, <1>3 DEF Places, Given
<1> DEFINE own == body.from[prev][i]
           u == mods.head[k].use
<1>5. /\ own \in Left /\ own \in DOMAIN body.records
      /\ body.records[own].name = At(prev).init[i]
      /\ body.from[prev][i + 1] = own + 1
      /\ i + 1 \in DOMAIN body.from[prev] /\ Holds(body, prev, own)
  BY <1>1, <1>2, <1>4, StateIs, LeafUse DEF Mates, At
<1>6. ~ Gone(prev)
  BY <1>5 DEF Gone
<1>7. PICK g \in DOMAIN mods.head : mods.head[g].use = own /\ mods.head[g] = body.records[own]
  BY <1>5, StateIs, LeftIs
<1>8. k <= g
  <2>1. ~ (g < k)
    BY <1>2, <1>5, <1>7
  <2> QED BY <2>1, <1>2, <1>7, StateIs, LeftIs
<1>9. u \in Left /\ u <= own /\ u \in DOMAIN body.records /\ mods.head[k] = body.records[u]
  BY <1>2, <1>7, <1>8, StateIs, LeftIs DEF Subset
<1> HIDE DEF own, u
<1>10. Holds(body, prev, u)
  <2>1. Before2(body.records[u].loc, body.records[own].loc)
    BY <1>5, <1>9, StateIs, UsesSorted
  <2>2. Before2(body.records[own].loc, At(pos).loc)
    BY <1>1, <1>5, <1>6, Pending
  <2>3. body.records[u].loc \in Location /\ body.records[own].loc \in Location
        /\ At(pos).loc \in Location
    BY <1>5, <1>9, StateIs, BodyIs DEF At
  <2>4. Before2(body.records[u].loc, At(pos).loc)
    BY <2>1, <2>2, <2>3, Before2Order
  <2> QED BY <2>4, <1>1, <1>6, <1>9, Pending
<1>11. PICK h \in DOMAIN At(prev).init :
         /\ h \in Places(At(prev)) /\ Given(At(prev), h) \in Names
         /\ body.from[prev][h] = u /\ <<prev, h>> \in left
         /\ body.records[u].name = At(prev).init[h]
  BY <1>1, <1>9, <1>10, HeldBy
<1>12. At(prev).init[h] = At(prev).init[i]
  BY <1>2, <1>9, <1>11
<1>13. Agreeing(h) = Agreeing(i)
  BY <1>2, <1>11, <1>12 DEF Agreeing
<1>14. h \in Nat /\ i \in Nat /\ h > 0 /\ i > 0 /\ DOMAIN body.from[prev] \subseteq Nat
       /\ h \in DOMAIN body.from[prev] /\ own \in Nat /\ u \in Nat
  <2>1. /\ Places(At(prev)) = 1..Len(Items(At(prev))) /\ Len(Items(At(prev))) \in Nat
        /\ DOMAIN body.from[prev] = 1..(Len(Items(At(prev))) + 1)
    BY <1>1, StateIs, NumbersRise DEF At
  <2> DEFINE n == Len(Items(At(prev)))
  <2>2. h \in 1..n /\ i \in 1..n /\ n \in Nat /\ DOMAIN body.from[prev] = 1..(n + 1)
    BY <2>1, <1>4, <1>11
  <2> HIDE DEF n
  <2>3. h \in 1..(n + 1)
    BY <2>2
  <2>4. h \in Nat /\ i \in Nat /\ h > 0 /\ i > 0 /\ DOMAIN body.from[prev] \subseteq Nat
       /\ h \in DOMAIN body.from[prev]
    BY <2>2, <2>3
  <2> QED BY <2>4, <1>5, <1>9, StateIs
<1>15. ~ (h < i)
  <2>1. SUFFICES ASSUME h < i PROVE FALSE
    OBVIOUS
  <2>2. h \in 1..(i - 1)
    BY <2>1, <1>14
  <2> QED BY <2>2, <1>13
<1>16. ~ (i < h)
  <2>1. SUFFICES ASSUME i < h PROVE FALSE
    OBVIOUS
  <2>2. i + 1 <= h
    BY <2>1, <1>14
  <2>3. body.from[prev][i + 1] <= body.from[prev][h]
    BY <2>2, <1>1, <1>5, <1>14, StateIs, NumbersRise
  <2> QED BY <2>3, <1>5, <1>9, <1>11, <1>14
<1>17. h = i
  BY <1>14, <1>15, <1>16
<1> QED BY <1>2, <1>4, <1>5, <1>6, <1>11, <1>17 DEF u, own

LEMMA RetryElementPlain ==
  ASSUME PlainState, RetryElement
  PROVE  PlainInv'
<1>1. /\ body' = body /\ UNCHANGED <<listed, active, failed, crashed>> /\ prev' = prev
      /\ step = "retry" /\ step' = "retry" /\ pos' = pos /\ pos \in DOMAIN body.nodes
      /\ calls' = [calls EXCEPT ![1].found = TRUE]
  BY DEF RetryElement, Visiting
<1>2a. PICK i \in DOMAIN At(prev).init :
         \E k \in Agreeing(i) :
           (\A h \in 1..(i - 1) : Agreeing(h) = {}) /\ Substitute(prev, i, k)
  BY DEF RetryElement
<1>2. PICK k \in Agreeing(i) :
        (\A h \in 1..(i - 1) : Agreeing(h) = {}) /\ Substitute(prev, i, k)
  BY <1>2a
<1>3. /\ k \in DOMAIN mods.head /\ mods.head[k].use = body.from[prev][i]
      /\ i \in Places(At(prev)) /\ Given(At(prev), i) \in Names
      /\ Holds(body, prev, body.from[prev][i]) /\ ~ Gone(prev)
  BY <1>1, <1>2, ElementFindsOwn
<1>4. /\ prev # NULL /\ prev \in DOMAIN body.nodes /\ Marked(body, prev) /\ prev < pos
      /\ At(prev).type # "int"
  BY <1>1, StateIs, PrevIs DEF StepOK, PrevKept
<1>5. TreeInv' /\ Left' = Left \ {body.from[prev][i]}
  <2>1. listed' = IF StaticInt(At(prev)) THEN listed \cup {prev} ELSE listed
    BY <1>1, <1>4 DEF StaticInt
  <2> QED BY <2>1, <1>1, <1>2, <1>3, <1>4, TreeTakes
<1>6. AheadInv'
  <2>1. Past(prev)' /\ prev < pos'
    BY <1>1, <1>4 DEF Past
  <2> QED BY <2>1, <1>1, <1>3, <1>4, <1>5, AheadTakes DEF Onward
<1>7. Found'
  <2>1. calls \in Seq(Call) /\ Len(calls) = 1
    BY <1>1, StateIs, Parts DEF StepOK
  <2>2. calls'[1].found = TRUE
    BY <2>1, <1>1 DEF Call
  <2> QED BY <2>2, <1>1 DEF Found
<1>8. prev = pos - 1 /\ Due(body, prev)
  BY <1>1, <1>3, <1>4, Pending
<1>9. PrevKept'
  BY <1>1, <1>7, StateIs DEF PrevKept, At
<1>10. Done'
  <2>1. ASSUME NEW h \in DOMAIN body.nodes, h < pos, h # prev PROVE Gone(h)'
    BY <2>1, <1>1, <1>5, Pending DEF Gone
  <2> QED BY <2>1, <1>1, <1>4, <1>8 DEF Done
<1>11. Cleared'
  BY <1>1, <1>4, <1>8 DEF Cleared
<1> QED BY <1>1, <1>5, <1>6, <1>9, <1>10, <1>11, PlainNext DEF BehindInv, ExprInv

(* An aggregate is left only when no use of it is. *)
LEMMA SearchEnds ==
  ASSUME PlainState, step = "retry", pos \in DOMAIN body.nodes, ~ Searching
  PROVE  Gone(prev)
<1>1. SUFFICES ASSUME ~ Gone(prev) PROVE FALSE
  OBVIOUS
<1>2. prev # NULL /\ prev \in DOMAIN body.nodes
  BY StateIs, PrevIs DEF StepOK
<1>3. PICK u \in Left : Holds(body, prev, u)
  BY <1>1 DEF Gone
<1>4. PICK i \in DOMAIN At(prev).init :
        /\ <<prev, i>> \in left /\ body.records[u].name = At(prev).init[i]
  BY <1>2, <1>3, HeldBy
<1>5. Agreeing(i) # {}
  <2> DEFINE T == {k \in DOMAIN mods.head : At(prev).init[i] = mods.head[k].name}
  <2>1. \E k \in DOMAIN mods.head : mods.head[k] = body.records[u]
    BY StateIs, LeftIs
  <2>2. T # {} /\ T \subseteq DOMAIN mods.head
    BY <2>1, <1>4
  <2>3. \E k \in T : \A h \in DOMAIN mods.head : h < k => h \notin T
    <3> HIDE DEF T
    <3> QED BY <2>2, StateIs, FirstExists
  <2>4. \A k \in T : (\A h \in DOMAIN mods.head : h < k => h \notin T) => k \in Agreeing(i)
    BY <1>4 DEF Agreeing, FirstElem
  <2> HIDE DEF T
  <2> QED BY <2>3, <2>4
<1>6. mods.count > 0 /\ Before2(mods.start, At(pos).loc)
  <2>1. Before2(body.records[u].loc, At(pos).loc)
    BY <1>1, <1>2, <1>3, Pending
  <2>2. Before2(mods.start, body.records[u].loc) /\ mods.start \in Location
    <3>1. /\ 1 \in DOMAIN mods.head /\ mods.start = mods.head[1].loc
          /\ Before2(mods.start, body.records[u].loc)
      BY StateIs, StartIs
    <3>2. mods.head[1].loc \in Location
      BY <3>1, StateIs, BodyIs DEF Subset
    <3> QED BY <3>1, <3>2
  <2>3. body.records[u].loc \in Location /\ At(pos).loc \in Location
    BY StateIs, BodyIs DEF At
  <2> QED BY <2>1, <2>2, <2>3, Before2Order, StateIs, LeftIs
<1> QED BY <1>4, <1>5, <1>6 DEF Searching

LEMMA RetryEndPlain ==
  ASSUME PlainState, RetryEnd
  PROVE  PlainInv'
<1>1. /\ body' = body /\ UNCHANGED <<mods, left, active, failed, crashed>> /\ prev' = prev
      /\ step = "retry" /\ pos' = pos /\ pos \in DOMAIN body.nodes /\ ~ Searching
      /\ listed' = IF At(prev).static THEN listed \cup {prev} ELSE listed
      /\ step' = IF calls[1].found THEN "clear" ELSE "usage"
  BY DEF RetryEnd, Visiting
<1>2. Gone(prev)
  BY <1>1, SearchEnds
<1>3. /\ prev # NULL /\ prev \in DOMAIN body.nodes /\ prev < pos /\ At(prev).type # "int"
      /\ At(prev).kind = "decl" /\ At(prev).init # <<>> /\ At(prev).type = "aggregate"
  BY <1>1, StateIs, PrevIs DEF StepOK, PrevKept
<1>4. TreeInv' /\ Left' = Left
  BY <1>1, <1>3, TreeStays DEF StaticInt
<1>5. AheadInv'
  BY <1>1, <1>3, <1>4, StateIs, AheadStays DEF Onward
<1>6. \A k \in DOMAIN body.nodes : k < pos => Gone(k)
  BY <1>1, <1>2, Pending
<1>7. CASE calls[1].found
  <2>1. Found /\ step' = "clear"
    BY <1>1, <1>7 DEF Found
  <2>2. PrevKept'
    BY <2>1, <1>1, <1>3 DEF PrevKept, Found, At
  <2>3. Done' /\ Cleared'
    BY <2>1, <1>1, <1>4, <1>6, StateIs DEF Done, Cleared, Gone
  <2> QED BY <2>1, <2>2, <2>3, <1>1, <1>4, <1>5, PlainNext DEF BehindInv, ExprInv
<1>8. CASE ~ calls[1].found
  <2>1. ~ Found /\ step' = "usage"
    BY <1>1, <1>8 DEF Found
  <2>2. ~ StaticAggregate(At(prev))
    BY <2>1, <1>2, <1>3, StateIs DEF PrevKept
  <2>3. listed' = listed
    BY <2>2, <1>1, <1>3 DEF StaticAggregate
  <2>4. BehindInv' /\ ExprInv'
    BY <2>1, <2>3, <1>1, <1>4, <1>6, ToUsage
  <2> QED BY <2>4, <1>1, <1>4, <1>5, PlainNext
<1> QED BY <1>7, <1>8

(* When the declaration was fixed, no use before the node is left. *)
LEMMA RetryFoundPlain ==
  ASSUME PlainState, RetryFound
  PROVE  PlainInv'
<1>1. /\ body' = body /\ UNCHANGED <<listed, left, crashed>> /\ prev' = NULL
      /\ step = "clear" /\ step' = "usage" /\ pos' = pos /\ pos \in DOMAIN body.nodes
      /\ Clear(At(pos).loc)
  BY DEF RetryFound, Visiting
<1>2. prev # NULL /\ prev = pos - 1 /\ Due(body, prev)
  BY <1>1, StateIs DEF Cleared, Found
<1>3. /\ prev \in DOMAIN body.nodes /\ prev < pos /\ prev + 1 = pos
      /\ \A k \in DOMAIN body.nodes : k < pos => Gone(k)
  BY <1>1, <1>2, StateIs, PrevIs, BeforeGone
<1>4. \A u \in Left : ~ Before2(body.records[u].loc, At(pos).loc)
  <2>1. \A k \in DOMAIN body.nodes : k < prev => Gone(k)
    <3>1. ASSUME NEW k \in DOMAIN body.nodes, k < prev PROVE k < pos
      BY <3>1, <1>3, StateIs
    <3> QED BY <3>1, <1>3
  <2>2. \A u \in Left : ~ Earlier(body, prev, u)
    BY <2>1, <1>3, NoneEarlier
  <2>3. \A u \in Left : ~ Holds(body, prev, u)
    BY <1>3 DEF Gone
  <2>4. Left \subseteq DOMAIN body.records
    BY StateIs
  <2> QED BY <2>2, <2>3, <2>4, <1>2, <1>3 DEF Due, At
<1>5. Reported(mods, At(pos).loc) = {}
  <2>1. At(pos).loc # MAX_LOCATION_T
    BY <1>1, StateIs, BodyIs, MaxIsNoLocation DEF At
  <2>2. \A k \in DOMAIN mods.head : ~ Before2(mods.head[k].loc, At(pos).loc)
    BY <1>4, StateIs, LeftIs DEF Subset
  <2> QED BY <2>1, <2>2 DEF Reported, Nodes
<1>6. mods' = mods /\ active' = active /\ failed' = failed
  BY <1>1, <1>5, StateIs DEF Clear, CheckEmpty
<1>7. TreeInv' /\ Left' = Left
  BY <1>1, <1>6, TreeStays
<1>8. AheadInv'
  BY <1>1, <1>7, AheadStays DEF Onward
<1>9. BehindInv' /\ ExprInv'
  BY <1>1, <1>3, <1>7 DEF BehindInv, PrevKept, Done, Cleared, Found, Gone, ExprInv
<1> QED BY <1>1, <1>6, <1>7, <1>8, <1>9, PlainNext

LEMMA UseStays ==
  ASSUME mods' = mods, pos' = pos, body' = body
  PROVE  Use' = Use
BY DEF Use, FindUse, At

(* check_usage finds a use on the lines of the node. *)
LEMMA ReachFound ==
  ASSUME PlainState, pos \in DOMAIN body.nodes, ~ Returns(At(pos)),
         NEW u \in Left, Reaches(body, pos, u)
  PROVE  HasUse(At(pos))
<1>1. FindUse(At(pos).loc, At(pos).finish) # {}
  BY StateIs, UseIs
<1>2. At(pos).loc \in Location /\ At(pos).finish \in Location
  BY StateIs, BodyIs DEF At
<1>3. mods = Recount(mods.head) /\ mods.head \in Seq(Node(Names))
  BY StateIs DEF ListOK
<1>4. \/ GetElem(mods, At(pos).loc) # {}
      \/ GetElem2(mods, At(pos).loc, At(pos).finish) # {}
  BY <1>1 DEF FindUse
<1>5. ValidBounds(mods, At(pos).loc, At(pos).finish) \/ LocInBound(mods, At(pos).loc)
  <2> DEFINE head == mods.head
             loc == At(pos).loc
             finish == At(pos).finish
  <2>1. /\ head \in Seq(Node(Names)) /\ loc \in Location /\ finish \in Location
        /\ \/ GetElem(Recount(head), loc) # {}
           \/ GetElem2(Recount(head), loc, finish) # {}
    BY <1>2, <1>3, <1>4
  <2> HIDE DEF head, loc, finish
  <2>2. ValidBounds(Recount(head), loc, finish) \/ LocInBound(Recount(head), loc)
    BY <2>1, FilterPasses
  <2>3. mods = Recount(head)
    BY <1>3 DEF head
  <2> QED BY <2>2, <2>3 DEF loc, finish
<1> QED BY <1>1, <1>5 DEF HasUse

(* An integer whose use is not on its lines is kept for a retry. *)
LEMMA IntIsKept ==
  ASSUME PlainState, pos \in DOMAIN body.nodes, At(pos).kind = "decl", At(pos).type = "int",
         ~ Gone(pos), ~ InReach(body, pos)
  PROVE  Kept(At(pos)) /\ pos \notin listed /\ Due(body, pos)
<1>1. PlainDecl(body, pos)
  BY StateIs DEF Plain, PlainNode, At
<1>2. PICK u \in Left : Holds(body, pos, u)
  BY DEF Gone
<1>3. u \in DOMAIN body.records /\ u \in Uses(body, pos)
  BY <1>2, StateIs DEF Uses
<1>4. /\ Due(body, pos) /\ body.records[Starts(body, pos)].loc.line - At(pos).loc.line < 20
  BY <1>1, <1>3 DEF PlainDecl, At
<1>5. At(pos).init # <<>>
  <2>1. PICK i \in Places(At(pos)) : TRUE
    BY <1>2, StateIs, DeclUse DEF At
  <2> QED BY <2>1 DEF Places
<1>6. u = Starts(body, pos) /\ At(pos).init[1] \in Names
  BY <1>2, <1>5, StateIs, DeclUse DEF At, Starts
<1>7. pos \notin listed
  <2>1. SUFFICES ASSUME pos \in listed PROVE FALSE
    OBVIOUS
  <2>2. At(pos).static
    BY <2>1, StateIs, Parts DEF TreeOK
  <2> QED BY <2>1, <2>2, <1>2, <1>5, <1>6, StateIs DEF Replaced, StaticInt, Starts
<1>8. mods.start.line <= body.records[u].loc.line
      /\ mods.start.line \in Int /\ body.records[u].loc.line \in Int
  <2>1. /\ Before2(mods.start, body.records[u].loc)
        /\ mods.start = mods.head[1].loc /\ 1 \in DOMAIN mods.head
    BY <1>2, StateIs, StartIs
  <2>2. mods.start \in Location /\ body.records[u].loc \in Location
    BY <2>1, <1>3, StateIs, BodyIs DEF Subset
  <2> QED BY <2>1, <2>2 DEF Before2, Location
<1>9. Near(At(pos))
  <2>1. At(pos).loc.line \in Int
    BY StateIs, BodyIs DEF At, Location
  <2> QED BY <2>1, <1>4, <1>6, <1>8 DEF Near
<1> QED BY <1>4, <1>5, <1>7, <1>9 DEF Kept

LEMMA MarkedReaches ==
  ASSUME PlainState, NEW j \in DOMAIN body.nodes, Marked(body, j), At(j).kind # "decl"
  PROVE  InReach(body, j) /\ At(j).kind \in {"block", "expr"}
<1>1. At(j).kind \in {"block", "expr"} /\ PlainNode(body, j)
  BY StateIs, NumbersRise DEF At, Plain
<1>2. CASE At(j).kind = "block"
  BY <1>1, <1>2 DEF PlainNode, PlainBlock, At
<1>3. CASE At(j).kind = "expr"
  BY <1>1, <1>3 DEF PlainNode, PlainExpr, At
<1> QED BY <1>1, <1>2, <1>3

(* What remains of a node's uses is looked for, or kept for a retry. *)
LEMMA NotFoundKept ==
  ASSUME PlainState, pos \in DOMAIN body.nodes, ~ HasUse(At(pos)), ~ Gone(pos)
  PROVE  At(pos).kind = "decl" /\ Kept(At(pos)) /\ pos \notin listed /\ Due(body, pos)
<1>1. PICK u \in Left : Holds(body, pos, u)
  BY DEF Gone
<1>2. Marked(body, pos) /\ u \in DOMAIN body.records /\ u \in Uses(body, pos)
  BY <1>1, StateIs DEF Holds, Uses
<1>3. ASSUME InReach(body, pos), ~ Returns(At(pos)) PROVE FALSE
  BY <1>1, <1>2, <1>3, ReachFound DEF InReach
<1>4. At(pos).kind = "decl"
  <2>1. SUFFICES ASSUME At(pos).kind # "decl" PROVE FALSE
    OBVIOUS
  <2>2. InReach(body, pos) /\ ~ Returns(At(pos))
    BY <2>1, <1>2, MarkedReaches DEF Returns
  <2> QED BY <2>2, <1>3
<1>5. PlainDecl(body, pos)
  BY <1>4, StateIs DEF Plain, PlainNode, At
<1>6. At(pos).type \in {"int", "aggregate"}
  BY <1>2, <1>5 DEF PlainDecl, At
<1>7. CASE At(pos).type = "int"
  <2>1. ~ Returns(At(pos))
    BY <1>4, <1>7 DEF Returns
  <2> QED BY <2>1, <1>3, <1>4, <1>7, IntIsKept
<1>8. CASE At(pos).type = "aggregate"
  <2>1. Due(body, pos)
    BY <1>2, <1>5, <1>8 DEF PlainDecl, At
  <2>2. At(pos).init # <<>>
    <3>1. PICK i \in Places(At(pos)) : TRUE
      BY <1>1, <1>4, StateIs, DeclUse DEF At
    <3> QED BY <3>1, <1>4 DEF Places
  <2>3. pos \notin listed
    <3>1. At(pos).type # "int"
      BY <1>8
    <3> QED BY <3>1, StateIs DEF AheadInv, Again
  <2> QED BY <2>1, <2>2, <2>3, <1>4, <1>8 DEF Kept
<1> QED BY <1>4, <1>6, <1>7, <1>8

(* What check_usage leaves in ctx->prev. *)
LEMMA UsagePrev ==
  ASSUME PlainState, CheckUsage, Left' = Left, listed' = listed,
         step' \in {"prev", "expr"}
  PROVE  PrevKept'
<1>1. /\ body' = body /\ step = "usage" /\ pos \in DOMAIN body.nodes
      /\ prev' = IF ~ Kept(At(pos)) THEN prev ELSE IF pos \in listed THEN NULL ELSE pos
  BY DEF CheckUsage, Visiting
<1>2. step' \notin {"retry", "clear"} /\ ~ Found' /\ ~ Found
  BY <1>1 DEF Found
<1>3. CASE prev' = prev
  <2>1. prev # NULL => Gone(prev)
    BY <1>1, PrevIs, BeforeGone
  <2>2. prev # NULL => /\ prev \notin listed /\ At(prev).init # <<>>
                       /\ At(prev).type # "pointer" /\ ~ StaticAggregate(At(prev))
    BY <2>1, <1>1, <1>2, StateIs DEF PrevKept
  <2> QED BY <2>2, <1>1, <1>2, <1>3 DEF PrevKept, At, StaticAggregate
<1>4. CASE prev' = NULL
  BY <1>2, <1>4 DEF PrevKept
<1>5. CASE prev' = pos /\ Kept(At(pos)) /\ pos \notin listed
  <2>1. At(pos).init # <<>> /\ At(pos).type # "pointer" /\ At(pos).kind = "decl"
    BY <1>5 DEF Kept
  <2>2. ASSUME StaticAggregate(At(pos)) PROVE ~ Gone(pos)
    <3>1. Whole(pos)
      BY <2>2, <1>1, StateIs DEF AheadInv, Aggregates
    <3>2. PlainDecl(body, pos)
      BY <2>1, <1>1, StateIs DEF Plain, PlainNode, At
    <3>3. Uses(body, pos) # {}
      BY <3>2, <2>2 DEF PlainDecl, StaticAggregate, At
    <3> QED BY <3>1, <3>3 DEF Uses, Whole, Gone
  <2>3. At(prev)' = At(pos) /\ (Gone(prev)' <=> Gone(pos))
    BY <1>1, <1>5 DEF Gone, At
  <2>4. StaticAggregate(At(prev))' => ~ Gone(prev)'
    BY <2>2, <2>3 DEF StaticAggregate
  <2> QED BY <2>1, <2>3, <2>4, <1>1, <1>2, <1>5 DEF PrevKept
<1> QED BY <1>1, <1>3, <1>4, <1>5

LEMMA UsagePasses ==
  ASSUME PlainState, CheckUsage, ~ HasUse(At(pos))
  PROVE  PlainInv'
<1>1. /\ body' = body /\ UNCHANGED <<tree, active, failed, crashed>> /\ step = "usage"
      /\ pos' = pos + 1 /\ step' = "prev" /\ pos \in DOMAIN body.nodes
      /\ prev' = IF ~ Kept(At(pos)) THEN prev ELSE IF pos \in listed THEN NULL ELSE pos
  BY DEF CheckUsage, Visiting, NextVisit
<1>2. TreeInv' /\ Left' = Left /\ listed' = listed
  BY <1>1, TreeStays DEF tree
<1>3. AheadInv'
  BY <1>1, <1>2, AheadStays DEF Onward
<1>4. PrevKept'
  BY <1>1, <1>2, UsagePrev
<1>5. \A k \in DOMAIN body.nodes : k < pos => Gone(k)
  BY <1>1, BeforeGone
<1>6. ~ Gone(pos) => prev' = pos /\ Due(body, pos)
  BY <1>1, NotFoundKept
<1>7. Done'
  <2>1. ASSUME NEW k \in DOMAIN body.nodes, k < pos', ~ Gone(k)
        PROVE  k = pos' - 1 /\ prev' = k /\ Due(body, k)
    <3>1. k = pos
      <4>1. ~ (k < pos) /\ k \in Nat /\ pos \in Nat
        BY <2>1, <1>5, StateIs
      <4> QED BY <4>1, <2>1, <1>1
    <3> QED BY <3>1, <2>1, <1>1, <1>6, StateIs
  <2>2. ASSUME NEW k \in DOMAIN body.nodes, k < pos', ~ Gone(k) PROVE prev' # NULL
    <3>1. Kept(At(pos)) /\ pos \notin listed /\ prev' = pos
      <4>1. ~ Gone(pos)
        <5>1. k = pos' - 1
          BY <2>1, <2>2
        <5> QED BY <5>1, <2>2, <1>1, StateIs
      <4> QED BY <4>1, <1>1, NotFoundKept
    <3> QED BY <3>1, <1>1, StateIs, NamesAssumption
  <2> QED BY <2>1, <2>2, <1>1, <1>2 DEF Done, Gone
<1>8. Cleared'
  BY <1>1 DEF Cleared, Found
<1> QED BY <1>1, <1>2, <1>3, <1>4, <1>7, <1>8, PlainNext DEF BehindInv, ExprInv

LEMMA UsageFinds ==
  ASSUME PlainState, CheckUsage, HasUse(At(pos))
  PROVE  PlainInv'
<1>1. /\ body' = body /\ UNCHANGED <<tree, active, failed, crashed>> /\ step = "usage"
      /\ step' = "expr" /\ pos \in DOMAIN body.nodes /\ pos' = pos
      /\ calls' = <<[node |-> pos, at |-> 1, found |-> FALSE]>>
      /\ prev' = IF ~ Kept(At(pos)) THEN prev ELSE IF pos \in listed THEN NULL ELSE pos
  BY DEF CheckUsage, Visiting
<1>2. TreeInv' /\ Left' = Left /\ listed' = listed
  BY <1>1, TreeStays DEF tree
<1>3. AheadInv'
  BY <1>1, <1>2, AheadStays DEF Onward
<1>4. PrevKept'
  BY <1>1, <1>2, UsagePrev
<1>5. /\ \A k \in DOMAIN body.nodes : k < pos => Gone(k)
      /\ \A u \in Left : ~ Earlier(body, pos, u)
  BY <1>1, BeforeGone
<1>6. BehindInv'
  <2>1. Done' /\ Cleared'
    BY <1>1, <1>2, <1>5 DEF Done, Cleared, Found, Gone
  <2> QED BY <2>1, <1>1, <1>4 DEF BehindInv
<1>7. Use # {} /\ ~ Returns(At(pos)) /\ Use' # {}
  <2>1. Use # {} /\ ~ Returns(At(pos))
    BY DEF HasUse, Use
  <2>2. Use' = Use
    BY <1>1, UseStays DEF tree
  <2> QED BY <2>1, <2>2
<1>8. PICK u \in Left : Reaches(body, pos, u)
  <2>1. PICK k \in FindUse(At(pos).loc, At(pos).finish) : TRUE
    BY <1>7 DEF Use
  <2>2. k \in DOMAIN mods.head /\ Reaches(body, pos, mods.head[k].use)
    BY <2>1, <1>1, StateIs, UseIs
  <2> QED BY <2>2, StateIs, LeftIs
<1>9. Marked(body, pos)
  <2>1. SUFFICES ASSUME ~ Marked(body, pos) PROVE FALSE
    OBVIOUS
  <2>2. PlainNode(body, pos)
    BY <1>1, StateIs DEF Plain
  <2>3. At(pos).kind \in {"decl", "block", "control", "expr"}
    BY <1>1, StateIs, BodyIs DEF At
  <2>4. At(pos).kind = "block"
    BY <2>1, <2>2, <2>3, <1>7 DEF PlainNode, PlainDecl, PlainExpr, Returns, At
  <2>5. Quiet(body, pos)
    BY <2>1, <2>2, <2>4 DEF PlainNode, PlainBlock, At
  <2> QED BY <2>5, <1>5, <1>8, StateIs DEF Quiet
<1>10. /\ Len(calls') = 1 /\ DOMAIN calls' = {1} /\ calls'[1].node = pos /\ calls'[1].at = 1
       /\ Top' = calls'[1]
  BY <1>1 DEF Top
<1>11. /\ 1 \in DOMAIN body.from[pos] /\ Starts(body, pos) = body.from[pos][1]
       /\ Starts(body, pos) \in Nat
  <2>1. /\ DOMAIN body.from[pos] = 1..(Len(Items(At(pos))) + 1)
        /\ Len(Items(At(pos))) \in Nat /\ Starts(body, pos) \in Nat
    BY <1>1, <1>9, StateIs, NumbersRise DEF At
  <2> DEFINE n == Len(Items(At(pos)))
  <2>2. n \in Nat /\ DOMAIN body.from[pos] = 1..(n + 1)
    BY <2>1
  <2> HIDE DEF n
  <2>3. 1 \in DOMAIN body.from[pos]
    BY <2>2
  <2> QED BY <2>1, <2>3 DEF Starts
<1>12. Frames'
  <2>1. \A i, h \in DOMAIN calls' : ~ (i < h)
    BY <1>10
  <2>2. \A i \in DOMAIN calls' : /\ Marked(body, calls'[i].node)
                                 /\ calls'[i].at \in DOMAIN body.from[calls'[i].node]
                                 /\ i = Len(calls') /\ calls'[i].at = 1
    BY <1>9, <1>10, <1>11
  <2> QED BY <2>1, <2>2, <1>1 DEF Frames
<1>13. Searched'
  <2>1. ASSUME NEW v \in Left PROVE ~ (Starts(body, pos) <= v /\ v < body.from[pos][1])
    BY <1>11, StateIs
  <2> QED BY <2>1, <1>1, <1>2, <1>10 DEF Searched
<1>14. DeclFound'
  <2>1. SUFFICES ASSUME At(pos).kind = "decl" PROVE Gone(pos) \/ prev' = pos \/ InReach(body, pos)
    BY <1>1, <1>2, <1>7 DEF DeclFound, At, Returns, Gone
  <2>2. SUFFICES ASSUME ~ Gone(pos), ~ InReach(body, pos) PROVE prev' = pos
    OBVIOUS
  <2>3. At(pos).type = "int"
    <3>1. At(pos).type \in {"int", "aggregate", "pointer"}
      BY <2>1, <1>1, StateIs, BodyIs DEF At
    <3>2. PICK v \in Left : Holds(body, pos, v)
      BY <2>2 DEF Gone
    <3>3. PICK i \in Places(At(pos)) : TRUE
      BY <3>2, <2>1, <1>1, StateIs, DeclUse DEF At
    <3>4. At(pos).init # <<>>
      BY <3>3, <2>1 DEF Places
    <3> QED BY <3>1, <3>4, <2>1, <1>7 DEF Returns
  <2> QED BY <2>1, <2>2, <2>3, <1>1, IntIsKept
<1>15. BlockFound'
  <2>1. SUFFICES ASSUME At(pos).kind # "decl"
                 PROVE  \/ Gone(pos) \/ At(pos).kind = "expr"
                        \/ \A v \in DOMAIN body.records :
                             body.from[pos][1] <= v /\ v < Ends(body, pos) => v \in Left
    <3>1. Gone(pos)' <=> Gone(pos)
      BY <1>1, <1>2 DEF Gone
    <3>2. Behind(1)' = body.from[pos][1]
      BY <1>1, <1>10 DEF Behind
    <3> QED BY <3>1, <3>2, <1>1, <1>2, <1>7, <1>10 DEF BlockFound, At
  <2>2. SUFFICES ASSUME At(pos).kind = "block"
                 PROVE  \/ Gone(pos)
                        \/ \A v \in DOMAIN body.records :
                             body.from[pos][1] <= v /\ v < Ends(body, pos) => v \in Left
    BY <2>1, <1>1, <1>9, MarkedReaches
  <2>3. CASE Whole(pos)
    <3>1. \A v : Starts(body, pos) <= v /\ v < Ends(body, pos) => Holds(body, pos, v)
      BY <2>1, <1>9 DEF Holds, At
    <3> QED BY <3>1, <2>3, <1>11 DEF Whole
  <2>4. CASE ~ Whole(pos)
    <3>1. ~ Past(pos)
      BY <1>1, StateIs DEF Past
    <3>2. PICK h \in DOMAIN body.nodes :
            Past(h) /\ \A v \in DOMAIN body.records : Holds(body, pos, v) => Holds(body, h, v)
      BY <2>2, <2>4, <3>1, <1>1, <1>9, StateIs DEF AheadInv, Blocks
    <3>3. Gone(h)
      BY <3>2, <1>1, <1>5 DEF Past
    <3>4. Gone(pos)
      BY <3>2, <3>3, StateIs DEF Gone
    <3> QED BY <3>4
  <2> QED BY <2>3, <2>4
<1>16. InItsPlace'
  BY <1>10 DEF InItsPlace
<1> QED BY <1>1, <1>2, <1>3, <1>6, <1>12, <1>13, <1>14, <1>15, <1>16, PlainNext DEF ExprInv

-----------------------------------------------------------------------------
(* check_expr.                                                             *)

LEMMA ExprIs ==
  ASSUME PlainState, InExpr
  PROVE  /\ step = "expr" /\ pos \in DOMAIN body.nodes /\ Marked(body, pos)
         /\ calls \in Seq(Call) /\ Len(calls) \in Nat /\ Len(calls) > 0
         /\ DOMAIN calls = 1..Len(calls) /\ Len(calls) \in DOMAIN calls /\ 1 \in DOMAIN calls
         /\ calls[1].node = pos /\ Top = calls[Len(calls)]
         /\ Top.node \in DOMAIN body.nodes /\ Marked(body, Top.node)
         /\ Top.at \in DOMAIN body.from[Top.node]
         /\ Frames /\ Searched /\ DeclFound /\ BlockFound /\ InItsPlace /\ Chain
         /\ \A k \in DOMAIN body.nodes : k < pos => Gone(k)
         /\ \A u \in Left : ~ Earlier(body, pos, u)
<1>1. /\ calls \in Seq(Call) /\ Len(calls) \in Nat /\ Len(calls) > 0 /\ step = "expr"
      /\ calls[1].node = pos /\ Top.node \in DOMAIN body.nodes
  BY StateIs, TopIs
<1>2. Top = calls[Len(calls)] /\ Chain
  BY StateIs, Parts DEF Top
<1>3. DOMAIN calls = 1..Len(calls) /\ Len(calls) \in DOMAIN calls /\ 1 \in DOMAIN calls
  BY <1>1
<1>4. Frames /\ Searched /\ DeclFound /\ BlockFound /\ InItsPlace
  BY <1>1, StateIs DEF ExprInv
<1>5. Marked(body, pos) /\ Marked(body, Top.node) /\ Top.at \in DOMAIN body.from[Top.node]
  BY <1>1, <1>2, <1>3, <1>4 DEF Frames
<1>6. /\ pos \in DOMAIN body.nodes
      /\ \A k \in DOMAIN body.nodes : k < pos => Gone(k)
      /\ \A u \in Left : ~ Earlier(body, pos, u)
  BY <1>1, BeforeGone
<1> QED BY <1>1, <1>2, <1>3, <1>4, <1>5, <1>6

(* A caller is in an expression or a block, at what it calls for. *)
LEMMA CallerIs ==
  ASSUME PlainState, InExpr, NEW i \in DOMAIN calls, i < Len(calls)
  PROVE  /\ calls[i].node \in DOMAIN body.nodes /\ Marked(body, calls[i].node)
         /\ At(calls[i].node).kind \in {"block", "expr"}
         /\ i + 1 \in DOMAIN calls
         /\ calls[i].at \in Places(At(calls[i].node))
         /\ SubNode(At(calls[i].node), calls[i].at)
         /\ At(calls[i].node).ops[calls[i].at][2] = calls[i + 1].node
         /\ body.from[calls[i].node][calls[i].at] = Starts(body, calls[i + 1].node)
         /\ body.from[calls[i].node][calls[i].at + 1] = Ends(body, calls[i + 1].node)
         /\ calls[i].at \in DOMAIN body.from[calls[i].node]
         /\ calls[i].at + 1 \in DOMAIN body.from[calls[i].node]
<1> DEFINE c == calls[i]
<1>1. /\ calls \in Seq(Call) /\ Len(calls) \in Nat /\ DOMAIN calls = 1..Len(calls)
      /\ Frames /\ Chain
  BY ExprIs
<1>2. c.node \in DOMAIN body.nodes
  <2>1. c \in Call
    BY <1>1, ElementOfSeq
  <2> HIDE DEF c
  <2> QED BY <2>1 DEF Call
<1>3. Marked(body, c.node) /\ At(c.node).kind # "decl"
  <2> DEFINE n == Len(calls)
  <2>1. n \in Nat /\ i \in 1..n /\ i < n
    BY <1>1
  <2> HIDE DEF n
  <2>2. i # n
    BY <2>1
  <2> QED BY <2>2, <1>1 DEF Frames, n
<1>4. At(c.node).kind \in {"block", "expr"}
  BY <1>2, <1>3, MarkedReaches
<1>5. i + 1 \in 2..Len(calls) /\ i + 1 \in DOMAIN calls /\ (i + 1) - 1 = i
  <2> DEFINE n == Len(calls)
  <2>1. i \in 1..n /\ n \in Nat /\ i < n
    BY <1>1
  <2> HIDE DEF n
  <2>2. i + 1 \in 2..n /\ i + 1 \in 1..n /\ (i + 1) - 1 = i
    BY <2>1
  <2> QED BY <2>2, <1>1 DEF n
<1>6. c.at \in DOMAIN At(c.node).ops /\ At(c.node).ops[c.at] = <<"node", calls[i + 1].node>>
  BY <1>1, <1>5 DEF Chain
<1>7. c.at \in Places(At(c.node)) /\ SubNode(At(c.node), c.at)
      /\ At(c.node).ops[c.at][2] = calls[i + 1].node
  BY <1>3, <1>6 DEF Places, SubNode
<1>8. /\ body.from[c.node][c.at] = Starts(body, calls[i + 1].node)
      /\ body.from[c.node][c.at + 1] = Ends(body, calls[i + 1].node)
  <2>1. body.nodes[c.node] = At(c.node)
    BY DEF At
  <2> QED BY <2>1, <1>2, <1>3, <1>7, StateIs, NodeUse
<1>9. c.at \in DOMAIN body.from[c.node] /\ c.at + 1 \in DOMAIN body.from[c.node]
  <2> DEFINE n == Len(Items(At(c.node)))
  <2>1. Places(At(c.node)) = 1..n /\ n \in Nat /\ DOMAIN body.from[c.node] = 1..(n + 1)
    BY <1>2, <1>3, StateIs, NumbersRise DEF At
  <2> HIDE DEF n, c
  <2> QED BY <2>1, <1>7
<1> QED BY <1>2, <1>3, <1>4, <1>5, <1>7, <1>8, <1>9

(* The node on top is in the node that is visited. *)
LEMMA TopInside ==
  ASSUME PlainState, InExpr
  PROVE  /\ Starts(body, pos) <= Starts(body, Top.node)
         /\ Ends(body, Top.node) <= Ends(body, pos)
         /\ Starts(body, Top.node) <= body.from[Top.node][Top.at]
         /\ body.from[Top.node][Top.at] <= Ends(body, Top.node)
         /\ Starts(body, pos) \in Nat /\ Ends(body, pos) \in Nat
         /\ Starts(body, Top.node) \in Nat /\ Ends(body, Top.node) \in Nat
         /\ body.from[Top.node][Top.at] \in Nat
         /\ At(pos).kind = "decl" => Len(calls) = 1 /\ Top.node = pos /\ Top = calls[1]
<1>1. /\ Len(calls) \in DOMAIN calls /\ 1 \in DOMAIN calls /\ Len(calls) \in Nat
      /\ Top = calls[Len(calls)] /\ calls[1].node = pos /\ Frames
      /\ pos \in DOMAIN body.nodes /\ Marked(body, pos)
      /\ Top.node \in DOMAIN body.nodes /\ Marked(body, Top.node)
      /\ Top.at \in DOMAIN body.from[Top.node] /\ Len(calls) > 0
  BY ExprIs
<1>2. /\ Starts(body, Top.node) <= body.from[Top.node][Top.at]
      /\ body.from[Top.node][Top.at] <= Ends(body, Top.node)
      /\ Starts(body, Top.node) \in Nat /\ Ends(body, Top.node) \in Nat
      /\ body.from[Top.node][Top.at] \in Nat
      /\ Starts(body, pos) \in Nat /\ Ends(body, pos) \in Nat
  BY <1>1, StateIs, NumbersRise
<1>3. CASE Len(calls) = 1
  BY <1>1, <1>2, <1>3
<1>4. CASE Len(calls) # 1
  <2>1. 1 < Len(calls)
    <3> DEFINE n == Len(calls)
    <3>1. n \in Nat /\ n > 0 /\ n # 1
      BY <1>1, <1>4
    <3> HIDE DEF n
    <3>2. 1 < n
      BY <3>1
    <3> QED BY <3>2 DEF n
  <2>2. /\ body.from[pos][calls[1].at] <= Starts(body, Top.node)
        /\ Ends(body, Top.node) <= body.from[pos][calls[1].at + 1]
    BY <2>1, <1>1 DEF Frames
  <2>3. /\ calls[1].at \in DOMAIN body.from[pos] /\ calls[1].at + 1 \in DOMAIN body.from[pos]
        /\ At(pos).kind \in {"block", "expr"}
    BY <2>1, <1>1, CallerIs
  <2>4. /\ Starts(body, pos) <= body.from[pos][calls[1].at]
        /\ body.from[pos][calls[1].at + 1] <= Ends(body, pos)
        /\ body.from[pos][calls[1].at] \in Nat /\ body.from[pos][calls[1].at + 1] \in Nat
    BY <2>3, <1>1, StateIs, NumbersRise
  <2>5. /\ Starts(body, pos) <= Starts(body, Top.node)
        /\ Ends(body, Top.node) <= Ends(body, pos)
    BY <2>2, <2>4, <1>2
  <2>6. At(pos).kind # "decl"
    BY <2>3
  <2> QED BY <2>5, <2>6, <1>2
<1> QED BY <1>3, <1>4

(* The visit of a node finds one use, and one on its lines. *)
LEMMA OneUse ==
  ASSUME PlainState, pos \in DOMAIN body.nodes
  PROVE  /\ \A k \in Use :
              /\ Use = {k} /\ k \in DOMAIN mods.head
              /\ mods.head[k].use \in Left /\ mods.head[k] = body.records[mods.head[k].use]
              /\ mods.head[k].name \in Names
              /\ Reaches(body, pos, mods.head[k].use)
              /\ \A v \in Left : Reaches(body, pos, v) => mods.head[k].use <= v
         /\ \A v \in Left : Reaches(body, pos, v) => Use # {}
<1>1. /\ \A k \in Use :
              /\ k \in DOMAIN mods.head
              /\ Reaches(body, pos, mods.head[k].use)
              /\ \A v \in Left : Reaches(body, pos, v) => mods.head[k].use <= v
      /\ \A v \in Left : Reaches(body, pos, v) => Use # {}
  BY StateIs, UseIs DEF Use
<1>2. ASSUME NEW k \in Use
      PROVE  /\ mods.head[k].use \in Left /\ mods.head[k] = body.records[mods.head[k].use]
             /\ mods.head[k].name \in Names
  <2>1. k \in DOMAIN mods.head
    BY <1>1
  <2>2. mods.head[k] \in Node(Names)
    BY <2>1, StateIs, ElementOfSeq DEF ListOK
  <2> QED BY <2>1, <2>2, StateIs, LeftIs DEF Node, Subset
<1>3. ASSUME NEW k \in Use, NEW h \in Use PROVE h = k
  <2>1. mods.head[k].use <= mods.head[h].use /\ mods.head[h].use <= mods.head[k].use
    BY <1>1, <1>2
  <2>2. k \in DOMAIN mods.head /\ h \in DOMAIN mods.head
    BY <1>1
  <2>3. k <= h /\ h <= k /\ h \in Nat /\ k \in Nat
    BY <2>1, <2>2, StateIs, LeftIs
  <2> QED BY <2>3
<1> QED BY <1>1, <1>2, <1>3

(* In a block or an expression the loop finds the use of the constant it   *)
(* looks at.                                                               *)
LEMMA OwnUse ==
  ASSUME PlainState, InExpr, At(pos).kind # "decl",
         Top.at \in Places(At(Top.node)), Given(At(Top.node), Top.at) \in Names,
         body.from[Top.node][Top.at] \in Left
  PROVE  \E k \in DOMAIN mods.head :
           /\ Use = {k} /\ mods.head[k].use = body.from[Top.node][Top.at]
           /\ mods.head[k].name = Given(At(Top.node), Top.at)
<1> DEFINE u == body.from[Top.node][Top.at]
<1>1. /\ pos \in DOMAIN body.nodes /\ Marked(body, pos) /\ Searched
      /\ Top.node \in DOMAIN body.nodes /\ Marked(body, Top.node)
      /\ \A v \in Left : ~ Earlier(body, pos, v)
  BY ExprIs
<1>2. /\ u \in DOMAIN body.records /\ body.records[u].name = Given(At(Top.node), Top.at)
      /\ Holds(body, pos, u)
  <2>1. /\ u \in DOMAIN body.records /\ body.records[u].name = Given(At(Top.node), Top.at)
        /\ body.from[Top.node][Top.at + 1] = u + 1
        /\ Top.at \in DOMAIN body.from[Top.node] /\ Top.at + 1 \in DOMAIN body.from[Top.node]
    BY <1>1, StateIs, LeafUse DEF At
  <2>2. u + 1 <= Ends(body, Top.node) /\ u \in Nat
    BY <2>1, <1>1, StateIs, NumbersRise
  <2>3. /\ Starts(body, pos) <= Starts(body, Top.node) /\ Starts(body, Top.node) <= u
        /\ Ends(body, Top.node) <= Ends(body, pos)
        /\ Starts(body, pos) \in Nat /\ Ends(body, pos) \in Nat
        /\ Starts(body, Top.node) \in Nat /\ Ends(body, Top.node) \in Nat
    BY TopInside
  <2> HIDE DEF u
  <2>4. Starts(body, pos) <= u /\ u < Ends(body, pos)
    BY <2>2, <2>3
  <2> QED BY <2>1, <2>4, <1>1 DEF Holds, At
<1>3. u \in Uses(body, pos)
  BY <1>2 DEF Uses
<1>4. InReach(body, pos)
  BY <1>1, MarkedReaches
<1>5. Reaches(body, pos, u)
  BY <1>3, <1>4 DEF InReach
<1>6. PICK k \in Use : TRUE
  BY <1>1, <1>5, OneUse
<1> DEFINE v == mods.head[k].use
<1>7. /\ Use = {k} /\ k \in DOMAIN mods.head /\ v \in Left /\ v <= u /\ v \in DOMAIN body.records
      /\ Reaches(body, pos, v) /\ mods.head[k] = body.records[v]
  BY <1>1, <1>5, <1>6, OneUse, StateIs
<1> HIDE DEF u, v
<1>8. ~ (v < u)
  <2>1. SUFFICES ASSUME v < u PROVE FALSE
    OBVIOUS
  <2>2. v \in 1..(u - 1)
    <3>1. v \in Nat /\ v > 0 /\ u \in Nat
      BY <1>2, <1>7, StateIs, BodyIs
    <3> QED BY <3>1, <2>1
  <2>3. Holds(body, pos, v)
    BY <2>2, <1>1, <1>3, <1>4, <1>7 DEF InReach
  <2>4. Starts(body, pos) <= v
    BY <2>3 DEF Holds, At
  <2> QED BY <2>1, <2>4, <1>1, <1>7 DEF Searched, u
<1>9. v = u
  BY <1>2, <1>7, <1>8, StateIs
<1> QED BY <1>2, <1>7, <1>9 DEF u, v

(* When the loop finds no use, none of the node is left. *)
LEMMA NoUseGone ==
  ASSUME PlainState, InExpr, At(pos).kind # "decl", Use = {}
  PROVE  Gone(pos)
<1>1. pos \in DOMAIN body.nodes /\ Marked(body, pos)
  BY ExprIs
<1>2. ASSUME NEW u \in Left, Holds(body, pos, u) PROVE FALSE
  <2>1. InReach(body, pos) /\ u \in Uses(body, pos)
    BY <1>1, <1>2, MarkedReaches, StateIs DEF Uses
  <2>2. Reaches(body, pos, u)
    BY <2>1 DEF InReach
  <2> QED BY <2>2, <1>1, OneUse
<1> QED BY <1>2 DEF Gone

(* ctx->prev is no static aggregate in check_expr, and nothing is left     *)
(* before the node.                                                        *)
LEMMA ExprPrev ==
  ASSUME PlainState, InExpr
  PROVE  prev # NULL => /\ prev \notin listed /\ At(prev).init # <<>>
                        /\ At(prev).type # "pointer" /\ ~ StaticAggregate(At(prev))
<1>1. SUFFICES ASSUME prev # NULL
      PROVE  /\ prev \notin listed /\ At(prev).init # <<>>
             /\ At(prev).type # "pointer" /\ ~ StaticAggregate(At(prev))
  OBVIOUS
<1>2. /\ step = "expr" /\ DeclFound /\ pos \in DOMAIN body.nodes
      /\ \A k \in DOMAIN body.nodes : k < pos => Gone(k)
  BY ExprIs
<1>3. /\ prev \in DOMAIN body.nodes /\ At(prev).kind = "decl"
      /\ prev < pos \/ prev = pos
  BY <1>1, <1>2, StateIs DEF PrevOK
<1>4. /\ prev \notin listed /\ At(prev).init # <<>> /\ At(prev).type # "pointer"
      /\ StaticAggregate(At(prev)) => ~ Gone(prev)
  BY <1>1, <1>2, StateIs DEF PrevKept, Found
<1>5. CASE prev < pos
  BY <1>2, <1>3, <1>4, <1>5
<1>6. CASE prev = pos
  BY <1>2, <1>3, <1>4, <1>6 DEF DeclFound, Returns, StaticAggregate
<1> QED BY <1>3, <1>4, <1>5, <1>6

(* What is kept when a step of check_expr stays in the node. *)
LEMMA StayBehind ==
  ASSUME PlainState, InExpr, body' = body, pos' = pos, step' = "expr",
         prev' = NULL \/ (prev' = prev /\ listed' = listed), Left' \subseteq Left
  PROVE  BehindInv'
<1>1. pos \in DOMAIN body.nodes /\ \A k \in DOMAIN body.nodes : k < pos => Gone(k)
  BY ExprIs
<1>2. PrevKept'
  BY ExprPrev DEF PrevKept, At, StaticAggregate
<1>3. Done' /\ Cleared'
  BY <1>1 DEF Done, Cleared, Found, Gone
<1> QED BY <1>1, <1>2, <1>3 DEF BehindInv

(* ... and when it leaves the node. *)
LEMMA LeaveBehind ==
  ASSUME PlainState, InExpr, body' = body, pos' = pos + 1, step' = "prev",
         prev' = NULL \/ (prev' = prev /\ listed' = listed), Left' \subseteq Left,
         \A u \in Left' : ~ Holds(body, pos, u)
  PROVE  BehindInv'
<1>1. pos \in DOMAIN body.nodes /\ \A k \in DOMAIN body.nodes : k < pos => Gone(k)
  BY ExprIs
<1>2. PrevKept'
  BY ExprPrev DEF PrevKept, At, StaticAggregate
<1>3. ASSUME NEW k \in DOMAIN body.nodes, k < pos + 1 PROVE k < pos \/ k = pos
  BY <1>3, StateIs
<1>4. Done' /\ Cleared'
  BY <1>1, <1>3 DEF Done, Cleared, Found, Gone
<1> QED BY <1>1, <1>2, <1>4 DEF BehindInv

(* The calls below number m go on, and d is on top. *)
NewTop(m, d) ==
  /\ Len(calls') = m /\ DOMAIN calls' = 1..m
  /\ \A i \in 1..(m - 1) : calls'[i] = calls[i]
  /\ calls'[m] = d

LEMMA TopReplaced ==
  ASSUME PlainState, InExpr, NEW d \in Call, calls' = [calls EXCEPT ![Len(calls)] = d]
  PROVE  NewTop(Len(calls), d)
<1> DEFINE s == calls
           n == Len(calls)
<1>1. s \in Seq(Call) /\ n \in 1..Len(s) /\ n = Len(s) /\ n \in Nat
  BY ExprIs
<1> HIDE DEF s, n
<1>2. /\ [s EXCEPT ![n] = d] \in Seq(Call) /\ Len([s EXCEPT ![n] = d]) = Len(s)
      /\ \A i \in 1..Len(s) : [s EXCEPT ![n] = d][i] = IF i = n THEN d ELSE s[i]
  BY <1>1, ExceptSeq
<1>3. calls' \in Seq(Call) /\ Len(calls') = n /\ \A i \in 1..n : calls'[i] = IF i = n THEN d ELSE s[i]
  BY <1>1, <1>2 DEF s, n
<1>4. DOMAIN calls' = 1..n
  BY <1>3
<1>5. \A i \in 1..(n - 1) : i \in 1..n /\ i # n
  BY <1>1
<1> QED BY <1>1, <1>3, <1>4, <1>5 DEF NewTop, s, n

LEMMA TopCalls ==
  ASSUME PlainState, InExpr, NEW d \in Call, calls' = Append(calls, d)
  PROVE  NewTop(Len(calls) + 1, d)
<1> DEFINE s == calls
           n == Len(calls)
<1>1. s \in Seq(Call) /\ n = Len(s) /\ n \in Nat
  BY ExprIs
<1> HIDE DEF s, n
<1>2. /\ calls' \in Seq(Call) /\ Len(calls') = n + 1
      /\ \A i \in 1..n : calls'[i] = s[i] /\ calls'[n + 1] = d
  BY <1>1, AppendProperties DEF s
<1>3. DOMAIN calls' = 1..(n + 1) /\ calls'[n + 1] = d
  <2>1. Append(s, d)[Len(s) + 1] = d
    BY <1>1, AppendProperties
  <2> QED BY <2>1, <1>1, <1>2 DEF s
<1>4. \A i \in 1..((n + 1) - 1) : i \in 1..n
  BY <1>1
<1> QED BY <1>2, <1>3, <1>4 DEF NewTop, s, n

LEMMA TopReturns ==
  ASSUME PlainState, InExpr, body' = body, NEW found \in BOOLEAN, Return(found)
  PROVE  \/ Len(calls) = 1 /\ calls' = <<>> /\ pos' = pos + 1 /\ step' = "prev"
         \/ /\ Len(calls) > 1 /\ pos' = pos /\ step' = "expr"
            /\ NewTop(Len(calls) - 1, Resumed(Caller, found))
<1> DEFINE n == Len(calls)
<1>0. calls \in Seq(Call) /\ n \in Nat /\ n > 0 /\ step = "expr"
  BY ExprIs
<1>1. CASE n = 1
  BY <1>1 DEF Return, NextVisit
<1>2. CASE n # 1
  <2> DEFINE s == Callers
             c == Resumed(s[n - 1], found)
  <2>1. /\ s \in Seq(Call) /\ Len(s) = n - 1
        /\ \A i \in 1..(n - 1) : s[i] = calls[i]
    <3>1. \A i \in 1..(n - 1) : calls[i] \in Call
      BY <1>0
    <3>2. /\ s \in Seq(Call) /\ Len(s) = IF 1 <= n - 1 THEN n - 1 - 1 + 1 ELSE 0
          /\ \A i \in 1..(n - 1 - 1 + 1) : s[i] = calls[1 + i - 1]
      BY <1>0, <3>1, SubSeqProperties DEF Callers
    <3> HIDE DEF s, n
    <3> QED BY <1>0, <1>2, <3>2
  <2>2. calls' = [s EXCEPT ![n - 1] = c] /\ pos' = pos /\ step' = step
    BY <1>2 DEF Return
  <2>3. n - 1 \in 1..(n - 1) /\ n > 1
    <3> HIDE DEF n
    <3> QED BY <1>0, <1>2
  <2>4. c = Resumed(Caller, found)
    BY <2>1, <2>3 DEF Caller
  <2>5. Caller \in Call
    BY <1>0, <2>3 DEF Caller
  <2>6. c \in Call
    <3> DEFINE b == Caller
    <3>1. b.node \in DOMAIN body.nodes /\ b.at \in Nat /\ b.found \in BOOLEAN
      BY <2>5 DEF Call
    <3> HIDE DEF b
    <3>2. (b.found \/ found) \in BOOLEAN
      OBVIOUS
    <3>3. Resumed(b, found) = [node  |-> b.node,
               at    |-> IF found /\ At(b.node).kind # "block" THEN 1 ELSE b.at + 1,
               found |-> b.found \/ found]
      BY DEF Resumed
    <3>4. Resumed(b, found) \in Call
      BY <3>1, <3>2, <3>3 DEF Call
    <3> HIDE DEF c
    <3> QED BY <3>4, <2>4 DEF b
  <2> HIDE DEF s, c, n
  <2>7. /\ calls' \in Seq(Call) /\ Len(calls') = n - 1
        /\ \A i \in 1..(n - 1) : calls'[i] = IF i = n - 1 THEN c ELSE s[i]
    BY <2>1, <2>2, <2>3, <2>6, ExceptSeq
  <2>8. /\ DOMAIN calls' = 1..(n - 1) /\ calls'[n - 1] = c
        /\ \A i \in 1..((n - 1) - 1) : calls'[i] = calls[i]
    <3>1. DOMAIN calls' = 1..(n - 1)
      BY <2>7
    <3>2. \A i \in 1..((n - 1) - 1) : i \in 1..(n - 1) /\ i # n - 1
      BY <1>0
    <3> QED BY <3>1, <3>2, <2>1, <2>3, <2>7
  <2> QED BY <2>2, <2>3, <2>4, <2>7, <2>8, <1>0 DEF NewTop, n
<1> QED BY <1>1, <1>2

(* What a call that goes on, is made or returns to leaves of the calls. *)
LEMMA FramesStep ==
  ASSUME PlainState, InExpr, body' = body, NEW m \in Nat, m > 0, m <= Len(calls) + 1,
         NEW d, NewTop(m, d),
         Marked(body, d.node), d.at \in DOMAIN body.from[d.node],
         At(d.node).kind = "decl" => d.at = 1,
         m <= Len(calls) => d.node = calls[m].node,
         m = Len(calls) + 1 =>
           /\ At(Top.node).kind # "decl"
           /\ Top.at + 1 \in DOMAIN body.from[Top.node]
           /\ body.from[Top.node][Top.at] <= Starts(body, d.node)
           /\ Ends(body, d.node) <= body.from[Top.node][Top.at + 1]
           /\ Starts(body, d.node) \in Nat /\ Ends(body, d.node) \in Nat
  PROVE  Frames' /\ Top' = d
<1> DEFINE n == Len(calls)
<1>1. /\ n \in Nat /\ n > 0 /\ DOMAIN calls = 1..n /\ Frames /\ Top = calls[n]
      /\ Top.node \in DOMAIN body.nodes /\ Marked(body, Top.node)
      /\ Top.at \in DOMAIN body.from[Top.node]
  BY ExprIs
<1>2. /\ Len(calls') = m /\ DOMAIN calls' = 1..m /\ calls'[m] = d
      /\ \A i \in 1..(m - 1) : calls'[i] = calls[i]
  BY DEF NewTop
<1> HIDE DEF n
<1>3. m <= n + 1 /\ (m <= n => d.node = calls[m].node)
  BY DEF n
<1>4. \A i \in 1..m : i < m => i \in 1..(m - 1) /\ i \in DOMAIN calls
  BY <1>1, <1>3
<1>5. ASSUME NEW i \in DOMAIN calls'
      PROVE  /\ Marked(body, calls'[i].node)
             /\ calls'[i].at \in DOMAIN body.from[calls'[i].node]
             /\ At(calls'[i].node).kind = "decl" => i = m /\ calls'[i].at = 1
  <2>1. CASE i = m
    BY <2>1, <1>2
  <2>2. CASE i # m
    <3>1. i < m /\ i \in Nat
      BY <2>2, <1>2
    <3>2. calls'[i] = calls[i] /\ i \in DOMAIN calls
      BY <3>1, <1>2, <1>4
    <3>3. At(calls[i].node).kind # "decl"
      <4>1. CASE i < n
        <5>1. i # n
          BY <4>1, <1>1, <3>1
        <5> QED BY <5>1, <3>2, <1>1 DEF Frames, n
      <4>2. CASE ~ (i < n)
        <5>1. i = n /\ m = n + 1
          BY <4>2, <3>1, <1>1, <1>3
        <5> QED BY <5>1, <1>1 DEF n
      <4> QED BY <4>1, <4>2
    <3> QED BY <3>2, <3>3, <1>1 DEF Frames
  <2> QED BY <2>1, <2>2
<1>6. ASSUME NEW i \in DOMAIN calls', NEW h \in DOMAIN calls', i < h
      PROVE  /\ body.from[calls'[i].node][calls'[i].at] <= Starts(body, calls'[h].node)
             /\ Ends(body, calls'[h].node) <= body.from[calls'[i].node][calls'[i].at + 1]
  <2>1. i < m /\ i \in Nat /\ h \in Nat /\ i > 0 /\ h > 0 /\ h <= m
    BY <1>2, <1>6
  <2>2. calls'[i] = calls[i] /\ i \in DOMAIN calls
    BY <2>1, <1>2, <1>4
  <2>3. CASE h < m
    <3>1. calls'[h] = calls[h] /\ h \in DOMAIN calls
      BY <2>1, <2>3, <1>2, <1>4
    <3> QED BY <3>1, <2>2, <1>6, <1>1 DEF Frames
  <2>4. CASE h = m /\ m <= n
    <3>1. calls'[h].node = calls[h].node /\ h \in DOMAIN calls
      BY <2>1, <2>4, <1>1, <1>2, <1>3
    <3> QED BY <3>1, <2>2, <1>6, <1>1 DEF Frames
  <2>5. CASE h = m /\ m = n + 1
    <3>1. /\ calls'[h] = d
          /\ body.from[Top.node][Top.at] <= Starts(body, d.node)
          /\ Ends(body, d.node) <= body.from[Top.node][Top.at + 1]
          /\ Top.at + 1 \in DOMAIN body.from[Top.node]
          /\ Starts(body, d.node) \in Nat /\ Ends(body, d.node) \in Nat
      BY <2>5, <1>2 DEF n
    <3>2. CASE i = n
      BY <3>1, <3>2, <2>2, <1>1
    <3>3. CASE i # n
      <4>1. i < n /\ n \in DOMAIN calls
        BY <3>3, <2>1, <2>5, <1>1
      <4>2. /\ body.from[calls[i].node][calls[i].at] <= Starts(body, Top.node)
            /\ Ends(body, Top.node) <= body.from[calls[i].node][calls[i].at + 1]
        BY <4>1, <2>2, <1>1 DEF Frames
      <4>3. /\ Starts(body, Top.node) <= body.from[Top.node][Top.at]
            /\ body.from[Top.node][Top.at + 1] <= Ends(body, Top.node)
            /\ Starts(body, Top.node) \in Nat /\ Ends(body, Top.node) \in Nat
            /\ body.from[Top.node][Top.at] \in Nat /\ body.from[Top.node][Top.at + 1] \in Nat
        BY <3>1, <1>1, StateIs, NumbersRise
      <4>4. /\ body.from[calls[i].node][calls[i].at] \in Nat
            /\ body.from[calls[i].node][calls[i].at + 1] \in Nat
        <5>1. /\ calls[i].node \in DOMAIN body.nodes /\ Marked(body, calls[i].node)
              /\ calls[i].at \in DOMAIN body.from[calls[i].node]
              /\ calls[i].at + 1 \in DOMAIN body.from[calls[i].node]
          BY <4>1, <2>2, CallerIs DEF n
        <5> QED BY <5>1, StateIs, NumbersRise
      <4> QED BY <4>2, <4>3, <4>4, <3>1, <2>2
    <3> QED BY <3>2, <3>3
  <2>6. \/ h < m
        \/ h = m /\ m <= n
        \/ h = m /\ m = n + 1
    BY <2>1, <1>1, <1>3
  <2> QED BY <2>3, <2>4, <2>5, <2>6
<1>7. Frames'
  BY <1>2, <1>5, <1>6 DEF Frames, At
<1>8. Top' = d
  BY <1>2 DEF Top
<1> QED BY <1>7, <1>8

(* What the blocks have not come to is not taken by a step either. *)
LEMMA BlockStep ==
  ASSUME PlainState, InExpr, body' = body, pos' = pos, NEW m \in Nat, m > 0,
         m <= Len(calls) + 1, NEW d, NewTop(m, d),
         At(d.node).kind # "expr" =>
           \E h \in DOMAIN calls :
             /\ At(calls[h].node).kind # "expr" /\ Behind(h) <= body.from[d.node][d.at]
             /\ body.from[d.node][d.at] \in Nat,
         m = Len(calls) + 1 => Top.at + 1 \in DOMAIN body.from[Top.node],
         \/ Left' = Left /\ Use' = Use
         \/ \E u \in Left :
              /\ Holds(body, pos, u) /\ Left' = Left \ {u} /\ m <= Len(calls)
              /\ u < Ends(body, Top.node)
              /\ At(d.node).kind # "expr" => u < body.from[d.node][d.at]
  PROVE  BlockFound'
<1> DEFINE n == Len(calls)
<1>1. /\ n \in Nat /\ n > 0 /\ DOMAIN calls = 1..n /\ Frames /\ Top = calls[n]
      /\ Top.node \in DOMAIN body.nodes /\ Marked(body, Top.node)
      /\ Top.at \in DOMAIN body.from[Top.node] /\ BlockFound
  BY ExprIs
<1>2. /\ Len(calls') = m /\ DOMAIN calls' = 1..m /\ calls'[m] = d
      /\ \A i \in 1..(m - 1) : calls'[i] = calls[i]
  BY DEF NewTop
<1>3. SUFFICES ASSUME At(pos).kind # "decl" PROVE BlockFound'
  BY DEF BlockFound, At
<1>4. CASE Use # {} /\ Gone(pos)
  <2>1. Left' = Left /\ Use' = Use
    BY <1>4 DEF Gone
  <2> QED BY <2>1, <1>4 DEF BlockFound, Gone
<1>5. CASE ~ (Use # {} /\ Gone(pos))
  <2>1. \A i \in DOMAIN calls : At(calls[i].node).kind # "expr" =>
          \A v \in DOMAIN body.records : Behind(i) <= v /\ v < Ends(body, pos) => v \in Left
    BY <1>1, <1>3, <1>5 DEF BlockFound
  <2>2. ASSUME NEW i \in 1..m, At(calls'[i].node).kind # "expr"
        PROVE  /\ Behind(i)' \in Nat
               /\ \E h \in DOMAIN calls :
                    /\ At(calls[h].node).kind # "expr" /\ Behind(h) \in Nat
                    /\ Behind(h) <= Behind(i)'
               /\ i < m /\ m <= n => Ends(body, Top.node) <= Behind(i)'
    <3> HIDE DEF n
    <3>1. CASE i = m
      <4>1. Behind(i)' = body.from[d.node][d.at]
        BY <3>1, <1>2 DEF Behind
      <4>2. PICK h \in DOMAIN calls :
              /\ At(calls[h].node).kind # "expr" /\ Behind(h) <= body.from[d.node][d.at]
              /\ body.from[d.node][d.at] \in Nat
        BY <2>2, <3>1, <1>2
      <4>3. Behind(h) \in Nat
        <5>1. CASE h = n
          <6>1. Behind(h) = body.from[Top.node][Top.at]
            BY <5>1, <1>1 DEF Behind, n
          <6> QED BY <6>1, <1>1, StateIs, NumbersRise
        <5>2. CASE h # n
          <6>1. h < n
            BY <5>2, <1>1
          <6>2. /\ calls[h].node \in DOMAIN body.nodes /\ Marked(body, calls[h].node)
                /\ calls[h].at + 1 \in DOMAIN body.from[calls[h].node]
            BY <6>1, CallerIs DEF n
          <6>3. Behind(h) = body.from[calls[h].node][calls[h].at + 1]
            BY <5>2 DEF Behind, n
          <6> QED BY <6>2, <6>3, StateIs, NumbersRise
        <5> QED BY <5>1, <5>2
      <4> QED BY <4>1, <4>2, <4>3, <3>1
    <3>2. CASE i # m
      <4>1. i < m /\ i \in 1..(m - 1) /\ i \in DOMAIN calls /\ calls'[i] = calls[i]
        <5>1. i < m /\ i \in 1..(m - 1)
          BY <3>2
        <5>2. i \in 1..n
          BY <5>1, <1>1 DEF n
        <5> QED BY <5>1, <5>2, <1>1, <1>2
      <4>2. Behind(i)' = body.from[calls[i].node][calls[i].at + 1]
        BY <3>2, <4>1, <1>2 DEF Behind
      <4>3. CASE i = n
        <5>1. m = n + 1 /\ Top.at + 1 \in DOMAIN body.from[Top.node] /\ calls[i] = Top
          <6>1. m <= n + 1 /\ m > n
            BY <4>1, <4>3 DEF n
          <6>2. m = n + 1
            BY <6>1, <1>1
          <6> QED BY <6>2, <4>3, <1>1 DEF n
        <5>2. /\ body.from[Top.node][Top.at] \in Nat /\ body.from[Top.node][Top.at + 1] \in Nat
              /\ body.from[Top.node][Top.at] <= body.from[Top.node][Top.at + 1]
          <6>1. /\ \A h \in DOMAIN body.from[Top.node] : body.from[Top.node][h] \in Nat
                /\ \A h, g \in DOMAIN body.from[Top.node] :
                     h <= g => body.from[Top.node][h] <= body.from[Top.node][g]
                /\ DOMAIN body.from[Top.node] = 1..(Len(Items(At(Top.node))) + 1)
                /\ Len(Items(At(Top.node))) \in Nat
            BY <1>1, StateIs, NumbersRise DEF At
          <6>2. Top.at <= Top.at + 1
            <7> DEFINE g == Len(Items(At(Top.node)))
                       x == Top.at
            <7>1. x \in 1..(g + 1) /\ g \in Nat
              BY <6>1, <1>1
            <7> HIDE DEF g, x
            <7>2. x <= x + 1
              BY <7>1
            <7> QED BY <7>2 DEF x
          <6> QED BY <6>1, <6>2, <5>1, <1>1
        <5>3. Behind(i) = body.from[Top.node][Top.at]
          BY <4>3, <1>1 DEF Behind, n
        <5>4. ~ (m <= n)
          BY <5>1, <1>1
        <5> QED BY <5>1, <5>2, <5>3, <5>4, <4>1, <4>2, <2>2
      <4>4. CASE i # n
        <5>1. i < n /\ n \in DOMAIN calls
          BY <4>1, <4>4, <1>1
        <5>2. /\ calls[i].node \in DOMAIN body.nodes /\ Marked(body, calls[i].node)
              /\ calls[i].at + 1 \in DOMAIN body.from[calls[i].node]
          BY <5>1, <4>1, CallerIs DEF n
        <5>3. Behind(i) = body.from[calls[i].node][calls[i].at + 1]
          BY <4>4 DEF Behind, n
        <5>4. Behind(i) \in Nat
          BY <5>2, <5>3, StateIs, NumbersRise
        <5>5. Ends(body, Top.node) <= body.from[calls[i].node][calls[i].at + 1]
          BY <5>1, <4>1, <1>1 DEF Frames
        <5> QED BY <5>3, <5>4, <5>5, <4>1, <4>2, <2>2
      <4> QED BY <4>3, <4>4
    <3> QED BY <3>1, <3>2
  <2>3. ASSUME NEW i \in 1..m, At(calls'[i].node).kind # "expr",
               NEW v \in DOMAIN body.records, Behind(i)' <= v, v < Ends(body, pos)
        PROVE  v \in Left'
    <3>1. v \in Nat
      BY StateIs
    <3>2. PICK h \in DOMAIN calls :
            /\ At(calls[h].node).kind # "expr" /\ Behind(h) \in Nat
            /\ Behind(h) <= Behind(i)' /\ Behind(i)' \in Nat
      BY <2>2, <2>3
    <3>3. Behind(h) <= v
      BY <3>1, <3>2, <2>3
    <3>4. v \in Left
      BY <3>2, <3>3, <2>1, <2>3
    <3>5. ASSUME NEW u \in Left, Holds(body, pos, u), Left' = Left \ {u}, m <= n,
                 u < Ends(body, Top.node),
                 At(d.node).kind # "expr" => u < body.from[d.node][d.at]
          PROVE  v # u
      <4>1. u < Behind(i)'
        <5>1. CASE i = m
          <6>1. Behind(i)' = body.from[d.node][d.at]
            BY <5>1, <1>2 DEF Behind
          <6> QED BY <6>1, <5>1, <3>5, <2>3, <1>2
        <5>2. CASE i # m
          <6>1. i < m
            BY <5>2
          <6>2. Ends(body, Top.node) <= Behind(i)' /\ Ends(body, Top.node) \in Nat /\ u \in Nat
            BY <6>1, <3>5, <2>2, <2>3, TopInside, StateIs
          <6> QED BY <6>2, <3>2, <3>5
        <5> QED BY <5>1, <5>2
      <4>2. u \in Nat
        BY <3>5, StateIs
      <4> QED BY <4>1, <4>2, <3>1, <3>2, <2>3
    <3> QED BY <3>4, <3>5
  <2> QED BY <2>3, <1>2, <1>3 DEF BlockFound, At
<1> QED BY <1>4, <1>5

(* The conclusion of a step of check_expr that stays in the node. *)
LEMMA ExprNext ==
  ASSUME PlainState, InExpr, body' = body, pos' = pos, step' = "expr",
         At(pos).kind # "decl", UNCHANGED <<active, failed, crashed>>,
         prev' = NULL \/ (prev' = prev /\ listed' = listed), Left' \subseteq Left,
         TreeInv', AheadInv', Frames', Searched', BlockFound', InItsPlace'
  PROVE  PlainInv'
<1>1. BehindInv'
  BY StayBehind
<1>2. DeclFound'
  BY DEF DeclFound, At
<1> QED BY <1>1, <1>2, PlainNext DEF ExprInv

(* A node that is no declaration is in its place. *)
LEMMA NodeInPlace ==
  ASSUME PlainState, body' = body, listed' = listed, Top' = Top \/ Top'.node = Top.node,
         At(Top.node).kind # "decl"
  PROVE  InItsPlace'
<1>1. Top.node \notin listed
  BY StateIs, Parts DEF TreeOK
<1> QED BY <1>1 DEF InItsPlace

(* The operand that check_expr looks at. *)
LEMMA LookingIs ==
  ASSUME PlainState, Looking
  PROVE  /\ InExpr /\ At(pos).kind # "decl" /\ At(Top.node).kind \in {"block", "expr"}
         /\ Top.at \in Places(At(Top.node)) /\ Top.at \in DOMAIN At(Top.node).ops
         /\ Top.at + 1 \in DOMAIN body.from[Top.node]
         /\ body.from[Top.node][Top.at + 1] \in Nat
         /\ body.from[Top.node][Top.at] <= body.from[Top.node][Top.at + 1]
         /\ Top \in Call /\ Top.at \in Nat
         /\ SubNode(At(Top.node), Top.at) <=> Operand[1] = "node"
         /\ Operand[1] \in {"node", "leaf"}
         /\ Operand[1] = "leaf" => Given(At(Top.node), Top.at) = Operand[2]
<1>1. InExpr /\ At(Top.node).kind # "decl" /\ Top.at \in DOMAIN At(Top.node).ops
  BY DEF Looking
<1>2. At(pos).kind # "decl"
  BY <1>1, TopInside
<1>3. Top.node \in DOMAIN body.nodes /\ Marked(body, Top.node)
  BY <1>1, ExprIs
<1>4. At(Top.node).kind \in {"block", "expr"} /\ Top.at \in Places(At(Top.node))
  BY <1>1, <1>3, MarkedReaches DEF Places
<1>5. Top \in Call
  BY <1>1, StateIs, TopIs
<1>6. Top.at + 1 \in DOMAIN body.from[Top.node] /\ Top.at \in DOMAIN body.from[Top.node]
      /\ Top.at <= Top.at + 1 /\ Top.at \in Nat
  <2>1. /\ DOMAIN body.from[Top.node] = 1..(Len(Items(At(Top.node))) + 1)
        /\ Len(Items(At(Top.node))) \in Nat
        /\ Places(At(Top.node)) = 1..Len(Items(At(Top.node)))
    BY <1>3, StateIs, NumbersRise DEF At
  <2> DEFINE g == Len(Items(At(Top.node)))
             x == Top.at
  <2>2. x \in 1..g /\ g \in Nat /\ DOMAIN body.from[Top.node] = 1..(g + 1)
    BY <2>1, <1>4
  <2> HIDE DEF g, x
  <2>3. x + 1 \in 1..(g + 1) /\ x \in 1..(g + 1) /\ x <= x + 1 /\ x \in Nat
    BY <2>2
  <2> QED BY <2>2, <2>3 DEF x
<1>7. /\ body.from[Top.node][Top.at + 1] \in Nat
      /\ body.from[Top.node][Top.at] <= body.from[Top.node][Top.at + 1]
  BY <1>3, <1>6, StateIs, NumbersRise
<1>8. Operand \in Operands
  <2>1. At(Top.node).ops \in Seq(Operands)
    BY <1>3, StateIs, BodyIs DEF At
  <2> QED BY <2>1, <1>1 DEF Operand
<1>9. Operand[1] \in {"node", "leaf"}
  BY <1>8 DEF Operands
<1> QED BY <1>1, <1>2, <1>4, <1>5, <1>6, <1>7, <1>9 DEF SubNode, Given, Operand

(* The uses of an operand that is passed are gone. *)
LEMMA PassedIsGone ==
  ASSUME PlainState, Looking, ~ LeafAgrees, ~ Called, NEW u \in Left
  PROVE  ~ (body.from[Top.node][Top.at] <= u /\ u < body.from[Top.node][Top.at + 1])
<1> DEFINE F == body.from[Top.node][Top.at]
           E == body.from[Top.node][Top.at + 1]
<1>1. /\ InExpr /\ At(pos).kind # "decl" /\ At(Top.node).kind \in {"block", "expr"}
      /\ Top.at \in Places(At(Top.node)) /\ Operand[1] \in {"node", "leaf"}
      /\ SubNode(At(Top.node), Top.at) <=> Operand[1] = "node"
      /\ Operand[1] = "leaf" => Given(At(Top.node), Top.at) = Operand[2]
  BY LookingIs
<1>2. Top.node \in DOMAIN body.nodes /\ Marked(body, Top.node) /\ F \in Nat /\ u \in Nat
  BY <1>1, ExprIs, TopInside, StateIs
<1>3. CASE Given(At(Top.node), Top.at) \in Names
  <2>1. E = F + 1
    BY <1>1, <1>2, <1>3, StateIs, LeafUse DEF At
  <2>2. SUFFICES ASSUME F \in Left PROVE FALSE
    <3> HIDE DEF F, E
    <3>1. F <= u /\ u < E => u = F
      BY <2>1, <1>2
    <3> QED BY <3>1, <2>2 DEF F, E
  <2>3. PICK k \in DOMAIN mods.head :
          Use = {k} /\ mods.head[k].name = Given(At(Top.node), Top.at)
    BY <2>2, <1>1, <1>3, OwnUse
  <2>4. <<Top.node, Top.at>> \in left
    BY <2>2, <1>1, <1>2, <1>3, StateIs DEF Mates
  <2>5. Operand[1] = "leaf"
    BY <1>1, <1>3, NamesAssumption DEF Given, Operand
  <2>6. At(Top.node).kind # "block"
    <3> SUFFICES ASSUME At(Top.node).kind = "block" PROVE FALSE
      OBVIOUS
    <3>1. /\ PlainNode(body, Top.node) /\ ~ SubNode(At(Top.node), Top.at)
          /\ Top.at \in DOMAIN At(Top.node).ops
      BY <1>1, <1>2, <2>5, StateIs DEF Plain, Places
    <3>2. PlainBlock(body, Top.node)
      BY <3>1 DEF PlainNode, At
    <3> QED BY <3>1, <3>2, <1>2, <1>3 DEF PlainBlock, At
  <2> QED BY <2>3, <2>4, <2>5, <2>6, <1>1 DEF LeafAgrees
<1>4. CASE Operand[1] = "node"
  <2> DEFINE d == Operand[2]
  <2>1. d \in listed
    BY <1>4 DEF Called
  <2>2. /\ d \in DOMAIN body.nodes /\ Marked(body, d)
        /\ F = Starts(body, d) /\ E = Ends(body, d)
    BY <1>1, <1>2, <1>4, StateIs, NodeUse DEF At, Operand
  <2>3. At(d).kind = "decl" /\ At(d).static
    BY <2>1, StateIs, Parts DEF TreeOK
  <2>4. PlainInBlock(body, Top.node, d)
    <3>1. PlainNode(body, Top.node) /\ SubNode(At(Top.node), Top.at)
          /\ Top.at \in DOMAIN At(Top.node).ops
      BY <1>1, <1>2, <1>4, StateIs DEF Plain, Places
    <3>2. At(Top.node).kind # "expr"
      BY <3>1, <2>3 DEF PlainNode, PlainExpr, At, Operand
    <3>3. PlainBlock(body, Top.node)
      BY <3>1, <3>2, <1>1 DEF PlainNode, At
    <3> QED BY <3>1, <3>3, <2>3, <1>2 DEF PlainBlock, At, Operand
  <2>5. At(d).type = "int" /\ At(d).init # <<>> /\ At(d).init[1] \in Names \cup {EXPR}
    BY <2>4 DEF PlainInBlock, At
  <2>6. /\ Places(At(d)) = {1} /\ Given(At(d), 1) = At(d).init[1]
        /\ \A v : Holds(body, d, v) <=> At(d).init[1] \in Names /\ body.from[d][1] = v
    BY <2>2, <2>3, <2>5, StateIs, DeclUse DEF At
  <2>7. Starts(body, d) = body.from[d][1] /\ Ends(body, d) = body.from[d][2]
    <3>1. /\ Places(At(d)) = 1..Len(Items(At(d))) /\ Len(Items(At(d))) \in Nat
          /\ Len(body.from[d]) = Len(Items(At(d))) + 1
      BY <2>2, StateIs, NumbersRise DEF At
    <3> DEFINE g == Len(Items(At(d)))
    <3>2. 1..g = {1} /\ g \in Nat
      BY <3>1, <2>6
    <3> HIDE DEF g
    <3>3. g = 1
      <4>1. g \in 1..g \/ g = 0
        BY <3>2
      <4> QED BY <4>1, <3>2
    <3>4. Len(body.from[d]) = 2
      BY <3>1, <3>3 DEF g
    <3> QED BY <3>4 DEF Starts, Ends
  <2>8. CASE At(d).init[1] \in Names
    <3>1. body.from[d][1] \notin Left
      BY <2>1, <2>2, <2>3, <2>5, <2>8, StateIs DEF Replaced, StaticInt
    <3>2. body.from[d][2] = body.from[d][1] + 1
      BY <2>2, <2>6, <2>8, StateIs, LeafUse DEF At
    <3>3. F \notin Left /\ E = F + 1
      BY <3>1, <3>2, <2>2, <2>7
    <3> HIDE DEF F, E
    <3>4. F <= u /\ u < E => u = F
      BY <3>3, <1>2
    <3> QED BY <3>3, <3>4 DEF F, E
  <2>9. CASE At(d).init[1] = EXPR
    <3>1. At(d).init[1] \notin Names /\ ~ SubNode(At(d), 1)
      BY <2>3, <2>9, NamesAssumption DEF SubNode
    <3>2. body.from[d][2] = body.from[d][1]
      <4>1. 1 \in Places(At(d)) /\ Given(At(d), 1) \notin Names
        BY <3>1, <2>6
      <4>2. body.from[d][1 + 1] = body.from[d][1]
        BY <3>1, <4>1, <2>2, StateIs, NoUse DEF At
      <4> QED BY <4>2
    <3>3. E = F
      BY <3>2, <2>2, <2>7
    <3> HIDE DEF F, E
    <3> QED BY <3>3, <1>2 DEF F, E
  <2> QED BY <2>5, <2>8, <2>9
<1>5. CASE Given(At(Top.node), Top.at) \notin Names /\ Operand[1] # "node"
  <2>1. E = F
    BY <1>1, <1>2, <1>5, StateIs, NoUse DEF At
  <2> HIDE DEF F, E
  <2> QED BY <2>1, <1>2 DEF F, E
<1> QED BY <1>3, <1>4, <1>5

LEMMA ExprPassPlain ==
  ASSUME PlainState, ExprPass
  PROVE  PlainInv'
<1> DEFINE n == Len(calls)
           d == [Top EXCEPT !.at = @ + 1]
<1>1. /\ body' = body /\ UNCHANGED <<tree, active, failed, crashed>> /\ prev' = prev
      /\ pos' = pos /\ step' = step /\ Looking /\ ~ LeafAgrees /\ ~ Called
      /\ calls' = [calls EXCEPT ![Len(calls)].at = @ + 1]
  BY DEF ExprPass
<1>2. /\ InExpr /\ At(pos).kind # "decl" /\ At(Top.node).kind \in {"block", "expr"}
      /\ Top.at + 1 \in DOMAIN body.from[Top.node]
      /\ body.from[Top.node][Top.at + 1] \in Nat
      /\ body.from[Top.node][Top.at] <= body.from[Top.node][Top.at + 1]
      /\ Top \in Call /\ Top.at \in Nat
  BY <1>1, LookingIs
<1>3. /\ step = "expr" /\ n \in Nat /\ n > 0 /\ n \in DOMAIN calls /\ Top = calls[n]
      /\ Top.node \in DOMAIN body.nodes /\ Marked(body, Top.node) /\ Searched
  BY <1>2, ExprIs
<1>4. d \in Call /\ d.node = Top.node /\ d.at = Top.at + 1
  <2> DEFINE t == Top
  <2>1. t \in [node : DOMAIN body.nodes, at : Nat, found : BOOLEAN]
    BY <1>2 DEF Call
  <2> HIDE DEF t
  <2>2. /\ [t EXCEPT !.at = @ + 1] \in Call /\ [t EXCEPT !.at = @ + 1].node = t.node
        /\ [t EXCEPT !.at = @ + 1].at = t.at + 1
    BY <2>1 DEF Call
  <2> QED BY <2>2 DEF t
<1>5. calls' = [calls EXCEPT ![n] = d]
  BY <1>1 DEF Top
<1> HIDE DEF d
<1>6. NewTop(n, d)
  BY <1>2, <1>4, <1>5, TopReplaced
<1>7. n <= n + 1 /\ n # n + 1
  <2> HIDE DEF n
  <2> QED BY <1>3
<1>8. TreeInv' /\ Left' = Left /\ listed' = listed
  BY <1>1, TreeStays DEF tree
<1>9. AheadInv'
  BY <1>1, <1>8, <1>3, AheadStays DEF Onward
<1>10. Frames' /\ Top' = d
  BY <1>1, <1>2, <1>3, <1>4, <1>6, <1>7, FramesStep
<1>11. Searched'
  <2>1. ASSUME NEW u \in Left, Starts(body, pos) <= u, u < body.from[d.node][d.at] PROVE FALSE
    <3>1. u < body.from[Top.node][Top.at]
      <4>1. ~ (body.from[Top.node][Top.at] <= u)
        BY <2>1, <1>1, <1>4, PassedIsGone
      <4>2. u \in Nat /\ body.from[Top.node][Top.at] \in Nat
        BY <1>2, StateIs, TopInside
      <4> QED BY <4>1, <4>2
    <3> QED BY <3>1, <2>1, <1>2, <1>3 DEF Searched
  <2> QED BY <2>1, <1>1, <1>8, <1>10 DEF Searched
<1>12. BlockFound'
  <2>1. Use' = Use
    BY <1>1, UseStays DEF tree
  <2>2. Behind(n) = body.from[Top.node][Top.at]
    BY <1>3 DEF Behind
  <2>3. At(d.node).kind # "expr" =>
           \E h \in DOMAIN calls :
             /\ At(calls[h].node).kind # "expr" /\ Behind(h) <= body.from[d.node][d.at]
             /\ body.from[d.node][d.at] \in Nat
    BY <2>2, <1>2, <1>3, <1>4
  <2> QED BY <2>1, <2>3, <1>1, <1>2, <1>3, <1>6, <1>7, <1>8, BlockStep
<1>13. InItsPlace'
  BY <1>1, <1>2, <1>4, <1>8, <1>10, NodeInPlace
<1> QED BY <1>1, <1>2, <1>3, <1>8, <1>9, <1>10, <1>11, <1>12, <1>13, ExprNext

LEMMA ExprLeafPlain ==
  ASSUME PlainState, ExprLeaf
  PROVE  PlainInv'
<1> DEFINE n == Len(calls)
           d == [node |-> Top.node, at |-> 1, found |-> TRUE]
           u == body.from[Top.node][Top.at]
<1>1. /\ body' = body /\ UNCHANGED <<listed, active, failed, crashed>> /\ prev' = prev
      /\ pos' = pos /\ step' = step /\ Looking /\ LeafAgrees
      /\ calls' = [calls EXCEPT ![Len(calls)] = [node |-> @.node, at |-> 1, found |-> TRUE]]
      /\ \E k \in Use : Substitute(Top.node, Top.at, k)
  BY DEF ExprLeaf
<1>2. /\ InExpr /\ At(pos).kind # "decl" /\ At(Top.node).kind \in {"block", "expr"}
      /\ Top.at \in Places(At(Top.node)) /\ Top.at \in DOMAIN At(Top.node).ops
      /\ Operand[1] = "leaf" /\ Given(At(Top.node), Top.at) = Operand[2]
      /\ <<Top.node, Top.at>> \in left /\ ~ SubNode(At(Top.node), Top.at)
  BY <1>1, LookingIs DEF LeafAgrees, SubNode
<1>3. /\ step = "expr" /\ n \in Nat /\ n > 0 /\ n \in DOMAIN calls /\ Top = calls[n]
      /\ Top.node \in DOMAIN body.nodes /\ Marked(body, Top.node) /\ Searched
      /\ pos \in DOMAIN body.nodes /\ Marked(body, pos)
  BY <1>2, ExprIs
<1>4. Given(At(Top.node), Top.at) \in Names
  BY <1>1, <1>2, OneUse, <1>3 DEF LeafAgrees
<1>5. u \in Left
  BY <1>2, <1>3, <1>4, StateIs DEF Mates
<1>6. PICK k \in DOMAIN mods.head : Use = {k} /\ mods.head[k].use = u
  BY <1>2, <1>4, <1>5, OwnUse
<1>7. Substitute(Top.node, Top.at, k)
  BY <1>1, <1>6
<1>8. TreeInv' /\ Left' = Left \ {u}
  <2>1. listed' = IF StaticInt(At(Top.node)) THEN listed \cup {Top.node} ELSE listed
    BY <1>1, <1>2 DEF StaticInt
  <2> QED BY <2>1, <1>1, <1>2, <1>3, <1>4, <1>6, <1>7, TreeTakes
<1>9. /\ Starts(body, pos) <= u /\ u < Ends(body, Top.node) /\ Starts(body, Top.node) <= u
      /\ Holds(body, pos, u) /\ Starts(body, Top.node) \in Nat /\ u \in Nat
  <2>1. /\ body.from[Top.node][Top.at + 1] = u + 1
        /\ Top.at + 1 \in DOMAIN body.from[Top.node]
    BY <1>2, <1>3, <1>4, StateIs, LeafUse DEF At
  <2>2. u + 1 <= Ends(body, Top.node) /\ u \in Nat
    BY <2>1, <1>3, <1>5, StateIs, NumbersRise
  <2>3. /\ Starts(body, pos) <= Starts(body, Top.node) /\ Starts(body, Top.node) <= u
        /\ Ends(body, Top.node) <= Ends(body, pos)
        /\ Starts(body, pos) \in Nat /\ Ends(body, pos) \in Nat
        /\ Starts(body, Top.node) \in Nat /\ Ends(body, Top.node) \in Nat
    BY <1>2, TopInside
  <2> HIDE DEF u
  <2>4. Starts(body, pos) <= u /\ u < Ends(body, pos) /\ u < Ends(body, Top.node)
    BY <2>2, <2>3
  <2> QED BY <2>2, <2>3, <2>4, <1>2, <1>3 DEF Holds, At
<1>10. AheadInv'
  <2>1. Past(pos)'
    BY <1>1, <1>3 DEF Past
  <2>2. ~ StaticAggregate(At(Top.node))
    BY <1>2 DEF StaticAggregate
  <2> QED BY <2>1, <2>2, <1>1, <1>2, <1>3, <1>4, <1>8, <1>9, AheadTakes DEF Onward
<1>11. d \in Call /\ d.node = Top.node /\ d.at = 1
  BY <1>3 DEF Call
<1>12. calls' = [calls EXCEPT ![n] = d]
  BY <1>1 DEF Top
<1> HIDE DEF d
<1>13. NewTop(n, d)
  BY <1>2, <1>11, <1>12, TopReplaced
<1>14. n <= n + 1 /\ n # n + 1 /\ n <= n
  <2> HIDE DEF n
  <2> QED BY <1>3
<1>15. 1 \in DOMAIN body.from[Top.node]
  <2>1. /\ DOMAIN body.from[Top.node] = 1..(Len(Items(At(Top.node))) + 1)
        /\ Len(Items(At(Top.node))) \in Nat
    BY <1>3, StateIs, NumbersRise DEF At
  <2> DEFINE g == Len(Items(At(Top.node)))
  <2>2. g \in Nat /\ DOMAIN body.from[Top.node] = 1..(g + 1)
    BY <2>1
  <2> HIDE DEF g
  <2> QED BY <2>2
<1>16. Frames' /\ Top' = d
  BY <1>1, <1>2, <1>3, <1>11, <1>13, <1>14, <1>15, FramesStep
<1>17. Searched'
  <2>1. body.from[d.node][d.at] = Starts(body, Top.node)
    BY <1>11 DEF Starts
  <2>2. ASSUME NEW v \in Left, Starts(body, pos) <= v, v < Starts(body, Top.node) PROVE FALSE
    <3>1. v \in Nat
      BY StateIs
    <3>2. v < u
      <4> HIDE DEF u
      <4> QED BY <3>1, <2>2, <1>9
    <3> QED BY <3>2, <2>2, <1>2, <1>3 DEF Searched
  <2> QED BY <2>1, <2>2, <1>1, <1>8, <1>16 DEF Searched
<1>18. BlockFound'
  <2>1. At(Top.node).kind = "expr"
    <3>1. SUFFICES ASSUME At(Top.node).kind = "block" PROVE FALSE
      BY <1>2
    <3>2. PlainBlock(body, Top.node)
      BY <3>1, <1>3, StateIs DEF Plain, PlainNode, At
    <3> QED BY <3>2, <1>2, <1>3, <1>4 DEF PlainBlock, At
  <2> HIDE DEF u
  <2> QED BY <2>1, <1>1, <1>2, <1>3, <1>5, <1>8, <1>9, <1>11, <1>13, <1>14, BlockStep
<1>19. InItsPlace'
  BY <1>1, <1>2, <1>11, <1>16, NodeInPlace
<1> QED BY <1>1, <1>2, <1>3, <1>8, <1>10, <1>16, <1>17, <1>18, <1>19, ExprNext

LEMMA ExprCallPlain ==
  ASSUME PlainState, ExprCall
  PROVE  PlainInv'
<1> DEFINE n == Len(calls)
           d == [node |-> Operand[2], at |-> 1, found |-> FALSE]
<1>1. /\ body' = body /\ UNCHANGED <<tree, active, failed, crashed>> /\ prev' = prev
      /\ pos' = pos /\ step' = step /\ Looking /\ Called /\ calls' = Append(calls, d)
  BY DEF ExprCall
<1>2. /\ InExpr /\ At(pos).kind # "decl" /\ At(Top.node).kind \in {"block", "expr"}
      /\ Top.at \in Places(At(Top.node)) /\ Top.at \in DOMAIN At(Top.node).ops
      /\ Top.at + 1 \in DOMAIN body.from[Top.node]
      /\ SubNode(At(Top.node), Top.at) /\ Operand[1] = "node"
  BY <1>1, LookingIs DEF Called
<1>3. /\ step = "expr" /\ n \in Nat /\ n > 0 /\ n \in DOMAIN calls /\ Top = calls[n]
      /\ Top.node \in DOMAIN body.nodes /\ Marked(body, Top.node) /\ Searched
  BY <1>2, ExprIs
<1>4. /\ Operand[2] \in DOMAIN body.nodes /\ Marked(body, Operand[2])
      /\ body.from[Top.node][Top.at] = Starts(body, Operand[2])
      /\ body.from[Top.node][Top.at + 1] = Ends(body, Operand[2])
  BY <1>2, <1>3, StateIs, NodeUse DEF At, Operand
<1>5. /\ d \in Call /\ d.node = Operand[2] /\ d.at = 1
      /\ body.from[d.node][d.at] = Starts(body, Operand[2])
  BY <1>4 DEF Call, Starts
<1>6. 1 \in DOMAIN body.from[Operand[2]] /\ Starts(body, Operand[2]) \in Nat
      /\ Ends(body, Operand[2]) \in Nat
  <2>1. /\ DOMAIN body.from[Operand[2]] = 1..(Len(Items(At(Operand[2]))) + 1)
        /\ Len(Items(At(Operand[2]))) \in Nat
        /\ Starts(body, Operand[2]) \in Nat /\ Ends(body, Operand[2]) \in Nat
    BY <1>4, StateIs, NumbersRise DEF At
  <2> DEFINE g == Len(Items(At(Operand[2])))
  <2>2. g \in Nat /\ DOMAIN body.from[Operand[2]] = 1..(g + 1)
    BY <2>1
  <2> HIDE DEF g
  <2> QED BY <2>1, <2>2
<1> HIDE DEF d
<1>7. NewTop(n + 1, d)
  BY <1>1, <1>2, <1>5, TopCalls
<1>8. n + 1 \in Nat /\ n + 1 > 0 /\ n + 1 <= n + 1 /\ ~ (n + 1 <= n) /\ n + 1 > 1
  <2> HIDE DEF n
  <2> QED BY <1>3
<1>9. TreeInv' /\ Left' = Left /\ listed' = listed
  BY <1>1, TreeStays DEF tree
<1>10. AheadInv'
  BY <1>1, <1>3, <1>9, AheadStays DEF Onward
<1>11. Frames' /\ Top' = d
  <2>1. /\ body.from[Top.node][Top.at] <= Starts(body, d.node)
        /\ Ends(body, d.node) <= body.from[Top.node][Top.at + 1]
    BY <1>4, <1>5, <1>6
  <2> HIDE DEF n
  <2>2. n + 1 <= Len(calls) + 1 /\ ~ (n + 1 <= Len(calls))
    BY <1>8 DEF n
  <2> QED BY <2>1, <2>2, <1>1, <1>2, <1>4, <1>5, <1>6, <1>7, <1>8, FramesStep
<1>12. Searched'
  BY <1>1, <1>2, <1>3, <1>4, <1>5, <1>9, <1>11 DEF Searched
<1>13. BlockFound'
  <2>1. Use' = Use
    BY <1>1, UseStays DEF tree
  <2>2. Behind(n) = body.from[Top.node][Top.at]
    BY <1>3 DEF Behind
  <2>3. ASSUME At(d.node).kind # "expr" PROVE At(Top.node).kind # "expr"
    <3>1. SUFFICES ASSUME At(Top.node).kind = "expr" PROVE FALSE
      OBVIOUS
    <3>2. PlainExpr(body, Top.node)
      BY <3>1, <1>3, StateIs DEF Plain, PlainNode, At
    <3> QED BY <3>2, <2>3, <1>2, <1>5 DEF PlainExpr, At, Operand
  <2>4. At(d.node).kind # "expr" =>
           \E h \in DOMAIN calls :
             /\ At(calls[h].node).kind # "expr" /\ Behind(h) <= body.from[d.node][d.at]
             /\ body.from[d.node][d.at] \in Nat
    BY <2>2, <2>3, <1>3, <1>4, <1>5, <1>6
  <2> HIDE DEF n
  <2>5. n + 1 <= Len(calls) + 1
    BY <1>8 DEF n
  <2> QED BY <2>1, <2>4, <2>5, <1>1, <1>2, <1>7, <1>8, <1>9, BlockStep
<1>14. InItsPlace'
  <2>1. Caller' = Top
    <3>1. Len(calls') - 1 = n /\ calls'[n] = calls[n]
      <4>1. Len(calls') = n + 1 /\ \A i \in 1..((n + 1) - 1) : calls'[i] = calls[i]
        BY <1>7 DEF NewTop
      <4> HIDE DEF n
      <4>2. n \in 1..((n + 1) - 1) /\ (n + 1) - 1 = n
        BY <1>3
      <4> QED BY <4>1, <4>2
    <3> QED BY <3>1, <1>3 DEF Caller
  <2>2. Operand[2] \in listed => Len(At(Top.node).ops) = 1
    BY <1>1, <1>2 DEF Called
  <2> QED BY <2>1, <2>2, <1>1, <1>5, <1>9, <1>11 DEF InItsPlace, At
<1> QED BY <1>1, <1>2, <1>3, <1>9, <1>10, <1>11, <1>12, <1>13, <1>14, ExprNext

(* A call returns to its caller, with all uses of its node gone. *)
LEMMA ReturnStep ==
  ASSUME PlainState, InExpr, body' = body, pos' = pos, Len(calls) > 1,
         NEW found \in BOOLEAN, NewTop(Len(calls) - 1, Resumed(Caller, found)),
         \A j \in listed' : At(j).kind = "decl", Left' \subseteq Left,
         \A u \in Left' : ~ (Starts(body, pos) <= u /\ u < Ends(body, Top.node)),
         \/ Left' = Left /\ Use' = Use
         \/ \E u \in Left :
              Holds(body, pos, u) /\ Left' = Left \ {u} /\ u < Ends(body, Top.node)
  PROVE  Frames' /\ Searched' /\ BlockFound' /\ InItsPlace' /\ At(pos).kind # "decl"
<1> DEFINE n == Len(calls)
           c == calls[n - 1]
           d == Resumed(Caller, found)
<1>1. n \in Nat /\ DOMAIN calls = 1..n /\ Top = calls[n] /\ n > 1 /\ NewTop(n - 1, d)
  BY ExprIs
<1>2. /\ n - 1 \in DOMAIN calls /\ n - 1 < n /\ (n - 1) + 1 = n /\ n - 1 \in Nat /\ n - 1 > 0
      /\ n - 1 <= n + 1 /\ n - 1 # n + 1 /\ n - 1 <= n
  <2> HIDE DEF n
  <2> QED BY <1>1
<1>3. /\ c.node \in DOMAIN body.nodes /\ Marked(body, c.node)
      /\ At(c.node).kind \in {"block", "expr"}
      /\ body.from[c.node][c.at] = Starts(body, Top.node)
      /\ body.from[c.node][c.at + 1] = Ends(body, Top.node)
      /\ c.at \in DOMAIN body.from[c.node]
      /\ c.at + 1 \in DOMAIN body.from[c.node]
  <2> DEFINE i == n - 1
  <2>1. i \in DOMAIN calls /\ i < Len(calls) /\ calls[i + 1] = Top
    BY <1>1, <1>2
  <2> HIDE DEF i
  <2>2. /\ calls[i].node \in DOMAIN body.nodes /\ Marked(body, calls[i].node)
        /\ At(calls[i].node).kind \in {"block", "expr"}
        /\ body.from[calls[i].node][calls[i].at] = Starts(body, Top.node)
        /\ body.from[calls[i].node][calls[i].at + 1] = Ends(body, Top.node)
        /\ calls[i].at \in DOMAIN body.from[calls[i].node]
        /\ calls[i].at + 1 \in DOMAIN body.from[calls[i].node]
    BY <2>1, CallerIs
  <2> QED BY <2>2 DEF i
<1>4. Caller = c
  BY DEF Caller
<1>5. /\ d.node = c.node
      /\ d.at = IF found /\ At(c.node).kind # "block" THEN 1 ELSE c.at + 1
  BY <1>4 DEF Resumed
<1>6. 1 \in DOMAIN body.from[c.node] /\ Starts(body, c.node) <= body.from[c.node][c.at]
  <2>1. /\ DOMAIN body.from[c.node] = 1..(Len(Items(At(c.node))) + 1)
        /\ Len(Items(At(c.node))) \in Nat
        /\ \A h \in DOMAIN body.from[c.node] : Starts(body, c.node) <= body.from[c.node][h]
    BY <1>3, StateIs, NumbersRise DEF At
  <2> DEFINE g == Len(Items(At(c.node)))
  <2>2. g \in Nat /\ DOMAIN body.from[c.node] = 1..(g + 1)
    BY <2>1
  <2> HIDE DEF g
  <2>3. 1 \in DOMAIN body.from[c.node]
    BY <2>2
  <2> QED BY <2>1, <2>3, <1>3
<1>7. At(pos).kind # "decl"
  <2>1. n # 1
    <3> HIDE DEF n
    <3> QED BY <1>1
  <2> QED BY <2>1, TopInside
<1> HIDE DEF d, c
<1>8. Marked(body, d.node) /\ d.at \in DOMAIN body.from[d.node] /\ d.node = calls[n - 1].node
      /\ At(d.node).kind # "decl"
  BY <1>3, <1>5, <1>6 DEF c
<1>9. Frames' /\ Top' = d
  <2> DEFINE m == n - 1
  <2>1. m \in Nat /\ m > 0 /\ m <= Len(calls) + 1 /\ m # Len(calls) + 1
        /\ NewTop(m, d) /\ d.node = calls[m].node
    BY <1>1, <1>2, <1>8
  <2> HIDE DEF m
  <2> QED BY <2>1, <1>8, FramesStep
<1>10. /\ body.from[d.node][d.at] \in Nat /\ Ends(body, Top.node) \in Nat
       /\ body.from[d.node][d.at] <= Ends(body, Top.node)
  <2>1. Starts(body, Top.node) <= Ends(body, Top.node) /\ Ends(body, Top.node) \in Nat
        /\ Starts(body, Top.node) \in Nat
    <3>1. Starts(body, Top.node) <= body.from[Top.node][Top.at]
          /\ body.from[Top.node][Top.at] <= Ends(body, Top.node)
          /\ body.from[Top.node][Top.at] \in Nat
          /\ Starts(body, Top.node) \in Nat /\ Ends(body, Top.node) \in Nat
      BY TopInside
    <3> QED BY <3>1
  <2>2. Starts(body, c.node) = body.from[c.node][1] /\ Starts(body, c.node) \in Nat
    BY <1>3, StateIs, NumbersRise DEF Starts
  <2>3. CASE d.at = 1
    <3>1. body.from[d.node][d.at] = Starts(body, c.node)
      BY <2>2, <2>3, <1>5
    <3> QED BY <3>1, <2>1, <2>2, <1>3, <1>6
  <2>4. CASE d.at = c.at + 1
    <3>1. body.from[d.node][d.at] = Ends(body, Top.node)
      BY <2>4, <1>3, <1>5
    <3> QED BY <3>1, <2>1
  <2> QED BY <2>3, <2>4, <1>5
<1>11. Searched'
  <2>1. ASSUME NEW u \in Left', Starts(body, pos) <= u, u < body.from[d.node][d.at] PROVE FALSE
    <3>1. u \in Nat
      BY StateIs
    <3>2. u < Ends(body, Top.node)
      BY <3>1, <2>1, <1>10
    <3> QED BY <3>2, <2>1
  <2> QED BY <2>1, <1>9 DEF Searched
<1>12. BlockFound'
  <2>1. At(d.node).kind # "expr" => body.from[d.node][d.at] = Ends(body, Top.node)
    BY <1>3, <1>5
  <2>2. Behind(n - 1) = Ends(body, Top.node)
    <3>1. n - 1 # Len(calls)
      <4> HIDE DEF n
      <4>1. n - 1 # n
        BY <1>1
      <4> QED BY <4>1 DEF n
    <3> QED BY <3>1, <1>3 DEF Behind, c
  <2>3. At(d.node).kind # "expr" =>
          \E h \in DOMAIN calls :
             /\ At(calls[h].node).kind # "expr" /\ Behind(h) <= body.from[d.node][d.at]
             /\ body.from[d.node][d.at] \in Nat
    BY <2>1, <2>2, <1>2, <1>8, <1>10
  <2> DEFINE m == n - 1
  <2>4. m \in Nat /\ m > 0 /\ m <= Len(calls) + 1 /\ m # Len(calls) + 1
        /\ m <= Len(calls) /\ NewTop(m, d)
    BY <1>1, <1>2
  <2> HIDE DEF m
  <2>5. \/ Left' = Left /\ Use' = Use
        \/ \E u \in Left :
              /\ Holds(body, pos, u) /\ Left' = Left \ {u} /\ m <= Len(calls)
              /\ u < Ends(body, Top.node)
              /\ At(d.node).kind # "expr" => u < body.from[d.node][d.at]
    BY <2>1, <2>4
  <2> QED BY <2>3, <2>4, <2>5, BlockStep
<1>13. InItsPlace'
  BY <1>8, <1>9 DEF InItsPlace
<1> QED BY <1>7, <1>9, <1>11, <1>12, <1>13

(* When check_expr has done with a node, none of its uses is left. *)
LEMMA EndIsGone ==
  ASSUME PlainState, InExpr, At(Top.node).kind # "decl", ~ Looking, NEW u \in Left
  PROVE  At(pos).kind # "decl" /\ ~ (Starts(body, pos) <= u /\ u < Ends(body, Top.node))
<1>1. At(pos).kind # "decl"
  BY TopInside
<1>2. /\ pos \in DOMAIN body.nodes /\ Marked(body, pos) /\ Searched
      /\ Top.node \in DOMAIN body.nodes /\ Marked(body, Top.node)
      /\ Top.at \in DOMAIN body.from[Top.node]
  BY ExprIs
<1>3. CASE Use = {}
  <2>1. ~ Holds(body, pos, u)
    BY <1>1, <1>3, NoUseGone DEF Gone
  <2>2. ~ (Starts(body, pos) <= u /\ u < Ends(body, pos))
    BY <2>1, <1>1, <1>2 DEF Holds, At
  <2>3. Ends(body, Top.node) <= Ends(body, pos) /\ u \in Nat
        /\ Ends(body, Top.node) \in Nat /\ Ends(body, pos) \in Nat
    BY TopInside, StateIs
  <2>4. u < Ends(body, Top.node) => u < Ends(body, pos)
    BY <2>3
  <2> QED BY <2>2, <2>4, <1>1
<1>4. CASE Top.at \notin DOMAIN At(Top.node).ops
  <2>1. /\ Places(At(Top.node)) = 1..Len(Items(At(Top.node))) /\ Len(Items(At(Top.node))) \in Nat
        /\ DOMAIN body.from[Top.node] = 1..(Len(Items(At(Top.node))) + 1)
        /\ Len(body.from[Top.node]) = Len(Items(At(Top.node))) + 1
    BY <1>2, StateIs, NumbersRise DEF At
  <2> DEFINE g == Len(Items(At(Top.node)))
             x == Top.at
  <2>2. x \notin 1..g /\ x \in 1..(g + 1) /\ g \in Nat
    BY <2>1, <1>2, <1>4 DEF Places
  <2> HIDE DEF g, x
  <2>3. x = g + 1
    BY <2>2
  <2>4. Top.at = Len(body.from[Top.node])
    BY <2>1, <2>3 DEF g, x
  <2>5. body.from[Top.node][Top.at] = Ends(body, Top.node)
    BY <2>4 DEF Ends
  <2> QED BY <2>5, <1>1, <1>2 DEF Searched
<1> QED BY <1>3, <1>4 DEF Looking

LEMMA ExprEndPlain ==
  ASSUME PlainState, ExprEnd
  PROVE  PlainInv'
<1>1. /\ body' = body /\ UNCHANGED <<tree, active, failed, crashed>> /\ prev' = prev
      /\ InExpr /\ At(Top.node).kind # "decl" /\ ~ Looking /\ Return(Top.found)
  BY DEF ExprEnd
<1>2. /\ \A u \in Left : ~ (Starts(body, pos) <= u /\ u < Ends(body, Top.node))
      /\ Top.found \in BOOLEAN
  <2>1. Top \in Call
    BY <1>1, StateIs, TopIs
  <2> QED BY <2>1, <1>1, EndIsGone DEF Call
<1>3. TreeInv' /\ Left' = Left /\ listed' = listed
  BY <1>1, TreeStays DEF tree
<1>4. step = "expr" /\ pos \in DOMAIN body.nodes /\ Marked(body, pos)
  BY <1>1, ExprIs
<1>5. CASE Len(calls) = 1 /\ calls' = <<>> /\ pos' = pos + 1 /\ step' = "prev"
  <2>1. Top.node = pos
    BY <1>1, <1>5, ExprIs
  <2>2. \A u \in Left : ~ Holds(body, pos, u)
    BY <2>1, <1>1, <1>2 DEF Holds, At
  <2>3. AheadInv'
    BY <1>1, <1>3, <1>5, AheadStays DEF Onward
  <2>4. BehindInv'
    BY <2>2, <1>1, <1>3, <1>5, LeaveBehind
  <2> QED BY <2>3, <2>4, <1>1, <1>3, <1>5, PlainNext DEF ExprInv
<1>6. CASE /\ Len(calls) > 1 /\ pos' = pos /\ step' = "expr"
           /\ NewTop(Len(calls) - 1, Resumed(Caller, Top.found))
  <2>1. Use' = Use
    BY <1>1, <1>6, UseStays DEF tree
  <2>2. \A j \in listed' : At(j).kind = "decl"
    BY <1>3, StateIs, Parts DEF TreeOK
  <2>3. Frames' /\ Searched' /\ BlockFound' /\ InItsPlace' /\ At(pos).kind # "decl"
    BY <2>1, <2>2, <1>1, <1>2, <1>3, <1>6, ReturnStep
  <2>4. AheadInv'
    BY <1>1, <1>3, <1>4, <1>6, AheadStays DEF Onward
  <2> QED BY <2>3, <2>4, <1>1, <1>3, <1>6, ExprNext
<1> QED BY <1>1, <1>2, <1>5, <1>6, TopReturns

LEMMA NothingAgrees ==
  ASSUME NEW j, NEW use, NEW inPlace, IntDeclaration(j, use, inPlace),
         ~ NullTree(At(j), use), \A k \in use : ~ InitAgrees(j, k)
  PROVE  ~ Fixed(j, use) /\ UNCHANGED <<tree, active, failed, crashed>>
BY DEF IntDeclaration, Fixed

(* The visit of a declaration finds its own use, if it is left.            *)
LEMMA DeclFindsOwn ==
  ASSUME PlainState, InExpr, At(pos).kind = "decl", At(pos).type = "int",
         At(pos).init # <<>>, At(pos).init[1] \in Names, body.from[pos][1] \in Left,
         NEW k \in Use
  PROVE  mods.head[k].use = body.from[pos][1]
<1> DEFINE own == body.from[pos][1]
           u == mods.head[k].use
<1>1. /\ pos \in DOMAIN body.nodes /\ DeclFound /\ \A v \in Left : ~ Earlier(body, pos, v)
  BY ExprIs
<1>2. /\ \A v : Holds(body, pos, v) <=> v = own
      /\ Holds(body, pos, own) /\ own \in DOMAIN body.records /\ own \in Uses(body, pos)
  <2>1. \A v : Holds(body, pos, v) <=> v = own
    BY <1>1, StateIs, DeclUse DEF At
  <2> QED BY <2>1, StateIs DEF Uses
<1>3. /\ u \in Left /\ u \in DOMAIN body.records /\ Reaches(body, pos, u)
      /\ \A v \in Left : Reaches(body, pos, v) => u <= v
  BY <1>1, OneUse, StateIs
<1>4. own \in Nat /\ u \in Nat /\ u > 0
  BY <1>2, <1>3, StateIs, BodyIs
<1>5. own \in Left
  OBVIOUS
<1> HIDE DEF own, u
<1>6. SUFFICES ASSUME u # own PROVE FALSE
  BY DEF own, u
<1>7. PlainDecl(body, pos)
  BY <1>1, StateIs DEF Plain, PlainNode, At
<1>8. CASE InReach(body, pos)
  <2>1. Reaches(body, pos, own)
    BY <1>2, <1>8 DEF InReach
  <2>2. u <= own
    BY <2>1, <1>3, <1>5
  <2>3. u \in 1..(own - 1)
    BY <2>2, <1>4, <1>6
  <2> QED BY <2>3, <1>1, <1>2, <1>3, <1>6, <1>8 DEF InReach
<1>9. CASE ~ InReach(body, pos)
  <2>1. Due(body, pos)
    BY <1>2, <1>7, <1>9 DEF PlainDecl, At
  <2>2. At(pos).init # <<>> /\ Before2(At(pos).loc, body.records[own].loc)
    <3>1. ~ Earlier(body, pos, own)
      BY <1>1, <1>5
    <3> QED BY <3>1, <1>2, <1>7 DEF PlainDecl, At
  <2>3. /\ body.records[own].loc \in Location /\ body.records[u].loc \in Location
        /\ At(pos).loc \in Location /\ At(pos).finish \in Location
        /\ body.nodes[pos + 1].loc \in Location
    <3>1. pos + 1 \in DOMAIN body.nodes
      BY <2>1, <1>1, StateIs DEF Due
    <3> QED BY <3>1, <1>1, <1>2, <1>3, StateIs, BodyIs DEF At
  <2>4. CASE u < own
    <3>1. Before2(body.records[u].loc, body.records[own].loc)
      BY <2>4, <1>2, <1>3, <1>4, StateIs, UsesSorted
    <3>2. Before2(body.records[own].loc, body.nodes[pos + 1].loc)
      BY <2>1, <1>2 DEF Due
    <3>3. Before2(body.records[u].loc, body.nodes[pos + 1].loc)
      BY <3>1, <3>2, <2>3, Before2Order
    <3> QED BY <3>3, <2>1, <1>1, <1>2, <1>3, <1>6 DEF Due
  <2>5. CASE own < u
    <3>1. Before2(body.records[own].loc, body.records[u].loc)
      BY <2>5, <1>2, <1>3, <1>4, StateIs, UsesSorted
    <3>2. /\ At(pos).loc.line <= body.records[own].loc.line
          /\ body.records[own].loc.line <= body.records[u].loc.line
          /\ At(pos).loc.line \in Nat /\ body.records[own].loc.line \in Nat
          /\ body.records[u].loc.line \in Nat /\ At(pos).finish.line \in Nat
      BY <3>1, <2>2, <2>3 DEF Before2, Location
    <3>3. Reaches(body, pos, own)
      <4>1. \/ body.records[u].loc.line = At(pos).loc.line
            \/ At(pos).finish.line >= body.records[u].loc.line
        BY <1>3 DEF Reaches, Approx, Before, After, At
      <4>2. \/ body.records[own].loc.line = At(pos).loc.line
            \/ /\ At(pos).loc.line <= body.records[own].loc.line
               /\ At(pos).finish.line >= body.records[own].loc.line
        BY <4>1, <3>2
      <4> QED BY <4>2 DEF Reaches, Approx, Before, After, At
    <3>4. u <= own
      BY <3>3, <1>3, <1>5
    <3> QED BY <3>4, <2>5, <1>4
  <2> QED BY <2>4, <2>5, <1>4, <1>6
<1> QED BY <1>8, <1>9

(* A declaration whose use is gone agrees with no other. *)
LEMMA GoneAgrees ==
  ASSUME PlainState, InExpr, At(pos).kind = "decl", At(pos).type = "int",
         At(pos).init # <<>>, Gone(pos), NEW k \in Use
  PROVE  ~ InitAgrees(pos, k)
<1>1. SUFFICES ASSUME InitAgrees(pos, k) PROVE FALSE
  OBVIOUS
<1>2. /\ pos \in DOMAIN body.nodes /\ \A v \in Left : ~ Earlier(body, pos, v)
  BY ExprIs
<1>3. /\ mods.head[k].use \in Left /\ mods.head[k] = body.records[mods.head[k].use]
      /\ mods.head[k].name \in Names /\ Reaches(body, pos, mods.head[k].use)
      /\ mods.head[k].use \in DOMAIN body.records
  BY <1>2, OneUse, StateIs
<1>4. /\ Places(At(pos)) = {1} /\ Given(At(pos), 1) = At(pos).init[1] /\ Marked(body, pos)
      /\ \A u : Holds(body, pos, u) <=> At(pos).init[1] \in Names /\ body.from[pos][1] = u
  BY <1>2, StateIs, DeclUse DEF At
<1>5. At(pos).init[1] = mods.head[k].name /\ (At(pos).static \/ <<pos, 1>> \in left)
  BY <1>1 DEF InitAgrees
<1>6. At(pos).init[1] \in Names /\ Given(At(pos), 1) \in Names
  BY <1>3, <1>4, <1>5
<1>7. body.from[pos][1] \notin Left
  BY <1>4, <1>6 DEF Gone
<1>8. <<pos, 1>> \notin left
  BY <1>2, <1>4, <1>6, <1>7, StateIs DEF Mates
<1>9. StaticInt(At(pos))
  BY <1>5, <1>8 DEF StaticInt
<1>10. pos \in listed
  BY <1>2, <1>6, <1>7, <1>9, StateIs DEF Replaced
<1>11. Secluded(pos)
  <2>1. pos >= pos
    BY StateIs
  <2> QED BY <2>1, <1>9, <1>10, StateIs DEF AheadInv, Again
<1>12. Holds(body, pos, mods.head[k].use) \/ Earlier(body, pos, mods.head[k].use)
  BY <1>3, <1>5, <1>11 DEF Secluded
<1> QED BY <1>2, <1>3, <1>12 DEF Gone

(* The declaration that is visited. *)
LEMMA ExprDeclAlone ==
  ASSUME PlainState, ExprDecl, Len(calls) = 1
  PROVE  PlainInv'
<1>1. /\ body' = body /\ InExpr /\ At(Top.node).kind = "decl"
      /\ IntDeclaration(Top.node, Use, InPlace) /\ Return(Fixed(Top.node, Use))
      /\ prev' = IF Fixed(Top.node, Use) THEN NULL ELSE prev
  BY DEF ExprDecl
<1>2. /\ Top.node = pos /\ pos \in DOMAIN body.nodes /\ Marked(body, pos) /\ DeclFound
      /\ \A v \in Left : ~ Earlier(body, pos, v)
  BY <1>1, ExprIs
<1>3. /\ calls' = <<>> /\ pos' = pos + 1 /\ step' = "prev" /\ InPlace
      /\ At(pos).kind = "decl" /\ IntDeclaration(pos, Use, InPlace)
  BY <1>1, <1>2 DEF Return, NextVisit, InPlace
<1>4. PlainDecl(body, pos) /\ At(pos).type \in {"int", "aggregate", "pointer"}
  BY <1>2, <1>3, StateIs, BodyIs DEF Plain, PlainNode, At
<1>5. PICK k \in Use : TRUE
  BY <1>2, <1>3 DEF DeclFound
<1>6. /\ Use = {k} /\ k \in DOMAIN mods.head /\ mods.head[k].use \in Left
      /\ mods.head[k] = body.records[mods.head[k].use] /\ mods.head[k].name \in Names
      /\ Reaches(body, pos, mods.head[k].use) /\ mods.head[k].use \in DOMAIN body.records
  BY <1>2, <1>5, OneUse, StateIs
<1>7. ~ (At(pos).type = "int" /\ At(pos).init = <<>>)
  BY <1>2, <1>4, <1>6 DEF PlainDecl, Quiet, At
<1>8. CASE Gone(pos)
  <2>1. ~ InitAgrees(pos, k)
    BY <1>1, <1>3, <1>5, <1>7, <1>8, GoneAgrees DEF InitAgrees
  <2>2. ~ NullTree(At(pos), Use)
    BY <1>6, <1>7 DEF NullTree
  <2>3. ~ Fixed(pos, Use) /\ UNCHANGED <<tree, active, failed, crashed>>
    <3>1. \A h \in Use : ~ InitAgrees(pos, h)
      BY <2>1, <1>6
    <3> HIDE DEF Use, InPlace
    <3> QED BY <3>1, <2>2, <1>3, NothingAgrees
  <2>4. TreeInv' /\ Left' = Left /\ listed' = listed
    BY <2>3, <1>1, TreeStays DEF tree
  <2>5. AheadInv'
    BY <2>4, <1>1, <1>3, AheadStays DEF Onward
  <2>6. BehindInv'
    BY <2>3, <2>4, <1>1, <1>2, <1>3, <1>8, LeaveBehind DEF Gone
  <2> QED BY <2>3, <2>4, <2>5, <2>6, <1>1, <1>3, PlainNext DEF ExprInv
<1>9. CASE ~ Gone(pos)
  <2>1. PICK u \in Left : Holds(body, pos, u)
    BY <1>9 DEF Gone
  <2>2. At(pos).init # <<>> /\ At(pos).type = "int"
    <3>1. PICK i \in Places(At(pos)) : TRUE
      BY <2>1, <1>2, <1>3, StateIs, DeclUse DEF At
    <3>2. At(pos).init # <<>>
      BY <3>1, <1>3 DEF Places
    <3> QED BY <3>2, <1>2, <1>3, <1>4 DEF DeclFound, Returns
  <2>3. /\ Places(At(pos)) = {1} /\ Given(At(pos), 1) = At(pos).init[1]
        /\ \A v : Holds(body, pos, v) <=> At(pos).init[1] \in Names /\ body.from[pos][1] = v
    BY <2>2, <1>2, <1>3, StateIs, DeclUse DEF At
  <2>4. At(pos).init[1] \in Names /\ body.from[pos][1] = u
    BY <2>1, <2>3
  <2>5. mods.head[k].use = body.from[pos][1]
    BY <2>1, <2>2, <2>4, <1>1, <1>3, <1>5, DeclFindsOwn
  <2>6. InitAgrees(pos, k)
    <3>1. <<pos, 1>> \in left
      BY <2>1, <2>3, <2>4, <1>2, StateIs DEF Mates
    <3>2. body.records[body.from[pos][1]].name = At(pos).init[1]
      BY <2>3, <2>4, <1>2, StateIs, LeafUse DEF At
    <3> QED BY <3>1, <3>2, <2>2, <2>5, <1>6 DEF InitAgrees
  <2>7. ~ At(pos).const
    <3>1. u \in Uses(body, pos)
      BY <2>1, StateIs DEF Uses
    <3> QED BY <3>1, <2>2, <1>4 DEF PlainDecl, At
  <2>8. /\ Fixed(pos, Use) /\ UNCHANGED <<active, failed, crashed>>
        /\ Substitute(pos, 1, k)
        /\ listed' = IF At(pos).static THEN listed \cup {pos} ELSE listed
    <3>1. IntDeclaration(pos, {k}, InPlace)
      BY <1>3, <1>6
    <3> QED BY <3>1, <2>2, <2>6, <2>7, <1>3, <1>6, DeclarationIs
  <2>9. prev' = NULL
    BY <2>8, <1>1, <1>2
  <2>10. TreeInv' /\ Left' = Left \ {body.from[pos][1]}
    <3>1. listed' = IF StaticInt(At(pos)) THEN listed \cup {pos} ELSE listed
      BY <2>2, <2>8, <1>3 DEF StaticInt
    <3>2. 1 \in Places(At(pos)) /\ Given(At(pos), 1) \in Names
      BY <2>3, <2>4
    <3> QED BY <3>1, <3>2, <2>5, <2>8, <1>1, <1>2, <1>6, TreeTakes
  <2>11. AheadInv'
    <3> PICK j \in DOMAIN body.nodes : j = pos
      BY <1>2
    <3>1. j < pos' /\ Past(j)' /\ Marked(body, j)
      BY <1>2, <1>3, StateIs DEF Past
    <3>2. 1 \in Places(At(j)) /\ Given(At(j), 1) \in Names
          /\ Holds(body, j, body.from[j][1])
      BY <2>3, <2>4
    <3>3. listed' = listed \/ listed' = listed \cup {j}
      BY <2>8
    <3>4. Left' = Left \ {body.from[j][1]}
      BY <2>10
    <3>5. Onward
      BY <1>3 DEF Onward
    <3> QED BY <3>1, <3>2, <3>3, <3>4, <3>5, <1>1, AheadTakes
  <2>12. BehindInv'
    BY <2>3, <2>9, <2>10, <1>1, <1>3, LeaveBehind
  <2> QED BY <2>8, <2>10, <2>11, <2>12, <1>1, <1>3, PlainNext DEF ExprInv
<1> QED BY <1>8, <1>9

(* A declaration in a block that is searched. *)
LEMMA InBlockIs ==
  ASSUME PlainState, InExpr, At(Top.node).kind = "decl", Len(calls) > 1
  PROVE  /\ Caller.node \in DOMAIN body.nodes /\ Marked(body, Caller.node)
         /\ At(Caller.node).kind = "block" /\ PlainInBlock(body, Caller.node, Top.node)
         /\ At(pos).kind # "decl" /\ Top.at = 1
         /\ PlainDecl(body, Top.node)
         /\ At(Top.node).type = "int" /\ At(Top.node).init # <<>>
         /\ At(Top.node).init[1] \in Names \cup {EXPR}
         /\ Places(At(Top.node)) = {1} /\ Given(At(Top.node), 1) = At(Top.node).init[1]
         /\ \A u : Holds(body, Top.node, u) <=>
                     At(Top.node).init[1] \in Names /\ body.from[Top.node][1] = u
         /\ At(Top.node).init[1] \in Names => Ends(body, Top.node) = body.from[Top.node][1] + 1
         /\ At(Top.node).init[1] = EXPR => Ends(body, Top.node) = body.from[Top.node][1]
<1> DEFINE n == Len(calls)
           c == calls[n - 1]
           d == Top.node
<1>1. /\ n \in Nat /\ DOMAIN calls = 1..n /\ Top = calls[n] /\ n > 1 /\ Frames
      /\ d \in DOMAIN body.nodes /\ Marked(body, d) /\ n \in DOMAIN calls
  BY ExprIs
<1>2. n - 1 \in DOMAIN calls /\ n - 1 < n /\ (n - 1) + 1 = n /\ n # 1
  <2> HIDE DEF n
  <2> QED BY <1>1
<1>3. /\ c.node \in DOMAIN body.nodes /\ Marked(body, c.node)
      /\ At(c.node).kind \in {"block", "expr"}
      /\ c.at \in Places(At(c.node)) /\ SubNode(At(c.node), c.at)
      /\ At(c.node).ops[c.at][2] = d
  <2> DEFINE i == n - 1
  <2>1. i \in DOMAIN calls /\ i < Len(calls) /\ calls[i + 1] = Top
    BY <1>1, <1>2
  <2> HIDE DEF i
  <2>2. /\ calls[i].node \in DOMAIN body.nodes /\ Marked(body, calls[i].node)
        /\ At(calls[i].node).kind \in {"block", "expr"}
        /\ calls[i].at \in Places(At(calls[i].node)) /\ SubNode(At(calls[i].node), calls[i].at)
        /\ At(calls[i].node).ops[calls[i].at][2] = calls[i + 1].node
    BY <2>1, CallerIs
  <2>3. calls[i + 1].node = d
    BY <2>1
  <2>4. calls[i] = c
    BY DEF i
  <2> QED BY <2>2, <2>3, <2>4
<1>4. Caller = c
  BY DEF Caller
<1>5. At(d).kind = "decl"
  OBVIOUS
<1> HIDE DEF c, d
<1>6. PlainNode(body, c.node) /\ c.at \in DOMAIN At(c.node).ops
  BY <1>3, StateIs DEF Plain, Places
<1>7. At(c.node).kind = "block"
  BY <1>3, <1>5, <1>6 DEF PlainNode, PlainExpr, At
<1>8. PlainInBlock(body, c.node, d)
  BY <1>3, <1>5, <1>6, <1>7 DEF PlainNode, PlainBlock, At
<1>9. At(pos).kind # "decl"
  BY <1>2, TopInside
<1>10. Top.at = 1
  BY <1>1 DEF Frames
<1>11. PlainDecl(body, d)
  BY <1>1, <1>5, StateIs DEF Plain, PlainNode, At
<1>12. At(d).type = "int" /\ At(d).init # <<>> /\ At(d).init[1] \in Names \cup {EXPR}
  BY <1>8 DEF PlainInBlock, At
<1>13. /\ Places(At(d)) = {1} /\ Given(At(d), 1) = At(d).init[1]
       /\ \A u : Holds(body, d, u) <=> At(d).init[1] \in Names /\ body.from[d][1] = u
  BY <1>1, <1>5, <1>12, StateIs, DeclUse DEF At
<1>14. Ends(body, d) = body.from[d][2]
  <2>1. /\ Places(At(d)) = 1..Len(Items(At(d))) /\ Len(Items(At(d))) \in Nat
        /\ Len(body.from[d]) = Len(Items(At(d))) + 1
    BY <1>1, StateIs, NumbersRise DEF At
  <2> DEFINE g == Len(Items(At(d)))
  <2>2. 1..g = {1} /\ g \in Nat
    BY <2>1, <1>13
  <2> HIDE DEF g
  <2>3. g = 1
    <3>1. g \in 1..g \/ g = 0
      BY <2>2
    <3> QED BY <3>1, <2>2
  <2>4. Len(body.from[d]) = 2
    BY <2>1, <2>3 DEF g
  <2> QED BY <2>4 DEF Ends
<1>15. 1 \in Places(At(d)) /\ 1 + 1 = 2
  BY <1>13
<1>16. At(d).init[1] \in Names => Ends(body, d) = body.from[d][1] + 1
  BY <1>1, <1>13, <1>14, <1>15, StateIs, LeafUse DEF At
<1>17. ASSUME At(d).init[1] = EXPR PROVE Ends(body, d) = body.from[d][1]
  <2>1. Given(At(d), 1) \notin Names /\ ~ SubNode(At(d), 1)
    BY <1>5, <1>13, <1>17, NamesAssumption DEF SubNode
  <2>2. body.from[d][1 + 1] = body.from[d][1]
    BY <2>1, <1>1, <1>15, StateIs, NoUse DEF At
  <2> QED BY <2>2, <1>14, <1>15
<1> QED BY <1>3, <1>4, <1>7, <1>8, <1>9, <1>10, <1>11, <1>12, <1>13, <1>16, <1>17 DEF d

(* It is replaced if its use is left, and nothing happens otherwise. *)
LEMMA ExprDeclInBlock ==
  ASSUME PlainState, ExprDecl, Len(calls) > 1
  PROVE  PlainInv'
<1> DEFINE own == body.from[Top.node][1]
<1>1. /\ body' = body /\ InExpr /\ At(Top.node).kind = "decl"
      /\ IntDeclaration(Top.node, Use, InPlace) /\ Return(Fixed(Top.node, Use))
      /\ prev' = IF Fixed(Top.node, Use) THEN NULL ELSE prev
  BY DEF ExprDecl
<1>2. /\ Caller.node \in DOMAIN body.nodes /\ Marked(body, Caller.node)
      /\ At(Caller.node).kind = "block" /\ PlainInBlock(body, Caller.node, Top.node)
      /\ At(pos).kind # "decl" /\ Top.at = 1
      /\ PlainDecl(body, Top.node)
      /\ At(Top.node).type = "int" /\ At(Top.node).init # <<>>
      /\ At(Top.node).init[1] \in Names \cup {EXPR}
      /\ Places(At(Top.node)) = {1} /\ Given(At(Top.node), 1) = At(Top.node).init[1]
      /\ \A u : Holds(body, Top.node, u) <=> At(Top.node).init[1] \in Names /\ own = u
      /\ At(Top.node).init[1] \in Names => Ends(body, Top.node) = own + 1
      /\ At(Top.node).init[1] = EXPR => Ends(body, Top.node) = own
  BY <1>1, InBlockIs
<1>3. /\ step = "expr" /\ pos \in DOMAIN body.nodes /\ Marked(body, pos)
      /\ Top.node \in DOMAIN body.nodes /\ Marked(body, Top.node)
      /\ Searched /\ BlockFound /\ InItsPlace /\ Len(calls) \in DOMAIN calls
      /\ Top = calls[Len(calls)]
  BY <1>1, ExprIs
<1>4. /\ Starts(body, pos) <= own /\ own <= Ends(body, Top.node)
      /\ Ends(body, Top.node) <= Ends(body, pos) /\ own \in Nat
      /\ Ends(body, Top.node) \in Nat /\ Ends(body, pos) \in Nat
      /\ Starts(body, pos) \in Nat
  <2>1. /\ Starts(body, pos) <= Starts(body, Top.node)
        /\ Starts(body, Top.node) <= body.from[Top.node][Top.at]
        /\ body.from[Top.node][Top.at] <= Ends(body, Top.node)
        /\ Ends(body, Top.node) <= Ends(body, pos) /\ body.from[Top.node][Top.at] \in Nat
        /\ Starts(body, pos) \in Nat /\ Ends(body, pos) \in Nat
        /\ Starts(body, Top.node) \in Nat /\ Ends(body, Top.node) \in Nat
    BY <1>1, TopInside
  <2>2. own = body.from[Top.node][Top.at]
    BY <1>2
  <2> HIDE DEF own
  <2>3. Starts(body, pos) <= own
    BY <2>1, <2>2
  <2> QED BY <2>1, <2>2, <2>3
<1>5. /\ pos' = pos /\ step' = "expr"
      /\ NewTop(Len(calls) - 1, Resumed(Caller, Fixed(Top.node, Use)))
      /\ Fixed(Top.node, Use) \in BOOLEAN
  <2>1. Fixed(Top.node, Use) \in BOOLEAN
    BY DEF Fixed
  <2> DEFINE f == Fixed(Top.node, Use)
  <2>2. f \in BOOLEAN /\ Return(f)
    BY <2>1, <1>1
  <2> HIDE DEF f
  <2>3. Len(calls) # 1
    <3> DEFINE n == Len(calls)
    <3>1. n \in Nat /\ n > 1
      BY <1>1, ExprIs
    <3> HIDE DEF n
    <3>2. n # 1
      BY <3>1
    <3> QED BY <3>2 DEF n
  <2>4. /\ pos' = pos /\ step' = "expr" /\ NewTop(Len(calls) - 1, Resumed(Caller, f))
    BY <2>2, <2>3, <1>1, TopReturns
  <2> QED BY <2>1, <2>4 DEF f
<1> HIDE DEF own
<1>6. ASSUME own \notin Left \/ At(Top.node).init[1] = EXPR
      PROVE  PlainInv'
  <2>1. \A k \in Use : ~ InitAgrees(Top.node, k)
    <3>1. SUFFICES ASSUME NEW k \in Use, InitAgrees(Top.node, k) PROVE FALSE
      OBVIOUS
    <3>2. /\ At(Top.node).init[1] = mods.head[k].name
          /\ At(Top.node).static \/ <<Top.node, 1>> \in left
      BY <3>1 DEF InitAgrees
    <3>3. At(Top.node).init[1] \in Names
      BY <3>1, <3>2, <1>3, OneUse
    <3>4. own \notin Left
      BY <3>3, <1>6, NamesAssumption
    <3>5. <<Top.node, 1>> \notin left
      BY <3>3, <3>4, <1>2, <1>3, StateIs DEF Mates, own
    <3>6. At(Top.node).static /\ StaticInt(At(Top.node))
      BY <3>2, <3>5, <1>1, <1>2 DEF StaticInt
    <3>7. Top.node \in listed
      BY <3>3, <3>4, <3>6, <1>3, StateIs DEF Replaced, own
    <3>8. Len(At(Caller.node).ops) # 1
      BY <3>3, <3>6, <1>2 DEF PlainInBlock, At
    <3> QED BY <3>7, <3>8, <1>3 DEF InItsPlace
  <2>2. ~ NullTree(At(Top.node), Use)
    <3>1. SUFFICES ASSUME At(Top.node).init[1] \in Names, Use = {} PROVE FALSE
      BY <1>2 DEF NullTree
    <3>2. own \notin Left
      BY <3>1, <1>6, NamesAssumption
    <3>3. Holds(body, pos, own) /\ own \in DOMAIN body.records
      <4>1. own \in DOMAIN body.records
        BY <3>1, <1>2, <1>3, StateIs, LeafUse DEF At, own
      <4>2. Starts(body, pos) <= own /\ own < Ends(body, pos)
        BY <3>1, <1>2, <1>4
      <4> QED BY <4>1, <4>2, <1>2, <1>3 DEF Holds, At
    <3>4. Behind(Len(calls)) = own
      BY <1>2, <1>3 DEF Behind, own
    <3>5. At(calls[Len(calls)].node).kind # "expr"
      BY <1>1, <1>3
    <3>6. own < Ends(body, pos) /\ own <= own
      BY <3>1, <1>2, <1>4
    <3> QED BY <3>1, <3>2, <3>3, <3>4, <3>5, <3>6, <1>2, <1>3 DEF BlockFound
  <2>3. ~ Fixed(Top.node, Use) /\ UNCHANGED <<tree, active, failed, crashed>>
    <3> HIDE DEF Use, InPlace
    <3> QED BY <2>1, <2>2, <1>1, NothingAgrees
  <2>4. TreeInv' /\ Left' = Left /\ listed' = listed /\ prev' = prev
    BY <2>3, <1>1, TreeStays DEF tree
  <2>5. AheadInv'
    BY <2>4, <1>1, <1>3, <1>5, AheadStays DEF Onward
  <2>6. Use' = Use
    BY <2>3, <1>1, <1>5, UseStays DEF tree
  <2>7. \A j \in listed' : At(j).kind = "decl"
    BY <2>4, StateIs, Parts DEF TreeOK
  <2>8. ASSUME NEW u \in Left', Starts(body, pos) <= u, u < Ends(body, Top.node) PROVE FALSE
    <3>1. u \in Left /\ u \in Nat
      BY <2>4, <2>8, StateIs
    <3>2. ~ (u < own)
      BY <3>1, <2>8, <1>2, <1>3 DEF Searched, own
    <3>3. At(Top.node).init[1] # EXPR
      BY <3>1, <3>2, <2>8, <1>2, <1>4
    <3>4. Ends(body, Top.node) = own + 1 /\ own \notin Left
      BY <3>3, <1>2, <1>6
    <3>5. u = own
      BY <3>1, <3>2, <3>4, <2>8, <1>4
    <3> QED BY <3>1, <3>4, <3>5
  <2>9. Frames' /\ Searched' /\ BlockFound' /\ InItsPlace'
    <3> DEFINE f == Fixed(Top.node, Use)
    <3>1. f \in BOOLEAN /\ NewTop(Len(calls) - 1, Resumed(Caller, f))
      BY <1>5
    <3> HIDE DEF f
    <3> QED BY <3>1, <2>4, <2>6, <2>7, <2>8, <1>1, <1>5, ReturnStep
  <2> QED BY <2>3, <2>4, <2>5, <2>9, <1>1, <1>2, <1>5, ExprNext
<1>7. ASSUME own \in Left, At(Top.node).init[1] \in Names
      PROVE  PlainInv'
  <2>1. PICK k \in DOMAIN mods.head :
          Use = {k} /\ mods.head[k].use = own /\ mods.head[k].name = At(Top.node).init[1]
    <3>1. Top.at \in Places(At(Top.node)) /\ Given(At(Top.node), Top.at) = At(Top.node).init[1]
          /\ body.from[Top.node][Top.at] = own
      BY <1>2 DEF own
    <3> QED BY <3>1, <1>1, <1>2, <1>7, OwnUse
  <2>2. InitAgrees(Top.node, k)
    <3>1. <<Top.node, 1>> \in left
      BY <1>2, <1>3, <1>7, StateIs DEF Mates, own
    <3> QED BY <3>1, <2>1, <1>2 DEF InitAgrees
  <2>3. Holds(body, Top.node, own) /\ own \in DOMAIN body.records
    BY <1>2, <1>7, StateIs
  <2>4. ~ At(Top.node).const
    <3>1. own \in Uses(body, Top.node)
      BY <2>3 DEF Uses
    <3> QED BY <3>1, <1>2 DEF PlainDecl, At
  <2>5. At(Top.node).static => InPlace
    <3>1. At(Top.node).static => Len(At(Caller.node).ops) # 1
      BY <1>2, <1>7 DEF PlainInBlock, At
    <3> QED BY <3>1, <1>2 DEF InPlace
  <2>6. /\ Fixed(Top.node, Use) /\ UNCHANGED <<active, failed, crashed>>
        /\ Substitute(Top.node, 1, k)
        /\ listed' = IF At(Top.node).static THEN listed \cup {Top.node} ELSE listed
    <3>1. IntDeclaration(Top.node, {k}, InPlace)
      BY <2>1, <1>1
    <3> HIDE DEF InPlace
    <3> QED BY <3>1, <2>1, <2>2, <2>4, <2>5, <1>2, DeclarationIs
  <2>7. prev' = NULL
    BY <2>6, <1>1
  <2> PICK j \in DOMAIN body.nodes : j = Top.node
    BY <1>3
  <2>8. /\ 1 \in Places(At(j)) /\ Given(At(j), 1) \in Names /\ Marked(body, j)
        /\ body.from[j][1] = own
    BY <1>2, <1>3, <1>7 DEF own
  <2>9. TreeInv' /\ Left' = Left \ {own}
    <3>1. listed' = IF StaticInt(At(j)) THEN listed \cup {j} ELSE listed
      BY <2>6, <1>1, <1>2 DEF StaticInt
    <3>2. Substitute(j, 1, k)
      BY <2>6
    <3>3. body' = body /\ mods.head[k].use = body.from[j][1]
      BY <2>1, <2>8, <1>1
    <3>4. TreeInv' /\ Left' = Left \ {body.from[j][1]}
      BY <3>1, <3>2, <3>3, <2>8, TreeTakes
    <3> QED BY <3>4, <2>8
  <2>10. Holds(body, pos, own)
    <3>1. Starts(body, pos) <= own /\ own < Ends(body, pos)
      BY <1>2, <1>4, <1>7
    <3> QED BY <3>1, <2>3, <1>2, <1>3 DEF Holds, At
  <2>11. AheadInv'
    <3> PICK p \in DOMAIN body.nodes : p = pos
      BY <1>3
    <3>1. Past(p)' /\ Holds(body, p, body.from[j][1]) /\ Onward
      BY <2>8, <2>10, <1>3, <1>5 DEF Past, Onward
    <3>2. ~ StaticAggregate(At(j)) /\ At(j).type = "int"
      BY <1>2 DEF StaticAggregate
    <3>3. StaticInt(At(j)) => Secluded(j)
      BY <1>2, <1>7 DEF PlainInBlock, Secluded, StaticInt, At
    <3>4. listed' = listed \/ listed' = listed \cup {j}
      BY <2>6
    <3>5. Left' = Left \ {body.from[j][1]}
      BY <2>8, <2>9
    <3> QED BY <3>1, <3>2, <3>3, <3>4, <3>5, <2>8, <1>1, AheadTakes
  <2>12. \A h \in listed' : At(h).kind = "decl"
    BY <2>6, <1>1, StateIs, Parts DEF TreeOK
  <2>13. ASSUME NEW u \in Left', Starts(body, pos) <= u, u < Ends(body, Top.node) PROVE FALSE
    <3>1. u \in Left /\ u \in Nat /\ u # own
      BY <2>9, <2>13, StateIs
    <3>2. ~ (u < own)
      BY <3>1, <2>13, <1>2, <1>3 DEF Searched, own
    <3> QED BY <3>1, <3>2, <2>13, <1>2, <1>4, <1>7
  <2>14. Frames' /\ Searched' /\ BlockFound' /\ InItsPlace'
    <3> DEFINE f == Fixed(Top.node, Use)
    <3>1. f \in BOOLEAN /\ NewTop(Len(calls) - 1, Resumed(Caller, f))
      BY <1>5
    <3> HIDE DEF f
    <3>2. own < Ends(body, Top.node)
      BY <1>2, <1>4, <1>7
    <3> QED BY <3>1, <3>2, <2>9, <2>10, <2>12, <2>13, <1>1, <1>5, <1>7, ReturnStep
  <2> QED BY <2>6, <2>7, <2>9, <2>11, <2>14, <1>1, <1>2, <1>5, ExprNext
<1> QED BY <1>2, <1>6, <1>7

-----------------------------------------------------------------------------
(* The walk as a whole.                                                    *)

(* At the end every use was found: each is in a node, and of no node any   *)
(* is left.                                                                *)
LEMMA FinishPlain ==
  ASSUME PlainState, Finish
  PROVE  PlainInv'
<1>1. /\ body' = body /\ UNCHANGED <<step, calls, prev, listed, left, crashed>>
      /\ pos' = pos + 1 /\ pos = Len(body.nodes) + 1 /\ Clear(MAX_LOCATION_T)
  BY DEF Finish
<1>2. pos \notin DOMAIN body.nodes /\ \A k \in DOMAIN body.nodes : k < pos /\ ~ (k < k)
  <2> DEFINE n == Len(body.nodes)
  <2>1. DOMAIN body.nodes = 1..n /\ n \in Nat /\ pos = n + 1
    BY <1>1, StateIs
  <2> HIDE DEF n
  <2> QED BY <2>1
<1>3. step = "prev"
  BY <1>2, StateIs DEF BehindInv
<1>4. \A k \in DOMAIN body.nodes : Gone(k)
  <2>1. SUFFICES ASSUME NEW k \in DOMAIN body.nodes, ~ Gone(k) PROVE FALSE
    OBVIOUS
  <2>2. k = pos - 1 /\ Due(body, k)
    BY <2>1, <1>2, StateIs DEF Done
  <2>3. k = Len(body.nodes)
    BY <2>2, <1>1, StateIs
  <2> QED BY <2>2, <2>3, StateIs DEF Due
<1>5. Left = {}
  <2>1. SUFFICES ASSUME NEW u \in Left PROVE FALSE
    OBVIOUS
  <2>2. PICK k \in DOMAIN body.nodes : Holds(body, k, u)
    BY StateIs DEF Plain
  <2> QED BY <2>2, <1>4 DEF Gone
<1>6. Reported(mods, MAX_LOCATION_T) = {}
  BY <1>5, StateIs, LeftIs DEF Reported, Nodes
<1>7. mods' = mods /\ active' = active /\ failed' = failed
  BY <1>1, <1>6, StateIs DEF Clear, CheckEmpty
<1>8. TreeInv' /\ Left' = Left /\ listed' = listed
  BY <1>1, <1>7, TreeStays
<1>9. AheadInv'
  BY <1>1, <1>8, AheadStays DEF Onward
<1>10. BehindInv'
  <2>1. PrevKept'
    BY <1>1, <1>3, <1>8, StateIs DEF PrevKept, Found, Gone, At, StaticAggregate
  <2>2. Done' /\ Cleared'
    BY <1>1, <1>3, <1>4, <1>8 DEF Done, Cleared, Found, Gone
  <2> QED BY <2>1, <2>2, <1>1, <1>3 DEF BehindInv
<1> QED BY <1>1, <1>3, <1>7, <1>8, <1>9, <1>10, PlainNext DEF ExprInv

LEMMA PlainInit ==
  ASSUME Init, Plain(body)
  PROVE  PlainInv
<1>1. /\ body \in Bodies /\ pos = 1 /\ step = "prev" /\ prev = NULL /\ listed = {}
      /\ left = Consts(body) /\ failed = FALSE /\ crashed = FALSE /\ active = 1
      /\ mods.head = body.records
  <2>1. mods = Recount(body.records)
    BY DEF Init
  <2>2. mods.head = body.records
    BY <2>1 DEF Recount
  <2> QED BY <2>2 DEF Init
<1>2. /\ DOMAIN body.records = 1..Len(body.records) /\ Len(body.records) \in Nat
      /\ DOMAIN body.nodes = 1..Len(body.nodes) /\ Len(body.nodes) \in Nat
      /\ \A u \in DOMAIN body.records : body.records[u].use = u
  BY <1>1, BodyIs DEF Plain
<1>3. Left = DOMAIN body.records
  BY <1>1, <1>2 DEF Left, UsesIn, Nodes
<1>4. Subset
  BY <1>1, <1>2 DEF Subset
<1>5. Mates
  <2>1. ASSUME NEW j \in DOMAIN body.nodes, NEW i \in Places(At(j)), Marked(body, j),
               Given(At(j), i) \in Names
        PROVE  <<j, i>> \in left /\ body.from[j][i] \in Left
    <3>1. body.from[j][i] \in Left
      BY <2>1, <1>1, <1>3, LeafUse DEF At
    <3>2. <<j, i>> \in Consts(body)
      BY <2>1 DEF Consts, At
    <3> QED BY <3>1, <3>2, <1>1
  <2> QED BY <2>1 DEF Mates
<1>6. Replaced
  <2>1. ASSUME NEW j \in DOMAIN body.nodes, StaticInt(At(j)), At(j).init[1] \in Names
        PROVE  body.from[j][1] \in Left
    <3>1. /\ Marked(body, j) /\ 1 \in Places(At(j)) /\ Given(At(j), 1) \in Names
      BY <2>1, <1>1, DeclUse DEF StaticInt, At
    <3> QED BY <3>1, <1>1, <1>3, LeafUse DEF At
  <2> QED BY <2>1, <1>1 DEF Replaced
<1>7. AheadInv
  BY <1>1, <1>3 DEF AheadInv, Again, Aggregates, Blocks, Whole
<1>8. BehindInv
  <2>1. \A k \in DOMAIN body.nodes : ~ (k < pos)
    BY <1>1, <1>2
  <2> QED BY <2>1, <1>1 DEF BehindInv, PrevKept, Done, Cleared, Found
<1> QED BY <1>1, <1>4, <1>5, <1>6, <1>7, <1>8 DEF PlainInv, TreeInv, ExprInv

LEMMA PlainStep ==
  ASSUME PlainState, [Next]_vars
  PROVE  PlainInv'
<1>1. CASE UNCHANGED vars
  <2>1. UNCHANGED <<body, pos, step, calls, mods, listed, left, active, prev, failed, crashed>>
    BY <1>1 DEF vars, tree
  <2>2. TreeInv' /\ Left' = Left
    BY <2>1, TreeStays
  <2>3. AheadInv'
    BY <2>1, <2>2, AheadStays DEF Onward
  <2>4. BehindInv'
    BY <2>1, <2>2, StateIs
       DEF BehindInv, PrevKept, Done, Cleared, Found, Gone, At, StaticAggregate
  <2>5. ExprInv'
    <3>1. Use' = Use /\ Top' = Top /\ Caller' = Caller /\ \A i : Behind(i)' = Behind(i)
      BY <2>1, UseStays DEF Top, Caller, Behind
    <3> QED BY <2>1, <2>2, <3>1, StateIs
        DEF ExprInv, Frames, Searched, DeclFound, BlockFound, InItsPlace, Gone, At
  <2> QED BY <2>1, <2>2, <2>3, <2>4, <2>5, PlainNext
<1>2. CASE Next
  <2>1. CASE Skip \/ NoneMissed
    BY <2>1, SkipPlain, NoneMissedPlain
  <2>2. CASE Retry
    BY <2>2, RetryStalePlain, RetryIntPlain, RetryAggregatePlain, RetryElementPlain,
       RetryEndPlain, RetryFoundPlain DEF Retry
  <2>3. CASE CheckUsage
    BY <2>3, UsageFinds, UsagePasses
  <2>4. CASE ExprDecl
    <3>1. Len(calls) \in Nat /\ Len(calls) > 0
      BY <2>4, ExprIs DEF ExprDecl
    <3>2. Len(calls) = 1 \/ Len(calls) > 1
      <4> DEFINE n == Len(calls)
      <4>1. n \in Nat /\ n > 0
        BY <3>1
      <4> HIDE DEF n
      <4>2. n = 1 \/ n > 1
        BY <4>1
      <4> QED BY <4>2 DEF n
    <3> QED BY <2>4, <3>2, ExprDeclAlone, ExprDeclInBlock
  <2>5. CASE ExprLeaf \/ ExprCall \/ ExprPass \/ ExprEnd
    BY <2>5, ExprLeafPlain, ExprCallPlain, ExprPassPlain, ExprEndPlain
  <2>6. CASE Finish
    BY <2>6, FinishPlain
  <2>7. CASE Terminated
    BY <2>7, <1>1 DEF Terminated
  <2> QED BY <1>2, <2>1, <2>2, <2>3, <2>4, <2>5, <2>6, <2>7 DEF Next, CheckExpr
<1> QED BY <1>1, <1>2

(* The invariant of every walk. *)
PlainWalk == WalkInv /\ (Plain(body) => PlainInv)

LEMMA PlainWalkStep ==
  ASSUME PlainWalk, [Next]_vars
  PROVE  PlainWalk'
<1>1. WalkInv'
  BY TypesStep DEF PlainWalk
<1>2. body' = body
  BY UsageTypes, PrevTypes, RetryTypes, ExprTypes, EndTypes, FinishTypes
     DEF PlainWalk, WalkInv, vars, Next, Retry, CheckExpr, Terminated
<1>3. Plain(body)' => PlainInv'
  BY <1>2, PlainStep DEF PlainWalk, PlainState
<1> QED BY <1>1, <1>3 DEF PlainWalk

LEMMA PlainWalkInit ==
  ASSUME Init
  PROVE  PlainWalk
BY TypesInit, PlainInit DEF PlainWalk, WalkInv, Init

(* The walk of a plain function, of any length and depth, with any number  *)
(* of macros and uses, finds them all: no record is reported as missing    *)
(* (README.md:63-66), neither behind a declaration nor at the end.         *)
THEOREM AllFoundCorrect == Spec => []AllFound
<1>1. PlainWalk => AllFound
  BY DEF PlainWalk, PlainInv, AllFound
<1> QED BY <1>1, PlainWalkInit, PlainWalkStep, PTL DEF Spec

(* It looks into no null tree and no tree of another kind, neither when    *)
(* ctx->prev is tried again nor in check_expr (src/src/ast.cc:229-231).    *)
THEOREM NoCrashCorrect == Spec => []NoCrash
<1>1. PlainWalk => NoCrash
  BY DEF PlainWalk, PlainInv, NoCrash
<1> QED BY <1>1, PlainWalkInit, PlainWalkStep, PTL DEF Spec

(* Whenever a declaration is tried again it is still the tree that was     *)
(* stored in ctx->prev (src/src/ast.cc:149-152), and no statement list.    *)
THEOREM PrevIsDeclCorrect == Spec => []PrevIsDecl
<1>1. PlainWalk => PrevIsDecl
  BY StateIs DEF PlainWalk, PlainState, PrevKept, PrevIsDecl, Begins, Missed
<1> QED BY <1>1, PlainWalkInit, PlainWalkStep, PTL DEF Spec

(* Then it is before the first record that is left (src/src/ast.cc:        *)
(* 145-148).                                                               *)
THEOREM RetryOrderCorrect == Spec => RetryOrder
<1>1. ASSUME PlainWalk, Begins, Missed, Plain(body)
      PROVE  Before2(At(prev).loc, mods.start)
  <2>1. PlainState /\ step = "prev" /\ prev # NULL /\ mods.count > 0
    BY <1>1 DEF PlainWalk, PlainState, Begins, Missed
  <2>2. Left # {}
    BY <2>1, StateIs, LeftIs
  <2>3. /\ 1 \in DOMAIN mods.head /\ mods.start = mods.head[1].loc
        /\ mods.head[1].use \in Left /\ mods.head[1] = body.records[mods.head[1].use]
    BY <2>1, <2>2, StateIs, StartIs, LeftIs DEF Subset
  <2>4. PlainDecl(body, prev) /\ At(prev).init # <<>>
    BY <2>1, PrevIs
  <2>5. ~ Earlier(body, prev, mods.head[1].use)
    BY <2>1, <2>3, Pending
  <2> QED BY <2>1, <2>3, <2>4, <2>5, StateIs DEF PlainDecl, At
<1>2. PlainWalk => (Begins /\ Missed /\ Plain(body) => Before2(At(prev).loc, mods.start))
  BY <1>1
<1> QED BY <1>2, PlainWalkInit, PlainWalkStep, PTL DEF Spec, RetryOrder
=============================================================================
