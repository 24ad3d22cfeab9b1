--------------------------- MODULE IfSwitchProofs ---------------------------
(***************************************************************************)
(* The rewritten switch does what the switch meant, for bodies of any      *)
(* length and any meaning of the macros, if its breaks lie in its own list *)
(* or in a block of it.                                                    *)
(***************************************************************************)
EXTENDS IfSwitch, TLAPS, WellFoundedInduction

Shallow(b) == \A i \in DOMAIN b : b[i].kind = "break" => b[i].depth <= 1

Matches(b, i, v) == Low(b, i) <= v /\ v <= High(b, i)

(* While the chain is tried, no label before the one tried matches. *)
ChainInv ==
  /\ Modded(body) # {}
  /\ mode = "source" => x = NULL
  /\ mode = "chain" =>
       IF x = NULL THEN test = First(Labels(body))
       ELSE \A j \in Labels(body) : j < test => ~ Matches(body, j, x)
  /\ mode # "outer"

LEMMA FirstLabel ==
  ASSUME NEW T, T \subseteq Nat, T # {}
  PROVE  First(T) \in T /\ \A j \in T : First(T) <= j
<1>1. PICK i \in T : \A j \in T : ~ (<<j, i>> \in OpToRel(<, Nat))
  BY NatLessThanWellFounded, WFMin
<1>2. \A j \in T : ~ (j < i)
  BY <1>1 DEF OpToRel
<1>3. \A j \in T : i <= j
  BY <1>2
<1> QED BY <1>3 DEF First

(* Everything there is to know of a well-formed body. *)
LEMMA Body ==
  ASSUME NEW b \in Bodies
  PROVE  /\ Labels(b) \subseteq Nat \ {0} /\ Defaults(b) \subseteq Nat \ {0}
         /\ Labels(b) \subseteq 1..Len(b) /\ Defaults(b) \subseteq 1..Len(b)
         /\ Modded(b) \subseteq Labels(b)
         /\ Len(b) \in Nat /\ DOMAIN b = 1..Len(b)
         /\ \A i \in 1..Len(b) : b[i] \in Source!Item
         /\ WellFormed(b)
<1>1. b \in Seq(Source!Item) /\ WellFormed(b)
  BY BodiesAssumption
<1>2. Len(b) \in Nat /\ DOMAIN b = 1..Len(b) /\ \A i \in 1..Len(b) : b[i] \in Source!Item
  BY <1>1
<1>3. Labels(b) = {i \in DOMAIN b : b[i].kind \in {"case", "range"}}
  BY DEF Labels, Source!Labels
<1>4. Defaults(b) = {i \in DOMAIN b : b[i].kind = "default"}
  BY DEF Defaults, Source!Defaults
<1> QED BY <1>1, <1>2, <1>3, <1>4 DEF Modded

(* The comparison built for a label is that of the switch. *)
LEMMA SameLabels ==
  ASSUME NEW b \in Bodies, NEW v \in Values
  PROVE  Switch!Matching(b, v) = {i \in Labels(b) : Matches(b, i, v)}
<1>1. Switch!Labels(b) = Labels(b)
  BY DEF Switch!Labels, Labels, Source!Labels
<1>2. ASSUME NEW i \in Labels(b)
      PROVE  Switch!Real(b[i].low) = Low(b, i) /\ Switch!Real(b[i].high) = High(b, i)
  <2>1. i \in DOMAIN b /\ b[i].kind \in {"case", "range"} /\ WellFormed(b)
    BY <1>2, Body DEF Labels, Source!Labels
  <2>2. CASE b[i].kind = "case"
    BY <2>1, <2>2 DEF WellFormed, Switch!Real, Low, High, Modded
  <2>3. CASE b[i].kind = "range"
    BY <2>1, <2>3 DEF WellFormed, Switch!Real, Low, High, Modded
  <2> QED BY <2>1, <2>2, <2>3
<1> QED BY <1>1, <1>2 DEF Switch!Matching, Matches

LEMMA RewriteFields ==
  ASSUME NEW b \in Bodies, Modded(b) # {}
  PROVE  LET r == Rewrite(b) IN
         /\ \A i \in Labels(b) : r.low[i] = Low(b, i) /\ r.high[i] = High(b, i)
         /\ r.first = First(Labels(b)) /\ r.first \in Labels(b)
         /\ \A i \in Labels(b) :
              \/ r.else[i] = END /\ \A j \in Labels(b) : j <= i
              \/ /\ r.else[i] \in Labels(b) /\ i < r.else[i] /\ r.else[i] # END
                 /\ \A j \in Labels(b) : j < r.else[i] => j <= i
         /\ IF Defaults(b) = {} THEN r.last = END
                                ELSE r.last \in Defaults(b) /\ r.last # END
         /\ \A i \in DOMAIN b : r.list[i] = ModdedStmt(b[i])
         /\ DOMAIN r.list = DOMAIN b
<1> DEFINE r == Rewrite(b)
<1>1. Labels(b) # {} /\ Labels(b) \subseteq Nat \ {0} /\ Defaults(b) \subseteq Nat \ {0}
  BY Body
<1>2. r.first = First(Labels(b)) /\ r.first \in Labels(b)
  BY <1>1, FirstLabel DEF Rewrite
<1>3. ASSUME NEW i \in Labels(b)
      PROVE  \/ r.else[i] = END /\ \A j \in Labels(b) : j <= i
             \/ /\ r.else[i] \in Labels(b) /\ i < r.else[i] /\ r.else[i] # END
                /\ \A j \in Labels(b) : j < r.else[i] => j <= i
  <2>1. Later(b, i) \subseteq Labels(b) /\ Later(b, i) \subseteq Nat
    BY <1>1 DEF Later
  <2>2. r.else[i] = IF Later(b, i) = {} THEN END ELSE First(Later(b, i))
    BY DEF Rewrite
  <2>3. CASE Later(b, i) = {}
    BY <1>1, <2>2, <2>3 DEF Later
  <2>4. CASE Later(b, i) # {}
    <3>1. r.else[i] \in Later(b, i) /\ \A j \in Later(b, i) : r.else[i] <= j
      BY <2>1, <2>2, <2>4, FirstLabel
    <3> QED BY <1>1, <3>1 DEF Later, END
  <2> QED BY <2>3, <2>4
<1>4. IF Defaults(b) = {} THEN r.last = END
                          ELSE r.last \in Defaults(b) /\ r.last # END
  BY <1>1 DEF Rewrite, LastElse, END
<1>5. /\ \A i \in Labels(b) : r.low[i] = Low(b, i) /\ r.high[i] = High(b, i)
      /\ \A i \in DOMAIN b : r.list[i] = ModdedStmt(b[i])
      /\ DOMAIN r.list = DOMAIN b
  BY DEF Rewrite
<1> QED BY <1>2, <1>3, <1>4, <1>5

-----------------------------------------------------------------------------
(* The rewriting is well typed, and its chain is tried in order. *)
LEMMA Initially == Init => TypeOK /\ ChainInv
BY DEF Init, TypeOK, ChainInv

(* One if of the chain. *)
LEMMA TestStep ==
  ASSUME TypeOK, ChainInv, NEW v \in Values, Test(v)
  PROVE  /\ TypeOK' /\ ChainInv'
         /\ Switch!Dispatch(v) \/ UNCHANGED Switch!vars
<1>1. /\ mode = "chain" /\ body \in Bodies /\ code = Rewrite(body)
      /\ x' = v /\ body' = body /\ code' = code
      /\ test \in Labels(body) /\ Modded(body) # {} /\ v \in Int
      /\ x # NULL => x = v
  BY NullAssumption DEF Test, TypeOK, ChainInv
<1>2. /\ Labels(body) \subseteq Nat \ {0} /\ Labels(body) \subseteq 1..Len(body)
      /\ Defaults(body) \subseteq 1..Len(body) /\ Len(body) \in Nat
  BY <1>1, Body
<1>3. \A j \in Labels(body) : j < test => ~ Matches(body, j, v)
  <2>1. CASE x = NULL
    <3>1. test = First(Labels(body))
      BY <1>1, <2>1 DEF ChainInv
    <3>2. \A j \in Labels(body) : test <= j
      BY <1>1, <1>2, <3>1, FirstLabel
    <3> QED BY <1>2, <3>2, <1>1
  <2>2. CASE x # NULL
    BY <1>1, <2>2 DEF ChainInv
  <2> QED BY <2>1, <2>2
<1>4. Switch!Matching(body, v) = {i \in Labels(body) : Matches(body, i, v)}
  BY <1>1, SameLabels
<1>5. Switch!Defaults(body) = Defaults(body)
  BY DEF Switch!Defaults, Defaults, Source!Defaults
<1>6. v # NULL
  BY NullAssumption
<1>7. Matches(body, test, v) <=> code.low[test] <= v /\ v <= code.high[test]
  BY <1>1, RewriteFields DEF Matches
<1>8. CASE Matches(body, test, v)
  <2>1. mode' = "body" /\ at' = test /\ test' = test
    BY <1>1, <1>2, <1>7, <1>8 DEF Test, Goto, END
  <2>2. Switch!Dispatch(v)
    BY <1>1, <1>4, <1>8, <2>1 DEF Switch!Dispatch
  <2> QED BY <1>1, <1>2, <2>1, <2>2 DEF TypeOK, ChainInv
<1>9. CASE ~ Matches(body, test, v) /\ code.else[test] = END
  <2>1. Goto(code.last) /\ test' = test
    BY <1>7, <1>9 DEF Test
  <2>2. \A j \in Labels(body) : j <= test
    BY <1>1, <1>2, <1>9, RewriteFields DEF END
  <2>3. \A j \in Labels(body) : ~ Matches(body, j, v)
    <3>1. SUFFICES ASSUME NEW j \in Labels(body) PROVE ~ Matches(body, j, v)
      OBVIOUS
    <3>2. j < test \/ j = test
      BY <1>1, <1>2, <2>2
    <3> QED BY <1>3, <1>9, <3>2
  <2>4. Switch!Matching(body, v) = {}
    BY <1>4, <2>3
  <2>5. CASE Defaults(body) = {}
    <3>1. mode' = "after" /\ at' = 0
      BY <1>1, <2>1, <2>5, RewriteFields DEF Goto
    <3>2. Switch!Dispatch(v)
      BY <1>1, <1>5, <2>4, <2>5, <3>1 DEF Switch!Dispatch
    <3> QED BY <1>1, <2>1, <3>1, <3>2 DEF TypeOK, ChainInv
  <2>6. CASE Defaults(body) # {}
    <3>1. code.last \in Defaults(body) /\ code.last # END
      BY <1>1, <2>6, RewriteFields
    <3>2. mode' = "body" /\ at' \in Defaults(body)
      BY <2>1, <3>1 DEF Goto
    <3>3. Switch!Dispatch(v)
      BY <1>1, <1>5, <2>4, <3>2 DEF Switch!Dispatch
    <3> QED BY <1>1, <1>2, <2>1, <3>2, <3>3 DEF TypeOK, ChainInv
  <2> QED BY <2>5, <2>6
<1>10. CASE ~ Matches(body, test, v) /\ code.else[test] # END
  <2>1. mode' = mode /\ at' = at /\ test' = code.else[test]
    BY <1>7, <1>10 DEF Test
  <2>2. /\ test' \in Labels(body)
        /\ \A j \in Labels(body) : j < test' => j <= test
    BY <1>1, <1>10, <2>1, RewriteFields
  <2>3. \A j \in Labels(body) : j < test' => ~ Matches(body, j, v)
    <3>1. SUFFICES ASSUME NEW j \in Labels(body), j < test'
                   PROVE  ~ Matches(body, j, v)
      OBVIOUS
    <3>2. j < test \/ j = test
      BY <1>1, <1>2, <2>2, <3>1
    <3> QED BY <1>3, <1>10, <3>2
  <2>4. UNCHANGED Switch!vars
    BY <1>1, <2>1 DEF Switch!vars
  <2>5. TypeOK'
    BY <1>1, <2>1, <2>2 DEF TypeOK
  <2>6. ChainInv'
    BY <1>1, <1>6, <2>1, <2>3 DEF ChainInv
  <2> QED BY <2>4, <2>5, <2>6
<1> QED BY <1>8, <1>9, <1>10

(* A statement of the rewritten list. *)
LEMMA BodyStep ==
  ASSUME TypeOK, ChainInv, \A b \in Bodies : Shallow(b),
         Pass \/ Leave
  PROVE  /\ TypeOK' /\ ChainInv'
         /\ Switch!Pass \/ Switch!Leave
<1>1. /\ mode = "body" /\ body \in Bodies /\ code = Rewrite(body)
      /\ at \in 1..Len(body) + 1 /\ Modded(body) # {}
      /\ UNCHANGED <<body, code, test, x>>
  BY DEF TypeOK, ChainInv, Pass, Leave
<1>2. /\ DOMAIN code.list = 1..Len(body) /\ DOMAIN body = 1..Len(body)
      /\ Len(body) \in Nat /\ Shallow(body)
      /\ \A i \in 1..Len(body) : /\ code.list[i] = ModdedStmt(body[i])
                                 /\ body[i] \in Source!Item
  BY <1>1, Body, RewriteFields
<1>3. \A i \in 1..Len(body) :
        /\ code.list[i] # "break"
        /\ code.list[i] = "goto_end" <=> body[i].kind = "break"
  <2>1. SUFFICES ASSUME NEW i \in 1..Len(body)
                 PROVE  /\ code.list[i] # "break"
                        /\ code.list[i] = "goto_end" <=> body[i].kind = "break"
    OBVIOUS
  <2>2. body[i].kind \in {"case", "range", "default", "stmt", "break"}
    BY <1>2 DEF Source!Item, Source!Kinds
  <2>3. body[i].kind = "break" => body[i].depth <= 1
    BY <1>2 DEF Shallow
  <2>4. code.list[i] = ModdedStmt(body[i])
    BY <1>2
  <2> QED BY <2>2, <2>3, <2>4 DEF ModdedStmt
<1>4. CASE Pass
  <2>1. at \in 1..Len(body) /\ at' = at + 1 /\ mode' = mode
    BY <1>2, <1>4 DEF Pass
  <2>2. Switch!Pass
    BY <1>1, <1>2, <1>3, <1>4, <2>1 DEF Pass, Switch!Pass
  <2> QED BY <1>1, <1>2, <2>1, <2>2 DEF TypeOK, ChainInv
<1>5. CASE Leave
  <2>1. at \in DOMAIN code.list => code.list[at] = "goto_end"
    BY <1>2, <1>3, <1>5 DEF Leave
  <2>2. mode' = "after" /\ at' = 0
    BY <1>5, <2>1 DEF Leave
  <2>3. at \in DOMAIN body => body[at].kind = "break"
    BY <1>2, <1>3, <2>1
  <2>4. Switch!Leave
    BY <1>1, <2>2, <2>3 DEF Switch!Leave
  <2> QED BY <1>1, <2>2, <2>4 DEF TypeOK, ChainInv
<1> QED BY <1>4, <1>5

LEMMA Stepwise ==
  ASSUME TypeOK, ChainInv, \A b \in Bodies : Shallow(b), [Next]_vars
  PROVE  TypeOK' /\ ChainInv' /\ [Switch!Next]_(Switch!vars)
<1>1. CASE BuildModdedSwitchStmt
  <2>1. /\ mode = "source" /\ body \in Bodies /\ Modded(body) # {} /\ x = NULL
        /\ at = 0
    BY <1>1 DEF BuildModdedSwitchStmt, TypeOK, ChainInv
  <2>2. /\ code' = Rewrite(body) /\ mode' = "chain" /\ test' = code'.first
        /\ body' = body /\ at' = at /\ x' = x
    BY <1>1 DEF BuildModdedSwitchStmt
  <2>3. test' = First(Labels(body)) /\ test' \in Labels(body)
    BY <2>1, <2>2, RewriteFields
  <2>4. UNCHANGED Switch!vars
    BY <2>1, <2>2 DEF Switch!vars
  <2> QED BY <2>1, <2>2, <2>3, <2>4 DEF TypeOK, ChainInv
<1>2. ASSUME NEW v \in Values, Test(v)
      PROVE  TypeOK' /\ ChainInv' /\ [Switch!Next]_(Switch!vars)
  BY <1>2, TestStep DEF Switch!Next
<1>3. CASE Pass \/ Leave
  BY <1>3, BodyStep DEF Switch!Next
<1>4. CASE UNCHANGED vars
  BY <1>4 DEF vars, Switch!vars, TypeOK, ChainInv, Labels, Modded, Matches
<1> QED BY <1>1, <1>2, <1>3, <1>4 DEF Next, Terminated

(* The rewritten switch takes the steps of the switch it was made from     *)
(* (build_modded_switch_stmt), without the part about fairness.            *)
THEOREM SwitchCorrect ==
  ASSUME \A b \in Bodies : Shallow(b)
  PROVE  Spec => Switch!Spec
<1>1. Init => Switch!Init
  BY DEF Init, Switch!Init
<1>2. Init => TypeOK /\ ChainInv
  BY Initially
<1>3. TypeOK /\ ChainInv /\ [Next]_vars => TypeOK' /\ ChainInv'
  BY Stepwise
<1>4. TypeOK /\ ChainInv /\ [Next]_vars => [Switch!Next]_(Switch!vars)
  BY Stepwise
<1> QED BY <1>1, <1>2, <1>3, <1>4, PTL DEF Spec, Switch!Spec

(* Every reachable state is well typed, and no break is left behind. *)
THEOREM SwitchSafe ==
  ASSUME \A b \in Bodies : Shallow(b)
  PROVE  Spec => [](TypeOK /\ BreaksReachEnd)
<1>1. Init => TypeOK /\ ChainInv
  BY Initially
<1>2. TypeOK /\ ChainInv /\ [Next]_vars => TypeOK' /\ ChainInv'
  BY Stepwise
<1>3. ChainInv => BreaksReachEnd
  BY DEF ChainInv, BreaksReachEnd
<1> QED BY <1>1, <1>2, <1>3, PTL DEF Spec

=============================================================================
