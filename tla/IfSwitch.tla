------------------------------ MODULE IfSwitch ------------------------------
(***************************************************************************)
(* build_modded_switch_stmt (src/src/ifswitch/ifswitch.cc): a switch with  *)
(* a label that is a macro's constant becomes a chain of if statements     *)
(* that jump into its body.  Here the rewriting is one step, and then the  *)
(* rewritten statements run.                                               *)
(*                                                                         *)
(* Which labels are recognised by their records is Portcosmo's CaseLabel.  *)
(* A switch is rewritten only if it has such a label, so that there is an  *)
(* if, and the branches for a chain without one (lines 204-211) are dead.  *)
(***************************************************************************)
EXTENDS Integers, Sequences

CONSTANTS Bodies, Values, Meaning, NULL

(* The bodies gcc's parser lets through: labels differ and there is one    *)
(* default at most.  Labels inside a block (Duff's device) are excluded    *)
(* by the README of the repository; so are magic numbers in ranges.        *)
Source == INSTANCE SwitchSem
            WITH Bodies <- {}, body <- <<>>, mode <- "cond", at <- 0, x <- NULL

Labels(b)   == Source!Labels(b)
Defaults(b) == Source!Defaults(b)

WellFormed(b) ==
  /\ \A i \in DOMAIN b :
       /\ b[i].kind \notin {"stmt", "break"} => b[i].depth = 0
       /\ b[i].kind = "case" => b[i].low = b[i].high
       /\ b[i].kind = "range" => b[i].low \notin DOMAIN Meaning
                              /\ b[i].high \notin DOMAIN Meaning
  /\ \A i, j \in Labels(b) :
       b[i].low <= b[j].high /\ b[j].low <= b[i].high => i = j
  /\ \A i, j \in Defaults(b) : i = j

ASSUME BodiesAssumption ==
  \A b \in Bodies : b \in Seq(Source!Item) /\ WellFormed(b)

ASSUME NullAssumption == NULL \notin Values /\ Values \subseteq Int
ASSUME MeaningAssumption == \A m \in DOMAIN Meaning : Meaning[m] \in Int

VARIABLES
  body,       \* SWITCH_STMT_BODY
  code,       \* what has become of it, NULL before the rewriting
  mode,       \* "source", "chain", "body", "after", "outer"
  test,       \* the if of the chain that is tried
  at,         \* the statement control is at
  x           \* save_expr(SWITCH_STMT_COND): NULL until it is evaluated

vars == <<body, code, mode, test, at, x>>

-----------------------------------------------------------------------------
(* count_mods_in_switch: the labels that are recognised *)
Modded(b) == {i \in DOMAIN b : b[i].kind = "case" /\ b[i].low \in DOMAIN Meaning}

First(S) == CHOOSE i \in S : \A j \in S : i <= j
Later(b, i) == {j \in Labels(b) : j > i}

END == 0      \* the label __tmpcosmo_N___end behind the body

(* modded_case_label: the condition of the if pushed for label i.  A       *)
(* label that was recognised is compared with the variable.                *)
Low(b, i)  == IF i \in Modded(b) THEN Meaning[b[i].low] ELSE b[i].low
High(b, i) == IF i \in Modded(b) THEN Meaning[b[i].low] ELSE b[i].high

(* The else of the last if. *)
LastElse(b) ==
  IF Defaults(b) = {} THEN END ELSE CHOOSE i \in Defaults(b) : TRUE

(* One statement of the list.  The loop looks into blocks, not deeper. *)
ModdedStmt(item) ==
  IF item.kind = "break" /\ item.depth <= 1 THEN "goto_end"
  ELSE IF item.kind \in {"case", "range", "default"} THEN "label" ELSE item.kind

(* The whole: for each label of the chain its comparison and the label its *)
(* else leads to (END stands for the last else), and the statements.       *)
Rewrite(b) ==
  [low   |-> [i \in Labels(b) |-> Low(b, i)],
   high  |-> [i \in Labels(b) |-> High(b, i)],
   first |-> First(Labels(b)),
   else  |-> [i \in Labels(b) |-> IF Later(b, i) = {} THEN END
                                  ELSE First(Later(b, i))],
   last  |-> LastElse(b),
   list  |-> [i \in DOMAIN b |-> ModdedStmt(b[i])]]

-----------------------------------------------------------------------------
Init ==
  /\ body \in {b \in Bodies : Modded(b) # {}}
  /\ code = NULL
  /\ mode = "source"
  /\ test = 0
  /\ at = 0
  /\ x = NULL

BuildModdedSwitchStmt ==
  /\ mode = "source"
  /\ code' = Rewrite(body)
  /\ mode' = "chain"
  /\ test' = code'.first
  /\ UNCHANGED <<body, at, x>>

Goto_Start(label) ==     \* fault: the label END is put before the body
  mode' = "body" /\ at' = label

Goto(label) ==
  IF label = END THEN mode' = "after" /\ at' = 0
                 ELSE mode' = "body" /\ at' = label

(* One if of the chain.  The condition is a SAVE_EXPR: the first if        *)
(* evaluates it, the others see the same value.                            *)
Test_NoSave(v) ==        \* fault: every if evaluates the condition anew
  /\ mode = "chain"
  /\ x' = v
  /\ IF code.low[test] <= v /\ v <= code.high[test]
       THEN Goto(test) /\ UNCHANGED test
       ELSE IF code.else[test] = END
              THEN Goto(code.last) /\ UNCHANGED test
              ELSE test' = code.else[test] /\ UNCHANGED <<mode, at>>
  /\ UNCHANGED <<body, code>>

Test(v) ==
  /\ mode = "chain"
  /\ x # NULL => v = x
  /\ x' = v
  /\ IF code.low[test] <= v /\ v <= code.high[test]
       THEN Goto(test) /\ UNCHANGED test
       ELSE IF code.else[test] = END
              THEN Goto(code.last) /\ UNCHANGED test
              ELSE test' = code.else[test] /\ UNCHANGED <<mode, at>>
  /\ UNCHANGED <<body, code>>

(* A label or statement; or a break that was not rewritten and is not      *)
(* reached.  Behind the last one is the label END.                         *)
Pass ==
  /\ mode = "body"
  /\ at \in DOMAIN code.list
  /\ code.list[at] = "break" => body[at].depth = 2
  /\ code.list[at] # "goto_end"
  /\ at' = at + 1
  /\ UNCHANGED <<body, code, mode, test, x>>

(* Control leaves: it is behind the last statement, at a goto END, or at a *)
(* break that was left, which leaves the loop or switch around this one.   *)
Leave ==
  /\ mode = "body"
  /\ at \in DOMAIN code.list => code.list[at] \in {"goto_end", "break"}
  /\ mode' = IF at \in DOMAIN code.list /\ code.list[at] = "break"
               THEN "outer" ELSE "after"
  /\ at' = 0
  /\ UNCHANGED <<body, code, test, x>>

Terminated == mode \in {"after", "outer"} /\ UNCHANGED vars

Next ==
  \/ BuildModdedSwitchStmt
  \/ \E v \in Values : Test(v)
  \/ Pass
  \/ Leave
  \/ Terminated

Spec == Init /\ [][Next]_vars
FairSpec == Spec /\ WF_vars(Next)

-----------------------------------------------------------------------------
TypeOK ==
  /\ body \in Bodies
  /\ code = IF mode = "source" THEN NULL ELSE Rewrite(body)
  /\ mode \in {"source", "chain", "body", "after", "outer"}
  /\ IF mode = "source" THEN test = 0 ELSE test \in Labels(body)
  /\ at \in IF mode = "body" THEN 1..Len(body) + 1 ELSE {0}
  /\ x \in Values \cup {NULL}

(* The comment at src/src/ifswitch/ifswitch.cc:216-218: the exit label is  *)
(* "the target of the break statements".  No break of the switch leads     *)
(* anywhere else.                                                          *)
BreaksReachEnd == mode # "outer"

(* The rewritten statements do what the switch meant: while the chain is   *)
(* tried the switch has not been entered.  With fairness this says too     *)
(* that control gets behind the switch.                                    *)
Switch == INSTANCE SwitchSem
            WITH mode <- IF mode \in {"source", "chain"} THEN "cond" ELSE mode,
                 x    <- IF mode \in {"source", "chain"} THEN NULL ELSE x

ImplementsSwitch == Switch!FairSpec

=============================================================================
