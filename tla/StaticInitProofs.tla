-------------------------- MODULE StaticInitProofs --------------------------
(***************************************************************************)
(* Proofs about StaticInit, for a program with one thread, whatever its    *)
(* variables and constructors: emitted code runs once (RunsOnceCorrect)    *)
(* and, unless it jumps past the declaration, the program cannot tell it   *)
(* from initialisers with the run-time values (StaticCorrect).             *)
(***************************************************************************)
EXTENDS StaticInit, TLAPS

(* A global is pending or set; all are set before code of the program      *)
(* runs, because hidden constructors have the smallest priority.           *)
GlobalsInv ==
  /\ \A g \in Globals : sets[g] = IF g \in pending THEN 0 ELSE 1
  /\ pc[Main] # "startup" => Globals \cap pending = {}

(* The guard says how far the assignments have come. *)
GuardInv ==
  /\ chk = 0 => \A i \in Locals : sets[i] = 0
  /\ chk = 1 => \A i \in Locals :
       sets[i] = IF pc[Main] = "assign" /\ i >= next[Main] THEN 0 ELSE 1
  /\ pc[Main] = "chk" => chk = 0
  /\ pc[Main] = "assign" => chk = 1
  /\ pc[Main] = "body" /\ ~ jumps => chk = 1

Inv == TypeOK /\ GlobalsInv /\ GuardInv

USE DEF Locals, Cells

-----------------------------------------------------------------------------
LEMMA InitInv == ASSUME Threads = {Main} PROVE Init => Inv
  BY CellsAssumption, ThreadsAssumption
  DEF Init, Inv, TypeOK, GlobalsInv, GuardInv

(* A constructor of the program is the next only when no global is left. *)
LEMMA CtorsLast ==
  ASSUME NEW k \in Ctors, NextCtor(k) PROVE Globals \cap pending = {}
<1> SUFFICES ASSUME NEW g \in Globals, g \in pending PROVE FALSE
  OBVIOUS
<1>1. PriorityOf(k) <= PriorityOf(g)
  BY DEF NextCtor
<1>2. PriorityOf(k) \in Int /\ PriorityOf(k) >= 1
  BY PriorityAssumption DEF PriorityOf
<1>3. g \notin Ctors
  BY CellsAssumption
<1>4. PriorityOf(g) = 0
  BY <1>3 DEF PriorityOf, HiddenPriority
<1> QED
  BY <1>1, <1>2, <1>4

LEMMA StepInv ==
  ASSUME Threads = {Main}, Inv, [Next]_vars PROVE Inv'
<1> USE CellsAssumption, ThreadsAssumption, ValuesAssumption DEF Inv
<1>0. jumps' = jumps
  BY DEF Next, vars
<1> USE <1>0
<1>1. CASE UNCHANGED vars
  BY <1>1 DEF vars, TypeOK, GlobalsInv, GuardInv
<1>2. ASSUME NEW g \in Globals, HiddenCtor(g) PROVE Inv'
  <2>1. TypeOK'
    BY <1>2 DEF HiddenCtor, NextCtor, TypeOK
  <2>2. GlobalsInv'
    BY <1>2 DEF HiddenCtor, NextCtor, TypeOK, GlobalsInv
  <2>3. GuardInv'
    BY <1>2 DEF HiddenCtor, NextCtor, TypeOK, GuardInv
  <2> QED
    BY <2>1, <2>2, <2>3
<1>3. ASSUME NEW k \in Ctors, UserCtor(k) PROVE Inv'
  <2>1. TypeOK' /\ GuardInv'
    BY <1>3 DEF UserCtor, NextCtor, TypeOK, GuardInv
  <2>2. Globals \cap pending = {}
    BY <1>3, CtorsLast DEF UserCtor
  <2>3. GlobalsInv'
    BY <1>3, <2>2 DEF UserCtor, NextCtor, TypeOK, GlobalsInv
  <2> QED
    BY <2>1, <2>3
<1>4. CASE CtorReturns
  BY <1>4 DEF CtorReturns, TypeOK, GlobalsInv, GuardInv
<1>5. ASSUME NEW t \in Threads,
             Start(t) \/ Call(t) \/ JumpPast(t) \/ Test(t) \/ Return(t)
      PROVE  Inv'
  <2>1. t = Main
    OBVIOUS
  <2>2. TypeOK'
    BY <1>5 DEF Start, Call, JumpPast, Test, Return, TypeOK
  <2>3. GlobalsInv'
    BY <1>5, <2>1 DEF Start, Call, JumpPast, Test, Return, TypeOK, GlobalsInv
  <2>4. GuardInv'
    BY <1>5, <2>1 DEF Start, Call, JumpPast, Test, Return, TypeOK, GuardInv
  <2> QED
    BY <2>2, <2>3, <2>4
<1>6. ASSUME NEW t \in Threads, SetChk(t) PROVE Inv'
  <2>1. t = Main
    OBVIOUS
  <2>2. TypeOK' /\ GlobalsInv'
    BY <1>6, <2>1 DEF SetChk, TypeOK, GlobalsInv
  <2>3. GuardInv'
    BY <1>6, <2>1 DEF SetChk, TypeOK, GuardInv
  <2> QED
    BY <2>2, <2>3
<1>7. ASSUME NEW t \in Threads, Assign(t) PROVE Inv'
  <2>1. t = Main /\ next[Main] \in Locals
    BY DEF TypeOK
  <2>2. TypeOK'
    BY <1>7, <2>1 DEF Assign, TypeOK
  <2>3. GlobalsInv'
    BY <1>7, <2>1 DEF Assign, TypeOK, GlobalsInv
  <2>4. GuardInv'
    BY <1>7, <2>1 DEF Assign, TypeOK, GuardInv
  <2> QED
    BY <2>2, <2>3, <2>4
<1>8. ASSUME NEW t \in Threads, NEW c \in Cells,
             Read(t, c) \/ \E v \in Values : Write(t, c, v)
      PROVE  Inv'
  <2>1. cell[c] \in Values \cup {MAGIC}
    BY DEF TypeOK
  <2>2. TypeOK'
    BY <1>8, <2>1 DEF Read, Write, TypeOK
  <2>3. GlobalsInv' /\ GuardInv'
    BY <1>8 DEF Read, Write, GlobalsInv, GuardInv
  <2> QED
    BY <2>2, <2>3
<1> QED
  BY <1>1, <1>2, <1>3, <1>4, <1>5, <1>6, <1>7, <1>8 DEF Next

LEMMA SpecInv == ASSUME Threads = {Main} PROVE Spec => []Inv
  BY InitInv, StepInv, PTL DEF Spec

-----------------------------------------------------------------------------
(* In a program with one thread the variables have their types: a cell     *)
(* holds a value of its own or the magic number, and the thread is where   *)
(* its function can be.                                                    *)
THEOREM StaticTypes ==
  ASSUME Threads = {Main} PROVE Spec => []TypeOK
<1>1. Inv => TypeOK
  BY DEF Inv
<1> QED
  BY <1>1, SpecInv, PTL

(* In a program with one thread every variable is assigned at most once,   *)
(* even if control jumps past its declaration at times (the comment at     *)
(* src/src/initstruct/local.cc:63-66).                                     *)
THEOREM RunsOnceCorrect ==
  ASSUME Threads = {Main} PROVE Spec => []RunsOnce
<1>1. Inv => RunsOnce
  BY CellsAssumption DEF Inv, GlobalsInv, GuardInv, RunsOnce, TypeOK
<1> QED
  BY <1>1, SpecInv, PTL

(* If nothing jumps past the declaration, all that the program can name    *)
(* has been set.                                                           *)
LEMMA InvSet ==
  ASSUME Threads = {Main}, Inv PROVE SetBeforeUse
<1>1. ASSUME pc[Main] # "startup", NEW g \in Globals PROVE sets[g] > 0
  <2>1. g \notin pending
    BY <1>1 DEF Inv, GlobalsInv
  <2> QED
    BY <2>1 DEF Inv, GlobalsInv
<1>2. pc[Main] = "body" /\ ~ jumps => \A i \in Locals : sets[i] > 0
  BY DEF Inv, GuardInv
<1> QED
  BY <1>1, <1>2 DEF SetBeforeUse, Visible

(* In a program with one thread, all that it can name has been set, unless *)
(* it jumps past the declaration (src/src/initstruct/global.cc:97).        *)
THEOREM SetBeforeUseCorrect ==
  ASSUME Threads = {Main} PROVE Spec => []SetBeforeUse
<1>1. Inv => SetBeforeUse
  BY InvSet
<1> QED
  BY <1>1, SpecInv, PTL

(* Every step is a step of StaticVar, or changes nothing for the program. *)
LEMMA StepStatic ==
  ASSUME Threads = {Main}, Inv, [Next]_vars
  PROVE  [Static!Next]_(Static!vars)
<1>0. jumps' = jumps
  BY DEF Next, vars
<1>b. CASE jumps
  BY <1>0, <1>b DEF Static!vars
<1> SUFFICES ASSUME ~ jumps PROVE [Static!Next]_(Static!vars)
  BY <1>b
<1> USE <1>0, CellsAssumption, ThreadsAssumption, ValuesAssumption
<1> DEFINE bar == [c \in Cells |-> IF sets[c] = 0 THEN Real[c] ELSE cell[c]]
<1>a. ASSUME UNCHANGED <<cell, sets, last>> PROVE UNCHANGED Static!vars
  BY <1>a DEF Static!vars
<1>1. CASE UNCHANGED vars
  BY <1>1, <1>a DEF vars
<1>2. ASSUME NEW g \in Globals, HiddenCtor(g) PROVE UNCHANGED Static!vars
  <2>0. sets[g] = 0
    BY <1>2 DEF HiddenCtor, NextCtor, Inv, GlobalsInv
  <2>1. sets[g] = 0 /\ sets' = [sets EXCEPT ![g] = 1]
    BY <1>2, <2>0 DEF HiddenCtor
  <2>2. cell' = [cell EXCEPT ![g] = Real[g]] /\ last' = last
    BY <1>2 DEF HiddenCtor
  <2>3. bar' = bar
    BY <2>1, <2>2 DEF Inv, TypeOK
  <2> QED
    BY <2>2, <2>3 DEF Static!vars
<1>3. ASSUME NEW t \in Threads, Assign(t) PROVE UNCHANGED Static!vars
  <2> DEFINE i == next[Main]
  <2>1. t = Main /\ i \in Locals
    BY DEF Inv, TypeOK
  <2>2. sets[i] = 0
    BY <1>3, <2>1 DEF Assign, Inv, GuardInv
  <2>3. /\ sets' = [sets EXCEPT ![i] = 1]
        /\ cell' = [cell EXCEPT ![i] = Real[i]]
        /\ last' = last
    BY <1>3, <2>1, <2>2 DEF Assign, Inv, TypeOK
  <2>4. bar' = bar
    BY <2>1, <2>2, <2>3 DEF Inv, TypeOK
  <2> QED
    BY <2>3, <2>4 DEF Static!vars
<1>4. ASSUME NEW t \in Threads, NEW c \in Cells, Read(t, c)
      PROVE  Static!Read(c)
  <2>1. sets[c] > 0
    BY <1>4, InvSet DEF Read, SetBeforeUse
  <2>2. bar[c] = cell[c] /\ bar' = bar
    BY <1>4, <2>1 DEF Read, Inv, TypeOK
  <2> QED
    BY <1>4, <2>2 DEF Read, Static!Read
<1>5. ASSUME NEW t \in Threads, NEW c \in Cells, NEW v \in Values, Write(t, c, v)
      PROVE  Static!Write(c, v)
  <2>1. sets[c] > 0
    BY <1>5, InvSet DEF Write, SetBeforeUse
  <2>2. bar' = [bar EXCEPT ![c] = v]
    <3>1. cell' = [cell EXCEPT ![c] = v] /\ sets' = sets
      BY <1>5 DEF Write
    <3>2. sets[c] # 0
      BY <2>1 DEF Inv, TypeOK
    <3> QED
      BY <3>1, <3>2 DEF Inv, TypeOK
  <2> QED
    BY <1>5, <2>2 DEF Write, Static!Write
<1>6. ASSUME NEW t \in Threads,
             Start(t) \/ Call(t) \/ JumpPast(t) \/ Test(t) \/ SetChk(t) \/ Return(t)
      PROVE  UNCHANGED Static!vars
  BY <1>6, <1>a DEF Start, Call, JumpPast, Test, SetChk, Return
<1>7. ASSUME NEW k \in Ctors, UserCtor(k) PROVE UNCHANGED Static!vars
  BY <1>7, <1>a DEF UserCtor
<1>8. CASE CtorReturns
  BY <1>8, <1>a DEF CtorReturns
<1> QED
  BY <1>1, <1>2, <1>3, <1>4, <1>5, <1>6, <1>7, <1>8 DEF Next, Static!Next

(* A program with one thread cannot tell its rewritten variables from      *)
(* variables initialised with the run-time values, whatever constructors   *)
(* it has, unless it jumps past a declaration (src/README.md:63-66).       *)
THEOREM StaticCorrect ==
  ASSUME Threads = {Main} PROVE Spec => ImplementsStatic
<1>1. Init => Static!Init
  BY CellsAssumption, ValuesAssumption DEF Init, Static!Init
<1>2. Inv /\ [Next]_vars => [Static!Next]_(Static!vars)
  BY StepStatic
<1> QED
  BY <1>1, <1>2, SpecInv, PTL DEF Spec, ImplementsStatic, Static!Spec

=============================================================================
