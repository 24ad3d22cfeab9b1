----------------------------- MODULE StaticInit -----------------------------
(***************************************************************************)
(* The code the plugin emits for the initialisers of static variables, at  *)
(* run time.  A global gets a hidden constructor that assigns the macro's  *)
(* variable to it (update_global_decls, src/src/initstruct/global.cc); the *)
(* declaration of a static in a function is followed by                    *)
(*                                                                         *)
(*     if (__chk_ifs_v != 1) { __chk_ifs_v = 1; v = VAR; ... }             *)
(*                                                                         *)
(* (src/src/initstruct/local.cc), one assignment for each constant.        *)
(* Until then they hold magic numbers.                                     *)
(*                                                                         *)
(* The program has some constructors of its own, main, and a function with *)
(* one static variable.  Calls may be nested: an inner call comes back to  *)
(* where the outer one could be as well, so that no stack is needed.       *)
(***************************************************************************)
EXTENDS Integers

CONSTANTS
  Globals,       \* the global integers with a constant
  Length,        \* the number of constants in the function's static
  Ctors,         \* the program's own constructors
  Priority,      \* their priorities
  Threads, Main, \* the threads that call the function
  Jumps,         \* the values that jumps may have
  Values, Real, MAGIC, NULL

Locals == 1..Length
Cells  == Globals \cup Locals

(* Priority 0 is reserved for the implementation. *)
DEFAULT_INIT_PRIORITY == 65535

ASSUME CellsAssumption ==
  Length \in Nat \ {0} /\ Globals \cap Locals = {} /\ Globals \cap Ctors = {}
ASSUME PriorityAssumption == Priority \in [Ctors -> 1..DEFAULT_INIT_PRIORITY]
ASSUME ThreadsAssumption == Main \in Threads /\ Jumps \subseteq BOOLEAN
ASSUME ValuesAssumption == Real \in [Cells -> Values] /\ MAGIC \notin Values

VARIABLES
  jumps,     \* whether a goto or a case label leads past the declaration
  pending,   \* constructors that have not run: globals stand for theirs
  pc,        \* thread -> "startup", "program", "test", "chk", "assign", "body"
  next,      \* thread -> the assignment of the static's that is next
  chk,       \* __chk_ifs_v
  cell,      \* the values of the variables
  sets,      \* history: cell -> how often emitted code has assigned it
  last       \* the program's last access

vars == <<jumps, pending, pc, next, chk, cell, sets, last>>

-----------------------------------------------------------------------------
Init ==
  /\ jumps \in Jumps
  /\ pending = Globals \cup Ctors
  /\ pc = [t \in Threads |-> "startup"]
  /\ next = [t \in Threads |-> 1]
  /\ chk = 0
  /\ cell = [c \in Cells |-> MAGIC]
  /\ sets = [c \in Cells |-> 0]
  /\ last = NULL

(* cgraph_build_static_cdtor('I', body, 0) *)
HiddenPriority_Default ==   \* fault: as a constructor without a priority
  DEFAULT_INIT_PRIORITY

HiddenPriority == 0

PriorityOf(k) == IF k \in Ctors THEN Priority[k] ELSE HiddenPriority

(* Constructors run in the order of their priorities; the order of those   *)
(* with the same one is up to the linker.                                  *)
NextCtor(k) ==
  /\ pc[Main] = "startup"
  /\ k \in pending
  /\ \A j \in pending : PriorityOf(k) <= PriorityOf(j)
  /\ pending' = pending \ {k}

(* Nothing else runs yet, so that all that the hidden constructor of an    *)
(* aggregate assigns is one step, and its elements may count as globals.   *)
HiddenCtor(g) ==
  /\ NextCtor(g)
  /\ cell' = [cell EXCEPT ![g] = Real[g]]
  /\ sets' = [sets EXCEPT ![g] = @ + 1]
  /\ UNCHANGED <<pc, next, chk, last>>

UserCtor(k) ==
  /\ NextCtor(k)
  /\ pc' = [pc EXCEPT ![Main] = "program"]
  /\ UNCHANGED <<next, chk, cell, sets, last>>

CtorReturns ==
  /\ pc[Main] = "program"
  /\ pending # {}
  /\ pc' = [pc EXCEPT ![Main] = "startup"]
  /\ UNCHANGED <<pending, next, chk, cell, sets, last>>

(* main, and later the other threads. *)
Start(t) ==
  /\ pc[t] = "startup"
  /\ pending = {}
  /\ t # Main => pc[Main] # "startup"
  /\ pc' = [pc EXCEPT ![t] = "program"]
  /\ UNCHANGED <<pending, next, chk, cell, sets, last>>

(* The function is called and reaches the declaration, or jumps past it. *)
Call(t) ==
  /\ pc[t] \in {"program", "body"}
  /\ pc' = [pc EXCEPT ![t] = "test"]
  /\ UNCHANGED <<pending, next, chk, cell, sets, last>>

JumpPast(t) ==
  /\ jumps
  /\ pc[t] \in {"program", "body"}
  /\ pc' = [pc EXCEPT ![t] = "body"]
  /\ UNCHANGED <<pending, next, chk, cell, sets, last>>

Test(t) ==
  /\ pc[t] = "test"
  /\ pc' = [pc EXCEPT ![t] = IF chk # 1 THEN "chk" ELSE "body"]
  /\ UNCHANGED <<pending, next, chk, cell, sets, last>>

SetChk_Not(t) ==            \* fault: the guard is not set
  /\ pc[t] = "chk"
  /\ pc' = [pc EXCEPT ![t] = "assign"]
  /\ next' = [next EXCEPT ![t] = 1]
  /\ UNCHANGED <<pending, chk, cell, sets, last>>

SetChk(t) ==
  /\ pc[t] = "chk"
  /\ chk' = 1
  /\ pc' = [pc EXCEPT ![t] = "assign"]
  /\ next' = [next EXCEPT ![t] = 1]
  /\ UNCHANGED <<pending, cell, sets, last>>

Assign_Past(t) ==           \* fault: stores behind the variable
  /\ pc[t] = "assign"
  /\ next' = [next EXCEPT ![t] = @ + 1]
  /\ cell' = [cell EXCEPT ![next[t]] = Real[next[t]]]
  /\ sets' = [sets EXCEPT ![next[t]] = @ + 1]
  /\ pc' = [pc EXCEPT ![t] = IF next[t] > Length THEN "body" ELSE @]
  /\ UNCHANGED <<pending, chk, last>>

Assign(t) ==
  /\ pc[t] = "assign"
  /\ cell' = [cell EXCEPT ![next[t]] = Real[next[t]]]
  /\ sets' = [sets EXCEPT ![next[t]] = @ + 1]
  /\ IF next[t] < Length
       THEN next' = [next EXCEPT ![t] = @ + 1] /\ UNCHANGED pc
       ELSE pc' = [pc EXCEPT ![t] = "body"] /\ UNCHANGED next
  /\ UNCHANGED <<pending, chk, last>>

Return(t) ==
  /\ pc[t] = "body"
  /\ pc' = [pc EXCEPT ![t] = "program"]
  /\ UNCHANGED <<pending, next, chk, cell, sets, last>>

(* The cells a thread can name: the static is in scope in the function. *)
Visible(t) ==
  CASE pc[t] = "program" -> Globals
    [] pc[t] = "body"    -> Cells
    [] OTHER             -> {}

Read(t, c) ==
  /\ c \in Visible(t)
  /\ last' = <<"read", c, cell[c]>>
  /\ UNCHANGED <<pending, pc, next, chk, cell, sets>>

Write(t, c, v) ==
  /\ c \in Visible(t)
  /\ cell' = [cell EXCEPT ![c] = v]
  /\ last' = <<"write", c, v>>
  /\ UNCHANGED <<pending, pc, next, chk, sets>>

Next ==
  /\ UNCHANGED jumps
  /\ \/ \E g \in Globals : HiddenCtor(g)
     \/ \E k \in Ctors : UserCtor(k)
     \/ CtorReturns
     \/ \E t \in Threads :
          \/ Start(t) \/ Call(t) \/ JumpPast(t)
          \/ Test(t) \/ SetChk(t) \/ Assign(t) \/ Return(t)
          \/ \E c \in Cells : Read(t, c) \/ \E v \in Values : Write(t, c, v)

Spec == Init /\ [][Next]_vars

-----------------------------------------------------------------------------
TypeOK ==
  /\ jumps \in Jumps
  /\ pending \subseteq Globals \cup Ctors
  /\ pc \in [Threads -> {"startup", "program", "test", "chk", "assign", "body"}]
  /\ next \in [Threads -> Locals]
  /\ chk \in {0, 1}
  /\ cell \in [Cells -> Values \cup {MAGIC}]
  /\ sets \in [Cells -> Nat]
  /\ last \in ({"read", "write"} \X Cells \X (Values \cup {MAGIC})) \cup {NULL}

(* The comment at src/src/initstruct/local.cc:63-66: "the modified         *)
(* statement runs exactly once".                                           *)
RunsOnce == \A c \in Cells : sets[c] <= 1

(* If nothing jumps past the declaration, whatever the program can name    *)
(* has been set: the statement has run "whenever the function is first     *)
(* called, right after the initialization of the variable" (comment at     *)
(* src/src/initstruct/local.cc:63-66), and hidden constructors run "before *)
(* anything uses the static" (comment at                                   *)
(* src/src/initstruct/global.cc:42-43).                                    *)
SetBeforeUse == ~ jumps => \A t \in Threads : \A c \in Visible(t) : sets[c] > 0

(* The program cannot tell the emitted code from initialisers with the     *)
(* run-time values.  (A program that jumps past the declaration is         *)
(* promised nothing.)                                                      *)
Static == INSTANCE StaticVar
            WITH cell <- IF jumps THEN Real
                         ELSE [c \in Cells |-> IF sets[c] = 0 THEN Real[c] ELSE cell[c]],
                 last <- IF jumps THEN NULL ELSE last

ImplementsStatic == Static!Spec

=============================================================================
