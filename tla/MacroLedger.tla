----------------------------- MODULE MacroLedger -----------------------------
(***************************************************************************)
(* What the plugin promises about the uses it records (README.md of the    *)
(* repository, "How does it work?"): "errors out [...] if it is unable to  *)
(* confirm all the macro usage records were substituted successfully".     *)
(*                                                                         *)
(* Every recorded use stays pending until it is substituted, or until a    *)
(* check finds uses pending, reports them, and gives up the others with    *)
(* them.  Once the compilation ends nothing is pending.                    *)
(***************************************************************************)
CONSTANT Uses       \* the macro uses of the source

VARIABLES
  status,     \* of every use
  failed,     \* an error was raised
  finished    \* the plugin's last callback returned

vars == <<status, failed, finished>>

Statuses == {"unseen", "pending", "substituted", "reported", "dropped"}

Pending == {u \in Uses : status[u] = "pending"}

TypeOK ==
  /\ status \in [Uses -> Statuses]
  /\ failed \in BOOLEAN
  /\ finished \in BOOLEAN

Init ==
  /\ status = [u \in Uses |-> "unseen"]
  /\ failed = FALSE
  /\ finished = FALSE

(* A use is met and recorded. *)
Record(u) ==
  /\ status[u] = "unseen"
  /\ status' = [status EXCEPT ![u] = "pending"]
  /\ UNCHANGED <<failed, finished>>

(* Its constant is found and replaced. *)
Substitute(u) ==
  /\ status[u] = "pending"
  /\ status' = [status EXCEPT ![u] = "substituted"]
  /\ UNCHANGED <<failed, finished>>

(* A check that finds the uses of bad still pending, made right after the *)
(* (at most one) substitution of sub, possibly as the very last step.     *)
Report(sub, bad) ==
  /\ bad # {}
  /\ \E u \in Uses : sub \subseteq {u}
  /\ sub \cap bad = {}
  /\ status' = [u \in Uses |->
                  CASE u \in sub            -> "substituted"
                    [] u \in bad            -> "reported"
                    [] u \in Pending \ (sub \cup bad) -> "dropped"
                    [] OTHER                -> status[u]]
  /\ failed' = TRUE
  /\ finished' \in BOOLEAN

(* Another error: a macro that cannot be checked, a const variable, ... *)
Fail ==
  /\ failed' = TRUE
  /\ UNCHANGED <<status, finished>>

Finish ==
  /\ Pending = {}
  /\ finished' = TRUE
  /\ UNCHANGED <<status, failed>>

Next ==
  /\ ~ finished
  /\ \/ \E u \in Uses : Record(u) \/ Substitute(u)
     \/ \E sub, bad \in SUBSET Pending : Report(sub, bad)
     \/ Fail
     \/ Finish

Spec == Init /\ [][Next]_vars

-----------------------------------------------------------------------------
(* A compilation that ends without an error has substituted every use it   *)
(* recorded.                                                               *)
Kept ==
  finished /\ ~ failed => \A u \in Uses : status[u] \in {"unseen", "substituted"}

=============================================================================
