----------------------------- MODULE MCPortcosmo -----------------------------
(* Instances of Portcosmo for TLC.                                         *)
EXTENDS Portcosmo

CONSTANTS ONE, TWO    \* two of the macros of tmpconst.h

At(l, c) == [line |-> l, col |-> c]

(* Two lines, two columns on the first, and the column-0 location that the *)
(* preprocessor gives for an #ifdef.                                       *)
TwoLines == {At(1, 1), At(1, 2), At(2, 1)}
SmallLocations == {At(1, 0), At(1, 1), At(2, 1)}

(* A constant is read as its own macro, or not read at all. *)
TrueReadings == {<<m, m>> : m \in Names} \cup {<<m, NULL>> : m \in Names}

(* ... or a literal, or what another macro was folded into, is mistaken. *)
AllReadings == (Names \cup {NULL}) \X (Names \cup {NULL})

(* The hooks of the preprocessor before the plugin: nobody's, anybody's,   *)
(* or that of definitions taken, as by -g3.                                *)
FreeHooks   == {<<"none", "none">>}
AnyHooks    == {"none", "other"} \X {"none", "other"}
DefineTaken == {<<"other", "none">>}
=============================================================================
