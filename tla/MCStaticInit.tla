---------------------------- MODULE MCStaticInit ----------------------------
(* Instances of StaticInit for TLC. *)
EXTENDS StaticInit, TLC

CONSTANTS GLOBAL, EARLY, LATE, ONE, TWO

(* Two constructors of the program: the first the language allows, and one *)
(* without a priority. *)
SomePriority == EARLY :> 101 @@ LATE :> DEFAULT_INIT_PRIORITY

(* Two macros. *)
SomeReal == GLOBAL :> ONE @@ 1 :> ONE @@ 2 :> TWO
=============================================================================
