---------------------------- MODULE MCInitializer ----------------------------
(***************************************************************************)
(* Instances of Initializer for TLC: nested initializers with few macros,  *)
(* and flat ones of every macro, with a record for each macro there is.    *)
(***************************************************************************)
EXTENDS Initializer, SequencesExt

CONSTANT MaxElts       \* bound: elements of a constructor

(* TLC counts to 2^31: an int has 26 bits, a long 29.  The numbers need 25 *)
(* bits, and a short is as in the program.                                 *)
Scaled ==
  [short |-> 65536, ushort |-> 65536, int |-> 67108864, uint |-> 67108864,
   long |-> 536870912, ulong |-> 536870912]

(* Macros: all but the speeds, which are the opposites of error numbers. *)
ErrnoEtc == SignedMagic \cup InetMagic

EUNATCH == -15823504
EAGAIN  == -15823506
B9600   == 15823504
Few     == {EUNATCH, EAGAIN}

At(l) == [line |-> l, col |-> 1]

Recorded(names, lines) ==
  Recount([i \in DOMAIN names |->
             [use |-> i, loc |-> At(lines[i]), name |-> names[i]]])

Group(c, l, b) == [ctors |-> c, lists |-> l, bounds |-> b]

(* The sequence of the elements of a tree: a tree is an element and the    *)
(* trees in it, and comes behind k elements.                               *)
Leaf(elt)   == [elt |-> elt, in |-> <<>>]
Tree(trees) == [elt |-> Ctor, in |-> trees]

RECURSIVE Flat(_, _, _)
Flat(trees, up, k) ==
  IF trees = <<>> THEN <<>>
  ELSE LET t     == Head(trees)
           inner == Flat(t.in, k + 1, k + 1)
           last  == k + 1 + Len(inner)
       IN  <<[elt |-> t.elt, up |-> up, last |-> last]>> \o inner
             \o Flat(Tail(trees), up, last)

-----------------------------------------------------------------------------
(* Initializers of up to MaxElts elements, up to two records on lines 1 to *)
(* 3 in any order, and a bound behind, between or before them.             *)
Plain  == {Leaf(Cst(m, "plain", "int")) : m \in Few}
Leaves == Plain \cup {Leaf(Other), Leaf(Cst(EAGAIN, "minus", "int"))}
Trees  == {Tree(e) : e \in {f \in BoundedSeq(Plain, 2) : IsInjective(f)}}
            \cup {Tree(<<Tree(<<c>>)>>) : c \in Plain}

Initializers == {Flat(e, 0, 0) : e \in BoundedSeq(Leaves \cup Trees, MaxElts)}

ShortLists ==
  UNION {{Recorded(n, l) : n \in [1..k -> Few], l \in [1..k -> 1..3]} : k \in 1..2}

NestedOnes == Group(Initializers, ShortLists, {At(2), At(3)})

(* Four elements of the same kind, such that every macro has its turn, and *)
(* a record of every macro, in both orders.                                *)
Ascending ==
  SelectSeq([i \in 1..328 |-> -15824160 + 2 * i], LAMBDA v : v \in ErrnoEtc)
    \o <<58236>>
LongLists ==
  {Recorded(s, [i \in DOMAIN s |-> 1]) : s \in {Ascending, Reverse(Ascending)}}

Fours == {SubSeq(Ascending, 4 * i - 3, 4 * i) : i \in 1..82}

EveryMacro ==
  Group({Flat([i \in 1..4 |-> Leaf(Cst(s[i], o, t))], 0, 0) : s \in Fours, o \in Ops, t \in Types},
        LongLists, {At(2)})

AllSearches == {NestedOnes, EveryMacro}

(* {.b = EUNATCH, .a = B9600}, a being the first member *)
WithBaud == {EUNATCH, B9600}
DesignatedSearch ==
  {Group({Flat(<<Leaf(Cst(B9600, "plain", "uint")), Leaf(Cst(EUNATCH, "plain", "int"))>>, 0, 0)},
         {Recorded(<<EUNATCH, B9600>>, <<1, 1>>)}, {At(2), At(3)})}
=============================================================================
